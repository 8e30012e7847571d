---------------------------- MODULE AgentsProofs ----------------------------
(***************************************************************************)
(* Machine-checked theorems about the three users of the agent runtime and *)
(* about their composition, for any findings, days, types, model answers,  *)
(* any number of overlapping runs, and any cap and bounds.  One section    *)
(* each: the suggester, the digest, the coverage advisor, then Agents.     *)
(***************************************************************************)
EXTENDS Agents, SumTheorems, SequenceTheorems

-----------------------------------------------------------------------------
(***************************************************************************)
(* Suggester.                                                              *)
(*                                                                         *)
(* The invariant says of every open transaction: what it has written lies  *)
(* on rows no administrator has seeded, and declares what belongs to the   *)
(* finding (WrittenIsSafe); the draft in hand is grounded                  *)
(* (DraftIsGrounded); and its account adds up (AccountIsTrue).             *)
(***************************************************************************)
(* Lemmas about the operators of agent_runs.py.                            *)

\* One conversation costs at most its bound.
LEMMA CostIsBounded == \A c \in Conversations : Cost(c) \in 0..MaxIterations
BY RuntimeAssumption DEF Conversations, Cost

-----------------------------------------------------------------------------
(* The invariant.                                                          *)

\* What a transaction has written is what it may commit.
WrittenIsSafe(r) ==
    \A f \in r.wrote : suggestion[f].source # "admin_seeded" /\ r.texts[f].cites \subseteq Own[f]

\* A draft has a finding, and declares only what that finding allows.
DraftIsGrounded(r) ==
    r.draft # NoDraft => /\ r.draft.finding \in Findings
                         /\ r.draft.text.cites \subseteq Own[r.draft.finding]

\* Only the call that ended the pass with an error is missing from the account.
AccountIsTrue(r) ==
    /\ r.stage # "ending" => ~r.error /\ r.spent = r.consumed
    /\ r.stage = "ending" => r.error /\ r.spent - r.consumed \in 0..MaxIterations

PassIsSafe(r) == WrittenIsSafe(r) /\ DraftIsGrounded(r) /\ AccountIsTrue(r)

SuggesterInv ==
    /\ SuggesterTypeOK
    /\ \A p \in Passes : PassIsSafe(pass[p])
    /\ SuggestionIsOwn
    /\ PassRowIsTrue

LEMMA IdlePassType == /\ IdlePass \in PassRecords /\ NoDraft.text.cites = {}
                        /\ NoText \in Texts /\ NoText.cites = {}
BY RuntimeAssumption, SuggesterAssumption DEF IdlePass, PassRecords, NoDraft, NoText, Texts, Findings

LEMMA IdlePassSafe == PassIsSafe(IdlePass)
BY RuntimeAssumption
   DEF IdlePass, PassIsSafe, WrittenIsSafe, DraftIsGrounded, AccountIsTrue, NoDraft

LEMMA SuggesterInitInv == SuggesterInit => SuggesterInv
<1>. SUFFICES ASSUME SuggesterInit PROVE SuggesterInv
  OBVIOUS
<1>. USE RuntimeAssumption, SuggesterAssumption
<1>1. NoSuggestion \in Suggestions /\ NoPassRow \in PassRows
  BY IdlePassType DEF NoSuggestion, Suggestions, NoPassRow, PassRows
<1>2. SuggesterTypeOK
  BY <1>1, IdlePassType DEF SuggesterInit, SuggesterTypeOK
<1>3. \A p \in Passes : PassIsSafe(pass[p])
  BY IdlePassSafe DEF SuggesterInit
<1>4. SuggestionIsOwn
  BY IdlePassType DEF SuggesterInit, SuggestionIsOwn, NoSuggestion
<1>5. PassRowIsTrue
  BY DEF SuggesterInit, PassRowIsTrue, NoPassRow
<1>. QED
  BY <1>2, <1>3, <1>4, <1>5 DEF SuggesterInv

\* Steps of a pass that only change its own record.
LEMMA OnePassStep ==
    ASSUME SuggesterInv, NEW p \in Passes, NEW r \in PassRecords, PassIsSafe(r),
           pass' = [pass EXCEPT ![p] = r], passesBegun' \in 0..MaxPasses,
           UNCHANGED <<finding, escalated, suggestion, passRow>>
    PROVE  SuggesterInv'
<1>1. SuggesterTypeOK'
  BY DEF SuggesterInv, SuggesterTypeOK
<1>2. \A q \in Passes : PassIsSafe(pass'[q])
  BY DEF SuggesterInv, SuggesterTypeOK
<1>3. \A q \in Passes : PassIsSafe(pass[q])'
  BY <1>2 DEF PassIsSafe, WrittenIsSafe, DraftIsGrounded, AccountIsTrue
<1>. QED
  BY <1>1, <1>3 DEF SuggesterInv, SuggestionIsOwn, PassRowIsTrue

\* What a model call makes of the account of a pass.
LEMMA PaidPass ==
    ASSUME NEW r \in PassRecords, PassIsSafe(r), r.stage = "drafting", r.draft = NoDraft,
           ~Exhausted(r.consumed), NEW k \in 0..MaxIterations, NEW f \in Findings
    PROVE  LET paid == [r EXCEPT !.spent = @ + k]
               charged == [paid EXCEPT !.consumed = @ + k, !.left = @ \ {f}, !.urgent = @ \ {f}]
           IN /\ [paid EXCEPT !.error = TRUE, !.stage = "ending"] \in PassRecords
              /\ PassIsSafe([paid EXCEPT !.error = TRUE, !.stage = "ending"])
              /\ charged \in PassRecords
              /\ PassIsSafe(charged)
              /\ charged.draft = NoDraft
<1>. USE RuntimeAssumption, SuggesterAssumption
<1>. DEFINE paid == [r EXCEPT !.spent = @ + k]
            charged == [paid EXCEPT !.consumed = @ + k, !.left = @ \ {f}, !.urgent = @ \ {f}]
            ended == [paid EXCEPT !.error = TRUE, !.stage = "ending"]
<1>1. r.consumed + k \in 0..(CostCap + MaxIterations - 1) /\ r.spent + k \in Nat
  BY DEF Exhausted, PassRecords
<1>2. paid \in PassRecords
  BY <1>1 DEF PassRecords
<1>3. ended \in PassRecords /\ charged \in PassRecords
  BY <1>1, <1>2 DEF PassRecords
<1>4. /\ ended.wrote = r.wrote /\ ended.texts = r.texts /\ ended.draft = r.draft
      /\ ended.stage = "ending" /\ ended.error = TRUE
      /\ ended.spent = r.spent + k /\ ended.consumed = r.consumed
  BY DEF PassRecords
<1>5. /\ charged.wrote = r.wrote /\ charged.texts = r.texts /\ charged.draft = r.draft
      /\ charged.stage = r.stage /\ charged.error = r.error
      /\ charged.spent = r.spent + k /\ charged.consumed = r.consumed + k
  BY DEF PassRecords
<1>. HIDE DEF paid, charged, ended
<1>6. r.spent = r.consumed /\ ~r.error /\ r.consumed \in Nat
  BY DEF PassIsSafe, AccountIsTrue, PassRecords
<1>7. PassIsSafe(ended)
  BY <1>4, <1>6 DEF PassIsSafe, WrittenIsSafe, DraftIsGrounded, AccountIsTrue
<1>8. PassIsSafe(charged)
  BY <1>5, <1>6 DEF PassIsSafe, WrittenIsSafe, DraftIsGrounded, AccountIsTrue
<1>. QED
  BY <1>3, <1>5, <1>7, <1>8 DEF paid, charged, ended

LEMMA DraftStep ==
    ASSUME SuggesterInv, NEW p \in Passes, DraftSuggestion(p)
    PROVE  SuggesterInv'
<1>. USE RuntimeAssumption, SuggesterAssumption
<1>. DEFINE r == pass[p]
<1>1. /\ r \in PassRecords /\ PassIsSafe(r) /\ r.stage = "drafting" /\ r.draft = NoDraft
      /\ ~Exhausted(r.consumed) /\ r.left \subseteq Findings
      /\ UNCHANGED <<finding, escalated, suggestion, passesBegun, passRow>>
  BY DEF DraftSuggestion, SuggesterInv, SuggesterTypeOK, PassRecords
<1>2. passesBegun' \in 0..MaxPasses
  BY <1>1 DEF SuggesterInv, SuggesterTypeOK
<1>3. PICK f \in r.left, c \in Conversations :
         LET paid == [r EXCEPT !.spent = @ + Cost(c)]
             charged == [paid EXCEPT !.consumed = @ + Cost(c), !.left = @ \ {f}, !.urgent = @ \ {f}]
         IN \/ pass' = [pass EXCEPT ![p] = [paid EXCEPT !.error = TRUE, !.stage = "ending"]]
            \/ pass' = [pass EXCEPT ![p] = [charged EXCEPT !.cut = @ \cup {f}]]
            \/ pass' = [pass EXCEPT ![p] = charged]
            \/ \E s \in Sections :
                  /\ Grounded(s, KnownFor(f), {})
                  /\ pass' = [pass EXCEPT ![p] =
                        [charged EXCEPT !.draft = [finding |-> f, text |-> TextOf(s)]]]
  BY DEF DraftSuggestion
<1>. DEFINE paid == [r EXCEPT !.spent = @ + Cost(c)]
            charged == [paid EXCEPT !.consumed = @ + Cost(c), !.left = @ \ {f}, !.urgent = @ \ {f}]
            ended == [paid EXCEPT !.error = TRUE, !.stage = "ending"]
<1>4. /\ ended \in PassRecords /\ PassIsSafe(ended)
      /\ charged \in PassRecords /\ PassIsSafe(charged)
  <2>1. Cost(c) \in 0..MaxIterations /\ f \in Findings
    BY <1>1, <1>3, CostIsBounded
  <2>. HIDE DEF r
  <2>. QED
    BY <1>1, <2>1, PaidPass
<1>5. CASE pass' = [pass EXCEPT ![p] = ended]
  BY <1>1, <1>2, <1>4, <1>5, OnePassStep
<1>6. CASE pass' = [pass EXCEPT ![p] = [charged EXCEPT !.cut = @ \cup {f}]]
  <2>. HIDE DEF charged, r
  <2>1. [charged EXCEPT !.cut = @ \cup {f}] \in PassRecords
    BY <1>1, <1>4 DEF PassRecords
  <2>2. PassIsSafe([charged EXCEPT !.cut = @ \cup {f}])
    BY <1>4 DEF PassRecords, PassIsSafe, WrittenIsSafe, DraftIsGrounded, AccountIsTrue
  <2>. QED
    BY <1>1, <1>2, <1>6, <2>1, <2>2, OnePassStep
<1>7. CASE pass' = [pass EXCEPT ![p] = charged]
  BY <1>1, <1>2, <1>4, <1>7, OnePassStep
<1>8. ASSUME NEW s \in Sections, Grounded(s, KnownFor(f), {}),
             pass' = [pass EXCEPT ![p] = [charged EXCEPT !.draft = [finding |-> f, text |-> TextOf(s)]]]
      PROVE  SuggesterInv'
  <2>. DEFINE drafted == [charged EXCEPT !.draft = [finding |-> f, text |-> TextOf(s)]]
  <2>1. TextOf(s).cites \subseteq Own[f] /\ TextOf(s) \in Texts
    BY <1>8 DEF Grounded, KnownFor, Sections, TextOf, Texts
  <2>. HIDE DEF charged, r
  <2>2. drafted \in PassRecords
    BY <1>1, <1>4, <2>1 DEF PassRecords
  <2>3. /\ drafted.wrote = charged.wrote /\ drafted.texts = charged.texts
        /\ drafted.stage = charged.stage /\ drafted.error = charged.error
        /\ drafted.spent = charged.spent /\ drafted.consumed = charged.consumed
        /\ drafted.draft = [finding |-> f, text |-> TextOf(s)]
    BY <1>4 DEF PassRecords
  <2>4. PassIsSafe(drafted)
    <3>. HIDE DEF drafted
    <3>. QED
      BY <1>1, <1>4, <2>1, <2>3 DEF PassIsSafe, WrittenIsSafe, DraftIsGrounded, AccountIsTrue
  <2>. QED
    BY <1>1, <1>2, <1>8, <2>2, <2>4, OnePassStep
<1>. QED
  BY <1>3, <1>5, <1>6, <1>7, <1>8

LEMMA WriteStep ==
    ASSUME SuggesterInv, NEW p \in Passes, WriteSuggestion(p)
    PROVE  SuggesterInv'
<1>. USE RuntimeAssumption, SuggesterAssumption
<1>. DEFINE r == pass[p]
            f == r.draft.finding
            emptied == [r EXCEPT !.draft = NoDraft]
            written == [emptied EXCEPT !.wrote = @ \cup {f}, !.texts[f] = r.draft.text]
<1>1. /\ r \in PassRecords /\ PassIsSafe(r) /\ r.draft # NoDraft
      /\ pass \in [Passes -> PassRecords]
      /\ UNCHANGED <<finding, escalated, suggestion, passesBegun, passRow>>
      /\ passesBegun' \in 0..MaxPasses
  BY DEF WriteSuggestion, SuggesterInv, SuggesterTypeOK
<1>2. f \in Findings /\ r.draft.text.cites \subseteq Own[f] /\ r.draft.text \in Texts
  BY <1>1 DEF PassIsSafe, DraftIsGrounded, PassRecords
<1>3. emptied \in PassRecords
  BY <1>1, IdlePassType DEF PassRecords, NoDraft
<1>4. written \in PassRecords
  <2>. HIDE DEF r, f, emptied
  <2>. QED
    BY <1>2, <1>3 DEF PassRecords
<1>5. /\ emptied.wrote = r.wrote /\ emptied.texts = r.texts /\ emptied.draft = NoDraft
      /\ emptied.stage = r.stage /\ emptied.error = r.error
      /\ emptied.spent = r.spent /\ emptied.consumed = r.consumed
  BY <1>1 DEF PassRecords
<1>6. /\ written.wrote = r.wrote \cup {f} /\ written.draft = NoDraft
      /\ written.texts[f] = r.draft.text
      /\ \A g \in Findings \ {f} : written.texts[g] = r.texts[g]
      /\ written.stage = r.stage /\ written.error = r.error
      /\ written.spent = r.spent /\ written.consumed = r.consumed
  <2>. HIDE DEF r, f
  <2>. QED
    BY <1>1, <1>2, <1>3, <1>5 DEF PassRecords
<1>7. PassIsSafe(emptied)
  <2>. HIDE DEF r, emptied
  <2>. QED
    BY <1>1, <1>5 DEF PassIsSafe, WrittenIsSafe, DraftIsGrounded, AccountIsTrue
<1>8. MayWrite(f) => PassIsSafe(written)
  <2>. HIDE DEF r, f, written
  <2>0. r.wrote \subseteq Findings
    BY <1>1 DEF PassRecords
  <2>1. MayWrite(f) => WrittenIsSafe(written)
    BY <1>1, <1>2, <1>6, <2>0 DEF PassIsSafe, WrittenIsSafe, MayWrite
  <2>2. DraftIsGrounded(written) /\ AccountIsTrue(written)
    BY <1>1, <1>6 DEF PassIsSafe, DraftIsGrounded, AccountIsTrue
  <2>. QED
    BY <2>1, <2>2 DEF PassIsSafe
<1>9. CASE MayWrite(f)
  <2>1. pass' = [pass EXCEPT ![p] = written]
    BY <1>1, <1>9 DEF WriteSuggestion, PassRecords
  <2>. QED
    BY <1>1, <1>4, <1>8, <1>9, <2>1, OnePassStep
<1>10. CASE ~MayWrite(f)
  <2>0. pass' = [pass EXCEPT ![p].draft = NoDraft, ![p].wrote = r.wrote,
                              ![p].texts[f] = r.texts[f]]
    BY <1>10 DEF WriteSuggestion
  <2>1. [r.texts EXCEPT ![f] = r.texts[f]] = r.texts
    BY <1>1 DEF PassRecords
  <2>2. /\ pass'[p] = emptied /\ \A q \in Passes \ {p} : pass'[q] = pass[q]
        /\ pass' = [q \in Passes |-> pass'[q]]
    <3>1. /\ \A q \in Passes \ {p} : pass'[q] = pass[q]
          /\ pass' = [q \in Passes |-> pass'[q]]
      BY <1>1, <2>0
    <3>2. pass'[p] = [r EXCEPT !.draft = NoDraft, !.wrote = r.wrote, !.texts = r.texts]
      BY <1>1, <2>0, <2>1
    <3>3. pass'[p] = emptied
      <4>. HIDE DEF r
      <4>. QED
        BY <1>1, <3>2 DEF PassRecords
    <3>. QED
      BY <3>1, <3>3
  <2>. HIDE DEF emptied
  <2>3. pass' = [pass EXCEPT ![p] = emptied]
    BY <1>1, <2>2
  <2>. QED
    BY <1>1, <1>3, <1>7, <2>3, OnePassStep
<1>. QED
  BY <1>9, <1>10

LEMMA CommitStep ==
    ASSUME SuggesterInv, NEW p \in Passes, CommitPass(p)
    PROVE  SuggesterInv'
<1>. USE RuntimeAssumption, SuggesterAssumption
<1>. DEFINE r == pass[p]
<1>1. /\ r \in PassRecords /\ PassIsSafe(r) /\ pass \in [Passes -> PassRecords]
      /\ pass' = [pass EXCEPT ![p] = IdlePass]
      /\ UNCHANGED <<finding, escalated, passesBegun>>
  BY DEF CommitPass, SuggesterInv, SuggesterTypeOK
<1>2. suggestion' = [f \in Findings |-> IF f \in r.wrote THEN AiGenerated(r.texts[f])
                                                          ELSE suggestion[f]]
  BY DEF CommitPass
<1>3. \A f \in Findings : f \in r.wrote => r.texts[f] \in Texts /\ r.texts[f].cites \subseteq Own[f]
  BY <1>1 DEF PassRecords, PassIsSafe, WrittenIsSafe
<1>4. \A f \in Findings : f \in r.wrote =>
         AiGenerated(r.texts[f]) \in Suggestions /\ AiGenerated(r.texts[f]).text.cites \subseteq Own[f]
  BY <1>3 DEF AiGenerated, Suggestions
<1>5. suggestion' \in [Findings -> Suggestions] /\ SuggestionIsOwn'
  BY <1>2, <1>4 DEF SuggesterInv, SuggesterTypeOK, SuggestionIsOwn
<1>6. passRow' = [status |-> Outcome(r.consumed, r.left = {}, r.error, r.cut # {}),
                  cost_units |-> r.consumed, spent |-> r.spent, error |-> r.error,
                  unfinished |-> r.left \cup r.cut]
  BY DEF CommitPass
<1>7. /\ r.consumed \in Nat /\ r.consumed < CostCap + MaxIterations /\ r.spent \in Nat
      /\ r.error \in BOOLEAN /\ r.left \subseteq Findings /\ r.cut \subseteq Findings
  BY <1>1 DEF PassRecords
<1>8. r.left = {} \/ r.error \/ Exhausted(r.consumed)
  BY <1>1 DEF CommitPass, PassIsSafe, AccountIsTrue
<1>9. /\ Outcome(r.consumed, r.left = {}, r.error, r.cut # {}) \in {"succeeded", "truncated", "failed"}
      /\ Outcome(r.consumed, r.left = {}, r.error, r.cut # {}) = "failed" <=> r.error
      /\ Outcome(r.consumed, r.left = {}, r.error, r.cut # {}) = "succeeded"
            <=> r.left = {} /\ ~r.error /\ r.cut = {}
  <2>. DEFINE status == Outcome(r.consumed, r.left = {}, r.error, r.cut # {})
  <2>1. r.error => status = "failed"
    BY Zenon DEF Outcome
  <2>2. ~r.error /\ r.cut # {} => status = "truncated"
    BY Zenon DEF Outcome
  <2>3. ~r.error /\ r.cut = {} /\ r.left = {} => status = "succeeded"
    BY Zenon DEF Outcome
  <2>4. ~r.error /\ r.cut = {} /\ r.left # {} => status = "truncated"
    BY <1>8, Zenon DEF Outcome
  <2>. HIDE DEF r, status
  <2>5. /\ status \in {"succeeded", "truncated", "failed"}
        /\ status = "failed" <=> r.error
        /\ status = "succeeded" <=> r.left = {} /\ ~r.error /\ r.cut = {}
    BY <1>7, <2>1, <2>2, <2>3, <2>4
  <2>. QED
    BY <2>5, Zenon DEF status
<1>10. IF r.error THEN r.spent - r.consumed \in 0..MaxIterations ELSE r.spent = r.consumed
  BY <1>1 DEF PassIsSafe, AccountIsTrue
<1>11. passRow' \in PassRows
  BY <1>6, <1>7, <1>9 DEF PassRows
<1>12. PassRowIsTrue'
  <2>. DEFINE status == Outcome(r.consumed, r.left = {}, r.error, r.cut # {})
  <2>1. /\ passRow'.status = status /\ passRow'.cost_units = r.consumed
        /\ passRow'.spent = r.spent /\ passRow'.error = r.error
        /\ passRow'.unfinished = r.left \cup r.cut
    BY <1>6
  <2>2. /\ status = "failed" <=> r.error
        /\ status = "succeeded" <=> r.left = {} /\ ~r.error /\ r.cut = {}
    BY <1>9
  <2>. HIDE DEF r, status
  <2>3. r.left \cup r.cut = {} <=> r.left = {} /\ r.cut = {}
    OBVIOUS
  <2>4. /\ passRow'.status = "succeeded" <=> passRow'.unfinished = {} /\ ~passRow'.error
        /\ passRow'.status = "failed" <=> passRow'.error
    BY <2>1, <2>2, <2>3, Zenon
  <2>5. r.spent - r.consumed \in (IF r.error THEN 0..MaxIterations ELSE {0})
    BY <1>7, <1>10
  <2>6. /\ passRow'.cost_units < CostCap + MaxIterations
        /\ passRow'.spent - passRow'.cost_units
              \in (IF passRow'.error THEN 0..MaxIterations ELSE {0})
    BY <1>7, <2>1, <2>5
  <2>. QED
    BY <2>4, <2>6 DEF PassRowIsTrue
<1>13. SuggesterTypeOK'
  BY <1>1, <1>5, <1>11, IdlePassType DEF SuggesterInv, SuggesterTypeOK
<1>14. ASSUME NEW q \in Passes PROVE PassIsSafe(pass[q])'
  <2>1. CASE q = p
    BY <1>1, <2>1, IdlePassSafe, IdlePassType
       DEF PassIsSafe, WrittenIsSafe, DraftIsGrounded, AccountIsTrue, IdlePass
  <2>2. CASE q # p
    <3>1. pass'[q] = pass[q] /\ pass[q].wrote \subseteq Findings /\ PassIsSafe(pass[q])
      BY <1>1, <2>2 DEF SuggesterInv, PassRecords
    <3>2. \A f \in Findings : suggestion[f].source # "admin_seeded" =>
                               suggestion'[f].source # "admin_seeded"
      BY <1>2 DEF AiGenerated
    <3>. QED
      BY <3>1, <3>2 DEF PassIsSafe, WrittenIsSafe, DraftIsGrounded, AccountIsTrue
  <2>. QED
    BY <2>1, <2>2
<1>. QED
  BY <1>5, <1>12, <1>13, <1>14 DEF SuggesterInv

LEMMA SeedStep ==
    ASSUME SuggesterInv, NEW f \in Findings, SeedSuggestion(f)
    PROVE  SuggesterInv'
<1>. USE RuntimeAssumption, SuggesterAssumption
<1>1. /\ \A p \in Passes : f \notin pass[p].wrote
      /\ suggestion' = [suggestion EXCEPT ![f] = AdminSeeded]
      /\ UNCHANGED <<finding, escalated, pass, passesBegun, passRow>>
  BY DEF SeedSuggestion, Written
<1>2. AdminSeeded \in Suggestions /\ AdminSeeded.text.cites = {}
  BY IdlePassType DEF AdminSeeded, Suggestions
<1>3. SuggesterTypeOK' /\ SuggestionIsOwn' /\ PassRowIsTrue'
  BY <1>1, <1>2 DEF SuggesterInv, SuggesterTypeOK, SuggestionIsOwn, PassRowIsTrue
<1>4. ASSUME NEW p \in Passes PROVE PassIsSafe(pass[p])'
  <2>1. pass[p].wrote \subseteq Findings \ {f} /\ PassIsSafe(pass[p])
    BY <1>1 DEF SuggesterInv, SuggesterTypeOK, PassRecords
  <2>2. \A g \in Findings \ {f} : suggestion'[g] = suggestion[g]
    BY <1>1 DEF SuggesterInv, SuggesterTypeOK
  <2>. QED
    BY <1>1, <2>1, <2>2 DEF PassIsSafe, WrittenIsSafe, DraftIsGrounded, AccountIsTrue
<1>. QED
  BY <1>3, <1>4 DEF SuggesterInv

LEMMA SuggesterStep == SuggesterInv /\ [SuggesterNext]_suggesterVars => SuggesterInv'
<1>. SUFFICES ASSUME SuggesterInv, [SuggesterNext]_suggesterVars PROVE SuggesterInv'
  OBVIOUS
<1>1. ASSUME UNCHANGED <<suggestion, pass, passesBegun, passRow>>,
             finding' \in [Findings -> {"open", "resolved"}], escalated' \subseteq Findings
      PROVE  SuggesterInv'
  BY <1>1 DEF SuggesterInv, SuggesterTypeOK, SuggestionIsOwn, PassRowIsTrue,
     PassIsSafe, WrittenIsSafe, DraftIsGrounded, AccountIsTrue
<1>2. ASSUME NEW f \in Findings, EscalateFinding(f) \/ CloseFinding(f) PROVE SuggesterInv'
  BY <1>1, <1>2 DEF EscalateFinding, CloseFinding, SuggesterInv, SuggesterTypeOK
<1>3. ASSUME NEW p \in Passes, BeginPass(p) PROVE SuggesterInv'
  <2>. DEFINE targets == {f \in Findings : finding[f] = "open" /\ suggestion[f] = NoSuggestion}
              begun == [IdlePass EXCEPT !.stage = "drafting", !.left = targets,
                                        !.urgent = escalated \cap targets]
  <2>1. begun \in PassRecords
    BY IdlePassType DEF PassRecords, SuggesterInv, SuggesterTypeOK
  <2>2. PassIsSafe(begun)
    BY IdlePassType DEF IdlePass, PassIsSafe, WrittenIsSafe, DraftIsGrounded, AccountIsTrue
  <2>3. passesBegun' \in 0..MaxPasses
    BY <1>3, SuggesterAssumption DEF BeginPass, SuggesterInv, SuggesterTypeOK
  <2>4. /\ pass' = [pass EXCEPT ![p] = begun]
        /\ UNCHANGED <<finding, escalated, suggestion, passRow>>
    BY <1>3 DEF BeginPass
  <2>. QED
    BY <2>1, <2>2, <2>3, <2>4, OnePassStep
<1>4. ASSUME NEW p \in Passes, RollbackPass(p) PROVE SuggesterInv'
  <2>1. passesBegun' \in 0..MaxPasses
    BY <1>4 DEF RollbackPass, SuggesterInv, SuggesterTypeOK
  <2>. QED
    BY <1>4, <2>1, IdlePassType, IdlePassSafe, OnePassStep DEF RollbackPass
<1>5. CASE UNCHANGED suggesterVars
  BY <1>1, <1>5 DEF suggesterVars, SuggesterInv, SuggesterTypeOK
<1>. QED
  BY <1>2, <1>3, <1>4, <1>5, SeedStep, DraftStep, WriteStep, CommitStep DEF SuggesterNext

LEMMA SuggesterInvariant == SuggesterSpec => []SuggesterInv
<1>. QED
  BY SuggesterInitInv, SuggesterStep, PTL DEF SuggesterSpec

-----------------------------------------------------------------------------
(* The theorems.                                                           *)

\* Every variable keeps its type; in particular no pass is ever charged more than its cap
\* and one conversation.
THEOREM SuggesterTypeCorrect == SuggesterSpec => []SuggesterTypeOK
<1>1. SuggesterInv => SuggesterTypeOK
  BY DEF SuggesterInv
<1>. QED
  BY <1>1, SuggesterInvariant, PTL

\* FR-001, FR-011, as far as they are enforced: every reference a stored suggestion
\* declares belongs to its own finding, for any findings, model answers and overlapping
\* passes.  Nothing is proved of what its prose names beside them.
THEOREM SuggestionIsOwnHolds == SuggesterSpec => []SuggestionIsOwn
<1>1. SuggesterInv => SuggestionIsOwn
  BY DEF SuggesterInv
<1>. QED
  BY <1>1, SuggesterInvariant, PTL

\* FR-004: the row of a run tells the truth about what was left and what was spent.
THEOREM PassRowIsTrueHolds == SuggesterSpec => []PassRowIsTrue
<1>1. SuggesterInv => PassRowIsTrue
  BY DEF SuggesterInv
<1>. QED
  BY <1>1, SuggesterInvariant, PTL

\* FR-013: no interleaving of passes with an administrator ends with an agent's text over
\* one the administrator has seeded.
THEOREM AdminSuggestionStandsHolds == SuggesterSpec => AdminSuggestionStands
<1>1. ASSUME SuggesterInv, SuggesterNext, NEW f \in Findings, suggestion[f] = AdminSeeded
      PROVE  suggestion'[f] = AdminSeeded
  <2>1. ASSUME NEW g \in Findings, EscalateFinding(g) \/ CloseFinding(g) \/ SeedSuggestion(g)
        PROVE  suggestion'[f] = AdminSeeded
    BY <1>1, <2>1 DEF EscalateFinding, CloseFinding, SeedSuggestion, SuggesterInv, SuggesterTypeOK
  <2>2. ASSUME NEW p \in Passes,
               BeginPass(p) \/ DraftSuggestion(p) \/ WriteSuggestion(p) \/ RollbackPass(p)
        PROVE  suggestion'[f] = AdminSeeded
    BY <1>1, <2>2 DEF BeginPass, DraftSuggestion, WriteSuggestion, RollbackPass
  <2>3. ASSUME NEW p \in Passes, CommitPass(p) PROVE suggestion'[f] = AdminSeeded
    <3>1. f \notin pass[p].wrote
      BY <1>1 DEF SuggesterInv, PassIsSafe, WrittenIsSafe, AdminSeeded
    <3>. QED
      BY <1>1, <2>3, <3>1 DEF CommitPass
  <2>. QED
    BY <1>1, <2>1, <2>2, <2>3 DEF SuggesterNext
<1>2. SuggesterInv /\ [SuggesterNext]_suggesterVars =>
        [\A f \in Findings : suggestion[f] = AdminSeeded => suggestion'[f] = AdminSeeded]_suggesterVars
  BY <1>1 DEF suggesterVars
<1>. QED
  BY <1>2, SuggesterInvariant, PTL DEF SuggesterSpec, AdminSuggestionStands

-----------------------------------------------------------------------------
(***************************************************************************)
(* InsightDigest.                                                          *)
(*                                                                         *)
(* The invariant says of every stored digest that it says what its run was *)
(* given (SaysWhatItMay), which the grounding check of the run and the     *)
(* emptiness of what it computed decide.  What is shown stays because only *)
(* a run that succeeds writes, and writes its own day alone.               *)
(***************************************************************************)
Inputs == [period : 0..LastDay, selected : SUBSET Candidates, figures : SUBSET Int,
           compliance : Nat, notable : BOOLEAN]

\* A stored digest says what its run was given, and is empty only if that was nothing.
SaysWhatItMay(x) ==
    x.stored => /\ x.cites \subseteq x.allowed.cites
                /\ x.states \subseteq x.allowed.states
                /\ x.is_empty <=> ~x.notable

DigestInv ==
    /\ DigestTypeOK
    /\ \A w \in Writers : writer[w].stage = "built" => writer[w].inputs.period \in Periods
    /\ \A d \in Periods : SaysWhatItMay(digest[d])

\* Only the outcome of an error or of a cut is anything but a success.
LEMMA OutcomeIs ==
    ASSUME NEW consumed, NEW completed \in BOOLEAN, NEW error \in BOOLEAN, NEW cut \in BOOLEAN
    PROVE  /\ Outcome(consumed, completed, error, cut) \in {"succeeded", "truncated", "failed"}
           /\ completed /\ ~error /\ ~cut => Outcome(consumed, completed, error, cut) = "succeeded"
BY DEF Outcome

\* There is a latest one of any days.
LEMMA LatestIsLast ==
    ASSUME NEW S \in SUBSET Periods, S # {}
    PROVE  Latest(S) \in S /\ \A d \in S : d <= Latest(S)
<1>1. IsFiniteSet(S) /\ S \in SUBSET Int
  <2>1. IsFiniteSet(1..LastDay) /\ 1..LastDay \subseteq Int
    BY DigestAssumption, FS_Interval
  <2>2. S \subseteq 1..LastDay
    BY DEF Periods
  <2>. QED
    BY <2>1, <2>2, FS_Subset
<1>2. \E last \in S : \A d \in S : d <= last
  BY <1>1, FirstAndLast
<1>. QED
  BY <1>2 DEF Latest

\* The figures of a day are numbers.
LEMMA FiguresAreNumbers ==
    ASSUME DigestTypeOK, NEW d \in Periods
    PROVE  KnownFigures(d) \subseteq Int
<1>1. SpentOn(d) \in Nat /\ SpentOn(d - 1) \in Nat
  BY DigestAssumption DEF SpentOn, Periods, DigestTypeOK
<1>2. Baseline(d) \in Nat
  <2>. DEFINE earlier == {e \in Stored : e < d}
  <2>1. CASE earlier = {}
    BY <2>1 DEF Baseline, DigestTypeOK
  <2>2. CASE earlier # {}
    <3>1. Latest(earlier) \in earlier /\ earlier \in SUBSET Periods
      BY <2>2, LatestIsLast DEF Stored
    <3>2. Latest(earlier) \in Periods
      BY <3>1
    <3>3. digest[Latest(earlier)].compliance \in Nat
      BY <3>2 DEF DigestTypeOK, Digests
    <3>. QED
      BY <2>2, <3>3 DEF Baseline
  <2>. QED
    BY <2>1, <2>2
<1>3. score \in Nat
  BY DEF DigestTypeOK
<1>4. \A a, b \in Nat : Distance(a, b) \in Int /\ a - b \in Int
  BY DEF Distance
<1>. QED
  BY <1>1, <1>2, <1>3, <1>4 DEF KnownFigures

LEMMA DigestInitInv == DigestInit => DigestInv
<1>. SUFFICES ASSUME DigestInit PROVE DigestInv
  OBVIOUS
<1>1. Absent \in Digests /\ ~Absent.stored
  BY DEF Absent, Digests
<1>2. /\ NoInputs \in Inputs
      /\ IdleWriter \in [stage : {"idle", "built"}, inputs : Inputs] /\ IdleWriter.stage = "idle"
  BY DigestAssumption DEF NoInputs, Inputs, IdleWriter
<1>3. NoDigestRow \in [status : {"succeeded", "truncated", "failed"}, cost_units : Nat,
                       end : {"none", "end_turn", "max_tokens", "max_iterations", "failed"},
                       is_empty : BOOLEAN]
  BY DEF NoDigestRow
<1>4. score \in Nat
  BY DigestAssumption DEF DigestInit
<1>5. DigestTypeOK
  BY <1>1, <1>2, <1>3, <1>4, DigestAssumption DEF DigestInit, DigestTypeOK, Inputs
<1>. QED
  BY <1>1, <1>2, <1>5 DEF DigestInit, DigestInv, SaysWhatItMay

\* What a run writes for a day, if it may.
LEMMA StoredDigest ==
    ASSUME DigestInv, NEW inputs \in Inputs, inputs.period \in Periods, NEW empty \in BOOLEAN,
           NEW cites, cites \subseteq KnownReferences(inputs),
           NEW names \in SUBSET References,
           NEW states, states \subseteq inputs.figures, empty <=> ~inputs.notable,
           StoreDigest(inputs, empty, cites, names, states)
    PROVE  /\ digest' \in [Periods -> Digests]
           /\ \A d \in Periods : SaysWhatItMay(digest'[d])
           /\ digest'[inputs.period].stored
           /\ \A d \in Periods : d # inputs.period => digest'[d] = digest[d]
<1>. DEFINE row == [stored |-> TRUE, is_empty |-> empty, cites |-> cites, names |-> names,
                    states |-> states,
                    compliance |-> inputs.compliance,
                    allowed |-> [cites |-> KnownReferences(inputs), states |-> inputs.figures],
                    notable |-> inputs.notable]
<1>1. digest' = [digest EXCEPT ![inputs.period] = row]
  BY DEF StoreDigest
<1>2. /\ KnownReferences(inputs) \subseteq References /\ inputs.figures \subseteq Int
      /\ inputs.compliance \in Nat /\ inputs.notable \in BOOLEAN
  <2>1. inputs.selected \subseteq Candidates
    BY DEF Inputs
  <2>2. \A f \in inputs.selected : CitedBy[f] \subseteq References
    BY <2>1, DigestAssumption
  <2>. QED
    BY <2>2 DEF Inputs, KnownReferences
<1>3. row \in Digests
  BY <1>2 DEF Digests
<1>4. SaysWhatItMay(row) /\ row.stored
  BY DEF SaysWhatItMay
<1>. HIDE DEF row
<1>5. digest \in [Periods -> Digests]
  BY DEF DigestInv, DigestTypeOK
<1>. QED
  BY <1>1, <1>3, <1>4, <1>5 DEF DigestInv

RowTypes == [status : {"succeeded", "truncated", "failed"}, cost_units : Nat,
             end : {"none", "end_turn", "max_tokens", "max_iterations", "failed"},
             is_empty : BOOLEAN]

\* A run that ends, having left the digests right.
LEMMA EndedRun ==
    ASSUME DigestInv, NEW w \in Writers, EndRun(w), digestRow' \in RowTypes,
           digest' \in [Periods -> Digests], \A d \in Periods : SaysWhatItMay(digest'[d])
    PROVE  DigestInv'
<1>1. IdleWriter \in [stage : {"idle", "built"}, inputs : Inputs] /\ IdleWriter.stage = "idle"
  BY DigestAssumption DEF NoInputs, Inputs, IdleWriter
<1>2. DigestTypeOK'
  BY <1>1 DEF DigestInv, DigestTypeOK, EndRun, digestWorld, RowTypes, Inputs
<1>3. \A v \in Writers : writer'[v].stage = "built" => writer'[v].inputs.period \in Periods
  BY <1>1 DEF DigestInv, DigestTypeOK, EndRun
<1>. QED
  BY <1>2, <1>3 DEF DigestInv, SaysWhatItMay

\* The three ways a run ends with a row but no digest, and the two ways it stores one.
LEMMA RunEnds ==
    ASSUME DigestInv, NEW w \in Writers, NEW c \in Conversations, NEW s \in Sections,
           \/ NothingNotable(w) \/ RollbackRun(w)
           \/ DraftFails(w, c) \/ DraftIsCutOff(w, c) \/ DraftArrives(w, c, s)
    PROVE  /\ EndRun(w) /\ digestRow' \in RowTypes
           /\ digest' \in [Periods -> Digests] /\ \A d \in Periods : SaysWhatItMay(digest'[d])
           /\ \/ UNCHANGED digest
              \/ /\ digestRow'.status = "succeeded" /\ writer[w].inputs.period \in Periods
                 /\ digest'[writer[w].inputs.period].stored
                 /\ \A d \in Periods : d # writer[w].inputs.period => digest'[d] = digest[d]
<1>. DEFINE inputs == writer[w].inputs
<1>0. /\ inputs \in Inputs /\ digestRow \in RowTypes /\ digest \in [Periods -> Digests]
      /\ \A d \in Periods : SaysWhatItMay(digest[d])
      /\ writer[w].stage = "built" => inputs.period \in Periods
  BY DEF DigestInv, DigestTypeOK, Inputs, RowTypes
<1>1. Cost(c) \in Nat /\ 0 \in Nat
  BY CostIsBounded
<1>2. CASE NothingNotable(w)
  <2>1. /\ writer[w].stage = "built" /\ ~inputs.notable /\ EndRun(w)
        /\ StoreDigest(inputs, TRUE, {}, {}, {}) /\ RecordRun("succeeded", 0, "none", TRUE)
    BY <1>2 DEF NothingNotable
  <2>2. digestRow' \in RowTypes /\ digestRow'.status = "succeeded"
    BY <2>1 DEF RecordRun, RowTypes
  <2>. QED
    BY <1>0, <2>1, <2>2, StoredDigest
<1>3. CASE RollbackRun(w)
  BY <1>0, <1>3 DEF RollbackRun
<1>4. CASE DraftFails(w, c)
  <2>1. /\ RecordRun(Outcome(0, FALSE, TRUE, FALSE), 0, c.end, FALSE)
        /\ c.end \in {"failed", "end_turn"} /\ UNCHANGED digest /\ EndRun(w)
    BY <1>4 DEF DraftFails, Unreachable
  <2>2. digestRow' \in RowTypes
    BY <2>1, OutcomeIs DEF RecordRun, RowTypes
  <2>. QED
    BY <1>0, <2>1, <2>2
<1>5. CASE DraftIsCutOff(w, c)
  <2>1. /\ RecordRun(Outcome(Cost(c), FALSE, FALSE, FALSE), Cost(c), c.end, FALSE)
        /\ c.end \in {"max_tokens", "max_iterations"} /\ UNCHANGED digest /\ EndRun(w)
    BY <1>5 DEF DraftIsCutOff, CutOff
  <2>2. digestRow' \in RowTypes
    BY <1>1, <2>1, OutcomeIs DEF RecordRun, RowTypes
  <2>. QED
    BY <1>0, <2>1, <2>2
<1>6. CASE DraftArrives(w, c, s)
  <2>. DEFINE grounded == Grounded(s, KnownReferences(inputs), inputs.figures)
  <2>1. /\ Asks(w) /\ c.end = "end_turn" /\ EndRun(w)
        /\ RecordRun(IF grounded THEN Outcome(Cost(c), TRUE, FALSE, FALSE) ELSE "failed",
                     Cost(c), c.end, FALSE)
        /\ IF grounded THEN StoreDigest(inputs, FALSE, s.cites, s.names, s.states)
           ELSE UNCHANGED digest
    BY <1>6 DEF DraftArrives, StoresDraft
  <2>2. digestRow' \in RowTypes /\ (grounded => digestRow'.status = "succeeded")
    BY <1>1, <2>1, OutcomeIs DEF RecordRun, RowTypes
  <2>3. CASE grounded
    <3>1. /\ s.cites \subseteq KnownReferences(inputs) /\ s.states \subseteq inputs.figures
          /\ s.names \in SUBSET References
      BY <2>3, RuntimeAssumption DEF Grounded, Sections
    <3>2. inputs.period \in Periods /\ inputs.notable
      BY <1>0, <2>1 DEF Asks
    <3>. QED
      BY <1>0, <2>1, <2>2, <2>3, <3>1, <3>2, StoredDigest
  <2>4. CASE ~grounded
    BY <1>0, <2>1, <2>2, <2>4
  <2>. QED
    BY <2>3, <2>4
<1>. QED
  BY <1>2, <1>3, <1>4, <1>5, <1>6

\* The world and the runs that only read leave the digests and the row alone.
LEMMA DigestReads ==
    ASSUME DigestInv, [DigestNext]_digestVars
    PROVE  \/ DigestInv' /\ UNCHANGED digest
           \/ \E w \in Writers, c \in Conversations, s \in Sections :
                 \/ NothingNotable(w) \/ RollbackRun(w)
                 \/ DraftFails(w, c) \/ DraftIsCutOff(w, c) \/ DraftArrives(w, c, s)
<1>1. ASSUME NEW total \in Totals, DayPasses(total)
      PROVE  DigestInv' /\ UNCHANGED digest
  <2>1. /\ calendar \in 1..(LastDay + 1) /\ calendar < LastDay + 1 /\ calendar' = calendar + 1
        /\ spent \in [Periods -> Nat] /\ spent' = [spent EXCEPT ![calendar] = total]
        /\ UNCHANGED <<score, openOnes, digest, writer, writesBegun, digestRow>>
    BY <1>1 DEF DayPasses, DigestInv, DigestTypeOK
  <2>2. total \in Nat
    BY DigestAssumption
  <2>3. spent' \in [Periods -> Nat]
    BY <2>1, <2>2
  <2>4. calendar' \in 1..(LastDay + 1)
    BY <2>1, DigestAssumption
  <2>5. DigestTypeOK'
    BY <2>1, <2>3, <2>4 DEF DigestInv, DigestTypeOK
  <2>. QED
    BY <2>1, <2>5 DEF DigestInv, SaysWhatItMay
<1>2. ASSUME NEW open \in SUBSET Candidates, NEW compliance \in Scores, GovernanceMoves(open, compliance)
      PROVE  DigestInv' /\ UNCHANGED digest
  BY <1>2, DigestAssumption DEF GovernanceMoves, DigestInv, DigestTypeOK, SaysWhatItMay
<1>3. ASSUME NEW w \in Writers, NEW d \in Periods, BuildInputs(w, d)
      PROVE  DigestInv' /\ UNCHANGED digest
  <2>. DEFINE inputs == [period |-> d, selected |-> Selected, figures |-> KnownFigures(d),
                         compliance |-> score, notable |-> Notable(d)]
  <2>1. /\ writer' = [writer EXCEPT ![w] = [stage |-> "built", inputs |-> inputs]]
        /\ writesBegun < MaxWrites /\ writesBegun' = writesBegun + 1
        /\ UNCHANGED <<digestWorld, digest, digestRow>>
    BY <1>3 DEF BuildInputs
  <2>2. inputs \in Inputs
    <3>1. KnownFigures(d) \in SUBSET Int
      BY FiguresAreNumbers DEF DigestInv
    <3>2. Selected \in SUBSET Candidates /\ score \in Nat
      BY DEF DigestInv, DigestTypeOK, Selected
    <3>3. d \in 0..LastDay
      BY DigestAssumption DEF Periods
    <3>4. Notable(d) \in BOOLEAN
      BY DEF Notable, SpendNotable, ComplianceNotable
    <3>. QED
      BY <3>1, <3>2, <3>3, <3>4 DEF Inputs
  <2>3. inputs.period = d
    OBVIOUS
  <2>. HIDE DEF inputs
  <2>. QED
    BY <2>1, <2>2, <2>3, DigestAssumption
       DEF DigestInv, DigestTypeOK, SaysWhatItMay, Inputs, digestWorld
<1>4. CASE UNCHANGED digestVars
  BY <1>4 DEF digestVars, DigestInv, DigestTypeOK, SaysWhatItMay
<1>5. Conversations # {} /\ Sections # {}
  <2>1. [calls |-> 1, end |-> "end_turn"] \in Conversations
    BY RuntimeAssumption DEF Conversations
  <2>2. [cites |-> {}, names |-> {}, declares |-> {}, states |-> {}] \in Sections
    BY DEF Sections
  <2>. QED
    BY <2>1, <2>2
<1>. QED
  BY <1>1, <1>2, <1>3, <1>4, <1>5 DEF DigestNext

LEMMA DigestStep == DigestInv /\ [DigestNext]_digestVars => DigestInv'
BY DigestReads, RunEnds, EndedRun

LEMMA DigestInvariant == DigestSpec => []DigestInv
BY DigestInitInv, DigestStep, PTL DEF DigestSpec

\* The declarations of InsightDigest.
THEOREM DigestTypeCorrect == DigestSpec => []DigestTypeOK
<1>1. DigestInv => DigestTypeOK
  BY DEF DigestInv
<1>. QED
  BY <1>1, DigestInvariant, PTL

\* FR-001, FR-004a, FR-010, as far as they are enforced: whatever overlaps, repeats or dies,
\* the references a stored digest declares and the amounts and percentages it states are
\* those its own run was given, and it is empty exactly when that run found nothing notable,
\* for any findings, figures, days and number of runs.  Nothing is proved of what its prose
\* names beside them.
THEOREM DigestIsGroundedHolds == DigestSpec => []DigestIsGrounded
<1>1. DigestInv => DigestIsGrounded
  BY DEF DigestInv, DigestIsGrounded, SaysWhatItMay, Stored
<1>. QED
  BY <1>1, DigestInvariant, PTL

\* The condition of CurrentDigestStays on one step.
DigestStays ==
    /\ ShownPeriod' >= ShownPeriod
    /\ ShownDigest' # ShownDigest =>
          digestRow'.status = "succeeded" /\ \E w \in Writers : writer[w].inputs.period = ShownPeriod'

\* FR-007a, FR-009: the current digest is displaced only by a run that succeeded, of the
\* same day or a later one.
THEOREM CurrentDigestStaysHolds == DigestSpec => CurrentDigestStays
<1>1. ASSUME DigestInv, UNCHANGED digest PROVE DigestStays
  <2>1. Stored' = Stored
    BY <1>1 DEF Stored
  <2>2. ShownPeriod' = ShownPeriod /\ ShownDigest' = ShownDigest
    BY <1>1, <2>1 DEF ShownPeriod, ShownDigest, Latest
  <2>3. ShownPeriod \in Int
    BY LatestIsLast, DigestAssumption DEF ShownPeriod, Stored, Periods
  <2>. QED
    BY <2>2, <2>3 DEF DigestStays
<1>2. ASSUME DigestInv, NEW w \in Writers, digestRow'.status = "succeeded",
             NEW d \in Periods, d = writer[w].inputs.period, digest'[d].stored,
             \A e \in Periods : e # d => digest'[e] = digest[e]
      PROVE  DigestStays
  <2>1. Stored' = Stored \cup {d} /\ Stored \in SUBSET Periods /\ Stored' \in SUBSET Periods
    BY <1>2 DEF Stored
  <2>2. ShownPeriod' = Latest(Stored') /\ Stored' # {}
    BY <2>1 DEF ShownPeriod
  <2>3. /\ Latest(Stored') \in Stored' /\ Latest(Stored') \in Int
        /\ \A e \in Stored' : e <= Latest(Stored')
    <3>1. Latest(Stored') \in Stored' /\ \A e \in Stored' : e <= Latest(Stored')
      BY <2>1, <2>2, LatestIsLast
    <3>2. Latest(Stored') \in Periods
      BY <2>1, <3>1
    <3>. QED
      BY <3>1, <3>2 DEF Periods
  <2>4. CASE Stored = {}
    <3>1. ShownPeriod = 0 /\ ShownPeriod' = d
      BY <2>1, <2>2, <2>3, <2>4 DEF ShownPeriod
    <3>. QED
      BY <1>2, <3>1, DigestAssumption DEF DigestStays, Periods
  <2>5. CASE Stored # {}
    <3>0. ShownPeriod = Latest(Stored)
      BY <2>5 DEF ShownPeriod
    <3>1. ShownPeriod \in Stored /\ ShownPeriod \in Int /\ \A e \in Stored : e <= ShownPeriod
      <4>1. Latest(Stored) \in Stored /\ \A e \in Stored : e <= Latest(Stored)
        BY <2>1, <2>5, LatestIsLast
      <4>2. Latest(Stored) \in Periods
        BY <2>1, <4>1
      <4>. QED
        BY <3>0, <4>1, <4>2 DEF Periods
    <3>2. ShownPeriod' >= ShownPeriod
      BY <2>1, <2>2, <2>3, <3>1
    <3>3. CASE ShownPeriod' = d
      BY <1>2, <3>2, <3>3 DEF DigestStays
    <3>4. CASE ShownPeriod' # d
      <4>1. ShownPeriod' \in Stored
        BY <2>1, <2>2, <2>3, <3>4
      <4>2. ShownPeriod' = ShownPeriod
        BY <2>1, <2>2, <2>3, <3>1, <3>2, <4>1
      <4>3. ShownDigest' = digest'[ShownPeriod'] /\ ShownDigest = digest[ShownPeriod]
        BY <2>2, <2>5, <3>0 DEF ShownDigest
      <4>4. ShownDigest' = ShownDigest
        BY <1>2, <2>1, <3>4, <4>1, <4>2, <4>3
      <4>. QED
        BY <3>2, <4>4 DEF DigestStays
    <3>. QED
      BY <3>3, <3>4
  <2>. QED
    BY <2>4, <2>5
<1>3. DigestInv /\ [DigestNext]_digestVars => DigestStays
  BY <1>1, <1>2, DigestReads, RunEnds
<1>4. DigestInv /\ [DigestNext]_digestVars => [DigestStays]_digestVars
  BY <1>3
<1>. QED
  BY <1>4, DigestInvariant, PTL DEF DigestSpec, CurrentDigestStays, DigestStays

-----------------------------------------------------------------------------
(***************************************************************************)
(* CoverageProposals.                                                      *)
(*                                                                         *)
(* A pass knows every type decided before it began, from its second read on *)
(* and whatever commits meanwhile (KnowsDecided); what an undisturbed pass *)
(* has read is still the case when it commits (SeesTheGaps).               *)
(***************************************************************************)
\* What a pass has read of the decided types covers those decided before it, so that it
\* asks for none of them.
KnowsDecided(r) ==
    /\ r.stage # "idle" => r.before \subseteq AlreadyDecided
    /\ r.stage = "decided" => r.before \subseteq r.decided
    /\ r.stage \in {"pending", "inserted"} => r.wanted \cap r.before = {}

\* What an undisturbed pass has read is still the case.
SeesTheGaps(r) ==
    /\ r.stage # "idle" => r.advisory = (inventory \ Covered) \ Proposable
    /\ r.stage \in {"detected", "decided"} => r.proposable = Proposable
    /\ r.stage = "decided" => r.decided = AlreadyDecided
    /\ r.stage \in {"pending", "inserted"} => r.wanted = (Proposable \ AlreadyDecided) \ Pending
    /\ r.stage = "inserted" => r.existing = gaps

CoverageInv ==
    /\ CoverageTypeOK
    /\ \A a \in Admins : decision[a] # NoDecision => decision[a].id \in DOMAIN proposal
    /\ \A w \in Advisors : KnowsDecided(advisor[w])
    /\ \A w \in undisturbed : SeesTheGaps(advisor[w])

\* The elements of a set, in a sequence: each once, and nothing else.
LEMMA SetAsSequence ==
    ASSUME NEW S, IsFiniteSet(S)
    PROVE  /\ SetToSeq(S) \in Seq(S) /\ Len(SetToSeq(S)) = Cardinality(S)
           /\ \A x \in S : \E k \in 1..Len(SetToSeq(S)) : SetToSeq(S)[k] = x
<1>. DEFINE n == Cardinality(S)
            s == SetToSeq(S)
<1>1. n \in Nat /\ ExistsBijection(1..n, S)
  BY FS_CardinalityType
<1>2. PICK f \in [1..n -> S] : IsInjective(f)
  BY <1>1 DEF ExistsBijection, Bijection, Injection
<1>3. s \in [1..n -> S] /\ IsInjective(s)
  BY <1>2 DEF SetToSeq
<1>. HIDE DEF s
<1>4. IsFiniteSet(1..n) /\ Cardinality(1..n) = n
  BY <1>1, FS_Interval
<1>5. s \in Injection(1..n, S)
  BY <1>3 DEF Injection
<1>6. s \in Surjection(1..n, S)
  BY <1>4, <1>5, FS_Injection
<1>7. s \in Seq(S) /\ Len(s) = n
  BY <1>1, <1>3
<1>8. \A x \in S : \E k \in 1..n : s[k] = x
  BY <1>6 DEF Surjection
<1>. QED
  BY <1>7, <1>8 DEF s

\* The rows of a set of types.
LEMMA NewRows ==
    ASSUME NEW T \in SUBSET Types
    PROVE  LET rows == SetToSeq({NewRow(t) : t \in T})
           IN /\ rows \in Seq(ProposalRows) /\ Len(rows) = Cardinality(T) /\ Cardinality(T) \in Nat
              /\ \A k \in 1..Len(rows) : rows[k].type \in T /\ rows[k].state = "pending"
              /\ \A t \in T : \E k \in 1..Len(rows) : rows[k].type = t
<1>. DEFINE R == {NewRow(t) : t \in T}
            f == [t \in T |-> NewRow(t)]
            rows == SetToSeq(R)
<1>1. \A t \in T : NewRow(t) \in ProposalRows /\ NewRow(t).type = t /\ NewRow(t).state = "pending"
  BY DEF NewRow, ProposalRows
<1>2. IsFiniteSet(T) /\ Cardinality(T) \in Nat
  BY CoverageAssumption, FS_Subset, FS_CardinalityType
<1>3. f \in Surjection(T, R) /\ f \in Injection(T, R)
  <2>1. f \in [T -> R] /\ \A r \in R : \E t \in T : f[t] = r
    OBVIOUS
  <2>2. \A t, u \in T : f[t] = f[u] => t = u
    BY <1>1
  <2>. QED
    BY <2>1, <2>2 DEF Surjection, Injection, IsInjective
<1>4. IsFiniteSet(R) /\ Cardinality(R) = Cardinality(T)
  BY <1>2, <1>3, FS_Surjection
<1>5. /\ rows \in Seq(R) /\ Len(rows) = Cardinality(T)
      /\ \A x \in R : \E k \in 1..Len(rows) : rows[k] = x
  BY <1>4, SetAsSequence
<1>6. R \subseteq ProposalRows /\ \A r \in R : r.type \in T /\ r.state = "pending"
  BY <1>1
<1>7. \A t \in T : \E r \in R : r.type = t
  BY <1>1
<1>. HIDE DEF R, rows
<1>8. \A k \in 1..Len(rows) : rows[k] \in R
  BY <1>5, ElementOfSeq
<1>9. rows \in Seq(ProposalRows)
  BY <1>5, <1>6, SeqMonotonic
<1>. QED
  BY <1>2, <1>5, <1>6, <1>7, <1>8, <1>9 DEF rows, R

\* What a row of the table is.
LEMMA RowsAre ==
    ASSUME NEW s \in Seq(ProposalRows)
    PROVE  /\ DOMAIN s = 1..Len(s) /\ Len(s) \in Nat
           /\ \A i \in DOMAIN s : /\ s[i] \in ProposalRows /\ s[i].type \in Types
                                 /\ s[i].state \in {"pending", "accepted", "rejected"}
<1>1. DOMAIN s = 1..Len(s) /\ Len(s) \in Nat
  BY LenProperties
<1>2. \A i \in DOMAIN s : s[i] \in ProposalRows
  BY <1>1, ElementOfSeq
<1>. QED
  BY <1>1, <1>2 DEF ProposalRows

\* Which types the rows in some states have.
LEMMA TypesAre ==
    ASSUME NEW states
    PROVE  \A t : t \in TypesIn(states) <=>
              \E i \in DOMAIN proposal : proposal[i].state \in states /\ proposal[i].type = t
BY DEF TypesIn

LEMMA TypesInAreTypes == \A states : CoverageTypeOK => TypesIn(states) \subseteq Types
<1>. SUFFICES ASSUME NEW states, CoverageTypeOK PROVE TypesIn(states) \subseteq Types
  OBVIOUS
<1>1. \A i \in DOMAIN proposal : proposal[i].type \in Types
  BY RowsAre DEF CoverageTypeOK
<1>. QED
  BY <1>1, TypesAre

LEMMA IdleAdvisorFacts ==
    IdleAdvisor \in AdvisorRecords /\ IdleAdvisor.stage = "idle"
BY DEF IdleAdvisor, AdvisorRecords

LEMMA CoverageInitInv == CoverageInit => CoverageInv
<1>. SUFFICES ASSUME CoverageInit PROVE CoverageInv
  OBVIOUS
<1>1. proposal \in Seq(ProposalRows) /\ Len(proposal) = 0
  BY EmptySeq DEF CoverageInit
<1>2. NoDecision \in Decisions
  BY CoverageAssumption DEF NoDecision, Decisions
<1>3. CoverageTypeOK
  BY <1>1, <1>2, IdleAdvisorFacts, CoverageAssumption DEF CoverageInit, CoverageTypeOK
<1>. QED
  BY <1>3, IdleAdvisorFacts DEF CoverageInit, CoverageInv, KnowsDecided

-----------------------------------------------------------------------------
(* Steps of a pass.                                                        *)

OnlyAdvisorOf(w) ==
    /\ \A v \in Advisors \ {w} : advisor'[v] = advisor[v]
    /\ advisor' = [v \in Advisors |-> advisor'[v]]

\* Steps of a pass that only change its own record.
LEMMA OneAdvisorStep ==
    ASSUME CoverageInv, NEW w \in Advisors, NEW r \in AdvisorRecords, KnowsDecided(r),
           OnlyAdvisorOf(w), advisor'[w] = r,
           undisturbed' \subseteq undisturbed \cup {w}, w \in undisturbed' => SeesTheGaps(r),
           advised' \in 0..MaxPassesBegun,
           UNCHANGED <<inventory, build, proposal, gaps, changes, decision>>
    PROVE  CoverageInv'
<1>1. CoverageTypeOK'
  BY DEF CoverageInv, CoverageTypeOK, OnlyAdvisorOf
<1>2. \A v \in Advisors : KnowsDecided(advisor'[v])
  BY DEF CoverageInv, OnlyAdvisorOf
<1>3. \A v \in undisturbed' : SeesTheGaps(advisor'[v])
  BY DEF CoverageInv, CoverageTypeOK, OnlyAdvisorOf
<1>4. /\ AlreadyDecided' = AlreadyDecided /\ Covered' = Covered /\ Pending' = Pending
      /\ Proposable' = Proposable
  BY DEF AlreadyDecided, Covered, Pending, Proposable, Accepted, TypesIn
<1>5. \A v \in Advisors : KnowsDecided(advisor[v])'
  BY <1>2, <1>4 DEF KnowsDecided
<1>6. \A v \in undisturbed' : SeesTheGaps(advisor[v])'
  BY <1>3, <1>4 DEF SeesTheGaps
<1>7. \A a \in Admins : decision'[a] # NoDecision => decision'[a].id \in DOMAIN proposal'
  BY DEF CoverageInv
<1>. QED
  BY <1>1, <1>5, <1>6, <1>7 DEF CoverageInv

LEMMA DetectStep ==
    ASSUME CoverageInv, NEW w \in Advisors, DetectGaps(w)
    PROVE  CoverageInv'
<1>. DEFINE r == [IdleAdvisor EXCEPT !.stage = "detected", !.proposable = Proposable,
                                     !.advisory = (inventory \ Covered) \ Proposable,
                                     !.before = TypesIn({"accepted", "rejected"})]
<1>0. /\ advisor' = [advisor EXCEPT ![w] = r] /\ undisturbed' = undisturbed \cup {w}
      /\ UNCHANGED <<inventory, build, proposal, gaps, changes, decision>>
      /\ advised < MaxPassesBegun /\ advised' = advised + 1
  BY DEF DetectGaps
<1>1. TypesIn({"accepted", "rejected"}) \subseteq Types /\ Proposable \subseteq Types /\ inventory \subseteq Types
  BY TypesInAreTypes DEF CoverageInv, CoverageTypeOK, Proposable
<1>2. /\ r \in AdvisorRecords /\ r.stage = "detected" /\ r.proposable = Proposable
      /\ r.advisory = (inventory \ Covered) \ Proposable
      /\ r.before = AlreadyDecided
  BY <1>1 DEF IdleAdvisor, AdvisorRecords, AlreadyDecided
<1>. HIDE DEF r
<1>3. KnowsDecided(r) /\ SeesTheGaps(r)
  BY <1>2 DEF KnowsDecided, SeesTheGaps
<1>4. OnlyAdvisorOf(w) /\ advisor'[w] = r
  BY <1>0 DEF CoverageInv, CoverageTypeOK, OnlyAdvisorOf
<1>5. advised' \in 0..MaxPassesBegun
  BY <1>0, CoverageAssumption DEF CoverageInv, CoverageTypeOK
<1>. QED
  BY <1>0, <1>2, <1>3, <1>4, <1>5, OneAdvisorStep

LEMMA ReadDecidedStep ==
    ASSUME CoverageInv, NEW w \in Advisors, ReadDecided(w)
    PROVE  CoverageInv'
<1>. DEFINE q == advisor[w]
            r == advisor'[w]
<1>1. /\ q \in AdvisorRecords /\ KnowsDecided(q) /\ q.stage = "detected"
      /\ (w \in undisturbed => SeesTheGaps(q))
      /\ UNCHANGED <<inventory, build, proposal, gaps, undisturbed, advised, changes, decision>>
      /\ advised \in 0..MaxPassesBegun
  BY DEF ReadDecided, CoverageInv, CoverageTypeOK
<1>2. AlreadyDecided \subseteq Types
  BY TypesInAreTypes DEF CoverageInv, AlreadyDecided
<1>3. OnlyAdvisorOf(w)
  BY DEF ReadDecided, CoverageInv, CoverageTypeOK, OnlyAdvisorOf
<1>4. /\ r \in AdvisorRecords /\ r.stage = "decided" /\ r.decided = AlreadyDecided
      /\ r.before = q.before /\ r.proposable = q.proposable /\ r.advisory = q.advisory
  BY <1>1, <1>2 DEF ReadDecided, CoverageInv, CoverageTypeOK, AdvisorRecords
<1>. HIDE DEF q, r
<1>5. KnowsDecided(r) /\ (w \in undisturbed => SeesTheGaps(r))
  BY <1>1, <1>4 DEF KnowsDecided, SeesTheGaps
<1>. QED
  BY <1>1, <1>3, <1>4, <1>5, OneAdvisorStep DEF r

LEMMA ReadPendingStep ==
    ASSUME CoverageInv, NEW w \in Advisors, ReadPending(w)
    PROVE  CoverageInv'
<1>. DEFINE q == advisor[w]
            r == advisor'[w]
            wanted == (q.proposable \ q.decided) \ Pending
<1>1. /\ q \in AdvisorRecords /\ KnowsDecided(q) /\ q.stage = "decided"
      /\ (w \in undisturbed => SeesTheGaps(q))
      /\ UNCHANGED <<inventory, build, proposal, gaps, undisturbed, advised, changes, decision>>
      /\ advised \in 0..MaxPassesBegun
      /\ advisor' = [advisor EXCEPT ![w].stage = "pending", ![w].wanted = wanted,
                                    ![w].proposable = {}, ![w].decided = {}]
  BY DEF ReadPending, CoverageInv, CoverageTypeOK
<1>2. wanted \subseteq q.proposable /\ wanted \subseteq Types /\ wanted \cap q.decided = {}
  BY <1>1 DEF AdvisorRecords
<1>3. w \in undisturbed => wanted = (Proposable \ AlreadyDecided) \ Pending
  BY <1>1 DEF SeesTheGaps
<1>. HIDE DEF wanted
<1>4. OnlyAdvisorOf(w)
  BY <1>1 DEF CoverageInv, CoverageTypeOK, OnlyAdvisorOf
<1>5. /\ r \in AdvisorRecords /\ r.stage = "pending" /\ r.wanted = wanted
      /\ r.before = q.before /\ r.advisory = q.advisory
  BY <1>1, <1>2 DEF CoverageInv, CoverageTypeOK, AdvisorRecords
<1>. HIDE DEF q, r
<1>6. KnowsDecided(r) /\ (w \in undisturbed => SeesTheGaps(r))
  BY <1>1, <1>2, <1>3, <1>5 DEF KnowsDecided, SeesTheGaps
<1>. QED
  BY <1>1, <1>4, <1>5, <1>6, OneAdvisorStep DEF r

LEMMA InsertStep ==
    ASSUME CoverageInv, NEW w \in Advisors, InsertProposals(w)
    PROVE  CoverageInv'
<1>. DEFINE q == advisor[w]
            r == advisor'[w]
<1>1. /\ q \in AdvisorRecords /\ KnowsDecided(q) /\ q.stage = "pending"
      /\ (w \in undisturbed => SeesTheGaps(q))
      /\ UNCHANGED <<inventory, build, proposal, gaps, undisturbed, advised, changes, decision>>
      /\ advised \in 0..MaxPassesBegun /\ gaps \subseteq Types
      /\ advisor' = [advisor EXCEPT ![w].stage = "inserted", ![w].existing = gaps]
  BY DEF InsertProposals, CoverageInv, CoverageTypeOK
<1>2. OnlyAdvisorOf(w)
  BY <1>1 DEF CoverageInv, CoverageTypeOK, OnlyAdvisorOf
<1>3. /\ r \in AdvisorRecords /\ r.stage = "inserted" /\ r.wanted = q.wanted
      /\ r.before = q.before /\ r.advisory = q.advisory /\ r.existing = gaps
  BY <1>1 DEF CoverageInv, CoverageTypeOK, AdvisorRecords
<1>. HIDE DEF q, r
<1>4. KnowsDecided(r) /\ (w \in undisturbed => SeesTheGaps(r))
  BY <1>1, <1>3 DEF KnowsDecided, SeesTheGaps
<1>. QED
  BY <1>1, <1>2, <1>3, <1>4, OneAdvisorStep DEF r

LEMMA RollbackAdvisorStep ==
    ASSUME CoverageInv, NEW w \in Advisors, RollbackAdvisor(w)
    PROVE  CoverageInv'
<1>1. /\ OnlyAdvisorOf(w) /\ advisor'[w] = IdleAdvisor /\ advised' \in 0..MaxPassesBegun
      /\ UNCHANGED <<inventory, build, proposal, gaps, undisturbed, changes, decision>>
  BY DEF RollbackAdvisor, CoverageInv, CoverageTypeOK, OnlyAdvisorOf
<1>2. KnowsDecided(IdleAdvisor) /\ SeesTheGaps(IdleAdvisor)
  BY IdleAdvisorFacts DEF KnowsDecided, SeesTheGaps
<1>. QED
  BY <1>1, <1>2, IdleAdvisorFacts, OneAdvisorStep

-----------------------------------------------------------------------------
(* Steps that commit.                                                      *)

\* A commit disturbs everybody; what had been decided stays decided.
LEMMA CommittedStep ==
    ASSUME CoverageInv, CoverageTypeOK', undisturbed' = {},
           \A w \in Advisors : advisor'[w] = advisor[w] \/ advisor'[w] = IdleAdvisor,
           DOMAIN proposal \subseteq DOMAIN proposal',
           \A i \in DOMAIN proposal : /\ proposal'[i].type = proposal[i].type
                                      /\ proposal[i].state # "pending" => proposal'[i].state # "pending",
           \A a \in Admins : decision'[a] = decision[a] \/ decision'[a] = NoDecision
    PROVE  CoverageInv'
<1>1. \A i \in DOMAIN proposal : proposal[i].state \in {"pending", "accepted", "rejected"}
  BY RowsAre DEF CoverageInv, CoverageTypeOK
<1>2. \A i \in DOMAIN proposal' : proposal'[i].state \in {"pending", "accepted", "rejected"}
  BY RowsAre DEF CoverageTypeOK
<1>3. AlreadyDecided \subseteq AlreadyDecided'
  BY <1>1, <1>2 DEF AlreadyDecided, TypesIn
<1>4. \A w \in Advisors : KnowsDecided(advisor[w])'
  BY <1>3, IdleAdvisorFacts DEF CoverageInv, KnowsDecided
<1>5. \A a \in Admins : decision'[a] # NoDecision => decision'[a].id \in DOMAIN proposal'
  BY DEF CoverageInv
<1>. QED
  BY <1>4, <1>5 DEF CoverageInv

\* What the commit of a pass does to the table of proposals.
LEMMA AppendedRows ==
    ASSUME CoverageInv, NEW w \in Advisors, CommitAdvisor(w)
    PROVE  /\ proposal' \in Seq(ProposalRows) /\ Len(proposal') <= MaxProposals
           /\ DOMAIN proposal \subseteq DOMAIN proposal'
           /\ \A i \in DOMAIN proposal : proposal'[i] = proposal[i]
           /\ \A i \in DOMAIN proposal' \ DOMAIN proposal : proposal'[i].type \in advisor[w].wanted
           /\ \A t \in advisor[w].wanted :
                 \E i \in DOMAIN proposal' : proposal'[i].type = t /\ proposal'[i].state = "pending"
<1>. DEFINE T == advisor[w].wanted
            rows == SetToSeq({NewRow(t) : t \in T})
            n == Len(proposal)
            m == Len(rows)
<1>1. T \in SUBSET Types /\ proposal \in Seq(ProposalRows)
  BY DEF CoverageInv, CoverageTypeOK, AdvisorRecords
<1>2. /\ rows \in Seq(ProposalRows) /\ m = Cardinality(T) /\ Cardinality(T) \in Nat
      /\ \A k \in 1..m : rows[k].type \in T /\ rows[k].state = "pending"
      /\ \A t \in T : \E k \in 1..m : rows[k].type = t
  BY <1>1, NewRows
<1>3. proposal' = proposal \o rows /\ n + Cardinality(T) <= MaxProposals
  BY DEF CommitAdvisor
<1>. HIDE DEF rows
<1>4. /\ proposal \o rows \in Seq(ProposalRows) /\ Len(proposal \o rows) = n + m
      /\ \A i \in 1..(n + m) : (proposal \o rows)[i] = IF i <= n THEN proposal[i] ELSE rows[i - n]
  BY <1>1, <1>2, ConcatProperties
<1>5. n \in Nat /\ DOMAIN proposal = 1..n
  BY <1>1, LenProperties
<1>6. proposal' \in Seq(ProposalRows) /\ Len(proposal') = n + m /\ DOMAIN proposal' = 1..(n + m)
  BY <1>3, <1>4, LenProperties
<1>. HIDE DEF T, n, m
<1>7. \A i \in 1..(n + m) : proposal'[i] = IF i <= n THEN proposal[i] ELSE rows[i - n]
  BY <1>3, <1>4
<1>8. Len(proposal') <= MaxProposals
  BY <1>2, <1>3, <1>6
<1>9. DOMAIN proposal \subseteq DOMAIN proposal' /\ \A i \in DOMAIN proposal : proposal'[i] = proposal[i]
  BY <1>2, <1>5, <1>6, <1>7
<1>10. ASSUME NEW i \in DOMAIN proposal' \ DOMAIN proposal PROVE proposal'[i].type \in T
  <2>1. i - n \in 1..m /\ proposal'[i] = rows[i - n]
    BY <1>2, <1>5, <1>6, <1>7
  <2>. QED
    BY <1>2, <2>1
<1>11. ASSUME NEW t \in T
       PROVE  \E i \in DOMAIN proposal' : proposal'[i].type = t /\ proposal'[i].state = "pending"
  <2>1. PICK k \in 1..m : rows[k].type = t /\ rows[k].state = "pending"
    BY <1>2
  <2>2. n + k \in 1..(n + m) /\ ~(n + k <= n) /\ (n + k) - n = k
    BY <1>2, <1>5
  <2>3. proposal'[n + k] = rows[k]
    BY <1>7, <2>2
  <2>. QED
    BY <1>6, <2>1, <2>2, <2>3
<1>. QED
  BY <1>6, <1>8, <1>9, <1>10, <1>11 DEF T

LEMMA CommitAdvisorStep ==
    ASSUME CoverageInv, NEW w \in Advisors, CommitAdvisor(w)
    PROVE  CoverageInv'
<1>1. /\ proposal' \in Seq(ProposalRows) /\ Len(proposal') <= MaxProposals
      /\ DOMAIN proposal \subseteq DOMAIN proposal'
      /\ \A i \in DOMAIN proposal : proposal'[i] = proposal[i]
  BY AppendedRows
<1>2. /\ advisor' = [advisor EXCEPT ![w] = IdleAdvisor] /\ gaps' = ReplacedGaps(w)
      /\ undisturbed' = {} /\ UNCHANGED <<inventory, build, advised, changes, decision>>
  BY DEF CommitAdvisor
<1>3. gaps' \subseteq Types
  BY <1>2 DEF ReplacedGaps, CoverageInv, CoverageTypeOK, AdvisorRecords
<1>4. CoverageTypeOK'
  BY <1>1, <1>2, <1>3, IdleAdvisorFacts DEF CoverageInv, CoverageTypeOK
<1>5. \A v \in Advisors : advisor'[v] = advisor[v] \/ advisor'[v] = IdleAdvisor
  BY <1>2 DEF CoverageInv, CoverageTypeOK
<1>. QED
  BY <1>1, <1>2, <1>4, <1>5, CommittedStep

LEMMA CommitDecisionStep ==
    ASSUME CoverageInv, NEW a \in Admins, CommitDecision(a)
    PROVE  CoverageInv'
<1>. DEFINE i == decision[a].id
            accept == decision[a].accept
            row == [proposal[i] EXCEPT !.state = IF accept THEN "accepted" ELSE "rejected",
                                       !.applied = @ \/ accept, !.decisions = @ + 1]
<1>1. /\ proposal \in Seq(ProposalRows) /\ DOMAIN proposal = 1..Len(proposal)
      /\ i \in 1..Len(proposal) /\ accept \in BOOLEAN /\ proposal[i] \in ProposalRows
      /\ Len(proposal) <= MaxProposals
  BY RowsAre DEF CommitDecision, CoverageInv, CoverageTypeOK, Decisions
<1>2. /\ row \in ProposalRows /\ row.type = proposal[i].type /\ row.state # "pending"
  <2>. DEFINE state == IF accept THEN "accepted" ELSE "rejected"
              applied == proposal[i].applied \/ accept
              count == proposal[i].decisions + 1
  <2>1. state \in {"accepted", "rejected"} /\ count \in Nat
    BY <1>1 DEF ProposalRows
  <2>2. applied \in BOOLEAN
    OBVIOUS
  <2>3. row = [proposal[i] EXCEPT !.state = state, !.applied = applied, !.decisions = count]
    OBVIOUS
  <2>. HIDE DEF state, applied, count, row
  <2>. QED
    BY <1>1, <2>1, <2>2, <2>3 DEF ProposalRows
<1>3. proposal' = [proposal EXCEPT ![i] = row]
  BY DEF CommitDecision
<1>4. /\ decision' = [decision EXCEPT ![a] = NoDecision] /\ undisturbed' = {}
      /\ UNCHANGED <<inventory, build, gaps, advisor, advised, changes>>
  BY DEF CommitDecision
<1>. HIDE DEF row, i, accept
<1>5. /\ proposal' \in Seq(ProposalRows) /\ Len(proposal') = Len(proposal)
      /\ \A j \in 1..Len(proposal) : proposal'[j] = IF j = i THEN row ELSE proposal[j]
  BY <1>1, <1>2, <1>3, ExceptSeq
<1>6. DOMAIN proposal' = DOMAIN proposal
  BY <1>1, <1>5, LenProperties
<1>7. \A j \in DOMAIN proposal : /\ proposal'[j].type = proposal[j].type
                                 /\ proposal[j].state # "pending" => proposal'[j].state # "pending"
  BY <1>1, <1>2, <1>5
<1>8. NoDecision \in Decisions
  BY CoverageAssumption DEF NoDecision, Decisions
<1>9. CoverageTypeOK'
  BY <1>1, <1>4, <1>5, <1>8 DEF CoverageInv, CoverageTypeOK
<1>10. \A b \in Admins : decision'[b] = decision[b] \/ decision'[b] = NoDecision
  BY <1>4 DEF CoverageInv, CoverageTypeOK
<1>. QED
  BY <1>4, <1>6, <1>7, <1>9, <1>10, CommittedStep

LEMMA WorldMoves ==
    ASSUME CoverageInv, NEW types \in SUBSET Types, InventoryChanges(types) \/ ReleaseBuild(types)
    PROVE  CoverageInv'
<1>1. /\ UNCHANGED <<proposal, gaps, advisor, advised, decision>> /\ undisturbed' = {}
      /\ changes < MaxChanges /\ changes' = changes + 1
      /\ inventory' \in {inventory, types} /\ build' \in {build, types}
  BY DEF InventoryChanges, ReleaseBuild
<1>2. CoverageTypeOK'
  BY <1>1, CoverageAssumption DEF CoverageInv, CoverageTypeOK
<1>. QED
  BY <1>1, <1>2, CommittedStep

\* What reading a proposal makes of the decisions in progress.
LEMMA DecisionsAfterRead ==
    ASSUME CoverageTypeOK, NEW a \in Admins, NEW i \in DOMAIN proposal, NEW accept \in BOOLEAN,
           ReadProposal(a, i, accept)
    PROVE  /\ decision' \in [Admins -> Decisions]
           /\ decision'[a].id = i /\ (decision'[a].alone => Deciding(i) = {})
           /\ \A b \in Admins \ {a} :
                 /\ decision'[b].id = decision[b].id
                 /\ decision'[b].alone => decision[b].alone /\ decision[b].id # i
<1>1. i \in 0..MaxProposals
  BY LenProperties, CoverageAssumption DEF CoverageTypeOK
<1>. DEFINE nobody == Deciding(i) = {}
            mine == [id |-> i, accept |-> accept, alone |-> nobody]
            other(b) == [decision[b] EXCEPT !.alone = @ /\ decision[b].id # i]
<1>2. decision' = [b \in Admins |-> IF b = a THEN mine ELSE other(b)]
  BY DEF ReadProposal
<1>3. mine \in Decisions /\ mine.id = i /\ mine.alone = nobody
  <2>1. nobody \in BOOLEAN
    OBVIOUS
  <2>. HIDE DEF nobody
  <2>. QED
    BY <1>1, <2>1 DEF Decisions
<1>4. ASSUME NEW b \in Admins
      PROVE  /\ other(b) \in Decisions /\ other(b).id = decision[b].id
             /\ other(b).alone = (decision[b].alone /\ decision[b].id # i)
  <2>. DEFINE still == decision[b].alone /\ decision[b].id # i
  <2>1. decision[b] \in Decisions /\ still \in BOOLEAN
    BY DEF CoverageTypeOK
  <2>2. other(b) = [decision[b] EXCEPT !.alone = still]
    OBVIOUS
  <2>. HIDE DEF other, still
  <2>3. other(b) \in Decisions /\ other(b).id = decision[b].id /\ other(b).alone = still
    BY <2>1, <2>2 DEF Decisions
  <2>. QED
    BY <2>3 DEF still
<1>. HIDE DEF mine, other
<1>. QED
  BY <1>2, <1>3, <1>4

LEMMA ReadProposalStep ==
    ASSUME CoverageInv, NEW a \in Admins, NEW i \in DOMAIN proposal, NEW accept \in BOOLEAN,
           ReadProposal(a, i, accept)
    PROVE  CoverageInv'
<1>1. UNCHANGED <<inventory, build, proposal, gaps, advisor, undisturbed, advised, changes>>
  BY DEF ReadProposal
<1>2. /\ decision' \in [Admins -> Decisions] /\ decision'[a].id = i
      /\ \A b \in Admins \ {a} : decision'[b].id = decision[b].id
  BY DecisionsAfterRead DEF CoverageInv
<1>3. CoverageTypeOK'
  BY <1>1, <1>2 DEF CoverageInv, CoverageTypeOK
<1>4. \A b \in Admins : decision'[b] # NoDecision => decision'[b].id \in DOMAIN proposal'
  <2>1. ASSUME NEW b \in Admins \ {a}, decision[b] = NoDecision PROVE decision'[b] = NoDecision
    <3>1. decision'[b] = [NoDecision EXCEPT !.alone = @ /\ NoDecision.id # i] /\ i # 0
      BY <2>1, LenProperties DEF ReadProposal, CoverageInv, CoverageTypeOK
    <3>. QED
      BY <3>1 DEF NoDecision
  <2>. QED
    BY <1>1, <1>2, <2>1 DEF CoverageInv
<1>5. /\ AlreadyDecided' = AlreadyDecided /\ Covered' = Covered /\ Pending' = Pending
      /\ Proposable' = Proposable
  BY <1>1 DEF AlreadyDecided, Covered, Pending, Proposable, Accepted, TypesIn
<1>6. \A w \in Advisors : KnowsDecided(advisor[w])'
  BY <1>1, <1>5 DEF CoverageInv, KnowsDecided
<1>7. \A w \in undisturbed' : SeesTheGaps(advisor[w])'
  BY <1>1, <1>5 DEF CoverageInv, SeesTheGaps
<1>. QED
  BY <1>3, <1>4, <1>6, <1>7 DEF CoverageInv

LEMMA CoverageStep == CoverageInv /\ [CoverageNext]_coverageVars => CoverageInv'
<1>. SUFFICES ASSUME CoverageInv, [CoverageNext]_coverageVars PROVE CoverageInv'
  OBVIOUS
<1>1. CASE UNCHANGED coverageVars
  <2>1. /\ AlreadyDecided' = AlreadyDecided /\ Covered' = Covered /\ Pending' = Pending
        /\ Proposable' = Proposable
    BY <1>1 DEF coverageVars, AlreadyDecided, Covered, Pending, Proposable, Accepted, TypesIn
  <2>2. \A w \in Advisors : KnowsDecided(advisor[w])'
    BY <1>1, <2>1 DEF coverageVars, CoverageInv, KnowsDecided
  <2>3. \A w \in undisturbed' : SeesTheGaps(advisor[w])'
    BY <1>1, <2>1 DEF coverageVars, CoverageInv, SeesTheGaps
  <2>4. CoverageTypeOK'
    BY <1>1 DEF coverageVars, CoverageInv, CoverageTypeOK
  <2>. QED
    BY <1>1, <2>2, <2>3, <2>4 DEF coverageVars, CoverageInv
<1>. QED
  BY <1>1, DetectStep, ReadDecidedStep, ReadPendingStep, InsertStep, RollbackAdvisorStep,
     CommitAdvisorStep, CommitDecisionStep, WorldMoves, ReadProposalStep DEF CoverageNext

LEMMA CoverageInvariant == CoverageSpec => []CoverageInv
BY CoverageInitInv, CoverageStep, PTL DEF CoverageSpec

\* The declarations of CoverageProposals.
THEOREM CoverageTypeCorrect == CoverageSpec => []CoverageTypeOK
<1>1. CoverageInv => CoverageTypeOK
  BY DEF CoverageInv
<1>. QED
  BY <1>1, CoverageInvariant, PTL

\* The condition of ReproposedOnlyByRace on one step.
ProposesUndecided ==
    \A w \in Advisors : \A i \in ProposalIds :
       Inserted(i) /\ advisor'[w] # advisor[w] => proposal'[i].type \notin advisor[w].before

\* FR-018: no pass proposes a type that was decided before it began, for any types, any
\* overlapping passes and decisions, and any number of proposals.
THEOREM ReproposedOnlyByRaceHolds == CoverageSpec => ReproposedOnlyByRace
<1>1. ASSUME DOMAIN proposal' = DOMAIN proposal PROVE ProposesUndecided
  BY <1>1 DEF ProposesUndecided, Inserted
<1>2. ASSUME CoverageInv, NEW v \in Advisors, CommitAdvisor(v) PROVE ProposesUndecided
  <2>. SUFFICES ASSUME NEW w \in Advisors, NEW i \in ProposalIds, Inserted(i), advisor'[w] # advisor[w]
                PROVE  proposal'[i].type \notin advisor[w].before
    BY DEF ProposesUndecided
  <2>1. w = v /\ advisor[w].stage = "inserted"
    BY <1>2 DEF CommitAdvisor, CoverageInv, CoverageTypeOK
  <2>2. proposal'[i].type \in advisor[w].wanted
    BY <1>2, <2>1, AppendedRows DEF Inserted
  <2>3. advisor[w].wanted \cap advisor[w].before = {}
    BY <1>2, <2>1 DEF CoverageInv, KnowsDecided
  <2>. QED
    BY <2>2, <2>3
<1>3. ASSUME NEW a \in Admins, CommitDecision(a) PROVE DOMAIN proposal' = DOMAIN proposal
  BY <1>3 DEF CommitDecision
<1>4. CoverageInv /\ [CoverageNext]_coverageVars => ProposesUndecided
  <2>. SUFFICES ASSUME CoverageInv, [CoverageNext]_coverageVars PROVE ProposesUndecided
    OBVIOUS
  <2>1. ASSUME NEW types \in SUBSET Types, InventoryChanges(types) \/ ReleaseBuild(types)
        PROVE  ProposesUndecided
    BY <1>1, <2>1 DEF InventoryChanges, ReleaseBuild
  <2>2. ASSUME NEW w \in Advisors,
               \/ DetectGaps(w) \/ ReadDecided(w) \/ ReadPending(w)
               \/ InsertProposals(w) \/ RollbackAdvisor(w)
        PROVE  ProposesUndecided
    BY <1>1, <2>2 DEF DetectGaps, ReadDecided, ReadPending, InsertProposals, RollbackAdvisor
  <2>3. ASSUME NEW a \in Admins, NEW i \in DOMAIN proposal, NEW accept \in BOOLEAN,
               ReadProposal(a, i, accept)
        PROVE  ProposesUndecided
    BY <1>1, <2>3 DEF ReadProposal
  <2>4. CASE UNCHANGED coverageVars
    BY <1>1, <2>4 DEF coverageVars
  <2>. QED
    BY <1>1, <1>2, <1>3, <2>1, <2>2, <2>3, <2>4 DEF CoverageNext
<1>5. CoverageInv /\ [CoverageNext]_coverageVars => [ProposesUndecided]_coverageVars
  BY <1>4
<1>. QED
  BY <1>5, CoverageInvariant, PTL DEF CoverageSpec, ReproposedOnlyByRace, ProposesUndecided

\* The condition of DecidedAgainOnlyByRace on one step.
DecidesPending ==
    \A a \in Admins : CommitDecision(a) /\ decision[a].alone => MayDecide(decision[a].id)

\* A decision that is alone holds a pending proposal, and holds it by itself.
DecisionsApart ==
    \A a \in Admins : decision[a] # NoDecision /\ decision[a].alone =>
        /\ MayDecide(decision[a].id)
        /\ \A b \in Admins \ {a} : decision[b].id # decision[a].id

LEMMA DecisionsApartStep ==
    CoverageInv /\ DecisionsApart /\ [CoverageNext]_coverageVars => DecisionsApart'
<1>. SUFFICES ASSUME CoverageInv, DecisionsApart, [CoverageNext]_coverageVars
              PROVE  DecisionsApart'
  OBVIOUS
<1>0. \A a \in Admins : decision[a] # NoDecision => decision[a].id \in DOMAIN proposal
  BY DEF CoverageInv
<1>1. ASSUME decision' = decision, DOMAIN proposal \subseteq DOMAIN proposal',
             \A i \in DOMAIN proposal : proposal'[i] = proposal[i]
      PROVE  DecisionsApart'
  BY <1>0, <1>1 DEF DecisionsApart, MayDecide
<1>2. CASE UNCHANGED coverageVars
  BY <1>1, <1>2 DEF coverageVars
<1>3. ASSUME NEW types \in SUBSET Types, InventoryChanges(types) \/ ReleaseBuild(types)
      PROVE  DecisionsApart'
  BY <1>1, <1>3 DEF InventoryChanges, ReleaseBuild
<1>4. ASSUME NEW w \in Advisors,
             \/ DetectGaps(w) \/ ReadDecided(w) \/ ReadPending(w)
             \/ InsertProposals(w) \/ RollbackAdvisor(w)
      PROVE  DecisionsApart'
  BY <1>1, <1>4 DEF DetectGaps, ReadDecided, ReadPending, InsertProposals, RollbackAdvisor
<1>5. ASSUME NEW w \in Advisors, CommitAdvisor(w) PROVE DecisionsApart'
  <2>1. decision' = decision
    BY <1>5 DEF CommitAdvisor
  <2>. QED
    BY <1>1, <1>5, <2>1, AppendedRows
<1>6. ASSUME NEW a \in Admins, NEW i \in DOMAIN proposal, NEW accept \in BOOLEAN,
             ReadProposal(a, i, accept)
      PROVE  DecisionsApart'
  <2>1. /\ decision'[a].id = i /\ (decision'[a].alone => Deciding(i) = {})
        /\ \A b \in Admins \ {a} :
              /\ decision'[b].id = decision[b].id
              /\ decision'[b].alone => decision[b].alone /\ decision[b].id # i
    BY <1>6, DecisionsAfterRead DEF CoverageInv
  <2>2. proposal' = proposal /\ MayDecide(i)
    BY <1>6 DEF ReadProposal
  <2>3. ASSUME decision'[a].alone
        PROVE  MayDecide(i)' /\ \A b \in Admins \ {a} : decision'[b].id # i
    BY <2>1, <2>2, <2>3 DEF Deciding, MayDecide
  <2>4. ASSUME NEW b \in Admins \ {a}, decision'[b] # NoDecision, decision'[b].alone
        PROVE  /\ MayDecide(decision[b].id)'
               /\ \A c \in Admins \ {b} : decision'[c].id # decision'[b].id
    <3>1. decision[b] # NoDecision
      <4>1. decision'[b] = [decision[b] EXCEPT !.alone = @ /\ decision[b].id # i]
        BY <1>6, <2>4 DEF ReadProposal
      <4>2. i # 0
        BY LenProperties DEF CoverageInv, CoverageTypeOK
      <4>. QED
        BY <2>4, <4>1, <4>2 DEF NoDecision
    <3>2. MayDecide(decision[b].id) /\ \A c \in Admins \ {b} : decision[c].id # decision[b].id
      BY <2>1, <2>4, <3>1 DEF DecisionsApart
    <3>. QED
      BY <2>1, <2>2, <2>4, <3>2 DEF MayDecide
  <2>. QED
    BY <2>1, <2>3, <2>4 DEF DecisionsApart
<1>7. ASSUME NEW a \in Admins, CommitDecision(a) PROVE DecisionsApart'
  <2>1. /\ decision'[a] = NoDecision
        /\ \A b \in Admins \ {a} : decision'[b] = decision[b]
    BY <1>7 DEF CommitDecision, CoverageInv, CoverageTypeOK
  <2>2. \A i \in DOMAIN proposal : i # decision[a].id => proposal'[i] = proposal[i]
    BY <1>7 DEF CommitDecision
  <2>3. ASSUME NEW b \in Admins \ {a}, decision[b] # NoDecision, decision[b].alone
        PROVE  /\ MayDecide(decision[b].id)'
               /\ \A c \in Admins \ {b} : decision'[c].id # decision'[b].id
    <3>1. /\ MayDecide(decision[b].id) /\ decision[b].id \in DOMAIN proposal
          /\ \A c \in Admins \ {b} : decision[c].id # decision[b].id
      BY <1>0, <2>3 DEF DecisionsApart
    <3>2. decision[b].id # 0
      BY <3>1, LenProperties DEF CoverageInv, CoverageTypeOK
    <3>. QED
      BY <2>1, <2>2, <3>1, <3>2 DEF MayDecide, NoDecision
  <2>. QED
    BY <2>1, <2>3 DEF DecisionsApart
<1>. QED
  BY <1>2, <1>3, <1>4, <1>5, <1>6, <1>7 DEF CoverageNext

\* A decision that no other overlapped on its proposal is the first one, whatever passes
\* and other decisions commit between its reading and its commit.
THEOREM DecidedAgainOnlyByRaceHolds == CoverageSpec => DecidedAgainOnlyByRace
<1>1. DecisionsApart => DecidesPending
  BY DEF DecisionsApart, DecidesPending, CommitDecision
<1>2. CoverageInit => DecisionsApart
  BY DEF CoverageInit, DecisionsApart
<1>. QED
  BY <1>1, <1>2, CoverageInvariant, DecisionsApartStep, PTL
     DEF CoverageSpec, DecidedAgainOnlyByRace, DecidesPending, MayDecide

\* The condition of GapsAreAccountedFor on one step.
AccountsForGaps ==
    \A w \in Advisors :
       w \in undisturbed /\ CommitAdvisor(w) =>
          /\ gaps' = inventory \ (Covered \cup build)
          /\ (inventory \cap build) \ Covered \subseteq (Pending \cup AlreadyDecided)'

\* FR-015, FR-015a: a pass that nothing overlapped leaves the advisory rows exactly those of
\* the gaps of its day, and every other uncovered type decided, or pending as a proposal.
THEOREM GapsAreAccountedForHolds == CoverageSpec => GapsAreAccountedFor
<1>1. CoverageInv => AccountsForGaps
  <2>. SUFFICES ASSUME CoverageInv, NEW w \in Advisors, w \in undisturbed, CommitAdvisor(w)
                PROVE  /\ gaps' = inventory \ (Covered \cup build)
                       /\ (inventory \cap build) \ Covered \subseteq (Pending \cup AlreadyDecided)'
    BY DEF AccountsForGaps
  <2>1. /\ advisor[w].stage = "inserted" /\ advisor[w].existing = gaps
        /\ advisor[w].advisory = (inventory \ Covered) \ Proposable
        /\ advisor[w].wanted = (Proposable \ AlreadyDecided) \ Pending
    BY DEF CommitAdvisor, CoverageInv, SeesTheGaps
  <2>2. gaps' = ReplacedGaps(w)
    BY DEF CommitAdvisor
  <2>3. gaps' = inventory \ (Covered \cup build)
    BY <2>1, <2>2 DEF ReplacedGaps, Proposable
  <2>4. /\ DOMAIN proposal \subseteq DOMAIN proposal'
        /\ \A i \in DOMAIN proposal : proposal'[i] = proposal[i]
        /\ \A t \in advisor[w].wanted :
              \E i \in DOMAIN proposal' : proposal'[i].type = t /\ proposal'[i].state = "pending"
    BY AppendedRows
  <2>5. Pending \subseteq Pending' /\ AlreadyDecided \subseteq AlreadyDecided'
    BY <2>4 DEF Pending, AlreadyDecided, TypesIn
  <2>6. advisor[w].wanted \subseteq Pending'
    BY <2>4 DEF Pending, TypesIn
  <2>7. (inventory \cap build) \ Covered = Proposable
    BY DEF Proposable
  <2>8. Proposable \subseteq Pending' \cup AlreadyDecided'
    BY <2>1, <2>5, <2>6
  <2>. QED
    BY <2>3, <2>7, <2>8
<1>2. CoverageInv /\ [CoverageNext]_coverageVars => [AccountsForGaps]_coverageVars
  BY <1>1
<1>. QED
  BY <1>2, CoverageInvariant, PTL DEF CoverageSpec, GapsAreAccountedFor, AccountsForGaps

-----------------------------------------------------------------------------
(***************************************************************************)
(* Agents.                                                                 *)
(***************************************************************************)
LEMMA AgentsStart == AgentsInit => SuggesterInit /\ DigestInit /\ CoverageInit
BY DEF AgentsInit

\* A step of one part is a step of its own specification and a stutter of the others'.
LEMMA AgentsSteps ==
    ASSUME [AgentsNext]_agentsVars
    PROVE  [SuggesterNext]_suggesterVars /\ [DigestNext]_digestVars /\ [CoverageNext]_coverageVars
<1>1. CASE UNCHANGED agentsVars
  BY <1>1 DEF agentsVars
<1>. QED
  BY <1>1 DEF AgentsNext

\* The composition implements the specification of each of its parts.
THEOREM AgentsImplementTheirParts == AgentsSpec => SuggesterSpec /\ DigestSpec /\ CoverageSpec
BY AgentsStart, AgentsSteps, PTL DEF AgentsSpec, SuggesterSpec, DigestSpec, CoverageSpec

\* The states of the three parts are what their declarations say.
THEOREM AgentsTypeCorrect == AgentsSpec => []AgentsTypeOK
BY AgentsImplementTheirParts, SuggesterTypeCorrect, DigestTypeCorrect, CoverageTypeCorrect, PTL
   DEF AgentsTypeOK

\* FR-001, FR-010, FR-011: whatever text of an agent is stored, the references it declares
\* and the amounts and percentages it states are what the platform handed to the run that
\* wrote it, for any findings, figures, model answers and overlapping runs.  Identifiers
\* that its prose names and does not declare are outside this: the code lets them through.
THEOREM AgentTextIsGroundedHolds == AgentsSpec => []AgentTextIsGrounded
BY AgentsImplementTheirParts, SuggestionIsOwnHolds, DigestIsGroundedHolds, PTL
   DEF AgentTextIsGrounded

\* What the three promise holds of their composition.
THEOREM AgentsKeepTheirPromises ==
    AgentsSpec => /\ []PassRowIsTrue /\ AdminSuggestionStands
                  /\ CurrentDigestStays
                  /\ ReproposedOnlyByRace /\ GapsAreAccountedFor /\ DecidedAgainOnlyByRace
BY AgentsImplementTheirParts, PassRowIsTrueHolds, AdminSuggestionStandsHolds,
   CurrentDigestStaysHolds, ReproposedOnlyByRaceHolds, GapsAreAccountedForHolds,
   DecidedAgainOnlyByRaceHolds, PTL

=============================================================================

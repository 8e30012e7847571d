----------------------------- MODULE IamHygiene -----------------------------
(***************************************************************************)
(* The flags on IAM roles, users and keys that appear unused: a weekly     *)
(* pass reads the evidence of every account and reconciles the flags with  *)
(* it (backend/handlers/iam_hygiene_worker_handler.py,                     *)
(* iam_unused_analysis of backend/connectors/aws.py,                       *)
(* backend/app/governance/iam_hygiene.py).                                 *)
(*                                                                         *)
(* A pass is one transaction over all accounts.  Dates are told apart only *)
(* by the two windows of 90 days.                                          *)
(***************************************************************************)
EXTENDS Integers, FiniteSets

CONSTANTS
    Principals,    \* roles, users and access keys
    AccountOf,     \* the account of each
    Keys,          \* those of them that are access keys
    UserOf,        \* the user of each key
    Passes,        \* runs of the worker that may overlap
    MaxPasses,     \* bound: how many runs begin
    MaxChanges     \* bound: how often a principal changes

Verified == {AccountOf[p] : p \in Principals}

ASSUME HygieneAssumption ==
    /\ Keys \subseteq Principals
    /\ UserOf \in [Keys -> Principals \ Keys]
    /\ \A k \in Keys : AccountOf[UserOf[k]] = AccountOf[k]
    /\ MaxPasses \in Nat /\ MaxChanges \in Nat

\* A principal that is not there: deleted, or not created yet.
Missing == [there |-> FALSE, used |-> "never", age |-> "young"]
Created == [there |-> TRUE, used |-> "never", age |-> "young"]
Dormant == [there |-> TRUE, used |-> "longAgo", age |-> "old"]
NoFlags == [p \in Principals |-> 0]
IdlePass == [stage |-> "idle", left |-> {}, account |-> {}, listed |-> {}, unused |-> {},
             raise |-> {}, clear |-> NoFlags, analysed |-> {}, alone |-> TRUE]

VARIABLES
    principal,     \* each principal as IAM reports it
    changes,       \* how often one has changed
    flag,          \* the active flag of each principal, by number; 0 for none
    raised,        \* how many flags each principal has had
    pass,          \* the transaction of each run
    begun          \* how many runs have begun

iamVars == <<principal, changes>>
flagVars == <<flag, raised>>
hygieneVars == <<iamVars, flagVars, pass, begun>>

(***************************************************************************)
(* The accounts.                                                           *)
(***************************************************************************)

Becomes(p, report) ==
    /\ changes < MaxChanges /\ changes' = changes + 1
    /\ principal' = [principal EXCEPT ![p] = report]
    /\ UNCHANGED <<flagVars, pass, begun>>

CreatePrincipal(p) ==
    /\ ~principal[p].there
    /\ p \in Keys => principal[UserOf[p]].there
    /\ Becomes(p, Created)

\* A role assumed, a user signed in to the console, a key used.
Use(p) ==
    /\ principal[p].there /\ principal[p].used # "recently"
    /\ Becomes(p, [principal[p] EXCEPT !.used = "recently"])

\* Ninety days without a use, or of existence without one.
GoQuiet(p) ==
    /\ principal[p].there
    /\ \/ principal[p].used = "recently" /\ Becomes(p, Dormant)
       \/ principal[p].age = "young" /\ Becomes(p, [principal[p] EXCEPT !.age = "old"])

DeletePrincipal(p) ==
    /\ principal[p].there
    /\ \A k \in Keys : UserOf[k] = p => ~principal[k].there
    /\ Becomes(p, Missing)

(***************************************************************************)
(* The weekly pass.                                                        *)
(***************************************************************************)

BeginPass(w) ==
    /\ pass[w].stage = "idle" /\ begun < MaxPasses
    /\ begun' = begun + 1
    /\ pass' = [pass EXCEPT ![w] = [IdlePass EXCEPT !.stage = "next", !.left = Verified]]
    /\ UNCHANGED <<iamVars, flagVars>>

In(a) == {p \in Principals : AccountOf[p] = a}

\* is_unused: quiet for long, or never used and old enough for that to mean something.
IsUnused(p) ==
    /\ principal[p].there
    /\ principal[p].used = "longAgo" \/ (principal[p].used = "never" /\ principal[p].age = "old")

\* iam_unused_analysis and _to_candidates: every principal of the account, judged later
\* by what is read now; a user's own use is its last sign-in, its keys are listed beside it.
Analyse(w, a) ==
    /\ pass[w].stage = "next" /\ a \in pass[w].left
    /\ pass' = [pass EXCEPT ![w].stage = "analysed", ![w].left = @ \ {a}, ![w].account = {a},
                   ![w].listed = @ \cup {p \in In(a) : principal[p].there},
                   ![w].unused = @ \cup {p \in In(a) : IsUnused(p)}]
    /\ UNCHANGED <<iamVars, flagVars, begun>>

\* The role cannot be assumed, or any call fails: the account is skipped.
Fail(w, a) ==
    /\ pass[w].stage = "next" /\ a \in pass[w].left
    /\ pass' = [pass EXCEPT ![w].left = @ \ {a}]
    /\ UNCHANGED <<iamVars, flagVars, begun>>

\* Fault: a principal that is not listed any more keeps its flag.
ClearsListed(w, p) == flag[p] # 0 /\ p \in pass[w].listed \ pass[w].unused

Clears(w, p) == flag[p] # 0 /\ p \notin pass[w].unused

\* reconcile_flags reads the active flags of the account and decides.
ReadFlags(w) ==
    /\ pass[w].stage = "analysed"
    /\ \E a \in pass[w].account :
          pass' = [pass EXCEPT ![w].stage = "decided", ![w].analysed = @ \cup {a},
             ![w].raise = @ \cup {p \in In(a) : flag[p] = 0 /\ p \in pass[w].unused},
             ![w].clear = [p \in Principals |-> IF p \in In(a) /\ Clears(w, p) THEN flag[p] ELSE @[p]]]
    /\ UNCHANGED <<iamVars, flagVars, begun>>

Flushed(v) == IF pass[v].stage = "decided" THEN pass[v].analysed \ pass[v].account
              ELSE pass[v].analysed

\* The partial unique index: a flag another run has raised and not committed is waited
\* for; one it has committed is an error, after which the session answers nothing.
FlushFlags(w) ==
    /\ pass[w].stage = "decided"
    /\ LET rows == {p \in pass[w].raise : AccountOf[p] \in pass[w].account}
       IN /\ \A v \in Passes \ {w} : \A p \in rows \cap pass[v].raise : AccountOf[p] \notin Flushed(v)
          /\ pass' = [pass EXCEPT ![w].account = {},
                         ![w].stage = IF \E p \in rows : flag[p] # 0 THEN "broken" ELSE "next"]
    /\ UNCHANGED <<iamVars, flagVars, begun>>

\* Flags are cleared by row: one that was replaced meanwhile is not touched.
CommitPass(w) ==
    /\ pass[w].stage = "next" /\ pass[w].left = {}
    /\ flag' = [p \in Principals |->
                  IF p \in pass[w].raise THEN raised[p] + 1
                  ELSE IF flag[p] = pass[w].clear[p] THEN 0 ELSE flag[p]]
    /\ raised' = [p \in Principals |-> IF p \in pass[w].raise THEN raised[p] + 1 ELSE raised[p]]
    /\ pass' = [v \in Passes |-> IF v = w THEN IdlePass ELSE [pass[v] EXCEPT !.alone = FALSE]]
    /\ UNCHANGED <<iamVars, begun>>

\* A broken session, a crash or a timeout; the next run begins anew.
RollbackPass(w) ==
    /\ pass[w].stage # "idle"
    /\ pass' = [pass EXCEPT ![w] = IdlePass]
    /\ UNCHANGED <<iamVars, flagVars, begun>>

-----------------------------------------------------------------------------
HygieneInit ==
    /\ principal \in [Principals -> {Created, Dormant}]
    /\ changes = 0
    /\ flag = NoFlags /\ raised = NoFlags
    /\ pass = [w \in Passes |-> IdlePass]
    /\ begun = 0

HygieneNext ==
    \/ \E p \in Principals : \/ CreatePrincipal(p) \/ Use(p) \/ GoQuiet(p)
                             \/ DeletePrincipal(p)
    \/ \E w \in Passes : \/ BeginPass(w) \/ ReadFlags(w) \/ FlushFlags(w)
                         \/ CommitPass(w) \/ RollbackPass(w)
                         \/ \E a \in Verified : Analyse(w, a) \/ Fail(w, a)

HygieneSpec == HygieneInit /\ [][HygieneNext]_hygieneVars

(***************************************************************************)
(* Properties.                                                             *)
(***************************************************************************)
Reports == [there : BOOLEAN, used : {"never", "recently", "longAgo"}, age : {"young", "old"}]
FlagNumbers == [Principals -> 0..MaxPasses]

HygieneTypeOK ==
    /\ principal \in [Principals -> Reports]
    /\ changes \in 0..MaxChanges /\ begun \in 0..MaxPasses
    /\ flag \in FlagNumbers /\ raised \in FlagNumbers
    /\ pass \in [Passes -> [stage : {"idle", "next", "analysed", "decided", "broken"},
                            left : SUBSET Verified, account : SUBSET Verified,
                            listed : SUBSET Principals, unused : SUBSET Principals,
                            raise : SUBSET Principals, clear : FlagNumbers,
                            analysed : SUBSET Verified, alone : BOOLEAN]]

Commits(w) == begun' = begun /\ pass[w].stage = "next" /\ pass'[w].stage = "idle" /\ flagVars' # flagVars

\* FR-019, FR-020: flags change only when a run commits, and only those of accounts it
\* could read, each in the direction of its evidence; a run that nothing disturbed leaves
\* flagged exactly the principals that existed and appeared unused.  An account whose
\* analysis failed keeps its flags, whatever became of the other accounts of the run.
FlagsFollowEvidence ==
    [][/\ \A p \in Principals : flag'[p] # flag[p] =>
             \E w \in Passes :
                /\ Commits(w) /\ AccountOf[p] \in pass[w].analysed
                /\ (flag'[p] # 0) = (p \in pass[w].unused)
       /\ \A w \in Passes : Commits(w) /\ pass[w].alone =>
             \A p \in Principals : AccountOf[p] \in pass[w].analysed =>
                ((flag'[p] # 0) = (p \in pass[w].unused))]_hygieneVars

\* FR-020 and the docstring of iam_hygiene.py: a principal used recently is never judged
\* unused, the use of a user's keys being use of that user.
RecentlyUsedIsNotFlagged ==
    [][\A w \in Passes : \A p \in pass'[w].unused \ pass[w].unused :
          ~ \E q \in Principals : /\ q = p \/ (q \in Keys /\ UserOf[q] = p)
                                  /\ principal[q].used = "recently"]_hygieneVars

=============================================================================

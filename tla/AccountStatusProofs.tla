------------------------ MODULE AccountStatusProofs ------------------------
(***************************************************************************)
(* Machine-checked theorems about AccountStatus, for any number of units,  *)
(* admin requests and registrations.                                       *)
(*                                                                         *)
(* The argument for OnlyOlderUnitsReenable: while the account is disabled, *)
(* every open unit that is not stale has itself read a disabled row        *)
(* (ReadsDisabled), and record_role_outcome writes nothing for such a row. *)
(***************************************************************************)
EXTENDS AccountStatus, TLAPS

\* Writing a well-formed row on top of a well-formed row gives one, and Save
\* lets only explained rows through.
LEMMA SaveType ==
    ASSUME TypeOK, NEW t \in Units \cup Admins, seen[t] # NoAccount,
           NEW want \in Rows, account # NoAccount, Save(t, want)
    PROVE  /\ account' \in Rows /\ Explained(account')
           /\ seen' \in [Units \cup Admins -> Rows \cup {NoAccount}]
<1>1. account \in Rows /\ seen[t] \in Rows /\ Explained(account)
  BY DEF TypeOK
<1>2. Merge(account, seen[t], want) \in Rows
  BY <1>1 DEF Merge, Rows
<1>. QED
  BY <1>1, <1>2 DEF Save, TypeOK

\* A transaction is open only on an account that exists.
OpenOnAccount == \A t \in Units \cup Admins : seen[t] # NoAccount => account # NoAccount

TypeInv == TypeOK /\ OpenOnAccount

LEMMA RowIsAccount == NoAccount \notin Rows
BY DEF NoAccount, Rows

\* What the writers make of a row they read is a row.
LEMMA OutcomeType ==
    ASSUME NEW read \in Rows, NEW reason \in Codes \cup {NoReason}
    PROVE  RoleOutcome(read, reason) \in Rows
BY DEF RoleOutcome, Rows

LEMMA TypeInit == Init => TypeInv
<1>. SUFFICES ASSUME Init PROVE TypeInv
  OBVIOUS
<1>1. Explained(NoAccount)
  BY DEF Explained, NoAccount
<1>2. account = NoAccount /\ stale = {} /\ due = FALSE /\ opener = "none"
  BY DEF Init
<1>3. seen \in [Units \cup Admins -> Rows \cup {NoAccount}]
  BY DEF Init
<1>4. registration \in [Registrations ->
                          {"new", "checked", "stored", "accepted", "refused", "conflict"}]
  BY DEF Init
<1>5. OpenOnAccount
  BY DEF Init, OpenOnAccount
<1>. QED
  BY <1>1, <1>2, <1>3, <1>4, <1>5 DEF TypeInv, TypeOK

LEMMA TypeStep == TypeInv /\ [Next]_vars => TypeInv'
<1>. SUFFICES ASSUME TypeInv, [Next]_vars PROVE TypeInv'
  OBVIOUS
<1>. USE RowIsAccount
<1>a. TypeOK /\ OpenOnAccount
  BY DEF TypeInv
<1>1. CASE ScanStep
  BY <1>1, <1>a DEF ScanStep, SelectDue, StartDue, TriggerScan, EndScan, TypeInv, TypeOK, OpenOnAccount
<1>2. ASSUME NEW t \in Units \cup Admins, Begin(t) PROVE TypeInv'
  BY <1>2, <1>a DEF Begin, TypeInv, TypeOK, OpenOnAccount
<1>3. ASSUME NEW t \in Units \cup Admins, Rollback(t) PROVE TypeInv'
  BY <1>3, <1>a DEF Rollback, TypeInv, TypeOK, OpenOnAccount
<1>4. ASSUME NEW t \in Units \cup Admins, NEW want \in Rows, seen[t] # NoAccount, Save(t, want),
             UNCHANGED <<registration, due, opener>>, stale' \subseteq Units
      PROVE  TypeInv'
  <2>1. account # NoAccount
    BY <1>4, <1>a DEF OpenOnAccount
  <2>2. /\ account' \in Rows /\ Explained(account)'
        /\ seen' \in [Units \cup Admins -> Rows \cup {NoAccount}]
    BY <1>4, <1>a, <2>1, SaveType DEF Explained
  <2>. QED
    BY <1>4, <1>a, <2>2 DEF TypeInv, TypeOK, OpenOnAccount
<1>5. ASSUME NEW u \in Units, UnitStep(u) PROVE TypeInv'
  <2>1. ASSUME NEW reason \in Codes \cup {NoReason}, CommitUnit(u, reason) PROVE TypeInv'
    <3>1. seen[u] \in Rows /\ seen[u] # NoAccount
      BY <2>1, <1>a DEF CommitUnit, TypeOK
    <3>2. RoleOutcome(seen[u], reason) \in Rows
      BY <3>1, OutcomeType
    <3>3. stale' \subseteq Units
      BY <2>1, <1>a DEF CommitUnit, TypeOK
    <3>. QED
      BY <2>1, <3>1, <3>2, <3>3, <1>4 DEF CommitUnit
  <2>. QED
    BY <1>2, <1>3, <1>5, <2>1 DEF UnitStep, BeginUnit
<1>6. ASSUME NEW m \in Admins, AdminStep(m) PROVE TypeInv'
  <2>1. CASE Deactivate(m)
    <3>1. [status |-> "disabled", reason |-> NoReason] \in Rows
      BY DEF Rows
    <3>2. stale' \subseteq Units
      BY <2>1, <1>a DEF Deactivate, TypeOK
    <3>. QED
      BY <2>1, <3>1, <3>2, <1>4 DEF Deactivate
  <2>2. CASE Reactivate(m)
    <3>1. seen[m] # NoAccount /\ seen[m] \in Rows
      BY <2>2, <1>a DEF Reactivate, NoAccount, TypeOK
    <3>2. [seen[m] EXCEPT !.status = "verified"] \in Rows
      BY <3>1 DEF Rows
    <3>. QED
      BY <2>2, <3>1, <3>2, <1>4, <1>a DEF Reactivate, TypeOK
  <2>. QED
    BY <1>2, <1>3, <1>6, <2>1, <2>2 DEF AdminStep
<1>7. ASSUME NEW c \in Registrations, RegistrationStep(c) PROVE TypeInv'
  <2>1. NewAccount \in Rows /\ Explained(NewAccount)
    BY DEF NewAccount, Rows, Explained, NoReason
  <2>. QED
    BY <1>7, <1>a, <2>1 DEF RegistrationStep, CheckDuplicate, Verify, InsertAccount, Advance,
       TypeInv, TypeOK, OpenOnAccount, Explained
<1>8. CASE UNCHANGED vars
  BY <1>8, <1>a DEF vars, TypeInv, TypeOK, OpenOnAccount, Explained
<1>. QED
  BY <1>1, <1>5, <1>6, <1>7, <1>8 DEF Next

\* Every variable keeps its type, and a failed account always has its reason: no
\* interleaving of the partial updates gets past the check constraint.
THEOREM TypeCorrect == Spec => []TypeOK
<1>1. TypeInv => TypeOK
  BY DEF TypeInv
<1>. QED
  BY TypeInit, TypeStep, <1>1, PTL DEF Spec

(***************************************************************************)
(* Registration.                                                           *)
(***************************************************************************)

\* Once made the row stays, and only an insert makes it.
LEMMA AccountFrame ==
    ASSUME TypeInv, [Next]_vars
    PROVE  \/ \E c \in Registrations : InsertAccount(c)
           \/ /\ account' = NoAccount <=> account = NoAccount
              /\ \A c \in Registrations :
                    registration'[c] = "accepted" <=> registration[c] = "accepted"
<1>. USE RowIsAccount
<1>a. TypeOK /\ OpenOnAccount
  BY DEF TypeInv
<1>1. ASSUME NEW t \in Units \cup Admins, NEW want \in Rows, seen[t] # NoAccount, Save(t, want)
      PROVE  account' # NoAccount /\ account # NoAccount
  BY <1>1, <1>a, SaveType DEF OpenOnAccount
<1>2. CASE ScanStep \/ UNCHANGED vars
  BY <1>2 DEF ScanStep, SelectDue, StartDue, TriggerScan, EndScan, vars
<1>3. ASSUME NEW u \in Units, UnitStep(u)
      PROVE  (account' = NoAccount <=> account = NoAccount) /\ registration' = registration
  <2>1. ASSUME NEW reason \in Codes \cup {NoReason}, CommitUnit(u, reason)
        PROVE  account' # NoAccount /\ account # NoAccount /\ registration' = registration
    <3>1. seen[u] \in Rows /\ seen[u] # NoAccount
      BY <2>1, <1>a DEF CommitUnit, TypeOK
    <3>. QED
      BY <2>1, <3>1, <1>1, OutcomeType DEF CommitUnit
  <2>. QED
    BY <1>3, <2>1 DEF UnitStep, BeginUnit, Begin, Rollback
<1>4. ASSUME NEW m \in Admins, AdminStep(m)
      PROVE  (account' = NoAccount <=> account = NoAccount) /\ registration' = registration
  <2>1. CASE Deactivate(m)
    <3>1. [status |-> "disabled", reason |-> NoReason] \in Rows
      BY DEF Rows
    <3>. QED
      BY <2>1, <3>1, <1>1 DEF Deactivate
  <2>2. CASE Reactivate(m)
    <3>1. seen[m] # NoAccount /\ seen[m] \in Rows
      BY <2>2, <1>a DEF Reactivate, NoAccount, TypeOK
    <3>2. [seen[m] EXCEPT !.status = "verified"] \in Rows
      BY <3>1 DEF Rows
    <3>. QED
      BY <2>2, <3>1, <3>2, <1>1 DEF Reactivate
  <2>. QED
    BY <1>4, <2>1, <2>2 DEF AdminStep, Begin, Rollback
<1>5. ASSUME NEW c \in Registrations, RegistrationStep(c), ~InsertAccount(c)
      PROVE  /\ account' = account
             /\ \A d \in Registrations :
                   registration'[d] = "accepted" <=> registration[d] = "accepted"
  BY <1>5, <1>a DEF RegistrationStep, CheckDuplicate, Verify, Advance, TypeOK
<1>. QED
  BY <1>2, <1>3, <1>4, <1>5 DEF Next

LEMMA RegistrationStepKeeps ==
    ASSUME TypeInv, OneRegistration, [Next]_vars
    PROVE  OneRegistration'
<1>1. ASSUME NEW c \in Registrations, InsertAccount(c) PROVE OneRegistration'
  <2>1. NewAccount # NoAccount
    BY DEF NewAccount, NoAccount
  <2>2. registration \in [Registrations ->
                            {"new", "checked", "stored", "accepted", "refused", "conflict"}]
    BY DEF TypeInv, TypeOK
  <2>3. CASE account = NoAccount
    BY <1>1, <2>1, <2>2, <2>3 DEF InsertAccount, Advance, OneRegistration
  <2>4. CASE account # NoAccount
    BY <1>1, <2>2, <2>4 DEF InsertAccount, Advance, OneRegistration
  <2>. QED
    BY <2>3, <2>4
<1>. QED
  BY <1>1, AccountFrame DEF OneRegistration

\* However concurrent registrations interleave, exactly the request that made the
\* row is accepted (register_account).
THEOREM RegistrationUnique == Spec => []OneRegistration
<1>1. Init => OneRegistration
  BY DEF Init, OneRegistration
<1>. QED
  BY TypeInit, TypeStep, <1>1, RegistrationStepKeeps, PTL DEF Spec

(***************************************************************************)
(* Deactivation.                                                           *)
(***************************************************************************)

\* While the account is disabled, whoever is not stale has read that.
ReadsDisabled ==
    account.status = "disabled" =>
        \A u \in Units \ stale : seen[u] # NoAccount => seen[u] = account

\* A unit that read the disabled row writes nothing.
LEMMA DisabledUnitWritesNothing ==
    ASSUME TypeOK, NEW u \in Units, NEW reason \in Codes \cup {NoReason},
           CommitUnit(u, reason), seen[u].status = "disabled"
    PROVE  account' = account
<1>1. seen[u] # NoAccount /\ account \in Rows \cup {NoAccount}
  BY DEF CommitUnit, TypeOK
<1>2. Merge(account, seen[u], RoleOutcome(seen[u], reason)) = account
  BY <1>1 DEF Merge, RoleOutcome, Rows, NoAccount
<1>. QED
  BY <1>2 DEF CommitUnit, Save

\* A disabled row is always the same row.
LEMMA DisabledRow ==
    ASSUME NEW row \in Rows \cup {NoAccount}, Explained(row), row.status = "disabled"
    PROVE  row = [status |-> "disabled", reason |-> NoReason]
BY DEF Explained, Rows, NoAccount
\* What a save can make of a disabled row: the same row, unless the writer wanted
\* another status than it read.
LEMMA DisabledSurvives ==
    ASSUME TypeOK, account.status = "disabled", NEW t \in Units \cup Admins, NEW want \in Rows,
           Save(t, want)
    PROVE  /\ account'.status = "disabled" => account' = account
           /\ want.status \in {"disabled", seen[t].status} => account'.status = "disabled"
<1>1. account \in Rows /\ Explained(account)
  BY DEF TypeOK, NoAccount
<1>2. Merge(account, seen[t], want) \in Rows
  BY <1>1 DEF Merge, Rows
<1>3. account' \in Rows /\ Explained(account')
  BY <1>1, <1>2 DEF Save
<1>4. account'.status = "disabled" => account' = account
  BY <1>1, <1>3, DisabledRow
<1>5. want.status \in {"disabled", seen[t].status} => account'.status = "disabled"
  BY DEF Save, Merge
<1>. QED
  BY <1>4, <1>5

\* Only a deactivation disables.
LEMMA DisabledOnlyByAdmin ==
    ASSUME TypeInv, NEW u \in Units, NEW reason \in Codes \cup {NoReason}, CommitUnit(u, reason),
           account.status # "disabled"
    PROVE  account'.status # "disabled"
<1>1. CASE seen[u].status = "disabled"
  BY <1>1, DisabledUnitWritesNothing DEF TypeInv
<1>2. CASE seen[u].status # "disabled"
  <2>1. RoleOutcome(seen[u], reason).status # "disabled"
    BY <1>2 DEF RoleOutcome
  <2>. QED
    BY <2>1 DEF CommitUnit, Save, Merge
<1>. QED
  BY <1>1, <1>2

LEMMA ReadsDisabledStep ==
    ASSUME TypeInv, ReadsDisabled, [Next]_vars
    PROVE  ReadsDisabled'
<1>a. TypeOK /\ OpenOnAccount
  BY DEF TypeInv
<1>b. Units \cap Admins = {}
  BY AccountAssumption
<1>. SUFFICES ASSUME account'.status = "disabled", NEW u \in Units \ stale', seen'[u] # NoAccount
              PROVE  seen'[u] = account'
  BY DEF ReadsDisabled
<1>1. CASE ScanStep \/ UNCHANGED vars
  BY <1>1 DEF ScanStep, SelectDue, StartDue, TriggerScan, EndScan, vars, ReadsDisabled
<1>2. ASSUME NEW t \in Units \cup Admins, Begin(t) PROVE seen'[u] = account'
  BY <1>2, <1>a DEF Begin, ReadsDisabled, TypeOK
<1>3. ASSUME NEW t \in Units \cup Admins, Rollback(t) PROVE seen'[u] = account'
  BY <1>3, <1>a DEF Rollback, ReadsDisabled, TypeOK
<1>4. ASSUME NEW v \in Units, NEW reason \in Codes \cup {NoReason}, CommitUnit(v, reason)
      PROVE  seen'[u] = account'
  <2>1. account.status = "disabled"
    BY <1>4, DisabledOnlyByAdmin
  <2>2. seen[v] \in Rows /\ Save(v, RoleOutcome(seen[v], reason))
    BY <1>4, <1>a DEF CommitUnit, TypeOK
  <2>3. account' = account
    BY <2>1, <2>2, <1>a, OutcomeType, DisabledSurvives
  <2>4. v # u /\ seen'[u] = seen[u] /\ u \notin stale
    BY <1>4, <1>a DEF CommitUnit, Save, TypeOK
  <2>. QED
    BY <2>1, <2>3, <2>4 DEF ReadsDisabled
<1>5. ASSUME NEW m \in Admins, Deactivate(m) PROVE seen'[u] = account'
  <2>1. [status |-> "disabled", reason |-> NoReason] \in Rows
    BY DEF Rows
  <2>2. m # u /\ seen'[u] = seen[u]
    BY <1>5, <1>a, <1>b DEF Deactivate, Save, TypeOK
  <2>3. account.status = "disabled"
    BY <1>5, <2>2 DEF Deactivate
  <2>4. account' = account
    BY <1>5, <2>1, <2>3, <1>a, DisabledSurvives DEF Deactivate
  <2>5. u \notin stale
    BY <1>5, <2>3 DEF Deactivate
  <2>. QED
    BY <2>2, <2>3, <2>4, <2>5 DEF ReadsDisabled
<1>6. ASSUME NEW m \in Admins, Reactivate(m) PROVE seen'[u] = account'
  <2>1. seen[m] # NoAccount /\ seen[m] \in Rows
    BY <1>6, <1>a DEF Reactivate, NoAccount, TypeOK
  <2>2. [seen[m] EXCEPT !.status = "verified"] \in Rows
    BY <2>1 DEF Rows
  <2>3. m # u /\ seen'[u] = seen[u] /\ stale' = stale
    BY <1>6, <1>a, <1>b DEF Reactivate, Save, TypeOK
  <2>4. account' = account \/ account'.status = "verified"
    BY <1>6, <2>1 DEF Reactivate, Save, Merge, Rows
  <2>. QED
    BY <2>3, <2>4 DEF ReadsDisabled
<1>7. ASSUME NEW c \in Registrations, RegistrationStep(c) PROVE seen'[u] = account'
  BY <1>7 DEF RegistrationStep, CheckDuplicate, Verify, InsertAccount, Advance, NewAccount,
     ReadsDisabled
<1>. QED
  BY <1>1, <1>2, <1>3, <1>4, <1>5, <1>6, <1>7 DEF Next, UnitStep, BeginUnit, AdminStep

LEMMA OlderUnitsStep ==
    ASSUME TypeInv, ReadsDisabled, [Next]_vars,
           account.status = "disabled", account'.status # "disabled"
    PROVE  \/ \E u \in stale : seen[u] # NoAccount /\ seen'[u] = NoAccount
           \/ \E m \in Admins : Reactivate(m)
<1>a. TypeOK
  BY DEF TypeInv
<1>1. CASE ScanStep \/ UNCHANGED vars
  BY <1>1 DEF ScanStep, SelectDue, StartDue, TriggerScan, EndScan, vars
<1>2. ASSUME NEW u \in Units, NEW reason \in Codes \cup {NoReason}, CommitUnit(u, reason)
      PROVE  u \in stale /\ seen[u] # NoAccount /\ seen'[u] = NoAccount
  <2>1. seen[u].status # "disabled"
    BY <1>2, <1>a, DisabledUnitWritesNothing
  <2>. QED
    BY <1>2, <2>1, <1>a DEF CommitUnit, Save, ReadsDisabled, TypeOK
<1>3. ASSUME NEW m \in Admins, Deactivate(m) PROVE FALSE
  <2>1. [status |-> "disabled", reason |-> NoReason] \in Rows
    BY DEF Rows
  <2>. QED
    BY <1>3, <2>1, <1>a, DisabledSurvives DEF Deactivate
<1>4. ASSUME NEW c \in Registrations, RegistrationStep(c) PROVE FALSE
  BY <1>4 DEF RegistrationStep, CheckDuplicate, Verify, InsertAccount, Advance, NoAccount
<1>. QED
  BY <1>1, <1>2, <1>3, <1>4 DEF Next, UnitStep, BeginUnit, AdminStep, Begin, Rollback

\* While no unit older than the deactivation is in flight, only a reactivation
\* takes the account out of `disabled` (record_role_outcome).
THEOREM OlderUnitsOnly == Spec => OnlyOlderUnitsReenable
<1>1. Init => ReadsDisabled
  BY DEF Init, ReadsDisabled
<1>2. TypeInv /\ ReadsDisabled /\ [Next]_vars =>
        [account.status = "disabled" /\ account'.status # "disabled" =>
            \/ \E u \in stale : seen[u] # NoAccount /\ seen'[u] = NoAccount
            \/ \E m \in Admins : Reactivate(m)]_vars
  BY OlderUnitsStep
<1>. QED
  BY TypeInit, TypeStep, <1>1, ReadsDisabledStep, <1>2, PTL DEF Spec, OnlyOlderUnitsReenable

\* Administrators who deactivate an account only while none of its units is at work.
UndisturbedNext ==
    /\ Next
    /\ account.status # "disabled" /\ account'.status = "disabled" =>
          \A u \in Units : seen[u] = NoAccount
UndisturbedSpec == Init /\ [][UndisturbedNext]_vars

LEMMA NothingStale ==
    ASSUME TypeOK, stale = {}, [UndisturbedNext]_vars
    PROVE  (stale = {})'
<1>1. CASE ScanStep \/ UNCHANGED vars
  BY <1>1 DEF ScanStep, SelectDue, StartDue, TriggerScan, EndScan, vars
<1>2. ASSUME NEW u \in Units, UnitStep(u) PROVE stale' = {}
  BY <1>2 DEF UnitStep, BeginUnit, Begin, CommitUnit, Rollback
<1>3. ASSUME NEW m \in Admins, Deactivate(m) PROVE stale' = {}
  BY <1>3 DEF Deactivate, UndisturbedNext, vars
<1>4. ASSUME NEW m \in Admins, Begin(m) \/ Reactivate(m) \/ Rollback(m) PROVE stale' = {}
  BY <1>4 DEF Begin, Reactivate, Rollback
<1>5. ASSUME NEW c \in Registrations, RegistrationStep(c) PROVE stale' = {}
  BY <1>5 DEF RegistrationStep, CheckDuplicate, Verify, InsertAccount, Advance
<1>. QED
  BY <1>1, <1>2, <1>3, <1>4, <1>5 DEF UndisturbedNext, Next, AdminStep

\* record_role_outcome's docstring and FR-009b (DisabledStaysDisabled) hold when no unit is
\* in flight at the moment of a deactivation: the unit that decides on the status it read
\* before it is the one way in which a disabled account comes back without a reactivation.
THEOREM DisabledStaysIfUndisturbed == UndisturbedSpec => DisabledStaysDisabled
<1>1. Init => stale = {}
  BY DEF Init
<1>2. [UndisturbedNext]_vars => [Next]_vars
  BY DEF UndisturbedNext
<1>3. UndisturbedSpec => Spec
  BY <1>2, PTL DEF UndisturbedSpec, Spec
<1>4. stale = {} /\ [account.status = "disabled" /\ account'.status # "disabled" =>
                        \/ \E u \in stale : seen[u] # NoAccount /\ seen'[u] = NoAccount
                        \/ \E m \in Admins : Reactivate(m)]_vars
      => [account.status = "disabled" /\ account'.status # "disabled" =>
             \E m \in Admins : Reactivate(m)]_vars
  OBVIOUS
<1>. QED
  BY <1>1, <1>3, <1>4, NothingStale, TypeCorrect, OlderUnitsOnly, PTL
     DEF UndisturbedSpec, OnlyOlderUnitsReenable, DisabledStaysDisabled
=============================================================================

--------------------------- MODULE AccountStatus ---------------------------
(***************************************************************************)
(* The row of ONE AWS account and everybody who writes its status: the     *)
(* registration, deactivation and reactivation requests                    *)
(* (backend/app/api/routers/accounts.py), and the scan units, which record *)
(* whether the account's role could be assumed (record_role_outcome in     *)
(* backend/app/scan/orchestrator.py, called by scan_worker_handler.py).    *)
(*                                                                         *)
(* Each of them is a transaction that reads the row when it begins and     *)
(* writes it when it ends.  Between the two others may commit (READ        *)
(* COMMITTED), and the ORM's UPDATE sets only the columns that differ from *)
(* what was READ, on top of what is there by then; a check constraint      *)
(* refuses a row whose reason does not fit its status.  How scans run is   *)
(* the subject of ScanLifecycle; here one is open or not.                  *)
(***************************************************************************)
CONSTANTS
    Units,          \* unit attempts that may be open at the same time
    Admins,         \* admin requests that may be open at the same time
    Registrations,  \* registration requests for this AWS account
    Codes           \* the errors AssumeRole can be refused with

ASSUME AccountAssumption ==
    /\ Units \cap Admins = {}
    /\ "none" \notin Codes

NoReason == "none"
NoAccount == [status |-> "none", reason |-> NoReason]
NewAccount == [status |-> "verified", reason |-> NoReason]

Rows == [status : {"verified", "failed", "disabled"}, reason : Codes \cup {NoReason}]

VARIABLES
    account,       \* the committed row
    seen,          \* what each open transaction read; NoAccount when it is not open
    registration,  \* how far each registration request is
    due,           \* the daily trigger has selected the account and not yet started it
    opener,        \* the trigger of the running scan, or "none"
    stale          \* history: the units that read the row before it was last disabled

vars == <<account, seen, registration, due, opener, stale>>

(***************************************************************************)
(* The ORM and the constraint.                                             *)
(***************************************************************************)

\* ck_cloud_account_failure_reason_shape.
Explained(row) == row.status = "failed" <=> row.reason # NoReason

\* The row after an UPDATE of the columns in which `want` differs from `read`.
Merge(current, read, want) ==
    [status |-> IF want.status = read.status THEN current.status ELSE want.status,
     reason |-> IF want.reason = read.reason THEN current.reason ELSE want.reason]

\* Fault: the table has no such constraint.
SaveUnchecked(t, want) ==
    /\ account' = Merge(account, seen[t], want)
    /\ seen' = [seen EXCEPT ![t] = NoAccount]

\* The transaction ends: saved, or rolled back by the constraint.
Save(t, want) ==
    LET row == Merge(account, seen[t], want)
    IN  /\ account' = IF Explained(row) THEN row ELSE account
        /\ seen' = [seen EXCEPT ![t] = NoAccount]

Rollback(t) ==
    /\ seen[t] # NoAccount
    /\ seen' = [seen EXCEPT ![t] = NoAccount]
    /\ stale' = stale \ {t}
    /\ UNCHANGED <<account, registration, due, opener>>

Begin(t) ==
    /\ seen[t] = NoAccount
    /\ account # NoAccount
    /\ seen' = [seen EXCEPT ![t] = account]
    /\ UNCHANGED <<account, registration, due, opener, stale>>

(***************************************************************************)
(* A scan and its units.                                                   *)
(***************************************************************************)

\* start_due_daily_scans: the verified accounts are selected first, and started
\* one after the other, each with a network call.
SelectDue ==
    /\ account.status = "verified"
    /\ ~due
    /\ due' = TRUE
    /\ UNCHANGED <<account, seen, registration, opener, stale>>

StartDue ==
    /\ due
    /\ due' = FALSE
    /\ opener' = IF opener = "none" THEN "scheduled" ELSE opener
    /\ UNCHANGED <<account, seen, registration, stale>>

\* trigger_scan looks at nothing but the running scan.
TriggerScan ==
    /\ account # NoAccount
    /\ opener = "none"
    /\ opener' = "manual"
    /\ UNCHANGED <<account, seen, registration, due, stale>>

EndScan ==
    /\ opener # "none"
    /\ \A u \in Units : seen[u] = NoAccount
    /\ opener' = "none"
    /\ UNCHANGED <<account, seen, registration, due, stale>>

\* Fault: no early return for a disabled account.
RoleOutcomeOfAnyStatus(read, reason) ==
    [status |-> IF reason # NoReason THEN "failed"
                ELSE IF read.status = "failed" THEN "verified" ELSE read.status,
     reason |-> reason]

\* record_role_outcome: what the unit makes of the row it read.
RoleOutcome(read, reason) ==
    [status |-> IF read.status = "disabled" THEN "disabled"
                ELSE IF reason # NoReason THEN "failed"
                ELSE IF read.status = "failed" THEN "verified" ELSE read.status,
     reason |-> IF read.status = "disabled" THEN read.reason ELSE reason]

BeginUnit(u) == opener # "none" /\ Begin(u)

\* The role was assumed (NoReason) or refused with a code; a refusal is committed
\* before it is raised.
CommitUnit(u, reason) ==
    /\ seen[u] # NoAccount
    /\ Save(u, RoleOutcome(seen[u], reason))
    /\ stale' = stale \ {u}
    /\ UNCHANGED <<registration, due, opener>>

(***************************************************************************)
(* The administrator.                                                      *)
(***************************************************************************)

\* Fault: the reason of a failed account is left in place.
DeactivateKeepingReason(m) ==
    /\ seen[m] # NoAccount
    /\ Save(m, [seen[m] EXCEPT !.status = "disabled"])
    /\ stale' = {u \in Units : seen[u] # NoAccount}
    /\ UNCHANGED <<registration, due, opener>>

\* deactivate_account reads, sets both columns and flushes.
Deactivate(m) ==
    /\ seen[m] # NoAccount
    /\ Save(m, [status |-> "disabled", reason |-> NoReason])
    /\ stale' = IF account.status # "disabled" /\ account'.status = "disabled"
                THEN {u \in Units : seen[u] # NoAccount} ELSE stale
    /\ UNCHANGED <<registration, due, opener>>

\* reactivate_account: 409 (Rollback) unless the row it read is disabled.
Reactivate(m) ==
    /\ seen[m].status = "disabled"
    /\ Save(m, [seen[m] EXCEPT !.status = "verified"])
    /\ UNCHANGED <<registration, due, opener, stale>>

(***************************************************************************)
(* Registration: the duplicate check, the verification and the insert are  *)
(* three transactions apart.                                               *)
(***************************************************************************)
Advance(c, from, to) ==
    /\ registration[c] \in from
    /\ registration' = [registration EXCEPT ![c] = to]
    /\ UNCHANGED <<seen, due, opener, stale>>

\* A request that was turned down may be sent again.
CheckDuplicate(c) ==
    /\ Advance(c, {"new", "refused", "conflict"},
               IF account = NoAccount THEN "checked" ELSE "refused")
    /\ UNCHANGED account

\* Verified: the external id goes to Secrets Manager.  Otherwise 422.
Verify(c, ok) ==
    /\ Advance(c, {"checked"}, IF ok THEN "stored" ELSE "refused")
    /\ UNCHANGED account

\* Fault: the row is written without uq_cloud_account_tenant_account.
InsertAccountAnyway(c) ==
    /\ Advance(c, {"stored"}, "accepted")
    /\ account' = NewAccount

\* The unique constraint lets one insert through; the others end in an error.
InsertAccount(c) ==
    /\ Advance(c, {"stored"}, IF account = NoAccount THEN "accepted" ELSE "conflict")
    /\ account' = IF account = NoAccount THEN NewAccount ELSE account

(***************************************************************************)
(* The specification.                                                      *)
(***************************************************************************)
Init ==
    /\ account = NoAccount
    /\ seen = [t \in Units \cup Admins |-> NoAccount]
    /\ registration = [c \in Registrations |-> "new"]
    /\ due = FALSE
    /\ opener = "none"
    /\ stale = {}

ScanStep ==
    \/ SelectDue
    \/ StartDue
    \/ TriggerScan
    \/ EndScan

UnitStep(u) ==
    \/ BeginUnit(u)
    \/ \E reason \in Codes \cup {NoReason} : CommitUnit(u, reason)
    \/ Rollback(u)

AdminStep(m) ==
    \/ Begin(m)
    \/ Deactivate(m)
    \/ Reactivate(m)
    \/ Rollback(m)

RegistrationStep(c) ==
    \/ CheckDuplicate(c)
    \/ \E ok \in BOOLEAN : Verify(c, ok)
    \/ InsertAccount(c)

Next ==
    \/ ScanStep
    \/ \E u \in Units : UnitStep(u)
    \/ \E m \in Admins : AdminStep(m)
    \/ \E c \in Registrations : RegistrationStep(c)

Spec == Init /\ [][Next]_vars

(***************************************************************************)
(* Properties.                                                             *)
(***************************************************************************)

\* Every variable keeps its type; a failure always explains itself, and a reason
\* never outlives the failure it explained (core.py, CloudAccount).
TypeOK ==
    /\ account \in Rows \cup {NoAccount}
    /\ Explained(account)
    /\ seen \in [Units \cup Admins -> Rows \cup {NoAccount}]
    /\ registration \in [Registrations ->
                           {"new", "checked", "stored", "accepted", "refused", "conflict"}]
    /\ due \in BOOLEAN
    /\ opener \in {"none", "scheduled", "manual"}
    /\ stale \subseteq Units

\* register_account (FR-009): however the checks, verifications and inserts of
\* concurrent requests interleave, exactly the request that made the row was
\* accepted.
OneRegistration ==
    /\ account # NoAccount <=> \E c \in Registrations : registration[c] = "accepted"
    /\ \A c, d \in Registrations :
          registration[c] = "accepted" /\ registration[d] = "accepted" => c = d

\* record_role_outcome (FR-009b), as far as it goes: a unit that began after the
\* account was deactivated never brings it back, so with no older unit in flight
\* only a reactivation does.
OnlyOlderUnitsReenable ==
    [][account.status = "disabled" /\ account'.status # "disabled" =>
          \/ \E u \in stale : seen[u] # NoAccount /\ seen'[u] = NoAccount
          \/ \E m \in Admins : Reactivate(m)]_vars

\* deactivate_account: a deactivation that no other commit overlapped is never
\* refused by the constraint, whatever the status was (FR-009a).
DeactivationTakesEffect ==
    [][\A m \in Admins : Deactivate(m) /\ seen[m] = account => account'.status = "disabled"]_vars

\* record_role_outcome's docstring (orchestrator.py:160-162) and FR-009b: only a
\* reactivation takes the account out of `disabled`, even when a scan finishes
\* after the deactivation.
DisabledStaysDisabled ==
    [][account.status = "disabled" /\ account'.status # "disabled" =>
          \E m \in Admins : Reactivate(m)]_vars

\* FR-009a of spec 002: deactivation stops future scheduled and on-demand scans.
NoScanOfDisabledAccount ==
    [][opener = "none" /\ opener' # "none" => account.status # "disabled"]_vars
=============================================================================

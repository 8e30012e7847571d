------------------------- MODULE InventoryContract -------------------------
(***************************************************************************)
(* What scanning promises about the inventory, without transactions,       *)
(* retries, executions or clocks: a scan confirms what it finds region by  *)
(* region, and closes at most once, only resources it did not find itself, *)
(* and only in regions it covered.  A row is never removed, never moves to *)
(* another region, and comes back to life only by being confirmed.         *)
(***************************************************************************)
CONSTANTS Scans, Regions, Resources, NoRegion

VARIABLES
    home,     \* the region of the row, NoRegion while there is no row
    live,     \* the rows not marked deleted
    found,    \* what each scan has confirmed
    covered,  \* the pairs (scan, region) the scan has completed
    closed    \* the scans that have closed

contractVars == <<home, live, found, covered, closed>>

Init ==
    /\ home = [r \in Resources |-> NoRegion]
    /\ live = {}
    /\ found = [s \in Scans |-> {}]
    /\ covered = {}
    /\ closed = {}

\* A look at region g that found R; `complete` when it is the scan's last.
Confirm(s, g, R, complete) ==
    /\ s \notin closed
    /\ home' = [r \in Resources |-> IF r \in R /\ home[r] = NoRegion THEN g ELSE home[r]]
    /\ live' = live \cup R
    /\ found' = [found EXCEPT ![s] = @ \cup R]
    /\ covered' = IF complete THEN covered \cup {<<s, g>>} ELSE covered
    /\ UNCHANGED closed

Close(s, D) ==
    /\ s \notin closed
    /\ D \subseteq live \ found[s]
    /\ \A r \in D : <<s, home[r]>> \in covered
    /\ live' = live \ D
    /\ closed' = closed \cup {s}
    /\ UNCHANGED <<home, found, covered>>

Next ==
    \E s \in Scans :
        \/ \E g \in Regions, R \in SUBSET Resources, complete \in BOOLEAN :
              Confirm(s, g, R, complete)
        \/ \E D \in SUBSET Resources : Close(s, D)

Spec == Init /\ [][Next]_contractVars
=============================================================================

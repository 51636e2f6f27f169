----------------------------- MODULE PermitPool -----------------------------
(***************************************************************************)
(* What a semaphore limiter promises the callers of run(), without         *)
(* processes, messages or faults: a pool of Size permits.  A permit is     *)
(* leased to one request, the request may start its one call while it      *)
(* holds the permit, and the permit is back in the pool only when that     *)
(* call is over (or never started).                                        *)
(***************************************************************************)
EXTENDS Naturals, FiniteSets

CONSTANTS Requests, Size

VARIABLES
    leases,    \* the requests that hold a permit
    active,    \* the requests whose call is in flight
    started    \* the requests whose call has ever been in flight

poolVars == <<leases, active, started>>

Init == leases = {} /\ active = {} /\ started = {}

Lease(p) ==
    /\ p \notin leases \cup started
    /\ Cardinality(leases) < Size
    /\ leases' = leases \cup {p}
    /\ UNCHANGED <<active, started>>

Start(p) ==
    /\ p \in leases \ started
    /\ active' = active \cup {p}
    /\ started' = started \cup {p}
    /\ UNCHANGED leases

\* One call settles, or a process ends with all its calls.
Stop(S) ==
    /\ S # {}
    /\ active' = active \ S
    /\ UNCHANGED <<leases, started>>

Return(S) ==
    /\ S # {}
    /\ S \cap active = {}
    /\ leases' = leases \ S
    /\ UNCHANGED <<active, started>>

Next ==
    \/ \E p \in Requests : Lease(p) \/ Start(p)
    \/ \E S \in SUBSET active : Stop(S)
    \/ \E S \in SUBSET leases : Return(S)

Spec == Init /\ [][Next]_poolVars

=============================================================================

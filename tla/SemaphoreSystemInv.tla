-------------------------- MODULE SemaphoreSystemInv --------------------------
(***************************************************************************)
(* The inductive invariant of SemaphoreSystem.  A request is, at any time, *)
(* in one stage of its life, and who may hold its token follows from it:   *)
(*                                                                         *)
(*   its ACQUIRE is in the channel, then it is queued: no token            *)
(*   its GRANT travels, or is about to be sent again: leased, not used yet *)
(*   its call runs: leased                                                 *)
(*   its RELEASE travels or is about to be sent again: not used any more   *)
(*                                                                         *)
(* The stages exclude each other because ids are fresh and every message   *)
(* that moves a request on is there at most once.                          *)
(***************************************************************************)
EXTENDS SemaphoreSystem

Acquiring(w, r) == AcquireMsg(r) \in Elements(toPrimary[w])
Queued(w, r) == <<w, r>> \in Elements(queue)
GrantTravels(w, r) == r \in Elements(toWorker[w])
Retrying(w, r, n) == <<w, r, n>> \in failedSends \cup retryTimers
Releasing(w, r) ==
    \/ ReleaseMsg(r) \in Elements(toPrimary[w])
    \/ \E n \in 0..(ReleaseRetryLimit + 1) : <<w, r, n>> \in releaseTimers

\* A call that may still be given a permit: nobody has used one for it.
Unused(w, r) == call[<<w, r>>] \in {"waiting", "rejected"}

\* The primary's books: tokens are conserved, the loop is where it should be.
Accounts ==
    /\ IsFiniteSet(leased)
    /\ TokenConservation
    /\ granting => CanGrant(queue, remaining)

\* A worker's ids above the last one it gave out are unused.
FreshIds ==
    \A w \in Workers, r \in RequestIds : r > lastId[w] => call[<<w, r>>] = "none"

\* Nothing that moves a request on is there twice.
Once(w, r) ==
    /\ OnceIn(AcquireMsg(r), toPrimary[w])
    /\ OnceIn(<<w, r>>, queue)
    /\ OnceIn(r, toWorker[w])
    /\ \A m, n \in 0..GrantRetryLimit :
           Retrying(w, r, m) /\ Retrying(w, r, n) => m = n
    /\ \A n \in 0..GrantRetryLimit :
           <<w, r, n>> \in failedSends => <<w, r, n>> \notin retryTimers

\* The stage of a request says who holds its token.
Stage(w, r) ==
    /\ Acquiring(w, r) => Unused(w, r) /\ ~Queued(w, r) /\ <<w, r>> \notin leased
    /\ Queued(w, r) => Unused(w, r) /\ <<w, r>> \notin leased
    /\ GrantTravels(w, r) =>
           /\ Unused(w, r) /\ <<w, r>> \in leased /\ Connected(w)
           /\ \A n \in 0..GrantRetryLimit : ~Retrying(w, r, n)
    /\ \A n \in 0..GrantRetryLimit : Retrying(w, r, n) =>
           Unused(w, r) /\ (<<w, r>> \in leased \/ IsDead(w))
    /\ Releasing(w, r) => call[<<w, r>>] \in {"settled", "returned"}
    /\ call[<<w, r>>] = "running" /\ Running(w) => <<w, r>> \in leased
    /\ <<w, r>> \in leased => call[<<w, r>>] # "none" /\ ~IsDead(w)

AtMostOnce == \A w \in Workers, r \in RequestIds : Once(w, r)
Stages == \A w \in Workers, r \in RequestIds : Stage(w, r)

IInv == TypeOK /\ Accounts /\ FreshIds /\ AtMostOnce /\ Stages

=============================================================================

-------------------------- MODULE DurationSystemInv --------------------------
(***************************************************************************)
(* The inductive invariant of DurationSystem: what the log, the lock and   *)
(* the queue say of each other and of the slots that were taken.           *)
(***************************************************************************)
EXTENDS DurationSystem

\* The requests that took a slot at t or later and keep it.
Slots(t) == {p \in Granted : stamp[p] >= t}

\* The log l accounts for k slots taken since t: however many of its oldest
\* entries are before t, k others are left.
Backs(l, t, k) ==
    \A n \in 0..Len(l) : (n > 0 => l[n] < t) => k <= Len(l) - n

\* #refundSlot drops the oldest entry, not the one of its request; still the
\* log has an entry for each slot, whatever part of the window one looks at.
Backed ==
    \A t \in (now - Window)..now : Backs(log, t, Cardinality(Slots(t)))

\* Who queues was not granted yet, and queues once.
QueuedOnce ==
    /\ \A i \in DOMAIN queue : stage[queue[i]] = "queued"
    /\ \A i, j \in DOMAIN queue : i # j => queue[i] # queue[j]

\* Slots are taken with the time of the clock.
TakenInThePast ==
    /\ \A p \in Requests : stamp[p] <= now
    /\ \A i \in DOMAIN log : log[i] <= now

\* The lock is held as long as somebody queues, and no longer.
LockedWhileQueued == loop = "idle" <=> queue = <<>>

DurationInv ==
    /\ TypeOK
    /\ LogUsable
    /\ LockedWhileQueued
    /\ QueuedOnce
    /\ TakenInThePast
    /\ Backed
    /\ GrantWindow

\* Unless a GRANT is sent again, a call starts within Latency of the time its
\* slot was taken with.
Punctual ==
    \A p \in Requests :
        /\ stage[p] # "retrying"
        /\ stage[p] = "failed" => p[1] \in gone \/ GrantRetryLimit = 0
        /\ stage[p] = "sent" => now <= due[p] /\ due[p] = stamp[p] + Latency
        /\ stage[p] = "started" =>
               stamp[p] <= start[p] /\ start[p] <= stamp[p] + Latency

=============================================================================

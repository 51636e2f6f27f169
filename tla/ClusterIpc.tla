----------------------------- MODULE ClusterIpc -----------------------------
(***************************************************************************)
(* The part of node:cluster that the limiters stand on: worker processes   *)
(* that exit or lose their channel, and one FIFO channel per worker and    *)
(* direction.  None of this is code of the repository; it is modelled from *)
(* how src/ uses it (worker.send, process.send, worker.isDead, the "exit"  *)
(* event of cluster, cluster.workers).                                     *)
(*                                                                         *)
(* A request is the pair <<w, r>>: the cluster id of a worker and an id    *)
(* that worker gave to one run() call.                                     *)
(***************************************************************************)
EXTENDS Integers, Sequences

CONSTANTS
    Workers,   \* the cluster ids, never reused by node:cluster
    MaxCalls,  \* bound: run() calls one worker makes
    Faults     \* the faults this instance may suffer

FaultKinds ==
    { "exit",         \* a worker process ends
      "disconnect",   \* a worker loses its channel but keeps running
      "grantError",   \* worker.send reports an error to its callback
      "grantThrow",   \* worker.send throws
      "sendError",    \* process.send reports an error to its callback
      "sendThrow" }   \* process.send throws

ASSUME FaultsAssumption == Faults \subseteq FaultKinds
ASSUME MaxCallsAssumption == MaxCalls \in Nat

RequestIds == 1..MaxCalls
Requests == Workers \X RequestIds

VARIABLES
    proc,       \* proc[w]: what has become of worker process w
    toWorker,   \* toWorker[w]: the GRANT messages on their way to w
    toPrimary   \* toPrimary[w]: the ACQUIRE and RELEASE messages w has sent

ipcVars == <<proc, toWorker, toPrimary>>

AcquireMsg(r) == [op |-> "acquire", req |-> r]
ReleaseMsg(r) == [op |-> "release", req |-> r]
Message == [op : {"acquire", "release"}, req : RequestIds]

(***************************************************************************)
(* "exited": the process is gone, but the primary's event loop has not yet *)
(* run the event that sets isDead() and emits "exit"; both happen in one   *)
(* callback, after which the worker is "reaped".                           *)
(***************************************************************************)
ProcState == {"up", "disconnected", "exited", "reaped"}

Running(w) == proc[w] \in {"up", "disconnected"}
Connected(w) == proc[w] = "up"
IsDead(w) == proc[w] = "reaped"

IpcTypeOK ==
    /\ proc \in [Workers -> ProcState]
    /\ toWorker \in [Workers -> Seq(RequestIds)]
    /\ toPrimary \in [Workers -> Seq(Message)]

IpcInit ==
    /\ proc = [w \in Workers |-> "up"]
    /\ toWorker = [w \in Workers |-> <<>>]
    /\ toPrimary = [w \in Workers |-> <<>>]

-----------------------------------------------------------------------------

\* worker.send accepts the GRANT.  It arrives only if w still listens: bytes
\* written to a process that has gone are lost without an error.
GrantSent(w, r) ==
    toWorker' = [toWorker EXCEPT ![w] = IF Connected(w) THEN Append(@, r) ELSE @]

\* worker.send can report an error: a transient one, or the closed channel.
GrantCanFail(w) == "grantError" \in Faults \/ ~Connected(w)

\* process.send accepts a message of worker w.
WorkerSent(w, m) ==
    /\ Connected(w)
    /\ toPrimary' = [toPrimary EXCEPT ![w] = Append(@, m)]

\* process.send can report an error to its callback.
WorkerSendCanFail(w) == Connected(w) /\ "sendError" \in Faults

\* process.send throws, or the channel is closed (code: !process.send).
WorkerCannotSend(w) == ~Connected(w) \/ "sendThrow" \in Faults

\* The process of w ends.  What it has written is still read by the primary;
\* what was on its way to it is lost.
ProcessExits(w) ==
    /\ "exit" \in Faults
    /\ Running(w)
    /\ proc' = [proc EXCEPT ![w] = "exited"]
    /\ toWorker' = [toWorker EXCEPT ![w] = <<>>]
    /\ UNCHANGED toPrimary

\* The channel of w closes while its process goes on.
ChannelCloses(w) ==
    /\ "disconnect" \in Faults
    /\ proc[w] = "up"
    /\ proc' = [proc EXCEPT ![w] = "disconnected"]
    /\ toWorker' = [toWorker EXCEPT ![w] = <<>>]
    /\ UNCHANGED toPrimary

\* The primary's event loop runs the end of w: isDead() flips, "exit" fires.
ExitEvent(w) ==
    /\ proc[w] = "exited"
    /\ proc' = [proc EXCEPT ![w] = "reaped"]
    /\ UNCHANGED <<toWorker, toPrimary>>

=============================================================================

------------------------ MODULE MCLimiterRegistries ------------------------
(* Arguments of the factories: a limiter of each mode, one whose log cannot be
   allocated, and invalid ones. A duration of 0 stands for none. *)
EXTENDS LimiterRegistries, TLC

CONSTANTS w1, w2, apiA, apiB

(* One worker with two limiters, or two workers that share an api. *)
Applications ==
    { (w1 :> {apiA, apiB} @@ w2 :> {}), (w1 :> {apiA} @@ w2 :> {apiA}) }

PrimaryArguments ==
    { [mode |-> "semaphore", max |-> 1, duration |-> 0],
      [mode |-> "duration",  max |-> 1, duration |-> 1],
      [mode |-> "duration",  max |-> 9, duration |-> 1],
      [mode |-> "duration",  max |-> 1, duration |-> 0] }

WorkerArguments ==
    { [mode |-> "semaphore", timeout |-> 1],
      [mode |-> "duration",  timeout |-> 1],
      [mode |-> "duration",  timeout |-> 0] }
=============================================================================

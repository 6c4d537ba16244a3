----------------------------- MODULE MCPthreads -----------------------------
(* A task and two threads: one program for the mutex and the condition     *)
(* variable, one for the lives of the threads                              *)
EXTENDS Pthreads, TLC

CONSTANTS m, a, b

Synchronise ==
    [calls |-> m :> {"signal", "broadcast"}
                 @@ a :> {"lock", "unlock", "timedwait"}
                 @@ b :> {"timedlock", "unlock", "wait"},
     detached |-> {b},
     joins |-> m :> {a} @@ a :> {} @@ b :> {}]

Live ==
    [calls |-> m :> {"once"} @@ a :> {"once"} @@ b :> {"once", "cancel"},
     detached |-> {b},
     joins |-> m :> {a, b} @@ a :> {a} @@ b :> {a}]

Rejoin ==
    [calls |-> m :> {} @@ a :> {"once"} @@ b :> {"cancel"},
     detached |-> {},
     joins |-> m :> {a, b} @@ a :> {b} @@ b :> {a}]

Programs == {Synchronise, Live, Rejoin}
=============================================================================

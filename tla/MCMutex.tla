------------------------------- MODULE MCMutex ------------------------------
(* Four tasks of four priorities and two mutexes, one of them recursive: mid *)
(* takes both, and the others, one of them below it, wait for one of them    *)
(* each. In Nested three tasks do, and all take both.                        *)
EXTENDS Mutex, TLC

CONSTANTS low, mid, high, top, m1, m2

Priorities == low :> 1 @@ mid :> 2 @@ high :> 3 @@ top :> 4
Used == low :> {m1} @@ mid :> {m1, m2} @@ high :> {m1} @@ top :> {m1}

NestedPriorities == mid :> 2 @@ high :> 3 @@ top :> 4
NestedUsed == mid :> {m1, m2} @@ high :> {m1, m2} @@ top :> {m1, m2}
=============================================================================

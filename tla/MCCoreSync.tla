---------------------------- MODULE MCCoreSync ----------------------------
(***************************************************************************)
(* Plans of creations for two cores. Each core creates an idle task of its *)
(* own before its scheduler runs, as vTaskStartScheduler does.             *)
(***************************************************************************)
EXTENDS CoreSync, TLC

CONSTANTS c0, c1, idle0, idle1, t1, t2, t3

Idle == idle0 :> c0 @@ idle1 :> c1

(* Two tasks for core 1 by core 0, and one for core 0 by core 1 *)
Cross   == Idle @@ t1 :> c0 @@ t2 :> c0 @@ t3 :> c1
CrossOn == Idle @@ t1 :> c1 @@ t2 :> c1 @@ t3 :> c0

(* Two tasks for core 1, one after the other, by core 0 *)
Burst   == Idle @@ t1 :> c0 @@ t2 :> c0
BurstOn == Idle @@ t1 :> c1 @@ t2 :> c1

(* A task for core 1 by core 0, and one by core 1 for itself *)
Single   == Idle @@ t1 :> c0 @@ t2 :> c1
SingleOn == Idle @@ t1 :> c1 @@ t2 :> c1
=============================================================================

---------------------------- MODULE MCScheduler ----------------------------
(* A periodic task, and two of the same priority: one waits for            *)
(* notifications, the other acts on the first two.                         *)
EXTENDS Scheduler

CONSTANTS t1, t2, t3

Levels == {0, 1, 2}
Initial == t1 :> 2 @@ t2 :> 1 @@ t3 :> 1
Mixed == t1 :> {"until"}
      @@ t2 :> {"wait", "suspend", "delete"}
      @@ t3 :> {"lock", "notify", "suspend", "resume", "abort", "priority", "delay", "delete", "create"}
BlockTimes == t1 :> {2} @@ t2 :> {2, 3} @@ t3 :> {0, 2}
=============================================================================

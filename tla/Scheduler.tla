----------------------------- MODULE Scheduler -----------------------------
(***************************************************************************)
(* lib/freertos/tasks.c on one core: the ready, delayed, suspended and     *)
(* pending lists, the tick, context switches, delays, suspension, task     *)
(* notifications, priorities, and the deletion and creation of tasks.      *)
(*                                                                         *)
(* A critical section and a handler are one step each; handlers come       *)
(* between any two steps of a task. A task takes the switch it asked for   *)
(* before its next step.                                                   *)
(*                                                                         *)
(* No task holds a mutex, so uxBasePriority is uxPriority, and no task     *)
(* waits on a queue: event lists, and the other core, are in Queue.        *)
(***************************************************************************)
EXTENDS Integers, SequencesExt

CONSTANTS Tasks, Idle,
          Prio,        \* Prio[t]: the priority t is created with
          Priorities,  \* the priorities in use
          Does,        \* Does[t]: the calls t makes
          Waits,       \* Waits[t]: the block times t passes
          Targets,     \* the tasks others act on
          ResumesAny,  \* the application may resume a task it never suspended
          TickBits,    \* the width of TickType_t
          MaxPended    \* bound: ticks end before more are pended

Calls == {"delay", "until", "wait", "notify", "suspend", "resume", "abort",
          "priority", "lock", "delete", "create"}

Wrap == 2 ^ TickBits
Ticks == 0 .. Wrap - 1
MaxDelay == Wrap - 1   \* portMAX_DELAY
All == Tasks \cup {Idle}
End == "xListEnd"

ASSUME SchedulerAssumption ==
    /\ IsFiniteSet(Tasks) /\ Idle \notin Tasks
    /\ End \notin All
    /\ Priorities \subseteq Nat /\ IsFiniteSet(Priorities) /\ 0 \in Priorities
    /\ Prio \in [Tasks -> Priorities]
    /\ Does \in [Tasks -> SUBSET Calls]
    /\ Waits \in [Tasks -> SUBSET Ticks]
    /\ Targets \subseteq Tasks /\ ResumesAny \in BOOLEAN
    /\ TickBits \in Nat \ {0} /\ Wrap \in Nat \ {0, 1}
    /\ MaxPended \in Nat

VARIABLES
    kernel,    \* the variables of tasks.c, and uxPriority of each task
    notify,    \* ucNotifyState
    msip,      \* a switch is requested: the software interrupt is pending
    pc, ticks, target,   \* where a task is, and its arguments
    previous,  \* *pxPreviousWakeTime of vTaskDelayUntil
    ahead,     \* history: how far previous is ahead of the tick, not wrapped
    parked     \* history: suspended by vTaskSuspend, not resumed since

frame == <<pc, ticks, target>>
periods == <<previous, ahead>>
vars == <<kernel, notify, msip, frame, periods, parked>>

Labels == {"app", "delay", "until", "resume", "yield", "resumeall", "reset",
           "notified", "state", "unlist", "event", "enlist", "sleep",
           "deleted", "reclaim", "freed"}

-----------------------------------------------------------------------------
(* Lists. A ready list is kept as seen from pxIndex: the next item first,  *)
(* the one pxIndex points at, a task or the end mark, last.                *)

(* Faults, here and below: what a definition would be with a plausible     *)
(* bug. No specification uses them; each shows that a property tells the   *)
(* bug from the code.                                                      *)

(* vListInsertEnd: before the item pxIndex points at *)
InsertEnd(list, t) == InsertAt(list, Len(list), t)

(* uxListRemove, of an item that may be in a list *)
Without(list, t) ==
    IF \E i \in DOMAIN list : list[i] = t
      THEN RemoveAt(list, CHOOSE i \in DOMAIN list : list[i] = t)
      ELSE list

(* listGET_OWNER_OF_NEXT_ENTRY: what the list is afterwards, the owner last *)
NextEntry(list) ==
    LET l == IF Head(list) = End THEN Append(Tail(list), End) ELSE list
    IN  Append(Tail(l), Head(l))

NoTasks(list) == Len(list) = 1

(* How many tasks at the head of a list wake at time n or before *)
Leading(list, wake, n) ==
    CHOOSE i \in 0 .. Len(list) :
        /\ \A j \in 1 .. i : wake[list[j]] <= n
        /\ i < Len(list) => wake[list[i + 1]] > n

(* vListInsert, by the wake time of each task: behind those not later *)
InsertByTime(list, wake, t) == InsertAt(list, Leading(list, wake, wake[t]) + 1, t)

Greater(m, n) == IF m > n THEN m ELSE n

(* prvAddTaskToReadyList without taskRECORD_READY_PRIORITY *)
AddUnrecorded(k, t) == [k EXCEPT !.ready[k.prio[t]] = InsertEnd(@, t)]

(* prvAddTaskToReadyList *)
AddReady(k, t) ==
    [k EXCEPT !.ready[k.prio[t]] = InsertEnd(@, t),
              !.top = Greater(@, k.prio[t])]

(* uxListRemove of a task's state item, from the list that holds it. The   *)
(* item value is not looked at again, and not kept.                        *)
Unlist(k, t) ==
    [k EXCEPT !.ready = [p \in Priorities |-> Without(@[p], t)],
              !.delayed = Without(@, t), !.overflow = Without(@, t),
              !.suspended = Without(@, t), !.term = Without(@, t),
              !.wake[t] = 0]

(* uxListRemove of its event item, which only xPendingReadyList holds *)
Unpend(k, t) == [k EXCEPT !.pending = Without(@, t)]

MakeReady(k, t) == AddReady(Unlist(k, t), t)

(* Tasks in the two delayed lists *)
Asleep(k) == Range(k.delayed) \cup Range(k.overflow)

-----------------------------------------------------------------------------
(* Ticks *)

(* prvResetNextTaskUnblockTime *)
ResetUnblock(k) ==
    [k EXCEPT !.unblock = IF k.delayed = <<>> THEN MaxDelay
                          ELSE k.wake[Head(k.delayed)]]

(* xNextTaskUnblockTime is not brought forward. *)
PlaceUnannounced(k, t) ==
    IF k.wake[t] < k.tick
      THEN [k EXCEPT !.overflow = InsertByTime(@, k.wake, t)]
      ELSE [k EXCEPT !.delayed = InsertByTime(@, k.wake, t)]

(* A wake time of 0 is taken for one that has not overflowed. *)
PlaceZero(k, t) ==
    IF 0 < k.wake[t] /\ k.wake[t] < k.tick
      THEN [k EXCEPT !.overflow = InsertByTime(@, k.wake, t)]
      ELSE [k EXCEPT !.delayed = InsertByTime(@, k.wake, t),
                     !.unblock = IF k.wake[t] < @ THEN k.wake[t] ELSE @]

(* The delayed list a wake time belongs to, in prvAddCurrentTaskToDelayedList *)
Place(k, t) ==
    IF k.wake[t] < k.tick
      THEN [k EXCEPT !.overflow = InsertByTime(@, k.wake, t)]
      ELSE [k EXCEPT !.delayed = InsertByTime(@, k.wake, t),
                     !.unblock = IF k.wake[t] < @ THEN k.wake[t] ELSE @]

(* xTimeToWake is computed in 64 bits and does not wrap. *)
BlockPromoted(k, n, forever) ==
    LET t == k.current
        l == Unlist(k, t)
    IN  IF n = MaxDelay /\ forever
          THEN [l EXCEPT !.suspended = Append(@, t)]
          ELSE Place([l EXCEPT !.wake[t] = k.tick + n], t)

(* prvAddCurrentTaskToDelayedList *)
Block(k, n, forever) ==
    LET t == k.current
        l == Unlist(k, t)
    IN  IF n = MaxDelay /\ forever
          THEN [l EXCEPT !.suspended = Append(@, t)]
          ELSE Place([l EXCEPT !.wake[t] = (k.tick + n) % Wrap], t)

(* taskSWITCH_DELAYED_LISTS *)
SwitchLists(k) ==
    ResetUnblock([k EXCEPT !.delayed = k.overflow, !.overflow = k.delayed])

(* One round of the loop of xTaskIncrementTick: both items are taken off. *)
Rouse(k, t) == AddReady(Unpend(Unlist(k, t), t), t)

(* What its rounds make of k, from the head of the delayed list *)
Roused(k) ==
    LET after[n \in 0 .. Len(k.delayed)] ==
            IF n = 0 THEN k ELSE Rouse(after[n - 1], k.delayed[n])
    IN  after

(* The loop, which ends at the first task whose time is not there *)
Expire(k) == ResetUnblock(Roused(k)[Leading(k.delayed, k.wake, k.tick)])

(* xTaskIncrementTick with the scheduler not suspended *)
Increment(k) ==
    LET now == (k.tick + 1) % Wrap
        l == [k EXCEPT !.tick = now]
        s == IF now = 0 THEN SwitchLists(l) ELSE l
    IN  IF now >= s.unblock THEN Expire(s) ELSE s

(* What it returns: a woken task, a time slice, or a yield is due. *)
SwitchRequired(k) ==
    LET i == Increment(k)
        p == k.prio[k.current]
    IN  \/ \E t \in Asleep(k) \ Asleep(i) : k.prio[t] >= p
        \/ Len(i.ready[p]) > 2    \* two tasks and the end mark
        \/ k.yield

(* taskSELECT_HIGHEST_PRIORITY_TASK, from uxTopReadyPriority down *)
Highest(k) ==
    CHOOSE p \in Priorities :
        /\ p <= k.top /\ ~NoTasks(k.ready[p])
        /\ \A q \in Priorities : q <= k.top /\ q > p => NoTasks(k.ready[q])

(* The list is left as it was: pxIndex does not move. *)
SwitchStuck(k) ==
    LET p == Highest(k)
    IN  IF k.depth > 0
          THEN [k EXCEPT !.yield = TRUE]
          ELSE [k EXCEPT !.yield = FALSE, !.current = Last(NextEntry(k.ready[p])), !.top = p]

(* vTaskSwitchContext *)
Switch(k) ==
    LET p == Highest(k)
        list == NextEntry(k.ready[p])
    IN  IF k.depth > 0
          THEN [k EXCEPT !.yield = TRUE]
          ELSE [k EXCEPT !.yield = FALSE, !.ready[p] = list,
                         !.current = Last(list), !.top = p]

(* vTaskSuspendAll *)
SuspendAll(k) == [k EXCEPT !.depth = @ + 1]

(* The state item stays where it is. *)
UnholdTwice(k, t) ==
    LET yields == k.prio[t] >= k.prio[k.current]
    IN  [AddReady(Unpend(k, t), t) EXCEPT !.yield = @ \/ yields]

(* One round of the loop over the pending list in xTaskResumeAll *)
Unhold(k, t) ==
    LET yields == k.prio[t] >= k.prio[k.current]
    IN  [MakeReady(Unpend(k, t), t) EXCEPT !.yield = @ \/ yields]

(* What its rounds make of k, from the head of the pending list *)
Unheld(k) ==
    LET after[n \in 0 .. Len(k.pending)] ==
            IF n = 0 THEN k ELSE Unhold(after[n - 1], k.pending[n])
    IN  after

(* xNextTaskUnblockTime is computed anew if the list was not empty. *)
Release(k) ==
    LET last == Unheld(k)[Len(k.pending)]
    IN  IF k.pending = <<>> THEN last ELSE ResetUnblock(last)

(* A tick that was pended: a switch it requires is left to xYieldPending. *)
TickOnce(k) == [Increment(k) EXCEPT !.yield = SwitchRequired(k)]

Ticked(k) ==
    LET after[n \in 0 .. k.pended] == IF n = 0 THEN k ELSE TickOnce(after[n - 1])
    IN  after

(* xTaskResumeAll, up to its yield *)
ResumeAll(k) ==
    LET l == [k EXCEPT !.depth = @ - 1]
    IN  IF l.depth > 0 THEN l
        ELSE [Ticked(Release(l))[k.pended] EXCEPT !.pended = 0]

-----------------------------------------------------------------------------
(* What the tasks do. Set is the kernel afterwards; Goto where t is.       *)

Set(k) == kernel' = k

At(t, l) == ~msip /\ kernel.current = t /\ pc[t] = l

Goto(t, l) == pc' = [pc EXCEPT ![t] = l]

Keep == UNCHANGED <<notify, periods, parked>>
Stay == UNCHANGED frame

(* A call that may block: not with the scheduler suspended *)
MayBlock(t, c) == At(t, "app") /\ c \in Does[t] /\ kernel.depth = 0

MayCall(t, c) == At(t, "app") /\ c \in Does[t]

(* taskYIELD_IF_USING_PREEMPTION, when cond holds *)
YieldIf(cond) == msip' = (msip \/ cond)

(* The handle of a deleted task is no longer used. *)
Exists(t) == pc[t] \notin {"deleted", "freed"}

Enter(t, l, n) ==
    /\ Goto(t, l)
    /\ ticks' = [ticks EXCEPT ![t] = n]
    /\ UNCHANGED target

Aim(t, l, u) ==
    /\ Goto(t, l)
    /\ target' = [target EXCEPT ![t] = u]
    /\ UNCHANGED ticks

(* vTaskDelay *)
Delay(t) ==
    /\ MayBlock(t, "delay")
    /\ \E n \in Waits[t] :
          IF n = 0
            THEN Goto(t, "yield") /\ UNCHANGED <<kernel, ticks, target>>
            ELSE Set(SuspendAll(kernel)) /\ Enter(t, "delay", n)
    /\ UNCHANGED msip /\ Keep

AddDelay(t) ==
    /\ At(t, "delay")
    /\ Set(Block(kernel, ticks[t], FALSE))
    /\ Enter(t, "resume", 0)
    /\ UNCHANGED msip /\ Keep

(* vTaskDelayUntil; a zero increment fails its configASSERT. *)
DelayUntil(t) ==
    /\ MayBlock(t, "until")
    /\ \E n \in Waits[t] \ {0} :
          /\ ahead[t] + n <= Wrap    \* bound
          /\ Enter(t, "until", n)
    /\ Set(SuspendAll(kernel))
    /\ UNCHANGED msip /\ Keep

(* The tick count is taken never to have wrapped since the last call. *)
ShouldDelayUnwrapped(now, last, at) == at < last \/ at > now

(* xShouldDelay *)
ShouldDelay(now, last, at) ==
    IF now < last THEN at < last /\ at > now ELSE at < last \/ at > now

AddDelayUntil(t) ==
    LET at == (previous[t] + ticks[t]) % Wrap
    IN  /\ At(t, "until")
        /\ Set(IF ShouldDelay(kernel.tick, previous[t], at)
                 THEN Block(kernel, (at - kernel.tick) % Wrap, FALSE)
                 ELSE kernel)
        /\ previous' = [previous EXCEPT ![t] = at]
        /\ ahead' = [ahead EXCEPT ![t] = IF @ = -Wrap THEN @ ELSE @ + ticks[t]]
        /\ Enter(t, "resume", 0)
        /\ UNCHANGED <<notify, msip, parked>>

(* Ticks pass: the next wake-up is so much nearer, down to a full lap late. *)
Drift(n) ==
    ahead' = [t \in Tasks |-> IF "until" \in Does[t] THEN Greater(-Wrap, ahead[t] - n) ELSE 0]

(* xTaskResumeAll called by t *)
Resumes(t) ==
    LET k == ResumeAll(kernel)
    IN  /\ Set(k)
        /\ YieldIf(k.depth = 0 /\ k.yield)
        /\ Drift(IF k.depth = 0 THEN kernel.pended ELSE 0)
        /\ UNCHANGED <<notify, previous, parked>>

(* The end of vTaskDelay and vTaskDelayUntil: yield unless it has yielded *)
ResumeAndYield(t) ==
    /\ At(t, "resume")
    /\ Resumes(t)
    /\ Goto(t, IF ResumeAll(kernel).yield THEN "app" ELSE "yield")
    /\ UNCHANGED <<ticks, target>>

Resume(t) ==
    /\ At(t, "resumeall")
    /\ Resumes(t)
    /\ Goto(t, "app")
    /\ UNCHANGED <<ticks, target>>

Yield(t) ==
    /\ At(t, "yield")
    /\ Goto(t, "app")
    /\ YieldIf(TRUE)
    /\ UNCHANGED <<kernel, ticks, target>> /\ Keep

(* The application suspends the scheduler, and resumes it. *)
Lock(t) ==
    /\ MayBlock(t, "lock")
    /\ Set(SuspendAll(kernel))
    /\ UNCHANGED msip /\ Stay /\ Keep

MayUnlock(t) == At(t, "app") /\ kernel.depth = 1

Unlock(t) ==
    /\ MayUnlock(t)
    /\ Resumes(t)
    /\ Stay

(* vTaskSuspend of u, perhaps of the caller itself *)
Suspend(t, u) ==
    /\ MayCall(t, "suspend") /\ Exists(u)
    /\ u = t => kernel.depth = 0
    /\ Set([Unpend(Unlist(kernel, u), u) EXCEPT !.suspended = Append(@, u)])
    /\ notify' = [notify EXCEPT ![u] = IF @ = "waiting" THEN "none" ELSE @]
    /\ parked' = [parked EXCEPT ![u] = TRUE]
    /\ Aim(t, "reset", u)
    /\ UNCHANGED <<msip, periods>>

SuspendResets(t) ==
    /\ At(t, "reset")
    /\ Set(ResetUnblock(kernel))
    /\ Aim(t, IF target[t] = t THEN "yield" ELSE "app", t)
    /\ UNCHANGED msip /\ Keep

(* prvTaskIsTaskSuspended *)
IsSuspended(u) == u \in Range(kernel.suspended) /\ u \notin Range(kernel.pending)

(* The application's choice of a task to resume *)
MayResume(u) == u \in Targets /\ (ResumesAny \/ parked[u])

(* vTaskResume: not of the caller *)
ResumeTask(t, u) ==
    /\ MayCall(t, "resume") /\ MayResume(u) /\ u # t
    /\ IsSuspended(u)
    /\ Set(MakeReady(kernel, u))
    /\ YieldIf(kernel.prio[u] >= kernel.prio[t])
    /\ parked' = [parked EXCEPT ![u] = FALSE]
    /\ UNCHANGED <<notify, periods>> /\ Stay

(* xTaskAbortDelay *)
AbortDelay(t, u) ==
    /\ MayCall(t, "abort") /\ Exists(u)
    /\ Set(SuspendAll(kernel))
    /\ Aim(t, "state", u)
    /\ UNCHANGED msip /\ Keep

(* eTaskGetState is eBlocked: on a delayed list, or on the suspended list   *)
(* with an event item that is on a list                                    *)
IsBlocked(u) ==
    \/ u \in Asleep(kernel)
    \/ u \in Range(kernel.suspended) /\ u \in Range(kernel.pending)

AbortState(t) ==
    LET u == target[t]
    IN  /\ At(t, "state")
        /\ IF u # t /\ IsBlocked(u)
              THEN Goto(t, "unlist") /\ UNCHANGED target
              ELSE Goto(t, "resumeall") /\ target' = [target EXCEPT ![t] = t]
        /\ UNCHANGED <<kernel, ticks, msip>> /\ Keep

AbortUnlist(t) ==
    /\ At(t, "unlist")
    /\ Set(Unlist(kernel, target[t]))
    /\ Goto(t, "event")
    /\ UNCHANGED <<ticks, target, msip>> /\ Keep

AbortEvent(t) ==
    /\ At(t, "event")
    /\ Set(Unpend(kernel, target[t]))
    /\ Goto(t, "enlist")
    /\ UNCHANGED <<ticks, target, msip>> /\ Keep

AbortEnlist(t) ==
    LET u == target[t]
        yields == kernel.prio[u] > kernel.prio[t]
    IN  /\ At(t, "enlist")
        /\ Set([AddReady(kernel, u) EXCEPT !.yield = @ \/ yields])
        /\ Aim(t, "resumeall", t)
        /\ UNCHANGED msip /\ Keep

(* vTaskPrioritySet *)
PrioritySet(t, u, p) ==
    LET old == kernel.prio[u]
        k == [kernel EXCEPT !.prio[u] = p]
    IN  /\ MayCall(t, "priority") /\ Exists(u)
        /\ p # old
        /\ Set(IF u \in Range(kernel.ready[old]) THEN MakeReady(k, u) ELSE k)
        /\ YieldIf(IF p > old THEN u # t /\ p >= kernel.prio[t] ELSE u = t)
        /\ Stay /\ Keep

-----------------------------------------------------------------------------
(* Task notifications. What comes with one, ulNotifiedValue, is left out.  *)

(* xTaskNotifyWait *)
NotifyWait(t) ==
    /\ MayBlock(t, "wait")
    /\ IF notify[t] = "received"
          THEN UNCHANGED <<kernel, notify, msip>>
          ELSE /\ notify' = [notify EXCEPT ![t] = "waiting"]
               /\ \E n \in Waits[t] :
                     /\ Set(IF n > 0 THEN Block(kernel, n, TRUE) ELSE kernel)
                     /\ YieldIf(n > 0)
    /\ Goto(t, "notified")
    /\ UNCHANGED <<ticks, target, periods, parked>>

Notified(t) ==
    /\ At(t, "notified")
    /\ notify' = [notify EXCEPT ![t] = "none"]
    /\ Goto(t, "app")
    /\ UNCHANGED <<kernel, msip, ticks, target, periods, parked>>

(* xTaskGenericNotify *)
Notify(t, u) ==
    LET waits == notify[u] = "waiting"
    IN  /\ MayCall(t, "notify") /\ Exists(u)
        /\ notify' = [notify EXCEPT ![u] = "received"]
        /\ Set(IF waits THEN ResetUnblock(MakeReady(kernel, u)) ELSE kernel)
        /\ YieldIf(waits /\ kernel.prio[u] > kernel.prio[t])
        /\ UNCHANGED <<periods, parked>> /\ Stay

-----------------------------------------------------------------------------
(* The end of a task, and its beginning                                    *)

(* prvDeleteTCB: t is no task any more, what its memory holds is left out. *)
Free(t) ==
    /\ notify' = [notify EXCEPT ![t] = "none"]
    /\ parked' = [parked EXCEPT ![t] = FALSE]
    /\ UNCHANGED periods

(* vTaskDelete of the caller: it is left to the idle task. *)
DeleteSelf(t) ==
    /\ MayBlock(t, "delete") /\ t \in Targets
    /\ Set([Unpend(Unlist(kernel, t), t) EXCEPT !.term = Append(@, t)])
    /\ Goto(t, "deleted")
    /\ UNCHANGED <<msip, ticks, target>> /\ Keep

DeletedYields(t) ==
    /\ At(t, "deleted")
    /\ YieldIf(TRUE)
    /\ UNCHANGED kernel /\ Stay /\ Keep

(* The event item of the task is left on its list. *)
DeletePending(k, u) == ResetUnblock(Unlist(k, u))

(* The lists after vTaskDelete of another task *)
DeleteFrom(k, u) == ResetUnblock(Unpend(Unlist(k, u), u))

(* vTaskDelete of another task *)
Delete(t, u) ==
    /\ MayCall(t, "delete") /\ Exists(u) /\ u # t
    /\ Set(DeleteFrom(kernel, u))
    /\ pc' = [pc EXCEPT ![u] = "freed"]
    /\ ticks' = [ticks EXCEPT ![u] = 0]
    /\ target' = [target EXCEPT ![u] = u]
    /\ Free(u) /\ UNCHANGED msip

(* xTaskCreate. Bound: not before the memory of the last one is free. *)
Create(t, u) ==
    LET k == AddReady([kernel EXCEPT !.prio[u] = Prio[u]], u)
    IN  /\ MayCall(t, "create") /\ pc[u] = "freed"
        /\ Set(k)
        /\ Goto(u, "app")
        /\ YieldIf(k.prio[t] < k.prio[u])
        /\ UNCHANGED <<ticks, target>> /\ Keep

(* prvCheckTasksWaitingTermination, called by the idle task *)
IdleUnlists ==
    /\ At(Idle, "app") /\ kernel.depth = 0
    /\ kernel.term # <<>>
    /\ Set(Unlist(kernel, Head(kernel.term)))
    /\ Aim(Idle, "reclaim", Head(kernel.term))
    /\ UNCHANGED msip /\ Keep

IdleReclaims ==
    /\ At(Idle, "reclaim")
    /\ Free(target[Idle])
    /\ pc' = [pc EXCEPT ![target[Idle]] = "freed", ![Idle] = "app"]
    /\ target' = [target EXCEPT ![Idle] = Idle]
    /\ UNCHANGED <<kernel, ticks, msip>>

-----------------------------------------------------------------------------
(* Handlers. None starts inside a critical section.                        *)

(* portYIELD_FROM_ISR, when cond holds *)
SwitchIf(k, cond) == Set(IF cond THEN Switch(k) ELSE k)

(* handle_irq_m_soft, asked to switch *)
SwitchInterrupt ==
    /\ msip
    /\ msip' = FALSE
    /\ Set(Switch(kernel))
    /\ Stay /\ Keep

(* handle_irq_m_timer with the scheduler running *)
TickInterrupt ==
    /\ kernel.depth = 0
    /\ SwitchIf(Increment(kernel), SwitchRequired(kernel))
    /\ Drift(1)
    /\ UNCHANGED <<notify, msip, previous, parked>> /\ Stay

(* and with the scheduler suspended *)
TickPended ==
    /\ kernel.depth > 0 /\ kernel.pended < MaxPended
    /\ Set([kernel EXCEPT !.pended = @ + 1])
    /\ UNCHANGED msip /\ Stay /\ Keep

(* The event item goes to the pending list, the state item stays. *)
Hold(k, u) == [k EXCEPT !.pending = Append(@, u)]

(* A wake-up while the scheduler is suspended is dropped. *)
WakeDropped(k, u) == IF k.depth = 0 THEN MakeReady(k, u) ELSE k

WakeFromISR(k, u) == IF k.depth = 0 THEN MakeReady(k, u) ELSE Hold(k, u)

(* xTaskGenericNotifyFromISR, with or without pxHigherPriorityTaskWoken *)
NotifyFromISR(u) ==
    LET waits == notify[u] = "waiting"
        k == IF waits THEN WakeFromISR(kernel, u) ELSE kernel
        higher == waits /\ kernel.prio[u] > kernel.prio[kernel.current]
    IN  /\ Exists(u) /\ notify[u] # "received"
        /\ notify' = [notify EXCEPT ![u] = "received"]
        /\ \/ SwitchIf(k, higher)
           \/ higher /\ Set([k EXCEPT !.yield = TRUE])
        /\ UNCHANGED <<msip, periods, parked>> /\ Stay

(* xTaskResumeFromISR *)
ResumeFromISR(u) ==
    /\ MayResume(u) /\ IsSuspended(u)
    /\ SwitchIf(WakeFromISR(kernel, u),
                kernel.depth = 0 /\ kernel.prio[u] >= kernel.prio[kernel.current])
    /\ parked' = [parked EXCEPT ![u] = FALSE]
    /\ UNCHANGED <<notify, msip, periods>> /\ Stay

-----------------------------------------------------------------------------
(* prvIdleTask: tickless idling, which the port leaves empty *)

(* prvGetExpectedIdleTime is at least configEXPECTED_IDLE_TIME_BEFORE_SLEEP. *)
IdleLong ==
    /\ Len(kernel.ready[0]) = 2 /\ kernel.top = 0
    /\ (kernel.unblock - kernel.tick) % Wrap >= 2

(* The idle task may have looked for deleted tasks before one was. *)
IdleSuspends ==
    /\ At(Idle, "app") /\ kernel.depth = 0
    /\ IdleLong
    /\ Set(SuspendAll(kernel))
    /\ Goto(Idle, "sleep")
    /\ UNCHANGED <<ticks, target, msip>> /\ Keep

(* Past the configASSERT on xNextTaskUnblockTime *)
IdleSleeps ==
    /\ At(Idle, "sleep")
    /\ kernel.unblock >= kernel.tick
    /\ Goto(Idle, "resumeall")
    /\ UNCHANGED <<kernel, msip, ticks, target>> /\ Keep

-----------------------------------------------------------------------------
(* Every task has been created, and no one has run. Of the tasks of the    *)
(* highest priority the one created last is pxCurrentTCB.                  *)
Init ==
    LET created(p) == SetToSeq({t \in Tasks : Prio[t] = p})
                          \o (IF p = 0 THEN <<Idle>> ELSE <<>>)
        used == {p \in Priorities : created(p) # <<>>}
        highest == CHOOSE p \in used : \A q \in used : q <= p
    IN  /\ kernel = [tick |-> 0, pended |-> 0, unblock |-> MaxDelay,
                     ready |-> [p \in Priorities |-> Append(created(p), End)],
                     top |-> highest, current |-> Last(created(highest)),
                     delayed |-> <<>>, overflow |-> <<>>,
                     suspended |-> <<>>, pending |-> <<>>, term |-> <<>>,
                     depth |-> 0, yield |-> FALSE,
                     wake |-> [t \in Tasks |-> 0],
                     prio |-> [t \in All |-> IF t = Idle THEN 0 ELSE Prio[t]]]
        /\ notify = [t \in Tasks |-> "none"]
        /\ msip = FALSE
        /\ pc = [t \in All |-> "app"]
        /\ ticks = [t \in All |-> 0]
        /\ target = [t \in All |-> t]
        /\ previous = [t \in Tasks |-> 0]
        /\ ahead = [t \in Tasks |-> 0]
        /\ parked = [t \in Tasks |-> FALSE]

InCall(t) == ~msip /\ kernel.current = t /\ pc[t] # "app"

(* The rest of a call once it has begun *)
Step(t) ==
    \/ AddDelay(t) \/ AddDelayUntil(t)
    \/ ResumeAndYield(t) \/ Resume(t) \/ Yield(t)
    \/ SuspendResets(t)
    \/ AbortState(t) \/ AbortUnlist(t) \/ AbortEvent(t) \/ AbortEnlist(t)
    \/ Notified(t) \/ DeletedYields(t)

Call(t) ==
    \/ Delay(t) \/ DelayUntil(t) \/ NotifyWait(t) \/ Lock(t) \/ DeleteSelf(t)
    \/ \E u \in Targets :
          \/ Suspend(t, u) \/ ResumeTask(t, u) \/ AbortDelay(t, u) \/ Notify(t, u)
          \/ Delete(t, u) \/ Create(t, u)
          \/ \E p \in Priorities \ {0} : PrioritySet(t, u, p)

Tick == TickInterrupt \/ TickPended

Next ==
    \/ \E t \in Tasks : Step(t) \/ Unlock(t) \/ Call(t)
    \/ Resume(Idle) \/ IdleSuspends \/ IdleSleeps
    \/ IdleUnlists \/ IdleReclaims
    \/ SwitchInterrupt \/ Tick
    \/ \E u \in Targets : NotifyFromISR(u) \/ ResumeFromISR(u)

(* Ticks go on, a requested switch is taken, a call that has begun goes    *)
(* on, and the application resumes a scheduler it has suspended. Weak and  *)
(* strong fairness, with the condition under which the action can happen   *)
(* written out.                                                            *)
Fairness ==
    /\ []<>~(kernel.depth = 0 \/ kernel.pended < MaxPended) \/ []<><<Tick>>_vars
    /\ []<>~msip \/ []<><<SwitchInterrupt>>_vars
    /\ \A t \in Tasks :
          /\ []<>~InCall(t) \/ []<><<Step(t)>>_vars
          /\ <>[]~MayUnlock(t) \/ []<><<Unlock(t)>>_vars
    /\ []<>~At(Idle, "resumeall") \/ []<><<Resume(Idle)>>_vars
    /\ []<>~At(Idle, "sleep") \/ []<><<IdleSleeps>>_vars

Spec == Init /\ [][Next]_vars
FairSpec == Spec /\ Fairness

-----------------------------------------------------------------------------
(* Properties *)

(* The variables of tasks.c, and of each task *)
Kernels ==
    [tick : Ticks, pended : 0 .. MaxPended, unblock : Ticks,
     ready : [Priorities -> Seq(All \cup {End})],
     top : Priorities, current : All,
     delayed : Seq(Tasks), overflow : Seq(Tasks), suspended : Seq(Tasks),
     pending : Seq(Tasks), term : Seq(Tasks),
     depth : 0 .. 2, yield : BOOLEAN,
     wake : [Tasks -> Ticks], prio : [All -> Priorities]]

(* Every variable has its type; times and counts are in their ranges.      *)
TypeOK ==
    /\ kernel \in Kernels
    /\ notify \in [Tasks -> {"none", "waiting", "received"}]
    /\ msip \in BOOLEAN
    /\ pc \in [All -> Labels]
    /\ ticks \in [All -> Ticks] /\ target \in [All -> All]
    /\ previous \in [Tasks -> Ticks] /\ ahead \in [Tasks -> -Wrap .. Wrap]
    /\ parked \in [Tasks -> BOOLEAN]

(* xTaskAbortDelay has taken t off one list and not put it on the other. *)
InHand(t) == \E c \in Tasks : pc[c] \in {"event", "enlist"} /\ target[c] = t

(* t is no longer on any list: its memory is free, or about to be. *)
Unlisted(t) ==
    \/ pc[t] = "freed"
    \/ pc[Idle] = "reclaim" /\ target[Idle] = t

InReady(t) == t \in Range(kernel.ready[kernel.prio[t]])

(* The sets of tasks that state lists hold, the ready lists taken as one *)
Ready(k) == {t \in All : t \in Range(k.ready[k.prio[t]])}
States(k) ==
    <<Range(k.delayed), Range(k.overflow), Range(k.suspended), Range(k.term), Ready(k)>>

(* A state item is on one state list, once, and that of a ready task on    *)
(* the list of its priority; it is on none only while xTaskAbortDelay has  *)
(* it in hand, or when its task is freed. An event item is on the pending  *)
(* list once at most, that of a deleted task never. The lists are linked   *)
(* through the items: one inserted twice, or freed in a list, breaks them. *)
OneStateList ==
    /\ TypeOK
    /\ \A list \in {kernel.delayed, kernel.overflow, kernel.suspended,
                      kernel.term, kernel.pending} : IsInjective(list)
    /\ \A i, j \in 1 .. 5 : i # j => States(kernel)[i] \cap States(kernel)[j] = {}
    /\ UNION Range(States(kernel)) = {t \in All : ~InHand(t) /\ ~Unlisted(t)}
    /\ \A p \in Priorities :
          /\ IsInjective(kernel.ready[p])
          /\ \A t \in All : t \in Range(kernel.ready[p]) => p = kernel.prio[t]
    /\ \A t \in Range(kernel.pending) : Exists(t)
    /\ \A t \in Range(kernel.term) : pc[t] = "deleted"

(* tasks.c:4740, 4863 and 4954, "The task should not have been on an event *)
(* list": a notification never finds the task that waits for it on the     *)
(* pending list, where a handler would insert it a second time.            *)
NotifiedIsUnlisted ==
    [][\A t \in Tasks :
          notify[t] = "waiting" /\ notify'[t] = "received"
              => t \notin Range(kernel.pending)]_vars

(* The asserts of the kernel hold: the delayed list is empty when the two  *)
(* are switched (tasks.c:234), xNextTaskUnblockTime has not passed when    *)
(* the idle task looks (3399), a switch finds a task (171), and a task     *)
(* that waits for a notification is on no event list (4864).               *)
AssertionsHold ==
    /\ kernel.tick = MaxDelay => kernel.delayed = <<>>
    /\ pc[Idle] = "sleep" => kernel.unblock >= kernel.tick
    /\ \E p \in Priorities : p <= kernel.top /\ ~NoTasks(kernel.ready[p])
    /\ \A t \in Tasks : notify[t] = "waiting" => t \notin Range(kernel.pending)

(* Unless a switch is on its way, no ready task has a higher priority than *)
(* the one that runs: no path that makes a task ready, or changes a        *)
(* priority, forgets to ask for the switch.                                *)
HighestRuns ==
    \/ msip \/ kernel.yield \/ kernel.depth > 0
    \/ ~InReady(kernel.current)   \* it is about to yield
    \/ \A t \in All : InReady(t) => kernel.prio[t] <= kernel.prio[kernel.current]

(* A task that waits for a notification and has got it is on its way: it   *)
(* is ready, or pending, or in the hands of xTaskAbortDelay, unless        *)
(* someone suspended it.                                                   *)
NotificationWakes ==
    \A t \in Tasks :
        pc[t] = "notified" /\ notify[t] = "received" /\ ~parked[t]
            => InReady(t) \/ t \in Range(kernel.pending) \/ InHand(t)

(* The ticks until t wakes. A task left on the delayed list at its time    *)
(* has missed it, and a lap remains.                                       *)
Left(k, t) ==
    LET inLap == t \in Range(k.delayed) /\ k.wake[t] > k.tick
    IN  IF t \in Asleep(k)
          THEN k.wake[t] - k.tick + (IF inLap THEN 0 ELSE Wrap)
          ELSE 0

Remaining(t) == Left(kernel, t)

Delays == INSTANCE Countdown WITH
    Sleepers <- Tasks, Longest <- MaxDelay,
    remaining <- [t \in Tasks |-> Remaining(t)],
    owed <- kernel.pended, woken <- Range(kernel.pending)

(* The two delayed lists, the tick that wraps, xNextTaskUnblockTime and    *)
(* the pended ticks implement a countdown for each task: no task wakes     *)
(* early or late.                                                          *)
RefinesCountdown == Delays!Spec

(* A periodic task that is less than a lap of the tick count late is       *)
(* blocked until its next wake time exactly, and not at all if that has    *)
(* passed, wherever the tick count and the wake time have wrapped. (One    *)
(* that is early, because its last wait was aborted, is not.)              *)
PeriodIsKept ==
    [][\A t \in Tasks :
          pc[t] = "until" /\ pc'[t] = "resume" /\ ahead[t] \in 1 - Wrap .. 0
              => Remaining(t)' = Greater(0, ahead'[t])]_vars

(* A ready task of the highest priority gets its turn, however many share  *)
(* its priority: time slicing is fair.                                     *)
Foremost(t) ==
    InReady(t) /\ \A u \in All : InReady(u) => kernel.prio[u] <= kernel.prio[t]

ForemostRuns == \A t \in Tasks : Foremost(t) ~> (kernel.current = t \/ ~Foremost(t))
=============================================================================

------------------------------- MODULE Queue -------------------------------
(***************************************************************************)
(* lib/freertos/queue.c: one queue, the tasks that send to it, receive     *)
(* from it and look at it, and the interrupts that do so.                  *)
(*                                                                         *)
(* A critical section (interrupts off, xCoreLock held) is one step. What a *)
(* task does between two of them is not: it suspends the scheduler of its  *)
(* core, locks the queue, and inserts itself into an event list while      *)
(* interrupts and the other core go on. Each core has lists of its own; a  *)
(* task that is made ready goes to the lists of the core that wakes it.    *)
(*                                                                         *)
(* A handler's call is one step as well, but it masks the interrupts of    *)
(* its own core only and takes no xCoreLock: it is atomic against the      *)
(* tasks of its core, not against another core. So a queue that handlers   *)
(* use is taken to be used on one core alone (QueueAssumption).            *)
(*                                                                         *)
(* Ticks are abstract: a finite wait ends at some time, and not while the  *)
(* scheduler of the task's core is suspended.                              *)
(***************************************************************************)
EXTENDS Integers, SequencesExt

CONSTANTS Cores, Tasks,
          NoTask,      \* an idle core
          IsrCores,    \* cores whose handlers use the queue
          Home,        \* Home[t]: the core t is created on
          Prio,        \* Prio[t]: uxPriority
          Does,        \* Does[t]: the calls t makes
          Waits,       \* the block times passed, a subset of WaitKinds
          Items,
          Length,      \* uxLength
          MaxLock      \* bound: handlers stop before a lock count exceeds it

WaitKinds == {"zero", "some", "max"}   \* 0, ticks, portMAX_DELAY
Sends == {"back", "front", "overwrite"}
Calls == Sends \cup {"receive", "peek"}

ASSUME QueueAssumption ==
    /\ NoTask \notin Tasks /\ IsFiniteSet(Tasks) /\ Items # {}
    /\ IsrCores \subseteq Cores
    /\ IsrCores # {} => \A c, d \in Cores : c = d
    /\ Home \in [Tasks -> Cores] /\ Prio \in [Tasks -> Nat]
    /\ Does \in [Tasks -> SUBSET Calls]
    /\ Waits \subseteq WaitKinds
    /\ Length \in Nat \ {0} /\ MaxLock \in Nat
    /\ Length # 1 => \A t \in Tasks : "overwrite" \notin Does[t]

VARIABLES
    storage, writeTo, readFrom, messages,   \* the ring of items
    rxLock, txLock,     \* cRxLock, cTxLock
    toReceive, toSend,  \* xTasksWaitingToReceive, xTasksWaitingToSend
    ready,              \* ready[c]: pxReadyTasksLists as a set
    pending,            \* xPendingReadyList
    delayed,            \* the delayed and the suspended lists of each core
    suspended,          \* uxSchedulerSuspended
    running,            \* pxCurrentTCB
    pc, call, wait,     \* where a task is, its call, its xTicksToWait
    late,               \* its block time has elapsed
    then,               \* where it goes once the scheduler is resumed
    box                 \* the item a receiver was given

ring == <<storage, writeTo, readFrom, messages>>
locks == <<rxLock, txLock>>
lists == <<toReceive, toSend>>
sched == <<ready, pending, delayed, suspended, running>>
frame == <<pc, call, wait, late, then>>
vars == <<ring, locks, lists, sched, frame, box>>

Labels == {"idle", "try", "suspend", "lock", "timeout", "check", "insert",
           "delay", "unlocktx", "unlockrx", "resume", "empty"}

Slots == 0 .. Length - 1
Nothing == CHOOSE x \in Items : TRUE   \* what a buffer holds at first
Unlocked == -1      \* queueUNLOCKED; queueLOCKED_UNMODIFIED is 0

Init ==
    /\ storage = [i \in Slots |-> Nothing]
    /\ writeTo = 0 /\ readFrom = Length - 1 /\ messages = 0
    /\ rxLock = Unlocked /\ txLock = Unlocked
    /\ toReceive = <<>> /\ toSend = <<>>
    /\ ready = [c \in Cores |-> {t \in Tasks : Home[t] = c}]
    /\ pending = [c \in Cores |-> {}]
    /\ delayed = [c \in Cores |-> {}]
    /\ suspended = [c \in Cores |-> FALSE]
    /\ running = [c \in Cores |-> NoTask]
    /\ pc = [t \in Tasks |-> "idle"]
    /\ call = [t \in Tasks |-> "receive"]
    /\ wait = [t \in Tasks |-> "zero"]
    /\ late = [t \in Tasks |-> FALSE]
    /\ then = [t \in Tasks |-> "try"]
    /\ box = [t \in Tasks |-> Nothing]

-----------------------------------------------------------------------------
(* The ring: pcWriteTo is where the next item goes, pcReadFrom where the   *)
(* last item came from.                                                    *)

(* Faults, here and below: what a definition would be with a plausible     *)
(* bug. No specification uses them; each shows that a property tells the   *)
(* bug from the code.                                                      *)

(* pcWriteTo > pcTail for pcWriteTo >= pcTail *)
UpOffByOne(i) == IF i + 1 > Length THEN 0 ELSE i + 1

(* pcReadFrom does not go back to the end. *)
DownUnwrapped(i) == IF i - 1 < 0 THEN 0 ELSE i - 1

Up(i) == IF i + 1 >= Length THEN 0 ELSE i + 1
Down(i) == IF i - 1 < 0 THEN Length - 1 ELSE i - 1

(* prvCopyDataToQueue *)
CopyIn(x, position) ==
    IF position = "back"
      THEN /\ storage' = [storage EXCEPT ![writeTo] = x]
           /\ writeTo' = Up(writeTo)
           /\ messages' = messages + 1
           /\ UNCHANGED readFrom
      ELSE /\ storage' = [storage EXCEPT ![readFrom] = x]
           /\ readFrom' = Down(readFrom)
           /\ messages' = (IF position = "overwrite" /\ messages > 0
                             THEN messages - 1 ELSE messages) + 1
           /\ UNCHANGED writeTo

(* prvCopyDataFromQueue, and the count its callers decrement *)
CopyOut ==
    /\ readFrom' = Up(readFrom)
    /\ messages' = messages - 1
    /\ UNCHANGED <<storage, writeTo>>

(* The memcpy of prvCopyDataFromQueue; xQueuePeek puts pcReadFrom back. *)
Fill(t) == box' = [box EXCEPT ![t] = storage[Up(readFrom)]]

-----------------------------------------------------------------------------
(* Event lists and the scheduler *)

(* vListInsert: before the first task of a lower priority *)
PlaceIn(list, t) ==
    CHOOSE i \in 1 .. Len(list) + 1 :
        /\ \A j \in 1 .. i - 1 : Prio[list[j]] >= Prio[t]
        /\ i <= Len(list) => Prio[list[i]] < Prio[t]

Insert(list, t) == InsertAt(list, PlaceIn(list, t), t)

(* uxListRemove, of an item that may be in a list *)
Unlink(list, t) ==
    IF \E i \in DOMAIN list : list[i] = t
      THEN RemoveAt(list, CHOOSE i \in DOMAIN list : list[i] = t)
      ELSE list

(* prvAddTaskToReadyList, out of whatever list holds the task *)
AddReady(c, woken) ==
    /\ ready' = [d \in Cores |-> IF d = c THEN ready[d] \cup woken ELSE ready[d] \ woken]
    /\ delayed' = [d \in Cores |-> delayed[d] \ woken]

(* xTaskRemoveFromEventList on core c, for the tasks of woken *)
MakeReady(c, woken) ==
    IF suspended[c]
      THEN /\ pending' = [pending EXCEPT ![c] = @ \cup woken]
           /\ UNCHANGED <<ready, delayed>>
      ELSE /\ AddReady(c, woken)
           /\ UNCHANGED pending

First(list, n) == SubSeq(list, 1, IF n < Len(list) THEN n ELSE Len(list))

(* The first n tasks of a list wake up, or all of them. *)
WakeReceivers(c, n) ==
    /\ toReceive' = SubSeq(toReceive, Len(First(toReceive, n)) + 1, Len(toReceive))
    /\ MakeReady(c, ToSet(First(toReceive, n)))
    /\ UNCHANGED toSend

WakeSenders(c, n) ==
    /\ toSend' = SubSeq(toSend, Len(First(toSend, n)) + 1, Len(toSend))
    /\ MakeReady(c, ToSet(First(toSend, n)))
    /\ UNCHANGED toReceive

(***************************************************************************)
(* The task running on core c is at label l. It goes on while it is ready, *)
(* and while it keeps the scheduler from taking the core away from it.     *)
(***************************************************************************)
At(c, t, l) ==
    /\ running[c] = t /\ pc[t] = l
    /\ suspended[c] \/ t \in ready[c]

Goto(t, l) == pc' = [pc EXCEPT ![t] = l]

(* vTaskSwitchContext; any ready task may be the one of highest priority. *)
Dispatch(c, t) ==
    /\ ~suspended[c]
    /\ t \in ready[c] \ {running[c]}
    /\ running' = [running EXCEPT ![c] = t]
    /\ UNCHANGED <<ring, locks, lists, ready, pending, delayed, suspended, frame,
                   box>>

-----------------------------------------------------------------------------
(* xQueueGenericSend, xQueueReceive and xQueuePeek *)

Call(c, t) ==
    /\ At(c, t, "idle")
    /\ \E k \in Does[t], w \in Waits :
         /\ call' = [call EXCEPT ![t] = k]
         /\ wait' = [wait EXCEPT ![t] = w]
    /\ late' = [late EXCEPT ![t] = FALSE]
    /\ box' = [box EXCEPT ![t] = Nothing]
    /\ Goto(t, "try")
    /\ UNCHANGED <<ring, locks, lists, sched, then>>

Return(t) ==
    /\ pc' = [pc EXCEPT ![t] = "idle"]
    /\ wait' = [wait EXCEPT ![t] = "zero"]
    /\ late' = [late EXCEPT ![t] = FALSE]
    /\ then' = [then EXCEPT ![t] = "try"]
    /\ UNCHANGED call

Possible(t) ==
    CASE call[t] \in {"back", "front"} -> messages < Length
      [] call[t] = "overwrite" -> TRUE
      [] call[t] \in {"receive", "peek"} -> messages > 0

(* The first critical section, when there is room *)
Send(c, t) ==
    /\ At(c, t, "try") /\ call[t] \in Sends /\ Possible(t)
    /\ \E x \in Items : CopyIn(x, call[t])
    /\ WakeReceivers(c, 1)
    /\ Return(t)
    /\ UNCHANGED <<locks, suspended, running, box>>

(* The first critical section, when there is an item *)
Receive(c, t) ==
    /\ At(c, t, "try") /\ call[t] = "receive" /\ Possible(t)
    /\ CopyOut /\ Fill(t)
    /\ WakeSenders(c, 1)
    /\ Return(t)
    /\ UNCHANGED <<locks, suspended, running>>

(* "The data is being left in the queue": another receiver wakes up. *)
Peek(c, t) ==
    /\ At(c, t, "try") /\ call[t] = "peek" /\ Possible(t)
    /\ Fill(t)
    /\ WakeReceivers(c, 1)
    /\ Return(t)
    /\ UNCHANGED <<ring, locks, suspended, running>>

(* errQUEUE_FULL or errQUEUE_EMPTY: no block time is left. *)
Refuse(c, t) ==
    /\ At(c, t, "try") /\ ~Possible(t) /\ wait[t] = "zero"
    /\ Return(t)
    /\ UNCHANGED <<ring, locks, lists, sched, box>>

(* vTaskInternalSetTimeOutState, the first time round *)
SetTimeOut(c, t) ==
    /\ At(c, t, "try") /\ ~Possible(t) /\ wait[t] # "zero"
    /\ Goto(t, "suspend")
    /\ UNCHANGED <<ring, locks, lists, sched, call, wait, late, then, box>>

(* vTaskSuspendAll *)
SuspendAll(c, t) ==
    /\ At(c, t, "suspend")
    /\ suspended' = [suspended EXCEPT ![c] = TRUE]
    /\ Goto(t, "lock")
    /\ UNCHANGED <<ring, locks, lists, ready, pending, delayed, running, call, wait,
                   late, then, box>>

LockQueue(c, t) ==
    /\ At(c, t, "lock")
    /\ rxLock' = IF rxLock = Unlocked THEN 0 ELSE rxLock
    /\ txLock' = IF txLock = Unlocked THEN 0 ELSE txLock
    /\ Goto(t, "timeout")
    /\ UNCHANGED <<ring, lists, sched, call, wait, late, then, box>>

(* The block time counts again from here. *)
CheckRestarts(c, t) ==
    /\ At(c, t, "timeout")
    /\ late' = [late EXCEPT ![t] = FALSE]
    /\ Goto(t, "check")
    /\ UNCHANGED <<ring, locks, lists, sched, call, wait, then, box>>

(* xTaskCheckForTimeOut: a receiver looks once more, a sender gives up. *)
CheckForTimeOut(c, t) ==
    /\ At(c, t, "timeout")
    /\ IF late[t]
         THEN /\ wait' = [wait EXCEPT ![t] = "zero"]
              /\ then' = [then EXCEPT ![t] = IF call[t] \in Sends THEN "idle" ELSE "empty"]
              /\ Goto(t, "unlocktx")
         ELSE /\ Goto(t, "check")
              /\ UNCHANGED <<wait, then>>
    /\ UNCHANGED <<ring, locks, lists, sched, call, late, box>>

(* prvIsQueueFull, prvIsQueueEmpty *)
StillImpossible(t) ==
    IF call[t] \in Sends THEN messages = Length ELSE messages = 0

CheckQueue(c, t) ==
    /\ At(c, t, "check")
    /\ then' = [then EXCEPT ![t] = "try"]
    /\ Goto(t, IF StillImpossible(t) THEN "insert" ELSE "unlocktx")
    /\ UNCHANGED <<ring, locks, lists, sched, call, wait, late, box>>

(* vTaskPlaceOnEventList: the event list, outside any critical section ... *)
InsertWaiting(c, t) ==
    /\ At(c, t, "insert")
    /\ IF call[t] \in Sends
         THEN toSend' = Insert(toSend, t) /\ UNCHANGED toReceive
         ELSE toReceive' = Insert(toReceive, t) /\ UNCHANGED toSend
    /\ Goto(t, "delay")
    /\ UNCHANGED <<ring, locks, sched, call, wait, late, then, box>>

(* ... then prvAddCurrentTaskToDelayedList *)
Delay(c, t) ==
    /\ At(c, t, "delay")
    /\ ready' = [d \in Cores |-> ready[d] \ {t}]
    /\ delayed' = [delayed EXCEPT ![c] = @ \cup {t}]
    /\ Goto(t, "unlocktx")
    /\ UNCHANGED <<ring, locks, lists, pending, suspended, running, call, wait, late,
                   then, box>>

(* if for while: one wake-up for any number of items, or of places *)
UnlockTxOnce(c, t) ==
    /\ At(c, t, "unlocktx")
    /\ WakeReceivers(c, IF txLock > 0 THEN 1 ELSE 0)
    /\ txLock' = Unlocked
    /\ Goto(t, "unlockrx")
    /\ UNCHANGED <<ring, rxLock, suspended, running, call, wait, late, then, box>>

UnlockRxOnce(c, t) ==
    /\ At(c, t, "unlockrx")
    /\ WakeSenders(c, IF rxLock > 0 THEN 1 ELSE 0)
    /\ rxLock' = Unlocked
    /\ Goto(t, "resume")
    /\ UNCHANGED <<ring, txLock, suspended, running, call, wait, late, then, box>>

(* prvUnlockQueue, its two critical sections *)
UnlockTx(c, t) ==
    /\ At(c, t, "unlocktx")
    /\ WakeReceivers(c, IF txLock > 0 THEN txLock ELSE 0)
    /\ txLock' = Unlocked
    /\ Goto(t, "unlockrx")
    /\ UNCHANGED <<ring, rxLock, suspended, running, call, wait, late, then, box>>

UnlockRx(c, t) ==
    /\ At(c, t, "unlockrx")
    /\ WakeSenders(c, IF rxLock > 0 THEN rxLock ELSE 0)
    /\ rxLock' = Unlocked
    /\ Goto(t, "resume")
    /\ UNCHANGED <<ring, txLock, suspended, running, call, wait, late, then, box>>

(* xTaskResumeAll, and the yield after it *)
ResumeAll(c, t) ==
    /\ At(c, t, "resume")
    /\ suspended' = [suspended EXCEPT ![c] = FALSE]
    /\ AddReady(c, pending[c])
    /\ pending' = [pending EXCEPT ![c] = {}]
    /\ IF then[t] = "idle"
         THEN Return(t)
         ELSE Goto(t, then[t]) /\ UNCHANGED <<call, wait, late, then>>
    /\ UNCHANGED <<ring, locks, lists, running, box>>

(* A receiver that has timed out: prvIsQueueEmpty *)
LastLook(c, t) ==
    /\ At(c, t, "empty")
    /\ IF messages = 0
         THEN Return(t)
         ELSE Goto(t, "try") /\ UNCHANGED <<call, wait, late, then>>
    /\ UNCHANGED <<ring, locks, lists, sched, box>>

-----------------------------------------------------------------------------
(* Time, which stands still for the tasks of a core whose scheduler is     *)
(* suspended                                                               *)

(* The block time of a ready task has elapsed before it waits again. *)
Elapse(c, t) ==
    /\ pc[t] = "suspend" /\ wait[t] = "some" /\ ~late[t]
    /\ ~suspended[c] /\ t \in ready[c]
    /\ late' = [late EXCEPT ![t] = TRUE]
    /\ UNCHANGED <<ring, locks, lists, sched, pc, call, wait, then, box>>

(* The task stays on the event list. *)
ExpireListed(c, t) ==
    /\ t \in delayed[c] /\ ~suspended[c] /\ wait[t] = "some"
    /\ late' = [late EXCEPT ![t] = TRUE]
    /\ AddReady(c, {t})
    /\ UNCHANGED <<ring, locks, lists, pending, suspended, running, pc, call, wait,
                   then, box>>

(* xTaskIncrementTick wakes a task that waits: it leaves both its lists. *)
Expire(c, t) ==
    /\ t \in delayed[c] /\ ~suspended[c] /\ wait[t] = "some"
    /\ late' = [late EXCEPT ![t] = TRUE]
    /\ AddReady(c, {t})
    /\ pending' = [d \in Cores |-> pending[d] \ {t}]
    /\ toReceive' = Unlink(toReceive, t)
    /\ toSend' = Unlink(toSend, t)
    /\ UNCHANGED <<ring, locks, suspended, running, pc, call, wait, then, box>>

-----------------------------------------------------------------------------
(* Handlers, with interrupts masked on their core, which is the only one   *)
(* that uses the queue (QueueAssumption)                                   *)

(* A handler does not look at the lock. *)
SendUnlocked(c) ==
    /\ c \in IsrCores /\ messages < Length
    /\ \E x \in Items, position \in {"back", "front"} : CopyIn(x, position)
    /\ WakeReceivers(c, 1)
    /\ UNCHANGED <<locks, suspended, running, frame, box>>

(* xQueueGenericSendFromISR *)
SendFromISR(c) ==
    /\ c \in IsrCores /\ messages < Length
    /\ \E x \in Items, position \in {"back", "front"} :
         CopyIn(x, position)
    /\ IF txLock = Unlocked
         THEN WakeReceivers(c, 1) /\ UNCHANGED txLock
         ELSE /\ txLock < MaxLock
              /\ txLock' = txLock + 1
              /\ UNCHANGED <<lists, ready, pending, delayed>>
    /\ UNCHANGED <<rxLock, suspended, running, frame, box>>

ReceiveFromISR(c) ==
    /\ c \in IsrCores /\ messages > 0
    /\ CopyOut
    /\ IF rxLock = Unlocked
         THEN WakeSenders(c, 1) /\ UNCHANGED rxLock
         ELSE /\ rxLock < MaxLock
              /\ rxLock' = rxLock + 1
              /\ UNCHANGED <<lists, ready, pending, delayed>>
    /\ UNCHANGED <<txLock, suspended, running, frame, box>>

-----------------------------------------------------------------------------
(* What a task does inside a call *)
Step(c, t) ==
    \/ Send(c, t) \/ Receive(c, t) \/ Peek(c, t) \/ Refuse(c, t)
    \/ SetTimeOut(c, t) \/ SuspendAll(c, t) \/ LockQueue(c, t)
    \/ CheckForTimeOut(c, t) \/ CheckQueue(c, t) \/ InsertWaiting(c, t)
    \/ Delay(c, t) \/ UnlockTx(c, t) \/ UnlockRx(c, t) \/ ResumeAll(c, t)
    \/ LastLook(c, t)

Next == \E c \in Cores :
    \/ \E t \in Tasks : \/ Call(c, t) \/ Step(c, t) \/ Dispatch(c, t)
                        \/ Elapse(c, t) \/ Expire(c, t)
    \/ SendFromISR(c) \/ ReceiveFromISR(c)

Spec == Init /\ [][Next]_vars

Foremost(t) == \A u \in Tasks : Prio[u] <= Prio[t]

(***************************************************************************)
(* Priorities are strict: only the tasks of the highest one share the core *)
(* by time slices, and are sure to run when they are ready and to make     *)
(* progress before a slice ends, and their block times elapse. A lower     *)
(* task may starve, but not while it has the scheduler suspended: then     *)
(* nobody takes the core from it.                                          *)
(***************************************************************************)
Fairness == \A c \in Cores :
    /\ \A t \in Tasks : Foremost(t) =>
         /\ SF_vars(Dispatch(c, t)) /\ SF_vars(Step(c, t))
         /\ SF_vars(Elapse(c, t) \/ Expire(c, t))
    /\ WF_vars(suspended[c] /\ \E t \in Tasks : Step(c, t))

LiveSpec == Spec /\ Fairness
-----------------------------------------------------------------------------
TypeOK ==
    /\ storage \in [Slots -> Items] /\ writeTo \in Slots /\ readFrom \in Slots
    /\ messages \in 0 .. Length
    /\ rxLock \in Unlocked .. MaxLock /\ txLock \in Unlocked .. MaxLock
    /\ toReceive \in Seq(Tasks) /\ toSend \in Seq(Tasks)
    /\ ready \in [Cores -> SUBSET Tasks]
    /\ pending \in [Cores -> SUBSET Tasks]
    /\ delayed \in [Cores -> SUBSET Tasks]
    /\ suspended \in [Cores -> BOOLEAN]
    /\ running \in [Cores -> Tasks \cup {NoTask}]
    /\ pc \in [Tasks -> Labels] /\ call \in [Tasks -> Calls]
    /\ wait \in [Tasks -> WaitKinds] /\ late \in [Tasks -> BOOLEAN]
    /\ then \in [Tasks -> Labels]
    /\ box \in [Tasks -> Items]

(***************************************************************************)
(* The ring of queue.c is a bounded first-in first-out sequence whose      *)
(* operations are atomic, whoever calls them.                              *)
(***************************************************************************)
contents == [i \in 1 .. messages |-> storage[(readFrom + i) % Length]]

Abstract == INSTANCE BoundedQueue
    WITH buffer <- contents, Clients <- Tasks

RefinesBoundedQueue == Abstract!Spec

(* On its way back to the queue, whatever it finds there *)
Retries(t) ==
    \/ pc[t] \in {"try", "empty"}
    \/ pc[t] \in {"unlocktx", "unlockrx", "resume"} /\ then[t] \in {"try", "empty"}

Retrying(calls, list) ==
    {t \in Tasks : call[t] \in calls /\ t \notin ToSet(list) /\ Retries(t)}

Noted(count) == IF count > 0 THEN count ELSE 0

(***************************************************************************)
(* No wake-up is lost: while a receiver is left on the event list, there   *)
(* are at most as many items as receivers that are on their way to the     *)
(* queue and wake-ups that the lock count remembers. The same holds of     *)
(* senders and free places.                                                *)
(***************************************************************************)
NoStrandedReceiver ==
    toReceive # <<>> =>
        messages <= Cardinality(Retrying({"receive", "peek"}, toReceive)) + Noted(txLock)

NoStrandedSender ==
    toSend # <<>> =>
        Length - messages <= Cardinality(Retrying(Sends, toSend)) + Noted(rxLock)

NoStrandedWaiter == NoStrandedReceiver /\ NoStrandedSender

(***************************************************************************)
(* A task out of the ready lists is on one event list, or woken and        *)
(* pending, and a task on an event list is out of the ready lists but for  *)
(* the moment between vListInsert and prvAddCurrentTaskToDelayedList.      *)
(***************************************************************************)
NoTaskForgotten ==
    TypeOK /\ \A t \in Tasks :
        LET listed == Cardinality({i \in DOMAIN toReceive : toReceive[i] = t})
                      + Cardinality({i \in DOMAIN toSend : toSend[i] = t})
            out == \E c \in Cores : t \in delayed[c] \ pending[c]
        IN  listed = IF pc[t] = "delay" \/ out THEN 1 ELSE 0

(* Nobody leaves an event list of a queue that stays locked. *)
LeaveAlone ==
    /\ txLock # Unlocked /\ txLock' # Unlocked => ToSet(toReceive) \subseteq ToSet(toReceive')
    /\ rxLock # Unlocked /\ rxLock' # Unlocked => ToSet(toSend) \subseteq ToSet(toSend')

(***************************************************************************)
(* tasks.c:3077-3080: "If an event is for a queue that is locked then this *)
(* function will never get called - the lock count on the queue will get   *)
(* modified instead. This means exclusive access to the event list is      *)
(* guaranteed here." No task leaves an event list while it stays locked.   *)
(***************************************************************************)
LockedListsAreLeftAlone == [][LeaveAlone]_vars

(***************************************************************************)
(* A call with a finite block time by a task of the highest priority       *)
(* returns, however often the task is woken and finds that another was     *)
(* faster, and whatever lower tasks were about to do.                      *)
(***************************************************************************)
FiniteWaitReturns ==
    \A t \in Tasks :
        Foremost(t) => (pc[t] # "idle" /\ wait[t] = "some" ~> pc[t] = "idle")
=============================================================================

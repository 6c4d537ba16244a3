-------------------------------- MODULE Mutex -------------------------------
(***************************************************************************)
(* The mutexes of lib/freertos/queue.c with the priority inheritance of    *)
(* tasks.c, on one core: tasks take mutexes with and without a time limit, *)
(* plain or recursive, several at a time, and give them back.              *)
(*                                                                         *)
(* A critical section is one step, and so is what runs with the scheduler  *)
(* suspended, which no other task can look into and no handler touches:    *)
(* handlers may not use mutexes. The task that runs is one of the ready    *)
(* ones of highest priority (Scheduler), or one that has paid a priority   *)
(* back and not been made to yield; a task that sleeps lets those below it *)
(* run, and a tick may wake it before any step of theirs.                  *)
(***************************************************************************)
EXTENDS Integers, FiniteSets, SequencesExt

CONSTANTS
    Tasks, NoTask,
    Base,        \* Base[t]: uxBasePriority
    Mutexes,
    Recursive,   \* the mutexes that are recursive
    Uses,        \* Uses[t]: the mutexes t takes
    Waits,       \* the block times passed, a subset of WaitKinds
    MaxDepth     \* bound: how often a task takes a recursive mutex

WaitKinds == {"zero", "some", "max"}   \* 0, ticks, portMAX_DELAY

ASSUME MutexAssumption ==
    /\ NoTask \notin Tasks
    /\ Base \in [Tasks -> Nat]
    /\ IsFiniteSet(Mutexes) /\ Mutexes # {} /\ Recursive \subseteq Mutexes
    /\ Uses \in [Tasks -> SUBSET Mutexes]
    /\ Waits \subseteq WaitKinds /\ MaxDepth \in Nat \ {0}

VARIABLES
    holder,     \* pxMutexHolder; a mutex is free without one
    depth,      \* uxRecursiveCallCount
    waiters,    \* xTasksWaitingToReceive
    prio,       \* uxPriority, which the task's event item repeats
    held,       \* uxMutexesHeld
    pc,         \* where a task is
    want,       \* the mutex its call is about
    wait,       \* xTicksToWait
    late,       \* the block time has elapsed
    inherited,  \* xInheritanceOccurred
    runs        \* the task that runs on below a ready one, or NoTask

mutexes == <<holder, depth, waiters>>
priorities == <<prio, held>>
frame == <<want, wait, late, inherited>>
vars == <<mutexes, priorities, pc, frame, runs>>

Labels == {"idle", "asleep", "try", "block", "blocked", "expired", "disinherit", "fatal"}

AnyMutex == CHOOSE m \in Mutexes : TRUE

Init ==
    /\ holder = [m \in Mutexes |-> NoTask]
    /\ depth = [m \in Mutexes |-> 0]
    /\ waiters = [m \in Mutexes |-> <<>>]
    /\ prio = Base
    /\ held = [t \in Tasks |-> 0]
    /\ pc = [t \in Tasks |-> "idle"]
    /\ want = [t \in Tasks |-> AnyMutex]
    /\ wait = [t \in Tasks |-> "zero"]
    /\ late = [t \in Tasks |-> FALSE]
    /\ inherited = [t \in Tasks |-> FALSE]
    /\ runs = NoTask

-----------------------------------------------------------------------------
Ready == {t \in Tasks : pc[t] \notin {"asleep", "blocked"}}

(* A failed assertion ends the program (vPortFatal). *)
At(t, l) ==
    /\ pc[t] = l
    /\ \A u \in Ready : pc[u] # "fatal" /\ (t = runs \/ prio[u] <= prio[t])

Goto(t, l) == pc' = [pc EXCEPT ![t] = l]

Return(t) ==
    /\ Goto(t, "idle")
    /\ want' = [want EXCEPT ![t] = AnyMutex]
    /\ wait' = [wait EXCEPT ![t] = "zero"]
    /\ late' = [late EXCEPT ![t] = FALSE]
    /\ inherited' = [inherited EXCEPT ![t] = FALSE]

(* vTaskDelay, and a tick at its end *)
Sleep(t) ==
    /\ At(t, "idle")
    /\ Goto(t, "asleep")
    /\ UNCHANGED <<mutexes, priorities, frame>>

Wake(t) ==
    /\ pc[t] = "asleep"
    /\ Goto(t, "idle")
    /\ UNCHANGED <<mutexes, priorities, frame>>

-----------------------------------------------------------------------------
(* xQueueSemaphoreTake and xQueueTakeMutexRecursive *)

Take(t) ==
    /\ At(t, "idle")
    /\ \E m \in Uses[t], w \in Waits :
         /\ m \in Recursive => holder[m] # t
         /\ want' = [want EXCEPT ![t] = m]
         /\ wait' = [wait EXCEPT ![t] = w]
    /\ Goto(t, "try")
    /\ UNCHANGED <<mutexes, priorities, late, inherited>>

TakeAgain(t) ==
    /\ At(t, "idle")
    /\ \E m \in Recursive :
         /\ holder[m] = t
         /\ depth[m] < MaxDepth
         /\ depth' = [depth EXCEPT ![m] = @ + 1]
    /\ UNCHANGED <<holder, waiters, priorities, pc, frame>>

(* The mutex is not counted among those its taker holds. *)
ObtainUncounted(t) ==
    /\ At(t, "try") /\ holder[want[t]] = NoTask
    /\ holder' = [holder EXCEPT ![want[t]] = t]
    /\ depth' = [depth EXCEPT ![want[t]] = 1]
    /\ Return(t)
    /\ UNCHANGED <<waiters, priorities>>

(* The critical section: the mutex is taken ... *)
Obtain(t) ==
    /\ At(t, "try") /\ holder[want[t]] = NoTask
    /\ holder' = [holder EXCEPT ![want[t]] = t]
    /\ depth' = [depth EXCEPT ![want[t]] = 1]
    /\ held' = [held EXCEPT ![t] = @ + 1]
    /\ Return(t)
    /\ UNCHANGED <<waiters, prio>>

(* ... or no time is left, and then no priority was inherited ... *)
Refuse(t) ==
    /\ At(t, "try") /\ holder[want[t]] # NoTask /\ wait[t] = "zero"
    /\ IF inherited[t]
         THEN Goto(t, "fatal") /\ UNCHANGED frame
         ELSE Return(t)
    /\ UNCHANGED <<mutexes, priorities>>

(* ... or the task is going to wait. *)
Prepare(t) ==
    /\ At(t, "try") /\ holder[want[t]] # NoTask /\ wait[t] # "zero"
    /\ Goto(t, "block")
    /\ UNCHANGED <<mutexes, priorities, frame>>

(* vListInsert: behind those whose items say the same or a higher priority *)
PlaceIn(list, t, p) ==
    CHOOSE i \in 1 .. Len(list) + 1 :
        /\ \A j \in 1 .. i - 1 : p[list[j]] >= p[t]
        /\ i <= Len(list) => p[list[i]] < p[t]

Insert(list, t, p) == InsertAt(list, PlaceIn(list, t, p), t)

(* xTaskPriorityInherit; the items of a list are not sorted anew. *)
Raised(t, h) == [prio EXCEPT ![h] = IF @ < prio[t] THEN prio[t] ELSE @]

Inherit(t, h) ==
    /\ inherited' = [inherited EXCEPT ![t] = prio[h] < prio[t] \/ Base[h] < prio[t]]
    /\ prio' = Raised(t, h)

(* With the scheduler suspended: the call may be late, ... *)
GiveUp(t) ==
    /\ At(t, "block") /\ late[t]
    /\ wait' = [wait EXCEPT ![t] = "zero"]
    /\ Goto(t, "expired")
    /\ UNCHANGED <<mutexes, priorities, want, late, inherited>>

(* ... the mutex may be free by now, ... *)
TryAgain(t) ==
    /\ At(t, "block") /\ ~late[t] /\ holder[want[t]] = NoTask
    /\ Goto(t, "try")
    /\ UNCHANGED <<mutexes, priorities, frame>>

(* ... or its holder inherits and the task waits. *)
Block(t) ==
    /\ At(t, "block") /\ ~late[t] /\ holder[want[t]] # NoTask
    /\ Inherit(t, holder[want[t]])
    /\ waiters' = [waiters EXCEPT ![want[t]] = Insert(@, t, Raised(t, holder[want[t]]))]
    /\ Goto(t, "blocked")
    /\ UNCHANGED <<holder, depth, held, want, wait, late>>

(* uxListRemove, of an item that may be in a list *)
Unlink(list, t) ==
    IF \E i \in DOMAIN list : list[i] = t
      THEN RemoveAt(list, CHOOSE i \in DOMAIN list : list[i] = t)
      ELSE list

(* Ticks: the block time elapses, before, while or after the task waits. *)
Elapse(t) ==
    /\ pc[t] \in {"try", "block", "blocked"} /\ wait[t] = "some" /\ ~late[t]
    /\ late' = [late EXCEPT ![t] = TRUE]
    /\ waiters' = [waiters EXCEPT ![want[t]] = Unlink(@, t)]
    /\ Goto(t, IF pc[t] = "blocked" THEN "try" ELSE pc[t])
    /\ UNCHANGED <<holder, depth, priorities, want, wait, inherited>>

-----------------------------------------------------------------------------
(* After the time limit: prvIsQueueEmpty, in a critical section of its own *)
Expired(t) ==
    /\ At(t, "expired")
    /\ CASE holder[want[t]] = NoTask -> Goto(t, "try") /\ UNCHANGED frame
         [] holder[want[t]] # NoTask /\ inherited[t] -> Goto(t, "disinherit") /\ UNCHANGED frame
         [] holder[want[t]] # NoTask /\ ~inherited[t] -> Return(t)
    /\ UNCHANGED <<mutexes, priorities>>

(* prvGetDisinheritPriorityAfterTimeout; tskIDLE_PRIORITY is 0. *)
HighestWaiting(m) == IF waiters[m] = <<>> THEN 0 ELSE prio[Head(waiters[m])]

(* The others that wait are not looked at. *)
DisinheritToBase(t) ==
    /\ At(t, "disinherit")
    /\ LET h == holder[want[t]]
       IN  prio' = [u \in Tasks |-> IF u = h /\ held[u] = 1 THEN Base[u] ELSE prio[u]]
    /\ Return(t)
    /\ UNCHANGED <<mutexes, held>>

(* vTaskPriorityDisinheritAfterTimeout, for whoever holds the mutex now *)
DisinheritLate(t) ==
    /\ At(t, "disinherit")
    /\ LET h == holder[want[t]]
           above == HighestWaiting(want[t])
           use == IF h # NoTask /\ Base[h] < above THEN above ELSE Base[h]
           change == h # NoTask /\ prio[h] # use /\ held[h] = 1
       IN  /\ prio' = IF change THEN [prio EXCEPT ![h] = use] ELSE prio
           /\ IF h # NoTask /\ (held[h] = 0 \/ (change /\ h = t))
                THEN Goto(t, "fatal") /\ UNCHANGED frame
                ELSE Return(t)
    /\ UNCHANGED <<mutexes, held>>

-----------------------------------------------------------------------------
(* xQueueGenericSend and xQueueGiveMutexRecursive, by the holder *)

GiveOne(t) ==
    /\ At(t, "idle")
    /\ \E m \in Mutexes :
         /\ holder[m] = t /\ depth[m] > 1
         /\ depth' = [depth EXCEPT ![m] = @ - 1]
    /\ UNCHANGED <<holder, waiters, priorities, pc, frame>>

(* The count is looked at before it is decremented. *)
DisinheritUncounted(t) ==
    /\ held' = [held EXCEPT ![t] = @ - 1]
    /\ prio' = [prio EXCEPT ![t] = IF held[t] = 0 THEN Base[t] ELSE @]

(* xTaskPriorityDisinherit: "Only disinherit if no other mutexes are held" *)
Disinherit(t) ==
    /\ held' = [held EXCEPT ![t] = @ - 1]
    /\ prio' = [prio EXCEPT ![t] = IF held[t] = 1 THEN Base[t] ELSE @]

(* A switch is requested for a woken task that is above the giver now, and *)
(* when nobody was waiting for a priority paid back. Without one the giver *)
(* runs on, whoever else is ready.                                         *)
Yields(t, m) ==
    IF waiters[m] = <<>>
      THEN prio'[t] # prio[t]
      ELSE prio[Head(waiters[m])] > prio'[t]

RunsOn(t, m) ==
    runs' = IF ~Yields(t, m) /\ \E u \in Ready : prio[u] > prio'[t] THEN t ELSE NoTask

(* A waiter is woken only if it will run at once. *)
GiveToHigher(t) ==
    /\ At(t, "idle")
    /\ Disinherit(t)
    /\ \E m \in Mutexes :
         /\ holder[m] = t /\ depth[m] = 1
         /\ holder' = [holder EXCEPT ![m] = NoTask]
         /\ depth' = [depth EXCEPT ![m] = 0]
         /\ IF waiters[m] = <<>> \/ prio[Head(waiters[m])] < prio[t]
              THEN UNCHANGED <<waiters, pc>>
              ELSE /\ waiters' = [waiters EXCEPT ![m] = Tail(@)]
                   /\ Goto(Head(waiters[m]), "try")
         /\ RunsOn(t, m)
    /\ UNCHANGED frame

Give(t) ==
    /\ At(t, "idle")
    /\ Disinherit(t)
    /\ \E m \in Mutexes :
         /\ holder[m] = t /\ depth[m] = 1
         /\ holder' = [holder EXCEPT ![m] = NoTask]
         /\ depth' = [depth EXCEPT ![m] = 0]
         /\ IF waiters[m] = <<>>
              THEN UNCHANGED <<waiters, pc>>
              ELSE /\ waiters' = [waiters EXCEPT ![m] = Tail(@)]
                   /\ Goto(Head(waiters[m]), "try")
         /\ RunsOn(t, m)
    /\ UNCHANGED frame

-----------------------------------------------------------------------------
Step(t) ==
    \/ Obtain(t) \/ Refuse(t) \/ Prepare(t) \/ GiveUp(t) \/ TryAgain(t) \/ Block(t)
    \/ Expired(t) \/ DisinheritLate(t)

(* The task that runs on does so until it sleeps, another one has the core *)
(* or a tick wakes one that is not below it.                               *)
Keeps(t) ==
    runs' = IF t = runs /\ pc'[t] \notin {"asleep", "blocked", "fatal"} THEN t ELSE NoTask

Ticks(t) ==
    runs' = IF t \notin Ready /\ runs # NoTask /\ prio[t] >= prio[runs] THEN NoTask ELSE runs

Next == \E t \in Tasks :
    \/ Give(t)
    \/ (Wake(t) \/ Elapse(t)) /\ Ticks(t)
    \/ (Sleep(t) \/ Take(t) \/ TakeAgain(t) \/ GiveOne(t) \/ Step(t)) /\ Keeps(t)

Spec == Init /\ [][Next]_vars
-----------------------------------------------------------------------------
(* A mutex is in at most one hand, and each task knows how many it holds. *)
DataOK ==
    /\ holder \in [Mutexes -> Tasks \cup {NoTask}]
    /\ depth \in [Mutexes -> 0 .. MaxDepth] /\ waiters \in [Mutexes -> Seq(Tasks)]
    /\ \A m \in Mutexes :
         /\ depth[m] = 0 <=> holder[m] = NoTask
         /\ ToSet(waiters[m]) = {t \in Tasks : pc[t] = "blocked" /\ want[t] = m}
    /\ held = [t \in Tasks |-> Cardinality({m \in Mutexes : holder[m] = t})]
    /\ prio \in [Tasks -> Nat]
    /\ late \in [Tasks -> BOOLEAN] /\ inherited \in [Tasks -> BOOLEAN]
    /\ pc \in [Tasks -> Labels] /\ want \in [Tasks -> Mutexes] /\ wait \in [Tasks -> WaitKinds]

TypeOK == DataOK /\ runs \in Tasks \cup {NoTask}

(***************************************************************************)
(* What inheritance is for: a task that waits for a mutex is never kept    *)
(* waiting by tasks below it, because the holder runs at the base priority *)
(* of each of those that wait, or above, whoever has timed out meanwhile.  *)
(* prvGetDisinheritPriorityAfterTimeout says so: "only down to the highest *)
(* priority of any other tasks that are waiting for the same mutex". It    *)
(* holds as long as no priority sinks while its task waits, which takes    *)
(* another mutex: the list of those that wait is not sorted anew, and the  *)
(* mutex goes to the task at its head (MCMutexNested).                     *)
(***************************************************************************)
HolderInherits ==
    \A m \in Mutexes : holder[m] # NoTask =>
        \A t \in ToSet(waiters[m]) : prio[holder[m]] >= Base[t]

(***************************************************************************)
(* tasks.c: "A task can only have an inherited priority if it holds the    *)
(* mutex." No task keeps a borrowed priority without one, and none runs    *)
(* below its own. The count of the mutexes a task holds, by which the code *)
(* decides, is right, and who waits is on one list (TypeOK).               *)
(***************************************************************************)
PriorityIsPaidBack ==
    TypeOK /\ \A t \in Tasks : prio[t] >= Base[t] /\ (held[t] = 0 => prio[t] = Base[t])

(***************************************************************************)
(* A mutex that is free is not forgotten: while tasks wait for it, another *)
(* one has been woken, or is trying, and will take it or wake one of them. *)
(***************************************************************************)
FreeMutexIsOffered ==
    \A m \in Mutexes :
        holder[m] = NoTask /\ waiters[m] # <<>>
          => \E t \in Tasks : want[t] = m /\ pc[t] = "try"

(***************************************************************************)
(* tasks.c:4102 "If a task has timed out because it already holds the      *)
(* mutex it was trying to obtain then it cannot of inherited its own       *)
(* priority." Neither this assertion nor the ones at queue.c:1487 and on   *)
(* the way out of a late call fails, as far as the code says. One does: a  *)
(* task that has inherited, asks for the mutex it holds and is late, finds *)
(* that it inherited from itself. MCMutexAssert.cfg shows it.              *)
(***************************************************************************)
AssertionsHold == \A t \in Tasks : pc[t] # "fatal"
=============================================================================

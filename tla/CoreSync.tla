------------------------------ MODULE CoreSync ------------------------------
(***************************************************************************)
(* How the two cores talk: the mailbox of lib/freertos/core_sync.c (one    *)
(* event word, one pending task and one lock per core, announced by an     *)
(* inter-processor interrupt), the critical sections of                    *)
(* lib/freertos/portable/port.c and tasks.c that surround it, and the      *)
(* creation of tasks and the yields that use it.                           *)
(*                                                                         *)
(* A core runs one thread, standing for whichever task the scheduler has   *)
(* picked (a task is switched out only where the thread is at "run" or     *)
(* interruptible), and its software-interrupt handler on top of it. The    *)
(* handler can itself be interrupted where it has interrupts enabled:      *)
(* crt.S stacks the handlers of a core.                                    *)
(* xCoreLock is the abstract RecursiveLock that CoreLock implements.       *)
(***************************************************************************)
EXTENDS Naturals, Sequences

CONSTANTS Cores,     \* the harts
          Tasks,     \* the tasks that get created
          NoTask,    \* NULL
          NoCore,    \* the owner of a free mailbox lock
          By,        \* By[t]: the core whose thread creates t
          On,        \* On[t]: the core t is created on
          Early,     \* tasks created before By[t]'s scheduler runs
          Yielders   \* the cores whose threads yield

ASSUME NoneAssumption == NoTask \notin Tasks /\ NoCore \notin Cores
ASSUME PlanAssumption ==
    /\ By \in [Tasks -> Cores]
    /\ On \in [Tasks -> Cores]
    /\ Early \subseteq {t \in Tasks : By[t] = On[t]}
    /\ Yielders \subseteq Cores

VARIABLES
    mie,        \* mstatus.MIE of a core: interrupts are taken
    msip,       \* clint->msip: an inter-processor interrupt is pending
    running,    \* xSchedulerRunning
    nesting,    \* uxCriticalNesting of the core's current task
    coreLock,   \* xCoreLock: nested acquisitions per core
    syncLock,   \* s_core_sync_locks: the core holding each
    event,      \* s_core_sync_events
    slot,       \* s_pending_to_add_tasks
    ready,      \* pxReadyTasksLists, as a set of tasks
    pc,         \* where the thread of a core is
    op,         \* what that thread is doing
    hand,       \* the task that thread is creating
    irq,        \* where the handler of a core is
    irqTask,    \* the task the handler has fetched
    outer,      \* the handlers it has interrupted, the last one first
    created     \* history: the tasks whose creation has begun

thread == <<pc, op, hand>>
handler == <<irq, irqTask, outer>>
mailbox == <<event, slot, syncLock, msip>>
vars == <<mie, running, nesting, coreLock, ready, thread, handler, mailbox,
          created>>

Events == {"NONE", "ADD_TCB", "SWITCH_CONTEXT"}

(***************************************************************************)
(* "local" and "remote" create a task on this and on the other core,       *)
(* "yield" is vPortYield, "wake" a kernel call that yields inside its      *)
(* critical section (queueYIELD_IF_USING_PREEMPTION of queue.c) and        *)
(* "nested" that yield.                                                    *)
(***************************************************************************)
Ops == {"local", "remote", "yield", "wake", "nested"}

Labels == {"run", "enter", "lock", "add", "sync", "poll", "slot", "event",
           "ipi", "unsync", "unlock", "exit"}

IrqLabels == {"none", "clear", "switch", "fetch", "enter", "lock", "add",
              "null", "unlock", "exit", "complete", "return"}

(* A handler that has been interrupted: its saved context *)
Frames == [at : IrqLabels, task : Tasks \cup {NoTask}]

CoreLk == INSTANCE RecursiveLock WITH depth <- coreLock

Goto(c, l) == pc' = [pc EXCEPT ![c] = l]
IrqGoto(c, l) == irq' = [irq EXCEPT ![c] = l]

Init ==
    /\ mie = [c \in Cores |-> TRUE]
    /\ msip = [c \in Cores |-> FALSE]
    /\ running = [c \in Cores |-> FALSE]
    /\ nesting = [c \in Cores |-> 0]
    /\ coreLock = [c \in Cores |-> 0]
    /\ syncLock = [c \in Cores |-> NoCore]
    /\ event = [c \in Cores |-> "NONE"]
    /\ slot = [c \in Cores |-> NoTask]
    /\ ready = [c \in Cores |-> {}]
    /\ pc = [c \in Cores |-> "run"]
    /\ op = [c \in Cores |-> "local"]
    /\ hand = [c \in Cores |-> NoTask]
    /\ irq = [c \in Cores |-> "none"]
    /\ irqTask = [c \in Cores |-> NoTask]
    /\ outer = [c \in Cores |-> <<>>]
    /\ created = {}

-----------------------------------------------------------------------------
(* Faults: what an action would be with a plausible bug. No specification  *)
(* uses them; each shows that a property tells the bug from the code.      *)

(* xSchedulerRunning and the nesting are not looked at. *)
ExitUnchecked(c) ==
    /\ nesting' = [nesting EXCEPT ![c] = @ - 1]
    /\ mie' = [mie EXCEPT ![c] = TRUE]

(* corelock_lock(&xCoreLock) is missing before the lists are updated. *)
LockNothing(c) ==
    /\ pc[c] = "lock" /\ irq[c] = "none" /\ ~(mie[c] /\ msip[c])
    /\ Goto(c, CASE op[c] = "local" -> "add"
                 [] op[c] = "remote" -> "sync"
                 [] op[c] = "wake" -> "enter")
    /\ op' = [op EXCEPT ![c] = IF @ = "wake" THEN "nested" ELSE @]
    /\ UNCHANGED <<mie, running, nesting, coreLock, ready, hand, handler,
                   mailbox, created>>

(* The mailbox is not waited for. *)
PollNothing(c) ==
    /\ pc[c] = "poll" /\ irq[c] = "none" /\ ~(mie[c] /\ msip[c])
    /\ Goto(c, IF op[c] = "remote" THEN "slot" ELSE "event")
    /\ UNCHANGED <<mie, running, nesting, coreLock, ready, op, hand,
                   handler, mailbox, created>>

(* The event is posted without its task. *)
PostNothing(c) ==
    /\ pc[c] = "slot" /\ irq[c] = "none" /\ ~(mie[c] /\ msip[c])
    /\ Goto(c, "event")
    /\ UNCHANGED <<mie, running, nesting, coreLock, ready, op, hand,
                   handler, mailbox, created>>

(* The interrupt goes to the sender. *)
SendIpiToSelf(c) ==
    /\ pc[c] = "ipi" /\ irq[c] = "none" /\ ~(mie[c] /\ msip[c])
    /\ msip' = [msip EXCEPT ![c] = TRUE]
    /\ Goto(c, "unsync")
    /\ UNCHANGED <<mie, running, nesting, coreLock, ready, op, hand,
                   handler, event, slot, syncLock, created>>

(* The interrupt is not cleared. *)
ClearNothing(c) ==
    /\ irq[c] = "clear" /\ ~(mie[c] /\ msip[c])
    /\ IrqGoto(c, "switch")
    /\ UNCHANGED <<mie, running, nesting, coreLock, ready, thread,
                   irqTask, outer, mailbox, created>>

-----------------------------------------------------------------------------
(* vTaskEnterCritical and vTaskExitCritical: nothing before the scheduler. *)

EnterCritical(c) ==
    /\ mie' = [mie EXCEPT ![c] = @ /\ ~running[c]]
    /\ nesting' = [nesting EXCEPT ![c] = IF running[c] THEN @ + 1 ELSE @]

ExitCritical(c) ==
    /\ nesting' = [nesting EXCEPT ![c] =
                     IF running[c] /\ @ > 0 THEN @ - 1 ELSE @]
    /\ mie' = [mie EXCEPT ![c] = @ \/ (running[c] /\ nesting[c] = 1)]

-----------------------------------------------------------------------------
(* The thread. It runs while no handler runs on its core, and an enabled   *)
(* pending interrupt is taken before its next step: a core checks for one  *)
(* on every write of mstatus.                                              *)

TrapDue(c) == mie[c] /\ msip[c]

At(c, l) == pc[c] = l /\ irq[c] = "none" /\ ~TrapDue(c)

(* The core the thread posts to. *)
Target(c) == IF op[c] = "remote" THEN On[hand[c]] ELSE c

(* xTaskCreateAtProcessor, up to prvAddNewTaskToReadyList *)
CreateTask(c) ==
    /\ At(c, "run")
    /\ \E t \in Tasks \ created :
         /\ By[t] = c
         /\ running[c] <=> t \notin Early
         /\ created' = created \cup {t}
         /\ hand' = [hand EXCEPT ![c] = t]
         /\ op' = [op EXCEPT ![c] = IF On[t] = c THEN "local" ELSE "remote"]
    /\ Goto(c, "enter")
    /\ UNCHANGED <<mie, running, nesting, coreLock, ready, handler, mailbox>>

(* vPortYield outside, and a kernel call that yields inside, its section *)
StartYield(c) ==
    /\ At(c, "run")
    /\ c \in Yielders /\ running[c]
    /\ \E o \in {"yield", "wake"} : op' = [op EXCEPT ![c] = o]
    /\ Goto(c, "enter")
    /\ UNCHANGED <<mie, running, nesting, coreLock, ready, hand, handler,
                   mailbox, created>>

(* vTaskStartScheduler once its idle task exists *)
StartScheduler(c) ==
    /\ At(c, "run") /\ ~running[c]
    /\ \A t \in Early : By[t] = c => t \in ready[c]
    /\ running' = [running EXCEPT ![c] = TRUE]
    /\ UNCHANGED <<mie, nesting, coreLock, ready, thread, handler,
                   mailbox, created>>

(* vTaskEnterCritical; core_sync_request takes no xCoreLock. *)
Enter(c) ==
    /\ At(c, "enter")
    /\ EnterCritical(c)
    /\ Goto(c, IF op[c] \in {"yield", "nested"} THEN "sync" ELSE "lock")
    /\ UNCHANGED <<running, coreLock, ready, op, hand, handler, mailbox,
                   created>>

(* corelock_lock(&xCoreLock) *)
Lock(c) ==
    /\ At(c, "lock")
    /\ CoreLk!Acquire(c)
    /\ Goto(c, CASE op[c] = "local" -> "add"
                 [] op[c] = "remote" -> "sync"
                 [] op[c] = "wake" -> "enter")
    /\ op' = [op EXCEPT ![c] = IF @ = "wake" THEN "nested" ELSE @]
    /\ UNCHANGED <<mie, running, nesting, ready, hand, handler, mailbox,
                   created>>

(* vAddNewTaskToCurrentReadyList: the lists of this core *)
Add(c) ==
    /\ At(c, "add")
    /\ ready' = [ready EXCEPT ![c] = @ \cup {hand[c]}]
    /\ hand' = [hand EXCEPT ![c] = NoTask]
    /\ Goto(c, "unlock")
    /\ UNCHANGED <<mie, running, nesting, coreLock, op, handler, mailbox,
                   created>>

(* corelock_lock(&s_core_sync_locks[core_id]) *)
Sync(c) ==
    /\ At(c, "sync")
    /\ syncLock[Target(c)] = NoCore
    /\ syncLock' = [syncLock EXCEPT ![Target(c)] = c]
    /\ Goto(c, "poll")
    /\ UNCHANGED <<mie, running, nesting, coreLock, ready, op, hand,
                   handler, event, slot, msip, created>>

(* while (s_core_sync_events[core_id] != CORE_SYNC_NONE) *)
Poll(c) ==
    /\ At(c, "poll")
    /\ event[Target(c)] = "NONE"
    /\ Goto(c, IF op[c] = "remote" THEN "slot" ELSE "event")
    /\ UNCHANGED <<mie, running, nesting, coreLock, ready, op, hand,
                   handler, mailbox, created>>

PostTask(c) ==
    /\ At(c, "slot")
    /\ slot' = [slot EXCEPT ![Target(c)] = hand[c]]
    /\ Goto(c, "event")
    /\ UNCHANGED <<mie, running, nesting, coreLock, ready, op, hand,
                   handler, event, syncLock, msip, created>>

PostEvent(c) ==
    /\ At(c, "event")
    /\ event' = [event EXCEPT ![Target(c)] =
                   IF op[c] = "remote" THEN "ADD_TCB" ELSE "SWITCH_CONTEXT"]
    /\ Goto(c, "ipi")
    /\ UNCHANGED <<mie, running, nesting, coreLock, ready, op, hand,
                   handler, slot, syncLock, msip, created>>

(* clint_ipi_send *)
SendIpi(c) ==
    /\ At(c, "ipi")
    /\ msip' = [msip EXCEPT ![Target(c)] = TRUE]
    /\ Goto(c, "unsync")
    /\ UNCHANGED <<mie, running, nesting, coreLock, ready, op, hand,
                   handler, event, slot, syncLock, created>>

(* corelock_unlock(&s_core_sync_locks[core_id]) *)
Unsync(c) ==
    /\ At(c, "unsync")
    /\ syncLock' = [syncLock EXCEPT ![Target(c)] = NoCore]
    /\ hand' = [hand EXCEPT ![c] = NoTask]
    /\ Goto(c, IF op[c] = "remote" THEN "unlock" ELSE "exit")
    /\ UNCHANGED <<mie, running, nesting, coreLock, ready, op, handler,
                   event, slot, msip, created>>

(* corelock_unlock(&xCoreLock) *)
Unlock(c) ==
    /\ At(c, "unlock")
    /\ CoreLk!Release(c)
    /\ Goto(c, "exit")
    /\ UNCHANGED <<mie, running, nesting, ready, op, hand, handler,
                   mailbox, created>>

(***************************************************************************)
(* vTaskExitCritical. A local creation yields if the new task's priority   *)
(* is higher; the yield inside a kernel call returns to that call.         *)
(***************************************************************************)
Exit(c) ==
    /\ At(c, "exit")
    /\ ExitCritical(c)
    /\ \/ /\ op[c] = "nested"
          /\ Goto(c, "unlock")
          /\ op' = [op EXCEPT ![c] = "wake"]
       \/ /\ op[c] = "local" /\ running[c] /\ c \in Yielders
          /\ Goto(c, "enter")
          /\ op' = [op EXCEPT ![c] = "yield"]
       \/ /\ op[c] # "nested"
          /\ Goto(c, "run")
          /\ UNCHANGED op
    /\ UNCHANGED <<running, coreLock, ready, hand, handler, mailbox, created>>

-----------------------------------------------------------------------------
(* handle_irq_m_soft, on the stack of interrupts of its core.              *)

IrqAt(c, l) == irq[c] = l /\ ~TrapDue(c)

(***************************************************************************)
(* trap_entry: the core clears MIE, saves the context of the thread or of  *)
(* the handler it interrupts, and enters the handler.                      *)
(***************************************************************************)
Trap(c) ==
    /\ TrapDue(c)
    /\ mie' = [mie EXCEPT ![c] = FALSE]
    /\ outer' = [outer EXCEPT ![c] =
                   IF irq[c] = "none" THEN @
                   ELSE <<[at |-> irq[c], task |-> irqTask[c]]>> \o @]
    /\ irqTask' = [irqTask EXCEPT ![c] = NoTask]
    /\ IrqGoto(c, "clear")
    /\ UNCHANGED <<running, nesting, coreLock, ready, thread, mailbox,
                   created>>

(* clint_ipi_clear, then the switch on the event *)
ClearIpi(c) ==
    /\ IrqAt(c, "clear")
    /\ msip' = [msip EXCEPT ![c] = FALSE]
    /\ IrqGoto(c, "switch")
    /\ UNCHANGED <<mie, running, nesting, coreLock, ready, thread,
                   irqTask, outer, event, slot, syncLock, created>>

(* vTaskSwitchContext changes the task the thread stands for, no more. *)
SwitchEvent(c) ==
    /\ IrqAt(c, "switch")
    /\ IrqGoto(c, IF event[c] = "ADD_TCB" THEN "fetch" ELSE "complete")
    /\ UNCHANGED <<mie, running, nesting, coreLock, ready, thread,
                   irqTask, outer, mailbox, created>>

FetchTask(c) ==
    /\ IrqAt(c, "fetch")
    /\ irqTask' = [irqTask EXCEPT ![c] = slot[c]]
    /\ IrqGoto(c, IF slot[c] = NoTask THEN "complete" ELSE "enter")
    /\ UNCHANGED <<mie, running, nesting, coreLock, ready, thread, outer,
                   mailbox, created>>

(* taskENTER_CRITICAL of vAddNewTaskToCurrentReadyList *)
IrqEnter(c) ==
    /\ IrqAt(c, "enter")
    /\ EnterCritical(c)
    /\ IrqGoto(c, "lock")
    /\ UNCHANGED <<running, coreLock, ready, thread, irqTask, outer,
                   mailbox, created>>

IrqLock(c) ==
    /\ IrqAt(c, "lock")
    /\ CoreLk!Acquire(c)
    /\ IrqGoto(c, "add")
    /\ UNCHANGED <<mie, running, nesting, ready, thread, irqTask, outer,
                   mailbox, created>>

IrqAdd(c) ==
    /\ IrqAt(c, "add")
    /\ ready' = [ready EXCEPT ![c] = @ \cup {irqTask[c]}]
    /\ IrqGoto(c, "unlock")
    /\ UNCHANGED <<mie, running, nesting, coreLock, thread, irqTask, outer,
                   mailbox, created>>

IrqUnlock(c) ==
    /\ IrqAt(c, "unlock")
    /\ CoreLk!Release(c)
    /\ IrqGoto(c, "exit")
    /\ UNCHANGED <<mie, running, nesting, ready, thread, irqTask, outer,
                   mailbox, created>>

(* vTaskExitCritical: it enables interrupts inside the handler. *)
IrqExit(c) ==
    /\ IrqAt(c, "exit")
    /\ ExitCritical(c)
    /\ IrqGoto(c, "null")
    /\ UNCHANGED <<running, coreLock, ready, thread, irqTask, outer,
                   mailbox, created>>

(* atomic_set(&s_pending_to_add_tasks[core_id], NULL) *)
NullSlot(c) ==
    /\ IrqAt(c, "null")
    /\ slot' = [slot EXCEPT ![c] = NoTask]
    /\ IrqGoto(c, "complete")
    /\ UNCHANGED <<mie, running, nesting, coreLock, ready, thread,
                   irqTask, outer, event, syncLock, msip, created>>

(* core_sync_complete; interrupts stay as IrqExit has left them. *)
Complete(c) ==
    /\ IrqAt(c, "complete")
    /\ event' = [event EXCEPT ![c] = "NONE"]
    /\ irqTask' = [irqTask EXCEPT ![c] = NoTask]
    /\ IrqGoto(c, "return")
    /\ UNCHANGED <<mie, running, nesting, coreLock, ready, thread, outer,
                   slot, syncLock, msip, created>>

(***************************************************************************)
(* The end of trap_entry: interrupts are off from its csrc to its mret,    *)
(* which goes back to the interrupted handler, or to the thread.           *)
(***************************************************************************)
Return(c) ==
    /\ IrqAt(c, "return")
    /\ mie' = [mie EXCEPT ![c] = TRUE]
    /\ \/ /\ outer[c] = <<>>
          /\ IrqGoto(c, "none")
          /\ UNCHANGED <<irqTask, outer>>
       \/ /\ outer[c] # <<>>
          /\ IrqGoto(c, Head(outer[c]).at)
          /\ irqTask' = [irqTask EXCEPT ![c] = Head(outer[c]).task]
          /\ outer' = [outer EXCEPT ![c] = Tail(@)]
    /\ UNCHANGED <<running, nesting, coreLock, ready, thread, mailbox,
                   created>>

-----------------------------------------------------------------------------
Handler(c) ==
    \/ Trap(c) \/ ClearIpi(c) \/ SwitchEvent(c) \/ FetchTask(c) \/ IrqEnter(c)
    \/ IrqLock(c) \/ IrqAdd(c) \/ IrqUnlock(c) \/ IrqExit(c) \/ NullSlot(c)
    \/ Complete(c) \/ Return(c)

Thread(c) ==
    \/ Enter(c) \/ Lock(c) \/ Add(c) \/ Sync(c) \/ Poll(c) \/ PostTask(c)
    \/ PostEvent(c) \/ SendIpi(c) \/ Unsync(c) \/ Unlock(c) \/ Exit(c)

Next == \E c \in Cores :
    \/ CreateTask(c) \/ StartYield(c) \/ StartScheduler(c)
    \/ Thread(c) \/ Handler(c)

Spec == Init /\ [][Next]_vars

(***************************************************************************)
(* Each core runs. Spin locks and the mailbox are granted under strong     *)
(* fairness: what follows must not be blamed on starvation in a spin loop. *)
(***************************************************************************)
Fairness == \A c \in Cores : SF_vars(Thread(c)) /\ SF_vars(Handler(c))

LiveSpec == Spec /\ Fairness

-----------------------------------------------------------------------------
StackTypeOK == outer \in [Cores -> Seq(Frames)]

TypeOK ==
    /\ mie \in [Cores -> BOOLEAN]
    /\ msip \in [Cores -> BOOLEAN]
    /\ running \in [Cores -> BOOLEAN]
    /\ nesting \in [Cores -> Nat]
    /\ coreLock \in [Cores -> Nat]
    /\ syncLock \in [Cores -> Cores \cup {NoCore}]
    /\ event \in [Cores -> Events]
    /\ slot \in [Cores -> Tasks \cup {NoTask}]
    /\ ready \in [Cores -> SUBSET Tasks]
    /\ pc \in [Cores -> Labels]
    /\ op \in [Cores -> Ops]
    /\ hand \in [Cores -> Tasks \cup {NoTask}]
    /\ irq \in [Cores -> IrqLabels]
    /\ irqTask \in [Cores -> Tasks \cup {NoTask}]
    /\ StackTypeOK
    /\ created \in SUBSET Tasks

(***************************************************************************)
(* No creation is lost or misplaced on its way to the other core's lists:  *)
(* a created task is in its creator's hand, in the mailbox of its core or  *)
(* in that core's lists, and nobody inserts it into a list twice.          *)
(***************************************************************************)
CreatedArrive ==
    /\ \A t \in created : \/ hand[By[t]] = t
                          \/ slot[On[t]] = t
                          \/ t \in ready[On[t]]
    /\ \A c, d \in Cores :
         /\ pc[c] = "add" => hand[c] \notin ready[d]
         /\ irq[c] = "add" => irqTask[c] \notin ready[d]

(***************************************************************************)
(* No wake-up is lost: a posted event has its interrupt pending, or its    *)
(* handler is past the clearing of that interrupt, or its poster is about  *)
(* to raise it; and no interrupt is raised for nothing.                    *)
(***************************************************************************)
EventAnnounced ==
    \A c \in Cores :
        /\ event[c] # "NONE" /\ ~msip[c] =>
             \/ irq[c] \notin {"none", "clear", "return"}
             \/ \E d \in Cores : pc[d] = "ipi" /\ Target(d) = c
        /\ msip[c] => event[c] # "NONE"

(***************************************************************************)
(* An ADD_TCB event comes with its task until the handler has taken it,    *)
(* so the handler's NULL test never drops a request.                       *)
(***************************************************************************)
AddCarriesTask ==
    \A c \in Cores :
        event[c] = "ADD_TCB" /\ irq[c] # "complete" => slot[c] # NoTask

(***************************************************************************)
(* vTaskExitCritical enables interrupts inside the handler, and a polling  *)
(* core posts again as soon as core_sync_complete has emptied the mailbox: *)
(* the handler is entered on top of itself, but only when the one below is *)
(* done with its event and its task.                                       *)
(***************************************************************************)
ReenteredWhenDone ==
    \A c \in Cores :
        /\ msip[c] => irq[c] \in {"none", "clear", "return"}
        /\ \A i \in DOMAIN outer[c] : outer[c][i].at = "return"

(***************************************************************************)
(* No creation is lost on its way to the other core's lists, whatever the  *)
(* order in which sender and handler touch event, task slot and interrupt; *)
(* critical sections, which guard it, nest and end in pairs (TypeOK).      *)
(***************************************************************************)
TasksDelivered ==
    TypeOK /\ CreatedArrive /\ EventAnnounced /\ AddCarriesTask
    /\ ReenteredWhenDone

UpdatesLists(c) == pc[c] = "add"
IrqUpdatesLists(c) == irq[c] = "add"

(***************************************************************************)
(* Scheduler lists are updated by one context at a time: never by two      *)
(* cores, and never by a handler on top of the thread it interrupted, not  *)
(* even before the scheduler runs, when critical sections leave interrupts *)
(* enabled and xCoreLock lets the same core in again.                      *)
(***************************************************************************)
ListsExclusive ==
    /\ \A c, d \in Cores : UpdatesLists(c) /\ UpdatesLists(d) => c = d
    /\ \A c, d \in Cores : IrqUpdatesLists(c) /\ IrqUpdatesLists(d) => c = d
    /\ \A c, d \in Cores : ~(UpdatesLists(c) /\ IrqUpdatesLists(d))

(***************************************************************************)
(* task.h:255, "Create a new task and add it to the list of tasks that are *)
(* ready to run": every creation ends with the task in the ready list.     *)
(***************************************************************************)
CreatedBecomesReady ==
    \A t \in Tasks : t \in created ~> t \in ready[On[t]]

(* The thread of c waits for a mailbox that cannot be emptied: the handler *)
(* of that core waits for xCoreLock, which c holds, or its thread spins    *)
(* with interrupts off and the handler does not start.                     *)
Blocked(c) ==
    LET d == Target(c)
    IN  /\ pc[c] = "poll" /\ event[d] # "NONE"
        /\ \/ irq[d] = "lock"
           \/ irq[d] = "none" /\ ~mie[d] /\ pc[d] \in {"lock", "sync", "poll"}

(***************************************************************************)
(* Every creation ends with the task in the ready list, unless a thread    *)
(* blocks on a mailbox like that: nothing else loses a creation or makes   *)
(* it wait for ever.                                                       *)
(***************************************************************************)
OnlyMailboxBlocks ==
    \A t \in Tasks :
        t \in created ~> t \in ready[On[t]] \/ \E c \in Cores : Blocked(c)
=============================================================================

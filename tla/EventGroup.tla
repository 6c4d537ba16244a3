----------------------------- MODULE EventGroup -----------------------------
(***************************************************************************)
(* lib/freertos/event_groups.c: one event group, the tasks that set, clear *)
(* and wait for its bits or meet at it, and its deletion.                  *)
(*                                                                         *)
(* The group is protected by suspending the scheduler of the caller's      *)
(* core, and by critical sections where a task only reads or clears. Each  *)
(* step below is what a task does to the group between two points where a  *)
(* task of another core, or an expiring time-out there, may come between;  *)
(* on one core the steps from Suspend to Resume follow each other.         *)
(***************************************************************************)
EXTENDS Integers, SequencesExt

CONSTANTS Cores, Tasks,
          NoTask,   \* no task; also the end marker of the list
          Home,     \* Home[t]: the core t runs on at first
          Bits,     \* the event bits the application uses
          Does      \* Does[t]: the calls t makes

Ops == {"set", "clear", "wait", "sync", "delete"}

(* The parameters of a call: the bits it sets or clears, the bits it waits *)
(* for, xClearOnExit, xWaitForAllBits and xTicksToWait.                    *)
Call == [op : Ops, mark : SUBSET Bits, want : SUBSET Bits, clear : BOOLEAN,
         all : BOOLEAN, ticks : {"zero", "some", "max"}]

ASSUME EventGroupAssumption ==
    /\ NoTask \notin Tasks
    /\ Home \in [Tasks -> Cores]
    /\ Does \in [Tasks -> SUBSET Call]

VARIABLES
    bits,       \* uxEventBits
    waiting,    \* xTasksWaitingForBits
    item,       \* the value of each task's event list item
    blocked,    \* the tasks on delayed or suspended lists
    core,       \* the core whose lists hold the task
    holder,     \* the task that has suspended the scheduler of a core
    pc, call,   \* where a task is, and in which call
    next,       \* pxListItem of a task that sets bits
    toClear,    \* uxBitsToClear
    original,   \* uxOriginalBitValue
    deleted     \* the group has been freed

group == <<bits, waiting, item, deleted>>
sched == <<blocked, core, holder>>
frame == <<pc, call, next, toClear, original>>
vars == <<group, sched, frame>>

Labels == {"idle", "suspend", "set", "walk", "clear", "meet", "test", "delete",
           "resume", "reread", "woken", "late"}

Blank == [bits |-> {}, clear |-> FALSE, all |-> FALSE, told |-> FALSE]
NoCall == [op |-> "set", mark |-> {}, want |-> {}, clear |-> FALSE, all |-> FALSE,
           ticks |-> "zero"]

Init ==
    /\ bits = {} /\ waiting = <<>> /\ deleted = FALSE
    /\ item = [t \in Tasks |-> Blank]
    /\ blocked = {}
    /\ core = Home
    /\ holder = [c \in Cores |-> NoTask]
    /\ pc = [t \in Tasks |-> "idle"]
    /\ call = [t \in Tasks |-> NoCall]
    /\ next = [t \in Tasks |-> NoTask]
    /\ toClear = [t \in Tasks |-> {}]
    /\ original = [t \in Tasks |-> {}]

-----------------------------------------------------------------------------
(* A task may run while it is ready and no other has suspended the         *)
(* scheduler of its core; which ready task runs is left open.              *)
At(t, l) ==
    /\ pc[t] = l /\ t \notin blocked
    /\ holder[core[t]] \in {t, NoTask}

Goto(t, l) == pc' = [pc EXCEPT ![t] = l]

(* prvTestWaitCondition, and the same test in the walk of the list *)
Met(have, want, all) == IF all THEN want \subseteq have ELSE want \cap have # {}

(* uxListRemove, of an item that is in the list *)
Unlink(list, t) == RemoveAt(list, CHOOSE i \in DOMAIN list : list[i] = t)

(* Faults, here and below: definitions with a plausible bug, which no      *)
(* specification uses.                                                     *)

(* The item does not say that the task was unblocked by bits. *)
WakeUntold(c, u, value) ==
    /\ item' = [item EXCEPT ![u] = [@ EXCEPT !.bits = value]]
    /\ waiting' = Unlink(waiting, u)
    /\ blocked' = blocked \ {u}
    /\ core' = [core EXCEPT ![u] = c]

(* vTaskRemoveFromUnorderedEventList *)
Wake(c, u, value) ==
    /\ item' = [item EXCEPT ![u] = [@ EXCEPT !.bits = value, !.told = TRUE]]
    /\ waiting' = Unlink(waiting, u)
    /\ blocked' = blocked \ {u}
    /\ core' = [core EXCEPT ![u] = c]

(* eventWAIT_FOR_ALL_BITS is not stored with the bits. *)
PlaceAny(t, want, clear, all) ==
    /\ item' = [item EXCEPT ![t] = [bits |-> want, clear |-> clear, all |-> FALSE,
                                    told |-> FALSE]]
    /\ waiting' = Append(waiting, t)
    /\ blocked' = blocked \cup {t}
    /\ UNCHANGED core

(* vTaskPlaceOnUnorderedEventList *)
Place(t, want, clear, all) ==
    /\ item' = [item EXCEPT ![t] = [bits |-> want, clear |-> clear, all |-> all,
                                    told |-> FALSE]]
    /\ waiting' = Append(waiting, t)
    /\ blocked' = blocked \cup {t}
    /\ UNCHANGED core

-----------------------------------------------------------------------------
(***************************************************************************)
(* A call begins. The application deletes the group only when no task is   *)
(* inside a call, but for those that wait on the list without a time-out   *)
(* (one that has timed out would look at the group), and makes no other    *)
(* call after that.                                                        *)
(***************************************************************************)
Quiet(t) == \A u \in Tasks \ {t} :
                pc[u] = "idle" \/ (u \in ToSet(waiting) /\ call[u].ticks = "max")

Begin(t) ==
    /\ At(t, "idle") /\ ~deleted
    /\ \A u \in Tasks : call[u].op = "delete" => pc[u] = "idle"
    /\ \E k \in Does[t] :
         /\ k.op = "delete" => Quiet(t)
         /\ call' = [call EXCEPT ![t] = k]
         /\ Goto(t, IF k.op = "clear" THEN "clear" ELSE "suspend")
    /\ UNCHANGED <<group, sched, next, toClear, original>>

Return(t) ==
    /\ Goto(t, "idle")
    /\ call' = [call EXCEPT ![t] = NoCall]
    /\ original' = [original EXCEPT ![t] = {}]
    /\ UNCHANGED <<next, toClear>>

(* xEventGroupClearBits, one critical section *)
ClearBits(t) ==
    /\ At(t, "clear") /\ call[t].op = "clear"
    /\ bits' = bits \ call[t].mark
    /\ Return(t)
    /\ UNCHANGED <<waiting, item, deleted, sched>>

(* vTaskSuspendAll *)
Suspend(t) ==
    /\ At(t, "suspend")
    /\ holder' = [holder EXCEPT ![core[t]] = t]
    /\ original' = [original EXCEPT ![t] = bits]
    /\ Goto(t, CASE call[t].op \in {"set", "sync"} -> "set"
                 [] call[t].op = "wait" -> "test"
                 [] call[t].op = "delete" -> "delete")
    /\ UNCHANGED <<group, blocked, core, call, next, toClear>>

-----------------------------------------------------------------------------
(* xEventGroupSetBits, which xEventGroupSync calls too *)

HeadOf(list) == IF list = <<>> THEN NoTask ELSE Head(list)

SetBits(t) ==
    /\ At(t, "set")
    /\ next' = [next EXCEPT ![t] = HeadOf(waiting)]
    /\ bits' = bits \cup call[t].mark
    /\ Goto(t, "walk")
    /\ UNCHANGED <<waiting, item, deleted, sched, call, toClear, original>>

(* listGET_NEXT *)
After(u) ==
    LET i == CHOOSE i \in DOMAIN waiting : waiting[i] = u
    IN  IF i < Len(waiting) THEN waiting[i + 1] ELSE NoTask

(* The walk ends with the first task it wakes. *)
WalkOnce(t) ==
    /\ At(t, "walk") /\ next[t] \in ToSet(waiting)
    /\ LET u == next[t] IN
         IF Met(bits, item[u].bits, item[u].all)
           THEN /\ toClear' = [toClear EXCEPT
                                 ![t] = @ \cup (IF item[u].clear THEN item[u].bits ELSE {})]
                /\ Wake(core[t], u, bits)
                /\ next' = [next EXCEPT ![t] = NoTask]
           ELSE /\ next' = [next EXCEPT ![t] = After(u)]
                /\ UNCHANGED <<toClear, item, waiting, blocked, core>>
    /\ UNCHANGED <<bits, deleted, holder, pc, call, original>>

(* One turn of the loop: the next item is read before this one is removed. *)
Walk(t) ==
    /\ At(t, "walk") /\ next[t] \in ToSet(waiting)
    /\ LET u == next[t] IN
         /\ next' = [next EXCEPT ![t] = After(u)]
         /\ IF Met(bits, item[u].bits, item[u].all)
              THEN /\ toClear' = [toClear EXCEPT
                                    ![t] = @ \cup (IF item[u].clear THEN item[u].bits ELSE {})]
                   /\ Wake(core[t], u, bits)
              ELSE UNCHANGED <<toClear, item, waiting, blocked, core>>
    /\ UNCHANGED <<bits, deleted, holder, pc, call, original>>

ClearMatched(t) ==
    /\ At(t, "walk") /\ next[t] = NoTask
    /\ bits' = bits \ toClear[t]
    /\ toClear' = [toClear EXCEPT ![t] = {}]
    /\ Goto(t, IF call[t].op = "sync" THEN "meet" ELSE "resume")
    /\ UNCHANGED <<waiting, item, deleted, sched, call, next, original>>

(* The value returned is read after xTaskResumeAll. *)
Reread(t) ==
    /\ At(t, "reread")
    /\ Return(t)
    /\ UNCHANGED <<group, sched>>

-----------------------------------------------------------------------------
(* xEventGroupSync after it has set its bits, and xEventGroupWaitBits *)

Answered(t) == call' = [call EXCEPT ![t].ticks = "zero"]

Meet(t) ==
    /\ At(t, "meet")
    /\ IF call[t].want \subseteq original[t] \cup call[t].mark
         THEN /\ bits' = bits \ call[t].want
              /\ Answered(t)
              /\ UNCHANGED <<item, waiting, blocked, core>>
         ELSE /\ IF call[t].ticks = "zero"
                   THEN UNCHANGED <<item, waiting, blocked, core>>
                   ELSE Place(t, call[t].want, TRUE, TRUE)
              /\ UNCHANGED <<bits, call>>
    /\ Goto(t, "resume")
    /\ UNCHANGED <<deleted, holder, next, toClear, original>>

Test(t) ==
    /\ At(t, "test")
    /\ IF Met(bits, call[t].want, call[t].all)
         THEN /\ bits' = IF call[t].clear THEN bits \ call[t].want ELSE bits
              /\ Answered(t)
              /\ UNCHANGED <<item, waiting, blocked, core>>
         ELSE /\ IF call[t].ticks = "zero"
                   THEN UNCHANGED <<item, waiting, blocked, core>>
                   ELSE Place(t, call[t].want, call[t].clear, call[t].all)
              /\ UNCHANGED <<bits, call>>
    /\ Goto(t, "resume")
    /\ UNCHANGED <<deleted, holder, next, toClear, original>>

(* xTaskResumeAll *)
Resume(t) ==
    /\ pc[t] = "resume" /\ holder[core[t]] = t
    /\ holder' = [holder EXCEPT ![core[t]] = NoTask]
    /\ CASE call[t].op = "set" -> Goto(t, "reread") /\ UNCHANGED <<call, next, toClear, original>>
         [] call[t].op \in {"wait", "sync"} /\ call[t].ticks # "zero" ->
              Goto(t, "woken") /\ UNCHANGED <<call, next, toClear, original>>
         [] OTHER -> Return(t)
    /\ UNCHANGED <<group, blocked, core>>

(* uxTaskResetEventItemValue, and eventUNBLOCKED_DUE_TO_BIT_SET in it *)
Woken(t) ==
    /\ At(t, "woken")
    /\ item' = [item EXCEPT ![t] = Blank]
    /\ IF item[t].told
         THEN Return(t)
         ELSE Goto(t, "late") /\ UNCHANGED <<call, next, toClear, original>>
    /\ UNCHANGED <<bits, waiting, deleted, sched>>

(* The critical section of a task that has timed out *)
Late(t) ==
    /\ At(t, "late")
    /\ LET k == call[t]
           sync == k.op = "sync"
           met == Met(bits, k.want, sync \/ k.all)
       IN  bits' = IF met /\ (sync \/ k.clear) THEN bits \ k.want ELSE bits
    /\ Return(t)
    /\ UNCHANGED <<waiting, item, deleted, sched>>

(* The task stays on the list of the group. *)
ExpireListed(t) ==
    /\ t \in blocked /\ holder[core[t]] = NoTask
    /\ call[t].ticks = "some"
    /\ blocked' = blocked \ {t}
    /\ UNCHANGED <<bits, waiting, item, deleted, core, holder, frame>>

(* xTaskIncrementTick takes a task off its two lists, unless the scheduler *)
(* of its core is suspended.                                               *)
Expire(t) ==
    /\ t \in blocked /\ holder[core[t]] = NoTask
    /\ call[t].ticks = "some"
    /\ waiting' = Unlink(waiting, t)
    /\ blocked' = blocked \ {t}
    /\ UNCHANGED <<bits, item, deleted, core, holder, frame>>

-----------------------------------------------------------------------------
(* vEventGroupDelete; then a new group, when no task is inside any more *)

Delete(t) ==
    /\ At(t, "delete")
    /\ IF waiting # <<>>
         THEN Wake(core[t], Head(waiting), {}) /\ UNCHANGED <<deleted, pc>>
         ELSE /\ deleted' = TRUE
              /\ Goto(t, "resume")
              /\ UNCHANGED <<item, waiting, blocked, core>>
    /\ UNCHANGED <<bits, holder, call, next, toClear, original>>

Create ==
    /\ deleted /\ \A t \in Tasks : pc[t] = "idle"
    /\ deleted' = FALSE /\ bits' = {} /\ waiting' = <<>>
    /\ UNCHANGED <<item, sched, frame>>

-----------------------------------------------------------------------------
Step(t) ==
    \/ ClearBits(t) \/ Suspend(t) \/ SetBits(t) \/ Walk(t) \/ ClearMatched(t)
    \/ Reread(t) \/ Meet(t) \/ Test(t) \/ Resume(t) \/ Woken(t) \/ Late(t) \/ Delete(t)

Next == \/ \E t \in Tasks : Begin(t) \/ Step(t) \/ Expire(t)
        \/ Create

Spec == Init /\ [][Next]_vars
-----------------------------------------------------------------------------
TypeOK ==
    /\ bits \subseteq Bits /\ waiting \in Seq(Tasks) /\ deleted \in BOOLEAN
    /\ item \in [Tasks -> [bits : SUBSET Bits, clear : BOOLEAN, all : BOOLEAN,
                           told : BOOLEAN]]
    /\ ToSet(waiting) = blocked /\ core \in [Tasks -> Cores]
    /\ holder \in [Cores -> Tasks \cup {NoTask}]
    /\ pc \in [Tasks -> Labels] /\ call \in [Tasks -> Call]
    /\ next \in [Tasks -> Tasks \cup {NoTask}]
    /\ toClear \in [Tasks -> SUBSET Bits] /\ original \in [Tasks -> SUBSET Bits]

(***************************************************************************)
(* No wake-up is lost: when no task is in the middle of a change, no task  *)
(* waits whose bits are set, whatever was set, cleared and timed out while *)
(* it was about to wait.                                                   *)
(***************************************************************************)
NoStrandedWaiter ==
    /\ TypeOK
    /\ (\A c \in Cores : holder[c] = NoTask) =>
        \A t \in ToSet(waiting) : ~Met(bits, item[t].bits, item[t].all)

(***************************************************************************)
(* The calls that meet at bits which only they set, each waiting for its   *)
(* own bits too, and without a time-out (the documented use of             *)
(* xEventGroupSync, event_groups.h:581-690), leave together: when one is   *)
(* satisfied, for each bit it waits for a task is inside the call that     *)
(* sets it, having left no earlier rendezvous with that call. A bit left   *)
(* over from one meeting would let a task pass the next one alone.         *)
(***************************************************************************)
Meeting(want) ==
    \A t \in Tasks : \A k \in Does[t] :
        k.mark \cap want # {} /\ k.op # "clear" =>
            k.op = "sync" /\ k.ticks = "max" /\ k.mark \subseteq k.want

Satisfied(t) ==
    \/ ~item[t].told /\ item'[t].told
    \/ pc[t] = "meet" /\ pc'[t] = "resume" /\ call'[t].ticks = "zero"

LeaveTogether ==
    \A t \in Tasks :
        /\ call[t].op = "sync" /\ call[t].ticks = "max" /\ Meeting(call[t].want)
        /\ Satisfied(t) /\ ~deleted /\ \A u \in Tasks : call[u].op # "delete"
        => \A b \in call[t].want : \E u \in Tasks :
             call[u].op = "sync" /\ b \in call[u].mark /\ pc[u] # "late"

RendezvousMeets == [][LeaveTogether]_vars

(***************************************************************************)
(* event_groups.c:623: a task that the deletion of the group unblocks is   *)
(* "returning 0", and comes back without another look at the memory of     *)
(* the group, which is free then.                                          *)
(***************************************************************************)
DeletedIsUntouched ==
    deleted => /\ waiting = <<>>
               /\ \A t \in Tasks : \/ pc[t] = "idle"
                                   \/ pc[t] = "resume" /\ call[t].op = "delete"
                                   \/ pc[t] = "woken" /\ item[t].told
=============================================================================

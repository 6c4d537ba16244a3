------------------------------ MODULE Pthreads ------------------------------
(***************************************************************************)
(* posix/pthread.cpp: threads that create, join and cancel each other and  *)
(* run an initialisation once, with the mutex and the condition variable   *)
(* of PthreadSync in their bodies.                                         *)
(*                                                                         *)
(* The threads share one core: a task that has been deleted makes no step  *)
(* again, and what runs with the scheduler suspended is one step.          *)
(***************************************************************************)
EXTENDS PthreadSync

CONSTANTS
    Main        \* the task that is there from the start and creates the threads

(* A plan also says which threads are created with PTHREAD_CREATE_DETACHED *)
(* and which ones a thread joins.                                          *)
ASSUME ThreadAssumption ==
    /\ Main \in Threads
    /\ \A p \in Plans :
         /\ p.calls \in [Threads -> SUBSET (SyncCalls \cup {"once", "cancel"})]
         /\ p.detached \subseteq Threads \ {Main}
         /\ p.joins \in [Threads -> SUBSET (Threads \ {Main})]

VARIABLES
    object,     \* the k_pthread: "none", "live" or "freed"
    task,       \* the task: "none", "live", "suspended" or "deleted"
    joinMutex,  \* join_mutex is taken
    barrier,    \* join_barrier
    target,     \* the thread a join is about
    joined,     \* history: the threads t has called pthread_join for
    once,       \* once_control->init_executed
    inits,      \* history: how often init_routine has begun
    misuse,     \* history: a freed object was used or freed, or a task deleted, again
    late        \* history: join_mutex was taken after a joiner had given it back

lifecycle == <<object, task, joinMutex, barrier>>
joining == <<target, joined>>
initialising == <<once, inits>>
threadVars == <<lifecycle, joining, initialising, misuse, late>>
vars == <<syncVars, threadVars>>

Labels == SyncLabels \cup
    {"none", "xgive", "xsuspend", "xdelete", "gone", "jtake", "jwait", "jbarrier", "jmutex",
     "jtask", "jobject", "oread", "ocas", "oinit", "oset", "odone"}

Init ==
    /\ SyncInit
    /\ pc = [t \in Threads |-> IF t = Main THEN "idle" ELSE "none"]
    /\ object = [t \in Threads |-> "none"]
    /\ task = [t \in Threads |-> IF t = Main THEN "live" ELSE "none"]
    /\ joinMutex = [t \in Threads |-> FALSE]
    /\ barrier = [t \in Threads |-> 0]
    /\ target = [t \in Threads |-> Nobody]
    /\ joined = [t \in Threads |-> {}]
    /\ once = 0 /\ inits = 0 /\ misuse = FALSE /\ late = FALSE

Misuse(bad) == misuse' = (misuse \/ bad)

-----------------------------------------------------------------------------
(* pthread_create, with the scheduler suspended; without memory it undoes  *)
(* what it did and the caller may try again, which changes nothing.        *)
Create(t) ==
    /\ At(t, "idle") /\ t = Main
    /\ \E u \in Threads \ {Main} :
         /\ object[u] = "none"
         /\ object' = [object EXCEPT ![u] = "live"]
         /\ task' = [task EXCEPT ![u] = "live"]
         /\ pc' = [pc EXCEPT ![u] = "idle"]
    /\ UNCHANGED <<mutex, cond, locals, joinMutex, barrier, joining, initialising, misuse, late>>

(* The start routine returns; a thread that has the mutex unlocks it first. *)
Exit(t) ==
    /\ At(t, "idle") /\ t # Main
    /\ holder # t
    /\ Goto(t, IF t \in plan.detached THEN "xdelete" ELSE "xgive")
    /\ UNCHANGED <<mutex, cond, locals, threadVars>>

(* on_exit of a joinable thread: the barrier ... *)
ExitGive(t) ==
    /\ At(t, "xgive")
    /\ barrier' = [barrier EXCEPT ![t] = 1]
    /\ Goto(t, "xsuspend")
    /\ Misuse(object[t] = "freed")
    /\ UNCHANGED <<mutex, cond, locals, object, task, joinMutex, joining, initialising, late>>

(* ... and vTaskSuspend(NULL) *)
ExitSuspend(t) ==
    /\ At(t, "xsuspend")
    /\ task' = [task EXCEPT ![t] = "suspended"]
    /\ Goto(t, "gone")
    /\ UNCHANGED <<mutex, cond, locals, object, joinMutex, barrier, joining, initialising,
                   misuse, late>>

(* on_exit of a detached thread: delete this, vTaskDelete(NULL) *)
ExitDetached(t) ==
    /\ At(t, "xdelete")
    /\ object' = [object EXCEPT ![t] = "freed"]
    /\ task' = [task EXCEPT ![t] = "deleted"]
    /\ Goto(t, "gone")
    /\ Misuse(object[t] = "freed")
    /\ UNCHANGED <<mutex, cond, locals, joinMutex, barrier, joining, initialising, late>>

(***************************************************************************)
(* pthread_cancel runs on_exit in the caller's context with the scheduler  *)
(* suspended: it gives the barrier of the thread (or frees it) and then    *)
(* suspends (or deletes) the caller, which tasks.c asserts is not done     *)
(* while the scheduler is suspended.                                       *)
(***************************************************************************)
Cancel(t) ==
    /\ At(t, "idle") /\ "cancel" \in plan.calls[t]
    /\ \E u \in Threads \ {Main} :
         /\ object[u] = "live"
         /\ IF u \in plan.detached
              THEN /\ object' = [object EXCEPT ![u] = "freed"]
                   /\ task' = [task EXCEPT ![t] = "deleted"]
                   /\ UNCHANGED barrier
              ELSE /\ barrier' = [barrier EXCEPT ![u] = 1]
                   /\ task' = [task EXCEPT ![t] = "suspended"]
                   /\ UNCHANGED object
    /\ Goto(t, "fatal")
    /\ UNCHANGED <<mutex, cond, locals, joinMutex, joining, initialising, misuse, late>>

-----------------------------------------------------------------------------
(* pthread_join *)

(* A program joins a thread that is there, each of its threads once. A    *)
(* detached thread is refused.                                            *)
Join(t) ==
    /\ At(t, "idle")
    /\ \E u \in plan.joins[t] \ joined[t] :
         /\ object[u] = "live"
         /\ joined' = [joined EXCEPT ![t] = @ \cup {u}]
         /\ IF u \in plan.detached
              THEN UNCHANGED <<pc, target>>
              ELSE Goto(t, "jtake") /\ target' = [target EXCEPT ![t] = u]
    /\ UNCHANGED <<mutex, cond, locals, lifecycle, initialising, misuse, late>>

(* A joiner of u is past its give of join_mutex. *)
GivenBack(u) ==
    object[u] = "freed" \/ \E v \in Threads : target[v] = u /\ pc[v] \in {"jtask", "jobject"}

(* That join_mutex is taken does not matter. *)
JoinTakeAnyway(t) ==
    LET u == target[t] IN
    /\ At(t, "jtake")
    /\ Misuse(object[u] = "freed")
    /\ late' = (late \/ GivenBack(u))
    /\ joinMutex' = [joinMutex EXCEPT ![u] = TRUE]
    /\ IF u = t
         THEN Goto(t, "idle") /\ target' = [target EXCEPT ![t] = Nobody]
         ELSE Goto(t, "jwait") /\ UNCHANGED target
    /\ UNCHANGED <<mutex, cond, locals, object, task, barrier, joined, initialising>>

(* xSemaphoreTake(&join_mutex, 0); joining itself leaves it taken. *)
JoinTake(t) ==
    LET u == target[t] IN
    /\ At(t, "jtake")
    /\ Misuse(object[u] = "freed")
    /\ late' = (late \/ GivenBack(u))
    /\ joinMutex' = [joinMutex EXCEPT ![u] = TRUE]
    /\ IF joinMutex[u] \/ u = t
         THEN Goto(t, "idle") /\ target' = [target EXCEPT ![t] = Nobody]   \* EDEADLK
         ELSE Goto(t, "jwait") /\ UNCHANGED target
    /\ UNCHANGED <<mutex, cond, locals, object, task, barrier, joined, initialising>>

(* The barrier is looked at, not waited for. *)
JoinPeek(t) ==
    LET u == target[t] IN
    /\ At(t, "jwait")
    /\ barrier' = [barrier EXCEPT ![u] = 0]
    /\ Goto(t, "jbarrier")
    /\ Misuse(object[u] = "freed")
    /\ UNCHANGED <<mutex, cond, locals, object, task, joinMutex, joining, initialising, late>>

JoinWait(t) ==
    LET u == target[t] IN
    /\ At(t, "jwait")
    /\ barrier[u] = 1
    /\ barrier' = [barrier EXCEPT ![u] = 0]
    /\ Goto(t, "jbarrier")
    /\ Misuse(object[u] = "freed")
    /\ UNCHANGED <<mutex, cond, locals, object, task, joinMutex, joining, initialising, late>>

(* The semaphores are given before they are deleted, which for semaphores  *)
(* in static memory does nothing.                                          *)
JoinGiveBarrier(t) ==
    LET u == target[t] IN
    /\ At(t, "jbarrier")
    /\ barrier' = [barrier EXCEPT ![u] = 1]
    /\ Goto(t, "jmutex")
    /\ Misuse(object[u] = "freed")
    /\ UNCHANGED <<mutex, cond, locals, object, task, joinMutex, joining, initialising, late>>

JoinGiveMutex(t) ==
    LET u == target[t] IN
    /\ At(t, "jmutex")
    /\ joinMutex' = [joinMutex EXCEPT ![u] = FALSE]
    /\ Goto(t, "jtask")
    /\ Misuse(object[u] = "freed")
    /\ UNCHANGED <<mutex, cond, locals, object, task, barrier, joining, initialising, late>>

(* vTaskDelete(k_thrd->handle): the task may not have come to suspend. *)
JoinDeleteTask(t) ==
    LET u == target[t] IN
    /\ At(t, "jtask")
    /\ task' = [task EXCEPT ![u] = "deleted"]
    /\ pc' = [pc EXCEPT ![t] = "jobject", ![u] = "gone"]
    /\ Misuse(object[u] = "freed" \/ task[u] = "deleted")
    /\ UNCHANGED <<mutex, cond, locals, object, joinMutex, barrier, joining, initialising, late>>

JoinFree(t) ==
    LET u == target[t] IN
    /\ At(t, "jobject")
    /\ object' = [object EXCEPT ![u] = "freed"]
    /\ target' = [target EXCEPT ![t] = Nobody]
    /\ Goto(t, "idle")
    /\ Misuse(object[u] = "freed")
    /\ UNCHANGED <<mutex, cond, locals, task, joinMutex, barrier, joined, initialising, late>>

-----------------------------------------------------------------------------
(* pthread_once *)

Once(t) ==
    /\ At(t, "idle") /\ "once" \in plan.calls[t]
    /\ Goto(t, "oread")
    /\ UNCHANGED <<mutex, cond, locals, threadVars>>

OnceRead(t) ==
    /\ At(t, "oread")
    /\ Goto(t, IF once = 1 THEN "odone" ELSE "ocas")
    /\ UNCHANGED <<mutex, cond, locals, threadVars>>

(* What is there already is not compared. *)
OnceSwap(t) ==
    /\ At(t, "ocas")
    /\ once' = 2
    /\ Goto(t, "oinit")
    /\ UNCHANGED <<mutex, cond, locals, lifecycle, joining, inits, misuse, late>>

OnceCas(t) ==
    /\ At(t, "ocas")
    /\ IF once = 0
         THEN once' = 2 /\ Goto(t, "oinit")
         ELSE UNCHANGED once /\ Goto(t, "oread")
    /\ UNCHANGED <<mutex, cond, locals, lifecycle, joining, inits, misuse, late>>

OnceInit(t) ==
    /\ At(t, "oinit")
    /\ inits' = inits + 1
    /\ Goto(t, "oset")
    /\ UNCHANGED <<mutex, cond, locals, lifecycle, joining, once, misuse, late>>

OnceSet(t) ==
    /\ At(t, "oset")
    /\ once' = 1
    /\ Goto(t, "odone")
    /\ UNCHANGED <<mutex, cond, locals, lifecycle, joining, inits, misuse, late>>

OnceReturn(t) ==
    /\ At(t, "odone")
    /\ Goto(t, "idle")
    /\ UNCHANGED <<mutex, cond, locals, threadVars>>

-----------------------------------------------------------------------------
(* Steps inside a call, and those that begin one *)
ThreadStep(t) ==
    \/ ExitGive(t) \/ ExitSuspend(t) \/ ExitDetached(t)
    \/ JoinTake(t) \/ JoinWait(t) \/ JoinGiveBarrier(t) \/ JoinGiveMutex(t)
    \/ JoinDeleteTask(t) \/ JoinFree(t)
    \/ OnceRead(t) \/ OnceCas(t) \/ OnceInit(t) \/ OnceSet(t) \/ OnceReturn(t)

ThreadCall(t) == Create(t) \/ Exit(t) \/ Cancel(t) \/ Join(t) \/ Once(t)

Sync == SyncNext /\ UNCHANGED threadVars

Next == Sync \/ \E t \in Threads : ThreadStep(t) \/ ThreadCall(t)

Spec == Init /\ [][Next]_vars
-----------------------------------------------------------------------------
TypeOK ==
    /\ type \in Types /\ {holder, owner, condLock} \subseteq Threads \cup {Nobody}
    /\ depth \in 0 .. MaxDepth /\ (depth = 0 <=> holder = Nobody)
    /\ waiting \in 0 .. UintMax /\ tokens \in 0 .. UintMax
    /\ pc \in [Threads -> Labels] /\ then \in [Threads -> {"idle", "wtake", "wdec"}]
    /\ object \in [Threads -> {"none", "live", "freed"}]
    /\ task \in [Threads -> {"none", "live", "suspended", "deleted"}]
    /\ barrier \in [Threads -> 0 .. 1] /\ once \in 0 .. 2
    /\ plan \in Plans /\ finite \in [Threads -> BOOLEAN] /\ given \in [Threads -> Nat]
    /\ seen \in [Threads -> Threads \cup {Nobody}] /\ stale \in BOOLEAN /\ leaked \in BOOLEAN
    /\ joinMutex \in [Threads -> BOOLEAN]
    /\ target \in [Threads -> (Threads \ {Main}) \cup {Nobody}]
    /\ joined \in [Threads -> SUBSET Threads] /\ inits \in Nat
    /\ misuse \in BOOLEAN /\ late \in BOOLEAN

(***************************************************************************)
(* join_barrier tells a joiner of the end of the start routine, no less    *)
(* and no more: what a join deletes has left its routine, whoever joins or *)
(* cancels, and a joiner that still waits then finds the barrier given.    *)
(***************************************************************************)
JoinAwaitsExit ==
    \A t \in Threads :
        LET ended == pc[target[t]] \in {"xsuspend", "gone"} IN
        /\ pc[t] \in {"jbarrier", "jmutex", "jtask", "jobject"} => ended
        /\ pc[t] = "jwait" /\ ended => barrier[target[t]] = 1 \/ late

(***************************************************************************)
(* pthread.cpp:165 "Only one thread may attempt to join another. Lock the  *)
(* join mutex to prevent other threads from calling pthread_join on the    *)
(* same thread." No object is used or freed, and no task deleted, again.   *)
(***************************************************************************)
JoinedOnce == ~misuse

(* That is so as long as nobody takes the mutex a joiner has given back.   *)
JoinedOnceUnlessLate == misuse => late

(***************************************************************************)
(* The whole of what a joiner may rely on, as long as no thread joins one  *)
(* that another has joined before: the thread it waits for has ended, and  *)
(* it alone frees the object and deletes the task.                         *)
(***************************************************************************)
JoinIsSafe == TypeOK /\ JoinAwaitsExit /\ JoinedOnceUnlessLate

(***************************************************************************)
(* pthread_once runs the routine once, and a call that returns, first or   *)
(* not, finds it done.                                                     *)
(***************************************************************************)
InitialisedOnce ==
    /\ inits <= 1
    /\ \A t \in Threads : pc[t] = "odone" => inits = 1 /\ once = 1
=============================================================================

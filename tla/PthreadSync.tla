---------------------------- MODULE PthreadSync -----------------------------
(***************************************************************************)
(* posix/pthread_mutex.cpp and posix/pthread_cond.cpp: one mutex and one   *)
(* condition variable used by the threads of a program.                    *)
(*                                                                         *)
(* Both are made of kernel semaphores, whose calls are one step each, as   *)
(* Queue shows. Around them the code reads and stores words of its own     *)
(* (owner, waiting_threads), each in a step of its own.                    *)
(***************************************************************************)
EXTENDS Integers, FiniteSets

CONSTANTS
    Threads,    \* the tasks of the program
    Nobody,     \* NULL
    Types,      \* the types of mutex created, a subset of MutexTypes
    Plans,      \* the programs: plan.calls[t] is what t's own code calls
    MaxDepth,   \* bound: how often t locks a recursive mutex
    Width       \* bits of uint32_t waiting_threads; UINT_MAX is 2^Width - 1

MutexTypes == {"DEFAULT", "ERRORCHECK", "RECURSIVE"}
SyncCalls == {"lock", "timedlock", "unlock", "wait", "timedwait", "signal", "broadcast"}
UintMax == 2 ^ Width - 1

(* That UINT_MAX is a number is arithmetic; it is there for the proofs.    *)
ASSUME SyncAssumption ==
    /\ Nobody \notin Threads /\ IsFiniteSet(Threads)
    /\ Types \subseteq MutexTypes
    /\ MaxDepth \in Nat \ {0} /\ Width \in Nat \ {0}
    /\ UintMax \in Nat \ {0}

VARIABLES
    plan,       \* the program that runs
    type,       \* attr.type
    holder,     \* the kernel's holder of k_pthread_mutex.semphr
    depth,      \* uxRecursiveCallCount
    owner,      \* k_pthread_mutex.owner
    condLock,   \* the holder of k_pthread_cond.mutex
    waiting,    \* waiting_threads
    tokens,     \* wait_semphr
    pc,         \* where a thread is
    then,       \* where a lock or an unlock inside another call goes on
    finite,     \* the call has a time limit
    seen,       \* what update_owner has read
    given,      \* the loop counter of a broadcast
    stale,      \* history: owner is what the memory held, or what update_owner
                \* had read before the holder changed
    leaked      \* history: a wait returned EPERM after it was counted

mutex == <<plan, type, holder, depth, owner, stale>>
cond == <<condLock, waiting, tokens, leaked>>
locals == <<then, finite, seen, given>>
syncVars == <<mutex, cond, pc, locals>>

SyncLabels == {"idle", "lcheck", "ltake", "lown", "ucheck", "ugive", "uread", "ustore",
               "winc", "wtake", "wdec", "slock", "sstuck", "block", "bgive", "fatal"}

(* The constructor leaves owner as the memory was. *)
SyncInit ==
    /\ plan \in Plans /\ type \in Types
    /\ holder = Nobody /\ depth = 0 /\ owner \in Threads \cup {Nobody}
    /\ condLock = Nobody /\ waiting = 0 /\ tokens = 0
    /\ then = [t \in Threads |-> "idle"]
    /\ finite = [t \in Threads |-> FALSE]
    /\ seen = [t \in Threads |-> Nobody]
    /\ given = [t \in Threads |-> 0]
    /\ stale = (owner # Nobody) /\ leaked = FALSE

(* configASSERT ends the program (vPortFatal). *)
At(t, l) == pc[t] = l /\ \A u \in Threads : pc[u] # "fatal"

Goto(t, l) == pc' = [pc EXCEPT ![t] = l]

(* End of a lock or an unlock: the locals are dead again. *)
Resume(t) ==
    /\ Goto(t, then[t])
    /\ then' = [then EXCEPT ![t] = "idle"]

-----------------------------------------------------------------------------
(* The calls a thread may make. It unlocks or waits when it has the mutex; *)
(* a type that checks the owner may be unlocked by anybody.                *)

May(t, call) == At(t, "idle") /\ call \in plan.calls[t]

Lock(t) ==
    /\ \E call \in {"lock", "timedlock"} :
         /\ May(t, call)
         /\ finite' = [finite EXCEPT ![t] = call = "timedlock"]
    /\ type = "DEFAULT" => holder # t
    /\ holder = t => depth < MaxDepth
    /\ Goto(t, "lcheck")
    /\ UNCHANGED <<mutex, cond, then, seen, given>>

Unlock(t) ==
    /\ May(t, "unlock")
    /\ type = "DEFAULT" => holder = t
    /\ Goto(t, "ucheck")
    /\ UNCHANGED <<mutex, cond, locals>>

Wait(t) ==
    /\ \E call \in {"wait", "timedwait"} :
         /\ May(t, call)
         /\ finite' = [finite EXCEPT ![t] = call = "timedwait"]
    /\ holder = t /\ depth = 1
    /\ Goto(t, "winc")
    /\ UNCHANGED <<mutex, cond, then, seen, given>>

(* "Check that at least one thread is waiting for a signal." *)
Signal(t) ==
    /\ May(t, "signal")
    /\ waiting > 0
    /\ Goto(t, "slock")
    /\ UNCHANGED <<mutex, cond, locals>>

Broadcast(t) ==
    /\ May(t, "broadcast")
    /\ Goto(t, "block")
    /\ UNCHANGED <<mutex, cond, locals>>

-----------------------------------------------------------------------------
(* pthread_mutex_timedlock *)

LockCheck(t) ==
    /\ At(t, "lcheck")
    /\ IF type = "ERRORCHECK" /\ owner = t
         THEN Resume(t) /\ finite' = [finite EXCEPT ![t] = FALSE]   \* EDEADLK
         ELSE Goto(t, "ltake") /\ UNCHANGED <<then, finite>>
    /\ UNCHANGED <<mutex, cond, seen, given>>

LockTake(t) ==
    /\ At(t, "ltake")
    /\ \/ holder = Nobody
       \/ type = "RECURSIVE" /\ holder = t
    /\ holder' = t /\ depth' = depth + 1
    /\ Goto(t, "lown")
    /\ UNCHANGED <<plan, type, owner, stale, cond, locals>>

LockTimeOut(t) ==
    /\ At(t, "ltake")
    /\ finite[t] /\ holder # Nobody
    /\ type = "RECURSIVE" => holder # t
    /\ Resume(t)
    /\ finite' = [finite EXCEPT ![t] = FALSE]
    /\ UNCHANGED <<mutex, cond, seen, given>>

LockOwn(t) ==
    /\ At(t, "lown")
    /\ owner' = t /\ stale' = FALSE
    /\ Resume(t)
    /\ finite' = [finite EXCEPT ![t] = FALSE]
    /\ UNCHANGED <<plan, type, holder, depth, cond, seen, given>>

-----------------------------------------------------------------------------
(* pthread_mutex_unlock *)

UnlockCheck(t) ==
    /\ At(t, "ucheck")
    /\ IF type # "DEFAULT" /\ owner # t
         THEN /\ Goto(t, "idle")      \* EPERM, also out of a wait
              /\ then' = [then EXCEPT ![t] = "idle"]
              /\ finite' = [finite EXCEPT ![t] = FALSE]
              /\ leaked' = (leaked \/ then[t] = "wtake")
         ELSE Goto(t, "ugive") /\ UNCHANGED <<then, finite, leaked>>
    /\ UNCHANGED <<mutex, condLock, waiting, tokens, seen, given>>

(* One unlock frees a mutex that was locked twice. *)
UnlockFree(t) ==
    /\ At(t, "ugive")
    /\ IF holder = t
         THEN depth' = depth - 1 /\ holder' = Nobody
         ELSE UNCHANGED <<holder, depth>>
    /\ Goto(t, IF holder \in {t, Nobody} \/ type = "RECURSIVE" THEN "uread" ELSE "fatal")
    /\ UNCHANGED <<plan, type, owner, stale, cond, locals>>

(* The kernel lets only the holder give; a plain mutex asserts that it is, *)
(* unless it is free.                                                      *)
UnlockGive(t) ==
    /\ At(t, "ugive")
    /\ IF holder = t
         THEN /\ depth' = depth - 1
              /\ holder' = IF depth = 1 THEN Nobody ELSE t
         ELSE UNCHANGED <<holder, depth>>
    /\ Goto(t, IF holder \in {t, Nobody} \/ type = "RECURSIVE" THEN "uread" ELSE "fatal")
    /\ UNCHANGED <<plan, type, owner, stale, cond, locals>>

(* update_owner: xSemaphoreGetMutexHolder, in its critical section ... *)
ReadHolder(t) ==
    /\ At(t, "uread")
    /\ seen' = [seen EXCEPT ![t] = holder]
    /\ Goto(t, "ustore")
    /\ UNCHANGED <<mutex, cond, then, finite, given>>

(* The caller is taken to own the mutex no longer, whatever its depth. *)
StoreNobody(t) ==
    /\ At(t, "ustore")
    /\ owner' = Nobody
    /\ stale' = (seen[t] # holder)
    /\ seen' = [seen EXCEPT ![t] = Nobody]
    /\ Resume(t)
    /\ UNCHANGED <<plan, type, holder, depth, cond, finite, given>>

(* ... and the store of what it has returned *)
StoreOwner(t) ==
    /\ At(t, "ustore")
    /\ owner' = seen[t]
    /\ stale' = (seen[t] # holder)
    /\ seen' = [seen EXCEPT ![t] = Nobody]
    /\ Resume(t)
    /\ UNCHANGED <<plan, type, holder, depth, cond, finite, given>>

-----------------------------------------------------------------------------
(* pthread_cond_timedwait *)

(* waiting_threads++ under k_cond->lock(), then pthread_mutex_unlock *)
WaitCount(t) ==
    /\ At(t, "winc")
    /\ condLock = Nobody
    /\ waiting' = (waiting + 1) % (UintMax + 1)
    /\ then' = [then EXCEPT ![t] = "wtake"]
    /\ Goto(t, "ucheck")
    /\ UNCHANGED <<mutex, condLock, tokens, leaked, finite, seen, given>>

WaitTake(t) ==
    /\ At(t, "wtake")
    /\ tokens > 0
    /\ tokens' = tokens - 1
    /\ finite' = [finite EXCEPT ![t] = FALSE]
    /\ Goto(t, "lcheck")
    /\ UNCHANGED <<mutex, condLock, waiting, leaked, then, seen, given>>

(* The result of the lock is not looked at. *)
WaitTimeOut(t) ==
    /\ At(t, "wtake")
    /\ finite[t] /\ tokens = 0
    /\ finite' = [finite EXCEPT ![t] = FALSE]
    /\ then' = [then EXCEPT ![t] = "wdec"]
    /\ Goto(t, "lcheck")
    /\ UNCHANGED <<mutex, cond, seen, given>>

(* A waiter that has timed out stays counted. *)
WaitStayCounted(t) ==
    /\ At(t, "wdec")
    /\ condLock = Nobody
    /\ Goto(t, "idle")
    /\ UNCHANGED <<mutex, cond, locals>>

(* waiting_threads-- under k_cond->lock(): a broadcast may have reset it. *)
WaitUncount(t) ==
    /\ At(t, "wdec")
    /\ condLock = Nobody
    /\ waiting' = IF waiting = 0 THEN UintMax ELSE waiting - 1
    /\ Goto(t, "idle")
    /\ UNCHANGED <<mutex, condLock, tokens, leaked, locals>>

-----------------------------------------------------------------------------
(* pthread_cond_signal takes the mutex that its lock() has taken: it never *)
(* gets to the second check and to give(), and nobody gets the mutex.      *)
SignalLock(t) ==
    /\ At(t, "slock")
    /\ condLock = Nobody
    /\ condLock' = t
    /\ Goto(t, "sstuck")
    /\ UNCHANGED <<mutex, waiting, tokens, leaked, locals>>

-----------------------------------------------------------------------------
(* pthread_cond_broadcast *)

(* Bound: what would give more tokens than wait_semphr can count is cut.   *)
BroadcastLock(t) ==
    /\ At(t, "block")
    /\ condLock = Nobody
    /\ waiting + tokens <= UintMax
    /\ condLock' = t
    /\ Goto(t, "bgive")
    /\ UNCHANGED <<mutex, waiting, tokens, leaked, locals>>

BroadcastGive(t) ==
    /\ At(t, "bgive")
    /\ given[t] < waiting
    /\ given' = [given EXCEPT ![t] = @ + 1]
    /\ tokens' = tokens + 1
    /\ UNCHANGED <<mutex, condLock, waiting, leaked, pc, then, finite, seen>>

BroadcastEnd(t) ==
    /\ At(t, "bgive")
    /\ given[t] >= waiting
    /\ waiting' = 0
    /\ condLock' = Nobody
    /\ given' = [given EXCEPT ![t] = 0]
    /\ Goto(t, "idle")
    /\ UNCHANGED <<mutex, tokens, leaked, then, finite, seen>>

-----------------------------------------------------------------------------
MutexStep(t) ==
    \/ LockCheck(t) \/ LockTake(t) \/ LockTimeOut(t) \/ LockOwn(t)
    \/ UnlockCheck(t) \/ UnlockGive(t) \/ ReadHolder(t) \/ StoreOwner(t)

CondStep(t) ==
    \/ WaitCount(t) \/ WaitTake(t) \/ WaitTimeOut(t) \/ WaitUncount(t) \/ SignalLock(t)
    \/ BroadcastLock(t) \/ BroadcastGive(t) \/ BroadcastEnd(t)

SyncCall(t) == Lock(t) \/ Unlock(t) \/ Wait(t) \/ Signal(t) \/ Broadcast(t)

SyncNext == \E t \in Threads : SyncCall(t) \/ MutexStep(t) \/ CondStep(t)

-----------------------------------------------------------------------------
(***************************************************************************)
(* What pthread_mutex_unlock's "Update the owner of the mutex" is for: the *)
(* owner that EDEADLK, EPERM and pthread_mutex_destroy go by is the holder *)
(* whenever nobody is between changing the one and the other, unless the   *)
(* last store in update_owner came after the holder had changed again.     *)
(***************************************************************************)
Settled == \A t \in Threads : pc[t] \notin {"lown", "uread", "ustore"}

OwnerSettles == ~stale /\ Settled => owner = holder

(* The threads between their waiting_threads++ and their return *)
Counted ==
    {t \in Threads : pc[t] = "wtake" \/ then[t] \in {"wtake", "wdec"} \/ pc[t] = "wdec"}

(* What the broadcast under way has given already *)
Given == IF condLock = Nobody THEN 0 ELSE given[condLock]

(***************************************************************************)
(* Every thread between its waiting_threads++ and its return is paid for:  *)
(* it is still counted, or a token of wait_semphr is there for one of the  *)
(* waiters, and neither is left over. Modulo 2^Width, because a broadcast  *)
(* resets the count under a waiter that has timed out and decrements it    *)
(* afterwards; EPERM out of a wait, when the owner is stale, loses one.    *)
(***************************************************************************)
TokensCountWaiters ==
    ~leaked =>
      (waiting + tokens - Given - Cardinality(Counted)) % (UintMax + 1) = 0
=============================================================================

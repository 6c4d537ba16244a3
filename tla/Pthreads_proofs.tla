-------------------------- MODULE Pthreads_proofs --------------------------
(***************************************************************************)
(* Theorems about Pthreads and the calls of PthreadSync in it, for any     *)
(* number of threads and programs and any width of waiting_threads.        *)
(*                                                                         *)
(* JoinIsSafe, TokensCountWaiters and OwnerSettles speak of moments at     *)
(* which calls are under way. The invariant says for each place of a call  *)
(* what the thread there holds and has counted (Calls), which object, task *)
(* and joiner belong together (Threading), that a joiner which took        *)
(* join_mutex is alone with what it joins (Joining), and who runs the      *)
(* routine of pthread_once (Initialising).                                 *)
(***************************************************************************)
EXTENDS Pthreads, FiniteSetTheorems, TLAPS

(* The places outside the calls of PthreadSync, and those at which nothing *)
(* is under way there *)
Outside == (Labels \ SyncLabels) \cup {"idle", "fatal"}
Running == \A t \in Threads : pc[t] # "fatal"
Ended(t) == pc[t] \in {"xsuspend", "gone"}

-----------------------------------------------------------------------------
(* What a thread holds at each place of a call of the mutex or of the      *)
(* condition variable, and what it has counted                             *)
Holds(t) ==
    /\ then[t] = "wdec" => pc[t] \in {"lcheck", "ltake", "lown"}
    /\ then[t] = "wtake" => pc[t] \in {"ucheck", "ugive", "uread", "ustore", "fatal"}
    /\ pc[t] \in {"lcheck", "ltake"} /\ holder = t => depth < MaxDepth
    /\ pc[t] = "lown" => holder = t
    /\ pc[t] = "winc" \/ (then[t] = "wtake" /\ pc[t] \in {"ucheck", "ugive"}) =>
         holder = t /\ depth = 1
    /\ pc[t] = "wtake" \/ (then[t] = "wtake" /\ pc[t] \in {"uread", "ustore"}) =>
         holder # t
Gives(t) ==
    /\ condLock = t <=> pc[t] \in {"bgive", "sstuck"}
    /\ pc[t] # "bgive" => given[t] = 0
    /\ pc[t] = "bgive" => given[t] <= waiting /\ waiting + tokens - given[t] <= UintMax

Calls == \A t \in Threads : Holds(t) /\ Gives(t)

(* What thread has an object and a task, and which thread a join is about  *)
Lives(t) ==
    /\ t = Main \/ object[t] = "none" <=> t = Main \/ pc[t] = "none"
    /\ t = Main => pc[t] \notin {"none", "xgive", "xsuspend", "xdelete", "gone"}
    /\ pc[t] \in {"xgive", "xsuspend"} => t \notin plan.detached
    /\ pc[t] = "xdelete" => t \in plan.detached
    /\ Running /\ object[t] = "freed" => pc[t] = "gone"
    /\ Running /\ barrier[t] = 1 => Ended(t)
Awaits(t) ==
    /\ target[t] # Nobody <=>
         pc[t] \in {"jtake", "jwait", "jbarrier", "jmutex", "jtask", "jobject"}
    /\ target[t] # Nobody => target[t] \notin plan.detached /\ object[target[t]] # "none"
    /\ pc[t] \in {"jbarrier", "jmutex", "jtask", "jobject"} => Ended(target[t])
    /\ pc[t] = "jobject" => pc[target[t]] = "gone"

Threading == \A t \in Threads : Lives(t) /\ Awaits(t)

(* A joiner that has taken join_mutex joins alone, what it joins is there, *)
(* and the barrier is given once the thread has ended, or the joiner has   *)
(* it.                                                                     *)
JoinsAlone(t) ==
    /\ pc[t] \in {"jwait", "jbarrier", "jmutex"} => joinMutex[target[t]]
    /\ pc[t] \in {"jwait", "jbarrier", "jmutex", "jtask", "jobject"} =>
         /\ \A u \in Threads : target[u] = target[t] /\ pc[u] # "jtake" => u = t
         /\ Running => object[target[t]] = "live"
         /\ Running /\ pc[t] # "jobject" => task[target[t]] # "deleted"
IsJoined(t) ==
    t \notin plan.detached =>
        /\ Running /\ task[t] = "deleted" =>
             object[t] = "freed" \/ \E u \in Threads : target[u] = t /\ pc[u] = "jobject"
        /\ Ended(t) => barrier[t] = 1 \/ \E u \in Threads : target[u] = t /\ pc[u] = "jbarrier"

Joining == ~late => ~misuse /\ \A t \in Threads : JoinsAlone(t) /\ IsJoined(t)

(* The one that initialises *)
Initialising ==
    /\ inits <= 1
    /\ once = 0 => inits = 0
    /\ once = 1 => inits = 1
    /\ \A t \in Threads :
         /\ pc[t] = "oinit" => once = 2 /\ inits = 0
         /\ pc[t] = "oset" => once = 2 /\ inits = 1
         /\ pc[t] = "odone" => once = 1
         /\ pc[t] \in {"oinit", "oset"} =>
              \A u \in Threads : pc[u] \in {"oinit", "oset"} => u = t

ThreadInv == TypeOK /\ Calls /\ Threading /\ Joining /\ Initialising

-----------------------------------------------------------------------------

(* A step of PthreadSync takes one thread from one of its places to        *)
(* another.                                                                *)
LEMMA SyncMoves ==
    ASSUME TypeOK, Calls, SyncNext
    PROVE  /\ Running /\ plan' = plan
           /\ \E t \in Threads, l \in SyncLabels :
                pc[t] \in SyncLabels \ {"fatal"} /\ pc' = [pc EXCEPT ![t] = l]
<1> USE DEF Goto, At, Running, SyncLabels, mutex, cond, locals
<1>1. ASSUME NEW t \in Threads, SyncCall(t)
      PROVE  /\ Running /\ plan' = plan
             /\ \E l \in SyncLabels :
                  pc[t] \in SyncLabels \ {"fatal"} /\ pc' = [pc EXCEPT ![t] = l]
  BY <1>1 DEF SyncCall, May, Lock, Unlock, Wait, Signal, Broadcast
<1>2. ASSUME NEW t \in Threads, MutexStep(t)
      PROVE  /\ Running /\ plan' = plan
             /\ \E l \in SyncLabels :
                  pc[t] \in SyncLabels \ {"fatal"} /\ pc' = [pc EXCEPT ![t] = l]
  <2>1. then[t] \in SyncLabels
    BY DEF TypeOK
  <2>2. QED
    BY <1>2, <2>1 DEF MutexStep, Resume, LockCheck, LockTake, LockTimeOut, LockOwn,
      UnlockCheck, UnlockGive, ReadHolder, StoreOwner
<1>3. ASSUME NEW t \in Threads, CondStep(t)
      PROVE  /\ Running /\ plan' = plan
             /\ \E l \in SyncLabels :
                  pc[t] \in SyncLabels \ {"fatal"} /\ pc' = [pc EXCEPT ![t] = l]
  <2>1. CASE BroadcastGive(t)
    <3>1. pc[t] = "bgive" /\ pc' = [pc EXCEPT ![t] = "bgive"]
      BY <2>1 DEF BroadcastGive, TypeOK
    <3>2. QED
      BY <2>1, <3>1 DEF BroadcastGive
  <2>2. CASE ~BroadcastGive(t)
    BY <1>3, <2>2 DEF CondStep, WaitCount, WaitTake, WaitTimeOut, WaitUncount, SignalLock,
      BroadcastLock, BroadcastEnd
  <2>3. QED
    BY <2>1, <2>2
<1>4. QED
  BY <1>1, <1>2, <1>3 DEF SyncNext

(* A step of the others does not touch what PthreadSync keeps, nor a       *)
(* thread that is inside its calls.                                        *)
LEMMA ThreadMoves ==
    ASSUME TypeOK, Calls, Threading,
           NEW t \in Threads, ThreadStep(t) \/ ThreadCall(t)
    PROVE  /\ Running /\ UNCHANGED <<mutex, cond, locals>>
           /\ \A u \in Threads :
                \/ pc'[u] = pc[u]
                \/ pc[u] \in Outside \ {"fatal"} /\ pc'[u] \in Outside
<1> USE DEF At, Goto, Running, Outside, SyncLabels, Labels, TypeOK
<1>1. CASE ExitGive(t) \/ ExitSuspend(t) \/ ExitDetached(t)
  BY <1>1 DEF ExitGive, ExitSuspend, ExitDetached
<1>2. CASE JoinTake(t) \/ JoinWait(t) \/ JoinGiveBarrier(t) \/ JoinGiveMutex(t) \/ JoinFree(t)
  BY <1>2 DEF JoinTake, JoinWait, JoinGiveBarrier, JoinGiveMutex, JoinFree
<1>3. CASE JoinDeleteTask(t)
  BY <1>3 DEF JoinDeleteTask, Threading, Awaits, Ended
<1>4. CASE OnceRead(t) \/ OnceCas(t) \/ OnceInit(t) \/ OnceSet(t) \/ OnceReturn(t)
  BY <1>4 DEF OnceRead, OnceCas, OnceInit, OnceSet, OnceReturn
<1>5. CASE Create(t)
  BY <1>5 DEF Create, Threading, Lives
<1>6. CASE Exit(t) \/ Cancel(t) \/ Join(t) \/ Once(t)
  BY <1>6 DEF Exit, Cancel, Join, Once
<1>7. QED
  BY <1>1, <1>2, <1>3, <1>4, <1>5, <1>6 DEF ThreadStep, ThreadCall

-----------------------------------------------------------------------------
(* Every step keeps the types.                                             *)
LEMMA TypeStep == ThreadInv /\ [Next]_vars => TypeOK'
<1> SUFFICES ASSUME ThreadInv, [Next]_vars PROVE TypeOK'
  OBVIOUS
<1> USE SyncAssumption, ThreadAssumption DEF ThreadInv, TypeOK
<1>1. ASSUME NEW t \in Threads, Lock(t), UNCHANGED threadVars PROVE TypeOK'
  BY <1>1 DEF Lock, Calls, Holds, Gives, Labels, SyncLabels, threadVars,
    lifecycle, joining, initialising, mutex, cond, locals, Resume, Goto, At,
    May
<1>2. ASSUME NEW t \in Threads, Unlock(t), UNCHANGED threadVars PROVE TypeOK'
  BY <1>2 DEF Unlock, Calls, Holds, Gives, Labels, SyncLabels, threadVars,
    lifecycle, joining, initialising, mutex, cond, locals, Resume, Goto, At,
    May
<1>3. ASSUME NEW t \in Threads, Wait(t), UNCHANGED threadVars PROVE TypeOK'
  BY <1>3 DEF Wait, Calls, Holds, Gives, Labels, SyncLabels, threadVars,
    lifecycle, joining, initialising, mutex, cond, locals, Resume, Goto, At,
    May
<1>4. ASSUME NEW t \in Threads, Signal(t), UNCHANGED threadVars PROVE TypeOK'
  BY <1>4 DEF Signal, Calls, Holds, Gives, Labels, SyncLabels, threadVars,
    lifecycle, joining, initialising, mutex, cond, locals, Resume, Goto, At,
    May
<1>5. ASSUME NEW t \in Threads, Broadcast(t), UNCHANGED threadVars PROVE TypeOK'
  BY <1>5 DEF Broadcast, Calls, Holds, Gives, Labels, SyncLabels, threadVars,
    lifecycle, joining, initialising, mutex, cond, locals, Resume, Goto, At,
    May
<1>6. ASSUME NEW t \in Threads, LockCheck(t), UNCHANGED threadVars PROVE TypeOK'
  <2>1. CASE type = "ERRORCHECK" /\ owner = t
    <3>1. pc' \in [Threads -> Labels] /\ then' \in [Threads -> {"idle", "wtake", "wdec"}]
      BY SMTT(30), <1>6, <2>1 DEF LockCheck, Resume, Goto, Labels, SyncLabels
    <3>2. QED
      BY <1>6, <2>1, <3>1 DEF LockCheck, mutex, cond, locals, threadVars, lifecycle,
        joining, initialising
  <2>2. CASE ~(type = "ERRORCHECK" /\ owner = t)
    BY <1>6, <2>2 DEF LockCheck, Goto, Labels, SyncLabels, mutex, cond, locals,
      threadVars, lifecycle, joining, initialising
  <2>3. QED
    BY <2>1, <2>2
<1>7. ASSUME NEW t \in Threads, LockTake(t), UNCHANGED threadVars PROVE TypeOK'
  BY <1>7 DEF LockTake, Calls, Holds, Gives, Labels, SyncLabels, threadVars,
    lifecycle, joining, initialising, mutex, cond, locals, Resume, Goto, At,
    May
<1>8. ASSUME NEW t \in Threads, LockTimeOut(t), UNCHANGED threadVars PROVE TypeOK'
  BY <1>8 DEF LockTimeOut, Calls, Holds, Gives, Labels, SyncLabels,
    threadVars, lifecycle, joining, initialising, mutex, cond, locals,
    Resume, Goto, At, May
<1>9. ASSUME NEW t \in Threads, LockOwn(t), UNCHANGED threadVars PROVE TypeOK'
  <2>1. pc' \in [Threads -> Labels] /\ then' \in [Threads -> {"idle", "wtake", "wdec"}]
    BY <1>9 DEF LockOwn, Resume, Goto, Labels, SyncLabels
  <2>2. QED
    BY ZenonT(40), <1>9, <2>1 DEF LockOwn, mutex, cond, locals, threadVars, lifecycle, joining, initialising
<1>10. ASSUME NEW t \in Threads, UnlockCheck(t), UNCHANGED threadVars PROVE TypeOK'
  <2>1. CASE type # "DEFAULT" /\ owner # t
    BY <1>10, <2>1 DEF UnlockCheck, Goto, Labels, SyncLabels, mutex, cond, locals,
      threadVars, lifecycle, joining, initialising
  <2>2. CASE ~(type # "DEFAULT" /\ owner # t)
    BY <1>10, <2>2 DEF UnlockCheck, Goto, Labels, SyncLabels, mutex, cond, locals,
      threadVars, lifecycle, joining, initialising
  <2>3. QED
    BY <2>1, <2>2
<1>11. ASSUME NEW t \in Threads, UnlockGive(t), UNCHANGED threadVars PROVE TypeOK'
  BY <1>11 DEF UnlockGive, Calls, Holds, Gives, Labels, SyncLabels,
    threadVars, lifecycle, joining, initialising, mutex, cond, locals,
    Resume, Goto, At, May
<1>12. ASSUME NEW t \in Threads, ReadHolder(t), UNCHANGED threadVars PROVE TypeOK'
  BY <1>12 DEF ReadHolder, Calls, Holds, Gives, Labels, SyncLabels,
    threadVars, lifecycle, joining, initialising, mutex, cond, locals,
    Resume, Goto, At, May
<1>13. ASSUME NEW t \in Threads, StoreOwner(t), UNCHANGED threadVars PROVE TypeOK'
  BY <1>13 DEF StoreOwner, Calls, Holds, Gives, Labels, SyncLabels,
    threadVars, lifecycle, joining, initialising, mutex, cond, locals,
    Resume, Goto, At, May
<1>14. ASSUME NEW t \in Threads, WaitCount(t), UNCHANGED threadVars PROVE TypeOK'
  BY <1>14 DEF WaitCount, Calls, Holds, Gives, Labels, SyncLabels,
    threadVars, lifecycle, joining, initialising, mutex, cond, locals,
    Resume, Goto, At, May
<1>15. ASSUME NEW t \in Threads, WaitTake(t), UNCHANGED threadVars PROVE TypeOK'
  BY <1>15 DEF WaitTake, Calls, Holds, Gives, Labels, SyncLabels, threadVars,
    lifecycle, joining, initialising, mutex, cond, locals, Resume, Goto, At,
    May
<1>16. ASSUME NEW t \in Threads, WaitTimeOut(t), UNCHANGED threadVars PROVE TypeOK'
  BY <1>16 DEF WaitTimeOut, Calls, Holds, Gives, Labels, SyncLabels,
    threadVars, lifecycle, joining, initialising, mutex, cond, locals,
    Resume, Goto, At, May
<1>17. ASSUME NEW t \in Threads, WaitUncount(t), UNCHANGED threadVars PROVE TypeOK'
  BY <1>17 DEF WaitUncount, Calls, Holds, Gives, Labels, SyncLabels,
    threadVars, lifecycle, joining, initialising, mutex, cond, locals,
    Resume, Goto, At, May
<1>18. ASSUME NEW t \in Threads, SignalLock(t), UNCHANGED threadVars PROVE TypeOK'
  BY <1>18 DEF SignalLock, Calls, Holds, Gives, Labels, SyncLabels,
    threadVars, lifecycle, joining, initialising, mutex, cond, locals,
    Resume, Goto, At, May
<1>19. ASSUME NEW t \in Threads, BroadcastLock(t), UNCHANGED threadVars PROVE TypeOK'
  BY <1>19 DEF BroadcastLock, Calls, Holds, Gives, Labels, SyncLabels,
    threadVars, lifecycle, joining, initialising, mutex, cond, locals,
    Resume, Goto, At, May
<1>20. ASSUME NEW t \in Threads, BroadcastGive(t), UNCHANGED threadVars PROVE TypeOK'
  BY <1>20 DEF BroadcastGive, Calls, Holds, Gives, Labels, SyncLabels,
    threadVars, lifecycle, joining, initialising, mutex, cond, locals,
    Resume, Goto, At, May
<1>21. ASSUME NEW t \in Threads, BroadcastEnd(t), UNCHANGED threadVars PROVE TypeOK'
  BY <1>21 DEF BroadcastEnd, Calls, Holds, Gives, Labels, SyncLabels,
    threadVars, lifecycle, joining, initialising, mutex, cond, locals,
    Resume, Goto, At, May
<1>22. ASSUME NEW t \in Threads, ExitGive(t) PROVE TypeOK'
  BY <1>22 DEF ExitGive, Calls, Holds, Gives, Labels, SyncLabels, threadVars,
    lifecycle, joining, initialising, mutex, cond, locals, Misuse, Goto, At
<1>23. ASSUME NEW t \in Threads, ExitSuspend(t) PROVE TypeOK'
  BY <1>23 DEF ExitSuspend, Calls, Holds, Gives, Labels, SyncLabels,
    threadVars, lifecycle, joining, initialising, mutex, cond, locals,
    Misuse, Goto, At
<1>24. ASSUME NEW t \in Threads, ExitDetached(t) PROVE TypeOK'
  BY <1>24 DEF ExitDetached, Calls, Holds, Gives, Labels, SyncLabels,
    threadVars, lifecycle, joining, initialising, mutex, cond, locals,
    Misuse, Goto, At
<1>25. ASSUME NEW t \in Threads, JoinTake(t) PROVE TypeOK'
  <2>1. target[t] \in Threads
    BY <1>25 DEF JoinTake, Threading, Awaits, At
  <2>2. pc' \in [Threads -> Labels] /\ target' \in [Threads -> (Threads \ {Main}) \cup {Nobody}]
    <3>1. \/ /\ pc' = [pc EXCEPT ![t] = "idle"]
             /\ target' = [target EXCEPT ![t] = Nobody]
          \/ pc' = [pc EXCEPT ![t] = "jwait"] /\ target' = target
      BY <1>25 DEF JoinTake, Goto
    <3>2. QED
      BY <3>1 DEF Labels, SyncLabels
  <2>3. joinMutex' \in [Threads -> BOOLEAN] /\ misuse' \in BOOLEAN /\ late' \in BOOLEAN
    BY <1>25, <2>1 DEF JoinTake, Misuse
  <2>4. QED
    BY <1>25, <2>2, <2>3 DEF JoinTake, mutex, cond, locals, initialising
<1>26. ASSUME NEW t \in Threads, JoinWait(t) PROVE TypeOK'
  <2>1. target[t] \in Threads
    BY <1>26 DEF JoinWait, Threading, Awaits, At
  <2>2. pc' \in [Threads -> Labels]
    BY <1>26, <2>1 DEF JoinWait, Goto, Labels
  <2>3. barrier' \in [Threads -> 0 .. 1] /\ misuse' \in BOOLEAN
    BY <1>26, <2>1 DEF JoinWait, Misuse
  <2>4. QED
    BY <1>26, <2>2, <2>3 DEF JoinWait, mutex, cond, locals, initialising, joining
<1>27. ASSUME NEW t \in Threads, JoinGiveBarrier(t) PROVE TypeOK'
  <2>1. target[t] \in Threads
    BY <1>27 DEF JoinGiveBarrier, Threading, Awaits, At
  <2>2. pc' \in [Threads -> Labels]
    BY <1>27, <2>1 DEF JoinGiveBarrier, Goto, Labels
  <2>3. barrier' \in [Threads -> 0 .. 1] /\ misuse' \in BOOLEAN
    BY <1>27, <2>1 DEF JoinGiveBarrier, Misuse
  <2>4. QED
    BY <1>27, <2>2, <2>3 DEF JoinGiveBarrier, mutex, cond, locals, initialising, joining
<1>28. ASSUME NEW t \in Threads, JoinGiveMutex(t) PROVE TypeOK'
  BY <1>28 DEF JoinGiveMutex, Calls, Holds, Gives, Labels, SyncLabels,
    threadVars, lifecycle, joining, initialising, mutex, cond, locals,
    Misuse, Goto, At
<1>29. ASSUME NEW t \in Threads, JoinDeleteTask(t) PROVE TypeOK'
  BY <1>29 DEF JoinDeleteTask, Calls, Holds, Gives, Labels, SyncLabels,
    threadVars, lifecycle, joining, initialising, mutex, cond, locals,
    Misuse, Goto, At
<1>30. ASSUME NEW t \in Threads, JoinFree(t) PROVE TypeOK'
  BY <1>30 DEF JoinFree, Calls, Holds, Gives, Labels, SyncLabels, threadVars,
    lifecycle, joining, initialising, mutex, cond, locals, Misuse, Goto, At
<1>31. ASSUME NEW t \in Threads, OnceRead(t) PROVE TypeOK'
  BY <1>31 DEF OnceRead, Calls, Holds, Gives, Labels, SyncLabels, threadVars,
    lifecycle, joining, initialising, mutex, cond, locals, Misuse, Goto, At
<1>32. ASSUME NEW t \in Threads, OnceCas(t) PROVE TypeOK'
  <2>1. pc' \in [Threads -> Labels] /\ once' \in 0 .. 2
    BY <1>32 DEF OnceCas, Goto, Labels
  <2>2. QED
    BY <1>32, <2>1 DEF OnceCas, mutex, cond, locals, lifecycle, joining
<1>33. ASSUME NEW t \in Threads, OnceInit(t) PROVE TypeOK'
  BY <1>33 DEF OnceInit, Calls, Holds, Gives, Labels, SyncLabels, threadVars,
    lifecycle, joining, initialising, mutex, cond, locals, Misuse, Goto, At
<1>34. ASSUME NEW t \in Threads, OnceSet(t) PROVE TypeOK'
  BY <1>34 DEF OnceSet, Calls, Holds, Gives, Labels, SyncLabels, threadVars,
    lifecycle, joining, initialising, mutex, cond, locals, Misuse, Goto, At
<1>35. ASSUME NEW t \in Threads, OnceReturn(t) PROVE TypeOK'
  BY <1>35 DEF OnceReturn, Calls, Holds, Gives, Labels, SyncLabels,
    threadVars, lifecycle, joining, initialising, mutex, cond, locals,
    Misuse, Goto, At
<1>36. ASSUME NEW t \in Threads, Create(t) PROVE TypeOK'
  BY <1>36 DEF Create, Calls, Holds, Gives, Labels, SyncLabels, threadVars,
    lifecycle, joining, initialising, mutex, cond, locals, Misuse, Goto, At
<1>37. ASSUME NEW t \in Threads, Exit(t) PROVE TypeOK'
  BY <1>37 DEF Exit, Calls, Holds, Gives, Labels, SyncLabels, threadVars,
    lifecycle, joining, initialising, mutex, cond, locals, Misuse, Goto, At
<1>38. ASSUME NEW t \in Threads, Cancel(t) PROVE TypeOK'
  BY <1>38 DEF Cancel, Calls, Holds, Gives, Labels, SyncLabels, threadVars,
    lifecycle, joining, initialising, mutex, cond, locals, Misuse, Goto, At
<1>39. ASSUME NEW t \in Threads, Join(t) PROVE TypeOK'
  BY <1>39 DEF Join, Calls, Holds, Gives, Labels, SyncLabels, threadVars,
    lifecycle, joining, initialising, mutex, cond, locals, Misuse, Goto, At
<1>40. ASSUME NEW t \in Threads, Once(t) PROVE TypeOK'
  BY <1>40 DEF Once, Calls, Holds, Gives, Labels, SyncLabels, threadVars,
    lifecycle, joining, initialising, mutex, cond, locals, Misuse, Goto, At
<1>41. CASE UNCHANGED vars
  BY <1>41 DEF vars, syncVars, mutex, cond, locals, lifecycle, joining,
    initialising, threadVars, Calls, Holds, Gives, Labels, SyncLabels,
    threadVars, lifecycle, joining, initialising
<1>42. ASSUME SyncNext, UNCHANGED threadVars PROVE TypeOK'
  BY <1>1, <1>2, <1>3, <1>4, <1>5, <1>6, <1>7, <1>8, <1>9, <1>10, <1>11,
    <1>12, <1>13, <1>14, <1>15, <1>16, <1>17, <1>18, <1>19, <1>20, <1>21,
    <1>42
    DEF SyncNext, SyncCall, MutexStep, CondStep
<1>43. ASSUME NEW t \in Threads, ThreadStep(t) \/ ThreadCall(t) PROVE TypeOK'
  BY <1>22, <1>23, <1>24, <1>25, <1>26, <1>27, <1>28, <1>29, <1>30, <1>31,
    <1>32, <1>33, <1>34, <1>35, <1>36, <1>37, <1>38, <1>39, <1>40, <1>43
    DEF ThreadStep, ThreadCall
<1>44. QED
  BY <1>41, <1>42, <1>43 DEF Next, Sync

(* Every step keeps what a thread holds and has counted where it is.       *)
LEMMA CallsStep == ThreadInv /\ [Next]_vars => Calls'
<1> SUFFICES ASSUME ThreadInv, [Next]_vars PROVE Calls'
  OBVIOUS
<1> USE SyncAssumption, ThreadAssumption DEF ThreadInv, TypeOK
<1>1. ASSUME NEW t \in Threads, Lock(t), UNCHANGED threadVars PROVE Calls'
  BY <1>1 DEF Lock, Calls, Holds, Gives, mutex, cond, locals, Resume, Goto,
    At, May
<1>2. ASSUME NEW t \in Threads, Unlock(t), UNCHANGED threadVars PROVE Calls'
  BY <1>2 DEF Unlock, Calls, Holds, Gives, mutex, cond, locals, Resume, Goto,
    At, May
<1>3. ASSUME NEW t \in Threads, Wait(t), UNCHANGED threadVars PROVE Calls'
  BY <1>3 DEF Wait, Calls, Holds, Gives, mutex, cond, locals, Resume, Goto,
    At, May
<1>4. ASSUME NEW t \in Threads, Signal(t), UNCHANGED threadVars PROVE Calls'
  BY <1>4 DEF Signal, Calls, Holds, Gives, mutex, cond, locals, Resume, Goto,
    At, May
<1>5. ASSUME NEW t \in Threads, Broadcast(t), UNCHANGED threadVars PROVE Calls'
  BY <1>5 DEF Broadcast, Calls, Holds, Gives, mutex, cond, locals, Resume,
    Goto, At, May
<1>6. ASSUME NEW t \in Threads, LockCheck(t), UNCHANGED threadVars PROVE Calls'
  BY <1>6 DEF LockCheck, Calls, Holds, Gives, mutex, cond, locals, Resume,
    Goto, At, May
<1>7. ASSUME NEW t \in Threads, LockTake(t), UNCHANGED threadVars PROVE Calls'
  BY <1>7 DEF LockTake, Calls, Holds, Gives, mutex, cond, locals, Resume,
    Goto, At, May
<1>8. ASSUME NEW t \in Threads, LockTimeOut(t), UNCHANGED threadVars PROVE Calls'
  BY <1>8 DEF LockTimeOut, Calls, Holds, Gives, mutex, cond, locals, Resume,
    Goto, At, May
<1>9. ASSUME NEW t \in Threads, LockOwn(t), UNCHANGED threadVars PROVE Calls'
  BY <1>9 DEF LockOwn, Calls, Holds, Gives, mutex, cond, locals, Resume,
    Goto, At, May
<1>10. ASSUME NEW t \in Threads, UnlockCheck(t), UNCHANGED threadVars PROVE Calls'
  BY <1>10 DEF UnlockCheck, Calls, Holds, Gives, mutex, cond, locals, Resume,
    Goto, At, May
<1>11. ASSUME NEW t \in Threads, UnlockGive(t), UNCHANGED threadVars PROVE Calls'
  BY <1>11 DEF UnlockGive, Calls, Holds, Gives, mutex, cond, locals, Resume,
    Goto, At, May
<1>12. ASSUME NEW t \in Threads, ReadHolder(t), UNCHANGED threadVars PROVE Calls'
  BY <1>12 DEF ReadHolder, Calls, Holds, Gives, mutex, cond, locals, Resume,
    Goto, At, May
<1>13. ASSUME NEW t \in Threads, StoreOwner(t), UNCHANGED threadVars PROVE Calls'
  BY <1>13 DEF StoreOwner, Calls, Holds, Gives, mutex, cond, locals, Resume,
    Goto, At, May
<1>14. ASSUME NEW t \in Threads, WaitCount(t), UNCHANGED threadVars PROVE Calls'
  BY <1>14 DEF WaitCount, Calls, Holds, Gives, mutex, cond, locals, Resume,
    Goto, At, May
<1>15. ASSUME NEW t \in Threads, WaitTake(t), UNCHANGED threadVars PROVE Calls'
  BY <1>15 DEF WaitTake, Calls, Holds, Gives, mutex, cond, locals, Resume,
    Goto, At, May
<1>16. ASSUME NEW t \in Threads, WaitTimeOut(t), UNCHANGED threadVars PROVE Calls'
  BY <1>16 DEF WaitTimeOut, Calls, Holds, Gives, mutex, cond, locals, Resume,
    Goto, At, May
<1>17. ASSUME NEW t \in Threads, WaitUncount(t), UNCHANGED threadVars PROVE Calls'
  BY <1>17 DEF WaitUncount, Calls, Holds, Gives, mutex, cond, locals, Resume,
    Goto, At, May
<1>18. ASSUME NEW t \in Threads, SignalLock(t), UNCHANGED threadVars PROVE Calls'
  BY <1>18 DEF SignalLock, Calls, Holds, Gives, mutex, cond, locals, Resume,
    Goto, At, May
<1>19. ASSUME NEW t \in Threads, BroadcastLock(t), UNCHANGED threadVars PROVE Calls'
  BY <1>19 DEF BroadcastLock, Calls, Holds, Gives, mutex, cond, locals,
    Resume, Goto, At, May
<1>20. ASSUME NEW t \in Threads, BroadcastGive(t), UNCHANGED threadVars PROVE Calls'
  BY <1>20 DEF BroadcastGive, Calls, Holds, Gives, mutex, cond, locals,
    Resume, Goto, At, May
<1>21. ASSUME NEW t \in Threads, BroadcastEnd(t), UNCHANGED threadVars PROVE Calls'
  BY <1>21 DEF BroadcastEnd, Calls, Holds, Gives, mutex, cond, locals,
    Resume, Goto, At, May
<1>22. CASE UNCHANGED vars
  BY <1>22 DEF vars, syncVars, mutex, cond, locals, lifecycle, joining,
    initialising, threadVars, Calls, Holds, Gives
<1>23. ASSUME NEW t \in Threads, ThreadStep(t) \/ ThreadCall(t) PROVE Calls'
  <2>1. /\ UNCHANGED <<mutex, cond, locals>>
        /\ \A u \in Threads :
             \/ pc'[u] = pc[u]
             \/ pc[u] \in Outside \ {"fatal"} /\ pc'[u] \in Outside
    BY <1>23, ThreadMoves
  <2>2. QED
    BY <2>1 DEF Calls, Holds, Gives, mutex, cond, locals, Outside, Labels, SyncLabels
<1>24. ASSUME SyncNext, UNCHANGED threadVars PROVE Calls'
  BY <1>1, <1>2, <1>3, <1>4, <1>5, <1>6, <1>7, <1>8, <1>9, <1>10, <1>11,
    <1>12, <1>13, <1>14, <1>15, <1>16, <1>17, <1>18, <1>19, <1>20, <1>21,
    <1>24
    DEF SyncNext, SyncCall, MutexStep, CondStep
<1>25. QED
  BY <1>22, <1>24, <1>23 DEF Next, Sync

(* Every step keeps objects, tasks and joins where the threads are.        *)
LEMMA ThreadingStep == ThreadInv /\ [Next]_vars => Threading'
<1> SUFFICES ASSUME ThreadInv, [Next]_vars PROVE Threading'
  OBVIOUS
<1> USE SyncAssumption, ThreadAssumption DEF ThreadInv, TypeOK
<1>1. ASSUME NEW t \in Threads, ExitGive(t) PROVE Threading'
  BY <1>1 DEF ExitGive, Threading, Lives, Awaits, Ended, Running, Calls,
    Holds, mutex, cond, locals, lifecycle, joining, initialising, threadVars,
    Misuse, Goto, At
<1>2. ASSUME NEW t \in Threads, ExitSuspend(t) PROVE Threading'
  BY <1>2 DEF ExitSuspend, Threading, Lives, Awaits, Ended, Running, Calls,
    Holds, mutex, cond, locals, lifecycle, joining, initialising, threadVars,
    Misuse, Goto, At
<1>3. ASSUME NEW t \in Threads, ExitDetached(t) PROVE Threading'
  BY <1>3 DEF ExitDetached, Threading, Lives, Awaits, Ended, Running, Calls,
    Holds, mutex, cond, locals, lifecycle, joining, initialising, threadVars,
    Misuse, Goto, At
<1>4. ASSUME NEW t \in Threads, JoinTake(t) PROVE Threading'
  BY <1>4 DEF JoinTake, Threading, Lives, Awaits, Ended, Running, Calls,
    Holds, mutex, cond, locals, lifecycle, joining, initialising, threadVars,
    Misuse, Goto, At
<1>5. ASSUME NEW t \in Threads, JoinWait(t) PROVE Threading'
  BY <1>5 DEF JoinWait, Threading, Lives, Awaits, Ended, Running, Calls,
    Holds, mutex, cond, locals, lifecycle, joining, initialising, threadVars,
    Misuse, Goto, At
<1>6. ASSUME NEW t \in Threads, JoinGiveBarrier(t) PROVE Threading'
  BY <1>6 DEF JoinGiveBarrier, Threading, Lives, Awaits, Ended, Running,
    Calls, Holds, mutex, cond, locals, lifecycle, joining, initialising,
    threadVars, Misuse, Goto, At
<1>7. ASSUME NEW t \in Threads, JoinGiveMutex(t) PROVE Threading'
  BY <1>7 DEF JoinGiveMutex, Threading, Lives, Awaits, Ended, Running, Calls,
    Holds, mutex, cond, locals, lifecycle, joining, initialising, threadVars,
    Misuse, Goto, At
<1>8. ASSUME NEW t \in Threads, JoinDeleteTask(t) PROVE Threading'
  BY SMTT(30), <1>8 DEF JoinDeleteTask, Threading, Lives, Awaits, Ended, Running,
    Calls, Holds, mutex, cond, locals, lifecycle, joining, initialising,
    threadVars, Misuse, Goto, At
<1>9. ASSUME NEW t \in Threads, JoinFree(t) PROVE Threading'
  BY <1>9 DEF JoinFree, Threading, Lives, Awaits, Ended, Running, Calls,
    Holds, mutex, cond, locals, lifecycle, joining, initialising, threadVars,
    Misuse, Goto, At
<1>10. ASSUME NEW t \in Threads, OnceRead(t) PROVE Threading'
  BY <1>10 DEF OnceRead, Threading, Lives, Awaits, Ended, Running, Calls,
    Holds, mutex, cond, locals, lifecycle, joining, initialising, threadVars,
    Misuse, Goto, At
<1>11. ASSUME NEW t \in Threads, OnceCas(t) PROVE Threading'
  BY <1>11 DEF OnceCas, Threading, Lives, Awaits, Ended, Running, Calls,
    Holds, mutex, cond, locals, lifecycle, joining, initialising, threadVars,
    Misuse, Goto, At
<1>12. ASSUME NEW t \in Threads, OnceInit(t) PROVE Threading'
  BY <1>12 DEF OnceInit, Threading, Lives, Awaits, Ended, Running, Calls,
    Holds, mutex, cond, locals, lifecycle, joining, initialising, threadVars,
    Misuse, Goto, At
<1>13. ASSUME NEW t \in Threads, OnceSet(t) PROVE Threading'
  BY <1>13 DEF OnceSet, Threading, Lives, Awaits, Ended, Running, Calls,
    Holds, mutex, cond, locals, lifecycle, joining, initialising, threadVars,
    Misuse, Goto, At
<1>14. ASSUME NEW t \in Threads, OnceReturn(t) PROVE Threading'
  BY <1>14 DEF OnceReturn, Threading, Lives, Awaits, Ended, Running, Calls,
    Holds, mutex, cond, locals, lifecycle, joining, initialising, threadVars,
    Misuse, Goto, At
<1>15. ASSUME NEW t \in Threads, Create(t) PROVE Threading'
  BY SMTT(30), <1>15 DEF Create, Threading, Lives, Awaits, Ended, Running, Calls,
    Holds, mutex, cond, locals, lifecycle, joining, initialising, threadVars,
    Misuse, Goto, At
<1>16. ASSUME NEW t \in Threads, Exit(t) PROVE Threading'
  BY <1>16 DEF Exit, Threading, Lives, Awaits, Ended, Running, Calls, Holds,
    mutex, cond, locals, lifecycle, joining, initialising, threadVars,
    Misuse, Goto, At
<1>17. ASSUME NEW t \in Threads, Cancel(t) PROVE Threading'
  BY <1>17 DEF Cancel, Threading, Lives, Awaits, Ended, Running, Calls,
    Holds, mutex, cond, locals, lifecycle, joining, initialising, threadVars,
    Misuse, Goto, At
<1>18. ASSUME NEW t \in Threads, Join(t) PROVE Threading'
  BY <1>18 DEF Join, Threading, Lives, Awaits, Ended, Running, Calls, Holds,
    mutex, cond, locals, lifecycle, joining, initialising, threadVars,
    Misuse, Goto, At
<1>19. ASSUME NEW t \in Threads, Once(t) PROVE Threading'
  BY <1>19 DEF Once, Threading, Lives, Awaits, Ended, Running, Calls, Holds,
    mutex, cond, locals, lifecycle, joining, initialising, threadVars,
    Misuse, Goto, At
<1>20. CASE UNCHANGED vars
  BY <1>20 DEF vars, syncVars, mutex, cond, locals, lifecycle, joining,
    initialising, threadVars, Threading, Lives, Awaits, Ended, Running,
    Calls, Holds
<1>21. ASSUME SyncNext, UNCHANGED threadVars PROVE Threading'
  <2>1. PICK t \in Threads, l \in SyncLabels :
          /\ pc[t] \in SyncLabels \ {"fatal"} /\ pc' = [pc EXCEPT ![t] = l]
          /\ Running /\ plan' = plan
    BY <1>21, SyncMoves
  <2>2. QED
    BY <1>21, <2>1 DEF Threading, Lives, Awaits, Ended, Running, SyncLabels,
      threadVars, lifecycle, joining
<1>22. ASSUME NEW t \in Threads, ThreadStep(t) \/ ThreadCall(t) PROVE Threading'
  BY <1>1, <1>2, <1>3, <1>4, <1>5, <1>6, <1>7, <1>8, <1>9, <1>10, <1>11,
    <1>12, <1>13, <1>14, <1>15, <1>16, <1>17, <1>18, <1>19, <1>22
    DEF ThreadStep, ThreadCall
<1>23. QED
  BY <1>20, <1>21, <1>22 DEF Next, Sync

(* As long as nobody is late, a joiner stays alone with what it joins.     *)
LEMMA JoiningStep == ThreadInv /\ [Next]_vars => Joining'
<1> SUFFICES ASSUME ThreadInv, [Next]_vars PROVE Joining'
  OBVIOUS
<1> USE SyncAssumption, ThreadAssumption DEF ThreadInv, TypeOK
<1>1. ASSUME NEW t \in Threads, ExitGive(t) PROVE Joining'
  BY <1>1 DEF ExitGive, Joining, JoinsAlone, IsJoined, Threading, Lives,
    Awaits, Ended, Running, GivenBack, mutex, cond, locals, lifecycle,
    joining, initialising, threadVars, Misuse, Goto, At
<1>2. ASSUME NEW t \in Threads, ExitSuspend(t) PROVE Joining'
  BY <1>2 DEF ExitSuspend, Joining, JoinsAlone, IsJoined, Threading, Lives,
    Awaits, Ended, Running, GivenBack, mutex, cond, locals, lifecycle,
    joining, initialising, threadVars, Misuse, Goto, At
<1>3. ASSUME NEW t \in Threads, ExitDetached(t) PROVE Joining'
  BY <1>3 DEF ExitDetached, Joining, JoinsAlone, IsJoined, Threading, Lives,
    Awaits, Ended, Running, GivenBack, mutex, cond, locals, lifecycle,
    joining, initialising, threadVars, Misuse, Goto, At
<1>4. ASSUME NEW t \in Threads, JoinTake(t) PROVE Joining'
  <2>1. PICK u \in Threads : target[t] = u /\ u \notin plan.detached /\ object[u] # "none"
    BY <1>4 DEF JoinTake, Threading, Awaits, At
  <2>2. SUFFICES ASSUME ~late' PROVE Joining'
    BY DEF Joining
  <2>3. /\ ~late /\ ~misuse /\ object[u] = "live"
        /\ \A v \in Threads : target[v] = u => pc[v] \notin {"jtask", "jobject"}
    BY <1>4, <2>1, <2>2 DEF JoinTake, GivenBack, Joining
  <2>4. ~misuse'
    BY <1>4, <2>1, <2>3 DEF JoinTake, Misuse
  <2>5. CASE joinMutex[u] \/ u = t
    <3>1. /\ pc' = [pc EXCEPT ![t] = "idle"] /\ target' = [target EXCEPT ![t] = Nobody]
          /\ joinMutex' = [joinMutex EXCEPT ![u] = TRUE]
          /\ UNCHANGED <<plan, object, task, barrier>>
      BY <1>4, <2>1, <2>5 DEF JoinTake, Goto, mutex
    <3>2. pc[t] = "jtake" /\ Running
      BY <1>4 DEF JoinTake, At, Running
    <3>3. QED
      BY <2>2, <2>3, <2>4, <3>1, <3>2 DEF Joining, JoinsAlone, IsJoined, Ended, Running,
        Threading, Awaits
  <2>6. CASE ~joinMutex[u] /\ u # t
    <3>1. /\ pc' = [pc EXCEPT ![t] = "jwait"] /\ target' = target
          /\ joinMutex' = [joinMutex EXCEPT ![u] = TRUE]
          /\ UNCHANGED <<plan, object, task, barrier>>
      BY <1>4, <2>1, <2>6 DEF JoinTake, Goto, mutex
    <3>2. pc[t] = "jtake" /\ Running
      BY <1>4 DEF JoinTake, At, Running
    <3>3. \A v \in Threads : target[v] = u => pc[v] \notin {"jwait", "jbarrier", "jmutex"}
      BY <2>3, <2>6 DEF Joining, JoinsAlone
    <3>4. task[u] # "deleted"
      BY <2>1, <2>3, <3>2 DEF Joining, IsJoined
    <3>5. ASSUME NEW v \in Threads PROVE JoinsAlone(v)'
      <4>1. CASE v = t
        BY <2>1, <2>3, <3>1, <3>2, <3>3, <3>4, <4>1 DEF JoinsAlone, Threading, Awaits, Running
      <4>2. CASE v # t /\ pc[v] \in {"jwait", "jbarrier", "jmutex", "jtask", "jobject"}
        <5>1. target[v] # u
          BY <2>3, <3>3, <4>2
        <5>2. QED
          BY <2>1, <2>3, <3>1, <3>2, <4>2, <5>1 DEF Joining, JoinsAlone, Running
      <4>3. CASE v # t /\ pc[v] \notin {"jwait", "jbarrier", "jmutex", "jtask", "jobject"}
        BY <3>1, <4>3 DEF JoinsAlone
      <4>4. QED
        BY <4>1, <4>2, <4>3
    <3>6. ASSUME NEW v \in Threads PROVE IsJoined(v)'
      BY <2>3, <3>1, <3>2 DEF Joining, IsJoined, Ended, Running
    <3>7. QED
      BY <2>4, <3>5, <3>6 DEF Joining
  <2>7. QED
    BY <2>5, <2>6
<1>5. ASSUME NEW t \in Threads, JoinWait(t) PROVE Joining'
  BY <1>5 DEF JoinWait, Joining, JoinsAlone, IsJoined, Threading, Lives,
    Awaits, Ended, Running, GivenBack, mutex, cond, locals, lifecycle,
    joining, initialising, threadVars, Misuse, Goto, At
<1>6. ASSUME NEW t \in Threads, JoinGiveBarrier(t) PROVE Joining'
  BY <1>6 DEF JoinGiveBarrier, Joining, JoinsAlone, IsJoined, Threading,
    Lives, Awaits, Ended, Running, GivenBack, mutex, cond, locals, lifecycle,
    joining, initialising, threadVars, Misuse, Goto, At
<1>7. ASSUME NEW t \in Threads, JoinGiveMutex(t) PROVE Joining'
  BY <1>7 DEF JoinGiveMutex, Joining, JoinsAlone, IsJoined, Threading, Lives,
    Awaits, Ended, Running, GivenBack, mutex, cond, locals, lifecycle,
    joining, initialising, threadVars, Misuse, Goto, At
<1>8. ASSUME NEW t \in Threads, JoinDeleteTask(t) PROVE Joining'
  <2>1. PICK u \in Threads : /\ target[t] = u /\ u \notin plan.detached
                            /\ Ended(u) /\ u # t
    BY <1>8 DEF JoinDeleteTask, Threading, Awaits, Ended, At
  <2>2. SUFFICES ASSUME ~late' PROVE Joining'
    BY DEF Joining
  <2>3. /\ ~late /\ ~misuse /\ Running /\ pc[t] = "jtask"
        /\ object[u] = "live" /\ task[u] # "deleted"
        /\ \A v \in Threads : target[v] = u /\ pc[v] # "jtake" => v = t
    BY <1>8, <2>1, <2>2 DEF JoinDeleteTask, Joining, JoinsAlone, At, Running
  <2>4. ~misuse'
    BY <1>8, <2>1, <2>3 DEF JoinDeleteTask, Misuse
  <2>5. /\ pc' = [pc EXCEPT ![t] = "jobject", ![u] = "gone"]
        /\ task' = [task EXCEPT ![u] = "deleted"]
        /\ UNCHANGED <<plan, object, barrier, joinMutex, target>>
    BY <1>8, <2>1 DEF JoinDeleteTask, mutex, joining
  <2>6. target[u] = Nobody
    BY <2>1 DEF Threading, Awaits, Ended
  <2>7. ASSUME NEW v \in Threads PROVE JoinsAlone(v)'
    <3>1. CASE v = t
      BY <2>1, <2>3, <2>5, <2>6, <3>1 DEF JoinsAlone, Running
    <3>2. CASE v = u
      BY <2>5, <3>2 DEF JoinsAlone
    <3>3. CASE v # t /\ v # u /\ pc[v] \in {"jwait", "jbarrier", "jmutex", "jtask", "jobject"}
      <4>1. target[v] # u /\ JoinsAlone(v) /\ pc'[v] = pc[v]
        BY <2>3, <2>5, <3>3 DEF Joining
      <4>2. \A w \in Threads : target[w] = target[v] /\ pc'[w] # "jtake" => w = v
        BY <2>1, <2>3, <2>5, <2>6, <3>3, <4>1 DEF JoinsAlone, Threading, Awaits
      <4>3. task'[target[v]] = task[target[v]]
        BY <2>5, <4>1
      <4>4. QED
        BY <2>3, <2>5, <3>3, <4>1, <4>2, <4>3 DEF JoinsAlone
    <3>4. CASE v # t /\ v # u /\ pc[v] \notin {"jwait", "jbarrier", "jmutex", "jtask", "jobject"}
      BY <2>5, <3>4 DEF JoinsAlone
    <3>5. QED
      BY <3>1, <3>2, <3>3, <3>4
  <2>8. ASSUME NEW v \in Threads PROVE IsJoined(v)'
    <3>1. CASE v = u
      BY SMTT(30), <2>1, <2>2, <2>3, <2>5, <3>1 DEF Joining, IsJoined, Ended
    <3>2. CASE v # u
      BY SMTT(30), <2>1, <2>2, <2>3, <2>5, <2>6, <3>2 DEF Joining, IsJoined, Ended
    <3>3. QED
      BY <3>1, <3>2
  <2>9. QED
    BY <2>4, <2>7, <2>8 DEF Joining
<1>9. ASSUME NEW t \in Threads, JoinFree(t) PROVE Joining'
  BY <1>9 DEF JoinFree, Joining, JoinsAlone, IsJoined, Threading, Lives,
    Awaits, Ended, Running, GivenBack, mutex, cond, locals, lifecycle,
    joining, initialising, threadVars, Misuse, Goto, At
<1>10. ASSUME NEW t \in Threads, OnceRead(t) PROVE Joining'
  BY <1>10 DEF OnceRead, Joining, JoinsAlone, IsJoined, Threading, Lives,
    Awaits, Ended, Running, GivenBack, mutex, cond, locals, lifecycle,
    joining, initialising, threadVars, Misuse, Goto, At
<1>11. ASSUME NEW t \in Threads, OnceCas(t) PROVE Joining'
  BY <1>11 DEF OnceCas, Joining, JoinsAlone, IsJoined, Threading, Lives,
    Awaits, Ended, Running, GivenBack, mutex, cond, locals, lifecycle,
    joining, initialising, threadVars, Misuse, Goto, At
<1>12. ASSUME NEW t \in Threads, OnceInit(t) PROVE Joining'
  BY <1>12 DEF OnceInit, Joining, JoinsAlone, IsJoined, Threading, Lives,
    Awaits, Ended, Running, GivenBack, mutex, cond, locals, lifecycle,
    joining, initialising, threadVars, Misuse, Goto, At
<1>13. ASSUME NEW t \in Threads, OnceSet(t) PROVE Joining'
  BY <1>13 DEF OnceSet, Joining, JoinsAlone, IsJoined, Threading, Lives,
    Awaits, Ended, Running, GivenBack, mutex, cond, locals, lifecycle,
    joining, initialising, threadVars, Misuse, Goto, At
<1>14. ASSUME NEW t \in Threads, OnceReturn(t) PROVE Joining'
  BY <1>14 DEF OnceReturn, Joining, JoinsAlone, IsJoined, Threading, Lives,
    Awaits, Ended, Running, GivenBack, mutex, cond, locals, lifecycle,
    joining, initialising, threadVars, Misuse, Goto, At
<1>15. ASSUME NEW t \in Threads, Create(t) PROVE Joining'
  BY <1>15 DEF Create, Joining, JoinsAlone, IsJoined, Threading, Lives,
    Awaits, Ended, Running, GivenBack, mutex, cond, locals, lifecycle,
    joining, initialising, threadVars, Misuse, Goto, At
<1>16. ASSUME NEW t \in Threads, Exit(t) PROVE Joining'
  BY <1>16 DEF Exit, Joining, JoinsAlone, IsJoined, Threading, Lives, Awaits,
    Ended, Running, GivenBack, mutex, cond, locals, lifecycle, joining,
    initialising, threadVars, Misuse, Goto, At
<1>17. ASSUME NEW t \in Threads, Cancel(t) PROVE Joining'
  BY <1>17 DEF Cancel, Joining, JoinsAlone, IsJoined, Threading, Lives,
    Awaits, Ended, Running, GivenBack, mutex, cond, locals, lifecycle,
    joining, initialising, threadVars, Misuse, Goto, At
<1>18. ASSUME NEW t \in Threads, Join(t) PROVE Joining'
  BY <1>18 DEF Join, Joining, JoinsAlone, IsJoined, Threading, Lives, Awaits,
    Ended, Running, GivenBack, mutex, cond, locals, lifecycle, joining,
    initialising, threadVars, Misuse, Goto, At
<1>19. ASSUME NEW t \in Threads, Once(t) PROVE Joining'
  BY <1>19 DEF Once, Joining, JoinsAlone, IsJoined, Threading, Lives, Awaits,
    Ended, Running, GivenBack, mutex, cond, locals, lifecycle, joining,
    initialising, threadVars, Misuse, Goto, At
<1>20. CASE UNCHANGED vars
  BY <1>20 DEF vars, syncVars, mutex, cond, locals, lifecycle, joining,
    initialising, threadVars, Joining, JoinsAlone, IsJoined, Threading,
    Lives, Awaits, Ended, Running, GivenBack
<1>21. ASSUME SyncNext, UNCHANGED threadVars PROVE Joining'
  <2>1. PICK t \in Threads, l \in SyncLabels :
          /\ pc[t] \in SyncLabels \ {"fatal"} /\ pc' = [pc EXCEPT ![t] = l]
          /\ Running /\ plan' = plan
    BY <1>21, SyncMoves
  <2>2. QED
    BY <1>21, <2>1 DEF Joining, JoinsAlone, IsJoined, Ended, Running, SyncLabels,
      threadVars, lifecycle, joining
<1>22. ASSUME NEW t \in Threads, ThreadStep(t) \/ ThreadCall(t) PROVE Joining'
  BY <1>1, <1>2, <1>3, <1>4, <1>5, <1>6, <1>7, <1>8, <1>9, <1>10, <1>11,
    <1>12, <1>13, <1>14, <1>15, <1>16, <1>17, <1>18, <1>19, <1>22
    DEF ThreadStep, ThreadCall
<1>23. QED
  BY <1>20, <1>21, <1>22 DEF Next, Sync

(* Every step leaves at most one thread initialising.                      *)
LEMMA InitialisingStep == ThreadInv /\ [Next]_vars => Initialising'
<1> SUFFICES ASSUME ThreadInv, [Next]_vars PROVE Initialising'
  OBVIOUS
<1> USE SyncAssumption, ThreadAssumption DEF ThreadInv, TypeOK
<1>1. ASSUME NEW t \in Threads, ExitGive(t) PROVE Initialising'
  BY <1>1 DEF ExitGive, Initialising, Threading, Awaits, Lives, Ended, mutex,
    cond, locals, lifecycle, joining, initialising, threadVars, Misuse, Goto,
    At
<1>2. ASSUME NEW t \in Threads, ExitSuspend(t) PROVE Initialising'
  BY <1>2 DEF ExitSuspend, Initialising, Threading, Awaits, Lives, Ended,
    mutex, cond, locals, lifecycle, joining, initialising, threadVars,
    Misuse, Goto, At
<1>3. ASSUME NEW t \in Threads, ExitDetached(t) PROVE Initialising'
  BY <1>3 DEF ExitDetached, Initialising, Threading, Awaits, Lives, Ended,
    mutex, cond, locals, lifecycle, joining, initialising, threadVars,
    Misuse, Goto, At
<1>4. ASSUME NEW t \in Threads, JoinTake(t) PROVE Initialising'
  BY <1>4 DEF JoinTake, Initialising, Threading, Awaits, Lives, Ended, mutex,
    cond, locals, lifecycle, joining, initialising, threadVars, Misuse, Goto,
    At
<1>5. ASSUME NEW t \in Threads, JoinWait(t) PROVE Initialising'
  BY <1>5 DEF JoinWait, Initialising, Threading, Awaits, Lives, Ended, mutex,
    cond, locals, lifecycle, joining, initialising, threadVars, Misuse, Goto,
    At
<1>6. ASSUME NEW t \in Threads, JoinGiveBarrier(t) PROVE Initialising'
  BY <1>6 DEF JoinGiveBarrier, Initialising, Threading, Awaits, Lives, Ended,
    mutex, cond, locals, lifecycle, joining, initialising, threadVars,
    Misuse, Goto, At
<1>7. ASSUME NEW t \in Threads, JoinGiveMutex(t) PROVE Initialising'
  BY <1>7 DEF JoinGiveMutex, Initialising, Threading, Awaits, Lives, Ended,
    mutex, cond, locals, lifecycle, joining, initialising, threadVars,
    Misuse, Goto, At
<1>8. ASSUME NEW t \in Threads, JoinDeleteTask(t) PROVE Initialising'
  BY <1>8 DEF JoinDeleteTask, Initialising, Threading, Awaits, Lives, Ended,
    mutex, cond, locals, lifecycle, joining, initialising, threadVars,
    Misuse, Goto, At
<1>9. ASSUME NEW t \in Threads, JoinFree(t) PROVE Initialising'
  BY <1>9 DEF JoinFree, Initialising, Threading, Awaits, Lives, Ended, mutex,
    cond, locals, lifecycle, joining, initialising, threadVars, Misuse, Goto,
    At
<1>10. ASSUME NEW t \in Threads, OnceRead(t) PROVE Initialising'
  BY <1>10 DEF OnceRead, Initialising, Threading, Awaits, Lives, Ended,
    mutex, cond, locals, lifecycle, joining, initialising, threadVars,
    Misuse, Goto, At
<1>11. ASSUME NEW t \in Threads, OnceCas(t) PROVE Initialising'
  BY <1>11 DEF OnceCas, Initialising, Threading, Awaits, Lives, Ended, mutex,
    cond, locals, lifecycle, joining, initialising, threadVars, Misuse, Goto,
    At
<1>12. ASSUME NEW t \in Threads, OnceInit(t) PROVE Initialising'
  BY <1>12 DEF OnceInit, Initialising, Threading, Awaits, Lives, Ended,
    mutex, cond, locals, lifecycle, joining, initialising, threadVars,
    Misuse, Goto, At
<1>13. ASSUME NEW t \in Threads, OnceSet(t) PROVE Initialising'
  BY <1>13 DEF OnceSet, Initialising, Threading, Awaits, Lives, Ended, mutex,
    cond, locals, lifecycle, joining, initialising, threadVars, Misuse, Goto,
    At
<1>14. ASSUME NEW t \in Threads, OnceReturn(t) PROVE Initialising'
  BY <1>14 DEF OnceReturn, Initialising, Threading, Awaits, Lives, Ended,
    mutex, cond, locals, lifecycle, joining, initialising, threadVars,
    Misuse, Goto, At
<1>15. ASSUME NEW t \in Threads, Create(t) PROVE Initialising'
  BY <1>15 DEF Create, Initialising, Threading, Awaits, Lives, Ended, mutex,
    cond, locals, lifecycle, joining, initialising, threadVars, Misuse, Goto,
    At
<1>16. ASSUME NEW t \in Threads, Exit(t) PROVE Initialising'
  BY <1>16 DEF Exit, Initialising, Threading, Awaits, Lives, Ended, mutex,
    cond, locals, lifecycle, joining, initialising, threadVars, Misuse, Goto,
    At
<1>17. ASSUME NEW t \in Threads, Cancel(t) PROVE Initialising'
  BY <1>17 DEF Cancel, Initialising, Threading, Awaits, Lives, Ended, mutex,
    cond, locals, lifecycle, joining, initialising, threadVars, Misuse, Goto,
    At
<1>18. ASSUME NEW t \in Threads, Join(t) PROVE Initialising'
  BY <1>18 DEF Join, Initialising, Threading, Awaits, Lives, Ended, mutex,
    cond, locals, lifecycle, joining, initialising, threadVars, Misuse, Goto,
    At
<1>19. ASSUME NEW t \in Threads, Once(t) PROVE Initialising'
  BY <1>19 DEF Once, Initialising, Threading, Awaits, Lives, Ended, mutex,
    cond, locals, lifecycle, joining, initialising, threadVars, Misuse, Goto,
    At
<1>20. CASE UNCHANGED vars
  BY <1>20 DEF vars, syncVars, mutex, cond, locals, lifecycle, joining,
    initialising, threadVars, Initialising, Threading, Awaits, Lives, Ended
<1>21. ASSUME SyncNext, UNCHANGED threadVars PROVE Initialising'
  <2>1. PICK t \in Threads, l \in SyncLabels :
          /\ pc[t] \in SyncLabels \ {"fatal"} /\ pc' = [pc EXCEPT ![t] = l]
          /\ Running /\ plan' = plan
    BY <1>21, SyncMoves
  <2>2. QED
    BY <1>21, <2>1 DEF Initialising, SyncLabels, threadVars, initialising
<1>22. ASSUME NEW t \in Threads, ThreadStep(t) \/ ThreadCall(t) PROVE Initialising'
  BY <1>1, <1>2, <1>3, <1>4, <1>5, <1>6, <1>7, <1>8, <1>9, <1>10, <1>11,
    <1>12, <1>13, <1>14, <1>15, <1>16, <1>17, <1>18, <1>19, <1>22
    DEF ThreadStep, ThreadCall
<1>23. QED
  BY <1>20, <1>21, <1>22 DEF Next, Sync

(* Every step keeps what the owner says when nothing is under way.         *)
LEMMA OwnerStep == ThreadInv /\ OwnerSettles /\ [Next]_vars => OwnerSettles'
<1> SUFFICES ASSUME ThreadInv /\ OwnerSettles, [Next]_vars PROVE OwnerSettles'
  OBVIOUS
<1> USE SyncAssumption, ThreadAssumption DEF ThreadInv, TypeOK
<1>1. ASSUME NEW t \in Threads, Lock(t), UNCHANGED threadVars PROVE OwnerSettles'
  BY <1>1 DEF Lock, OwnerSettles, Settled, Calls, Holds, mutex, cond, locals,
    Resume, Goto, At, May
<1>2. ASSUME NEW t \in Threads, Unlock(t), UNCHANGED threadVars PROVE OwnerSettles'
  BY <1>2 DEF Unlock, OwnerSettles, Settled, Calls, Holds, mutex, cond,
    locals, Resume, Goto, At, May
<1>3. ASSUME NEW t \in Threads, Wait(t), UNCHANGED threadVars PROVE OwnerSettles'
  BY <1>3 DEF Wait, OwnerSettles, Settled, Calls, Holds, mutex, cond, locals,
    Resume, Goto, At, May
<1>4. ASSUME NEW t \in Threads, Signal(t), UNCHANGED threadVars PROVE OwnerSettles'
  BY <1>4 DEF Signal, OwnerSettles, Settled, Calls, Holds, mutex, cond,
    locals, Resume, Goto, At, May
<1>5. ASSUME NEW t \in Threads, Broadcast(t), UNCHANGED threadVars PROVE OwnerSettles'
  BY <1>5 DEF Broadcast, OwnerSettles, Settled, Calls, Holds, mutex, cond,
    locals, Resume, Goto, At, May
<1>6. ASSUME NEW t \in Threads, LockCheck(t), UNCHANGED threadVars PROVE OwnerSettles'
  BY <1>6 DEF LockCheck, OwnerSettles, Settled, Calls, Holds, mutex, cond,
    locals, Resume, Goto, At, May
<1>7. ASSUME NEW t \in Threads, LockTake(t), UNCHANGED threadVars PROVE OwnerSettles'
  BY <1>7 DEF LockTake, OwnerSettles, Settled, Calls, Holds, mutex, cond,
    locals, Resume, Goto, At, May
<1>8. ASSUME NEW t \in Threads, LockTimeOut(t), UNCHANGED threadVars PROVE OwnerSettles'
  BY <1>8 DEF LockTimeOut, OwnerSettles, Settled, Calls, Holds, mutex, cond,
    locals, Resume, Goto, At, May
<1>9. ASSUME NEW t \in Threads, LockOwn(t), UNCHANGED threadVars PROVE OwnerSettles'
  BY <1>9 DEF LockOwn, OwnerSettles, Settled, Calls, Holds, mutex, cond,
    locals, Resume, Goto, At, May
<1>10. ASSUME NEW t \in Threads, UnlockCheck(t), UNCHANGED threadVars PROVE OwnerSettles'
  BY <1>10 DEF UnlockCheck, OwnerSettles, Settled, Calls, Holds, mutex, cond,
    locals, Resume, Goto, At, May
<1>11. ASSUME NEW t \in Threads, UnlockGive(t), UNCHANGED threadVars PROVE OwnerSettles'
  BY <1>11 DEF UnlockGive, OwnerSettles, Settled, Calls, Holds, mutex, cond,
    locals, Resume, Goto, At, May
<1>12. ASSUME NEW t \in Threads, ReadHolder(t), UNCHANGED threadVars PROVE OwnerSettles'
  BY <1>12 DEF ReadHolder, OwnerSettles, Settled, Calls, Holds, mutex, cond,
    locals, Resume, Goto, At, May
<1>13. ASSUME NEW t \in Threads, StoreOwner(t), UNCHANGED threadVars PROVE OwnerSettles'
  BY <1>13 DEF StoreOwner, OwnerSettles, Settled, Calls, Holds, mutex, cond,
    locals, Resume, Goto, At, May
<1>14. ASSUME NEW t \in Threads, WaitCount(t), UNCHANGED threadVars PROVE OwnerSettles'
  BY <1>14 DEF WaitCount, OwnerSettles, Settled, Calls, Holds, mutex, cond,
    locals, Resume, Goto, At, May
<1>15. ASSUME NEW t \in Threads, WaitTake(t), UNCHANGED threadVars PROVE OwnerSettles'
  BY <1>15 DEF WaitTake, OwnerSettles, Settled, Calls, Holds, mutex, cond,
    locals, Resume, Goto, At, May
<1>16. ASSUME NEW t \in Threads, WaitTimeOut(t), UNCHANGED threadVars PROVE OwnerSettles'
  BY <1>16 DEF WaitTimeOut, OwnerSettles, Settled, Calls, Holds, mutex, cond,
    locals, Resume, Goto, At, May
<1>17. ASSUME NEW t \in Threads, WaitUncount(t), UNCHANGED threadVars PROVE OwnerSettles'
  BY <1>17 DEF WaitUncount, OwnerSettles, Settled, Calls, Holds, mutex, cond,
    locals, Resume, Goto, At, May
<1>18. ASSUME NEW t \in Threads, SignalLock(t), UNCHANGED threadVars PROVE OwnerSettles'
  BY <1>18 DEF SignalLock, OwnerSettles, Settled, Calls, Holds, mutex, cond,
    locals, Resume, Goto, At, May
<1>19. ASSUME NEW t \in Threads, BroadcastLock(t), UNCHANGED threadVars PROVE OwnerSettles'
  BY <1>19 DEF BroadcastLock, OwnerSettles, Settled, Calls, Holds, mutex,
    cond, locals, Resume, Goto, At, May
<1>20. ASSUME NEW t \in Threads, BroadcastGive(t), UNCHANGED threadVars PROVE OwnerSettles'
  BY <1>20 DEF BroadcastGive, OwnerSettles, Settled, Calls, Holds, mutex,
    cond, locals, Resume, Goto, At, May
<1>21. ASSUME NEW t \in Threads, BroadcastEnd(t), UNCHANGED threadVars PROVE OwnerSettles'
  BY <1>21 DEF BroadcastEnd, OwnerSettles, Settled, Calls, Holds, mutex,
    cond, locals, Resume, Goto, At, May
<1>22. CASE UNCHANGED vars
  BY <1>22 DEF vars, syncVars, mutex, cond, locals, lifecycle, joining,
    initialising, threadVars, OwnerSettles, Settled, Calls, Holds
<1>23. ASSUME NEW t \in Threads, ThreadStep(t) \/ ThreadCall(t) PROVE OwnerSettles'
  <2>1. /\ UNCHANGED <<mutex, cond, locals>>
        /\ \A u \in Threads :
             \/ pc'[u] = pc[u]
             \/ pc[u] \in Outside \ {"fatal"} /\ pc'[u] \in Outside
    BY <1>23, ThreadMoves
  <2>2. QED
    BY <2>1 DEF OwnerSettles, Settled, mutex, cond, locals, Outside, Labels, SyncLabels
<1>24. ASSUME SyncNext, UNCHANGED threadVars PROVE OwnerSettles'
  BY <1>1, <1>2, <1>3, <1>4, <1>5, <1>6, <1>7, <1>8, <1>9, <1>10, <1>11,
    <1>12, <1>13, <1>14, <1>15, <1>16, <1>17, <1>18, <1>19, <1>20, <1>21,
    <1>24
    DEF SyncNext, SyncCall, MutexStep, CondStep
<1>25. QED
  BY <1>22, <1>24, <1>23 DEF Next, Sync

-----------------------------------------------------------------------------
(* A whole turn of a counter changes nothing modulo its width. *)
LEMMA WholeTurn ==
    ASSUME NEW d \in Int, NEW m \in Nat \ {0}, d % m = 0
    PROVE  (d + m) % m = 0 /\ (d - m) % m = 0
<1>1. PICK q \in Int : d = q * m
  OBVIOUS
<1>2. d + m = (q + 1) * m /\ d - m = (q - 1) * m
  BY <1>1
<1>3. QED
  BY <1>1, <1>2

(* The waiters are finitely many, and the numbers compared are integers.   *)
LEMMA Countable ==
    ASSUME TypeOK
    PROVE  /\ IsFiniteSet(Counted) /\ Cardinality(Counted) \in Nat
           /\ waiting \in Nat /\ tokens \in Nat /\ Given \in Nat
<1>1. IsFiniteSet(Counted)
  BY FS_Subset, SyncAssumption DEF Counted
<1>2. Given \in Nat
  BY SyncAssumption DEF Given, TypeOK
<1>3. waiting \in Nat /\ tokens \in Nat
  BY SyncAssumption DEF TypeOK
<1>4. Cardinality(Counted) \in Nat
  BY <1>1, FS_CardinalityType
<1>5. QED
  BY <1>1, <1>2, <1>3, <1>4

(* The balance is kept by a step that changes neither the counts nor who   *)
(* is counted,                                                             *)
LEMMA CountsKept ==
    ASSUME TypeOK, TokensCountWaiters, leaked => leaked',
           waiting' \in Nat, tokens' \in Nat, Given' \in Nat,
           waiting' + tokens' - Given' = waiting + tokens - Given, Counted' = Counted
    PROVE  TokensCountWaiters'
<1>1. ~leaked => (waiting + tokens - Given - Cardinality(Counted)) % (UintMax + 1) = 0
  BY DEF TokensCountWaiters
<1>2. (waiting + tokens - Given - Cardinality(Counted))'
        = waiting + tokens - Given - Cardinality(Counted)
  BY Countable
<1>3. ~leaked' => ~leaked
  OBVIOUS
<1>4. ~leaked' => (waiting + tokens - Given - Cardinality(Counted))' % (UintMax + 1) = 0
  BY <1>1, <1>2, <1>3
<1>5. QED
  BY <1>4 DEF TokensCountWaiters

(* by one that counts a waiter, though the counter may wrap around,        *)
LEMMA OneMore ==
    ASSUME TypeOK, TokensCountWaiters, leaked => leaked',
           waiting' \in Nat, tokens' \in Nat, Given' \in Nat,
           NEW t \in Threads, t \notin Counted, Counted' = Counted \cup {t},
           \/ waiting' + tokens' - Given' = waiting + tokens - Given + 1
           \/ waiting' + tokens' - Given' = waiting + tokens - Given + 1 - (UintMax + 1)
    PROVE  TokensCountWaiters'
<1> DEFINE x == waiting + tokens - Given
           y == waiting' + tokens' - Given'
           n == Cardinality(Counted)
           m == UintMax + 1
<1>1. n \in Nat /\ x \in Int /\ Cardinality(Counted') = n + 1
  BY Countable, FS_AddElement
<1>2. m \in Nat \ {0}
  BY SyncAssumption
<1>3. ~leaked => (x - n) % m = 0
  <2>1. waiting + tokens - Given - Cardinality(Counted) = x - n
    BY Countable
  <2>2. QED
    BY <2>1 DEF TokensCountWaiters
<1>4. (y = x + 1 \/ y = x + 1 - m)
  BY Countable, SyncAssumption
<1> HIDE DEF x, y, n, m
<1>5. y - (n + 1) = x - n \/ y - (n + 1) = (x - n) - m
  BY <1>1, <1>2, <1>4
<1>6. ~leaked => (y - (n + 1)) % m = 0
  BY SMTT(30), <1>1, <1>2, <1>3, <1>5, WholeTurn
<1> USE DEF x, y, n, m
<1>7. ~leaked' => (waiting + tokens - Given - Cardinality(Counted))' % (UintMax + 1) = 0
  <2>1. ~leaked' => ~leaked
    OBVIOUS
  <2>2. (waiting + tokens - Given - Cardinality(Counted))' = y - (n + 1)
    BY <1>1
  <2>3. QED
    BY <1>6, <2>1, <2>2
<1>8. QED
  BY <1>7 DEF TokensCountWaiters

(* and by one that counts a waiter no longer.                              *)
LEMMA OneLess ==
    ASSUME TypeOK, TokensCountWaiters, leaked => leaked',
           waiting' \in Nat, tokens' \in Nat, Given' \in Nat,
           NEW t \in Threads, t \in Counted, Counted' = Counted \ {t},
           \/ waiting' + tokens' - Given' = waiting + tokens - Given - 1
           \/ waiting' + tokens' - Given' = waiting + tokens - Given - 1 + (UintMax + 1)
    PROVE  TokensCountWaiters'
<1> DEFINE x == waiting + tokens - Given
           y == waiting' + tokens' - Given'
           n == Cardinality(Counted)
           m == UintMax + 1
<1>1. n \in Nat /\ x \in Int /\ Cardinality(Counted') = n - 1
  BY Countable, FS_RemoveElement
<1>2. m \in Nat \ {0}
  BY SyncAssumption
<1>3. ~leaked => (x - n) % m = 0
  <2>1. waiting + tokens - Given - Cardinality(Counted) = x - n
    BY Countable
  <2>2. QED
    BY <2>1 DEF TokensCountWaiters
<1>4. (y = x - 1 \/ y = x - 1 + m)
  BY Countable, SyncAssumption
<1> HIDE DEF x, y, n, m
<1>5. y - (n - 1) = x - n \/ y - (n - 1) = (x - n) + m
  BY <1>1, <1>2, <1>4
<1>6. ~leaked => (y - (n - 1)) % m = 0
  BY <1>1, <1>2, <1>3, <1>5, WholeTurn
<1> USE DEF x, y, n, m
<1>7. ~leaked' => (waiting + tokens - Given - Cardinality(Counted))' % (UintMax + 1) = 0
  <2>1. ~leaked' => ~leaked
    OBVIOUS
  <2>2. (waiting + tokens - Given - Cardinality(Counted))' = y - (n - 1)
    BY <1>1
  <2>3. QED
    BY <1>6, <2>1, <2>2
<1>8. QED
  BY <1>7 DEF TokensCountWaiters

(* After any step the numbers compared are numbers again. *)
LEMMA CountsTyped ==
    ThreadInv /\ [Next]_vars => waiting' \in Nat /\ tokens' \in Nat /\ Given' \in Nat
<1> SUFFICES ASSUME ThreadInv, [Next]_vars
             PROVE  waiting' \in Nat /\ tokens' \in Nat /\ Given' \in Nat
  OBVIOUS
<1>1. TypeOK'
  BY TypeStep
<1>2. QED
  BY <1>1, SyncAssumption DEF TypeOK, Given

(* Every step keeps waiters and tokens in balance.                         *)
LEMMA BalanceStep == ThreadInv /\ TokensCountWaiters /\ [Next]_vars => TokensCountWaiters'
<1> SUFFICES ASSUME ThreadInv /\ TokensCountWaiters, [Next]_vars PROVE TokensCountWaiters'
  OBVIOUS
<1> USE SyncAssumption, ThreadAssumption DEF ThreadInv, TypeOK
<1>1. ASSUME NEW t \in Threads, Lock(t), UNCHANGED threadVars PROVE TokensCountWaiters'
  <2>1. Counted' = Counted
    BY <1>1 DEF Lock, Counted, Calls, Holds, Resume, Goto, At, May, locals
  <2>2. waiting' + tokens' - Given' = waiting + tokens - Given
    BY <1>1, SyncAssumption DEF Lock, Given, Calls, Gives, At, cond, locals
  <2>3. leaked => leaked'
    BY <1>1 DEF Lock, cond
  <2>4. QED
    BY <2>1, <2>2, <2>3, CountsTyped, CountsKept
<1>2. ASSUME NEW t \in Threads, Unlock(t), UNCHANGED threadVars PROVE TokensCountWaiters'
  <2>1. Counted' = Counted
    BY <1>2 DEF Unlock, Counted, Calls, Holds, Resume, Goto, At, May, locals
  <2>2. waiting' + tokens' - Given' = waiting + tokens - Given
    BY <1>2, SyncAssumption DEF Unlock, Given, Calls, Gives, At, cond, locals
  <2>3. leaked => leaked'
    BY <1>2 DEF Unlock, cond
  <2>4. QED
    BY <2>1, <2>2, <2>3, CountsTyped, CountsKept
<1>3. ASSUME NEW t \in Threads, Wait(t), UNCHANGED threadVars PROVE TokensCountWaiters'
  <2>1. Counted' = Counted
    BY <1>3 DEF Wait, Counted, Calls, Holds, Resume, Goto, At, May, locals
  <2>2. waiting' + tokens' - Given' = waiting + tokens - Given
    BY <1>3, SyncAssumption DEF Wait, Given, Calls, Gives, At, cond, locals
  <2>3. leaked => leaked'
    BY <1>3 DEF Wait, cond
  <2>4. QED
    BY <2>1, <2>2, <2>3, CountsTyped, CountsKept
<1>4. ASSUME NEW t \in Threads, Signal(t), UNCHANGED threadVars PROVE TokensCountWaiters'
  <2>1. Counted' = Counted
    BY <1>4 DEF Signal, Counted, Calls, Holds, Resume, Goto, At, May, locals
  <2>2. waiting' + tokens' - Given' = waiting + tokens - Given
    BY <1>4, SyncAssumption DEF Signal, Given, Calls, Gives, At, cond, locals
  <2>3. leaked => leaked'
    BY <1>4 DEF Signal, cond
  <2>4. QED
    BY <2>1, <2>2, <2>3, CountsTyped, CountsKept
<1>5. ASSUME NEW t \in Threads, Broadcast(t), UNCHANGED threadVars PROVE TokensCountWaiters'
  <2>1. Counted' = Counted
    BY <1>5 DEF Broadcast, Counted, Calls, Holds, Resume, Goto, At, May, locals
  <2>2. waiting' + tokens' - Given' = waiting + tokens - Given
    BY <1>5, SyncAssumption DEF Broadcast, Given, Calls, Gives, At, cond, locals
  <2>3. leaked => leaked'
    BY <1>5 DEF Broadcast, cond
  <2>4. QED
    BY <2>1, <2>2, <2>3, CountsTyped, CountsKept
<1>6. ASSUME NEW t \in Threads, LockCheck(t), UNCHANGED threadVars PROVE TokensCountWaiters'
  <2>1. Counted' = Counted
    BY <1>6 DEF LockCheck, Counted, Calls, Holds, Resume, Goto, At, May, locals
  <2>2. waiting' + tokens' - Given' = waiting + tokens - Given
    BY <1>6, SyncAssumption DEF LockCheck, Given, Calls, Gives, At, cond, locals
  <2>3. leaked => leaked'
    BY <1>6 DEF LockCheck, cond
  <2>4. QED
    BY <2>1, <2>2, <2>3, CountsTyped, CountsKept
<1>7. ASSUME NEW t \in Threads, LockTake(t), UNCHANGED threadVars PROVE TokensCountWaiters'
  <2>1. Counted' = Counted
    BY <1>7 DEF LockTake, Counted, Calls, Holds, Resume, Goto, At, May, locals
  <2>2. waiting' + tokens' - Given' = waiting + tokens - Given
    BY <1>7, SyncAssumption DEF LockTake, Given, Calls, Gives, At, cond, locals
  <2>3. leaked => leaked'
    BY <1>7 DEF LockTake, cond
  <2>4. QED
    BY <2>1, <2>2, <2>3, CountsTyped, CountsKept
<1>8. ASSUME NEW t \in Threads, LockTimeOut(t), UNCHANGED threadVars PROVE TokensCountWaiters'
  <2>1. Counted' = Counted
    BY <1>8 DEF LockTimeOut, Counted, Calls, Holds, Resume, Goto, At, May, locals
  <2>2. waiting' + tokens' - Given' = waiting + tokens - Given
    BY <1>8, SyncAssumption DEF LockTimeOut, Given, Calls, Gives, At, cond, locals
  <2>3. leaked => leaked'
    BY <1>8 DEF LockTimeOut, cond
  <2>4. QED
    BY <2>1, <2>2, <2>3, CountsTyped, CountsKept
<1>9. ASSUME NEW t \in Threads, LockOwn(t), UNCHANGED threadVars PROVE TokensCountWaiters'
  <2>1. Counted' = Counted
    BY <1>9 DEF LockOwn, Counted, Calls, Holds, Resume, Goto, At, May, locals
  <2>2. waiting' + tokens' - Given' = waiting + tokens - Given
    BY <1>9, SyncAssumption DEF LockOwn, Given, Calls, Gives, At, cond, locals
  <2>3. leaked => leaked'
    BY <1>9 DEF LockOwn, cond
  <2>4. QED
    BY <2>1, <2>2, <2>3, CountsTyped, CountsKept
<1>10. ASSUME NEW t \in Threads, UnlockCheck(t), UNCHANGED threadVars PROVE TokensCountWaiters'
  <2>1. CASE type # "DEFAULT" /\ owner # t /\ then[t] = "wtake"
    BY <1>10, <2>1 DEF UnlockCheck, TokensCountWaiters
  <2>2. CASE ~(type # "DEFAULT" /\ owner # t /\ then[t] = "wtake")
    <3>1. Counted' = Counted
      <4>1. CASE type # "DEFAULT" /\ owner # t
        BY <1>10, <2>2, <4>1 DEF UnlockCheck, Counted, Calls, Holds, Goto, At
      <4>2. CASE ~(type # "DEFAULT" /\ owner # t)
        BY <1>10, <4>2 DEF UnlockCheck, Counted, Goto, At
      <4>3. QED
        BY <4>1, <4>2
    <3>2. waiting' + tokens' - Given' = waiting + tokens - Given
      BY <1>10 DEF UnlockCheck, Given
    <3>3. leaked => leaked'
      BY <1>10 DEF UnlockCheck
    <3>4. QED
      BY <3>1, <3>2, <3>3, CountsTyped, CountsKept
  <2>3. QED
    BY <2>1, <2>2
<1>11. ASSUME NEW t \in Threads, UnlockGive(t), UNCHANGED threadVars PROVE TokensCountWaiters'
  <2>1. Counted' = Counted
    BY <1>11 DEF UnlockGive, Counted, Calls, Holds, Resume, Goto, At, May, locals
  <2>2. waiting' + tokens' - Given' = waiting + tokens - Given
    BY <1>11, SyncAssumption DEF UnlockGive, Given, Calls, Gives, At, cond, locals
  <2>3. leaked => leaked'
    BY <1>11 DEF UnlockGive, cond
  <2>4. QED
    BY <2>1, <2>2, <2>3, CountsTyped, CountsKept
<1>12. ASSUME NEW t \in Threads, ReadHolder(t), UNCHANGED threadVars PROVE TokensCountWaiters'
  <2>1. Counted' = Counted
    BY <1>12 DEF ReadHolder, Counted, Calls, Holds, Resume, Goto, At, May, locals
  <2>2. waiting' + tokens' - Given' = waiting + tokens - Given
    BY <1>12, SyncAssumption DEF ReadHolder, Given, Calls, Gives, At, cond, locals
  <2>3. leaked => leaked'
    BY <1>12 DEF ReadHolder, cond
  <2>4. QED
    BY <2>1, <2>2, <2>3, CountsTyped, CountsKept
<1>13. ASSUME NEW t \in Threads, StoreOwner(t), UNCHANGED threadVars PROVE TokensCountWaiters'
  <2>1. Counted' = Counted
    BY <1>13 DEF StoreOwner, Counted, Calls, Holds, Resume, Goto, At, May, locals
  <2>2. waiting' + tokens' - Given' = waiting + tokens - Given
    BY <1>13, SyncAssumption DEF StoreOwner, Given, Calls, Gives, At, cond, locals
  <2>3. leaked => leaked'
    BY <1>13 DEF StoreOwner, cond
  <2>4. QED
    BY <2>1, <2>2, <2>3, CountsTyped, CountsKept
<1>14. ASSUME NEW t \in Threads, WaitCount(t), UNCHANGED threadVars PROVE TokensCountWaiters'
  <2>1. t \notin Counted /\ Counted' = Counted \cup {t}
    BY <1>14 DEF WaitCount, Counted, Calls, Holds, Goto, At, cond, locals
  <2>2. tokens' = tokens /\ waiting' \in {waiting + 1, waiting + 1 - (UintMax + 1)}
    BY SMTT(30), <1>14, SyncAssumption DEF WaitCount
  <2>3. Given' = Given /\ (leaked => leaked')
    BY <1>14, SyncAssumption DEF WaitCount, Given, locals
  <2>4. \/ waiting' + tokens' - Given' = waiting + tokens - Given + 1
        \/ waiting' + tokens' - Given' = waiting + tokens - Given + 1 - (UintMax + 1)
    BY <2>2, <2>3, SyncAssumption, Countable
  <2>5. QED
    BY <2>1, <2>3, <2>4, CountsTyped, OneMore
<1>15. ASSUME NEW t \in Threads, WaitTake(t), UNCHANGED threadVars PROVE TokensCountWaiters'
  <2>1. t \in Counted /\ Counted' = Counted \ {t}
    BY <1>15 DEF WaitTake, Counted, Calls, Holds, Goto, At, cond, locals
  <2>2. waiting' = waiting /\ tokens' = tokens - 1
    BY <1>15, SyncAssumption DEF WaitTake
  <2>3. Given' = Given /\ (leaked => leaked')
    BY <1>15, SyncAssumption DEF WaitTake, Given, locals
  <2>4. waiting' + tokens' - Given' = waiting + tokens - Given - 1
    BY <2>2, <2>3, SyncAssumption, Countable
  <2>5. QED
    BY <2>1, <2>3, <2>4, CountsTyped, OneLess
<1>16. ASSUME NEW t \in Threads, WaitTimeOut(t), UNCHANGED threadVars PROVE TokensCountWaiters'
  <2>1. Counted' = Counted
    BY <1>16 DEF WaitTimeOut, Counted, Calls, Holds, Resume, Goto, At, May, locals
  <2>2. waiting' + tokens' - Given' = waiting + tokens - Given
    BY <1>16, SyncAssumption DEF WaitTimeOut, Given, Calls, Gives, At, cond, locals
  <2>3. leaked => leaked'
    BY <1>16 DEF WaitTimeOut, cond
  <2>4. QED
    BY <2>1, <2>2, <2>3, CountsTyped, CountsKept
<1>17. ASSUME NEW t \in Threads, WaitUncount(t), UNCHANGED threadVars PROVE TokensCountWaiters'
  <2>1. t \in Counted /\ Counted' = Counted \ {t}
    BY <1>17 DEF WaitUncount, Counted, Calls, Holds, Goto, At, cond, locals
  <2>2. tokens' = tokens /\ waiting' \in {waiting - 1, waiting - 1 + (UintMax + 1)}
    BY <1>17, SyncAssumption DEF WaitUncount
  <2>3. Given' = Given /\ (leaked => leaked')
    BY <1>17, SyncAssumption DEF WaitUncount, Given, locals
  <2>4. \/ waiting' + tokens' - Given' = waiting + tokens - Given - 1
        \/ waiting' + tokens' - Given' = waiting + tokens - Given - 1 + (UintMax + 1)
    BY <2>2, <2>3, SyncAssumption, Countable
  <2>5. QED
    BY <2>1, <2>3, <2>4, CountsTyped, OneLess
<1>18. ASSUME NEW t \in Threads, SignalLock(t), UNCHANGED threadVars PROVE TokensCountWaiters'
  <2>1. Counted' = Counted
    BY <1>18 DEF SignalLock, Counted, Calls, Holds, Resume, Goto, At, May, locals
  <2>2. waiting' + tokens' - Given' = waiting + tokens - Given
    BY <1>18, SyncAssumption DEF SignalLock, Given, Calls, Gives, At, cond, locals
  <2>3. leaked => leaked'
    BY <1>18 DEF SignalLock, cond
  <2>4. QED
    BY <2>1, <2>2, <2>3, CountsTyped, CountsKept
<1>19. ASSUME NEW t \in Threads, BroadcastLock(t), UNCHANGED threadVars PROVE TokensCountWaiters'
  <2>1. Counted' = Counted
    BY <1>19 DEF BroadcastLock, Counted, Calls, Holds, Resume, Goto, At, May, locals
  <2>2. waiting' + tokens' - Given' = waiting + tokens - Given
    BY <1>19, SyncAssumption DEF BroadcastLock, Given, Calls, Gives, At, cond, locals
  <2>3. leaked => leaked'
    BY <1>19 DEF BroadcastLock, cond
  <2>4. QED
    BY <2>1, <2>2, <2>3, CountsTyped, CountsKept
<1>20. ASSUME NEW t \in Threads, BroadcastGive(t), UNCHANGED threadVars PROVE TokensCountWaiters'
  <2>1. Counted' = Counted
    BY <1>20 DEF BroadcastGive, Counted, Calls, Holds, Resume, Goto, At, May, locals
  <2>2. waiting' + tokens' - Given' = waiting + tokens - Given
    BY <1>20, SyncAssumption DEF BroadcastGive, Given, Calls, Gives, At, cond, locals
  <2>3. leaked => leaked'
    BY <1>20 DEF BroadcastGive, cond
  <2>4. QED
    BY <2>1, <2>2, <2>3, CountsTyped, CountsKept
<1>21. ASSUME NEW t \in Threads, BroadcastEnd(t), UNCHANGED threadVars PROVE TokensCountWaiters'
  <2>1. Counted' = Counted
    BY <1>21 DEF BroadcastEnd, Counted, Calls, Holds, Resume, Goto, At, May, locals
  <2>2. waiting' + tokens' - Given' = waiting + tokens - Given
    BY <1>21, SyncAssumption DEF BroadcastEnd, Given, Calls, Gives, At, cond, locals
  <2>3. leaked => leaked'
    BY <1>21 DEF BroadcastEnd, cond
  <2>4. QED
    BY <2>1, <2>2, <2>3, CountsTyped, CountsKept
<1>22. CASE UNCHANGED vars
  <2>1. Counted' = Counted /\ Given' = Given /\ waiting' = waiting /\ tokens' = tokens
    BY <1>22 DEF vars, syncVars, cond, locals, Counted, Given
  <2>2. leaked' = leaked
    BY <1>22 DEF vars, syncVars, cond
  <2>3. QED
    BY <2>1, <2>2 DEF TokensCountWaiters
<1>23. ASSUME NEW t \in Threads, ThreadStep(t) \/ ThreadCall(t) PROVE TokensCountWaiters'
  <2>1. /\ UNCHANGED <<mutex, cond, locals>>
        /\ \A u \in Threads :
             \/ pc'[u] = pc[u]
             \/ pc[u] \in Outside \ {"fatal"} /\ pc'[u] \in Outside
    BY <1>23, ThreadMoves
  <2>2. Counted' = Counted
    BY <2>1 DEF Counted, locals, Outside, Labels, SyncLabels
  <2>3. waiting' + tokens' - Given' = waiting + tokens - Given /\ (leaked => leaked')
    BY <2>1 DEF Given, cond, locals
  <2>4. QED
    BY <2>2, <2>3, CountsTyped, CountsKept
<1>24. ASSUME SyncNext, UNCHANGED threadVars PROVE TokensCountWaiters'
  BY <1>1, <1>2, <1>3, <1>4, <1>5, <1>6, <1>7, <1>8, <1>9, <1>10, <1>11,
    <1>12, <1>13, <1>14, <1>15, <1>16, <1>17, <1>18, <1>19, <1>20, <1>21,
    <1>24
    DEF SyncNext, SyncCall, MutexStep, CondStep
<1>25. QED
  BY <1>22, <1>24, <1>23 DEF Next, Sync

-----------------------------------------------------------------------------
(* The invariant holds at the start, *)
LEMMA InitInv == Init => ThreadInv /\ OwnerSettles /\ TokensCountWaiters
<1> SUFFICES ASSUME Init PROVE ThreadInv /\ OwnerSettles /\ TokensCountWaiters
  OBVIOUS
<1> USE SyncAssumption, ThreadAssumption DEF Init, SyncInit
<1>1. TypeOK
  <2>1. pc \in [Threads -> Labels]
    BY DEF Labels, SyncLabels
  <2>2. /\ target \in [Threads -> (Threads \ {Main}) \cup {Nobody}]
        /\ joined \in [Threads -> SUBSET Threads]
        /\ task \in [Threads -> {"none", "live", "suspended", "deleted"}]
    OBVIOUS
  <2>3. waiting \in 0 .. UintMax /\ tokens \in 0 .. UintMax /\ depth \in 0 .. MaxDepth
    OBVIOUS
  <2>4. /\ type \in Types /\ plan \in Plans
        /\ {holder, owner, condLock} \subseteq Threads \cup {Nobody}
        /\ depth = 0 <=> holder = Nobody
    OBVIOUS
  <2>5. /\ then \in [Threads -> {"idle", "wtake", "wdec"}]
        /\ finite \in [Threads -> BOOLEAN]
        /\ given \in [Threads -> Nat]
        /\ seen \in [Threads -> Threads \cup {Nobody}]
    OBVIOUS
  <2>6. /\ object \in [Threads -> {"none", "live", "freed"}]
        /\ barrier \in [Threads -> 0 .. 1]
        /\ joinMutex \in [Threads -> BOOLEAN]
    OBVIOUS
  <2>7. stale \in BOOLEAN /\ leaked \in BOOLEAN /\ misuse \in BOOLEAN /\ late \in BOOLEAN
    OBVIOUS
  <2>8. once \in 0 .. 2 /\ inits \in Nat
    OBVIOUS
  <2>9. QED
    BY <2>1, <2>2, <2>3, <2>4, <2>5, <2>6, <2>7, <2>8, Zenon DEF TypeOK
<1>2. Calls
  BY DEF Calls, Holds, Gives
<1>3. Threading
  BY DEF Threading, Lives, Awaits, Ended
<1>4. Joining
  BY DEF Joining, JoinsAlone, IsJoined, Ended
<1>5. Initialising
  BY DEF Initialising
<1>6. OwnerSettles
  BY DEF OwnerSettles
<1>7. TokensCountWaiters
  <2>1. Counted = {} /\ Given = 0
    BY DEF Counted, Given
  <2>2. Cardinality(Counted) = 0
    BY <2>1, FS_EmptySet
  <2>3. (waiting + tokens - Given - Cardinality(Counted)) = 0
    BY <2>1, <2>2
  <2>4. 0 % (UintMax + 1) = 0
    OBVIOUS
  <2>5. QED
    BY <2>3, <2>4 DEF TokensCountWaiters
<1>8. QED
  BY <1>1, <1>2, <1>3, <1>4, <1>5, <1>6, <1>7 DEF ThreadInv

(* and every step keeps it. *)
LEMMA InvStep == ThreadInv /\ [Next]_vars => ThreadInv'
BY TypeStep, CallsStep, ThreadingStep, JoiningStep, InitialisingStep DEF ThreadInv

(* The inductive invariant of the threads *)
THEOREM InvariantCorrect == Spec => []ThreadInv
BY InitInv, InvStep, PTL DEF Spec

(* The owner that EDEADLK and EPERM go by is the kernel's holder whenever  *)
(* no thread is between changing the one and the other.                    *)
THEOREM OwnerSettlesCorrect == Spec => []OwnerSettles
BY InitInv, InvStep, OwnerStep, PTL DEF Spec

(* Every waiter is counted or paid for, whatever the width of the counter. *)
THEOREM TokensCountWaitersCorrect == Spec => []TokensCountWaiters
BY InitInv, InvStep, BalanceStep, PTL DEF Spec

(* A joiner's thread has ended, and as long as nobody takes the mutex that *)
(* a joiner has given back, nothing is used or freed again.                *)
THEOREM JoinIsSafeCorrect == Spec => []JoinIsSafe
<1>1. ThreadInv => JoinIsSafe
  <2> SUFFICES ASSUME ThreadInv PROVE JoinIsSafe
    OBVIOUS
  <2>1. \A t \in Threads : pc[t] \in {"jbarrier", "jmutex", "jtask", "jobject"} =>
          pc[target[t]] \in {"xsuspend", "gone"}
    BY DEF ThreadInv, Threading, Awaits, Ended
  <2>2. ASSUME NEW t \in Threads, pc[t] = "jwait", pc[target[t]] \in {"xsuspend", "gone"}
        PROVE  barrier[target[t]] = 1 \/ late
    <3>1. target[t] \in Threads \ plan.detached
      BY <2>2 DEF ThreadInv, TypeOK, Threading, Awaits
    <3>2. ASSUME ~late PROVE barrier[target[t]] = 1
      BY <2>2, <3>1, <3>2 DEF ThreadInv, Joining, JoinsAlone, IsJoined, Ended
    <3>3. QED
      BY <3>2
  <2>3. misuse => late
    BY DEF ThreadInv, Joining
  <2>4. QED
    BY <2>1, <2>2, <2>3 DEF JoinIsSafe, JoinAwaitsExit, JoinedOnceUnlessLate, ThreadInv
<1>2. QED
  BY <1>1, InvariantCorrect, PTL

(* The routine runs once, and whoever returns finds it done. *)
THEOREM InitialisedOnceCorrect == Spec => []InitialisedOnce
<1>1. ThreadInv => InitialisedOnce
  BY DEF ThreadInv, Initialising, InitialisedOnce
<1>2. QED
  BY <1>1, InvariantCorrect, PTL
=============================================================================

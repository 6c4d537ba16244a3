---------------------------- MODULE Cores_proofs ----------------------------
(***************************************************************************)
(* Theorems about what the two cores share: CoreLock, for any set of cores *)
(* and any nesting depth, and CoreSync, for any set of cores, any tasks    *)
(* and any plan of creations.                                              *)
(*                                                                         *)
(* CoreLock: the code's spinlock_unlock at the end of corelock_lock can    *)
(* free a spinlock another core holds, so what is proved is the best that  *)
(* is true: until that happens (~stolen), a corelock_t is a recursive lock.*)
(*                                                                         *)
(* CoreSync: Places says where each created task is on its way, which      *)
(* needs Slots (a slot stays filled while its event is posted), which      *)
(* needs Mailbox (one poster at a time, and the handler works only between *)
(* the interrupt and the emptying of the mailbox). A handler is entered on *)
(* top of one that has emptied its mailbox, no other (Stacked). Locking    *)
(* needs Nesting (no handler starts in a critical section) and, before the *)
(* scheduler runs, that whoever posts to another core owns xCoreLock.      *)
(***************************************************************************)
EXTENDS CoreLock, CoreSync, TLAPS

(***************************************************************************)
(* CoreLock                                                                *)
(***************************************************************************)

(***************************************************************************)
(* The acquisition a core has recorded in count and its caller has not     *)
(* been given yet, or has given back and count still shows.                *)
(***************************************************************************)
InFlight(c) ==
    \/ call[c] = "unlock" /\ at[c] \in {"spin", "compare", "load", "drop"}
    \/ call[c] # "unlock" /\ at[c] = "leave"
    \/ at[c] = "trailing"

Account(c) == IF InFlight(c) THEN depth[c] + 1 ELSE depth[c]

(* One core at a time is between spinlock_lock and spinlock_unlock. *)
InnerExclusion ==
    /\ \A c \in Harts : Inside(c) => lock
    /\ \A c, d \in Harts : Inside(c) /\ Inside(d) => c = d

(* count and core are the account of the one core that has one. *)
Accounts ==
    /\ \A c \in Harts : Account(c) > 0 => core = c /\ count = Account(c)
    /\ \A c \in Harts : core = c /\ Account(c) = 0 => at[c] = "free"
    /\ core = NoHart =>
         \/ count = 0
         \/ \E c \in Harts : at[c] = "take"

(* What a core inside a call knows about the fields it has read. *)
Local(c) ==
    /\ at[c] \in {"read", "first", "take", "again", "other", "wait", "trailing"}
         => call[c] # "unlock"
    /\ at[c] \in {"load", "drop", "free", "zero"} => call[c] = "unlock"
    /\ at[c] \in {"wait", "other", "first", "take", "free", "zero", "trailing"}
         => depth[c] = 0
    /\ call[c] = "trylock" /\ at[c] # "out" => depth[c] = 0
    /\ at[c] = "first" => reg[c] = 0 /\ count = 0 /\ core = NoHart
    /\ at[c] = "take" => count = 1 /\ core = NoHart
    /\ at[c] = "compare" /\ call[c] # "unlock" => reg[c] = count /\ count # 0
    /\ at[c] \in {"again", "load", "drop"} => core = c
    /\ at[c] \in {"again", "drop"} => reg[c] = count
    /\ at[c] = "free" => core = c /\ count = 0
    /\ at[c] = "zero" => core = NoHart /\ count = 0
    /\ at[c] = "other" => core # c
    /\ at[c] # "sbreak"

LockInv ==
    ~stolen => /\ InnerExclusion
               /\ Accounts
               /\ \A c \in Harts : Local(c)

LockIInv == LockTypeOK /\ LockInv

-----------------------------------------------------------------------------
(***************************************************************************)
(* Type correctness, which needs no other invariant.                       *)
(***************************************************************************)
LEMMA LockTypeInit == LockInit => LockTypeOK
<1> SUFFICES ASSUME LockInit PROVE LockTypeOK
  OBVIOUS
<1>1. lock \in BOOLEAN /\ stolen \in BOOLEAN
  BY DEF LockInit
<1>2. /\ count \in Int
      /\ core \in Harts \cup {NoHart}
  BY DEF LockInit
<1>3. /\ at \in [Harts -> LockLabels]
      /\ call \in [Harts -> Calls]
      /\ reg \in [Harts -> Int]
      /\ depth \in [Harts -> Nat]
  BY DEF LockInit, LockLabels, Calls
<1>4. QED
  BY <1>1, <1>2, <1>3 DEF LockTypeOK

LEMMA LockTypeStep == LockTypeOK /\ [LockNext]_lockVars => LockTypeOK'
<1> SUFFICES ASSUME LockTypeOK, [LockNext]_lockVars PROVE LockTypeOK'
  OBVIOUS
<1> USE DEF LockTypeOK, LockLabels, Calls, LockGoto
<1>1. ASSUME NEW c \in Harts, CorelockLock(c) PROVE LockTypeOK'
  BY <1>1 DEF CorelockLock
<1>2. ASSUME NEW c \in Harts, CorelockUnlock(c) PROVE LockTypeOK'
  BY <1>2 DEF CorelockUnlock
<1>3. ASSUME NEW c \in Harts, Spin(c) PROVE LockTypeOK'
  BY <1>3 DEF Spin, SpinlockLock
<1>4. ASSUME NEW c \in Harts, ReadCount(c) PROVE LockTypeOK'
  BY <1>4 DEF ReadCount
<1>5. ASSUME NEW c \in Harts, FirstTime(c) PROVE LockTypeOK'
  BY <1>5 DEF FirstTime
<1>6. ASSUME NEW c \in Harts, TakeCore(c) PROVE LockTypeOK'
  BY <1>6 DEF TakeCore
<1>7. ASSUME NEW c \in Harts, CompareCore(c) PROVE LockTypeOK'
  BY <1>7 DEF CompareCore
<1>8. ASSUME NEW c \in Harts, Again(c) PROVE LockTypeOK'
  BY <1>8 DEF Again
<1>9. ASSUME NEW c \in Harts, LoadCount(c) PROVE LockTypeOK'
  BY <1>9 DEF LoadCount
<1>10. ASSUME NEW c \in Harts, Drop(c) PROVE LockTypeOK'
  BY <1>10 DEF Drop
<1>11. ASSUME NEW c \in Harts, FreeCore(c) PROVE LockTypeOK'
  BY <1>11 DEF FreeCore
<1>12. ASSUME NEW c \in Harts, ZeroCount(c) PROVE LockTypeOK'
  BY <1>12 DEF ZeroCount
<1>13. ASSUME NEW c \in Harts, OtherCore(c) PROVE LockTypeOK'
  BY <1>13 DEF OtherCore, SpinlockUnlock
<1>14. ASSUME NEW c \in Harts, WaitCount(c) PROVE LockTypeOK'
  BY <1>14 DEF WaitCount
<1>15. ASSUME NEW c \in Harts, Leave(c) PROVE LockTypeOK'
  <2>1. lock' \in BOOLEAN /\ stolen' \in BOOLEAN
    BY <1>15 DEF Leave, SpinlockUnlock
  <2>2. depth' \in [Harts -> Nat]
    BY <1>15 DEF Leave
  <2>3. QED
    BY <1>15, <2>1, <2>2 DEF Leave
<1>16. ASSUME NEW c \in Harts, Trailing(c) PROVE LockTypeOK'
  <2>1. lock' \in BOOLEAN /\ stolen' \in BOOLEAN
    BY <1>16 DEF Trailing, SpinlockUnlock
  <2>2. depth' \in [Harts -> Nat]
    BY <1>16 DEF Trailing
  <2>3. QED
    BY <1>16, <2>1, <2>2 DEF Trailing
<1>17. CASE UNCHANGED lockVars
  BY <1>17 DEF lockVars
<1>18. QED
  BY <1>1, <1>2, <1>3, <1>4, <1>5, <1>6, <1>7, <1>8, <1>9, <1>10, <1>11, <1>12, <1>13, <1>14, <1>15, <1>16, <1>17 DEF LockNext, Step

(* The types of the variables, for every number of cores. *)
THEOREM LockTypeCorrect == LockSpec => []LockTypeOK
<1>1. QED
  BY LockTypeInit, LockTypeStep, PTL DEF LockSpec

-----------------------------------------------------------------------------
(***************************************************************************)
(* The inductive invariant.                                                *)
(***************************************************************************)
LEMMA LockInvInit == LockInit => LockInv
  BY HartsAssumption DEF LockInit, LockInv, InnerExclusion, Accounts, Account,
     InFlight, Local, Inside, Guarded

(* A stolen spinlock is remembered. *)
LEMMA StolenStays == LockTypeOK /\ [LockNext]_lockVars => (stolen => stolen')
<1> SUFFICES ASSUME LockTypeOK, [LockNext]_lockVars, stolen PROVE stolen'
  OBVIOUS
<1>1. CASE LockNext
  BY <1>1 DEF LockNext, Step, SpinlockUnlock, CorelockLock, CorelockUnlock, Spin,
     ReadCount, FirstTime, TakeCore, CompareCore, Again, LoadCount, Drop,
     FreeCore, ZeroCount, OtherCore, WaitCount, Leave, Trailing
<1>2. CASE UNCHANGED lockVars
  BY <1>2 DEF lockVars
<1>3. QED
  BY <1>1, <1>2

LEMMA LockInvStep == LockIInv /\ [LockNext]_lockVars => LockInv'
<1> SUFFICES ASSUME LockTypeOK, LockInv, [LockNext]_lockVars, ~stolen'
             PROVE  (/\ InnerExclusion
                     /\ Accounts
                     /\ \A c \in Harts : Local(c))'
  BY DEF LockIInv, LockInv
<1>0. /\ ~stolen
      /\ InnerExclusion
      /\ Accounts
      /\ \A c \in Harts : Local(c)
  BY StolenStays DEF LockInv
<1> USE <1>0, HartsAssumption DEF LockTypeOK, LockLabels, Calls, LockGoto, Inside, Guarded
<1>1. ASSUME NEW c \in Harts, CorelockLock(c)
      PROVE  (InnerExclusion /\ Accounts /\ \A d \in Harts : Local(d))'
  <2>1. InnerExclusion'
    BY <1>1 DEF InnerExclusion, CorelockLock
  <2>2. Accounts'
    BY <1>1 DEF InnerExclusion, Accounts, Account, InFlight, Local, CorelockLock
  <2>3. (\A d \in Harts : Local(d))'
    BY <1>1 DEF InnerExclusion, Accounts, Account, InFlight, Local, CorelockLock
  <2>4. QED
    BY <2>1, <2>2, <2>3
<1>2. ASSUME NEW c \in Harts, CorelockUnlock(c)
      PROVE  (InnerExclusion /\ Accounts /\ \A d \in Harts : Local(d))'
  <2>1. InnerExclusion'
    BY <1>2 DEF InnerExclusion, CorelockUnlock
  <2>2. Accounts'
    BY <1>2 DEF InnerExclusion, Accounts, Account, InFlight, Local, CorelockUnlock
  <2>3. (\A d \in Harts : Local(d))'
    BY <1>2 DEF InnerExclusion, Accounts, Account, InFlight, Local, CorelockUnlock
  <2>4. QED
    BY <2>1, <2>2, <2>3
<1>3. ASSUME NEW c \in Harts, Spin(c)
      PROVE  (InnerExclusion /\ Accounts /\ \A d \in Harts : Local(d))'
  <2>1. InnerExclusion'
    BY <1>3 DEF InnerExclusion, Spin, SpinlockLock
  <2>2. Accounts'
    BY <1>3 DEF InnerExclusion, Accounts, Account, InFlight, Local, Spin, SpinlockLock
  <2>3. (\A d \in Harts : Local(d))'
    BY <1>3 DEF InnerExclusion, Accounts, Account, InFlight, Local, Spin, SpinlockLock
  <2>4. QED
    BY <2>1, <2>2, <2>3
<1>4. ASSUME NEW c \in Harts, ReadCount(c)
      PROVE  (InnerExclusion /\ Accounts /\ \A d \in Harts : Local(d))'
  <2>1. InnerExclusion'
    BY <1>4 DEF InnerExclusion, ReadCount
  <2>2. Accounts'
    BY <1>4 DEF InnerExclusion, Accounts, Account, InFlight, Local, ReadCount
  <2>3. (\A d \in Harts : Local(d))'
    BY <1>4 DEF InnerExclusion, Accounts, Account, InFlight, Local, ReadCount
  <2>4. QED
    BY <2>1, <2>2, <2>3
<1>5. ASSUME NEW c \in Harts, FirstTime(c)
      PROVE  (InnerExclusion /\ Accounts /\ \A d \in Harts : Local(d))'
  <2>1. InnerExclusion'
    BY <1>5 DEF InnerExclusion, FirstTime
  <2>2. Accounts'
    BY <1>5 DEF InnerExclusion, Accounts, Account, InFlight, Local, FirstTime
  <2>3. (\A d \in Harts : Local(d))'
    BY <1>5 DEF InnerExclusion, Accounts, Account, InFlight, Local, FirstTime
  <2>4. QED
    BY <2>1, <2>2, <2>3
<1>6. ASSUME NEW c \in Harts, TakeCore(c)
      PROVE  (InnerExclusion /\ Accounts /\ \A d \in Harts : Local(d))'
  <2>1. InnerExclusion'
    BY <1>6 DEF InnerExclusion, TakeCore
  <2>2. Accounts'
    BY <1>6 DEF InnerExclusion, Accounts, Account, InFlight, Local, TakeCore
  <2>3. (\A d \in Harts : Local(d))'
    BY <1>6 DEF InnerExclusion, Accounts, Account, InFlight, Local, TakeCore
  <2>4. QED
    BY <2>1, <2>2, <2>3
<1>7. ASSUME NEW c \in Harts, CompareCore(c)
      PROVE  (InnerExclusion /\ Accounts /\ \A d \in Harts : Local(d))'
  <2>1. InnerExclusion'
    BY <1>7 DEF InnerExclusion, CompareCore
  <2>2. Accounts'
    BY <1>7 DEF InnerExclusion, Accounts, Account, InFlight, Local, CompareCore
  <2>3. (\A d \in Harts : Local(d))'
    BY <1>7 DEF InnerExclusion, Accounts, Account, InFlight, Local, CompareCore
  <2>4. QED
    BY <2>1, <2>2, <2>3
<1>8. ASSUME NEW c \in Harts, Again(c)
      PROVE  (InnerExclusion /\ Accounts /\ \A d \in Harts : Local(d))'
  <2>1. InnerExclusion'
    BY <1>8 DEF InnerExclusion, Again
  <2>2. Accounts'
    BY <1>8 DEF InnerExclusion, Accounts, Account, InFlight, Local, Again
  <2>3. (\A d \in Harts : Local(d))'
    BY <1>8 DEF InnerExclusion, Accounts, Account, InFlight, Local, Again
  <2>4. QED
    BY <2>1, <2>2, <2>3
<1>9. ASSUME NEW c \in Harts, LoadCount(c)
      PROVE  (InnerExclusion /\ Accounts /\ \A d \in Harts : Local(d))'
  <2>1. InnerExclusion'
    BY <1>9 DEF InnerExclusion, LoadCount
  <2>2. Accounts'
    BY <1>9 DEF InnerExclusion, Accounts, Account, InFlight, Local, LoadCount
  <2>3. (\A d \in Harts : Local(d))'
    BY <1>9 DEF InnerExclusion, Accounts, Account, InFlight, Local, LoadCount
  <2>4. QED
    BY <2>1, <2>2, <2>3
<1>10. ASSUME NEW c \in Harts, Drop(c)
      PROVE  (InnerExclusion /\ Accounts /\ \A d \in Harts : Local(d))'
  <2>1. InnerExclusion'
    BY <1>10 DEF InnerExclusion, Drop
  <2>2. Accounts'
    BY <1>10 DEF InnerExclusion, Accounts, Account, InFlight, Local, Drop
  <2>3. (\A d \in Harts : Local(d))'
    BY <1>10 DEF InnerExclusion, Accounts, Account, InFlight, Local, Drop
  <2>4. QED
    BY <2>1, <2>2, <2>3
<1>11. ASSUME NEW c \in Harts, FreeCore(c)
      PROVE  (InnerExclusion /\ Accounts /\ \A d \in Harts : Local(d))'
  <2>1. InnerExclusion'
    BY <1>11 DEF InnerExclusion, FreeCore
  <2>2. Accounts'
    BY <1>11 DEF InnerExclusion, Accounts, Account, InFlight, Local, FreeCore
  <2>3. (\A d \in Harts : Local(d))'
    BY <1>11 DEF InnerExclusion, Accounts, Account, InFlight, Local, FreeCore
  <2>4. QED
    BY <2>1, <2>2, <2>3
<1>12. ASSUME NEW c \in Harts, ZeroCount(c)
      PROVE  (InnerExclusion /\ Accounts /\ \A d \in Harts : Local(d))'
  <2>1. InnerExclusion'
    BY <1>12 DEF InnerExclusion, ZeroCount
  <2>2. Accounts'
    BY <1>12 DEF InnerExclusion, Accounts, Account, InFlight, Local, ZeroCount
  <2>3. (\A d \in Harts : Local(d))'
    BY <1>12 DEF InnerExclusion, Accounts, Account, InFlight, Local, ZeroCount
  <2>4. QED
    BY <2>1, <2>2, <2>3
<1>13. ASSUME NEW c \in Harts, OtherCore(c)
      PROVE  (InnerExclusion /\ Accounts /\ \A d \in Harts : Local(d))'
  <2>1. InnerExclusion'
    BY <1>13 DEF InnerExclusion, OtherCore, SpinlockUnlock
  <2>2. Accounts'
    BY <1>13 DEF InnerExclusion, Accounts, Account, InFlight, Local, OtherCore, SpinlockUnlock
  <2>3. (\A d \in Harts : Local(d))'
    BY <1>13 DEF InnerExclusion, Accounts, Account, InFlight, Local, OtherCore, SpinlockUnlock
  <2>4. QED
    BY <2>1, <2>2, <2>3
<1>14. ASSUME NEW c \in Harts, WaitCount(c)
      PROVE  (InnerExclusion /\ Accounts /\ \A d \in Harts : Local(d))'
  <2>1. InnerExclusion'
    BY <1>14 DEF InnerExclusion, WaitCount
  <2>2. Accounts'
    BY <1>14 DEF InnerExclusion, Accounts, Account, InFlight, Local, WaitCount
  <2>3. (\A d \in Harts : Local(d))'
    BY <1>14 DEF InnerExclusion, Accounts, Account, InFlight, Local, WaitCount
  <2>4. QED
    BY <2>1, <2>2, <2>3
<1>15. ASSUME NEW c \in Harts, Leave(c)
      PROVE  (InnerExclusion /\ Accounts /\ \A d \in Harts : Local(d))'
  <2>1. InnerExclusion'
    BY <1>15 DEF InnerExclusion, Leave, SpinlockUnlock
  <2>2. Accounts'
    BY <1>15 DEF InnerExclusion, Accounts, Account, InFlight, Local, Leave, SpinlockUnlock
  <2>3. (\A d \in Harts : Local(d))'
    BY <1>15 DEF InnerExclusion, Accounts, Account, InFlight, Local, Leave, SpinlockUnlock
  <2>4. QED
    BY <2>1, <2>2, <2>3
<1>16. ASSUME NEW c \in Harts, Trailing(c)
      PROVE  (InnerExclusion /\ Accounts /\ \A d \in Harts : Local(d))'
  <2>1. InnerExclusion'
    BY <1>16 DEF InnerExclusion, Trailing, SpinlockUnlock
  <2>2. Accounts'
    BY <1>16 DEF InnerExclusion, Accounts, Account, InFlight, Local, Trailing, SpinlockUnlock
  <2>3. (\A d \in Harts : Local(d))'
    BY <1>16 DEF InnerExclusion, Accounts, Account, InFlight, Local, Trailing, SpinlockUnlock
  <2>4. QED
    BY <2>1, <2>2, <2>3
<1>17. CASE UNCHANGED lockVars
  BY <1>17 DEF lockVars, InnerExclusion, Accounts, Account, InFlight, Local
<1>18. QED
  BY <1>1, <1>2, <1>3, <1>4, <1>5, <1>6, <1>7, <1>8, <1>9, <1>10, <1>11, <1>12, <1>13, <1>14, <1>15, <1>16, <1>17 DEF LockNext, Step

(* LockInv holds of every behaviour, for every number of cores. *)
THEOREM LockInvariantCorrect == LockSpec => []LockIInv
<1>1. LockInit => LockIInv
  BY LockTypeInit, LockInvInit DEF LockIInv
<1>2. LockIInv /\ [LockNext]_lockVars => LockIInv'
  BY LockTypeStep, LockInvStep DEF LockIInv
<1>3. QED
  BY <1>1, <1>2, PTL DEF LockSpec

(***************************************************************************)
(* Two cores are never both inside the critical section of a corelock_t    *)
(* before a spinlock_unlock has freed the other core's spinlock.           *)
(***************************************************************************)
THEOREM MutualExclusionCorrect == LockSpec => []MutualExclusion
<1>1. LockIInv => MutualExclusion
  BY DEF LockIInv, LockTypeOK, LockInv, Accounts, Account, MutualExclusion, Holds
<1>2. QED
  BY <1>1, LockInvariantCorrect, PTL

(***************************************************************************)
(* Until then the fields core and count are the holder's own account.      *)
(***************************************************************************)
THEOREM CountIsDepthCorrect == LockSpec => []CountIsDepth
<1>1. LockIInv => CountIsDepth
  BY DEF LockIInv, LockTypeOK, LockInv, Accounts, Account, InFlight, CountIsDepth,
     Holds
<1>2. QED
  BY <1>1, LockInvariantCorrect, PTL

-----------------------------------------------------------------------------
(***************************************************************************)
(* corelock_t implements RecursiveLock.  The abstract acquisition is the   *)
(* store that completes (count, core), the abstract release the store of   *)
(* the decremented count; every other step leaves the abstract lock alone. *)
(***************************************************************************)
LEMMA RefinementStep ==
  LockIInv /\ [LockNext]_lockVars => (~stolen' => [Abstract!Next]_recorded)
<1> SUFFICES ASSUME LockIInv, [LockNext]_lockVars, ~stolen'
             PROVE  Abstract!Next \/ UNCHANGED recorded
  OBVIOUS
<1>0. /\ LockTypeOK
      /\ ~stolen
      /\ InnerExclusion
      /\ Accounts
      /\ \A c \in Harts : Local(c)
  BY StolenStays DEF LockIInv, LockInv
<1> USE <1>0 DEF LockTypeOK, LockGoto
<1>1. ASSUME NEW c \in Harts, TakeCore(c) \/ Again(c)
      PROVE  Abstract!Acquire(c)
  <2>1. core \in {c, NoHart}
    BY <1>1 DEF TakeCore, Again, Local
  <2>2. \A d \in Harts \ {c} : recorded[d] = 0
    BY <2>1, HartsAssumption DEF recorded
  <2>3. core' = c /\ count' = (IF core = c THEN count ELSE 0) + 1
    BY <1>1, HartsAssumption DEF TakeCore, Again, Local
  <2>4. recorded' = [recorded EXCEPT ![c] = @ + 1]
    BY <2>1, <2>3, HartsAssumption DEF recorded
  <2>5. QED
    BY <2>2, <2>4 DEF Abstract!Acquire
<1>2. ASSUME NEW c \in Harts, Drop(c)
      PROVE  Abstract!Release(c)
  <2>1. core = c /\ core' = c /\ count > 0 /\ count' = count - 1
    BY <1>2 DEF Drop, Local, Accounts, Account, InFlight
  <2>2. recorded[c] > 0 /\ recorded' = [recorded EXCEPT ![c] = @ - 1]
    BY <2>1 DEF recorded
  <2>3. QED
    BY <2>2 DEF Abstract!Release
<1>3. ASSUME NEW c \in Harts, FirstTime(c) \/ FreeCore(c) \/ ZeroCount(c)
      PROVE  UNCHANGED recorded
  BY <1>3, HartsAssumption DEF FirstTime, FreeCore, ZeroCount, Local, recorded
<1>4. ASSUME UNCHANGED <<count, core>>
      PROVE  UNCHANGED recorded
  BY <1>4 DEF recorded
<1>5. CASE UNCHANGED lockVars
  BY <1>4, <1>5 DEF lockVars
<1>6. CASE LockNext
  <2>1. PICK c \in Harts : CorelockLock(c) \/ CorelockUnlock(c) \/ Step(c)
    BY <1>6 DEF LockNext
  <2>2. CASE \/ TakeCore(c) \/ Again(c) \/ Drop(c)
             \/ FirstTime(c) \/ FreeCore(c) \/ ZeroCount(c)
    BY <1>1, <1>2, <1>3, <2>2 DEF Abstract!Next
  <2>3. CASE \/ CorelockLock(c) \/ CorelockUnlock(c) \/ Spin(c)
             \/ ReadCount(c) \/ CompareCore(c) \/ LoadCount(c)
             \/ OtherCore(c) \/ WaitCount(c) \/ Leave(c) \/ Trailing(c)
    BY <1>4, <2>3 DEF CorelockLock, CorelockUnlock, Spin, ReadCount,
       CompareCore, LoadCount, OtherCore, WaitCount, Leave, Trailing
  <2>4. QED
    BY <2>1, <2>2, <2>3 DEF Step
<1>7. QED
  BY <1>5, <1>6

(* Every step before the spinlock is stolen is an abstract step or none. *)
THEOREM Refinement == LockSpec => RefinesRecursiveLock
<1>1. QED
  BY LockInvariantCorrect, RefinementStep, PTL DEF LockSpec, RefinesRecursiveLock

-----------------------------------------------------------------------------
(***************************************************************************)
(* CoreSync                                                                *)
(***************************************************************************)

(* Where a thread holds the lock of a mailbox, and what it does there *)
Posting(c) == pc[c] \in {"poll", "slot", "event", "ipi", "unsync"}

(* Where a thread has a task in its hand *)
Creating(c) ==
    \/ op[c] = "local" /\ pc[c] \in {"enter", "lock", "add"}
    \/ op[c] = "remote" /\ (pc[c] \in {"enter", "lock", "sync"} \/ Posting(c))

(* The critical sections a thread and a handler are in *)
Sections(c) ==
    CASE pc[c] = "run" -> 0
      [] pc[c] = "enter" -> IF op[c] = "nested" THEN 1 ELSE 0
      [] OTHER -> IF op[c] = "nested" THEN 2 ELSE 1

IrqSections(c) == IF irq[c] \in {"lock", "add", "unlock", "exit"} THEN 1 ELSE 0

(* Their acquisitions of xCoreLock *)
Locks(c) ==
    IF \/ op[c] = "nested"
       \/ op[c] = "remote" /\ pc[c] \in {"sync", "poll", "slot", "event", "ipi", "unsync"}
       \/ pc[c] \in {"add", "unlock"}
    THEN 1 ELSE 0

IrqLocks(c) == IF irq[c] \in {"add", "unlock"} THEN 1 ELSE 0

-----------------------------------------------------------------------------
(* What each call does at each place *)
Shape ==
    \A c \in Cores :
        /\ pc[c] \in {"lock", "unlock"} => op[c] \in {"local", "remote", "wake"}
        /\ pc[c] = "add" => op[c] = "local"
        /\ pc[c] = "slot" => op[c] = "remote"
        /\ pc[c] = "sync" \/ Posting(c) => op[c] \in {"remote", "yield", "nested"}
        /\ op[c] = "nested" => pc[c] \in {"enter", "sync", "exit"} \/ Posting(c)
        /\ ~running[c] => op[c] = "local"

(* Critical sections are counted once the scheduler runs, and no handler   *)
(* starts in one. Before, interrupts stay enabled outside handlers.        *)
Nesting ==
    \A c \in Cores :
        /\ nesting[c] = IF running[c] THEN Sections(c) + IrqSections(c) ELSE 0
        /\ running[c] /\ Sections(c) > 0 => irq[c] = "none" /\ ~mie[c]
        /\ ~running[c] /\ irq[c] = "none" => mie[c]

(* xCoreLock has one owner, who has it as often as the code says; before   *)
(* the scheduler runs, no handler starts on top of it.                     *)
LocksCounted == \A c \in Cores : coreLock[c] = Locks(c) + IrqLocks(c)
OneOwner == \A c, d \in Cores : coreLock[c] > 0 /\ coreLock[d] > 0 => c = d
EarlyOwner ==
    \A c \in Cores : ~running[c] /\ Locks(c) > 0 => ~msip[c] /\ irq[c] = "none"

Locking == LocksCounted /\ OneOwner /\ EarlyOwner

(* A mailbox has one poster at a time, which waits for it to be empty, and *)
(* the handler works between the interrupt and the emptying of it.         *)
OnePoster == \A c \in Cores : Posting(c) => syncLock[Target(c)] = c
EmptyWhenPosted ==
    \A c \in Cores : pc[c] \in {"slot", "event"} => event[Target(c)] = "NONE"
QuietWhenRaised ==
    \A c \in Cores : pc[c] = "ipi" =>
        /\ event[Target(c)] # "NONE" /\ ~msip[Target(c)]
        /\ irq[Target(c)] \in {"none", "return"}
HandlerHasEvent ==
    \A c \in Cores :
        /\ msip[c] => event[c] # "NONE" /\ irq[c] \in {"none", "clear", "return"}
        /\ irq[c] \notin {"none", "return"} => event[c] # "NONE"
        /\ irq[c] = "clear" => msip[c] /\ ~mie[c]
        /\ irq[c] \notin {"none", "clear", "switch", "complete", "return"} =>
             event[c] = "ADD_TCB"

Mailbox ==
    /\ OnePoster /\ EmptyWhenPosted /\ QuietWhenRaised /\ HandlerHasEvent
    /\ EventAnnounced

(* A slot is filled for its ADD_TCB event, and empty otherwise. *)
Slots ==
    \A c \in Cores :
        /\ slot[c] # NoTask => \/ event[c] = "ADD_TCB" /\ irq[c] # "complete"
                               \/ \E d \in Cores : pc[d] = "event" /\ op[d] = "remote" /\ Target(d) = c
        /\ event[c] = "ADD_TCB" /\ irq[c] # "complete" => slot[c] # NoTask
        /\ irq[c] \in {"enter", "lock", "add", "unlock", "exit", "null"} => irqTask[c] = slot[c]

(* Where a created task is *)
Places ==
    /\ \A c \in Cores :
         /\ Creating(c) <=> hand[c] # NoTask
         /\ hand[c] # NoTask =>
              /\ hand[c] \in created /\ By[hand[c]] = c
              /\ op[c] = "local" <=> On[hand[c]] = c
         /\ hand[c] # NoTask /\ pc[c] \in {"enter", "lock", "add", "sync", "poll", "slot"} =>
              slot[On[hand[c]]] # hand[c] /\ hand[c] \notin ready[On[hand[c]]]
         /\ op[c] = "remote" /\ pc[c] = "event" => slot[Target(c)] = hand[c]
         /\ op[c] = "remote" /\ pc[c] \in {"ipi", "unsync"} =>
              slot[Target(c)] = hand[c] \/ hand[c] \in ready[Target(c)]
         /\ slot[c] # NoTask => slot[c] \in created /\ On[slot[c]] = c
         /\ slot[c] # NoTask =>
              (slot[c] \in ready[c] <=> irq[c] \in {"unlock", "exit", "null"})
         /\ \A t \in ready[c] : t \in created /\ On[t] = c
    /\ \A t \in created : hand[By[t]] = t \/ slot[On[t]] = t \/ t \in ready[On[t]]

(* A handler that has been interrupted had done all its work. *)
Stacked == \A c \in Cores : \A i \in DOMAIN outer[c] : outer[c][i].at = "return"

SyncInv ==
    Shape /\ Nesting /\ Locking /\ Mailbox /\ Slots /\ Places /\ Stacked

IInv == TypeOK /\ SyncInv
-----------------------------------------------------------------------------
(* It holds initially: nothing is posted, held or created.                 *)
LEMMA InitInv == Init => IInv
<1> SUFFICES ASSUME Init PROVE IInv
  OBVIOUS
<1> USE NoneAssumption, PlanAssumption DEF Init
<1>1. TypeOK
  <2>1. StackTypeOK
    BY DEF StackTypeOK
  <2>2. QED
    BY <2>1 DEF TypeOK, Labels, IrqLabels, Ops, Events
<1>2. Shape /\ Nesting /\ Locking
  BY DEF Shape, Nesting, Locking, LocksCounted, OneOwner, EarlyOwner, Posting,
    Sections, IrqSections, Locks, IrqLocks
<1>3. Mailbox /\ Slots /\ Places
  BY DEF Mailbox, OnePoster, EmptyWhenPosted, QuietWhenRaised,
    HandlerHasEvent, EventAnnounced, Slots, Places, Posting, Creating
<1>4. Stacked
  BY DEF Stacked
<1>5. QED
  BY <1>1, <1>2, <1>3, <1>4 DEF IInv, SyncInv

(* A handler returns to the thread, or to a handler that has done its work. *)
LEMMA ReturnsToIdle ==
  ASSUME IInv, NEW c \in Cores, Return(c)
  PROVE  /\ irq[c] = "return"
         /\ mie' = [mie EXCEPT ![c] = TRUE]
         /\ \E l \in {"none", "return"} : irq' = [irq EXCEPT ![c] = l]
         /\ \E t \in Tasks \cup {NoTask} : irqTask' = [irqTask EXCEPT ![c] = t]
         /\ StackTypeOK'
         /\ Stacked'
         /\ UNCHANGED <<running, nesting, coreLock, ready, thread, mailbox, created>>
<1> USE DEF Return, IrqAt, IrqGoto, IInv, SyncInv, TypeOK, StackTypeOK, Stacked
<1>1. CASE outer[c] = <<>>
  BY <1>1
<1>2. CASE outer[c] # <<>>
  <2> DEFINE s == outer[c]
  <2>1. s \in Seq(Frames) /\ 1 \in DOMAIN s /\ Head(s) = s[1] /\ s[1] \in Frames
    BY <1>2
  <2>2. s[1].at = "return" /\ s[1].task \in Tasks \cup {NoTask}
    BY <2>1 DEF Frames
  <2>3. /\ Tail(s) \in Seq(Frames)
        /\ \A i \in DOMAIN Tail(s) : i + 1 \in DOMAIN s /\ Tail(s)[i] = s[i + 1]
    BY <2>1
  <2>4. /\ irq' = [irq EXCEPT ![c] = "return"]
        /\ irqTask' = [irqTask EXCEPT ![c] = s[1].task]
        /\ outer' = [outer EXCEPT ![c] = Tail(s)]
    BY <1>2, <2>1, <2>2
  <2>5. Stacked'
    BY <2>3, <2>4
  <2>6. QED
    BY <2>2, <2>3, <2>4, <2>5
<1>3. QED
  BY <1>1, <1>2

(* A return moves the handler of its own core and leaves the posters be.   *)
LEMMA ReturnsMoves ==
  ASSUME IInv, NEW c \in Cores, Return(c)
  PROVE  /\ irq[c] = "return" /\ irq'[c] \in {"none", "return"}
         /\ \A d \in Cores \ {c} : irq'[d] = irq[d] /\ mie'[d] = mie[d]
         /\ UNCHANGED <<running, nesting, coreLock, pc, op, hand, event, syncLock, msip>>
<1>1. /\ irq[c] = "return" /\ mie' = [mie EXCEPT ![c] = TRUE]
      /\ \E l \in {"none", "return"} : irq' = [irq EXCEPT ![c] = l]
      /\ UNCHANGED <<running, nesting, coreLock, thread, mailbox>>
  BY ReturnsToIdle
<1>2. irq \in [Cores -> IrqLabels] /\ mie \in [Cores -> BOOLEAN]
  BY DEF IInv, TypeOK
<1>3. QED
  BY <1>1, <1>2 DEF thread, mailbox

(* A trap stacks the handler that it interrupts, which has done its work.  *)
LEMMA TrapStacks ==
  ASSUME IInv, NEW c \in Cores, Trap(c)
  PROVE  /\ irq[c] \in {"none", "return"}
         /\ mie[c] /\ msip[c]
         /\ mie' = [mie EXCEPT ![c] = FALSE]
         /\ irq' = [irq EXCEPT ![c] = "clear"]
         /\ irqTask' = [irqTask EXCEPT ![c] = NoTask]
         /\ StackTypeOK'
         /\ Stacked'
         /\ UNCHANGED <<running, nesting, coreLock, ready, thread, mailbox, created>>
<1> USE DEF Trap, TrapDue, IrqGoto, IInv, SyncInv, TypeOK, StackTypeOK, Stacked, Mailbox, HandlerHasEvent
<1>1. CASE irq[c] = "none"
  BY <1>1
<1>2. CASE irq[c] # "none"
  <2> DEFINE f == [at |-> irq[c], task |-> irqTask[c]]
             s == outer[c]
  <2>1. f \in Frames /\ f.at = "return" /\ s \in Seq(Frames)
    <3>1. irq[c] = "return"
      BY <1>2
    <3>2. f \in Frames
      BY DEF Frames
    <3>3. QED
      BY <3>1, <3>2
  <2>2. /\ <<f>> \o s \in Seq(Frames)
        /\ \A i \in DOMAIN (<<f>> \o s) :
             \/ (<<f>> \o s)[i] = f
             \/ i - 1 \in DOMAIN s /\ (<<f>> \o s)[i] = s[i - 1]
    BY <2>1
  <2>3. outer' = [outer EXCEPT ![c] = <<f>> \o s]
    BY <1>2
  <2>4. QED
    BY <2>1, <2>2, <2>3
<1>3. QED
  BY <1>1, <1>2

(* A trap moves the handler of its own core and leaves the posters be.     *)
LEMMA TrapMoves ==
  ASSUME IInv, NEW c \in Cores, Trap(c)
  PROVE  /\ irq[c] \in {"none", "return"} /\ mie[c] /\ msip[c] /\ irq'[c] = "clear" /\ ~mie'[c]
         /\ \A d \in Cores \ {c} : irq'[d] = irq[d] /\ mie'[d] = mie[d]
         /\ UNCHANGED <<running, nesting, coreLock, pc, op, hand, event, syncLock, msip>>
<1>1. /\ irq[c] \in {"none", "return"} /\ mie[c] /\ msip[c]
      /\ mie' = [mie EXCEPT ![c] = FALSE] /\ irq' = [irq EXCEPT ![c] = "clear"]
      /\ UNCHANGED <<running, nesting, coreLock, thread, mailbox>>
  BY TrapStacks
<1>2. irq \in [Cores -> IrqLabels] /\ mie \in [Cores -> BOOLEAN]
  BY DEF IInv, TypeOK
<1>3. QED
  BY <1>1, <1>2 DEF thread, mailbox

(* Every step keeps the types.                                             *)
LEMMA TypeStep == IInv /\ [Next]_vars => TypeOK'
<1> SUFFICES ASSUME IInv, [Next]_vars PROVE TypeOK'
  OBVIOUS
<1> USE NoneAssumption, PlanAssumption DEF IInv, SyncInv, TypeOK,
  Goto, IrqGoto, IrqAt, Labels, IrqLabels, Ops, Events, thread, handler, mailbox, At
<1>a. ASSUME UNCHANGED outer PROVE StackTypeOK'
  BY <1>a DEF StackTypeOK
<1>1. ASSUME NEW c \in Cores, CreateTask(c) PROVE TypeOK'
  BY <1>1, <1>a DEF CreateTask
<1>2. ASSUME NEW c \in Cores, StartYield(c) PROVE TypeOK'
  BY <1>2, <1>a DEF StartYield
<1>3. ASSUME NEW c \in Cores, StartScheduler(c) PROVE TypeOK'
  BY <1>3, <1>a DEF StartScheduler
<1>4. ASSUME NEW c \in Cores, Enter(c) PROVE TypeOK'
  BY <1>4, <1>a DEF Enter, EnterCritical
<1>5. ASSUME NEW c \in Cores, Lock(c) PROVE TypeOK'
  BY <1>5, <1>a DEF Lock, CoreLk!Acquire, Shape
<1>6. ASSUME NEW c \in Cores, Add(c) PROVE TypeOK'
  BY <1>6, <1>a DEF Add, Shape, Places, Creating
<1>7. ASSUME NEW c \in Cores, Sync(c) PROVE TypeOK'
  BY <1>7, <1>a DEF Sync
<1>8. ASSUME NEW c \in Cores, Poll(c) PROVE TypeOK'
  BY <1>8, <1>a DEF Poll
<1>9. ASSUME NEW c \in Cores, PostTask(c) PROVE TypeOK'
  BY <1>9, <1>a DEF PostTask
<1>10. ASSUME NEW c \in Cores, PostEvent(c) PROVE TypeOK'
  BY <1>10, <1>a DEF PostEvent
<1>11. ASSUME NEW c \in Cores, SendIpi(c) PROVE TypeOK'
  BY <1>11, <1>a DEF SendIpi
<1>12. ASSUME NEW c \in Cores, Unsync(c) PROVE TypeOK'
  BY <1>12, <1>a DEF Unsync
<1>13. ASSUME NEW c \in Cores, Unlock(c) PROVE TypeOK'
  BY <1>13, <1>a DEF Unlock, CoreLk!Release
<1>14. ASSUME NEW c \in Cores, Exit(c) PROVE TypeOK'
  BY <1>14, <1>a DEF Exit, ExitCritical
<1>15. ASSUME NEW c \in Cores, Trap(c) PROVE TypeOK'
  <2>1. /\ mie' = [mie EXCEPT ![c] = FALSE]
        /\ irq' = [irq EXCEPT ![c] = "clear"]
        /\ irqTask' = [irqTask EXCEPT ![c] = NoTask]
        /\ StackTypeOK'
        /\ UNCHANGED <<running, nesting, coreLock, ready, thread, mailbox, created>>
    BY <1>15, TrapStacks
  <2>2. QED
    BY <2>1
<1>16. ASSUME NEW c \in Cores, ClearIpi(c) PROVE TypeOK'
  BY <1>16, <1>a DEF ClearIpi
<1>17. ASSUME NEW c \in Cores, SwitchEvent(c) PROVE TypeOK'
  BY <1>17, <1>a DEF SwitchEvent
<1>18. ASSUME NEW c \in Cores, FetchTask(c) PROVE TypeOK'
  BY <1>18, <1>a DEF FetchTask
<1>19. ASSUME NEW c \in Cores, IrqEnter(c) PROVE TypeOK'
  BY <1>19, <1>a DEF IrqEnter, EnterCritical
<1>20. ASSUME NEW c \in Cores, IrqLock(c) PROVE TypeOK'
  BY <1>20, <1>a DEF IrqLock, CoreLk!Acquire
<1>21. ASSUME NEW c \in Cores, IrqAdd(c) PROVE TypeOK'
  BY <1>21, <1>a DEF IrqAdd, Slots, Mailbox, HandlerHasEvent
<1>22. ASSUME NEW c \in Cores, IrqUnlock(c) PROVE TypeOK'
  BY <1>22, <1>a DEF IrqUnlock, CoreLk!Release
<1>23. ASSUME NEW c \in Cores, IrqExit(c) PROVE TypeOK'
  BY <1>23, <1>a DEF IrqExit, ExitCritical
<1>24. ASSUME NEW c \in Cores, NullSlot(c) PROVE TypeOK'
  BY <1>24, <1>a DEF NullSlot
<1>25. ASSUME NEW c \in Cores, Complete(c) PROVE TypeOK'
  BY <1>25, <1>a DEF Complete
<1>26. ASSUME NEW c \in Cores, Return(c) PROVE TypeOK'
  <2>1. PICK l \in {"none", "return"}, t \in Tasks \cup {NoTask} :
          /\ irq' = [irq EXCEPT ![c] = l]
          /\ irqTask' = [irqTask EXCEPT ![c] = t]
    BY <1>26, ReturnsToIdle
  <2>2. /\ mie' = [mie EXCEPT ![c] = TRUE]
        /\ StackTypeOK'
        /\ UNCHANGED <<running, nesting, coreLock, ready, thread, mailbox, created>>
    BY <1>26, ReturnsToIdle
  <2>3. QED
    BY <2>1, <2>2
<1>27. CASE UNCHANGED vars
  BY <1>27, <1>a DEF vars
<1>28. QED
  BY <1>1, <1>2, <1>3, <1>4, <1>5, <1>6, <1>7, <1>8, <1>9, <1>10, <1>11,
    <1>12, <1>13, <1>14, <1>15, <1>16, <1>17, <1>18, <1>19, <1>20, <1>21,
    <1>22, <1>23, <1>24, <1>25, <1>26, <1>27
    DEF Next, Thread, Handler

(* Every step keeps each call on its path.                                 *)
LEMMA ShapeStep == IInv /\ [Next]_vars => Shape'
<1> SUFFICES ASSUME IInv, [Next]_vars PROVE Shape'
  OBVIOUS
<1> USE NoneAssumption, PlanAssumption DEF IInv, SyncInv, TypeOK,
  Goto, IrqGoto, IrqAt, Labels, IrqLabels, Ops, Events, thread, handler, mailbox, At
<1>1. ASSUME NEW c \in Cores, CreateTask(c) PROVE Shape'
  BY <1>1 DEF CreateTask, Shape, Posting
<1>2. ASSUME NEW c \in Cores, StartYield(c) PROVE Shape'
  BY <1>2 DEF StartYield, Shape, Posting
<1>3. ASSUME NEW c \in Cores, StartScheduler(c) PROVE Shape'
  BY <1>3 DEF StartScheduler, Shape, Posting
<1>4. ASSUME NEW c \in Cores, Enter(c) PROVE Shape'
  BY <1>4 DEF Enter, EnterCritical, Shape, Posting
<1>5. ASSUME NEW c \in Cores, Lock(c) PROVE Shape'
  BY <1>5 DEF Lock, CoreLk!Acquire, Shape, Posting
<1>6. ASSUME NEW c \in Cores, Add(c) PROVE Shape'
  BY <1>6 DEF Add, Shape, Posting
<1>7. ASSUME NEW c \in Cores, Sync(c) PROVE Shape'
  BY <1>7 DEF Sync, Shape, Posting
<1>8. ASSUME NEW c \in Cores, Poll(c) PROVE Shape'
  BY <1>8 DEF Poll, Shape, Posting
<1>9. ASSUME NEW c \in Cores, PostTask(c) PROVE Shape'
  BY <1>9 DEF PostTask, Shape, Posting
<1>10. ASSUME NEW c \in Cores, PostEvent(c) PROVE Shape'
  BY <1>10 DEF PostEvent, Shape, Posting
<1>11. ASSUME NEW c \in Cores, SendIpi(c) PROVE Shape'
  BY <1>11 DEF SendIpi, Shape, Posting
<1>12. ASSUME NEW c \in Cores, Unsync(c) PROVE Shape'
  BY <1>12 DEF Unsync, Shape, Posting
<1>13. ASSUME NEW c \in Cores, Unlock(c) PROVE Shape'
  BY <1>13 DEF Unlock, CoreLk!Release, Shape, Posting
<1>14. ASSUME NEW c \in Cores, Exit(c) PROVE Shape'
  BY <1>14 DEF Exit, ExitCritical, Shape, Posting
<1>15. ASSUME NEW c \in Cores, Trap(c) PROVE Shape'
  BY <1>15, TrapStacks DEF Shape, Posting
<1>16. ASSUME NEW c \in Cores, ClearIpi(c) PROVE Shape'
  BY <1>16 DEF ClearIpi, Shape, Posting
<1>17. ASSUME NEW c \in Cores, SwitchEvent(c) PROVE Shape'
  BY <1>17 DEF SwitchEvent, Shape, Posting
<1>18. ASSUME NEW c \in Cores, FetchTask(c) PROVE Shape'
  BY <1>18 DEF FetchTask, Shape, Posting
<1>19. ASSUME NEW c \in Cores, IrqEnter(c) PROVE Shape'
  BY <1>19 DEF IrqEnter, EnterCritical, Shape, Posting
<1>20. ASSUME NEW c \in Cores, IrqLock(c) PROVE Shape'
  BY <1>20 DEF IrqLock, CoreLk!Acquire, Shape, Posting
<1>21. ASSUME NEW c \in Cores, IrqAdd(c) PROVE Shape'
  BY <1>21 DEF IrqAdd, Shape, Posting
<1>22. ASSUME NEW c \in Cores, IrqUnlock(c) PROVE Shape'
  BY <1>22 DEF IrqUnlock, CoreLk!Release, Shape, Posting
<1>23. ASSUME NEW c \in Cores, IrqExit(c) PROVE Shape'
  BY <1>23 DEF IrqExit, ExitCritical, Shape, Posting
<1>24. ASSUME NEW c \in Cores, NullSlot(c) PROVE Shape'
  BY <1>24 DEF NullSlot, Shape, Posting
<1>25. ASSUME NEW c \in Cores, Complete(c) PROVE Shape'
  BY <1>25 DEF Complete, Shape, Posting
<1>26. ASSUME NEW c \in Cores, Return(c) PROVE Shape'
  BY <1>26, ReturnsToIdle DEF TrapDue, Shape, Posting
<1>27. CASE UNCHANGED vars
  BY <1>27 DEF vars, Shape, Posting
<1>28. QED
  BY <1>1, <1>2, <1>3, <1>4, <1>5, <1>6, <1>7, <1>8, <1>9, <1>10, <1>11,
    <1>12, <1>13, <1>14, <1>15, <1>16, <1>17, <1>18, <1>19, <1>20, <1>21,
    <1>22, <1>23, <1>24, <1>25, <1>26, <1>27
    DEF Next, Thread, Handler

(* Every step keeps the sections counted: an entry is matched by an exit.  *)
LEMMA NestingStep == IInv /\ [Next]_vars => Nesting'
<1> SUFFICES ASSUME IInv, [Next]_vars PROVE Nesting'
  OBVIOUS
<1> USE NoneAssumption, PlanAssumption DEF IInv, SyncInv, TypeOK,
  Goto, IrqGoto, IrqAt, Labels, IrqLabels, Ops, Events, thread, handler, mailbox, At
<1>1. ASSUME NEW c \in Cores, CreateTask(c) PROVE Nesting'
  BY <1>1 DEF CreateTask, Nesting, Shape, Posting, Sections, IrqSections
<1>2. ASSUME NEW c \in Cores, StartYield(c) PROVE Nesting'
  BY <1>2 DEF StartYield, Nesting, Shape, Posting, Sections, IrqSections
<1>3. ASSUME NEW c \in Cores, StartScheduler(c) PROVE Nesting'
  BY <1>3 DEF StartScheduler, Nesting, Shape, Posting, Sections, IrqSections
<1>4. ASSUME NEW c \in Cores, Enter(c) PROVE Nesting'
  <2>1. CASE op[c] \in {"yield", "nested"}
    BY <1>4, <2>1 DEF Enter, TrapDue, EnterCritical, Nesting, Sections, IrqSections, Shape
  <2>2. CASE op[c] \notin {"yield", "nested"}
    BY <1>4, <2>2 DEF Enter, TrapDue, EnterCritical, Nesting, Sections, IrqSections, Shape
  <2>3. QED
    BY <2>1, <2>2
<1>5. ASSUME NEW c \in Cores, Lock(c) PROVE Nesting'
  BY <1>5 DEF Lock, CoreLk!Acquire, Nesting, Shape, Posting, Sections,
    IrqSections
<1>6. ASSUME NEW c \in Cores, Add(c) PROVE Nesting'
  BY <1>6 DEF Add, Nesting, Shape, Posting, Sections, IrqSections
<1>7. ASSUME NEW c \in Cores, Sync(c) PROVE Nesting'
  BY <1>7 DEF Sync, Nesting, Shape, Posting, Sections, IrqSections
<1>8. ASSUME NEW c \in Cores, Poll(c) PROVE Nesting'
  BY <1>8 DEF Poll, Nesting, Shape, Posting, Sections, IrqSections
<1>9. ASSUME NEW c \in Cores, PostTask(c) PROVE Nesting'
  BY <1>9 DEF PostTask, Nesting, Shape, Posting, Sections, IrqSections
<1>10. ASSUME NEW c \in Cores, PostEvent(c) PROVE Nesting'
  BY <1>10 DEF PostEvent, Nesting, Shape, Posting, Sections, IrqSections
<1>11. ASSUME NEW c \in Cores, SendIpi(c) PROVE Nesting'
  BY <1>11 DEF SendIpi, Nesting, Shape, Posting, Sections, IrqSections
<1>12. ASSUME NEW c \in Cores, Unsync(c) PROVE Nesting'
  BY <1>12 DEF Unsync, Nesting, Shape, Posting, Sections, IrqSections
<1>13. ASSUME NEW c \in Cores, Unlock(c) PROVE Nesting'
  BY <1>13 DEF Unlock, CoreLk!Release, Nesting, Shape, Posting, Sections,
    IrqSections
<1>14. ASSUME NEW c \in Cores, Exit(c) PROVE Nesting'
  BY <1>14 DEF Exit, ExitCritical, Nesting, Shape, Posting, Sections,
    IrqSections
<1>15. ASSUME NEW c \in Cores, Trap(c) PROVE Nesting'
  BY <1>15, TrapStacks DEF Nesting, Shape, Posting, Sections, IrqSections
<1>16. ASSUME NEW c \in Cores, ClearIpi(c) PROVE Nesting'
  BY <1>16 DEF ClearIpi, Nesting, Shape, Posting, Sections, IrqSections
<1>17. ASSUME NEW c \in Cores, SwitchEvent(c) PROVE Nesting'
  BY <1>17 DEF SwitchEvent, Nesting, Shape, Posting, Sections, IrqSections
<1>18. ASSUME NEW c \in Cores, FetchTask(c) PROVE Nesting'
  BY <1>18 DEF FetchTask, Nesting, Shape, Posting, Sections, IrqSections
<1>19. ASSUME NEW c \in Cores, IrqEnter(c) PROVE Nesting'
  BY <1>19 DEF IrqEnter, EnterCritical, Nesting, Shape, Posting, Sections,
    IrqSections
<1>20. ASSUME NEW c \in Cores, IrqLock(c) PROVE Nesting'
  BY <1>20 DEF IrqLock, CoreLk!Acquire, Nesting, Shape, Posting, Sections,
    IrqSections
<1>21. ASSUME NEW c \in Cores, IrqAdd(c) PROVE Nesting'
  BY <1>21 DEF IrqAdd, Nesting, Shape, Posting, Sections, IrqSections
<1>22. ASSUME NEW c \in Cores, IrqUnlock(c) PROVE Nesting'
  BY <1>22 DEF IrqUnlock, CoreLk!Release, Nesting, Shape, Posting, Sections,
    IrqSections
<1>23. ASSUME NEW c \in Cores, IrqExit(c) PROVE Nesting'
  BY <1>23 DEF IrqExit, ExitCritical, Nesting, Shape, Posting, Sections,
    IrqSections
<1>24. ASSUME NEW c \in Cores, NullSlot(c) PROVE Nesting'
  BY <1>24 DEF NullSlot, Nesting, Shape, Posting, Sections, IrqSections
<1>25. ASSUME NEW c \in Cores, Complete(c) PROVE Nesting'
  BY <1>25 DEF Complete, Nesting, Shape, Posting, Sections, IrqSections
<1>26. ASSUME NEW c \in Cores, Return(c) PROVE Nesting'
  BY <1>26, ReturnsToIdle DEF TrapDue, Nesting, Shape, Posting, Sections, IrqSections
<1>27. CASE UNCHANGED vars
  BY <1>27 DEF vars, Nesting, Shape, Posting, Sections, IrqSections
<1>28. QED
  BY <1>1, <1>2, <1>3, <1>4, <1>5, <1>6, <1>7, <1>8, <1>9, <1>10, <1>11,
    <1>12, <1>13, <1>14, <1>15, <1>16, <1>17, <1>18, <1>19, <1>20, <1>21,
    <1>22, <1>23, <1>24, <1>25, <1>26, <1>27
    DEF Next, Thread, Handler

(* Every step keeps xCoreLock with one owner: a core takes it when no other *)
(* core has it, and the mailbox rules say when a handler can start.        *)
LEMMA LockingStep == IInv /\ [Next]_vars => Locking'
<1> SUFFICES ASSUME IInv, [Next]_vars PROVE Locking'
  OBVIOUS
<1> USE NoneAssumption, PlanAssumption DEF IInv, SyncInv, TypeOK,
  Goto, IrqGoto, IrqAt, Labels, IrqLabels, Ops, Events, thread, handler, mailbox, At
<1>1. ASSUME NEW c \in Cores, CreateTask(c) PROVE Locking'
  BY <1>1 DEF CreateTask, Locking, LocksCounted, OneOwner, EarlyOwner,
    Nesting, Shape, Posting, Locks, IrqLocks, Sections
<1>2. ASSUME NEW c \in Cores, StartYield(c) PROVE Locking'
  BY <1>2 DEF StartYield, Locking, LocksCounted, OneOwner, EarlyOwner,
    Nesting, Shape, Posting, Locks, IrqLocks, Sections
<1>3. ASSUME NEW c \in Cores, StartScheduler(c) PROVE Locking'
  BY <1>3 DEF StartScheduler, Locking, LocksCounted, OneOwner, EarlyOwner,
    Nesting, Shape, Posting, Locks, IrqLocks, Sections
<1>4. ASSUME NEW c \in Cores, Enter(c) PROVE Locking'
  BY <1>4 DEF Enter, EnterCritical, Locking, LocksCounted, OneOwner,
    EarlyOwner, Nesting, Shape, Posting, Locks, IrqLocks, Sections
<1>5. ASSUME NEW c \in Cores, Lock(c) PROVE Locking'
  <2>1. PICK o \in {"local", "remote", "wake"} : op[c] = o
    BY <1>5 DEF Lock, Shape
  <2>2. /\ pc[c] = "lock" /\ irq[c] = "none" /\ ~(mie[c] /\ msip[c])
        /\ pc' = [pc EXCEPT ![c] = IF o = "local" THEN "add"
                                  ELSE IF o = "remote" THEN "sync" ELSE "enter"]
        /\ op' = [op EXCEPT ![c] = IF o = "wake" THEN "nested" ELSE o]
        /\ \A d \in Cores \ {c} : coreLock[d] = 0
        /\ coreLock' = [coreLock EXCEPT ![c] = @ + 1]
        /\ UNCHANGED <<irq, mie, msip, running>>
    BY <1>5, <2>1 DEF Lock, TrapDue, CoreLk!Acquire
  <2>3. LocksCounted'
    BY <2>1, <2>2 DEF Locking, LocksCounted, Locks, IrqLocks
  <2>4. OneOwner'
    BY <2>2 DEF Locking, OneOwner
  <2>5. EarlyOwner'
    BY <2>1, <2>2 DEF Locking, EarlyOwner, Locks, Nesting
  <2>6. QED
    BY <2>3, <2>4, <2>5 DEF Locking
<1>6. ASSUME NEW c \in Cores, Add(c) PROVE Locking'
  BY <1>6 DEF Add, Locking, LocksCounted, OneOwner, EarlyOwner, Nesting,
    Shape, Posting, Locks, IrqLocks, Sections
<1>7. ASSUME NEW c \in Cores, Sync(c) PROVE Locking'
  BY <1>7 DEF Sync, Locking, LocksCounted, OneOwner, EarlyOwner, Nesting,
    Shape, Posting, Locks, IrqLocks, Sections
<1>8. ASSUME NEW c \in Cores, Poll(c) PROVE Locking'
  BY <1>8 DEF Poll, Locking, LocksCounted, OneOwner, EarlyOwner, Nesting,
    Shape, Posting, Locks, IrqLocks, Sections
<1>9. ASSUME NEW c \in Cores, PostTask(c) PROVE Locking'
  BY <1>9 DEF PostTask, Locking, LocksCounted, OneOwner, EarlyOwner, Nesting,
    Shape, Posting, Locks, IrqLocks, Sections
<1>10. ASSUME NEW c \in Cores, PostEvent(c) PROVE Locking'
  BY <1>10 DEF PostEvent, Locking, LocksCounted, OneOwner, EarlyOwner,
    Nesting, Shape, Posting, Locks, IrqLocks, Sections
<1>11. ASSUME NEW c \in Cores, SendIpi(c) PROVE Locking'
  BY <1>11 DEF SendIpi, Locking, LocksCounted, OneOwner, EarlyOwner, Nesting,
    Shape, Posting, Locks, IrqLocks, Sections, Target, Places, Creating
<1>12. ASSUME NEW c \in Cores, Unsync(c) PROVE Locking'
  BY <1>12 DEF Unsync, Locking, LocksCounted, OneOwner, EarlyOwner, Nesting,
    Shape, Posting, Locks, IrqLocks, Sections
<1>13. ASSUME NEW c \in Cores, Unlock(c) PROVE Locking'
  BY <1>13 DEF Unlock, CoreLk!Release, Locking, LocksCounted, OneOwner,
    EarlyOwner, Nesting, Shape, Posting, Locks, IrqLocks, Sections
<1>14. ASSUME NEW c \in Cores, Exit(c) PROVE Locking'
  BY SMTT(30), <1>14 DEF Exit, ExitCritical, Locking, LocksCounted, OneOwner,
    EarlyOwner, Nesting, Shape, Posting, Locks, IrqLocks, Sections
<1>15. ASSUME NEW c \in Cores, Trap(c) PROVE Locking'
  BY <1>15, TrapStacks DEF Locking, LocksCounted, OneOwner, EarlyOwner,
    Nesting, Shape, Posting, Locks, IrqLocks, Sections
<1>16. ASSUME NEW c \in Cores, ClearIpi(c) PROVE Locking'
  BY <1>16 DEF ClearIpi, Locking, LocksCounted, OneOwner, EarlyOwner,
    Nesting, Shape, Posting, Locks, IrqLocks, Sections
<1>17. ASSUME NEW c \in Cores, SwitchEvent(c) PROVE Locking'
  BY <1>17 DEF SwitchEvent, Locking, LocksCounted, OneOwner, EarlyOwner,
    Nesting, Shape, Posting, Locks, IrqLocks, Sections
<1>18. ASSUME NEW c \in Cores, FetchTask(c) PROVE Locking'
  BY <1>18 DEF FetchTask, Locking, LocksCounted, OneOwner, EarlyOwner,
    Nesting, Shape, Posting, Locks, IrqLocks, Sections
<1>19. ASSUME NEW c \in Cores, IrqEnter(c) PROVE Locking'
  BY <1>19 DEF IrqEnter, EnterCritical, Locking, LocksCounted, OneOwner,
    EarlyOwner, Nesting, Shape, Posting, Locks, IrqLocks, Sections
<1>20. ASSUME NEW c \in Cores, IrqLock(c) PROVE Locking'
  BY <1>20 DEF IrqLock, CoreLk!Acquire, Locking, LocksCounted, OneOwner,
    EarlyOwner, Nesting, Shape, Posting, Locks, IrqLocks, Sections
<1>21. ASSUME NEW c \in Cores, IrqAdd(c) PROVE Locking'
  BY <1>21 DEF IrqAdd, Locking, LocksCounted, OneOwner, EarlyOwner, Nesting,
    Shape, Posting, Locks, IrqLocks, Sections
<1>22. ASSUME NEW c \in Cores, IrqUnlock(c) PROVE Locking'
  BY <1>22 DEF IrqUnlock, CoreLk!Release, Locking, LocksCounted, OneOwner,
    EarlyOwner, Nesting, Shape, Posting, Locks, IrqLocks, Sections
<1>23. ASSUME NEW c \in Cores, IrqExit(c) PROVE Locking'
  BY <1>23 DEF IrqExit, ExitCritical, Locking, LocksCounted, OneOwner,
    EarlyOwner, Nesting, Shape, Posting, Locks, IrqLocks, Sections
<1>24. ASSUME NEW c \in Cores, NullSlot(c) PROVE Locking'
  BY <1>24 DEF NullSlot, Locking, LocksCounted, OneOwner, EarlyOwner,
    Nesting, Shape, Posting, Locks, IrqLocks, Sections
<1>25. ASSUME NEW c \in Cores, Complete(c) PROVE Locking'
  BY <1>25 DEF Complete, Locking, LocksCounted, OneOwner, EarlyOwner,
    Nesting, Shape, Posting, Locks, IrqLocks, Sections
<1>26. ASSUME NEW c \in Cores, Return(c) PROVE Locking'
  <2>1. /\ irq[c] = "return" /\ irq'[c] \in {"none", "return"}
        /\ \A d \in Cores \ {c} : irq'[d] = irq[d]
        /\ UNCHANGED <<running, coreLock, pc, op, msip>>
    BY <1>26, ReturnsMoves
  <2>2. \A d \in Cores : Locks(d)' = Locks(d) /\ IrqLocks(d)' = IrqLocks(d)
    BY <2>1 DEF Locks, IrqLocks
  <2>3. LocksCounted' /\ OneOwner'
    BY <2>1, <2>2 DEF Locking, LocksCounted, OneOwner
  <2>4. EarlyOwner'
    BY <2>1, <2>2 DEF Locking, EarlyOwner
  <2>5. QED
    BY <2>3, <2>4 DEF Locking
<1>27. CASE UNCHANGED vars
  BY <1>27 DEF vars, Locking, LocksCounted, OneOwner, EarlyOwner, Nesting,
    Shape, Posting, Locks, IrqLocks, Sections
<1>28. QED
  BY <1>1, <1>2, <1>3, <1>4, <1>5, <1>6, <1>7, <1>8, <1>9, <1>10, <1>11,
    <1>12, <1>13, <1>14, <1>15, <1>16, <1>17, <1>18, <1>19, <1>20, <1>21,
    <1>22, <1>23, <1>24, <1>25, <1>26, <1>27
    DEF Next, Thread, Handler

(* An event that is about to be announced is for a core that exists.       *)
LEMMA TargetInCores ==
  ASSUME IInv, NEW d \in Cores, pc[d] = "ipi"
  PROVE  Target(d) \in Cores
<1>1. CASE op[d] # "remote"
  BY <1>1 DEF Target
<1>2. CASE op[d] = "remote"
  <2>1. Creating(d)
    BY <1>2 DEF Creating, Posting
  <2>2. hand[d] \in created
    BY <2>1 DEF IInv, SyncInv, Places
  <2>3. On[hand[d]] \in Cores
    BY <2>2, PlanAssumption DEF IInv, SyncInv, TypeOK
  <2>4. QED
    BY <1>2, <2>3 DEF Target
<1>3. QED
  BY <1>1, <1>2

(* Every step keeps the mailboxes: the spin lock keeps other posters out,  *)
(* the poll keeps the poster behind the handler.                           *)
LEMMA MailboxStep == IInv /\ [Next]_vars => Mailbox'
<1> SUFFICES ASSUME IInv, [Next]_vars PROVE Mailbox'
  OBVIOUS
<1> USE NoneAssumption, PlanAssumption DEF IInv, SyncInv, TypeOK,
  Goto, IrqGoto, IrqAt, Labels, IrqLabels, Ops, Events, thread, handler, mailbox, At
<1>1. ASSUME NEW c \in Cores, CreateTask(c) PROVE Mailbox'
  <2> USE <1>1 DEF CreateTask, Shape, Posting, Target, Places,
    Creating, Mailbox, OnePoster, EmptyWhenPosted, QuietWhenRaised,
    HandlerHasEvent
  <2>1. OnePoster'
    OBVIOUS
  <2>2. EmptyWhenPosted'
    OBVIOUS
  <2>3. QuietWhenRaised'
    OBVIOUS
  <2>4. HandlerHasEvent'
    OBVIOUS
  <2>5. EventAnnounced'
    BY DEF EventAnnounced
  <2>6. QED
    BY <2>1, <2>2, <2>3, <2>4, <2>5
<1>2. ASSUME NEW c \in Cores, StartYield(c) PROVE Mailbox'
  BY <1>2 DEF StartYield, Mailbox, OnePoster, EmptyWhenPosted,
    QuietWhenRaised, HandlerHasEvent, Shape, Posting, Target, EventAnnounced
<1>3. ASSUME NEW c \in Cores, StartScheduler(c) PROVE Mailbox'
  BY <1>3 DEF StartScheduler, Mailbox, OnePoster, EmptyWhenPosted,
    QuietWhenRaised, HandlerHasEvent, Shape, Posting, Target, EventAnnounced
<1>4. ASSUME NEW c \in Cores, Enter(c) PROVE Mailbox'
  BY <1>4 DEF Enter, EnterCritical, Mailbox, OnePoster, EmptyWhenPosted,
    QuietWhenRaised, HandlerHasEvent, Shape, Posting, Target, EventAnnounced
<1>5. ASSUME NEW c \in Cores, Lock(c) PROVE Mailbox'
  <2> USE <1>5 DEF Lock, CoreLk!Acquire, Shape, Posting, Target, Places,
    Creating, Mailbox, OnePoster, EmptyWhenPosted, QuietWhenRaised,
    HandlerHasEvent
  <2>1. OnePoster'
    OBVIOUS
  <2>2. EmptyWhenPosted'
    OBVIOUS
  <2>3. QuietWhenRaised'
    OBVIOUS
  <2>4. HandlerHasEvent'
    OBVIOUS
  <2>5. EventAnnounced'
    BY DEF EventAnnounced
  <2>6. QED
    BY <2>1, <2>2, <2>3, <2>4, <2>5
<1>6. ASSUME NEW c \in Cores, Add(c) PROVE Mailbox'
  <2> USE <1>6 DEF Add, Shape, Posting, Target, Places,
    Creating, Mailbox, OnePoster, EmptyWhenPosted, QuietWhenRaised,
    HandlerHasEvent
  <2>1. OnePoster'
    OBVIOUS
  <2>2. EmptyWhenPosted'
    OBVIOUS
  <2>3. QuietWhenRaised'
    OBVIOUS
  <2>4. HandlerHasEvent'
    OBVIOUS
  <2>5. EventAnnounced'
    BY DEF EventAnnounced
  <2>6. QED
    BY <2>1, <2>2, <2>3, <2>4, <2>5
<1>7. ASSUME NEW c \in Cores, Sync(c) PROVE Mailbox'
  <2> USE <1>7 DEF Sync, Shape, Posting, Target, Places, Creating, Mailbox,
    OnePoster, EmptyWhenPosted, QuietWhenRaised, HandlerHasEvent
  <2>1. OnePoster'
    OBVIOUS
  <2>2. EmptyWhenPosted'
    OBVIOUS
  <2>3. QuietWhenRaised'
    OBVIOUS
  <2>4. HandlerHasEvent'
    OBVIOUS
  <2>5. EventAnnounced'
    BY DEF EventAnnounced
  <2>6. QED
    BY <2>1, <2>2, <2>3, <2>4, <2>5
<1>8. ASSUME NEW c \in Cores, Poll(c) PROVE Mailbox'
  BY <1>8 DEF Poll, Mailbox, OnePoster, EmptyWhenPosted, QuietWhenRaised,
    HandlerHasEvent, Shape, Posting, Target, EventAnnounced
<1>9. ASSUME NEW c \in Cores, PostTask(c) PROVE Mailbox'
  BY <1>9 DEF PostTask, Mailbox, OnePoster, EmptyWhenPosted, QuietWhenRaised,
    HandlerHasEvent, Shape, Posting, Target, EventAnnounced
<1>10. ASSUME NEW c \in Cores, PostEvent(c) PROVE Mailbox'
  <2> USE <1>10 DEF PostEvent, Shape, Posting, Target, Places, Creating,
    Mailbox, OnePoster, EmptyWhenPosted, QuietWhenRaised,
    HandlerHasEvent
  <2>1. OnePoster'
    OBVIOUS
  <2>2. EmptyWhenPosted'
    OBVIOUS
  <2>3. QuietWhenRaised'
    OBVIOUS
  <2>4. HandlerHasEvent'
    OBVIOUS
  <2>5. EventAnnounced'
    BY DEF EventAnnounced
  <2>6. QED
    BY <2>1, <2>2, <2>3, <2>4, <2>5
<1>11. ASSUME NEW c \in Cores, SendIpi(c) PROVE Mailbox'
  BY <1>11 DEF SendIpi, Mailbox, OnePoster, EmptyWhenPosted, QuietWhenRaised,
    HandlerHasEvent, Shape, Posting, Target, EventAnnounced
<1>12. ASSUME NEW c \in Cores, Unsync(c) PROVE Mailbox'
  <2> USE <1>12 DEF Unsync, Shape, Posting, Target, Places, Creating, Mailbox,
    OnePoster, EmptyWhenPosted, QuietWhenRaised, HandlerHasEvent
  <2>1. OnePoster'
    OBVIOUS
  <2>2. EmptyWhenPosted'
    OBVIOUS
  <2>3. QuietWhenRaised'
    OBVIOUS
  <2>4. HandlerHasEvent'
    OBVIOUS
  <2>5. EventAnnounced'
    BY DEF EventAnnounced
  <2>6. QED
    BY <2>1, <2>2, <2>3, <2>4, <2>5
<1>13. ASSUME NEW c \in Cores, Unlock(c) PROVE Mailbox'
  BY <1>13 DEF Unlock, CoreLk!Release, Mailbox, OnePoster, EmptyWhenPosted,
    QuietWhenRaised, HandlerHasEvent, Shape, Posting, Target, EventAnnounced
<1>14. ASSUME NEW c \in Cores, Exit(c) PROVE Mailbox'
  <2> USE <1>14 DEF Exit, ExitCritical, Shape, Posting, Target, Places,
    Creating, Mailbox, OnePoster, EmptyWhenPosted, QuietWhenRaised,
    HandlerHasEvent
  <2>1. OnePoster'
    OBVIOUS
  <2>2. EmptyWhenPosted'
    OBVIOUS
  <2>3. QuietWhenRaised'
    OBVIOUS
  <2>4. HandlerHasEvent'
    OBVIOUS
  <2>5. EventAnnounced'
    BY DEF EventAnnounced
  <2>6. QED
    BY <2>1, <2>2, <2>3, <2>4, <2>5
<1>15. ASSUME NEW c \in Cores, Trap(c) PROVE Mailbox'
  <2>1. /\ irq[c] \in {"none", "return"} /\ mie[c] /\ msip[c] /\ irq'[c] = "clear" /\ ~mie'[c]
        /\ \A d \in Cores \ {c} : irq'[d] = irq[d] /\ mie'[d] = mie[d]
        /\ UNCHANGED <<pc, op, hand, event, syncLock, msip>>
    BY <1>15, TrapMoves
  <2>2. \A d \in Cores : Posting(d)' = Posting(d) /\ Target(d)' = Target(d)
    BY <2>1 DEF Posting, Target
  <2>3. OnePoster' /\ EmptyWhenPosted'
    BY <2>1, <2>2 DEF Mailbox, OnePoster, EmptyWhenPosted
  <2>4. QuietWhenRaised'
    <3> SUFFICES ASSUME NEW d \in Cores, pc'[d] = "ipi"
                 PROVE  /\ event'[Target(d)'] # "NONE" /\ ~msip'[Target(d)']
                        /\ irq'[Target(d)'] \in {"none", "return"}
      BY DEF QuietWhenRaised
    <3>1. /\ pc[d] = "ipi" /\ event[Target(d)] # "NONE" /\ ~msip[Target(d)]
          /\ irq[Target(d)] \in {"none", "return"}
      BY <2>1 DEF Mailbox, QuietWhenRaised
    <3>2. Target(d) \in Cores
      BY <3>1, TargetInCores
    <3>3. Target(d) # c
      BY <2>1, <3>1
    <3>4. QED
      BY <2>1, <2>2, <3>1, <3>2, <3>3
  <2>5. HandlerHasEvent'
    BY <2>1 DEF Mailbox, HandlerHasEvent
  <2>6. EventAnnounced'
    BY <2>1, <2>2 DEF Mailbox, EventAnnounced
  <2>7. QED
    BY <2>3, <2>4, <2>5, <2>6 DEF Mailbox
<1>16. ASSUME NEW c \in Cores, ClearIpi(c) PROVE Mailbox'
  BY <1>16 DEF ClearIpi, Mailbox, OnePoster, EmptyWhenPosted,
    QuietWhenRaised, HandlerHasEvent, Shape, Posting, Target, EventAnnounced
<1>17. ASSUME NEW c \in Cores, SwitchEvent(c) PROVE Mailbox'
  BY <1>17 DEF SwitchEvent, Mailbox, OnePoster, EmptyWhenPosted,
    QuietWhenRaised, HandlerHasEvent, Shape, Posting, Target, EventAnnounced
<1>18. ASSUME NEW c \in Cores, FetchTask(c) PROVE Mailbox'
  BY <1>18 DEF FetchTask, Mailbox, OnePoster, EmptyWhenPosted,
    QuietWhenRaised, HandlerHasEvent, Shape, Posting, Target, EventAnnounced
<1>19. ASSUME NEW c \in Cores, IrqEnter(c) PROVE Mailbox'
  BY <1>19 DEF IrqEnter, EnterCritical, Mailbox, OnePoster, EmptyWhenPosted,
    QuietWhenRaised, HandlerHasEvent, Shape, Posting, Target, EventAnnounced
<1>20. ASSUME NEW c \in Cores, IrqLock(c) PROVE Mailbox'
  BY <1>20 DEF IrqLock, CoreLk!Acquire, Mailbox, OnePoster, EmptyWhenPosted,
    QuietWhenRaised, HandlerHasEvent, Shape, Posting, Target, EventAnnounced
<1>21. ASSUME NEW c \in Cores, IrqAdd(c) PROVE Mailbox'
  BY <1>21 DEF IrqAdd, Mailbox, OnePoster, EmptyWhenPosted, QuietWhenRaised,
    HandlerHasEvent, Shape, Posting, Target, EventAnnounced
<1>22. ASSUME NEW c \in Cores, IrqUnlock(c) PROVE Mailbox'
  BY <1>22 DEF IrqUnlock, CoreLk!Release, Mailbox, OnePoster,
    EmptyWhenPosted, QuietWhenRaised, HandlerHasEvent, Shape, Posting,
    Target, EventAnnounced
<1>23. ASSUME NEW c \in Cores, IrqExit(c) PROVE Mailbox'
  BY <1>23 DEF IrqExit, ExitCritical, Mailbox, OnePoster, EmptyWhenPosted,
    QuietWhenRaised, HandlerHasEvent, Shape, Posting, Target, EventAnnounced
<1>24. ASSUME NEW c \in Cores, NullSlot(c) PROVE Mailbox'
  BY <1>24 DEF NullSlot, Mailbox, OnePoster, EmptyWhenPosted,
    QuietWhenRaised, HandlerHasEvent, Shape, Posting, Target, EventAnnounced
<1>25. ASSUME NEW c \in Cores, Complete(c) PROVE Mailbox'
  BY <1>25 DEF Complete, Mailbox, OnePoster, EmptyWhenPosted,
    QuietWhenRaised, HandlerHasEvent, Shape, Posting, Target, EventAnnounced
<1>26. ASSUME NEW c \in Cores, Return(c) PROVE Mailbox'
  <2>1. /\ irq[c] = "return" /\ irq'[c] \in {"none", "return"}
        /\ \A d \in Cores \ {c} : irq'[d] = irq[d] /\ mie'[d] = mie[d]
        /\ UNCHANGED <<pc, op, hand, event, syncLock, msip>>
    BY <1>26, ReturnsMoves
  <2>2. \A d \in Cores : Posting(d)' = Posting(d) /\ Target(d)' = Target(d)
    BY <2>1 DEF Posting, Target
  <2>3. OnePoster' /\ EmptyWhenPosted'
    BY <2>1, <2>2 DEF Mailbox, OnePoster, EmptyWhenPosted
  <2>4. QuietWhenRaised'
    <3> SUFFICES ASSUME NEW d \in Cores, pc'[d] = "ipi"
                 PROVE  /\ event'[Target(d)'] # "NONE" /\ ~msip'[Target(d)']
                        /\ irq'[Target(d)'] \in {"none", "return"}
      BY DEF QuietWhenRaised
    <3>1. /\ pc[d] = "ipi" /\ event[Target(d)] # "NONE" /\ ~msip[Target(d)]
          /\ irq[Target(d)] \in {"none", "return"}
      BY <2>1 DEF Mailbox, QuietWhenRaised
    <3>2. Target(d) \in Cores
      BY <3>1, TargetInCores
    <3>3. CASE Target(d) = c
      BY <2>1, <2>2, <3>1, <3>3
    <3>4. CASE Target(d) # c
      BY <2>1, <2>2, <3>1, <3>2, <3>4
    <3>5. QED
      BY <3>3, <3>4
  <2>5. HandlerHasEvent'
    BY <2>1 DEF Mailbox, HandlerHasEvent
  <2>6. EventAnnounced'
    BY <2>1, <2>2 DEF Mailbox, EventAnnounced
  <2>7. QED
    BY <2>3, <2>4, <2>5, <2>6 DEF Mailbox
<1>27. CASE UNCHANGED vars
  BY <1>27 DEF vars, Mailbox, OnePoster, EmptyWhenPosted, QuietWhenRaised,
    HandlerHasEvent, Shape, Posting, Target, EventAnnounced
<1>28. QED
  BY <1>1, <1>2, <1>3, <1>4, <1>5, <1>6, <1>7, <1>8, <1>9, <1>10, <1>11,
    <1>12, <1>13, <1>14, <1>15, <1>16, <1>17, <1>18, <1>19, <1>20, <1>21,
    <1>22, <1>23, <1>24, <1>25, <1>26, <1>27
    DEF Next, Thread, Handler

(* Every step keeps the slots filled for ADD_TCB events only.              *)
LEMMA SlotsStep == IInv /\ [Next]_vars => Slots'
<1> SUFFICES ASSUME IInv, [Next]_vars PROVE Slots'
  OBVIOUS
<1> USE NoneAssumption, PlanAssumption DEF IInv, SyncInv, TypeOK,
  Goto, IrqGoto, IrqAt, Labels, IrqLabels, Ops, Events, thread, handler, mailbox, At
<1>1. ASSUME NEW c \in Cores, CreateTask(c) PROVE Slots'
  BY <1>1 DEF CreateTask, Slots, Mailbox, OnePoster, EmptyWhenPosted,
    QuietWhenRaised, HandlerHasEvent, Shape, Posting, Target
<1>2. ASSUME NEW c \in Cores, StartYield(c) PROVE Slots'
  BY <1>2 DEF StartYield, Slots, Mailbox, OnePoster, EmptyWhenPosted,
    QuietWhenRaised, HandlerHasEvent, Shape, Posting, Target
<1>3. ASSUME NEW c \in Cores, StartScheduler(c) PROVE Slots'
  BY <1>3 DEF StartScheduler, Slots, Mailbox, OnePoster, EmptyWhenPosted,
    QuietWhenRaised, HandlerHasEvent, Shape, Posting, Target
<1>4. ASSUME NEW c \in Cores, Enter(c) PROVE Slots'
  BY <1>4 DEF Enter, EnterCritical, Slots, Mailbox, OnePoster,
    EmptyWhenPosted, QuietWhenRaised, HandlerHasEvent, Shape, Posting, Target
<1>5. ASSUME NEW c \in Cores, Lock(c) PROVE Slots'
  BY <1>5 DEF Lock, CoreLk!Acquire, Slots, Mailbox, OnePoster,
    EmptyWhenPosted, QuietWhenRaised, HandlerHasEvent, Shape, Posting, Target
<1>6. ASSUME NEW c \in Cores, Add(c) PROVE Slots'
  BY <1>6 DEF Add, Slots, Mailbox, OnePoster, EmptyWhenPosted,
    QuietWhenRaised, HandlerHasEvent, Shape, Posting, Target
<1>7. ASSUME NEW c \in Cores, Sync(c) PROVE Slots'
  BY <1>7 DEF Sync, Slots, Mailbox, OnePoster, EmptyWhenPosted,
    QuietWhenRaised, HandlerHasEvent, Shape, Posting, Target
<1>8. ASSUME NEW c \in Cores, Poll(c) PROVE Slots'
  BY <1>8 DEF Poll, Slots, Mailbox, OnePoster, EmptyWhenPosted,
    QuietWhenRaised, HandlerHasEvent, Shape, Posting, Target
<1>9. ASSUME NEW c \in Cores, PostTask(c) PROVE Slots'
  BY <1>9 DEF PostTask, Slots, Mailbox, OnePoster, EmptyWhenPosted,
    QuietWhenRaised, HandlerHasEvent, Shape, Posting, Target
<1>10. ASSUME NEW c \in Cores, PostEvent(c) PROVE Slots'
  <2>1. CASE op[c] = "remote"
    BY <1>10, <2>1 DEF PostEvent, TrapDue, Slots, Mailbox, OnePoster, EmptyWhenPosted,
      QuietWhenRaised, HandlerHasEvent, Shape, Posting, Target, Places,
      Creating
  <2>2. CASE op[c] # "remote"
    BY <1>10, <2>2 DEF PostEvent, TrapDue, Slots, Mailbox, OnePoster, EmptyWhenPosted,
      QuietWhenRaised, HandlerHasEvent, Shape, Posting, Target, Places,
      Creating
  <2>3. QED
    BY <2>1, <2>2
<1>11. ASSUME NEW c \in Cores, SendIpi(c) PROVE Slots'
  BY <1>11 DEF SendIpi, Slots, Mailbox, OnePoster, EmptyWhenPosted,
    QuietWhenRaised, HandlerHasEvent, Shape, Posting, Target
<1>12. ASSUME NEW c \in Cores, Unsync(c) PROVE Slots'
  BY <1>12 DEF Unsync, Slots, Mailbox, OnePoster, EmptyWhenPosted,
    QuietWhenRaised, HandlerHasEvent, Shape, Posting, Target
<1>13. ASSUME NEW c \in Cores, Unlock(c) PROVE Slots'
  BY <1>13 DEF Unlock, CoreLk!Release, Slots, Mailbox, OnePoster,
    EmptyWhenPosted, QuietWhenRaised, HandlerHasEvent, Shape, Posting, Target
<1>14. ASSUME NEW c \in Cores, Exit(c) PROVE Slots'
  BY <1>14 DEF Exit, ExitCritical, Slots, Mailbox, OnePoster,
    EmptyWhenPosted, QuietWhenRaised, HandlerHasEvent, Shape, Posting, Target
<1>15. ASSUME NEW c \in Cores, Trap(c) PROVE Slots'
  BY <1>15, TrapStacks DEF Slots, Mailbox, OnePoster, EmptyWhenPosted,
    QuietWhenRaised, HandlerHasEvent, Shape, Posting, Target
<1>16. ASSUME NEW c \in Cores, ClearIpi(c) PROVE Slots'
  BY <1>16 DEF ClearIpi, Slots, Mailbox, OnePoster, EmptyWhenPosted,
    QuietWhenRaised, HandlerHasEvent, Shape, Posting, Target
<1>17. ASSUME NEW c \in Cores, SwitchEvent(c) PROVE Slots'
  BY <1>17 DEF SwitchEvent, Slots, Mailbox, OnePoster, EmptyWhenPosted,
    QuietWhenRaised, HandlerHasEvent, Shape, Posting, Target
<1>18. ASSUME NEW c \in Cores, FetchTask(c) PROVE Slots'
  BY <1>18 DEF FetchTask, Slots, Mailbox, OnePoster, EmptyWhenPosted,
    QuietWhenRaised, HandlerHasEvent, Shape, Posting, Target
<1>19. ASSUME NEW c \in Cores, IrqEnter(c) PROVE Slots'
  BY <1>19 DEF IrqEnter, EnterCritical, Slots, Mailbox, OnePoster,
    EmptyWhenPosted, QuietWhenRaised, HandlerHasEvent, Shape, Posting, Target
<1>20. ASSUME NEW c \in Cores, IrqLock(c) PROVE Slots'
  BY <1>20 DEF IrqLock, CoreLk!Acquire, Slots, Mailbox, OnePoster,
    EmptyWhenPosted, QuietWhenRaised, HandlerHasEvent, Shape, Posting, Target
<1>21. ASSUME NEW c \in Cores, IrqAdd(c) PROVE Slots'
  BY <1>21 DEF IrqAdd, Slots, Mailbox, OnePoster, EmptyWhenPosted,
    QuietWhenRaised, HandlerHasEvent, Shape, Posting, Target
<1>22. ASSUME NEW c \in Cores, IrqUnlock(c) PROVE Slots'
  BY <1>22 DEF IrqUnlock, CoreLk!Release, Slots, Mailbox, OnePoster,
    EmptyWhenPosted, QuietWhenRaised, HandlerHasEvent, Shape, Posting, Target
<1>23. ASSUME NEW c \in Cores, IrqExit(c) PROVE Slots'
  BY <1>23 DEF IrqExit, ExitCritical, Slots, Mailbox, OnePoster,
    EmptyWhenPosted, QuietWhenRaised, HandlerHasEvent, Shape, Posting, Target
<1>24. ASSUME NEW c \in Cores, NullSlot(c) PROVE Slots'
  BY <1>24 DEF NullSlot, Slots, Mailbox, OnePoster, EmptyWhenPosted,
    QuietWhenRaised, HandlerHasEvent, Shape, Posting, Target
<1>25. ASSUME NEW c \in Cores, Complete(c) PROVE Slots'
  BY <1>25 DEF Complete, Slots, Mailbox, OnePoster, EmptyWhenPosted,
    QuietWhenRaised, HandlerHasEvent, Shape, Posting, Target
<1>26. ASSUME NEW c \in Cores, Return(c) PROVE Slots'
  BY <1>26, ReturnsToIdle DEF TrapDue, Slots, Mailbox, OnePoster, EmptyWhenPosted,
    QuietWhenRaised, HandlerHasEvent, Shape, Posting, Target
<1>27. CASE UNCHANGED vars
  BY <1>27 DEF vars, Slots, Mailbox, OnePoster, EmptyWhenPosted,
    QuietWhenRaised, HandlerHasEvent, Shape, Posting, Target
<1>28. QED
  BY <1>1, <1>2, <1>3, <1>4, <1>5, <1>6, <1>7, <1>8, <1>9, <1>10, <1>11,
    <1>12, <1>13, <1>14, <1>15, <1>16, <1>17, <1>18, <1>19, <1>20, <1>21,
    <1>22, <1>23, <1>24, <1>25, <1>26, <1>27
    DEF Next, Thread, Handler

(* Every step leaves a created task in the hand, the slot or the list that *)
(* its creation has reached.                                               *)
LEMMA PlacesStep == IInv /\ [Next]_vars => Places'
<1> SUFFICES ASSUME IInv, [Next]_vars PROVE Places'
  OBVIOUS
<1> USE NoneAssumption, PlanAssumption DEF IInv, SyncInv, TypeOK,
  Goto, IrqGoto, IrqAt, Labels, IrqLabels, Ops, Events, thread, handler, mailbox, At
<1>1. ASSUME NEW c \in Cores, CreateTask(c) PROVE Places'
  BY <1>1 DEF CreateTask, Places, Slots, Mailbox, OnePoster, EmptyWhenPosted,
    QuietWhenRaised, HandlerHasEvent, Shape, Posting, Target, Creating
<1>2. ASSUME NEW c \in Cores, StartYield(c) PROVE Places'
  BY <1>2 DEF StartYield, Places, Slots, Mailbox, OnePoster, EmptyWhenPosted,
    QuietWhenRaised, HandlerHasEvent, Shape, Posting, Target, Creating
<1>3. ASSUME NEW c \in Cores, StartScheduler(c) PROVE Places'
  BY <1>3 DEF StartScheduler, Places, Slots, Mailbox, OnePoster,
    EmptyWhenPosted, QuietWhenRaised, HandlerHasEvent, Shape, Posting,
    Target, Creating
<1>4. ASSUME NEW c \in Cores, Enter(c) PROVE Places'
  BY <1>4 DEF Enter, EnterCritical, Places, Slots, Mailbox, OnePoster,
    EmptyWhenPosted, QuietWhenRaised, HandlerHasEvent, Shape, Posting,
    Target, Creating
<1>5. ASSUME NEW c \in Cores, Lock(c) PROVE Places'
  BY <1>5 DEF Lock, CoreLk!Acquire, Places, Slots, Mailbox, OnePoster,
    EmptyWhenPosted, QuietWhenRaised, HandlerHasEvent, Shape, Posting,
    Target, Creating
<1>6. ASSUME NEW c \in Cores, Add(c) PROVE Places'
  BY <1>6 DEF Add, Places, Slots, Mailbox, OnePoster, EmptyWhenPosted,
    QuietWhenRaised, HandlerHasEvent, Shape, Posting, Target, Creating
<1>7. ASSUME NEW c \in Cores, Sync(c) PROVE Places'
  BY <1>7 DEF Sync, Places, Slots, Mailbox, OnePoster, EmptyWhenPosted,
    QuietWhenRaised, HandlerHasEvent, Shape, Posting, Target, Creating
<1>8. ASSUME NEW c \in Cores, Poll(c) PROVE Places'
  BY <1>8 DEF Poll, Places, Slots, Mailbox, OnePoster, EmptyWhenPosted,
    QuietWhenRaised, HandlerHasEvent, Shape, Posting, Target, Creating
<1>9. ASSUME NEW c \in Cores, PostTask(c) PROVE Places'
  BY <1>9 DEF PostTask, Places, Slots, Mailbox, OnePoster, EmptyWhenPosted,
    QuietWhenRaised, HandlerHasEvent, Shape, Posting, Target, Creating
<1>10. ASSUME NEW c \in Cores, PostEvent(c) PROVE Places'
  BY <1>10 DEF PostEvent, Places, Slots, Mailbox, OnePoster, EmptyWhenPosted,
    QuietWhenRaised, HandlerHasEvent, Shape, Posting, Target, Creating
<1>11. ASSUME NEW c \in Cores, SendIpi(c) PROVE Places'
  BY <1>11 DEF SendIpi, Places, Slots, Mailbox, OnePoster, EmptyWhenPosted,
    QuietWhenRaised, HandlerHasEvent, Shape, Posting, Target, Creating
<1>12. ASSUME NEW c \in Cores, Unsync(c) PROVE Places'
  BY <1>12 DEF Unsync, Places, Slots, Mailbox, OnePoster, EmptyWhenPosted,
    QuietWhenRaised, HandlerHasEvent, Shape, Posting, Target, Creating
<1>13. ASSUME NEW c \in Cores, Unlock(c) PROVE Places'
  BY <1>13 DEF Unlock, CoreLk!Release, Places, Slots, Mailbox, OnePoster,
    EmptyWhenPosted, QuietWhenRaised, HandlerHasEvent, Shape, Posting,
    Target, Creating
<1>14. ASSUME NEW c \in Cores, Exit(c) PROVE Places'
  BY <1>14 DEF Exit, ExitCritical, Places, Slots, Mailbox, OnePoster,
    EmptyWhenPosted, QuietWhenRaised, HandlerHasEvent, Shape, Posting,
    Target, Creating
<1>15. ASSUME NEW c \in Cores, Trap(c) PROVE Places'
  BY <1>15, TrapStacks DEF Places, Slots, Mailbox, OnePoster,
    EmptyWhenPosted, QuietWhenRaised, HandlerHasEvent, Shape, Posting,
    Target, Creating
<1>16. ASSUME NEW c \in Cores, ClearIpi(c) PROVE Places'
  BY <1>16 DEF ClearIpi, Places, Slots, Mailbox, OnePoster, EmptyWhenPosted,
    QuietWhenRaised, HandlerHasEvent, Shape, Posting, Target, Creating
<1>17. ASSUME NEW c \in Cores, SwitchEvent(c) PROVE Places'
  BY <1>17 DEF SwitchEvent, Places, Slots, Mailbox, OnePoster,
    EmptyWhenPosted, QuietWhenRaised, HandlerHasEvent, Shape, Posting,
    Target, Creating
<1>18. ASSUME NEW c \in Cores, FetchTask(c) PROVE Places'
  BY <1>18 DEF FetchTask, Places, Slots, Mailbox, OnePoster, EmptyWhenPosted,
    QuietWhenRaised, HandlerHasEvent, Shape, Posting, Target, Creating
<1>19. ASSUME NEW c \in Cores, IrqEnter(c) PROVE Places'
  BY <1>19 DEF IrqEnter, EnterCritical, Places, Slots, Mailbox, OnePoster,
    EmptyWhenPosted, QuietWhenRaised, HandlerHasEvent, Shape, Posting,
    Target, Creating
<1>20. ASSUME NEW c \in Cores, IrqLock(c) PROVE Places'
  BY <1>20 DEF IrqLock, CoreLk!Acquire, Places, Slots, Mailbox, OnePoster,
    EmptyWhenPosted, QuietWhenRaised, HandlerHasEvent, Shape, Posting,
    Target, Creating
<1>21. ASSUME NEW c \in Cores, IrqAdd(c) PROVE Places'
  BY <1>21 DEF IrqAdd, Places, Slots, Mailbox, OnePoster, EmptyWhenPosted,
    QuietWhenRaised, HandlerHasEvent, Shape, Posting, Target, Creating
<1>22. ASSUME NEW c \in Cores, IrqUnlock(c) PROVE Places'
  BY <1>22 DEF IrqUnlock, CoreLk!Release, Places, Slots, Mailbox, OnePoster,
    EmptyWhenPosted, QuietWhenRaised, HandlerHasEvent, Shape, Posting,
    Target, Creating
<1>23. ASSUME NEW c \in Cores, IrqExit(c) PROVE Places'
  BY <1>23 DEF IrqExit, ExitCritical, Places, Slots, Mailbox, OnePoster,
    EmptyWhenPosted, QuietWhenRaised, HandlerHasEvent, Shape, Posting,
    Target, Creating
<1>24. ASSUME NEW c \in Cores, NullSlot(c) PROVE Places'
  BY <1>24 DEF NullSlot, Places, Slots, Mailbox, OnePoster, EmptyWhenPosted,
    QuietWhenRaised, HandlerHasEvent, Shape, Posting, Target, Creating
<1>25. ASSUME NEW c \in Cores, Complete(c) PROVE Places'
  BY <1>25 DEF Complete, Places, Slots, Mailbox, OnePoster, EmptyWhenPosted,
    QuietWhenRaised, HandlerHasEvent, Shape, Posting, Target, Creating
<1>26. ASSUME NEW c \in Cores, Return(c) PROVE Places'
  BY <1>26, ReturnsToIdle DEF TrapDue, Places, Slots, Mailbox, OnePoster, EmptyWhenPosted,
    QuietWhenRaised, HandlerHasEvent, Shape, Posting, Target, Creating
<1>27. CASE UNCHANGED vars
  BY <1>27 DEF vars, Places, Slots, Mailbox, OnePoster, EmptyWhenPosted,
    QuietWhenRaised, HandlerHasEvent, Shape, Posting, Target, Creating
<1>28. QED
  BY <1>1, <1>2, <1>3, <1>4, <1>5, <1>6, <1>7, <1>8, <1>9, <1>10, <1>11,
    <1>12, <1>13, <1>14, <1>15, <1>16, <1>17, <1>18, <1>19, <1>20, <1>21,
    <1>22, <1>23, <1>24, <1>25, <1>26, <1>27
    DEF Next, Thread, Handler

(* Every step leaves on the stack only handlers that have done their work. *)
LEMMA StackedStep == IInv /\ [Next]_vars => Stacked'
<1> SUFFICES ASSUME IInv, [Next]_vars PROVE Stacked'
  OBVIOUS
<1>1. ASSUME UNCHANGED outer PROVE Stacked'
  BY <1>1 DEF IInv, SyncInv, Stacked
<1>2. ASSUME NEW c \in Cores, CreateTask(c) \/ StartYield(c) \/ StartScheduler(c)
      PROVE  Stacked'
  BY <1>1, <1>2 DEF CreateTask, StartYield, StartScheduler, handler
<1>3. ASSUME NEW c \in Cores, Thread(c) PROVE Stacked'
  BY <1>1, <1>3 DEF Thread, Enter, Lock, Add, Sync, Poll, PostTask, PostEvent,
    SendIpi, Unsync, Unlock, Exit, handler
<1>4. ASSUME NEW c \in Cores, Handler(c) PROVE Stacked'
  <2>1. CASE Trap(c)
    BY <2>1, TrapStacks
  <2>2. CASE Return(c)
    BY <2>2, ReturnsToIdle
  <2>3. CASE ~Trap(c) /\ ~Return(c)
    BY <1>1, <1>4, <2>3 DEF Handler, ClearIpi, SwitchEvent, FetchTask,
      IrqEnter, IrqLock, IrqAdd, IrqUnlock, IrqExit, NullSlot, Complete
  <2>4. QED
    BY <2>1, <2>2, <2>3
<1>5. CASE UNCHANGED vars
  BY <1>1, <1>5 DEF vars, handler
<1>6. QED
  BY <1>2, <1>3, <1>4, <1>5 DEF Next

-----------------------------------------------------------------------------
(* The invariant of the proofs holds in every reachable state. *)
THEOREM InvariantCorrect == Spec => []IInv
<1>1. IInv /\ [Next]_vars => IInv'
  BY TypeStep, ShapeStep, NestingStep, LockingStep, MailboxStep, SlotsStep,
    PlacesStep, StackedStep DEF IInv, SyncInv
<1>2. QED
  BY InitInv, <1>1, PTL DEF Spec

(* No creation is lost on its way to the lists of another core, in any     *)
(* order of poster, handler and other posters (core_sync.c, tasks.c).      *)
THEOREM TasksDeliveredCorrect == Spec => []TasksDelivered
<1>1. IInv => TasksDelivered
  <2> SUFFICES ASSUME IInv PROVE TasksDelivered
    OBVIOUS
  <2> USE NoneAssumption, PlanAssumption DEF IInv, SyncInv
  <2>1. CreatedArrive
    <3>1. ASSUME NEW c \in Cores, NEW d \in Cores, pc[c] = "add"
          PROVE  hand[c] \notin ready[d]
      BY <3>1 DEF Places, Creating, Shape
    <3>2. ASSUME NEW c \in Cores, NEW d \in Cores, irq[c] = "add"
          PROVE  irqTask[c] \notin ready[d]
      BY <3>2 DEF Places, Slots, Mailbox, HandlerHasEvent
    <3>3. QED
      BY <3>1, <3>2 DEF CreatedArrive, Places
  <2>2. EventAnnounced /\ AddCarriesTask /\ ReenteredWhenDone
    BY DEF Mailbox, HandlerHasEvent, Slots, AddCarriesTask, Stacked,
      ReenteredWhenDone
  <2>3. QED
    BY <2>1, <2>2 DEF TasksDelivered
<1>2. QED
  BY InvariantCorrect, <1>1, PTL

(* No two contexts update the scheduler's lists at once: whoever is between *)
(* lock and unlock owns xCoreLock, on one core, as thread or as handler.    *)
THEOREM ListsExclusiveCorrect == Spec => []ListsExclusive
<1>1. IInv => ListsExclusive
  <2> SUFFICES ASSUME IInv PROVE ListsExclusive
    OBVIOUS
  <2> USE DEF IInv, SyncInv
  <2>1. \A c \in Cores : UpdatesLists(c) \/ IrqUpdatesLists(c) => coreLock[c] > 0
    BY DEF Locking, LocksCounted, Locks, IrqLocks, TypeOK, UpdatesLists,
      IrqUpdatesLists
  <2>2. \A c \in Cores : ~(UpdatesLists(c) /\ IrqUpdatesLists(c))
    <3> SUFFICES ASSUME NEW c \in Cores, pc[c] = "add" PROVE irq[c] # "add"
      BY DEF UpdatesLists, IrqUpdatesLists
    <3>1. op[c] = "local" /\ Locks(c) = 1 /\ Sections(c) = 1
      BY DEF Shape, Locks, Sections
    <3>2. CASE running[c]
      BY <3>1, <3>2 DEF Nesting
    <3>3. CASE ~running[c]
      BY <3>1, <3>3 DEF Locking, EarlyOwner
    <3>4. QED
      BY <3>2, <3>3
  <2>3. OneOwner
    BY DEF Locking
  <2>4. QED
    BY <2>1, <2>2, <2>3 DEF ListsExclusive, OneOwner, UpdatesLists, IrqUpdatesLists
<1>2. QED
  BY InvariantCorrect, <1>1, PTL
=============================================================================

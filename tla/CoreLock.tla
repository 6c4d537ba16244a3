------------------------------ MODULE CoreLock ------------------------------
(***************************************************************************)
(* lib/arch/include/atomic.h: the spinlock_t and the corelock_t built on   *)
(* it, one step per access to shared memory.  A corelock_t is a recursive  *)
(* lock keyed by mhartid: an inner spinlock guards the pair (count, core). *)
(* Every call is modelled as the code runs it, including the               *)
(* spinlock_unlock that corelock_lock executes on its way out (line 148)   *)
(* after corelock_trylock has already released the inner spinlock.         *)
(***************************************************************************)
EXTENDS Integers

CONSTANTS Harts,      \* the harts
          NoHart,     \* core = -1, the value of CORELOCK_INIT
          MaxDepth,   \* bound: nested acquisitions of one core
          MaxCount    \* bound: a core stops where it loads a count outside
                      \* -MaxCount..MaxCount (only once stolen can it do so)

ASSUME HartsAssumption == NoHart \notin Harts
ASSUME BoundsAssumption ==
    MaxDepth \in Nat \ {0} /\ MaxCount \in Nat /\ MaxCount >= MaxDepth

VARIABLES lock,       \* corelock_t.lock.lock, TRUE standing for -1
          count,      \* corelock_t.count
          core,       \* corelock_t.core
          at,         \* what a core does next
          call,       \* the function a core runs
          reg,        \* the count a core has loaded, 0 once it is used
          depth,      \* nested acquisitions a core's caller has been given
          stolen      \* history: a spinlock_unlock freed another core's lock

lockVars == <<lock, count, core, at, call, reg, depth, stolen>>

Calls == {"lock", "trylock", "unlock"}

LockLabels == {"out", "spin", "read", "compare", "first", "take", "again",
               "load", "drop", "free", "zero", "leave", "other", "wait",
               "trailing", "sbreak"}

(***************************************************************************)
(* The labels between spinlock_lock(&lock->lock) and its spinlock_unlock.  *)
(***************************************************************************)
Guarded == {"read", "compare", "first", "take", "again",
            "load", "drop", "free", "zero", "leave", "other", "sbreak"}

Inside(c) == at[c] \in Guarded

LockGoto(c, l) == at' = [at EXCEPT ![c] = l]

LockInit ==
    /\ lock = FALSE
    /\ count = 0
    /\ core = NoHart
    /\ at = [c \in Harts |-> "out"]
    /\ call = [c \in Harts |-> "lock"]
    /\ reg = [c \in Harts |-> 0]
    /\ depth = [c \in Harts |-> 0]
    /\ stolen = FALSE

-----------------------------------------------------------------------------
(* spinlock_t *)

(* spinlock_lock: the atomic swap that finds 0 ends the two loops. *)
SpinlockLock ==
    /\ ~lock
    /\ lock' = TRUE

(* spinlock_unlock: a plain store, whoever holds the lock. *)
SpinlockUnlock(c) ==
    /\ lock' = FALSE
    /\ stolen' = (stolen \/ \E d \in Harts \ {c} : Inside(d))

-----------------------------------------------------------------------------
(* Faults: what an action would be with a plausible bug. No specification  *)
(* uses them; each shows that a property tells the bug from the code.      *)

(* corelock_unlock of a lock the caller has not taken *)
UnlockUnmatched(c) ==
    /\ at[c] = "out"
    /\ call' = [call EXCEPT ![c] = "unlock"]
    /\ depth' = [depth EXCEPT ![c] = @ - 1]
    /\ LockGoto(c, "spin")
    /\ UNCHANGED <<lock, count, core, reg, stolen>>

(* "First time" for a lock taken once *)
ReadCountOffByOne(c) ==
    /\ at[c] = "read"
    /\ reg' = [reg EXCEPT ![c] = count]
    /\ LockGoto(c, IF count <= 1 THEN "first" ELSE "compare")
    /\ UNCHANGED <<lock, count, core, call, depth, stolen>>

(* The owner is not looked at. *)
CompareNothing(c) ==
    /\ at[c] = "compare"
    /\ LockGoto(c, IF call[c] = "unlock" THEN "load" ELSE "again")
    /\ UNCHANGED <<lock, count, core, call, reg, depth, stolen>>

(* The lock is freed one release early. *)
DropOffByOne(c) ==
    /\ at[c] = "drop"
    /\ count' = reg[c] - 1
    /\ LockGoto(c, IF reg[c] - 1 <= 1 THEN "free" ELSE "leave")
    /\ reg' = [reg EXCEPT ![c] = 0]
    /\ UNCHANGED <<lock, core, call, depth, stolen>>

(* The spinlock_unlock at the end is missing. *)
LeaveLocked(c) ==
    /\ at[c] = "leave"
    /\ LockGoto(c, IF call[c] = "trylock" THEN "trailing" ELSE "out")
    /\ depth' = [depth EXCEPT ![c] = IF call[c] = "lock" THEN @ + 1 ELSE @]
    /\ UNCHANGED <<lock, count, core, call, reg, stolen>>

-----------------------------------------------------------------------------
(* The calls a core may make: it locks, and unlocks what it has locked. *)

CorelockLock(c) ==
    /\ at[c] = "out" /\ depth[c] < MaxDepth
    /\ call' = [call EXCEPT ![c] = "lock"]
    /\ LockGoto(c, "spin")
    /\ UNCHANGED <<lock, count, core, reg, depth, stolen>>

CorelockUnlock(c) ==
    /\ at[c] = "out" /\ depth[c] > 0
    /\ call' = [call EXCEPT ![c] = "unlock"]
    /\ depth' = [depth EXCEPT ![c] = @ - 1]
    /\ LockGoto(c, "spin")
    /\ UNCHANGED <<lock, count, core, reg, stolen>>

Spin(c) ==
    /\ at[c] = "spin"
    /\ SpinlockLock
    /\ LockGoto(c, IF call[c] = "unlock" THEN "compare" ELSE "read")
    /\ UNCHANGED <<count, core, call, reg, depth, stolen>>

Bounded == count \in -MaxCount .. MaxCount

(* if (lock->count == 0), in corelock_lock and corelock_trylock *)
ReadCount(c) ==
    /\ at[c] = "read" /\ Bounded
    /\ reg' = [reg EXCEPT ![c] = count]
    /\ LockGoto(c, IF count = 0 THEN "first" ELSE "compare")
    /\ UNCHANGED <<lock, count, core, call, depth, stolen>>

(* "First time get lock": the two stores *)
FirstTime(c) ==
    /\ at[c] = "first"
    /\ count' = reg[c] + 1
    /\ LockGoto(c, "take")
    /\ reg' = [reg EXCEPT ![c] = 0]
    /\ UNCHANGED <<lock, core, call, depth, stolen>>

TakeCore(c) ==
    /\ at[c] = "take"
    /\ core' = c
    /\ LockGoto(c, "leave")
    /\ UNCHANGED <<lock, count, call, reg, depth, stolen>>

(* (lock->core == core), the test of all three functions *)
CompareCore(c) ==
    /\ at[c] = "compare"
    /\ LockGoto(c, CASE core = c /\ call[c] # "unlock" -> "again"
                 [] core = c /\ call[c] = "unlock" -> "load"
                 [] core # c /\ call[c] # "unlock" -> "other"
                 [] core # c /\ call[c] = "unlock" -> "sbreak")
    /\ reg' = [reg EXCEPT ![c] = IF core = c THEN @ ELSE 0]
    /\ UNCHANGED <<lock, count, core, call, depth, stolen>>

(* "Same core get lock" *)
Again(c) ==
    /\ at[c] = "again"
    /\ count' = reg[c] + 1
    /\ LockGoto(c, "leave")
    /\ reg' = [reg EXCEPT ![c] = 0]
    /\ UNCHANGED <<lock, core, call, depth, stolen>>

(* "Same core release lock": lock->count--, tested in its register *)
LoadCount(c) ==
    /\ at[c] = "load" /\ Bounded
    /\ reg' = [reg EXCEPT ![c] = count]
    /\ LockGoto(c, "drop")
    /\ UNCHANGED <<lock, count, core, call, depth, stolen>>

Drop(c) ==
    /\ at[c] = "drop"
    /\ count' = reg[c] - 1
    /\ LockGoto(c, IF reg[c] - 1 <= 0 THEN "free" ELSE "leave")
    /\ reg' = [reg EXCEPT ![c] = 0]
    /\ UNCHANGED <<lock, core, call, depth, stolen>>

FreeCore(c) ==
    /\ at[c] = "free"
    /\ core' = NoHart
    /\ LockGoto(c, "zero")
    /\ UNCHANGED <<lock, count, call, reg, depth, stolen>>

ZeroCount(c) ==
    /\ at[c] = "zero"
    /\ count' = 0
    /\ LockGoto(c, "leave")
    /\ UNCHANGED <<lock, core, call, reg, depth, stolen>>

(***************************************************************************)
(* "Different core get lock": both functions free the spinlock and end up  *)
(* in corelock_lock's loop on lock->count.                                 *)
(***************************************************************************)
OtherCore(c) ==
    /\ at[c] = "other"
    /\ SpinlockUnlock(c)
    /\ LockGoto(c, "wait")
    /\ UNCHANGED <<count, core, call, reg, depth>>

WaitCount(c) ==
    /\ at[c] = "wait"
    /\ count = 0
    /\ call' = [call EXCEPT ![c] = "trylock"]
    /\ LockGoto(c, "spin")
    /\ UNCHANGED <<lock, count, core, reg, depth, stolen>>

(* The spinlock_unlock at the end of each function. *)
Leave(c) ==
    /\ at[c] = "leave"
    /\ SpinlockUnlock(c)
    /\ LockGoto(c, IF call[c] = "trylock" THEN "trailing" ELSE "out")
    /\ depth' = [depth EXCEPT ![c] = IF call[c] = "lock" THEN @ + 1 ELSE @]
    /\ UNCHANGED <<count, core, call, reg>>

(* corelock_trylock returned 0 and corelock_lock runs its last line. *)
Trailing(c) ==
    /\ at[c] = "trailing"
    /\ SpinlockUnlock(c)
    /\ LockGoto(c, "out")
    /\ depth' = [depth EXCEPT ![c] = @ + 1]
    /\ UNCHANGED <<count, core, call, reg>>

(* What a core does inside a call, which it never stops doing. *)
Step(c) ==
    \/ Spin(c) \/ ReadCount(c) \/ FirstTime(c) \/ TakeCore(c)
    \/ CompareCore(c) \/ Again(c) \/ LoadCount(c) \/ Drop(c)
    \/ FreeCore(c) \/ ZeroCount(c) \/ OtherCore(c) \/ WaitCount(c)
    \/ Leave(c) \/ Trailing(c)

LockNext == \E c \in Harts : CorelockLock(c) \/ CorelockUnlock(c) \/ Step(c)

LockSpec == LockInit /\ [][LockNext]_lockVars

(* A core keeps running, and a critical section ends. *)
LockFairness ==
    \A c \in Harts : WF_lockVars(Step(c)) /\ WF_lockVars(CorelockUnlock(c))

LockLiveSpec == LockSpec /\ LockFairness

-----------------------------------------------------------------------------
LockTypeOK ==
    /\ lock \in BOOLEAN
    /\ count \in Int
    /\ core \in Harts \cup {NoHart}
    /\ at \in [Harts -> LockLabels]
    /\ call \in [Harts -> Calls]
    /\ reg \in [Harts -> Int]
    /\ depth \in [Harts -> Nat]
    /\ stolen \in BOOLEAN

(* A core whose caller is between corelock_lock and corelock_unlock. *)
Holds(c) == depth[c] > 0

(***************************************************************************)
(* Until a spinlock_unlock has freed another core's spinlock, no two cores *)
(* are inside the critical section a corelock_t guards.                    *)
(***************************************************************************)
MutualExclusion ==
    ~stolen => \A c, d \in Harts : Holds(c) /\ Holds(d) => c = d

(***************************************************************************)
(* Until then the pair (count, core) is the caller's account: a core that  *)
(* holds the lock is the recorded one, and outside the calls count is its  *)
(* nesting depth.                                                          *)
(***************************************************************************)
CountIsDepth ==
    ~stolen => \A c \in Harts : Holds(c) =>
                  /\ core = c
                  /\ at[c] = "out" => count = depth[c]

(***************************************************************************)
(* The code's own assertion (the sbreak of corelock_unlock): a core that   *)
(* unlocks what it locked finds itself recorded as the owner.              *)
(***************************************************************************)
OwnerReleases == \A c \in Harts : at[c] # "sbreak"

(***************************************************************************)
(* The pair (count, core) is an abstract recursive lock: every step before *)
(* the spinlock is first stolen is a step of RecursiveLock or none.        *)
(***************************************************************************)
recorded == [c \in Harts |-> IF core = c THEN count ELSE 0]

Abstract == INSTANCE RecursiveLock WITH Cores <- Harts, depth <- recorded

RefinesRecursiveLock == [][~stolen' => [Abstract!Next]_recorded]_lockVars

(***************************************************************************)
(* A lock that every other core has left for good is obtained: no release  *)
(* leaves the lock behind in a state nobody can take it in.                *)
(***************************************************************************)
LeftLockIsObtained ==
    []~stolen =>
      \A c \in Harts :
        <>[](\A d \in Harts \ {c} : at[d] = "out" /\ depth[d] = 0)
          => []<>(at[c] = "out")
=============================================================================

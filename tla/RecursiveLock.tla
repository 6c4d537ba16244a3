--------------------------- MODULE RecursiveLock ---------------------------
(***************************************************************************)
(* What a corelock_t (lib/arch/include/atomic.h) promises: a lock that at  *)
(* most one core owns, that its owner may take again, and that is free     *)
(* once the owner has undone every acquisition.                            *)
(***************************************************************************)
EXTENDS Naturals

CONSTANT Cores      \* the harts, named by mhartid

VARIABLE depth      \* depth[c]: acquisitions of core c not yet undone

Free == [c \in Cores |-> 0]

Init == depth = Free

Acquire(c) ==
    /\ \A d \in Cores \ {c} : depth[d] = 0
    /\ depth' = [depth EXCEPT ![c] = @ + 1]

Release(c) ==
    /\ depth[c] > 0
    /\ depth' = [depth EXCEPT ![c] = @ - 1]

Next == \E c \in Cores : Acquire(c) \/ Release(c)

Spec == Init /\ [][Next]_depth
=============================================================================

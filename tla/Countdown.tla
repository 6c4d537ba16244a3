----------------------------- MODULE Countdown -----------------------------
(***************************************************************************)
(* What the delayed lists of tasks.c promise: a task that blocks for n     *)
(* ticks wakes at the nth tick, unless something wakes it before. While    *)
(* the clock is held ticks are owed, and the tasks woken meanwhile wait    *)
(* for its release.                                                        *)
(***************************************************************************)
EXTENDS Integers

CONSTANTS Sleepers, Longest

VARIABLES
    remaining,   \* ticks each sleeper has left, 0 for one awake
    owed,        \* ticks that passed while the clock was held
    woken        \* woken while the clock was held

vars == <<remaining, owed, woken>>

After(n) == [s \in Sleepers |-> IF remaining[s] > n THEN remaining[s] - n ELSE 0]

Sleep(s, n) ==
    /\ remaining[s] = 0
    /\ remaining' = [remaining EXCEPT ![s] = n]
    /\ UNCHANGED <<owed, woken>>

Wake(s) ==
    /\ remaining' = [remaining EXCEPT ![s] = 0]
    /\ woken' \in {woken, woken \ {s}}
    /\ UNCHANGED owed

WakeLater(s) ==
    /\ woken' = woken \cup {s}
    /\ UNCHANGED <<remaining, owed>>

Tick ==
    /\ owed = 0 /\ woken = {}
    /\ remaining' = After(1)
    /\ UNCHANGED <<owed, woken>>

Hold == owed' = owed + 1 /\ UNCHANGED <<remaining, woken>>

Release ==
    /\ remaining' = [s \in Sleepers |-> IF s \in woken THEN 0 ELSE After(owed)[s]]
    /\ owed' = 0 /\ woken' = {}

Init == remaining = [s \in Sleepers |-> 0] /\ owed = 0 /\ woken = {}

Next ==
    \/ \E s \in Sleepers :
          \/ \E n \in 1 .. Longest : Sleep(s, n)
          \/ Wake(s) \/ WakeLater(s)
    \/ Tick \/ Hold \/ Release

Spec == Init /\ [][Next]_vars
=============================================================================

------------------------------ MODULE MCQueue ------------------------------
(* A short queue, three tasks, and handlers on their core *)
EXTENDS Queue

CONSTANTS c0, c1, t1, t2, t3

(* One core for all, or a core for the first two and one for the third *)
OneCore == [t \in Tasks |-> c0]
TwoCores == [t \in Tasks |-> IF t = t3 THEN c1 ELSE c0]

(* t3 is the more important one. *)
Priorities == [t \in Tasks |-> IF t = t3 THEN 2 ELSE 1]

(* Each task sends or receives, one of them looks. *)
Mixed == t1 :> {"receive"} @@ t2 :> {"peek", "back"} @@ t3 :> {"front"}

(* On a queue of one item: two tasks of the highest priority, of which one *)
(* makes every call, and one below them                                    *)
TwoForemost == [t \in Tasks |-> IF t = t1 THEN 1 ELSE 2]
EveryCall == t1 :> {"receive"} @@ t2 :> {"back", "overwrite", "receive", "peek"}
             @@ t3 :> {"receive"}
=============================================================================

---------------------------- MODULE MCEventGroup ----------------------------
(* Three tasks of one core that meet for good at x, y and z. Two of them   *)
(* meet with a time-out at p and q, which all set, clear and wait for.     *)
EXTENDS EventGroup

CONSTANTS c0, t1, t2, t3, x, y, z, p, q

OneCore == [t \in Tasks |-> c0]

Mark(s) == [NoCall EXCEPT !.mark = s]
Unmark(s) == [NoCall EXCEPT !.op = "clear", !.mark = s]
Await(s, clear, all, ticks) ==
    [NoCall EXCEPT !.op = "wait", !.want = s, !.clear = clear, !.all = all, !.ticks = ticks]
MeetAt(s, want, ticks) ==
    [NoCall EXCEPT !.op = "sync", !.mark = s, !.want = want, !.ticks = ticks]
Drop == [NoCall EXCEPT !.op = "delete"]

Mixed ==
    t1 :> {MeetAt({x}, {x, y, z}, "max"), MeetAt({p}, {p, q}, "some"),
           Await({p}, TRUE, FALSE, "some"), Drop}
    @@ t2 :> {MeetAt({y}, {x, y, z}, "max"), MeetAt({q}, {p, q}, "some"), Mark({p})}
    @@ t3 :> {MeetAt({z}, {x, y, z}, "max"), Await({p, q}, FALSE, TRUE, "max"), Unmark({p}),
              Await({q}, TRUE, TRUE, "zero")}
=============================================================================

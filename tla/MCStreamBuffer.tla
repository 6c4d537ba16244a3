--------------------------- MODULE MCStreamBuffer ---------------------------
(* A buffer of four bytes, tasks and a handler at its ends *)
EXTENDS StreamBuffer

Short == {<<1>>, <<2, 3>>}
Tasks == {{}}
Mixed == {{}, {"sender"}, {"receiver"}}

(* States that differ only in bytes the ring does not hold are the same    *)
(* one: nothing reads such a byte while no unread message is overwritten.  *)
Start == IF pc["receiver"] = "fit" THEN oldTail ELSE tail
Held ==
    ((Length + head - Start) % Length)
      + (IF pc["sender"] = "advance" THEN Len(Head(todo)) ELSE 0)
Live == [i \in 0 .. Length - 1 |-> IF (Length + i - Start) % Length < Held THEN cells[i] ELSE 0]

LiveView ==
    <<kind, handlers, IF clobbered THEN cells ELSE Live, head, tail, trigger, sync, pc, ticks,
      sending, receiving, box, clobbered>>
=============================================================================

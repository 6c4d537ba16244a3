------------------------------ MODULE MCUart ------------------------------
(* Two tasks, a ring of three bytes and a port that holds two *)
EXTENDS Uart

(***************************************************************************)
(* Bytes are only compared: while the ring holds what it should, states    *)
(* that differ in the bytes' values are the same, and where the ring       *)
(* begins does not matter. A ring that is not in use has no contents; once *)
(* an update of its length was lost nothing is said of its bytes.          *)
(***************************************************************************)
Seen(r) ==
    IF r \notin live THEN <<>>
    ELSE IF Undisturbed THEN <<ring[r].length, (Length + ring[r].tail - ring[r].head) % Length,
                        Len(unread), r = recv /\ Contents(r) = unread>>
    ELSE <<ring[r].length>>

LiveView ==
    <<count, clock, handler, recv, live, [r \in Rings |-> Seen(r)], event, Len(fifo),
      place, mine, loaded, want, opened, opens, irqAt, iring, iloaded, torn, reopened,
      overlap, cut, astray>>
=============================================================================

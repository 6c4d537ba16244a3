----------------------------- MODULE FifoStream -----------------------------
(***************************************************************************)
(* What a stream or message buffer promises one sender and one receiver:   *)
(* units (bytes, or whole messages) come out in the order they went in,    *)
(* none is lost, repeated or torn, and a reset drops them all.             *)
(***************************************************************************)
EXTENDS Naturals, Sequences

CONSTANT Chunks   \* what one send may put: sequences of units

VARIABLES fifo,   \* sent and not received
          got     \* taken out, for the receiver's call to return

vars == <<fifo, got>>

Init == fifo = <<>> /\ got = <<>>

Put ==
    /\ got' = got
    /\ \E c \in Chunks : fifo' = fifo \o c

Get ==
    \E n \in 1 .. Len(fifo) :
        /\ got' = SubSeq(fifo, 1, n)
        /\ fifo' = SubSeq(fifo, n + 1, Len(fifo))

Return == got' = <<>> /\ fifo' = fifo

Reset == fifo' = <<>> /\ got' = got

Next == Return \/ Put \/ Get \/ Reset

Spec == Init /\ [][Next]_vars
=============================================================================

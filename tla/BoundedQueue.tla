---------------------------- MODULE BoundedQueue ----------------------------
(***************************************************************************)
(* What a FreeRTOS queue promises: a bounded sequence of items, every      *)
(* operation on it atomic. A client's box holds the item it was given.     *)
(* Handlers send and receive too; what they do with an item is not said.   *)
(***************************************************************************)
EXTENDS Naturals, Sequences

CONSTANTS Clients, Items, Length

VARIABLES buffer, box

vars == <<buffer, box>>

(* A client uses its box for something else. *)
Reuse(c) ==
    /\ \E x \in Items : box' = [box EXCEPT ![c] = x]
    /\ UNCHANGED buffer

PutBack(x) ==
    /\ Len(buffer) < Length
    /\ buffer' = Append(buffer, x)

PutFront(x) ==
    /\ Len(buffer) < Length
    /\ buffer' = <<x>> \o buffer

(* Of a queue of one item *)
Overwrite(x) ==
    /\ Length = 1
    /\ buffer' = <<x>>

Put(x) == (PutBack(x) \/ PutFront(x) \/ Overwrite(x)) /\ UNCHANGED box

Give(c) == box' = [box EXCEPT ![c] = Head(buffer)]

Get(c) ==
    /\ buffer # <<>>
    /\ buffer' = Tail(buffer)
    /\ Give(c)

Peek(c) ==
    /\ buffer # <<>>
    /\ Give(c)
    /\ UNCHANGED buffer

(* A handler receives. *)
Drop ==
    /\ buffer # <<>>
    /\ buffer' = Tail(buffer)
    /\ UNCHANGED box

Init ==
    /\ buffer = <<>>
    /\ box \in [Clients -> Items]

Next ==
    \/ \E x \in Items : Put(x)
    \/ \E c \in Clients : Get(c) \/ Peek(c) \/ Reuse(c)
    \/ Drop

Spec == Init /\ [][Next]_vars
=============================================================================

---------------------------- MODULE StreamBuffer ----------------------------
(***************************************************************************)
(* lib/freertos/stream_buffer.c: one stream or message buffer with one     *)
(* sender and one receiver, each a task or an interrupt handler.           *)
(*                                                                         *)
(* The buffer has no lock: xHead is the sender's, xTail the receiver's,    *)
(* and each side copies bytes before it moves its index. A side that has   *)
(* to wait registers in the buffer and waits for a task notification. The  *)
(* steps are those another task or a handler can come between; critical    *)
(* sections are one step.                                                  *)
(***************************************************************************)
EXTENDS Integers, Sequences

CONSTANTS
    Handlers,     \* which ends may be handlers: a set of subsets of Ends
    SameCore,     \* both ends use one core
    Kinds,        \* the buffers created, a subset of {"stream", "message"}
    Length,       \* xLength: one more than the bytes it holds
    LengthBytes,  \* sbBYTES_TO_STORE_MESSAGE_LENGTH
    Triggers,     \* trigger levels
    Payloads,     \* what is sent: sequences of bytes
    RxSizes,      \* xBufferLengthBytes
    Waits         \* the block times passed, a subset of WaitKinds

Ends == {"sender", "receiver"}
WaitKinds == {"zero", "some", "max"}   \* 0, ticks, portMAX_DELAY

ASSUME StreamBufferAssumption ==
    /\ Handlers \subseteq SUBSET Ends
    /\ SameCore \in BOOLEAN
    /\ Kinds \subseteq {"stream", "message"}
    /\ Length \in Nat /\ LengthBytes \in Nat \ {0} /\ Length > LengthBytes + 1
    /\ Triggers \subseteq 1 .. Length
    /\ Payloads \subseteq Seq(Nat) \ {<<>>} /\ RxSizes \subseteq Nat \ {0}
    /\ Waits \subseteq WaitKinds

VARIABLES
    kind,         \* sbFLAGS_IS_MESSAGE_BUFFER in ucFlags
    handlers,     \* the ends that are handlers
    cells, head, tail, trigger,
    registered,   \* xTaskWaitingToSend, xTaskWaitingToReceive
    note,         \* ucNotifyState of the two tasks
    blocked, late,
    pc, ticks,
    data, space, todo,                     \* the sender's locals
    size, avail, oldTail, wanted, copied,  \* the receiver's
    box,          \* what the call has taken out of the buffer
    clobbered     \* bytes not received yet have been overwritten

ring == <<kind, handlers, cells, head, tail, trigger>>
sync == <<registered, note, blocked, late>>
sending == <<data, space, todo>>
receiving == <<size, avail, oldTail, wanted, copied>>
vars == <<ring, sync, pc, ticks, sending, receiving, box, clobbered>>

Labels == {"idle", "check", "wait", "woken", "forgetself", "timeout", "last", "write",
           "copy", "advance", "level", "recheck", "read", "header", "pastheader", "fit",
           "copyout", "pastdata", "complete", "notify", "forget", "assert"}

Other(e) == IF e = "sender" THEN "receiver" ELSE "sender"

Init ==
    /\ kind \in Kinds /\ handlers \in Handlers /\ trigger \in Triggers
    /\ cells = [i \in 0 .. Length - 1 |-> 0]
    /\ head = 0 /\ tail = 0
    /\ registered = [e \in Ends |-> FALSE]
    /\ note = [e \in Ends |-> "none"]
    /\ blocked = [e \in Ends |-> FALSE]
    /\ late = [e \in Ends |-> FALSE]
    /\ pc = [e \in Ends |-> "idle"]
    /\ ticks = [e \in Ends |-> "zero"]
    /\ data = <<>> /\ space = 0 /\ todo = <<>>
    /\ size = 0 /\ avail = 0 /\ oldTail = 0 /\ wanted = 0 /\ copied = <<>>
    /\ box = <<>> /\ clobbered = FALSE

-----------------------------------------------------------------------------
(* The ring. Faults, here and below, are definitions with a plausible bug; *)
(* no specification uses them.                                             *)

SpacesAvailable ==
    LET spaces == Length + tail - head - 1
    IN  IF spaces >= Length THEN spaces - Length ELSE spaces

BytesInBuffer ==
    LET bytes == Length + head - tail
    IN  IF bytes >= Length THEN bytes - Length ELSE bytes

Least(a, b) == IF a < b THEN a ELSE b
Wrap(i) == IF i >= Length THEN i - Length ELSE i

(* n bytes from an index on *)
Slice(from, n) == [i \in 1 .. n |-> cells[Wrap(from + i - 1)]]

(* The bytes of a size_t that is small: the first byte and zeroes *)
Header(n) == [i \in 1 .. LengthBytes |-> IF i = 1 THEN n ELSE 0]

Prefix == IF kind = "message" THEN LengthBytes ELSE 0
Required == Len(data) + Prefix

-----------------------------------------------------------------------------
(***************************************************************************)
(* Who runs. On one core a handler runs to its end once it has begun, and  *)
(* a task that has suspended the scheduler keeps the other task out.       *)
(***************************************************************************)
Holding == {"notify", "forget"}

May(e) ==
    /\ ~blocked[e]
    /\ SameCore => /\ Other(e) \in handlers => pc[Other(e)] = "idle"
                   /\ pc[Other(e)] \in Holding => e \in handlers

At(e, l) == pc[e] = l /\ May(e)

Goto(e, l) == pc' = [pc EXCEPT ![e] = l]

(* Locals that are not used again go back to what they were at first. *)
Forgets(e) ==
    /\ ticks' = [ticks EXCEPT ![e] = "zero"]
    /\ late' = [late EXCEPT ![e] = FALSE]

Return(e) ==
    /\ Goto(e, "idle")
    /\ box' = IF e = "receiver" THEN <<>> ELSE box

-----------------------------------------------------------------------------
(* Waiting, the same on both sides *)

(* xTaskNotifyStateClear and the registration are left to xTaskNotifyWait: *)
(* what comes between is taken for an old notification.                    *)
WaitClearing(e) ==
    /\ At(e, "wait")
    /\ note' = [note EXCEPT ![e] = "waiting"]
    /\ blocked' = [blocked EXCEPT ![e] = TRUE]
    /\ Goto(e, "woken")
    /\ UNCHANGED <<ring, registered, late, ticks, sending, receiving, box, clobbered>>

(* xTaskNotifyWait: its first critical section and the yield ... *)
Wait(e) ==
    /\ At(e, "wait")
    /\ IF note[e] = "received"
         THEN UNCHANGED <<note, blocked>>
         ELSE /\ note' = [note EXCEPT ![e] = "waiting"]
              /\ blocked' = [blocked EXCEPT ![e] = TRUE]
    /\ Goto(e, "woken")
    /\ UNCHANGED <<ring, registered, late, ticks, sending, receiving, box, clobbered>>

(* ... and its second one *)
Woken(e) ==
    /\ At(e, "woken")
    /\ note' = [note EXCEPT ![e] = "none"]
    /\ Goto(e, "forgetself")
    /\ UNCHANGED <<ring, registered, blocked, late, ticks, sending, receiving, box, clobbered>>

(* The waiter relies on the other end to take its handle out. *)
ForgetSelfNever(e) ==
    /\ At(e, "forgetself")
    /\ Goto(e, IF e = "sender" THEN "timeout" ELSE "recheck")
    /\ UNCHANGED <<ring, sync, ticks, sending, receiving, box, clobbered>>

ForgetSelf(e) ==
    /\ At(e, "forgetself")
    /\ registered' = [registered EXCEPT ![e] = FALSE]
    /\ Goto(e, IF e = "sender" THEN "timeout" ELSE "recheck")
    /\ UNCHANGED <<ring, note, blocked, late, ticks, sending, receiving, box, clobbered>>

(* xTaskIncrementTick ends a finite wait. *)
Expire(e) ==
    /\ blocked[e] /\ ticks[e] = "some"
    /\ SameCore => pc[Other(e)] \notin Holding
    /\ blocked' = [blocked EXCEPT ![e] = FALSE]
    /\ late' = [late EXCEPT ![e] = TRUE]
    /\ UNCHANGED <<ring, registered, note, pc, ticks, sending, receiving, box, clobbered>>

(* What the critical section before a wait does *)
Register(e) ==
    /\ IF registered[e] THEN Goto(e, "assert") ELSE Goto(e, "wait")
    /\ note' = [note EXCEPT ![e] = IF @ = "received" THEN "none" ELSE @]
    /\ registered' = [registered EXCEPT ![e] = TRUE]

-----------------------------------------------------------------------------
(* sbSEND_COMPLETED, sbRECEIVE_COMPLETED and their FROM_ISR forms *)


Complete(e) ==
    /\ At(e, "complete")
    /\ IF registered[Other(e)]
         THEN Goto(e, "notify") /\ UNCHANGED box
         ELSE Return(e)
    /\ UNCHANGED <<ring, sync, ticks, sending, receiving, clobbered>>

(* xTaskNotify reads the handle again, and asserts that it is not NULL. *)
Notify(e) ==
    /\ At(e, "notify")
    /\ IF registered[Other(e)]
         THEN /\ note' = [note EXCEPT ![Other(e)] = "received"]
              /\ blocked' = [blocked EXCEPT ![Other(e)] = FALSE]
              /\ Goto(e, "forget")
         ELSE Goto(e, "assert") /\ UNCHANGED <<note, blocked>>
    /\ UNCHANGED <<ring, registered, late, ticks, sending, receiving, box, clobbered>>

Forget(e) ==
    /\ At(e, "forget")
    /\ registered' = [registered EXCEPT ![Other(e)] = FALSE]
    /\ Return(e)
    /\ UNCHANGED <<ring, note, blocked, late, ticks, sending, receiving, clobbered>>

-----------------------------------------------------------------------------
(* xStreamBufferSend, xStreamBufferSendFromISR *)

Send ==
    /\ At("sender", "idle")
    /\ data' \in Payloads
    /\ IF "sender" \in handlers
         THEN Goto("sender", "last") /\ UNCHANGED ticks
         ELSE \E w \in Waits :
                /\ ticks' = [ticks EXCEPT !["sender"] = w]
                /\ Goto("sender", IF w = "zero" THEN "last" ELSE "check")
    /\ UNCHANGED <<ring, sync, space, todo, receiving, box, clobbered>>

CheckSpace ==
    /\ At("sender", "check")
    /\ space' = SpacesAvailable
    /\ IF SpacesAvailable < Required
         THEN Register("sender")
         ELSE Goto("sender", "write") /\ UNCHANGED <<note, registered>>
    /\ UNCHANGED <<ring, blocked, late, ticks, data, todo, receiving, box, clobbered>>

(* xTaskCheckForTimeOut: a finite time may be over, or over for certain. *)
TimeOut ==
    /\ At("sender", "timeout")
    /\ \/ ticks["sender"] = "some" /\ Goto("sender", "last")
       \/ ~late["sender"] /\ Goto("sender", "check")
    /\ UNCHANGED <<ring, sync, ticks, sending, receiving, box, clobbered>>

LastSpace ==
    /\ At("sender", "last")
    /\ space' = IF space = 0 THEN SpacesAvailable ELSE space
    /\ Goto("sender", "write")
    /\ UNCHANGED <<ring, sync, ticks, data, todo, receiving, box, clobbered>>

(* prvWriteMessageToBuffer: what is written, one piece after the other *)
Write ==
    /\ At("sender", "write")
    /\ IF space > 0 /\ (kind = "stream" \/ space >= Required)
         THEN /\ todo' = IF kind = "stream"
                           THEN <<SubSeq(data, 1, Least(Len(data), space))>>
                           ELSE <<Header(Len(data)), data>>
              /\ Goto("sender", "copy")
         ELSE todo' = <<>> /\ Goto("sender", "idle")
    /\ Forgets("sender") /\ data' = <<>> /\ space' = 0
    /\ UNCHANGED <<ring, registered, note, blocked, receiving, box, clobbered>>

(* The bytes past the end of the ring are not written at its start. *)
CopyUnwrapped ==
    /\ At("sender", "copy")
    /\ cells' = [i \in DOMAIN cells |->
                   IF i \in head .. head + Len(Head(todo)) - 1 THEN Head(todo)[i - head + 1]
                   ELSE cells[i]]
    /\ Goto("sender", "advance")
    /\ UNCHANGED <<kind, handlers, head, tail, trigger, sync, ticks, sending, receiving, box,
                   clobbered>>

(* prvWriteBytesToBuffer: the bytes ... *)
Copy ==
    /\ At("sender", "copy")
    /\ LET piece == Head(todo)
           target == {Wrap(head + i - 1) : i \in 1 .. Len(piece)}
           at(i) == CHOOSE k \in 1 .. Len(piece) : Wrap(head + k - 1) = i
       IN  /\ cells' = [i \in DOMAIN cells |-> IF i \in target THEN piece[at(i)] ELSE cells[i]]
           /\ clobbered' = (clobbered \/ Len(piece) > SpacesAvailable)
    /\ Goto("sender", "advance")
    /\ UNCHANGED <<kind, handlers, head, tail, trigger, sync, ticks, sending, receiving, box>>

(* ... and then the index *)
Advance ==
    /\ At("sender", "advance")
    /\ head' = Wrap(head + Len(Head(todo)))
    /\ todo' = Tail(todo)
    /\ Goto("sender", IF Len(todo) > 1 THEN "copy" ELSE "level")
    /\ UNCHANGED <<kind, handlers, cells, tail, trigger, sync, ticks, data, space,
                   receiving, box, clobbered>>

(* "Was a task waiting for the data?" *)
Level ==
    /\ At("sender", "level")
    /\ IF BytesInBuffer >= trigger
         THEN Goto("sender", "complete")
         ELSE Goto("sender", "idle")
    /\ UNCHANGED <<ring, sync, ticks, sending, receiving, box, clobbered>>

-----------------------------------------------------------------------------
(* xStreamBufferReceive, xStreamBufferReceiveFromISR *)

Receive ==
    /\ At("receiver", "idle")
    /\ size' \in RxSizes
    /\ IF "receiver" \in handlers
         THEN Goto("receiver", "recheck") /\ UNCHANGED ticks
         ELSE \E w \in Waits :
                /\ ticks' = [ticks EXCEPT !["receiver"] = w]
                /\ Goto("receiver", IF w = "zero" THEN "recheck" ELSE "check")
    /\ UNCHANGED <<ring, sync, sending, avail, oldTail, wanted, copied, box, clobbered>>

CheckBytes ==
    /\ At("receiver", "check")
    /\ avail' = BytesInBuffer
    /\ IF BytesInBuffer <= Prefix
         THEN Register("receiver")
         ELSE Goto("receiver", "read") /\ UNCHANGED <<note, registered>>
    /\ UNCHANGED <<ring, blocked, late, ticks, sending, size, oldTail, wanted, copied, box,
                   clobbered>>

Recheck ==
    /\ At("receiver", "recheck")
    /\ avail' = BytesInBuffer
    /\ Goto("receiver", "read")
    /\ UNCHANGED <<ring, sync, ticks, sending, size, oldTail, wanted, copied, box, clobbered>>

(* prvReadMessageFromBuffer *)
Read ==
    /\ At("receiver", "read")
    /\ \/ /\ avail <= Prefix
          /\ size' = 0 /\ avail' = 0
          /\ Goto("receiver", "idle")
          /\ UNCHANGED <<oldTail, wanted>>
       \/ /\ avail > Prefix /\ kind = "stream"
          /\ wanted' = Least(avail, size)
          /\ size' = 0 /\ avail' = 0
          /\ Goto("receiver", "copyout")
          /\ UNCHANGED oldTail
       \/ /\ avail > Prefix /\ kind = "message"
          /\ oldTail' = tail
          /\ Goto("receiver", "header")
          /\ UNCHANGED <<size, avail, wanted>>
    /\ Forgets("receiver")
    /\ UNCHANGED <<ring, registered, note, blocked, sending, copied, box, clobbered>>

ReadLength ==
    /\ At("receiver", "header")
    /\ wanted' = cells[tail]
    /\ Goto("receiver", "pastheader")
    /\ UNCHANGED <<ring, sync, ticks, sending, size, avail, oldTail, copied, box, clobbered>>

(* The index is not wrapped after the header, as if only the bytes were. *)
PassHeaderUnwrapped ==
    /\ At("receiver", "pastheader")
    /\ tail' = tail + LengthBytes
    /\ avail' = avail - LengthBytes
    /\ Goto("receiver", "fit")
    /\ UNCHANGED <<kind, handlers, cells, head, trigger, sync, ticks, sending, size, oldTail,
                   wanted, copied, box, clobbered>>

PassHeader ==
    /\ At("receiver", "pastheader")
    /\ tail' = Wrap(tail + LengthBytes)
    /\ avail' = avail - LengthBytes
    /\ Goto("receiver", "fit")
    /\ UNCHANGED <<kind, handlers, cells, head, trigger, sync, ticks, sending, size, oldTail,
                   wanted, copied, box, clobbered>>

(* A message that is too long for the caller goes back into the buffer; by *)
(* then the sender may have used the bytes of its length.                  *)
Fit ==
    /\ At("receiver", "fit")
    /\ IF wanted > size
         THEN /\ tail' = oldTail
              /\ clobbered' =
                   (clobbered \/ BytesInBuffer + LengthBytes
                                 + (IF pc["sender"] = "advance" THEN Len(Head(todo)) ELSE 0)
                                 >= Length)
              /\ wanted' = 0
              /\ Goto("receiver", "idle")
         ELSE /\ wanted' = Least(avail, wanted)
              /\ Goto("receiver", "copyout")
              /\ UNCHANGED <<tail, clobbered>>
    /\ size' = 0 /\ avail' = 0 /\ oldTail' = 0
    /\ UNCHANGED <<kind, handlers, cells, head, trigger, sync, ticks, sending, copied, box>>

(* prvReadBytesFromBuffer: the bytes ... *)
CopyOut ==
    /\ At("receiver", "copyout")
    /\ copied' = Slice(tail, wanted)
    /\ Goto("receiver", "pastdata")
    /\ UNCHANGED <<ring, sync, ticks, sending, size, avail, oldTail, wanted, box, clobbered>>

(* ... and then the index *)
PassData ==
    /\ At("receiver", "pastdata")
    /\ tail' = Wrap(tail + wanted)
    /\ box' = copied /\ copied' = <<>>
    /\ wanted' = 0
    /\ Goto("receiver", "complete")
    /\ UNCHANGED <<kind, handlers, cells, head, trigger, sync, ticks, sending, size, avail,
                   oldTail, clobbered>>

-----------------------------------------------------------------------------
(* The receiver's task between its calls. Nothing keeps a reset apart from *)
(* a call that begins; the application resets the buffer when the other    *)
(* end is not in a call, or waits.                                         *)

SetTriggerLevel ==
    /\ At("receiver", "idle") /\ "receiver" \notin handlers
    /\ trigger' \in Triggers
    /\ UNCHANGED <<kind, handlers, cells, head, tail, sync, pc, ticks, sending, receiving, box,
                   clobbered>>

(* prvInitialiseNewStreamBuffer keeps the kind and the trigger level. *)
Reset ==
    /\ At("receiver", "idle") /\ "receiver" \notin handlers
    /\ pc["sender"] = "idle"
    /\ ~registered["receiver"] /\ ~registered["sender"]
    /\ head' = 0 /\ tail' = 0
    /\ UNCHANGED <<kind, handlers, cells, trigger, sync, pc, ticks, sending, receiving, box,
                   clobbered>>

-----------------------------------------------------------------------------
Sender == \/ CheckSpace \/ TimeOut \/ LastSpace \/ Write \/ Copy \/ Advance \/ Level

Receiver == \/ CheckBytes \/ Recheck \/ Read \/ ReadLength \/ PassHeader
            \/ Fit \/ CopyOut \/ PassData

Common(e) == \/ Wait(e) \/ Woken(e) \/ ForgetSelf(e)
             \/ Complete(e) \/ Notify(e) \/ Forget(e)

Next == \/ Send \/ Receive \/ Sender \/ Receiver \/ SetTriggerLevel \/ Reset
        \/ \E e \in Ends : Common(e) \/ Expire(e)

Spec == Init /\ [][Next]_vars
-----------------------------------------------------------------------------
TypeOK ==
    /\ kind \in Kinds /\ handlers \in Handlers /\ trigger \in Triggers
    /\ DOMAIN cells = 0 .. Length - 1 /\ head \in DOMAIN cells /\ tail \in DOMAIN cells
    /\ registered \in [Ends -> BOOLEAN] /\ blocked \in [Ends -> BOOLEAN]
    /\ note \in [Ends -> {"none", "waiting", "received"}]
    /\ late \in [Ends -> BOOLEAN] /\ pc \in [Ends -> Labels]
    /\ ticks \in [Ends -> WaitKinds]
    /\ space \in 0 .. Length - 1 /\ avail \in 0 .. Length - 1
    /\ clobbered \in BOOLEAN

(* What the refinement mapping takes from the ring *)
unread == Slice(tail, BytesInBuffer)

(* The messages from an index on, each behind its length; bytes too few for *)
(* one are none                                                            *)
MessagesFrom(bytes) ==
    LET end(i) == i + LengthBytes + bytes[i + 1]
        from[i \in 0 .. Len(bytes)] ==
          IF i + LengthBytes < Len(bytes) /\ end(i) \in i + 1 .. Len(bytes)
            THEN <<SubSeq(bytes, i + LengthBytes + 1, end(i))>> \o from[end(i)]
            ELSE <<>>
    IN  from

Messages(bytes) == MessagesFrom(bytes)[0]

InMessage == pc["receiver"] \in {"fit", "copyout", "pastdata"}

(* A byte of a stream is a unit of its own. *)
Units(bytes) == [i \in 1 .. Len(bytes) |-> <<bytes[i]>>]

(* The message that the receiver takes, and the bytes behind it *)
inHand == IF InMessage THEN <<SubSeq(unread, 1, wanted)>> ELSE <<>>
behind == IF InMessage THEN SubSeq(unread, wanted + 1, Len(unread)) ELSE unread

contents ==
    IF clobbered THEN <<>>
    ELSE IF kind = "stream" THEN Units(unread)
    ELSE inHand \o Messages(behind)

received ==
    IF box = <<>> THEN <<>> ELSE IF kind = "stream" THEN Units(box) ELSE <<box>>

(* A whole message, or as much of the bytes as there was room for *)
Sendable ==
    {<<p>> : p \in Payloads}
      \cup UNION {{Units(SubSeq(p, 1, n)) : n \in 1 .. Len(p)} : p \in Payloads}

Abstract == INSTANCE FifoStream WITH
    Chunks <- Sendable, fifo <- contents, got <- received

(***************************************************************************)
(* The lock-free ring is a sequence of bytes, or of whole messages, that   *)
(* come out in the order they went in: until a receiver puts a message     *)
(* back whose length the sender has overwritten, each call moves units     *)
(* into or out of the sequence in one step or leaves it alone, and only a  *)
(* reset drops any.                                                        *)
(***************************************************************************)
MovesUnits ==
    \/ clobbered'
    \/ Abstract!Return \/ Abstract!Put \/ Abstract!Get
    \/ Reset /\ Abstract!Reset

RefinesFifoStream == Abstract!Init /\ [][MovesUnits]_(Abstract!vars)

(***************************************************************************)
(* No wake-up is lost between the two ends, whatever comes between the     *)
(* check of the ring, the registration and the wait: a receiver that is    *)
(* blocked while what has been sent reaches the trigger level, or a sender *)
(* that is blocked while there is room, is about to be notified by the     *)
(* other end.                                                              *)
(***************************************************************************)
Notifying(e) == pc[e] \in {"complete", "notify"}

(* The length of a message is in the ring, and its bytes are not yet. *)
HalfSent == kind = "message" /\ pc["sender"] \in {"copy", "advance"} /\ Len(todo) = 1

Sent == BytesInBuffer - (IF HalfSent THEN LengthBytes ELSE 0)

NoLostWakeup ==
    /\ blocked["receiver"] /\ Sent >= trigger /\ Sent > Prefix
         => registered["receiver"] /\ (pc["sender"] = "level" \/ Notifying("sender"))
    /\ ~clobbered /\ blocked["sender"] /\ SpacesAvailable >= Required
         => registered["sender"] /\ (InMessage \/ Notifying("receiver"))

(***************************************************************************)
(* stream_buffer.c:544 "Should only be one writer", :748 "Should only be   *)
(* one reader", and the assertion of xTaskGenericNotify that there is a    *)
(* task to notify: with one sender and one receiver they hold.             *)
(***************************************************************************)
AssertionsHold == TypeOK /\ \A e \in Ends : pc[e] # "assert"

(***************************************************************************)
(* stream_buffer.c:877-879: "A copy of the tail is stored so the buffer    *)
(* can be returned to its prior state if the length of the message is too  *)
(* large for the provided buffer."                                         *)
(***************************************************************************)
ReturnsToPriorState == ~clobbered
=============================================================================

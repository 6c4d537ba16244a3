------------------------ MODULE StreamBuffer_proofs ------------------------

(***************************************************************************)
(* Theorems about StreamBuffer. On any number of cores the ring keeps its  *)
(* bytes and messages (RingInv), so that it implements FifoStream. On one  *)
(* core no wake-up is lost (WakeInv).                                      *)
(***************************************************************************)
EXTENDS StreamBuffer, SequenceTheorems, WellFoundedInduction, TLAPS

(* The labels of each end *)
SenderLabels ==
    {"idle", "check", "wait", "woken", "forgetself", "timeout", "last", "write", "copy",
     "advance", "level", "complete", "notify", "forget", "assert"}

ReceiverLabels ==
    {"idle", "check", "wait", "woken", "forgetself", "recheck", "read", "header", "pastheader",
     "fit", "copyout", "pastdata", "complete", "notify", "forget", "assert"}

(* The types, those of the locals included *)
Typed ==
    /\ TypeOK
    /\ pc["sender"] \in SenderLabels /\ pc["receiver"] \in ReceiverLabels
    /\ cells \in [0 .. Length - 1 -> Nat]
    /\ data \in Seq(Nat) /\ todo \in Seq(Seq(Nat))
    /\ size \in Nat /\ oldTail \in 0 .. Length - 1 /\ wanted \in Nat
    /\ copied \in Seq(Nat) /\ box \in Seq(Nat)

(* What the sender has in hand: first what it was called with, then the    *)
(* pieces that it has still to write.                                      *)
Carrying ==
    /\ pc["sender"] \in {"check", "wait", "woken", "forgetself", "timeout", "last", "write"}
         => data \in Payloads
    /\ pc["sender"] \in {"copy", "advance"} =>
         \/ /\ kind = "stream"
            /\ \E p \in Payloads : \E n \in 1 .. Length - 1 :
                 n <= Len(p) /\ todo = <<SubSeq(p, 1, n)>>
         \/ /\ kind = "message"
            /\ \E p \in Payloads : /\ Len(p) + LengthBytes < Length
                                   /\ (todo = <<Header(Len(p)), p>> \/ todo = <<p>>)

(* How far the receiver is *)
Places ==
    /\ pc["receiver"] \in {"header", "pastheader", "fit"} => kind = "message"
    /\ pc["receiver"] \in {"header", "pastheader"} => avail > LengthBytes /\ oldTail = tail
    /\ pc["receiver"] = "fit" => tail = Wrap(oldTail + LengthBytes)
    /\ pc["receiver"] \in {"copyout", "pastdata"} => wanted < Length

(* A sequence of whole messages: from each of the offsets of B, the first  *)
(* of which is 0 and the last one the end, a length leads to the next one. *)
Framed(w) ==
    \E B \in SUBSET (0 .. Len(w)) :
        /\ 0 \in B /\ Len(w) \in B
        /\ \A b \in B \ {Len(w)} : /\ b + LengthBytes < Len(w) /\ w[b + 1] >= 1
                                   /\ b + LengthBytes + w[b + 1] \in B

(* The length of a message that has no bytes yet, what is left of the      *)
(* message that the receiver takes, and the messages in between            *)
Part == IF HalfSent THEN LengthBytes ELSE 0
Skip == IF kind = "message" /\ InMessage THEN wanted ELSE 0
Whole == Slice(Wrap(tail + Skip), BytesInBuffer - Skip - Part)

(* What has been copied into the ring and not handed over has its place.   *)
Pending == IF pc["sender"] = "advance" THEN Len(Head(todo)) ELSE 0

Filled ==
    /\ BytesInBuffer + Pending < Length
    /\ \A i \in 1 .. Pending : cells[Wrap(head + i - 1)] = Head(todo)[i]

Framing ==
    kind = "message" =>
        /\ Skip + Part <= BytesInBuffer
        /\ Framed(Whole)
        /\ HalfSent => cells[Wrap(tail + BytesInBuffer - LengthBytes)] = Len(Head(todo))

(* The receiver's locals fit the ring.                                     *)
Asked == {"check", "wait", "woken", "forgetself", "recheck", "read", "header", "pastheader",
          "fit"}

Taking ==
    /\ pc["receiver"] \in Asked => size \in Nat \ {0}
    /\ pc["receiver"] \in {"read", "header", "pastheader"} /\ avail > Prefix =>
         /\ avail <= BytesInBuffer
         /\ kind = "message" => LengthBytes + cells[tail] <= avail
    /\ pc["receiver"] = "pastheader" => wanted = cells[tail]
    /\ pc["receiver"] = "fit" =>
         /\ wanted \in 1 .. avail /\ avail <= BytesInBuffer
         /\ BytesInBuffer + LengthBytes + Pending < Length => cells[oldTail] = wanted
    /\ pc["receiver"] \in {"copyout", "pastdata"} => wanted \in 1 .. BytesInBuffer
    /\ pc["receiver"] = "pastdata" => copied = Slice(tail, wanted)

(* Until a message is put back over bytes that are in use again, the ring  *)
(* holds what it should.                                                   *)
RingInv == Typed /\ Carrying /\ Places /\ (clobbered \/ (Filled /\ Framing /\ Taking))

(* The ring holds what it should.                                          *)
Good == Typed /\ Carrying /\ Places /\ Filled /\ Framing /\ Taking

-----------------------------------------------------------------------------
(* An end that waits, or will, as no notification has come                 *)
Waiting(e) == blocked[e] \/ (pc[e] = "wait" /\ note[e] # "received")

(* The registrations: no assertion fails, a handler never waits, ...       *)
Registered ==
    \A e \in Ends :
        /\ pc[e] # "assert"
        /\ pc[e] \in {"check", "wait", "woken", "forgetself", "timeout"} => e \notin handlers
        /\ registered[e] => pc[e] \in {"wait", "woken", "forgetself"}
        /\ pc[e] \in Holding => registered[Other(e)]
        /\ blocked[e] => pc[e] = "woken"
        /\ Waiting(e) => registered[e] /\ pc[Other(e)] # "forget"

(* The sender waits for room that the receiver has still to make. A header *)
(* that may be put back is not room.                                       *)
SenderWaits ==
    ~clobbered /\ Waiting("sender") =>
        /\ InMessage \/ Notifying("receiver") \/ SpacesAvailable < Required
        /\ pc["receiver"] = "fit" => SpacesAvailable < Required + LengthBytes

(* The receiver waits for bytes that the sender has still to write.        *)
ReceiverWaits ==
    Waiting("receiver") => \/ pc["sender"] = "level" \/ Notifying("sender")
                           \/ Sent < trigger \/ Sent <= Prefix

WakeInv == Registered /\ SenderWaits /\ ReceiverWaits

-----------------------------------------------------------------------------
(* What comes out of the bytes of a message buffer: where the message at   *)
(* an index ends, whether it is all there, and its bytes                   *)
After(u, i) == i + LengthBytes + u[i + 1]
Fits(u, i) == i + LengthBytes < Len(u) /\ After(u, i) \in i + 1 .. Len(u)
Body(u, i) == SubSeq(u, i + LengthBytes + 1, After(u, i))

-----------------------------------------------------------------------------
(* The refinement of FifoStream *)

(* The message that the receiver takes                                     *)
Hand == IF InMessage THEN <<Slice(tail, wanted)>> ELSE <<>>

-----------------------------------------------------------------------------
(* The ring *)

(* The bytes and the spaces fill the ring but for one cell.                *)
LEMMA RingCounts ==
    Typed => /\ BytesInBuffer \in 0 .. Length - 1
             /\ SpacesAvailable = Length - 1 - BytesInBuffer
             /\ head = Wrap(tail + BytesInBuffer)
BY StreamBufferAssumption DEF Typed, TypeOK, BytesInBuffer, SpacesAvailable, Wrap

(* Elements and pieces of a sequence                                       *)
LEMMA Elements == ASSUME NEW s \in Seq(Nat) PROVE \A i \in 1 .. Len(s) : s[i] \in Nat
OBVIOUS

LEMMA Cut ==
    ASSUME NEW S, NEW s \in Seq(S), NEW m \in 1 .. Len(s) + 1, NEW n \in m - 1 .. Len(s)
    PROVE  /\ SubSeq(s, m, n) \in Seq(S) /\ Len(SubSeq(s, m, n)) = n - m + 1
           /\ \A i \in 1 .. n - m + 1 : SubSeq(s, m, n)[i] = s[m + i - 1]
<1>1. m \in Int /\ n \in Int /\ \A i \in m .. n : s[i] \in S
  OBVIOUS
<1>2. IF m <= n THEN n - m + 1 = n - m + 1 ELSE n - m + 1 = 0
  OBVIOUS
<1>3. QED
  BY <1>1, <1>2, SubSeqProperties

(* Pieces of what is sent *)
LEMMA PayloadSlice ==
    ASSUME NEW p \in Payloads, NEW n \in 1 .. Len(p)
    PROVE  /\ p \in Seq(Nat) /\ Len(p) \in Nat \ {0}
           /\ SubSeq(p, 1, n) \in Seq(Nat) /\ Len(SubSeq(p, 1, n)) = n
           /\ \A i \in 1 .. n : SubSeq(p, 1, n)[i] = p[i]
<1>1. p \in Seq(Nat) /\ p # <<>>
  BY StreamBufferAssumption
<1>2. \A i \in 1 .. n : p[i] \in Nat
  BY <1>1
<1>3. QED
  BY <1>1, <1>2, SubSeqProperties

LEMMA HeaderTyped ==
    ASSUME NEW n \in Nat
    PROVE  Header(n) \in Seq(Nat) /\ Len(Header(n)) = LengthBytes /\ Header(n)[1] = n
<1>1. LengthBytes \in Nat \ {0}
  BY StreamBufferAssumption
<1>2. Header(n) \in [1 .. LengthBytes -> Nat]
  BY <1>1 DEF Header
<1>3. Header(n) \in Seq(Nat)
  BY <1>1, <1>2
<1>4. QED
  BY <1>1, <1>3 DEF Header

LEMMA SliceTyped ==
    ASSUME Typed, NEW f \in 0 .. Length - 1, NEW n \in 0 .. Length
    PROVE  /\ Slice(f, n) \in Seq(Nat) /\ Len(Slice(f, n)) = n
           /\ \A i \in 1 .. n : Slice(f, n)[i] = cells[Wrap(f + i - 1)]
<1>1. \A i \in 1 .. n : cells[Wrap(f + i - 1)] \in Nat
  BY StreamBufferAssumption DEF Typed, Wrap
<1>2. Slice(f, n) \in [1 .. n -> Nat]
  BY <1>1 DEF Slice
<1>3. DOMAIN Slice(f, n) = 1 .. n
  BY DEF Slice
<1>4. Slice(f, n) \in Seq(Nat)
  BY <1>2
<1>5. Len(Slice(f, n)) = n
  BY <1>3, <1>4
<1>6. QED
  BY <1>4, <1>5 DEF Slice

(* What the sender writes next *)
LEMMA PieceTyped ==
    ASSUME Typed, Carrying, pc["sender"] \in {"copy", "advance"}
    PROVE  /\ todo # <<>> /\ Head(todo) \in Seq(Nat) /\ Len(Head(todo)) \in 1 .. Length - 1
           /\ Tail(todo) \in Seq(Seq(Nat)) /\ Len(todo) \in {1, 2}
           /\ Len(todo) = 2 => kind = "message"
<1>1. CASE kind = "stream"
  <2>1. PICK p \in Payloads, n \in 1 .. Length - 1 :
          n <= Len(p) /\ todo = <<SubSeq(p, 1, n)>>
    BY <1>1 DEF Carrying
  <2>2. SubSeq(p, 1, n) \in Seq(Nat) /\ Len(SubSeq(p, 1, n)) = n
    BY <2>1, PayloadSlice
  <2>3. todo = <<SubSeq(p, 1, n)>>
    BY <2>1
  <2> HIDE <2>1
  <2>4. QED
    BY <2>2, <2>3 DEF Typed
<1>2. CASE kind = "message"
  <2>1. PICK p \in Payloads : /\ Len(p) + LengthBytes < Length
                              /\ (todo = <<Header(Len(p)), p>> \/ todo = <<p>>)
    BY <1>2 DEF Carrying
  <2>2. p \in Seq(Nat) /\ p # <<>> /\ LengthBytes \in Nat \ {0} /\ Length \in Nat
    BY StreamBufferAssumption
  <2>3. Len(p) \in Nat \ {0}
    BY <2>2
  <2>4. Header(Len(p)) \in Seq(Nat) /\ Len(Header(Len(p))) = LengthBytes
    BY <2>3, HeaderTyped
  <2>5. CASE todo = <<Header(Len(p)), p>>
    BY <1>2, <2>1, <2>2, <2>3, <2>4, <2>5
  <2>6. CASE todo = <<p>>
    BY <1>2, <2>1, <2>2, <2>3, <2>6
  <2>7. QED
    BY <2>1, <2>5, <2>6
<1>3. QED
  BY <1>1, <1>2 DEF Carrying

LEMMA PairTyped ==
    ASSUME NEW a \in Seq(Nat), NEW b \in Seq(Nat)
    PROVE  <<a, b>> \in Seq(Seq(Nat))
OBVIOUS

LEMMA WrapTyped ==
    ASSUME NEW i \in 0 .. Length - 1, NEW n \in 0 .. Length
    PROVE  Wrap(i + n) \in 0 .. Length - 1
BY StreamBufferAssumption DEF Wrap
(* The types are kept.                                                     *)
LEMMA TypeStep == Typed /\ Carrying /\ Places /\ [Next]_vars => Typed'
<1> SUFFICES ASSUME Typed /\ Carrying /\ Places, [Next]_vars PROVE Typed'
  OBVIOUS
<1> USE StreamBufferAssumption DEF At, Goto, Return, Forgets, Register,
  Other, Ends, ring, sync, sending, receiving
<1>1. CASE Send
  <2>1. /\ pc' \in [Ends -> Labels]
        /\ pc'["sender"] \in SenderLabels /\ pc'["receiver"] \in ReceiverLabels
    BY <1>1 DEF Send, Typed, TypeOK, SenderLabels, ReceiverLabels, Labels
  <2>2. data' \in Payloads
    BY <1>1 DEF Send
  <2>3. ticks' \in [Ends -> WaitKinds]
    <3>1. CASE ticks' = ticks
      BY <3>1 DEF Typed, TypeOK
    <3>2. ASSUME NEW w \in Waits, ticks' = [ticks EXCEPT !["sender"] = w]
          PROVE  ticks' \in [Ends -> WaitKinds]
      BY <3>2, StreamBufferAssumption DEF Typed, TypeOK
    <3>3. QED
      BY <1>1, <3>1, <3>2 DEF Send
  <2>q. QED
    BY <1>1, <2>1, <2>2, <2>3 DEF Send, Typed, TypeOK
<1>2. CASE Receive
  <2>1. /\ pc' \in [Ends -> Labels]
        /\ pc'["sender"] \in SenderLabels /\ pc'["receiver"] \in ReceiverLabels
    BY <1>2 DEF Receive, Typed, TypeOK, SenderLabels, ReceiverLabels, Labels
  <2>2. size' \in Nat
    BY <1>2 DEF Receive
  <2>3. ticks' \in [Ends -> WaitKinds]
    <3>1. CASE ticks' = ticks
      BY <3>1 DEF Typed, TypeOK
    <3>2. ASSUME NEW w \in Waits, ticks' = [ticks EXCEPT !["receiver"] = w]
          PROVE  ticks' \in [Ends -> WaitKinds]
      BY <3>2, StreamBufferAssumption DEF Typed, TypeOK
    <3>3. QED
      BY <1>2, <3>1, <3>2 DEF Receive
  <2>q. QED
    BY <1>2, <2>1, <2>2, <2>3 DEF Receive, Typed, TypeOK
<1>3. CASE CheckSpace
  <2>1. /\ pc' \in [Ends -> Labels]
        /\ pc'["sender"] \in SenderLabels /\ pc'["receiver"] \in ReceiverLabels
    BY <1>3 DEF CheckSpace, Typed, TypeOK, SenderLabels, ReceiverLabels, Labels
  <2>2. space' \in 0 .. Length - 1
    BY <1>3, RingCounts DEF CheckSpace
  <2>3. registered' \in [Ends -> BOOLEAN]
    <3>1. CASE registered' = registered
      BY <3>1 DEF Typed, TypeOK
    <3>2. CASE registered' = [registered EXCEPT !["sender"] = TRUE]
      BY <3>2 DEF Typed, TypeOK
    <3>3. QED
      BY <1>3, <3>1, <3>2 DEF CheckSpace
  <2>4. note' \in [Ends -> {"none", "waiting", "received"}]
    <3>1. CASE note' = note
      BY <3>1 DEF Typed, TypeOK
    <3>2. CASE note' = [note EXCEPT !["sender"] = IF @ = "received" THEN "none" ELSE @]
      BY <3>2 DEF Typed, TypeOK
    <3>3. QED
      BY <1>3, <3>1, <3>2 DEF CheckSpace
  <2>q. QED
    BY <1>3, <2>1, <2>2, <2>3, <2>4 DEF CheckSpace, Typed, TypeOK
<1>4. CASE TimeOut
  BY <1>4 DEF TimeOut, Typed, TypeOK, SenderLabels, ReceiverLabels, Labels,
    WaitKinds
<1>5. CASE LastSpace
  <2>1. /\ pc' \in [Ends -> Labels]
        /\ pc'["sender"] \in SenderLabels /\ pc'["receiver"] \in ReceiverLabels
    BY <1>5 DEF LastSpace, Typed, TypeOK, SenderLabels, ReceiverLabels, Labels
  <2>2. space' \in 0 .. Length - 1
    <3>1. space \in 0 .. Length - 1 /\ Length \in Nat
      BY StreamBufferAssumption DEF Typed, TypeOK
    <3>2. SpacesAvailable \in 0 .. Length - 1
      BY <3>1, RingCounts
    <3>3. space' = SpacesAvailable \/ space' = space
      BY <1>5 DEF LastSpace
    <3>4. QED
      BY <3>1, <3>2, <3>3
  <2>q. QED
    BY <1>5, <2>1, <2>2 DEF LastSpace, Typed, TypeOK
<1>6. CASE Write
  <2>1. /\ pc' \in [Ends -> Labels]
        /\ pc'["sender"] \in SenderLabels /\ pc'["receiver"] \in ReceiverLabels
    BY <1>6 DEF Write, Typed, TypeOK, SenderLabels, ReceiverLabels, Labels
  <2>2. ticks' \in [Ends -> WaitKinds] /\ late' \in [Ends -> BOOLEAN]
    BY <1>6 DEF Write, Typed, TypeOK, WaitKinds
  <2>3. data \in Seq(Nat) /\ Len(data) \in Nat \ {0} /\ space \in 0 .. Length - 1 /\ data \in Payloads
    <3>1. data \in Payloads
      BY <1>6 DEF Write, Carrying
    <3>2. data \in Seq(Nat) /\ data # <<>>
      BY <3>1
    <3>3. QED
      BY <3>1, <3>2 DEF Typed, TypeOK
  <2>4. todo' \in Seq(Seq(Nat))
    <3>1. CASE space > 0 /\ kind = "stream"
      <4>1. Least(Len(data), space) \in 1 .. Len(data)
        BY <2>3, <3>1 DEF Least
      <4>2. SubSeq(data, 1, Least(Len(data), space)) \in Seq(Nat)
        BY <2>3, <4>1, PayloadSlice
      <4>3. todo' = <<SubSeq(data, 1, Least(Len(data), space))>>
        BY <1>6, <3>1 DEF Write
      <4> HIDE DEF Least
      <4>4. QED
        BY <4>2, <4>3
    <3>2. CASE kind = "message"
      <4>1. Header(Len(data)) \in Seq(Nat)
        BY <2>3, HeaderTyped
      <4>2. todo' = <<Header(Len(data)), data>> \/ todo' = <<>>
        BY <1>6, <3>2 DEF Write
      <4>3. <<Header(Len(data)), data>> \in Seq(Seq(Nat))
        BY <2>3, <4>1, PairTyped
      <4>4. CASE todo' = <<>>
        BY <4>4
      <4>5. QED
        BY <4>2, <4>3, <4>4
    <3>3. CASE ~(space > 0)
      BY <1>6, <3>3 DEF Write
    <3>4. kind \in {"stream", "message"}
      BY DEF Typed, TypeOK
    <3>5. QED
      BY <3>1, <3>2, <3>3, <3>4
  <2>5. space' = 0 /\ data' = <<>>
    BY <1>6 DEF Write
  <2>6. UNCHANGED <<ring, registered, note, blocked, receiving, box, clobbered>>
    BY <1>6 DEF Write
  <2>7. space' \in 0 .. Length - 1 /\ data' \in Seq(Nat)
    BY <2>5, StreamBufferAssumption
  <2>q. QED
    BY <2>1, <2>2, <2>4, <2>6, <2>7 DEF Typed, TypeOK
<1>7. CASE Copy
  <2>1. /\ pc' \in [Ends -> Labels]
        /\ pc'["sender"] \in SenderLabels /\ pc'["receiver"] \in ReceiverLabels
    BY <1>7 DEF Copy, Typed, TypeOK, SenderLabels, ReceiverLabels, Labels
  <2>2. todo # <<>> /\ Head(todo) \in Seq(Nat) /\ Len(Head(todo)) \in 1 .. Length - 1
    BY <1>7, PieceTyped DEF Copy
  <2>3. cells' \in [0 .. Length - 1 -> Nat] /\ clobbered' \in BOOLEAN
    <3> DEFINE piece == Head(todo)
               target == {Wrap(head + i - 1) : i \in 1 .. Len(piece)}
               from(i) == CHOOSE k \in 1 .. Len(piece) : Wrap(head + k - 1) = i
    <3>1. cells' = [i \in DOMAIN cells |-> IF i \in target THEN piece[from(i)] ELSE cells[i]]
      BY <1>7 DEF Copy
    <3>2. \A i \in target : from(i) \in 1 .. Len(piece)
      OBVIOUS
    <3>3. \A i \in target : piece[from(i)] \in Nat
      <4>1. \A k \in 1 .. Len(piece) : piece[k] \in Nat
        BY <2>2, Elements
      <4> HIDE DEF target, from, piece
      <4>2. QED
        BY <3>2, <4>1
    <3>4. clobbered' \in BOOLEAN
      BY <1>7, RingCounts DEF Copy, Typed, TypeOK
    <3> HIDE DEF target, from, piece
    <3>5. QED
      BY <3>1, <3>3, <3>4 DEF Typed
  <2>q. QED
    BY <1>7, <2>1, <2>3 DEF Copy, Typed, TypeOK
<1>8. CASE Advance
  <2>1. /\ pc' \in [Ends -> Labels]
        /\ pc'["sender"] \in SenderLabels /\ pc'["receiver"] \in ReceiverLabels
    BY <1>8 DEF Advance, Typed, TypeOK, SenderLabels, ReceiverLabels, Labels
  <2>2. todo' \in Seq(Seq(Nat))
    BY <1>8, PieceTyped DEF Advance
  <2>3. Len(Head(todo)) \in 1 .. Length - 1
    BY <1>8, PieceTyped DEF Advance
  <2>4. head' \in 0 .. Length - 1
    BY <1>8, <2>3, WrapTyped DEF Advance, Typed, TypeOK
  <2>q. QED
    BY <1>8, <2>1, <2>2, <2>4 DEF Advance, Typed, TypeOK
<1>9. CASE Level
  BY <1>9 DEF Level, Typed, TypeOK, SenderLabels, ReceiverLabels, Labels,
    WaitKinds
<1>10. CASE CheckBytes
  <2>1. /\ pc' \in [Ends -> Labels]
        /\ pc'["sender"] \in SenderLabels /\ pc'["receiver"] \in ReceiverLabels
    BY <1>10 DEF CheckBytes, Typed, TypeOK, SenderLabels, ReceiverLabels, Labels
  <2>2. avail' \in 0 .. Length - 1
    BY <1>10, RingCounts DEF CheckBytes
  <2>3. registered' \in [Ends -> BOOLEAN]
    <3>1. CASE registered' = registered
      BY <3>1 DEF Typed, TypeOK
    <3>2. CASE registered' = [registered EXCEPT !["receiver"] = TRUE]
      BY <3>2 DEF Typed, TypeOK
    <3>3. QED
      BY <1>10, <3>1, <3>2 DEF CheckBytes
  <2>4. note' \in [Ends -> {"none", "waiting", "received"}]
    <3>1. CASE note' = note
      BY <3>1 DEF Typed, TypeOK
    <3>2. CASE note' = [note EXCEPT !["receiver"] = IF @ = "received" THEN "none" ELSE @]
      BY <3>2 DEF Typed, TypeOK
    <3>3. QED
      BY <1>10, <3>1, <3>2 DEF CheckBytes
  <2>q. QED
    BY <1>10, <2>1, <2>2, <2>3, <2>4 DEF CheckBytes, Typed, TypeOK
<1>11. CASE Recheck
  <2>1. /\ pc' \in [Ends -> Labels]
        /\ pc'["sender"] \in SenderLabels /\ pc'["receiver"] \in ReceiverLabels
    BY <1>11 DEF Recheck, Typed, TypeOK, SenderLabels, ReceiverLabels, Labels
  <2>2. avail' \in 0 .. Length - 1
    BY <1>11, RingCounts DEF Recheck
  <2>q. QED
    BY <1>11, <2>1, <2>2 DEF Recheck, Typed, TypeOK
<1>12. CASE Read
  <2>1. kind \in {"stream", "message"}
    BY DEF Typed, TypeOK
  <2>0. avail \in Nat /\ Prefix \in Nat
    BY <2>1 DEF Typed, TypeOK, Prefix
  <2>2. avail <= Prefix \/ avail > Prefix
    BY <2>1 DEF Typed, TypeOK, Prefix
  <2>3. pc' \in [Ends -> Labels]
        /\ pc'["sender"] \in SenderLabels /\ pc'["receiver"] \in ReceiverLabels
    <3>1. pc' \in {[pc EXCEPT !["receiver"] = l] : l \in {"idle", "copyout", "header"}}
      BY <1>12, <2>1, <2>2 DEF Read
    <3>2. QED
      BY <3>1 DEF Typed, TypeOK, SenderLabels, ReceiverLabels, Labels
  <2>4. ticks' \in [Ends -> WaitKinds] /\ late' \in [Ends -> BOOLEAN]
    BY <1>12 DEF Read, Typed, TypeOK, WaitKinds
  <2>5. wanted' \in Nat /\ avail' \in 0 .. Length - 1 /\ size' \in Nat /\ oldTail' \in 0 .. Length - 1
    <3>1. CASE avail <= Prefix
      <4>1. size' = 0 /\ avail' = 0 /\ UNCHANGED <<oldTail, wanted>>
        BY <1>12, <2>0, <3>1 DEF Read
      <4>2. QED
        BY <4>1 DEF Typed, TypeOK
    <3>2. CASE avail > Prefix /\ kind = "stream"
      <4>1. wanted' = Least(avail, size) /\ size' = 0 /\ avail' = 0 /\ oldTail' = oldTail
        BY <1>12, <2>0, <3>2 DEF Read
      <4>2. QED
        BY <4>1 DEF Typed, TypeOK, Least
    <3>3. CASE avail > Prefix /\ kind = "message"
      <4>1. oldTail' = tail /\ UNCHANGED <<size, avail, wanted>>
        BY <1>12, <2>0, <3>3 DEF Read
      <4>2. QED
        BY <4>1 DEF Typed, TypeOK
    <3>4. QED
      BY <2>1, <2>2, <3>1, <3>2, <3>3
  <2>q. QED
    BY <1>12, <2>3, <2>4, <2>5 DEF Read, Typed, TypeOK
<1>13. CASE ReadLength
  BY <1>13 DEF ReadLength, Typed, TypeOK, SenderLabels, ReceiverLabels,
    Labels, WaitKinds
<1>14. CASE PassHeader
  <2>1. /\ pc' \in [Ends -> Labels]
        /\ pc'["sender"] \in SenderLabels /\ pc'["receiver"] \in ReceiverLabels
    BY <1>14 DEF PassHeader, Typed, TypeOK, SenderLabels, ReceiverLabels, Labels
  <2>2. tail' \in 0 .. Length - 1 /\ avail' \in 0 .. Length - 1
    BY <1>14 DEF PassHeader, Typed, TypeOK, Wrap, Places
  <2>q. QED
    BY <1>14, <2>1, <2>2 DEF PassHeader, Typed, TypeOK
<1>15. CASE Fit
  <2>1. /\ pc' \in [Ends -> Labels]
        /\ pc'["sender"] \in SenderLabels /\ pc'["receiver"] \in ReceiverLabels
    BY <1>15 DEF Fit, Typed, TypeOK, SenderLabels, ReceiverLabels, Labels
  <2>2. tail' \in 0 .. Length - 1 /\ wanted' \in Nat /\ avail' = 0 /\ size' = 0 /\ oldTail' = 0
    BY <1>15 DEF Fit, Typed, TypeOK, Least
  <2>3. clobbered' \in BOOLEAN
    BY <1>15 DEF Fit, Typed, TypeOK
  <2>q. QED
    BY <1>15, <2>1, <2>2, <2>3 DEF Fit, Typed, TypeOK
<1>16. CASE CopyOut
  <2>1. /\ pc' \in [Ends -> Labels]
        /\ pc'["sender"] \in SenderLabels /\ pc'["receiver"] \in ReceiverLabels
    BY <1>16 DEF CopyOut, Typed, TypeOK, SenderLabels, ReceiverLabels, Labels
  <2>2. wanted \in 0 .. Length - 1
    BY <1>16 DEF CopyOut, Places, Typed
  <2>3. copied' \in Seq(Nat)
    BY <1>16, <2>2, SliceTyped DEF CopyOut, Typed, TypeOK
  <2>q. QED
    BY <1>16, <2>1, <2>3 DEF CopyOut, Typed, TypeOK
<1>17. CASE PassData
  <2>1. /\ pc' \in [Ends -> Labels]
        /\ pc'["sender"] \in SenderLabels /\ pc'["receiver"] \in ReceiverLabels
    BY <1>17 DEF PassData, Typed, TypeOK, SenderLabels, ReceiverLabels, Labels
  <2>2. tail' \in 0 .. Length - 1
    BY <1>17 DEF PassData, Typed, TypeOK, Wrap, Places
  <2>q. QED
    BY <1>17, <2>1, <2>2 DEF PassData, Typed, TypeOK
<1>18. CASE SetTriggerLevel
  BY <1>18 DEF SetTriggerLevel, Typed, TypeOK, SenderLabels, ReceiverLabels,
    Labels, WaitKinds
<1>19. CASE Reset
  BY <1>19 DEF Reset, Typed, TypeOK, SenderLabels, ReceiverLabels, Labels,
    WaitKinds
<1>20. ASSUME NEW e \in Ends, Wait(e) PROVE Typed'
  <2>1. /\ pc' \in [Ends -> Labels]
        /\ pc'["sender"] \in SenderLabels /\ pc'["receiver"] \in ReceiverLabels
    BY <1>20 DEF Wait, Typed, TypeOK, SenderLabels, ReceiverLabels, Labels
  <2>2. blocked' \in [Ends -> BOOLEAN]
    <3>1. blocked' \in {blocked, [blocked EXCEPT ![e] = TRUE]}
      BY <1>20 DEF Wait
    <3>2. blocked \in [Ends -> BOOLEAN]
      BY DEF Typed, TypeOK
    <3>3. QED
      BY <1>20, <3>1, <3>2
  <2>3. note' \in [Ends -> {"none", "waiting", "received"}]
    BY <1>20 DEF Wait, Typed, TypeOK
  <2>q. QED
    BY <1>20, <2>1, <2>2, <2>3 DEF Wait, Typed, TypeOK
<1>21. ASSUME NEW e \in Ends, Woken(e) PROVE Typed'
  BY <1>21 DEF Woken, Typed, TypeOK, SenderLabels, ReceiverLabels, Labels,
    WaitKinds
<1>22. ASSUME NEW e \in Ends, ForgetSelf(e) PROVE Typed'
  BY <1>22 DEF ForgetSelf, Typed, TypeOK, SenderLabels, ReceiverLabels,
    Labels, WaitKinds
<1>23. ASSUME NEW e \in Ends, Complete(e) PROVE Typed'
  <2>1. /\ pc' \in [Ends -> Labels]
        /\ pc'["sender"] \in SenderLabels /\ pc'["receiver"] \in ReceiverLabels
    BY <1>23 DEF Complete, Typed, TypeOK, SenderLabels, ReceiverLabels, Labels
  <2>2. box' \in Seq(Nat)
    <3>1. CASE box' = box
      BY <3>1 DEF Typed
    <3>2. CASE box' = <<>>
      BY <3>2
    <3>3. QED
      BY <1>23, <3>1, <3>2 DEF Complete
  <2>q. QED
    BY <1>23, <2>1, <2>2 DEF Complete, Typed, TypeOK
<1>24. ASSUME NEW e \in Ends, Notify(e) PROVE Typed'
  <2>1. /\ pc' \in [Ends -> Labels]
        /\ pc'["sender"] \in SenderLabels /\ pc'["receiver"] \in ReceiverLabels
    BY <1>24 DEF Notify, Typed, TypeOK, SenderLabels, ReceiverLabels, Labels
  <2>2. blocked' \in [Ends -> BOOLEAN]
    <3>1. blocked' \in {blocked, [blocked EXCEPT ![Other(e)] = FALSE]}
      BY <1>24 DEF Notify
    <3>2. blocked \in [Ends -> BOOLEAN]
      BY DEF Typed, TypeOK
    <3>3. QED
      BY <1>24, <3>1, <3>2
  <2>3. note' \in [Ends -> {"none", "waiting", "received"}]
    BY <1>24 DEF Notify, Typed, TypeOK
  <2>q. QED
    BY <1>24, <2>1, <2>2, <2>3 DEF Notify, Typed, TypeOK
<1>25. ASSUME NEW e \in Ends, Forget(e) PROVE Typed'
  BY <1>25 DEF Forget, Typed, TypeOK, SenderLabels, ReceiverLabels, Labels,
    WaitKinds
<1>26. ASSUME NEW e \in Ends, Expire(e) PROVE Typed'
  BY <1>26 DEF Expire, Typed, TypeOK, SenderLabels, ReceiverLabels, Labels,
    WaitKinds
<1>27. CASE UNCHANGED vars
  BY <1>27 DEF vars, Typed, TypeOK, SenderLabels, ReceiverLabels, Labels,
    WaitKinds
<1>28. QED
  BY <1>1, <1>2, <1>3, <1>4, <1>5, <1>6, <1>7, <1>8, <1>9, <1>10, <1>11,
    <1>12, <1>13, <1>14, <1>15, <1>16, <1>17, <1>18, <1>19, <1>20, <1>21,
    <1>22, <1>23, <1>24, <1>25, <1>26, <1>27
    DEF Next, Sender, Receiver, Common

LEMMA CarryingFrame ==
    ASSUME Carrying, kind' = kind, data' = data, todo' = todo, pc'["sender"] = pc["sender"]
    PROVE  Carrying'
BY DEF Carrying

(* What is in hand is kept.                                                *)
LEMMA CarryingStep == Typed /\ Typed' /\ Carrying /\ Places /\ [Next]_vars => Carrying'
<1> SUFFICES ASSUME Typed /\ Typed' /\ Carrying /\ Places, [Next]_vars PROVE Carrying'
  OBVIOUS
<1> USE StreamBufferAssumption DEF At, Goto, Return, Forgets, Register,
  Other, Ends, ring, sync, sending, receiving
<1>1. CASE Send
  BY <1>1 DEF Send, Carrying, Typed, TypeOK
<1>2. CASE Receive
  <2>1. /\ kind' = kind /\ data' = data /\ todo' = todo
        /\ pc'["sender"] = pc["sender"]
    BY <1>2 DEF Receive, Typed, TypeOK
  <2>2. QED
    BY <2>1, CarryingFrame
<1>3. CASE CheckSpace
  BY <1>3 DEF CheckSpace, Carrying, Typed, TypeOK
<1>4. CASE TimeOut
  BY <1>4 DEF TimeOut, Carrying, Typed, TypeOK
<1>5. CASE LastSpace
  BY <1>5 DEF LastSpace, Carrying, Typed, TypeOK
<1>6. CASE Write
  <2>1. data \in Payloads
    BY <1>6 DEF Write, Carrying
  <2>2. data \in Seq(Nat) /\ Len(data) \in Nat \ {0} /\ space \in 0 .. Length - 1
    <3>1. data \in Seq(Nat) /\ data # <<>>
      BY <2>1
    <3>2. QED
      BY <3>1 DEF Typed, TypeOK
  <2>3. pc'["sender"] \in {"copy", "idle"} /\ kind' = kind
    BY <1>6 DEF Write, Typed, TypeOK
  <2>4. ASSUME pc'["sender"] = "copy", kind = "stream"
        PROVE  \E p \in Payloads : \E n \in 1 .. Length - 1 :
                 n <= Len(p) /\ todo' = <<SubSeq(p, 1, n)>>
    <3> DEFINE n == Least(Len(data), space)
    <3>1. space > 0 /\ todo' = <<SubSeq(data, 1, n)>>
      BY <1>6, <2>4 DEF Write, Typed, TypeOK
    <3>2. n \in 1 .. Length - 1 /\ n <= Len(data)
      BY <2>2, <3>1 DEF Least
    <3> HIDE DEF n
    <3>3. QED
      BY <2>1, <3>1, <3>2
  <2>5. ASSUME pc'["sender"] = "copy", kind = "message"
        PROVE  \E p \in Payloads : /\ Len(p) + LengthBytes < Length
                                    /\ (todo' = <<Header(Len(p)), p>> \/ todo' = <<p>>)
    <3>1. space >= Required /\ todo' = <<Header(Len(data)), data>>
      BY <1>6, <2>5 DEF Write, Typed, TypeOK
    <3>2. Len(data) + LengthBytes < Length
      BY <2>2, <2>5, <3>1 DEF Required, Prefix
    <3>3. QED
      BY <2>1, <3>1, <3>2
  <2>6. kind \in {"stream", "message"}
    BY DEF Typed, TypeOK
  <2>q. QED
    BY <2>3, <2>4, <2>5, <2>6 DEF Carrying
<1>7. CASE Copy
  BY <1>7 DEF Copy, Carrying, Typed, TypeOK
<1>8. CASE Advance
  <2>1. pc'["sender"] \in {"copy", "level"} /\ kind' = kind /\ todo' = Tail(todo)
        /\ (pc'["sender"] = "copy" => Len(todo) > 1)
    BY <1>8 DEF Advance, Typed, TypeOK
  <2>2. pc["sender"] = "advance"
    BY <1>8 DEF Advance
  <2>0. Len(todo) \in {1, 2} /\ (Len(todo) = 2 => kind = "message")
    BY <2>2, PieceTyped
  <2>3. ASSUME Len(todo) = 2
        PROVE  \E p \in Payloads : /\ Len(p) + LengthBytes < Length
                                    /\ todo' = <<p>>
    <3>1. kind = "message"
      BY <2>0, <2>3
    <3>2. PICK p \in Payloads : /\ Len(p) + LengthBytes < Length
                                 /\ (todo = <<Header(Len(p)), p>> \/ todo = <<p>>)
      BY <2>2, <3>1 DEF Carrying
    <3>3. Len(<<p>>) # 2
      OBVIOUS
    <3>4. todo = <<Header(Len(p)), p>>
      BY <2>3, <3>2, <3>3
    <3>5. todo' = <<p>>
      BY <2>1, <3>4
    <3>6. QED
      BY <3>2, <3>5
  <2>4. pc'["sender"] = "copy" => Len(todo) = 2
    BY <2>0, <2>1
  <2>5. CASE pc'["sender"] = "level"
    BY <2>5 DEF Carrying
  <2>6. CASE pc'["sender"] = "copy"
    <3>1. kind' = "message"
      BY <2>0, <2>1, <2>4, <2>6
    <3>2. \E p \in Payloads : Len(p) + LengthBytes < Length /\ todo' = <<p>>
      BY <2>3, <2>4, <2>6
    <3>3. QED
      BY <2>6, <3>1, <3>2 DEF Carrying
  <2>q. QED
    BY <2>1, <2>5, <2>6
<1>9. CASE Level
  BY <1>9 DEF Level, Carrying, Typed, TypeOK
<1>10. CASE CheckBytes
  <2>1. /\ kind' = kind /\ data' = data /\ todo' = todo
        /\ pc'["sender"] = pc["sender"]
    BY <1>10 DEF CheckBytes, Typed, TypeOK
  <2>2. QED
    BY <2>1, CarryingFrame
<1>11. CASE Recheck
  <2>1. /\ kind' = kind /\ data' = data /\ todo' = todo
        /\ pc'["sender"] = pc["sender"]
    BY <1>11 DEF Recheck, Typed, TypeOK
  <2>2. QED
    BY <2>1, CarryingFrame
<1>12. CASE Read
  <2>1. kind' = kind /\ data' = data /\ todo' = todo
    BY <1>12 DEF Read
  <2>2. \E l \in Labels : pc' = [pc EXCEPT !["receiver"] = l]
    BY <1>12 DEF Read, Labels
  <2>3. pc'["sender"] = pc["sender"]
    BY <2>2 DEF Typed, TypeOK
  <2>4. QED
    BY <2>1, <2>3, CarryingFrame
<1>13. CASE ReadLength
  <2>1. /\ kind' = kind /\ data' = data /\ todo' = todo
        /\ pc'["sender"] = pc["sender"]
    BY <1>13 DEF ReadLength, Typed, TypeOK
  <2>2. QED
    BY <2>1, CarryingFrame
<1>14. CASE PassHeader
  <2>1. /\ kind' = kind /\ data' = data /\ todo' = todo
        /\ pc'["sender"] = pc["sender"]
    BY <1>14 DEF PassHeader, Typed, TypeOK
  <2>2. QED
    BY <2>1, CarryingFrame
<1>15. CASE Fit
  <2>1. /\ kind' = kind /\ data' = data /\ todo' = todo
        /\ pc'["sender"] = pc["sender"]
    BY <1>15 DEF Fit, Typed, TypeOK
  <2>2. QED
    BY <2>1, CarryingFrame
<1>16. CASE CopyOut
  <2>1. /\ kind' = kind /\ data' = data /\ todo' = todo
        /\ pc'["sender"] = pc["sender"]
    BY <1>16 DEF CopyOut, Typed, TypeOK
  <2>2. QED
    BY <2>1, CarryingFrame
<1>17. CASE PassData
  <2>1. /\ kind' = kind /\ data' = data /\ todo' = todo
        /\ pc'["sender"] = pc["sender"]
    BY <1>17 DEF PassData, Typed, TypeOK
  <2>2. QED
    BY <2>1, CarryingFrame
<1>18. CASE SetTriggerLevel
  BY <1>18 DEF SetTriggerLevel, Carrying, Typed, TypeOK
<1>19. CASE Reset
  BY <1>19 DEF Reset, Carrying, Typed, TypeOK
<1>20. ASSUME NEW e \in Ends, Wait(e) PROVE Carrying'
  BY <1>20 DEF Wait, Carrying, Typed, TypeOK
<1>21. ASSUME NEW e \in Ends, Woken(e) PROVE Carrying'
  BY <1>21 DEF Woken, Carrying, Typed, TypeOK
<1>22. ASSUME NEW e \in Ends, ForgetSelf(e) PROVE Carrying'
  BY <1>22 DEF ForgetSelf, Carrying, Typed, TypeOK
<1>23. ASSUME NEW e \in Ends, Complete(e) PROVE Carrying'
  <2>1. kind' = kind /\ data' = data /\ todo' = todo
    BY <1>23 DEF Complete
  <2>2. pc'["sender"] \in {pc["sender"], "notify", "idle"}
    BY <1>23 DEF Complete, Typed, TypeOK
  <2>3. QED
    BY <2>1, <2>2, CarryingFrame DEF Carrying
<1>24. ASSUME NEW e \in Ends, Notify(e) PROVE Carrying'
  <2>1. kind' = kind /\ data' = data /\ todo' = todo
    BY <1>24 DEF Notify
  <2>2. pc'["sender"] \in {pc["sender"], "forget", "assert"}
    BY <1>24 DEF Notify, Typed, TypeOK
  <2>3. QED
    BY <2>1, <2>2, CarryingFrame DEF Carrying
<1>25. ASSUME NEW e \in Ends, Forget(e) PROVE Carrying'
  BY <1>25 DEF Forget, Carrying, Typed, TypeOK
<1>26. ASSUME NEW e \in Ends, Expire(e) PROVE Carrying'
  BY <1>26 DEF Expire, Carrying, Typed, TypeOK
<1>27. CASE UNCHANGED vars
  BY <1>27 DEF vars, Carrying, Typed, TypeOK
<1>28. QED
  BY <1>1, <1>2, <1>3, <1>4, <1>5, <1>6, <1>7, <1>8, <1>9, <1>10, <1>11,
    <1>12, <1>13, <1>14, <1>15, <1>16, <1>17, <1>18, <1>19, <1>20, <1>21,
    <1>22, <1>23, <1>24, <1>25, <1>26, <1>27
    DEF Next, Sender, Receiver, Common

(* How far the receiver is, is kept.                                       *)
LEMMA PlacesStep == Typed /\ Typed' /\ Carrying /\ Places /\ [Next]_vars => Places'
<1> SUFFICES ASSUME Typed /\ Typed' /\ Carrying /\ Places, [Next]_vars PROVE Places'
  OBVIOUS
<1> USE StreamBufferAssumption DEF At, Goto, Return, Forgets, Register,
  Other, Ends, ring, sync, sending, receiving
<1>1. CASE Send
  BY <1>1 DEF Send, Places, Typed, TypeOK
<1>2. CASE Receive
  BY <1>2 DEF Receive, Places, Typed, TypeOK
<1>3. CASE CheckSpace
  BY <1>3 DEF CheckSpace, Places, Typed, TypeOK
<1>4. CASE TimeOut
  BY <1>4 DEF TimeOut, Places, Typed, TypeOK
<1>5. CASE LastSpace
  BY <1>5 DEF LastSpace, Places, Typed, TypeOK
<1>6. CASE Write
  <2>1. UNCHANGED <<kind, tail, avail, oldTail, wanted>>
    BY <1>6 DEF Write
  <2>2. \E l \in {"copy", "idle"} : pc' = [pc EXCEPT !["sender"] = l]
    BY <1>6 DEF Write
  <2>3. pc'["receiver"] = pc["receiver"]
    BY <2>2 DEF Typed, TypeOK
  <2>4. QED
    BY <2>1, <2>3 DEF Places
<1>7. CASE Copy
  BY <1>7 DEF Copy, Places, Typed, TypeOK
<1>8. CASE Advance
  BY <1>8 DEF Advance, Places, Typed, TypeOK
<1>9. CASE Level
  BY <1>9 DEF Level, Places, Typed, TypeOK
<1>10. CASE CheckBytes
  BY <1>10 DEF CheckBytes, Places, Typed, TypeOK
<1>11. CASE Recheck
  BY <1>11 DEF Recheck, Places, Typed, TypeOK
<1>12. CASE Read
  <2>1. kind \in {"stream", "message"} /\ Length \in Nat
    BY StreamBufferAssumption DEF Typed, TypeOK
  <2>2. pc["receiver"] = "read" /\ kind' = kind /\ tail' = tail
    BY <1>12 DEF Read
  <2>3. CASE avail <= Prefix /\ pc' = [pc EXCEPT !["receiver"] = "idle"]
    BY <2>2, <2>3 DEF Places, Typed, TypeOK
  <2>4. CASE /\ pc' = [pc EXCEPT !["receiver"] = "copyout"]
             /\ wanted' = Least(avail, size)
    BY <2>1, <2>2, <2>4 DEF Places, Typed, TypeOK, Least
  <2>5. CASE /\ pc' = [pc EXCEPT !["receiver"] = "header"] /\ kind = "message"
             /\ oldTail' = tail /\ avail' = avail /\ avail > Prefix
    BY <2>2, <2>5 DEF Places, Typed, TypeOK, Prefix
  <2>q. QED
    BY <1>12, <2>3, <2>4, <2>5 DEF Read
<1>13. CASE ReadLength
  BY <1>13 DEF ReadLength, Places, Typed, TypeOK
<1>14. CASE PassHeader
  BY <1>14 DEF PassHeader, Places, Typed, TypeOK
<1>15. CASE Fit
  <2>1. kind' = kind /\ oldTail' = 0
    BY <1>15 DEF Fit
  <2>2. CASE pc' = [pc EXCEPT !["receiver"] = "idle"]
    <3>1. pc'["receiver"] = "idle"
      BY <2>2 DEF Typed, TypeOK
    <3>2. QED
      BY <3>1 DEF Places
  <2>3. CASE pc' = [pc EXCEPT !["receiver"] = "copyout"] /\ wanted' = Least(avail, wanted)
    <3>1. pc'["receiver"] = "copyout"
      BY <2>3 DEF Typed, TypeOK
    <3>2. wanted' < Length
      BY <2>3 DEF Typed, TypeOK, Least
    <3>3. QED
      BY <3>1, <3>2 DEF Places
  <2>4. QED
    BY <1>15, <2>2, <2>3 DEF Fit
<1>16. CASE CopyOut
  BY <1>16 DEF CopyOut, Places, Typed, TypeOK
<1>17. CASE PassData
  BY <1>17 DEF PassData, Places, Typed, TypeOK
<1>18. CASE SetTriggerLevel
  BY <1>18 DEF SetTriggerLevel, Places, Typed, TypeOK
<1>19. CASE Reset
  BY <1>19 DEF Reset, Places, Typed, TypeOK
<1>20. ASSUME NEW e \in Ends, Wait(e) PROVE Places'
  BY <1>20 DEF Wait, Places, Typed, TypeOK
<1>21. ASSUME NEW e \in Ends, Woken(e) PROVE Places'
  BY <1>21 DEF Woken, Places, Typed, TypeOK
<1>22. ASSUME NEW e \in Ends, ForgetSelf(e) PROVE Places'
  BY <1>22 DEF ForgetSelf, Places, Typed, TypeOK
<1>23. ASSUME NEW e \in Ends, Complete(e) PROVE Places'
  BY <1>23 DEF Complete, Places, Typed, TypeOK
<1>24. ASSUME NEW e \in Ends, Notify(e) PROVE Places'
  BY <1>24 DEF Notify, Places, Typed, TypeOK
<1>25. ASSUME NEW e \in Ends, Forget(e) PROVE Places'
  BY <1>25 DEF Forget, Places, Typed, TypeOK
<1>26. ASSUME NEW e \in Ends, Expire(e) PROVE Places'
  BY <1>26 DEF Expire, Places, Typed, TypeOK
<1>27. CASE UNCHANGED vars
  BY <1>27 DEF vars, Places, Typed, TypeOK
<1>28. QED
  BY <1>1, <1>2, <1>3, <1>4, <1>5, <1>6, <1>7, <1>8, <1>9, <1>10, <1>11,
    <1>12, <1>13, <1>14, <1>15, <1>16, <1>17, <1>18, <1>19, <1>20, <1>21,
    <1>22, <1>23, <1>24, <1>25, <1>26, <1>27
    DEF Next, Sender, Receiver, Common

-----------------------------------------------------------------------------
(* Whole messages *)

LEMMA FramedEmpty == ASSUME NEW w \in Seq(Nat), Len(w) = 0 PROVE Framed(w)
<1>1. /\ {0} \in SUBSET (0 .. Len(w)) /\ 0 \in {0} /\ Len(w) \in {0}
      /\ {0} \ {Len(w)} = {}
  OBVIOUS
<1>2. QED
  BY <1>1 DEF Framed

(* The first message can be taken away ... *)
LEMMA FramedFirst ==
    ASSUME NEW w \in Seq(Nat), Framed(w), Len(w) > 0
    PROVE  /\ w[1] \in Nat \ {0} /\ LengthBytes + w[1] <= Len(w)
           /\ \A v \in Seq(Nat) :
                /\ Len(v) = Len(w) - (LengthBytes + w[1])
                /\ \A i \in 1 .. Len(v) : v[i] = w[LengthBytes + w[1] + i]
                => Framed(v)
<1>0. LengthBytes \in Nat \ {0} /\ Len(w) \in Nat
  BY StreamBufferAssumption
<1>1. PICK B \in SUBSET (0 .. Len(w)) :
        /\ 0 \in B /\ Len(w) \in B
        /\ \A b \in B \ {Len(w)} : /\ b + LengthBytes < Len(w) /\ w[b + 1] >= 1
                                   /\ b + LengthBytes + w[b + 1] \in B
  BY DEF Framed
<1>2. w[1] \in Nat
  BY <1>0
<1>3. 0 \in B \ {Len(w)}
  BY <1>1
<1>4. w[1] >= 1 /\ LengthBytes + w[1] \in B
  BY <1>0, <1>1, <1>2, <1>3
<1>5. LengthBytes + w[1] <= Len(w)
  BY <1>0, <1>1, <1>4
<1>6. ASSUME NEW v \in Seq(Nat), Len(v) = Len(w) - (LengthBytes + w[1]),
             \A i \in 1 .. Len(v) : v[i] = w[LengthBytes + w[1] + i]
      PROVE  Framed(v)
  <2> DEFINE k == LengthBytes + w[1]
             C == {c \in 0 .. Len(v) : c + k \in B}
  <2>1. k \in Nat /\ Len(w) \in Nat /\ Len(v) \in Nat /\ Len(w) = Len(v) + k
    BY <1>0, <1>2, <1>6
  <2>2. k \in B /\ \A i \in 1 .. Len(v) : v[i] = w[k + i]
    BY <1>4, <1>6
  <2> HIDE DEF k
  <2>3. 0 \in C /\ Len(v) \in C
    BY <1>1, <2>1, <2>2
  <2>4. ASSUME NEW c \in C \ {Len(v)}
        PROVE  /\ c + LengthBytes < Len(v) /\ v[c + 1] >= 1
               /\ c + LengthBytes + v[c + 1] \in C
    <3>1. c \in 0 .. Len(v) - 1 /\ c + k \in B /\ c + k # Len(w)
      BY <2>1
    <3>2. /\ c + k + LengthBytes < Len(w) /\ w[c + k + 1] >= 1
          /\ c + k + LengthBytes + w[c + k + 1] \in B
      BY <1>1, <3>1
    <3>3. v[c + 1] = w[k + (c + 1)] /\ v[c + 1] \in Nat
      <4>1. c + 1 \in 1 .. Len(v)
        BY <2>1, <3>1
      <4>2. v[c + 1] \in Nat
        BY <4>1, Elements
      <4>3. QED
        BY <2>2, <4>1, <4>2
    <3>4. k + (c + 1) = c + k + 1
      BY <2>1, <3>1
    <3>5. PICK x \in Nat : x = v[c + 1] /\ x = w[c + k + 1]
      BY <3>3, <3>4
    <3>6. c + k + LengthBytes + x \in 0 .. Len(w)
      BY <1>1, <3>2, <3>5
    <3>7. c + k + LengthBytes + x = (c + LengthBytes + x) + k
      BY <1>0, <2>1, <3>1
    <3>8. c + LengthBytes + x \in 0 .. Len(v)
      BY <1>0, <2>1, <3>1, <3>6
    <3>9. c + LengthBytes + x \in C
      BY <3>2, <3>5, <3>7, <3>8
    <3>10. c + LengthBytes < Len(v) /\ x >= 1
      BY <1>0, <2>1, <3>1, <3>2, <3>5
    <3>11. QED
      BY <3>5, <3>9, <3>10
  <2>5. C \in SUBSET (0 .. Len(v))
    OBVIOUS
  <2> HIDE DEF C
  <2>6. QED
    BY <2>3, <2>4, <2>5 DEF Framed
<1>7. QED
  BY <1>2, <1>4, <1>5, <1>6

(* ... and put back, *)
LEMMA FramedPutBack ==
    ASSUME NEW w \in Seq(Nat), Framed(w), NEW n \in Nat \ {0}, NEW v \in Seq(Nat),
           Len(v) = Len(w) + LengthBytes + n, v[1] = n,
           \A i \in 1 .. Len(w) : v[LengthBytes + n + i] = w[i]
    PROVE  Framed(v)
<1>0. LengthBytes \in Nat \ {0} /\ Len(w) \in Nat /\ Len(v) \in Nat
  BY StreamBufferAssumption
<1>1. PICK B \in SUBSET (0 .. Len(w)) :
        /\ 0 \in B /\ Len(w) \in B
        /\ \A b \in B \ {Len(w)} : /\ b + LengthBytes < Len(w) /\ w[b + 1] >= 1
                                   /\ b + LengthBytes + w[b + 1] \in B
  BY DEF Framed
<1> DEFINE k == LengthBytes + n
           C == {0} \cup {c \in k .. Len(v) : c - k \in B}
<1>2. k \in Nat /\ Len(v) = Len(w) + k
  BY <1>0
<1>3. 0 \in C /\ Len(v) \in C /\ C \in SUBSET (0 .. Len(v))
  BY <1>0, <1>1, <1>2
<1>4. ASSUME NEW c \in C \ {Len(v)}
      PROVE  /\ c + LengthBytes < Len(v) /\ v[c + 1] >= 1
             /\ c + LengthBytes + v[c + 1] \in C
  <2>1. CASE c = 0
    <3>1. k \in C
      BY <1>0, <1>1, <1>2
    <3>2. QED
      BY <1>0, <1>2, <2>1, <3>1
  <2>2. CASE c # 0
    <3>1. PICK b \in B : b \in 0 .. Len(w) - 1 /\ c = b + k
      <4>1. c \in k .. Len(v) /\ c - k \in B /\ c # Len(v)
        BY <2>2
      <4> HIDE DEF k, C
      <4>2. c \in Nat /\ c # Len(w) + k /\ c = (c - k) + k
        BY <1>2, <4>1
      <4>3. c - k \in 0 .. Len(w) - 1
        <5>1. \A a, d, g, h \in Nat : a >= d /\ a <= h /\ a # g + d /\ h = g + d => a - d \in 0 .. g - 1
          OBVIOUS
        <5>2. c \in Nat /\ k \in Nat /\ Len(w) \in Nat /\ Len(v) \in Nat /\ Len(v) = Len(w) + k
          BY <1>0, <1>2, <4>2
        <5>3. c >= k /\ c <= Len(v)
          BY <4>1
        <5>4. QED
          BY <4>2, <5>1, <5>2, <5>3
      <4>4. QED
        BY <4>1, <4>2, <4>3
    <3>2. /\ b + LengthBytes < Len(w) /\ w[b + 1] >= 1
          /\ b + LengthBytes + w[b + 1] \in B
      BY <1>0, <1>1, <3>1
    <3>3. v[k + (b + 1)] = w[b + 1] /\ w[b + 1] \in Nat
      <4>1. b + 1 \in 1 .. Len(w)
        BY <1>0, <3>1
      <4>2. w[b + 1] \in Nat
        BY <4>1, Elements
      <4>3. v[LengthBytes + n + (b + 1)] = w[b + 1]
        BY <4>1
      <4>4. QED
        BY <4>2, <4>3
    <3>4. k + (b + 1) = c + 1
      BY <1>2, <3>1
    <3>5. PICK x \in Nat : x = v[c + 1] /\ x = w[b + 1]
      BY <3>3, <3>4
    <3> HIDE DEF k
    <3>6. b + LengthBytes + x \in 0 .. Len(w)
      BY <1>1, <3>2, <3>5
    <3>7. c + LengthBytes + x \in k .. Len(v) /\ (c + LengthBytes + x) - k = b + LengthBytes + x
      BY <1>0, <1>2, <3>1, <3>6
    <3>8. c + LengthBytes + x \in C
      BY <3>2, <3>5, <3>7
    <3>9. c + LengthBytes < Len(v) /\ x >= 1
      BY <1>0, <1>2, <3>1, <3>2, <3>5
    <3>10. QED
      BY <3>5, <3>8, <3>9
  <2>3. QED
    BY <2>1, <2>2
<1> HIDE DEF C, k
<1>5. QED
  BY <1>3, <1>4 DEF Framed

(* ... and one more goes behind the others. *)
LEMMA FramedLast ==
    ASSUME NEW w \in Seq(Nat), Framed(w), NEW n \in Nat \ {0}, NEW v \in Seq(Nat),
           Len(v) = Len(w) + LengthBytes + n, v[Len(w) + 1] = n,
           \A i \in 1 .. Len(w) : v[i] = w[i]
    PROVE  Framed(v)
<1>0. LengthBytes \in Nat \ {0} /\ Len(w) \in Nat /\ Len(v) \in Nat
  BY StreamBufferAssumption
<1>1. PICK B \in SUBSET (0 .. Len(w)) :
        /\ 0 \in B /\ Len(w) \in B
        /\ \A b \in B \ {Len(w)} : /\ b + LengthBytes < Len(w) /\ w[b + 1] >= 1
                                   /\ b + LengthBytes + w[b + 1] \in B
  BY DEF Framed
<1> DEFINE C == B \cup {Len(v)}
<1>2. 0 \in C /\ Len(v) \in C /\ C \in SUBSET (0 .. Len(v))
  <2>1. Len(w) <= Len(v)
    BY <1>0
  <2>2. \A b \in B : b \in 0 .. Len(v)
    BY <1>0, <2>1
  <2>3. 0 \in C
    BY <1>1
  <2>4. C \subseteq 0 .. Len(v)
    <3>1. Len(v) \in 0 .. Len(v)
      BY <1>0
    <3>2. QED
      BY <2>2, <3>1
  <2>5. QED
    BY <2>3, <2>4
<1>3. ASSUME NEW c \in C \ {Len(v)}
      PROVE  /\ c + LengthBytes < Len(v) /\ v[c + 1] >= 1
             /\ c + LengthBytes + v[c + 1] \in C
  <2>1. c \in B /\ c \in 0 .. Len(w)
    BY <1>1
  <2>2. CASE c = Len(w)
    BY <1>0, <2>2
  <2>3. CASE c # Len(w)
    <3>1. v[c + 1] = w[c + 1]
      BY <1>0, <2>1, <2>3
    <3>2. QED
      BY <1>0, <1>1, <2>1, <2>3, <3>1
  <2>4. QED
    BY <2>2, <2>3
<1> HIDE DEF C
<1>4. QED
  BY <1>2, <1>3 DEF Framed

Distance(h, t) ==
    LET bytes == Length + h - t
    IN  IF bytes >= Length THEN bytes - Length ELSE bytes

LEMMA BytesAreDistance ==
    /\ BytesInBuffer = Distance(head, tail) /\ BytesInBuffer' = Distance(head', tail')
    /\ SpacesAvailable' = LET spaces == Length + tail' - head' - 1
                          IN  IF spaces >= Length THEN spaces - Length ELSE spaces
BY DEF BytesInBuffer, SpacesAvailable, Distance

LEMMA DistanceMath ==
    ASSUME NEW h \in 0 .. Length - 1, NEW t \in 0 .. Length - 1
    PROVE  /\ Distance(h, t) \in 0 .. Length - 1 /\ h = Wrap(t + Distance(h, t))
           /\ (LET spaces == Length + t - h - 1
               IN  IF spaces >= Length THEN spaces - Length ELSE spaces) = Length - 1 - Distance(h, t)
BY StreamBufferAssumption DEF Wrap, Distance

LEMMA DistanceBack ==
    ASSUME NEW h \in 0 .. Length - 1, NEW t \in 0 .. Length - 1, NEW u \in 0 .. Length - 1,
           NEW n \in 0 .. Length - 1, t = Wrap(u + n), Distance(h, t) + n < Length
    PROVE  Distance(h, u) = Distance(h, t) + n
BY StreamBufferAssumption DEF Wrap, Distance

LEMMA RingCountsNext ==
    Typed' => /\ BytesInBuffer' \in 0 .. Length - 1
              /\ SpacesAvailable' = Length - 1 - BytesInBuffer'
              /\ head' = Wrap(tail' + BytesInBuffer')
<1> SUFFICES ASSUME Typed' PROVE
         /\ BytesInBuffer' \in 0 .. Length - 1
         /\ SpacesAvailable' = Length - 1 - BytesInBuffer'
         /\ head' = Wrap(tail' + BytesInBuffer')
  OBVIOUS
<1>1. head' \in 0 .. Length - 1 /\ tail' \in 0 .. Length - 1
  BY DEF Typed, TypeOK
<1>2. QED
  BY <1>1, DistanceMath, BytesAreDistance

LEMMA WrapTwice ==
    ASSUME NEW t \in 0 .. Length - 1, NEW k \in Nat, NEW j \in Nat, k + j <= Length
    PROVE  Wrap(t + k) \in 0 .. Length - 1 /\ Wrap(Wrap(t + k) + j) = Wrap(t + k + j)
BY StreamBufferAssumption DEF Wrap

LEMMA WrapApart ==
    ASSUME NEW t \in 0 .. Length - 1, NEW i \in 0 .. Length - 1, NEW j \in 0 .. Length - 1, i # j
    PROVE  Wrap(t + i) # Wrap(t + j)
BY StreamBufferAssumption DEF Wrap

(* How the indices move *)
LEMMA TailMoves ==
    ASSUME Typed, NEW n \in 0 .. Length - 1, n <= BytesInBuffer,
           head' = head, tail' = Wrap(tail + n)
    PROVE  BytesInBuffer' = BytesInBuffer - n
<1>1. head \in 0 .. Length - 1 /\ tail \in 0 .. Length - 1 /\ Length \in Nat
  BY StreamBufferAssumption DEF Typed, TypeOK
<1>2. QED
  BY <1>1 DEF BytesInBuffer, Wrap

LEMMA TailMovesBack ==
    ASSUME Typed, NEW n \in 0 .. Length - 1, BytesInBuffer + n < Length,
           head' = head, tail' \in 0 .. Length - 1, tail = Wrap(tail' + n)
    PROVE  BytesInBuffer' = BytesInBuffer + n
<1>1. head \in 0 .. Length - 1 /\ tail \in 0 .. Length - 1
  BY DEF Typed, TypeOK
<1>2. QED
  BY <1>1, DistanceBack, BytesAreDistance

LEMMA HeadMoves ==
    ASSUME Typed, NEW n \in 0 .. Length - 1, BytesInBuffer + n < Length,
           tail' = tail, head' = Wrap(head + n)
    PROVE  BytesInBuffer' = BytesInBuffer + n
<1>1. head \in 0 .. Length - 1 /\ tail \in 0 .. Length - 1 /\ Length \in Nat
  BY StreamBufferAssumption DEF Typed, TypeOK
<1>2. QED
  BY <1>1 DEF BytesInBuffer, Wrap

LEMMA SliceTypedNext ==
    ASSUME Typed', NEW f \in 0 .. Length - 1, NEW n \in 0 .. Length
    PROVE  /\ Slice(f, n)' \in Seq(Nat) /\ Len(Slice(f, n)') = n
           /\ \A i \in 1 .. n : Slice(f, n)'[i] = cells'[Wrap(f + i - 1)]
<1>1. \A i \in 1 .. n : cells'[Wrap(f + i - 1)] \in Nat
  BY StreamBufferAssumption DEF Typed, Wrap
<1>2. Slice(f, n)' \in [1 .. n -> Nat]
  BY <1>1 DEF Slice
<1>3. DOMAIN Slice(f, n)' = 1 .. n
  BY DEF Slice
<1>4. Slice(f, n)' \in Seq(Nat)
  BY <1>2
<1>5. Len(Slice(f, n)') = n
  BY <1>3, <1>4
<1>6. QED
  BY <1>4, <1>5 DEF Slice

(* The bytes go where there is room. *)
LEMMA CopyMoves ==
    ASSUME Typed, Carrying, Copy
    PROVE  /\ pc["sender"] = "copy" /\ pc' = [pc EXCEPT !["sender"] = "advance"]
           /\ Len(Head(todo)) \in 1 .. Length - 1
           /\ UNCHANGED <<kind, head, tail, todo, wanted, avail, oldTail, copied, size>>
           /\ \A i \in 1 .. Len(Head(todo)) : cells'[Wrap(head + i - 1)] = Head(todo)[i]
           /\ \A x \in 0 .. Length - 1 :
                (\A i \in 1 .. Len(Head(todo)) : x # Wrap(head + i - 1)) => cells'[x] = cells[x]
           /\ ~clobbered' => BytesInBuffer + Len(Head(todo)) < Length
<1> DEFINE piece == Head(todo)
           target == {Wrap(head + i - 1) : i \in 1 .. Len(piece)}
           from(i) == CHOOSE k \in 1 .. Len(piece) : Wrap(head + k - 1) = i
<1>1. pc["sender"] = "copy" /\ pc' = [pc EXCEPT !["sender"] = "advance"]
      /\ UNCHANGED <<kind, head, tail, todo, wanted, avail, oldTail, copied, size>>
  BY DEF Copy, At, Goto, sync, receiving, sending
<1>2. piece \in Seq(Nat) /\ Len(piece) \in 1 .. Length - 1
  BY <1>1, PieceTyped
<1>3. cells' = [i \in DOMAIN cells |-> IF i \in target THEN piece[from(i)] ELSE cells[i]]
  BY DEF Copy
<1>4. ASSUME NEW i \in 1 .. Len(piece)
      PROVE  cells'[Wrap(head + i - 1)] = piece[i]
  <2>1. head \in 0 .. Length - 1 /\ i - 1 \in 0 .. Length - 1 /\ head + i - 1 = head + (i - 1)
    BY <1>2, StreamBufferAssumption DEF Typed, TypeOK
  <2>2. Wrap(head + i - 1) \in target /\ Wrap(head + i - 1) \in 0 .. Length - 1
    <3>1. Wrap(head + (i - 1)) \in 0 .. Length - 1
      <4>1. i - 1 \in 0 .. Length
        BY <1>2, StreamBufferAssumption
      <4>2. QED
        BY <2>1, <4>1, WrapTyped
    <3>2. QED
      BY <2>1, <3>1
  <2>3. ASSUME NEW k \in 1 .. Len(piece), k # i
        PROVE  Wrap(head + k - 1) # Wrap(head + i - 1)
    <3>1. k - 1 \in 0 .. Length - 1 /\ head + k - 1 = head + (k - 1) /\ k - 1 # i - 1
      BY <1>2, <2>1, <2>3, StreamBufferAssumption
    <3>2. QED
      BY <2>1, <3>1, WrapApart
  <2>4. from(Wrap(head + i - 1)) = i
    BY <2>3
  <2> HIDE DEF target, from, piece
  <2>5. QED
    BY <1>3, <2>2, <2>4 DEF Typed
<1>5. ASSUME NEW x \in 0 .. Length - 1, \A i \in 1 .. Len(piece) : x # Wrap(head + i - 1)
      PROVE  cells'[x] = cells[x]
  <2>1. x \notin target
    BY <1>5
  <2> HIDE DEF target, from, piece
  <2>2. QED
    BY <1>3, <2>1 DEF Typed
<1>6. ~clobbered' => BytesInBuffer + Len(piece) < Length
  <2>1. clobbered' = (clobbered \/ Len(piece) > SpacesAvailable)
    BY DEF Copy
  <2>2. Len(piece) > Length - 1 - BytesInBuffer \/ BytesInBuffer + Len(piece) < Length
    BY <1>2, RingCounts, StreamBufferAssumption
  <2> HIDE DEF piece
  <2>3. QED
    BY <2>1, <2>2, RingCounts
<1>7. QED
  BY <1>1, <1>2, <1>4, <1>5, <1>6

(* What the ring holds stays as it is. *)
LEMMA CopyKeeps ==
    ASSUME Typed, Carrying, Copy, ~clobbered'
    PROVE  \A k \in 0 .. BytesInBuffer - 1 : cells'[Wrap(tail + k)] = cells[Wrap(tail + k)]
<1>1. TAKE k \in 0 .. BytesInBuffer - 1
<1>2. /\ BytesInBuffer \in 0 .. Length - 1 /\ head = Wrap(tail + BytesInBuffer)
      /\ tail \in 0 .. Length - 1 /\ Length \in Nat
  BY RingCounts, StreamBufferAssumption DEF Typed, TypeOK
<1> DEFINE n == Len(Head(todo))
           b == BytesInBuffer
<1>3. n \in 1 .. Length - 1 /\ b + n < Length
  BY CopyMoves
<1>4. ASSUME NEW i \in 1 .. n
      PROVE  Wrap(tail + k) # Wrap(head + i - 1)
  <2> HIDE DEF n, b
  <2>1. b \in Nat /\ i - 1 \in Nat /\ b + (i - 1) <= Length
        /\ b + (i - 1) \in 0 .. Length - 1 /\ b + (i - 1) # k
        /\ k \in 0 .. Length - 1 /\ tail + b + (i - 1) = tail + (b + (i - 1))
    BY <1>2, <1>3 DEF b
  <2>2. Wrap(head + (i - 1)) = Wrap(tail + (b + (i - 1)))
    <3>1. Wrap(Wrap(tail + b) + (i - 1)) = Wrap(tail + b + (i - 1))
      BY <1>2, <2>1, WrapTwice
    <3>2. head = Wrap(tail + b)
      BY <1>2 DEF b
    <3>3. QED
      BY <2>1, <3>1, <3>2
  <2>3. head + (i - 1) = head + i - 1 /\ head \in Int
    BY <1>2, <2>1 DEF Typed, TypeOK
  <2>4. QED
    BY <1>2, <2>1, <2>2, <2>3, WrapApart
<1>5. Wrap(tail + k) \in 0 .. Length - 1
  BY <1>2, WrapTyped
<1>6. QED
  BY <1>4, <1>5, CopyMoves

-----------------------------------------------------------------------------
(* What has been copied has its place *)

LEMMA FilledKept ==
    ASSUME Typed', Filled, cells' = cells, head' = head, tail' = tail, todo' = todo,
           pc'["sender"] = pc["sender"]
    PROVE  Filled'
BY DEF Filled, Pending, BytesInBuffer

LEMMA FilledIdle ==
    ASSUME Typed', pc'["sender"] # "advance"
    PROVE  Filled'
<1>1. Pending' = 0
  BY DEF Pending
<1>2. BytesInBuffer' \in 0 .. Length - 1 /\ Length \in Nat
  BY RingCountsNext, StreamBufferAssumption
<1>3. \A b \in 0 .. Length - 1 : b + 0 < Length
  BY StreamBufferAssumption
<1>4. BytesInBuffer' + Pending' < Length
  BY <1>1, <1>2, <1>3
<1>5. QED
  BY <1>1, <1>4 DEF Filled

LEMMA FilledMoved ==
    ASSUME Filled, cells' = cells, head' = head, todo' = todo, pc'["sender"] = pc["sender"],
           BytesInBuffer' + Pending < Length
    PROVE  Filled'
<1>1. Pending' = Pending
  BY DEF Pending
<1>2. QED
  BY <1>1 DEF Filled

(* The moves of the receiver *)
LEMMA HeaderMoves ==
    ASSUME Good, PassHeader
    PROVE  /\ pc["receiver"] = "pastheader" /\ pc' = [pc EXCEPT !["receiver"] = "fit"]
           /\ tail' = Wrap(tail + LengthBytes) /\ avail' = avail - LengthBytes
           /\ UNCHANGED <<kind, cells, head, todo, wanted, oldTail, size, copied>>
           /\ LengthBytes \in 1 .. Length - 1 /\ BytesInBuffer' = BytesInBuffer - LengthBytes
           /\ kind = "message" /\ oldTail = tail /\ wanted = cells[tail]
           /\ LengthBytes + wanted <= avail /\ avail <= BytesInBuffer
<1>1. /\ pc["receiver"] = "pastheader" /\ pc' = [pc EXCEPT !["receiver"] = "fit"]
      /\ tail' = Wrap(tail + LengthBytes) /\ avail' = avail - LengthBytes
      /\ UNCHANGED <<kind, cells, head, todo, wanted, oldTail, size, copied>>
  BY DEF PassHeader, At, Goto, sync, receiving, sending
<1>2. kind = "message" /\ avail > LengthBytes /\ oldTail = tail
  BY <1>1 DEF Good, Places
<1>3. LengthBytes \in 1 .. Length - 1
  BY StreamBufferAssumption
<1>4. /\ avail <= BytesInBuffer /\ LengthBytes + cells[tail] <= avail /\ wanted = cells[tail]
  BY <1>1, <1>2 DEF Good, Taking, Prefix
<1>5. LengthBytes <= BytesInBuffer
  <2>1. Typed /\ avail \in Int /\ BytesInBuffer \in Int /\ LengthBytes \in Int
    BY <1>3, RingCounts DEF Good, Typed, TypeOK
  <2>2. QED
    BY <1>2, <1>4, <2>1
<1>6. BytesInBuffer' = BytesInBuffer - LengthBytes
  <2>1. Typed /\ LengthBytes \in 0 .. Length - 1
    BY <1>3, StreamBufferAssumption DEF Good
  <2>2. head' = head /\ tail' = Wrap(tail + LengthBytes)
    BY <1>1
  <2>3. QED
    BY <1>5, <2>1, <2>2, TailMoves
<1>7. QED
  BY <1>1, <1>2, <1>3, <1>4, <1>6

LEMMA FitMoves ==
    ASSUME Good, Typed', Fit, ~clobbered'
    PROVE  /\ pc["receiver"] = "fit" /\ kind = "message" /\ wanted \in 1 .. avail
           /\ avail <= BytesInBuffer /\ tail = Wrap(oldTail + LengthBytes)
           /\ UNCHANGED <<kind, cells, head, todo, copied>>
           /\ pc'["sender"] = pc["sender"]
           /\ \/ /\ pc' = [pc EXCEPT !["receiver"] = "idle"]
                 /\ tail' = oldTail /\ BytesInBuffer' = BytesInBuffer + LengthBytes
                 /\ BytesInBuffer' + Pending < Length
                 /\ cells[oldTail] = wanted /\ wanted > size
              \/ /\ pc' = [pc EXCEPT !["receiver"] = "copyout"]
                 /\ tail' = tail /\ wanted' = wanted /\ BytesInBuffer' = BytesInBuffer
                 /\ wanted <= size
<1>1. /\ pc["receiver"] = "fit" /\ UNCHANGED <<kind, cells, head, todo, copied>>
  BY DEF Fit, At, Goto, sync, receiving, sending
<1>2. kind = "message" /\ tail = Wrap(oldTail + LengthBytes)
  BY <1>1 DEF Good, Places
<1>3. wanted \in 1 .. avail /\ avail <= BytesInBuffer
      /\ (BytesInBuffer + LengthBytes + Pending < Length => cells[oldTail] = wanted)
  BY <1>1 DEF Good, Taking
<1>4. wanted \in Nat /\ size \in Nat /\ avail \in Nat
  BY DEF Good, Typed, TypeOK
<1>5. pc'["sender"] = pc["sender"]
  <2>1. pc' \in {[pc EXCEPT !["receiver"] = l] : l \in {"idle", "copyout"}}
    BY DEF Fit, Goto
  <2>2. QED
    BY <2>1 DEF Good, Typed, TypeOK, Ends
<1>6. Pending \in Nat
  BY StreamBufferAssumption, PieceTyped DEF Pending, Good
<1>7. CASE wanted > size
  <2>1. /\ pc' = [pc EXCEPT !["receiver"] = "idle"] /\ tail' = oldTail
        /\ clobbered' = (clobbered \/ BytesInBuffer + LengthBytes
                                      + (IF pc["sender"] = "advance" THEN Len(Head(todo)) ELSE 0)
                                      >= Length)
    BY <1>7 DEF Fit, Goto
  <2>2. ~(BytesInBuffer + LengthBytes + Pending >= Length)
    BY <2>1 DEF Pending
  <2>3. BytesInBuffer \in Nat /\ LengthBytes \in 1 .. Length - 1 /\ Length \in Nat
    BY RingCounts, StreamBufferAssumption DEF Good
  <2>4. BytesInBuffer + LengthBytes + Pending < Length /\ BytesInBuffer + LengthBytes < Length
    BY <1>6, <2>2, <2>3
  <2>5. tail' \in 0 .. Length - 1
    BY DEF Typed, TypeOK
  <2>6. BytesInBuffer' = BytesInBuffer + LengthBytes
    BY <1>1, <1>2, <2>1, <2>3, <2>4, <2>5, TailMovesBack DEF Good
  <2>7. QED
    BY <1>1, <1>2, <1>3, <1>5, <1>7, <2>1, <2>4, <2>6
<1>8. CASE ~(wanted > size)
  <2>1. /\ pc' = [pc EXCEPT !["receiver"] = "copyout"] /\ tail' = tail
        /\ wanted' = Least(avail, wanted)
    BY <1>8 DEF Fit, Goto
  <2>2. wanted' = wanted /\ wanted <= size
    BY <1>3, <1>4, <1>8, <2>1 DEF Least
  <2>3. BytesInBuffer' = BytesInBuffer
    BY <1>1, <2>1 DEF BytesInBuffer
  <2>4. QED
    BY <1>1, <1>2, <1>3, <1>5, <2>1, <2>2, <2>3
<1>9. QED
  BY <1>7, <1>8

LEMMA DataMoves ==
    ASSUME Good, PassData
    PROVE  /\ pc["receiver"] = "pastdata" /\ pc' = [pc EXCEPT !["receiver"] = "complete"]
           /\ wanted \in 1 .. BytesInBuffer /\ wanted \in 0 .. Length - 1
           /\ copied = Slice(tail, wanted) /\ box' = copied
           /\ UNCHANGED <<kind, cells, head, todo>>
           /\ tail' = Wrap(tail + wanted) /\ BytesInBuffer' = BytesInBuffer - wanted
<1>1. /\ pc["receiver"] = "pastdata" /\ pc' = [pc EXCEPT !["receiver"] = "complete"]
      /\ tail' = Wrap(tail + wanted) /\ box' = copied
      /\ UNCHANGED <<kind, cells, head, todo>>
  BY DEF PassData, At, Goto, sync, receiving, sending
<1>2. wanted \in 1 .. BytesInBuffer /\ copied = Slice(tail, wanted)
  BY <1>1 DEF Good, Taking
<1>3. wanted \in 0 .. Length - 1 /\ wanted <= BytesInBuffer
  BY <1>2, RingCounts, StreamBufferAssumption DEF Good
<1>4. BytesInBuffer' = BytesInBuffer - wanted
  BY <1>1, <1>3, TailMoves DEF Good
<1>5. QED
  BY <1>1, <1>2, <1>3, <1>4
(* What has been copied keeps its place.                                   *)
LEMMA FilledStep == Good /\ Typed' /\ ~clobbered' /\ [Next]_vars => Filled'
<1> SUFFICES ASSUME Good /\ Typed' /\ ~clobbered', [Next]_vars PROVE Filled'
  OBVIOUS
<1> USE StreamBufferAssumption DEF At, Goto, Return, Forgets, Register,
  Other, Ends, ring, sync, sending, receiving
<1>1. CASE Send
  <2>1. pc'["sender"] # "advance"
    BY <1>1 DEF Send, Good, Typed, TypeOK
  <2>2. QED
    BY <2>1, FilledIdle
<1>2. CASE Receive
  <2>1. UNCHANGED <<cells, head, tail, todo>> /\ pc'["sender"] = pc["sender"]
    BY <1>2 DEF Receive, Good, Typed, TypeOK
  <2>2. QED
    BY <2>1, FilledKept DEF Good
<1>3. CASE CheckSpace
  <2>1. pc'["sender"] # "advance"
    BY <1>3 DEF CheckSpace, Good, Typed, TypeOK
  <2>2. QED
    BY <2>1, FilledIdle
<1>4. CASE TimeOut
  <2>1. pc'["sender"] # "advance"
    BY <1>4 DEF TimeOut, Good, Typed, TypeOK
  <2>2. QED
    BY <2>1, FilledIdle
<1>5. CASE LastSpace
  <2>1. pc'["sender"] # "advance"
    BY <1>5 DEF LastSpace, Good, Typed, TypeOK
  <2>2. QED
    BY <2>1, FilledIdle
<1>6. CASE Write
  <2>1. pc'["sender"] # "advance"
    BY <1>6 DEF Write, Good, Typed, TypeOK
  <2>2. QED
    BY <2>1, FilledIdle
<1>7. CASE Copy
  <2>1. /\ Len(Head(todo)) \in 1 .. Length - 1 /\ UNCHANGED <<head, tail, todo>>
        /\ pc' = [pc EXCEPT !["sender"] = "advance"]
        /\ \A i \in 1 .. Len(Head(todo)) : cells'[Wrap(head + i - 1)] = Head(todo)[i]
        /\ BytesInBuffer + Len(Head(todo)) < Length
    BY <1>7, CopyMoves DEF Good
  <2>2. Pending' = Len(Head(todo)) /\ BytesInBuffer' = BytesInBuffer
    BY <2>1 DEF Pending, BytesInBuffer, Good, Typed, TypeOK
  <2>3. BytesInBuffer' + Pending' < Length
    BY <2>1, <2>2
  <2>4. \A i \in 1 .. Pending' : cells'[Wrap(head' + i - 1)] = Head(todo')[i]
    BY <2>1, <2>2
  <2>5. QED
    BY <2>3, <2>4 DEF Filled
<1>8. CASE Advance
  <2>1. pc'["sender"] # "advance"
    BY <1>8 DEF Advance, Good, Typed, TypeOK
  <2>2. QED
    BY <2>1, FilledIdle
<1>9. CASE Level
  <2>1. pc'["sender"] # "advance"
    BY <1>9 DEF Level, Good, Typed, TypeOK
  <2>2. QED
    BY <2>1, FilledIdle
<1>10. CASE CheckBytes
  <2>1. UNCHANGED <<cells, head, tail, todo>> /\ pc'["sender"] = pc["sender"]
    BY <1>10 DEF CheckBytes, Good, Typed, TypeOK
  <2>2. QED
    BY <2>1, FilledKept DEF Good
<1>11. CASE Recheck
  <2>1. UNCHANGED <<cells, head, tail, todo>> /\ pc'["sender"] = pc["sender"]
    BY <1>11 DEF Recheck, Good, Typed, TypeOK
  <2>2. QED
    BY <2>1, FilledKept DEF Good
<1>12. CASE Read
  <2>1. UNCHANGED <<cells, head, tail, todo>> /\ pc'["sender"] = pc["sender"]
    BY <1>12 DEF Read, Good, Typed, TypeOK
  <2>2. QED
    BY <2>1, FilledKept DEF Good
<1>13. CASE ReadLength
  <2>1. UNCHANGED <<cells, head, tail, todo>> /\ pc'["sender"] = pc["sender"]
    BY <1>13 DEF ReadLength, Good, Typed, TypeOK
  <2>2. QED
    BY <2>1, FilledKept DEF Good
<1>14. CASE PassHeader
  <2>1. /\ UNCHANGED <<cells, head, todo>> /\ pc'["sender"] = pc["sender"]
        /\ BytesInBuffer' = BytesInBuffer - LengthBytes /\ LengthBytes \in Nat
    <3>1. pc' = [pc EXCEPT !["receiver"] = "fit"]
      BY <1>14, HeaderMoves
    <3>2. pc'["sender"] = pc["sender"]
      BY <3>1 DEF Good, Typed, TypeOK
    <3>3. QED
      BY <1>14, <3>2, HeaderMoves
  <2>2. BytesInBuffer + Pending < Length /\ Pending \in Nat /\ BytesInBuffer \in Nat
    BY RingCounts, PieceTyped DEF Good, Filled, Pending
  <2>3. BytesInBuffer' + Pending < Length
    BY <2>1, <2>2
  <2>4. QED
    BY <2>1, <2>3, FilledMoved DEF Good
<1>15. CASE Fit
  <2>1. /\ UNCHANGED <<cells, head, todo>> /\ pc'["sender"] = pc["sender"]
        /\ (BytesInBuffer' + Pending < Length \/ BytesInBuffer' = BytesInBuffer)
    BY <1>15, FitMoves
  <2>2. BytesInBuffer' + Pending < Length
    BY <2>1 DEF Good, Filled
  <2>3. QED
    BY <2>1, <2>2, FilledMoved DEF Good
<1>16. CASE CopyOut
  <2>1. UNCHANGED <<cells, head, tail, todo>> /\ pc'["sender"] = pc["sender"]
    BY <1>16 DEF CopyOut, Good, Typed, TypeOK
  <2>2. QED
    BY <2>1, FilledKept DEF Good
<1>17. CASE PassData
  <2>1. /\ UNCHANGED <<cells, head, todo>> /\ pc'["sender"] = pc["sender"]
        /\ BytesInBuffer' = BytesInBuffer - wanted /\ wanted \in Nat
    <3>1. pc' = [pc EXCEPT !["receiver"] = "complete"]
      BY <1>17, DataMoves
    <3>2. pc'["sender"] = pc["sender"]
      BY <3>1 DEF Good, Typed, TypeOK
    <3>3. QED
      BY <1>17, <3>2, DataMoves
  <2>2. BytesInBuffer + Pending < Length /\ Pending \in Nat /\ BytesInBuffer \in Nat
    BY RingCounts, PieceTyped DEF Good, Filled, Pending
  <2>3. BytesInBuffer' + Pending < Length
    BY <2>1, <2>2
  <2>4. QED
    BY <2>1, <2>3, FilledMoved DEF Good
<1>18. CASE SetTriggerLevel
  <2>1. UNCHANGED <<cells, head, tail, todo>> /\ pc'["sender"] = pc["sender"]
    BY <1>18 DEF SetTriggerLevel, Good, Typed, TypeOK
  <2>2. QED
    BY <2>1, FilledKept DEF Good
<1>19. CASE Reset
  <2>1. pc'["sender"] # "advance"
    BY <1>19 DEF Reset, Good, Typed, TypeOK
  <2>2. QED
    BY <2>1, FilledIdle
<1>20. ASSUME NEW e \in Ends, Wait(e) PROVE Filled'
  <2>1. /\ UNCHANGED <<cells, head, tail, todo>>
        /\ pc'["sender"] = pc["sender"] \/ pc'["sender"] # "advance"
    BY <1>20 DEF Wait, Good, Typed, TypeOK
  <2>2. QED
    BY <2>1, FilledKept, FilledIdle DEF Good
<1>21. ASSUME NEW e \in Ends, Woken(e) PROVE Filled'
  <2>1. /\ UNCHANGED <<cells, head, tail, todo>>
        /\ pc'["sender"] = pc["sender"] \/ pc'["sender"] # "advance"
    BY <1>21 DEF Woken, Good, Typed, TypeOK
  <2>2. QED
    BY <2>1, FilledKept, FilledIdle DEF Good
<1>22. ASSUME NEW e \in Ends, ForgetSelf(e) PROVE Filled'
  <2>1. /\ UNCHANGED <<cells, head, tail, todo>>
        /\ pc'["sender"] = pc["sender"] \/ pc'["sender"] # "advance"
    BY <1>22 DEF ForgetSelf, Good, Typed, TypeOK
  <2>2. QED
    BY <2>1, FilledKept, FilledIdle DEF Good
<1>23. ASSUME NEW e \in Ends, Complete(e) PROVE Filled'
  <2>1. /\ UNCHANGED <<cells, head, tail, todo>>
        /\ pc'["sender"] = pc["sender"] \/ pc'["sender"] # "advance"
    BY <1>23 DEF Complete, Good, Typed, TypeOK
  <2>2. QED
    BY <2>1, FilledKept, FilledIdle DEF Good
<1>24. ASSUME NEW e \in Ends, Notify(e) PROVE Filled'
  <2>1. /\ UNCHANGED <<cells, head, tail, todo>>
        /\ pc'["sender"] = pc["sender"] \/ pc'["sender"] # "advance"
    BY <1>24 DEF Notify, Good, Typed, TypeOK
  <2>2. QED
    BY <2>1, FilledKept, FilledIdle DEF Good
<1>25. ASSUME NEW e \in Ends, Forget(e) PROVE Filled'
  <2>1. /\ UNCHANGED <<cells, head, tail, todo>>
        /\ pc'["sender"] = pc["sender"] \/ pc'["sender"] # "advance"
    BY <1>25 DEF Forget, Good, Typed, TypeOK
  <2>2. QED
    BY <2>1, FilledKept, FilledIdle DEF Good
<1>26. ASSUME NEW e \in Ends, Expire(e) PROVE Filled'
  <2>1. /\ UNCHANGED <<cells, head, tail, todo>>
        /\ pc'["sender"] = pc["sender"] \/ pc'["sender"] # "advance"
    BY <1>26 DEF Expire, Good, Typed, TypeOK
  <2>2. QED
    BY <2>1, FilledKept, FilledIdle DEF Good
<1>27. CASE UNCHANGED vars
  <2>1. UNCHANGED <<cells, head, tail, todo>> /\ pc'["sender"] = pc["sender"]
    BY <1>27 DEF vars
  <2>2. QED
    BY <2>1, FilledKept DEF Good
<1>28. QED
  BY <1>1, <1>2, <1>3, <1>4, <1>5, <1>6, <1>7, <1>8, <1>9, <1>10, <1>11,
    <1>12, <1>13, <1>14, <1>15, <1>16, <1>17, <1>18, <1>19, <1>20, <1>21,
    <1>22, <1>23, <1>24, <1>25, <1>26, <1>27
    DEF Next, Sender, Receiver, Common

-----------------------------------------------------------------------------
(* The messages between the ends *)

LEMMA PartOfRing ==
    ASSUME NEW t \in 0 .. Length - 1, NEW b \in 0 .. Length - 1, NEW s \in Nat,
           NEW p \in {0, LengthBytes}, s + p <= b
    PROVE  /\ s \in 0 .. Length - 1 /\ b - s - p \in Nat
           /\ \A i \in 1 .. b - s - p : /\ Wrap(Wrap(t + s) + i - 1) = Wrap(t + (s + i - 1))
                                        /\ Wrap(t + (s + i - 1)) \in 0 .. Length - 1
<1>1. Length \in Nat /\ LengthBytes \in Nat
  BY StreamBufferAssumption
<1>2. s \in 0 .. Length - 1 /\ b - s - p \in Nat
  BY <1>1
<1>3. PICK n \in Nat : n = b - s - p
  BY <1>2
<1>4. ASSUME NEW i \in 1 .. n
      PROVE  /\ Wrap(Wrap(t + s) + i - 1) = Wrap(t + (s + i - 1))
             /\ Wrap(t + (s + i - 1)) \in 0 .. Length - 1
  <2>1. i - 1 \in Nat /\ s + (i - 1) <= Length /\ s + i - 1 \in 0 .. Length
    BY <1>1, <1>2, <1>3
  <2>2. /\ Wrap(t + s) \in 0 .. Length - 1
        /\ Wrap(Wrap(t + s) + (i - 1)) = Wrap(t + s + (i - 1))
    BY <2>1, WrapTwice
  <2>3. Wrap(t + s) + (i - 1) = Wrap(t + s) + i - 1
    BY <1>1, <2>1, <2>2
  <2>4. t + s + (i - 1) = t + (s + i - 1)
    BY <2>1
  <2>5. Wrap(t + (s + i - 1)) \in 0 .. Length - 1
    BY <2>1, WrapTyped
  <2>6. QED
    BY <2>2, <2>3, <2>4, <2>5
<1>5. QED
  BY <1>2, <1>3, <1>4

LEMMA WholeAt ==
    ASSUME Typed, kind = "message", Skip + Part <= BytesInBuffer
    PROVE  /\ Skip \in 0 .. Length - 1 /\ Part \in {0, LengthBytes}
           /\ Whole \in Seq(Nat) /\ Len(Whole) = BytesInBuffer - Skip - Part
           /\ \A i \in 1 .. Len(Whole) :
                Whole[i] = cells[Wrap(tail + (Skip + i - 1))]
<1>1. /\ tail \in 0 .. Length - 1 /\ BytesInBuffer \in 0 .. Length - 1
      /\ cells \in [0 .. Length - 1 -> Nat] /\ wanted \in Nat
  BY RingCounts DEF Typed, TypeOK
<1>2. Skip \in Nat /\ Part \in {0, LengthBytes}
  BY <1>1 DEF Skip, Part
<1>3. Whole = [i \in 1 .. BytesInBuffer - Skip - Part |->
                    cells[Wrap(Wrap(tail + Skip) + i - 1)]]
  BY DEF Whole, Slice
<1>4. /\ Skip \in 0 .. Length - 1 /\ BytesInBuffer - Skip - Part \in Nat
      /\ \A i \in 1 .. BytesInBuffer - Skip - Part :
           /\ Wrap(Wrap(tail + Skip) + i - 1) = Wrap(tail + (Skip + i - 1))
           /\ Wrap(tail + (Skip + i - 1)) \in 0 .. Length - 1
  BY <1>1, <1>2, PartOfRing
<1>5. PICK n \in Nat : n = BytesInBuffer - Skip - Part
  BY <1>4
<1>6. /\ Whole \in [1 .. n -> Nat]
      /\ \A i \in 1 .. n : Whole[i] = cells[Wrap(tail + (Skip + i - 1))]
  BY <1>1, <1>3, <1>4, <1>5
<1>7. Whole \in Seq(Nat) /\ Len(Whole) = n
  BY <1>6
<1>8. QED
  BY <1>2, <1>4, <1>5, <1>6, <1>7

LEMMA WholeAtNext ==
    ASSUME Typed', kind' = "message", Skip' + Part' <= BytesInBuffer'
    PROVE  /\ Skip' \in 0 .. Length - 1 /\ Part' \in {0, LengthBytes}
           /\ Whole' \in Seq(Nat) /\ Len(Whole') = BytesInBuffer' - Skip' - Part'
           /\ \A i \in 1 .. Len(Whole') :
                Whole'[i] = cells'[Wrap(tail' + (Skip' + i - 1))]
<1>1. /\ tail' \in 0 .. Length - 1 /\ BytesInBuffer' \in 0 .. Length - 1
      /\ cells' \in [0 .. Length - 1 -> Nat] /\ wanted' \in Nat
  BY RingCountsNext DEF Typed, TypeOK
<1>2. Skip' \in Nat /\ Part' \in {0, LengthBytes}
  BY <1>1 DEF Skip, Part
<1>3. Whole' = [i \in 1 .. BytesInBuffer' - Skip' - Part' |->
                    cells'[Wrap(Wrap(tail' + Skip') + i - 1)]]
  BY DEF Whole, Slice
<1>4. /\ Skip' \in 0 .. Length - 1 /\ BytesInBuffer' - Skip' - Part' \in Nat
      /\ \A i \in 1 .. BytesInBuffer' - Skip' - Part' :
           /\ Wrap(Wrap(tail' + Skip') + i - 1) = Wrap(tail' + (Skip' + i - 1))
           /\ Wrap(tail' + (Skip' + i - 1)) \in 0 .. Length - 1
  BY <1>1, <1>2, PartOfRing
<1>5. PICK n \in Nat : n = BytesInBuffer' - Skip' - Part'
  BY <1>4
<1>6. /\ Whole' \in [1 .. n -> Nat]
      /\ \A i \in 1 .. n : Whole'[i] = cells'[Wrap(tail' + (Skip' + i - 1))]
  BY <1>1, <1>3, <1>4, <1>5
<1>7. Whole' \in Seq(Nat) /\ Len(Whole') = n
  BY <1>6
<1>8. QED
  BY <1>2, <1>4, <1>5, <1>6, <1>7

LEMMA GoodTypes ==
    ASSUME Good
    PROVE  /\ tail \in 0 .. Length - 1 /\ BytesInBuffer \in 0 .. Length - 1
           /\ LengthBytes \in 1 .. Length - 1 /\ Length \in Nat
           /\ head \in 0 .. Length - 1 /\ oldTail \in 0 .. Length - 1
           /\ wanted \in Nat /\ avail \in Nat /\ size \in Nat
<1>1. Typed
  BY DEF Good
<1>2. BytesInBuffer \in 0 .. Length - 1
  BY <1>1, RingCounts
<1>3. LengthBytes \in 1 .. Length - 1 /\ Length \in Nat
  BY StreamBufferAssumption
<1>4. QED
  BY <1>1, <1>2, <1>3 DEF Typed, TypeOK

LEMMA SameSequence ==
    ASSUME NEW v \in Seq(Nat), NEW w \in Seq(Nat), Len(v) = Len(w),
           \A i \in 1 .. Len(w) : v[i] = w[i]
    PROVE  v = w
BY SeqEqual

LEMMA FramingKept ==
    ASSUME Framing, UNCHANGED <<kind, cells, head, tail>>, Skip' = Skip,
           HalfSent' = HalfSent, HalfSent => todo' = todo
    PROVE  Framing'
<1>1. BytesInBuffer' = BytesInBuffer /\ Part' = Part
  BY DEF BytesInBuffer, Part
<1>2. Whole' = Whole
  BY <1>1 DEF Whole, Slice
<1>3. QED
  BY <1>1, <1>2 DEF Framing

(* What is copied goes where no message is.                                *)
LEMMA CopyWhole ==
    ASSUME Good, Typed', ~clobbered', Copy, kind = "message"
    PROVE  Framing' /\ Whole' = Whole
<1>1. /\ Skip + Part <= BytesInBuffer /\ Framed(Whole)
      /\ HalfSent => cells[Wrap(tail + BytesInBuffer - LengthBytes)] = Len(Head(todo))
  BY DEF Good, Framing
<1>2. /\ Skip \in 0 .. Length - 1 /\ Part \in {0, LengthBytes}
      /\ Whole \in Seq(Nat) /\ Len(Whole) = BytesInBuffer - Skip - Part
      /\ \A i \in 1 .. Len(Whole) : Whole[i] = cells[Wrap(tail + (Skip + i - 1))]
  BY <1>1, WholeAt DEF Good
<1>3. /\ tail \in 0 .. Length - 1 /\ BytesInBuffer \in 0 .. Length - 1
      /\ LengthBytes \in 1 .. Length - 1 /\ Length \in Nat
  BY GoodTypes
<1>4. (kind' = "message" /\ Skip' + Part' <= BytesInBuffer') =>
         /\ Skip' \in 0 .. Length - 1 /\ Part' \in {0, LengthBytes}
         /\ Whole' \in Seq(Nat) /\ Len(Whole') = BytesInBuffer' - Skip' - Part'
         /\ \A i \in 1 .. Len(Whole') : Whole'[i] = cells'[Wrap(tail' + (Skip' + i - 1))]
  BY WholeAtNext DEF Good
<1>5. /\ pc["sender"] = "copy" /\ pc' = [pc EXCEPT !["sender"] = "advance"]
      /\ UNCHANGED <<kind, head, tail, todo, wanted>>
  BY CopyMoves DEF Good
<1>6. pc'["sender"] = "advance" /\ pc'["receiver"] = pc["receiver"]
  BY <1>5 DEF Good, Typed, TypeOK
<1>7. HalfSent' = HalfSent /\ Skip' = Skip /\ Part' = Part /\ BytesInBuffer' = BytesInBuffer
  BY <1>5, <1>6 DEF HalfSent, Skip, Part, InMessage, BytesInBuffer
<1>8. \A k \in 0 .. BytesInBuffer - 1 : cells'[Wrap(tail + k)] = cells[Wrap(tail + k)]
  BY CopyKeeps DEF Good
<1>9. /\ Whole' \in Seq(Nat) /\ Len(Whole') = Len(Whole)
      /\ \A i \in 1 .. Len(Whole) : Whole'[i] = cells'[Wrap(tail + (Skip + i - 1))]
  BY <1>1, <1>2, <1>4, <1>5, <1>7
<1>10. ASSUME NEW i \in 1 .. Len(Whole)
       PROVE  Whole'[i] = Whole[i]
  <2>1. Skip + i - 1 \in 0 .. BytesInBuffer - 1
    BY <1>1, <1>2, <1>3
  <2>2. QED
    BY <1>2, <1>8, <1>9, <2>1
<1>11. Whole' = Whole
  BY <1>2, <1>9, <1>10, SameSequence
<1>12. HalfSent => cells'[Wrap(tail + BytesInBuffer - LengthBytes)]
                   = cells[Wrap(tail + BytesInBuffer - LengthBytes)]
  <2>1. HalfSent => BytesInBuffer - LengthBytes \in 0 .. BytesInBuffer - 1
    BY <1>1, <1>2, <1>3 DEF Part
  <2>2. tail + BytesInBuffer - LengthBytes = tail + (BytesInBuffer - LengthBytes)
    BY <1>3
  <2>3. QED
    BY <1>8, <2>1, <2>2
<1>13. QED
  BY <1>1, <1>5, <1>7, <1>11, <1>12 DEF Framing

(* A message is one more when all of it is in the ring.                    *)
LEMMA AdvanceWhole ==
    ASSUME Good, Typed', ~clobbered', Advance, kind = "message"
    PROVE  /\ Framing'
           /\ Len(todo) = 2 => Whole' = Whole
           /\ Len(todo) = 1 =>
                /\ Whole' \in Seq(Nat) /\ Len(Whole') = Len(Whole) + LengthBytes + Len(Head(todo))
                /\ Whole'[Len(Whole) + 1] = Len(Head(todo))
                /\ \A i \in 1 .. Len(Whole) : Whole'[i] = Whole[i]
                /\ \A i \in 1 .. Len(Whole') : Whole'[i] = cells[Wrap(tail + (Skip + i - 1))]
<1>1. /\ Skip + Part <= BytesInBuffer /\ Framed(Whole)
      /\ HalfSent => cells[Wrap(tail + BytesInBuffer - LengthBytes)] = Len(Head(todo))
  BY DEF Good, Framing
<1>2. /\ Skip \in 0 .. Length - 1 /\ Part \in {0, LengthBytes}
      /\ Whole \in Seq(Nat) /\ Len(Whole) = BytesInBuffer - Skip - Part
      /\ \A i \in 1 .. Len(Whole) : Whole[i] = cells[Wrap(tail + (Skip + i - 1))]
  BY <1>1, WholeAt DEF Good
<1>3. /\ tail \in 0 .. Length - 1 /\ BytesInBuffer \in 0 .. Length - 1
      /\ LengthBytes \in 1 .. Length - 1 /\ Length \in Nat
  BY GoodTypes
<1>4. (kind' = "message" /\ Skip' + Part' <= BytesInBuffer') =>
         /\ Skip' \in 0 .. Length - 1 /\ Part' \in {0, LengthBytes}
         /\ Whole' \in Seq(Nat) /\ Len(Whole') = BytesInBuffer' - Skip' - Part'
         /\ \A i \in 1 .. Len(Whole') : Whole'[i] = cells'[Wrap(tail' + (Skip' + i - 1))]
  BY WholeAtNext DEF Good
<1>5. /\ pc["sender"] = "advance" /\ head' = Wrap(head + Len(Head(todo))) /\ todo' = Tail(todo)
      /\ UNCHANGED <<kind, cells, tail, wanted>>
      /\ pc' = [pc EXCEPT !["sender"] = IF Len(todo) > 1 THEN "copy" ELSE "level"]
  BY DEF Advance, At, Goto, sync, receiving
<1>6. /\ Len(Head(todo)) \in 1 .. Length - 1 /\ Len(todo) \in {1, 2}
  BY <1>5, PieceTyped DEF Good
<1>7. /\ BytesInBuffer + Len(Head(todo)) < Length
      /\ \A i \in 1 .. Len(Head(todo)) : cells[Wrap(head + i - 1)] = Head(todo)[i]
  BY <1>5 DEF Good, Filled, Pending
<1>8. BytesInBuffer' = BytesInBuffer + Len(Head(todo))
  BY <1>5, <1>6, <1>7, HeadMoves DEF Good
<1>9. /\ pc'["sender"] = IF Len(todo) > 1 THEN "copy" ELSE "level"
      /\ pc'["receiver"] = pc["receiver"]
  BY <1>5 DEF Good, Typed, TypeOK
<1>10. Skip' = Skip
  BY <1>5, <1>9 DEF Skip, InMessage
<1>11. CASE Len(todo) = 2
  <2>1. PICK p \in Payloads : todo = <<Header(Len(p)), p>> \/ todo = <<p>>
    BY <1>5 DEF Good, Carrying
  <2>2. Len(<<p>>) # 2
    OBVIOUS
  <2>3. todo = <<Header(Len(p)), p>>
    BY <1>11, <2>1, <2>2
  <2>4. Len(p) \in Nat /\ p \in Seq(Nat)
    BY <2>1, StreamBufferAssumption
  <2>5. /\ Head(todo) = Header(Len(p)) /\ todo' = <<p>> /\ Len(todo') = 1 /\ Head(todo') = p
    BY <1>5, <2>3
  <2>6. Len(Head(todo)) = LengthBytes /\ Head(todo)[1] = Len(p)
    BY <2>4, <2>5, HeaderTyped
  <2>7. ~HalfSent /\ HalfSent'
    BY <1>5, <1>9, <1>11, <2>5 DEF HalfSent
  <2>8. Part = 0 /\ Part' = LengthBytes /\ BytesInBuffer' = BytesInBuffer + LengthBytes
    BY <1>8, <2>6, <2>7 DEF Part
  <2>9. Skip' + Part' <= BytesInBuffer'
    BY <1>1, <1>2, <1>3, <1>10, <2>8
  <2>10. /\ Whole' \in Seq(Nat) /\ Len(Whole') = Len(Whole)
         /\ \A i \in 1 .. Len(Whole) : Whole'[i] = Whole[i]
    <3>1. kind' = "message"
      BY <1>5
    <3>2. Whole' \in Seq(Nat) /\ Len(Whole') = BytesInBuffer' - Skip' - Part'
          /\ \A i \in 1 .. Len(Whole') : Whole'[i] = cells'[Wrap(tail' + (Skip' + i - 1))]
      BY <1>4, <2>9, <3>1
    <3>3. Len(Whole') = Len(Whole)
      BY <1>2, <1>3, <1>10, <2>8, <3>2
    <3>4. QED
      BY <1>2, <1>5, <1>10, <3>2, <3>3
  <2>11. Whole' = Whole
    BY <1>2, <2>10, SameSequence
  <2>12. cells'[Wrap(tail' + BytesInBuffer' - LengthBytes)] = Len(Head(todo'))
    <3>1. head = Wrap(tail + BytesInBuffer) /\ head \in Int
      BY RingCounts, GoodTypes DEF Good
    <3>2. tail + (BytesInBuffer + LengthBytes) - LengthBytes = tail + BytesInBuffer
      BY <1>3
    <3>3. head + 1 - 1 = head
      BY <3>1
    <3>4. cells[head] = Head(todo)[1]
      <4>1. 1 \in 1 .. Len(Head(todo))
        BY <1>6, <1>3
      <4>2. cells[Wrap(head + 1 - 1)] = Head(todo)[1]
        BY <1>7, <4>1
      <4>3. Wrap(head) = head
        BY GoodTypes DEF Wrap
      <4>4. QED
        BY <3>3, <4>2, <4>3
    <3>5. QED
      BY <1>5, <2>5, <2>6, <2>8, <3>1, <3>2, <3>4
  <2>13. QED
    BY <1>1, <1>11, <2>9, <2>11, <2>12 DEF Framing
<1>12. CASE Len(todo) = 1
  <2>1. HalfSent /\ ~HalfSent'
    BY <1>5, <1>9, <1>12 DEF HalfSent
  <2>2. Part = LengthBytes /\ Part' = 0
    BY <2>1 DEF Part
  <2>3. Skip' + Part' <= BytesInBuffer'
    BY <1>1, <1>2, <1>3, <1>6, <1>8, <1>10, <2>2
  <2>4. kind' = "message"
    BY <1>5
  <2>5. Whole' \in Seq(Nat) /\ Len(Whole') = BytesInBuffer' - Skip' - Part'
        /\ \A i \in 1 .. Len(Whole') : Whole'[i] = cells[Wrap(tail + (Skip + i - 1))]
    BY <1>4, <1>5, <1>10, <2>3, <2>4
  <2>6. Len(Whole') = Len(Whole) + LengthBytes + Len(Head(todo))
    BY <1>2, <1>3, <1>6, <1>8, <1>10, <2>2, <2>5
  <2>7. Len(Whole) \in Nat /\ Len(Head(todo)) \in Nat \ {0}
    BY <1>2, <1>3, <1>6
  <2>a. Len(Whole) + 1 \in 1 .. Len(Whole') /\ 1 .. Len(Whole) \subseteq 1 .. Len(Whole')
    <3>1. PICK l \in Nat, n \in Nat \ {0} : l = Len(Whole) /\ n = Len(Head(todo))
      BY <2>7
    <3>2. PICK m \in Nat : m = Len(Whole')
      BY <2>5
    <3>3. m = l + LengthBytes + n
      BY <2>6, <3>1, <3>2
    <3>4. l + 1 \in 1 .. m /\ 1 .. l \subseteq 1 .. m
      BY <1>3, <3>3
    <3>5. QED
      BY <3>1, <3>2, <3>4
  <2>8. ASSUME NEW i \in 1 .. Len(Whole) PROVE Whole'[i] = Whole[i]
    BY <1>2, <2>5, <2>a
  <2>9. Whole'[Len(Whole) + 1] = Len(Head(todo))
    <3>2. Whole'[Len(Whole) + 1] = cells[Wrap(tail + (Skip + (Len(Whole) + 1) - 1))]
      BY <2>5, <2>a
    <3>3. tail + (Skip + (Len(Whole) + 1) - 1) = tail + BytesInBuffer - LengthBytes
      BY <1>2, <1>3, <2>2
    <3>4. QED
      BY <1>1, <2>1, <3>2, <3>3
  <2>10. Framed(Whole')
    BY <1>1, <1>2, <2>5, <2>6, <2>7, <2>8, <2>9, FramedLast
  <2>11. QED
    BY <1>12, <2>1, <2>3, <2>5, <2>6, <2>8, <2>9, <2>10 DEF Framing
<1>13. QED
  BY <1>6, <1>11, <1>12

(* The receiver takes the first message ...                                *)
LEMMA HeaderWhole ==
    ASSUME Good, Typed', ~clobbered', PassHeader, kind = "message"
    PROVE  /\ Framing'
           /\ Whole[1] = wanted /\ LengthBytes + wanted <= Len(Whole)
           /\ Whole' \in Seq(Nat) /\ Len(Whole') = Len(Whole) - (LengthBytes + wanted)
           /\ \A i \in 1 .. Len(Whole') : Whole'[i] = Whole[LengthBytes + wanted + i]
<1>1. /\ Skip + Part <= BytesInBuffer /\ Framed(Whole)
      /\ HalfSent => cells[Wrap(tail + BytesInBuffer - LengthBytes)] = Len(Head(todo))
  BY DEF Good, Framing
<1>2. /\ Skip \in 0 .. Length - 1 /\ Part \in {0, LengthBytes}
      /\ Whole \in Seq(Nat) /\ Len(Whole) = BytesInBuffer - Skip - Part
      /\ \A i \in 1 .. Len(Whole) : Whole[i] = cells[Wrap(tail + (Skip + i - 1))]
  BY <1>1, WholeAt DEF Good
<1>3. /\ tail \in 0 .. Length - 1 /\ BytesInBuffer \in 0 .. Length - 1
      /\ LengthBytes \in 1 .. Length - 1 /\ Length \in Nat
  BY GoodTypes
<1>4. (kind' = "message" /\ Skip' + Part' <= BytesInBuffer') =>
         /\ Skip' \in 0 .. Length - 1 /\ Part' \in {0, LengthBytes}
         /\ Whole' \in Seq(Nat) /\ Len(Whole') = BytesInBuffer' - Skip' - Part'
         /\ \A i \in 1 .. Len(Whole') : Whole'[i] = cells'[Wrap(tail' + (Skip' + i - 1))]
  BY WholeAtNext DEF Good
<1>5. /\ pc["receiver"] = "pastheader" /\ pc' = [pc EXCEPT !["receiver"] = "fit"]
      /\ tail' = Wrap(tail + LengthBytes)
      /\ UNCHANGED <<kind, cells, head, todo, wanted>>
      /\ BytesInBuffer' = BytesInBuffer - LengthBytes
      /\ wanted = cells[tail] /\ LengthBytes + wanted <= avail /\ avail <= BytesInBuffer
      /\ avail > LengthBytes
  BY HeaderMoves DEF Good, Places
<1>6. pc'["sender"] = pc["sender"] /\ pc'["receiver"] = "fit"
  BY <1>5 DEF Good, Typed, TypeOK
<1>7. Skip = 0 /\ Skip' = wanted /\ HalfSent' = HalfSent /\ Part' = Part
  BY <1>5, <1>6 DEF Skip, Part, HalfSent, InMessage
<1>8. wanted \in Nat /\ avail \in Nat
  BY DEF Good, Typed, TypeOK
<1>9. Len(Whole) > 0
  BY <1>2, <1>3, <1>5, <1>7, <1>8
<1>10. Whole[1] = wanted
  <2>1. 1 \in 1 .. Len(Whole)
    BY <1>2, <1>9
  <2>2. Whole[1] = cells[Wrap(tail + (Skip + 1 - 1))]
    BY <1>2, <2>1
  <2>3. tail + (0 + 1 - 1) = tail /\ Wrap(tail) = tail
    BY <1>3 DEF Wrap
  <2>4. QED
    BY <1>5, <1>7, <2>2, <2>3
<1>11. /\ LengthBytes + wanted <= Len(Whole)
       /\ \A v \in Seq(Nat) :
            /\ Len(v) = Len(Whole) - (LengthBytes + wanted)
            /\ \A i \in 1 .. Len(v) : v[i] = Whole[LengthBytes + wanted + i]
            => Framed(v)
  BY <1>1, <1>2, <1>9, <1>10, FramedFirst
<1>12. Skip' + Part' <= BytesInBuffer'
  <2>1. PICK l \in Nat, p \in Nat : l = Len(Whole) /\ p = Part
    BY <1>2, <1>3
  <2>2. l = BytesInBuffer - 0 - p /\ LengthBytes + wanted <= l
    BY <1>2, <1>7, <1>11, <2>1
  <2>3. wanted + p <= BytesInBuffer - LengthBytes
    BY <1>3, <1>8, <2>1, <2>2
  <2>4. QED
    BY <1>5, <1>7, <2>1, <2>3
<1>13. /\ Whole' \in Seq(Nat) /\ Len(Whole') = BytesInBuffer' - Skip' - Part'
       /\ \A i \in 1 .. Len(Whole') : Whole'[i] = cells[Wrap(tail' + (wanted + i - 1))]
  BY <1>4, <1>5, <1>7, <1>12
<1>14. Len(Whole') = Len(Whole) - (LengthBytes + wanted)
  BY <1>2, <1>3, <1>5, <1>7, <1>8, <1>13
<1>15. ASSUME NEW i \in 1 .. Len(Whole')
       PROVE  Whole'[i] = Whole[LengthBytes + wanted + i]
  <2>1. LengthBytes + wanted + i \in 1 .. Len(Whole) /\ wanted + i - 1 \in Nat
        /\ LengthBytes + (wanted + i - 1) <= Length /\ LengthBytes \in Nat
    BY <1>2, <1>3, <1>8, <1>14
  <2>2. Wrap(tail' + (wanted + i - 1)) = Wrap(tail + LengthBytes + (wanted + i - 1))
    BY <1>3, <1>5, <2>1, WrapTwice
  <2>3. tail + LengthBytes + (wanted + i - 1) = tail + (0 + (LengthBytes + wanted + i) - 1)
    BY <1>3, <1>8, <2>1
  <2>4. Whole[LengthBytes + wanted + i] = cells[Wrap(tail + (0 + (LengthBytes + wanted + i) - 1))]
    BY <1>2, <1>7, <2>1
  <2>5. QED
    BY <1>13, <2>2, <2>3, <2>4
<1>16. Framed(Whole')
  BY <1>11, <1>13, <1>14, <1>15
<1>17. HalfSent' => cells'[Wrap(tail' + BytesInBuffer' - LengthBytes)] = Len(Head(todo'))
  <2>1. SUFFICES ASSUME HalfSent PROVE Wrap(tail' + BytesInBuffer' - LengthBytes)
                                       = Wrap(tail + BytesInBuffer - LengthBytes)
    BY <1>1, <1>5, <1>7
  <2>2. Part = LengthBytes
    BY <2>1 DEF Part
  <2> DEFINE m == BytesInBuffer - LengthBytes - LengthBytes
  <2>3. m \in Nat /\ LengthBytes + m <= Length /\ LengthBytes \in Nat
    BY <1>2, <1>3, <1>7, <1>8, <1>11, <2>2
  <2>4. Wrap(tail' + m) = Wrap(tail + LengthBytes + m)
    BY <1>3, <1>5, <2>3, WrapTwice
  <2>5. tail' \in Nat
    BY <1>3 DEF Typed, TypeOK
  <2>6. tail' + (BytesInBuffer - LengthBytes) - LengthBytes = tail' + m
    BY <1>3, <2>5
  <2>7. tail + LengthBytes + m = tail + BytesInBuffer - LengthBytes
    BY <1>3
  <2>8. QED
    BY <1>5, <2>4, <2>6, <2>7
<1>18. QED
  BY <1>10, <1>11, <1>12, <1>13, <1>14, <1>15, <1>16, <1>17 DEF Framing

(* ... or puts it back, ...                                                *)
LEMMA FitWhole ==
    ASSUME Good, Typed', ~clobbered', Fit, kind = "message"
    PROVE  /\ Framing'
           /\ pc'["receiver"] = "copyout" => Whole' = Whole
           /\ pc'["receiver"] = "idle" =>
                /\ Whole'[1] = wanted
                /\ Whole' \in Seq(Nat) /\ Len(Whole') = Len(Whole) + LengthBytes + wanted
                /\ \A i \in 1 .. Len(Whole') : Whole'[i] = cells[Wrap(oldTail + (0 + i - 1))]
                /\ \A i \in 1 .. Len(Whole) : Whole'[LengthBytes + wanted + i] = Whole[i]
<1>1. /\ Skip + Part <= BytesInBuffer /\ Framed(Whole)
      /\ HalfSent => cells[Wrap(tail + BytesInBuffer - LengthBytes)] = Len(Head(todo))
  BY DEF Good, Framing
<1>2. /\ Skip \in 0 .. Length - 1 /\ Part \in {0, LengthBytes}
      /\ Whole \in Seq(Nat) /\ Len(Whole) = BytesInBuffer - Skip - Part
      /\ \A i \in 1 .. Len(Whole) : Whole[i] = cells[Wrap(tail + (Skip + i - 1))]
  BY <1>1, WholeAt DEF Good
<1>3. /\ tail \in 0 .. Length - 1 /\ BytesInBuffer \in 0 .. Length - 1
      /\ LengthBytes \in 1 .. Length - 1 /\ Length \in Nat
  BY GoodTypes
<1>4. (kind' = "message" /\ Skip' + Part' <= BytesInBuffer') =>
         /\ Skip' \in 0 .. Length - 1 /\ Part' \in {0, LengthBytes}
         /\ Whole' \in Seq(Nat) /\ Len(Whole') = BytesInBuffer' - Skip' - Part'
         /\ \A i \in 1 .. Len(Whole') : Whole'[i] = cells'[Wrap(tail' + (Skip' + i - 1))]
  BY WholeAtNext DEF Good
<1>5. /\ pc["receiver"] = "fit" /\ wanted \in 1 .. avail /\ avail <= BytesInBuffer
      /\ tail = Wrap(oldTail + LengthBytes)
      /\ UNCHANGED <<kind, cells, head, todo>> /\ pc'["sender"] = pc["sender"]
  BY FitMoves
<1>6. Skip = wanted /\ HalfSent' = HalfSent /\ Part' = Part
  BY <1>5 DEF Skip, Part, HalfSent, InMessage
<1>7. oldTail \in 0 .. Length - 1 /\ wanted \in Nat \ {0}
  BY <1>5 DEF Good, Typed, TypeOK
<1>8. CASE /\ pc' = [pc EXCEPT !["receiver"] = "copyout"]
           /\ tail' = tail /\ wanted' = wanted
  <2>1. pc'["receiver"] = "copyout"
    BY <1>8 DEF Good, Typed, TypeOK
  <2>2. Skip' = Skip
    BY <1>5, <1>8, <2>1 DEF Skip, InMessage
  <2>3. QED
    <3>1. BytesInBuffer' = BytesInBuffer /\ Part' = Part
      BY <1>5, <1>6, <1>8 DEF BytesInBuffer
    <3>2. Whole' = Whole
      BY <1>5, <1>8, <2>2, <3>1 DEF Whole, Slice
    <3>3. Framing'
      BY <1>5, <1>6, <1>8, <2>2, FramingKept DEF Good
    <3>4. QED
      BY <2>1, <3>2, <3>3
<1>9. CASE /\ pc' = [pc EXCEPT !["receiver"] = "idle"]
           /\ tail' = oldTail /\ BytesInBuffer' = BytesInBuffer + LengthBytes
           /\ cells[oldTail] = wanted
  <2>1. pc'["receiver"] = "idle"
    BY <1>9 DEF Good, Typed, TypeOK
  <2>2. Skip' = 0
    BY <2>1 DEF Skip, InMessage
  <2>3. Skip' + Part' <= BytesInBuffer'
    BY <1>1, <1>2, <1>3, <1>6, <1>9, <2>2
  <2>4. /\ Whole' \in Seq(Nat) /\ Len(Whole') = BytesInBuffer' - Skip' - Part'
        /\ \A i \in 1 .. Len(Whole') : Whole'[i] = cells[Wrap(oldTail + (0 + i - 1))]
    BY <1>4, <1>5, <1>9, <2>2, <2>3
  <2>5. Len(Whole') = Len(Whole) + LengthBytes + wanted
    BY <1>2, <1>3, <1>6, <1>7, <1>9, <2>2, <2>4
  <2>6. Whole'[1] = wanted
    <3>1. 1 \in 1 .. Len(Whole') /\ oldTail + (0 + 1 - 1) = oldTail /\ Wrap(oldTail) = oldTail
      BY <1>2, <1>3, <1>7, <2>5 DEF Wrap
    <3>2. QED
      BY <1>9, <2>4, <3>1
  <2>7. ASSUME NEW i \in 1 .. Len(Whole)
        PROVE  Whole'[LengthBytes + wanted + i] = Whole[i]
    <3>1. LengthBytes + wanted + i \in 1 .. Len(Whole') /\ wanted + i - 1 \in Nat
          /\ LengthBytes + (wanted + i - 1) <= Length /\ LengthBytes \in Nat
      <4>1. PICK l \in Nat, m \in Nat, p \in {0, LengthBytes} :
              l = Len(Whole) /\ m = Len(Whole') /\ p = Part
        BY <1>2, <2>4
      <4>2. l = BytesInBuffer - wanted - p /\ m = l + LengthBytes + wanted /\ i \in 1 .. l
        BY <1>2, <1>6, <2>5, <4>1
      <4>3. LengthBytes + wanted + i \in 1 .. m /\ wanted + i - 1 \in Nat
        BY <1>3, <1>7, <4>2
      <4>4. LengthBytes + (wanted + i - 1) <= Length
        <5>1. wanted + i <= BytesInBuffer
          BY <1>3, <1>7, <4>1, <4>2
        <5>2. BytesInBuffer + LengthBytes <= Length
          BY <1>9, RingCountsNext, StreamBufferAssumption DEF Good
        <5>3. QED
          BY <1>3, <1>7, <4>2, <5>1, <5>2
      <4>5. QED
        BY <1>3, <4>1, <4>3, <4>4
    <3>2. Wrap(tail + (wanted + i - 1)) = Wrap(oldTail + LengthBytes + (wanted + i - 1))
      BY <1>5, <1>7, <3>1, WrapTwice
    <3>3. oldTail + LengthBytes + (wanted + i - 1)
          = oldTail + (0 + (LengthBytes + wanted + i) - 1)
      BY <1>3, <1>7, <3>1
    <3>4. Whole'[LengthBytes + wanted + i]
          = cells[Wrap(oldTail + (0 + (LengthBytes + wanted + i) - 1))]
      BY <2>4, <3>1
    <3>5. Whole[i] = cells[Wrap(tail + (wanted + i - 1))]
      BY <1>2, <1>6
    <3>6. QED
      BY <3>2, <3>3, <3>4, <3>5
  <2>8. Framed(Whole')
    BY <1>1, <1>2, <1>7, <2>4, <2>5, <2>6, <2>7, FramedPutBack
  <2>9. HalfSent' => cells'[Wrap(tail' + BytesInBuffer' - LengthBytes)] = Len(Head(todo'))
    <3>1. SUFFICES ASSUME HalfSent PROVE Wrap(tail' + BytesInBuffer' - LengthBytes)
                                         = Wrap(tail + BytesInBuffer - LengthBytes)
      BY <1>1, <1>5, <1>6
    <3>2. Part = LengthBytes
      BY <3>1 DEF Part
    <3> DEFINE m == BytesInBuffer - LengthBytes
    <3>3. m \in Nat /\ LengthBytes + m <= Length /\ LengthBytes \in Nat
      BY <1>1, <1>2, <1>3, <3>2
    <3>4. Wrap(tail + m) = Wrap(oldTail + LengthBytes + m)
      BY <1>5, <1>7, <3>3, WrapTwice
    <3>5. oldTail + (BytesInBuffer + LengthBytes) - LengthBytes = oldTail + LengthBytes + m
      BY <1>3, <1>7
    <3>6. tail + m = tail + BytesInBuffer - LengthBytes
      BY <1>3
    <3>7. QED
      BY <1>9, <3>4, <3>5, <3>6
  <2>10. QED
    BY <2>1, <2>3, <2>4, <2>5, <2>6, <2>7, <2>8, <2>9 DEF Framing
<1>10. QED
  BY <1>8, <1>9, FitMoves

(* ... and when it has it, those behind it are what there is.              *)
LEMMA DataWhole ==
    ASSUME Good, Typed', ~clobbered', PassData, kind = "message"
    PROVE  Framing' /\ Whole' = Whole
<1>1. /\ Skip + Part <= BytesInBuffer /\ Framed(Whole)
      /\ HalfSent => cells[Wrap(tail + BytesInBuffer - LengthBytes)] = Len(Head(todo))
  BY DEF Good, Framing
<1>2. /\ Skip \in 0 .. Length - 1 /\ Part \in {0, LengthBytes}
      /\ Whole \in Seq(Nat) /\ Len(Whole) = BytesInBuffer - Skip - Part
      /\ \A i \in 1 .. Len(Whole) : Whole[i] = cells[Wrap(tail + (Skip + i - 1))]
  BY <1>1, WholeAt DEF Good
<1>3. /\ tail \in 0 .. Length - 1 /\ BytesInBuffer \in 0 .. Length - 1
      /\ LengthBytes \in 1 .. Length - 1 /\ Length \in Nat
  BY GoodTypes
<1>4. (kind' = "message" /\ Skip' + Part' <= BytesInBuffer') =>
         /\ Skip' \in 0 .. Length - 1 /\ Part' \in {0, LengthBytes}
         /\ Whole' \in Seq(Nat) /\ Len(Whole') = BytesInBuffer' - Skip' - Part'
         /\ \A i \in 1 .. Len(Whole') : Whole'[i] = cells'[Wrap(tail' + (Skip' + i - 1))]
  BY WholeAtNext DEF Good
<1>5. /\ pc["receiver"] = "pastdata" /\ pc' = [pc EXCEPT !["receiver"] = "complete"]
      /\ wanted \in 1 .. BytesInBuffer /\ wanted \in 0 .. Length - 1
      /\ UNCHANGED <<kind, cells, head, todo>>
      /\ tail' = Wrap(tail + wanted) /\ BytesInBuffer' = BytesInBuffer - wanted
  BY DataMoves
<1>6. pc'["sender"] = pc["sender"] /\ pc'["receiver"] = "complete"
  BY <1>5 DEF Good, Typed, TypeOK
<1>7. Skip = wanted /\ Skip' = 0 /\ HalfSent' = HalfSent /\ Part' = Part
  BY <1>5, <1>6 DEF Skip, Part, HalfSent, InMessage
<1>8. Skip' + Part' <= BytesInBuffer'
  BY <1>1, <1>2, <1>3, <1>5, <1>7
<1>9. /\ Whole' \in Seq(Nat) /\ Len(Whole') = Len(Whole)
      /\ \A i \in 1 .. Len(Whole') : Whole'[i] = cells[Wrap(tail' + (0 + i - 1))]
  BY <1>2, <1>3, <1>4, <1>5, <1>7, <1>8
<1>10. ASSUME NEW i \in 1 .. Len(Whole)
       PROVE  Whole'[i] = Whole[i]
  <2>1. 0 + i - 1 \in Nat /\ wanted + (0 + i - 1) <= Length /\ wanted \in Nat
    BY <1>2, <1>3, <1>5, <1>7
  <2>2. Wrap(tail' + (0 + i - 1)) = Wrap(tail + wanted + (0 + i - 1))
    BY <1>3, <1>5, <2>1, WrapTwice
  <2>3. tail + wanted + (0 + i - 1) = tail + (wanted + i - 1)
    BY <1>3, <2>1
  <2>4. QED
    BY <1>2, <1>7, <1>9, <2>2, <2>3
<1>11. Whole' = Whole
  BY <1>2, <1>9, <1>10, SameSequence
<1>12. HalfSent' => cells'[Wrap(tail' + BytesInBuffer' - LengthBytes)] = Len(Head(todo'))
  <2>1. SUFFICES ASSUME HalfSent PROVE Wrap(tail' + BytesInBuffer' - LengthBytes)
                                       = Wrap(tail + BytesInBuffer - LengthBytes)
    BY <1>1, <1>5, <1>7
  <2>2. Part = LengthBytes
    BY <2>1 DEF Part
  <2> DEFINE m == BytesInBuffer - wanted - LengthBytes
  <2>3. m \in Nat /\ wanted + m <= Length /\ wanted \in Nat
    BY <1>1, <1>2, <1>3, <1>5, <1>7, <2>2
  <2>4. Wrap(tail' + m) = Wrap(tail + wanted + m)
    BY <1>3, <1>5, <2>3, WrapTwice
  <2>5. tail' \in Nat
    BY <1>3 DEF Typed, TypeOK
  <2>6. tail' + (BytesInBuffer - wanted) - LengthBytes = tail' + m
    BY <1>3, <2>3, <2>5
  <2>7. tail + wanted + m = tail + BytesInBuffer - LengthBytes
    BY <1>3, <2>3
  <2>8. QED
    BY <1>5, <2>4, <2>6, <2>7
<1>13. QED
  BY <1>1, <1>8, <1>11, <1>12 DEF Framing

(* The messages stay whole.                                                *)
LEMMA FramingStep == Good /\ Typed' /\ ~clobbered' /\ [Next]_vars => Framing'
<1> SUFFICES ASSUME Good /\ Typed' /\ ~clobbered', [Next]_vars PROVE Framing'
  OBVIOUS
<1> USE DEF At, Goto, Return, Forgets, Register, Other, Ends, ring, sync,
  sending, receiving
<1>1. CASE Send
  <2>1. UNCHANGED <<kind, cells, head, tail, todo, wanted>>
    BY <1>1 DEF Send
  <2>2. HalfSent' = HalfSent /\ InMessage' = InMessage
    BY <1>1, <2>1 DEF Send, HalfSent, InMessage, Good, Typed, TypeOK
  <2>3. Skip' = Skip
    BY <2>1, <2>2 DEF Skip
  <2>4. QED
    BY <2>1, <2>2, <2>3, FramingKept DEF Good
<1>2. CASE Receive
  <2>1. UNCHANGED <<kind, cells, head, tail, todo, wanted>>
    BY <1>2 DEF Receive
  <2>2. HalfSent' = HalfSent /\ InMessage' = InMessage
    BY <1>2, <2>1 DEF Receive, HalfSent, InMessage, Good, Typed, TypeOK
  <2>3. Skip' = Skip
    BY <2>1, <2>2 DEF Skip
  <2>4. QED
    BY <2>1, <2>2, <2>3, FramingKept DEF Good
<1>3. CASE CheckSpace
  <2>1. UNCHANGED <<kind, cells, head, tail, todo, wanted>>
    BY <1>3 DEF CheckSpace
  <2>2. HalfSent' = HalfSent /\ InMessage' = InMessage
    BY <1>3, <2>1 DEF CheckSpace, HalfSent, InMessage, Good, Typed, TypeOK
  <2>3. Skip' = Skip
    BY <2>1, <2>2 DEF Skip
  <2>4. QED
    BY <2>1, <2>2, <2>3, FramingKept DEF Good
<1>4. CASE TimeOut
  <2>1. UNCHANGED <<kind, cells, head, tail, todo, wanted>>
    BY <1>4 DEF TimeOut
  <2>2. HalfSent' = HalfSent /\ InMessage' = InMessage
    BY <1>4, <2>1 DEF TimeOut, HalfSent, InMessage, Good, Typed, TypeOK
  <2>3. Skip' = Skip
    BY <2>1, <2>2 DEF Skip
  <2>4. QED
    BY <2>1, <2>2, <2>3, FramingKept DEF Good
<1>5. CASE LastSpace
  <2>1. UNCHANGED <<kind, cells, head, tail, todo, wanted>>
    BY <1>5 DEF LastSpace
  <2>2. HalfSent' = HalfSent /\ InMessage' = InMessage
    BY <1>5, <2>1 DEF LastSpace, HalfSent, InMessage, Good, Typed, TypeOK
  <2>3. Skip' = Skip
    BY <2>1, <2>2 DEF Skip
  <2>4. QED
    BY <2>1, <2>2, <2>3, FramingKept DEF Good
<1>6. CASE Write
  <2>1. /\ UNCHANGED <<kind, cells, head, tail, wanted>> /\ pc["sender"] = "write"
        /\ pc'["receiver"] = pc["receiver"]
    BY <1>6 DEF Write, Good, Typed, TypeOK
  <2>2. ~HalfSent
    BY <2>1 DEF HalfSent
  <2>3. ~HalfSent'
    <3>1. CASE kind = "message" /\ pc'["sender"] = "copy"
      <4>1. todo' = <<Header(Len(data)), data>>
        BY <1>6, <3>1 DEF Write, Good, Typed, TypeOK
      <4>2. Len(<<Header(Len(data)), data>>) # 1
        OBVIOUS
      <4>3. QED
        BY <4>1, <4>2 DEF HalfSent
    <3>2. pc'["sender"] \in {"copy", "idle"}
      BY <1>6 DEF Write, Good, Typed, TypeOK
    <3>3. QED
      BY <2>1, <3>1, <3>2 DEF HalfSent
  <2>4. Skip' = Skip
    BY <2>1 DEF Skip, InMessage
  <2>5. HalfSent' = HalfSent /\ (HalfSent => todo' = todo)
    BY <2>2, <2>3 DEF HalfSent
  <2>6. QED
    BY <2>1, <2>4, <2>5, FramingKept DEF Good
<1>7. CASE Copy
  <2>1. CASE kind # "message"
    BY <1>7, <2>1 DEF Copy, Framing
  <2>2. CASE kind = "message"
    BY <1>7, <2>2, CopyWhole
  <2>3. QED
    BY <2>1, <2>2
<1>8. CASE Advance
  <2>1. CASE kind # "message"
    BY <1>8, <2>1 DEF Advance, Framing
  <2>2. CASE kind = "message"
    BY <1>8, <2>2, AdvanceWhole
  <2>3. QED
    BY <2>1, <2>2
<1>9. CASE Level
  <2>1. UNCHANGED <<kind, cells, head, tail, todo, wanted>>
    BY <1>9 DEF Level
  <2>2. HalfSent' = HalfSent /\ InMessage' = InMessage
    BY <1>9, <2>1 DEF Level, HalfSent, InMessage, Good, Typed, TypeOK
  <2>3. Skip' = Skip
    BY <2>1, <2>2 DEF Skip
  <2>4. QED
    BY <2>1, <2>2, <2>3, FramingKept DEF Good
<1>10. CASE CheckBytes
  <2>1. UNCHANGED <<kind, cells, head, tail, todo, wanted>>
    BY <1>10 DEF CheckBytes
  <2>2. HalfSent' = HalfSent /\ InMessage' = InMessage
    BY <1>10, <2>1 DEF CheckBytes, HalfSent, InMessage, Good, Typed, TypeOK
  <2>3. Skip' = Skip
    BY <2>1, <2>2 DEF Skip
  <2>4. QED
    BY <2>1, <2>2, <2>3, FramingKept DEF Good
<1>11. CASE Recheck
  <2>1. UNCHANGED <<kind, cells, head, tail, todo, wanted>>
    BY <1>11 DEF Recheck
  <2>2. HalfSent' = HalfSent /\ InMessage' = InMessage
    BY <1>11, <2>1 DEF Recheck, HalfSent, InMessage, Good, Typed, TypeOK
  <2>3. Skip' = Skip
    BY <2>1, <2>2 DEF Skip
  <2>4. QED
    BY <2>1, <2>2, <2>3, FramingKept DEF Good
<1>12. CASE Read
  <2>1. /\ UNCHANGED <<kind, cells, head, tail, todo>> /\ pc["receiver"] = "read"
        /\ pc'["sender"] = pc["sender"]
    BY <1>12 DEF Read, Good, Typed, TypeOK
  <2>2. HalfSent' = HalfSent
    BY <2>1 DEF HalfSent
  <2>3. kind = "message" => ~InMessage'
    BY <1>12 DEF Read, InMessage, Good, Typed, TypeOK
  <2>4. Skip' = Skip
    BY <2>1, <2>3 DEF Skip, InMessage
  <2>5. QED
    BY <2>1, <2>2, <2>4, FramingKept DEF Good
<1>13. CASE ReadLength
  <2>1. /\ UNCHANGED <<kind, cells, head, tail, todo>> /\ pc["receiver"] = "header"
        /\ pc'["sender"] = pc["sender"] /\ pc'["receiver"] = "pastheader"
    BY <1>13 DEF ReadLength, Good, Typed, TypeOK
  <2>2. HalfSent' = HalfSent
    BY <2>1 DEF HalfSent
  <2>3. Skip' = Skip
    BY <2>1 DEF Skip, InMessage
  <2>4. QED
    BY <2>1, <2>2, <2>3, FramingKept DEF Good
<1>14. CASE PassHeader
  <2>1. CASE kind # "message"
    BY <1>14, <2>1 DEF PassHeader, Framing
  <2>2. CASE kind = "message"
    BY <1>14, <2>2, HeaderWhole
  <2>3. QED
    BY <2>1, <2>2
<1>15. CASE Fit
  <2>1. CASE kind # "message"
    BY <1>15, <2>1 DEF Fit, Framing
  <2>2. CASE kind = "message"
    BY <1>15, <2>2, FitWhole
  <2>3. QED
    BY <2>1, <2>2
<1>16. CASE CopyOut
  <2>1. UNCHANGED <<kind, cells, head, tail, todo, wanted>>
    BY <1>16 DEF CopyOut
  <2>2. HalfSent' = HalfSent /\ InMessage' = InMessage
    BY <1>16, <2>1 DEF CopyOut, HalfSent, InMessage, Good, Typed, TypeOK
  <2>3. Skip' = Skip
    BY <2>1, <2>2 DEF Skip
  <2>4. QED
    BY <2>1, <2>2, <2>3, FramingKept DEF Good
<1>17. CASE PassData
  <2>1. CASE kind # "message"
    BY <1>17, <2>1 DEF PassData, Framing
  <2>2. CASE kind = "message"
    BY <1>17, <2>2, DataWhole
  <2>3. QED
    BY <2>1, <2>2
<1>18. CASE SetTriggerLevel
  <2>1. UNCHANGED <<kind, cells, head, tail, todo, wanted>>
    BY <1>18 DEF SetTriggerLevel
  <2>2. HalfSent' = HalfSent /\ InMessage' = InMessage
    BY <1>18, <2>1 DEF SetTriggerLevel, HalfSent, InMessage, Good, Typed, TypeOK
  <2>3. Skip' = Skip
    BY <2>1, <2>2 DEF Skip
  <2>4. QED
    BY <2>1, <2>2, <2>3, FramingKept DEF Good
<1>19. CASE Reset
  <2>1. /\ kind' = kind /\ head' = 0 /\ tail' = 0 /\ pc' = pc
        /\ pc["sender"] = "idle" /\ pc["receiver"] = "idle"
    BY <1>19 DEF Reset
  <2>2. ~HalfSent' /\ Skip' = 0 /\ Part' = 0
    BY <2>1 DEF HalfSent, Skip, Part, InMessage
  <2>3. BytesInBuffer' = 0
    BY <2>1, StreamBufferAssumption DEF BytesInBuffer
  <2>4. kind' = "message" => Framed(Whole')
    <3>1. SUFFICES ASSUME kind' = "message" PROVE Framed(Whole')
      OBVIOUS
    <3>2. Skip' + Part' <= BytesInBuffer'
      BY <2>2, <2>3
    <3>3. Whole' \in Seq(Nat) /\ Len(Whole') = BytesInBuffer' - Skip' - Part'
      BY <3>1, <3>2, WholeAtNext
    <3>4. Len(Whole') = 0
      BY <2>2, <2>3, <3>3
    <3>5. QED
      BY <3>3, <3>4, FramedEmpty
  <2>5. QED
    BY <2>2, <2>3, <2>4 DEF Framing
<1>20. ASSUME NEW e \in Ends, Wait(e) PROVE Framing'
  <2>1. UNCHANGED <<kind, cells, head, tail, todo, wanted>>
    BY <1>20 DEF Wait
  <2>2. HalfSent' = HalfSent /\ InMessage' = InMessage
    BY <1>20, <2>1 DEF Wait, HalfSent, InMessage, Good, Typed, TypeOK
  <2>3. Skip' = Skip
    BY <2>1, <2>2 DEF Skip
  <2>4. QED
    BY <2>1, <2>2, <2>3, FramingKept DEF Good
<1>21. ASSUME NEW e \in Ends, Woken(e) PROVE Framing'
  <2>1. UNCHANGED <<kind, cells, head, tail, todo, wanted>>
    BY <1>21 DEF Woken
  <2>2. HalfSent' = HalfSent /\ InMessage' = InMessage
    BY <1>21, <2>1 DEF Woken, HalfSent, InMessage, Good, Typed, TypeOK
  <2>3. Skip' = Skip
    BY <2>1, <2>2 DEF Skip
  <2>4. QED
    BY <2>1, <2>2, <2>3, FramingKept DEF Good
<1>22. ASSUME NEW e \in Ends, ForgetSelf(e) PROVE Framing'
  <2>1. UNCHANGED <<kind, cells, head, tail, todo, wanted>>
    BY <1>22 DEF ForgetSelf
  <2>2. HalfSent' = HalfSent /\ InMessage' = InMessage
    BY <1>22, <2>1 DEF ForgetSelf, HalfSent, InMessage, Good, Typed, TypeOK
  <2>3. Skip' = Skip
    BY <2>1, <2>2 DEF Skip
  <2>4. QED
    BY <2>1, <2>2, <2>3, FramingKept DEF Good
<1>23. ASSUME NEW e \in Ends, Complete(e) PROVE Framing'
  <2>1. UNCHANGED <<kind, cells, head, tail, todo, wanted>>
    BY <1>23 DEF Complete
  <2>2. HalfSent' = HalfSent /\ InMessage' = InMessage
    BY <1>23, <2>1 DEF Complete, HalfSent, InMessage, Good, Typed, TypeOK
  <2>3. Skip' = Skip
    BY <2>1, <2>2 DEF Skip
  <2>4. QED
    BY <2>1, <2>2, <2>3, FramingKept DEF Good
<1>24. ASSUME NEW e \in Ends, Notify(e) PROVE Framing'
  <2>1. UNCHANGED <<kind, cells, head, tail, todo, wanted>>
    BY <1>24 DEF Notify
  <2>2. HalfSent' = HalfSent /\ InMessage' = InMessage
    BY <1>24, <2>1 DEF Notify, HalfSent, InMessage, Good, Typed, TypeOK
  <2>3. Skip' = Skip
    BY <2>1, <2>2 DEF Skip
  <2>4. QED
    BY <2>1, <2>2, <2>3, FramingKept DEF Good
<1>25. ASSUME NEW e \in Ends, Forget(e) PROVE Framing'
  <2>1. UNCHANGED <<kind, cells, head, tail, todo, wanted>>
    BY <1>25 DEF Forget
  <2>2. HalfSent' = HalfSent /\ InMessage' = InMessage
    BY <1>25, <2>1 DEF Forget, HalfSent, InMessage, Good, Typed, TypeOK
  <2>3. Skip' = Skip
    BY <2>1, <2>2 DEF Skip
  <2>4. QED
    BY <2>1, <2>2, <2>3, FramingKept DEF Good
<1>26. ASSUME NEW e \in Ends, Expire(e) PROVE Framing'
  <2>1. UNCHANGED <<kind, cells, head, tail, todo, wanted>>
    BY <1>26 DEF Expire
  <2>2. HalfSent' = HalfSent /\ InMessage' = InMessage
    BY <1>26, <2>1 DEF Expire, HalfSent, InMessage, Good, Typed, TypeOK
  <2>3. Skip' = Skip
    BY <2>1, <2>2 DEF Skip
  <2>4. QED
    BY <2>1, <2>2, <2>3, FramingKept DEF Good
<1>27. CASE UNCHANGED vars
  <2>1. UNCHANGED <<kind, cells, head, tail, todo, wanted, pc>>
    BY <1>27 DEF vars
  <2>2. HalfSent' = HalfSent /\ InMessage' = InMessage
    BY <2>1 DEF HalfSent, InMessage
  <2>3. Skip' = Skip
    BY <2>1, <2>2 DEF Skip
  <2>4. QED
    BY <2>1, <2>2, <2>3, FramingKept DEF Good
<1>28. QED
  BY <1>1, <1>2, <1>3, <1>4, <1>5, <1>6, <1>7, <1>8, <1>9, <1>10, <1>11,
    <1>12, <1>13, <1>14, <1>15, <1>16, <1>17, <1>18, <1>19, <1>20, <1>21,
    <1>22, <1>23, <1>24, <1>25, <1>26, <1>27
    DEF Next, Sender, Receiver, Common

-----------------------------------------------------------------------------
(* What the receiver takes *)

LEMMA TakingKept ==
    ASSUME Good, Typed', UNCHANGED <<kind, tail, avail, wanted, oldTail, copied, size>>,
           pc'["receiver"] = pc["receiver"], BytesInBuffer <= BytesInBuffer',
           \A k \in 0 .. BytesInBuffer - 1 : cells'[Wrap(tail + k)] = cells[Wrap(tail + k)],
           pc["receiver"] = "fit" /\ BytesInBuffer' + LengthBytes + Pending' < Length
             => /\ BytesInBuffer + LengthBytes + Pending < Length
                /\ cells'[oldTail] = cells[oldTail]
    PROVE  Taking'
<1>1. /\ tail \in 0 .. Length - 1 /\ BytesInBuffer \in 0 .. Length - 1
      /\ BytesInBuffer' \in 0 .. Length - 1 /\ Length \in Nat /\ LengthBytes \in Nat
      /\ wanted \in Nat /\ avail \in Nat /\ Prefix \in Nat /\ Prefix' = Prefix
  BY GoodTypes, RingCountsNext DEF Prefix, Good
<1>2. BytesInBuffer > 0 => cells'[tail] = cells[tail]
  <2>1. SUFFICES ASSUME BytesInBuffer > 0 PROVE cells'[tail] = cells[tail]
    OBVIOUS
  <2>2. 0 \in 0 .. BytesInBuffer - 1 /\ tail + 0 = tail /\ Wrap(tail) = tail
    BY <1>1, <2>1 DEF Wrap
  <2>3. cells'[Wrap(tail + 0)] = cells[Wrap(tail + 0)]
    BY <2>2
  <2>4. QED
    BY <2>2, <2>3
<1>3. pc'["receiver"] \in Asked => size' \in Nat \ {0}
  BY DEF Good, Taking
<1>4. ASSUME pc'["receiver"] \in {"read", "header", "pastheader"}, avail' > Prefix'
      PROVE  /\ avail' <= BytesInBuffer'
             /\ kind' = "message" => LengthBytes + cells'[tail'] <= avail'
  <2>1. /\ avail <= BytesInBuffer /\ avail > Prefix
        /\ kind = "message" => LengthBytes + cells[tail] <= avail
    BY <1>1, <1>4 DEF Good, Taking
  <2>2. BytesInBuffer > 0
    BY <1>1, <2>1
  <2>3. avail' <= BytesInBuffer'
    BY <1>1, <2>1
  <2>4. QED
    BY <1>2, <2>1, <2>2, <2>3
<1>5. ASSUME pc'["receiver"] = "pastheader"
      PROVE  wanted' = cells'[tail']
  <2>1. kind = "message" /\ avail > LengthBytes
    BY <1>5 DEF Good, Places
  <2>2. avail <= BytesInBuffer /\ wanted = cells[tail]
    BY <1>5, <2>1 DEF Good, Taking, Prefix
  <2>3. BytesInBuffer > 0
    BY <1>1, <2>1, <2>2
  <2>4. QED
    BY <1>2, <2>2, <2>3
<1>6. ASSUME pc'["receiver"] = "fit"
      PROVE  /\ wanted' \in 1 .. avail' /\ avail' <= BytesInBuffer'
             /\ BytesInBuffer' + LengthBytes + Pending' < Length => cells'[oldTail'] = wanted'
  <2>1. /\ wanted \in 1 .. avail /\ avail <= BytesInBuffer
        /\ BytesInBuffer + LengthBytes + Pending < Length => cells[oldTail] = wanted
    BY <1>6 DEF Good, Taking
  <2>2. avail' <= BytesInBuffer'
    BY <1>1, <2>1
  <2>3. QED
    BY <1>6, <2>1, <2>2
<1>7. ASSUME pc'["receiver"] \in {"copyout", "pastdata"}
      PROVE  wanted' \in 1 .. BytesInBuffer'
  <2>1. wanted \in 1 .. BytesInBuffer
    BY <1>7 DEF Good, Taking
  <2>2. QED
    BY <1>1, <2>1
<1>8. ASSUME pc'["receiver"] = "pastdata"
      PROVE  copied' = (Slice(tail, wanted))'
  <2>1. wanted \in 1 .. BytesInBuffer /\ copied = Slice(tail, wanted)
    BY <1>8 DEF Good, Taking
  <2>2. \A i \in 1 .. wanted : cells'[Wrap(tail + i - 1)] = cells[Wrap(tail + i - 1)]
    <3>1. TAKE i \in 1 .. wanted
    <3>2. i - 1 \in 0 .. BytesInBuffer - 1 /\ tail + i - 1 = tail + (i - 1)
      BY <1>1, <2>1
    <3>3. QED
      BY <3>2
  <2>3. QED
    BY <2>1, <2>2 DEF Slice
<1>9. QED
  BY <1>3, <1>4, <1>5, <1>6, <1>7, <1>8 DEF Taking

LEMMA TakingSame ==
    ASSUME Good, Typed', UNCHANGED <<kind, cells, head, tail, avail, wanted, oldTail, copied, size>>,
           pc'["receiver"] = pc["receiver"], Pending' = Pending
    PROVE  Taking'
<1>1. BytesInBuffer' = BytesInBuffer /\ BytesInBuffer \in Nat
  BY GoodTypes DEF BytesInBuffer
<1>2. BytesInBuffer <= BytesInBuffer'
  BY <1>1
<1>3. QED
  BY <1>1, <1>2, TakingKept

LEMMA TakingOver ==
    ASSUME pc'["receiver"] \in Asked => size' \in Nat \ {0},
           pc'["receiver"] \notin {"read", "header", "pastheader", "fit", "copyout", "pastdata"}
    PROVE  Taking'
BY DEF Taking

(* The length of the first message *)
LEMMA FirstLength ==
    ASSUME Good, kind = "message", Skip = 0, BytesInBuffer > LengthBytes
    PROVE  LengthBytes + cells[tail] <= BytesInBuffer /\ cells[tail] \in Nat \ {0}
<1>1. /\ Skip + Part <= BytesInBuffer /\ Framed(Whole)
  BY DEF Good, Framing
<1>2. /\ Part \in {0, LengthBytes} /\ Whole \in Seq(Nat)
      /\ Len(Whole) = BytesInBuffer - Skip - Part
      /\ \A i \in 1 .. Len(Whole) : Whole[i] = cells[Wrap(tail + (Skip + i - 1))]
  BY <1>1, WholeAt DEF Good
<1>3. /\ tail \in 0 .. Length - 1 /\ BytesInBuffer \in 0 .. Length - 1
      /\ LengthBytes \in 1 .. Length - 1 /\ Length \in Nat
  BY GoodTypes
<1>4. PICK l \in Nat, p \in {0, LengthBytes} : l = Len(Whole) /\ p = Part
  BY <1>2
<1>5. l = BytesInBuffer - 0 - p
  BY <1>2, <1>4
<1>6. l > 0 /\ l <= BytesInBuffer
  BY <1>3, <1>4, <1>5
<1>7. 1 \in 1 .. Len(Whole) /\ Len(Whole) > 0
  BY <1>4, <1>6
<1>8. Whole[1] = cells[Wrap(tail + (Skip + 1 - 1))]
  BY <1>2, <1>7
<1>9. tail + (0 + 1 - 1) = tail /\ Wrap(tail) = tail
  BY <1>3 DEF Wrap
<1>10. Whole[1] = cells[tail]
  BY <1>8, <1>9
<1>11. Whole[1] \in Nat \ {0} /\ LengthBytes + Whole[1] <= Len(Whole)
  BY <1>1, <1>2, <1>7, FramedFirst
<1>12. QED
  BY <1>3, <1>4, <1>6, <1>10, <1>11
(* The receiver's locals go on fitting the ring.                           *)
LEMMA TakingStep == Good /\ Typed' /\ ~clobbered' /\ [Next]_vars => Taking'
<1> SUFFICES ASSUME Good /\ Typed' /\ ~clobbered', [Next]_vars PROVE Taking'
  OBVIOUS
<1> USE DEF At, Goto, Return, Forgets, Register, Other, Ends, ring, sync,
  sending, receiving
<1>1. CASE Send
  <2>1. /\ UNCHANGED <<kind, cells, head, tail, avail, wanted, oldTail, copied, size>>
        /\ pc'["receiver"] = pc["receiver"]
    BY <1>1 DEF Send, Good, Typed, TypeOK
  <2>2. Pending' = Pending
    BY <1>1 DEF Send, Pending, Good, Typed, TypeOK
  <2>3. QED
    BY <2>1, <2>2, TakingSame
<1>2. CASE Receive
  <2>1. pc'["receiver"] \in {"recheck", "check"} /\ size' \in RxSizes
    BY <1>2 DEF Receive, Good, Typed, TypeOK
  <2>2. size' \in Nat \ {0}
    BY <2>1, StreamBufferAssumption
  <2>3. QED
    BY <2>1, <2>2, TakingOver
<1>3. CASE CheckSpace
  <2>1. /\ UNCHANGED <<kind, cells, head, tail, avail, wanted, oldTail, copied, size>>
        /\ pc'["receiver"] = pc["receiver"]
    BY <1>3 DEF CheckSpace, Good, Typed, TypeOK
  <2>2. Pending' = Pending
    BY <1>3 DEF CheckSpace, Pending, Good, Typed, TypeOK
  <2>3. QED
    BY <2>1, <2>2, TakingSame
<1>4. CASE TimeOut
  <2>1. /\ UNCHANGED <<kind, cells, head, tail, avail, wanted, oldTail, copied, size>>
        /\ pc'["receiver"] = pc["receiver"]
    BY <1>4 DEF TimeOut, Good, Typed, TypeOK
  <2>2. Pending' = Pending
    BY <1>4 DEF TimeOut, Pending, Good, Typed, TypeOK
  <2>3. QED
    BY <2>1, <2>2, TakingSame
<1>5. CASE LastSpace
  <2>1. /\ UNCHANGED <<kind, cells, head, tail, avail, wanted, oldTail, copied, size>>
        /\ pc'["receiver"] = pc["receiver"]
    BY <1>5 DEF LastSpace, Good, Typed, TypeOK
  <2>2. Pending' = Pending
    BY <1>5 DEF LastSpace, Pending, Good, Typed, TypeOK
  <2>3. QED
    BY <2>1, <2>2, TakingSame
<1>6. CASE Write
  <2>1. /\ UNCHANGED <<kind, cells, head, tail, avail, wanted, oldTail, copied, size>>
        /\ pc'["receiver"] = pc["receiver"]
    BY <1>6 DEF Write, Good, Typed, TypeOK
  <2>2. Pending' = Pending
    BY <1>6 DEF Write, Pending, Good, Typed, TypeOK
  <2>3. QED
    BY <2>1, <2>2, TakingSame
<1>7. CASE Copy
  <2>1. /\ pc["sender"] = "copy" /\ pc' = [pc EXCEPT !["sender"] = "advance"]
        /\ Len(Head(todo)) \in 1 .. Length - 1
        /\ UNCHANGED <<kind, head, tail, todo, wanted, avail, oldTail, copied, size>>
        /\ \A x \in 0 .. Length - 1 :
             (\A i \in 1 .. Len(Head(todo)) : x # Wrap(head + i - 1)) => cells'[x] = cells[x]
    BY <1>7, CopyMoves DEF Good
  <2>2. pc'["receiver"] = pc["receiver"] /\ pc'["sender"] = "advance"
    BY <2>1 DEF Good, Typed, TypeOK
  <2>3. Pending = 0 /\ Pending' = Len(Head(todo)) /\ BytesInBuffer' = BytesInBuffer
    BY <2>1, <2>2 DEF Pending, BytesInBuffer
  <2>4. \A k \in 0 .. BytesInBuffer - 1 : cells'[Wrap(tail + k)] = cells[Wrap(tail + k)]
    BY <1>7, CopyKeeps DEF Good
  <2>5. ASSUME pc["receiver"] = "fit", BytesInBuffer' + LengthBytes + Pending' < Length
        PROVE  BytesInBuffer + LengthBytes + Pending < Length /\ cells'[oldTail] = cells[oldTail]
    <3>1. /\ oldTail \in 0 .. Length - 1 /\ BytesInBuffer \in 0 .. Length - 1
          /\ LengthBytes \in 1 .. Length - 1 /\ Length \in Nat
      BY GoodTypes
    <3>2. PICK n \in 1 .. Length - 1 : n = Len(Head(todo))
      BY <2>1
    <3>3. BytesInBuffer + LengthBytes + n < Length
      BY <2>3, <2>5, <3>2
    <3>4. tail = Wrap(oldTail + LengthBytes) /\ head = Wrap(tail + BytesInBuffer)
      BY <2>5, RingCounts DEF Good, Places
    <3>5. ASSUME NEW i \in 1 .. n PROVE oldTail # Wrap(head + i - 1)
      <4>1. head = Wrap(oldTail + (LengthBytes + BytesInBuffer))
        <5>1. LengthBytes + BytesInBuffer <= Length /\ LengthBytes \in Nat /\ BytesInBuffer \in Nat
          BY <3>1, <3>3
        <5>2. Wrap(Wrap(oldTail + LengthBytes) + BytesInBuffer)
              = Wrap(oldTail + LengthBytes + BytesInBuffer)
          BY <3>1, <5>1, WrapTwice
        <5>3. oldTail + LengthBytes + BytesInBuffer = oldTail + (LengthBytes + BytesInBuffer)
          BY <3>1
        <5>4. QED
          BY <3>4, <5>2, <5>3
      <4> DEFINE m == LengthBytes + BytesInBuffer
      <4>2. m \in Nat /\ i - 1 \in Nat /\ m + (i - 1) \in 1 .. Length - 1 /\ m + (i - 1) <= Length
        BY <3>1, <3>3
      <4>3. Wrap(Wrap(oldTail + m) + (i - 1)) = Wrap(oldTail + m + (i - 1))
        BY <3>1, <4>2, WrapTwice
      <4>4. oldTail + m + (i - 1) = oldTail + (m + (i - 1)) /\ head + (i - 1) = head + i - 1
        BY <3>1, <4>2, GoodTypes
      <4> HIDE DEF m
      <4>5. Wrap(oldTail + 0) # Wrap(oldTail + (m + (i - 1)))
        <5>1. 0 \in 0 .. Length - 1 /\ m + (i - 1) \in 0 .. Length - 1 /\ 0 # m + (i - 1)
          BY <3>1, <4>2
        <5>2. QED
          BY <3>1, <5>1, WrapApart
      <4>6. Wrap(oldTail + 0) = oldTail
        BY <3>1 DEF Wrap
      <4>7. Wrap(head + i - 1) = Wrap(oldTail + (m + (i - 1)))
        BY <4>1, <4>3, <4>4 DEF m
      <4>8. QED
        BY <4>5, <4>6, <4>7
    <3>6. cells'[oldTail] = cells[oldTail]
      BY <2>1, <3>1, <3>2, <3>5
    <3>7. BytesInBuffer + LengthBytes + 0 < Length
      <4>1. \A b \in 0 .. Length - 1 : b + LengthBytes + n < Length => b + LengthBytes + 0 < Length
        BY <3>1
      <4>2. QED
        BY <3>1, <3>3, <4>1
    <3>8. QED
      BY <2>3, <3>6, <3>7
  <2>6. BytesInBuffer <= BytesInBuffer'
    BY <2>3, GoodTypes
  <2>7. QED
    BY <2>1, <2>2, <2>4, <2>5, <2>6, TakingKept
<1>8. CASE Advance
  <2>1. /\ pc["sender"] = "advance" /\ head' = Wrap(head + Len(Head(todo)))
        /\ UNCHANGED <<kind, cells, tail, wanted, avail, oldTail, copied, size>>
        /\ pc'["receiver"] = pc["receiver"] /\ pc'["sender"] # "advance"
    BY <1>8 DEF Advance, Good, Typed, TypeOK
  <2>2. Len(Head(todo)) \in 1 .. Length - 1 /\ BytesInBuffer + Len(Head(todo)) < Length
    BY <2>1, PieceTyped DEF Good, Filled, Pending
  <2>3. BytesInBuffer' = BytesInBuffer + Len(Head(todo))
    BY <2>1, <2>2, HeadMoves DEF Good
  <2>4. Pending = Len(Head(todo)) /\ Pending' = 0
    BY <2>1 DEF Pending
  <2>5. BytesInBuffer <= BytesInBuffer'
    BY <2>2, <2>3, GoodTypes
  <2>6. ASSUME BytesInBuffer' + LengthBytes + Pending' < Length
        PROVE  BytesInBuffer + LengthBytes + Pending < Length
    <3>1. PICK n \in 1 .. Length - 1 : n = Len(Head(todo))
      BY <2>2
    <3>2. BytesInBuffer + n + LengthBytes + 0 < Length
      BY <2>3, <2>4, <2>6, <3>1
    <3>3. BytesInBuffer + LengthBytes + n < Length
      BY <3>2, GoodTypes
    <3>4. QED
      BY <2>4, <3>1, <3>3
  <2>7. QED
    BY <2>1, <2>5, <2>6, TakingKept
<1>9. CASE Level
  <2>1. /\ UNCHANGED <<kind, cells, head, tail, avail, wanted, oldTail, copied, size>>
        /\ pc'["receiver"] = pc["receiver"]
    BY <1>9 DEF Level, Good, Typed, TypeOK
  <2>2. Pending' = Pending
    BY <1>9 DEF Level, Pending, Good, Typed, TypeOK
  <2>3. QED
    BY <2>1, <2>2, TakingSame
<1>10. CASE CheckBytes
  <2>1. /\ UNCHANGED <<kind, cells, head, tail, size>> /\ avail' = BytesInBuffer
        /\ pc["receiver"] \in Asked /\ pc["receiver"] \in {"check", "recheck"}
        /\ pc'["receiver"] \in {"read", "wait", "assert"}
    BY <1>10 DEF CheckBytes, Asked, Good, Typed, TypeOK
  <2>2. size' \in Nat \ {0}
    BY <2>1 DEF Good, Taking
  <2>3. BytesInBuffer' = BytesInBuffer /\ Prefix' = Prefix
    BY <2>1 DEF BytesInBuffer, Prefix
  <2>4. Skip = 0
    BY <2>1 DEF Skip, InMessage
  <2>5. ASSUME avail' > Prefix', kind' = "message"
        PROVE  LengthBytes + cells'[tail'] <= avail'
    <3>1. kind = "message" /\ BytesInBuffer > LengthBytes
      BY <2>1, <2>3, <2>5 DEF Prefix
    <3>2. QED
      BY <2>1, <2>4, <3>1, FirstLength
  <2>6. avail' <= BytesInBuffer'
    BY <2>1, <2>3, GoodTypes
  <2>7. QED
    BY <2>1, <2>2, <2>5, <2>6 DEF Taking
<1>11. CASE Recheck
  <2>1. /\ UNCHANGED <<kind, cells, head, tail, size>> /\ avail' = BytesInBuffer
        /\ pc["receiver"] \in Asked /\ pc["receiver"] \in {"check", "recheck"}
        /\ pc'["receiver"] \in {"read", "wait", "assert"}
    BY <1>11 DEF Recheck, Asked, Good, Typed, TypeOK
  <2>2. size' \in Nat \ {0}
    BY <2>1 DEF Good, Taking
  <2>3. BytesInBuffer' = BytesInBuffer /\ Prefix' = Prefix
    BY <2>1 DEF BytesInBuffer, Prefix
  <2>4. Skip = 0
    BY <2>1 DEF Skip, InMessage
  <2>5. ASSUME avail' > Prefix', kind' = "message"
        PROVE  LengthBytes + cells'[tail'] <= avail'
    <3>1. kind = "message" /\ BytesInBuffer > LengthBytes
      BY <2>1, <2>3, <2>5 DEF Prefix
    <3>2. QED
      BY <2>1, <2>4, <3>1, FirstLength
  <2>6. avail' <= BytesInBuffer'
    BY <2>1, <2>3, GoodTypes
  <2>7. QED
    BY <2>1, <2>2, <2>5, <2>6 DEF Taking
<1>12. CASE Read
  <2>1. /\ UNCHANGED <<kind, cells, head, tail>> /\ pc["receiver"] = "read"
        /\ pc'["receiver"] \in {"idle", "copyout", "header"}
    BY <1>12 DEF Read, Good, Typed, TypeOK
  <2>2. /\ BytesInBuffer' = BytesInBuffer /\ Prefix' = Prefix /\ Prefix \in Nat
        /\ size \in Nat \ {0}
    BY <2>1, GoodTypes DEF BytesInBuffer, Prefix, Good, Taking, Asked
  <2>3. CASE pc'["receiver"] = "idle"
    BY <2>3, TakingOver DEF Asked
  <2>4. CASE pc'["receiver"] = "copyout"
    <3>1. avail > Prefix /\ wanted' = Least(avail, size)
      BY <1>12, <2>4 DEF Read, Good, Typed, TypeOK
    <3>2. avail <= BytesInBuffer
      BY <2>1, <3>1 DEF Good, Taking
    <3>3. wanted' \in 1 .. BytesInBuffer'
      BY <2>2, <3>1, <3>2, GoodTypes DEF Least
    <3>4. QED
      BY <2>4, <3>3 DEF Taking, Asked
  <2>5. CASE pc'["receiver"] = "header"
    <3>1. avail > Prefix /\ UNCHANGED <<size, avail, wanted>>
      BY <1>12, <2>5 DEF Read, Good, Typed, TypeOK
    <3>2. avail <= BytesInBuffer /\ (kind = "message" => LengthBytes + cells[tail] <= avail)
      BY <2>1, <3>1 DEF Good, Taking
    <3>3. QED
      BY <2>1, <2>2, <2>5, <3>1, <3>2 DEF Taking
  <2>6. QED
    BY <2>1, <2>3, <2>4, <2>5
<1>13. CASE ReadLength
  <2>1. /\ UNCHANGED <<kind, cells, head, tail, size, avail>> /\ pc["receiver"] = "header"
        /\ pc'["receiver"] = "pastheader" /\ wanted' = cells[tail]
    BY <1>13 DEF ReadLength, Good, Typed, TypeOK
  <2>2. /\ BytesInBuffer' = BytesInBuffer /\ Prefix' = Prefix
    BY <2>1 DEF BytesInBuffer, Prefix
  <2>3. size \in Nat \ {0} /\ avail > LengthBytes /\ kind = "message"
    BY <2>1 DEF Good, Taking, Places, Asked
  <2>4. avail <= BytesInBuffer /\ LengthBytes + cells[tail] <= avail
    BY <2>1, <2>3 DEF Good, Taking, Prefix
  <2>5. QED
    BY <2>1, <2>2, <2>3, <2>4 DEF Taking
<1>14. CASE PassHeader
  <2>1. /\ pc["receiver"] = "pastheader" /\ pc' = [pc EXCEPT !["receiver"] = "fit"]
        /\ avail' = avail - LengthBytes /\ BytesInBuffer' = BytesInBuffer - LengthBytes
        /\ UNCHANGED <<kind, cells, head, todo, wanted, oldTail, size, copied>>
        /\ kind = "message" /\ oldTail = tail /\ wanted = cells[tail]
        /\ LengthBytes + wanted <= avail /\ avail <= BytesInBuffer
    BY <1>14, HeaderMoves
  <2>2. pc'["receiver"] = "fit"
    BY <2>1 DEF Good, Typed, TypeOK
  <2>3. size \in Nat \ {0}
    BY <2>1 DEF Good, Taking, Asked
  <2>4. /\ avail \in Nat /\ wanted \in Nat /\ LengthBytes \in 1 .. Length - 1
        /\ BytesInBuffer \in 0 .. Length - 1 /\ Length \in Nat
    BY GoodTypes
  <2>5. wanted \in Nat \ {0}
    <3>1. Skip = 0
      BY <2>1 DEF Skip, InMessage
    <3>2. BytesInBuffer > LengthBytes
      <4>1. avail > LengthBytes
        BY <2>1 DEF Good, Places
      <4>2. QED
        BY <2>1, <2>4, <4>1
    <3>3. QED
      BY <2>1, <3>1, <3>2, FirstLength
  <2>6. wanted' \in 1 .. avail' /\ avail' <= BytesInBuffer'
    BY <2>1, <2>4, <2>5
  <2>7. QED
    BY <2>1, <2>2, <2>3, <2>6 DEF Taking
<1>15. CASE Fit
  <2>1. /\ pc["receiver"] = "fit" /\ wanted \in 1 .. avail /\ avail <= BytesInBuffer
        /\ \/ pc' = [pc EXCEPT !["receiver"] = "idle"]
           \/ /\ pc' = [pc EXCEPT !["receiver"] = "copyout"]
              /\ wanted' = wanted /\ BytesInBuffer' = BytesInBuffer
    BY <1>15, FitMoves
  <2>2. CASE pc' = [pc EXCEPT !["receiver"] = "idle"]
    <3>1. pc'["receiver"] = "idle"
      BY <2>2 DEF Good, Typed, TypeOK
    <3>2. QED
      BY <3>1, TakingOver DEF Asked
  <2>3. CASE /\ pc' = [pc EXCEPT !["receiver"] = "copyout"]
             /\ wanted' = wanted /\ BytesInBuffer' = BytesInBuffer
    <3>1. pc'["receiver"] = "copyout"
      BY <2>3 DEF Good, Typed, TypeOK
    <3>2. wanted \in 1 .. BytesInBuffer
      BY <2>1, GoodTypes
    <3>3. QED
      BY <2>3, <3>1, <3>2 DEF Taking, Asked
  <2>4. QED
    BY <2>1, <2>2, <2>3
<1>16. CASE CopyOut
  <2>1. /\ UNCHANGED <<kind, cells, head, tail, wanted>> /\ pc["receiver"] = "copyout"
        /\ pc'["receiver"] = "pastdata" /\ copied' = Slice(tail, wanted)
    BY <1>16 DEF CopyOut, Good, Typed, TypeOK
  <2>2. BytesInBuffer' = BytesInBuffer /\ (Slice(tail, wanted))' = Slice(tail, wanted)
    BY <2>1 DEF BytesInBuffer, Slice
  <2>3. wanted \in 1 .. BytesInBuffer
    BY <2>1 DEF Good, Taking
  <2>4. QED
    BY <2>1, <2>2, <2>3 DEF Taking, Asked
<1>17. CASE PassData
  <2>1. pc'["receiver"] = "complete"
    BY <1>17 DEF PassData, Good, Typed, TypeOK
  <2>2. QED
    BY <2>1, TakingOver DEF Asked
<1>18. CASE SetTriggerLevel
  <2>1. UNCHANGED <<kind, cells, head, tail, avail, wanted, oldTail, copied, size, pc, todo>>
    BY <1>18 DEF SetTriggerLevel
  <2>2. Pending' = Pending
    BY <2>1 DEF Pending
  <2>3. QED
    BY <2>1, <2>2, TakingSame
<1>19. CASE Reset
  <2>1. pc'["receiver"] = "idle"
    BY <1>19 DEF Reset
  <2>2. QED
    BY <2>1, TakingOver DEF Asked
<1>20. ASSUME NEW e \in Ends, Wait(e) PROVE Taking'
  <2>1. UNCHANGED <<kind, cells, head, tail, avail, wanted, oldTail, copied, size, todo>>
    BY <1>20 DEF Wait
  <2>2. CASE e = "sender"
    <3>1. /\ pc'["receiver"] = pc["receiver"]
          /\ pc["sender"] # "advance" /\ pc'["sender"] # "advance"
      BY <1>20, <2>2 DEF Wait, Good, Typed, TypeOK
    <3>2. Pending' = Pending
      BY <3>1 DEF Pending
    <3>3. QED
      BY <2>1, <3>1, <3>2, TakingSame
  <2>3. CASE e = "receiver"
    <3>1. /\ pc'["receiver"] \notin {"read", "header", "pastheader", "fit", "copyout", "pastdata"}
          /\ (pc'["receiver"] \in Asked => pc["receiver"] \in Asked)
      BY <1>20, <2>3 DEF Wait, Asked, Good, Typed, TypeOK
    <3>2. QED
      BY <2>1, <3>1, TakingOver DEF Good, Taking
  <2>4. QED
    BY <2>2, <2>3
<1>21. ASSUME NEW e \in Ends, Woken(e) PROVE Taking'
  <2>1. UNCHANGED <<kind, cells, head, tail, avail, wanted, oldTail, copied, size, todo>>
    BY <1>21 DEF Woken
  <2>2. CASE e = "sender"
    <3>1. /\ pc'["receiver"] = pc["receiver"]
          /\ pc["sender"] # "advance" /\ pc'["sender"] # "advance"
      BY <1>21, <2>2 DEF Woken, Good, Typed, TypeOK
    <3>2. Pending' = Pending
      BY <3>1 DEF Pending
    <3>3. QED
      BY <2>1, <3>1, <3>2, TakingSame
  <2>3. CASE e = "receiver"
    <3>1. /\ pc'["receiver"] \notin {"read", "header", "pastheader", "fit", "copyout", "pastdata"}
          /\ (pc'["receiver"] \in Asked => pc["receiver"] \in Asked)
      BY <1>21, <2>3 DEF Woken, Asked, Good, Typed, TypeOK
    <3>2. QED
      BY <2>1, <3>1, TakingOver DEF Good, Taking
  <2>4. QED
    BY <2>2, <2>3
<1>22. ASSUME NEW e \in Ends, ForgetSelf(e) PROVE Taking'
  <2>1. UNCHANGED <<kind, cells, head, tail, avail, wanted, oldTail, copied, size, todo>>
    BY <1>22 DEF ForgetSelf
  <2>2. CASE e = "sender"
    <3>1. /\ pc'["receiver"] = pc["receiver"]
          /\ pc["sender"] # "advance" /\ pc'["sender"] # "advance"
      BY <1>22, <2>2 DEF ForgetSelf, Good, Typed, TypeOK
    <3>2. Pending' = Pending
      BY <3>1 DEF Pending
    <3>3. QED
      BY <2>1, <3>1, <3>2, TakingSame
  <2>3. CASE e = "receiver"
    <3>1. /\ pc'["receiver"] \notin {"read", "header", "pastheader", "fit", "copyout", "pastdata"}
          /\ (pc'["receiver"] \in Asked => pc["receiver"] \in Asked)
      BY <1>22, <2>3 DEF ForgetSelf, Asked, Good, Typed, TypeOK
    <3>2. QED
      BY <2>1, <3>1, TakingOver DEF Good, Taking
  <2>4. QED
    BY <2>2, <2>3
<1>23. ASSUME NEW e \in Ends, Complete(e) PROVE Taking'
  <2>1. UNCHANGED <<kind, cells, head, tail, avail, wanted, oldTail, copied, size, todo>>
    BY <1>23 DEF Complete
  <2>2. CASE e = "sender"
    <3>1. /\ pc'["receiver"] = pc["receiver"]
          /\ pc["sender"] # "advance" /\ pc'["sender"] # "advance"
      BY <1>23, <2>2 DEF Complete, Good, Typed, TypeOK
    <3>2. Pending' = Pending
      BY <3>1 DEF Pending
    <3>3. QED
      BY <2>1, <3>1, <3>2, TakingSame
  <2>3. CASE e = "receiver"
    <3>1. /\ pc'["receiver"] \notin {"read", "header", "pastheader", "fit", "copyout", "pastdata"}
          /\ (pc'["receiver"] \in Asked => pc["receiver"] \in Asked)
      BY <1>23, <2>3 DEF Complete, Asked, Good, Typed, TypeOK
    <3>2. QED
      BY <2>1, <3>1, TakingOver DEF Good, Taking
  <2>4. QED
    BY <2>2, <2>3
<1>24. ASSUME NEW e \in Ends, Notify(e) PROVE Taking'
  <2>1. UNCHANGED <<kind, cells, head, tail, avail, wanted, oldTail, copied, size, todo>>
    BY <1>24 DEF Notify
  <2>2. CASE e = "sender"
    <3>1. /\ pc'["receiver"] = pc["receiver"]
          /\ pc["sender"] # "advance" /\ pc'["sender"] # "advance"
      BY <1>24, <2>2 DEF Notify, Good, Typed, TypeOK
    <3>2. Pending' = Pending
      BY <3>1 DEF Pending
    <3>3. QED
      BY <2>1, <3>1, <3>2, TakingSame
  <2>3. CASE e = "receiver"
    <3>1. /\ pc'["receiver"] \notin {"read", "header", "pastheader", "fit", "copyout", "pastdata"}
          /\ (pc'["receiver"] \in Asked => pc["receiver"] \in Asked)
      BY <1>24, <2>3 DEF Notify, Asked, Good, Typed, TypeOK
    <3>2. QED
      BY <2>1, <3>1, TakingOver DEF Good, Taking
  <2>4. QED
    BY <2>2, <2>3
<1>25. ASSUME NEW e \in Ends, Forget(e) PROVE Taking'
  <2>1. UNCHANGED <<kind, cells, head, tail, avail, wanted, oldTail, copied, size, todo>>
    BY <1>25 DEF Forget
  <2>2. CASE e = "sender"
    <3>1. /\ pc'["receiver"] = pc["receiver"]
          /\ pc["sender"] # "advance" /\ pc'["sender"] # "advance"
      BY <1>25, <2>2 DEF Forget, Good, Typed, TypeOK
    <3>2. Pending' = Pending
      BY <3>1 DEF Pending
    <3>3. QED
      BY <2>1, <3>1, <3>2, TakingSame
  <2>3. CASE e = "receiver"
    <3>1. /\ pc'["receiver"] \notin {"read", "header", "pastheader", "fit", "copyout", "pastdata"}
          /\ (pc'["receiver"] \in Asked => pc["receiver"] \in Asked)
      BY <1>25, <2>3 DEF Forget, Asked, Good, Typed, TypeOK
    <3>2. QED
      BY <2>1, <3>1, TakingOver DEF Good, Taking
  <2>4. QED
    BY <2>2, <2>3
<1>26. ASSUME NEW e \in Ends, Expire(e) PROVE Taking'
  <2>1. UNCHANGED <<kind, cells, head, tail, avail, wanted, oldTail, copied, size, pc, todo>>
    BY <1>26 DEF Expire
  <2>2. Pending' = Pending
    BY <2>1 DEF Pending
  <2>3. QED
    BY <2>1, <2>2, TakingSame
<1>27. CASE UNCHANGED vars
  <2>1. UNCHANGED <<kind, cells, head, tail, avail, wanted, oldTail, copied, size, pc, todo>>
    BY <1>27 DEF vars
  <2>2. Pending' = Pending
    BY <2>1 DEF Pending
  <2>3. QED
    BY <2>1, <2>2, TakingSame
<1>28. QED
  BY <1>1, <1>2, <1>3, <1>4, <1>5, <1>6, <1>7, <1>8, <1>9, <1>10, <1>11,
    <1>12, <1>13, <1>14, <1>15, <1>16, <1>17, <1>18, <1>19, <1>20, <1>21,
    <1>22, <1>23, <1>24, <1>25, <1>26, <1>27
    DEF Next, Sender, Receiver, Common

-----------------------------------------------------------------------------
(* The invariant of the ring *)

LEMMA RingInit == Init => RingInv
<1> SUFFICES ASSUME Init PROVE RingInv
  OBVIOUS
<1> USE DEF Init
<1>1. Typed
  <2>1. Length \in Nat /\ Length > 1 /\ 0 \in 0 .. Length - 1
    BY StreamBufferAssumption
  <2>2. TypeOK
    BY <2>1 DEF TypeOK, Ends, Labels, WaitKinds
  <2>3. cells \in [0 .. Length - 1 -> Nat]
    BY <2>1
  <2>4. pc["sender"] \in SenderLabels /\ pc["receiver"] \in ReceiverLabels
    BY DEF Ends, SenderLabels, ReceiverLabels
  <2>5. QED
    BY <2>1, <2>2, <2>3, <2>4 DEF Typed
<1>2. pc["sender"] = "idle" /\ pc["receiver"] = "idle"
  BY DEF Ends
<1>3. Carrying /\ Places
  BY <1>2 DEF Carrying, Places
<1>4. BytesInBuffer = 0 /\ Pending = 0 /\ Skip = 0 /\ Part = 0 /\ ~HalfSent
  BY <1>2, StreamBufferAssumption DEF BytesInBuffer, Pending, Skip, Part, HalfSent, InMessage
<1>5. Filled
  BY <1>4, StreamBufferAssumption DEF Filled
<1>6. Framing
  <2>1. SUFFICES ASSUME kind = "message" PROVE Skip + Part <= BytesInBuffer /\ Framed(Whole)
    BY <1>4 DEF Framing
  <2>2. Skip + Part <= BytesInBuffer
    BY <1>4
  <2>3. Whole \in Seq(Nat) /\ Len(Whole) = 0
    BY <1>1, <1>4, <2>1, <2>2, WholeAt
  <2>4. QED
    BY <2>2, <2>3, FramedEmpty
<1>7. Taking
  BY <1>2 DEF Taking, Asked
<1>8. QED
  BY <1>1, <1>3, <1>5, <1>6, <1>7 DEF RingInv

LEMMA ClobberedStays == Typed /\ clobbered /\ [Next]_vars => clobbered'
<1> SUFFICES ASSUME Typed, clobbered, [Next]_vars PROVE clobbered'
  OBVIOUS
<1>1. CASE Copy
  BY <1>1 DEF Copy
<1>2. CASE Fit
  BY <1>2 DEF Fit
<1>3. CASE ~(Copy \/ Fit)
  <2>1. clobbered' = clobbered
    BY <1>3 DEF Next, Sender, Receiver, Common, Send, Receive, CheckSpace, TimeOut, LastSpace,
      Write, Advance, Level, CheckBytes, Recheck, Read, ReadLength, PassHeader, CopyOut,
      PassData, SetTriggerLevel, Reset, Wait, Woken, ForgetSelf, Complete, Notify, Forget,
      Expire, vars
  <2>2. QED
    BY <2>1
<1>4. QED
  BY <1>1, <1>2, <1>3

LEMMA RingStep == RingInv /\ [Next]_vars => RingInv'
<1> SUFFICES ASSUME RingInv, [Next]_vars PROVE RingInv'
  OBVIOUS
<1>1. Typed /\ Carrying /\ Places
  BY DEF RingInv
<1>2. Typed'
  BY <1>1, TypeStep
<1>3. Carrying' /\ Places'
  BY <1>1, <1>2, CarryingStep, PlacesStep
<1>4. ASSUME ~clobbered' PROVE Filled' /\ Framing' /\ Taking'
  <2>1. Good
    BY <1>1, <1>4, ClobberedStays DEF RingInv, Good
  <2>2. QED
    BY <1>2, <1>4, <2>1, FilledStep, FramingStep, TakingStep
<1>5. QED
  BY <1>2, <1>3, <1>4 DEF RingInv

(* TypeOK and the rest of the ring's invariant, on any number of cores     *)
THEOREM RingInvCorrect == Spec => []RingInv
<1>1. Init => RingInv
  BY RingInit
<1>2. RingInv /\ [Next]_vars => RingInv'
  BY RingStep
<1>3. QED
  BY <1>1, <1>2, PTL DEF Spec

(* The registrations stay right.                                           *)
LEMMA RegisteredStep == SameCore /\ Typed /\ Typed' /\ Registered /\ [Next]_vars => Registered'
<1> SUFFICES ASSUME SameCore /\ Typed /\ Typed' /\ Registered, [Next]_vars PROVE Registered'
  OBVIOUS
<1> USE DEF At, Goto, Return, Forgets, Register, Other, Ends, ring, sync,
  sending, receiving
<1>1. CASE Send
  BY <1>1 DEF Send, May, Registered, Waiting, Holding, Typed, TypeOK
<1>2. CASE Receive
  BY <1>2 DEF Receive, May, Registered, Waiting, Holding, Typed, TypeOK
<1>3. CASE CheckSpace
  BY <1>3 DEF CheckSpace, May, Registered, Waiting, Holding, Typed, TypeOK
<1>4. CASE TimeOut
  BY <1>4 DEF TimeOut, May, Registered, Waiting, Holding, Typed, TypeOK
<1>5. CASE LastSpace
  BY <1>5 DEF LastSpace, May, Registered, Waiting, Holding, Typed, TypeOK
<1>6. CASE Write
  BY <1>6 DEF Write, May, Registered, Waiting, Holding, Typed, TypeOK
<1>7. CASE Copy
  BY <1>7 DEF Copy, May, Registered, Waiting, Holding, Typed, TypeOK
<1>8. CASE Advance
  BY <1>8 DEF Advance, May, Registered, Waiting, Holding, Typed, TypeOK
<1>9. CASE Level
  BY <1>9 DEF Level, May, Registered, Waiting, Holding, Typed, TypeOK
<1>10. CASE CheckBytes
  BY <1>10 DEF CheckBytes, May, Registered, Waiting, Holding, Typed, TypeOK
<1>11. CASE Recheck
  BY <1>11 DEF Recheck, May, Registered, Waiting, Holding, Typed, TypeOK
<1>12. CASE Read
  BY <1>12 DEF Read, May, Registered, Waiting, Holding, Typed, TypeOK
<1>13. CASE ReadLength
  BY <1>13 DEF ReadLength, May, Registered, Waiting, Holding, Typed, TypeOK
<1>14. CASE PassHeader
  BY <1>14 DEF PassHeader, May, Registered, Waiting, Holding, Typed, TypeOK
<1>15. CASE Fit
  BY <1>15 DEF Fit, May, Registered, Waiting, Holding, Typed, TypeOK
<1>16. CASE CopyOut
  BY <1>16 DEF CopyOut, May, Registered, Waiting, Holding, Typed, TypeOK
<1>17. CASE PassData
  BY <1>17 DEF PassData, May, Registered, Waiting, Holding, Typed, TypeOK
<1>18. CASE SetTriggerLevel
  BY <1>18 DEF SetTriggerLevel, May, Registered, Waiting, Holding, Typed,
    TypeOK
<1>19. CASE Reset
  BY <1>19 DEF Reset, May, Registered, Waiting, Holding, Typed, TypeOK
<1>20. ASSUME NEW e \in Ends, Wait(e) PROVE Registered'
  BY <1>20 DEF Wait, May, Registered, Waiting, Holding, Typed, TypeOK
<1>21. ASSUME NEW e \in Ends, Woken(e) PROVE Registered'
  BY <1>21 DEF Woken, May, Registered, Waiting, Holding, Typed, TypeOK
<1>22. ASSUME NEW e \in Ends, ForgetSelf(e) PROVE Registered'
  BY <1>22 DEF ForgetSelf, May, Registered, Waiting, Holding, Typed, TypeOK
<1>23. ASSUME NEW e \in Ends, Complete(e) PROVE Registered'
  BY <1>23 DEF Complete, May, Registered, Waiting, Holding, Typed, TypeOK
<1>24. ASSUME NEW e \in Ends, Notify(e) PROVE Registered'
  BY <1>24 DEF Notify, May, Registered, Waiting, Holding, Typed, TypeOK
<1>25. ASSUME NEW e \in Ends, Forget(e) PROVE Registered'
  BY <1>25 DEF Forget, May, Registered, Waiting, Holding, Typed, TypeOK
<1>26. ASSUME NEW e \in Ends, Expire(e) PROVE Registered'
  BY <1>26 DEF Expire, May, Registered, Waiting, Holding, Typed, TypeOK
<1>27. CASE UNCHANGED vars
  BY <1>27 DEF vars, May, Registered, Waiting, Holding, Typed, TypeOK
<1>28. QED
  BY <1>1, <1>2, <1>3, <1>4, <1>5, <1>6, <1>7, <1>8, <1>9, <1>10, <1>11,
    <1>12, <1>13, <1>14, <1>15, <1>16, <1>17, <1>18, <1>19, <1>20, <1>21,
    <1>22, <1>23, <1>24, <1>25, <1>26, <1>27
    DEF Next, Sender, Receiver, Common

-----------------------------------------------------------------------------
(* Nobody waits for nothing, on one core *)

LEMMA Counts ==
    ASSUME Typed
    PROVE  /\ SpacesAvailable = Length - 1 - BytesInBuffer /\ SpacesAvailable \in 0 .. Length - 1
           /\ BytesInBuffer \in 0 .. Length - 1 /\ Length \in Nat /\ Required \in Nat
           /\ LengthBytes \in Nat \ {0} /\ Prefix \in Nat /\ Sent \in Int /\ trigger \in Nat
           /\ size \in Nat
<1>1. Length \in Nat /\ LengthBytes \in Nat \ {0} /\ trigger \in Nat
  BY StreamBufferAssumption DEF Typed, TypeOK
<1>2. /\ SpacesAvailable = Length - 1 - BytesInBuffer /\ BytesInBuffer \in 0 .. Length - 1
  BY RingCounts
<1>3. Len(data) \in Nat /\ Prefix \in Nat
  BY <1>1 DEF Typed, Prefix
<1>4. Required \in Nat
  BY <1>3 DEF Required
<1>5. Sent \in Int
  BY <1>1, <1>2 DEF Sent
<1>6. QED
  BY <1>1, <1>2, <1>3, <1>4, <1>5 DEF Typed

LEMMA CountsNext ==
    ASSUME Typed'
    PROVE  /\ SpacesAvailable' = Length - 1 - BytesInBuffer' /\ BytesInBuffer' \in 0 .. Length - 1
BY RingCountsNext

(* A step that leaves the room and the waiting sender as they are *)
LEMMA SenderGoesOnWaiting ==
    ASSUME SenderWaits, ~clobbered, Waiting("sender")' => Waiting("sender"),
           UNCHANGED <<kind, head, tail, data>>,
           InMessage => InMessage', Notifying("receiver") => Notifying("receiver")',
           pc'["receiver"] = "fit" => pc["receiver"] = "fit"
    PROVE  SenderWaits'
<1>1. SpacesAvailable' = SpacesAvailable /\ Required' = Required
  BY DEF SpacesAvailable, Required, Prefix
<1>2. QED
  BY <1>1 DEF SenderWaits
(* A sender goes on waiting only while there is no room or it will be told. *)
LEMMA SenderStep == Good /\ Typed' /\ ~clobbered /\ Registered /\ SenderWaits /\ [Next]_vars => SenderWaits'
<1> SUFFICES ASSUME Good /\ Typed' /\ ~clobbered /\ Registered /\ SenderWaits, [Next]_vars PROVE SenderWaits'
  OBVIOUS
<1> USE DEF At, Goto, Return, Forgets, Register, Other, Ends, ring, sync,
  sending, receiving
<1>1. CASE Send
  <2>1. ~Waiting("sender")'
    BY <1>1 DEF Send, Waiting, Registered, Good, Typed, TypeOK
  <2>2. QED
    BY <2>1 DEF SenderWaits
<1>2. CASE Receive
  <2>1. UNCHANGED <<kind, head, tail, data>>
    BY <1>2 DEF Receive
  <2>2. /\ Waiting("sender")' => Waiting("sender")
        /\ (InMessage => InMessage') /\ (Notifying("receiver") => Notifying("receiver")')
        /\ (pc'["receiver"] = "fit" => pc["receiver"] = "fit")
    BY <1>2 DEF Receive, Waiting, InMessage, Notifying, Registered, Good, Typed, TypeOK
  <2>3. QED
    BY <2>1, <2>2, SenderGoesOnWaiting
<1>3. CASE CheckSpace
  <2>1. /\ UNCHANGED <<kind, head, tail, data>>
        /\ (SpacesAvailable < Required \/ pc'["sender"] = "write")
        /\ pc["sender"] = "check" /\ UNCHANGED blocked
    BY <1>3 DEF CheckSpace, Good, Typed, TypeOK
  <2>2. SpacesAvailable' = SpacesAvailable /\ Required' = Required
    BY <2>1 DEF SpacesAvailable, Required, Prefix
  <2>3. ~blocked["sender"]
    BY <2>1 DEF Registered
  <2>4. CASE SpacesAvailable < Required
    <3>1. SpacesAvailable < Required + LengthBytes
      BY <2>4, Counts DEF Good
    <3>2. QED
      BY <2>2, <2>4, <3>1 DEF SenderWaits
  <2>5. CASE pc'["sender"] = "write"
    BY <2>1, <2>3, <2>5 DEF SenderWaits, Waiting
  <2>6. QED
    BY <2>1, <2>4, <2>5
<1>4. CASE TimeOut
  <2>1. ~Waiting("sender")'
    BY <1>4 DEF TimeOut, Waiting, Registered, Good, Typed, TypeOK
  <2>2. QED
    BY <2>1 DEF SenderWaits
<1>5. CASE LastSpace
  <2>1. ~Waiting("sender")'
    BY <1>5 DEF LastSpace, Waiting, Registered, Good, Typed, TypeOK
  <2>2. QED
    BY <2>1 DEF SenderWaits
<1>6. CASE Write
  <2>1. ~Waiting("sender")'
    BY <1>6 DEF Write, Waiting, Registered, Good, Typed, TypeOK
  <2>2. QED
    BY <2>1 DEF SenderWaits
<1>7. CASE Copy
  <2>1. ~Waiting("sender")'
    BY <1>7 DEF Copy, Waiting, Registered, Good, Typed, TypeOK
  <2>2. QED
    BY <2>1 DEF SenderWaits
<1>8. CASE Advance
  <2>1. ~Waiting("sender")'
    BY <1>8 DEF Advance, Waiting, Registered, Good, Typed, TypeOK
  <2>2. QED
    BY <2>1 DEF SenderWaits
<1>9. CASE Level
  <2>1. ~Waiting("sender")'
    BY <1>9 DEF Level, Waiting, Registered, Good, Typed, TypeOK
  <2>2. QED
    BY <2>1 DEF SenderWaits
<1>10. CASE CheckBytes
  <2>1. UNCHANGED <<kind, head, tail, data>>
    BY <1>10 DEF CheckBytes
  <2>2. /\ Waiting("sender")' => Waiting("sender")
        /\ (InMessage => InMessage') /\ (Notifying("receiver") => Notifying("receiver")')
        /\ (pc'["receiver"] = "fit" => pc["receiver"] = "fit")
    BY <1>10 DEF CheckBytes, Waiting, InMessage, Notifying, Registered, Good, Typed, TypeOK
  <2>3. QED
    BY <2>1, <2>2, SenderGoesOnWaiting
<1>11. CASE Recheck
  <2>1. UNCHANGED <<kind, head, tail, data>>
    BY <1>11 DEF Recheck
  <2>2. /\ Waiting("sender")' => Waiting("sender")
        /\ (InMessage => InMessage') /\ (Notifying("receiver") => Notifying("receiver")')
        /\ (pc'["receiver"] = "fit" => pc["receiver"] = "fit")
    BY <1>11 DEF Recheck, Waiting, InMessage, Notifying, Registered, Good, Typed, TypeOK
  <2>3. QED
    BY <2>1, <2>2, SenderGoesOnWaiting
<1>12. CASE Read
  <2>1. UNCHANGED <<kind, head, tail, data>>
    BY <1>12 DEF Read
  <2>2. /\ Waiting("sender")' => Waiting("sender")
        /\ (InMessage => InMessage') /\ (Notifying("receiver") => Notifying("receiver")')
        /\ (pc'["receiver"] = "fit" => pc["receiver"] = "fit")
    BY <1>12 DEF Read, Waiting, InMessage, Notifying, Registered, Good, Typed, TypeOK
  <2>3. QED
    BY <2>1, <2>2, SenderGoesOnWaiting
<1>13. CASE ReadLength
  <2>1. UNCHANGED <<kind, head, tail, data>>
    BY <1>13 DEF ReadLength
  <2>2. /\ Waiting("sender")' => Waiting("sender")
        /\ (InMessage => InMessage') /\ (Notifying("receiver") => Notifying("receiver")')
        /\ (pc'["receiver"] = "fit" => pc["receiver"] = "fit")
    BY <1>13 DEF ReadLength, Waiting, InMessage, Notifying, Registered, Good, Typed, TypeOK
  <2>3. QED
    BY <2>1, <2>2, SenderGoesOnWaiting
<1>14. CASE PassHeader
  <2>1. /\ pc["receiver"] = "pastheader" /\ pc' = [pc EXCEPT !["receiver"] = "fit"]
        /\ kind' = kind /\ BytesInBuffer' = BytesInBuffer - LengthBytes
    BY <1>14, HeaderMoves
  <2>2. pc'["receiver"] = "fit" /\ pc'["sender"] = pc["sender"] /\ UNCHANGED <<data, note, blocked>>
    BY <1>14, <2>1 DEF PassHeader, Good, Typed, TypeOK
  <2>3. Required' = Required /\ InMessage'
    BY <2>1, <2>2 DEF Required, Prefix, InMessage
  <2>4. SpacesAvailable' = SpacesAvailable + LengthBytes
    BY <2>1, Counts, CountsNext DEF Good
  <2>5. CASE Waiting("sender")
    <3>1. SpacesAvailable < Required
      BY <2>1, <2>5 DEF SenderWaits, InMessage, Notifying
    <3>2. SpacesAvailable' < Required + LengthBytes
      BY <2>4, <3>1, Counts DEF Good
    <3>3. QED
      BY <2>3, <3>2 DEF SenderWaits
  <2>6. CASE ~Waiting("sender")
    BY <2>2, <2>6 DEF SenderWaits, Waiting
  <2>7. QED
    BY <2>5, <2>6
<1>15. CASE Fit
  <2>1. UNCHANGED <<data, note, blocked, kind, head>> /\ pc'["sender"] = pc["sender"]
        /\ pc["receiver"] = "fit"
    BY <1>15 DEF Fit, Good, Typed, TypeOK
  <2>2. Required' = Required /\ (Waiting("sender")' => Waiting("sender"))
    BY <2>1 DEF Required, Prefix, Waiting
  <2>3. CASE ~clobbered' /\ Waiting("sender")
    <3>1. SpacesAvailable < Required + LengthBytes
      BY <2>1, <2>3 DEF SenderWaits
    <3>2. \/ /\ pc' = [pc EXCEPT !["receiver"] = "idle"]
             /\ BytesInBuffer' = BytesInBuffer + LengthBytes
          \/ pc' = [pc EXCEPT !["receiver"] = "copyout"]
      BY <1>15, <2>3, FitMoves
    <3>3. CASE /\ pc' = [pc EXCEPT !["receiver"] = "idle"]
               /\ BytesInBuffer' = BytesInBuffer + LengthBytes
      <4>1. pc'["receiver"] = "idle"
        BY <3>3 DEF Good, Typed, TypeOK
      <4>2. SpacesAvailable' < Required
        BY <3>1, <3>3, Counts, CountsNext DEF Good
      <4>3. QED
        BY <2>2, <4>1, <4>2 DEF SenderWaits
    <3>4. CASE pc' = [pc EXCEPT !["receiver"] = "copyout"]
      <4>1. pc'["receiver"] = "copyout"
        BY <3>4 DEF Good, Typed, TypeOK
      <4>2. QED
        BY <4>1 DEF SenderWaits, InMessage
    <3>5. QED
      BY <3>2, <3>3, <3>4
  <2>4. QED
    BY <2>2, <2>3 DEF SenderWaits
<1>16. CASE CopyOut
  <2>1. UNCHANGED <<kind, head, tail, data>>
    BY <1>16 DEF CopyOut
  <2>2. /\ Waiting("sender")' => Waiting("sender")
        /\ (InMessage => InMessage') /\ (Notifying("receiver") => Notifying("receiver")')
        /\ (pc'["receiver"] = "fit" => pc["receiver"] = "fit")
    BY <1>16 DEF CopyOut, Waiting, InMessage, Notifying, Registered, Good, Typed, TypeOK
  <2>3. QED
    BY <2>1, <2>2, SenderGoesOnWaiting
<1>17. CASE PassData
  <2>1. pc'["receiver"] = "complete"
    BY <1>17 DEF PassData, Good, Typed, TypeOK
  <2>2. QED
    BY <2>1 DEF SenderWaits, Notifying
<1>18. CASE SetTriggerLevel
  <2>1. UNCHANGED <<kind, head, tail, data>>
    BY <1>18 DEF SetTriggerLevel
  <2>2. /\ Waiting("sender")' => Waiting("sender")
        /\ (InMessage => InMessage') /\ (Notifying("receiver") => Notifying("receiver")')
        /\ (pc'["receiver"] = "fit" => pc["receiver"] = "fit")
    BY <1>18 DEF SetTriggerLevel, Waiting, InMessage, Notifying, Registered, Good, Typed, TypeOK
  <2>3. QED
    BY <2>1, <2>2, SenderGoesOnWaiting
<1>19. CASE Reset
  <2>1. ~Waiting("sender")'
    BY <1>19 DEF Reset, Waiting, Registered, Good, Typed, TypeOK
  <2>2. QED
    BY <2>1 DEF SenderWaits
<1>20. ASSUME NEW e \in Ends, Wait(e) PROVE SenderWaits'
  <2>1. UNCHANGED <<kind, head, tail, data>>
    BY <1>20 DEF Wait
  <2>2. /\ Waiting("sender")' => Waiting("sender")
        /\ (InMessage => InMessage') /\ (Notifying("receiver") => Notifying("receiver")')
        /\ (pc'["receiver"] = "fit" => pc["receiver"] = "fit")
    BY <1>20 DEF Wait, Waiting, InMessage, Notifying, Registered, Good, Typed, TypeOK
  <2>3. QED
    BY <2>1, <2>2, SenderGoesOnWaiting
<1>21. ASSUME NEW e \in Ends, Woken(e) PROVE SenderWaits'
  <2>1. UNCHANGED <<kind, head, tail, data>>
    BY <1>21 DEF Woken
  <2>2. /\ Waiting("sender")' => Waiting("sender")
        /\ (InMessage => InMessage') /\ (Notifying("receiver") => Notifying("receiver")')
        /\ (pc'["receiver"] = "fit" => pc["receiver"] = "fit")
    BY <1>21 DEF Woken, Waiting, InMessage, Notifying, Registered, Good, Typed, TypeOK
  <2>3. QED
    BY <2>1, <2>2, SenderGoesOnWaiting
<1>22. ASSUME NEW e \in Ends, ForgetSelf(e) PROVE SenderWaits'
  <2>1. UNCHANGED <<kind, head, tail, data>>
    BY <1>22 DEF ForgetSelf
  <2>2. /\ Waiting("sender")' => Waiting("sender")
        /\ (InMessage => InMessage') /\ (Notifying("receiver") => Notifying("receiver")')
        /\ (pc'["receiver"] = "fit" => pc["receiver"] = "fit")
    BY <1>22 DEF ForgetSelf, Waiting, InMessage, Notifying, Registered, Good, Typed, TypeOK
  <2>3. QED
    BY <2>1, <2>2, SenderGoesOnWaiting
<1>23. ASSUME NEW e \in Ends, Complete(e) PROVE SenderWaits'
  <2>1. UNCHANGED <<kind, head, tail, data>>
    BY <1>23 DEF Complete
  <2>2. CASE Waiting("sender")'
    <3>1. Waiting("sender") /\ InMessage' = InMessage /\ (pc'["receiver"] = "fit" => pc["receiver"] = "fit")
      BY <1>23, <2>2 DEF Complete, Waiting, InMessage, Registered, Good, Typed, TypeOK
    <3>2. Notifying("receiver") => Notifying("receiver")'
      BY <1>23, <2>2, <3>1 DEF Complete, Waiting, Notifying, Registered, Good, Typed, TypeOK
    <3>3. QED
      BY <2>1, <3>1, <3>2, SenderGoesOnWaiting
  <2>3. QED
    BY <2>2 DEF SenderWaits
<1>24. ASSUME NEW e \in Ends, Notify(e) PROVE SenderWaits'
  <2>1. UNCHANGED <<kind, head, tail, data>>
    BY <1>24 DEF Notify
  <2>2. CASE Waiting("sender")'
    <3>1. Waiting("sender") /\ InMessage' = InMessage /\ (pc'["receiver"] = "fit" => pc["receiver"] = "fit")
      BY <1>24, <2>2 DEF Notify, Waiting, InMessage, Registered, Good, Typed, TypeOK
    <3>2. Notifying("receiver") => Notifying("receiver")'
      BY <1>24, <2>2, <3>1 DEF Notify, Waiting, Notifying, Registered, Good, Typed, TypeOK
    <3>3. QED
      BY <2>1, <3>1, <3>2, SenderGoesOnWaiting
  <2>3. QED
    BY <2>2 DEF SenderWaits
<1>25. ASSUME NEW e \in Ends, Forget(e) PROVE SenderWaits'
  <2>1. UNCHANGED <<kind, head, tail, data>>
    BY <1>25 DEF Forget
  <2>2. CASE Waiting("sender")'
    <3>1. Waiting("sender") /\ InMessage' = InMessage /\ (pc'["receiver"] = "fit" => pc["receiver"] = "fit")
      BY <1>25, <2>2 DEF Forget, Waiting, InMessage, Registered, Good, Typed, TypeOK
    <3>2. Notifying("receiver") => Notifying("receiver")'
      BY <1>25, <2>2, <3>1 DEF Forget, Waiting, Notifying, Registered, Good, Typed, TypeOK
    <3>3. QED
      BY <2>1, <3>1, <3>2, SenderGoesOnWaiting
  <2>3. QED
    BY <2>2 DEF SenderWaits
<1>26. ASSUME NEW e \in Ends, Expire(e) PROVE SenderWaits'
  <2>1. UNCHANGED <<kind, head, tail, data>>
    BY <1>26 DEF Expire
  <2>2. /\ Waiting("sender")' => Waiting("sender")
        /\ (InMessage => InMessage') /\ (Notifying("receiver") => Notifying("receiver")')
        /\ (pc'["receiver"] = "fit" => pc["receiver"] = "fit")
    BY <1>26 DEF Expire, Waiting, InMessage, Notifying, Registered, Good, Typed, TypeOK
  <2>3. QED
    BY <2>1, <2>2, SenderGoesOnWaiting
<1>27. CASE UNCHANGED vars
  <2>1. UNCHANGED <<kind, head, tail, data, pc, note, blocked>>
    BY <1>27 DEF vars
  <2>2. /\ Waiting("sender")' => Waiting("sender")
        /\ (InMessage => InMessage') /\ (Notifying("receiver") => Notifying("receiver")')
        /\ (pc'["receiver"] = "fit" => pc["receiver"] = "fit")
    BY <2>1 DEF Waiting, InMessage, Notifying
  <2>3. QED
    BY <2>1, <2>2, SenderGoesOnWaiting
<1>28. QED
  BY <1>1, <1>2, <1>3, <1>4, <1>5, <1>6, <1>7, <1>8, <1>9, <1>10, <1>11,
    <1>12, <1>13, <1>14, <1>15, <1>16, <1>17, <1>18, <1>19, <1>20, <1>21,
    <1>22, <1>23, <1>24, <1>25, <1>26, <1>27
    DEF Next, Sender, Receiver, Common

(* A receiver goes on waiting only while there is nothing to take, or will be told. *)
LEMMA ReceiverStep == SameCore /\ Typed /\ Typed' /\ Carrying /\ Registered /\ ReceiverWaits /\ [Next]_vars => ReceiverWaits'
<1> SUFFICES ASSUME SameCore /\ Typed /\ Typed' /\ Carrying /\ Registered /\ ReceiverWaits, [Next]_vars PROVE ReceiverWaits'
  OBVIOUS
<1> USE DEF At, Goto, Return, Forgets, Register, Other, Ends, ring, sync,
  sending, receiving
<1>1. CASE Send
  <2>1. UNCHANGED <<kind, head, tail, trigger, todo>>
    BY <1>1 DEF Send
  <2>2. CASE Waiting("receiver")'
    <3>1. Waiting("receiver") /\ HalfSent' = HalfSent
      BY <1>1, <2>1, <2>2 DEF Send, Waiting, HalfSent, Registered, Typed, TypeOK
    <3>2. /\ pc["sender"] = "level" => pc'["sender"] = "level"
          /\ Notifying("sender") => Notifying("sender")'
      BY <1>1, <2>2, <3>1 DEF Send, Waiting, Notifying, Registered, Typed, TypeOK
    <3>3. Sent' = Sent /\ Prefix' = Prefix
      BY <2>1, <3>1 DEF Sent, BytesInBuffer, Prefix
    <3>4. QED
      BY <2>1, <3>1, <3>2, <3>3 DEF ReceiverWaits
  <2>3. QED
    BY <2>2 DEF ReceiverWaits
<1>2. CASE Receive
  <2>1. ~Waiting("receiver")'
    BY <1>2 DEF Receive, May, Waiting, Holding, Registered, Typed, TypeOK
  <2>2. QED
    BY <2>1 DEF ReceiverWaits
<1>3. CASE CheckSpace
  <2>1. UNCHANGED <<kind, head, tail, trigger, todo>>
    BY <1>3 DEF CheckSpace
  <2>2. CASE Waiting("receiver")'
    <3>1. Waiting("receiver") /\ HalfSent' = HalfSent
      BY <1>3, <2>1, <2>2 DEF CheckSpace, Waiting, HalfSent, Registered, Typed, TypeOK
    <3>2. /\ pc["sender"] = "level" => pc'["sender"] = "level"
          /\ Notifying("sender") => Notifying("sender")'
      BY <1>3, <2>2, <3>1 DEF CheckSpace, Waiting, Notifying, Registered, Typed, TypeOK
    <3>3. Sent' = Sent /\ Prefix' = Prefix
      BY <2>1, <3>1 DEF Sent, BytesInBuffer, Prefix
    <3>4. QED
      BY <2>1, <3>1, <3>2, <3>3 DEF ReceiverWaits
  <2>3. QED
    BY <2>2 DEF ReceiverWaits
<1>4. CASE TimeOut
  <2>1. UNCHANGED <<kind, head, tail, trigger, todo>>
    BY <1>4 DEF TimeOut
  <2>2. CASE Waiting("receiver")'
    <3>1. Waiting("receiver") /\ HalfSent' = HalfSent
      BY <1>4, <2>1, <2>2 DEF TimeOut, Waiting, HalfSent, Registered, Typed, TypeOK
    <3>2. /\ pc["sender"] = "level" => pc'["sender"] = "level"
          /\ Notifying("sender") => Notifying("sender")'
      BY <1>4, <2>2, <3>1 DEF TimeOut, Waiting, Notifying, Registered, Typed, TypeOK
    <3>3. Sent' = Sent /\ Prefix' = Prefix
      BY <2>1, <3>1 DEF Sent, BytesInBuffer, Prefix
    <3>4. QED
      BY <2>1, <3>1, <3>2, <3>3 DEF ReceiverWaits
  <2>3. QED
    BY <2>2 DEF ReceiverWaits
<1>5. CASE LastSpace
  <2>1. UNCHANGED <<kind, head, tail, trigger, todo>>
    BY <1>5 DEF LastSpace
  <2>2. CASE Waiting("receiver")'
    <3>1. Waiting("receiver") /\ HalfSent' = HalfSent
      BY <1>5, <2>1, <2>2 DEF LastSpace, Waiting, HalfSent, Registered, Typed, TypeOK
    <3>2. /\ pc["sender"] = "level" => pc'["sender"] = "level"
          /\ Notifying("sender") => Notifying("sender")'
      BY <1>5, <2>2, <3>1 DEF LastSpace, Waiting, Notifying, Registered, Typed, TypeOK
    <3>3. Sent' = Sent /\ Prefix' = Prefix
      BY <2>1, <3>1 DEF Sent, BytesInBuffer, Prefix
    <3>4. QED
      BY <2>1, <3>1, <3>2, <3>3 DEF ReceiverWaits
  <2>3. QED
    BY <2>2 DEF ReceiverWaits
<1>6. CASE Write
  <2>1. /\ UNCHANGED <<kind, head, tail, trigger, note, blocked>> /\ pc["sender"] = "write"
        /\ pc'["sender"] \in {"copy", "idle"} /\ pc'["receiver"] = pc["receiver"]
    BY <1>6 DEF Write, Typed, TypeOK
  <2>2. ~HalfSent
    BY <2>1 DEF HalfSent
  <2>3. ~HalfSent'
    <3>1. CASE kind = "message" /\ pc'["sender"] = "copy"
      <4>1. todo' = <<Header(Len(data)), data>>
        BY <1>6, <3>1 DEF Write, Typed, TypeOK
      <4>2. Len(<<Header(Len(data)), data>>) # 1
        OBVIOUS
      <4>3. QED
        BY <4>1, <4>2 DEF HalfSent
    <3>2. QED
      BY <2>1, <3>1 DEF HalfSent
  <2>4. Sent' = Sent /\ Prefix' = Prefix
    BY <2>1, <2>2, <2>3 DEF Sent, BytesInBuffer, Prefix
  <2>5. QED
    BY <2>1, <2>4 DEF ReceiverWaits, Waiting, Notifying
<1>7. CASE Copy
  <2>1. /\ UNCHANGED <<kind, head, tail, trigger, todo, note, blocked>> /\ pc["sender"] = "copy"
        /\ pc'["sender"] = "advance" /\ pc'["receiver"] = pc["receiver"]
    BY <1>7 DEF Copy, Typed, TypeOK
  <2>2. HalfSent' = HalfSent
    BY <2>1 DEF HalfSent
  <2>3. Sent' = Sent /\ Prefix' = Prefix
    BY <2>1, <2>2 DEF Sent, BytesInBuffer, Prefix
  <2>4. QED
    BY <2>1, <2>3 DEF ReceiverWaits, Waiting, Notifying
<1>8. CASE Advance
  <2>1. /\ UNCHANGED <<kind, tail, trigger, note, blocked>> /\ pc["sender"] = "advance"
        /\ pc'["sender"] = (IF Len(todo) > 1 THEN "copy" ELSE "level")
        /\ pc'["receiver"] = pc["receiver"]
        /\ head' = Wrap(head + Len(Head(todo))) /\ todo' = Tail(todo)
    BY <1>8 DEF Advance, Typed, TypeOK
  <2>2. Len(todo) \in {1, 2} /\ (Len(todo) = 2 => kind = "message")
    BY <2>1, PieceTyped
  <2>3. CASE Len(todo) = 1
    BY <2>1, <2>3 DEF ReceiverWaits
  <2>4. CASE Len(todo) = 2
    <3>1. PICK p \in Payloads : todo = <<Header(Len(p)), p>> \/ todo = <<p>>
      BY <2>1, <2>2, <2>4 DEF Carrying
    <3>2. Len(<<p>>) # 2
      OBVIOUS
    <3>3. todo = <<Header(Len(p)), p>> /\ Len(p) \in Nat
      BY <2>4, <3>1, <3>2, StreamBufferAssumption
    <3>4. Len(Head(todo)) = LengthBytes /\ todo' = <<p>>
      BY <2>1, <3>3, HeaderTyped
    <3>5. ~HalfSent /\ HalfSent'
      BY <2>1, <2>2, <2>4, <3>4 DEF HalfSent
    <3>6. Sent = BytesInBuffer /\ Sent' = BytesInBuffer' - LengthBytes
      BY <3>5, Counts DEF Sent
    <3>7. BytesInBuffer' <= BytesInBuffer + LengthBytes
      <4>1. /\ head \in 0 .. Length - 1 /\ tail \in 0 .. Length - 1 /\ Length \in Nat
            /\ LengthBytes \in 1 .. Length - 1
        BY StreamBufferAssumption DEF Typed, TypeOK
      <4>2. \A h \in 0 .. Length - 1, t \in 0 .. Length - 1 :
              Distance(Wrap(h + LengthBytes), t) <= Distance(h, t) + LengthBytes
        BY <4>1 DEF Distance, Wrap
      <4>3. BytesInBuffer = Distance(head, tail) /\ BytesInBuffer' = Distance(Wrap(head + LengthBytes), tail)
        BY <2>1, <3>4, BytesAreDistance
      <4>4. QED
        BY <4>1, <4>2, <4>3
    <3>8. Sent' <= Sent
      BY <3>6, <3>7, Counts, CountsNext
    <3>9. Prefix' = Prefix /\ Sent' \in Int
      BY <2>1, <3>6, Counts, CountsNext DEF Prefix
    <3>10. CASE Waiting("receiver")
      <4>1. Sent < trigger \/ Sent <= Prefix
        BY <2>1, <3>10 DEF ReceiverWaits, Notifying
      <4>2. Sent' < trigger' \/ Sent' <= Prefix'
        BY <2>1, <3>8, <3>9, <4>1, Counts
      <4>3. QED
        BY <4>2 DEF ReceiverWaits
    <3>11. CASE ~Waiting("receiver")
      BY <2>1, <3>11 DEF ReceiverWaits, Waiting
    <3>12. QED
      BY <3>10, <3>11
  <2>5. QED
    BY <2>2, <2>3, <2>4
<1>9. CASE Level
  <2>1. /\ UNCHANGED <<kind, head, tail, trigger, note, blocked>> /\ pc["sender"] = "level"
        /\ pc'["receiver"] = pc["receiver"]
        /\ (pc'["sender"] = "complete" \/ (pc'["sender"] = "idle" /\ ~(BytesInBuffer >= trigger)))
    BY <1>9 DEF Level, Typed, TypeOK
  <2>2. CASE pc'["sender"] = "complete"
    BY <2>2 DEF ReceiverWaits, Notifying
  <2>3. CASE pc'["sender"] = "idle" /\ ~(BytesInBuffer >= trigger)
    <3>1. Sent' = BytesInBuffer
      <4>1. ~HalfSent'
        BY <2>3 DEF HalfSent
      <4>2. BytesInBuffer' = BytesInBuffer
        BY <2>1 DEF BytesInBuffer
      <4>3. QED
        BY <4>1, <4>2, Counts DEF Sent
    <3>2. Sent' < trigger'
      BY <2>1, <2>3, <3>1, Counts
    <3>3. QED
      BY <3>2 DEF ReceiverWaits
  <2>4. QED
    BY <2>1, <2>2, <2>3
<1>10. CASE CheckBytes
  <2>1. /\ UNCHANGED <<kind, head, tail, trigger, todo, blocked>> /\ pc["receiver"] = "check"
        /\ pc'["sender"] = pc["sender"]
        /\ (BytesInBuffer <= Prefix \/ pc'["receiver"] = "read")
    BY <1>10 DEF CheckBytes, Typed, TypeOK
  <2>2. ~blocked["receiver"]
    BY <2>1 DEF Registered
  <2>3. CASE BytesInBuffer <= Prefix
    <3>1. Sent <= Prefix
      BY <2>3, Counts DEF Sent
    <3>2. HalfSent' = HalfSent
      BY <2>1 DEF HalfSent
    <3>3. Sent' = Sent /\ Prefix' = Prefix
      BY <2>1, <3>2 DEF Sent, BytesInBuffer, Prefix
    <3>4. QED
      BY <3>1, <3>3 DEF ReceiverWaits
  <2>4. CASE pc'["receiver"] = "read"
    BY <2>1, <2>2, <2>4 DEF ReceiverWaits, Waiting
  <2>5. QED
    BY <2>1, <2>3, <2>4
<1>11. CASE Recheck
  <2>1. ~Waiting("receiver")'
    BY <1>11 DEF Recheck, May, Waiting, Holding, Registered, Typed, TypeOK
  <2>2. QED
    BY <2>1 DEF ReceiverWaits
<1>12. CASE Read
  <2>1. ~Waiting("receiver")'
    BY <1>12 DEF Read, May, Waiting, Holding, Registered, Typed, TypeOK
  <2>2. QED
    BY <2>1 DEF ReceiverWaits
<1>13. CASE ReadLength
  <2>1. ~Waiting("receiver")'
    BY <1>13 DEF ReadLength, May, Waiting, Holding, Registered, Typed, TypeOK
  <2>2. QED
    BY <2>1 DEF ReceiverWaits
<1>14. CASE PassHeader
  <2>1. ~Waiting("receiver")'
    BY <1>14 DEF PassHeader, May, Waiting, Holding, Registered, Typed, TypeOK
  <2>2. QED
    BY <2>1 DEF ReceiverWaits
<1>15. CASE Fit
  <2>1. ~Waiting("receiver")'
    BY <1>15 DEF Fit, May, Waiting, Holding, Registered, Typed, TypeOK
  <2>2. QED
    BY <2>1 DEF ReceiverWaits
<1>16. CASE CopyOut
  <2>1. ~Waiting("receiver")'
    BY <1>16 DEF CopyOut, May, Waiting, Holding, Registered, Typed, TypeOK
  <2>2. QED
    BY <2>1 DEF ReceiverWaits
<1>17. CASE PassData
  <2>1. ~Waiting("receiver")'
    BY <1>17 DEF PassData, May, Waiting, Holding, Registered, Typed, TypeOK
  <2>2. QED
    BY <2>1 DEF ReceiverWaits
<1>18. CASE SetTriggerLevel
  <2>1. ~Waiting("receiver")'
    BY <1>18 DEF SetTriggerLevel, May, Waiting, Holding, Registered, Typed, TypeOK
  <2>2. QED
    BY <2>1 DEF ReceiverWaits
<1>19. CASE Reset
  <2>1. ~Waiting("receiver")'
    BY <1>19 DEF Reset, May, Waiting, Holding, Registered, Typed, TypeOK
  <2>2. QED
    BY <2>1 DEF ReceiverWaits
<1>20. ASSUME NEW e \in Ends, Wait(e) PROVE ReceiverWaits'
  <2>1. UNCHANGED <<kind, head, tail, trigger, todo>>
    BY <1>20 DEF Wait
  <2>2. CASE Waiting("receiver")'
    <3>1. Waiting("receiver") /\ HalfSent' = HalfSent
      BY <1>20, <2>1, <2>2 DEF Wait, Waiting, HalfSent, Registered, Typed, TypeOK
    <3>2. /\ pc["sender"] = "level" => pc'["sender"] = "level"
          /\ Notifying("sender") => Notifying("sender")'
      BY <1>20, <2>2, <3>1 DEF Wait, Waiting, Notifying, Registered, Typed, TypeOK
    <3>3. Sent' = Sent /\ Prefix' = Prefix
      BY <2>1, <3>1 DEF Sent, BytesInBuffer, Prefix
    <3>4. QED
      BY <2>1, <3>1, <3>2, <3>3 DEF ReceiverWaits
  <2>3. QED
    BY <2>2 DEF ReceiverWaits
<1>21. ASSUME NEW e \in Ends, Woken(e) PROVE ReceiverWaits'
  <2>1. UNCHANGED <<kind, head, tail, trigger, todo>>
    BY <1>21 DEF Woken
  <2>2. CASE Waiting("receiver")'
    <3>1. Waiting("receiver") /\ HalfSent' = HalfSent
      BY <1>21, <2>1, <2>2 DEF Woken, Waiting, HalfSent, Registered, Typed, TypeOK
    <3>2. /\ pc["sender"] = "level" => pc'["sender"] = "level"
          /\ Notifying("sender") => Notifying("sender")'
      BY <1>21, <2>2, <3>1 DEF Woken, Waiting, Notifying, Registered, Typed, TypeOK
    <3>3. Sent' = Sent /\ Prefix' = Prefix
      BY <2>1, <3>1 DEF Sent, BytesInBuffer, Prefix
    <3>4. QED
      BY <2>1, <3>1, <3>2, <3>3 DEF ReceiverWaits
  <2>3. QED
    BY <2>2 DEF ReceiverWaits
<1>22. ASSUME NEW e \in Ends, ForgetSelf(e) PROVE ReceiverWaits'
  <2>1. UNCHANGED <<kind, head, tail, trigger, todo>>
    BY <1>22 DEF ForgetSelf
  <2>2. CASE Waiting("receiver")'
    <3>1. Waiting("receiver") /\ HalfSent' = HalfSent
      BY <1>22, <2>1, <2>2 DEF ForgetSelf, Waiting, HalfSent, Registered, Typed, TypeOK
    <3>2. /\ pc["sender"] = "level" => pc'["sender"] = "level"
          /\ Notifying("sender") => Notifying("sender")'
      BY <1>22, <2>2, <3>1 DEF ForgetSelf, Waiting, Notifying, Registered, Typed, TypeOK
    <3>3. Sent' = Sent /\ Prefix' = Prefix
      BY <2>1, <3>1 DEF Sent, BytesInBuffer, Prefix
    <3>4. QED
      BY <2>1, <3>1, <3>2, <3>3 DEF ReceiverWaits
  <2>3. QED
    BY <2>2 DEF ReceiverWaits
<1>23. ASSUME NEW e \in Ends, Complete(e) PROVE ReceiverWaits'
  <2>1. UNCHANGED <<kind, head, tail, trigger, todo>>
    BY <1>23 DEF Complete
  <2>2. CASE Waiting("receiver")'
    <3>1. Waiting("receiver") /\ HalfSent' = HalfSent
      BY <1>23, <2>1, <2>2 DEF Complete, Waiting, HalfSent, Registered, Typed, TypeOK
    <3>2. /\ pc["sender"] = "level" => pc'["sender"] = "level"
          /\ Notifying("sender") => Notifying("sender")'
      BY <1>23, <2>2, <3>1 DEF Complete, Waiting, Notifying, Registered, Typed, TypeOK
    <3>3. Sent' = Sent /\ Prefix' = Prefix
      BY <2>1, <3>1 DEF Sent, BytesInBuffer, Prefix
    <3>4. QED
      BY <2>1, <3>1, <3>2, <3>3 DEF ReceiverWaits
  <2>3. QED
    BY <2>2 DEF ReceiverWaits
<1>24. ASSUME NEW e \in Ends, Notify(e) PROVE ReceiverWaits'
  <2>1. UNCHANGED <<kind, head, tail, trigger, todo>>
    BY <1>24 DEF Notify
  <2>2. CASE Waiting("receiver")'
    <3>1. Waiting("receiver") /\ HalfSent' = HalfSent
      BY <1>24, <2>1, <2>2 DEF Notify, Waiting, HalfSent, Registered, Typed, TypeOK
    <3>2. /\ pc["sender"] = "level" => pc'["sender"] = "level"
          /\ Notifying("sender") => Notifying("sender")'
      BY <1>24, <2>2, <3>1 DEF Notify, Waiting, Notifying, Registered, Typed, TypeOK
    <3>3. Sent' = Sent /\ Prefix' = Prefix
      BY <2>1, <3>1 DEF Sent, BytesInBuffer, Prefix
    <3>4. QED
      BY <2>1, <3>1, <3>2, <3>3 DEF ReceiverWaits
  <2>3. QED
    BY <2>2 DEF ReceiverWaits
<1>25. ASSUME NEW e \in Ends, Forget(e) PROVE ReceiverWaits'
  <2>1. UNCHANGED <<kind, head, tail, trigger, todo>>
    BY <1>25 DEF Forget
  <2>2. CASE Waiting("receiver")'
    <3>1. Waiting("receiver") /\ HalfSent' = HalfSent
      BY <1>25, <2>1, <2>2 DEF Forget, Waiting, HalfSent, Registered, Typed, TypeOK
    <3>2. /\ pc["sender"] = "level" => pc'["sender"] = "level"
          /\ Notifying("sender") => Notifying("sender")'
      BY <1>25, <2>2, <3>1 DEF Forget, Waiting, Notifying, Registered, Typed, TypeOK
    <3>3. Sent' = Sent /\ Prefix' = Prefix
      BY <2>1, <3>1 DEF Sent, BytesInBuffer, Prefix
    <3>4. QED
      BY <2>1, <3>1, <3>2, <3>3 DEF ReceiverWaits
  <2>3. QED
    BY <2>2 DEF ReceiverWaits
<1>26. ASSUME NEW e \in Ends, Expire(e) PROVE ReceiverWaits'
  <2>1. UNCHANGED <<kind, head, tail, trigger, todo>>
    BY <1>26 DEF Expire
  <2>2. CASE Waiting("receiver")'
    <3>1. Waiting("receiver") /\ HalfSent' = HalfSent
      BY <1>26, <2>1, <2>2 DEF Expire, Waiting, HalfSent, Registered, Typed, TypeOK
    <3>2. /\ pc["sender"] = "level" => pc'["sender"] = "level"
          /\ Notifying("sender") => Notifying("sender")'
      BY <1>26, <2>2, <3>1 DEF Expire, Waiting, Notifying, Registered, Typed, TypeOK
    <3>3. Sent' = Sent /\ Prefix' = Prefix
      BY <2>1, <3>1 DEF Sent, BytesInBuffer, Prefix
    <3>4. QED
      BY <2>1, <3>1, <3>2, <3>3 DEF ReceiverWaits
  <2>3. QED
    BY <2>2 DEF ReceiverWaits
<1>27. CASE UNCHANGED vars
  <2>1. UNCHANGED <<kind, head, tail, trigger, todo, pc, note, blocked>>
    BY <1>27 DEF vars
  <2>2. HalfSent' = HalfSent
    BY <2>1 DEF HalfSent
  <2>3. Sent' = Sent /\ Prefix' = Prefix
    BY <2>1, <2>2 DEF Sent, BytesInBuffer, Prefix
  <2>4. QED
    BY <2>1, <2>3 DEF ReceiverWaits, Waiting, Notifying
<1>28. QED
  BY <1>1, <1>2, <1>3, <1>4, <1>5, <1>6, <1>7, <1>8, <1>9, <1>10, <1>11,
    <1>12, <1>13, <1>14, <1>15, <1>16, <1>17, <1>18, <1>19, <1>20, <1>21,
    <1>22, <1>23, <1>24, <1>25, <1>26, <1>27
    DEF Next, Sender, Receiver, Common

(* One core: registrations and wake-ups                                    *)
LEMMA WakeInit == Init => WakeInv
<1> SUFFICES ASSUME Init PROVE WakeInv
  OBVIOUS
<1>1. \A e \in Ends : ~Waiting(e)
  BY DEF Init, Waiting
<1>2. Registered
  BY <1>1 DEF Init, Registered, Holding
<1>3. QED
  BY <1>1, <1>2 DEF WakeInv, SenderWaits, ReceiverWaits, Ends

(* The step of the invariant                                               *)
LEMMA WakeStep == SameCore /\ RingInv /\ WakeInv /\ [Next]_vars => WakeInv'
<1> SUFFICES ASSUME SameCore, RingInv, WakeInv, [Next]_vars PROVE WakeInv'
  OBVIOUS
<1>1. Typed /\ Carrying /\ Typed' /\ Registered /\ SenderWaits /\ ReceiverWaits
  BY RingStep DEF RingInv, WakeInv
<1>2. Registered'
  BY <1>1, RegisteredStep
<1>3. ReceiverWaits'
  BY <1>1, ReceiverStep
<1>4. SenderWaits'
  <2>1. CASE clobbered
    BY <1>1, <2>1, ClobberedStays DEF SenderWaits
  <2>2. CASE ~clobbered
    <3>1. Good
      BY <2>2 DEF RingInv, Good
    <3>2. QED
      BY <1>1, <2>2, <3>1, SenderStep
  <2>3. QED
    BY <2>1, <2>2
<1>5. QED
  BY <1>2, <1>3, <1>4 DEF WakeInv

LEMMA WakeAlways == ASSUME SameCore PROVE Spec => [](RingInv /\ WakeInv)
<1>1. Init => RingInv /\ WakeInv
  BY RingInit, WakeInit
<1>2. (RingInv /\ WakeInv) /\ [Next]_vars => (RingInv /\ WakeInv)'
  BY RingStep, WakeStep
<1>3. QED
  BY <1>1, <1>2, PTL DEF Spec

(* With both ends on one core no assertion of the stream buffers fails:    *)
(* there is one writer, one reader, and a task to notify.                  *)
THEOREM AssertionsHoldCorrect == ASSUME SameCore PROVE Spec => []AssertionsHold
<1>1. RingInv /\ WakeInv => AssertionsHold
  BY DEF RingInv, Typed, WakeInv, Registered, AssertionsHold
<1>2. QED
  BY <1>1, WakeAlways, PTL

(* With both ends on one core no end stays blocked while there is what it  *)
(* waits for, unless the other end is about to wake it.                    *)
THEOREM NoLostWakeupCorrect == ASSUME SameCore PROVE Spec => []NoLostWakeup
<1>1. RingInv /\ WakeInv => NoLostWakeup
  <2> SUFFICES ASSUME RingInv, WakeInv PROVE NoLostWakeup
    OBVIOUS
  <2>1. Typed /\ Registered /\ SenderWaits /\ ReceiverWaits
    BY DEF RingInv, WakeInv
  <2>2. /\ SpacesAvailable \in Int /\ Required \in Int /\ Sent \in Int /\ trigger \in Int
        /\ Prefix \in Int
    BY <2>1, Counts
  <2>3. ASSUME blocked["receiver"], Sent >= trigger, Sent > Prefix
        PROVE  registered["receiver"] /\ (pc["sender"] = "level" \/ Notifying("sender"))
    <3>1. Waiting("receiver") /\ registered["receiver"]
      BY <2>1, <2>3 DEF Waiting, Registered, Ends
    <3>2. ~(Sent < trigger) /\ ~(Sent <= Prefix)
      BY <2>2, <2>3
    <3>3. QED
      BY <2>1, <3>1, <3>2 DEF ReceiverWaits
  <2>4. ASSUME ~clobbered, blocked["sender"], SpacesAvailable >= Required
        PROVE  registered["sender"] /\ (InMessage \/ Notifying("receiver"))
    <3>1. Waiting("sender") /\ registered["sender"]
      BY <2>1, <2>4 DEF Waiting, Registered, Ends
    <3>2. ~(SpacesAvailable < Required)
      BY <2>2, <2>4
    <3>3. QED
      BY <2>1, <2>4, <3>1, <3>2 DEF SenderWaits
  <2>5. QED
    BY <2>3, <2>4 DEF NoLostWakeup
<1>2. QED
  BY <1>1, WakeAlways, PTL

LEMMA NatMinimum ==
    ASSUME NEW S \in SUBSET Nat, S # {}
    PROVE  \E m \in S : \A k \in Nat : k < m => k \notin S
<1>1. IsWellFoundedOn(OpToRel(<, Nat), Nat)
  BY NatLessThanWellFounded
<1>2. PICK m \in S : \A k \in Nat : <<k, m>> \in OpToRel(<, Nat) => k \notin S
  BY <1>1, WFMin
<1>3. QED
  BY <1>2 DEF OpToRel

LEMMA FromExists ==
    ASSUME NEW u \in Seq(Nat)
    PROVE  \E f : f = [i \in 0 .. Len(u) |->
                         IF Fits(u, i) THEN <<Body(u, i)>> \o f[After(u, i)] ELSE <<>>]
<1> DEFINE n == Len(u)
           D(k) == n - k .. n
           Step(f, i) == IF Fits(u, i) THEN <<Body(u, i)>> \o f[After(u, i)] ELSE <<>>
           Solves(f, k) == f = [i \in D(k) |-> Step(f, i)]
           Bad == {k \in 0 .. n : ~ \E f : Solves(f, k)}
<1>1. n \in Nat /\ LengthBytes \in Nat
  BY StreamBufferAssumption
<1>2. ASSUME Bad # {} PROVE FALSE
  <2>1. PICK k \in Bad : \A j \in Nat : j < k => j \notin Bad
    <3>1. Bad \in SUBSET Nat
      BY <1>1
    <3> HIDE DEF Bad
    <3>2. QED
      BY <1>2, <3>1, NatMinimum
  <2>2. k \in 0 .. n /\ ~ \E f : Solves(f, k)
    BY <2>1
  <2>3. CASE k = 0
    <3> DEFINE f == [i \in D(k) |-> <<>>]
    <3>1. ASSUME NEW i \in D(k) PROVE Step(f, i) = <<>>
      <4>1. i = n
        BY <1>1, <2>3
      <4>2. ~Fits(u, i)
        BY <1>1, <4>1 DEF Fits
      <4>3. QED
        BY <4>2
    <3> HIDE DEF Step
    <3>2. Solves(f, k)
      BY <3>1
    <3>3. QED
      BY <2>2, <3>2
  <2>4. CASE k # 0
    <3>1. k - 1 \in 0 .. n /\ k - 1 < k /\ k - 1 \in Nat
      BY <1>1, <2>2, <2>4
    <3>2. PICK f : Solves(f, k - 1)
      BY <2>1, <3>1
    <3> DEFINE g == [i \in D(k) |-> IF i = n - k THEN Step(f, i) ELSE f[i]]
    <3>3. ASSUME NEW i \in D(k) PROVE g[i] = Step(g, i)
      <4>1. i \in Int /\ (i # n - k => i \in D(k - 1))
        BY <1>1, <2>2, <3>1, <3>3
      <4>2. g[i] = Step(f, i)
        <5>1. CASE i = n - k
          BY <3>3, <5>1
        <5>2. CASE i # n - k
          <6>1. g[i] = f[i]
            BY <3>3, <5>2
          <6>2. f[i] = Step(f, i)
            <7>1. i \in D(k - 1)
              BY <4>1, <5>2
            <7> HIDE DEF Step, D
            <7>2. QED
              BY <3>2, <7>1
          <6>3. QED
            BY <6>1, <6>2
        <5>3. QED
          BY <5>1, <5>2
      <4>3. Fits(u, i) => g[After(u, i)] = f[After(u, i)]
        <5>1. SUFFICES ASSUME Fits(u, i) PROVE g[After(u, i)] = f[After(u, i)]
          OBVIOUS
        <5>2. PICK a \in i + 1 .. n : a = After(u, i)
          BY <5>1 DEF Fits
        <5>3. a \in D(k) /\ a # n - k
          BY <1>1, <2>2, <3>3, <4>1, <5>2
        <5>4. QED
          BY <5>2, <5>3
      <4> HIDE DEF g
      <4>4. QED
        BY <4>2, <4>3
    <3>4. DOMAIN g = D(k) /\ g = [i \in D(k) |-> g[i]]
      OBVIOUS
    <3> HIDE DEF g, Step, D
    <3>5. Solves(g, k)
      BY <3>3, <3>4
    <3>6. QED
      BY <2>2, <3>5
  <2>5. QED
    BY <2>3, <2>4
<1>3. PICK f : Solves(f, n)
  <2>1. n \in 0 .. n
    BY <1>1
  <2>2. n \notin Bad
    <3> HIDE DEF Bad, n
    <3>1. QED
      BY <1>2
  <2> HIDE DEF Solves
  <2>3. QED
    BY <2>1, <2>2
<1>4. D(n) = 0 .. n
  BY <1>1
<1>5. QED
  BY <1>3, <1>4

LEMMA FromEquation ==
    ASSUME NEW u \in Seq(Nat)
    PROVE  /\ DOMAIN MessagesFrom(u) = 0 .. Len(u)
           /\ \A i \in 0 .. Len(u) :
                MessagesFrom(u)[i] = IF Fits(u, i)
                                       THEN <<Body(u, i)>> \o MessagesFrom(u)[After(u, i)]
                                       ELSE <<>>
<1> DEFINE F == MessagesFrom(u)
<1>1. F = CHOOSE f : f = [i \in 0 .. Len(u) |->
                            IF Fits(u, i) THEN <<Body(u, i)>> \o f[After(u, i)] ELSE <<>>]
  BY DEF MessagesFrom, Fits, Body, After
<1>2. F = [i \in 0 .. Len(u) |-> IF Fits(u, i) THEN <<Body(u, i)>> \o F[After(u, i)] ELSE <<>>]
  <2> HIDE DEF F
  <2>1. QED
    BY <1>1, FromExists
<1> HIDE DEF F
<1>3. DOMAIN F = 0 .. Len(u)
  BY <1>2
<1>4. ASSUME NEW i \in 0 .. Len(u)
      PROVE  F[i] = IF Fits(u, i) THEN <<Body(u, i)>> \o F[After(u, i)] ELSE <<>>
  BY <1>2
<1>5. QED
  BY <1>3, <1>4 DEF F

LEMMA FitsAt ==
    ASSUME NEW u \in Seq(Nat), NEW i \in 0 .. Len(u), Fits(u, i)
    PROVE  /\ i < Len(u) /\ i + 1 \in 1 .. Len(u) /\ u[i + 1] \in Nat
           /\ After(u, i) = i + LengthBytes + u[i + 1]
           /\ After(u, i) \in i + 1 .. Len(u) /\ After(u, i) \in 0 .. Len(u)
           /\ Body(u, i) = SubSeq(u, i + LengthBytes + 1, After(u, i))
           /\ Body(u, i) \in Seq(Nat) /\ Len(Body(u, i)) = u[i + 1]
           /\ \A k \in 1 .. u[i + 1] : Body(u, i)[k] = u[i + LengthBytes + k]
<1>1. LengthBytes \in Nat \ {0} /\ Len(u) \in Nat
  BY StreamBufferAssumption
<1>2. i + LengthBytes < Len(u) /\ After(u, i) \in i + 1 .. Len(u)
  BY DEF Fits
<1>3. i < Len(u) /\ i + 1 \in 1 .. Len(u)
  BY <1>1, <1>2
<1>4. PICK n \in Nat : n = u[i + 1]
  BY <1>3
<1>5. After(u, i) = i + LengthBytes + n
  BY <1>4 DEF After
<1>6. PICK a \in 0 .. Len(u) : a = i + LengthBytes + n /\ a = After(u, i)
  BY <1>1, <1>2, <1>5
<1>7. i + LengthBytes + 1 \in 1 .. Len(u) + 1 /\ a \in i + LengthBytes .. Len(u)
  BY <1>1, <1>2, <1>4, <1>6
<1>8. a - (i + LengthBytes + 1) + 1 = n /\ a \in (i + LengthBytes + 1) - 1 .. Len(u)
  <2>1. i \in Nat /\ a \in Nat /\ LengthBytes \in Nat /\ a = i + LengthBytes + n
    BY <1>1, <1>6
  <2>2. a - (i + LengthBytes + 1) + 1 = n /\ (i + LengthBytes + 1) - 1 = i + LengthBytes
    BY <2>1
  <2>3. QED
    BY <1>7, <2>2
<1>9. LET b == SubSeq(u, i + LengthBytes + 1, a)
      IN  /\ b \in Seq(Nat) /\ Len(b) = n
          /\ \A k \in 1 .. n : b[k] = u[(i + LengthBytes + 1) + k - 1]
  <2>1. PICK f \in 1 .. Len(u) + 1 : f = i + LengthBytes + 1
    BY <1>7
  <2>2. a \in f - 1 .. Len(u) /\ a - f + 1 = n
    BY <1>8, <2>1
  <2>3. /\ SubSeq(u, f, a) \in Seq(Nat) /\ Len(SubSeq(u, f, a)) = n
        /\ \A k \in 1 .. n : SubSeq(u, f, a)[k] = u[f + k - 1]
    BY <2>2, Cut
  <2>4. QED
    BY <2>1, <2>3
<1>10. /\ Body(u, i) \in Seq(Nat) /\ Len(Body(u, i)) = n
       /\ \A k \in 1 .. n : Body(u, i)[k] = u[i + LengthBytes + k]
  <2>1. \A k \in 1 .. n : (i + LengthBytes + 1) + k - 1 = i + LengthBytes + k
    BY <1>1
  <2>2. QED
    BY <1>6, <1>9, <2>1 DEF Body
<1>11. QED
  BY <1>2, <1>3, <1>4, <1>5, <1>6, <1>10 DEF Body

LEMMA FromTyped ==
    ASSUME NEW u \in Seq(Nat)
    PROVE  \A i \in 0 .. Len(u) : MessagesFrom(u)[i] \in Seq(Seq(Nat))
<1> DEFINE F == MessagesFrom(u)
           n == Len(u)
           Bad == {k \in 0 .. n : F[n - k] \notin Seq(Seq(Nat))}
<1>1. n \in Nat
  OBVIOUS
<1>2. \A i \in 0 .. n : F[i] = IF Fits(u, i) THEN <<Body(u, i)>> \o F[After(u, i)] ELSE <<>>
  BY FromEquation
<1> HIDE DEF F
<1>3. ASSUME Bad # {} PROVE FALSE
  <2>1. PICK k \in Bad : \A j \in Nat : j < k => j \notin Bad
    <3>1. Bad \in SUBSET Nat
      BY <1>1
    <3> HIDE DEF Bad
    <3>2. QED
      BY <1>3, <3>1, NatMinimum
  <2>2. k \in 0 .. n /\ F[n - k] \notin Seq(Seq(Nat)) /\ n - k \in 0 .. n
    BY <1>1, <2>1
  <2>3. Fits(u, n - k)
    <3>1. ~Fits(u, n - k) => F[n - k] = <<>>
      BY <1>2, <2>2
    <3>2. <<>> \in Seq(Seq(Nat))
      OBVIOUS
    <3>3. QED
      BY <2>2, <3>1, <3>2
  <2>4. PICK a \in n - k + 1 .. n : a = After(u, n - k)
    BY <2>2, <2>3, FitsAt
  <2>5. Body(u, n - k) \in Seq(Nat)
    BY <2>2, <2>3, FitsAt
  <2>6. n - a \in 0 .. n /\ n - a \in Nat /\ n - a < k /\ n - (n - a) = a
    BY <1>1, <2>2, <2>4
  <2>7. n - a \notin Bad
    BY <2>1, <2>6
  <2>8. F[a] \in Seq(Seq(Nat))
    BY <2>6, <2>7
  <2>9. F[n - k] = <<Body(u, n - k)>> \o F[a]
    BY <1>2, <2>2, <2>3, <2>4
  <2>10. QED
    BY <2>2, <2>5, <2>8, <2>9
<1>4. ASSUME NEW i \in 0 .. n PROVE F[i] \in Seq(Seq(Nat))
  <2>1. n - i \in 0 .. n /\ n - (n - i) = i
    BY <1>1
  <2>2. n - i \notin Bad
    <3> HIDE DEF Bad
    <3>1. QED
      BY <1>3
  <2>3. QED
    BY <2>1, <2>2
<1>5. QED
  BY <1>4 DEF F

(* What comes before an index does not matter ...                          *)
LEMMA FromShift ==
    ASSUME NEW u \in Seq(Nat), NEW d \in 0 .. Len(u), NEW v \in Seq(Nat),
           Len(v) = Len(u) - d, \A i \in 1 .. Len(v) : v[i] = u[d + i]
    PROVE  MessagesFrom(u)[d] = MessagesFrom(v)[0]
<1> DEFINE F == MessagesFrom(u)
           G == MessagesFrom(v)
           n == Len(v)
           Bad == {k \in 0 .. n : F[d + (n - k)] # G[n - k]}
<1>1. /\ n \in Nat /\ d \in Nat /\ Len(u) = n + d /\ LengthBytes \in Nat
      /\ \A i \in 1 .. n : v[i] = u[d + i]
  BY StreamBufferAssumption
<1>2. /\ \A i \in 0 .. Len(u) : F[i] = IF Fits(u, i) THEN <<Body(u, i)>> \o F[After(u, i)] ELSE <<>>
      /\ \A i \in 0 .. n : G[i] = IF Fits(v, i) THEN <<Body(v, i)>> \o G[After(v, i)] ELSE <<>>
  BY FromEquation DEF n
<1> HIDE DEF F, G, n
<1>3. ASSUME Bad # {} PROVE FALSE
  <2>1. PICK k \in Bad : \A j \in Nat : j < k => j \notin Bad
    <3>1. Bad \in SUBSET Nat
      BY <1>1
    <3> HIDE DEF Bad
    <3>2. QED
      BY <1>3, <3>1, NatMinimum
  <2>a. k \in 0 .. n /\ F[d + (n - k)] # G[n - k]
    BY <2>1
  <2>2. PICK i \in 0 .. n : i = n - k
    BY <1>1, <2>a
  <2>3. F[d + i] # G[i] /\ d + i \in 0 .. Len(u) /\ k \in 0 .. n
    BY <1>1, <2>a, <2>2
  <2>4. i < n => v[i + 1] = u[d + i + 1] /\ v[i + 1] \in Nat
    <3>1. i < n => i + 1 \in 1 .. n /\ d + i + 1 = d + (i + 1)
      BY <1>1, <2>2
    <3>2. i < n => v[i + 1] = u[d + (i + 1)]
      BY <1>1, <3>1
    <3>3. i < n => v[i + 1] \in Nat
      <4>1. \A j \in 1 .. n : v[j] \in Nat
        <5>1. \A j \in 1 .. Len(v) : v[j] \in Nat
          BY Elements
        <5>2. QED
          BY <5>1 DEF n
      <4>2. QED
        BY <3>1, <4>1
    <3>4. QED
      BY <3>1, <3>2, <3>3
  <2>5. i < n => After(u, d + i) = d + After(v, i) /\ After(v, i) \in Nat
    <3>1. SUFFICES ASSUME i < n PROVE After(u, d + i) = d + After(v, i) /\ After(v, i) \in Nat
      OBVIOUS
    <3>2. PICK x \in Nat : x = v[i + 1] /\ x = u[d + i + 1]
      BY <2>4, <3>1
    <3>3. After(v, i) = i + LengthBytes + x /\ After(u, d + i) = d + i + LengthBytes + x
      BY <3>2 DEF After
    <3>4. i \in Nat /\ d \in Nat /\ LengthBytes \in Nat /\ x \in Nat
      BY <1>1, <3>2
    <3>5. /\ d + i + LengthBytes + x = d + (i + LengthBytes + x)
          /\ i + LengthBytes + x \in Nat
      BY <3>4
    <3>6. QED
      BY <3>3, <3>5
  <2>6. Fits(u, d + i) <=> Fits(v, i)
    <3>1. CASE i < n
      <4>1. PICK a \in Nat : a = After(v, i) /\ After(u, d + i) = d + a
        BY <2>5, <3>1
      <4>2. d + i + LengthBytes < Len(u) <=> i + LengthBytes < n
        BY <1>1
      <4>3. d + a \in d + i + 1 .. Len(u) <=> a \in i + 1 .. n
        BY <1>1
      <4>4. QED
        BY <4>1, <4>2, <4>3 DEF Fits, n
    <3>2. CASE ~(i < n)
      <4>1. ~(d + i + LengthBytes < Len(u)) /\ ~(i + LengthBytes < n)
        BY <1>1, <3>2
      <4>2. QED
        BY <4>1 DEF Fits, n
    <3>3. QED
      BY <3>1, <3>2
  <2>7. Fits(v, i)
    BY <1>2, <2>3, <2>6
  <2>8. /\ i < n /\ After(v, i) \in i + 1 .. n
        /\ Body(v, i) \in Seq(Nat) /\ Len(Body(v, i)) = v[i + 1]
        /\ \A m \in 1 .. v[i + 1] : Body(v, i)[m] = v[i + LengthBytes + m]
        /\ After(v, i) = i + LengthBytes + v[i + 1]
    BY <2>7, FitsAt DEF n
  <2>9. /\ Body(u, d + i) \in Seq(Nat) /\ Len(Body(u, d + i)) = u[d + i + 1]
        /\ \A m \in 1 .. u[d + i + 1] : Body(u, d + i)[m] = u[d + i + LengthBytes + m]
    BY <2>3, <2>6, <2>7, FitsAt
  <2>10. Body(u, d + i) = Body(v, i)
    <3>1. PICK x \in Nat : x = v[i + 1] /\ x = u[d + i + 1]
      BY <2>4, <2>8
    <3>2. ASSUME NEW m \in 1 .. x PROVE Body(u, d + i)[m] = Body(v, i)[m]
      <4>a. i + LengthBytes + x <= n
        BY <1>1, <2>8, <3>1
      <4>1. i + LengthBytes + m \in 1 .. n /\ d + i + LengthBytes + m = d + (i + LengthBytes + m)
        <5>1. m \in Nat /\ m >= 1 /\ m <= x /\ i \in Nat /\ x \in Nat
          BY <1>1, <3>1
        <5>2. LengthBytes \in Nat /\ n \in Nat /\ d \in Nat
          BY <1>1
        <5>3. QED
          BY <4>a, <5>1, <5>2
      <4>2. u[d + (i + LengthBytes + m)] = v[i + LengthBytes + m]
        BY <1>1, <4>1
      <4>3. QED
        BY <2>8, <2>9, <3>1, <4>1, <4>2
    <3>3. QED
      <4>1. Len(Body(u, d + i)) = x /\ Len(Body(v, i)) = x
        BY <2>8, <2>9, <3>1
      <4>2. QED
        BY <2>8, <2>9, <3>2, <4>1, SameSequence
  <2>11. PICK a \in i + 1 .. n : a = After(v, i) /\ After(u, d + i) = d + a
    BY <2>5, <2>8
  <2>12. n - a \in 0 .. n /\ n - a \in Nat /\ n - a < k /\ n - (n - a) = a
    <3>1. k \in 0 .. n /\ a \in i + 1 .. n /\ i = n - k /\ n \in Nat
      BY <1>1, <2>2, <2>3, <2>11
    <3>2. QED
      BY <3>1
  <2>13. F[d + a] = G[a]
    <3>1. n - a \notin Bad
      BY <2>1, <2>12
    <3>2. F[d + (n - (n - a))] = G[n - (n - a)]
      BY <2>12, <3>1
    <3>3. QED
      BY <2>12, <3>2
  <2>14. QED
    BY <1>2, <2>3, <2>6, <2>7, <2>10, <2>11, <2>13
<1>4. n \in 0 .. n /\ n - n = 0 /\ d + 0 = d
  BY <1>1
<1>5. n \notin Bad
  <2> HIDE DEF Bad, n
  <2>1. QED
    BY <1>3
<1>6. F[d] = G[0]
  <2>1. F[d + (n - n)] = G[n - n]
    BY <1>4, <1>5
  <2>2. QED
    BY <1>4, <2>1
<1>7. QED
  BY <1>6 DEF F, G

LEMMA MessagesConcat ==
    ASSUME NEW a \in Seq(Seq(Nat)), NEW b \in Seq(Seq(Nat)), NEW c \in Seq(Seq(Nat))
    PROVE  a \o (b \o c) = (a \o b) \o c
OBVIOUS

(* ... and what comes behind whole messages goes on behind them.           *)
LEMMA FromAppend ==
    ASSUME NEW w \in Seq(Nat), Framed(w), NEW u \in Seq(Nat),
           Len(w) <= Len(u), \A i \in 1 .. Len(w) : u[i] = w[i]
    PROVE  Messages(u) = Messages(w) \o MessagesFrom(u)[Len(w)]
<1> DEFINE F == MessagesFrom(u)
           G == MessagesFrom(w)
           m == Len(w)
<1>1. /\ m \in Nat /\ Len(u) \in Nat /\ m <= Len(u) /\ LengthBytes \in Nat \ {0}
      /\ \A i \in 1 .. m : u[i] = w[i] /\ w[i] \in Nat
  BY StreamBufferAssumption
<1>2. /\ \A i \in 0 .. Len(u) : F[i] = IF Fits(u, i) THEN <<Body(u, i)>> \o F[After(u, i)] ELSE <<>>
      /\ \A i \in 0 .. m : G[i] = IF Fits(w, i) THEN <<Body(w, i)>> \o G[After(w, i)] ELSE <<>>
      /\ \A i \in 0 .. m : G[i] \in Seq(Seq(Nat))
      /\ F[m] \in Seq(Seq(Nat))
  BY <1>1, FromEquation, FromTyped
<1>3. PICK B \in SUBSET (0 .. m) :
        /\ 0 \in B /\ m \in B
        /\ \A b \in B \ {m} : /\ b + LengthBytes < m /\ w[b + 1] >= 1
                              /\ b + LengthBytes + w[b + 1] \in B
  BY DEF Framed
<1> DEFINE Bad == {k \in 0 .. m : m - k \in B /\ F[m - k] # G[m - k] \o F[m]}
<1>4. ASSUME NEW i \in 0 .. m
      PROVE  /\ Fits(w, i) <=> i + LengthBytes < m /\ After(w, i) \in i + 1 .. m
             /\ Fits(u, i) <=> i + LengthBytes < Len(u) /\ After(u, i) \in i + 1 .. Len(u)
             /\ Fits(w, i) => /\ Body(w, i) \in Seq(Nat) /\ Len(Body(w, i)) = w[i + 1]
                              /\ \A k \in 1 .. w[i + 1] : Body(w, i)[k] = w[i + LengthBytes + k]
             /\ Fits(u, i) => /\ Body(u, i) \in Seq(Nat) /\ Len(Body(u, i)) = u[i + 1]
                              /\ \A k \in 1 .. u[i + 1] : Body(u, i)[k] = u[i + LengthBytes + k]
  <2>1. i \in 0 .. Len(u)
    BY <1>1
  <2>2. /\ Fits(w, i) <=> i + LengthBytes < m /\ After(w, i) \in i + 1 .. m
        /\ Fits(u, i) <=> i + LengthBytes < Len(u) /\ After(u, i) \in i + 1 .. Len(u)
    BY DEF Fits
  <2>3. Fits(w, i) => /\ Body(w, i) \in Seq(Nat) /\ Len(Body(w, i)) = w[i + 1]
                      /\ \A k \in 1 .. w[i + 1] : Body(w, i)[k] = w[i + LengthBytes + k]
    BY FitsAt
  <2>4. Fits(u, i) => /\ Body(u, i) \in Seq(Nat) /\ Len(Body(u, i)) = u[i + 1]
                      /\ \A k \in 1 .. u[i + 1] : Body(u, i)[k] = u[i + LengthBytes + k]
    BY <2>1, FitsAt
  <2>5. QED
    BY <2>2, <2>3, <2>4
<1> HIDE DEF F, G, m
<1>5. ASSUME Bad # {} PROVE FALSE
  <2>1. PICK k \in Bad : \A j \in Nat : j < k => j \notin Bad
    <3>1. Bad \in SUBSET Nat
      <4>1. Bad \subseteq 0 .. m
        OBVIOUS
      <4> HIDE DEF Bad
      <4>2. QED
        BY <1>1, <4>1
    <3> HIDE DEF Bad
    <3>2. QED
      BY <1>5, <3>1, NatMinimum
  <2>2. k \in 0 .. m /\ m - k \in B /\ F[m - k] # G[m - k] \o F[m]
    BY <2>1
  <2>3. PICK b \in 0 .. m : b = m - k /\ b \in B /\ F[b] # G[b] \o F[m]
    BY <1>1, <2>2
  <2>4. CASE b = m
    <3>1. ~Fits(w, m)
      BY <1>1, <1>4
    <3>2. G[m] = <<>>
      <4>1. m \in 0 .. m
        BY <1>1
      <4>2. G[m] = IF Fits(w, m) THEN <<Body(w, m)>> \o G[After(w, m)] ELSE <<>>
        BY <1>2, <4>1
      <4>3. QED
        BY <3>1, <4>2
    <3>3. <<>> \o F[m] = F[m]
      BY <1>2
    <3>4. QED
      BY <2>3, <2>4, <3>2, <3>3
  <2>5. CASE b # m
    <3>1. b + LengthBytes < m /\ w[b + 1] >= 1 /\ b + LengthBytes + w[b + 1] \in B
      BY <1>3, <2>3, <2>5
    <3>2. b + 1 \in 1 .. m
      BY <1>1, <3>1
    <3>3. PICK x \in Nat : x = w[b + 1] /\ x = u[b + 1]
      BY <1>1, <3>2
    <3>4. PICK e \in 0 .. m : e = b + LengthBytes + x /\ e \in B
      BY <1>3, <3>1, <3>3
    <3>5. After(w, b) = e /\ After(u, b) = e /\ e \in b + 1 .. m /\ e \in b + 1 .. Len(u)
      <4>1. After(w, b) = e /\ After(u, b) = e
        BY <3>3, <3>4 DEF After
      <4>2. x >= 1 /\ b \in Nat /\ e \in Nat /\ e <= m
        BY <1>1, <3>1, <3>3, <3>4
      <4>3. b + 1 <= e
        BY <1>1, <3>4, <4>2
      <4>4. QED
        BY <1>1, <4>1, <4>2, <4>3
    <3>6. Fits(w, b) /\ Fits(u, b)
      <4>1. b + LengthBytes < m /\ b + LengthBytes < Len(u)
        BY <1>1, <3>1
      <4>2. /\ Fits(w, b) <=> b + LengthBytes < m /\ After(w, b) \in b + 1 .. m
            /\ Fits(u, b) <=> b + LengthBytes < Len(u) /\ After(u, b) \in b + 1 .. Len(u)
        BY <1>4
      <4>3. QED
        BY <3>5, <4>1, <4>2
    <3>7. Body(u, b) = Body(w, b) /\ Body(w, b) \in Seq(Nat)
      <4>1. /\ Body(w, b) \in Seq(Nat) /\ Len(Body(w, b)) = x
            /\ Body(u, b) \in Seq(Nat) /\ Len(Body(u, b)) = x
        BY <1>4, <3>3, <3>6
      <4>2. ASSUME NEW i \in 1 .. x PROVE Body(u, b)[i] = Body(w, b)[i]
        <5>1. b + LengthBytes + i \in 1 .. m
          <6>1. i \in Nat /\ i >= 1 /\ i <= x /\ b \in Nat
            BY <1>1, <3>3
          <6>2. QED
            BY <1>1, <3>4, <6>1
        <5>2. QED
          <6>1. /\ \A j \in 1 .. w[b + 1] : Body(w, b)[j] = w[b + LengthBytes + j]
                /\ \A j \in 1 .. u[b + 1] : Body(u, b)[j] = u[b + LengthBytes + j]
            BY <1>4, <3>6
          <6>2. u[b + LengthBytes + i] = w[b + LengthBytes + i]
            BY <1>1, <5>1
          <6>3. QED
            BY <3>3, <6>1, <6>2
      <4>3. QED
        BY <4>1, <4>2, SameSequence
    <3>8. F[e] = G[e] \o F[m]
      <4>1. m - e \in 0 .. m /\ m - e \in Nat /\ m - e < k /\ m - (m - e) = e
        BY <1>1, <2>2, <2>3, <3>5
      <4>2. m - e \notin Bad
        BY <2>1, <4>1
      <4>3. F[m - (m - e)] = G[m - (m - e)] \o F[m]
        BY <3>4, <4>1, <4>2
      <4>4. QED
        BY <4>1, <4>3
    <3>9. G[b] = <<Body(w, b)>> \o G[e]
      BY <1>2, <3>5, <3>6
    <3>10. F[b] = <<Body(w, b)>> \o F[e]
      <4>1. b \in 0 .. Len(u)
        BY <1>1
      <4>2. F[b] = <<Body(u, b)>> \o F[After(u, b)]
        BY <1>2, <3>6, <4>1
      <4>3. QED
        BY <3>5, <3>7, <4>2
    <3>11. <<Body(w, b)>> \o (G[e] \o F[m]) = (<<Body(w, b)>> \o G[e]) \o F[m]
      <4>1. <<Body(w, b)>> \in Seq(Seq(Nat)) /\ G[e] \in Seq(Seq(Nat)) /\ F[m] \in Seq(Seq(Nat))
        BY <1>2, <3>7
      <4>2. QED
        BY <4>1, MessagesConcat
    <3>12. QED
      BY <2>3, <3>8, <3>9, <3>10, <3>11
  <2>6. QED
    BY <2>4, <2>5
<1>6. m \in 0 .. m /\ m - m = 0 /\ m \notin Bad
  <2>1. m \in 0 .. m /\ m - m = 0
    BY <1>1
  <2>2. m \notin Bad
    <3> HIDE DEF Bad
    <3>1. QED
      BY <1>5
  <2>3. QED
    BY <2>1, <2>2
<1>7. F[0] = G[0] \o F[m]
  BY <1>3, <1>6
<1>8. QED
  BY <1>7 DEF F, G, m, Messages

LEMMA MessagesTyped ==
    ASSUME NEW w \in Seq(Nat) PROVE Messages(w) \in Seq(Seq(Nat))
<1>1. 0 \in 0 .. Len(w)
  OBVIOUS
<1>2. QED
  BY <1>1, FromTyped DEF Messages

LEMMA MessagesTrailing ==
    ASSUME NEW w \in Seq(Nat), Framed(w), NEW u \in Seq(Nat),
           Len(w) <= Len(u), Len(u) <= Len(w) + LengthBytes, \A i \in 1 .. Len(w) : u[i] = w[i]
    PROVE  Messages(u) = Messages(w)
<1>1. Messages(u) = Messages(w) \o MessagesFrom(u)[Len(w)]
  BY FromAppend
<1>2. Len(w) \in 0 .. Len(u) /\ ~(Len(w) + LengthBytes < Len(u))
  BY StreamBufferAssumption
<1>3. MessagesFrom(u)[Len(w)] = <<>>
  BY <1>2, FromEquation DEF Fits
<1>4. Messages(w) \in Seq(Seq(Nat))
  BY MessagesTyped
<1>5. Messages(w) \o <<>> = Messages(w)
  BY <1>4
<1>6. QED
  BY <1>1, <1>3, <1>5

LEMMA MessagesLast ==
    ASSUME NEW w \in Seq(Nat), Framed(w), NEW u \in Seq(Nat), NEW p \in Seq(Nat),
           Len(p) \in Nat \ {0}, Len(u) = Len(w) + LengthBytes + Len(p),
           u[Len(w) + 1] = Len(p), \A i \in 1 .. Len(w) : u[i] = w[i],
           \A i \in 1 .. Len(p) : u[Len(w) + LengthBytes + i] = p[i]
    PROVE  Messages(u) = Messages(w) \o <<p>>
<1> DEFINE m == Len(w)
<1>1. m \in Nat /\ LengthBytes \in Nat \ {0} /\ Len(u) = m + LengthBytes + Len(p)
  BY StreamBufferAssumption
<1>2. Len(w) <= Len(u)
  BY <1>1
<1>3. Messages(u) = Messages(w) \o MessagesFrom(u)[m]
  BY <1>2, FromAppend
<1>4. After(u, m) = Len(u) /\ m \in 0 .. Len(u) /\ m + LengthBytes < Len(u)
  BY <1>1 DEF After
<1>5. Fits(u, m)
  BY <1>1, <1>4 DEF Fits
<1>6. MessagesFrom(u)[m] = <<Body(u, m)>> \o MessagesFrom(u)[Len(u)]
  BY <1>4, <1>5, FromEquation
<1>7. MessagesFrom(u)[Len(u)] = <<>>
  <2>1. ~Fits(u, Len(u)) /\ Len(u) \in 0 .. Len(u)
    BY <1>1 DEF Fits
  <2>2. QED
    BY <2>1, FromEquation
<1>8. Body(u, m) = p
  <2>1. /\ Body(u, m) \in Seq(Nat) /\ Len(Body(u, m)) = u[m + 1]
        /\ \A k \in 1 .. u[m + 1] : Body(u, m)[k] = u[m + LengthBytes + k]
    BY <1>4, <1>5, FitsAt
  <2>2. QED
    BY <2>1, SameSequence
<1>9. <<p>> \o <<>> = <<p>>
  OBVIOUS
<1>10. QED
  BY <1>3, <1>6, <1>7, <1>8, <1>9

LEMMA MessagesFirst ==
    ASSUME NEW w \in Seq(Nat), LengthBytes < Len(w), LengthBytes + w[1] <= Len(w), NEW v \in Seq(Nat),
           NEW p \in Seq(Nat), Len(p) = w[1], Len(v) = Len(w) - (LengthBytes + w[1]),
           \A i \in 1 .. Len(p) : p[i] = w[LengthBytes + i],
           \A i \in 1 .. Len(v) : v[i] = w[LengthBytes + w[1] + i]
    PROVE  Messages(w) = <<p>> \o Messages(v)
<1>1. Len(w) \in Nat /\ LengthBytes \in Nat \ {0} /\ 1 \in 1 .. Len(w) /\ 0 \in 0 .. Len(w)
  BY StreamBufferAssumption
<1>2. PICK x \in Nat : x = w[1]
  BY <1>1
<1>3. After(w, 0) = LengthBytes + x /\ LengthBytes + x \in 0 + 1 .. Len(w) /\ LengthBytes + x \in 0 .. Len(w)
  <2>1. w[0 + 1] = x
    BY <1>2
  <2>2. QED
    BY <1>1, <1>2, <2>1 DEF After
<1>4. Fits(w, 0)
  BY <1>1, <1>3 DEF Fits
<1>5. Messages(w) = <<Body(w, 0)>> \o MessagesFrom(w)[LengthBytes + x]
  BY <1>1, <1>3, <1>4, FromEquation DEF Messages
<1>6. MessagesFrom(w)[LengthBytes + x] = Messages(v)
  BY <1>2, <1>3, FromShift DEF Messages
<1>7. Body(w, 0) = p
  <2>1. /\ Body(w, 0) \in Seq(Nat) /\ Len(Body(w, 0)) = w[0 + 1]
        /\ \A k \in 1 .. w[0 + 1] : Body(w, 0)[k] = w[0 + LengthBytes + k]
    BY <1>1, <1>4, FitsAt
  <2>2. 0 + 1 = 1 /\ \A k \in 1 .. x : 0 + LengthBytes + k = LengthBytes + k
    BY <1>1
  <2>3. Len(Body(w, 0)) = x /\ Len(p) = x
    BY <1>2, <2>1, <2>2
  <2>4. ASSUME NEW k \in 1 .. x PROVE Body(w, 0)[k] = p[k]
    <3>1. Body(w, 0)[k] = w[0 + LengthBytes + k]
      BY <1>2, <2>1, <2>2
    <3>2. p[k] = w[LengthBytes + k]
      BY <1>2
    <3>3. QED
      BY <2>2, <3>1, <3>2
  <2>5. QED
    BY <2>1, <2>3, <2>4, SameSequence
<1>8. QED
  BY <1>5, <1>6, <1>7

LEMMA UnreadTyped ==
    ASSUME Typed
    PROVE  /\ unread \in Seq(Nat) /\ Len(unread) = BytesInBuffer
           /\ \A i \in 1 .. BytesInBuffer : unread[i] = cells[Wrap(tail + i - 1)]
<1>1. tail \in 0 .. Length - 1 /\ BytesInBuffer \in 0 .. Length /\ Length \in Nat
  BY RingCounts, StreamBufferAssumption DEF Typed, TypeOK
<1>2. QED
  BY <1>1, SliceTyped DEF unread

(* What the mapping makes of a message buffer, said with Whole             *)
LEMMA ContentsAre ==
    Good /\ ~clobbered /\ kind = "message" => contents = Hand \o Messages(Whole)
<1> SUFFICES ASSUME Good, ~clobbered, kind = "message"
             PROVE  contents = Hand \o Messages(Whole)
  OBVIOUS
<1>1. Skip + Part <= BytesInBuffer /\ Framed(Whole)
  BY DEF Good, Framing
<1>2. /\ Skip \in 0 .. Length - 1 /\ Part \in {0, LengthBytes}
      /\ Whole \in Seq(Nat) /\ Len(Whole) = BytesInBuffer - Skip - Part
      /\ \A i \in 1 .. Len(Whole) : Whole[i] = cells[Wrap(tail + (Skip + i - 1))]
  BY <1>1, WholeAt DEF Good
<1>3. /\ tail \in 0 .. Length - 1 /\ BytesInBuffer \in 0 .. Length - 1
      /\ LengthBytes \in 1 .. Length - 1 /\ Length \in Nat /\ wanted \in Nat
  BY GoodTypes
<1>4. /\ unread \in Seq(Nat) /\ Len(unread) = BytesInBuffer
      /\ \A i \in 1 .. BytesInBuffer : unread[i] = cells[Wrap(tail + i - 1)]
  BY UnreadTyped DEF Good
<1>5. contents = inHand \o Messages(behind)
  BY DEF contents
<1>6. PICK b \in Nat, s \in Nat, p \in Nat, l \in Nat :
        /\ b = BytesInBuffer /\ s = Skip /\ p = Part /\ l = Len(Whole)
        /\ l = b - s - p /\ s + p <= b /\ p <= LengthBytes
  BY <1>1, <1>2, <1>3
<1>7. behind \in Seq(Nat) /\ Len(behind) = b - s /\ \A i \in 1 .. l : behind[i] = Whole[i]
  <2>1. CASE InMessage
    <3>1. s = wanted /\ behind = SubSeq(unread, s + 1, b)
      BY <1>4, <1>6, <2>1 DEF Skip, behind
    <3>2. s + 1 \in 1 .. b + 1 /\ b \in (s + 1) - 1 .. b /\ b - (s + 1) + 1 = b - s
      BY <1>6
    <3>3. /\ SubSeq(unread, s + 1, b) \in Seq(Nat)
          /\ Len(SubSeq(unread, s + 1, b)) = b - (s + 1) + 1
          /\ \A i \in 1 .. b - (s + 1) + 1 :
               SubSeq(unread, s + 1, b)[i] = unread[(s + 1) + i - 1]
      BY <1>4, <1>6, <3>2, SubSeqProperties
    <3>4. ASSUME NEW i \in 1 .. l PROVE behind[i] = Whole[i]
      <4>1. /\ i \in 1 .. b - (s + 1) + 1 /\ (s + 1) + i - 1 = s + i /\ s + i \in 1 .. b
            /\ tail + (s + i) - 1 = tail + (s + i - 1)
        BY <1>3, <1>6
      <4>2. behind[i] = unread[s + i]
        BY <3>1, <3>3, <4>1
      <4>3. unread[s + i] = cells[Wrap(tail + (s + i - 1))]
        BY <1>4, <1>6, <4>1
      <4>4. QED
        BY <1>2, <1>6, <4>2, <4>3
    <3>5. QED
      BY <3>1, <3>2, <3>3, <3>4
  <2>2. CASE ~InMessage
    <3>1. s = 0 /\ behind = unread
      BY <1>6, <2>2 DEF Skip, behind
    <3>2. ASSUME NEW i \in 1 .. l PROVE behind[i] = Whole[i]
      <4>1. i \in 1 .. b /\ tail + (0 + i - 1) = tail + i - 1
        BY <1>3, <1>6
      <4>2. QED
        BY <1>2, <1>4, <1>6, <3>1, <4>1
    <3>3. b - 0 = b
      BY <1>6
    <3>4. QED
      BY <1>4, <1>6, <3>1, <3>2, <3>3
  <2>3. QED
    BY <2>1, <2>2
<1>8. Messages(behind) = Messages(Whole)
  <2>1. Len(Whole) <= Len(behind) /\ Len(behind) <= Len(Whole) + LengthBytes
    BY <1>3, <1>6, <1>7
  <2>2. \A i \in 1 .. Len(Whole) : behind[i] = Whole[i]
    BY <1>6, <1>7
  <2>3. QED
    BY <1>1, <1>2, <1>7, <2>1, <2>2, MessagesTrailing
<1>9. inHand = Hand
  <2>1. SUFFICES ASSUME InMessage PROVE SubSeq(unread, 1, wanted) = Slice(tail, wanted)
    BY DEF inHand, Hand
  <2>2. s = wanted /\ s <= b
    BY <1>6, <2>1 DEF Skip
  <2>3. 1 \in 1 .. b + 1 /\ s \in 1 - 1 .. b /\ s - 1 + 1 = s /\ s \in 0 .. Length
    BY <1>3, <1>6, <2>2
  <2>4. /\ SubSeq(unread, 1, s) \in Seq(Nat) /\ Len(SubSeq(unread, 1, s)) = s - 1 + 1
        /\ \A i \in 1 .. s - 1 + 1 : SubSeq(unread, 1, s)[i] = unread[1 + i - 1]
    BY <1>4, <1>6, <2>3, SubSeqProperties
  <2>5. /\ Slice(tail, s) \in Seq(Nat) /\ Len(Slice(tail, s)) = s
        /\ \A i \in 1 .. s : Slice(tail, s)[i] = cells[Wrap(tail + i - 1)]
    BY <1>3, <2>3, SliceTyped DEF Good
  <2>6. ASSUME NEW i \in 1 .. s PROVE SubSeq(unread, 1, s)[i] = Slice(tail, s)[i]
    <3>1. i \in 1 .. s - 1 + 1 /\ 1 + i - 1 = i /\ i \in 1 .. b
      BY <1>6, <2>2
    <3>2. QED
      BY <1>4, <1>6, <2>4, <2>5, <3>1
  <2>7. SubSeq(unread, 1, s) = Slice(tail, s)
    BY <2>3, <2>4, <2>5, <2>6, SameSequence
  <2>8. QED
    BY <2>2, <2>7
<1>10. QED
  BY <1>5, <1>8, <1>9

LEMMA ContentsAreNext ==
    (Good /\ ~clobbered /\ kind = "message" => contents = Hand \o Messages(Whole))'
BY ContentsAre, PTL

LEMMA UnreadTypedNext ==
    ASSUME Typed'
    PROVE  /\ unread' \in Seq(Nat) /\ Len(unread') = BytesInBuffer'
           /\ \A i \in 1 .. BytesInBuffer' : unread'[i] = cells'[Wrap(tail' + i - 1)]
<1>1. /\ tail' \in 0 .. Length - 1 /\ BytesInBuffer' \in 0 .. Length - 1 /\ Length \in Nat
      /\ cells' \in [0 .. Length - 1 -> Nat]
  BY RingCountsNext, StreamBufferAssumption DEF Typed, TypeOK
<1>2. unread' = [i \in 1 .. BytesInBuffer' |-> cells'[Wrap(tail' + i - 1)]]
  BY DEF unread, Slice
<1>3. PICK b \in 0 .. Length - 1, t \in 0 .. Length - 1 : b = BytesInBuffer' /\ t = tail'
  BY <1>1
<1>4. ASSUME NEW i \in 1 .. b PROVE cells'[Wrap(t + i - 1)] \in Nat
  <2>1. i - 1 \in 0 .. Length /\ t + (i - 1) = t + i - 1
    BY <1>1
  <2>2. Wrap(t + (i - 1)) \in 0 .. Length - 1
    BY <2>1, WrapTyped
  <2>3. QED
    BY <1>1, <2>1, <2>2
<1>5. QED
  BY <1>1, <1>2, <1>3, <1>4

(* Most steps leave the units alone.                                       *)
LEMMA UnitsKept ==
    ASSUME UNCHANGED <<kind, cells, head, tail, clobbered>>,
           kind = "stream" \/ (InMessage' = InMessage /\ (InMessage => wanted' = wanted))
    PROVE  contents' = contents
<1>1. unread' = unread
  BY DEF unread, Slice, BytesInBuffer
<1>2. CASE kind = "stream"
  BY <1>1, <1>2 DEF contents
<1>3. CASE InMessage' = InMessage /\ (InMessage => wanted' = wanted)
  <2>1. inHand' = inHand /\ behind' = behind
    BY <1>1, <1>3 DEF inHand, behind
  <2>2. QED
    BY <1>1, <2>1 DEF contents
<1>4. QED
  BY <1>2, <1>3

LEMMA HandTyped ==
    ASSUME Good, kind = "message"
    PROVE  Hand \in Seq(Seq(Nat)) /\ (InMessage => Slice(tail, wanted) \in Seq(Nat) /\ Len(Slice(tail, wanted)) = wanted)
<1>1. /\ tail \in 0 .. Length - 1 /\ BytesInBuffer \in 0 .. Length - 1 /\ wanted \in Nat
      /\ Length \in Nat /\ LengthBytes \in Nat
  BY GoodTypes, StreamBufferAssumption
<1>2. InMessage => wanted \in 0 .. Length
  <2>1. Skip + Part <= BytesInBuffer /\ Part \in {0, LengthBytes}
    BY DEF Good, Framing, Part
  <2>2. InMessage => Skip = wanted
    BY DEF Skip
  <2>3. QED
    BY <1>1, <2>1, <2>2
<1>3. InMessage => Slice(tail, wanted) \in Seq(Nat) /\ Len(Slice(tail, wanted)) = wanted
  BY <1>1, <1>2, SliceTyped DEF Good
<1>4. QED
  BY <1>3 DEF Hand

LEMMA SliceKept ==
    ASSUME NEW n \in Nat, tail' = tail,
           \A i \in 1 .. n : cells'[Wrap(tail + i - 1)] = cells[Wrap(tail + i - 1)]
    PROVE  Slice(tail, n)' = Slice(tail, n)
BY DEF Slice

(* The bytes that are copied into the ring are none of its own yet.        *)
LEMMA CopyUnits ==
    ASSUME Good, Good', ~clobbered, ~clobbered', Copy
    PROVE  contents' = contents
<1>1. /\ UNCHANGED <<kind, head, tail, wanted>>
      /\ pc' = [pc EXCEPT !["sender"] = "advance"]
  BY CopyMoves DEF Good
<1>2. /\ tail \in 0 .. Length - 1 /\ BytesInBuffer \in 0 .. Length - 1 /\ wanted \in Nat
      /\ Length \in Nat
  BY GoodTypes
<1>3. ASSUME NEW n \in 0 .. BytesInBuffer PROVE Slice(tail, n)' = Slice(tail, n)
  <2>1. ASSUME NEW i \in 1 .. n
        PROVE  cells'[Wrap(tail + i - 1)] = cells[Wrap(tail + i - 1)]
    <3>1. i - 1 \in 0 .. BytesInBuffer - 1 /\ tail + (i - 1) = tail + i - 1
      BY <1>2
    <3>2. cells'[Wrap(tail + (i - 1))] = cells[Wrap(tail + (i - 1))]
      BY <3>1, CopyKeeps DEF Good
    <3>3. QED
      BY <3>1, <3>2
  <2>2. n \in Nat
    BY <1>2
  <2>3. QED
    BY <1>1, <2>1, <2>2, SliceKept
<1>4. CASE kind = "stream"
  <2>1. BytesInBuffer' = BytesInBuffer /\ BytesInBuffer \in 0 .. BytesInBuffer
    BY <1>1, <1>2 DEF BytesInBuffer
  <2>2. unread' = unread
    BY <1>3, <2>1 DEF unread, Slice
  <2>3. QED
    BY <1>1, <1>4, <2>2 DEF contents
<1>5. CASE kind = "message"
  <2>1. Whole' = Whole
    BY <1>5, CopyWhole DEF Good
  <2>2. InMessage' = InMessage
    BY <1>1 DEF InMessage, Good, Typed, TypeOK
  <2>3. Hand' = Hand
    <3>1. SUFFICES ASSUME InMessage PROVE Slice(tail, wanted)' = Slice(tail, wanted)
      BY <1>1, <2>2 DEF Hand
    <3>2. Skip + Part <= BytesInBuffer /\ Skip = wanted /\ Part \in {0, LengthBytes}
      BY <1>5, <3>1 DEF Good, Framing, Skip, Part
    <3>3. wanted \in 0 .. BytesInBuffer
      BY <1>2, <3>2, StreamBufferAssumption
    <3>4. PICK n \in 0 .. BytesInBuffer : n = wanted /\ n = wanted'
      BY <1>1, <3>3
    <3>5. Slice(tail, n)' = Slice(tail, n)
      BY <1>3
    <3>6. QED
      BY <3>4, <3>5 DEF Slice
  <2>4. contents = Hand \o Messages(Whole) /\ contents' = Hand' \o Messages(Whole')
    BY <1>1, <1>5, ContentsAre, ContentsAreNext
  <2>5. QED
    BY <2>1, <2>3, <2>4
<1>6. kind \in {"stream", "message"}
  BY StreamBufferAssumption DEF Good, Typed, TypeOK
<1>7. QED
  BY <1>4, <1>5, <1>6

LEMMA UnitsOf ==
    ASSUME NEW u \in Seq(Nat)
    PROVE  /\ Units(u) \in Seq(Seq(Nat)) /\ Len(Units(u)) = Len(u)
           /\ \A i \in 1 .. Len(u) : Units(u)[i] = <<u[i]>>
<1>1. \A i \in 1 .. Len(u) : <<u[i]>> \in Seq(Nat)
  OBVIOUS
<1>2. QED
  BY <1>1 DEF Units

LEMMA UnitsAppend ==
    ASSUME NEW u \in Seq(Nat), NEW v \in Seq(Nat), NEW w \in Seq(Nat),
           Len(w) = Len(u) + Len(v), \A i \in 1 .. Len(u) : w[i] = u[i],
           \A i \in 1 .. Len(v) : w[Len(u) + i] = v[i]
    PROVE  Units(w) = Units(u) \o Units(v)
<1>1. /\ Units(u) \in Seq(Seq(Nat)) /\ Len(Units(u)) = Len(u)
      /\ \A i \in 1 .. Len(u) : Units(u)[i] = <<u[i]>>
      /\ Units(v) \in Seq(Seq(Nat)) /\ Len(Units(v)) = Len(v)
      /\ \A i \in 1 .. Len(v) : Units(v)[i] = <<v[i]>>
      /\ Units(w) \in Seq(Seq(Nat)) /\ Len(Units(w)) = Len(w)
      /\ \A i \in 1 .. Len(w) : Units(w)[i] = <<w[i]>>
  BY UnitsOf
<1>2. PICK l \in Nat, n \in Nat : l = Len(u) /\ n = Len(v)
  OBVIOUS
<1>3. /\ Units(u) \o Units(v) \in Seq(Seq(Nat)) /\ Len(Units(u) \o Units(v)) = l + n
      /\ \A i \in 1 .. l + n : (Units(u) \o Units(v))[i]
                                 = IF i <= l THEN Units(u)[i] ELSE Units(v)[i - l]
  <2>1. /\ Units(u) \o Units(v) \in Seq(Seq(Nat))
        /\ Len(Units(u) \o Units(v)) = Len(Units(u)) + Len(Units(v))
        /\ \A i \in 1 .. Len(Units(u)) + Len(Units(v)) :
             (Units(u) \o Units(v))[i] = IF i <= Len(Units(u)) THEN Units(u)[i]
                                          ELSE Units(v)[i - Len(Units(u))]
    <3>1. PICK a \in Seq(Seq(Nat)), c \in Seq(Seq(Nat)) : a = Units(u) /\ c = Units(v)
      BY <1>1
    <3>2. /\ a \o c \in Seq(Seq(Nat)) /\ Len(a \o c) = Len(a) + Len(c)
          /\ \A i \in 1 .. Len(a) + Len(c) :
               (a \o c)[i] = IF i <= Len(a) THEN a[i] ELSE c[i - Len(a)]
      OBVIOUS
    <3>3. QED
      BY <3>1, <3>2
  <2>2. QED
    BY <1>1, <1>2, <2>1
<1>4. ASSUME NEW i \in 1 .. l + n PROVE Units(w)[i] = (Units(u) \o Units(v))[i]
  <2>1. Units(w)[i] = <<w[i]>>
    BY <1>1, <1>2
  <2>2. CASE i <= l
    <3>1. i \in 1 .. l
      BY <1>2, <2>2
    <3>2. QED
      BY <1>1, <1>2, <1>3, <2>1, <2>2, <3>1
  <2>3. CASE ~(i <= l)
    <3>1. i - l \in 1 .. n /\ l + (i - l) = i
      BY <1>2, <2>3
    <3>2. w[l + (i - l)] = v[i - l]
      BY <1>2, <3>1
    <3>3. w[i] = v[i - l]
      BY <3>1, <3>2
    <3>4. (Units(u) \o Units(v))[i] = Units(v)[i - l]
      BY <1>3, <2>3
    <3>5. Units(v)[i - l] = <<v[i - l]>>
      BY <1>1, <1>2, <3>1
    <3>6. QED
      BY <2>1, <3>3, <3>4, <3>5
  <2>4. QED
    BY <2>2, <2>3
<1>5. Len(Units(w)) = l + n
  BY <1>1, <1>2
<1>6. QED
  BY <1>1, <1>3, <1>4, <1>5, SeqEqual

(* The bytes of a stream, or the rest of a message, are there when the     *)
(* index has moved past them.                                              *)
LEMMA AdvanceUnits ==
    ASSUME Good, Good', ~clobbered, ~clobbered', Advance
    PROVE  contents' = contents \/ \E c \in Sendable : contents' = contents \o c
<1>1. /\ pc["sender"] = "advance" /\ head' = Wrap(head + Len(Head(todo)))
      /\ UNCHANGED <<kind, cells, tail, wanted>>
      /\ pc' = [pc EXCEPT !["sender"] = IF Len(todo) > 1 THEN "copy" ELSE "level"]
  BY DEF Advance, At, Goto, sync, receiving
<1>2. /\ tail \in 0 .. Length - 1 /\ BytesInBuffer \in 0 .. Length - 1 /\ wanted \in Nat
      /\ Length \in Nat /\ LengthBytes \in 1 .. Length - 1
  BY GoodTypes
<1>3. /\ Head(todo) \in Seq(Nat) /\ Len(Head(todo)) \in 1 .. Length - 1
      /\ Len(todo) \in {1, 2}
  BY <1>1, PieceTyped DEF Good
<1>4. /\ BytesInBuffer + Len(Head(todo)) < Length
      /\ \A i \in 1 .. Len(Head(todo)) : cells[Wrap(head + i - 1)] = Head(todo)[i]
  BY <1>1 DEF Good, Filled, Pending
<1>5. BytesInBuffer' = BytesInBuffer + Len(Head(todo))
  BY <1>1, <1>3, <1>4, HeadMoves DEF Good
<1>6. PICK b \in Nat, n \in Nat \ {0} : b = BytesInBuffer /\ n = Len(Head(todo)) /\ b + n < Length
  <2>1. BytesInBuffer \in Nat /\ Len(Head(todo)) \in Nat \ {0}
    BY <1>2, <1>3
  <2>2. QED
    BY <1>4, <2>1
<1>7. ASSUME NEW i \in 1 .. n PROVE cells[Wrap(tail + (b + i) - 1)] = Head(todo)[i]
  <2>1. head = Wrap(tail + b)
    BY <1>6, RingCounts DEF Good
  <2>2. i - 1 \in Nat /\ b + (i - 1) <= Length
    BY <1>2, <1>6
  <2>3. Wrap(Wrap(tail + b) + (i - 1)) = Wrap(tail + b + (i - 1))
    BY <1>2, <2>2, WrapTwice
  <2>4. tail + b + (i - 1) = tail + (b + i) - 1
    BY <1>2, <1>6
  <2>5. head + (i - 1) = head + i - 1
    BY GoodTypes, <1>2
  <2>6. QED
    BY <1>4, <1>6, <2>1, <2>3, <2>4, <2>5
<1>8. InMessage' = InMessage
  BY <1>1 DEF InMessage, Good, Typed, TypeOK
<1>9. CASE kind = "stream"
  <2>1. /\ unread \in Seq(Nat) /\ Len(unread) = b
        /\ \A i \in 1 .. b : unread[i] = cells[Wrap(tail + i - 1)]
    BY <1>6, UnreadTyped DEF Good
  <2>2. /\ unread' \in Seq(Nat) /\ Len(unread') = b + n
        /\ \A i \in 1 .. b + n : unread'[i] = cells[Wrap(tail + i - 1)]
    BY <1>1, <1>5, <1>6, UnreadTypedNext DEF Good
  <2>3. ASSUME NEW i \in 1 .. b PROVE unread'[i] = unread[i]
    <3>1. i \in 1 .. b + n
      BY <1>6
    <3>2. QED
      BY <2>1, <2>2, <3>1
  <2>4. ASSUME NEW i \in 1 .. n PROVE unread'[b + i] = Head(todo)[i]
    <3>1. b + i \in 1 .. b + n
      BY <1>6
    <3>2. QED
      BY <1>7, <2>2, <3>1
  <2>5. Units(unread') = Units(unread) \o Units(Head(todo))
    <3>1. PICK u \in Seq(Nat), w \in Seq(Nat) : u = unread /\ w = unread'
      BY <2>1, <2>2
    <3>2. Len(w) = Len(u) + Len(Head(todo)) /\ Len(u) = b /\ Len(Head(todo)) = n
      BY <1>6, <2>1, <2>2, <3>1
    <3>3. Units(w) = Units(u) \o Units(Head(todo))
      BY <1>3, <2>3, <2>4, <3>1, <3>2, UnitsAppend
    <3>4. QED
      BY <3>1, <3>3
  <2>6. contents = Units(unread) /\ contents' = Units(unread)'
    BY <1>1, <1>9 DEF contents
  <2>7. Units(unread)' = Units(unread')
    BY DEF Units
  <2>8. Units(Head(todo)) \in Sendable
    <3>1. PICK p \in Payloads : \E m \in 1 .. Length - 1 : m <= Len(p) /\ todo = <<SubSeq(p, 1, m)>>
      BY <1>1, <1>9 DEF Good, Carrying
    <3>2. PICK m \in 1 .. Length - 1 : m <= Len(p) /\ todo = <<SubSeq(p, 1, m)>>
      BY <3>1
    <3>3. m \in 1 .. Len(p) /\ Head(todo) = SubSeq(p, 1, m)
      BY <3>2, StreamBufferAssumption
    <3>4. Units(SubSeq(p, 1, m)) \in {Units(SubSeq(p, 1, k)) : k \in 1 .. Len(p)}
      BY <3>3
    <3>5. QED
      BY <3>3, <3>4 DEF Sendable
  <2>9. QED
    BY <2>5, <2>6, <2>7, <2>8
<1>10. CASE kind = "message"
  <2>1. contents = Hand \o Messages(Whole) /\ contents' = Hand' \o Messages(Whole')
    BY <1>1, <1>10, ContentsAre, ContentsAreNext
  <2>2. Hand' = Hand
    BY <1>1, <1>8 DEF Hand, Slice
  <2>3. CASE Len(todo) = 2
    BY <1>10, <2>1, <2>2, <2>3, AdvanceWhole DEF Good
  <2>4. CASE Len(todo) = 1
    <3>1. /\ Whole' \in Seq(Nat) /\ Len(Whole') = Len(Whole) + LengthBytes + Len(Head(todo))
          /\ Whole'[Len(Whole) + 1] = Len(Head(todo))
          /\ \A i \in 1 .. Len(Whole) : Whole'[i] = Whole[i]
          /\ \A i \in 1 .. Len(Whole') : Whole'[i] = cells[Wrap(tail + (Skip + i - 1))]
      BY <1>10, <2>4, AdvanceWhole DEF Good
    <3>2. Skip + Part <= BytesInBuffer /\ Framed(Whole)
      BY <1>10 DEF Good, Framing
    <3>3. /\ Skip \in 0 .. Length - 1 /\ Whole \in Seq(Nat)
          /\ Len(Whole) = BytesInBuffer - Skip - Part
      BY <1>10, <3>2, WholeAt DEF Good
    <3>4. Part = LengthBytes
      BY <1>1, <1>10, <2>4 DEF Part, HalfSent
    <3>5. PICK l \in Nat, s \in Nat, m \in Nat :
            /\ l = Len(Whole) /\ s = Skip /\ l + LengthBytes = b - s /\ m = Len(Whole')
            /\ m = l + LengthBytes + n
      <4>1. Len(Whole) \in Nat /\ Skip \in Nat /\ Len(Whole') \in Nat
        BY <3>1, <3>3
      <4>2. Len(Whole) + LengthBytes = BytesInBuffer - Skip
        BY <1>2, <3>3, <3>4, <4>1
      <4>3. Len(Whole') = Len(Whole) + LengthBytes + n
        BY <1>6, <3>1
      <4>4. QED
        BY <1>6, <4>1, <4>2, <4>3
    <3>6. ASSUME NEW i \in 1 .. n PROVE Whole'[l + LengthBytes + i] = Head(todo)[i]
      <4>1. l + LengthBytes + i \in 1 .. m
        BY <1>2, <1>6, <3>5
      <4>2. tail + (s + (l + LengthBytes + i) - 1) = tail + (b + i) - 1
        BY <1>2, <1>6, <3>5
      <4>3. QED
        BY <1>7, <3>1, <3>5, <4>1, <4>2
    <3>7. Messages(Whole') = Messages(Whole) \o <<Head(todo)>>
      BY <1>3, <1>6, <3>1, <3>2, <3>3, <3>5, <3>6, MessagesLast
    <3>8. Hand \in Seq(Seq(Nat)) /\ Messages(Whole) \in Seq(Seq(Nat)) /\ <<Head(todo)>> \in Seq(Seq(Nat))
      <4>1. Hand \in Seq(Seq(Nat))
        BY <1>10, <3>3, HandTyped
      <4>2. QED
        BY <1>3, <3>3, <4>1, MessagesTyped
    <3>9. contents' = contents \o <<Head(todo)>>
      BY <2>1, <2>2, <3>7, <3>8, MessagesConcat
    <3>10. <<Head(todo)>> \in Sendable
      <4>1. PICK p \in Payloads : todo = <<Header(Len(p)), p>> \/ todo = <<p>>
        BY <1>1, <1>10 DEF Good, Carrying
      <4>2. Len(<<Header(Len(p)), p>>) = 2
        OBVIOUS
      <4>3. todo = <<p>> /\ Head(todo) = p
        BY <2>4, <4>1, <4>2
      <4>4. QED
        BY <4>3 DEF Sendable
    <3>11. QED
      BY <3>9, <3>10
  <2>5. QED
    BY <1>3, <2>3, <2>4
<1>11. kind \in {"stream", "message"}
  BY StreamBufferAssumption DEF Good, Typed, TypeOK
<1>12. QED
  BY <1>9, <1>10, <1>11

LEMMA UnitsTaken ==
    ASSUME NEW u \in Seq(Nat), NEW p \in Seq(Nat), NEW v \in Seq(Nat),
           Len(p) > 0, Len(u) = Len(p) + Len(v),
           \A i \in 1 .. Len(p) : p[i] = u[i], \A i \in 1 .. Len(v) : v[i] = u[Len(p) + i]
    PROVE  /\ Units(p) = SubSeq(Units(u), 1, Len(p))
           /\ Units(v) = SubSeq(Units(u), Len(p) + 1, Len(u))
<1>0. PICK m \in Nat \ {0}, k \in Nat : m = Len(p) /\ k = Len(v) /\ Len(u) = m + k
  OBVIOUS
<1>1. PICK x \in Seq(Seq(Nat)) :
        x = Units(u) /\ Len(x) = m + k /\ \A i \in 1 .. m + k : x[i] = <<u[i]>>
  BY <1>0, UnitsOf
<1>2. PICK y \in Seq(Seq(Nat)) : y = Units(p) /\ Len(y) = m /\ \A i \in 1 .. m : y[i] = <<p[i]>>
  BY <1>0, UnitsOf
<1>3. PICK z \in Seq(Seq(Nat)) : z = Units(v) /\ Len(z) = k /\ \A i \in 1 .. k : z[i] = <<v[i]>>
  BY <1>0, UnitsOf
<1>4. /\ SubSeq(x, 1, m) \in Seq(Seq(Nat)) /\ Len(SubSeq(x, 1, m)) = m
      /\ \A i \in 1 .. m : SubSeq(x, 1, m)[i] = x[i]
  <2>1. Len(x) = m + k /\ 1 \in 1 .. Len(x) + 1 /\ m \in 1 - 1 .. Len(x) /\ m - 1 + 1 = m
    BY <1>1
  <2>2. /\ SubSeq(x, 1, m) \in Seq(Seq(Nat)) /\ Len(SubSeq(x, 1, m)) = m - 1 + 1
        /\ \A i \in 1 .. m - 1 + 1 : SubSeq(x, 1, m)[i] = x[1 + i - 1]
    BY <2>1, Cut
  <2>3. \A i \in 1 .. m : 1 + i - 1 = i
    OBVIOUS
  <2>4. QED
    BY <2>1, <2>2, <2>3
<1>5. /\ SubSeq(x, m + 1, m + k) \in Seq(Seq(Nat)) /\ Len(SubSeq(x, m + 1, m + k)) = k
      /\ \A i \in 1 .. k : SubSeq(x, m + 1, m + k)[i] = x[m + i]
  <2>1. /\ m + 1 \in 1 .. (m + k) + 1 /\ m + k \in (m + 1) - 1 .. m + k
        /\ (m + k) - (m + 1) + 1 = k
    OBVIOUS
  <2>2. /\ SubSeq(x, m + 1, m + k) \in Seq(Seq(Nat))
        /\ Len(SubSeq(x, m + 1, m + k)) = (m + k) - (m + 1) + 1
        /\ \A i \in 1 .. (m + k) - (m + 1) + 1 :
             SubSeq(x, m + 1, m + k)[i] = x[(m + 1) + i - 1]
    BY <1>1, <2>1, SubSeqProperties
  <2>3. ASSUME NEW i \in 1 .. k PROVE SubSeq(x, m + 1, m + k)[i] = x[m + i]
    <3>1. i \in 1 .. (m + k) - (m + 1) + 1 /\ (m + 1) + i - 1 = m + i
      OBVIOUS
    <3>2. QED
      BY <2>2, <3>1
  <2>4. QED
    BY <2>1, <2>2, <2>3
<1>6. ASSUME NEW i \in 1 .. m PROVE y[i] = SubSeq(x, 1, m)[i]
  <2>1. i \in 1 .. m + k
    OBVIOUS
  <2>2. QED
    BY <1>0, <1>1, <1>2, <1>4, <2>1
<1>7. ASSUME NEW i \in 1 .. k PROVE z[i] = SubSeq(x, m + 1, m + k)[i]
  <2>1. m + i \in 1 .. m + k
    OBVIOUS
  <2>2. QED
    BY <1>0, <1>1, <1>3, <1>5, <2>1
<1>8. y = SubSeq(x, 1, m)
  <2>1. PICK s \in Seq(Seq(Nat)) : s = SubSeq(x, 1, m) /\ Len(s) = m
    BY <1>4
  <2>2. Len(y) = Len(s) /\ \A i \in 1 .. Len(y) : y[i] = s[i]
    BY <1>2, <1>6, <2>1
  <2>3. QED
    BY <2>1, <2>2, SeqEqual
<1>9. z = SubSeq(x, m + 1, m + k)
  <2>1. PICK s \in Seq(Seq(Nat)) : s = SubSeq(x, m + 1, m + k) /\ Len(s) = k
    BY <1>5
  <2>2. Len(z) = Len(s) /\ \A i \in 1 .. Len(z) : z[i] = s[i]
    BY <1>3, <1>7, <2>1
  <2>3. QED
    BY <2>1, <2>2, SeqEqual
<1>10. QED
  BY <1>0, <1>1, <1>2, <1>3, <1>8, <1>9

LEMMA FirstTaken ==
    ASSUME NEW p \in Seq(Nat), NEW c \in Seq(Seq(Nat))
    PROVE  /\ 1 \in 1 .. Len(<<p>> \o c) /\ <<p>> = SubSeq(<<p>> \o c, 1, 1)
           /\ c = SubSeq(<<p>> \o c, 1 + 1, Len(<<p>> \o c))
<1>1. PICK x \in Seq(Seq(Nat)), a \in Seq(Seq(Nat)) :
        x = a \o c /\ a = <<p>> /\ Len(a) = 1 /\ a[1] = p
  <2>1. PICK a \in Seq(Seq(Nat)) : a = <<p>> /\ Len(a) = 1 /\ a[1] = p
    <3>1. <<p>> \in Seq(Seq(Nat))
      OBVIOUS
    <3>2. Len(<<p>>) = 1 /\ <<p>>[1] = p
      OBVIOUS
    <3>3. QED
      BY <3>1, <3>2
  <2>2. a \o c \in Seq(Seq(Nat))
    OBVIOUS
  <2>3. QED
    BY <2>1, <2>2
<1>2. Len(x) = 1 + Len(c) /\ x[1] = p /\ \A i \in 1 .. Len(c) : x[1 + i] = c[i]
  BY <1>1
<1>3. PICK n \in Nat : n = Len(c)
  OBVIOUS
<1>4. SubSeq(x, 1, 1) = <<p>>
  <2>1. /\ SubSeq(x, 1, 1) \in Seq(Seq(Nat)) /\ Len(SubSeq(x, 1, 1)) = 1
        /\ SubSeq(x, 1, 1)[1] = p
    BY <1>2, <1>3
  <2>2. PICK s \in Seq(Seq(Nat)) : s = SubSeq(x, 1, 1) /\ Len(s) = 1 /\ s[1] = p
    BY <2>1
  <2>3. SubSeq(x, 1, 1) = a
    <3>1. Len(s) = 1 /\ Len(a) = 1 /\ s[1] = a[1]
      BY <1>1, <2>2
    <3>2. s = a
      BY <3>1, SeqEqual
    <3>3. QED
      BY <2>2, <3>2
  <2>4. QED
    BY <1>1, <2>3
<1>5. /\ SubSeq(x, 2, 1 + n) \in Seq(Seq(Nat)) /\ Len(SubSeq(x, 2, 1 + n)) = n
      /\ \A i \in 1 .. n : SubSeq(x, 2, 1 + n)[i] = x[1 + i]
  BY <1>2, <1>3
<1>6. SubSeq(x, 2, 1 + n) = c
  BY <1>2, <1>3, <1>5, SeqEqual
<1>7. QED
  BY <1>1, <1>2, <1>3, <1>4, <1>6

(* The bytes from an index on that has moved past others                   *)
LEMMA WrapOn ==
    ASSUME NEW t \in 0 .. Length - 1, NEW k \in Nat, NEW i \in Nat \ {0}, k + i <= Length
    PROVE  Wrap(Wrap(t + k) + i - 1) = Wrap(t + (k + i) - 1)
<1>1. Length \in Nat /\ t \in Nat /\ i - 1 \in Nat /\ k + (i - 1) <= Length
  BY StreamBufferAssumption
<1>2. Wrap(t + k) \in 0 .. Length - 1 /\ Wrap(Wrap(t + k) + (i - 1)) = Wrap(t + k + (i - 1))
  BY <1>1, WrapTwice
<1>3. Wrap(t + k) + (i - 1) = Wrap(t + k) + i - 1 /\ t + k + (i - 1) = t + (k + i) - 1
  BY <1>1, <1>2
<1>4. QED
  BY <1>2, <1>3

(* A message that is in hand is still in the buffer.                       *)
LEMMA HeaderUnits ==
    ASSUME Good, Good', ~clobbered, ~clobbered', PassHeader
    PROVE  contents' = contents
<1>1. /\ pc["receiver"] = "pastheader" /\ pc' = [pc EXCEPT !["receiver"] = "fit"]
      /\ tail' = Wrap(tail + LengthBytes)
      /\ UNCHANGED <<kind, cells, head, wanted>> /\ kind = "message"
  BY HeaderMoves
<1>2. /\ tail \in 0 .. Length - 1 /\ BytesInBuffer \in 0 .. Length - 1 /\ wanted \in Nat
      /\ Length \in Nat /\ LengthBytes \in 1 .. Length - 1
  BY GoodTypes
<1>3. Skip + Part <= BytesInBuffer /\ Framed(Whole)
  BY <1>1 DEF Good, Framing
<1>4. ~InMessage /\ InMessage' /\ Skip = 0
  BY <1>1 DEF InMessage, Skip, Good, Typed, TypeOK
<1>5. /\ Whole \in Seq(Nat) /\ Len(Whole) <= BytesInBuffer
      /\ \A i \in 1 .. Len(Whole) : Whole[i] = cells[Wrap(tail + (0 + i - 1))]
  <2>1. /\ Part \in {0, LengthBytes} /\ Whole \in Seq(Nat)
        /\ Len(Whole) = BytesInBuffer - Skip - Part
        /\ \A i \in 1 .. Len(Whole) : Whole[i] = cells[Wrap(tail + (Skip + i - 1))]
    BY <1>1, <1>3, WholeAt DEF Good
  <2>2. Len(Whole) <= BytesInBuffer
    BY <1>2, <1>4, <2>1
  <2>3. QED
    BY <1>4, <2>1, <2>2
<1>6. /\ Whole[1] = wanted /\ LengthBytes + wanted <= Len(Whole)
      /\ Whole' \in Seq(Nat) /\ Len(Whole') = Len(Whole) - (LengthBytes + wanted)
      /\ \A i \in 1 .. Len(Whole') : Whole'[i] = Whole[LengthBytes + wanted + i]
  BY <1>1, HeaderWhole DEF Good
<1>7. PICK m \in 1 .. Length - 1 : m = wanted
  <2>1. wanted' \in 1 .. avail' /\ avail' \in 0 .. Length - 1
    BY <1>1 DEF Good, Taking, Typed, TypeOK
  <2>2. QED
    BY <1>1, <1>2, <2>1
<1>8. PICK w \in Seq(Nat), v \in Seq(Nat) : w = Whole /\ v = Whole'
  BY <1>5, <1>6
<1>9. PICK t \in 0 .. Length - 1 : t = tail' /\ t = Wrap(tail + LengthBytes)
  BY <1>1 DEF Good, Typed, TypeOK
<1>10. PICK p \in Seq(Nat) : /\ p = Slice(tail, wanted)' /\ Len(p) = m
                             /\ \A i \in 1 .. m : p[i] = cells[Wrap(t + i - 1)]
  <2>1. m \in 0 .. Length
    BY <1>2
  <2>2. /\ Slice(t, m)' \in Seq(Nat) /\ Len(Slice(t, m)') = m
        /\ \A i \in 1 .. m : Slice(t, m)'[i] = cells'[Wrap(t + i - 1)]
    BY <2>1, SliceTypedNext DEF Good
  <2>3. Slice(tail, wanted)' = Slice(t, m)'
    BY <1>1, <1>7, <1>9 DEF Slice
  <2>4. QED
    BY <1>1, <2>2, <2>3
<1>11. ASSUME NEW i \in 1 .. m PROVE p[i] = w[LengthBytes + i]
  <2>1. PICK l \in Nat : l = Len(Whole) /\ LengthBytes + m <= l /\ l <= Length
    BY <1>2, <1>5, <1>6, <1>7
  <2>2. /\ LengthBytes + i \in 1 .. l /\ i \in Nat \ {0} /\ LengthBytes + i <= Length
        /\ LengthBytes \in Nat /\ tail + (0 + (LengthBytes + i) - 1) = tail + (LengthBytes + i) - 1
    BY <1>2, <2>1
  <2>3. Wrap(t + i - 1) = Wrap(tail + (LengthBytes + i) - 1)
    <3>1. Wrap(Wrap(tail + LengthBytes) + i - 1) = Wrap(tail + (LengthBytes + i) - 1)
      BY <1>2, <2>2, WrapOn
    <3>2. QED
      BY <1>9, <3>1
  <2>4. w[LengthBytes + i] = cells[Wrap(tail + (LengthBytes + i) - 1)]
    BY <1>5, <1>8, <2>1, <2>2
  <2>5. QED
    BY <1>10, <2>3, <2>4
<1>12. Messages(w) = <<p>> \o Messages(v)
  <2>1. w[1] = m /\ LengthBytes < Len(w) /\ LengthBytes + w[1] <= Len(w)
    BY <1>2, <1>5, <1>6, <1>7, <1>8
  <2>2. Len(v) = Len(w) - (LengthBytes + w[1])
        /\ \A i \in 1 .. Len(v) : v[i] = w[LengthBytes + w[1] + i]
    BY <1>6, <1>7, <1>8, <2>1
  <2>3. Len(p) = w[1] /\ \A i \in 1 .. Len(p) : p[i] = w[LengthBytes + i]
    BY <1>10, <1>11, <2>1
  <2>4. QED
    BY <2>1, <2>2, <2>3, MessagesFirst
<1>13. contents = Hand \o Messages(Whole) /\ contents' = Hand' \o Messages(Whole')
  BY <1>1, ContentsAre, ContentsAreNext
<1>14. Hand = <<>> /\ Hand' = <<p>>
  BY <1>4, <1>10 DEF Hand
<1>15. <<>> \o Messages(w) = Messages(w)
  BY MessagesTyped
<1>16. QED
  BY <1>8, <1>12, <1>13, <1>14, <1>15

(* ... put back, it is the first one again.                                *)
LEMMA FitUnits ==
    ASSUME Good, Good', ~clobbered, ~clobbered', Fit
    PROVE  contents' = contents
<1>1. /\ pc["receiver"] = "fit" /\ kind = "message" /\ wanted \in 1 .. avail
      /\ avail <= BytesInBuffer /\ tail = Wrap(oldTail + LengthBytes)
      /\ UNCHANGED <<kind, cells, head>>
  BY FitMoves DEF Good
<1>2. /\ tail \in 0 .. Length - 1 /\ BytesInBuffer \in 0 .. Length - 1 /\ wanted \in Nat
      /\ Length \in Nat /\ LengthBytes \in 1 .. Length - 1 /\ oldTail \in 0 .. Length - 1
      /\ avail \in Nat
  BY GoodTypes
<1>3. CASE pc' = [pc EXCEPT !["receiver"] = "copyout"] /\ tail' = tail /\ wanted' = wanted
  <2>1. InMessage /\ InMessage'
    BY <1>1, <1>3 DEF InMessage, Good, Typed, TypeOK
  <2>2. clobbered' = clobbered
    BY DEF Good, Typed, TypeOK
  <2>3. QED
    BY <1>1, <1>3, <2>1, <2>2, UnitsKept
<1>4. CASE /\ pc' = [pc EXCEPT !["receiver"] = "idle"]
           /\ BytesInBuffer' = BytesInBuffer + LengthBytes
  <2>1. InMessage /\ ~InMessage' /\ pc'["receiver"] = "idle"
    BY <1>1, <1>4 DEF InMessage, Good, Typed, TypeOK
  <2>2. /\ Whole'[1] = wanted
        /\ Whole' \in Seq(Nat) /\ Len(Whole') = Len(Whole) + LengthBytes + wanted
        /\ \A i \in 1 .. Len(Whole') : Whole'[i] = cells[Wrap(oldTail + (0 + i - 1))]
        /\ \A i \in 1 .. Len(Whole) : Whole'[LengthBytes + wanted + i] = Whole[i]
    BY <1>1, <2>1, FitWhole DEF Good
  <2>3. Whole \in Seq(Nat)
    <3>1. Skip + Part <= BytesInBuffer
      BY <1>1 DEF Good, Framing
    <3>2. QED
      BY <1>1, <3>1, WholeAt DEF Good
  <2>4. PICK m \in 1 .. Length - 1 : m = wanted /\ m <= BytesInBuffer
    BY <1>1, <1>2
  <2>5. PICK w \in Seq(Nat), v \in Seq(Nat) : w = Whole' /\ v = Whole
    BY <2>2, <2>3
  <2>6. PICK p \in Seq(Nat) : /\ p = Slice(tail, wanted) /\ Len(p) = m
                              /\ \A i \in 1 .. m : p[i] = cells[Wrap(tail + i - 1)]
    <3>1. m \in 0 .. Length
      BY <1>2
    <3>2. QED
      BY <1>2, <2>4, <3>1, SliceTyped DEF Good
  <2>7. PICK l \in Nat, k \in Nat : l = Len(w) /\ k = Len(v) /\ l = k + LengthBytes + m
    <3>1. Len(w) \in Nat /\ Len(v) \in Nat
      OBVIOUS
    <3>2. Len(w) = Len(v) + LengthBytes + m
      BY <2>2, <2>4, <2>5
    <3>3. QED
      BY <3>1, <3>2
  <2>8. LengthBytes + m <= Length
    <3>1. BytesInBuffer' \in 0 .. Length - 1
      BY RingCountsNext DEF Good
    <3>2. QED
      BY <1>2, <1>4, <2>4, <3>1
  <2>9. ASSUME NEW i \in 1 .. m PROVE p[i] = w[LengthBytes + i]
    <3>1. /\ LengthBytes + i \in 1 .. l /\ i \in Nat \ {0} /\ LengthBytes + i <= Length
          /\ LengthBytes \in Nat
          /\ oldTail + (0 + (LengthBytes + i) - 1) = oldTail + (LengthBytes + i) - 1
      BY <1>2, <2>7, <2>8
    <3>2. Wrap(tail + i - 1) = Wrap(oldTail + (LengthBytes + i) - 1)
      BY <1>1, <1>2, <3>1, WrapOn
    <3>3. w[LengthBytes + i] = cells[Wrap(oldTail + (LengthBytes + i) - 1)]
      BY <2>2, <2>5, <2>7, <3>1
    <3>4. QED
      BY <2>6, <3>2, <3>3
  <2>10. Messages(w) = <<p>> \o Messages(v)
    <3>1. w[1] = m
      BY <2>2, <2>4, <2>5
    <3>2. LengthBytes < Len(w) /\ LengthBytes + w[1] <= Len(w)
      BY <1>2, <2>7, <3>1
    <3>3. Len(v) = Len(w) - (LengthBytes + w[1])
      BY <1>2, <2>7, <3>1
    <3>4. \A i \in 1 .. Len(v) : v[i] = w[LengthBytes + w[1] + i]
      BY <2>2, <2>4, <2>5, <3>1
    <3>5. Len(p) = w[1] /\ \A i \in 1 .. Len(p) : p[i] = w[LengthBytes + i]
      BY <2>6, <2>9, <3>1
    <3>6. QED
      BY <3>2, <3>3, <3>4, <3>5, MessagesFirst
  <2>11. contents = Hand \o Messages(Whole) /\ contents' = Hand' \o Messages(Whole')
    BY <1>1, ContentsAre, ContentsAreNext
  <2>12. Hand = <<p>> /\ Hand' = <<>>
    BY <2>1, <2>6 DEF Hand
  <2>13. <<>> \o Messages(w) = Messages(w)
    BY MessagesTyped
  <2>14. QED
    BY <2>5, <2>10, <2>11, <2>12, <2>13
<1>5. QED
  BY <1>3, <1>4, FitMoves DEF Good

(* It is taken out when the index moves past its bytes.                    *)
LEMMA DataUnits ==
    ASSUME Good, Good', ~clobbered, ~clobbered', PassData
    PROVE  \E n \in 1 .. Len(contents) : /\ received' = SubSeq(contents, 1, n)
                                         /\ contents' = SubSeq(contents, n + 1, Len(contents))
<1>1. /\ pc["receiver"] = "pastdata" /\ pc' = [pc EXCEPT !["receiver"] = "complete"]
      /\ wanted \in 1 .. BytesInBuffer /\ wanted \in 0 .. Length - 1
      /\ copied = Slice(tail, wanted) /\ box' = copied
      /\ UNCHANGED <<kind, cells, head>>
      /\ tail' = Wrap(tail + wanted) /\ BytesInBuffer' = BytesInBuffer - wanted
  BY DataMoves
<1>2. /\ tail \in 0 .. Length - 1 /\ BytesInBuffer \in 0 .. Length - 1 /\ wanted \in Nat
      /\ Length \in Nat
  BY GoodTypes
<1>3. PICK m \in Nat \ {0}, k \in Nat : m = wanted /\ m + k = BytesInBuffer /\ m + k < Length
  <2>1. wanted \in Nat \ {0} /\ BytesInBuffer - wanted \in Nat
    BY <1>1, <1>2
  <2>2. wanted + (BytesInBuffer - wanted) = BytesInBuffer /\ BytesInBuffer < Length
    BY <1>1, <1>2
  <2>3. QED
    BY <2>1, <2>2
<1>4. PICK p \in Seq(Nat) : /\ p = Slice(tail, wanted) /\ Len(p) = m /\ p = box'
                            /\ \A i \in 1 .. m : p[i] = cells[Wrap(tail + i - 1)]
  <2>1. m \in 0 .. Length
    BY <1>2, <1>3
  <2>2. /\ Slice(tail, m) \in Seq(Nat) /\ Len(Slice(tail, m)) = m
        /\ \A i \in 1 .. m : Slice(tail, m)[i] = cells[Wrap(tail + i - 1)]
    BY <1>2, <2>1, SliceTyped DEF Good
  <2>3. QED
    BY <1>1, <1>3, <2>2
<1>5. p # <<>>
  BY <1>3, <1>4
<1>6. CASE kind = "stream"
  <2>1. contents = Units(unread) /\ contents' = Units(unread)' /\ received' = Units(box)'
    BY <1>1, <1>4, <1>5, <1>6 DEF contents, received
  <2>2. PICK u \in Seq(Nat), v \in Seq(Nat) : u = unread /\ v = unread'
    BY UnreadTyped, UnreadTypedNext DEF Good
  <2>3. contents = Units(u) /\ contents' = Units(v) /\ received' = Units(p)
    BY <1>4, <2>1, <2>2 DEF Units
  <2>4. Len(u) = m + k /\ \A i \in 1 .. m + k : u[i] = cells[Wrap(tail + i - 1)]
    BY <1>3, <2>2, UnreadTyped DEF Good
  <2>5. Len(v) = k /\ \A i \in 1 .. k : v[i] = cells[Wrap(Wrap(tail + m) + i - 1)]
    <3>1. BytesInBuffer' = k
      BY <1>1, <1>3
    <3>2. QED
      BY <1>1, <1>3, <2>2, <3>1, UnreadTypedNext DEF Good
  <2>6. ASSUME NEW i \in 1 .. m PROVE p[i] = u[i]
    <3>1. i \in 1 .. m + k
      OBVIOUS
    <3>2. QED
      BY <1>4, <2>4, <3>1
  <2>7. ASSUME NEW i \in 1 .. k PROVE v[i] = u[m + i]
    <3>1. m \in Nat /\ i \in Nat \ {0} /\ m + i <= Length /\ m + i \in 1 .. m + k
      BY <1>2, <1>3
    <3>2. Wrap(Wrap(tail + m) + i - 1) = Wrap(tail + (m + i) - 1)
      BY <1>2, <3>1, WrapOn
    <3>3. QED
      BY <2>4, <2>5, <3>1, <3>2
  <2>8. Units(p) = SubSeq(Units(u), 1, m) /\ Units(v) = SubSeq(Units(u), m + 1, m + k)
    <3>1. Len(u) = m + k /\ Len(p) = m /\ Len(v) = k
      BY <1>4, <2>4, <2>5
    <3>2. Len(p) > 0 /\ Len(u) = Len(p) + Len(v)
      BY <3>1
    <3>3. /\ \A i \in 1 .. Len(p) : p[i] = u[i]
          /\ \A i \in 1 .. Len(v) : v[i] = u[Len(p) + i]
      BY <2>6, <2>7, <3>1
    <3>4. /\ Units(p) = SubSeq(Units(u), 1, Len(p))
          /\ Units(v) = SubSeq(Units(u), Len(p) + 1, Len(u))
      BY <3>2, <3>3, UnitsTaken
    <3>5. QED
      BY <3>1, <3>4
  <2>9. Len(contents) = m + k /\ m \in 1 .. m + k
    <3>1. m \in 1 .. m + k
      OBVIOUS
    <3>2. QED
      BY <2>3, <2>4, <3>1, UnitsOf
  <2>10. QED
    BY <2>3, <2>8, <2>9
<1>7. CASE kind = "message"
  <2>1. contents = Hand \o Messages(Whole) /\ contents' = Hand' \o Messages(Whole')
    BY <1>1, <1>7, ContentsAre, ContentsAreNext
  <2>2. InMessage /\ ~InMessage'
    BY <1>1 DEF InMessage, Good, Typed, TypeOK
  <2>3. Hand = <<p>> /\ Hand' = <<>>
    BY <1>4, <2>2 DEF Hand
  <2>4. Whole' = Whole
    BY <1>7, DataWhole DEF Good
  <2>5. Whole \in Seq(Nat)
    <3>1. Skip + Part <= BytesInBuffer
      BY <1>7 DEF Good, Framing
    <3>2. QED
      BY <1>7, <3>1, WholeAt DEF Good
  <2>6. PICK c \in Seq(Seq(Nat)) : c = Messages(Whole)
    BY <2>5, MessagesTyped
  <2>7. contents = <<p>> \o c /\ contents' = c
    <3>1. <<>> \o c = c
      OBVIOUS
    <3>2. QED
      BY <2>1, <2>3, <2>4, <2>6, <3>1
  <2>8. received' = <<p>>
    BY <1>1, <1>4, <1>5, <1>7 DEF received
  <2>9. /\ 1 \in 1 .. Len(<<p>> \o c) /\ <<p>> = SubSeq(<<p>> \o c, 1, 1)
        /\ c = SubSeq(<<p>> \o c, 1 + 1, Len(<<p>> \o c))
    BY FirstTaken
  <2>10. QED
    BY <2>7, <2>8, <2>9
<1>8. kind \in {"stream", "message"}
  BY StreamBufferAssumption DEF Good, Typed, TypeOK
<1>9. QED
  BY <1>6, <1>7, <1>8

LEMMA UnitsStay ==
    ASSUME UNCHANGED <<kind, cells, head, tail, clobbered, box>>,
           kind = "stream" \/ (InMessage' = InMessage /\ (InMessage => wanted' = wanted))
    PROVE  UNCHANGED Abstract!vars
<1>1. contents' = contents
  BY UnitsKept
<1>2. received' = received
  BY DEF received, Units
<1>3. QED
  BY <1>1, <1>2 DEF Abstract!vars

(* A call that ends has handed over what it took.                          *)
LEMMA UnitsReturned ==
    ASSUME UNCHANGED <<kind, cells, head, tail, clobbered, wanted>>, InMessage' = InMessage,
           box' \in {box, <<>>}
    PROVE  UNCHANGED Abstract!vars \/ MovesUnits
<1>1. contents' = contents
  BY UnitsKept
<1>2. CASE box' = box
  BY <1>2, UnitsStay
<1>3. CASE box' = <<>>
  <2>1. received' = <<>>
    BY <1>3 DEF received
  <2>2. QED
    BY <1>1, <2>1 DEF MovesUnits, Abstract!Return
<1>4. QED
  BY <1>2, <1>3

LEMMA UnitsInit == Init => Abstract!Init
<1> SUFFICES ASSUME Init PROVE Abstract!Init
  OBVIOUS
<1>1. Good /\ ~clobbered
  BY RingInit DEF Good, RingInv, Init
<1>2. received = <<>>
  BY DEF Init, received
<1>3. BytesInBuffer = 0 /\ ~InMessage
  BY StreamBufferAssumption DEF Init, BytesInBuffer, InMessage, Ends
<1>4. contents = <<>>
  <2>1. CASE kind = "stream"
    <3>1. unread \in Seq(Nat) /\ Len(unread) = 0
      BY <1>1, <1>3, UnreadTyped DEF Good
    <3>2. Units(unread) \in Seq(Seq(Nat)) /\ Len(Units(unread)) = 0
      BY <3>1, UnitsOf
    <3>3. Units(unread) = <<>>
      BY <3>2
    <3>4. QED
      BY <1>1, <2>1, <3>3 DEF contents
  <2>2. CASE kind = "message"
    <3>1. contents = Hand \o Messages(Whole) /\ Hand = <<>>
      BY <1>1, <1>3, <2>2, ContentsAre DEF Hand
    <3>2. Skip = 0 /\ Part = 0
      BY <1>3 DEF Init, Skip, Part, HalfSent, Ends
    <3>3. Whole \in Seq(Nat) /\ Len(Whole) = 0
      BY <1>1, <1>3, <2>2, <3>2, WholeAt DEF Good
    <3>4. Messages(Whole) = <<>>
      <4>1. 0 \in 0 .. Len(Whole) /\ ~(0 + LengthBytes < Len(Whole))
        BY <3>3, StreamBufferAssumption
      <4>2. QED
        BY <3>3, <4>1, FromEquation DEF Messages, Fits
    <3>5. <<>> \o <<>> = <<>>
      OBVIOUS
    <3>6. QED
      BY <3>1, <3>4, <3>5
  <2>3. kind \in {"stream", "message"}
    BY <1>1, StreamBufferAssumption DEF Good, Typed, TypeOK
  <2>4. QED
    BY <2>1, <2>2, <2>3
<1>5. QED
  BY <1>2, <1>4 DEF Abstract!Init

(* An empty buffer holds no unit.                                          *)
LEMMA EmptyNext ==
    ASSUME Good', ~clobbered', BytesInBuffer' = 0, ~InMessage', ~HalfSent'
    PROVE  contents' = <<>>
<1>1. CASE kind' = "stream"
  <2>1. PICK u \in Seq(Nat) : u = unread' /\ Len(u) = 0
    BY UnreadTypedNext DEF Good
  <2>2. Units(u) \in Seq(Seq(Nat)) /\ Len(Units(u)) = 0
    BY <2>1, UnitsOf
  <2>3. Units(u) = <<>>
    BY <2>2
  <2>4. contents' = Units(u)
    BY <1>1, <2>1 DEF contents, Units
  <2>5. QED
    BY <2>3, <2>4
<1>2. CASE kind' = "message"
  <2>1. contents' = Hand' \o Messages(Whole') /\ Hand' = <<>>
    BY <1>2, ContentsAreNext DEF Hand
  <2>2. Skip' = 0 /\ Part' = 0
    BY DEF Skip, Part
  <2>3. PICK w \in Seq(Nat) : w = Whole' /\ Len(w) = 0
    <3>1. Skip' + Part' <= BytesInBuffer'
      BY <2>2
    <3>2. Whole' \in Seq(Nat) /\ Len(Whole') = BytesInBuffer' - Skip' - Part'
      BY <1>2, <3>1, WholeAtNext DEF Good
    <3>3. Len(Whole') = 0
      BY <2>2, <3>2
    <3>4. QED
      BY <3>2, <3>3
  <2>4. Messages(w) = <<>>
    <3>1. 0 \in 0 .. Len(w) /\ ~(0 + LengthBytes < Len(w))
      BY <2>3, StreamBufferAssumption
    <3>2. QED
      BY <3>1, FromEquation DEF Messages, Fits
  <2>5. <<>> \o <<>> = <<>>
    OBVIOUS
  <2>6. QED
    BY <2>1, <2>3, <2>4, <2>5
<1>3. kind' \in {"stream", "message"}
  BY StreamBufferAssumption DEF Good, Typed, TypeOK
<1>4. QED
  BY <1>1, <1>2, <1>3

(* Each step moves units in order, or none.                                *)
LEMMA GoodUnitsStep == Good /\ Good' /\ ~clobbered /\ ~clobbered' /\ [Next]_vars => [MovesUnits]_(Abstract!vars)
<1> SUFFICES ASSUME Good /\ Good' /\ ~clobbered /\ ~clobbered', [Next]_vars PROVE [MovesUnits]_(Abstract!vars)
  OBVIOUS
<1> USE DEF At, Goto, Return, Forgets, Register, Other, Ends, ring, sync,
  sending, receiving
<1>1. CASE Send
  <2>1. UNCHANGED <<kind, cells, head, tail, clobbered, box>>
    BY <1>1 DEF Send
  <2>2. kind = "stream" \/ (InMessage' = InMessage /\ (InMessage => wanted' = wanted))
    BY <1>1 DEF Send, InMessage, Good, Typed, TypeOK
  <2>3. QED
    BY <2>1, <2>2, UnitsStay
<1>2. CASE Receive
  <2>1. UNCHANGED <<kind, cells, head, tail, clobbered, box>>
    BY <1>2 DEF Receive
  <2>2. kind = "stream" \/ (InMessage' = InMessage /\ (InMessage => wanted' = wanted))
    BY <1>2 DEF Receive, InMessage, Good, Typed, TypeOK
  <2>3. QED
    BY <2>1, <2>2, UnitsStay
<1>3. CASE CheckSpace
  <2>1. UNCHANGED <<kind, cells, head, tail, clobbered, box>>
    BY <1>3 DEF CheckSpace
  <2>2. kind = "stream" \/ (InMessage' = InMessage /\ (InMessage => wanted' = wanted))
    BY <1>3 DEF CheckSpace, InMessage, Good, Typed, TypeOK
  <2>3. QED
    BY <2>1, <2>2, UnitsStay
<1>4. CASE TimeOut
  <2>1. UNCHANGED <<kind, cells, head, tail, clobbered, box>>
    BY <1>4 DEF TimeOut
  <2>2. kind = "stream" \/ (InMessage' = InMessage /\ (InMessage => wanted' = wanted))
    BY <1>4 DEF TimeOut, InMessage, Good, Typed, TypeOK
  <2>3. QED
    BY <2>1, <2>2, UnitsStay
<1>5. CASE LastSpace
  <2>1. UNCHANGED <<kind, cells, head, tail, clobbered, box>>
    BY <1>5 DEF LastSpace
  <2>2. kind = "stream" \/ (InMessage' = InMessage /\ (InMessage => wanted' = wanted))
    BY <1>5 DEF LastSpace, InMessage, Good, Typed, TypeOK
  <2>3. QED
    BY <2>1, <2>2, UnitsStay
<1>6. CASE Write
  <2>1. UNCHANGED <<kind, cells, head, tail, clobbered, box>>
    BY <1>6 DEF Write
  <2>2. kind = "stream" \/ (InMessage' = InMessage /\ (InMessage => wanted' = wanted))
    BY <1>6 DEF Write, InMessage, Good, Typed, TypeOK
  <2>3. QED
    BY <2>1, <2>2, UnitsStay
<1>7. CASE Copy
  <2>1. contents' = contents
    BY <1>7, CopyUnits
  <2>2. received' = received
    BY <1>7 DEF Copy, received, Units
  <2>3. QED
    BY <2>1, <2>2 DEF Abstract!vars
<1>8. CASE Advance
  <2>1. contents' = contents \/ \E c \in Sendable : contents' = contents \o c
    BY <1>8, AdvanceUnits
  <2>2. received' = received
    BY <1>8 DEF Advance, received, Units
  <2>3. QED
    BY <2>1, <2>2 DEF Abstract!vars, MovesUnits, Abstract!Put
<1>9. CASE Level
  <2>1. UNCHANGED <<kind, cells, head, tail, clobbered, box>>
    BY <1>9 DEF Level
  <2>2. kind = "stream" \/ (InMessage' = InMessage /\ (InMessage => wanted' = wanted))
    BY <1>9 DEF Level, InMessage, Good, Typed, TypeOK
  <2>3. QED
    BY <2>1, <2>2, UnitsStay
<1>10. CASE CheckBytes
  <2>1. UNCHANGED <<kind, cells, head, tail, clobbered, box>>
    BY <1>10 DEF CheckBytes
  <2>2. kind = "stream" \/ (InMessage' = InMessage /\ (InMessage => wanted' = wanted))
    BY <1>10 DEF CheckBytes, InMessage, Good, Typed, TypeOK
  <2>3. QED
    BY <2>1, <2>2, UnitsStay
<1>11. CASE Recheck
  <2>1. UNCHANGED <<kind, cells, head, tail, clobbered, box>>
    BY <1>11 DEF Recheck
  <2>2. kind = "stream" \/ (InMessage' = InMessage /\ (InMessage => wanted' = wanted))
    BY <1>11 DEF Recheck, InMessage, Good, Typed, TypeOK
  <2>3. QED
    BY <2>1, <2>2, UnitsStay
<1>12. CASE Read
  <2>1. UNCHANGED <<kind, cells, head, tail, clobbered, box>>
    BY <1>12 DEF Read
  <2>2. kind = "stream" \/ (InMessage' = InMessage /\ (InMessage => wanted' = wanted))
    BY <1>12 DEF Read, InMessage, Good, Typed, TypeOK
  <2>3. QED
    BY <2>1, <2>2, UnitsStay
<1>13. CASE ReadLength
  <2>1. UNCHANGED <<kind, cells, head, tail, clobbered, box>>
    BY <1>13 DEF ReadLength
  <2>2. kind = "stream" \/ (InMessage' = InMessage /\ (InMessage => wanted' = wanted))
    BY <1>13 DEF ReadLength, InMessage, Good, Typed, TypeOK
  <2>3. QED
    BY <2>1, <2>2, UnitsStay
<1>14. CASE PassHeader
  <2>1. contents' = contents
    BY <1>14, HeaderUnits
  <2>2. received' = received
    BY <1>14 DEF PassHeader, received, Units
  <2>3. QED
    BY <2>1, <2>2 DEF Abstract!vars
<1>15. CASE Fit
  <2>1. contents' = contents
    BY <1>15, FitUnits
  <2>2. received' = received
    BY <1>15 DEF Fit, received, Units
  <2>3. QED
    BY <2>1, <2>2 DEF Abstract!vars
<1>16. CASE CopyOut
  <2>1. UNCHANGED <<kind, cells, head, tail, clobbered, box>>
    BY <1>16 DEF CopyOut
  <2>2. kind = "stream" \/ (InMessage' = InMessage /\ (InMessage => wanted' = wanted))
    BY <1>16 DEF CopyOut, InMessage, Good, Typed, TypeOK
  <2>3. QED
    BY <2>1, <2>2, UnitsStay
<1>17. CASE PassData
  BY <1>17, DataUnits DEF MovesUnits, Abstract!Get
<1>18. CASE SetTriggerLevel
  <2>1. UNCHANGED <<kind, cells, head, tail, clobbered, box>>
    BY <1>18 DEF SetTriggerLevel
  <2>2. kind = "stream" \/ (InMessage' = InMessage /\ (InMessage => wanted' = wanted))
    BY <1>18 DEF SetTriggerLevel, InMessage, Good, Typed, TypeOK
  <2>3. QED
    BY <2>1, <2>2, UnitsStay
<1>19. CASE Reset
  <2>1. /\ head' = 0 /\ tail' = 0 /\ pc' = pc /\ UNCHANGED <<kind, cells, box, todo>>
        /\ pc["receiver"] = "idle" /\ pc["sender"] = "idle"
    BY <1>19 DEF Reset
  <2>2. received' = received
    BY <2>1 DEF received, Units
  <2>3. BytesInBuffer' = 0
    BY <2>1, StreamBufferAssumption DEF BytesInBuffer
  <2>4. contents' = <<>>
    BY <2>1, <2>3, EmptyNext DEF InMessage, HalfSent
  <2>5. QED
    BY <1>19, <2>2, <2>4 DEF MovesUnits, Abstract!Reset
<1>20. ASSUME NEW e \in Ends, Wait(e) PROVE [MovesUnits]_(Abstract!vars)
  <2>1. UNCHANGED <<kind, cells, head, tail, clobbered, box>>
    BY <1>20 DEF Wait
  <2>2. kind = "stream" \/ (InMessage' = InMessage /\ (InMessage => wanted' = wanted))
    BY <1>20 DEF Wait, InMessage, Good, Typed, TypeOK
  <2>3. QED
    BY <2>1, <2>2, UnitsStay
<1>21. ASSUME NEW e \in Ends, Woken(e) PROVE [MovesUnits]_(Abstract!vars)
  <2>1. UNCHANGED <<kind, cells, head, tail, clobbered, box>>
    BY <1>21 DEF Woken
  <2>2. kind = "stream" \/ (InMessage' = InMessage /\ (InMessage => wanted' = wanted))
    BY <1>21 DEF Woken, InMessage, Good, Typed, TypeOK
  <2>3. QED
    BY <2>1, <2>2, UnitsStay
<1>22. ASSUME NEW e \in Ends, ForgetSelf(e) PROVE [MovesUnits]_(Abstract!vars)
  <2>1. UNCHANGED <<kind, cells, head, tail, clobbered, box>>
    BY <1>22 DEF ForgetSelf
  <2>2. kind = "stream" \/ (InMessage' = InMessage /\ (InMessage => wanted' = wanted))
    BY <1>22 DEF ForgetSelf, InMessage, Good, Typed, TypeOK
  <2>3. QED
    BY <2>1, <2>2, UnitsStay
<1>23. ASSUME NEW e \in Ends, Complete(e) PROVE [MovesUnits]_(Abstract!vars)
  <2>1. UNCHANGED <<kind, cells, head, tail, clobbered, wanted>> /\ box' \in {box, <<>>}
    BY <1>23 DEF Complete
  <2>2. InMessage' = InMessage
    BY <1>23 DEF Complete, InMessage, Good, Typed, TypeOK
  <2>3. QED
    BY <2>1, <2>2, UnitsReturned
<1>24. ASSUME NEW e \in Ends, Notify(e) PROVE [MovesUnits]_(Abstract!vars)
  <2>1. UNCHANGED <<kind, cells, head, tail, clobbered, box>>
    BY <1>24 DEF Notify
  <2>2. kind = "stream" \/ (InMessage' = InMessage /\ (InMessage => wanted' = wanted))
    BY <1>24 DEF Notify, InMessage, Good, Typed, TypeOK
  <2>3. QED
    BY <2>1, <2>2, UnitsStay
<1>25. ASSUME NEW e \in Ends, Forget(e) PROVE [MovesUnits]_(Abstract!vars)
  <2>1. UNCHANGED <<kind, cells, head, tail, clobbered, wanted>> /\ box' \in {box, <<>>}
    BY <1>25 DEF Forget
  <2>2. InMessage' = InMessage
    BY <1>25 DEF Forget, InMessage, Good, Typed, TypeOK
  <2>3. QED
    BY <2>1, <2>2, UnitsReturned
<1>26. ASSUME NEW e \in Ends, Expire(e) PROVE [MovesUnits]_(Abstract!vars)
  <2>1. UNCHANGED <<kind, cells, head, tail, clobbered, box>>
    BY <1>26 DEF Expire
  <2>2. kind = "stream" \/ (InMessage' = InMessage /\ (InMessage => wanted' = wanted))
    BY <1>26 DEF Expire, InMessage, Good, Typed, TypeOK
  <2>3. QED
    BY <2>1, <2>2, UnitsStay
<1>27. CASE UNCHANGED vars
  <2>1. UNCHANGED <<kind, cells, head, tail, clobbered, box, wanted, pc>>
    BY <1>27 DEF vars
  <2>2. QED
    BY <2>1, UnitsStay DEF InMessage
<1>28. QED
  BY <1>1, <1>2, <1>3, <1>4, <1>5, <1>6, <1>7, <1>8, <1>9, <1>10, <1>11,
    <1>12, <1>13, <1>14, <1>15, <1>16, <1>17, <1>18, <1>19, <1>20, <1>21,
    <1>22, <1>23, <1>24, <1>25, <1>26, <1>27
    DEF Next, Sender, Receiver, Common

LEMMA UnitsStep == RingInv /\ RingInv' /\ [Next]_vars => [MovesUnits]_(Abstract!vars)
<1> SUFFICES ASSUME RingInv, RingInv', [Next]_vars PROVE [MovesUnits]_(Abstract!vars)
  OBVIOUS
<1>1. CASE clobbered'
  BY <1>1 DEF MovesUnits
<1>2. CASE ~clobbered'
  <2>1. ~clobbered
    BY <1>2, ClobberedStays DEF RingInv
  <2>2. Good /\ Good'
    BY <1>2, <2>1 DEF RingInv, Good
  <2>3. QED
    BY <1>2, <2>1, <2>2, GoodUnitsStep
<1>3. QED
  BY <1>1, <1>2

(* On any number of cores each step moves units into or out of the buffer  *)
(* in order, or none, until a message is put back over bytes in use.       *)
THEOREM RefinesFifoStreamCorrect == Spec => RefinesFifoStream
<1>1. Init => Abstract!Init
  BY UnitsInit
<1>2. RingInv /\ RingInv' /\ [Next]_vars => [MovesUnits]_(Abstract!vars)
  BY UnitsStep
<1>3. Spec => []RingInv
  BY RingInvCorrect
<1>4. QED
  BY <1>1, <1>2, <1>3, PTL DEF Spec, RefinesFifoStream
=============================================================================

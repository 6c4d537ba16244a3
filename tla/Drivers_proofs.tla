--------------------------- MODULE Drivers_proofs ---------------------------
(***************************************************************************)
(* Theorems about Dma and Uart, for any finite set of tasks, any number of *)
(* channels and stages, any size of the table of handles, of the rings and *)
(* of the port's FIFO: first the pool of DmaPool, which Dma extends, then  *)
(* the transfers, which refine the pool, and the driver's own properties;  *)
(* the serial port, which shares nothing with them, comes last.            *)
(***************************************************************************)
EXTENDS Dma, Uart, FiniteSetTheorems, TLAPS

-----------------------------------------------------------------------------
(***************************************************************************)
(* The pool.                                                               *)
(*                                                                         *)
(* OneFile, that a channel's flag and its only file go together, is not    *)
(* inductive alone: io_close deletes a file before it clears the slot, so  *)
(* that others open the channel while the old handle still leads to it.    *)
(* Apart says that this handle is nobody else's meanwhile, Table what a    *)
(* handle leads to, Shape what each call holds at each of its steps.       *)
(***************************************************************************)

Openers == {"io_open", "dma_open_free"}
Closers == {"io_close", "dma_close"}

-----------------------------------------------------------------------------
(* What each call does at each place, and what it holds there *)
Shape ==
    \A t \in Tasks :
        /\ index[t] # 0
        /\ pc[t] \in {"acquire", "release"} => job[t] \in DmaJobs
        /\ pc[t] \in {"take", "scan"} => job[t] = "dma_open_free"
        /\ pc[t] \in {"new", "cas"} => job[t] \in Openers
        /\ pc[t] \in {"read", "clear"} => job[t] \in Closers
        /\ file[t] # None <=> pc[t] \in {"new", "cas", "free", "delete"}
        /\ file[t] # None => (file[t] = Device <=> job[t] \in {"io_open", "io_close"})
        /\ handle[t] # None <=>
             /\ job[t] \in Closers
             /\ pc[t] \in {"acquire", "read", "free", "delete", "clear"}

(* What a handle leads to, for the task that may close it and for the one  *)
(* that is closing it                                                      *)
Table ==
    \A t \in Tasks :
        /\ \A o \in open[t] : slot[o[1]] = o[2]
        /\ handle[t] # None =>
             /\ slot[handle[t]] # None
             /\ slot[handle[t]] = Device <=> job[t] = "io_close"
        /\ handle[t] # None /\ pc[t] \in {"free", "delete"} => file[t] = slot[handle[t]]

(* No handle is open twice, nor open and being closed, nor closed twice. *)
Apart ==
    /\ \A t, u \in Tasks : t # u => \A o \in open[t], p \in open[u] : o[1] # p[1]
    /\ \A t, u \in Tasks : handle[t] # None => \A o \in open[u] : o[1] # handle[t]
    /\ \A t, u \in Tasks : handle[t] # None /\ handle[t] = handle[u] => t = u

(* Where the file on a channel is *)
Filed(h, c) == slot[h] = c /\ ~Dangling(h)
Held(t, c) == file[t] = c /\ job[t] = "dma_open_free"

(* A channel has one file, in the table or in an opener's hands, and its   *)
(* flag says so.                                                           *)
OneFile ==
    \A c \in Channels :
        /\ \A h, k \in Handles : Filed(h, c) /\ Filed(k, c) => h = k
        /\ \A t, u \in Tasks : Held(t, c) /\ Held(u, c) => t = u
        /\ \A h \in Handles, t \in Tasks : ~(Filed(h, c) /\ Held(t, c))
        /\ c \in used <=> \/ \E h \in Handles : Filed(h, c)
                          \/ \E t \in Tasks : Held(t, c)

PoolInv == TypeOK /\ Shape /\ Table /\ Apart /\ OneFile

-----------------------------------------------------------------------------
(* Pairs are told apart by their parts. *)
LEMMA PairEquality ==
    \A S, T : \A p, q \in S \X T : p[1] = q[1] /\ p[2] = q[2] => p = q
  OBVIOUS

(* Every step keeps the types.                                             *)
LEMMA TypeStep == PoolInv /\ [Next]_vars => TypeOK'
<1> SUFFICES ASSUME PoolInv, [Next]_vars PROVE TypeOK'
  OBVIOUS
<1> USE PoolAssumption DEF PoolInv, TypeOK, Channels, Handles, Files, Jobs,
  DmaJobs, Labels, Openers, Closers, At, Goto
<1>1. ASSUME NEW t \in Tasks, DmaOpenFree(t) PROVE TypeOK'
  BY <1>1 DEF DmaOpenFree
<1>2. ASSUME NEW t \in Tasks, IoOpen(t) PROVE TypeOK'
  BY <1>2 DEF IoOpen
<1>3. ASSUME NEW t \in Tasks, Close(t) PROVE TypeOK'
  BY <1>3 DEF Close
<1>4. ASSUME NEW t \in Tasks, Acquire(t) PROVE TypeOK'
  BY <1>4 DEF Acquire, Acquired
<1>5. ASSUME NEW t \in Tasks, AcquireTimesOut(t) PROVE TypeOK'
  BY <1>5 DEF AcquireTimesOut, Acquired
<1>6. ASSUME NEW t \in Tasks, Release(t) PROVE TypeOK'
  BY <1>6 DEF Release
<1>7. ASSUME NEW t \in Tasks, Take(t) PROVE TypeOK'
  BY <1>7 DEF Take
<1>8. ASSUME NEW t \in Tasks, ChannelDenied(t) PROVE TypeOK'
  BY <1>8 DEF ChannelDenied
<1>9. ASSUME NEW t \in Tasks, ChannelOpened(t) PROVE TypeOK'
  BY <1>9 DEF ChannelOpened
<1>10. ASSUME NEW t \in Tasks, NoChannel(t) PROVE TypeOK'
  BY <1>10 DEF NoChannel
<1>11. ASSUME NEW t \in Tasks, NewFile(t) PROVE TypeOK'
  BY <1>11 DEF NewFile
<1>12. ASSUME NEW t \in Tasks, NewFileFails(t) PROVE TypeOK'
  <2>1. fatal' \in BOOLEAN
    BY <1>12 DEF NewFileFails
  <2>2. pc' \in [Tasks -> Labels]
    BY <1>12 DEF NewFileFails, After
  <2>3. lost' \in Nat
    BY <1>12 DEF NewFileFails
  <2>4. used' \in SUBSET Channels
    BY <1>12 DEF NewFileFails
  <2>5. QED
    BY <1>12, <2>1, <2>2, <2>3, <2>4 DEF NewFileFails
<1>13. ASSUME NEW t \in Tasks, CasTakes(t) PROVE TypeOK'
  <2>1. Probe(t) \in Handles
    BY DEF Probe, Shape
  <2>2. <<Probe(t), file[t]>> \in Handles \X Files
    BY <1>13, <2>1 DEF CasTakes, Shape
  <2>3. QED
    BY <1>13, <2>1, <2>2 DEF CasTakes, After
<1>14. ASSUME NEW t \in Tasks, CasMisses(t) PROVE TypeOK'
  BY <1>14 DEF CasMisses, Probe
<1>15. ASSUME NEW t \in Tasks, TableFull(t) PROVE TypeOK'
  BY <1>15 DEF TableFull
<1>16. ASSUME NEW t \in Tasks, ReadSlot(t) PROVE TypeOK'
  BY <1>16 DEF ReadSlot, Shape
<1>17. ASSUME NEW t \in Tasks, AddFree(t) PROVE TypeOK'
  BY <1>17 DEF AddFree
<1>18. ASSUME NEW t \in Tasks, DeleteFile(t) PROVE TypeOK'
  BY <1>18 DEF DeleteFile, After
<1>19. ASSUME NEW t \in Tasks, ClearSlot(t) PROVE TypeOK'
  BY <1>19 DEF ClearSlot, After
<1>20. CASE UNCHANGED vars
  BY <1>20 DEF vars
<1>21. QED
  BY <1>1, <1>2, <1>3, <1>4, <1>5, <1>6, <1>7, <1>8, <1>9, <1>10, <1>11,
    <1>12, <1>13, <1>14, <1>15, <1>16, <1>17, <1>18, <1>19, <1>20
    DEF Next, Step

(* Every step keeps to the shape of its call.                              *)
LEMMA ShapeStep == PoolInv /\ [Next]_vars => Shape'
<1> SUFFICES ASSUME PoolInv, [Next]_vars PROVE Shape'
  OBVIOUS
<1> USE PoolAssumption DEF PoolInv, TypeOK, Channels, Handles, Files, Jobs,
  DmaJobs, Labels, Openers, Closers, At, Goto
<1>1. ASSUME NEW t \in Tasks, DmaOpenFree(t) PROVE Shape'
  BY <1>1 DEF DmaOpenFree, Shape
<1>2. ASSUME NEW t \in Tasks, IoOpen(t) PROVE Shape'
  BY <1>2 DEF IoOpen, Shape
<1>3. ASSUME NEW t \in Tasks, Close(t) PROVE Shape'
  <2>1. PICK o \in open[t] :
          /\ open' = [open EXCEPT ![t] = @ \ {o}]
          /\ handle' = [handle EXCEPT ![t] = o[1]]
          /\ job' = [job EXCEPT ![t] = IF o[2] = Device THEN "io_close" ELSE "dma_close"]
          /\ pc' = [pc EXCEPT ![t] = IF o[2] = Device THEN "read" ELSE "acquire"]
    BY <1>3 DEF Close
  <2>2. o[1] \in Handles /\ o[2] \in Files /\ o[1] # None
    OBVIOUS
  <2>3. QED
    BY <1>3, <2>1, <2>2 DEF Close, Shape
<1>4. ASSUME NEW t \in Tasks, Acquire(t) PROVE Shape'
  BY <1>4 DEF Acquire, Acquired, Shape
<1>5. ASSUME NEW t \in Tasks, AcquireTimesOut(t) PROVE Shape'
  BY <1>5 DEF AcquireTimesOut, Acquired, Shape
<1>6. ASSUME NEW t \in Tasks, Release(t) PROVE Shape'
  BY <1>6 DEF Release, Shape
<1>7. ASSUME NEW t \in Tasks, Take(t) PROVE Shape'
  BY <1>7 DEF Take, Shape
<1>8. ASSUME NEW t \in Tasks, ChannelDenied(t) PROVE Shape'
  BY <1>8 DEF ChannelDenied, Shape
<1>9. ASSUME NEW t \in Tasks, ChannelOpened(t) PROVE Shape'
  BY <1>9 DEF ChannelOpened, Shape
<1>10. ASSUME NEW t \in Tasks, NoChannel(t) PROVE Shape'
  BY <1>10 DEF NoChannel, Shape
<1>11. ASSUME NEW t \in Tasks, NewFile(t) PROVE Shape'
  BY <1>11 DEF NewFile, Shape
<1>12. ASSUME NEW t \in Tasks, NewFileFails(t) PROVE Shape'
  BY <1>12 DEF NewFileFails, After, Shape
<1>13. ASSUME NEW t \in Tasks, CasTakes(t) PROVE Shape'
  BY <1>13 DEF CasTakes, Probe, After, Shape
<1>14. ASSUME NEW t \in Tasks, CasMisses(t) PROVE Shape'
  BY <1>14 DEF CasMisses, Probe, Shape
<1>15. ASSUME NEW t \in Tasks, TableFull(t) PROVE Shape'
  BY <1>15 DEF TableFull, Shape
<1>16. ASSUME NEW t \in Tasks, ReadSlot(t) PROVE Shape'
  BY <1>16 DEF ReadSlot, Shape, Table
<1>17. ASSUME NEW t \in Tasks, AddFree(t) PROVE Shape'
  BY <1>17 DEF AddFree, Shape
<1>18. ASSUME NEW t \in Tasks, DeleteFile(t) PROVE Shape'
  BY <1>18 DEF DeleteFile, After, Shape
<1>19. ASSUME NEW t \in Tasks, ClearSlot(t) PROVE Shape'
  BY <1>19 DEF ClearSlot, After, Shape
<1>20. CASE UNCHANGED vars
  BY <1>20 DEF vars, Shape
<1>21. QED
  BY <1>1, <1>2, <1>3, <1>4, <1>5, <1>6, <1>7, <1>8, <1>9, <1>10, <1>11,
    <1>12, <1>13, <1>14, <1>15, <1>16, <1>17, <1>18, <1>19, <1>20
    DEF Next, Step

(* Every step keeps the handles leading to their files: compare-and-swap   *)
(* fills empty slots only, and only the closer empties one.                *)
LEMMA TableStep == PoolInv /\ [Next]_vars => Table'
<1> SUFFICES ASSUME PoolInv, [Next]_vars PROVE Table'
  OBVIOUS
<1> USE PoolAssumption DEF PoolInv, TypeOK, Channels, Handles, Files, Jobs,
  DmaJobs, Labels, Openers, Closers, At, Goto
<1>1. ASSUME NEW t \in Tasks, DmaOpenFree(t) PROVE Table'
  BY <1>1 DEF DmaOpenFree, Table, Shape, Apart
<1>2. ASSUME NEW t \in Tasks, IoOpen(t) PROVE Table'
  BY <1>2 DEF IoOpen, Table, Shape, Apart
<1>3. ASSUME NEW t \in Tasks, Close(t) PROVE Table'
  BY <1>3 DEF Close, Table, Shape, Apart
<1>4. ASSUME NEW t \in Tasks, Acquire(t) PROVE Table'
  BY <1>4 DEF Acquire, Acquired, Table, Shape, Apart
<1>5. ASSUME NEW t \in Tasks, AcquireTimesOut(t) PROVE Table'
  BY <1>5 DEF AcquireTimesOut, Acquired, Table, Shape, Apart
<1>6. ASSUME NEW t \in Tasks, Release(t) PROVE Table'
  BY <1>6 DEF Release, Table, Shape, Apart
<1>7. ASSUME NEW t \in Tasks, Take(t) PROVE Table'
  BY <1>7 DEF Take, Table, Shape, Apart
<1>8. ASSUME NEW t \in Tasks, ChannelDenied(t) PROVE Table'
  BY <1>8 DEF ChannelDenied, Table, Shape, Apart
<1>9. ASSUME NEW t \in Tasks, ChannelOpened(t) PROVE Table'
  BY <1>9 DEF ChannelOpened, Table, Shape, Apart
<1>10. ASSUME NEW t \in Tasks, NoChannel(t) PROVE Table'
  BY <1>10 DEF NoChannel, Table, Shape, Apart
<1>11. ASSUME NEW t \in Tasks, NewFile(t) PROVE Table'
  BY <1>11 DEF NewFile, Table, Shape, Apart
<1>12. ASSUME NEW t \in Tasks, NewFileFails(t) PROVE Table'
  BY <1>12 DEF NewFileFails, After, Table, Shape, Apart
<1>13. ASSUME NEW t \in Tasks, CasTakes(t) PROVE Table'
  BY <1>13 DEF CasTakes, Probe, After, Table, Shape, Apart
<1>14. ASSUME NEW t \in Tasks, CasMisses(t) PROVE Table'
  BY <1>14 DEF CasMisses, Probe, Table, Shape, Apart
<1>15. ASSUME NEW t \in Tasks, TableFull(t) PROVE Table'
  BY <1>15 DEF TableFull, Table, Shape, Apart
<1>16. ASSUME NEW t \in Tasks, ReadSlot(t) PROVE Table'
  BY <1>16 DEF ReadSlot, Table, Shape, Apart
<1>17. ASSUME NEW t \in Tasks, AddFree(t) PROVE Table'
  BY <1>17 DEF AddFree, Table, Shape, Apart
<1>18. ASSUME NEW t \in Tasks, DeleteFile(t) PROVE Table'
  BY <1>18 DEF DeleteFile, After, Table, Shape, Apart
<1>19. ASSUME NEW t \in Tasks, ClearSlot(t) PROVE Table'
  BY <1>19 DEF ClearSlot, After, Table, Shape, Apart
<1>20. CASE UNCHANGED vars
  BY <1>20 DEF vars, Table, Shape, Apart
<1>21. QED
  BY <1>1, <1>2, <1>3, <1>4, <1>5, <1>6, <1>7, <1>8, <1>9, <1>10, <1>11,
    <1>12, <1>13, <1>14, <1>15, <1>16, <1>17, <1>18, <1>19, <1>20
    DEF Next, Step

(* Every step keeps the handles apart.                                     *)
LEMMA ApartStep == PoolInv /\ [Next]_vars => Apart'
<1> SUFFICES ASSUME PoolInv, [Next]_vars PROVE Apart'
  OBVIOUS
<1> USE PoolAssumption DEF PoolInv, TypeOK, Channels, Handles, Files, Jobs,
  DmaJobs, Labels, Openers, Closers, At, Goto
<1>1. ASSUME NEW t \in Tasks, DmaOpenFree(t) PROVE Apart'
  BY <1>1 DEF DmaOpenFree, Apart, Shape
<1>2. ASSUME NEW t \in Tasks, IoOpen(t) PROVE Apart'
  BY <1>2 DEF IoOpen, Apart, Shape
<1>3. ASSUME NEW t \in Tasks, Close(t) PROVE Apart'
  <2>1. PICK o \in open[t] :
          /\ open' = [open EXCEPT ![t] = @ \ {o}]
          /\ handle' = [handle EXCEPT ![t] = o[1]]
          /\ job' = [job EXCEPT ![t] = IF o[2] = Device THEN "io_close" ELSE "dma_close"]
          /\ pc' = [pc EXCEPT ![t] = IF o[2] = Device THEN "read" ELSE "acquire"]
    BY <1>3 DEF Close
  <2>2. o[1] \in Handles /\ o[2] \in Files /\ o[1] # None
    OBVIOUS
  <2>3. \A u \in Tasks : open'[u] \subseteq open[u]
    BY <2>1
  <2>4. \A p \in open'[t] : p[1] # o[1]
    <3> SUFFICES ASSUME NEW p \in open[t], p # o PROVE p[1] # o[1]
      BY <2>1
    <3>1. p \in Handles \X Files /\ o \in Handles \X Files
      OBVIOUS
    <3>2. p[2] = slot[p[1]] /\ o[2] = slot[o[1]]
      BY DEF Table
    <3>3. QED
      BY SMTT(30), <3>1, <3>2, PairEquality
  <2>5. QED
    BY <1>3, <2>1, <2>2, <2>3, <2>4 DEF Close, Apart, Shape
<1>4. ASSUME NEW t \in Tasks, Acquire(t) PROVE Apart'
  BY <1>4 DEF Acquire, Acquired, Apart, Shape
<1>5. ASSUME NEW t \in Tasks, AcquireTimesOut(t) PROVE Apart'
  BY <1>5 DEF AcquireTimesOut, Acquired, Apart, Shape
<1>6. ASSUME NEW t \in Tasks, Release(t) PROVE Apart'
  BY <1>6 DEF Release, Apart, Shape
<1>7. ASSUME NEW t \in Tasks, Take(t) PROVE Apart'
  BY <1>7 DEF Take, Apart, Shape
<1>8. ASSUME NEW t \in Tasks, ChannelDenied(t) PROVE Apart'
  BY <1>8 DEF ChannelDenied, Apart, Shape
<1>9. ASSUME NEW t \in Tasks, ChannelOpened(t) PROVE Apart'
  BY <1>9 DEF ChannelOpened, Apart, Shape
<1>10. ASSUME NEW t \in Tasks, NoChannel(t) PROVE Apart'
  BY <1>10 DEF NoChannel, Apart, Shape
<1>11. ASSUME NEW t \in Tasks, NewFile(t) PROVE Apart'
  BY <1>11 DEF NewFile, Apart, Shape
<1>12. ASSUME NEW t \in Tasks, NewFileFails(t) PROVE Apart'
  BY <1>12 DEF NewFileFails, After, Apart, Shape
<1>13. ASSUME NEW t \in Tasks, CasTakes(t) PROVE Apart'
  BY <1>13 DEF CasTakes, Probe, After, Apart, Shape, Table
<1>14. ASSUME NEW t \in Tasks, CasMisses(t) PROVE Apart'
  BY <1>14 DEF CasMisses, Probe, Apart, Shape
<1>15. ASSUME NEW t \in Tasks, TableFull(t) PROVE Apart'
  BY <1>15 DEF TableFull, Apart, Shape
<1>16. ASSUME NEW t \in Tasks, ReadSlot(t) PROVE Apart'
  BY <1>16 DEF ReadSlot, Apart, Shape
<1>17. ASSUME NEW t \in Tasks, AddFree(t) PROVE Apart'
  BY <1>17 DEF AddFree, Apart, Shape
<1>18. ASSUME NEW t \in Tasks, DeleteFile(t) PROVE Apart'
  BY <1>18 DEF DeleteFile, After, Apart, Shape
<1>19. ASSUME NEW t \in Tasks, ClearSlot(t) PROVE Apart'
  BY <1>19 DEF ClearSlot, After, Apart, Shape
<1>20. CASE UNCHANGED vars
  BY <1>20 DEF vars, Apart, Shape
<1>21. QED
  BY <1>1, <1>2, <1>3, <1>4, <1>5, <1>6, <1>7, <1>8, <1>9, <1>10, <1>11,
    <1>12, <1>13, <1>14, <1>15, <1>16, <1>17, <1>18, <1>19, <1>20
    DEF Next, Step

(* A step that leaves every file where it is leaves OneFile alone. *)
LEMMA OneFileSame ==
    ASSUME OneFile, used' = used,
           \A h \in Handles, c \in Channels : Filed(h, c)' <=> Filed(h, c),
           \A t \in Tasks, c \in Channels : Held(t, c)' <=> Held(t, c)
    PROVE  OneFile'
<1>1. ASSUME NEW c \in Channels
      PROVE  /\ \A h, k \in Handles : Filed(h, c)' /\ Filed(k, c)' => h = k
             /\ \A t, u \in Tasks : Held(t, c)' /\ Held(u, c)' => t = u
             /\ \A h \in Handles, t \in Tasks : ~(Filed(h, c)' /\ Held(t, c)')
             /\ c \in used' <=> \/ \E h \in Handles : Filed(h, c)'
                              \/ \E t \in Tasks : Held(t, c)'
  <2>1. \A h, k \in Handles : Filed(h, c)' /\ Filed(k, c)' => h = k
    BY DEF OneFile
  <2>2. /\ \A t, u \in Tasks : Held(t, c)' /\ Held(u, c)' => t = u
        /\ \A h \in Handles, t \in Tasks : ~(Filed(h, c)' /\ Held(t, c)')
    BY DEF OneFile
  <2>3. c \in used' <=> \/ \E h \in Handles : Filed(h, c)'
                       \/ \E t \in Tasks : Held(t, c)'
    BY DEF OneFile
  <2>4. QED
    BY <2>1, <2>2, <2>3
<1>2. QED
  BY <1>1 DEF OneFile

(* So does one that changes neither slots nor who is to clear them. *)
LEMMA OneFileKept ==
    ASSUME OneFile, used' = used, slot' = slot,
           \A t \in Tasks : pc'[t] = "clear" <=> pc[t] = "clear",
           \A t \in Tasks : pc[t] = "clear" => handle'[t] = handle[t],
           \A t \in Tasks, c \in Channels : Held(t, c)' <=> Held(t, c)
    PROVE  OneFile'
<1>1. \A h \in Handles, c \in Channels : Filed(h, c)' <=> Filed(h, c)
  BY DEF Filed, Dangling
<1>2. QED
  BY <1>1, OneFileSame

(* Every step keeps one file on a used channel and none on the others: the *)
(* flag is set by whoever found it clear, the handle takes the file over,  *)
(* and the flag is cleared when that file is deleted.                      *)
LEMMA OneFileStep == PoolInv /\ [Next]_vars => OneFile'
<1> SUFFICES ASSUME PoolInv, [Next]_vars PROVE OneFile'
  OBVIOUS
<1> USE PoolAssumption DEF PoolInv, TypeOK, Channels, Handles, Files, Jobs,
  DmaJobs, Labels, Openers, Closers, At, Goto
<1>1. ASSUME NEW t \in Tasks, DmaOpenFree(t) PROVE OneFile'
  <2>1. /\ used' = used /\ slot' = slot
        /\ \A u \in Tasks : pc'[u] = "clear" <=> pc[u] = "clear"
        /\ \A u \in Tasks : pc[u] = "clear" => handle'[u] = handle[u]
    BY <1>1 DEF DmaOpenFree, Shape
  <2>2. \A u \in Tasks, c \in Channels : Held(u, c)' <=> Held(u, c)
    BY <1>1 DEF DmaOpenFree, Shape, Held
  <2>3. QED
    BY <2>1, <2>2, OneFileKept
<1>2. ASSUME NEW t \in Tasks, IoOpen(t) PROVE OneFile'
  <2>1. /\ used' = used /\ slot' = slot
        /\ \A u \in Tasks : pc'[u] = "clear" <=> pc[u] = "clear"
        /\ \A u \in Tasks : pc[u] = "clear" => handle'[u] = handle[u]
    BY <1>2 DEF IoOpen, Shape
  <2>2. \A u \in Tasks, c \in Channels : Held(u, c)' <=> Held(u, c)
    BY <1>2 DEF IoOpen, Shape, Held
  <2>3. QED
    BY <2>1, <2>2, OneFileKept
<1>3. ASSUME NEW t \in Tasks, Close(t) PROVE OneFile'
  <2>1. /\ used' = used /\ slot' = slot
        /\ \A u \in Tasks : pc'[u] = "clear" <=> pc[u] = "clear"
        /\ \A u \in Tasks : pc[u] = "clear" => handle'[u] = handle[u]
    BY <1>3 DEF Close, Shape
  <2>2. \A u \in Tasks, c \in Channels : Held(u, c)' <=> Held(u, c)
    BY ZenonT(40), <1>3 DEF Close, Shape, Held
  <2>3. QED
    BY <2>1, <2>2, OneFileKept
<1>4. ASSUME NEW t \in Tasks, Acquire(t) PROVE OneFile'
  <2>1. /\ used' = used /\ slot' = slot
        /\ \A u \in Tasks : pc'[u] = "clear" <=> pc[u] = "clear"
        /\ \A u \in Tasks : pc[u] = "clear" => handle'[u] = handle[u]
    BY <1>4 DEF Acquire, Acquired, Shape
  <2>2. \A u \in Tasks, c \in Channels : Held(u, c)' <=> Held(u, c)
    BY <1>4 DEF Acquire, Acquired, Shape, Held
  <2>3. QED
    BY <2>1, <2>2, OneFileKept
<1>5. ASSUME NEW t \in Tasks, AcquireTimesOut(t) PROVE OneFile'
  <2>1. /\ used' = used /\ slot' = slot
        /\ \A u \in Tasks : pc'[u] = "clear" <=> pc[u] = "clear"
        /\ \A u \in Tasks : pc[u] = "clear" => handle'[u] = handle[u]
    BY <1>5 DEF AcquireTimesOut, Acquired, Shape
  <2>2. \A u \in Tasks, c \in Channels : Held(u, c)' <=> Held(u, c)
    BY <1>5 DEF AcquireTimesOut, Acquired, Shape, Held
  <2>3. QED
    BY <2>1, <2>2, OneFileKept
<1>6. ASSUME NEW t \in Tasks, Release(t) PROVE OneFile'
  <2>1. /\ used' = used /\ slot' = slot
        /\ \A u \in Tasks : pc'[u] = "clear" <=> pc[u] = "clear"
        /\ \A u \in Tasks : pc[u] = "clear" => handle'[u] = handle[u]
    BY <1>6 DEF Release, Shape
  <2>2. \A u \in Tasks, c \in Channels : Held(u, c)' <=> Held(u, c)
    BY <1>6 DEF Release, Shape, Held
  <2>3. QED
    BY <2>1, <2>2, OneFileKept
<1>7. ASSUME NEW t \in Tasks, Take(t) PROVE OneFile'
  <2>1. /\ used' = used /\ slot' = slot
        /\ \A u \in Tasks : pc'[u] = "clear" <=> pc[u] = "clear"
        /\ \A u \in Tasks : pc[u] = "clear" => handle'[u] = handle[u]
    BY <1>7 DEF Take, Shape
  <2>2. \A u \in Tasks, c \in Channels : Held(u, c)' <=> Held(u, c)
    BY <1>7 DEF Take, Shape, Held
  <2>3. QED
    BY <2>1, <2>2, OneFileKept
<1>8. ASSUME NEW t \in Tasks, ChannelDenied(t) PROVE OneFile'
  <2>1. /\ used' = used /\ slot' = slot
        /\ \A u \in Tasks : pc'[u] = "clear" <=> pc[u] = "clear"
        /\ \A u \in Tasks : pc[u] = "clear" => handle'[u] = handle[u]
    BY <1>8 DEF ChannelDenied, Shape
  <2>2. \A u \in Tasks, c \in Channels : Held(u, c)' <=> Held(u, c)
    BY <1>8 DEF ChannelDenied, Shape, Held
  <2>3. QED
    BY <2>1, <2>2, OneFileKept
<1>9. ASSUME NEW t \in Tasks, ChannelOpened(t) PROVE OneFile'
  <2>1. \A h \in Handles, c \in Channels : Filed(h, c)' <=> Filed(h, c)
    BY <1>9 DEF ChannelOpened, Filed, Dangling
  <2>2. \A u \in Tasks, c \in Channels : Held(u, c)' <=> Held(u, c) \/ (u = t /\ c = index[t])
    BY <1>9 DEF ChannelOpened, Held, Shape
  <2>3. index[t] \notin used /\ used' = used \cup {index[t]}
    BY <1>9 DEF ChannelOpened
  <2>4. QED
    <3> SUFFICES ASSUME NEW c \in Channels
        PROVE  /\ \A h, k \in Handles : Filed(h, c)' /\ Filed(k, c)' => h = k
               /\ \A u, v \in Tasks : Held(u, c)' /\ Held(v, c)' => u = v
               /\ \A h \in Handles, u \in Tasks : ~(Filed(h, c)' /\ Held(u, c)')
               /\ c \in used' <=> \/ \E h \in Handles : Filed(h, c)'
                                \/ \E u \in Tasks : Held(u, c)'
      BY DEF OneFile
    <3>1. QED
      BY <2>1, <2>2, <2>3 DEF OneFile
<1>10. ASSUME NEW t \in Tasks, NoChannel(t) PROVE OneFile'
  <2>1. /\ used' = used /\ slot' = slot
        /\ \A u \in Tasks : pc'[u] = "clear" <=> pc[u] = "clear"
        /\ \A u \in Tasks : pc[u] = "clear" => handle'[u] = handle[u]
    BY <1>10 DEF NoChannel, Shape
  <2>2. \A u \in Tasks, c \in Channels : Held(u, c)' <=> Held(u, c)
    BY <1>10 DEF NoChannel, Shape, Held
  <2>3. QED
    BY <2>1, <2>2, OneFileKept
<1>11. ASSUME NEW t \in Tasks, NewFile(t) PROVE OneFile'
  <2>1. /\ used' = used /\ slot' = slot
        /\ \A u \in Tasks : pc'[u] = "clear" <=> pc[u] = "clear"
        /\ \A u \in Tasks : pc[u] = "clear" => handle'[u] = handle[u]
    BY <1>11 DEF NewFile, Shape
  <2>2. \A u \in Tasks, c \in Channels : Held(u, c)' <=> Held(u, c)
    BY <1>11 DEF NewFile, Shape, Held
  <2>3. QED
    BY <2>1, <2>2, OneFileKept
<1>12. ASSUME NEW t \in Tasks, NewFileFails(t) PROVE OneFile'
  <2>1. \A h \in Handles, c \in Channels : Filed(h, c)' <=> Filed(h, c)
    BY <1>12 DEF NewFileFails, After, Filed, Dangling
  <2>2. \A u \in Tasks, c \in Channels : Held(u, c)' <=> Held(u, c) /\ u # t
    BY <1>12 DEF NewFileFails, Held, Shape
  <2>3. used' = used \ {file[t]} /\ \A c \in Channels : file[t] = c <=> Held(t, c)
    BY <1>12 DEF NewFileFails, Held, Shape
  <2>4. QED
    BY SMTT(30), <2>1, <2>2, <2>3 DEF OneFile
<1>13. ASSUME NEW t \in Tasks, CasTakes(t) PROVE OneFile'
  <2>1. Probe(t) \in Handles /\ slot[Probe(t)] = None /\ ~Dangling(Probe(t))
    <3>1. Probe(t) \in Handles
      BY DEF Probe, Shape
    <3>2. QED
      BY <1>13, <3>1 DEF CasTakes, Dangling, Table, Shape
  <2>2. \A h \in Handles, c \in Channels :
          Filed(h, c)' <=> Filed(h, c) \/ (h = Probe(t) /\ Held(t, c))
    BY <1>13, <2>1 DEF CasTakes, After, Filed, Held, Dangling, Shape
  <2>3. \A u \in Tasks, c \in Channels : Held(u, c)' <=> Held(u, c) /\ u # t
    BY <1>13 DEF CasTakes, Held, Shape
  <2>4. used' = used
    BY <1>13 DEF CasTakes
  <2>5. QED
    <3> SUFFICES ASSUME NEW c \in Channels
        PROVE  /\ \A h, k \in Handles : Filed(h, c)' /\ Filed(k, c)' => h = k
               /\ \A u, v \in Tasks : Held(u, c)' /\ Held(v, c)' => u = v
               /\ \A h \in Handles, u \in Tasks : ~(Filed(h, c)' /\ Held(u, c)')
               /\ c \in used' <=> \/ \E h \in Handles : Filed(h, c)'
                                \/ \E u \in Tasks : Held(u, c)'
      BY DEF OneFile
    <3>1. CASE Held(t, c)
      <4>1. \A h \in Handles : Filed(h, c)' <=> h = Probe(t)
        BY <2>2, <3>1 DEF OneFile
      <4>2. \A u \in Tasks : ~Held(u, c)'
        BY <2>3, <3>1 DEF OneFile
      <4>3. c \in used'
        BY <2>4, <3>1 DEF OneFile
      <4>4. QED
        BY <2>1, <4>1, <4>2, <4>3
    <3>2. CASE ~Held(t, c)
      <4>1. /\ \A h \in Handles : Filed(h, c)' <=> Filed(h, c)
            /\ \A u \in Tasks : Held(u, c)' <=> Held(u, c)
        BY <2>2, <2>3, <3>2
      <4>2. QED
        BY <2>4, <4>1 DEF OneFile
    <3>3. QED
      BY <3>1, <3>2
<1>14. ASSUME NEW t \in Tasks, CasMisses(t) PROVE OneFile'
  <2>1. /\ used' = used /\ slot' = slot
        /\ \A u \in Tasks : pc'[u] = "clear" <=> pc[u] = "clear"
        /\ \A u \in Tasks : pc[u] = "clear" => handle'[u] = handle[u]
    BY <1>14 DEF CasMisses, Probe, Shape
  <2>2. \A u \in Tasks, c \in Channels : Held(u, c)' <=> Held(u, c)
    BY <1>14 DEF CasMisses, Probe, Shape, Held
  <2>3. QED
    BY <2>1, <2>2, OneFileKept
<1>15. ASSUME NEW t \in Tasks, TableFull(t) PROVE OneFile'
  <2>1. /\ used' = used /\ slot' = slot
        /\ \A u \in Tasks : pc'[u] = "clear" <=> pc[u] = "clear"
        /\ \A u \in Tasks : pc[u] = "clear" => handle'[u] = handle[u]
    BY <1>15 DEF TableFull, Shape
  <2>2. \A u \in Tasks, c \in Channels : Held(u, c)' <=> Held(u, c)
    BY <1>15 DEF TableFull, Shape, Held
  <2>3. QED
    BY <2>1, <2>2, OneFileKept
<1>16. ASSUME NEW t \in Tasks, ReadSlot(t) PROVE OneFile'
  <2>1. /\ used' = used /\ slot' = slot
        /\ \A u \in Tasks : pc'[u] = "clear" <=> pc[u] = "clear"
        /\ \A u \in Tasks : pc[u] = "clear" => handle'[u] = handle[u]
    BY <1>16 DEF ReadSlot, Shape
  <2>2. \A u \in Tasks, c \in Channels : Held(u, c)' <=> Held(u, c)
    BY <1>16 DEF ReadSlot, Shape, Held
  <2>3. QED
    BY <2>1, <2>2, OneFileKept
<1>17. ASSUME NEW t \in Tasks, AddFree(t) PROVE OneFile'
  <2>1. /\ used' = used /\ slot' = slot
        /\ \A u \in Tasks : pc'[u] = "clear" <=> pc[u] = "clear"
        /\ \A u \in Tasks : pc[u] = "clear" => handle'[u] = handle[u]
    BY <1>17 DEF AddFree, Shape
  <2>2. \A u \in Tasks, c \in Channels : Held(u, c)' <=> Held(u, c)
    BY <1>17 DEF AddFree, Shape, Held
  <2>3. QED
    BY <2>1, <2>2, OneFileKept
<1>18. ASSUME NEW t \in Tasks, DeleteFile(t) PROVE OneFile'
  <2>1. CASE handle[t] = None
    <3>1. \A h \in Handles, c \in Channels : Filed(h, c)' <=> Filed(h, c)
      BY <1>18, <2>1 DEF DeleteFile, After, Filed, Dangling, Shape
    <3>2. \A u \in Tasks, c \in Channels : Held(u, c)' <=> Held(u, c) /\ u # t
      BY <1>18 DEF DeleteFile, Held, Shape
    <3>3. used' = used \ {file[t]} /\ \A c \in Channels : file[t] = c <=> Held(t, c)
      BY <1>18, <2>1 DEF DeleteFile, Held, Shape
    <3>4. QED
      BY SMTT(30), <3>1, <3>2, <3>3 DEF OneFile
  <2>2. CASE handle[t] # None
    <3>1. /\ handle[t] \in Handles /\ file[t] = slot[handle[t]]
          /\ ~Dangling(handle[t])
      BY <1>18, <2>2 DEF DeleteFile, Dangling, Shape, Table, Apart
    <3>2. \A h \in Handles, c \in Channels : Filed(h, c)' <=> Filed(h, c) /\ h # handle[t]
      BY <1>18, <2>2, <3>1 DEF DeleteFile, After, Filed, Dangling, Shape
    <3>3. \A u \in Tasks, c \in Channels : Held(u, c)' <=> Held(u, c)
      BY <1>18, <2>2 DEF DeleteFile, Held, Shape
    <3>4. used' = used \ {file[t]} /\ \A c \in Channels : file[t] = c <=> Filed(handle[t], c)
      BY <1>18, <3>1 DEF DeleteFile, Filed
    <3>5. QED
      BY SMTT(30), <3>1, <3>2, <3>3, <3>4 DEF OneFile
  <2>3. QED
    BY <2>1, <2>2
<1>19. ASSUME NEW t \in Tasks, ClearSlot(t) PROVE OneFile'
  <2>1. \A h \in Handles, c \in Channels : Filed(h, c)' <=> Filed(h, c)
    BY <1>19 DEF ClearSlot, After, Filed, Dangling, Shape
  <2>2. \A u \in Tasks, c \in Channels : Held(u, c)' <=> Held(u, c)
    BY <1>19 DEF ClearSlot, Held, Shape
  <2>3. used' = used
    BY <1>19 DEF ClearSlot
  <2>4. QED
    BY <2>1, <2>2, <2>3, OneFileSame
<1>20. CASE UNCHANGED vars
  <2>1. \A h \in Handles, c \in Channels : Filed(h, c)' <=> Filed(h, c)
    BY <1>20 DEF vars, Filed, Dangling
  <2>2. QED
    BY <1>20, <2>1, OneFileSame DEF vars, Held
<1>21. QED
  BY <1>1, <1>2, <1>3, <1>4, <1>5, <1>6, <1>7, <1>8, <1>9, <1>10, <1>11,
    <1>12, <1>13, <1>14, <1>15, <1>16, <1>17, <1>18, <1>19, <1>20
    DEF Next, Step

-----------------------------------------------------------------------------
(* It holds initially: no file is open and no channel is in use. *)
LEMMA InitInv == Init => PoolInv
<1> SUFFICES ASSUME Init PROVE PoolInv
  OBVIOUS
<1> USE PoolAssumption DEF Init, Channels, Handles, Files, Openers, Closers
<1>1. TypeOK
  <2>1. tokens \in 0 .. NChannels /\ open \in [Tasks -> SUBSET (Handles \X Files)]
    OBVIOUS
  <2>2. QED
    BY <2>1 DEF TypeOK, Jobs, Labels
<1>2. Shape /\ Table /\ Apart
  BY DEF Shape, Table, Apart, DmaJobs
<1>3. OneFile
  <2>1. \A h \in Handles, c \in Channels : ~Filed(h, c)
    BY DEF Filed
  <2>2. \A t \in Tasks, c \in Channels : ~Held(t, c)
    BY DEF Held
  <2>3. QED
    BY <2>1, <2>2 DEF OneFile
<1>4. QED
  BY <1>1, <1>2, <1>3 DEF PoolInv

(* Every step keeps the invariant. *)
LEMMA InvStep == PoolInv /\ [Next]_vars => PoolInv'
BY TypeStep, ShapeStep, TableStep, ApartStep, OneFileStep DEF PoolInv

(* The inductive invariant of the pool *)
THEOREM InvariantCorrect == Spec => []PoolInv
BY InitInv, InvStep, PTL DEF Spec

-----------------------------------------------------------------------------
(* In a state of the invariant one file is on an open channel, none on the *)
(* others, and every open handle leads to its own file.                    *)
LEMMA InvOwns == PoolInv => HandlesAreOwned
<1> SUFFICES ASSUME PoolInv PROVE HandlesAreOwned
  OBVIOUS
<1>1. ASSUME NEW c \in Channels
      PROVE  Cardinality(InTable(c)) + Cardinality(InHands(c)) = (IF c \in used THEN 1 ELSE 0)
  <2>1. InTable(c) = {h \in Handles : Filed(h, c)} /\ InHands(c) = {t \in Tasks : Held(t, c)}
    BY DEF InTable, InHands, Filed, Held
  <2>2. CASE \E h \in Handles : Filed(h, c)
    <3>1. PICK h \in Handles : Filed(h, c)
      BY <2>2
    <3>2. InTable(c) = {h} /\ InHands(c) = {} /\ c \in used
      BY <2>1, <3>1 DEF PoolInv, OneFile
    <3>3. Cardinality(InTable(c)) = 1 /\ Cardinality(InHands(c)) = 0
      BY <3>2, FS_EmptySet, FS_Singleton
    <3>4. QED
      BY <3>2, <3>3
  <2>3. CASE \E t \in Tasks : Held(t, c)
    <3>1. PICK t \in Tasks : Held(t, c)
      BY <2>3
    <3>2. InTable(c) = {} /\ InHands(c) = {t} /\ c \in used
      BY <2>1, <3>1 DEF PoolInv, OneFile
    <3>3. Cardinality(InTable(c)) = 0 /\ Cardinality(InHands(c)) = 1
      BY <3>2, FS_EmptySet, FS_Singleton
    <3>4. QED
      BY <3>2, <3>3
  <2>4. CASE /\ ~(\E h \in Handles : Filed(h, c))
             /\ ~(\E t \in Tasks : Held(t, c))
    <3>1. InTable(c) = {} /\ InHands(c) = {} /\ c \notin used
      BY <2>1, <2>4 DEF PoolInv, OneFile
    <3>2. QED
      BY <3>1, FS_EmptySet
  <2>5. QED
    BY <2>2, <2>3, <2>4
<1>2. ASSUME NEW t \in Tasks, NEW o \in open[t]
      PROVE  /\ slot[o[1]] = o[2]
             /\ ~Dangling(o[1])
             /\ \A u \in Tasks \ {t} : \A p \in open[u] : p[1] # o[1]
  BY DEF PoolInv, Table, Apart, Shape, Dangling
<1>3. QED
  BY <1>1, <1>2 DEF HandlesAreOwned, OneFilePerChannel, PoolInv

(* A handle stays its opener's until it is closed, and a channel has one   *)
(* file (io_alloc_handle, io_close, dma_close of devices.cpp).             *)
THEOREM HandlesAreOwnedCorrect == Spec => []HandlesAreOwned
BY InvariantCorrect, InvOwns, PTL

-----------------------------------------------------------------------------
(* The tasks that have a token and no channel yet, and those that have     *)
(* given a token back and have the channel still                           *)
Scanning == {t \in Tasks : pc[t] = "scan"}
Deleting == {t \in Tasks : pc[t] = "delete" /\ file[t] \in Channels}

(* The equation of TokensCountChannels *)
Balance ==
    tokens + Cardinality(used) + lost + Cardinality(Scanning)
      = NChannels + Cardinality(Deleting)

(* What is not in a set cannot be removed from it. *)
LEMMA RemoveNothing == \A S, x : x \notin S => S \ {x} = S
OBVIOUS

(* The counts that the tokens are compared with are counts of finite sets. *)
LEMMA CountsAreFinite ==
    ASSUME TypeOK
    PROVE  /\ IsFiniteSet(used) /\ IsFiniteSet(Scanning) /\ IsFiniteSet(Deleting)
           /\ Cardinality(used) \in Nat /\ Cardinality(Scanning) \in Nat
           /\ Cardinality(Deleting) \in Nat
<1>1. IsFiniteSet(Channels)
  BY PoolAssumption, FS_Interval DEF Channels
<1>2. IsFiniteSet(used)
  BY <1>1, FS_Subset DEF TypeOK
<1>3. IsFiniteSet(Scanning) /\ IsFiniteSet(Deleting)
  BY PoolAssumption, FS_Subset DEF Scanning, Deleting
<1>4. QED
  BY <1>2, <1>3, FS_CardinalityType

(* Tasks about to free a channel have different ones, all of them in use. *)
LEMMA FilesDiffer ==
    ASSUME PoolInv, NEW t \in Tasks, pc[t] \in {"free", "delete"}, file[t] \in Channels
    PROVE  /\ file[t] \in used
           /\ \A u \in Tasks : pc[u] \in {"free", "delete"} /\ file[u] = file[t] => u = t
<1> USE PoolAssumption DEF PoolInv
<1>1. ASSUME NEW u \in Tasks, pc[u] \in {"free", "delete"}, file[u] = file[t]
      PROVE  Held(u, file[t]) \/ (handle[u] \in Handles /\ Filed(handle[u], file[t]))
  <2>1. CASE handle[u] = None
    BY <1>1, <2>1 DEF Held, Shape, Channels, Files, TypeOK, Jobs, Closers
  <2>2. CASE handle[u] # None
    BY <1>1, <2>2 DEF Filed, Dangling, Shape, Table, Apart, TypeOK
  <2>3. QED
    BY <2>1, <2>2
<1>2. file[t] \in used
  BY <1>1 DEF OneFile
<1>3. ASSUME NEW u \in Tasks, pc[u] \in {"free", "delete"}, file[u] = file[t]
      PROVE  u = t
  <2>1. Held(u, file[t]) \/ (handle[u] \in Handles /\ Filed(handle[u], file[t]))
    BY <1>1, <1>3
  <2>2. Held(t, file[t]) \/ (handle[t] \in Handles /\ Filed(handle[t], file[t]))
    BY <1>1
  <2>3. handle[u] = handle[t] /\ handle[u] \in Handles => u = t
    BY DEF Apart, Handles
  <2>4. QED
    BY <2>1, <2>2, <2>3 DEF OneFile
<1>4. QED
  BY <1>2, <1>3

(* dma_add_free never finds dma_free_ full with a channel in its hands:    *)
(* xSemaphoreGive does not fail.                                           *)
LEMMA TokenFits ==
    ASSUME PoolInv, Balance,
           NEW t \in Tasks, pc[t] = "free", file[t] \in Channels
    PROVE  tokens < NChannels
<1> DEFINE D == Deleting \cup {t}
<1> DEFINE f == [u \in D |-> file[u]]
<1>1. IsFiniteSet(D) /\ Cardinality(D) = Cardinality(Deleting) + 1
  <2>1. t \notin Deleting /\ IsFiniteSet(Deleting)
    BY CountsAreFinite DEF Deleting, PoolInv
  <2>2. QED
    BY <2>1, FS_AddElement
<1>2. f \in Injection(D, used)
  <2>1. \A u \in D : u \in Tasks /\ pc[u] \in {"free", "delete"} /\ file[u] \in Channels
    BY DEF Deleting
  <2>2. \A u \in D : file[u] \in used
    BY <2>1, FilesDiffer
  <2>3. \A u, v \in D : file[u] = file[v] => u = v
    BY <2>1, FilesDiffer
  <2>4. QED
    BY <2>2, <2>3 DEF Injection, IsInjective
<1>3. Cardinality(D) <= Cardinality(used)
  <2>1. IsFiniteSet(used)
    BY CountsAreFinite DEF PoolInv
  <2>2. QED
    BY <1>2, <2>1, FS_Injection
<1>4. QED
  BY <1>1, <1>3, PoolAssumption, CountsAreFinite DEF Balance, PoolInv, TypeOK

(* A step that leaves tokens, channels, scanners and deleters alone leaves *)
(* the balance alone.                                                      *)
LEMMA BalanceKept ==
    ASSUME Balance,
           tokens' = tokens, used' = used, lost' = lost,
           Scanning' = Scanning, Deleting' = Deleting
    PROVE  Balance'
BY DEF Balance

(* Every step keeps the balance of tokens and channels.                    *)
LEMMA BalanceStep == PoolInv /\ Balance /\ [Next]_vars => Balance'
<1> SUFFICES ASSUME PoolInv /\ Balance, [Next]_vars PROVE Balance'
  OBVIOUS
<1> USE PoolAssumption DEF PoolInv, TypeOK, Channels, Handles, Files, Jobs,
  DmaJobs, Labels, Openers, Closers, At, Goto
<1>0. /\ tokens \in Int /\ lost \in Int /\ NChannels \in Int
      /\ Cardinality(used) \in Int /\ Cardinality(Scanning) \in Int
      /\ Cardinality(Deleting) \in Int
  BY CountsAreFinite
<1>1. ASSUME NEW t \in Tasks, DmaOpenFree(t) PROVE Balance'
  <2>1. tokens' = tokens /\ used' = used /\ lost' = lost
    BY <1>1 DEF DmaOpenFree
  <2>2. Scanning' = Scanning /\ Deleting' = Deleting
    BY <1>1 DEF DmaOpenFree, Scanning, Deleting, Shape
  <2>3. QED
    BY <2>1, <2>2, BalanceKept
<1>2. ASSUME NEW t \in Tasks, IoOpen(t) PROVE Balance'
  <2>1. tokens' = tokens /\ used' = used /\ lost' = lost
    BY <1>2 DEF IoOpen
  <2>2. Scanning' = Scanning /\ Deleting' = Deleting
    BY <1>2 DEF IoOpen, Scanning, Deleting, Shape
  <2>3. QED
    BY <2>1, <2>2, BalanceKept
<1>3. ASSUME NEW t \in Tasks, Close(t) PROVE Balance'
  <2>1. tokens' = tokens /\ used' = used /\ lost' = lost
    BY <1>3 DEF Close
  <2>2. Scanning' = Scanning /\ Deleting' = Deleting
    BY <1>3 DEF Close, Scanning, Deleting, Shape
  <2>3. QED
    BY <2>1, <2>2, BalanceKept
<1>4. ASSUME NEW t \in Tasks, Acquire(t) PROVE Balance'
  <2>1. tokens' = tokens /\ used' = used /\ lost' = lost
    BY <1>4 DEF Acquire, Acquired
  <2>2. Scanning' = Scanning /\ Deleting' = Deleting
    BY <1>4 DEF Acquire, Acquired, Scanning, Deleting, Shape
  <2>3. QED
    BY <2>1, <2>2, BalanceKept
<1>5. ASSUME NEW t \in Tasks, AcquireTimesOut(t) PROVE Balance'
  <2>1. tokens' = tokens /\ used' = used /\ lost' = lost
    BY <1>5 DEF AcquireTimesOut, Acquired
  <2>2. Scanning' = Scanning /\ Deleting' = Deleting
    BY <1>5 DEF AcquireTimesOut, Acquired, Scanning, Deleting, Shape
  <2>3. QED
    BY <2>1, <2>2, BalanceKept
<1>6. ASSUME NEW t \in Tasks, Release(t) PROVE Balance'
  <2>1. tokens' = tokens /\ used' = used /\ lost' = lost
    BY <1>6 DEF Release
  <2>2. Scanning' = Scanning /\ Deleting' = Deleting
    BY <1>6 DEF Release, Scanning, Deleting, Shape
  <2>3. QED
    BY <2>1, <2>2, BalanceKept
<1>7. ASSUME NEW t \in Tasks, Take(t) PROVE Balance'
  <2>1. /\ tokens' = tokens - 1 /\ used' = used /\ lost' = lost
        /\ t \notin Scanning /\ Scanning' = Scanning \cup {t}
        /\ Deleting' = Deleting
    BY <1>7 DEF Take, Scanning, Deleting
  <2>2. Cardinality(Scanning') = Cardinality(Scanning) + 1
    BY <2>1, FS_AddElement, CountsAreFinite
  <2> HIDE DEF PoolInv
  <2>3. QED
    BY <2>1, <2>2, <1>0 DEF Balance
<1>8. ASSUME NEW t \in Tasks, ChannelDenied(t) PROVE Balance'
  <2>1. tokens' = tokens /\ used' = used /\ lost' = lost
    BY <1>8 DEF ChannelDenied
  <2>2. Scanning' = Scanning /\ Deleting' = Deleting
    BY <1>8 DEF ChannelDenied, Scanning, Deleting, Shape
  <2>3. QED
    BY <2>1, <2>2, BalanceKept
<1>9. ASSUME NEW t \in Tasks, ChannelOpened(t) PROVE Balance'
  <2>1. /\ tokens' = tokens /\ lost' = lost /\ Deleting' = Deleting
        /\ index[t] \notin used /\ used' = used \cup {index[t]}
        /\ t \in Scanning /\ Scanning' = Scanning \ {t}
    BY <1>9 DEF ChannelOpened, Scanning, Deleting, Shape
  <2>2. /\ Cardinality(used') = Cardinality(used) + 1
        /\ Cardinality(Scanning') = Cardinality(Scanning) - 1
    BY <2>1, FS_AddElement, FS_RemoveElement, CountsAreFinite
  <2> HIDE DEF PoolInv
  <2>3. QED
    BY <2>1, <2>2, <1>0 DEF Balance
<1>10. ASSUME NEW t \in Tasks, NoChannel(t) PROVE Balance'
  <2>1. tokens' = tokens /\ used' = used /\ lost' = lost
    BY <1>10 DEF NoChannel
  <2>2. Scanning' = Scanning /\ Deleting' = Deleting
    BY <1>10 DEF NoChannel, Scanning, Deleting, Shape
  <2>3. QED
    BY <2>1, <2>2, BalanceKept
<1>11. ASSUME NEW t \in Tasks, NewFile(t) PROVE Balance'
  <2>1. tokens' = tokens /\ used' = used /\ lost' = lost
    BY <1>11 DEF NewFile
  <2>2. Scanning' = Scanning /\ Deleting' = Deleting
    BY <1>11 DEF NewFile, Scanning, Deleting, Shape
  <2>3. QED
    BY <2>1, <2>2, BalanceKept
<1>12. ASSUME NEW t \in Tasks, NewFileFails(t) PROVE Balance'
  <2>1. Scanning' = Scanning /\ Deleting' = Deleting /\ tokens' = tokens
    BY <1>12 DEF NewFileFails, After, Scanning, Deleting
  <2>2. CASE file[t] = Device
    <3>1. used' = used /\ lost' = lost
      BY <1>12, <2>2, RemoveNothing DEF NewFileFails
    <3>2. QED
      BY <2>1, <3>1, BalanceKept
  <2>3. CASE file[t] # Device
    <3>1. file[t] \in used /\ used' = used \ {file[t]} /\ lost' = lost + 1
      BY <1>12, <2>3 DEF NewFileFails, Shape, OneFile, Held
    <3>2. Cardinality(used') = Cardinality(used) - 1
      BY <3>1, FS_RemoveElement, CountsAreFinite
    <3> HIDE DEF PoolInv
    <3>3. QED
      BY <2>1, <3>1, <3>2, <1>0 DEF Balance
  <2>4. QED
    BY <2>2, <2>3
<1>13. ASSUME NEW t \in Tasks, CasTakes(t) PROVE Balance'
  <2>1. tokens' = tokens /\ used' = used /\ lost' = lost
    BY <1>13 DEF CasTakes, Probe, After
  <2>2. Scanning' = Scanning /\ Deleting' = Deleting
    BY <1>13 DEF CasTakes, Probe, After, Scanning, Deleting, Shape
  <2>3. QED
    BY <2>1, <2>2, BalanceKept
<1>14. ASSUME NEW t \in Tasks, CasMisses(t) PROVE Balance'
  <2>1. tokens' = tokens /\ used' = used /\ lost' = lost
    BY <1>14 DEF CasMisses, Probe
  <2>2. Scanning' = Scanning /\ Deleting' = Deleting
    BY <1>14 DEF CasMisses, Probe, Scanning, Deleting, Shape
  <2>3. QED
    BY <2>1, <2>2, BalanceKept
<1>15. ASSUME NEW t \in Tasks, TableFull(t) PROVE Balance'
  <2>1. tokens' = tokens /\ used' = used /\ lost' = lost
    BY <1>15 DEF TableFull
  <2>2. Scanning' = Scanning /\ Deleting' = Deleting
    BY <1>15 DEF TableFull, Scanning, Deleting, Shape
  <2>3. QED
    BY <2>1, <2>2, BalanceKept
<1>16. ASSUME NEW t \in Tasks, ReadSlot(t) PROVE Balance'
  <2>1. tokens' = tokens /\ used' = used /\ lost' = lost
    BY <1>16 DEF ReadSlot
  <2>2. Scanning' = Scanning /\ Deleting' = Deleting
    BY <1>16 DEF ReadSlot, Scanning, Deleting, Shape
  <2>3. QED
    BY <2>1, <2>2, BalanceKept
<1>17. ASSUME NEW t \in Tasks, AddFree(t) PROVE Balance'
  <2>1. /\ used' = used /\ lost' = lost /\ Scanning' = Scanning
    BY <1>17 DEF AddFree, Scanning
  <2>2. CASE file[t] \in Channels
    <3>1. tokens < NChannels
      BY <1>17, <2>2, TokenFits DEF AddFree
    <3>2. tokens' = tokens + 1
      BY <1>17, <2>2, <3>1 DEF AddFree
    <3>3. t \notin Deleting /\ Deleting' = Deleting \cup {t}
      BY <1>17, <2>2 DEF AddFree, Deleting
    <3>4. Cardinality(Deleting') = Cardinality(Deleting) + 1
      BY <3>3, FS_AddElement, CountsAreFinite
    <3>5. /\ Cardinality(used') = Cardinality(used) /\ lost' = lost
          /\ Cardinality(Scanning') = Cardinality(Scanning)
      BY <2>1
    <3>6. tokens + Cardinality(used) + lost + Cardinality(Scanning)
            = NChannels + Cardinality(Deleting)
      BY DEF Balance
    <3>7. tokens' + Cardinality(used') + lost' + Cardinality(Scanning')
            = NChannels + Cardinality(Deleting')
      BY SMTT(30), <1>0, <3>2, <3>4, <3>5, <3>6
    <3>8. QED
      BY <3>7 DEF Balance
  <2>3. CASE file[t] \notin Channels
    <3>1. tokens' = tokens /\ Deleting' = Deleting
      BY <1>17, <2>3 DEF AddFree, Deleting
    <3>2. QED
      BY <2>1, <3>1, BalanceKept
  <2>4. QED
    BY <2>2, <2>3
<1>18. ASSUME NEW t \in Tasks, DeleteFile(t) PROVE Balance'
  <2>1. Scanning' = Scanning /\ tokens' = tokens /\ lost' = lost
    BY <1>18 DEF DeleteFile, After, Scanning
  <2>2. CASE file[t] \in Channels
    <3>1. /\ file[t] \in used /\ used' = used \ {file[t]}
          /\ t \in Deleting /\ Deleting' = Deleting \ {t}
      BY <1>18, <2>2, FilesDiffer DEF DeleteFile, After, Deleting
    <3>2. /\ Cardinality(used') = Cardinality(used) - 1
          /\ Cardinality(Deleting') = Cardinality(Deleting) - 1
      BY <3>1, FS_RemoveElement, CountsAreFinite
    <3> HIDE DEF PoolInv
    <3>3. QED
      BY <2>1, <3>1, <3>2, <1>0 DEF Balance
  <2>3. CASE file[t] \notin Channels
    <3>1. used' = used
      BY <1>18, <2>3, RemoveNothing DEF DeleteFile
    <3>2. Deleting' = Deleting
      BY <1>18, <2>3 DEF DeleteFile, After, Deleting
    <3>3. QED
      BY <2>1, <3>1, <3>2, BalanceKept
  <2>4. QED
    BY <2>2, <2>3
<1>19. ASSUME NEW t \in Tasks, ClearSlot(t) PROVE Balance'
  <2>1. tokens' = tokens /\ used' = used /\ lost' = lost
    BY <1>19 DEF ClearSlot, After
  <2>2. Scanning' = Scanning /\ Deleting' = Deleting
    BY <1>19 DEF ClearSlot, After, Scanning, Deleting, Shape
  <2>3. QED
    BY <2>1, <2>2, BalanceKept
<1>20. CASE UNCHANGED vars
  <2>1. Scanning' = Scanning /\ Deleting' = Deleting
    BY <1>20 DEF vars, Scanning, Deleting
  <2>2. QED
    BY <1>20, <2>1, BalanceKept DEF vars
<1>21. QED
  BY <1>1, <1>2, <1>3, <1>4, <1>5, <1>6, <1>7, <1>8, <1>9, <1>10, <1>11,
    <1>12, <1>13, <1>14, <1>15, <1>16, <1>17, <1>18, <1>19, <1>20
    DEF Next, Step


(* dma_free_ counts the free channels, give or take what is under way      *)
(* (dma_open_free, dma_close and dma_add_free of devices.cpp).             *)
THEOREM TokensCountChannelsCorrect == Spec => []TokensCountChannels
<1>1. Init => Balance
  <2> SUFFICES ASSUME Init PROVE Balance
    OBVIOUS
  <2>1. used = {} /\ Scanning = {} /\ Deleting = {} /\ tokens = NChannels /\ lost = 0
    BY DEF Init, Scanning, Deleting
  <2>2. QED
    BY <2>1, FS_EmptySet, PoolAssumption DEF Balance
<1>2. Balance => TokensCountChannels
  BY DEF Balance, TokensCountChannels, Scanning, Deleting
<1>3. QED
  BY InitInv, InvStep, <1>1, <1>2, BalanceStep, PTL DEF Spec

-----------------------------------------------------------------------------
(***************************************************************************)
(* The transfers.                                                          *)
(*                                                                         *)
(* TransferIsOwners looks at a channel from outside. That it is kept rests *)
(* on where the engine and the handler are (Phase), on whom a busy channel *)
(* works for (Serves) and what that task does meanwhile (Doing), and on    *)
(* what session_ has in its pointers when no transfer is pending, where    *)
(* the two layouts overlap (Bounces). None of them is kept alone.          *)
(***************************************************************************)

(* What a task does with its channel, and how far the engine is *)
DoesWork(t) ==
    /\ work[t] = "rest" <=> on[t] = None
    /\ work[t] # "rest" => pc[t] = "idle" /\ HasOpen(t, on[t])
    /\ work[t] = "programmed" =>
         /\ session[on[t]].client = t /\ ~Busy(on[t])
         /\ session[on[t]].is_loop => t \notin stopping
    /\ work[t] \in {"playing", "hungry", "holding"} =>
         Busy(on[t]) /\ session[on[t]].is_loop /\ t \notin stopping
    /\ t \in finished => work[t] = "waiting"
    /\ work[t] = "waiting" => (t \in finished <=> ~Busy(on[t]))
    /\ work[t] = "waiting" /\ Busy(on[t]) /\ session[on[t]].is_loop => t \in stopping

Doing == \A t \in Tasks : DoesWork(t)

(* A busy channel works for the task that session_ names. *)
ServesClient(c) ==
    /\ session[c].client \in Tasks
    /\ on[session[c].client] = c
    /\ work[session[c].client] \notin {"rest", "programmed"}

Serves == \A c \in Channels : Busy(c) => ServesClient(c)

(* A channel is in one place: in the engine, pending, or in the handler. *)
OnePlace(c) == /\ c \in engine => c \notin irq /\ isr # c
               /\ c \in irq => isr # c

(* The handler takes the branch that the channel's transfer calls for. *)
Phase ==
    /\ \A c \in Channels : OnePlace(c)
    /\ ipc \in {"loop", "advance", "give", "resume"} => session[isr].is_loop
    /\ ipc = "finish" => ~session[isr].is_loop
    /\ ipc \in {"advance", "give"} /\ last => session[isr].client \in stopping
    /\ ipc = "complete" /\ session[isr].is_loop => session[isr].client \in stopping

(* A transfer, not a loop, whose bounce buffers are not freed yet *)
Pending(c) ==
    /\ ~session[c].is_loop
    /\ \/ Busy(c) /\ ~(isr = c /\ ipc = "complete")
       \/ \E t \in Tasks : on[t] = c /\ work[t] = "programmed"

(* What the pointers of session_ hold then, and at all other times *)
Pointing(c) ==
    LET s == session[c] IN
    /\ ~Pending(c) => {s.alloc, s.src, s.dest} \subseteq {None, Foreign} /\ ~s.len
    /\ Pending(c) /\ s.narrow => /\ s.alloc = <<s.client, "dest">>
                                 /\ {s.src, s.dest} \subseteq {None, Foreign}
                                 /\ ~s.len
    /\ Pending(c) /\ ~s.narrow => /\ s.alloc = None
                                  /\ s.src \in {None, Foreign, <<s.client, "src">>}
                                  /\ s.dest \in {None, Foreign, <<s.client, "dest">>}
                                  /\ s.len <=> s.dest = <<s.client, "dest">>

Bounces == \A c \in Channels : Pointing(c)

Allocated == blocks = {b \in Blocks : \E c \in Channels : b \in BouncesOf(c)}

(* Data that goes through no bounce buffer has arrived when the block is   *)
(* moved, other data when the handler has copied it.                       *)
Arrived ==
    /\ \A c \in Channels :
         LET s == session[c] IN
         ~s.is_loop /\ ~s.narrow /\ ~s.len /\ (c \in irq \/ isr = c) => s.client \in fresh
    /\ ipc = "complete" /\ ~session[isr].is_loop => session[isr].client \in fresh
    /\ \A t \in Tasks : Told(t) /\ ~session[on[t]].is_loop => t \in fresh

(* Driver and stream agree about the buffer in use, except while the       *)
(* handler is between them.                                                *)
AgreesWith(t, c) ==
    /\ work[t] = "programmed" /\ session[c].is_loop => session[c].next = inUse[t]
    /\ work[t] \notin {"rest", "programmed"} /\ session[c].is_loop =>
         /\ c \in engine \cup irq \/ (isr = c /\ ipc \in {"loop", "resume"}) =>
              session[c].next = inUse[t]
         /\ isr = c /\ ipc = "advance" /\ ~last => session[c].next = 1 - inUse[t]
         /\ isr = c /\ ipc = "give" /\ ~last => session[c].next = inUse[t]
    /\ work[t] = "hungry" /\ nextFree[t] # inUse[t] =>
         stages[t] > 0 \/ (isr = c /\ ipc = "give")

InStep == \A t \in Tasks : AgreesWith(t, on[t])

(* What holds whatever the destinations of a loop, and what holds as long  *)
(* as no loop has four of them                                             *)
DriverInv == PoolInv /\ DriverTypeOK /\ Doing /\ Serves /\ Phase /\ InStep
BounceInv == Bounces /\ Allocated /\ Arrived
TransferInv == DriverInv /\ BounceInv

-----------------------------------------------------------------------------
(* What the three actions that program a channel have in common: s is the  *)
(* session they leave.                                                     *)
Programs(t, c, s) ==
    /\ Working(t, "rest") /\ HasOpen(t, c) /\ Turn(t, "programmed")
    /\ on' = [on EXCEPT ![t] = c]
    /\ finished' = finished \ {t}
    /\ session' = [session EXCEPT ![c] = s] /\ s.client = t
    /\ s.is_loop =>
         /\ s.next = 0 /\ inUse' = [inUse EXCEPT ![t] = 0]
         /\ nextFree' = [nextFree EXCEPT ![t] = 0]
         /\ stages' = [stages EXCEPT ![t] = 0]
         /\ stopping' = stopping \ {t}
         /\ UNCHANGED fresh
    /\ ~s.is_loop =>
         /\ UNCHANGED <<inUse, nextFree, stages, stopping>>
         /\ fresh' = fresh \ {t}
    /\ blocks' \in SUBSET Blocks
    /\ UNCHANGED <<vars, engine, irq, isr, ipc, last>>

(* What they do to the pointers of the session o and to the bounce buffers *)
Points(t, o, s) ==
    /\ s.is_loop =>
         /\ {s.alloc, s.src, s.dest} \subseteq {o.alloc, o.src, o.dest, Foreign}
         /\ 4 \notin LoopDests => s.len = o.len
         /\ blocks' = blocks
    /\ ~s.is_loop /\ s.narrow =>
         /\ s.alloc = <<t, "dest">> /\ s.src = o.src /\ s.dest = o.dest /\ s.len = o.len
         /\ blocks' = blocks \cup {<<t, "dest">>}
    /\ ~s.is_loop /\ ~s.narrow =>
         /\ s.alloc = None
         /\ s.src \in {o.src, <<t, "src">>}
         /\ \/ s.dest = o.dest /\ s.len = o.len
            \/ s.dest = <<t, "dest">> /\ s.len = TRUE
         /\ {o.src, o.dest} \subseteq {None, Foreign} =>
              blocks' = blocks \cup {b \in {t} \X {"src", "dest"} : b \in {s.src, s.dest}}

(* What the two ends of a transfer have in common *)
Finishes(s) ==
    /\ ipc = "finish" /\ ~fatal
    /\ session' = [session EXCEPT ![isr] = s]
    /\ s.is_loop = session[isr].is_loop /\ s.client = session[isr].client
    /\ s.narrow = session[isr].narrow /\ s.next = session[isr].next
    /\ ipc' = "complete"
    /\ blocks' \subseteq blocks
    /\ fresh' \in {fresh, fresh \cup {session[isr].client}}
    /\ UNCHANGED <<vars, on, work, finished, stopping, inUse, nextFree, stages,
                   engine, irq, isr, last>>

Frees(o, s) ==
    /\ o.narrow =>
         /\ s.alloc = None /\ s.src = o.src /\ s.dest = o.dest /\ s.len = o.len
         /\ blocks' = blocks \ {o.alloc}
         /\ fresh' = fresh \cup {o.client}
    /\ ~o.narrow =>
         /\ s.alloc = o.alloc /\ s.src = None /\ ~s.len
         /\ s.dest = IF o.len THEN None ELSE o.dest
         /\ blocks' = blocks \ ({o.src} \cup IF o.len THEN {o.dest} ELSE {})
         /\ fresh' = IF o.len /\ o.dest \in blocks THEN fresh \cup {o.client} ELSE fresh

-----------------------------------------------------------------------------

(* A narrow transfer programs the channel for the task.                    *)
LEMMA NarrowPrograms ==
    ASSUME DriverTypeOK, NEW t \in Tasks, NEW c \in Channels, ProgramNarrow(t, c)
    PROVE  \E s \in Sessions : Programs(t, c, s) /\ Points(t, session[c], s)
<1> DEFINE s == session'[c]
<1>1. /\ s = [session[c] EXCEPT !.is_loop = FALSE, !.client = t, !.narrow = TRUE,
                               !.alloc = <<t, "dest">>]
      /\ session' = [session EXCEPT ![c] = s]
  BY DEF ProgramNarrow, DriverTypeOK
<1>2. session[c] \in Sessions
  BY DEF DriverTypeOK
<1>3. /\ s \in Sessions /\ s.is_loop = FALSE /\ s.client = t /\ s.narrow = TRUE
      /\ s.alloc = <<t, "dest">> /\ s.src = session[c].src
      /\ s.dest = session[c].dest /\ s.len = session[c].len
  <2> HIDE DEF s
  <2>1. <<t, "dest">> \in Pointers
    BY DEF Pointers, Blocks
  <2>2. QED
    BY <1>1, <1>2, <2>1 DEF Sessions
<1> HIDE DEF s
<1>4. Programs(t, c, s)
  <2>1. blocks' \in SUBSET Blocks
    BY DEF ProgramNarrow, DriverTypeOK, Blocks
  <2>2. QED
    BY <1>1, <1>3, <2>1 DEF Programs, ProgramNarrow
<1>5. Points(t, session[c], s)
  BY <1>3 DEF Points, ProgramNarrow
<1>6. QED
  BY <1>3, <1>4, <1>5

(* So does a wide one, whichever of its ends are cached.                   *)
LEMMA WidePrograms ==
    ASSUME DriverTypeOK, NEW t \in Tasks, NEW c \in Channels, ProgramWide(t, c)
    PROVE  \E s \in Sessions : Programs(t, c, s) /\ Points(t, session[c], s)
<1> DEFINE s == session'[c]
<1>1. PICK cached \in SUBSET {"src", "dest"} :
        /\ session' = [session EXCEPT ![c] =
             [session[c] EXCEPT !.is_loop = FALSE, !.client = t, !.narrow = FALSE,
                       !.alloc = None,
                       !.src = IF "src" \in cached THEN <<t, "src">> ELSE session[c].src,
                       !.dest = IF "dest" \in cached THEN <<t, "dest">> ELSE session[c].dest,
                       !.len = ("dest" \in cached) \/ session[c].len,
                       !.buffer = IF "dest" \in cached THEN Foreign ELSE session[c].buffer]]
        /\ blocks' = blocks \cup ({t} \X cached)
  BY DEF ProgramWide
<1>2. session[c] \in Sessions
  BY DEF DriverTypeOK
<1>3. /\ session' = [session EXCEPT ![c] = s]
      /\ s \in Sessions /\ s.is_loop = FALSE /\ s.client = t /\ s.narrow = FALSE
      /\ s.alloc = None
      /\ s.src = IF "src" \in cached THEN <<t, "src">> ELSE session[c].src
      /\ s.dest = IF "dest" \in cached THEN <<t, "dest">> ELSE session[c].dest
      /\ s.len = (("dest" \in cached) \/ session[c].len)
  <2>1. <<t, "dest">> \in Pointers /\ <<t, "src">> \in Pointers /\ None \in Pointers
    BY DEF Pointers, Blocks
  <2>2. session[c].len \in BOOLEAN
    BY <1>2 DEF Sessions
  <2>3. QED
    BY <1>1, <1>2, <2>1, <2>2 DEF Sessions, DriverTypeOK
<1> HIDE DEF s
<1>4. Programs(t, c, s)
  BY <1>1, <1>3 DEF Programs, ProgramWide, DriverTypeOK, Blocks
<1>5. Points(t, session[c], s)
  <2>1. /\ s.src \in {session[c].src, <<t, "src">>}
        /\ \/ s.dest = session[c].dest /\ s.len = session[c].len
           \/ s.dest = <<t, "dest">> /\ s.len = TRUE
    <3>1. "dest" \in cached => s.len = TRUE
      BY <1>3
    <3>2. "dest" \notin cached => s.len = session[c].len
      BY <1>2, <1>3 DEF Sessions
    <3>3. QED
      BY <1>3, <3>1, <3>2
  <2>2. ASSUME {session[c].src, session[c].dest} \subseteq {None, Foreign}
        PROVE  blocks' = blocks \cup {b \in {t} \X {"src", "dest"} : b \in {s.src, s.dest}}
    <3>1. "src" \in cached <=> s.src = <<t, "src">>
      BY <1>3, <2>2, DmaAssumption DEF Blocks
    <3>2. "dest" \in cached <=> s.dest = <<t, "dest">>
      BY <1>3, <2>2, DmaAssumption DEF Blocks
    <3>3. s.src # <<t, "dest">> /\ s.dest # <<t, "src">>
      BY <1>3, <2>2, DmaAssumption DEF Blocks
    <3>4. QED
      BY <1>1, <3>1, <3>2, <3>3
  <2>3. QED
    BY <1>3, <2>1, <2>2 DEF Points
<1>6. QED
  BY <1>3, <1>4, <1>5

(* So does a loop, however many destinations it has.                       *)
LEMMA LoopPrograms ==
    ASSUME DriverTypeOK, NEW t \in Tasks, NEW c \in Channels, ProgramLoop(t, c)
    PROVE  \E s \in Sessions : Programs(t, c, s) /\ Points(t, session[c], s)
<1> DEFINE s == session'[c]
<1>1. PICK n \in LoopDests :
        session' = [session EXCEPT ![c] =
              [session[c] EXCEPT !.is_loop = TRUE, !.client = t, !.next = 0,
                        !.buffer = Foreign,
                        !.src = IF n > 1 THEN Foreign ELSE session[c].src,
                        !.dest = IF n > 2 THEN Foreign ELSE session[c].dest,
                        !.len = (n > 3) \/ session[c].len]]
  BY DEF ProgramLoop
<1>2. session[c] \in Sessions
  BY DEF DriverTypeOK
<1>3. /\ session' = [session EXCEPT ![c] = s]
      /\ s \in Sessions /\ s.is_loop = TRUE /\ s.client = t
      /\ s.alloc = session[c].alloc /\ s.next = 0
      /\ s.src = IF n > 1 THEN Foreign ELSE session[c].src
      /\ s.dest = IF n > 2 THEN Foreign ELSE session[c].dest
      /\ s.len = ((n > 3) \/ session[c].len)
  <2>1. Foreign \in Pointers
    BY DEF Pointers
  <2>2. session[c].len \in BOOLEAN /\ n \in 1 .. 4
    BY <1>2, DmaAssumption DEF Sessions
  <2>3. s = [session[c] EXCEPT !.is_loop = TRUE, !.client = t, !.next = 0,
                        !.buffer = Foreign,
                        !.src = IF n > 1 THEN Foreign ELSE session[c].src,
                        !.dest = IF n > 2 THEN Foreign ELSE session[c].dest,
                        !.len = (n > 3) \/ session[c].len]
    BY <1>1 DEF DriverTypeOK
  <2>4. session' = [session EXCEPT ![c] = s]
    BY <1>1, <2>3
  <2> HIDE DEF s
  <2>5. /\ s.is_loop = TRUE /\ s.client = t
        /\ s.alloc = session[c].alloc /\ s.next = 0
        /\ s.src = IF n > 1 THEN Foreign ELSE session[c].src
        /\ s.dest = IF n > 2 THEN Foreign ELSE session[c].dest
        /\ s.len = ((n > 3) \/ session[c].len)
    BY <1>2, <2>2, <2>3 DEF Sessions
  <2>6. s.len \in BOOLEAN /\ s.src \in Pointers /\ s.dest \in Pointers /\ s.next \in 0 .. 1
    BY <1>2, <2>1, <2>2, <2>5 DEF Sessions
  <2>7. s = [is_loop |-> s.is_loop, client |-> s.client, narrow |-> s.narrow,
             alloc |-> s.alloc, buffer |-> s.buffer, src |-> s.src,
             dest |-> s.dest, len |-> s.len, next |-> s.next]
    BY <1>2, <2>3 DEF Sessions
  <2>8. s \in Sessions
    <3>1. s.narrow \in BOOLEAN /\ s.alloc \in Pointers /\ s.buffer = Foreign
      BY <1>2, <2>3 DEF Sessions
    <3>2. s.is_loop \in BOOLEAN /\ s.client \in Tasks
      BY <2>5
    <3>3. QED
      BY ONLY <2>6, <2>7, <3>1, <3>2 DEF Sessions
  <2>9. QED
    BY <2>4, <2>5, <2>8
<1> HIDE DEF s
<1>4. Programs(t, c, s)
  BY <1>1, <1>3 DEF Programs, ProgramLoop, DriverTypeOK
<1>5. Points(t, session[c], s)
  <2>1. 4 \notin LoopDests => s.len = session[c].len
    <3>1. 4 \notin LoopDests => ~(n > 3)
      BY DmaAssumption
    <3>2. QED
      BY <1>2, <1>3, <3>1 DEF Sessions
  <2>2. QED
    BY <1>3, <2>1 DEF Points, ProgramLoop
<1>6. QED
  BY <1>3, <1>4, <1>5

(* Both ends of a transfer free its bounce buffers and nothing else.       *)
LEMMA FinishFrees ==
    ASSUME DriverTypeOK, FinishNarrow \/ FinishWide
    PROVE  \E s \in Sessions : Finishes(s) /\ Frees(session[isr], s)
<1> DEFINE s == session'[isr]
<1>1. isr \in Channels /\ session[isr] \in Sessions
  BY DEF DriverTypeOK, FinishNarrow, FinishWide
<1>2. None \in Pointers
  BY DEF Pointers
<1>3. CASE FinishNarrow
  <2>1. /\ session' = [session EXCEPT ![isr] = s]
        /\ s \in Sessions /\ s.is_loop = session[isr].is_loop
        /\ s.client = session[isr].client /\ s.narrow = session[isr].narrow
        /\ s.next = session[isr].next /\ s.alloc = None /\ s.src = session[isr].src
        /\ s.dest = session[isr].dest /\ s.len = session[isr].len
    BY <1>1, <1>2, <1>3 DEF FinishNarrow, Sessions, DriverTypeOK
  <2> HIDE DEF s
  <2>2. Finishes(s) /\ Frees(session[isr], s)
    BY <1>3, <2>1 DEF FinishNarrow, Finishes, Frees
  <2>3. QED
    BY <2>1, <2>2
<1>4. CASE FinishWide
  <2>1. /\ session' = [session EXCEPT ![isr] = s]
        /\ s \in Sessions /\ s.is_loop = session[isr].is_loop
        /\ s.client = session[isr].client /\ s.narrow = session[isr].narrow
        /\ s.next = session[isr].next /\ s.alloc = session[isr].alloc /\ s.src = None
        /\ s.dest = IF session[isr].len THEN None ELSE session[isr].dest
        /\ ~s.len
    BY <1>1, <1>2, <1>4 DEF FinishWide, Sessions, DriverTypeOK
  <2> HIDE DEF s
  <2>2. Finishes(s) /\ Frees(session[isr], s)
    BY <1>4, <2>1 DEF FinishWide, Finishes, Frees
  <2>3. QED
    BY <2>1, <2>2
<1>5. QED
  BY <1>3, <1>4

(* The three in one                                                        *)
LEMMA Programming ==
    ASSUME DriverTypeOK, NEW t \in Tasks, NEW c \in Channels,
           ProgramNarrow(t, c) \/ ProgramWide(t, c) \/ ProgramLoop(t, c)
    PROVE  \E s \in Sessions : Programs(t, c, s) /\ Points(t, session[c], s)
  BY NarrowPrograms, WidePrograms, LoopPrograms

-----------------------------------------------------------------------------
(* A system that starts has its pool at its start.                         *)
LEMMA PoolInit == DmaInit => Init
  BY DEF DmaInit

(* A step of a transfer is a step of the pool or leaves it as it is.       *)
LEMMA PoolNext == [DmaNext]_allVars => [Next]_vars
<1> SUFFICES ASSUME DmaNext PROVE [Next]_vars
  BY DEF allVars
<1>1. ASSUME NEW t \in Tasks, PoolCall(t) \/ PoolClose(t) \/ PoolStep(t) PROVE Next
  BY <1>1 DEF PoolCall, PoolClose, PoolStep, Next
<1>2. ASSUME NEW t \in Tasks, Program(t) PROVE UNCHANGED vars
  BY <1>2 DEF Program, ProgramNarrow, ProgramWide, ProgramLoop, TransmitNothing
<1>3. ASSUME NEW t \in Tasks, Proceed(t) \/ GetBuffer(t) \/ Stop(t) PROVE UNCHANGED vars
  BY <1>3 DEF Proceed, Enable, Completed, TakeStage, ReleaseBuffer, GetBuffer, Stop
<1>4. ASSUME NEW c \in Channels, BlockDone(c) PROVE UNCHANGED vars
  BY <1>4 DEF BlockDone
<1>5. ASSUME Handler PROVE UNCHANGED vars
  BY <1>5 DEF Handler, Claim, IsrLoop, StageAdvance, StageGive, Resume,
    FinishNarrow, FinishWide, Complete
<1>6. QED
  BY <1>1, <1>2, <1>3, <1>4, <1>5 DEF DmaNext

(* The transfers refine the pool: what holds of every behaviour of the     *)
(* pool holds while its channels are used.                                 *)
THEOREM DmaImplementsPool == DmaSpec => Spec
  BY PoolInit, PoolNext, PTL DEF DmaSpec, Spec

(* So its handles stay apart and its tokens count its channels.            *)
THEOREM DmaHandlesCorrect == DmaSpec => [](HandlesAreOwned /\ TokensCountChannels)
  BY DmaImplementsPool, HandlesAreOwnedCorrect, TokensCountChannelsCorrect, PTL

-----------------------------------------------------------------------------
(* At most one task has a channel open. *)
LEMMA OneOpener ==
    ASSUME PoolInv, NEW t \in Tasks, NEW u \in Tasks, NEW c \in Channels,
           HasOpen(t, c), HasOpen(u, c)
    PROVE  t = u
<1>1. PICK o \in open[t] : o[2] = c
  BY DEF HasOpen
<1>2. PICK p \in open[u] : p[2] = c
  BY DEF HasOpen
<1>3. o \in Handles \X Files /\ p \in Handles \X Files
  BY <1>1, <1>2 DEF PoolInv, TypeOK
<1>4. slot[o[1]] = c /\ slot[p[1]] = c
  BY <1>1, <1>2 DEF PoolInv, Table
<1>5. ~Dangling(o[1]) /\ ~Dangling(p[1])
  BY <1>1, <1>2, <1>3, PoolAssumption DEF PoolInv, Apart, Dangling
<1>6. o[1] = p[1]
  BY <1>3, <1>4, <1>5 DEF PoolInv, OneFile, Filed
<1>7. QED
  BY <1>1, <1>2, <1>6 DEF PoolInv, Apart

(* Nobody uses the channel of a task that rests. *)
LEMMA AtRest ==
    ASSUME PoolInv, DriverTypeOK, Doing, Serves,
           NEW t \in Tasks, work[t] = "rest", NEW c \in Channels, HasOpen(t, c)
    PROVE  /\ \A u \in Tasks : on[u] # c
           /\ c \notin engine /\ c \notin irq /\ isr # c
<1>1. ASSUME NEW u \in Tasks, on[u] = c PROVE FALSE
  <2>1. on[u] # None
    BY <1>1, PoolAssumption DEF Files
  <2>2. work[u] # "rest" /\ HasOpen(u, c)
    BY <1>1, <2>1 DEF Doing, DoesWork
  <2>3. QED
    BY <2>2, OneOpener
<1>2. QED
  BY <1>1 DEF Serves, ServesClient, Busy

(* A step of the pool does not touch a task that uses its channel. *)
LEMMA PoolKeeps ==
    ASSUME TypeOK, Doing,
           NEW t \in Tasks, PoolCall(t) \/ PoolClose(t) \/ PoolStep(t)
    PROVE  /\ UNCHANGED dmaVars
           /\ \A u \in Tasks : work[u] # "rest" => pc'[u] = pc[u] /\ open'[u] = open[u]
<1>1. UNCHANGED dmaVars /\ (work[t] = "rest" \/ pc[t] # "idle")
  <2>1. CASE PoolCall(t)
    BY <2>1 DEF PoolCall
  <2>2. CASE PoolClose(t)
    BY <2>2 DEF PoolClose
  <2>3. CASE PoolStep(t)
    BY <2>3 DEF PoolStep, Step, At, Acquire, AcquireTimesOut, Release, Take,
      ChannelDenied, ChannelOpened, NoChannel, NewFile, NewFileFails, CasTakes,
      CasMisses, TableFull, ReadSlot, AddFree, DeleteFile, ClearSlot
  <2>4. QED
    BY <2>1, <2>2, <2>3
<1>2. \A u \in Tasks : u # t => pc'[u] = pc[u] /\ open'[u] = open[u]
  <2> USE DEF TypeOK, Goto, Acquired
  <2>1. CASE PoolCall(t)
    BY <2>1 DEF PoolCall, DmaOpenFree, IoOpen
  <2>2. CASE PoolClose(t)
    BY <2>2 DEF PoolClose, Close
  <2>3. CASE PoolStep(t)
    BY <2>3 DEF PoolStep, Step, Acquire, AcquireTimesOut, Release, Take,
      ChannelDenied, ChannelOpened, NoChannel, NewFile, NewFileFails, CasTakes,
      CasMisses, TableFull, ReadSlot, AddFree, DeleteFile, ClearSlot
  <2>4. QED
    BY <2>1, <2>2, <2>3
<1>3. QED
  BY <1>1, <1>2 DEF Doing, DoesWork

(* Two tasks do not use one channel. *)
LEMMA OneWorker ==
    ASSUME PoolInv, DriverTypeOK, Doing,
           NEW t \in Tasks, NEW u \in Tasks, on[t] = on[u], on[t] # None
    PROVE  t = u
<1>1. on[t] \in Channels
  BY DEF DriverTypeOK
<1>2. HasOpen(t, on[t]) /\ HasOpen(u, on[u])
  BY DEF Doing, DoesWork
<1>3. QED
  BY <1>1, <1>2, OneOpener

-----------------------------------------------------------------------------
(* Every step keeps the types.                                             *)
LEMMA DmaTypeStep == DriverInv /\ [DmaNext]_allVars => DriverTypeOK'
<1> SUFFICES ASSUME DriverInv, [DmaNext]_allVars PROVE DriverTypeOK'
  OBVIOUS
<1> USE PoolAssumption, DmaAssumption DEF DriverInv, DriverTypeOK, Working,
  Turn, Works, dmaVars, clientVars, driverVars, At
<1>1. ASSUME NEW t \in Tasks, PoolCall(t) \/ PoolClose(t) \/ PoolStep(t)
      PROVE  DriverTypeOK'
  <2>1. /\ UNCHANGED dmaVars
        /\ \A u \in Tasks : work[u] # "rest" => pc'[u] = pc[u] /\ open'[u] = open[u]
    BY <1>1, PoolKeeps DEF PoolInv
  <2>2. QED
    BY <2>1 DEF Sessions, Serves, ServesClient, Busy, Files
<1>2. ASSUME NEW t \in Tasks, NEW c \in Channels, NEW s \in Sessions,
             Programs(t, c, s), Points(t, session[c], s)
      PROVE  DriverTypeOK'
  BY <1>2 DEF Programs, Sessions, Serves, ServesClient, Busy, Files
<1>3. ASSUME NEW t \in Tasks, NEW c \in Channels, TransmitNothing(t, c)
      PROVE  DriverTypeOK'
  BY <1>3 DEF TransmitNothing, Sessions, Serves, ServesClient, Busy, Files
<1>4. ASSUME NEW t \in Tasks, NEW c \in Channels, Enable(t, c)
      PROVE  DriverTypeOK'
  BY <1>4 DEF Enable, Sessions, Serves, ServesClient, Busy, Files
<1>5. ASSUME NEW t \in Tasks, Completed(t) PROVE DriverTypeOK'
  BY <1>5 DEF Completed, Sessions, Serves, ServesClient, Busy, Files
<1>6. ASSUME NEW t \in Tasks, TakeStage(t) PROVE DriverTypeOK'
  BY <1>6 DEF TakeStage, Sessions, Serves, ServesClient, Busy, Files
<1>7. ASSUME NEW t \in Tasks, ReleaseBuffer(t) PROVE DriverTypeOK'
  BY <1>7 DEF ReleaseBuffer, Sessions, Serves, ServesClient, Busy, Files
<1>8. ASSUME NEW t \in Tasks, GetBuffer(t) PROVE DriverTypeOK'
  BY <1>8 DEF GetBuffer, Sessions, Serves, ServesClient, Busy, Files
<1>9. ASSUME NEW t \in Tasks, Stop(t) PROVE DriverTypeOK'
  BY <1>9 DEF Stop, Sessions, Serves, ServesClient, Busy, Files
<1>10. ASSUME NEW c \in Channels, BlockDone(c) PROVE DriverTypeOK'
  BY <1>10 DEF BlockDone, Sessions, Serves, ServesClient, Busy, Files
<1>11. ASSUME NEW c \in Channels, Claim(c) PROVE DriverTypeOK'
  BY <1>11 DEF Claim, Sessions, Serves, ServesClient, Busy, Files
<1>12. CASE IsrLoop
  BY <1>12 DEF IsrLoop, Sessions, Serves, ServesClient, Busy, Files
<1>13. CASE StageAdvance
  BY <1>13 DEF StageAdvance, Sessions, Serves, ServesClient, Busy, Files
<1>14. CASE StageGive
  BY <1>14 DEF StageGive, Sessions, Serves, ServesClient, Busy, Files
<1>15. CASE Resume
  BY <1>15 DEF Resume, Sessions, Serves, ServesClient, Busy, Files
<1>16. ASSUME NEW s \in Sessions, Finishes(s), Frees(session[isr], s)
      PROVE  DriverTypeOK'
  BY <1>16 DEF Finishes, Sessions, Serves, ServesClient, Busy, Files
<1>17. CASE Complete
  BY <1>17 DEF Complete, Sessions, Serves, ServesClient, Busy, Files
<1>18. CASE UNCHANGED allVars
  BY <1>18 DEF allVars, Sessions, Serves, ServesClient, Busy, Files
<1>19. ASSUME NEW t \in Tasks, Program(t) PROVE DriverTypeOK'
  BY <1>19, <1>2, <1>3, Programming DEF Program
<1>20. ASSUME FinishNarrow \/ FinishWide PROVE DriverTypeOK'
  BY <1>20, <1>16, FinishFrees
<1>21. QED
  BY <1>1, <1>2, <1>3, <1>4, <1>5, <1>6, <1>7, <1>8, <1>9, <1>10, <1>11,
    <1>12, <1>13, <1>14, <1>15, <1>16, <1>17, <1>18, <1>19, <1>20
    DEF DmaNext, Proceed, Handler

(* Every step keeps what the tasks do with their channels.                 *)
LEMMA DoingStep == DriverInv /\ [DmaNext]_allVars => Doing'
<1> SUFFICES ASSUME DriverInv, [DmaNext]_allVars PROVE Doing'
  OBVIOUS
<1> USE PoolAssumption, DmaAssumption DEF DriverInv, DriverTypeOK, Working,
  Turn, Works, dmaVars, clientVars, driverVars, At
<1>1. ASSUME NEW t \in Tasks, PoolCall(t) \/ PoolClose(t) \/ PoolStep(t)
      PROVE  Doing'
  <2>1. /\ UNCHANGED dmaVars
        /\ \A u \in Tasks : work[u] # "rest" => pc'[u] = pc[u] /\ open'[u] = open[u]
    BY <1>1, PoolKeeps DEF PoolInv
  <2>2. QED
    BY <2>1 DEF Doing, DoesWork, Serves, ServesClient, Phase, OnePlace, Busy,
      Files, HasOpen, vars
<1>2. ASSUME NEW t \in Tasks, NEW c \in Channels, NEW s \in Sessions,
             Programs(t, c, s), Points(t, session[c], s)
      PROVE  Doing'
  <2>1. /\ \A u \in Tasks : on[u] # c
        /\ c \notin engine /\ c \notin irq /\ isr # c
    BY <1>2, AtRest DEF Programs
  <2>2. stopping' \in {stopping, stopping \ {t}}
    BY <1>2 DEF Programs
  <2>3. \A u \in Tasks : u # t => DoesWork(u)'
    BY <1>2, <2>1, <2>2 DEF Programs, Doing, DoesWork, Busy, HasOpen, Files, vars
  <2>4. DoesWork(t)'
    BY <1>2, <2>1 DEF Programs, Doing, DoesWork, Busy, HasOpen, Files, vars
  <2>5. QED
    BY <2>3, <2>4 DEF Doing
<1>3. ASSUME NEW t \in Tasks, NEW c \in Channels, TransmitNothing(t, c)
      PROVE  Doing'
  <2>1. /\ \A u \in Tasks : on[u] # c
        /\ c \notin engine /\ c \notin irq /\ isr # c
    BY <1>3, AtRest DEF TransmitNothing
  <2>3. \A u \in Tasks : u # t => DoesWork(u)'
    BY <1>3, <2>1 DEF TransmitNothing, Doing, DoesWork, Busy, HasOpen, Files, vars
  <2>4. DoesWork(t)'
    BY <1>3, <2>1 DEF TransmitNothing, Doing, DoesWork, Busy, HasOpen, Files, vars
  <2>5. QED
    BY <2>3, <2>4 DEF Doing
<1>4. ASSUME NEW t \in Tasks, NEW c \in Channels, Enable(t, c) PROVE Doing'
  <2>1. on[t] = c /\ c # None /\ \A u \in Tasks : on[u] = c => u = t
    BY <1>4, OneWorker DEF Enable, Files
  <2>3. \A u \in Tasks : u # t => DoesWork(u)'
    BY <1>4, <2>1 DEF Enable, Doing, DoesWork, Busy, HasOpen, Files, vars
  <2>4. DoesWork(t)'
    BY <1>4, <2>1 DEF Enable, Doing, DoesWork, Busy, HasOpen, Files, vars
  <2>5. QED
    BY <2>3, <2>4 DEF Doing
<1>5. ASSUME NEW t \in Tasks, Completed(t) PROVE Doing'
  BY <1>5 DEF Completed, Doing, DoesWork, Serves, ServesClient, Phase,
    OnePlace, Busy, Files, HasOpen, vars
<1>6. ASSUME NEW t \in Tasks, TakeStage(t) PROVE Doing'
  BY <1>6 DEF TakeStage, Doing, DoesWork, Serves, ServesClient, Phase,
    OnePlace, Busy, Files, HasOpen, vars
<1>7. ASSUME NEW t \in Tasks, ReleaseBuffer(t) PROVE Doing'
  BY <1>7 DEF ReleaseBuffer, Doing, DoesWork, Serves, ServesClient, Phase,
    OnePlace, Busy, Files, HasOpen, vars
<1>8. ASSUME NEW t \in Tasks, GetBuffer(t) PROVE Doing'
  BY <1>8 DEF GetBuffer, Doing, DoesWork, Serves, ServesClient, Phase,
    OnePlace, Busy, Files, HasOpen, vars
<1>9. ASSUME NEW t \in Tasks, Stop(t) PROVE Doing'
  BY <1>9 DEF Stop, Doing, DoesWork, Serves, ServesClient, Phase, OnePlace,
    Busy, Files, HasOpen, vars
<1>10. ASSUME NEW c \in Channels, BlockDone(c) PROVE Doing'
  BY <1>10 DEF BlockDone, Doing, DoesWork, Serves, ServesClient, Phase,
    OnePlace, Busy, Files, HasOpen, vars
<1>11. ASSUME NEW c \in Channels, Claim(c) PROVE Doing'
  BY <1>11 DEF Claim, Doing, DoesWork, Serves, ServesClient, Phase, OnePlace,
    Busy, Files, HasOpen, vars
<1>12. CASE IsrLoop
  BY <1>12 DEF IsrLoop, Doing, DoesWork, Serves, ServesClient, Phase,
    OnePlace, Busy, Files, HasOpen, vars
<1>13. CASE StageAdvance
  BY <1>13 DEF StageAdvance, Doing, DoesWork, Serves, ServesClient, Phase,
    OnePlace, Busy, Files, HasOpen, vars
<1>14. CASE StageGive
  BY <1>14 DEF StageGive, Doing, DoesWork, Serves, ServesClient, Phase,
    OnePlace, Busy, Files, HasOpen, vars
<1>15. CASE Resume
  BY <1>15 DEF Resume, Doing, DoesWork, Serves, ServesClient, Phase,
    OnePlace, Busy, Files, HasOpen, vars
<1>16. ASSUME NEW s \in Sessions, Finishes(s), Frees(session[isr], s)
      PROVE  Doing'
  BY <1>16 DEF Finishes, Doing, DoesWork, Serves, ServesClient, Phase,
    OnePlace, Busy, Files, HasOpen, vars
<1>17. CASE Complete
  <2>1. isr \in Channels /\ isr # None
    BY <1>17 DEF Complete, Files
  <2>2. PICK t \in Tasks :
          /\ session[isr].client = t /\ on[t] = isr
          /\ work[t] \notin {"rest", "programmed"}
          /\ \A u \in Tasks : on[u] = isr => u = t
    BY <1>17, <2>1, OneWorker DEF Serves, ServesClient, Busy
  <2>3. \A u \in Tasks : u # t => DoesWork(u)'
    BY <1>17, <2>1, <2>2 DEF Complete, Doing, DoesWork, Busy, HasOpen, Files, vars
  <2>4. DoesWork(t)'
    BY <1>17, <2>1, <2>2 DEF Complete, Doing, DoesWork, ServesClient, Phase,
      OnePlace, Busy, HasOpen, Files, vars
  <2>5. QED
    BY <2>3, <2>4 DEF Doing
<1>18. CASE UNCHANGED allVars
  BY <1>18 DEF allVars, Doing, DoesWork, Serves, ServesClient, Phase,
    OnePlace, Busy, Files, HasOpen, vars
<1>19. ASSUME NEW t \in Tasks, Program(t) PROVE Doing'
  BY <1>19, <1>2, <1>3, Programming DEF Program
<1>20. ASSUME FinishNarrow \/ FinishWide PROVE Doing'
  BY <1>20, <1>16, FinishFrees
<1>21. QED
  BY <1>1, <1>2, <1>3, <1>4, <1>5, <1>6, <1>7, <1>8, <1>9, <1>10, <1>11,
    <1>12, <1>13, <1>14, <1>15, <1>16, <1>17, <1>18, <1>19, <1>20
    DEF DmaNext, Proceed, Handler

(* Every step keeps the channels that are busy with a task of theirs.      *)
LEMMA ServesStep == DriverInv /\ [DmaNext]_allVars => Serves'
<1> SUFFICES ASSUME DriverInv, [DmaNext]_allVars PROVE Serves'
  OBVIOUS
<1> USE PoolAssumption, DmaAssumption DEF DriverInv, DriverTypeOK, Working,
  Turn, Works, dmaVars, clientVars, driverVars, At
<1>1. ASSUME NEW t \in Tasks, PoolCall(t) \/ PoolClose(t) \/ PoolStep(t)
      PROVE  Serves'
  <2>1. /\ UNCHANGED dmaVars
        /\ \A u \in Tasks : work[u] # "rest" => pc'[u] = pc[u] /\ open'[u] = open[u]
    BY <1>1, PoolKeeps DEF PoolInv
  <2>2. QED
    BY <2>1 DEF Doing, DoesWork, Serves, ServesClient, Phase, OnePlace, Busy,
      Files
<1>2. ASSUME NEW t \in Tasks, NEW c \in Channels, NEW s \in Sessions,
             Programs(t, c, s), Points(t, session[c], s)
      PROVE  Serves'
  <2>1. /\ \A u \in Tasks : on[u] # c
        /\ c \notin engine /\ c \notin irq /\ isr # c
    BY <1>2, AtRest DEF Programs
  <2>2. ASSUME NEW d \in Channels, Busy(d)' PROVE ServesClient(d)'
    <3>1. Busy(d) /\ d # c
      BY <1>2, <2>1, <2>2 DEF Programs, Busy
    <3>2. session'[d] = session[d] /\ ServesClient(d)
      BY <1>2, <3>1 DEF Programs, Serves
    <3>3. session[d].client # t
      BY <1>2, <3>2 DEF Programs, ServesClient
    <3>4. QED
      BY <1>2, <3>2, <3>3 DEF Programs, ServesClient
  <2>3. QED
    BY <2>2 DEF Serves
<1>3. ASSUME NEW t \in Tasks, NEW c \in Channels, TransmitNothing(t, c)
      PROVE  Serves'
  BY <1>3 DEF TransmitNothing, Doing, DoesWork, Serves, ServesClient, Phase,
    OnePlace, Busy, Files
<1>4. ASSUME NEW t \in Tasks, NEW c \in Channels, Enable(t, c) PROVE Serves'
  BY <1>4 DEF Enable, Doing, DoesWork, Serves, ServesClient, Phase, OnePlace,
    Busy, Files
<1>5. ASSUME NEW t \in Tasks, Completed(t) PROVE Serves'
  BY <1>5 DEF Completed, Doing, DoesWork, Serves, ServesClient, Phase,
    OnePlace, Busy, Files
<1>6. ASSUME NEW t \in Tasks, TakeStage(t) PROVE Serves'
  BY <1>6 DEF TakeStage, Doing, DoesWork, Serves, ServesClient, Phase,
    OnePlace, Busy, Files
<1>7. ASSUME NEW t \in Tasks, ReleaseBuffer(t) PROVE Serves'
  BY <1>7 DEF ReleaseBuffer, Doing, DoesWork, Serves, ServesClient, Phase,
    OnePlace, Busy, Files
<1>8. ASSUME NEW t \in Tasks, GetBuffer(t) PROVE Serves'
  BY <1>8 DEF GetBuffer, Doing, DoesWork, Serves, ServesClient, Phase,
    OnePlace, Busy, Files
<1>9. ASSUME NEW t \in Tasks, Stop(t) PROVE Serves'
  BY <1>9 DEF Stop, Doing, DoesWork, Serves, ServesClient, Phase, OnePlace,
    Busy, Files
<1>10. ASSUME NEW c \in Channels, BlockDone(c) PROVE Serves'
  BY <1>10 DEF BlockDone, Doing, DoesWork, Serves, ServesClient, Phase,
    OnePlace, Busy, Files
<1>11. ASSUME NEW c \in Channels, Claim(c) PROVE Serves'
  BY <1>11 DEF Claim, Doing, DoesWork, Serves, ServesClient, Phase, OnePlace,
    Busy, Files
<1>12. CASE IsrLoop
  BY <1>12 DEF IsrLoop, Doing, DoesWork, Serves, ServesClient, Phase,
    OnePlace, Busy, Files
<1>13. CASE StageAdvance
  BY <1>13 DEF StageAdvance, Doing, DoesWork, Serves, ServesClient, Phase,
    OnePlace, Busy, Files
<1>14. CASE StageGive
  BY <1>14 DEF StageGive, Doing, DoesWork, Serves, ServesClient, Phase,
    OnePlace, Busy, Files
<1>15. CASE Resume
  BY <1>15 DEF Resume, Doing, DoesWork, Serves, ServesClient, Phase,
    OnePlace, Busy, Files
<1>16. ASSUME NEW s \in Sessions, Finishes(s), Frees(session[isr], s)
      PROVE  Serves'
  BY <1>16 DEF Finishes, Doing, DoesWork, Serves, ServesClient, Phase,
    OnePlace, Busy, Files
<1>17. CASE Complete
  BY <1>17 DEF Complete, Doing, DoesWork, Serves, ServesClient, Phase,
    OnePlace, Busy, Files
<1>18. CASE UNCHANGED allVars
  BY <1>18 DEF allVars, Doing, DoesWork, Serves, ServesClient, Phase,
    OnePlace, Busy, Files
<1>19. ASSUME NEW t \in Tasks, Program(t) PROVE Serves'
  BY <1>19, <1>2, <1>3, Programming DEF Program
<1>20. ASSUME FinishNarrow \/ FinishWide PROVE Serves'
  BY <1>20, <1>16, FinishFrees
<1>21. QED
  BY <1>1, <1>2, <1>3, <1>4, <1>5, <1>6, <1>7, <1>8, <1>9, <1>10, <1>11,
    <1>12, <1>13, <1>14, <1>15, <1>16, <1>17, <1>18, <1>19, <1>20
    DEF DmaNext, Proceed, Handler

(* Every step leaves a channel in one place and the handler in its branch. *)
LEMMA PhaseStep == DriverInv /\ [DmaNext]_allVars => Phase'
<1> SUFFICES ASSUME DriverInv, [DmaNext]_allVars PROVE Phase'
  OBVIOUS
<1> USE PoolAssumption, DmaAssumption DEF DriverInv, DriverTypeOK, Working,
  Turn, Works, dmaVars, clientVars, driverVars, At
<1>1. ASSUME NEW t \in Tasks, PoolCall(t) \/ PoolClose(t) \/ PoolStep(t)
      PROVE  Phase'
  <2>1. /\ UNCHANGED dmaVars
        /\ \A u \in Tasks : work[u] # "rest" => pc'[u] = pc[u] /\ open'[u] = open[u]
    BY <1>1, PoolKeeps DEF PoolInv
  <2>2. QED
    BY <2>1 DEF Doing, DoesWork, Serves, ServesClient, Phase, OnePlace, Busy,
      Files
<1>2. ASSUME NEW t \in Tasks, NEW c \in Channels, NEW s \in Sessions,
             Programs(t, c, s), Points(t, session[c], s)
      PROVE  Phase'
  <2>1. /\ \A u \in Tasks : on[u] # c
        /\ c \notin engine /\ c \notin irq /\ isr # c
    BY <1>2, AtRest DEF Programs
  <2>2. \A d \in Channels : OnePlace(d)'
    BY <1>2 DEF Programs, Phase, OnePlace
  <2>3. ASSUME ipc # "claim" PROVE session'[isr] = session[isr] /\ session[isr].client # t
    BY <1>2, <2>1, <2>3 DEF Programs, Serves, ServesClient, Busy
  <2>4. \A u \in Tasks : u # t => (u \in stopping' <=> u \in stopping)
    BY <1>2 DEF Programs
  <2>5. ipc # "claim" => session[isr].client \in Tasks
    BY DEF Serves, ServesClient, Busy
  <2>6. ipc' = ipc /\ isr' = isr /\ last' = last
    BY <1>2 DEF Programs
  <2>7. QED
    BY <2>2, <2>3, <2>4, <2>5, <2>6 DEF Phase
<1>3. ASSUME NEW t \in Tasks, NEW c \in Channels, TransmitNothing(t, c)
      PROVE  Phase'
  BY <1>3 DEF TransmitNothing, Doing, DoesWork, Serves, ServesClient, Phase,
    OnePlace, Busy, Files
<1>4. ASSUME NEW t \in Tasks, NEW c \in Channels, Enable(t, c) PROVE Phase'
  BY <1>4 DEF Enable, Doing, DoesWork, Serves, ServesClient, Phase, OnePlace,
    Busy, Files
<1>5. ASSUME NEW t \in Tasks, Completed(t) PROVE Phase'
  BY <1>5 DEF Completed, Doing, DoesWork, Serves, ServesClient, Phase,
    OnePlace, Busy, Files
<1>6. ASSUME NEW t \in Tasks, TakeStage(t) PROVE Phase'
  BY <1>6 DEF TakeStage, Doing, DoesWork, Serves, ServesClient, Phase,
    OnePlace, Busy, Files
<1>7. ASSUME NEW t \in Tasks, ReleaseBuffer(t) PROVE Phase'
  BY <1>7 DEF ReleaseBuffer, Doing, DoesWork, Serves, ServesClient, Phase,
    OnePlace, Busy, Files
<1>8. ASSUME NEW t \in Tasks, GetBuffer(t) PROVE Phase'
  BY <1>8 DEF GetBuffer, Doing, DoesWork, Serves, ServesClient, Phase,
    OnePlace, Busy, Files
<1>9. ASSUME NEW t \in Tasks, Stop(t) PROVE Phase'
  BY <1>9 DEF Stop, Doing, DoesWork, Serves, ServesClient, Phase, OnePlace,
    Busy, Files
<1>10. ASSUME NEW c \in Channels, BlockDone(c) PROVE Phase'
  BY <1>10 DEF BlockDone, Doing, DoesWork, Serves, ServesClient, Phase,
    OnePlace, Busy, Files
<1>11. ASSUME NEW c \in Channels, Claim(c) PROVE Phase'
  BY <1>11 DEF Claim, Doing, DoesWork, Serves, ServesClient, Phase, OnePlace,
    Busy, Files
<1>12. CASE IsrLoop
  <2>1. isr \in Channels /\ isr # None
    BY <1>12 DEF IsrLoop, Files
  <2>2. PICK t \in Tasks :
          /\ session[isr].client = t /\ on[t] = isr
          /\ work[t] \notin {"rest", "programmed"}
          /\ \A u \in Tasks : on[u] = isr => u = t
    BY <1>12, <2>1, OneWorker DEF Serves, ServesClient, Busy
  <2>3. session'[isr].client = session[isr].client /\ session'[isr].is_loop
    BY <1>12, <2>1 DEF IsrLoop, Phase
  <2>4. /\ ipc' = "advance" /\ isr' = isr /\ stopping' = stopping
        /\ last' => session[isr].client \in stopping
        /\ engine' = engine /\ irq' = irq
    BY <1>12 DEF IsrLoop
  <2>5. QED
    BY <2>3, <2>4 DEF Phase, OnePlace
<1>13. CASE StageAdvance
  BY <1>13 DEF StageAdvance, Doing, DoesWork, Serves, ServesClient, Phase,
    OnePlace, Busy, Files
<1>14. CASE StageGive
  BY <1>14 DEF StageGive, Doing, DoesWork, Serves, ServesClient, Phase,
    OnePlace, Busy, Files
<1>15. CASE Resume
  BY <1>15 DEF Resume, Doing, DoesWork, Serves, ServesClient, Phase,
    OnePlace, Busy, Files
<1>16. ASSUME NEW s \in Sessions, Finishes(s), Frees(session[isr], s)
      PROVE  Phase'
  BY <1>16 DEF Finishes, Doing, DoesWork, Serves, ServesClient, Phase,
    OnePlace, Busy, Files
<1>17. CASE Complete
  BY <1>17 DEF Complete, Doing, DoesWork, Serves, ServesClient, Phase,
    OnePlace, Busy, Files
<1>18. CASE UNCHANGED allVars
  BY <1>18 DEF allVars, Doing, DoesWork, Serves, ServesClient, Phase,
    OnePlace, Busy, Files
<1>19. ASSUME NEW t \in Tasks, Program(t) PROVE Phase'
  BY <1>19, <1>2, <1>3, Programming DEF Program
<1>20. ASSUME FinishNarrow \/ FinishWide PROVE Phase'
  BY <1>20, <1>16, FinishFrees
<1>21. QED
  BY <1>1, <1>2, <1>3, <1>4, <1>5, <1>6, <1>7, <1>8, <1>9, <1>10, <1>11,
    <1>12, <1>13, <1>14, <1>15, <1>16, <1>17, <1>18, <1>19, <1>20
    DEF DmaNext, Proceed, Handler

(* Every step keeps driver and stream in step.                             *)
LEMMA InStepStep == DriverInv /\ [DmaNext]_allVars => InStep'
<1> SUFFICES ASSUME DriverInv, [DmaNext]_allVars PROVE InStep'
  OBVIOUS
<1> USE PoolAssumption, DmaAssumption DEF DriverInv, DriverTypeOK, Working,
  Turn, Works, dmaVars, clientVars, driverVars, At
<1>1. ASSUME NEW t \in Tasks, PoolCall(t) \/ PoolClose(t) \/ PoolStep(t)
      PROVE  InStep'
  <2>1. /\ UNCHANGED dmaVars
        /\ \A u \in Tasks : work[u] # "rest" => pc'[u] = pc[u] /\ open'[u] = open[u]
    BY <1>1, PoolKeeps DEF PoolInv
  <2>2. QED
    BY <2>1 DEF InStep, AgreesWith, Doing, DoesWork, Serves, ServesClient,
      Phase, OnePlace, Busy, Files
<1>2. ASSUME NEW t \in Tasks, NEW c \in Channels, NEW s \in Sessions,
             Programs(t, c, s), Points(t, session[c], s)
      PROVE  InStep'
  <2>1. /\ \A u \in Tasks : on[u] # c
        /\ c \notin engine /\ c \notin irq /\ isr # c
    BY <1>2, AtRest DEF Programs
  <2>2. \A u \in Tasks : u # t => AgreesWith(u, on[u])'
    <3>1. \A u \in Tasks : u # t => /\ inUse'[u] = inUse[u] /\ nextFree'[u] = nextFree[u]
                                    /\ stages'[u] = stages[u]
      BY <1>2 DEF Programs
    <3>2. QED
      BY <1>2, <2>1, <3>1 DEF Programs, Doing, DoesWork, InStep, AgreesWith, Files
  <2>3. AgreesWith(t, on[t])'
    BY <1>2, <2>1 DEF Programs, InStep, AgreesWith
  <2>4. QED
    BY <2>2, <2>3 DEF InStep
<1>3. ASSUME NEW t \in Tasks, NEW c \in Channels, TransmitNothing(t, c)
      PROVE  InStep'
  <2>1. /\ \A u \in Tasks : on[u] # c
        /\ c \notin engine /\ c \notin irq /\ isr # c
    BY <1>3, AtRest DEF TransmitNothing
  <2>2. \A u \in Tasks : u # t => AgreesWith(u, on[u])'
    BY <1>3, <2>1 DEF TransmitNothing, InStep, AgreesWith, Files
  <2>3. AgreesWith(t, on[t])'
    BY <1>3, <2>1 DEF TransmitNothing, InStep, AgreesWith
  <2>4. QED
    BY <1>3, <2>2, <2>3 DEF TransmitNothing, InStep
<1>4. ASSUME NEW t \in Tasks, NEW c \in Channels, Enable(t, c) PROVE InStep'
  <2>1. on[t] = c /\ c # None /\ \A u \in Tasks : on[u] = c => u = t
    BY <1>4, OneWorker DEF Enable, Files
  <2>2. \A u \in Tasks : u # t => AgreesWith(u, on[u])'
    BY <1>4, <2>1 DEF Enable, InStep, AgreesWith
  <2>3. AgreesWith(t, on[t])'
    BY <1>4, <2>1 DEF Enable, Doing, DoesWork, Busy, InStep, AgreesWith
  <2>4. QED
    BY <1>4, <2>2, <2>3 DEF Enable, InStep
<1>5. ASSUME NEW t \in Tasks, Completed(t) PROVE InStep'
  BY <1>5 DEF Completed, InStep, AgreesWith, Doing, DoesWork, Serves,
    ServesClient, Phase, OnePlace, Busy, Files
<1>6. ASSUME NEW t \in Tasks, TakeStage(t) PROVE InStep'
  BY <1>6 DEF TakeStage, InStep, AgreesWith, Doing, DoesWork, Serves,
    ServesClient, Phase, OnePlace, Busy, Files
<1>7. ASSUME NEW t \in Tasks, ReleaseBuffer(t) PROVE InStep'
  BY <1>7 DEF ReleaseBuffer, InStep, AgreesWith, Doing, DoesWork, Serves,
    ServesClient, Phase, OnePlace, Busy, Files
<1>8. ASSUME NEW t \in Tasks, GetBuffer(t) PROVE InStep'
  BY <1>8 DEF GetBuffer, InStep, AgreesWith, Doing, DoesWork, Serves,
    ServesClient, Phase, OnePlace, Busy, Files
<1>9. ASSUME NEW t \in Tasks, Stop(t) PROVE InStep'
  BY <1>9 DEF Stop, InStep, AgreesWith, Doing, DoesWork, Serves,
    ServesClient, Phase, OnePlace, Busy, Files
<1>10. ASSUME NEW c \in Channels, BlockDone(c) PROVE InStep'
  BY <1>10 DEF BlockDone, InStep, AgreesWith, Doing, DoesWork, Serves,
    ServesClient, Phase, OnePlace, Busy, Files
<1>11. ASSUME NEW c \in Channels, Claim(c) PROVE InStep'
  BY <1>11 DEF Claim, InStep, AgreesWith, Doing, DoesWork, Serves,
    ServesClient, Phase, OnePlace, Busy, Files
<1>12. CASE IsrLoop
  BY <1>12 DEF IsrLoop, InStep, AgreesWith, Doing, DoesWork, Serves,
    ServesClient, Phase, OnePlace, Busy, Files
<1>13. CASE StageAdvance
  <2>1. isr \in Channels /\ isr # None
    BY <1>13 DEF StageAdvance, Files
  <2>2. PICK t \in Tasks :
          /\ session[isr].client = t /\ on[t] = isr
          /\ work[t] \notin {"rest", "programmed"}
          /\ \A u \in Tasks : on[u] = isr => u = t
    BY <1>13, <2>1, OneWorker DEF Serves, ServesClient, Busy
  <2>3. \A u \in Tasks : u # t => AgreesWith(u, on[u])'
    BY <1>13, <2>1, <2>2 DEF StageAdvance, ServesClient, InStep, AgreesWith
  <2>4. AgreesWith(t, on[t])'
    BY <1>13, <2>1, <2>2 DEF StageAdvance, ServesClient, Phase, OnePlace, InStep, AgreesWith
  <2>5. QED
    BY <1>13, <2>3, <2>4 DEF StageAdvance, InStep
<1>14. CASE StageGive
  <2>1. isr \in Channels /\ isr # None
    BY <1>14 DEF StageGive, Files
  <2>2. PICK t \in Tasks :
          /\ session[isr].client = t /\ on[t] = isr
          /\ work[t] \notin {"rest", "programmed"}
          /\ \A u \in Tasks : on[u] = isr => u = t
    BY <1>14, <2>1, OneWorker DEF Serves, ServesClient, Busy
  <2>3. \A u \in Tasks : u # t => AgreesWith(u, on[u])'
    BY <1>14, <2>1, <2>2 DEF StageGive, ServesClient, InStep, AgreesWith
  <2>4. AgreesWith(t, on[t])'
    <3>1. stages'[t] > 0
      BY <1>14, <2>2 DEF StageGive, ServesClient
    <3>2. QED
      BY <1>14, <2>1, <2>2, <3>1
         DEF StageGive, ServesClient, Phase, OnePlace, InStep, AgreesWith
  <2>5. QED
    BY <1>14, <2>3, <2>4 DEF StageGive, InStep
<1>15. CASE Resume
  BY <1>15 DEF Resume, InStep, AgreesWith, Doing, DoesWork, Serves,
    ServesClient, Phase, OnePlace, Busy, Files
<1>16. ASSUME NEW s \in Sessions, Finishes(s), Frees(session[isr], s)
      PROVE  InStep'
  BY <1>16 DEF Finishes, InStep, AgreesWith, Doing, DoesWork, Serves,
    ServesClient, Phase, OnePlace, Busy, Files
<1>17. CASE Complete
  BY <1>17 DEF Complete, InStep, AgreesWith, Doing, DoesWork, Serves,
    ServesClient, Phase, OnePlace, Busy, Files
<1>18. CASE UNCHANGED allVars
  BY <1>18 DEF allVars, InStep, AgreesWith, Doing, DoesWork, Serves,
    ServesClient, Phase, OnePlace, Busy, Files
<1>19. ASSUME NEW t \in Tasks, Program(t) PROVE InStep'
  BY <1>19, <1>2, <1>3, Programming DEF Program
<1>20. ASSUME FinishNarrow \/ FinishWide PROVE InStep'
  BY <1>20, <1>16, FinishFrees
<1>21. QED
  BY <1>1, <1>2, <1>3, <1>4, <1>5, <1>6, <1>7, <1>8, <1>9, <1>10, <1>11,
    <1>12, <1>13, <1>14, <1>15, <1>16, <1>17, <1>18, <1>19, <1>20
    DEF DmaNext, Proceed, Handler

-----------------------------------------------------------------------------
(* A channel whose transfer is pending belongs to the task that session_   *)
(* names.                                                                  *)
LEMMA PendingClient ==
    ASSUME DriverInv, NEW c \in Channels, Pending(c)
    PROVE  /\ session[c].client \in Tasks /\ on[session[c].client] = c
           /\ work[session[c].client] = "programmed" => ~Busy(c)
           /\ ~Told(session[c].client)
<1>1. CASE Busy(c)
  BY <1>1 DEF DriverInv, Serves, ServesClient, Doing, DoesWork, Told
<1>2. CASE ~Busy(c)
  <2>1. PICK t \in Tasks : on[t] = c /\ work[t] = "programmed"
    BY <1>2 DEF Pending
  <2>2. QED
    BY <1>2, <2>1 DEF DriverInv, Doing, DoesWork, Told
<1>3. QED
  BY <1>1, <1>2

(* Transfers that stay as they are keep their pointers. *)
LEMMA PointingKept ==
    ASSUME NEW c \in Channels, Pointing(c), session'[c].is_loop = session[c].is_loop,
           session'[c].client = session[c].client, session'[c].narrow = session[c].narrow,
           session'[c].alloc = session[c].alloc, session'[c].src = session[c].src,
           session'[c].dest = session[c].dest, session'[c].len = session[c].len,
           Pending(c)' <=> Pending(c)
    PROVE  Pointing(c)'
  BY DEF Pointing

(* No bounce buffer is in the pointers of two channels. *)
LEMMA BouncesDiffer ==
    ASSUME DriverInv, Bounces, NEW c \in Channels, NEW b \in Blocks, b \in BouncesOf(c)
    PROVE  /\ Pending(c) /\ b[1] = session[c].client /\ on[b[1]] = c
           /\ b = IF session[c].narrow THEN session[c].alloc
                  ELSE IF b[2] = "src" THEN session[c].src ELSE session[c].dest
           /\ b = session[c].dest => session[c].len
<1>1. Pending(c)
  BY DmaAssumption DEF Bounces, Pointing, BouncesOf
<1>2. QED
  BY <1>1, PendingClient, DmaAssumption DEF Bounces, Pointing, BouncesOf

(* Without a fourth destination no step leaves a pointer of one layout where *)
(* the other would take it for a bounce buffer.                            *)
LEMMA BouncesStep == TransferInv /\ 4 \notin LoopDests /\ [DmaNext]_allVars => Bounces'
<1> SUFFICES ASSUME TransferInv /\ 4 \notin LoopDests, [DmaNext]_allVars PROVE Bounces'
  OBVIOUS
<1> USE PoolAssumption, DmaAssumption DEF TransferInv, DriverInv,
  DriverTypeOK, Working, Turn, Works, dmaVars, clientVars, driverVars, At,
  BounceInv
<1>1. ASSUME NEW t \in Tasks, PoolCall(t) \/ PoolClose(t) \/ PoolStep(t)
      PROVE  Bounces'
  <2>1. /\ UNCHANGED dmaVars
        /\ \A u \in Tasks : work[u] # "rest" => pc'[u] = pc[u] /\ open'[u] = open[u]
    BY <1>1, PoolKeeps DEF PoolInv
  <2>2. QED
    BY <2>1 DEF Pointing, Bounces, Pending, Doing, DoesWork, Serves,
      ServesClient, Phase, OnePlace, Busy, Files
<1>2. ASSUME NEW t \in Tasks, NEW c \in Channels, NEW s \in Sessions,
             Programs(t, c, s), Points(t, session[c], s)
      PROVE  Bounces'
  <2>1. /\ \A u \in Tasks : on[u] # c
        /\ c \notin engine /\ c \notin irq /\ isr # c
    BY <1>2, AtRest DEF Programs
  <2>2. /\ ~Pending(c) /\ ~session[c].len
        /\ {session[c].alloc, session[c].src, session[c].dest} \subseteq {None, Foreign}
    BY <2>1 DEF Pending, Busy, Bounces, Pointing
  <2>3. ASSUME NEW d \in Channels, d # c PROVE Pointing(d)'
    <3>1. Pending(d)' <=> Pending(d)
      BY <1>2, <2>1, <2>3 DEF Programs, Pending, Busy, Doing, DoesWork, Files
    <3>2. QED
      BY <1>2, <2>3, <3>1, PointingKept DEF Programs, Bounces
  <2>4. Pointing(c)'
    <3>1. session'[c] = s /\ s.client = t
      BY <1>2 DEF Programs
    <3>2. <<t, "src">> \in Blocks /\ <<t, "dest">> \in Blocks
      BY DEF Blocks
    <3>3. CASE s.is_loop
      <4>1. ~Pending(c)'
        BY <3>1, <3>3 DEF Pending
      <4>2. QED
        BY <1>2, <2>2, <3>1, <3>3, <4>1 DEF Points, Pointing
    <3>4. CASE ~s.is_loop
      <4>1. Pending(c)'
        BY <1>2, <3>1, <3>4 DEF Programs, Pending
      <4>2. QED
        BY <1>2, <2>2, <3>1, <3>2, <3>4, <4>1 DEF Points, Pointing
    <3>5. QED
      BY <3>3, <3>4
  <2>5. QED
    BY <2>3, <2>4 DEF Bounces
<1>3. ASSUME NEW t \in Tasks, NEW c \in Channels, TransmitNothing(t, c)
      PROVE  Bounces'
  BY <1>3 DEF TransmitNothing, Pointing, Bounces, Pending, Doing, DoesWork,
    Serves, ServesClient, Phase, OnePlace, Busy, Files
<1>4. ASSUME NEW t \in Tasks, NEW c \in Channels, Enable(t, c) PROVE Bounces'
  BY <1>4 DEF Enable, Pointing, Bounces, Pending, Doing, DoesWork, Serves,
    ServesClient, Phase, OnePlace, Busy, Files
<1>5. ASSUME NEW t \in Tasks, Completed(t) PROVE Bounces'
  BY <1>5 DEF Completed, Pointing, Bounces, Pending, Doing, DoesWork, Serves,
    ServesClient, Phase, OnePlace, Busy, Files
<1>6. ASSUME NEW t \in Tasks, TakeStage(t) PROVE Bounces'
  BY <1>6 DEF TakeStage, Pointing, Bounces, Pending, Doing, DoesWork, Serves,
    ServesClient, Phase, OnePlace, Busy, Files
<1>7. ASSUME NEW t \in Tasks, ReleaseBuffer(t) PROVE Bounces'
  BY <1>7 DEF ReleaseBuffer, Pointing, Bounces, Pending, Doing, DoesWork,
    Serves, ServesClient, Phase, OnePlace, Busy, Files
<1>8. ASSUME NEW t \in Tasks, GetBuffer(t) PROVE Bounces'
  BY <1>8 DEF GetBuffer, Pointing, Bounces, Pending, Doing, DoesWork, Serves,
    ServesClient, Phase, OnePlace, Busy, Files
<1>9. ASSUME NEW t \in Tasks, Stop(t) PROVE Bounces'
  BY <1>9 DEF Stop, Pointing, Bounces, Pending, Doing, DoesWork, Serves,
    ServesClient, Phase, OnePlace, Busy, Files
<1>10. ASSUME NEW c \in Channels, BlockDone(c) PROVE Bounces'
  BY <1>10 DEF BlockDone, Pointing, Bounces, Pending, Doing, DoesWork,
    Serves, ServesClient, Phase, OnePlace, Busy, Files
<1>11. ASSUME NEW c \in Channels, Claim(c) PROVE Bounces'
  BY <1>11 DEF Claim, Pointing, Bounces, Pending, Doing, DoesWork, Serves,
    ServesClient, Phase, OnePlace, Busy, Files
<1>12. CASE IsrLoop
  BY <1>12 DEF IsrLoop, Pointing, Bounces, Pending, Doing, DoesWork, Serves,
    ServesClient, Phase, OnePlace, Busy, Files
<1>13. CASE StageAdvance
  BY <1>13 DEF StageAdvance, Pointing, Bounces, Pending, Doing, DoesWork,
    Serves, ServesClient, Phase, OnePlace, Busy, Files
<1>14. CASE StageGive
  BY <1>14 DEF StageGive, Pointing, Bounces, Pending, Doing, DoesWork,
    Serves, ServesClient, Phase, OnePlace, Busy, Files
<1>15. CASE Resume
  BY <1>15 DEF Resume, Pointing, Bounces, Pending, Doing, DoesWork, Serves,
    ServesClient, Phase, OnePlace, Busy, Files
<1>16. ASSUME NEW s \in Sessions, Finishes(s), Frees(session[isr], s)
      PROVE  Bounces'
  <2>1. isr \in Channels /\ isr # None
    BY <1>16 DEF Finishes, Files
  <2>2. Pending(isr) /\ ~Pending(isr)'
    <3>1. ~session[isr].is_loop /\ Busy(isr)
      BY <1>16 DEF Finishes, Phase, Busy
    <3>2. \A u \in Tasks : on[u] = isr => work[u] # "programmed"
      BY <3>1 DEF Doing, DoesWork
    <3>3. QED
      BY <1>16, <2>1, <3>1, <3>2 DEF Finishes, Pending
  <2>3. ASSUME NEW d \in Channels, d # isr PROVE Pointing(d)'
    <3>1. Pending(d)' <=> Pending(d)
      BY <1>16, <2>1, <2>3 DEF Finishes, Pending, Busy
    <3>2. QED
      BY <1>16, <2>3, <3>1, PointingKept DEF Finishes, Bounces
  <2>4. session'[isr] = s
    BY <1>16, <2>1 DEF Finishes
  <2>5. Pointing(isr)
    BY <2>1 DEF Bounces
  <2>6. {s.alloc, s.src, s.dest} \subseteq {None, Foreign} /\ ~s.len
    BY <1>16, <2>2, <2>5 DEF Frees, Pointing
  <2>7. ASSUME NEW d \in Channels, d = isr PROVE Pointing(d)'
    <3>1. session'[d] = s /\ ~Pending(d)'
      BY <1>16, <2>2, <2>4, <2>7 DEF Finishes
    <3>2. QED
      BY <2>6, <3>1 DEF Pointing
  <2>8. QED
    BY <2>3, <2>7 DEF Bounces
<1>17. CASE Complete
  BY <1>17 DEF Complete, Pointing, Bounces, Pending, Doing, DoesWork, Serves,
    ServesClient, Phase, OnePlace, Busy, Files
<1>18. CASE UNCHANGED allVars
  BY <1>18 DEF allVars, Pointing, Bounces, Pending, Doing, DoesWork, Serves,
    ServesClient, Phase, OnePlace, Busy, Files
<1>19. ASSUME NEW t \in Tasks, Program(t) PROVE Bounces'
  BY <1>19, <1>2, <1>3, Programming DEF Program
<1>20. ASSUME FinishNarrow \/ FinishWide PROVE Bounces'
  BY <1>20, <1>16, FinishFrees
<1>21. QED
  BY <1>1, <1>2, <1>3, <1>4, <1>5, <1>6, <1>7, <1>8, <1>9, <1>10, <1>11,
    <1>12, <1>13, <1>14, <1>15, <1>16, <1>17, <1>18, <1>19, <1>20
    DEF DmaNext, Proceed, Handler

(* Every step keeps the bounce buffers and the pointers to them together.  *)
LEMMA AllocatedStep == TransferInv /\ 4 \notin LoopDests /\ [DmaNext]_allVars => Allocated'
<1> SUFFICES ASSUME TransferInv /\ 4 \notin LoopDests, [DmaNext]_allVars PROVE Allocated'
  OBVIOUS
<1> USE PoolAssumption, DmaAssumption DEF TransferInv, DriverInv,
  DriverTypeOK, Working, Turn, Works, dmaVars, clientVars, driverVars, At,
  BounceInv
<1>1. ASSUME NEW t \in Tasks, PoolCall(t) \/ PoolClose(t) \/ PoolStep(t)
      PROVE  Allocated'
  <2>1. /\ UNCHANGED dmaVars
        /\ \A u \in Tasks : work[u] # "rest" => pc'[u] = pc[u] /\ open'[u] = open[u]
    BY <1>1, PoolKeeps DEF PoolInv
  <2>2. QED
    BY <2>1 DEF Allocated, BouncesOf
<1>2. ASSUME NEW t \in Tasks, NEW c \in Channels, NEW s \in Sessions,
             Programs(t, c, s), Points(t, session[c], s)
      PROVE  Allocated'
  <2>1. /\ \A u \in Tasks : on[u] # c
        /\ c \notin engine /\ c \notin irq /\ isr # c
    BY <1>2, AtRest DEF Programs
  <2>2. /\ ~Pending(c) /\ ~session[c].len
        /\ {session[c].alloc, session[c].src, session[c].dest} \subseteq {None, Foreign}
    BY <2>1 DEF Pending, Busy, Bounces, Pointing
  <2>3. \A d \in Channels : d # c => BouncesOf(d)' = BouncesOf(d)
    BY <1>2 DEF Programs, BouncesOf
  <2>4. BouncesOf(c) \cap Blocks = {}
    BY <2>2 DEF BouncesOf
  <2>5. BouncesOf(c)' = {s.alloc, s.src, s.dest}
    BY <1>2 DEF Programs, BouncesOf
  <2>6. blocks' = blocks \cup ({s.alloc, s.src, s.dest} \cap Blocks)
    <3>1. CASE s.is_loop
      BY <1>2, <2>2, <3>1 DEF Points
    <3>2. CASE ~s.is_loop /\ s.narrow
      BY <1>2, <2>2, <3>2 DEF Points, Blocks
    <3>3. CASE ~s.is_loop /\ ~s.narrow
      <4>1. blocks' = blocks \cup {b \in {t} \X {"src", "dest"} : b \in {s.src, s.dest}}
        BY <1>2, <2>2, <3>3 DEF Points
      <4>2. /\ s.alloc = None /\ s.src \in {None, Foreign, <<t, "src">>}
            /\ s.dest \in {None, Foreign, <<t, "dest">>}
        BY <1>2, <2>2, <3>3 DEF Points
      <4>3. {b \in {t} \X {"src", "dest"} : b \in {s.src, s.dest}}
              = {s.alloc, s.src, s.dest} \cap Blocks
        BY <4>2 DEF Blocks
      <4>4. QED
        BY <4>1, <4>3
    <3>4. QED
      BY <3>1, <3>2, <3>3
  <2>7. QED
    BY <2>3, <2>4, <2>5, <2>6 DEF Allocated
<1>3. ASSUME NEW t \in Tasks, NEW c \in Channels, TransmitNothing(t, c)
      PROVE  Allocated'
  BY <1>3 DEF TransmitNothing, Allocated, BouncesOf
<1>4. ASSUME NEW t \in Tasks, NEW c \in Channels, Enable(t, c) PROVE Allocated'
  BY <1>4 DEF Enable, Allocated, BouncesOf
<1>5. ASSUME NEW t \in Tasks, Completed(t) PROVE Allocated'
  BY <1>5 DEF Completed, Allocated, BouncesOf
<1>6. ASSUME NEW t \in Tasks, TakeStage(t) PROVE Allocated'
  BY <1>6 DEF TakeStage, Allocated, BouncesOf
<1>7. ASSUME NEW t \in Tasks, ReleaseBuffer(t) PROVE Allocated'
  BY <1>7 DEF ReleaseBuffer, Allocated, BouncesOf
<1>8. ASSUME NEW t \in Tasks, GetBuffer(t) PROVE Allocated'
  BY <1>8 DEF GetBuffer, Allocated, BouncesOf
<1>9. ASSUME NEW t \in Tasks, Stop(t) PROVE Allocated'
  BY <1>9 DEF Stop, Allocated, BouncesOf
<1>10. ASSUME NEW c \in Channels, BlockDone(c) PROVE Allocated'
  BY <1>10 DEF BlockDone, Allocated, BouncesOf
<1>11. ASSUME NEW c \in Channels, Claim(c) PROVE Allocated'
  BY <1>11 DEF Claim, Allocated, BouncesOf
<1>12. CASE IsrLoop
  BY <1>12 DEF IsrLoop, Allocated, BouncesOf
<1>13. CASE StageAdvance
  BY <1>13 DEF StageAdvance, Allocated, BouncesOf
<1>14. CASE StageGive
  BY <1>14 DEF StageGive, Allocated, BouncesOf
<1>15. CASE Resume
  BY <1>15 DEF Resume, Allocated, BouncesOf
<1>16. ASSUME NEW s \in Sessions, Finishes(s), Frees(session[isr], s)
      PROVE  Allocated'
  <2>1. isr \in Channels /\ isr # None
    BY <1>16 DEF Finishes, Files
  <2>2. Pending(isr) /\ ~Pending(isr)'
    <3>1. ~session[isr].is_loop /\ Busy(isr)
      BY <1>16 DEF Finishes, Phase, Busy
    <3>2. \A u \in Tasks : on[u] = isr => work[u] # "programmed"
      BY <3>1 DEF Doing, DoesWork
    <3>3. QED
      BY <1>16, <2>1, <3>1, <3>2 DEF Finishes, Pending
  <2>3. \A d \in Channels : d # isr => BouncesOf(d)' = BouncesOf(d)
    BY <1>16 DEF Finishes, BouncesOf
  <2>4. \A d \in Channels : d = isr => BouncesOf(d)' = {s.alloc, s.src, s.dest}
    BY <1>16 DEF Finishes, BouncesOf
  <2>5. Pointing(isr)
    BY <2>1 DEF Bounces
  <2>6. {s.alloc, s.src, s.dest} \cap Blocks = {}
    BY <1>16, <2>2, <2>5 DEF Frees, Pointing
  <2>7. blocks' = blocks \ BouncesOf(isr)
    <3>1. blocks \subseteq Blocks /\ blocks \cap {None, Foreign} = {}
      OBVIOUS
    <3>2. CASE session[isr].narrow
      BY <1>16, <2>2, <2>5, <3>1, <3>2 DEF Frees, Pointing, BouncesOf
    <3>3. CASE ~session[isr].narrow
      <4>1. /\ blocks' = blocks \ ({session[isr].src}
                   \cup IF session[isr].len THEN {session[isr].dest} ELSE {})
            /\ session[isr].alloc = None
        BY <1>16, <2>2, <2>5, <3>3 DEF Frees, Pointing
      <4>2. ~session[isr].len => session[isr].dest \in {None, Foreign}
        BY <2>2, <2>5, <3>3 DEF Pointing
      <4>3. QED
        BY <3>1, <4>1, <4>2 DEF BouncesOf
    <3>4. QED
      BY <3>2, <3>3
  <2>8. ASSUME NEW d \in Channels, d # isr, NEW b \in Blocks, b \in BouncesOf(d)
        PROVE  b \notin BouncesOf(isr)
    BY <2>1, <2>8, BouncesDiffer
  <2>9. QED
    BY <2>1, <2>3, <2>4, <2>6, <2>7, <2>8 DEF Allocated
<1>17. CASE Complete
  BY <1>17 DEF Complete, Allocated, BouncesOf
<1>18. CASE UNCHANGED allVars
  BY <1>18 DEF allVars, Allocated, BouncesOf
<1>19. ASSUME NEW t \in Tasks, Program(t) PROVE Allocated'
  BY <1>19, <1>2, <1>3, Programming DEF Program
<1>20. ASSUME FinishNarrow \/ FinishWide PROVE Allocated'
  BY <1>20, <1>16, FinishFrees
<1>21. QED
  BY <1>1, <1>2, <1>3, <1>4, <1>5, <1>6, <1>7, <1>8, <1>9, <1>10, <1>11,
    <1>12, <1>13, <1>14, <1>15, <1>16, <1>17, <1>18, <1>19, <1>20
    DEF DmaNext, Proceed, Handler

(* Every step keeps what is known of the data that has arrived.            *)
LEMMA ArrivedStep == TransferInv /\ 4 \notin LoopDests /\ [DmaNext]_allVars => Arrived'
<1> SUFFICES ASSUME TransferInv /\ 4 \notin LoopDests, [DmaNext]_allVars PROVE Arrived'
  OBVIOUS
<1> USE PoolAssumption, DmaAssumption DEF TransferInv, DriverInv,
  DriverTypeOK, Working, Turn, Works, dmaVars, clientVars, driverVars, At,
  BounceInv
<1>1. ASSUME NEW t \in Tasks, PoolCall(t) \/ PoolClose(t) \/ PoolStep(t)
      PROVE  Arrived'
  <2>1. /\ UNCHANGED dmaVars
        /\ \A u \in Tasks : work[u] # "rest" => pc'[u] = pc[u] /\ open'[u] = open[u]
    BY <1>1, PoolKeeps DEF PoolInv
  <2>2. QED
    BY <2>1 DEF Arrived, Told, Doing, DoesWork, Serves, ServesClient, Phase,
      OnePlace, Busy, Files
<1>2. ASSUME NEW t \in Tasks, NEW c \in Channels, NEW s \in Sessions,
             Programs(t, c, s), Points(t, session[c], s)
      PROVE  Arrived'
  <2>1. /\ \A u \in Tasks : on[u] # c
        /\ c \notin engine /\ c \notin irq /\ isr # c
    BY <1>2, AtRest DEF Programs
  <2>2. \A u \in Tasks : u # t => (u \in fresh' <=> u \in fresh)
    BY <1>2 DEF Programs
  <2>3. ASSUME NEW d \in Channels, Busy(d)
        PROVE  d # c /\ session'[d] = session[d] /\ session[d].client \in Tasks \ {t}
    BY <1>2, <2>1, <2>3 DEF Programs, Serves, ServesClient, Busy
  <2>4. ASSUME NEW u \in Tasks, Told(u)'
        PROVE  u # t /\ Told(u) /\ on'[u] = on[u] /\ session'[on[u]] = session[on[u]]
    <3>1. u # t
      BY <1>2, <2>4 DEF Programs, Told
    <3>2. on'[u] = on[u] /\ Told(u)
      BY <1>2, <2>4, <3>1 DEF Programs, Told
    <3>3. QED
      BY <1>2, <2>1, <3>1, <3>2 DEF Programs
  <2>5. UNCHANGED <<irq, isr, ipc>>
    BY <1>2 DEF Programs
  <2>6. QED
    BY <2>2, <2>3, <2>4, <2>5 DEF Arrived, Busy
<1>3. ASSUME NEW t \in Tasks, NEW c \in Channels, TransmitNothing(t, c)
      PROVE  Arrived'
  BY <1>3 DEF TransmitNothing, Arrived, Told, Doing, DoesWork, Serves,
    ServesClient, Phase, OnePlace, Busy, Files
<1>4. ASSUME NEW t \in Tasks, NEW c \in Channels, Enable(t, c) PROVE Arrived'
  BY <1>4 DEF Enable, Arrived, Told, Doing, DoesWork, Serves, ServesClient,
    Phase, OnePlace, Busy, Files
<1>5. ASSUME NEW t \in Tasks, Completed(t) PROVE Arrived'
  BY <1>5 DEF Completed, Arrived, Told, Doing, DoesWork, Serves,
    ServesClient, Phase, OnePlace, Busy, Files
<1>6. ASSUME NEW t \in Tasks, TakeStage(t) PROVE Arrived'
  BY <1>6 DEF TakeStage, Arrived, Told, Doing, DoesWork, Serves,
    ServesClient, Phase, OnePlace, Busy, Files
<1>7. ASSUME NEW t \in Tasks, ReleaseBuffer(t) PROVE Arrived'
  BY <1>7 DEF ReleaseBuffer, Arrived, Told, Doing, DoesWork, Serves,
    ServesClient, Phase, OnePlace, Busy, Files
<1>8. ASSUME NEW t \in Tasks, GetBuffer(t) PROVE Arrived'
  BY <1>8 DEF GetBuffer, Arrived, Told, Doing, DoesWork, Serves,
    ServesClient, Phase, OnePlace, Busy, Files
<1>9. ASSUME NEW t \in Tasks, Stop(t) PROVE Arrived'
  BY <1>9 DEF Stop, Arrived, Told, Doing, DoesWork, Serves, ServesClient,
    Phase, OnePlace, Busy, Files
<1>10. ASSUME NEW c \in Channels, BlockDone(c) PROVE Arrived'
  BY <1>10 DEF BlockDone, Arrived, Told, Doing, DoesWork, Serves,
    ServesClient, Phase, OnePlace, Busy, Files
<1>11. ASSUME NEW c \in Channels, Claim(c) PROVE Arrived'
  BY <1>11 DEF Claim, Arrived, Told, Doing, DoesWork, Serves, ServesClient,
    Phase, OnePlace, Busy, Files
<1>12. CASE IsrLoop
  BY <1>12 DEF IsrLoop, Arrived, Told, Doing, DoesWork, Serves, ServesClient,
    Phase, OnePlace, Busy, Files
<1>13. CASE StageAdvance
  BY <1>13 DEF StageAdvance, Arrived, Told, Doing, DoesWork, Serves,
    ServesClient, Phase, OnePlace, Busy, Files
<1>14. CASE StageGive
  BY <1>14 DEF StageGive, Arrived, Told, Doing, DoesWork, Serves,
    ServesClient, Phase, OnePlace, Busy, Files
<1>15. CASE Resume
  BY <1>15 DEF Resume, Arrived, Told, Doing, DoesWork, Serves, ServesClient,
    Phase, OnePlace, Busy, Files
<1>16. ASSUME NEW s \in Sessions, Finishes(s), Frees(session[isr], s)
      PROVE  Arrived'
  <2>1. isr \in Channels /\ isr # None
    BY <1>16 DEF Finishes, Files
  <2>2. Pending(isr) /\ ~Pending(isr)'
    <3>1. ~session[isr].is_loop /\ Busy(isr)
      BY <1>16 DEF Finishes, Phase, Busy
    <3>2. \A u \in Tasks : on[u] = isr => work[u] # "programmed"
      BY <3>1 DEF Doing, DoesWork
    <3>3. QED
      BY <1>16, <2>1, <3>1, <3>2 DEF Finishes, Pending
  <2>3. PICK t \in Tasks : session[isr].client = t
    BY <2>1 DEF Serves, ServesClient, Busy
  <2>4. /\ \A d \in Channels : d # isr => session'[d] = session[d]
        /\ session'[isr].client = t /\ session'[isr].is_loop = session[isr].is_loop
    BY <1>16, <2>1, <2>3 DEF Finishes
  <2>5. fresh \subseteq fresh' /\ UNCHANGED <<irq, isr, work, on, finished>>
    BY <1>16, <2>3 DEF Finishes
  <2>6. t \in fresh'
    <3>1. CASE session[isr].narrow
      BY <1>16, <2>3, <3>1 DEF Frees
    <3>2. CASE ~session[isr].narrow /\ session[isr].len
      <4>1. session[isr].dest = <<t, "dest">>
        BY <2>1, <2>2, <2>3, <3>2 DEF Bounces, Pointing
      <4>2. session[isr].dest \in blocks
        BY <2>1, <4>1 DEF Allocated, BouncesOf, Blocks
      <4>3. QED
        BY <1>16, <2>3, <3>2, <4>2 DEF Frees
    <3>3. CASE ~session[isr].narrow /\ ~session[isr].len
      BY <1>16, <2>1, <2>2, <2>3, <2>5, <3>3 DEF Arrived, Pending
    <3>4. QED
      BY <3>1, <3>2, <3>3
  <2>7. \A u \in Tasks : Told(u)' /\ ~session'[on'[u]].is_loop => Told(u) /\ ~session[on[u]].is_loop
    BY <2>1, <2>4, <2>5 DEF Told, Doing, DoesWork
  <2>8. \A d \in Channels : ~session'[d].is_loop /\ ~session'[d].narrow /\ ~session'[d].len /\ (d \in irq' \/ isr' = d)
           => session'[d].client \in fresh'
    BY <2>4, <2>5, <2>6 DEF Arrived
  <2>9. session'[isr'].client \in fresh'
    BY <2>4, <2>5, <2>6
  <2>10. \A u \in Tasks : Told(u)' /\ ~session'[on'[u]].is_loop => u \in fresh'
    BY <2>5, <2>7 DEF Arrived
  <2>11. QED
    BY <2>8, <2>9, <2>10 DEF Arrived
<1>17. CASE Complete
  BY <1>17 DEF Complete, Arrived, Told, Doing, DoesWork, Serves,
    ServesClient, Phase, OnePlace, Busy, Files
<1>18. CASE UNCHANGED allVars
  BY <1>18 DEF allVars, Arrived, Told, Doing, DoesWork, Serves, ServesClient,
    Phase, OnePlace, Busy, Files
<1>19. ASSUME NEW t \in Tasks, Program(t) PROVE Arrived'
  BY <1>19, <1>2, <1>3, Programming DEF Program
<1>20. ASSUME FinishNarrow \/ FinishWide PROVE Arrived'
  BY <1>20, <1>16, FinishFrees
<1>21. QED
  BY <1>1, <1>2, <1>3, <1>4, <1>5, <1>6, <1>7, <1>8, <1>9, <1>10, <1>11,
    <1>12, <1>13, <1>14, <1>15, <1>16, <1>17, <1>18, <1>19, <1>20
    DEF DmaNext, Proceed, Handler

-----------------------------------------------------------------------------
(* The invariants hold at the start. *)
LEMMA DriverInit == DmaInit => TransferInv
<1> SUFFICES ASSUME DmaInit PROVE TransferInv
  OBVIOUS
<1> USE PoolAssumption, DmaAssumption DEF DmaInit
<1>1. PoolInv
  BY PoolInit, InitInv
<1>2. DriverTypeOK
  <2>1. NoSession \in Sessions
    BY DEF NoSession, Sessions, Pointers
  <2>2. session \in [Channels -> Sessions]
    BY <2>1
  <2>3. stages \in [Tasks -> 0 .. MaxStage] /\ inUse \in [Tasks -> 0 .. 1]
        /\ nextFree \in [Tasks -> 0 .. 1]
    OBVIOUS
  <2>4. work \in [Tasks -> Works] /\ on \in [Tasks -> Channels \cup {None}]
    BY DEF Works
  <2>5. QED
    BY <2>2, <2>3, <2>4 DEF DriverTypeOK
<1>3. Doing /\ Serves /\ Phase
  BY DEF Doing, DoesWork, Serves, ServesClient, Phase, OnePlace, Busy, Files
<1>4. InStep
  BY DEF InStep, AgreesWith
<1>5. Bounces
  <2>1. ASSUME NEW c \in Channels PROVE Pointing(c)
    <3>1. session[c].alloc = None /\ session[c].src = None /\ session[c].dest = None
          /\ session[c].len = FALSE
      BY DEF NoSession
    <3>2. ~Pending(c)
      BY DEF Pending, Busy, Files
    <3>3. QED
      BY <3>1, <3>2 DEF Pointing
  <2>2. QED
    BY <2>1 DEF Bounces
<1>6. Allocated
  BY DEF Allocated, BouncesOf, NoSession
<1>7. Arrived
  BY DEF Arrived, Told, Files
<1>8. QED
  BY <1>1, <1>2, <1>3, <1>4, <1>5, <1>6, <1>7 DEF TransferInv, DriverInv, BounceInv

(* Whatever the destinations of a loop, no step breaks what the driver,    *)
(* the handler and the tasks know of each other.                           *)
LEMMA DriverStep == DriverInv /\ [DmaNext]_allVars => DriverInv'
<1>1. DriverInv /\ [DmaNext]_allVars => PoolInv'
  BY PoolNext, InvStep DEF DriverInv
<1>2. QED
  BY <1>1, DmaTypeStep, DoingStep, ServesStep, PhaseStep, InStepStep DEF DriverInv

(* As long as no loop has four of them, none breaks the rest either.       *)
LEMMA TransferStep ==
    TransferInv /\ 4 \notin LoopDests /\ [DmaNext]_allVars => TransferInv'
<1>1. TransferInv /\ [DmaNext]_allVars => DriverInv'
  BY DriverStep DEF TransferInv
<1>2. QED
  BY <1>1, BouncesStep, AllocatedStep, ArrivedStep DEF TransferInv, BounceInv

(* The inductive invariant of the driver and the stream *)
THEOREM DriverCorrect == DmaSpec => []DriverInv
<1>1. DmaInit => DriverInv
  BY DriverInit DEF TransferInv
<1>2. QED
  BY <1>1, DriverStep, PTL DEF DmaSpec

(* The types of the pool and of the driver hold throughout. *)
THEOREM DmaTypeCorrect == DmaSpec => []DmaTypeOK
<1>1. DriverInv => DmaTypeOK
  BY DEF DriverInv, PoolInv, DmaTypeOK
<1>2. QED
  BY <1>1, DriverCorrect, PTL

(* A task that waits in get_buffer is woken, and driver and stream agree   *)
(* about the buffer in use, even where a loop has four destinations.       *)
THEOREM StreamerIsWokenCorrect == DmaSpec => []StreamerIsWoken
<1>1. DriverInv => StreamerIsWoken
  <2> SUFFICES ASSUME DriverInv PROVE StreamerIsWoken
    OBVIOUS
  <2> USE PoolAssumption DEF DriverInv
  <2>1. ASSUME NEW t \in Tasks, work[t] = "hungry", nextFree[t] # inUse[t], ~(stages[t] > 0)
        PROVE  isr # None /\ ipc = "give" /\ session[isr].client = t
    <3>1. isr = on[t] /\ ipc = "give" /\ on[t] # None
      BY <2>1 DEF InStep, AgreesWith, Doing, DoesWork
    <3>2. isr \in Channels /\ ServesClient(isr)
      BY <3>1 DEF DriverTypeOK, Serves, Busy
    <3>3. QED
      BY <3>1, <3>2, OneWorker DEF ServesClient
  <2>2. ASSUME NEW c \in engine, session[c].is_loop
        PROVE  session[c].next = inUse[session[c].client]
    <3>1. c \in Channels /\ ServesClient(c)
      BY <2>2 DEF DriverTypeOK, Serves, Busy
    <3>2. QED
      BY <2>2, <3>1 DEF ServesClient, InStep, AgreesWith
  <2>3. QED
    BY <2>1, <2>2 DEF StreamerIsWoken
<1>2. QED
  BY <1>1, DriverCorrect, PTL

(* As long as no loop has four destinations, whose last one overwrites     *)
(* len: a transfer that is completed has arrived and has returned its      *)
(* bounce buffers, and the engine and the handler touch a channel only for *)
(* the task that has it open.                                              *)
THEOREM TransferIsOwnersCorrect ==
    ASSUME 4 \notin LoopDests PROVE DmaSpec => []TransferIsOwners
<1>1. DmaSpec => []TransferInv
  BY DriverInit, TransferStep, PTL DEF DmaSpec
<1>2. TransferInv => TransferIsOwners
  <2> SUFFICES ASSUME TransferInv PROVE TransferIsOwners
    OBVIOUS
  <2> USE PoolAssumption, DmaAssumption DEF TransferInv, DriverInv, BounceInv
  <2>1. DmaTypeOK
    BY DEF PoolInv, DmaTypeOK
  <2>2. \A t \in Tasks : Told(t) /\ ~session[on[t]].is_loop => t \in fresh
    BY DEF Arrived
  <2>3. \A c \in Channels : BouncesOf(c) \cap Blocks \subseteq blocks
    BY DEF Allocated
  <2>4. ASSUME NEW b \in blocks
        PROVE  \E c \in Channels : /\ b \in BouncesOf(c)
                                   /\ session[c].client = b[1] /\ ~session[c].is_loop
                                   /\ on[b[1]] = c /\ ~Told(b[1])
    <3>1. PICK c \in Channels : b \in BouncesOf(c)
      BY DEF Allocated
    <3>2. b \in Blocks
      BY DEF DriverTypeOK
    <3>3. Pending(c) /\ session[c].client = b[1]
      BY <3>1, <3>2, BouncesDiffer
    <3>4. QED
      BY <3>1, <3>3, PendingClient DEF Pending
  <2>5. ASSUME NEW c \in Channels, Busy(c)
        PROVE  \E t \in Tasks : /\ on[t] = c /\ HasOpen(t, c) /\ session[c].client = t
                                /\ work[t] # "programmed" /\ ~Told(t)
    <3>1. ServesClient(c)
      BY <2>5 DEF Serves
    <3>2. QED
      BY <2>5, <3>1 DEF ServesClient, Doing, DoesWork, Told
  <2>6. ASSUME NEW c \in Channels, NEW t \in Tasks, on[t] = c, work[t] # "programmed", ~Told(t)
        PROVE  Busy(c)
    <3>1. work[t] # "rest"
      BY <2>6 DEF Doing, DoesWork, Files
    <3>2. QED
      BY <2>6, <3>1 DEF Doing, DoesWork, Told, DriverTypeOK, Works
  <2>7. BouncesReturned
    BY <2>2, <2>3, <2>4 DEF BouncesReturned
  <2>8. QED
    BY <2>1, <2>5, <2>6, <2>7 DEF TransferIsOwners
<1>3. QED
  BY <1>1, <1>2, PTL

-----------------------------------------------------------------------------
(***************************************************************************)
(* The serial port.                                                        *)
(*                                                                         *)
(* That bytes come in order (Filled) needs that reader and handler are at  *)
(* the one ring there is (Settled), which needs that used_count_ is right  *)
(* (Counted) and that no call came between the steps of a first open or a  *)
(* last close. That no ring is used that is not there needs besides that   *)
(* the handler does not run before there is one (First), which is so until *)
(* the port is opened anew.                                                *)
(***************************************************************************)

(* Who has the port open, or counts as having it                           *)
Guests == opened \cup {t \in Users : place[t] \in Opening}

(* used_count_ is the number of those.                                     *)
Counted == count = Cardinality(Guests)

(* One task reads at a time, it has the port open and wants bytes; what is *)
(* under way on a ring is under way on some ring.                          *)
Calling ==
    /\ \A t \in Users : place[t] \in Opening \cup Closing => t \notin opened
    /\ \A t \in Users : place[t] \in Reading => t \in opened /\ want[t] > 0
    /\ \A t, u \in Users : place[t] \in Reading /\ place[u] \in Reading => t = u
    /\ \A t \in Users : place[t] \in Reading \ {"test"} => mine[t] \in Rings
    /\ irqAt \in {"load", "store"} => iring \in Rings

(* No call has come between the steps of a first open or a last close, and *)
(* the handler not between those of a last close.                          *)
Orderly == ~overlap /\ ~cut /\ ~astray

(* Who opens first or closes last                                          *)
Changing == {t \in Users : place[t] \in Opening \cup Closing}

(* There is a ring from the first open to the last close, and it is the    *)
(* one that the reader and the handler are at.                             *)
Settled ==
    /\ \A t, u \in Changing : t = u
    /\ Changing # {} => opened = {}
    /\ live \subseteq {recv}
    /\ recv \in live <=>
         opened # {} \/ \E t \in Users : place[t] \in {"irq", "off", "delete"}
    /\ \A t \in Users : place[t] \in Reading => mine[t] = recv
    /\ irqAt \in {"load", "store"} => iring = recv /\ recv \in live

(* Until the port is opened anew, the handler runs while there is a ring.  *)
First ==
    /\ handler => \A t \in Users : place[t] \notin Opening
    /\ clock => opened # {} \/ \E t \in Users : place[t] \in {"ring", "irq", "off"}
    /\ irqAt # "idle" => handler /\ recv \in live

Put == IF irqAt \in {"load", "store"} THEN 1 ELSE 0
Got == IF \E t \in Users : place[t] \in {"load", "store"} THEN 1 ELSE 0

(* A ring holds the bytes of list, when put bytes of them are still to be  *)
(* counted in, and got bytes that are no longer among them to be taken off *)
(* the count.                                                              *)
Fills(q, list, put, got) ==
    /\ q.length + put <= Length
    /\ Len(list) = q.length + put - got
    /\ q.tail = (q.head + Len(list)) % Length
    /\ \A i \in 1 .. Len(list) : q.cells[(q.head + i - 1) % Length] = list[i]

(* The ring holds what was put in and not taken out.                       *)
Filled ==
    /\ Fills(ring[recv], unread, Put, Got)
    /\ (\E t \in Users : place[t] \in {"take", "load", "store"}) => ring[recv].length > 0

UartInv ==
    /\ UartTypeOK /\ Counted /\ Calling
    /\ Orderly => Settled
    /\ Orderly /\ ~reopened => First
    /\ StrayOnlyIf
    /\ Orderly /\ ~torn /\ recv \in live => Filled
    /\ ReaderIsWoken

-----------------------------------------------------------------------------
(* The types                                                               *)

(* What is assumed of the constants                                        *)
LEMMA UartConstants ==
    /\ IsFiniteSet(Users) /\ NoRing \notin Rings
    /\ Length \in Nat /\ Length > 0 /\ SizeMax \in Nat /\ Length <= SizeMax
    /\ Depth \in Nat /\ MaxRead \in Nat /\ MaxRead > 0 /\ MaxOpens \in Nat
    /\ 0 \in Sizes /\ 0 \in Bytes /\ 0 \in 0 .. Length - 1
BY UartAssumption DEF Sizes, Bytes

(* What size_t and an index into the ring wrap to                          *)
LEMMA UartWraps ==
    /\ \A n \in Int : n % (SizeMax + 1) \in Sizes
    /\ \A n \in Sizes : n > 0 => (n - 1) % (SizeMax + 1) = n - 1
    /\ \A n \in Sizes : n < SizeMax => (n + 1) % (SizeMax + 1) = n + 1
    /\ \A n \in Nat : n % Length \in 0 .. Length - 1
    /\ \A n \in 0 .. Length - 1 : n % Length = n
    /\ \A n \in Length .. 2 * Length - 1 : n % Length = n - Length
BY UartConstants, SMT DEF Sizes

(* A new ring is a ring.                                                   *)
LEMMA EmptyType == Empty \in RingType
BY UartConstants DEF Empty, RingType

(* The types of a ring                                                     *)
LEMMA RingFields ==
    ASSUME NEW q \in RingType
    PROVE  /\ q.head \in 0 .. Length - 1 /\ q.tail \in 0 .. Length - 1
           /\ q.length \in Sizes /\ q.cells \in [0 .. Length - 1 -> Bytes]
           /\ q.head \in Nat /\ q.tail \in Nat /\ q.length \in Nat
<1>1. /\ q.head \in 0 .. Length - 1 /\ q.tail \in 0 .. Length - 1
      /\ q.length \in Sizes /\ q.cells \in [0 .. Length - 1 -> Bytes]
  BY DEF RingType
<1>2. \A n \in 0 .. Length - 1 : n \in Nat
  BY UartConstants
<1>3. \A n \in Sizes : n \in Nat
  BY UartConstants DEF Sizes
<1>4. QED
  BY <1>1, <1>2, <1>3

(* What the steps make of a ring is a ring.                                *)
LEMMA RingTypes ==
    ASSUME NEW q \in RingType
    PROVE  /\ [q EXCEPT !.head = (@ + 1) % Length] \in RingType
           /\ \A n \in Int : [q EXCEPT !.length = n % (SizeMax + 1)] \in RingType
           /\ \A b \in Bytes :
                 [q EXCEPT !.cells[q.tail] = b, !.tail = (@ + 1) % Length] \in RingType
<1>1. /\ q.head \in 0 .. Length - 1 /\ q.tail \in 0 .. Length - 1
      /\ q.length \in Sizes /\ q.cells \in [0 .. Length - 1 -> Bytes]
  BY RingFields
<1>2. q.head + 1 \in Nat /\ q.tail + 1 \in Nat
  BY <1>1, UartConstants
<1>3. /\ (q.head + 1) % Length \in 0 .. Length - 1
      /\ (q.tail + 1) % Length \in 0 .. Length - 1
  BY <1>2, UartWraps, Zenon
<1>4. \A n \in Int : n % (SizeMax + 1) \in Sizes
  BY UartWraps
<1>5. QED
  BY <1>1, <1>3, <1>4 DEF RingType

(* What a step makes of a ring, at one place of the array of rings         *)
LEMMA RingsType ==
    ASSUME UartTypeOK, NEW r, NEW q, r \in Rings => q \in RingType
    PROVE  [ring EXCEPT ![r] = q] \in [Rings -> RingType]
BY DEF UartTypeOK, RingType

(* Cardinality of the guests                                               *)
LEMMA Counting ==
    ASSUME NEW S \in SUBSET Users
    PROVE  /\ IsFiniteSet(S) /\ Cardinality(S) \in Nat
           /\ Cardinality(S) = 0 <=> S = {}
           /\ \A t \in Users \ S : Cardinality(S \cup {t}) = Cardinality(S) + 1
           /\ \A t \in S : Cardinality(S \ {t}) = Cardinality(S) - 1
<1>1. IsFiniteSet(S)
  BY UartConstants, FS_Subset
<1>2. Cardinality(S) \in Nat
  BY <1>1, FS_CardinalityType
<1>3. Cardinality(S) = 0 <=> S = {}
  BY <1>1, FS_EmptySet
<1>4. \A t \in Users \ S : Cardinality(S \cup {t}) = Cardinality(S) + 1
  BY <1>1, FS_AddElement
<1>5. \A t \in S : Cardinality(S \ {t}) = Cardinality(S) - 1
  BY <1>1, FS_RemoveElement
<1>6. QED
  BY <1>1, <1>2, <1>3, <1>4, <1>5

(* used_count_ is 0 if and only if nobody has the port open.               *)
LEMMA CountedGuests ==
    ASSUME UartTypeOK, Counted
    PROVE  /\ Guests \in SUBSET Users /\ count \in Nat
           /\ count = 0 <=> Guests = {}
           /\ opened # {} => count >= 1
<1>1. Guests \in SUBSET Users
  BY DEF Guests, UartTypeOK
<1>2. QED
  BY <1>1, Counting DEF Counted, Guests

(* Every step keeps the types.                                              *)
LEMMA UartTypesKept ==
    ASSUME UartTypeOK, Counted, Calling, [UartNext]_uartVars
    PROVE  UartTypeOK'
<1>1. ASSUME NEW t \in Users, OpenUart(t) PROVE UartTypeOK'
  BY <1>1, CountedGuests, UartConstants
     DEF OpenUart, UserAt, UserGoto, taskVars, portVars, isrVars, blame, UartTypeOK, UartLabels
<1>2. ASSUME NEW t \in Users, CloseUart(t) PROVE UartTypeOK'
  BY <1>2, CountedGuests
     DEF CloseUart, UserAt, UserGoto, taskVars, portVars, isrVars, blame, UartTypeOK, UartLabels
<1>3. ASSUME NEW t \in Users, ReadUart(t) PROVE UartTypeOK'
  BY <1>3, UartConstants
     DEF ReadUart, UserAt, UserGoto, taskVars, portVars, isrVars, blame, UartTypeOK, UartLabels
<1>4. ASSUME NEW t \in Users, FirstClock(t) PROVE UartTypeOK'
  <2>1. place' \in [Users -> UartLabels]
    BY <1>4 DEF FirstClock, UserGoto, UartTypeOK, UartLabels
  <2>2. UNCHANGED <<count, recv, live, ring, fifo, next, mine, loaded, want, opens, irqAt,
                    iring, iloaded, unread, torn, reopened, overlap>>
    BY <1>4 DEF FirstClock, portVars, isrVars, blame
  <2>3. /\ clock' \in BOOLEAN /\ handler' \in BOOLEAN /\ live' \in SUBSET Rings
        /\ event' \in BOOLEAN /\ opened' \in SUBSET Users
        /\ cut' \in BOOLEAN /\ astray' \in BOOLEAN
    BY <1>4 DEF FirstClock, portVars, blame, UartTypeOK
  <2>4. QED
    BY <2>1, <2>2, <2>3 DEF UartTypeOK
<1>5. ASSUME NEW t \in Users, FirstRing(t) PROVE UartTypeOK'
  BY <1>5, EmptyType
     DEF FirstRing, UserAt, UserGoto, taskVars, portVars, isrVars, blame, UartTypeOK, UartLabels
<1>6. ASSUME NEW t \in Users, FirstIrq(t) PROVE UartTypeOK'
  <2>1. place' \in [Users -> UartLabels]
    BY <1>6 DEF FirstIrq, UserGoto, UartTypeOK, UartLabels
  <2>2. UNCHANGED <<count, recv, live, ring, fifo, next, mine, loaded, want, opens, irqAt,
                    iring, iloaded, unread, torn, reopened, overlap>>
    BY <1>6 DEF FirstIrq, portVars, isrVars, blame
  <2>3. /\ clock' \in BOOLEAN /\ handler' \in BOOLEAN /\ live' \in SUBSET Rings
        /\ event' \in BOOLEAN /\ opened' \in SUBSET Users
        /\ cut' \in BOOLEAN /\ astray' \in BOOLEAN
    BY <1>6 DEF FirstIrq, portVars, blame, UartTypeOK
  <2>4. QED
    BY <2>1, <2>2, <2>3 DEF UartTypeOK
<1>7. ASSUME NEW t \in Users, LastClock(t) PROVE UartTypeOK'
  <2>1. place' \in [Users -> UartLabels]
    BY <1>7 DEF LastClock, UserGoto, UartTypeOK, UartLabels
  <2>2. UNCHANGED <<count, recv, live, ring, fifo, next, mine, loaded, want, opens, irqAt,
                    iring, iloaded, unread, torn, reopened, overlap>>
    BY <1>7 DEF LastClock, portVars, isrVars, blame
  <2>3. /\ clock' \in BOOLEAN /\ handler' \in BOOLEAN /\ live' \in SUBSET Rings
        /\ event' \in BOOLEAN /\ opened' \in SUBSET Users
        /\ cut' \in BOOLEAN /\ astray' \in BOOLEAN
    BY <1>7 DEF LastClock, portVars, blame, UartTypeOK
  <2>4. QED
    BY <2>1, <2>2, <2>3 DEF UartTypeOK
<1>8. ASSUME NEW t \in Users, LastDelete(t) PROVE UartTypeOK'
  BY <1>8
     DEF LastDelete, UserAt, UserGoto, taskVars, portVars, isrVars, blame, UartTypeOK,
         UartLabels
<1>9. ASSUME NEW t \in Users, Test(t) PROVE UartTypeOK'
  <2>1. place' \in [Users -> UartLabels] /\ astray' \in BOOLEAN
    <3>1. CASE mine[t] \in live
      BY <1>9, <3>1 DEF Test, UserGoto, UartTypeOK, UartLabels
    <3>2. CASE mine[t] \notin live
      BY <1>9, <3>2 DEF Test, UartTypeOK
    <3>3. QED
      BY <3>1, <3>2
  <2>2. QED
    BY <1>9, <2>1 DEF Test, portVars, isrVars, blame, UartTypeOK
<1>10. ASSUME NEW t \in Users, TakeByte(t) PROVE UartTypeOK'
  <2>1. ring' \in [Rings -> RingType]
    <3>1. mine[t] \in Rings => [ring[mine[t]] EXCEPT !.head = (@ + 1) % Length] \in RingType
      BY RingTypes DEF UartTypeOK
    <3>2. ring' = [ring EXCEPT ![mine[t]] = [ring[mine[t]] EXCEPT !.head = (@ + 1) % Length]]
      BY <1>10 DEF TakeByte
    <3>3. QED
      BY <3>1, <3>2, RingsType
  <2>2. unread' \in Seq(Bytes)
    BY <1>10 DEF TakeByte, UartTypeOK
  <2>3. QED
    BY <1>10, <2>1, <2>2
       DEF TakeByte, UserAt, UserGoto, taskVars, portVars, isrVars, blame, UartTypeOK,
           UartLabels
<1>11. ASSUME NEW t \in Users, LoadLength(t) PROVE UartTypeOK'
  <2>1. mine[t] \in Rings
    BY <1>11 DEF LoadLength, UserAt, Calling, Reading
  <2>2. ring[mine[t]].length \in Sizes
    BY <2>1, RingFields DEF UartTypeOK
  <2>3. QED
    BY <1>11, <2>2
       DEF LoadLength, UserAt, UserGoto, portVars, isrVars, blame, UartTypeOK, UartLabels
<1>12. ASSUME NEW t \in Users, StoreLength(t) PROVE UartTypeOK'
  <2>1. ring' \in [Rings -> RingType]
    <3> DEFINE n == loaded[t] - 1
    <3>1. n \in Int
      BY UartConstants DEF UartTypeOK, Sizes
    <3>2. mine[t] \in Rings => [ring[mine[t]] EXCEPT !.length = n % (SizeMax + 1)] \in RingType
      BY <3>1, RingTypes DEF UartTypeOK
    <3>3. ring' = [ring EXCEPT ![mine[t]] = [ring[mine[t]] EXCEPT !.length = n % (SizeMax + 1)]]
      BY <1>12 DEF StoreLength
    <3>4. QED
      BY <3>2, <3>3, RingsType
  <2>2. unread' \in Seq(Bytes) /\ torn' \in BOOLEAN
    BY <1>12 DEF StoreLength, UartTypeOK
  <2>3. want[t] > 0
    BY <1>12 DEF StoreLength, UserAt, Calling, Reading
  <2>4. want' \in [Users -> 0 .. MaxRead]
    BY <1>12, <2>3, UartConstants DEF StoreLength, UartTypeOK
  <2>5. loaded' \in [Users -> Sizes]
    BY <1>12, UartConstants DEF StoreLength, UartTypeOK
  <2>6. place' \in [Users -> UartLabels] /\ mine' \in [Users -> Rings \cup {NoRing}]
    BY <1>12 DEF StoreLength, UserGoto, UartTypeOK, UartLabels
  <2>7. astray' \in BOOLEAN
    BY <1>12 DEF StoreLength
  <2>8. QED
    BY <1>12, <2>1, <2>2, <2>4, <2>5, <2>6, <2>7
       DEF StoreLength, portVars, isrVars, UartTypeOK, blame
<1>13. ASSUME NEW t \in Users, TakeEvent(t) PROVE UartTypeOK'
  <2>1. place' \in [Users -> UartLabels]
    BY <1>13 DEF TakeEvent, UserGoto, UartTypeOK, UartLabels
  <2>2. UNCHANGED <<count, recv, live, ring, fifo, next, mine, loaded, want, opens, irqAt,
                    iring, iloaded, unread, torn, reopened, overlap>>
    BY <1>13 DEF TakeEvent, portVars, isrVars, blame
  <2>3. /\ clock' \in BOOLEAN /\ handler' \in BOOLEAN /\ live' \in SUBSET Rings
        /\ event' \in BOOLEAN /\ opened' \in SUBSET Users
        /\ cut' \in BOOLEAN /\ astray' \in BOOLEAN
    BY <1>13 DEF TakeEvent, portVars, blame, UartTypeOK
  <2>4. QED
    BY <2>1, <2>2, <2>3 DEF UartTypeOK
<1>14. ASSUME NEW t \in Users, ReadTimesOut(t) PROVE UartTypeOK'
  BY <1>14, UartConstants
     DEF ReadTimesOut, UserAt, UserGoto, taskVars, portVars, isrVars, blame, UartTypeOK,
         UartLabels
<1>15. CASE Arrive
  <2>1. fifo' \in Seq(Bytes) /\ Len(fifo') <= Depth
    BY <1>15, UartConstants DEF Arrive, UartTypeOK
  <2>2. next' \in Bytes
    BY <1>15, UartConstants, SMT DEF Arrive, UartTypeOK, Bytes
  <2>3. QED
    BY <1>15, <2>1, <2>2 DEF Arrive, taskVars, isrVars, blame, UartTypeOK
<1>16. CASE Interrupt
  BY <1>16
     DEF Interrupt, IsrAt, taskVars, portVars, isrVars, blame, UartTypeOK, UartLabels
<1>17. CASE IsrByte
  <2>1. Head(fifo) \in Bytes /\ Tail(fifo) \in Seq(Bytes) /\ Len(Tail(fifo)) <= Depth
    BY <1>17, UartConstants DEF IsrByte, UartTypeOK
  <2>2. ring' \in [Rings -> RingType] /\ unread' \in Seq(Bytes) /\ irqAt' \in {"idle", "loop", "load", "store", "give"}
    <3>1. CASE recv \in live /\ HasRoom(recv)
      <4> DEFINE q == [ring[recv] EXCEPT !.cells[ring[recv].tail] = Head(fifo), !.tail = (@ + 1) % Length]
      <4>1. recv \in Rings /\ ring[recv] \in RingType
        BY <3>1 DEF UartTypeOK
      <4>2. q \in RingType
        BY <2>1, <4>1, RingTypes
      <4>3. ring' = [ring EXCEPT ![recv] = q]
        BY <1>17, <3>1, <4>1 DEF IsrByte, UartTypeOK
      <4>4. ring' \in [Rings -> RingType]
        BY <4>2, <4>3, RingsType
      <4>5. irqAt' = "load" /\ unread' = IF torn THEN <<>> ELSE Append(unread, Head(fifo))
        BY <1>17, <3>1 DEF IsrByte
      <4>6. unread \in Seq(Bytes)
        BY DEF UartTypeOK
      <4>7. unread' \in Seq(Bytes)
        BY <2>1, <4>5, <4>6
      <4>8. QED
        BY <4>4, <4>5, <4>7
    <3>2. CASE ~(recv \in live /\ HasRoom(recv))
      BY <1>17, <3>2 DEF IsrByte, UartTypeOK
    <3>3. QED
      BY <3>1, <3>2
  <2>3. QED
    BY <1>17, <2>1, <2>2 DEF IsrByte, taskVars, blame, UartTypeOK
<1>18. CASE IsrLoad
  <2>1. ring[iring].length \in Sizes
    BY <1>18, RingFields DEF IsrLoad, IsrAt, Calling, UartTypeOK
  <2>2. QED
    BY <1>18, <2>1 DEF IsrLoad, taskVars, portVars, blame, UartTypeOK
<1>19. CASE IsrStore
  <2>1. ring' \in [Rings -> RingType]
    <3> DEFINE n == iloaded + 1
    <3>1. n \in Int
      BY UartConstants DEF UartTypeOK, Sizes
    <3>2. iring \in Rings => [ring[iring] EXCEPT !.length = n % (SizeMax + 1)] \in RingType
      BY <3>1, RingTypes DEF UartTypeOK
    <3>3. ring' = [ring EXCEPT ![iring] = [ring[iring] EXCEPT !.length = n % (SizeMax + 1)]]
      BY <1>19 DEF IsrStore
    <3>4. QED
      BY <3>2, <3>3, RingsType
  <2>2. unread' \in Seq(Bytes) /\ torn' \in BOOLEAN
    BY <1>19 DEF IsrStore, UartTypeOK
  <2>3. QED
    BY <1>19, <2>1, <2>2, UartConstants DEF IsrStore, taskVars, portVars, blame, UartTypeOK
<1>20. CASE IsrEmpty
  BY <1>20
     DEF IsrEmpty, IsrAt, taskVars, portVars, isrVars, blame, UartTypeOK, UartLabels
<1>21. CASE IsrGive
  BY <1>21
     DEF IsrGive, IsrAt, taskVars, portVars, isrVars, blame, UartTypeOK, UartLabels
<1>22. CASE UNCHANGED uartVars
  BY <1>22
     DEF uartVars, taskVars, portVars, isrVars, blame, UartTypeOK, UartLabels
<1>23. QED
  BY <1>1, <1>2, <1>3, <1>4, <1>5, <1>6, <1>7, <1>8, <1>9, <1>10, <1>11, <1>12, <1>13, <1>14,
     <1>15, <1>16, <1>17, <1>18, <1>19, <1>20, <1>21, <1>22
     DEF UartNext, UserCall, UserStep, RecvHandler


(* Every step keeps the count of those who have the port open.              *)
LEMMA CountedKept ==
    ASSUME UartTypeOK, Counted, Calling, [UartNext]_uartVars
    PROVE  Counted'
<1>1. ASSUME NEW t \in Users, OpenUart(t) PROVE Counted'
  <2>1. t \in Users \ Guests /\ Guests \in SUBSET Users
    BY <1>1, CountedGuests DEF OpenUart, UserAt, Guests, Opening
  <2>2. Guests' = Guests \cup {t}
    BY <1>1 DEF OpenUart, UserAt, UserGoto, Guests, Opening, UartTypeOK
  <2>3. Cardinality(Guests \cup {t}) = Cardinality(Guests) + 1
    BY <2>1, Counting
  <2>4. QED
    BY <1>1, <2>2, <2>3 DEF OpenUart, Counted
<1>2. ASSUME NEW t \in Users, CloseUart(t) PROVE Counted'
  <2>1. t \in Guests /\ Guests \in SUBSET Users
    BY <1>2, CountedGuests DEF CloseUart, UserAt, Guests
  <2>2. Guests' = Guests \ {t}
    BY <1>2 DEF CloseUart, UserAt, UserGoto, Guests, Opening, UartTypeOK
  <2>3. Cardinality(Guests \ {t}) = Cardinality(Guests) - 1
    BY <2>1, Counting
  <2>4. QED
    BY <1>2, <2>2, <2>3 DEF CloseUart, Counted
<1>3. ASSUME NEW t \in Users, ReadUart(t) PROVE Counted'
  <2>1. Guests' = Guests
    BY <1>3
       DEF ReadUart, UserAt, UserGoto, Guests, Opening, UartTypeOK, taskVars, portVars, isrVars,
           blame
  <2>2. QED
    BY <1>3, <2>1 DEF ReadUart, Counted
<1>4. ASSUME NEW t \in Users, FirstClock(t) PROVE Counted'
  <2>1. Guests' = Guests
    BY <1>4
       DEF FirstClock, UserAt, UserGoto, Guests, Opening, UartTypeOK, taskVars, portVars,
           isrVars, blame
  <2>2. QED
    BY <1>4, <2>1 DEF FirstClock, Counted
<1>5. ASSUME NEW t \in Users, FirstRing(t) PROVE Counted'
  <2>1. Guests' = Guests
    BY <1>5
       DEF FirstRing, UserAt, UserGoto, Guests, Opening, UartTypeOK, taskVars, portVars,
           isrVars, blame
  <2>2. QED
    BY <1>5, <2>1 DEF FirstRing, Counted
<1>6. ASSUME NEW t \in Users, FirstIrq(t) PROVE Counted'
  <2>1. Guests' = Guests
    BY <1>6
       DEF FirstIrq, UserAt, UserGoto, Guests, Opening, UartTypeOK, taskVars, portVars, isrVars,
           blame
  <2>2. QED
    BY <1>6, <2>1 DEF FirstIrq, Counted
<1>7. ASSUME NEW t \in Users, LastClock(t) PROVE Counted'
  <2>1. Guests' = Guests
    BY <1>7
       DEF LastClock, UserAt, UserGoto, Guests, Opening, UartTypeOK, taskVars, portVars,
           isrVars, blame
  <2>2. QED
    BY <1>7, <2>1 DEF LastClock, Counted
<1>8. ASSUME NEW t \in Users, LastDelete(t) PROVE Counted'
  <2>1. Guests' = Guests
    BY <1>8
       DEF LastDelete, UserAt, UserGoto, Guests, Opening, UartTypeOK, taskVars, portVars,
           isrVars, blame
  <2>2. QED
    BY <1>8, <2>1 DEF LastDelete, Counted
<1>9. ASSUME NEW t \in Users, Test(t) PROVE Counted'
  <2>1. Guests' = Guests
    BY <1>9
       DEF Test, UserAt, UserGoto, Guests, Opening, UartTypeOK, taskVars, portVars, isrVars,
           blame
  <2>2. QED
    BY <1>9, <2>1 DEF Test, Counted
<1>10. ASSUME NEW t \in Users, TakeByte(t) PROVE Counted'
  <2>1. Guests' = Guests
    BY <1>10
       DEF TakeByte, UserAt, UserGoto, Guests, Opening, UartTypeOK, taskVars, portVars, isrVars,
           blame
  <2>2. QED
    BY <1>10, <2>1 DEF TakeByte, Counted
<1>11. ASSUME NEW t \in Users, LoadLength(t) PROVE Counted'
  <2>1. Guests' = Guests
    BY <1>11
       DEF LoadLength, UserAt, UserGoto, Guests, Opening, UartTypeOK, taskVars, portVars,
           isrVars, blame
  <2>2. QED
    BY <1>11, <2>1 DEF LoadLength, Counted
<1>12. ASSUME NEW t \in Users, StoreLength(t) PROVE Counted'
  <2>1. Guests' = Guests
    BY <1>12
       DEF StoreLength, UserAt, UserGoto, Guests, Opening, UartTypeOK, taskVars, portVars,
           isrVars, blame
  <2>2. QED
    BY <1>12, <2>1 DEF StoreLength, Counted
<1>13. ASSUME NEW t \in Users, TakeEvent(t) PROVE Counted'
  <2>1. Guests' = Guests
    BY <1>13
       DEF TakeEvent, UserAt, UserGoto, Guests, Opening, UartTypeOK, taskVars, portVars,
           isrVars, blame
  <2>2. QED
    BY <1>13, <2>1 DEF TakeEvent, Counted
<1>14. ASSUME NEW t \in Users, ReadTimesOut(t) PROVE Counted'
  <2>1. Guests' = Guests
    BY <1>14
       DEF ReadTimesOut, UserAt, UserGoto, Guests, Opening, UartTypeOK, taskVars, portVars,
           isrVars, blame
  <2>2. QED
    BY <1>14, <2>1 DEF ReadTimesOut, Counted
<1>15. CASE Arrive
  BY <1>15
     DEF Arrive, taskVars, portVars, isrVars, blame, Counted, Guests, Opening, Reading, Closing
<1>16. CASE Interrupt
  BY <1>16
     DEF Interrupt, IsrAt, taskVars, portVars, isrVars, blame, Counted, Guests, Opening,
         Reading, Closing
<1>17. CASE IsrByte
  BY <1>17
     DEF IsrByte, IsrAt, taskVars, portVars, isrVars, blame, Counted, Guests, Opening, Reading,
         Closing
<1>18. CASE IsrLoad
  BY <1>18
     DEF IsrLoad, IsrAt, taskVars, portVars, isrVars, blame, Counted, Guests, Opening, Reading,
         Closing
<1>19. CASE IsrStore
  BY <1>19
     DEF IsrStore, IsrAt, taskVars, portVars, isrVars, blame, Counted, Guests, Opening, Reading,
         Closing
<1>20. CASE IsrEmpty
  BY <1>20
     DEF IsrEmpty, IsrAt, taskVars, portVars, isrVars, blame, Counted, Guests, Opening, Reading,
         Closing
<1>21. CASE IsrGive
  BY <1>21
     DEF IsrGive, IsrAt, taskVars, portVars, isrVars, blame, Counted, Guests, Opening, Reading,
         Closing
<1>22. CASE UNCHANGED uartVars
  BY <1>22
     DEF uartVars, taskVars, portVars, isrVars, blame, Counted, Guests, Opening, Reading,
         Closing
<1>23. QED
  BY <1>1, <1>2, <1>3, <1>4, <1>5, <1>6, <1>7, <1>8, <1>9, <1>10, <1>11, <1>12, <1>13, <1>14,
     <1>15, <1>16, <1>17, <1>18, <1>19, <1>20, <1>21, <1>22
     DEF UartNext, UserCall, UserStep, RecvHandler


(* Every step keeps what calls and handler hold.                            *)
LEMMA ShapeKept ==
    ASSUME UartTypeOK, Calling, [UartNext]_uartVars
    PROVE  Calling'
<1>1. ASSUME NEW t \in Users, OpenUart(t) PROVE Calling'
  BY <1>1
     DEF OpenUart, UserAt, UserGoto, taskVars, portVars, isrVars, blame, Calling, UartTypeOK,
         Opening, Closing, Reading
<1>2. ASSUME NEW t \in Users, CloseUart(t) PROVE Calling'
  BY <1>2
     DEF CloseUart, UserAt, UserGoto, taskVars, portVars, isrVars, blame, Calling, UartTypeOK,
         Opening, Closing, Reading
<1>3. ASSUME NEW t \in Users, ReadUart(t) PROVE Calling'
  BY <1>3
     DEF ReadUart, UserAt, UserGoto, taskVars, portVars, isrVars, blame, Calling, UartTypeOK,
         Opening, Closing, Reading
<1>4. ASSUME NEW t \in Users, FirstClock(t) PROVE Calling'
  BY <1>4
     DEF FirstClock, UserAt, UserGoto, taskVars, portVars, isrVars, blame, Calling, UartTypeOK,
         Opening, Closing, Reading
<1>5. ASSUME NEW t \in Users, FirstRing(t) PROVE Calling'
  BY <1>5
     DEF FirstRing, UserAt, UserGoto, taskVars, portVars, isrVars, blame, Calling, UartTypeOK,
         Opening, Closing, Reading
<1>6. ASSUME NEW t \in Users, FirstIrq(t) PROVE Calling'
  BY <1>6
     DEF FirstIrq, UserAt, UserGoto, taskVars, portVars, isrVars, blame, Calling, UartTypeOK,
         Opening, Closing, Reading
<1>7. ASSUME NEW t \in Users, LastClock(t) PROVE Calling'
  BY <1>7
     DEF LastClock, UserAt, UserGoto, taskVars, portVars, isrVars, blame, Calling, UartTypeOK,
         Opening, Closing, Reading
<1>8. ASSUME NEW t \in Users, LastDelete(t) PROVE Calling'
  BY <1>8
     DEF LastDelete, UserAt, UserGoto, taskVars, portVars, isrVars, blame, Calling, UartTypeOK,
         Opening, Closing, Reading
<1>9. ASSUME NEW t \in Users, Test(t) PROVE Calling'
  <2>1. CASE mine[t] \in live
    BY <1>9, <2>1
       DEF Test, UserAt, UserGoto, portVars, isrVars, Calling, UartTypeOK, Opening, Closing,
           Reading
  <2>2. CASE mine[t] \notin live
    BY <1>9, <2>2 DEF Test, UserAt, UserGoto, portVars, isrVars, Calling
  <2>3. QED
    BY <2>1, <2>2
<1>10. ASSUME NEW t \in Users, TakeByte(t) PROVE Calling'
  BY <1>10
     DEF TakeByte, UserAt, UserGoto, taskVars, portVars, isrVars, blame, Calling, UartTypeOK,
         Opening, Closing, Reading
<1>11. ASSUME NEW t \in Users, LoadLength(t) PROVE Calling'
  BY <1>11
     DEF LoadLength, UserAt, UserGoto, taskVars, portVars, isrVars, blame, Calling, UartTypeOK,
         Opening, Closing, Reading
<1>12. ASSUME NEW t \in Users, StoreLength(t) PROVE Calling'
  BY <1>12
     DEF StoreLength, UserAt, UserGoto, taskVars, portVars, isrVars, blame, Calling, UartTypeOK,
         Opening, Closing, Reading
<1>13. ASSUME NEW t \in Users, TakeEvent(t) PROVE Calling'
  BY <1>13
     DEF TakeEvent, UserAt, UserGoto, taskVars, portVars, isrVars, blame, Calling, UartTypeOK,
         Opening, Closing, Reading
<1>14. ASSUME NEW t \in Users, ReadTimesOut(t) PROVE Calling'
  BY <1>14
     DEF ReadTimesOut, UserAt, UserGoto, taskVars, portVars, isrVars, blame, Calling,
         UartTypeOK, Opening, Closing, Reading
<1>15. CASE Arrive
  BY <1>15
     DEF Arrive, taskVars, portVars, isrVars, blame, Calling, UartTypeOK, Opening, Closing,
         Reading
<1>16. CASE Interrupt
  BY <1>16
     DEF Interrupt, IsrAt, taskVars, portVars, isrVars, blame, Calling, UartTypeOK, Opening,
         Closing, Reading
<1>17. CASE IsrByte
  BY <1>17
     DEF IsrByte, IsrAt, taskVars, portVars, isrVars, blame, Calling, UartTypeOK, Opening,
         Closing, Reading
<1>18. CASE IsrLoad
  BY <1>18
     DEF IsrLoad, IsrAt, taskVars, portVars, isrVars, blame, Calling, UartTypeOK, Opening,
         Closing, Reading
<1>19. CASE IsrStore
  BY <1>19
     DEF IsrStore, IsrAt, taskVars, portVars, isrVars, blame, Calling, UartTypeOK, Opening,
         Closing, Reading
<1>20. CASE IsrEmpty
  BY <1>20
     DEF IsrEmpty, IsrAt, taskVars, portVars, isrVars, blame, Calling, UartTypeOK, Opening,
         Closing, Reading
<1>21. CASE IsrGive
  BY <1>21
     DEF IsrGive, IsrAt, taskVars, portVars, isrVars, blame, Calling, UartTypeOK, Opening,
         Closing, Reading
<1>22. CASE UNCHANGED uartVars
  BY <1>22
     DEF uartVars, taskVars, portVars, isrVars, blame, Calling, UartTypeOK, Opening, Closing,
         Reading
<1>23. QED
  BY <1>1, <1>2, <1>3, <1>4, <1>5, <1>6, <1>7, <1>8, <1>9, <1>10, <1>11, <1>12, <1>13, <1>14,
     <1>15, <1>16, <1>17, <1>18, <1>19, <1>20, <1>21, <1>22
     DEF UartNext, UserCall, UserStep, RecvHandler


-----------------------------------------------------------------------------
(* The ring there is                                                       *)


(* What was not orderly stays so.                                           *)
LEMMA Orderliness ==
    ASSUME UartTypeOK, [UartNext]_uartVars
    PROVE  Orderly' => Orderly
<1>1. ASSUME NEW t \in Users, OpenUart(t) PROVE Orderly' => Orderly
  BY <1>1
     DEF OpenUart, UserAt, UserGoto, taskVars, portVars, isrVars, blame, Orderly, UartTypeOK
<1>2. ASSUME NEW t \in Users, CloseUart(t) PROVE Orderly' => Orderly
  BY <1>2
     DEF CloseUart, UserAt, UserGoto, taskVars, portVars, isrVars, blame, Orderly, UartTypeOK
<1>3. ASSUME NEW t \in Users, ReadUart(t) PROVE Orderly' => Orderly
  BY <1>3
     DEF ReadUart, UserAt, UserGoto, taskVars, portVars, isrVars, blame, Orderly, UartTypeOK
<1>4. ASSUME NEW t \in Users, FirstClock(t) PROVE Orderly' => Orderly
  BY <1>4
     DEF FirstClock, UserAt, UserGoto, taskVars, portVars, isrVars, blame, Orderly, UartTypeOK
<1>5. ASSUME NEW t \in Users, FirstRing(t) PROVE Orderly' => Orderly
  BY <1>5
     DEF FirstRing, UserAt, UserGoto, taskVars, portVars, isrVars, blame, Orderly, UartTypeOK
<1>6. ASSUME NEW t \in Users, FirstIrq(t) PROVE Orderly' => Orderly
  BY <1>6
     DEF FirstIrq, UserAt, UserGoto, taskVars, portVars, isrVars, blame, Orderly, UartTypeOK
<1>7. ASSUME NEW t \in Users, LastClock(t) PROVE Orderly' => Orderly
  BY <1>7
     DEF LastClock, UserAt, UserGoto, taskVars, portVars, isrVars, blame, Orderly, UartTypeOK
<1>8. ASSUME NEW t \in Users, LastDelete(t) PROVE Orderly' => Orderly
  BY <1>8
     DEF LastDelete, UserAt, UserGoto, taskVars, portVars, isrVars, blame, Orderly, UartTypeOK
<1>9. ASSUME NEW t \in Users, Test(t) PROVE Orderly' => Orderly
  BY <1>9
     DEF Test, UserAt, UserGoto, taskVars, portVars, isrVars, blame, Orderly, UartTypeOK
<1>10. ASSUME NEW t \in Users, TakeByte(t) PROVE Orderly' => Orderly
  BY <1>10
     DEF TakeByte, UserAt, UserGoto, taskVars, portVars, isrVars, blame, Orderly, UartTypeOK
<1>11. ASSUME NEW t \in Users, LoadLength(t) PROVE Orderly' => Orderly
  BY <1>11
     DEF LoadLength, UserAt, UserGoto, taskVars, portVars, isrVars, blame, Orderly, UartTypeOK
<1>12. ASSUME NEW t \in Users, StoreLength(t) PROVE Orderly' => Orderly
  BY <1>12
     DEF StoreLength, UserAt, UserGoto, taskVars, portVars, isrVars, blame, Orderly, UartTypeOK
<1>13. ASSUME NEW t \in Users, TakeEvent(t) PROVE Orderly' => Orderly
  BY <1>13
     DEF TakeEvent, UserAt, UserGoto, taskVars, portVars, isrVars, blame, Orderly, UartTypeOK
<1>14. ASSUME NEW t \in Users, ReadTimesOut(t) PROVE Orderly' => Orderly
  BY <1>14
     DEF ReadTimesOut, UserAt, UserGoto, taskVars, portVars, isrVars, blame, Orderly, UartTypeOK
<1>15. CASE Arrive
  BY <1>15
     DEF Arrive, taskVars, portVars, isrVars, blame, Orderly, UartTypeOK
<1>16. CASE Interrupt
  BY <1>16
     DEF Interrupt, IsrAt, taskVars, portVars, isrVars, blame, Orderly, UartTypeOK
<1>17. CASE IsrByte
  BY <1>17
     DEF IsrByte, IsrAt, taskVars, portVars, isrVars, blame, Orderly, UartTypeOK
<1>18. CASE IsrLoad
  BY <1>18
     DEF IsrLoad, IsrAt, taskVars, portVars, isrVars, blame, Orderly, UartTypeOK
<1>19. CASE IsrStore
  BY <1>19
     DEF IsrStore, IsrAt, taskVars, portVars, isrVars, blame, Orderly, UartTypeOK
<1>20. CASE IsrEmpty
  BY <1>20
     DEF IsrEmpty, IsrAt, taskVars, portVars, isrVars, blame, Orderly, UartTypeOK
<1>21. CASE IsrGive
  BY <1>21
     DEF IsrGive, IsrAt, taskVars, portVars, isrVars, blame, Orderly, UartTypeOK
<1>22. CASE UNCHANGED uartVars
  BY <1>22
     DEF uartVars, taskVars, portVars, isrVars, blame, Orderly, UartTypeOK
<1>23. QED
  BY <1>1, <1>2, <1>3, <1>4, <1>5, <1>6, <1>7, <1>8, <1>9, <1>10, <1>11, <1>12, <1>13, <1>14,
     <1>15, <1>16, <1>17, <1>18, <1>19, <1>20, <1>21, <1>22
     DEF UartNext, UserCall, UserStep, RecvHandler


(* Nobody is about to open first or to close last when a call comes.       *)
LEMMA CallsAlone ==
    ASSUME UartTypeOK, Counted, Calling, Settled, NEW t \in Users, OpenUart(t) \/ CloseUart(t), ~overlap'
    PROVE  /\ Changing = {} /\ Guests = opened
           /\ count = 0 <=> opened = {}
           /\ CloseUart(t) => (count = 1 <=> opened = {t})
<1>1. Changing = {}
  BY DEF OpenUart, CloseUart, Changing
<1>2. Guests = opened
  BY <1>1 DEF Guests, Changing
<1>3. count = 0 <=> opened = {}
  BY <1>2, CountedGuests
<1>4. ASSUME CloseUart(t) PROVE count = 1 <=> opened = {t}
  <2>1. t \in opened /\ opened \in SUBSET Users
    BY <1>4 DEF CloseUart, UartTypeOK
  <2>2. Cardinality(opened \ {t}) = count - 1 /\ count \in Nat
    BY <1>2, <2>1, Counting, CountedGuests DEF Counted
  <2>3. Cardinality(opened \ {t}) = 0 <=> opened \ {t} = {}
    BY <2>1, Counting
  <2>4. opened \ {t} = {} <=> opened = {t}
    BY <2>1
  <2>5. QED
    BY <2>2, <2>3, <2>4
<1>5. QED
  BY <1>1, <1>2, <1>3, <1>4


(* While all is orderly, there is a ring when there should be.              *)
LEMMA SettledKept ==
    ASSUME UartTypeOK, Counted, Calling, Settled, Orderly', [UartNext]_uartVars
    PROVE  Settled'
<1>1. ASSUME NEW t \in Users, OpenUart(t) PROVE Settled'
  <2>1. ~overlap'
    BY DEF Orderly
  <2>2. Changing = {} /\ (count = 0 <=> opened = {})
    BY <1>1, <2>1, CallsAlone
  <2>3. UNCHANGED <<recv, live, mine, irqAt, iring>> /\ t \notin opened /\ place[t] = "idle"
    BY <1>1 DEF OpenUart, UserAt, isrVars
  <2>4. CASE count = 0
    <3>1. opened = {} /\ opened' = {} /\ place' = [place EXCEPT ![t] = "first"]
      BY <1>1, <2>2, <2>4 DEF OpenUart, UserGoto
    <3>2. QED
      BY <2>2, <2>3, <3>1 DEF Settled, UartTypeOK, Calling, Changing, Opening, Closing, Reading
  <2>5. CASE count # 0
    <3>1. opened # {} /\ opened' = opened \cup {t} /\ place' = [place EXCEPT ![t] = "idle"]
      BY <1>1, <2>2, <2>5 DEF OpenUart, UserGoto
    <3>2. QED
      BY <2>2, <2>3, <3>1 DEF Settled, UartTypeOK, Calling, Changing, Opening, Closing, Reading
  <2>6. QED
    BY <2>4, <2>5
<1>2. ASSUME NEW t \in Users, CloseUart(t) PROVE Settled'
  <2>1. ~overlap'
    BY DEF Orderly
  <2>2. Changing = {} /\ (count = 1 <=> opened = {t})
    BY <1>2, <2>1, CallsAlone
  <2>3. UNCHANGED <<recv, live, mine, irqAt, iring>> /\ t \in opened /\ place[t] = "idle"
        /\ opened' = opened \ {t}
    BY <1>2 DEF CloseUart, UserAt, isrVars
  <2>4. CASE count = 1
    <3>1. opened' = {} /\ place' = [place EXCEPT ![t] = "off"]
      BY <1>2, <2>2, <2>3, <2>4 DEF CloseUart, UserGoto
    <3>2. QED
      BY <2>2, <2>3, <2>4, <3>1
         DEF Settled, UartTypeOK, Calling, Changing, Opening, Closing, Reading
  <2>5. CASE count # 1
    <3>1. opened' # {} /\ place' = [place EXCEPT ![t] = "idle"]
      BY <1>2, <2>2, <2>3, <2>5 DEF CloseUart, UserGoto
    <3>2. QED
      BY <2>2, <2>3, <3>1 DEF Settled, UartTypeOK, Calling, Changing, Opening, Closing, Reading
  <2>6. QED
    BY <2>4, <2>5
<1>3. ASSUME NEW t \in Users, ReadUart(t) PROVE Settled'
  BY <1>3
     DEF ReadUart, UserAt, UserGoto, taskVars, portVars, isrVars, blame, Settled, UartTypeOK,
         Calling, Changing, Opening, Closing, Reading
<1>4. ASSUME NEW t \in Users, FirstClock(t) PROVE Settled'
  BY <1>4
     DEF FirstClock, UserAt, UserGoto, taskVars, portVars, isrVars, blame, Settled, UartTypeOK,
         Calling, Changing, Opening, Closing, Reading
<1>5. ASSUME NEW t \in Users, FirstRing(t) PROVE Settled'
  <2>1. place[t] = "ring" /\ Changing = {t} /\ opened = {}
    BY <1>5
       DEF FirstRing, UserAt, Settled, UartTypeOK, Calling, Changing, Opening, Closing, Reading
  <2>2. recv \notin live /\ live = {} /\ irqAt \notin {"load", "store"}
    BY <2>1 DEF Settled, UartTypeOK, Calling, Changing, Opening, Closing, Reading
  <2>3. PICK r \in Rings : recv' = r /\ live' = {r}
    BY <1>5, <2>2 DEF FirstRing
  <2>4. QED
    BY <1>5, <2>1, <2>2, <2>3
       DEF FirstRing, UserGoto, isrVars, Settled, UartTypeOK, Calling, Changing, Opening,
           Closing, Reading
<1>6. ASSUME NEW t \in Users, FirstIrq(t) PROVE Settled'
  <2>1. place[t] = "irq" /\ Changing = {t} /\ opened = {}
    BY <1>6
       DEF FirstIrq, UserAt, Settled, UartTypeOK, Calling, Changing, Opening, Closing, Reading
  <2>2. QED
    BY <1>6, <2>1
       DEF FirstIrq, UserGoto, isrVars, Settled, UartTypeOK, Calling, Changing, Opening,
           Closing, Reading
<1>7. ASSUME NEW t \in Users, LastClock(t) PROVE Settled'
  BY <1>7
     DEF LastClock, UserAt, UserGoto, taskVars, portVars, isrVars, blame, Settled, UartTypeOK,
         Calling, Changing, Opening, Closing, Reading
<1>8. ASSUME NEW t \in Users, LastDelete(t) PROVE Settled'
  <2>1. place[t] = "delete" /\ Changing = {t} /\ opened = {}
    BY <1>8
       DEF LastDelete, UserAt, Settled, UartTypeOK, Calling, Changing, Opening, Closing, Reading
  <2>2. irqAt = "idle" /\ live' = {}
    BY <1>8 DEF LastDelete, Orderly, Settled, UartTypeOK
  <2>3. QED
    BY <1>8, <2>1, <2>2
       DEF LastDelete, UserGoto, isrVars, Settled, UartTypeOK, Calling, Changing, Opening,
           Closing, Reading
<1>9. ASSUME NEW t \in Users, Test(t) PROVE Settled'
  <2>1. mine[t] \in live
    BY <1>9 DEF Test, Orderly
  <2>2. QED
    BY <1>9, <2>1
       DEF Test, UserAt, UserGoto, isrVars, Settled, UartTypeOK, Calling, Changing, Opening,
           Closing, Reading
<1>10. ASSUME NEW t \in Users, TakeByte(t) PROVE Settled'
  BY <1>10
     DEF TakeByte, UserAt, UserGoto, taskVars, portVars, isrVars, blame, Settled, UartTypeOK,
         Calling, Changing, Opening, Closing, Reading
<1>11. ASSUME NEW t \in Users, LoadLength(t) PROVE Settled'
  BY <1>11
     DEF LoadLength, UserAt, UserGoto, taskVars, portVars, isrVars, blame, Settled, UartTypeOK,
         Calling, Changing, Opening, Closing, Reading
<1>12. ASSUME NEW t \in Users, StoreLength(t) PROVE Settled'
  BY <1>12
     DEF StoreLength, UserAt, UserGoto, taskVars, portVars, isrVars, blame, Settled, UartTypeOK,
         Calling, Changing, Opening, Closing, Reading
<1>13. ASSUME NEW t \in Users, TakeEvent(t) PROVE Settled'
  BY <1>13
     DEF TakeEvent, UserAt, UserGoto, taskVars, portVars, isrVars, blame, Settled, UartTypeOK,
         Calling, Changing, Opening, Closing, Reading
<1>14. ASSUME NEW t \in Users, ReadTimesOut(t) PROVE Settled'
  BY <1>14
     DEF ReadTimesOut, UserAt, UserGoto, taskVars, portVars, isrVars, blame, Settled,
         UartTypeOK, Calling, Changing, Opening, Closing, Reading
<1>15. CASE Arrive
  BY <1>15
     DEF Arrive, taskVars, portVars, isrVars, blame, Settled, UartTypeOK, Calling, Changing,
         Opening, Closing, Reading
<1>16. CASE Interrupt
  BY <1>16
     DEF Interrupt, IsrAt, taskVars, portVars, isrVars, blame, Settled, UartTypeOK, Calling,
         Changing, Opening, Closing, Reading
<1>17. CASE IsrByte
  <2>1. recv \in live
    BY <1>17 DEF IsrByte, Orderly
  <2>2. QED
    BY <1>17, <2>1
       DEF IsrByte, taskVars, Settled, UartTypeOK, Calling, Changing, Opening, Closing, Reading
<1>18. CASE IsrLoad
  BY <1>18
     DEF IsrLoad, IsrAt, taskVars, portVars, isrVars, blame, Settled, UartTypeOK, Calling,
         Changing, Opening, Closing, Reading
<1>19. CASE IsrStore
  BY <1>19
     DEF IsrStore, IsrAt, taskVars, portVars, isrVars, blame, Settled, UartTypeOK, Calling,
         Changing, Opening, Closing, Reading
<1>20. CASE IsrEmpty
  BY <1>20
     DEF IsrEmpty, IsrAt, taskVars, portVars, isrVars, blame, Settled, UartTypeOK, Calling,
         Changing, Opening, Closing, Reading
<1>21. CASE IsrGive
  BY <1>21
     DEF IsrGive, IsrAt, taskVars, portVars, isrVars, blame, Settled, UartTypeOK, Calling,
         Changing, Opening, Closing, Reading
<1>22. CASE UNCHANGED uartVars
  BY <1>22
     DEF uartVars, taskVars, portVars, isrVars, blame, Settled, UartTypeOK, Calling, Changing,
         Opening, Closing, Reading
<1>23. QED
  BY <1>1, <1>2, <1>3, <1>4, <1>5, <1>6, <1>7, <1>8, <1>9, <1>10, <1>11, <1>12, <1>13, <1>14,
     <1>15, <1>16, <1>17, <1>18, <1>19, <1>20, <1>21, <1>22
     DEF UartNext, UserCall, UserStep, RecvHandler


(* A history variable stays set.                                            *)
LEMMA Histories ==
    ASSUME UartTypeOK, [UartNext]_uartVars
    PROVE  (torn => torn') /\ (reopened => reopened')
<1>1. ASSUME NEW t \in Users, OpenUart(t) PROVE (torn => torn') /\ (reopened => reopened')
  BY <1>1
     DEF OpenUart, UserAt, UserGoto, taskVars, portVars, isrVars, blame, UartTypeOK
<1>2. ASSUME NEW t \in Users, CloseUart(t) PROVE (torn => torn') /\ (reopened => reopened')
  BY <1>2
     DEF CloseUart, UserAt, UserGoto, taskVars, portVars, isrVars, blame, UartTypeOK
<1>3. ASSUME NEW t \in Users, ReadUart(t) PROVE (torn => torn') /\ (reopened => reopened')
  BY <1>3
     DEF ReadUart, UserAt, UserGoto, taskVars, portVars, isrVars, blame, UartTypeOK
<1>4. ASSUME NEW t \in Users, FirstClock(t) PROVE (torn => torn') /\ (reopened => reopened')
  BY <1>4
     DEF FirstClock, UserAt, UserGoto, taskVars, portVars, isrVars, blame, UartTypeOK
<1>5. ASSUME NEW t \in Users, FirstRing(t) PROVE (torn => torn') /\ (reopened => reopened')
  BY <1>5
     DEF FirstRing, UserAt, UserGoto, taskVars, portVars, isrVars, blame, UartTypeOK
<1>6. ASSUME NEW t \in Users, FirstIrq(t) PROVE (torn => torn') /\ (reopened => reopened')
  BY <1>6
     DEF FirstIrq, UserAt, UserGoto, taskVars, portVars, isrVars, blame, UartTypeOK
<1>7. ASSUME NEW t \in Users, LastClock(t) PROVE (torn => torn') /\ (reopened => reopened')
  BY <1>7
     DEF LastClock, UserAt, UserGoto, taskVars, portVars, isrVars, blame, UartTypeOK
<1>8. ASSUME NEW t \in Users, LastDelete(t) PROVE (torn => torn') /\ (reopened => reopened')
  BY <1>8
     DEF LastDelete, UserAt, UserGoto, taskVars, portVars, isrVars, blame, UartTypeOK
<1>9. ASSUME NEW t \in Users, Test(t) PROVE (torn => torn') /\ (reopened => reopened')
  BY <1>9
     DEF Test, UserAt, UserGoto, taskVars, portVars, isrVars, blame, UartTypeOK
<1>10. ASSUME NEW t \in Users, TakeByte(t) PROVE (torn => torn') /\ (reopened => reopened')
  BY <1>10
     DEF TakeByte, UserAt, UserGoto, taskVars, portVars, isrVars, blame, UartTypeOK
<1>11. ASSUME NEW t \in Users, LoadLength(t) PROVE (torn => torn') /\ (reopened => reopened')
  BY <1>11
     DEF LoadLength, UserAt, UserGoto, taskVars, portVars, isrVars, blame, UartTypeOK
<1>12. ASSUME NEW t \in Users, StoreLength(t) PROVE (torn => torn') /\ (reopened => reopened')
  BY <1>12
     DEF StoreLength, UserAt, UserGoto, taskVars, portVars, isrVars, blame, UartTypeOK
<1>13. ASSUME NEW t \in Users, TakeEvent(t) PROVE (torn => torn') /\ (reopened => reopened')
  BY <1>13
     DEF TakeEvent, UserAt, UserGoto, taskVars, portVars, isrVars, blame, UartTypeOK
<1>14. ASSUME NEW t \in Users, ReadTimesOut(t) PROVE (torn => torn') /\ (reopened => reopened')
  BY <1>14
     DEF ReadTimesOut, UserAt, UserGoto, taskVars, portVars, isrVars, blame, UartTypeOK
<1>15. CASE Arrive
  BY <1>15
     DEF Arrive, taskVars, portVars, isrVars, blame, UartTypeOK
<1>16. CASE Interrupt
  BY <1>16
     DEF Interrupt, IsrAt, taskVars, portVars, isrVars, blame, UartTypeOK
<1>17. CASE IsrByte
  BY <1>17
     DEF IsrByte, IsrAt, taskVars, portVars, isrVars, blame, UartTypeOK
<1>18. CASE IsrLoad
  BY <1>18
     DEF IsrLoad, IsrAt, taskVars, portVars, isrVars, blame, UartTypeOK
<1>19. CASE IsrStore
  BY <1>19
     DEF IsrStore, IsrAt, taskVars, portVars, isrVars, blame, UartTypeOK
<1>20. CASE IsrEmpty
  BY <1>20
     DEF IsrEmpty, IsrAt, taskVars, portVars, isrVars, blame, UartTypeOK
<1>21. CASE IsrGive
  BY <1>21
     DEF IsrGive, IsrAt, taskVars, portVars, isrVars, blame, UartTypeOK
<1>22. CASE UNCHANGED uartVars
  BY <1>22
     DEF uartVars, taskVars, portVars, isrVars, blame, UartTypeOK
<1>23. QED
  BY <1>1, <1>2, <1>3, <1>4, <1>5, <1>6, <1>7, <1>8, <1>9, <1>10, <1>11, <1>12, <1>13, <1>14,
     <1>15, <1>16, <1>17, <1>18, <1>19, <1>20, <1>21, <1>22
     DEF UartNext, UserCall, UserStep, RecvHandler


(* Until the port is opened anew, the handler runs while there is a ring.   *)
LEMMA FirstKept ==
    ASSUME UartTypeOK, Counted, Calling, Settled, First, Orderly', ~reopened', [UartNext]_uartVars
    PROVE  First'
<1>1. ASSUME NEW t \in Users, OpenUart(t) PROVE First'
  <2>1. Changing = {} /\ (count = 0 <=> opened = {})
    BY <1>1, CallsAlone DEF Orderly
  <2>2. UNCHANGED <<handler, clock, irqAt, recv, live>>
    BY <1>1 DEF OpenUart, portVars, isrVars
  <2>3. CASE count = 0
    <3>1. ~handler /\ opened = {} /\ place' = [place EXCEPT ![t] = "first"]
      BY <1>1, <2>1, <2>3 DEF OpenUart, UserGoto
    <3>2. QED
      BY <2>1, <2>2, <3>1 DEF First, Settled, UartTypeOK, Changing, Opening, Closing
  <2>4. CASE count # 0
    <3>1. opened' = opened \cup {t} /\ place' = [place EXCEPT ![t] = "idle"]
      BY <1>1, <2>4 DEF OpenUart, UserGoto
    <3>2. QED
      BY <2>1, <2>2, <3>1 DEF First, Settled, UartTypeOK, Changing, Opening, Closing
  <2>5. QED
    BY <2>3, <2>4
<1>2. ASSUME NEW t \in Users, CloseUart(t) PROVE First'
  <2>1. Changing = {} /\ (count = 1 <=> opened = {t})
    BY <1>2, CallsAlone DEF Orderly
  <2>2. UNCHANGED <<handler, clock, irqAt, recv, live>> /\ opened' = opened \ {t} /\ t \in opened
    BY <1>2 DEF CloseUart, portVars, isrVars
  <2>3. CASE count = 1
    <3>1. place' = [place EXCEPT ![t] = "off"]
      BY <1>2, <2>3 DEF CloseUart, UserGoto
    <3>2. QED
      BY <2>1, <2>2, <3>1 DEF First, Settled, UartTypeOK, Changing, Opening, Closing
  <2>4. CASE count # 1
    <3>1. opened' # {} /\ place' = [place EXCEPT ![t] = "idle"]
      BY <1>2, <2>1, <2>2, <2>4 DEF CloseUart, UserGoto
    <3>2. QED
      BY <2>1, <2>2, <3>1 DEF First, Settled, UartTypeOK, Changing, Opening, Closing
  <2>5. QED
    BY <2>3, <2>4
<1>3. ASSUME NEW t \in Users, ReadUart(t) PROVE First'
  BY <1>3
     DEF ReadUart, UserAt, UserGoto, taskVars, portVars, isrVars, blame, First, Settled,
         UartTypeOK, Changing, Opening, Closing
<1>4. ASSUME NEW t \in Users, FirstClock(t) PROVE First'
  BY <1>4
     DEF FirstClock, UserAt, UserGoto, taskVars, portVars, isrVars, blame, First, Settled,
         UartTypeOK, Changing, Opening, Closing
<1>5. ASSUME NEW t \in Users, FirstRing(t) PROVE First'
  <2>1. ~handler /\ place[t] = "ring"
    BY <1>5 DEF FirstRing, UserAt, First, Opening
  <2>2. UNCHANGED <<handler, clock, irqAt, opened>> /\ place' = [place EXCEPT ![t] = "irq"]
    BY <1>5 DEF FirstRing, UserGoto, portVars, isrVars
  <2>3. QED
    BY <2>1, <2>2 DEF First, Settled, UartTypeOK, Changing, Opening, Closing
<1>6. ASSUME NEW t \in Users, FirstIrq(t) PROVE First'
  <2>1. place[t] = "irq" /\ Changing = {t} /\ opened = {} /\ recv \in live
    BY <1>6 DEF FirstIrq, UserAt, First, Settled, UartTypeOK, Changing, Opening, Closing
  <2>2. QED
    BY <1>6, <2>1
       DEF FirstIrq, UserGoto, isrVars, portVars, First, Settled, UartTypeOK, Changing, Opening,
           Closing
<1>7. ASSUME NEW t \in Users, LastClock(t) PROVE First'
  BY <1>7
     DEF LastClock, UserAt, UserGoto, taskVars, portVars, isrVars, blame, First, Settled,
         UartTypeOK, Changing, Opening, Closing
<1>8. ASSUME NEW t \in Users, LastDelete(t) PROVE First'
  <2>1. place[t] = "delete" /\ Changing = {t} /\ opened = {}
    BY <1>8 DEF LastDelete, UserAt, First, Settled, UartTypeOK, Changing, Opening, Closing
  <2>2. irqAt = "idle" /\ irqAt' = "idle"
    BY <1>8 DEF LastDelete, Orderly, isrVars, UartTypeOK
  <2>3. ~clock
    BY <2>1 DEF First, Settled, UartTypeOK, Changing, Opening, Closing
  <2>4. QED
    BY <1>8, <2>1, <2>2, <2>3
       DEF LastDelete, UserGoto, portVars, First, Settled, UartTypeOK, Changing, Opening,
           Closing
<1>9. ASSUME NEW t \in Users, Test(t) PROVE First'
  BY <1>9
     DEF Test, UserAt, UserGoto, taskVars, portVars, isrVars, blame, First, Settled, UartTypeOK,
         Changing, Opening, Closing
<1>10. ASSUME NEW t \in Users, TakeByte(t) PROVE First'
  BY <1>10
     DEF TakeByte, UserAt, UserGoto, taskVars, portVars, isrVars, blame, First, Settled,
         UartTypeOK, Changing, Opening, Closing
<1>11. ASSUME NEW t \in Users, LoadLength(t) PROVE First'
  BY <1>11
     DEF LoadLength, UserAt, UserGoto, taskVars, portVars, isrVars, blame, First, Settled,
         UartTypeOK, Changing, Opening, Closing
<1>12. ASSUME NEW t \in Users, StoreLength(t) PROVE First'
  BY <1>12
     DEF StoreLength, UserAt, UserGoto, taskVars, portVars, isrVars, blame, First, Settled,
         UartTypeOK, Changing, Opening, Closing
<1>13. ASSUME NEW t \in Users, TakeEvent(t) PROVE First'
  BY <1>13
     DEF TakeEvent, UserAt, UserGoto, taskVars, portVars, isrVars, blame, First, Settled,
         UartTypeOK, Changing, Opening, Closing
<1>14. ASSUME NEW t \in Users, ReadTimesOut(t) PROVE First'
  BY <1>14
     DEF ReadTimesOut, UserAt, UserGoto, taskVars, portVars, isrVars, blame, First, Settled,
         UartTypeOK, Changing, Opening, Closing
<1>15. CASE Arrive
  BY <1>15
     DEF Arrive, taskVars, portVars, isrVars, blame, First, Settled, UartTypeOK, Changing,
         Opening, Closing
<1>16. CASE Interrupt
  <2>1. opened # {} \/ \E t \in Users : place[t] = "off"
    BY <1>16 DEF Interrupt, First, Opening
  <2>2. recv \in live
    BY <2>1 DEF Settled
  <2>3. QED
    BY <1>16, <2>2 DEF Interrupt, taskVars, portVars, First
<1>17. CASE IsrByte
  BY <1>17
     DEF IsrByte, IsrAt, taskVars, portVars, isrVars, blame, First, Settled, UartTypeOK,
         Changing, Opening, Closing
<1>18. CASE IsrLoad
  BY <1>18
     DEF IsrLoad, IsrAt, taskVars, portVars, isrVars, blame, First, Settled, UartTypeOK,
         Changing, Opening, Closing
<1>19. CASE IsrStore
  BY <1>19
     DEF IsrStore, IsrAt, taskVars, portVars, isrVars, blame, First, Settled, UartTypeOK,
         Changing, Opening, Closing
<1>20. CASE IsrEmpty
  BY <1>20
     DEF IsrEmpty, IsrAt, taskVars, portVars, isrVars, blame, First, Settled, UartTypeOK,
         Changing, Opening, Closing
<1>21. CASE IsrGive
  BY <1>21
     DEF IsrGive, IsrAt, taskVars, portVars, isrVars, blame, First, Settled, UartTypeOK,
         Changing, Opening, Closing
<1>22. CASE UNCHANGED uartVars
  BY <1>22
     DEF uartVars, taskVars, portVars, isrVars, blame, First, Settled, UartTypeOK, Changing,
         Opening, Closing
<1>23. QED
  BY <1>1, <1>2, <1>3, <1>4, <1>5, <1>6, <1>7, <1>8, <1>9, <1>10, <1>11, <1>12, <1>13, <1>14,
     <1>15, <1>16, <1>17, <1>18, <1>19, <1>20, <1>21, <1>22
     DEF UartNext, UserCall, UserStep, RecvHandler


(* What a step uses is there: a reader's ring, the one that is deleted,    *)
(* and the handler's                                                       *)
LEMMA RingsInUse ==
    ASSUME Calling, Settled
    PROVE  /\ \A t \in Users : place[t] \in Reading \cup {"delete"} => recv \in live
           /\ \A t \in Users : place[t] \in Reading => mine[t] \in live
           /\ irqAt \in {"load", "store"} => iring \in live
BY DEF Calling, Settled, Reading


(* A ring that is not there is used in the cases named only.                *)
LEMMA StrayKept ==
    ASSUME UartTypeOK, Calling, Orderly => Settled, Orderly /\ ~reopened => First, StrayOnlyIf, [UartNext]_uartVars
    PROVE  StrayOnlyIf'
<1>1. ASSUME NEW t \in Users, OpenUart(t) PROVE StrayOnlyIf'
  BY <1>1
     DEF OpenUart, UserAt, UserGoto, taskVars, portVars, isrVars, blame, StrayOnlyIf
<1>2. ASSUME NEW t \in Users, CloseUart(t) PROVE StrayOnlyIf'
  BY <1>2
     DEF CloseUart, UserAt, UserGoto, taskVars, portVars, isrVars, blame, StrayOnlyIf
<1>3. ASSUME NEW t \in Users, ReadUart(t) PROVE StrayOnlyIf'
  BY <1>3
     DEF ReadUart, UserAt, UserGoto, taskVars, portVars, isrVars, blame, StrayOnlyIf
<1>4. ASSUME NEW t \in Users, FirstClock(t) PROVE StrayOnlyIf'
  BY <1>4
     DEF FirstClock, UserAt, UserGoto, taskVars, portVars, isrVars, blame, StrayOnlyIf
<1>5. ASSUME NEW t \in Users, FirstRing(t) PROVE StrayOnlyIf'
  BY <1>5
     DEF FirstRing, UserAt, UserGoto, taskVars, portVars, isrVars, blame, StrayOnlyIf
<1>6. ASSUME NEW t \in Users, FirstIrq(t) PROVE StrayOnlyIf'
  BY <1>6
     DEF FirstIrq, UserAt, UserGoto, taskVars, portVars, isrVars, blame, StrayOnlyIf
<1>7. ASSUME NEW t \in Users, LastClock(t) PROVE StrayOnlyIf'
  BY <1>7
     DEF LastClock, UserAt, UserGoto, taskVars, portVars, isrVars, blame, StrayOnlyIf
<1>8. ASSUME NEW t \in Users, LastDelete(t) PROVE StrayOnlyIf'
  <2>1. SUFFICES ASSUME astray', ~overlap', ~cut', ~reopened'  PROVE FALSE
    BY DEF StrayOnlyIf
  <2>2. Orderly /\ ~reopened
    BY <1>8, <2>1 DEF LastDelete, UserAt, blame, UartTypeOK, Orderly
  <2>3. QED
    BY <1>8, <2>1, <2>2, RingsInUse DEF LastDelete, UserAt, Reading
<1>9. ASSUME NEW t \in Users, Test(t) PROVE StrayOnlyIf'
  <2>1. SUFFICES ASSUME astray', ~overlap', ~cut', ~reopened'  PROVE FALSE
    BY DEF StrayOnlyIf
  <2>2. Orderly /\ ~reopened
    BY <1>9, <2>1 DEF Test, UserAt, blame, UartTypeOK, Orderly
  <2>3. QED
    BY <1>9, <2>1, <2>2, RingsInUse DEF Test, UserAt, Reading
<1>10. ASSUME NEW t \in Users, TakeByte(t) PROVE StrayOnlyIf'
  <2>1. SUFFICES ASSUME astray', ~overlap', ~cut', ~reopened'  PROVE FALSE
    BY DEF StrayOnlyIf
  <2>2. Orderly /\ ~reopened
    BY <1>10, <2>1 DEF TakeByte, UserAt, blame, UartTypeOK, Orderly
  <2>3. QED
    BY <1>10, <2>1, <2>2, RingsInUse DEF TakeByte, UserAt, Reading
<1>11. ASSUME NEW t \in Users, LoadLength(t) PROVE StrayOnlyIf'
  <2>1. SUFFICES ASSUME astray', ~overlap', ~cut', ~reopened'  PROVE FALSE
    BY DEF StrayOnlyIf
  <2>2. Orderly /\ ~reopened
    BY <1>11, <2>1 DEF LoadLength, UserAt, blame, UartTypeOK, Orderly
  <2>3. QED
    BY <1>11, <2>1, <2>2, RingsInUse DEF LoadLength, UserAt, Reading
<1>12. ASSUME NEW t \in Users, StoreLength(t) PROVE StrayOnlyIf'
  <2>1. SUFFICES ASSUME astray', ~overlap', ~cut', ~reopened'  PROVE FALSE
    BY DEF StrayOnlyIf
  <2>2. Orderly /\ ~reopened
    BY <1>12, <2>1 DEF StoreLength, UserAt, blame, UartTypeOK, Orderly
  <2>3. QED
    BY <1>12, <2>1, <2>2, RingsInUse DEF StoreLength, UserAt, Reading
<1>13. ASSUME NEW t \in Users, TakeEvent(t) PROVE StrayOnlyIf'
  BY <1>13
     DEF TakeEvent, UserAt, UserGoto, taskVars, portVars, isrVars, blame, StrayOnlyIf
<1>14. ASSUME NEW t \in Users, ReadTimesOut(t) PROVE StrayOnlyIf'
  BY <1>14
     DEF ReadTimesOut, UserAt, UserGoto, taskVars, portVars, isrVars, blame, StrayOnlyIf
<1>15. CASE Arrive
  BY <1>15
     DEF Arrive, taskVars, portVars, isrVars, blame, StrayOnlyIf
<1>16. CASE Interrupt
  BY <1>16
     DEF Interrupt, IsrAt, taskVars, portVars, isrVars, blame, StrayOnlyIf
<1>17. CASE IsrByte
  <2>1. SUFFICES ASSUME astray', ~overlap', ~cut', ~reopened'  PROVE FALSE
    BY DEF StrayOnlyIf
  <2>2. Orderly /\ ~reopened
    BY <1>17, <2>1 DEF IsrByte, IsrAt, blame, UartTypeOK, Orderly
  <2>3. QED
    BY <1>17, <2>1, <2>2, RingsInUse DEF IsrByte, IsrAt, Reading, First
<1>18. CASE IsrLoad
  <2>1. SUFFICES ASSUME astray', ~overlap', ~cut', ~reopened'  PROVE FALSE
    BY DEF StrayOnlyIf
  <2>2. Orderly /\ ~reopened
    BY <1>18, <2>1 DEF IsrLoad, IsrAt, blame, UartTypeOK, Orderly
  <2>3. QED
    BY <1>18, <2>1, <2>2, RingsInUse DEF IsrLoad, IsrAt, Reading
<1>19. CASE IsrStore
  <2>1. SUFFICES ASSUME astray', ~overlap', ~cut', ~reopened'  PROVE FALSE
    BY DEF StrayOnlyIf
  <2>2. Orderly /\ ~reopened
    BY <1>19, <2>1 DEF IsrStore, IsrAt, blame, UartTypeOK, Orderly
  <2>3. QED
    BY <1>19, <2>1, <2>2, RingsInUse DEF IsrStore, IsrAt, Reading
<1>20. CASE IsrEmpty
  BY <1>20
     DEF IsrEmpty, IsrAt, taskVars, portVars, isrVars, blame, StrayOnlyIf
<1>21. CASE IsrGive
  BY <1>21
     DEF IsrGive, IsrAt, taskVars, portVars, isrVars, blame, StrayOnlyIf
<1>22. CASE UNCHANGED uartVars
  BY <1>22
     DEF uartVars, taskVars, portVars, isrVars, blame, StrayOnlyIf
<1>23. QED
  BY <1>1, <1>2, <1>3, <1>4, <1>5, <1>6, <1>7, <1>8, <1>9, <1>10, <1>11, <1>12, <1>13, <1>14,
     <1>15, <1>16, <1>17, <1>18, <1>19, <1>20, <1>21, <1>22
     DEF UartNext, UserCall, UserStep, RecvHandler


-----------------------------------------------------------------------------
(* What the ring holds                                                     *)

(* Places in the ring: the place after the next one; and the place of what *)
(* is put in differs from that of what is there.                           *)
LEMMA Places ==
    ASSUME NEW h \in 0 .. Length - 1
    PROVE  /\ \A n \in 0 .. Length : (((h + 1) % Length) + n) % Length = (h + n + 1) % Length
           /\ \A n \in 0 .. Length - 1 : (((h + n) % Length) + 1) % Length = (h + n + 1) % Length
           /\ \A m, n \in 0 .. Length - 1 : m < n => (h + m) % Length # (h + n) % Length
           /\ \A n \in 0 .. Length : (h + n) % Length \in 0 .. Length - 1
<1> DEFINE At2(n) == IF n < Length THEN n ELSE IF n < 2 * Length THEN n - Length ELSE n - 2 * Length
<1>1. \A n \in 0 .. 3 * Length - 1 : n % Length = At2(n)
  BY UartConstants, SMT
<1>2. /\ \A n \in 0 .. Length : /\ (h + n) % Length = At2(h + n)
                                /\ (h + n + 1) % Length = At2(h + n + 1)
                                /\ (h + 1) % Length = At2(h + 1)
      /\ \A n \in 0 .. Length : At2(h + n) \in 0 .. Length - 1
  BY <1>1, UartConstants
<1>3. \A n \in 0 .. Length : (((h + 1) % Length) + n) % Length = (h + n + 1) % Length
  <2> TAKE n \in 0 .. Length
  <2>1. At2(h + 1) + n \in 0 .. 3 * Length - 1 /\ h + n + 1 \in 0 .. 3 * Length - 1
    BY UartConstants
  <2>2. At2(At2(h + 1) + n) = At2(h + n + 1)
    BY UartConstants
  <2>3. QED
    BY <1>1, <1>2, <2>1, <2>2
<1>4. \A n \in 0 .. Length - 1 : (((h + n) % Length) + 1) % Length = (h + n + 1) % Length
  <2> TAKE n \in 0 .. Length - 1
  <2>1. At2(h + n) + 1 \in 0 .. 3 * Length - 1 /\ h + n + 1 \in 0 .. 3 * Length - 1
    BY UartConstants
  <2>2. At2(At2(h + n) + 1) = At2(h + n + 1)
    BY UartConstants
  <2>3. QED
    BY <1>1, <1>2, <2>1, <2>2, UartConstants
<1>5. \A m, n \in 0 .. Length - 1 : m < n => (h + m) % Length # (h + n) % Length
  <2>1. \A m, n \in 0 .. Length - 1 : m < n => At2(h + m) # At2(h + n)
    BY UartConstants
  <2>2. QED
    BY <1>2, <2>1, UartConstants
<1>6. QED
  BY <1>2, <1>3, <1>4, <1>5

(* A new ring                                                              *)
LEMMA EmptyFills == Fills(Empty, <<>>, 0, 0)
<1>1. 0 % Length = 0 /\ 0 <= Length
  BY UartConstants, UartWraps
<1>2. QED
  BY <1>1 DEF Fills, Empty

(* A byte is put in, and will be counted.                                  *)
LEMMA PutFills ==
    ASSUME NEW q \in RingType, NEW list \in Seq(Bytes), NEW got \in {0, 1}, NEW b \in Bytes,
           q.length < Length, got = 1 => q.length > 0, Fills(q, list, 0, got)
    PROVE  Fills([q EXCEPT !.cells[q.tail] = b, !.tail = (@ + 1) % Length],
                 Append(list, b), 1, got)
<1> DEFINE new == [q EXCEPT !.cells[q.tail] = b, !.tail = (@ + 1) % Length]
           n == Len(list)
           more == Append(list, b)
<1>1. /\ q.length \in Nat /\ q.head \in Nat /\ q.tail \in 0 .. Length - 1
      /\ q.head \in 0 .. Length - 1 /\ q.cells \in [0 .. Length - 1 -> Bytes]
  BY RingFields
<1>2. n \in 0 .. Length - 1 /\ n = q.length - got /\ n \in Nat
  <2>1. n = q.length + 0 - got
    BY DEF Fills
  <2>2. q.length - got >= 0 /\ q.length - got < Length
    BY <1>1, UartConstants
  <2>3. QED
    BY <1>1, <2>1, <2>2, UartConstants
<1>3. q.tail = (q.head + n) % Length
  BY DEF Fills
<1>4. \A i \in 1 .. n : q.cells[(q.head + i - 1) % Length] = list[i]
  BY DEF Fills
<1>5. new.length = q.length /\ new.head = q.head
  BY DEF RingType
<1>6. new.tail = (q.tail + 1) % Length
  BY DEF RingType
<1>7. new.cells = [q.cells EXCEPT ![q.tail] = b]
  BY DEF RingType
<1>8. /\ Len(more) = n + 1 /\ more[n + 1] = b
      /\ \A i \in 1 .. n : more[i] = list[i]
  OBVIOUS
<1> HIDE DEF new, more, n
<1>9. new.tail = (q.head + n + 1) % Length
  <2>1. (((q.head + n) % Length) + 1) % Length = (q.head + n + 1) % Length
    BY <1>1, <1>2, Places, Zenon
  <2>2. QED
    BY <1>3, <1>6, <2>1
<1>10. ASSUME NEW i \in 1 .. n + 1 PROVE new.cells[(q.head + i - 1) % Length] = more[i]
  <2> DEFINE m == i - 1
  <2>1. m \in 0 .. Length - 1 /\ q.head + i - 1 = q.head + m
    BY <1>1, <1>2, UartConstants
  <2>2. m \in 0 .. Length
    BY <2>1, UartConstants
  <2> HIDE DEF m
  <2>3. (q.head + m) % Length \in 0 .. Length - 1
    BY <1>1, <2>2, Places
  <2>4. CASE i = n + 1
    <3>1. m = n
      BY <1>2, <2>4 DEF m
    <3>2. new.cells[(q.head + m) % Length] = b
      BY <1>1, <1>3, <1>7, <3>1
    <3>3. QED
      BY <1>8, <2>1, <2>4, <3>2
  <2>5. CASE i # n + 1
    <3>1. m < n /\ i \in 1 .. n
      BY <1>2, <2>5 DEF m
    <3>2. (q.head + m) % Length # (q.head + n) % Length
      <4>1. \A i1, i2 \in 0 .. Length - 1 :
               i1 < i2 => (q.head + i1) % Length # (q.head + i2) % Length
        BY <1>1, Places, Zenon
      <4>2. m \in 0 .. Length - 1 /\ n \in 0 .. Length - 1 /\ m < n
        BY <1>2, <2>1, <3>1
      <4>3. QED
        BY <4>1, <4>2, Zenon
    <3>3. new.cells[(q.head + m) % Length] = q.cells[(q.head + m) % Length]
      BY <1>1, <1>3, <1>7, <2>3, <3>2
    <3>4. q.cells[(q.head + m) % Length] = list[i]
      BY <1>4, <2>1, <3>1
    <3>5. QED
      BY <1>8, <2>1, <3>1, <3>3, <3>4
  <2>6. QED
    BY <2>4, <2>5
<1>11. new.length + 1 <= Length /\ Len(more) = new.length + 1 - got
  BY <1>1, <1>2, <1>5, <1>8, UartConstants
<1>12. new.tail = (new.head + Len(more)) % Length
  <2>1. new.head + Len(more) = q.head + n + 1
    BY <1>1, <1>2, <1>5, <1>8
  <2>2. QED
    BY <1>9, <2>1
<1>13. \A i \in 1 .. Len(more) : new.cells[(new.head + i - 1) % Length] = more[i]
  BY <1>5, <1>8, <1>10
<1>14. Fills(new, more, 1, got)
  BY <1>11, <1>12, <1>13 DEF Fills
<1>15. QED
  BY <1>14 DEF new, more

(* A byte is taken out, and will be taken off the count.                   *)
LEMMA TakeFills ==
    ASSUME NEW q \in RingType, NEW list \in Seq(Bytes), NEW put \in {0, 1},
           q.length > 0, Fills(q, list, put, 0)
    PROVE  /\ list # <<>>
           /\ Fills([q EXCEPT !.head = (@ + 1) % Length], Tail(list), put, 1)
<1> DEFINE new == [q EXCEPT !.head = (@ + 1) % Length]
           n == Len(list)
           less == Tail(list)
<1>1. /\ q.length \in Nat /\ q.head \in Nat /\ q.head \in 0 .. Length - 1
  BY RingFields
<1>2. n \in 1 .. Length /\ n = q.length + put /\ n \in Nat
  BY <1>1, UartConstants DEF Fills
<1>3. q.tail = (q.head + n) % Length
  BY DEF Fills
<1>4. \A i \in 1 .. n : q.cells[(q.head + i - 1) % Length] = list[i]
  BY DEF Fills
<1>5. new.length = q.length /\ new.tail = q.tail /\ new.cells = q.cells
  BY DEF RingType
<1>6. new.head = (q.head + 1) % Length
  BY DEF RingType
<1>7. list # <<>> /\ Len(less) = n - 1 /\ \A i \in 1 .. n - 1 : less[i] = list[i + 1]
  BY <1>2
<1> HIDE DEF new, less, n
<1>8. 1 \in 0 .. Length
  BY UartConstants
<1>9. new.head \in 0 .. Length - 1
  BY <1>1, <1>6, <1>8, Places
<1>10. \A i \in 0 .. Length : (new.head + i) % Length = (q.head + i + 1) % Length
  BY <1>1, <1>6, Places
<1>11. new.tail = (new.head + Len(less)) % Length
  <2> DEFINE m == n - 1
  <2>1. m \in 0 .. Length /\ q.head + m + 1 = q.head + n
    <3>1. n \in Nat /\ n >= 1 /\ n <= Length /\ Length \in Nat
      BY <1>2, UartConstants
    <3>2. QED
      BY <1>1, <3>1
  <2>2. Len(less) = m
    BY <1>7
  <2> HIDE DEF m
  <2>3. (new.head + m) % Length = (q.head + m + 1) % Length
    BY <1>10, <2>1
  <2>4. QED
    BY <1>3, <1>5, <2>1, <2>2, <2>3
<1>12. ASSUME NEW i \in 1 .. n - 1 PROVE new.cells[(new.head + i - 1) % Length] = less[i]
  <2> DEFINE m == i - 1
             j == i + 1
  <2>1. m \in 0 .. Length /\ j \in 1 .. n /\ q.head + m + 1 = q.head + j - 1
    <3>1. n \in Nat /\ n <= Length /\ Length \in Nat
      BY <1>2, UartConstants
    <3>2. i \in Nat /\ i >= 1 /\ i <= n - 1
      BY <3>1
    <3>3. QED
      BY <1>1, <3>1, <3>2
  <2>2. new.head + i - 1 = new.head + m
    BY <1>9, UartConstants
  <2>3. less[i] = list[j]
    BY <1>7
  <2> HIDE DEF m, j
  <2>4. (new.head + m) % Length = (q.head + j - 1) % Length
    BY <1>10, <2>1
  <2>5. QED
    BY <1>4, <1>5, <2>1, <2>2, <2>3, <2>4
<1>13. new.length + put <= Length /\ Len(less) = new.length + put - 1
  BY <1>1, <1>2, <1>5, <1>7, UartConstants
<1>14. \A i \in 1 .. Len(less) : new.cells[(new.head + i - 1) % Length] = less[i]
  BY <1>7, <1>12
<1>15. Fills(new, less, put, 1)
  BY <1>11, <1>13, <1>14 DEF Fills
<1>16. QED
  BY <1>7, <1>15 DEF new, less

(* The counting                                                            *)
LEMMA CountFills ==
    ASSUME NEW q \in RingType, NEW list \in Seq(Bytes), NEW put \in {0, 1}, NEW got \in {0, 1}
    PROVE  /\ Fills(q, list, 1, got) =>
                 /\ (q.length + 1) % (SizeMax + 1) = q.length + 1
                 /\ Fills([q EXCEPT !.length = q.length + 1], list, 0, got)
           /\ Fills(q, list, put, 1) /\ q.length > 0 =>
                 /\ (q.length - 1) % (SizeMax + 1) = q.length - 1
                 /\ Fills([q EXCEPT !.length = q.length - 1], list, put, 0)
<1>1. q.length \in Sizes /\ q.length \in Nat
  BY RingFields
<1>2. \A m : LET new == [q EXCEPT !.length = m]
              IN  /\ new.length = m /\ new.head = q.head /\ new.tail = q.tail
                  /\ new.cells = q.cells
  BY DEF RingType
<1>3. ASSUME Fills(q, list, 1, got)
      PROVE  /\ (q.length + 1) % (SizeMax + 1) = q.length + 1
             /\ Fills([q EXCEPT !.length = q.length + 1], list, 0, got)
  <2>1. q.length < SizeMax
    BY <1>1, <1>3, UartConstants DEF Fills
  <2>2. (q.length + 1) % (SizeMax + 1) = q.length + 1
    BY <1>1, <2>1, UartWraps
  <2>3. q.length + 1 <= Length /\ Len(list) = q.length + 1 - got
    BY <1>3 DEF Fills
  <2>4. (q.length + 1) + 0 <= Length /\ Len(list) = (q.length + 1) + 0 - got
    BY <1>1, <2>3, UartConstants
  <2>5. QED
    BY <1>2, <1>3, <2>2, <2>4 DEF Fills
<1>4. ASSUME Fills(q, list, put, 1), q.length > 0
      PROVE  /\ (q.length - 1) % (SizeMax + 1) = q.length - 1
             /\ Fills([q EXCEPT !.length = q.length - 1], list, put, 0)
  <2>1. (q.length - 1) % (SizeMax + 1) = q.length - 1
    BY <1>1, <1>4, UartWraps
  <2>2. q.length + put <= Length /\ Len(list) = q.length + put - 1
    BY <1>4 DEF Fills
  <2>3. (q.length - 1) + put <= Length /\ Len(list) = (q.length - 1) + put - 0
    BY <1>1, <2>2, UartConstants
  <2>4. QED
    BY <1>2, <1>4, <2>1, <2>3 DEF Fills
<1>5. QED
  BY <1>3, <1>4


(* Who is at the ring: one task at most                                    *)
LEMMA OneTaker ==
    ASSUME UartTypeOK, Calling, NEW t \in Users, place[t] \in Reading
    PROVE  /\ \A u \in Users : place[u] \in {"take", "load", "store"} => u = t
           /\ Got = IF place[t] \in {"load", "store"} THEN 1 ELSE 0
BY DEF Calling, Reading, Got

(* Each is 0 or 1.                                                         *)
LEMMA PutGot == Put \in {0, 1} /\ Got \in {0, 1}
BY DEF Put, Got

(* What the ring holds depends on these only.                              *)
LEMMA FilledSame ==
    ASSUME Filled, UNCHANGED <<recv, ring, unread>>, Put' = Put, Got' = Got,
           (\E t \in Users : place'[t] \in {"take", "load", "store"}) =>
              (\E t \in Users : place[t] \in {"take", "load", "store"}) \/ ring[recv].length > 0
    PROVE  Filled'
<1>1. Fills(ring[recv], unread, Put, Got)'
  BY DEF Filled, Fills
<1>2. ring'[recv'] = ring[recv]
  OBVIOUS
<1>3. QED
  BY <1>1, <1>2 DEF Filled

(* The ring there is                                                       *)
LEMMA RingThere ==
    ASSUME UartTypeOK, recv \in live
    PROVE  recv \in Rings /\ ring[recv] \in RingType /\ ring \in [Rings -> RingType] /\ unread \in Seq(Bytes)
BY DEF UartTypeOK


(* The ring keeps what was put in and not taken out.                        *)
LEMMA FilledKept ==
    ASSUME UartTypeOK, Calling, Settled, recv \in live => Filled,
           Orderly', ~torn', recv' \in live', [UartNext]_uartVars
    PROVE  Filled'
<1>1. ASSUME NEW t \in Users, OpenUart(t) PROVE Filled'
  <2>1. recv \in live /\ UNCHANGED <<recv, ring, unread>>
    BY <1>1 DEF OpenUart
  <2>2. Put' = Put
    BY <1>1 DEF OpenUart, Put, isrVars
  <2>3. Got' = Got /\ ((\E u \in Users : place'[u] \in {"take", "load", "store"}) =>
              \E u \in Users : place[u] \in {"take", "load", "store"})
    BY <1>1 DEF OpenUart, UserAt, UserGoto, taskVars, Got, UartTypeOK
  <2>4. QED
    BY <2>1, <2>2, <2>3, FilledSame
<1>2. ASSUME NEW t \in Users, CloseUart(t) PROVE Filled'
  <2>1. recv \in live /\ UNCHANGED <<recv, ring, unread>>
    BY <1>2 DEF CloseUart
  <2>2. Put' = Put
    BY <1>2 DEF CloseUart, Put, isrVars
  <2>3. Got' = Got /\ ((\E u \in Users : place'[u] \in {"take", "load", "store"}) =>
              \E u \in Users : place[u] \in {"take", "load", "store"})
    BY <1>2 DEF CloseUart, UserAt, UserGoto, taskVars, Got, UartTypeOK
  <2>4. QED
    BY <2>1, <2>2, <2>3, FilledSame
<1>3. ASSUME NEW t \in Users, ReadUart(t) PROVE Filled'
  <2>1. recv \in live /\ UNCHANGED <<recv, ring, unread>>
    BY <1>3 DEF ReadUart
  <2>2. Put' = Put
    BY <1>3 DEF ReadUart, Put, isrVars
  <2>3. Got' = Got /\ ((\E u \in Users : place'[u] \in {"take", "load", "store"}) =>
              \E u \in Users : place[u] \in {"take", "load", "store"})
    BY <1>3 DEF ReadUart, UserAt, UserGoto, taskVars, Got, UartTypeOK
  <2>4. QED
    BY <2>1, <2>2, <2>3, FilledSame
<1>4. ASSUME NEW t \in Users, FirstClock(t) PROVE Filled'
  <2>1. recv \in live /\ UNCHANGED <<recv, ring, unread>>
    BY <1>4 DEF FirstClock
  <2>2. Put' = Put
    BY <1>4 DEF FirstClock, Put, isrVars
  <2>3. Got' = Got /\ ((\E u \in Users : place'[u] \in {"take", "load", "store"}) =>
              \E u \in Users : place[u] \in {"take", "load", "store"})
    BY <1>4 DEF FirstClock, UserAt, UserGoto, taskVars, Got, UartTypeOK
  <2>4. QED
    BY <2>1, <2>2, <2>3, FilledSame
<1>5. ASSUME NEW t \in Users, FirstRing(t) PROVE Filled'
  <2>1. place[t] = "ring" /\ opened = {}
    BY <1>5 DEF FirstRing, UserAt, Settled, Changing, Opening
  <2>2. irqAt \notin {"load", "store"} /\ \A u \in Users : place[u] \notin Reading
    BY <2>1 DEF Settled, Calling, Changing, Opening, Closing
  <2>3. PICK r \in Rings : recv' = r /\ ring' = [ring EXCEPT ![r] = Empty]
    BY <1>5 DEF FirstRing
  <2>4. ring'[recv'] = Empty /\ unread' = <<>>
    BY <1>5, <2>3 DEF FirstRing, UartTypeOK
  <2>5. Put' = 0
    BY <1>5, <2>2 DEF FirstRing, isrVars, Put
  <2>6. \A u \in Users : place'[u] \notin {"take", "load", "store"}
    BY <1>5, <2>2 DEF FirstRing, UserGoto, UartTypeOK, Reading
  <2>7. Got' = 0
    BY <2>6 DEF Got
  <2>8. Fills(ring[recv], unread, Put, Got)'
    BY <2>4, <2>5, <2>7, EmptyFills DEF Fills
  <2>9. QED
    BY <2>6, <2>8 DEF Filled
<1>6. ASSUME NEW t \in Users, FirstIrq(t) PROVE Filled'
  <2>1. recv \in live /\ UNCHANGED <<recv, ring, unread>>
    BY <1>6 DEF FirstIrq
  <2>2. Put' = Put
    BY <1>6 DEF FirstIrq, Put, isrVars
  <2>3. Got' = Got /\ ((\E u \in Users : place'[u] \in {"take", "load", "store"}) =>
              \E u \in Users : place[u] \in {"take", "load", "store"})
    BY <1>6 DEF FirstIrq, UserAt, UserGoto, taskVars, Got, UartTypeOK
  <2>4. QED
    BY <2>1, <2>2, <2>3, FilledSame
<1>7. ASSUME NEW t \in Users, LastClock(t) PROVE Filled'
  <2>1. recv \in live /\ UNCHANGED <<recv, ring, unread>>
    BY <1>7 DEF LastClock
  <2>2. Put' = Put
    BY <1>7 DEF LastClock, Put, isrVars
  <2>3. Got' = Got /\ ((\E u \in Users : place'[u] \in {"take", "load", "store"}) =>
              \E u \in Users : place[u] \in {"take", "load", "store"})
    BY <1>7 DEF LastClock, UserAt, UserGoto, taskVars, Got, UartTypeOK
  <2>4. QED
    BY <2>1, <2>2, <2>3, FilledSame
<1>8. ASSUME NEW t \in Users, LastDelete(t) PROVE Filled'
  BY <1>8 DEF LastDelete, Settled
<1>9. ASSUME NEW t \in Users, Test(t) PROVE Filled'
  <2>1. place[t] = "test" /\ mine[t] = recv /\ recv \in live /\ UNCHANGED <<recv, ring, unread>>
    BY <1>9 DEF Test, UserAt, Settled, Reading
  <2>2. place' = [place EXCEPT ![t] = IF ring[recv].length # 0 THEN "take" ELSE "wait"]
    BY <1>9, <2>1 DEF Test, UserGoto
  <2>3. Put' = Put
    BY <1>9 DEF Test, Put, isrVars
  <2>4. Got' = Got
    BY <2>1, <2>2 DEF Got, UartTypeOK
  <2>5. ring[recv].length \in Nat
    BY <2>1, RingThere, RingFields
  <2>6. (\E u \in Users : place'[u] \in {"take", "load", "store"}) =>
           (\E u \in Users : place[u] \in {"take", "load", "store"}) \/ ring[recv].length > 0
    <3>1. CASE ring[recv].length > 0
      BY <3>1
    <3>2. CASE ring[recv].length = 0
      BY <2>1, <2>2, <3>2 DEF UartTypeOK
    <3>3. QED
      BY <2>5, <3>1, <3>2
  <2>7. QED
    BY <2>1, <2>3, <2>4, <2>6, FilledSame
<1>10. ASSUME NEW t \in Users, TakeByte(t) PROVE Filled'
  <2>1. place[t] = "take" /\ mine[t] = recv /\ recv \in live /\ recv' = recv
    BY <1>10 DEF TakeByte, UserAt, Settled, Reading
  <2> DEFINE q == ring[recv]
             new == [q EXCEPT !.head = (@ + 1) % Length]
  <2>2. recv \in Rings /\ q \in RingType /\ ring \in [Rings -> RingType] /\ unread \in Seq(Bytes)
    BY <2>1, RingThere
  <2>3. ring' = [ring EXCEPT ![recv] = new]
    BY <1>10, <2>1 DEF TakeByte
  <2>4. ring'[recv'] = new
    BY <2>1, <2>2, <2>3
  <2>5. Got = 0
    BY <2>1, OneTaker DEF Reading
  <2>6. Got' = 1
    BY <1>10 DEF TakeByte, UserGoto, Got, UartTypeOK
  <2>7. Put' = Put
    BY <1>10 DEF TakeByte, isrVars, Put
  <2>8. q.length > 0 /\ Fills(q, unread, Put, 0)
    BY <2>1, <2>5 DEF Filled
  <2>9. unread # <<>> /\ Fills(new, Tail(unread), Put, 1)
    BY <2>2, <2>8, TakeFills, PutGot
  <2>10. unread' = Tail(unread)
    BY <1>10, <2>9 DEF TakeByte
  <2>11. Fills(ring[recv], unread, Put, Got)'
    BY <2>4, <2>6, <2>7, <2>9, <2>10 DEF Fills
  <2>12. new.length = q.length
    BY <2>2 DEF RingType
  <2>13. QED
    BY <2>4, <2>8, <2>11, <2>12 DEF Filled
<1>11. ASSUME NEW t \in Users, LoadLength(t) PROVE Filled'
  <2>1. recv \in live /\ UNCHANGED <<recv, ring, unread>>
    BY <1>11 DEF LoadLength
  <2>2. Put' = Put
    BY <1>11 DEF LoadLength, Put, isrVars
  <2>3. Got' = Got /\ ((\E u \in Users : place'[u] \in {"take", "load", "store"}) =>
              \E u \in Users : place[u] \in {"take", "load", "store"})
    BY <1>11 DEF LoadLength, UserAt, UserGoto, taskVars, Got, UartTypeOK
  <2>4. QED
    BY <2>1, <2>2, <2>3, FilledSame
<1>12. ASSUME NEW t \in Users, StoreLength(t) PROVE Filled'
  <2>1. place[t] = "store" /\ mine[t] = recv /\ recv \in live /\ recv' = recv
    BY <1>12 DEF StoreLength, UserAt, Settled, Reading
  <2> DEFINE q == ring[recv]
             new == [q EXCEPT !.length = q.length - 1]
  <2>2. recv \in Rings /\ q \in RingType /\ ring \in [Rings -> RingType] /\ unread \in Seq(Bytes)
    BY <2>1, RingThere
  <2>3. q.length = loaded[t] /\ unread' = unread
    BY <1>12, <2>1 DEF StoreLength
  <2>4. Got = 1 /\ \A u \in Users : place[u] \in {"take", "load", "store"} => u = t
    BY <2>1, OneTaker DEF Reading
  <2>5. place' = [place EXCEPT ![t] = IF want[t] = 1 THEN "idle" ELSE "test"]
    BY <1>12 DEF StoreLength, UserGoto
  <2>6. \A u \in Users : place'[u] \notin {"take", "load", "store"}
    BY <2>4, <2>5 DEF UartTypeOK
  <2>7. Got' = 0
    BY <2>6 DEF Got
  <2>8. Put' = Put
    BY <1>12 DEF StoreLength, isrVars, Put
  <2>9. q.length > 0 /\ Fills(q, unread, Put, 1)
    BY <2>1, <2>4 DEF Filled
  <2>10. (q.length - 1) % (SizeMax + 1) = q.length - 1 /\ Fills(new, unread, Put, 0)
    BY <2>2, <2>9, CountFills, PutGot
  <2>11. ring' = [ring EXCEPT ![recv] = [q EXCEPT !.length = (loaded[t] - 1) % (SizeMax + 1)]]
    BY <1>12, <2>1 DEF StoreLength
  <2>12. ring'[recv'] = new
    BY <2>1, <2>2, <2>3, <2>10, <2>11
  <2>13. Fills(ring[recv], unread, Put, Got)'
    BY <2>3, <2>7, <2>8, <2>10, <2>12 DEF Fills
  <2>14. QED
    BY <2>6, <2>13 DEF Filled
<1>13. ASSUME NEW t \in Users, TakeEvent(t) PROVE Filled'
  <2>1. recv \in live /\ UNCHANGED <<recv, ring, unread>>
    BY <1>13 DEF TakeEvent
  <2>2. Put' = Put
    BY <1>13 DEF TakeEvent, Put, isrVars
  <2>3. Got' = Got /\ ((\E u \in Users : place'[u] \in {"take", "load", "store"}) =>
              \E u \in Users : place[u] \in {"take", "load", "store"})
    BY <1>13 DEF TakeEvent, UserAt, UserGoto, taskVars, Got, UartTypeOK
  <2>4. QED
    BY <2>1, <2>2, <2>3, FilledSame
<1>14. ASSUME NEW t \in Users, ReadTimesOut(t) PROVE Filled'
  <2>1. recv \in live /\ UNCHANGED <<recv, ring, unread>>
    BY <1>14 DEF ReadTimesOut
  <2>2. Put' = Put
    BY <1>14 DEF ReadTimesOut, Put, isrVars
  <2>3. Got' = Got /\ ((\E u \in Users : place'[u] \in {"take", "load", "store"}) =>
              \E u \in Users : place[u] \in {"take", "load", "store"})
    BY <1>14 DEF ReadTimesOut, UserAt, UserGoto, taskVars, Got, UartTypeOK
  <2>4. QED
    BY <2>1, <2>2, <2>3, FilledSame
<1>15. CASE Arrive
  <2>1. recv \in live /\ UNCHANGED <<recv, ring, unread>>
    BY <1>15 DEF Arrive
  <2>2. Put' = Put
    BY <1>15 DEF Arrive, Put, isrVars
  <2>3. Got' = Got /\ ((\E u \in Users : place'[u] \in {"take", "load", "store"}) =>
              \E u \in Users : place[u] \in {"take", "load", "store"})
    BY <1>15 DEF Arrive, taskVars, Got, UartTypeOK
  <2>4. QED
    BY <2>1, <2>2, <2>3, FilledSame
<1>16. CASE Interrupt
  <2>1. recv \in live /\ UNCHANGED <<recv, ring, unread>>
    BY <1>16 DEF Interrupt
  <2>2. Put' = Put
    BY <1>16 DEF Interrupt, IsrAt, Put
  <2>3. Got' = Got /\ ((\E u \in Users : place'[u] \in {"take", "load", "store"}) =>
              \E u \in Users : place[u] \in {"take", "load", "store"})
    BY <1>16 DEF Interrupt, taskVars, Got, UartTypeOK
  <2>4. QED
    BY <2>1, <2>2, <2>3, FilledSame
<1>17. CASE IsrByte
  <2>1. recv \in live /\ recv' = recv /\ irqAt = "loop" /\ UNCHANGED place
    BY <1>17 DEF IsrByte, IsrAt, Orderly, taskVars
  <2>2. Got' = Got /\ Put = 0
    BY <2>1 DEF Got, Put
  <2>3. CASE ~HasRoom(recv)
    <3>1. UNCHANGED <<ring, unread, irqAt>>
      BY <1>17, <2>3 DEF IsrByte
    <3>2. Put' = Put
      BY <3>1 DEF Put
    <3>3. QED
      BY <2>1, <2>2, <3>1, <3>2, FilledSame
  <2>4. CASE HasRoom(recv)
    <3> DEFINE q == ring[recv]
               b == Head(fifo)
               new == [q EXCEPT !.cells[q.tail] = b, !.tail = (@ + 1) % Length]
    <3>1. recv \in Rings /\ q \in RingType /\ ring \in [Rings -> RingType] /\ unread \in Seq(Bytes)
      BY <2>1, RingThere
    <3>2. b \in Bytes
      BY <1>17 DEF IsrByte, UartTypeOK
    <3>3. ring' = [ring EXCEPT ![recv] = new]
      BY <1>17, <2>1, <2>4, <3>1 DEF IsrByte
    <3>4. unread' = Append(unread, b) /\ irqAt' = "load"
      BY <1>17, <2>1, <2>4 DEF IsrByte
    <3>5. Put' = 1
      BY <3>4 DEF Put
    <3>6. q.length < Length /\ Fills(q, unread, 0, Got)
      BY <2>1, <2>2, <2>4 DEF HasRoom, Filled
    <3>7. Got = 1 => q.length > 0
      BY <2>1 DEF Got, Filled
    <3>8. Fills(new, Append(unread, b), 1, Got)
      BY <3>1, <3>2, <3>6, <3>7, PutFills, PutGot
    <3>9. ring'[recv'] = new
      BY <2>1, <3>1, <3>3
    <3>10. Fills(ring[recv], unread, Put, Got)'
      BY <2>2, <3>4, <3>5, <3>8, <3>9 DEF Fills
    <3>11. new.length = q.length
      BY <3>1 DEF RingType
    <3>12. QED
      BY <2>1, <3>9, <3>10, <3>11 DEF Filled
  <2>5. QED
    BY <2>3, <2>4
<1>18. CASE IsrLoad
  <2>1. recv \in live /\ UNCHANGED <<recv, ring, unread>>
    BY <1>18 DEF IsrLoad
  <2>2. Put' = Put
    BY <1>18 DEF IsrLoad, IsrAt, Put
  <2>3. Got' = Got /\ ((\E u \in Users : place'[u] \in {"take", "load", "store"}) =>
              \E u \in Users : place[u] \in {"take", "load", "store"})
    BY <1>18 DEF IsrLoad, taskVars, Got, UartTypeOK
  <2>4. QED
    BY <2>1, <2>2, <2>3, FilledSame
<1>19. CASE IsrStore
  <2>1. iring = recv /\ recv \in live /\ recv' = recv /\ irqAt = "store" /\ UNCHANGED place
    BY <1>19 DEF IsrStore, IsrAt, Settled, taskVars
  <2> DEFINE q == ring[recv]
             new == [q EXCEPT !.length = q.length + 1]
  <2>2. recv \in Rings /\ q \in RingType /\ ring \in [Rings -> RingType] /\ unread \in Seq(Bytes)
    BY <2>1, RingThere
  <2>3. q.length = iloaded /\ unread' = unread
    BY <1>19, <2>1 DEF IsrStore
  <2>4. Got' = Got /\ Put = 1
    BY <2>1 DEF Got, Put
  <2>5. Put' = 0
    BY <1>19 DEF IsrStore, Put
  <2>6. Fills(q, unread, 1, Got)
    BY <2>1, <2>4 DEF Filled
  <2>7. (q.length + 1) % (SizeMax + 1) = q.length + 1 /\ Fills(new, unread, 0, Got)
    BY <2>2, <2>6, CountFills, PutGot
  <2>8. ring' = [ring EXCEPT ![recv] = [q EXCEPT !.length = (iloaded + 1) % (SizeMax + 1)]]
    BY <1>19, <2>1 DEF IsrStore
  <2>9. ring'[recv'] = new
    BY <2>1, <2>2, <2>3, <2>7, <2>8
  <2>10. Fills(ring[recv], unread, Put, Got)'
    BY <2>3, <2>4, <2>5, <2>7, <2>9 DEF Fills
  <2>11. new.length > 0
    <3>1. q.length \in Nat /\ new.length = q.length + 1
      BY <2>2, RingFields DEF RingType
    <3>2. QED
      BY <3>1
  <2>12. QED
    BY <2>9, <2>10, <2>11 DEF Filled
<1>20. CASE IsrEmpty
  <2>1. recv \in live /\ UNCHANGED <<recv, ring, unread>>
    BY <1>20 DEF IsrEmpty
  <2>2. Put' = Put
    BY <1>20 DEF IsrEmpty, IsrAt, Put
  <2>3. Got' = Got /\ ((\E u \in Users : place'[u] \in {"take", "load", "store"}) =>
              \E u \in Users : place[u] \in {"take", "load", "store"})
    BY <1>20 DEF IsrEmpty, taskVars, Got, UartTypeOK
  <2>4. QED
    BY <2>1, <2>2, <2>3, FilledSame
<1>21. CASE IsrGive
  <2>1. recv \in live /\ UNCHANGED <<recv, ring, unread>>
    BY <1>21 DEF IsrGive
  <2>2. Put' = Put
    BY <1>21 DEF IsrGive, IsrAt, Put
  <2>3. Got' = Got /\ ((\E u \in Users : place'[u] \in {"take", "load", "store"}) =>
              \E u \in Users : place[u] \in {"take", "load", "store"})
    BY <1>21 DEF IsrGive, taskVars, Got, UartTypeOK
  <2>4. QED
    BY <2>1, <2>2, <2>3, FilledSame
<1>22. CASE UNCHANGED uartVars
  <2>1. UNCHANGED <<recv, live, ring, unread, irqAt, place>>
    BY <1>22 DEF uartVars, taskVars, isrVars
  <2>2. Put' = Put /\ Got' = Got
    BY <2>1 DEF Put, Got
  <2>3. QED
    BY <2>1, <2>2, FilledSame
<1>23. QED
  BY <1>1, <1>2, <1>3, <1>4, <1>5, <1>6, <1>7, <1>8, <1>9, <1>10, <1>11, <1>12, <1>13, <1>14,
     <1>15, <1>16, <1>17, <1>18, <1>19, <1>20, <1>21, <1>22
     DEF UartNext, UserCall, UserStep, RecvHandler


(* A reader that waits is woken.                                            *)
LEMMA WokenKept ==
    ASSUME UartTypeOK, Calling, ReaderIsWoken, [UartNext]_uartVars
    PROVE  ReaderIsWoken'
<1>1. ASSUME NEW t \in Users, OpenUart(t) PROVE ReaderIsWoken'
  BY <1>1
     DEF OpenUart, UserAt, UserGoto, taskVars, portVars, isrVars, blame, ReaderIsWoken, UserAt,
         UartTypeOK
<1>2. ASSUME NEW t \in Users, CloseUart(t) PROVE ReaderIsWoken'
  BY <1>2
     DEF CloseUart, UserAt, UserGoto, taskVars, portVars, isrVars, blame, ReaderIsWoken, UserAt,
         UartTypeOK
<1>3. ASSUME NEW t \in Users, ReadUart(t) PROVE ReaderIsWoken'
  <2>1. \A u \in Users : place'[u] # "wait"
    BY <1>3 DEF ReadUart, UserGoto, UartTypeOK, Reading
  <2>2. QED
    BY <2>1 DEF ReaderIsWoken, UserAt
<1>4. ASSUME NEW t \in Users, FirstClock(t) PROVE ReaderIsWoken'
  BY <1>4
     DEF FirstClock, UserAt, UserGoto, taskVars, portVars, isrVars, blame, ReaderIsWoken,
         UserAt, UartTypeOK
<1>5. ASSUME NEW t \in Users, FirstRing(t) PROVE ReaderIsWoken'
  <2>1. PICK r \in Rings \ live : ring' = [ring EXCEPT ![r] = Empty] /\ live' = live \cup {r}
    BY <1>5 DEF FirstRing
  <2>2. UNCHANGED <<event, irqAt, astray, mine>> /\ \A u \in Users : place'[u] = "wait" => place[u] = "wait"
    BY <1>5 DEF FirstRing, UserGoto, isrVars, UartTypeOK
  <2>3. Empty.length = 0
    BY DEF Empty
  <2>4. \A u \in Users : mine[u] = r => ring'[mine[u]].length = 0
    BY <2>1, <2>3 DEF UartTypeOK
  <2>5. \A u \in Users : mine[u] # r => ring'[mine[u]] = ring[mine[u]]
    BY <2>1 DEF UartTypeOK
  <2>6. QED
    BY <2>1, <2>2, <2>4, <2>5 DEF ReaderIsWoken, UserAt
<1>6. ASSUME NEW t \in Users, FirstIrq(t) PROVE ReaderIsWoken'
  BY <1>6
     DEF FirstIrq, UserAt, UserGoto, taskVars, portVars, isrVars, blame, ReaderIsWoken, UserAt,
         UartTypeOK
<1>7. ASSUME NEW t \in Users, LastClock(t) PROVE ReaderIsWoken'
  BY <1>7
     DEF LastClock, UserAt, UserGoto, taskVars, portVars, isrVars, blame, ReaderIsWoken, UserAt,
         UartTypeOK
<1>8. ASSUME NEW t \in Users, LastDelete(t) PROVE ReaderIsWoken'
  BY <1>8
     DEF LastDelete, UserAt, UserGoto, taskVars, portVars, isrVars, blame, ReaderIsWoken,
         UserAt, UartTypeOK
<1>9. ASSUME NEW t \in Users, Test(t) PROVE ReaderIsWoken'
  <2>1. UNCHANGED <<event, irqAt, live, ring, mine>>
    BY <1>9 DEF Test, isrVars
  <2>2. \A u \in Users : place'[u] = "wait" /\ u # t => place[u] = "wait"
    BY <1>9 DEF Test, UserGoto, UartTypeOK
  <2>3. place'[t] = "wait" => ring[mine[t]].length = 0
    BY <1>9 DEF Test, UserAt, UserGoto, UartTypeOK
  <2>4. ~astray
    BY <1>9 DEF Test, UserAt
  <2>5. QED
    BY <2>1, <2>2, <2>3, <2>4 DEF ReaderIsWoken, UserAt
<1>10. ASSUME NEW t \in Users, TakeByte(t) PROVE ReaderIsWoken'
  <2>1. \A u \in Users : place'[u] # "wait"
    BY <1>10 DEF TakeByte, UserAt, UserGoto, Calling, Reading, UartTypeOK
  <2>2. QED
    BY <2>1 DEF ReaderIsWoken, UserAt
<1>11. ASSUME NEW t \in Users, LoadLength(t) PROVE ReaderIsWoken'
  BY <1>11
     DEF LoadLength, UserAt, UserGoto, taskVars, portVars, isrVars, blame, ReaderIsWoken,
         UserAt, UartTypeOK
<1>12. ASSUME NEW t \in Users, StoreLength(t) PROVE ReaderIsWoken'
  <2>1. \A u \in Users : place'[u] # "wait"
    BY <1>12 DEF StoreLength, UserAt, UserGoto, Calling, Reading, UartTypeOK
  <2>2. QED
    BY <2>1 DEF ReaderIsWoken, UserAt
<1>13. ASSUME NEW t \in Users, TakeEvent(t) PROVE ReaderIsWoken'
  <2>1. \A u \in Users : place'[u] # "wait"
    BY <1>13 DEF TakeEvent, UserAt, UserGoto, Calling, Reading, UartTypeOK
  <2>2. QED
    BY <2>1 DEF ReaderIsWoken, UserAt
<1>14. ASSUME NEW t \in Users, ReadTimesOut(t) PROVE ReaderIsWoken'
  <2>1. \A u \in Users : place'[u] # "wait"
    BY <1>14 DEF ReadTimesOut, UserAt, UserGoto, Calling, Reading, UartTypeOK
  <2>2. QED
    BY <2>1 DEF ReaderIsWoken, UserAt
<1>15. CASE Arrive
  BY <1>15
     DEF Arrive, taskVars, portVars, isrVars, blame, ReaderIsWoken, UserAt, UartTypeOK
<1>16. CASE Interrupt
  BY <1>16
     DEF Interrupt, IsrAt, taskVars, portVars, isrVars, blame, ReaderIsWoken, UserAt, UartTypeOK
<1>17. CASE IsrByte
  <2>1. irqAt' # "idle"
    BY <1>17 DEF IsrByte, IsrAt
  <2>2. QED
    BY <2>1 DEF ReaderIsWoken
<1>18. CASE IsrLoad
  BY <1>18
     DEF IsrLoad, IsrAt, taskVars, portVars, isrVars, blame, ReaderIsWoken, UserAt, UartTypeOK
<1>19. CASE IsrStore
  <2>1. irqAt' # "idle"
    BY <1>19 DEF IsrStore
  <2>2. QED
    BY <2>1 DEF ReaderIsWoken
<1>20. CASE IsrEmpty
  BY <1>20
     DEF IsrEmpty, IsrAt, taskVars, portVars, isrVars, blame, ReaderIsWoken, UserAt, UartTypeOK
<1>21. CASE IsrGive
  BY <1>21
     DEF IsrGive, IsrAt, taskVars, portVars, isrVars, blame, ReaderIsWoken, UserAt, UartTypeOK
<1>22. CASE UNCHANGED uartVars
  BY <1>22
     DEF uartVars, taskVars, portVars, isrVars, blame, ReaderIsWoken, UserAt, UartTypeOK
<1>23. QED
  BY <1>1, <1>2, <1>3, <1>4, <1>5, <1>6, <1>7, <1>8, <1>9, <1>10, <1>11, <1>12, <1>13, <1>14,
     <1>15, <1>16, <1>17, <1>18, <1>19, <1>20, <1>21, <1>22
     DEF UartNext, UserCall, UserStep, RecvHandler


-----------------------------------------------------------------------------
(* The theorems                                                            *)

(* The invariant holds at first.                                           *)
LEMMA UartInvInit == UartInit => UartInv
<1> SUFFICES ASSUME UartInit PROVE UartInv
  OBVIOUS
<1>1. UartTypeOK
  <2>1. ring \in [Rings -> RingType]
    BY EmptyType DEF UartInit
  <2>2. /\ fifo \in Seq(Bytes) /\ Len(fifo) <= Depth /\ unread \in Seq(Bytes)
        /\ count \in Nat /\ opens \in 0 .. MaxOpens
    BY UartConstants DEF UartInit
  <2>3. /\ place \in [Users -> UartLabels] /\ mine \in [Users -> Rings \cup {NoRing}]
        /\ irqAt \in {"idle", "loop", "load", "store", "give"}
    BY DEF UartInit, UartLabels
  <2>4. /\ loaded \in [Users -> Sizes] /\ want \in [Users -> 0 .. MaxRead]
        /\ iloaded \in Sizes /\ next \in Bytes
    BY UartConstants DEF UartInit
  <2>5. QED
    BY <2>1, <2>2, <2>3, <2>4 DEF UartInit, UartTypeOK
<1>2. Guests = {}
  BY DEF UartInit, Guests, Opening
<1>3. Counted
  BY <1>2, FS_EmptySet DEF UartInit, Counted
<1>4. Calling
  BY DEF UartInit, Calling, Opening, Closing, Reading
<1>5. Settled
  BY UartConstants DEF UartInit, Settled, Changing, Opening, Closing, Reading
<1>6. First
  BY DEF UartInit, First, Opening
<1>7. StrayOnlyIf /\ ReaderIsWoken /\ recv \notin live
  BY DEF UartInit, StrayOnlyIf, ReaderIsWoken, UserAt
<1>8. QED
  BY <1>1, <1>3, <1>4, <1>5, <1>6, <1>7 DEF UartInv

(* Every step keeps the invariant.                                         *)
LEMMA UartInvKept == UartInv /\ [UartNext]_uartVars => UartInv'
<1> SUFFICES ASSUME UartInv, [UartNext]_uartVars PROVE UartInv'
  OBVIOUS
<1>1. UartTypeOK /\ Counted /\ Calling /\ StrayOnlyIf /\ ReaderIsWoken
  BY DEF UartInv
<1>2. UartTypeOK' /\ Counted' /\ Calling' /\ StrayOnlyIf' /\ ReaderIsWoken'
  <2>1. Orderly => Settled
    BY DEF UartInv
  <2>2. Orderly /\ ~reopened => First
    BY DEF UartInv
  <2>3. QED
    BY <1>1, <2>1, <2>2, UartTypesKept, CountedKept, ShapeKept, StrayKept, WokenKept
<1>3. Orderly' => Orderly /\ Settled
  BY <1>1, Orderliness DEF UartInv
<1>4. Orderly' => Settled'
  BY <1>1, <1>3, SettledKept
<1>5. ASSUME Orderly', ~reopened' PROVE First'
  <2>1. ~reopened
    BY <1>5, <1>1, Histories
  <2>2. First
    BY <1>3, <1>5, <2>1 DEF UartInv
  <2>3. QED
    BY <1>1, <1>3, <1>5, <2>2, FirstKept
<1>6. ASSUME Orderly', ~torn', recv' \in live' PROVE Filled'
  <2>1. ~torn
    BY <1>6, <1>1, Histories
  <2>2. recv \in live => Filled
    BY <1>3, <1>6, <2>1 DEF UartInv
  <2>3. QED
    BY <1>1, <1>3, <1>6, <2>2, FilledKept
<1>7. QED
  BY <1>2, <1>4, <1>5, <1>6 DEF UartInv

(* The invariant is one of the specification: every variable has its type, *)
(* used_count_ is the number of those who have the port open, at most one  *)
(* task reads, and, until calls come in each other's way, there is a ring  *)
(* from the first open to the last close (free_object_access and uart.cpp).*)
THEOREM UartInvariantCorrect == UartSpec => []UartInv
BY UartInvInit, UartInvKept, PTL DEF UartSpec

(* The bytes from head to tail are those put in and not taken out.         *)
LEMMA BytesFollow ==
    ASSUME UartInv, Undisturbed, ~astray, recv \in live
    PROVE  Contents(recv) = unread
<1>1. Settled /\ Filled /\ UartTypeOK
  BY DEF UartInv, Undisturbed, Orderly
<1>2. Size(recv) = ring[recv].length + Put - Got
  <2>1. irqAt \in {"load", "store"} => iring = recv
    BY <1>1 DEF Settled
  <2>2. \A t \in Users : place[t] \in {"load", "store"} => mine[t] = recv
    BY <1>1 DEF Settled, Reading
  <2>3. (\E t \in Users : place[t] \in {"load", "store"} /\ mine[t] = recv)
           <=> \E t \in Users : place[t] \in {"load", "store"}
    BY <2>2
  <2>4. QED
    BY <2>1, <2>3 DEF Size, Put, Got
<1>3. /\ Size(recv) = Len(unread) /\ unread \in Seq(Bytes)
      /\ \A i \in 1 .. Len(unread) : ring[recv].cells[(ring[recv].head + i - 1) % Length] = unread[i]
  BY <1>1, <1>2 DEF Filled, Fills, UartTypeOK
<1>4. unread = [i \in 1 .. Len(unread) |-> unread[i]]
  BY <1>3
<1>5. QED
  BY <1>3, <1>4 DEF Contents

(* A task reads the bytes that the handler of the serial port has put into *)
(* the ring, each once and in their order, while no update of length is    *)
(* lost and no call comes in another's way; and a ring that is not there   *)
(* is used in the cases named only. For any number of tasks, bytes, opens. *)
THEOREM BytesInOrderCorrect == UartSpec => []BytesInOrder
<1>1. UartInv => BytesInOrder
  BY BytesFollow DEF UartInv, BytesInOrder
<1>2. QED
  BY <1>1, UartInvariantCorrect, PTL

(* A reader that waits while there are bytes has its event, or the handler *)
(* is about to give it, whatever else has gone wrong: the one event stands *)
(* for any number of bytes (on_irq_apbuart_recv, read_ringbuff).           *)
THEOREM ReaderIsWokenCorrect == UartSpec => []ReaderIsWoken
<1>1. UartInv => ReaderIsWoken
  BY DEF UartInv
<1>2. QED
  BY <1>1, UartInvariantCorrect, PTL
=============================================================================

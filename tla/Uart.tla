------------------------------- MODULE Uart -------------------------------
(***************************************************************************)
(* A serial port: k_uart_driver of lib/bsp/device/uart.cpp, opened and     *)
(* closed through free_object_access (lib/freertos/kernel/driver_impl.cpp) *)
(* and called back through pic_callbacks (lib/freertos/kernel/devices.cpp).*)
(*                                                                         *)
(* The first opener allocates the receive ring and enables the interrupt;  *)
(* the last one to close deletes the ring. The handler, on core 0, moves   *)
(* bytes from the port into the ring and gives receive_event_; a task, on  *)
(* either core, takes them out. Both update the ring's length by a load    *)
(* and a store that nothing protects. What happens then, and what happens  *)
(* when a ring is used that is not there, is recorded in history variables *)
(* so that the properties can say exactly what goes wrong when. A give or  *)
(* take of receive_event_ is one step, also against the other core, which  *)
(* is an assumption: Queue shows it of one core.                           *)
(***************************************************************************)
EXTENDS Integers, Sequences, FiniteSets

CONSTANTS Users,    \* the tasks
          Rings,    \* bound: the rings that there is memory for
          NoRing,
          Length,   \* RINGBUFF_LEN
          SizeMax,  \* SIZE_MAX
          Depth,    \* the port's own FIFO
          MaxRead,  \* bound: bytes a task asks for
          MaxOpens  \* bound: opens in a run

ASSUME UartAssumption ==
    /\ IsFiniteSet(Users) /\ NoRing \notin Rings
    /\ Length \in Nat \ {0} /\ SizeMax \in Nat /\ Length <= SizeMax
    /\ Depth \in Nat \ {0} /\ MaxRead \in Nat \ {0} /\ MaxOpens \in Nat

(* Enough different bytes to tell any two in the port and the ring apart *)
Bytes == 0 .. Length + Depth + 1
Sizes == 0 .. SizeMax    \* size_t

VARIABLES
    count,    \* used_count_
    clock,    \* the port's clock is enabled
    handler,  \* the interrupt is enabled and has its handler
    recv,     \* recv_buf_
    live,     \* the rings that are allocated
    ring,     \* their contents
    event,    \* receive_event_, a binary semaphore
    fifo,     \* received by the port and not read from it
    next,     \* the next byte on the line
    place,    \* where a task is
    mine,     \* the ring it reads
    loaded,   \* the length it has loaded
    want,     \* bytes it still wants
    opened,   \* the tasks whose open has returned
    irqAt,    \* where the handler is
    iring,    \* the ring it writes
    iloaded,  \* the length it has loaded
    opens,    \* history: opens so far
    unread,   \* history: bytes put into the ring and not taken out
    torn,     \* history: an update of length was lost
    reopened, \* history: there was a first open after a last close
    overlap,  \* history: a call overlapped a first open or a last close
    cut,      \* history: a last close overlapped the handler
    astray    \* a ring was used that is not allocated

taskVars == <<place, mine, loaded, want, opened, opens>>
portVars == <<clock, fifo, next>>
isrVars == <<irqAt, iring, iloaded>>
blame == <<reopened, overlap, cut>>
uartVars == <<count, handler, recv, live, ring, event, unread, torn, astray,
          taskVars, portVars, isrVars, blame>>

Empty == [head |-> 0, tail |-> 0, length |-> 0, cells |-> [i \in 0 .. Length - 1 |-> 0]]

UartLabels == {"idle", "first", "ring", "irq", "off", "delete",
           "test", "take", "load", "store", "wait"}

Opening == {"first", "ring", "irq"}
Closing == {"off", "delete"}
Reading == {"test", "take", "load", "store", "wait"}

(* What happens after a stray access is undefined: nothing is said of it. *)
UserAt(t, l) == ~astray /\ place[t] = l
UserGoto(t, l) == place' = [place EXCEPT ![t] = l]
IsrAt(l) == ~astray /\ irqAt = l

UartInit ==
    /\ count = 0 /\ clock = FALSE /\ handler = FALSE
    /\ recv = NoRing /\ live = {} /\ ring = [r \in Rings |-> Empty]
    /\ event = FALSE /\ fifo = <<>> /\ next = 0
    /\ place = [t \in Users |-> "idle"] /\ mine = [t \in Users |-> NoRing]
    /\ loaded = [t \in Users |-> 0] /\ want = [t \in Users |-> 0]
    /\ opened = {} /\ opens = 0
    /\ irqAt = "idle" /\ iring = NoRing /\ iloaded = 0
    /\ unread = <<>> /\ torn = FALSE /\ astray = FALSE
    /\ reopened = FALSE /\ overlap = FALSE /\ cut = FALSE

-----------------------------------------------------------------------------
(* Faults: no specification uses them. *)

(* The handler gives receive_event_ only if the ring was empty before. *)
GiveWhenFirst ==
    /\ IsrAt("give")
    /\ event' = (event \/ (recv \in live /\ ring[recv].length = 1))
    /\ irqAt' = "idle"
    /\ UNCHANGED <<count, handler, recv, live, ring, unread, torn, astray,
                   taskVars, portVars, iring, iloaded, blame>>

(* A full ring takes one byte more. *)
RoomForOneMore(r) == ring[r].length <= Length

(* The last but one to close deletes the ring. *)
CloseEarly(t) ==
    /\ UserAt(t, "idle") /\ t \in opened
    /\ opened' = opened \ {t}
    /\ count' = count - 1
    /\ UserGoto(t, IF count <= 2 THEN "off" ELSE "idle")
    /\ overlap' = (overlap \/ \E u \in Users : place[u] \in Opening \cup Closing)
    /\ UNCHANGED <<handler, recv, live, ring, event, unread, torn, astray,
                   mine, loaded, want, opens, portVars, isrVars, reopened, cut>>

-----------------------------------------------------------------------------
(* free_object_access::open and close *)

OpenUart(t) ==
    /\ UserAt(t, "idle") /\ t \notin opened /\ opens < MaxOpens
    /\ opens' = opens + 1
    /\ count' = count + 1
    /\ UserGoto(t, IF count = 0 THEN "first" ELSE "idle")
    /\ opened' = IF count = 0 THEN opened ELSE opened \cup {t}
    /\ overlap' = (overlap \/ \E u \in Users : place[u] \in Opening \cup Closing)
    /\ reopened' = (reopened \/ (count = 0 /\ handler))
    /\ UNCHANGED <<handler, recv, live, ring, event, unread, torn, astray,
                   mine, loaded, want, portVars, isrVars, cut>>

(* on_first_open: sysctl_clock_enable, *)
FirstClock(t) ==
    /\ UserAt(t, "first")
    /\ clock' = TRUE
    /\ UserGoto(t, "ring")
    /\ UNCHANGED <<count, handler, recv, live, ring, event, unread, torn,
                   astray, mine, loaded, want, opened, opens, fifo, next,
                   isrVars, blame>>

(* a new ring, *)
FirstRing(t) ==
    /\ UserAt(t, "ring")
    /\ \E r \in Rings \ live :
         /\ recv' = r
         /\ live' = live \cup {r}
         /\ ring' = [ring EXCEPT ![r] = Empty]
    /\ unread' = <<>>
    /\ UserGoto(t, "irq")
    /\ UNCHANGED <<count, handler, event, torn, astray, mine, loaded, want,
                   opened, opens, portVars, isrVars, blame>>

(* pic_set_irq_handler and pic_set_irq_enable. config follows at once. *)
FirstIrq(t) ==
    /\ UserAt(t, "irq")
    /\ handler' = TRUE
    /\ opened' = opened \cup {t}
    /\ UserGoto(t, "idle")
    /\ UNCHANGED <<count, recv, live, ring, event, unread, torn, astray, mine,
                   loaded, want, opens, portVars, isrVars, blame>>

CloseUart(t) ==
    /\ UserAt(t, "idle") /\ t \in opened
    /\ opened' = opened \ {t}
    /\ count' = count - 1
    /\ UserGoto(t, IF count = 1 THEN "off" ELSE "idle")
    /\ overlap' = (overlap \/ \E u \in Users : place[u] \in Opening \cup Closing)
    /\ UNCHANGED <<handler, recv, live, ring, event, unread, torn, astray,
                   mine, loaded, want, opens, portVars, isrVars, reopened, cut>>

(* on_last_close: sysctl_clock_disable; the interrupt stays enabled. *)
LastClock(t) ==
    /\ UserAt(t, "off")
    /\ clock' = FALSE
    /\ UserGoto(t, "delete")
    /\ UNCHANGED <<count, handler, recv, live, ring, event, unread, torn,
                   astray, mine, loaded, want, opened, opens, fifo, next,
                   isrVars, blame>>

(* delete recv_buf_: the pointer stays what it was. *)
LastDelete(t) ==
    /\ UserAt(t, "delete")
    /\ live' = live \ {recv}
    /\ astray' = (recv \notin live)
    /\ cut' = (cut \/ irqAt # "idle")
    /\ UserGoto(t, "idle")
    /\ UNCHANGED <<count, handler, recv, ring, event, unread, torn, mine,
                   loaded, want, opened, opens, portVars, isrVars, reopened,
                   overlap>>

-----------------------------------------------------------------------------
(* read_ringbuff *)

(* One task reads at a time: two would share the ring and the semaphore. *)
ReadUart(t) ==
    /\ UserAt(t, "idle") /\ t \in opened
    /\ \A u \in Users : place[u] \notin Reading
    /\ mine' = [mine EXCEPT ![t] = recv]
    /\ \E n \in 1 .. MaxRead : want' = [want EXCEPT ![t] = n]
    /\ UserGoto(t, "test")
    /\ UNCHANGED <<count, handler, recv, live, ring, event, unread, torn,
                   astray, loaded, opened, opens, portVars, isrVars, blame>>

(* if(ring_buff->length) *)
Test(t) ==
    /\ UserAt(t, "test")
    /\ IF mine[t] \in live
       THEN /\ UserGoto(t, IF ring[mine[t]].length # 0 THEN "take" ELSE "wait")
            /\ UNCHANGED astray
       ELSE astray' = TRUE /\ UNCHANGED place
    /\ UNCHANGED <<count, handler, recv, live, ring, event, unread, torn,
                   mine, loaded, want, opened, opens, portVars, isrVars, blame>>

(* The byte at head is taken and head moves on. *)
TakeByte(t) ==
    /\ UserAt(t, "take")
    /\ LET r == mine[t] IN
         /\ ring' = [ring EXCEPT ![r].head = (@ + 1) % Length]
         /\ astray' = (r \notin live)
         /\ unread' = IF torn \/ unread = <<>> THEN <<>> ELSE Tail(unread)
    /\ UserGoto(t, "load")
    /\ UNCHANGED <<count, handler, recv, live, event, torn, mine, loaded,
                   want, opened, opens, portVars, isrVars, blame>>

(* length--, a load *)
LoadLength(t) ==
    /\ UserAt(t, "load")
    /\ loaded' = [loaded EXCEPT ![t] = ring[mine[t]].length]
    /\ astray' = (mine[t] \notin live)
    /\ UserGoto(t, "store")
    /\ UNCHANGED <<count, handler, recv, live, ring, event, unread, torn,
                   mine, want, opened, opens, portVars, isrVars, blame>>

(* and a store *)
StoreLength(t) ==
    /\ UserAt(t, "store")
    /\ LET r == mine[t] IN
         /\ ring' = [ring EXCEPT ![r].length = (loaded[t] - 1) % (SizeMax + 1)]
         /\ torn' = (torn \/ ring[r].length # loaded[t])
         /\ unread' = IF torn' THEN <<>> ELSE unread
         /\ astray' = (r \notin live)
    /\ loaded' = [loaded EXCEPT ![t] = 0]
    /\ want' = [want EXCEPT ![t] = @ - 1]
    /\ UserGoto(t, IF want[t] = 1 THEN "idle" ELSE "test")
    /\ mine' = [mine EXCEPT ![t] = IF want[t] = 1 THEN NoRing ELSE @]
    /\ UNCHANGED <<count, handler, recv, live, event, opened, opens, portVars,
                   isrVars, blame>>

(* xSemaphoreTake(receive_event_) returns: look again. *)
TakeEvent(t) ==
    /\ UserAt(t, "wait") /\ event
    /\ event' = FALSE
    /\ UserGoto(t, "test")
    /\ UNCHANGED <<count, handler, recv, live, ring, unread, torn, astray,
                   mine, loaded, want, opened, opens, portVars, isrVars, blame>>

(* read_timeout_ has passed: -1, whatever was taken before. *)
ReadTimesOut(t) ==
    /\ UserAt(t, "wait")
    /\ want' = [want EXCEPT ![t] = 0]
    /\ mine' = [mine EXCEPT ![t] = NoRing]
    /\ UserGoto(t, "idle")
    /\ UNCHANGED <<count, handler, recv, live, ring, event, unread, torn,
                   astray, loaded, opened, opens, portVars, isrVars, blame>>

-----------------------------------------------------------------------------
(* The line, and on_irq_apbuart_recv on core 0 *)

Arrive ==
    /\ ~astray /\ clock /\ Len(fifo) < Depth
    /\ fifo' = Append(fifo, next)
    /\ next' = (next + 1) % (Length + Depth + 2)
    /\ UNCHANGED <<count, handler, recv, live, ring, event, unread, torn,
                   astray, taskVars, clock, isrVars, blame>>

(* kernel_iface_pic_on_irq: a byte is in the port. *)
Interrupt ==
    /\ IsrAt("idle") /\ handler /\ clock /\ fifo # <<>>
    /\ irqAt' = "loop"
    /\ UNCHANGED <<count, handler, recv, live, ring, event, unread, torn,
                   astray, taskVars, portVars, iring, iloaded, blame>>

HasRoom(r) == ring[r].length < Length

(* while (uart.LSR & 1): the byte goes into the ring if that has room. *)
IsrByte ==
    /\ IsrAt("loop") /\ fifo # <<>>
    /\ fifo' = Tail(fifo)
    /\ iring' = recv
    /\ astray' = (recv \notin live)
    /\ IF recv \in live /\ HasRoom(recv)
       THEN /\ ring' = [ring EXCEPT ![recv].cells[ring[recv].tail] = Head(fifo),
                                    ![recv].tail = (@ + 1) % Length]
            /\ unread' = IF torn THEN <<>> ELSE Append(unread, Head(fifo))
            /\ irqAt' = "load"
       ELSE UNCHANGED <<ring, unread, irqAt>>
    /\ UNCHANGED <<count, handler, recv, live, event, torn, taskVars, clock,
                   next, iloaded, blame>>

(* length++, a load *)
IsrLoad ==
    /\ IsrAt("load")
    /\ iloaded' = ring[iring].length
    /\ astray' = (iring \notin live)
    /\ irqAt' = "store"
    /\ UNCHANGED <<count, handler, recv, live, ring, event, unread, torn,
                   taskVars, portVars, iring, blame>>

(* and a store *)
IsrStore ==
    /\ IsrAt("store")
    /\ ring' = [ring EXCEPT ![iring].length = (iloaded + 1) % (SizeMax + 1)]
    /\ torn' = (torn \/ ring[iring].length # iloaded)
    /\ unread' = IF torn' THEN <<>> ELSE unread
    /\ astray' = (iring \notin live)
    /\ iloaded' = 0
    /\ irqAt' = "loop"
    /\ UNCHANGED <<count, handler, recv, live, event, taskVars, portVars,
                   iring, blame>>

IsrEmpty ==
    /\ IsrAt("loop") /\ fifo = <<>>
    /\ irqAt' = "give"
    /\ UNCHANGED <<count, handler, recv, live, ring, event, unread, torn,
                   astray, taskVars, portVars, iring, iloaded, blame>>

(* xSemaphoreGiveFromISR(receive_event_) *)
IsrGive ==
    /\ IsrAt("give")
    /\ event' = TRUE
    /\ irqAt' = "idle"
    /\ iring' = NoRing
    /\ UNCHANGED <<count, handler, recv, live, ring, unread, torn, astray,
                   taskVars, portVars, iloaded, blame>>

-----------------------------------------------------------------------------
UserCall(t) == OpenUart(t) \/ CloseUart(t) \/ ReadUart(t)

UserStep(t) ==
    \/ FirstClock(t) \/ FirstRing(t) \/ FirstIrq(t) \/ LastClock(t) \/ LastDelete(t)
    \/ Test(t) \/ TakeByte(t) \/ LoadLength(t) \/ StoreLength(t) \/ TakeEvent(t)

RecvHandler == Interrupt \/ IsrByte \/ IsrLoad \/ IsrStore \/ IsrEmpty \/ IsrGive

UartNext ==
    \/ \E t \in Users : UserCall(t) \/ UserStep(t) \/ ReadTimesOut(t)
    \/ Arrive \/ RecvHandler

UartSpec == UartInit /\ [][UartNext]_uartVars

-----------------------------------------------------------------------------
RingType == [head : 0 .. Length - 1, tail : 0 .. Length - 1, length : Sizes,
             cells : [0 .. Length - 1 -> Bytes]]

UartTypeOK ==
    /\ count \in Nat /\ clock \in BOOLEAN /\ handler \in BOOLEAN
    /\ recv \in Rings \cup {NoRing} /\ live \in SUBSET Rings
    /\ ring \in [Rings -> RingType]
    /\ event \in BOOLEAN /\ fifo \in Seq(Bytes) /\ Len(fifo) <= Depth /\ next \in Bytes
    /\ place \in [Users -> UartLabels] /\ mine \in [Users -> Rings \cup {NoRing}]
    /\ loaded \in [Users -> Sizes] /\ want \in [Users -> 0 .. MaxRead]
    /\ opened \in SUBSET Users /\ opens \in 0 .. MaxOpens
    /\ irqAt \in {"idle", "loop", "load", "store", "give"}
    /\ iring \in Rings \cup {NoRing} /\ iloaded \in Sizes /\ unread \in Seq(Bytes)
    /\ torn \in BOOLEAN /\ reopened \in BOOLEAN /\ overlap \in BOOLEAN
    /\ cut \in BOOLEAN /\ astray \in BOOLEAN

(* No update of the length was lost, no ring was taken away from a user. *)
Undisturbed == ~torn /\ ~overlap /\ ~cut

(* What the ring holds: from head to tail, length bytes once the updates   *)
(* under way are done *)
Size(r) ==
    ring[r].length + (IF irqAt \in {"load", "store"} /\ iring = r THEN 1 ELSE 0)
                   - (IF \E t \in Users : place[t] \in {"load", "store"} /\ mine[t] = r THEN 1 ELSE 0)

Contents(r) == [i \in 1 .. Size(r) |-> ring[r].cells[(ring[r].head + i - 1) % Length]]

(***************************************************************************)
(* A ring is used that is not allocated in these cases only: an open or a  *)
(* close overlapped a first open or a last close (the second opener counts *)
(* as open at once, driver_impl.cpp:54; the last one to close deletes what *)
(* recv_buf_ points to by then); the handler ran on core 0 while the last  *)
(* close deleted the ring; or the port was opened again with its interrupt *)
(* still enabled.                                                          *)
(***************************************************************************)
StrayOnlyIf == astray => overlap \/ cut \/ reopened

(***************************************************************************)
(* A task reads the bytes the handler has put into the ring, each once and *)
(* in their order, and only a byte that found the ring full is missing, as *)
(* long as no update of the length is lost and opens and closes keep out   *)
(* of each other's and the handler's way; and a ring that is not there is  *)
(* used in the cases of StrayOnlyIf only.                                  *)
(***************************************************************************)
BytesInOrder ==
    /\ UartTypeOK /\ StrayOnlyIf
    /\ Undisturbed /\ ~astray /\ recv \in live => Contents(recv) = unread

(***************************************************************************)
(* A task that waits for bytes is woken when there are any: if the ring    *)
(* is not empty, receive_event_ is given or the handler will give it.      *)
(***************************************************************************)
ReaderIsWoken ==
    \A t \in Users : UserAt(t, "wait") /\ mine[t] \in live /\ ring[mine[t]].length # 0
                        => event \/ irqAt # "idle"
=============================================================================

-------------------------------- MODULE Dma --------------------------------
(***************************************************************************)
(* Transfers on the channels of DmaPool: dma_transmit and dma_loop_async   *)
(* of lib/bsp/device/dmac.cpp, and the I2S stream of                       *)
(* lib/bsp/device/i2s.cpp that uses them.                                  *)
(*                                                                         *)
(* A task programs the channel it has opened, enables it and waits; the    *)
(* engine moves a block and raises an interrupt; dma_completion_isr, on    *)
(* core 0 while tasks run on both, starts the next block of a loop or      *)
(* finishes the transfer. The channel's session_ outlives the opener: its  *)
(* two layouts share memory, and the destinations of a loop stay where a   *)
(* transfer keeps its bounce buffers. A call of a semaphore is one step,   *)
(* also against the other core, which is an assumption: Queue shows it of  *)
(* one core.                                                               *)
(***************************************************************************)
EXTENDS DmaPool

CONSTANTS LoopDests, \* how many destinations a loop may have (dest_num)
          MaxStage,  \* the limit of stage_completion_event, 100 in the code
          Foreign    \* memory that iomem_malloc has not handed out

(* Each transfer of a task has at most one bounce buffer per end. *)
Blocks == Tasks \X {"src", "dest"}
Pointers == Blocks \cup {None, Foreign}

ASSUME DmaAssumption ==
    /\ LoopDests \subseteq 1 .. 4
    /\ MaxStage \in Nat \ {0}
    /\ None \notin Blocks /\ Foreign \notin Blocks

VARIABLES
    work,      \* what a task does with the channel it has open
    on,        \* the channel it does it with
    engine,    \* the channels whose bit is set in chen
    irq,       \* the channels with a block completed and not acknowledged
    isr,       \* the channel dma_completion_isr runs for
    ipc,       \* where it is
    last,      \* it has seen the stop signal
    session,   \* session_ of each channel
    blocks,    \* bounce buffers allocated with iomem_malloc
    fresh,     \* the tasks whose last transfer has reached its destination
    finished,  \* the tasks whose completion_event has been given
    stopping,  \* stop_signal of each task's stream
    inUse,     \* dma_in_use_buffer of each task's stream
    nextFree,  \* next_free_buffer
    stages     \* the count of stage_completion_event

clientVars == <<work, on, fresh, stopping, inUse, nextFree, stages, finished>>
driverVars == <<engine, irq, isr, ipc, last, session, blocks>>
dmaVars == <<clientVars, driverVars>>
allVars == <<vars, dmaVars>>

(***************************************************************************)
(* alloc shares its memory with srcs[3]; buffer, src, dest and len share   *)
(* theirs with dests[0] .. dests[3]. narrow: flow_control and element_size *)
(* tell dma_completion_isr to use alloc. next is next_src_id or            *)
(* next_dest_id, whichever has two buffers to go round.                    *)
(***************************************************************************)
Sessions == [is_loop : BOOLEAN, client : Tasks \cup {None}, narrow : BOOLEAN,
             alloc : Pointers, buffer : {None, Foreign}, src : Pointers,
             dest : Pointers, len : BOOLEAN, next : 0 .. 1]

NoSession == [is_loop |-> FALSE, client |-> None, narrow |-> FALSE,
              alloc |-> None, buffer |-> None, src |-> None,
              dest |-> None, len |-> FALSE, next |-> 0]

Works == {"rest", "programmed", "waiting", "playing", "hungry", "holding"}

HasOpen(t, c) == \E o \in open[t] : o[2] = c

DmaInit ==
    /\ Init
    /\ work = [t \in Tasks |-> "rest"]
    /\ on = [t \in Tasks |-> None]
    /\ engine = {}
    /\ irq = {}
    /\ isr = None
    /\ ipc = "claim"
    /\ last = FALSE
    /\ session = [c \in Channels |-> NoSession]
    /\ blocks = {}
    /\ fresh = {}
    /\ finished = {}
    /\ stopping = {}
    /\ inUse = [t \in Tasks |-> 0]
    /\ nextFree = [t \in Tasks |-> 0]
    /\ stages = [t \in Tasks |-> 0]

Working(t, w) == At(t, "idle") /\ work[t] = w
Turn(t, w) == work' = [work EXCEPT ![t] = w]

-----------------------------------------------------------------------------
(* Faults: no specification uses them. *)

(* The stage's semaphore is given once a round, not once a buffer. *)
GiveOncePerRound ==
    /\ ipc = "give" /\ ~fatal
    /\ stages' = [stages EXCEPT ![session[isr].client] =
                    IF inUse[session[isr].client] = 0 /\ @ < MaxStage THEN @ + 1 ELSE @]
    /\ ipc' = IF last THEN "complete" ELSE "resume"
    /\ UNCHANGED <<vars, on, work, fresh, finished, stopping, inUse, nextFree,
                   engine, irq, isr, last, session, blocks>>

(* A stream that is told to stop starts one more block. *)
RestartStopped ==
    /\ ipc = "complete" /\ ~fatal
    /\ finished' = finished \cup {session[isr].client}
    /\ engine' = IF session[isr].is_loop THEN engine \cup {isr} ELSE engine
    /\ isr' = None
    /\ ipc' = "claim"
    /\ UNCHANGED <<vars, on, work, fresh, stopping, inUse, nextFree, stages, irq,
                   last, session, blocks>>

(* The source's bounce buffer is freed only if the destination had none. *)
FreeOneEnd ==
    /\ ipc = "finish" /\ ~fatal /\ ~session[isr].narrow
    /\ LET s == session[isr] IN
         /\ fresh' = IF s.len THEN fresh \cup {s.client} ELSE fresh
         /\ blocks' = blocks \ {IF s.len THEN s.dest ELSE s.src}
         /\ session' = [session EXCEPT ![isr] =
              IF s.len THEN [s EXCEPT !.dest = None, !.buffer = None, !.len = FALSE]
                       ELSE [s EXCEPT !.src = None]]
    /\ ipc' = "complete"
    /\ UNCHANGED <<vars, on, work, finished, stopping, inUse, nextFree, stages,
                   engine, irq, isr, last>>

(* k_i2s_driver::stop does not wait for the completion. *)
StopUnawaited(t) ==
    /\ Working(t, "playing")
    /\ stopping' = stopping \cup {t}
    /\ Turn(t, "rest")
    /\ UNCHANGED <<vars, on, fresh, inUse, nextFree, stages, finished, driverVars>>

-----------------------------------------------------------------------------
(* dma_transmit: everything up to the write to chen *)

(* An element of less than four bytes to or from a peripheral *)
ProgramNarrow(t, c) ==
    /\ Working(t, "rest") /\ HasOpen(t, c)
    /\ session' = [session EXCEPT ![c].is_loop = FALSE, ![c].client = t,
                                  ![c].narrow = TRUE,
                                  ![c].alloc = <<t, "dest">>]
    /\ blocks' = blocks \cup {<<t, "dest">>}
    /\ fresh' = fresh \ {t}
    /\ finished' = finished \ {t}
    /\ Turn(t, "programmed")
    /\ on' = [on EXCEPT ![t] = c]
    /\ UNCHANGED <<vars, stopping, inUse, nextFree, stages, engine, irq, isr,
                   ipc, last>>

(* cached: the ends that lie in cached memory, which the engine bypasses *)
ProgramWide(t, c) ==
    /\ Working(t, "rest") /\ HasOpen(t, c)
    /\ \E cached \in SUBSET {"src", "dest"} :
         /\ LET s == session[c] IN session' = [session EXCEPT ![c] =
              [s EXCEPT !.is_loop = FALSE, !.client = t, !.narrow = FALSE,
                        !.alloc = None,
                        !.src = IF "src" \in cached THEN <<t, "src">> ELSE s.src,
                        !.dest = IF "dest" \in cached THEN <<t, "dest">> ELSE s.dest,
                        !.len = ("dest" \in cached) \/ s.len,
                        !.buffer = IF "dest" \in cached THEN Foreign ELSE s.buffer]]
         /\ blocks' = blocks \cup ({t} \X cached)
    /\ fresh' = fresh \ {t}
    /\ finished' = finished \ {t}
    /\ Turn(t, "programmed")
    /\ on' = [on EXCEPT ![t] = c]
    /\ UNCHANGED <<vars, stopping, inUse, nextFree, stages, engine, irq, isr,
                   ipc, last>>

(* count = 0: the completion is given at once, session_ is left alone. *)
TransmitNothing(t, c) ==
    /\ Working(t, "rest") /\ HasOpen(t, c)
    /\ fresh' = fresh \cup {t}
    /\ finished' = finished \cup {t}
    /\ Turn(t, "waiting")
    /\ on' = [on EXCEPT ![t] = c]
    /\ UNCHANGED <<vars, stopping, inUse, nextFree, stages, driverVars>>

(***************************************************************************)
(* k_i2s_driver: config_as_render or config_as_capture, then start, up to  *)
(* the write to chen in loop_async. The destinations of the loop overwrite *)
(* the pointers of the other layout.                                       *)
(***************************************************************************)
ProgramLoop(t, c) ==
    /\ Working(t, "rest") /\ HasOpen(t, c)
    /\ \E n \in LoopDests :
         LET s == session[c] IN session' = [session EXCEPT ![c] =
              [s EXCEPT !.is_loop = TRUE, !.client = t, !.next = 0,
                        !.buffer = Foreign,
                        !.src = IF n > 1 THEN Foreign ELSE s.src,
                        !.dest = IF n > 2 THEN Foreign ELSE s.dest,
                        !.len = (n > 3) \/ s.len]]
    /\ stopping' = stopping \ {t}
    /\ inUse' = [inUse EXCEPT ![t] = 0]
    /\ nextFree' = [nextFree EXCEPT ![t] = 0]
    /\ stages' = [stages EXCEPT ![t] = 0]
    /\ finished' = finished \ {t}
    /\ Turn(t, "programmed")
    /\ on' = [on EXCEPT ![t] = c]
    /\ UNCHANGED <<vars, fresh, engine, irq, isr, ipc, last, blocks>>

(* dmac.chen |= 0x101 << channel_ *)
Enable(t, c) ==
    /\ Working(t, "programmed") /\ on[t] = c
    /\ engine' = engine \cup {c}
    /\ Turn(t, IF session[c].is_loop THEN "playing" ELSE "waiting")
    /\ UNCHANGED <<vars, on, fresh, stopping, inUse, nextFree, stages, finished,
                   irq, isr, ipc, last, session, blocks>>

(* xSemaphoreTake(completion_event) returns. *)
Completed(t) ==
    /\ Working(t, "waiting") /\ t \in finished
    /\ finished' = finished \ {t}
    /\ Turn(t, "rest")
    /\ on' = [on EXCEPT ![t] = None]
    /\ UNCHANGED <<vars, fresh, stopping, inUse, nextFree, stages, driverVars>>

-----------------------------------------------------------------------------
(* The stream: get_buffer, release_buffer, stop *)

GetBuffer(t) ==
    /\ Working(t, "playing")
    /\ Turn(t, IF nextFree[t] = inUse[t] THEN "hungry" ELSE "holding")
    /\ UNCHANGED <<vars, on, fresh, stopping, inUse, nextFree, stages, finished,
                   driverVars>>

(* xSemaphoreTake(stage_completion_event) returns: look again. *)
TakeStage(t) ==
    /\ Working(t, "hungry") /\ stages[t] > 0
    /\ stages' = [stages EXCEPT ![t] = @ - 1]
    /\ Turn(t, IF nextFree[t] = inUse[t] THEN "hungry" ELSE "holding")
    /\ UNCHANGED <<vars, on, fresh, stopping, inUse, nextFree, finished,
                   driverVars>>

(* All the frames of the buffer are released, or some of them. *)
ReleaseBuffer(t) ==
    /\ Working(t, "holding")
    /\ nextFree' \in {nextFree, [nextFree EXCEPT ![t] = 1 - @]}
    /\ Turn(t, "playing")
    /\ UNCHANGED <<vars, on, fresh, stopping, inUse, stages, finished, driverVars>>

(* dma_stop; then the task waits for completion_event. *)
Stop(t) ==
    /\ Working(t, "playing")
    /\ stopping' = stopping \cup {t}
    /\ Turn(t, "waiting")
    /\ UNCHANGED <<vars, on, fresh, inUse, nextFree, stages, finished, driverVars>>

-----------------------------------------------------------------------------
(* The engine and dma_completion_isr *)

(* A block is moved. What is read through no bounce buffer is there. *)
BlockDone(c) ==
    /\ c \in engine /\ ~fatal
    /\ engine' = engine \ {c}
    /\ irq' = irq \cup {c}
    /\ fresh' = LET s == session[c] IN
                  IF s.is_loop \/ s.narrow \/ s.len THEN fresh ELSE fresh \cup {s.client}
    /\ UNCHANGED <<vars, on, work, finished, stopping, inUse, nextFree, stages,
                   isr, ipc, last, session, blocks>>

Claim(c) ==
    /\ isr = None /\ c \in irq /\ ~fatal
    /\ irq' = irq \ {c}
    /\ isr' = c
    /\ ipc' = IF session[c].is_loop THEN "loop" ELSE "finish"
    /\ UNCHANGED <<vars, clientVars, engine, last, session, blocks>>

(* Reads stop_signal; if it is clear, points the engine at the next buffer. *)
IsrLoop ==
    /\ ipc = "loop" /\ ~fatal
    /\ last' = (session[isr].client \in stopping)
    /\ session' = [session EXCEPT ![isr].next = IF last' THEN @ ELSE 1 - @]
    /\ ipc' = "advance"
    /\ UNCHANGED <<vars, clientVars, engine, irq, isr, blocks>>

(* i2s_stage_completion_isr: dma_in_use_buffer moves on, *)
StageAdvance ==
    /\ ipc = "advance" /\ ~fatal
    /\ inUse' = [inUse EXCEPT ![session[isr].client] = 1 - @]
    /\ ipc' = "give"
    /\ UNCHANGED <<vars, on, work, fresh, finished, stopping, nextFree, stages,
                   engine, irq, isr, last, session, blocks>>

(* then the stage's semaphore is given. *)
StageGive ==
    /\ ipc = "give" /\ ~fatal
    /\ stages' = [stages EXCEPT ![session[isr].client] =
                    IF @ < MaxStage THEN @ + 1 ELSE @]
    /\ ipc' = IF last THEN "complete" ELSE "resume"
    /\ UNCHANGED <<vars, on, work, fresh, finished, stopping, inUse, nextFree,
                   engine, irq, isr, last, session, blocks>>

Resume ==
    /\ ipc = "resume" /\ ~fatal
    /\ engine' = engine \cup {isr}
    /\ isr' = None
    /\ ipc' = "claim"
    /\ UNCHANGED <<vars, clientVars, irq, last, session, blocks>>

(***************************************************************************)
(* The end of a transfer: copy what came in to where it was wanted, free   *)
(* the bounce buffers. iomem_free_isr ignores an address outside its heap. *)
(***************************************************************************)
FinishNarrow ==
    /\ ipc = "finish" /\ ~fatal /\ session[isr].narrow
    /\ fresh' = fresh \cup {session[isr].client}
    /\ blocks' = blocks \ {session[isr].alloc}
    /\ session' = [session EXCEPT ![isr].alloc = None]
    /\ ipc' = "complete"
    /\ UNCHANGED <<vars, on, work, finished, stopping, inUse, nextFree, stages,
                   engine, irq, isr, last>>

FinishWide ==
    /\ ipc = "finish" /\ ~fatal /\ ~session[isr].narrow
    /\ LET s == session[isr] IN
         /\ fresh' = IF s.len /\ s.dest \in blocks THEN fresh \cup {s.client} ELSE fresh
         /\ blocks' = blocks \ ({s.src} \cup IF s.len THEN {s.dest} ELSE {})
         /\ session' = [session EXCEPT ![isr] =
              [s EXCEPT !.src = None, !.len = FALSE,
                        !.dest = IF s.len THEN None ELSE s.dest,
                        !.buffer = IF s.len THEN None ELSE s.buffer]]
    /\ ipc' = "complete"
    /\ UNCHANGED <<vars, on, work, finished, stopping, inUse, nextFree, stages,
                   engine, irq, isr, last>>

(* xSemaphoreGiveFromISR(completion_event), the last thing the handler does *)
Complete ==
    /\ ipc = "complete" /\ ~fatal
    /\ finished' = finished \cup {session[isr].client}
    /\ isr' = None
    /\ ipc' = "claim"
    /\ UNCHANGED <<vars, on, work, fresh, stopping, inUse, nextFree, stages,
                   engine, irq, last, session, blocks>>

-----------------------------------------------------------------------------
(* A task calls for a channel, or closes it, when no transfer is under way. *)
PoolCall(t) ==
    /\ work[t] = "rest"
    /\ DmaOpenFree(t) \/ IoOpen(t)
    /\ UNCHANGED dmaVars

PoolClose(t) == work[t] = "rest" /\ Close(t) /\ UNCHANGED dmaVars

PoolStep(t) == Step(t) /\ UNCHANGED dmaVars

Program(t) ==
    \E c \in Channels : \/ ProgramNarrow(t, c) \/ ProgramWide(t, c)
                       \/ ProgramLoop(t, c) \/ TransmitNothing(t, c)

Proceed(t) ==
    \/ \E c \in Channels : Enable(t, c)
    \/ Completed(t) \/ TakeStage(t) \/ ReleaseBuffer(t)

Handler ==
    \/ \E c \in Channels : Claim(c)
    \/ IsrLoop \/ StageAdvance \/ StageGive \/ Resume
    \/ FinishNarrow \/ FinishWide \/ Complete

DmaNext ==
    \/ \E t \in Tasks : \/ PoolCall(t) \/ PoolClose(t) \/ PoolStep(t)
                        \/ Program(t) \/ Proceed(t) \/ GetBuffer(t) \/ Stop(t)
    \/ \E c \in Channels : BlockDone(c)
    \/ Handler

DmaSpec == DmaInit /\ [][DmaNext]_allVars

(***************************************************************************)
(* Tasks run; one that has a channel open closes it in the end, and one    *)
(* that plays a stream stops it. The engine moves its blocks, and the      *)
(* interrupt is taken. A semaphore goes to its longest waiter. A stream    *)
(* does not lap its reader for ever (a buffer lasts a hundred frames).     *)
(***************************************************************************)
DmaFairness ==
    /\ \A t \in Tasks : /\ WF_allVars(PoolStep(t))
                        /\ SF_allVars(PoolStep(t) /\ Take(t))
                        /\ SF_allVars(PoolClose(t) /\ job'[t] = "dma_close")
                        /\ WF_allVars(Proceed(t))
                        /\ SF_allVars(Stop(t))
                        /\ SF_allVars(TakeStage(t) /\ work'[t] = "holding")
    /\ \A c \in Channels : WF_allVars(BlockDone(c))
    /\ WF_allVars(Handler)

DmaLiveSpec == DmaSpec /\ DmaFairness

-----------------------------------------------------------------------------
DriverTypeOK ==
    /\ work \in [Tasks -> Works]
    /\ on \in [Tasks -> Channels \cup {None}]
    /\ engine \in SUBSET Channels
    /\ irq \in SUBSET Channels
    /\ isr \in Channels \cup {None}
    /\ ipc \in {"claim", "loop", "finish", "advance", "give", "resume", "complete"}
    /\ (isr = None) = (ipc = "claim")
    /\ last \in BOOLEAN
    /\ session \in [Channels -> Sessions]
    /\ blocks \in SUBSET Blocks
    /\ fresh \in SUBSET Tasks
    /\ finished \in SUBSET Tasks
    /\ stopping \in SUBSET Tasks
    /\ inUse \in [Tasks -> 0 .. 1]
    /\ nextFree \in [Tasks -> 0 .. 1]
    /\ stages \in [Tasks -> 0 .. MaxStage]

DmaTypeOK == TypeOK /\ DriverTypeOK

(* The engine or its handler is still at work on c, or about to be. *)
Busy(c) == c \in engine \/ c \in irq \/ isr = c

BouncesOf(c) == {session[c].alloc, session[c].src, session[c].dest}

(* The transfer that t waits for has been completed. *)
Told(t) == work[t] = "waiting" /\ t \in finished

(***************************************************************************)
(* When a transfer is completed its data has arrived, and its bounce       *)
(* buffers are free again; until then they are allocated, whatever the     *)
(* other layout of session_ has left in their pointers.                    *)
(***************************************************************************)
BouncesReturned ==
    /\ \A t \in Tasks : Told(t) /\ ~session[on[t]].is_loop => t \in fresh
    /\ \A c \in Channels : BouncesOf(c) \cap Blocks \subseteq blocks
    /\ \A b \in blocks : \E c \in Channels :
         /\ b \in BouncesOf(c)
         /\ session[c].client = b[1] /\ ~session[c].is_loop
         /\ on[b[1]] = c /\ ~Told(b[1])

(***************************************************************************)
(* The engine and the handler touch a channel only between the enabling of *)
(* a transfer and its completion, and for the task that has the channel    *)
(* open: a task that goes on after xSemaphoreTake(completion_event) and    *)
(* closes the channel leaves nothing behind for the next opener, neither a *)
(* handler still to run nor a bounce buffer. A stream stays within that    *)
(* span too, whenever it is stopped.                                       *)
(***************************************************************************)
TransferIsOwners ==
    /\ DmaTypeOK /\ BouncesReturned
    /\ \A c \in Channels :
         Busy(c) <=> \E t \in Tasks : /\ on[t] = c /\ HasOpen(t, c)
                                     /\ session[c].client = t
                                     /\ work[t] # "programmed" /\ ~Told(t)

(***************************************************************************)
(* A task that waits in get_buffer for a buffer other than the one the     *)
(* engine fills is woken: a token is there or the handler is about to give *)
(* one. While the engine runs, dma_in_use_buffer is the one it works on.   *)
(***************************************************************************)
StreamerIsWoken ==
    /\ \A t \in Tasks : work[t] = "hungry" /\ nextFree[t] # inUse[t] =>
         \/ stages[t] > 0
         \/ isr # None /\ ipc = "give" /\ session[isr].client = t
    /\ \A c \in engine : session[c].is_loop => session[c].next = inUse[session[c].client]
=============================================================================

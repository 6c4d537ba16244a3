------------------------------ MODULE DmaPool ------------------------------
(***************************************************************************)
(* The table of open files and the pool of DMA channels of                 *)
(* lib/freertos/kernel/devices.cpp.                                        *)
(*                                                                         *)
(* handles_ is a table of files that tasks fill with a compare-and-swap    *)
(* and empty with a plain store. A DMA channel is an exclusive object (one *)
(* flag, set by the task that opens it); dma_free_ counts the free         *)
(* channels, dma_lock serialises opening and closing. The lock is a newlib *)
(* lock (lib/freertos/locks.c): a task that has waited 200 ticks for it    *)
(* goes on without it. Every other device is a file that any number of     *)
(* tasks may open.                                                         *)
(***************************************************************************)
EXTENDS Naturals, FiniteSets

CONSTANTS Tasks,
          NChannels,   \* entries of g_dma_drivers
          NHandles,    \* MAX_HANDLES
          None,        \* nobody, nothing: NULL
          Device,      \* a file on something else than a DMA channel
          MemoryFails, \* operator new may return nullptr
          MaxOpen      \* bound: files a task has open at a time

Channels == 1 .. NChannels
Handles == 1 .. NHandles
Files == Channels \cup {Device}

ASSUME PoolAssumption ==
    /\ NChannels \in Nat \ {0}
    /\ NHandles \in Nat \ {0}
    /\ None \notin Files \cup Handles \cup Tasks /\ Device \notin Channels
    /\ IsFiniteSet(Tasks)
    /\ MemoryFails \in BOOLEAN
    /\ MaxOpen \in Nat

VARIABLES
    tokens,   \* the count of dma_free_
    used,     \* the channels whose exclusive flag is set
    lock,     \* the holder of dma_lock
    slot,     \* handles_
    pc,       \* where a task is
    job,      \* the call it runs
    file,     \* the file in its hands
    index,    \* its position in g_dma_drivers or handles_, 1 at rest
    handle,   \* the handle it closes
    open,     \* the <<handle, file>> pairs it has opened and not closed
    lost,     \* history: tokens taken for a file that found no memory
    fatal     \* a configASSERT has failed

vars == <<tokens, used, lock, slot, pc, job, file, index, handle, open, lost,
          fatal>>

Jobs == {"io_open", "io_close", "dma_open_free", "dma_close"}
DmaJobs == {"dma_open_free", "dma_close"}

Labels == {"idle", "acquire", "take", "scan", "new", "cas", "read",
           "free", "delete", "clear", "release"}

(* A failed assertion stops the system. *)
At(t, l) == ~fatal /\ pc[t] = l
Goto(t, l) == pc' = [pc EXCEPT ![t] = l]
After(t) == IF job[t] \in DmaJobs THEN "release" ELSE "idle"

Init ==
    /\ tokens = NChannels
    /\ used = {}
    /\ lock = None
    /\ slot = [h \in Handles |-> None]
    /\ pc = [t \in Tasks |-> "idle"]
    /\ job = [t \in Tasks |-> "io_open"]
    /\ file = [t \in Tasks |-> None]
    /\ index = [t \in Tasks |-> 1]
    /\ handle = [t \in Tasks |-> None]
    /\ open = [t \in Tasks |-> {}]
    /\ lost = 0
    /\ fatal = FALSE

-----------------------------------------------------------------------------
(* Faults: what an action would be with a plausible bug. No specification  *)
(* uses them; each shows that a property tells the bug from the code.      *)

(* _lock_acquire_recursive waits for ever. *)
AcquireRetries(t) ==
    /\ At(t, "acquire") /\ lock # None
    /\ UNCHANGED vars

(* The channel's flag is set and not tested. *)
ChannelShared(t) ==
    /\ At(t, "scan") /\ index[t] \in Channels
    /\ used' = used \cup {index[t]}
    /\ file' = [file EXCEPT ![t] = index[t]]
    /\ index' = [index EXCEPT ![t] = 1]
    /\ Goto(t, "new")
    /\ UNCHANGED <<tokens, lock, slot, job, handle, open, lost, fatal>>

(* A store where the table needs a compare-and-swap *)
StoreTakes(t) ==
    /\ At(t, "cas")
    /\ slot' = [slot EXCEPT ![1] = file[t]]
    /\ open' = [open EXCEPT ![t] = @ \cup {<<1, file[t]>>}]
    /\ file' = [file EXCEPT ![t] = None]
    /\ index' = [index EXCEPT ![t] = 1]
    /\ Goto(t, After(t))
    /\ UNCHANGED <<tokens, used, lock, job, handle, lost, fatal>>

(* A file that found no handle gives no token back. *)
AddFreeOnCloseOnly(t) ==
    /\ At(t, "free")
    /\ tokens' = IF job[t] = "dma_close" THEN tokens + 1 ELSE tokens
    /\ Goto(t, "delete")
    /\ UNCHANGED <<used, lock, slot, job, file, index, handle, open, lost,
                   fatal>>

-----------------------------------------------------------------------------
(* The calls *)

DmaOpenFree(t) ==
    /\ At(t, "idle") /\ Cardinality(open[t]) < MaxOpen
    /\ job' = [job EXCEPT ![t] = "dma_open_free"]
    /\ Goto(t, "acquire")
    /\ UNCHANGED <<tokens, used, lock, slot, file, index, handle, open, lost,
                   fatal>>

(* io_open of a registered driver with free_object_access *)
IoOpen(t) ==
    /\ At(t, "idle") /\ Cardinality(open[t]) < MaxOpen
    /\ job' = [job EXCEPT ![t] = "io_open"]
    /\ file' = [file EXCEPT ![t] = Device]
    /\ Goto(t, "new")
    /\ UNCHANGED <<tokens, used, lock, slot, index, handle, open, lost,
                   fatal>>

(* dma_close of a channel, io_close of anything else, by the opener *)
Close(t) ==
    /\ At(t, "idle")
    /\ \E o \in open[t] :
         /\ open' = [open EXCEPT ![t] = @ \ {o}]
         /\ handle' = [handle EXCEPT ![t] = o[1]]
         /\ job' = [job EXCEPT ![t] = IF o[2] = Device THEN "io_close" ELSE "dma_close"]
         /\ Goto(t, IF o[2] = Device THEN "read" ELSE "acquire")
    /\ UNCHANGED <<tokens, used, lock, slot, file, index, lost, fatal>>

-----------------------------------------------------------------------------
(* _lock_acquire_recursive(&dma_lock), whose result nobody looks at *)

Acquired(t) == Goto(t, IF job[t] = "dma_close" THEN "read" ELSE "take")

Acquire(t) ==
    /\ At(t, "acquire") /\ lock = None
    /\ lock' = t
    /\ Acquired(t)
    /\ UNCHANGED <<tokens, used, slot, job, file, index, handle, open, lost,
                   fatal>>

(* 200 ticks have passed while another task held the lock. *)
AcquireTimesOut(t) ==
    /\ At(t, "acquire") /\ lock # None
    /\ Acquired(t)
    /\ UNCHANGED <<tokens, used, lock, slot, job, file, index, handle, open,
                   lost, fatal>>

(* _lock_release_recursive: a task that timed out has nothing to give. *)
Release(t) ==
    /\ At(t, "release")
    /\ lock' = IF lock = t THEN None ELSE lock
    /\ Goto(t, "idle")
    /\ UNCHANGED <<tokens, used, slot, job, file, index, handle, open, lost,
                   fatal>>

-----------------------------------------------------------------------------
(* dma_open_free *)

(* xSemaphoreTake(dma_free_, portMAX_DELAY) *)
Take(t) ==
    /\ At(t, "take") /\ tokens > 0
    /\ tokens' = tokens - 1
    /\ Goto(t, "scan")
    /\ UNCHANGED <<used, lock, slot, job, file, index, handle, open, lost,
                   fatal>>

(* make_accessor throws access_denied_exception: try the next driver. *)
ChannelDenied(t) ==
    /\ At(t, "scan") /\ index[t] \in used
    /\ index' = [index EXCEPT ![t] = @ + 1]
    /\ UNCHANGED <<tokens, used, lock, slot, pc, job, file, handle, open,
                   lost, fatal>>

(* exclusive_object_access::open sets the flag. *)
ChannelOpened(t) ==
    /\ At(t, "scan") /\ index[t] \in Channels \ used
    /\ used' = used \cup {index[t]}
    /\ file' = [file EXCEPT ![t] = index[t]]
    /\ index' = [index EXCEPT ![t] = 1]
    /\ Goto(t, "new")
    /\ UNCHANGED <<tokens, lock, slot, job, handle, open, lost, fatal>>

(* configASSERT(dma) *)
NoChannel(t) ==
    /\ At(t, "scan") /\ index[t] \notin Channels
    /\ fatal' = TRUE
    /\ UNCHANGED <<tokens, used, lock, slot, pc, job, file, index, handle,
                   open, lost>>

-----------------------------------------------------------------------------
(* io_alloc_file and io_alloc_handle *)

NewFile(t) ==
    /\ At(t, "new")
    /\ Goto(t, "cas")
    /\ UNCHANGED <<tokens, used, lock, slot, job, file, index, handle, open,
                   lost, fatal>>

(***************************************************************************)
(* No memory for the _file: the accessor goes out of scope and clears the  *)
(* channel's flag, the caller gets handle 0; io_open asserts instead.      *)
(***************************************************************************)
NewFileFails(t) ==
    /\ At(t, "new") /\ MemoryFails
    /\ used' = used \ {file[t]}
    /\ file' = [file EXCEPT ![t] = None]
    /\ Goto(t, After(t))
    /\ lost' = IF file[t] = Device THEN lost ELSE lost + 1
    /\ fatal' = (file[t] = Device)
    /\ UNCHANGED <<tokens, lock, slot, job, index, handle, open>>

(* Two passes of atomic_cas over the table *)
Probe(t) == ((index[t] - 1) % NHandles) + 1

CasTakes(t) ==
    /\ At(t, "cas") /\ index[t] <= 2 * NHandles
    /\ slot[Probe(t)] = None
    /\ slot' = [slot EXCEPT ![Probe(t)] = file[t]]
    /\ open' = [open EXCEPT ![t] = @ \cup {<<Probe(t), file[t]>>}]
    /\ file' = [file EXCEPT ![t] = None]
    /\ index' = [index EXCEPT ![t] = 1]
    /\ Goto(t, After(t))
    /\ UNCHANGED <<tokens, used, lock, job, handle, lost, fatal>>

CasMisses(t) ==
    /\ At(t, "cas") /\ index[t] <= 2 * NHandles
    /\ slot[Probe(t)] # None
    /\ index' = [index EXCEPT ![t] = @ + 1]
    /\ UNCHANGED <<tokens, used, lock, slot, pc, job, file, handle, open,
                   lost, fatal>>

(* The table is full: io_free, and handle 0 *)
TableFull(t) ==
    /\ At(t, "cas") /\ index[t] > 2 * NHandles
    /\ index' = [index EXCEPT ![t] = 1]
    /\ Goto(t, "free")
    /\ UNCHANGED <<tokens, used, lock, slot, job, file, handle, open, lost,
                   fatal>>

-----------------------------------------------------------------------------
(* io_close and io_free *)

ReadSlot(t) ==
    /\ At(t, "read")
    /\ file' = [file EXCEPT ![t] = slot[handle[t]]]
    /\ Goto(t, "free")
    /\ UNCHANGED <<tokens, used, lock, slot, job, index, handle, open, lost,
                   fatal>>

(* dma_add_free, before the file is deleted *)
AddFree(t) ==
    /\ At(t, "free")
    /\ tokens' = IF file[t] \in Channels /\ tokens < NChannels THEN tokens + 1 ELSE tokens
    /\ Goto(t, "delete")
    /\ UNCHANGED <<used, lock, slot, job, file, index, handle, open, lost,
                   fatal>>

(* delete file: the accessor's destructor clears the channel's flag. *)
DeleteFile(t) ==
    /\ At(t, "delete")
    /\ used' = used \ {file[t]}
    /\ file' = [file EXCEPT ![t] = None]
    /\ Goto(t, IF job[t] \in {"io_close", "dma_close"} THEN "clear" ELSE After(t))
    /\ UNCHANGED <<tokens, lock, slot, job, index, handle, open, lost,
                   fatal>>

(* atomic_set(handles_ + file - HANDLE_OFFSET, 0) *)
ClearSlot(t) ==
    /\ At(t, "clear")
    /\ slot' = [slot EXCEPT ![handle[t]] = None]
    /\ handle' = [handle EXCEPT ![t] = None]
    /\ Goto(t, After(t))
    /\ UNCHANGED <<tokens, used, lock, job, file, index, open, lost, fatal>>

-----------------------------------------------------------------------------
Step(t) ==
    \/ Acquire(t) \/ AcquireTimesOut(t) \/ Release(t)
    \/ Take(t) \/ ChannelDenied(t) \/ ChannelOpened(t) \/ NoChannel(t)
    \/ NewFile(t) \/ NewFileFails(t) \/ CasTakes(t) \/ CasMisses(t) \/ TableFull(t)
    \/ ReadSlot(t) \/ AddFree(t) \/ DeleteFile(t) \/ ClearSlot(t)

Next == \E t \in Tasks : DmaOpenFree(t) \/ IoOpen(t) \/ Close(t) \/ Step(t)

Spec == Init /\ [][Next]_vars

(***************************************************************************)
(* Tasks run, and close what they have opened. A task that waits for a     *)
(* token is woken by xSemaphoreGive, longest waiter first, and is not kept *)
(* from it by others for ever.                                             *)
(***************************************************************************)
Fairness == \A t \in Tasks : /\ WF_vars(Step(t))
                             /\ WF_vars(Close(t))
                             /\ SF_vars(Take(t))

LiveSpec == Spec /\ Fairness

-----------------------------------------------------------------------------
TypeOK ==
    /\ tokens \in 0 .. NChannels
    /\ used \in SUBSET Channels
    /\ lock \in Tasks \cup {None}
    /\ slot \in [Handles -> Files \cup {None}]
    /\ pc \in [Tasks -> Labels]
    /\ job \in [Tasks -> Jobs]
    /\ file \in [Tasks -> Files \cup {None}]
    /\ index \in [Tasks -> Nat]
    /\ handle \in [Tasks -> Handles \cup {None}]
    /\ open \in [Tasks -> SUBSET (Handles \X Files)]
    /\ lost \in Nat
    /\ fatal \in BOOLEAN

(* The slot of a file that its closer has deleted already *)
Dangling(h) == \E t \in Tasks : pc[t] = "clear" /\ handle[t] = h

(* Files on channel c: in the table, or being opened and not there yet *)
InTable(c) == {h \in Handles : slot[h] = c /\ ~Dangling(h)}
InHands(c) == {t \in Tasks : file[t] = c /\ job[t] = "dma_open_free"}

(***************************************************************************)
(* A channel is open if and only if there is one file on it, although its  *)
(* closer leaves the slot behind and others open it meanwhile.             *)
(***************************************************************************)
OneFilePerChannel ==
    \A c \in Channels :
        Cardinality(InTable(c)) + Cardinality(InHands(c)) = (IF c \in used THEN 1 ELSE 0)

(***************************************************************************)
(* A handle a task has opened and not closed stays its own: it leads to    *)
(* the file the task put there and no other task has that handle. A        *)
(* channel has one file at most meanwhile.                                 *)
(***************************************************************************)
HandlesAreOwned ==
    /\ TypeOK /\ OneFilePerChannel
    /\ \A t \in Tasks : \A o \in open[t] :
         /\ slot[o[1]] = o[2]
         /\ ~Dangling(o[1])
         /\ \A u \in Tasks \ {t} : \A p \in open[u] : p[1] # o[1]

(***************************************************************************)
(* dma_free_ counts the free channels, give or take the tasks that have    *)
(* taken a token and not opened a channel yet, those that have given a     *)
(* token and not cleared the channel's flag yet, and the tokens that were  *)
(* lost for want of memory.                                                *)
(***************************************************************************)
TokensCountChannels ==
    tokens + Cardinality(used) + lost + Cardinality({t \in Tasks : pc[t] = "scan"})
      = NChannels + Cardinality({t \in Tasks : pc[t] = "delete" /\ file[t] \in Channels})

(***************************************************************************)
(* Every channel is held by a task that waits for a channel: a driver that *)
(* opens two (to read and to write) may wait while it holds the first.     *)
(***************************************************************************)
HoldersWait ==
    \A c \in Channels : \E t \in Tasks : pc[t] = "take" /\ \E o \in open[t] : o[2] = c

(***************************************************************************)
(* A task that calls dma_open_free comes back, even though it may wait for *)
(* a token while it holds the lock every closer asks for; unless an        *)
(* assertion stops the system, a token has been lost, or every channel is  *)
(* held by a task that waits for one more.                                 *)
(***************************************************************************)
OpenReturns ==
    \A t \in Tasks : (pc[t] = "acquire" /\ job[t] = "dma_open_free")
                        ~> (pc[t] = "idle" \/ fatal \/ lost > 0 \/ HoldersWait)

(***************************************************************************)
(* devices.cpp:915, configASSERT(dma): a task that has taken a token finds *)
(* a channel to open.                                                      *)
(***************************************************************************)
TokenMeansChannel == \A t \in Tasks : pc[t] = "scan" => index[t] \in Channels
=============================================================================

# Kendryte FreeRTOS SDK: a TLA+ verification project

The SDK runs FreeRTOS 10.0.1 on the Kendryte K210, a chip with two RISC-V harts.
Each hart has a scheduler of its own (every scheduler variable of `tasks.c` is an
array over `portNUM_PROCESSORS`), the two share memory, one kernel lock
(`xCoreLock`) and all queues, and a kernel of C++ objects (devices, files,
sockets) and a POSIX layer sit on top. The modules here model that
core: the locks between the harts, the mailbox by which one hart asks the other
for something, the scheduler of one hart, the queues, mutexes, event groups and
stream buffers, the POSIX threads built on them, the table of open files with its
pool of DMA channels, transfers and streams on such a channel, and a serial port.

Paths below are relative to `src/lib/` unless they say otherwise.

## Inventory

| Component | State | Operations | Interacts with | Hard behaviour | What makes it correct |
|---|---|---|---|---|---|
| Core locks, `arch/include/atomic.h` | spinlock word; `(lock, count, core)` | lock, trylock, unlock | everything | two harts, each access a step | mutual exclusion, count = nesting, a lock left is obtained |
| Core synchronisation, `freertos/core_sync.c`, `freertos/portable/port.c` | one event word, task slot and lock per hart; `msip`; `mstatus.MIE`; critical nesting | request, add task, software-interrupt handler | scheduler, core locks | interrupts against threads against the other hart | no request lost, lists updated by one context, requests end |
| Queues and semaphores, `freertos/queue.c`, `list.c` | ring, lock counts, two event lists | send, receive, peek, from tasks and handlers, with time-outs | scheduler | work outside critical sections, wake-ups through lock counts | bounded FIFO, no lost wake-up, time-outs end |
| Mutexes, `freertos/queue.c` with `tasks.c` | holder, recursion count, list of waiters, mutexes held and priorities of each task | take, take recursively, give | scheduler | a waiter that gives up takes its priority back from a holder who owes others too | a holder runs at its waiters' priority, borrowed priority is paid back |
| Scheduler, `freertos/tasks.c` | ready, delayed, pending, suspended lists, ticks, priorities, per hart | create, delete, delay, block, resume, tick, switch, notify, inherit | queues, port, event groups | tick overflow, wake-up racing time-out, migration between harts | a task is on one state list; wakes on time; the highest priority runs |
| Event groups, `freertos/event_groups.c` | bits, unordered list of waiters | set, clear, wait, sync | scheduler | waiters' conditions evaluated by the setter, time-out racing it | a waiter whose condition was met returns with it |
| Stream buffers, `freertos/stream_buffer.c` | ring, one waiting reader and writer | send, receive, trigger level, reset; bytes or messages | notifications | lock-free single reader and writer | FIFO of bytes or whole messages, no lost notification |
| Heap, `freertos/portable/heap_4.c`; `bsp/iomem.c` | sorted free list | allocate, free | everything | coalescing | blocks disjoint, nothing lost |
| newlib locks, `freertos/locks.c` | a semaphore per lock | acquire, release | device manager, newlib | 200-tick time-out nobody looks at | those who rely on the lock |
| Device manager, `freertos/kernel/devices.cpp`, `driver_impl.cpp` | handle table, driver registries, DMA token semaphore, exclusive flags | open, close, read, write, control; DMA open and close | drivers, locks, semaphores | compare-and-swap table, failing allocation, failing lock | one file per channel, handles owned, tokens count channels |
| Object model, `freertos/include/kernel/object.hpp`, `driver_impl.cpp` | reference counts, use counts | add reference, release, open, close | devices | first open against second, last close against open | no use after delete |
| Interrupts, `bsp/device/plic.cpp`, `devices.cpp` | callbacks, thresholds | set handler, dispatch | drivers | handler installed while it fires | handler and its data belong together |
| DMA driver, `bsp/device/dmac.cpp`; its streaming user, `bsp/device/i2s.cpp` | session of a channel, bounce buffers; stage tokens, buffer in use | single, looped transfer, stop; start, take and release a buffer | semaphores, interrupts | stop racing completion, two layouts of one session | a channel is at rest when its owner is told, bounce buffers are freed, the streaming task is woken |
| UART, `bsp/device/uart.cpp` | receive ring, use count | first open, last close, interrupt writes, task reads | semaphores, interrupts, object model | length changed from both sides; opens and closes that overlap | bytes in order, the reader is woken |
| POSIX threads, `posix/pthread*.cpp` | thread, mutex, condition objects | create, join, cancel, once, lock, wait, signal | scheduler, semaphores | join racing exit, signal racing time-out | POSIX's promises |
| Network, sockets, file system | glue around lwIP and FatFs | | third-party code | polling task | |
| Other drivers, board support, HAL | registers, one mutex each | | device manager | two DMA channels each | |

`PROJECT.json` lists every component with its status, and under `hazards` every
place where something hard to test can go wrong, with the properties that would
show it.

## Modules

| Module | Models | Role |
|---|---|---|
| `RecursiveLock` | what a `corelock_t` promises | abstract specification |
| `CoreLock` | `atomic.h`, every access to memory a step | implements `RecursiveLock` until the spinlock is stolen |
| `CoreSync` | `core_sync.c`, critical sections, task creation, yields | uses `RecursiveLock` for `xCoreLock` |
| `Cores_proofs` | | theorems about `CoreLock` and `CoreSync` |
| `BoundedQueue` | what a queue promises | abstract specification |
| `Queue` | `queue.c`, `list.c` and the scheduler functions they call | implements `BoundedQueue` |
| `Queue_proofs` | | theorems about `Queue` on one hart; the refinement also for tasks alone on any number |
| `Countdown` | what the delayed lists and the tick promise | abstract specification |
| `Scheduler` | `tasks.c` on one hart: lists, ticks, switches, delays, notifications | implements `Countdown` |
| `Scheduler_proofs` | | theorems about `Scheduler` |
| `Mutex` | mutexes of `queue.c`, priority inheritance of `tasks.c` | |
| `Mutex_proofs` | | theorems about `Mutex` |
| `EventGroup` | `event_groups.c` and the unordered event lists of `tasks.c` | |
| `EventGroup_proofs` | | theorems about `EventGroup`, on one hart |
| `FifoStream` | what a stream or message buffer promises | abstract specification |
| `StreamBuffer` | `stream_buffer.c` and the notifications it uses | implements `FifoStream` until a message is put back over bytes already reused |
| `StreamBuffer_proofs` | | theorems about `StreamBuffer`, on one hart and on any number |
| `PthreadSync` | `pthread_mutex.cpp`, `pthread_cond.cpp` | used by `Pthreads` |
| `Pthreads` | `pthread.cpp`: create, exit, join, cancel, once | composes the threads' lives with `PthreadSync` |
| `Pthreads_proofs` | | theorems about `Pthreads`, the calls of `PthreadSync` included |
| `DmaPool` | `devices.cpp`, `driver_impl.cpp`, `locks.c` | used by `Dma` |
| `Dma` | `dmac.cpp`, the stream of `i2s.cpp` | transfers on the channels that `DmaPool` hands out |
| `Uart` | `uart.cpp`, first open and last close, dispatch of its interrupt | |
| `Drivers_proofs` | | theorems about `DmaPool`, `Dma` and `Uart` |
| `MC*` | | give constants values for TLC |

Each module has one action per step of a function that another context can
interleave with. A section named *Faults*, or an operator beside the action it
varies, holds a variant with a plausible bug (a missing guard, an off-by-one). No
specification uses them; they are there to show that each property notices such
a bug, and `PROJECT.json` ("mutants") says which is meant for which.

The layers rest on each other by the promises the lower ones are shown to keep:
`CoreSync` uses the abstract `RecursiveLock`; `Mutex`, `EventGroup` and
`StreamBuffer` take a critical section as one step and let the highest ready
priority run, as `CoreSync` and `Scheduler` show of one hart; `PthreadSync`,
`DmaPool`, `Dma` and `Uart` take a call of a semaphore as one step that a time-out
may end, as `Queue` shows of tasks and handlers of one hart. Across harts that step
is an assumption: the give of a handler of one hart holds no lock against a take on
the other (`port.c:158`), and the lists of two harts meet in `MCQueueTwoCores`. What
`PthreadSync`, `DmaPool`, `Dma` and `Uart` show on two harts is about their own code, on
semaphores that work.

### CoreLock

`lock`, `count` and `core` are the fields of the `corelock_t`, `pc` and `call` say
where each hart is in which function, `reg` is the value of `count` a hart has in
a register, `depth` is how many acquisitions the caller has been given. Reads and
writes of `count` and `core` are separate steps, because another hart can be
between them once the spinlock fails.

It can fail. `corelock_lock` ends with a `spinlock_unlock` (line 148) on every
path. On the path through `corelock_trylock` the inner spinlock has been released
already, so that last store frees it a second time, under whichever hart has
taken it since. The history variable `stolen` records that a store has done so.
The properties, and the theorems, say what holds *until* then; the run
`core_lock_assert` shows what follows: two harts in the inner section, a lost
update of `(count, core)`, and a hart that stops at the code's own `sbreak`.

### CoreSync

A hart has a thread (`pc`, `op`, `hand`), standing for whichever task it runs, and
a handler of software interrupts (`irq`, `irqTask`) on top of it. The handler can be
interrupted in turn (`outer`): `vTaskExitCritical` enables interrupts inside it, up to the
`csrc` at `bsp/crt.S:265`, and a hart that polls the event word posts as soon as
`core_sync_complete` has stored `CORE_SYNC_NONE`. `ReenteredWhenDone`, a part of
`TasksDelivered`, says that the handler below has nothing left to do then but to return. `mie` is
`mstatus.MIE`, `msip` the pending interrupt, `nesting` the critical nesting of
the current task. `vTaskEnterCritical` does nothing before the scheduler runs
(`running`), as in the code. A thread creates the tasks of the plan `By`/`On`, for
its own hart or through the mailbox for the other, and may yield, outside or
inside a kernel call. `xCoreLock` is the abstract `RecursiveLock`, so what is
shown does not depend on the flaw above. `s_core_sync_locks` are corelocks too,
but never taken twice by a hart, so an owner is enough.

### Queue

A critical section (interrupts off, `xCoreLock` held) is one step; all that
happens between critical sections is a step of its own: suspending the scheduler,
locking the queue, checking the time-out, checking for room, inserting into the
event list, leaving the ready list, the two halves of `prvUnlockQueue`, resuming
the scheduler. The ring is modelled by the indices `writeTo` and `readFrom`.
Event lists are sequences in the order of `vListInsert`; ready, pending and
delayed lists are sets, because nothing here depends on their order: any ready
task may be dispatched, which covers every order. Each hart has its own, and
`xTaskRemoveFromEventList` uses those of the hart that calls it. A block time is
`zero`, `some` or `max`; a finite one ends at any moment at which ticks pass.
The FromISR functions are a step each. They mask the interrupts of their own hart
(`portSET_INTERRUPT_MASK_FROM_ISR`, `port.c:158`) and take no lock, so that is right
against what runs on this hart and not against the other: a queue that handlers use
is taken to be on one hart (`QueueAssumption`). What a handler does to a queue in the
middle of the other hart's critical section is not modelled; it is a hazard without a
property.
A semaphore is a queue whose items do not matter; `xQueueSemaphoreTake` and
`xQueueGiveFromISR` have the control of `xQueueReceive` and of
`xQueueGenericSendFromISR`.

### Scheduler

`kernel` is one record of the variables of `tasks.c` for one hart: `tick`, `pended`
and `unblock` are `xTickCount`, `uxPendedTicks` and `xNextTaskUnblockTime`; `ready`,
`top` and `current` are `pxReadyTasksLists`, `uxTopReadyPriority` and `pxCurrentTCB`;
`delayed`, `overflow`, `suspended`, `pending` and `term` (tasks that have deleted
themselves) the other lists; `depth` and `yield`
are `uxSchedulerSuspended` and `xYieldPending`; `wake` and `prio` come from the task
control blocks. It is a record because a handler runs several of the kernel's
functions in a row: those are operators from a kernel to a kernel (`Block`,
`Increment`, `ResumeAll`, `Switch`), and the actions compose them. A ready list is
kept as seen from `pxIndex`, so `InsertEnd` puts a task before the last item, and
`NextEntry` turns the list; it has the end mark in it, since `pxIndex` may point
there.

A critical section or a handler is a step; what lies between two critical sections
of a call is a step of its own, `pc` says which. Ticks have `TickBits` bits and wrap.
`msip` is the switch a task has asked for: the software interrupt comes before its
next step. `ahead` and `parked` are history: how far a periodic task's next wake
time is ahead of the tick, not wrapped, and which tasks `vTaskSuspend` has
suspended. Handlers notify and resume tasks at any time (`NotifyFromISR`,
`ResumeFromISR`), the timer ticks at any time.

A task that deletes itself (`DeleteSelf`) is on the termination list until the idle
task takes it off in a critical section (`IdleUnlists`) and frees it outside
(`IdleReclaims`); another task is unlinked and freed at once (`Delete`), also while
the scheduler is suspended and a handler has put it on the pending list. A freed task
may be created again (`Create`), in the same memory. The application is taken not to
use the handle of a deleted task. `IdleSuspends` may happen with a task on the
termination list: the idle task looks there first, and the deletion may have come
after.

`Countdown` gives each task the number of ticks it has left. `Scheduler` implements
it: the two delayed lists, their exchange when the tick count wraps, the pended
ticks and the cached `xNextTaskUnblockTime` never let a task sleep longer or shorter
than it asked, unless something else wakes it. `PeriodIsKept` says the same of
`vTaskDelayUntil` and covers calls that are less than a lap of the tick count late.
A call whose last wait was cut short by `xTaskAbortDelay` is early, and the code
need not delay it then, even though its wake time has not come; the property
leaves that case out.

### Mutex

A mutex has a `holder`, a recursion `depth` and a list of `waiters` in the order
`vListInsert` left it in; a task has its priority `prio`, its `Base` priority and
the count `held` by which the code decides when to give a borrowed priority back.
A call goes through `try`, `block`, `blocked`, `expired` and `disinherit`, the critical
sections and suspended stretches of `xQueueSemaphoreTake`; `inherited` is its local
`xInheritanceOccurred`. A task acts when no ready task has a higher priority. There is
one exception (`runs`): a task that gives a mutex falls back to its own priority before
the waiter is woken, and `xQueueGenericSend` requests a switch only for a waiter above
it, or if there is no waiter (`Yields`). With a waiter below it the giver runs on under
whoever else is ready (`RunsOn`), until it sleeps or a tick wakes a task not below it
(`Keeps`, `Ticks`), and may take the mutex again. A task may
sleep at any time it is outside a call, which lets those below it run, and be
woken before any step. The block time may elapse before, while and after the
task is on the list. `fatal` is a failed assertion. A waiter is put behind those of its
own priority (`PlaceIn`), by the priorities that the inheritance of the same step
leaves (`Raised`), and taken off wherever it is (`Unlink`).

`HolderInherits` compares the holder with the *base* priority of those that wait:
inheritance is not carried on along a chain of holders, in the code neither. It holds
of programs in which no task takes two mutexes that others take too; the run `mutex` is
one, `MCMutexNested` is not.

### EventGroup

`waiting` is the unordered list; `item` the value of each task's event list item
with its control bits; `next` the cursor of a task that walks the list. Suspending
the scheduler is an action of its own (`holder`), so that with a task on another
hart the setter's walk (`SetBits`, one `Walk` a waiter, `ClearMatched`) would be
interleaved with it; on one hart only time-outs, wake-ups and critical sections fall
between. `xEventGroupSync` sets its bits as `xEventGroupSetBits` does and then tests
them (`Meet`) with the scheduler suspended throughout. A task that wakes up looks at
what its item says (`Woken`) and, if it has timed out, at the bits in a critical section
(`Late`). The group may be deleted with tasks waiting on it, and created
anew. The application is held to what deletion needs: nobody is inside a call,
but for those that wait without a time-out.

`RendezvousMeets` is about tasks that meet at the same bits by `xEventGroupSync`, for
good, where each call that marks one of these bits waits for all those it marks (`Meeting`): when
one of them is satisfied, each bit has been marked by a call that is under way at that
moment, not by one of an earlier round (`LeaveTogether`).

### StreamBuffer

The ring has no lock. The sender's and the receiver's steps are those of the code:
read the other's index, copy up to the end of the storage, copy the rest, move
the own index. Each end is a task or a handler. A task that finds too little
room or too few bytes checks again in a critical section, registers itself
(`registered`), waits for a notification (`note`) and removes itself. The other end
takes the registration out and notifies in steps of its own. What has been sent (`Sent`)
leaves out the length of a message whose bytes are still missing (`HalfSent`): the
receiver does not look at it, and is notified when the bytes are there. A message is written as
its length and its bytes, a length is one byte here (`LengthBytes`) instead of the
width of `size_t`, which wraps at the end of the ring within fewer messages.

`FifoStream` is a sequence of units, bytes or messages. The mapping takes the bytes from
the tail to the head, or the message that the receiver has in hand (`inHand`) and the
messages that the lengths behind it mark off (`Messages`). It holds up to the
first time that a receiver whose buffer is too small puts `xTail` back over bytes the
sender has used meanwhile (`clobbered`).

### PthreadSync and Pthreads

`PthreadSync` has the mutex as the code does: `holder` and `depth` are those of
the kernel's semaphore, `owner` is the word beside it that `update_owner` reads and
stores in two steps after the semaphore has been given. The history variable
`stale` says that such a store came after the holder had changed again. The
condition variable is the counter `waiting` (`Width` bits, so that it wraps), the
`tokens` of `wait_semphr` and the mutex `condLock`. `pthread_cond_signal` takes
`condLock` twice when a thread waits and is stuck (`sstuck`): `semaphore_lock` in
line 155 of `pthread_cond.cpp` holds what line 156 takes. So the wake-ups of the model
come from broadcasts and time limits.

`Pthreads` adds the object and the task of each thread, its `join_mutex` and
`join_barrier`, and `pthread_once` with its compare-and-swap. Programs (`Plans`) say
which calls each thread makes, whom it may join and who is detached. A thread that
joins or cancels others takes each step of that against the others' exits.
`pthread_cancel` runs the end of the thread in the caller's context and then
suspends the caller with the scheduler suspended, which an assertion of `tasks.c`
forbids: the program ends there (`fatal`).

### DmaPool

`slot` is `handles_`, `used` the exclusive flags of the channels, `tokens` the
semaphore `dma_free_`, `lock` the holder of `dma_lock`. A task opens a channel
(`dma_open_free`) or another file (`io_open`) and closes what it has open. The lock may time
out (`AcquireTimesOut`), an allocation may fail (`NewFileFails`), the table may be
full. `open` and `lost` are history: the files a task has open, and tokens lost
because an allocation failed.

### Dma

A task that has a channel open programs `session` and enables the engine: a transfer of
narrow elements (one bounce buffer, `alloc`), a wide one (a bounce buffer for each
end in cached memory), an empty one, or a loop. The engine moves a block
(`BlockDone`) and raises `irq`; the handler claims it and finishes the transfer or goes
on with the next buffer. The handler runs on core 0 and the tasks on both,
so its steps interleave with theirs. `session` keeps what is left from earlier
openers. Its fields that share memory in the code's union share a field here:
`dest` of a transfer is the third destination of a loop, for example. The stream is
`get_buffer`, `release_buffer` and `stop` of the I2S driver with its two buffers,
`stage_completion_event` and `stop_signal`. The assertion that a stage comes within
1000 ticks is left out: the interrupt is taken, at some time.

Which registers a configuration sets, and that only one of the two channels of a driver is
enabled at first, are left out; a configuration is one the driver accepts.
`iomem_malloc` is taken not to fail, since the code does not check it.

### Uart

Tasks open, read and close the port; the line delivers bytes into the port's own
FIFO; the interrupt handler moves them to the ring. `length++` of the handler
and `length--` of the reader are a load and a store each, on two harts, and a lost
update is recorded in `torn`; `length` is a `size_t` and wraps at `SizeMax`. `Rings` is the
memory there is for rings. The first open (`FirstClock`, `FirstRing`, `FirstIrq`) and the
last close (`LastClock`, `LastDelete`) are steps others can come between: the second
opener only counts itself, and uses the port at once. The close leaves the interrupt
enabled and `recv_buf_` pointing at a deleted ring, as the code does; `overlap`, `cut` and
`reopened` record when that has happened, and `astray` that a ring was used that is
not there. `BytesInOrder` says that bytes arrive in order but for lost updates and
overlaps, and that `astray` comes from those and from reopening only. A read that
times out returns -1 and loses the bytes it had taken, as in the code. The
application is taken to have one reader at a time: the code does not keep two apart,
and they would share the ring and the one binary event.

## Runs

| Run | Shows | Bounds and why they are enough |
|---|---|---|
| `core_lock` | types, mutual exclusion, count = depth, refinement of `RecursiveLock`, a lock that is left is obtained | the chip has two harts; nesting 2 reaches first, repeated and last release; a hart stops where it loads a count outside -2..2, which needs a stolen lock |
| `core_lock_assert` | the finding about line 148 of `atomic.h` | same |
| `core_sync` | no task, event or interrupt lost; lists updated by one context; a creation hangs only where a mailbox cannot be emptied | two harts, an idle task each created before the scheduler, three cross creations so that both mailboxes are used, one twice, which is what it takes to enter the handler on top of itself, and yields on both |
| `queue` | no lost wake-up either way, no task on a wrong list, refinement of `BoundedQueue`, locked lists left alone | one core, length 2 (wraps both ways), three tasks of two priorities so that two can wait and a third preempt, handlers on the same core, lock counts to 2 |
| `queue_live` | a finite wait of a task of the highest priority returns | two tasks of the highest priority, one that makes every call and one that receives, and a receiver below them that gets the core only when they sleep; handlers; length 1; all waits finite |
| `scheduler` | one state list per task, the kernel's assertions, the highest priority runs, a notification wakes, refinement of `Countdown`, periods kept, fair time slicing | ticks of 2 bits, so that they wrap every 4; a periodic task of the highest priority, and two that share a priority, one that waits for notifications with and without a time-out, suspends itself or deletes itself, and one that acts on it with every other call, deletes it and creates it again; one pended tick |
| `mutex` | a holder runs at its waiters' priority, borrowed priority is paid back, a free mutex is offered | four tasks of four priorities: a holder and three that wait for it, two above it and one below, so that one gives up while others wait, and that the holder, giving to the one below, runs on under one above; the holder takes a second mutex, so that it inherits with two held; the first is recursive to depth 2 |
| `event_group` | nobody sleeps on bits that are set, a rendezvous is met by all and each time anew, nobody looks at a deleted group | three tasks that meet for good at three bits, over and over; two of them meet with a time-out at two other bits, which all three also set, clear and await with each flag; one deletes the group |
| `stream_buffer` | refinement of `FifoStream`, no lost wake-up, the assertions | 5 bytes of storage: a message with its length takes 2 or 3, so that lengths and bytes wrap at every offset and two messages fit at most; each end a task or a handler; buffers of the receiver too small and large enough; trigger levels 1 and 3, so that a receiver waits for several bytes |
| `pthreads` | owners settle, tokens and waiters are accounted for, joins are safe, the initialiser runs once | three threads, so that two join a third; mutexes of each type; recursion to 2; a counter of waiters of 2 bits, which wraps below 0 as in the code |
| `dma` | files, flags and tokens, a channel is at rest when its owner is told, bounce buffers are freed, the streaming task is woken, who opens comes back | two tasks and one channel, so that every channel is contended and reused by the next opener with the session the last one left; one handle, so that the table fills; two stages; loops of one and two destinations |
| `uart` | bytes in order but for lost updates and overlaps, the reader is woken | two tasks; a ring of 3, a FIFO of 2 and reads of up to 2, so that the ring wraps, fills and is drained in part; memory for two rings, one that is deleted and a new one; four opens, which reach a reopening and an overlap of each kind |

The type invariant of a module is a conjunct of one of the listed invariants where
the run does not name it: of `TasksDelivered`, `TransferIsOwners` (which has that of
`DmaPool` in it), `NoTaskForgotten`, `OneStateList`, `PriorityIsPaidBack`, `NoStrandedWaiter` of
`EventGroup`, `AssertionsHold` of `StreamBuffer`, `JoinIsSafe` and `BytesInOrder`.

`dma`, `stream_buffer` and `uart` have a `VIEW`: it takes states for one that differ only in
what nobody reads any more, the arguments of a call that has returned, cells of a ring
that hold no byte, the values of bytes where the ring holds what it should. The steps
from two such states lead to such states again, and no property tells them apart.

Runs that say `CHECK_DEADLOCK FALSE` do so because the system does stop there: at
the `sbreak` (`core_lock`), in the mailbox's deadlock (`core_sync`), at a failed
`configASSERT` (`dma`, `mutex`, `pthreads`), waiting for ever for bits nobody sets or for
each other (`event_group`, `pthreads`), or because nothing is said of what comes
after an access to freed memory (`uart`). `queue`, `queue_live`, `scheduler` and `stream_buffer`
check for deadlock.

### Where code and words differ

`core_lock_assert` is listed as a finding: the extra `spinlock_unlock` of `corelock_lock`.
The following are shown the same way by a `.cfg` that is kept beside the others and run by
hand (`tlc -config MCQueueTwoCores.cfg MCQueue`, say); each ends in a counterexample to the
one property it names.

| `.cfg` | Property | What happens |
|---|---|---|
| `MCCoreSyncBurst` | `CreatedBecomesReady` | `vPortAddNewTaskToReadyListAsync` waits for the mailbox with `xCoreLock` held, and the handler that would empty it needs `xCoreLock`: the second of two creations deadlocks both harts |
| `MCCoreSyncYield` | `CreatedBecomesReady` | `core_sync_request` waits for the hart's own mailbox with interrupts off; if the other hart has posted a task, nobody can empty it |
| `MCQueueTwoCores` | `LockedListsAreLeftAlone` | suspending the scheduler keeps one hart's tasks away from a locked queue, not the other's (`tasks.c` at 3079 says nothing else can access the event list): a waiter is taken off it between `vListInsert` and `prvAddCurrentTaskToDelayedList`, and is ready on the other hart while its own still runs it |
| `MCSchedulerAssert` | `NotifiedIsUnlisted` | `prvTaskIsTaskSuspended` takes a task that waits for a notification without time-out for a suspended one; with the scheduler suspended `xTaskResumeFromISR` puts it on the pending list, and the next notification finds its event item in use, against the assertion at `tasks.c:4863`. The run `scheduler` lets the application resume only what it has suspended |
| `MCMutexNested` | `HolderInherits` | a task that waits for one mutex and holds another loses inherited priority when a waiter of the other gives up; the list it waits on is not sorted anew, so its head is no longer the highest, by which the next disinheritance goes |
| `MCMutexAssert` | `AssertionsHold` | a task that has inherited asks for the mutex it holds itself and is late: it finds that it has inherited from itself, against the comment at `tasks.c:4102` and the assertion below it |
| `MCStreamBufferRewind` | `ReturnsToPriorState` | a message that does not fit the receiver's buffer is put back by moving `xTail` back (`stream_buffer.c:877`); the sender has seen the room in between and may have used it |
| `MCStreamBufferTwoCores` | `NoLostWakeup` | the ends suspend the scheduler to test and take the other's registration, which keeps away no task of the other hart |
| `MCPthreadsRejoin` | `JoinedOnce` | a joiner gives `join_mutex` back before it frees the thread, so one that was about to take it joins, uses and frees the object again (`pthread.cpp:165` says only one may) |
| `MCDmaAssert` | `TokenMeansChannel` | `io_free` gives the token back before the channel's flag is cleared, and `_lock_acquire_recursive` returns without the lock after 200 ticks, so `configASSERT(dma)` can fail |
| `MCDmaFourDests` | `BouncesReturned` | a loop with four destinations leaves the fourth where a transfer keeps the length of its bounce buffer: the next transfer of uncached memory copies through the pointers left there |

Read and modelled as it is, without a run of its own: `pthread_cond_signal` blocks itself
(see above); a cancelled thread's end suspends its canceller; the serial port's
interrupt stays enabled after the last close; a timed-out read loses what it had read.

## Fairness

* `CoreLock`: a hart inside a call keeps running, and a critical section ends.
  Nothing is assumed of who wins the spinlock, so the liveness property speaks of
  a hart the others have left alone.
* `CoreSync`: each hart runs; spin locks and the wait for the mailbox are granted
  under strong fairness. The code's spin loops promise less; the
  property is not meant to fail for starvation, and the deadlocks found need none.
  `OnlyMailboxBlocks` says they are the only ones: a creation ends, or a thread waits
  for a mailbox whose hart is itself stuck, in its handler at `xCoreLock` or in its
  thread with interrupts off.
* `Scheduler`: ticks go on, a requested switch is taken, a call that has begun goes
  on when its task runs, and a task that has suspended the scheduler resumes it, if
  it is given the core again and again. Nothing else is assumed of a task. Fairness
  is written out as `[]<>` formulas whose conditions imply that the action can
  happen, which TLC evaluates much faster than `ENABLED` of these actions.
* `Queue`: priorities are strict, so only tasks of the highest are promised anything:
  strong fairness of their dispatching and of their steps, which time slicing among
  them gives, and their block times elapse. A task below them may starve, at any point
  but one: while it has the scheduler suspended nobody takes the core from it, and it
  goes on. `FiniteWaitReturns` is about the tasks of the highest priority; TLC finds a
  starved task below them without that.
* `Dma`: tasks run; one that has a channel open closes it in the end and one that
  plays a stream stops it; the engine moves its blocks and the interrupt is taken;
  a semaphore goes to its longest waiter; a stream does not lap its reader for ever (a
  buffer lasts a hundred frames). Under this `OpenReturns`: who opens a channel gets
  one or an error, although `dma_open_free` holds the lock that `dma_close` needs, because
  the lock's time-out breaks the circle. It says so of tasks that open one channel. Those
  that hold one and wait for another (the drivers of AES, FFT, SPI and I2C) can
  wait for each other for ever, which the property allows for (`HoldersWait`).
* `Mutex`, `EventGroup`, `StreamBuffer`, `Pthreads` and `Uart` have no fairness: what
  should happen in the end is stated as an invariant there (who sleeps has no reason to
  wake, or somebody is about to wake it), which needs none.

## Proofs

Each theorem holds for every value of the constants that the module's assumptions
allow, and for any number of harts where it does not say otherwise. `PROJECT.json`
lists the theorems; the properties are those the runs check. Each proof has the same form: an
invariant that is inductive, a lemma that each action keeps it, and the property from it.
The invariants were checked by TLC on the runs' instances before they were proved.

| Module | Proved | Where |
|---|---|---|
| `Cores_proofs` | `LockTypeOK`, `MutualExclusion`, `CountIsDepth`, `RefinesRecursiveLock` | until the spinlock is stolen |
| | `TasksDelivered`, `ListsExclusive` | everywhere |
| `Queue_proofs` | `RefinesBoundedQueue` | with handlers on one hart; tasks alone on any number |
| | `NoTaskForgotten`, `LockedListsAreLeftAlone`, `NoStrandedWaiter` | one hart |
| `Scheduler_proofs` | `OneStateList`, `AssertionsHold`, `HighestRuns`, `NotificationWakes`, `NotifiedIsUnlisted`, `PeriodIsKept`, `RefinesCountdown` | the application resumes only what it has suspended |
| `Mutex_proofs` | `PriorityIsPaidBack`, `FreeMutexIsOffered` | everywhere |
| | `HolderInherits` | no task takes two mutexes that others take too |
| `EventGroup_proofs` | `NoStrandedWaiter`, `DeletedIsUntouched`, `RendezvousMeets` | one hart |
| `StreamBuffer_proofs` | `RefinesFifoStream` | everywhere, until a message is put back over bytes in use |
| | `AssertionsHold`, `NoLostWakeup` | both ends on one hart |
| `Pthreads_proofs` | `OwnerSettles`, `TokensCountWaiters`, `JoinIsSafe`, `InitialisedOnce` | everywhere |
| `Drivers_proofs` | `HandlesAreOwned`, `TokensCountChannels`, `StreamerIsWoken`; `Dma` implements `DmaPool` | everywhere |
| | `TransferIsOwners` | no loop has four destinations |
| | `BytesInOrder`, `ReaderIsWoken` | everywhere |

Where a theorem has a hypothesis, TLC has a counterexample without it: `MCQueueTwoCores`,
`MCSchedulerAssert`, `MCMutexNested`, `MCStreamBufferRewind`, `MCStreamBufferTwoCores`, `MCDmaFourDests`, and for
event groups the instance of `MCEventGroup` with its tasks spread over two harts, where a
task looks at a deleted group or passes a rendezvous alone.

### The locks

In `CoreLock`, mutual exclusion is not inductive: it needs that one hart at most is in
the inner section (`InnerExclusion`), that `(count, core)` always shows the account of the
one hart that has one, where an account is the caller's nesting plus an
acquisition that is recorded but not yet returned (`Accounts`), and what each
label knows of the fields read so far (`Local`). All of it is under `~stolen`; a
step never unsets `stolen` (`StolenStays`), so the step lemma may assume it of the
state before. The assumptions are `HartsAssumption` (`NoHart` is no hart) and
`BoundsAssumption`.

### Core synchronisation

`Places` says where each created task is on its way: in its creator's hand, in the slot of
its hart, or on the ready list. It needs `Slots`, that a slot is filled from before its
event is posted until the handler has emptied the mailbox, and this needs `Mailbox`: one
hart posts to a mailbox at a time, and a posted event has its interrupt pending or its
handler at work. A handler that is interrupted has emptied its mailbox before (`Stacked`), so
that what is said of the handler on top is enough. `ListsExclusive` needs that `xCoreLock` is counted right by every thread and
handler (`Locking`), and that no handler starts in a critical section (`Nesting`); before
the scheduler runs, when critical sections do nothing, that a hart which posts to another owns
`xCoreLock` all the same. Assumed are `NoneAssumption` and `PlanAssumption`: who creates what for
which hart, and only for itself before the scheduler runs.

### Queues

That the ring is a bounded sequence rests on one equation between `writeTo`, `readFrom` and
the number of messages (`Ringed`), and on arithmetic modulo the length. It holds of tasks on any
number of harts, since each of their copies is in a section that holds `xCoreLock`, and of tasks and
handlers on one, where a handler is not interrupted by what it would disturb.

The wake-ups are about one hart. `QueueInv` relates the place of each task in its call to the
scheduler (`Exclusive`: who has suspended it is the one that runs), to the lock counts
(`Locked`), to the event lists (`Events`: on one list at most, and on none unless asleep or
about to be) and to the ready, pending and delayed lists (`States`). `Checked` is the heart of
it: between a task's look at the queue and its insertion into the event list, the lock count
is at least the number of items or places that handlers have made since. `NoStrandedWaiter`
is then kept by every step: each item that comes is taken note of in the lock count, or somebody is
taken off the list and counts as one more on the way, and who leaves without an item has seen that
there was none (`ReceiversEnough`, `SendersEnough`). `Tasks` is finite and `Items` not empty (`QueueAssumption`).

### The scheduler

The first half of `Scheduler_proofs` is about operators: what the functions of `tasks.c`
that the actions call in a row do to a kernel, whatever the tasks are doing. `Sound` says that
the lists are lists of tasks without repetition, that no task is on two state lists, that
a ready list holds the tasks of its priority and the end mark, that delayed lists are sorted, that
`uxTopReadyPriority` is not below a ready task and that the idle task is ready. `Timely`
says that `delayed` wakes in this lap of the tick count and `overflow` in the next, and that
`xNextTaskUnblockTime` has neither passed nor is late. There is a lemma for each operation: it keeps
`Sound` and `Timely`, and what it leaves in each list, in `Left` (the ticks that
a task has left) and in `High` (nothing ready is above the task that runs, or a yield
is pending). The loops of the code (`Roused`: the tick's over the delayed
list; `Ticked` and `Unheld`: the two of `xTaskResumeAll`) are recursive functions. That such a
function exists, and what it returns, is shown by the minimum of the lengths at which that would fail.

`SchedInv` then says what the lists have to do with the tasks:

* `Placed`: the tasks on a state list are all but those in the hands of a step that is moving
  them and those that are freed. A property of the lists alone does not tell what `Create`
  or the insertion after `uxListRemove` may assume. From this comes `OneStateList`.
* `Depths`, `Hands`, `Runs`: who has suspended the scheduler is the task that runs, nothing is
  pending otherwise, and that task is on its ready list except where it is about to switch. What a task
  has looked at in one critical section of `xTaskAbortDelay` is still so in the next.
* `Waiting`: a task that waits for a notification is on no event list, the assertion of
  `xTaskNotifyFromISR`. It is here that the application must not resume what it has not suspended:
  to show that the pending list has no such task, `Parks` says that a task that
  was suspended, and may be resumed, does not also wait for a notification.
* `Running`: the highest ready task runs, or the switch is requested. The delicate cases are
  a change of priority of a task that is not the one that runs, and a switch that comes while
  the scheduler is suspended: it is kept in `xYieldPending`.
* `Notices`: a task that was notified and has not noticed is ready, pending or in hand.
* `Periods`: `previous` is the tick count plus `ahead`, modulo the width of the count,
  while the task is less than a lap late.

`RefinesCountdown` is step by step: each action is a tick of `Countdown`, a task that goes to sleep
for `n` ticks, one that wakes, or nothing (`Counts`). A tick while the scheduler is suspended
only adds to the pended ticks; `xTaskResumeAll` makes them up all at once. Assumed is
`SchedulerAssumption`: tasks and priorities are finitely many, the idle task is another, and
block times are tick counts.

### Mutexes

A borrowed priority is paid back (`MutexInv`) because a task's priority exceeds its
base only while it holds a mutex (`Owing`), nobody is on a list twice (`Queued`), so that taking
off an item takes off the task, and a task asks for mutexes it uses (`Using`). For
`HolderInherits` the lists have to be in the order of *current* priorities (`Ordered`), for
disinheritance goes by the head, and the holder not below any of those that wait for it, or, while
the mutex is free, one of those about to take it (`Above`). Who takes it is the highest of
these, or a giver that runs on, which is not below those that wait either (`RunsAbove`). A raised priority is written into
the item of a waiting task without moving it. So the order is kept only where nobody who waits
can be raised: where a task shares at most one of its mutexes with others (`OneShared`).

### Event groups

`EventInv` says of each task which call it is in and what its item may say, and that one
task has suspended the scheduler. Added to it are, for `NoStrandedWaiter`, that the only
ones who wait for bits already set are those that the walk has still to come to (`Settled`,
`Cursor`), which speaks of the order of the list while its items are taken out; for
`DeletedIsUntouched`, that everybody else is outside the group or sleeps with its answer in the
item (`Deleting`); for `RendezvousMeets`, that for each bit that is set and tasks meet at there is
a call under way that marked it and has not gone home late (`Rendezvous`), on the list or
in the walk that is about to take the bit out.

### Stream and message buffers

`RingInv` says what is in the ring at each step of either end, until `clobbered`: `Filled`, that
what the sender has copied and not handed over has its place; `Framing`, that the bytes from tail to
head, less the part of a message either end is in the middle of, are whole messages
(`Framed`); `Taking`, that what the receiver has read of the length and the number of
bytes is still so. The refinement needs in addition how `Messages` behaves when a message is
put behind the others or taken from the front. It is a recursive function on the offsets in the
buffer. That the function exists and that two buffers which agree from an offset on yield the same
messages is proved from the minimum of the distances to the end at which it would fail
(`NatMinimum`), for want of induction with a predicate.

On one hart, `WakeInv` says that an end which sleeps is registered and that the other one is
about to notify it or has not done enough (`SenderWaits`, `ReceiverWaits`). The delicate case
is the receiver that takes a length and may put it back: the room it makes meanwhile must not
count as room that the sender has been told of.

### POSIX threads

`Calls` says what a thread at each label holds and has counted, from which every step keeps the
equation, modulo the width of the counter, between `waiting_threads`, the tokens and the
threads that wait; `Threading` which
object, task and joiner belong together; `Joining`, until a joiner was late, that who has
taken `join_mutex` is alone with what it joins, and that the barrier is given or a joiner has
it once the thread has ended; `Initialising` who runs the routine of `pthread_once`.
`SyncAssumption` has `UintMax` positive and `Threads` finite: cardinalities are compared.

### DMA

Of the pool, `OneFile` says that a channel's flag is set if and only if it has a file, in the
table or in an opener's hands, and only one. It is not inductive alone, because `io_close`
deletes a file before it clears the slot: others may open the channel while the old handle
still leads to it. `Apart` says that nobody else has that handle meanwhile, `Table` what
a handle leads to, `Shape` what each call holds at each of its steps. `TokensCountChannels` is
an equation between the numbers of tokens, files, closers and openers, and of tokens lost.

Of the transfers, `Doing` ties what a task does to the state of the channel, `Serves` a busy channel to the
task its session names, `Phase` the handler's branch to the kind of transfer, `InStep` the
buffer in use of the stream to that of the driver. `StreamerIsWoken` needs no more. That bounce
buffers are freed (`Bounces`, `Allocated`) and data has arrived (`Arrived`) when the task is told
needs that a pointer a transfer finds in its session is its own, which fails after a loop of four
destinations. `DmaImplementsPool` shows that every step of `Dma` is one of `DmaPool` or leaves it
alone, so the theorems about the pool hold of `Dma`. Assumed are that `None` is no file, handle,
task or block, and `Device` no channel.

### The serial port

As long as no open or close has overlapped with another, or with the handler (`Orderly`), `Settled` says
that one ring is allocated while anybody uses the port, the one `recv_buf_` points at, and that reader and handler
work on it; `First`, until the port is opened again after a last close, that the handler finds it allocated,
because its interrupt is enabled last. Afterwards the interrupt is still enabled from before, which is why `astray` is explained by
overlaps and by `reopened` (`StrayOnlyIf`). `Counted` (`used_count_` is the number of those who have the port open or
are opening it) tells first openers and last closers apart from others.

That bytes are in order is `Filled`: the cells from the head on are the bytes not read, and their number is the ring's length,
plus the byte the handler has put in and not counted, less the one the reader has taken out and not
counted (`Fills`, `Put`, `Got`). It holds until an update of the length is lost (`torn`). After overlaps of more
than two tasks, `length` can be counted below 0 and wrap; nothing is claimed of bytes then, and `ReaderIsWoken`
holds all the same: it is inductive with the types and with `Calling`, that one task reads at a time. A reader goes to
wait only when it has seen the length 0 and the handler gives the event after it has stored another. Assumed is
`UartAssumption`: tasks are finitely many, and a `size_t` can hold the length of the ring.

### Model-checked only

All liveness is beyond the prover: `LeftLockIsObtained`, `CreatedBecomesReady` and
`OnlyMailboxBlocks`, `FiniteWaitReturns`, `OpenReturns`, and the fairness of time slicing in
`Scheduler` (`ForemostRuns`).

## Plan

The safety properties of all runs are theorems now. What is left:

1. The lemmas about lists that `Mutex_proofs`, `EventGroup_proofs`, `Queue_proofs` and `Scheduler_proofs`
   share (`Injective`, `Before`, taking out and putting in) belong in a module of their own.
2. `Scheduler` on two harts, with `xTaskResumeAll` that moves the pending tasks of one hart to the ready
   lists of the other (`freertos/tasks.c:2197`), and `cTxLock` at its limit in `Queue` (`freertos/queue.c:1071`): two
   listed hazards no property covers.
3. The heaps, `heap_4.c` and `iomem.c`, with the race between their bounds.

## Not modelled, and why

* The heap (`portable/heap_4.c`) is a sequential algorithm under the kernel lock; its
  callers are modelled with an allocation that may fail. The uncached allocator
  (`bsp/iomem.c`) has a race: `iomem_free_isr` moves the bound between its heap and the
  cached one without the lock `iomem_malloc` takes. `Dma` takes its blocks as given;
  the race is listed as a hazard without a property.
* A FromISR call on one hart against the critical sections of the other (see `Queue`).
* Timers, co-routines and queue sets are configured out. Notification
  values and `ulTaskNotifyTake`, and `xQueueGenericReset` of a queue in use are not modelled.
  `Scheduler` is on one hart: a task changes harts only through the fault that
  `MCQueueTwoCores` shows.
* The interrupt controller's enable words are read, changed and written back without
  a lock (`plic.cpp:60`), and a handler and its data are two stores (`devices.cpp:881`); in
  `Uart` both are one step.
* lwIP and FatFs are third-party, and the network and file system code is glue around
  them. Other device drivers are register programming under one mutex around one or two
  transfers, which `Dma` models as a task's.
* POSIX attributes, thread-specific data and static initialisers, sockets, the LED strip,
  board support and hardware abstraction have no interleaving to check.
* Most lines of the repository that are not modelled are of this last kind: pin
  and interrupt tables, register layouts and their accessors (`hal/`, `arch/`, drivers),
  headers of the kernel that document and wrap its functions, and printf.
* Memory is taken to be sequentially consistent, as the barriers in `atomic.h` arrange
  around each lock.

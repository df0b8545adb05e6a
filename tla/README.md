# A TLA+ model of the OSC labs kernel

The repository holds a small bare-metal kernel for the Raspberry Pi 3 (one
core, AArch64, no MMU, `-O0`): a boot loader, a shell, a buddy page allocator,
a slab allocator, interrupts with priorities, a timer, threads, system calls
and signals.  This directory models the parts whose correctness depends on
long histories or on the order of events, checks the models with TLC and
proves with TLAPS what the page allocator, the queues, the slab allocator, the
scheduler, the processes, the interrupt queues and the UART's ring buffers
keep.

Paths below are relative to the repository; `size_t` is a 32-bit unsigned
integer and `addr_t` has 64 bits (`include/basic_type.h`).

## 1. Inventory

| component | state | operations | interacts with |
|---|---|---|---|
| list, queue (`lib/template`) | `prev`/`next` inside the embedding object; `front`, `back`, `size` | `node_init list_add list_remove`, `queue_init/push/pop/erase` | every component below |
| page allocator (`lib/allocator/page_allocator.c`) | `page_array[].status`, `free_list[]` | `init_page_array memory_reserve page_alloc page_free is_allocated` | called by the slab allocator, threads, signals, `rc_region`, shell |
| startup allocator (`startup_allocator.c`) | none | `init_mem`: five `memory_reserve` calls | page allocator, device tree, initramfs |
| slab allocator (`dynamic_allocator.c`) | `memory_pool[64]`, a `PageHeader` in every slab | `dyna_alloc dyna_free` | page allocator; called by threads, timer, `rc_region` |
| `rc_region` (`re_region.c`) | a reference count per program image | `rc_alloc add_ref rc_free` | both allocators; exec, fork, reaping |
| bump heap (`simple_alloc.c`) | `memory_ptr` | `simple_alloc`, never freed | shell's `setTimeout` |
| threads (`lib/thread/thread.c`) | `run_queue dead_queue total_thread tpidr_el1`, `Thread` | `make_thread schedule switch_context kill_* kill_zombies idle` | timer (preemption), allocators, interrupts (`excepts`) |
| signals (`lib/thread/signals.c`) | `last_signal`, `signal_handlers[]` | `handle_signal`, `signal_s`, `kill_with_signal_s`, `sigreturn_s` | threads, trap frame, page allocator |
| system calls (`lib/exception/syscall.c`) | `handlers[16]` | `getpid read write exec fork exit mbox kill signal sigkill sigreturn` | threads, UART, initramfs |
| interrupts (`lib/exception/exception_c.c`, `exception_s.S`) | pools of tasks and queues, `curr_workload` | `irq_handler enqueue_task exec_queue swap_event_workload free_workload` | timer, UART, scheduler |
| timer (`lib/timer/timer.c`) | sorted list of events, compare register | `add_timer_event clear_timer_event timer_interrupt_handler` | slab allocator, scheduler, shell |
| mini UART (`lib/mini_uart.c`) | two ring buffers, IER and IRQ masks | `async_read_data async_send_data uart_except_handler` | interrupts, everything that prints |
| initramfs (`lib/file_sys/initramfs.c`) | address and size of the archive | `load_program run_prog`, `ls`, `cat` | device tree, `rc_region`, threads |
| device tree, mailbox | none that lasts | parsing, one request and answer | boot, shell |
| shell (`lib/simple_shell.c`, `simple_commands.c`) | the input line | one command at a time | all of the above |
| boot loader (`src/loader*`, `scripts/send_kernel.py`) | bytes received | header, then the image in words | UART |

What is hard, and hard to test, in this code: allocated blocks carry no length,
so one wrong status anywhere is found only at some later free; nothing records
which queue a node is in; a thread may be preempted in the middle of a system
call that changes another thread; the interrupt code nests, hands queues and
masks from thread to thread and reuses pooled objects that are still linked;
failures of the allocators are rarely checked.  `PROJECT.json` lists these
hazards one by one with the line where each bites.

### What makes each part correct

- page allocator: blocks tile the memory; lists and statuses agree; free
  buddies are merged; reserved memory is never granted; a refusal means that
  there is no room; calls return.
- queues: first in first out, no node in two queues, no stale link.
- slab allocator: count, bitmap and owners agree; no object outlives its slab;
  empty slabs go back; what was handed out can be freed.
- threads: one place per thread; the dead never run and are freed once; every
  waiting thread runs, every signal is taken, every dead thread is freed.
- interrupts: an accepted interrupt is handled once and its source is unmasked
  again; a source does not interrupt its own handler; pools are not drained.
- processes: what a thread runs on is its own; an image lives as long as a
  thread executes it and is counted exactly; nothing stays allocated when all
  are gone.
- timer: events fire in order of time, none is lost, the timer is armed while
  there is an event.
- UART: no byte is lost, duplicated or reordered; a waiting program goes on.

## 2. Modules

Every variable carries the name the code gives it where there is one; a
comment beside each variable and operator says what it stands for, and
`PROJECT.json` (`map`) names the lines.  Operators marked *Mutation* are never
used by a specification: they are wrong variants of a definition, kept to show
that each property notices a plausible bug.

| module | models | how |
|---|---|---|
| `PageStore` | what the page allocator promises | a set of held blocks and a set of reserved pages |
| `PageAllocator` | `page_allocator.c`, `startup_allocator.c` | one action per call and per loop iteration |
| `NodeQueue` | `list.c`, `queue.c` | pure operators on a heap of links |
| `SeqQueues` | what a set of queues promises | sequences |
| `ListQueue` | a disciplined client of `NodeQueue` | implements `SeqQueues` |
| `Slab` | one pool of `dynamic_allocator.c` | one action per call, `NodeQueue`'s links for the slabs |
| `Threads` | `thread.c`, and the parts of `syscall.c`, `signals.c` that move threads | one action per uninterruptible piece of code, `NodeQueue` for the run and dead queues |
| `Processes` | `re_region.c`, `fork_s`, `exec_s`, `signals.c`, `sigreturn_s`, `kill_zombies`, `run_prog` | one action per uninterruptible piece of code; pointers are names of blocks |
| `Uart` | the asynchronous half of `mini_uart.c` | one action per access of memory or of a register |
| `Interrupts` | `exception_c.c`, with the handlers' effect on queues and masks | one action per piece of code between two points where interrupts are on |
| `MC...` | | instances of the above for TLC |
| `PageAllocatorProofs` | | `PageAllocator`'s invariants, and that it implements `PageStore` |
| `QueueProofs` | | the queues of `NodeQueue` are sequences of nodes |
| `ListQueueProofs`, `ThreadsProofs` | | what `ListQueue` and `Threads` keep, from `QueueProofs` |
| `SlabProofs`, `ProcessesProofs`, `UartProofs`, `InterruptsProofs` | | what `Slab`, `Processes`, `Uart` and `Interrupts` keep |

**PageAllocator.** `status` is `page_array[].status`; `free[l]` is the set of
the blocks in `free_list[l]`.  The lists are LIFO in the code; the order decides
only which of several equal blocks is given out, and leaving it open covers every
order.  `pc` says which loop runs, and `target`, `level`, `order`, `start`,
`region` are the locals of that loop.  `NextRegion`, `ReserveChunk`,
`CarveSplit`, `CarveDone` are `init_mem` and `memory_reserve`; `PageAlloc`,
`Pop`, `Refuse`, `Split`, `Occupy` are `page_alloc`; `PageFree` and `Merge` are
`page_free` with `merge_page_block`.  Sizes are computed modulo `2^SizeBits` as
`size_t` is.

**NodeQueue, ListQueue.** A heap holds `prev`, `next` of every node and
`front`, `back`, `size` of every queue; each function of the two C files is one
operator from heaps to heaps, statement by statement.  `ListQueue` pushes only
loose nodes and erases a node only from the queue that holds it; `Threads` uses
the same operators with whatever queue the kernel passes.

**Slab.** A header is named by its page.  `bitmap` is a set of bits; `Mask(b)`
is what `1 << b` sets in a 64-bit row, an `int` being narrower.  The pages the
page allocator can still give are a set from which other clients take and to
which they return.

**Threads.** `cur` is `tpidr_el1`; `pc[t]` is where `t` stands in
`kill_curr_thread`, `run_prog`, `kill_s` or `kill_with_signal_s`, which are split at the
points where an interrupt may come; a thread in none of them runs user code.
`Tick` is the timer's `switch_context` up to and with `schedule`; `Wake` is
what follows when the thread is chosen again.  The `schedule()` of
`kill_curr_thread` and `run_prog` runs with the timer unmasked: it is `LeavePop`
and `LeaveSwitch`, and `Tick` may come before the first, between the two, where
the popped thread is known to nobody any more (`lost`), or inside `queue_pop`
(`TickInPop`), whose two intermediate states another `queue_pop` can tell from
the first and the last (`torn`; such a queue is not followed further).  The
`schedule()` of the timer's own interrupt is one step: the next tick is 1/32 s
away, as its comment says (`thread.c:227`).

**Processes.** It complements `Threads`, which orders the queues: here
`Schedule` picks any thread that can run.  A pointer is the block it points
into, `Nowhere` an address in none.  `page_alloc` grants any free block
(`Grants`): one that somebody still refers to, or the lowest of those nobody
does, which are alike.  So a stale pointer can come to point into a block that
belongs to someone else, which is what makes a wrong free visible.  Both
`RCregion` and `ExceptWorkload` come from the 16-byte pool of `dyna_alloc`,
which hands out the lowest free slot: `slots` holds both, `region` keeps the
words of a slot when it is freed and loses them when a workload is written over
them (`WorkloadIn`).  `frame[b]` is what `handle_signal` saves at the bottom of
its page; `back` holds between the return of `schedule` inside
`switch_context` and the signal's delivery; `execing` holds the threads between
`rc_free` and the new program in `exec_s`, where the timer may strike.
`RunProg`, `Fork`, `ExecDrop`, `ExecLoad`, `ExecFails`, `Register`,
`SendSignal`, `Deliver`, `SigReturn`, `Exit`, `DieOfSignal`, `Kill`, `Tick` and
`Reap` are the operations.

Programs may do anything that these operations are, in handlers and out of
them.  Four things that they may do lead the kernel to follow a pointer that is
not what it takes it for: to fork or exec inside a handler, or when the timer
last struck inside one (the saved stack pointer is not `AtHome`); to exec with a
handler registered; to exec a file that is not there; and to die inside a
handler, by the time idle reaps the thread.  Each of the four is a step of the
model and sets `astray`; what comes after is not followed, as it may be anything.
The properties are about the states up to there, among them those in which
threads have died inside nested handlers and are not reaped yet.  Three things
are left out: a signal with neither a registered nor a default handler, a call
of `sigreturn` outside of a handler, and a failing `page_alloc`.  Idle may be
chosen while others live, as it may when `Threads` has lost one.

**Uart.** The code is compiled with `-O0`: `len--`, `len++` and `IER |= ...` are
a load and a store, and `pc` stops before each, so that the handler may run
between any two accesses.  `recv` and `tran` are the two `AsyncBuf`; bytes are
numbered.  `Irq(s)` is the interrupt being taken, after which the loop of
`uart_except_handler` turns (`Receive`, `Transmit`, `ReceiveFull`,
`TransmitEmpty`, `HandlerEnd`) and the program stands still.  `Arrive` and
`Drain` are the hardware's FIFO and transmitter.  The callers are `read_to_buf`,
`send_from_buf` and `echo_read_line`, whose every character is answered by
none, one, two or three bytes of echo.  `buffer[head++]` is three steps:
`ReadHead` loads the head, `ReadNext` stores the next one, `ReadTake` loads the
byte.  `struck` remembers that the handler moved a byte in a window
(`InReadWindow`, `InSendWindow`): while the program held a copy of `len` or
`head` that it was going to use; while it had counted a byte out and not yet moved
the head; or while it had moved the head and not yet taken the byte, when that
place was the only free one of the buffer.  A waiting loop is one step with the
loop's exit as guard.

The handler runs to its end before the program goes on.  That is so in the shell
(`ShellHandledOnce` of `Interrupts`).  Once threads switch it is not: the timer
may preempt the handler and switch to another thread, in which the UART is
unmasked and the handler begun again (`irq_recurs`).  `Uart` does not cover that.

**Interrupts.** `stack[c]` lists the activations of `exec_queue` on kernel
stack `c`; `at` is `"handler"` while the task's handler runs with interrupts on,
`"switch"` between `add_timer_event` and `schedule` in `switch_context`,
`"back"` when the context was switched away there, `"end"` between the
handler's last statement and `DISABLE_DAIF`.  `Irq` is `irq_handler` with
`enqueue_task` and the pool functions; `Unknown` is an interrupt of neither
source, whose task is not given back, and `NoTask` one that finds no task.
`TaskDone` is the rest of the loop of `exec_queue`.  `schedule()` is `SwapBase`,
`SwapTimerMask`, `SwapUartMask` (the three stores of `swap_event_workload`) and
`SwitchTo`, and interrupts may come before each of them, as they may in the
code: in the timer's handler (`Stage` of a frame) and in `run_prog` and
`kill_curr_thread` (`leaving`).  Who is chosen is decided at `SwitchTo`, from the
threads that live then; the run queue itself is in `Threads`.

Address 0 behaves as memory, which it is: there is no MMU.  What a read of
`NULL->priority`, at address 40, finds there is `nullPriority`.  The page is the
firmware's and no code here writes it, so the initial state leaves the word
open: 0, or one of the two priorities, between which no others differ.

## 3. Runs

| run | instance | shows |
|---|---|---|
| `page_alloc` | 16 pages, orders 0..2, four top blocks, 7-bit sizes, five request sizes, two boot regions | types; lists and statuses agree; blocks tile memory; free buddies are merged; the invariant of the proofs (`StoreInv`); boot regions are never granted; `is_allocated` is exact; refinement of `PageStore`; every call returns |
| `list_queue` | two queues, four nodes | links sound both ways; loose nodes carry no links; refinement of `SeqQueues` |
| `threads` | idle, systemd, three user threads, ticks inside `schedule()` | every thread in one place, but for one that a tick inside `schedule()` loses; the dead never run and are freed once; the processor never goes back to the shell, nor from idle to a program; liveness (section 5) |
| `kill_race` | the same, with interrupts inside `kill_s` | a counterexample (section 4) |
| `slab` | three pages, three slots a slab | counts, bitmaps, owners agree; empty slabs are given back and no other |
| `slab_bitmap` | seven slots, 2-bit `int` | a counterexample |
| `irq` | two threads, three queue objects, three tasks, two events, each word at address 40 | while the shell runs: the UART is served, and the timer where that word is below TIMER; no handler re-entered, no inversion, no task lost but to unknown interrupts or where that word is not below TIMER; always: a queue object is in one place |
| `irq_recurs`, `irq_lost` | the same with other pools | counterexamples |
| `processes` | three user threads, ten blocks, two handlers at a time, counts modulo 8 | until a program leads the kernel astray: stacks and handler pages belong to one thread and lead back to its own; images are kept and counted exactly; everything is reclaimed |
| `exec_refs` | two threads, eight blocks, exec while the image is shared | a counterexample |
| `uart` | buffers and FIFO of two bytes, three bytes in, three out | lengths and heads in bounds; order and completeness of both directions outside the named windows; liveness (section 5) |

*Bounds.*  Sixteen pages with three orders have every shape the code treats
differently: a block that splits twice, a merge that stops at a busy buddy, at
a split one and at the highest level, two adjacent top blocks, a region that
ends inside a page, shares no page with another and takes several chunks out of
more than one top block, a request of exactly a block, of one byte more, of
more than the largest block and one that wraps.  Four nodes give every position
of an erase (only, front, middle, back).  Three user threads give a killer, a
target and a bystander in the queue.  Three slots give a slab that is empty,
partly full and full; three pages a slab at the front, middle and back of its
chain.  In `Interrupts` there are two priorities, so while the shell runs at
most two activations nest (`ShellNests` proves it); three queue objects leave
one for a further context, and running out of them (16 in the code) is
thereby reached as well; three tasks are one of each source and one more, and
running out of them (512 in the code) is reached.  `irq` has 1.9 million states
up to the exchange of its two threads (`SYMMETRY`; its properties are all
invariants, for which that is sound).  `irq_lost` has six queues and seven tasks, so that it
is not a pool that has merely run out.
Three threads in `Processes` give a parent, a child and a grandchild that share
one image, and a killer beside two that nest handlers: `MaxFrames` is two
handlers, in one thread or in two.  Ten blocks are an image, six stacks, the
two handler pages and one more, so that no allocation fails where the code
would go on with NULL; `CountMod`, 8 for `2^32`, is above any count and lets a
count below zero show as a large one.  In `Uart` two bytes make a buffer that is
empty, partly full and full and whose head wraps within the three bytes of each
direction.  `MaxThreads` bounds `fork`, `MaxEvents` the shell's timer events; the thread
count is not bounded in the code, ids are never reused.

*Deadlock* is checked except in the `irq` runs and the counterexamples of the
same module: idle, once it has reaped everything and its interrupts are lost,
runs on without changing the state that is modelled.  It is off in `uart`,
where a program may wait for input that nobody types; that nobody waits for
anything else is `BytesMove`.  In `Processes` the timer always interrupts again.

*Restrictions of passing runs.*  `slab` has `Capacity` no larger than the bits
of an `int` (in the code: objects of 128 bytes and more); `threads` has
`KillPreemptible = FALSE`; the `Shell...` properties of `irq` and `TasksConserved`
speak of the time before the first context switch; `processes` has
`ExecShared = FALSE`.  In each case a counterexample run shows why the
restriction is needed.  Other conditions are in the properties themselves, and
section 4 gives the reasons:

- `InOnePlace`, `RunnableRuns` and `SignalTaken` except a thread that a tick
  inside `schedule()` has lost, and the first, with the last two and `AllReaped`,
  says nothing once a tick has torn the run queue;
- `ShellServed` excuses the timer, and `TasksConserved` says nothing, where the word at
  address 40 is not below TIMER;
- the properties of `processes` say nothing once the kernel is astray;
- `ReadInOrder` and `SentInOrder` speak of the time before the handler first
  strikes in a window, and of a handler that is not re-entered.

`slab` and `processes` take `page_alloc` to succeed.

## 4. What the counterexamples show

- `kill_race`: `kill_s` looks up the queue of its target and erases it from
  that queue with interrupts enabled in between.  A timer interrupt there runs
  or kills the target, and `queue_erase` changes a queue that does not hold it.
- `slab_bitmap`: `fill_bitmap` computes `1 << bit` as an `int`.  Slot 31 sets
  bits 31 to 63; the slots above are counted as available and never found.
- `irq_recurs`: in a thread, the timer preempts the UART's handler and switches
  to another thread.  `swap_event_workload` unmasks the UART, because no
  thread's workload was ever stored, and the next UART interrupt begins the
  handler again in the middle of the first one's work on a ring buffer.
- `irq_lost`: `free_workload` frees the workload's queue if it is NULL.  After
  the first reaped thread `queue_free_list` is NULL; the next interrupt masks
  its source, gets no queue, and is neither handled nor unmasked.

- `exec_refs`: `exec_s` gives the old image back (`rc_free`) and never stores the
  region of the new one in the thread.  A parent that execs twice beside its
  child takes the first image's count down twice, and the image is freed while
  the child executes it.

Met while modelling.  These the models contain, and the properties except them
by name, without a run of their own:

- `schedule()` is called by `kill_curr_thread` after it has unmasked the timer
  (`thread.c:148`), and by `run_prog`.  A tick between its `queue_pop` and its
  `switch_to` calls `schedule()` again, and the thread that the first one had
  popped, alive, is in no queue and never runs again; it is never freed either.
  A tick inside `queue_pop` pops a node whose links are cleared, or finds a size
  that is not yet decremented, and leaves a run queue that is none.  (With the
  exceptions taken out of `InOnePlace` and `RunnableRuns` TLC finds both violated.)
- A finished queue stays the `preemptor` of the queue below it
  (`exception_c.c:195`).  If the timer strikes again there, `enqueue_task` follows
  the pointer and reads a priority through NULL.  Where the word at address 40 is
  below TIMER it goes on and takes a new queue; otherwise it hangs the task behind
  a NULL head: the timer's task is lost, and the timer is masked for good.
- An interrupt of neither source takes a task and does not give it back
  (`exception_c.c:112`).  When the pool is dry `irq_handler` returns without having
  masked the source, which interrupts again at once (`NoTask`).
- A thread that died inside a signal handler is reaped with a saved stack pointer in the
  handler's page.  `kill_zombies` rounds it down to 256 KB, which is the address
  of neither that page nor, usually, of a block: `page_free` takes back whatever block
  begins there, somebody else's, or complains; the thread's user stack and its
  handler pages stay allocated (`RoundedStack`).
- `fork_s` and `exec_s` use the stack pointer of the last context switch
  (`syscall.c:120`, `:107`).  If that switch came inside a handler, which may have
  returned since, the child's stack is copied from, or the new program runs on,
  a page of a handler or one that was freed.
- `exec_s` leaves the old program's signal handlers registered; the next signal
  enters the freed image.
- `load_program` returns NULL for an unknown name and `exec_s` reads the entry
  point from address 8 (`ExecFails`): the thread runs on at no place of its own.
- In a window a byte is lost or overwritten: `async_read_data` stores a `len`
  from before the byte came, or finds the byte it was about to take written over,
  and `async_send_data` puts a byte at an index computed from a head that has
  moved.  `ReadInOrder` and `SentInOrder` fail without their condition on
  `struck`; the bounds of `LenInBounds` hold even so.

These the models leave out:

- A signal with neither a registered nor a default handler is delivered by a
  call of address 0 (`signals.c:33`).
- A second signal replaces the first in `last_signal`: there is one place, by
  design.  `SignalTaken` is about a signal that is not replaced.
- `printline_callback` prints from the timer's handler.  If the buffer is full
  there, the UART's handler, of lower priority, cannot empty it and the wait
  does not end.
- A header that `page_alloc` could not provide is written at address 0, and
  `dyna_free` refuses the objects in that slab.

The counterexample of `irq_lost` touches the other models: after a thread was
reaped the kernel may never see another tick.  This does not weaken the
liveness properties of `threads`.  Idle, which reaps, runs only when the run
queue is empty; new threads come from `fork` alone, so nobody waits from then
on, and idle frees the remaining dead in its own loop.  (It prints a line per
thread through the UART's transmit buffer, which then nobody empties: about
fifty lines fit.)

## 5. Fairness and liveness

`CallsReturn` assumes that the processor goes on inside a loop
(`WF_vars(Run)`), and nothing of callers.  `TFairness` assumes that the timer
interrupts again and again (`SF` of `Tick`: an interrupt that comes while the
thread masks it stays pending), that a thread's uninterruptible piece of
`kill_*` ends (`WF` of `Finish`), and that a time slice of 1/32 s is long
enough for a thread that was chosen to leave `switch_context` (`SF` of `Wake`)
and for idle to do one turn (`SF` of `Reap`).  No fairness is assumed of user
code: it need never exit, fork or kill.  Preemption inside the timer handler
holds one of the 16 queue objects per preempted thread; with more threads
interrupts are lost, and `TFairness` is an assumption about fewer.

`UFairness` assumes that the program goes on inside a call, that an enabled
interrupt with a cause is taken, that the handler's loop turns and that the
transmitter sends what it has; it assumes nothing of who types or of when a
program calls.  Weak fairness is enough for the interrupts: the cause lasts
until the handler removes it, and the enabling bit until the handler clears it.

`BytesMove`: a program waiting for input goes on when there is some, one waiting
for room goes on, and what is queued is sent.  The handler disables its own
interrupt when it has no room or nothing to send, and the program enables it
again, with a test, a load and a store; the property is that no order of these
leaves the interrupt off with work to do.

`RunnableRuns`: a thread in the run queue runs or is killed, unless a tick inside
`schedule()` loses it or tears the queue.  `SignalTaken`: a signal that kills ends
its thread, unless it is replaced by another or the thread is lost in that way.
`AllReaped`: when every user thread is dead, every one of them is freed, unless
the run queue was torn.

## 6. Proofs

Each theorem holds for every value of the constants that satisfies the modules'
assumptions, and for every history of calls; the runs of section 3 check the
same formulas on small instances.

### Page allocator

`PageAllocatorProofs` proves that the specification keeps `IInv`, and with it
`TypeOK`, `FreeListsAgree`, `BlocksTile`, `Coalesced` and `BuddyNeverGrouped`;
then that it keeps `StoreInv`, and with it `RegionsStayReserved`,
`IsAllocatedIsExact` and the refinement of `PageStore`
(`AllocatorImplementsStore`).

*Assumptions.*  `SizesAssumption`: the memory is an even number of top blocks
(the code reads the buddy of a top block before it compares the level, and 960
is even), and the largest block and one page more are below `2^SizeBits`, where
the code has 256 blocks of 4096 bytes and 32 bits.  `RegionsAssumption`: the
regions lie in the memory and share no page.  `PowersOfTwo`: `2^k` doubles with
`k`, is positive, and a smaller power divides a larger one, for exponents up to
the width; exponentiation is not known to the provers.  TLC evaluates all three.

*Argument.*  None of the properties is inductive alone.  `page_free` knows the
length of the block it frees only from the GROUPED pages behind its first, so
coalescing needs the tiling; splitting and merging keep the tiling only if a
listed block is as long as its level says, which needs the lists and statuses
to agree; `BuddyNeverGrouped` follows from the tiling, because the buddy of a
block begins a block or lies inside none larger.  `IInv` adds what holds of the
block that a running call has in its hands (`SplitInv`, `MergeInv`,
`CarveInv`) and, at boot, that what is left of the regions lies in free blocks
(`RegionsInv`), without which `memory_reserve` would search for ever or carve
a block with a flag for a level.  The first section of the proofs holds facts
of multiples, the next those of blocks as intervals between heads: two blocks are disjoint or equal (`BlocksDisjoint`), halving and joining keep blocks
(`SplitBlock`, `JoinBlocks`), a block's order is unique.  Then there is one
lemma per action (`...Step`), `InitInv` and `NextInv`, and one temporal step
per theorem.

For the refinement `StoreInv` adds what the abstract state depends on: the
status of the block in hand, which is free for `PageStore` although it is in no
list (`StatusesInHand`); the order of the request that is being served
(`RequestInHand`, with `OrderFits`: the loop over the orders computes the least
that fits unless the size wraps); and that what is already carved of a region
is reserved (`RegionsReserved`).  `FreeRunListed` says that an aligned run of
free pages lies inside one listed block of at least its order, because free
buddies are merged; so a refusal means that there is no such run.
`StoreStep` maps every step to a step of `PageStore` or to a stutter: most of
them are stutters, since splitting and merging are invisible there.  The walk of
`is_allocated` back to the head of a block ends at its owner because blocks are
as long as their orders (`WalkFindsOwner`).

### Queues

`QueueProofs` is about `NodeQueue` alone.  `Queues(h, content)` says that the
links of heap `h` are those of the sequences `content`: `prev` and `next` agree,
end at `front` and `back`, `size` is the length, no node is in two places, and
a node in none has no links.  A push appends (`PushKeeps`), a pop drops the first
member (`PopKeeps`), and an erase anywhere drops one member (`EraseKeeps`), given
that the pushed node is in no queue and the erased one in that queue.
`Sound(h)`, that there are such sequences, is what the users of the queues
keep; `SoundPush`, `SoundPop` and `SoundErase` state the three in terms of the
sets `Reachable(h, q)` only.  Sizes are computed modulo `SizeWrap`; they do not wrap
because a sequence without repetition is no longer than there are nodes
(`QueueLength`, the pigeonhole principle), for which `QueueAssumption` asks that
nodes be finitely many and fewer than `SizeWrap`, as they are in an address
space.

`ListQueueProofs` has `Sound(heap)` as inductive invariant of `ListQueue`, from
which follow `ChainsAreSound`, `LooseNodesAreUnlinked` and, step by step, the
refinement of `SeqQueues` (`KeepsOrder`).

### Slab allocator

`SlabProofs` proves `SlabTypeOK`, `AvailIsExact`, `BitmapIsExact`, `LiveIsOwned`
and `NoIdleSlab` for slabs with `Capacity <= IntBits`: objects of 128 bytes and
more.  For the pools of smaller objects `BitmapIsExact` is false
(`slab_bitmap`).  `SlabInv` says that the headers form one chain `ch[1] .. ch[m]`
without repetition, linked both ways, that `avail` and `bitmap` of each agree
with what callers hold there (`HeaderAgrees`), and that a slab in which nothing
is held is alone.  The hypothesis enters in `MaskIs` only: `1 << b` sets the bit
`b` and no other.  The walk of `find_avail_slab` meets the chain in its order
(`ChainIs`), so the slab it stops at has a slot, and `FreeSlotExists` finds it
in the bitmap.

### Threads

`ThreadsProofs` proves `ThreadsTypeOK`, `InOnePlace`, `TargetStillThere`,
`DeadNeverRuns`, `ReapedOnce` and `OneWay` for every number of threads and all
the behaviours in which the timer does not strike between `find_thread` and the
last statement of `kill_s` or `kill_with_signal_s` (`KillsUninterrupted`).  The
hypothesis is about behaviours, not about the constant `KillPreemptible`: it
covers those of the code as it is in which no interrupt happens to come there,
and holds of all of them if the calls mask the timer (`MaskedKills`).  Without it
`TargetStillThere` is false (`kill_race`).  Ticks inside `schedule()` are not
excluded: what is proved is `torn \/ TInv`, and `TInv` accounts for a lost thread.

`TInv` adds to the types and the soundness of both queues: `Placed`, where a
thread is according to what it is (alive, current, freed, lost), with the exceptions
of the thread that a kill is moving (`Moving`) and of the one that a `schedule()`
has popped (`InHand`); `Calls`, that only the current
thread is inside such a call, and what its `found` points to at each statement;
`Leaving`, that only the current thread, the shell or one that is dead, is inside
such a `schedule()`, and that the thread popped there is alive and nowhere else;
`Current`, that a thread that killed itself only calls `schedule`, that idle and
systemd never die, and that idle runs only when the run queue is empty.  That
`DeadNeverRuns` and `OneWay` hold of each step follows from where `schedule` can
go (`SwitchTo`).  TLC checked `TInv` on the instance of the run `threads` before
it was proved; it is stated beside its proof and is not part of a run.

### Processes

`ProcessesProofs` proves `ProcTypeOK`, `MemoryOwned`, `CountIsExact` and
`AllReclaimed`, for every number of threads, blocks and nested handlers and
every `CountMod` above the number of threads, in the behaviours in which exec is
called only while no other thread has the image (`ExecAlone`; `ExecShared = FALSE`
implies it, `GuardedExec`).  Without it `ImagesKept`, the part of `MemoryOwned`
about images, is false (`exec_refs`).  All of them hold until the kernel is led
astray (section 2), and say nothing of what comes after; `ProcTypeOK` has with
the types that the count of an allocated region is between 1 and the number of
threads, so that it neither wraps nor is left at 0.

`PInv` is `astray \/ Accounted`, and `Accounted` says that there are stacks of pages `st[t][0] .. st[t][n[t]]` for each
thread that is not reaped: the lowest is its user stack, `sp_el0` is in the
uppermost, and the saved pointer at the bottom of each page leads to the one
below (`StacksLead`).  No page is in two places (`BlocksApart`); `held` is exactly
the image, these pages and the kernel stacks (`HeldExactly`), those of threads that
are dead, in a handler or not, among them; a thread inside `exec_s` is in no
handler (`NoHandlers`).  Reaping a thread whose saved pointer is in its user stack
gives that one back; reaping any other is astray.  The region of the image is
always the slot 3, the lowest that the kernel does not keep, which exec gives
back and gets again (`ImageInUse`, `ImageGone`), and the workloads of the threads
take the slots above, one each (`SlotsInv`).  Returning from `k` handlers leads
`k` pages down (`AfterLeadsDown`), and there are no more than `MaxFrames`
(`FewHandlers`, by the pigeonhole principle): this gives `MemoryOwned`.

### UART

`UartProofs` proves `LenInBounds`, `SentInOrder` and `ReadInOrder` for every
`Size`, `FifoSize`, `MaxIn` and `MaxOut` that satisfy `UartAssumption`.

A length is in bounds because the handler moves it one way only
while the program relies on it: `len` of `async_recv` can but grow between the
wait for a byte and the load, `len` of `async_tran` can but shrink between the
wait for room and the load.  `UInv` says so for each program counter
(`ReaderKnows`, `WriterKnows`).  For the order, the bytes are followed one by
one (`WireThenBuffer`, `GotBufferFifo`): byte number `n` is on the wire at `n`,
or in the buffer at its place behind the head.  A step keeps this because the
places of a buffer that is not full are distinct (`IdxDiffers`), because moving
the head and shortening the length by one leave every place where it was
(`IdxOfNext`), and because outside the windows the program's copy of `len` or
`head` is still what it is a copy of (`CopiesFresh`, `LenFresh`).  The index of
`async_send_data`, once computed, stays right while the handler sends; the head
it is computed from does not.  The windows of `async_read_data` end later.  Between
the decrement of `len` and the store of `head` a byte that came would be placed
one too low.  Between that store and the load of the byte its place is no longer
counted, and the handler writes there only if it is the last one free: so a
buffer with two free places or more keeps it.

### Interrupts

`InterruptsProofs` proves the six properties of the run `irq` for every number
of threads, every `TaskPoolLen` and `MaxEvents` and every `QueuePoolLen` of at
least two (16 in the code), which is what the nest below takes.

`IrqTypeOK` and `QueuesInOnePlace` hold at every time, with threads that switch,
die and are reaped in the middle of handlers.  Their invariant `QInv` says that
the pool holds a queue object once and then empty, that an object under an
activation is under no other and has a task, that every object is in one of the
two places (`PoolAndFrames`), and that no more tasks are queued than were taken
from the pool (`Counted`).  The NULL that `free_workload` puts into the pool does
no harm to it.  A push of one task, the beginning of an activation, the next task of
one and its end each have a lemma (`InsertKeeps`, `BeginKeeps`, `NextTaskKeeps`,
`QueueDoneKeeps`); the other steps move nothing (`QuietKeeps`).

The properties of the shell's time follow from the shapes that its activations
can have (`Nest`): none, one, or the timer's inside the UART's.  The pool is a
stack, so the queues are 1 and 2 and the pool is the rest in order.  The first
may keep, after the second has ended, a `preemptor` that points to the freed
object; it is the only stale pointer.  The tasks of an activation are sorted,
and those of the outer one of two all the UART's (`Ordered`).  From that it
follows where the first loop of `enqueue_task` stops (`ShellSearch`).

`ShellHandledOnce` and `ShellNoInversion` need nothing more.  For `ShellServed` and
`TasksConserved` it matters what the loop finds at the end of the stale pointer:
no task there, so it reads `NULL->priority`, at address 40, and goes on to take a
new queue only if that word is less than the timer's priority (`NullIsLow`).  No
theorem assumes that.  `ShellServed` holds whatever the word is, because it is
only the timer's task that can be lost there (`ShellLost`); `TasksConserved`
states its condition on the word itself.

`ShellInv` is `InShell => Shell`: `InShell` ends with the first store of
`swap_event_workload` in a `schedule()`, called from the timer's handler or from
`run_prog`, and `Shell` is the nest, the order of the tasks, who is attended
and the sum of the tasks, in which those that unknown interrupts took are
counted.  `ShellBefore` says that nothing leads back into `InShell`: once `schedule()` has
left the shell, the shell is not chosen again, and if it is still current its
frames are at a later stage.

TLC checked `QInv` and `ShellInv` on the instance of the run `irq` before they
were proved; they are stated beside their proofs and are not part of a run.

### What is only model-checked

- Liveness (`CallsReturn`, `RunnableRuns`, `SignalTaken`, `AllReaped`,
  `BytesMove`): the prover does neither fairness nor `ENABLED`.
- `PInv`, `SlabInv` and `Sound` say that functions or sequences exist, too many
  for TLC to try: the runs check what follows from them.

Induction over data is out of the prover's reach as well.  Where a fact about a
walk or a sequence needs it, the least counterexample is refuted instead
(`MinimumExists`, `LeastExists`), and recursive functions are determined by
showing that what they should be is the only function that satisfies their
equation (`WalkIs`, `ChainIs`, `AfterLeadsDown`, `SearchIs`).

## 7. What is not modelled

- Interrupts inside the allocators.  `page_alloc` and `dyna_alloc` take no lock
  and are called from system calls and from the timer's handler; the modules
  take one call at a time.
- The timer's sorted list and clock.  What a callback does to the queues and
  masks is in `Interrupts`; the list itself is planned.
- A tick inside the `schedule()` of the timer's own interrupt, 1/32 s early; what
  becomes of a torn run queue; what the kernel does once it is astray.
- The UART's handler begun twice, as in `irq_recurs`, in `Uart`.
- Two threads inside `async_read_data` or `async_send_data` at once.  The code
  does not exclude them (two readers that both see `len = 1` take it below 0,
  as `size_t` to the largest value); `Uart` has one program, and its `LenInBounds`
  is a statement about one.
- A failing `page_alloc` inside the slab allocator, threads and signals; the
  page allocator itself refuses, and its callers do not look.
- The boot loader: one sequential exchange of words with `send_kernel.py`,
  which keeps no state of the kernel.
- The device tree, the archive's parsing, the mailbox, the shell's parsing and
  the string helpers: sequential code on constant or incoming data.
- Registers other than the user stack pointer and the return address; the
  task pool of `exception_c.c` is a count.

## 8. Plan

Modules, in order:

1. `Timer`: the sorted list under nested insertion from callbacks; order of
   firing, nothing lost, armed for the head of the list.
2. `Loader`: the word protocol with `send_kernel.py`.
3. A second caller inside `PageAllocator`'s loops, a second reader in `Uart`.

Proofs: the refinement of a queue-wise specification of the scheduler by
`Threads`, as `ListQueue` refines `SeqQueues`; then those of the modules above.

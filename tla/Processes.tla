----------------------------- MODULE Processes -----------------------------
(***************************************************************************)
(* The memory of processes: the program image with its reference count,    *)
(* the two stacks of a thread and the page a signal handler runs on, from  *)
(* run_prog, fork, exec and the delivery of a signal to the day idle frees *)
(* them (lib/exception/syscall.c, lib/thread, lib/allocator/re_region.c,   *)
(* load_program in lib/file_sys/initramfs.c).                              *)
(*                                                                         *)
(* A pointer is the block it points into: page_alloc grants whole blocks,  *)
(* of whatever length, and Nowhere is an address in none of them.  Which   *)
(* thread is scheduled is left open; Threads models the queues.            *)
(*                                                                         *)
(* Four things a program may do lead the kernel astray, to a pointer that  *)
(* is not what it takes it for: to fork or exec inside a handler, or when  *)
(* the timer last struck inside one; to exec with a handler registered; to *)
(* exec a file that is not there; and to die inside a handler, by the time *)
(* idle takes the thread away.  Each is a step; nothing after it is.       *)
(***************************************************************************)
EXTENDS Integers, FiniteSets

CONSTANTS MaxThreads,  \* bound: user threads ever created
          Blocks,      \* bound: blocks page_alloc can grant at one time
          MaxFrames,   \* bound: handlers entered and not left, or about to be
          CountMod,    \* RCregion.count counts modulo this, 2^32 in the code
          ExecShared   \* may a program exec while others share its image?

User == 1 .. MaxThreads
Idle == 0          \* the idle thread
Systemd == -1      \* the shell, before run_prog
Block == 1 .. Blocks
Nowhere == 0

\* Objects of the 16-byte pool of dyna_alloc: an ExceptWorkload for each thread,
\* of which idle and systemd keep theirs, and one RCregion for each image.
BootSlot == {1, 2}
Slot == 1 .. 2 + 2 * MaxThreads

ASSUME ProcessesAssumption ==
    /\ MaxThreads \in Nat \ {0}
    /\ Blocks \in Nat /\ MaxFrames \in Nat
    /\ CountMod \in Nat /\ CountMod > MaxThreads + 1
    /\ ExecShared \in BOOLEAN

VARIABLES cur,      \* the thread tpidr_el1 points to
          sp_el0,   \* the user stack pointer
          back,     \* cur returned from schedule() in switch_context
          execing,  \* the threads inside exec_s, behind rc_free
          thread,   \* the Thread objects
          held,     \* the blocks that are allocated
          slots,    \* the objects of the pool that are allocated
          region,   \* RCregion in every slot; kept when the slot is freed
          frame,    \* what handle_signal saves at the bottom of its page
          astray    \* history: the kernel has followed a pointer it should not

pvars == <<cur, sp_el0, back, execing, thread, held, slots, region, frame, astray>>

\* elr is where the thread's user code runs, handler what it has registered;
\* ustack and kstack are the blocks thread_init got.
ThreadRecord ==
    [life : {"none", "fresh", "alive", "dead", "reaped"},
     prog : Slot \cup {Nowhere}, excepts : Slot \cup {Nowhere},
     ustack : Block \cup {Nowhere}, kstack : Block \cup {Nowhere},
     user_sp : Block \cup {Nowhere}, elr : Block \cup {Nowhere},
     handler : Block \cup {Nowhere}, last_signal : {"none", "user", "kill"}]

NoThread == [life |-> "none", prog |-> Nowhere, excepts |-> Nowhere,
             ustack |-> Nowhere, kstack |-> Nowhere, user_sp |-> Nowhere,
             elr |-> Nowhere, handler |-> Nowhere, last_signal |-> "none"]

NoFrame == [sp |-> Nowhere, elr |-> Nowhere]

Living(t) == thread[t].life \in {"fresh", "alive"}
Unreaped == {t \in User : thread[t].life \in {"fresh", "alive", "dead"}}

\* sp_el0 of a thread, in the register or saved by switch_to.
Sp(t) == IF t = cur THEN sp_el0 ELSE thread[t].user_sp
InHandler(t) == Sp(t) # thread[t].ustack

\* cur executes the code of its program.
UserCode == cur \in User /\ ~ back /\ cur \notin execing /\ thread[cur].elr # Nowhere

\* Both the register and what the last switch saved point into the user stack.
AtHome == sp_el0 = thread[cur].ustack /\ thread[cur].user_sp = thread[cur].ustack
-----------------------------------------------------------------------------
\* The blocks somebody still has an address of, valid or not.
Referred ==
    {sp_el0}
    \cup UNION {{thread[t].user_sp, thread[t].elr, thread[t].handler} : t \in User}
    \cup {region[s].mem : s \in Slot}
    \cup UNION {{frame[b].sp, frame[b].elr} : b \in Block}

\* page_alloc grants any free block.  Those that no address refers to are alike,
\* and the lowest stands for them.
Grants(b, taken) ==
    LET free == Block \ taken
    IN /\ b \in free
       /\ b \in Referred \/ \A c \in free \ Referred : b <= c

\* dyna_alloc takes the lowest free slot.
TakesSlot(s, taken) == s \in Slot \ taken /\ \A r \in Slot \ taken : s <= r

\* Mutation: rc_free gives back the memory and keeps the RCregion.
FreedSlotsNever(s) == {}

\* rc_free: the region as it is afterwards, and what it gives back.
Uncounted(s) == (region[s].count - 1) % CountMod
FreedBlocks(s) == IF Uncounted(s) = 0 THEN {region[s].mem} ELSE {}
FreedSlots(s) == IF Uncounted(s) = 0 THEN {s} ELSE {}
RcFreed(s) == [region EXCEPT ![s].count = Uncounted(s)]

\* init_workload writes over the words where an RCregion has its fields.
WorkloadIn(s, regions) == [regions EXCEPT ![s] = [count |-> 0, mem |-> Nowhere]]

\* thread_init, for the n-th user thread.
NewThread(prog, w, u, k) ==
    [life |-> "fresh", prog |-> prog, excepts |-> w, ustack |-> u, kstack |-> k,
     user_sp |-> u, elr |-> Nowhere, handler |-> Nowhere, last_signal |-> "none"]

NextId(t) == thread[t].life = "none" /\ \A u \in 1 .. t - 1 : thread[u].life # "none"
-----------------------------------------------------------------------------
\* switch_to(n), with threads as they are when sp_el0 has been saved.  A thread
\* that has run before returns into switch_context.
SwitchTo(n, threads) ==
    /\ cur' = n
    /\ IF n = Idle
       THEN sp_el0' = Nowhere /\ back' = FALSE /\ thread' = threads
       ELSE /\ sp_el0' = threads[n].user_sp
            /\ back' = (threads[n].life = "alive" /\ threads[n].last_signal # "none")
            /\ thread' = [threads EXCEPT ![n].life = "alive"]

\* schedule(): any thread that can run, or idle, which runs beside living threads
\* too once the run queue has lost one of them (Threads).
Schedule(threads) ==
    \E n \in {Idle} \cup {t \in User : threads[t].life \in {"fresh", "alive"}} :
        SwitchTo(n, threads)

\* run_prog, by the shell: load_program, make_thread, schedule.
RunProg ==
    /\ cur = Systemd
    /\ \E s, w \in Slot, m, u, k \in Block :
          /\ TakesSlot(s, slots) /\ TakesSlot(w, slots \cup {s})
          /\ Grants(m, held) /\ Grants(u, held \cup {m})
          /\ Grants(k, held \cup {m, u})
          /\ region' = WorkloadIn(w, [region EXCEPT ![s] = [count |-> 1, mem |-> m]])
          /\ Schedule([thread EXCEPT ![1] = [NewThread(s, w, u, k) EXCEPT !.elr = m]])
          /\ slots' = slots \cup {s, w}
          /\ held' = held \cup {m, u, k}
    /\ UNCHANGED <<execing, frame, astray>>

\* fork_s, with the timer masked, where add_ref counts so many threads.  The
\* child's stack pointer has the distance from its stack that the parent's has
\* from the stack the last switch saved: anything, unless the two agree.
ForkCounting(more) ==
    /\ UserCode
    /\ \E t \in User, w \in Slot, u, k \in Block :
          /\ NextId(t)
          /\ TakesSlot(w, slots)
          /\ Grants(u, held) /\ Grants(k, held \cup {u})
          /\ \E sp \in IF AtHome THEN {u} ELSE Block \cup {Nowhere} :
                thread' = [thread EXCEPT ![t] =
                    [NewThread(thread[cur].prog, w, u, k) EXCEPT
                        !.user_sp = sp,
                        !.elr = thread[cur].elr, !.handler = thread[cur].handler]]
          /\ region' = [WorkloadIn(w, region) EXCEPT
                           ![thread[cur].prog].count = (@ + more) % CountMod]
          /\ slots' = slots \cup {w}
          /\ held' = held \cup {u, k}
    /\ astray' = ~ AtHome
    /\ UNCHANGED <<cur, sp_el0, back, execing, frame>>

\* Mutation: fork_s forgets add_ref.
ForkWithoutAddRef == ForkCounting(0)
Fork == ForkCounting(1)

\* exec_s up to rc_free of the old program.  It leaves the registered handlers,
\* which lie in that program, and will take the stack pointer of the last switch.
ExecDrop ==
    /\ UserCode
    /\ ExecShared \/ Unreaped = {cur}
    /\ execing' = execing \cup {cur}
    /\ LET s == thread[cur].prog
       IN /\ region' = RcFreed(s)
          /\ held' = held \ FreedBlocks(s)
          /\ slots' = slots \ FreedSlots(s)
    /\ astray' = ~ (AtHome /\ thread[cur].handler = Nowhere)
    /\ UNCHANGED <<cur, sp_el0, back, thread, frame>>

\* Mutation: the program goes on at its old address.
ExecLoadKeepsElr ==
    /\ cur \in execing /\ ~ back
    /\ \E s \in Slot, m \in Block :
          /\ TakesSlot(s, slots) /\ Grants(m, held)
          /\ region' = [region EXCEPT ![s] = [count |-> 1, mem |-> m]]
          /\ slots' = slots \cup {s}
          /\ held' = held \cup {m}
          /\ thread' = thread
    /\ sp_el0' = thread[cur].user_sp
    /\ execing' = execing \ {cur}
    /\ UNCHANGED <<cur, back, frame, astray>>

\* load_program and the rest of exec_s.  The thread's prog stays as it was.
ExecLoad ==
    /\ cur \in execing /\ ~ back
    /\ \E s \in Slot, m \in Block :
          /\ TakesSlot(s, slots) /\ Grants(m, held)
          /\ region' = [region EXCEPT ![s] = [count |-> 1, mem |-> m]]
          /\ slots' = slots \cup {s}
          /\ held' = held \cup {m}
          /\ thread' = [thread EXCEPT ![cur].elr = m]
    /\ sp_el0' = thread[cur].user_sp
    /\ execing' = execing \ {cur}
    /\ UNCHANGED <<cur, back, frame, astray>>

\* load_program finds no such file; the entry point is what is read through NULL.
ExecFails ==
    /\ cur \in execing /\ ~ back
    /\ thread' = [thread EXCEPT ![cur].elr = Nowhere]
    /\ sp_el0' = thread[cur].user_sp
    /\ execing' = execing \ {cur}
    /\ astray' = TRUE
    /\ UNCHANGED <<cur, back, held, slots, region, frame>>
-----------------------------------------------------------------------------
\* signal_s, with a function of the program for a handler
Register ==
    /\ UserCode
    /\ thread' = [thread EXCEPT ![cur].handler = thread[cur].elr]
    /\ UNCHANGED <<cur, sp_el0, back, execing, held, slots, region, frame, astray>>

\* kill_with_signal_s: the one slot for a signal is overwritten.
SendSignal(t, sig) ==
    /\ UserCode /\ Living(t)
    /\ sig = "user" =>
          /\ thread[t].handler # Nowhere
          /\ Cardinality({b \in Block : frame[b] # NoFrame})
             + Cardinality({u \in User : thread[u].last_signal = "user"}) < MaxFrames
    /\ thread' = [thread EXCEPT ![t].last_signal = sig]
    /\ UNCHANGED <<cur, sp_el0, back, execing, held, slots, region, frame, astray>>

\* handle_signal, for a registered handler
Deliver ==
    /\ cur \in User /\ back
    /\ thread[cur].last_signal = "user"
    /\ \E b \in Block :
          /\ Grants(b, held)
          /\ held' = held \cup {b}
          /\ frame' = [frame EXCEPT ![b] = [sp |-> sp_el0, elr |-> thread[cur].elr]]
          /\ sp_el0' = b
    /\ thread' = [thread EXCEPT ![cur].last_signal = "none",
                                ![cur].elr = thread[cur].handler]
    /\ back' = FALSE
    /\ UNCHANGED <<cur, execing, slots, region, astray>>

\* Mutation: the page is freed, the stack pointer left in it.
SigReturnKeepsSp ==
    /\ UserCode /\ InHandler(cur)
    /\ held' = held \ {sp_el0}
    /\ thread' = [thread EXCEPT ![cur].elr = frame[sp_el0].elr]
    /\ frame' = [frame EXCEPT ![sp_el0] = NoFrame]
    /\ UNCHANGED <<cur, sp_el0, back, execing, slots, region, astray>>

\* The handler returns to exit_signal_handler: sigreturn_s finds the page it runs
\* on by rounding the stack pointer, and in it what was interrupted.
SigReturn ==
    /\ UserCode /\ InHandler(cur)
    /\ held' = held \ {sp_el0}
    /\ sp_el0' = frame[sp_el0].sp
    /\ thread' = [thread EXCEPT ![cur].elr = frame[sp_el0].elr]
    /\ frame' = [frame EXCEPT ![sp_el0] = NoFrame]
    /\ UNCHANGED <<cur, back, execing, slots, region, astray>>

\* kill_curr_thread; switch_to saves the stack pointer once more.
Die ==
    /\ Schedule([thread EXCEPT ![cur].life = "dead", ![cur].user_sp = sp_el0,
                               ![cur].last_signal = "none"])
    /\ execing' = execing \ {cur}
    /\ UNCHANGED <<held, slots, region, frame, astray>>

\* exit_s and kill_s of oneself; handle_signal with kill_curr_thread.
Exit == UserCode /\ Die
DieOfSignal == cur \in User /\ back /\ thread[cur].last_signal = "kill" /\ Die

\* kill_s of another thread
Kill(t) ==
    /\ UserCode /\ t # cur /\ Living(t)
    /\ thread' = [thread EXCEPT ![t].life = "dead"]
    /\ UNCHANGED <<cur, sp_el0, back, execing, held, slots, region, frame, astray>>

\* switch_context: the timer interrupts wherever interrupts are on.
Tick ==
    /\ cur # Systemd /\ ~ back
    /\ Schedule(IF cur = Idle THEN thread ELSE [thread EXCEPT ![cur].user_sp = sp_el0])
    /\ UNCHANGED <<execing, held, slots, region, frame, astray>>

\* What a user stack pointer rounded to USER_STACK_SIZE makes page_free take back.
\* The page of a handler lies in no user stack: whatever block begins at the
\* boundary below it goes, if one does, and the user stack stays.
RoundedStack(t) ==
    IF thread[t].user_sp = thread[t].ustack THEN {{thread[t].ustack}}
    ELSE {{}} \cup {{b} : b \in held \ {thread[u].ustack : u \in User}}

\* kill_zombies, one turn of its loop, with what it frees of the kernel stack.
ReapFreeing(t, stacks) ==
    /\ cur = Idle
    /\ thread[t].life = "dead"
    /\ \E rounded \in RoundedStack(t) :
          held' = held \ (FreedBlocks(thread[t].prog) \cup rounded \cup stacks)
    /\ LET s == thread[t].prog
       IN /\ region' = RcFreed(s)
          /\ slots' = slots \ (FreedSlots(s) \cup {thread[t].excepts})
    /\ thread' = [thread EXCEPT ![t] = [NoThread EXCEPT !.life = "reaped"]]
    /\ astray' = (thread[t].user_sp # thread[t].ustack)
    /\ UNCHANGED <<cur, sp_el0, back, execing, frame>>

\* Mutation: kill_zombies forgets the kernel stack.
ReapKeepsKernelStack(t) == ReapFreeing(t, {})
Reap(t) == ReapFreeing(t, {thread[t].kstack})
-----------------------------------------------------------------------------
\* The shell has called nothing yet.
PInit ==
    /\ cur = Systemd
    /\ sp_el0 = Nowhere
    /\ back = FALSE
    /\ execing = {}
    /\ thread = [t \in User |-> NoThread]
    /\ held = {}
    /\ slots = BootSlot
    /\ region = [s \in Slot |-> [count |-> 0, mem |-> Nowhere]]
    /\ frame = [b \in Block |-> NoFrame]
    /\ astray = FALSE

Step ==
    \/ RunProg
    \/ Fork \/ ExecDrop \/ ExecLoad \/ ExecFails
    \/ Register
    \/ \E t \in User : SendSignal(t, "user") \/ SendSignal(t, "kill") \/ Kill(t)
    \/ Deliver \/ SigReturn
    \/ Exit \/ DieOfSignal
    \/ Tick
    \/ \E t \in User : Reap(t)

\* What comes of it is not followed: the kernel may hang or overwrite anything.
Astray == astray /\ UNCHANGED pvars

PNext == (~ astray /\ Step) \/ Astray

PSpec == PInit /\ [][PNext]_pvars
-----------------------------------------------------------------------------
\* The objects of the pool that are RCregions.
Regions == slots \ (BootSlot \cup {thread[t].excepts : t \in Unreaped})

\* Every variable has its type, and the processor is with a thread that lives.
ProcTyped ==
    /\ cur \in User \cup {Idle, Systemd}
    /\ cur \in User => thread[cur].life = "alive"
    /\ astray \in BOOLEAN
    /\ sp_el0 \in Block \cup {Nowhere}
    /\ back \in BOOLEAN
    /\ execing \subseteq User
    /\ thread \in [User -> ThreadRecord]
    /\ held \subseteq Block
    /\ slots \subseteq Slot
    /\ region \in [Slot -> [count : 0 .. CountMod - 1, mem : Block \cup {Nowhere}]]
    /\ frame \in [Block -> [sp : Block \cup {Nowhere}, elr : Block \cup {Nowhere}]]

\* The count of an allocated RCregion is neither 0, which rc_free would have freed
\* it for, nor has it wrapped.
CountsInRange == astray \/ \A s \in Regions : region[s].count \in 1 .. MaxThreads

\* Both: types, and the counts of rc_alloc, add_ref and rc_free.
ProcTypeOK == ProcTyped /\ CountsInRange

\* Where sp_el0 of t is after n more returns of handlers.
After(t, n) ==
    LET sp[i \in 0 .. n] == IF i = 0 THEN Sp(t)
                            ELSE IF sp[i - 1] \in Block \ {thread[t].ustack}
                            THEN frame[sp[i - 1]].sp ELSE sp[i - 1]
    IN sp[n]

StackBlocks(t) == {thread[t].ustack, thread[t].kstack} \cup {After(t, n) : n \in 0 .. MaxFrames}

\* Stacks are nobody else's: what a thread runs on, and what it will return to
\* through handlers inside handlers, is allocated, shared with no other thread
\* and no image, and leads back to its own user stack (fork_s, handle_signal,
\* sigreturn_s, kill_zombies), dead threads' too until idle takes them away.
StacksOwned ==
    /\ \A t \in Unreaped :
          /\ StackBlocks(t) \subseteq held
          /\ After(t, MaxFrames) = thread[t].ustack
          /\ thread[t].elr \notin StackBlocks(t)
    /\ \A t, u \in Unreaped : t # u => StackBlocks(t) \cap StackBlocks(u) = {}

\* "forked thread could still be running and need prog": the image a living
\* thread executes, will return to from a handler, or has a handler in, is not
\* freed under it, except inside exec_s, which replaces it.
ImagesKept ==
    astray \/ \A t \in User : Living(t) /\ t \notin execing =>
        /\ thread[t].elr \in held
        /\ thread[t].handler \in held \cup {Nowhere}
        /\ \A b \in StackBlocks(t) \cap Block :
              frame[b] # NoFrame => frame[b].elr \in held

\* Both, as long as no process has led the kernel astray.
MemoryOwned == (astray \/ StacksOwned) /\ ImagesKept

\* The count of an allocated RCregion is the number of threads that idle will
\* yet take away from it (fork_s adds one behind the child's back, exec_s lets a
\* region go without telling the thread).
CountIsExact ==
    astray \/ \A s \in Regions :
        region[s].count = Cardinality({t \in Unreaped : thread[t].prog = s})

\* "leave memory reclaiming to idle thread": when the last thread has been taken
\* away, every block and every object of the programs has been given back.
AllReclaimed ==
    ~ astray /\ cur = Idle /\ Unreaped = {} => held = {} /\ slots = BootSlot
=============================================================================

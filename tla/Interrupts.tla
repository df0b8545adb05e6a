----------------------------- MODULE Interrupts -----------------------------
(***************************************************************************)
(* Interrupts with priorities: lib/exception/exception_c.c, with what the  *)
(* two handlers of lib/timer/timer.c and lib/mini_uart.c and the context   *)
(* switch of lib/thread/thread.c do to the queues and to the masks.        *)
(*                                                                         *)
(* irq_handler runs with interrupts off and is one step.  A handler runs   *)
(* with interrupts on: its own source is masked, others may nest.  A       *)
(* context is a kernel stack, on which exec_queue is active once for each  *)
(* frame; the timer handler may switch to another context and continues    *)
(* when its own is chosen again.  schedule() stores the base queue and the *)
(* two masks and switches, and an interrupt may come before each of these. *)
(***************************************************************************)
EXTENDS Integers, Sequences, FiniteSets, SequencesExt, FiniteSetsExt

CONSTANTS QueuePoolLen, \* QUEUE_POOL_LEN, 16 in the code
          TaskPoolLen,  \* TASK_POOL_LEN, 512 in the code
          MaxEvents,    \* bound: timer events of the shell at one time
          Context,      \* the threads, Boot and Idle among them
          Boot,         \* systemd, on whose stack the kernel starts
          Idle

\* IrqPriority
Source == {"uart", "timer"}
Priority == [uart |-> 1, timer |-> 2]

\* queue_pool, and a pointer to none of it.
Queue == 1 .. QueuePoolLen
Null == 0

ASSUME InterruptsAssumption ==
    /\ QueuePoolLen \in Nat /\ QueuePoolLen > 1
    /\ TaskPoolLen \in Nat /\ MaxEvents \in Nat
    /\ {Boot, Idle} \subseteq Context /\ Boot # Idle

VARIABLES cur,        \* the context that has the processor
          stack,      \* the exec_queue activations of every context, inner last
          tasks,      \* ExceptQueue.head and its next chain, as sources
          preemptor,  \* ExceptQueue.preemptor
          pool,       \* queue_free_list; Null in it is a list that ends early
          spare,      \* how many tasks task_free_list holds
          base,       \* curr_workload.base_queue
          masked,     \* the sources that curr_workload masks
          events,     \* how many events of the shell the timer's list holds
          started,    \* the list also holds the event of the context switch
          dead,       \* contexts that have been killed
          reaped,     \* and freed by kill_zombies
          leaving,    \* where a context is that calls schedule() to leave for good
          leaked,     \* history: tasks taken for interrupts of neither source
          nullPriority  \* the word at address 40, NULL->priority; nobody writes it

ivars == <<cur, stack, tasks, preemptor, pool, spare, base, masked, events,
           started, dead, reaped, leaving, leaked, nullPriority>>

\* schedule(), before each of the stores of swap_event_workload and switch_to.
Stage == {"base", "timer", "uart", "switch"}
Frame == [queue : Queue, at : {"handler", "back", "end"} \cup Stage]

\* The exec_queue that runs, and the task it is at.
Depth == Len(stack[cur])
Top == stack[cur][Depth]
Running(at) == Depth > 0 /\ Top.at = at
Code == Depth = 0

\* events.head is not NULL.
Pending == started \/ events > 0

SetTop(at) == stack' = [stack EXCEPT ![cur][Depth].at = at]
-----------------------------------------------------------------------------
\* The priority of the first task of q; a queue that was freed has none.
HeadPriority(q) == IF tasks[q] = <<>> THEN nullPriority
                   ELSE Priority[Head(tasks[q])]

\* Mutation: a task goes before one of its own priority.
SearchNotGreater(s) ==
    LET walk[i \in 0 .. QueuePoolLen] ==
            IF i = 0 THEN <<Null, base>>
            ELSE LET at == walk[i - 1][2]
                 IN IF at # Null /\ Priority[s] >= HeadPriority(at)
                    THEN <<at, preemptor[at]>> ELSE walk[i - 1]
    IN walk[QueuePoolLen]

\* The first loop of enqueue_task: <<prev_queue, que_iter>> where it stops.
Search(s) ==
    LET walk[i \in 0 .. QueuePoolLen] ==
            IF i = 0 THEN <<Null, base>>
            ELSE LET at == walk[i - 1][2]
                 IN IF at # Null /\ Priority[s] > HeadPriority(at)
                    THEN <<at, preemptor[at]>> ELSE walk[i - 1]
    IN walk[QueuePoolLen]

\* Mutations: priorities are ignored; the tasks behind the new one are cut off.
InsertedLast(ts, s) == ts \o <<s>>
InsertedCutsOff(ts, s) ==
    <<Head(ts)>> \o SelectSeq(Tail(ts), LAMBDA t : Priority[t] >= Priority[s]) \o <<s>>

\* The second loop: behind the head, before the first task of lower priority.
Inserted(ts, s) ==
    LET lower == {i \in 2 .. Len(ts) : Priority[ts[i]] < Priority[s]}
    IN InsertAt(ts, Min(lower \cup {Len(ts) + 1}), s)

\* Mutation: the queue is not the one that leaves the list.
QueryQueueLast == IF pool = <<>> THEN Null ELSE pool[Len(pool)]

\* query_queue and free_queue
QueryQueue == IF pool = <<>> THEN Null ELSE Head(pool)
FreeQueue(q) == pool' = <<q>> \o pool

\* irq_handler.  A task that finds no queue object, or is inserted behind the
\* head of a queue that has none, is written to address 0 and lost.
Irq(s) ==
    LET found == Search(s)
        prev == found[1]
        at == found[2]
        new == QueryQueue
    IN /\ s \notin masked
       /\ s = "timer" => Pending
       /\ spare > 0
       /\ spare' = spare - 1
       /\ masked' = masked \cup {s}
       /\ IF at # Null
          THEN /\ tasks' = IF tasks[at] = <<>> THEN tasks
                           ELSE [tasks EXCEPT ![at] = Inserted(@, s)]
               /\ UNCHANGED <<stack, preemptor, pool, base>>
          ELSE IF new = Null
          THEN UNCHANGED <<stack, tasks, preemptor, pool, base>>
          ELSE /\ pool' = Tail(pool)
               /\ tasks' = [tasks EXCEPT ![new] = <<s>>]
               /\ base' = IF base = Null THEN new ELSE base
               /\ preemptor' = [q \in Queue |-> IF q = prev THEN new ELSE preemptor[q]]
               /\ stack' = [stack EXCEPT ![cur] =
                                Append(@, [queue |-> new, at |-> "handler"])]
       /\ UNCHANGED <<cur, events, started, dead, reaped, leaving, leaked, nullPriority>>

\* irq_handler for neither source: the task that was taken is not freed.
Unknown ==
    /\ spare > 0
    /\ spare' = spare - 1
    /\ leaked' = leaked + 1
    /\ UNCHANGED <<cur, stack, tasks, preemptor, pool, base, masked, events,
                   started, dead, reaped, leaving, nullPriority>>

\* irq_handler without a task: the source is not masked, and interrupts again.
NoTask ==
    /\ spare = 0
    /\ "uart" \notin masked \/ ("timer" \notin masked /\ Pending)
    /\ UNCHANGED ivars

\* Mutation: uart_except_handler ends without enable_aux_interrupt.
HandlerEndKeepsMask ==
    /\ Running("handler")
    /\ LET s == Head(tasks[Top.queue])
       IN masked' = IF s = "uart" \/ ~Pending THEN masked ELSE masked \ {s}
    /\ SetTop("end")
    /\ UNCHANGED <<cur, tasks, preemptor, pool, spare, base, events,
                   started, dead, reaped, leaving, leaked, nullPriority>>

\* The handler's last statement unmasks its source; the timer's does so only
\* while there are events to wait for.
HandlerEnd ==
    /\ Running("handler")
    /\ LET s == Head(tasks[Top.queue])
       IN masked' = IF s = "timer" /\ ~Pending THEN masked ELSE masked \ {s}
    /\ SetTop("end")
    /\ UNCHANGED <<cur, tasks, preemptor, pool, spare, base, events,
                   started, dead, reaped, leaving, leaked, nullPriority>>

\* exec_queue, with interrupts off: the task is done; the next one is started,
\* or the queue is freed.
TaskDone ==
    /\ Running("end")
    /\ LET q == Top.queue
           rest == Tail(tasks[q])
       IN /\ spare' = spare + 1
          /\ tasks' = [tasks EXCEPT ![q] = rest]
          /\ IF rest # <<>>
             THEN SetTop("handler") /\ UNCHANGED <<preemptor, pool, base>>
             ELSE /\ FreeQueue(q)
                  /\ preemptor' = [preemptor EXCEPT ![q] = Null]
                  /\ base' = IF base = q THEN Null ELSE base
                  /\ stack' = [stack EXCEPT ![cur] = SubSeq(@, 1, Depth - 1)]
    /\ UNCHANGED <<cur, masked, events, started, dead, reaped, leaving, leaked, nullPriority>>
-----------------------------------------------------------------------------
\* timer_interrupt_handler takes an event off the list and calls it back.
InTimer == Running("handler") /\ Head(tasks[Top.queue]) = "timer"

\* printline_callback adds no event.  An event that the loop added is not due.
Fire ==
    /\ InTimer /\ events > 0
    /\ "timer" \notin masked => events > 1 \/ started
    /\ events' = events - 1
    /\ UNCHANGED <<cur, stack, tasks, preemptor, pool, spare, base, masked,
                   started, dead, reaped, leaving, leaked, nullPriority>>

\* tick_callback adds its successor, and the critical section of add_timer_event
\* ends with the timer unmasked although the handler is not done.
FireTick ==
    /\ InTimer /\ events > 0
    /\ masked' = masked \ {"timer"}
    /\ UNCHANGED <<cur, stack, tasks, preemptor, pool, spare, base, events,
                   started, dead, reaped, leaving, leaked, nullPriority>>

\* switch_context does so as well, and will call schedule().
FireSwitch ==
    /\ InTimer /\ started
    /\ masked' = masked \ {"timer"}
    /\ SetTop("base")
    /\ UNCHANGED <<cur, tasks, preemptor, pool, spare, base, events, started,
                   dead, reaped, leaving, leaked, nullPriority>>

\* The commands of the shell that add an event.
AddEvent ==
    /\ Code /\ cur = Boot /\ ~started
    /\ events < MaxEvents
    /\ events' = events + 1
    /\ masked' = masked \ {"timer"}
    /\ UNCHANGED <<cur, stack, tasks, preemptor, pool, spare, base, started,
                   dead, reaped, leaving, leaked, nullPriority>>

\* clear_timer_event returns with the timer masked when nothing is left.
ClearEvents ==
    /\ Code /\ cur = Boot /\ ~started
    /\ events' \in 0 .. events
    /\ masked' = IF events' = 0 THEN masked \cup {"timer"} ELSE masked \ {"timer"}
    /\ UNCHANGED <<cur, stack, tasks, preemptor, pool, spare, base, started,
                   dead, reaped, leaving, leaked, nullPriority>>

\* make_thread, for the first program: enable_context_swtich.
StartProgram ==
    /\ Code /\ cur = Boot /\ ~started
    /\ Context # {Boot, Idle}
    /\ started' = TRUE
    /\ masked' = masked \ {"timer"}
    /\ UNCHANGED <<cur, stack, tasks, preemptor, pool, spare, base, events,
                   dead, reaped, leaving, leaked, nullPriority>>

\* schedule() at a stage: called by switch_context, or to leave for good by what
\* the context runs where no interrupt is.
At(p) == Running(p) \/ (leaving[cur] = p /\ (Code \/ Running("back")))

GoesTo(p, next) ==
    IF Running(p) THEN SetTop(next) /\ leaving' = leaving
    ELSE leaving' = [leaving EXCEPT ![cur] = next] /\ stack' = stack

\* swap_event_workload copies the workload of the chosen thread, in which nothing
\* has been stored since init_workload: no queue and nothing masked.
SwapBase ==
    /\ At("base") /\ GoesTo("base", "timer")
    /\ base' = Null
    /\ UNCHANGED <<cur, tasks, preemptor, pool, spare, masked, events, started,
                   dead, reaped, leaked, nullPriority>>

SwapMask(p, next) ==
    /\ At(p) /\ GoesTo(p, next)
    /\ masked' = masked \ {p}
    /\ UNCHANGED <<cur, tasks, preemptor, pool, spare, base, events, started,
                   dead, reaped, leaked, nullPriority>>
SwapTimerMask == SwapMask("timer", "uart")
SwapUartMask == SwapMask("uart", "switch")

\* Mutation: a dead thread is put back into the run queue.
ChoosesDead(c) ==
    c # Boot /\ (c = Idle => Context \ dead \subseteq {Boot, Idle})

\* Systemd is never chosen, and idle only for want of another.
Chooses(c) ==
    /\ c \notin {Boot} \cup dead
    /\ c = Idle => Context \ dead \subseteq {Boot, Idle}

\* switch_to.  A context that leaves for good stays as it is.
SwitchTo ==
    /\ At("switch")
    /\ stack' = IF Running("switch") THEN [stack EXCEPT ![cur][Depth].at = "back"]
                ELSE stack
    /\ \E c \in Context : Chooses(c) /\ cur' = c
    /\ UNCHANGED <<tasks, preemptor, pool, spare, base, masked, events, started,
                   dead, reaped, leaving, leaked, nullPriority>>

\* The context is chosen again, and its handler goes on.
GoOn ==
    /\ Running("back") /\ cur \notin dead
    /\ SetTop("handler")
    /\ UNCHANGED <<cur, tasks, preemptor, pool, spare, base, masked, events,
                   started, dead, reaped, leaving, leaked, nullPriority>>

\* run_prog leaves the shell for good: schedule() is called.
LeaveShell ==
    /\ Code /\ cur = Boot /\ started /\ leaving[Boot] = "no"
    /\ leaving' = [leaving EXCEPT ![Boot] = "base"]
    /\ UNCHANGED <<cur, stack, tasks, preemptor, pool, spare, base, masked, events,
                   started, dead, reaped, leaked, nullPriority>>

\* kill_curr_thread, in a system call or, for a signal, after schedule() has
\* returned in switch_context: the timer is unmasked before schedule() is called,
\* and the thread does not come back to its frames.
Die ==
    /\ cur \notin {Boot, Idle} \cup dead
    /\ Code \/ Running("back")
    /\ dead' = dead \cup {cur}
    /\ masked' = masked \ {"timer"}
    /\ leaving' = [leaving EXCEPT ![cur] = "base"]
    /\ UNCHANGED <<cur, stack, tasks, preemptor, pool, spare, base, events, started,
                   reaped, leaked, nullPriority>>

\* kill_thread: another thread, wherever its frames are.
Kill ==
    /\ Code /\ cur \notin {Boot, Idle} \cup dead
    /\ \E c \in Context \ ({Boot, Idle, cur} \cup dead) : dead' = dead \cup {c}
    /\ UNCHANGED <<cur, stack, tasks, preemptor, pool, spare, base, masked, events,
                   started, reaped, leaving, leaked, nullPriority>>

\* kill_zombies, by idle.  free_workload frees the workload's queue when it is
\* NULL, which it is: address 0 becomes the first of the free queues.
Reap ==
    /\ Code /\ cur = Idle
    /\ \E c \in dead \ reaped : reaped' = reaped \cup {c}
    /\ FreeQueue(Null)
    /\ UNCHANGED <<cur, stack, tasks, preemptor, spare, base, masked, events,
                   started, dead, leaving, leaked, nullPriority>>
-----------------------------------------------------------------------------
\* init_exception, init_core_timer and init_uart
IInit ==
    /\ cur = Boot
    /\ stack = [c \in Context |-> <<>>]
    /\ tasks = [q \in Queue |-> <<>>]
    /\ preemptor = [q \in Queue |-> Null]
    /\ pool = [i \in Queue |-> i]
    /\ spare = TaskPoolLen
    /\ base = Null
    /\ masked = {"timer"}
    /\ events = 0
    /\ started = FALSE
    /\ dead = {}
    /\ reaped = {}
    /\ leaving = [c \in Context |-> "no"]
    /\ leaked = 0
    /\ nullPriority \in {0} \cup {Priority[s] : s \in Source}

INext == \/ \E s \in Source : Irq(s)
         \/ Unknown \/ NoTask
         \/ HandlerEnd \/ TaskDone
         \/ Fire \/ FireTick \/ FireSwitch
         \/ AddEvent \/ ClearEvents \/ StartProgram
         \/ SwapBase \/ SwapTimerMask \/ SwapUartMask \/ SwitchTo
         \/ GoOn \/ LeaveShell
         \/ Die \/ Kill \/ Reap

ISpec == IInit /\ [][INext]_ivars
-----------------------------------------------------------------------------
IrqTypeOK ==
    /\ cur \in Context /\ (cur \in dead => leaving[cur] # "no")
    /\ stack \in [Context -> Seq(Frame)]
    /\ tasks \in [Queue -> Seq(Source)]
    /\ preemptor \in [Queue -> Queue \cup {Null}]
    /\ pool \in Seq(Queue \cup {Null})
    /\ spare \in 0 .. TaskPoolLen
    /\ base \in Queue \cup {Null}
    /\ masked \subseteq Source
    /\ events \in 0 .. MaxEvents
    /\ started \in BOOLEAN
    /\ leaving \in [Context -> {"no"} \cup Stage]
    /\ leaked \in 0 .. TaskPoolLen
    /\ nullPriority \in {0} \cup {Priority[s] : s \in Source}
    /\ reaped \subseteq dead /\ dead \subseteq Context \ {Boot, Idle}

\* The activations on the stack of c, and those whose handler of s has begun and
\* not ended.
Frames(c) == {stack[c][i] : i \in DOMAIN stack[c]}
Begun(c, s) == {i \in DOMAIN stack[c] : /\ stack[c][i].at # "end"
                                       /\ Head(tasks[stack[c][i].queue]) = s}

\* A task of s waits in a queue of cur, or is being handled.
Waiting(s) ==
    \E f \in Frames(cur) : \E i \in DOMAIN tasks[f.queue] :
        tasks[f.queue][i] = s /\ (i = 1 => f.at # "end")

\* A source is masked only for as long as its task waits or is handled: one
\* that is masked with no task left would never interrupt again.  The word at
\* address 40 decides for the timer: where it is not below TIMER, a task that
\* meets a queue that was freed and is still somebody's preemptor is lost.
Served ==
    \A s \in masked :
        Waiting(s) \/ (s = "timer" /\ (~Pending \/ nullPriority >= Priority[s]))

\* "will disable recieved interrupt's signal until being handled, keeps it from
\* recurring": the UART's handler, which works on the ring buffers with
\* interrupts on, is not begun a second time before it has ended on a stack that
\* still runs.
UartHandledOnce ==
    \A c1, c2 \in Context \ (dead \cup {Boot}) :
        \A i \in Begun(c1, "uart"), j \in Begun(c2, "uart") : c1 = c2 /\ i = j

\* The shell runs, and no schedule() has got to swap_event_workload.
InShell ==
    /\ cur = Boot /\ leaving[Boot] \in {"no", "base"}
    /\ \A f \in Frames(Boot) : f.at \in {"handler", "base", "end"}

\* As long as the shell runs masked sources are served (irq_handler with the two
\* handlers), whatever else interrupts and whether or not tasks are left.
ShellServed == InShell => Served

\* No handler of the shell's time is entered again before its end, although
\* add_timer_event unmasks the timer inside the timer's handler.
ShellHandledOnce ==
    InShell => \A s \in Source : Cardinality(Begun(Boot, s)) <= 1

\* The task handled has the highest priority of all that wait (enqueue_task).
ShellNoInversion ==
    InShell /\ Depth > 0 =>
        \A f \in Frames(Boot) : \A i \in DOMAIN tasks[f.queue] :
            Priority[Head(tasks[Top.queue])] >= Priority[tasks[f.queue][i]]

\* Under context switches and deaths too, a queue object is in one place: once
\* in the pool and then empty, or under one activation of exec_queue.
QueuesInOnePlace ==
    \A q \in Queue :
        /\ Cardinality({i \in DOMAIN pool : pool[i] = q})
           + Cardinality({p \in Context \X Queue :
                             /\ p[2] \in DOMAIN stack[p[1]]
                             /\ stack[p[1]][p[2]].queue = q}) = 1
        /\ q \in {pool[i] : i \in DOMAIN pool} => tasks[q] = <<>>

\* The places that tasks have in queues.
Queued == {p \in Queue \X (1 .. TaskPoolLen) : p[2] \in DOMAIN tasks[p[1]]}

\* Tasks are not lost while the shell runs, but to unknown interrupts and where
\* the word at address 40 is not below TIMER: those that are not in the pool are
\* in the queue of a frame.
TasksConserved ==
    InShell /\ nullPriority < Priority["timer"] =>
        spare + leaked + Cardinality(Queued) = TaskPoolLen
=============================================================================

------------------------------ MODULE Threads ------------------------------
(***************************************************************************)
(* The round-robin scheduler of lib/thread/thread.c with the calls of      *)
(* lib/exception/syscall.c and lib/thread/signals.c that create, kill and  *)
(* signal threads.  A thread is its id; its ListNode is a node of the heap *)
(* of NodeQueue, so that a node pushed twice or erased from a queue it has *)
(* left does here what it does in memory.                                  *)
(*                                                                         *)
(* One processor: only the current thread acts, and the timer interrupt    *)
(* may come between any two of its steps, except where the code masks it.  *)
(* The schedule() of kill_curr_thread and run_prog is not masked: the      *)
(* interrupt's own schedule() may come before, inside or after its         *)
(* queue_pop.  The schedule() of the interrupt is one step: the next       *)
(* interrupt is 1/32 s away (see switch_context's comment).                *)
(***************************************************************************)
EXTENDS NodeQueue

CONSTANTS MaxThreads,      \* bound: threads ever created
          KillPreemptible  \* may the timer interrupt kill_s and
                           \* kill_with_signal_s?  The code lets it.

ASSUME ThreadsAssumption ==
    /\ MaxThreads \in Nat /\ MaxThreads > 2
    /\ Node = 0 .. MaxThreads - 1
    /\ QueueName = {"run", "dead"}
    /\ KillPreemptible \in BOOLEAN

Thread == Node
Idle == 0
Systemd == 1
UserThread == Thread \ {Idle, Systemd}

\* Signal 9 has a default handler, kill_curr_thread.  The other stands for a
\* signal for which every thread has registered a handler.
Signal == {"kill", "user"}
NoSignal == "none"

VARIABLES heap,     \* run_queue, dead_queue and the node of every thread
          total,    \* total_thread
          cur,      \* the thread tpidr_el1 points to
          alive,    \* Thread.alive
          signal,   \* Thread.last_signal
          woken,    \* is the thread inside switch_context?
          pc,       \* where a thread is in a call that touches other threads
          found,    \* the Thread pointer such a call holds
          reaped,   \* the threads kill_zombies has freed
          lost,     \* history: threads popped by a schedule() that never ended
          torn      \* history: the timer struck inside queue_pop

tvars == <<heap, total, cur, alive, signal, woken, pc, found, reaped, lost, torn>>

\* The statements of kill_s and kill_with_signal_s that follow find_thread.
KillPc == {"mark", "erase", "push", "signal"}

InRun(t) == t \in {Contents(heap, "run")[i] : i \in 1 .. heap.size["run"]}
InDead(t) == t \in {Contents(heap, "dead")[i] : i \in 1 .. heap.size["dead"]}

\* find_thread: the current thread, or one met on a walk of the run queue.
Finds(t) == t = cur \/ t \in Reachable(heap, "run")

\* The current thread executes its own code, not switch_context.  Nothing is
\* followed with a run queue that is torn.
Runs(at) == pc[cur] = at /\ ~ woken[cur] /\ ~ torn
-----------------------------------------------------------------------------
\* init_thread_sys: idle and systemd exist, the shell runs as systemd.
TInit ==
    /\ heap = EmptyHeap
    /\ total = 2
    /\ cur = Systemd
    /\ alive = [t \in Thread |-> t < 2]
    /\ signal = [t \in Thread |-> NoSignal]
    /\ woken = [t \in Thread |-> FALSE]
    /\ pc = [t \in Thread |-> "code"]
    /\ found = [t \in Thread |-> Nil]
    /\ reaped = {}
    /\ lost = {} /\ torn = FALSE

\* make_thread: the new thread goes to the back of the run queue.
MakeThread ==
    /\ total < MaxThreads
    /\ total' = total + 1
    /\ alive' = [alive EXCEPT ![total] = TRUE]
    /\ heap' = QueuePush(NodeInit(heap, total), "run", total)

\* Mutation: with nothing in the run queue there is nothing to switch to.
ScheduleWithoutIdle ==
    LET queued == IF cur > 1 /\ alive[cur] THEN QueuePush(heap, "run", cur)
                  ELSE heap
    IN /\ heap' = QueuePop(queued, "run")
       /\ cur' = QueueFront(queued, "run")

\* Mutation: a dead thread is requeued like a live one.
ScheduleRequeuesDead ==
    LET queued == IF cur > 1 THEN QueuePush(heap, "run", cur) ELSE heap
        next == QueueFront(queued, "run")
    IN /\ heap' = QueuePop(queued, "run")
       /\ cur' = IF next = Nil THEN Idle ELSE next

\* Mutation: systemd is requeued, idle is not.
ScheduleRequeuesSystemd ==
    LET queued == IF cur > 0 /\ alive[cur] THEN QueuePush(heap, "run", cur)
                  ELSE heap
        next == QueueFront(queued, "run")
    IN /\ heap' = QueuePop(queued, "run")
       /\ cur' = IF next = Nil THEN Idle ELSE next

\* Mutation: a live user thread keeps the processor.
ScheduleWithoutPreemption ==
    IF cur > 1 /\ alive[cur] THEN UNCHANGED <<heap, cur>>
    ELSE /\ heap' = QueuePop(heap, "run")
         /\ cur' = IF QueueEmpty(heap, "run") THEN Idle ELSE QueueFront(heap, "run")

\* schedule(): the current thread goes to the back of the run queue unless it
\* is idle, systemd or dead; the front of the queue runs next, or else idle.
Requeued == IF cur > 1 /\ alive[cur] THEN QueuePush(heap, "run", cur) ELSE heap

Preemptor(head) == IF head = Nil THEN Idle ELSE head

Schedule ==
    /\ heap' = QueuePop(Requeued, "run")
    /\ cur' = Preemptor(QueueFront(Requeued, "run"))

\* run_prog, from the shell: the program's thread is made ...
RunProg ==
    /\ cur = Systemd /\ Runs("code")
    /\ MakeThread
    /\ pc' = [pc EXCEPT ![cur] = "leave"]
    /\ UNCHANGED <<cur, signal, woken, found, reaped, lost, torn>>

\* ... and schedule() is called; kill_curr_thread ends with the same call.  The
\* next thread is popped ...
LeavePop ==
    /\ Runs("leave")
    /\ heap' = QueuePop(Requeued, "run")
    /\ found' = [found EXCEPT ![cur] = QueueFront(Requeued, "run")]
    /\ pc' = [pc EXCEPT ![cur] = "switch"]
    /\ UNCHANGED <<total, cur, alive, signal, woken, reaped, lost, torn>>

\* ... and switched to.
LeaveSwitch ==
    /\ Runs("switch")
    /\ cur' = Preemptor(found[cur])
    /\ found' = [found EXCEPT ![cur] = Nil]
    /\ pc' = [pc EXCEPT ![cur] = "code"]
    /\ UNCHANGED <<heap, total, alive, signal, woken, reaped, lost, torn>>

\* switch_context, from the timer interrupt.  The first make_thread starts it.
\* Who calls schedule() itself never runs again, so a call of it that is struck is
\* over; the thread it had popped to switch to is known to nobody any more.
Tick ==
    /\ ~ torn
    /\ total > 2
    /\ KillPreemptible \/ pc[cur] \notin KillPc
    /\ Schedule
    /\ IF pc[cur] \in {"leave", "switch"}
          THEN /\ pc' = [pc EXCEPT ![cur] = "code"]
               /\ found' = [found EXCEPT ![cur] = Nil]
               /\ lost' = lost \cup ({found[cur]} \ {Nil})
               /\ UNCHANGED woken
          ELSE /\ woken' = [woken EXCEPT ![cur] = TRUE]
               /\ UNCHANGED <<pc, found, lost>>
    /\ UNCHANGED <<total, alive, signal, reaped, torn>>

\* The interrupt inside the queue_pop of such a schedule(), at the two points that
\* the queue_pop of its own schedule() can tell from the beginning and the end:
\* list_remove has cleared the links of the front, or front is moved and size is
\* not yet decremented.  What becomes of that queue is not followed.
TickInPop ==
    /\ Runs("leave")
    /\ ~ QueueEmpty(heap, "run")
    /\ LET f == heap.front["run"]
           removed == ListRemove(heap, f)
       IN heap' \in {removed, [removed EXCEPT !.front["run"] = heap.next[f]]}
    /\ torn' = TRUE
    /\ UNCHANGED <<total, cur, alive, signal, woken, pc, found, reaped, lost>>

\* The critical section of kill_curr_thread.
KillCurrent ==
    /\ alive' = [alive EXCEPT ![cur] = FALSE]
    /\ heap' = QueuePush(heap, "dead", cur)
    /\ pc' = [pc EXCEPT ![cur] = "leave"]

\* Mutation: handle_signal resets last_signal before it looks for the handler.
WakeResetsFirst ==
    /\ woken[cur] /\ ~ torn
    /\ woken' = [woken EXCEPT ![cur] = FALSE]
    /\ signal' = [signal EXCEPT ![cur] = NoSignal]
    /\ IF signal'[cur] = "kill" THEN KillCurrent ELSE UNCHANGED <<alive, heap, pc>>
    /\ UNCHANGED <<total, cur, found, reaped, lost, torn>>

\* The thread was scheduled again and switch_context goes on: handle_signal
\* takes the signal, the default of which kills; then the interrupt returns.
Wake ==
    /\ woken[cur] /\ ~ torn
    /\ woken' = [woken EXCEPT ![cur] = FALSE]
    /\ signal' = [signal EXCEPT ![cur] = NoSignal]
    /\ IF signal[cur] = "kill" THEN KillCurrent ELSE UNCHANGED <<alive, heap, pc>>
    /\ UNCHANGED <<total, cur, found, reaped, lost, torn>>
-----------------------------------------------------------------------------
UserCode == cur > 1 /\ Runs("code")

\* fork_s, with the timer masked
Fork ==
    /\ UserCode
    /\ MakeThread
    /\ UNCHANGED <<cur, signal, woken, pc, found, reaped, lost, torn>>

\* exit_s, and kill_s of the caller's own id
Exit ==
    /\ UserCode
    /\ KillCurrent
    /\ UNCHANGED <<total, cur, signal, woken, found, reaped, lost, torn>>

\* kill_s(t) after find_thread; a thread that is not found is left alone.
KillFind(t) ==
    /\ UserCode
    /\ t # cur /\ Finds(t)
    /\ found' = [found EXCEPT ![cur] = t]
    /\ pc' = [pc EXCEPT ![cur] = "mark"]
    /\ UNCHANGED <<heap, total, cur, alive, signal, woken, reaped, lost, torn>>

\* The three statements of kill_thread.
KillMark ==
    /\ Runs("mark")
    /\ alive' = [alive EXCEPT ![found[cur]] = FALSE]
    /\ pc' = [pc EXCEPT ![cur] = "erase"]
    /\ UNCHANGED <<heap, total, cur, signal, woken, found, reaped, lost, torn>>

\* Mutation: the killed thread is left in the run queue.
KillEraseForgotten ==
    /\ Runs("erase")
    /\ pc' = [pc EXCEPT ![cur] = "push"]
    /\ UNCHANGED <<heap, total, cur, alive, signal, woken, found, reaped, lost, torn>>

KillErase ==
    /\ Runs("erase")
    /\ heap' = QueueErase(heap, "run", found[cur])
    /\ pc' = [pc EXCEPT ![cur] = "push"]
    /\ UNCHANGED <<total, cur, alive, signal, woken, found, reaped, lost, torn>>

KillPush ==
    /\ Runs("push")
    /\ heap' = QueuePush(heap, "dead", found[cur])
    /\ pc' = [pc EXCEPT ![cur] = "code"]
    /\ found' = [found EXCEPT ![cur] = Nil]
    /\ UNCHANGED <<total, cur, alive, signal, woken, reaped, lost, torn>>

\* kill_with_signal_s(t, s): find_thread, then last_signal is overwritten.
SignalFind(t) ==
    /\ UserCode
    /\ Finds(t)
    /\ found' = [found EXCEPT ![cur] = t]
    /\ pc' = [pc EXCEPT ![cur] = "signal"]
    /\ UNCHANGED <<heap, total, cur, alive, signal, woken, reaped, lost, torn>>

SignalSet(s) ==
    /\ Runs("signal")
    /\ signal' = [signal EXCEPT ![found[cur]] = s]
    /\ pc' = [pc EXCEPT ![cur] = "code"]
    /\ found' = [found EXCEPT ![cur] = Nil]
    /\ UNCHANGED <<heap, total, cur, alive, woken, reaped, lost, torn>>

\* Mutation: the last dead thread is left in the queue.
ReapAllButOne ==
    /\ cur = Idle /\ Runs("code")
    /\ heap.size["dead"] > 1
    /\ heap' = QueuePop(heap, "dead")
    /\ reaped' = reaped \cup {QueueFront(heap, "dead")}
    /\ UNCHANGED <<total, cur, alive, signal, woken, pc, found, lost, torn>>

\* One turn of kill_zombies, which only the idle thread runs.
Reap ==
    /\ cur = Idle /\ Runs("code")
    /\ ~ QueueEmpty(heap, "dead")
    /\ heap' = QueuePop(heap, "dead")
    /\ reaped' = reaped \cup {QueueFront(heap, "dead")}
    /\ UNCHANGED <<total, cur, alive, signal, woken, pc, found, lost, torn>>
-----------------------------------------------------------------------------
\* The rest of a call that has begun.
Finish == \/ LeavePop \/ LeaveSwitch \/ KillMark \/ KillErase \/ KillPush
          \/ \E s \in Signal : SignalSet(s)

\* Nothing is followed once the run queue is torn.
Torn == torn /\ UNCHANGED tvars

TNext == \/ RunProg \/ Tick \/ TickInPop \/ Wake \/ Finish \/ Reap
         \/ Fork \/ Exit
         \/ \E t \in Thread : KillFind(t) \/ SignalFind(t)
         \/ Torn

\* The timer keeps interrupting: an interrupt that comes while it is masked
\* stays pending until it is unmasked.  A time slice of 1/32 s lets a thread
\* that is scheduled again and again leave switch_context, and idle do a turn.
TFairness == /\ SF_tvars(Tick)
             /\ WF_tvars(Finish)
             /\ \A t \in Thread \ {Systemd} : SF_tvars(cur = t /\ Wake)
             /\ SF_tvars(Reap)

TSpec == TInit /\ [][TNext]_tvars /\ TFairness
-----------------------------------------------------------------------------
ThreadsTypeOK ==
    /\ heap \in Heap
    /\ total \in 2 .. MaxThreads
    /\ cur \in 0 .. total - 1
    /\ alive \in [Thread -> BOOLEAN]
    /\ signal \in [Thread -> Signal \cup {NoSignal}]
    /\ woken \in [Thread -> BOOLEAN]
    /\ pc \in [Thread -> {"code", "leave", "switch"} \cup KillPc]
    /\ found \in [Thread -> Thread \cup {Nil}]
    /\ reaped \subseteq Thread /\ lost \subseteq Thread
    /\ torn \in BOOLEAN

Times(q, t) == Cardinality({i \in 1 .. heap.size[q] : Contents(heap, q)[i] = t})

\* Every user thread is in exactly one place: a live one runs, waits once in the
\* run queue or is lost and in none, a dead one waits once in the dead queue or is
\* freed.  Exempt is the thread that a kill is moving between two of its
\* statements, or that a schedule() has popped and not yet switched to.  A thread
\* is lost only by the timer's striking between these two steps (see Tick).
InOnePlace ==
    torn \/ \A t \in 2 .. total - 1 :
        /\ \A k \in Thread : found[k] = t => pc[k] \notin {"erase", "push"}
        /\ found[cur] = t => pc[cur] # "switch"
        => /\ Times("run", t) = IF alive[t] /\ t # cur /\ t \notin lost THEN 1 ELSE 0
           /\ Times("dead", t) = IF ~ alive[t] /\ t \notin reaped THEN 1 ELSE 0

\* "return the pptr toward where the thread resides": when kill_thread erases
\* its target from the queue find_thread named, the target is in that queue.
TargetStillThere == Runs("erase") => InRun(found[cur])

\* A thread that has been killed is never switched to again.
DeadNeverRuns == [][cur' # cur => alive[cur']]_tvars

\* What kill_zombies frees is a killed thread that it has not freed before, that
\* no queue will give the processor to, and that no live thread's kill or signal
\* has found and is about to write to.
ReapedOnce ==
    [][Reap => LET t == QueueFront(heap, "dead")
               IN /\ t \in UserThread \ reaped
                  /\ ~ alive[t] /\ t # cur /\ ~ InRun(t)
                  /\ \A u \in Thread : alive[u] => found[u] # t]_tvars

\* The shell has the processor until it starts a program, then the programs
\* have it, then idle: nothing ever hands it back, to the shell or from idle.
OneWay == [][/\ cur # Systemd => cur' # Systemd
             /\ cur = Idle => cur' = Idle]_tvars

\* Round robin: a thread in the run queue gets the processor, unless it is
\* killed while it waits or the timer loses it (see Tick and TickInPop), however
\* long the others would run.
RunnableRuns ==
    \A t \in UserThread :
        InRun(t) ~> cur = t \/ ~ alive[t] \/ t \in lost \/ torn

\* A signal that kills is taken and ends its thread, unless it is replaced in the
\* one place there is for a signal, or the timer loses the thread.
SignalTaken ==
    \A t \in UserThread :
        signal[t] = "kill" ~> signal[t] = "user" \/ ~ alive[t] \/ t \in lost \/ torn

\* When the last program is gone idle frees every thread that is left.
AllReaped ==
    total > 2 /\ (\A t \in 2 .. total - 1 : ~ alive[t])
        ~> reaped = 2 .. total - 1 \/ torn
=============================================================================

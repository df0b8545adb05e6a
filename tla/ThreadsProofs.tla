---------------------------- MODULE ThreadsProofs ----------------------------
(***************************************************************************)
(* What the scheduler keeps, for any number of threads, in the behaviours  *)
(* where the timer interrupts no call that kills or signals a thread: the  *)
(* same theorems without that hypothesis are false, as the run kill_race   *)
(* shows.                                                                  *)
(***************************************************************************)
EXTENDS Threads, QueueProofs

User == 2 .. total - 1
RunSet == Reachable(heap, "run")
DeadSet == Reachable(heap, "dead")

\* The thread t that a kill is moving from one queue to the other, and the one
\* that a schedule() has popped to switch to.
Moving(t) == pc[cur] \in {"erase", "push"} /\ found[cur] = t
InHand(t) == pc[cur] = "switch" /\ found[cur] = t

\* A live thread waits in the run queue or has the processor, or is about to get it,
\* or is lost; a dead one waits in the dead queue, is freed or is being moved there.
Placed ==
    /\ \A t \in RunSet : /\ t \in User \ (reaped \cup lost) /\ t # cur /\ ~ InHand(t)
                         /\ alive[t] \/ Moving(t)
    /\ \A t \in DeadSet : t \in User /\ ~ alive[t] /\ t \notin reaped /\ ~ Moving(t)
    /\ \A t \in User : alive[t] => t = cur \/ t \in RunSet \/ t \in lost \/ InHand(t)
    /\ \A t \in User : ~ alive[t] => t \in DeadSet \/ t \in reaped \/ Moving(t)
    /\ \A t \in reaped : t \in User /\ ~ alive[t] /\ t # cur
    /\ \A t \in lost : t \in User /\ alive[t] /\ t # cur

\* Only the current thread is inside a call that kills or signals, and it found
\* its target where the call needs it.
Calls ==
    /\ \A t \in Thread : pc[t] \in KillPc => t = cur /\ t > 1 /\ alive[t] /\ ~ woken[t]
    /\ \A t \in Thread : found[t] # Nil => pc[t] \in KillPc \cup {"switch"}
    /\ pc[cur] \in {"mark", "erase"} => found[cur] \in RunSet
    /\ pc[cur] = "mark" => alive[found[cur]]
    /\ pc[cur] = "push" => found[cur] \in User \ (RunSet \cup reaped) /\ found[cur] # cur
    /\ pc[cur] \in {"erase", "push"} => ~ alive[found[cur]]
    /\ pc[cur] = "signal" => found[cur] \in User

\* Only the shell or a thread that has killed itself is inside schedule(); the
\* thread popped there is a live one that is nowhere else.
Leaving ==
    /\ \A t \in Thread : pc[t] \in {"leave", "switch"} => t = cur /\ (t > 1 => ~ alive[t])
    /\ pc[cur] = "switch" /\ found[cur] # Nil =>
          /\ found[cur] \in User \ (RunSet \cup lost)
          /\ alive[found[cur]] /\ found[cur] # cur
    /\ pc[cur] = "switch" /\ found[cur] = Nil => RunSet = {}
    /\ pc[cur] \in {"leave", "switch"} => cur # Idle

\* A thread that killed itself goes straight to schedule(), idle and systemd are
\* never killed, and idle has the processor only when nothing else can run.
Current ==
    /\ cur > 1 /\ ~ alive[cur] => pc[cur] \in {"leave", "switch"} /\ ~ woken[cur]
    /\ \A t \in {Idle, Systemd} : alive[t] /\ signal[t] = NoSignal
    /\ cur = Idle => RunSet = {}

TInv == ThreadsTypeOK /\ Sound(heap) /\ Placed /\ Calls /\ Leaving /\ Current
-----------------------------------------------------------------------------
(* What the calls do to the queues. *)

\* The constants.
LEMMA Constants ==
    /\ "run" \in QueueName /\ "dead" \in QueueName /\ QueueName = {"run", "dead"}
    /\ Thread = Node /\ Node = 0 .. MaxThreads - 1 /\ MaxThreads \in Nat /\ MaxThreads > 2
    /\ Nil \notin Node
BY QueueAssumption, ThreadsAssumption DEF Thread

\* The two queues hold threads, and none of them twice.
LEMMA SetsAre ==
  ASSUME TInv
  PROVE  /\ RunSet \subseteq Thread /\ DeadSet \subseteq Thread
         /\ \A t \in Thread : \A q \in QueueName :
               t \in Reachable(heap, q) => t \in RunSet \/ t \in DeadSet
         /\ User \subseteq Thread /\ cur \in Thread
<1>1. /\ \A q \in QueueName : Reachable(heap, q) \subseteq Node
      /\ \A q \in QueueName : q = "run" \/ q = "dead"
  BY Constants, SoundSets DEF TInv
<1>2. total \in 2 .. MaxThreads /\ cur \in 0 .. total - 1
  BY DEF TInv, ThreadsTypeOK
<1> QED BY <1>1, <1>2, Constants DEF RunSet, DeadSet, User

\* make_thread puts a new thread into the run queue.
LEMMA MakeStep ==
  ASSUME TInv, MakeThread
  PROVE  /\ Sound(heap)' /\ RunSet' = RunSet \cup {total} /\ DeadSet' = DeadSet
         /\ total \in Thread /\ total \notin User /\ User' = User \cup {total}
<1>1. total \in 2 .. MaxThreads - 1 /\ total' = total + 1
  BY Constants DEF TInv, ThreadsTypeOK, MakeThread
<1>2. total \in Node /\ total \notin User /\ User' = User \cup {total}
  BY <1>1, Constants DEF User
<1>3. \A q \in QueueName : total \notin Reachable(heap, q)
  BY <1>2, SetsAre, Constants DEF TInv, Placed
<1> DEFINE h == NodeInit(heap, total)
<1>4. Sound(h) /\ \A q \in QueueName : Reachable(h, q) = Reachable(heap, q)
  BY <1>2, <1>3, SoundInit DEF TInv
<1>5. heap' = QueuePush(h, "run", total)
  BY DEF MakeThread
<1> HIDE DEF h
<1>6. /\ Sound(heap')
      /\ \A q \in QueueName : Reachable(heap', q)
            = IF q = "run" THEN Reachable(heap, "run") \cup {total} ELSE Reachable(heap, q)
  BY <1>2, <1>3, <1>4, <1>5, SoundPush, Constants
<1> QED BY <1>2, <1>6, Constants DEF RunSet, DeadSet

\* schedule() gives the processor to a thread of the run queue, the current one
\* among them if it may go on, or to idle if there is none.
LEMMA ScheduleStep ==
  ASSUME TInv, Schedule
  PROVE  LET Ready == IF cur > 1 /\ alive[cur] THEN RunSet \cup {cur} ELSE RunSet
         IN /\ Sound(heap)' /\ DeadSet' = DeadSet
            /\ IF Ready = {} THEN cur' = Idle ELSE cur' \in Ready
            /\ RunSet' = Ready \ {cur'}
<1> DEFINE Ready == IF cur > 1 /\ alive[cur] THEN RunSet \cup {cur} ELSE RunSet
           h == Requeued
           n == QueueFront(h, "run")
<1>1. Sound(h) /\ Reachable(h, "run") = Ready /\ Reachable(h, "dead") = DeadSet
  <2>1. CASE cur > 1 /\ alive[cur]
    <3>1. \A q \in QueueName : cur \notin Reachable(heap, q)
      BY <2>1, SetsAre, Constants DEF TInv, Placed
    <3>2. cur \in Node /\ Sound(heap)
      BY SetsAre, Constants DEF TInv
    <3>3. /\ Sound(h)
          /\ \A q \in QueueName : Reachable(h, q)
                = IF q = "run" THEN Reachable(heap, "run") \cup {cur} ELSE Reachable(heap, q)
      BY <3>1, <3>2, <2>1, SoundPush, Constants DEF Requeued
    <3> QED BY <3>3, <2>1, Constants DEF RunSet, DeadSet
  <2>2. CASE ~ (cur > 1 /\ alive[cur])
    BY <2>2 DEF RunSet, DeadSet, TInv, Requeued
  <2> QED BY <2>1, <2>2
<1>2. heap' = QueuePop(h, "run") /\ cur' = IF n = Nil THEN Idle ELSE n
  BY DEF Schedule, Preemptor
<1> HIDE DEF h
<1>3. /\ Sound(heap')
      /\ IF Reachable(h, "run") = {} THEN n = Nil ELSE n \in Reachable(h, "run")
      /\ \A q \in QueueName : Reachable(heap', q)
            = IF q = "run" THEN Reachable(h, "run") \ {n} ELSE Reachable(h, q)
  BY <1>1, <1>2, SoundPop, Constants
<1>4. \A t \in Ready : t # Nil
  BY SetsAre, Constants
<1> HIDE DEF Ready, n
<1>5. RunSet' = Ready \ {n} /\ DeadSet' = DeadSet
  BY <1>1, <1>3, Constants DEF RunSet, DeadSet
<1>6. CASE Ready = {}
  BY <1>1, <1>2, <1>3, <1>5, <1>6 DEF Ready
<1>7. CASE Ready # {}
  <2>1. n \in Ready /\ n # Nil
    BY <1>1, <1>3, <1>4, <1>7
  <2>2. cur' = n
    BY <2>1, <1>2
  <2> QED BY <2>1, <2>2, <1>3, <1>5, <1>7 DEF Ready
<1> QED BY <1>6, <1>7

\* kill_curr_thread puts the current thread into the dead queue.
LEMMA KillCurrentStep ==
  ASSUME TInv, KillCurrent, cur > 1, alive[cur]
  PROVE  Sound(heap)' /\ RunSet' = RunSet /\ DeadSet' = DeadSet \cup {cur}
<1>1. \A q \in QueueName : cur \notin Reachable(heap, q)
  BY SetsAre, Constants DEF TInv, Placed
<1>2. cur \in Node /\ Sound(heap) /\ heap' = QueuePush(heap, "dead", cur)
  BY SetsAre, Constants DEF TInv, KillCurrent
<1>3. /\ Sound(heap')
      /\ \A q \in QueueName : Reachable(heap', q)
            = IF q = "dead" THEN Reachable(heap, "dead") \cup {cur} ELSE Reachable(heap, q)
  BY <1>1, <1>2, SoundPush, Constants
<1> QED BY <1>3, Constants DEF RunSet, DeadSet

\* The sound queues are links between nodes.
LEMMA HeapTyped == ASSUME Sound(heap)' PROVE heap' \in Heap
BY SoundSets
-----------------------------------------------------------------------------
(* One lemma for each action. *)

\* run_prog and fork_s
LEMMA MakeThreadKeeps ==
  ASSUME TInv, RunProg \/ Fork
  PROVE  TInv'
<1>1. /\ MakeThread /\ pc[cur] = "code" /\ ~ woken[cur] /\ cur # Idle
      /\ cur' = cur /\ signal' = signal /\ woken' = woken /\ found' = found /\ reaped' = reaped /\ lost' = lost /\ torn' = torn
      /\ pc' \in {pc, [pc EXCEPT ![cur] = "leave"]} /\ (cur > 1 => pc' = pc)
  BY DEF RunProg, Fork, UserCode, Runs, Systemd, Idle
<1>2. /\ ThreadsTypeOK /\ Placed /\ Calls /\ Leaving /\ Current
  BY DEF TInv
<1>3. /\ Sound(heap)' /\ RunSet' = RunSet \cup {total} /\ DeadSet' = DeadSet
      /\ total \in Thread /\ total \notin User /\ User' = User \cup {total}
  BY <1>1, MakeStep
<1>4. /\ cur \in Thread /\ User \subseteq Thread /\ RunSet \subseteq Thread /\ DeadSet \subseteq Thread
      /\ total > 1 /\ total # cur
  BY <1>2, SetsAre DEF ThreadsTypeOK
<1>5. \A t \in Thread : alive'[t] = (t = total \/ alive[t])
  BY <1>1, <1>2, <1>3 DEF MakeThread, ThreadsTypeOK
<1>6. /\ \A t \in Thread : pc'[t] = pc[t] \/ (t = cur /\ pc'[t] = "leave")
      /\ pc'[cur] \in {"code", "leave"}
  <2>1. CASE pc' = pc
    BY <2>1, <1>1
  <2>2. CASE pc' = [pc EXCEPT ![cur] = "leave"]
    BY <2>2, <1>2, <1>4 DEF ThreadsTypeOK
  <2> QED BY <2>1, <2>2, <1>1
<1>7. ThreadsTypeOK'
  <2>1. heap' \in Heap
    BY <1>3, HeapTyped
  <2>2. total' \in 2 .. MaxThreads /\ cur' \in 0 .. total' - 1
    BY <1>1, <1>2, Constants DEF ThreadsTypeOK, MakeThread
  <2>3. alive' \in [Thread -> BOOLEAN] /\ pc' \in [Thread -> {"code", "leave", "switch"} \cup KillPc]
    BY <1>1, <1>2 DEF ThreadsTypeOK, MakeThread
  <2> QED BY <1>1, <1>2, <2>1, <2>2, <2>3 DEF ThreadsTypeOK
<1>8. Placed'
  BY <1>1, <1>2, <1>3, <1>4, <1>5, <1>6, ZenonT(40) DEF Placed, Moving, InHand
<1>9. Calls' /\ Leaving'
  <2>1. Calls'
    BY <1>1, <1>2, <1>3, <1>4, <1>5, <1>6 DEF Calls, KillPc
  <2>2. \A t \in Thread : pc'[t] = "leave" => (t = cur /\ t = Systemd) \/ pc[t] = "leave"
    BY <1>1, <1>4, <1>6, Constants DEF RunProg, Fork, UserCode, Systemd, Idle
  <2> QED BY <2>1, <1>1, <1>2, <1>3, <1>4, <1>5, <1>6 DEF Leaving
<1>10. Current'
  <2>1. \A t \in {Idle, Systemd} : t \in Thread
    BY Constants DEF Idle, Systemd
  <2>2. alive'[cur] = alive[cur] /\ cur # Idle
    BY <1>1, <1>2, <1>4, <1>5 DEF ThreadsTypeOK
  <2>3. cur > 1 /\ ~ alive[cur] => pc'[cur] = "leave"
    BY <1>1, <1>2 DEF Current
  <2> QED BY <2>1, <2>2, <2>3, <1>1, <1>2, <1>5 DEF Current
<1> QED BY <1>3, <1>7, <1>8, <1>9, <1>10 DEF TInv

\* What holds of everyone when the timer comes or schedule() is called.
LEMMA OutsideKills ==
  ASSUME TInv, pc[cur] \notin KillPc
  PROVE  /\ \A t \in Thread : pc[t] \notin KillPc
         /\ \A t \in Thread : t # cur => pc[t] \notin {"leave", "switch"} /\ found[t] = Nil
         /\ pc[cur] # "switch" => found[cur] = Nil
         /\ \A t : ~ Moving(t)
         /\ \A t \in RunSet : t \in User /\ t # cur /\ alive[t] /\ t \notin lost /\ t # found[cur]
         /\ cur \in Thread /\ User \subseteq Thread /\ RunSet \subseteq Thread
         /\ cur > 1 => cur \in User
         /\ Idle \notin User /\ Systemd \notin User /\ Idle \in Thread /\ \A t \in User : t > 1
<1>1. ThreadsTypeOK /\ Placed /\ Calls /\ Leaving
  BY DEF TInv
<1>2. /\ cur \in Thread /\ User \subseteq Thread /\ RunSet \subseteq Thread
      /\ cur > 1 => cur \in User
      /\ Idle \notin User /\ Systemd \notin User /\ Idle \in Thread /\ \A t \in User : t > 1
  BY <1>1, SetsAre, Constants DEF ThreadsTypeOK, User, Idle, Systemd
<1>3. \A t \in Thread : pc[t] \notin KillPc
  BY <1>1, <1>2 DEF Calls
<1>4. \A t \in Thread : t # cur => pc[t] \notin {"leave", "switch"} /\ found[t] = Nil
  BY <1>1, <1>3 DEF Calls, Leaving
<1>5. pc[cur] # "switch" => found[cur] = Nil
  BY <1>1, <1>2, <1>3 DEF Calls
<1>6. \A t : ~ Moving(t)
  BY <1>2, <1>3 DEF Moving, KillPc
<1>7. \A t \in RunSet : t \in User /\ t # cur /\ alive[t] /\ t \notin lost /\ t # found[cur]
  BY <1>1, <1>2, <1>5, <1>6, Constants DEF Placed, InHand
<1> QED BY <1>2, <1>3, <1>4, <1>5, <1>6, <1>7

\* The timer interrupt.
LEMMA TickKeeps ==
  ASSUME TInv, Tick, pc[cur] \notin KillPc
  PROVE  TInv'
<1>1. /\ Schedule /\ total' = total /\ alive' = alive /\ signal' = signal
      /\ reaped' = reaped /\ torn' = torn
      /\ pc' \in {pc, [pc EXCEPT ![cur] = "code"]}
      /\ woken' \in {woken, [woken EXCEPT ![cur] = TRUE]}
      /\ found' \in {found, [found EXCEPT ![cur] = Nil]}
  BY DEF Tick
<1>2. ThreadsTypeOK /\ Placed /\ Calls /\ Leaving /\ Current
  BY DEF TInv
<1> DEFINE Ready == IF cur > 1 /\ alive[cur] THEN RunSet \cup {cur} ELSE RunSet
<1>3. /\ Sound(heap)' /\ DeadSet' = DeadSet /\ User' = User
      /\ IF Ready = {} THEN cur' = Idle ELSE cur' \in Ready
      /\ RunSet' = Ready \ {cur'}
  BY <1>1, ScheduleStep DEF User
<1>4. /\ \A t \in Thread : pc[t] \notin KillPc
      /\ \A t \in Thread : t # cur => pc[t] \notin {"leave", "switch"} /\ found[t] = Nil
      /\ pc[cur] # "switch" => found[cur] = Nil
      /\ \A t : ~ Moving(t)
      /\ \A t \in RunSet : t \in User /\ t # cur /\ alive[t] /\ t \notin lost /\ t # found[cur]
      /\ cur \in Thread /\ User \subseteq Thread /\ RunSet \subseteq Thread
      /\ cur > 1 => cur \in User
      /\ Idle \notin User /\ Systemd \notin User /\ Idle \in Thread /\ \A t \in User : t > 1
  BY OutsideKills
<1>5. /\ \A t \in Thread : pc'[t] \notin KillPc \cup {"leave", "switch"} /\ found'[t] = Nil
      /\ lost' = lost \cup ({found[cur]} \ {Nil})
  <2>1. CASE pc[cur] \in {"leave", "switch"}
    <3>1. /\ pc' = [pc EXCEPT ![cur] = "code"] /\ found' = [found EXCEPT ![cur] = Nil]
          /\ lost' = lost \cup ({found[cur]} \ {Nil})
      BY <2>1 DEF Tick
    <3> QED BY <3>1, <1>2, <1>4 DEF ThreadsTypeOK, KillPc
  <2>2. CASE pc[cur] \notin {"leave", "switch"}
    <3>1. pc' = pc /\ found' = found /\ lost' = lost
      BY <2>2 DEF Tick
    <3> QED BY <2>2, <3>1, <1>4
  <2> QED BY <2>1, <2>2
<1>6. cur' \in Ready \/ (cur' = Idle /\ Ready = {})
  <2> HIDE DEF Ready
  <2> QED BY <1>3
<1>7. \A t \in Ready : t \in User /\ alive[t] /\ t \notin lost'
  <2>1. cur > 1 /\ alive[cur] => pc[cur] # "switch" /\ cur \notin lost
    BY <1>2, <1>4 DEF Leaving, Placed
  <2> QED BY <2>1, <1>4, <1>5
<1>8. cur' \in Thread /\ cur' \in 0 .. total - 1
  <2>1. Idle \in 0 .. total - 1
    BY <1>2, Constants DEF Idle, ThreadsTypeOK
  <2>2. \A t \in User : t \in 0 .. total - 1
    BY <1>2, Constants DEF User, ThreadsTypeOK
  <2> HIDE DEF Ready
  <2> QED BY <2>1, <2>2, <1>4, <1>6, <1>7
<1>9. \A t : ~ Moving(t)' /\ ~ InHand(t)'
  BY <1>5, <1>8 DEF Moving, InHand, KillPc
<1>10. ThreadsTypeOK'
  <2>1. heap' \in Heap
    BY <1>3, HeapTyped
  <2>2. /\ pc' \in [Thread -> {"code", "leave", "switch"} \cup KillPc]
        /\ woken' \in [Thread -> BOOLEAN] /\ found' \in [Thread -> Thread \cup {Nil}]
    BY <1>1, <1>2 DEF ThreadsTypeOK
  <2>3. lost' \subseteq Thread
    <3>1. lost \subseteq Thread /\ found[cur] \in Thread \cup {Nil}
      BY <1>2, <1>4 DEF ThreadsTypeOK
    <3> QED BY <1>5, <3>1
  <2> QED BY <1>1, <1>2, <1>8, <2>1, <2>2, <2>3 DEF ThreadsTypeOK
<1>11. Placed'
  <2>1. \A t \in RunSet' : t \in User \ (reaped \cup lost') /\ t # cur' /\ alive[t]
    BY <1>2, <1>3, <1>7 DEF Placed
  <2>2. \A t \in DeadSet : t \in User /\ ~ alive[t] /\ t \notin reaped
    BY <1>2 DEF Placed
  <2>3. \A t \in User : alive[t] => t = cur' \/ t \in RunSet' \/ t \in lost'
    <3>1. \A t \in User : alive[t] => t \in Ready \/ t \in lost \/ t = found[cur]
      BY <1>2, <1>4 DEF Placed, InHand
    <3>2. \A t \in User : t # Nil
      BY <1>4, Constants
    <3> QED BY <1>3, <1>5, <3>1, <3>2
  <2>4. \A t \in User : ~ alive[t] => t \in DeadSet \/ t \in reaped
    BY <1>2, <1>4 DEF Placed
  <2>5. \A t \in reaped : t \in User /\ ~ alive[t] /\ t # cur'
    BY <1>2, <1>4, <1>6, <1>7 DEF Placed
  <2>6. \A t \in lost' : t \in User /\ alive[t] /\ t # cur'
    <3>1. found[cur] # Nil => found[cur] \in User /\ alive[found[cur]]
      BY <1>2, <1>4 DEF Leaving
    <3>2. \A t \in lost : t \in User /\ alive[t]
      BY <1>2 DEF Placed
    <3>3. \A t \in lost' : t \in User /\ alive[t]
      BY <1>5, <3>1, <3>2
    <3>4. cur' \notin lost'
      <4> HIDE DEF Ready
      <4> QED BY <1>4, <1>6, <1>7, <3>3
    <3> QED BY <3>3, <3>4
  <2> HIDE DEF Ready
  <2> QED BY <2>1, <2>2, <2>3, <2>4, <2>5, <2>6, <1>1, <1>3, <1>9 DEF Placed
<1>12. Calls' /\ Leaving'
  BY <1>1, <1>5, <1>8 DEF Calls, Leaving, KillPc
<1>13. Current'
  <2>1. cur' > 1 => alive[cur']
    BY <1>7, <1>6 DEF Idle
  <2>2. cur' = Idle => Ready = {}
    BY <1>4, <1>7, <1>6
  <2>3. cur' = Idle => RunSet' = {}
    BY <2>2, <1>3
  <2> HIDE DEF Ready
  <2> QED BY <2>1, <2>3, <1>1, <1>2 DEF Current
<1> QED BY <1>3, <1>10, <1>11, <1>12, <1>13 DEF TInv

\* schedule() from kill_curr_thread and run_prog: the next thread is popped.
LEMMA LeavePopKeeps ==
  ASSUME TInv, LeavePop
  PROVE  TInv'
<1>1. /\ pc[cur] = "leave" /\ pc[cur] \notin KillPc /\ ~ woken[cur]
      /\ pc' = [pc EXCEPT ![cur] = "switch"]
      /\ total' = total /\ cur' = cur /\ alive' = alive /\ signal' = signal
      /\ woken' = woken /\ reaped' = reaped /\ lost' = lost /\ torn' = torn
  BY DEF LeavePop, Runs, KillPc
<1>2. ThreadsTypeOK /\ Sound(heap) /\ Placed /\ Calls /\ Leaving /\ Current
  BY DEF TInv
<1>3. /\ \A t \in Thread : pc[t] \notin KillPc
      /\ \A t \in Thread : t # cur => pc[t] \notin {"leave", "switch"} /\ found[t] = Nil
      /\ found[cur] = Nil
      /\ \A t : ~ Moving(t)
      /\ \A t \in RunSet : t \in User /\ t # cur /\ alive[t] /\ t \notin lost
      /\ cur \in Thread /\ User \subseteq Thread /\ RunSet \subseteq Thread
  BY <1>1, OutsideKills
<1>4. PICK n : n = QueueFront(heap, "run")
  OBVIOUS
<1>5. heap' = QueuePop(heap, "run") /\ found' = [found EXCEPT ![cur] = n]
  <2>1. Requeued = heap
    BY <1>1, <1>2, <1>3 DEF Leaving, Requeued
  <2> QED BY <1>4, <2>1 DEF LeavePop
<1>6. /\ Sound(heap)' /\ RunSet' = RunSet \ {n} /\ DeadSet' = DeadSet /\ User' = User
      /\ IF RunSet = {} THEN n = Nil ELSE n \in RunSet
  <2>1. /\ Sound(heap')
        /\ IF Reachable(heap, "run") = {} THEN n = Nil ELSE n \in Reachable(heap, "run")
        /\ \A q \in QueueName : Reachable(heap', q)
              = IF q = "run" THEN Reachable(heap, "run") \ {n} ELSE Reachable(heap, q)
    BY <1>2, <1>4, <1>5, SoundPop, Constants
  <2> QED BY <2>1, <1>1, Constants DEF RunSet, DeadSet, User
<1>7. n \in RunSet \/ (n = Nil /\ RunSet = {})
  BY <1>6
<1>8. /\ \A t \in Thread : pc'[t] = IF t = cur THEN "switch" ELSE pc[t]
      /\ \A t \in Thread : found'[t] = IF t = cur THEN n ELSE Nil
  BY <1>1, <1>2, <1>3, <1>5 DEF ThreadsTypeOK
<1>9. \A t : ~ InHand(t) /\ ~ Moving(t)' /\ (InHand(t)' <=> t = n)
  BY <1>1, <1>3, <1>8 DEF InHand, Moving
<1>10. ThreadsTypeOK'
  <2>1. heap' \in Heap
    BY <1>6, HeapTyped
  <2>2. /\ pc' \in [Thread -> {"code", "leave", "switch"} \cup KillPc]
        /\ found' \in [Thread -> Thread \cup {Nil}]
    BY <1>1, <1>2, <1>3, <1>5, <1>7 DEF ThreadsTypeOK
  <2> QED BY <1>1, <1>2, <2>1, <2>2 DEF ThreadsTypeOK
<1>11. Placed'
  BY <1>1, <1>2, <1>3, <1>6, <1>7, <1>9 DEF Placed
<1>12. Calls'
  BY <1>1, <1>2, <1>3, <1>8 DEF Calls, KillPc
<1>13. Leaving'
  <2>1. \A t \in Thread : pc'[t] \in {"leave", "switch"} => t = cur /\ (t > 1 => ~ alive[t])
    BY <1>1, <1>2, <1>3, <1>8 DEF Leaving
  <2>2. n # Nil => n \in User \ (RunSet' \cup lost) /\ alive[n] /\ n # cur
    BY <1>3, <1>6, <1>7
  <2>3. n = Nil => RunSet' = {}
    BY <1>3, <1>6, <1>7, Constants
  <2>4. cur # Idle /\ found'[cur] = n
    BY <1>1, <1>2, <1>3, <1>8 DEF Leaving
  <2> QED BY <2>1, <2>2, <2>3, <2>4, <1>1, <1>6 DEF Leaving
<1>14. Current'
  <2>1. pc'[cur] = "switch"
    BY <1>3, <1>8
  <2> QED BY <2>1, <1>1, <1>2, <1>6 DEF Current
<1> QED BY <1>6, <1>10, <1>11, <1>12, <1>13, <1>14 DEF TInv

\* And switched to.
LEMMA LeaveSwitchKeeps ==
  ASSUME TInv, LeaveSwitch
  PROVE  TInv' /\ alive[cur'] /\ cur' # Systemd /\ cur # Idle
<1>1. /\ pc[cur] = "switch" /\ pc[cur] \notin KillPc /\ ~ woken[cur]
      /\ pc' = [pc EXCEPT ![cur] = "code"] /\ found' = [found EXCEPT ![cur] = Nil]
      /\ heap' = heap /\ total' = total /\ alive' = alive /\ signal' = signal
      /\ woken' = woken /\ reaped' = reaped /\ lost' = lost /\ torn' = torn
  BY DEF LeaveSwitch, Runs, KillPc
<1>2. ThreadsTypeOK /\ Sound(heap) /\ Placed /\ Calls /\ Leaving /\ Current
  BY DEF TInv
<1>3. /\ \A t \in Thread : pc[t] \notin KillPc
      /\ \A t \in Thread : t # cur => pc[t] \notin {"leave", "switch"} /\ found[t] = Nil
      /\ \A t : ~ Moving(t)
      /\ \A t \in RunSet : t \in User /\ t # cur /\ alive[t] /\ t \notin lost /\ t # found[cur]
      /\ cur \in Thread /\ User \subseteq Thread /\ RunSet \subseteq Thread
      /\ Idle \notin User /\ Systemd \notin User /\ Idle \in Thread /\ \A t \in User : t > 1
  BY <1>1, OutsideKills
<1>4. PICK n : n = found[cur]
  OBVIOUS
<1>5. /\ cur' = IF n = Nil THEN Idle ELSE n
      /\ n # Nil => n \in User \ (RunSet \cup lost) /\ alive[n] /\ n # cur
      /\ n = Nil => RunSet = {}
      /\ cur # Idle /\ (cur > 1 => ~ alive[cur])
  BY <1>1, <1>2, <1>3, <1>4 DEF LeaveSwitch, Preemptor, Leaving
<1>6. RunSet' = RunSet /\ DeadSet' = DeadSet /\ User' = User /\ Sound(heap)'
  BY <1>1, <1>2 DEF RunSet, DeadSet, User
<1>7. /\ \A t \in Thread : pc'[t] = IF t = cur THEN "code" ELSE pc[t]
      /\ \A t \in Thread : found'[t] = Nil
      /\ cur' \in Thread /\ cur' # cur
  BY <1>1, <1>2, <1>3, <1>5 DEF ThreadsTypeOK
<1>8. \A t : (InHand(t) <=> t = n) /\ ~ Moving(t)' /\ ~ InHand(t)'
  BY <1>1, <1>3, <1>4, <1>7 DEF InHand, Moving, KillPc
<1>9. ThreadsTypeOK'
  <2>1. cur' \in 0 .. total - 1
    <3>1. total \in Nat /\ total > 1
      BY <1>2, Constants DEF ThreadsTypeOK
    <3>2. cur' = 0 \/ cur' \in 2 .. total - 1
      BY <1>5 DEF User, Idle
    <3> QED BY <3>1, <3>2
  <2>2. /\ pc' \in [Thread -> {"code", "leave", "switch"} \cup KillPc]
        /\ found' \in [Thread -> Thread \cup {Nil}]
    BY <1>1, <1>2 DEF ThreadsTypeOK
  <2> QED BY <1>1, <1>2, <2>1, <2>2 DEF ThreadsTypeOK
<1>10. Placed'
  <2>1. \A t \in User : alive[t] => t # cur
    BY <1>3, <1>5
  <2>2. \A t \in User : t # Nil /\ t # Idle
    BY <1>3, Constants
  <2>3. \A t \in User : alive[t] => t = cur' \/ t \in RunSet \/ t \in lost
    BY <1>2, <1>5, <1>8, <2>1, <2>2 DEF Placed
  <2>4. \A t \in RunSet \cup reaped \cup lost : t # cur'
    BY <1>2, <1>3, <1>5, <2>2 DEF Placed
  <2> QED BY <1>1, <1>2, <1>3, <1>6, <1>8, <2>3, <2>4 DEF Placed
<1>11. Calls' /\ Leaving'
  BY <1>1, <1>3, <1>7 DEF Calls, Leaving, KillPc
<1>12. /\ alive[cur'] /\ cur' # Systemd
       /\ cur' = Idle => RunSet = {}
  BY <1>2, <1>3, <1>5 DEF Current, Idle, Systemd
<1>13. Current'
  BY <1>1, <1>2, <1>6, <1>12 DEF Current
<1> QED BY <1>5, <1>6, <1>9, <1>10, <1>11, <1>12, <1>13 DEF TInv

\* exit_s, and the default handler of the signal that kills
LEMMA DieKeeps ==
  ASSUME TInv, Exit \/ (Wake /\ signal[cur] = "kill")
  PROVE  TInv'
<1>1. ThreadsTypeOK /\ Placed /\ Calls /\ Leaving /\ Current
  BY DEF TInv
<1>2. /\ cur \in Thread /\ User \subseteq Thread /\ RunSet \subseteq Thread /\ DeadSet \subseteq Thread
      /\ cur > 1 => cur \in User
      /\ \A t \in User : t > 1
  BY <1>1, SetsAre DEF ThreadsTypeOK, User
<1>3. /\ KillCurrent /\ pc[cur] \notin KillPc /\ total' = total /\ cur' = cur
      /\ found' = found /\ reaped' = reaped /\ lost' = lost /\ torn' = torn
      /\ woken' \in {woken, [woken EXCEPT ![cur] = FALSE]} /\ ~ woken'[cur]
      /\ signal' \in {signal, [signal EXCEPT ![cur] = NoSignal]}
  <2>1. CASE Exit
    BY <2>1 DEF Exit, UserCode, Runs, KillPc
  <2>2. CASE Wake /\ signal[cur] = "kill"
    BY <2>2, <1>1, <1>2 DEF Wake, Calls, ThreadsTypeOK
  <2> QED BY <2>1, <2>2
<1>4. cur > 1 /\ alive[cur]
  <2>1. CASE Exit
    BY <2>1, <1>1 DEF Exit, UserCode, Runs, Current
  <2>2. CASE Wake /\ signal[cur] = "kill"
    <3>1. signal[cur] # NoSignal
      BY <2>2 DEF NoSignal
    <3>2. cur # 0 /\ cur # 1
      BY <3>1, <1>1 DEF Current, Idle, Systemd
    <3> QED BY <3>2, <2>2, <1>1 DEF Wake, Current, ThreadsTypeOK
  <2> QED BY <2>1, <2>2
<1>5. /\ Sound(heap)' /\ RunSet' = RunSet /\ DeadSet' = DeadSet \cup {cur} /\ User' = User
  BY <1>3, <1>4, KillCurrentStep DEF User
<1>6. /\ \A t \in Thread : alive'[t] = (alive[t] /\ t # cur)
      /\ \A t \in Thread : pc'[t] = IF t = cur THEN "leave" ELSE pc[t]
  BY <1>1, <1>2, <1>3 DEF KillCurrent, ThreadsTypeOK
<1>7. /\ \A t \in Thread : pc[t] \notin KillPc \cup {"leave", "switch"} /\ found[t] = Nil
      /\ \A t \in Thread : pc'[t] \notin KillPc
  BY <1>1, <1>2, <1>3, <1>4, <1>6 DEF Calls, Leaving, KillPc
<1>8. \A t : ~ Moving(t) /\ ~ Moving(t)' /\ ~ InHand(t) /\ ~ InHand(t)'
  BY <1>2, <1>3, <1>6, <1>7 DEF Moving, InHand, KillPc
<1>9. ThreadsTypeOK'
  <2>1. heap' \in Heap
    BY <1>5, HeapTyped
  <2>2. /\ alive' \in [Thread -> BOOLEAN] /\ pc' \in [Thread -> {"code", "leave", "switch"} \cup KillPc]
        /\ woken' \in [Thread -> BOOLEAN] /\ signal' \in [Thread -> Signal \cup {NoSignal}]
    BY <1>1, <1>3 DEF ThreadsTypeOK, KillCurrent
  <2> QED BY <1>1, <1>3, <2>1, <2>2 DEF ThreadsTypeOK
<1>10. Placed'
  BY <1>1, <1>2, <1>3, <1>4, <1>5, <1>6, <1>8 DEF Placed
<1>11. Calls' /\ Leaving'
  <2>1. Calls'
    BY <1>2, <1>3, <1>7 DEF Calls, KillPc
  <2>2. \A t \in Thread : pc'[t] \in {"leave", "switch"} => t = cur /\ ~ alive'[t]
    BY <1>2, <1>6, <1>7
  <2>3. pc'[cur] = "leave" /\ cur # Idle
    BY <1>2, <1>4, <1>6 DEF Idle
  <2> QED BY <2>1, <2>2, <2>3, <1>3 DEF Leaving
<1>12. Current'
  <2>1. \A t \in {Idle, Systemd} : t \in Thread /\ t # cur
    BY <1>4, Constants DEF Idle, Systemd
  <2>2. \A t \in {Idle, Systemd} : signal'[t] = signal[t]
    BY <2>1, <1>1, <1>3 DEF ThreadsTypeOK
  <2> QED BY <2>1, <2>2, <1>1, <1>2, <1>3, <1>5, <1>6 DEF Current
<1> QED BY <1>5, <1>9, <1>10, <1>11, <1>12 DEF TInv

\* handle_signal without a signal that kills
LEMMA WakeKeeps ==
  ASSUME TInv, Wake, signal[cur] # "kill"
  PROVE  TInv'
<1>1. /\ woken[cur] /\ woken' = [woken EXCEPT ![cur] = FALSE]
      /\ signal' = [signal EXCEPT ![cur] = NoSignal]
      /\ heap' = heap /\ total' = total /\ cur' = cur /\ alive' = alive /\ pc' = pc
      /\ found' = found /\ reaped' = reaped /\ lost' = lost /\ torn' = torn
  BY DEF Wake
<1>2. ThreadsTypeOK /\ Sound(heap) /\ Placed /\ Calls /\ Leaving /\ Current
  BY DEF TInv
<1>3. RunSet' = RunSet /\ DeadSet' = DeadSet /\ User' = User /\ Sound(heap)'
  BY <1>1, <1>2 DEF RunSet, DeadSet, User
<1>4. \A t : Moving(t)' = Moving(t) /\ InHand(t)' = InHand(t)
  BY <1>1 DEF Moving, InHand
<1>5. /\ \A t \in Thread : woken'[t] = (woken[t] /\ t # cur)
      /\ \A t \in Thread : signal'[t] = IF t = cur THEN NoSignal ELSE signal[t]
      /\ cur \in Thread
  BY <1>1, <1>2, SetsAre DEF ThreadsTypeOK
<1>6. ThreadsTypeOK'
  BY <1>1, <1>2 DEF ThreadsTypeOK
<1>7. Placed'
  BY <1>1, <1>2, <1>3, <1>4 DEF Placed
<1>8. Calls' /\ Leaving'
  BY <1>1, <1>2, <1>3, <1>5 DEF Calls, Leaving
<1>9. Current'
  <2>1. \A t \in {Idle, Systemd} : t \in Thread
    BY Constants DEF Idle, Systemd
  <2> QED BY <2>1, <1>1, <1>2, <1>3, <1>5 DEF Current
<1> QED BY <1>3, <1>6, <1>7, <1>8, <1>9 DEF TInv

\* find_thread, of kill_s and of kill_with_signal_s
LEMMA FindKeeps ==
  ASSUME TInv, NEW t \in Thread, KillFind(t) \/ SignalFind(t)
  PROVE  TInv'
<1>1. /\ pc[cur] = "code" /\ ~ woken[cur] /\ cur > 1 /\ Finds(t)
      /\ found' = [found EXCEPT ![cur] = t]
      /\ \E at \in {"mark", "signal"} : pc' = [pc EXCEPT ![cur] = at] /\ (at = "mark" => t # cur)
      /\ heap' = heap /\ total' = total /\ cur' = cur /\ alive' = alive /\ signal' = signal
      /\ woken' = woken /\ reaped' = reaped /\ lost' = lost /\ torn' = torn
  BY DEF KillFind, SignalFind, UserCode, Runs
<1>2. ThreadsTypeOK /\ Sound(heap) /\ Placed /\ Calls /\ Leaving /\ Current
  BY DEF TInv
<1>3. RunSet' = RunSet /\ DeadSet' = DeadSet /\ User' = User /\ Sound(heap)'
  BY <1>1, <1>2 DEF RunSet, DeadSet, User
<1>4. PICK at \in {"mark", "signal"} : /\ pc' = [pc EXCEPT ![cur] = at]
                                       /\ at = "mark" => t # cur
  BY <1>1
<1>5. cur \in Thread /\ cur \in User
  BY <1>1, <1>2, SetsAre DEF ThreadsTypeOK, User
<1>6. /\ \A u \in Thread : pc'[u] = IF u = cur THEN at ELSE pc[u]
      /\ \A u \in Thread : found'[u] = IF u = cur THEN t ELSE found[u]
  BY <1>1, <1>2, <1>4, <1>5 DEF ThreadsTypeOK
<1>7. \A u : ~ Moving(u) /\ ~ Moving(u)' /\ ~ InHand(u) /\ ~ InHand(u)'
  BY <1>1, <1>5, <1>6 DEF Moving, InHand
<1>8. alive[cur]
  BY <1>1, <1>2 DEF Current
<1>9. t = cur \/ (t \in RunSet /\ t \in User /\ alive[t])
  BY <1>1, <1>2, <1>7 DEF Finds, RunSet, Placed
<1>10. ThreadsTypeOK'
  BY <1>1, <1>2, <1>4 DEF ThreadsTypeOK, KillPc
<1>11. Placed'
  BY <1>1, <1>2, <1>3, <1>7 DEF Placed
<1>12. Calls' /\ Leaving'
  BY <1>1, <1>2, <1>3, <1>4, <1>5, <1>6, <1>8, <1>9 DEF Calls, Leaving, KillPc
<1>13. Current'
  BY <1>1, <1>2, <1>3, <1>5, <1>8 DEF Current
<1> QED BY <1>3, <1>10, <1>11, <1>12, <1>13 DEF TInv

\* kill_thread marks its target dead.
LEMMA KillMarkKeeps ==
  ASSUME TInv, KillMark
  PROVE  TInv'
<1>1. /\ pc[cur] = "mark" /\ ~ woken[cur]
      /\ alive' = [alive EXCEPT ![found[cur]] = FALSE] /\ pc' = [pc EXCEPT ![cur] = "erase"]
      /\ heap' = heap /\ total' = total /\ cur' = cur /\ signal' = signal
      /\ woken' = woken /\ found' = found /\ reaped' = reaped /\ lost' = lost /\ torn' = torn
  BY DEF KillMark, Runs
<1>2. ThreadsTypeOK /\ Sound(heap) /\ Placed /\ Calls /\ Leaving /\ Current
  BY DEF TInv
<1>3. RunSet' = RunSet /\ DeadSet' = DeadSet /\ User' = User /\ Sound(heap)'
  BY <1>1, <1>2 DEF RunSet, DeadSet, User
<1>4. PICK f : f = found[cur]
  OBVIOUS
<1>5. /\ cur \in Thread /\ cur > 1 /\ alive[cur] /\ f \in RunSet /\ f \in Thread
      /\ f \in User /\ f # cur /\ alive[f] /\ f > 1
  BY <1>1, <1>2, <1>4, SetsAre DEF Calls, Placed, KillPc, ThreadsTypeOK, User
<1>6. /\ \A t \in Thread : alive'[t] = (alive[t] /\ t # f)
      /\ \A t \in Thread : pc'[t] = IF t = cur THEN "erase" ELSE pc[t]
  BY <1>1, <1>2, <1>4, <1>5 DEF ThreadsTypeOK
<1>7. \A t : ~ Moving(t) /\ (Moving(t)' <=> t = f) /\ ~ InHand(t) /\ ~ InHand(t)'
  BY <1>1, <1>4, <1>5, <1>6 DEF Moving, InHand
<1>8. f \notin DeadSet /\ f \notin reaped /\ f \notin lost
  BY <1>2, <1>5 DEF Placed
<1>9. ThreadsTypeOK'
  BY <1>1, <1>2 DEF ThreadsTypeOK, KillPc
<1>10. Placed'
  BY <1>1, <1>2, <1>3, <1>5, <1>6, <1>7, <1>8, SetsAre DEF Placed
<1>11. Calls' /\ Leaving'
  <2>1. \A t \in Thread : pc'[t] \in KillPc => t = cur
    BY <1>2, <1>6 DEF Calls
  <2>2. alive'[cur] /\ ~ alive'[f] /\ pc'[cur] = "erase"
    BY <1>2, <1>5, <1>6 DEF ThreadsTypeOK
  <2>3. \A t \in Thread : found[t] # Nil => pc'[t] \in KillPc \cup {"switch"}
    BY <1>2, <1>6 DEF Calls, KillPc
  <2>4. Leaving'
    BY <1>1, <1>2, <1>3, <1>5, <1>6 DEF Leaving
  <2> QED BY <2>1, <2>2, <2>3, <2>4, <1>1, <1>3, <1>4, <1>5 DEF Calls
<1>12. Current'
  <2>1. \A t \in {Idle, Systemd} : t \in Thread /\ t # f
    BY <1>5, Constants DEF Idle, Systemd
  <2> QED BY <2>1, <1>1, <1>2, <1>3, <1>5, <1>6 DEF Current
<1> QED BY <1>3, <1>9, <1>10, <1>11, <1>12 DEF TInv

\* kill_thread takes its target out of the run queue.
LEMMA KillEraseKeeps ==
  ASSUME TInv, KillErase
  PROVE  TInv'
<1>1. /\ pc[cur] = "erase" /\ ~ woken[cur]
      /\ heap' = QueueErase(heap, "run", found[cur]) /\ pc' = [pc EXCEPT ![cur] = "push"]
      /\ total' = total /\ cur' = cur /\ alive' = alive /\ signal' = signal
      /\ woken' = woken /\ found' = found /\ reaped' = reaped /\ lost' = lost /\ torn' = torn
  BY DEF KillErase, Runs
<1>2. ThreadsTypeOK /\ Sound(heap) /\ Placed /\ Calls /\ Leaving /\ Current
  BY DEF TInv
<1>3. PICK f : f = found[cur]
  OBVIOUS
<1>4. /\ cur \in Thread /\ cur > 1 /\ alive[cur] /\ f \in RunSet /\ f \in Thread
      /\ f \in User /\ f # cur /\ ~ alive[f]
  BY <1>1, <1>2, <1>3, SetsAre DEF Calls, Placed, KillPc
<1>5. Sound(heap)' /\ RunSet' = RunSet \ {f} /\ DeadSet' = DeadSet /\ User' = User
  <2>1. f \in Reachable(heap, "run")
    BY <1>4 DEF RunSet
  <2>2. /\ Sound(heap')
        /\ \A q \in QueueName : Reachable(heap', q)
              = IF q = "run" THEN Reachable(heap, "run") \ {f} ELSE Reachable(heap, q)
    BY <2>1, <1>1, <1>2, <1>3, SoundErase, Constants
  <2> QED BY <2>2, <1>1, Constants DEF RunSet, DeadSet, User
<1>6. \A t \in Thread : pc'[t] = IF t = cur THEN "push" ELSE pc[t]
  BY <1>1, <1>2, <1>4 DEF ThreadsTypeOK
<1>7. \A t : (Moving(t) <=> t = f) /\ (Moving(t)' <=> t = f) /\ ~ InHand(t) /\ ~ InHand(t)'
  BY <1>1, <1>3, <1>4, <1>6 DEF Moving, InHand
<1>8. f \notin reaped
  BY <1>2, <1>4 DEF Placed
<1>9. ThreadsTypeOK'
  <2>1. heap' \in Heap
    BY <1>5, HeapTyped
  <2> QED BY <2>1, <1>1, <1>2 DEF ThreadsTypeOK, KillPc
<1>10. Placed'
  BY <1>1, <1>2, <1>4, <1>5, <1>7 DEF Placed
<1>11. Calls' /\ Leaving'
  BY <1>1, <1>2, <1>3, <1>4, <1>5, <1>6, <1>8 DEF Calls, Leaving, KillPc
<1>12. Current'
  BY <1>1, <1>2, <1>4, <1>5 DEF Current
<1> QED BY <1>5, <1>9, <1>10, <1>11, <1>12 DEF TInv

\* kill_thread puts its target into the dead queue.
LEMMA KillPushKeeps ==
  ASSUME TInv, KillPush
  PROVE  TInv'
<1>1. /\ pc[cur] = "push" /\ ~ woken[cur]
      /\ heap' = QueuePush(heap, "dead", found[cur]) /\ pc' = [pc EXCEPT ![cur] = "code"]
      /\ found' = [found EXCEPT ![cur] = Nil]
      /\ total' = total /\ cur' = cur /\ alive' = alive /\ signal' = signal
      /\ woken' = woken /\ reaped' = reaped /\ lost' = lost /\ torn' = torn
  BY DEF KillPush, Runs
<1>2. ThreadsTypeOK /\ Sound(heap) /\ Placed /\ Calls /\ Leaving /\ Current
  BY DEF TInv
<1>3. PICK f : f = found[cur]
  OBVIOUS
<1>4. /\ cur \in Thread /\ cur > 1 /\ alive[cur] /\ f \notin RunSet /\ f \in Thread
      /\ f \in User /\ f # cur /\ ~ alive[f] /\ f \notin reaped /\ f \notin DeadSet
  <2>1. Moving(f)
    BY <1>1, <1>3 DEF Moving
  <2> QED BY <2>1, <1>1, <1>2, <1>3, SetsAre DEF Calls, Placed, KillPc
<1>5. Sound(heap)' /\ RunSet' = RunSet /\ DeadSet' = DeadSet \cup {f} /\ User' = User
  <2>1. \A q \in QueueName : f \notin Reachable(heap, q)
    BY <1>4, SetsAre
  <2>2. /\ Sound(heap')
        /\ \A q \in QueueName : Reachable(heap', q)
              = IF q = "dead" THEN Reachable(heap, "dead") \cup {f} ELSE Reachable(heap, q)
    BY <2>1, <1>1, <1>2, <1>3, <1>4, SoundPush, Constants
  <2> QED BY <2>2, <1>1, Constants DEF RunSet, DeadSet, User
<1>6. /\ \A t \in Thread : pc'[t] = IF t = cur THEN "code" ELSE pc[t]
      /\ \A t \in Thread : found'[t] = IF t = cur THEN Nil ELSE found[t]
  BY <1>1, <1>2, <1>4 DEF ThreadsTypeOK
<1>7. \A t : (Moving(t) <=> t = f) /\ ~ Moving(t)' /\ ~ InHand(t) /\ ~ InHand(t)'
  BY <1>1, <1>3, <1>4, <1>6 DEF Moving, InHand
<1>8. ThreadsTypeOK'
  <2>1. heap' \in Heap
    BY <1>5, HeapTyped
  <2> QED BY <2>1, <1>1, <1>2 DEF ThreadsTypeOK
<1>9. Placed'
  BY <1>1, <1>2, <1>4, <1>5, <1>7 DEF Placed
<1>10. Calls' /\ Leaving'
  BY <1>1, <1>2, <1>3, <1>4, <1>5, <1>6 DEF Calls, Leaving, KillPc
<1>11. Current'
  BY <1>1, <1>2, <1>4, <1>5 DEF Current
<1> QED BY <1>5, <1>8, <1>9, <1>10, <1>11 DEF TInv

\* kill_with_signal_s leaves the signal with its target.
LEMMA SignalSetKeeps ==
  ASSUME TInv, NEW s \in Signal, SignalSet(s)
  PROVE  TInv'
<1>1. /\ pc[cur] = "signal" /\ ~ woken[cur]
      /\ signal' = [signal EXCEPT ![found[cur]] = s] /\ pc' = [pc EXCEPT ![cur] = "code"]
      /\ found' = [found EXCEPT ![cur] = Nil]
      /\ heap' = heap /\ total' = total /\ cur' = cur /\ alive' = alive
      /\ woken' = woken /\ reaped' = reaped /\ lost' = lost /\ torn' = torn
  BY DEF SignalSet, Runs
<1>2. ThreadsTypeOK /\ Sound(heap) /\ Placed /\ Calls /\ Leaving /\ Current
  BY DEF TInv
<1>3. RunSet' = RunSet /\ DeadSet' = DeadSet /\ User' = User /\ Sound(heap)'
  BY <1>1, <1>2 DEF RunSet, DeadSet, User
<1>4. PICK f : f = found[cur]
  OBVIOUS
<1>5. cur \in Thread /\ cur > 1 /\ alive[cur] /\ f \in User /\ f \in Thread /\ f > 1
  BY <1>1, <1>2, <1>4, SetsAre DEF Calls, KillPc, ThreadsTypeOK, User
<1>6. /\ \A t \in Thread : pc'[t] = IF t = cur THEN "code" ELSE pc[t]
      /\ \A t \in Thread : found'[t] = IF t = cur THEN Nil ELSE found[t]
      /\ \A t \in Thread : signal'[t] = IF t = f THEN s ELSE signal[t]
  BY <1>1, <1>2, <1>4, <1>5 DEF ThreadsTypeOK
<1>7. \A t : ~ Moving(t) /\ ~ Moving(t)' /\ ~ InHand(t) /\ ~ InHand(t)'
  BY <1>1, <1>5, <1>6 DEF Moving, InHand
<1>8. ThreadsTypeOK'
  BY <1>1, <1>2 DEF ThreadsTypeOK
<1>9. Placed'
  BY <1>1, <1>2, <1>3, <1>7 DEF Placed
<1>10. Calls' /\ Leaving'
  BY <1>1, <1>2, <1>3, <1>5, <1>6 DEF Calls, Leaving, KillPc
<1>11. Current'
  <2>1. \A t \in {Idle, Systemd} : t \in Thread /\ t # f
    BY <1>5, Constants DEF Idle, Systemd
  <2> QED BY <2>1, <1>1, <1>2, <1>3, <1>5, <1>6 DEF Current
<1> QED BY <1>3, <1>8, <1>9, <1>10, <1>11 DEF TInv

\* kill_zombies frees a member of the dead queue.
LEMMA ReapKeeps ==
  ASSUME TInv, Reap
  PROVE  /\ TInv'
         /\ QueueFront(heap, "dead") \in DeadSet /\ DeadSet \cap RunSet = {}
<1>1. /\ cur = Idle /\ pc[cur] = "code" /\ ~ QueueEmpty(heap, "dead")
      /\ heap' = QueuePop(heap, "dead") /\ reaped' = reaped \cup {QueueFront(heap, "dead")}
      /\ total' = total /\ cur' = cur /\ alive' = alive /\ signal' = signal
      /\ woken' = woken /\ pc' = pc /\ found' = found /\ lost' = lost /\ torn' = torn
  BY DEF Reap, Runs
<1>2. ThreadsTypeOK /\ Sound(heap) /\ Placed /\ Calls /\ Leaving /\ Current
  BY DEF TInv
<1>3. PICK f : f = QueueFront(heap, "dead")
  OBVIOUS
<1>4. /\ Sound(heap)' /\ RunSet' = RunSet /\ DeadSet' = DeadSet \ {f} /\ User' = User
      /\ f \in DeadSet /\ DeadSet \cap RunSet = {}
  <2>1. DeadSet # {} /\ DeadSet \cap RunSet = {}
    BY <1>1, <1>2, SoundSets, Constants DEF DeadSet, RunSet
  <2>2. /\ Sound(heap')
        /\ f \in Reachable(heap, "dead")
        /\ \A q \in QueueName : Reachable(heap', q)
              = IF q = "dead" THEN Reachable(heap, "dead") \ {f} ELSE Reachable(heap, q)
    BY <2>1, <1>1, <1>2, <1>3, SoundPop, Constants DEF DeadSet
  <2> QED BY <2>1, <2>2, <1>1, Constants DEF RunSet, DeadSet, User
<1>5. cur \in Thread /\ f \in Thread /\ f \in User /\ f # cur /\ ~ alive[f]
  <2>1. Idle \notin User
    BY <1>2 DEF Idle, User, ThreadsTypeOK
  <2> QED BY <2>1, <1>1, <1>2, <1>4, SetsAre DEF Placed
<1>6. \A t : ~ Moving(t) /\ ~ Moving(t)' /\ ~ InHand(t) /\ ~ InHand(t)'
  BY <1>1 DEF Moving, InHand
<1>7. ThreadsTypeOK'
  <2>1. heap' \in Heap
    BY <1>4, HeapTyped
  <2> QED BY <2>1, <1>1, <1>2, <1>3, <1>5 DEF ThreadsTypeOK
<1>8. Placed'
  BY <1>1, <1>2, <1>3, <1>4, <1>5, <1>6 DEF Placed
<1>9. Calls' /\ Leaving'
  BY <1>1, <1>2, <1>4 DEF Calls, Leaving
<1>10. Current'
  BY <1>1, <1>2, <1>4 DEF Current
<1> QED BY <1>3, <1>4, <1>7, <1>8, <1>9, <1>10 DEF TInv
-----------------------------------------------------------------------------
(* The invariant. *)

\* The two threads init_thread_sys makes are in no queue.
LEMMA TInitInv == TInit => TInv
<1> SUFFICES ASSUME TInit
             PROVE  TInv
  OBVIOUS
<1>1. /\ heap = EmptyHeap /\ total = 2 /\ cur = 1
      /\ alive = [t \in Thread |-> t < 2] /\ signal = [t \in Thread |-> NoSignal]
      /\ woken = [t \in Thread |-> FALSE] /\ pc = [t \in Thread |-> "code"]
      /\ found = [t \in Thread |-> Nil] /\ reaped = {} /\ lost = {} /\ torn = FALSE
  BY DEF TInit, Systemd
<1>2. Sound(heap) /\ RunSet = {} /\ DeadSet = {} /\ heap \in Heap /\ User = {}
  <2>1. 2 .. total - 1 = {}
    BY <1>1
  <2> QED BY <2>1, <1>1, SoundEmpty, SoundSets, Constants DEF RunSet, DeadSet, User
<1>3. ThreadsTypeOK
  <2>1. cur \in 0 .. total - 1 /\ total \in 2 .. MaxThreads
    BY <1>1, Constants
  <2>2. heap \in Heap /\ pc \in [Thread -> {"code", "leave", "switch"} \cup KillPc]
    BY <1>1, <1>2
  <2>3. torn \in BOOLEAN
    BY <1>1
  <2> QED BY <2>1, <2>2, <2>3, <1>1 DEF ThreadsTypeOK
<1>4. cur \in Thread /\ pc[cur] = "code" /\ 0 \in Thread /\ 1 \in Thread
  BY <1>1, Constants
<1>5. Placed
  BY <1>1, <1>2 DEF Placed
<1>6. Calls /\ Leaving
  BY <1>1, <1>4 DEF Calls, Leaving, KillPc
<1>7. Current
  <2>1. signal[0] = NoSignal /\ signal[1] = NoSignal
    BY <1>1, <1>4
  <2>2. \A t \in Thread : t < 2 => alive[t]
    BY <1>1, Zenon
  <2>3. alive[0] /\ alive[1]
    <3>1. 0 < 2 /\ 1 < 2
      OBVIOUS
    <3> QED BY <3>1, <2>2, <1>4
  <2>4. ~ (cur > 1) /\ cur # 0
    BY <1>1
  <2> QED BY <2>1, <2>4, <2>3 DEF Current, Idle, Systemd
<1> QED BY <1>2, <1>3, <1>5, <1>6, <1>7 DEF TInv

\* list_remove leaves links between threads.
LEMMA RemoveTyped ==
  ASSUME NEW h \in Heap, NEW n \in Node
  PROVE  ListRemove(h, n) \in Heap
<1>1. ASSUME NEW g \in Heap, NEW a \in Node \cup {Nil}, NEW x \in Node \cup {Nil}
      PROVE  SetNext(g, a, x) \in Heap /\ SetPrev(g, a, x) \in Heap
  BY <1>1 DEF SetNext, SetPrev, Heap
<1>2. ASSUME NEW g \in Heap PROVE NodeInit(g, n) \in Heap
  BY <1>2 DEF NodeInit, Heap
<1>3. h.prev[n] \in Node \cup {Nil} /\ h.next[n] \in Node \cup {Nil}
  BY DEF Heap
<1>4. SetNext(h, h.prev[n], h.next[n]) \in Heap
  BY <1>1, <1>3
<1>5. SetPrev(SetNext(h, h.prev[n], h.next[n]), h.next[n], h.prev[n]) \in Heap
  BY <1>1, <1>3, <1>4
<1> QED BY <1>2, <1>5 DEF ListRemove

\* A timer interrupt inside queue_pop leaves links between threads.
LEMMA TearTyped ==
  ASSUME TInv, TickInPop
  PROVE  ThreadsTypeOK' /\ torn'
<1> DEFINE f == heap.front["run"]
           removed == ListRemove(heap, f)
<1>1. /\ heap' \in {removed, [removed EXCEPT !.front["run"] = heap.next[f]]}
      /\ torn' = TRUE /\ ~ QueueEmpty(heap, "run")
      /\ total' = total /\ cur' = cur /\ alive' = alive /\ signal' = signal
      /\ woken' = woken /\ pc' = pc /\ found' = found /\ reaped' = reaped /\ lost' = lost
  BY DEF TickInPop
<1>2. ThreadsTypeOK /\ Sound(heap)
  BY DEF TInv
<1>3. heap \in Heap /\ f \in Node
  <2>1. Reachable(heap, "run") # {} /\ Reachable(heap, "run") \subseteq Node
    BY <1>1, <1>2, SoundSets, Constants
  <2>2. QueueFront(heap, "run") \in Node
    BY <1>2, <2>1, SoundPop, Constants
  <2> QED BY <1>1, <1>2, <2>2 DEF QueueFront, ThreadsTypeOK
<1> HIDE DEF f
<1>4. removed \in Heap /\ heap.next[f] \in Node \cup {Nil}
  BY <1>3, RemoveTyped DEF Heap
<1> HIDE DEF removed
<1>5. heap' \in Heap
  BY <1>1, <1>4 DEF Heap, f
<1> QED BY <1>1, <1>2, <1>5 DEF ThreadsTypeOK

\* Every step keeps it, when a kill is not interrupted, but that one.
LEMMA TNextInv ==
  ASSUME TInv, [TNext]_tvars, [Tick => pc[cur] \notin KillPc]_tvars, ~ TickInPop
  PROVE  TInv'
<1>1. CASE RunProg \/ Fork
  BY <1>1, MakeThreadKeeps
<1>2. CASE (Tick /\ ~ UNCHANGED tvars) \/ LeavePop \/ LeaveSwitch
  BY <1>2, TickKeeps, LeavePopKeeps, LeaveSwitchKeeps
<1>3. CASE Wake
  BY <1>3, DieKeeps, WakeKeeps
<1>4. CASE Exit
  BY <1>4, DieKeeps
<1>5. CASE \E t \in Thread : KillFind(t) \/ SignalFind(t)
  BY <1>5, FindKeeps
<1>6. CASE KillMark
  BY <1>6, KillMarkKeeps
<1>7. CASE KillErase
  BY <1>7, KillEraseKeeps
<1>8. CASE KillPush
  BY <1>8, KillPushKeeps
<1>9. CASE \E s \in Signal : SignalSet(s)
  BY <1>9, SignalSetKeeps
<1>10. CASE Reap
  BY <1>10, ReapKeeps
<1>11. CASE UNCHANGED tvars
  BY <1>11 DEF tvars, TInv, ThreadsTypeOK, Placed, Calls, Leaving, Current, RunSet, DeadSet, User,
               Moving, InHand
<1> QED BY <1>1, <1>2, <1>3, <1>4, <1>5, <1>6, <1>7, <1>8, <1>9, <1>10, <1>11 DEF TNext, Finish, Torn

\* What holds in every state: the invariant, unless the timer has torn the queue.
Kept == ThreadsTypeOK /\ (torn \/ TInv)

LEMMA KeptNext ==
  ASSUME Kept, [TNext]_tvars, [Tick => pc[cur] \notin KillPc]_tvars
  PROVE  Kept'
<1>1. CASE torn
  <2>1. UNCHANGED tvars
    BY <1>1 DEF TNext, Finish, Torn, RunProg, Tick, TickInPop, Wake, LeavePop, LeaveSwitch, KillMark,
           KillErase, KillPush, SignalSet, Reap, Fork, Exit, KillFind, SignalFind, UserCode, Runs
  <2> QED BY <1>1, <2>1 DEF Kept, tvars, ThreadsTypeOK
<1>2. CASE ~ torn /\ TickInPop
  BY <1>2, TearTyped DEF Kept
<1>3. CASE ~ torn /\ ~ TickInPop
  <2>1. TInv'
    BY <1>3, TNextInv DEF Kept
  <2> QED BY <2>1 DEF Kept, TInv
<1> QED BY <1>1, <1>2, <1>3 DEF Kept

\* What it says of the places a thread is in.
LEMMA TInvImplies ==
  ASSUME TInv
  PROVE  InOnePlace /\ TargetStillThere
<1>1. /\ Sound(heap) /\ Placed /\ Calls /\ "run" \in QueueName /\ "dead" \in QueueName
      /\ cur \in Thread /\ RunSet \cap DeadSet = {}
  BY Constants, SetsAre, SoundSets DEF TInv, RunSet, DeadSet
<1>2. \A t : /\ Times("run", t) = IF t \in RunSet THEN 1 ELSE 0
             /\ Times("dead", t) = IF t \in DeadSet THEN 1 ELSE 0
             /\ InRun(t) <=> t \in RunSet
  BY <1>1, SoundCounts DEF Times, InRun, RunSet, DeadSet
<1>3. ASSUME NEW t \in 2 .. total - 1,
             \A k \in Thread : found[k] = t => pc[k] \notin {"erase", "push"},
             found[cur] = t => pc[cur] # "switch"
      PROVE  /\ Times("run", t) = IF alive[t] /\ t # cur /\ t \notin lost THEN 1 ELSE 0
             /\ Times("dead", t) = IF ~ alive[t] /\ t \notin reaped THEN 1 ELSE 0
  <2>1. ~ Moving(t) /\ ~ InHand(t) /\ t \in User
    BY <1>1, <1>3 DEF Moving, InHand, User
  <2>2. t \in RunSet <=> alive[t] /\ t # cur /\ t \notin lost
    BY <2>1, <1>1 DEF Placed
  <2>3. t \in DeadSet <=> ~ alive[t] /\ t \notin reaped
    BY <2>1, <1>1 DEF Placed
  <2> QED BY <2>2, <2>3, <1>2
<1>4. TargetStillThere
  BY <1>1, <1>2 DEF TargetStillThere, Runs, Calls
<1> QED BY <1>3, <1>4 DEF InOnePlace

\* Where schedule() goes.
LEMMA SwitchTo ==
  ASSUME Kept, [TNext]_tvars, [Tick => pc[cur] \notin KillPc]_tvars, cur' # cur
  PROVE  alive[cur'] /\ cur' # Systemd /\ cur # Idle
<1>1. LeaveSwitch \/ (Tick /\ pc[cur] \notin KillPc)
  BY DEF TNext, Finish, Torn, tvars, RunProg, TickInPop, Wake, LeavePop, KillMark, KillErase,
         KillPush, SignalSet, Reap, Fork, Exit, KillFind, SignalFind
<1>2. TInv
  BY <1>1 DEF Kept, LeaveSwitch, Tick, Runs
<1>3. CASE LeaveSwitch
  BY <1>2, <1>3, LeaveSwitchKeeps
<1>4. CASE Tick /\ pc[cur] \notin KillPc
  <2>1. Schedule
    BY <1>4 DEF Tick
  <2>2. /\ IF (IF cur > 1 /\ alive[cur] THEN RunSet \cup {cur} ELSE RunSet) = {}
              THEN cur' = Idle
              ELSE cur' \in (IF cur > 1 /\ alive[cur] THEN RunSet \cup {cur} ELSE RunSet)
    BY <1>2, <2>1, ScheduleStep
  <2>3. cur' = Idle \/ cur' \in RunSet
    BY <2>2
  <2>4. \A t \in RunSet : t \in User /\ alive[t] /\ t # Systemd
    BY <1>2, <1>4, OutsideKills
  <2>5. alive[Idle] /\ Idle # Systemd /\ (cur = Idle => RunSet = {})
    BY <1>2 DEF TInv, Current, Idle, Systemd
  <2> QED BY <2>3, <2>4, <2>5
<1> QED BY <1>1, <1>3, <1>4

\* What kill_zombies frees.
LEMMA ReapStep ==
  ASSUME TInv, Reap
  PROVE  LET t == QueueFront(heap, "dead")
         IN /\ t \in UserThread \ reaped
            /\ ~ alive[t] /\ t # cur /\ ~ InRun(t)
            /\ \A u \in Thread : alive[u] => found[u] # t
<1>1. PICK f : f = QueueFront(heap, "dead")
  OBVIOUS
<1>2. /\ f \in DeadSet /\ f \notin RunSet /\ cur = Idle /\ pc[cur] = "code"
      /\ Placed /\ Calls /\ ThreadsTypeOK /\ Sound(heap)
  BY <1>1, ReapKeeps DEF Reap, Runs, TInv
<1>3. f \in User /\ ~ alive[f] /\ f \notin reaped /\ f \in Thread /\ f > 1
  BY <1>2, SetsAre DEF Placed, User, ThreadsTypeOK
<1>4. ~ InRun(f)
  BY <1>2, SoundCounts, Constants DEF InRun, RunSet
<1>5. \A u \in Thread : found[u] = Nil
  BY <1>2, OutsideKills DEF KillPc
<1> QED BY <1>1, <1>2, <1>3, <1>4, <1>5, Constants DEF UserThread, Idle, Systemd
-----------------------------------------------------------------------------
\* The timer does not interrupt kill_s or kill_with_signal_s between find_thread
\* and their last statement.
KillsUninterrupted == [][Tick => pc[cur] \notin KillPc]_tvars

\* Were the timer masked there, every behaviour would be one of these.
LEMMA MaskedKills == ASSUME ~ KillPreemptible PROVE TSpec => KillsUninterrupted
<1>1. [TNext]_tvars => [Tick => pc[cur] \notin KillPc]_tvars
  BY DEF Tick
<1> QED BY <1>1, PTL DEF TSpec, KillsUninterrupted

\* The queues of the scheduler are sound, and every thread is where its state says:
\* a live one with the processor, once in the run queue, in the hand of the
\* schedule() that is about to switch to it, or lost because the timer struck that
\* schedule().  It holds up to a timer interrupt inside the queue_pop of such a
\* schedule().
THEOREM ThreadsInvariant == TSpec /\ KillsUninterrupted => [](torn \/ TInv)
<1>1. TInit => Kept
  BY TInitInv DEF Kept, TInv
<1>2. Kept /\ [TNext]_tvars /\ [Tick => pc[cur] \notin KillPc]_tvars => Kept'
  BY KeptNext
<1>3. Kept => torn \/ TInv
  BY DEF Kept
<1> QED BY <1>1, <1>2, <1>3, PTL DEF TSpec, KillsUninterrupted

\* And every step is one from such a state.
LEMMA AlwaysKept == TSpec /\ KillsUninterrupted => []Kept
<1>1. TInit => Kept
  BY TInitInv DEF Kept, TInv
<1>2. Kept /\ [TNext]_tvars /\ [Tick => pc[cur] \notin KillPc]_tvars => Kept'
  BY KeptNext
<1> QED BY <1>1, <1>2, PTL DEF TSpec, KillsUninterrupted

\* Every variable keeps its type: no queue loses its count, and the processor is
\* never given to something that is not a thread.
THEOREM ThreadsTyped == TSpec /\ KillsUninterrupted => []ThreadsTypeOK
<1>1. Kept => ThreadsTypeOK
  BY DEF Kept
<1> QED BY <1>1, AlwaysKept, PTL

\* A live thread runs, waits once in the run queue or is lost to the timer in
\* between queue_pop and switch_to; a dead one waits once in the dead queue or is
\* freed.
THEOREM OnePlace == TSpec /\ KillsUninterrupted => []InOnePlace
<1>1. Kept => InOnePlace
  BY TInvImplies DEF Kept, InOnePlace
<1> QED BY <1>1, AlwaysKept, PTL

\* kill_thread erases its target from a queue that holds it.
THEOREM TargetIsThere == TSpec /\ KillsUninterrupted => []TargetStillThere
<1>1. Kept => TargetStillThere
  BY TInvImplies DEF Kept, TargetStillThere, Runs
<1> QED BY <1>1, AlwaysKept, PTL

\* schedule() switches to live threads only.
THEOREM DeadThreadsStop == TSpec /\ KillsUninterrupted => DeadNeverRuns
<1>1. Kept /\ [TNext]_tvars /\ [Tick => pc[cur] \notin KillPc]_tvars
        => [cur' # cur => alive[cur']]_tvars
  BY SwitchTo
<1> QED BY <1>1, AlwaysKept, PTL DEF TSpec, KillsUninterrupted, DeadNeverRuns

\* The processor goes from the shell to programs and from them to idle, and never
\* back.
THEOREM ProcessorGoesOneWay == TSpec /\ KillsUninterrupted => OneWay
<1>1. Kept /\ [TNext]_tvars /\ [Tick => pc[cur] \notin KillPc]_tvars
        => [/\ cur # Systemd => cur' # Systemd
            /\ cur = Idle => cur' = Idle]_tvars
  BY SwitchTo
<1> QED BY <1>1, AlwaysKept, PTL DEF TSpec, KillsUninterrupted, OneWay

\* What kill_zombies frees is dead, in no queue, freed for the first time, and the
\* target of no kill or signal of a live thread.
THEOREM FreedOnce == TSpec /\ KillsUninterrupted => ReapedOnce
<1>1. Kept /\ [TNext]_tvars
        => [Reap => LET t == QueueFront(heap, "dead")
                    IN /\ t \in UserThread \ reaped
                       /\ ~ alive[t] /\ t # cur /\ ~ InRun(t)
                       /\ \A u \in Thread : alive[u] => found[u] # t]_tvars
  BY ReapStep DEF Kept, Reap, Runs
<1> QED BY <1>1, AlwaysKept, PTL DEF TSpec, KillsUninterrupted, ReapedOnce
=============================================================================

--------------------------- MODULE ProcessesProofs ---------------------------
(***************************************************************************)
(* What processes take they give back, and nobody else uses it meanwhile,  *)
(* for any number of threads, blocks, handlers and counts that do not      *)
(* wrap, in the behaviours where programs exec only while nobody shares    *)
(* their image (the run exec_refs shows why), until the kernel is astray.  *)
(***************************************************************************)
EXTENDS Processes, FiniteSetTheorems, NaturalsInduction, WellFoundedInduction, TLAPS

\* The object of the program's RCregion: the lowest that the kernel does not keep,
\* which exec_s gives back and gets again.
Image == 3
Mem == region[Image].mem

\* The user stack of t under the pages of the handlers it is in, n[t] of them:
\* sp_el0 is in the uppermost, and each page leads to the one below.
StacksLead(st, n) ==
    /\ \A t \in Unreaped :
          /\ st[t][0] = thread[t].ustack
          /\ st[t][n[t]] = Sp(t)
          /\ \A i \in 1 .. n[t] : frame[st[t][i]].sp = st[t][i - 1]
    /\ \A b \in Block : frame[b] # NoFrame <=>
          \E t \in Unreaped : \E i \in 1 .. n[t] : b = st[t][i]

\* No block is in two places.
BlocksApart(st, n) ==
    /\ \A t \in Unreaped : \A i \in 0 .. n[t] :
          /\ st[t][i] \in Block
          /\ \A u \in Unreaped : /\ st[t][i] # thread[u].kstack
                                 /\ \A j \in 0 .. n[u] : st[t][i] = st[u][j] => t = u /\ i = j
          /\ Image \in slots => st[t][i] # Mem
    /\ \A t \in Unreaped :
          /\ thread[t].kstack \in Block
          /\ Image \in slots => thread[t].kstack # Mem
          /\ \A u \in Unreaped : thread[t].kstack = thread[u].kstack => t = u

\* What is allocated is what somebody will give back.
HeldExactly(st, n) ==
    held = {b \in Block :
              \/ Image \in slots /\ b = Mem
              \/ \E t \in Unreaped : \/ b = thread[t].kstack
                                     \/ \E i \in 0 .. n[t] : b = st[t][i]}

\* A thread in exec_s is in no handler.
NoHandlers(n) == Image \notin slots => \A t \in Unreaped : n[t] = 0

StacksInv(st, n) ==
    StacksLead(st, n) /\ BlocksApart(st, n) /\ HeldExactly(st, n) /\ NoHandlers(n)

\* The objects of the pool.
SlotsInv ==
    /\ slots \ {Image} = BootSlot \cup {thread[t].excepts : t \in Unreaped}
    /\ \A t \in Unreaped :
          /\ thread[t].prog = Image
          /\ thread[t].excepts \in Slot \ (BootSlot \cup {Image})
          /\ \A u \in Unreaped : thread[t].excepts = thread[u].excepts => t = u

\* While there is an image, every thread runs it and is counted.
ImageInUse ==
    /\ Unreaped # {} /\ execing = {}
    /\ region[Image].count = Cardinality(Unreaped)
    /\ Mem \in Block
    /\ \A t \in Unreaped : thread[t].elr = Mem /\ thread[t].handler \in {Mem, Nowhere}
    /\ \A b \in Block : frame[b] # NoFrame => frame[b].elr = Mem

\* There is none before run_prog, when idle has freed the last thread, and for
\* the one thread that is in exec_s, or has died there.
ImageGone ==
    \A t \in Unreaped :
        /\ Unreaped = {t}
        /\ region[Image].count = 0
        /\ thread[t].handler = Nowhere
        /\ thread[t].elr \notin held
        /\ thread[t].life = "dead" \/ t \in execing
        /\ execing \subseteq {t}
        /\ t \in execing => thread[t].user_sp = thread[t].ustack

ImageInv == IF Image \in slots THEN ImageInUse ELSE ImageGone

\* A signal waits for a thread with a handler, and for few enough of them.
SignalsInv ==
    /\ \A t \in Unreaped : thread[t].last_signal = "user" => thread[t].handler # Nowhere
    /\ Cardinality({b \in Block : frame[b] # NoFrame})
       + Cardinality({u \in User : thread[u].last_signal = "user"}) <= MaxFrames

BeforeRun ==
    cur = Systemd => execing = {} /\ \A t \in User : thread[t].life = "none"

Witness(st, n) == st \in [User -> [Nat -> Block \cup {Nowhere}]] /\ n \in [User -> Nat]

Inv(st, n) == /\ ProcTyped /\ SlotsInv /\ ImageInv /\ SignalsInv /\ BeforeRun
              /\ Witness(st, n) /\ StacksInv(st, n)

\* There are such stacks, as long as the kernel is not astray.
Accounted == \E st, n : Inv(st, n)
PInv == astray \/ Accounted
-----------------------------------------------------------------------------
\* What schedule() does to the threads it is given: one that can run is chosen,
\* and starts if it has not run; stack pointers are where they were saved.
LEMMA SchedulePicks ==
  ASSUME NEW threads \in [User -> ThreadRecord], Schedule(threads)
  PROVE  /\ thread' \in [User -> ThreadRecord]
         /\ \A t \in User :
               /\ thread'[t].prog = threads[t].prog
               /\ thread'[t].excepts = threads[t].excepts
               /\ thread'[t].ustack = threads[t].ustack
               /\ thread'[t].kstack = threads[t].kstack
               /\ thread'[t].user_sp = threads[t].user_sp
               /\ thread'[t].elr = threads[t].elr
               /\ thread'[t].handler = threads[t].handler
               /\ thread'[t].last_signal = threads[t].last_signal
               /\ thread'[t].life = threads[t].life
                  \/ (threads[t].life = "fresh" /\ thread'[t].life = "alive")
               /\ Sp(t)' = threads[t].user_sp
         /\ cur' \in User \cup {Idle}
         /\ cur' \in User => thread'[cur'].life = "alive"
         /\ sp_el0' \in Block \cup {Nowhere}
         /\ back' \in BOOLEAN
<1>0. Idle \notin User
  BY ProcessesAssumption DEF Idle, User
<1>1. PICK n \in {Idle} \cup {t \in User : threads[t].life \in {"fresh", "alive"}} :
          SwitchTo(n, threads)
  BY DEF Schedule
<1>2. CASE n = Idle
  <2>1. cur' = Idle /\ sp_el0' = Nowhere /\ back' = FALSE /\ thread' = threads
    BY <1>1, <1>2 DEF SwitchTo
  <2>2. \A t \in User : Sp(t)' = threads[t].user_sp
    BY <2>1, <1>0 DEF Sp
  <2> QED BY <2>1, <2>2, <1>0
<1>3. CASE n # Idle
  <2>1. n \in User /\ threads[n].life \in {"fresh", "alive"}
    BY <1>3, <1>1
  <2>2. /\ cur' = n /\ sp_el0' = threads[n].user_sp
        /\ back' = (threads[n].life = "alive" /\ threads[n].last_signal # "none")
        /\ thread' = [threads EXCEPT ![n].life = "alive"]
    BY <1>1, <1>3 DEF SwitchTo
  <2>3. thread' \in [User -> ThreadRecord]
    BY <2>2, <2>1 DEF ThreadRecord
  <2>4. \A t \in User :
               /\ thread'[t].prog = threads[t].prog
               /\ thread'[t].excepts = threads[t].excepts
               /\ thread'[t].ustack = threads[t].ustack
               /\ thread'[t].kstack = threads[t].kstack
               /\ thread'[t].user_sp = threads[t].user_sp
               /\ thread'[t].elr = threads[t].elr
               /\ thread'[t].handler = threads[t].handler
               /\ thread'[t].last_signal = threads[t].last_signal
               /\ thread'[t].life = IF t = n THEN "alive" ELSE threads[t].life
    BY <2>2, <2>1 DEF ThreadRecord
  <2>5. \A t \in User : Sp(t)' = threads[t].user_sp
    BY <2>2, <2>4 DEF Sp
  <2>6. sp_el0' \in Block \cup {Nowhere}
    BY <2>1, <2>2 DEF ThreadRecord
  <2> QED BY <2>1, <2>2, <2>3, <2>4, <2>5, <2>6
<1> QED BY <1>2, <1>3

\* Few threads, few blocks.
LEMMA Finiteness ==
  /\ \A S : S \subseteq User => IsFiniteSet(S) /\ Cardinality(S) \in 0 .. MaxThreads
  /\ \A S : S \subseteq Block => IsFiniteSet(S)
<1>1. IsFiniteSet(User) /\ Cardinality(User) = MaxThreads
  BY ProcessesAssumption, FS_Interval DEF User
<1>2. IsFiniteSet(Block)
  BY ProcessesAssumption, FS_Interval DEF Block
<1>3. ASSUME NEW S, S \subseteq User
      PROVE  IsFiniteSet(S) /\ Cardinality(S) \in 0 .. MaxThreads
  <2>1. IsFiniteSet(S) /\ Cardinality(S) <= Cardinality(User)
    BY <1>1, <1>3, FS_Subset
  <2>2. Cardinality(S) \in Nat
    BY <2>1, FS_CardinalityType
  <2> QED BY <2>1, <2>2, <1>1, ProcessesAssumption
<1>4. ASSUME NEW S, S \subseteq Block
      PROVE  IsFiniteSet(S)
  BY <1>2, <1>4, FS_Subset
<1> QED BY <1>3, <1>4

\* The slots are taken from the lowest up, and the image's is the lowest.
LEMMA SlotTaken ==
  ASSUME NEW s, NEW taken, TakesSlot(s, taken), BootSlot \subseteq taken
  PROVE  /\ s \in Slot \ (taken \cup BootSlot)
         /\ Image \notin taken => s = Image
         /\ Image \in Slot \ BootSlot /\ Image # Nowhere /\ BootSlot \subseteq Slot
<1>1. Image \in Slot \ BootSlot /\ Image # Nowhere /\ BootSlot \subseteq Slot
  BY ProcessesAssumption DEF Image, Slot, BootSlot, Nowhere
<1>2. s \in Slot \ taken /\ \A r \in Slot \ taken : s <= r
  BY DEF TakesSlot
<1>3. ASSUME Image \notin taken PROVE s = Image
  <2>1. s <= Image
    BY <1>1, <1>2, <1>3
  <2>2. s \in 1 .. 2 + 2 * MaxThreads /\ s # 1 /\ s # 2
    BY <1>2 DEF Slot, BootSlot
  <2> QED BY <2>1, <2>2, ProcessesAssumption DEF Image
<1> QED BY <1>1, <1>2, <1>3
-----------------------------------------------------------------------------
\* A thread is in no handler when its stack pointer is in its user stack.
LEMMA AtBottom ==
  ASSUME NEW st, NEW n \in [User -> Nat], StacksInv(st, n), NEW t \in Unreaped
  PROVE  /\ Sp(t) \in Block /\ Sp(t) = st[t][n[t]] /\ thread[t].ustack \in Block
         /\ Sp(t) = thread[t].ustack <=> n[t] = 0
         /\ n[t] \in Nat /\ t \in User
<1>1. t \in User /\ n[t] \in Nat
  BY DEF Unreaped
<1>2. st[t][0] = thread[t].ustack /\ st[t][n[t]] = Sp(t)
  BY DEF StacksInv, StacksLead
<1>3. \A i, j \in 0 .. n[t] : st[t][i] \in Block /\ (st[t][i] = st[t][j] => i = j)
  BY DEF StacksInv, BlocksApart
<1>4. 0 \in 0 .. n[t] /\ n[t] \in 0 .. n[t]
  BY <1>1
<1> QED BY <1>1, <1>2, <1>3, <1>4

\* Steps that leave the stacks, the handlers' pages and the image as they are.
LEMMA StacksSame ==
  ASSUME NEW st, NEW n \in [User -> Nat], StacksInv(st, n),
         Unreaped' = Unreaped, frame' = frame, held' = held,
         (Image \in slots)' <=> Image \in slots, Mem' = Mem,
         \A t \in Unreaped :
            /\ thread'[t].ustack = thread[t].ustack /\ thread'[t].kstack = thread[t].kstack
            /\ Sp(t)' = Sp(t)
  PROVE  StacksInv(st, n)'
<1>1. StacksLead(st, n)'
  BY DEF StacksInv, StacksLead
<1>2. BlocksApart(st, n)'
  BY DEF StacksInv, BlocksApart
<1>3. HeldExactly(st, n)'
  BY DEF StacksInv, HeldExactly
<1>4. NoHandlers(n)'
  BY DEF StacksInv, NoHandlers
<1> QED BY <1>1, <1>2, <1>3, <1>4 DEF StacksInv

\* And those that leave the objects of the pool to the same threads.
LEMMA SlotsSame ==
  ASSUME SlotsInv, Unreaped' = Unreaped, slots' \ {Image} = slots \ {Image},
         \A t \in Unreaped : /\ thread'[t].prog = thread[t].prog
                             /\ thread'[t].excepts = thread[t].excepts
  PROVE  SlotsInv'
<1>1. {thread'[t].excepts : t \in Unreaped'} = {thread[t].excepts : t \in Unreaped}
  OBVIOUS
<1> QED BY <1>1 DEF SlotsInv

\* Neither more handlers nor more signals for one.
Framed == {b \in Block : frame[b] # NoFrame}
Signalled == {t \in User : thread[t].last_signal = "user"}

\* The bound on handlers is kept when frames and signals only become fewer.
LEMMA SignalsFewer ==
  ASSUME SignalsInv, Framed' \subseteq Framed, Signalled' \subseteq Signalled,
         \A t \in Unreaped' : thread'[t].last_signal = "user" => thread'[t].handler # Nowhere
  PROVE  SignalsInv'
<1>1. IsFiniteSet(Framed) /\ IsFiniteSet(Signalled)
  BY Finiteness DEF Framed, Signalled
<1>2. /\ IsFiniteSet(Framed') /\ Cardinality(Framed') <= Cardinality(Framed)
      /\ IsFiniteSet(Signalled') /\ Cardinality(Signalled') <= Cardinality(Signalled)
  BY <1>1, FS_Subset
<1>3. /\ Cardinality(Framed) \in Nat /\ Cardinality(Signalled) \in Nat
      /\ Cardinality(Framed') \in Nat /\ Cardinality(Signalled') \in Nat
  BY <1>1, <1>2, FS_CardinalityType
<1>4. Cardinality(Framed) + Cardinality(Signalled) <= MaxFrames
  BY DEF SignalsInv, Framed, Signalled
<1>5. Cardinality(Framed') + Cardinality(Signalled') <= MaxFrames
  <2> HIDE DEF Framed, Signalled
  <2> QED BY <1>2, <1>3, <1>4, ProcessesAssumption
<1> QED BY <1>5 DEF SignalsInv, Framed, Signalled
-----------------------------------------------------------------------------
\* After boot the kernel holds its own objects and no block.
LEMMA InitInv == PInit => PInv
<1> SUFFICES ASSUME PInit PROVE Accounted
  BY DEF PInv
<1> DEFINE st == [t \in User |-> [i \in Nat |-> Nowhere]]
           n == [t \in User |-> 0]
<1>1. Unreaped = {}
  BY DEF PInit, Unreaped, NoThread
<1>2. ProcTyped
  <2>1. Systemd \notin User
    BY ProcessesAssumption DEF User, Systemd
  <2>2. NoThread \in ThreadRecord
    BY DEF NoThread, ThreadRecord
  <2>3. thread \in [User -> ThreadRecord]
    BY <2>2 DEF PInit
  <2>4. region \in [Slot -> [count : 0 .. CountMod - 1, mem : Block \cup {Nowhere}]]
    BY ProcessesAssumption DEF PInit
  <2>5. frame \in [Block -> [sp : Block \cup {Nowhere}, elr : Block \cup {Nowhere}]]
    BY DEF PInit, NoFrame
  <2>6. BootSlot \subseteq Slot
    BY ProcessesAssumption DEF BootSlot, Slot
  <2> QED BY <2>1, <2>3, <2>4, <2>5, <2>6 DEF PInit, ProcTyped
<1>3. SlotsInv
  BY <1>1 DEF PInit, SlotsInv, BootSlot, Image
<1>4. ImageInv
  BY <1>1 DEF PInit, ImageInv, ImageGone, BootSlot, Image
<1>5. SignalsInv
  <2>1. Framed = {} /\ Signalled = {}
    BY DEF PInit, Framed, Signalled, NoThread
  <2> QED BY <2>1, <1>1, FS_EmptySet, ProcessesAssumption, SMTT(30) DEF SignalsInv, Framed, Signalled
<1>6. BeforeRun
  BY DEF PInit, BeforeRun, NoThread
<1>7. Witness(st, n)
  BY DEF Witness
<1>8. StacksInv(st, n)
  BY <1>1
  DEF PInit, StacksInv, StacksLead, BlocksApart, HeldExactly, NoHandlers, BootSlot, Image
<1>9. Inv(st, n)
  <2> HIDE DEF st, n
  <2> QED BY <1>2, <1>3, <1>4, <1>5, <1>6, <1>7, <1>8 DEF Inv
<1> QED BY <1>9 DEF Accounted

\* run_prog: the first thread owns all there is.
LEMMA RunProgInv ==
  ASSUME NEW st, NEW n, Inv(st, n), RunProg
  PROVE  Accounted'
<1>1. PICK s, w \in Slot, m, u, k \in Block :
          /\ TakesSlot(s, slots) /\ TakesSlot(w, slots \cup {s})
          /\ Grants(m, held) /\ Grants(u, held \cup {m})
          /\ Grants(k, held \cup {m, u})
          /\ region' = WorkloadIn(w, [region EXCEPT ![s] = [count |-> 1, mem |-> m]])
          /\ Schedule([thread EXCEPT ![1] = [NewThread(s, w, u, k) EXCEPT !.elr = m]])
          /\ slots' = slots \cup {s, w}
          /\ held' = held \cup {m, u, k}
  BY DEF RunProg
<1>2. cur = Systemd /\ execing' = execing /\ frame' = frame /\ astray' = astray
  BY DEF RunProg
<1>3. /\ Unreaped = {} /\ execing = {} /\ 1 \in User
      /\ \A t \in User : thread[t].life = "none"
  BY <1>2, ProcessesAssumption DEF Inv, BeforeRun, Unreaped, User
<1>4. slots = BootSlot
  BY <1>3 DEF Inv, SlotsInv, ImageInv, ImageInUse
<1>5. held = {} /\ \A b \in Block : frame[b] = NoFrame
  BY <1>3, <1>4 DEF Inv, StacksInv, HeldExactly, StacksLead, BootSlot, Image
<1>6. s = Image /\ w \in Slot \ (BootSlot \cup {Image}) /\ Image \in Slot
  <2>1. s = Image /\ Image \in Slot \ BootSlot
    BY <1>1, <1>4, SlotTaken
  <2>2. w \in Slot \ (slots \cup {s})
    BY <1>1 DEF TakesSlot
  <2> QED BY <2>1, <2>2, <1>4
<1>7. u # m /\ k # m /\ k # u
  BY <1>1 DEF Grants
<1> DEFINE new == [NewThread(s, w, u, k) EXCEPT !.elr = m]
           threads == [thread EXCEPT ![1] = new]
<1>8. /\ new.life = "fresh" /\ new.prog = s /\ new.excepts = w /\ new.ustack = u
      /\ new.kstack = k /\ new.user_sp = u /\ new.elr = m /\ new.handler = Nowhere
      /\ new.last_signal = "none"
      /\ new \in ThreadRecord
  BY DEF NewThread, ThreadRecord
<1>9. threads \in [User -> ThreadRecord] /\ threads[1] = new
      /\ \A t \in User : t # 1 => threads[t] = thread[t]
  <2> HIDE DEF new
  <2> QED BY <1>3, <1>8 DEF Inv, ProcTyped
<1>10. Schedule(threads)
  BY <1>1
<1> HIDE DEF threads, new
<1>11. /\ thread' \in [User -> ThreadRecord]
       /\ thread'[1].prog = Image /\ thread'[1].excepts = w /\ thread'[1].ustack = u
       /\ thread'[1].kstack = k /\ thread'[1].elr = m /\ thread'[1].handler = Nowhere
       /\ thread'[1].last_signal = "none" /\ thread'[1].life \in {"fresh", "alive"}
       /\ Sp(1)' = u
  BY <1>3, <1>6, <1>8, <1>9, <1>10, SchedulePicks
<1>12. /\ cur' \in User \cup {Idle}
       /\ cur' \in User => thread'[cur'].life = "alive"
       /\ sp_el0' \in Block \cup {Nowhere}
       /\ back' \in BOOLEAN
  BY <1>9, <1>10, SchedulePicks
<1>13. Unreaped' = {1} /\ Signalled' \subseteq Signalled
  <2>1. \A t \in User : t # 1 => thread'[t].life = "none"
                                 /\ thread'[t].last_signal = thread[t].last_signal
    BY <1>3, <1>9, <1>10, SchedulePicks
  <2> QED BY <2>1, <1>3, <1>11 DEF Unreaped, Signalled
<1>14. /\ region' \in [Slot -> [count : 0 .. CountMod - 1, mem : Block \cup {Nowhere}]]
       /\ region'[Image].count = 1 /\ region'[Image].mem = m
  BY <1>1, <1>6, ProcessesAssumption DEF WorkloadIn, Inv, ProcTyped
<1>15. ProcTyped'
  BY <1>1, <1>2, <1>4, <1>5, <1>6, <1>11, <1>12, <1>14 DEF Inv, ProcTyped
<1>16. SlotsInv'
  <2>1. slots' \ {Image} = BootSlot \cup {w}
    BY <1>1, <1>4, <1>6 DEF BootSlot, Image
  <2>2. {thread'[t].excepts : t \in Unreaped'} = {w}
    BY <1>11, <1>13
  <2> QED BY <2>1, <2>2, <1>6, <1>11, <1>13 DEF SlotsInv
<1>17. ImageInv'
  <2>1. (Image \in slots)'
    BY <1>1, <1>6
  <2>2. Cardinality(Unreaped') = 1
    BY <1>13, FS_Singleton
  <2>3. ImageInUse'
    BY <2>2, <1>2, <1>3, <1>5, <1>11, <1>13, <1>14 DEF ImageInUse, Mem
  <2> QED BY <2>1, <2>3 DEF ImageInv
<1>18. SignalsInv'
  <2>1. Framed' = Framed
    BY <1>2 DEF Framed
  <2> QED BY <2>1, <1>13, <1>11, SignalsFewer DEF Inv
<1>19. BeforeRun'
  <2>1. Systemd \notin User \cup {Idle}
    BY ProcessesAssumption DEF Systemd, Idle, User
  <2> QED BY <2>1, <1>12 DEF BeforeRun
<1> DEFINE st2 == [t \in User |-> [i \in Nat |-> u]]
           n2 == [t \in User |-> 0]
<1>20. Witness(st2, n2)'
  BY DEF Witness
<1>21. StacksInv(st2, n2)'
  <2>1. st2[1][0] = u /\ n2[1] = 0
    BY <1>3
  <2> HIDE DEF st2, n2
  <2>2. (Image \in slots)' /\ Mem' = m
    BY <1>1, <1>6, <1>14 DEF Mem
  <2>3. StacksLead(st2, n2)'
    BY <2>1, <1>2, <1>5, <1>11, <1>13 DEF StacksLead
  <2>4. BlocksApart(st2, n2)'
    BY <2>1, <2>2, <1>7, <1>11, <1>13 DEF BlocksApart
  <2>5. HeldExactly(st2, n2)'
    BY <2>1, <2>2, <1>1, <1>5, <1>11, <1>13 DEF HeldExactly
  <2>6. NoHandlers(n2)'
    BY <2>1, <1>13 DEF NoHandlers
  <2> QED BY <2>3, <2>4, <2>5, <2>6 DEF StacksInv
<1>22. Inv(st2, n2)'
  <2> HIDE DEF st2, n2
  <2> QED BY <1>15, <1>16, <1>17, <1>18, <1>19, <1>20, <1>21 DEF Inv
<1> QED
  <2> HIDE DEF st2, n2
  <2> QED BY <1>22 DEF Accounted

\* User code runs where there is an image.
LEMMA CodeHasImage ==
  ASSUME NEW st, NEW n, Inv(st, n), UserCode
  PROVE  /\ Image \in slots /\ ImageInUse
         /\ cur \in Unreaped /\ cur \in User /\ thread[cur].life = "alive"
         /\ thread[cur].prog = Image
<1>1. cur \in User /\ thread[cur].life = "alive" /\ cur \in Unreaped
  BY DEF UserCode, Inv, ProcTyped, Unreaped
<1>2. Image \in slots
  <2> SUFFICES ASSUME Image \notin slots PROVE FALSE
    OBVIOUS
  <2>1. ImageGone
    BY DEF Inv, ImageInv
  <2> QED BY <2>1, <1>1 DEF ImageGone, UserCode
<1> QED BY <1>1, <1>2 DEF Inv, ImageInv, SlotsInv

\* fork_s: the child's stacks are new, the image has one thread more.
LEMMA ForkInv ==
  ASSUME NEW st, NEW n, Inv(st, n), Fork, ~ astray'
  PROVE  Accounted'
<1>1. PICK t \in User, w \in Slot, u, k \in Block :
          /\ NextId(t)
          /\ TakesSlot(w, slots)
          /\ Grants(u, held) /\ Grants(k, held \cup {u})
          /\ thread' = [thread EXCEPT ![t] =
                [NewThread(thread[cur].prog, w, u, k) EXCEPT
                    !.user_sp = u,
                    !.elr = thread[cur].elr, !.handler = thread[cur].handler]]
          /\ region' = [WorkloadIn(w, region) EXCEPT
                           ![thread[cur].prog].count = (@ + 1) % CountMod]
          /\ slots' = slots \cup {w}
          /\ held' = held \cup {u, k}
  <2>1. AtHome
    BY DEF Fork, ForkCounting
  <2> QED BY <2>1, ZenonT(40) DEF Fork, ForkCounting
<1>2. UserCode /\ UNCHANGED <<cur, sp_el0, back, execing, frame>> /\ ~ astray'
  BY DEF Fork, ForkCounting
<1>3. /\ Image \in slots /\ ImageInUse
      /\ cur \in Unreaped /\ cur \in User /\ thread[cur].life = "alive"
      /\ thread[cur].prog = Image
  BY <1>2, CodeHasImage
<1>4. /\ thread \in [User -> ThreadRecord] /\ held \subseteq Block
      /\ region \in [Slot -> [count : 0 .. CountMod - 1, mem : Block \cup {Nowhere}]]
  BY DEF Inv, ProcTyped
<1>5. /\ Mem \in Block /\ Mem \in held /\ thread[cur].elr = Mem
      /\ thread[cur].handler \in {Mem, Nowhere}
      /\ region[Image].count = Cardinality(Unreaped)
  BY <1>3 DEF ImageInUse, Inv, StacksInv, HeldExactly
<1>6. t \notin Unreaped /\ t # cur /\ thread[t].life = "none"
  BY <1>1, <1>3 DEF NextId, Unreaped
<1> DEFINE new == [NewThread(thread[cur].prog, w, u, k) EXCEPT
                    !.user_sp = u,
                    !.elr = thread[cur].elr, !.handler = thread[cur].handler]
<1>7. /\ new.life = "fresh" /\ new.prog = Image /\ new.excepts = w /\ new.ustack = u
      /\ new.kstack = k /\ new.user_sp = u /\ new.elr = Mem
      /\ new.handler = thread[cur].handler /\ new.last_signal = "none"
  BY <1>3, <1>5 DEF NewThread
<1>8. new \in ThreadRecord
  BY <1>3, <1>4, <1>1 DEF NewThread, ThreadRecord
<1>9. /\ thread' \in [User -> ThreadRecord] /\ thread'[t] = new
      /\ \A v \in User : v # t => thread'[v] = thread[v]
  <2> HIDE DEF new
  <2>1. thread' = [thread EXCEPT ![t] = new]
    BY <1>1 DEF new
  <2> QED BY <2>1, <1>4, <1>8
<1> HIDE DEF new
<1>10. /\ Unreaped' = Unreaped \cup {t} /\ Signalled' \subseteq Signalled
       /\ \A v \in Unreaped : thread'[v] = thread[v] /\ Sp(v)' = Sp(v) /\ v # t
       /\ Sp(t)' = u
  <2>1. Unreaped' = Unreaped \cup {t}
    BY <1>7, <1>9 DEF Unreaped
  <2>2. Signalled' \subseteq Signalled
    BY <1>7, <1>9 DEF Signalled
  <2>3. \A v \in Unreaped : v \in User
    BY DEF Unreaped
  <2> QED BY <2>1, <2>2, <2>3, <1>2, <1>6, <1>7, <1>9 DEF Sp
<1>11. w \in Slot \ (BootSlot \cup {Image}) /\ w \notin slots /\ Image \in Slot
  <2>1. BootSlot \subseteq slots
    BY DEF Inv, SlotsInv
  <2> QED BY <2>1, <1>1, <1>3, SlotTaken
<1>12. Cardinality(Unreaped') = Cardinality(Unreaped) + 1
       /\ Cardinality(Unreaped) \in 0 .. MaxThreads
  <2>1. IsFiniteSet(Unreaped) /\ Cardinality(Unreaped) \in 0 .. MaxThreads
    BY Finiteness DEF Unreaped
  <2> QED BY <2>1, <1>6, <1>10, FS_AddElement
<1>13. /\ region' \in [Slot -> [count : 0 .. CountMod - 1, mem : Block \cup {Nowhere}]]
       /\ region'[Image].count = Cardinality(Unreaped) + 1
       /\ region'[Image].mem = Mem
  <2> DEFINE r1 == WorkloadIn(w, region)
  <2>1. /\ r1 \in [Slot -> [count : 0 .. CountMod - 1, mem : Block \cup {Nowhere}]]
        /\ r1[Image] = region[Image]
    BY <1>4, <1>11, ProcessesAssumption DEF WorkloadIn
  <2>2. region' = [r1 EXCEPT ![Image].count = (@ + 1) % CountMod]
    BY <1>1, <1>3
  <2> HIDE DEF r1
  <2>3. (r1[Image].count + 1) % CountMod = Cardinality(Unreaped) + 1
    <3>1. r1[Image].count = Cardinality(Unreaped)
      BY <2>1, <1>5
    <3> DEFINE c == Cardinality(Unreaped)
    <3>2. c \in Nat /\ c + 1 < CountMod /\ CountMod \in Nat
      BY <1>12, ProcessesAssumption
    <3> HIDE DEF c
    <3>3. (c + 1) % CountMod = c + 1
      BY <3>2
    <3> QED BY <3>1, <3>3 DEF c
  <2>4. Cardinality(Unreaped) + 1 \in 0 .. CountMod - 1
    BY <1>12, ProcessesAssumption
  <2> QED BY <2>1, <2>2, <2>3, <2>4, <1>11 DEF Mem
<1>14. ProcTyped'
  <2>1. cur' \in User => thread'[cur'].life = "alive"
    BY <1>2, <1>3, <1>6, <1>9
  <2>2. astray' \in BOOLEAN
    BY Zenon DEF Fork, ForkCounting
  <2> QED BY <2>1, <2>2, <1>1, <1>2, <1>9, <1>13, <1>4 DEF Inv, ProcTyped
<1>15. SlotsInv'
  <2>1. slots' \ {Image} = (slots \ {Image}) \cup {w}
    BY <1>1, <1>11
  <2>2. {thread'[v].excepts : v \in Unreaped'} = {thread[v].excepts : v \in Unreaped} \cup {w}
    BY <1>7, <1>9, <1>10
  <2>3. \A v \in Unreaped : thread[v].excepts \in slots
    BY DEF Inv, SlotsInv
  <2> QED BY <2>1, <2>2, <2>3, <1>7, <1>9, <1>10, <1>11 DEF Inv, SlotsInv
<1>16. ImageInv'
  <2>1. (Image \in slots)'
    BY <1>1, <1>3
  <2>2. ImageInUse'
    BY <1>2, <1>3, <1>5, <1>7, <1>9, <1>10, <1>12, <1>13 DEF ImageInUse, Mem
  <2> QED BY <2>1, <2>2 DEF ImageInv
<1>17. SignalsInv'
  <2>1. Framed' = Framed
    BY <1>2 DEF Framed
  <2>2. \A v \in Unreaped' : thread'[v].last_signal = "user" => thread'[v].handler # Nowhere
    BY <1>7, <1>9, <1>10 DEF Inv, SignalsInv
  <2> QED BY <2>1, <2>2, <1>10, SignalsFewer DEF Inv
<1>18. BeforeRun'
  BY <1>2, <1>3, ProcessesAssumption DEF BeforeRun, Systemd, User
<1> DEFINE st2 == [st EXCEPT ![t] = [i \in Nat |-> u]]
           n2 == [n EXCEPT ![t] = 0]
<1>19. Witness(st2, n2)'
  BY <1>1 DEF Inv, Witness
<1>20. /\ st2[t][0] = u /\ n2[t] = 0
       /\ \A v \in Unreaped : st2[v] = st[v] /\ n2[v] = n[v]
  BY <1>6 DEF Inv, Witness, Unreaped
<1> HIDE DEF st2, n2
<1>21. \A v \in Unreaped : /\ thread[v].kstack \in held
                           /\ \A i \in 0 .. n[v] : st[v][i] \in held
  BY DEF Inv, StacksInv, HeldExactly, BlocksApart
<1>22. u \notin held /\ k \notin held /\ k # u /\ u \in Block /\ k \in Block
  BY <1>1 DEF Grants
<1>23. StacksInv(st2, n2)'
  <2>1. (Image \in slots)' /\ Mem' = Mem
    BY <1>1, <1>3, <1>13 DEF Mem
  <2>2. StacksLead(st2, n2)'
    BY <1>20, <1>2, <1>7, <1>9, <1>10 DEF StacksLead, Inv, StacksInv
  <2>3. BlocksApart(st2, n2)'
    <3>1. \A v \in Unreaped : thread'[v] = thread[v] /\ v # t
      BY <1>10
    <3>2. BlocksApart(st, n) /\ Image \in slots
      BY <1>3 DEF Inv, StacksInv
    <3> QED BY <3>1, <3>2, <2>1, <1>5, <1>7, <1>9, <1>10, <1>20, <1>21, <1>22 DEF BlocksApart
  <2>4. HeldExactly(st2, n2)'
    <3>1. \A b : b \in held <=> b \in Block /\ (\/ Image \in slots /\ b = Mem
              \/ \E v \in Unreaped : \/ b = thread[v].kstack
                                     \/ \E i \in 0 .. n[v] : b = st[v][i])
      BY DEF Inv, StacksInv, HeldExactly
    <3> DEFINE OfOld(b) == \E v \in Unreaped : \/ b = thread[v].kstack
                                             \/ \E i \in 0 .. n[v] : b = st[v][i]
               OfNew(b) == \E v \in Unreaped' : \/ b = thread'[v].kstack
                                              \/ \E i \in 0 .. n2[v] : b = st2[v][i]
    <3>2. \A b : OfOld(b) => OfNew(b)
      BY <1>10, <1>20
    <3>3. OfNew(u) /\ OfNew(k)
      <4>1. t \in Unreaped' /\ thread'[t].kstack = k /\ 0 \in 0 .. n2[t] /\ st2[t][0] = u
        BY <1>7, <1>9, <1>10, <1>20
      <4> QED BY <4>1
    <3>4. \A b : OfNew(b) => OfOld(b) \/ b = u \/ b = k
      <4> SUFFICES ASSUME NEW b, NEW v \in Unreaped',
                          b = thread'[v].kstack \/ \E i \in 0 .. n2[v] : b = st2[v][i]
                   PROVE  OfOld(b) \/ b = u \/ b = k
        OBVIOUS
      <4>1. CASE v = t
        BY <4>1, <1>7, <1>9, <1>20
      <4>2. CASE v # t
        BY <4>2, <1>10, <1>20
      <4> QED BY <4>1, <4>2
    <3> HIDE DEF OfOld, OfNew
    <3>5. held' = {b \in Block : ((Image \in slots)' /\ b = Mem') \/ OfNew(b)}
      BY <3>1, <3>2, <3>3, <3>4, <2>1, <1>1, <1>3, <1>5, <1>22 DEF OfOld
    <3> QED BY <3>5 DEF HeldExactly, OfNew
  <2>5. NoHandlers(n2)'
    BY <1>1, <1>3, <1>9, <1>10, <1>20 DEF NoHandlers, Inv, StacksInv
  <2> QED BY <2>2, <2>3, <2>4, <2>5 DEF StacksInv
<1>24. Inv(st2, n2)'
  BY <1>14, <1>15, <1>16, <1>17, <1>18, <1>19, <1>23 DEF Inv
<1> QED BY <1>24 DEF Accounted
-----------------------------------------------------------------------------
\* What cur, the handlers' pages, back and execing are does not matter to a step
\* that allocates and frees nothing and moves no stack pointer.
LEMMA QuietStep ==
  ASSUME NEW st, NEW n, Inv(st, n),
         UNCHANGED <<held, slots, region, frame>>,
         Unreaped' = Unreaped, execing' \subseteq execing,
         \A t \in Unreaped :
            /\ thread'[t].prog = thread[t].prog /\ thread'[t].excepts = thread[t].excepts
            /\ thread'[t].ustack = thread[t].ustack /\ thread'[t].kstack = thread[t].kstack
            /\ Sp(t)' = Sp(t)
            /\ thread'[t].user_sp \in {thread[t].user_sp, Sp(t)}
            /\ thread'[t].elr = thread[t].elr
            /\ \/ thread'[t].handler = thread[t].handler
               \/ Image \in slots /\ thread'[t].handler = Mem
            /\ thread[t].life = "dead" => thread'[t].life = "dead"
            /\ t \in execing => t \in execing' \/ thread'[t].life = "dead"
  PROVE  SlotsInv' /\ ImageInv' /\ Witness(st, n)' /\ StacksInv(st, n)'
<1>1. SlotsInv'
  BY SlotsSame DEF Inv
<1>2. (Image \in slots)' <=> Image \in slots
  OBVIOUS
<1>3. Mem' = Mem
  BY DEF Mem
<1>4. StacksInv(st, n)'
  BY <1>2, <1>3, StacksSame DEF Inv, Witness
<1>5. ImageInv'
  <2>1. CASE Image \in slots
    <3>1. ImageInUse
      BY <2>1 DEF Inv, ImageInv
    <3>2. ImageInUse'
      BY <2>1, <3>1, <1>3 DEF ImageInUse
    <3> QED BY <3>2, <2>1 DEF ImageInv
  <2>2. CASE Image \notin slots
    <3>1. ImageGone
      BY <2>2 DEF Inv, ImageInv
    <3>2. \A t \in Unreaped : Sp(t) = thread[t].ustack
      BY <2>2, AtBottom DEF Inv, Witness, StacksInv, NoHandlers
    <3>3. ImageGone'
      BY <2>2, <3>1, <3>2 DEF ImageGone
    <3> QED BY <3>3, <2>2 DEF ImageInv
  <2> QED BY <2>1, <2>2
<1>6. Witness(st, n)'
  BY DEF Inv, Witness
<1> QED BY <1>1, <1>4, <1>5, <1>6

\* signal_s
LEMMA RegisterInv ==
  ASSUME NEW st, NEW n, Inv(st, n), Register
  PROVE  Accounted'
<1>1. /\ UserCode
      /\ thread' = [thread EXCEPT ![cur].handler = thread[cur].elr]
      /\ UNCHANGED <<cur, sp_el0, back, execing, held, slots, region, frame, astray>>
  BY DEF Register
<1>2. /\ Image \in slots /\ ImageInUse /\ cur \in Unreaped /\ cur \in User
  BY <1>1, CodeHasImage
<1>3. thread[cur].elr = Mem /\ Mem \in Block /\ Mem # Nowhere
  BY <1>2 DEF ImageInUse, Block, Nowhere
<1>4. /\ thread' \in [User -> ThreadRecord]
      /\ \A t \in User :
            /\ thread'[t].prog = thread[t].prog /\ thread'[t].excepts = thread[t].excepts
            /\ thread'[t].ustack = thread[t].ustack /\ thread'[t].kstack = thread[t].kstack
            /\ thread'[t].user_sp = thread[t].user_sp /\ thread'[t].elr = thread[t].elr
            /\ thread'[t].life = thread[t].life
            /\ thread'[t].last_signal = thread[t].last_signal
            /\ thread'[t].handler = IF t = cur THEN Mem ELSE thread[t].handler
  <2>1. thread' = [thread EXCEPT ![cur].handler = Mem]
    BY <1>1, <1>3
  <2>2. thread \in [User -> ThreadRecord]
    BY DEF Inv, ProcTyped
  <2> QED BY <2>1, <2>2, <1>2, <1>3 DEF ThreadRecord
<1>5. Unreaped' = Unreaped /\ Signalled' = Signalled
  BY <1>4 DEF Unreaped, Signalled
<1>6. \A t \in Unreaped : t \in User /\ Sp(t)' = Sp(t)
  BY <1>1, <1>4 DEF Sp, Unreaped
<1>7. SlotsInv' /\ ImageInv' /\ Witness(st, n)' /\ StacksInv(st, n)'
  BY <1>1, <1>2, <1>4, <1>5, <1>6, QuietStep
<1>8. ProcTyped'
  BY <1>1, <1>4 DEF Inv, ProcTyped, Living
<1>9. SignalsInv'
  <2>1. Framed' = Framed
    BY <1>1 DEF Framed
  <2> QED BY <2>1, <1>3, <1>4, <1>5, <1>6, SignalsFewer DEF Inv, SignalsInv
<1>10. BeforeRun'
  BY <1>1, <1>4 DEF Inv, BeforeRun
<1>11. Inv(st, n)'
  BY <1>7, <1>8, <1>9, <1>10 DEF Inv
<1> QED BY <1>11 DEF Accounted
\* kill_with_signal_s
LEMMA SendSignalInv ==
  ASSUME NEW st, NEW n, Inv(st, n), NEW t \in User, NEW sig \in {"user", "kill"},
         SendSignal(t, sig)
  PROVE  Accounted'
<1>1. /\ UserCode /\ Living(t)
      /\ sig = "user" => thread[t].handler # Nowhere
      /\ sig = "user" => Cardinality(Framed) + Cardinality(Signalled) < MaxFrames
      /\ thread' = [thread EXCEPT ![t].last_signal = sig]
      /\ UNCHANGED <<cur, sp_el0, back, execing, held, slots, region, frame, astray>>
  BY DEF SendSignal, Framed, Signalled
<1>2. t \in Unreaped
  BY <1>1 DEF Living, Unreaped
<1>3. /\ thread' \in [User -> ThreadRecord]
      /\ \A v \in User :
            /\ thread'[v].prog = thread[v].prog /\ thread'[v].excepts = thread[v].excepts
            /\ thread'[v].ustack = thread[v].ustack /\ thread'[v].kstack = thread[v].kstack
            /\ thread'[v].user_sp = thread[v].user_sp /\ thread'[v].elr = thread[v].elr
            /\ thread'[v].life = thread[v].life /\ thread'[v].handler = thread[v].handler
            /\ thread'[v].last_signal = IF v = t THEN sig ELSE thread[v].last_signal
  <2>1. thread \in [User -> ThreadRecord]
    BY DEF Inv, ProcTyped
  <2> QED BY <1>1, <2>1 DEF ThreadRecord
<1>4. Unreaped' = Unreaped
  BY <1>3 DEF Unreaped
<1>5. \A v \in Unreaped : v \in User /\ Sp(v)' = Sp(v)
  BY <1>1, <1>3 DEF Sp, Unreaped
<1>6. SlotsInv' /\ ImageInv' /\ Witness(st, n)' /\ StacksInv(st, n)'
  BY <1>1, <1>3, <1>4, <1>5, QuietStep
<1>7. ProcTyped'
  BY <1>1, <1>3 DEF Inv, ProcTyped, Living
<1>8. SignalsInv'
  <2>1. Framed' = Framed
    BY <1>1 DEF Framed
  <2>2. \A v \in Unreaped' : thread'[v].last_signal = "user" => thread'[v].handler # Nowhere
    BY <1>1, <1>3, <1>4, <1>5 DEF Inv, SignalsInv
  <2>3. CASE sig = "kill"
    <3>1. Signalled' \subseteq Signalled
      BY <2>3, <1>3 DEF Signalled
    <3> QED BY <2>1, <2>2, <3>1, SignalsFewer DEF Inv
  <2>4. CASE sig = "user"
    <3>1. Signalled' = Signalled \cup {t}
      BY <2>4, <1>3 DEF Signalled
    <3>2. IsFiniteSet(Framed) /\ IsFiniteSet(Signalled)
      BY Finiteness DEF Framed, Signalled
    <3>3. /\ Cardinality(Signalled') <= Cardinality(Signalled) + 1
          /\ Cardinality(Signalled') \in Nat /\ Cardinality(Signalled) \in Nat
          /\ Cardinality(Framed) \in Nat
      <4>1. IsFiniteSet(Signalled')
            /\ Cardinality(Signalled') = IF t \in Signalled THEN Cardinality(Signalled)
                                         ELSE Cardinality(Signalled) + 1
        BY <3>1, <3>2, FS_AddElement
      <4>2. /\ Cardinality(Signalled') \in Nat /\ Cardinality(Signalled) \in Nat
            /\ Cardinality(Framed) \in Nat
        BY <3>2, <4>1, FS_CardinalityType
      <4> QED BY <4>1, <4>2
    <3>4. Cardinality(Framed') + Cardinality(Signalled') <= MaxFrames
      <4>1. Cardinality(Framed) + Cardinality(Signalled) < MaxFrames /\ Framed' = Framed
        BY <1>1, <2>1, <2>4
      <4> HIDE DEF Framed, Signalled
      <4> QED BY <4>1, <3>3, ProcessesAssumption
    <3> QED BY <3>4, <2>2 DEF SignalsInv, Framed, Signalled
  <2> QED BY <2>3, <2>4
<1>9. BeforeRun'
  BY <1>1, <1>3 DEF Inv, BeforeRun
<1>10. Inv(st, n)'
  BY <1>6, <1>7, <1>8, <1>9 DEF Inv
<1> QED BY <1>10 DEF Accounted

\* kill_s of another
LEMMA KillInv ==
  ASSUME NEW st, NEW n, Inv(st, n), NEW t \in User, Kill(t)
  PROVE  Accounted'
<1>1. /\ UserCode /\ t # cur /\ Living(t)
      /\ thread' = [thread EXCEPT ![t].life = "dead"]
      /\ UNCHANGED <<cur, sp_el0, back, execing, held, slots, region, frame, astray>>
  BY DEF Kill
<1>2. t \in Unreaped
  BY <1>1 DEF Living, Unreaped
<1>3. /\ thread' \in [User -> ThreadRecord]
      /\ \A v \in User :
            /\ thread'[v].prog = thread[v].prog /\ thread'[v].excepts = thread[v].excepts
            /\ thread'[v].ustack = thread[v].ustack /\ thread'[v].kstack = thread[v].kstack
            /\ thread'[v].user_sp = thread[v].user_sp /\ thread'[v].elr = thread[v].elr
            /\ thread'[v].handler = thread[v].handler
            /\ thread'[v].last_signal = thread[v].last_signal
            /\ thread'[v].life = IF v = t THEN "dead" ELSE thread[v].life
  <2>1. thread \in [User -> ThreadRecord]
    BY DEF Inv, ProcTyped
  <2> QED BY <1>1, <2>1 DEF ThreadRecord
<1>4. Unreaped' = Unreaped /\ Signalled' = Signalled
  BY <1>2, <1>3 DEF Unreaped, Signalled
<1>5. \A v \in Unreaped : v \in User /\ Sp(v)' = Sp(v)
  BY <1>1, <1>3 DEF Sp, Unreaped
<1>6. SlotsInv' /\ ImageInv' /\ Witness(st, n)' /\ StacksInv(st, n)'
  BY <1>1, <1>3, <1>4, <1>5, QuietStep
<1>7. ProcTyped'
  BY <1>1, <1>3 DEF Inv, ProcTyped, Living, UserCode
<1>8. SignalsInv'
  <2>1. Framed' = Framed
    BY <1>1 DEF Framed
  <2> QED BY <2>1, <1>3, <1>4, <1>5, SignalsFewer DEF Inv, SignalsInv
<1>9. BeforeRun'
  <2>1. cur # Systemd
    BY <1>1, ProcessesAssumption DEF UserCode, User, Systemd
  <2> QED BY <2>1, <1>1 DEF BeforeRun
<1>10. Inv(st, n)'
  BY <1>6, <1>7, <1>8, <1>9 DEF Inv
<1> QED BY <1>10 DEF Accounted

\* The timer interrupts; another thread may be chosen.
LEMMA TickInv ==
  ASSUME NEW st, NEW n, Inv(st, n), Tick
  PROVE  Accounted'
<1> DEFINE threads == IF cur = Idle THEN thread ELSE [thread EXCEPT ![cur].user_sp = sp_el0]
<1>1. /\ cur # Systemd /\ Schedule(threads)
      /\ UNCHANGED <<execing, held, slots, region, frame, astray>>
  BY DEF Tick
<1>2. cur = Idle \/ cur \in User
  BY <1>1 DEF Inv, ProcTyped
<1>3. Idle \notin User /\ Systemd \notin User \cup {Idle}
  BY ProcessesAssumption DEF Idle, Systemd, User
<1>4. /\ threads \in [User -> ThreadRecord]
      /\ \A v \in User :
            /\ threads[v].prog = thread[v].prog /\ threads[v].excepts = thread[v].excepts
            /\ threads[v].ustack = thread[v].ustack /\ threads[v].kstack = thread[v].kstack
            /\ threads[v].life = thread[v].life /\ threads[v].elr = thread[v].elr
            /\ threads[v].handler = thread[v].handler
            /\ threads[v].last_signal = thread[v].last_signal
            /\ threads[v].user_sp = Sp(v)
  <2>1. thread \in [User -> ThreadRecord] /\ sp_el0 \in Block \cup {Nowhere}
    BY DEF Inv, ProcTyped
  <2>2. CASE cur = Idle
    BY <2>1, <2>2, <1>3 DEF Sp
  <2>3. CASE cur \in User
    <3>1. threads = [thread EXCEPT ![cur].user_sp = sp_el0]
      BY <2>3, <1>3
    <3> QED BY <3>1, <2>1, <2>3 DEF Sp, ThreadRecord
  <2> QED BY <1>2, <2>2, <2>3
<1> HIDE DEF threads
<1>5. /\ thread' \in [User -> ThreadRecord]
      /\ \A v \in User :
            /\ thread'[v].prog = thread[v].prog /\ thread'[v].excepts = thread[v].excepts
            /\ thread'[v].ustack = thread[v].ustack /\ thread'[v].kstack = thread[v].kstack
            /\ thread'[v].elr = thread[v].elr /\ thread'[v].handler = thread[v].handler
            /\ thread'[v].last_signal = thread[v].last_signal
            /\ thread'[v].user_sp = Sp(v) /\ Sp(v)' = Sp(v)
            /\ thread'[v].life = thread[v].life
               \/ (thread[v].life = "fresh" /\ thread'[v].life = "alive")
  BY <1>1, <1>4, SchedulePicks
<1>6. /\ cur' \in User \cup {Idle}
      /\ cur' \in User => thread'[cur'].life = "alive"
      /\ sp_el0' \in Block \cup {Nowhere}
      /\ back' \in BOOLEAN
  BY <1>1, <1>4, SchedulePicks
<1>7. Unreaped' = Unreaped /\ Signalled' = Signalled
  BY <1>5 DEF Unreaped, Signalled
<1>8. \A v \in Unreaped : v \in User
  BY DEF Unreaped
<1>9. SlotsInv' /\ ImageInv' /\ Witness(st, n)' /\ StacksInv(st, n)'
  BY <1>1, <1>5, <1>7, <1>8, QuietStep
<1>10. ProcTyped'
  BY <1>1, <1>5, <1>6 DEF Inv, ProcTyped
<1>11. SignalsInv'
  <2>1. Framed' = Framed
    BY <1>1 DEF Framed
  <2> QED BY <2>1, <1>5, <1>7, <1>8, SignalsFewer DEF Inv, SignalsInv
<1>12. BeforeRun'
  BY <1>3, <1>6 DEF BeforeRun
<1>13. Inv(st, n)'
  BY <1>9, <1>10, <1>11, <1>12 DEF Inv
<1> QED BY <1>13 DEF Accounted

\* kill_curr_thread
LEMMA DieInv ==
  ASSUME NEW st, NEW n, Inv(st, n), cur \in User, Die
  PROVE  Accounted'
<1> DEFINE threads == [thread EXCEPT ![cur].life = "dead", ![cur].user_sp = sp_el0,
                                     ![cur].last_signal = "none"]
<1>1. /\ Schedule(threads) /\ execing' = execing \ {cur}
      /\ UNCHANGED <<held, slots, region, frame, astray>>
  BY DEF Die
<1>2. cur \in Unreaped /\ thread[cur].life = "alive"
  BY DEF Inv, ProcTyped, Unreaped
<1>3. Systemd \notin User \cup {Idle}
  BY ProcessesAssumption DEF Idle, Systemd, User
<1>4. /\ threads \in [User -> ThreadRecord]
      /\ \A v \in User :
            /\ threads[v].prog = thread[v].prog /\ threads[v].excepts = thread[v].excepts
            /\ threads[v].ustack = thread[v].ustack /\ threads[v].kstack = thread[v].kstack
            /\ threads[v].elr = thread[v].elr /\ threads[v].handler = thread[v].handler
            /\ threads[v].life = IF v = cur THEN "dead" ELSE thread[v].life
            /\ threads[v].last_signal = IF v = cur THEN "none" ELSE thread[v].last_signal
            /\ threads[v].user_sp = Sp(v)
  <2>1. thread \in [User -> ThreadRecord] /\ sp_el0 \in Block \cup {Nowhere}
    BY DEF Inv, ProcTyped
  <2> DEFINE r == [thread[cur] EXCEPT !.life = "dead", !.user_sp = sp_el0,
                                      !.last_signal = "none"]
  <2>2. threads = [thread EXCEPT ![cur] = r]
    BY <2>1
  <2>3. thread[cur] \in ThreadRecord
    BY <2>1
  <2>4. /\ r.prog = thread[cur].prog /\ r.excepts = thread[cur].excepts
        /\ r.ustack = thread[cur].ustack /\ r.kstack = thread[cur].kstack
        /\ r.elr = thread[cur].elr /\ r.handler = thread[cur].handler
        /\ r.life = "dead" /\ r.last_signal = "none" /\ r.user_sp = sp_el0
        /\ r \in ThreadRecord
    BY <2>1, <2>3, ZenonT(40) DEF ThreadRecord
  <2> HIDE DEF r
  <2>5. /\ threads \in [User -> ThreadRecord] /\ threads[cur] = r
        /\ \A v \in User : v # cur => threads[v] = thread[v]
    BY <2>1, <2>2, <2>4
  <2> QED BY <2>4, <2>5 DEF Sp
<1> HIDE DEF threads
<1>5. /\ thread' \in [User -> ThreadRecord]
      /\ \A v \in User :
            /\ thread'[v].prog = thread[v].prog /\ thread'[v].excepts = thread[v].excepts
            /\ thread'[v].ustack = thread[v].ustack /\ thread'[v].kstack = thread[v].kstack
            /\ thread'[v].elr = thread[v].elr /\ thread'[v].handler = thread[v].handler
            /\ thread'[v].last_signal = IF v = cur THEN "none" ELSE thread[v].last_signal
            /\ thread'[v].user_sp = Sp(v) /\ Sp(v)' = Sp(v)
            /\ v # cur => thread'[v].life = thread[v].life
                          \/ (thread[v].life = "fresh" /\ thread'[v].life = "alive")
      /\ thread'[cur].life = "dead"
  BY <1>1, <1>4, SchedulePicks
<1>6. /\ cur' \in User \cup {Idle}
      /\ cur' \in User => thread'[cur'].life = "alive"
      /\ sp_el0' \in Block \cup {Nowhere}
      /\ back' \in BOOLEAN
  BY <1>1, <1>4, SchedulePicks
<1>7. Unreaped' = Unreaped /\ Signalled' \subseteq Signalled
  BY <1>2, <1>5 DEF Unreaped, Signalled
<1>8. \A v \in Unreaped : v \in User
  BY DEF Unreaped
<1>9. SlotsInv' /\ ImageInv' /\ Witness(st, n)' /\ StacksInv(st, n)'
  <2>1. \A v \in Unreaped :
            /\ thread[v].life = "dead" => thread'[v].life = "dead"
            /\ v \in execing => v \in execing' \/ thread'[v].life = "dead"
    BY <1>1, <1>5, <1>8
  <2> QED BY <2>1, <1>1, <1>5, <1>7, <1>8, QuietStep
<1>10. ProcTyped'
  BY <1>1, <1>5, <1>6 DEF Inv, ProcTyped
<1>11. SignalsInv'
  <2>1. Framed' = Framed
    BY <1>1 DEF Framed
  <2>2. \A v \in Unreaped' : thread'[v].last_signal = "user" => thread'[v].handler # Nowhere
    BY <1>5, <1>7, <1>8 DEF Inv, SignalsInv
  <2> QED BY <2>1, <2>2, <1>7, SignalsFewer DEF Inv
<1>12. BeforeRun'
  BY <1>3, <1>6 DEF BeforeRun
<1>13. Inv(st, n)'
  BY <1>9, <1>10, <1>11, <1>12 DEF Inv
<1> QED BY <1>13 DEF Accounted

\* exec_s drops the image, which is the thread's alone.
LEMMA ExecDropInv ==
  ASSUME NEW st, NEW n, Inv(st, n), ExecDrop, ~ astray', Unreaped = {cur}
  PROVE  Accounted'
<1>1. /\ UserCode /\ AtHome /\ thread[cur].handler = Nowhere
      /\ Unreaped = {cur}
      /\ execing' = execing \cup {cur}
      /\ region' = RcFreed(thread[cur].prog)
      /\ held' = held \ FreedBlocks(thread[cur].prog)
      /\ slots' = slots \ FreedSlots(thread[cur].prog)
      /\ ~ astray'
      /\ UNCHANGED <<cur, sp_el0, back, thread, frame>>
  BY DEF ExecDrop
<1>2. /\ Image \in slots /\ ImageInUse /\ cur \in Unreaped /\ cur \in User
      /\ thread[cur].prog = Image
  BY <1>1, CodeHasImage
<1>3. region[Image].count = 1 /\ Image \in Slot
  <2>1. Cardinality({cur}) = 1
    BY FS_Singleton
  <2>2. region[Image].count = Cardinality(Unreaped)
    BY <1>2 DEF ImageInUse
  <2> QED BY <2>1, <2>2, <1>1, <1>2 DEF Inv, ProcTyped
<1>4. Uncounted(Image) = 0
  BY <1>3, ProcessesAssumption DEF Uncounted
<1>5. /\ held' = held \ {Mem} /\ slots' = slots \ {Image}
      /\ region' = [region EXCEPT ![Image].count = 0]
  BY <1>1, <1>2, <1>4 DEF FreedBlocks, FreedSlots, RcFreed, Mem
<1>6. /\ region' \in [Slot -> [count : 0 .. CountMod - 1, mem : Block \cup {Nowhere}]]
      /\ region'[Image].count = 0
  BY <1>3, <1>5, ProcessesAssumption DEF Inv, ProcTyped
<1>7. n[cur] = 0
  <2>1. Sp(cur) = thread[cur].ustack
    BY <1>1 DEF AtHome, Sp
  <2> QED BY <2>1, <1>2, AtBottom DEF Inv, Witness
<1>8. Unreaped' = Unreaped /\ \A t \in Unreaped : Sp(t)' = Sp(t)
  BY <1>1 DEF Unreaped, Sp
<1>9. ProcTyped'
  <2>1. astray' \in BOOLEAN
    BY Zenon DEF ExecDrop
  <2> QED BY <2>1, <1>1, <1>2, <1>5, <1>6 DEF Inv, ProcTyped
<1>10. SlotsInv'
  BY <1>1, <1>5, <1>8, SlotsSame DEF Inv
<1>11. ImageInv'
  <2>1. thread[cur].elr = Mem /\ execing = {}
    BY <1>2 DEF ImageInUse
  <2>2. ImageGone'
    BY <2>1, <1>1, <1>5, <1>6, <1>8 DEF ImageGone, AtHome
  <2> QED BY <2>2, <1>5 DEF ImageInv
<1>12. SignalsInv'
  <2>1. Framed' = Framed /\ Signalled' = Signalled
    BY <1>1 DEF Framed, Signalled
  <2> QED BY <2>1, <1>1, <1>8, SignalsFewer DEF Inv, SignalsInv
<1>13. BeforeRun'
  BY <1>1, <1>2, ProcessesAssumption DEF BeforeRun, User, Systemd
<1>14. StacksInv(st, n)'
  <2>1. (Image \notin slots)'
    BY <1>5
  <2>2. StacksLead(st, n)'
    BY <1>1, <1>8 DEF Inv, StacksInv, StacksLead
  <2>3. BlocksApart(st, n)'
    BY <2>1, <1>1, <1>8 DEF Inv, StacksInv, BlocksApart
  <2>4. HeldExactly(st, n)'
    <3>1. \A b : (\E t \in Unreaped : \/ b = thread[t].kstack
                                      \/ \E i \in 0 .. n[t] : b = st[t][i]) => b # Mem
      BY <1>2 DEF Inv, StacksInv, BlocksApart
    <3> QED BY <3>1, <2>1, <1>1, <1>5, <1>8 DEF Inv, StacksInv, HeldExactly
  <2>5. NoHandlers(n)'
    BY <1>1, <1>7, <1>8 DEF NoHandlers
  <2> QED BY <2>2, <2>3, <2>4, <2>5 DEF StacksInv
<1>15. Witness(st, n)'
  BY DEF Inv, Witness
<1>16. Inv(st, n)'
  BY <1>9, <1>10, <1>11, <1>12, <1>13, <1>14, <1>15 DEF Inv
<1> QED BY <1>16 DEF Accounted

\* load_program gets the object and a block for the new image.
LEMMA ExecLoadInv ==
  ASSUME NEW st, NEW n, Inv(st, n), ExecLoad
  PROVE  Accounted'
<1>1. PICK s \in Slot, m \in Block :
          /\ TakesSlot(s, slots) /\ Grants(m, held)
          /\ region' = [region EXCEPT ![s] = [count |-> 1, mem |-> m]]
          /\ slots' = slots \cup {s}
          /\ held' = held \cup {m}
          /\ thread' = [thread EXCEPT ![cur].elr = m]
  BY DEF ExecLoad
<1>2. /\ cur \in execing /\ sp_el0' = thread[cur].user_sp
      /\ execing' = execing \ {cur}
      /\ UNCHANGED <<cur, back, frame, astray>>
  BY DEF ExecLoad
<1>3. cur \in User /\ thread[cur].life = "alive" /\ cur \in Unreaped
  BY <1>2 DEF Inv, ProcTyped, Unreaped
<1>4. Image \notin slots /\ ImageGone
  BY <1>2 DEF Inv, ImageInv, ImageInUse
<1>5. Unreaped = {cur} /\ execing = {cur} /\ thread[cur].user_sp = thread[cur].ustack
      /\ thread[cur].handler = Nowhere
  BY <1>2, <1>3, <1>4 DEF ImageGone
<1>6. s = Image /\ Image \in Slot
  <2>1. BootSlot \subseteq slots
    BY DEF Inv, SlotsInv
  <2> QED BY <2>1, <1>1, <1>4, SlotTaken
<1>7. /\ thread' \in [User -> ThreadRecord]
      /\ \A v \in User :
            /\ thread'[v].prog = thread[v].prog /\ thread'[v].excepts = thread[v].excepts
            /\ thread'[v].ustack = thread[v].ustack /\ thread'[v].kstack = thread[v].kstack
            /\ thread'[v].user_sp = thread[v].user_sp /\ thread'[v].life = thread[v].life
            /\ thread'[v].handler = thread[v].handler
            /\ thread'[v].last_signal = thread[v].last_signal
            /\ thread'[v].elr = IF v = cur THEN m ELSE thread[v].elr
  <2>1. thread \in [User -> ThreadRecord]
    BY DEF Inv, ProcTyped
  <2> QED BY <1>1, <1>3, <2>1 DEF ThreadRecord
<1>8. Unreaped' = Unreaped /\ Signalled' = Signalled
  BY <1>7 DEF Unreaped, Signalled
<1>9. n[cur] = 0 /\ Sp(cur) = thread[cur].ustack /\ Sp(cur)' = thread[cur].ustack
  <2>1. n[cur] = 0
    BY <1>3, <1>4 DEF Inv, StacksInv, NoHandlers
  <2> QED BY <2>1, <1>2, <1>3, <1>5, AtBottom DEF Inv, Witness, Sp
<1>10. /\ region' \in [Slot -> [count : 0 .. CountMod - 1, mem : Block \cup {Nowhere}]]
       /\ region'[Image].count = 1 /\ Mem' = m
  BY <1>1, <1>6, ProcessesAssumption DEF Inv, ProcTyped, Mem
<1>11. ProcTyped'
  <2>1. sp_el0' \in Block \cup {Nowhere}
    BY <1>2, <1>3 DEF Inv, ProcTyped, ThreadRecord
  <2> QED BY <2>1, <1>1, <1>2, <1>3, <1>7, <1>10 DEF Inv, ProcTyped
<1>12. SlotsInv'
  <2>1. \A v \in Unreaped : v \in User
    BY DEF Unreaped
  <2> QED BY <2>1, <1>1, <1>6, <1>7, <1>8, SlotsSame DEF Inv
<1>13. \A b \in Block : frame[b] = NoFrame
  <2>1. \A i : i \notin 1 .. n[cur]
    BY <1>9
  <2> QED BY <2>1, <1>5 DEF Inv, StacksInv, StacksLead
<1>14. ImageInv'
  <2>1. Cardinality(Unreaped') = 1
    BY <1>5, <1>8, FS_Singleton
  <2>2. ImageInUse'
    BY <2>1, <1>1, <1>2, <1>3, <1>5, <1>7, <1>8, <1>10, <1>13 DEF ImageInUse
  <2> QED BY <2>2, <1>1, <1>6 DEF ImageInv
<1>15. SignalsInv'
  <2>1. Framed' = Framed
    BY <1>2 DEF Framed
  <2>2. \A v \in Unreaped : v \in User
    BY DEF Unreaped
  <2> QED BY <2>1, <2>2, <1>7, <1>8, SignalsFewer DEF Inv, SignalsInv
<1>16. BeforeRun'
  BY <1>2, <1>3, ProcessesAssumption DEF BeforeRun, User, Systemd
<1>17. StacksInv(st, n)'
  <2>1. (Image \in slots)' /\ m \notin held /\ m \in Block
    BY <1>1, <1>6 DEF Grants
  <2>2. StacksLead(st, n)'
    BY <1>2, <1>3, <1>5, <1>7, <1>8, <1>9 DEF Inv, StacksInv, StacksLead
  <2>3. \A b \in Block : b \in held <=> \/ b = thread[cur].kstack
                                        \/ \E i \in 0 .. n[cur] : b = st[cur][i]
    BY <1>4, <1>5 DEF Inv, StacksInv, HeldExactly
  <2>4. BlocksApart(st, n)'
    BY <2>1, <2>3, <1>3, <1>5, <1>7, <1>8, <1>10 DEF Inv, StacksInv, BlocksApart
  <2>5. HeldExactly(st, n)'
    <3>1. held \subseteq Block
      BY DEF Inv, ProcTyped
    <3> QED BY <3>1, <2>1, <2>3, <1>1, <1>3, <1>5, <1>7, <1>8, <1>10 DEF HeldExactly
  <2>6. NoHandlers(n)'
    BY <1>5, <1>8, <1>9 DEF NoHandlers
  <2> QED BY <2>2, <2>4, <2>5, <2>6 DEF StacksInv
<1>18. Witness(st, n)'
  BY DEF Inv, Witness
<1>19. Inv(st, n)'
  BY <1>11, <1>12, <1>14, <1>15, <1>16, <1>17, <1>18 DEF Inv
<1> QED BY <1>19 DEF Accounted

\* handle_signal puts a page on top of the thread's stacks.
LEMMA DeliverInv ==
  ASSUME NEW st, NEW n, Inv(st, n), Deliver
  PROVE  Accounted'
<1>1. PICK b \in Block :
          /\ Grants(b, held)
          /\ held' = held \cup {b}
          /\ frame' = [frame EXCEPT ![b] = [sp |-> sp_el0, elr |-> thread[cur].elr]]
          /\ sp_el0' = b
  BY DEF Deliver
<1>2. /\ cur \in User /\ thread[cur].last_signal = "user"
      /\ thread' = [thread EXCEPT ![cur].last_signal = "none",
                                  ![cur].elr = thread[cur].handler]
      /\ back' = FALSE
      /\ UNCHANGED <<cur, execing, slots, region, astray>>
  BY DEF Deliver
<1>3. thread[cur].life = "alive" /\ cur \in Unreaped /\ \A v \in Unreaped : v \in User
  BY <1>2 DEF Inv, ProcTyped, Unreaped
<1>4. thread[cur].handler # Nowhere
  BY <1>2, <1>3 DEF Inv, SignalsInv
<1>5. Image \in slots /\ ImageInUse /\ thread[cur].elr = Mem /\ thread[cur].handler = Mem
      /\ Mem \in Block
  BY <1>3, <1>4 DEF Inv, ImageInv, ImageInUse, ImageGone
<1>6. b \in Block \ held
  BY <1>1 DEF Grants
<1>7. sp_el0 = Sp(cur) /\ sp_el0 \in Block /\ sp_el0 = st[cur][n[cur]] /\ n[cur] \in Nat
  BY <1>3, AtBottom DEF Sp, Inv, Witness
<1>8. /\ thread' \in [User -> ThreadRecord]
      /\ \A v \in User :
            /\ thread'[v].prog = thread[v].prog /\ thread'[v].excepts = thread[v].excepts
            /\ thread'[v].ustack = thread[v].ustack /\ thread'[v].kstack = thread[v].kstack
            /\ thread'[v].user_sp = thread[v].user_sp /\ thread'[v].life = thread[v].life
            /\ thread'[v].handler = thread[v].handler
            /\ thread'[v].elr = thread[v].elr
            /\ thread'[v].last_signal = IF v = cur THEN "none" ELSE thread[v].last_signal
  <2>1. thread \in [User -> ThreadRecord]
    BY DEF Inv, ProcTyped
  <2> DEFINE r == [thread[cur] EXCEPT !.last_signal = "none", !.elr = thread[cur].handler]
  <2>2. thread' = [thread EXCEPT ![cur] = r]
    BY <1>2, <2>1
  <2>3. thread[cur] \in ThreadRecord
    BY <1>2, <2>1
  <2>4. /\ r.prog = thread[cur].prog /\ r.excepts = thread[cur].excepts
        /\ r.ustack = thread[cur].ustack /\ r.kstack = thread[cur].kstack
        /\ r.user_sp = thread[cur].user_sp /\ r.handler = thread[cur].handler
        /\ r.life = thread[cur].life /\ r.last_signal = "none" /\ r.elr = thread[cur].elr
        /\ r \in ThreadRecord
    BY <1>5, <2>3, ZenonT(40) DEF ThreadRecord
  <2> HIDE DEF r
  <2> QED BY <1>2, <2>1, <2>2, <2>4
<1>9. /\ Unreaped' = Unreaped
      /\ Signalled' = Signalled \ {cur} /\ cur \in Signalled
  BY <1>2, <1>8 DEF Unreaped, Signalled
<1>10. frame[b] = NoFrame
  BY <1>6 DEF Inv, StacksInv, StacksLead, HeldExactly
<1>11. /\ frame' \in [Block -> [sp : Block \cup {Nowhere}, elr : Block \cup {Nowhere}]]
       /\ frame'[b].sp = sp_el0 /\ frame'[b].elr = Mem /\ frame'[b] # NoFrame
       /\ \A c \in Block : c # b => frame'[c] = frame[c]
  <2>1. sp_el0 # Nowhere
    BY <1>7 DEF Block, Nowhere
  <2>2. frame' = [frame EXCEPT ![b] = [sp |-> sp_el0, elr |-> Mem]]
    BY <1>1, <1>5
  <2>3. [sp |-> sp_el0, elr |-> Mem] # NoFrame
    BY <2>1 DEF NoFrame
  <2> QED BY <2>2, <2>3, <1>5, <1>6, <1>7 DEF Inv, ProcTyped
<1>12. Framed' = Framed \cup {b} /\ b \notin Framed
  BY <1>6, <1>10, <1>11 DEF Framed
<1>13. /\ \A v \in Unreaped : v = cur => Sp(v)' = b
       /\ \A v \in Unreaped : v # cur => Sp(v)' = Sp(v)
  BY <1>1, <1>2, <1>3, <1>8 DEF Sp
<1>14. ProcTyped'
  BY <1>1, <1>2, <1>3, <1>8, <1>11 DEF Inv, ProcTyped
<1>15. SlotsInv'
  BY <1>2, <1>3, <1>8, <1>9, SlotsSame DEF Inv
<1>16. ImageInv'
  <2>1. ImageInUse'
    BY <1>2, <1>3, <1>5, <1>8, <1>9, <1>11 DEF ImageInUse, Mem
  <2> QED BY <2>1, <1>2, <1>5 DEF ImageInv
<1>17. SignalsInv'
  <2>1. \A v \in Unreaped' : thread'[v].last_signal = "user" => thread'[v].handler # Nowhere
    BY <1>3, <1>8, <1>9 DEF Inv, SignalsInv
  <2>2. IsFiniteSet(Framed) /\ IsFiniteSet(Signalled)
    BY Finiteness DEF Framed, Signalled
  <2>3. Cardinality(Framed') = Cardinality(Framed) + 1
    BY <2>2, <1>12, FS_AddElement
  <2>4. Cardinality(Signalled') = Cardinality(Signalled) - 1
    BY <2>2, <1>9, FS_RemoveElement
  <2>5. Cardinality(Framed) \in Nat /\ Cardinality(Signalled) \in Nat
    BY <2>2, FS_CardinalityType
  <2>6. Cardinality(Framed) + Cardinality(Signalled) <= MaxFrames
    BY DEF Inv, SignalsInv, Framed, Signalled
  <2>7. Cardinality(Framed') + Cardinality(Signalled') <= MaxFrames
    <3> HIDE DEF Framed, Signalled
    <3> QED BY <2>3, <2>4, <2>5, <2>6
  <2> QED BY <2>1, <2>7 DEF SignalsInv, Framed, Signalled
<1>18. BeforeRun'
  BY <1>2, ProcessesAssumption DEF BeforeRun, User, Systemd
<1>a. PICK top, st2, n2 : /\ top = n[cur] + 1
                          /\ st2 = [st EXCEPT ![cur] = [st[cur] EXCEPT ![top] = b]]
                          /\ n2 = [n EXCEPT ![cur] = top]
  OBVIOUS
<1>19. Witness(st2, n2)'
  BY <1>a, <1>2, <1>7 DEF Inv, Witness
<1>20. /\ top \in Nat \ {0} /\ n2[cur] = top /\ st2[cur][top] = b
       /\ \A i \in 0 .. n[cur] : st2[cur][i] = st[cur][i] /\ i # top /\ i \in 0 .. top
       /\ \A i \in 0 .. top : i = top \/ i \in 0 .. n[cur]
       /\ \A v \in Unreaped : v # cur => st2[v] = st[v] /\ n2[v] = n[v]
  BY <1>a, <1>2, <1>3, <1>7 DEF Inv, Witness
<1>21. top - 1 = n[cur]
  BY <1>a, <1>7
<1>22. \A v \in Unreaped : /\ thread[v].kstack \in held
                           /\ \A i \in 0 .. n[v] : st[v][i] \in held
  BY DEF Inv, StacksInv, HeldExactly, BlocksApart
<1>23. Mem' = Mem /\ Mem \in held
  BY <1>2, <1>5 DEF Mem, Inv, StacksInv, HeldExactly
<1>24. \A v \in Unreaped : \A i \in 1 .. n[v] : i \in 0 .. n[v] /\ i - 1 \in 0 .. n[v]
                                               /\ st[v][i] # b
  BY <1>3, <1>6, <1>22 DEF Inv, Witness
<1>25. StacksLead(st2, n2)'
  <2>1. ASSUME NEW v \in Unreaped
        PROVE  /\ st2[v][0] = thread'[v].ustack
               /\ st2[v][n2[v]] = Sp(v)'
               /\ \A i \in 1 .. n2[v] : frame'[st2[v][i]].sp = st2[v][i - 1]
    <3>1. /\ st[v][0] = thread[v].ustack /\ st[v][n[v]] = Sp(v)
          /\ \A i \in 1 .. n[v] : frame[st[v][i]].sp = st[v][i - 1]
      BY DEF Inv, StacksInv, StacksLead
    <3>2. \A i \in 1 .. n[v] : frame'[st[v][i]] = frame[st[v][i]]
      BY <1>11, <1>24 DEF Inv, StacksInv, BlocksApart
    <3>3. CASE v # cur
      BY <3>1, <3>2, <3>3, <1>3, <1>8, <1>13, <1>20
    <3>4. CASE v = cur
      <4>1. 0 \in 0 .. n[cur]
        BY <1>7
      <4>2. ASSUME NEW i \in 1 .. top
            PROVE  frame'[st2[cur][i]].sp = st2[cur][i - 1]
        <5>1. CASE i = top
          BY <5>1, <1>7, <1>11, <1>20, <1>21
        <5>2. CASE i # top
          <6>1. i \in 1 .. n[cur]
            BY <5>2, <1>a, <1>7
          <6> QED BY <6>1, <3>1, <3>2, <3>4, <1>3, <1>20, <1>24
        <5> QED BY <5>1, <5>2
      <4>3. st2[cur][0] = thread'[cur].ustack
        BY <4>1, <3>1, <3>4, <1>3, <1>8, <1>20
      <4>4. st2[v][n2[v]] = Sp(v)'
        BY <3>4, <1>13, <1>20
      <4> QED BY <4>2, <4>3, <4>4, <3>4, <1>20
    <3> QED BY <3>3, <3>4
  <2>2. ASSUME NEW c \in Block
        PROVE  frame'[c] # NoFrame <=> \E v \in Unreaped : \E i \in 1 .. n2[v] : c = st2[v][i]
    <3>1. frame[c] # NoFrame <=> \E v \in Unreaped : \E i \in 1 .. n[v] : c = st[v][i]
      BY DEF Inv, StacksInv, StacksLead
    <3>2. \A v \in Unreaped : \A i \in 1 .. n[v] : i \in 1 .. n2[v] /\ st2[v][i] = st[v][i]
      BY <1>3, <1>20, <1>7, <1>24
    <3>3. \A v \in Unreaped : \A i \in 1 .. n2[v] :
              (v = cur /\ i = top) \/ (i \in 1 .. n[v] /\ st2[v][i] = st[v][i])
      BY <1>20, <1>7, <3>2
    <3>4. top \in 1 .. n2[cur] /\ st2[cur][top] = b
      BY <1>20
    <3>5. CASE c = b
      BY <3>5, <3>4, <1>3, <1>11
    <3>6. CASE c # b
      <4>1. frame'[c] = frame[c]
        BY <3>6, <1>11
      <4> QED BY <4>1, <3>1, <3>2, <3>3, <3>4, <3>6
    <3> QED BY <3>5, <3>6
  <2> QED BY <2>1, <2>2, <1>9 DEF StacksLead
<1>26. \A v \in Unreaped : \A i \in 0 .. n2[v] :
          (v = cur /\ i = top /\ st2[v][i] = b) \/ (i \in 0 .. n[v] /\ st2[v][i] = st[v][i])
  BY <1>20
<1>27. \A v \in Unreaped : \A i \in 0 .. n[v] : i \in 0 .. n2[v] /\ st2[v][i] = st[v][i]
  BY <1>20
<1>28. BlocksApart(st2, n2)'
  <2>1. BlocksApart(st, n)
    BY DEF Inv, StacksInv
  <2>2. \A v \in Unreaped : thread'[v].kstack = thread[v].kstack
    BY <1>3, <1>8
  <2>3. ASSUME NEW v \in Unreaped, NEW i \in 0 .. n2[v]
        PROVE  /\ st2[v][i] \in Block
               /\ \A u \in Unreaped : /\ st2[v][i] # thread[u].kstack
                                      /\ \A j \in 0 .. n2[u] : st2[v][i] = st2[u][j] => v = u /\ i = j
               /\ st2[v][i] # Mem
    BY <2>1, <1>5, <1>6, <1>22, <1>23, <1>26 DEF BlocksApart
  <2>4. \A v \in Unreaped' : \A i \in 0 .. n2[v] :
          /\ st2[v][i] \in Block
          /\ \A u \in Unreaped' : /\ st2[v][i] # thread'[u].kstack
                                  /\ \A j \in 0 .. n2[u] : st2[v][i] = st2[u][j] => v = u /\ i = j
          /\ st2[v][i] # Mem'
    BY <2>2, <2>3, <1>9, <1>23
  <2>5. \A v \in Unreaped' :
          /\ thread'[v].kstack \in Block /\ thread'[v].kstack # Mem'
          /\ \A u \in Unreaped' : thread'[v].kstack = thread'[u].kstack => v = u
    BY <2>1, <2>2, <1>5, <1>9, <1>23 DEF BlocksApart
  <2> QED BY <2>4, <2>5 DEF BlocksApart
<1>29. HeldExactly(st2, n2)'
  <2>1. \A c : c \in held <=> c \in Block /\ (\/ c = Mem
              \/ \E v \in Unreaped : \/ c = thread[v].kstack
                                     \/ \E i \in 0 .. n[v] : c = st[v][i])
    BY <1>5 DEF Inv, StacksInv, HeldExactly
  <2> DEFINE OfOld(c) == \E v \in Unreaped : \/ c = thread[v].kstack
                                             \/ \E i \in 0 .. n[v] : c = st[v][i]
             OfNew(c) == \E v \in Unreaped' : \/ c = thread'[v].kstack
                                              \/ \E i \in 0 .. n2[v] : c = st2[v][i]
  <2>2. \A c : OfOld(c) => OfNew(c)
    BY <1>3, <1>8, <1>9, <1>27
  <2>3. OfNew(b)
    <3>1. cur \in Unreaped' /\ top \in 0 .. n2[cur] /\ st2[cur][top] = b
      BY <1>3, <1>9, <1>20
    <3> QED BY <3>1
  <2>4. \A c : OfNew(c) => OfOld(c) \/ c = b
    BY <1>3, <1>8, <1>9, <1>26
  <2>5. \A c : c \in held <=> c \in Block /\ (c = Mem \/ OfOld(c))
    BY <2>1
  <2> HIDE DEF OfOld, OfNew
  <2>6. held' = {c \in Block : ((Image \in slots)' /\ c = Mem') \/ OfNew(c)}
    BY <2>2, <2>3, <2>4, <2>5, <1>1, <1>2, <1>5, <1>6, <1>23
  <2> QED BY <2>6 DEF HeldExactly, OfNew
<1>30. NoHandlers(n2)'
  BY <1>2, <1>3, <1>5, <1>8, <1>9, <1>20 DEF NoHandlers, Inv, StacksInv
<1>31. Inv(st2, n2)'
  BY <1>14, <1>15, <1>16, <1>17, <1>18, <1>19, <1>25, <1>28, <1>29, <1>30 DEF Inv, StacksInv
<1> QED BY <1>31 DEF Accounted

\* sigreturn_s takes it off.
LEMMA SigReturnInv ==
  ASSUME NEW st, NEW n, Inv(st, n), SigReturn
  PROVE  Accounted'
<1>1. /\ UserCode /\ Sp(cur) # thread[cur].ustack
      /\ held' = held \ {sp_el0}
      /\ sp_el0' = frame[sp_el0].sp
      /\ thread' = [thread EXCEPT ![cur].elr = frame[sp_el0].elr]
      /\ frame' = [frame EXCEPT ![sp_el0] = NoFrame]
      /\ UNCHANGED <<cur, back, execing, slots, region, astray>>
  BY DEF SigReturn, InHandler
<1>2. /\ Image \in slots /\ ImageInUse /\ cur \in Unreaped /\ cur \in User
      /\ thread[cur].life = "alive" /\ \A v \in Unreaped : v \in User
  BY <1>1, CodeHasImage DEF Unreaped
<1>a. PICK top, b, below :
         top = n[cur] /\ b = st[cur][top] /\ below = st[cur][top - 1]
  OBVIOUS
<1>3. sp_el0 = Sp(cur) /\ sp_el0 = b /\ b \in Block /\ top \in Nat \ {0}
  BY <1>a, <1>1, <1>2, AtBottom DEF Sp, Inv, Witness
<1>4. /\ top \in 1 .. n[cur] /\ top \in 0 .. n[cur] /\ top - 1 \in 0 .. n[cur]
      /\ top - 1 \in Nat
  BY <1>a, <1>3
<1>5. frame[b].sp = below /\ frame[b] # NoFrame /\ below \in Block
  BY <1>a, <1>2, <1>3, <1>4 DEF Inv, StacksInv, StacksLead, BlocksApart
<1>6. frame[b].elr = Mem /\ thread[cur].elr = Mem /\ Mem \in Block
  BY <1>2, <1>3, <1>5 DEF ImageInUse
<1>7. /\ sp_el0' = below /\ held' = held \ {b}
      /\ thread' = [thread EXCEPT ![cur].elr = Mem]
      /\ frame' = [frame EXCEPT ![b] = NoFrame]
  BY <1>1, <1>3, <1>5, <1>6
<1>8. /\ thread' \in [User -> ThreadRecord]
      /\ \A v \in User :
            /\ thread'[v].prog = thread[v].prog /\ thread'[v].excepts = thread[v].excepts
            /\ thread'[v].ustack = thread[v].ustack /\ thread'[v].kstack = thread[v].kstack
            /\ thread'[v].user_sp = thread[v].user_sp /\ thread'[v].life = thread[v].life
            /\ thread'[v].handler = thread[v].handler
            /\ thread'[v].elr = thread[v].elr
            /\ thread'[v].last_signal = thread[v].last_signal
  <2>1. thread \in [User -> ThreadRecord]
    BY DEF Inv, ProcTyped
  <2> QED BY <2>1, <1>2, <1>6, <1>7 DEF ThreadRecord
<1>9. Unreaped' = Unreaped /\ Signalled' = Signalled
  BY <1>8 DEF Unreaped, Signalled
<1>10. /\ frame' \in [Block -> [sp : Block \cup {Nowhere}, elr : Block \cup {Nowhere}]]
       /\ \A c \in Block : frame'[c] = IF c = b THEN NoFrame ELSE frame[c]
  <2>1. frame \in [Block -> [sp : Block \cup {Nowhere}, elr : Block \cup {Nowhere}]]
    BY DEF Inv, ProcTyped
  <2>2. NoFrame \in [sp : Block \cup {Nowhere}, elr : Block \cup {Nowhere}]
    BY DEF NoFrame
  <2> QED BY <2>1, <2>2, <1>3, <1>7
<1>11. \A v \in Unreaped : Sp(v)' = IF v = cur THEN below ELSE Sp(v)
  BY <1>1, <1>2, <1>7, <1>8 DEF Sp
<1>12. ProcTyped'
  BY <1>1, <1>2, <1>5, <1>7, <1>8, <1>10 DEF Inv, ProcTyped
<1>13. SlotsInv'
  BY <1>1, <1>2, <1>8, <1>9, SlotsSame DEF Inv
<1>14. ImageInv'
  <2>1. ImageInUse'
    BY <1>1, <1>2, <1>8, <1>9, <1>10 DEF ImageInUse, Mem
  <2> QED BY <2>1, <1>1, <1>2 DEF ImageInv
<1>15. SignalsInv'
  <2>1. Framed' \subseteq Framed
    BY <1>10 DEF Framed
  <2> QED BY <2>1, <1>2, <1>8, <1>9, SignalsFewer DEF Inv, SignalsInv
<1>16. BeforeRun'
  BY <1>1, <1>2, ProcessesAssumption DEF BeforeRun, User, Systemd
<1>b. PICK n2 : n2 = [n EXCEPT ![cur] = top - 1]
  OBVIOUS
<1>17. Witness(st, n2)'
  BY <1>b, <1>2, <1>4 DEF Inv, Witness
<1>18. /\ n2[cur] = top - 1 /\ n[cur] = top
       /\ \A v \in Unreaped : v # cur => n2[v] = n[v]
  BY <1>a, <1>b, <1>2 DEF Inv, Witness
<1>19. /\ \A v \in Unreaped : \A i \in 0 .. n2[v] : i \in 0 .. n[v] /\ (v = cur => i # top)
       /\ \A v \in Unreaped : \A i \in 1 .. n2[v] : i \in 1 .. n[v]
       /\ \A v \in Unreaped : \A i \in 0 .. n[v] : (v = cur /\ i = top) \/ i \in 0 .. n2[v]
       /\ \A v \in Unreaped : \A i \in 1 .. n[v] : (v = cur /\ i = top) \/ i \in 1 .. n2[v]
  BY <1>3, <1>18
<1>20. BlocksApart(st, n)
  BY DEF Inv, StacksInv
<1>21. \A v \in Unreaped : /\ thread[v].kstack # b
                           /\ \A i \in 0 .. n2[v] : st[v][i] # b
  BY <1>a, <1>2, <1>3, <1>4, <1>19, <1>20 DEF BlocksApart
<1>22. Mem' = Mem /\ b # Mem
  BY <1>a, <1>1, <1>2, <1>3, <1>4, <1>20 DEF Mem, BlocksApart
<1>23. StacksLead(st, n2)'
  <2>1. ASSUME NEW v \in Unreaped
        PROVE  /\ st[v][0] = thread'[v].ustack
               /\ st[v][n2[v]] = Sp(v)'
               /\ \A i \in 1 .. n2[v] : frame'[st[v][i]].sp = st[v][i - 1]
    <3>1. /\ st[v][0] = thread[v].ustack /\ st[v][n[v]] = Sp(v)
          /\ \A i \in 1 .. n[v] : frame[st[v][i]].sp = st[v][i - 1]
      BY DEF Inv, StacksInv, StacksLead
    <3>2. \A i \in 1 .. n2[v] : frame'[st[v][i]] = frame[st[v][i]]
      <4> SUFFICES ASSUME NEW i \in 1 .. n2[v] PROVE frame'[st[v][i]] = frame[st[v][i]]
        OBVIOUS
      <4>1. i \in 0 .. n2[v] /\ i \in 0 .. n[v]
        BY <1>18, <1>19, <1>4 DEF Inv, Witness
      <4> QED BY <4>1, <1>10, <1>20, <1>21 DEF BlocksApart
    <3>3. st[v][n2[v]] = Sp(v)'
      <4>1. CASE v = cur
        BY <4>1, <1>a, <1>11, <1>18
      <4>2. CASE v # cur
        BY <4>2, <3>1, <1>11, <1>18
      <4> QED BY <4>1, <4>2
    <3> QED BY <3>1, <3>2, <3>3, <1>2, <1>8, <1>19
  <2>2. ASSUME NEW c \in Block
        PROVE  frame'[c] # NoFrame <=> \E v \in Unreaped : \E i \in 1 .. n2[v] : c = st[v][i]
    <3>1. frame[c] # NoFrame <=> \E v \in Unreaped : \E i \in 1 .. n[v] : c = st[v][i]
      BY DEF Inv, StacksInv, StacksLead
    <3>2. \A v \in Unreaped : \A i \in 1 .. n2[v] : st[v][i] # b
      BY <1>21, <1>18, <1>4 DEF Inv, Witness
    <3>3. CASE c = b
      BY <3>3, <3>2, <1>10
    <3>4. CASE c # b
      <4>1. frame'[c] = frame[c]
        BY <3>4, <1>10
      <4> QED BY <1>a, <4>1, <3>1, <3>4, <1>19
    <3> QED BY <3>3, <3>4
  <2> QED BY <2>1, <2>2, <1>9 DEF StacksLead
<1>24. BlocksApart(st, n2)'
  <2>1. \A v \in Unreaped : thread'[v].kstack = thread[v].kstack
    BY <1>2, <1>8
  <2> QED BY <2>1, <1>1, <1>9, <1>19, <1>20, <1>22 DEF BlocksApart
<1>25. HeldExactly(st, n2)'
  <2> DEFINE OfOld(c) == \E v \in Unreaped : \/ c = thread[v].kstack
                                             \/ \E i \in 0 .. n[v] : c = st[v][i]
             OfNew(c) == \E v \in Unreaped' : \/ c = thread'[v].kstack
                                              \/ \E i \in 0 .. n2[v] : c = st[v][i]
  <2>1. \A c : c \in held <=> c \in Block /\ (c = Mem \/ OfOld(c))
    BY <1>2 DEF Inv, StacksInv, HeldExactly
  <2>2. \A c : OfNew(c) => OfOld(c) /\ c # b
    BY <1>2, <1>8, <1>9, <1>19, <1>21
  <2>3. \A c : OfOld(c) => OfNew(c) \/ c = b
    BY <1>a, <1>2, <1>8, <1>9, <1>19
  <2> HIDE DEF OfOld, OfNew
  <2>4. held' = {c \in Block : ((Image \in slots)' /\ c = Mem') \/ OfNew(c)}
    BY <2>1, <2>2, <2>3, <1>1, <1>2, <1>7, <1>22
  <2> QED BY <2>4 DEF HeldExactly, OfNew
<1>26. NoHandlers(n2)'
  <2>1. \A v \in Unreaped : n[v] = 0 => n2[v] = 0
    BY <1>3, <1>18
  <2> QED BY <2>1, <1>1, <1>2, <1>8, <1>9 DEF NoHandlers, Inv, StacksInv
<1>27. Inv(st, n2)'
  BY <1>12, <1>13, <1>14, <1>15, <1>16, <1>17, <1>23, <1>24, <1>25, <1>26 DEF Inv, StacksInv
<1> QED BY <1>27 DEF Accounted

\* kill_zombies: the thread's stacks and its workload go, with the last thread
\* the image.
LEMMA ReapInv ==
  ASSUME NEW st, NEW n, Inv(st, n), NEW t \in User, Reap(t), ~ astray'
  PROVE  Accounted'
<1>1. /\ cur = Idle /\ thread[t].life = "dead"
      /\ region' = RcFreed(thread[t].prog)
      /\ held' = held \ (FreedBlocks(thread[t].prog) \cup {thread[t].ustack}
                         \cup {thread[t].kstack})
      /\ slots' = slots \ (FreedSlots(thread[t].prog) \cup {thread[t].excepts})
      /\ thread' = [thread EXCEPT ![t] = [NoThread EXCEPT !.life = "reaped"]]
      /\ UNCHANGED <<cur, sp_el0, back, execing, frame>>
      /\ ~ astray'
  <2>1. RoundedStack(t) = {{thread[t].ustack}}
    BY DEF Reap, ReapFreeing, RoundedStack
  <2> QED BY <2>1 DEF Reap, ReapFreeing
<1>2. t \in Unreaped /\ thread[t].prog = Image /\ Image \in Slot
  <2>1. t \in Unreaped
    BY <1>1 DEF Unreaped
  <2> QED BY <2>1, ProcessesAssumption DEF Inv, SlotsInv, Image, Slot
<1>3. cur \notin User
  BY <1>1, ProcessesAssumption DEF Idle, User
<1>4. n[t] = 0 /\ thread[t].user_sp = thread[t].ustack /\ st[t][0] = thread[t].ustack
  <2>1. thread[t].user_sp = thread[t].ustack
    BY DEF Reap, ReapFreeing
  <2> QED BY <2>1, <1>2, <1>3, AtBottom DEF Inv, Witness, Sp, StacksInv, StacksLead
<1>5. held' = held \ (FreedBlocks(Image) \cup {thread[t].ustack, thread[t].kstack})
  BY <1>1, <1>2
<1>6. /\ thread' \in [User -> ThreadRecord] /\ thread'[t].life = "reaped"
      /\ thread'[t].last_signal = "none"
      /\ \A v \in User : v # t => thread'[v] = thread[v]
  <2>1. thread \in [User -> ThreadRecord]
    BY DEF Inv, ProcTyped
  <2> DEFINE r == [NoThread EXCEPT !.life = "reaped"]
  <2>2. r \in ThreadRecord /\ r.life = "reaped" /\ r.last_signal = "none"
    BY DEF NoThread, ThreadRecord
  <2> HIDE DEF r
  <2>3. thread' = [thread EXCEPT ![t] = r]
    BY <1>1 DEF r
  <2> QED BY <2>1, <2>2, <2>3
<1>7. /\ Unreaped' = Unreaped \ {t} /\ Signalled' \subseteq Signalled
      /\ \A v \in Unreaped' : v # t /\ v \in Unreaped /\ thread'[v] = thread[v] /\ Sp(v)' = Sp(v)
  <2>1. Unreaped' = Unreaped \ {t}
    BY <1>6 DEF Unreaped
  <2>2. Signalled' \subseteq Signalled
    BY <1>6 DEF Signalled
  <2>3. \A v \in Unreaped : v \in User
    BY DEF Unreaped
  <2> QED BY <2>1, <2>2, <2>3, <1>1, <1>6 DEF Sp
<1>8. /\ IsFiniteSet(Unreaped) /\ Cardinality(Unreaped) \in 1 .. MaxThreads
      /\ Cardinality(Unreaped') = Cardinality(Unreaped) - 1
      /\ Cardinality(Unreaped) = 1 <=> Unreaped' = {}
  <2>1. IsFiniteSet(Unreaped) /\ Cardinality(Unreaped) \in 0 .. MaxThreads
    BY Finiteness DEF Unreaped
  <2>2. IsFiniteSet(Unreaped') /\ Cardinality(Unreaped') = Cardinality(Unreaped) - 1
    BY <2>1, <1>2, <1>7, FS_RemoveElement
  <2>3. Cardinality(Unreaped') \in Nat /\ (Cardinality(Unreaped') = 0 <=> Unreaped' = {})
    BY <2>2, FS_CardinalityType, FS_EmptySet
  <2> QED BY <2>1, <2>2, <2>3
<1> DEFINE c == region[Image].count
<1>9. c \in 0 .. CountMod - 1 /\ Uncounted(Image) = (c - 1) % CountMod
  BY <1>2 DEF Inv, ProcTyped, Uncounted
<1>10. (c - 1) % CountMod = IF c = 0 THEN CountMod - 1 ELSE c - 1
  <2> HIDE DEF c
  <2>1. CASE c = 0
    <3>1. (0 - 1) % CountMod = CountMod - 1
      BY ProcessesAssumption
    <3> QED BY <2>1, <3>1
  <2>2. CASE c # 0
    BY <2>2, <1>9, ProcessesAssumption
  <2> QED BY <2>1, <2>2
<1>11. /\ region' \in [Slot -> [count : 0 .. CountMod - 1, mem : Block \cup {Nowhere}]]
       /\ region'[Image].count = Uncounted(Image) /\ region'[Image].mem = region[Image].mem
  <2>1. region' = [region EXCEPT ![Image].count = Uncounted(Image)]
    BY <1>1, <1>2 DEF RcFreed
  <2>2. Uncounted(Image) \in 0 .. CountMod - 1
    <3> HIDE DEF c
    <3> QED BY <1>9, <1>10, ProcessesAssumption
  <2> QED BY <2>1, <2>2, <1>2 DEF Inv, ProcTyped
<1> HIDE DEF c
<1>12. Mem' = Mem
  BY <1>11 DEF Mem
<1>13. ASSUME Unreaped' = {} PROVE SlotsInv' /\ ImageInv' /\ StacksInv(st, n)'
  \* The image, if there is one, was this thread's alone.
  <2>1. Image \in slots => Uncounted(Image) = 0
    <3>1. Image \in slots => c = 1
      BY <1>8, <1>13 DEF Inv, ImageInv, ImageInUse, c
    <3> QED BY <3>1, <1>9, <1>10
  <2>2. Unreaped = {t}
    BY <1>2, <1>7, <1>13
  <2>3. slots' = BootSlot
    <3>1. thread[t].excepts \notin BootSlot /\ Image \notin BootSlot
      BY <1>2 DEF Inv, SlotsInv, BootSlot, Image
    <3>2. slots \ {Image} = BootSlot \cup {thread[t].excepts}
      BY <2>2 DEF Inv, SlotsInv
    <3>3. CASE Image \in slots
      BY <3>1, <3>2, <3>3, <2>1, <1>1, <1>2 DEF FreedSlots
    <3>4. CASE Image \notin slots
      BY <3>1, <3>2, <3>4, <1>1, <1>2 DEF FreedSlots
    <3> QED BY <3>3, <3>4
  <2>4. held' = {}
    <3>1. held = {b \in Block : (Image \in slots /\ b = Mem)
                                \/ b = thread[t].kstack \/ b = thread[t].ustack}
      <4>1. \A i : i \in 0 .. n[t] <=> i = 0
        BY <1>4
      <4> QED BY <4>1, <2>2, <1>4 DEF Inv, StacksInv, HeldExactly
    <3>2. Image \in slots => Mem \in FreedBlocks(Image)
      BY <2>1 DEF FreedBlocks, Mem
    <3> QED BY <3>1, <3>2, <1>5
  <2>5. SlotsInv'
    BY <2>3, <1>13 DEF SlotsInv, BootSlot, Image
  <2>6. ImageInv'
    BY <2>3, <1>13 DEF ImageInv, ImageGone, BootSlot, Image
  <2>7. \A b \in Block : frame[b] = NoFrame
    <3>1. \A i : i \notin 1 .. n[t]
      BY <1>4
    <3> QED BY <3>1, <2>2 DEF Inv, StacksInv, StacksLead
  <2>8. StacksInv(st, n)'
    BY <2>3, <2>4, <2>7, <1>1, <1>13
    DEF StacksInv, StacksLead, BlocksApart, HeldExactly, NoHandlers, BootSlot, Image
  <2> QED BY <2>5, <2>6, <2>8
<1>14. ASSUME Unreaped' # {} PROVE SlotsInv' /\ ImageInv' /\ StacksInv(st, n)'
  <2>1. PICK u \in Unreaped : u # t
    BY <1>7, <1>14
  <2>2. Image \in slots /\ ImageInUse
    BY <2>1, <1>2 DEF Inv, ImageInv, ImageGone
  <2>3. c = Cardinality(Unreaped) /\ Cardinality(Unreaped) \in 2 .. MaxThreads
    BY <2>2, <1>8, <1>14 DEF ImageInUse, c
  <2>4. Uncounted(Image) = Cardinality(Unreaped') /\ Uncounted(Image) # 0
    BY <2>3, <1>8, <1>9, <1>10
  <2>5. /\ slots' = slots \ {thread[t].excepts}
        /\ held' = held \ {thread[t].ustack, thread[t].kstack}
    BY <2>4, <1>1, <1>2, <1>5 DEF FreedBlocks, FreedSlots
  <2>6. Image \in slots'
    BY <2>2, <2>5, <1>2 DEF Inv, SlotsInv
  <2>7. SlotsInv'
    <3>1. {thread'[v].excepts : v \in Unreaped'} =
             {thread[v].excepts : v \in Unreaped} \ {thread[t].excepts}
      BY <1>2, <1>7 DEF Inv, SlotsInv
    <3>2. thread[t].excepts \notin BootSlot
      BY <1>2 DEF Inv, SlotsInv
    <3>3. slots' \ {Image} = (slots \ {Image}) \ {thread[t].excepts}
      BY <2>5
    <3>4. slots' \ {Image} = BootSlot \cup {thread'[v].excepts : v \in Unreaped'}
      BY <3>1, <3>2, <3>3 DEF Inv, SlotsInv
    <3> QED BY <3>4, <1>7 DEF Inv, SlotsInv
  <2>8. ImageInv'
    <3>1. ImageInUse'
      BY <2>2, <2>4, <1>1, <1>7, <1>11, <1>12, <1>14 DEF ImageInUse
    <3> QED BY <3>1, <2>6 DEF ImageInv
  <2>9. StacksLead(st, n)'
    <3>1. \A v \in Unreaped' :
              /\ st[v][0] = thread'[v].ustack /\ st[v][n[v]] = Sp(v)'
              /\ \A i \in 1 .. n[v] : frame'[st[v][i]].sp = st[v][i - 1]
      BY <1>1, <1>7 DEF Inv, StacksInv, StacksLead
    <3>2. \A i : i \notin 1 .. n[t]
      BY <1>4
    <3>3. \A b \in Block : frame[b] # NoFrame
             <=> \E v \in Unreaped' : \E i \in 1 .. n[v] : b = st[v][i]
      BY <3>2, <1>7 DEF Inv, StacksInv, StacksLead
    <3> QED BY <3>1, <3>3, <1>1 DEF StacksLead
  <2>10. BlocksApart(st, n)'
    BY <2>2, <2>6, <1>7, <1>12 DEF Inv, StacksInv, BlocksApart
  <2>11. HeldExactly(st, n)'
    <3> DEFINE OfOld(b) == \E v \in Unreaped : \/ b = thread[v].kstack
                                               \/ \E i \in 0 .. n[v] : b = st[v][i]
               OfNew(b) == \E v \in Unreaped' : \/ b = thread'[v].kstack
                                                \/ \E i \in 0 .. n[v] : b = st[v][i]
    <3>1. \A b : b \in held <=> b \in Block /\ (b = Mem \/ OfOld(b))
      BY <2>2 DEF Inv, StacksInv, HeldExactly
    <3>2. \A b : OfOld(b) => OfNew(b) \/ b = thread[t].ustack \/ b = thread[t].kstack
      <4>1. \A i : i \in 0 .. n[t] => i = 0
        BY <1>4
      <4> QED BY <4>1, <1>4, <1>7
    <3>3. \A b : OfNew(b) => OfOld(b)
      BY <1>7
    <3>4. \A b : OfNew(b) => b # thread[t].ustack /\ b # thread[t].kstack
      <4>1. BlocksApart(st, n) /\ 0 \in 0 .. n[t]
        BY <1>4 DEF Inv, StacksInv
      <4> QED BY <4>1, <1>2, <1>4, <1>7 DEF BlocksApart
    <3>5. Mem # thread[t].ustack /\ Mem # thread[t].kstack
      <4>1. BlocksApart(st, n) /\ 0 \in 0 .. n[t]
        BY <1>4 DEF Inv, StacksInv
      <4> QED BY <4>1, <2>2, <1>2, <1>4 DEF BlocksApart
    <3> HIDE DEF OfOld, OfNew
    <3>6. held' = {b \in Block : ((Image \in slots)' /\ b = Mem') \/ OfNew(b)}
      BY <3>1, <3>2, <3>3, <3>4, <3>5, <2>5, <2>6, <1>12
    <3> QED BY <3>6 DEF HeldExactly, OfNew
  <2>12. NoHandlers(n)'
    BY <2>2, <2>6, <1>7 DEF Inv, StacksInv, NoHandlers
  <2> QED BY <2>7, <2>8, <2>9, <2>10, <2>11, <2>12 DEF StacksInv
<1>15. SlotsInv' /\ ImageInv' /\ StacksInv(st, n)'
  BY <1>13, <1>14
<1>16. ProcTyped'
  <2>1. astray' \in BOOLEAN
    BY Zenon DEF Reap, ReapFreeing
  <2> QED BY <2>1, <1>1, <1>3, <1>6, <1>11 DEF Inv, ProcTyped
<1>17. SignalsInv'
  <2>1. Framed' = Framed
    BY <1>1 DEF Framed
  <2> QED BY <2>1, <1>7, SignalsFewer DEF Inv, SignalsInv
<1>18. BeforeRun'
  BY <1>1 DEF BeforeRun, Idle, Systemd
<1>19. Witness(st, n)'
  BY DEF Inv, Witness
<1>20. Inv(st, n)'
  BY <1>15, <1>16, <1>17, <1>18, <1>19 DEF Inv
<1> QED BY <1>20 DEF Accounted
-----------------------------------------------------------------------------
\* Every operation keeps the account, unless it is the one that leads the kernel
\* astray, as long as nobody execs while others run its image.
LEMMA NextInv ==
  ASSUME PInv, [PNext]_pvars, [ExecDrop => Unreaped = {cur}]_pvars
  PROVE  PInv'
<1>1. CASE astray
  <2>1. astray' = astray
    BY <1>1 DEF PNext, Astray, pvars
  <2> QED BY <1>1, <2>1 DEF PInv
<1> SUFFICES ASSUME ~ astray, ~ astray' PROVE Accounted'
  BY <1>1 DEF PInv
<1>2. PICK st, n : Inv(st, n)
  BY DEF PInv, Accounted
<1>3. CASE UNCHANGED pvars
  <2>1. Inv(st, n)'
    BY <1>2, <1>3
    DEF pvars, Inv, ProcTyped, SlotsInv, ImageInv, ImageInUse, ImageGone, SignalsInv,
        BeforeRun, Witness, StacksInv, StacksLead, BlocksApart, HeldExactly, NoHandlers,
        Unreaped, Sp, Mem, Living
  <2> QED BY <2>1 DEF Accounted
<1>4. CASE Step /\ ~ UNCHANGED pvars
  <2>1. CASE RunProg
    BY <1>2, <2>1, RunProgInv
  <2>2. CASE Fork
    BY <1>2, <2>2, ForkInv
  <2>3. CASE ExecDrop
    BY <1>2, <1>4, <2>3, ExecDropInv
  <2>4. CASE ExecLoad
    BY <1>2, <2>4, ExecLoadInv
  <2>5. CASE ExecFails
    BY <2>5 DEF ExecFails
  <2>6. CASE Register
    BY <1>2, <2>6, RegisterInv
  <2>7. ASSUME NEW t \in User, SendSignal(t, "user") \/ SendSignal(t, "kill")
        PROVE  Accounted'
    BY <1>2, <2>7, SendSignalInv
  <2>8. ASSUME NEW t \in User, Kill(t) PROVE Accounted'
    BY <1>2, <2>8, KillInv
  <2>9. CASE Deliver
    BY <1>2, <2>9, DeliverInv
  <2>10. CASE SigReturn
    BY <1>2, <2>10, SigReturnInv
  <2>11. CASE Exit \/ DieOfSignal
    <3>1. cur \in User /\ Die
      BY <2>11 DEF Exit, UserCode, DieOfSignal
    <3> QED BY <1>2, <3>1, DieInv
  <2>12. CASE Tick
    BY <1>2, <2>12, TickInv
  <2>13. ASSUME NEW t \in User, Reap(t) PROVE Accounted'
    BY <1>2, <2>13, ReapInv
  <2> QED
    BY <1>4, <2>1, <2>2, <2>3, <2>4, <2>5, <2>6, <2>7, <2>8, <2>9, <2>10, <2>11, <2>12,
       <2>13 DEF Step
<1> QED BY <1>3, <1>4 DEF PNext, Astray

\* A program calls exec only while no other thread has its image.
ExecAlone == [][ExecDrop => Unreaped = {cur}]_pvars

\* Did exec_s see to it, every behaviour would be one of these.
LEMMA GuardedExec == ASSUME ~ ExecShared PROVE PSpec => ExecAlone
<1>1. [PNext]_pvars => [ExecDrop => Unreaped = {cur}]_pvars
  BY DEF ExecDrop
<1> QED BY <1>1, PTL DEF PSpec, ExecAlone

\* Until the kernel is led astray, every reachable state has stacks and handler
\* pages that lead to one another, of dead threads too, an image with a count, and
\* an account of all that is allocated.
THEOREM ProcessInvariant == PSpec /\ ExecAlone => []PInv
<1>1. PInv /\ [PNext]_pvars /\ [ExecDrop => Unreaped = {cur}]_pvars => PInv'
  BY NextInv
<1> QED BY <1>1, InitInv, PTL DEF PSpec, ExecAlone

\* rc_alloc, add_ref and rc_free keep the count of an image equal to the number
\* of the threads that were given it and are not yet reaped.
THEOREM CountsAreExact == PSpec /\ ExecAlone => []CountIsExact
<1>1. ASSUME PInv PROVE CountIsExact
  <2> SUFFICES ASSUME ~ astray PROVE CountIsExact
    BY DEF CountIsExact
  <2>1. PICK st, n : Inv(st, n)
    BY <1>1 DEF PInv, Accounted
  <2> SUFFICES ASSUME NEW s \in Regions
               PROVE  region[s].count = Cardinality({t \in Unreaped : thread[t].prog = s})
    BY DEF CountIsExact
  <2>2. s = Image /\ Image \in slots
    BY <2>1 DEF Inv, SlotsInv, Regions
  <2>3. {t \in Unreaped : thread[t].prog = s} = Unreaped
    BY <2>1, <2>2 DEF Inv, SlotsInv
  <2> QED BY <2>1, <2>2, <2>3 DEF Inv, ImageInv, ImageInUse
<1> QED BY <1>1, ProcessInvariant, PTL

\* Variables keep their types, the processor is with a living thread, and the
\* count of an allocated RCregion is at least 1 and at most the number of threads:
\* rc_free never leaves one with 0, and none wraps.
THEOREM ProcessesTyped == PSpec /\ ExecAlone => [](astray \/ ProcTypeOK)
<1>1. ASSUME PInv, ~ astray PROVE ProcTypeOK
  <2>1. PICK st, n : Inv(st, n)
    BY <1>1 DEF PInv, Accounted
  <2> SUFFICES ASSUME NEW s \in Regions PROVE region[s].count \in 1 .. MaxThreads
    BY <2>1 DEF ProcTypeOK, CountsInRange, Inv
  <2>2. s = Image /\ Image \in slots
    BY <2>1 DEF Inv, SlotsInv, Regions
  <2>3. region[Image].count = Cardinality(Unreaped) /\ Unreaped # {}
    BY <2>1, <2>2 DEF Inv, ImageInv, ImageInUse
  <2>4. IsFiniteSet(Unreaped) /\ Cardinality(Unreaped) \in 0 .. MaxThreads
    BY Finiteness DEF Unreaped
  <2>5. Cardinality(Unreaped) # 0
    BY <2>3, <2>4, FS_EmptySet
  <2> QED BY <2>2, <2>3, <2>4, <2>5
<1> QED BY <1>1, ProcessInvariant, PTL

\* kill_zombies and sigreturn_s leave nothing allocated that nobody owns: stacks,
\* handler pages, workloads and images are given back, each once, where no thread
\* was taken away that had died in a handler (that one's reaping is astray).
THEOREM EverythingReclaimed == PSpec /\ ExecAlone => []AllReclaimed
<1>1. ASSUME PInv PROVE AllReclaimed
  <2> SUFFICES ASSUME Unreaped = {}, ~ astray
               PROVE  held = {} /\ slots = BootSlot
    BY DEF AllReclaimed
  <2>1. PICK st, n : Inv(st, n)
    BY <1>1 DEF PInv, Accounted
  <2>2. Image \notin slots
    BY <2>1 DEF Inv, ImageInv, ImageInUse
  <2> QED BY <2>1, <2>2 DEF Inv, SlotsInv, StacksInv, HeldExactly
<1> QED BY <1>1, ProcessInvariant, PTL

\* rc_free gives an image back only when no thread runs in it, will return to it
\* from a handler, or has registered a handler in it, until the kernel is astray.
THEOREM ImagesAreKept == PSpec /\ ExecAlone => []ImagesKept
<1>1. ASSUME PInv PROVE ImagesKept
  <2> SUFFICES ASSUME ~ astray, NEW t \in User, Living(t), t \notin execing
               PROVE  /\ thread[t].elr \in held
                      /\ thread[t].handler \in held \cup {Nowhere}
                      /\ \A b \in StackBlocks(t) \cap Block :
                            frame[b] # NoFrame => frame[b].elr \in held
    BY DEF ImagesKept
  <2>1. PICK st, n : Inv(st, n)
    BY <1>1 DEF PInv, Accounted
  <2>2. t \in Unreaped /\ thread[t].life # "dead"
    BY DEF Living, Unreaped
  <2>3. Image \in slots
    BY <2>1, <2>2 DEF Inv, ImageInv, ImageGone
  <2>4. Mem \in held
    BY <2>1, <2>3 DEF Inv, ImageInv, ImageInUse, StacksInv, HeldExactly
  <2> QED BY <2>1, <2>2, <2>3, <2>4 DEF Inv, ImageInv, ImageInUse
<1> QED BY <1>1, ProcessInvariant, PTL
-----------------------------------------------------------------------------
\* Returning from handlers leads down the stacks to the thread's own.
LEMMA AfterLeadsDown ==
  ASSUME NEW st, NEW n, Inv(st, n), NEW t \in Unreaped, NEW k \in Nat
  PROVE  After(t, k) = IF k <= n[t] THEN st[t][n[t] - k] ELSE thread[t].ustack
<1> DEFINE d == n[t]
           u == thread[t].ustack
           Walk(g) == [i \in 0 .. k |-> IF i = 0 THEN Sp(t)
                                        ELSE IF g[i - 1] \in Block \ {u}
                                        THEN frame[g[i - 1]].sp ELSE g[i - 1]]
           f == [i \in 0 .. k |-> IF i <= d THEN st[t][d - i] ELSE u]
<1>1. /\ d \in Nat /\ st[t][0] = u /\ st[t][d] = Sp(t)
      /\ \A i \in 1 .. d : frame[st[t][i]].sp = st[t][i - 1]
  BY DEF Inv, Witness, StacksInv, StacksLead, Unreaped
<1>2. \A i \in 0 .. d : st[t][i] \in Block /\ (st[t][i] = u => i = 0)
  <2>1. 0 \in 0 .. d
    BY <1>1
  <2> QED BY <2>1, <1>1 DEF Inv, StacksInv, BlocksApart
<1> HIDE DEF d, u
<1>3. ASSUME NEW i \in 0 .. k
      PROVE  f[i] = IF i = 0 THEN Sp(t)
                    ELSE IF f[i - 1] \in Block \ {u} THEN frame[f[i - 1]].sp ELSE f[i - 1]
  <2>1. CASE i = 0
    BY <2>1, <1>1
  <2>2. CASE i # 0 /\ i <= d
    <3>1. f[i] = st[t][d - i] /\ f[i - 1] = st[t][d - (i - 1)]
      BY <2>2, <1>1
    <3>2. d - (i - 1) \in 1 .. d /\ d - (i - 1) \in 0 .. d /\ (d - (i - 1)) - 1 = d - i
      BY <2>2, <1>1
    <3> QED BY <2>2, <3>1, <3>2, <1>1, <1>2
  <2>3. CASE i # 0 /\ ~ (i <= d)
    <3>1. f[i] = u /\ f[i - 1] = u
      <4>1. CASE i - 1 <= d
        <5>1. i - 1 = d
          BY <2>3, <4>1, <1>1
        <5>2. f[i - 1] = st[t][d - d] /\ d - d = 0
          BY <5>1, <1>1
        <5> QED BY <5>2, <2>3, <1>1
      <4>2. CASE ~ (i - 1 <= d)
        BY <2>3, <4>2, <1>1
      <4> QED BY <4>1, <4>2
    <3> QED BY <2>3, <3>1
  <2> QED BY <2>1, <2>2, <2>3
<1>4. f = Walk(f)
  BY <1>3
<1>5. ASSUME NEW g, g = Walk(g) PROVE g = f
  <2>1. \A i \in 0 .. k : g[i] = IF i = 0 THEN Sp(t)
                              ELSE IF g[i - 1] \in Block \ {u}
                              THEN frame[g[i - 1]].sp ELSE g[i - 1]
    BY <1>5
  <2> DEFINE Bad == {i \in 0 .. k : g[i] # f[i]}
  <2>2. Bad = {}
    <3> SUFFICES ASSUME NEW x \in Bad PROVE FALSE
      OBVIOUS
    <3>1. Bad \in SUBSET Nat
      OBVIOUS
    <3>2. PICK i \in Bad : \A j \in Bad : i <= j
      <4> HIDE DEF Bad
      <4>1. PICK i \in Bad : \A j \in Bad : ~ (<<j, i>> \in OpToRel(<, Nat))
        BY <3>1, NatLessThanWellFounded, WFMin
      <4>2. ASSUME NEW j \in Bad, j < i PROVE FALSE
        <5>1. <<j, i>> \in OpToRel(<, Nat)
          BY <3>1, <4>2 DEF OpToRel
        <5> QED BY <4>1, <5>1
      <4> QED BY <3>1, <4>2
    <3> HIDE DEF f
    <3>3. i # 0
      BY <2>1, <1>3
    <3>4. i - 1 \in 0 .. k /\ i - 1 \notin Bad
      BY <3>2, <3>3
    <3>5. g[i - 1] = f[i - 1]
      BY <3>4
    <3> QED BY <3>3, <3>5, <2>1, <1>3
  <2>3. \A i \in 0 .. k : g[i] = f[i]
    BY <2>2
  <2>4. g = [i \in 0 .. k |-> g[i]]
    BY <1>5
  <2> HIDE DEF Bad
  <2> QED BY <2>3, <2>4
<1>6. After(t, k) = (CHOOSE g : g = Walk(g))[k]
  BY DEF After, u
<1>7. (CHOOSE g : g = Walk(g)) = f
  <2> HIDE DEF f, Walk
  <2> QED BY <1>4, <1>5
<1>8. f[k] = IF k <= d THEN st[t][d - k] ELSE u
  OBVIOUS
<1> HIDE DEF f, Walk
<1> QED BY <1>6, <1>7, <1>8 DEF d, u

\* A thread is in no more handlers than there may be.
LEMMA FewHandlers ==
  ASSUME NEW st, NEW n, Inv(st, n), NEW t \in Unreaped
  PROVE  n[t] \in 0 .. MaxFrames
<1>1. n[t] \in Nat
  BY DEF Inv, Witness, Unreaped
<1>2. IsFiniteSet(Framed) /\ Cardinality(Framed) \in Nat /\ Cardinality(Framed) <= MaxFrames
  <2>1. IsFiniteSet(Framed) /\ IsFiniteSet(Signalled)
    BY Finiteness DEF Framed, Signalled
  <2>2. Cardinality(Framed) \in Nat /\ Cardinality(Signalled) \in Nat
    BY <2>1, FS_CardinalityType
  <2>3. Cardinality(Framed) + Cardinality(Signalled) <= MaxFrames
    BY DEF Inv, SignalsInv, Framed, Signalled
  <2> HIDE DEF Framed, Signalled
  <2> QED BY <2>1, <2>2, <2>3, ProcessesAssumption, SMTT(30)
<1>3. IsFiniteSet(1 .. n[t]) /\ Cardinality(1 .. n[t]) = n[t]
  BY <1>1, FS_Interval
<1> DEFINE f == [i \in 1 .. n[t] |-> st[t][i]]
<1>4. f \in [1 .. n[t] -> Framed]
  <2>1. \A i \in 1 .. n[t] : st[t][i] \in Framed
    <3> SUFFICES ASSUME NEW i \in 1 .. n[t] PROVE st[t][i] \in Framed
      OBVIOUS
    <3>1. i \in 0 .. n[t]
      BY <1>1
    <3> QED BY <3>1 DEF Inv, StacksInv, StacksLead, BlocksApart, Framed
  <2> QED BY <2>1
<1>5. \A i, j \in 1 .. n[t] : f[i] = f[j] => i = j
  <2>1. \A i \in 1 .. n[t] : i \in 0 .. n[t]
    BY <1>1
  <2> QED BY <2>1 DEF Inv, StacksInv, BlocksApart
<1>6. ~ (Cardinality(Framed) < n[t])
  <2> SUFFICES ASSUME Cardinality(Framed) < n[t] PROVE FALSE
    OBVIOUS
  <2> DEFINE S == 1 .. n[t]
  <2>1. IsFiniteSet(S) /\ Cardinality(Framed) < Cardinality(S)
    BY <1>3
  <2>2. f \in [S -> Framed]
    BY <1>4
  <2> HIDE DEF f, Framed, S
  <2>3. \E x, y \in S : x # y /\ f[x] = f[y]
    BY <2>1, <2>2, <1>2, FS_PigeonHole
  <2> QED BY <2>3, <1>5 DEF S
<1> QED BY <1>1, <1>2, <1>6, ProcessesAssumption

\* A stack or handler page in use is allocated, belongs to one thread, and the
\* handler pages of a thread lead back, one by one, to its own user stack, those
\* of a thread that has died in a handler too; until the kernel is led astray.
THEOREM OwnersKeepMemory == PSpec /\ ExecAlone => []MemoryOwned
<1>1. ASSUME PInv, ~ astray PROVE StacksOwned
  <2>1. PICK st, n : Inv(st, n)
    BY <1>1 DEF PInv, Accounted
  <2>2. BlocksApart(st, n) /\ HeldExactly(st, n)
    BY <2>1 DEF Inv, StacksInv
  <2>3. ASSUME NEW t \in Unreaped
        PROVE  /\ thread[t].ustack = st[t][0] /\ n[t] \in 0 .. MaxFrames
               /\ \A k \in 0 .. MaxFrames : \E i \in 0 .. n[t] : After(t, k) = st[t][i]
               /\ After(t, MaxFrames) = thread[t].ustack
    <3>1. thread[t].ustack = st[t][0] /\ n[t] \in 0 .. MaxFrames
      BY <2>1, FewHandlers DEF Inv, StacksInv, StacksLead
    <3>2. ASSUME NEW k \in 0 .. MaxFrames PROVE \E i \in 0 .. n[t] : After(t, k) = st[t][i]
      <4>1. After(t, k) = IF k <= n[t] THEN st[t][n[t] - k] ELSE st[t][0]
        BY <2>1, <3>1, AfterLeadsDown, ProcessesAssumption
      <4>2. CASE k <= n[t]
        <5>1. n[t] - k \in 0 .. n[t]
          BY <4>2, <3>1, ProcessesAssumption
        <5> QED BY <5>1, <4>1, <4>2
      <4>3. CASE ~ (k <= n[t])
        <5>1. 0 \in 0 .. n[t]
          BY <3>1, ProcessesAssumption
        <5> QED BY <5>1, <4>1, <4>3
      <4> QED BY <4>2, <4>3
    <3>3. After(t, MaxFrames) = thread[t].ustack
      <4>1. After(t, MaxFrames) = IF MaxFrames <= n[t] THEN st[t][n[t] - MaxFrames] ELSE st[t][0]
        BY <2>1, <3>1, AfterLeadsDown, ProcessesAssumption
      <4>2. MaxFrames <= n[t] => n[t] - MaxFrames = 0
        BY <3>1, ProcessesAssumption
      <4> QED BY <3>1, <4>1, <4>2
    <3> QED BY <3>1, <3>2, <3>3
  <2>4. ASSUME NEW t \in Unreaped, NEW b \in StackBlocks(t)
        PROVE  b = thread[t].kstack \/ \E i \in 0 .. n[t] : b = st[t][i]
    <3>1. 0 \in 0 .. n[t]
      BY <2>3, ProcessesAssumption
    <3> QED BY <3>1, <2>3, <2>4 DEF StackBlocks
  <2>5. ASSUME NEW t \in Unreaped
        PROVE  /\ StackBlocks(t) \subseteq held
               /\ thread[t].elr \notin StackBlocks(t)
    <3>1. StackBlocks(t) \subseteq held
      BY <2>2, <2>4 DEF HeldExactly, BlocksApart
    <3>2. CASE Image \in slots
      <4>1. thread[t].elr = Mem
        BY <2>1, <3>2 DEF Inv, ImageInv, ImageInUse
      <4> QED BY <3>1, <3>2, <4>1, <2>2, <2>4 DEF BlocksApart
    <3>3. CASE Image \notin slots
      BY <2>1, <3>1, <3>3 DEF Inv, ImageInv, ImageGone
    <3> QED BY <3>1, <3>2, <3>3
  <2>6. ASSUME NEW t \in Unreaped, NEW u \in Unreaped, t # u
        PROVE  StackBlocks(t) \cap StackBlocks(u) = {}
    <3> SUFFICES ASSUME NEW b \in StackBlocks(t), b \in StackBlocks(u)
                 PROVE  FALSE
      OBVIOUS
    <3> QED BY <2>2, <2>4, <2>6 DEF BlocksApart
  <2> QED BY <2>3, <2>5, <2>6 DEF StacksOwned
<1>2. (astray \/ StacksOwned) /\ ImagesKept => MemoryOwned
  BY DEF MemoryOwned
<1> QED BY <1>1, <1>2, ProcessInvariant, ImagesAreKept, PTL
=============================================================================

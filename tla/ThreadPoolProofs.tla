--------------------------- MODULE ThreadPoolProofs ---------------------------
(***************************************************************************)
(* Proofs about the thread pool, for any finite number of workers and      *)
(* clients and any set of tasks.                                           *)
(***************************************************************************)
EXTENDS ThreadPool, SequenceTheorems, FiniteSetTheorems, TLAPS

(* The destructor sets the flag, and only workers that saw it leave.         *)
StopIsDestruction ==
  /\ stopped <=> dtor # "alive"
  /\ \A w \in Workers : worker[w] \in {"exiting", "done"} => stopped
  /\ dtor = "done" => \A w \in Workers : worker[w] = "done"

(* The last worker to leave saw an empty queue: while a task is queued, some *)
(* worker has not left the loop.                                             *)
SomeoneDrains ==
  tasks # <<>> => \E w \in Workers : worker[w] \notin {"exiting", "done"}

(* A task that was taken is running or has ended.                            *)
TakenRunsOrEnded ==
  \A i \in 1..Len(started) :
     started[i] \in ended \/ \E w \in Workers : started[i] \in job[w]

IInv ==
  /\ TypeOK
  /\ StopIsDestruction
  /\ SomeoneDrains
  /\ TakenRunsOrEnded
  /\ StartedInOrder
  /\ WorkConserving
  /\ NoSleepAfterStop

-----------------------------------------------------------------------------
(* The sets that are counted are finite.                                     *)
LEMMA Counts ==
  ASSUME TypeOK
  PROVE  /\ IsFiniteSet(Awake) /\ Cardinality(Awake) \in Nat
         /\ IsFiniteSet(Notifying) /\ Cardinality(Notifying) \in Nat
         /\ Len(tasks) \in Nat
<1>1. IsFiniteSet(Threads)
  BY ThreadPoolAssumption, FS_Union DEF Threads
<1>2. IsFiniteSet(Awake)
  BY ThreadPoolAssumption, FS_Subset DEF Awake
<1>3. IsFiniteSet(Notifying)
  BY <1>1, FS_Subset DEF Notifying
<1>4. QED
  BY <1>2, <1>3, FS_CardinalityType DEF TypeOK

LEMMA InitIInv == Init => IInv
<1> SUFFICES ASSUME Init PROVE IInv
  OBVIOUS
<1>1. TypeOK
  <2>1. <<>> \in Seq(Tasks)
    OBVIOUS
  <2>2. /\ [w \in Workers |-> {}] \in [Workers -> SUBSET Tasks]
        /\ [w \in Workers |-> "entering"] \in [Workers -> WorkerPC]
        /\ [t \in Threads |-> "out"] \in [Threads -> {"out", "notify", "returned"}]
    BY DEF WorkerPC
  <2> QED BY <2>1, <2>2 DEF Init, TypeOK, DtorPC
<1>2. StopIsDestruction /\ SomeoneDrains /\ NoSleepAfterStop
  BY DEF Init, StopIsDestruction, SomeoneDrains, NoSleepAfterStop
<1>3. TakenRunsOrEnded
  BY DEF Init, TakenRunsOrEnded
<1>4. StartedInOrder
  BY ConcatEmptySeq DEF Init, StartedInOrder, TypeOK
<1>5. WorkConserving
  BY DEF Init, WorkConserving, Waiting
<1>6. QED
  BY <1>1, <1>2, <1>3, <1>4, <1>5 DEF IInv

(* One lemma per part of the invariant.                                      *)
LEMMA TypeStep == TypeOK /\ [Next]_vars => TypeOK'
<1> SUFFICES ASSUME TypeOK, [Next]_vars PROVE TypeOK'
  OBVIOUS
<1> USE DEF TypeOK, WorkerPC, DtorPC
<1>1. ASSUME NEW t \in Threads, NEW k \in Tasks, Push(t, k) PROVE TypeOK'
  BY <1>1 DEF Push
<1>2. ASSUME NEW t \in Threads, NotifyOne(t) PROVE TypeOK'
  <2>1. CASE UNCHANGED worker
    BY <1>2, <2>1 DEF NotifyOne
  <2>2. ASSUME NEW w \in Waiting, worker' = [worker EXCEPT ![w] = "woken"]
        PROVE  TypeOK'
    BY <1>2, <2>2 DEF NotifyOne, Waiting
  <2> QED BY <1>2, <2>1, <2>2 DEF NotifyOne
<1>3. ASSUME NEW t \in Threads, Size(t) PROVE TypeOK'
  BY <1>3 DEF Size
<1>4. ASSUME NEW w \in Workers, Enter(w) \/ Sleep(w) \/ SpuriousWakeup(w)
                                \/ Leave(w) \/ Exit(w)
      PROVE  TypeOK'
  BY <1>4 DEF Enter, Sleep, SpuriousWakeup, Leave, Exit
<1>5. ASSUME NEW w \in Workers, Take(w) PROVE TypeOK'
  <2>1. tasks # <<>> /\ Head(tasks) \in Tasks /\ Tail(tasks) \in Seq(Tasks)
    BY <1>5 DEF Take
  <2> QED BY <1>5, <2>1 DEF Take
<1>6. ASSUME NEW w \in Workers, TaskEnds(w) PROVE TypeOK'
  BY <1>6 DEF TaskEnds
<1>7. CASE SetStopped \/ JoinAll
  BY <1>7 DEF SetStopped, JoinAll
<1>8. CASE NotifyAll
  BY <1>8 DEF NotifyAll
<1>9. CASE UNCHANGED vars
  BY <1>9 DEF vars
<1>10. QED
  BY <1>1, <1>2, <1>3, <1>4, <1>5, <1>6, <1>7, <1>8, <1>9
     DEF Next, WorkerStep, Dtor

LEMMA StopStep == IInv /\ [Next]_vars =>
                    StopIsDestruction' /\ SomeoneDrains' /\ NoSleepAfterStop'
<1> SUFFICES ASSUME IInv, [Next]_vars
             PROVE  StopIsDestruction' /\ SomeoneDrains' /\ NoSleepAfterStop'
  OBVIOUS
<1> USE DEF IInv, TypeOK, StopIsDestruction, SomeoneDrains, NoSleepAfterStop, Waiting
<1> DEFINE Goal == StopIsDestruction' /\ SomeoneDrains' /\ NoSleepAfterStop'
<1>1. ASSUME NEW t \in Threads, NEW k \in Tasks, Push(t, k) PROVE Goal
  <2>1. t \in Clients \/ (t \in Workers /\ worker[t] = "running")
    BY <1>1 DEF Push, MayEnqueue, Threads
  <2>2. \E w \in Workers : worker[w] \notin {"exiting", "done"}
    <3>1. CASE t \in Clients
      BY <1>1, <3>1, ThreadPoolAssumption DEF Push, MayEnqueue
    <3>2. CASE t \in Workers /\ worker[t] = "running"
      BY <3>2
    <3> QED BY <2>1, <3>1, <3>2
  <2> QED BY <1>1, <2>2 DEF Push
<1>2. ASSUME NEW t \in Threads, NotifyOne(t) PROVE Goal
  <2>1. CASE UNCHANGED worker
    BY <1>2, <2>1 DEF NotifyOne
  <2>2. ASSUME NEW w \in Waiting, worker' = [worker EXCEPT ![w] = "woken"]
        PROVE  Goal
    BY <1>2, <2>2 DEF NotifyOne
  <2> QED BY <1>2, <2>1, <2>2 DEF NotifyOne
<1>3. ASSUME NEW t \in Threads, Size(t) PROVE Goal
  BY <1>3 DEF Size
<1>4. ASSUME NEW w \in Workers, Enter(w) \/ Sleep(w) \/ SpuriousWakeup(w) PROVE Goal
  BY <1>4 DEF Enter, Sleep, SpuriousWakeup
<1>5. ASSUME NEW w \in Workers, Leave(w) \/ Exit(w) PROVE Goal
  BY <1>5 DEF Leave, Exit
<1>6. ASSUME NEW w \in Workers, Take(w) PROVE Goal
  BY <1>6 DEF Take
<1>7. ASSUME NEW w \in Workers, TaskEnds(w) PROVE Goal
  BY <1>7 DEF TaskEnds
<1>8. CASE SetStopped
  BY <1>8 DEF SetStopped
<1>9. CASE NotifyAll
  BY <1>9 DEF NotifyAll
<1>10. CASE JoinAll
  BY <1>10 DEF JoinAll
<1>11. CASE UNCHANGED vars
  BY <1>11 DEF vars
<1>12. QED
  BY <1>1, <1>2, <1>3, <1>4, <1>5, <1>6, <1>7, <1>8, <1>9, <1>10, <1>11
     DEF Next, WorkerStep, Dtor

LEMMA HistoryStep == IInv /\ [Next]_vars => TakenRunsOrEnded' /\ StartedInOrder'
<1> SUFFICES ASSUME IInv, [Next]_vars
             PROVE  TakenRunsOrEnded' /\ StartedInOrder'
  OBVIOUS
<1>1. tasks \in Seq(Tasks) /\ pushed \in Seq(Tasks) /\ started \in Seq(Tasks)
      /\ pushed = started \o tasks
  BY DEF IInv, TypeOK, StartedInOrder
<1>2. ASSUME NEW t \in Threads, NEW k \in Tasks, Push(t, k)
      PROVE  TakenRunsOrEnded' /\ StartedInOrder'
  <2>1. <<k>> \in Seq(Tasks)
    OBVIOUS
  <2>2. Append(pushed, k) = pushed \o <<k>> /\ Append(tasks, k) = tasks \o <<k>>
    BY <1>1, AppendIsConcat
  <2>3. Append(pushed, k) = started \o Append(tasks, k)
    BY <1>1, <2>1, <2>2, ConcatAssociative
  <2> QED BY <1>2, <2>3 DEF Push, IInv, TakenRunsOrEnded, StartedInOrder
<1>3. ASSUME NEW w \in Workers, Take(w)
      PROVE  TakenRunsOrEnded' /\ StartedInOrder'
  <2> DEFINE k == Head(tasks)
  <2>1. /\ tasks # <<>> /\ k \in Tasks /\ Tail(tasks) \in Seq(Tasks)
        /\ <<k>> \in Seq(Tasks)
        /\ tasks = <<k>> \o Tail(tasks)
    BY <1>1, <1>3 DEF Take
  <2>2. Append(started, k) = started \o <<k>>
    BY <1>1, <2>1, AppendIsConcat
  <2>3. pushed = Append(started, k) \o Tail(tasks)
    BY <1>1, <2>1, <2>2, ConcatAssociative
  <2>4. StartedInOrder'
    BY <1>3, <2>3 DEF Take, StartedInOrder
  <2>5. TakenRunsOrEnded'
    <3>1. /\ job[w] = {} /\ job'[w] = {k}
          /\ \A v \in Workers : v # w => job'[v] = job[v]
          /\ started' = Append(started, k) /\ ended' = ended
      BY <1>3 DEF Take, IInv, TypeOK
    <3> HIDE DEF k
    <3>2. /\ Len(started') = Len(started) + 1 /\ Len(started) \in Nat
          /\ \A i \in 1..Len(started) : started'[i] = started[i]
          /\ started'[Len(started) + 1] = k
      BY <1>1, <2>1, <3>1
    <3> SUFFICES ASSUME NEW i \in 1..Len(started')
                 PROVE  \/ started'[i] \in ended'
                        \/ \E v \in Workers : started'[i] \in job'[v]
      BY DEF TakenRunsOrEnded
    <3>3. CASE i = Len(started) + 1
      BY <3>1, <3>2, <3>3
    <3>4. CASE i \in 1..Len(started)
      BY <3>1, <3>2, <3>4 DEF IInv, TakenRunsOrEnded
    <3> QED BY <3>2, <3>3, <3>4
  <2> QED BY <2>4, <2>5
<1>4. ASSUME NEW w \in Workers, TaskEnds(w)
      PROVE  TakenRunsOrEnded' /\ StartedInOrder'
  <2>1. /\ ended' = ended \cup job[w]
        /\ \A v \in Workers : v # w => job'[v] = job[v]
        /\ UNCHANGED <<tasks, pushed, started>>
    BY <1>4 DEF TaskEnds, IInv, TypeOK
  <2> QED BY <2>1 DEF IInv, TakenRunsOrEnded, StartedInOrder
<1>5. CASE UNCHANGED <<tasks, pushed, started, job, ended>>
  BY <1>5 DEF IInv, TakenRunsOrEnded, StartedInOrder
<1>6. QED
  BY <1>2, <1>3, <1>4, <1>5
     DEF Next, WorkerStep, Dtor, NotifyOne, Size, Enter, Sleep, SpuriousWakeup,
         Leave, Exit, SetStopped, NotifyAll, JoinAll, vars

LEMMA WorkStep == IInv /\ [Next]_vars => WorkConserving'
<1> SUFFICES ASSUME IInv, [Next]_vars PROVE WorkConserving'
  OBVIOUS
<1>1. TypeOK /\ TypeOK' /\ WorkConserving
  BY TypeStep DEF IInv
<1>2. /\ IsFiniteSet(Awake) /\ Cardinality(Awake) \in Nat
      /\ IsFiniteSet(Notifying) /\ Cardinality(Notifying) \in Nat
      /\ Len(tasks) \in Nat
  BY <1>1, Counts
<1>3. /\ Cardinality(Awake') \in Nat /\ Cardinality(Notifying') \in Nat
      /\ Len(tasks') \in Nat
  <2>1. IsFiniteSet(Workers) /\ IsFiniteSet(Threads)
    BY ThreadPoolAssumption, FS_Union DEF Threads
  <2>2. IsFiniteSet(Awake') /\ IsFiniteSet(Notifying')
    BY <2>1, FS_Subset DEF Awake, Notifying
  <2> QED BY <1>1, <2>2, FS_CardinalityType DEF TypeOK
<1>4. ASSUME NEW t \in Threads, NEW k \in Tasks, Push(t, k) PROVE WorkConserving'
  <2>1. Notifying' = Notifying \cup {t} /\ t \notin Notifying
    BY <1>1, <1>4 DEF Push, MayEnqueue, Notifying, TypeOK
  <2>2. Awake' = Awake /\ Waiting' = Waiting /\ Len(tasks') = Len(tasks) + 1
    BY <1>1, <1>4 DEF Push, Awake, Waiting, TypeOK
  <2>3. Cardinality(Notifying') = Cardinality(Notifying) + 1
    BY <1>2, <2>1, FS_AddElement
  <2> QED BY <1>1, <1>2, <2>2, <2>3 DEF WorkConserving
<1>5. ASSUME NEW t \in Threads, NotifyOne(t) PROVE WorkConserving'
  <2>1. CASE Waiting = {} /\ UNCHANGED worker
    BY <2>1 DEF WorkConserving, Waiting
  <2>2. ASSUME NEW w \in Waiting, worker' = [worker EXCEPT ![w] = "woken"]
        PROVE  WorkConserving'
    <3>1. Awake' = Awake \cup {w} /\ w \notin Awake
      BY <1>1, <2>2 DEF Awake, Waiting, TypeOK
    <3>2. Notifying' = Notifying \ {t} /\ t \in Notifying
      BY <1>1, <1>5 DEF NotifyOne, Notifying, TypeOK
    <3>3. Waiting # {} /\ tasks' = tasks
      BY <1>5 DEF NotifyOne
    <3>4. /\ Cardinality(Awake') = Cardinality(Awake) + 1
          /\ Cardinality(Notifying') = Cardinality(Notifying) - 1
      BY <1>2, <3>1, <3>2, FS_AddElement, FS_RemoveElement
    <3> QED BY <1>1, <1>2, <3>3, <3>4 DEF WorkConserving
  <2> QED BY <1>5, <2>1, <2>2 DEF NotifyOne
<1>6. CASE UNCHANGED tasks /\ Awake' = Awake /\ Notifying' = Notifying /\ Waiting' \subseteq Waiting
  BY <1>1, <1>6 DEF WorkConserving
<1>7. ASSUME tasks' = <<>> PROVE WorkConserving'
  BY <1>3, <1>7 DEF WorkConserving
<1>8. ASSUME NEW w \in Workers, w \notin Awake, Awake' = Awake \cup {w},
             Notifying' = Notifying, Waiting' \subseteq Waiting, tasks' = tasks
      PROVE  WorkConserving'
  <2>1. Cardinality(Awake') = Cardinality(Awake) + 1
    BY <1>2, <1>8, FS_AddElement
  <2> QED BY <1>1, <1>2, <1>8, <2>1 DEF WorkConserving
<1>9. ASSUME NEW w \in Workers, Take(w) PROVE WorkConserving'
  <2>1. Awake' = Awake \ {w} /\ w \in Awake
    BY <1>1, <1>9 DEF Take, Awake, TypeOK
  <2>2. Notifying' = Notifying /\ Waiting' = Waiting
    BY <1>1, <1>9 DEF Take, Waiting, Notifying, TypeOK
  <2>3. Len(tasks') = Len(tasks) - 1
    BY <1>1, <1>9 DEF Take, TypeOK
  <2>4. Cardinality(Awake') = Cardinality(Awake) - 1
    BY <1>2, <2>1, FS_RemoveElement
  <2> QED BY <1>1, <1>2, <2>2, <2>3, <2>4 DEF WorkConserving
<1>10. ASSUME NEW t \in Threads, Size(t) PROVE WorkConserving'
  BY <1>1, <1>6, <1>10 DEF Size, Awake, Notifying, Waiting, TypeOK
<1>11. ASSUME NEW w \in Workers, Enter(w) \/ Exit(w) PROVE WorkConserving'
  BY <1>1, <1>6, <1>11 DEF Enter, Exit, Awake, Notifying, Waiting, TypeOK
<1>12. ASSUME NEW w \in Workers, Sleep(w) \/ Leave(w) PROVE WorkConserving'
  BY <1>7, <1>12 DEF Sleep, Leave
<1>13. ASSUME NEW w \in Workers, SpuriousWakeup(w) \/ TaskEnds(w) PROVE WorkConserving'
  <2>1. w \notin Awake /\ Awake' = Awake \cup {w}
    BY <1>1, <1>13 DEF SpuriousWakeup, TaskEnds, Awake, TypeOK
  <2>2. Notifying' = Notifying /\ Waiting' \subseteq Waiting /\ tasks' = tasks
    BY <1>1, <1>13 DEF SpuriousWakeup, TaskEnds, Notifying, Waiting, TypeOK
  <2> QED BY <1>8, <2>1, <2>2
<1>14. CASE SetStopped \/ JoinAll \/ UNCHANGED vars
  BY <1>6, <1>14 DEF SetStopped, JoinAll, vars, Awake, Notifying, Waiting
<1>15. CASE NotifyAll
  BY <1>15 DEF NotifyAll, WorkConserving, Waiting
<1>16. QED
  BY <1>4, <1>5, <1>9, <1>10, <1>11, <1>12, <1>13, <1>14, <1>15
     DEF Next, WorkerStep, Dtor

LEMMA StepIInv == IInv /\ [Next]_vars => IInv'
  BY TypeStep, StopStep, HistoryStep, WorkStep DEF IInv

(* The inductive invariant holds always.                                     *)
THEOREM Invariance == Spec => []IInv
  BY InitIInv, StepIInv, PTL DEF Spec

(* The variables take values of their types.                                 *)
THEOREM TypeCorrect == Spec => []TypeOK
<1>1. IInv => TypeOK
  BY DEF IInv
<1>2. QED
  BY <1>1, Invariance, PTL

(* Tasks are taken in the order they were pushed, each once, none lost.      *)
THEOREM Fifo == Spec => []StartedInOrder
<1>1. IInv => StartedInOrder
  BY DEF IInv
<1>2. QED
  BY <1>1, Invariance, PTL

(* No queued task waits for a wake-up that nobody will send.                 *)
THEOREM NoLostWakeup == Spec => []WorkConserving
<1>1. IInv => WorkConserving
  BY DEF IInv
<1>2. QED
  BY <1>1, Invariance, PTL

(* After the destructor's notify_all no worker waits on the condition.       *)
THEOREM ShutdownWakesAll == Spec => []NoSleepAfterStop
<1>1. IInv => NoSleepAfterStop
  BY DEF IInv
<1>2. QED
  BY <1>1, Invariance, PTL

(* The destructor returns only after every task ever pushed has ended.       *)
THEOREM Drained == Spec => []DrainedWhenDestroyed
<1>1. IInv => DrainedWhenDestroyed
  <2> SUFFICES ASSUME IInv, dtor = "done"
               PROVE  tasks = <<>> /\ \A i \in 1..Len(pushed) : pushed[i] \in ended
    BY DEF DrainedWhenDestroyed
  <2>1. \A w \in Workers : worker[w] = "done" /\ job[w] = {}
    BY DEF IInv, StopIsDestruction, TypeOK
  <2>2. tasks = <<>>
    BY <2>1 DEF IInv, SomeoneDrains
  <2>3. pushed = started
    BY <2>2, ConcatEmptySeq DEF IInv, StartedInOrder, TypeOK
  <2> QED BY <2>1, <2>2, <2>3 DEF IInv, TakenRunsOrEnded
<1>2. QED
  BY <1>1, Invariance, PTL
=============================================================================

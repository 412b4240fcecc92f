--------------------------- MODULE ConnectionProofs ---------------------------
(***************************************************************************)
(* Proofs about the operation queues of a Connection, for any number of    *)
(* threads and operations.  The inductive invariant says where the active  *)
(* operation of a direction is: always the started front of its queue.     *)
(* With it each direction implements a SerialQueue (second part).          *)
(***************************************************************************)
EXTENDS Connection, TLAPS

(* Only the front entry can carry the started flag, and the entries of a     *)
(* queue belong to its direction.                                            *)
OnlyHeadStarted ==
  \A d \in Direction : \A i \in 1..Len(queue[d]) :
     /\ DirectionOf(queue[d][i].op) = d
     /\ queue[d][i].started => i = 1

(* A thread about to call a closure holds an operation of its direction, and *)
(* asio holds read operations as reads and write operations as writes.       *)
TasksMatch ==
  /\ \A t \in Threads : pc[t] = "call" => /\ task[t] \in Ops
                                          /\ DirectionOf(task[t]) = at[t]
  /\ \A d \in Direction : \A o \in inflight[d] : DirectionOf(o) = d

ActiveIsStartedHead ==
  \A o \in Ops : Active(o) =>
     /\ queue[DirectionOf(o)] # <<>>
     /\ queue[DirectionOf(o)][1].op = o
     /\ queue[DirectionOf(o)][1].started

HeldOnce ==
  \A o \in Ops, t, u \in Threads :
     (Calling(t, o) \/ Handling(t, o)) /\ (Calling(u, o) \/ Handling(u, o))
        => t = u /\ ~Flying(o)

(* A thread that executes a handler is not at the same time about to issue   *)
(* the very operation whose handler it executes.                             *)
CallingIsNotHandling ==
  \A o \in Ops, t \in Threads : ~(Calling(t, o) /\ Handling(t, o))

IInv ==
  /\ TypeOK
  /\ OnlyHeadStarted
  /\ TasksMatch
  /\ ActiveIsStartedHead
  /\ HeldOnce
  /\ CallingIsNotHandling
  /\ NoStrandedQueue

-----------------------------------------------------------------------------
(* Every operation reads or writes.                                          *)
LEMMA DirectionType == \A o : DirectionOf(o) \in Direction
  BY DEF DirectionOf, Direction

(* The front of a queue of entries.                                          *)
LEMMA HeadIsFirst ==
  ASSUME TypeOK, NEW d \in Direction, queue[d] # <<>>
  PROVE  /\ queue[d] \in Seq(Entry)
         /\ Len(queue[d]) \in Nat /\ Len(queue[d]) >= 1
         /\ Head(queue[d]) = queue[d][1]
         /\ queue[d][1] \in Entry
         /\ queue[d][1].op \in Ops /\ queue[d][1].started \in BOOLEAN
         /\ queue[d][1] = [op |-> queue[d][1].op, started |-> queue[d][1].started]
<1>1. queue[d] \in Seq(Entry)
  BY DEF TypeOK
<1>2. /\ Len(queue[d]) \in Nat /\ Len(queue[d]) >= 1
      /\ Head(queue[d]) = queue[d][1] /\ queue[d][1] \in Entry
  BY <1>1
<1>3. QED
  BY <1>1, <1>2 DEF Entry

(* The operation whose handler runs is the front of its queue.               *)
LEMMA RunningIsHead ==
  ASSUME TypeOK, ActiveIsStartedHead, NEW t \in Threads, running[t] # NoOp
  PROVE  /\ running[t] \in Ops
         /\ queue[DirectionOf(running[t])] # <<>>
         /\ queue[DirectionOf(running[t])][1].op = running[t]
         /\ queue[DirectionOf(running[t])][1].started
<1>1. running[t] \in Ops
  BY DEF TypeOK
<1>2. Active(running[t])
  BY DEF Active, Handling
<1>3. QED
  BY <1>1, <1>2 DEF ActiveIsStartedHead

LEMMA InitIInv == Init => IInv
<1> SUFFICES ASSUME Init PROVE IInv
  OBVIOUS
<1>1. TypeOK
  <2>1. /\ [d \in Direction |-> <<>>] \in [Direction -> Seq(Entry)]
        /\ [d \in Direction |-> <<>>] \in [Direction -> Seq(Ops)]
    OBVIOUS
  <2> QED BY <2>1 DEF Init, TypeOK, Direction
<1>2. OnlyHeadStarted
  BY DEF Init, OnlyHeadStarted
<1>3. \A o \in Ops : ~Active(o)
  BY ConnectionAssumption, DirectionType DEF Init, Active, Flying, Calling, Handling
<1>4. TasksMatch
  BY DEF Init, TasksMatch
<1>5. ActiveIsStartedHead /\ HeldOnce /\ CallingIsNotHandling
  BY <1>3 DEF ActiveIsStartedHead, HeldOnce, CallingIsNotHandling, Active
<1>6. NoStrandedQueue
  BY DEF Init, NoStrandedQueue, Claimable
<1>7. QED
  BY <1>1, <1>2, <1>4, <1>5, <1>6 DEF IInv

(* One lemma per action: asyncX, the two ways out of its lock, the call on   *)
(* the socket, the completion, dequeueX, and a handler that throws.          *)
LEMMA EnqueueIInv ==
  ASSUME IInv, NEW t \in Threads, NEW o \in Ops, Enqueue(t, o)
  PROVE  IInv'
<1> DEFINE d == DirectionOf(o)
           e == [op |-> o, started |-> FALSE]
<1>1. d \in Direction /\ e \in Entry /\ e.op = o /\ e.started = FALSE
  BY DirectionType DEF Entry
<1>2. /\ queue' = [queue EXCEPT ![d] = Append(queue[d], e)]
      /\ accepted' = [accepted EXCEPT ![d] = Append(accepted[d], o)]
      /\ pc[t] = "ready" /\ pc' = [pc EXCEPT ![t] = "do"]
      /\ at' = [at EXCEPT ![t] = d]
      /\ UNCHANGED <<task, running, inflight, stopped, issued, finished>>
  BY DEF Enqueue
<1>3. TypeOK
  BY DEF IInv
<1> HIDE DEF e, d
<1>4. queue[d] \in Seq(Entry) /\ accepted[d] \in Seq(Ops)
  BY <1>1, <1>3 DEF TypeOK
<1>5. /\ Append(queue[d], e) \in Seq(Entry)
      /\ Append(accepted[d], o) \in Seq(Ops)
      /\ Len(Append(queue[d], e)) = Len(queue[d]) + 1
      /\ \A i \in 1..Len(queue[d]) : Append(queue[d], e)[i] = queue[d][i]
      /\ Append(queue[d], e)[Len(queue[d]) + 1] = e
      /\ Len(queue[d]) \in Nat
      /\ queue[d] # <<>> => Len(queue[d]) >= 1
  BY <1>1, <1>4
<1>6. TypeOK'
  BY <1>1, <1>2, <1>3, <1>5 DEF TypeOK
<1>7. \A p \in Ops : Active(p)' <=> Active(p)
  BY <1>2, <1>3 DEF Active, Flying, Calling, Handling, TypeOK
<1>8. OnlyHeadStarted'
  <2> SUFFICES ASSUME NEW c \in Direction, NEW i \in 1..Len(queue'[c])
               PROVE  DirectionOf(queue'[c][i].op) = c /\ (queue'[c][i].started => i = 1)
    BY DEF OnlyHeadStarted
  <2>1. CASE c # d
    BY <2>1, <1>2, <1>3 DEF OnlyHeadStarted, IInv, TypeOK
  <2>2. CASE c = d
    <3>1. queue'[d] = Append(queue[d], e)
      BY <1>1, <1>2, <1>3 DEF TypeOK
    <3>2. CASE i \in 1..Len(queue[d])
      BY <2>2, <3>1, <3>2, <1>1, <1>5 DEF OnlyHeadStarted, IInv
    <3>3. CASE i = Len(queue[d]) + 1
      BY <2>2, <3>1, <3>3, <1>1, <1>5 DEF d
    <3> QED BY <2>2, <3>1, <3>2, <3>3, <1>5
  <2> QED BY <2>1, <2>2
<1>9. ActiveIsStartedHead'
  <2> SUFFICES ASSUME NEW p \in Ops, Active(p)'
               PROVE  /\ queue'[DirectionOf(p)] # <<>>
                      /\ queue'[DirectionOf(p)][1].op = p
                      /\ queue'[DirectionOf(p)][1].started
    BY DEF ActiveIsStartedHead
  <2>1. /\ queue[DirectionOf(p)] # <<>>
        /\ queue[DirectionOf(p)][1].op = p
        /\ queue[DirectionOf(p)][1].started
    BY <1>7 DEF ActiveIsStartedHead, IInv
  <2>2. CASE DirectionOf(p) # d
    BY <2>1, <2>2, <1>2, <1>3, DirectionType DEF TypeOK
  <2>3. CASE DirectionOf(p) = d
    <3>1. queue'[d] = Append(queue[d], e)
      BY <1>1, <1>2, <1>3 DEF TypeOK
    <3>2. 1 \in 1..Len(queue[d]) /\ Append(queue[d], e)[1] = queue[d][1]
      BY <2>1, <2>3, <1>5
    <3> QED BY <2>1, <2>3, <3>1, <3>2, <1>5, <1>4, <1>1
  <2> QED BY <2>2, <2>3
<1>10. TasksMatch' /\ HeldOnce' /\ CallingIsNotHandling'
  BY <1>2, <1>3 DEF IInv, TasksMatch, HeldOnce, CallingIsNotHandling, Calling,
                    Handling, Flying, TypeOK
<1>11. NoStrandedQueue'
  <2> SUFFICES ASSUME NEW c \in Direction, Claimable(c)'
               PROVE  \E u \in Threads : pc'[u] = "do" /\ at'[u] = c
    BY DEF NoStrandedQueue
  <2>1. CASE c = d
    BY <2>1, <1>2, <1>3 DEF TypeOK
  <2>2. CASE c # d
    <3>1. Claimable(c)
      BY <2>2, <1>2, <1>3 DEF Claimable, TypeOK
    <3>2. PICK u \in Threads : pc[u] = "do" /\ at[u] = c
      BY <3>1 DEF IInv, NoStrandedQueue
    <3> QED BY <3>2, <1>2, <1>3 DEF TypeOK
  <2> QED BY <2>1, <2>2
<1>12. QED
  BY <1>6, <1>8, <1>9, <1>10, <1>11 DEF IInv

LEMMA ClaimIInv ==
  ASSUME IInv, NEW t \in Threads, Claim(t)
  PROVE  IInv'
<1> DEFINE d == at[t]
           o == queue[d][1].op
           e == [op |-> o, started |-> TRUE]
<1>1. TypeOK /\ d \in Direction /\ queue[d] # <<>>
  BY DEF IInv, TypeOK, Claim, Claimable
<1>2. /\ queue[d] \in Seq(Entry) /\ Len(queue[d]) \in Nat /\ Len(queue[d]) >= 1
      /\ Head(queue[d]) = queue[d][1] /\ o \in Ops
      /\ ~queue[d][1].started
  BY <1>1, HeadIsFirst DEF Claim, Claimable
<1>3. e \in Entry /\ e.op = o /\ e.started = TRUE
  BY <1>2 DEF Entry
<1>4. /\ queue' = [queue EXCEPT ![d] = [queue[d] EXCEPT ![1] = e]]
      /\ task' = [task EXCEPT ![t] = o]
      /\ pc[t] = "do" /\ pc' = [pc EXCEPT ![t] = "call"]
      /\ UNCHANGED <<at, running, inflight, stopped, accepted, issued, finished>>
  BY <1>2 DEF Claim
<1>5. DirectionOf(o) = d
  BY <1>1, <1>2 DEF IInv, OnlyHeadStarted
<1>6. ~Active(o)
  BY <1>1, <1>2, <1>5 DEF IInv, ActiveIsStartedHead
<1> HIDE DEF e, d, o
<1>7. /\ [queue[d] EXCEPT ![1] = e] \in Seq(Entry)
      /\ [queue[d] EXCEPT ![1] = e] # <<>>
      /\ Len([queue[d] EXCEPT ![1] = e]) = Len(queue[d])
      /\ [queue[d] EXCEPT ![1] = e][1] = e
      /\ \A i \in 1..Len(queue[d]) :
            i # 1 => [queue[d] EXCEPT ![1] = e][i] = queue[d][i]
  BY <1>2, <1>3
<1>8. /\ queue'[d] = [queue[d] EXCEPT ![1] = e]
      /\ \A c \in Direction : c # d => queue'[c] = queue[c]
  BY <1>1, <1>4 DEF TypeOK
<1>9. TypeOK'
  BY <1>1, <1>2, <1>4, <1>7 DEF TypeOK
<1>10. OnlyHeadStarted'
  <2> SUFFICES ASSUME NEW c \in Direction, NEW i \in 1..Len(queue'[c])
               PROVE  DirectionOf(queue'[c][i].op) = c /\ (queue'[c][i].started => i = 1)
    BY DEF OnlyHeadStarted
  <2>1. CASE c # d
    BY <2>1, <1>8 DEF OnlyHeadStarted, IInv
  <2>2. CASE c = d /\ i = 1
    BY <2>2, <1>3, <1>5, <1>7, <1>8
  <2>3. CASE c = d /\ i # 1
    BY <2>3, <1>7, <1>8 DEF OnlyHeadStarted, IInv
  <2> QED BY <2>1, <2>2, <2>3
<1>11. TasksMatch'
  BY <1>1, <1>2, <1>4, <1>5 DEF IInv, TasksMatch, TypeOK, d
<1>12. \A p \in Ops : Active(p)' => p = o \/ Active(p)
  BY <1>1, <1>4 DEF Active, Flying, Calling, Handling, TypeOK
<1>13. ActiveIsStartedHead'
  <2> SUFFICES ASSUME NEW p \in Ops, Active(p)'
               PROVE  /\ queue'[DirectionOf(p)] # <<>>
                      /\ queue'[DirectionOf(p)][1].op = p
                      /\ queue'[DirectionOf(p)][1].started
    BY DEF ActiveIsStartedHead
  <2>1. CASE p = o
    BY <2>1, <1>3, <1>5, <1>7, <1>8
  <2>2. CASE p # o
    <3>1. /\ queue[DirectionOf(p)] # <<>>
          /\ queue[DirectionOf(p)][1].op = p
          /\ queue[DirectionOf(p)][1].started
      BY <2>2, <1>12 DEF IInv, ActiveIsStartedHead
    <3>2. DirectionOf(p) # d
      BY <3>1, <1>2
    <3> QED BY <3>1, <3>2, <1>8, DirectionType
  <2> QED BY <2>1, <2>2
<1>14. HeldOnce'
  <2>1. \A u \in Threads : ~Calling(u, o) /\ ~Handling(u, o)
    BY <1>6 DEF Active
  <2>2. ~Flying(o)
    BY <1>6 DEF Active
  <2>3. \A u \in Threads, p \in Ops : Calling(u, p)' => (u = t /\ p = o) \/ Calling(u, p)
    BY <1>1, <1>4 DEF Calling, TypeOK
  <2>4. \A u \in Threads, p \in Ops : (Handling(u, p)' <=> Handling(u, p)) /\ (Flying(p)' <=> Flying(p))
    BY <1>4 DEF Handling, Flying
  <2> QED BY <2>1, <2>2, <2>3, <2>4 DEF IInv, HeldOnce
<1>15. CallingIsNotHandling'
  <2>1. ~Handling(t, o)
    BY <1>6 DEF Active
  <2> QED BY <2>1, <1>1, <1>4 DEF IInv, CallingIsNotHandling, Calling, Handling, TypeOK
<1>16. NoStrandedQueue'
  <2> SUFFICES ASSUME NEW c \in Direction, Claimable(c)'
               PROVE  \E u \in Threads : pc'[u] = "do" /\ at'[u] = c
    BY DEF NoStrandedQueue
  <2>1. c # d
    BY <1>3, <1>7, <1>8 DEF Claimable
  <2>2. Claimable(c)
    BY <2>1, <1>8 DEF Claimable
  <2>3. PICK u \in Threads : pc[u] = "do" /\ at[u] = c
    BY <2>2 DEF IInv, NoStrandedQueue
  <2> QED BY <2>1, <2>3, <1>1, <1>4 DEF TypeOK, d
<1>17. QED
  BY <1>9, <1>10, <1>11, <1>13, <1>14, <1>15, <1>16 DEF IInv

LEMMA NothingToClaimIInv ==
  ASSUME IInv, NEW t \in Threads, NothingToClaim(t)
  PROVE  IInv'
<1>1. /\ TypeOK
      /\ pc[t] = "do" /\ pc' = [pc EXCEPT ![t] = "ready"] /\ ~Claimable(at[t])
      /\ UNCHANGED <<queue, at, task, running, inflight, stopped,
                     accepted, issued, finished>>
  BY DEF IInv, NothingToClaim
<1>2. TypeOK' /\ OnlyHeadStarted'
  BY <1>1 DEF IInv, OnlyHeadStarted, TypeOK
<1>3. \A p \in Ops, u \in Threads :
        /\ Calling(u, p)' <=> Calling(u, p)
        /\ Handling(u, p)' <=> Handling(u, p)
        /\ Flying(p)' <=> Flying(p)
  BY <1>1 DEF Calling, Handling, Flying, TypeOK
<1>4. TasksMatch'
  BY <1>1 DEF IInv, TasksMatch, TypeOK
<1>5. ActiveIsStartedHead' /\ HeldOnce' /\ CallingIsNotHandling'
  BY <1>1, <1>3 DEF IInv, ActiveIsStartedHead, HeldOnce, CallingIsNotHandling, Active
<1>6. NoStrandedQueue'
  <2> SUFFICES ASSUME NEW c \in Direction, Claimable(c)
               PROVE  \E u \in Threads : pc'[u] = "do" /\ at'[u] = c
    BY <1>1 DEF NoStrandedQueue, Claimable
  <2>1. PICK u \in Threads : pc[u] = "do" /\ at[u] = c
    BY DEF IInv, NoStrandedQueue
  <2> QED BY <2>1, <1>1 DEF TypeOK
<1>7. QED
  BY <1>2, <1>4, <1>5, <1>6 DEF IInv

LEMMA IssueIInv ==
  ASSUME IInv, NEW t \in Threads, Issue(t)
  PROVE  IInv'
<1> DEFINE d == at[t]
           o == task[t]
<1>1. /\ TypeOK /\ d \in Direction /\ o \in Ops /\ DirectionOf(o) = d
      /\ pc[t] = "call" /\ pc' = [pc EXCEPT ![t] = "ready"]
      /\ inflight' = [inflight EXCEPT ![d] = inflight[d] \cup {o}]
      /\ issued' = [issued EXCEPT ![d] = Append(issued[d], o)]
      /\ task' = [task EXCEPT ![t] = NoOp]
      /\ UNCHANGED <<queue, at, running, stopped, accepted, finished>>
  BY DEF IInv, TasksMatch, TypeOK, Issue
<1> HIDE DEF d, o
<1>2. TypeOK'
  <2>1. Append(issued[d], o) \in Seq(Ops)
    BY <1>1 DEF TypeOK
  <2> QED BY <2>1, <1>1 DEF TypeOK
<1>3. OnlyHeadStarted' /\ TasksMatch'
  BY <1>1 DEF IInv, OnlyHeadStarted, TasksMatch, TypeOK
<1>4. Calling(t, o)
  BY <1>1 DEF Calling, o
<1>5. \A p \in Ops : Flying(p)' <=> p = o \/ Flying(p)
  BY <1>1, DirectionType DEF Flying, TypeOK
<1>6. \A p \in Ops, u \in Threads : /\ Calling(u, p)' => u # t /\ Calling(u, p)
                                    /\ Handling(u, p)' <=> Handling(u, p)
  BY <1>1 DEF Calling, Handling, TypeOK
<1>7. ActiveIsStartedHead'
  BY <1>1, <1>4, <1>5, <1>6 DEF IInv, ActiveIsStartedHead, Active
<1>8. CallingIsNotHandling'
  BY <1>6 DEF IInv, CallingIsNotHandling
<1>9. HeldOnce'
  BY <1>1, <1>4, <1>5, <1>6 DEF IInv, HeldOnce, CallingIsNotHandling
<1>10. NoStrandedQueue'
  BY <1>1 DEF IInv, NoStrandedQueue, Claimable, TypeOK
<1>11. QED
  BY <1>2, <1>3, <1>7, <1>8, <1>9, <1>10 DEF IInv

LEMMA CompleteIInv ==
  ASSUME IInv, NEW t \in Threads, NEW o \in Ops, Complete(t, o)
  PROVE  IInv'
<1> DEFINE d == DirectionOf(o)
<1>1. /\ TypeOK /\ d \in Direction
      /\ pc[t] = "ready" /\ running[t] = NoOp /\ Flying(o)
      /\ inflight' = [inflight EXCEPT ![d] = inflight[d] \ {o}]
      /\ running' = [running EXCEPT ![t] = o]
      /\ UNCHANGED <<queue, pc, at, task, stopped, accepted, issued, finished>>
  BY DirectionType DEF IInv, Complete, Flying
<1> HIDE DEF d
<1>2. TypeOK' /\ OnlyHeadStarted' /\ TasksMatch'
  BY <1>1 DEF IInv, OnlyHeadStarted, TasksMatch, TypeOK
<1>3. \A p \in Ops : Flying(p)' <=> p # o /\ Flying(p)
  BY <1>1, DirectionType DEF Flying, TypeOK, d
<1>4. \A p \in Ops, u \in Threads :
         /\ Calling(u, p)' <=> Calling(u, p)
         /\ Handling(u, p)' => (u = t /\ p = o) \/ Handling(u, p)
  BY <1>1 DEF Calling, Handling, TypeOK
<1>5. ActiveIsStartedHead'
  BY <1>1, <1>3, <1>4 DEF IInv, ActiveIsStartedHead, Active
<1>6. HeldOnce'
  BY <1>1, <1>3, <1>4 DEF IInv, HeldOnce
<1>7. CallingIsNotHandling'
  BY <1>1, <1>4 DEF IInv, CallingIsNotHandling, Calling
<1>8. NoStrandedQueue'
  BY <1>1 DEF IInv, NoStrandedQueue, Claimable
<1>9. QED
  BY <1>2, <1>5, <1>6, <1>7, <1>8 DEF IInv

LEMMA DequeueIInv ==
  ASSUME IInv, NEW t \in Threads, Dequeue(t)
  PROVE  IInv'
<1> DEFINE o == running[t]
           d == DirectionOf(o)
<1>1. /\ TypeOK /\ d \in Direction /\ o # NoOp /\ DirectionOf(o) = d
      /\ pc[t] = "ready" /\ pc' = [pc EXCEPT ![t] = "do"]
      /\ queue' = [queue EXCEPT ![d] = Tail(queue[d])]
      /\ finished' = [finished EXCEPT ![d] = Append(finished[d], o)]
      /\ running' = [running EXCEPT ![t] = NoOp]
      /\ at' = [at EXCEPT ![t] = d]
      /\ UNCHANGED <<task, inflight, stopped, accepted, issued>>
  BY DirectionType DEF IInv, Dequeue
<1>2. /\ o \in Ops /\ queue[d] # <<>> /\ queue[d][1].op = o /\ Handling(t, o)
  BY <1>1, RunningIsHead DEF IInv, Handling
<1> HIDE DEF d, o
<1>3. /\ queue[d] \in Seq(Entry) /\ Len(queue[d]) \in Nat /\ Len(queue[d]) >= 1
  BY <1>1, <1>2, HeadIsFirst
<1>4. /\ Tail(queue[d]) \in Seq(Entry)
      /\ Len(Tail(queue[d])) = Len(queue[d]) - 1
      /\ \A i \in 1..Len(Tail(queue[d])) : Tail(queue[d])[i] = queue[d][i + 1]
      /\ Append(finished[d], o) \in Seq(Ops)
  BY <1>1, <1>2, <1>3 DEF TypeOK
<1>5. /\ queue'[d] = Tail(queue[d])
      /\ \A c \in Direction : c # d => queue'[c] = queue[c]
  BY <1>1 DEF TypeOK
<1>6. TypeOK'
  BY <1>1, <1>4, ConnectionAssumption DEF TypeOK
<1>7. OnlyHeadStarted'
  <2> SUFFICES ASSUME NEW c \in Direction, NEW i \in 1..Len(queue'[c])
               PROVE  DirectionOf(queue'[c][i].op) = c /\ (queue'[c][i].started => i = 1)
    BY DEF OnlyHeadStarted
  <2>1. CASE c # d
    BY <2>1, <1>5 DEF OnlyHeadStarted, IInv
  <2>2. CASE c = d
    <3>1. queue'[d][i] = queue[d][i + 1] /\ i + 1 \in 1..Len(queue[d]) /\ i + 1 # 1
      BY <2>2, <1>3, <1>4, <1>5
    <3>2. ~queue[d][i + 1].started /\ DirectionOf(queue[d][i + 1].op) = d
      BY <3>1, <1>1 DEF IInv, OnlyHeadStarted
    <3> QED BY <2>2, <3>1, <3>2
  <2> QED BY <2>1, <2>2
<1>8. TasksMatch'
  BY <1>1 DEF IInv, TasksMatch, TypeOK
<1>9. \A p \in Ops, u \in Threads :
         /\ Calling(u, p)' <=> Calling(u, p)
         /\ Handling(u, p)' => u # t /\ Handling(u, p)
         /\ Flying(p)' <=> Flying(p)
  <2>1. NoOp \notin Ops
    BY ConnectionAssumption
  <2> QED BY <2>1, <1>1 DEF Calling, Handling, Flying, TypeOK
<1>10. \A p \in Ops : Active(p)' => Active(p) /\ p # o
  <2>1. \A u \in Threads : u # t => ~Calling(u, o) /\ ~Handling(u, o)
    BY <1>2 DEF IInv, HeldOnce
  <2>2. ~Flying(o)
    BY <1>2 DEF IInv, HeldOnce
  <2>3. ~Calling(t, o)
    BY <1>2 DEF IInv, CallingIsNotHandling
  <2> QED BY <2>1, <2>2, <2>3, <1>2, <1>9 DEF Active
<1>11. ActiveIsStartedHead'
  <2> SUFFICES ASSUME NEW p \in Ops, Active(p)'
               PROVE  /\ queue'[DirectionOf(p)] # <<>>
                      /\ queue'[DirectionOf(p)][1].op = p
                      /\ queue'[DirectionOf(p)][1].started
    BY DEF ActiveIsStartedHead
  <2>1. /\ queue[DirectionOf(p)] # <<>>
        /\ queue[DirectionOf(p)][1].op = p
        /\ queue[DirectionOf(p)][1].started
    BY <1>10 DEF IInv, ActiveIsStartedHead
  <2>2. DirectionOf(p) # d
    BY <2>1, <1>2, <1>10
  <2> QED BY <2>1, <2>2, <1>5, DirectionType
<1>12. HeldOnce' /\ CallingIsNotHandling'
  BY <1>9 DEF IInv, HeldOnce, CallingIsNotHandling
<1>13. NoStrandedQueue'
  <2> SUFFICES ASSUME NEW c \in Direction, Claimable(c)'
               PROVE  \E u \in Threads : pc'[u] = "do" /\ at'[u] = c
    BY DEF NoStrandedQueue
  <2>1. CASE c = d
    BY <2>1, <1>1 DEF TypeOK
  <2>2. CASE c # d
    <3>1. Claimable(c)
      BY <2>2, <1>5 DEF Claimable
    <3>2. PICK u \in Threads : pc[u] = "do" /\ at[u] = c
      BY <3>1 DEF IInv, NoStrandedQueue
    <3> QED BY <3>2, <1>1 DEF TypeOK
  <2> QED BY <2>1, <2>2
<1>14. QED
  BY <1>6, <1>7, <1>8, <1>11, <1>12, <1>13 DEF IInv

LEMMA HandlerThrowsIInv ==
  ASSUME IInv, NEW t \in Threads, HandlerThrows(t)
  PROVE  IInv'
<1>1. /\ TypeOK
      /\ running' = [running EXCEPT ![t] = NoOp]
      /\ UNCHANGED <<queue, pc, at, task, inflight, stopped,
                     accepted, issued, finished>>
  BY DEF IInv, HandlerThrows
<1>2. TypeOK' /\ OnlyHeadStarted' /\ TasksMatch'
  BY <1>1 DEF IInv, OnlyHeadStarted, TasksMatch, TypeOK
<1>3. \A p \in Ops, u \in Threads :
         /\ Calling(u, p)' <=> Calling(u, p)
         /\ Handling(u, p)' => Handling(u, p)
         /\ Flying(p)' <=> Flying(p)
  <2>1. NoOp \notin Ops
    BY ConnectionAssumption
  <2> QED BY <2>1, <1>1 DEF Calling, Handling, Flying, TypeOK
<1>4. ActiveIsStartedHead' /\ HeldOnce' /\ CallingIsNotHandling'
  BY <1>1, <1>3 DEF IInv, ActiveIsStartedHead, HeldOnce, CallingIsNotHandling, Active
<1>5. NoStrandedQueue'
  BY <1>1 DEF IInv, NoStrandedQueue, Claimable
<1>6. QED
  BY <1>2, <1>4, <1>5 DEF IInv

LEMMA UnchangedQueuesIInv ==
  ASSUME IInv, UNCHANGED <<queue, pc, at, task, running, inflight, accepted,
                           issued, finished>>, stopped' \in BOOLEAN
  PROVE  IInv'
<1>1. TypeOK' /\ OnlyHeadStarted' /\ TasksMatch' /\ NoStrandedQueue'
  BY DEF IInv, TypeOK, OnlyHeadStarted, TasksMatch, NoStrandedQueue, Claimable
<1>2. ActiveIsStartedHead' /\ HeldOnce' /\ CallingIsNotHandling'
  BY DEF IInv, ActiveIsStartedHead, HeldOnce, CallingIsNotHandling, Active,
         Calling, Handling, Flying
<1>3. QED
  BY <1>1, <1>2 DEF IInv

LEMMA StepIInv == IInv /\ [Next]_vars => IInv'
<1> SUFFICES ASSUME IInv, [Next]_vars PROVE IInv'
  OBVIOUS
<1>1. ASSUME NEW t \in Threads, NEW o \in Ops, Enqueue(t, o) PROVE IInv'
  BY <1>1, EnqueueIInv
<1>2. ASSUME NEW t \in Threads, Claim(t) PROVE IInv'
  BY <1>2, ClaimIInv
<1>3. ASSUME NEW t \in Threads, NothingToClaim(t) PROVE IInv'
  BY <1>3, NothingToClaimIInv
<1>4. ASSUME NEW t \in Threads, Issue(t) PROVE IInv'
  BY <1>4, IssueIInv
<1>5. ASSUME NEW t \in Threads, NEW o \in Ops, Complete(t, o) PROVE IInv'
  BY <1>5, CompleteIInv
<1>6. ASSUME NEW t \in Threads, Dequeue(t) PROVE IInv'
  BY <1>6, DequeueIInv
<1>7. ASSUME NEW t \in Threads, HandlerThrows(t) PROVE IInv'
  BY <1>7, HandlerThrowsIInv
<1>8. ASSUME NEW t \in Threads, Stop(t) PROVE IInv'
  BY <1>8, UnchangedQueuesIInv DEF Stop
<1>9. CASE UNCHANGED vars
  BY <1>9, UnchangedQueuesIInv DEF vars, IInv, TypeOK
<1>10. QED
  BY <1>1, <1>2, <1>3, <1>4, <1>5, <1>6, <1>7, <1>8, <1>9
     DEF Next, Step, QueueStep, HandlerStep

(* The inductive invariant holds always.                                     *)
THEOREM Invariance == Spec => []IInv
  BY InitIInv, StepIInv, PTL DEF Spec

(* The variables take values of their types whatever the threads of the      *)
(* server do with a connection; in particular dequeueX never pops an empty   *)
(* queue.                                                                    *)
THEOREM TypeCorrect == Spec => []TypeOK
<1>1. IInv => TypeOK
  BY DEF IInv
<1>2. QED
  BY <1>1, Invariance, PTL

(* One operation per direction is claimed, in flight or in its handler, for  *)
(* any number of threads that enqueue and of threads in io_service::run().   *)
THEOREM Serial == Spec => []OneActivePerDirection
<1>1. IInv => OneActivePerDirection
  BY DEF IInv, OneActivePerDirection, ActiveIsStartedHead, HeldOnce
<1>2. QED
  BY <1>1, Invariance, PTL

(* dequeueX pops the entry of the operation whose handler just returned.     *)
THEOREM PopsOwn == Spec => []PopsItsOwnOperation
<1>1. IInv => PopsItsOwnOperation
  <2> SUFFICES ASSUME IInv, NEW t \in Threads, running[t] # NoOp
               PROVE  LET q == queue[DirectionOf(running[t])] IN
                      q # <<>> /\ Head(q) = [op |-> running[t], started |-> TRUE]
    BY DEF PopsItsOwnOperation
  <2>1. /\ queue[DirectionOf(running[t])] # <<>>
        /\ queue[DirectionOf(running[t])][1].op = running[t]
        /\ queue[DirectionOf(running[t])][1].started
    BY RunningIsHead DEF IInv
  <2> QED BY <2>1, HeadIsFirst, DirectionType DEF IInv
<1>2. QED
  BY <1>1, Invariance, PTL

(* No operation is left at the front of a queue without a thread on its way  *)
(* to start it.                                                              *)
THEOREM NoLostStart == Spec => []NoStrandedQueue
<1>1. IInv => NoStrandedQueue
  BY DEF IInv
<1>2. QED
  BY <1>1, Invariance, PTL

-----------------------------------------------------------------------------
(***************************************************************************)
(* Each direction of a Connection implements a SerialQueue: pushing an     *)
(* entry accepts an item, handing its operation to asio begins it, popping *)
(* it finishes it, and every other step of the queue code is invisible.    *)
(* The invariant above says which entry is active; the one added here ties *)
(* the histories to the queue.                                             *)
(***************************************************************************)
(* What was accepted is what was popped followed by what is queued.          *)
AcceptedSplits ==
  \A d \in Direction :
     /\ Len(accepted[d]) = Len(finished[d]) + Len(queue[d])
     /\ \A i \in 1..Len(queue[d]) :
           accepted[d][Len(finished[d]) + i] = queue[d][i].op

(* From its hand-over to the end of its handler an operation is the one      *)
(* issued and not yet popped.                                                *)
Underway(o) == Flying(o) \/ \E t \in Threads : Handling(t, o)

UnderwayIsIssued ==
  \A o \in Ops : Underway(o) =>
     issued[DirectionOf(o)] = Append(finished[DirectionOf(o)], o)

(* While a claimed operation is not handed over, or none is claimed, all     *)
(* that was issued is popped.                                                *)
ClaimedIsNotIssued ==
  \A t \in Threads : pc[t] = "call" => issued[at[t]] = finished[at[t]]

UnclaimedIsNotIssued ==
  \A d \in Direction :
     queue[d] = <<>> \/ ~queue[d][1].started => issued[d] = finished[d]

HistoryInv ==
  /\ AcceptedSplits
  /\ UnderwayIsIssued
  /\ ClaimedIsNotIssued
  /\ UnclaimedIsNotIssued

-----------------------------------------------------------------------------
(* What was issued and not finished is active.                               *)
LEMMA UnderwayIsActive == \A o \in Ops : Underway(o) => Active(o)
  BY DEF Underway, Active

LEMMA InitHistory == Init => HistoryInv
<1> SUFFICES ASSUME Init PROVE HistoryInv
  OBVIOUS
<1>1. \A o \in Ops : ~Underway(o)
  BY ConnectionAssumption, DirectionType DEF Init, Underway, Flying, Handling
<1>2. AcceptedSplits
  BY DEF Init, AcceptedSplits
<1>3. UnderwayIsIssued
  BY <1>1 DEF UnderwayIsIssued
<1>4. ClaimedIsNotIssued /\ UnclaimedIsNotIssued
  BY DEF Init, ClaimedIsNotIssued, UnclaimedIsNotIssued, Direction
<1>5. QED
  BY <1>2, <1>3, <1>4 DEF HistoryInv

(* One lemma per action for the histories, too.                              *)
LEMMA EnqueueHistory ==
  ASSUME IInv, HistoryInv, NEW t \in Threads, NEW o \in Ops, Enqueue(t, o)
  PROVE  HistoryInv'
<1> DEFINE d == DirectionOf(o)
           e == [op |-> o, started |-> FALSE]
<1>1. /\ TypeOK /\ d \in Direction /\ e \in Entry /\ e.op = o
      /\ queue' = [queue EXCEPT ![d] = Append(queue[d], e)]
      /\ accepted' = [accepted EXCEPT ![d] = Append(accepted[d], o)]
      /\ pc[t] = "ready" /\ pc' = [pc EXCEPT ![t] = "do"]
      /\ at' = [at EXCEPT ![t] = d]
      /\ UNCHANGED <<running, inflight, issued, finished>>
  BY DirectionType DEF IInv, Enqueue, Entry
<1> HIDE DEF d, e
<1>2. queue[d] \in Seq(Entry) /\ accepted[d] \in Seq(Ops) /\ finished[d] \in Seq(Ops)
  BY <1>1 DEF TypeOK
<1>3. /\ queue'[d] = Append(queue[d], e)
      /\ accepted'[d] = Append(accepted[d], o)
      /\ \A c \in Direction : c # d => queue'[c] = queue[c] /\ accepted'[c] = accepted[c]
  BY <1>1 DEF TypeOK
<1>4. AcceptedSplits'
  <2> SUFFICES ASSUME NEW c \in Direction
               PROVE  /\ Len(accepted'[c]) = Len(finished'[c]) + Len(queue'[c])
                      /\ \A i \in 1..Len(queue'[c]) :
                            accepted'[c][Len(finished'[c]) + i] = queue'[c][i].op
    BY DEF AcceptedSplits
  <2>1. CASE c # d
    <3>1. queue'[c] = queue[c] /\ accepted'[c] = accepted[c] /\ finished'[c] = finished[c]
      BY <1>1, <1>3, <2>1
    <3>2. /\ Len(accepted[c]) = Len(finished[c]) + Len(queue[c])
          /\ \A i \in 1..Len(queue[c]) :
                accepted[c][Len(finished[c]) + i] = queue[c][i].op
      BY DEF HistoryInv, AcceptedSplits
    <3> QED
      BY ONLY <3>1, <3>2
  <2>2. CASE c = d
    <3>1. /\ Len(accepted[d]) = Len(finished[d]) + Len(queue[d])
          /\ \A i \in 1..Len(queue[d]) :
                accepted[d][Len(finished[d]) + i] = queue[d][i].op
      BY <1>1 DEF HistoryInv, AcceptedSplits
    <3>2. Len(queue[d]) \in Nat /\ Len(accepted[d]) \in Nat /\ Len(finished[d]) \in Nat
      BY <1>2
    <3>3. /\ Len(queue'[d]) = Len(queue[d]) + 1
          /\ \A i \in 1..Len(queue[d]) : queue'[d][i] = queue[d][i]
          /\ queue'[d][Len(queue[d]) + 1] = e
      BY <1>1, <1>2, <1>3
    <3>4. /\ Len(accepted'[d]) = Len(accepted[d]) + 1
          /\ \A i \in 1..Len(accepted[d]) : accepted'[d][i] = accepted[d][i]
          /\ accepted'[d][Len(accepted[d]) + 1] = o
      BY <1>2, <1>3
    <3>5. finished'[d] = finished[d]
      BY <1>1
    <3> DEFINE n == Len(queue[d])
               f == Len(finished[d])
    <3>6. /\ n \in Nat /\ f \in Nat /\ Len(accepted[d]) = f + n
          /\ Len(queue'[d]) = n + 1 /\ Len(accepted'[d]) = f + n + 1
          /\ \A i \in 1..n : queue'[d][i] = queue[d][i]
          /\ queue'[d][n + 1] = e
          /\ \A i \in 1..(f + n) : accepted'[d][i] = accepted[d][i]
          /\ accepted'[d][f + n + 1] = o
          /\ \A i \in 1..n : accepted[d][f + i] = queue[d][i].op
      BY <3>1, <3>2, <3>3, <3>4
    <3> HIDE DEF n, f
    <3>7. ASSUME NEW i \in 1..(n + 1)
          PROVE  accepted'[d][f + i] = queue'[d][i].op
      <4>1. CASE i = n + 1
        BY <4>1, <3>6, <1>1
      <4>2. CASE i \in 1..n
        <5>1. f + i \in 1..(f + n)
          BY <4>2, <3>6
        <5> QED BY <4>2, <5>1, <3>6
      <4> QED BY <4>1, <4>2, <3>6
    <3>8. Len(accepted'[d]) = f + Len(queue'[d])
      BY <3>6
    <3> QED BY <2>2, <3>5, <3>6, <3>7, <3>8 DEF f
  <2> QED BY <2>1, <2>2
<1>5. UnderwayIsIssued'
  BY <1>1 DEF HistoryInv, UnderwayIsIssued, Underway, Flying, Handling
<1>6. ClaimedIsNotIssued'
  BY <1>1 DEF HistoryInv, ClaimedIsNotIssued, TypeOK
<1>7. UnclaimedIsNotIssued'
  <2> SUFFICES ASSUME NEW c \in Direction, queue'[c] = <<>> \/ ~queue'[c][1].started
               PROVE  issued[c] = finished[c]
    BY <1>1 DEF UnclaimedIsNotIssued
  <2>1. CASE c # d
    BY <2>1, <1>3 DEF HistoryInv, UnclaimedIsNotIssued
  <2>2. CASE c = d /\ queue[d] = <<>>
    BY <2>2, <1>1 DEF HistoryInv, UnclaimedIsNotIssued
  <2>3. CASE c = d /\ queue[d] # <<>>
    <3>1. queue'[d] # <<>> /\ queue'[d][1] = queue[d][1]
      BY <2>3, <1>1, <1>2, <1>3
    <3> QED BY <2>3, <3>1, <1>1 DEF HistoryInv, UnclaimedIsNotIssued
  <2> QED BY <2>1, <2>2, <2>3
<1>8. QED
  BY <1>4, <1>5, <1>6, <1>7 DEF HistoryInv

LEMMA ClaimHistory ==
  ASSUME IInv, HistoryInv, NEW t \in Threads, Claim(t)
  PROVE  HistoryInv'
<1> DEFINE d == at[t]
           e == [op |-> queue[d][1].op, started |-> TRUE]
<1>1. TypeOK /\ d \in Direction /\ queue[d] # <<>>
  BY DEF IInv, TypeOK, Claim, Claimable
<1>2. /\ queue[d] \in Seq(Entry) /\ Len(queue[d]) \in Nat /\ Len(queue[d]) >= 1
      /\ Head(queue[d]) = queue[d][1] /\ queue[d][1].op \in Ops
      /\ ~queue[d][1].started
  BY <1>1, HeadIsFirst DEF Claim, Claimable
<1>3. /\ e \in Entry /\ e.op = queue[d][1].op /\ e.started = TRUE
      /\ queue' = [queue EXCEPT ![d] = [queue[d] EXCEPT ![1] = e]]
      /\ pc[t] = "do" /\ pc' = [pc EXCEPT ![t] = "call"]
      /\ UNCHANGED <<at, running, inflight, accepted, issued, finished>>
  BY <1>2 DEF Claim, Entry
<1> HIDE DEF e
<1>4. /\ queue'[d] = [queue[d] EXCEPT ![1] = e]
      /\ \A c \in Direction : c # d => queue'[c] = queue[c]
  BY <1>1, <1>3 DEF TypeOK
<1>5. /\ Len(queue'[d]) = Len(queue[d]) /\ queue'[d] # <<>> /\ queue'[d][1] = e
      /\ \A i \in 1..Len(queue[d]) : queue'[d][i].op = queue[d][i].op
  BY <1>2, <1>3, <1>4
<1>6. issued[d] = finished[d]
  BY <1>1, <1>2 DEF HistoryInv, UnclaimedIsNotIssued
<1> HIDE DEF d
<1>7. AcceptedSplits'
  <2> SUFFICES ASSUME NEW c \in Direction
               PROVE  /\ Len(accepted[c]) = Len(finished[c]) + Len(queue'[c])
                      /\ \A i \in 1..Len(queue'[c]) :
                            accepted[c][Len(finished[c]) + i] = queue'[c][i].op
    BY <1>3 DEF AcceptedSplits
  <2>1. /\ Len(accepted[c]) = Len(finished[c]) + Len(queue[c])
        /\ \A i \in 1..Len(queue[c]) :
              accepted[c][Len(finished[c]) + i] = queue[c][i].op
    BY DEF HistoryInv, AcceptedSplits
  <2>2. /\ Len(queue'[c]) = Len(queue[c])
        /\ \A i \in 1..Len(queue[c]) : queue'[c][i].op = queue[c][i].op
    BY <1>4, <1>5
  <2> QED BY <2>1, <2>2
<1>8. UnderwayIsIssued'
  BY <1>3 DEF HistoryInv, UnderwayIsIssued, Underway, Flying, Handling
<1>9. ClaimedIsNotIssued'
  BY <1>1, <1>3, <1>6 DEF HistoryInv, ClaimedIsNotIssued, TypeOK, d
<1>10. UnclaimedIsNotIssued'
  BY <1>3, <1>4, <1>5 DEF HistoryInv, UnclaimedIsNotIssued
<1>11. QED
  BY <1>7, <1>8, <1>9, <1>10 DEF HistoryInv

(* The operation a thread is about to issue is the front of its direction,   *)
(* no other thread is about to issue one there, and none is underway.        *)
LEMMA CallingIsAlone ==
  ASSUME IInv, NEW t \in Threads, pc[t] = "call"
  PROVE  /\ task[t] \in Ops /\ DirectionOf(task[t]) = at[t] /\ at[t] \in Direction
         /\ queue[at[t]] # <<>> /\ queue[at[t]][1].op = task[t]
         /\ queue[at[t]][1].started
         /\ \A u \in Threads : pc[u] = "call" /\ at[u] = at[t] => u = t
<1>1. /\ task[t] \in Ops /\ DirectionOf(task[t]) = at[t] /\ at[t] \in Direction
  BY DEF IInv, TasksMatch, TypeOK
<1>2. Calling(t, task[t])
  BY DEF Calling
<1>3. /\ queue[at[t]] # <<>> /\ queue[at[t]][1].op = task[t]
      /\ queue[at[t]][1].started
  BY <1>1, <1>2 DEF IInv, ActiveIsStartedHead, Active
<1>4. ASSUME NEW u \in Threads, pc[u] = "call", at[u] = at[t]
      PROVE  u = t
  <2>1. task[u] \in Ops /\ DirectionOf(task[u]) = at[t] /\ Calling(u, task[u])
    BY <1>4 DEF IInv, TasksMatch, Calling
  <2>2. task[u] = task[t]
    BY <2>1, <1>3 DEF IInv, ActiveIsStartedHead, Active
  <2> QED BY <2>1, <2>2, <1>1, <1>2 DEF IInv, HeldOnce
<1>5. QED
  BY <1>1, <1>3, <1>4

LEMMA IssueHistory ==
  ASSUME IInv, HistoryInv, NEW t \in Threads, Issue(t)
  PROVE  HistoryInv'
<1> DEFINE d == at[t]
           o == task[t]
<1>1. /\ TypeOK /\ d \in Direction /\ o \in Ops /\ DirectionOf(o) = d
      /\ queue[d] # <<>> /\ queue[d][1].op = o /\ queue[d][1].started
      /\ \A u \in Threads : pc[u] = "call" /\ at[u] = d => u = t
  BY CallingIsAlone DEF IInv, Issue
<1>2. /\ pc[t] = "call" /\ pc' = [pc EXCEPT ![t] = "ready"]
      /\ inflight' = [inflight EXCEPT ![d] = inflight[d] \cup {o}]
      /\ issued' = [issued EXCEPT ![d] = Append(issued[d], o)]
      /\ UNCHANGED <<queue, at, running, accepted, finished>>
  BY DEF Issue
<1>3. /\ issued'[d] = Append(finished[d], o)
      /\ \A c \in Direction : c # d => issued'[c] = issued[c]
  BY <1>1, <1>2 DEF HistoryInv, ClaimedIsNotIssued, TypeOK
<1> HIDE DEF d, o
<1>4. AcceptedSplits'
  BY <1>2 DEF HistoryInv, AcceptedSplits
<1>5. UnderwayIsIssued'
  <2> SUFFICES ASSUME NEW p \in Ops, Underway(p)'
               PROVE  issued'[DirectionOf(p)] = Append(finished[DirectionOf(p)], p)
    BY <1>2 DEF UnderwayIsIssued
  <2>1. p = o \/ Underway(p)
    BY <1>1, <1>2, DirectionType DEF Underway, Flying, Handling, TypeOK
  <2>2. CASE p = o
    BY <2>2, <1>1, <1>3
  <2>3. CASE Underway(p) /\ DirectionOf(p) # d
    BY <2>3, <1>3, DirectionType DEF HistoryInv, UnderwayIsIssued
  <2>4. CASE Underway(p) /\ DirectionOf(p) = d
    BY <2>4, <2>2, <1>1, UnderwayIsActive DEF IInv, ActiveIsStartedHead
  <2> QED BY <2>1, <2>2, <2>3, <2>4
<1>6. ClaimedIsNotIssued'
  <2> SUFFICES ASSUME NEW u \in Threads, pc'[u] = "call"
               PROVE  issued'[at[u]] = finished[at[u]]
    BY <1>2 DEF ClaimedIsNotIssued
  <2>1. u # t /\ pc[u] = "call" /\ at[u] \in Direction
    BY <1>1, <1>2 DEF TypeOK
  <2>2. at[u] # d
    BY <2>1, <1>1
  <2> QED BY <2>1, <2>2, <1>3 DEF HistoryInv, ClaimedIsNotIssued
<1>7. UnclaimedIsNotIssued'
  BY <1>1, <1>2, <1>3 DEF HistoryInv, UnclaimedIsNotIssued
<1>8. QED
  BY <1>4, <1>5, <1>6, <1>7 DEF HistoryInv

(* The entry dequeueX pops is the one issued and not yet popped, and nothing *)
(* else is active in its direction.                                          *)
LEMMA RunningIsAlone ==
  ASSUME IInv, HistoryInv, NEW t \in Threads, running[t] # NoOp, pc[t] = "ready"
  PROVE  LET o == running[t]
             d == DirectionOf(o)
         IN  /\ o \in Ops /\ d \in Direction
             /\ queue[d] # <<>> /\ queue[d][1].op = o
             /\ issued[d] = Append(finished[d], o)
             /\ ~Flying(o)
             /\ \A u \in Threads : /\ Handling(u, o) => u = t
                                   /\ ~(pc[u] = "call" /\ at[u] = d)
<1> DEFINE o == running[t]
           d == DirectionOf(o)
<1>1. /\ o \in Ops /\ d \in Direction
      /\ queue[d] # <<>> /\ queue[d][1].op = o
  BY RunningIsHead, DirectionType DEF IInv
<1>2. Handling(t, o)
  BY DEF Handling
<1>3. issued[d] = Append(finished[d], o)
  BY <1>1, <1>2 DEF HistoryInv, UnderwayIsIssued, Underway
<1>4. ~Flying(o)
  BY <1>1, <1>2 DEF IInv, HeldOnce
<1>5. \A u \in Threads : Handling(u, o) => u = t
  BY <1>1, <1>2 DEF IInv, HeldOnce
<1>6. ASSUME NEW u \in Threads, pc[u] = "call", at[u] = d PROVE FALSE
  <2>1. task[u] = o
    BY <1>1, <1>6, CallingIsAlone
  <2>2. Calling(u, o)
    BY <2>1, <1>6 DEF Calling
  <2>3. u = t
    BY <2>2, <1>1, <1>2 DEF IInv, HeldOnce
  <2> QED BY <2>3, <1>6
<1>7. QED
  BY <1>1, <1>3, <1>4, <1>5, <1>6

LEMMA DequeueHistory ==
  ASSUME IInv, HistoryInv, NEW t \in Threads, Dequeue(t)
  PROVE  HistoryInv'
<1> DEFINE o == running[t]
           d == DirectionOf(o)
<1>1. /\ TypeOK /\ pc[t] = "ready" /\ o # NoOp
      /\ queue' = [queue EXCEPT ![d] = Tail(queue[d])]
      /\ finished' = [finished EXCEPT ![d] = Append(finished[d], o)]
      /\ running' = [running EXCEPT ![t] = NoOp]
      /\ pc' = [pc EXCEPT ![t] = "do"] /\ at' = [at EXCEPT ![t] = d]
      /\ UNCHANGED <<inflight, accepted, issued>>
  BY DEF IInv, Dequeue
<1>2. /\ o \in Ops /\ d \in Direction
      /\ queue[d] # <<>> /\ queue[d][1].op = o
      /\ issued[d] = Append(finished[d], o)
      /\ ~Flying(o)
      /\ \A u \in Threads : /\ Handling(u, o) => u = t
                            /\ ~(pc[u] = "call" /\ at[u] = d)
  BY <1>1, RunningIsAlone
<1>3. DirectionOf(o) = d
  OBVIOUS
<1> HIDE DEF d, o
<1>4. /\ queue'[d] = Tail(queue[d]) /\ finished'[d] = Append(finished[d], o)
      /\ \A c \in Direction : c # d => queue'[c] = queue[c] /\ finished'[c] = finished[c]
  BY <1>1, <1>2 DEF TypeOK
<1>5. /\ queue[d] \in Seq(Entry) /\ Len(queue[d]) \in Nat /\ Len(queue[d]) >= 1
      /\ finished[d] \in Seq(Ops) /\ accepted[d] \in Seq(Ops)
  BY <1>1, <1>2, HeadIsFirst DEF TypeOK
<1>6. AcceptedSplits'
  <2> SUFFICES ASSUME NEW c \in Direction
               PROVE  /\ Len(accepted[c]) = Len(finished'[c]) + Len(queue'[c])
                      /\ \A i \in 1..Len(queue'[c]) :
                            accepted[c][Len(finished'[c]) + i] = queue'[c][i].op
    BY <1>1 DEF AcceptedSplits
  <2>1. CASE c # d
    BY <2>1, <1>4 DEF HistoryInv, AcceptedSplits
  <2>2. CASE c = d
    <3>1. /\ Len(accepted[d]) = Len(finished[d]) + Len(queue[d])
          /\ \A i \in 1..Len(queue[d]) :
                accepted[d][Len(finished[d]) + i] = queue[d][i].op
      BY <1>2 DEF HistoryInv, AcceptedSplits
    <3>2. /\ Len(queue'[d]) = Len(queue[d]) - 1
          /\ \A i \in 1..Len(queue'[d]) : queue'[d][i] = queue[d][i + 1]
          /\ Len(finished'[d]) = Len(finished[d]) + 1
          /\ Len(finished[d]) \in Nat
      BY <1>4, <1>5, <1>2
    <3>4. Len(accepted[d]) = Len(finished'[d]) + Len(queue'[d])
      <4> DEFINE n == Len(queue[d])
                 f == Len(finished[d])
      <4>1. /\ n \in Nat /\ f \in Nat /\ Len(accepted[d]) = f + n
            /\ Len(queue'[d]) = n - 1 /\ Len(finished'[d]) = f + 1
        BY <3>1, <3>2, <1>5
      <4> HIDE DEF n, f
      <4> QED BY <4>1
    <3>3. ASSUME NEW i \in 1..Len(queue'[d])
          PROVE  accepted[d][Len(finished'[d]) + i] = queue'[d][i].op
      <4>1. i + 1 \in 1..Len(queue[d])
            /\ Len(finished'[d]) + i = Len(finished[d]) + (i + 1)
        <5> DEFINE n == Len(queue[d])
                   f == Len(finished[d])
        <5>1. /\ n \in Nat /\ f \in Nat
              /\ Len(queue'[d]) = n - 1 /\ Len(finished'[d]) = f + 1
          BY <3>2, <1>5
        <5> HIDE DEF n, f
        <5>2. i \in 1..(n - 1)
          BY <5>1
        <5>3. i + 1 \in 1..n /\ (f + 1) + i = f + (i + 1)
          BY <5>1, <5>2
        <5> QED BY <5>1, <5>3 DEF n, f
      <4> QED BY <4>1, <3>1, <3>2
    <3> QED BY <2>2, <3>3, <3>4
  <2> QED BY <2>1, <2>2
<1>7. UnderwayIsIssued'
  <2> SUFFICES ASSUME NEW p \in Ops, Underway(p)'
               PROVE  issued[DirectionOf(p)] = Append(finished'[DirectionOf(p)], p)
    BY <1>1 DEF UnderwayIsIssued
  <2>1. Underway(p) /\ p # o
    <3>1. \A u \in Threads : Handling(u, p)' => u # t /\ Handling(u, p)
      BY <1>1, ConnectionAssumption DEF Handling, TypeOK
    <3>2. Flying(p)' <=> Flying(p)
      BY <1>1 DEF Flying
    <3> QED BY <3>1, <3>2, <1>2 DEF Underway
  <2>2. DirectionOf(p) # d
    BY <2>1, <1>2, UnderwayIsActive DEF IInv, ActiveIsStartedHead
  <2> QED BY <2>1, <2>2, <1>4, DirectionType DEF HistoryInv, UnderwayIsIssued
<1>8. ClaimedIsNotIssued'
  <2> SUFFICES ASSUME NEW u \in Threads, pc'[u] = "call"
               PROVE  issued[at'[u]] = finished'[at'[u]]
    BY <1>1 DEF ClaimedIsNotIssued
  <2>1. u # t /\ pc[u] = "call" /\ at'[u] = at[u] /\ at[u] \in Direction
    BY <1>1 DEF TypeOK
  <2>2. at[u] # d
    BY <2>1, <1>2
  <2> QED BY <2>1, <2>2, <1>4 DEF HistoryInv, ClaimedIsNotIssued
<1>9. UnclaimedIsNotIssued'
  BY <1>1, <1>2, <1>4 DEF HistoryInv, UnclaimedIsNotIssued
<1>10. QED
  BY <1>6, <1>7, <1>8, <1>9 DEF HistoryInv

(* Steps that leave queue and histories alone and start no operation.        *)
LEMMA QuietHistory ==
  ASSUME HistoryInv, UNCHANGED <<queue, accepted, issued, finished, at>>,
         \A o \in Ops : Underway(o)' => Underway(o),
         \A t \in Threads : pc'[t] = "call" => pc[t] = "call"
  PROVE  HistoryInv'
<1>1. AcceptedSplits' /\ UnclaimedIsNotIssued'
  BY DEF HistoryInv, AcceptedSplits, UnclaimedIsNotIssued
<1>2. UnderwayIsIssued'
  BY DEF HistoryInv, UnderwayIsIssued
<1>3. ClaimedIsNotIssued'
  BY DEF HistoryInv, ClaimedIsNotIssued
<1>4. QED
  BY <1>1, <1>2, <1>3 DEF HistoryInv

LEMMA StepHistory == IInv /\ HistoryInv /\ [Next]_vars => HistoryInv'
<1> SUFFICES ASSUME IInv, HistoryInv, [Next]_vars PROVE HistoryInv'
  OBVIOUS
<1>1. TypeOK
  BY DEF IInv
<1>2. ASSUME NEW t \in Threads, NEW o \in Ops, Enqueue(t, o) PROVE HistoryInv'
  BY <1>2, EnqueueHistory
<1>3. ASSUME NEW t \in Threads, Claim(t) PROVE HistoryInv'
  BY <1>3, ClaimHistory
<1>4. ASSUME NEW t \in Threads, NothingToClaim(t) PROVE HistoryInv'
  BY <1>1, <1>4, QuietHistory
     DEF NothingToClaim, Underway, Flying, Handling, TypeOK
<1>5. ASSUME NEW t \in Threads, Issue(t) PROVE HistoryInv'
  BY <1>5, IssueHistory
<1>6. ASSUME NEW t \in Threads, NEW o \in Ops, Complete(t, o) PROVE HistoryInv'
  <2>1. \A p \in Ops : Underway(p)' => Underway(p)
    <3>1. Underway(o)
      BY <1>6 DEF Complete, Underway, Flying
    <3>2. \A p \in Ops : Flying(p)' => Flying(p)
      BY <1>1, <1>6, DirectionType DEF Complete, Flying, TypeOK
    <3>3. \A p \in Ops, u \in Threads : Handling(u, p)' => p = o \/ Handling(u, p)
      BY <1>1, <1>6 DEF Complete, Handling, TypeOK
    <3> QED BY <3>1, <3>2, <3>3 DEF Underway
  <2> QED BY <1>6, <2>1, QuietHistory DEF Complete
<1>7. ASSUME NEW t \in Threads, Dequeue(t) PROVE HistoryInv'
  BY <1>7, DequeueHistory
<1>8. ASSUME NEW t \in Threads, HandlerThrows(t) PROVE HistoryInv'
  <2>1. \A p \in Ops : Underway(p)' => Underway(p)
    BY <1>1, <1>8, ConnectionAssumption
       DEF HandlerThrows, Underway, Flying, Handling, TypeOK
  <2> QED BY <1>8, <2>1, QuietHistory DEF HandlerThrows
<1>9. ASSUME NEW t \in Threads, Stop(t) PROVE HistoryInv'
  BY <1>9, QuietHistory DEF Stop, Underway, Flying, Handling
<1>10. CASE UNCHANGED vars
  BY <1>10, QuietHistory DEF vars, Underway, Flying, Handling
<1>11. QED
  BY <1>2, <1>3, <1>4, <1>5, <1>6, <1>7, <1>8, <1>9, <1>10
     DEF Next, Step, QueueStep, HandlerStep

-----------------------------------------------------------------------------
(* The steps of one direction, as its histories show them.                   *)
Accepts(d) ==
  \E o \in Ops : /\ DirectionOf(o) = d
                 /\ accepted'[d] = Append(accepted[d], o)
                 /\ issued'[d] = issued[d] /\ finished'[d] = finished[d]

Begins(d) ==
  /\ issued[d] = finished[d]
  /\ Len(issued[d]) < Len(accepted[d])
  /\ issued'[d] = Append(issued[d], accepted[d][Len(issued[d]) + 1])
  /\ accepted'[d] = accepted[d] /\ finished'[d] = finished[d]

Finishes(d) ==
  /\ Len(finished[d]) < Len(issued[d])
  /\ finished'[d] = issued[d]
  /\ accepted'[d] = accepted[d] /\ issued'[d] = issued[d]

Idles(d) ==
  accepted'[d] = accepted[d] /\ issued'[d] = issued[d] /\ finished'[d] = finished[d]

(* Seen from one direction, every step accepts, begins or finishes an        *)
(* operation, or does nothing.                                               *)
LEMMA SideSteps ==
  ASSUME IInv, HistoryInv, [Next]_vars, NEW d \in Direction
  PROVE  Accepts(d) \/ Begins(d) \/ Finishes(d) \/ Idles(d)
<1>1. TypeOK
  BY DEF IInv
<1>2. ASSUME NEW t \in Threads, NEW o \in Ops, Enqueue(t, o)
      PROVE  Accepts(d) \/ Idles(d)
  <2>1. CASE DirectionOf(o) = d
    BY <2>1, <1>1, <1>2 DEF Enqueue, Accepts, TypeOK
  <2>2. CASE DirectionOf(o) # d
    BY <2>2, <1>1, <1>2 DEF Enqueue, Idles, TypeOK
  <2> QED BY <2>1, <2>2
<1>3. ASSUME NEW t \in Threads, Issue(t)
      PROVE  Begins(d) \/ Idles(d)
  <2>1. CASE at[t] = d
    <3>1. pc[t] = "call"
      BY <1>3 DEF Issue
    <3>2. queue[d] # <<>> /\ queue[d][1].op = task[t]
      BY <2>1, <3>1, CallingIsAlone
    <3>3. issued[d] = finished[d]
      BY <2>1, <3>1 DEF HistoryInv, ClaimedIsNotIssued
    <3>4. /\ Len(queue[d]) \in Nat /\ Len(queue[d]) >= 1
          /\ finished[d] \in Seq(Ops) /\ Len(finished[d]) \in Nat
      BY <1>1, <3>2, HeadIsFirst DEF TypeOK
    <3>5. /\ Len(accepted[d]) = Len(finished[d]) + Len(queue[d])
          /\ accepted[d][Len(finished[d]) + 1] = task[t]
      <4>1. 1 \in 1..Len(queue[d])
        BY <3>4
      <4> QED BY <4>1, <3>2 DEF HistoryInv, AcceptedSplits
    <3>6. /\ issued'[d] = Append(issued[d], task[t])
          /\ accepted'[d] = accepted[d] /\ finished'[d] = finished[d]
      BY <2>1, <1>1, <1>3 DEF Issue, TypeOK
    <3>7. Len(issued[d]) < Len(accepted[d])
      <4> DEFINE n == Len(queue[d])
                 f == Len(finished[d])
      <4>1. n \in Nat /\ n >= 1 /\ f \in Nat /\ Len(accepted[d]) = f + n
        BY <3>4, <3>5
      <4>2. Len(issued[d]) = f
        BY <3>3
      <4> HIDE DEF n, f
      <4> QED BY <4>1, <4>2
    <3> QED BY <3>3, <3>5, <3>6, <3>7 DEF Begins
  <2>2. CASE at[t] # d
    BY <2>2, <1>1, <1>3 DEF Issue, Idles, TypeOK
  <2> QED BY <2>1, <2>2
<1>4. ASSUME NEW t \in Threads, Dequeue(t)
      PROVE  Finishes(d) \/ Idles(d)
  <2>1. CASE DirectionOf(running[t]) = d
    <3>1. issued[d] = Append(finished[d], running[t]) /\ running[t] \in Ops
      BY <2>1, <1>4, RunningIsAlone DEF Dequeue
    <3>2. finished[d] \in Seq(Ops)
      BY <1>1 DEF TypeOK
    <3>3. Len(finished[d]) < Len(issued[d])
      BY <3>1, <3>2
    <3>4. /\ finished'[d] = Append(finished[d], running[t])
          /\ accepted'[d] = accepted[d] /\ issued'[d] = issued[d]
      BY <2>1, <1>1, <1>4 DEF Dequeue, TypeOK
    <3> QED BY <3>1, <3>3, <3>4 DEF Finishes
  <2>2. CASE DirectionOf(running[t]) # d
    BY <2>2, <1>1, <1>4 DEF Dequeue, Idles, TypeOK
  <2> QED BY <2>1, <2>2
<1>5. ASSUME NEW t \in Threads,
             \/ Claim(t) \/ NothingToClaim(t) \/ HandlerThrows(t) \/ Stop(t)
             \/ \E o \in Ops : Complete(t, o)
      PROVE  Idles(d)
  BY <1>5 DEF Claim, NothingToClaim, HandlerThrows, Stop, Complete, Idles
<1>6. CASE UNCHANGED vars
  BY <1>6 DEF vars, Idles
<1>7. QED
  BY <1>2, <1>3, <1>4, <1>5, <1>6 DEF Next, Step, QueueStep, HandlerStep

LEMMA ReadStep == IInv /\ HistoryInv /\ [Next]_vars => [ReadSide!Next]_(ReadSide!vars)
<1> SUFFICES ASSUME IInv, HistoryInv, [Next]_vars
             PROVE  [ReadSide!Next]_(ReadSide!vars)
  OBVIOUS
<1>1. "read" \in Direction
  BY DEF Direction
<1>2. CASE Accepts("read")
  <2>1. PICK o \in Ops : /\ DirectionOf(o) = "read"
                         /\ accepted'["read"] = Append(accepted["read"], o)
                         /\ issued'["read"] = issued["read"]
                         /\ finished'["read"] = finished["read"]
    BY <1>2 DEF Accepts
  <2>2. o \in ReadOps
    BY <2>1 DEF DirectionOf
  <2> QED BY <2>1, <2>2 DEF ReadSide!Next, ReadSide!Accept
<1>3. CASE Begins("read")
  BY <1>3 DEF Begins, ReadSide!Next, ReadSide!Begin
<1>4. CASE Finishes("read")
  BY <1>4 DEF Finishes, ReadSide!Next, ReadSide!Finish
<1>5. CASE Idles("read")
  BY <1>5 DEF Idles, ReadSide!vars
<1>6. QED
  BY <1>1, <1>2, <1>3, <1>4, <1>5, SideSteps

LEMMA WriteStep == IInv /\ HistoryInv /\ [Next]_vars => [WriteSide!Next]_(WriteSide!vars)
<1> SUFFICES ASSUME IInv, HistoryInv, [Next]_vars
             PROVE  [WriteSide!Next]_(WriteSide!vars)
  OBVIOUS
<1>1. "write" \in Direction
  BY DEF Direction
<1>2. CASE Accepts("write")
  <2>1. PICK o \in Ops : /\ DirectionOf(o) = "write"
                         /\ accepted'["write"] = Append(accepted["write"], o)
                         /\ issued'["write"] = issued["write"]
                         /\ finished'["write"] = finished["write"]
    BY <1>2 DEF Accepts
  <2>2. o \in WriteOps
    BY <2>1 DEF DirectionOf, Ops
  <2> QED BY <2>1, <2>2 DEF WriteSide!Next, WriteSide!Accept
<1>3. CASE Begins("write")
  BY <1>3 DEF Begins, WriteSide!Next, WriteSide!Begin
<1>4. CASE Finishes("write")
  BY <1>4 DEF Finishes, WriteSide!Next, WriteSide!Finish
<1>5. CASE Idles("write")
  BY <1>5 DEF Idles, WriteSide!vars
<1>6. QED
  BY <1>1, <1>2, <1>3, <1>4, <1>5, SideSteps

(* Both sides begin empty.                                                   *)
LEMMA InitSides == Init => ReadSide!Init /\ WriteSide!Init
  BY DEF Init, ReadSide!Init, WriteSide!Init, Direction

(* Each direction of a connection is a serial executor: it begins operations *)
(* in the order they were accepted, one at a time, and none before the       *)
(* handler of the one before it returned - for any number of threads that    *)
(* call asyncX and run completions, and whichever handlers throw.            *)
THEOREM Refinement == Spec => ImplementsSerialQueues
<1>1. Spec => [](IInv /\ HistoryInv)
  BY InitIInv, StepIInv, InitHistory, StepHistory, PTL DEF Spec
<1>2. Spec => ReadSide!Spec
  BY <1>1, InitSides, ReadStep, PTL DEF Spec, ReadSide!Spec
<1>3. Spec => WriteSide!Spec
  BY <1>1, InitSides, WriteStep, PTL DEF Spec, WriteSide!Spec
<1>4. QED
  BY <1>2, <1>3 DEF ImplementsSerialQueues
=============================================================================

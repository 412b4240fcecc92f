------------------------------ MODULE Connection ------------------------------
(***************************************************************************)
(* The operation queues of a Connection (inc/connection.hh,                *)
(* src/connection.cc).  A connection serialises its socket operations per  *)
(* direction: asyncRead/asyncReadUntil push onto read_queue_, asyncWrite   *)
(* onto write_queue_, each entry a closure with a "started" flag.  The     *)
(* queue is only touched under the mutex of its direction, but the closure *)
(* runs, and the completion handler of the operation runs, outside of it:  *)
(* any number of threads may be between those critical sections.           *)
(*                                                                         *)
(* The two directions are the same code (ASYNC_APPLY is a macro over the   *)
(* direction), so the module indexes everything by Direction.  What an     *)
(* operation transfers is not modelled, only its life: accepted (pushed),  *)
(* claimed, issued (handed to asio), its handler run, popped.              *)
(***************************************************************************)
EXTENDS Naturals, Sequences

CONSTANTS
  Threads,    (* all threads that use the connection                        *)
  IoThreads,  (* those inside io_service::run(): they run the completions   *)
  ReadOps,    (* asyncRead / asyncReadUntil calls, each made at most once   *)
  WriteOps,   (* asyncWrite calls, each made at most once                   *)
  Throwing,   (* the operations whose user handler throws                   *)
  NoOp        (* no operation                                               *)

Ops == ReadOps \cup WriteOps

ASSUME ConnectionAssumption ==
  /\ IoThreads \subseteq Threads
  /\ ReadOps \cap WriteOps = {}
  /\ NoOp \notin Ops
  /\ Throwing \subseteq Ops

Direction == {"read", "write"}

DirectionOf(o) == IF o \in ReadOps THEN "read" ELSE "write"

VARIABLES
  queue,     (* queue[d]: read_queue_ / write_queue_                        *)
  pc,        (* pc[t]: where t is in enqueue/dequeue/do ("ready": elsewhere)*)
  at,        (* at[t]: the direction t's queue code works on                *)
  task,      (* task[t]: the closure t claimed and is about to call         *)
  running,   (* running[t]: the operation whose handler t is executing      *)
  inflight,  (* inflight[d]: operations asio owns, not yet completed        *)
  stopped,   (* stop() was called: asio completes whatever it owns          *)
  accepted,  (* accepted[d]: history of the operations pushed               *)
  issued,    (* issued[d]: history of the operations handed to asio         *)
  finished   (* finished[d]: history of the operations popped               *)

vars == <<queue, pc, at, task, running, inflight, stopped,
          accepted, issued, finished>>

Entry == [op : Ops, started : BOOLEAN]

Fresh(o) == \A i \in 1..Len(accepted[DirectionOf(o)]) :
               accepted[DirectionOf(o)][i] # o

Init ==
  /\ queue = [d \in Direction |-> <<>>]
  /\ pc = [t \in Threads |-> "ready"]
  /\ at = [t \in Threads |-> "read"]
  /\ task = [t \in Threads |-> NoOp]
  /\ running = [t \in Threads |-> NoOp]
  /\ inflight = [d \in Direction |-> {}]
  /\ stopped = FALSE
  /\ accepted = [d \in Direction |-> <<>>]
  /\ issued = [d \in Direction |-> <<>>]
  /\ finished = [d \in Direction |-> <<>>]

-----------------------------------------------------------------------------
(* Slips the properties below must detect (used by the mutation runs only).  *)
EnqueueAtFront(t, o) ==
  LET d == DirectionOf(o) IN
  /\ pc[t] = "ready" /\ Fresh(o)
  /\ queue' = [queue EXCEPT ![d] = <<[op |-> o, started |-> FALSE]>> \o @]
  /\ accepted' = [accepted EXCEPT ![d] = Append(@, o)]
  /\ pc' = [pc EXCEPT ![t] = "do"] /\ at' = [at EXCEPT ![t] = d]
  /\ UNCHANGED <<task, running, inflight, stopped, issued, finished>>

ClaimableIgnoringFlag(d) == queue[d] # <<>>

DequeueWithoutDo(t) ==
  LET d == DirectionOf(running[t]) IN
  /\ pc[t] = "ready" /\ running[t] # NoOp /\ running[t] \notin Throwing
  /\ queue' = [queue EXCEPT ![d] = Tail(@)]
  /\ finished' = [finished EXCEPT ![d] = Append(@, running[t])]
  /\ running' = [running EXCEPT ![t] = NoOp]
  /\ UNCHANGED <<pc, at, task, inflight, stopped, accepted, issued>>

(* asyncRead / asyncReadUntil / asyncWrite up to the end of enqueueX's       *)
(* critical section; doX follows.  A thread inside a handler may do it too.  *)
Enqueue(t, o) ==
  LET d == DirectionOf(o) IN
  /\ pc[t] = "ready"
  /\ Fresh(o)
  /\ queue' = [queue EXCEPT ![d] = Append(@, [op |-> o, started |-> FALSE])]
  /\ accepted' = [accepted EXCEPT ![d] = Append(@, o)]
  /\ pc' = [pc EXCEPT ![t] = "do"]
  /\ at' = [at EXCEPT ![t] = d]
  /\ UNCHANGED <<task, running, inflight, stopped, issued, finished>>

Claimable(d) == queue[d] # <<>> /\ ~Head(queue[d]).started

(* doX's critical section: take the front closure unless it was taken.       *)
Claim(t) ==
  LET d == at[t] IN
  /\ pc[t] = "do"
  /\ Claimable(d)
  /\ queue' = [queue EXCEPT ![d] = [@ EXCEPT ![1] =
                 [op |-> Head(queue[d]).op, started |-> TRUE]]]
  /\ task' = [task EXCEPT ![t] = Head(queue[d]).op]
  /\ pc' = [pc EXCEPT ![t] = "call"]
  /\ UNCHANGED <<at, running, inflight, stopped, accepted, issued, finished>>

(* doX returns early: nothing queued, or the front one is already started.   *)
NothingToClaim(t) ==
  /\ pc[t] = "do"
  /\ ~Claimable(at[t])
  /\ pc' = [pc EXCEPT ![t] = "ready"]
  /\ UNCHANGED <<queue, at, task, running, inflight, stopped,
                 accepted, issued, finished>>

(* doX calls the closure outside the mutex: the operation is asio's now.     *)
Issue(t) ==
  LET d == at[t] IN
  /\ pc[t] = "call"
  /\ inflight' = [inflight EXCEPT ![d] = @ \cup {task[t]}]
  /\ issued' = [issued EXCEPT ![d] = Append(@, task[t])]
  /\ task' = [task EXCEPT ![t] = NoOp]
  /\ pc' = [pc EXCEPT ![t] = "ready"]
  /\ UNCHANGED <<queue, at, running, stopped, accepted, finished>>

(* asio completes an operation, with or without an error: an io thread       *)
(* enters the handle of ASYNC_APPLY, which first calls the user's handler.   *)
Complete(t, o) ==
  /\ t \in IoThreads
  /\ pc[t] = "ready" /\ running[t] = NoOp
  /\ o \in inflight[DirectionOf(o)]
  /\ inflight' = [inflight EXCEPT ![DirectionOf(o)] = @ \ {o}]
  /\ running' = [running EXCEPT ![t] = o]
  /\ UNCHANGED <<queue, pc, at, task, stopped, accepted, issued, finished>>

(* The user's handler returned: dequeueX pops the front, and doX follows.    *)
Dequeue(t) ==
  LET d == DirectionOf(running[t]) IN
  /\ pc[t] = "ready" /\ running[t] # NoOp
  /\ running[t] \notin Throwing
  /\ queue' = [queue EXCEPT ![d] = Tail(@)]
  /\ finished' = [finished EXCEPT ![d] = Append(@, running[t])]
  /\ running' = [running EXCEPT ![t] = NoOp]
  /\ pc' = [pc EXCEPT ![t] = "do"]
  /\ at' = [at EXCEPT ![t] = d]
  /\ UNCHANGED <<task, inflight, stopped, accepted, issued>>

(* The user's handler threw: dequeueX is skipped and the exception leaves    *)
(* io_service::run(), which the application enters again.                    *)
HandlerThrows(t) ==
  /\ pc[t] = "ready" /\ running[t] \in Throwing
  /\ running' = [running EXCEPT ![t] = NoOp]
  /\ UNCHANGED <<queue, pc, at, task, inflight, stopped,
                 accepted, issued, finished>>

(* TcpConnection::stop(): once; pending operations then complete, aborted.   *)
Stop(t) ==
  /\ pc[t] = "ready" /\ ~stopped
  /\ stopped' = TRUE
  /\ UNCHANGED <<queue, pc, at, task, running, inflight,
                 accepted, issued, finished>>

QueueStep(t) == Claim(t) \/ NothingToClaim(t) \/ Issue(t)

HandlerStep(t) == Dequeue(t) \/ HandlerThrows(t)

Step(t) ==
  \/ \E o \in Ops : Enqueue(t, o) \/ Complete(t, o)
  \/ QueueStep(t)
  \/ HandlerStep(t)
  \/ Stop(t)

Next == \E t \in Threads : Step(t)

Spec == Init /\ [][Next]_vars

(***************************************************************************)
(* Fairness: a thread inside the queue code is not descheduled for ever    *)
(* (it never blocks there), a handler returns, and asio completes what it  *)
(* owns once the socket is closed.  Before stop() nothing obliges the peer *)
(* to let an operation complete.                                           *)
(***************************************************************************)
CompleteStopped == stopped /\ \E t \in IoThreads, o \in Ops : Complete(t, o)

FairSpec ==
  /\ Spec
  /\ \A t \in Threads : WF_vars(QueueStep(t)) /\ WF_vars(HandlerStep(t))
  /\ WF_vars(CompleteStopped)

-----------------------------------------------------------------------------
(* The variables take values of their types.                                *)
TypeOK ==
  /\ queue \in [Direction -> Seq(Entry)]
  /\ pc \in [Threads -> {"ready", "do", "call"}]
  /\ at \in [Threads -> Direction]
  /\ task \in [Threads -> Ops \cup {NoOp}]
  /\ running \in [Threads -> Ops \cup {NoOp}]
  /\ inflight \in [Direction -> SUBSET Ops]
  /\ stopped \in BOOLEAN
  /\ accepted \in [Direction -> Seq(Ops)]
  /\ issued \in [Direction -> Seq(Ops)]
  /\ finished \in [Direction -> Seq(Ops)]

(* An operation is active from the moment a thread claims it until its       *)
(* handler is left.                                                          *)
Calling(t, o) == pc[t] = "call" /\ task[t] = o
Flying(o) == o \in inflight[DirectionOf(o)]
Handling(t, o) == running[t] = o
Active(o) == Flying(o) \/ \E t \in Threads : Calling(t, o) \/ Handling(t, o)

(* One operation per direction at a time: two reads never share the read     *)
(* buffer and two writes never interleave their bytes, whichever threads     *)
(* call asyncX and run completions (the purpose of the started flag).        *)
OneActivePerDirection ==
  /\ \A o, p \in Ops : Active(o) /\ Active(p) /\ o # p
                          => DirectionOf(o) # DirectionOf(p)
  /\ \A o \in Ops, t, u \in Threads :
        (Calling(t, o) \/ Handling(t, o)) /\ (Calling(u, o) \/ Handling(u, o))
           => t = u /\ ~Flying(o)

(* dequeueX pops without looking: the front must be the operation whose      *)
(* handler just ran, never a queued one that has not run, and the queue must *)
(* not be empty (std::queue::pop would be undefined).                        *)
PopsItsOwnOperation ==
  \A t \in Threads : running[t] # NoOp =>
     LET q == queue[DirectionOf(running[t])] IN
     q # <<>> /\ Head(q) = [op |-> running[t], started |-> TRUE]

(* No lost wake-up: while an operation waits at the front unclaimed, some    *)
(* thread is on its way to claim it, although push and claim, and pop and    *)
(* claim, are separate critical sections.                                    *)
NoStrandedQueue ==
  \A d \in Direction :
     Claimable(d) => \E t \in Threads : pc[t] = "do" /\ at[t] = d

(* A handler that throws wedges its direction: its entry is never popped     *)
(* (ASYNC_APPLY calls dequeueX only after the handler returned).             *)
Wedged(d) ==
  /\ queue[d] # <<>> /\ Head(queue[d]).started /\ ~Active(Head(queue[d]).op)

(* After stop() every operation ever accepted gets its handler called and    *)
(* leaves the queue, so the queue lets go of the connection it keeps alive;  *)
(* only a direction wedged by a handler that threw keeps what it holds.      *)
IsFinished(o) == \E i \in 1..Len(finished[DirectionOf(o)]) :
                    finished[DirectionOf(o)][i] = o
StopDrains ==
  \A o \in Ops : stopped /\ ~Fresh(o) ~> IsFinished(o) \/ Wedged(DirectionOf(o))

(* What the queue promises its callers: a serial executor per direction,     *)
(* which begins and finishes the operations one by one in the order accepted.*)
ReadSide == INSTANCE SerialQueue WITH
  Items <- ReadOps, accepted <- accepted["read"],
  begun <- issued["read"], done <- finished["read"]
WriteSide == INSTANCE SerialQueue WITH
  Items <- WriteOps, accepted <- accepted["write"],
  begun <- issued["write"], done <- finished["write"]

ImplementsSerialQueues == ReadSide!Spec /\ WriteSide!Spec
=============================================================================

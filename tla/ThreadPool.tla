------------------------------ MODULE ThreadPool ------------------------------
(***************************************************************************)
(* The thread pool (inc/ThreadPool.hh, src/ThreadPool.cc): a queue of      *)
(* tasks under one mutex, a condition variable, worker threads that wait   *)
(* on it, and a destructor that lets the workers drain the queue.          *)
(*                                                                         *)
(* A step of a thread is one critical section, or one operation outside of *)
(* the mutex: enqueue pushes under the mutex but notifies after releasing  *)
(* it, a woken worker takes the mutex again and finds whatever other       *)
(* threads left, and the condition variable may wake spuriously.           *)
(***************************************************************************)
EXTENDS Naturals, Sequences, FiniteSets

CONSTANTS
  Workers,  (* the worker threads                                           *)
  Clients,  (* the other threads that call enqueue                          *)
  Tasks     (* the tasks, each enqueued at most once                        *)

ASSUME ThreadPoolAssumption ==
  /\ Workers # {} /\ IsFiniteSet(Workers) /\ IsFiniteSet(Clients)
  /\ Workers \cap Clients = {}

Threads == Workers \cup Clients

VARIABLES
  tasks,      (* the queue of tasks not yet taken                           *)
  worker,     (* worker[w]: where the worker thread is                      *)
  job,        (* job[w]: the task w is running, a set of at most one        *)
  caller,     (* caller[t]: where t is in enqueue ("out", "notify",         *)
              (* "returned": enqueue returned, size() may be called)        *)
  stopped,    (* the flag the destructor sets                               *)
  dtor,       (* where the destructor is ("alive": not yet called)          *)
  pushed,     (* history: the tasks pushed, in order                        *)
  started,    (* history: the tasks taken, in order                         *)
  ended       (* history: the tasks that returned (their future is ready)   *)

vars == <<tasks, worker, job, caller, stopped, dtor, pushed, started, ended>>

WorkerPC == {"entering", "top", "waiting", "woken", "running", "exiting", "done"}
DtorPC == {"alive", "notify", "join", "done"}

Waiting == {w \in Workers : worker[w] = "waiting"}
Awake == {w \in Workers : worker[w] \in {"entering", "top", "woken"}}
Notifying == {t \in Threads : caller[t] = "notify"}

Init ==
  /\ tasks = <<>>
  /\ worker = [w \in Workers |-> "entering"]
  /\ job = [w \in Workers |-> {}]
  /\ caller = [t \in Threads |-> "out"]
  /\ stopped = FALSE
  /\ dtor = "alive"
  /\ pushed = <<>>
  /\ started = <<>>
  /\ ended = {}

-----------------------------------------------------------------------------
(* enqueue / wait_to_enqueue.  A client calls it before the destructor is    *)
(* entered (the warning of wait_to_enqueue); a task may call it from the     *)
(* worker that runs it, even while the destructor waits for that worker.     *)
MayEnqueue(t) ==
  /\ caller[t] # "notify"
  /\ IF t \in Clients THEN dtor = "alive" ELSE worker[t] = "running"

IsPushed(k) == \E i \in 1..Len(pushed) : pushed[i] = k

(* Slips the properties below must detect (used by the mutation runs only).  *)
PushInFront(t, k) ==
  /\ MayEnqueue(t) /\ ~IsPushed(k)
  /\ tasks' = <<k>> \o tasks
  /\ pushed' = Append(pushed, k)
  /\ caller' = [caller EXCEPT ![t] = "notify"]
  /\ UNCHANGED <<worker, job, stopped, dtor, started, ended>>

PushOnlyWakesIfEmpty(t, k) ==
  /\ MayEnqueue(t) /\ ~IsPushed(k)
  /\ tasks' = Append(tasks, k)
  /\ pushed' = Append(pushed, k)
  /\ caller' = [caller EXCEPT ![t] = IF tasks = <<>> THEN "notify" ELSE "returned"]
  /\ UNCHANGED <<worker, job, stopped, dtor, started, ended>>

SleepIgnoringStop(w) ==
  /\ worker[w] \in {"top", "woken"} /\ tasks = <<>>
  /\ worker' = [worker EXCEPT ![w] = "waiting"]
  /\ UNCHANGED <<tasks, job, caller, stopped, dtor, pushed, started, ended>>

LeaveWhenStopped(w) ==
  /\ worker[w] \in {"top", "woken"} /\ stopped
  /\ worker' = [worker EXCEPT ![w] = "exiting"]
  /\ UNCHANGED <<tasks, job, caller, stopped, dtor, pushed, started, ended>>

(* wait_to_enqueue's critical section.                                       *)
Push(t, k) ==
  /\ MayEnqueue(t)
  /\ ~IsPushed(k)
  /\ tasks' = Append(tasks, k)
  /\ pushed' = Append(pushed, k)
  /\ caller' = [caller EXCEPT ![t] = "notify"]
  /\ UNCHANGED <<worker, job, stopped, dtor, started, ended>>

(* condition.notify_one(), after the mutex was released.                     *)
NotifyOne(t) ==
  /\ caller[t] = "notify"
  /\ caller' = [caller EXCEPT ![t] = "returned"]
  /\ \/ Waiting = {} /\ UNCHANGED worker
     \/ \E w \in Waiting : worker' = [worker EXCEPT ![w] = "woken"]
  /\ UNCHANGED <<tasks, job, stopped, dtor, pushed, started, ended>>

(* size(), called after enqueue returned: it sees Len(tasks), which is 0 if a *)
(* worker has taken the task already.                                        *)
Size(t) ==
  /\ t \in Clients
  /\ caller[t] = "returned" /\ dtor = "alive"
  /\ caller' = [caller EXCEPT ![t] = "out"]
  /\ UNCHANGED <<tasks, worker, job, stopped, dtor, pushed, started, ended>>

-----------------------------------------------------------------------------
(* The worker's loop.                                                        *)
Enter(w) ==    (* on_enter() *)
  /\ worker[w] = "entering"
  /\ worker' = [worker EXCEPT ![w] = "top"]
  /\ UNCHANGED <<tasks, job, caller, stopped, dtor, pushed, started, ended>>

(* wait(): neither stopped nor a task.                                       *)
Sleep(w) ==
  /\ worker[w] \in {"top", "woken"}
  /\ tasks = <<>> /\ ~stopped
  /\ worker' = [worker EXCEPT ![w] = "waiting"]
  /\ UNCHANGED <<tasks, job, caller, stopped, dtor, pushed, started, ended>>

SpuriousWakeup(w) ==
  /\ worker[w] = "waiting"
  /\ worker' = [worker EXCEPT ![w] = "woken"]
  /\ UNCHANGED <<tasks, job, caller, stopped, dtor, pushed, started, ended>>

(* Pop the front task, release the mutex, run it.                            *)
Take(w) ==
  /\ worker[w] \in {"top", "woken"}
  /\ tasks # <<>>
  /\ tasks' = Tail(tasks)
  /\ job' = [job EXCEPT ![w] = {Head(tasks)}]
  /\ started' = Append(started, Head(tasks))
  /\ worker' = [worker EXCEPT ![w] = "running"]
  /\ UNCHANGED <<caller, stopped, dtor, pushed, ended>>

(* The task returned, or threw: packaged_task keeps the exception.  A call   *)
(* to enqueue the task made has returned.                                    *)
TaskEnds(w) ==
  /\ worker[w] = "running" /\ caller[w] # "notify"
  /\ ended' = ended \cup job[w]
  /\ job' = [job EXCEPT ![w] = {}]
  /\ worker' = [worker EXCEPT ![w] = "top"]
  /\ UNCHANGED <<tasks, caller, stopped, dtor, pushed, started>>

(* break: no task and stopped; then on_exit().                               *)
Leave(w) ==
  /\ worker[w] \in {"top", "woken"}
  /\ tasks = <<>> /\ stopped
  /\ worker' = [worker EXCEPT ![w] = "exiting"]
  /\ UNCHANGED <<tasks, job, caller, stopped, dtor, pushed, started, ended>>

Exit(w) ==
  /\ worker[w] = "exiting"
  /\ worker' = [worker EXCEPT ![w] = "done"]
  /\ UNCHANGED <<tasks, job, caller, stopped, dtor, pushed, started, ended>>

-----------------------------------------------------------------------------
(* The destructor.  No client is inside the pool when it is entered.         *)
SetStopped ==
  /\ dtor = "alive"
  /\ \A t \in Clients : caller[t] # "notify"
  /\ dtor' = "notify"
  /\ stopped' = TRUE
  /\ UNCHANGED <<tasks, worker, job, caller, pushed, started, ended>>

NotifyAll ==
  /\ dtor = "notify"
  /\ dtor' = "join"
  /\ worker' = [w \in Workers |-> IF worker[w] = "waiting" THEN "woken"
                                                           ELSE worker[w]]
  /\ UNCHANGED <<tasks, job, caller, stopped, pushed, started, ended>>

(* join() returns for the last worker.                                       *)
JoinAll ==
  /\ dtor = "join"
  /\ \A w \in Workers : worker[w] = "done"
  /\ dtor' = "done"
  /\ UNCHANGED <<tasks, worker, job, caller, stopped, pushed, started, ended>>

WorkerStep(w) == Enter(w) \/ Sleep(w) \/ Take(w) \/ TaskEnds(w) \/ Leave(w) \/ Exit(w)

Dtor == SetStopped \/ NotifyAll \/ JoinAll

Next ==
  \/ \E t \in Threads : NotifyOne(t) \/ Size(t) \/ \E k \in Tasks : Push(t, k)
  \/ \E w \in Workers : WorkerStep(w) \/ SpuriousWakeup(w)
  \/ Dtor

Spec == Init /\ [][Next]_vars

(***************************************************************************)
(* Fairness: a worker that can run does run, a task returns, a caller      *)
(* inside enqueue gets to notify, and the destructor, once entered, goes   *)
(* on.  Nobody is obliged to enqueue, to wake spuriously or to destroy.    *)
(***************************************************************************)
FairSpec ==
  /\ Spec
  /\ \A w \in Workers : WF_vars(WorkerStep(w))
  /\ \A t \in Threads : WF_vars(NotifyOne(t))
  /\ WF_vars(NotifyAll) /\ WF_vars(JoinAll)

-----------------------------------------------------------------------------
(* The variables take values of their types; a worker has a job exactly      *)
(* while it runs one.                                                        *)
TypeOK ==
  /\ tasks \in Seq(Tasks)
  /\ worker \in [Workers -> WorkerPC]
  /\ job \in [Workers -> SUBSET Tasks]
  /\ \A w \in Workers : job[w] # {} <=> worker[w] = "running"
  /\ caller \in [Threads -> {"out", "notify", "returned"}]
  /\ stopped \in BOOLEAN
  /\ dtor \in DtorPC
  /\ pushed \in Seq(Tasks)
  /\ started \in Seq(Tasks)
  /\ ended \subseteq Tasks

(* Tasks are taken in the order they were pushed, each once and none lost.   *)
StartedInOrder == pushed = started \o tasks

(* No task waits while an idle worker sleeps through it: as long as some     *)
(* worker waits, every queued task is matched by a worker that is awake and  *)
(* will look at the queue, or by a notify_one that has yet to happen, even   *)
(* though enqueue notifies outside of the mutex, workers steal each other's  *)
(* wake-ups and the condition variable wakes spuriously.                     *)
WorkConserving ==
  Waiting # {} => Len(tasks) <= Cardinality(Awake) + Cardinality(Notifying)

(* No worker sleeps through the destructor: once notify_all happened, none   *)
(* waits on the condition variable any more.                                 *)
NoSleepAfterStop == dtor \in {"join", "done"} => Waiting = {}

(* The destructor returns only when every task ever pushed has run to its    *)
(* end, those that tasks enqueued while it was draining included.            *)
DrainedWhenDestroyed ==
  dtor = "done" => tasks = <<>> /\ \A i \in 1..Len(pushed) : pushed[i] \in ended

(* Every task pushed eventually ends.                                        *)
EveryTaskEnds == \A k \in Tasks : IsPushed(k) ~> k \in ended

(* The destructor terminates once entered.                                   *)
DestructorReturns == stopped ~> dtor = "done"
=============================================================================

------------------------------ MODULE ThreadPool ------------------------------
(***************************************************************************)
(* The thread pool of myCode/src/ThreadPool.cpp and include/ThreadPool.h:  *)
(* worker threads that share one task queue under queue_mutex_, Add, which *)
(* any thread may call while the pool exists, and the destructor, which    *)
(* raises stop_, wakes every worker and joins them.                        *)
(*                                                                         *)
(* The mutex and the condition variable are explicit, because what can go  *)
(* wrong here goes wrong between them: a predicate evaluated before the    *)
(* thread blocks, a notification sent while nobody waits, a task accepted  *)
(* after the last worker looked at the queue.                              *)
(***************************************************************************)
EXTENDS Naturals, Sequences, FiniteSets

CONSTANTS
  Workers,     \* the threads the constructor starts (workers_)
  Submitters,  \* the threads that call Add
  Tasks,       \* the tasks handed to Add, one per call
  Owner,       \* the thread that runs ~ThreadPool
  None         \* no thread / no task

ASSUME PoolAssumption ==
  /\ Workers # {}                 \* ThreadPool(0) starts nobody
  /\ IsFiniteSet(Workers) /\ IsFiniteSet(Submitters)
  /\ None \notin Tasks
  /\ Workers \cap Submitters = {}
  /\ Owner \notin Workers \cup Submitters
  /\ None \notin Workers \cup Submitters \cup {Owner}

VARIABLES
  mutex,     \* who holds queue_mutex_
  queue,     \* tasks_
  stop,      \* stop_
  wpc,       \* where each worker is in its loop
  current,   \* the local variable "task" of each worker
  spc,       \* where each submitter is in Add
  adding,    \* the argument of that call
  opc,       \* where the owner is in ~ThreadPool
  accepted,  \* history: the tasks Add enqueued, in order
  rejected,  \* history: the tasks whose Add threw
  started,   \* history: the tasks workers popped, in order
  finished   \* history: the tasks that returned

vars == <<mutex, queue, stop, wpc, current, spc, adding, opc,
          accepted, rejected, started, finished>>

history == <<accepted, rejected, started, finished>>

Elems(s) == {s[i] : i \in 1..Len(s)}

\* Where a thread can be while it holds queue_mutex_.
WorkerHolds == {"check", "block", "decide"}

WorkerPcs == WorkerHolds \cup {"top", "waiting", "woken", "run", "exited"}
SubmitterPcs == {"idle", "lock", "check", "push", "notify"}
OwnerPcs == {"alive", "lock", "raise", "notify", "join", "joined", "gone"}

Init ==
  /\ mutex = None
  /\ queue = <<>>
  /\ stop = FALSE
  /\ wpc = [w \in Workers |-> "top"]
  /\ current = [w \in Workers |-> None]
  /\ spc = [s \in Submitters |-> "idle"]
  /\ adding = [s \in Submitters |-> None]
  /\ opc = "alive"
  /\ accepted = <<>>
  /\ rejected = {}
  /\ started = <<>>
  /\ finished = {}

-----------------------------------------------------------------------------
(* A worker's loop.                                                         *)

\* lock(queue_mutex_), or the re-acquisition inside wait after a wake-up.
WorkerLock(w) ==
  /\ wpc[w] \in {"top", "woken"}
  /\ mutex = None
  /\ mutex' = w
  /\ wpc' = [wpc EXCEPT ![w] = "check"]
  /\ UNCHANGED <<queue, stop, current, spc, adding, opc, history>>

\* The predicate of wait.
Ready == stop \/ queue # <<>>

WorkerCheck(w) ==
  /\ wpc[w] = "check"
  /\ wpc' = [wpc EXCEPT ![w] = IF Ready THEN "decide" ELSE "block"]
  /\ UNCHANGED <<mutex, queue, stop, current, spc, adding, opc, history>>

\* wait releases the mutex and blocks in one step.
WorkerBlock(w) ==
  /\ wpc[w] = "block"
  /\ mutex' = None
  /\ wpc' = [wpc EXCEPT ![w] = "waiting"]
  /\ UNCHANGED <<queue, stop, current, spc, adding, opc, history>>

\* A condition variable may wake a waiter without a notification.
WorkerSpurious(w) ==
  /\ wpc[w] = "waiting"
  /\ wpc' = [wpc EXCEPT ![w] = "woken"]
  /\ UNCHANGED <<mutex, queue, stop, current, spc, adding, opc, history>>

\* Mutant: a worker leaves as soon as the pool is stopped.
MutantMayExit == stop

MayExit == stop /\ queue = <<>>

\* if (stop_ && tasks_.empty()) return;
WorkerExit(w) ==
  /\ wpc[w] = "decide"
  /\ MayExit
  /\ mutex' = None
  /\ wpc' = [wpc EXCEPT ![w] = "exited"]
  /\ UNCHANGED <<queue, stop, current, spc, adding, opc, history>>

\* front() and pop() of an empty queue are undefined; here they give no task.
Front == IF queue = <<>> THEN None ELSE Head(queue)

\* Mutant: the front task is copied and never popped.
MutantPopped == queue

Popped == IF queue = <<>> THEN <<>> ELSE Tail(queue)

\* task = tasks_.front(); tasks_.pop(); and the end of the locked block.
WorkerTake(w) ==
  /\ wpc[w] = "decide"
  /\ ~MayExit
  /\ current' = [current EXCEPT ![w] = Front]
  /\ started' = Append(started, Front)
  /\ queue' = Popped
  /\ mutex' = None
  /\ wpc' = [wpc EXCEPT ![w] = "run"]
  /\ UNCHANGED <<stop, spc, adding, opc, accepted, rejected, finished>>

\* task() returns, at the latest with an exception of the callable, which a
\* packaged_task stores in its future.  (A callable that loops is ServerLife's.)
WorkerFinish(w) ==
  /\ wpc[w] = "run"
  /\ finished' = finished \cup {current[w]}
  /\ current' = [current EXCEPT ![w] = None]
  /\ wpc' = [wpc EXCEPT ![w] = "top"]
  /\ UNCHANGED <<mutex, queue, stop, spc, adding, opc, accepted, rejected, started>>

-----------------------------------------------------------------------------
(* Add.                                                                     *)

Offered == Elems(accepted) \cup rejected \cup {adding[s] : s \in Submitters}

\* A thread calls Add with a new task; the pool must outlive the call, so a
\* call begins only while the destructor has not returned.
AddCall(s, t) ==
  /\ spc[s] = "idle"
  /\ opc # "gone"
  /\ t \notin Offered
  /\ adding' = [adding EXCEPT ![s] = t]
  /\ spc' = [spc EXCEPT ![s] = "lock"]
  /\ UNCHANGED <<mutex, queue, stop, wpc, current, opc, history>>

AddLock(s) ==
  /\ spc[s] = "lock"
  /\ mutex = None
  /\ mutex' = s
  /\ spc' = [spc EXCEPT ![s] = "check"]
  /\ UNCHANGED <<queue, stop, wpc, current, adding, opc, history>>

\* if (stop_) throw: the lock is released by unwinding.
AddReject(s) ==
  /\ spc[s] = "check"
  /\ stop
  /\ rejected' = rejected \cup {adding[s]}
  /\ adding' = [adding EXCEPT ![s] = None]
  /\ mutex' = None
  /\ spc' = [spc EXCEPT ![s] = "idle"]
  /\ UNCHANGED <<queue, stop, wpc, current, opc, accepted, started, finished>>

AddPass(s) ==
  /\ spc[s] = "check"
  /\ ~stop
  /\ spc' = [spc EXCEPT ![s] = "push"]
  /\ UNCHANGED <<mutex, queue, stop, wpc, current, adding, opc, history>>

\* tasks_.emplace and the end of the locked block.
AddPush(s) ==
  /\ spc[s] = "push"
  /\ queue' = Append(queue, adding[s])
  /\ accepted' = Append(accepted, adding[s])
  /\ adding' = [adding EXCEPT ![s] = None]
  /\ mutex' = None
  /\ spc' = [spc EXCEPT ![s] = "notify"]
  /\ UNCHANGED <<stop, wpc, current, opc, rejected, started, finished>>

\* Mutant: nobody is notified of the new task.
MutantNotifyOne == UNCHANGED wpc

\* notify_one wakes one waiter if there is one.
NotifyOne ==
  \/ \E w \in Workers :
       /\ wpc[w] = "waiting"
       /\ wpc' = [wpc EXCEPT ![w] = "woken"]
  \/ /\ \A w \in Workers : wpc[w] # "waiting"
     /\ UNCHANGED wpc

\* The notification is sent outside the lock.
AddNotify(s) ==
  /\ spc[s] = "notify"
  /\ NotifyOne
  /\ spc' = [spc EXCEPT ![s] = "idle"]
  /\ UNCHANGED <<mutex, queue, stop, current, adding, opc, history>>

-----------------------------------------------------------------------------
(* ~ThreadPool.                                                             *)

DestroyCall ==
  /\ opc = "alive"
  /\ opc' = "lock"
  /\ UNCHANGED <<mutex, queue, stop, wpc, current, spc, adding, history>>

DestroyLock ==
  /\ opc = "lock"
  /\ mutex = None
  /\ mutex' = Owner
  /\ opc' = "raise"
  /\ UNCHANGED <<queue, stop, wpc, current, spc, adding, history>>

DestroyRaise ==
  /\ opc = "raise"
  /\ stop' = TRUE
  /\ mutex' = None
  /\ opc' = "notify"
  /\ UNCHANGED <<queue, wpc, current, spc, adding, history>>

\* Mutant: one worker is woken where all must be.
MutantNotifyAll == NotifyOne

NotifyAll == wpc' = [w \in Workers |-> IF wpc[w] = "waiting" THEN "woken" ELSE wpc[w]]

DestroyNotify ==
  /\ opc = "notify"
  /\ NotifyAll
  /\ opc' = "join"
  /\ UNCHANGED <<mutex, queue, stop, current, spc, adding, history>>

\* The joins return one after the other, the last one when every worker has
\* left its loop.
DestroyJoin ==
  /\ opc = "join"
  /\ \A w \in Workers : wpc[w] = "exited"
  /\ opc' = "joined"
  /\ UNCHANGED <<mutex, queue, stop, wpc, current, spc, adding, history>>

\* The members are destroyed.  The caller's part of the contract: a thread
\* that is inside Add leaves it before the object it called goes away.
DestroyMembers ==
  /\ opc = "joined"
  /\ \A s \in Submitters : spc[s] = "idle"
  /\ opc' = "gone"
  /\ UNCHANGED <<mutex, queue, stop, wpc, current, spc, adding, history>>

-----------------------------------------------------------------------------
WorkerStep(w) ==
  \/ WorkerCheck(w) \/ WorkerBlock(w) \/ WorkerExit(w)
  \/ WorkerTake(w) \/ WorkerFinish(w)

AddStep(s) == AddReject(s) \/ AddPass(s) \/ AddPush(s) \/ AddNotify(s)

DestroyStep == DestroyRaise \/ DestroyNotify \/ DestroyJoin \/ DestroyMembers

Next ==
  \/ \E w \in Workers : WorkerLock(w) \/ WorkerStep(w) \/ WorkerSpurious(w)
  \/ \E s \in Submitters :
       \/ \E t \in Tasks : AddCall(s, t)
       \/ AddLock(s) \/ AddStep(s)
  \/ DestroyCall \/ DestroyLock \/ DestroyStep

Spec == Init /\ [][Next]_vars

(***************************************************************************)
(* Fairness: every thread keeps running (weak), and one that waits for     *)
(* queue_mutex_ gets it eventually (strong: the mutex is free again and    *)
(* again, never for good).  Nobody is obliged to call Add or the           *)
(* destructor, and spurious wake-ups need not happen.                      *)
(***************************************************************************)
Fairness ==
  /\ \A w \in Workers : WF_vars(WorkerStep(w)) /\ SF_vars(WorkerLock(w))
  /\ \A s \in Submitters : WF_vars(AddStep(s)) /\ SF_vars(AddLock(s))
  /\ WF_vars(DestroyStep) /\ SF_vars(DestroyLock)

FairSpec == Spec /\ Fairness
-----------------------------------------------------------------------------
(* Properties.                                                              *)

\* Every variable has its type (the members of ThreadPool.h:29-33).
TypeOK ==
  /\ mutex \in Workers \cup Submitters \cup {Owner, None}
  /\ queue \in Seq(Tasks)
  /\ stop \in BOOLEAN
  /\ wpc \in [Workers -> WorkerPcs]
  /\ current \in [Workers -> Tasks \cup {None}]
  /\ spc \in [Submitters -> SubmitterPcs]
  /\ adding \in [Submitters -> Tasks \cup {None}]
  /\ opc \in OwnerPcs
  /\ accepted \in Seq(Tasks)
  /\ rejected \subseteq Tasks
  /\ started \in Seq(Tasks)
  /\ finished \subseteq Tasks

\* What the workers have taken followed by what is still queued is exactly
\* what Add accepted, in that order: whatever the interleaving of Add and the
\* workers, no task is lost, run twice or overtaken (ThreadPool.cpp:26-27,
\* ThreadPool.h:60).
StartedInOrder == accepted = started \o queue

\* Workers that are up and will look at the queue before they can sleep.
Awake == {w \in Workers : wpc[w] \in {"top", "woken", "check", "decide"}}

Notifying == {s \in Submitters : spc[s] = "notify"}

\* No lost wake-up: while some worker sleeps, each queued task has a worker
\* already on its way to the queue or a notification still to be sent, so one
\* notify_one per Add is enough (ThreadPool.h:62 against ThreadPool.cpp:22).
NoLostWakeup ==
  (\E w \in Workers : wpc[w] = "waiting")
    => Len(queue) <= Cardinality(Awake) + Cardinality(Notifying)

\* When ~ThreadPool has joined its workers, every task Add ever accepted has
\* run to its end, including those accepted just before stop_ was raised
\* (ThreadPool.cpp:23-25 and 35-46).
JoinedMeansDrained ==
  opc \in {"joined", "gone"} => queue = <<>> /\ Elems(accepted) = finished

\* Once stop_ is up no task enters the queue, although the test of stop_ and
\* the emplace are two steps of the submitter (ThreadPool.h:55-60).
NoAcceptAfterStop == [][stop => accepted' = accepted]_vars

\* Every task that Add accepts runs to its end, whether or not the pool is
\* destroyed meanwhile, as long as tasks return.
AcceptedTasksFinish ==
  \A t \in Tasks : t \in Elems(accepted) ~> t \in finished

\* ~ThreadPool returns: no worker sleeps through the notification, none is
\* left out of it (ThreadPool.cpp:35-46).
DestructorReturns == (opc = "lock") ~> (opc = "gone")

\* The pool implements the caller's view of it (TaskPool): stop_ closes it,
\* the workers' local tasks are the running ones, and the return of the
\* destructor is its end.
Running == {current[w] : w \in {x \in Workers : wpc[x] = "run"}}

Abstract == INSTANCE TaskPool WITH
  MaxRunning <- Cardinality(Workers),
  open <- ~stop,
  pending <- queue,
  running <- Running,
  done <- finished,
  gone <- (opc = "gone")

ImplementsTaskPool == Abstract!ASpec
=============================================================================

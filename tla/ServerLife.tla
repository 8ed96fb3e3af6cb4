------------------------------ MODULE ServerLife ------------------------------
(***************************************************************************)
(* The life of echo_server's TcpServer: the main thread submits one loop   *)
(* per sub reactor to the thread pool (Start), then accepts connections,   *)
(* until SIGINT runs `delete server` on top of whatever it was doing, and  *)
(* the members of TcpServer are destroyed in the reverse of their order in *)
(* TcpServer.h while the sub reactors are still at work.                   *)
(*                                                                         *)
(* The pool is ThreadPool itself: Main is its one submitter, its Owner the *)
(* signal handler, and task i the loop of sub reactor i.  An interrupted   *)
(* main thread never goes on: the handler ends in exit.  A loop is endless *)
(* unless an event of a Connection that has no callback yet throws out of  *)
(* it; the rest of what can happen between a loop and a Connection is      *)
(* Reactor's, and is here one step.                                        *)
(***************************************************************************)
EXTENDS ThreadPool

CONSTANTS
  Main,     \* the main thread
  MaxConns  \* bound: connections per sub reactor

ASSUME LifeAssumption ==
  /\ Submitters = {Main}
  /\ Tasks = 0..(Cardinality(Workers) - 1)   \* both hardware_concurrency()
  /\ MaxConns \in Nat

VARIABLES
  building, \* the sub reactor whose epoll holds a channel without callback
  conns,    \* per sub reactor, its connections in connections_
  members,  \* the members of TcpServer not destroyed yet
  fate      \* how the process fares

life == <<building, conns, members, fate>>
lvars == <<vars, life>>

\* Mutant: thread_pool_ is declared before what its threads use.
MutantDestructionOrder ==
  <<"on_recv_", "on_connect_",
    "sub_reactors_", "connections_", "thread_pool_", "acceptor_", "main_reactor_">>

\* The reverse of the declarations.
DestructionOrder ==
  <<"on_recv_", "on_connect_",
    "thread_pool_", "sub_reactors_", "connections_", "acceptor_", "main_reactor_">>

\* Each Connection has its own copies of these.
Callbacks == {"on_recv_", "on_connect_"}

Members ==
  Callbacks \cup {"thread_pool_", "sub_reactors_", "connections_", "acceptor_", "main_reactor_"}

LInit ==
  /\ Init
  /\ building = None
  /\ conns = [i \in Tasks |-> 0]
  /\ members = Members
  /\ fate = "running"

-----------------------------------------------------------------------------
(* The main thread, until SIGINT.                                           *)

\* Mutant: the handler runs beside the main thread.
MutantUndisturbed == TRUE

Undisturbed == opc = "alive"

\* Start: one Add after the other.
SubmitLoop ==
  /\ Undisturbed
  /\ \/ Len(accepted) \in Tasks /\ AddCall(Main, Len(accepted))
     \/ AddLock(Main)
     \/ AddStep(Main)
  /\ UNCHANGED life

\* main_reactor_->Loop()
Serving == Undisturbed /\ Len(accepted) = Cardinality(Workers) /\ spc[Main] = "idle"

\* NewConnection: the constructor registers the channel ...
BeginConnection ==
  /\ Serving /\ building = None
  /\ \E i \in Tasks : conns[i] < MaxConns /\ building' = i
  /\ UNCHANGED <<vars, conns, members, fate>>

\* ... and the Connection gets its callbacks and its place in connections_.
InsertConnection ==
  /\ Serving /\ building # None
  /\ conns' = [conns EXCEPT ![building] = @ + 1]
  /\ building' = None
  /\ UNCHANGED <<vars, members, fate>>

-----------------------------------------------------------------------------
(* The workers.                                                             *)

Work(w) ==
  /\ WorkerCheck(w) \/ WorkerBlock(w) \/ WorkerExit(w) \/ WorkerTake(w)
  /\ UNCHANGED life

AcquireOrWake(w) == (WorkerLock(w) \/ WorkerSpurious(w)) /\ UNCHANGED life

Loops(w, i) == wpc[w] = "run" /\ current[w] = i

DeleteConnection(w) ==
  /\ \E i \in Tasks :
       /\ Loops(w, i) /\ conns[i] > 0
       /\ conns' = [conns EXCEPT ![i] = @ - 1]
  /\ UNCHANGED <<vars, building, members, fate>>

\* bad_function_call leaves Loop, and the task is over.
LoopDies(w) ==
  /\ building # None /\ Loops(w, building)
  /\ WorkerFinish(w)
  /\ UNCHANGED life

-----------------------------------------------------------------------------
(* SIGINT.                                                                  *)

\* The kernel picks the main thread: `delete server` begins.
Interrupt ==
  /\ DestroyCall
  /\ UNCHANGED life

\* A second SIGINT finds the signal blocked in the main thread and goes to a
\* worker, which deletes the server again.
InterruptAgain ==
  /\ opc # "alive"
  /\ \E w \in Workers : wpc[w] # "exited"
  /\ fate' = "double delete"
  /\ UNCHANGED <<vars, building, conns, members>>

\* m is the member whose turn it is.
IsNext(m) ==
  /\ opc # "alive"
  /\ m \in members
  /\ \E k \in 1..Len(DestructionOrder) :
       /\ DestructionOrder[k] = m
       /\ \A j \in 1..(k - 1) : DestructionOrder[j] \notin members

Destroyed(m) == members' = members \ {m}

DestroyCallbacks ==
  /\ \E m \in Callbacks : IsNext(m) /\ Destroyed(m)
  /\ UNCHANGED <<vars, building, conns, fate>>

\* The handler takes queue_mutex_; never, if it interrupted Add with the lock.
DestroyPoolLock ==
  /\ IsNext("thread_pool_")
  /\ DestroyLock
  /\ UNCHANGED life

DestroyPool ==
  /\ IsNext("thread_pool_")
  /\ DestroyRaise \/ DestroyNotify \/ DestroyJoin
  /\ UNCHANGED life

PoolGone ==
  /\ IsNext("thread_pool_")
  /\ opc = "joined"
  /\ Destroyed("thread_pool_")
  /\ UNCHANGED <<vars, building, conns, fate>>

DestroySubReactors ==
  /\ IsNext("sub_reactors_")
  /\ Destroyed("sub_reactors_")
  /\ UNCHANGED <<vars, building, conns, fate>>

\* Each Connection's channel is deleted from its loop, which may be gone.
DestroyConnections ==
  /\ IsNext("connections_")
  /\ Destroyed("connections_")
  /\ conns' = [i \in Tasks |-> 0]
  /\ \/ fate' = fate
     \/ /\ "sub_reactors_" \notin members /\ \E i \in Tasks : conns[i] > 0
        /\ fate' = "use after free"
  /\ UNCHANGED <<vars, building>>

\* The listening channel leaves main_reactor_, which is still there; then
\* main_reactor_ goes, and the handler calls exit.
DestroyAcceptor ==
  /\ \E m \in {"acceptor_", "main_reactor_"} : IsNext(m) /\ Destroyed(m)
  /\ UNCHANGED <<vars, building, conns, fate>>

Exited == members = {}

-----------------------------------------------------------------------------
MainStep == SubmitLoop \/ BeginConnection \/ InsertConnection

HandlerStep ==
  \/ DestroyCallbacks \/ DestroyPool \/ PoolGone
  \/ DestroySubReactors \/ DestroyConnections \/ DestroyAcceptor

LNext ==
  /\ fate = "running" /\ ~Exited
  /\ \/ MainStep
     \/ \E w \in Workers :
          Work(w) \/ AcquireOrWake(w) \/ DeleteConnection(w) \/ LoopDies(w)
     \/ Interrupt \/ InterruptAgain
     \/ DestroyPoolLock \/ HandlerStep

LSpec == LInit /\ [][LNext]_lvars

(***************************************************************************)
(* Fairness: as in ThreadPool, for the workers and for the handler, and for *)
(* an Add that has the mutex.  Nothing else need happen on the main thread, *)
(* clients and SIGINT need not come.                                       *)
(***************************************************************************)
Runs(A) == fate = "running" /\ ~Exited /\ A

LFairness ==
  /\ \A w \in Workers :
       /\ WF_lvars(Runs(Work(w)))
       /\ SF_lvars(Runs(WorkerLock(w) /\ UNCHANGED life))
  /\ WF_lvars(Runs(Undisturbed /\ AddStep(Main) /\ UNCHANGED life))
  /\ WF_lvars(Runs(HandlerStep)) /\ SF_lvars(Runs(DestroyPoolLock))

LFairSpec == LSpec /\ LFairness

-----------------------------------------------------------------------------
(* Properties.                                                              *)

\* Every variable has its type.
LTypeOK ==
  /\ TypeOK
  /\ building \in Tasks \cup {None}
  /\ conns \in [Tasks -> 0..MaxConns]
  /\ members \subseteq Members
  /\ fate \in {"running", "double delete", "use after free"}

\* As long as a worker is in a loop, the EventLoop it runs and the table its
\* DeleteCOnnection searches are there, whatever ~TcpServer has destroyed by
\* then (TcpServer.h:37-40, TcpServer.cpp:41).
LoopsHaveTheirServer ==
  (\E w \in Workers : wpc[w] = "run") => {"sub_reactors_", "connections_"} \subseteq members

\* Start's Add never meets a stopped pool: SIGINT raises stop_ only on top of
\* the thread that is in Start (TcpServer.cpp:43-49, ThreadPool.h:57-59).
StartIsNotRefused == rejected = {}

\* Add stopped by SIGINT inside its critical section, for good.
Stuck == opc # "alive" /\ mutex = Main

\* ~TcpServer destroys sub_reactors_ under Connections whose channels it still
\* has to delete from them only when the last of the loops has died: as long as
\* one of them runs, the join before it never returns (TcpServer.h:37-40,
\* ThreadPool.cpp:35-46, Channel.cpp:29).
OrphansHaveNoLoop ==
  "sub_reactors_" \notin members /\ (\E i \in Tasks : conns[i] > 0)
    => Tasks \subseteq finished

\* Every loop that Start submits gets a thread of its own, also when SIGINT
\* comes between the emplace and the notification, unless the mutex is never
\* released again (TcpServer.cpp:32-47, ThreadPool.h:60-62).
LoopsAreStarted ==
  \A i \in Tasks :
    i \in Elems(accepted) ~> i \in Elems(started) \/ Stuck \/ fate = "double delete"

\* SIGINT before the first loop is in the queue ends the process, unless it
\* comes while Add holds queue_mutex_ or is followed by another
\* (echo_server.cpp:22-26).
EarlyInterruptExits ==
  (opc = "lock" /\ accepted = <<>> /\ ~Stuck) ~> Exited \/ fate = "double delete"

-----------------------------------------------------------------------------
(* What the program says of itself and does not keep.                       *)

\* The handler of SIGINT deletes the server, prints and calls exit
\* (echo_server.cpp:22-26).
InterruptExits == (opc = "lock" /\ ~Stuck) ~> Exited \/ fate = "double delete"
=============================================================================

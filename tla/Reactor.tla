-------------------------------- MODULE Reactor --------------------------------
(***************************************************************************)
(* The server of myCode: the main thread accepts connections (Acceptor)    *)
(* and builds a Connection for each (TcpServer::NewConnection), while each *)
(* sub reactor's thread polls its epoll instance and calls back into the   *)
(* connections registered there (EventLoop::Loop, Channel::HandleEvent,    *)
(* Connection::Business), down to TcpServer::DeleteCOnnection, which       *)
(* destroys the Connection on the sub reactor's thread.                    *)
(*                                                                         *)
(* The threads share connections_, the Connection objects, the epoll       *)
(* instances and the process's descriptors, and take no lock anywhere: the *)
(* model has one step for each access another thread can come between.     *)
(* Where the code's behaviour is undefined (two threads in connections_, a *)
(* std::function read while it is assigned, a destroyed Connection used    *)
(* again) the step either does what the text of the code says or ends the  *)
(* run with a fate other than "running".                                   *)
(*                                                                         *)
(* Data is abstracted to how many chunks a client still has in flight.     *)
(* EnableET is the call that fails with EEXIST, so a registration is       *)
(* level-triggered; when it succeeds (after a stale EPOLL_CTL_DEL) the     *)
(* edge-triggered entry only reports an undrained socket less often.       *)
(***************************************************************************)
EXTENDS Naturals, FiniteSets

CONSTANTS
  Conns,    \* connections, one for each connect of a client
  Fds,      \* the descriptors the process may have open for connections
  NumSub,   \* hardware_concurrency(): the number of sub reactors
  MaxSend,  \* bound: the chunks one client sends
  None      \* no connection

ASSUME ReactorAssumption ==
  /\ Fds \subseteq Nat
  /\ NumSub \in Nat \ {0}     \* _fd % sub_reactors_.size() needs one
  /\ MaxSend \in Nat
  /\ None \notin Conns \cup Fds

Subs == 0..(NumSub - 1)
Threads == Subs \cup {NumSub}
Main == NumSub                \* the thread of main_reactor_

VARIABLES
  \* the clients and the kernel
  peer,     \* each client: not yet connected, connected, closed, reset
  inbox,    \* chunks received for the connection and not read
  sent,     \* chunks the client sent
  owner,    \* the process's descriptor table: whose socket an fd denotes
  interest, \* the epoll instances: the Channel registered for an fd
  \* the heap
  obj,      \* the Connection object: none, live, its Socket gone, freed
  fdOf,     \* the fd kept in its Socket and its Channel
  wiring,   \* its read callback: empty, being assigned, set
  closed,   \* state_ = Closed
  \* TcpServer
  table,    \* connections_
  inMap,    \* what each thread is doing inside connections_
  \* the threads
  mpc,      \* where the main thread is in NewConnection
  mconn,    \* the connection it is building
  spc,      \* where each sub reactor is in its loop
  batch,    \* active_channels, what is left to handle
  active,   \* the connection being handled
  victim,   \* the connection connections_.erase is destroying
  fate      \* how the process fares

clients == <<peer, inbox, sent>>
heap == <<obj, fdOf, wiring, closed>>
mainVars == <<mpc, mconn>>
subVars == <<spc, batch, active, victim>>

vars == <<clients, owner, interest, heap, table, inMap, mainVars, subVars, fate>>

PeerStates == {"away", "open", "fin", "reset"}
ObjStates == {"none", "live", "unsocketed", "freed"}
MainPcs == {"idle", "enableRead", "enableET", "setCallbacks", "wire", "insert",
            "inserting", "lookup", "looking", "onConnect"}
SubPcs == {"poll", "next", "read", "find", "finding", "erase", "erasing",
           "closeFd", "delete", "onRecv", "dead"}
Fates == {"running", "assert failed", "map race", "torn callback",
          "use after free", "null connection", "SIGPIPE"}

Init ==
  /\ peer = [c \in Conns |-> "away"]
  /\ inbox = [c \in Conns |-> 0]
  /\ sent = [c \in Conns |-> 0]
  /\ owner = [f \in Fds |-> None]
  /\ interest = [f \in Fds |-> None]
  /\ obj = [c \in Conns |-> "none"]
  /\ fdOf = [c \in Conns |-> None]
  /\ wiring = [c \in Conns |-> "empty"]
  /\ closed = [c \in Conns |-> FALSE]
  /\ table = [f \in Fds |-> None]
  /\ inMap = [t \in Threads |-> "out"]
  /\ mpc = "idle"
  /\ mconn = None
  /\ spc = [r \in Subs |-> "poll"]
  /\ batch = [r \in Subs |-> {}]
  /\ active = [r \in Subs |-> None]
  /\ victim = [r \in Subs |-> None]
  /\ fate = "running"

-----------------------------------------------------------------------------
(* The clients (external).                                                  *)

Connect(c) ==
  /\ peer[c] = "away"
  /\ peer' = [peer EXCEPT ![c] = "open"]
  /\ UNCHANGED <<inbox, sent, owner, interest, heap, table, inMap, mainVars, subVars, fate>>

Send(c) ==
  /\ peer[c] = "open"
  /\ sent[c] < MaxSend
  /\ sent' = [sent EXCEPT ![c] = @ + 1]
  /\ inbox' = [inbox EXCEPT ![c] = @ + 1]
  /\ UNCHANGED <<peer, owner, interest, heap, table, inMap, mainVars, subVars, fate>>

HangUp(c) ==
  /\ peer[c] = "open"
  /\ \E how \in {"fin", "reset"} : peer' = [peer EXCEPT ![c] = how]
  /\ UNCHANGED <<inbox, sent, owner, interest, heap, table, inMap, mainVars, subVars, fate>>

-----------------------------------------------------------------------------
(* connections_: an access spans two steps, and one that meets a conflicting *)
(* access of another thread is a data race.                                  *)

Conflict(t) ==
  \E u \in Threads \ {t} :
    inMap[u] # "out" /\ "write" \in {inMap[t], inMap[u]}

Enter(t, mode) == inMap' = [inMap EXCEPT ![t] = mode]
Leave(t) == inMap' = [inMap EXCEPT ![t] = "out"]

\* An access that raced may leave the container corrupt.
RaceOutcome(t) == fate' = fate \/ (Conflict(t) /\ fate' = "map race")

-----------------------------------------------------------------------------
(* The main thread: Acceptor::AcceptConnection and TcpServer::NewConnection. *)

Free == {f \in Fds : owner[f] = None}

\* accept returns the lowest free descriptor.  With none free it fails, and
\* AcceptConnection returns with nothing changed.
Accept(c) ==
  /\ mpc = "idle"
  /\ peer[c] # "away" /\ fdOf[c] = None
  /\ \E f \in Free :
       /\ \A g \in Free : f <= g
       /\ owner' = [owner EXCEPT ![f] = c]
       /\ fdOf' = [fdOf EXCEPT ![c] = f]
  /\ mconn' = c
  /\ mpc' = "enableRead"
  /\ UNCHANGED <<clients, interest, obj, wiring, closed, table, inMap, subVars, fate>>

\* epoll_ctl(EPOLL_CTL_ADD): fails with EEXIST when the fd is registered.
Register(c) ==
  interest' = [interest EXCEPT ![fdOf[c]] = IF @ = None THEN c ELSE @]

\* The constructor up to EnableRead: the channel is live from here on.
EnableRead ==
  /\ mpc = "enableRead"
  /\ obj' = [obj EXCEPT ![mconn] = "live"]
  /\ Register(mconn)
  /\ mpc' = "enableET"
  /\ UNCHANGED <<clients, owner, fdOf, wiring, closed, table, inMap, mconn, subVars, fate>>

\* EnableET: exist_ is still false, so this is a second EPOLL_CTL_ADD.
EnableET ==
  /\ mpc = "enableET"
  /\ Register(mconn)
  /\ mpc' = "setCallbacks"
  /\ UNCHANGED <<clients, owner, heap, table, inMap, mconn, subVars, fate>>

\* SetDeleteConnection, on_recv_, and the first half of the assignment of the
\* channel's read_callback_.
SetCallbacks ==
  /\ mpc = "setCallbacks"
  /\ wiring' = [wiring EXCEPT ![mconn] = "torn"]
  /\ mpc' = "wire"
  /\ UNCHANGED <<clients, owner, interest, obj, fdOf, closed, table, inMap, mconn, subVars, fate>>

\* Mutant: the Connection gets its callback, its Channel none.
MutantWire ==
  /\ mpc = "wire"
  /\ wiring' = [wiring EXCEPT ![mconn] = "empty"]
  /\ mpc' = "insert"
  /\ UNCHANGED <<clients, owner, interest, obj, fdOf, closed, table, inMap, mconn, subVars, fate>>

Wire ==
  /\ mpc = "wire"
  /\ wiring' = [wiring EXCEPT ![mconn] = "set"]
  /\ mpc' = "insert"
  /\ UNCHANGED <<clients, owner, interest, obj, fdOf, closed, table, inMap, mconn, subVars, fate>>

\* connections_[_fd] = std::move(conn)
InsertEnter ==
  /\ mpc = "insert"
  /\ Enter(Main, "write")
  /\ mpc' = "inserting"
  /\ UNCHANGED <<clients, owner, interest, heap, table, mconn, subVars, fate>>

Insert ==
  /\ mpc = "inserting"
  /\ table' = [table EXCEPT ![fdOf[mconn]] = mconn]
  /\ Leave(Main)
  /\ mpc' = "lookup"
  /\ RaceOutcome(Main)
  /\ UNCHANGED <<clients, owner, interest, heap, mconn, subVars>>

\* on_connect_(connections_[_fd].get()): the second operator[] inserts a null
\* pointer when a sub reactor has erased the entry meanwhile, and echo_server's
\* callback dereferences it.
LookupEnter ==
  /\ mpc = "lookup"
  /\ Enter(Main, IF table[fdOf[mconn]] = None THEN "write" ELSE "read")
  /\ mpc' = "looking"
  /\ UNCHANGED <<clients, owner, interest, heap, table, mconn, subVars, fate>>

LookupNull ==
  /\ mpc = "looking"
  /\ table[fdOf[mconn]] = None
  /\ fate' = "null connection"
  /\ UNCHANGED <<clients, owner, interest, heap, table, inMap, mainVars, subVars>>

Lookup ==
  /\ mpc = "looking"
  /\ table[fdOf[mconn]] # None
  /\ RaceOutcome(Main)
  /\ Leave(Main)
  /\ mpc' = "onConnect"
  /\ UNCHANGED <<clients, owner, interest, heap, table, mconn, subVars>>

\* Using a Connection whose destructor has begun.
UseOutcome(c) == fate' = fate \/ (obj[c] # "live" /\ fate' = "use after free")

OnConnect ==
  /\ mpc = "onConnect"
  /\ UseOutcome(mconn)
  /\ mpc' = "idle"
  /\ mconn' = None
  /\ UNCHANGED <<clients, owner, interest, heap, table, inMap, subVars>>

-----------------------------------------------------------------------------
(* A sub reactor r: EventLoop::Loop, Poller::Poll, Channel::HandleEvent,      *)
(* Connection::Business.                                                     *)

\* Mutant: the channel asks for no EPOLLIN, only for what is always reported.
MutantReadable(c) == peer[c] \in {"fin", "reset"}

\* What level-triggered EPOLLIN reports: data, end of file or an error.
Readable(c) == inbox[c] > 0 \/ peer[c] \in {"fin", "reset"}

\* The channels epoll_wait returns to r.
Ready(r) ==
  {interest[f] : f \in {g \in Fds : /\ g % NumSub = r
                                    /\ interest[g] # None
                                    /\ Readable(owner[g])}}

Poll(r) ==
  /\ spc[r] = "poll"
  /\ Ready(r) # {}
  /\ batch' = [batch EXCEPT ![r] = Ready(r)]
  /\ spc' = [spc EXCEPT ![r] = "next"]
  /\ UNCHANGED <<clients, owner, interest, heap, table, inMap, mainVars, active, victim, fate>>

\* The range-for ends and Loop polls again.
BatchDone(r) ==
  /\ spc[r] = "next"
  /\ batch[r] = {}
  /\ spc' = [spc EXCEPT ![r] = "poll"]
  /\ UNCHANGED <<clients, owner, interest, heap, table, inMap, mainVars, batch, active, victim, fate>>

\* Mutant: the handled channel stays in the list.
MutantRest(r, c) == batch[r]

Rest(r, c) == batch[r] \ {c}

\* The next channel's read callback is called.  While it is being assigned the
\* call may see it whole, empty, or half of each.
HandleEvent(r) ==
  /\ spc[r] = "next"
  /\ \E c \in batch[r] :
       /\ wiring[c] \in {"torn", "set"}
       /\ batch' = [batch EXCEPT ![r] = Rest(r, c)]
       /\ active' = [active EXCEPT ![r] = c]
  /\ spc' = [spc EXCEPT ![r] = "read"]
  /\ UNCHANGED <<clients, owner, interest, heap, table, inMap, mainVars, victim, fate>>

\* An empty one throws bad_function_call out of Loop, and the packaged_task of
\* ThreadPool::Add keeps the exception: this loop is over, silently.
HandleEmpty(r) ==
  /\ spc[r] = "next"
  /\ \E c \in batch[r] : wiring[c] \in {"empty", "torn"}
  /\ spc' = [spc EXCEPT ![r] = "dead"]
  /\ UNCHANGED <<clients, owner, interest, heap, table, inMap, mainVars, batch, active, victim, fate>>

HandleTorn(r) ==
  /\ spc[r] = "next"
  /\ \E c \in batch[r] : wiring[c] = "torn"
  /\ fate' = "torn callback"
  /\ UNCHANGED <<clients, owner, interest, heap, table, inMap, mainVars, subVars>>

HasData(c) == inbox[c] > 0

AtEnd(c) == inbox[c] = 0 /\ peer[c] \in {"fin", "reset"}

\* Read on a connection that a failed write has closed: nothing is read.
ReadRefused(r) ==
  /\ spc[r] = "read"
  /\ closed[active[r]]
  /\ spc' = [spc EXCEPT ![r] = "onRecv"]
  /\ UNCHANGED <<clients, owner, interest, heap, table, inMap, mainVars, batch, active, victim, fate>>

\* ReadNonBlocking: data is appended until read says EAGAIN ...
ReadData(r) ==
  LET c == active[r] IN
  /\ spc[r] = "read"
  /\ ~closed[c]
  /\ HasData(c)
  /\ inbox' = [inbox EXCEPT ![c] = @ - 1]
  /\ UNCHANGED <<peer, sent, owner, interest, heap, table, inMap, mainVars, subVars, fate>>

ReadDrained(r) ==
  LET c == active[r] IN
  /\ spc[r] = "read"
  /\ ~closed[c]
  /\ ~HasData(c) /\ ~AtEnd(c)
  /\ spc' = [spc EXCEPT ![r] = "onRecv"]
  /\ UNCHANGED <<clients, owner, interest, heap, table, inMap, mainVars, batch, active, victim, fate>>

\* Mutant: the reader closes the descriptor itself before it deletes.
MutantEndClosesFd(r) ==
  LET c == active[r] IN
  /\ spc[r] = "read"
  /\ ~closed[c]
  /\ AtEnd(c)
  /\ closed' = [closed EXCEPT ![c] = TRUE]
  /\ owner' = [owner EXCEPT ![fdOf[c]] = None]
  /\ interest' = [interest EXCEPT ![fdOf[c]] = None]
  /\ spc' = [spc EXCEPT ![r] = "find"]
  /\ UNCHANGED <<clients, obj, fdOf, wiring, table, inMap, mainVars, batch, active, victim, fate>>

\* Mutant: the end of file is noted and Close is not called.
MutantEndNoClose(r) ==
  LET c == active[r] IN
  /\ spc[r] = "read"
  /\ ~closed[c]
  /\ AtEnd(c)
  /\ closed' = [closed EXCEPT ![c] = TRUE]
  /\ spc' = [spc EXCEPT ![r] = "onRecv"]
  /\ UNCHANGED <<clients, owner, interest, obj, fdOf, wiring, table, inMap, mainVars, batch, active, victim, fate>>

\* ... or end of file or an error, which close the connection.
ReadEnd(r) ==
  LET c == active[r] IN
  /\ spc[r] = "read"
  /\ ~closed[c]
  /\ AtEnd(c)
  /\ closed' = [closed EXCEPT ![c] = TRUE]
  /\ spc' = [spc EXCEPT ![r] = "find"]
  /\ UNCHANGED <<clients, owner, interest, obj, fdOf, wiring, table, inMap, mainVars, batch, active, victim, fate>>

\* DeleteCOnnection: find and the assertion that the entry is there ...
FindEnter(r) ==
  /\ spc[r] = "find"
  /\ Enter(r, "read")
  /\ spc' = [spc EXCEPT ![r] = "finding"]
  /\ UNCHANGED <<clients, owner, interest, heap, table, mainVars, batch, active, victim, fate>>

FindFails(r) ==
  /\ spc[r] = "finding"
  /\ table[fdOf[active[r]]] = None
  /\ fate' = "assert failed"
  /\ UNCHANGED <<clients, owner, interest, heap, table, inMap, mainVars, subVars>>

Find(r) ==
  /\ spc[r] = "finding"
  /\ table[fdOf[active[r]]] # None
  /\ RaceOutcome(r)
  /\ Leave(r)
  /\ spc' = [spc EXCEPT ![r] = "erase"]
  /\ UNCHANGED <<clients, owner, interest, heap, table, mainVars, batch, active, victim>>

\* ... then erase, which unlinks the entry and destroys what it points to.
EraseEnter(r) ==
  /\ spc[r] = "erase"
  /\ Enter(r, "write")
  /\ spc' = [spc EXCEPT ![r] = "erasing"]
  /\ UNCHANGED <<clients, owner, interest, heap, table, mainVars, batch, active, victim, fate>>

Erase(r) ==
  LET f == fdOf[active[r]] IN
  /\ spc[r] = "erasing"
  /\ victim' = [victim EXCEPT ![r] = table[f]]
  /\ table' = [table EXCEPT ![f] = None]
  /\ RaceOutcome(r)
  /\ Leave(r)
  /\ spc' = [spc EXCEPT ![r] = "closeFd"]
  /\ UNCHANGED <<clients, owner, interest, heap, mainVars, batch, active>>

\* close(f): the kernel's tables without f.
Without(tab, f) == [tab EXCEPT ![f] = None]

\* Mutant: ~Socket resets fd_ before it closes it, and closes nothing.
MutantCloseFd(r) ==
  /\ spc[r] = "closeFd"
  /\ obj' = [obj EXCEPT ![victim[r]] = "unsocketed"]
  /\ spc' = [spc EXCEPT ![r] = "delete"]
  /\ UNCHANGED <<clients, owner, interest, fdOf, wiring, closed, table, inMap, mainVars, batch, active, victim, fate>>

\* ~Connection destroys socket_ before channel_: close(fd) frees the number
\* and takes the socket out of every epoll instance ...
CloseFd(r) ==
  LET f == fdOf[victim[r]] IN
  /\ spc[r] = "closeFd"
  /\ obj' = [obj EXCEPT ![victim[r]] = "unsocketed"]
  /\ owner' = Without(owner, f)
  /\ interest' = Without(interest, f)
  /\ spc' = [spc EXCEPT ![r] = "delete"]
  /\ UNCHANGED <<clients, fdOf, wiring, closed, table, inMap, mainVars, batch, active, victim, fate>>

\* ... then ~Channel: EPOLL_CTL_DEL on that number, whoever owns it now.
DeleteChannel(r) ==
  LET f == fdOf[victim[r]] IN
  /\ spc[r] = "delete"
  /\ interest' = [interest EXCEPT ![f] = None]
  /\ obj' = [obj EXCEPT ![victim[r]] = "freed"]
  /\ victim' = [victim EXCEPT ![r] = None]
  /\ spc' = [spc EXCEPT ![r] = "onRecv"]
  /\ UNCHANGED <<clients, owner, fdOf, wiring, closed, table, inMap, mainVars, batch, active, fate>>

\* Business goes on to on_recv_(this) whatever Read did; echo_server's
\* callback answers with Send, and a write that fails only sets state_.
OnRecv(r) ==
  LET c == active[r] IN
  /\ spc[r] = "onRecv"
  /\ spc' = [spc EXCEPT ![r] = "next"]
  /\ active' = [active EXCEPT ![r] = None]
  /\ \/ UseOutcome(c) /\ UNCHANGED closed
     \/ /\ obj[c] = "live" /\ ~closed[c] /\ peer[c] = "reset"
        /\ \/ closed' = [closed EXCEPT ![c] = TRUE] /\ fate' = fate
           \/ fate' = "SIGPIPE" /\ UNCHANGED closed
  /\ UNCHANGED <<clients, owner, interest, obj, fdOf, wiring, table, inMap, mainVars, batch, victim>>

-----------------------------------------------------------------------------
ClientStep == \E c \in Conns : Connect(c) \/ Send(c) \/ HangUp(c)

MainStep ==
  \/ EnableRead \/ EnableET \/ SetCallbacks \/ Wire
  \/ InsertEnter \/ Insert \/ LookupEnter \/ LookupNull \/ Lookup \/ OnConnect

SubStep(r) ==
  \/ Poll(r) \/ BatchDone(r)
  \/ HandleEvent(r) \/ HandleEmpty(r) \/ HandleTorn(r)
  \/ ReadRefused(r) \/ ReadData(r) \/ ReadDrained(r) \/ ReadEnd(r)
  \/ FindEnter(r) \/ FindFails(r) \/ Find(r) \/ EraseEnter(r) \/ Erase(r)
  \/ CloseFd(r) \/ DeleteChannel(r) \/ OnRecv(r)

Next ==
  /\ fate = "running"
  /\ \/ ClientStep
     \/ \E c \in Conns : Accept(c)
     \/ MainStep
     \/ \E r \in Subs : SubStep(r)

Spec == Init /\ [][Next]_vars

(***************************************************************************)
(* Fairness: each thread that can go on does.  Clients owe nothing.        *)
(***************************************************************************)
Fairness ==
  /\ WF_vars(fate = "running" /\ (MainStep \/ \E c \in Conns : Accept(c)))
  /\ \A r \in Subs : WF_vars(fate = "running" /\ SubStep(r))

FairSpec == Spec /\ Fairness

-----------------------------------------------------------------------------
(* Properties.                                                               *)

\* Every variable has its type.
TypeOK ==
  /\ peer \in [Conns -> PeerStates]
  /\ inbox \in [Conns -> 0..MaxSend]
  /\ sent \in [Conns -> 0..MaxSend]
  /\ owner \in [Fds -> Conns \cup {None}]
  /\ interest \in [Fds -> Conns \cup {None}]
  /\ obj \in [Conns -> ObjStates]
  /\ fdOf \in [Conns -> Fds \cup {None}]
  /\ wiring \in [Conns -> {"empty", "torn", "set"}]
  /\ closed \in [Conns -> BOOLEAN]
  /\ table \in [Fds -> Conns \cup {None}]
  /\ inMap \in [Threads -> {"out", "read", "write"}]
  /\ mpc \in MainPcs
  /\ mconn \in Conns \cup {None}
  /\ spc \in [Subs -> SubPcs]
  /\ batch \in [Subs -> SUBSET Conns]
  /\ active \in [Subs -> Conns \cup {None}]
  /\ victim \in [Subs -> Conns \cup {None}]
  /\ fate \in Fates

\* The pointer an epoll instance holds for a descriptor is the Channel of the
\* live Connection that owns the descriptor, however often the number has been
\* closed and reused (Poller.cpp:71 and 82 against Socket.cpp:24).
RegistrationIsLive ==
  \A f \in Fds : interest[f] # None =>
    owner[f] = interest[f] /\ obj[interest[f]] = "live"

\* connections_ maps a descriptor to the live Connection that owns it, also
\* while the main thread reuses numbers that sub reactors are closing
\* (TcpServer.cpp:61 and 71).
TableOwnsDescriptor ==
  \A f \in Fds : table[f] # None =>
    owner[f] = table[f] /\ obj[table[f]] = "live" /\ fdOf[table[f]] = f

\* A channel that epoll_wait returned is still there when the loop reaches it,
\* and belongs to this loop (EventLoop.cpp:25-26).
BatchIsLive ==
  \A r \in Subs : \A c \in batch[r] :
    obj[c] = "live" /\ fdOf[c] % NumSub = r

\* What erase destroys is the connection whose end was read, and the descriptor
\* its Socket closes is its own (TcpServer.cpp:71, Socket.cpp:24).
DestroysItsOwn ==
  \A r \in Subs : spc[r] = "closeFd" =>
    /\ victim[r] = active[r]
    /\ obj[victim[r]] = "live" /\ owner[fdOf[victim[r]]] = victim[r]

\* Every open descriptor has someone who will close it: the main thread is still
\* building its Connection, connections_ holds it, or a sub reactor is
\* destroying it (TcpServer.cpp:55-61 and 71).
NoOrphanDescriptor ==
  \A f \in Fds : owner[f] # None =>
    \/ mconn = owner[f]
    \/ table[f] = owner[f]
    \/ \E r \in Subs : spc[r] = "closeFd" /\ victim[r] = owner[f]

\* The server never gives up a connection whose client is still there, nor one
\* with data it has not read (Connection.cpp:76-103).
ClosesOnlyEnded ==
  [][\A c \in Conns : obj[c] = "live" /\ obj'[c] # "live"
       => peer[c] \in {"fin", "reset"} /\ inbox[c] = 0]_vars

Watched(c) == interest[fdOf[c]] = c

\* A sub reactor's loop ends for one reason only: it handles an event of the very
\* connection the main thread is still wiring, and its own connections then go
\* unserved.  Once a connection is inserted no event of it ends a loop
\* (TcpServer.cpp:56-59, Channel.cpp:31-38, 30dayMakeCppServer.md:511).
DiesOnlyOfEarlyData ==
  [][\A r \in Subs : spc[r] # "dead" /\ spc'[r] = "dead"
       => mpc \in {"enableET", "setCallbacks", "wire"} /\ mconn \in batch[r]]_vars

\* From its birth on a live connection stays registered with its reactor's epoll,
\* and loses that for one reason only: its number had another owner, whose ~Channel
\* deletes what it no longer owns (Socket.cpp:24, Poller.cpp:97-108).
LostOnlyToStaleDelete ==
  [][\A c \in Conns : obj'[c] = "live" /\ (obj[c] = "none" \/ Watched(c)) =>
       \/ Watched(c)'
       \/ \E r \in Subs : spc[r] = "delete" /\ victim[r] # c /\ fdOf[victim[r]] = fdOf[c]]_vars

\* The session of a client: admitted with the descriptor, served from its
\* Connection's birth to its death.
Phase(c) ==
  CASE fdOf[c] = None -> "waiting"
    [] fdOf[c] # None /\ obj[c] = "none" -> "admitted"
    [] fdOf[c] # None /\ obj[c] = "live" -> "served"
    [] OTHER -> "dismissed"

Abstract == INSTANCE Sessions
  WITH client <- peer, number <- owner, said <- sent,
       phase <- [c \in Conns |-> Phase(c)],
       heard <- [c \in Conns |-> sent[c] - inbox[c]]

\* However the threads interleave and however long the process is lucky, clients see
\* sessions: a number is one client's at a time, nobody is dismissed before it has
\* ended and been heard, and the number goes back with the dismissal
\* (TcpServer.cpp:53-73, Socket.cpp:24).
ImplementsSessions == Abstract!Spec

Deleting(c) ==
  \E r \in Subs : active[r] = c /\ spc[r] \in {"find", "finding", "erase", "erasing", "closeFd", "delete"}

\* A failed write has set state_ and told nobody: Read refuses from now on
\* (Connection.cpp:123-127 and 46-49).
HalfClosed(c) == peer[c] = "reset" /\ closed[c] /\ ~Deleting(c)

\* The failures after which nobody serves c.
Excused(c) ==
  \/ fate # "running"
  \/ obj[c] = "live" /\ spc[fdOf[c] % NumSub] = "dead"
  \/ obj[c] = "live" /\ ~Watched(c)
  \/ HalfClosed(c)

\* A connection whose client has gone is destroyed in the end, unless the process
\* has died, the reactor's loop has, the registration is lost, or a failed write
\* came before the reader (Connection.cpp:93-103, TcpServer.cpp:68-73).
EndedIsClosed ==
  \A c \in Conns :
    obj[c] = "live" /\ peer[c] \in {"fin", "reset"} ~> obj[c] = "freed" \/ Excused(c)

\* What a client has sent is read, with the same exceptions
\* (Poller.cpp:45-63, Connection.cpp:76-92).
SentIsRead ==
  \A c \in Conns :
    obj[c] = "live" /\ inbox[c] > 0 ~> inbox[c] = 0 \/ Excused(c)

-----------------------------------------------------------------------------
(* What the code's assertion says, and the code does not keep.               *)

\* assert(conn_it != connections_.end()) (TcpServer.cpp:70).
EntryIsFound == fate # "assert failed"
=============================================================================

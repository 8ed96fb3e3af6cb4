----------------------------- MODULE EchoClients -----------------------------
(***************************************************************************)
(* test/echo_clients.cpp: each client is a task with a thread of its own    *)
(* (`threads` tasks on a pool of `threads` workers) that talks to the echo  *)
(* server over a blocking socket.  A client has two Socket objects, its own *)
(* and its Connection's, that hold one descriptor number, and both close    *)
(* it: between the two the number may be another client's.                  *)
(*                                                                         *)
(* A socket is named by the client whose Create made it.  The server        *)
(* (external) answers every message, and what is answered is read in        *)
(* pieces of one or more whole answers.  SOCK_STREAM's own limits and EINTR *)
(* are left out; nobody but the clients opens or closes descriptors.        *)
(***************************************************************************)
EXTENDS Naturals, FiniteSets

CONSTANTS
  Clients,
  Numbers,  \* the descriptor numbers that are free for clients
  Msgs,     \* msgs
  None

ASSUME ClientsAssumption ==
  /\ Numbers \subseteq Nat /\ Msgs \in Nat
  /\ None \notin Clients /\ None \notin Numbers

VARIABLES
  sockOf,    \* the process's descriptors: the socket a number denotes
  connected, \* the sockets that have a connection to the server
  owed,      \* per socket, the messages whose answer nobody has read
  num,       \* the number in the fd_ of both Sockets; None is -1
  pc,        \* where each client is
  state,     \* its Connection's state_
  count,     \* count
  blocked,   \* the socket whose read() it is inside
  got,       \* history: the answers it has read
  fate       \* how the process fares

kernel == <<sockOf, connected, owed>>
vars == <<kernel, num, pc, state, count, blocked, got, fate>>

Init ==
  /\ sockOf = [n \in Numbers |-> None]
  /\ connected = {}
  /\ owed = [s \in Clients |-> 0]
  /\ num = [c \in Clients |-> None]
  /\ pc = [c \in Clients |-> "create"]
  /\ state = [c \in Clients |-> "Connected"]
  /\ count = [c \in Clients |-> 0]
  /\ blocked = [c \in Clients |-> None]
  /\ got = [c \in Clients |-> 0]
  /\ fate = "running"

-----------------------------------------------------------------------------
(* The kernel.                                                              *)

Socket(c) == IF num[c] = None THEN None ELSE sockOf[num[c]]
BadNumber(c) == Socket(c) = None

\* socket(2) hands out the lowest free number.
Lowest(n) ==
  /\ sockOf[n] = None
  /\ \A m \in Numbers : sockOf[m] = None => n <= m

\* ~Socket: close(fd_), whatever the number denotes by now.
CloseNumber(c) ==
  sockOf' = IF num[c] = None THEN sockOf ELSE [sockOf EXCEPT ![num[c]] = None]

Go(c, place) == pc' = [pc EXCEPT ![c] = place]

-----------------------------------------------------------------------------
(* OneClient.                                                               *)

\* socket(2) may fail, and must without a free number; OneClient does not look.
Create(c) ==
  /\ pc[c] = "create"
  /\ \/ \E n \in Numbers :
          /\ Lowest(n)
          /\ sockOf' = [sockOf EXCEPT ![n] = c]
          /\ num' = [num EXCEPT ![c] = n]
     \/ UNCHANGED <<sockOf, num>>
  /\ Go(c, "connect")
  /\ UNCHANGED <<connected, owed, state, count, blocked, got, fate>>

\* Mutant: the Socket is not needed any more once the Connection has the number.
MutantConnect(c) ==
  /\ pc[c] = "connect"
  /\ connected' = connected \cup ({Socket(c)} \ {None})
  /\ CloseNumber(c)
  /\ Go(c, "loop")
  /\ UNCHANGED <<owed, num, state, count, blocked, got, fate>>

\* Connect and the Connection's constructor.  EBADF and EISCONN are returned to
\* OneClient, which does not look.
Connect(c) ==
  /\ pc[c] = "connect"
  /\ connected' = connected \cup ({Socket(c)} \ {None})
  /\ Go(c, "loop")
  /\ UNCHANGED <<sockOf, owed, num, state, count, blocked, got, fate>>

\* Mutant: one message too many.
MutantMore(c) == count[c] <= Msgs

More(c) == count[c] < Msgs

\* SetSendBuf, and Write as far as its test of state_.
Turn(c) ==
  /\ pc[c] = "loop" /\ More(c)
  /\ Go(c, IF state[c] = "Connected" THEN "write" ELSE "check")
  /\ UNCHANGED <<kernel, num, state, count, blocked, got, fate>>

\* Mutant: send_buf_ is cleared first, and nothing is written.
MutantWriteSent(c) ==
  /\ Socket(c) \in connected
  /\ Go(c, "check")
  /\ UNCHANGED <<owed, state, fate>>

WriteSent(c) ==
  /\ Socket(c) \in connected
  /\ owed' = [owed EXCEPT ![Socket(c)] = @ + 1]
  /\ Go(c, "check")
  /\ UNCHANGED <<state, fate>>

WriteFails(c) ==
  /\ BadNumber(c)
  /\ state' = [state EXCEPT ![c] = "Closed"]
  /\ Go(c, "check")
  /\ UNCHANGED <<owed, fate>>

\* A socket that another client has not connected yet: SIGPIPE.
WriteKills(c) ==
  /\ ~BadNumber(c) /\ Socket(c) \notin connected
  /\ fate' = "killed"
  /\ UNCHANGED <<owed, state, pc>>

\* WriteBlocking, or WriteNonBlocking's one round: IsNonBlocking is also true
\* of a number that is closed, and both then do the same.
Write(c) ==
  /\ pc[c] = "write"
  /\ WriteSent(c) \/ WriteFails(c) \/ WriteKills(c)
  /\ UNCHANGED <<sockOf, connected, num, count, blocked, got>>

\* Close calls the empty delete_connection_; the exception leaves OneClient, and
\* neither object is ever deleted.
Thrown(c) == Go(c, "thrown")

CloseThrows(c) ==
  /\ pc[c] = "check" /\ state[c] # "Connected"
  /\ Thrown(c)
  /\ UNCHANGED <<kernel, num, state, count, blocked, got, fate>>

\* Read as far as IsNonBlocking, which takes a closed number for non-blocking.
ReadBegin(c) ==
  /\ pc[c] = "check" /\ state[c] = "Connected"
  /\ Go(c, IF BadNumber(c) THEN "readNonBlocking" ELSE "readBlocking")
  /\ UNCHANGED <<kernel, num, state, count, blocked, got, fate>>

AtRead(c) == pc[c] \in {"readBlocking", "readNonBlocking"} /\ blocked[c] = None

\* read() waits on the socket the number denotes now, and keeps it.
ReadBlocks(c) ==
  /\ AtRead(c)
  /\ Socket(c) \in connected
  /\ blocked' = [blocked EXCEPT ![c] = Socket(c)]
  /\ UNCHANGED <<kernel, num, pc, state, count, got, fate>>

\* EBADF or ENOTCONN: ReadBlocking returns, ReadNonBlocking calls Close.
ReadFails(c) ==
  /\ AtRead(c)
  /\ Socket(c) \notin connected
  /\ state' = [state EXCEPT ![c] = "Closed"]
  /\ \/ /\ pc[c] = "readBlocking"
        /\ count' = [count EXCEPT ![c] = @ + 1]
        /\ Go(c, "loop")
     \/ /\ pc[c] = "readNonBlocking"
        /\ Thrown(c)
        /\ UNCHANGED count
  /\ UNCHANGED <<kernel, num, blocked, got, fate>>

\* One read returns what there is; ReadNonBlocking goes on to read until EAGAIN,
\* which a blocking socket never gives.
Receive(c) ==
  /\ blocked[c] # None
  /\ \E k \in 1..owed[blocked[c]] :
       /\ owed' = [owed EXCEPT ![blocked[c]] = @ - k]
       /\ got' = [got EXCEPT ![c] = @ + k]
  /\ blocked' = [blocked EXCEPT ![c] = None]
  /\ \/ /\ pc[c] = "readBlocking"
        /\ count' = [count EXCEPT ![c] = @ + 1]
        /\ Go(c, "loop")
     \/ /\ pc[c] = "readNonBlocking"
        /\ UNCHANGED <<pc, count>>
  /\ UNCHANGED <<sockOf, connected, num, state, fate>>

\* delete sock;
DeleteSock(c) ==
  /\ pc[c] = "loop" /\ ~More(c)
  /\ CloseNumber(c)
  /\ Go(c, "deleteConn")
  /\ UNCHANGED <<connected, owed, num, state, count, blocked, got, fate>>

\* delete conn;
DeleteConn(c) ==
  /\ pc[c] = "deleteConn"
  /\ CloseNumber(c)
  /\ Go(c, "ended")
  /\ UNCHANGED <<connected, owed, num, state, count, blocked, got, fate>>

-----------------------------------------------------------------------------
OneClient(c) ==
  \/ Create(c) \/ Connect(c) \/ Turn(c) \/ Write(c) \/ CloseThrows(c)
  \/ ReadBegin(c) \/ ReadBlocks(c) \/ ReadFails(c) \/ Receive(c)
  \/ DeleteSock(c) \/ DeleteConn(c)

Next == fate = "running" /\ \E c \in Clients : OneClient(c)

Spec == Init /\ [][Next]_vars

\* Every thread of the pool runs, and the server answers.
FairSpec ==
  Spec /\ \A c \in Clients : WF_vars(fate = "running" /\ OneClient(c))

-----------------------------------------------------------------------------
(* Properties.                                                              *)

\* Every variable has its type.
TypeOK ==
  /\ sockOf \in [Numbers -> Clients \cup {None}]
  /\ connected \subseteq Clients
  /\ owed \in [Clients -> Nat]
  /\ num \in [Clients -> Numbers \cup {None}]
  /\ pc \in [Clients -> {"create", "connect", "loop", "write", "check", "readBlocking",
                         "readNonBlocking", "thrown", "deleteConn", "ended"}]
  /\ state \in [Clients -> {"Connected", "Closed"}]
  /\ count \in [Clients -> 0..Msgs]
  /\ blocked \in [Clients -> Clients \cup {None}]
  /\ got \in [Clients -> Nat]
  /\ fate \in {"running", "killed"}

InUse(c) == num[c] # None /\ pc[c] \notin {"deleteConn", "ended"}

\* Another client has had c's number and closed it twice.
Disturbed(c) ==
  num[c] # None /\ \E d \in Clients \ {c} : num[d] = num[c] /\ pc[d] = "ended"

\* A client that is using its number has its own socket there unless another
\* client with that number has come to its end: a single close too many, by
\* whomever, would show without one (echo_clients.cpp:35-36, Socket.cpp:22-27).
OnlyTheEndedDisturb ==
  \A c \in Clients : InUse(c) /\ Socket(c) # c => Disturbed(c)

\* A client that nobody disturbed is told Msgs answers, and has read exactly
\* those (echo_clients.cpp:25-34, Connection.cpp:133-165).
UndisturbedIsAnswered ==
  \A c \in Clients : pc[c] = "ended" /\ ~Disturbed(c) => got[c] = Msgs

\* Two other clients have had c's number.
Crowded(c) ==
  /\ num[c] # None
  /\ \E d, e \in Clients \ {c} : d # e /\ num[d] = num[c] /\ num[e] = num[c]

Done(c) == pc[c] \in {"ended", "thrown"}

\* A client ends, so that `delete pool` can return, unless two others have had
\* its number: then one may have read the answer the other waits for, or the
\* number was reused between IsNonBlocking and read() (echo_clients.cpp:70,
\* Socket.cpp:61, Connection.cpp:73-106).
EveryClientEnds ==
  \A c \in Clients : <>(Done(c) \/ Crowded(c) \/ fate = "killed")
=============================================================================

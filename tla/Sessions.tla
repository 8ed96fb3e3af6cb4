-------------------------------- MODULE Sessions --------------------------------
(***************************************************************************)
(* What clients get from the server: each is admitted under the lowest free *)
(* number, then served, which is reading what it sends, and dismissed, with *)
(* its number given back, once it has ended and everything it sent is read. *)
(* There are no threads, no epoll and no table of connections here; the     *)
(* process may stop at any point, and then nothing happens any more.        *)
(***************************************************************************)
EXTENDS Naturals

CONSTANTS
  Conns,    \* clients, one connection each
  Fds,      \* the numbers there are
  MaxSend,  \* bound: the chunks one client sends
  None      \* no client

VARIABLES
  client,  \* away, connected, closed, reset
  phase,   \* its session: waiting, admitted, served, dismissed
  number,  \* whose session a number denotes
  said,    \* the chunks each client has sent
  heard    \* and how many of them the server has read

sessions == <<client, phase, number, said, heard>>

Init ==
  /\ client = [c \in Conns |-> "away"]
  /\ phase = [c \in Conns |-> "waiting"]
  /\ number = [f \in Fds |-> None]
  /\ said = [c \in Conns |-> 0]
  /\ heard = [c \in Conns |-> 0]

Call(c) ==
  /\ client[c] = "away"
  /\ client' = [client EXCEPT ![c] = "open"]
  /\ UNCHANGED <<phase, number, said, heard>>

Say(c) ==
  /\ client[c] = "open" /\ said[c] < MaxSend
  /\ said' = [said EXCEPT ![c] = @ + 1]
  /\ UNCHANGED <<client, phase, number, heard>>

HangUp(c) ==
  /\ client[c] = "open"
  /\ \E how \in {"fin", "reset"} : client' = [client EXCEPT ![c] = how]
  /\ UNCHANGED <<phase, number, said, heard>>

Admit(c) ==
  /\ client[c] # "away" /\ phase[c] = "waiting"
  /\ \E f \in Fds :
       /\ number[f] = None
       /\ \A g \in Fds : number[g] = None => f <= g
       /\ number' = [number EXCEPT ![f] = c]
  /\ phase' = [phase EXCEPT ![c] = "admitted"]
  /\ UNCHANGED <<client, said, heard>>

Serve(c) ==
  /\ phase[c] = "admitted"
  /\ phase' = [phase EXCEPT ![c] = "served"]
  /\ UNCHANGED <<client, number, said, heard>>

Hear(c) ==
  /\ phase[c] = "served" /\ heard[c] < said[c]
  /\ heard' = [heard EXCEPT ![c] = @ + 1]
  /\ UNCHANGED <<client, phase, number, said>>

Dismiss(c) ==
  /\ phase[c] = "served"
  /\ client[c] \in {"fin", "reset"} /\ heard[c] = said[c]
  /\ phase' = [phase EXCEPT ![c] = "dismissed"]
  /\ \E f \in Fds : number[f] = c /\ number' = [number EXCEPT ![f] = None]
  /\ UNCHANGED <<client, said, heard>>

Next ==
  \E c \in Conns :
    \/ Call(c) \/ Say(c) \/ HangUp(c)
    \/ Admit(c) \/ Serve(c) \/ Hear(c) \/ Dismiss(c)

Spec == Init /\ [][Next]_sessions
=============================================================================

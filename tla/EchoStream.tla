------------------------------ MODULE EchoStream ------------------------------
(***************************************************************************)
(* The echo server as its client sees it: a conversation in turns.  The     *)
(* server hears some of what the client has said, then answers just that,   *)
(* up to the zero bytes, and hears on only when it is through with the      *)
(* answer or has given it up.  There are no buffers, no state_ and no       *)
(* data_left here, and no calls that return early.                          *)
(***************************************************************************)
EXTENDS Naturals, Sequences

CONSTANTS
  MaxSaid,  \* bound: the bytes the client sends
  Zeros,    \* the positions of its zero bytes
  Room      \* the bytes the kernel keeps on the way to the client

VARIABLES
  peer,      \* the client: there, shut down for writing, gone
  said,      \* how many bytes it has sent
  turn,      \* what the server does: hear, answer, or neither any more
  heard,     \* how many bytes it has heard
  due,       \* the answer it owes, as the bytes' positions
  answered,  \* what it has answered, oldest first
  backlog    \* how much of that the client has not read

vars == <<peer, said, turn, heard, due, answered, backlog>>

Init ==
  /\ peer = "open" /\ said = 0
  /\ turn = "hear" /\ heard = 0 /\ due = <<>>
  /\ answered = <<>> /\ backlog = 0

Speak ==
  /\ peer = "open" /\ said < MaxSaid
  /\ said' = said + 1
  /\ UNCHANGED <<peer, turn, heard, due, answered, backlog>>

Listen ==
  /\ peer # "reset"
  /\ backlog' \in 0..(backlog - 1)
  /\ UNCHANGED <<peer, said, turn, heard, due, answered>>

Leave ==
  /\ \/ peer = "open" /\ peer' = "fin"
     \/ peer # "reset" /\ peer' = "reset"
  /\ UNCHANGED <<said, turn, heard, due, answered, backlog>>

\* Of what it hears at once, the server keeps what comes before a zero byte.
Hear(k, n) ==
  /\ turn = "hear"
  /\ heard + k <= said /\ heard' = heard + k
  /\ \A i \in 1..n : heard + i \notin Zeros
  /\ n < k => heard + n + 1 \in Zeros
  /\ due' = due \o [i \in 1..n |-> heard + i]
  /\ UNCHANGED <<peer, said, turn, answered, backlog>>

\* It has heard all there is to hear.
Turn ==
  /\ turn = "hear" /\ heard = said /\ peer = "open"
  /\ turn' = "answer"
  /\ UNCHANGED <<peer, said, heard, due, answered, backlog>>

Answer(k) ==
  /\ turn = "answer" /\ peer # "reset"
  /\ backlog + k <= Room /\ backlog' = backlog + k
  /\ answered' = answered \o SubSeq(due, 1, k)
  /\ due' = SubSeq(due, k + 1, Len(due))
  /\ UNCHANGED <<peer, said, turn, heard>>

\* An answer is given up only when the client does not listen.
Return ==
  /\ turn = "answer"
  /\ due = <<>> \/ backlog = Room
  /\ turn' = "hear" /\ due' = <<>>
  /\ UNCHANGED <<peer, said, heard, answered, backlog>>

Break ==
  /\ turn = "answer" /\ peer = "reset"
  /\ turn' = "over" /\ due' = <<>>
  /\ UNCHANGED <<peer, said, heard, answered, backlog>>

\* The end of what the client says is behind its last byte, and what came with
\* it stays unanswered.
End ==
  /\ turn = "hear" /\ heard = said /\ peer # "open"
  /\ turn' = "over"
  /\ UNCHANGED <<peer, said, heard, due, answered, backlog>>

Next ==
  \/ Speak \/ Listen \/ Leave
  \/ \E k \in 1..MaxSaid : \E n \in 0..k : Hear(k, n)
  \/ \E k \in 1..Len(due) : Answer(k)
  \/ Turn \/ Return \/ Break \/ End

Spec == Init /\ [][Next]_vars
=============================================================================

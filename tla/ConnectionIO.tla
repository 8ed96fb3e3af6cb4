----------------------------- MODULE ConnectionIO -----------------------------
(***************************************************************************)
(* One accepted Connection and the bytes that pass through it: a sub        *)
(* reactor's thread runs Connection::Business, which reads until EAGAIN     *)
(* into read_buf_ and calls echo_server's on_recv_, which sends the         *)
(* contents back through send_buf_, while the client speaks, listens and    *)
(* leaves at its own pace.                                                  *)
(*                                                                         *)
(* A byte is its position in the client's stream, so that an answer shows   *)
(* which byte it echoes; Zeros are the positions that carry '\0', the one   *)
(* value the buffers treat differently.  read and write move any number of  *)
(* bytes from one to what there is, and EINTR, which only repeats them, is  *)
(* left out.  What other threads may do around a Connection, and its use    *)
(* after its destruction, are Reactor's: here its life ends with Close.     *)
(***************************************************************************)
EXTENDS Naturals, Sequences

CONSTANTS
  MaxSaid,   \* bound: the bytes the client sends
  Zeros,     \* the positions of its zero bytes
  ReadSize,  \* sizeof(buf) in ReadNonBlocking
  Room       \* the bytes the kernel keeps on the way to the client

ASSUME ConnectionAssumption ==
  /\ MaxSaid \in Nat /\ Zeros \subseteq Nat
  /\ ReadSize \in Nat \ {0} /\ Room \in Nat

VARIABLES
  peer,     \* the client: there, shut down for writing, gone
  said,     \* how many bytes it has sent
  taken,    \* how many of them read() has returned
  replied,  \* the bytes write() has accepted, oldest first
  unread,   \* how many of those the client has not read
  state,    \* state_
  rbuf,     \* read_buf_
  sbuf,     \* send_buf_, and its copy buf in WriteNonBlocking
  left,     \* data_left
  pc        \* where the reactor's thread is

client == <<peer, said>>
vars == <<client, taken, replied, unread, state, rbuf, sbuf, left, pc>>

Init ==
  /\ peer = "open" /\ said = 0
  /\ taken = 0
  /\ replied = <<>> /\ unread = 0
  /\ state = "Connected"
  /\ rbuf = <<>> /\ sbuf = <<>> /\ left = 0
  /\ pc = "poll"

-----------------------------------------------------------------------------
(* The client (external).                                                   *)

Speak ==
  /\ peer = "open" /\ said < MaxSaid
  /\ said' = said + 1
  /\ UNCHANGED <<peer, taken, replied, unread, state, rbuf, sbuf, left, pc>>

Listen ==
  /\ peer # "reset"
  /\ \E k \in 1..unread : unread' = unread - k
  /\ UNCHANGED <<client, taken, replied, state, rbuf, sbuf, left, pc>>

Leave ==
  /\ \/ peer = "open" /\ peer' = "fin"
     \/ peer # "reset" /\ peer' = "reset"
  /\ UNCHANGED <<said, taken, replied, unread, state, rbuf, sbuf, left, pc>>

-----------------------------------------------------------------------------
(* Buffer.                                                                  *)

\* n is where a loop over s that stops at '\0' stops.
CLength(s, n) ==
  /\ \A i \in 1..n : s[i] \notin Zeros
  /\ n < Len(s) => s[n + 1] \in Zeros

\* What the next k bytes read() returns leave in read_buf_.
Appended(k, after) ==
  LET chunk == [i \in 1..k |-> taken + i] IN
  \E n \in 0..k : CLength(chunk, n) /\ after = rbuf \o SubSeq(chunk, 1, n)

\* SetSendBuf(read_buf_->CStr()): the text up to a '\0', instead of what was there.
Copied(after) ==
  \E n \in 0..Len(rbuf) : CLength(rbuf, n) /\ after = SubSeq(rbuf, 1, n)

-----------------------------------------------------------------------------
(* Business: Read.                                                          *)

\* Level-triggered EPOLLIN.
Readable == taken < said \/ peer # "open"

\* Mutant: read_buf_ keeps what the last round read.
MutantReadBegin ==
  /\ pc = "poll" /\ Readable
  /\ state = "Connected"
  /\ pc' = "read"
  /\ UNCHANGED <<client, taken, replied, unread, state, rbuf, sbuf, left>>

ReadBegin ==
  /\ pc = "poll" /\ Readable
  /\ state = "Connected"
  /\ rbuf' = <<>>
  /\ pc' = "read"
  /\ UNCHANGED <<client, taken, replied, unread, state, sbuf, left>>

\* Read returns before it clears read_buf_, and Business goes on all the same.
ReadRefused ==
  /\ pc = "poll" /\ Readable
  /\ state # "Connected"
  /\ pc' = "recv"
  /\ UNCHANGED <<client, taken, replied, unread, state, rbuf, sbuf, left>>

ReadChunk ==
  /\ pc = "read"
  /\ \E k \in 1..ReadSize :
       /\ taken + k <= said
       /\ taken' = taken + k
       /\ Appended(k, rbuf')
  /\ UNCHANGED <<client, replied, unread, state, sbuf, left, pc>>

\* EAGAIN
ReadDrained ==
  /\ pc = "read"
  /\ taken = said /\ peer = "open"
  /\ pc' = "recv"
  /\ UNCHANGED <<client, taken, replied, unread, state, rbuf, sbuf, left>>

\* Mutant: the connection is closed as soon as the client is seen to have left.
MutantReadEnd ==
  /\ pc = "read"
  /\ peer # "open"
  /\ state' = "Closed"
  /\ pc' = "destroyed"
  /\ UNCHANGED <<client, taken, replied, unread, rbuf, sbuf, left>>

\* End of file or an error, behind the last byte: Close destroys the
\* Connection, with what this round has read still in read_buf_.
ReadEnd ==
  /\ pc = "read"
  /\ taken = said /\ peer # "open"
  /\ state' = "Closed"
  /\ pc' = "destroyed"
  /\ UNCHANGED <<client, taken, replied, unread, rbuf, sbuf, left>>

-----------------------------------------------------------------------------
(* Business: on_recv_, Send and Write.                                      *)

\* Mutant: Send only fills send_buf_.
MutantSend ==
  /\ pc = "recv"
  /\ Copied(sbuf')
  /\ pc' = "poll"
  /\ UNCHANGED <<client, taken, replied, unread, state, rbuf, left>>

\* SetSendBuf, then Write: refused once state_ is Closed, and send_buf_ stays.
Send ==
  /\ pc = "recv"
  /\ Copied(sbuf')
  /\ \/ state = "Connected" /\ left' = Len(sbuf') /\ pc' = "write"
     \/ state # "Connected" /\ left' = left /\ pc' = "poll"
  /\ UNCHANGED <<client, taken, replied, unread, state, rbuf>>

\* The end of Write: send_buf_ is cleared whatever WriteNonBlocking has sent.
EndWrite ==
  /\ sbuf' = <<>> /\ left' = 0
  /\ UNCHANGED <<client, taken, replied, unread, rbuf>>

\* Mutant: one write is taken to have sent everything.
MutantWriteSome ==
  /\ pc = "write" /\ peer # "reset"
  /\ \E k \in 1..left :
       /\ unread + k <= Room
       /\ unread' = unread + k
       /\ replied' = replied \o SubSeq(sbuf, Len(sbuf) - left + 1, Len(sbuf) - left + k)
  /\ left' = 0
  /\ UNCHANGED <<client, taken, state, rbuf, sbuf, pc>>

\* write(sockfd, buf + data_size - data_left, data_left)
WriteSome ==
  /\ pc = "write" /\ peer # "reset"
  /\ \E k \in 1..left :
       /\ unread + k <= Room
       /\ unread' = unread + k
       /\ replied' = replied \o SubSeq(sbuf, Len(sbuf) - left + 1, Len(sbuf) - left + k)
       /\ left' = left - k
  /\ UNCHANGED <<client, taken, state, rbuf, sbuf, pc>>

\* EAGAIN: the loop is left, and the rest of the answer with it.
WriteFull ==
  /\ pc = "write" /\ peer # "reset"
  /\ left > 0 /\ unread = Room
  /\ EndWrite
  /\ pc' = "poll"
  /\ UNCHANGED state

\* ECONNRESET sets state_ and tells nobody; EPIPE comes with a SIGPIPE that
\* nobody handles.
WriteError ==
  /\ pc = "write" /\ peer = "reset"
  /\ left > 0
  /\ EndWrite
  /\ state' = "Closed"
  /\ pc' \in {"poll", "killed"}

WriteDone ==
  /\ pc = "write" /\ left = 0
  /\ EndWrite
  /\ pc' = "poll"
  /\ UNCHANGED state

-----------------------------------------------------------------------------
ReactorStep ==
  \/ ReadBegin \/ ReadRefused \/ ReadChunk \/ ReadDrained \/ ReadEnd
  \/ Send \/ WriteSome \/ WriteFull \/ WriteError \/ WriteDone

Next == Speak \/ Listen \/ Leave \/ ReactorStep

Spec == Init /\ [][Next]_vars

\* The reactor's thread keeps running; the client owes nothing.
FairSpec == Spec /\ WF_vars(ReactorStep)

-----------------------------------------------------------------------------
(* Properties.                                                              *)

\* Every variable has its type; data_left never exceeds the buffer it counts.
TypeOK ==
  /\ peer \in {"open", "fin", "reset"}
  /\ said \in 0..MaxSaid /\ taken \in 0..said
  /\ replied \in Seq(Nat) /\ unread \in 0..Room
  /\ state \in {"Connected", "Closed"}
  /\ rbuf \in Seq(Nat) /\ sbuf \in Seq(Nat)
  /\ left \in 0..Len(sbuf)
  /\ pc \in {"poll", "read", "recv", "write", "destroyed", "killed"}

Increasing(s) == \A i, j \in 1..Len(s) : i < j => s[i] < s[j]

\* However the stream is cut into reads and the answers into writes, whatever
\* is dropped on the way, the client gets its own bytes back, in the order it
\* sent them and none of them twice (Connection.cpp:51, 67 and 112).
RepliesInOrder ==
  /\ Increasing(replied)
  /\ \A i \in 1..Len(replied) : replied[i] <= taken

Unsent == SubSeq(sbuf, Len(sbuf) - left + 1, Len(sbuf))

\* What the server holds of the answer to the current round, or held when the
\* Connection was destroyed.
Held ==
  IF pc = "write" THEN Unsent
  ELSE IF pc \in {"read", "destroyed"} \/ (pc = "recv" /\ state = "Connected") THEN rbuf
  ELSE <<>>

\* Neither a '\0' nor a full backlog can touch the first p bytes.
Clear(p) == Zeros \cap 1..p = {} /\ p <= Room

\* Up to the first '\0' and the limit of the client's backlog, every byte read
\* from a client that is not reset is answered, about to be, or was in the
\* round that met the end of the stream: a client that shuts down its writing
\* side and listens loses what arrived with the end, and nothing before it
\* (Connection.cpp:73-106 and 108-131).
NothingLost ==
  Clear(taken) /\ peer # "reset" => replied \o Held = [i \in 1..taken |-> i]

EchoTurn ==
  CASE state = "Closed" -> "over"
    [] state = "Connected" /\ pc \in {"recv", "write"} -> "answer"
    [] OTHER -> "hear"

Echo == INSTANCE EchoStream
  WITH turn <- EchoTurn, heard <- taken, due <- Held, answered <- replied, backlog <- unread

\* The rounds of Business are turns of a conversation: an answer is what was heard
\* since the one before, complete up to its zero bytes, is never mixed with the next,
\* and is given up only to a client that does not listen, or at the end of its
\* stream (Connection.cpp:45-131 and 185-188, echo_server.cpp:31-34).
ImplementsEcho == Echo!Spec

\* Up to the same point every byte a staying client sends is answered in the
\* end, whatever it sends after it (Poller.cpp:45-63, Connection.cpp:185-188).
EveryByteIsAnswered ==
  \A p \in 1..MaxSaid : Clear(p) =>
    (said >= p ~> (\E i \in 1..Len(replied) : replied[i] = p) \/ peer # "open")

=============================================================================

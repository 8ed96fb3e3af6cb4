-------------------------- MODULE ConnectionIO_proofs --------------------------
(***************************************************************************)
(* What Connection does to the bytes of one client, for every length of     *)
(* stream, every place of zero bytes, every read size and every backlog.    *)
(*                                                                         *)
(* The answers are in order because the whole pipeline is: what write has   *)
(* accepted, followed by what the reactor still holds of the round's        *)
(* answer, increases and stays below what has been read.  Nothing is lost   *)
(* because, without zero bytes and with room, the same pipeline is exactly  *)
(* what has been read; the room is needed to exclude EAGAIN, and for that   *)
(* the backlog must be bounded by what has been accepted.                   *)
(*                                                                         *)
(* The conversation of EchoStream has its answer in Held.  Send cuts at a   *)
(* zero byte once more, and changes nothing because Append has cut before:  *)
(* Clean says so of read_buf_.                                              *)
(***************************************************************************)
EXTENDS ConnectionIO, SequenceTheorems, TLAPS

Pipeline == replied \o Held

Shape ==
  /\ pc # "write" => left = 0
  /\ pc \in {"read", "write"} => state = "Connected"
  /\ state = "Closed" => peer = "reset" \/ pc = "destroyed"
  /\ pc = "destroyed" => peer # "open"
  /\ pc = "killed" => peer = "reset"

Order == Increasing(Pipeline) /\ \A i \in 1..Len(Pipeline) : Pipeline[i] <= taken

Backlog == unread <= Len(replied)

IInv == TypeOK /\ Shape /\ Backlog /\ Order /\ NothingLost

-----------------------------------------------------------------------------
(* Sequences of positions.                                                  *)

Positions(t, k) == [i \in 1..k |-> t + i]

\* What is read next comes after everything read so far.
LEMMA AppendLater ==
  ASSUME NEW s \in Seq(Nat), NEW t \in Nat, NEW k \in Nat, NEW n \in 0..k,
         Increasing(s), \A i \in 1..Len(s) : s[i] <= t
  PROVE  LET u == s \o SubSeq(Positions(t, k), 1, n) IN
         /\ u \in Seq(Nat)
         /\ Increasing(u)
         /\ \A i \in 1..Len(u) : u[i] <= t + k
<1> DEFINE x == SubSeq(Positions(t, k), 1, n)
           u == s \o x
<1>0. Len(s) \in Nat /\ \A i \in 1..Len(s) : s[i] \in Nat
  OBVIOUS
<1>1. Positions(t, k) \in Seq(Nat) /\ Len(Positions(t, k)) = k
  BY DEF Positions
<1>2. x \in Seq(Nat) /\ Len(x) = n /\ \A i \in 1..n : x[i] = t + i
  BY <1>1 DEF Positions
<1> HIDE DEF x
<1>3. /\ u \in Seq(Nat) /\ Len(u) = Len(s) + n
      /\ \A i \in 1..(Len(s) + n) : u[i] = IF i <= Len(s) THEN s[i] ELSE x[i - Len(s)]
  BY <1>2, ConcatProperties
<1> HIDE DEF u
<1>4. \A i \in 1..Len(s) : u[i] = s[i]
  BY <1>0, <1>3
<1>5. \A i \in (Len(s) + 1)..(Len(s) + n) : u[i] = t + (i - Len(s))
  BY <1>0, <1>2, <1>3
<1>6. \A i \in 1..Len(u) : u[i] <= t + k
  <2> SUFFICES ASSUME NEW i \in 1..(Len(s) + n) PROVE u[i] <= t + k
    BY <1>3
  <2>1. CASE i <= Len(s)
    BY <1>0, <1>4, <2>1
  <2>2. CASE i > Len(s)
    BY <1>0, <1>5, <2>2
  <2> QED BY <1>0, <2>1, <2>2
<1>7. Increasing(u)
  <2> SUFFICES ASSUME NEW i \in 1..(Len(s) + n), NEW j \in 1..(Len(s) + n), i < j
               PROVE  u[i] < u[j]
    BY <1>3 DEF Increasing
  <2>1. CASE j <= Len(s)
    BY <1>0, <1>4, <2>1 DEF Increasing
  <2>2. CASE i <= Len(s) /\ j > Len(s)
    <3>1. u[i] = s[i] /\ s[i] \in Nat /\ s[i] <= t
      BY <1>0, <1>4, <2>2
    <3>2. u[j] = t + (j - Len(s)) /\ j - Len(s) \in Nat \ {0}
      BY <1>0, <1>5, <2>2
    <3> QED BY <3>1, <3>2
  <2>3. CASE i > Len(s)
    BY <1>0, <1>5, <2>3
  <2> QED BY <1>0, <2>1, <2>2, <2>3
<1> QED BY <1>3, <1>6, <1>7 DEF u, x

\* A prefix of what is in order is in order.
LEMMA PrefixInOrder ==
  ASSUME NEW s \in Seq(Nat), NEW u \in Seq(Nat), NEW t \in Nat,
         Increasing(s), \A i \in 1..Len(s) : s[i] <= t,
         Len(u) <= Len(s), \A i \in 1..Len(u) : u[i] = s[i]
  PROVE  Increasing(u) /\ \A i \in 1..Len(u) : u[i] <= t
<1>1. Len(s) \in Nat /\ Len(u) \in Nat
  OBVIOUS
<1>2. \A i \in 1..Len(u) : i \in 1..Len(s)
  BY <1>1
<1> QED BY <1>2 DEF Increasing

LEMMA PositionsGrow ==
  ASSUME NEW t \in Nat, NEW k \in Nat
  PROVE  Positions(0, t) \o Positions(t, k) = Positions(0, t + k)
<1> DEFINE p == Positions(0, t)
           q == Positions(t, k)
           all == Positions(0, t + k)
<1>1. p \in Seq(Nat) /\ Len(p) = t /\ \A i \in 1..t : p[i] = i
  BY DEF Positions
<1>2. q \in Seq(Nat) /\ Len(q) = k /\ \A i \in 1..k : q[i] = t + i
  BY DEF Positions
<1>3. all \in Seq(Nat) /\ Len(all) = t + k /\ \A i \in 1..(t + k) : all[i] = i
  BY DEF Positions
<1> HIDE DEF p, q, all
<1>4. /\ p \o q \in Seq(Nat) /\ Len(p \o q) = t + k
      /\ \A i \in 1..(t + k) : (p \o q)[i] = IF i <= t THEN p[i] ELSE q[i - t]
  BY <1>1, <1>2, ConcatProperties
<1>5. \A i \in 1..(t + k) : (p \o q)[i] = i
  <2> SUFFICES ASSUME NEW i \in 1..(t + k) PROVE (p \o q)[i] = i
    OBVIOUS
  <2>1. CASE i <= t
    BY <1>1, <1>4, <2>1
  <2>2. CASE i > t
    BY <1>2, <1>4, <2>2
  <2>3. i <= t \/ i > t
    OBVIOUS
  <2> QED BY <2>1, <2>2, <2>3, Zenon
<1>6. p \o q = all
  BY <1>3, <1>4, <1>5, SeqEqual
<1> QED BY <1>6 DEF p, q, all

LEMMA Associative ==
  \A a, b, c \in Seq(Nat) : (a \o b) \o c = a \o (b \o c)
BY ConcatAssociative

\* Writing the first k bytes of the rest of a buffer moves them along the pipeline.
LEMMA WriteMoves ==
  ASSUME NEW r \in Seq(Nat), NEW s \in Seq(Nat), NEW l \in 0..Len(s), NEW k \in 1..l
  PROVE  (r \o SubSeq(s, Len(s) - l + 1, Len(s) - l + k))
           \o SubSeq(s, Len(s) - (l - k) + 1, Len(s))
         = r \o SubSeq(s, Len(s) - l + 1, Len(s))
<1> DEFINE m == Len(s) - l + 1
           c == Len(s) - l + k
           head == SubSeq(s, m, c)
           tail == SubSeq(s, c + 1, Len(s))
<1>1. /\ Len(s) \in Nat /\ m \in 1..(Len(s) + 1) /\ c \in (m - 1)..Len(s)
      /\ Len(s) \in c..Len(s) /\ Len(s) - (l - k) + 1 = c + 1
  OBVIOUS
<1>2. \A i \in Int : i >= 1 /\ i <= Len(s) => s[i] \in Nat
  OBVIOUS
<1>3. head \in Seq(Nat)
  <2>1. m \in Int /\ c \in Int /\ \A i \in m..c : s[i] \in Nat
    BY <1>1, <1>2
  <2> QED BY <2>1, SubSeqProperties, Zenon
<1>4. tail \in Seq(Nat)
  <2>1. c + 1 \in Int /\ Len(s) \in Int /\ \A i \in (c + 1)..Len(s) : s[i] \in Nat
    BY <1>1, <1>2
  <2> QED BY <2>1, SubSeqProperties, Zenon
<1> HIDE DEF m, c
<1>5. head \o tail = SubSeq(s, m, Len(s))
  BY <1>1, ConcatAdjacentSubSeq
<1> HIDE DEF head, tail
<1>6. (r \o head) \o tail = r \o (head \o tail)
  BY <1>3, <1>4, Associative
<1> QED BY <1>1, <1>5, <1>6 DEF m, c, head, tail

-----------------------------------------------------------------------------
LEMMA HeldIsSeq == TypeOK => Held \in Seq(Nat) /\ Pipeline \in Seq(Nat)
<1> SUFFICES ASSUME TypeOK PROVE Held \in Seq(Nat) /\ Pipeline \in Seq(Nat)
  OBVIOUS
<1>1. Unsent \in Seq(Nat)
  BY DEF TypeOK, Unsent
<1>2. Held \in Seq(Nat)
  BY <1>1 DEF Held, TypeOK
<1> QED BY <1>2 DEF Pipeline, TypeOK

LEMMA InitInv == Init => IInv
<1> SUFFICES ASSUME Init PROVE IInv
  OBVIOUS
<1>1. TypeOK /\ Shape /\ Backlog
  BY ConnectionAssumption DEF ConnectionAssumption, Init, TypeOK, Shape, Backlog
<1>2. Held = <<>> /\ Pipeline = <<>>
  BY DEF Init, Held, Pipeline
<1>3. Order
  BY <1>2 DEF Order, Increasing
<1>4. NothingLost
  BY <1>2 DEF NothingLost, Init, Pipeline
<1> QED BY <1>1, <1>3, <1>4 DEF IInv

\* Types, one action at a time.
LEMMA TypeStep == TypeOK /\ Shape /\ [Next]_vars => TypeOK'
<1> SUFFICES ASSUME TypeOK, Shape, [Next]_vars PROVE TypeOK'
  OBVIOUS
<1> USE ConnectionAssumption DEF ConnectionAssumption, client
<1>1. CASE Speak \/ Listen \/ Leave
  BY <1>1 DEF TypeOK, Speak, Listen, Leave
<1>2. CASE ReadBegin \/ ReadRefused \/ ReadDrained \/ ReadEnd
  <2>1. <<>> \in Seq(Nat)
    OBVIOUS
  <2> QED BY <1>2, <2>1 DEF TypeOK, ReadBegin, ReadRefused, ReadDrained, ReadEnd
<1>3. CASE ReadChunk
  <2>1. PICK k \in 1..ReadSize : taken + k <= said /\ taken' = taken + k /\ Appended(k, rbuf')
    BY <1>3 DEF ReadChunk
  <2>2. PICK n \in 0..k : rbuf' = rbuf \o SubSeq(Positions(taken, k), 1, n)
    BY <2>1 DEF Appended, Positions
  <2>3. SubSeq(Positions(taken, k), 1, n) \in Seq(Nat)
    BY DEF TypeOK, Positions
  <2>4. rbuf' \in Seq(Nat) /\ taken' \in 0..said
    BY <2>1, <2>2, <2>3 DEF TypeOK
  <2> QED BY <1>3, <2>4 DEF TypeOK, ReadChunk
<1>4. CASE Send
  <2>1. PICK n \in 0..Len(rbuf) : sbuf' = SubSeq(rbuf, 1, n)
    BY <1>4 DEF Send, Copied
  <2>2. sbuf' \in Seq(Nat) /\ Len(sbuf') \in Nat
    BY <2>1 DEF TypeOK
  <2>3. left' \in 0..Len(sbuf') /\ pc' \in {"poll", "write"}
    BY <1>4, <2>2 DEF Send, Shape
  <2> QED BY <1>4, <2>2, <2>3 DEF TypeOK, Send
<1>5. CASE WriteSome
  <2>1. PICK k \in 1..left :
          /\ unread + k <= Room /\ unread' = unread + k /\ left' = left - k
          /\ replied' = replied \o SubSeq(sbuf, Len(sbuf) - left + 1, Len(sbuf) - left + k)
    BY <1>5 DEF WriteSome
  <2>2. SubSeq(sbuf, Len(sbuf) - left + 1, Len(sbuf) - left + k) \in Seq(Nat)
    BY DEF TypeOK
  <2>3. replied' \in Seq(Nat) /\ unread' \in 0..Room /\ left' \in 0..Len(sbuf)
    BY <2>1, <2>2 DEF TypeOK
  <2> QED BY <1>5, <2>3 DEF TypeOK, WriteSome
<1>6. CASE WriteFull \/ WriteError \/ WriteDone
  <2>1. /\ sbuf' = <<>> /\ left' = 0
        /\ UNCHANGED <<peer, said, taken, replied, unread, rbuf>>
    BY <1>6 DEF WriteFull, WriteError, WriteDone, EndWrite
  <2>2. state' \in {"Connected", "Closed"} /\ pc' \in {"poll", "killed"}
    BY <1>6 DEF TypeOK, WriteFull, WriteError, WriteDone
  <2>3. sbuf' \in Seq(Nat) /\ left' \in 0..Len(sbuf')
    BY <2>1
  <2> QED BY <2>1, <2>2, <2>3 DEF TypeOK
<1>7. CASE UNCHANGED vars
  BY <1>7 DEF TypeOK, vars
<1> QED BY <1>1, <1>2, <1>3, <1>4, <1>5, <1>6, <1>7 DEF Next, ReactorStep

LEMMA ShapeStep == TypeOK /\ Shape /\ [Next]_vars => Shape'
BY DEF TypeOK, Shape, Next, vars, client, Speak, Listen, Leave, ReactorStep,
       ReadBegin, ReadRefused, ReadChunk, ReadDrained, ReadEnd, Send,
       WriteSome, WriteFull, WriteError, WriteDone, EndWrite

\* The backlog is part of what was accepted.
LEMMA BacklogStep == TypeOK /\ Backlog /\ [Next]_vars => Backlog'
<1> SUFFICES ASSUME TypeOK, Backlog, [Next]_vars PROVE Backlog'
  OBVIOUS
<1>1. CASE Listen
  BY <1>1 DEF TypeOK, Backlog, Listen
<1>2. CASE WriteSome
  <2>1. PICK k \in 1..left :
          /\ unread' = unread + k
          /\ replied' = replied \o SubSeq(sbuf, Len(sbuf) - left + 1, Len(sbuf) - left + k)
    BY <1>2 DEF WriteSome
  <2>2. Len(replied') = Len(replied) + k
    BY <2>1 DEF TypeOK
  <2> QED BY <2>1, <2>2 DEF TypeOK, Backlog
<1>3. CASE UNCHANGED <<replied, unread>>
  BY <1>3 DEF Backlog
<1> QED
  BY <1>1, <1>2, <1>3
     DEF Next, vars, client, Speak, Leave, ReactorStep, ReadBegin, ReadRefused,
         ReadChunk, ReadDrained, ReadEnd, Send, WriteFull, WriteError, WriteDone, EndWrite

-----------------------------------------------------------------------------
(* The steps that move bytes, and the others.                                *)

\* A write takes bytes from the rest of send_buf_ and leaves the pipeline as it is.
LEMMA WriteKeepsPipeline ==
  ASSUME TypeOK, WriteSome
  PROVE  Pipeline' = Pipeline
<1>1. PICK k \in 1..left :
        /\ left' = left - k
        /\ replied' = replied \o SubSeq(sbuf, Len(sbuf) - left + 1, Len(sbuf) - left + k)
  BY DEF WriteSome
<1>2. /\ Held = SubSeq(sbuf, Len(sbuf) - left + 1, Len(sbuf))
      /\ Held' = SubSeq(sbuf, Len(sbuf) - (left - k) + 1, Len(sbuf))
  BY <1>1 DEF WriteSome, Held, Unsent
<1> QED BY <1>1, <1>2, WriteMoves DEF Pipeline, TypeOK

\* The answer to a round begins as read_buf_, up to a '\0'.
LEMMA SendKeepsPrefix ==
  ASSUME TypeOK, Shape, Send
  PROVE  /\ Pipeline' \in Seq(Nat) /\ Len(Pipeline') <= Len(Pipeline)
         /\ \A i \in 1..Len(Pipeline') : Pipeline'[i] = Pipeline[i]
         /\ (\A i \in 1..Len(Held) : Held[i] \notin Zeros) => Pipeline' = Pipeline
<1>1. PICK n \in 0..Len(rbuf) : CLength(rbuf, n) /\ sbuf' = SubSeq(rbuf, 1, n)
  BY DEF Send, Copied
<1>2. /\ sbuf' \in Seq(Nat) /\ Len(sbuf') = n
      /\ \A i \in 1..n : sbuf'[i] = rbuf[i]
  BY <1>1 DEF TypeOK
<1>3. (\A i \in 1..Len(rbuf) : rbuf[i] \notin Zeros) => sbuf' = rbuf
  <2> SUFFICES ASSUME \A i \in 1..Len(rbuf) : rbuf[i] \notin Zeros PROVE sbuf' = rbuf
    OBVIOUS
  <2>1. n = Len(rbuf)
    BY <1>1 DEF CLength, TypeOK
  <2> QED BY <1>1, <2>1, SubSeqFull DEF TypeOK
<1>4. CASE state = "Connected"
  <2>1. Held = rbuf
    BY <1>4 DEF Send, Held
  <2>2. Held' = SubSeq(sbuf', 1, Len(sbuf'))
    BY <1>2, <1>4 DEF Send, Held, Unsent
  <2>3. Held' = sbuf'
    BY <1>2, <2>2, SubSeqFull
  <2>4. replied' = replied
    BY DEF Send
  <2>5. replied \in Seq(Nat) /\ rbuf \in Seq(Nat) /\ Len(replied) \in Nat
        /\ Len(rbuf) \in Nat /\ n <= Len(rbuf)
    BY DEF TypeOK
  <2>6. /\ Pipeline' = replied \o sbuf' /\ Pipeline' \in Seq(Nat)
        /\ Len(Pipeline') = Len(replied) + n
        /\ \A i \in 1..(Len(replied) + n) :
             Pipeline'[i] = IF i <= Len(replied) THEN replied[i] ELSE sbuf'[i - Len(replied)]
    BY <1>2, <2>3, <2>4, <2>5, ConcatProperties DEF Pipeline
  <2>7. /\ Pipeline = replied \o rbuf
        /\ Len(Pipeline) = Len(replied) + Len(rbuf)
        /\ \A i \in 1..(Len(replied) + Len(rbuf)) :
             Pipeline[i] = IF i <= Len(replied) THEN replied[i] ELSE rbuf[i - Len(replied)]
    BY <2>1, <2>5, ConcatProperties DEF Pipeline
  <2>8. \A i \in 1..(Len(replied) + n) :
          i \in 1..(Len(replied) + Len(rbuf)) /\ (i > Len(replied) => i - Len(replied) \in 1..n)
    BY <2>5
  <2>9. \A i \in 1..(Len(replied) + n) : Pipeline'[i] = Pipeline[i]
    BY <1>2, <2>5, <2>6, <2>7, <2>8
  <2>10. Len(Pipeline') <= Len(Pipeline)
    BY <2>5, <2>6, <2>7
  <2>11. \A i \in 1..Len(Pipeline') : Pipeline'[i] = Pipeline[i]
    BY <2>6, <2>9, Zenon
  <2>12. (\A i \in 1..Len(Held) : Held[i] \notin Zeros) => Pipeline' = Pipeline
    BY <1>3, <2>1, <2>6, <2>7, Zenon
  <2> QED BY <2>6, <2>10, <2>11, <2>12, Zenon
<1>5. CASE state # "Connected"
  <2>1. Held = <<>> /\ Held' = <<>> /\ replied' = replied
    BY <1>5 DEF Send, Held
  <2> QED BY <2>1 DEF Pipeline, TypeOK
<1> QED BY <1>4, <1>5

\* A read appends what it takes, up to a '\0'.
LEMMA ReadAppends ==
  ASSUME TypeOK, Shape, ReadChunk
  PROVE  \E k \in Nat \ {0} : \E n \in 0..k :
           /\ taken' = taken + k
           /\ Pipeline' = Pipeline \o SubSeq(Positions(taken, k), 1, n)
           /\ Zeros \cap 1..taken' = {} => n = k
<1>1. PICK k \in 1..ReadSize : taken' = taken + k /\ Appended(k, rbuf')
  BY DEF ReadChunk
<1>2. PICK n \in 0..k : /\ CLength(Positions(taken, k), n)
                        /\ rbuf' = rbuf \o SubSeq(Positions(taken, k), 1, n)
  BY <1>1 DEF Appended, Positions
<1>3. SubSeq(Positions(taken, k), 1, n) \in Seq(Nat)
  BY DEF TypeOK, Positions
<1>4. Held = rbuf /\ Held' = rbuf' /\ replied' = replied
  BY DEF ReadChunk, Held, Shape
<1>5. Pipeline' = Pipeline \o SubSeq(Positions(taken, k), 1, n)
  <2>1. replied \in Seq(Nat) /\ rbuf \in Seq(Nat)
    BY DEF TypeOK
  <2>2. (replied \o rbuf) \o SubSeq(Positions(taken, k), 1, n)
          = replied \o (rbuf \o SubSeq(Positions(taken, k), 1, n))
    BY <1>3, <2>1, Associative
  <2> QED BY <1>2, <1>4, <2>2 DEF Pipeline
<1>6. Zeros \cap 1..taken' = {} => n = k
  <2> SUFFICES ASSUME n < k PROVE taken + (n + 1) \in Zeros \cap 1..taken'
    OBVIOUS
  <2>1. Positions(taken, k)[n + 1] = taken + (n + 1) /\ Len(Positions(taken, k)) = k
    BY DEF Positions
  <2>2. taken + (n + 1) \in Zeros
    BY <1>2, <2>1 DEF CLength
  <2>3. taken + (n + 1) \in 1..(taken + k)
    BY DEF TypeOK
  <2> QED BY <1>1, <2>2, <2>3
<1>7. k \in Nat \ {0}
  BY ConnectionAssumption DEF ConnectionAssumption
<1> QED BY <1>1, <1>5, <1>6, <1>7

\* Everything else keeps the pipeline, or gives up what is held.
LEMMA OthersShorten ==
  ASSUME TypeOK, Shape, [Next]_vars, ~ReadChunk, ~Send, ~WriteSome
  PROVE  /\ replied' = replied /\ taken' = taken
         /\ Held' \in {Held, <<>>}
<1>1. CASE Speak \/ Listen \/ Leave
  BY <1>1 DEF Speak, Listen, Leave, client, Held, Unsent
<1>2. CASE ReadBegin \/ ReadRefused \/ ReadDrained \/ ReadEnd
  BY <1>2 DEF ReadBegin, ReadRefused, ReadDrained, ReadEnd, client, Held, Shape
<1>3. CASE WriteFull \/ WriteError \/ WriteDone
  BY <1>3 DEF WriteFull, WriteError, WriteDone, EndWrite, client, Held
<1>4. CASE UNCHANGED vars
  BY <1>4 DEF vars, client, Held, Unsent
<1> QED BY <1>1, <1>2, <1>3, <1>4 DEF Next, ReactorStep

LEMMA OrderStep == TypeOK /\ Shape /\ Order /\ [Next]_vars => Order'
<1> SUFFICES ASSUME TypeOK, Shape, Order, [Next]_vars PROVE Order'
  OBVIOUS
<1>1. Pipeline \in Seq(Nat) /\ replied \in Seq(Nat) /\ taken \in Nat /\ taken' \in Nat
  BY HeldIsSeq, TypeStep DEF TypeOK
<1>2. CASE WriteSome
  <2>1. Pipeline' = Pipeline /\ taken' = taken
    BY <1>2, WriteKeepsPipeline DEF WriteSome
  <2> QED BY <2>1 DEF Order, Increasing
<1>3. CASE Send
  <2>1. /\ Pipeline' \in Seq(Nat) /\ Len(Pipeline') <= Len(Pipeline)
        /\ \A i \in 1..Len(Pipeline') : Pipeline'[i] = Pipeline[i]
    BY <1>3, SendKeepsPrefix
  <2>2. taken' = taken
    BY <1>3 DEF Send
  <2> QED BY <1>1, <2>1, <2>2, PrefixInOrder DEF Order, Increasing
<1>4. CASE ReadChunk
  <2>1. PICK k \in Nat \ {0} :
          /\ taken' = taken + k
          /\ \E n \in 0..k : Pipeline' = Pipeline \o SubSeq(Positions(taken, k), 1, n)
    BY <1>4, ReadAppends
  <2>2. PICK n \in 0..k : Pipeline' = Pipeline \o SubSeq(Positions(taken, k), 1, n)
    BY <2>1
  <2> QED BY <1>1, <2>1, <2>2, AppendLater DEF Order, Increasing
<1>5. CASE ~ReadChunk /\ ~Send /\ ~WriteSome
  <2>1. replied' = replied /\ taken' = taken /\ Held' \in {Held, <<>>}
    BY <1>5, OthersShorten
  <2>2. CASE Held' = Held
    BY <2>1, <2>2 DEF Order, Increasing, Pipeline
  <2>3. CASE Held' = <<>>
    <3>1. Pipeline' = replied
      BY <1>1, <2>1, <2>3 DEF Pipeline
    <3>2. Held \in Seq(Nat)
      BY HeldIsSeq
    <3>3. Len(replied) <= Len(Pipeline) /\ \A i \in 1..Len(replied) : replied[i] = Pipeline[i]
      BY <1>1, <3>2 DEF Pipeline
    <3> QED BY <1>1, <2>1, <3>1, <3>3, PrefixInOrder DEF Order, Increasing
  <2> QED BY <2>1, <2>2, <2>3
<1> QED BY <1>2, <1>3, <1>4, <1>5

\* What has been read is answered or held, as long as nothing is given up.
LEMMA LossStep == IInv /\ [Next]_vars => NothingLost'
<1> SUFFICES ASSUME IInv, [Next]_vars,
                    Clear(taken'), peer' # "reset"
             PROVE  Pipeline' = Positions(0, taken')
  BY DEF NothingLost, Pipeline, Positions
<1>1. peer # "reset"
  BY DEF Next, vars, client, Speak, Listen, Leave, ReactorStep, ReadBegin, ReadRefused,
         ReadChunk, ReadDrained, ReadEnd, Send, WriteSome, WriteFull, WriteError,
         WriteDone, EndWrite
<1>8. Clear(taken) /\ Zeros \cap 1..taken' = {} /\ taken <= Room
  <2>1. taken \in Nat /\ taken' \in Nat /\ taken <= taken'
    BY DEF IInv, TypeOK, Next, vars, client, Speak, Listen, Leave, ReactorStep, ReadBegin,
           ReadRefused, ReadChunk, ReadDrained, ReadEnd, Send, WriteSome, WriteFull,
           WriteError, WriteDone, EndWrite
  <2>2. 1..taken \subseteq 1..taken'
    BY <2>1
  <2> QED BY <2>1, <2>2, ConnectionAssumption DEF ConnectionAssumption, Clear
<1>2. Pipeline = Positions(0, taken)
  <2>1. replied \o Held = [i \in 1..taken |-> i]
    BY <1>1, <1>8 DEF IInv, NothingLost
  <2>2. \A i \in 1..taken : 0 + i = i
    BY DEF IInv, TypeOK
  <2> QED BY <2>1, <2>2 DEF Pipeline, Positions
<1>3. CASE WriteSome
  BY <1>2, <1>3, WriteKeepsPipeline DEF IInv, WriteSome
<1>4. CASE Send
  <2>1. replied \in Seq(Nat) /\ Held \in Seq(Nat) /\ taken \in Nat
    BY HeldIsSeq DEF IInv, TypeOK
  <2>2. /\ Len(Pipeline) = Len(replied) + Len(Held)
        /\ \A i \in 1..Len(Held) : Pipeline[Len(replied) + i] = Held[i]
    BY <2>1, ConcatProperties DEF Pipeline
  <2>3. Len(Pipeline) = taken /\ \A j \in 1..taken : Pipeline[j] = j
    BY <1>2, <2>1 DEF Positions
  <2>4. \A i \in 1..Len(Held) : Held[i] \in 1..taken
    BY <2>1, <2>2, <2>3
  <2>5. \A i \in 1..Len(Held) : Held[i] \notin Zeros
    BY <1>8, <2>4 DEF Clear
  <2>6. Pipeline' = Pipeline /\ taken' = taken
    BY <1>4, <2>5, SendKeepsPrefix DEF IInv, Send
  <2> QED BY <1>2, <2>6
<1>5. CASE ReadChunk
  <2>1. PICK k \in Nat \ {0} :
          /\ taken' = taken + k
          /\ Pipeline' = Pipeline \o SubSeq(Positions(taken, k), 1, k)
    BY <1>5, <1>8, ReadAppends DEF IInv
  <2>2. Pipeline' = Positions(0, taken) \o Positions(taken, k)
    <3>1. Positions(taken, k) \in Seq(Nat) /\ Len(Positions(taken, k)) = k
      BY DEF Positions, IInv, TypeOK
    <3> QED BY <1>2, <2>1, <3>1, SubSeqFull
  <2>3. taken \in Nat
    BY DEF IInv, TypeOK
  <2>4. Positions(0, taken) \o Positions(taken, k) = Positions(0, taken + k)
    BY <2>3, PositionsGrow
  <2> QED BY <2>1, <2>2, <2>4
\* Of the rest, none gives up a byte: EAGAIN would need a full backlog.
<1>6. CASE ~ReadChunk /\ ~Send /\ ~WriteSome
  <2>1. ~WriteFull
    <3> SUFFICES ASSUME WriteFull PROVE FALSE
      OBVIOUS
    <3>1. Held = SubSeq(sbuf, Len(sbuf) - left + 1, Len(sbuf)) /\ left > 0 /\ unread = Room
      BY DEF WriteFull, Held, Unsent
    <3>2. Held \in Seq(Nat) /\ Len(Held) = left
      BY <3>1 DEF IInv, TypeOK
    <3>3. Len(Pipeline) = Len(replied) + left
      <4>1. replied \in Seq(Nat)
        BY DEF IInv, TypeOK
      <4> QED BY <3>2, <4>1, ConcatProperties DEF Pipeline
    <3>4. Len(Pipeline) = taken
      BY <1>2 DEF Positions, IInv, TypeOK
    <3> QED BY <1>8, <3>1, <3>3, <3>4, ConnectionAssumption
            DEF ConnectionAssumption, IInv, TypeOK, Backlog
  <2>2. replied' = replied /\ taken' = taken
    BY <1>6, OthersShorten DEF IInv
  <2>3. Held' = Held
    <3>1. CASE Speak \/ Listen \/ Leave \/ UNCHANGED vars
      BY <3>1 DEF Speak, Listen, Leave, vars, client, Held, Unsent
    <3>2. CASE ReadBegin
      BY <3>2 DEF ReadBegin, Held
    <3>3. CASE ReadRefused \/ WriteError
      BY <1>1, <3>3 DEF ReadRefused, WriteError, IInv, Shape, TypeOK
    <3>4. CASE ReadDrained
      BY <3>4 DEF ReadDrained, Held, IInv, Shape
    <3>5. CASE WriteDone
      <4>1. Held = SubSeq(sbuf, Len(sbuf) - 0 + 1, Len(sbuf)) /\ Held' = <<>>
        BY <3>5 DEF WriteDone, EndWrite, Held, Unsent
      <4>2. Len(sbuf) - 0 + 1 > Len(sbuf) /\ Len(sbuf) \in Int /\ Len(sbuf) - 0 + 1 \in Int
        BY DEF IInv, TypeOK
      <4> QED BY <4>1, <4>2, SubSeqEmpty
    <3>6. CASE ReadEnd
      BY <3>6 DEF ReadEnd, Held
    <3> QED BY <1>6, <2>1, <3>1, <3>2, <3>3, <3>4, <3>5, <3>6 DEF Next, ReactorStep
  <2> QED BY <1>2, <2>2, <2>3 DEF Pipeline
<1> QED BY <1>3, <1>4, <1>5, <1>6

-----------------------------------------------------------------------------
THEOREM Invariant == Spec => []IInv
<1>1. Init => IInv
  BY InitInv
<1>2. IInv /\ [Next]_vars => IInv'
  BY TypeStep, ShapeStep, BacklogStep, OrderStep, LossStep DEF IInv
<1> QED BY <1>1, <1>2, PTL DEF Spec

\* Every variable has its type, and data_left never exceeds the buffer it counts
\* (Connection.cpp:108-131).
THEOREM TypeCorrect == Spec => []TypeOK
<1>1. IInv => TypeOK
  BY DEF IInv
<1> QED BY <1>1, Invariant, PTL

\* A client gets its own bytes back in order and none twice, for every way the
\* stream is cut and whatever is dropped (Connection.cpp:51, 67 and 112).
THEOREM AnswersKeepOrder == Spec => []RepliesInOrder
<1>1. IInv => RepliesInOrder
  <2> SUFFICES ASSUME IInv PROVE RepliesInOrder
    OBVIOUS
  <2>1. /\ replied \in Seq(Nat) /\ Pipeline \in Seq(Nat) /\ Held \in Seq(Nat)
        /\ taken \in Nat
    BY HeldIsSeq DEF IInv, TypeOK
  <2>2. Len(replied) <= Len(Pipeline) /\ \A i \in 1..Len(replied) : replied[i] = Pipeline[i]
    BY <2>1 DEF Pipeline
  <2> QED BY <2>1, <2>2, PrefixInOrder DEF IInv, Order, RepliesInOrder
<1> QED BY <1>1, Invariant, PTL

\* Up to its first zero byte and the limit of its backlog nothing a client that is not
\* reset sent is lost between the buffers, but for the round that met the end of its
\* stream (Connection.cpp:73-106 and 108-131).
THEOREM NothingIsLost == Spec => []NothingLost
<1>1. IInv => NothingLost
  BY DEF IInv
<1> QED BY <1>1, Invariant, PTL

-----------------------------------------------------------------------------
(* The turns of EchoStream.                                                  *)

\* What is in read_buf_ has no zero byte.
Clean == \A i \in 1..Len(rbuf) : rbuf[i] \notin Zeros

\* What one read appends: the same positions, said with a function.
LEMMA FirstPositions ==
  ASSUME NEW t \in Nat, NEW k \in Nat, NEW n \in 0..k
  PROVE  SubSeq(Positions(t, k), 1, n) = [i \in 1..n |-> t + i]
<1>1. Positions(t, k) \in Seq(Nat) /\ Len(Positions(t, k)) = k
  BY DEF Positions
<1>2. /\ SubSeq(Positions(t, k), 1, n) \in Seq(Nat)
      /\ Len(SubSeq(Positions(t, k), 1, n)) = n
      /\ \A i \in 1..n : SubSeq(Positions(t, k), 1, n)[i] = t + i
  BY <1>1 DEF Positions
<1> DEFINE u == [i \in 1..n |-> t + i]
<1>3. u \in Seq(Nat) /\ Len(u) = n /\ \A i \in 1..n : u[i] = t + i
  OBVIOUS
<1> HIDE DEF u
<1>4. SubSeq(Positions(t, k), 1, n) = u
  BY <1>2, <1>3, SeqEqual
<1> QED BY <1>4 DEF u

\* The k bytes behind the first m.
LEMMA Part ==
  ASSUME NEW s \in Seq(Nat), NEW m \in Nat, NEW k \in Nat, m + k <= Len(s),
         NEW a, a = m + 1, NEW b, b = m + k
  PROVE  /\ SubSeq(s, a, b) \in Seq(Nat) /\ Len(SubSeq(s, a, b)) = k
         /\ \A i \in 1..k : SubSeq(s, a, b)[i] = s[m + i]
<1>1. a \in Int /\ b \in Int
  OBVIOUS
<1>2. \A i \in a..b : s[i] \in Nat
  OBVIOUS
<1>3. /\ SubSeq(s, a, b) \in Seq(Nat)
      /\ Len(SubSeq(s, a, b)) = IF a <= b THEN b - a + 1 ELSE 0
      /\ \A i \in 1..(b - a + 1) : SubSeq(s, a, b)[i] = s[a + i - 1]
  BY <1>1, <1>2, SubSeqProperties
<1>4. b - a + 1 = k /\ (IF a <= b THEN b - a + 1 ELSE 0) = k
  OBVIOUS
<1>5. \A i \in 1..k : a + i - 1 = m + i
  OBVIOUS
<1> QED BY <1>3, <1>4, <1>5

\* The first k bytes of the rest of a buffer, and what is left then.
LEMMA RestOfRest ==
  ASSUME NEW s \in Seq(Nat), NEW l \in 0..Len(s), NEW k \in 1..l
  PROVE  LET rest == SubSeq(s, Len(s) - l + 1, Len(s)) IN
         /\ Len(rest) = l
         /\ SubSeq(rest, 1, k) = SubSeq(s, Len(s) - l + 1, Len(s) - l + k)
         /\ SubSeq(rest, k + 1, Len(rest)) = SubSeq(s, Len(s) - (l - k) + 1, Len(s))
<1> DEFINE m == Len(s) - l
           j == l - k
           p == m + k
           q == Len(s) - j + 1
           r == k + 1
           rest == SubSeq(s, m + 1, Len(s))
           a == SubSeq(rest, 1, k)
           b == SubSeq(s, m + 1, p)
           c == SubSeq(rest, r, l)
           d == SubSeq(s, q, Len(s))
<1>1. /\ Len(s) \in Nat /\ l \in Nat /\ k \in Nat /\ m \in Nat /\ j \in Nat
      /\ m + l = Len(s) /\ m + k <= Len(s) /\ k + j = l /\ k <= l
      /\ p \in Nat /\ p + j = Len(s) /\ p + j <= Len(s) /\ q = p + 1 /\ p = m + k /\ r = k + 1
  OBVIOUS
<1> HIDE DEF m, j, p, q, r
<1>2. rest \in Seq(Nat) /\ Len(rest) = l /\ \A i \in 1..l : rest[i] = s[m + i]
  BY <1>1, Part
<1> HIDE DEF rest
<1>3. a \in Seq(Nat) /\ Len(a) = k /\ \A i \in 1..k : a[i] = rest[i]
  <2>1. PICK z \in Nat : z = 0 /\ 1 = z + 1 /\ k = z + k /\ z + k <= l
    BY <1>1
  <2>2. a \in Seq(Nat) /\ Len(a) = k /\ \A i \in 1..k : a[i] = rest[z + i]
    BY <1>1, <1>2, <2>1, Part
  <2>3. \A i \in 1..k : z + i = i
    BY <2>1
  <2> QED BY <2>2, <2>3
<1>4. b \in Seq(Nat) /\ Len(b) = k /\ \A i \in 1..k : b[i] = s[m + i]
  <2>1. m \in Nat /\ k \in Nat /\ m + k <= Len(s) /\ p = m + k
    BY <1>1
  <2> QED BY <2>1, Part
<1>5. c \in Seq(Nat) /\ Len(c) = j /\ \A i \in 1..j : c[i] = rest[k + i]
  <2>1. k \in Nat /\ j \in Nat /\ k + j <= Len(rest) /\ r = k + 1 /\ l = k + j
    BY <1>1, <1>2
  <2> QED BY <1>2, <2>1, Part
<1>6. d \in Seq(Nat) /\ Len(d) = j /\ \A i \in 1..j : d[i] = s[p + i]
  <2>1. p \in Nat /\ j \in Nat /\ p + j <= Len(s) /\ q = p + 1 /\ Len(s) = p + j
    BY <1>1
  <2> QED BY <2>1, Part
<1> HIDE DEF a, b, c, d
<1>7. a = b
  <2>1. \A i \in 1..k : i \in 1..l
    BY <1>1
  <2>2. \A i \in 1..k : a[i] = b[i]
    BY <1>2, <1>3, <1>4, <2>1
  <2> QED BY <1>3, <1>4, <2>2, SeqEqual
<1>8. c = d
  <2>1. \A i \in 1..j : k + i \in 1..l /\ m + (k + i) = p + i
    BY <1>1
  <2>2. \A i \in 1..j : c[i] = d[i]
    BY <1>2, <1>5, <1>6, <2>1
  <2> QED BY <1>5, <1>6, <2>2, SeqEqual
<1> QED BY <1>2, <1>7, <1>8 DEF rest, a, b, c, d, m, j, p, q, r

\* One read, up to its first zero byte.
LEMMA ReadTakes ==
  ASSUME TypeOK, ReadChunk
  PROVE  \E k \in 1..ReadSize, n \in Nat :
           /\ taken + k <= said /\ taken' = taken + k /\ n <= k
           /\ \A i \in 1..n : taken + i \notin Zeros
           /\ n < k => taken + n + 1 \in Zeros
           /\ rbuf' = rbuf \o [i \in 1..n |-> taken + i]
<1>1. PICK k \in 1..ReadSize : taken + k <= said /\ taken' = taken + k /\ Appended(k, rbuf')
  BY DEF ReadChunk
<1>2. PICK n \in 0..k : /\ CLength(Positions(taken, k), n)
                        /\ rbuf' = rbuf \o SubSeq(Positions(taken, k), 1, n)
  BY <1>1 DEF Appended, Positions
<1>3. taken \in Nat /\ k \in Nat /\ n \in Nat /\ n <= k
  BY ConnectionAssumption DEF ConnectionAssumption, TypeOK
<1>4. Len(Positions(taken, k)) = k /\ \A i \in 1..k : Positions(taken, k)[i] = taken + i
  BY <1>3 DEF Positions
<1>5. \A i \in 1..n : taken + i \notin Zeros
  <2>1. \A i \in 1..n : Positions(taken, k)[i] \notin Zeros /\ i \in 1..k
    BY <1>2, <1>3 DEF CLength
  <2> QED BY <1>4, <2>1
<1>6. n < k => taken + n + 1 \in Zeros
  <2> SUFFICES ASSUME n < k PROVE taken + n + 1 \in Zeros
    OBVIOUS
  <2>1. Positions(taken, k)[n + 1] \in Zeros /\ n + 1 \in 1..k
    BY <1>2, <1>3, <1>4 DEF CLength
  <2>2. taken + n + 1 = taken + (n + 1)
    BY <1>3
  <2> QED BY <1>4, <2>1, <2>2
<1> QED BY <1>1, <1>2, <1>3, <1>5, <1>6, FirstPositions

\* Only a read fills read_buf_.
LEMMA CleanStep == TypeOK /\ Clean /\ [Next]_vars => Clean'
<1> SUFFICES ASSUME TypeOK, Clean, [Next]_vars PROVE Clean'
  OBVIOUS
<1>1. CASE ReadChunk
  <2>1. PICK n \in Nat : /\ \A i \in 1..n : taken + i \notin Zeros
                         /\ rbuf' = rbuf \o [i \in 1..n |-> taken + i]
    BY <1>1, ReadTakes
  <2> DEFINE x == [i \in 1..n |-> taken + i]
  <2>2. x \in Seq(Nat) /\ Len(x) = n /\ \A i \in 1..n : x[i] \notin Zeros
    BY <2>1 DEF TypeOK
  <2>3. rbuf' = rbuf \o x /\ rbuf \in Seq(Nat) /\ Len(rbuf) \in Nat /\ n \in Nat
    BY <2>1 DEF TypeOK
  <2> HIDE DEF x
  <2>4. /\ Len(rbuf') = Len(rbuf) + n
        /\ \A i \in 1..(Len(rbuf) + n) :
             rbuf'[i] = IF i <= Len(rbuf) THEN rbuf[i] ELSE x[i - Len(rbuf)]
    BY <2>2, <2>3, ConcatProperties
  <2>5. ASSUME NEW i \in 1..(Len(rbuf) + n) PROVE rbuf'[i] \notin Zeros
    <3>1. CASE i <= Len(rbuf)
      BY <2>3, <2>4, <3>1 DEF Clean
    <3>2. CASE i > Len(rbuf)
      <4>1. i - Len(rbuf) \in 1..n /\ rbuf'[i] = x[i - Len(rbuf)]
        BY <2>3, <2>4, <3>2
      <4> QED BY <2>2, <4>1
    <3>3. i <= Len(rbuf) \/ i > Len(rbuf)
      <4>1. i \in Int /\ Len(rbuf) \in Int
        BY <2>3
      <4> QED BY <4>1
    <3> QED BY <3>1, <3>2, <3>3, Zenon
  <2> QED BY <2>4, <2>5 DEF Clean
<1>2. CASE ReadBegin
  BY <1>2 DEF ReadBegin, Clean
<1>3. CASE UNCHANGED rbuf
  BY <1>3 DEF Clean
<1> QED
  BY <1>1, <1>2, <1>3
     DEF Next, vars, client, Speak, Listen, Leave, ReactorStep, ReadRefused,
         ReadDrained, ReadEnd, Send, WriteSome, WriteFull, WriteError, WriteDone, EndWrite

\* A new Connection has heard nothing and owes nothing.
LEMMA EchoInit == Init => Clean /\ Echo!Init
BY DEF Init, Clean, Echo!Init, EchoTurn, Held

\* Each step of Business is one of the conversation's, or none of its business.
LEMMA EchoStep ==
  ASSUME IInv, Clean, [Next]_vars
  PROVE  [Echo!Next]_(Echo!vars)
<1>1. TypeOK /\ Shape /\ TypeOK'
  BY TypeStep DEF IInv
<1>2. CASE Speak
  BY <1>2 DEF Speak, Echo!Speak, Echo!Next, EchoTurn, Held, Unsent
<1>3. CASE Listen
  BY <1>1, <1>3 DEF TypeOK, Listen, client, Echo!Listen, Echo!Next, EchoTurn, Held, Unsent
<1>4. CASE Leave
  BY <1>4 DEF Leave, Echo!Leave, Echo!Next, EchoTurn, Held, Unsent
<1>5. CASE ReadBegin \/ ReadRefused
  BY <1>1, <1>5 DEF ReadBegin, ReadRefused, client, Echo!vars, EchoTurn, Held, TypeOK
<1>6. CASE ReadChunk
  <2>1. PICK k \in 1..ReadSize, n \in Nat :
          /\ taken + k <= said /\ taken' = taken + k /\ n <= k
          /\ \A i \in 1..n : taken + i \notin Zeros
          /\ n < k => taken + n + 1 \in Zeros
          /\ rbuf' = rbuf \o [i \in 1..n |-> taken + i]
    BY <1>1, <1>6, ReadTakes
  <2>4. Held = rbuf /\ Held' = rbuf' /\ EchoTurn = "hear" /\ EchoTurn' = "hear"
    BY <1>1, <1>6 DEF ReadChunk, Held, EchoTurn, Shape
  <2>5. Held' = Held \o [i \in 1..n |-> taken + i]
    BY <2>1, <2>4
  <2>6. Echo!Hear(k, n)
    BY <1>6, <2>1, <2>4, <2>5 DEF ReadChunk, client, Echo!Hear
  <2>7. k \in 1..MaxSaid /\ n \in 0..k
    BY <1>1, <2>1, ConnectionAssumption DEF ConnectionAssumption, TypeOK
  <2> QED BY <2>6, <2>7 DEF Echo!Next
<1>7. CASE ReadDrained
  <2>1. Echo!Turn
    BY <1>1, <1>7 DEF ReadDrained, client, Shape, Echo!Turn, EchoTurn, Held
  <2> QED BY <2>1 DEF Echo!Next
<1>8. CASE ReadEnd
  <2>1. Echo!End
    BY <1>1, <1>8 DEF ReadEnd, client, Shape, Echo!End, EchoTurn, Held
  <2> QED BY <2>1 DEF Echo!Next
<1>9. CASE Send
  <2>1. Held' = Held
    <3>1. CASE state = "Connected"
      <4>1. PICK n \in 0..Len(rbuf) : CLength(rbuf, n) /\ sbuf' = SubSeq(rbuf, 1, n)
        BY <1>9 DEF Send, Copied
      <4>2. n = Len(rbuf)
        BY <1>1, <4>1 DEF CLength, Clean, TypeOK
      <4>3. sbuf' = rbuf
        BY <1>1, <4>1, <4>2, SubSeqFull DEF TypeOK
      <4>4. Held = rbuf /\ Held' = SubSeq(rbuf, Len(rbuf) - Len(rbuf) + 1, Len(rbuf))
        BY <1>9, <3>1, <4>3 DEF Send, Held, Unsent
      <4>5. Len(rbuf) - Len(rbuf) + 1 = 1
        BY <1>1 DEF TypeOK
      <4> QED BY <1>1, <4>4, <4>5, SubSeqFull DEF TypeOK
    <3>2. CASE state # "Connected"
      BY <1>9, <3>2 DEF Send, Held
    <3> QED BY <3>1, <3>2
  <2>2. EchoTurn' = EchoTurn
    BY <1>1, <1>9 DEF Send, EchoTurn, TypeOK
  <2> QED BY <1>9, <2>1, <2>2 DEF Send, client, Echo!vars
<1>10. CASE WriteSome
  <2>1. PICK k \in 1..left :
          /\ unread + k <= Room /\ unread' = unread + k /\ left' = left - k
          /\ replied' = replied \o SubSeq(sbuf, Len(sbuf) - left + 1, Len(sbuf) - left + k)
    BY <1>10 DEF WriteSome
  <2>2. /\ Held = SubSeq(sbuf, Len(sbuf) - left + 1, Len(sbuf))
        /\ Held' = SubSeq(sbuf, Len(sbuf) - (left - k) + 1, Len(sbuf))
        /\ EchoTurn = "answer" /\ EchoTurn' = "answer"
    BY <1>1, <1>10, <2>1 DEF WriteSome, Held, Unsent, EchoTurn, Shape
  <2>3. /\ Len(Held) = left
        /\ SubSeq(Held, 1, k) = SubSeq(sbuf, Len(sbuf) - left + 1, Len(sbuf) - left + k)
        /\ SubSeq(Held, k + 1, Len(Held)) = Held'
    BY <1>1, <2>2, RestOfRest DEF TypeOK
  <2>4. Echo!Answer(k)
    BY <1>10, <2>1, <2>2, <2>3 DEF WriteSome, client, Echo!Answer
  <2> QED BY <2>3, <2>4 DEF Echo!Next
<1>11. CASE WriteFull \/ WriteDone
  <2>1. Held = <<>> \/ unread = Room
    <3>1. CASE WriteDone
      <4>1. Held = SubSeq(sbuf, Len(sbuf) - 0 + 1, Len(sbuf))
        BY <3>1 DEF WriteDone, Held, Unsent
      <4>2. Len(sbuf) - 0 + 1 > Len(sbuf) /\ Len(sbuf) \in Int /\ Len(sbuf) - 0 + 1 \in Int
        BY <1>1 DEF TypeOK
      <4> QED BY <4>1, <4>2, SubSeqEmpty
    <3> QED BY <1>11, <3>1 DEF WriteFull
  <2>2. /\ EchoTurn = "answer" /\ EchoTurn' = "hear" /\ Held' = <<>>
        /\ UNCHANGED <<peer, said, taken, replied, unread>>
    BY <1>1, <1>11 DEF WriteFull, WriteDone, EndWrite, client, EchoTurn, Held, Shape
  <2>3. Echo!Return
    BY <2>1, <2>2 DEF Echo!Return
  <2> QED BY <2>3 DEF Echo!Next
<1>12. CASE WriteError
  <2>1. Echo!Break
    BY <1>1, <1>12 DEF WriteError, EndWrite, client, Shape, Echo!Break, EchoTurn, Held
  <2> QED BY <2>1 DEF Echo!Next
<1>13. CASE UNCHANGED vars
  BY <1>13 DEF vars, client, Echo!vars, EchoTurn, Held, Unsent
<1> QED
  BY <1>2, <1>3, <1>4, <1>5, <1>6, <1>7, <1>8, <1>9, <1>10, <1>11, <1>12, <1>13
     DEF Next, ReactorStep

\* Business is a conversation in turns, whatever the sizes of its buffers, the
\* reads and the writes (Connection.cpp:45-131 and 185-188, echo_server.cpp:31-34).
THEOREM AnswersInTurn == Spec => ImplementsEcho
<1>1. IInv /\ Clean /\ [Next]_vars => Clean'
  BY CleanStep DEF IInv
<1> QED
  BY <1>1, Invariant, EchoInit, EchoStep, PTL DEF Spec, ImplementsEcho, Echo!Spec
=============================================================================

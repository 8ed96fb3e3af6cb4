-------------------------- MODULE EchoClients_proofs --------------------------
(***************************************************************************)
(* Proofs about EchoClients, for any number of clients and messages and any *)
(* set of descriptor numbers.                                              *)
(*                                                                         *)
(* A client that finds another socket under its number has been disturbed  *)
(* by one that has ended.  From that follows what an undisturbed client can *)
(* rely on: nobody writes to its socket and nobody reads from it, so what   *)
(* it is owed is what it has asked for.                                    *)
(***************************************************************************)
EXTENDS EchoClients, TLAPS

InTurn == {"write", "check", "readBlocking", "readNonBlocking"}
Reading == {"readBlocking", "readNonBlocking"}

\* What a client's place says of its number, its count and its read.
Places ==
  \A c \in Clients :
    /\ pc[c] = "create" => num[c] = None
    /\ pc[c] \in InTurn => count[c] < Msgs
    /\ blocked[c] # None => pc[c] \in Reading

\* A client without a number fails at its first write.
Numberless ==
  \A c \in Clients : num[c] = None =>
    /\ pc[c] \notin Reading /\ got[c] = 0 /\ count[c] = 0
    /\ pc[c] \notin {"check", "thrown"} => state[c] = "Connected"
    /\ pc[c] = "check" => state[c] = "Closed"
    /\ pc[c] \in {"deleteConn", "ended"} => Msgs = 0

\* A socket is found under no other number than its client's.
Owners ==
  \A n \in Numbers : sockOf[n] # None => num[sockOf[n]] = n

\* Who reads from another's socket has been disturbed, and so has the other one.
Thefts ==
  \A c \in Clients : blocked[c] \notin {None, c} =>
    /\ Disturbed(c)
    /\ Disturbed(blocked[c]) \/ pc[blocked[c]] = "ended"

Owes(c) == IF pc[c] \in {"check", "readBlocking"} THEN 1 ELSE 0

\* The books of an undisturbed client, until it closes its number.
Balanced(c) ==
  /\ pc[c] \notin {"readNonBlocking", "thrown"}
  /\ state[c] = "Connected"
  /\ pc[c] # "connect" => c \in connected
  /\ got[c] = count[c]
  /\ owed[c] = Owes(c)

Accounts ==
  \A c \in Clients : ~Disturbed(c) =>
    /\ InUse(c) => Balanced(c)
    /\ pc[c] = "create" => owed[c] = 0 /\ got[c] = 0 /\ count[c] = 0 /\ state[c] = "Connected"
    /\ pc[c] \in {"deleteConn", "ended"} => got[c] = Msgs

IInv ==
  /\ TypeOK /\ Places /\ Numberless /\ Owners /\ OnlyTheEndedDisturb
  /\ Thefts /\ Accounts

-----------------------------------------------------------------------------
\* A step of one client leaves the other clients' own variables alone.
Others(e) ==
  \A c \in Clients \ {e} :
    /\ num'[c] = num[c] /\ pc'[c] = pc[c] /\ state'[c] = state[c]
    /\ count'[c] = count[c] /\ blocked'[c] = blocked[c] /\ got'[c] = got[c]

LEMMA Frame ==
  ASSUME TypeOK, NEW e \in Clients, OneClient(e)
  PROVE  Others(e)
BY DEF TypeOK, Others, OneClient, Create, Connect, Turn, Write, WriteSent, WriteFails,
       WriteKills, CloseThrows, Thrown, Go, ReadBegin, AtRead, ReadBlocks, ReadFails,
       Receive, DeleteSock, DeleteConn, kernel

\* Only Create gives a number, and only to a client that has none.
LEMMA NumbersStay ==
  ASSUME TypeOK, Places, NEW e \in Clients, OneClient(e), NEW c \in Clients,
         num[c] # None
  PROVE  num'[c] = num[c]
<1>1. CASE Create(e)
  <2>1. c # e
    BY <1>1 DEF Create, Places
  <2> QED BY <2>1, Frame DEF Others
<1>2. CASE ~Create(e)
  BY <1>2 DEF OneClient, Connect, Turn, Write, CloseThrows, ReadBegin, ReadBlocks,
              ReadFails, Receive, DeleteSock, DeleteConn
<1> QED BY <1>1, <1>2

\* A client that has ended stays where it is.
LEMMA EndedStays ==
  ASSUME TypeOK, NEW e \in Clients, OneClient(e), NEW c \in Clients, pc[c] = "ended"
  PROVE  pc'[c] = "ended"
<1>1. CASE c = e
  BY <1>1, ClientsAssumption
     DEF TypeOK, ClientsAssumption, OneClient, Create, Connect, Turn, Write, CloseThrows, ReadBegin, AtRead,
         ReadBlocks, ReadFails, Receive, DeleteSock, DeleteConn
<1>2. CASE c # e
  BY <1>2, Frame DEF Others
<1> QED BY <1>1, <1>2

\* A disturbance is for good.
LEMMA DisturbedStays ==
  ASSUME TypeOK, Places, NEW e \in Clients, OneClient(e), NEW c \in Clients, Disturbed(c)
  PROVE  Disturbed(c)'
<1>1. PICK d \in Clients \ {c} : num[d] = num[c] /\ pc[d] = "ended"
  BY DEF Disturbed
<1>2. num[d] # None /\ num[c] # None
  BY <1>1 DEF Disturbed
<1>3. num'[d] = num'[c] /\ num'[c] # None
  BY <1>1, <1>2, NumbersStay
<1>4. pc'[d] = "ended"
  BY <1>1, EndedStays
<1> QED BY <1>1, <1>3, <1>4 DEF Disturbed

-----------------------------------------------------------------------------
LEMMA InitInv == Init => IInv
<1> SUFFICES ASSUME Init PROVE IInv
  OBVIOUS
<1> USE ClientsAssumption DEF ClientsAssumption, Init
<1>1. TypeOK
  BY DEF TypeOK
<1>2. Places /\ Numberless /\ Owners /\ Thefts
  BY DEF Places, Numberless, Owners, Thefts, InTurn, Reading
<1>3. OnlyTheEndedDisturb /\ Accounts
  BY DEF OnlyTheEndedDisturb, Accounts, InUse
<1> QED BY <1>1, <1>2, <1>3 DEF IInv

\* Where the number of a client that has one points.
LEMMA SocketType ==
  ASSUME TypeOK, NEW c \in Clients
  PROVE  /\ Socket(c) \in Clients \cup {None}
         /\ num[c] # None => num[c] \in Numbers /\ Socket(c) = sockOf[num[c]]
BY DEF TypeOK, Socket

LEMMA TypeStep ==
  ASSUME TypeOK, Places, NEW e \in Clients, OneClient(e)
  PROVE  TypeOK'
<1> USE ClientsAssumption DEF ClientsAssumption, Go
<1>1. CASE Create(e)
  BY <1>1 DEF TypeOK, Create
<1>2. CASE Connect(e)
  <2>1. {Socket(e)} \ {None} \subseteq Clients
    BY <1>2, SocketType DEF Connect
  <2> QED BY <1>2, <2>1 DEF TypeOK, Connect
<1>3. CASE Turn(e) \/ CloseThrows(e) \/ ReadBegin(e)
  BY <1>3 DEF TypeOK, Turn, CloseThrows, Thrown, ReadBegin, kernel
<1>4. CASE Write(e)
  <2>1. CASE WriteSent(e)
    <3>1. Socket(e) \in Clients
      BY <2>1 DEF TypeOK, WriteSent
    <3> QED BY <1>4, <2>1, <3>1 DEF TypeOK, Write, WriteSent
  <2>2. CASE WriteFails(e) \/ WriteKills(e)
    BY <1>4, <2>2 DEF TypeOK, Write, WriteFails, WriteKills
  <2> QED BY <1>4, <2>1, <2>2 DEF Write
<1>5. CASE ReadBlocks(e)
  BY <1>5 DEF TypeOK, ReadBlocks, kernel
<1>6. CASE ReadFails(e)
  <2>1. count[e] < Msgs
    BY <1>6 DEF ReadFails, AtRead, Places, InTurn
  <2> QED BY <1>6, <2>1 DEF TypeOK, ReadFails, Thrown, kernel
<1>7. CASE Receive(e)
  <2>1. blocked[e] \in Clients /\ count[e] < Msgs
    BY <1>7 DEF Receive, Places, TypeOK, InTurn, Reading
  <2>2. PICK k \in 1..owed[blocked[e]] :
          /\ owed' = [owed EXCEPT ![blocked[e]] = @ - k]
          /\ got' = [got EXCEPT ![e] = @ + k]
    BY <1>7 DEF Receive
  <2>3. owed' \in [Clients -> Nat] /\ got' \in [Clients -> Nat]
    BY <2>1, <2>2 DEF TypeOK
  <2>4. /\ blocked' \in [Clients -> Clients \cup {None}]
        /\ count' \in [Clients -> 0..Msgs]
        /\ pc' \in [Clients -> {"create", "connect", "loop", "write", "check",
             "readBlocking", "readNonBlocking", "thrown", "deleteConn", "ended"}]
    BY <1>7, <2>1 DEF TypeOK, Receive
  <2> QED BY <1>7, <2>3, <2>4 DEF TypeOK, Receive
<1>8. CASE DeleteSock(e) \/ DeleteConn(e)
  BY <1>8 DEF TypeOK, DeleteSock, DeleteConn, CloseNumber
<1> QED BY <1>1, <1>2, <1>3, <1>4, <1>5, <1>6, <1>7, <1>8 DEF OneClient

LEMMA PlacesStep ==
  ASSUME TypeOK, Places, NEW e \in Clients, OneClient(e)
  PROVE  Places'
<1> SUFFICES ASSUME NEW c \in Clients
             PROVE  /\ pc'[c] = "create" => num'[c] = None
                    /\ pc'[c] \in InTurn => count'[c] < Msgs
                    /\ blocked'[c] # None => pc'[c] \in Reading
  BY DEF Places
<1>1. CASE c # e
  BY <1>1, Frame DEF Others, Places
<1>2. CASE c = e
  <2> USE <1>2, ClientsAssumption DEF ClientsAssumption, Go, TypeOK, Places, InTurn, Reading
  <2>1. CASE Create(e)
    BY <2>1 DEF Create
  <2>2. CASE Connect(e) \/ Turn(e) \/ CloseThrows(e) \/ ReadBegin(e)
    BY <2>2 DEF Connect, Turn, More, CloseThrows, Thrown, ReadBegin, kernel
  <2>3. CASE Write(e)
    BY <2>3 DEF Write, WriteSent, WriteFails, WriteKills
  <2>4. CASE ReadBlocks(e) \/ ReadFails(e)
    BY <2>4 DEF ReadBlocks, ReadFails, AtRead, Thrown, kernel
  <2>5. CASE Receive(e)
    BY <2>5 DEF Receive
  <2>6. CASE DeleteSock(e) \/ DeleteConn(e)
    BY <2>6 DEF DeleteSock, DeleteConn
  <2> QED BY <2>1, <2>2, <2>3, <2>4, <2>5, <2>6 DEF OneClient
<1> QED BY <1>1, <1>2

LEMMA NumberlessStep ==
  ASSUME TypeOK, Places, Numberless, NEW e \in Clients, OneClient(e)
  PROVE  Numberless'
<1> SUFFICES ASSUME NEW c \in Clients, num'[c] = None
             PROVE  /\ pc'[c] \notin Reading /\ got'[c] = 0 /\ count'[c] = 0
                    /\ pc'[c] \notin {"check", "thrown"} => state'[c] = "Connected"
                    /\ pc'[c] = "check" => state'[c] = "Closed"
                    /\ pc'[c] \in {"deleteConn", "ended"} => Msgs = 0
  BY DEF Numberless
<1>1. num[c] = None
  BY NumbersStay
<1>2. CASE c # e
  BY <1>1, <1>2, Frame DEF Others, Numberless
<1>3. CASE c = e
  <2> USE <1>1, <1>3, ClientsAssumption DEF ClientsAssumption, Go, TypeOK, Reading
  <2>1. CASE Create(e)
    BY <2>1 DEF Create, Numberless
  <2>2. CASE Connect(e) \/ Turn(e)
    BY <2>2 DEF Connect, Turn, kernel, Numberless
  <2>3. CASE Write(e)
    <3>1. WriteFails(e)
      BY <2>3 DEF Write, WriteSent, WriteKills, BadNumber, Socket
    <3> QED BY <2>3, <3>1 DEF Write, WriteFails, Numberless
  <2>4. CASE CloseThrows(e)
    BY <2>4 DEF CloseThrows, Thrown, kernel, Numberless
  <2>5. ~ReadBegin(e) /\ ~ReadBlocks(e) /\ ~ReadFails(e) /\ ~Receive(e)
    BY DEF ReadBegin, ReadBlocks, ReadFails, AtRead, Receive, Numberless, Places
  <2>6. CASE DeleteSock(e) \/ DeleteConn(e)
    BY <2>6 DEF DeleteSock, DeleteConn, More, Numberless
  <2> QED BY <2>1, <2>2, <2>3, <2>4, <2>5, <2>6 DEF OneClient
<1> QED BY <1>2, <1>3

\* What a step does to the descriptors.
LEMMA Descriptors ==
  ASSUME TypeOK, Places, NEW e \in Clients, OneClient(e)
  PROVE  \/ sockOf' = sockOf
         \/ /\ Create(e)
            /\ \E n \in Numbers : /\ sockOf[n] = None /\ num'[e] = n
                                  /\ sockOf' = [sockOf EXCEPT ![n] = e]
         \/ /\ DeleteSock(e) \/ DeleteConn(e)
            /\ num[e] # None
            /\ sockOf' = [sockOf EXCEPT ![num[e]] = None]
<1>1. CASE Create(e)
  BY <1>1 DEF Create, Lowest, TypeOK
<1>2. CASE DeleteSock(e) \/ DeleteConn(e)
  BY <1>2 DEF DeleteSock, DeleteConn, CloseNumber
<1>3. CASE ~Create(e) /\ ~DeleteSock(e) /\ ~DeleteConn(e)
  BY <1>3 DEF OneClient, Connect, Turn, Write, CloseThrows, ReadBegin, ReadBlocks,
              ReadFails, Receive, kernel
<1> QED BY <1>1, <1>2, <1>3

LEMMA OwnersStep ==
  ASSUME TypeOK, Places, Owners, NEW e \in Clients, OneClient(e)
  PROVE  Owners'
<1> SUFFICES ASSUME NEW n \in Numbers, sockOf'[n] # None
             PROVE  num'[sockOf'[n]] = n
  BY DEF Owners
<1>1. CASE sockOf'[n] = sockOf[n]
  <2>1. sockOf[n] \in Clients /\ num[sockOf[n]] = n
    BY <1>1 DEF TypeOK, Owners
  <2>2. num[sockOf[n]] # None
    BY <2>1, ClientsAssumption DEF ClientsAssumption
  <2> QED BY <1>1, <2>1, <2>2, NumbersStay
<1>2. CASE sockOf'[n] # sockOf[n]
  <2>1. sockOf'[n] = e /\ num'[e] = n
    BY <1>2, Descriptors DEF TypeOK
  <2> QED BY <2>1
<1> QED BY <1>1, <1>2

LEMMA DisturbStep ==
  ASSUME TypeOK, Places, OnlyTheEndedDisturb, NEW e \in Clients, OneClient(e)
  PROVE  OnlyTheEndedDisturb'
<1> SUFFICES ASSUME NEW c \in Clients, InUse(c)', sockOf'[num'[c]] # c
             PROVE  Disturbed(c)'
  BY DEF OnlyTheEndedDisturb, Socket, InUse
<1>1. ~Create(c)
  <2> SUFFICES ASSUME Create(c) PROVE FALSE
    OBVIOUS
  <2>1. num[c] = None /\ num'[c] # None
    BY DEF Create, Places, InUse
  <2> QED BY <2>1 DEF Create, TypeOK
<1>2. num'[c] = num[c]
  <2>1. CASE c # e
    BY <2>1, Frame DEF Others
  <2>2. CASE c = e
    BY <1>1, <2>2 DEF OneClient, Connect, Turn, Write, CloseThrows, ReadBegin, ReadBlocks, ReadFails,
                      Receive, DeleteSock, DeleteConn
  <2> QED BY <2>1, <2>2
<1>3. num[c] \in Numbers
  BY <1>2, SocketType DEF InUse
<1>4. InUse(c)
  <2>1. CASE c # e
    BY <2>1, Frame DEF Others, InUse
  <2>2. CASE c = e
    BY <1>2, <2>2
       DEF InUse, OneClient, Create, Connect, Turn, Write, CloseThrows, ReadBegin, ReadBlocks,
           ReadFails, AtRead, Receive, DeleteSock, DeleteConn, Go, TypeOK
  <2> QED BY <2>1, <2>2
<1>5. CASE sockOf[num[c]] # c
  BY <1>3, <1>4, <1>5, SocketType, DisturbedStays DEF OnlyTheEndedDisturb, InUse
<1>6. CASE sockOf[num[c]] = c
  <2>1. /\ DeleteSock(e) \/ DeleteConn(e)
        /\ num[e] = num[c]
    <3>1. sockOf \in [Numbers -> Clients \cup {None}] /\ c # None
      BY ClientsAssumption DEF ClientsAssumption, TypeOK
    <3>2. sockOf'[num[c]] # sockOf[num[c]]
      BY <1>2, <1>6
    <3>3. \A n \in Numbers : sockOf[n] = None => sockOf' # [sockOf EXCEPT ![n] = e]
      <4> SUFFICES ASSUME NEW n \in Numbers, sockOf[n] = None,
                          sockOf' = [sockOf EXCEPT ![n] = e]
                   PROVE  FALSE
        OBVIOUS
      <4>1. n # num[c]
        BY <1>6, <3>1
      <4> QED BY <1>3, <3>1, <3>2, <4>1
    <3>4. /\ DeleteSock(e) \/ DeleteConn(e)
          /\ sockOf' = [sockOf EXCEPT ![num[e]] = None]
      BY <3>2, <3>3, Descriptors
    <3> QED BY <1>3, <3>1, <3>2, <3>4
  <2>2. c # e
    BY <2>1, Frame DEF DeleteSock, DeleteConn, Go, InUse, TypeOK
  <2>3. num[c] # None /\ num'[c] # None /\ num[e] # None
    BY <1>2, <1>4, <2>1 DEF InUse
  <2>4. CASE DeleteConn(e)
    <3>1. num'[e] = num'[c] /\ pc'[e] = "ended"
      BY <1>2, <2>1, <2>4 DEF DeleteConn, Go, TypeOK
    <3> QED BY <2>2, <2>3, <3>1 DEF Disturbed
  <2>5. CASE DeleteSock(e)
    <3>1. InUse(e) /\ Socket(e) # e
      BY <1>6, <2>1, <2>2, <2>3, <2>5 DEF DeleteSock, InUse, Socket
    <3>2. PICK d \in Clients \ {e} : num[d] = num[e] /\ pc[d] = "ended"
      BY <3>1 DEF OnlyTheEndedDisturb, Disturbed
    <3>3. d # c
      BY <1>4, <3>2 DEF InUse
    <3>4. Disturbed(c)
      BY <2>1, <2>3, <3>2, <3>3 DEF Disturbed
    <3> QED BY <3>4, DisturbedStays
  <2> QED BY <2>1, <2>4, <2>5
<1> QED BY <1>5, <1>6

\* Whom a read or a write meets under a number that is not its own.
LEMMA Met ==
  ASSUME TypeOK, Places, Owners, OnlyTheEndedDisturb,
         NEW e \in Clients, InUse(e), NEW s \in Clients \ {e}, Socket(e) = s
  PROVE  Disturbed(e) /\ (Disturbed(s) \/ pc[s] = "ended")
<1>1. PICK d \in Clients \ {e} : num[d] = num[e] /\ pc[d] = "ended"
  BY DEF OnlyTheEndedDisturb, Disturbed
<1>2. num[s] = num[e] /\ num[e] # None
  <2>1. num[e] \in Numbers /\ num[e] # None /\ Socket(e) = sockOf[num[e]]
    BY SocketType DEF InUse
  <2> QED BY <2>1, ClientsAssumption DEF ClientsAssumption, Owners
<1>3. Disturbed(e)
  BY <1>1, <1>2 DEF Disturbed
<1>4. CASE d = s
  BY <1>1, <1>3, <1>4
<1>5. CASE d # s
  BY <1>1, <1>2, <1>3, <1>5 DEF Disturbed
<1> QED BY <1>4, <1>5

LEMMA TheftsStep ==
  ASSUME TypeOK, Places, Owners, OnlyTheEndedDisturb, Thefts,
         NEW e \in Clients, OneClient(e)
  PROVE  Thefts'
<1> SUFFICES ASSUME NEW c \in Clients, blocked'[c] \notin {None, c}
             PROVE  /\ Disturbed(c)'
                    /\ (Disturbed(blocked[c]) \/ pc[blocked[c]] = "ended")'
  BY DEF Thefts
<1>1. PICK s \in Clients \ {c} : s = blocked'[c]
  BY TypeStep DEF TypeOK
<1>2. CASE blocked[c] = s
  <2>1. Disturbed(c) /\ (Disturbed(s) \/ pc[s] = "ended")
    BY <1>2, ClientsAssumption DEF ClientsAssumption, Thefts
  <2>2. Disturbed(c)'
    BY <2>1, DisturbedStays
  <2>3. Disturbed(s)' \/ pc'[s] = "ended"
    BY <2>1, DisturbedStays, EndedStays
  <2> QED BY <1>1, <2>2, <2>3 DEF Disturbed
<1>3. CASE blocked[c] # s
  <2>1. c = e /\ ReadBlocks(c)
    BY <1>1, <1>3, Frame, ClientsAssumption
       DEF ClientsAssumption, Others, OneClient, Create, Connect, Turn, Write, CloseThrows,
           ReadBegin, ReadFails, Receive, DeleteSock, DeleteConn, TypeOK
  <2>2. Socket(c) = s /\ InUse(c)
    <3>1. Socket(c) = s /\ s # None /\ pc[c] \in Reading
      BY <1>1, <2>1, ClientsAssumption DEF ClientsAssumption, ReadBlocks, AtRead, Reading, TypeOK
    <3>2. num[c] # None
      BY <3>1 DEF Socket
    <3> QED BY <3>1, <3>2 DEF InUse, Reading
  <2>3. Disturbed(c) /\ (Disturbed(s) \/ pc[s] = "ended")
    BY <2>2, Met
  <2>4. Disturbed(c)'
    BY <2>3, DisturbedStays
  <2>5. Disturbed(s)' \/ pc'[s] = "ended"
    BY <2>3, DisturbedStays, EndedStays
  <2> QED BY <1>1, <2>4, <2>5 DEF Disturbed
<1> QED BY <1>2, <1>3

-----------------------------------------------------------------------------
\* Nobody else reads from, or writes to, the socket of an undisturbed client.
LEMMA Private ==
  ASSUME TypeOK, Places, Owners, OnlyTheEndedDisturb, Thefts,
         NEW c \in Clients, ~Disturbed(c), pc[c] # "ended", NEW e \in Clients \ {c}
  PROVE  /\ pc[e] \notin {"deleteConn", "ended"} => Socket(e) # c
         /\ blocked[e] # c
<1>1. ASSUME pc[e] \notin {"deleteConn", "ended"} PROVE Socket(e) # c
  <2>1. CASE num[e] # None
    BY <1>1, <2>1, Met DEF InUse
  <2>2. CASE num[e] = None
    BY <2>2, ClientsAssumption DEF ClientsAssumption, Socket
  <2> QED BY <2>1, <2>2
<1>2. blocked[e] # c
  BY ClientsAssumption DEF ClientsAssumption, Thefts
<1> QED BY <1>1, <1>2

\* The steps of the others leave its books alone.
LEMMA OthersKeepAccounts ==
  ASSUME TypeOK, Places, Owners, OnlyTheEndedDisturb, Thefts,
         NEW e \in Clients, OneClient(e),
         NEW c \in Clients \ {e}, ~Disturbed(c), pc[c] # "ended"
  PROVE  owed'[c] = owed[c] /\ (c \in connected => c \in connected')
<1>1. /\ pc[e] \notin {"deleteConn", "ended"} => Socket(e) # c
      /\ blocked[e] # c
  BY Private
<1>2. CASE Write(e)
  <2>1. Socket(e) # c
    BY <1>1, <1>2 DEF Write
  <2>2. CASE WriteSent(e)
    BY <1>2, <2>1, <2>2 DEF Write, WriteSent, TypeOK
  <2>3. CASE WriteFails(e) \/ WriteKills(e)
    BY <1>2, <2>3 DEF Write, WriteFails, WriteKills
  <2> QED BY <1>2, <2>2, <2>3 DEF Write
<1>3. CASE Receive(e)
  BY <1>1, <1>3 DEF Receive, TypeOK
<1>4. CASE ~Write(e) /\ ~Receive(e)
  BY <1>4 DEF OneClient, Create, Connect, Turn, CloseThrows, ReadBegin, ReadBlocks,
              ReadFails, DeleteSock, DeleteConn, kernel
<1> QED BY <1>2, <1>3, <1>4

\* And its own steps keep them.
LEMMA OwnAccounts ==
  ASSUME TypeOK, Places, Numberless, OnlyTheEndedDisturb, Thefts, Accounts,
         NEW c \in Clients, OneClient(c), ~Disturbed(c)
  PROVE  /\ InUse(c)' => Balanced(c)'
         /\ pc'[c] = "create" => owed'[c] = 0 /\ got'[c] = 0 /\ count'[c] = 0
                                 /\ state'[c] = "Connected"
         /\ pc'[c] \in {"deleteConn", "ended"} => got'[c] = Msgs
<1> USE ClientsAssumption DEF ClientsAssumption, Go, TypeOK
<1>1. InUse(c) => Balanced(c) /\ Socket(c) = c
  BY DEF Accounts, OnlyTheEndedDisturb
<1>2. ASSUME num[c] = None, ~Create(c)
      PROVE  /\ ~InUse(c)' /\ pc'[c] # "create"
             /\ pc'[c] \in {"deleteConn", "ended"} => got'[c] = Msgs
  <2>1. num'[c] = None /\ pc'[c] # "create"
    BY <1>2 DEF OneClient, Connect, Turn, Write, WriteSent, WriteFails, WriteKills, CloseThrows, Thrown,
                ReadBegin, ReadBlocks, ReadFails, AtRead, Receive, DeleteSock, DeleteConn, Places, Reading
  <2>2. Numberless'
    BY NumberlessStep
  <2> QED BY <2>1, <2>2 DEF Numberless, InUse
<1>3. CASE Create(c)
  BY <1>3 DEF Create, Accounts, Balanced, Owes, InUse, Places
<1>4. CASE num[c] # None /\ ~Create(c)
  <2>1. pc[c] \notin {"deleteConn", "ended"} => Balanced(c) /\ Socket(c) = c
    BY <1>1, <1>4 DEF InUse
  <2>2. CASE Connect(c)
    BY <2>1, <2>2 DEF Connect, Balanced, Owes, InUse
  <2>3. CASE Turn(c)
    BY <2>1, <2>3 DEF Turn, kernel, Balanced, Owes, InUse
  <2>4. CASE Write(c)
    <3>1. Balanced(c) /\ Socket(c) = c /\ c \in connected
      BY <2>1, <2>4 DEF Write, Balanced
    <3>2. WriteSent(c)
      BY <2>4, <3>1 DEF Write, WriteFails, WriteKills, BadNumber
    <3> QED BY <2>4, <3>1, <3>2 DEF Write, WriteSent, Balanced, Owes, InUse
  <2>5. CASE CloseThrows(c) \/ ReadBegin(c)
    BY <2>1, <2>5 DEF CloseThrows, ReadBegin, BadNumber, kernel, Balanced, Owes, InUse
  <2>6. CASE ReadBlocks(c) \/ ReadFails(c)
    BY <2>1, <2>6 DEF ReadBlocks, ReadFails, AtRead, kernel, Balanced, Owes, InUse
  <2>7. CASE Receive(c)
    <3>1. Balanced(c) /\ pc[c] = "readBlocking"
      BY <2>1, <2>7 DEF Receive, Balanced, Places, Reading
    <3>2. blocked[c] = c /\ owed[c] = 1
      BY <2>7, <3>1 DEF Receive, Thefts, Balanced, Owes
    <3>3. owed'[c] = 0 /\ got'[c] = got[c] + 1 /\ count'[c] = count[c] + 1
      BY <2>7, <3>1, <3>2 DEF Receive
    <3>4. pc'[c] = "loop" /\ state' = state /\ connected' = connected
      BY <2>7, <3>1 DEF Receive
    <3> QED BY <3>1, <3>3, <3>4 DEF Balanced, Owes, InUse
  <2>8. CASE DeleteSock(c)
    <3>1. got[c] = count[c] /\ count[c] = Msgs
      BY <2>1, <2>8 DEF DeleteSock, More, Balanced
    <3> QED BY <2>8, <3>1 DEF DeleteSock, InUse
  <2>9. CASE DeleteConn(c)
    BY <2>9 DEF DeleteConn, Accounts, InUse
  <2> QED BY <1>4, <2>2, <2>3, <2>4, <2>5, <2>6, <2>7, <2>8, <2>9 DEF OneClient
<1> QED BY <1>2, <1>3, <1>4

LEMMA AccountsStep ==
  ASSUME TypeOK, Places, Numberless, Owners, OnlyTheEndedDisturb, Thefts, Accounts,
         NEW e \in Clients, OneClient(e)
  PROVE  Accounts'
<1> SUFFICES ASSUME NEW c \in Clients, ~Disturbed(c)'
             PROVE  /\ InUse(c)' => Balanced(c)'
                    /\ pc'[c] = "create" => owed'[c] = 0 /\ got'[c] = 0 /\ count'[c] = 0
                                            /\ state'[c] = "Connected"
                    /\ pc'[c] \in {"deleteConn", "ended"} => got'[c] = Msgs
  BY DEF Accounts
<1>1. ~Disturbed(c)
  BY DisturbedStays
<1>2. CASE c = e
  BY <1>1, <1>2, OwnAccounts
<1>3. CASE c # e
  <2>1. /\ pc'[c] = pc[c] /\ state'[c] = state[c] /\ count'[c] = count[c]
        /\ got'[c] = got[c] /\ num'[c] = num[c]
    BY <1>3, Frame DEF Others
  <2>2. CASE pc[c] = "ended"
    BY <1>1, <2>1, <2>2 DEF Accounts, InUse
  <2>3. CASE pc[c] # "ended"
    <3>1. owed'[c] = owed[c] /\ (c \in connected => c \in connected')
      BY <1>1, <1>3, <2>3, OthersKeepAccounts
    <3> QED BY <1>1, <2>1, <3>1 DEF Accounts, InUse, Balanced, Owes
  <2> QED BY <2>2, <2>3
<1> QED BY <1>2, <1>3

-----------------------------------------------------------------------------
THEOREM Invariant == Spec => []IInv
<1>1. Init => IInv
  BY InitInv
<1>2. IInv /\ [Next]_vars => IInv'
  <2> SUFFICES ASSUME IInv, [Next]_vars PROVE IInv'
    OBVIOUS
  <2>1. CASE Next
    <3>1. PICK e \in Clients : OneClient(e)
      BY <2>1 DEF Next
    <3> QED BY <3>1, TypeStep, PlacesStep, NumberlessStep, OwnersStep, DisturbStep, TheftsStep,
               AccountsStep DEF IInv
  <2>2. CASE UNCHANGED vars
    <3>1. TypeOK' /\ Places' /\ Numberless' /\ Owners'
      BY <2>2 DEF vars, kernel, IInv, TypeOK, Places, Numberless, Owners
    <3>2. OnlyTheEndedDisturb' /\ Thefts'
      BY <2>2 DEF vars, kernel, IInv, OnlyTheEndedDisturb, Thefts, InUse, Socket, Disturbed
    <3>3. Accounts'
      BY <2>2 DEF vars, kernel, IInv, Accounts, Balanced, Owes, InUse, Disturbed
    <3> QED BY <3>1, <3>2, <3>3 DEF IInv
  <2> QED BY <2>1, <2>2
<1> QED BY <1>1, <1>2, PTL DEF Spec

\* Every variable has its type; no client counts beyond msgs (echo_clients.cpp:25).
THEOREM TypeCorrect == Spec => []TypeOK
<1>1. IInv => TypeOK
  BY DEF IInv
<1> QED BY <1>1, Invariant, PTL

\* Only a client that has ended, and so has closed its number twice, puts another
\* one off its socket (echo_clients.cpp:35-36, Socket.cpp:22-27).
THEOREM DisturbanceHasACause == Spec => []OnlyTheEndedDisturb
<1>1. IInv => OnlyTheEndedDisturb
  BY DEF IInv
<1> QED BY <1>1, Invariant, PTL

\* A client that nobody disturbed ends with exactly Msgs answers, however many
\* others run beside it (echo_clients.cpp:25-34, Connection.cpp:133-165).
THEOREM UndisturbedAreServed == Spec => []UndisturbedIsAnswered
<1>1. IInv => UndisturbedIsAnswered
  BY DEF IInv, Accounts, UndisturbedIsAnswered
<1> QED BY <1>1, Invariant, PTL
=============================================================================

---------------------------- MODULE Reactor_proofs ----------------------------
(***************************************************************************)
(* Proofs about Reactor, for any clients, descriptors and sub reactors.    *)
(*                                                                         *)
(* The descriptors' story (DescInv) is kept by the threads' stories: the   *)
(* main thread's, that nobody destroys the Connection it has not inserted  *)
(* yet (MainInv), and each sub reactor's, that what it handles is live,    *)
(* and only its own to destroy (SubInv).                                   *)
(***************************************************************************)
EXTENDS Reactor, TLAPS

Ended == {"fin", "reset"}

\* Where the main thread owns a Connection that connections_ does not hold yet.
Building == {"enableET", "setCallbacks", "wire", "insert", "inserting"}

DescInv ==
  /\ \A f \in Fds : owner[f] # None => fdOf[owner[f]] = f
  /\ \A c \in Conns : obj[c] = "live" => fdOf[c] \in Fds /\ owner[fdOf[c]] = c
  /\ \A c \in Conns : fdOf[c] = None => obj[c] = "none"
  /\ RegistrationIsLive
  /\ TableOwnsDescriptor

MainInv ==
  /\ mpc = "idle" <=> mconn = None
  /\ mpc # "idle" => mconn \in Conns /\ fdOf[mconn] \in Fds
  /\ mpc = "enableRead" => owner[fdOf[mconn]] = mconn /\ obj[mconn] = "none"
  /\ mpc \in Building =>
       /\ obj[mconn] = "live" /\ table[fdOf[mconn]] # mconn
       /\ \A r \in Subs : victim[r] # mconn

Handles(r) ==
  /\ spc[r] \in {"poll", "next"} => active[r] = None
  /\ \A c \in batch[r] : obj[c] = "live" /\ fdOf[c] % NumSub = r /\ c # active[r]
  /\ spc[r] \in {"read", "find", "finding", "erase", "erasing"} =>
       active[r] \in Conns /\ obj[active[r]] = "live" /\ fdOf[active[r]] % NumSub = r
  /\ spc[r] = "onRecv" => active[r] \in Conns

Destroys(r) ==
  /\ spc[r] \in {"erase", "erasing"} => table[fdOf[active[r]]] = active[r]
  /\ spc[r] \in {"closeFd", "delete"} =>
       victim[r] \in Conns /\ fdOf[victim[r]] \in Fds /\ fdOf[victim[r]] % NumSub = r
  /\ spc[r] = "closeFd" =>
       /\ victim[r] = active[r] /\ obj[victim[r]] = "live"
       /\ table[fdOf[victim[r]]] # victim[r]
  /\ spc[r] = "delete" => victim[r] = active[r] /\ obj[victim[r]] = "unsocketed"
  /\ spc[r] \notin {"closeFd", "delete"} => victim[r] = None

SubInv == \A r \in Subs : Handles(r) /\ Destroys(r)

\* Who closes an open descriptor: NoOrphanDescriptor with the main thread's
\* share cut down to the time before it inserts.
OwnedInv ==
  \A f \in Fds : owner[f] # None =>
    \/ mconn = owner[f] /\ mpc \in Building \cup {"enableRead"}
    \/ table[f] = owner[f]
    \/ \E r \in Subs : spc[r] = "closeFd" /\ victim[r] = owner[f]

\* A reader that has seen the end has left nothing unread.
EndInv ==
  \A r \in Subs :
    spc[r] \in {"find", "finding", "erase", "erasing", "closeFd"} =>
      peer[active[r]] \in Ended /\ inbox[active[r]] = 0

\* What is unread was sent.
UnreadInv == \A c \in Conns : inbox[c] <= sent[c]

IInv == TypeOK /\ UnreadInv /\ DescInv /\ MainInv /\ SubInv /\ OwnedInv /\ EndInv

-----------------------------------------------------------------------------
LEMMA IInvInit == Init => IInv
<1> SUFFICES ASSUME Init PROVE IInv
  OBVIOUS
<1> USE ReactorAssumption DEF ReactorAssumption
<1>1. TypeOK
  BY DEF Init, TypeOK, PeerStates, ObjStates, MainPcs, SubPcs, Fates
<1>2. DescInv /\ UnreadInv
  BY DEF Init, DescInv, UnreadInv, RegistrationIsLive, TableOwnsDescriptor
<1>3. MainInv /\ OwnedInv
  BY DEF Init, MainInv, OwnedInv, Building
<1>4. SubInv /\ EndInv
  BY DEF Init, SubInv, EndInv, Handles, Destroys
<1> QED BY <1>1, <1>2, <1>3, <1>4 DEF IInv

LEMMA TypeStep == IInv /\ [Next]_vars => TypeOK'
<1> SUFFICES ASSUME IInv, [Next]_vars PROVE TypeOK'
  OBVIOUS
<1> USE ReactorAssumption DEF ReactorAssumption, IInv, TypeOK, clients, heap, mainVars,
          subVars, PeerStates, ObjStates, MainPcs, SubPcs, Fates
<1>1. ASSUME NEW c \in Conns, Connect(c) PROVE TypeOK'
  BY <1>1 DEF Connect
<1>2. ASSUME NEW c \in Conns, Send(c) PROVE TypeOK'
  <2> HIDE DEF PeerStates, ObjStates, MainPcs, SubPcs, Fates
  <2>1. inbox[c] <= sent[c] /\ inbox[c] \in 0..MaxSend /\ sent[c] \in 0..MaxSend
    BY DEF UnreadInv
  <2>2. inbox[c] + 1 \in 0..MaxSend /\ sent[c] + 1 \in 0..MaxSend
    BY <1>2, <2>1 DEF Send
  <2> QED BY <1>2, <2>2 DEF Send
<1>3. ASSUME NEW c \in Conns, HangUp(c) PROVE TypeOK'
  <2>1. PICK how \in {"fin", "reset"} : peer' = [peer EXCEPT ![c] = how]
    BY <1>3 DEF HangUp
  <2> QED BY <1>3, <2>1 DEF HangUp
<1>4. ASSUME NEW c \in Conns, Accept(c) PROVE TypeOK'
  <2>1. PICK f \in Free : /\ owner' = [owner EXCEPT ![f] = c]
                          /\ fdOf' = [fdOf EXCEPT ![c] = f]
    BY <1>4 DEF Accept
  <2>2. f \in Fds
    BY DEF Free
  <2> QED BY <1>4, <2>1, <2>2 DEF Accept
<1>5. CASE EnableRead
  BY <1>5 DEF EnableRead, Register
<1>6. CASE EnableET
  BY <1>6 DEF EnableET, Register
<1>7. CASE SetCallbacks
  BY <1>7 DEF SetCallbacks
<1>8. CASE Wire
  BY <1>8 DEF Wire
<1>9. CASE InsertEnter
  BY <1>9 DEF InsertEnter, Enter
<1>10. CASE Insert
  BY <1>10 DEF Insert, Leave, RaceOutcome
<1>11. CASE LookupEnter
  BY <1>11 DEF LookupEnter, Enter
<1>12. CASE LookupNull
  BY <1>12 DEF LookupNull
<1>13. CASE Lookup
  BY <1>13 DEF Lookup, Leave, RaceOutcome
<1>14. CASE OnConnect
  BY <1>14 DEF OnConnect, UseOutcome
<1>15. ASSUME NEW r \in Subs, Poll(r) PROVE TypeOK'
  <2>1. Ready(r) \subseteq Conns
    <3> HIDE DEF PeerStates, ObjStates, MainPcs, SubPcs, Fates
    <3> QED BY DEF Ready
  <2> QED BY <1>15, <2>1 DEF Poll
<1>16. ASSUME NEW r \in Subs, BatchDone(r) PROVE TypeOK'
  BY <1>16 DEF BatchDone
<1>17. ASSUME NEW r \in Subs, HandleEvent(r) PROVE TypeOK'
  <2>1. PICK c \in batch[r] : /\ batch' = [batch EXCEPT ![r] = Rest(r, c)]
                              /\ active' = [active EXCEPT ![r] = c]
    BY <1>17 DEF HandleEvent
  <2>2. c \in Conns /\ Rest(r, c) \in SUBSET Conns
    BY DEF Rest
  <2> QED BY <1>17, <2>1, <2>2 DEF HandleEvent
<1>18. ASSUME NEW r \in Subs, HandleEmpty(r) PROVE TypeOK'
  BY <1>18 DEF HandleEmpty
<1>19. ASSUME NEW r \in Subs, HandleTorn(r) PROVE TypeOK'
  BY <1>19 DEF HandleTorn
<1>20. ASSUME NEW r \in Subs, ReadRefused(r) PROVE TypeOK'
  BY <1>20 DEF ReadRefused
<1>21. ASSUME NEW r \in Subs, ReadData(r) PROVE TypeOK'
  <2> HIDE DEF PeerStates, ObjStates, MainPcs, SubPcs, Fates
  <2>1. active[r] \in Conns
    BY <1>21 DEF SubInv, Handles, ReadData
  <2>2. inbox[active[r]] - 1 \in 0..MaxSend
    BY <1>21, <2>1 DEF ReadData, HasData
  <2> QED BY <1>21, <2>2 DEF ReadData, HasData
<1>22. ASSUME NEW r \in Subs, ReadDrained(r) PROVE TypeOK'
  BY <1>22 DEF ReadDrained, HasData, AtEnd
<1>23. ASSUME NEW r \in Subs, ReadEnd(r) PROVE TypeOK'
  BY <1>23 DEF ReadEnd, AtEnd
<1>24. ASSUME NEW r \in Subs, FindEnter(r) PROVE TypeOK'
  BY <1>24 DEF FindEnter, Enter
<1>25. ASSUME NEW r \in Subs, FindFails(r) PROVE TypeOK'
  BY <1>25 DEF FindFails
<1>26. ASSUME NEW r \in Subs, Find(r) PROVE TypeOK'
  BY <1>26 DEF Find, Leave, RaceOutcome
<1>27. ASSUME NEW r \in Subs, EraseEnter(r) PROVE TypeOK'
  BY <1>27 DEF EraseEnter, Enter
<1>28. ASSUME NEW r \in Subs, Erase(r) PROVE TypeOK'
  <2>1. fdOf[active[r]] \in Fds
    BY <1>28 DEF SubInv, Handles, DescInv, Erase
  <2>2. table[fdOf[active[r]]] \in Conns \cup {None}
    BY <2>1
  <2> QED BY <1>28, <2>2 DEF Erase, Leave, RaceOutcome
<1>29. ASSUME NEW r \in Subs, CloseFd(r) PROVE TypeOK'
  BY <1>29 DEF CloseFd, Without
<1>30. ASSUME NEW r \in Subs, DeleteChannel(r) PROVE TypeOK'
  BY <1>30 DEF DeleteChannel
<1>31. ASSUME NEW r \in Subs, OnRecv(r) PROVE TypeOK'
  BY <1>31 DEF OnRecv, UseOutcome
<1>32. CASE UNCHANGED vars
  BY <1>32 DEF vars
<1> QED
  BY <1>1, <1>2, <1>3, <1>4, <1>5, <1>6, <1>7, <1>8, <1>9, <1>10, <1>11,
     <1>12, <1>13, <1>14, <1>15, <1>16, <1>17, <1>18, <1>19, <1>20,
     <1>21, <1>22, <1>23, <1>24, <1>25, <1>26, <1>27, <1>28, <1>29,
     <1>30, <1>31, <1>32
     DEF Next, ClientStep, MainStep, SubStep

LEMMA DescStep == IInv /\ [Next]_vars => DescInv'
<1> SUFFICES ASSUME IInv, [Next]_vars PROVE DescInv'
  OBVIOUS
<1> USE ReactorAssumption DEF ReactorAssumption, IInv
<1>1. ASSUME NEW c \in Conns, Accept(c)
      PROVE  DescInv'
  BY <1>1 DEF TypeOK, DescInv, RegistrationIsLive, TableOwnsDescriptor,
     Accept, Free, heap
<1>2. CASE EnableRead
  BY <1>2 DEF TypeOK, DescInv, RegistrationIsLive, TableOwnsDescriptor,
     MainInv, EnableRead, Register
<1>3. CASE EnableET
  BY <1>3 DEF TypeOK, DescInv, RegistrationIsLive, TableOwnsDescriptor,
     MainInv, Building, EnableET, Register, heap
<1>4. CASE Insert
  <2>1. mconn \in Conns /\ obj[mconn] = "live" /\ owner[fdOf[mconn]] = mconn
    BY <1>4 DEF MainInv, Building, DescInv, Insert
  <2> QED BY <1>4, <2>1 DEF TypeOK, DescInv, RegistrationIsLive,
             TableOwnsDescriptor, Insert, heap
<1>5. ASSUME NEW r \in Subs, Erase(r)
      PROVE  DescInv'
  <2>1. \A f \in Fds : table'[f] \in {table[f], None}
    BY <1>5 DEF TypeOK, Erase
  <2> QED BY <1>5, <2>1 DEF TypeOK, DescInv, RegistrationIsLive,
             TableOwnsDescriptor, Erase, heap
<1>6. ASSUME NEW r \in Subs, CloseFd(r)
      PROVE  DescInv'
  BY <1>6 DEF TypeOK, DescInv, RegistrationIsLive, TableOwnsDescriptor,
     SubInv, Destroys, CloseFd, Without
<1>7. ASSUME NEW r \in Subs, DeleteChannel(r)
      PROVE  DescInv'
  BY <1>7 DEF TypeOK, DescInv, RegistrationIsLive, TableOwnsDescriptor,
     SubInv, Destroys, DeleteChannel
<1>8. CASE UNCHANGED <<owner, interest, fdOf, obj, table>>
  BY <1>8 DEF DescInv, RegistrationIsLive, TableOwnsDescriptor
<1> QED
  BY <1>1, <1>2, <1>3, <1>4, <1>5, <1>6, <1>7, <1>8
     DEF Next, ClientStep, MainStep, SubStep, vars, clients, heap, mainVars,
         subVars, Connect, Send, HangUp, SetCallbacks, Wire, InsertEnter,
         LookupEnter, LookupNull, Lookup, OnConnect, Poll, BatchDone,
         HandleEvent, HandleEmpty, HandleTorn, ReadRefused, ReadData,
         ReadDrained, ReadEnd, FindEnter, FindFails, Find, EraseEnter,
         OnRecv

LEMMA MainInvStep == IInv /\ [Next]_vars => MainInv'
<1> SUFFICES ASSUME IInv, [Next]_vars PROVE MainInv'
  OBVIOUS
<1> USE ReactorAssumption DEF ReactorAssumption, IInv
<1>1. ASSUME NEW c \in Conns, Accept(c)
      PROVE  MainInv'
  <2>1. PICK f \in Free : /\ owner' = [owner EXCEPT ![f] = c]
                          /\ fdOf' = [fdOf EXCEPT ![c] = f]
    BY <1>1 DEF Accept
  <2>2. f \in Fds /\ obj[c] = "none"
    BY <1>1 DEF Free, DescInv, Accept
  <2> QED BY <1>1, <2>1, <2>2 DEF TypeOK, MainInv, Building, Accept
<1>2. CASE EnableRead
  <2>1. mconn \in Conns /\ fdOf[mconn] \in Fds /\ obj[mconn] = "none"
    BY <1>2 DEF MainInv, EnableRead
  <2>2. table[fdOf[mconn]] # mconn
    <3>1. mconn # None
      BY <2>1
    <3> QED BY <2>1, <3>1 DEF DescInv, TableOwnsDescriptor
  <2>3. ASSUME NEW r \in Subs PROVE victim[r] # mconn
    <3>1. CASE spc[r] \in {"closeFd", "delete"}
      BY <2>1, <3>1 DEF SubInv, Destroys
    <3>2. CASE spc[r] \notin {"closeFd", "delete"}
      BY <2>1, <3>2 DEF SubInv, Destroys
    <3> QED BY <3>1, <3>2
  <2> QED BY <1>2, <2>1, <2>2, <2>3 DEF TypeOK, MainInv, Building, EnableRead, subVars
<1>3. CASE EnableET \/ SetCallbacks \/ Wire \/ InsertEnter
  BY <1>3 DEF TypeOK, MainInv, Building, EnableET, Register, SetCallbacks,
     Wire, InsertEnter, Enter, heap, subVars
<1>4. CASE Insert \/ LookupEnter \/ LookupNull \/ Lookup \/ OnConnect
  BY <1>4 DEF TypeOK, MainInv, Building, Insert, Leave, RaceOutcome,
     LookupEnter, Enter, LookupNull, Lookup, OnConnect, UseOutcome, heap,
     subVars, mainVars
<1>5. ASSUME NEW r \in Subs, Erase(r)
      PROVE  MainInv'
  <2>1. table[fdOf[active[r]]] = active[r] /\ active[r] \in Conns
    BY <1>5 DEF SubInv, Destroys, Handles, Erase
  <2>2. mpc \in Building => mconn # active[r]
    BY <2>1 DEF MainInv
  <2>3. /\ \A q \in Subs : victim'[q] \in {victim[q], active[r]}
        /\ \A f \in Fds : table'[f] \in {table[f], None}
    BY <1>5, <2>1 DEF TypeOK, Erase
  <2>4. mpc \in Building => mconn \in Conns /\ fdOf[mconn] \in Fds
    BY DEF MainInv, Building
  <2> QED BY <1>5, <2>2, <2>3, <2>4 DEF MainInv, Building, Erase, heap, mainVars
<1>6. ASSUME NEW r \in Subs, CloseFd(r)
      PROVE  MainInv'
  BY <1>6 DEF TypeOK, MainInv, SubInv, Destroys, DescInv, Building, CloseFd,
     Without, mainVars
<1>7. ASSUME NEW r \in Subs, DeleteChannel(r)
      PROVE  MainInv'
  BY <1>7 DEF TypeOK, MainInv, SubInv, Destroys, Building, DeleteChannel,
     mainVars
<1>8. CASE UNCHANGED <<owner, fdOf, obj, table, victim, mpc, mconn>>
  BY <1>8 DEF MainInv, Building
<1> QED
  BY <1>1, <1>2, <1>3, <1>4, <1>5, <1>6, <1>7, <1>8
     DEF Next, ClientStep, MainStep, SubStep, vars, clients, heap, mainVars,
         subVars, Connect, Send, HangUp, Poll, BatchDone, HandleEvent,
         HandleEmpty, HandleTorn, ReadRefused, ReadData, ReadDrained,
         ReadEnd, FindEnter, FindFails, Find, EraseEnter, OnRecv

\* A step of r that touches nothing of the other sub reactors'.
OnlyOwn(r) ==
  \A q \in Subs \ {r} : /\ spc'[q] = spc[q] /\ batch'[q] = batch[q]
                       /\ active'[q] = active[q] /\ victim'[q] = victim[q]

LEMMA OneSub ==
  ASSUME SubInv, NEW r \in Subs, OnlyOwn(r), UNCHANGED <<obj, fdOf, table>>,
         Handles(r)', Destroys(r)'
  PROVE  SubInv'
BY DEF OnlyOwn, SubInv, Handles, Destroys

LEMMA SubInvStep == IInv /\ [Next]_vars => SubInv'
<1> SUFFICES ASSUME IInv, [Next]_vars PROVE SubInv'
  OBVIOUS
<1> USE ReactorAssumption DEF ReactorAssumption, IInv
<1>1. ASSUME NEW c \in Conns, Accept(c)
      PROVE  SubInv'
  <2>1. \A x \in Conns : x # c => fdOf'[x] = fdOf[x]
    BY <1>1 DEF TypeOK, Accept
  <2>2. obj[c] = "none"
    BY <1>1 DEF DescInv, Accept
  <2>3. UNCHANGED <<obj, table, subVars>>
    BY <1>1 DEF Accept
  <2>4. ASSUME NEW r \in Subs PROVE Handles(r)'
    BY <2>1, <2>2, <2>3 DEF TypeOK, SubInv, Handles, subVars
  <2>5. ASSUME NEW r \in Subs PROVE Destroys(r)'
    <3>1. victim[r] # c /\ (spc[r] \in {"erase", "erasing"} => active[r] # c)
      BY <2>2 DEF SubInv, Handles, Destroys
    <3> QED BY <2>1, <2>3, <3>1 DEF TypeOK, SubInv, Handles, Destroys, subVars
  <2> QED BY <2>4, <2>5 DEF SubInv
<1>2. CASE EnableRead
  <2>1. \A x \in Conns : x # mconn => obj'[x] = obj[x]
    BY <1>2 DEF TypeOK, EnableRead
  <2>2. mconn \in Conns /\ obj[mconn] = "none" /\ obj'[mconn] = "live"
    BY <1>2 DEF TypeOK, MainInv, EnableRead
  <2>3. UNCHANGED <<fdOf, table, subVars>>
    BY <1>2 DEF EnableRead
  <2>4. ASSUME NEW r \in Subs PROVE Handles(r)'
    BY <2>1, <2>2, <2>3 DEF TypeOK, SubInv, Handles, subVars
  <2>5. ASSUME NEW r \in Subs PROVE Destroys(r)'
    BY <2>1, <2>2, <2>3 DEF TypeOK, SubInv, Destroys, subVars
  <2> QED BY <2>4, <2>5 DEF SubInv
<1>3. CASE Insert
  <2>1. mconn \in Conns /\ \A r \in Subs : victim[r] # mconn
    BY <1>3 DEF MainInv, Building, Insert
  <2>2. UNCHANGED <<obj, fdOf, subVars>> /\ table' = [table EXCEPT ![fdOf[mconn]] = mconn]
    BY <1>3 DEF Insert, heap
  <2>3. ASSUME NEW r \in Subs PROVE Handles(r)'
    BY <2>2 DEF SubInv, Handles, subVars
  <2>4. ASSUME NEW r \in Subs, spc[r] \in {"erase", "erasing"} PROVE fdOf[active[r]] # fdOf[mconn]
    BY <1>3, <2>4 DEF SubInv, Handles, Destroys, MainInv, Building, DescInv,
       Insert
  <2>5. ASSUME NEW r \in Subs PROVE Destroys(r)'
    BY <2>1, <2>2, <2>4 DEF TypeOK, SubInv, Destroys, subVars
  <2> QED BY <2>3, <2>5 DEF SubInv
<1>4. ASSUME NEW r \in Subs, Poll(r)
      PROVE  SubInv'
  <2>1. UNCHANGED <<obj, fdOf, table>> /\ OnlyOwn(r)
    BY <1>4 DEF OnlyOwn, TypeOK, Poll, Ready, heap
  <2>2. ASSUME NEW c \in Ready(r) PROVE obj[c] = "live" /\ fdOf[c] % NumSub = r /\ c # None
    <3>1. PICK f \in Fds : f % NumSub = r /\ interest[f] # None /\ c = interest[f]
      BY DEF Ready
    <3> QED BY <3>1 DEF DescInv, RegistrationIsLive
  <2>3. Handles(r)' /\ Destroys(r)'
    BY <1>4, <2>1, <2>2 DEF TypeOK, SubInv, Handles, Destroys, Poll, Ready
  <2> QED BY <2>1, <2>3, OneSub
<1>5. ASSUME NEW r \in Subs, BatchDone(r)
      PROVE  SubInv'
  <2>1. UNCHANGED <<obj, fdOf, table>> /\ OnlyOwn(r)
    BY <1>5 DEF OnlyOwn, TypeOK, BatchDone, heap
  <2>2. Handles(r)' /\ Destroys(r)'
    BY <1>5, <2>1 DEF TypeOK, SubInv, Handles, Destroys, BatchDone
  <2> QED BY <2>1, <2>2, OneSub
<1>6. ASSUME NEW r \in Subs, HandleEvent(r)
      PROVE  SubInv'
  <2>1. UNCHANGED <<obj, fdOf, table>> /\ OnlyOwn(r)
    BY <1>6 DEF OnlyOwn, TypeOK, HandleEvent, Rest, heap
  <2>2. Handles(r)' /\ Destroys(r)'
    BY <1>6, <2>1 DEF TypeOK, SubInv, Handles, Destroys, HandleEvent, Rest
  <2> QED BY <2>1, <2>2, OneSub
<1>7. ASSUME NEW r \in Subs, HandleEmpty(r)
      PROVE  SubInv'
  <2>1. UNCHANGED <<obj, fdOf, table>> /\ OnlyOwn(r)
    BY <1>7 DEF OnlyOwn, TypeOK, HandleEmpty, heap
  <2>2. Handles(r)' /\ Destroys(r)'
    BY <1>7, <2>1 DEF TypeOK, SubInv, Handles, Destroys, HandleEmpty
  <2> QED BY <2>1, <2>2, OneSub
<1>8. ASSUME NEW r \in Subs, ReadRefused(r) \/ ReadDrained(r)
      PROVE  SubInv'
  <2>1. UNCHANGED <<obj, fdOf, table>> /\ OnlyOwn(r)
    BY <1>8 DEF OnlyOwn, TypeOK, ReadRefused, ReadDrained, HasData, AtEnd, heap
  <2>2. Handles(r)' /\ Destroys(r)'
    BY <1>8, <2>1 DEF TypeOK, SubInv, Handles, Destroys, ReadRefused,
       ReadDrained, HasData, AtEnd
  <2> QED BY <2>1, <2>2, OneSub
<1>9. ASSUME NEW r \in Subs, ReadEnd(r) \/ FindEnter(r) \/ EraseEnter(r)
      PROVE  SubInv'
  <2>1. UNCHANGED <<obj, fdOf, table>> /\ OnlyOwn(r)
    BY <1>9 DEF OnlyOwn, TypeOK, ReadEnd, AtEnd, FindEnter, Enter, EraseEnter,
       heap
  <2>2. Handles(r)' /\ Destroys(r)'
    BY <1>9, <2>1 DEF TypeOK, SubInv, Handles, Destroys, ReadEnd, AtEnd,
       FindEnter, Enter, EraseEnter
  <2> QED BY <2>1, <2>2, OneSub
<1>10. ASSUME NEW r \in Subs, Find(r)
      PROVE  SubInv'
  <2>1. UNCHANGED <<obj, fdOf, table>> /\ OnlyOwn(r)
    BY <1>10 DEF OnlyOwn, TypeOK, Find, Leave, RaceOutcome, heap
  <2>2. active[r] \in Conns /\ obj[active[r]] = "live" /\ table[fdOf[active[r]]] # None
    BY <1>10 DEF Find, SubInv, Handles
  <2>3. fdOf[active[r]] \in Fds /\ table[fdOf[active[r]]] = active[r]
    BY <2>2 DEF DescInv, TableOwnsDescriptor
  <2>4. spc[r] = "finding" /\ spc'[r] = "erase" /\ UNCHANGED <<batch, active, victim>>
    BY <1>10 DEF TypeOK, Find
  <2>5. Handles(r)' /\ Destroys(r)'
    BY <2>1, <2>2, <2>3, <2>4 DEF SubInv, Handles, Destroys
  <2> QED BY <2>1, <2>5, OneSub
<1>11. ASSUME NEW r \in Subs, Erase(r)
      PROVE  SubInv'
  <2> DEFINE f == fdOf[active[r]]
  <2>1. /\ UNCHANGED <<obj, fdOf, batch, active>>
        /\ table' = [table EXCEPT ![f] = None]
        /\ victim' = [victim EXCEPT ![r] = table[f]]
        /\ spc' = [spc EXCEPT ![r] = "closeFd"]
    BY <1>11 DEF Erase, heap
  <2>2. /\ active[r] \in Conns /\ obj[active[r]] = "live" /\ f \in Fds
        /\ f % NumSub = r /\ table[f] = active[r]
    BY <1>11 DEF Erase, SubInv, Handles, Destroys, DescInv
  <2>3. Handles(r)'
    BY <2>1, <2>2 DEF TypeOK, SubInv, Handles
  <2>4. Destroys(r)'
    <3> HIDE DEF f
    <3>1. victim'[r] = active[r] /\ table'[f] = None /\ spc'[r] = "closeFd"
      BY <2>1, <2>2 DEF TypeOK
    <3>2. f = fdOf[active[r]]
      BY DEF f
    <3> QED BY <2>1, <2>2, <3>1, <3>2 DEF Destroys
  <2>5. ASSUME NEW q \in Subs \ {r} PROVE Handles(q)' /\ Destroys(q)'
    <3> HIDE DEF f
    <3>1. spc'[q] = spc[q] /\ victim'[q] = victim[q]
      BY <2>1 DEF TypeOK
    <3>2. spc[q] \in {"erase", "erasing"} => fdOf[active[q]] # f
      BY <2>2 DEF SubInv, Handles
    <3>3. spc[q] = "closeFd" => fdOf[victim[q]] # f
      BY <2>2 DEF SubInv, Destroys
    <3>4. \A g : g # f /\ g \in Fds => table'[g] = table[g]
      BY <2>1 DEF TypeOK
    <3>5. spc[q] \in {"erase", "erasing"} => fdOf[active[q]] \in Fds
      BY DEF SubInv, Handles, DescInv
    <3> QED BY <2>1, <3>1, <3>2, <3>3, <3>4, <3>5 DEF SubInv, Handles, Destroys
  <2> QED BY <2>3, <2>4, <2>5 DEF SubInv
<1>12. ASSUME NEW r \in Subs, CloseFd(r)
      PROVE  SubInv'
  <2>1. /\ UNCHANGED <<fdOf, table, batch, active>>
        /\ obj' = [obj EXCEPT ![victim[r]] = "unsocketed"]
        /\ OnlyOwn(r)
    BY <1>12 DEF OnlyOwn, TypeOK, CloseFd, Without
  <2>2. victim[r] \in Conns /\ victim[r] = active[r] /\ fdOf[victim[r]] % NumSub = r
    BY <1>12 DEF SubInv, Destroys, CloseFd
  <2>3. \A c \in Conns : c # victim[r] => obj'[c] = obj[c]
    BY <2>1 DEF TypeOK
  <2>4. Handles(r)' /\ Destroys(r)'
    BY <1>12, <2>1, <2>2, <2>3 DEF TypeOK, SubInv, Handles, Destroys, CloseFd
  <2>5. ASSUME NEW q \in Subs \ {r} PROVE Handles(q)' /\ Destroys(q)'
    <3>1. /\ \A c \in batch[q] : c # victim[r]
          /\ spc[q] \in {"read", "find", "finding", "erase", "erasing"} => active[q] # victim[r]
          /\ spc[q] \in {"closeFd", "delete"} => victim[q] # victim[r]
      BY <2>2 DEF SubInv, Handles, Destroys
    <3>2. batch[q] \subseteq Conns
      BY DEF TypeOK
    <3> QED BY <2>1, <2>3, <3>1, <3>2 DEF OnlyOwn, SubInv, Handles, Destroys
  <2> QED BY <2>4, <2>5 DEF SubInv
<1>13. ASSUME NEW r \in Subs, DeleteChannel(r)
      PROVE  SubInv'
  <2>1. /\ UNCHANGED <<fdOf, table, batch, active>>
        /\ obj' = [obj EXCEPT ![victim[r]] = "freed"]
        /\ OnlyOwn(r)
    BY <1>13 DEF OnlyOwn, TypeOK, DeleteChannel
  <2>2. victim[r] \in Conns /\ victim[r] = active[r] /\ fdOf[victim[r]] % NumSub = r
    BY <1>13 DEF SubInv, Destroys, DeleteChannel
  <2>3. \A c \in Conns : c # victim[r] => obj'[c] = obj[c]
    BY <2>1 DEF TypeOK
  <2>4. Handles(r)' /\ Destroys(r)'
    BY <1>13, <2>1, <2>2, <2>3 DEF TypeOK, SubInv, Handles, Destroys,
       DeleteChannel
  <2>5. ASSUME NEW q \in Subs \ {r} PROVE Handles(q)' /\ Destroys(q)'
    <3>1. /\ \A c \in batch[q] : c # victim[r]
          /\ spc[q] \in {"read", "find", "finding", "erase", "erasing"} => active[q] # victim[r]
          /\ spc[q] \in {"closeFd", "delete"} => victim[q] # victim[r]
      BY <2>2 DEF SubInv, Handles, Destroys
    <3>2. batch[q] \subseteq Conns
      BY DEF TypeOK
    <3> QED BY <2>1, <2>3, <3>1, <3>2 DEF OnlyOwn, SubInv, Handles, Destroys
  <2> QED BY <2>4, <2>5 DEF SubInv
<1>14. ASSUME NEW r \in Subs, OnRecv(r)
      PROVE  SubInv'
  <2>1. UNCHANGED <<obj, fdOf, table>> /\ OnlyOwn(r)
    BY <1>14 DEF OnlyOwn, TypeOK, OnRecv, UseOutcome, heap
  <2>2. /\ spc[r] = "onRecv" /\ spc'[r] = "next" /\ active'[r] = None
        /\ UNCHANGED <<batch, victim>>
    BY <1>14 DEF TypeOK, OnRecv
  <2>3. batch[r] \subseteq Conns
    BY DEF TypeOK
  <2>4. Handles(r)' /\ Destroys(r)'
    BY <2>1, <2>2, <2>3 DEF SubInv, Handles, Destroys
  <2> QED BY <2>1, <2>4, OneSub
<1>15. CASE UNCHANGED <<obj, fdOf, table, spc, batch, active, victim>>
  BY <1>15 DEF SubInv, Handles, Destroys
<1> QED
  BY <1>1, <1>2, <1>3, <1>4, <1>5, <1>6, <1>7, <1>8, <1>9, <1>10, <1>11,
     <1>12, <1>13, <1>14, <1>15
     DEF Next, ClientStep, MainStep, SubStep, vars, clients, heap, mainVars,
         subVars, Connect, Send, HangUp, EnableET, SetCallbacks, Wire,
         InsertEnter, LookupEnter, LookupNull, Lookup, OnConnect,
         HandleTorn, ReadData, FindFails

LEMMA OwnedStep == IInv /\ [Next]_vars => OwnedInv'
<1> SUFFICES ASSUME IInv, [Next]_vars PROVE OwnedInv'
  OBVIOUS
<1> USE ReactorAssumption DEF ReactorAssumption, IInv
<1>1. ASSUME NEW c \in Conns, Accept(c)
      PROVE  OwnedInv'
  <2>1. PICK f \in Free : owner' = [owner EXCEPT ![f] = c]
    BY <1>1 DEF Accept
  <2>2. mpc = "idle" /\ mpc' = "enableRead" /\ mconn' = c /\ UNCHANGED <<table, subVars>>
    BY <1>1 DEF Accept
  <2>3. mconn = None
    BY <2>2 DEF MainInv
  <2> QED BY <2>1, <2>2, <2>3 DEF TypeOK, OwnedInv, Building, Free, subVars
<1>2. CASE EnableRead \/ EnableET \/ SetCallbacks \/ Wire \/ InsertEnter
  BY <1>2 DEF TypeOK, OwnedInv, Building, EnableRead, EnableET, SetCallbacks,
     Wire, InsertEnter, heap, subVars
<1>3. CASE Insert
  <2>1. mconn \in Conns /\ fdOf[mconn] \in Fds /\ owner[fdOf[mconn]] = mconn
    BY <1>3 DEF MainInv, Building, DescInv, Insert
  <2>2. table' = [table EXCEPT ![fdOf[mconn]] = mconn] /\ UNCHANGED <<owner, subVars>>
    BY <1>3 DEF Insert
  <2>3. ASSUME NEW f \in Fds, owner[f] # None, mconn = owner[f] PROVE f = fdOf[mconn]
    BY <2>3 DEF DescInv
  <2>4. ASSUME NEW f \in Fds, table[f] = owner[f] PROVE table'[f] = owner'[f]
    BY <2>1, <2>2, <2>4 DEF TypeOK
  <2> QED BY <2>1, <2>2, <2>3, <2>4 DEF TypeOK, OwnedInv, subVars
<1>4. CASE LookupEnter \/ LookupNull \/ Lookup \/ OnConnect
  BY <1>4 DEF TypeOK, OwnedInv, Building, LookupEnter, LookupNull, Lookup,
     OnConnect, mainVars, subVars
<1>5. ASSUME NEW r \in Subs, Erase(r)
      PROVE  OwnedInv'
  <2> DEFINE g == fdOf[active[r]]
  <2>1. table[g] = active[r] /\ owner[g] = active[r] /\ g \in Fds
    BY <1>5 DEF Erase, SubInv, Handles, Destroys, DescInv
  <2>2. /\ spc[r] = "erasing" /\ spc' = [spc EXCEPT ![r] = "closeFd"]
        /\ victim' = [victim EXCEPT ![r] = table[g]]
        /\ table' = [table EXCEPT ![g] = None]
        /\ UNCHANGED <<owner, mpc, mconn>>
    BY <1>5 DEF Erase, mainVars
  <2> HIDE DEF g
  <2>3. spc'[r] = "closeFd" /\ victim'[r] = owner[g]
    BY <2>1, <2>2 DEF TypeOK
  <2>4. \A q \in Subs : spc[q] = "closeFd" => spc'[q] = "closeFd" /\ victim'[q] = victim[q]
    BY <2>2 DEF TypeOK
  <2>5. \A f \in Fds : f # g => table'[f] = table[f]
    BY <2>2 DEF TypeOK
  <2>6. ASSUME NEW f \in Fds, owner[f] # None
        PROVE  \/ mconn = owner[f] /\ mpc \in Building \cup {"enableRead"}
               \/ table'[f] = owner[f]
               \/ \E q \in Subs : spc'[q] = "closeFd" /\ victim'[q] = owner[f]
    <3>1. CASE f = g
      BY <2>3, <3>1
    <3>2. CASE f # g /\ table[f] = owner[f]
      BY <2>5, <3>2
    <3>3. CASE mconn = owner[f] /\ mpc \in Building \cup {"enableRead"}
      BY <3>3
    <3>4. CASE \E q \in Subs : spc[q] = "closeFd" /\ victim[q] = owner[f]
      BY <2>4, <3>4
    <3> QED BY <2>6, <3>1, <3>2, <3>3, <3>4 DEF OwnedInv
  <2> QED BY <2>2, <2>6 DEF OwnedInv
<1>6. ASSUME NEW r \in Subs, CloseFd(r)
      PROVE  OwnedInv'
  <2> DEFINE g == fdOf[victim[r]]
  <2>1. /\ victim[r] \in Conns /\ g \in Fds /\ spc' = [spc EXCEPT ![r] = "delete"]
        /\ owner' = [owner EXCEPT ![g] = None]
        /\ UNCHANGED <<table, victim, mainVars>>
    BY <1>6 DEF CloseFd, Without, SubInv, Destroys
  <2> HIDE DEF g
  <2>2. ASSUME NEW f \in Fds, owner'[f] # None PROVE f # g /\ owner'[f] = owner[f]
    BY <2>1, <2>2 DEF TypeOK
  <2>3. ASSUME NEW f \in Fds, owner[f] # None, victim[r] = owner[f] PROVE f = g
    BY <2>3 DEF DescInv, g
  <2>4. \A q \in Subs : q # r => spc'[q] = spc[q]
    BY <2>1 DEF TypeOK
  <2>5. ASSUME NEW f \in Fds, owner'[f] # None
        PROVE  \/ mconn' = owner'[f] /\ mpc' \in Building \cup {"enableRead"}
               \/ table'[f] = owner'[f]
               \/ \E q \in Subs : spc'[q] = "closeFd" /\ victim'[q] = owner'[f]
    <3>1. f # g /\ owner'[f] = owner[f]
      BY <2>2, <2>5
    <3>2. owner[f] # None /\ victim[r] # owner[f]
      BY <2>3, <2>5, <3>1
    <3>3. CASE mconn = owner[f] /\ mpc \in Building \cup {"enableRead"}
      BY <2>1, <3>1, <3>3 DEF mainVars
    <3>4. CASE table[f] = owner[f]
      BY <2>1, <3>1, <3>4
    <3>5. CASE \E q \in Subs : spc[q] = "closeFd" /\ victim[q] = owner[f]
      <4>1. PICK q \in Subs : spc[q] = "closeFd" /\ victim[q] = owner[f]
        BY <3>5
      <4> QED BY <2>1, <2>4, <3>1, <3>2, <4>1
    <3> QED BY <3>2, <3>3, <3>4, <3>5 DEF OwnedInv
  <2> QED BY <2>5 DEF OwnedInv
<1>7. ASSUME NEW r \in Subs, Poll(r) \/ BatchDone(r) \/ HandleEvent(r) \/
            HandleEmpty(r) \/ ReadRefused(r) \/ ReadDrained(r) \/
            ReadEnd(r) \/ FindEnter(r) \/ Find(r) \/ EraseEnter(r) \/
            DeleteChannel(r) \/ OnRecv(r)
      PROVE  OwnedInv'
  <2>1. UNCHANGED <<owner, table, mainVars>>
    BY <1>7 DEF Poll, BatchDone, HandleEvent, HandleEmpty, ReadRefused,
       ReadDrained, ReadEnd, FindEnter, Find, EraseEnter, DeleteChannel,
       OnRecv
  <2>2. \A q \in Subs : spc[q] = "closeFd" => spc'[q] = "closeFd" /\ victim'[q] = victim[q]
    BY <1>7 DEF TypeOK, Poll, BatchDone, HandleEvent, HandleEmpty,
       ReadRefused, ReadDrained, ReadEnd, FindEnter, Find, EraseEnter,
       DeleteChannel, OnRecv
  <2> QED BY <2>1, <2>2 DEF OwnedInv, mainVars
<1>8. CASE UNCHANGED <<owner, mconn, mpc, table, spc, victim>>
  BY <1>8 DEF OwnedInv, Building
<1> QED
  BY <1>1, <1>2, <1>3, <1>4, <1>5, <1>6, <1>7, <1>8
     DEF Next, ClientStep, MainStep, SubStep, vars, clients, heap, mainVars,
         subVars, Connect, Send, HangUp, HandleTorn, ReadData, FindFails

LEMMA EndStep == IInv /\ [Next]_vars => EndInv'
<1> SUFFICES ASSUME IInv, [Next]_vars PROVE EndInv'
  OBVIOUS
<1> USE ReactorAssumption DEF ReactorAssumption, IInv
<1>1. ASSUME NEW c \in Conns, Connect(c) \/ Send(c) \/ HangUp(c)
      PROVE  EndInv'
  <2>1. \A q \in Subs : spc[q] \in {"find", "finding", "erase", "erasing", "closeFd"} =>
          active[q] \in Conns /\ peer[active[q]] \in Ended /\ inbox[active[q]] = 0
    BY DEF EndInv, SubInv, Handles, Destroys
  <2>2. /\ peer[c] \notin Ended /\ UNCHANGED <<spc, active>>
        /\ \A x \in Conns : x # c => peer'[x] = peer[x] /\ inbox'[x] = inbox[x]
    BY <1>1 DEF TypeOK, Connect, Send, HangUp, subVars, Ended
  <2> QED BY <2>1, <2>2 DEF EndInv
<1>2. ASSUME NEW r \in Subs, ReadData(r)
      PROVE  EndInv'
  <2>1. \A q \in Subs : spc[q] \in {"find", "finding", "erase", "erasing", "closeFd"} =>
          active[q] \in Conns /\ peer[active[q]] \in Ended /\ inbox[active[q]] = 0
    BY DEF EndInv, SubInv, Handles, Destroys
  <2>2. /\ inbox[active[r]] > 0 /\ UNCHANGED <<peer, spc, active>>
        /\ \A x \in Conns : x # active[r] => inbox'[x] = inbox[x]
    BY <1>2 DEF TypeOK, ReadData, HasData, subVars
  <2> QED BY <2>1, <2>2 DEF EndInv
<1>3. ASSUME NEW r \in Subs, ReadEnd(r)
      PROVE  EndInv'
  <2>1. peer[active[r]] \in Ended /\ inbox[active[r]] = 0
    BY <1>3 DEF ReadEnd, AtEnd, Ended
  <2>2. UNCHANGED <<peer, inbox, active>> /\ \A q \in Subs : q # r => spc'[q] = spc[q]
    BY <1>3 DEF TypeOK, ReadEnd, clients
  <2> QED BY <2>1, <2>2 DEF EndInv
<1>4. ASSUME NEW r \in Subs, FindEnter(r) \/ Find(r) \/ EraseEnter(r) \/
            Erase(r)
      PROVE  EndInv'
  <2>1. UNCHANGED <<peer, inbox, active>> /\ \A q \in Subs : q # r => spc'[q] = spc[q]
    BY <1>4 DEF TypeOK, FindEnter, Find, EraseEnter, Erase, clients
  <2>2. spc[r] \in {"find", "finding", "erase", "erasing", "closeFd"}
    BY <1>4 DEF FindEnter, Find, EraseEnter, Erase
  <2> QED BY <2>1, <2>2 DEF EndInv
<1>5. ASSUME NEW r \in Subs, Poll(r) \/ BatchDone(r) \/ HandleEvent(r) \/
            HandleEmpty(r) \/ ReadRefused(r) \/ ReadDrained(r) \/
            CloseFd(r) \/ DeleteChannel(r) \/ OnRecv(r)
      PROVE  EndInv'
  <2>1. /\ UNCHANGED <<peer, inbox>>
        /\ \A q \in Subs : q # r => spc'[q] = spc[q] /\ active'[q] = active[q]
    BY <1>5 DEF TypeOK, Poll, BatchDone, HandleEvent, HandleEmpty,
       ReadRefused, ReadDrained, CloseFd, DeleteChannel, OnRecv, clients
  <2>2. spc'[r] \notin {"find", "finding", "erase", "erasing", "closeFd"}
    BY <1>5 DEF TypeOK, Poll, BatchDone, HandleEvent, HandleEmpty,
       ReadRefused, ReadDrained, CloseFd, DeleteChannel, OnRecv
  <2> QED BY <2>1, <2>2 DEF EndInv
<1>6. CASE UNCHANGED <<peer, inbox, spc, active>>
  BY <1>6 DEF EndInv
<1> QED
  BY <1>1, <1>2, <1>3, <1>4, <1>5, <1>6
     DEF Next, ClientStep, MainStep, SubStep, vars, clients, heap, mainVars,
         subVars, Accept, EnableRead, EnableET, SetCallbacks, Wire,
         InsertEnter, Insert, LookupEnter, LookupNull, Lookup, OnConnect,
         HandleTorn, FindFails

LEMMA UnreadStep == IInv /\ [Next]_vars => UnreadInv'
<1> SUFFICES ASSUME IInv, [Next]_vars PROVE UnreadInv'
  OBVIOUS
<1> USE ReactorAssumption DEF ReactorAssumption, IInv
<1>1. ASSUME NEW c \in Conns, Send(c)
      PROVE  UnreadInv'
  <2>1. /\ inbox[c] \in Nat /\ sent[c] \in Nat /\ inbox[c] <= sent[c]
        /\ inbox' = [inbox EXCEPT ![c] = inbox[c] + 1] /\ sent' = [sent EXCEPT ![c] = sent[c] + 1]
    BY <1>1 DEF TypeOK, UnreadInv, Send
  <2> QED BY <2>1 DEF TypeOK, UnreadInv
<1>2. ASSUME NEW r \in Subs, ReadData(r)
      PROVE  UnreadInv'
  <2>1. inbox' = [inbox EXCEPT ![active[r]] = inbox[active[r]] - 1] /\ sent' = sent
    BY <1>2 DEF ReadData
  <2> QED BY <2>1 DEF TypeOK, UnreadInv
<1>3. CASE UNCHANGED <<inbox, sent>>
  BY <1>3 DEF UnreadInv
<1> QED
  BY <1>1, <1>2, <1>3
     DEF Next, ClientStep, MainStep, SubStep, vars, clients, heap, mainVars,
         subVars, Connect, HangUp, Accept, EnableRead, EnableET,
         SetCallbacks, Wire, InsertEnter, Insert, LookupEnter, LookupNull,
         Lookup, OnConnect, Poll, BatchDone, HandleEvent, HandleEmpty,
         HandleTorn, ReadRefused, ReadDrained, ReadEnd, FindEnter,
         FindFails, Find, EraseEnter, Erase, CloseFd, DeleteChannel, OnRecv

-----------------------------------------------------------------------------
THEOREM Invariant == Spec => []IInv
<1>1. IInv /\ [Next]_vars => IInv'
  BY TypeStep, DescStep, MainInvStep, SubInvStep, OwnedStep, EndStep, UnreadStep
     DEF IInv
<1> QED BY IInvInit, <1>1, PTL DEF Spec

(* Every variable keeps its type; in particular no sub reactor reads on behalf *)
(* of no connection (Connection.cpp:73-106).                                   *)
THEOREM TypeCorrect == Spec => []TypeOK
<1>1. IInv => TypeOK
  BY DEF IInv
<1> QED BY Invariant, <1>1, PTL

(* However often the kernel reuses a number, what an epoll instance holds for  *)
(* it is the Channel of the live Connection that owns it (Poller.cpp:71, 82).  *)
THEOREM PolledChannelsAreLive == Spec => []RegistrationIsLive
<1>1. IInv => RegistrationIsLive
  BY DEF IInv, DescInv
<1> QED BY Invariant, <1>1, PTL

(* connections_ maps a number to the live Connection that owns it, although    *)
(* two threads change it without a lock (TcpServer.cpp:61 and 71).             *)
THEOREM TableIsExact == Spec => []TableOwnsDescriptor
<1>1. IInv => TableOwnsDescriptor
  BY DEF IInv, DescInv
<1> QED BY Invariant, <1>1, PTL

(* No event of a batch is delivered to a Connection that is gone, or by a      *)
(* reactor that is not its own (EventLoop.cpp:25-26).                          *)
THEOREM EventsFindTheirChannel == Spec => []BatchIsLive
<1>1. IInv => BatchIsLive
  BY DEF IInv, SubInv, Handles, BatchIsLive
<1> QED BY Invariant, <1>1, PTL

(* A reactor destroys the connection whose end it read and closes that         *)
(* connection's descriptor, nobody else's (TcpServer.cpp:71, Socket.cpp:24).   *)
THEOREM DestroysOnlyItsOwn == Spec => []DestroysItsOwn
<1>1. IInv => DestroysItsOwn
  BY DEF IInv, SubInv, Destroys, DescInv, DestroysItsOwn
<1> QED BY Invariant, <1>1, PTL

(* No descriptor leaks: whoever must close it still knows it                   *)
(* (TcpServer.cpp:55-61 and 71).                                               *)
THEOREM NoDescriptorLeak == Spec => []NoOrphanDescriptor
<1>1. IInv => NoOrphanDescriptor
  BY DEF IInv, OwnedInv, NoOrphanDescriptor
<1> QED BY Invariant, <1>1, PTL

LEMMA DestroyedIsEnded ==
  IInv /\ Next =>
    \A c \in Conns : obj[c] = "live" /\ obj'[c] # "live"
      => peer[c] \in Ended /\ inbox[c] = 0
<1> SUFFICES ASSUME IInv, Next, NEW c \in Conns, obj[c] = "live", obj'[c] # "live"
             PROVE  peer[c] \in Ended /\ inbox[c] = 0
  OBVIOUS
<1> USE ReactorAssumption DEF ReactorAssumption, IInv
<1>1. ASSUME NEW r \in Subs, CloseFd(r) PROVE peer[c] \in Ended /\ inbox[c] = 0
  <2>1. obj' = [obj EXCEPT ![victim[r]] = "unsocketed"] /\ spc[r] = "closeFd"
    BY <1>1 DEF CloseFd
  <2>2. c = victim[r] /\ victim[r] = active[r]
    BY <2>1 DEF TypeOK, SubInv, Destroys
  <2> QED BY <2>1, <2>2 DEF EndInv
<1>2. ASSUME NEW r \in Subs, DeleteChannel(r) PROVE FALSE
  <2>1. obj' = [obj EXCEPT ![victim[r]] = "freed"] /\ spc[r] = "delete"
    BY <1>2 DEF DeleteChannel
  <2> QED BY <2>1 DEF TypeOK, SubInv, Destroys
<1>3. CASE EnableRead
  BY <1>3 DEF TypeOK, EnableRead
<1>4. CASE UNCHANGED obj
  BY <1>4
<1> QED
  BY <1>1, <1>2, <1>3, <1>4
     DEF Next, ClientStep, MainStep, SubStep, heap, Connect, Send, HangUp,
         Accept, EnableET, SetCallbacks, Wire, InsertEnter, Insert,
         LookupEnter, LookupNull, Lookup, OnConnect, Poll, BatchDone,
         HandleEvent, HandleEmpty, HandleTorn, ReadRefused, ReadData,
         ReadDrained, ReadEnd, FindEnter, FindFails, Find, EraseEnter, Erase,
         OnRecv

(* No step destroys a Connection whose client is still there or whose data is  *)
(* unread (Connection.cpp:76-103).                                             *)
THEOREM NeverClosesEarly == Spec => ClosesOnlyEnded
<1>1. IInv /\ [Next]_vars =>
        [\A c \in Conns : obj[c] = "live" /\ obj'[c] # "live"
           => peer[c] \in {"fin", "reset"} /\ inbox[c] = 0]_vars
  BY DestroyedIsEnded DEF Ended
<1> QED BY Invariant, <1>1, PTL DEF Spec, ClosesOnlyEnded

-----------------------------------------------------------------------------
(* How a loop ends, and how a registration is lost.                          *)

Wiring == {"enableET", "setCallbacks", "wire"}

\* A live Connection without its callback is the one the main thread is wiring.
WiringInv ==
  \A c \in Conns : obj[c] = "live" /\ wiring[c] # "set" => c = mconn /\ mpc \in Wiring

LEMMA WiringStep == IInv /\ WiringInv /\ [Next]_vars => WiringInv'
<1> SUFFICES ASSUME IInv, WiringInv, [Next]_vars PROVE WiringInv'
  OBVIOUS
<1> USE DEF WiringInv, Wiring
<1>1. CASE EnableRead
  BY <1>1 DEF EnableRead, IInv, TypeOK
<1>2. CASE EnableET \/ InsertEnter \/ Insert \/ LookupEnter \/ LookupNull \/ Lookup \/ OnConnect
  BY <1>2 DEF EnableET, InsertEnter, Insert, LookupEnter, LookupNull, Lookup, OnConnect,
       heap, mainVars
<1>3. CASE SetCallbacks \/ Wire
  BY <1>3 DEF SetCallbacks, Wire, IInv, TypeOK, MainInv
<1>4. ASSUME NEW c \in Conns, Accept(c) PROVE WiringInv'
  BY <1>4 DEF Accept
<1>5. ASSUME NEW r \in Subs, CloseFd(r) \/ DeleteChannel(r) PROVE WiringInv'
  <2>1. \A c \in Conns : obj'[c] = "live" => obj[c] = "live"
    BY <1>5 DEF CloseFd, DeleteChannel, IInv, TypeOK
  <2> QED BY <1>5, <2>1 DEF CloseFd, DeleteChannel, mainVars
<1>6. CASE UNCHANGED <<obj, wiring, mconn, mpc>>
  BY <1>6
<1> QED
  BY <1>1, <1>2, <1>3, <1>4, <1>5, <1>6
     DEF Next, ClientStep, MainStep, SubStep, vars, clients, heap, mainVars, subVars,
         Connect, Send, HangUp, Poll, BatchDone, HandleEvent, HandleEmpty, HandleTorn,
         ReadRefused, ReadData, ReadDrained, ReadEnd, FindEnter, FindFails, Find,
         EraseEnter, Erase, OnRecv

LEMMA DeathIsEarly ==
  ASSUME IInv, WiringInv, Next, NEW r \in Subs, spc[r] # "dead", spc'[r] = "dead"
  PROVE  mpc \in Wiring /\ mconn \in batch[r]
<1>1. ASSUME NEW q \in Subs, HandleEmpty(q) PROVE mpc \in Wiring /\ mconn \in batch[r]
  <2>1. PICK c \in batch[q] : wiring[c] \in {"empty", "torn"}
    BY <1>1 DEF HandleEmpty
  <2>2. q = r
    BY <1>1 DEF HandleEmpty, IInv, TypeOK
  <2>3. c \in Conns /\ obj[c] = "live"
    BY <2>1 DEF IInv, TypeOK, SubInv, Handles
  <2> QED BY <2>1, <2>2, <2>3 DEF WiringInv
<1>2. ASSUME NEW q \in Subs, NEW p \in SubPcs \ {"dead"}, spc' = [spc EXCEPT ![q] = p]
      PROVE  FALSE
  BY <1>2 DEF IInv, TypeOK
<1>3. ASSUME UNCHANGED spc PROVE FALSE
  BY <1>3
<1>4. ASSUME NEW q \in Subs, HandleTorn(q) \/ FindFails(q) \/ ReadData(q) PROVE FALSE
  BY <1>3, <1>4 DEF HandleTorn, FindFails, ReadData, subVars
<1>5. ASSUME NEW q \in Subs, Poll(q) \/ BatchDone(q) \/ HandleEvent(q) \/ ReadRefused(q)
             \/ ReadDrained(q) \/ ReadEnd(q)
      PROVE  FALSE
  BY <1>2, <1>5 DEF SubPcs, Poll, BatchDone, HandleEvent, ReadRefused, ReadDrained, ReadEnd
<1>6. ASSUME NEW q \in Subs, FindEnter(q) \/ Find(q) \/ EraseEnter(q) \/ Erase(q)
             \/ CloseFd(q) \/ DeleteChannel(q) \/ OnRecv(q)
      PROVE  FALSE
  BY <1>2, <1>6 DEF SubPcs, FindEnter, Find, EraseEnter, Erase, CloseFd, DeleteChannel, OnRecv
<1> QED
  BY <1>1, <1>3, <1>4, <1>5, <1>6
     DEF Next, ClientStep, MainStep, SubStep, subVars, Connect, Send, HangUp, Accept, EnableRead,
         EnableET, SetCallbacks, Wire, InsertEnter, Insert, LookupEnter, LookupNull, Lookup,
         OnConnect

(* No event of a connection that is in connections_ ends a reactor's loop; one *)
(* that comes before its callback may (TcpServer.cpp:56-59, Channel.cpp:31-38). *)
THEOREM LoopsDieOnlyEarly == Spec => DiesOnlyOfEarlyData
<1>1. Init => WiringInv
  BY DEF Init, WiringInv
<1>2. IInv /\ WiringInv /\ [Next]_vars =>
        [\A r \in Subs : spc[r] # "dead" /\ spc'[r] = "dead"
           => mpc \in {"enableET", "setCallbacks", "wire"} /\ mconn \in batch[r]]_vars
  BY DeathIsEarly DEF Wiring
<1> QED BY Invariant, <1>1, <1>2, WiringStep, PTL DEF Spec, DiesOnlyOfEarlyData

LEMMA LossIsStale ==
  ASSUME IInv, Next, NEW c \in Conns, obj'[c] = "live", obj[c] = "none" \/ Watched(c),
         ~Watched(c)'
  PROVE  \E r \in Subs : spc[r] = "delete" /\ victim[r] # c /\ fdOf[victim[r]] = fdOf[c]
<1> USE ReactorAssumption DEF ReactorAssumption, IInv, Watched
<1>1. CASE EnableRead
  <2>1. /\ mconn \in Conns /\ fdOf[mconn] \in Fds /\ obj[mconn] = "none"
        /\ owner[fdOf[mconn]] = mconn
    BY <1>1 DEF EnableRead, MainInv
  <2>2. interest[fdOf[mconn]] = None
    BY <2>1 DEF DescInv, RegistrationIsLive
  <2>3. /\ interest' = [interest EXCEPT ![fdOf[mconn]] = mconn] /\ fdOf' = fdOf
        /\ obj' = [obj EXCEPT ![mconn] = "live"]
    BY <1>1, <2>1, <2>2 DEF EnableRead, Register, TypeOK
  <2>4. CASE c = mconn
    BY <2>1, <2>3, <2>4 DEF TypeOK
  <2>5. CASE c # mconn
    <3>1. obj[c] = "live"
      BY <2>3, <2>5 DEF TypeOK
    <3>2. owner[fdOf[c]] = c /\ fdOf[c] \in Fds
      BY <3>1 DEF DescInv
    <3> QED BY <2>1, <2>3, <2>5, <3>1, <3>2 DEF TypeOK
  <2> QED BY <2>4, <2>5
<1>2. CASE EnableET
  <2>1. /\ mconn \in Conns /\ fdOf[mconn] \in Fds /\ fdOf' = fdOf /\ obj' = obj
        /\ \A f \in Fds : interest[f] # None => interest'[f] = interest[f]
    BY <1>2 DEF EnableET, Register, MainInv, TypeOK, heap
  <2>2. fdOf[c] \in Fds /\ interest[fdOf[c]] = c
    BY <2>1 DEF DescInv
  <2> QED BY <2>1, <2>2
<1>3. ASSUME NEW d \in Conns, Accept(d) PROVE FALSE
  <2>1. obj[d] = "none" /\ obj' = obj /\ interest' = interest
    BY <1>3 DEF Accept, DescInv
  <2> QED BY <1>3, <2>1 DEF Accept, TypeOK
<1>4. ASSUME NEW r \in Subs, CloseFd(r) PROVE FALSE
  <2>1. /\ victim[r] \in Conns /\ fdOf[victim[r]] \in Fds /\ owner[fdOf[victim[r]]] = victim[r]
        /\ obj' = [obj EXCEPT ![victim[r]] = "unsocketed"] /\ fdOf' = fdOf
        /\ interest' = [interest EXCEPT ![fdOf[victim[r]]] = None]
    BY <1>4 DEF CloseFd, Without, SubInv, Destroys, DescInv
  <2>2. c # victim[r] /\ obj[c] = "live"
    BY <2>1 DEF TypeOK
  <2>3. fdOf[c] \in Fds /\ owner[fdOf[c]] = c
    BY <2>2 DEF DescInv
  <2> QED BY <2>1, <2>2, <2>3 DEF TypeOK
<1>5. ASSUME NEW r \in Subs, DeleteChannel(r)
      PROVE  spc[r] = "delete" /\ victim[r] # c /\ fdOf[victim[r]] = fdOf[c]
  <2>1. /\ victim[r] \in Conns /\ fdOf[victim[r]] \in Fds /\ spc[r] = "delete" /\ fdOf' = fdOf
        /\ obj' = [obj EXCEPT ![victim[r]] = "freed"]
        /\ interest' = [interest EXCEPT ![fdOf[victim[r]]] = None]
    BY <1>5 DEF DeleteChannel, SubInv, Destroys
  <2>2. c # victim[r] /\ obj[c] = "live"
    BY <2>1 DEF TypeOK
  <2>3. fdOf[c] \in Fds
    BY <2>2 DEF DescInv
  <2> QED BY <2>1, <2>2, <2>3 DEF TypeOK
<1>6. CASE UNCHANGED <<obj, fdOf, interest>>
  BY <1>6
<1> QED
  BY <1>1, <1>2, <1>3, <1>4, <1>5, <1>6
     DEF Next, ClientStep, MainStep, SubStep, heap, Connect, Send, HangUp, SetCallbacks,
         Wire, InsertEnter, Insert, LookupEnter, LookupNull, Lookup, OnConnect, Poll,
         BatchDone, HandleEvent, HandleEmpty, HandleTorn, ReadRefused, ReadData,
         ReadDrained, ReadEnd, FindEnter, FindFails, Find, EraseEnter, Erase, OnRecv

(* A connection is registered when it is born and stays so, but for the stale  *)
(* EPOLL_CTL_DEL of an earlier owner of its number (Poller.cpp:97-108).        *)
THEOREM RegistrationsStay == Spec => LostOnlyToStaleDelete
<1>1. IInv /\ [Next]_vars =>
        [\A c \in Conns : obj'[c] = "live" /\ (obj[c] = "none" \/ Watched(c)) =>
           \/ Watched(c)'
           \/ \E r \in Subs : spc[r] = "delete" /\ victim[r] # c
                              /\ fdOf[victim[r]] = fdOf[c]]_vars
  BY LossIsStale
<1> QED BY Invariant, <1>1, PTL DEF Spec, LostOnlyToStaleDelete

-----------------------------------------------------------------------------
(* The sessions of the clients.                                              *)

LEMMA PhaseIs ==
  ASSUME NEW c \in Conns
  PROVE  /\ fdOf[c] = None => Phase(c) = "waiting"
         /\ fdOf[c] # None /\ obj[c] = "none" => Phase(c) = "admitted"
         /\ fdOf[c] # None /\ obj[c] = "live" => Phase(c) = "served"
         /\ fdOf[c] # None /\ obj[c] \notin {"none", "live"} => Phase(c) = "dismissed"
BY DEF Phase

Phases == [c \in Conns |-> Phase(c)]
Heard == [c \in Conns |-> sent[c] - inbox[c]]
Session == <<peer, Phases, owner, sent, Heard>>

\* Who keeps its number and its object keeps its phase.
LEMMA SamePhase ==
  ASSUME NEW c \in Conns, fdOf'[c] = fdOf[c], obj'[c] = obj[c]
  PROVE  Phase(c)' = Phase(c)
BY DEF Phase

LEMMA NextPhase ==
  ASSUME NEW c \in Conns, fdOf'[c] # None
  PROVE  /\ obj'[c] = "live" => Phase(c)' = "served"
         /\ obj'[c] \in {"unsocketed", "freed"} => Phase(c)' = "dismissed"
BY DEF Phase

LEMMA SessionInit == Init => Abstract!Init
<1> SUFFICES ASSUME Init PROVE Abstract!Init
  OBVIOUS
<1>1. \A c \in Conns : Phase(c) = "waiting"
  BY PhaseIs DEF Init
<1>2. \A c \in Conns : sent[c] - inbox[c] = 0
  BY DEF Init
<1> QED BY <1>1, <1>2 DEF Init, Abstract!Init

LEMMA ClientSession ==
  ASSUME IInv, NEW c \in Conns, Connect(c) \/ Send(c) \/ HangUp(c)
  PROVE  Abstract!Next
<1>1. UNCHANGED <<fdOf, obj, owner>>
  BY DEF Connect, Send, HangUp, heap
<1>2. Phases' = Phases
  BY <1>1, SamePhase DEF Phases
<1>3. CASE Connect(c)
  <2>1. Heard' = Heard
    BY <1>3 DEF Connect, Heard
  <2> QED BY <1>1, <1>2, <1>3, <2>1 DEF Connect, Heard, Phases, Abstract!Next, Abstract!Call
<1>4. CASE Send(c)
  <2>1. \A d \in Conns : sent'[d] - inbox'[d] = sent[d] - inbox[d]
    BY <1>4 DEF Send, IInv, TypeOK
  <2>2. Heard' = Heard
    BY <2>1 DEF Heard
  <2> QED BY <1>1, <1>2, <1>4, <2>2 DEF Send, Heard, Phases, Abstract!Next, Abstract!Say
<1>5. CASE HangUp(c)
  <2>1. Heard' = Heard
    BY <1>5 DEF HangUp, Heard
  <2> QED BY <1>1, <1>2, <1>5, <2>1 DEF HangUp, Heard, Phases, Abstract!Next, Abstract!HangUp
<1> QED BY <1>3, <1>4, <1>5

LEMMA AcceptSession ==
  ASSUME IInv, NEW c \in Conns, Accept(c)
  PROVE  Abstract!Next
<1> USE ReactorAssumption DEF ReactorAssumption
<1>1. PICK f \in Free : /\ \A g \in Free : f <= g
                        /\ owner' = [owner EXCEPT ![f] = c]
                        /\ fdOf' = [fdOf EXCEPT ![c] = f]
  BY DEF Accept
<1>2. /\ f \in Fds /\ f # None /\ owner[f] = None
      /\ \A g \in Fds : owner[g] = None => f <= g
  BY <1>1 DEF Free
<1>3. peer[c] # "away" /\ fdOf[c] = None /\ obj[c] = "none" /\ UNCHANGED <<clients, obj>>
  BY DEF Accept, IInv, DescInv
<1>4. fdOf'[c] = f /\ obj'[c] = "none"
  BY <1>1, <1>3 DEF IInv, TypeOK
<1>5. Phase(c) = "waiting" /\ Phase(c)' = "admitted"
  BY <1>2, <1>3, <1>4 DEF Phase
<1>6. \A d \in Conns \ {c} : Phase(d)' = Phase(d)
  BY <1>1, <1>3, SamePhase DEF IInv, TypeOK
<1>7. Phases' = [Phases EXCEPT ![c] = "admitted"] /\ Phases[c] = "waiting"
  BY <1>5, <1>6 DEF Phases
<1>8. Heard' = Heard
  BY <1>3 DEF Heard, clients
<1> QED BY <1>1, <1>2, <1>3, <1>7, <1>8
        DEF clients, Heard, Phases, Abstract!Next, Abstract!Admit

LEMMA BirthSession ==
  ASSUME IInv, EnableRead
  PROVE  Abstract!Next
<1> USE ReactorAssumption DEF ReactorAssumption
<1>0. PICK c \in Conns : c = mconn
  BY DEF EnableRead, IInv, MainInv
<1>1. /\ fdOf[c] # None /\ obj[c] = "none"
      /\ obj' = [obj EXCEPT ![c] = "live"] /\ UNCHANGED <<clients, owner, fdOf>>
  BY <1>0 DEF EnableRead, IInv, MainInv
<1>2. Phase(c) = "admitted" /\ Phase(c)' = "served"
  <2>1. obj'[c] = "live" /\ fdOf'[c] # None
    BY <1>1 DEF IInv, TypeOK
  <2> QED BY <1>1, <2>1, PhaseIs, NextPhase
<1>3. \A d \in Conns \ {c} : Phase(d)' = Phase(d)
  <2>1. \A d \in Conns \ {c} : obj'[d] = obj[d] /\ fdOf'[d] = fdOf[d]
    BY <1>1 DEF IInv, TypeOK
  <2> QED BY <2>1, SamePhase
<1>4. Phases' = [Phases EXCEPT ![c] = "served"] /\ Phases[c] = "admitted"
  BY <1>1, <1>2, <1>3 DEF Phases
<1>5. Heard' = Heard
  BY <1>1 DEF Heard, clients
<1> QED BY <1>1, <1>4, <1>5 DEF clients, Heard, Phases, Abstract!Next, Abstract!Serve

LEMMA ReadSession ==
  ASSUME IInv, NEW r \in Subs, ReadData(r)
  PROVE  Abstract!Next
<1> USE ReactorAssumption DEF ReactorAssumption
<1> DEFINE c == active[r]
<1>1. c \in Conns /\ obj[c] = "live" /\ fdOf[c] # None
  BY DEF ReadData, IInv, SubInv, Handles, DescInv
<1>2. /\ inbox[c] > 0 /\ inbox' = [inbox EXCEPT ![c] = inbox[c] - 1]
      /\ UNCHANGED <<peer, sent, owner, fdOf, obj>>
  BY DEF ReadData, HasData, heap
<1> HIDE DEF c
<1>3. inbox[c] \in Nat /\ sent[c] \in Nat
  BY <1>1 DEF IInv, TypeOK
<1>4. Heard' = [Heard EXCEPT ![c] = Heard[c] + 1] /\ Heard[c] < sent[c]
  <2>1. sent'[c] - inbox'[c] = (sent[c] - inbox[c]) + 1
    BY <1>1, <1>2, <1>3 DEF IInv, TypeOK
  <2>2. \A d \in Conns \ {c} : sent'[d] - inbox'[d] = sent[d] - inbox[d]
    BY <1>1, <1>2 DEF IInv, TypeOK
  <2>3. sent[c] - inbox[c] < sent[c]
    BY <1>2, <1>3
  <2> QED BY <1>1, <2>1, <2>2, <2>3 DEF Heard
<1>5. Phases' = Phases /\ Phases[c] = "served"
  BY <1>1, <1>2, SamePhase, PhaseIs DEF Phases
<1> QED BY <1>1, <1>2, <1>4, <1>5 DEF Heard, Phases, Abstract!Next, Abstract!Hear

LEMMA DeathSession ==
  ASSUME IInv, NEW r \in Subs, CloseFd(r)
  PROVE  Abstract!Next
<1> USE ReactorAssumption DEF ReactorAssumption
<1>0. PICK c \in Conns : c = victim[r]
  BY DEF CloseFd, IInv, SubInv, Destroys
<1>1. /\ obj[c] = "live" /\ fdOf[c] \in Fds /\ fdOf[c] # None
      /\ owner[fdOf[c]] = c /\ c = active[r] /\ spc[r] = "closeFd"
  BY <1>0 DEF CloseFd, IInv, SubInv, Destroys, DescInv
<1>2. /\ owner' = [owner EXCEPT ![fdOf[c]] = None]
      /\ obj' = [obj EXCEPT ![c] = "unsocketed"] /\ UNCHANGED <<clients, fdOf>>
  BY <1>0 DEF CloseFd, Without
<1>3. peer[c] \in {"fin", "reset"} /\ inbox[c] = 0
  BY <1>1 DEF IInv, EndInv, Ended
<1>4. Phase(c) = "served" /\ Phase(c)' = "dismissed"
  <2>1. obj'[c] = "unsocketed" /\ fdOf'[c] # None
    BY <1>1, <1>2 DEF IInv, TypeOK
  <2> QED BY <1>1, <2>1, PhaseIs, NextPhase
<1>5. \A d \in Conns \ {c} : Phase(d)' = Phase(d)
  <2>1. \A d \in Conns \ {c} : obj'[d] = obj[d] /\ fdOf'[d] = fdOf[d]
    BY <1>2 DEF IInv, TypeOK
  <2> QED BY <2>1, SamePhase
<1>6. Phases' = [Phases EXCEPT ![c] = "dismissed"] /\ Phases[c] = "served"
  BY <1>1, <1>4, <1>5 DEF Phases
<1>7. Heard' = Heard /\ Heard[c] = sent[c]
  BY <1>1, <1>2, <1>3 DEF Heard, clients, IInv, TypeOK
<1> QED BY <1>1, <1>2, <1>3, <1>6, <1>7
        DEF clients, Heard, Phases, Abstract!Next, Abstract!Dismiss

LEMMA SessionStep == IInv /\ [Next]_vars => [Abstract!Next]_Session
<1> SUFFICES ASSUME IInv, [Next]_vars PROVE Abstract!Next \/ UNCHANGED Session
  OBVIOUS
<1> USE ReactorAssumption DEF ReactorAssumption
<1>1. ASSUME UNCHANGED <<peer, sent, inbox, owner, fdOf, obj>> PROVE UNCHANGED Session
  <2>1. Phases' = Phases
    BY <1>1, SamePhase DEF Phases
  <2> QED BY <1>1, <2>1 DEF Session, Heard
<1>2. ASSUME NEW r \in Subs, DeleteChannel(r) PROVE UNCHANGED Session
  <2>1. /\ victim[r] \in Conns /\ fdOf[victim[r]] # None /\ obj[victim[r]] = "unsocketed"
        /\ obj' = [obj EXCEPT ![victim[r]] = "freed"] /\ UNCHANGED <<clients, owner, fdOf>>
    BY <1>2 DEF DeleteChannel, IInv, SubInv, Destroys
  <2> DEFINE c == victim[r]
  <2> HIDE DEF c
  <2>2. c \in Conns /\ fdOf[c] # None /\ obj[c] = "unsocketed"
        /\ obj' = [obj EXCEPT ![c] = "freed"] /\ fdOf' = fdOf
    BY <2>1 DEF c
  <2>3. obj'[c] = "freed" /\ \A d \in Conns \ {c} : obj'[d] = obj[d] /\ fdOf'[d] = fdOf[d]
    BY <2>2 DEF IInv, TypeOK
  <2>4. Phases' = Phases
    <3>1. PICK e : e = c
      OBVIOUS
    <3>2. Phase(e) = "dismissed" /\ Phase(e)' = "dismissed"
      BY <2>2, <2>3, <3>1, PhaseIs, NextPhase
    <3>3. \A d \in Conns \ {e} : Phase(d)' = Phase(d)
      BY <2>3, <3>1, SamePhase
    <3> QED BY <3>2, <3>3 DEF Phases
  <2> QED BY <2>1, <2>4 DEF Session, Heard, clients
<1>3. CASE EnableRead
  BY <1>3, BirthSession
<1>4. ASSUME NEW c \in Conns, Connect(c) \/ Send(c) \/ HangUp(c) PROVE Abstract!Next
  BY <1>4, ClientSession
<1>5. ASSUME NEW c \in Conns, Accept(c) PROVE Abstract!Next
  BY <1>5, AcceptSession
<1>6. ASSUME NEW r \in Subs, ReadData(r) PROVE Abstract!Next
  BY <1>6, ReadSession
<1>7. ASSUME NEW r \in Subs, CloseFd(r) PROVE Abstract!Next
  BY <1>7, DeathSession
<1> QED
  BY <1>1, <1>2, <1>3, <1>4, <1>5, <1>6, <1>7
     DEF Next, ClientStep, MainStep, SubStep, vars, clients, heap, EnableET, SetCallbacks,
         Wire, InsertEnter, Insert, LookupEnter, LookupNull, Lookup, OnConnect, Poll,
         BatchDone, HandleEvent, HandleEmpty, HandleTorn, ReadRefused, ReadDrained,
         ReadEnd, FindEnter, FindFails, Find, EraseEnter, Erase, OnRecv

(* The reactors, with their threads, epoll instances and connections_, give     *)
(* clients the sessions of the abstract server (TcpServer.cpp:53-73).           *)
THEOREM ReactorsServeSessions == Spec => ImplementsSessions
<1>1. Session = <<peer, [c \in Conns |-> Phase(c)], owner, sent,
                  [c \in Conns |-> sent[c] - inbox[c]]>>
  BY DEF Session, Phases, Heard
<1>2. IInv /\ [Next]_vars => [Abstract!Next]_Abstract!sessions
  BY SessionStep, <1>1 DEF Abstract!sessions, Session, Phases, Heard
<1> QED BY Invariant, SessionInit, <1>2, PTL DEF Spec, ImplementsSessions, Abstract!Spec
=============================================================================

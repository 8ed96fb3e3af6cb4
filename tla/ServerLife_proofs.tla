--------------------------- MODULE ServerLife_proofs ---------------------------
(***************************************************************************)
(* Proofs about ServerLife, for any number of sub reactors.  The server    *)
(* uses its pool as ThreadPool allows (PoolIsUsedAsMeant), so what is      *)
(* proved of the pool holds here; the facts to add are that only the       *)
(* callbacks are destroyed before the workers are joined (OrderInv), and   *)
(* that clients find every loop submitted, in the order of the sub         *)
(* reactors (SubmitInv, ServedInv).                                        *)
(***************************************************************************)
EXTENDS ServerLife, ThreadPool_proofs

OrderInv == Members \ Callbacks \subseteq members \/ opc = "joined"

RoomInv == building # None => conns[building] < MaxConns

\* Start submits loop 0, loop 1, and so on.
SubmitInv ==
  /\ \A i \in 1..Len(accepted) : accepted[i] = i - 1
  /\ adding[Main] \in {None, Len(accepted)}

\* main_reactor_ accepts no client before Start has submitted every loop.
ServedInv ==
  building # None \/ (\E i \in Tasks : conns[i] > 0) => Tasks \subseteq Elems(accepted)

LifeInv == IInv /\ LTypeOK /\ OrderInv /\ RoomInv /\ StartIsNotRefused /\ SubmitInv /\ ServedInv

-----------------------------------------------------------------------------
\* Every step of the server's life is a step of the pool, or none.
LEMMA PoolStep == TypeOK /\ [LNext]_lvars => [Next]_vars
<1> SUFFICES ASSUME TypeOK, [LNext]_lvars PROVE [Next]_vars
  OBVIOUS
<1> USE LifeAssumption DEF LifeAssumption
<1>1. CASE SubmitLoop
  BY <1>1 DEF SubmitLoop, Next
<1>2. CASE BeginConnection
  BY <1>2 DEF BeginConnection
<1>3. CASE InsertConnection
  BY <1>3 DEF InsertConnection
<1>4. ASSUME NEW w \in Workers, Work(w) PROVE [Next]_vars
  BY <1>4 DEF Work, Next, WorkerStep
<1>5. ASSUME NEW w \in Workers, AcquireOrWake(w) PROVE [Next]_vars
  BY <1>5 DEF AcquireOrWake, Next
<1>6. ASSUME NEW w \in Workers, DeleteConnection(w) PROVE [Next]_vars
  BY <1>6 DEF DeleteConnection
<1>7. ASSUME NEW w \in Workers, LoopDies(w) PROVE [Next]_vars
  BY <1>7 DEF LoopDies, Next, WorkerStep
<1>8. CASE Interrupt
  BY <1>8 DEF Interrupt, Next
<1>9. CASE InterruptAgain
  BY <1>9 DEF InterruptAgain
<1>10. CASE DestroyPoolLock
  BY <1>10 DEF DestroyPoolLock, Next
<1>11. CASE DestroyPool
  BY <1>11 DEF DestroyPool, Next, DestroyStep
<1>12. CASE DestroyCallbacks \/ PoolGone \/ DestroySubReactors \/ DestroyConnections \/ DestroyAcceptor
  BY <1>12 DEF DestroyCallbacks, PoolGone, DestroySubReactors, DestroyConnections, DestroyAcceptor
<1>13. CASE UNCHANGED lvars
  BY <1>13 DEF lvars
<1> QED BY <1>1, <1>2, <1>3, <1>4, <1>5, <1>6, <1>7, <1>8, <1>9, <1>10, <1>11, <1>12, <1>13
        DEF LNext, MainStep, HandlerStep

\* While thread_pool_ is there, nothing but the callbacks is destroyed.
LEMMA PoolGoesFirst ==
  ASSUME NEW m, IsNext(m), m \notin Callbacks, m # "thread_pool_"
  PROVE  "thread_pool_" \notin members
<1>1. PICK k \in 1..Len(DestructionOrder) :
        /\ DestructionOrder[k] = m
        /\ \A j \in 1..(k - 1) : DestructionOrder[j] \notin members
  BY DEF IsNext
<1>2. /\ DestructionOrder[1] \in Callbacks /\ DestructionOrder[2] \in Callbacks
      /\ DestructionOrder[3] = "thread_pool_" /\ Len(DestructionOrder) = 7
  BY DEF DestructionOrder, Callbacks
<1>3. k \notin {1, 2, 3}
  BY <1>1, <1>2
<1>4. 3 \in 1..(k - 1)
  BY <1>1, <1>2, <1>3
<1> QED BY <1>1, <1>2, <1>4

LEMMA DestructionStep == OrderInv /\ [LNext]_lvars => OrderInv'
<1> SUFFICES ASSUME OrderInv, [LNext]_lvars PROVE OrderInv'
  OBVIOUS
<1> USE DEF OrderInv
<1>1. CASE UNCHANGED <<members, opc>>
  BY <1>1
<1>2. CASE Interrupt
  BY <1>2 DEF Interrupt, DestroyCall, life
<1>3. CASE DestroyPoolLock
  BY <1>3 DEF DestroyPoolLock, DestroyLock, life
<1>4. CASE DestroyPool
  BY <1>4 DEF DestroyPool, DestroyRaise, DestroyNotify, DestroyJoin, life
<1>5. CASE PoolGone
  BY <1>5 DEF PoolGone, vars
<1>6. ASSUME NEW m, m \notin Callbacks, m # "thread_pool_", IsNext(m), UNCHANGED vars PROVE OrderInv'
  <2>1. ~(Members \ Callbacks \subseteq members)
    BY <1>6, PoolGoesFirst DEF Members, Callbacks
  <2> QED BY <2>1, <1>6 DEF vars
<1>7. CASE DestroySubReactors \/ DestroyConnections \/ DestroyAcceptor
  BY <1>6, <1>7 DEF DestroySubReactors, DestroyConnections, DestroyAcceptor, Callbacks
<1>12. CASE DestroyCallbacks
  BY <1>12 DEF DestroyCallbacks, Destroyed, vars
<1>8. CASE SubmitLoop
  BY <1>8 DEF SubmitLoop, AddCall, AddLock, AddStep, AddReject, AddPass, AddPush, AddNotify, life
<1>9. CASE BeginConnection \/ InsertConnection \/ InterruptAgain
  BY <1>9 DEF BeginConnection, InsertConnection, InterruptAgain, vars
<1>10. ASSUME NEW w \in Workers,
              Work(w) \/ AcquireOrWake(w) \/ DeleteConnection(w) \/ LoopDies(w)
       PROVE  UNCHANGED <<members, opc>>
  BY <1>10 DEF Work, AcquireOrWake, DeleteConnection, LoopDies, WorkerCheck, WorkerBlock,
       WorkerExit, WorkerTake, WorkerLock, WorkerSpurious, WorkerFinish, life, vars
<1>11. CASE UNCHANGED lvars
  BY <1>11 DEF lvars, life, vars
<1> QED BY <1>1, <1>2, <1>3, <1>4, <1>5, <1>7, <1>8, <1>9, <1>10, <1>11, <1>12
        DEF LNext, MainStep, HandlerStep

-----------------------------------------------------------------------------
\* A step changes the server's own variables only as its four actions do.
LEMMA LifeTypeStep ==
  LTypeOK /\ RoomInv /\ TypeOK' /\ [LNext]_lvars => LTypeOK' /\ RoomInv'
<1> SUFFICES ASSUME LTypeOK, RoomInv, TypeOK', [LNext]_lvars PROVE LTypeOK' /\ RoomInv'
  OBVIOUS
<1> DEFINE Counts == conns \in [Tasks -> 0..MaxConns]
           Building == building \in Tasks \cup {None}
           Rest == members \subseteq Members
                   /\ fate \in {"running", "double delete", "use after free"}
<1>a. MaxConns \in Nat /\ None \notin Tasks
  BY LifeAssumption, PoolAssumption DEF LifeAssumption, PoolAssumption
<1>b. Counts /\ Building /\ Rest /\ RoomInv
  BY DEF LTypeOK
<1>c. SUFFICES Counts' /\ Building' /\ Rest' /\ RoomInv'
  BY DEF LTypeOK
<1> HIDE DEF Rest
<1>1. ASSUME UNCHANGED <<building, conns>>, Rest' PROVE Counts' /\ Building' /\ Rest' /\ RoomInv'
  BY <1>1, <1>b DEF RoomInv
<1>2. ASSUME UNCHANGED <<members, fate>> PROVE Rest'
  BY <1>2, <1>b DEF Rest
<1>3. CASE BeginConnection
  <2>1. PICK i \in Tasks : conns[i] < MaxConns /\ building' = i
    BY <1>3 DEF BeginConnection
  <2>2. conns' = conns /\ Rest'
    BY <1>3, <1>2 DEF BeginConnection
  <2> QED BY <2>1, <2>2, <1>b DEF RoomInv
<1>4. CASE InsertConnection
  <2>1. building \in Tasks /\ conns[building] < MaxConns
    BY <1>4, <1>b DEF InsertConnection, RoomInv
  <2>2. conns[building] \in Nat
    BY <2>1, <1>a, <1>b
  <2>3. conns[building] + 1 \in 0..MaxConns
    BY <2>1, <2>2, <1>a
  <2>4. conns' = [conns EXCEPT ![building] = conns[building] + 1] /\ building' = None /\ Rest'
    BY <1>4, <1>2 DEF InsertConnection
  <2> QED BY <2>3, <2>4, <1>b DEF RoomInv
<1>5. ASSUME NEW w \in Workers, DeleteConnection(w) PROVE Counts' /\ Building' /\ Rest' /\ RoomInv'
  <2>1. PICK i \in Tasks : conns[i] > 0 /\ conns' = [conns EXCEPT ![i] = conns[i] - 1]
    BY <1>5 DEF DeleteConnection
  <2>2. conns[i] \in 0..MaxConns
    BY <1>b
  <2>3. conns[i] - 1 \in 0..MaxConns /\ conns[i] - 1 < MaxConns
    BY <2>1, <2>2, <1>a
  <2>4. building' = building /\ Rest'
    BY <1>5, <1>2 DEF DeleteConnection
  <2>5. Counts'
    BY <2>1, <2>3, <1>b
  <2>6. ASSUME building # None PROVE conns'[building] < MaxConns
    BY <2>1, <2>3, <2>6, <1>b DEF RoomInv
  <2> QED BY <2>4, <2>5, <2>6, <1>b DEF RoomInv
<1>6. CASE InterruptAgain
  <2>1. Rest'
    BY <1>6, <1>b DEF InterruptAgain, Rest
  <2> QED BY <1>6, <1>1, <2>1 DEF InterruptAgain
<1>7. CASE DestroyCallbacks \/ PoolGone \/ DestroySubReactors \/ DestroyAcceptor
  <2>1. Rest'
    BY <1>7, <1>b DEF DestroyCallbacks, PoolGone, DestroySubReactors, DestroyAcceptor, Destroyed, Rest
  <2> QED BY <1>7, <1>1, <2>1 DEF DestroyCallbacks, PoolGone, DestroySubReactors, DestroyAcceptor
<1>8. CASE DestroyConnections
  <2>1. conns' = [i \in Tasks |-> 0] /\ building' = building
    BY <1>8 DEF DestroyConnections
  <2>2. building # None => 0 < MaxConns
    <3>1. ASSUME building # None PROVE conns[building] \in 0..MaxConns /\ conns[building] < MaxConns
      BY <3>1, <1>b DEF RoomInv
    <3> QED BY <3>1, <1>a
  <2>3. Counts'
    BY <2>1, <1>a
  <2>4. building # None => conns'[building] < MaxConns
    BY <2>1, <2>2, <1>b
  <2>5. Rest'
    BY <1>8, <1>b DEF DestroyConnections, Destroyed, Rest
  <2> QED BY <2>1, <2>3, <2>4, <2>5, <1>b DEF RoomInv
<1>9. CASE UNCHANGED life
  BY <1>9, <1>1, <1>2 DEF life
<1>10. CASE UNCHANGED lvars
  BY <1>10, <1>9 DEF lvars
<1> QED BY <1>3, <1>4, <1>5, <1>6, <1>7, <1>8, <1>9, <1>10
        DEF LNext, MainStep, HandlerStep, SubmitLoop, Work, AcquireOrWake, LoopDies,
            Interrupt, DestroyPoolLock, DestroyPool

\* Main meets no raised stop_, because it stands still from SIGINT on.
LEMMA RefusedStep == IInv /\ StartIsNotRefused /\ [LNext]_lvars => StartIsNotRefused'
<1> SUFFICES ASSUME IInv, StartIsNotRefused, [LNext]_lvars PROVE StartIsNotRefused'
  OBVIOUS
<1> USE DEF StartIsNotRefused
<1>1. CASE SubmitLoop
  <2>1. ~stop
    BY <1>1 DEF SubmitLoop, Undisturbed, IInv, FlowInv
  <2> QED BY <1>1, <2>1
          DEF SubmitLoop, AddCall, AddLock, AddStep, AddReject, AddPass, AddPush, AddNotify, history
<1>2. CASE UNCHANGED vars
  BY <1>2 DEF vars
<1>3. ASSUME NEW w \in Workers, Work(w) \/ AcquireOrWake(w) \/ LoopDies(w)
      PROVE  UNCHANGED rejected
  BY <1>3 DEF Work, AcquireOrWake, LoopDies, WorkerCheck, WorkerBlock, WorkerExit, WorkerTake,
       WorkerLock, WorkerSpurious, WorkerFinish, history
<1>4. CASE Interrupt \/ DestroyPoolLock \/ DestroyPool
  BY <1>4 DEF Interrupt, DestroyPoolLock, DestroyPool, DestroyCall, DestroyLock, DestroyRaise,
       DestroyNotify, DestroyJoin, history
<1>5. CASE UNCHANGED lvars
  BY <1>5, <1>2 DEF lvars
<1> QED BY <1>1, <1>2, <1>3, <1>4, <1>5
        DEF LNext, MainStep, HandlerStep, BeginConnection, InsertConnection, DeleteConnection,
            InterruptAgain, DestroyCallbacks, PoolGone, DestroySubReactors, DestroyConnections, DestroyAcceptor

\* A step that does not push leaves what was submitted alone.
LEMMA SubmitStep == TypeOK /\ LocalInv /\ SubmitInv /\ [LNext]_lvars => SubmitInv'
<1> SUFFICES ASSUME TypeOK, LocalInv, SubmitInv, [LNext]_lvars PROVE SubmitInv'
  OBVIOUS
<1>m. Main \in Submitters /\ \A s \in Submitters : s = Main
  BY LifeAssumption DEF LifeAssumption
<1>n. adding \in [Submitters -> Tasks \cup {None}] /\ accepted \in Seq(Tasks)
  BY DEF TypeOK
<1>u. ASSUME UNCHANGED <<accepted, adding>> PROVE SubmitInv'
  BY <1>u DEF SubmitInv
<1>1. CASE SubmitLoop
  <2>1. CASE AddCall(Main, Len(accepted))
    BY <2>1, <1>m, <1>n DEF AddCall, SubmitInv, history
  <2>2. CASE AddLock(Main) \/ AddPass(Main) \/ AddNotify(Main)
    BY <2>2, <1>u DEF AddLock, AddPass, AddNotify, history
  <2>3. CASE AddReject(Main)
    BY <2>3, <1>m, <1>n DEF AddReject, SubmitInv
  <2>4. CASE AddPush(Main)
    <3>1. adding[Main] # None
      BY <2>4, <1>m DEF AddPush, LocalInv
    <3>2. adding[Main] = Len(accepted) /\ adding[Main] \in Tasks
      BY <3>1, <1>m, <1>n DEF SubmitInv
    <3>3. accepted' = Append(accepted, adding[Main]) /\ adding'[Main] = None
      BY <2>4, <1>m, <1>n DEF AddPush
    <3>4. /\ Len(accepted') = Len(accepted) + 1
          /\ \A i \in 1..Len(accepted) : accepted'[i] = accepted[i]
          /\ accepted'[Len(accepted) + 1] = Len(accepted)
          /\ Len(accepted) \in Nat
      BY <3>2, <3>3, <1>n
    <3>5. \A i \in 1..(Len(accepted) + 1) : i \in 1..Len(accepted) \/ i = Len(accepted) + 1
      BY <3>4
    <3>6. \A i \in 1..(Len(accepted) + 1) : accepted'[i] = i - 1
      BY <3>4, <3>5 DEF SubmitInv
    <3> QED BY <3>3, <3>4, <3>6 DEF SubmitInv
  <2> QED BY <1>1, <2>1, <2>2, <2>3, <2>4 DEF SubmitLoop, AddStep
<1>2. CASE UNCHANGED vars
  BY <1>2, <1>u DEF vars
<1>3. ASSUME NEW w \in Workers, Work(w) \/ AcquireOrWake(w) \/ LoopDies(w)
      PROVE  UNCHANGED <<accepted, adding>>
  BY <1>3 DEF Work, AcquireOrWake, LoopDies, WorkerCheck, WorkerBlock, WorkerExit, WorkerTake,
       WorkerLock, WorkerSpurious, WorkerFinish, history
<1>4. CASE Interrupt \/ DestroyPoolLock \/ DestroyPool
  BY <1>4, <1>u DEF Interrupt, DestroyPoolLock, DestroyPool, DestroyCall, DestroyLock,
       DestroyRaise, DestroyNotify, DestroyJoin, history
<1>5. CASE UNCHANGED lvars
  BY <1>5, <1>2 DEF lvars
<1> QED BY <1>1, <1>2, <1>3, <1>4, <1>5, <1>u
        DEF LNext, MainStep, HandlerStep, BeginConnection, InsertConnection, DeleteConnection,
            InterruptAgain, DestroyCallbacks, PoolGone, DestroySubReactors, DestroyConnections, DestroyAcceptor

\* When the main reactor runs, its sub reactors' loops have all been submitted.
LEMMA ServingMeansSubmitted ==
  ASSUME TypeOK, SubmitInv, Serving
  PROVE  Tasks \subseteq Elems(accepted)
<1>1. Len(accepted) = Cardinality(Workers) /\ Len(accepted) \in Nat
  BY DEF Serving, TypeOK
<1>2. Tasks = 0..(Len(accepted) - 1)
  BY <1>1, LifeAssumption DEF LifeAssumption
<1>3. ASSUME NEW t \in 0..(Len(accepted) - 1) PROVE t \in Elems(accepted)
  <2>1. t + 1 \in 1..Len(accepted) /\ (t + 1) - 1 = t
    BY <1>1
  <2>2. accepted[t + 1] = t
    BY <2>1 DEF SubmitInv
  <2> QED BY <2>1, <2>2 DEF Elems
<1> QED BY <1>2, <1>3

\* Add only ever appends.
LEMMA AcceptedGrows ==
  TypeOK /\ LocalInv /\ [Next]_vars => Elems(accepted) \subseteq Elems(accepted')
<1> SUFFICES ASSUME TypeOK, LocalInv, [Next]_vars PROVE Elems(accepted) \subseteq Elems(accepted')
  OBVIOUS
<1>1. ASSUME NEW s \in Submitters, AddPush(s) PROVE Elems(accepted) \subseteq Elems(accepted')
  <2>1. accepted' = Append(accepted, adding[s]) /\ adding[s] \in Tasks
    BY <1>1 DEF AddPush, LocalInv, TypeOK
  <2> QED BY <2>1, ElemsAppend DEF TypeOK
<1>2. ASSUME NEW s \in Submitters, AddLock(s) \/ AddReject(s) \/ AddPass(s) \/ AddNotify(s)
      PROVE  accepted' = accepted
  BY <1>2 DEF AddLock, AddReject, AddPass, AddNotify, history
<1>3. ASSUME NEW s \in Submitters, NEW t, AddCall(s, t) PROVE accepted' = accepted
  BY <1>3 DEF AddCall, history
<1>4. ASSUME NEW w \in Workers, WorkerLock(w) \/ WorkerStep(w) \/ WorkerSpurious(w)
      PROVE  accepted' = accepted
  BY <1>4 DEF WorkerStep, WorkerCheck, WorkerBlock, WorkerExit, WorkerTake, WorkerLock,
       WorkerSpurious, WorkerFinish, history
<1>5. CASE DestroyCall \/ DestroyLock \/ DestroyStep
  BY <1>5 DEF DestroyCall, DestroyLock, DestroyStep, DestroyRaise, DestroyNotify, DestroyJoin,
       DestroyMembers, history
<1>6. CASE UNCHANGED vars
  BY <1>6 DEF vars
<1> QED BY <1>1, <1>2, <1>3, <1>4, <1>5, <1>6 DEF Next, AddStep

\* Only a main thread that serves brings connections.
LEMMA ServedStep ==
  TypeOK /\ LocalInv /\ SubmitInv /\ ServedInv /\ [LNext]_lvars => ServedInv'
<1> SUFFICES ASSUME TypeOK, LocalInv, SubmitInv, ServedInv, [LNext]_lvars
             PROVE  ServedInv'
  OBVIOUS
<1>1. Elems(accepted) \subseteq Elems(accepted')
  BY PoolStep, AcceptedGrows
<1>2. CASE BeginConnection \/ InsertConnection
  <2>1. Serving
    BY <1>2 DEF BeginConnection, InsertConnection
  <2> QED BY <1>1, <2>1, ServingMeansSubmitted DEF ServedInv
<1>3. ASSUME NEW w \in Workers, DeleteConnection(w) PROVE ServedInv'
  <2>1. \E i \in Tasks : conns[i] > 0
    BY <1>3 DEF DeleteConnection
  <2> QED BY <1>1, <2>1 DEF ServedInv
<1>4. CASE DestroyConnections
  <2>1. building' = building /\ \A i \in Tasks : conns'[i] = 0
    BY <1>4 DEF DestroyConnections
  <2>2. ~ \E i \in Tasks : conns'[i] > 0
    BY <2>1
  <2> QED BY <1>1, <2>1, <2>2 DEF ServedInv
<1>5. ASSUME UNCHANGED <<building, conns>> PROVE ServedInv'
  BY <1>1, <1>5 DEF ServedInv
<1>6. CASE UNCHANGED lvars
  BY <1>5, <1>6 DEF lvars, life
<1> QED BY <1>2, <1>3, <1>4, <1>5, <1>6
        DEF LNext, MainStep, HandlerStep, SubmitLoop, Work, AcquireOrWake, LoopDies, Interrupt,
            InterruptAgain, DestroyPoolLock, DestroyPool, DestroyCallbacks, PoolGone, DestroySubReactors,
            DestroyAcceptor, life

-----------------------------------------------------------------------------
\* The server uses its pool as ThreadPool.tla describes it: everything proved of
\* the pool holds in every run of the server.
THEOREM PoolIsUsedAsMeant == LSpec => Spec
<1>1. LInit => Init
  BY DEF LInit
<1>2. Init => IInv
  BY IInvInit
<1>3. IInv /\ [LNext]_lvars => [Next]_vars
  BY PoolStep DEF IInv
<1>4. IInv /\ [Next]_vars => IInv'
  BY IInvStep
<1> QED BY <1>1, <1>2, <1>3, <1>4, PTL DEF LSpec, Spec

LEMMA LifeInvInit == LInit => LifeInv
<1> USE LifeAssumption DEF LifeAssumption
<1>1. LInit => IInv /\ TypeOK
  BY IInvInit DEF LInit, IInv
<1>2. LInit => LTypeOK /\ OrderInv /\ RoomInv /\ StartIsNotRefused
  BY <1>1 DEF LInit, Init, LTypeOK, OrderInv, RoomInv, StartIsNotRefused
<1>3. LInit => SubmitInv /\ ServedInv
  BY DEF LInit, Init, SubmitInv, ServedInv
<1> QED BY <1>1, <1>2, <1>3 DEF LifeInv

LEMMA LifeInvStep == LifeInv /\ [LNext]_lvars => LifeInv'
<1> SUFFICES ASSUME LifeInv, [LNext]_lvars PROVE LifeInv'
  OBVIOUS
<1>1. IInv'
  BY PoolStep, IInvStep DEF LifeInv, IInv
<1>2. LTypeOK' /\ RoomInv'
  BY <1>1, LifeTypeStep DEF LifeInv, IInv
<1>3. SubmitInv' /\ ServedInv'
  BY SubmitStep, ServedStep DEF LifeInv, IInv
<1> QED BY <1>1, <1>2, <1>3, DestructionStep, RefusedStep DEF LifeInv

\* The inductive invariant holds in every reachable state.
THEOREM LifeInvariant == LSpec => []LifeInv
<1> QED BY LifeInvInit, LifeInvStep, PTL DEF LSpec

\* Type correctness of the server's life.
THEOREM LifeTypeCorrect == LSpec => []LTypeOK
<1>1. LifeInv => LTypeOK
  BY DEF LifeInv
<1> QED BY <1>1, LifeInvariant, PTL

\* No worker runs a loop of a server whose reactors or connections have been
\* destroyed (the declaration order of TcpServer.h:37-40).
THEOREM LoopsOutliveNothing == LSpec => []LoopsHaveTheirServer
<1>1. LifeInv => LoopsHaveTheirServer
  <2> SUFFICES ASSUME LifeInv, NEW w \in Workers, wpc[w] = "run"
               PROVE  {"sub_reactors_", "connections_"} \subseteq members
    BY DEF LoopsHaveTheirServer
  <2>1. opc # "joined"
    BY DEF LifeInv, IInv, FlowInv
  <2> QED BY <2>1 DEF LifeInv, OrderInv, Members, Callbacks
<1> QED BY <1>1, LifeInvariant, PTL

\* TcpServer::Start is never refused by its pool.
THEOREM StartSucceeds == LSpec => []StartIsNotRefused
<1>1. LifeInv => StartIsNotRefused
  BY DEF LifeInv
<1> QED BY <1>1, LifeInvariant, PTL

\* sub_reactors_ goes before connections_ in every destruction, but never under a
\* connection that a living loop could still serve: by then all loops have died
\* (TcpServer.h:37-40, ThreadPool.cpp:35-46).
THEOREM OrphansAreUnserved == LSpec => []OrphansHaveNoLoop
<1>1. LifeInv => OrphansHaveNoLoop
  <2> SUFFICES ASSUME LifeInv, "sub_reactors_" \notin members, \E i \in Tasks : conns[i] > 0
               PROVE  Tasks \subseteq finished
    BY DEF OrphansHaveNoLoop
  <2>1. opc = "joined"
    BY DEF LifeInv, OrderInv, Members, Callbacks
  <2>2. Elems(accepted) = finished
    BY <2>1, DrainedWhenJoined DEF LifeInv, JoinedMeansDrained
  <2> QED BY <2>2 DEF LifeInv, ServedInv
<1> QED BY <1>1, LifeInvariant, PTL
=============================================================================

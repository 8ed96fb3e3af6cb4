--------------------------- MODULE ThreadPool_proofs ---------------------------
(***************************************************************************)
(* Proofs about ThreadPool, for any number of workers, submitters and      *)
(* tasks.  The inductive invariant has two parts: who holds queue_mutex_   *)
(* (LockInv), and what each thread knows about stop_ and the queue at its  *)
(* place in the code (FlowInv).                                            *)
(***************************************************************************)
EXTENDS ThreadPool, SequenceTheorems, FiniteSetTheorems, TLAPS

\* A thread that needs its task has one.
LocalInv ==
  /\ \A w \in Workers : wpc[w] = "run" <=> current[w] # None
  /\ \A s \in Submitters : spc[s] \in {"lock", "check", "push"} <=> adding[s] # None

\* queue_mutex_ is held exactly by the thread that is inside a locked block.
LockInv ==
  /\ \A w \in Workers : wpc[w] \in WorkerHolds <=> mutex = w
  /\ \A s \in Submitters : spc[s] \in {"check", "push"} <=> mutex = s
  /\ opc = "raise" <=> mutex = Owner

\* What a thread's place says of stop_, the queue and its task.
FlowInv ==
  /\ \A w \in Workers : wpc[w] = "block" => queue = <<>> /\ ~stop
  /\ \A w \in Workers : wpc[w] = "decide" => queue # <<>> \/ stop
  /\ \A w \in Workers : wpc[w] = "exited" => queue = <<>> /\ stop
  /\ \A s \in Submitters : spc[s] = "push" => ~stop
  /\ stop <=> opc \in {"notify", "join", "joined", "gone"}
  /\ opc \in {"joined", "gone"} => \A w \in Workers : wpc[w] = "exited"

\* Every task taken is being run or has finished.
TakenInv == Elems(started) = finished \cup Running

IInv == TypeOK /\ LocalInv /\ LockInv /\ FlowInv /\ StartedInOrder /\ TakenInv

-----------------------------------------------------------------------------
(* Lemmas about sequences.                                                  *)

LEMMA ElemsAppend ==
  ASSUME NEW S, NEW s \in Seq(S), NEW x \in S
  PROVE  Elems(Append(s, x)) = Elems(s) \cup {x}
<1>1. /\ Append(s, x) \in Seq(S)
      /\ Len(Append(s, x)) = Len(s) + 1
      /\ \A i \in 1..Len(s) : Append(s, x)[i] = s[i]
      /\ Append(s, x)[Len(s) + 1] = x
      /\ Len(s) \in Nat
  OBVIOUS
<1>2. \A i \in 1..Len(s)+1 : i \in 1..Len(s) \/ i = Len(s) + 1
  BY <1>1
<1>3. \A i \in 1..Len(s) : i \in 1..Len(s)+1
  BY <1>1
<1>4. Len(s) + 1 \in 1..Len(s)+1
  BY <1>1
<1> QED BY <1>1, <1>2, <1>3, <1>4 DEF Elems

LEMMA TakeKeepsOrder ==
  ASSUME NEW S, NEW s \in Seq(S), NEW q \in Seq(S), q # <<>>
  PROVE  /\ Head(q) \in S
         /\ Tail(q) \in Seq(S)
         /\ Append(s, Head(q)) \o Tail(q) = s \o q
  OBVIOUS

LEMMA PushKeepsOrder ==
  ASSUME NEW S, NEW a \in Seq(S), NEW s \in Seq(S), NEW q \in Seq(S), NEW x \in S,
         a = s \o q
  PROVE  Append(a, x) = s \o Append(q, x)
  OBVIOUS

-----------------------------------------------------------------------------
LEMMA TypeInit == Init => TypeOK
<1> SUFFICES ASSUME Init PROVE TypeOK
  OBVIOUS
<1>1. <<>> \in Seq(Tasks)
  BY EmptySeq
<1>2. /\ mutex \in Workers \cup Submitters \cup {Owner, None}
      /\ stop \in BOOLEAN /\ opc \in OwnerPcs
  BY DEF Init, OwnerPcs
<1>3. wpc \in [Workers -> WorkerPcs] /\ current \in [Workers -> Tasks \cup {None}]
  BY DEF Init, WorkerPcs
<1>4. spc \in [Submitters -> SubmitterPcs] /\ adding \in [Submitters -> Tasks \cup {None}]
  BY DEF Init, SubmitterPcs
<1>5. rejected \subseteq Tasks /\ finished \subseteq Tasks
  BY DEF Init
<1> QED BY <1>1, <1>2, <1>3, <1>4, <1>5 DEF Init, TypeOK

\* The predicate of wait protects front(): a worker that takes finds a task.
LEMMA TakesATask ==
  ASSUME FlowInv, NEW w \in Workers, WorkerTake(w)
  PROVE  queue # <<>> /\ Front = Head(queue) /\ Popped = Tail(queue)
  BY DEF FlowInv, WorkerTake, MayExit, Front, Popped

LEMMA TypeStep == TypeOK /\ LocalInv /\ FlowInv /\ [Next]_vars => TypeOK'
<1> SUFFICES ASSUME TypeOK, LocalInv, FlowInv, [Next]_vars PROVE TypeOK'
  OBVIOUS
<1>1. ASSUME NEW w \in Workers, WorkerLock(w) PROVE TypeOK'
  BY <1>1 DEF TypeOK, LocalInv, WorkerLock, history, WorkerHolds, WorkerPcs, SubmitterPcs, OwnerPcs
<1>2. ASSUME NEW w \in Workers, WorkerCheck(w) PROVE TypeOK'
  BY <1>2 DEF TypeOK, LocalInv, WorkerCheck, Ready, history, WorkerHolds, WorkerPcs, SubmitterPcs, OwnerPcs
<1>3. ASSUME NEW w \in Workers, WorkerBlock(w) PROVE TypeOK'
  BY <1>3 DEF TypeOK, LocalInv, WorkerBlock, history, WorkerHolds, WorkerPcs, SubmitterPcs, OwnerPcs
<1>4. ASSUME NEW w \in Workers, WorkerSpurious(w) PROVE TypeOK'
  BY <1>4 DEF TypeOK, LocalInv, WorkerSpurious, history, WorkerHolds, WorkerPcs, SubmitterPcs, OwnerPcs
<1>5. ASSUME NEW w \in Workers, WorkerExit(w) PROVE TypeOK'
  BY <1>5 DEF TypeOK, LocalInv, WorkerExit, MayExit, history, WorkerHolds, WorkerPcs, SubmitterPcs, OwnerPcs
<1>6. ASSUME NEW w \in Workers, WorkerTake(w) PROVE TypeOK'
  <2>1. queue # <<>> /\ Front = Head(queue) /\ Popped = Tail(queue)
    BY <1>6, TakesATask
  <2>2. Head(queue) \in Tasks /\ Tail(queue) \in Seq(Tasks)
    BY <2>1, HeadTailProperties DEF TypeOK
  <2> QED BY <1>6, <2>1, <2>2 DEF TypeOK, WorkerTake, WorkerHolds, WorkerPcs
<1>7. ASSUME NEW w \in Workers, WorkerFinish(w) PROVE TypeOK'
  BY <1>7 DEF TypeOK, LocalInv, WorkerFinish, history, WorkerHolds, WorkerPcs, SubmitterPcs, OwnerPcs
<1>8. ASSUME NEW s \in Submitters, NEW t \in Tasks, AddCall(s, t) PROVE TypeOK'
  BY <1>8 DEF TypeOK, LocalInv, AddCall, history, WorkerHolds, WorkerPcs, SubmitterPcs, OwnerPcs
<1>9. ASSUME NEW s \in Submitters, AddLock(s) PROVE TypeOK'
  BY <1>9 DEF TypeOK, LocalInv, AddLock, history, WorkerHolds, WorkerPcs, SubmitterPcs, OwnerPcs
<1>10. ASSUME NEW s \in Submitters, AddReject(s) PROVE TypeOK'
  BY <1>10 DEF TypeOK, LocalInv, AddReject, history, WorkerHolds, WorkerPcs, SubmitterPcs, OwnerPcs
<1>11. ASSUME NEW s \in Submitters, AddPass(s) PROVE TypeOK'
  BY <1>11 DEF TypeOK, LocalInv, AddPass, history, WorkerHolds, WorkerPcs, SubmitterPcs, OwnerPcs
<1>12. ASSUME NEW s \in Submitters, AddPush(s) PROVE TypeOK'
  BY <1>12 DEF TypeOK, LocalInv, AddPush, history, WorkerHolds, WorkerPcs, SubmitterPcs, OwnerPcs
<1>13. ASSUME NEW s \in Submitters, AddNotify(s) PROVE TypeOK'
  BY <1>13 DEF TypeOK, LocalInv, AddNotify, NotifyOne, history, WorkerHolds, WorkerPcs, SubmitterPcs, OwnerPcs
<1>14. CASE DestroyCall
  BY <1>14 DEF TypeOK, LocalInv, DestroyCall, history, WorkerHolds, WorkerPcs, SubmitterPcs, OwnerPcs
<1>15. CASE DestroyLock
  BY <1>15 DEF TypeOK, LocalInv, DestroyLock, history, WorkerHolds, WorkerPcs, SubmitterPcs, OwnerPcs
<1>16. CASE DestroyRaise
  BY <1>16 DEF TypeOK, LocalInv, DestroyRaise, history, WorkerHolds, WorkerPcs, SubmitterPcs, OwnerPcs
<1>17. CASE DestroyNotify
  BY <1>17 DEF TypeOK, DestroyNotify, NotifyAll, history, WorkerHolds, WorkerPcs, OwnerPcs, OwnerPcs, OwnerPcs, OwnerPcs
<1>18. CASE DestroyJoin
  BY <1>18 DEF TypeOK, LocalInv, DestroyJoin, history, WorkerHolds, WorkerPcs, SubmitterPcs, OwnerPcs
<1>19. CASE DestroyMembers
  BY <1>19 DEF TypeOK, LocalInv, DestroyMembers, history, WorkerHolds, WorkerPcs, SubmitterPcs, OwnerPcs
<1>20. CASE UNCHANGED vars
  BY <1>20 DEF TypeOK, LocalInv, vars, history, WorkerHolds, WorkerPcs, SubmitterPcs, OwnerPcs
<1> QED
  BY <1>1, <1>2, <1>3, <1>4, <1>5, <1>6, <1>7, <1>8, <1>9, <1>10, <1>11, <1>12, <1>13, <1>14, <1>15, <1>16, <1>17, <1>18, <1>19, <1>20
     DEF Next, WorkerStep, AddStep, DestroyStep

LEMMA LocalStep == TypeOK /\ LocalInv /\ FlowInv /\ [Next]_vars => LocalInv'
<1> SUFFICES ASSUME TypeOK, LocalInv, FlowInv, [Next]_vars PROVE LocalInv'
  OBVIOUS
<1>1. ASSUME NEW w \in Workers, WorkerLock(w) PROVE LocalInv'
  BY <1>1, PoolAssumption DEF TypeOK, LocalInv, PoolAssumption, WorkerLock, history, SubmitterPcs
<1>2. ASSUME NEW w \in Workers, WorkerCheck(w) PROVE LocalInv'
  BY <1>2, PoolAssumption DEF TypeOK, LocalInv, PoolAssumption, WorkerCheck, Ready, history, SubmitterPcs
<1>3. ASSUME NEW w \in Workers, WorkerBlock(w) PROVE LocalInv'
  BY <1>3, PoolAssumption DEF TypeOK, LocalInv, PoolAssumption, WorkerBlock, history, SubmitterPcs
<1>4. ASSUME NEW w \in Workers, WorkerSpurious(w) PROVE LocalInv'
  BY <1>4, PoolAssumption DEF TypeOK, LocalInv, PoolAssumption, WorkerSpurious, history, SubmitterPcs
<1>5. ASSUME NEW w \in Workers, WorkerExit(w) PROVE LocalInv'
  BY <1>5, PoolAssumption DEF TypeOK, LocalInv, PoolAssumption, WorkerExit, MayExit, history, SubmitterPcs
<1>6. ASSUME NEW w \in Workers, WorkerTake(w) PROVE LocalInv'
  <2>1. Front \in Tasks
    BY <1>6, TakesATask, HeadTailProperties DEF TypeOK
  <2> QED BY <1>6, <2>1, PoolAssumption DEF TypeOK, LocalInv, PoolAssumption, WorkerTake
<1>7. ASSUME NEW w \in Workers, WorkerFinish(w) PROVE LocalInv'
  BY <1>7, PoolAssumption DEF TypeOK, LocalInv, PoolAssumption, WorkerFinish, history, SubmitterPcs
<1>8. ASSUME NEW s \in Submitters, NEW t \in Tasks, AddCall(s, t) PROVE LocalInv'
  BY <1>8, PoolAssumption DEF TypeOK, LocalInv, PoolAssumption, AddCall, history, SubmitterPcs
<1>9. ASSUME NEW s \in Submitters, AddLock(s) PROVE LocalInv'
  BY <1>9, PoolAssumption DEF TypeOK, LocalInv, PoolAssumption, AddLock, history, SubmitterPcs
<1>10. ASSUME NEW s \in Submitters, AddReject(s) PROVE LocalInv'
  BY <1>10, PoolAssumption DEF TypeOK, LocalInv, PoolAssumption, AddReject, history, SubmitterPcs
<1>11. ASSUME NEW s \in Submitters, AddPass(s) PROVE LocalInv'
  BY <1>11, PoolAssumption DEF TypeOK, LocalInv, PoolAssumption, AddPass, history, SubmitterPcs
<1>12. ASSUME NEW s \in Submitters, AddPush(s) PROVE LocalInv'
  BY <1>12, PoolAssumption DEF TypeOK, LocalInv, PoolAssumption, AddPush, history, SubmitterPcs
<1>13. ASSUME NEW s \in Submitters, AddNotify(s) PROVE LocalInv'
  BY <1>13, PoolAssumption DEF TypeOK, LocalInv, PoolAssumption, AddNotify, NotifyOne, history, SubmitterPcs
<1>14. CASE DestroyCall
  BY <1>14, PoolAssumption DEF TypeOK, LocalInv, PoolAssumption, DestroyCall, history, SubmitterPcs
<1>15. CASE DestroyLock
  BY <1>15, PoolAssumption DEF TypeOK, LocalInv, PoolAssumption, DestroyLock, history, SubmitterPcs
<1>16. CASE DestroyRaise
  BY <1>16, PoolAssumption DEF TypeOK, LocalInv, PoolAssumption, DestroyRaise, history, SubmitterPcs
<1>17. CASE DestroyNotify
  BY <1>17 DEF TypeOK, LocalInv, DestroyNotify, NotifyAll, history
<1>18. CASE DestroyJoin
  BY <1>18, PoolAssumption DEF TypeOK, LocalInv, PoolAssumption, DestroyJoin, history, SubmitterPcs
<1>19. CASE DestroyMembers
  BY <1>19, PoolAssumption DEF TypeOK, LocalInv, PoolAssumption, DestroyMembers, history, SubmitterPcs
<1>20. CASE UNCHANGED vars
  BY <1>20, PoolAssumption DEF TypeOK, LocalInv, PoolAssumption, vars, history, SubmitterPcs
<1> QED
  BY <1>1, <1>2, <1>3, <1>4, <1>5, <1>6, <1>7, <1>8, <1>9, <1>10, <1>11, <1>12, <1>13, <1>14, <1>15, <1>16, <1>17, <1>18, <1>19, <1>20
     DEF Next, WorkerStep, AddStep, DestroyStep

LEMMA LockStep == TypeOK /\ LockInv /\ [Next]_vars => LockInv'
<1> SUFFICES ASSUME TypeOK, LockInv, [Next]_vars PROVE LockInv'
  OBVIOUS
<1>1. ASSUME NEW w \in Workers, WorkerLock(w) PROVE LockInv'
  BY <1>1, PoolAssumption DEF TypeOK, LockInv, PoolAssumption, WorkerLock, history, WorkerHolds, SubmitterPcs, OwnerPcs
<1>2. ASSUME NEW w \in Workers, WorkerCheck(w) PROVE LockInv'
  BY <1>2, PoolAssumption DEF TypeOK, LockInv, PoolAssumption, WorkerCheck, Ready, history, WorkerHolds, SubmitterPcs, OwnerPcs
<1>3. ASSUME NEW w \in Workers, WorkerBlock(w) PROVE LockInv'
  BY <1>3, PoolAssumption DEF TypeOK, LockInv, PoolAssumption, WorkerBlock, history, WorkerHolds, SubmitterPcs, OwnerPcs
<1>4. ASSUME NEW w \in Workers, WorkerSpurious(w) PROVE LockInv'
  BY <1>4, PoolAssumption DEF TypeOK, LockInv, PoolAssumption, WorkerSpurious, history, WorkerHolds, SubmitterPcs, OwnerPcs
<1>5. ASSUME NEW w \in Workers, WorkerExit(w) PROVE LockInv'
  BY <1>5, PoolAssumption DEF TypeOK, LockInv, PoolAssumption, WorkerExit, MayExit, history, WorkerHolds, SubmitterPcs, OwnerPcs
<1>6. ASSUME NEW w \in Workers, WorkerTake(w) PROVE LockInv'
  BY <1>6, PoolAssumption DEF TypeOK, LockInv, PoolAssumption, WorkerTake, WorkerHolds
<1>7. ASSUME NEW w \in Workers, WorkerFinish(w) PROVE LockInv'
  BY <1>7, PoolAssumption DEF TypeOK, LockInv, PoolAssumption, WorkerFinish, history, WorkerHolds, SubmitterPcs, OwnerPcs
<1>8. ASSUME NEW s \in Submitters, NEW t \in Tasks, AddCall(s, t) PROVE LockInv'
  BY <1>8, PoolAssumption DEF TypeOK, LockInv, PoolAssumption, AddCall, history, WorkerHolds, SubmitterPcs, OwnerPcs
<1>9. ASSUME NEW s \in Submitters, AddLock(s) PROVE LockInv'
  BY <1>9, PoolAssumption DEF TypeOK, LockInv, PoolAssumption, AddLock, history, WorkerHolds, SubmitterPcs, OwnerPcs
<1>10. ASSUME NEW s \in Submitters, AddReject(s) PROVE LockInv'
  BY <1>10, PoolAssumption DEF TypeOK, LockInv, PoolAssumption, AddReject, history, WorkerHolds, SubmitterPcs, OwnerPcs
<1>11. ASSUME NEW s \in Submitters, AddPass(s) PROVE LockInv'
  BY <1>11, PoolAssumption DEF TypeOK, LockInv, PoolAssumption, AddPass, history, WorkerHolds, SubmitterPcs, OwnerPcs
<1>12. ASSUME NEW s \in Submitters, AddPush(s) PROVE LockInv'
  BY <1>12, PoolAssumption DEF TypeOK, LockInv, PoolAssumption, AddPush, history, WorkerHolds, SubmitterPcs, OwnerPcs
<1>13. ASSUME NEW s \in Submitters, AddNotify(s) PROVE LockInv'
  BY <1>13, PoolAssumption DEF TypeOK, LockInv, PoolAssumption, AddNotify, NotifyOne, history, WorkerHolds, SubmitterPcs, OwnerPcs
<1>14. CASE DestroyCall
  BY <1>14, PoolAssumption DEF TypeOK, LockInv, PoolAssumption, DestroyCall, history, WorkerHolds, SubmitterPcs, OwnerPcs
<1>15. CASE DestroyLock
  BY <1>15, PoolAssumption DEF TypeOK, LockInv, PoolAssumption, DestroyLock, history, WorkerHolds, SubmitterPcs, OwnerPcs
<1>16. CASE DestroyRaise
  BY <1>16, PoolAssumption DEF TypeOK, LockInv, PoolAssumption, DestroyRaise, history, WorkerHolds, SubmitterPcs, OwnerPcs
<1>17. CASE DestroyNotify
  BY <1>17 DEF TypeOK, LockInv, DestroyNotify, NotifyAll, WorkerHolds, history
<1>18. CASE DestroyJoin
  BY <1>18, PoolAssumption DEF TypeOK, LockInv, PoolAssumption, DestroyJoin, history, WorkerHolds, SubmitterPcs, OwnerPcs
<1>19. CASE DestroyMembers
  BY <1>19, PoolAssumption DEF TypeOK, LockInv, PoolAssumption, DestroyMembers, history, WorkerHolds, SubmitterPcs, OwnerPcs
<1>20. CASE UNCHANGED vars
  BY <1>20, PoolAssumption DEF TypeOK, LockInv, PoolAssumption, vars, history, WorkerHolds, SubmitterPcs, OwnerPcs
<1> QED
  BY <1>1, <1>2, <1>3, <1>4, <1>5, <1>6, <1>7, <1>8, <1>9, <1>10, <1>11, <1>12, <1>13, <1>14, <1>15, <1>16, <1>17, <1>18, <1>19, <1>20
     DEF Next, WorkerStep, AddStep, DestroyStep

LEMMA FlowStep == TypeOK /\ LockInv /\ FlowInv /\ [Next]_vars => FlowInv'
<1> SUFFICES ASSUME TypeOK, LockInv, FlowInv, [Next]_vars PROVE FlowInv'
  OBVIOUS
<1>1. ASSUME NEW w \in Workers, WorkerLock(w) PROVE FlowInv'
  BY <1>1, PoolAssumption DEF TypeOK, LockInv, FlowInv, PoolAssumption, WorkerLock, history, WorkerHolds, SubmitterPcs, OwnerPcs
<1>2. ASSUME NEW w \in Workers, WorkerCheck(w) PROVE FlowInv'
  BY <1>2, PoolAssumption DEF TypeOK, LockInv, FlowInv, PoolAssumption, WorkerCheck, Ready, history, WorkerHolds, SubmitterPcs, OwnerPcs
<1>3. ASSUME NEW w \in Workers, WorkerBlock(w) PROVE FlowInv'
  BY <1>3, PoolAssumption DEF TypeOK, LockInv, FlowInv, PoolAssumption, WorkerBlock, history, WorkerHolds, SubmitterPcs, OwnerPcs
<1>4. ASSUME NEW w \in Workers, WorkerSpurious(w) PROVE FlowInv'
  BY <1>4, PoolAssumption DEF TypeOK, LockInv, FlowInv, PoolAssumption, WorkerSpurious, history, WorkerHolds, SubmitterPcs, OwnerPcs
<1>5. ASSUME NEW w \in Workers, WorkerExit(w) PROVE FlowInv'
  BY <1>5, PoolAssumption DEF TypeOK, LockInv, FlowInv, PoolAssumption, WorkerExit, MayExit, history, WorkerHolds, SubmitterPcs, OwnerPcs
<1>6. ASSUME NEW w \in Workers, WorkerTake(w) PROVE FlowInv'
  <2>1. queue # <<>>
    BY <1>6, TakesATask
  <2>2. \A x \in Workers : x # w => wpc[x] # "block" /\ wpc[x] # "decide"
    BY <1>6 DEF LockInv, WorkerTake, WorkerHolds
  <2>3. \A x \in Workers : wpc[x] # "exited"
    BY <2>1 DEF FlowInv
  <2> QED BY <1>6, <2>2, <2>3, PoolAssumption DEF TypeOK, FlowInv, PoolAssumption, WorkerTake
<1>7. ASSUME NEW w \in Workers, WorkerFinish(w) PROVE FlowInv'
  BY <1>7, PoolAssumption DEF TypeOK, LockInv, FlowInv, PoolAssumption, WorkerFinish, history, WorkerHolds, SubmitterPcs, OwnerPcs
<1>8. ASSUME NEW s \in Submitters, NEW t \in Tasks, AddCall(s, t) PROVE FlowInv'
  BY <1>8, PoolAssumption DEF TypeOK, LockInv, FlowInv, PoolAssumption, AddCall, history, WorkerHolds, SubmitterPcs, OwnerPcs
<1>9. ASSUME NEW s \in Submitters, AddLock(s) PROVE FlowInv'
  BY <1>9, PoolAssumption DEF TypeOK, LockInv, FlowInv, PoolAssumption, AddLock, history, WorkerHolds, SubmitterPcs, OwnerPcs
<1>10. ASSUME NEW s \in Submitters, AddReject(s) PROVE FlowInv'
  BY <1>10, PoolAssumption DEF TypeOK, LockInv, FlowInv, PoolAssumption, AddReject, history, WorkerHolds, SubmitterPcs, OwnerPcs
<1>11. ASSUME NEW s \in Submitters, AddPass(s) PROVE FlowInv'
  BY <1>11, PoolAssumption DEF TypeOK, LockInv, FlowInv, PoolAssumption, AddPass, history, WorkerHolds, SubmitterPcs, OwnerPcs
<1>12. ASSUME NEW s \in Submitters, AddPush(s) PROVE FlowInv'
  BY <1>12, PoolAssumption DEF TypeOK, LockInv, FlowInv, PoolAssumption, AddPush, history, WorkerHolds, SubmitterPcs, OwnerPcs
<1>13. ASSUME NEW s \in Submitters, AddNotify(s) PROVE FlowInv'
  BY <1>13, PoolAssumption DEF TypeOK, LockInv, FlowInv, PoolAssumption, AddNotify, NotifyOne, history, WorkerHolds, SubmitterPcs, OwnerPcs
<1>14. CASE DestroyCall
  BY <1>14, PoolAssumption DEF TypeOK, LockInv, FlowInv, PoolAssumption, DestroyCall, history, WorkerHolds, SubmitterPcs, OwnerPcs
<1>15. CASE DestroyLock
  BY <1>15, PoolAssumption DEF TypeOK, LockInv, FlowInv, PoolAssumption, DestroyLock, history, WorkerHolds, SubmitterPcs, OwnerPcs
<1>16. CASE DestroyRaise
  BY <1>16, PoolAssumption DEF TypeOK, LockInv, FlowInv, PoolAssumption, DestroyRaise, history, WorkerHolds, SubmitterPcs, OwnerPcs
<1>17. CASE DestroyNotify
  BY <1>17 DEF TypeOK, FlowInv, DestroyNotify, NotifyAll, history
<1>18. CASE DestroyJoin
  BY <1>18, PoolAssumption DEF TypeOK, LockInv, FlowInv, PoolAssumption, DestroyJoin, history, WorkerHolds, SubmitterPcs, OwnerPcs
<1>19. CASE DestroyMembers
  BY <1>19, PoolAssumption DEF TypeOK, LockInv, FlowInv, PoolAssumption, DestroyMembers, history, WorkerHolds, SubmitterPcs, OwnerPcs
<1>20. CASE UNCHANGED vars
  BY <1>20, PoolAssumption DEF TypeOK, LockInv, FlowInv, PoolAssumption, vars, history, WorkerHolds, SubmitterPcs, OwnerPcs
<1> QED
  BY <1>1, <1>2, <1>3, <1>4, <1>5, <1>6, <1>7, <1>8, <1>9, <1>10, <1>11, <1>12, <1>13, <1>14, <1>15, <1>16, <1>17, <1>18, <1>19, <1>20
     DEF Next, WorkerStep, AddStep, DestroyStep

LEMMA OrderStep == TypeOK /\ LocalInv /\ FlowInv /\ StartedInOrder /\ [Next]_vars => StartedInOrder'
<1> SUFFICES ASSUME TypeOK, LocalInv, FlowInv, StartedInOrder, [Next]_vars PROVE StartedInOrder'
  OBVIOUS
<1>1. ASSUME NEW w \in Workers, WorkerTake(w) PROVE StartedInOrder'
  <2>1. queue # <<>> /\ Front = Head(queue) /\ Popped = Tail(queue)
    BY <1>1, TakesATask
  <2>2. Append(started, Head(queue)) \o Tail(queue) = started \o queue
    BY <2>1, TakeKeepsOrder DEF TypeOK
  <2> QED BY <1>1, <2>1, <2>2 DEF StartedInOrder, WorkerTake
<1>2. ASSUME NEW s \in Submitters, AddPush(s) PROVE StartedInOrder'
  <2>1. adding[s] \in Tasks
    BY <1>2 DEF TypeOK, LocalInv, AddPush
  <2>2. accepted \in Seq(Tasks) /\ started \in Seq(Tasks) /\ queue \in Seq(Tasks)
    BY DEF TypeOK
  <2>3. accepted = started \o queue
    BY DEF StartedInOrder
  <2>4. Append(accepted, adding[s]) = started \o Append(queue, adding[s])
    BY <2>1, <2>2, <2>3, PushKeepsOrder
  <2> QED BY <1>2, <2>4 DEF StartedInOrder, AddPush
<1>3. CASE UNCHANGED <<queue, accepted, started>>
  BY <1>3 DEF StartedInOrder
<1> QED
  BY <1>1, <1>2, <1>3
     DEF Next, WorkerStep, AddStep, DestroyStep, vars, history,
         WorkerLock, WorkerCheck, WorkerBlock, WorkerSpurious, WorkerExit, WorkerFinish,
         AddCall, AddLock, AddReject, AddPass, AddNotify,
         DestroyCall, DestroyLock, DestroyRaise, DestroyNotify, DestroyJoin, DestroyMembers

LEMMA TakenStep == TypeOK /\ LocalInv /\ FlowInv /\ TakenInv /\ [Next]_vars => TakenInv'
<1> SUFFICES ASSUME TypeOK, LocalInv, FlowInv, TakenInv, [Next]_vars PROVE TakenInv'
  OBVIOUS
<1> DEFINE Runners == {x \in Workers : wpc[x] = "run"}
<1>1. ASSUME NEW w \in Workers, WorkerTake(w) PROVE TakenInv'
  <2>3. Front \in Tasks /\ started \in Seq(Tasks)
    BY <1>1, TakesATask, HeadTailProperties DEF TypeOK
  <2>1. Elems(started)' = Elems(started) \cup {Front}
    <3>1. started' = Append(started, Front)
      BY <1>1 DEF WorkerTake
    <3>2. Elems(Append(started, Front)) = Elems(started) \cup {Front}
      BY <2>3, ElemsAppend
    <3> QED BY <3>1, <3>2 DEF Elems
  <2>2. Running' = Running \cup {Front}
    BY <1>1 DEF TypeOK, WorkerTake, Running
  <2> QED BY <1>1, <2>1, <2>2 DEF TakenInv, WorkerTake
<1>2. ASSUME NEW w \in Workers, WorkerFinish(w) PROVE TakenInv'
  <2>1. Elems(started)' = Elems(started)
    BY <1>2 DEF WorkerFinish, Elems
  <2>2. finished' \cup Running' = finished \cup Running
    BY <1>2 DEF TypeOK, WorkerFinish, Running
  <2> QED BY <2>1, <2>2 DEF TakenInv
<1>3. CASE UNCHANGED <<current, started, finished>> /\ Runners' = Runners
  BY <1>3 DEF TakenInv, Running, Elems
<1>4. ASSUME UNCHANGED wpc PROVE Runners' = Runners
  BY <1>4
<1>5. ASSUME NEW w \in Workers, WorkerLock(w) \/ WorkerCheck(w) \/ WorkerBlock(w) \/ WorkerSpurious(w) \/ WorkerExit(w)
      PROVE  Runners' = Runners
  BY <1>5 DEF TypeOK, WorkerLock, WorkerCheck, WorkerBlock, WorkerSpurious, WorkerExit
<1>6. ASSUME NEW s \in Submitters, AddNotify(s) PROVE Runners' = Runners
  BY <1>6 DEF TypeOK, AddNotify, NotifyOne
<1>7. CASE DestroyNotify
  <2>1. Runners' = Runners
    BY <1>7 DEF TypeOK, DestroyNotify, NotifyAll
  <2> QED BY <1>3, <1>7, <2>1 DEF DestroyNotify, history
<1> QED
  BY <1>1, <1>2, <1>3, <1>4, <1>5, <1>6, <1>7
     DEF Next, WorkerStep, AddStep, DestroyStep, vars, history,
         WorkerLock, WorkerCheck, WorkerBlock, WorkerSpurious, WorkerExit,
         AddCall, AddLock, AddReject, AddPass, AddPush, AddNotify,
         DestroyCall, DestroyLock, DestroyRaise, DestroyJoin, DestroyMembers

LEMMA IInvInit == Init => IInv
<1> SUFFICES ASSUME Init PROVE IInv
  OBVIOUS
<1>1. LocalInv /\ LockInv /\ FlowInv
  BY PoolAssumption DEF Init, LocalInv, LockInv, FlowInv, PoolAssumption, WorkerHolds
<1>2. StartedInOrder
  BY DEF Init, StartedInOrder
<1>3. TakenInv
  BY DEF Init, TakenInv, Elems, Running
<1> QED BY TypeInit, <1>1, <1>2, <1>3 DEF IInv

LEMMA IInvStep == IInv /\ [Next]_vars => IInv'
  BY TypeStep, LocalStep, LockStep, FlowStep, OrderStep, TakenStep DEF IInv

\* The inductive invariant holds of every behaviour.
THEOREM Invariant == Spec => []IInv
  BY IInvInit, IInvStep, PTL DEF Spec

-----------------------------------------------------------------------------
(* The properties.                                                          *)

\* The members of ThreadPool and the threads' local state keep their types.
THEOREM TypeCorrect == Spec => []TypeOK
<1>1. IInv => TypeOK
  BY DEF IInv
<1> QED BY Invariant, <1>1, PTL

\* FIFO and exactly once: tasks start in the order Add accepted them, and what
\* has not started is still queued (ThreadPool.cpp:26-27, ThreadPool.h:60).
THEOREM FifoExactlyOnce == Spec => []StartedInOrder
<1>1. IInv => StartedInOrder
  BY DEF IInv
<1> QED BY Invariant, <1>1, PTL

\* A joined worker has seen stop_ with an empty queue.
LEMMA DrainedWhenJoined == IInv => JoinedMeansDrained
<1> SUFFICES ASSUME IInv, opc \in {"joined", "gone"}
             PROVE  queue = <<>> /\ Elems(accepted) = finished
  BY DEF JoinedMeansDrained
<1>1. \A w \in Workers : wpc[w] = "exited"
  BY DEF IInv, FlowInv
<1>2. queue = <<>>
  BY <1>1, PoolAssumption DEF IInv, FlowInv, PoolAssumption
<1>3. accepted = started
  BY <1>2 DEF IInv, TypeOK, StartedInOrder
<1>4. Running = {}
  BY <1>1 DEF Running
<1> QED BY <1>2, <1>3, <1>4 DEF IInv, TakenInv

\* ~ThreadPool leaves no accepted task behind (ThreadPool.cpp:23-25, 35-46).
THEOREM DestructorDrains == Spec => []JoinedMeansDrained
BY Invariant, DrainedWhenJoined, PTL

\* The test of stop_ and the emplace are atomic with respect to the
\* destructor's store (ThreadPool.h:55-60).
THEOREM StoppedPoolAcceptsNothing == Spec => NoAcceptAfterStop
<1>1. IInv /\ [Next]_vars => [stop => accepted' = accepted]_vars
  <2> SUFFICES ASSUME IInv, Next, stop PROVE accepted' = accepted
    BY DEF vars
  <2>1. ASSUME NEW s \in Submitters, AddPush(s) PROVE FALSE
    BY <2>1 DEF IInv, FlowInv, AddPush
  <2> QED
    BY <2>1
       DEF Next, WorkerStep, AddStep, DestroyStep, history,
           WorkerLock, WorkerCheck, WorkerBlock, WorkerSpurious, WorkerExit, WorkerTake,
           WorkerFinish, AddCall, AddLock, AddReject, AddPass, AddNotify,
           DestroyCall, DestroyLock, DestroyRaise, DestroyNotify, DestroyJoin, DestroyMembers
<1> QED BY Invariant, <1>1, PTL DEF Spec, NoAcceptAfterStop

-----------------------------------------------------------------------------
(* No lost wake-up.                                                         *)

Sleeping == \E w \in Workers : wpc[w] = "waiting"

LEMMA CountsAreNat ==
  /\ IsFiniteSet(Awake) /\ Cardinality(Awake) \in Nat
  /\ IsFiniteSet(Notifying) /\ Cardinality(Notifying) \in Nat
  /\ IsFiniteSet(Awake') /\ Cardinality(Awake') \in Nat
  /\ IsFiniteSet(Notifying') /\ Cardinality(Notifying') \in Nat
<1>1. /\ Awake \in SUBSET Workers /\ Notifying \in SUBSET Submitters
      /\ Awake' \in SUBSET Workers /\ Notifying' \in SUBSET Submitters
  BY DEF Awake, Notifying
<1>2. /\ IsFiniteSet(Awake) /\ IsFiniteSet(Notifying)
      /\ IsFiniteSet(Awake') /\ IsFiniteSet(Notifying')
  BY <1>1, FS_Subset, PoolAssumption DEF PoolAssumption
<1> QED BY <1>2, FS_CardinalityType

LEMMA WakeStep == IInv /\ NoLostWakeup /\ [Next]_vars => NoLostWakeup'
<1> SUFFICES ASSUME IInv, NoLostWakeup, [Next]_vars, Sleeping'
             PROVE  Len(queue') <= Cardinality(Awake') + Cardinality(Notifying')
  BY DEF NoLostWakeup, Sleeping
<1> DEFINE Goal == Len(queue') <= Cardinality(Awake') + Cardinality(Notifying')
<1>1. queue \in Seq(Tasks) /\ Len(queue) \in Nat
  BY DEF IInv, TypeOK
<1>2. Sleeping => Len(queue) <= Cardinality(Awake) + Cardinality(Notifying)
  BY DEF NoLostWakeup, Sleeping
<1>3. ASSUME queue' = <<>> PROVE Goal
  BY <1>3, CountsAreNat
<1>4. ASSUME UNCHANGED queue, Sleeping, Awake' = Awake, Notifying' = Notifying PROVE Goal
  BY <1>4, <1>2
<1>5. ASSUME UNCHANGED wpc PROVE Sleeping /\ Awake' = Awake
  BY <1>5 DEF Sleeping, Awake
<1>6. ASSUME UNCHANGED spc PROVE Notifying' = Notifying
  BY <1>6 DEF Notifying
<1>7. ASSUME NEW w \in Workers, WorkerLock(w) PROVE Goal
  <2>1. Sleeping /\ Awake' = Awake
    BY <1>7 DEF IInv, TypeOK, WorkerLock, Sleeping, Awake
  <2> QED BY <1>4, <1>6, <1>7, <2>1 DEF WorkerLock
<1>8. ASSUME NEW w \in Workers, WorkerCheck(w) PROVE Goal
  <2>1. CASE Ready
    <3>1. Sleeping /\ Awake' = Awake
      BY <1>8, <2>1 DEF IInv, TypeOK, WorkerCheck, Sleeping, Awake
    <3> QED BY <1>4, <1>6, <1>8, <3>1 DEF WorkerCheck
  <2>2. CASE ~Ready
    BY <1>3, <1>8, <2>2 DEF WorkerCheck, Ready
  <2> QED BY <2>1, <2>2
<1>9. ASSUME NEW w \in Workers, WorkerBlock(w) PROVE Goal
  BY <1>3, <1>9 DEF IInv, FlowInv, WorkerBlock
<1>10. ASSUME NEW w \in Workers, WorkerExit(w) PROVE Goal
  BY <1>3, <1>10 DEF WorkerExit, MayExit
<1>11. ASSUME NEW w \in Workers, WorkerSpurious(w) \/ WorkerFinish(w) PROVE Goal
  <2>1. Awake' = Awake \cup {w} /\ w \notin Awake /\ Sleeping
    BY <1>11 DEF IInv, TypeOK, WorkerSpurious, WorkerFinish, Awake, Sleeping
  <2>2. Cardinality(Awake') = Cardinality(Awake) + 1
    BY <2>1, CountsAreNat, FS_AddElement
  <2>3. Notifying' = Notifying /\ queue' = queue
    BY <1>6, <1>11 DEF WorkerSpurious, WorkerFinish
  <2> QED BY <1>1, <1>2, <2>1, <2>2, <2>3, CountsAreNat
<1>12. ASSUME NEW w \in Workers, WorkerTake(w) PROVE Goal
  <2>1. Awake' = Awake \ {w} /\ w \in Awake /\ Sleeping
    BY <1>12 DEF IInv, TypeOK, WorkerTake, Awake, Sleeping
  <2>2. Cardinality(Awake') = Cardinality(Awake) - 1
    BY <2>1, CountsAreNat, FS_RemoveElement
  <2>3. Len(queue') = Len(queue) - 1
    <3>1. queue # <<>> /\ Popped = Tail(queue)
      BY <1>12, TakesATask DEF IInv
    <3> QED BY <1>1, <1>12, <3>1, HeadTailProperties DEF WorkerTake
  <2>4. Notifying' = Notifying
    BY <1>6, <1>12 DEF WorkerTake
  <2> QED BY <1>1, <1>2, <2>1, <2>2, <2>3, <2>4, CountsAreNat
<1>13. ASSUME NEW s \in Submitters, NEW t \in Tasks, AddCall(s, t) PROVE Goal
  <2>1. Notifying' = Notifying
    BY <1>13 DEF IInv, TypeOK, AddCall, Notifying
  <2> QED BY <1>4, <1>5, <1>13, <2>1 DEF AddCall
<1>14. ASSUME NEW s \in Submitters, AddLock(s) \/ AddReject(s) \/ AddPass(s) PROVE Goal
  <2>1. Notifying' = Notifying
    BY <1>14 DEF IInv, TypeOK, AddLock, AddReject, AddPass, Notifying
  <2> QED BY <1>4, <1>5, <1>14, <2>1 DEF AddLock, AddReject, AddPass
<1>15. ASSUME NEW s \in Submitters, AddPush(s) PROVE Goal
  <2>1. Notifying' = Notifying \cup {s} /\ s \notin Notifying
    BY <1>15 DEF IInv, TypeOK, AddPush, Notifying
  <2>2. Cardinality(Notifying') = Cardinality(Notifying) + 1
    BY <2>1, CountsAreNat, FS_AddElement
  <2>3. Len(queue') = Len(queue) + 1
    BY <1>1, <1>15 DEF IInv, TypeOK, LocalInv, AddPush
  <2> QED BY <1>1, <1>2, <1>5, <1>15, <2>2, <2>3, CountsAreNat DEF AddPush
<1>16. ASSUME NEW s \in Submitters, AddNotify(s) PROVE Goal
  <2>1. Notifying' = Notifying \ {s} /\ s \in Notifying
    BY <1>16 DEF IInv, TypeOK, AddNotify, Notifying
  <2>2. Cardinality(Notifying') = Cardinality(Notifying) - 1
    BY <2>1, CountsAreNat, FS_RemoveElement
  <2>3. PICK w \in Workers : wpc[w] = "waiting" /\ wpc' = [wpc EXCEPT ![w] = "woken"]
    BY <1>16 DEF AddNotify, NotifyOne, Sleeping
  <2>4. Awake' = Awake \cup {w} /\ w \notin Awake /\ Sleeping
    BY <2>3 DEF IInv, TypeOK, Awake, Sleeping
  <2>5. Cardinality(Awake') = Cardinality(Awake) + 1
    BY <2>4, CountsAreNat, FS_AddElement
  <2>6. queue' = queue
    BY <1>16 DEF AddNotify
  <2> QED BY <1>1, <1>2, <2>2, <2>4, <2>5, <2>6, CountsAreNat
<1>17. CASE DestroyNotify
  BY <1>17 DEF IInv, TypeOK, DestroyNotify, NotifyAll, Sleeping
<1>18. CASE UNCHANGED <<wpc, spc, queue>>
  BY <1>4, <1>5, <1>6, <1>18
<1> QED
  BY <1>7, <1>8, <1>9, <1>10, <1>11, <1>12, <1>13, <1>14, <1>15, <1>16, <1>17, <1>18
     DEF Next, WorkerStep, AddStep, DestroyStep, vars,
         DestroyCall, DestroyLock, DestroyRaise, DestroyJoin, DestroyMembers

\* One notify_one per Add is enough: while a worker sleeps, every queued task
\* has a worker or a notification on its way (ThreadPool.h:62, ThreadPool.cpp:22).
THEOREM EveryTaskIsAttended == Spec => []NoLostWakeup
<1>1. Init => NoLostWakeup
  BY CountsAreNat DEF Init, NoLostWakeup
<1>2. IInv /\ NoLostWakeup /\ [Next]_vars => NoLostWakeup'
  BY WakeStep
<1> QED BY Invariant, <1>1, <1>2, PTL DEF Spec

-----------------------------------------------------------------------------
(* ThreadPool implements TaskPool: every step of the workers, of Add and    *)
(* of the destructor is a step of the caller's view, or none.  What has to  *)
(* be added to the invariant is that no task is in two places: not offered  *)
(* twice, not run by two workers, not run again after it finished.          *)

\* Add has enqueued no task twice.
Distinct ==
  \A i, j \in 1..Len(accepted) : accepted[i] = accepted[j] => i = j

\* A task still on its way into the queue is new, and one submitter's only.
Fresh ==
  \A s \in Submitters : adding[s] # None =>
    /\ adding[s] \notin Elems(accepted)
    /\ \A u \in Submitters : adding[u] = adding[s] => u = s

\* A task that is being run is run by one worker and has not finished.
OneRunner ==
  \A w \in Workers : current[w] # None =>
    /\ current[w] \notin finished
    /\ \A x \in Workers : current[x] = current[w] => x = w

OnceInv == Distinct /\ Fresh /\ OneRunner

-----------------------------------------------------------------------------
(* The head of the queue is none of the tasks taken so far.                 *)
LEMMA HeadIsNew ==
  ASSUME IInv, Distinct, queue # <<>>
  PROVE  Head(queue) \notin finished \cup Running
<1>1. /\ started \in Seq(Tasks) /\ queue \in Seq(Tasks) /\ accepted = started \o queue
      /\ Len(started) \in Nat /\ Len(queue) \in Nat /\ Len(queue) > 0
  BY DEF IInv, TypeOK, StartedInOrder
<1>2. /\ Len(accepted) = Len(started) + Len(queue)
      /\ \A i \in 1..Len(started) + Len(queue) :
           accepted[i] = IF i <= Len(started) THEN started[i] ELSE queue[i - Len(started)]
  BY <1>1, ConcatProperties
<1>3. accepted[Len(started) + 1] = Head(queue)
  BY <1>1, <1>2
<1>4. ASSUME NEW i \in 1..Len(started) PROVE started[i] # Head(queue)
  <2>1. /\ i \in 1..Len(accepted) /\ Len(started) + 1 \in 1..Len(accepted)
        /\ i # Len(started) + 1 /\ accepted[i] = started[i]
    BY <1>1, <1>2
  <2> QED BY <1>3, <2>1 DEF Distinct
<1>5. Head(queue) \notin Elems(started)
  BY <1>4 DEF Elems
<1> QED BY <1>5 DEF IInv, TakenInv

\* What is queued, running or finished was accepted.
LEMMA AcceptedAll ==
  ASSUME IInv
  PROVE  /\ finished \cup Running \subseteq Elems(accepted)
         /\ \A i \in 1..Len(queue) : queue[i] \in Elems(accepted)
<1>1. /\ started \in Seq(Tasks) /\ queue \in Seq(Tasks) /\ accepted = started \o queue
      /\ Len(started) \in Nat /\ Len(queue) \in Nat
  BY DEF IInv, TypeOK, StartedInOrder
<1>2. /\ Len(accepted) = Len(started) + Len(queue)
      /\ \A i \in 1..Len(started) + Len(queue) :
           accepted[i] = IF i <= Len(started) THEN started[i] ELSE queue[i - Len(started)]
  BY <1>1, ConcatProperties
<1>3. ASSUME NEW i \in 1..Len(started) PROVE started[i] \in Elems(accepted)
  <2>1. i \in 1..Len(accepted) /\ accepted[i] = started[i]
    BY <1>1, <1>2
  <2> QED BY <2>1 DEF Elems
<1>4. ASSUME NEW i \in 1..Len(queue) PROVE queue[i] \in Elems(accepted)
  <2>1. /\ Len(started) + i \in 1..Len(accepted)
        /\ accepted[Len(started) + i] = queue[i]
    BY <1>1, <1>2
  <2> QED BY <2>1 DEF Elems
<1>5. Elems(started) \subseteq Elems(accepted)
  BY <1>3 DEF Elems
<1> QED BY <1>4, <1>5 DEF IInv, TakenInv

-----------------------------------------------------------------------------
LEMMA OnceInit == Init => OnceInv
BY DEF Init, OnceInv, Distinct, Fresh, OneRunner

LEMMA OnceStep == IInv /\ OnceInv /\ [Next]_vars => OnceInv'
<1> SUFFICES ASSUME IInv, OnceInv, [Next]_vars PROVE OnceInv'
  OBVIOUS
<1> USE DEF OnceInv
<1>1. ASSUME NEW s \in Submitters, NEW t \in Tasks, AddCall(s, t) PROVE OnceInv'
  <2>1. /\ t \notin Elems(accepted) /\ t # None
        /\ \A u \in Submitters : adding[u] # t
        /\ adding' = [adding EXCEPT ![s] = t]
        /\ UNCHANGED <<accepted, current, finished>>
    BY <1>1, PoolAssumption DEF PoolAssumption, AddCall, Offered, history
  <2>2. Fresh'
    BY <2>1 DEF IInv, TypeOK, Fresh, Elems
  <2> QED BY <2>1, <2>2 DEF Distinct, OneRunner
<1>2. ASSUME NEW s \in Submitters, AddReject(s) PROVE OnceInv'
  <2>1. /\ adding' = [adding EXCEPT ![s] = None]
        /\ UNCHANGED <<accepted, current, finished>>
    BY <1>2 DEF AddReject
  <2>2. Fresh'
    BY <2>1 DEF IInv, TypeOK, Fresh, Elems
  <2> QED BY <2>1, <2>2 DEF Distinct, OneRunner
<1>3. ASSUME NEW s \in Submitters, AddPush(s) PROVE OnceInv'
  <2>1. /\ adding[s] \in Tasks /\ adding[s] # None /\ adding[s] \notin Elems(accepted)
        /\ accepted \in Seq(Tasks)
    BY <1>3 DEF AddPush, IInv, TypeOK, LocalInv, Fresh
  <2>2. /\ accepted' = Append(accepted, adding[s])
        /\ adding' = [adding EXCEPT ![s] = None]
        /\ UNCHANGED <<current, finished>>
    BY <1>3 DEF AddPush
  <2>3. Elems(accepted)' = Elems(accepted) \cup {adding[s]}
    BY <2>1, <2>2, ElemsAppend
  <2>4. Fresh'
    BY <2>2, <2>3 DEF IInv, TypeOK, Fresh
  <2>5. Distinct'
    <3>1. /\ Len(accepted') = Len(accepted) + 1 /\ Len(accepted) \in Nat
          /\ \A i \in 1..Len(accepted) : accepted'[i] = accepted[i]
          /\ accepted'[Len(accepted) + 1] = adding[s]
      BY <2>1, <2>2, AppendProperties
    <3>2. \A i \in 1..Len(accepted) : accepted[i] # adding[s]
      BY <2>1 DEF Elems
    <3>3. \A i \in 1..Len(accepted') : i \in 1..Len(accepted) \/ i = Len(accepted) + 1
      BY <3>1
    <3> QED BY <3>1, <3>2, <3>3 DEF Distinct
  <2> QED BY <2>2, <2>4, <2>5 DEF OneRunner
<1>4. ASSUME NEW w \in Workers, WorkerTake(w) PROVE OnceInv'
  <2>1. queue # <<>> /\ Front = Head(queue)
    BY <1>4, TakesATask DEF IInv
  <2>2. Head(queue) \notin finished \cup Running
    BY <2>1, HeadIsNew
  <2>3. /\ current' = [current EXCEPT ![w] = Head(queue)]
        /\ UNCHANGED <<accepted, adding, finished>>
    BY <1>4, <2>1 DEF WorkerTake
  <2>4. \A x \in Workers : current[x] # None => current[x] \in Running
    BY DEF IInv, LocalInv, Running
  <2>5. Head(queue) # None
    BY <2>1, PoolAssumption DEF PoolAssumption, IInv, TypeOK
  <2>6. \A x \in Workers : current[x] # Head(queue)
    BY <2>2, <2>4, <2>5
  <2>7. OneRunner'
    BY <2>2, <2>3, <2>6 DEF IInv, TypeOK, OneRunner
  <2> QED BY <2>3, <2>7 DEF Distinct, Fresh, Elems
<1>5. ASSUME NEW w \in Workers, WorkerFinish(w) PROVE OnceInv'
  <2>1. current[w] # None
    BY <1>5 DEF IInv, LocalInv, WorkerFinish
  <2>2. /\ current' = [current EXCEPT ![w] = None]
        /\ finished' = finished \cup {current[w]}
        /\ UNCHANGED <<accepted, adding>>
    BY <1>5 DEF WorkerFinish
  <2>3. OneRunner'
    BY <2>1, <2>2 DEF IInv, TypeOK, OneRunner
  <2> QED BY <2>2, <2>3 DEF Distinct, Fresh, Elems
<1>6. CASE UNCHANGED <<accepted, adding, current, finished>>
  BY <1>6 DEF Distinct, Fresh, OneRunner, Elems
<1> QED
  BY <1>1, <1>2, <1>3, <1>4, <1>5, <1>6
     DEF Next, WorkerStep, AddStep, DestroyStep, vars, history,
         WorkerLock, WorkerCheck, WorkerBlock, WorkerSpurious, WorkerExit,
         AddLock, AddPass, AddNotify, DestroyCall, DestroyLock, DestroyRaise,
         DestroyNotify, DestroyJoin, DestroyMembers

-----------------------------------------------------------------------------
(* The mapping.                                                             *)

\* A worker that is about to take a task is not running one, so the others
\* run fewer tasks than there are workers.
LEMMA OneWorkerIsFree ==
  ASSUME NEW w \in Workers, wpc[w] # "run"
  PROVE  Cardinality(Running) < Cardinality(Workers)
<1> DEFINE Busy == {x \in Workers : wpc[x] = "run"}
           f == [x \in Busy |-> current[x]]
<1>1. /\ Busy \in SUBSET (Workers \ {w})
      /\ IsFiniteSet(Workers) /\ Running = {current[x] : x \in Busy}
  BY PoolAssumption DEF PoolAssumption, Running
<1>2. /\ IsFiniteSet(Workers \ {w})
      /\ Cardinality(Workers \ {w}) = Cardinality(Workers) - 1
  BY <1>1, FS_RemoveElement
<1>3. IsFiniteSet(Busy) /\ Cardinality(Busy) <= Cardinality(Workers \ {w})
  BY <1>1, <1>2, FS_Subset
<1>4. f \in Surjection(Busy, Running)
  BY <1>1 DEF Surjection
<1>5. IsFiniteSet(Running) /\ Cardinality(Running) <= Cardinality(Busy)
  BY <1>3, <1>4, FS_Surjection
<1>6. /\ Cardinality(Running) \in Nat /\ Cardinality(Busy) \in Nat
      /\ Cardinality(Workers) \in Nat
  BY <1>1, <1>3, <1>5, FS_CardinalityType
<1> QED BY <1>2, <1>3, <1>5, <1>6

LEMMA InitMaps == Init => Abstract!AInit
BY DEF Init, Abstract!AInit, Running

LEMMA StepMaps == IInv /\ OnceInv /\ [Next]_vars => [Abstract!ANext]_(Abstract!avars)
<1> SUFFICES ASSUME IInv, OnceInv, [Next]_vars
             PROVE  Abstract!ANext \/ UNCHANGED Abstract!avars
  OBVIOUS
<1> DEFINE Same == UNCHANGED <<queue, stop, finished>>
<1>1. ASSUME Same, UNCHANGED Running, opc' = "gone" <=> opc = "gone"
      PROVE  UNCHANGED Abstract!avars
  BY <1>1 DEF Abstract!avars
<1>2. ASSUME NEW w \in Workers, WorkerTake(w) PROVE Abstract!ANext
  <2>1. queue # <<>> /\ Front = Head(queue) /\ Popped = Tail(queue)
    BY <1>2, TakesATask DEF IInv
  <2>2. Cardinality(Running) < Cardinality(Workers)
    BY <1>2, OneWorkerIsFree DEF WorkerTake
  <2>3. Running' = Running \cup {Head(queue)}
    <3>1. /\ wpc[w] # "run" /\ wpc' = [wpc EXCEPT ![w] = "run"]
          /\ current' = [current EXCEPT ![w] = Head(queue)]
      BY <1>2, <2>1 DEF WorkerTake
    <3>2. wpc'[w] = "run" /\ current'[w] = Head(queue)
      BY <3>1 DEF IInv, TypeOK
    <3>3. \A x \in Workers : x # w => wpc'[x] = wpc[x] /\ current'[x] = current[x]
      BY <3>1 DEF IInv, TypeOK
    <3> QED BY <3>1, <3>2, <3>3 DEF Running
  <2>4. queue' = Tail(queue) /\ UNCHANGED <<stop, finished, opc>>
    BY <1>2, <2>1 DEF WorkerTake
  <2>5. Abstract!Cardinality(Running) = Cardinality(Running)
    BY DEF Abstract!Cardinality, Cardinality, Abstract!IsFiniteSet, IsFiniteSet
  <2>6. Abstract!Start
    BY <2>1, <2>2, <2>3, <2>4, <2>5 DEF Abstract!Start
  <2> QED BY <2>6 DEF Abstract!ANext
<1>3. ASSUME NEW w \in Workers, WorkerFinish(w) PROVE Abstract!ANext
  <2>1. /\ wpc[w] = "run" /\ wpc' = [wpc EXCEPT ![w] = "top"]
        /\ current' = [current EXCEPT ![w] = None]
        /\ finished' = finished \cup {current[w]} /\ UNCHANGED <<queue, stop, opc>>
    BY <1>3 DEF WorkerFinish
  <2>2. current[w] \in Tasks /\ current[w] # None /\ current[w] \in Running
    BY <2>1 DEF IInv, TypeOK, LocalInv, Running
  <2>3. \A x \in Workers : x # w =>
          wpc'[x] = wpc[x] /\ current'[x] = current[x] /\ current[x] # current[w]
    BY <2>1, <2>2 DEF IInv, TypeOK, OnceInv, OneRunner
  <2>4. Running' = Running \ {current[w]}
    BY <2>1, <2>3 DEF IInv, TypeOK, Running
  <2>5. Abstract!Finish(current[w])
    BY <2>1, <2>2, <2>4 DEF Abstract!Finish
  <2> QED BY <2>2, <2>5 DEF Abstract!ANext
<1>4. ASSUME NEW s \in Submitters, AddPush(s) PROVE Abstract!ANext
  <2>1. adding[s] \in Tasks /\ adding[s] \notin Elems(accepted) /\ ~stop
    BY <1>4 DEF AddPush, IInv, TypeOK, LocalInv, FlowInv, OnceInv, Fresh
  <2>2. /\ adding[s] \notin Running \cup finished
        /\ \A i \in 1..Len(queue) : queue[i] # adding[s]
    BY <2>1, AcceptedAll
  <2>3. /\ queue' = Append(queue, adding[s])
        /\ UNCHANGED <<stop, wpc, current, finished, opc>>
    BY <1>4 DEF AddPush
  <2>4. Abstract!Accept(adding[s])
    BY <2>1, <2>2, <2>3 DEF Abstract!Accept, Running
  <2> QED BY <2>1, <2>4 DEF Abstract!ANext
<1>5. CASE DestroyRaise
  <2>1. ~stop
    BY <1>5 DEF IInv, FlowInv, DestroyRaise
  <2>2. Abstract!Shut
    BY <1>5, <2>1 DEF Abstract!Shut, DestroyRaise, Running, history
  <2> QED BY <2>2 DEF Abstract!ANext
<1>6. CASE DestroyMembers
  <2>1. stop /\ \A w \in Workers : wpc[w] = "exited"
    BY <1>6 DEF IInv, FlowInv, DestroyMembers
  <2>2. queue = <<>> /\ Running = {}
    BY <2>1, PoolAssumption DEF PoolAssumption, IInv, FlowInv, Running
  <2>3. Abstract!Disappear
    BY <1>6, <2>1, <2>2 DEF Abstract!Disappear, DestroyMembers, Running, history
  <2> QED BY <2>3 DEF Abstract!ANext
\* The rest are steps a caller does not see.
<1>7. ASSUME NEW w \in Workers,
             WorkerLock(w) \/ WorkerCheck(w) \/ WorkerBlock(w)
               \/ WorkerSpurious(w) \/ WorkerExit(w)
      PROVE  UNCHANGED Abstract!avars
  <2>1. UNCHANGED Running
    BY <1>7 DEF IInv, TypeOK, Running, WorkerLock, WorkerCheck, WorkerBlock,
                WorkerSpurious, WorkerExit
  <2> QED BY <1>1, <1>7, <2>1 DEF WorkerLock, WorkerCheck, WorkerBlock,
                                 WorkerSpurious, WorkerExit, history
<1>8. ASSUME NEW s \in Submitters, AddNotify(s) PROVE UNCHANGED Abstract!avars
  <2>1. UNCHANGED Running
    BY <1>8 DEF IInv, TypeOK, Running, AddNotify, NotifyOne
  <2> QED BY <1>1, <1>8, <2>1 DEF AddNotify, history
<1>9. ASSUME NEW s \in Submitters,
             AddLock(s) \/ AddReject(s) \/ AddPass(s) \/ \E t \in Tasks : AddCall(s, t)
      PROVE  UNCHANGED Abstract!avars
  BY <1>1, <1>9 DEF AddLock, AddReject, AddPass, AddCall, Running, history
<1>10. CASE DestroyNotify
  <2>1. UNCHANGED Running
    BY <1>10 DEF IInv, TypeOK, Running, DestroyNotify, NotifyAll
  <2> QED BY <1>1, <1>10, <2>1 DEF DestroyNotify, history
<1>11. CASE DestroyCall \/ DestroyLock \/ DestroyJoin
  BY <1>1, <1>11 DEF DestroyCall, DestroyLock, DestroyJoin, Running, history
<1>12. CASE UNCHANGED vars
  BY <1>1, <1>12 DEF vars, Running, history
<1> QED
  BY <1>2, <1>3, <1>4, <1>5, <1>6, <1>7, <1>8, <1>9, <1>10, <1>11, <1>12
     DEF Next, WorkerStep, AddStep, DestroyStep

(* The pool implements what its callers are told: tasks start in order, at most *)
(* one per worker, finish once, and the pool goes away only when all are done   *)
(* (ThreadPool.cpp and ThreadPool.h against TaskPool).                          *)
THEOREM Refinement == Spec => ImplementsTaskPool
<1>1. OnceInv /\ IInv /\ [Next]_vars => OnceInv'
  BY OnceStep
<1> QED BY Invariant, OnceInit, <1>1, InitMaps, StepMaps, PTL
        DEF Spec, ImplementsTaskPool, Abstract!ASpec
=============================================================================

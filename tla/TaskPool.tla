------------------------------- MODULE TaskPool -------------------------------
(***************************************************************************)
(* What a caller of ThreadPool (myCode/src/include/ThreadPool.h) relies    *)
(* on, without threads, locks or notifications: tasks are accepted while   *)
(* the pool is open, start in the order they were accepted, at most        *)
(* MaxRunning at a time, and the pool disappears only when it was closed   *)
(* and everything it accepted has finished.                                *)
(***************************************************************************)
EXTENDS Naturals, Sequences, FiniteSets

CONSTANTS Tasks, MaxRunning

VARIABLES
  open,     \* Add still accepts
  pending,  \* accepted and not started, oldest first
  running,  \* started and not finished
  done,     \* finished
  gone      \* the destructor has returned

avars == <<open, pending, running, done, gone>>

AInit ==
  /\ open = TRUE
  /\ pending = <<>>
  /\ running = {}
  /\ done = {}
  /\ gone = FALSE

\* A task is accepted once.
Accept(t) ==
  /\ open
  /\ t \notin running \cup done
  /\ \A i \in 1..Len(pending) : pending[i] # t
  /\ pending' = Append(pending, t)
  /\ UNCHANGED <<open, running, done, gone>>

Start ==
  /\ pending # <<>>
  /\ Cardinality(running) < MaxRunning
  /\ running' = running \cup {Head(pending)}
  /\ pending' = Tail(pending)
  /\ UNCHANGED <<open, done, gone>>

Finish(t) ==
  /\ t \in running
  /\ running' = running \ {t}
  /\ done' = done \cup {t}
  /\ UNCHANGED <<open, pending, gone>>

Shut ==
  /\ open
  /\ open' = FALSE
  /\ UNCHANGED <<pending, running, done, gone>>

Disappear ==
  /\ ~open /\ ~gone
  /\ pending = <<>> /\ running = {}
  /\ gone' = TRUE
  /\ UNCHANGED <<open, pending, running, done>>

ANext ==
  \/ \E t \in Tasks : Accept(t) \/ Finish(t)
  \/ Start \/ Shut \/ Disappear

ASpec == AInit /\ [][ANext]_avars
=============================================================================

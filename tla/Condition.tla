------------------------------ MODULE Condition ------------------------------
(***************************************************************************)
(* muduo/base/Condition.h: condition variables, for modules in which what  *)
(* a thread does between taking a mutex and releasing it or waiting is one *)
(* step.  A thread whose pc is "wait" sleeps on its condition variable; one *)
(* in "retest" was notified, or woke spuriously, and tests its condition   *)
(* again when it gets the mutex.                                           *)
(***************************************************************************)
EXTENDS Integers, FiniteSets

\* Sleeping and woken threads.
Waiting(pc) == {t \in DOMAIN pc : pc[t] = "wait"}
Retesting(pc) == {t \in DOMAIN pc : pc[t] = "retest"}

Wake(pc, t) == [pc EXCEPT ![t] = "retest"]

\* Condition::notify(): what pc may become when one of the sleeping threads, if
\* there is one, is woken.
Notified(pc) == IF Waiting(pc) = {} THEN {pc} ELSE {Wake(pc, t) : t \in Waiting(pc)}

\* Condition::notifyAll()
NotifiedAll(pc) == [t \in DOMAIN pc |-> IF pc[t] = "wait" THEN "retest" ELSE pc[t]]

\* No notification is lost: as long as a thread sleeps, each of the n things it
\* could go on with has a thread that was woken for it.
WokenFor(pc, n) == Waiting(pc) # {} => n <= Cardinality(Retesting(pc))
==============================================================================

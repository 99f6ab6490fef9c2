------------------------------ MODULE Spinlock ------------------------------
(***************************************************************************)
(* zen::spinlock (src/threading/sync/spinlock.h): one word that is 0 or 1. *)
(* lock() loads the word until it is 0, and only then tries the            *)
(* compare-and-swap; a thread that loses starts again.  Every action is    *)
(* one atomic access of the code.  The lock promises no order.             *)
(***************************************************************************)
EXTENDS FiniteSets

CONSTANTS Spinners   \* the threads that use one spinlock

VARIABLES
    locked,  \* the word locked_
    at       \* where each thread is in lock(), try_lock() or unlock()

spinVars == <<locked, at>>

Init ==
    /\ locked = 0
    /\ at = [t \in Spinners |-> "idle"]

Goto(t, label) == at' = [at EXCEPT ![t] = label]

\* lock() and try_lock() begin with the same load.
Call(t) ==
    /\ at[t] = "idle"
    /\ \E label \in {"look", "tryLook"} : Goto(t, label)
    /\ UNCHANGED locked

\* lock(): the load that must find 0 before the compare-and-swap.
Look(t) ==
    /\ at[t] = "look"
    /\ Goto(t, IF locked = 0 THEN "cas" ELSE "spin")
    /\ UNCHANGED locked

\* lock(): the inner loop ends when a load finds 0; the outer starts again.
SpinEnds(t) ==
    /\ at[t] = "spin"
    /\ locked = 0
    /\ Goto(t, "look")
    /\ UNCHANGED locked

\* Fault: the word is stored, whatever became of it since the load.
Stores(t) ==
    /\ at[t] = "cas"
    /\ locked' = 1
    /\ Goto(t, "critical")

\* lock(): cas(&locked_, 0, 1).
Cas(t) ==
    /\ at[t] = "cas"
    /\ locked' = 1
    /\ Goto(t, IF locked = 0 THEN "critical" ELSE "spin")

\* try_lock(): one load and one compare-and-swap; either may answer false.
TryLook(t) ==
    /\ at[t] = "tryLook"
    /\ Goto(t, IF locked = 0 THEN "tryCas" ELSE "idle")
    /\ UNCHANGED locked

TryCas(t) ==
    /\ at[t] = "tryCas"
    /\ locked' = 1
    /\ Goto(t, IF locked = 0 THEN "critical" ELSE "idle")

\* unlock(): memory_fence(), then the store.
Unlock(t) ==
    /\ at[t] = "critical"
    /\ locked' = 0
    /\ Goto(t, "idle")

Step(t) ==
    \/ Call(t) \/ Look(t) \/ SpinEnds(t) \/ Cas(t)
    \/ TryLook(t) \/ TryCas(t) \/ Unlock(t)

Next == \E t \in Spinners : Step(t)

\* is_locked(), from any thread.
IsLocked == locked # 0

\* At most one thread is past lock() or a successful try_lock(), and the word
\* says whether one is: a lock nobody holds is not closed for ever.
HeldByOneSpinner ==
    LET holders == {t \in Spinners : at[t] = "critical"}
    IN Cardinality(holders) = IF IsLocked THEN 1 ELSE 0
=============================================================================

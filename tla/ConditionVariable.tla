------------------------- MODULE ConditionVariable -------------------------
(***************************************************************************)
(* zen::condition_variable (src/threading/sync/condition_variable.h) with  *)
(* one mutex and one flag that the mutex protects.  Threads wait for the   *)
(* flag, with and without a timeout, and take it back when they have it;   *)
(* another sets it under the mutex and notifies afterwards.                *)
(*                                                                         *)
(* The pthread calls are what they promise: waiting releases the mutex and *)
(* falls asleep in one step; a sleeper wakes when it is notified, for no   *)
(* reason at all, or when its time is over, and takes the mutex again      *)
(* before the call returns.                                                *)
(***************************************************************************)
EXTENDS Integers, FiniteSets

CONSTANTS
    Waiters,   \* threads that wait for the flag
    Timeout,   \* timeout_ms of their timed waits
    MaxTime,   \* bound of the clock (not in the code)
    Nobody     \* the mutex is free

\* What the constants must satisfy.
ConstantsAssumption == Nobody \notin Waiters /\ Timeout \in Nat /\ MaxTime \in Nat

VARIABLES
    flag,       \* what the predicates read
    notifying,  \* the flag was set, the notification is still to come
    mutex,      \* the waiter that holds the mutex, or Nobody
    wait,       \* where each waiter is, whether it is in a wait_for(), and
                \* what it answered
    deadline,   \* when the sleep of a timed wait ends
    asked,      \* when the call it is part of should be over (history)
    now         \* the clock

cvVars == <<flag, notifying, mutex, wait, deadline, asked, now>>

Outside == [at |-> "outside", timed |-> FALSE, answer |-> FALSE]

Init ==
    /\ flag = FALSE /\ notifying = FALSE /\ mutex = Nobody /\ now = 0
    /\ wait = [w \in Waiters |-> Outside]
    /\ deadline = [w \in Waiters |-> 0]
    /\ asked = [w \in Waiters |-> 0]

Goto(w, label) == wait' = [wait EXCEPT ![w].at = label]
Return(w, answer) == wait' = [wait EXCEPT ![w].at = "returned", ![w].answer = answer]

-----------------------------------------------------------------------------
\* A thread locks the mutex and calls wait() or wait_for() with the predicate.
Enter(w, timed) ==
    /\ wait[w] = Outside /\ mutex = Nobody
    /\ mutex' = w
    /\ wait' = [wait EXCEPT ![w] = [at |-> "check", timed |-> timed, answer |-> FALSE]]
    /\ asked' = [asked EXCEPT ![w] = now + Timeout]
    /\ UNCHANGED <<flag, notifying, deadline, now>>

\* Fault: the predicate is tested once, not after every wakeup.
CheckOnce(w) ==
    /\ wait[w].at = "check"
    /\ IF flag \/ deadline[w] > 0
       THEN Return(w, TRUE) /\ UNCHANGED <<mutex, deadline>>
       ELSE /\ Goto(w, "asleep")
            /\ mutex' = Nobody
            /\ deadline' = [deadline EXCEPT ![w] = now + Timeout]
    /\ UNCHANGED <<flag, notifying, asked, now>>

\* while (!pred()): the call returns true, or sleeps, for the whole timeout.
Check(w) ==
    /\ wait[w].at = "check"
    /\ IF flag
       THEN Return(w, TRUE) /\ UNCHANGED <<mutex, deadline>>
       ELSE /\ Goto(w, "asleep")
            /\ mutex' = Nobody
            /\ deadline' = [deadline EXCEPT ![w] = now + Timeout]
    /\ UNCHANGED <<flag, notifying, asked, now>>

\* A wakeup for no reason.
WakeSpuriously(w) ==
    /\ wait[w].at = "asleep"
    /\ Goto(w, "woken")
    /\ UNCHANGED <<flag, notifying, mutex, deadline, asked, now>>

\* The inner wait_for() is over.
SleepEnds(w) ==
    /\ wait[w].at = "asleep" /\ wait[w].timed
    /\ now >= deadline[w]
    /\ Goto(w, "timedOut")
    /\ UNCHANGED <<flag, notifying, mutex, deadline, asked, now>>

\* The sleeper has the mutex again: after a wakeup the loop goes on, after the
\* timeout the predicate decides once more.
Relock(w) ==
    /\ wait[w].at \in {"woken", "timedOut"} /\ mutex = Nobody
    /\ mutex' = w
    /\ Goto(w, IF wait[w].at = "woken" THEN "check" ELSE "checkLast")
    /\ UNCHANGED <<flag, notifying, deadline, asked, now>>

CheckLast(w) ==
    /\ wait[w].at = "checkLast"
    /\ Return(w, flag)
    /\ UNCHANGED <<flag, notifying, mutex, deadline, asked, now>>

\* The thread goes on under the mutex: it takes the flag if it was answered
\* true, and unlocks.
Leave(w) ==
    /\ wait[w].at = "returned"
    /\ flag' = (flag /\ ~wait[w].answer)
    /\ mutex' = Nobody
    /\ wait' = [wait EXCEPT ![w] = Outside]
    /\ UNCHANGED <<notifying, deadline, asked, now>>

\* Another thread sets the flag in a critical section of its own.
SetFlag ==
    /\ mutex = Nobody /\ ~flag /\ ~notifying
    /\ flag' = TRUE /\ notifying' = TRUE
    /\ UNCHANGED <<mutex, wait, deadline, asked, now>>

\* notify_one() wakes one of the sleepers, if there is one.
NotifyOne ==
    /\ notifying
    /\ notifying' = FALSE
    /\ LET sleepers == {w \in Waiters : wait[w].at = "asleep"}
       IN IF sleepers = {} THEN UNCHANGED wait
          ELSE \E w \in sleepers : Goto(w, "woken")
    /\ UNCHANGED <<flag, mutex, deadline, asked, now>>

NotifyAll ==
    /\ notifying
    /\ notifying' = FALSE
    /\ wait' = [w \in Waiters |-> IF wait[w].at = "asleep" THEN [wait[w] EXCEPT !.at = "woken"] ELSE wait[w]]
    /\ UNCHANGED <<flag, mutex, deadline, asked, now>>

Tick ==
    /\ now < MaxTime
    /\ now' = now + 1
    /\ UNCHANGED <<flag, notifying, mutex, wait, deadline, asked>>

Next ==
    \/ \E w \in Waiters :
          \/ \E timed \in BOOLEAN : Enter(w, timed)
          \/ Check(w) \/ WakeSpuriously(w) \/ SleepEnds(w) \/ Relock(w) \/ CheckLast(w) \/ Leave(w)
    \/ SetFlag \/ NotifyOne \/ NotifyAll \/ Tick

-----------------------------------------------------------------------------
\* A wait returns with the mutex held and the predicate as it answered; false
\* only from a wait_for(), and not before its time.  No wakeup is lost: when
\* the flag is set and its notification given, not all who wait are asleep.
WaitsAnswerRight ==
    /\ \A w \in Waiters : wait[w].at = "returned" =>
          /\ mutex = w
          /\ wait[w].answer = flag
          /\ ~wait[w].answer => wait[w].timed /\ now >= asked[w]
    /\ flag /\ ~notifying /\ (\E w \in Waiters : wait[w].at = "asleep")
          => \E w \in Waiters : wait[w].at \notin {"asleep", "outside"}
=============================================================================

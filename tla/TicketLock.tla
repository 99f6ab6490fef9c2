----------------------------- MODULE TicketLock -----------------------------
(***************************************************************************)
(* zen::ticket_lock (src/threading/sync/spinlock.h).  Two machine words,   *)
(* next_ticket_ and serving_, are the whole lock: lock() draws a ticket    *)
(* with one fetch-and-add and spins until serving_ reaches it, try_lock()  *)
(* loads both words and tries one CAS, unlock() advances serving_.         *)
(*                                                                         *)
(* The words are ints that wrap around.  TicketMod is the number of values *)
(* a word can take (2^32 in the code), so the wrap is part of the model.   *)
(* Every action is one atomic access of the code, so two threads           *)
(* interleave between any two of them.                                     *)
(*                                                                         *)
(* MaxStale bounds the scheduler, not the code: between the load of        *)
(* next_ticket_ in try_lock() and its CAS, at most MaxStale tickets are    *)
(* drawn by others.  The CAS compares values, so a thread that slept       *)
(* through a whole cycle of TicketMod draws would be fooled by it.         *)
(***************************************************************************)
EXTENDS Integers, FiniteSets

CONSTANTS
    Threads,    \* the threads that use one lock
    TicketMod,  \* the number of values of the two counters
    MaxStale    \* draws that may pass during one try_lock()

\* Fewer threads than ticket values: otherwise next_ticket_ laps serving_.
ASSUME ThreadsAssumption == IsFiniteSet(Threads)
ASSUME ModAssumption == TicketMod \in Nat /\ Cardinality(Threads) < TicketMod
ASSUME StaleAssumption == MaxStale \in Nat /\ MaxStale < TicketMod

VARIABLES
    next_ticket,  \* the word next_ticket_
    serving,      \* the word serving_
    pc,           \* where each thread is in lock(), try_lock() or unlock()
    ticket,       \* the local my_ticket of lock(), the local ticket of try_lock()
    stale         \* draws since try_lock() loaded next_ticket_ (history)

vars == <<next_ticket, serving, pc, ticket, stale>>

Tickets == 0 .. TicketMod - 1
Labels  == {"idle", "spin", "tryServing", "tryCas", "critical"}

TypeOK ==
    /\ next_ticket \in Tickets
    /\ serving \in Tickets
    /\ pc \in [Threads -> Labels]
    /\ ticket \in [Threads -> Tickets]
    /\ stale \in [Threads -> 0 .. MaxStale]

-----------------------------------------------------------------------------
\* x + 1 in a word of TicketMod values: detail::atomic_fetch_add(.., 1).
Succ(x) == (x + 1) % TicketMod

Trying(t) == pc[t] \in {"tryServing", "tryCas"}

\* The draws seen by the try_lock() calls in progress: one more for each of
\* them, whoever draws.  A draw waits until no call is at MaxStale.
NoteDraw(self) ==
    /\ \A t \in Threads \ {self} : Trying(t) => stale[t] < MaxStale
    /\ stale' = [t \in Threads |->
                    IF t # self /\ Trying(t) THEN stale[t] + 1 ELSE stale[t]]

Init ==
    /\ next_ticket = 0
    /\ serving = 0
    /\ pc = [t \in Threads |-> "idle"]
    /\ ticket = [t \in Threads |-> 0]
    /\ stale = [t \in Threads |-> 0]

\* lock(): my_ticket = atomic_fetch_add(&next_ticket_, 1).
Draw(t) ==
    /\ pc[t] = "idle"
    /\ ticket' = [ticket EXCEPT ![t] = next_ticket]
    /\ next_ticket' = Succ(next_ticket)
    /\ pc' = [pc EXCEPT ![t] = "spin"]
    /\ NoteDraw(t)
    /\ UNCHANGED serving

\* Fault: waiting for serving_ to be at least the ticket, which is wrong after
\* a wrap.
EnterAtLeast(t) ==
    /\ pc[t] = "spin"
    /\ serving >= ticket[t]
    /\ pc' = [pc EXCEPT ![t] = "critical"]
    /\ UNCHANGED <<next_ticket, serving, ticket, stale>>

\* lock(): the load of serving_ that ends the spin.
Enter(t) ==
    /\ pc[t] = "spin"
    /\ serving = ticket[t]
    /\ pc' = [pc EXCEPT ![t] = "critical"]
    /\ UNCHANGED <<next_ticket, serving, ticket, stale>>

\* try_lock(): ticket = atomic_load(&next_ticket_).
TryLoadNext(t) ==
    /\ pc[t] = "idle"
    /\ ticket' = [ticket EXCEPT ![t] = next_ticket]
    /\ stale' = [stale EXCEPT ![t] = 0]
    /\ pc' = [pc EXCEPT ![t] = "tryServing"]
    /\ UNCHANGED <<next_ticket, serving>>

\* try_lock(): serving = atomic_load(&serving_), and the comparison of the
\* two locals.  A lock that is held or waited for answers false.
TryLoadServing(t) ==
    /\ pc[t] = "tryServing"
    /\ pc' = [pc EXCEPT ![t] = IF ticket[t] = serving THEN "tryCas" ELSE "idle"]
    /\ UNCHANGED <<next_ticket, serving, ticket, stale>>

\* Fault: a plain store instead of the compare-and-swap.
TryStore(t) ==
    /\ pc[t] = "tryCas"
    /\ next_ticket' = Succ(ticket[t])
    /\ pc' = [pc EXCEPT ![t] = "critical"]
    /\ NoteDraw(t)
    /\ UNCHANGED <<serving, ticket>>

\* try_lock(): cas(&next_ticket_, ticket, ticket + 1) succeeds, true is returned.
TryCasSucceeds(t) ==
    /\ pc[t] = "tryCas"
    /\ next_ticket = ticket[t]
    /\ next_ticket' = Succ(ticket[t])
    /\ pc' = [pc EXCEPT ![t] = "critical"]
    /\ NoteDraw(t)
    /\ UNCHANGED <<serving, ticket>>

\* try_lock(): the CAS fails, false is returned.
TryCasFails(t) ==
    /\ pc[t] = "tryCas"
    /\ next_ticket # ticket[t]
    /\ pc' = [pc EXCEPT ![t] = "idle"]
    /\ UNCHANGED <<next_ticket, serving, ticket, stale>>

\* Fault: unlock() opens the lock for the next draw, past those who wait.
UnlockPastWaiters(t) ==
    /\ pc[t] = "critical"
    /\ serving' = next_ticket
    /\ pc' = [pc EXCEPT ![t] = "idle"]
    /\ UNCHANGED <<next_ticket, ticket, stale>>

\* unlock(): memory_fence, then atomic_fetch_add(&serving_, 1).
Unlock(t) ==
    /\ pc[t] = "critical"
    /\ serving' = Succ(serving)
    /\ pc' = [pc EXCEPT ![t] = "idle"]
    /\ UNCHANGED <<next_ticket, ticket, stale>>

Step(t) ==
    \/ Draw(t) \/ Enter(t) \/ Unlock(t)
    \/ TryLoadNext(t) \/ TryLoadServing(t) \/ TryCasSucceeds(t) \/ TryCasFails(t)

Next == \E t \in Threads : Step(t)

\* A thread inside a call keeps running and leaves its critical section; no
\* thread is obliged to ask for the lock.
Fairness ==
    \A t \in Threads :
        /\ WF_vars(Enter(t))
        /\ WF_vars(Unlock(t))
        /\ WF_vars(TryLoadServing(t) \/ TryCasSucceeds(t) \/ TryCasFails(t))

Spec == Init /\ [][Next]_vars
FairSpec == Spec /\ Fairness

-----------------------------------------------------------------------------
\* How far the word b is ahead of the word a, counted with the wrap.
Ahead(a, b) == IF a <= b THEN b - a ELSE b - a + TicketMod

\* The threads that own a ticket not yet served.
Active == {t \in Threads : pc[t] \in {"spin", "critical"}}

\* No two threads are past lock() or a successful try_lock() at once, though
\* the counters wrap and try_lock() reads them in two separate loads.
MutualExclusion ==
    \A t, u \in Threads : pc[t] = "critical" /\ pc[u] = "critical" => t = u

\* The two words differ by exactly the number of threads that hold or wait:
\* no ticket is lost, drawn twice or left without an owner.  If one were,
\* the lock would stay closed for ever.
TicketsAccounted == Ahead(serving, next_ticket) = Cardinality(Active)

\* The inductive invariant behind MutualExclusion.
Owned ==
    \A t \in Active : Ahead(serving, ticket[t]) < Ahead(serving, next_ticket)
Distinct ==
    \A t, u \in Active : ticket[t] = ticket[u] => t = u
HolderServed ==
    \A t \in Threads : pc[t] = "critical" => ticket[t] = serving
StaleCounted ==
    \A t \in Threads : Trying(t) => Ahead(ticket[t], next_ticket) = stale[t]
FreshCasServed ==
    \A t \in Threads : pc[t] = "tryCas" /\ stale[t] = 0 => ticket[t] = serving

IndInv ==
    /\ TypeOK
    /\ TicketsAccounted
    /\ Owned
    /\ Distinct
    /\ HolderServed
    /\ StaleCounted
    /\ FreshCasServed

\* First come, first served: a thread that drew its ticket later never
\* enters while an earlier ticket is still waiting or held (the class comment
\* promises strict FIFO), and try_lock() never overtakes a waiting thread.
Fifo ==
    [][\A t \in Threads :
          pc[t] # "critical" /\ pc'[t] = "critical" =>
              \A u \in Active \ {t} :
                  pc[t] = "spin" /\ Ahead(serving, ticket[t]) < Ahead(serving, ticket[u])
      ]_vars

\* No starvation: a thread that drew a ticket gets the lock.
NoStarvation == \A t \in Threads : pc[t] = "spin" ~> pc[t] = "critical"
=============================================================================

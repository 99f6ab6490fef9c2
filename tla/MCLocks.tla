------------------------------ MODULE MCLocks -------------------------------
(***************************************************************************)
(* One behaviour uses one kind of object: kind says which.                 *)
(* guards: threads that share two locks, one of them recursive, each with  *)
(* two unique_lock and two shared_lock / write_lock variables and one      *)
(* lock_guard.  spin: three threads and one spinlock.  tickets: the same   *)
(* threads and one ticket_lock.  handles: three thread variables for two   *)
(* threads.  waits: two waiters on one condition_variable.                 *)
(***************************************************************************)
EXTENDS LockGuards, TLC

CONSTANTS
    Spinners,                            \* of Spinlock and TicketLock
    TicketMod, MaxStale,                 \* of TicketLock
    Handles, Ids, NoId,                  \* of Threads
    Waiters, Timeout, MaxTime, Nobody    \* of ConditionVariable

VARIABLES kind, locked, at, next_ticket, serving, pc, ticket, stale,
          handle, thread, task, reaped, joining,
          flag, notifying, mutex, wait, deadline, asked, now

spinVars   == <<locked, at>>
ticketVars == <<next_ticket, serving, pc, ticket, stale>>
handleVars == <<handle, thread, task, reaped, joining>>
waitVars   == <<flag, notifying, mutex, wait, deadline, asked, now>>

S == INSTANCE Spinlock
K == INSTANCE TicketLock WITH Threads <- Spinners
T == INSTANCE Threads
C == INSTANCE ConditionVariable

ASSUME TicketsAssumption ==
    /\ IsFiniteSet(Spinners)
    /\ TicketMod \in Nat /\ Cardinality(Spinners) < TicketMod
    /\ MaxStale \in Nat /\ MaxStale < TicketMod
ASSUME ThreadsAssumption == T!ConstantsAssumption
ASSUME ConditionAssumption == C!ConstantsAssumption

MCInit ==
    /\ kind \in {"guards", "spin", "tickets", "handles", "waits"}
    /\ Init /\ S!Init /\ K!Init /\ T!Init /\ C!Init

GuardStep  == kind = "guards"  /\ Next   /\ UNCHANGED <<kind, spinVars, ticketVars, handleVars, waitVars>>
SpinStep   == kind = "spin"    /\ S!Next /\ UNCHANGED <<kind, vars, ticketVars, handleVars, waitVars>>
TicketStep == kind = "tickets" /\ K!Next /\ UNCHANGED <<kind, vars, spinVars, handleVars, waitVars>>
HandleStep == kind = "handles" /\ T!Next /\ UNCHANGED <<kind, vars, spinVars, ticketVars, waitVars>>
WaitStep   == kind = "waits"   /\ C!Next /\ UNCHANGED <<kind, vars, spinVars, ticketVars, handleVars>>

MCNext == GuardStep \/ SpinStep \/ TicketStep \/ HandleStep \/ WaitStep
allVars == <<vars, kind, spinVars, ticketVars, handleVars, waitVars>>

MCSpec == MCInit /\ [][MCNext]_allVars

MCSymmetry ==
    Permutations(Threads) \cup Permutations(UniqueSlots) \cup Permutations(RefSlots)
-----------------------------------------------------------------------------
\* Every lock is held by as many as are bound to unlock it: a mutex, a
\* recursive_mutex and an rwlock by guards and callers, a spinlock by the
\* thread whose compare-and-swap closed it, a ticket_lock by the thread whose
\* ticket is served, every other ticket drawn belonging to a thread that spins.
LocksMatch ==
    /\ HeldByOneOwner
    /\ S!HeldByOneSpinner
    /\ K!MutualExclusion /\ K!TicketsAccounted

\* Nobody enters a ticket_lock past an earlier ticket, and its try_lock() past
\* nobody, though the counters wrap.
TicketsInOrder == K!Fifo

\* Waiting ends for a reason: a wait on a condition returns under the mutex
\* with the predicate as it answers, and a join with the thread at its end,
\* each started thread being joined or detached once.
WaitsEndRightly ==
    /\ C!WaitsAnswerRight
    /\ T!ThreadsReaped
=============================================================================

------------------------------- MODULE Future -------------------------------
(***************************************************************************)
(* zen::promise, zen::future and zen::shared_future over their             *)
(* detail::future_state objects (src/threading/future/future.h).           *)
(*                                                                         *)
(* Every variable is used by a thread of its own, except that a move or an *)
(* assignment takes two idle ones; the methods of the state lock mutex_    *)
(* (result) or ref_mutex_ (reference count), and each critical section is  *)
(* one action.  ~promise() is three of them: is_ready(), set_exception(),  *)
(* release(); the copy assignment of shared_future is two.                 *)
(*                                                                         *)
(* A state deletes itself when ref_count_ reaches 0, and a promise that is *)
(* assigned to deletes the one it had.  A step that touches a state after  *)
(* that, or deletes it under a thread that waits in it, is undefined       *)
(* behaviour: the model records the fault and the program stops there.     *)
(***************************************************************************)
EXTENDS Integers, FiniteSets

CONSTANTS
    Promises, Futures, Shareds,  \* the variables of the three types
    Programs,                    \* sets of them: the variables a program has
    States,                      \* the future_state objects
    Null,                        \* nullptr
    None                         \* no result yet

Getters == Futures \cup Shareds
Handles == Promises \cup Getters

ASSUME HandlesAssumption == IsFiniteSet(Handles)
ASSUME ProgramsAssumption == \A program \in Programs : program \subseteq Handles
ASSUME NullAssumption == Null \notin States
ASSUME NoneAssumption == None \notin {"value", "exception"}

VARIABLES
    isVoid,    \* the program uses the specialisations for void
    state,     \* the states: life, ready_ with value_ or exception_, ref_count_,
               \* whether get() moved the value out, and two histories: how often
               \* the value was handed out, how many futures get_future() made
    ptr,       \* state_ of each variable
    obtained,  \* future_obtained_ of each promise
    pc,        \* where the thread of each variable is
    fault      \* a deleted state was touched, or one deleted under a thread

vars == <<isVoid, state, ptr, obtained, pc, fault>>

Outcomes == {"value", "exception"}
Waits    == {"getting", "waiting", "waitingFor"}
NoState  == [life |-> "none", outcome |-> None, moved |-> FALSE, refs |-> 0,
             given |-> 0, futures |-> 0]

TypeOK ==
    /\ isVoid \in BOOLEAN /\ fault \in BOOLEAN
    /\ state \in [States -> [life : {"none", "alive", "released", "overwritten"},
                             outcome : Outcomes \cup {None}, moved : BOOLEAN,
                             refs : Nat, given : 0 .. 2, futures : Nat]]
    /\ ptr \in [Handles -> States \cup {Null}]
    /\ obtained \in [Promises -> BOOLEAN]
    /\ pc \in [Handles -> {"idle", "breaking", "releasing", "addingRef", "copied", "absent"} \cup Waits]

Init ==
    /\ isVoid \in BOOLEAN
    /\ \E program \in Programs :
          /\ isVoid => program \cap Shareds = {}
          /\ pc = [h \in Handles |-> IF h \in program THEN "idle" ELSE "absent"]
    /\ state = [s \in States |-> NoState]
    /\ ptr = [h \in Handles |-> Null]
    /\ obtained = [p \in Promises |-> FALSE]
    /\ fault = FALSE

Goto(h, label) == pc' = [pc EXCEPT ![h] = label]

\* The variable has a state, and its thread is in no call of it.
Idle(h) == ~fault /\ pc[h] = "idle"
Valid(h) == Idle(h) /\ ptr[h] # Null

\* A step that reads or writes the state: undefined once it is deleted.
Touch(s, step) ==
    IF state[s].life = "alive"
    THEN fault' = FALSE /\ step
    ELSE fault' = TRUE /\ UNCHANGED <<state, ptr, obtained, pc>>

-----------------------------------------------------------------------------
\* The methods of future_state, as the state they leave.

IsReady(s) == state[s].outcome # None

\* Fault: a second result replaces the first.
OutcomeReplaced(s, o) == [state EXCEPT ![s].outcome = o]

\* set_value(), set_exception(): the first stores the outcome, with
\* notify_all(); a second one throws.
OutcomeSet(s, o) == IF IsReady(s) THEN state ELSE [state EXCEPT ![s].outcome = o]

\* Fault: nobody notes that the value was moved out.
GotAgain(s) ==
    IF state[s].outcome = "value" /\ ~isVoid /\ ~state[s].moved
    THEN [state EXCEPT ![s].given = IF @ = 2 THEN 2 ELSE @ + 1] ELSE state

\* get() on a ready state: the exception is rethrown, or the value is moved
\* out; what is left is a moved-from value.
Got(s) ==
    IF state[s].outcome = "value" /\ ~isVoid /\ ~state[s].moved
    THEN [state EXCEPT ![s].moved = TRUE, ![s].given = @ + 1] ELSE state

\* Fault: the new handle is not counted.
RefForgotten(s) == state

RefAdded(s) == [state EXCEPT ![s].refs = @ + 1]

\* release(): the last reference deletes the state.
Released(s) ==
    [state EXCEPT ![s].refs = @ - 1,
                  ![s].life = IF state[s].refs = 1 THEN "released" ELSE @]

-----------------------------------------------------------------------------
\* promise(): a new state with ref_count_{1}.
MakePromise(p, s) ==
    /\ Idle(p) /\ ptr[p] = Null
    /\ state[s].life = "none"
    /\ state' = [state EXCEPT ![s].life = "alive", ![s].refs = 1]
    /\ ptr' = [ptr EXCEPT ![p] = s]
    /\ obtained' = [obtained EXCEPT ![p] = FALSE]
    /\ UNCHANGED <<isVoid, pc, fault>>

\* promise::set_value(), promise::set_exception().
SetOutcome(p, o) ==
    /\ Valid(p)
    /\ Touch(ptr[p], state' = OutcomeSet(ptr[p], o) /\ UNCHANGED <<ptr, obtained, pc>>)
    /\ UNCHANGED isVoid

\* promise::get_future(), once for each promise variable.  The future takes
\* the pointer as it is: the reference count is not changed.
GetFuture(p, f) ==
    /\ Valid(p) /\ ~obtained[p]
    /\ Idle(f) /\ ptr[f] = Null
    /\ obtained' = [obtained EXCEPT ![p] = TRUE]
    /\ ptr' = [ptr EXCEPT ![f] = ptr[p]]
    /\ state' = [state EXCEPT ![ptr[p]].futures = @ + 1]
    /\ UNCHANGED <<isVoid, pc, fault>>

\* promise(promise&&): future_obtained_ starts as false again.
MovePromise(from, to) ==
    /\ Valid(from) /\ Idle(to) /\ ptr[to] = Null
    /\ ptr' = [ptr EXCEPT ![to] = ptr[from], ![from] = Null]
    /\ obtained' = [obtained EXCEPT ![to] = FALSE]
    /\ UNCHANGED <<isVoid, state, pc, fault>>

\* promise::operator=: delete state_, whoever refers to it, and no broken
\* promise; future_obtained_ stays what it was.
AssignPromise(from, to) ==
    /\ from # to
    /\ Idle(from) /\ Valid(to)
    /\ IF \E h \in Getters : ptr[h] = ptr[to] /\ pc[h] \in Waits
       THEN fault' = TRUE /\ UNCHANGED <<state, ptr>>
       ELSE Touch(ptr[to], /\ state' = [state EXCEPT ![ptr[to]].life = "overwritten"]
                           /\ ptr' = [ptr EXCEPT ![to] = ptr[from], ![from] = Null])
    /\ UNCHANGED <<isVoid, obtained, pc>>

\* Fault: the promise is dropped silently.
DestroySilently(p) ==
    /\ Valid(p)
    /\ Touch(ptr[p], Goto(p, "releasing") /\ UNCHANGED <<state, ptr, obtained>>)
    /\ UNCHANGED isVoid

\* ~promise(): is_ready() decides whether a broken promise is reported.
DestroyPromise(p) ==
    /\ Valid(p)
    /\ Touch(ptr[p], /\ Goto(p, IF IsReady(ptr[p]) THEN "releasing" ELSE "breaking")
                     /\ UNCHANGED <<state, ptr, obtained>>)
    /\ UNCHANGED isVoid

\* ~promise(): set_exception(broken_promise).
BreakPromise(p) ==
    /\ ~fault /\ pc[p] = "breaking"
    /\ Touch(ptr[p], /\ state' = OutcomeSet(ptr[p], "exception")
                     /\ Goto(p, "releasing")
                     /\ UNCHANGED <<ptr, obtained>>)
    /\ UNCHANGED isVoid

\* ~promise(): release().
ReleasePromise(p) ==
    /\ ~fault /\ pc[p] = "releasing"
    /\ Touch(ptr[p], /\ state' = Released(ptr[p])
                     /\ ptr' = [ptr EXCEPT ![p] = Null]
                     /\ obtained' = [obtained EXCEPT ![p] = FALSE]
                     /\ Goto(p, "idle"))
    /\ UNCHANGED isVoid

-----------------------------------------------------------------------------
\* get(), wait() and wait_for() of a future or shared_future: a ready state is
\* answered at once, else the thread waits.
Ask(h, how) ==
    /\ Valid(h)
    /\ Touch(ptr[h], /\ IF IsReady(ptr[h])
                        THEN /\ state' = IF how = "getting" THEN Got(ptr[h]) ELSE state
                             /\ UNCHANGED pc
                        ELSE Goto(h, how) /\ UNCHANGED state
                     /\ UNCHANGED <<ptr, obtained>>)
    /\ UNCHANGED isVoid

Answer(h) ==
    /\ ~fault /\ pc[h] \in Waits
    /\ IsReady(ptr[h])
    /\ Touch(ptr[h], /\ state' = IF pc[h] = "getting" THEN Got(ptr[h]) ELSE state
                     /\ Goto(h, "idle")
                     /\ UNCHANGED <<ptr, obtained>>)
    /\ UNCHANGED isVoid

\* wait_for(): the time is over.
TimeOut(h) ==
    /\ ~fault /\ pc[h] = "waitingFor"
    /\ Touch(ptr[h], Goto(h, "idle") /\ UNCHANGED <<state, ptr, obtained>>)
    /\ UNCHANGED isVoid

\* future(future&&), shared_future(shared_future&&).
MoveGetter(from, to) ==
    /\ Valid(from) /\ Idle(to) /\ ptr[to] = Null
    /\ ptr' = [ptr EXCEPT ![to] = ptr[from], ![from] = Null]
    /\ UNCHANGED <<isVoid, state, obtained, pc, fault>>

\* ~future(), ~shared_future(); and the move assignments, which release what
\* the target has and take over what the source has.
DestroyGetter(h) ==
    /\ Valid(h)
    /\ Touch(ptr[h], /\ state' = Released(ptr[h])
                     /\ ptr' = [ptr EXCEPT ![h] = Null]
                     /\ UNCHANGED <<obtained, pc>>)
    /\ UNCHANGED isVoid

AssignGetter(from, to) ==
    /\ from # to
    /\ Idle(from) /\ Valid(to)
    /\ Touch(ptr[to], /\ state' = Released(ptr[to])
                      /\ ptr' = [ptr EXCEPT ![to] = ptr[from], ![from] = Null]
                      /\ UNCHANGED <<obtained, pc>>)
    /\ UNCHANGED isVoid

\* future::share(), shared_future(const shared_future&): add_ref().
Share(h, s) ==
    /\ Valid(h) /\ Idle(s) /\ ptr[s] = Null
    /\ Touch(ptr[h], /\ state' = RefAdded(ptr[h])
                     /\ ptr' = [ptr EXCEPT ![s] = ptr[h]]
                     /\ UNCHANGED <<obtained, pc>>)
    /\ UNCHANGED isVoid

\* shared_future::operator=(const shared_future&): release(), then add_ref().
CopyAssign(from, to) ==
    /\ from # to
    /\ Valid(from) /\ Valid(to)
    /\ Touch(ptr[to], /\ state' = Released(ptr[to])
                      /\ ptr' = [ptr EXCEPT ![to] = ptr[from]]
                      /\ pc' = [pc EXCEPT ![to] = "addingRef", ![from] = "copied"]
                      /\ UNCHANGED obtained)
    /\ UNCHANGED isVoid

CopyAssignAddsRef(to) ==
    /\ ~fault /\ pc[to] = "addingRef"
    /\ Touch(ptr[to], /\ state' = RefAdded(ptr[to])
                      /\ pc' = [h \in Handles |->
                                  IF h = to \/ (pc[h] = "copied" /\ ptr[h] = ptr[to]) THEN "idle" ELSE pc[h]]
                      /\ UNCHANGED <<ptr, obtained>>)
    /\ UNCHANGED isVoid

-----------------------------------------------------------------------------
\* What both templates of a class offer, and what only the general one does:
\* there is no shared_future<void>, since its get() would return a void&.
PromiseStep(p) ==
    \/ \E s \in States : MakePromise(p, s)
    \/ \E o \in Outcomes : SetOutcome(p, o)
    \/ \E f \in Futures : GetFuture(p, f)
    \/ \E q \in Promises : MovePromise(p, q) \/ AssignPromise(p, q)
    \/ DestroyPromise(p) \/ BreakPromise(p) \/ ReleasePromise(p)

GetterStep(h) == (\E how \in Waits : Ask(h, how)) \/ Answer(h) \/ TimeOut(h) \/ DestroyGetter(h)

FutureStep(f) ==
    \/ GetterStep(f)
    \/ \E g \in Futures : MoveGetter(f, g) \/ AssignGetter(f, g)

SharedFutureStep(h) ==
    \/ GetterStep(h)
    \/ \E g \in Shareds : MoveGetter(h, g) \/ AssignGetter(h, g) \/ Share(h, g) \/ CopyAssign(h, g)
    \/ CopyAssignAddsRef(h)

Next ==
    \/ \E p \in Promises : PromiseStep(p)
    \/ \E f \in Futures :
          \/ FutureStep(f)
          \/ \E s \in Shareds : Share(f, s)
    \/ \E h \in Shareds : SharedFutureStep(h)

\* The producer sets a result or destroys its promise, and a thread that is
\* woken returns from its call.
Fairness ==
    /\ WF_vars(\E p \in Promises : \/ \E o \in Outcomes : Valid(p) /\ ~IsReady(ptr[p]) /\ SetOutcome(p, o)
                                   \/ DestroyPromise(p))
    /\ \A p \in Promises : WF_vars(BreakPromise(p)) /\ WF_vars(ReleasePromise(p))
    /\ \A h \in Getters : WF_vars(Answer(h))

Spec == Init /\ [][Next]_vars
FairSpec == Spec /\ Fairness
-----------------------------------------------------------------------------
Owners(s) == {h \in Handles : ptr[h] = s /\ pc[h] # "addingRef"}

\* A result, once set, is final: neither a second set_value() nor the broken
\* promise of the destructor replaces what a waiting thread is about to read.
ResultIsFinal ==
    [][\A s \in States : IsReady(s) => state'[s].outcome = state[s].outcome]_vars

\* The value is handed out once: of all threads that get(), only one has it.
ValueDeliveredOnce == \A s \in States : state[s].given <= 1

\* Through all moves, copies and assignments every variable with a state is
\* counted, but for the futures that get_future() made: while a state lives,
\* its count is short by exactly those, and only as many variables may be left
\* with a state that its last release() deleted.
SharedKeepAlive ==
    \A s \in States :
        LET owners == Cardinality(Owners(s)) IN
        /\ state[s].life = "alive" => owners = state[s].refs + state[s].futures
        /\ state[s].life = "released" => owners <= state[s].futures

\* A waiting thread gets a result, or the program has gone wrong before.
WaitersReturn ==
    \A h \in Getters : pc[h] \in {"getting", "waiting"} ~> (pc[h] = "idle" \/ fault)

\* The class comment's example: a promise sets the result, its future gets it,
\* and both are destroyed.  No variable may touch a deleted state.
NoUseAfterFree == ~fault

=============================================================================

---------------------------- MODULE ValueHolders ----------------------------
(***************************************************************************)
(* Classes that hold at most one value in place or on the heap:            *)
(* zen::optional (src/utility/optional.h), zen::variant of two types       *)
(* (src/utility/variant.h), zen::function (src/utility/function.h) and     *)
(* zen::any (src/utility/any.h, with one of its two definitions of reset). *)
(* What matters is that the object in the storage is constructed and       *)
(* destroyed once, as the type it has, whatever is assigned over it.       *)
(* Constructors of the held types do not throw here.                       *)
(***************************************************************************)
EXTENDS Objects

\* expected[o] is a value, <<type, value>> for a variant, or Raw for nothing.
Types == {0, 1}

\* A cell in which an object was constructed over another, or which was
\* destroyed or assigned without an object.
Broken == -3
Constructed(cell, v) == IF cell = Raw THEN v ELSE Broken
Razed(cell) == IF cell \in {Raw, Broken} THEN Broken ELSE Raw
Overwritten(cell, v) == IF cell \in {Raw, Broken} THEN Broken ELSE v

Is(o, class) == this[o].class = class

-----------------------------------------------------------------------------
\* optional: has_value_ and the cell of value_.
NoValue == [class |-> "optional", has |-> FALSE, cell |-> Raw]
Construct(x, v) == [x EXCEPT !.has = TRUE, !.cell = Constructed(@, v)]

\* Fault: the flag stays.
DestroyKeepsFlag(x) == IF x.has THEN [x EXCEPT !.cell = Razed(@)] ELSE x
Destroy(x) == IF x.has THEN [x EXCEPT !.has = FALSE, !.cell = Razed(@)] ELSE x

\* operator=(const T&), operator=(T&&).
Set(x, v) == IF x.has THEN [x EXCEPT !.cell = Overwritten(@, v)] ELSE Construct(x, v)
\* operator=(const optional&), and what operator=(optional&&) does to its target.
SetFrom(x, y) == IF y.has THEN Set(x, y.cell) ELSE Destroy(x)
\* A moved-from optional has a value still, which was moved from.
MovedOut(x) == IF x.has THEN [x EXCEPT !.cell = Overwritten(@, Moved)] ELSE x
\* The constructors from another optional.
CopyOf(y) == IF y.has THEN Construct(NoValue, y.cell) ELSE NoValue
Emplaced(x, v) == Construct(Destroy(x), v)
\* swap(): the value changes places, by a move when only one has it.
SwappedOptionals(x, y) == CASE x.has /\ y.has -> <<[x EXCEPT !.cell = y.cell], [y EXCEPT !.cell = x.cell]>>
                    [] x.has /\ ~y.has -> <<Destroy(MovedOut(x)), Construct(y, x.cell)>>
                    [] ~x.has /\ y.has -> <<Construct(x, y.cell), Destroy(MovedOut(y))>>
                    [] OTHER -> <<x, y>>

\* has_value(), operator*, and value(), which throws without a value;
\* value_or() takes the other.
Held(x) == IF x.has THEN {x.cell} ELSE {}
ValueOr(x, v) == IF x.has THEN x.cell ELSE v
OptionalEqual(x, y) == x.has = y.has /\ (x.has => x.cell = y.cell)
OptionalLess(x, y) == y.has /\ (x.has => x.cell < y.cell)

\* What the moves leave of an abstract value.
LeftOver(e) == IF e = Raw THEN Raw ELSE Moved

AssignValue(o, v) == Is(o, "optional") /\ Update(o, Set(this[o], v), v)
MakeOptional(o, v) == Is(o, "optional") /\ Update(o, Construct(NoValue, v), v)
Reset(o) == Is(o, "optional") /\ Update(o, Destroy(this[o]), Raw)
EmplaceValue(o, v) == Is(o, "optional") /\ Update(o, Emplaced(this[o], v), v)
CopyOptional(o, p) == Is(o, "optional") /\ o # p /\ Update(o, CopyOf(this[p]), expected[p])
AssignOptional(o, p) ==
    Is(o, "optional") /\ o # p /\ Update(o, SetFrom(this[o], this[p]), expected[p])
MoveOptional(o, p) ==
    /\ Is(o, "optional") /\ o # p
    /\ UpdateBoth(o, SetFrom(this[o], this[p]), expected[p], p, MovedOut(this[p]), LeftOver(expected[p]))
SwapOptionals(o, p) ==
    /\ Is(o, "optional") /\ o # p
    /\ LET s == SwappedOptionals(this[o], this[p]) IN UpdateBoth(o, s[1], expected[p], p, s[2], expected[o])

OptionalMatches(o) ==
    /\ Held(this[o]) = {expected[o]} \ {Raw}
    /\ this[o].has \/ this[o].cell = Raw
    /\ \A v \in Value : ValueOr(this[o], v) = IF expected[o] = Raw THEN v ELSE expected[o]
    /\ \A p \in Object : /\ OptionalEqual(this[o], this[p]) <=> expected[o] = expected[p]
                         /\ OptionalLess(this[o], this[p]) =>
                              expected[p] # Raw /\ ~OptionalLess(this[p], this[o])

-----------------------------------------------------------------------------
\* variant: index_, and the storage with the type of the object in it.
Storage(t, v) == [type |-> t, cell |-> v]
NoStorage == [type |-> 0, cell |-> Raw]
Alternative(t, v) == [class |-> "variant", index |-> t, storage |-> Storage(t, v)]

\* destroy_current(): as the type of index_, whatever is there.
DestroyCurrent(x) ==
    IF x.storage.type = x.index THEN [x EXCEPT !.storage.cell = Razed(@)]
    ELSE [x EXCEPT !.storage = Storage(x.index, Broken)]
\* A value of type t constructed in the storage.
Placed(x, t, v) == [x EXCEPT !.storage = Storage(t, Constructed(@.cell, v))]

\* Fault: the index is changed first, and the old value destroyed as the new type.
RetypedEarly(x, t, v) == Placed(DestroyCurrent([x EXCEPT !.index = t]), t, v)
\* emplace(), and assignment of a variant or of a value of another type.
Retyped(x, t, v) == Placed([DestroyCurrent(x) EXCEPT !.index = t], t, v)
\* operator=(T&&).
Overlaid(x, t, v) ==
    IF x.index = t THEN [x EXCEPT !.storage.cell = Overwritten(@, v)] ELSE Retyped(x, t, v)
VariantCopy(y) == Alternative(y.index, y.storage.cell)
VariantMovedOut(x) == [x EXCEPT !.storage.cell = Overwritten(@, Moved)]
\* operator=(const variant&), and what operator=(variant&&) does to its target.
Replaced(x, y) == Retyped(x, y.index, y.storage.cell)
\* swap(): values of one type are exchanged through a temporary, others by
\* three moves of whole variants.
SwappedVariants(x, y) ==
    IF x.index = y.index
    THEN LET temp == x.storage.cell
         IN <<[x EXCEPT !.storage.cell = Overwritten(@, y.storage.cell)],
              [y EXCEPT !.storage.cell = Overwritten(@, temp)]>>
    ELSE LET tmp == VariantCopy(x)
         IN <<Replaced(VariantMovedOut(x), y), Replaced(VariantMovedOut(y), tmp)>>

\* get<T>() throws, and get_if<T>() answers null, for the other type.
GetIf(x, t) == IF x.index = t THEN {x.storage.cell} ELSE {}
VariantEqual(x, y) == x.index = y.index /\ x.storage.cell = y.storage.cell
\* visit() calls the visitor with the value as the type of index().
Visited(x) == <<x.index, x.storage.cell>>

AssignAlternative(o, t, v) == Is(o, "variant") /\ Update(o, Overlaid(this[o], t, v), <<t, v>>)
EmplaceAlternative(o, t, v) == Is(o, "variant") /\ Update(o, Retyped(this[o], t, v), <<t, v>>)
CopyVariant(o, p) == Is(o, "variant") /\ o # p /\ Update(o, VariantCopy(this[p]), expected[p])
AssignVariant(o, p) == Is(o, "variant") /\ o # p /\ Update(o, Replaced(this[o], this[p]), expected[p])
MoveVariant(o, p) ==
    /\ Is(o, "variant") /\ o # p
    /\ UpdateBoth(o, Replaced(this[o], this[p]), expected[p],
                  p, VariantMovedOut(this[p]), <<expected[p][1], Moved>>)
SwapVariants(o, p) ==
    /\ Is(o, "variant") /\ o # p
    /\ LET s == SwappedVariants(this[o], this[p]) IN UpdateBoth(o, s[1], expected[p], p, s[2], expected[o])

VariantMatches(o) ==
    /\ this[o].storage.type = this[o].index
    /\ Visited(this[o]) = expected[o]
    /\ \A t \in Types : GetIf(this[o], t) = IF expected[o][1] = t THEN {expected[o][2]} ELSE {}
    /\ \A p \in Object : VariantEqual(this[o], this[p]) <=> expected[o] = expected[p]

-----------------------------------------------------------------------------
\* function: the callable that impl_ points to, or Raw for the null pointer.
NoFunction == [class |-> "function", impl |-> Raw]
\* delete impl_, which may be null.
Deleted(x) == [x EXCEPT !.impl = Raw]
\* clone() of an impl_ that is not null.
CloneOf(y) == y.impl
\* The call throws bad_function_call when there is nothing to call.
Invoked(x) == IF x.impl = Raw THEN {} ELSE {x.impl}

AssignCallable(o, f) ==
    Is(o, "function") /\ Update(o, [Deleted(this[o]) EXCEPT !.impl = Constructed(@, f)], f)
AssignNull(o) == Is(o, "function") /\ Update(o, Deleted(this[o]), Raw)
AssignFunction(o, p) ==
    /\ Is(o, "function") /\ o # p
    /\ Update(o, [Deleted(this[o]) EXCEPT !.impl = Constructed(@, CloneOf(this[p]))], expected[p])
MoveFunction(o, p) ==
    /\ Is(o, "function") /\ o # p
    /\ UpdateBoth(o, [Deleted(this[o]) EXCEPT !.impl = this[p].impl], expected[p],
                  p, [this[p] EXCEPT !.impl = Raw], Raw)
SwapFunctions(o, p) == Is(o, "function") /\ o # p /\ Swap(o, p)

FunctionMatches(o) == Invoked(this[o]) = {expected[o]} \ {Raw}

-----------------------------------------------------------------------------
\* any: vt_ as the type of its value, sbo_, the value in buf_, and the value
\* that heap_ points to.  A value of type 0 fits the buffer.
UseSbo(t) == t = 0
NoAny == [class |-> "any", vt |-> Raw, sbo |-> FALSE, buf |-> Raw, heap |-> Raw]
\* expected[o] of an any that is empty, and of one with nothing where it looks.
Nothing == <<>>
Unreadable == <<Broken>>

AnyReset(x) ==
    CASE x.vt = Raw -> x
      [] x.vt # Raw /\ x.sbo -> [x EXCEPT !.vt = Raw, !.heap = Raw, !.buf = Razed(@)]
      [] OTHER -> [x EXCEPT !.vt = Raw, !.heap = IF Razed(@) = Raw THEN Raw ELSE Broken]

AnyEmplaced(x, t, v) ==
    LET e == [AnyReset(x) EXCEPT !.vt = t, !.sbo = UseSbo(t)]
    IN  IF UseSbo(t) THEN [e EXCEPT !.buf = Constructed(@, v), !.heap = Raw]
                     ELSE [e EXCEPT !.heap = v]

\* get_ptr()
Pointed(x) == IF x.sbo THEN x.buf ELSE x.heap
\* use_sbo_from_vt() asks where a value in the buffer would be, so that it
\* answers true whatever the value: the copy of one on the heap is on the
\* heap, and is looked for in the buffer.
AnyCopy(y) ==
    CASE y.vt = Raw -> NoAny
      [] y.vt # Raw /\ UseSbo(y.vt) -> [NoAny EXCEPT !.vt = y.vt, !.sbo = TRUE, !.buf = Pointed(y)]
      [] OTHER -> [NoAny EXCEPT !.vt = y.vt, !.sbo = TRUE, !.heap = Pointed(y)]

\* Fault: the value that was moved out of the buffer is not destroyed.
AnyTakenFromKept(x, y) ==
    LET taker == [x EXCEPT !.vt = y.vt, !.sbo = y.sbo, !.heap = y.heap]
        giver == [y EXCEPT !.vt = Raw, !.heap = Raw]
    IN  IF y.vt = Raw \/ ~y.sbo THEN <<taker, giver>>
        ELSE <<[taker EXCEPT !.buf = Constructed(@, y.buf)], giver>>
\* The move constructor, and operator=(any&&) after its reset().
AnyTakenFrom(x, y) ==
    LET taker == [x EXCEPT !.vt = y.vt, !.sbo = y.sbo, !.heap = y.heap]
        giver == [y EXCEPT !.vt = Raw, !.heap = Raw]
    IN  IF y.vt = Raw \/ ~y.sbo THEN <<taker, giver>>
        ELSE <<[taker EXCEPT !.buf = Constructed(@, y.buf)], [giver EXCEPT !.buf = Razed(@)]>>

AnysSwapped(x, y) ==
    LET out == AnyTakenFrom(NoAny, x)
        across == AnyTakenFrom(AnyReset(out[2]), y)
        back == AnyTakenFrom(AnyReset(across[2]), out[1])
    IN  <<across[1], back[1]>>

\* any_cast() of a pointer, and its type test.
AnyCast(x, t) == IF x.vt = t THEN {Pointed(x)} ELSE {}
HasValue(x) == x.vt # Raw

\* Whether the value is where sbo_ says.  An any of which this is not so is not
\* used again here: to read or to destroy its value is undefined.
Readable(x) == x.vt = Raw \/ (x.sbo <=> UseSbo(x.vt))
Usable(o) == Is(o, "any") /\ Readable(this[o])
Copied(p) == IF this[p].vt = Raw \/ UseSbo(this[p].vt) THEN expected[p] ELSE Unreadable

EmplaceAny(o, t, v) == Usable(o) /\ Update(o, AnyEmplaced(this[o], t, v), <<t, v>>)
ResetAny(o) == Usable(o) /\ Update(o, AnyReset(this[o]), Nothing)
CopyAny(o, p) == Usable(o) /\ Usable(p) /\ o # p /\ Update(o, AnyCopy(this[p]), Copied(p))
AssignAny(o, p) ==
    /\ Usable(o) /\ Usable(p) /\ o # p
    /\ Update(o, AnysSwapped(this[o], AnyCopy(this[p]))[1], Copied(p))
MoveAny(o, p) ==
    /\ Usable(o) /\ Usable(p) /\ o # p
    /\ LET taken == AnyTakenFrom(AnyReset(this[o]), this[p])
       IN  UpdateBoth(o, taken[1], expected[p], p, taken[2], Nothing)
SwapAnys(o, p) ==
    /\ Usable(o) /\ Usable(p) /\ o # p
    /\ LET s == AnysSwapped(this[o], this[p]) IN UpdateBoth(o, s[1], expected[p], p, s[2], expected[o])

\* A value that the calls put into an any is found there as its type, and as
\* no other, and nothing lives in the buffer of an any without one; only a
\* copy of a value on the heap is looked for where it is not.
AnyMatches(o) ==
    LET x == this[o]
        e == expected[o]
    IN  /\ Readable(x) <=> e # Unreadable
        /\ HasValue(x) <=> e # Nothing
        /\ e \notin {Nothing, Unreadable} =>
              \A t \in Types : AnyCast(x, t) = IF e[1] = t THEN {e[2]} ELSE {}
        /\ e = Nothing => x.heap = Raw
        /\ e = Nothing \/ ~x.sbo => x.buf = Raw

-----------------------------------------------------------------------------
Init ==
    \/ this = [o \in Object |-> NoValue] /\ expected = [o \in Object |-> Raw]
    \/ this = [o \in Object |-> Alternative(0, Default)] /\ expected = [o \in Object |-> <<0, Default>>]
    \/ this = [o \in Object |-> NoFunction] /\ expected = [o \in Object |-> Raw]
    \/ this = [o \in Object |-> NoAny] /\ expected = [o \in Object |-> Nothing]

Next ==
    \E o \in Object :
        \/ Reset(o) \/ AssignNull(o) \/ ResetAny(o)
        \/ \E v \in Value :
              \/ AssignValue(o, v) \/ MakeOptional(o, v) \/ EmplaceValue(o, v) \/ AssignCallable(o, v)
              \/ \E t \in Types : AssignAlternative(o, t, v) \/ EmplaceAlternative(o, t, v) \/ EmplaceAny(o, t, v)
        \/ \E p \in Object :
              \/ CopyOptional(o, p) \/ AssignOptional(o, p) \/ MoveOptional(o, p) \/ SwapOptionals(o, p)
              \/ CopyVariant(o, p) \/ AssignVariant(o, p) \/ MoveVariant(o, p) \/ SwapVariants(o, p)
              \/ AssignFunction(o, p) \/ MoveFunction(o, p) \/ SwapFunctions(o, p)
              \/ CopyAny(o, p) \/ AssignAny(o, p) \/ MoveAny(o, p) \/ SwapAnys(o, p)

\* Every holder holds what its calls built: the object in its storage was
\* constructed once, is destroyed once and as the type it has, and what is
\* moved from or empty says so.
HoldersMatch ==
    \A o \in Object :
        /\ Is(o, "optional") => OptionalMatches(o)
        /\ Is(o, "variant") => VariantMatches(o)
        /\ Is(o, "function") => FunctionMatches(o)
        /\ Is(o, "any") => AnyMatches(o)
=============================================================================

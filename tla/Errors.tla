------------------------------- MODULE Errors --------------------------------
(***************************************************************************)
(* Errors as values: error_code and its categories (error/system_error.h), *)
(* error_context with its bounded texts (error/error_context.h), result<T> *)
(* and error_chain, a stack of at most MAX_DEPTH contexts                  *)
(* (error/exception_chain.h).  A program has a chain and a result per      *)
(* object.                                                                 *)
(***************************************************************************)
EXTENDS Objects, Text

CONSTANTS MAX_DEPTH,  \* entries of a chain
          TextSize    \* bytes of a text, its final 0 included

\* The values of errc; a category is the address of its only object.
Codes == 0 .. 14 \cup {20, 21} \cup 30 .. 33 \cup 40 .. 42
Generic == 1
Other == 2
NoMessage == <<>>

\* The table of generic_category_impl: a text of its own for each code, here
\* the code itself, and one text for every other number.
Message(code) == IF code.category = Generic /\ code.value \notin Codes THEN <<"unknown error code">>
                 ELSE <<code.category, code.value>>

ErrorCode(v, c) == [value |-> v, category |-> c]
Ok == ErrorCode(0, Generic)
IsError(code) == code.value # 0
CodeLess(c, d) == IF c.category # d.category THEN c.category < d.category ELSE c.value < d.value

Context(code, msg) == [code |-> code, message |-> CopyStr(msg, TextSize)]
EmptyContext == Context(Ok, NoMessage)
\* message(): the text of the code when the context has none of its own.
MessageOf(ctx) == IF ctx.message # NoMessage THEN ctx.message ELSE Message(ctx.code)
\* format() says only "[OK]" of a success.
Format(ctx) == IF IsError(ctx.code) THEN <<ctx.code.category, ctx.code.value>> \o MessageOf(ctx)
               ELSE <<"[OK]">>

Contexts == {Context(ErrorCode(v, Generic), NoMessage) : v \in {0, 4}}
            \cup {Context(ErrorCode(v, Other), <<v, v, v>>) : v \in Value}
-----------------------------------------------------------------------------
\* error_chain: the array keeps what a pop() or clear() leaves behind.
NoChain == [entries |-> [i \in 0 .. MAX_DEPTH - 1 |-> EmptyContext], size |-> 0]

Pushed(c, ctx) ==
    IF c.size < MAX_DEPTH THEN [entries |-> [c.entries EXCEPT ![c.size] = ctx], size |-> c.size + 1]
    ELSE c

Popped(c) == IF c.size > 0 THEN [c EXCEPT !.size = @ - 1] ELSE c

Top(c) == IF c.size > 0 THEN c.entries[c.size - 1] ELSE EmptyContext
RootCause(c) == IF c.size > 0 THEN c.entries[0] ELSE EmptyContext
EntryAt(c, i) == IF i < c.size THEN c.entries[i] ELSE EmptyContext
ChainFailed(c) == c.size > 0 /\ IsError(Top(c).code)
\* The words print_all() puts before an entry.
Prefix(c, i) == CASE i = 0 /\ c.size = 1 -> "Error"
                  [] i = 0 /\ c.size # 1 -> "Root cause"
                  [] i # 0 /\ i = c.size - 1 -> "Final"
                  [] OTHER -> "Caused by"

\* Fault: the entries are copied from the one after the first.
MergedFromSecond(c, d) == Upto(LAMBDA m, i : Pushed(m, d.entries[i % MAX_DEPTH]), c, 1, d.size)

\* merge(): as many of the other chain's entries as there is room for.
Merged(c, d) == Upto(LAMBDA m, i : Pushed(m, d.entries[i]), c, 0, d.size - 1)

\* c.merge(c): the size of the other chain is its own, which grows with every
\* entry, so the loop ends when the array is full.
MergedWithItself(c) ==
    IF c.size = 0 THEN c
    ELSE Upto(LAMBDA m, i : Pushed(m, m.entries[i]), c, 0, MAX_DEPTH - c.size - 1)
-----------------------------------------------------------------------------
\* result<T>: err() leaves a value, ok() leaves a context.
NoResult == [has |-> FALSE, value |-> Default, ctx |-> EmptyContext]
ResultOk(x) == [NoResult EXCEPT !.has = TRUE, !.value = x]
ResultErr(ctx) == [NoResult EXCEPT !.ctx = ctx]
ResultOr(r, x) == IF r.has THEN r.value ELSE x

Init ==
    /\ this = [o \in Object |-> [chain |-> NoChain, result |-> NoResult]]
    /\ expected = [o \in Object |-> [chain |-> <<>>, outcome |-> EmptyContext]]

ChangeChain(o, c, e) ==
    Update(o, [this[o] EXCEPT !.chain = c], [expected[o] EXCEPT !.chain = SubSeq(e, 1, Min({Len(e), MAX_DEPTH}))])

Push(o) ==
    \E ctx \in Contexts : ChangeChain(o, Pushed(this[o].chain, ctx), Append(expected[o].chain, ctx))

Pop(o) ==
    LET e == expected[o].chain IN ChangeChain(o, Popped(this[o].chain), IF e = <<>> THEN e ELSE Front(e))

Clear(o) == ChangeChain(o, [this[o].chain EXCEPT !.size = 0], <<>>)

Merge(o, p) ==
    /\ o # p
    /\ ChangeChain(o, Merged(this[o].chain, this[p].chain), expected[o].chain \o expected[p].chain)

\* What was there is repeated until the array is full.
MergeSelf(o) ==
    LET e == expected[o].chain
    IN  ChangeChain(o, MergedWithItself(this[o].chain),
            IF e = <<>> THEN e ELSE [i \in 1 .. MAX_DEPTH |-> e[((i - 1) % Len(e)) + 1]])

CopyChain(o, p) == o # p /\ ChangeChain(o, this[p].chain, expected[p].chain)

\* A function answers with a value, or with the error on top of a chain.
Answer(o, r, e) == Update(o, [this[o] EXCEPT !.result = r], [expected[o] EXCEPT !.outcome = e])
AnswerOk(o) == \E x \in Value : Answer(o, ResultOk(x), x)
AnswerErr(o) == Answer(o, ResultErr(Top(this[o].chain)), IF expected[o].chain = <<>> THEN EmptyContext
                                                        ELSE Last(expected[o].chain))

Next ==
    \E o \in Object :
        \/ Push(o) \/ Pop(o) \/ Clear(o) \/ MergeSelf(o)
        \/ AnswerOk(o) \/ AnswerErr(o)
        \/ \E p \in Object : Merge(o, p) \/ CopyChain(o, p)
-----------------------------------------------------------------------------
\* A chain reads as the first MAX_DEPTH contexts that were pushed or merged
\* and not popped, whatever older entries its array still holds; a result has
\* either the value or the context it was made with; and error codes are
\* ordered.
ErrorsMatch ==
    \A o \in Object :
        LET c == this[o].chain
            e == expected[o].chain
            r == this[o].result
            outcome == expected[o].outcome
        IN  /\ c.size = Len(e)
            /\ \A i \in 0 .. MAX_DEPTH : EntryAt(c, i) = IF i < Len(e) THEN e[i + 1] ELSE EmptyContext
            /\ e # <<>> => Top(c) = Last(e) /\ RootCause(c) = e[1]
            /\ ChainFailed(c) <=> e # <<>> /\ Format(Last(e)) # <<"[OK]">>
            /\ {i \in 0 .. c.size - 1 : Prefix(c, i) \in {"Error", "Final"}} = {c.size - 1} \ {-1}
            /\ IF r.has THEN outcome = r.value /\ ResultOr(r, 0) = outcome
               ELSE outcome = r.ctx /\ ResultOr(r, 0) = 0
            /\ \A p \in Object :
                  LET f == Top(c).code
                      g == Top(this[p].chain).code
                  IN  f # g <=> (CodeLess(f, g) # CodeLess(g, f))
=============================================================================

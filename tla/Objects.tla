------------------------------ MODULE Objects -------------------------------
(***************************************************************************)
(* What the models of the containers share.  A program holds a few objects *)
(* of one class: this[o] is the representation of object o, its members    *)
(* under their own names, and expected[o] is the abstract value that o     *)
(* stands for, kept beside it by what each operation promises.             *)
(***************************************************************************)
EXTENDS Loops

CONSTANTS Object,   \* names of the objects
          Value,    \* element values, positive integers
          MaxLen    \* bound: no object is made longer than this

VARIABLES this, expected

objects == <<this, expected>>

\* A cell without an object, and one whose object was moved away.
Raw == -1
Moved == -2
\* What T() constructs.
Default == 0

\* An operation that changes one object, and one that changes two.
Update(o, v, e) ==
    /\ this' = [this EXCEPT ![o] = v]
    /\ expected' = [expected EXCEPT ![o] = e]

UpdateBoth(o, v, e, p, w, f) ==
    /\ this' = [this EXCEPT ![o] = v, ![p] = w]
    /\ expected' = [expected EXCEPT ![o] = e, ![p] = f]

Swap(o, p) == UpdateBoth(o, this[p], expected[p], p, this[o], expected[o])

\* Room for n more elements below the bound.
Room(o, n) == Len(expected[o]) + n <= MaxLen
=============================================================================

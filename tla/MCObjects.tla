----------------------------- MODULE MCObjects ------------------------------
(***************************************************************************)
(* One behaviour uses one family of objects: kind says which.              *)
(* shared: the list nodes of weak_ptr.h's comment: each of two nodes has a *)
(* strong member next and a weak member prev; the program has two          *)
(* shared_ptr variables and one weak_ptr variable.                         *)
(* unique: two nodes with a member next, and an array, each made with one  *)
(* of two deleters.  holders: two holders of one class.  errors: two error *)
(* chains and results.  log: two threads and one logger.  files: one file  *)
(* with two handles, a writer and a reader.                                *)
(***************************************************************************)
EXTENDS SharedPtr

CONSTANTS nodeA, nodeB, r1, r2, observer, nextA, nextB, prevA, prevB,
          Variables, Arrays, Nodes, Blocks, Deleters, DefaultDelete,  \* of UniquePtr
          Wrappers, Values,                                           \* of ValueHolders, Errors, FileIO
          MAX_DEPTH, TextSize, Reasons,                               \* of Errors
          Threads, Messages, LineSize, RingSize, MaxSinks, MaxRecords, \* of Logging
          FLUSH_SIZE, MaxFile                                         \* of FileIO

VARIABLES
    kind,
    ptr, deleter, source, state, loose,                                   \* unique
    this, expected,                                                       \* holders, errors
    level, sinks, pc, record, journal, highest, lost,                     \* log
    content, handle, streams, writer, base, given, short, reader, lines   \* files

uniqueVars == <<ptr, deleter, source, state, loose>>
objects == <<this, expected>>
logVars == <<level, sinks, pc, record, journal, highest, lost>>
fileVars == <<content, handle, streams, writer, base, given, short, reader, lines>>

MCObjects == {nodeA, nodeB}
MCStrong == {r1, r2, nextA, nextB}
MCWeak == {observer, prevA, prevB}
\* One text is logged at each level, short at INFO and longer than a line at WARN.
MCMessages == <<{}, {<<1>>}, {<<1, 1, 1>>}>>
MCMembersOf == [o \in MCObjects |-> IF o = nodeA THEN {nextA, prevA} ELSE {nextB, prevB}]

U == INSTANCE UniquePtr WITH Nothing <- Null
H == INSTANCE ValueHolders WITH Object <- Wrappers, Value <- Values, MaxLen <- 1

E == INSTANCE Errors WITH Object <- Wrappers, Value <- Reasons, MaxLen <- 1
L == INSTANCE Logging
F == INSTANCE FileIO WITH Handles <- Wrappers

ASSUME UniqueAssumption == U!ConstantsAssumption
ASSUME ValuesAssumption == Values \subseteq Nat \ {0}
ASSUME ErrorsAssumption == MAX_DEPTH \in Nat /\ TextSize \in Nat \ {0} /\ Reasons \subseteq Nat
ASSUME LoggingAssumption ==
    /\ LineSize \in Nat /\ RingSize \in Nat \ {0}
    /\ \A lvl \in L!Levels : Messages[lvl] \subseteq Seq(Int)
ASSUME FilesAssumption == IsFiniteSet(Wrappers) /\ FLUSH_SIZE \in Nat \ {0} /\ MaxFile \in Nat

MCInit ==
    /\ kind \in {"shared", "unique", "holders", "errors", "log", "files"}
    /\ Init /\ U!Init /\ L!Init /\ F!Init
    /\ kind # "files" => content = F!Absent
    /\ CASE kind = "holders" -> H!Init
         [] kind = "errors" -> E!Init
         [] OTHER -> this = <<>> /\ expected = <<>>

SharedStep == kind = "shared" /\ Next /\ UNCHANGED <<kind, uniqueVars, objects, logVars, fileVars>>
UniqueStep == kind = "unique" /\ U!Next /\ UNCHANGED <<kind, vars, objects, logVars, fileVars>>
HolderStep == kind = "holders" /\ H!Next /\ UNCHANGED <<kind, vars, uniqueVars, logVars, fileVars>>
ErrorStep == kind = "errors" /\ E!Next /\ UNCHANGED <<kind, vars, uniqueVars, logVars, fileVars>>
LogStep == kind = "log" /\ L!Next /\ UNCHANGED <<kind, vars, uniqueVars, objects, fileVars>>
FileStep == kind = "files" /\ F!Next /\ UNCHANGED <<kind, vars, uniqueVars, objects, logVars>>

MCNext == SharedStep \/ UniqueStep \/ HolderStep \/ ErrorStep \/ LogStep \/ FileStep
MCSpec == MCInit /\ [][MCNext]_<<vars, kind, uniqueVars, objects, logVars, fileVars>>
-----------------------------------------------------------------------------
\* Every object of the program has one owner or holder that treats it as what
\* it is: unique_ptr with the deleter that fits, or the storage of an optional,
\* a variant or a function that holds it.
OwnersMatch ==
    /\ U!OneOwner
    /\ kind = "holders" => H!HoldersMatch

\* What is recorded is kept and found again: errors in a chain or a result,
\* records in the sinks of a logger, bytes in a file and its lines.
RecordsMatch ==
    /\ kind = "errors" => E!ErrorsMatch
    /\ kind = "log" => L!LogMatches
    /\ kind = "files" => F!FilesMatch
=============================================================================

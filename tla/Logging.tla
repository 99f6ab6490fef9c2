------------------------------ MODULE Logging -------------------------------
(***************************************************************************)
(* zen::logger (src/logging/logger.h) and its sinks (log_sink.h): threads  *)
(* log records, set the level, add and clear sinks.  level_ is read twice  *)
(* without the mutex, by log() and again by write(); everything else is a  *)
(* critical section.                                                       *)
(***************************************************************************)
EXTENDS Text, TLC

CONSTANTS
    Threads,      \* the threads of the program
    Messages,     \* the texts that are logged at each level
    LineSize,     \* bytes of a sink's array for one line
    RingSize,     \* BUF_SIZE of a memory sink
    MaxSinks,     \* ZEN_LOGGER_MAX_SINKS
    MaxRecords    \* bound: records written in a behaviour

\* INFO and WARN.
Levels == {2, 3}

VARIABLES
    level,    \* level_
    sinks,    \* sinks_[0 .. sink_count_ - 1]
    pc,       \* where each thread is: idle, made (in write()), or locking
    record,   \* the record a thread logs, and logged last
    journal,  \* the records that passed write(), in order (history)
    highest,  \* the highest level since a thread's last call began (history)
    lost      \* a sink was destroyed with lines not in its file (history)

logVars == <<level, sinks, pc, record, journal, highest, lost>>

LevelEnabled(lvl, threshold) == lvl >= threshold

\* The options show the level and nothing else.
LineOf(rec) == FormatLine(<<<<rec.level>>>>, rec.message, <<>>, LineSize)
Bytes(rec) == Output(LineOf(rec))

NoRecord == [by |-> Stray, level |-> 0, message |-> <<>>]

\* A memory sink has a ring, a file sink a text of which the first part is
\* in the file, a console two such texts in one; from is the number of records written before the sink came.
Ring == [i \in 0 .. RingSize - 1 |-> Stray]
MemorySink(min) == [kind |-> "memory", min |-> min, from |-> Len(journal), ring |-> Ring, pos |-> 0, total |-> 0]
FileSink(min, open) ==
    [kind |-> "file", min |-> min, from |-> Len(journal), open |-> open, text |-> <<>>, stored |-> 0]
ConsoleSink(min) == [FileSink(min, TRUE) EXCEPT !.kind = "console"]

\* Fault: the position is not reduced before the byte is stored.
AppendedFlat(s, bytes) ==
    [s EXCEPT !.ring = Upto(LAMBDA r, i : [r EXCEPT ![Min({s.pos + i - 1, RingSize - 1})] = bytes[i]], @, 1, Len(bytes)),
              !.pos = (@ + Len(bytes)) % RingSize, !.total = @ + Len(bytes)]

\* memory_sink_impl::append().
AppendedBytes(s, bytes) ==
    [s EXCEPT !.ring = Upto(LAMBDA r, i : [r EXCEPT ![(s.pos + i - 1) % RingSize] = bytes[i]], @, 1, Len(bytes)),
              !.pos = (@ + Len(bytes)) % RingSize, !.total = @ + Len(bytes)]

\* contains(): the comparison starts limit bytes behind the next one written.
RingContains(s, part) ==
    LET limit == Min({s.total, RingSize})
    IN  \E start \in 0 .. limit - Len(part) : \A j \in 0 .. Len(part) - 1 :
            s.ring[(s.pos - limit + start + j + RingSize * 2) % RingSize] = part[j + 1]

\* memory_sink_write(), console_sink_write(), file_sink_write(): a file that
\* could not be opened takes nothing.
MemoryWritten(s, rec) == AppendedBytes(s, Bytes(rec))
ConsoleWritten(s, rec) == [s EXCEPT !.text = @ \o Bytes(rec)]
FileWritten(s, rec) == IF s.open THEN [s EXCEPT !.text = @ \o Bytes(rec)] ELSE s

\* log_sink::write().
Written(s, rec) ==
    IF ~LevelEnabled(rec.level, s.min) THEN s
    ELSE CASE s.kind = "memory"  -> MemoryWritten(s, rec)
           [] s.kind = "console" -> ConsoleWritten(s, rec)
           [] s.kind = "file"    -> FileWritten(s, rec)

Flushed(s) == IF s.kind = "memory" THEN s ELSE [s EXCEPT !.stored = Len(s.text)]
\* destroy() closes a file, which stores what is left of its text; the streams
\* of a console stay open.
Destroyed(s) == IF s.kind = "file" THEN Flushed(s) ELSE s

Init ==
    /\ level = 2
    /\ sinks = <<>>
    /\ pc = [t \in Threads |-> "idle"]
    /\ record = [t \in Threads |-> NoRecord]
    /\ journal = <<>>
    /\ highest = [t \in Threads |-> level]
    /\ lost = FALSE

Idle(t) == pc[t] = "idle"
Goto(t, label) == pc' = [pc EXCEPT ![t] = label]

Begin(t, lvl, message, label) ==
    /\ Idle(t) /\ Len(journal) < MaxRecords
    /\ record' = [record EXCEPT ![t] = [by |-> t, level |-> lvl, message |-> message]]
    /\ highest' = [highest EXCEPT ![t] = level]
    /\ Goto(t, label)
    /\ UNCHANGED <<level, sinks, journal, lost>>

\* log(), logf(): the first test of the level, and the record made.
Log(t) ==
    \E lvl \in Levels :
        \E message \in Messages[lvl] : Begin(t, lvl, message, IF LevelEnabled(lvl, level) THEN "made" ELSE "idle")

\* write() of a record of the caller's own.
Write(t) == \E lvl \in Levels : \E message \in Messages[lvl] : Begin(t, lvl, message, "made")

\* write(): the test of the level.
WriteTests(t) ==
    /\ pc[t] = "made"
    /\ Goto(t, IF LevelEnabled(record[t].level, level) THEN "locking" ELSE "idle")
    /\ UNCHANGED <<level, sinks, record, journal, highest, lost>>

\* Fault: write() stops at the first sink that ignores the record.
WriteStops(t) ==
    /\ pc[t] = "locking"
    /\ LET ignoring == {i \in DOMAIN sinks : ~LevelEnabled(record[t].level, sinks[i].min)}
       IN  sinks' = [i \in DOMAIN sinks |->
                        IF \E j \in ignoring : j < i THEN sinks[i] ELSE Written(sinks[i], record[t])]
    /\ journal' = Append(journal, record[t])
    /\ Goto(t, "idle")
    /\ UNCHANGED <<level, record, highest, lost>>

\* write(): every sink gets the record, under the mutex.
WriteSinks(t) ==
    /\ pc[t] = "locking"
    /\ sinks' = [i \in DOMAIN sinks |-> Written(sinks[i], record[t])]
    /\ journal' = Append(journal, record[t])
    /\ Goto(t, "idle")
    /\ UNCHANGED <<level, record, highest, lost>>

SetLevel(t) ==
    /\ Idle(t)
    /\ \E lvl \in Levels :
          /\ level' = lvl
          /\ highest' = [u \in Threads |-> IF Idle(u) THEN highest[u] ELSE Max({highest[u], lvl})]
    /\ UNCHANGED <<sinks, pc, record, journal, lost>>

\* add_sink() refuses a sink when the array is full.
AddSink(t) ==
    /\ Idle(t) /\ Len(sinks) < MaxSinks
    /\ \E s \in {MemorySink(2), MemorySink(3), FileSink(2, TRUE), FileSink(3, FALSE), ConsoleSink(3)} :
          sinks' = Append(sinks, s)
    /\ UNCHANGED <<level, pc, record, journal, highest, lost>>

\* clear_sinks(), and the destructor when it is the last call.
ClearSinks(t) ==
    /\ Idle(t) /\ sinks # <<>>
    /\ sinks' = <<>>
    /\ lost' = (lost \/ \E i \in DOMAIN sinks :
                   LET s == Destroyed(sinks[i]) IN s.kind = "file" /\ s.stored < Len(s.text))
    /\ UNCHANGED <<level, pc, record, journal, highest>>

Flush(t) ==
    /\ Idle(t)
    /\ sinks' = [i \in DOMAIN sinks |-> Flushed(sinks[i])]
    /\ UNCHANGED <<level, pc, record, journal, highest, lost>>

Next ==
    \E t \in Threads :
        \/ Log(t)
        \/ Write(t)
        \/ WriteTests(t)
        \/ WriteSinks(t)
        \/ SetLevel(t)
        \/ AddSink(t)
        \/ ClearSinks(t)
        \/ Flush(t)
-----------------------------------------------------------------------------
\* The bytes of the records that a sink has taken, in order.
TakenBy(s) ==
    FlattenSeq([i \in 1 .. Len(journal) - s.from |->
                  IF LevelEnabled(journal[s.from + i].level, s.min) THEN Bytes(journal[s.from + i]) ELSE <<>>])

\* Every sink holds, whole and in one order, the lines of the records at or
\* above its level that were written since it was added: a file or console all,
\* a ring the last bytes, in which contains() finds exactly what is there.  A
\* record whose level was enabled all through its call has been written.
\* A file sink is destroyed with all its text in its file.
LogMatches ==
    /\ ~lost
    /\ \A i \in DOMAIN sinks :
          LET s == sinks[i]
              taken == TakenBy(s)
              kept == SubSeq(taken, Max({1, Len(taken) - RingSize + 1}), Len(taken))
              occurs(part) == \E k \in 0 .. Len(kept) - Len(part) : SubSeq(kept, k + 1, k + Len(part)) = part
          IN  IF s.kind # "memory" THEN s.text = IF s.open THEN taken ELSE <<>>
              ELSE \A part \in {<<x, NewLine>> : x \in {2, 3}} \cup {<<3, x>> : x \in {1, NewLine}} \cup {kept} :
                      RingContains(s, part) <=> occurs(part)
    /\ \A t \in Threads :
          Idle(t) /\ record[t] # NoRecord /\ LevelEnabled(record[t].level, highest[t]) =>
              \E i \in DOMAIN journal : journal[i] = record[t]
=============================================================================

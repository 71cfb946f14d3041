---------------------------- MODULE NodeEventLog ----------------------------
(***************************************************************************)
(* The durable change log of a node (web/routers/node_event_log.go) with   *)
(* the two asynchronous writers it persists through (web/routers/state.go):*)
(* a state file that is replaced and a journal that is appended to and,    *)
(* now and then, compacted.  Record changes the memory under the log's     *)
(* lock and hands its snapshot and its journal line to the writers after   *)
(* the lock is released, so the files may be written in another order.     *)
(*                                                                         *)
(* An event is [life, seq]: the life of the log it was recorded in (one    *)
(* begins with every start and every Reset) and its sequence number.  A    *)
(* journal line is an event, or Torn: a line a crash cut short.            *)
(***************************************************************************)
EXTENDS Integers, Sequences, SequencesExt, FiniteSets

CONSTANTS
  Crews,          \* the sets of goroutines that may report events
  MaxEntries,     \* size of the recent window
  MinRetention,   \* 4096 in the code: least length of the history
  MaxRetention,   \* 16384 in the code: greatest length of the history
  Limit,          \* page size of a query
  MaxSeq,         \* bound: sequence numbers in a run
  MaxLives        \* bound: starts and Resets

VARIABLES
  log,      \* memory: next, entries, history, trimmed
  task,     \* what each recorder still has to write
  writer,   \* the state file's writer: pending and taken snapshots
  journal,  \* the journal's writer: pending and taken lines
  disk,     \* state file, journal file, journal temporary file
  life,     \* counts the starts and the Resets
  base      \* the cursor this life started from

Recorders == DOMAIN task

vars == <<log, task, writer, journal, disk, life, base>>

None == [none |-> TRUE]
Torn == [life |-> 0, seq |-> 0]
Event(b, s) == [life |-> b, seq |-> s]
IdleTask == [pc |-> "idle", snap |-> None, lines |-> << >>]
Tail2(s, n) == IF Len(s) > n THEN SubSeq(s, Len(s) - n + 1, Len(s)) ELSE s

\* nodeEventLogHistoryRetention and nodeEventLogCompactThreshold.
HistoryRetention(max) ==
  LET clamp(x) == IF x < MinRetention THEN MinRetention ELSE IF x > MaxRetention THEN MaxRetention ELSE x
      r == clamp(max * 4)
  IN  IF r < max THEN max ELSE r
HistoryMax == HistoryRetention(MaxEntries)
CompactThreshold == IF HistoryMax \div 4 < MaxEntries THEN MaxEntries ELSE HistoryMax \div 4

EmptyLog == [next |-> 0, entries |-> << >>, history |-> << >>, trimmed |-> 0]
Snapshot(l) == [next |-> l.next, entries |-> l.entries]

-----------------------------------------------------------------------------
(* Reading a page: the binary search, the gap rule and the next cursor.    *)

\* sort.Search over a slice that should be sorted: some index whose event is
\* above the cursor while the one before it is not.
SearchStart(src, after) ==
  LET RECURSIVE Bisect(_, _)
      Bisect(lo, hi) ==
        IF lo >= hi THEN lo
        ELSE LET mid == (lo + hi) \div 2
             IN  IF src[mid + 1].seq > after THEN Bisect(lo, mid) ELSE Bisect(mid + 1, hi)
  IN  IF after > 0 THEN Bisect(0, Len(src)) ELSE 0

\* A gap of one event goes unnoticed.
QueryFromOffByOne(src, cursor, after, limit) ==
  LET above == SelectSeq(src, LAMBDA e : e.seq > after)
      items == SubSeq(above, 1, IF Len(above) < limit THEN Len(above) ELSE limit)
      more  == Len(above) > limit
  IN  [items |-> items, more |-> more,
       gap   |-> Len(src) > 0 /\ after > 0 /\ after < src[1].seq - 2,
       next  |-> IF more THEN items[Len(items)].seq ELSE cursor]

QueryFrom(src, cursor, after, limit) ==
  LET rest  == SubSeq(src, SearchStart(src, after) + 1, Len(src))
      above == SelectSeq(rest, LAMBDA e : e.seq > after)
      items == SubSeq(above, 1, IF Len(above) < limit THEN Len(above) ELSE limit)
      more  == Len(above) > limit
  IN  [items |-> items,
       more  |-> more,
       gap   |-> /\ Len(src) > 0
                 /\ after > 0
                 /\ after < src[1].seq - 1,
       next  |-> IF more THEN items[Len(items)].seq ELSE cursor]

Replay(after) == QueryFrom(log.history, log.next, after, Limit)

-----------------------------------------------------------------------------
(* Loading the files.                                                      *)

\* loadJournalLocked: the lines before the first one that does not parse.
JournalHistory(lines) ==
  LET bad == {i \in DOMAIN lines : lines[i] = Torn}
      n   == IF bad = {} THEN Len(lines) ELSE (CHOOSE i \in bad : \A j \in bad : i <= j) - 1
  IN  Tail2(SubSeq(lines, 1, n), HistoryMax)

MaxSeqOf(s, floor) ==
  LET high == {s[i].seq : i \in DOMAIN s} \cup {floor}
  IN  CHOOSE x \in high : \A y \in high : y <= x

\* Without a readable state file the journal is not even opened.
Load(d) ==
  IF d.state = None THEN EmptyLog
  ELSE LET recent  == Tail2(d.state.entries, MaxEntries)
           next    == MaxSeqOf(d.state.entries, d.state.next)
           lines   == JournalHistory(d.journal)
           history == IF lines = << >> THEN recent ELSE lines
           last    == IF history = << >> THEN 0 ELSE history[Len(history)].seq
       IN  [next    |-> IF last > next THEN last ELSE next,
            entries |-> IF history = << >> THEN recent ELSE Tail2(history, MaxEntries),
            history |-> history,
            trimmed |-> 0]

-----------------------------------------------------------------------------
Init ==
  /\ log = EmptyLog
  /\ task \in UNION {[crew -> {IdleTask}] : crew \in Crews}
  /\ writer = [pending |-> None, taken |-> None]
  /\ journal = [pending |-> << >>, taken |-> << >>]
  /\ disk = [state |-> None, journal |-> << >>, tmp |-> None]
  /\ life = 1
  /\ base = 0

\* record(event, true), inside the lock.
Record(r) ==
  LET e       == Event(life, log.next + 1)
      history == Append(log.history, e)
      trimmed == log.trimmed + (IF Len(history) > HistoryMax THEN Len(history) - HistoryMax ELSE 0)
      compact == trimmed >= CompactThreshold
      after   == [next    |-> log.next + 1,
                  entries |-> Tail2(Append(log.entries, e), MaxEntries),
                  history |-> Tail2(history, HistoryMax),
                  trimmed |-> IF compact THEN 0 ELSE trimmed]
  IN  /\ task[r].pc = "idle"
      /\ log.next < MaxSeq
      /\ log' = after
      /\ task' = [task EXCEPT ![r] =
                    [pc    |-> IF compact THEN "persist, compact" ELSE "persist, append",
                     snap  |-> Snapshot(after),
                     lines |-> IF compact THEN after.history ELSE <<e>>]]
      /\ UNCHANGED <<writer, journal, disk, life, base>>

\* Reset, inside the lock: everything forgotten, an empty journal to write.
Reset(r) ==
  /\ task[r].pc = "idle"
  /\ life < MaxLives
  /\ life' = life + 1
  /\ log' = EmptyLog
  /\ base' = 0
  /\ task' = [task EXCEPT ![r] = [pc |-> "persist, compact", snap |-> Snapshot(EmptyLog), lines |-> << >>]]
  /\ UNCHANGED <<writer, journal, disk>>

\* persist: Store replaces what the writer has not taken yet.
Persist(r) ==
  /\ task[r].pc \in {"persist, append", "persist, compact"}
  /\ writer' = [writer EXCEPT !.pending = task[r].snap]
  /\ task' = [task EXCEPT ![r].pc = IF @ = "persist, append" THEN "append" ELSE "flush"]
  /\ UNCHANGED <<log, journal, disk, life, base>>

\* appendJournal: Store adds the line to what the writer has not taken yet.
AppendJournal(r) ==
  /\ task[r].pc = "append"
  /\ journal' = [journal EXCEPT !.pending = @ \o task[r].lines]
  /\ task' = [task EXCEPT ![r] = IdleTask]
  /\ UNCHANGED <<log, writer, disk, life, base>>

\* compactJournal: the pending lines go to the file first, then the file is
\* rewritten through a temporary file all compactions share.
CompactFlush(r) ==
  /\ task[r].pc = "flush"
  /\ disk' = [disk EXCEPT !.journal = @ \o journal.pending]
  /\ journal' = [journal EXCEPT !.pending = << >>]
  /\ task' = [task EXCEPT ![r].pc = "write"]
  /\ UNCHANGED <<log, writer, life, base>>

CompactWrite(r) ==
  /\ task[r].pc = "write"
  /\ disk' = [disk EXCEPT !.tmp = [lines |-> task[r].lines]]
  /\ task' = [task EXCEPT ![r].pc = "rename"]
  /\ UNCHANGED <<log, writer, journal, life, base>>

\* A rename that fails (the temporary file is gone) removes the journal.
CompactRename(r) ==
  /\ task[r].pc = "rename"
  /\ disk' = [disk EXCEPT !.journal = IF disk.tmp = None THEN << >> ELSE disk.tmp.lines, !.tmp = None]
  /\ task' = [task EXCEPT ![r] = IdleTask]
  /\ UNCHANGED <<log, writer, journal, life, base>>

\* nodeRuntimeStateWriter.run: the pending snapshot is taken under the
\* writer's lock and written outside it.
StateTake ==
  /\ writer.pending # None /\ writer.taken = None
  /\ writer' = [pending |-> None, taken |-> writer.pending]
  /\ UNCHANGED <<log, task, journal, disk, life, base>>
StateWrite ==
  /\ writer.taken # None
  /\ disk' = [disk EXCEPT !.state = writer.taken]
  /\ writer' = [writer EXCEPT !.taken = None]
  /\ UNCHANGED <<log, task, journal, life, base>>

\* nodeRuntimeAppendWriter.run, the same for the journal's lines.
JournalTake ==
  /\ journal.pending # << >> /\ journal.taken = << >>
  /\ journal' = [pending |-> << >>, taken |-> journal.pending]
  /\ UNCHANGED <<log, task, writer, disk, life, base>>
JournalWrite ==
  /\ journal.taken # << >>
  /\ disk' = [disk EXCEPT !.journal = @ \o journal.taken]
  /\ journal' = [journal EXCEPT !.taken = << >>]
  /\ UNCHANGED <<log, task, writer, life, base>>

\* The process starts on the files as d leaves them.
Restart(d) ==
  /\ life < MaxLives
  /\ life' = life + 1
  /\ disk' = d
  /\ log' = Load(d)
  /\ base' = Load(d).next
  /\ task' = [r \in Recorders |-> IdleTask]
  /\ writer' = [pending |-> None, taken |-> None]
  /\ journal' = [pending |-> << >>, taken |-> << >>]

\* A crash: what is pending is lost, and of the lines being appended a prefix
\* reaches the file, the last one perhaps torn.
Crash ==
  \E n \in 0 .. Len(journal.taken), torn \in BOOLEAN :
    /\ torn => n < Len(journal.taken)
    /\ Restart([disk EXCEPT !.journal = @ \o SubSeq(journal.taken, 1, n) \o (IF torn THEN <<Torn>> ELSE << >>)])

\* Close with no recorder at work: it compacts if the history was trimmed and
\* flushes both writers; what the writers had taken may be written last.
Close ==
  /\ \A r \in Recorders : task[r].pc = "idle"
  /\ \E late \in BOOLEAN :
       LET taken == writer.taken
           flushed == journal.pending
           lines == disk.journal \o (IF late THEN flushed \o journal.taken ELSE journal.taken \o flushed)
       IN  Restart([disk EXCEPT
                      !.state = IF taken # None /\ (late \/ writer.pending = None) THEN taken
                                ELSE IF writer.pending # None THEN writer.pending ELSE @,
                      !.journal = IF log.trimmed > 0 /\ log.history # << >>
                                  THEN log.history \o (IF late THEN journal.taken ELSE << >>) ELSE lines,
                      !.tmp = None])

RecorderStep(r) ==
  \/ Persist(r) \/ AppendJournal(r)
  \/ CompactFlush(r) \/ CompactWrite(r) \/ CompactRename(r)

Next ==
  \/ \E r \in Recorders : Record(r) \/ Reset(r) \/ RecorderStep(r)
  \/ StateTake \/ StateWrite \/ JournalTake \/ JournalWrite
  \/ Crash \/ Close

Spec == Init /\ [][Next]_vars

-----------------------------------------------------------------------------
\* What the log recorded in this life (and since the last Reset of it) above
\* a cursor handed out in this life.
RecordedAbove(c) == {s \in base + 1 .. log.next : s > c}

(* A reader that continues from a cursor this life of the process gave it   *)
(* loses no event silently: whatever an unclean file left in the history,   *)
(* and however far it was trimmed, every event recorded since is on the     *)
(* page, or the page says there is more from a cursor below it, or it says  *)
(* gap (query, snapshotNodeEventQueryEntries).                              *)
ReplayComplete ==
  \A c \in base .. log.next :
    LET page == Replay(c)
        got  == {page.items[i] : i \in DOMAIN page.items}
    IN  c > 0 =>
          \/ page.gap
          \/ \A s \in RecordedAbove(c) :
               \/ Event(life, s) \in got
               \/ page.more /\ page.next < s

Quiet ==
  /\ \A r \in Recorders : task[r].pc = "idle"
  /\ writer = [pending |-> None, taken |-> None]
  /\ journal = [pending |-> << >>, taken |-> << >>]

(* Once one recorder's writes have all reached the files, a restart goes on *)
(* from the cursor or above it: no sequence number is given out twice       *)
(* (record, persist, load).  Two recorders may store their snapshots in the *)
(* opposite order, so the statement is about one.                           *)
CursorSurvives ==
  Quiet /\ Cardinality(Recorders) = 1 => Load(disk).next >= log.next
=============================================================================

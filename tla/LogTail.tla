------------------------------- MODULE LogTail -------------------------------
(***************************************************************************)
(* The log tailer: tail_log(), _read_batch() and _write_batch() of         *)
(* src/log_processor.py, with nginx and logrotate as its environment.      *)
(*                                                                         *)
(* A file is a sequence of half lines: <<l, 1>> is the beginning of line   *)
(* l, <<l, 2>> its end with the newline.  Offsets and read sizes count     *)
(* half lines, so an offset can fall inside a line and a read can meet a   *)
(* line nginx is still writing.  The steps between two awaits of the loop  *)
(* are split where another process matters: opening, checking and reading, *)
(* looking at the path again, and committing a batch.                      *)
(***************************************************************************)
EXTENDS Integers, Sequences, FiniteSets

CONSTANTS
    LastLine,       \* bound: nginx writes lines 1..LastLine
    Dropped,        \* lines skip_reason() or the parser drops
    Inode,          \* inode numbers the file system hands out, reused
    FingerprintLen, \* _FINGERPRINT_BYTES, in half lines
    MaxRead,        \* _MAX_READ_BYTES, in half lines
    Backlogs,       \* values of INGEST_EXISTING_BACKLOG to consider
    CopyTruncates,  \* may logrotate truncate the file in place?
    MaxFaults       \* bound: crashes and failed transactions

Line == 1..LastLine
None == 0           \* no inode: nothing open, nothing at the path

ASSUME LogTailAssumption ==
    /\ LastLine \in Nat
    /\ Dropped \subseteq Line
    /\ Inode \subseteq Nat \ {None} /\ Inode # {}
    /\ FingerprintLen \in Nat \ {0} /\ MaxRead \in Nat \ {0}
    /\ Backlogs \subseteq BOOLEAN
    /\ CopyTruncates \in BOOLEAN
    /\ MaxFaults \in Nat

VARIABLES
    files,      \* content of each inode
    path,       \* what LOG_PATH names
    nginx,      \* the inode nginx writes to
    written,    \* how many half lines nginx has written, 2 per line
    saved,      \* file_offset, file_inode, file_fingerprint in processor_state
    stored,     \* how many rows `visits` has for each line
    tail,       \* the tailer's local state
    backlog,    \* INGEST_EXISTING_BACKLOG
    skipped,    \* history: lines a start at the end of the file passed over
    faults

vars == <<files, path, nginx, written, saved, stored, tail, backlog, skipped,
          faults>>

-----------------------------------------------------------------------------
(* Files *)

IsEnd(half) == half[2] = 2

\* Where whole line l stands in f: the position of its end.  A fragment left
\* by a truncation in the middle of a line is not one.
EndsOf(f, l) ==
    {i \in 2..Len(f) : /\ f[i] = <<l, 2>> /\ f[i - 1] = <<l, 1>>
                       /\ (i = 2 \/ IsEnd(f[i - 2]))}

LinesIn(f, from, to) ==
    {l \in Line : \E i \in EndsOf(f, l) : from < i - 1 /\ i <= to}

\* _fingerprint()
Fingerprint(f) ==
    IF Len(f) < FingerprintLen THEN << >> ELSE SubSeq(f, 1, FingerprintLen)

\* _starts_a_line(); reading past the end of the file yields no newline.
StartsALine(f, offset) == offset = 0 \/ (offset <= Len(f) /\ IsEnd(f[offset]))

\* Where _read_batch() stops: whole lines until the budget is reached.  The
\* unterminated rest stays, unless it alone exceeds the budget.
BatchEnd(f, offset) ==
    LET ends == {i \in (offset + 1)..Len(f) : IsEnd(f[i])}
        inBudget == {i \in ends : \A j \in ends : j < i => j - offset < MaxRead}
    IN  IF ends # {} THEN CHOOSE i \in inBudget : \A j \in inBudget : j <= i
        ELSE IF Len(f) - offset >= MaxRead THEN Len(f)
        ELSE offset

-----------------------------------------------------------------------------

Down == [pc |-> "down", fd |-> None, offset |-> 0, inode |-> None,
         fp |-> << >>, atEnd |-> FALSE, batch |-> {}, end |-> 0]

NotSaved == [known |-> FALSE, offset |-> 0, inode |-> None, fp |-> << >>]

Init ==
    /\ files = [i \in Inode |-> << >>]
    /\ path \in Inode /\ nginx = path
    /\ written = 0
    /\ saved = NotSaved
    /\ stored = [l \in Line |-> 0]
    /\ tail = Down
    /\ backlog \in Backlogs
    /\ skipped = {}
    /\ faults = 0

-----------------------------------------------------------------------------
(* nginx and logrotate *)

\* nginx writes half a line.
Write ==
    LET half == <<(written \div 2) + 1, (written % 2) + 1>> IN
    /\ written < 2 * LastLine
    /\ files' = [files EXCEPT ![nginx] = Append(@, half)]
    /\ written' = written + 1
    /\ UNCHANGED <<path, nginx, saved, stored, tail, backlog, skipped, faults>>

\* logrotate renames the log; nginx keeps writing to the file it has open.
Rename ==
    /\ path # None /\ nginx = path
    /\ path' = None
    /\ UNCHANGED <<files, nginx, written, saved, stored, tail, backlog, skipped,
                   faults>>

\* The new log is created; its inode number may be one that was freed.
Create(i) ==
    /\ path = None
    /\ i \notin {nginx, tail.fd}
    /\ files' = [files EXCEPT ![i] = << >>]
    /\ path' = i
    /\ UNCHANGED <<nginx, written, saved, stored, tail, backlog, skipped, faults>>

\* USR1: nginx reopens the log.
Reopen ==
    /\ path # None /\ nginx # path
    /\ nginx' = path
    /\ UNCHANGED <<files, path, written, saved, stored, tail, backlog, skipped,
                   faults>>

\* copytruncate
Truncate ==
    /\ CopyTruncates /\ path # None /\ files[path] # << >>
    /\ files' = [files EXCEPT ![path] = << >>]
    /\ UNCHANGED <<path, nginx, written, saved, stored, tail, backlog, skipped,
                   faults>>

-----------------------------------------------------------------------------
(* tail_log() *)

\* The stored position is read once.
Start ==
    /\ tail.pc = "down"
    /\ tail' = [Down EXCEPT !.pc = "open", !.offset = saved.offset,
                            !.inode = saved.inode, !.fp = saved.fp,
                            !.atEnd = ~saved.known /\ ~backlog]
    /\ UNCHANGED <<files, path, nginx, written, saved, stored, backlog, skipped,
                   faults>>

\* No stored position: start at the end of the file.
OpenAtEnd ==
    LET f == files[path] IN
    /\ tail.pc = "open" /\ path # None
    /\ tail.atEnd
    /\ tail' = [tail EXCEPT !.pc = "poll", !.fd = path, !.inode = path,
                            !.offset = Len(f), !.fp = Fingerprint(f),
                            !.atEnd = FALSE]
    /\ skipped' = skipped \cup LinesIn(f, 0, Len(f))
    /\ UNCHANGED <<files, path, nginx, written, saved, stored, backlog, faults>>

\* A different inode is read from its beginning; the same one keeps the stored
\* fingerprint, to be compared with what the file holds now.
Open ==
    LET new == path # tail.inode IN
    /\ tail.pc = "open" /\ path # None
    /\ ~tail.atEnd
    /\ tail' = [tail EXCEPT !.pc = "poll", !.fd = path, !.inode = path,
                            !.offset = IF new THEN 0 ELSE @,
                            !.fp = IF new THEN Fingerprint(files[path]) ELSE @]
    /\ UNCHANGED <<files, path, nginx, written, saved, stored, backlog, skipped,
                   faults>>

\* Broken variant of Afresh: the descriptor is closed but not forgotten.
AfreshKeepingFd == [tail EXCEPT !.pc = "open", !.offset = 0, !.inode = None]

\* The descriptor is closed; whatever is at the path is read afresh.
Afresh == [tail EXCEPT !.pc = "open", !.fd = None, !.offset = 0, !.inode = None]

\* Broken variant of Replaced: no fingerprint.
ReplacedBySize(f) ==
    tail.offset # 0 /\ (Len(f) < tail.offset \/ ~StartsALine(f, tail.offset))

\* Shrunk, other opening bytes, or an offset inside a line.
Replaced(f) ==
    /\ tail.offset # 0
    /\ \/ Len(f) < tail.offset
       \/ tail.fp # << >> /\ Fingerprint(f) # << >> /\ Fingerprint(f) # tail.fp
       \/ ~StartsALine(f, tail.offset)

NoticeReplaced ==
    /\ tail.pc = "poll" /\ Replaced(files[tail.fd])
    /\ tail' = Afresh
    /\ UNCHANGED <<files, path, nginx, written, saved, stored, backlog, skipped,
                   faults>>

\* A batch is read and handed to the thread that writes it.
Read ==
    LET f == files[tail.fd]
        end == BatchEnd(f, tail.offset) IN
    /\ tail.pc = "poll" /\ ~Replaced(f)
    /\ end # tail.offset
    /\ tail' = [tail EXCEPT !.pc = "write", !.end = end, !.fp = Fingerprint(f),
                            !.batch = LinesIn(f, tail.offset, end) \ Dropped]
    /\ UNCHANGED <<files, path, nginx, written, saved, stored, backlog, skipped,
                   faults>>

\* Broken variant of ReadNothing: the path is never looked at again.
ReadNothingForever ==
    LET f == files[tail.fd] IN
    /\ tail.pc = "poll" /\ ~Replaced(f)
    /\ BatchEnd(f, tail.offset) = tail.offset
    /\ UNCHANGED vars

\* End of the file, or of its whole lines.
ReadNothing ==
    LET f == files[tail.fd] IN
    /\ tail.pc = "poll" /\ ~Replaced(f)
    /\ BatchEnd(f, tail.offset) = tail.offset
    /\ tail' = [tail EXCEPT !.pc = "drained"]
    /\ UNCHANGED <<files, path, nginx, written, saved, stored, backlog, skipped,
                   faults>>

\* _path_replaced(): switch to the new file, or poll this one again.
LookAtPath ==
    /\ tail.pc = "drained"
    /\ tail' = IF path # None /\ path # tail.inode
                 THEN Afresh ELSE [tail EXCEPT !.pc = "poll"]
    /\ UNCHANGED <<files, path, nginx, written, saved, stored, backlog, skipped,
                   faults>>

\* Broken variant of Commit: the position is left to another transaction.
CommitRowsOnly ==
    /\ tail.pc = "write"
    /\ stored' = [l \in Line |-> IF l \in tail.batch THEN stored[l] + 1
                                                     ELSE stored[l]]
    /\ tail' = [tail EXCEPT !.pc = "poll", !.offset = tail.end, !.batch = {}]
    /\ UNCHANGED <<files, path, nginx, written, saved, backlog, skipped, faults>>

\* _write_batch(): rows and read position in one transaction.
Commit ==
    /\ tail.pc = "write"
    /\ stored' = [l \in Line |-> IF l \in tail.batch THEN stored[l] + 1
                                                     ELSE stored[l]]
    /\ saved' = [known |-> TRUE, offset |-> tail.end, inode |-> tail.inode,
                 fp |-> tail.fp]
    /\ tail' = [tail EXCEPT !.pc = "poll", !.offset = tail.end, !.batch = {}]
    /\ UNCHANGED <<files, path, nginx, written, backlog, skipped, faults>>

\* Broken variant of CommitFails: the offset moves past unwritten lines.
CommitFailsAdvancing ==
    /\ faults < MaxFaults /\ faults' = faults + 1
    /\ tail.pc = "write"
    /\ tail' = [tail EXCEPT !.pc = "poll", !.offset = tail.end, !.batch = {}]
    /\ UNCHANGED <<files, path, nginx, written, saved, stored, backlog, skipped>>

\* The transaction fails and rolls back; the loop backs off and polls again.
CommitFails ==
    /\ faults < MaxFaults /\ faults' = faults + 1
    /\ tail.pc = "write"
    /\ tail' = [tail EXCEPT !.pc = "poll", !.batch = {}]
    /\ UNCHANGED <<files, path, nginx, written, saved, stored, backlog, skipped>>

Crash ==
    /\ faults < MaxFaults /\ faults' = faults + 1
    /\ tail.pc # "down"
    /\ tail' = Down
    /\ UNCHANGED <<files, path, nginx, written, saved, stored, backlog, skipped>>

-----------------------------------------------------------------------------

Tailer ==
    \/ Start \/ OpenAtEnd \/ Open \/ NoticeReplaced \/ Read \/ ReadNothing
    \/ LookAtPath \/ Commit

Rotation == Rename \/ (\E i \in Inode : Create(i)) \/ Reopen \/ Truncate

Next == Tailer \/ Write \/ Rotation \/ CommitFails \/ Crash

Spec == Init /\ [][Next]_vars

\* The loop sleeps a bounded time after each step and never ends by itself.
FairSpec == Spec /\ WF_vars(Tailer)

-----------------------------------------------------------------------------
(* Properties *)

Content == Seq(Line \X {1, 2})

TypeOK ==
    /\ \A i \in Inode : files[i] \in Content
    /\ path \in Inode \cup {None} /\ nginx \in Inode
    /\ written \in 0..(2 * LastLine)
    /\ saved.known \in BOOLEAN /\ saved.offset \in Nat
    /\ saved.inode \in Inode \cup {None} /\ saved.fp \in Content
    /\ stored \in [Line -> Nat]
    /\ tail.pc \in {"down", "open", "poll", "write", "drained"}
    /\ tail.fd \in (IF tail.pc \in {"down", "open"} THEN {None} ELSE Inode)
    /\ tail.inode \in Inode \cup {None}
    /\ tail.offset \in Nat /\ tail.end \in Nat
    /\ tail.atEnd \in BOOLEAN /\ tail.batch \subseteq Line
    /\ skipped \subseteq Line

\* A line becomes one row, whatever crashes, failed commits, rotations and
\* re-reads come between -- without the help of the request identity index.
NoDuplicates == \A l \in Line : stored[l] <= 1

\* The file the stored position is about, if it is still the same file.
SameFile == /\ saved.known
            /\ Len(files[saved.inode]) >= saved.offset
            /\ saved.fp = Fingerprint(files[saved.inode])

\* The stored position and the stored rows agree: every line before it is in
\* `visits` and none behind it is, so that whoever reads on from it neither
\* repeats nor misses a line.
PositionMatchesRows ==
    SameFile =>
        LET f == files[saved.inode] IN
        /\ LinesIn(f, 0, saved.offset) \ (Dropped \cup skipped)
             \subseteq {l \in Line : stored[l] > 0}
        /\ \A l \in LinesIn(f, saved.offset, Len(f)) : stored[l] = 0

\* Nothing in the middle of a file is passed over: a stored line's
\* predecessors in the same file are stored as well.
NoGaps ==
    \A i \in Inode, l \in Line : stored[l] > 0 =>
        \A n \in EndsOf(files[i], l) :
            \A k \in LinesIn(files[i], 0, n - 2) :
                k \in Dropped \cup skipped \/ stored[k] > 0

\* A line in the current log ends up in `visits`, after any rotation,
\* truncation, inode reuse or restart -- unless the file goes away first.
LinesArrive ==
    \A l \in Line \ Dropped :
        []<>(stored[l] > 0 \/ l \in skipped \/ path = None
             \/ EndsOf(files[path], l) = {})

\* "Holding [the descriptor] means the old file is drained to EOF first and
\* only then swapped": of a log the tailer was reading when it was renamed
\* away, every line reaches `visits` before nobody has the file open any more.
RotationLosesNothing ==
    \A i \in Inode \ {path, nginx, tail.fd} :
        LET lines == LinesIn(files[i], 0, Len(files[i])) IN
        (\E l \in lines : stored[l] > 0) =>
            \A l \in lines \ Dropped : stored[l] > 0 \/ l \in skipped
=============================================================================

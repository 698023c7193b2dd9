------------------------------ MODULE LogTailProofs ------------------------------
(***************************************************************************)
(* The log tailer, for every number of lines, inodes and faults, every     *)
(* read budget and every way the log is rotated: what is read becomes one  *)
(* row, and the stored position and the rows agree.                        *)
(***************************************************************************)
EXTENDS LogTail, SequenceTheorems, WellFoundedInduction, TLAPS

Half == Line \X {1, 2}

\* The number of a half line, in the order nginx writes them.
Num(half) == 2 * half[1] + half[2] - 2

\* One half line after the other.
Run(f) == \A p \in 2..Len(f) : Num(f[p]) = Num(f[p - 1]) + 1

-----------------------------------------------------------------------------
(* Half lines and runs of them *)

\* Halves with the same number are the same, and beginnings and ends alternate.
LEMMA Halves ==
    ASSUME NEW a \in Half, NEW b \in Half
    PROVE  /\ Num(a) \in Nat \ {0}
           /\ Num(a) = Num(b) => a = b
           /\ Num(b) = Num(a) + 1 => /\ IsEnd(a) <=> ~IsEnd(b)
                                     /\ IsEnd(b) => a = <<b[1], 1>>
<1>1. /\ a[1] \in Nat \ {0} /\ a[2] \in {1, 2} /\ b[1] \in Nat \ {0} /\ b[2] \in {1, 2}
      /\ a = <<a[1], a[2]>> /\ b = <<b[1], b[2]>>
  BY LogTailAssumption DEF Half, Line, LogTailAssumption
<1>2. Num(a) \in Nat \ {0}
  BY <1>1 DEF Num
<1>3. ASSUME Num(a) = Num(b) PROVE a = b
  <2>1. a[1] = b[1] /\ a[2] = b[2]
    BY <1>1, <1>3 DEF Num
  <2> QED BY <1>1, <2>1
<1>4. ASSUME Num(b) = Num(a) + 1
      PROVE  \/ a[2] = 1 /\ b[2] = 2 /\ a[1] = b[1]
             \/ a[2] = 2 /\ b[2] = 1
  BY <1>1, <1>4 DEF Num
<1>5. ASSUME Num(b) = Num(a) + 1
      PROVE  (IsEnd(a) <=> ~IsEnd(b)) /\ (IsEnd(b) => a = <<b[1], 1>>)
  BY <1>1, <1>4, <1>5 DEF IsEnd
<1> QED BY <1>2, <1>3, <1>5

\* What nginx writes next is the next half.
LEMMA NextHalf ==
    ASSUME NEW w \in Nat, w < 2 * LastLine
    PROVE  /\ <<(w \div 2) + 1, (w % 2) + 1>> \in Half
           /\ Num(<<(w \div 2) + 1, (w % 2) + 1>>) = w + 1
<1> DEFINE q == w \div 2
           r == w % 2
<1>1. q \in Nat /\ r \in {0, 1} /\ w = 2 * q + r
  OBVIOUS
<1> HIDE DEF q, r
<1>2. q + 1 \in Line /\ r + 1 \in {1, 2}
  BY <1>1, LogTailAssumption DEF Line, LogTailAssumption
<1>3. <<q + 1, r + 1>> \in Half /\ Num(<<q + 1, r + 1>>) = w + 1
  BY <1>1, <1>2 DEF Half, Num
<1> QED BY <1>3 DEF q, r

\* In a run a line is where its end is.
LEMMA LinesOfRun ==
    ASSUME NEW f \in Content, Run(f)
    PROVE  /\ \A l \in Line : EndsOf(f, l) = {p \in 2..Len(f) : f[p] = <<l, 2>>}
           /\ \A from, to \in Nat : \A l :
                l \in LinesIn(f, from, to) <=>
                  \E p \in 2..Len(f) : f[p] = <<l, 2>> /\ from < p - 1 /\ p <= to
<1>0. f \in Seq(Half) /\ Len(f) \in Nat /\ \A p \in 1..Len(f) : f[p] \in Half
  BY LenProperties, ElementOfSeq DEF Content, Half
<1>1. ASSUME NEW l \in Line, NEW p \in 2..Len(f), f[p] = <<l, 2>>
      PROVE  f[p - 1] = <<l, 1>> /\ (p = 2 \/ IsEnd(f[p - 2]))
  <2>1. p - 1 \in 1..Len(f) /\ p \in 1..Len(f) /\ IsEnd(f[p]) /\ f[p][1] = l
    BY <1>0, <1>1 DEF IsEnd
  <2>2. f[p - 1] = <<l, 1>> /\ ~IsEnd(f[p - 1])
    BY SMTT(30), <1>0, <2>1, Halves DEF Run
  <2>3. ASSUME p # 2 PROVE IsEnd(f[p - 2])
    <3>1. p - 2 \in 1..Len(f) /\ p - 1 \in 2..Len(f) /\ (p - 1) - 1 = p - 2
      BY <1>0, <2>3
    <3>2. Num(f[p - 1]) = Num(f[p - 2]) + 1
      BY <3>1 DEF Run
    <3>3. f[p - 2] \in Half /\ f[p - 1] \in Half
      BY <1>0, <2>1, <3>1
    <3> QED BY <2>2, <3>2, <3>3, Halves
  <2> QED BY <2>2, <2>3
<1>2. \A l \in Line : EndsOf(f, l) = {p \in 2..Len(f) : f[p] = <<l, 2>>}
  BY <1>1 DEF EndsOf
<1>3. ASSUME NEW p \in 2..Len(f), NEW l, f[p] = <<l, 2>> PROVE l \in Line
  <2>1. p \in 1..Len(f)
    BY <1>0
  <2>2. <<l, 2>> \in Half
    BY <1>0, <1>3, <2>1
  <2> QED BY <2>2 DEF Half
<1>4. ASSUME NEW from \in Nat, NEW to \in Nat, NEW l
      PROVE  l \in LinesIn(f, from, to) <=>
               \E p \in 2..Len(f) : f[p] = <<l, 2>> /\ from < p - 1 /\ p <= to
  <2>1. l \in LinesIn(f, from, to) <=>
          l \in Line /\ \E p \in EndsOf(f, l) : from < p - 1 /\ p <= to
    BY DEF LinesIn
  <2> QED BY <1>2, <1>3, <2>1
<1> QED BY <1>2, <1>4

\* A non-empty set of positions in a file has a first and a last one.
LEMMA FirstAndLast ==
    ASSUME NEW n \in Nat, NEW S, S \subseteq 1..n, S # {}
    PROVE  /\ \E i \in S : \A j \in S : i <= j
           /\ \E i \in S : \A j \in S : j <= i
<1>1. ASSUME NEW T, T \subseteq Nat, T # {} PROVE \E i \in T : \A j \in T : i <= j
  <2>1. PICK i \in T : \A j \in T : ~(<<j, i>> \in OpToRel(<, Nat))
    BY <1>1, NatLessThanWellFounded, WFMin
  <2>2. ASSUME NEW j \in T PROVE i <= j
    <3>1. ~(j < i)
      BY <1>1, <2>1 DEF OpToRel
    <3> QED BY <1>1, <3>1
  <2> QED BY <2>2
<1> DEFINE T == {n - i : i \in S}
<1>2. T \subseteq Nat /\ T # {}
  <2>1. \A i \in S : n - i \in Nat
    OBVIOUS
  <2>2. PICK i \in S : TRUE
    OBVIOUS
  <2>3. n - i \in T
    OBVIOUS
  <2> QED BY <2>1, <2>3
<1>3. PICK t \in T : \A u \in T : t <= u
  <2> HIDE DEF T
  <2> QED BY <1>1, <1>2
<1>4. PICK i \in S : t = n - i
  BY <1>3
<1>5. \A j \in S : n - i <= n - j
  BY <1>3, <1>4
<1>6. \A j \in S : j <= i
  BY <1>5
<1>7. S \subseteq Nat
  OBVIOUS
<1> QED BY <1>1, <1>6, <1>7

\* A batch ends at the end of a line, unless a single line exceeds the budget, or where
\* it began.
LEMMA BatchEnds ==
    ASSUME NEW f \in Content, NEW offset \in Nat
    PROVE  /\ BatchEnd(f, offset) \in Nat
           /\ BatchEnd(f, offset) # offset =>
                /\ BatchEnd(f, offset) \in (offset + 1)..Len(f)
                /\ (Run(f) /\ MaxRead >= 2) => IsEnd(f[BatchEnd(f, offset)])
<1> DEFINE ends == {i \in (offset + 1)..Len(f) : IsEnd(f[i])}
           inBudget == {i \in ends : \A j \in ends : j < i => j - offset < MaxRead}
           last == CHOOSE i \in inBudget : \A j \in inBudget : j <= i
<1>0. /\ Len(f) \in Nat /\ MaxRead \in Nat \ {0} /\ \A p \in 1..Len(f) : f[p] \in Half
  BY LenProperties, ElementOfSeq, LogTailAssumption DEF Content, Half, LogTailAssumption
<1>1. BatchEnd(f, offset) =
        IF ends # {} THEN last
        ELSE IF Len(f) - offset >= MaxRead THEN Len(f) ELSE offset
  BY DEF BatchEnd
<1>2. ends \subseteq 1..Len(f) /\ ends \subseteq (offset + 1)..Len(f)
      /\ \A i \in ends : IsEnd(f[i])
  BY <1>0
<1>3. CASE ends # {}
  <2> HIDE DEF ends
  <2>1. PICK i \in ends : \A j \in ends : i <= j
    BY <1>0, <1>2, <1>3, FirstAndLast
  <2>2. i \in inBudget
    BY <1>2, <2>1
  <2>3. inBudget # {} /\ inBudget \subseteq ends /\ inBudget \subseteq 1..Len(f)
    BY <1>2, <2>2
  <2> HIDE DEF inBudget
  <2>4. \E m \in inBudget : \A j \in inBudget : j <= m
    BY <1>0, <2>3, FirstAndLast
  <2>5. last \in inBudget
    BY <2>4
  <2> HIDE DEF last
  <2>6. BatchEnd(f, offset) \in ends
    BY <1>1, <1>3, <2>3, <2>5
  <2>7. BatchEnd(f, offset) \in (offset + 1)..Len(f) /\ IsEnd(f[BatchEnd(f, offset)])
    BY <1>2, <2>6
  <2> QED BY <1>0, <2>7
<1>4. CASE ends = {}
  <2>1. CASE Len(f) - offset >= MaxRead
    <3>1. BatchEnd(f, offset) = Len(f)
      BY <1>1, <1>4, <2>1
    <3>2. offset < Len(f)
      BY <1>0, <2>1
    <3>3. ASSUME Run(f), MaxRead >= 2 PROVE FALSE
      <4>1. /\ offset + 1 \in 1..Len(f) /\ offset + 2 \in 2..Len(f) /\ offset + 2 \in 1..Len(f)
            /\ (offset + 2) - 1 = offset + 1
        BY <1>0, <2>1, <3>3
      <4>2. Num(f[offset + 2]) = Num(f[offset + 1]) + 1
        BY <3>3, <4>1 DEF Run
      <4>3. f[offset + 1] \in Half /\ f[offset + 2] \in Half
        BY <1>0, <4>1
      <4>4. IsEnd(f[offset + 1]) \/ IsEnd(f[offset + 2])
        BY <4>2, <4>3, Halves
      <4>5. offset + 1 \in (offset + 1)..Len(f) /\ offset + 2 \in (offset + 1)..Len(f)
        BY <1>0, <4>1
      <4> QED BY <1>4, <4>4, <4>5
    <3> QED BY <1>0, <3>1, <3>2, <3>3
  <2>2. CASE ~(Len(f) - offset >= MaxRead)
    BY <1>1, <1>4, <2>2
  <2> QED BY <2>1, <2>2
<1> QED BY <1>3, <1>4

-----------------------------------------------------------------------------
(* Types *)

TailTypes ==
    /\ files \in [Inode -> Content]
    /\ path \in Inode \cup {None} /\ nginx \in Inode
    /\ written \in 0..(2 * LastLine)
    /\ saved \in [known : BOOLEAN, offset : Nat, inode : Inode \cup {None}, fp : Content]
    /\ stored \in [Line -> Nat]
    /\ tail \in [pc : {"down", "open", "poll", "write", "drained"}, fd : Inode \cup {None},
                 offset : Nat, inode : Inode \cup {None}, fp : Content, atEnd : BOOLEAN,
                 batch : SUBSET Line, end : Nat]
    /\ tail.pc \in {"down", "open"} => tail.fd = None
    /\ tail.pc \notin {"down", "open"} => tail.fd \in Inode /\ tail.inode = tail.fd
    /\ tail.pc # "write" => tail.batch = {}
    /\ backlog \in BOOLEAN /\ skipped \subseteq Line

\* A fingerprint is the beginning of a file.
LEMMA FingerprintType == \A f \in Content : Fingerprint(f) \in Content
<1> SUFFICES ASSUME NEW f \in Content PROVE Fingerprint(f) \in Content
  OBVIOUS
<1>1. FingerprintLen \in Nat \ {0} /\ f \in Seq(Half) /\ Len(f) \in Nat
  BY LogTailAssumption, LenProperties DEF LogTailAssumption, Content, Half
<1>2. CASE Len(f) < FingerprintLen
  BY <1>2, EmptySeq DEF Fingerprint, Content
<1>3. CASE ~(Len(f) < FingerprintLen)
  <2>1. \A i \in 1..FingerprintLen : f[i] \in Half
    BY <1>1, <1>3, ElementOfSeq
  <2>2. SubSeq(f, 1, FingerprintLen) \in Seq(Half)
    BY <1>1, <2>1, SubSeqProperties
  <2> QED BY <1>3, <2>2 DEF Fingerprint, Content, Half
<1> QED BY <1>2, <1>3

\* At the start the types are right.
LEMMA TailTypesInit == Init => TailTypes
<1> SUFFICES ASSUME Init PROVE TailTypes
  OBVIOUS
<1>1. << >> \in Content /\ None \notin Inode /\ LastLine \in Nat /\ Inode # {}
  BY EmptySeq, LogTailAssumption DEF LogTailAssumption, Content
<1>2. backlog \in BOOLEAN /\ skipped \subseteq Line
  BY LogTailAssumption DEF Init, LogTailAssumption
<1>3. FALSE \in BOOLEAN
  OBVIOUS
<1>4. /\ files \in [Inode -> Content] /\ path \in Inode \cup {None} /\ nginx \in Inode
      /\ written \in 0..(2 * LastLine) /\ stored \in [Line -> Nat]
  BY <1>1 DEF Init
<1>5. saved \in [known : BOOLEAN, offset : Nat, inode : Inode \cup {None}, fp : Content]
  BY <1>1, <1>3 DEF Init, NotSaved
<1>6. /\ tail \in [pc : {"down", "open", "poll", "write", "drained"}, fd : Inode \cup {None},
                   offset : Nat, inode : Inode \cup {None}, fp : Content, atEnd : BOOLEAN,
                   batch : SUBSET Line, end : Nat]
      /\ tail.pc = "down" /\ tail.fd = None /\ tail.batch = {}
  BY <1>1, <1>3 DEF Init, Down
<1> QED BY <1>2, <1>4, <1>5, <1>6 DEF TailTypes

\* What the environment does to the files: a half line is added where nginx writes, or a
\* file is emptied.
LEMMA EnvironmentMoves ==
    ASSUME TailTypes, Write \/ Rotation
    PROVE  /\ UNCHANGED <<saved, stored, tail, backlog, skipped>>
           /\ \/ /\ written' = written + 1 /\ written < 2 * LastLine
                 /\ <<(written \div 2) + 1, (written % 2) + 1>> \in Half
                 /\ Num(<<(written \div 2) + 1, (written % 2) + 1>>) = written + 1
                 /\ files' = [files EXCEPT ![nginx] =
                                Append(@, <<(written \div 2) + 1, (written % 2) + 1>>)]
                 /\ UNCHANGED <<path, nginx>>
              \/ /\ written' = written /\ UNCHANGED <<files, nginx>> /\ path' = None
              \/ /\ written' = written /\ UNCHANGED <<files, path>>
                 /\ nginx # path /\ path # None /\ nginx' = path
              \/ /\ written' = written /\ nginx' = nginx
                 /\ \E i \in Inode : /\ files' = [files EXCEPT ![i] = << >>]
                                     /\ \/ path' = path
                                        \/ path = None /\ path' = i /\ i # tail.fd /\ i # nginx
<1>1. CASE Write
  <2>1. written \in Nat /\ written < 2 * LastLine
    BY <1>1, LogTailAssumption DEF Write, TailTypes, LogTailAssumption
  <2> DEFINE half == <<(written \div 2) + 1, (written % 2) + 1>>
  <2>2. half \in Half /\ Num(half) = written + 1
    BY <2>1, NextHalf
  <2>3. /\ files' = [files EXCEPT ![nginx] = Append(@, half)] /\ written' = written + 1
        /\ UNCHANGED <<path, nginx, saved, stored, tail, backlog, skipped>>
    BY <1>1 DEF Write
  <2> HIDE DEF half
  <2>4. half = <<(written \div 2) + 1, (written % 2) + 1>>
    BY DEF half
  <2> QED BY <2>1, <2>2, <2>3, <2>4
<1>2. CASE Rename
  BY <1>2 DEF Rename
<1>3. CASE \E i \in Inode : Create(i)
  <2>1. PICK i \in Inode : Create(i)
    BY <1>3
  <2>2. /\ path = None /\ i # nginx /\ i # tail.fd
        /\ files' = [files EXCEPT ![i] = << >>] /\ path' = i
        /\ UNCHANGED <<nginx, written, saved, stored, tail, backlog, skipped>>
    BY <2>1 DEF Create
  <2> QED BY <2>2
<1>4. CASE Reopen
  BY <1>4 DEF Reopen
<1>5. CASE Truncate
  BY <1>5 DEF Truncate, TailTypes
<1> QED BY <1>1, <1>2, <1>3, <1>4, <1>5 DEF Rotation

\* nginx and logrotate keep the types.
LEMMA TailTypesEnvironment ==
    ASSUME TailTypes, Write \/ Rotation
    PROVE  TailTypes'
<1>1. /\ files \in [Inode -> Content] /\ nginx \in Inode /\ << >> \in Content
      /\ path \in Inode \cup {None} /\ written \in 0..(2 * LastLine) /\ LastLine \in Nat
  BY EmptySeq, LogTailAssumption DEF TailTypes, Content, LogTailAssumption
<1>2. ASSUME NEW half \in Half PROVE Append(files[nginx], half) \in Content
  BY <1>1, AppendProperties DEF Content, Half
<1>3. /\ files' \in [Inode -> Content] /\ nginx' \in Inode /\ path' \in Inode \cup {None}
      /\ written' \in 0..(2 * LastLine)
  <2> DEFINE half == <<(written \div 2) + 1, (written % 2) + 1>>
  <2>1. CASE /\ written' = written + 1 /\ written < 2 * LastLine /\ half \in Half
             /\ files' = [files EXCEPT ![nginx] = Append(@, half)]
             /\ UNCHANGED <<path, nginx>>
    <3> HIDE DEF half
    <3>1. Append(files[nginx], half) \in Content
      BY <1>2, <2>1
    <3> QED BY <1>1, <2>1, <3>1
  <2>2. CASE /\ written' = written /\ nginx' \in {nginx, path} /\ path' \in {None, path}
             /\ files' = files /\ (nginx' = nginx \/ path # None)
    BY <1>1, <2>2
  <2>3. CASE /\ written' = written /\ nginx' = nginx
             /\ \E i \in Inode : /\ files' = [files EXCEPT ![i] = << >>]
                                 /\ path' \in {path, i}
    BY <1>1, <2>3
  <2> QED BY <2>1, <2>2, <2>3, EnvironmentMoves
<1>4. UNCHANGED <<saved, stored, tail, backlog, skipped>>
  BY EnvironmentMoves
<1> QED BY <1>3, <1>4 DEF TailTypes

\* The steps of the tail loop keep the types.
LEMMA TailTypesTailer ==
    ASSUME TailTypes, Tailer \/ CommitFails \/ Crash
    PROVE  TailTypes'
<1> DEFINE Tails == [pc : {"down", "open", "poll", "write", "drained"}, fd : Inode \cup {None},
                     offset : Nat, inode : Inode \cup {None}, fp : Content, atEnd : BOOLEAN,
                     batch : SUBSET Line, end : Nat]
           Sound(t) == /\ t.pc \in {"down", "open"} => t.fd = None
                       /\ t.pc \notin {"down", "open"} => t.fd \in Inode /\ t.inode = t.fd
                       /\ t.pc # "write" => t.batch = {}
<1>0. /\ files \in [Inode -> Content] /\ path \in Inode \cup {None} /\ tail \in Tails
      /\ saved \in [known : BOOLEAN, offset : Nat, inode : Inode \cup {None}, fp : Content]
      /\ tail.pc \notin {"down", "open"} => tail.fd \in Inode /\ tail.inode = tail.fd
      /\ tail.pc # "write" => tail.batch = {}
      /\ tail.pc \in {"down", "open"} => tail.fd = None
      /\ << >> \in Content /\ stored \in [Line -> Nat]
      /\ \A f \in Content : Len(f) \in Nat /\ Fingerprint(f) \in Content
  BY EmptySeq, LenProperties, FingerprintType DEF TailTypes, Content
<1>1. TRUE \in BOOLEAN /\ FALSE \in BOOLEAN /\ (~saved.known /\ ~backlog) \in BOOLEAN
  BY Zenon
<1>2. Down \in Tails /\ Sound(Down)
  BY <1>0, <1>1 DEF Down
<1>3. CASE Start
  <2>1. /\ tail' = [Down EXCEPT !.pc = "open", !.offset = saved.offset, !.inode = saved.inode,
                                !.fp = saved.fp, !.atEnd = ~saved.known /\ ~backlog]
        /\ UNCHANGED <<files, path, nginx, written, saved, stored, backlog, skipped>>
    BY <1>3 DEF Start
  <2>2. tail' \in Tails /\ Sound(tail')
    BY <1>0, <1>1, <2>1 DEF Down
  <2> QED BY <2>1, <2>2 DEF TailTypes
<1>4. CASE OpenAtEnd
  <2>1. /\ path # None
        /\ tail' = [tail EXCEPT !.pc = "poll", !.fd = path, !.inode = path,
                                !.offset = Len(files[path]), !.fp = Fingerprint(files[path]),
                                !.atEnd = FALSE]
        /\ skipped' = skipped \cup LinesIn(files[path], 0, Len(files[path]))
        /\ tail.pc = "open"
        /\ UNCHANGED <<files, path, nginx, written, saved, stored, backlog>>
    BY <1>4 DEF OpenAtEnd
  <2>2. tail' \in Tails /\ Sound(tail')
    BY <1>0, <1>1, <2>1
  <2>3. skipped' \subseteq Line
    BY <2>1 DEF TailTypes, LinesIn
  <2> QED BY <2>1, <2>2, <2>3 DEF TailTypes
<1>5. CASE Open
  <2>1. /\ path # None /\ tail.pc = "open"
        /\ tail' = [tail EXCEPT !.pc = "poll", !.fd = path, !.inode = path,
                                !.offset = IF path # tail.inode THEN 0 ELSE @,
                                !.fp = IF path # tail.inode THEN Fingerprint(files[path]) ELSE @]
        /\ UNCHANGED <<files, path, nginx, written, saved, stored, backlog, skipped>>
    BY <1>5 DEF Open
  <2>2. tail' \in Tails /\ Sound(tail')
    BY <1>0, <2>1
  <2> QED BY <2>1, <2>2 DEF TailTypes
<1>6. CASE NoticeReplaced \/ LookAtPath \/ ReadNothing
  <2>1. /\ tail.pc \in {"poll", "drained"}
        /\ tail' \in {Afresh, [tail EXCEPT !.pc = "poll"], [tail EXCEPT !.pc = "drained"]}
        /\ UNCHANGED <<files, path, nginx, written, saved, stored, backlog, skipped>>
    BY <1>6 DEF NoticeReplaced, LookAtPath, ReadNothing
  <2>2. tail' \in Tails /\ Sound(tail')
    BY <1>0, <2>1 DEF Afresh
  <2> QED BY <2>1, <2>2 DEF TailTypes
<1>7. CASE Read
  <2> DEFINE f == files[tail.fd]
             end == BatchEnd(f, tail.offset)
             lines == LinesIn(f, tail.offset, end) \ Dropped
  <2>1. /\ tail.pc = "poll"
        /\ tail' = [tail EXCEPT !.pc = "write", !.end = end, !.fp = Fingerprint(f),
                                !.batch = lines]
        /\ UNCHANGED <<files, path, nginx, written, saved, stored, backlog, skipped>>
    BY <1>7 DEF Read
  <2>2. f \in Content /\ end \in Nat /\ lines \subseteq Line
    BY <1>0, <2>1, BatchEnds DEF LinesIn
  <2> HIDE DEF f, end, lines
  <2>3. tail' \in Tails /\ Sound(tail')
    BY <1>0, <2>1, <2>2
  <2> QED BY <2>1, <2>3 DEF TailTypes
<1>8. CASE Commit
  <2>1. /\ tail.pc = "write"
        /\ stored' = [l \in Line |-> IF l \in tail.batch THEN stored[l] + 1 ELSE stored[l]]
        /\ saved' = [known |-> TRUE, offset |-> tail.end, inode |-> tail.inode, fp |-> tail.fp]
        /\ tail' = [tail EXCEPT !.pc = "poll", !.offset = tail.end, !.batch = {}]
        /\ UNCHANGED <<files, path, nginx, written, backlog, skipped>>
    BY <1>8 DEF Commit
  <2>2. tail' \in Tails /\ Sound(tail')
    BY <1>0, <2>1
  <2>3. saved' \in [known : BOOLEAN, offset : Nat, inode : Inode \cup {None}, fp : Content]
    BY <1>0, <1>1, <2>1
  <2>4. stored' \in [Line -> Nat]
    BY <1>0, <2>1
  <2> QED BY <2>1, <2>2, <2>3, <2>4 DEF TailTypes
<1>9. CASE CommitFails \/ Crash
  <2>1. /\ \/ tail' = Down
           \/ tail.pc = "write" /\ tail' = [tail EXCEPT !.pc = "poll", !.batch = {}]
        /\ UNCHANGED <<files, path, nginx, written, saved, stored, backlog, skipped>>
    BY <1>9 DEF CommitFails, Crash
  <2>2. tail' \in Tails /\ Sound(tail')
    BY <1>0, <1>2, <2>1
  <2> QED BY <2>1, <2>2 DEF TailTypes
<1> QED BY <1>3, <1>4, <1>5, <1>6, <1>7, <1>8, <1>9 DEF Tailer

\* The types are inductive.
LEMMA TailTypesStep == TailTypes /\ [Next]_vars => TailTypes'
<1> SUFFICES ASSUME TailTypes, [Next]_vars PROVE TailTypes'
  OBVIOUS
<1>1. CASE UNCHANGED vars
  BY <1>1 DEF TailTypes, vars
<1> QED BY <1>1, TailTypesEnvironment, TailTypesTailer DEF Next

\* Types, for any contents of the log: the stored position names a file and an offset, the
\* descriptor is open exactly while the loop works on a file, and a batch is made of lines
\* (tail_log).
THEOREM TailTypesCorrect == Spec => []TypeOK
<1>1. TailTypes => TypeOK
  BY DEF TailTypes, TypeOK
<1> QED BY <1>1, TailTypesInit, TailTypesStep, PTL DEF Spec

-----------------------------------------------------------------------------
(* What the files hold *)

\* nginx writes each half once, in order, to one file at a time; the file at the path is
\* empty until nginx has opened it.
FilesInv ==
    /\ \A i \in Inode : Run(files[i])
    /\ \A i \in Inode : \A p \in 1..Len(files[i]) : Num(files[i][p]) <= written
    /\ files[nginx] # << >> => Num(files[nginx][Len(files[nginx])]) = written
    /\ \A i, j \in Inode : \A p \in 1..Len(files[i]), q \in 1..Len(files[j]) :
         files[i][p] = files[j][q] => i = j /\ p = q
    /\ path \notin {None, nginx} => files[path] = << >>

\* How a file changes in a step of the environment: not at all, by the next half, or by
\* being emptied.
Grown(f) == Append(f, <<(written \div 2) + 1, (written % 2) + 1>>)

\* nginx writes one half at the end of its file; a rotation moves or empties files.
LEMMA FilesMove ==
    ASSUME TailTypes, Write \/ Rotation
    PROVE  \A i \in Inode : \/ files'[i] = files[i] /\ written' \in {written, written + 1}
                            \/ files'[i] = << >> /\ written' = written
                            \/ /\ files'[i] = Grown(files[i]) /\ i = nginx
                               /\ written' = written + 1 /\ written < 2 * LastLine
<1>1. files \in [Inode -> Content] /\ nginx \in Inode
  BY DEF TailTypes
<1> DEFINE half == <<(written \div 2) + 1, (written % 2) + 1>>
<1>2. CASE /\ written' = written + 1 /\ written < 2 * LastLine
           /\ files' = [files EXCEPT ![nginx] = Append(@, half)]
  <2>1. Grown(files[nginx]) = Append(files[nginx], half)
    BY DEF Grown
  <2> HIDE DEF half
  <2> QED BY <1>1, <1>2, <2>1
<1>3. CASE files' = files /\ written' = written
  BY <1>3
<1>4. CASE written' = written /\ \E i \in Inode : files' = [files EXCEPT ![i] = << >>]
  BY <1>1, <1>4
<1> QED BY <1>2, <1>3, <1>4, EnvironmentMoves

\* A file and the half that is added to it.
LEMMA Longer ==
    ASSUME NEW f \in Content, NEW half \in Half
    PROVE  /\ Append(f, half) \in Content /\ Len(f) \in Nat
           /\ Len(Append(f, half)) = Len(f) + 1
           /\ Append(f, half)[Len(f) + 1] = half
           /\ \A p \in 1..Len(f) : Append(f, half)[p] = f[p] /\ f[p] \in Half
           /\ Append(f, half) # << >>
<1>1. f \in Seq(Half)
  BY DEF Content, Half
<1>2. Len(f) \in Nat /\ \A p \in 1..Len(f) : f[p] \in Half
  BY <1>1, LenProperties, ElementOfSeq
<1>3. /\ Append(f, half) \in Seq(Half) /\ Append(f, half) # << >>
      /\ Len(Append(f, half)) = Len(f) + 1
      /\ \A p \in 1..Len(f) : Append(f, half)[p] = f[p]
      /\ Append(f, half)[Len(f) + 1] = half
  BY <1>1, AppendProperties
<1> QED BY <1>2, <1>3 DEF Content, Half

\* The half that is written next.
LEMMA WrittenNext ==
    ASSUME TailTypes, written < 2 * LastLine
    PROVE  \E half \in Half : /\ Num(half) = written + 1
                              /\ \A f : Grown(f) = Append(f, half)
<1>1. written \in Nat
  BY LogTailAssumption DEF TailTypes, LogTailAssumption
<1> QED BY <1>1, NextHalf DEF Grown

\* At the start the one file is empty.
LEMMA FilesInit == Init => FilesInv
BY DEF Init, FilesInv, Run

\* A file that grows is still a run of consecutive halves, and so are all others.
LEMMA FilesGrow ==
    ASSUME TailTypes, FilesInv, Write
    PROVE  FilesInv'
<1>0. /\ files \in [Inode -> Content] /\ nginx \in Inode /\ written \in Nat
      /\ written' = written + 1 /\ written < 2 * LastLine /\ path' = path /\ nginx' = nginx
      /\ files' = [files EXCEPT ![nginx] = Grown(@)]
  BY LogTailAssumption DEF TailTypes, Write, Grown, LogTailAssumption
<1>1. PICK half \in Half : Num(half) = written + 1 /\ \A f : Grown(f) = Append(f, half)
  BY <1>0, WrittenNext
<1>11. Num(half) = written + 1 /\ written \in Nat /\ written' = written + 1
  BY <1>0, <1>1
<1> DEFINE f == files[nginx]
           n == Len(f) + 1
<1>2. /\ f \in Content /\ Len(f) \in Nat /\ files'[nginx] = Append(f, half)
      /\ Len(files'[nginx]) = n /\ files'[nginx][n] = half /\ files'[nginx] # << >>
      /\ \A p \in 1..Len(f) : files'[nginx][p] = f[p] /\ f[p] \in Half
      /\ \A i \in Inode \ {nginx} : files'[i] = files[i]
  <2>1. f \in Content /\ files'[nginx] = Append(f, half)
        /\ \A i \in Inode \ {nginx} : files'[i] = files[i]
    BY <1>0, <1>1
  <2> HIDE DEF f
  <2> QED BY <2>1, Longer
<1>3. \A i \in Inode : Len(files[i]) \in Nat /\ \A p \in 1..Len(files[i]) : files[i][p] \in Half
  BY <1>0, Longer
<1>4. \A i \in Inode : \A p \in 1..Len(files[i]) : /\ Num(files[i][p]) <= written
                                                   /\ Num(files[i][p]) \in Nat
                                                   /\ files[i][p] # half
  <2> SUFFICES ASSUME NEW i \in Inode, NEW p \in 1..Len(files[i])
               PROVE  /\ Num(files[i][p]) <= written /\ Num(files[i][p]) \in Nat
                      /\ files[i][p] # half
    OBVIOUS
  <2>1. files[i][p] \in Half /\ Num(files[i][p]) <= written
    BY <1>3 DEF FilesInv
  <2>2. Num(files[i][p]) \in Nat
    BY <2>1, Halves
  <2>3. ASSUME files[i][p] = half PROVE FALSE
    <3>1. Num(files[i][p]) = Num(half)
      BY <2>3
    <3> QED BY <1>11, <2>1, <3>1
  <2> QED BY <2>1, <2>2, <2>3
<1>5. ASSUME NEW i \in Inode PROVE Run(files'[i])
  <2>1. CASE i # nginx
    BY <1>2, <2>1 DEF FilesInv
  <2>2. CASE i = nginx
    <3> SUFFICES ASSUME NEW p \in 2..n PROVE Num(files'[nginx][p]) = Num(files'[nginx][p - 1]) + 1
      BY <1>2, <2>2 DEF Run
    <3>1. CASE p = n
      <4>1. n - 1 = Len(f) /\ Len(f) \in 1..Len(f) /\ f # << >>
        BY <1>2, <3>1
      <4>2. Num(f[Len(f)]) = written
        BY <4>1 DEF FilesInv
      <4> QED BY <1>1, <1>2, <3>1, <4>1, <4>2
    <3>2. CASE p # n
      <4>1. p \in 2..Len(f) /\ p \in 1..Len(f) /\ p - 1 \in 1..Len(f)
        BY <1>2, <3>2
      <4>2. Num(f[p]) = Num(f[p - 1]) + 1
        BY <1>0, <4>1 DEF FilesInv, Run
      <4> QED BY <1>2, <4>1, <4>2
    <3> QED BY <3>1, <3>2
  <2> QED BY <2>1, <2>2
\* Every half that is there was there, or is the new one at the end of nginx's file.
<1>6. ASSUME NEW i \in Inode, NEW p \in 1..Len(files'[i])
      PROVE  \/ p \in 1..Len(files[i]) /\ files'[i][p] = files[i][p]
             \/ i = nginx /\ p = n /\ files'[i][p] = half
  <2>1. CASE i # nginx
    BY <1>2, <2>1
  <2>2. CASE i = nginx
    BY SMTT(30), <1>2, <2>2
  <2> QED BY <2>1, <2>2
<1> HIDE DEF f, n
<1>7. ASSUME NEW i \in Inode, NEW p \in 1..Len(files'[i]) PROVE Num(files'[i][p]) <= written'
  <2>1. CASE p \in 1..Len(files[i]) /\ files'[i][p] = files[i][p]
    <3>1. Num(files[i][p]) <= written /\ Num(files[i][p]) \in Nat
      BY <1>4, <2>1
    <3>2. Num(files'[i][p]) = Num(files[i][p])
      BY <2>1
    <3> QED BY <1>11, <3>1, <3>2
  <2>2. CASE files'[i][p] = half
    <3>1. Num(files'[i][p]) = Num(half)
      BY <2>2
    <3> QED BY <1>11, <3>1
  <2> QED BY <1>6, <2>1, <2>2
<1>8. ASSUME NEW i \in Inode, NEW j \in Inode, NEW p \in 1..Len(files'[i]),
             NEW q \in 1..Len(files'[j]), files'[i][p] = files'[j][q]
      PROVE  i = j /\ p = q
  <2>1. CASE p \in 1..Len(files[i]) /\ files'[i][p] = files[i][p]
    <3>1. files'[j][q] # half
      BY <1>4, <1>8, <2>1
    <3>2. q \in 1..Len(files[j]) /\ files'[j][q] = files[j][q]
      BY <1>6, <3>1
    <3>3. files[i][p] = files[j][q]
      BY <1>8, <2>1, <3>2
    <3> QED BY <2>1, <3>2, <3>3 DEF FilesInv
  <2>2. CASE i = nginx /\ p = n /\ files'[i][p] = half
    <3>1. ~(q \in 1..Len(files[j]) /\ files'[j][q] = files[j][q])
      BY <1>4, <1>8, <2>2
    <3> QED BY <1>6, <2>2, <3>1
  <2> QED BY <1>6, <2>1, <2>2
<1>9. Num(files'[nginx'][Len(files'[nginx'])]) = written'
  BY <1>0, <1>1, <1>2
<1>10. path' \notin {None, nginx'} => files'[path'] = << >>
  <2> SUFFICES ASSUME path \notin {None, nginx} PROVE files'[path] = << >>
    BY <1>0
  <2>1. path \in Inode \ {nginx} /\ files[path] = << >>
    BY DEF FilesInv, TailTypes
  <2> QED BY <1>2, <2>1
<1> QED BY <1>5, <1>7, <1>8, <1>9, <1>10 DEF FilesInv

\* The files are always runs of consecutive halves.
LEMMA FilesStep == TailTypes /\ FilesInv /\ [Next]_vars => FilesInv'
<1> SUFFICES ASSUME TailTypes, FilesInv, [Next]_vars PROVE FilesInv'
  OBVIOUS
<1>1. CASE Write
  BY <1>1, FilesGrow
<1>2. CASE Rotation
  <2>0. files \in [Inode -> Content] /\ nginx \in Inode /\ path \in Inode \cup {None}
    BY DEF TailTypes
  <2>1. \/ written' = written /\ UNCHANGED <<files, nginx>> /\ path' = None
        \/ /\ written' = written /\ UNCHANGED <<files, path>>
           /\ nginx # path /\ path # None /\ nginx' = path
        \/ /\ written' = written /\ nginx' = nginx
           /\ \E i \in Inode : /\ files' = [files EXCEPT ![i] = << >>]
                               /\ \/ path' = path
                                  \/ path = None /\ path' = i /\ i # tail.fd /\ i # nginx
    <3>1. CASE Rename
      BY <3>1 DEF Rename
    <3>2. CASE Reopen
      BY <3>2 DEF Reopen
    <3>3. CASE Truncate
      BY <2>0, <3>3 DEF Truncate
    <3>4. ASSUME NEW i \in Inode, Create(i) PROVE /\ written' = written /\ nginx' = nginx
                                                  /\ files' = [files EXCEPT ![i] = << >>]
                                                  /\ path = None /\ path' = i
                                                  /\ i # tail.fd /\ i # nginx
      BY <3>4 DEF Create
    <3> QED BY <1>2, <3>1, <3>2, <3>3, <3>4 DEF Rotation
  <2>2. CASE written' = written /\ UNCHANGED <<files, nginx>> /\ path' = None
    BY <2>2 DEF FilesInv
  <2>3. CASE /\ written' = written /\ UNCHANGED <<files, path>>
             /\ nginx # path /\ path # None /\ nginx' = path
    BY <2>3 DEF FilesInv
  <2>4. CASE /\ written' = written /\ nginx' = nginx
             /\ \E i \in Inode : /\ files' = [files EXCEPT ![i] = << >>]
                                 /\ \/ path' = path
                                    \/ path = None /\ path' = i /\ i # tail.fd /\ i # nginx
    <3>1. PICK i \in Inode : /\ files' = [files EXCEPT ![i] = << >>]
                             /\ \/ path' = path
                                \/ path = None /\ path' = i /\ i # tail.fd /\ i # nginx
      BY <2>4
    <3>2. /\ files'[i] = << >> /\ Len(files'[i]) = 0
          /\ \A j \in Inode \ {i} : files'[j] = files[j]
      BY <2>0, <3>1
    <3>3. \A j \in Inode : Run(files'[j])
      BY <3>2 DEF FilesInv, Run
    <3>4. \A j \in Inode : \A p \in 1..Len(files'[j]) : /\ p \in 1..Len(files[j])
                                                        /\ files'[j][p] = files[j][p]
      BY <3>2
    <3>5. files'[nginx] # << >> => files'[nginx] = files[nginx]
      BY <2>0, <3>2
    <3>6. path' \notin {None, nginx} => files'[path'] = << >>
      BY <2>0, <3>1, <3>2 DEF FilesInv
    <3> QED BY <2>4, <3>3, <3>4, <3>5, <3>6 DEF FilesInv
  <2> QED BY <2>1, <2>2, <2>3, <2>4
<1>3. CASE Tailer \/ CommitFails \/ Crash \/ UNCHANGED vars
  <2>1. UNCHANGED <<files, path, nginx, written>>
    BY <1>3 DEF Tailer, Start, OpenAtEnd, Open, NoticeReplaced, Read, ReadNothing, LookAtPath,
                Commit, CommitFails, Crash, vars
  <2> QED BY <2>1 DEF FilesInv
<1> QED BY <1>1, <1>2, <1>3 DEF Next

-----------------------------------------------------------------------------
(* Read positions *)

Whole(f) == LinesIn(f, 0, Len(f))

\* Reading on from a position repeats no line of rows: none is behind it, and if there is
\* one before it, the tailer will not take the file for another one.
AheadOf(f, offset, fp, rows) ==
    /\ LinesIn(f, offset, Len(f)) \cap rows = {}
    /\ Whole(f) \cap rows # {} => /\ offset <= Len(f) /\ StartsALine(f, offset)
                                  /\ fp \in {<< >>, Fingerprint(f)}

\* The file a fingerprint was taken of is gone, and what is in its place never gets to
\* look the same.
GoneFrom(f, last, fp) ==
    /\ fp # << >> /\ Num(fp[1]) <= last
    /\ \A p \in 1..Len(f) : f[p] # fp[1]

\* Reading on from a position misses no line: all before it are done, or the tailer will
\* notice that the file is another one.
BehindOf(f, last, offset, fp, done) ==
    \/ offset <= 1
    \/ GoneFrom(f, last, fp)
    \/ /\ offset <= Len(f) /\ FingerprintLen <= Len(f) /\ fp = Fingerprint(f)
       /\ LinesIn(f, 0, offset) \subseteq done

\* A line lies in a file once.
LEMMA LinesApart ==
    ASSUME NEW f \in Content, Run(f), NEW a \in Nat, NEW b \in Nat, NEW c \in Nat, a <= b
    PROVE  /\ LinesIn(f, b, c) \subseteq LinesIn(f, a, c)
           /\ (\A p, q \in 1..Len(f) : f[p] = f[q] => p = q) =>
                LinesIn(f, a, b) \cap LinesIn(f, b, c) = {}
<1>1. \A from, to \in Nat : \A l :
        l \in LinesIn(f, from, to) <=>
          \E p \in 2..Len(f) : f[p] = <<l, 2>> /\ from < p - 1 /\ p <= to
  BY LinesOfRun
<1>2. Len(f) \in Nat
  BY LenProperties DEF Content
<1>3. LinesIn(f, b, c) \subseteq LinesIn(f, a, c)
  <2> SUFFICES ASSUME NEW l \in LinesIn(f, b, c) PROVE l \in LinesIn(f, a, c)
    OBVIOUS
  <2>1. PICK p \in 2..Len(f) : f[p] = <<l, 2>> /\ b < p - 1 /\ p <= c
    BY <1>1
  <2>2. a < p - 1
    BY <1>2, <2>1
  <2> QED BY <1>1, <2>1, <2>2
<1>4. ASSUME \A p, q \in 1..Len(f) : f[p] = f[q] => p = q,
             NEW l \in LinesIn(f, a, b), l \in LinesIn(f, b, c)
      PROVE  FALSE
  <2>1. PICK p \in 2..Len(f) : f[p] = <<l, 2>> /\ p <= b
    BY <1>1, <1>4
  <2>2. PICK q \in 2..Len(f) : f[q] = <<l, 2>> /\ b < q - 1
    BY <1>1, <1>4
  <2>3. p \in 1..Len(f) /\ q \in 1..Len(f) /\ p # q
    BY <1>2, <2>1, <2>2
  <2> QED BY <1>4, <2>1, <2>2, <2>3
<1> QED BY <1>3, <1>4

\* Adding a half adds at most the line it ends.
LEMMA LinesGrow ==
    ASSUME NEW f \in Content, NEW half \in Half, Run(f), Run(Append(f, half)), NEW from \in Nat
    PROVE  /\ \A to \in 0..Len(f) : LinesIn(Append(f, half), from, to) = LinesIn(f, from, to)
           /\ \A l \in LinesIn(Append(f, half), from, Len(Append(f, half))) :
                l \in LinesIn(f, from, Len(f)) \/ half = <<l, 2>>
           /\ \A l \in Line : \A p \in EndsOf(Append(f, half), l) :
                p \in EndsOf(f, l) \/ half = <<l, 2>>
<1> DEFINE g == Append(f, half)
<1>1. /\ g \in Content /\ Len(f) \in Nat /\ Len(g) = Len(f) + 1 /\ g[Len(f) + 1] = half
      /\ \A p \in 1..Len(f) : g[p] = f[p]
  BY Longer
<1>2. \A a, b \in Nat : \A l :
        l \in LinesIn(f, a, b) <=> \E p \in 2..Len(f) : f[p] = <<l, 2>> /\ a < p - 1 /\ p <= b
  BY LinesOfRun
<1> HIDE DEF g
<1>3. Run(g)
  BY DEF g
<1>4. \A a, b \in Nat : \A l :
        l \in LinesIn(g, a, b) <=> \E p \in 2..Len(g) : g[p] = <<l, 2>> /\ a < p - 1 /\ p <= b
  BY <1>1, <1>3, LinesOfRun
<1>5. ASSUME NEW p \in 2..Len(g)
      PROVE  \/ p \in 2..Len(f) /\ g[p] = f[p]
             \/ p = Len(f) + 1 /\ g[p] = half
  BY <1>1
<1>6. ASSUME NEW p \in 2..Len(f) PROVE p \in 2..Len(g) /\ g[p] = f[p]
  BY <1>1
<1>7. ASSUME NEW to \in 0..Len(f) PROVE LinesIn(g, from, to) = LinesIn(f, from, to)
  <2>0. to \in Nat
    OBVIOUS
  <2>1. ASSUME NEW l \in LinesIn(g, from, to) PROVE l \in LinesIn(f, from, to)
    <3>1. PICK p \in 2..Len(g) : g[p] = <<l, 2>> /\ from < p - 1 /\ p <= to
      BY <1>4, <2>0
    <3>2. p \in 2..Len(f) /\ g[p] = f[p]
      BY <1>1, <1>5, <3>1
    <3> QED BY <1>2, <2>0, <3>1, <3>2
  <2>2. ASSUME NEW l \in LinesIn(f, from, to) PROVE l \in LinesIn(g, from, to)
    <3>1. PICK p \in 2..Len(f) : f[p] = <<l, 2>> /\ from < p - 1 /\ p <= to
      BY <1>2, <2>0
    <3> QED BY <1>4, <1>6, <2>0, <3>1
  <2> QED BY <2>1, <2>2
<1>8. ASSUME NEW l \in LinesIn(g, from, Len(g)), half # <<l, 2>>
      PROVE  l \in LinesIn(f, from, Len(f))
  <2>0. Len(g) \in Nat
    BY <1>1
  <2>1. PICK p \in 2..Len(g) : g[p] = <<l, 2>> /\ from < p - 1 /\ p <= Len(g)
    BY <1>4, <2>0
  <2>2. p \in 2..Len(f) /\ g[p] = f[p] /\ p <= Len(f)
    <3>1. g[p] # half
      BY <1>8, <2>1
    <3>2. p \in 2..Len(f) /\ g[p] = f[p]
      BY <1>5, <3>1
    <3> QED BY <1>1, <3>2
  <2>3. Len(f) \in Nat /\ f[p] = <<l, 2>> /\ from < p - 1
    BY <1>1, <2>1, <2>2
  <2> QED BY <1>2, <2>2, <2>3
<1>9. ASSUME NEW l \in Line, NEW p \in EndsOf(g, l), half # <<l, 2>> PROVE p \in EndsOf(f, l)
  <2>1. p \in 2..Len(g) /\ g[p] = <<l, 2>>
    BY <1>1, <1>3, LinesOfRun
  <2>2. p \in 2..Len(f) /\ f[p] = <<l, 2>>
    BY <1>5, <1>9, <2>1
  <2> QED BY <2>2, LinesOfRun
<1> QED BY <1>7, <1>8, <1>9 DEF g

\* A fingerprint outlives the growth of its file.
LEMMA FingerprintStays ==
    ASSUME NEW f \in Content, NEW half \in Half, FingerprintLen <= Len(f)
    PROVE  /\ Fingerprint(Append(f, half)) = Fingerprint(f)
           /\ Fingerprint(f) # << >> /\ Fingerprint(f)[1] = f[1] /\ 1 \in 1..Len(f)
<1> DEFINE g == Append(f, half)
           n == FingerprintLen
<1>1. /\ g \in Content /\ Len(f) \in Nat /\ Len(g) = Len(f) + 1
      /\ \A p \in 1..Len(f) : g[p] = f[p] /\ f[p] \in Half
      /\ n \in Nat \ {0} /\ n <= Len(f)
  BY Longer, LogTailAssumption DEF LogTailAssumption
<1> HIDE DEF g, n
<1>2. \A i \in 1..n : f[i] \in Half /\ g[i] \in Half /\ g[i] = f[i]
  BY <1>1
<1>3. /\ SubSeq(f, 1, n) = [i \in 1..n |-> f[i]] /\ SubSeq(g, 1, n) = [i \in 1..n |-> g[i]]
  BY <1>1, <1>2 DEF Content
<1>4. Fingerprint(f) = SubSeq(f, 1, n) /\ Fingerprint(g) = SubSeq(g, 1, n)
  BY <1>1 DEF Fingerprint, n
<1>5. [i \in 1..n |-> f[i]] = [i \in 1..n |-> g[i]]
  BY <1>2
<1>6. 1 \in 1..n /\ SubSeq(f, 1, n) # << >> /\ SubSeq(f, 1, n)[1] = f[1]
  BY <1>1, <1>3
<1> QED BY <1>1, <1>3, <1>4, <1>5, <1>6 DEF g

\* A position stays good while its file grows by lines that are not among the rows.
LEMMA AheadGrows ==
    ASSUME NEW f \in Content, NEW half \in Half, Run(f), Run(Append(f, half)),
           NEW offset \in Nat, NEW fp, NEW rows, \A l \in rows : half # <<l, 2>>,
           AheadOf(f, offset, fp, rows)
    PROVE  AheadOf(Append(f, half), offset, fp, rows)
<1> DEFINE g == Append(f, half)
<1>1. /\ Len(f) \in Nat /\ Len(g) = Len(f) + 1 /\ \A p \in 1..Len(f) : g[p] = f[p]
  BY Longer
<1>2. /\ LinesIn(g, offset, Len(g)) \cap rows \subseteq LinesIn(f, offset, Len(f)) \cap rows
      /\ Whole(g) \cap rows \subseteq Whole(f) \cap rows
  BY LinesGrow DEF Whole
<1> HIDE DEF g
<1>3. LinesIn(g, offset, Len(g)) \cap rows = {}
  BY <1>2 DEF AheadOf
<1>4. ASSUME Whole(g) \cap rows # {}
      PROVE  /\ offset <= Len(g) /\ StartsALine(g, offset)
             /\ fp \in {<< >>, Fingerprint(g)}
  <2>1. offset <= Len(f) /\ StartsALine(f, offset) /\ fp \in {<< >>, Fingerprint(f)}
    BY <1>2, <1>4 DEF AheadOf
  <2>2. offset <= Len(g)
    BY <1>1, <2>1
  <2>3. StartsALine(g, offset)
    <3>1. CASE offset = 0
      BY <3>1 DEF StartsALine
    <3>2. CASE offset # 0
      <4>1. offset \in 1..Len(f) /\ IsEnd(f[offset])
        BY <1>1, <2>1, <3>2 DEF StartsALine
      <4>2. g[offset] = f[offset]
        BY <1>1, <4>1
      <4> QED BY <2>2, <4>1, <4>2 DEF StartsALine
    <3> QED BY <3>1, <3>2
  <2>4. fp \in {<< >>, Fingerprint(g)}
    <3>1. CASE FingerprintLen <= Len(f)
      BY <2>1, <3>1, FingerprintStays DEF g
    <3>2. CASE ~(FingerprintLen <= Len(f))
      <4>1. Len(f) < FingerprintLen
        BY <1>1, <3>2, LogTailAssumption DEF LogTailAssumption
      <4>2. Fingerprint(f) = << >>
        BY <4>1 DEF Fingerprint
      <4> QED BY <2>1, <4>2
    <3> QED BY <3>1, <3>2
  <2> QED BY <2>2, <2>3, <2>4
<1> QED BY <1>3, <1>4 DEF AheadOf, g

\* In an empty file there is nothing to repeat.
LEMMA AheadEmpty ==
    ASSUME NEW offset, NEW fp, NEW rows
    PROVE  AheadOf(<< >>, offset, fp, rows)
<1>1. Len(<< >>) = 0 /\ 2..0 = {}
  OBVIOUS
<1>2. \A from, to : LinesIn(<< >>, from, to) = {}
  BY <1>1 DEF LinesIn, EndsOf
<1> QED BY <1>2 DEF AheadOf, Whole

\* What stands before the position stays stored when the file grows by a half.
LEMMA BehindGrows ==
    ASSUME NEW f \in Content, NEW half \in Half, Run(f), Run(Append(f, half)),
           NEW last \in Nat, Num(half) = last + 1, NEW offset \in Nat, NEW fp \in Content,
           NEW done, BehindOf(f, last, offset, fp, done)
    PROVE  BehindOf(Append(f, half), last + 1, offset, fp, done)
<1> DEFINE g == Append(f, half)
<1>1. /\ g \in Content /\ Len(f) \in Nat /\ Len(g) = Len(f) + 1 /\ g[Len(f) + 1] = half
      /\ \A p \in 1..Len(f) : g[p] = f[p]
  BY Longer
<1>2. CASE offset <= 1
  BY <1>2 DEF BehindOf
<1>3. CASE GoneFrom(f, last, fp)
  <2> HIDE DEF g
  <2>1. fp[1] \in Half
    <3>1. fp \in Seq(Half) /\ fp # << >>
      BY <1>3 DEF GoneFrom, Content, Half
    <3>2. Len(fp) \in Nat /\ Len(fp) # 0 /\ \A i \in 1..Len(fp) : fp[i] \in Half
      BY <3>1, LenProperties, ElementOfSeq, EmptySeq
    <3>3. 1 \in 1..Len(fp)
      BY <3>2
    <3> QED BY <3>2, <3>3
  <2>2. Num(fp[1]) \in Nat /\ Num(fp[1]) <= last
    BY <1>3, <2>1, Halves DEF GoneFrom
  <2>3. half # fp[1]
    <3>1. ASSUME half = fp[1] PROVE FALSE
      <4>1. Num(fp[1]) = last + 1
        BY <3>1
      <4> QED BY <2>2, <4>1
    <3> QED BY <3>1
  <2>4. ASSUME NEW p \in 1..Len(g) PROVE g[p] # fp[1]
    <3>1. CASE p = Len(f) + 1
      BY <1>1, <2>3, <3>1
    <3>2. CASE p # Len(f) + 1
      <4>1. p \in 1..Len(f)
        BY <1>1, <3>2
      <4> QED BY <1>1, <1>3, <4>1 DEF GoneFrom
    <3> QED BY <3>1, <3>2
  <2>5. Num(fp[1]) <= last + 1 /\ fp # << >>
    BY <1>3, <2>2 DEF GoneFrom
  <2>6. GoneFrom(g, last + 1, fp)
    BY <2>4, <2>5 DEF GoneFrom
  <2> QED BY <2>6 DEF BehindOf, g
<1>4. CASE /\ offset <= Len(f) /\ FingerprintLen <= Len(f) /\ fp = Fingerprint(f)
           /\ LinesIn(f, 0, offset) \subseteq done
  <2>1. Fingerprint(g) = Fingerprint(f)
    BY <1>4, FingerprintStays
  <2>2. offset \in 0..Len(f)
    BY <1>1, <1>4
  <2>3. LinesIn(g, 0, offset) = LinesIn(f, 0, offset)
    BY <2>2, LinesGrow
  <2> HIDE DEF g
  <2>4. offset <= Len(g) /\ FingerprintLen <= Len(g)
    BY <1>1, <1>4, LogTailAssumption DEF LogTailAssumption
  <2> QED BY <1>4, <2>1, <2>3, <2>4 DEF BehindOf, g
<1> QED BY <1>2, <1>3, <1>4 DEF BehindOf

\* When a file is emptied, its fingerprint is gone for good.
LEMMA BehindEmpty ==
    ASSUME NEW f \in Content, NEW last \in Nat, \A p \in 1..Len(f) : Num(f[p]) <= last,
           NEW offset \in Nat, NEW fp, NEW done, BehindOf(f, last, offset, fp, done)
    PROVE  BehindOf(<< >>, last, offset, fp, done)
<1>1. 1..Len(<< >>) = {}
  OBVIOUS
<1>2. CASE offset <= 1 \/ GoneFrom(f, last, fp)
  BY <1>1, <1>2 DEF BehindOf, GoneFrom
<1>3. CASE FingerprintLen <= Len(f) /\ fp = Fingerprint(f)
  <2>1. PICK half \in Half : TRUE
    <3>1. f \in Seq(Half) /\ Len(f) \in Nat /\ 1 \in 1..Len(f)
      BY <1>3, LenProperties, LogTailAssumption DEF Content, Half, LogTailAssumption
    <3>2. f[1] \in Half
      BY <3>1, ElementOfSeq
    <3> QED BY <3>2
  <2>2. fp # << >> /\ fp[1] = f[1] /\ 1 \in 1..Len(f)
    BY <1>3, <2>1, FingerprintStays
  <2>3. Num(fp[1]) <= last
    BY <2>2
  <2> QED BY <1>1, <2>2, <2>3 DEF BehindOf, GoneFrom
<1> QED BY <1>2, <1>3 DEF BehindOf

-----------------------------------------------------------------------------
(* Nothing is read twice *)

Rows == {l \in Line : stored[l] > 0}

\* What becomes a row was written, and only once; a batch in hand is not stored yet.
RowsInv ==
    /\ \A l \in Rows \cup tail.batch : 2 * l <= written
    /\ tail.batch \cap Rows = {}
    /\ NoDuplicates

\* A restart may read on from the stored position; a file at the path it is not about was
\* not read.
SavedInv ==
    /\ saved.known => /\ saved.inode \in Inode
                      /\ AheadOf(files[saved.inode], saved.offset, saved.fp, Rows)
    /\ ~saved.known => Rows = {} /\ saved.inode = None /\ saved.offset = 0
    /\ path \notin {None, saved.inode} => Whole(files[path]) \cap Rows = {}

\* So may the loop from its own, with its batch stored or rolled back; a file at the path
\* it has not opened was not read.
LoopInv ==
    /\ tail.fd # None => AheadOf(files[tail.fd], tail.offset, tail.fp, Rows)
    /\ tail.fd # None /\ path \notin {None, tail.fd} => Whole(files[path]) \cap Rows = {}
    /\ tail.pc = "write" =>
         /\ AheadOf(files[tail.fd], tail.end, tail.fp, Rows \cup tail.batch)
         /\ \A i \in Inode \ {tail.fd} : Whole(files[i]) \cap tail.batch = {}

\* Before it has opened a file, the loop holds the stored position or none.
OpenInv ==
    /\ tail.pc = "open" =>
         \/ tail.inode = None /\ (path # None => Whole(files[path]) \cap Rows = {})
         \/ /\ saved.known /\ tail.inode = saved.inode
            /\ tail.offset = saved.offset /\ tail.fp = saved.fp
    /\ tail.atEnd => tail.pc = "open" /\ ~saved.known

ReadsOnce == RowsInv /\ SavedInv /\ LoopInv /\ OpenInv

ReadInv == TailTypes /\ FilesInv /\ ReadsOnce

\* At the start no position is stored and no row.
LEMMA ReadsOnceInit == Init => ReadsOnce
<1> SUFFICES ASSUME Init PROVE ReadsOnce
  OBVIOUS
<1>1. Rows = {} /\ \A l \in Line : stored[l] = 0
  BY DEF Init, Rows
<1>2. /\ tail.batch = {} /\ tail.fd = None /\ tail.pc = "down" /\ tail.atEnd = FALSE
      /\ saved.known = FALSE /\ saved.inode = None /\ saved.offset = 0
  BY DEF Init, Down, NotSaved
<1>3. \A l \in Line : stored[l] <= 1
  BY <1>1
<1> QED BY <1>1, <1>2, <1>3 DEF ReadsOnce, RowsInv, SavedInv, LoopInv, OpenInv, NoDuplicates

\* Positions and files that were not read survive what the environment does.
LEMMA PositionsLast ==
    ASSUME TailTypes, FilesInv, Write \/ Rotation,
           NEW rows \in SUBSET Line, \A l \in rows : 2 * l <= written, NEW i \in Inode
    PROVE  /\ \A offset \in Nat, fp \in Content :
                AheadOf(files[i], offset, fp, rows) => AheadOf(files'[i], offset, fp, rows)
           /\ Whole(files[i]) \cap rows = {} => Whole(files'[i]) \cap rows = {}
<1>0. files[i] \in Content /\ written \in Nat /\ Run(files[i]) /\ Run(files'[i])
  <2>1. FilesInv'
    BY FilesStep DEF Next
  <2> QED BY <2>1, LogTailAssumption DEF TailTypes, FilesInv, LogTailAssumption
<1>1. CASE files'[i] = files[i]
  BY <1>1
<1>2. CASE files'[i] = << >>
  <2>1. Whole(<< >>) = {}
    BY DEF Whole, LinesIn, EndsOf
  <2> QED BY <1>2, <2>1, AheadEmpty
<1>3. CASE files'[i] = Grown(files[i]) /\ written < 2 * LastLine
  <2>1. PICK half \in Half : Num(half) = written + 1 /\ \A f : Grown(f) = Append(f, half)
    BY <1>3, WrittenNext
  <2>2. files'[i] = Append(files[i], half)
    BY <1>3, <2>1
  <2>3. \A l \in rows : half # <<l, 2>>
    <3> SUFFICES ASSUME NEW l \in rows, half = <<l, 2>> PROVE FALSE
      OBVIOUS
    <3>1. l \in Nat /\ Num(half) = 2 * l
      BY DEF Num, Line
    <3> QED BY <1>0, <2>1, <3>1
  <2>4. \A offset \in Nat, fp \in Content :
          AheadOf(files[i], offset, fp, rows) => AheadOf(files'[i], offset, fp, rows)
    BY <1>0, <2>2, <2>3, AheadGrows
  <2>5. \A l \in Whole(files'[i]) : l \in Whole(files[i]) \/ half = <<l, 2>>
    BY <1>0, <2>2, LinesGrow DEF Whole
  <2> QED BY <2>3, <2>4, <2>5
<1> QED BY <1>1, <1>2, <1>3, FilesMove

\* What nginx adds or a rotation moves has not been read yet.
LEMMA ReadsOnceEnvironment ==
    ASSUME ReadInv, Write \/ Rotation
    PROVE  ReadsOnce'
<1>0. /\ TailTypes /\ FilesInv /\ RowsInv /\ SavedInv /\ LoopInv /\ OpenInv
      /\ UNCHANGED <<saved, stored, tail, backlog, skipped>>
  BY EnvironmentMoves DEF ReadInv, ReadsOnce
<1>1. /\ Rows \subseteq Line /\ tail.batch \subseteq Line /\ written \in Nat
      /\ saved.offset \in Nat /\ tail.offset \in Nat /\ tail.end \in Nat
      /\ saved.fp \in Content /\ tail.fp \in Content /\ path \in Inode \cup {None}
      /\ files \in [Inode -> Content] /\ tail.fd \in Inode \cup {None}
      /\ tail.pc = "write" => tail.fd \in Inode
      /\ saved.inode \in Inode \cup {None} /\ None \notin Inode
  <2>1. TailTypes
    BY <1>0
  <2>2. written \in Nat
    BY <2>1, LogTailAssumption DEF TailTypes, LogTailAssumption
  <2>4. None \notin Inode
    BY LogTailAssumption DEF LogTailAssumption
  <2>3. Rows \subseteq Line
    BY DEF Rows
  <2> QED BY <2>1, <2>2, <2>3, <2>4 DEF TailTypes
<1>2. Rows' = Rows /\ tail' = tail /\ saved' = saved
  BY <1>0 DEF Rows
<1>3. /\ \A l \in Rows : 2 * l <= written
      /\ \A l \in tail.batch : 2 * l <= written
      /\ \A l \in Rows \cup tail.batch : 2 * l <= written
  BY <1>0 DEF RowsInv
<1>4. written' \in {written, written + 1}
  BY EnvironmentMoves, <1>0
\* The path names what it named, nothing, or a new and empty file the loop does not hold.
<1>5. \/ path' = path \/ path' = None
      \/ path' \in Inode /\ path' # tail.fd /\ files'[path'] = << >>
  <2>1. ASSUME NEW i \in Inode, files' = [files EXCEPT ![i] = << >>], path' = i, i # tail.fd
        PROVE  path' \in Inode /\ path' # tail.fd /\ files'[path'] = << >>
    BY <1>1, <2>1
  <2> QED BY <1>0, <2>1, EnvironmentMoves
<1>6. Whole(<< >>) = {}
  BY DEF Whole, LinesIn, EndsOf
<1>7. path' # None /\ path' # path => Whole(files'[path']) \cap Rows = {}
  BY <1>5, <1>6
<1>8. \A i \in Inode : Whole(files[i]) \cap Rows = {} => Whole(files'[i]) \cap Rows = {}
  BY <1>0, <1>1, <1>3, PositionsLast
<1>9. RowsInv'
  <2>1. \A l \in Rows \cup tail.batch : 2 * l <= written'
    <3> SUFFICES ASSUME NEW l \in Rows \cup tail.batch PROVE 2 * l <= written'
      OBVIOUS
    <3>1. l \in Nat /\ 2 * l <= written
      BY <1>1, <1>3 DEF Line
    <3> QED BY <1>1, <1>4, <3>1
  <2> QED BY <1>0, <1>2, <2>1 DEF RowsInv, NoDuplicates
<1>10. SavedInv'
  <2>1. saved.known => /\ saved.inode \in Inode
                       /\ AheadOf(files'[saved.inode], saved.offset, saved.fp, Rows)
    BY <1>0, <1>1, <1>3, PositionsLast DEF SavedInv
  <2>2. path' \notin {None, saved.inode} => Whole(files'[path']) \cap Rows = {}
    <3>1. CASE path' = path
      BY <1>0, <1>1, <1>8, <3>1 DEF SavedInv
    <3> QED BY <1>7, <3>1
  <2> QED BY <1>0, <1>2, <2>1, <2>2 DEF SavedInv
<1>11. LoopInv'
  <2>1. tail.fd # None => AheadOf(files'[tail.fd], tail.offset, tail.fp, Rows)
    BY <1>0, <1>1, <1>3, PositionsLast DEF LoopInv
  <2>2. tail.fd # None /\ path' \notin {None, tail.fd} => Whole(files'[path']) \cap Rows = {}
    <3>1. CASE path' = path
      BY <1>0, <1>1, <1>8, <3>1 DEF LoopInv
    <3> QED BY <1>7, <3>1
  <2>3. ASSUME tail.pc = "write"
        PROVE  AheadOf(files'[tail.fd], tail.end, tail.fp, Rows \cup tail.batch)
    <3>1. AheadOf(files[tail.fd], tail.end, tail.fp, Rows \cup tail.batch)
      BY <1>0, <2>3 DEF LoopInv
    <3>2. (Rows \cup tail.batch) \in SUBSET Line
      BY <1>1
    <3> QED BY <1>0, <1>1, <1>3, <2>3, <3>1, <3>2, PositionsLast
  <2>4. ASSUME tail.pc = "write", NEW i \in Inode \ {tail.fd}
        PROVE  Whole(files'[i]) \cap tail.batch = {}
    <3>1. Whole(files[i]) \cap tail.batch = {}
      BY <1>0, <2>4 DEF LoopInv
    <3> QED BY <1>0, <1>1, <1>3, <3>1, PositionsLast
  <2> QED BY <1>2, <2>1, <2>2, <2>3, <2>4 DEF LoopInv
<1>12. OpenInv'
  <2>1. ASSUME path # None => Whole(files[path]) \cap Rows = {}
        PROVE  path' # None => Whole(files'[path']) \cap Rows = {}
    <3>1. CASE path' = path
      BY <1>1, <1>8, <2>1, <3>1
    <3> QED BY <1>7, <3>1
  <2> QED BY <1>0, <1>2, <2>1 DEF OpenInv
<1> QED BY <1>9, <1>10, <1>11, <1>12 DEF ReadsOnce

\* Steps of the loop that store nothing: what is left to show is about the loop.
LEMMA LoopMoves ==
    ASSUME ReadsOnce, UNCHANGED <<files, path, written, saved, stored>>, tail'.batch = {}
    PROVE  Rows' = Rows /\ RowsInv' /\ SavedInv'
<1>1. Rows' = Rows
  BY DEF Rows
<1>2. RowsInv'
  BY <1>1 DEF ReadsOnce, RowsInv, NoDuplicates
<1>3. SavedInv'
  BY <1>1 DEF ReadsOnce, SavedInv
<1> QED BY <1>1, <1>2, <1>3

\* Taking a file for another one never makes the tailer repeat what it stored.
LEMMA AfreshIsSafe ==
    ASSUME ReadInv, tail.pc = "poll", Replaced(files[tail.fd])
    PROVE  Whole(files[tail.fd]) \cap Rows = {}
<1> DEFINE f == files[tail.fd]
<1>1. tail.fd \in Inode /\ f \in Content /\ None \notin Inode /\ tail.offset \in Nat
      /\ Len(f) \in Nat
  <2>1. None \notin Inode
    BY LogTailAssumption DEF LogTailAssumption
  <2>2. tail.fd \in Inode /\ f \in Content /\ tail.offset \in Nat
    BY DEF ReadInv, TailTypes
  <2> QED BY <2>1, <2>2, LenProperties DEF Content
<1>2. AheadOf(f, tail.offset, tail.fp, Rows)
  BY <1>1 DEF ReadInv, ReadsOnce, LoopInv
<1>3. /\ tail.offset # 0
      /\ \/ Len(f) < tail.offset
         \/ tail.fp # << >> /\ Fingerprint(f) # << >> /\ Fingerprint(f) # tail.fp
         \/ ~StartsALine(f, tail.offset)
  BY DEF Replaced
<1> HIDE DEF f
<1>4. ASSUME Whole(f) \cap Rows # {} PROVE FALSE
  <2>1. /\ tail.offset <= Len(f) /\ StartsALine(f, tail.offset)
        /\ tail.fp \in {<< >>, Fingerprint(f)}
    BY <1>2, <1>4 DEF AheadOf
  <2> QED BY <1>1, <1>3, <2>1
<1> QED BY <1>4 DEF f

\* A restart resumes at the stored position only in the file it belongs to.
LEMMA ReadsOnceOpening ==
    ASSUME ReadInv, Start \/ OpenAtEnd \/ Open
    PROVE  ReadsOnce'
<1>0. /\ TailTypes /\ ReadsOnce /\ SavedInv /\ LoopInv /\ OpenInv /\ None \notin Inode
      /\ tail.pc # "write" => tail.batch = {}
      /\ path \in Inode \cup {None} /\ files \in [Inode -> Content]
      /\ tail.inode \in Inode \cup {None}
  <2>1. None \notin Inode
    BY LogTailAssumption DEF LogTailAssumption
  <2> QED BY <2>1 DEF ReadInv, ReadsOnce, TailTypes
\* A file none of whose lines were stored can be read from anywhere.
<1>1. ASSUME NEW f, NEW offset, NEW fp, Whole(f) \cap Rows = {},
             LinesIn(f, offset, Len(f)) \subseteq Whole(f)
      PROVE  AheadOf(f, offset, fp, Rows)
  BY <1>1 DEF AheadOf
<1>2. CASE Start
  <2>1. /\ UNCHANGED <<files, path, nginx, written, saved, stored, skipped>>
        /\ tail' = [Down EXCEPT !.pc = "open", !.offset = saved.offset, !.inode = saved.inode,
                                !.fp = saved.fp, !.atEnd = ~saved.known /\ ~backlog]
    BY <1>2 DEF Start
  <2>2. /\ tail'.pc = "open" /\ tail'.fd = None /\ tail'.batch = {}
        /\ tail'.inode = saved.inode /\ tail'.offset = saved.offset /\ tail'.fp = saved.fp
    BY <2>1 DEF Down
  <2>3. tail'.atEnd = (~saved.known /\ ~backlog)
    BY <2>1 DEF Down
  <2>4. Rows' = Rows /\ RowsInv' /\ SavedInv'
    BY <1>0, <2>1, <2>2, LoopMoves
  <2>5. LoopInv'
    BY <2>2 DEF LoopInv
  <2>6. OpenInv'
    <3>1. CASE saved.known
      BY <2>1, <2>2, <2>3, <3>1 DEF OpenInv
    <3>2. CASE ~saved.known
      <4>1. Rows = {} /\ saved.inode = None
        BY <1>0, <3>2 DEF SavedInv
      <4>2. path' # None => Whole(files'[path']) \cap Rows' = {}
        BY <2>4, <4>1
      <4> QED BY <2>1, <2>2, <2>3, <3>2, <4>1, <4>2 DEF OpenInv
    <3> QED BY <3>1, <3>2
  <2> QED BY <2>4, <2>5, <2>6 DEF ReadsOnce
<1>3. CASE OpenAtEnd
  <2>1. /\ path # None /\ tail.atEnd /\ tail.pc = "open"
        /\ tail' = [tail EXCEPT !.pc = "poll", !.fd = path, !.inode = path,
                                !.offset = Len(files[path]), !.fp = Fingerprint(files[path]),
                                !.atEnd = FALSE]
        /\ UNCHANGED <<files, path, nginx, written, saved, stored>>
    BY <1>3 DEF OpenAtEnd
  <2>2. tail'.pc = "poll" /\ tail'.fd = path /\ tail'.batch = {} /\ tail'.atEnd = FALSE
    BY <1>0, <2>1 DEF TailTypes
  <2>3. Rows = {}
    BY <1>0, <2>1 DEF OpenInv, SavedInv
  <2>4. Rows' = Rows /\ RowsInv' /\ SavedInv'
    BY <1>0, <2>1, <2>2, LoopMoves
  <2>5. LoopInv' /\ OpenInv'
    BY <2>1, <2>2, <2>3, <2>4 DEF LoopInv, OpenInv, AheadOf
  <2> QED BY <2>4, <2>5 DEF ReadsOnce
<1>4. CASE Open
  <2>1. /\ path # None /\ ~tail.atEnd /\ tail.pc = "open"
        /\ tail' = [tail EXCEPT !.pc = "poll", !.fd = path, !.inode = path,
                                !.offset = IF path # tail.inode THEN 0 ELSE @,
                                !.fp = IF path # tail.inode THEN Fingerprint(files[path]) ELSE @]
        /\ UNCHANGED <<files, path, nginx, written, saved, stored>>
    BY <1>4 DEF Open
  <2>2. /\ tail'.pc = "poll" /\ tail'.fd = path /\ tail'.batch = {} /\ tail'.atEnd = tail.atEnd
        /\ path # tail.inode => tail'.offset = 0
        /\ path = tail.inode => tail'.offset = tail.offset /\ tail'.fp = tail.fp
    BY <1>0, <2>1 DEF TailTypes
  <2>3. AheadOf(files[path], tail'.offset, tail'.fp, Rows)
    <3>1. CASE path # tail.inode
      <4>1. Whole(files[path]) \cap Rows = {}
        BY <1>0, <2>1, <3>1 DEF OpenInv, SavedInv
      <4> QED BY <1>1, <2>2, <3>1, <4>1 DEF Whole
    <3>2. CASE path = tail.inode
      <4>1. saved.known /\ tail.inode = saved.inode /\ tail.offset = saved.offset
            /\ tail.fp = saved.fp
        BY <1>0, <2>1, <3>2 DEF OpenInv
      <4> QED BY <1>0, <2>2, <3>2, <4>1 DEF SavedInv
    <3> QED BY <3>1, <3>2
  <2>4. Rows' = Rows /\ RowsInv' /\ SavedInv'
    BY <1>0, <2>1, <2>2, LoopMoves
  <2>5. LoopInv' /\ OpenInv'
    BY <2>1, <2>2, <2>3, <2>4 DEF LoopInv, OpenInv
  <2> QED BY <2>4, <2>5 DEF ReadsOnce
<1> QED BY <1>2, <1>3, <1>4

\* Noticing a new file, reading nothing, a failed commit or a crash reads nothing twice.
LEMMA ReadsOncePolling ==
    ASSUME ReadInv, NoticeReplaced \/ ReadNothing \/ LookAtPath \/ CommitFails \/ Crash
    PROVE  ReadsOnce'
<1>0. /\ ReadsOnce /\ LoopInv /\ OpenInv /\ None \notin Inode
      /\ tail.pc # "write" => tail.batch = {}
      /\ tail.pc \notin {"down", "open"} => tail.fd \in Inode /\ tail.inode = tail.fd
      /\ tail \in [pc : {"down", "open", "poll", "write", "drained"}, fd : Inode \cup {None},
                   offset : Nat, inode : Inode \cup {None}, fp : Content, atEnd : BOOLEAN,
                   batch : SUBSET Line, end : Nat]
  <2>1. None \notin Inode
    BY LogTailAssumption DEF LogTailAssumption
  <2> QED BY <2>1 DEF ReadInv, ReadsOnce, TailTypes
<1>1. UNCHANGED <<files, path, nginx, written, saved, stored, skipped>>
  BY DEF NoticeReplaced, ReadNothing, LookAtPath, CommitFails, Crash
\* The loop gives the file up.
<1>2. CASE NoticeReplaced \/ (LookAtPath /\ path # None /\ path # tail.inode)
  <2>1. tail' = Afresh /\ tail.pc \in {"poll", "drained"}
    BY <1>2 DEF NoticeReplaced, LookAtPath
  <2>2. /\ tail'.pc = "open" /\ tail'.fd = None /\ tail'.inode = None
        /\ tail'.batch = {} /\ tail'.atEnd = tail.atEnd
    BY <1>0, <2>1 DEF Afresh
  <2>3. ~tail.atEnd
    BY <1>0, <2>1 DEF OpenInv
  <2>4. path # None => Whole(files[path]) \cap Rows = {}
    <3>1. CASE NoticeReplaced
      <4>1. Whole(files[tail.fd]) \cap Rows = {}
        BY <3>1, AfreshIsSafe DEF NoticeReplaced
      <4> QED BY <1>0, <2>1, <4>1 DEF LoopInv
    <3>2. CASE path # None /\ path # tail.inode
      BY <1>0, <2>1, <3>2 DEF LoopInv
    <3> QED BY <1>2, <3>1, <3>2
  <2>5. Rows' = Rows /\ RowsInv' /\ SavedInv'
    BY <1>0, <1>1, <2>2, LoopMoves
  <2>6. LoopInv'
    BY <2>2 DEF LoopInv
  <2>7. OpenInv'
    BY <1>1, <2>2, <2>3, <2>4, <2>5 DEF OpenInv
  <2> QED BY <2>5, <2>6, <2>7 DEF ReadsOnce
\* It keeps the file, and its position.
<1>3. CASE ReadNothing \/ CommitFails \/ (LookAtPath /\ ~(path # None /\ path # tail.inode))
  <2>1. /\ tail.pc \in {"poll", "drained", "write"}
        /\ tail' \in {[tail EXCEPT !.pc = "poll"], [tail EXCEPT !.pc = "drained"],
                      [tail EXCEPT !.pc = "poll", !.batch = {}]}
        /\ tail.pc = "write" => tail' = [tail EXCEPT !.pc = "poll", !.batch = {}]
    BY <1>3 DEF ReadNothing, CommitFails, LookAtPath
  <2>2. /\ tail'.pc \in {"poll", "drained"} /\ tail'.fd = tail.fd /\ tail'.offset = tail.offset
        /\ tail'.fp = tail.fp /\ tail'.atEnd = tail.atEnd
    BY <1>0, <2>1
  <2>3. tail'.batch = {}
    BY <1>0, <2>1
  <2>4. Rows' = Rows /\ RowsInv' /\ SavedInv'
    BY <1>0, <1>1, <2>3, LoopMoves
  <2>5. LoopInv'
    BY <1>0, <1>1, <2>2, <2>4 DEF LoopInv
  <2>6. ~tail.atEnd
    BY <1>0, <2>1 DEF OpenInv
  <2>7. OpenInv'
    BY <2>2, <2>6 DEF OpenInv
  <2> QED BY <2>4, <2>5, <2>7 DEF ReadsOnce
<1>4. CASE Crash
  <2>1. /\ tail'.pc = "down" /\ tail'.fd = None /\ tail'.batch = {} /\ tail'.atEnd = FALSE
    BY <1>4 DEF Crash, Down
  <2>2. Rows' = Rows /\ RowsInv' /\ SavedInv'
    BY <1>0, <1>1, <2>1, LoopMoves
  <2>3. LoopInv' /\ OpenInv'
    BY <2>1 DEF LoopInv, OpenInv
  <2> QED BY <2>2, <2>3 DEF ReadsOnce
<1> QED BY <1>2, <1>3, <1>4

\* The batch that is read, and where it ends.
LEMMA BatchRead ==
    ASSUME ReadInv, MaxRead >= 2, Read
    PROVE  LET f     == files[tail.fd]
               end   == BatchEnd(f, tail.offset)
               lines == LinesIn(f, tail.offset, end)
           IN  /\ tail.pc = "poll" /\ tail.fd \in Inode /\ f \in Content /\ Run(f)
               /\ end \in (tail.offset + 1)..Len(f) /\ IsEnd(f[end])
               /\ tail' = [tail EXCEPT !.pc = "write", !.end = end, !.fp = Fingerprint(f),
                                       !.batch = lines \ Dropped]
               /\ lines \subseteq Whole(f) /\ lines \subseteq LinesIn(f, tail.offset, Len(f))
               /\ lines \cap LinesIn(f, end, Len(f)) = {}
               /\ LinesIn(f, end, Len(f)) \subseteq LinesIn(f, tail.offset, Len(f))
<1> DEFINE f == files[tail.fd]
           end == BatchEnd(f, tail.offset)
           lines == LinesIn(f, tail.offset, end)
<1>1. /\ tail.pc = "poll" /\ end # tail.offset
      /\ tail' = [tail EXCEPT !.pc = "write", !.end = end, !.fp = Fingerprint(f),
                              !.batch = lines \ Dropped]
  BY DEF Read
<1>2. /\ tail.fd \in Inode /\ f \in Content /\ tail.offset \in Nat
  BY <1>1 DEF ReadInv, TailTypes
<1>3. Run(f) /\ \A p, q \in 1..Len(f) : f[p] = f[q] => p = q
  BY <1>2 DEF ReadInv, FilesInv
<1>4. /\ end \in (tail.offset + 1)..Len(f) /\ IsEnd(f[end])
      /\ Len(f) \in Nat
  <2>1. Len(f) \in Nat
    BY <1>2, LenProperties DEF Content
  <2> HIDE DEF f
  <2> QED BY <1>1, <1>2, <1>3, <2>1, BatchEnds
<1> HIDE DEF f, end
<1>5. end \in Nat /\ tail.offset <= end /\ end <= Len(f)
  BY <1>2, <1>4
<1>6. /\ LinesIn(f, end, Len(f)) \subseteq LinesIn(f, tail.offset, Len(f))
      /\ lines \cap LinesIn(f, end, Len(f)) = {}
  BY <1>2, <1>3, <1>4, <1>5, LinesApart
<1>7. lines \subseteq LinesIn(f, tail.offset, Len(f))
  <2> SUFFICES ASSUME NEW l \in lines PROVE l \in LinesIn(f, tail.offset, Len(f))
    OBVIOUS
  <2>1. PICK p \in 2..Len(f) : f[p] = <<l, 2>> /\ tail.offset < p - 1 /\ p <= end
    BY <1>2, <1>3, <1>5, LinesOfRun
  <2>2. p <= Len(f)
    BY <1>4, <2>1
  <2> QED BY <1>2, <1>3, <1>4, <2>1, <2>2, LinesOfRun
<1>8. LinesIn(f, tail.offset, Len(f)) \subseteq Whole(f)
  <2>1. 0 \in Nat /\ 0 <= tail.offset
    BY <1>2
  <2> QED BY <1>2, <1>3, <1>4, <2>1, LinesApart DEF Whole
<1> HIDE DEF lines
<1>9. /\ tail.pc = "poll" /\ tail.fd \in Inode /\ f \in Content /\ Run(f)
      /\ end \in (tail.offset + 1)..Len(f) /\ IsEnd(f[end])
      /\ tail' = [tail EXCEPT !.pc = "write", !.end = end, !.fp = Fingerprint(f),
                              !.batch = lines \ Dropped]
      /\ lines \subseteq Whole(f) /\ lines \subseteq LinesIn(f, tail.offset, Len(f))
      /\ lines \cap LinesIn(f, end, Len(f)) = {}
      /\ LinesIn(f, end, Len(f)) \subseteq LinesIn(f, tail.offset, Len(f))
  BY <1>1, <1>2, <1>3, <1>4, <1>6, <1>7, <1>8
<1> QED BY <1>9 DEF f, end, lines

\* A line that lies in a file was written, and lies in no other.
LEMMA WholeLines ==
    ASSUME TailTypes, FilesInv, NEW i \in Inode, NEW l \in Whole(files[i])
    PROVE  l \in Line /\ 2 * l <= written /\ \A j \in Inode : l \in Whole(files[j]) => j = i
<1>1. \A j \in Inode : files[j] \in Content /\ Run(files[j]) /\ Len(files[j]) \in Nat
  BY LenProperties DEF TailTypes, FilesInv, Content
<1>2. ASSUME NEW j \in Inode, l \in Whole(files[j])
      PROVE  \E p \in 1..Len(files[j]) : files[j][p] = <<l, 2>>
  <2>0. files[j] \in Content /\ Run(files[j]) /\ 0 \in Nat /\ Len(files[j]) \in Nat
        /\ l \in LinesIn(files[j], 0, Len(files[j]))
    BY <1>1, <1>2 DEF Whole
  <2> DEFINE f == files[j]
  <2> HIDE DEF f
  <2>3. f \in Content /\ Run(f) /\ 0 \in Nat /\ Len(f) \in Nat /\ l \in LinesIn(f, 0, Len(f))
    BY <2>0 DEF f
  <2>4. l \in LinesIn(f, 0, Len(f)) <=>
          \E p \in 2..Len(f) : f[p] = <<l, 2>> /\ 0 < p - 1 /\ p <= Len(f)
    BY <2>3, LinesOfRun
  <2>1. \E p \in 2..Len(files[j]) : files[j][p] = <<l, 2>>
    BY <2>3, <2>4 DEF f
  <2> QED BY <1>1, <2>1
<1>3. PICK p \in 1..Len(files[i]) : files[i][p] = <<l, 2>>
  BY <1>2
<1>4. l \in Line
  BY DEF Whole, LinesIn
<1>5. 2 * l <= written
  <2>1. Num(<<l, 2>>) <= written
    BY <1>3 DEF FilesInv
  <2>2. Num(<<l, 2>>) = 2 * l
    BY <1>4 DEF Num, Line
  <2> QED BY <2>1, <2>2
<1>6. ASSUME NEW j \in Inode, l \in Whole(files[j]) PROVE j = i
  <2>1. PICK q \in 1..Len(files[j]) : files[j][q] = <<l, 2>>
    BY <1>2, <1>6
  <2> QED BY <1>3, <2>1 DEF FilesInv
<1> QED BY <1>4, <1>5, <1>6

\* A read takes whole lines after the position, which no row holds.
LEMMA ReadsOnceRead ==
    ASSUME ReadInv, MaxRead >= 2, Read
    PROVE  ReadsOnce'
<1> DEFINE f == files[tail.fd]
           end == BatchEnd(f, tail.offset)
           lines == LinesIn(f, tail.offset, end)
           batch == lines \ Dropped
<1>1. /\ tail.pc = "poll" /\ tail.fd \in Inode /\ f \in Content /\ Run(f)
      /\ end \in (tail.offset + 1)..Len(f) /\ IsEnd(f[end])
      /\ tail' = [tail EXCEPT !.pc = "write", !.end = end, !.fp = Fingerprint(f),
                              !.batch = batch]
      /\ lines \subseteq Whole(f) /\ lines \subseteq LinesIn(f, tail.offset, Len(f))
      /\ lines \cap LinesIn(f, end, Len(f)) = {}
      /\ LinesIn(f, end, Len(f)) \subseteq LinesIn(f, tail.offset, Len(f))
  BY BatchRead
<1>2. batch \subseteq lines
  OBVIOUS
<1> HIDE DEF f, end, lines, batch
<1>3. /\ ReadsOnce /\ RowsInv /\ LoopInv /\ OpenInv /\ TailTypes /\ FilesInv
      /\ tail \in [pc : {"down", "open", "poll", "write", "drained"}, fd : Inode \cup {None},
                   offset : Nat, inode : Inode \cup {None}, fp : Content, atEnd : BOOLEAN,
                   batch : SUBSET Line, end : Nat]
  BY DEF ReadInv, ReadsOnce, TailTypes
<1>4. UNCHANGED <<files, path, nginx, written, saved, stored, skipped>>
  BY DEF Read
<1>5. /\ tail'.pc = "write" /\ tail'.fd = tail.fd /\ tail'.offset = tail.offset
      /\ tail'.fp = Fingerprint(f) /\ tail'.end = end /\ tail'.batch = batch
      /\ tail'.atEnd = tail.atEnd
  BY <1>1, <1>3
<1>6. AheadOf(f, tail.offset, tail.fp, Rows)
  <2>1. None \notin Inode
    BY LogTailAssumption DEF LogTailAssumption
  <2> QED BY <1>1, <1>3, <2>1 DEF LoopInv, f
<1>7. LinesIn(f, tail.offset, Len(f)) \cap Rows = {} /\ batch \cap Rows = {}
  BY <1>1, <1>2, <1>6 DEF AheadOf
<1>8. AheadOf(f, tail.offset, Fingerprint(f), Rows)
  BY <1>6 DEF AheadOf
<1>9. AheadOf(f, end, Fingerprint(f), Rows \cup batch)
  <2>1. LinesIn(f, end, Len(f)) \cap (Rows \cup batch) = {}
    BY <1>1, <1>2, <1>7
  <2>2. Len(f) \in Nat /\ end <= Len(f)
    BY <1>1, LenProperties DEF Content
  <2>3. StartsALine(f, end)
    BY <1>1, <2>2 DEF StartsALine
  <2> QED BY <2>1, <2>2, <2>3 DEF AheadOf
<1>10. Rows' = Rows
  BY <1>4 DEF Rows
<1>11. \A l \in batch : 2 * l <= written /\ \A j \in Inode : l \in Whole(files[j]) => j = tail.fd
  BY <1>1, <1>2, <1>3, WholeLines DEF f
<1>12. RowsInv'
  <2>1. \A l \in Rows \cup batch : 2 * l <= written
    BY <1>3, <1>11 DEF RowsInv
  <2>2. NoDuplicates'
    BY <1>3, <1>4 DEF RowsInv, NoDuplicates
  <2> QED BY <1>4, <1>5, <1>7, <1>10, <2>1, <2>2 DEF RowsInv
<1>13. SavedInv'
  BY <1>3, <1>4, <1>10 DEF ReadsOnce, SavedInv
<1>14. LoopInv'
  <2>1. tail'.fd # None /\ path' \notin {None, tail'.fd} => Whole(files'[path']) \cap Rows' = {}
    BY <1>3, <1>4, <1>5, <1>10 DEF LoopInv
  <2>2. \A i \in Inode \ {tail'.fd} : Whole(files'[i]) \cap tail'.batch = {}
    BY <1>4, <1>5, <1>11
  <2>3. files'[tail'.fd] = f
    BY <1>4, <1>5 DEF f
  <2> QED BY <1>5, <1>8, <1>9, <1>10, <2>1, <2>2, <2>3 DEF LoopInv
<1>15. OpenInv'
  <2>1. ~tail.atEnd
    BY <1>1, <1>3 DEF OpenInv
  <2> QED BY <1>5, <2>1 DEF OpenInv
<1> QED BY <1>12, <1>13, <1>14, <1>15 DEF ReadsOnce

\* Rows and the position behind them are stored in one transaction.
LEMMA ReadsOnceCommit ==
    ASSUME ReadInv, Commit
    PROVE  ReadsOnce'
<1>0. /\ RowsInv /\ SavedInv /\ LoopInv /\ OpenInv /\ TailTypes /\ None \notin Inode
      /\ stored \in [Line -> Nat] /\ tail.batch \subseteq Line
      /\ path \in Inode \cup {None}
      /\ tail \in [pc : {"down", "open", "poll", "write", "drained"}, fd : Inode \cup {None},
                   offset : Nat, inode : Inode \cup {None}, fp : Content, atEnd : BOOLEAN,
                   batch : SUBSET Line, end : Nat]
  <2>1. None \notin Inode
    BY LogTailAssumption DEF LogTailAssumption
  <2> QED BY <2>1 DEF ReadInv, ReadsOnce, TailTypes
<1>1. /\ tail.pc = "write"
      /\ stored' = [l \in Line |-> IF l \in tail.batch THEN stored[l] + 1 ELSE stored[l]]
      /\ saved' = [known |-> TRUE, offset |-> tail.end, inode |-> tail.inode, fp |-> tail.fp]
      /\ tail' = [tail EXCEPT !.pc = "poll", !.offset = tail.end, !.batch = {}]
      /\ UNCHANGED <<files, path, nginx, written, skipped>>
  BY DEF Commit
<1>2. tail.fd \in Inode /\ tail.inode = tail.fd
  BY <1>0, <1>1 DEF TailTypes
<1>3. /\ tail'.pc = "poll" /\ tail'.fd = tail.fd /\ tail'.offset = tail.end /\ tail'.fp = tail.fp
      /\ tail'.batch = {} /\ tail'.atEnd = tail.atEnd
  BY <1>0, <1>1
<1>4. /\ saved'.known /\ saved'.inode = tail.fd /\ saved'.offset = tail.end /\ saved'.fp = tail.fp
  BY <1>1, <1>2
<1>5. Rows' = Rows \cup tail.batch
  BY <1>0, <1>1 DEF Rows
<1>6. /\ AheadOf(files[tail.fd], tail.end, tail.fp, Rows \cup tail.batch)
      /\ \A i \in Inode \ {tail.fd} : Whole(files[i]) \cap tail.batch = {}
  BY <1>0, <1>1 DEF LoopInv
<1>7. RowsInv'
  <2>1. \A l \in Rows' \cup tail'.batch : 2 * l <= written'
    BY <1>0, <1>1, <1>3, <1>5 DEF RowsInv
  <2>2. ASSUME NEW l \in Line PROVE stored'[l] <= 1
    <3>1. CASE l \in tail.batch
      <4>1. stored[l] = 0
        BY <1>0, <3>1 DEF RowsInv, Rows
      <4> QED BY <1>1, <3>1, <4>1
    <3>2. CASE l \notin tail.batch
      BY <1>0, <1>1, <3>2 DEF RowsInv, NoDuplicates
    <3> QED BY <3>1, <3>2
  <2> QED BY <1>3, <2>1, <2>2 DEF RowsInv, NoDuplicates
<1>8. path \notin {None, tail.fd} => Whole(files[path]) \cap (Rows \cup tail.batch) = {}
  BY <1>0, <1>2, <1>6 DEF LoopInv
<1>9. SavedInv'
  BY <1>1, <1>2, <1>4, <1>5, <1>6, <1>8 DEF SavedInv
<1>10. LoopInv'
  BY <1>1, <1>3, <1>5, <1>6, <1>8 DEF LoopInv
<1>11. OpenInv'
  <2>1. ~tail.atEnd
    BY <1>0, <1>1 DEF OpenInv
  <2> QED BY <1>3, <2>1 DEF OpenInv
<1> QED BY <1>7, <1>9, <1>10, <1>11 DEF ReadsOnce

\* The invariant of reading once is inductive.
LEMMA ReadInvStep == MaxRead >= 2 /\ ReadInv /\ [Next]_vars => ReadInv'
<1> SUFFICES ASSUME MaxRead >= 2, ReadInv, [Next]_vars PROVE ReadInv'
  OBVIOUS
<1>1. TailTypes' /\ FilesInv'
  BY TailTypesStep, FilesStep DEF ReadInv
<1>2. CASE UNCHANGED vars
  <2>1. UNCHANGED <<files, path, nginx, written, saved, stored, tail, skipped>>
    BY <1>2 DEF vars
  <2>2. Rows' = Rows
    BY <2>1 DEF Rows
  <2>3. RowsInv' /\ SavedInv' /\ LoopInv' /\ OpenInv'
    BY <2>1, <2>2 DEF ReadInv, ReadsOnce, RowsInv, SavedInv, LoopInv, OpenInv, NoDuplicates
  <2> QED BY <1>1, <2>3 DEF ReadInv, ReadsOnce
<1>3. CASE Next
  <2>1. ReadsOnce'
    BY <1>3, ReadsOnceEnvironment, ReadsOnceOpening, ReadsOncePolling, ReadsOnceRead,
       ReadsOnceCommit DEF Next, Tailer
  <2> QED BY <1>1, <2>1 DEF ReadInv
<1> QED BY <1>2, <1>3

\* The invariant of reading once always holds.
LEMMA ReadInvAlways == MaxRead >= 2 => (Spec => []ReadInv)
<1> SUFFICES ASSUME MaxRead >= 2 PROVE Spec => []ReadInv
  OBVIOUS
<1>1. Init => ReadInv
  BY TailTypesInit, FilesInit, ReadsOnceInit DEF ReadInv
<1>2. ReadInv /\ [Next]_vars => ReadInv'
  BY ReadInvStep
<1> QED BY <1>1, <1>2, PTL DEF Spec

\* A line becomes at most one row, whatever crashes, failed commits, rotations, truncations,
\* reused inode numbers and re-reads come between, if a line fits the read budget of
\* 1 000 000 bytes (tail_log, _read_batch, _write_batch).
THEOREM LinesOnce == MaxRead >= 2 => (Spec => []NoDuplicates)
<1>1. ReadInv => NoDuplicates
  BY DEF ReadInv, ReadsOnce, RowsInv
<1> QED BY <1>1, ReadInvAlways, PTL

-----------------------------------------------------------------------------
(* Nothing is passed over *)

\* The fingerprint is no longer than the shortest line, which names 25 fields in more than
\* its 256 bytes (deploy/nginx-log-format.conf): a file that holds a line has one.
ShortFingerprint == FingerprintLen <= 2

Done == Rows \cup Dropped \cup skipped

\* No line before the stored position, or before the loop's with its batch stored or rolled
\* back, is missing.
BehindInv ==
    /\ saved.known => BehindOf(files[saved.inode], written, saved.offset, saved.fp, Done)
    /\ tail.fd # None => BehindOf(files[tail.fd], written, tail.offset, tail.fp, Done)
    /\ tail.pc = "write" =>
         BehindOf(files[tail.fd], written, tail.end, tail.fp, Done \cup tail.batch)

GapInv == ReadInv /\ BehindInv /\ NoGaps

\* More rows never leave a gap.
LEMMA BehindMore ==
    ASSUME NEW f, NEW last, NEW offset, NEW fp, NEW done, NEW more, done \subseteq more,
           BehindOf(f, last, offset, fp, done)
    PROVE  BehindOf(f, last, offset, fp, more)
BY DEF BehindOf

\* Before the second half there is no whole line.
LEMMA NoLineYet ==
    ASSUME NEW f \in Content, NEW offset \in Nat, offset <= 1
    PROVE  LinesIn(f, 0, offset) = {}
<1>1. ASSUME NEW l \in LinesIn(f, 0, offset) PROVE FALSE
  <2>1. PICK p \in EndsOf(f, l) : p <= offset
    BY DEF LinesIn
  <2>2. p \in 2..Len(f)
    BY DEF EndsOf
  <2>3. Len(f) \in Nat
    BY LenProperties DEF Content
  <2> QED BY <2>1, <2>2, <2>3
<1> QED BY <1>1

\* A file with the fingerprint of another one is not in its place.
LEMMA NotGone ==
    ASSUME NEW f \in Content, NEW last, NEW fp, fp = Fingerprint(f)
    PROVE  ~GoneFrom(f, last, fp)
<1> SUFFICES ASSUME GoneFrom(f, last, fp) PROVE FALSE
  OBVIOUS
<1>1. fp # << >> /\ \A p \in 1..Len(f) : f[p] # fp[1]
  BY DEF GoneFrom
<1>2. Len(f) \in Nat /\ FingerprintLen \in Nat \ {0}
  BY LenProperties, LogTailAssumption DEF Content, LogTailAssumption
<1>3. FingerprintLen <= Len(f)
  BY <1>1, <1>2 DEF Fingerprint
<1>4. 1 \in 1..Len(f)
  BY <1>2, <1>3
<1>5. f[1] \in Half
  <2>1. f \in Seq(Half)
    BY DEF Content, Half
  <2> QED BY <1>4, <2>1, ElementOfSeq
<1>6. fp[1] = f[1]
  BY <1>3, <1>5, FingerprintStays
<1> QED BY <1>1, <1>4, <1>6

\* At the start nothing was passed over.
LEMMA GapInit == Init => BehindInv /\ NoGaps
<1> SUFFICES ASSUME Init PROVE BehindInv /\ NoGaps
  OBVIOUS
<1>1. tail.fd = None /\ tail.pc = "down" /\ saved.known = FALSE
  BY DEF Init, Down, NotSaved
<1>2. \A l \in Line : stored[l] = 0
  BY DEF Init
<1> QED BY <1>1, <1>2 DEF BehindInv, NoGaps

\* A line that nginx adds stands after every position, and a rotation moves none past a line.
LEMMA GapEnvironment ==
    ASSUME GapInv, Write \/ Rotation
    PROVE  BehindInv' /\ NoGaps'
<1>0. /\ TailTypes /\ FilesInv /\ FilesInv' /\ BehindInv /\ NoGaps
      /\ UNCHANGED <<saved, stored, tail, backlog, skipped>>
      /\ \A l \in Rows : 2 * l <= written
  <2>1. FilesInv'
    BY FilesStep DEF GapInv, ReadInv, Next
  <2> QED BY <2>1, EnvironmentMoves DEF GapInv, ReadInv, ReadsOnce, RowsInv
<1>1. Done' = Done /\ tail' = tail /\ saved' = saved
  BY <1>0 DEF Done, Rows
<1>2. written \in Nat
  BY <1>0, LogTailAssumption DEF TailTypes, LogTailAssumption
<1>3. ASSUME NEW i \in Inode
      PROVE  /\ \A offset \in Nat, fp \in Content : \A done :
                  BehindOf(files[i], written, offset, fp, done) =>
                    BehindOf(files'[i], written', offset, fp, done)
             /\ \A l \in Rows : \A n \in EndsOf(files'[i], l) :
                  \A k \in LinesIn(files'[i], 0, n - 2) : k \in Done
  <2>0. /\ files[i] \in Content /\ Run(files[i]) /\ Run(files'[i]) /\ Len(files[i]) \in Nat
        /\ \A p \in 1..Len(files[i]) : Num(files[i][p]) <= written /\ files[i][p] \in Half
    <3>1. files[i] \in Content
      BY <1>0 DEF TailTypes
    <3>2. files[i] \in Seq(Half)
      BY <3>1 DEF Content, Half
    <3> QED BY <1>0, <3>1, <3>2, LenProperties, ElementOfSeq DEF FilesInv
  <2>1. \A l \in Rows : \A n \in EndsOf(files[i], l) :
          \A k \in LinesIn(files[i], 0, n - 2) : k \in Done
    <3> SUFFICES ASSUME NEW l \in Rows, NEW n \in EndsOf(files[i], l),
                        NEW k \in LinesIn(files[i], 0, n - 2)
                 PROVE  k \in Done
      OBVIOUS
    <3>1. k \in Line
      BY DEF LinesIn
    <3>2. l \in Line /\ stored[l] > 0
      BY DEF Rows
    <3>3. k \in Dropped \cup skipped \/ stored[k] > 0
      BY <1>0, <3>2 DEF NoGaps
    <3> QED BY <3>1, <3>3 DEF Done, Rows
  <2>2. CASE files'[i] = files[i] /\ written' \in {written, written + 1}
    <3>1. ASSUME NEW offset \in Nat, NEW fp \in Content, NEW done,
                 BehindOf(files[i], written, offset, fp, done)
          PROVE  BehindOf(files[i], written', offset, fp, done)
      <4>1. CASE GoneFrom(files[i], written, fp)
        <5>1. fp \in Seq(Half) /\ fp # << >>
          BY <4>1 DEF GoneFrom, Content, Half
        <5>2. Len(fp) \in Nat /\ Len(fp) # 0 /\ \A j \in 1..Len(fp) : fp[j] \in Half
          BY <5>1, LenProperties, ElementOfSeq, EmptySeq
        <5>3. fp[1] \in Half
          BY <5>2
        <5>4. Num(fp[1]) \in Nat /\ Num(fp[1]) <= written
          BY <4>1, <5>3, Halves DEF GoneFrom
        <5>5. Num(fp[1]) <= written'
          BY <1>2, <2>2, <5>4
        <5> QED BY <4>1, <5>5 DEF BehindOf, GoneFrom
      <4>2. CASE ~GoneFrom(files[i], written, fp)
        BY <3>1, <4>2 DEF BehindOf
      <4> QED BY <4>1, <4>2
    <3> QED BY <2>1, <2>2, <3>1
  <2>3. CASE files'[i] = << >> /\ written' = written
    <3>1. \A l : EndsOf(<< >>, l) = {}
      BY DEF EndsOf
    <3>2. \A offset \in Nat, fp \in Content : \A done :
            BehindOf(files[i], written, offset, fp, done) =>
              BehindOf(<< >>, written, offset, fp, done)
      BY <1>2, <2>0, BehindEmpty
    <3> QED BY <2>3, <3>1, <3>2
  <2>4. CASE /\ files'[i] = Grown(files[i]) /\ written' = written + 1
             /\ written < 2 * LastLine
    <3>1. PICK half \in Half : Num(half) = written + 1 /\ \A f : Grown(f) = Append(f, half)
      BY <1>0, <2>4, WrittenNext
    <3>2. files'[i] = Append(files[i], half)
      BY <2>4, <3>1
    <3>3. \A offset \in Nat, fp \in Content : \A done :
            BehindOf(files[i], written, offset, fp, done) =>
              BehindOf(files'[i], written + 1, offset, fp, done)
      BY <1>2, <2>0, <3>1, <3>2, BehindGrows
    <3>4. ASSUME NEW l \in Rows, NEW n \in EndsOf(files'[i], l),
                 NEW k \in LinesIn(files'[i], 0, n - 2)
          PROVE  k \in Done
      <4>1. l \in Line /\ half # <<l, 2>>
        <5>1. l \in Line /\ l \in Nat
          BY DEF Rows, Line
        <5>2. ASSUME half = <<l, 2>> PROVE FALSE
          <6>1. Num(half) = 2 * l
            BY <5>1, <5>2 DEF Num
          <6> QED BY <1>0, <1>2, <3>1, <5>1, <6>1
        <5> QED BY <5>1, <5>2
      <4>2. n \in EndsOf(files[i], l)
        BY <2>0, <3>2, <4>1, LinesGrow
      <4>3. n - 2 \in 0..Len(files[i])
        BY <2>0, <4>2 DEF EndsOf
      <4>4. k \in LinesIn(files[i], 0, n - 2)
        BY <2>0, <3>2, <4>3, LinesGrow
      <4> QED BY <2>1, <4>2, <4>4
    <3> QED BY <2>4, <3>3, <3>4
  <2> QED BY <1>0, <2>2, <2>3, <2>4, FilesMove
<1>4. BehindInv'
  <2>1. /\ saved.known => saved.inode \in Inode
        /\ tail.fd # None => tail.fd \in Inode
        /\ tail.pc = "write" => tail.fd \in Inode
        /\ saved.offset \in Nat /\ tail.offset \in Nat /\ tail.end \in Nat
        /\ saved.fp \in Content /\ tail.fp \in Content
    BY <1>0 DEF TailTypes, GapInv, ReadInv, ReadsOnce, SavedInv
  <2> QED BY <1>0, <1>1, <1>3, <2>1 DEF BehindInv
<1>5. NoGaps'
  BY <1>0, <1>1, <1>3 DEF NoGaps, Done, Rows
<1> QED BY <1>4, <1>5

\* Steps that store nothing and leave the files alone pass over nothing either.
LEMMA GapsLast ==
    ASSUME GapInv, UNCHANGED <<files, written, stored>>, skipped \subseteq skipped'
    PROVE  NoGaps' /\ Done \subseteq Done'
BY DEF GapInv, NoGaps, Done, Rows

\* A restart passes over nothing that its file still holds.
LEMMA GapOpening ==
    ASSUME GapInv, ShortFingerprint, Start \/ OpenAtEnd \/ Open
    PROVE  BehindInv' /\ NoGaps'
<1>0. /\ TailTypes /\ BehindInv /\ OpenInv
      /\ path \in Inode \cup {None} /\ files \in [Inode -> Content]
  BY DEF GapInv, ReadInv, ReadsOnce, TailTypes
<1>1. CASE Start
  <2>1. /\ UNCHANGED <<files, written, saved, stored, skipped>>
        /\ tail' = [Down EXCEPT !.pc = "open", !.offset = saved.offset, !.inode = saved.inode,
                                !.fp = saved.fp, !.atEnd = ~saved.known /\ ~backlog]
    BY <1>1 DEF Start
  <2>2. tail'.pc = "open" /\ tail'.fd = None
    BY <2>1 DEF Down
  <2>3. NoGaps' /\ Done' = Done
    BY <2>1, GapsLast DEF Done, Rows
  <2> QED BY <1>0, <2>1, <2>2, <2>3 DEF BehindInv
<1>2. CASE OpenAtEnd
  <2> DEFINE f == files[path]
  <2>1. /\ path # None /\ tail.pc = "open"
        /\ tail' = [tail EXCEPT !.pc = "poll", !.fd = path, !.inode = path, !.offset = Len(f),
                                !.fp = Fingerprint(f), !.atEnd = FALSE]
        /\ skipped' = skipped \cup LinesIn(f, 0, Len(f))
        /\ UNCHANGED <<files, path, written, saved, stored>>
    BY <1>2 DEF OpenAtEnd
  <2>2. f \in Content /\ Len(f) \in Nat
    BY <1>0, <2>1, LenProperties DEF Content
  <2> HIDE DEF f
  <2>3. tail'.pc = "poll" /\ tail'.fd = path /\ tail'.offset = Len(f) /\ tail'.fp = Fingerprint(f)
    BY <1>0, <2>1 DEF TailTypes
  <2>4. NoGaps' /\ Done \subseteq Done' /\ LinesIn(f, 0, Len(f)) \subseteq Done'
    BY <2>1, GapsLast DEF Done
  <2>5. BehindOf(f, written, Len(f), Fingerprint(f), Done')
    <3>1. Len(f) <= 1 \/ FingerprintLen <= Len(f)
      BY <2>2, LogTailAssumption DEF ShortFingerprint, LogTailAssumption
    <3> QED BY <2>2, <2>4, <3>1 DEF BehindOf
  <2>6. saved'.known => BehindOf(files'[saved'.inode], written', saved'.offset, saved'.fp, Done')
    BY <1>0, <2>1, <2>4, BehindMore DEF BehindInv
  <2> QED BY <2>1, <2>3, <2>4, <2>5, <2>6 DEF BehindInv, f
<1>3. CASE Open
  <2>1. /\ path # None /\ tail.pc = "open"
        /\ tail' = [tail EXCEPT !.pc = "poll", !.fd = path, !.inode = path,
                                !.offset = IF path # tail.inode THEN 0 ELSE @,
                                !.fp = IF path # tail.inode THEN Fingerprint(files[path]) ELSE @]
        /\ UNCHANGED <<files, path, written, saved, stored, skipped>>
    BY <1>3 DEF Open
  <2>2. /\ tail'.pc = "poll" /\ tail'.fd = path
        /\ path # tail.inode => tail'.offset = 0
        /\ path = tail.inode => tail'.offset = tail.offset /\ tail'.fp = tail.fp
    BY <1>0, <2>1 DEF TailTypes
  <2>3. NoGaps' /\ Done' = Done
    BY <2>1, GapsLast DEF Done, Rows
  <2>4. BehindOf(files[path], written, tail'.offset, tail'.fp, Done)
    <3>1. CASE path # tail.inode
      BY <2>2, <3>1 DEF BehindOf
    <3>2. CASE path = tail.inode
      <4>1. saved.known /\ tail.inode = saved.inode /\ tail.offset = saved.offset
            /\ tail.fp = saved.fp
        BY <1>0, <2>1, <3>2 DEF OpenInv
      <4> QED BY <1>0, <2>2, <3>2, <4>1 DEF BehindInv
    <3> QED BY <3>1, <3>2
  <2> QED BY <1>0, <2>1, <2>2, <2>3, <2>4 DEF BehindInv
<1> QED BY <1>1, <1>2, <1>3

\* A file is given up only when it was read to its end.
LEMMA GapPolling ==
    ASSUME GapInv, NoticeReplaced \/ ReadNothing \/ LookAtPath \/ CommitFails \/ Crash
    PROVE  BehindInv' /\ NoGaps'
<1>1. UNCHANGED <<files, path, written, saved, stored, skipped>>
  BY DEF NoticeReplaced, ReadNothing, LookAtPath, CommitFails, Crash
<1>2. NoGaps' /\ Done' = Done
  BY <1>1, GapsLast DEF Done, Rows
<1>3. tail \in [pc : {"down", "open", "poll", "write", "drained"}, fd : Inode \cup {None},
                offset : Nat, inode : Inode \cup {None}, fp : Content, atEnd : BOOLEAN,
                batch : SUBSET Line, end : Nat]
  BY DEF GapInv, ReadInv, TailTypes
<1>4. tail' \in {Afresh, Down, [tail EXCEPT !.pc = "poll"], [tail EXCEPT !.pc = "drained"],
                 [tail EXCEPT !.pc = "poll", !.batch = {}]}
  BY DEF NoticeReplaced, ReadNothing, LookAtPath, CommitFails, Crash
<1>5. /\ tail'.pc # "write"
      /\ \/ tail'.fd = None
         \/ tail'.fd = tail.fd /\ tail'.offset = tail.offset /\ tail'.fp = tail.fp
  <2>1. CASE tail' = Afresh \/ tail' = Down
    <3>1. Afresh.pc = "open" /\ Afresh.fd = None
      BY <1>3 DEF Afresh
    <3>2. Down.pc = "down" /\ Down.fd = None
      BY DEF Down
    <3> QED BY <2>1, <3>1, <3>2
  <2>2. CASE tail' \in {[tail EXCEPT !.pc = "poll"], [tail EXCEPT !.pc = "drained"],
                        [tail EXCEPT !.pc = "poll", !.batch = {}]}
    BY <1>3, <2>2
  <2> QED BY <1>4, <2>1, <2>2
<1>6. BehindInv'
  BY <1>1, <1>2, <1>5 DEF GapInv, BehindInv
<1> QED BY <1>2, <1>6

\* Where a read may go on, nothing before it is missing.
LEMMA SoundOffset ==
    ASSUME ShortFingerprint, NEW f \in Content, NEW offset \in Nat, NEW fp, NEW last, NEW done,
           offset # 0 =>
             /\ offset <= Len(f)
             /\ fp = << >> \/ Fingerprint(f) = << >> \/ Fingerprint(f) = fp,
           BehindOf(f, last, offset, fp, done)
    PROVE  /\ LinesIn(f, 0, offset) \subseteq done
           /\ offset <= 1 \/ (offset <= Len(f) /\ FingerprintLen <= Len(f))
<1>1. Len(f) \in Nat /\ FingerprintLen \in Nat \ {0} /\ FingerprintLen <= 2
  BY LenProperties, LogTailAssumption DEF Content, LogTailAssumption, ShortFingerprint
<1>2. CASE offset <= 1
  BY <1>2, NoLineYet
<1>3. CASE ~(offset <= 1)
  <2>1. /\ offset <= Len(f) /\ FingerprintLen <= Len(f)
        /\ fp = << >> \/ Fingerprint(f) = << >> \/ Fingerprint(f) = fp
    BY <1>1, <1>3
  <2>2. ASSUME GoneFrom(f, last, fp) PROVE FALSE
    <3>1. Fingerprint(f) # << >>
      <4>1. PICK half \in Half : TRUE
        <5>1. f \in Seq(Half) /\ 1 \in 1..Len(f)
          BY <1>1, <2>1 DEF Content, Half
        <5>2. f[1] \in Half
          BY <5>1, ElementOfSeq
        <5> QED BY <5>2
      <4> QED BY <2>1, <4>1, FingerprintStays
    <3>2. fp = Fingerprint(f)
      BY <2>1, <2>2, <3>1 DEF GoneFrom
    <3> QED BY <2>2, <3>2, NotGone
  <2> QED BY <1>3, <2>1, <2>2 DEF BehindOf
<1> QED BY <1>2, <1>3

\* Two reads that meet at the start of a line miss none between them.
LEMMA LinesMeet ==
    ASSUME NEW f \in Content, NEW a \in Nat, NEW b \in Nat, StartsALine(f, a),
           NEW l \in LinesIn(f, 0, b)
    PROVE  l \in LinesIn(f, 0, a) \/ l \in LinesIn(f, a, b)
<1>1. PICK p \in EndsOf(f, l) : p <= b /\ 0 < p - 1
  BY DEF LinesIn
<1>2. l \in Line /\ p \in 2..Len(f) /\ f[p - 1] = <<l, 1>> /\ Len(f) \in Nat
  BY <1>1, LenProperties DEF LinesIn, EndsOf, Content
<1>3. CASE p <= a
  BY <1>1, <1>2, <1>3 DEF LinesIn
<1>4. CASE a < p - 1
  BY <1>1, <1>2, <1>4 DEF LinesIn
<1>5. CASE a = p - 1
  <2>1. IsEnd(f[p - 1])
    BY <1>2, <1>5 DEF StartsALine
  <2> QED BY <1>2, <2>1 DEF IsEnd
<1> QED BY <1>2, <1>3, <1>4, <1>5

\* A read moves past whole lines only, all of which are in the batch.
LEMMA GapRead ==
    ASSUME GapInv, ShortFingerprint, MaxRead >= 2, Read
    PROVE  BehindInv' /\ NoGaps'
<1> DEFINE f == files[tail.fd]
           end == BatchEnd(f, tail.offset)
           lines == LinesIn(f, tail.offset, end)
           batch == lines \ Dropped
<1>1. /\ tail.fd \in Inode /\ f \in Content /\ end \in (tail.offset + 1)..Len(f)
      /\ tail' = [tail EXCEPT !.pc = "write", !.end = end, !.fp = Fingerprint(f),
                              !.batch = batch]
  BY BatchRead DEF GapInv
<1>2. lines \subseteq batch \cup Dropped
  OBVIOUS
<1>3. /\ tail.offset # 0 =>
           /\ tail.offset <= Len(f) /\ StartsALine(f, tail.offset)
           /\ tail.fp = << >> \/ Fingerprint(f) = << >> \/ Fingerprint(f) = tail.fp
      /\ StartsALine(f, tail.offset)
  <2>1. ~Replaced(f)
    BY DEF Read
  <2>2. tail.offset \in Nat /\ Len(f) \in Nat
    BY <1>1, LenProperties DEF GapInv, ReadInv, TailTypes, Content
  <2> HIDE DEF f
  <2>3. tail.offset # 0 =>
          /\ tail.offset <= Len(f) /\ StartsALine(f, tail.offset)
          /\ tail.fp = << >> \/ Fingerprint(f) = << >> \/ Fingerprint(f) = tail.fp
    BY <2>1, <2>2 DEF Replaced
  <2>4. tail.offset = 0 => StartsALine(f, tail.offset)
    BY DEF StartsALine
  <2> QED BY <2>3, <2>4
<1>4. LinesIn(f, tail.offset, end) = lines
  OBVIOUS
<1> HIDE DEF lines, batch, end
<1>5. /\ tail \in [pc : {"down", "open", "poll", "write", "drained"}, fd : Inode \cup {None},
                   offset : Nat, inode : Inode \cup {None}, fp : Content, atEnd : BOOLEAN,
                   batch : SUBSET Line, end : Nat]
      /\ BehindInv /\ None \notin Inode
  <2>1. None \notin Inode
    BY LogTailAssumption DEF LogTailAssumption
  <2> QED BY <2>1 DEF GapInv, ReadInv, TailTypes
<1>6. UNCHANGED <<files, path, written, saved, stored, skipped>>
  BY DEF Read
<1>7. NoGaps' /\ Done' = Done
  BY <1>6, GapsLast DEF Done, Rows
<1>8. /\ tail'.pc = "write" /\ tail'.fd = tail.fd /\ tail'.offset = tail.offset
      /\ tail'.fp = Fingerprint(f) /\ tail'.end = end /\ tail'.batch = batch
  BY <1>1, <1>5
<1>9. BehindOf(f, written, tail.offset, tail.fp, Done)
  BY <1>1, <1>5 DEF BehindInv
<1> HIDE DEF f
<1>10. /\ LinesIn(f, 0, tail.offset) \subseteq Done /\ tail.offset \in Nat
       /\ tail.offset <= 1 \/ (tail.offset <= Len(f) /\ FingerprintLen <= Len(f))
  BY <1>1, <1>3, <1>5, <1>9, SoundOffset
<1>11. BehindOf(f, written, tail.offset, Fingerprint(f), Done)
  BY <1>10 DEF BehindOf
<1>12. BehindOf(f, written, end, Fingerprint(f), Done \cup batch)
  <2>1. Len(f) \in Nat /\ end \in Nat /\ end <= Len(f) /\ Dropped \subseteq Done
    BY <1>1, <1>10, LenProperties DEF Content, Done
  <2>2. LinesIn(f, 0, end) \subseteq Done \cup batch
    <3> SUFFICES ASSUME NEW l \in LinesIn(f, 0, end) PROVE l \in Done \cup batch
      OBVIOUS
    <3>1. l \in LinesIn(f, 0, tail.offset) \/ l \in lines
      BY <1>1, <1>3, <1>4, <1>10, <2>1, LinesMeet
    <3> QED BY <1>2, <1>10, <2>1, <3>1
  <2>3. end <= 1 \/ FingerprintLen <= Len(f)
    BY <2>1, LogTailAssumption DEF ShortFingerprint, LogTailAssumption
  <2> QED BY <2>1, <2>2, <2>3 DEF BehindOf
<1>13. files'[tail'.fd] = f
  BY <1>6, <1>8 DEF f
<1>14. BehindInv'
  BY <1>5, <1>6, <1>7, <1>8, <1>11, <1>12, <1>13 DEF BehindInv
<1> QED BY <1>7, <1>14

\* The batch is stored with the position behind it.
LEMMA GapCommit ==
    ASSUME GapInv, Commit
    PROVE  BehindInv' /\ NoGaps'
<1>0. /\ TailTypes /\ FilesInv /\ LoopInv /\ BehindInv /\ NoGaps
      /\ stored \in [Line -> Nat] /\ tail.batch \subseteq Line
      /\ tail \in [pc : {"down", "open", "poll", "write", "drained"}, fd : Inode \cup {None},
                   offset : Nat, inode : Inode \cup {None}, fp : Content, atEnd : BOOLEAN,
                   batch : SUBSET Line, end : Nat]
  BY DEF GapInv, ReadInv, ReadsOnce, TailTypes
<1>1. /\ tail.pc = "write"
      /\ stored' = [l \in Line |-> IF l \in tail.batch THEN stored[l] + 1 ELSE stored[l]]
      /\ saved' = [known |-> TRUE, offset |-> tail.end, inode |-> tail.inode, fp |-> tail.fp]
      /\ tail' = [tail EXCEPT !.pc = "poll", !.offset = tail.end, !.batch = {}]
      /\ UNCHANGED <<files, path, nginx, written, skipped>>
  BY DEF Commit
<1>2. tail.fd \in Inode /\ tail.inode = tail.fd
  BY <1>0, <1>1 DEF TailTypes
<1>3. tail'.pc = "poll" /\ tail'.fd = tail.fd /\ tail'.offset = tail.end /\ tail'.fp = tail.fp
  BY <1>0, <1>1
<1>4. saved'.known /\ saved'.inode = tail.fd /\ saved'.offset = tail.end /\ saved'.fp = tail.fp
  BY <1>1, <1>2
<1>5. Rows' = Rows \cup tail.batch
  BY <1>0, <1>1 DEF Rows
<1>6. Done' = Done \cup tail.batch
  BY <1>1, <1>5 DEF Done
<1>7. BehindOf(files[tail.fd], written, tail.end, tail.fp, Done \cup tail.batch)
  BY <1>0, <1>1 DEF BehindInv
<1>8. BehindInv'
  BY <1>1, <1>3, <1>4, <1>6, <1>7 DEF BehindInv
\* A line of the batch that is still in a file is in the one that was read, before the end
\* of the batch, and the file is still the same.
<1>9. ASSUME NEW i \in Inode, NEW l \in tail.batch, NEW n \in EndsOf(files[i], l),
             NEW k \in LinesIn(files[i], 0, n - 2)
      PROVE  k \in Done \cup tail.batch
  <2> DEFINE f == files[i]
  <2>0. f \in Content /\ Run(f) /\ Len(f) \in Nat /\ l \in Line
    BY <1>0, LenProperties DEF TailTypes, FilesInv, Content
  <2>1. n \in 2..Len(f) /\ f[n] = <<l, 2>> /\ f[n - 1] = <<l, 1>>
    BY <2>0 DEF EndsOf
  <2> HIDE DEF f
  <2>2. l \in Whole(f)
    <3>1. 0 < n - 1 /\ n <= Len(f) /\ 0 \in Nat
      BY <2>0, <2>1
    <3> QED BY <2>0, <2>1, <3>1, LinesOfRun DEF Whole
  <2>3. i = tail.fd
    BY <1>0, <1>1, <2>2 DEF LoopInv, f
  <2>4. AheadOf(f, tail.end, tail.fp, Rows \cup tail.batch)
    BY <1>0, <1>1, <2>3 DEF LoopInv, f
  <2>5. /\ tail.end <= Len(f) /\ StartsALine(f, tail.end) /\ tail.fp \in {<< >>, Fingerprint(f)}
        /\ l \notin LinesIn(f, tail.end, Len(f)) /\ tail.end \in Nat
    BY <1>0, <2>2, <2>4 DEF AheadOf
  <2>6. n <= tail.end
    <3>1. ~(tail.end < n - 1)
      BY <2>0, <2>1, <2>5, LinesOfRun
    <3>2. tail.end # n - 1
      <4>1. n - 1 # 0 /\ ~IsEnd(f[n - 1])
        BY <2>0, <2>1 DEF IsEnd
      <4> QED BY <2>5, <4>1 DEF StartsALine
    <3> QED BY <2>0, <2>1, <2>5, <3>1, <3>2
  <2>7. ~GoneFrom(f, written, tail.fp)
    <3>1. CASE tail.fp = << >>
      BY <3>1 DEF GoneFrom
    <3>2. CASE tail.fp = Fingerprint(f)
      BY <2>0, <3>2, NotGone
    <3> QED BY <2>5, <3>1, <3>2
  <2>8. LinesIn(f, 0, tail.end) \subseteq Done \cup tail.batch
    <3>1. BehindOf(f, written, tail.end, tail.fp, Done \cup tail.batch)
      BY <1>7, <2>3 DEF f
    <3>2. ~(tail.end <= 1)
      BY <2>0, <2>1, <2>5, <2>6
    <3> QED BY <2>7, <3>1, <3>2 DEF BehindOf
  <2>9. k \in LinesIn(f, 0, tail.end)
    <3>1. PICK p \in EndsOf(f, k) : 0 < p - 1 /\ p <= n - 2
      BY DEF LinesIn, f
    <3>2. p \in 2..Len(f) /\ k \in Line
      BY DEF EndsOf, LinesIn, f
    <3>3. p <= tail.end
      BY <2>0, <2>1, <2>5, <2>6, <3>1, <3>2
    <3> QED BY <3>1, <3>2, <3>3 DEF LinesIn
  <2> QED BY <2>8, <2>9
<1>10. NoGaps'
  <2> SUFFICES ASSUME NEW i \in Inode, NEW l \in Line, stored'[l] > 0,
                      NEW n \in EndsOf(files[i], l), NEW k \in LinesIn(files[i], 0, n - 2)
               PROVE  k \in Dropped \cup skipped \/ stored'[k] > 0
    BY <1>1 DEF NoGaps
  <2>1. k \in Line
    BY DEF LinesIn
  <2>2. l \in Rows \cup tail.batch
    BY <1>5 DEF Rows
  <2>3. k \in Done \cup tail.batch
    <3>1. CASE l \in Rows
      BY <1>0, <2>1, <3>1 DEF NoGaps, Done, Rows
    <3>2. CASE l \in tail.batch
      BY <1>9, <3>2
    <3> QED BY <2>2, <3>1, <3>2
  <2>4. k \in Dropped \cup skipped \/ k \in Rows'
    BY <1>5, <2>3 DEF Done
  <2> QED BY <2>4 DEF Rows
<1> QED BY <1>8, <1>10

\* The invariant of leaving no gap is inductive.
LEMMA GapStep == MaxRead >= 2 /\ ShortFingerprint /\ GapInv /\ [Next]_vars => GapInv'
<1> SUFFICES ASSUME MaxRead >= 2, ShortFingerprint, GapInv, [Next]_vars PROVE GapInv'
  OBVIOUS
<1>1. ReadInv'
  BY ReadInvStep DEF GapInv
<1>2. CASE UNCHANGED vars
  <2>1. UNCHANGED <<files, written, saved, stored, tail, skipped>>
    BY <1>2 DEF vars
  <2>2. Done' = Done
    BY <2>1 DEF Done, Rows
  <2> QED BY <1>1, <2>1, <2>2 DEF GapInv, BehindInv, NoGaps
<1>3. CASE Next
  <2>1. BehindInv' /\ NoGaps'
    BY <1>3, GapEnvironment, GapOpening, GapPolling, GapRead, GapCommit DEF Next, Tailer
  <2> QED BY <1>1, <2>1 DEF GapInv
<1> QED BY <1>2, <1>3

\* The invariant of leaving no gap always holds.
LEMMA GapAlways == MaxRead >= 2 /\ ShortFingerprint => (Spec => []GapInv)
<1> SUFFICES ASSUME MaxRead >= 2, ShortFingerprint PROVE Spec => []GapInv
  OBVIOUS
<1>1. Init => GapInv
  BY TailTypesInit, FilesInit, ReadsOnceInit, GapInit DEF GapInv, ReadInv
<1>2. GapInv /\ [Next]_vars => GapInv'
  BY GapStep
<1> QED BY <1>1, <1>2, PTL DEF Spec

\* No line in the middle of a file is passed over: what comes before a stored line in the
\* same file is stored as well, if a line fits the read budget and is not shorter than the
\* fingerprint (_fingerprint, _starts_a_line, tail_log).
THEOREM NothingPassedOver == MaxRead >= 2 /\ ShortFingerprint => (Spec => []NoGaps)
<1>1. GapInv => NoGaps
  BY DEF GapInv
<1> QED BY <1>1, GapAlways, PTL

\* The stored position and the stored rows agree, so that whoever reads on from it neither
\* repeats nor misses a line (_write_batch commits both in one transaction).
THEOREM PositionIsSound ==
    MaxRead >= 2 /\ ShortFingerprint => (Spec => []PositionMatchesRows)
<1>1. GapInv => PositionMatchesRows
  <2> SUFFICES ASSUME GapInv, SameFile
               PROVE  LET f == files[saved.inode] IN
                      /\ LinesIn(f, 0, saved.offset) \ (Dropped \cup skipped)
                           \subseteq {l \in Line : stored[l] > 0}
                      /\ \A l \in LinesIn(f, saved.offset, Len(f)) : stored[l] = 0
    BY DEF PositionMatchesRows
  <2> DEFINE f == files[saved.inode]
  <2>1. /\ saved.inode \in Inode /\ f \in Content /\ saved.offset \in Nat
        /\ Len(f) >= saved.offset /\ saved.fp = Fingerprint(f)
        /\ AheadOf(f, saved.offset, saved.fp, Rows)
        /\ BehindOf(f, written, saved.offset, saved.fp, Done)
    BY DEF GapInv, ReadInv, ReadsOnce, SavedInv, BehindInv, SameFile, TailTypes
  <2> HIDE DEF f
  <2>2. LinesIn(f, 0, saved.offset) \subseteq Done
    <3>1. CASE saved.offset <= 1
      BY <2>1, <3>1, NoLineYet
    <3>2. CASE ~(saved.offset <= 1)
      <4>1. ~GoneFrom(f, written, saved.fp)
        BY <2>1, NotGone
      <4> QED BY <2>1, <3>2, <4>1 DEF BehindOf
    <3> QED BY <3>1, <3>2
  <2>3. ASSUME NEW l \in LinesIn(f, saved.offset, Len(f)) PROVE stored[l] = 0
    <3>1. l \notin Rows
      BY <2>1 DEF AheadOf
    <3>2. l \in Line /\ stored[l] \in Nat
      BY DEF LinesIn, GapInv, ReadInv, TailTypes
    <3> QED BY <3>1, <3>2 DEF Rows
  <2>4. LinesIn(f, 0, saved.offset) \ (Dropped \cup skipped) \subseteq Rows
    BY <2>2 DEF Done
  <2> QED BY <2>3, <2>4 DEF f, Rows
<1> QED BY <1>1, GapAlways, PTL
===============================================================================

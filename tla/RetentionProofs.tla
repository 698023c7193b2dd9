--------------------------- MODULE RetentionProofs ---------------------------
(***************************************************************************)
(* What holds of Retention for every value of its constants: any number of *)
(* rows, months, passes and requests, with or without concurrency.  Then   *)
(* what holds as long as the operations on the archive run one at a time   *)
(* and no row of an earlier month arrives: no visit is lost, files only    *)
(* grow, and Retention implements VisitStore.                              *)
(***************************************************************************)
EXTENDS Retention, WellFoundedInduction, TLAPS

-----------------------------------------------------------------------------
(* The month a pass takes next *)

\* A non-empty set of naturals has a least element.
LEMMA LeastExists ==
    ASSUME NEW S, S \subseteq Nat, S # {}
    PROVE  \E m \in S : \A n \in S : m <= n
<1>1. \E m \in S : \A n \in S : ~(<<n, m>> \in OpToRel(<, Nat))
  BY NatLessThanWellFounded, WFMin
<1>2. PICK m \in S : \A n \in S : ~(<<n, m>> \in OpToRel(<, Nat))
  BY <1>1
<1>3. ASSUME NEW n \in S PROVE m <= n
  <2>1. <<n, m>> \notin OpToRel(<, Nat)
    BY <1>2
  <2>2. ~(n < m)
    BY <2>1 DEF OpToRel
  <2> QED BY <2>2
<1> QED BY <1>3

\* Archiving and dropping take the oldest month of a non-empty list.
LEMMA OldestIn ==
    ASSUME NEW S, S \subseteq Month, S # {}
    PROVE  Oldest(S) \in S
<1>1. S \subseteq Nat
  BY RetentionAssumption DEF Month
<1> QED BY <1>1, LeastExists DEF Oldest

\* Releasing takes the newest.
LEMMA NewestIn ==
    ASSUME NEW S, S \subseteq Month, S # {}
    PROVE  Newest(S) \in S
<1> DEFINE Age(m) == MaxMonth - m
           Ages == {Age(m) : m \in S}
<1>1. \A m \in S : Age(m) \in Nat
  BY RetentionAssumption DEF Month
<1>2. Ages \subseteq Nat
  BY <1>1
<1>3. Ages # {}
  OBVIOUS
<1>4. PICK a \in Ages : \A b \in Ages : a <= b
  <2> HIDE DEF Ages
  <2> QED BY <1>2, <1>3, LeastExists
<1>5. PICK m \in S : a = Age(m)
  BY <1>4
<1>6. ASSUME NEW n \in S PROVE n <= m
  <2>1. Age(m) <= Age(n)
    BY <1>4, <1>5
  <2> QED BY <2>1, RetentionAssumption DEF Month
<1> QED BY <1>6 DEF Newest

-----------------------------------------------------------------------------
(* Type correctness, one lemma per kind of actor *)

\* The clock, the tailer and the kernel keep every variable in its type.
LEMMA EnvironmentType == TypeOK /\ Environment => TypeOK'
<1> SUFFICES ASSUME TypeOK, Environment PROVE TypeOK'
  OBVIOUS
<1> USE DEF TypeOK, dbVars, fileVars, history
<1>1. ASSUME NEW v \in Visit, Ingest(v) PROVE TypeOK'
  BY <1>1 DEF Ingest
<1>2. ASSUME NEW m \in Month, PinRunsOut(m) PROVE TypeOK'
  BY <1>2 DEF PinRunsOut
<1>3. CASE MonthPasses
  BY <1>3, RetentionAssumption DEF MonthPasses, Month
<1>4. CASE Writeback
  BY <1>4 DEF Writeback
<1> QED BY <1>1, <1>2, <1>3, <1>4 DEF Environment

\* A pass at rest has the type of a pass.
LEMMA IdlePassType == IdlePass \in PassRec
BY RetentionAssumption DEF IdlePass, PassRec, Month

\* A request at rest has the type of a request.
LEMMA IdleReqType == IdleReq \in ReqRec
BY RetentionAssumption DEF IdleReq, ReqRec, Month

\* A pass that ends with an exception leaves its record and the lock typed.
LEMMA AbortedType ==
    ASSUME TypeOK, NEW p \in Pass, Aborted(p)
    PROVE  pass' \in [Pass -> PassRec] /\ lock' \in Pass \cup {Free}
BY IdlePassType DEF TypeOK, Aborted

\* A pass that takes a month off its list, with the month's rows, stays typed.
LEMMA TakenType ==
    ASSUME pass \in [Pass -> PassRec], NEW p \in Pass, NEW m \in Month,
           NEW rows \in SUBSET Visit
    PROVE  [pass EXCEPT ![p].pc = "rename", ![p].hand = m,
                        ![p].todo = @ \ {m}, ![p].rows = rows] \in [Pass -> PassRec]
<1>1. pass[p] \in PassRec
  OBVIOUS
<1>2. [pass[p] EXCEPT !.pc = "rename", !.hand = m, !.todo = @ \ {m}, !.rows = rows]
          \in PassRec
  BY <1>1 DEF PassRec
<1> QED BY <1>2

\* The retention passes keep every variable in its type.
LEMMA PassType == TypeOK /\ PassNext => TypeOK'
<1> SUFFICES ASSUME TypeOK, NEW p \in Pass, PassStart(p) \/ PassStep(p)
             PROVE  TypeOK'
  BY DEF PassNext
<1>0. /\ pass[p] \in PassRec
      /\ pass[p].todo # {} => Newest(pass[p].todo) \in Month
                              /\ Oldest(pass[p].todo) \in Month
  <2>1. pass[p] \in PassRec
    BY DEF TypeOK
  <2>2. pass[p].todo \subseteq Month
    BY <2>1 DEF PassRec
  <2> QED BY <2>1, <2>2, OldestIn, NewestIn
<1> USE DEF TypeOK, PassRec, dbVars, fileVars, history
<1>1. CASE PassStart(p)
  BY <1>1, IdlePassType DEF PassStart, IdlePass, ExpiredRestores
<1>2. CASE ReleaseResolve(p)
  <2> DEFINE m == Newest(pass[p].todo)
  <2>1. CASE zip[m] = NoZip
    BY <1>2, <2>1, AbortedType DEF ReleaseResolve
  <2>2. CASE zip[m] # NoZip
    <3>1. m \in Month /\ pass[p].todo \subseteq Month
      BY <1>0, <1>2 DEF ReleaseResolve
    <3>2. pass' = [pass EXCEPT ![p].pc = "release", ![p].hand = m,
                               ![p].todo = @ \ {m}]
      BY <1>2, <2>2 DEF ReleaseResolve
    <3> HIDE DEF m
    <3>3. pass' \in [Pass -> PassRec]
      BY <1>0, <3>1, <3>2
    <3> QED BY <1>2, <2>2, <3>3 DEF ReleaseResolve, m
  <2> QED BY <2>1, <2>2
<1>3. CASE ReleaseDelete(p)
  <2>1. pass' \in [Pass -> PassRec]
    BY <1>0, <1>3 DEF ReleaseDelete
  <2>2. lock' \in Pass \cup {Free}
    BY <1>3 DEF ReleaseDelete
  <2> QED BY <1>3, <2>1, <2>2 DEF ReleaseDelete
<1>4. CASE ExpireCommit(p)
  <2>1. \A gone : DueMonths(pass[p].now, gone) \subseteq Month
    BY DEF DueMonths
  <2>2. PICK todo \in SUBSET Month :
            pass' = [pass EXCEPT ![p].pc = "archive", ![p].mode = mode,
                                 ![p].gone = {}, ![p].todo = todo]
    BY <1>4, <2>1 DEF ExpireCommit
  <2>3. pass' \in [Pass -> PassRec]
    BY <1>0, <2>2
  <2>4. pin' \in [Month -> {"none", "live", "over"}]
    BY <1>4 DEF ExpireCommit
  <2>5. db' \subseteq Visit /\ lock' \in Pass \cup {Free}
    BY <1>4 DEF ExpireCommit
  <2> QED BY <1>4, <2>3, <2>4, <2>5 DEF ExpireCommit
<1>5. CASE ArchiveBuild(p)
  <2> DEFINE m == Oldest(pass[p].todo)
  <2>1. m \in Month /\ pass[p].todo \subseteq Month
    BY <1>0, <1>5 DEF ArchiveBuild
  <2>2. pass' = [pass EXCEPT ![p].pc = "rename", ![p].hand = m,
                             ![p].todo = @ \ {m}, ![p].rows = InDb(m)]
    BY <1>5 DEF ArchiveBuild
  <2>3. InDb(m) \subseteq Visit
    BY DEF InDb
  <2> HIDE DEF m
  <2>4. pass' \in [Pass -> PassRec]
    BY <2>1, <2>2, <2>3, TakenType
  <2> QED BY <1>5, <2>4 DEF ArchiveBuild
<1>6. CASE ArchiveRename(p)
  <2>1. zip' \in Zip
    <3>1. pass[p].rows \in SUBSET Visit /\ pass[p].hand \in Month
      BY <1>0
    <3> QED BY <1>6, <3>1 DEF ArchiveRename, Zip
  <2>2. pass' \in [Pass -> PassRec]
    BY <1>0, <1>6 DEF ArchiveRename
  <2> QED BY <1>6, <2>1, <2>2 DEF ArchiveRename
<1>7. CASE ArchiveSync(p)
  BY <1>0, <1>7 DEF ArchiveSync
<1>8. CASE ArchiveCommit(p)
  BY <1>0, <1>8 DEF ArchiveCommit
<1>9. CASE ListStale(p)
  BY <1>0, <1>9 DEF ListStale, ExpiredArchives
<1>10. CASE DropUnlink(p)
  BY <1>0, <1>10, AbortedType DEF DropUnlink, Unlink, Zip
<1>11. CASE DropUnpin(p)
  BY <1>0, <1>11 DEF DropUnpin
<1>12. CASE PassEnd(p)
  BY <1>12, IdlePassType DEF PassEnd
<1> QED BY <1>1, <1>2, <1>3, <1>4, <1>5, <1>6, <1>7, <1>8, <1>9, <1>10, <1>11,
           <1>12 DEF PassStep

\* What set_archive_keep_months() stores is 0 or at most the maximum.
LEMMA KeepStoredType ==
    ASSUME rolling \in 0..MaxRolling, NEW n \in Nat
    PROVE  KeepStored(n) \in 0..MaxKeep
BY RetentionAssumption DEF KeepStored, Least, Greatest

\* The storage page keeps every variable in its type.
LEMMA RequestType == TypeOK /\ RequestNext => TypeOK'
<1> SUFFICES ASSUME TypeOK, RequestNext PROVE TypeOK'
  OBVIOUS
<1> USE DEF TypeOK, dbVars, fileVars, history
<1>1. ASSUME NEW r \in Request, RequestStep(r) PROVE TypeOK'
  <2>1. CASE RestoreCommit(r)
    BY <2>1, IdleReqType DEF RestoreCommit, ReqRec
  <2>2. CASE ReleaseCommit(r)
    BY <2>2, IdleReqType DEF ReleaseCommit
  <2>3. CASE DeleteArchiveUnpin(r)
    BY <2>3, IdleReqType DEF DeleteArchiveUnpin
  <2> QED BY <1>1, <2>1, <2>2, <2>3 DEF RequestStep
<1>2. ASSUME NEW r \in Request, NEW m \in Month, RestoreOpen(r, m) PROVE TypeOK'
  BY <1>2 DEF RestoreOpen, ReqRec, Zip
<1>3. ASSUME NEW r \in Request, NEW m \in Month, ReleaseOpen(r, m) PROVE TypeOK'
  BY <1>3 DEF ReleaseOpen, ReqRec
<1>4. ASSUME NEW r \in Request, NEW m \in Month, DeleteArchiveUnlink(r, m)
      PROVE  TypeOK'
  BY <1>4 DEF DeleteArchiveUnlink, Unlink, ReqRec, Zip
<1>5. ASSUME NEW m \in Month, DeleteMonth(m) PROVE TypeOK'
  BY <1>5 DEF DeleteMonth, InDb
<1>6. ASSUME NEW x \in {"rolling", "lifetime"}, SetMode(x) PROVE TypeOK'
  BY <1>6 DEF SetMode
<1>7. ASSUME NEW n \in 0..(MaxRolling + 1), SetRollingMonths(n) PROVE TypeOK'
  BY <1>7, RetentionAssumption DEF SetRollingMonths, Least
<1>8. ASSUME NEW n \in 0..(MaxKeep + 1), SetArchiveKeepMonths(n) PROVE TypeOK'
  BY <1>8, KeepStoredType DEF SetArchiveKeepMonths
<1> QED BY <1>1, <1>2, <1>3, <1>4, <1>5, <1>6, <1>7, <1>8 DEF RequestNext

\* So do failures and power cuts.
LEMMA FaultType == TypeOK /\ Fault => TypeOK'
<1> SUFFICES ASSUME TypeOK, Fault PROVE TypeOK'
  OBVIOUS
<1> USE RetentionAssumption DEF dbVars, fileVars, history
<1>1. ASSUME NEW p \in Pass, PassFails(p) PROVE TypeOK'
  BY <1>1, AbortedType DEF TypeOK, PassFails
<1>2. ASSUME NEW r \in Request, RequestFails(r) PROVE TypeOK'
  BY <1>2, IdleReqType DEF TypeOK, RequestFails
<1>3. CASE PowerCut
  BY <1>3, IdlePassType, IdleReqType DEF TypeOK, PowerCut, Zip
<1> QED BY <1>1, <1>2, <1>3 DEF Fault

\* Every step keeps the type invariant, which is therefore inductive.
LEMMA TypeStep == TypeOK /\ [Next]_vars => TypeOK'
<1>1. ASSUME TypeOK, UNCHANGED vars PROVE TypeOK'
  BY <1>1 DEF TypeOK, vars
<1> QED BY <1>1, EnvironmentType, PassType, RequestType, FaultType DEF Next

\* It holds when the service starts with an empty database and directory.
LEMMA TypeInit == Init => TypeOK
BY IdlePassType, IdleReqType, RetentionAssumption
   DEF Init, TypeOK, Zip, Month

\* The clamps of the settings, the shape of the archive directory and of every
\* actor's state hold for any number of actors, months and faults.
THEOREM TypeCorrect == Spec => []TypeOK
BY TypeInit, TypeStep, PTL DEF Spec

-----------------------------------------------------------------------------
(* The write lock: what archive_month() deletes is what it wrote *)

Writing(p) == pass[p].pc \in {"rename", "sync", "commit"}

\* A pass between its SELECT and its DELETE holds the write lock and its rows
\* are the month's; so does a pass that has deleted rows it has not committed.
LockInv ==
    \A p \in Pass :
        /\ Writing(p) => lock = p /\ pass[p].rows = InDb(pass[p].hand)
        /\ pass[p].gone # {} => lock = p /\ pass[p].pc \in {"expire", "release"}

\* With the lock free, nobody is writing a month and nothing is half deleted.
LEMMA FreeLock ==
    ASSUME LockInv, lock = Free, NEW p \in Pass
    PROVE  ~Writing(p) /\ pass[p].gone = {}
BY RetentionAssumption DEF LockInv

\* Steps that need the lock to be free, or leave the database alone, and do not
\* touch the passes keep the invariant.
LEMMA LockFrame ==
    ASSUME LockInv, UNCHANGED <<pass, lock>>, lock = Free \/ UNCHANGED db
    PROVE  LockInv'
<1>1. CASE lock = Free
  BY <1>1, FreeLock DEF LockInv, Writing
<1>2. CASE UNCHANGED db
  BY <1>2 DEF LockInv, Writing, InDb
<1> QED BY <1>1, <1>2

\* A pass that stops in the middle lets go of the lock.
LEMMA LockAborted ==
    ASSUME TypeOK, LockInv, NEW p \in Pass, Aborted(p), UNCHANGED db
    PROVE  LockInv'
<1> SUFFICES ASSUME NEW q \in Pass
             PROVE  /\ Writing(q)' => /\ lock' = q
                                      /\ pass'[q].rows = InDb(pass[q].hand)'
                    /\ pass'[q].gone # {} =>
                           lock' = q /\ pass'[q].pc \in {"expire", "release"}
  BY DEF LockInv
<1>1. CASE q = p
  BY <1>1 DEF TypeOK, Aborted, IdlePass, Writing
<1>2. CASE q # p
  BY <1>2 DEF TypeOK, LockInv, Aborted, Writing, InDb
<1> QED BY <1>1, <1>2

\* Every step of a pass keeps the lock invariant.
LEMMA LockPass == TypeOK /\ LockInv /\ PassNext => LockInv'
<1> SUFFICES ASSUME TypeOK, LockInv, NEW p \in Pass, PassStart(p) \/ PassStep(p),
                    NEW q \in Pass
             PROVE  /\ Writing(q)' => /\ lock' = q
                                      /\ pass'[q].rows = InDb(pass[q].hand)'
                    /\ pass'[q].gone # {} =>
                           lock' = q /\ pass'[q].pc \in {"expire", "release"}
  BY DEF PassNext, LockInv
<1>0. /\ pass \in [Pass -> PassRec] /\ lock \in Pass \cup {Free}
      /\ Free \notin Pass
  BY RetentionAssumption DEF TypeOK
<1> USE DEF LockInv, Writing, dbVars, fileVars, history, CanWrite, PassRec, InDb
<1>1. CASE PassStart(p)
  BY <1>0, <1>1 DEF PassStart, IdlePass
<1>2. CASE ReleaseResolve(p)
  <2>1. CASE Aborted(p)
    BY <1>2, <2>1, LockAborted DEF ReleaseResolve
  <2>2. CASE ~Aborted(p)
    BY <1>0, <1>2, <2>2 DEF ReleaseResolve
  <2> QED BY <2>1, <2>2
<1>3. CASE ReleaseDelete(p)
  BY <1>0, <1>3 DEF ReleaseDelete
<1>4. CASE ExpireCommit(p)
  <2>1. CASE q = p
    BY <1>0, <1>4, <2>1 DEF ExpireCommit
  <2>2. CASE q # p /\ pass[p].gone = {}
    <3>1. db' = db
      BY <1>4, <2>2 DEF ExpireCommit
    <3> QED BY <1>0, <1>4, <2>2, <3>1 DEF ExpireCommit
  <2>3. CASE q # p /\ pass[p].gone # {}
    <3>1. ~Writing(q) /\ pass[q].gone = {}
      BY <2>3
    <3> QED BY <1>0, <1>4, <2>3, <3>1 DEF ExpireCommit
  <2> QED BY <2>1, <2>2, <2>3
<1>5. CASE ArchiveBuild(p)
  BY <1>0, <1>5 DEF ArchiveBuild
<1>6. CASE ArchiveRename(p)
  BY <1>0, <1>6 DEF ArchiveRename
<1>7. CASE ArchiveSync(p)
  BY <1>0, <1>7 DEF ArchiveSync
<1>8. CASE ArchiveCommit(p)
  BY <1>0, <1>8 DEF ArchiveCommit
<1>9. CASE ListStale(p)
  BY <1>0, <1>9 DEF ListStale
<1>10. CASE DropUnlink(p)
  <2>1. CASE Aborted(p)
    BY <1>10, <2>1, LockAborted DEF DropUnlink
  <2>2. CASE ~Aborted(p)
    BY <1>0, <1>10, <2>2 DEF DropUnlink
  <2> QED BY <2>1, <2>2
<1>11. CASE DropUnpin(p)
  BY <1>0, <1>11 DEF DropUnpin
<1>12. CASE PassEnd(p)
  BY <1>0, <1>12 DEF PassEnd, IdlePass
<1> QED BY <1>1, <1>2, <1>3, <1>4, <1>5, <1>6, <1>7, <1>8, <1>9, <1>10, <1>11,
           <1>12 DEF PassStep

\* No step of anybody breaks the lock invariant.
LEMMA LockStep == TypeOK /\ LockInv /\ [Next]_vars => LockInv'
<1> SUFFICES ASSUME TypeOK, LockInv, [Next]_vars PROVE LockInv'
  OBVIOUS
<1> USE DEF dbVars, fileVars, history
<1>1. CASE PassNext
  BY <1>1, LockPass
<1>2. CASE RequestNext
  BY <1>2, LockFrame
     DEF RequestNext, RequestStep, RestoreCommit, ReleaseCommit,
         DeleteArchiveUnpin, RestoreOpen, ReleaseOpen, DeleteArchiveUnlink,
         DeleteMonth, SetMode, SetRollingMonths, SetArchiveKeepMonths
<1>3. CASE Environment
  BY <1>3, LockFrame DEF Environment, Ingest, PinRunsOut, MonthPasses, Writeback
<1>4. ASSUME NEW p \in Pass, PassFails(p) PROVE LockInv'
  BY <1>4, LockAborted DEF PassFails
<1>5. ASSUME NEW r \in Request, RequestFails(r) PROVE LockInv'
  BY <1>5, LockFrame DEF RequestFails
<1>6. CASE PowerCut
  BY <1>6 DEF PowerCut, LockInv, Writing, IdlePass
<1>7. CASE UNCHANGED vars
  BY <1>7, LockFrame DEF vars
<1> QED BY <1>1, <1>2, <1>3, <1>4, <1>5, <1>6, <1>7 DEF Next, Fault

\* It holds at the start.
LEMMA LockInit == Init => LockInv
BY DEF Init, LockInv, Writing, IdlePass

\* archive_month() deletes exactly the rows its file holds, whatever runs at
\* the same time: other passes, the storage page, the tailer, failures.
THEOREM DeletesExactly == Spec => []DeletesWhatItWrote
<1>1. LockInv => DeletesWhatItWrote
  BY DEF LockInv, DeletesWhatItWrote, Writing
<1> QED BY <1>1, TypeInit, TypeStep, LockInit, LockStep, PTL DEF Spec

-----------------------------------------------------------------------------
(* No visit is lost *)

\* Rows of month m that somebody still wants.
Ungiven(m) == (ingested \ given) \cap RowsOf(m)

\* A month's file, if there is one, is the file of a past month and holds at
\* least what nobody gave up.
GoodFile(files, m) ==
    files[m] # NoZip => /\ m < thisMonth
                        /\ files[m] \subseteq RowsOf(m)
                        /\ Ungiven(m) \subseteq files[m]

FilesInv == \A m \in Month : GoodFile(zip, m) /\ GoodFile(disk, m)

\* A month is whole in the database, or wholly out of it and in a file that is
\* there both for the processes and after a power cut.
Kept(m) == \/ Ungiven(m) \subseteq db
           \/ InDb(m) = {} /\ zip[m] # NoZip /\ disk[m] # NoZip

KeptInv == \A m \in Month : Kept(m)

\* At most one pass or request is running.
Alone ==
    /\ \A p, q \in Pass : pass[p].pc # "idle" /\ pass[q].pc # "idle" => p = q
    /\ \A r, s \in Request : req[r].pc # "idle" /\ req[s].pc # "idle" => r = s
    /\ \A p \in Pass, r \in Request : pass[p].pc = "idle" \/ req[r].pc = "idle"

\* What a pass has read is still so when it acts on it.
PassFacts(p) ==
    /\ pass[p].now <= thisMonth
    /\ pass[p].pc \in {"expire", "release"} =>
           disk = zip /\ \A m \in pass[p].gone : zip[m] # NoZip
    /\ pass[p].pc = "release" => zip[pass[p].hand] # NoZip
    /\ pass[p].pc \in {"archive", "rename", "sync", "commit"} =>
           \A m \in pass[p].todo : InDb(m) # {} /\ m < thisMonth
    /\ Writing(p) => /\ InDb(pass[p].hand) # {} /\ pass[p].hand < thisMonth
                     /\ pass[p].hand \notin pass[p].todo
    /\ pass[p].pc \in {"sync", "commit"} => zip[pass[p].hand] # NoZip
    /\ pass[p].pc = "commit" => disk[pass[p].hand] # NoZip

\* So is what a request has read.
RequestFacts(r) ==
    /\ req[r].pc = "restore" =>
           /\ zip[req[r].month] = req[r].rows /\ disk[req[r].month] = req[r].rows
           /\ req[r].rows # NoZip
    /\ req[r].pc = "release" =>
           zip[req[r].month] # NoZip /\ disk[req[r].month] # NoZip

ActorsInv == (\A p \in Pass : PassFacts(p)) /\ (\A r \in Request : RequestFacts(r))

SafeInv == FilesInv /\ KeptInv /\ Alone /\ ActorsInv
-----------------------------------------------------------------------------
(* Frames: what an action leaves alone keeps its part of the invariant *)

\* The invariant on the files is about files, clock and history only.
LEMMA FilesFrame ==
    ASSUME FilesInv, UNCHANGED <<zip, disk, ingested, given, thisMonth>>
    PROVE  FilesInv'
BY DEF FilesInv, GoodFile, Ungiven

\* Where a month is kept does not depend on clock, settings or actors.
LEMMA KeptFrame ==
    ASSUME KeptInv, UNCHANGED <<db, zip, disk, ingested, given>>
    PROVE  KeptInv'
BY DEF KeptInv, Kept, Ungiven, InDb

\* A busy pass is alone.
LEMMA BusyPassAlone ==
    ASSUME Alone, NEW p \in Pass, pass[p].pc # "idle"
    PROVE  /\ \A q \in Pass \ {p} : pass[q].pc = "idle"
           /\ \A r \in Request : req[r].pc = "idle"
BY DEF Alone

\* So is a busy request.
LEMMA BusyRequestAlone ==
    ASSUME Alone, NEW r \in Request, req[r].pc # "idle"
    PROVE  /\ \A s \in Request \ {r} : req[s].pc = "idle"
           /\ \A p \in Pass : pass[p].pc = "idle"
BY DEF Alone

\* A step of a pass that is alone need only be looked at for that pass.
LEMMA PassFrame ==
    ASSUME ActorsInv, NEW p \in Pass,
           \A q \in Pass \ {p} : pass[q].pc = "idle",
           \A r \in Request : req[r].pc = "idle",
           \A q \in Pass \ {p} : pass'[q] = pass[q],
           req' = req, thisMonth' = thisMonth, PassFacts(p)'
    PROVE  Alone' /\ ActorsInv'
<1>1. Alone'
  BY DEF Alone
<1>2. \A q \in Pass \ {p} : PassFacts(q)'
  BY DEF ActorsInv, PassFacts, Writing
<1>3. \A r \in Request : RequestFacts(r)'
  BY DEF RequestFacts
<1> QED BY <1>1, <1>2, <1>3 DEF ActorsInv

\* The same for a request.
LEMMA RequestFrame ==
    ASSUME ActorsInv, NEW r \in Request,
           \A p \in Pass : pass[p].pc = "idle",
           \A s \in Request \ {r} : req[s].pc = "idle",
           \A s \in Request \ {r} : req'[s] = req[s],
           pass' = pass, thisMonth' = thisMonth, RequestFacts(r)'
    PROVE  Alone' /\ ActorsInv'
<1>1. Alone'
  BY DEF Alone
<1>2. \A p \in Pass : PassFacts(p)'
  BY DEF ActorsInv, PassFacts, Writing
<1>3. \A s \in Request \ {r} : RequestFacts(s)'
  BY DEF RequestFacts
<1> QED BY <1>1, <1>2, <1>3 DEF ActorsInv

\* With everybody at rest there is nothing to say about the actors.
LEMMA RestFrame ==
    ASSUME ActorsInv, pass' = pass, req' = req, thisMonth' = thisMonth,
           \A p \in Pass : pass[p].pc = "idle",
           \A r \in Request : req[r].pc = "idle"
    PROVE  Alone' /\ ActorsInv'
BY DEF Alone, ActorsInv, PassFacts, RequestFacts, Writing

-----------------------------------------------------------------------------
(* The environment *)

\* A row of the current month joins a month that has no file yet.
LEMMA SafeIngest ==
    ASSUME TypeOK, SafeInv, ~LateRows, NEW v \in Visit, Ingest(v)
    PROVE  SafeInv'
<1> USE DEF Ingest
<1>1. /\ MonthOf[v] = thisMonth /\ db' = db \cup {v}
      /\ UNCHANGED <<zip, disk, thisMonth, pass, req, given>>
      /\ ingested' = ingested \cup {v}
  OBVIOUS
<1>2. \A m \in Month : m # thisMonth => Ungiven(m)' = Ungiven(m)
  BY <1>1 DEF Ungiven, RowsOf
<1>3. thisMonth \in Month /\ ~(thisMonth < thisMonth)
  BY RetentionAssumption DEF TypeOK, Month
<1>4. FilesInv'
  BY <1>1, <1>2, <1>3 DEF SafeInv, FilesInv, GoodFile, RowsOf
<1>5. KeptInv'
  <2>1. Ungiven(thisMonth) \subseteq db
    BY <1>3 DEF SafeInv, FilesInv, GoodFile, KeptInv, Kept
  <2>2. Ungiven(thisMonth)' \subseteq db'
    BY <1>1, <2>1 DEF Ungiven, RowsOf
  <2>3. \A m \in Month : m # thisMonth => InDb(m)' = InDb(m)
    BY <1>1 DEF InDb, RowsOf
  <2> QED BY <1>1, <1>2, <2>2, <2>3 DEF SafeInv, KeptInv, Kept
<1>6. \A m : InDb(m) \subseteq InDb(m)'
  BY <1>1 DEF InDb
<1>7. Alone' /\ ActorsInv'
  BY <1>1, <1>6
     DEF SafeInv, Alone, ActorsInv, PassFacts, RequestFacts, Writing
<1> QED BY <1>4, <1>5, <1>7 DEF SafeInv

\* Time passing makes no month younger, and a writeback is a copy.
LEMMA SafeEnvironment ==
    ASSUME TypeOK, SafeInv, ~LateRows, Environment
    PROVE  SafeInv'
<1> USE DEF dbVars, fileVars, history
<1>1. ASSUME NEW v \in Visit, Ingest(v) PROVE SafeInv'
  BY <1>1, SafeIngest
<1>2. ASSUME NEW m \in Month, PinRunsOut(m) PROVE SafeInv'
  BY <1>2, FilesFrame, KeptFrame
     DEF PinRunsOut, SafeInv, Alone, ActorsInv, PassFacts, RequestFacts, InDb,
         Writing
<1>3. CASE MonthPasses
  <2>1. /\ thisMonth' = thisMonth + 1
        /\ UNCHANGED <<db, zip, disk, pass, req, ingested, given>>
    BY <1>3 DEF MonthPasses
  <2>2. \A m \in Month : m < thisMonth => m < thisMonth'
    BY <2>1, RetentionAssumption DEF TypeOK, Month
  <2>3. FilesInv'
    BY <2>1, <2>2 DEF SafeInv, FilesInv, GoodFile, Ungiven
  <2>4. Alone' /\ \A r \in Request : RequestFacts(r)'
    BY <2>1 DEF SafeInv, Alone, ActorsInv, RequestFacts
  <2>5. ASSUME NEW p \in Pass PROVE PassFacts(p)'
    <3>1. pass[p] \in PassRec
      BY DEF TypeOK
    <3>2. pass[p].now \in Month /\ pass[p].hand \in Month
          /\ pass[p].todo \subseteq Month
      BY <3>1 DEF PassRec
    <3>3. pass[p].now <= thisMonth'
      BY <2>1, <3>2, RetentionAssumption
         DEF TypeOK, Month, SafeInv, ActorsInv, PassFacts
    <3> QED BY <2>1, <2>2, <3>2, <3>3
            DEF SafeInv, ActorsInv, PassFacts, InDb, Writing
  <2> QED BY <2>1, <2>3, <2>4, <2>5, KeptFrame DEF SafeInv, ActorsInv
<1>4. CASE Writeback
  <2>1. disk' = zip /\ UNCHANGED <<db, zip, thisMonth, pass, req, ingested, given>>
    BY <1>4 DEF Writeback
  <2>2. FilesInv' /\ KeptInv'
    BY <2>1 DEF SafeInv, FilesInv, GoodFile, KeptInv, Kept, Ungiven, InDb
  <2>3. Alone'
    BY <2>1 DEF SafeInv, Alone
  <2>4. \A p \in Pass : PassFacts(p)'
    BY <2>1 DEF SafeInv, ActorsInv, PassFacts, InDb, Writing
  <2>5. \A r \in Request : RequestFacts(r)'
    BY <2>1 DEF SafeInv, ActorsInv, RequestFacts
  <2> QED BY <2>2, <2>3, <2>4, <2>5 DEF SafeInv, ActorsInv
<1> QED BY <1>1, <1>2, <1>3, <1>4 DEF Environment

-----------------------------------------------------------------------------
(* A retention pass *)

\* A pass that starts finds everybody else at rest and the directory synced.
LEMMA SafePassStart ==
    ASSUME TypeOK, SafeInv, Serial, NEW p \in Pass, PassStart(p)
    PROVE  SafeInv'
<1> USE DEF PassStart, dbVars, fileVars, history
<1>1. /\ disk = zip
      /\ \A q \in Pass : pass[q].pc = "idle"
      /\ \A r \in Request : req[r].pc = "idle"
  BY DEF MayStart
<1>2. pass'[p] = [IdlePass EXCEPT !.pc = "expire", !.now = thisMonth,
                                  !.todo = ExpiredRestores]
  BY DEF TypeOK
<1>3. PassFacts(p)'
  BY <1>1, <1>2, RetentionAssumption
     DEF PassFacts, Writing, IdlePass, TypeOK, Month
<1>4. \A q \in Pass \ {p} : pass'[q] = pass[q]
  BY DEF TypeOK
<1>5. Alone' /\ ActorsInv'
  BY <1>1, <1>3, <1>4, PassFrame DEF SafeInv
<1> QED BY <1>5, FilesFrame, KeptFrame DEF SafeInv

\* A pass that ends, with or without an exception, leaves nobody running.
LEMMA SafePassStops ==
    ASSUME TypeOK, SafeInv, NEW p \in Pass, pass[p].pc # "idle",
           pass' = [pass EXCEPT ![p] = IdlePass],
           UNCHANGED <<db, zip, disk, thisMonth, req, ingested, given>>
    PROVE  SafeInv'
<1>1. pass'[p] = IdlePass /\ \A q \in Pass \ {p} : pass'[q] = pass[q]
  BY DEF TypeOK
<1>2. PassFacts(p)'
  BY <1>1, RetentionAssumption DEF PassFacts, Writing, IdlePass, TypeOK, Month
<1>3. Alone' /\ ActorsInv'
  BY <1>1, <1>2, PassFrame, BusyPassAlone DEF SafeInv
<1> QED BY <1>3, FilesFrame, KeptFrame DEF SafeInv

\* Looking an archive up and deleting rows that are not committed yet.
LEMMA SafeRelease ==
    ASSUME TypeOK, SafeInv, NEW p \in Pass, ReleaseResolve(p) \/ ReleaseDelete(p)
    PROVE  SafeInv'
<1> USE DEF dbVars, fileVars, history
<1>0. pass[p].pc # "idle" /\ PassFacts(p)
  BY DEF ReleaseResolve, ReleaseDelete, SafeInv, ActorsInv
<1>1. CASE ReleaseResolve(p) /\ zip[Newest(pass[p].todo)] = NoZip
  BY <1>0, <1>1, SafePassStops DEF ReleaseResolve, Aborted
<1>2. CASE ReleaseResolve(p) /\ zip[Newest(pass[p].todo)] # NoZip
  <2> DEFINE m == Newest(pass[p].todo)
  <2>1. /\ pass' = [pass EXCEPT ![p].pc = "release", ![p].hand = m,
                                ![p].todo = @ \ {m}]
        /\ UNCHANGED <<db, zip, disk, thisMonth, req, ingested, given>>
        /\ pass[p].pc = "expire" /\ zip[m] # NoZip
    BY <1>2 DEF ReleaseResolve
  <2> HIDE DEF m
  <2>2. /\ pass'[p].pc = "release" /\ pass'[p].hand = m
        /\ pass'[p].now = pass[p].now /\ pass'[p].gone = pass[p].gone
        /\ \A q \in Pass \ {p} : pass'[q] = pass[q]
    BY <2>1 DEF TypeOK, PassRec
  <2>3. PassFacts(p)'
    BY <1>0, <2>1, <2>2 DEF PassFacts, Writing
  <2>4. Alone' /\ ActorsInv'
    BY <1>0, <2>1, <2>2, <2>3, PassFrame, BusyPassAlone DEF SafeInv
  <2> QED BY <2>1, <2>4, FilesFrame, KeptFrame DEF SafeInv
<1>3. CASE ReleaseDelete(p)
  <2>1. /\ pass' = [pass EXCEPT ![p].pc = "expire",
                                ![p].gone = @ \cup {pass[p].hand}]
        /\ UNCHANGED <<db, zip, disk, thisMonth, req, ingested, given>>
        /\ pass[p].pc = "release"
    BY <1>3 DEF ReleaseDelete
  <2>2. /\ pass'[p].pc = "expire" /\ pass'[p].now = pass[p].now
        /\ pass'[p].gone = pass[p].gone \cup {pass[p].hand}
        /\ \A q \in Pass \ {p} : pass'[q] = pass[q]
    BY <2>1 DEF TypeOK, PassRec
  <2>3. PassFacts(p)'
    BY <1>0, <2>1, <2>2 DEF PassFacts, Writing
  <2>4. Alone' /\ ActorsInv'
    BY <1>0, <2>1, <2>2, <2>3, PassFrame, BusyPassAlone DEF SafeInv
  <2> QED BY <2>1, <2>4, FilesFrame, KeptFrame DEF SafeInv
<1> QED BY <1>1, <1>2, <1>3

\* The rows of released months go, and each has a file that survives anything.
LEMMA SafeExpireCommit ==
    ASSUME TypeOK, SafeInv, NEW p \in Pass, ExpireCommit(p)
    PROVE  SafeInv'
<1> DEFINE gone == UNION {RowsOf(m) : m \in pass[p].gone}
<1> USE DEF fileVars, history
<1>0. /\ pass[p].pc = "expire" /\ PassFacts(p) /\ pass[p] \in PassRec
      /\ db' = db \ gone
      /\ UNCHANGED <<zip, disk, thisMonth, req, ingested, given>>
  BY DEF ExpireCommit, SafeInv, ActorsInv, TypeOK
<1>1. /\ pass'[p].pc = "archive" /\ pass'[p].now = pass[p].now
      /\ \A q \in Pass \ {p} : pass'[q] = pass[q]
      /\ pass'[p].todo \in {DueMonths(pass[p].now, gone), {}}
  BY DEF ExpireCommit, TypeOK, PassRec
<1> HIDE DEF gone
<1>2. KeptInv'
  <2> SUFFICES ASSUME NEW m \in Month PROVE Kept(m)'
    BY DEF KeptInv
  <2>1. CASE m \in pass[p].gone
    <3>1. RowsOf(m) \subseteq gone
      BY <2>1 DEF gone
    <3>2. InDb(m)' = {}
      BY <1>0, <3>1 DEF InDb
    <3>3. zip[m] # NoZip /\ disk[m] # NoZip
      BY <1>0, <2>1 DEF PassFacts
    <3> QED BY <1>0, <3>2, <3>3 DEF Kept
  <2>2. CASE m \notin pass[p].gone
    <3>1. RowsOf(m) \cap gone = {}
      BY <2>2 DEF gone, RowsOf
    <3>2. InDb(m)' = InDb(m) /\ Ungiven(m)' = Ungiven(m)
      BY <1>0, <3>1 DEF InDb, Ungiven
    <3>3. Ungiven(m) \subseteq db => Ungiven(m) \subseteq db'
      BY <1>0, <3>1 DEF Ungiven
    <3> QED BY <1>0, <3>2, <3>3 DEF Kept, SafeInv, KeptInv
  <2> QED BY <2>1, <2>2
<1>3. \A m \in pass'[p].todo : InDb(m)' # {} /\ m < thisMonth
  <2>1. \A m \in DueMonths(pass[p].now, gone) : InDb(m)' # {} /\ m < thisMonth
    <3> SUFFICES ASSUME NEW m \in DueMonths(pass[p].now, gone)
                 PROVE  InDb(m)' # {} /\ m < thisMonth
      OBVIOUS
    <3>1. /\ m \in Month /\ m < pass[p].now - rolling /\ InDb(m) \ gone # {}
      BY DEF DueMonths, WindowStart
    <3>2. InDb(m)' # {}
      BY <1>0, <3>1 DEF InDb
    <3>3. pass[p].now <= thisMonth /\ pass[p].now \in Month
          /\ thisMonth \in Month /\ rolling \in 0..MaxRolling
      BY <1>0 DEF PassFacts, TypeOK, PassRec
    <3>4. m < thisMonth
      BY <3>1, <3>3, RetentionAssumption DEF Month
    <3> QED BY <3>2, <3>4
  <2> QED BY <1>1, <2>1
<1>4. PassFacts(p)'
  BY <1>0, <1>1, <1>3 DEF PassFacts, Writing
<1>5. Alone' /\ ActorsInv'
  BY <1>0, <1>1, <1>4, PassFrame, BusyPassAlone DEF SafeInv
<1> QED BY <1>0, <1>2, <1>5, FilesFrame DEF SafeInv

\* A month is taken from the list while it is whole in the database.
LEMMA SafeArchiveBuild ==
    ASSUME TypeOK, SafeInv, NEW p \in Pass, ArchiveBuild(p)
    PROVE  SafeInv'
<1> DEFINE m == Oldest(pass[p].todo)
<1> USE DEF dbVars, fileVars, history
<1>0. /\ pass[p].pc = "archive" /\ PassFacts(p) /\ pass[p] \in PassRec
      /\ m \in pass[p].todo
      /\ UNCHANGED <<db, zip, disk, thisMonth, req, ingested, given>>
  <2>1. pass[p].todo \subseteq Month
    BY DEF TypeOK, PassRec
  <2> QED BY <2>1, OldestIn DEF ArchiveBuild, SafeInv, ActorsInv, TypeOK
<1>1. pass' = [pass EXCEPT ![p].pc = "rename", ![p].hand = m,
                           ![p].todo = @ \ {m}, ![p].rows = InDb(m)]
  BY DEF ArchiveBuild
<1> HIDE DEF m
<1>2. /\ pass'[p].pc = "rename" /\ pass'[p].hand = m
      /\ pass'[p].now = pass[p].now /\ pass'[p].todo = pass[p].todo \ {m}
      /\ \A q \in Pass \ {p} : pass'[q] = pass[q]
  BY <1>0, <1>1 DEF TypeOK, PassRec
<1>3. \A n : InDb(n)' = InDb(n)
  BY <1>0 DEF InDb
<1>4. PassFacts(p)'
  BY <1>0, <1>2, <1>3 DEF PassFacts, Writing
<1>5. Alone' /\ ActorsInv'
  BY <1>0, <1>2, <1>4, PassFrame, BusyPassAlone DEF SafeInv
<1> QED BY <1>0, <1>5, FilesFrame, KeptFrame DEF SafeInv

\* The new file holds what the database holds of the month, which is all of it.
LEMMA SafeArchiveRename ==
    ASSUME TypeOK, LockInv, SafeInv, NEW p \in Pass, ArchiveRename(p)
    PROVE  SafeInv'
<1>h. PICK h \in Month : h = pass[p].hand
  BY DEF TypeOK, PassRec
<1> USE DEF dbVars, history
<1>0. /\ pass[p].pc = "rename" /\ PassFacts(p) /\ pass[p] \in PassRec
      /\ pass[p].rows = InDb(h)
      /\ zip' = [zip EXCEPT ![h] = pass[p].rows]
      /\ UNCHANGED <<db, disk, thisMonth, req, ingested, given>>
  BY <1>h DEF ArchiveRename, SafeInv, ActorsInv, LockInv, Writing, TypeOK, PassRec
<1>1. /\ pass'[p] = [pass[p] EXCEPT !.pc = "sync"]
      /\ \A q \in Pass \ {p} : pass'[q] = pass[q]
  BY DEF ArchiveRename, TypeOK
<1>2. pass'[p].pc = "sync" /\ pass'[p].hand = h /\ pass'[p].now = pass[p].now
      /\ pass'[p].todo = pass[p].todo
  BY <1>h, <1>0, <1>1 DEF PassRec
<1>3. zip'[h] = InDb(h) /\ \A n \in Month \ {h} : zip'[n] = zip[n]
  BY <1>0 DEF TypeOK, Zip
<1>4. InDb(h) # {} /\ h < thisMonth /\ h \notin pass[p].todo
  BY <1>h, <1>0 DEF PassFacts, Writing
<1>5. zip'[h] # NoZip
  BY <1>3, RetentionAssumption DEF InDb, RowsOf, NoZip
<1>6. Ungiven(h) \subseteq InDb(h)
  BY <1>0, <1>4 DEF SafeInv, KeptInv, Kept, InDb, Ungiven
<1>7. \A n : Ungiven(n)' = Ungiven(n) /\ InDb(n)' = InDb(n)
  BY <1>0 DEF Ungiven, InDb
<1>8. FilesInv'
  <2>1. GoodFile(zip, h)'
    BY <1>0, <1>3, <1>4, <1>6, <1>7 DEF GoodFile, InDb
  <2>2. \A n \in Month \ {h} : GoodFile(zip, n)'
    BY <1>0, <1>3, <1>7 DEF GoodFile, SafeInv, FilesInv
  <2>3. \A n \in Month : GoodFile(disk, n)'
    BY <1>0, <1>7 DEF GoodFile, SafeInv, FilesInv
  <2> QED BY <2>1, <2>2, <2>3 DEF FilesInv
<1>9. KeptInv'
  <2>1. Kept(h)'
    BY <1>0, <1>6, <1>7 DEF Kept, InDb
  <2>2. \A n \in Month \ {h} : Kept(n)'
    BY <1>0, <1>3, <1>7 DEF Kept, SafeInv, KeptInv
  <2> QED BY <2>1, <2>2 DEF KeptInv
<1>10. PassFacts(p)'
  BY <1>h, <1>0, <1>2, <1>4, <1>5, <1>7 DEF PassFacts, Writing
<1>11. Alone' /\ ActorsInv'
  BY <1>0, <1>1, <1>10, PassFrame, BusyPassAlone DEF SafeInv
<1> QED BY <1>8, <1>9, <1>11 DEF SafeInv

\* Syncing the directory copies what the processes see to the disk.
LEMMA SafeArchiveSync ==
    ASSUME TypeOK, SafeInv, NEW p \in Pass, ArchiveSync(p)
    PROVE  SafeInv'
<1> USE DEF dbVars, history
<1>0. /\ pass[p].pc = "sync" /\ PassFacts(p) /\ pass[p] \in PassRec
      /\ disk' = zip
      /\ UNCHANGED <<db, zip, thisMonth, req, ingested, given>>
  BY DEF ArchiveSync, SafeInv, ActorsInv, TypeOK
<1>1. /\ pass'[p] = [pass[p] EXCEPT !.pc = "commit"]
      /\ \A q \in Pass \ {p} : pass'[q] = pass[q]
  BY DEF ArchiveSync, TypeOK
<1>2. /\ pass'[p].pc = "commit" /\ pass'[p].hand = pass[p].hand
      /\ pass'[p].now = pass[p].now /\ pass'[p].todo = pass[p].todo
  BY <1>0, <1>1 DEF PassRec
<1>3. FilesInv' /\ KeptInv'
  BY <1>0 DEF SafeInv, FilesInv, GoodFile, KeptInv, Kept, Ungiven, InDb
<1>4. \A n : InDb(n)' = InDb(n)
  BY <1>0 DEF InDb
<1>5. PassFacts(p)'
  BY <1>0, <1>2, <1>4 DEF PassFacts, Writing
<1>6. Alone' /\ ActorsInv'
  BY <1>0, <1>1, <1>5, PassFrame, BusyPassAlone DEF SafeInv
<1> QED BY <1>3, <1>6 DEF SafeInv

\* The rows go once their file is there for everybody and for the disk.
LEMMA SafeArchiveCommit ==
    ASSUME TypeOK, SafeInv, NEW p \in Pass, ArchiveCommit(p)
    PROVE  SafeInv'
<1>h. PICK h \in Month : h = pass[p].hand
  BY DEF TypeOK, PassRec
<1> USE DEF fileVars, history
<1>0. /\ pass[p].pc = "commit" /\ PassFacts(p) /\ pass[p] \in PassRec
      /\ db' = db \ RowsOf(h)
      /\ UNCHANGED <<zip, disk, thisMonth, req, ingested, given>>
  BY <1>h DEF ArchiveCommit, SafeInv, ActorsInv, TypeOK
<1>1. /\ pass'[p].pc = "archive" /\ pass'[p].now = pass[p].now
      /\ pass'[p].todo = pass[p].todo
      /\ \A q \in Pass \ {p} : pass'[q] = pass[q]
  BY <1>0 DEF ArchiveCommit, TypeOK, PassRec
<1>2. h \notin pass[p].todo /\ zip[h] # NoZip /\ disk[h] # NoZip
  BY <1>h, <1>0 DEF PassFacts, Writing
<1>3. InDb(h)' = {} /\ \A n \in Month \ {h} : InDb(n)' = InDb(n)
  BY <1>0 DEF InDb, RowsOf
<1>4. KeptInv'
  <2>1. Kept(h)'
    BY <1>0, <1>2, <1>3 DEF Kept
  <2>2. ASSUME NEW n \in Month \ {h} PROVE Kept(n)'
    <3>1. Ungiven(n)' = Ungiven(n)
      BY <1>0 DEF Ungiven
    <3>2. Ungiven(n) \subseteq db => Ungiven(n) \subseteq db'
      BY <1>0, <2>2 DEF Ungiven, RowsOf
    <3> QED BY <1>0, <1>3, <2>2, <3>1, <3>2 DEF Kept, SafeInv, KeptInv
  <2> QED BY <2>1, <2>2 DEF KeptInv
<1>5. pass[p].todo \subseteq Month
  BY <1>0 DEF PassRec
<1>6. \A n \in pass[p].todo : InDb(n)' = InDb(n)
  BY <1>2, <1>3, <1>5
<1>7. PassFacts(p)'
  BY <1>0, <1>1, <1>6 DEF PassFacts, Writing
<1>8. Alone' /\ ActorsInv'
  BY <1>0, <1>1, <1>7, PassFrame, BusyPassAlone DEF SafeInv
<1> QED BY <1>0, <1>4, <1>8, FilesFrame DEF SafeInv

\* An archive that goes takes nothing with it that is not given up.
LEMMA SafeUnlink ==
    ASSUME TypeOK, SafeInv, NEW m \in Month, Unlink(m), zip[m] # NoZip,
           UNCHANGED <<db, disk, ingested, thisMonth>>
    PROVE  FilesInv' /\ KeptInv'
<1>1. zip'[m] = NoZip /\ \A n \in Month \ {m} : zip'[n] = zip[n]
  BY DEF Unlink, TypeOK, Zip
<1>2. given' = given \cup (zip[m] \ db)
  BY DEF Unlink
<1>3. \A n : Ungiven(n)' \subseteq Ungiven(n) /\ InDb(n)' = InDb(n)
  BY <1>2 DEF Ungiven, InDb
<1>4. Ungiven(m)' \subseteq db
  BY <1>2 DEF SafeInv, FilesInv, GoodFile, Ungiven
<1>5. FilesInv'
  <2>1. \A n \in Month : GoodFile(zip, n)'
    BY <1>1, <1>3 DEF GoodFile, SafeInv, FilesInv
  <2>2. \A n \in Month : GoodFile(disk, n)'
    BY <1>3 DEF GoodFile, SafeInv, FilesInv
  <2> QED BY <2>1, <2>2 DEF FilesInv
<1>6. KeptInv'
  <2>1. Kept(m)'
    BY <1>4 DEF Kept
  <2>2. \A n \in Month \ {m} : Kept(n)'
    BY <1>1, <1>3 DEF Kept, SafeInv, KeptInv
  <2> QED BY <2>1, <2>2 DEF KeptInv
<1> QED BY <1>5, <1>6

\* The end of a pass: the keep window and the date of the last run.
LEMMA SafeDrop ==
    ASSUME TypeOK, SafeInv, NEW p \in Pass,
           ListStale(p) \/ DropUnlink(p) \/ DropUnpin(p) \/ PassEnd(p)
    PROVE  SafeInv'
<1> USE DEF dbVars, fileVars, history
<1>0. pass[p].pc # "idle" /\ PassFacts(p)
  BY DEF ListStale, DropUnlink, DropUnpin, PassEnd, SafeInv, ActorsInv
<1>1. CASE ListStale(p)
  <2>1. /\ pass'[p].pc = "drop" /\ pass'[p].now = pass[p].now
        /\ \A q \in Pass \ {p} : pass'[q] = pass[q]
        /\ UNCHANGED <<db, zip, disk, thisMonth, req, ingested, given>>
    BY <1>1 DEF ListStale, TypeOK, PassRec
  <2>2. PassFacts(p)'
    BY <1>0, <2>1 DEF PassFacts, Writing
  <2>3. Alone' /\ ActorsInv'
    BY <1>0, <2>1, <2>2, PassFrame, BusyPassAlone DEF SafeInv
  <2> QED BY <2>1, <2>3, FilesFrame, KeptFrame DEF SafeInv
<1>2. CASE DropUnlink(p) /\ zip[Oldest(pass[p].todo)] = NoZip
  BY <1>0, <1>2, SafePassStops DEF DropUnlink, Aborted
<1>3. CASE DropUnlink(p) /\ zip[Oldest(pass[p].todo)] # NoZip
  <2>0. pass[p].todo \subseteq Month
    BY DEF TypeOK, PassRec
  <2>1. PICK m \in Month : m = Oldest(pass[p].todo)
    BY <1>3, <2>0, OldestIn DEF DropUnlink
  <2>2. /\ Unlink(m) /\ zip[m] # NoZip
        /\ pass' = [pass EXCEPT ![p].pc = "unpin", ![p].hand = m,
                                ![p].todo = @ \ {m}]
        /\ UNCHANGED <<db, disk, thisMonth, req, ingested>>
    BY <1>3, <2>1 DEF DropUnlink
  <2>3. /\ pass'[p].pc = "unpin" /\ pass'[p].now = pass[p].now
        /\ \A q \in Pass \ {p} : pass'[q] = pass[q]
    BY <2>2 DEF TypeOK, PassRec
  <2>4. PassFacts(p)'
    BY <1>0, <2>2, <2>3 DEF PassFacts, Writing
  <2>5. Alone' /\ ActorsInv'
    BY <1>0, <2>2, <2>3, <2>4, PassFrame, BusyPassAlone DEF SafeInv
  <2> QED BY <2>2, <2>5, SafeUnlink DEF SafeInv
<1>4. CASE DropUnpin(p)
  <2>1. /\ pass'[p].pc = "drop" /\ pass'[p].now = pass[p].now
        /\ \A q \in Pass \ {p} : pass'[q] = pass[q]
        /\ UNCHANGED <<db, zip, disk, thisMonth, req, ingested, given>>
    BY <1>4 DEF DropUnpin, TypeOK, PassRec
  <2>2. PassFacts(p)'
    BY <1>0, <2>1 DEF PassFacts, Writing
  <2>3. Alone' /\ ActorsInv'
    BY <1>0, <2>1, <2>2, PassFrame, BusyPassAlone DEF SafeInv
  <2> QED BY <2>1, <2>3, FilesFrame, KeptFrame DEF SafeInv
<1>5. CASE PassEnd(p)
  BY <1>0, <1>5, SafePassStops DEF PassEnd
<1> QED BY <1>1, <1>2, <1>3, <1>4, <1>5

\* No step of a pass breaks the invariant.
LEMMA SafePass ==
    ASSUME TypeOK, LockInv, SafeInv, Serial, PassNext
    PROVE  SafeInv'
BY SafePassStart, SafeRelease, SafeExpireCommit, SafeArchiveBuild,
   SafeArchiveRename, SafeArchiveSync, SafeArchiveCommit, SafeDrop
   DEF PassNext, PassStep

-----------------------------------------------------------------------------
(* The storage page *)

\* With Serial, whatever starts finds everybody at rest and the disk current.
LEMMA StartsAlone ==
    ASSUME Serial, MayStart
    PROVE  /\ disk = zip
           /\ \A p \in Pass : pass[p].pc = "idle"
           /\ \A r \in Request : req[r].pc = "idle"
BY DEF MayStart

\* A request that is done, or failed, leaves nobody running.
LEMMA SafeRequestStops ==
    ASSUME TypeOK, SafeInv, NEW r \in Request, req[r].pc # "idle",
           req' = [req EXCEPT ![r] = IdleReq], UNCHANGED <<pass, thisMonth>>
    PROVE  Alone' /\ ActorsInv'
<1>1. req'[r] = IdleReq /\ \A s \in Request \ {r} : req'[s] = req[s]
  BY DEF TypeOK
<1>2. RequestFacts(r)'
  BY <1>1 DEF RequestFacts, IdleReq
<1> QED BY <1>1, <1>2, RequestFrame, BusyRequestAlone DEF SafeInv

\* A restore puts back exactly what the month's file holds.
LEMMA SafeRestoreCommit ==
    ASSUME TypeOK, SafeInv, NEW r \in Request, RestoreCommit(r)
    PROVE  SafeInv'
<1> USE DEF fileVars
<1>1. PICK m \in Month : m = req[r].month
  BY DEF TypeOK, ReqRec
<1>2. /\ zip[m] = req[r].rows /\ disk[m] = req[r].rows /\ req[r].rows # NoZip
      /\ req[r].pc = "restore"
      /\ db' = db \cup zip[m] /\ given' = given \ zip[m]
      /\ UNCHANGED <<zip, disk, ingested, thisMonth, pass>>
      /\ req' = [req EXCEPT ![r] = IdleReq]
  BY <1>1 DEF RestoreCommit, SafeInv, ActorsInv, RequestFacts
<1>3. zip[m] \subseteq RowsOf(m) /\ Ungiven(m) \subseteq zip[m]
  BY <1>2 DEF SafeInv, FilesInv, GoodFile
<1>4. \A n \in Month \ {m} : Ungiven(n)' = Ungiven(n) /\ InDb(n)' = InDb(n)
  BY <1>2, <1>3 DEF Ungiven, InDb, RowsOf
<1>5. Ungiven(m)' \subseteq zip[m] /\ Ungiven(m)' \subseteq db'
  BY <1>2, <1>3 DEF Ungiven
<1>6. FilesInv'
  <2>1. GoodFile(zip, m)' /\ GoodFile(disk, m)'
    BY <1>2, <1>5 DEF GoodFile, SafeInv, FilesInv
  <2>2. \A n \in Month \ {m} : GoodFile(zip, n)' /\ GoodFile(disk, n)'
    BY <1>2, <1>4 DEF GoodFile, SafeInv, FilesInv
  <2> QED BY <2>1, <2>2 DEF FilesInv
<1>7. KeptInv'
  <2>1. Kept(m)'
    BY <1>5 DEF Kept
  <2>2. \A n \in Month \ {m} : Kept(n)'
    BY <1>2, <1>4 DEF Kept, SafeInv, KeptInv
  <2> QED BY <2>1, <2>2 DEF KeptInv
<1> QED BY <1>2, <1>6, <1>7, SafeRequestStops DEF SafeInv

\* A release deletes a month whose file is there, now and after a power cut.
LEMMA SafeReleaseCommit ==
    ASSUME TypeOK, SafeInv, NEW r \in Request, ReleaseCommit(r)
    PROVE  SafeInv'
<1> USE DEF fileVars, history
<1>1. PICK m \in Month : m = req[r].month
  BY DEF TypeOK, ReqRec
<1>2. /\ zip[m] # NoZip /\ disk[m] # NoZip /\ req[r].pc = "release"
      /\ db' = db \ RowsOf(m)
      /\ UNCHANGED <<zip, disk, ingested, given, thisMonth, pass>>
      /\ req' = [req EXCEPT ![r] = IdleReq]
  BY <1>1 DEF ReleaseCommit, SafeInv, ActorsInv, RequestFacts
<1>3. KeptInv'
  <2>1. Kept(m)'
    BY <1>2 DEF Kept, InDb
  <2>2. ASSUME NEW n \in Month \ {m} PROVE Kept(n)'
    <3>1. Ungiven(n)' = Ungiven(n) /\ InDb(n)' = InDb(n)
      BY <1>2 DEF Ungiven, InDb, RowsOf
    <3>2. Ungiven(n) \subseteq db => Ungiven(n) \subseteq db'
      BY <1>2 DEF Ungiven, RowsOf
    <3> QED BY <1>2, <3>1, <3>2 DEF Kept, SafeInv, KeptInv
  <2> QED BY <2>1, <2>2 DEF KeptInv
<1> QED BY <1>2, <1>3, FilesFrame, SafeRequestStops DEF SafeInv

\* What a request finds when it starts is still so when it goes on.
LEMMA SafeOpen ==
    ASSUME TypeOK, SafeInv, Serial, NEW r \in Request, NEW m \in Month,
           RestoreOpen(r, m) \/ ReleaseOpen(r, m) \/ DeleteArchiveUnlink(r, m)
    PROVE  SafeInv'
<1> USE DEF dbVars, fileVars, history
<1>1. MayStart /\ zip[m] # NoZip /\ UNCHANGED <<db, disk, thisMonth, pass>>
  BY DEF RestoreOpen, ReleaseOpen, DeleteArchiveUnlink
<1>2. \A s \in Request \ {r} : req'[s] = req[s]
  BY DEF RestoreOpen, ReleaseOpen, DeleteArchiveUnlink, TypeOK
<1>3. ASSUME RequestFacts(r)' PROVE Alone' /\ ActorsInv'
  BY <1>1, <1>2, <1>3, StartsAlone, RequestFrame DEF SafeInv
<1>4. CASE RestoreOpen(r, m)
  <2>1. /\ req'[r] = [pc |-> "restore", month |-> m, rows |-> zip[m]]
        /\ UNCHANGED <<zip, ingested, given>>
    BY <1>4 DEF RestoreOpen, TypeOK
  <2>2. RequestFacts(r)'
    BY <1>1, <2>1, StartsAlone DEF RequestFacts
  <2> QED BY <1>1, <1>3, <2>1, <2>2, FilesFrame, KeptFrame DEF SafeInv
<1>5. CASE ReleaseOpen(r, m)
  <2>1. /\ req'[r] = [pc |-> "release", month |-> m, rows |-> {}]
        /\ UNCHANGED <<zip, ingested, given>>
    BY <1>5 DEF ReleaseOpen, TypeOK
  <2>2. RequestFacts(r)'
    BY <1>1, <2>1, StartsAlone DEF RequestFacts
  <2> QED BY <1>1, <1>3, <2>1, <2>2, FilesFrame, KeptFrame DEF SafeInv
<1>6. CASE DeleteArchiveUnlink(r, m)
  <2>1. /\ req'[r] = [pc |-> "unpin", month |-> m, rows |-> {}]
        /\ Unlink(m) /\ UNCHANGED ingested
    BY <1>6 DEF DeleteArchiveUnlink, TypeOK
  <2>2. RequestFacts(r)'
    BY <2>1 DEF RequestFacts
  <2> QED BY <1>1, <1>3, <2>1, <2>2, SafeUnlink DEF SafeInv
<1> QED BY <1>4, <1>5, <1>6

\* Deleting a month gives its rows up; those of an archive stay in the archive.
LEMMA SafeDeleteMonth ==
    ASSUME TypeOK, SafeInv, Serial, NEW m \in Month, DeleteMonth(m)
    PROVE  SafeInv'
<1>1. /\ MayStart /\ db' = db \ RowsOf(m) /\ given' = given \cup InDb(m)
      /\ UNCHANGED <<zip, disk, thisMonth, pass, req, ingested>>
  BY DEF DeleteMonth, fileVars
<1>2. \A n : Ungiven(n)' \subseteq Ungiven(n)
  BY <1>1 DEF Ungiven
<1>3. FilesInv'
  BY <1>1, <1>2 DEF FilesInv, GoodFile, SafeInv
<1>4. KeptInv'
  <2>1. Kept(m)'
    <3>1. CASE Ungiven(m) \subseteq db
      BY <1>1, <3>1 DEF Kept, Ungiven, InDb
    <3>2. CASE ~(Ungiven(m) \subseteq db)
      BY <1>1, <3>2 DEF Kept, SafeInv, KeptInv, InDb
    <3> QED BY <3>1, <3>2
  <2>2. ASSUME NEW n \in Month \ {m} PROVE Kept(n)'
    <3>1. Ungiven(n)' = Ungiven(n) /\ InDb(n)' = InDb(n)
      BY <1>1 DEF Ungiven, InDb, RowsOf
    <3>2. Ungiven(n) \subseteq db => Ungiven(n) \subseteq db'
      BY <1>1 DEF Ungiven, RowsOf
    <3> QED BY <1>1, <3>1, <3>2 DEF Kept, SafeInv, KeptInv
  <2> QED BY <2>1, <2>2 DEF KeptInv
<1>5. Alone' /\ ActorsInv'
  BY <1>1, StartsAlone, RestFrame DEF SafeInv
<1> QED BY <1>3, <1>4, <1>5 DEF SafeInv

\* A change of a setting moves no row.
LEMMA SafeSettings ==
    ASSUME SafeInv, Serial, MayStart,
           UNCHANGED <<db, zip, disk, thisMonth, pass, req, ingested, given>>
    PROVE  SafeInv'
<1>1. Alone' /\ ActorsInv'
  BY StartsAlone, RestFrame DEF SafeInv
<1> QED BY <1>1, FilesFrame, KeptFrame DEF SafeInv

\* No step of the storage page breaks the invariant.
LEMMA SafeRequest ==
    ASSUME TypeOK, SafeInv, Serial, RequestNext
    PROVE  SafeInv'
<1> USE DEF dbVars, fileVars, history
<1>1. ASSUME NEW r \in Request, RequestStep(r) PROVE SafeInv'
  <2>1. CASE DeleteArchiveUnpin(r)
    BY <2>1, SafeRequestStops, FilesFrame, KeptFrame
       DEF DeleteArchiveUnpin, SafeInv
  <2> QED BY <1>1, <2>1, SafeRestoreCommit, SafeReleaseCommit DEF RequestStep
<1>2. ASSUME NEW r \in Request, NEW m \in Month,
             RestoreOpen(r, m) \/ ReleaseOpen(r, m) \/ DeleteArchiveUnlink(r, m)
      PROVE  SafeInv'
  BY <1>2, SafeOpen
<1>3. ASSUME NEW m \in Month, DeleteMonth(m) PROVE SafeInv'
  BY <1>3, SafeDeleteMonth
<1>4. ASSUME NEW x \in {"rolling", "lifetime"}, SetMode(x) PROVE SafeInv'
  BY <1>4, SafeSettings DEF SetMode
<1>5. ASSUME NEW n \in 0..(MaxRolling + 1), SetRollingMonths(n) PROVE SafeInv'
  BY <1>5, SafeSettings DEF SetRollingMonths
<1>6. ASSUME NEW n \in 0..(MaxKeep + 1), SetArchiveKeepMonths(n) PROVE SafeInv'
  BY <1>6, SafeSettings DEF SetArchiveKeepMonths
<1> QED BY <1>1, <1>2, <1>3, <1>4, <1>5, <1>6 DEF RequestNext

-----------------------------------------------------------------------------
(* Faults *)

\* After a power cut each name leads to the old file or to the new one, and
\* both hold what nobody gave up.
LEMMA SafePowerCut ==
    ASSUME TypeOK, SafeInv, PowerCut
    PROVE  SafeInv'
<1> USE DEF dbVars, history
<1>1. /\ UNCHANGED <<db, thisMonth, ingested, given>>
      /\ \A m \in Month : zip'[m] \in {zip[m], disk[m]}
      /\ disk' = zip'
      /\ pass' = [p \in Pass |-> IdlePass] /\ req' = [r \in Request |-> IdleReq]
  BY DEF PowerCut
<1>2. FilesInv'
  BY <1>1 DEF SafeInv, FilesInv, GoodFile, Ungiven
<1>3. KeptInv'
  BY <1>1 DEF SafeInv, KeptInv, Kept, Ungiven, InDb
<1>4. Alone' /\ ActorsInv'
  BY <1>1, RetentionAssumption
     DEF Alone, ActorsInv, PassFacts, RequestFacts, IdlePass, IdleReq, Writing,
         TypeOK, Month
<1> QED BY <1>2, <1>3, <1>4 DEF SafeInv

\* A fault leaves the files and the rows of committed transactions.
LEMMA SafeFault ==
    ASSUME TypeOK, SafeInv, Fault
    PROVE  SafeInv'
<1> USE DEF dbVars, fileVars, history
<1>1. ASSUME NEW p \in Pass, PassFails(p) PROVE SafeInv'
  BY <1>1, SafePassStops DEF PassFails, Aborted
<1>2. ASSUME NEW r \in Request, RequestFails(r) PROVE SafeInv'
  BY <1>2, SafeRequestStops, FilesFrame, KeptFrame DEF RequestFails, SafeInv
<1> QED BY <1>1, <1>2, SafePowerCut DEF Fault

-----------------------------------------------------------------------------

\* The invariant holds at the start ...
LEMMA SafeInit == Init => SafeInv
<1> SUFFICES ASSUME Init PROVE SafeInv
  OBVIOUS
<1>1. FilesInv /\ KeptInv
  BY DEF Init, FilesInv, GoodFile, KeptInv, Kept, Ungiven
<1>2. Alone /\ ActorsInv
  BY DEF Init, Alone, ActorsInv, PassFacts, RequestFacts, IdlePass, IdleReq,
         Writing
<1> QED BY <1>1, <1>2 DEF SafeInv

\* ... and no step breaks it.
LEMMA SafeStep ==
    ASSUME Serial, ~LateRows
    PROVE  TypeOK /\ LockInv /\ SafeInv /\ [Next]_vars => SafeInv'
<1> SUFFICES ASSUME TypeOK, LockInv, SafeInv, [Next]_vars PROVE SafeInv'
  OBVIOUS
<1>1. CASE UNCHANGED vars
  <2>1. Alone' /\ ActorsInv'
    BY <1>1 DEF vars, SafeInv, Alone, ActorsInv, PassFacts, RequestFacts, InDb,
                Writing
  <2> QED BY <1>1, <2>1, FilesFrame, KeptFrame DEF vars, SafeInv
<1> QED BY <1>1, SafePass, SafeRequest, SafeEnvironment, SafeFault DEF Next

\* Whoever is kept is held: in the database, or in a file for good.
LEMMA SafeMeansHeld == TypeOK /\ SafeInv => NoVisitLost
<1> SUFFICES ASSUME TypeOK, SafeInv, NEW v \in ingested \ given, v \notin db
             PROVE  Holds(zip, v) /\ Holds(disk, v)
  BY DEF NoVisitLost
<1>1. MonthOf[v] \in Month /\ v \in Ungiven(MonthOf[v])
  BY RetentionAssumption DEF TypeOK, Ungiven, RowsOf
<1> QED BY <1>1 DEF SafeInv, KeptInv, Kept, FilesInv, GoodFile, Holds

\* Archiving, releasing, restoring, deleting and expiring lose no visit that
\* nobody gave up, through any failures and power cuts: run one at a time, and
\* with every row arriving in the month of its timestamp.
THEOREM NothingLost ==
    ASSUME Serial, ~LateRows
    PROVE  Spec => []NoVisitLost
<1>1. TypeOK /\ LockInv /\ SafeInv /\ [Next]_vars => SafeInv'
  BY SafeStep
<1> QED BY <1>1, TypeInit, TypeStep, LockInit, LockStep, SafeInit, SafeMeansHeld,
           PTL DEF Spec

-----------------------------------------------------------------------------
(* An archive is never replaced by a smaller one *)

\* Rows of a month that are in the database beside its file are all of it: a
\* restore brings the whole file back, and a delete takes the whole month.
WholeFile(files, m) ==
    files[m] # NoZip /\ InDb(m) # {} => files[m] \subseteq db

WholeInv == \A m \in Month : WholeFile(zip, m) /\ WholeFile(disk, m)

\* Where the files stay and rows only leave by whole months, files stay whole.
LEMMA WholeDelete ==
    ASSUME TypeOK, SafeInv, WholeInv, NEW S \in SUBSET Month,
           db' = db \ UNION {RowsOf(m) : m \in S},
           UNCHANGED disk,
           \A m \in Month : zip'[m] \in {zip[m], NoZip}
    PROVE  WholeInv'
<1> DEFINE gone == UNION {RowsOf(m) : m \in S}
<1>0. db' = db \ gone
  OBVIOUS
<1> SUFFICES ASSUME NEW m \in Month
             PROVE  WholeFile(zip, m)' /\ WholeFile(disk, m)'
  BY DEF WholeInv
<1>1. CASE m \in S
  <2>1. RowsOf(m) \subseteq gone
    BY <1>1
  <2> HIDE DEF gone
  <2>2. InDb(m)' = {}
    BY <1>0, <2>1 DEF InDb
  <2> QED BY <2>2 DEF WholeFile
<1>2. CASE m \notin S
  <2>1. RowsOf(m) \cap gone = {}
    BY <1>2 DEF RowsOf
  <2> HIDE DEF gone
  <2>2. InDb(m)' = InDb(m)
    BY <1>0, <2>1 DEF InDb
  <2>3. /\ zip[m] # NoZip => zip[m] \subseteq RowsOf(m)
        /\ disk[m] # NoZip => disk[m] \subseteq RowsOf(m)
    BY DEF SafeInv, FilesInv, GoodFile
  <2>4. /\ zip[m] # NoZip /\ InDb(m) # {} => zip[m] \subseteq db
        /\ disk[m] # NoZip /\ InDb(m) # {} => disk[m] \subseteq db
    BY DEF WholeInv, WholeFile
  <2>5. WholeFile(disk, m)'
    BY <1>0, <2>1, <2>2, <2>3, <2>4 DEF WholeFile
  <2>6. WholeFile(zip, m)'
    BY <1>0, <2>1, <2>2, <2>3, <2>4 DEF WholeFile
  <2> QED BY <2>5, <2>6
<1> QED BY <1>1, <1>2

\* Steps that move no row, and no file but to the disk or away.
LEMMA WholeFrame ==
    ASSUME WholeInv, db' = db,
           \A m \in Month : zip'[m] \in {zip[m], disk[m], NoZip},
           \A m \in Month : disk'[m] \in {zip[m], disk[m], NoZip}
    PROVE  WholeInv'
<1>1. \A m : InDb(m)' = InDb(m)
  BY DEF InDb
<1> QED BY <1>1 DEF WholeInv, WholeFile

\* A pass writes a file of the rows there are and removes them together.
LEMMA WholePass ==
    ASSUME TypeOK, LockInv, SafeInv, WholeInv, PassNext
    PROVE  WholeInv'
<1> USE DEF dbVars, fileVars, history
<1> SUFFICES ASSUME NEW p \in Pass, PassStart(p) \/ PassStep(p) PROVE WholeInv'
  BY DEF PassNext
<1>1. CASE PassStart(p)
  BY <1>1, WholeFrame DEF PassStart
<1>2. CASE ReleaseResolve(p) \/ ReleaseDelete(p)
  BY <1>2, WholeFrame DEF ReleaseResolve, ReleaseDelete
<1>3. CASE ExpireCommit(p)
  <2>1. pass[p].gone \in SUBSET Month
    BY DEF TypeOK, PassRec
  <2>2. /\ db' = db \ UNION {RowsOf(m) : m \in pass[p].gone}
        /\ UNCHANGED <<zip, disk>>
    BY <1>3 DEF ExpireCommit
  <2> QED BY <2>1, <2>2, WholeDelete
<1>4. CASE ArchiveBuild(p)
  BY <1>4, WholeFrame DEF ArchiveBuild
<1>5. CASE ArchiveRename(p)
  <2>1. PICK h \in Month : h = pass[p].hand
    BY DEF TypeOK, PassRec
  <2>2. /\ zip' = [zip EXCEPT ![h] = InDb(h)] /\ UNCHANGED <<db, disk>>
    BY <1>5, <2>1 DEF ArchiveRename, LockInv, Writing
  <2>3. zip'[h] = InDb(h) /\ \A m \in Month \ {h} : zip'[m] = zip[m]
    BY <2>2 DEF TypeOK, Zip
  <2>4. \A m : InDb(m)' = InDb(m)
    BY <2>2 DEF InDb
  <2>5. InDb(h) \subseteq db
    BY DEF InDb
  <2> QED BY <2>2, <2>3, <2>4, <2>5 DEF WholeInv, WholeFile
<1>6. CASE ArchiveSync(p)
  BY <1>6, WholeFrame DEF ArchiveSync
<1>7. CASE ArchiveCommit(p)
  <2>1. PICK h \in Month : h = pass[p].hand
    BY DEF TypeOK, PassRec
  <2>2. /\ db' = db \ UNION {RowsOf(m) : m \in {h}} /\ UNCHANGED <<zip, disk>>
    BY <1>7, <2>1 DEF ArchiveCommit
  <2>3. {h} \in SUBSET Month /\ \A m \in Month : zip'[m] \in {zip[m], NoZip}
    BY <2>2
  <2> QED BY <2>2, <2>3, WholeDelete
<1>8. CASE ListStale(p) \/ DropUnpin(p) \/ PassEnd(p)
  BY <1>8, WholeFrame DEF ListStale, DropUnpin, PassEnd
<1>9. CASE DropUnlink(p)
  <2>1. db' = db /\ disk' = disk /\ \A m \in Month : zip'[m] \in {zip[m], NoZip}
    BY <1>9 DEF DropUnlink, Unlink, TypeOK, Zip
  <2> QED BY <2>1, WholeFrame
<1> QED BY <1>1, <1>2, <1>3, <1>4, <1>5, <1>6, <1>7, <1>8, <1>9 DEF PassStep

\* The storage page restores a whole file and deletes whole months.
LEMMA WholeRequest ==
    ASSUME TypeOK, SafeInv, WholeInv, RequestNext
    PROVE  WholeInv'
<1> USE DEF dbVars, fileVars, history
<1>1. ASSUME NEW r \in Request, RestoreCommit(r) PROVE WholeInv'
  <2>1. PICK m \in Month : m = req[r].month
    BY DEF TypeOK, ReqRec
  <2>2. /\ zip[m] = req[r].rows /\ disk[m] = req[r].rows /\ zip[m] # NoZip
        /\ db' = db \cup zip[m] /\ UNCHANGED <<zip, disk>>
    BY <1>1, <2>1 DEF RestoreCommit, SafeInv, ActorsInv, RequestFacts
  <2>3. zip[m] \subseteq RowsOf(m)
    BY <2>2 DEF SafeInv, FilesInv, GoodFile
  <2>4. WholeFile(zip, m)' /\ WholeFile(disk, m)'
    BY <2>2 DEF WholeFile
  <2>5. \A n \in Month \ {m} : InDb(n)' = InDb(n)
    BY <2>2, <2>3 DEF InDb, RowsOf
  <2>6. \A n \in Month \ {m} : WholeFile(zip, n)' /\ WholeFile(disk, n)'
    BY <2>2, <2>5 DEF WholeInv, WholeFile
  <2> QED BY <2>4, <2>6 DEF WholeInv
<1>2. ASSUME NEW r \in Request, ReleaseCommit(r) PROVE WholeInv'
  <2>1. PICK h \in Month : h = req[r].month
    BY DEF TypeOK, ReqRec
  <2>2. db' = db \ UNION {RowsOf(m) : m \in {h}} /\ UNCHANGED <<zip, disk>>
    BY <1>2, <2>1 DEF ReleaseCommit
  <2>3. {h} \in SUBSET Month /\ \A m \in Month : zip'[m] \in {zip[m], NoZip}
    BY <2>2
  <2> QED BY <2>2, <2>3, WholeDelete
<1>3. ASSUME NEW r \in Request, DeleteArchiveUnpin(r) PROVE WholeInv'
  BY <1>3, WholeFrame DEF DeleteArchiveUnpin
<1>4. ASSUME NEW r \in Request, NEW m \in Month, RestoreOpen(r, m) \/ ReleaseOpen(r, m)
      PROVE  WholeInv'
  BY <1>4, WholeFrame DEF RestoreOpen, ReleaseOpen
<1>5. ASSUME NEW r \in Request, NEW m \in Month, DeleteArchiveUnlink(r, m)
      PROVE  WholeInv'
  <2>1. db' = db /\ disk' = disk /\ \A n \in Month : zip'[n] \in {zip[n], NoZip}
    BY <1>5 DEF DeleteArchiveUnlink, Unlink, TypeOK, Zip
  <2> QED BY <2>1, WholeFrame
<1>6. ASSUME NEW h \in Month, DeleteMonth(h) PROVE WholeInv'
  <2>1. db' = db \ UNION {RowsOf(m) : m \in {h}} /\ UNCHANGED <<zip, disk>>
    BY <1>6 DEF DeleteMonth
  <2>2. {h} \in SUBSET Month /\ \A m \in Month : zip'[m] \in {zip[m], NoZip}
    BY <2>1
  <2> QED BY <2>1, <2>2, WholeDelete
<1>7. ASSUME UNCHANGED <<db, zip, disk>> PROVE WholeInv'
  BY <1>7, WholeFrame
<1> QED BY <1>1, <1>2, <1>3, <1>4, <1>5, <1>6, <1>7
        DEF RequestNext, RequestStep, SetMode, SetRollingMonths,
            SetArchiveKeepMonths

\* No step breaks it: rows arrive in months without a file, and a fault leaves
\* one of the files there were.
LEMMA WholeStep ==
    ASSUME ~LateRows
    PROVE  TypeOK /\ LockInv /\ SafeInv /\ WholeInv /\ [Next]_vars => WholeInv'
<1> USE DEF dbVars, fileVars, history
<1> SUFFICES ASSUME TypeOK, LockInv, SafeInv, WholeInv, [Next]_vars PROVE WholeInv'
  OBVIOUS
<1>1. ASSUME NEW v \in Visit, Ingest(v) PROVE WholeInv'
  <2>1. PICK t \in Month : t = thisMonth
    BY DEF TypeOK
  <2>2. /\ MonthOf[v] = t /\ db' = db \cup {v} /\ UNCHANGED <<zip, disk>>
    BY <1>1, <2>1 DEF Ingest
  <2>3. ~(t < thisMonth)
    BY <2>1, RetentionAssumption DEF Month
  <2>4. WholeFile(zip, t)' /\ WholeFile(disk, t)'
    BY <2>2, <2>3 DEF WholeFile, SafeInv, FilesInv, GoodFile
  <2>5. \A m \in Month \ {t} : InDb(m)' = InDb(m)
    BY <2>2 DEF InDb, RowsOf
  <2>6. \A m \in Month \ {t} : WholeFile(zip, m)' /\ WholeFile(disk, m)'
    BY <2>2, <2>5 DEF WholeInv, WholeFile
  <2> QED BY <2>4, <2>6 DEF WholeInv
<1>2. ASSUME Environment PROVE WholeInv'
  BY <1>1, <1>2, WholeFrame DEF Environment, PinRunsOut, MonthPasses, Writeback
<1>3. CASE PowerCut
  <2>1. db' = db /\ disk' = zip' /\ \A m \in Month : zip'[m] \in {zip[m], disk[m]}
    BY <1>3 DEF PowerCut
  <2> QED BY <2>1, WholeFrame
<1>4. ASSUME Fault PROVE WholeInv'
  BY <1>3, <1>4, WholeFrame DEF Fault, PassFails, RequestFails
<1>5. CASE UNCHANGED vars
  BY <1>5, WholeFrame DEF vars
<1> QED BY <1>2, <1>4, <1>5, WholePass, WholeRequest DEF Next

\* Only a pass replaces a file, by the rows of a month that is there whole.
LEMMA ArchiveGrows ==
    ASSUME TypeOK, LockInv, SafeInv, WholeInv, [Next]_vars, NEW m \in Month,
           zip[m] # NoZip, zip'[m] # NoZip, zip'[m] # disk[m]
    PROVE  zip[m] \subseteq zip'[m]
<1> USE DEF dbVars, fileVars, history
<1>1. ASSUME zip'[m] \in {zip[m], disk[m], NoZip} PROVE zip[m] \subseteq zip'[m]
  BY <1>1
<1>2. ASSUME NEW p \in Pass, ArchiveRename(p) PROVE zip[m] \subseteq zip'[m]
  <2>1. PICK h \in Month : h = pass[p].hand
    BY DEF TypeOK, PassRec
  <2>2. /\ zip' = [zip EXCEPT ![h] = InDb(h)] /\ InDb(h) # {}
    BY <1>2, <2>1
       DEF ArchiveRename, LockInv, Writing, SafeInv, ActorsInv, PassFacts
  <2>3. CASE m = h
    <3>1. zip'[m] = InDb(m)
      BY <2>2, <2>3 DEF TypeOK, Zip
    <3>2. zip[m] \subseteq db /\ zip[m] \subseteq RowsOf(m)
      BY <2>2, <2>3 DEF WholeInv, WholeFile, SafeInv, FilesInv, GoodFile
    <3> QED BY <3>1, <3>2 DEF InDb
  <2>4. CASE m # h
    BY <2>2, <2>4, <1>1 DEF TypeOK, Zip
  <2> QED BY <2>3, <2>4
<1>3. ASSUME NEW n, Unlink(n) PROVE zip'[m] \in {zip[m], NoZip}
  BY <1>3 DEF Unlink, TypeOK, Zip
<1>4. CASE PassNext
  <2> SUFFICES ASSUME NEW p \in Pass, PassStart(p) \/ PassStep(p)
               PROVE  zip[m] \subseteq zip'[m]
    BY <1>4 DEF PassNext
  <2>1. CASE DropUnlink(p)
    BY <1>1, <1>3, <2>1 DEF DropUnlink
  <2>2. CASE ~DropUnlink(p) /\ ~ArchiveRename(p)
    <3>1. zip' = zip
      BY <2>2 DEF PassStep, PassStart, ReleaseResolve, ReleaseDelete, ExpireCommit,
                  ArchiveBuild, ArchiveSync, ArchiveCommit, ListStale, DropUnpin,
                  PassEnd
    <3> QED BY <3>1
  <2> QED BY <1>2, <2>1, <2>2
<1>5. CASE RequestNext
  <2>1. ASSUME NEW r \in Request, NEW n \in Month, DeleteArchiveUnlink(r, n)
        PROVE  zip[m] \subseteq zip'[m]
    BY <1>1, <1>3, <2>1 DEF DeleteArchiveUnlink
  <2>2. CASE ~\E r \in Request, n \in Month : DeleteArchiveUnlink(r, n)
    <3>1. zip' = zip
      BY <1>5, <2>2
         DEF RequestNext, RequestStep, RestoreCommit, ReleaseCommit,
             DeleteArchiveUnpin, RestoreOpen, ReleaseOpen, DeleteMonth, SetMode,
             SetRollingMonths, SetArchiveKeepMonths
    <3> QED BY <3>1
  <2> QED BY <2>1, <2>2
<1>6. CASE Environment \/ UNCHANGED vars
  BY <1>6 DEF Environment, Ingest, PinRunsOut, MonthPasses, Writeback, vars
<1>7. CASE Fault
  <2>1. zip'[m] \in {zip[m], disk[m]}
    BY <1>7 DEF Fault, PassFails, RequestFails, PowerCut
  <2> QED BY <1>1, <2>1
<1> QED BY <1>4, <1>5, <1>6, <1>7 DEF Next

\* An archive is never replaced by a smaller one, except that a power cut may
\* leave the file that was there before: under the assumptions of NothingLost,
\* archive_month() overwrites a zip only by all of its month.
THEOREM ArchivesOnlyGrow ==
    ASSUME Serial, ~LateRows
    PROVE  Spec => ArchivesNeverShrink
<1>1. TypeOK /\ LockInv /\ SafeInv /\ [Next]_vars => SafeInv'
  BY SafeStep
<1>2. TypeOK /\ LockInv /\ SafeInv /\ WholeInv /\ [Next]_vars => WholeInv'
  BY WholeStep
<1>3. Init => WholeInv
  BY DEF Init, WholeInv, WholeFile, InDb
<1> DEFINE Grows == \A m \in Month :
                       zip[m] # NoZip /\ zip'[m] # NoZip /\ zip'[m] # disk[m]
                           => zip[m] \subseteq zip'[m]
<1>4. TypeOK /\ LockInv /\ SafeInv /\ WholeInv /\ [Next]_vars => [Grows]_vars
  BY ArchiveGrows
<1> QED BY <1>1, <1>2, <1>3, <1>4, TypeInit, TypeStep, LockInit, LockStep, SafeInit,
           PTL DEF Spec, ArchivesNeverShrink

-----------------------------------------------------------------------------
(* A pinned month is left alone *)

\* While a pass works on its months, none of them is pinned: a pin is set by a
\* restore only, and no restore runs beside a pass.
Unpinned(p) ==
    pass[p].pc # "idle" =>
        /\ \A m \in pass[p].todo \cup pass[p].gone : pin[m] # "live"
        /\ pass[p].pc \in {"release", "rename", "sync", "commit"} =>
               pin[pass[p].hand] # "live"

PinInv == Alone /\ \A p \in Pass : Unpinned(p)

\* A step of one pass, which is running or finds nobody running.
LEMMA AlonePass ==
    ASSUME Alone, NEW p \in Pass,
           \A q \in Pass \ {p} : pass[q].pc = "idle",
           \A r \in Request : req[r].pc = "idle",
           \A q \in Pass \ {p} : pass'[q] = pass[q], req' = req
    PROVE  Alone'
BY DEF Alone

\* The same for a request.
LEMMA AloneRequest ==
    ASSUME Alone, NEW r \in Request,
           \A p \in Pass : pass[p].pc = "idle",
           \A s \in Request \ {r} : req[s].pc = "idle",
           \A s \in Request \ {r} : req'[s] = req[s], pass' = pass
    PROVE  Alone' /\ \A p \in Pass : Unpinned(p)'
BY DEF Alone, Unpinned

\* A pass takes its months from lists of unpinned ones and pins nothing.
LEMMA PinPass ==
    ASSUME TypeOK, PinInv, Serial, NEW p \in Pass, PassStart(p) \/ PassStep(p)
    PROVE  PinInv'
<1> USE DEF dbVars, fileVars, history
<1>1. /\ \A q \in Pass \ {p} : pass[q].pc = "idle"
      /\ \A r \in Request : req[r].pc = "idle"
  <2>1. CASE PassStart(p)
    BY <2>1, StartsAlone DEF PassStart
  <2>2. CASE PassStep(p)
    <3>1. pass[p].pc # "idle"
      BY <2>2 DEF PassStep, ReleaseResolve, ReleaseDelete, ExpireCommit, ArchiveBuild,
                  ArchiveRename, ArchiveSync, ArchiveCommit, ListStale, DropUnlink,
                  DropUnpin, PassEnd
    <3> QED BY <3>1, BusyPassAlone DEF PinInv
  <2> QED BY <2>1, <2>2
<1>2. req' = req /\ \A q \in Pass \ {p} : pass'[q] = pass[q]
  BY DEF PassStart, PassStep, ReleaseResolve, ReleaseDelete, ExpireCommit,
         ArchiveBuild, ArchiveRename, ArchiveSync, ArchiveCommit, ListStale,
         DropUnlink, DropUnpin, PassEnd, Aborted, TypeOK
<1>3. Alone'
  BY <1>1, <1>2, AlonePass DEF PinInv
<1>4. \A q \in Pass \ {p} : Unpinned(q)'
  BY <1>1, <1>2 DEF Unpinned
<1>5. pass[p] \in PassRec /\ Unpinned(p)
  BY DEF TypeOK, PinInv
<1>6. ASSUME pass'[p] = IdlePass PROVE Unpinned(p)'
  BY <1>6 DEF Unpinned, IdlePass
<1>7. \A m \in Month : pin'[m] \in {pin[m], "none"}
  BY DEF PassStart, PassStep, ReleaseResolve, ReleaseDelete, ExpireCommit,
         ArchiveBuild, ArchiveRename, ArchiveSync, ArchiveCommit, ListStale,
         DropUnlink, DropUnpin, PassEnd, TypeOK
<1>8. Unpinned(p)'
  <2>1. CASE PassStart(p)
    <3>1. /\ pass'[p].todo = ExpiredRestores /\ pass'[p].gone = {}
          /\ pass'[p].pc = "expire" /\ pin' = pin
      BY <2>1 DEF PassStart, TypeOK, IdlePass
    <3> QED BY <3>1 DEF Unpinned, ExpiredRestores
  <2>2. CASE ReleaseResolve(p)
    <3>0. pass[p].todo \subseteq Month /\ pass[p].todo # {} /\ pass[p].pc = "expire"
      BY <2>2, <1>5 DEF PassRec, ReleaseResolve
    <3>1. PICK m \in pass[p].todo : m = Newest(pass[p].todo)
      BY <3>0, NewestIn
    <3>2. CASE zip[m] = NoZip
      BY <2>2, <3>1, <3>2, <1>6 DEF ReleaseResolve, Aborted, TypeOK
    <3>3. CASE zip[m] # NoZip
      <4>1. /\ pass'[p].todo = pass[p].todo \ {m} /\ pass'[p].gone = pass[p].gone
            /\ pass'[p].hand = m /\ pin' = pin
        BY <2>2, <3>1, <3>3, <1>5 DEF ReleaseResolve, TypeOK, PassRec
      <4> QED BY <1>5, <3>0, <4>1 DEF Unpinned
    <3> QED BY <3>2, <3>3
  <2>3. CASE ReleaseDelete(p)
    <3>1. /\ pass'[p].todo = pass[p].todo
          /\ pass'[p].gone = pass[p].gone \cup {pass[p].hand}
          /\ pass'[p].pc = "expire" /\ pass[p].pc = "release" /\ pin' = pin
      BY <2>3, <1>5 DEF ReleaseDelete, TypeOK, PassRec
    <3> QED BY <1>5, <3>1 DEF Unpinned
  <2>4. CASE ExpireCommit(p)
    <3> DEFINE gone == UNION {RowsOf(m) : m \in pass[p].gone}
    <3>1. /\ pass'[p].todo \in {DueMonths(pass[p].now, gone), {}}
          /\ pass'[p].gone = {} /\ pass'[p].pc = "archive"
      BY <2>4, <1>5 DEF ExpireCommit, TypeOK, PassRec
    <3>2. \A m \in DueMonths(pass[p].now, gone) : m \in Month /\ pin[m] = "none"
      BY DEF DueMonths
    <3> HIDE DEF gone
    <3> QED BY <1>7, <3>1, <3>2 DEF Unpinned
  <2>5. CASE ArchiveBuild(p)
    <3>0. pass[p].todo \subseteq Month /\ pass[p].todo # {} /\ pass[p].pc = "archive"
      BY <2>5, <1>5 DEF PassRec, ArchiveBuild
    <3>1. PICK m \in pass[p].todo : m = Oldest(pass[p].todo)
      BY <3>0, OldestIn
    <3>2. /\ pass'[p].todo = pass[p].todo \ {m} /\ pass'[p].gone = pass[p].gone
          /\ pass'[p].hand = m /\ pin' = pin
      BY <2>5, <3>1, <1>5 DEF ArchiveBuild, TypeOK, PassRec
    <3> QED BY <1>5, <3>0, <3>2 DEF Unpinned
  <2>6. CASE ArchiveRename(p) \/ ArchiveSync(p) \/ ArchiveCommit(p)
    <3>1. /\ pass'[p].todo = pass[p].todo /\ pass'[p].gone = pass[p].gone
          /\ pass'[p].hand = pass[p].hand /\ pin' = pin
          /\ pass[p].pc \in {"rename", "sync", "commit"}
      BY <2>6, <1>5 DEF ArchiveRename, ArchiveSync, ArchiveCommit, TypeOK, PassRec
    <3> QED BY <1>5, <3>1 DEF Unpinned
  <2>7. CASE ListStale(p)
    <3>1. /\ pass'[p].todo \in {ExpiredArchives(pass[p].now), {}}
          /\ pass'[p].gone = pass[p].gone /\ pass'[p].pc = "drop" /\ pin' = pin
          /\ pass[p].pc # "idle"
      BY <2>7, <1>5 DEF ListStale, TypeOK, PassRec
    <3> QED BY <1>5, <3>1 DEF Unpinned, ExpiredArchives
  <2>8. CASE DropUnlink(p)
    <3>1. CASE zip[Oldest(pass[p].todo)] = NoZip
      BY <2>8, <3>1, <1>6 DEF DropUnlink, Aborted, TypeOK
    <3>2. CASE zip[Oldest(pass[p].todo)] # NoZip
      <4>1. /\ pass'[p].todo \subseteq pass[p].todo /\ pass'[p].gone = pass[p].gone
            /\ pass'[p].pc = "unpin" /\ pin' = pin /\ pass[p].pc = "drop"
        BY <2>8, <3>2, <1>5 DEF DropUnlink, TypeOK, PassRec
      <4> QED BY <1>5, <4>1 DEF Unpinned
    <3> QED BY <3>1, <3>2
  <2>9. CASE DropUnpin(p)
    <3>1. /\ pass'[p].todo = pass[p].todo /\ pass'[p].gone = pass[p].gone
          /\ pass'[p].pc = "drop" /\ pass[p].pc = "unpin"
      BY <2>9, <1>5 DEF DropUnpin, TypeOK, PassRec
    <3>2. \A m \in pass[p].todo \cup pass[p].gone : m \in Month
      BY <1>5 DEF PassRec
    <3> QED BY <1>5, <1>7, <3>1, <3>2 DEF Unpinned
  <2>10. CASE PassEnd(p)
    BY <2>10, <1>6 DEF PassEnd, TypeOK
  <2> QED BY <2>1, <2>2, <2>3, <2>4, <2>5, <2>6, <2>7, <2>8, <2>9, <2>10 DEF PassStep
<1> QED BY <1>3, <1>4, <1>8 DEF PinInv

\* Requests run when no pass does, time turns live pins into run-out ones, and a
\* fault ends what it hits.
LEMMA PinStep ==
    ASSUME Serial
    PROVE  TypeOK /\ PinInv /\ [Next]_vars => PinInv'
<1> USE DEF dbVars, fileVars, history
<1> SUFFICES ASSUME TypeOK, PinInv, [Next]_vars PROVE PinInv'
  OBVIOUS
<1>1. ASSUME NEW p \in Pass, PassFails(p) PROVE PinInv'
  <2>1. /\ pass[p].pc # "idle" /\ pass'[p] = IdlePass /\ req' = req /\ pin' = pin
        /\ \A q \in Pass \ {p} : pass'[q] = pass[q]
    BY <1>1 DEF PassFails, Aborted, TypeOK
  <2>2. Alone'
    BY <2>1, AlonePass, BusyPassAlone DEF PinInv
  <2>3. \A q \in Pass : Unpinned(q)'
    BY <2>1 DEF PinInv, Unpinned, IdlePass
  <2> QED BY <2>2, <2>3 DEF PinInv
<1>2. ASSUME NEW r \in Request, req[r].pc # "idle", pass' = pass,
             \A s \in Request \ {r} : req'[s] = req[s]
      PROVE  PinInv'
  BY <1>2, BusyRequestAlone, AloneRequest DEF PinInv
<1>3. ASSUME NEW r \in Request, MayStart, pass' = pass,
             \A s \in Request \ {r} : req'[s] = req[s]
      PROVE  PinInv'
  BY <1>3, StartsAlone, AloneRequest DEF PinInv
<1>4. ASSUME MayStart, pass' = pass, req' = req PROVE PinInv'
  BY <1>4, StartsAlone DEF PinInv, Alone, Unpinned
<1>5. ASSUME pass' = pass, req' = req, pin' = pin PROVE PinInv'
  BY <1>5 DEF PinInv, Alone, Unpinned
<1>6. CASE PassNext
  BY <1>6, PinPass DEF PassNext
<1>7. CASE RequestNext
  <2>1. ASSUME NEW r \in Request, RequestStep(r) PROVE PinInv'
    <3>1. /\ req[r].pc # "idle" /\ pass' = pass
          /\ \A s \in Request \ {r} : req'[s] = req[s]
      BY <2>1 DEF RequestStep, RestoreCommit, ReleaseCommit, DeleteArchiveUnpin, TypeOK
    <3> QED BY <1>2, <3>1
  <2>2. ASSUME NEW r \in Request, NEW m \in Month,
               RestoreOpen(r, m) \/ ReleaseOpen(r, m) \/ DeleteArchiveUnlink(r, m)
        PROVE  PinInv'
    <3>1. /\ MayStart /\ pass' = pass
          /\ \A s \in Request \ {r} : req'[s] = req[s]
      BY <2>2 DEF RestoreOpen, ReleaseOpen, DeleteArchiveUnlink, TypeOK
    <3> QED BY <1>3, <3>1
  <2> QED BY <1>4, <1>7, <2>1, <2>2
          DEF RequestNext, DeleteMonth, SetMode, SetRollingMonths, SetArchiveKeepMonths
<1>8. CASE Environment
  <2>1. ASSUME NEW m \in Month, PinRunsOut(m) PROVE PinInv'
    <3>1. /\ pass' = pass /\ req' = req
          /\ \A n \in Month : pin'[n] = "live" => pin[n] = "live"
      BY <2>1 DEF PinRunsOut, TypeOK
    <3>2. \A p \in Pass : pass[p].hand \in Month /\ pass[p].todo \subseteq Month
                          /\ pass[p].gone \subseteq Month
      BY DEF TypeOK, PassRec
    <3>3. \A p \in Pass : Unpinned(p)'
      BY <3>1, <3>2 DEF PinInv, Unpinned
    <3> QED BY <3>1, <3>3 DEF PinInv, Alone
  <2> QED BY <1>5, <1>8, <2>1 DEF Environment, Ingest, MonthPasses, Writeback
<1>9. CASE Fault
  <2>1. ASSUME NEW r \in Request, RequestFails(r) PROVE PinInv'
    <3>1. /\ req[r].pc # "idle" /\ pass' = pass
          /\ \A s \in Request \ {r} : req'[s] = req[s]
      BY <2>1 DEF RequestFails, TypeOK
    <3> QED BY <1>2, <3>1
  <2>2. CASE PowerCut
    BY <2>2 DEF PowerCut, PinInv, Alone, Unpinned, IdlePass, IdleReq
  <2> QED BY <1>1, <1>9, <2>1, <2>2 DEF Fault
<1>10. CASE UNCHANGED vars
  BY <1>5, <1>10 DEF vars
<1> QED BY <1>6, <1>7, <1>8, <1>9, <1>10 DEF Next

\* What a pass deletes or unlinks belongs to a month on its list.
LEMMA PassSparesPinned ==
    ASSUME TypeOK, PinInv, NEW p \in Pass, PassStep(p), NEW m \in Month,
           pin[m] = "live"
    PROVE  InDb(m) \subseteq db' /\ zip'[m] = zip[m]
<1> USE DEF dbVars, fileVars, history
<1>1. pass[p] \in PassRec /\ Unpinned(p)
  BY DEF TypeOK, PinInv
<1>2. CASE ExpireCommit(p)
  <2> DEFINE gone == UNION {RowsOf(n) : n \in pass[p].gone}
  <2>1. /\ pass[p].pc = "expire" /\ db' = db \ gone /\ zip' = zip
    BY <1>2 DEF ExpireCommit
  <2>2. m \notin pass[p].gone
    BY <1>1, <2>1 DEF Unpinned
  <2>3. RowsOf(m) \cap gone = {}
    BY <2>2 DEF RowsOf
  <2> HIDE DEF gone
  <2> QED BY <2>1, <2>3 DEF InDb
<1>3. CASE ArchiveRename(p)
  <2>1. m # pass[p].hand
    BY <1>1, <1>3 DEF ArchiveRename, Unpinned
  <2> QED BY <1>3, <2>1 DEF ArchiveRename, InDb, TypeOK, Zip
<1>4. CASE ArchiveCommit(p)
  <2>1. m # pass[p].hand
    BY <1>1, <1>4 DEF ArchiveCommit, Unpinned
  <2> QED BY <1>4, <2>1 DEF ArchiveCommit, InDb, RowsOf
<1>5. CASE DropUnlink(p)
  <2>0. pass[p].todo \subseteq Month /\ pass[p].todo # {} /\ pass[p].pc = "drop"
    BY <1>1, <1>5 DEF PassRec, DropUnlink
  <2>1. PICK n \in pass[p].todo : n = Oldest(pass[p].todo)
    BY <2>0, OldestIn
  <2>2. m # n
    BY <1>1, <2>0, <2>1 DEF Unpinned
  <2>3. db' = db /\ \A k \in Month \ {n} : zip'[k] = zip[k]
    BY <1>5, <2>1 DEF DropUnlink, Unlink, TypeOK, Zip
  <2> QED BY <2>2, <2>3 DEF InDb
<1>6. CASE ~(ExpireCommit(p) \/ ArchiveRename(p) \/ ArchiveCommit(p) \/ DropUnlink(p))
  <2>1. db' = db /\ zip' = zip
    BY <1>6 DEF PassStep, ReleaseResolve, ReleaseDelete, ArchiveBuild, ArchiveSync,
                ListStale, DropUnpin, PassEnd
  <2> QED BY <2>1 DEF InDb
<1> QED BY <1>2, <1>3, <1>4, <1>5, <1>6

\* While a restored month is pinned, no pass takes its rows or its file, as long
\* as operations on the archive run one at a time; late rows do no harm here.
THEOREM PinnedMonthsAreSpared ==
    ASSUME Serial
    PROVE  Spec => PinnedMonthsStay
<1>1. TypeOK /\ PinInv /\ [Next]_vars => PinInv'
  BY PinStep
<1>2. Init => PinInv
  BY DEF Init, PinInv, Alone, Unpinned, IdlePass, IdleReq
<1> DEFINE Spares == (\E p \in Pass : PassStep(p)) =>
                        \A m \in Month : pin[m] = "live" =>
                            InDb(m) \subseteq db' /\ zip'[m] = zip[m]
<1>3. TypeOK /\ PinInv => [Spares]_vars
  BY PassSparesPinned
<1> QED BY <1>1, <1>2, <1>3, TypeInit, TypeStep, PTL DEF Spec, PinnedMonthsStay

-----------------------------------------------------------------------------
(* Retention implements VisitStore: with operations on the archive one at a
   time and every row arriving in its month, what the service does to a visit
   is to record it, to give it up when asked to, or to take it back from a file
   -- nothing else, through any failures and power cuts.                      *)

\* Rows have one origin, the tailer: nothing in the database, in a file, on its
\* way between the two or given up was never ingested.
OriginInv ==
    /\ db \subseteq ingested /\ given \subseteq ingested
    /\ \A m \in Month : zip[m] # NoZip => zip[m] \subseteq ingested
    /\ \A m \in Month : disk[m] # NoZip => disk[m] \subseteq ingested
    /\ \A p \in Pass : pass[p].rows \subseteq ingested
    /\ \A r \in Request : req[r].rows \subseteq ingested

\* A pass moves rows from the database to a file, or throws a file away.
LEMMA OriginPass == TypeOK /\ OriginInv /\ PassNext => OriginInv'
<1> SUFFICES ASSUME TypeOK, OriginInv, NEW p \in Pass, PassStart(p) \/ PassStep(p)
             PROVE  OriginInv'
  BY DEF PassNext
<1> USE DEF dbVars, fileVars, history
<1>0. pass \in [Pass -> PassRec] /\ \A q \in Pass : pass[q] \in PassRec
  BY DEF TypeOK
<1>1. ASSUME UNCHANGED <<zip, disk, req, ingested, given>>, db' \subseteq db,
             \A q \in Pass : pass'[q].rows \subseteq pass[q].rows \cup db
      PROVE  OriginInv'
  BY <1>1 DEF OriginInv
<1>2. ASSUME Aborted(p)
      PROVE  \A q \in Pass : pass'[q].rows \subseteq pass[q].rows \cup db
  BY <1>0, <1>2 DEF Aborted, IdlePass
<1>3. CASE PassStart(p)
  BY <1>0, <1>1, <1>3 DEF PassStart, IdlePass
<1>4. CASE ReleaseResolve(p)
  BY <1>0, <1>1, <1>2, <1>4 DEF ReleaseResolve, PassRec
<1>5. CASE ReleaseDelete(p)
  BY <1>0, <1>1, <1>5 DEF ReleaseDelete, PassRec
<1>6. CASE ExpireCommit(p)
  <2>1. \A q \in Pass : pass'[q].rows = pass[q].rows
    BY <1>0, <1>6 DEF ExpireCommit, PassRec
  <2>2. db' \subseteq db
    BY <1>6 DEF ExpireCommit
  <2> QED BY <1>1, <1>6, <2>1, <2>2 DEF ExpireCommit
<1>7. CASE ArchiveBuild(p)
  <2>1. \A q \in Pass : pass'[q].rows \subseteq pass[q].rows \cup db
    BY <1>0, <1>7 DEF ArchiveBuild, PassRec, InDb
  <2> QED BY <1>1, <1>7, <2>1 DEF ArchiveBuild
<1>8. CASE ArchiveRename(p)
  <2>1. \A q \in Pass : pass'[q].rows = pass[q].rows
    BY <1>0, <1>8 DEF ArchiveRename, PassRec
  <2>2. \A m \in Month : zip'[m] \in {zip[m], pass[p].rows}
    BY <1>8 DEF ArchiveRename, TypeOK, Zip
  <2> QED BY <1>8, <2>1, <2>2 DEF ArchiveRename, OriginInv
<1>9. CASE ArchiveSync(p)
  <2>1. \A q \in Pass : pass'[q].rows = pass[q].rows
    BY <1>0, <1>9 DEF ArchiveSync, PassRec
  <2> QED BY <1>9, <2>1 DEF ArchiveSync, OriginInv
<1>10. CASE ArchiveCommit(p)
  BY <1>0, <1>1, <1>10 DEF ArchiveCommit, PassRec
<1>11. CASE ListStale(p)
  BY <1>0, <1>1, <1>11 DEF ListStale, PassRec
<1>12. CASE DropUnlink(p) /\ zip[Oldest(pass[p].todo)] = NoZip
  BY <1>1, <1>2, <1>12 DEF DropUnlink
<1>13. CASE DropUnlink(p) /\ zip[Oldest(pass[p].todo)] # NoZip
  <2> DEFINE m == Oldest(pass[p].todo)
  <2>1. m \in Month
    <3>1. pass[p].todo \subseteq Month
      BY <1>0 DEF PassRec
    <3> QED BY <1>13, <3>1, OldestIn DEF DropUnlink
  <2>2. \A q \in Pass : pass'[q].rows = pass[q].rows
    BY <1>0, <1>13 DEF DropUnlink, PassRec
  <2>3. \A n \in Month : zip'[n] \in {zip[n], NoZip}
    BY <1>13 DEF DropUnlink, Unlink, TypeOK, Zip
  <2>4. given' \subseteq ingested
    BY <1>13, <2>1 DEF DropUnlink, Unlink, OriginInv
  <2> QED BY <1>13, <2>2, <2>3, <2>4 DEF DropUnlink, OriginInv
<1>14. CASE DropUnpin(p)
  BY <1>0, <1>1, <1>14 DEF DropUnpin, PassRec
<1>15. CASE PassEnd(p)
  BY <1>0, <1>1, <1>15 DEF PassEnd, IdlePass
<1> QED BY <1>3, <1>4, <1>5, <1>6, <1>7, <1>8, <1>9, <1>10, <1>11, <1>12, <1>13,
           <1>14, <1>15 DEF PassStep

\* Requests move rows between the database and what they read from a file.
LEMMA OriginRequest == TypeOK /\ OriginInv /\ RequestNext => OriginInv'
<1> SUFFICES ASSUME TypeOK, OriginInv, RequestNext PROVE OriginInv'
  OBVIOUS
<1> USE DEF dbVars, fileVars, history
<1>1. ASSUME NEW r \in Request, RequestStep(r) PROVE OriginInv'
  <2>1. \A s \in Request : req'[s].rows \subseteq req[s].rows
    BY <1>1 DEF RequestStep, RestoreCommit, ReleaseCommit, DeleteArchiveUnpin,
                TypeOK, IdleReq
  <2>2. db' \subseteq ingested /\ given' \subseteq ingested
    BY <1>1 DEF RequestStep, RestoreCommit, ReleaseCommit, DeleteArchiveUnpin,
                OriginInv
  <2>3. UNCHANGED <<zip, disk, pass, ingested>>
    BY <1>1 DEF RequestStep, RestoreCommit, ReleaseCommit, DeleteArchiveUnpin
  <2> QED BY <2>1, <2>2, <2>3 DEF OriginInv
<1>2. ASSUME NEW r \in Request, NEW m \in Month,
             RestoreOpen(r, m) \/ ReleaseOpen(r, m) \/ DeleteArchiveUnlink(r, m)
      PROVE  OriginInv'
  <2>1. zip[m] \subseteq ingested
    BY <1>2 DEF RestoreOpen, ReleaseOpen, DeleteArchiveUnlink, OriginInv
  <2>2. \A s \in Request : req'[s].rows \subseteq req[s].rows \cup zip[m]
    BY <1>2 DEF RestoreOpen, ReleaseOpen, DeleteArchiveUnlink, TypeOK
  <2>3. \A n \in Month : zip'[n] \in {zip[n], NoZip}
    BY <1>2 DEF RestoreOpen, ReleaseOpen, DeleteArchiveUnlink, Unlink, TypeOK, Zip
  <2>4. given' \subseteq ingested
    BY <1>2, <2>1 DEF RestoreOpen, ReleaseOpen, DeleteArchiveUnlink, Unlink,
                      OriginInv
  <2>5. UNCHANGED <<db, disk, pass, ingested>>
    BY <1>2 DEF RestoreOpen, ReleaseOpen, DeleteArchiveUnlink
  <2> QED BY <2>1, <2>2, <2>3, <2>4, <2>5 DEF OriginInv
<1>3. ASSUME NEW m \in Month, DeleteMonth(m) PROVE OriginInv'
  BY <1>3 DEF DeleteMonth, InDb, OriginInv
<1>4. ASSUME UNCHANGED <<db, zip, disk, pass, req, ingested, given>>
      PROVE  OriginInv'
  BY <1>4 DEF OriginInv
<1>5. ASSUME NEW x, SetMode(x) \/ SetRollingMonths(x) \/ SetArchiveKeepMonths(x)
      PROVE  OriginInv'
  BY <1>4, <1>5 DEF SetMode, SetRollingMonths, SetArchiveKeepMonths
<1> QED BY <1>1, <1>2, <1>3, <1>5 DEF RequestNext

\* No step brings in a row from elsewhere.
LEMMA OriginStep == TypeOK /\ OriginInv /\ [Next]_vars => OriginInv'
<1> SUFFICES ASSUME TypeOK, OriginInv, [Next]_vars PROVE OriginInv'
  OBVIOUS
<1> USE DEF dbVars, fileVars, history
<1>1. CASE Environment
  BY <1>1 DEF Environment, Ingest, PinRunsOut, MonthPasses, Writeback, OriginInv
<1>2. ASSUME NEW p \in Pass, PassFails(p) PROVE OriginInv'
  BY <1>2 DEF PassFails, Aborted, IdlePass, TypeOK, OriginInv
<1>3. ASSUME NEW r \in Request, RequestFails(r) PROVE OriginInv'
  BY <1>3 DEF RequestFails, IdleReq, TypeOK, OriginInv
<1>4. CASE PowerCut
  <2>1. \A m \in Month : zip'[m] \in {zip[m], disk[m]}
    BY <1>4 DEF PowerCut
  <2> QED BY <1>4, <2>1 DEF PowerCut, IdlePass, IdleReq, OriginInv
<1>5. CASE UNCHANGED vars
  BY <1>5 DEF vars, OriginInv
<1> QED BY <1>1, <1>2, <1>3, <1>4, <1>5, OriginPass, OriginRequest DEF Next, Fault

\* Nothing has been ingested when the service starts.
LEMMA OriginInit == Init => OriginInv
BY DEF Init, OriginInv, IdlePass, IdleReq

-----------------------------------------------------------------------------
(* The refinement *)

\* When nothing is lost, what is held is what was ingested and not given up.
LEMMA HeldRows == NoVisitLost => heldRows = ingested \ given
BY DEF NoVisitLost, heldRows

\* What a step may do to the history of the rows.
Recorded(v) == v \notin ingested /\ ingested' = ingested \cup {v} /\ given' = given
GivenUp(S)  == S \subseteq ingested /\ ingested' = ingested /\ given' = given \cup S
TakenBack(S) == ingested' = ingested /\ given' = given \ S

HistoryStep ==
    \/ \E v \in Visit : Recorded(v)
    \/ \E S \in SUBSET Visit : GivenUp(S) \/ TakenBack(S)
    \/ UNCHANGED <<ingested, given>>

\* A file that is unlinked gives up rows that were once ingested.
LEMMA UnlinkGivesUp ==
    ASSUME TypeOK, OriginInv, NEW m \in Month, Unlink(m), zip[m] # NoZip,
           ingested' = ingested
    PROVE  HistoryStep
<1> DEFINE S == zip[m] \ db
<1>1. zip[m] \subseteq ingested /\ ingested \subseteq Visit
  BY DEF OriginInv, TypeOK
<1>2. S \in SUBSET Visit /\ GivenUp(S)
  BY <1>1 DEF Unlink, GivenUp
<1> QED BY <1>2 DEF HistoryStep

\* Every step of the service does one of these to the history.
LEMMA StepsHistory ==
    ASSUME TypeOK, OriginInv, [Next]_vars
    PROVE  HistoryStep
<1> USE DEF history
<1>1. CASE PassNext
  <2> SUFFICES ASSUME NEW p \in Pass, PassStart(p) \/ PassStep(p)
               PROVE  HistoryStep
    BY <1>1 DEF PassNext
  <2>1. CASE DropUnlink(p) /\ zip[Oldest(pass[p].todo)] # NoZip
    <3>1. pass[p].todo \subseteq Month
      BY DEF TypeOK, PassRec
    <3>2. Oldest(pass[p].todo) \in Month
      BY <2>1, <3>1, OldestIn DEF DropUnlink
    <3> QED BY <2>1, <3>2, UnlinkGivesUp DEF DropUnlink
  <2>2. CASE DropUnlink(p) /\ zip[Oldest(pass[p].todo)] = NoZip
    BY <2>2 DEF DropUnlink, HistoryStep
  <2>3. CASE ~DropUnlink(p)
    BY <2>3 DEF PassStep, PassStart, ReleaseResolve, ReleaseDelete, ExpireCommit,
                ArchiveBuild, ArchiveRename, ArchiveSync, ArchiveCommit,
                ListStale, DropUnpin, PassEnd, HistoryStep
  <2> QED BY <2>1, <2>2, <2>3
<1>2. CASE RequestNext
  <2>1. ASSUME NEW r \in Request, RestoreCommit(r) PROVE HistoryStep
    <3>1. req[r].rows \in SUBSET Visit
      BY DEF TypeOK, ReqRec
    <3>2. TakenBack(req[r].rows)
      BY <2>1 DEF RestoreCommit, TakenBack
    <3> QED BY <3>1, <3>2 DEF HistoryStep
  <2>2. ASSUME NEW r \in Request, NEW m \in Month, DeleteArchiveUnlink(r, m)
        PROVE  HistoryStep
    BY <2>2, UnlinkGivesUp DEF DeleteArchiveUnlink
  <2>3. ASSUME NEW m \in Month, DeleteMonth(m) PROVE HistoryStep
    <3>1. InDb(m) \in SUBSET Visit
      BY DEF TypeOK, InDb
    <3>2. GivenUp(InDb(m))
      BY <2>3 DEF DeleteMonth, GivenUp, InDb, OriginInv
    <3> QED BY <3>1, <3>2 DEF HistoryStep
  <2>4. CASE UNCHANGED <<ingested, given>>
    BY <2>4 DEF HistoryStep
  <2> QED BY <1>2, <2>1, <2>2, <2>3, <2>4
          DEF RequestNext, RequestStep, ReleaseCommit, DeleteArchiveUnpin,
              RestoreOpen, ReleaseOpen, SetMode, SetRollingMonths,
              SetArchiveKeepMonths
<1>3. CASE Environment
  <2>1. ASSUME NEW v \in Visit, Ingest(v) PROVE HistoryStep
    BY <2>1 DEF Ingest, Recorded, HistoryStep
  <2> QED BY <1>3, <2>1
          DEF Environment, PinRunsOut, MonthPasses, Writeback, HistoryStep
<1>4. CASE Fault
  BY <1>4 DEF Fault, PassFails, RequestFails, PowerCut, HistoryStep
<1>5. CASE UNCHANGED vars
  BY <1>5 DEF vars, HistoryStep
<1> QED BY <1>1, <1>2, <1>3, <1>4, <1>5 DEF Next

\* Seen through the mapping, it is a step of VisitStore or leaves it alone.
LEMMA HistoryImplements ==
    ASSUME TypeOK, OriginInv, HistoryStep,
           heldRows = ingested \ given, heldRows' = ingested' \ given'
    PROVE  [Store!StoreNext]_(Store!storeVars)
<1> USE DEF OriginInv
<1>1. ASSUME NEW v \in Visit, Recorded(v) PROVE Store!Record(v)
  BY <1>1 DEF Recorded, Store!Record
<1>2. ASSUME NEW S \in SUBSET Visit, GivenUp(S)
      PROVE  \E T \in SUBSET Visit : Store!GiveUp(T)
  <2>1. S \ given \in SUBSET Visit /\ Store!GiveUp(S \ given)
    BY <1>2 DEF GivenUp, Store!GiveUp
  <2> QED BY <2>1
<1>3. ASSUME NEW S \in SUBSET Visit, TakenBack(S)
      PROVE  \E T \in SUBSET Visit : Store!TakeBack(T)
  <2>1. S \cap given \in SUBSET Visit /\ Store!TakeBack(S \cap given)
    BY <1>3 DEF TakenBack, Store!TakeBack
  <2> QED BY <2>1
<1>4. ASSUME UNCHANGED <<ingested, given>> PROVE UNCHANGED Store!storeVars
  BY <1>4 DEF Store!storeVars
<1> QED BY <1>1, <1>2, <1>3, <1>4 DEF HistoryStep, Store!StoreNext

\* The archive keeps the promise of VisitStore: between being committed and
\* being given up, a visit is held at every moment.
THEOREM ImplementsVisitStore ==
    ASSUME Serial, ~LateRows
    PROVE  Spec => StoreSpec
<1>1. TypeOK /\ LockInv /\ SafeInv /\ [Next]_vars => SafeInv'
  BY SafeStep
<1>2. Init => Store!StoreInit
  BY DEF Init, heldRows, Store!StoreInit
<1>3. /\ TypeOK /\ OriginInv /\ NoVisitLost /\ NoVisitLost'
      /\ [Next]_vars
      => [Store!StoreNext]_(Store!storeVars)
  <2> SUFFICES ASSUME TypeOK, OriginInv, NoVisitLost, NoVisitLost', [Next]_vars
               PROVE  [Store!StoreNext]_(Store!storeVars)
    OBVIOUS
  <2>1. heldRows = ingested \ given /\ heldRows' = ingested' \ given'
    BY HeldRows DEF NoVisitLost, heldRows
  <2> QED BY <2>1, StepsHistory, HistoryImplements
<1> QED BY <1>1, <1>2, <1>3, TypeInit, TypeStep, LockInit, LockStep, SafeInit,
           SafeMeansHeld, OriginInit, OriginStep, PTL
        DEF Spec, StoreSpec, Store!StoreSpec
=============================================================================

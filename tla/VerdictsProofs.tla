---------------------------- MODULE VerdictsProofs ----------------------------
(***************************************************************************)
(* What holds of Verdicts for every set of addresses and every bound: the  *)
(* types, that the stored classifier version describes the stored classes, *)
(* and that a settled verdict is current when nothing races a pass.        *)
(***************************************************************************)
EXTENDS Verdicts, TLAPS

-----------------------------------------------------------------------------
(* Types *)

LEMMA NewRowType == NewRow \in Row /\ Nothing \in Seen
<1>1. Nothing \in Seen
  BY VerdictsAssumption DEF Nothing, Seen
<1>2. 0 \in 0..MaxEvidence /\ 0 \in 0..MaxVersion /\ 0 \in 0..MaxVisit
  BY VerdictsAssumption
<1> QED BY <1>1, <1>2 DEF NewRow, Row

LEMMA TypeInit == Init => TypeOK
<1> SUFFICES ASSUME Init PROVE TypeOK
  OBVIOUS
<1>1. Idle \in PassRec /\ [Idle EXCEPT !.pc = "start"] \in PassRec
  BY VerdictsAssumption DEF Idle, PassRec, Seen, Nothing
<1>2. row \in [Ip -> Row \cup {NoRow}]
  BY NewRowType DEF Init
<1>3. /\ Idle.todo = {} /\ Idle.judged = {}
      /\ [Idle EXCEPT !.pc = "start"].todo = {}
      /\ [Idle EXCEPT !.pc = "start"].judged = {}
  BY DEF Idle
<1>4. stored \in 0..MaxVersion /\ code \in 1..MaxVersion /\ 0 \in 0..MaxFaults
  BY VerdictsAssumption DEF Init
<1>5. lastId \in 0..MaxVisit /\ newest \in [Ip -> 0..MaxVisit]
  BY VerdictsAssumption DEF Init
<1> QED BY <1>1, <1>2, <1>3, <1>4, <1>5 DEF Init, TypeOK, Known

\* A row that has just been judged is a row.
LEMMA SetClassType ==
    ASSUME TypeOK, NEW ip \in Ip, NEW r \in Row, NEW s \in Seen
    PROVE  SetClass(ip, r, s) \in Row
<1>1. code \in 0..MaxVersion /\ newest[ip] \in 0..MaxVisit
  BY VerdictsAssumption DEF TypeOK
<1> QED BY <1>1 DEF Row, SetClass

\* What there is to see of a row.
LEMMA EvidenceType ==
    ASSUME TypeOK, NEW ip \in Ip, NEW r \in Row
    PROVE  Evidence(ip, r) \in Seen
BY DEF TypeOK, Row, Evidence, Seen

\* NoRow is not a row that a step makes up, so rows never disappear.
LEMMA PersistType ==
    ASSUME TypeOK, NEW A \in SUBSET Ip, NEW F \in SUBSET Ip, Persist(A, F)
    PROVE  row' \in [Ip -> Row \cup {NoRow}]
<1> DEFINE Old(ip) == IF row[ip] = NoRow THEN NewRow ELSE row[ip]
           New(ip) == IF ip \in A THEN [Old(ip) EXCEPT !.evidence = @ + 1] ELSE Old(ip)
<1>1. \A ip \in Ip : Old(ip) \in Row
  BY NewRowType DEF TypeOK
<1>2. \A ip \in A : Old(ip).evidence < MaxEvidence
  BY DEF Persist
<1>3. \A ip \in Ip : New(ip) \in Row
  BY VerdictsAssumption, <1>1, <1>2 DEF Row
<1>4. \A ip \in Ip : SetClass(ip, New(ip), Evidence(ip, New(ip))) \in Row
  BY <1>3, SetClassType, EvidenceType
<1>5. row' = [ip \in Ip |-> IF ip \in A \cup F
                              THEN SetClass(ip, New(ip), Evidence(ip, New(ip)))
                              ELSE row[ip]]
  BY DEF Persist
<1> HIDE DEF Old, New
<1> QED BY <1>4, <1>5 DEF TypeOK

\* The rows a batch writes exist, carry the running classifier's version and
\* were judged from what they say.
LEMMA PersistRows ==
    ASSUME TypeOK, NEW A \in SUBSET Ip, NEW F \in SUBSET Ip, Persist(A, F)
    PROVE  \A ip \in A \cup F :
               /\ row'[ip] \in Row
               /\ row'[ip].label = code
               /\ row'[ip].saw = Evidence(ip, row'[ip])
               /\ row'[ip].stamped /\ row'[ip].stamp = newest[ip]
<1> DEFINE Old(ip) == IF row[ip] = NoRow THEN NewRow ELSE row[ip]
           New(ip) == IF ip \in A THEN [Old(ip) EXCEPT !.evidence = @ + 1] ELSE Old(ip)
<1> SUFFICES ASSUME NEW ip \in A \cup F
             PROVE  /\ row'[ip] \in Row
                    /\ row'[ip].label = code
                    /\ row'[ip].saw = Evidence(ip, row'[ip])
                    /\ row'[ip].stamped /\ row'[ip].stamp = newest[ip]
  OBVIOUS
<1>1. Old(ip) \in Row
  BY NewRowType DEF TypeOK
<1>2. ip \in A => Old(ip).evidence < MaxEvidence
  BY DEF Persist
<1>3. New(ip) \in Row
  BY VerdictsAssumption, <1>1, <1>2 DEF Row
<1>4. row'[ip] = SetClass(ip, New(ip), Evidence(ip, New(ip)))
  BY DEF Persist
<1> HIDE DEF Old, New
<1>5. row'[ip] \in Row
  BY <1>3, <1>4, SetClassType, EvidenceType
<1> QED BY <1>3, <1>4, <1>5 DEF SetClass, Evidence, Row

\* A pass keeps its type as it judges one more address.
LEMMA JudgedType ==
    ASSUME TypeOK, NEW pass \in PassRec, NEW ip \in Known, pass.pc = "judge",
           pass.todo \cup pass.judged \subseteq Known
    PROVE  /\ Judged(pass, ip) \in PassRec
           /\ Judged(pass, ip).todo \cup Judged(pass, ip).judged \subseteq Known
           /\ Judged(pass, ip).pc = "judge"
<1>1. ip \in Ip /\ row[ip] \in Row
  BY DEF Known, TypeOK
<1>2. Evidence(ip, row[ip]) \in Seen
  BY <1>1, EvidenceType
<1> QED BY <1>1, <1>2 DEF Judged, PassRec

\* ... and what it writes are rows.
LEMMA WrittenType ==
    ASSUME TypeOK, NEW pass \in PassRec, pass.judged \subseteq Known
    PROVE  /\ Written(pass) \in [Ip -> Row \cup {NoRow}]
           /\ \A ip \in Known : Written(pass)[ip] # NoRow
<1>1. \A ip \in pass.judged : row[ip] \in Row /\ pass.seen[ip] \in Seen /\ ip \in Ip
  BY DEF TypeOK, Known, PassRec
<1>2. \A ip \in pass.judged : SetClass(ip, row[ip], pass.seen[ip]) \in Row
  BY <1>1, SetClassType
<1> QED BY <1>1, <1>2, VerdictsAssumption DEF Written, TypeOK, Known

\* Once there is a row there is always one.
RowsStay == \A ip \in Known : row'[ip] # NoRow

\* Rows replaced by rows: the table keeps its type and loses nothing.
LEMMA RowsReplaced ==
    ASSUME TypeOK, NEW S \in SUBSET Ip, NEW f \in [S -> Row],
           row' = [ip \in Ip |-> IF ip \in S THEN f[ip] ELSE row[ip]]
    PROVE  row' \in [Ip -> Row \cup {NoRow}] /\ RowsStay
<1>1. NoRow \notin Row
  BY VerdictsAssumption
<1>2. \A ip \in S : f[ip] \in Row
  OBVIOUS
<1>3. row \in [Ip -> Row \cup {NoRow}]
  BY DEF TypeOK
<1>4. row' \in [Ip -> Row \cup {NoRow}]
  BY <1>2, <1>3
<1>5. RowsStay
  BY <1>1, <1>2 DEF RowsStay, Known
<1> QED BY <1>4, <1>5

LEMMA TypeRdns == TypeOK /\ Rdns => TypeOK' /\ RowsStay
<1> SUFFICES ASSUME TypeOK, Rdns PROVE TypeOK' /\ RowsStay
  OBVIOUS
<1> USE DEF visitVars
<1>1. ASSUME NEW S \in SUBSET Ip, RdnsPurge(S) PROVE TypeOK' /\ RowsStay
  <2>0. \A ip \in S : row[ip] \in Row /\ row[ip].evidence < MaxEvidence
    BY <1>1 DEF RdnsPurge, TypeOK, Known
  <2>1. \A ip \in S : row[ip] \in Row /\ row[ip].evidence + 1 \in 0..MaxEvidence
    <3> SUFFICES ASSUME NEW ip \in S PROVE row[ip].evidence + 1 \in 0..MaxEvidence
      BY <2>0
    <3>1. row[ip].evidence \in 0..MaxEvidence /\ row[ip].evidence < MaxEvidence
      BY <2>0 DEF Row
    <3> QED BY <3>1, VerdictsAssumption
  <2>2. \A ip \in S : [row[ip] EXCEPT !.evidence = @ + 1, !.checked = FALSE] \in Row
    BY <2>1 DEF Row
  <2> DEFINE f == [ip \in S |-> [row[ip] EXCEPT !.evidence = @ + 1, !.checked = FALSE]]
  <2>3. row' \in [Ip -> Row \cup {NoRow}] /\ RowsStay
    <3>1. f \in [S -> Row]
      BY <2>2
    <3>2. row' = [ip \in Ip |-> IF ip \in S THEN f[ip] ELSE row[ip]]
      BY <1>1 DEF RdnsPurge
    <3> HIDE DEF f
    <3> QED BY <3>1, <3>2, RowsReplaced
  <2> QED BY <1>1, <2>3 DEF RdnsPurge, TypeOK, Known, RowsStay
<1>2. ASSUME NEW S \in SUBSET Ip, RdnsStore(S) PROVE TypeOK' /\ RowsStay
  <2>1. \A ip \in rdns.ips : row[ip] \in Row
    BY DEF TypeOK, Known
  <2>2. \A ip \in rdns.ips :
            (IF ip \in S THEN row[ip].evidence + 1 ELSE row[ip].evidence) \in 0..MaxEvidence
    BY <1>2, <2>1, VerdictsAssumption DEF RdnsStore, Row
  <2>3. \A ip \in rdns.ips : Checked(row[ip], ip \in S) \in Row
    BY <2>1, <2>2 DEF Checked, Row
  <2> DEFINE f == [ip \in rdns.ips |-> Checked(row[ip], ip \in S)]
  <2>4. row' \in [Ip -> Row \cup {NoRow}] /\ RowsStay
    <3>1. f \in [rdns.ips -> Row] /\ rdns.ips \in SUBSET Ip
      BY <2>3 DEF TypeOK
    <3>2. row' = [ip \in Ip |-> IF ip \in rdns.ips THEN f[ip] ELSE row[ip]]
      BY <1>2 DEF RdnsStore
    <3> HIDE DEF f
    <3> QED BY <3>1, <3>2, RowsReplaced
  <2> QED BY <1>2, <2>4 DEF RdnsStore, TypeOK, Known, RowsStay
<1>3. CASE RdnsLoad
  <2>1. rdns' \in [pc : {"purge", "load", "store", "done"}, ips : SUBSET Ip]
        /\ rdns'.ips \subseteq Known
    BY <1>3 DEF RdnsLoad, FirstOf, Unchecked, Known
  <2> QED BY <1>3, <2>1 DEF RdnsLoad, TypeOK, Known, RowsStay
<1>4. CASE RdnsDone
  BY <1>4 DEF RdnsDone, TypeOK, Known, RowsStay
<1> QED BY <1>1, <1>2, <1>3, <1>4 DEF Rdns

\* What the steps of either pass have in common.
LEMMA TypePasses == TypeOK /\ (Reclassify \/ Backfill) => TypeOK' /\ RowsStay
<1> SUFFICES ASSUME TypeOK, Reclassify \/ Backfill PROVE TypeOK' /\ RowsStay
  OBVIOUS
<1> USE DEF visitVars
<1>1. ASSUME NEW S \in SUBSET Known
      PROVE  /\ [Idle EXCEPT !.pc = "judge", !.todo = S] \in PassRec
             /\ [Idle EXCEPT !.pc = "judge", !.todo = S].todo = S
             /\ [Idle EXCEPT !.pc = "judge", !.todo = S].judged = {}
  BY NewRowType DEF Idle, PassRec, Known
<1>2. /\ Idle \in PassRec /\ Idle.todo = {} /\ Idle.judged = {}
      /\ [Idle EXCEPT !.pc = "done"] \in PassRec
      /\ [Idle EXCEPT !.pc = "done"].todo = {} /\ [Idle EXCEPT !.pc = "done"].judged = {}
  BY NewRowType DEF Idle, PassRec
<1>3. CASE ReclassifyList
  <2>1. PICK S \in SUBSET Known :
            reclassifier' = [Idle EXCEPT !.pc = "judge", !.todo = S]
    BY <1>3 DEF ReclassifyList, FirstOf, Due
  <2> QED BY <1>1, <1>3, <2>1 DEF ReclassifyList, TypeOK, Known, RowsStay
<1>4. CASE BackfillList
  <2>1. BackfillRows \in SUBSET Known
    BY DEF BackfillRows
  <2> QED BY <1>1, <1>4, <2>1 DEF BackfillList, TypeOK, Known, RowsStay
<1>5. ASSUME NEW ip \in Ip, ReclassifyJudge(ip) PROVE TypeOK' /\ RowsStay
  <2>1. ip \in Known
    BY <1>5 DEF ReclassifyJudge, TypeOK
  <2> QED BY <1>5, <2>1, JudgedType DEF ReclassifyJudge, TypeOK, Known, RowsStay
<1>6. ASSUME NEW ip \in Ip, BackfillJudge(ip) PROVE TypeOK' /\ RowsStay
  <2>1. ip \in Known
    BY <1>6 DEF BackfillJudge, TypeOK
  <2> QED BY <1>6, <2>1, JudgedType DEF BackfillJudge, TypeOK, Known, RowsStay
<1>7. CASE ReclassifyWrite
  <2>1. row' \in [Ip -> Row \cup {NoRow}] /\ RowsStay
    BY <1>7, WrittenType DEF ReclassifyWrite, TypeOK, RowsStay
  <2> QED BY <1>2, <1>7, <2>1 DEF ReclassifyWrite, TypeOK, Known, RowsStay
<1>8. CASE BackfillWrite
  <2>1. row' \in [Ip -> Row \cup {NoRow}] /\ RowsStay
    BY <1>8, WrittenType DEF BackfillWrite, TypeOK, RowsStay
  <2>2. stored' \in 0..MaxVersion
    BY <1>8, VerdictsAssumption DEF BackfillWrite, TypeOK
  <2> QED BY <1>2, <1>8, <2>1, <2>2 DEF BackfillWrite, TypeOK, Known, RowsStay
<1> QED BY <1>3, <1>4, <1>5, <1>6, <1>7, <1>8 DEF Reclassify, Backfill

LEMMA TypeStep == TypeOK /\ [Next]_vars => TypeOK' /\ RowsStay
<1> SUFFICES ASSUME TypeOK, [Next]_vars PROVE TypeOK' /\ RowsStay
  OBVIOUS
<1> USE DEF visitVars
<1>0. /\ Idle \in PassRec /\ Idle.todo = {} /\ Idle.judged = {}
      /\ \A pc \in {"start", "done"} :
             /\ [Idle EXCEPT !.pc = pc] \in PassRec
             /\ [Idle EXCEPT !.pc = pc].todo = {} /\ [Idle EXCEPT !.pc = pc].judged = {}
  BY NewRowType DEF Idle, PassRec
<1>1. ASSUME NEW ip \in Ip, Visit(ip) PROVE TypeOK' /\ RowsStay
  <2>1. lastId + 1 \in 0..MaxVisit
    BY <1>1, VerdictsAssumption DEF Visit, TypeOK
  <2> QED BY <1>1, <2>1 DEF Visit, TypeOK, Known, RowsStay
<1>2. ASSUME NEW A \in SUBSET Ip, NEW F \in SUBSET Ip, Persist(A, F)
      PROVE  TypeOK' /\ RowsStay
  <2>1. row' \in [Ip -> Row \cup {NoRow}]
    BY <1>2, PersistType
  <2>2. \A ip \in Ip : ip \notin A \cup F => row'[ip] = row[ip]
    BY <1>2 DEF Persist
  <2>3. \A ip \in A \cup F : row'[ip] # NoRow
    BY <1>2, PersistRows, VerdictsAssumption
  <2>4. RowsStay
    BY <2>2, <2>3 DEF RowsStay, Known
  <2> QED BY <1>2, <2>1, <2>4 DEF Persist, TypeOK, Known, RowsStay
<1>3. CASE Rdns
  BY <1>3, TypeRdns
<1>4. CASE Reclassify \/ Backfill
  BY <1>4, TypePasses
<1>5. CASE ReclassifyFails
  BY <1>0, <1>5, VerdictsAssumption DEF ReclassifyFails, Fault, TypeOK, Known, RowsStay
<1>6. CASE BackfillFails
  BY <1>0, <1>6, VerdictsAssumption DEF BackfillFails, Fault, TypeOK, Known, RowsStay
<1>7. CASE RdnsFails
  BY <1>7, VerdictsAssumption DEF RdnsFails, Fault, TypeOK, Known, RowsStay
<1>8. ASSUME NEW v \in 1..MaxVersion, Restart(v) PROVE TypeOK' /\ RowsStay
  BY <1>0, <1>8, VerdictsAssumption DEF Restart, Fault, TypeOK, Known, RowsStay
<1>9. CASE UNCHANGED vars
  BY <1>9 DEF vars, TypeOK, Known, RowsStay
<1> QED BY <1>1, <1>2, <1>3, <1>4, <1>5, <1>6, <1>7, <1>8, <1>9 DEF Next

\* Every variable of Verdicts keeps its type, and a pass never works on an
\* address without a row.
THEOREM VerdictsTypeCorrect == Spec => []TypeOK
BY TypeInit, TypeStep, PTL DEF Spec

-----------------------------------------------------------------------------
(* The stored classifier version *)

\* What an interrupted backfill, an upgrade and the other writers leave intact:
\* no class is newer than the code, and a row the backfill has not listed was
\* judged by this code.
VersionInv ==
    /\ stored <= code
    /\ \A ip \in Known : row[ip].label <= code
    /\ VersionHonest
    /\ backfill.pc = "judge" =>
           \A ip \in Known \ (backfill.todo \cup backfill.judged) : row[ip].label = code

\* A step of the same process leaves the invariant alone when it changes a
\* class only to one by the running code.
LEMMA SameCode ==
    ASSUME TypeOK, TypeOK', VersionInv, UNCHANGED <<code, stored>>,
           \A ip \in Ip : row'[ip] # NoRow =>
               \/ row'[ip].label = code
               \/ row[ip] # NoRow /\ row'[ip].label = row[ip].label,
           backfill'.pc = "judge" =>
               backfill.pc = "judge" /\ backfill'.todo \cup backfill'.judged
                                          = backfill.todo \cup backfill.judged
    PROVE  VersionInv'
BY VerdictsAssumption DEF VersionInv, VersionHonest, Known, TypeOK, Row

\* Looking up a name, or rejecting one, leaves every class as it is.
LEMMA RdnsLabels ==
    ASSUME TypeOK, Rdns
    PROVE  /\ \A ip \in Ip : row'[ip] # NoRow =>
                  row[ip] # NoRow /\ row'[ip].label = row[ip].label
           /\ UNCHANGED <<code, stored, backfill>>
<1>1. \A ip \in Known : row[ip] \in Row /\ ip \in Ip
  BY DEF TypeOK, Known
<1>2. ASSUME NEW S \in SUBSET Ip, RdnsPurge(S)
      PROVE  \A ip \in Ip : row'[ip] # NoRow =>
                 row[ip] # NoRow /\ row'[ip].label = row[ip].label
  <2>1. S \subseteq Known
    BY <1>2 DEF RdnsPurge
  <2>2. \A ip \in S : [row[ip] EXCEPT !.evidence = @ + 1, !.checked = FALSE].label
                       = row[ip].label
    BY <1>1, <2>1 DEF Row
  <2> QED BY <1>2, <2>1, <2>2 DEF RdnsPurge, Known
<1>3. ASSUME NEW S \in SUBSET Ip, RdnsStore(S)
      PROVE  \A ip \in Ip : row'[ip] # NoRow =>
                 row[ip] # NoRow /\ row'[ip].label = row[ip].label
  <2>1. rdns.ips \subseteq Known
    BY DEF TypeOK
  <2>2. \A ip \in rdns.ips : Checked(row[ip], ip \in S).label = row[ip].label
    BY <1>1, <2>1 DEF Checked, Row
  <2> QED BY <1>3, <2>1, <2>2 DEF RdnsStore, Known
<1>4. UNCHANGED <<code, stored, backfill>>
  BY DEF Rdns, RdnsLoad, RdnsDone, RdnsPurge, RdnsStore
<1> QED BY <1>2, <1>3, <1>4 DEF Rdns, RdnsLoad, RdnsDone

\* What a pass writes is judged by the running code, and nothing else changes.
LEMMA WrittenLabels ==
    ASSUME TypeOK, NEW pass \in PassRec, pass.judged \subseteq Known
    PROVE  \A ip \in Ip :
               /\ ip \in pass.judged => /\ Written(pass)[ip].label = code
                                        /\ Written(pass)[ip].saw = pass.seen[ip]
                                        /\ Written(pass)[ip].evidence = row[ip].evidence
               /\ ip \notin pass.judged => Written(pass)[ip] = row[ip]
<1>1. \A ip \in pass.judged : row[ip] \in Row
  BY DEF TypeOK, Known
<1> QED BY <1>1 DEF Written, SetClass, Row

LEMMA VersionInit == Init => VersionInv
BY DEF Init, VersionInv, VersionHonest, Known, NewRow, Idle

LEMMA VersionStep == TypeOK /\ TypeOK' /\ VersionInv /\ [Next]_vars => VersionInv'
<1> SUFFICES ASSUME TypeOK, TypeOK', VersionInv, [Next]_vars PROVE VersionInv'
  OBVIOUS
<1> USE DEF visitVars
<1>0. /\ Idle.pc = "idle" /\ [Idle EXCEPT !.pc = "start"].pc = "start"
      /\ [Idle EXCEPT !.pc = "done"].pc = "done"
  BY DEF Idle
<1>1. ASSUME UNCHANGED <<code, stored, row, backfill>> PROVE VersionInv'
  BY <1>1, SameCode
<1>2. ASSUME NEW A \in SUBSET Ip, NEW F \in SUBSET Ip, Persist(A, F)
      PROVE  VersionInv'
  <2>1. \A ip \in Ip : ip \notin A \cup F => row'[ip] = row[ip]
    BY <1>2 DEF Persist
  <2> QED BY <1>2, <2>1, PersistRows, SameCode DEF Persist
<1>3. CASE Rdns
  BY <1>3, RdnsLabels, SameCode
<1>4. CASE ReclassifyWrite
  <2>1. \A ip \in Ip : row'[ip].label = code \/ row'[ip] = row[ip]
    BY <1>4, WrittenLabels DEF ReclassifyWrite, TypeOK
  <2> QED BY <1>4, <2>1, SameCode DEF ReclassifyWrite
<1>5. CASE BackfillList
  <2>1. /\ backfill'.todo = BackfillRows /\ backfill'.judged = {}
        /\ UNCHANGED <<code, stored, row>>
    BY <1>5 DEF BackfillList, Idle
  <2>2. \A ip \in Known \ BackfillRows : row[ip].label = code
    BY DEF BackfillRows, VersionInv, VersionHonest
  <2> QED BY <2>1, <2>2 DEF VersionInv, VersionHonest, Known
<1>6. ASSUME NEW ip \in Ip, BackfillJudge(ip) PROVE VersionInv'
  <2>1. /\ backfill'.todo \cup backfill'.judged = backfill.todo \cup backfill.judged
        /\ backfill.pc = "judge"
    BY <1>6 DEF BackfillJudge, Judged, TypeOK, PassRec
  <2> QED BY <1>6, <2>1, SameCode DEF BackfillJudge
<1>7. CASE BackfillWrite
  <2>1. /\ backfill.pc = "judge" /\ backfill.todo = {} /\ backfill'.pc = "done"
        /\ stored' = code /\ code' = code
    BY <1>0, <1>7 DEF BackfillWrite
  <2>2. \A ip \in Known' : row'[ip].label = code
    <3>1. \A ip \in Ip : /\ ip \in backfill.judged => row'[ip].label = code
                         /\ ip \notin backfill.judged => row'[ip] = row[ip]
      BY <1>7, WrittenLabels DEF BackfillWrite, TypeOK
    <3> QED BY <2>1, <3>1 DEF VersionInv, Known
  <2>3. code \in Nat
    BY VerdictsAssumption DEF TypeOK
  <2> QED BY <2>1, <2>2, <2>3 DEF VersionInv, VersionHonest
<1>8. CASE BackfillFails
  BY <1>0, <1>8, SameCode DEF BackfillFails
<1>9. ASSUME NEW v \in 1..MaxVersion, Restart(v) PROVE VersionInv'
  <2>1. /\ code <= v /\ code' = v /\ code \in Nat /\ v \in Nat
        /\ stored \in Nat /\ backfill'.pc = "start"
        /\ UNCHANGED <<row, stored>>
    BY <1>0, <1>9, VerdictsAssumption DEF Restart, TypeOK
  <2>2. \A ip \in Known : row[ip].label \in Nat
    BY VerdictsAssumption DEF TypeOK, Known, Row
  <2> QED BY <2>1, <2>2 DEF VersionInv, VersionHonest, Known
<1> QED BY <1>1, <1>2, <1>3, <1>4, <1>5, <1>6, <1>7, <1>8, <1>9
        DEF Next, Reclassify, Backfill, Visit, ReclassifyList, ReclassifyJudge,
            ReclassifyFails, RdnsFails, vars

\* Through failures, restarts and upgrades, and whatever races what: when the
\* database says which classifier judged it, every class in it is by that one.
THEOREM VersionIsHonest == Spec => []VersionHonest
<1>1. VersionInv => VersionHonest
  BY DEF VersionInv
<1> QED BY <1>1, TypeInit, TypeStep, VersionInit, VersionStep, PTL DEF Spec

-----------------------------------------------------------------------------
(* Settled verdicts *)

\* Stamps lie in the past, and while a pass is under way what it has read is
\* still so.
Fresh(pass) ==
    pass.pc = "judge" =>
        \A ip \in pass.judged : pass.seen[ip] = Evidence(ip, row[ip])

SettledInv ==
    /\ \A ip \in Ip : newest[ip] <= lastId
    /\ \A ip \in Known : row[ip].stamp <= lastId
    /\ SettledIsCurrent
    /\ Fresh(reclassifier) /\ Fresh(backfill)

\* A row whose class and evidence a step leaves alone stays settled or not.
LEMMA SettledSame ==
    ASSUME UNCHANGED <<row, newest, lastId>>, SettledInv,
           Fresh(reclassifier)', Fresh(backfill)'
    PROVE  SettledInv'
BY DEF SettledInv, SettledIsCurrent, Known, Due, Evidence

LEMMA SettledInit == Init => SettledInv
<1> SUFFICES ASSUME Init PROVE SettledInv
  OBVIOUS
<1>1. \A ip \in Known : row[ip] = NewRow
  BY DEF Init, Known
<1> QED BY <1>1 DEF Init, SettledInv, SettledIsCurrent, Fresh, Due, NewRow, Idle

\* Reading one more address keeps what was read fresh.
LEMMA JudgedFresh ==
    ASSUME TypeOK, NEW pass \in PassRec, NEW ip \in Ip, pass.pc = "judge", Fresh(pass)
    PROVE  Fresh(Judged(pass, ip))
BY DEF Fresh, Judged, PassRec

\* A pass that writes what it has just read leaves its rows settled.
LEMMA WrittenSettled ==
    ASSUME TypeOK, SettledInv, NEW pass \in PassRec, pass.judged \subseteq Known,
           pass.pc = "judge", Fresh(pass), row' = Written(pass),
           UNCHANGED <<newest, lastId>>
    PROVE  /\ \A ip \in Known' : row'[ip].stamp <= lastId
           /\ SettledIsCurrent'
           /\ \A ip \in Ip : Evidence(ip, row'[ip]) = Evidence(ip, row[ip])
<1>1. \A ip \in Ip : Evidence(ip, row'[ip]) = Evidence(ip, row[ip])
  BY WrittenLabels DEF Evidence
<1>2. \A ip \in pass.judged : row'[ip].saw = Evidence(ip, row'[ip])
  BY <1>1, WrittenLabels DEF Fresh, Known
<1>3. \A ip \in pass.judged : row'[ip].stamp = newest[ip]
  <2>1. \A ip \in pass.judged : row[ip] \in Row /\ ip \in Ip
    BY DEF TypeOK, Known
  <2> QED BY <2>1 DEF Written, SetClass, Row
<1>4. \A ip \in Ip : ip \notin pass.judged => row'[ip] = row[ip]
  BY WrittenLabels
<1>5. \A ip \in Known' : row'[ip].stamp <= lastId
  BY <1>3, <1>4 DEF SettledInv, Known
<1>6. SettledIsCurrent'
  <2> SUFFICES ASSUME NEW ip \in Known', row'[ip].checked, ip \notin Due'
               PROVE  row'[ip].saw = Evidence(ip, row[ip])'
    BY DEF SettledIsCurrent
  <2>1. CASE ip \in pass.judged
    BY <1>2, <2>1 DEF Evidence
  <2>2. CASE ip \notin pass.judged
    BY <1>4, <2>2 DEF SettledInv, SettledIsCurrent, Known, Due, Evidence
  <2> QED BY <2>1, <2>2
<1> QED BY <1>1, <1>5, <1>6

LEMMA SettledStep ==
    ASSUME ~Racing, TypeOK, TypeOK', SettledInv, [Next]_vars
    PROVE  SettledInv'
<1> USE DEF visitVars
<1>0. /\ Idle.pc # "judge"
      /\ \A pc \in {"start", "done"} : [Idle EXCEPT !.pc = pc].pc # "judge"
      /\ \A S : [Idle EXCEPT !.pc = "judge", !.todo = S].judged = {}
  BY DEF Idle
<1>1. ASSUME MayChange, UNCHANGED <<reclassifier, backfill>>
      PROVE  Fresh(reclassifier)' /\ Fresh(backfill)'
  BY <1>1 DEF MayChange, Fresh
<1>2. ASSUME NEW ip \in Ip, Visit(ip) PROVE SettledInv'
  <2>1. Fresh(reclassifier)' /\ Fresh(backfill)'
    BY <1>1, <1>2 DEF Visit
  <2>2. /\ lastId' = lastId + 1 /\ row' = row /\ lastId \in Nat
        /\ newest' = [newest EXCEPT ![ip] = lastId + 1]
        /\ \A i \in Ip : newest[i] \in Nat
        /\ \A i \in Known : row[i].stamp \in Nat
    BY <1>2, VerdictsAssumption DEF Visit, TypeOK, Known, Row
  <2>3. \A i \in Ip : newest'[i] = IF i = ip THEN lastId + 1 ELSE newest[i]
    BY <2>2 DEF TypeOK
  <2>4. \A i \in Ip : newest'[i] <= lastId'
    BY <2>2, <2>3 DEF SettledInv
  <2>5. \A i \in Known' : row'[i].stamp <= lastId'
    BY <2>2 DEF SettledInv, Known
  <2>6. ip \in Known' => ip \in Due'
    BY <2>2, <2>3 DEF SettledInv, Known, Due
  <2>7. SettledIsCurrent'
    BY <2>2, <2>3, <2>6 DEF SettledInv, SettledIsCurrent, Known, Due, Evidence
  <2> QED BY <2>1, <2>4, <2>5, <2>7 DEF SettledInv
<1>3. ASSUME NEW A \in SUBSET Ip, NEW F \in SUBSET Ip, Persist(A, F)
      PROVE  SettledInv'
  <2>1. Fresh(reclassifier)' /\ Fresh(backfill)'
    BY <1>1, <1>3 DEF Persist
  <2>2. \A ip \in Ip : ip \notin A \cup F => row'[ip] = row[ip]
    BY <1>3 DEF Persist
  <2>3. UNCHANGED <<newest, lastId>>
    BY <1>3 DEF Persist
  <2>4. \A ip \in A \cup F : /\ row'[ip].saw = Evidence(ip, row'[ip])
                             /\ row'[ip].stamp = newest[ip]
    BY ZenonT(60), <1>3, PersistRows
  <2>5. \A ip \in Known' : row'[ip].stamp <= lastId'
    BY <2>2, <2>3, <2>4 DEF SettledInv, Known
  <2>6. SettledIsCurrent'
    BY <2>2, <2>3, <2>4 DEF SettledInv, SettledIsCurrent, Known, Due, Evidence
  <2> QED BY <2>1, <2>3, <2>5, <2>6 DEF SettledInv
<1>4. ASSUME NEW S \in SUBSET Ip, RdnsPurge(S) \/ RdnsStore(S)
      PROVE  SettledInv'
  <2>1. Fresh(reclassifier)' /\ Fresh(backfill)'
    BY <1>1, <1>4 DEF RdnsPurge, RdnsStore
  <2>2. PICK C \in SUBSET Known : \A ip \in Ip :
            /\ ip \notin C => row'[ip] = row[ip]
            /\ ip \in C => /\ row'[ip].stamp = row[ip].stamp
                           /\ ~row'[ip].checked \/ ~row'[ip].stamped
    <3>1. \A ip \in Known : row[ip] \in Row /\ ip \in Ip
      BY DEF TypeOK, Known
    <3>2. CASE RdnsPurge(S)
      BY <3>1, <3>2 DEF RdnsPurge, Row
    <3>3. CASE RdnsStore(S)
      <4>1. rdns.ips \subseteq Known
        BY DEF TypeOK
      <4> QED BY ZenonT(60), <3>1, <3>3, <4>1 DEF RdnsStore, Checked, Row
    <3> QED BY <1>4, <3>2, <3>3
  <2>3. UNCHANGED <<newest, lastId>>
    BY <1>4 DEF RdnsPurge, RdnsStore
  <2>4. \A ip \in Known' : row'[ip].stamp <= lastId'
    BY <2>2, <2>3 DEF SettledInv, Known
  <2>5. SettledIsCurrent'
    BY <2>2, <2>3 DEF SettledInv, SettledIsCurrent, Known, Due, Evidence
  <2> QED BY <2>1, <2>3, <2>4, <2>5 DEF SettledInv
<1>5. ASSUME UNCHANGED <<row, newest, lastId>>,
             \/ reclassifier' = reclassifier \/ reclassifier'.pc # "judge"
             \/ reclassifier'.judged = {},
             \/ backfill' = backfill \/ backfill'.pc # "judge"
             \/ backfill'.judged = {}
      PROVE  SettledInv'
  <2>1. Fresh(reclassifier)' /\ Fresh(backfill)'
    BY <1>5 DEF SettledInv, Fresh, Evidence
  <2> QED BY <1>5, <2>1, SettledSame
<1>6. ASSUME NEW ip \in Ip, ReclassifyJudge(ip) PROVE SettledInv'
  <2>1. Fresh(Judged(reclassifier, ip))
    BY <1>6, JudgedFresh DEF ReclassifyJudge, TypeOK, SettledInv
  <2>2. Fresh(reclassifier)' /\ Fresh(backfill)'
    BY <1>6, <2>1 DEF ReclassifyJudge, SettledInv, Fresh, Evidence
  <2> QED BY <1>6, <2>2, SettledSame DEF ReclassifyJudge
<1>7. ASSUME NEW ip \in Ip, BackfillJudge(ip) PROVE SettledInv'
  <2>1. Fresh(Judged(backfill, ip))
    BY <1>7, JudgedFresh DEF BackfillJudge, TypeOK, SettledInv
  <2>2. Fresh(reclassifier)' /\ Fresh(backfill)'
    BY <1>7, <2>1 DEF BackfillJudge, SettledInv, Fresh, Evidence
  <2> QED BY <1>7, <2>2, SettledSame DEF BackfillJudge
<1>8. CASE ReclassifyWrite
  <2>1. /\ \A ip \in Known' : row'[ip].stamp <= lastId
        /\ SettledIsCurrent'
        /\ \A ip \in Ip : Evidence(ip, row'[ip]) = Evidence(ip, row[ip])
    BY <1>8, WrittenSettled DEF ReclassifyWrite, TypeOK, SettledInv
  <2>2. Fresh(reclassifier)' /\ Fresh(backfill)'
    BY <1>0, <1>8, <2>1 DEF ReclassifyWrite, SettledInv, Fresh, Evidence, TypeOK, Known
  <2> QED BY <1>8, <2>1, <2>2 DEF ReclassifyWrite, SettledInv
<1>9. CASE BackfillWrite
  <2>1. /\ \A ip \in Known' : row'[ip].stamp <= lastId
        /\ SettledIsCurrent'
        /\ \A ip \in Ip : Evidence(ip, row'[ip]) = Evidence(ip, row[ip])
    BY <1>9, WrittenSettled DEF BackfillWrite, TypeOK, SettledInv
  <2>2. Fresh(reclassifier)' /\ Fresh(backfill)'
    BY <1>0, <1>9, <2>1 DEF BackfillWrite, SettledInv, Fresh, Evidence, TypeOK, Known
  <2> QED BY <1>9, <2>1, <2>2 DEF BackfillWrite, SettledInv
<1>10. CASE ReclassifyList \/ BackfillList
  BY <1>0, <1>5, <1>10 DEF ReclassifyList, BackfillList
<1>11. CASE ReclassifyFails \/ BackfillFails \/ RdnsFails \/ RdnsLoad \/ RdnsDone
  BY <1>0, <1>5, <1>11
     DEF ReclassifyFails, BackfillFails, RdnsFails, RdnsLoad, RdnsDone
<1>12. ASSUME NEW v \in 1..MaxVersion, Restart(v) PROVE SettledInv'
  BY <1>0, <1>5, <1>12 DEF Restart
<1>13. CASE UNCHANGED vars
  BY <1>5, <1>13 DEF vars
<1> QED BY <1>2, <1>3, <1>4, <1>6, <1>7, <1>8, <1>9, <1>10, <1>11, <1>12, <1>13
        DEF Next, Rdns, Reclassify, Backfill

\* When nothing changes between what a pass reads and what it writes, a verdict
\* that nothing will revisit rests on everything known about the address.
THEOREM SettledVerdictsAreCurrent ==
    ASSUME ~Racing
    PROVE  Spec => []SettledIsCurrent
<1>1. SettledInv => SettledIsCurrent
  BY DEF SettledInv
<1>2. TypeOK /\ TypeOK' /\ SettledInv /\ [Next]_vars => SettledInv'
  BY SettledStep
<1> QED BY <1>1, <1>2, TypeInit, TypeStep, SettledInit, PTL DEF Spec

=============================================================================

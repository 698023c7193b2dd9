------------------------------- MODULE Verdicts -------------------------------
(***************************************************************************)
(* The class of an address and how it is kept current: the writers of      *)
(* ip_intel.visitor_class in src/queries/intel.py, and the background      *)
(* tasks that call them from src/main.py and src/enricher.py.              *)
(*                                                                         *)
(* A class is judged from what is known at one moment (the visits of the   *)
(* address and the evidence in its ip_intel row) and stored with a stamp:  *)
(* classified_at, and classified_visit_id for how far the visits had been  *)
(* seen.  Later visits and new evidence are meant to send the address back *)
(* to the classifier.                                                      *)
(*                                                                         *)
(* Granularity: sqlite3 opens a transaction at the first statement that    *)
(* writes.  What a task reads before that (the list of addresses and each  *)
(* address's evidence) is a step of its own; what it writes is one step at *)
(* its commit.  The contents of the evidence are a version number, and so  *)
(* is the classifier.  Deleting visits and rows is left to Retention.      *)
(***************************************************************************)
EXTENDS Integers, FiniteSets

CONSTANTS
    Ip,             \* addresses
    MaxVisit,       \* bound: visits ever committed
    MaxEvidence,    \* bound: changes of one address's evidence
    MaxVersion,     \* bound: values of CLASSIFIER_VERSION
    MaxFaults,      \* bound: failed passes and restarts
    Limit,          \* addresses per pass or round
    Racing,         \* may something change between a pass's reads and its write?
    NoRow           \* the address has no ip_intel row

\* What a verdict was derived from.
Seen == [visit : 0..MaxVisit, evidence : 0..MaxEvidence]
Nothing == [visit |-> 0, evidence |-> 0]

Row == [evidence : 0..MaxEvidence,    \* every column a lookup fills
        checked  : BOOLEAN,           \* rdns_checked_at IS NOT NULL
        label    : 0..MaxVersion,     \* visitor_class: the rules behind it, 0 = ''
        saw      : Seen,              \* history: what the label was derived from
        stamped  : BOOLEAN,           \* classified_at IS NOT NULL
        stamp    : 0..MaxVisit]       \* classified_visit_id

ASSUME VerdictsAssumption ==
    /\ MaxVisit \in Nat /\ MaxEvidence \in Nat /\ MaxFaults \in Nat
    /\ MaxVersion \in Nat \ {0} /\ Limit \in Nat \ {0}
    /\ Racing \in BOOLEAN
    /\ NoRow \notin Row

VARIABLES
    lastId,         \* AUTOINCREMENT counter of visits.id
    newest,         \* MAX(visits.id) of each address, 0 without visits
    row,            \* ip_intel
    stored,         \* processor_state: classifier_version, 0 when unset
    purged,         \* processor_state: rdns_unconfirmed_purged
    code,           \* CLASSIFIER_VERSION of the running service
    reclassifier,   \* _reclassify_task
    backfill,       \* _backfill_task
    rdns,           \* _rdns_backfill_task
    faults          \* how many faults happened so far

visitVars == <<lastId, newest>>
vars == <<lastId, newest, row, stored, purged, code, reclassifier, backfill,
          rdns, faults>>

NewRow == [evidence |-> 0, checked |-> FALSE, label |-> 0, saw |-> Nothing,
           stamped |-> FALSE, stamp |-> 0]

Known == {ip \in Ip : row[ip] # NoRow}

Idle == [pc |-> "idle", todo |-> {}, judged |-> {}, seen |-> [ip \in Ip |-> Nothing]]

-----------------------------------------------------------------------------
(* Reading and judging *)

\* The addresses reclassify_stale_ips() looks for.
Due == {ip \in Known : ~row[ip].stamped \/ newest[ip] > row[ip].stamp}

\* What classify_ip() would look at.
Evidence(ip, r) == [visit |-> newest[ip], evidence |-> r.evidence]

\* _SET_CLASS_SQL: the stamp is taken when the class is written.
SetClass(ip, r, seen) ==
    [r EXCEPT !.label = code, !.saw = seen, !.stamped = TRUE, !.stamp = newest[ip]]

\* LIMIT: up to Limit of them, all of them when they are fewer.
FirstOf(S) == {T \in SUBSET S : /\ T # {} /\ Cardinality(T) <= Limit
                                /\ T = S \/ Cardinality(T) = Limit}

\* Without Racing, nothing a pass reads changes before it writes.
MayChange ==
    Racing \/ (reclassifier.pc # "judge" /\ backfill.pc # "judge")

\* An empty database, or one a demo was seeded into: rows without a class.
Init ==
    /\ lastId = 0 /\ newest = [ip \in Ip |-> 0]
    /\ row \in [Ip -> {NoRow, NewRow}]
    /\ stored \in {0, 1} /\ purged = FALSE /\ code = 1
    /\ reclassifier = Idle /\ backfill = [Idle EXCEPT !.pc = "start"]
    /\ rdns = [pc |-> "purge", ips |-> {}]
    /\ faults = 0

-----------------------------------------------------------------------------
(* The tailer and the enrichment worker *)

Visit(ip) ==
    /\ MayChange /\ lastId < MaxVisit
    /\ lastId' = lastId + 1
    /\ newest' = [newest EXCEPT ![ip] = lastId + 1]
    /\ UNCHANGED <<row, stored, purged, code, reclassifier, backfill, rdns, faults>>

\* _persist_batch(): addresses that were answered gain evidence, those ip-api
\* rejects get at least a stub; every one is judged in the same transaction.
Persist(answered, failed) ==
    LET Old(ip) == IF row[ip] = NoRow THEN NewRow ELSE row[ip]
        New(ip) == IF ip \in answered THEN [Old(ip) EXCEPT !.evidence = @ + 1]
                                      ELSE Old(ip)
    IN  /\ MayChange
        /\ answered \cup failed # {} /\ answered \cap failed = {}
        /\ \A ip \in answered \cup failed : newest[ip] > 0 \/ row[ip] # NoRow
        /\ \A ip \in answered : Old(ip).evidence < MaxEvidence
        /\ row' = [ip \in Ip |-> IF ip \in answered \cup failed
                                   THEN SetClass(ip, New(ip), Evidence(ip, New(ip)))
                                   ELSE row[ip]]
        /\ UNCHANGED <<visitVars, stored, purged, code, reclassifier, backfill,
                       rdns, faults>>

-----------------------------------------------------------------------------
(* Reverse DNS of addresses enriched before it was looked up locally *)

\* purge_unconfirmed_reverse_dns(), once per database: the names Shodan may
\* have supplied are cleared and their check is reopened.
RdnsPurge(doubtful) ==
    /\ MayChange /\ rdns.pc = "purge"
    /\ doubtful \subseteq Known
    /\ purged => doubtful = {}
    /\ \A ip \in doubtful : row[ip].evidence < MaxEvidence
    /\ row' = [ip \in Ip |-> IF ip \in doubtful
                               THEN [row[ip] EXCEPT !.evidence = @ + 1, !.checked = FALSE]
                               ELSE row[ip]]
    /\ purged' = TRUE
    /\ rdns' = [rdns EXCEPT !.pc = "load"]
    /\ UNCHANGED <<visitVars, stored, code, reclassifier, backfill, faults>>

Unchecked == {ip \in Known : ~row[ip].checked}

\* get_ips_without_rdns(), and the lookups that follow.
RdnsLoad ==
    /\ rdns.pc = "load" /\ Unchecked # {}
    /\ \E S \in FirstOf(Unchecked) : rdns' = [pc |-> "store", ips |-> S]
    /\ UNCHANGED <<visitVars, row, stored, purged, code, reclassifier, backfill, faults>>

RdnsDone ==
    /\ rdns.pc = "load" /\ Unchecked = {}
    /\ rdns' = [rdns EXCEPT !.pc = "done"]
    /\ UNCHANGED <<visitVars, row, stored, purged, code, reclassifier, backfill, faults>>

\* Broken variants of Checked: the verdict keeps its stamp; an address
\* without a PTR record is not marked as looked up.
CheckedKeepingStamp(r, resolved) ==
    [r EXCEPT !.evidence = IF resolved THEN @ + 1 ELSE @, !.checked = TRUE]

CheckedIfResolved(r, resolved) ==
    IF resolved THEN [r EXCEPT !.evidence = @ + 1, !.checked = TRUE, !.stamped = FALSE]
                ELSE r

\* set_reverse_dns() for each of them, resolved or not.
Checked(r, resolved) ==
    [r EXCEPT !.evidence = IF resolved THEN @ + 1 ELSE @,
              !.checked = TRUE, !.stamped = FALSE]

RdnsStore(resolved) ==
    /\ MayChange /\ rdns.pc = "store"
    /\ resolved \subseteq rdns.ips
    /\ \A ip \in resolved : row[ip].evidence < MaxEvidence
    /\ row' = [ip \in Ip |-> IF ip \in rdns.ips THEN Checked(row[ip], ip \in resolved)
                                                ELSE row[ip]]
    /\ rdns' = [pc |-> "load", ips |-> {}]
    /\ UNCHANGED <<visitVars, stored, purged, code, reclassifier, backfill, faults>>

-----------------------------------------------------------------------------
(* The passes of the classifier *)

\* reclassify_stale_ips(): the list.
ReclassifyList ==
    /\ reclassifier.pc = "idle"
    /\ \E S \in FirstOf(Due) :
           reclassifier' = [Idle EXCEPT !.pc = "judge", !.todo = S]
    /\ UNCHANGED <<visitVars, row, stored, purged, code, backfill, rdns, faults>>

\* Broken variants of BackfillRows: after a change of the classifier only rows
\* without a class; every address, whether it has a row or not.
BackfillRowsMissing == {ip \in Known : row[ip].label = 0}
BackfillRowsEvery == IF stored # code THEN Ip ELSE {ip \in Known : row[ip].label = 0}

\* _backfill_sync(): every row after a change of the classifier, else those
\* without a class.
BackfillRows == IF stored # code THEN Known ELSE {ip \in Known : row[ip].label = 0}

BackfillList ==
    /\ backfill.pc = "start"
    /\ backfill' = [Idle EXCEPT !.pc = "judge", !.todo = BackfillRows]
    /\ UNCHANGED <<visitVars, row, stored, purged, code, reclassifier, rdns, faults>>

\* classify_ip() of one address: one query, outside any transaction.
Judged(pass, ip) ==
    [pass EXCEPT !.todo = @ \ {ip}, !.judged = @ \cup {ip},
                 !.seen[ip] = Evidence(ip, row[ip])]

ReclassifyJudge(ip) ==
    /\ reclassifier.pc = "judge" /\ ip \in reclassifier.todo
    /\ reclassifier' = Judged(reclassifier, ip)
    /\ UNCHANGED <<visitVars, row, stored, purged, code, backfill, rdns, faults>>

BackfillJudge(ip) ==
    /\ backfill.pc = "judge" /\ ip \in backfill.todo
    /\ backfill' = Judged(backfill, ip)
    /\ UNCHANGED <<visitVars, row, stored, purged, code, reclassifier, rdns, faults>>

\* Broken variant of Written: only verdicts that differ are stamped.
WrittenIfChanged(pass) ==
    [ip \in Ip |-> IF ip \in pass.judged /\ (\/ row[ip].saw # pass.seen[ip]
                                              \/ row[ip].label # code)
                     THEN SetClass(ip, row[ip], pass.seen[ip]) ELSE row[ip]]

\* executemany(_SET_CLASS_SQL): every row looked at is stamped.
Written(pass) ==
    [ip \in Ip |-> IF ip \in pass.judged THEN SetClass(ip, row[ip], pass.seen[ip])
                                         ELSE row[ip]]

ReclassifyWrite ==
    /\ reclassifier.pc = "judge" /\ reclassifier.todo = {}
    /\ row' = Written(reclassifier)
    /\ reclassifier' = Idle
    /\ UNCHANGED <<visitVars, stored, purged, code, backfill, rdns, faults>>

\* The verdicts and the new classifier_version commit together.
BackfillWrite ==
    /\ backfill.pc = "judge" /\ backfill.todo = {}
    /\ row' = Written(backfill)
    /\ stored' = code
    /\ backfill' = [Idle EXCEPT !.pc = "done"]
    /\ UNCHANGED <<visitVars, purged, code, reclassifier, rdns, faults>>

-----------------------------------------------------------------------------
(* Failures *)

Fault == faults < MaxFaults /\ faults' = faults + 1

\* "database is locked": the transaction is rolled back.  The reclassifier's
\* loop goes on; the backfills are over until the next start.
ReclassifyFails ==
    /\ Fault /\ reclassifier.pc = "judge"
    /\ reclassifier' = Idle
    /\ UNCHANGED <<visitVars, row, stored, purged, code, backfill, rdns>>

BackfillFails ==
    /\ Fault /\ backfill.pc = "judge"
    /\ backfill' = [Idle EXCEPT !.pc = "done"]
    /\ UNCHANGED <<visitVars, row, stored, purged, code, reclassifier, rdns>>

RdnsFails ==
    /\ Fault /\ rdns.pc \in {"purge", "load", "store"}
    /\ rdns' = [pc |-> "done", ips |-> {}]
    /\ UNCHANGED <<visitVars, row, stored, purged, code, reclassifier, backfill>>

\* The service ends at any moment and starts again, perhaps with a newer
\* classifier.
Restart(version) ==
    /\ Fault
    /\ version >= code
    /\ code' = version
    /\ reclassifier' = Idle
    /\ backfill' = [Idle EXCEPT !.pc = "start"]
    /\ rdns' = [pc |-> "purge", ips |-> {}]
    /\ UNCHANGED <<visitVars, row, stored, purged>>

-----------------------------------------------------------------------------

Reclassify == ReclassifyList \/ ReclassifyWrite \/ \E ip \in Ip : ReclassifyJudge(ip)
Backfill == BackfillList \/ BackfillWrite \/ \E ip \in Ip : BackfillJudge(ip)
Rdns == RdnsLoad \/ RdnsDone
        \/ \E S \in SUBSET Ip : RdnsPurge(S) \/ RdnsStore(S)

Next ==
    \/ \E ip \in Ip : Visit(ip)
    \/ \E answered, failed \in SUBSET Ip : Persist(answered, failed)
    \/ Rdns \/ Reclassify \/ Backfill
    \/ ReclassifyFails \/ BackfillFails \/ RdnsFails
    \/ \E v \in 1..MaxVersion : Restart(v)

\* The tasks run on the event loop and its threads until the service ends.
Fairness == WF_vars(Reclassify) /\ WF_vars(Backfill) /\ WF_vars(Rdns)

Spec == Init /\ [][Next]_vars
FairSpec == Spec /\ Fairness

-----------------------------------------------------------------------------
(* Properties *)

PassRec == [pc : {"idle", "start", "judge", "done"}, todo : SUBSET Ip,
            judged : SUBSET Ip, seen : [Ip -> Seen]]

\* Every variable keeps its type, and a pass works on rows that exist.
TypeOK ==
    /\ lastId \in 0..MaxVisit /\ newest \in [Ip -> 0..MaxVisit]
    /\ row \in [Ip -> Row \cup {NoRow}]
    /\ stored \in 0..MaxVersion /\ code \in 1..MaxVersion /\ purged \in BOOLEAN
    /\ reclassifier \in PassRec /\ backfill \in PassRec
    /\ reclassifier.todo \cup reclassifier.judged \subseteq Known
    /\ backfill.todo \cup backfill.judged \subseteq Known
    /\ rdns \in [pc : {"purge", "load", "store", "done"}, ips : SUBSET Ip]
    /\ rdns.ips \subseteq Known
    /\ faults \in 0..MaxFaults

\* Once the database says it was judged by the running classifier, every class
\* in it was (classifier_version, force_reclassify_all), through failures,
\* restarts and upgrades.
VersionHonest ==
    stored = code => \A ip \in Known : row[ip].label \in {0, code}

\* A verdict that nothing will revisit -- it is stamped, no visit is newer than
\* its stamp, and its PTR check is not open -- rests on what is known now.
SettledIsCurrent ==
    \A ip \in Known : row[ip].checked /\ ip \notin Due => row[ip].saw = Evidence(ip, row[ip])

\* The schema's comment on classified_visit_id (src/db.py): it is the newest
\* visit the class was derived from, so a verdict is never stamped with visits
\* it did not see.
StampIsHonest ==
    \A ip \in Known : row[ip].stamped => row[ip].stamp = row[ip].saw.visit

\* Every address that became due is judged in the end: a failed pass does not
\* stop the loop, and looked-at addresses leave the list.
DueGetJudged == <>[](Due = {})

\* The reverse DNS backfill ends: no address is looked up for ever.
LookupsEnd == <>[](rdns.pc = "done")

=============================================================================

-------------------------------- MODULE Upgrade --------------------------------
(***************************************************************************)
(* init_db() in src/db.py: what a start does to a database of an older     *)
(* version.  The service calls it when it starts and the retention pass    *)
(* every day, also the one an operator runs beside the service.            *)
(*                                                                         *)
(* Older versions kept what Shodan says in a comma-separated column per    *)
(* field; the columns are copied into child tables and dropped.  sqlite3   *)
(* opens a transaction at the first INSERT, the ALTERs that follow are     *)
(* part of it, and executescript() commits it; an ALTER with no INSERT     *)
(* before it commits at once.  The rows to copy are read by one SELECT     *)
(* that names all the columns, so once some of them are gone and some are  *)
(* not, no start gets past it.                                             *)
(***************************************************************************)
EXTENDS Integers, FiniteSets

CONSTANTS
    Process,        \* those that call init_db()
    Server,         \* the one that serves and enriches afterwards
    Address, Field, Value,
    Numeric,        \* the field whose values must be numbers
    Unreadable,     \* the values that are not
    Added,          \* columns later versions added
    MaxFaults,      \* bound: errors and kills
    MaxLookups,     \* bound: answers of Shodan
    None

Fact == Address \X Value
Legacy == UNION {[columns -> SUBSET Fact] : columns \in SUBSET Field}
Database == [legacy : Legacy, added : SUBSET Added, child : [Field -> SUBSET Fact]]

\* What the constants must be; MCService assumes it.
UpgradeAssumption ==
    /\ Server \in Process /\ Numeric \in Field /\ Unreadable \subseteq Value
    /\ MaxFaults \in Nat /\ MaxLookups \in Nat
    /\ None \notin [by : Process, db : Database]

VARIABLES
    disk,           \* the committed database: its legacy columns, child tables
                    \* and added columns
    txn,            \* the open transaction, and whose it is
    caller,         \* where each process is in init_db()
    known,          \* history: what Shodan last said of each address
    lookups, mishaps

vars == <<disk, txn, caller, known, lookups, mishaps>>

Off == [pc |-> "off", saw |-> {}, todo |-> {}]

\* What a value is worth in the child table of its field.
Readable(f, facts) == {x \in facts : f = Numeric => x[2] \notin Unreadable}

\* Older versions wrote the columns only, later ones the child tables as well for
\* each address they looked up.
Init ==
    /\ \E said \in [Field -> SUBSET Fact], again \in SUBSET Address :
         /\ known = [f \in Field |-> Readable(f, said[f])]
         /\ disk = [legacy |-> said, added |-> {},
                    child |-> [f \in Field |-> {x \in known[f] : x[1] \in again}]]
    /\ txn = None
    /\ caller = [p \in Process |-> Off]
    /\ lookups = 0 /\ mishaps = 0

Mine(p) == txn # None => txn.by = p
View(p) == IF txn # None THEN IF txn.by = p THEN txn.db ELSE disk ELSE disk

-----------------------------------------------------------------------------

Start(p) ==
    /\ caller[p].pc = "off"
    /\ caller' = [caller EXCEPT ![p].pc = "adding"]
    /\ UNCHANGED <<disk, txn, known, lookups, mishaps>>

\* _add_col_if_missing()
Missing(db) == Added \ db.added

\* One ALTER each, committed at once.
AddColumn(p) ==
    /\ caller[p].pc = "adding" /\ txn = None
    /\ \E c \in Missing(disk) : disk' = [disk EXCEPT !.added = @ \cup {c}]
    /\ UNCHANGED <<txn, caller, known, lookups, mishaps>>

\* Broken variant of Pending: rows in the ports table mean it was done before.
PendingIfEmpty(db) == IF db.child[Numeric] = {} THEN Address ELSE {}

\* The rows to copy: all of them, whatever the child tables hold.
Pending(db) == Address

\* Which legacy columns are left, and the cursor over their rows.
Look(p) ==
    /\ caller[p].pc = "adding" /\ Missing(disk) = {} /\ DOMAIN disk.legacy \in {{}, Field}
    /\ LET saw == DOMAIN disk.legacy
       IN  caller' = [caller EXCEPT ![p] =
                        [pc |-> IF saw = {} THEN "indexing" ELSE "copying", saw |-> saw,
                         todo |-> IF saw = {} THEN {} ELSE Pending(disk)]]
    /\ UNCHANGED <<disk, txn, known, lookups, mishaps>>

\* Another process finished in between: its rows and columns are not the ones this
\* one looked at.  A DROP of this one raises; rows it adds before that are undone.
Overtaken(p) == caller[p].saw \ DOMAIN View(p).legacy # {}

\* _backfill_chunk(): INSERT OR IGNORE of every value of a row.
Copy(p) ==
    /\ caller[p].pc = "copying" /\ ~ Overtaken(p)
    /\ \E a \in caller[p].todo :
         LET db == View(p)
             facts == [f \in Field |-> {x \in Readable(f, db.legacy[f]) : x[1] = a}]
         IN  /\ caller' = [caller EXCEPT ![p].todo = @ \ {a}]
             /\ IF \A f \in Field : facts[f] = {} THEN txn' = txn
                ELSE /\ Mine(p)
                     /\ txn' = [by |-> p,
                                db |-> [db EXCEPT !.child =
                                          [f \in Field |-> @[f] \cup facts[f]]]]
    /\ UNCHANGED <<disk, known, lookups, mishaps>>

\* ALTER TABLE ... DROP COLUMN.
Drop(p) ==
    /\ caller[p].pc = "copying" /\ caller[p].todo = {} /\ ~ Overtaken(p) /\ Mine(p)
    /\ \E f \in caller[p].saw :
         LET left == [View(p) EXCEPT !.legacy = [g \in DOMAIN @ \ {f} |-> @[g]]]
         IN  /\ IF txn = None THEN disk' = left /\ txn' = None
                ELSE disk' = disk /\ txn' = [txn EXCEPT !.db = left]
             /\ caller' = [caller EXCEPT ![p].saw = @ \ {f},
                                         ![p].pc = IF caller[p].saw = {f} THEN "indexing" ELSE @]
    /\ UNCHANGED <<known, lookups, mishaps>>

\* executescript(INDEXES): commits what is open.
Index(p) ==
    /\ caller[p].pc = "indexing" /\ Mine(p)
    /\ disk' = View(p) /\ txn' = None
    /\ caller' = [caller EXCEPT ![p].pc = IF p = Server THEN "serving" ELSE "off"]
    /\ UNCHANGED <<known, lookups, mishaps>>

\* An error: the connection is closed, what it had open is undone.  A kill does
\* the same.
Abort(p) ==
    /\ txn' = IF Mine(p) THEN None ELSE txn
    /\ caller' = [caller EXCEPT ![p] = Off]
    /\ UNCHANGED <<disk, known, lookups>>

LosesRace(p) == caller[p].pc = "copying" /\ Overtaken(p) /\ Abort(p) /\ UNCHANGED mishaps

\* The SELECT names a column that is gone: "no such column".
SelectFails(p) ==
    /\ caller[p].pc = "adding" /\ Missing(disk) = {} /\ DOMAIN disk.legacy \notin {{}, Field}
    /\ Abort(p) /\ UNCHANGED mishaps

\* The process is killed, or a statement fails for a reason of its own.
Fails(p) ==
    /\ caller[p].pc # "off" /\ mishaps < MaxFaults
    /\ Abort(p) /\ mishaps' = mishaps + 1

\* _sync_shodan_children(): Shodan answered, and the address has these values now.
ShodanAnswers(a) ==
    /\ caller[Server].pc = "serving" /\ txn = None /\ lookups < MaxLookups
    /\ \E values \in SUBSET (Value \ Unreadable) :
         LET said(old) == {x \in old : x[1] # a} \cup {<<a, v>> : v \in values}
         IN  /\ disk' = [disk EXCEPT !.child = [f \in Field |-> said(@[f])]]
             /\ known' = [f \in Field |-> said(known[f])]
    /\ lookups' = lookups + 1
    /\ UNCHANGED <<txn, caller, mishaps>>

\* A start of a process, statement by statement, which fails only where it must.
Steps(p) ==
    \/ Start(p) \/ AddColumn(p) \/ Look(p) \/ Copy(p) \/ Drop(p) \/ Index(p)
    \/ LosesRace(p) \/ SelectFails(p)

Next ==
    \/ \E p \in Process : Steps(p) \/ Fails(p)
    \/ \E a \in Address : ShodanAnswers(a)

\* A start goes on while it can, and a start that failed is tried again: the
\* container is restarted, the retention pass comes every day.
FairSpec == Init /\ [][Next]_vars /\ \A p \in Process : WF_vars(Steps(p))

-----------------------------------------------------------------------------

\* Nothing Shodan said is lost or comes back: it is in a child table or still in
\* its column at every moment a kill may leave behind, a database left with only some
\* of its columns has nothing more to copy, and once the service runs the child tables
\* hold just what was said (the comment on the backfill in init_db).
FactsSurvive ==
    /\ \A f \in Field :
         known[f] \subseteq disk.child[f] \cup
                            (IF f \in DOMAIN disk.legacy THEN disk.legacy[f] ELSE {})
    /\ DOMAIN disk.legacy # Field =>
         \A f \in DOMAIN disk.legacy : Readable(f, disk.legacy[f]) = {}
    /\ caller[Server].pc = "serving" => DOMAIN disk.legacy = {} /\ disk.child = known

\* An upgrade that was cut off is completed by a later start, and the service runs
\* (test_and_the_retry_completes_it; nothing is committed until everything is).
UpgradesFinish == <>[](caller[Server].pc = "serving")
===============================================================================

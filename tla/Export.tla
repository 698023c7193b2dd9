-------------------------------- MODULE Export --------------------------------
(***************************************************************************)
(* The export of visits, streamed a page at a time while the tailer, the   *)
(* archive and a restore change the table: /api/export in                  *)
(* src/routes/api.py, get_export_page() in src/queries/visits.py.          *)
(*                                                                         *)
(* Each page is one query on a connection of its own; between two pages    *)
(* anything may happen.  A row is its timestamp and its id.                *)
(***************************************************************************)
EXTENDS Integers, FiniteSets, Sequences

CONSTANTS
    MaxId,          \* bound: ids handed out by AUTOINCREMENT
    Moment,         \* timestamps, as numbers
    Span,           \* moments in a day
    PageSize,       \* limit of get_export_page()
    None            \* no bound of the range, no page yet

Row == [at : Moment, id : 1..MaxId]

\* What the constants must be; MCService assumes it.
ExportAssumption ==
    /\ MaxId \in Nat /\ Moment \subseteq Nat /\ Span \in Nat \ {0}
    /\ PageSize \in Nat \ {0}
    /\ None \notin Nat /\ None \notin Row

VARIABLES
    visits,
    gone,           \* rows an archive took, which a restore brings back
    lastId,
    export,         \* the generator, and what it has sent
    stay            \* history: rows there ever since the export began

vars == <<visits, gone, lastId, export, stay>>

Resting == [pc |-> "idle"]

Init ==
    /\ visits = {} /\ gone = {} /\ lastId = 0
    /\ export = Resting /\ stay = {}

-----------------------------------------------------------------------------
(* The table *)

Insert(at) ==
    /\ lastId < MaxId
    /\ lastId' = lastId + 1
    /\ visits' = visits \cup {[at |-> at, id |-> lastId + 1]}
    /\ UNCHANGED <<gone, export, stay>>

Archive(r) ==
    /\ r \in visits
    /\ visits' = visits \ {r} /\ gone' = gone \cup {r}
    /\ stay' = stay \ {r}
    /\ UNCHANGED <<lastId, export>>

Restore(r) ==
    /\ r \in gone
    /\ visits' = visits \cup {r} /\ gone' = gone \ {r}
    /\ UNCHANGED <<lastId, export, stay>>

-----------------------------------------------------------------------------
(* The pages *)

\* The order of rows: timestamp, then id.
Before(r, s) == r.at < s.at \/ (r.at = s.at /\ r.id < s.id)

\* The end of the range is a whole day.
InRange(r, from, to) ==
    /\ from # None => r.at >= from
    /\ to # None => r.at < ((to \div Span) + 1) * Span

\* Broken variant of Rest: equal timestamps are not told apart.
RestByTime == {r \in visits : /\ InRange(r, export.from, export.to)
                              /\ export.after # None => r.at < export.after.at}

\* What lies after the last row sent.
Rest == {r \in visits : /\ InRange(r, export.from, export.to)
                        /\ export.after # None => Before(r, export.after)}

\* ORDER BY timestamp DESC, id DESC LIMIT: the newest rows of the rest.
GetExportPage ==
    LET size == IF Cardinality(Rest) < PageSize THEN Cardinality(Rest) ELSE PageSize
    IN  CHOOSE page \in [1..size -> Rest] :
          \A i \in 1..size :
            {r \in Rest : Before(page[i], r)} = {page[j] : j \in 1..i - 1}

Start(from, to) ==
    /\ export.pc = "idle"
    /\ export' = [pc |-> "page", from |-> from, to |-> to, after |-> None, out |-> <<>>]
    /\ stay' = visits
    /\ UNCHANGED <<visits, gone, lastId>>

\* An empty page ends the export.
Page ==
    /\ export.pc = "page"
    /\ export' = LET page == GetExportPage
                 IN  IF page = <<>> THEN [export EXCEPT !.pc = "done"]
                     ELSE [export EXCEPT !.out = @ \o page, !.after = page[Len(page)]]
    /\ UNCHANGED <<visits, gone, lastId, stay>>

\* The download ended, or the client went away.
Close ==
    /\ export.pc # "idle"
    /\ export' = Resting /\ stay' = {}
    /\ UNCHANGED <<visits, gone, lastId>>

Next ==
    \/ \E at \in Moment : Insert(at)
    \/ \E r \in Row : Archive(r) \/ Restore(r)
    \/ \E from, to \in Moment \cup {None} : Start(from, to)
    \/ Page \/ Close

Spec == Init /\ [][Next]_vars

-----------------------------------------------------------------------------
(* Properties *)

\* Types.
TypeOK ==
    /\ visits \subseteq Row /\ gone \subseteq Row /\ lastId \in 0..MaxId
    /\ export.pc \in {"idle", "page", "done"}
    /\ stay \subseteq visits

\* "No row is repeated or skipped at a page boundary" (get_export_page), also
\* while rows arrive, leave and come back: a finished export holds no row
\* twice, nothing outside its range, and every row of the range that was there
\* all the time.
ExportIsExact ==
    export.pc = "done" =>
        LET rows == {export.out[i] : i \in DOMAIN export.out}
        IN  /\ Cardinality(rows) = Len(export.out)
            /\ \A r \in rows : InRange(r, export.from, export.to)
            /\ \A r \in stay : InRange(r, export.from, export.to) => r \in rows
===============================================================================

-------------------------------- MODULE Rows --------------------------------
(***************************************************************************)
(* The stored relation every page of the dashboard reads, and the          *)
(* conditions the query layer narrows it by (src/queries/_shared.py).      *)
(*                                                                         *)
(* `visits` is the visits table, one record per request; `intel` is        *)
(* ip_intel with its Shodan tags, a function whose domain is the addresses *)
(* enriched so far.  SQL's LEFT JOIN reads NULL for an address outside     *)
(* that domain.  Timestamps are whole units, Hours of them to a day; Form  *)
(* says of each request path which page it asks for, how it reads once     *)
(* decoded, and whether it carries a query; a class is a group and a       *)
(* subclass.                                                               *)
(***************************************************************************)
EXTENDS Integers, FiniteSets, Sequences, FiniteSetsExt, Functions, TLC

CONSTANTS Hours,       \* units of time in a day
          Form,        \* path -> [page, decoded, query]
          Convention,  \* paths of the convention list (robots.txt and the like)
          Pseudo,      \* what the log processor writes for a line that is not HTTP
          MaxVisits    \* how many requests are recorded

RowsAssumption ==
  /\ Hours \in Nat \ {0}
  /\ MaxVisits \in Nat \ {0}
  /\ Convention \union Pseudo \subseteq DOMAIN Form

VARIABLES visits, intel

rowVars == <<visits, intel>>

None == -1   \* a bound or a number that was not given

Groups == {"humans", "bots", "automated", "threats"}
GroupsWithUnknown == Groups \union {"unknown"}

\* Signals that are a column of ip_intel; has_tags and clean are derived.
CleanColumns == {"is_tor", "is_proxy", "is_hosting", "dnsbl_listed"}
Signals == CleanColumns \union {"is_mobile", "has_tags", "clean"}

Class(group, sub) == [group |-> group, sub |-> sub]
Unlabelled == {Class("unknown", ""), Class("", "")}

\* What the LEFT JOIN yields for an address that has no intel row.
Absent == [class |-> Class("", ""), country |-> "", asn |-> "",
           flags |-> {}, tags |-> {}, vulns |-> {}, located |-> FALSE]

Enriched(ip) == ip \in DOMAIN intel
Intel(ip) == IF Enriched(ip) THEN intel[ip] ELSE Absent

Least(S) == CHOOSE x \in S : \A y \in S : x <= y
Greatest(S) == CHOOSE x \in S : \A y \in S : x >= y
Sum(f) == MapThenSumSet(LAMBDA x : f[x], DOMAIN f)
Addresses(rows) == {v.ip : v \in rows}
OfAddress(rows, ip) == {v \in rows : v.ip = ip}

-----------------------------------------------------------------------------
(***************************************************************************)
(* Conditions.  A bound is a moment: a date is the moment it begins, and   *)
(* the upper bound always covers the whole of its day.                     *)
(***************************************************************************)
InWindow(at, since, until) ==
  /\ since # None => at >= since
  /\ until # None => at < (until \div Hours + 1) * Hours

Within(rows, since, until) == {v \in rows : InWindow(v.at, since, until)}

\* A figure counted off ip_intel is scoped by "this address was here".
SeenInWindow(ip, since, until) ==
  (since # None \/ until # None) =>
    \E v \in visits : v.ip = ip /\ InWindow(v.at, since, until)

\* The implicit group folds every unlabelled row.
GroupMatch(group, class) ==
  IF group = "unknown" THEN class \in Unlabelled ELSE class.group = group

GroupOf(class) == IF class.group \in Groups THEN class.group ELSE "unknown"

Bands == {"2xx", "3xx", "4xx", "5xx"}

\* The band above 5xx is open-ended; an informational status is in no band.
StatusBand(status) ==
  CASE status \in 200..299 -> "2xx"
    [] status \in 300..399 -> "3xx"
    [] status \in 400..499 -> "4xx"
    [] status >= 500       -> "5xx"
    [] OTHER               -> "none"

\* Broken variant of NoSignals: the intel row need not exist.
NoSignalsOrUnknown(ip) ==
  /\ Intel(ip).flags \cap CleanColumns = {}
  /\ Intel(ip).tags = {}

\* Clean: enriched, and nothing held against it.  An address without an intel
\* row is not clean, it is unknown.
NoSignals(ip) ==
  /\ Enriched(ip)
  /\ Intel(ip).flags \cap CleanColumns = {}
  /\ Intel(ip).tags = {}

SignalCondition(signal, ip) ==
  CASE signal = "clean"    -> NoSignals(ip)
    [] signal = "has_tags" -> Intel(ip).tags # {}
    [] OTHER               -> signal \in Intel(ip).flags

\* A value is a whole class, or a group (sub = ""), or `unknown`.
ClassFilter(wanted, ip) ==
  wanted # {} =>
    \E c \in wanted : IF c.sub = "" THEN GroupMatch(c.group, Intel(ip).class)
                                     ELSE Intel(ip).class = c

SignalFilter(wanted, ip) ==
  wanted # {} => \E s \in wanted : SignalCondition(s, ip)

\* New: nothing of the address exists before the window.  Without a lower
\* bound there is nothing to be new relative to, and the filter does nothing.
SeenFilter(ip, seen, since) ==
  (seen = "new" /\ since # None) =>
    ~ \E v \in visits : v.ip = ip /\ v.at < since

\* One row-level narrowing is a column and the value it must have.
Column(v, name) ==
  CASE name = "port"    -> v.port
    [] name = "path"    -> v.path
    [] name = "browser" -> v.browser
    [] name = "os"      -> v.os
    [] name = "country" -> Intel(v.ip).country
    [] name = "asn"     -> Intel(v.ip).asn

DrillDown(v, drill) == \A d \in drill : Column(v, d.column) = d.value

-----------------------------------------------------------------------------
(***************************************************************************)
(* Search.  A term names a field and the value it must match; a bare word  *)
(* spans several columns.  The part that is constant per address and the   *)
(* part that varies per request are evaluated in different places.         *)
(***************************************************************************)
Term(field, value) == [field |-> field, value |-> value]

PerAddress(term, ip) ==
  CASE term.field = "class"   -> ClassFilter({Class(term.value, "")}, ip)
    [] term.field = "signal"  -> SignalCondition(term.value, ip)
    [] term.field = "tag"     -> term.value \in Intel(ip).tags
    [] term.field = "country" -> Intel(ip).country = term.value
    [] term.field = "broad"   -> term.value \in {Intel(ip).country, Intel(ip).asn}
    [] OTHER                  -> FALSE

PerVisit(term, v) ==
  CASE term.field = "path"   -> v.path = term.value
    [] term.field = "status" -> StatusBand(v.status) = term.value
    [] term.field = "broad"  -> term.value \in {v.path, v.browser, v.os}
    [] OTHER                 -> FALSE

\* The visitor list selects visitors: a per-request term keeps every row of an
\* address that has one matching request in the window.
VisitorSearch(terms, v, since, until) ==
  \A t \in terms :
     \/ PerAddress(t, v.ip)
     \/ \E w \in Within(visits, since, until) : w.ip = v.ip /\ PerVisit(t, w)

\* The aggregations filter the rows themselves; a bare word spans the table's
\* own columns.
InlineSearch(terms, v, columns) ==
  \A t \in terms :
     IF t.field = "broad" THEN \E c \in columns : Column(v, c) = t.value
                          ELSE PerAddress(t, v.ip) \/ PerVisit(t, v)

\* Addresses that clear the bar under the chain `rows` was selected by.
MinVisits(rows, least) ==
  {v \in rows : least > 0 => Cardinality(OfAddress(rows, v.ip)) >= least}

-----------------------------------------------------------------------------
(***************************************************************************)
(* The rows arrive in the order of the log; an address is enriched, or     *)
(* judged again, at any moment after its first request.                    *)
(***************************************************************************)
Row(id, ip, at, request) ==
  [column \in {"id", "ip", "at"} \union DOMAIN request |->
     IF column = "id" THEN id ELSE IF column = "ip" THEN ip ELSE IF column = "at" THEN at
     ELSE request[column]]

Record(ip, at, request) ==
  /\ Cardinality(visits) < MaxVisits
  /\ \A v \in visits : v.at <= at
  /\ visits' = visits \union {Row(Cardinality(visits) + 1, ip, at, request)}
  /\ UNCHANGED intel

Learn(ip, fact) ==
  /\ ip \in Addresses(visits)
  /\ Intel(ip) # fact
  /\ intel' = [i \in DOMAIN intel \union {ip} |-> IF i = ip THEN fact ELSE intel[i]]
  /\ UNCHANGED visits
=============================================================================

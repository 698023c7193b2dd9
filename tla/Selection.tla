------------------------------ MODULE Selection ------------------------------
(***************************************************************************)
(* One selection, many figures: the visitors page, its three views, its    *)
(* chips, the grouping tables with their drawer, the Overview's tiles and  *)
(* findings, the matrix, the exposure facets and the feed of decisions.    *)
(*                                                                         *)
(* Each figure is a query of its own that repeats the chain of conditions, *)
(* so each is written out here on its own; what they owe each other is     *)
(* stated at the end.  A filter record f is what the page's address says:  *)
(* the window [since, until], classes, signals, seen ("total", "new" or    *)
(* "both"), min, ip, drill (pairs of a column and a value) and terms.      *)
(***************************************************************************)
EXTENDS Rows

CONSTANTS Filters,         \* the filter records a page is asked with
          HourSwitchDays,  \* below this span the charts work in hours
          MaxBuckets,      \* ceiling on the buckets a chart is given
          NetworkOf,       \* the /24 or /64 of each address, "" if it has none
          MajorityOf       \* fewest peers a neighbourhood is summed up from

\* What an address of the page can say (routes/visitors.py).
Moment == Nat \union {None}
Filter ==
  [since : Moment, until : Moment, classes : SUBSET [group : STRING, sub : STRING],
   signals : SUBSET Signals, seen : {"total", "new", "both"}, min : Nat, ip : Int,
   drill : SUBSET [column : STRING, value : STRING],
   terms : SUBSET [field : STRING, value : STRING]]

SelectionAssumption ==
  /\ HourSwitchDays \in Nat /\ MajorityOf \in Nat
  /\ MaxBuckets \in Nat \ {0}
  /\ Filters \subseteq Filter

Day(at) == at \div Hours
Drilled(f, drill) == [f EXCEPT !.drill = @ \union drill]
Only(column, value) == {[column |-> column, value |-> value]}

Requests(rows) == Cardinality(rows)
Distinct(rows) == Cardinality(Addresses(rows))

-----------------------------------------------------------------------------
(* The table of visitors and its pager (queries/visitors.py) *)

VisitorRows(f) ==
  {v \in Within(visits, f.since, f.until) :
     /\ f.ip # None => v.ip = f.ip
     /\ DrillDown(v, f.drill)
     /\ VisitorSearch(f.terms, v, f.since, f.until)
     /\ ClassFilter(f.classes, v.ip)
     /\ SignalFilter(f.signals, v.ip)
     /\ SeenFilter(v.ip, f.seen, f.since)}

\* GROUP BY v.ip HAVING COUNT(v.id) >= min.
VisitorList(f) ==
  LET row(ip, own) == [ip |-> ip, visits |-> Cardinality(own),
                       last |-> Greatest({v.at : v \in own})]
      grouped(rows) == {row(ip, OfAddress(rows, ip)) : ip \in Addresses(rows)}
  IN  {r \in grouped(VisitorRows(f)) : f.min > 0 => r.visits >= f.min}

VisitorCount(f) ==
  LET rows == {v \in Within(visits, f.since, f.until) :
                 /\ f.ip # None => v.ip = f.ip
                 /\ DrillDown(v, f.drill)
                 /\ VisitorSearch(f.terms, v, f.since, f.until)
                 /\ ClassFilter(f.classes, v.ip)
                 /\ SignalFilter(f.signals, v.ip)
                 /\ SeenFilter(v.ip, f.seen, f.since)}
  IN  Distinct(MinVisits(rows, f.min))

Listed(f) == {r.ip : r \in VisitorList(f)}
ListedVisits(f) == MapThenSumSet(LAMBDA r : r.visits, VisitorList(f))

-----------------------------------------------------------------------------
(* The counts on the class chips (queries/stats.py) *)

\* Broken variant of ChipRows: the bar is not cleared.
ChipRowsBelowTheBar(f) ==
  {v \in Within(visits, f.since, f.until) :
     /\ SignalFilter(f.signals, v.ip)
     /\ VisitorSearch(f.terms, v, f.since, f.until)
     /\ SeenFilter(v.ip, f.seen, f.since)
     /\ f.ip # None => v.ip = f.ip
     /\ DrillDown(v, f.drill)}

\* Every filter but the class, which is what the chips choose.
ChipRows(f) ==
  MinVisits({v \in Within(visits, f.since, f.until) :
               /\ SignalFilter(f.signals, v.ip)
               /\ VisitorSearch(f.terms, v, f.since, f.until)
               /\ SeenFilter(v.ip, f.seen, f.since)
               /\ f.ip # None => v.ip = f.ip
               /\ DrillDown(v, f.drill)}, f.min)

Label(class) == IF class.group = "" THEN "unknown" ELSE class.group

\* GROUP BY visitor_class.
ClassChips(f) ==
  LET counted(addresses) ==
        [c \in {Intel(ip).class : ip \in addresses} |->
           Cardinality({ip \in addresses : Intel(ip).class = c})]
  IN  counted(Addresses(ChipRows(f)))

\* A class is part of its group's chip, and an unlabelled one of `unknown`.
GroupChips(chips) ==
  [g \in {Label(c) : c \in DOMAIN chips} |->
     MapThenSumSet(LAMBDA c : chips[c], {c \in DOMAIN chips : Label(c) = g})]

AllChip(chips) == Sum(GroupChips(chips))

-----------------------------------------------------------------------------
(* The timeline and the heatmap (queries/analysis.py, routes/_charts.py) *)

TimelineRows(f) ==
  MinVisits({v \in Within(visits, f.since, f.until) :
               /\ ClassFilter(f.classes, v.ip)
               /\ SignalFilter(f.signals, v.ip)
               /\ VisitorSearch(f.terms, v, f.since, f.until)
               /\ SeenFilter(v.ip, f.seen, f.since)
               /\ f.ip # None => v.ip = f.ip
               /\ DrillDown(v, f.drill)}, f.min)

\* The silent buckets come back as zeros, from the window's own bounds where it
\* has them; a result without a row stays empty.
FillGaps(keys, bucket, since, until) ==
  LET opens(day) == IF bucket = "hour" THEN day * Hours ELSE day
      closes(day) == IF bucket = "hour" THEN day * Hours + Hours - 1 ELSE day
      start == Least(keys \union (IF since # None THEN {opens(Day(since))} ELSE {}))
      end == Greatest(keys \union (IF until # None THEN {closes(Day(until))} ELSE {}))
  IN  IF keys = {} THEN {} ELSE {k \in start .. end : k - start < MaxBuckets}

Bucket(v, bucket) == IF bucket = "hour" THEN v.at ELSE Day(v.at)

\* What a timeline counts of the rows of a bucket.
Measured(measure, rows) == IF measure = "requests" THEN Requests(rows) ELSE Distinct(rows)

Bucketed(rows, f, bucket, measure) ==
  LET in(k) == {v \in rows : Bucket(v, bucket) = k}
      of(k, g) == {v \in in(k) : GroupMatch(g, Intel(v.ip).class)}
      keys == {Bucket(v, bucket) : v \in rows}
  IN  [k \in FillGaps(keys, bucket, f.since, f.until) |->
         [total |-> Measured(measure, in(k)),
          group |-> [g \in GroupsWithUnknown |-> Measured(measure, of(k, g))]]]

\* One bucketed timeline; the measure decides what is counted and nothing else.
Timeline(f, bucket, measure) == Bucketed(TimelineRows(f), f, bucket, measure)

\* Short windows are drawn in hours, open-ended ones in days.
PickBucket(since, until) ==
  IF since = None \/ until = None THEN "day"
  ELSE LET span == Day(until) - Day(since)
       IN  IF span <= HourSwitchDays /\ -span <= HourSwitchDays THEN "hour" ELSE "day"

\* All + New: two passes of one query, the second under New; a bucket the
\* second pass lacks reads zero.
OverlayNew(all, new) ==
  [k \in DOMAIN all |-> [total |-> all[k].total,
                         total_new |-> IF k \in DOMAIN new THEN new[k].total ELSE 0]]

HeatmapRows(f) ==
  MinVisits({v \in Within(visits, f.since, f.until) :
               /\ ClassFilter(f.classes, v.ip)
               /\ SignalFilter(f.signals, v.ip)
               /\ VisitorSearch(f.terms, v, f.since, f.until)
               /\ SeenFilter(v.ip, f.seen, f.since)
               /\ f.ip # None => v.ip = f.ip
               /\ DrillDown(v, f.drill)}, f.min)

Cell(v) == [dow |-> Day(v.at) % 7, hr |-> v.at % Hours]

Heatmap(f) ==
  LET cells(rows) ==
        [c \in {Cell(v) : v \in rows} |-> Cardinality({v \in rows : Cell(v) = c})]
  IN  cells(HeatmapRows(f))

\* The weekdays the window covers: a row outside them is marked as no
\* calendar, not as no traffic.
WeekdaysIn(since, until) ==
  IF since = None \/ until = None THEN 0 .. 6
  ELSE LET span == Day(until) - Day(since)
       IN  IF span < 0 \/ span >= 6 THEN 0 .. 6
           ELSE {(Day(since) + n) % 7 : n \in 0 .. span}

-----------------------------------------------------------------------------
(* The map (queries/analysis.py): it takes no row-level narrowing but the
   country, and the route drops the others before it asks. *)

MapFilter(f) ==
  [f EXCEPT !.ip = None, !.drill = {d \in @ : d.column = "country"}]

Markers(f) ==
  LET shown(ip) ==
        {v \in Within(visits, f.since, f.until) :
           /\ v.ip = ip
           /\ SeenFilter(ip, f.seen, f.since)
           /\ VisitorSearch(f.terms, v, f.since, f.until)}
  IN  {ip \in DOMAIN intel :
         /\ intel[ip].located
         /\ ClassFilter(f.classes, ip)
         /\ SignalFilter(f.signals, ip)
         /\ \A d \in f.drill : d.column = "country" => intel[ip].country = d.value
         /\ shown(ip) # {}
         /\ f.min > 0 => Cardinality(shown(ip)) >= f.min}

\* What the header and the legend count over the markers.
GeoStats(marked) ==
  [total_ips |-> Cardinality(marked),
   clean |-> Cardinality({ip \in marked : /\ intel[ip].flags \cap CleanColumns = {}
                                          /\ intel[ip].tags = {}}),
   group |-> [g \in GroupsWithUnknown |->
                Cardinality({ip \in marked : Label(intel[ip].class) = g})]]

-----------------------------------------------------------------------------
(* The grouping tables and their drawer (queries/aggregations.py,
   routes/visitors.py) *)

Tables == {"networks", "countries", "clients", "paths"}

\* The columns a table groups by and its bare word spans; a client's third column,
\* the device, is one more like the system.
KeyColumns(table) ==
  CASE table = "networks"  -> {"asn"}
    [] table = "countries" -> {"country"}
    [] table = "clients"   -> {"browser", "os"}
    [] table = "paths"     -> {"path"}

Key(table, v) == [c \in KeyColumns(table) |-> Column(v, c)]

\* The one column the link under a row carries.
DrillColumn(table) ==
  CASE table = "networks"  -> "asn"
    [] table = "countries" -> "country"
    [] table = "clients"   -> "browser"
    [] table = "paths"     -> "path"

\* status is the band of the Paths table's own filter, "" elsewhere.
AggRows(table, f, status) ==
  {v \in Within(visits, f.since, f.until) :
     /\ \E c \in KeyColumns(table) : Column(v, c) # ""
     /\ InlineSearch(f.terms, v, KeyColumns(table))
     /\ status # "" => StatusBand(v.status) = status
     /\ ClassFilter(f.classes, v.ip)
     /\ SignalFilter(f.signals, v.ip)
     /\ SeenFilter(v.ip, f.seen, f.since)}

\* The columns every table shares: distinct addresses, in all, by group and by
\* signal, and the requests.
Breakdown(rows) ==
  [unique_ips |-> Distinct(rows),
   visits |-> Requests(rows),
   group |-> [g \in GroupsWithUnknown |->
                Distinct({v \in rows : GroupMatch(g, Intel(v.ip).class)})],
   signal |-> [s \in Signals |-> Distinct({v \in rows : SignalCondition(s, v.ip)})]]

AggTable(table, f, status) ==
  LET grouped(rows) ==
        [k \in {Key(table, v) : v \in rows} |-> Breakdown({v \in rows : Key(table, v) = k})]
  IN  grouped(AggRows(table, f, status))

AggCount(table, f, status) ==
  Cardinality({Key(table, v) : v \in AggRows(table, f, status)})

\* The drawer under a row: the visitor list with the row's value in the column of the
\* link, no bar and no other drill-down.  A row without that value opens none.
HasDrawer(table, k) == k[DrillColumn(table)] # ""
DrawerFilter(table, k, f) ==
  [f EXCEPT !.drill = Only(DrillColumn(table), k[DrillColumn(table)]), !.ip = None, !.min = 0]
Drawer(table, k, f) == VisitorCount(DrawerFilter(table, k, f))

\* The enriched addresses beside one: its network, and its operator.
Scopes == {"network", "asn"}
NameOf(ip, scope) == IF scope = "network" THEN NetworkOf[ip] ELSE Intel(ip).asn
Peers(ip, scope) == {p \in DOMAIN intel \ {ip} : NameOf(p, scope) = NameOf(ip, scope)}
Neighbourhood(ip, scope) == Breakdown({v \in visits : v.ip \in Peers(ip, scope)})

\* A scope without a name or without a peer is left out.
ShownScopes(ip) ==
  {scope \in Scopes : NameOf(ip, scope) # "" /\ Neighbourhood(ip, scope).unique_ips > 0}

\* The group a majority of the peers belongs to, or "".
DominantGroup(b) ==
  LET largest == CHOOSE g \in GroupsWithUnknown :
                   \A h \in GroupsWithUnknown : b.group[g] >= b.group[h]
  IN  IF b.unique_ips >= MajorityOf /\ 2 * b.group[largest] > b.unique_ips
        THEN largest ELSE ""

-----------------------------------------------------------------------------
(* The page itself (routes/visitors.py _load): which queries a view asks, and
   with what. *)

\* The comparison draws All and New from two passes of one query; every other
\* choice is one pass.
Series(f, measure) ==
  LET query(seen) == Timeline([f EXCEPT !.seen = seen], PickBucket(f.since, f.until), measure)
  IN  IF f.seen = "both" THEN OverlayNew(query("both"), query("new")) ELSE query(f.seen)

Totals(series) == MapThenSumSet(LAMBDA k : series[k].total, DOMAIN series)

\* An empty map says how many addresses the same selection has without a place.
MapPage(f) ==
  LET page(m, marked) ==
        [rows |-> marked, total |-> Cardinality(marked), geo |-> GeoStats(marked),
         unmapped |-> IF marked = {} THEN VisitorCount(m) ELSE 0]
  IN  page(MapFilter(f), Markers(MapFilter(f)))

TimelinePage(f) ==
  LET page(activity) ==
        [activity |-> activity, addresses |-> Series(f, "addresses"),
         heatmap |-> Heatmap(f), total |-> Totals(activity)]
  IN  page(Series(f, "requests"))

AddressesPage(f) == [rows |-> VisitorList(f), total |-> VisitorCount(f)]

\* Only the Paths table can be narrowed to a status band, and no grouping to a
\* row-level narrowing.
GroupingPage(table, f, status) ==
  LET page(band) == [rows |-> AggTable(table, f, band), total |-> AggCount(table, f, band)]
  IN  page(IF table = "paths" THEN status ELSE "")

-----------------------------------------------------------------------------
(* The Overview, the analysis page and the exposure page
   (queries/stats.py, queries/analysis.py, queries/decisions.py) *)

\* Tiles, and the classes of the enriched addresses seen in the window.
Stats(since, until) ==
  LET rows == Within(visits, since, until)
      known == {ip \in DOMAIN intel : SeenInWindow(ip, since, until)}
  IN  [total_visits |-> Requests(rows),
       unique_ips |-> Distinct(rows),
       errors |-> Cardinality({v \in rows : v.status >= 400}),
       countries |-> Cardinality({intel[ip].country : ip \in known} \ {""}),
       breakdown |-> [g \in GroupsWithUnknown |->
                        Cardinality({ip \in known : GroupOf(intel[ip].class) = g})]]

\* Requests and errors per day, and the status bands per day; a silent day has
\* no row.
DailyKPIs(since, until) ==
  LET rows == Within(visits, since, until)
      of(day) == {v \in rows : Day(v.at) = day}
  IN  [day \in {Day(v.at) : v \in rows} |->
         [visits |-> Cardinality(of(day)),
          errors |-> Cardinality({v \in of(day) : v.status >= 400})]]

StatusTimeline(since, until) ==
  LET rows == Within(visits, since, until)
      of(day) == {v \in rows : Day(v.at) = day}
  IN  [day \in {Day(v.at) : v \in rows} |->
         [band \in Bands |->
            Cardinality({v \in of(day) : StatusBand(v.status) = band})]]

\* One row per group, one column per signal, over the addresses seen.
Matrix(since, until, group, signal) ==
  Cardinality({ip \in DOMAIN intel :
                 /\ SeenInWindow(ip, since, until)
                 /\ GroupOf(intel[ip].class) = group
                 /\ SignalCondition(signal, ip)})

\* Hosts with anything in the Shodan tables, narrowed by a tag and a CVE, and
\* the facet that offers the tags of those hosts.
ShodanHosts(tag, vuln, since, until) ==
  {ip \in DOMAIN intel :
     /\ intel[ip].tags # {} \/ intel[ip].vulns # {}
     /\ SeenInWindow(ip, since, until)
     /\ tag # "" => tag \in intel[ip].tags
     /\ vuln # "" => vuln \in intel[ip].vulns}

TagFacet(value, tag, vuln, since, until) ==
  Cardinality({ip \in DOMAIN intel :
                 /\ value \in intel[ip].tags
                 /\ SeenInWindow(ip, since, until)
                 /\ tag # "" => tag \in intel[ip].tags
                 /\ vuln # "" => vuln \in intel[ip].vulns})

\* The feed: the addresses of the chosen classes, never the unlabelled ones.
Decisions(classes, since, until) ==
  LET matches(ip) ==
        \E c \in classes : \/ intel[ip].class = c
                           \/ c.sub = "" /\ intel[ip].class.group = c.group
      rows == {v \in Within(visits, since, until) : Enriched(v.ip) /\ matches(v.ip)}
  IN  {[ip |-> ip, requests |-> Cardinality(OfAddress(rows, ip)),
        probes |-> Cardinality({v \in OfAddress(rows, ip) :
                                  v.status = 404 /\ v.path \notin Convention})] :
         ip \in Addresses(rows)}

\* "New threats": threat addresses whose first request ever arrived today.
NewThreats(today) ==
  Cardinality({ip \in Addresses(visits) :
                 /\ Enriched(ip) /\ intel[ip].class.group = "threats"
                 /\ Least({v.at : v \in OfAddress(visits, ip)}) >= today})

\* "CVE": the one on the most visiting hosts.
TopVuln ==
  LET hosts(x) == Cardinality({ip \in DOMAIN intel : x \in intel[ip].vulns})
      vulns == UNION {intel[ip].vulns : ip \in DOMAIN intel}
      vuln == CHOOSE x \in vulns : \A y \in vulns : hosts(x) >= hosts(y)
  IN  [vuln |-> vuln, hosts |-> hosts(vuln)]

\* "Rate limit": how many events the hardest-throttled address has had since.
Throttled(since) ==
  LET events(ip) == Cardinality({v \in OfAddress(visits, ip) :
                                   v.limit \in {"DELAYED", "REJECTED"} /\ v.at >= since})
  IN  IF visits = {} THEN 0 ELSE Greatest({events(ip) : ip \in Addresses(visits)})

\* The chart of the same events, per day.
RateLimitTimeline(since, until) ==
  LET rows == {v \in Within(visits, since, until) : v.limit \in {"DELAYED", "REJECTED"}}
      of(day, what) == Cardinality({v \in rows : Day(v.at) = day /\ v.limit \in what})
  IN  [day \in {Day(v.at) : v \in rows} |->
         [total |-> of(day, {"DELAYED", "REJECTED"}),
          rejected |-> of(day, {"REJECTED"}), delayed |-> of(day, {"DELAYED"})]]

-----------------------------------------------------------------------------
(* What the figures owe each other *)

ListedUnder(f, classes) == VisitorCount([f EXCEPT !.classes = classes])

PagerAgrees(page) == page.total = Cardinality(page.rows)

\* A chip says what clicking it lists, and All what the others add up to.
ChipsAgree(f, classes) ==
  LET groups == GroupChips(classes)
  IN  /\ \A c \in DOMAIN classes \ Unlabelled : classes[c] = ListedUnder(f, {c})
      /\ \A g \in GroupsWithUnknown :
           ListedUnder(f, {Class(g, "")}) = IF g \in DOMAIN groups THEN groups[g] ELSE 0
      /\ AllChip(classes) = ListedUnder(f, {})

\* Every bucket is the sum of its groups.
GroupsAddUp(series) == \A k \in DOMAIN series : Sum(series[k].group) = series[k].total

\* The charts add up to the list, bucket by bucket and group by group.
ChartsAgree(f, page, listed) ==
  /\ page.total = MapThenSumSet(LAMBDA r : r.visits, listed)
  /\ f.seen # "both" => GroupsAddUp(page.activity) /\ GroupsAddUp(page.addresses)
  /\ DOMAIN page.addresses = DOMAIN page.activity
  /\ \A k \in DOMAIN page.addresses : page.addresses[k].total <= Cardinality(listed)
  /\ Sum(page.heatmap) = page.total
  /\ \A c \in DOMAIN page.heatmap : c.dow \in WeekdaysIn(f.since, f.until)

\* New nests inside All, and comparing the two does not change All.
NewNests(activity, compared) ==
  \A k \in DOMAIN compared : /\ compared[k].total_new <= compared[k].total
                             /\ compared[k].total = activity[k].total

\* The map shows the listed addresses that have a place, says how many have none
\* when it is empty, and its clean count is what the clean filter would leave.
MapAgrees(m, page, listed) ==
  LET placed(ips) == {ip \in ips : Intel(ip).located}
  IN  /\ page.rows = placed(listed)
      /\ page.total = 0 => page.unmapped = Cardinality(listed)
      /\ page.geo.total_ips = Sum(page.geo.group)
      /\ m.signals = {} =>
           page.geo.clean = Cardinality(placed(Listed([m EXCEPT !.signals = {"clean"}])))

\* Whatever a page is asked with, the table, its pager, the chips, the charts
\* and the map answer for the same selection (routes/visitors.py _load).
ViewsAgree ==
  \A f \in Filters : \A page \in {AddressesPage(f)}, charts \in {TimelinePage(f)} :
     /\ PagerAgrees(page)
     /\ ChipsAgree(f, ClassChips(f))
     /\ ChartsAgree(f, charts, page.rows)
     /\ f.seen = "total" =>
          NewNests(charts.activity, TimelinePage([f EXCEPT !.seen = "both"]).activity)
     /\ MapAgrees(MapFilter(f), MapPage(f), Listed(MapFilter(f)))

\* The filters a grouping table can be asked with and its drawer inherits whole.
Grouped(f) ==
  /\ f.drill = {} /\ f.ip = None /\ f.min = 0
  /\ \A t \in f.terms : t.field \notin {"path", "status", "broad"}

\* The rows of a table that open the same drawer as row k.
SameDrawer(table, rows, k) ==
  {l \in DOMAIN rows : l[DrillColumn(table)] = k[DrillColumn(table)]}

\* The drawer under a row of a grouping lists what the rows that open it count
\* together: their requests, every address one of them counts and none that none does.
\* Where the link carries the whole key that is the row itself; the clients of one
\* browser open one drawer.  The groups of a row partition its addresses.
RowsMatchTheirDrawer(f) ==
  \A table \in Tables : \A page \in {GroupingPage(table, f, "")} :
     /\ PagerAgrees([page EXCEPT !.rows = DOMAIN @])
     /\ \A k \in DOMAIN page.rows :
          LET together == SameDrawer(table, page.rows, k)
          IN  /\ HasDrawer(table, k) =>
                   /\ Sum([l \in together |-> page.rows[l].visits]) =
                        ListedVisits(DrawerFilter(table, k, f))
                   /\ page.rows[k].unique_ips <= Drawer(table, k, f)
                   /\ Drawer(table, k, f) <= Sum([l \in together |-> page.rows[l].unique_ips])
                   /\ table # "clients" => page.rows[k].unique_ips = Drawer(table, k, f)
              /\ Sum(page.rows[k].group) = page.rows[k].unique_ips

BandsPartition(f) ==
  LET requests(rows) == Sum([d \in DOMAIN rows |-> rows[d].visits])
      page(band) == GroupingPage("paths", f, band)
  IN  Sum([band \in Bands |-> requests(page(band).rows)]) = requests(page("").rows)

\* A cell of the matrix, a tile and an entry of the feed count what the list
\* they link to holds.
FiguresOfWindow(f) ==
  LET stats == Stats(f.since, f.until)
      days == DailyKPIs(f.since, f.until)
      bands == StatusTimeline(f.since, f.until)
      feed == Decisions({Class("threats", "")}, f.since, f.until)
      under(g, signals) == VisitorCount([f EXCEPT !.classes = {Class(g, "")},
                                                  !.signals = signals])
  IN  /\ stats.unique_ips = VisitorCount(f) /\ stats.total_visits = ListedVisits(f)
      /\ \A g \in Groups : stats.breakdown[g] = under(g, {})
      /\ \A g \in GroupsWithUnknown, s \in Signals :
           Matrix(f.since, f.until, g, s) = under(g, {s})
      /\ Sum([d \in DOMAIN days |-> days[d].visits]) = stats.total_visits
      /\ Sum([d \in DOMAIN days |-> days[d].errors]) = stats.errors
      /\ \A d \in DOMAIN days : days[d].errors = bands[d]["4xx"] + bands[d]["5xx"]
      /\ {[ip |-> a.ip, visits |-> a.requests] : a \in feed} =
         {[ip |-> r.ip, visits |-> r.visits] :
            r \in VisitorList([f EXCEPT !.classes = {Class("threats", "")}])}
      /\ \A ip \in DOMAIN intel :
           \A tag \in intel[ip].tags, vuln \in intel[ip].vulns \union {""} :
              TagFacet(tag, "", vuln, f.since, f.until) =
                Cardinality(ShodanHosts(tag, vuln, f.since, f.until))

\* The hosts behind the CVE finding: its link opens them under the window of the page
\* it leads to, so it may list fewer, never others; without a window it lists all.
VulnIsListed(f) ==
  (\E ip \in DOMAIN intel : intel[ip].vulns # {}) =>
    /\ TopVuln.hosts = Cardinality(ShodanHosts("", TopVuln.vuln, None, None))
    /\ TopVuln.hosts >= Cardinality(ShodanHosts("", TopVuln.vuln, f.since, f.until))

\* The findings of a day, which begins at f.since.  The link of New leads to the threats
\* of the window in force: one that begins no later lists all it counts and the older
\* ones as well, and New of that day is exactly what is counted.  An event of the rate
\* limit is on its chart.
FindingsMatch(f) ==
  LET threats == [f EXCEPT !.classes = {Class("threats", "")}, !.until = None]
  IN  /\ \A since \in {None} \union 0 .. f.since :
           NewThreats(f.since) <= VisitorCount([threats EXCEPT !.since = since])
      /\ NewThreats(f.since) = VisitorCount([threats EXCEPT !.seen = "new"])
      /\ Throttled(f.since) > 0 <=> DOMAIN RateLimitTimeline(f.since, None) # {}

\* An address is in one group, so at most one can hold a majority of the peers.
OneMajority(ip) ==
  \A scope \in ShownScopes(ip) : \A b \in {Neighbourhood(ip, scope)} :
    /\ Sum(b.group) = b.unique_ips
    /\ DominantGroup(b) # "" =>
         \A g \in GroupsWithUnknown \ {DominantGroup(b)} : 2 * b.group[g] < b.unique_ips

Plain(f) == f.classes = {} /\ f.signals = {} /\ f.seen = "total" /\ f.terms = {}

\* What a figure owes the list it opens: the rows of the groupings, the matrix, the
\* tiles, the feed, the facets and the findings.
FiguresMatchTheirList ==
  /\ \A f \in Filters : Grouped(f) => RowsMatchTheirDrawer(f) /\ BandsPartition(f)
  /\ \A f \in Filters :
       Grouped(f) /\ Plain(f) /\ {f.since, f.until} # {None} => FiguresOfWindow(f)
  /\ \A f \in Filters : Grouped(f) /\ Plain(f) => VulnIsListed(f)
  /\ \A f \in Filters : Grouped(f) /\ Plain(f) /\ f.since # None => FindingsMatch(f)
  /\ \A ip \in Addresses(visits) : OneMajority(ip)
=============================================================================

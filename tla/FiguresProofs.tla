---------------------------- MODULE FiguresProofs ----------------------------
(***************************************************************************)
(* The other pages, for every log and every value of the constants: a      *)
(* figure and the list it opens agree, a finding of the exposure page      *)
(* counts a file in all its spellings, and what a page calls unusual or    *)
(* typical is so against every slot of the span it names.                  *)
(***************************************************************************)
EXTENDS QueriesProofs


-----------------------------------------------------------------------------
(* The figures of the other pages and the lists they open *)

\* Without a bar every row stays.
LEMMA NoBar ==
    ASSUME NEW rows
    PROVE  MinVisits(rows, 0) = rows
<1>1. ~ (0 > 0)
  OBVIOUS
<1> QED BY <1>1, Zenon DEF MinVisits

\* No band of the Paths table's own filter.
NoBand == ""

\* The requests behind one row of a grouping, and those behind the rows that open one
\* drawer.
OfKey(table, rows, k) == {v \in rows : Key(table, v) = k}
Opened(table, f, d) == {v \in AggRows(table, f, "") : Column(v, DrillColumn(table)) = d}

\* The link's column is one of the key's, and but for clients the only one.
LEMMA KeyOfRow ==
    ASSUME NEW table \in Tables, NEW v
    PROVE  /\ DrillColumn(table) \in KeyColumns(table)
           /\ table # "clients" => KeyColumns(table) = {DrillColumn(table)}
           /\ DOMAIN Key(table, v) = KeyColumns(table)
           /\ \A c \in KeyColumns(table) : Key(table, v)[c] = Column(v, c)
           /\ Key(table, v)[DrillColumn(table)] = Column(v, DrillColumn(table))
<1>1. /\ DrillColumn(table) \in KeyColumns(table)
      /\ table # "clients" => KeyColumns(table) = {DrillColumn(table)}
  BY DEF DrillColumn, KeyColumns, Tables
<1>2. /\ DOMAIN Key(table, v) = KeyColumns(table)
      /\ \A c \in KeyColumns(table) : Key(table, v)[c] = Column(v, c)
  BY DEF Key
<1> QED BY <1>1, <1>2

\* A narrowing by the column of the link is none of the filters the table drops.
LEMMA DrawerKeeps ==
    ASSUME NEW f, Grouped(f), NEW table \in Tables, NEW d, d # "",
           NEW g, g.since = f.since, g.until = f.until, g.ip = None, g.min = 0,
           g.drill = Only(DrillColumn(table), d), g.terms = f.terms, g.classes = f.classes,
           g.signals = f.signals, g.seen = f.seen
    PROVE  Kept(g) = Opened(table, f, d)
<1>1. ASSUME NEW v
      PROVE  VisitorSearch(f.terms, v, f.since, f.until) <=>
               InlineSearch(f.terms, v, KeyColumns(table))
  <2>1. \A t \in f.terms : \A w : ~ PerVisit(t, w)
    BY DEF Grouped, PerVisit
  <2>2. \A t \in f.terms : t.field # "broad"
    BY DEF Grouped
  <2> QED BY <2>1, <2>2 DEF VisitorSearch, InlineSearch
<1>2. \A v : DrillDown(v, g.drill) <=> Column(v, DrillColumn(table)) = d
  <2> DEFINE r == [column |-> DrillColumn(table), value |-> d]
  <2>1. r.column = DrillColumn(table) /\ r.value = d /\ g.drill = {r}
    BY DEF Only
  <2> HIDE DEF r
  <2> QED BY <2>1, Zenon DEF DrillDown
<1>3. VisitorRows(g) = {v \in Within(visits, f.since, f.until) :
                          /\ Column(v, DrillColumn(table)) = d
                          /\ VisitorSearch(f.terms, v, f.since, f.until)
                          /\ ClassFilter(f.classes, v.ip)
                          /\ SignalFilter(f.signals, v.ip)
                          /\ SeenFilter(v.ip, f.seen, f.since)}
  BY <1>2 DEF VisitorRows
<1>4. Kept(g) = VisitorRows(g)
  BY NoBar DEF Kept
<1>5. AggRows(table, f, "") = {v \in Within(visits, f.since, f.until) :
                                 /\ \E c \in KeyColumns(table) : Column(v, c) # ""
                                 /\ VisitorSearch(f.terms, v, f.since, f.until)
                                 /\ ClassFilter(f.classes, v.ip)
                                 /\ SignalFilter(f.signals, v.ip)
                                 /\ SeenFilter(v.ip, f.seen, f.since)}
  BY <1>1, Zenon DEF AggRows
<1>6. \A v : Column(v, DrillColumn(table)) = d => \E c \in KeyColumns(table) : Column(v, c) # ""
  BY KeyOfRow
<1> QED BY <1>3, <1>4, <1>5, <1>6 DEF Opened

\* Addresses counted once per key they occur under are at least as many as the addresses.
LEMMA AddressesPerKey ==
    ASSUME NEW rows, IsFiniteSet(rows), NEW K, IsFiniteSet(K),
           NEW key, \A v \in rows : key[v] \in K,
           NEW count, DOMAIN count = K,
           \A k \in K : count[k] = Distinct({v \in rows : key[v] = k})
    PROVE  Distinct(rows) <= Sum(count)
<1> DEFINE pair == [v \in rows |-> <<key[v], v.ip>>]
           P == {pair[v] : v \in rows}
           of(k) == {v \in rows : key[v] = k}
           first == [q \in P |-> q[1]]
           second == [q \in P |-> q[2]]
<1>1. IsFiniteSet(P)
  <2>1. DOMAIN pair = rows
    OBVIOUS
  <2> HIDE DEF pair
  <2> QED BY <2>1, ImageCount
<1>2. \A q \in P : \E v \in rows : q = <<key[v], v.ip>>
  OBVIOUS
<1>3. \A v \in rows : <<key[v], v.ip>> \in P
  <2>1. \A v \in rows : pair[v] = <<key[v], v.ip>> /\ pair[v] \in P
    OBVIOUS
  <2> QED BY <2>1
<1> HIDE DEF P
<1>4. ASSUME NEW k \in K PROVE count[k] = Cardinality({q \in P : first[q] = k})
  <2> DEFINE Q == {q \in P : first[q] = k}
             ip == [q \in Q |-> q[2]]
  <2>1. IsFiniteSet(Q)
    BY <1>1, FS_Subset
  <2>2. {ip[q] : q \in Q} = Addresses(of(k))
    <3>1. ASSUME NEW q \in Q PROVE ip[q] \in Addresses(of(k))
      <4>1. PICK v \in rows : q = <<key[v], v.ip>>
        BY <1>2
      <4>2. key[v] = k /\ ip[q] = v.ip
        BY <3>1, <4>1
      <4> QED BY <4>2 DEF Addresses
    <3>2. ASSUME NEW v \in of(k) PROVE v.ip \in {ip[q] : q \in Q}
      <4>1. <<k, v.ip>> \in Q /\ ip[<<k, v.ip>>] = v.ip
        BY <1>3
      <4> QED BY <4>1
    <3> HIDE DEF Q, ip, of
    <3> QED BY <3>1, <3>2 DEF Addresses
  <2>3. \A x, y \in Q : ip[x] = ip[y] => x = y
    <3> TAKE x, y \in Q
    <3>1. PICK v \in rows : x = <<key[v], v.ip>>
      BY <1>2
    <3>2. PICK w \in rows : y = <<key[w], w.ip>>
      BY <1>2
    <3>3. /\ first[x] = key[v] /\ ip[x] = v.ip
          /\ first[y] = key[w] /\ ip[y] = w.ip
      BY <3>1, <3>2
    <3>4. first[x] = k /\ first[y] = k
      OBVIOUS
    <3> HIDE DEF first, ip, Q
    <3> QED BY <3>1, <3>2, <3>3, <3>4
  <2>4. DOMAIN ip = Q
    OBVIOUS
  <2> HIDE DEF Q, ip, of
  <2>5. Cardinality({ip[q] : q \in Q}) = Cardinality(Q)
    BY <2>1, <2>3, <2>4, ImageCount
  <2> QED BY <2>2, <2>5 DEF Distinct, of, Q
<1>5. \A q \in P : first[q] \in K
  BY <1>2
<1>6. {second[q] : q \in P} = Addresses(rows)
  <2>1. ASSUME NEW q \in P PROVE second[q] \in Addresses(rows)
    BY <1>2 DEF Addresses
  <2>2. ASSUME NEW v \in rows PROVE v.ip \in {second[q] : q \in P}
    <3>1. <<key[v], v.ip>> \in P /\ second[<<key[v], v.ip>>] = v.ip
      BY <1>3
    <3> QED BY <3>1
  <2> HIDE DEF second
  <2> QED BY <2>1, <2>2 DEF Addresses
<1>7. DOMAIN second = P
  OBVIOUS
<1> HIDE DEF first, second, of
<1>8. Sum(count) = Cardinality(P)
  BY <1>1, <1>4, <1>5, CountByKey
<1>9. Cardinality(Addresses(rows)) <= Cardinality(P)
  BY <1>1, <1>6, <1>7, ImageCount
<1> QED BY <1>8, <1>9 DEF Distinct

\* The counts of a row.
LEMMA CountsOfRow ==
    ASSUME NEW rows, NEW b \in {Breakdown(rows)}
    PROVE  /\ b.unique_ips = Distinct(rows) /\ b.visits = Cardinality(rows)
           /\ DOMAIN b.group = GroupsWithUnknown
           /\ \A g \in GroupsWithUnknown :
                b.group[g] = Distinct({v \in rows : GroupMatch(g, Intel(v.ip).class)})
BY DEF Breakdown, Requests

\* Rows split by their key: the requests add up.
LEMMA RequestsAddUp ==
    ASSUME NEW table, NEW rows, IsFiniteSet(rows), NEW K, IsFiniteSet(K),
           \A v \in rows : Key(table, v) \in K,
           NEW visited, DOMAIN visited = K,
           \A k \in K : visited[k] = Cardinality(OfKey(table, rows, k))
    PROVE  Sum(visited) = Cardinality(rows)
<1> DEFINE key == [v \in rows |-> Key(table, v)]
<1>1. \A v \in rows : key[v] \in K
  OBVIOUS
<1>2. \A k \in K : visited[k] = Cardinality({v \in rows : key[v] = k})
  BY DEF OfKey
<1> HIDE DEF key
<1> QED BY <1>1, <1>2, CountByKey

\* Rows split by their key: every address is counted at least once.
LEMMA AddressesAddUp ==
    ASSUME NEW table, NEW rows, IsFiniteSet(rows), NEW K, IsFiniteSet(K),
           \A v \in rows : Key(table, v) \in K,
           NEW counted, DOMAIN counted = K,
           \A k \in K : counted[k] = Distinct(OfKey(table, rows, k))
    PROVE  Distinct(rows) <= Sum(counted)
<1> DEFINE key == [v \in rows |-> Key(table, v)]
<1>1. \A v \in rows : key[v] \in K
  OBVIOUS
<1>2. \A k \in K : counted[k] = Distinct({v \in rows : key[v] = k})
  BY DEF OfKey
<1> HIDE DEF key
<1> QED BY <1>1, <1>2, AddressesPerKey

\* A table has one row for each key of its rows.
LEMMA TableRows ==
    ASSUME FiniteLog, NEW table, NEW f, NEW status, NEW e \in {AggTable(table, f, status)},
           NEW rows \in {AggRows(table, f, status)}
    PROVE  /\ IsFiniteSet(rows) /\ IsFiniteSet(DOMAIN e)
           /\ \A v \in rows : Key(table, v) \in DOMAIN e
           /\ \A k \in DOMAIN e : \E v \in rows : k = Key(table, v)
           /\ AggCount(table, f, status) = Cardinality(DOMAIN e)
           /\ \A k \in DOMAIN e : e[k] = Breakdown(OfKey(table, rows, k))
<1> DEFINE key == [v \in rows |-> Key(table, v)]
<1>1. IsFiniteSet(rows)
  BY FS_Subset DEF AggRows, Within, FiniteLog
<1>2. e = [k \in {Key(table, v) : v \in rows} |-> Breakdown(OfKey(table, rows, k))]
  BY DEF AggTable, OfKey
<1>3. DOMAIN e = {Key(table, v) : v \in rows}
  BY <1>2
<1>4. {Key(table, v) : v \in rows} = {key[v] : v \in rows} /\ DOMAIN key = rows
  OBVIOUS
<1> HIDE DEF key
<1>5. IsFiniteSet({key[v] : v \in rows})
  BY <1>1, <1>4, ImageCount
<1>6. IsFiniteSet(DOMAIN e)
  BY <1>3, <1>4, <1>5
<1>7. AggCount(table, f, status) = Cardinality(DOMAIN e)
  BY <1>3 DEF AggCount
<1>8. \A k \in DOMAIN e : e[k] = Breakdown(OfKey(table, rows, k))
  BY <1>2, <1>3
<1>9. /\ \A v \in rows : Key(table, v) \in DOMAIN e
      /\ \A k \in DOMAIN e : \E v \in rows : k = Key(table, v)
  BY <1>3
<1> QED BY <1>1, <1>6, <1>7, <1>8, <1>9

\* A row and the drawer under it: the rows that open it make up its requests, and its
\* addresses are among theirs.
LEMMA DrawerOfRow ==
    ASSUME FiniteLog, KnownWell, NEW f \in Filter, Grouped(f), NEW table \in Tables,
           NEW e, e = AggTable(table, f, NoBand), NEW k \in DOMAIN e, HasDrawer(table, k)
    PROVE  /\ Sum([l \in SameDrawer(table, e, k) |-> e[l].visits])
                = ListedVisits(DrawerFilter(table, k, f))
           /\ e[k].unique_ips <= Drawer(table, k, f)
           /\ Drawer(table, k, f) <= Sum([l \in SameDrawer(table, e, k) |-> e[l].unique_ips])
           /\ table # "clients" => e[k].unique_ips = Drawer(table, k, f)
<1> DEFINE rows == AggRows(table, f, NoBand)
           of(l) == OfKey(table, rows, l)
           c == DrillColumn(table)
           d == k[c]
           g == DrawerFilter(table, k, f)
           V == Opened(table, f, d)
           together == SameDrawer(table, e, k)
<1>1. /\ IsFiniteSet(rows) /\ IsFiniteSet(DOMAIN e)
      /\ \A v \in rows : Key(table, v) \in DOMAIN e
      /\ \A l \in DOMAIN e : \E v \in rows : l = Key(table, v)
      /\ AggCount(table, f, NoBand) = Cardinality(DOMAIN e)
      /\ \A l \in DOMAIN e : e[l] = Breakdown(of(l))
  <2> HIDE DEF rows
  <2>1. rows \in {AggRows(table, f, NoBand)} /\ e \in {AggTable(table, f, NoBand)}
    BY DEF rows
  <2> QED BY <2>1, TableRows
<1>2. \A l \in DOMAIN e : /\ e[l].unique_ips = Distinct(of(l)) /\ e[l].visits = Cardinality(of(l))
                          /\ DOMAIN e[l].group = GroupsWithUnknown
                          /\ \A h \in GroupsWithUnknown :
                               e[l].group[h] = Distinct({v \in of(l) : GroupMatch(h, Intel(v.ip).class)})
  <2> TAKE l \in DOMAIN e
  <2>1. e[l] \in {Breakdown(of(l))}
    BY <1>1
  <2> HIDE DEF of
  <2> QED BY <2>1, CountsOfRow
<1>3. Kept(g) = V
  <2>1. /\ g.since = f.since /\ g.until = f.until /\ g.ip = None /\ g.min = 0
        /\ g.drill = Only(c, d) /\ g.terms = f.terms /\ g.classes = f.classes
        /\ g.signals = f.signals /\ g.seen = f.seen
    BY DEF Filter, DrawerFilter
  <2>2. d # ""
    BY DEF HasDrawer
  <2> HIDE DEF g, d, V
  <2>3. Kept(g) = Opened(table, f, d)
    BY <2>1, <2>2, DrawerKeeps, Zenon
  <2> QED BY <2>3 DEF V
<1>4. V \subseteq rows /\ together \subseteq DOMAIN e
  BY DEF Opened, SameDrawer, NoBand
<1>5. IsFiniteSet(V) /\ IsFiniteSet(together)
  BY <1>1, <1>4, FS_Subset
<1>6. \A v \in V : Key(table, v) \in together
  BY <1>1, <1>4, KeyOfRow DEF Opened, SameDrawer
<1>7. \A l \in together : of(l) = OfKey(table, V, l)
  <2> TAKE l \in together
  <2>1. \A v \in of(l) : v \in V
    BY KeyOfRow DEF Opened, OfKey, SameDrawer, NoBand
  <2> HIDE DEF V, rows
  <2> QED BY <1>4, <2>1 DEF OfKey
<1>8. ListedVisits(g) = Cardinality(V) /\ VisitorCount(g) = Distinct(V)
  BY <1>3, ListedVisitsAreKept, PagerCounts DEF Distinct
<1>9. k \in together /\ Addresses(of(k)) \subseteq Addresses(V) /\ IsFiniteSet(Addresses(V))
  <2>1. k \in together
    BY DEF SameDrawer
  <2>2. of(k) \subseteq V
    BY <1>7, <2>1 DEF OfKey
  <2> HIDE DEF V, together, of
  <2> QED BY <1>5, <2>1, <2>2, FiniteAddresses DEF Addresses
<1>10. table # "clients" => of(k) = V
  <2>1. ASSUME table # "clients", NEW v \in V PROVE Key(table, v) = k
    <3>1. PICK w \in rows : k = Key(table, w)
      BY <1>1
    <3>2. Column(v, c) = Column(w, c)
      BY <3>1, KeyOfRow DEF Opened
    <3>3. \A x \in KeyColumns(table) : Column(v, x) = Column(w, x)
      BY <2>1, <3>2, KeyOfRow
    <3> QED BY <3>1, <3>3, Zenon DEF Key
  <2>2. k \in together
    BY <1>9
  <2> HIDE DEF of, together
  <2> QED BY <1>7, <2>1, <2>2 DEF OfKey
<1> DEFINE asked == [l \in together |-> e[l].visits]
           met == [l \in together |-> e[l].unique_ips]
<1> HIDE DEF V, together, of, g
<1>11. \A l \in together : /\ e[l].visits = Cardinality(OfKey(table, V, l))
                          /\ e[l].unique_ips = Distinct(OfKey(table, V, l))
  BY <1>2, <1>4, <1>7
<1>12. Sum(asked) = Cardinality(V)
  <2>1. /\ DOMAIN asked = together
        /\ \A l \in together : asked[l] = Cardinality(OfKey(table, V, l))
    BY <1>11
  <2> HIDE DEF asked
  <2> QED BY <1>5, <1>6, <2>1, RequestsAddUp
<1>13. Distinct(V) <= Sum(met)
  <2>1. /\ DOMAIN met = together
        /\ \A l \in together : met[l] = Distinct(OfKey(table, V, l))
    BY <1>11
  <2> HIDE DEF met
  <2> QED BY <1>5, <1>6, <2>1, AddressesAddUp
<1>14. Distinct(of(k)) <= Distinct(V)
  BY <1>9, FS_Subset DEF Distinct
<1>15. e[k].unique_ips = Distinct(of(k)) /\ Drawer(table, k, f) = VisitorCount(g)
  BY <1>2 DEF Drawer, g
<1> QED BY <1>8, <1>10, <1>12, <1>13, <1>14, <1>15 DEF together, g, asked, met

\* The drawer under a row lists what the rows that open it count together.
LEMMA RowsAreTheirDrawer ==
    ASSUME FiniteLog, KnownWell, NEW f \in Filter, Grouped(f)
    PROVE  RowsMatchTheirDrawer(f)
<1> SUFFICES ASSUME NEW table \in Tables, NEW page \in {GroupingPage(table, f, NoBand)}
             PROVE  /\ PagerAgrees([page EXCEPT !.rows = DOMAIN @])
                    /\ \A k \in DOMAIN page.rows :
                         /\ HasDrawer(table, k) =>
                              /\ Sum([l \in SameDrawer(table, page.rows, k) |-> page.rows[l].visits])
                                   = ListedVisits(DrawerFilter(table, k, f))
                              /\ page.rows[k].unique_ips <= Drawer(table, k, f)
                              /\ Drawer(table, k, f) <=
                                   Sum([l \in SameDrawer(table, page.rows, k) |->
                                          page.rows[l].unique_ips])
                              /\ table # "clients" =>
                                   page.rows[k].unique_ips = Drawer(table, k, f)
                         /\ Sum(page.rows[k].group) = page.rows[k].unique_ips
  BY DEF RowsMatchTheirDrawer, NoBand
<1> DEFINE rows == AggRows(table, f, NoBand)
           e == AggTable(table, f, NoBand)
<1>1. page = [rows |-> e, total |-> AggCount(table, f, NoBand)]
  BY DEF GroupingPage, NoBand
<1>2. e \in {AggTable(table, f, NoBand)} /\ rows \in {AggRows(table, f, NoBand)}
  OBVIOUS
<1> HIDE DEF e, rows
<1>3. /\ IsFiniteSet(rows) /\ AggCount(table, f, NoBand) = Cardinality(DOMAIN e)
      /\ \A k \in DOMAIN e : e[k] = Breakdown(OfKey(table, rows, k))
  BY <1>2, TableRows
<1>4. PagerAgrees([page EXCEPT !.rows = DOMAIN @])
  <2>1. /\ [page EXCEPT !.rows = DOMAIN @].rows = DOMAIN e
        /\ [page EXCEPT !.rows = DOMAIN @].total = Cardinality(DOMAIN e)
    BY <1>1, <1>3
  <2> QED BY <2>1 DEF PagerAgrees
<1>5. ASSUME NEW k \in DOMAIN e PROVE Sum(e[k].group) = e[k].unique_ips
  <2>1. IsFiniteSet(OfKey(table, rows, k))
    BY <1>3, FS_Subset DEF OfKey
  <2>2. e[k] \in {Breakdown(OfKey(table, rows, k))}
    BY <1>3
  <2> QED BY <2>1, <2>2, CountsOfRow, AddressesByGroup
<1>6. ASSUME NEW k \in DOMAIN e, HasDrawer(table, k)
      PROVE  /\ Sum([l \in SameDrawer(table, e, k) |-> e[l].visits])
                  = ListedVisits(DrawerFilter(table, k, f))
             /\ e[k].unique_ips <= Drawer(table, k, f)
             /\ Drawer(table, k, f) <= Sum([l \in SameDrawer(table, e, k) |-> e[l].unique_ips])
             /\ table # "clients" => e[k].unique_ips = Drawer(table, k, f)
  BY <1>2, <1>6, DrawerOfRow
<1>7. page.rows = e
  BY <1>1
<1> QED BY <1>4, <1>5, <1>6, <1>7

\* The requests of a table are those of its rows.
LEMMA TableRequests ==
    ASSUME FiniteLog, NEW table, NEW f, NEW status,
           NEW e, e = AggTable(table, f, status)
    PROVE  Sum([d \in DOMAIN e |-> e[d].visits]) = Cardinality(AggRows(table, f, status))
<1> DEFINE rows == AggRows(table, f, status)
<1>1. rows \in {AggRows(table, f, status)} /\ e \in {AggTable(table, f, status)}
  OBVIOUS
<1> HIDE DEF rows
<1>2. /\ IsFiniteSet(rows) /\ IsFiniteSet(DOMAIN e)
      /\ \A v \in rows : Key(table, v) \in DOMAIN e
      /\ \A k \in DOMAIN e : e[k] = Breakdown(OfKey(table, rows, k))
  BY <1>1, TableRows
<1> DEFINE visited == [k \in DOMAIN e |-> e[k].visits]
<1>3. \A k \in DOMAIN e : e[k].visits = Cardinality(OfKey(table, rows, k))
  BY <1>2, CountsOfRow
<1>4. /\ DOMAIN visited = DOMAIN e
      /\ \A k \in DOMAIN e : visited[k] = Cardinality(OfKey(table, rows, k))
  BY <1>3
<1> HIDE DEF visited
<1>5. Sum(visited) = Cardinality(rows)
  BY <1>2, <1>4, RequestsAddUp
<1> QED BY <1>5 DEF rows, visited


-----------------------------------------------------------------------------
(* The status bands *)

\* What the log records: statuses of answers, none of them informational.
StatusWell == \A v \in visits : v.status \in Nat /\ v.status >= 200

\* Every answer is in one band.
LEMMA BandOf ==
    ASSUME NEW status \in Nat, status >= 200
    PROVE  /\ StatusBand(status) \in Bands
           /\ status >= 400 <=> StatusBand(status) \in {"4xx", "5xx"}
<1>1. CASE status \in 200..299
  BY <1>1 DEF StatusBand, Bands
<1>2. CASE status \in 300..399
  BY <1>2 DEF StatusBand, Bands
<1>3. CASE status \in 400..499
  BY <1>3 DEF StatusBand, Bands
<1>4. CASE status >= 500
  BY <1>4 DEF StatusBand, Bands
<1> QED BY <1>1, <1>2, <1>3, <1>4

\* There are four of them.
LEMMA FewBands == IsFiniteSet(Bands)
<1>1. IsFiniteSet({"2xx"})
  BY FS_Singleton
<1>2. IsFiniteSet({"2xx"} \cup {"3xx"})
  BY <1>1, FS_AddElement
<1>3. IsFiniteSet(({"2xx"} \cup {"3xx"}) \cup {"4xx"})
  BY <1>2, FS_AddElement
<1>4. IsFiniteSet((({"2xx"} \cup {"3xx"}) \cup {"4xx"}) \cup {"5xx"})
  BY <1>3, FS_AddElement
<1>5. Bands = (({"2xx"} \cup {"3xx"}) \cup {"4xx"}) \cup {"5xx"}
  BY DEF Bands
<1> QED BY <1>4, <1>5

\* The Paths table narrowed to each band in turn counts each request once.
LEMMA BandsCountOnce ==
    ASSUME FiniteLog, StatusWell, NEW f
    PROVE  BandsPartition(f)
<1> DEFINE rows == AggRows("paths", f, "")
           band == [v \in rows |-> StatusBand(v.status)]
           requests(e) == Sum([d \in DOMAIN e |-> e[d].visits])
           counts == [b \in Bands |-> requests(GroupingPage("paths", f, b).rows)]
<1>1. ASSUME NEW b
      PROVE  requests(GroupingPage("paths", f, b).rows) = Cardinality(AggRows("paths", f, b))
  <2>1. GroupingPage("paths", f, b).rows = AggTable("paths", f, b)
    BY DEF GroupingPage
  <2> QED BY <2>1, TableRequests
<1>2. IsFiniteSet(rows) /\ rows \subseteq visits
  BY FS_Subset DEF AggRows, Within, FiniteLog
<1>3. \A v \in rows : band[v] \in Bands
  BY <1>2, BandOf DEF StatusWell
<1>4. \A b \in Bands : AggRows("paths", f, b) = {v \in rows : band[v] = b}
  <2>1. \A b \in Bands : b # ""
    BY DEF Bands
  <2> QED BY <2>1 DEF AggRows
<1>5. /\ DOMAIN counts = Bands
      /\ \A b \in Bands : counts[b] = Cardinality({v \in rows : band[v] = b})
  BY <1>1, <1>4
<1>6. BandsPartition(f) <=> Sum(counts) = requests(GroupingPage("paths", f, "").rows)
  BY DEF BandsPartition
<1> HIDE DEF rows, band, counts, requests
<1>7. Sum(counts) = Cardinality(rows)
  BY <1>2, <1>3, <1>5, FewBands, CountByKey
<1> QED BY <1>1, <1>6, <1>7 DEF rows

-----------------------------------------------------------------------------
(* Tiles, matrix, feed and facets: what they count of one window *)

\* The requests in the window of f by addresses of some classes and signals.
PlainRows(f, C, S) ==
  {v \in Within(visits, f.since, f.until) : ClassFilter(C, v.ip) /\ SignalFilter(S, v.ip)}

\* They are what a page keeps that narrows by nothing else.
LEMMA PlainKeeps ==
    ASSUME NEW f, Grouped(f), Plain(f),
           NEW g, g.since = f.since, g.until = f.until, g.ip = f.ip, g.min = f.min,
           g.drill = f.drill, g.terms = f.terms, g.seen = f.seen
    PROVE  Kept(g) = PlainRows(f, g.classes, g.signals)
<1>1. g.ip = None /\ g.drill = {} /\ g.terms = {} /\ g.seen = "total" /\ g.min = 0
  BY DEF Grouped, Plain
<1>2. \A v : DrillDown(v, {}) /\ VisitorSearch({}, v, f.since, f.until)
             /\ SeenFilter(v.ip, "total", f.since)
  BY DEF DrillDown, VisitorSearch, SeenFilter
<1>3. VisitorRows(g) = PlainRows(f, g.classes, g.signals)
  BY <1>1, <1>2, Zenon DEF VisitorRows, PlainRows
<1> QED BY <1>1, <1>3, NoBar DEF Kept

\* The addresses such a page lists.
PlainListed(f, C, S) ==
  {ip \in Addresses(Within(visits, f.since, f.until)) : ClassFilter(C, ip) /\ SignalFilter(S, ip)}

\* And how many they are.
LEMMA PlainLists ==
    ASSUME NEW f \in Filter, Grouped(f), Plain(f), NEW C, NEW S
    PROVE  VisitorCount([f EXCEPT !.classes = C, !.signals = S]) = Cardinality(PlainListed(f, C, S))
<1> DEFINE g == [f EXCEPT !.classes = C, !.signals = S]
           W == Within(visits, f.since, f.until)
<1>1. /\ g.since = f.since /\ g.until = f.until /\ g.ip = f.ip /\ g.min = f.min
      /\ g.drill = f.drill /\ g.terms = f.terms /\ g.seen = f.seen
      /\ g.classes = C /\ g.signals = S
  BY DEF Filter
<1> HIDE DEF g
<1>2. Kept(g) = {v \in W : ClassFilter(C, v.ip) /\ SignalFilter(S, v.ip)}
  BY <1>1, PlainKeeps DEF PlainRows
<1> HIDE DEF W
<1>3. Addresses(Kept(g)) = {ip \in Addresses(W) : ClassFilter(C, ip) /\ SignalFilter(S, ip)}
  BY <1>2 DEF Addresses
<1> QED BY <1>3, PagerCounts DEF g, W, PlainListed

\* The addresses seen in a window with a bound are those of its rows.
LEMMA SeenIsListed ==
    ASSUME NEW since, NEW until, {since, until} # {None}, NEW ip
    PROVE  SeenInWindow(ip, since, until) <=> ip \in Addresses(Within(visits, since, until))
BY DEF SeenInWindow, Within, Addresses

\* Nothing is held against an address that was not looked up, and it has no group.
LEMMA UnknownHasNothing ==
    ASSUME NEW ip, ip \notin DOMAIN intel
    PROVE  /\ \A g \in Groups : Label(Intel(ip).class) # g
           /\ \A s : ~ SignalCondition(s, ip)
<1>1. Intel(ip) = Absent /\ ~ Enriched(ip)
  BY DEF Intel, Enriched
<1>2. Absent.class.group = "" /\ Absent.tags = {} /\ Absent.flags = {}
  BY DEF Absent, Class
<1>3. Label(Intel(ip).class) = "unknown"
  BY <1>1, <1>2 DEF Label
<1>4. ASSUME NEW s PROVE ~ SignalCondition(s, ip)
  BY <1>1, <1>2 DEF SignalCondition, NoSignals
<1> QED BY <1>3, <1>4 DEF Groups


\* A filter by one signal is the signal's condition.
LEMMA OneSignal ==
    ASSUME NEW s, NEW ip
    PROVE  SignalFilter({s}, ip) <=> SignalCondition(s, ip)
BY Zenon DEF SignalFilter

\* A tile and a cell of the matrix count the addresses of the list behind them.
LEMMA TilesAndMatrix ==
    ASSUME FiniteLog, KnownWell, NEW f \in Filter, Grouped(f), Plain(f),
           {f.since, f.until} # {None}
    PROVE  /\ Stats(f.since, f.until).unique_ips = VisitorCount(f)
           /\ Stats(f.since, f.until).total_visits = ListedVisits(f)
           /\ \A g \in Groups :
                Stats(f.since, f.until).breakdown[g] =
                  VisitorCount([f EXCEPT !.classes = {Class(g, "")}, !.signals = {}])
           /\ \A g \in GroupsWithUnknown, s \in Signals :
                Matrix(f.since, f.until, g, s) =
                  VisitorCount([f EXCEPT !.classes = {Class(g, "")}, !.signals = {s}])
<1> DEFINE W == Within(visits, f.since, f.until)
           known == {ip \in DOMAIN intel : SeenInWindow(ip, f.since, f.until)}
<1>1. known = Addresses(W) \cap DOMAIN intel
  BY SeenIsListed
<1>2. /\ Stats(f.since, f.until).unique_ips = Distinct(W)
      /\ Stats(f.since, f.until).total_visits = Cardinality(W)
      /\ \A g \in GroupsWithUnknown :
           Stats(f.since, f.until).breakdown[g] =
             Cardinality({ip \in known : GroupOf(intel[ip].class) = g})
  BY DEF Stats, Requests
<1>3. Kept(f) = W
  <2>1. \A ip : ClassFilter({}, ip) /\ SignalFilter({}, ip)
    BY DEF ClassFilter, SignalFilter
  <2>2. f.classes = {} /\ f.signals = {}
    BY DEF Plain
  <2>3. Kept(f) = PlainRows(f, f.classes, f.signals)
    BY PlainKeeps
  <2> QED BY <2>1, <2>2, <2>3 DEF PlainRows
<1>4. \A ip \in DOMAIN intel : GroupOf(intel[ip].class) = Label(Intel(ip).class)
  BY EveryClassLabelled, OneGroup DEF Intel, Enriched
<1> HIDE DEF W, known
<1>5. ASSUME NEW g \in Groups
      PROVE  Stats(f.since, f.until).breakdown[g] =
               VisitorCount([f EXCEPT !.classes = {Class(g, "")}, !.signals = {}])
  <2>1. g \in GroupsWithUnknown
    BY DEF GroupsWithUnknown
  <2>2. {ip \in known : GroupOf(intel[ip].class) = g} = PlainListed(f, {Class(g, "")}, {})
    <3>1. \A ip : /\ SignalFilter({}, ip)
                  /\ ClassFilter({Class(g, "")}, ip) <=> Label(Intel(ip).class) = g
      BY <2>1, GroupFilter DEF SignalFilter
    <3>2. \A ip : Label(Intel(ip).class) = g => ip \in DOMAIN intel
      BY UnknownHasNothing
    <3>3. PlainListed(f, {Class(g, "")}, {}) =
          {ip \in Addresses(W) : ClassFilter({Class(g, "")}, ip) /\ SignalFilter({}, ip)}
      BY Zenon DEF PlainListed, W
    <3> QED BY <1>1, <1>4, <3>1, <3>2, <3>3
  <2>3. VisitorCount([f EXCEPT !.classes = {Class(g, "")}, !.signals = {}]) =
        Cardinality(PlainListed(f, {Class(g, "")}, {}))
    BY PlainLists
  <2> QED BY <1>2, <2>1, <2>2, <2>3
<1>6. ASSUME NEW g \in GroupsWithUnknown, NEW s \in Signals
      PROVE  Matrix(f.since, f.until, g, s) =
               VisitorCount([f EXCEPT !.classes = {Class(g, "")}, !.signals = {s}])
  <2>1. Matrix(f.since, f.until, g, s) =
        Cardinality({ip \in known : GroupOf(intel[ip].class) = g /\ SignalCondition(s, ip)})
    <3>1. {ip \in DOMAIN intel : /\ SeenInWindow(ip, f.since, f.until)
                                 /\ GroupOf(intel[ip].class) = g
                                 /\ SignalCondition(s, ip)} =
          {ip \in known : GroupOf(intel[ip].class) = g /\ SignalCondition(s, ip)}
      BY Zenon DEF known
    <3> QED BY <3>1, Zenon DEF Matrix
  <2>2. {ip \in known : GroupOf(intel[ip].class) = g /\ SignalCondition(s, ip)} =
        PlainListed(f, {Class(g, "")}, {s})
    <3>1. \A ip : /\ SignalFilter({s}, ip) <=> SignalCondition(s, ip)
                  /\ ClassFilter({Class(g, "")}, ip) <=> Label(Intel(ip).class) = g
      BY GroupFilter, OneSignal
    <3>2. \A ip : SignalCondition(s, ip) => ip \in DOMAIN intel
      BY UnknownHasNothing
    <3>3. PlainListed(f, {Class(g, "")}, {s}) =
          {ip \in Addresses(W) : ClassFilter({Class(g, "")}, ip) /\ SignalFilter({s}, ip)}
      BY Zenon DEF PlainListed, W
    <3> QED BY <1>1, <1>4, <3>1, <3>2, <3>3
  <2>3. VisitorCount([f EXCEPT !.classes = {Class(g, "")}, !.signals = {s}]) =
        Cardinality(PlainListed(f, {Class(g, "")}, {s}))
    BY PlainLists
  <2> QED BY <2>1, <2>2, <2>3
<1>7. VisitorCount(f) = Distinct(W) /\ ListedVisits(f) = Cardinality(W)
  BY <1>3, PagerCounts, ListedVisitsAreKept DEF Distinct
<1> QED BY <1>2, <1>5, <1>6, <1>7

\* The days add up to the tiles, and their errors are the two upper bands.
LEMMA DaysAddUp ==
    ASSUME FiniteLog, StatusWell, NEW since, NEW until,
           NEW days, days = DailyKPIs(since, until),
           NEW bands, bands = StatusTimeline(since, until)
    PROVE  /\ Sum([d \in DOMAIN days |-> days[d].visits]) = Stats(since, until).total_visits
           /\ Sum([d \in DOMAIN days |-> days[d].errors]) = Stats(since, until).errors
           /\ \A d \in DOMAIN days : days[d].errors = bands[d]["4xx"] + bands[d]["5xx"]
<1> DEFINE W == Within(visits, since, until)
           wrong == {v \in W : v.status >= 400}
           day == [v \in W |-> Day(v.at)]
           K == {day[v] : v \in W}
           visited == [d \in DOMAIN days |-> days[d].visits]
           erred == [d \in DOMAIN days |-> days[d].errors]
<1>1. IsFiniteSet(W) /\ IsFiniteSet(wrong) /\ W \subseteq visits
  BY FS_Subset DEF Within, FiniteLog
<1>2. K = {Day(v.at) : v \in W} /\ \A v \in W : day[v] = Day(v.at)
  OBVIOUS
<1>3. /\ DOMAIN days = K /\ DOMAIN bands = K
      /\ \A d \in K : /\ days[d].visits = Cardinality({v \in W : Day(v.at) = d})
                      /\ days[d].errors = Cardinality({v \in {w \in W : Day(w.at) = d} : v.status >= 400})
      /\ \A d \in K, b \in Bands :
           bands[d][b] = Cardinality({v \in {w \in W : Day(w.at) = d} : StatusBand(v.status) = b})
  BY <1>2 DEF DailyKPIs, StatusTimeline
<1>4. \A d : /\ {v \in W : Day(v.at) = d} = {v \in W : day[v] = d}
             /\ {v \in {w \in W : Day(w.at) = d} : v.status >= 400} = {v \in wrong : day[v] = d}
  BY <1>2
<1>5. /\ Stats(since, until).total_visits = Cardinality(W)
      /\ Stats(since, until).errors = Cardinality(wrong)
  BY DEF Stats, Requests
<1>6. (\A v \in W : day[v] \in K) /\ (\A v \in wrong : day[v] \in K)
  OBVIOUS
<1>7. DOMAIN visited = DOMAIN days /\ DOMAIN erred = DOMAIN days
  OBVIOUS
<1>8. \A d \in K : /\ visited[d] = Cardinality({v \in W : day[v] = d})
                   /\ erred[d] = Cardinality({v \in wrong : day[v] = d})
  <2> TAKE d \in K
  <2>1. visited[d] = days[d].visits /\ erred[d] = days[d].errors
    BY <1>3
  <2> HIDE DEF W, wrong, day, K, visited, erred
  <2> QED BY <1>3, <1>4, <2>1
<1>9. DOMAIN day = W
  OBVIOUS
<1>10. ASSUME NEW d \in K PROVE days[d].errors = bands[d]["4xx"] + bands[d]["5xx"]
  <2> DEFINE of == {w \in W : Day(w.at) = d}
             four == {v \in of : StatusBand(v.status) = "4xx"}
             five == {v \in of : StatusBand(v.status) = "5xx"}
             both == {v \in of : v.status >= 400}
  <2>1. /\ days[d].errors = Cardinality(both)
        /\ bands[d]["4xx"] = Cardinality(four) /\ bands[d]["5xx"] = Cardinality(five)
    BY <1>3 DEF Bands
  <2>2. \A v \in of : v.status >= 400 <=> StatusBand(v.status) \in {"4xx", "5xx"}
    BY <1>1, BandOf DEF StatusWell
  <2>3. both = four \cup five /\ four \cap five = {}
    BY <2>2
  <2>4. IsFiniteSet(four) /\ IsFiniteSet(five)
    BY <1>1, FS_Subset
  <2> HIDE DEF of, four, five, both
  <2>5. Cardinality(four \cup five) = Cardinality(four) + Cardinality(five)
    <3>1. Cardinality(four \cup five) =
            Cardinality(four) + Cardinality(five) - Cardinality(four \cap five)
      BY <2>4, FS_Union
    <3>2. Cardinality(four) \in Nat /\ Cardinality(five) \in Nat
      BY <2>4, FS_CardinalityType
    <3>3. Cardinality(four \cap five) = 0
      BY <2>3, FS_EmptySet
    <3> QED BY <3>1, <3>2, <3>3
  <2> QED BY <2>1, <2>3, <2>5
<1> HIDE DEF W, wrong, day
<1>11. IsFiniteSet(K)
  BY <1>1, <1>9, ImageCount
<1> HIDE DEF K, visited, erred
<1>12. Sum(visited) = Cardinality(W)
  <2>1. /\ IsFiniteSet(W) /\ \A v \in W : day[v] \in K
        /\ DOMAIN visited = K /\ \A d \in K : visited[d] = Cardinality({v \in W : day[v] = d})
    BY <1>1, <1>3, <1>6, <1>7, <1>8
  <2> QED BY <1>11, <2>1, CountByKey
<1>13. Sum(erred) = Cardinality(wrong)
  <2>1. /\ IsFiniteSet(wrong) /\ \A v \in wrong : day[v] \in K
        /\ DOMAIN erred = K /\ \A d \in K : erred[d] = Cardinality({v \in wrong : day[v] = d})
    BY <1>1, <1>3, <1>6, <1>7, <1>8
  <2> QED BY <1>11, <2>1, CountByKey
<1> QED BY <1>3, <1>5, <1>10, <1>12, <1>13 DEF visited, erred


\* The feed holds the threats the list holds, with as many requests.
LEMMA FeedIsTheList ==
    ASSUME KnownWell, NEW f \in Filter, Grouped(f), Plain(f),
           NEW g, g = [f EXCEPT !.classes = {Class("threats", "")}],
           NEW feed, feed = Decisions({Class("threats", "")}, f.since, f.until)
    PROVE  {[ip |-> a.ip, visits |-> a.requests] : a \in feed} =
           {[ip |-> r.ip, visits |-> r.visits] : r \in VisitorList(g)}
<1> DEFINE W == Within(visits, f.since, f.until)
           threat == Class("threats", "")
           rows == Kept(g)
           entry(ip) == [ip |-> ip, requests |-> Cardinality(OfAddress(rows, ip)),
                         probes |-> Cardinality({v \in OfAddress(rows, ip) :
                                                   v.status = 404 /\ v.path \notin Convention})]
           brief(ip) == [ip |-> ip, visits |-> Cardinality(OfAddress(rows, ip))]
           fed(a) == [ip |-> a.ip, visits |-> a.requests]
           shown(r) == [ip |-> r.ip, visits |-> r.visits]
<1>1. /\ g.since = f.since /\ g.until = f.until /\ g.ip = f.ip /\ g.min = f.min
      /\ g.drill = f.drill /\ g.terms = f.terms /\ g.seen = f.seen
      /\ g.classes = {threat} /\ g.signals = {}
  BY DEF Filter, Plain
<1>2. rows = {v \in W : ClassFilter({threat}, v.ip)}
  <2>1. \A ip : SignalFilter({}, ip)
    BY DEF SignalFilter
  <2> HIDE DEF threat
  <2>2. Kept(g) = PlainRows(f, g.classes, g.signals)
    <3> HIDE DEF rows, entry, brief, fed, shown
    <3> QED BY <1>1, PlainKeeps
  <2> QED BY <1>1, <2>1, <2>2 DEF PlainRows
<1>3. \A ip : ClassFilter({threat}, ip) <=>
                Enriched(ip) /\ (intel[ip].class = threat \/ intel[ip].class.group = "threats")
  <2> TAKE ip
  <2>1. "threats" \in GroupsWithUnknown /\ "threats" \in Groups
    BY DEF GroupsWithUnknown, Groups
  <2>2. ClassFilter({threat}, ip) <=> Label(Intel(ip).class) = "threats"
    BY <2>1, GroupFilter
  <2>3. Label(Intel(ip).class) = "threats" <=> Intel(ip).class.group = "threats"
    BY DEF Label
  <2>4. ~ Enriched(ip) => Label(Intel(ip).class) # "threats"
    BY <2>1, UnknownHasNothing DEF Enriched
  <2>5. Enriched(ip) => Intel(ip) = intel[ip]
    BY DEF Intel
  <2>6. threat.group = "threats"
    BY DEF Class
  <2> QED BY <2>2, <2>3, <2>4, <2>5, <2>6
<1>4. feed = {entry(ip) : ip \in Addresses(rows)}
  <2>1. threat.sub = "" /\ threat.group = "threats"
    BY DEF Class
  <2> HIDE DEF threat
  <2>2. {v \in W : /\ Enriched(v.ip)
                   /\ \E c \in {threat} : \/ intel[v.ip].class = c
                                          \/ c.sub = "" /\ intel[v.ip].class.group = c.group}
        = rows
    BY <1>2, <1>3, <2>1
  <2>3. feed = Decisions({threat}, f.since, f.until)
    BY DEF threat
  <2> HIDE DEF rows
  <2> QED BY <2>2, <2>3, Zenon DEF Decisions
<1>5. VisitorList(g) = {ListRow(g, ip) : ip \in Addresses(rows)}
  BY ListOfKept
<1>6. \A ip : /\ entry(ip).ip = ip /\ entry(ip).requests = Cardinality(OfAddress(rows, ip))
              /\ ListRow(g, ip).ip = ip
              /\ ListRow(g, ip).visits = Cardinality(OfAddress(rows, ip))
  BY DEF ListRow
<1> HIDE DEF rows, entry
<1>7. \A ip : fed(entry(ip)) = brief(ip) /\ shown(ListRow(g, ip)) = brief(ip)
  BY <1>6
<1> DEFINE A == Addresses(rows)
<1> HIDE DEF brief, fed, shown, A
<1>8. feed = {entry(ip) : ip \in A} /\ VisitorList(g) = {ListRow(g, ip) : ip \in A}
  BY <1>4, <1>5 DEF A
<1>9. {fed(a) : a \in feed} = {brief(ip) : ip \in A}
  <2>1. \A x : (\E a \in feed : x = fed(a)) <=> (\E ip \in A : x = brief(ip))
    BY <1>7, <1>8, Zenon
  <2> QED BY <2>1
<1>10. {shown(r) : r \in VisitorList(g)} = {brief(ip) : ip \in A}
  <2>1. \A x : (\E r \in VisitorList(g) : x = shown(r)) <=> (\E ip \in A : x = brief(ip))
    BY <1>7, <1>8, Zenon
  <2> QED BY <2>1
<1>11. {fed(a) : a \in feed} = {shown(r) : r \in VisitorList(g)}
  BY <1>9, <1>10
<1> QED BY <1>11 DEF fed, shown

\* Tags and vulnerabilities have names.
FactsWell == \A ip \in DOMAIN intel : "" \notin intel[ip].tags /\ "" \notin intel[ip].vulns

\* A facet counts the hosts its tag selects.
LEMMA FacetsCountHosts ==
    ASSUME NEW tag, tag # "", NEW vuln, NEW since, NEW until
    PROVE  TagFacet(tag, "", vuln, since, until) = Cardinality(ShodanHosts(tag, vuln, since, until))
<1>1. {ip \in DOMAIN intel :
         /\ tag \in intel[ip].tags
         /\ SeenInWindow(ip, since, until)
         /\ "" # "" => "" \in intel[ip].tags
         /\ vuln # "" => vuln \in intel[ip].vulns} = ShodanHosts(tag, vuln, since, until)
  BY DEF ShodanHosts
<1> QED BY <1>1, Zenon DEF TagFacet

\* Tiles, matrix, days, feed and facets of a window count what their lists hold.
LEMMA WindowFigures ==
    ASSUME FiniteLog, KnownWell, StatusWell, FactsWell, NEW f \in Filter, Grouped(f), Plain(f),
           {f.since, f.until} # {None}
    PROVE  FiguresOfWindow(f)
<1> DEFINE stats == Stats(f.since, f.until)
           days == DailyKPIs(f.since, f.until)
           bands == StatusTimeline(f.since, f.until)
           feed == Decisions({Class("threats", "")}, f.since, f.until)
           under(g, signals) == VisitorCount([f EXCEPT !.classes = {Class(g, "")},
                                                       !.signals = signals])
<1>1. /\ stats.unique_ips = VisitorCount(f) /\ stats.total_visits = ListedVisits(f)
      /\ \A g \in Groups : stats.breakdown[g] = under(g, {})
      /\ \A g \in GroupsWithUnknown, s \in Signals :
           Matrix(f.since, f.until, g, s) = under(g, {s})
  BY TilesAndMatrix
<1>2. /\ Sum([d \in DOMAIN days |-> days[d].visits]) = stats.total_visits
      /\ Sum([d \in DOMAIN days |-> days[d].errors]) = stats.errors
      /\ \A d \in DOMAIN days : days[d].errors = bands[d]["4xx"] + bands[d]["5xx"]
  BY DaysAddUp
<1>3. {[ip |-> a.ip, visits |-> a.requests] : a \in feed} =
      {[ip |-> r.ip, visits |-> r.visits] :
         r \in VisitorList([f EXCEPT !.classes = {Class("threats", "")}])}
  BY FeedIsTheList
<1>4. \A ip \in DOMAIN intel :
         \A tag \in intel[ip].tags, vuln \in intel[ip].vulns \union {""} :
            TagFacet(tag, "", vuln, f.since, f.until) =
              Cardinality(ShodanHosts(tag, vuln, f.since, f.until))
  BY FacetsCountHosts DEF FactsWell
<1> HIDE DEF stats, days, bands, feed, under
<1> QED BY <1>1, <1>2, <1>3, <1>4, Zenon DEF FiguresOfWindow, stats, days, bands, feed, under

-----------------------------------------------------------------------------
(* Findings that point at the list *)

\* Of finitely many sizes one is the largest.
LEMMA LargestExists ==
    ASSUME NEW S, S # {}, NEW N \in Nat, NEW size, \A x \in S : size[x] \in 0 .. N
    PROVE  \E x \in S : \A y \in S : size[x] >= size[y]
<1> DEFINE T == {size[x] : x \in S}
<1>1. T \subseteq Nat /\ T # {} /\ T \subseteq 0 .. N
  OBVIOUS
<1>2. IsFiniteSet(T)
  <2>1. IsFiniteSet(0 .. N)
    BY FS_Interval
  <2> QED BY <1>1, <2>1, FS_Subset
<1>3. \E m \in T : \A n \in T : n <= m
  <2> HIDE DEF T
  <2>1. Greatest(T) \in T /\ \A n \in T : n <= Greatest(T)
    BY <1>1, <1>2, LastOf
  <2> QED BY <2>1
<1> QED BY <1>3

\* "CVE": the host count of the finding is that of the hosts it selects, of which a window
\* leaves at most all.
LEMMA TopVulnSelects ==
    ASSUME KnownWell, FactsWell, \E ip \in DOMAIN intel : intel[ip].vulns # {},
           NEW since, NEW until
    PROVE  /\ TopVuln.hosts = Cardinality(ShodanHosts("", TopVuln.vuln, None, None))
           /\ TopVuln.hosts >= Cardinality(ShodanHosts("", TopVuln.vuln, since, until))
<1> DEFINE vulns == UNION {intel[ip].vulns : ip \in DOMAIN intel}
           of(x) == {ip \in DOMAIN intel : x \in intel[ip].vulns}
           hosts(x) == Cardinality(of(x))
           size == [x \in vulns |-> hosts(x)]
           N == Cardinality(DOMAIN intel)
           top == CHOOSE x \in vulns : \A y \in vulns : hosts(x) >= hosts(y)
<1>1. N \in Nat /\ \A x : hosts(x) \in 0 .. N
  <2>1. \A x : of(x) \subseteq DOMAIN intel
    OBVIOUS
  <2> HIDE DEF of
  <2>2. \A x : /\ IsFiniteSet(of(x)) /\ Cardinality(of(x)) <= Cardinality(DOMAIN intel)
               /\ Cardinality(of(x)) \in Nat
    BY <2>1, FS_Subset, FS_CardinalityType DEF KnownWell
  <2>3. Cardinality(DOMAIN intel) \in Nat
    BY FS_CardinalityType DEF KnownWell
  <2> QED BY <2>2, <2>3
<1>2. \E x \in vulns : \A y \in vulns : hosts(x) >= hosts(y)
  <2>1. \A x \in vulns : size[x] = hosts(x) /\ size[x] \in 0 .. N
    BY <1>1
  <2> HIDE DEF hosts, size, vulns, N
  <2>2. \E x \in vulns : \A y \in vulns : size[x] >= size[y]
    <3>1. vulns # {}
      BY DEF vulns
    <3> QED BY <1>1, <2>1, <3>1, LargestExists
  <2> QED BY <2>1, <2>2
<1>3. top \in vulns
  <2> HIDE DEF vulns, hosts
  <2> QED BY <1>2, Zenon
<1>4. TopVuln = [vuln |-> top, hosts |-> hosts(top)]
  BY DEF TopVuln
<1>5. top # ""
  BY <1>3 DEF FactsWell
<1> HIDE DEF top
<1>6. /\ ShodanHosts("", top, None, None) = of(top)
      /\ ShodanHosts("", top, since, until) \subseteq of(top)
      /\ of(top) \subseteq DOMAIN intel
  BY <1>5 DEF ShodanHosts, SeenInWindow
<1> HIDE DEF of
<1>7. TopVuln.vuln = top /\ TopVuln.hosts = Cardinality(of(top))
  BY <1>4
<1>8. IsFiniteSet(of(top))
  BY <1>6, FS_Subset DEF KnownWell
<1>9. /\ Cardinality(ShodanHosts("", top, since, until)) <= Cardinality(of(top))
      /\ Cardinality(ShodanHosts("", top, since, until)) \in Nat /\ Cardinality(of(top)) \in Nat
  BY <1>6, <1>8, FS_Subset, FS_CardinalityType
<1> QED BY <1>6, <1>7, <1>9

\* An address the threats chip keeps, and the threats of an open window.
IsThreat(ip) == Enriched(ip) /\ intel[ip].class.group = "threats"
Threats(g, since) ==
  /\ g.since = since /\ g.until = None /\ g.ip = None /\ g.min = 0 /\ g.drill = {}
  /\ g.terms = {} /\ g.signals = {} /\ g.classes = {Class("threats", "")}

\* The rows a list of threats keeps.
LEMMA ThreatRows ==
    ASSUME KnownWell, NEW g, NEW since, Threats(g, since)
    PROVE  Kept(g) = {v \in Within(visits, since, None) :
                        IsThreat(v.ip) /\ SeenFilter(v.ip, g.seen, since)}
<1> DEFINE threat == Class("threats", "")
<1>1. \A ip : ClassFilter({threat}, ip) <=> IsThreat(ip)
  <2> TAKE ip
  <2>1. "threats" \in GroupsWithUnknown /\ "threats" \in Groups
    BY DEF GroupsWithUnknown, Groups
  <2>2. ClassFilter({threat}, ip) <=> Label(Intel(ip).class) = "threats"
    BY <2>1, GroupFilter
  <2>3. Label(Intel(ip).class) = "threats" <=> Intel(ip).class.group = "threats"
    BY DEF Label
  <2>4. ~ Enriched(ip) => Label(Intel(ip).class) # "threats"
    BY <2>1, UnknownHasNothing DEF Enriched
  <2>5. Enriched(ip) => Intel(ip) = intel[ip]
    BY DEF Intel
  <2> QED BY <2>2, <2>3, <2>4, <2>5 DEF IsThreat
<1>2. g.classes = {threat}
  BY DEF Threats
<1> HIDE DEF threat
<1>3. \A v : DrillDown(v, {}) /\ VisitorSearch({}, v, since, None) /\ SignalFilter({}, v.ip)
  BY DEF DrillDown, VisitorSearch, SignalFilter
<1>4. VisitorRows(g) = {v \in Within(visits, since, None) :
                          IsThreat(v.ip) /\ SeenFilter(v.ip, g.seen, since)}
  BY <1>1, <1>2, <1>3, Zenon DEF Threats, VisitorRows
<1> QED BY <1>4, NoBar DEF Kept, Threats

\* "New threats": the finding counts the threats whose first request came today, which is
\* what New of today lists.
LEMMA NewThreatsAreListed ==
    ASSUME MomentsWell, KnownWell, NEW since \in Nat, NEW g, Threats(g, since), g.seen = "new"
    PROVE  NewThreats(since) = VisitorCount(g)
<1> DEFINE before(ip) == \E v \in visits : v.ip = ip /\ v.at < since
           first(ip) == Least({v.at : v \in OfAddress(visits, ip)})
           isThreat(ip) == IsThreat(ip)
<1>1. Kept(g) = {v \in Within(visits, since, None) : isThreat(v.ip) /\ ~ before(v.ip)}
  <2>1. \A ip : SeenFilter(ip, g.seen, since) <=> ~ before(ip)
    BY DEF SeenFilter, None
  <2>2. Kept(g) = {v \in Within(visits, since, None) :
                     IsThreat(v.ip) /\ SeenFilter(v.ip, g.seen, since)}
    BY ThreatRows, Zenon
  <2> HIDE DEF before
  <2> QED BY <2>1, <2>2, Zenon
<1>2. \A v \in visits : InWindow(v.at, since, None) <=> v.at >= since
  BY DEF InWindow, None
<1>3. \A ip \in Addresses(visits) : first(ip) >= since <=> ~ before(ip)
  <2> TAKE ip \in Addresses(visits)
  <2> DEFINE times == {v.at : v \in OfAddress(visits, ip)}
  <2>1. times \subseteq Nat /\ times # {}
    BY DEF MomentsWell, OfAddress, Addresses
  <2>2. before(ip) <=> \E n \in times : n < since
    BY DEF OfAddress
  <2>3. first(ip) = Least(times)
    OBVIOUS
  <2> HIDE DEF times, before, first
  <2>4. Least(times) \in times /\ \A n \in times : Least(times) <= n
    BY <2>1, FirstOfChain
  <2>5. Least(times) >= since <=> ~ \E n \in times : n < since
    <3> DEFINE l == Least(times)
    <3>1. l \in times /\ \A n \in times : n \in Nat /\ l <= n
      BY <2>1, <2>4
    <3> HIDE DEF l
    <3>2. l >= since => \A n \in times : ~ (n < since)
      BY <3>1
    <3>3. l < since => \E n \in times : n < since
      BY <3>1
    <3>4. l >= since \/ l < since
      BY <3>1
    <3> QED BY <3>2, <3>3, <3>4 DEF l
  <2> QED BY <2>2, <2>3, <2>5, Zenon
<1>4. Addresses(Kept(g)) = {ip \in Addresses(visits) : isThreat(ip) /\ first(ip) >= since}
  <2>1. \A v \in visits : ~ before(v.ip) => v.at >= since
    BY DEF MomentsWell
  <2>2. Kept(g) = {v \in visits : isThreat(v.ip) /\ ~ before(v.ip)}
    BY <1>1, <1>2, <2>1 DEF Within
  <2> HIDE DEF isThreat, before, first
  <2>3. Addresses(Kept(g)) = {ip \in Addresses(visits) : isThreat(ip) /\ ~ before(ip)}
    BY <2>2 DEF Addresses
  <2> QED BY <1>3, <2>3
<1>5. NewThreats(since) = Cardinality({ip \in Addresses(visits) : isThreat(ip) /\ first(ip) >= since})
  <2>1. {ip \in Addresses(visits) : /\ Enriched(ip) /\ intel[ip].class.group = "threats"
                                    /\ Least({v.at : v \in OfAddress(visits, ip)}) >= since}
        = {ip \in Addresses(visits) : isThreat(ip) /\ first(ip) >= since}
    BY Zenon DEF IsThreat
  <2> HIDE DEF isThreat, first
  <2> QED BY <2>1, Zenon DEF NewThreats
<1> QED BY <1>4, <1>5, PagerCounts

\* A list of threats that begins no later than the day lists every new one.
LEMMA NewThreatsAreAmong ==
    ASSUME FiniteLog, MomentsWell, KnownWell, NEW day \in Nat, NEW since \in {None} \union 0 .. day,
           NEW g, Threats(g, day), g.seen = "new", NEW h, Threats(h, since), h.seen = "total"
    PROVE  NewThreats(day) <= VisitorCount(h)
<1>1. Kept(g) \subseteq Kept(h)
  <2>1. \A v \in visits : InWindow(v.at, day, None) => InWindow(v.at, since, None)
    BY DEF InWindow, None, MomentsWell
  <2>2. \A ip : SeenFilter(ip, "total", since)
    BY DEF SeenFilter
  <2> QED BY <2>1, <2>2, ThreatRows DEF Within
<1>2. Kept(h) \subseteq visits
  BY ThreatRows DEF Within
<1>3. /\ IsFiniteSet(Addresses(Kept(h)))
      /\ Addresses(Kept(g)) \subseteq Addresses(Kept(h))
  BY <1>1, <1>2, FS_Subset, FiniteAddresses DEF Addresses, FiniteLog
<1>4. /\ Cardinality(Addresses(Kept(g))) <= Cardinality(Addresses(Kept(h)))
  BY <1>3, FS_Subset
<1> QED BY <1>4, NewThreatsAreListed, PagerCounts

\* "Rate limit": the finding is there exactly when its chart has a day.
LEMMA ThrottledIsDrawn ==
    ASSUME FiniteLog, MomentsWell, NEW since \in Nat
    PROVE  Throttled(since) > 0 <=> DOMAIN RateLimitTimeline(since, None) # {}
<1> DEFINE Held(v) == v.limit \in {"DELAYED", "REJECTED"} /\ v.at >= since
           of(ip) == {v \in OfAddress(visits, ip) : Held(v)}
           counts == {Cardinality(of(ip)) : ip \in Addresses(visits)}
<1>1. DOMAIN RateLimitTimeline(since, None) # {} <=> \E v \in visits : Held(v)
  <2>1. \A v \in visits : InWindow(v.at, since, None) <=> v.at >= since
    BY DEF InWindow, None
  <2> QED BY <2>1 DEF RateLimitTimeline, Within
<1>2. CASE visits = {}
  <2>1. Throttled(since) = 0
    BY <1>2 DEF Throttled
  <2> QED BY <1>1, <1>2, <2>1
<1>3. CASE visits # {}
  <2>1. Throttled(since) = Greatest(counts)
    BY <1>3 DEF Throttled
  <2>2. \A ip : IsFiniteSet(of(ip)) /\ Cardinality(of(ip)) \in Nat
    <3> TAKE ip
    <3>1. of(ip) \subseteq visits
      BY DEF OfAddress
    <3> HIDE DEF of
    <3> QED BY <3>1, FS_Subset, FS_CardinalityType DEF FiniteLog
  <2>3. counts \subseteq Nat /\ counts # {}
    <3>1. Addresses(visits) # {}
      BY <1>3 DEF Addresses
    <3> HIDE DEF of
    <3> QED BY <2>2, <3>1
  <2>4. IsFiniteSet(counts)
    <3> DEFINE c == [ip \in Addresses(visits) |-> Cardinality(of(ip))]
    <3>1. counts = {c[ip] : ip \in Addresses(visits)} /\ DOMAIN c = Addresses(visits)
      OBVIOUS
    <3> HIDE DEF c, counts
    <3>2. IsFiniteSet(Addresses(visits))
      BY FiniteAddresses DEF FiniteLog
    <3> QED BY <3>1, <3>2, ImageCount
  <2>5. (\E v \in visits : Held(v)) <=> \E ip \in Addresses(visits) : of(ip) # {}
    <3>1. \A v \in visits : Held(v) => v.ip \in Addresses(visits) /\ v \in of(v.ip)
      BY DEF Addresses, OfAddress
    <3>2. \A ip, v : v \in of(ip) => v \in visits /\ Held(v)
      BY DEF OfAddress
    <3> HIDE DEF Held, of
    <3> QED BY <3>1, <3>2
  <2>6. \A ip : of(ip) # {} <=> Cardinality(of(ip)) > 0
    <3> TAKE ip
    <3> HIDE DEF of
    <3>1. Cardinality(of(ip)) = 0 <=> of(ip) = {}
      BY <2>2, FS_EmptySet
    <3> QED BY <2>2, <3>1
  <2>7. (\E v \in visits : Held(v)) <=> \E n \in counts : n > 0
    <3> HIDE DEF Held, of
    <3> QED BY <2>5, <2>6
  <2> HIDE DEF counts
  <2>8. Greatest(counts) \in counts /\ \A n \in counts : n <= Greatest(counts)
    BY <2>3, <2>4, LastOf
  <2>9. Throttled(since) > 0 <=> \E n \in counts : n > 0
    <3> DEFINE m == Greatest(counts)
    <3>1. m \in counts /\ \A n \in counts : n \in Nat /\ n <= m
      BY <2>3, <2>8
    <3> HIDE DEF m
    <3>2. m > 0 <=> \E n \in counts : n > 0
      BY <3>1
    <3> QED BY <2>1, <3>2 DEF m
  <2> HIDE DEF Held
  <2> QED BY <1>1, <2>7, <2>9, Zenon
<1> QED BY <1>2, <1>3

-----------------------------------------------------------------------------
(* The neighbourhood of an address *)

\* One group at most has a majority of the peers of either scope, and if one has it, it is
\* the one shown.
LEMMA MajorityIsOne ==
    ASSUME FiniteLog, KnownWell, NEW ip, NEW scope, NEW b, b = Neighbourhood(ip, scope)
    PROVE  /\ Sum(b.group) = b.unique_ips
           /\ DominantGroup(b) # "" =>
                \A g \in GroupsWithUnknown \ {DominantGroup(b)} : 2 * b.group[g] < b.unique_ips
<1> DEFINE rows == {v \in visits : v.ip \in Peers(ip, scope)}
           in(g) == {v \in rows : GroupMatch(g, Intel(v.ip).class)}
           N == b.unique_ips
           G == GroupsWithUnknown
<1>1. /\ b.unique_ips = Distinct(rows) /\ DOMAIN b.group = G
      /\ \A g \in G : b.group[g] = Distinct(in(g))
  <2>1. b \in {Breakdown(rows)}
    BY DEF Neighbourhood
  <2> HIDE DEF rows
  <2> QED BY <2>1, CountsOfRow
<1>2. IsFiniteSet(rows)
  BY FS_Subset DEF FiniteLog
<1> HIDE DEF rows
<1>3. Sum(b.group) = b.unique_ips
  BY <1>1, <1>2, AddressesByGroup
<1>4. N \in Nat /\ IsFiniteSet(Addresses(rows))
  BY <1>1, <1>2, FiniteAddresses, FS_CardinalityType DEF Distinct
<1>5. \A g \in G : in(g) \subseteq rows /\ Addresses(in(g)) \subseteq Addresses(rows)
  BY DEF Addresses
<1>6. \A g, h \in G : g # h => Addresses(in(g)) \cap Addresses(in(h)) = {}
  <2> TAKE g, h \in G
  <2> HAVE g # h
  <2>1. \A i : ~ (GroupMatch(g, Intel(i).class) /\ GroupMatch(h, Intel(i).class))
    BY EveryClassLabelled, OneGroup
  <2> QED BY <2>1 DEF Addresses
<1> HIDE DEF in
<1>7. \A g \in G : IsFiniteSet(Addresses(in(g))) /\ b.group[g] \in 0 .. N
  <2> TAKE g \in G
  <2>1. /\ IsFiniteSet(Addresses(in(g)))
        /\ Cardinality(Addresses(in(g))) <= Cardinality(Addresses(rows))
        /\ Cardinality(Addresses(in(g))) \in Nat
    BY <1>4, <1>5, FS_Subset, FS_CardinalityType
  <2> QED BY <1>1, <1>4, <2>1 DEF Distinct
<1>8. \A g, h \in G : g # h => b.group[g] + b.group[h] <= N
  <2> TAKE g, h \in G
  <2> HAVE g # h
  <2> DEFINE X == Addresses(in(g))
             Y == Addresses(in(h))
             A == Addresses(rows)
  <2>1. /\ IsFiniteSet(X) /\ IsFiniteSet(Y) /\ X \cap Y = {} /\ X \cup Y \subseteq A
        /\ b.group[g] = Cardinality(X) /\ b.group[h] = Cardinality(Y) /\ N = Cardinality(A)
        /\ IsFiniteSet(A)
    BY <1>1, <1>4, <1>5, <1>6, <1>7 DEF Distinct
  <2> HIDE DEF X, Y, A, N
  <2>2. Cardinality(X \cup Y) = Cardinality(X) + Cardinality(Y) - Cardinality(X \cap Y)
    BY <2>1, FS_Union
  <2>3. Cardinality(X \cap Y) = 0
    BY <2>1, FS_EmptySet
  <2>4. Cardinality(X \cup Y) <= Cardinality(A)
    BY <2>1, FS_Subset
  <2>5. Cardinality(X) \in Nat /\ Cardinality(Y) \in Nat /\ Cardinality(A) \in Nat
    BY <2>1, FS_CardinalityType
  <2> QED BY <2>1, <2>2, <2>3, <2>4, <2>5
<1> DEFINE largest == CHOOSE g \in G : \A h \in G : b.group[g] >= b.group[h]
<1>9. largest \in G
  <2>1. \E g \in G : \A h \in G : b.group[g] >= b.group[h]
    <3> DEFINE size == b.group
    <3>1. G # {} /\ \A g \in G : size[g] \in 0 .. N
      BY <1>7 DEF GroupsWithUnknown
    <3> HIDE DEF size, N, G
    <3>2. \E g \in G : \A h \in G : size[g] >= size[h]
      BY <1>4, <3>1, LargestExists
    <3> QED BY <3>2 DEF size
  <2> HIDE DEF G
  <2> QED BY <2>1, Zenon
<1>10. DominantGroup(b) = IF b.unique_ips >= MajorityOf /\ 2 * b.group[largest] > b.unique_ips
                            THEN largest ELSE ""
  BY DEF DominantGroup
<1> HIDE DEF largest
<1>11. ASSUME DominantGroup(b) # "", NEW g \in G \ {DominantGroup(b)}
       PROVE  2 * b.group[g] < b.unique_ips
  <2>1. DominantGroup(b) = largest /\ 2 * b.group[largest] > N
    BY <1>10, <1>11
  <2> DEFINE x == b.group[g]
             y == b.group[largest]
  <2>2. x + y <= N /\ 2 * y > N
    <3>1. g \in G /\ g # largest
      BY <1>11, <2>1
    <3> QED BY <1>8, <1>9, <2>1, <3>1
  <2>3. x \in Int /\ y \in Int /\ N \in Int
    <3>1. b.group[g] \in 0 .. N /\ b.group[largest] \in 0 .. N
      BY <1>7, <1>9, <1>11
    <3> QED BY <1>4, <3>1
  <2> HIDE DEF x, y, N
  <2>4. 2 * x < N
    BY <2>2, <2>3
  <2> QED BY <2>4 DEF x, N
<1> QED BY <1>3, <1>11


-----------------------------------------------------------------------------
(* Every figure and its list *)

\* On every finite log of answers, with classes labelled and facts named, every figure and
\* the list it opens agree as far as their filters do.
LEMMA FiguresOfTheLog ==
    ASSUME FiniteLog, MomentsWell, KnownWell, StatusWell, FactsWell
    PROVE  FiguresMatchTheirList
<1>1. Filters \subseteq Filter
  BY QueriesAssumption DEF SelectionAssumption
<1>2. \A f \in Filters : Grouped(f) => RowsMatchTheirDrawer(f) /\ BandsPartition(f)
  BY <1>1, RowsAreTheirDrawer, BandsCountOnce
<1>3. \A f \in Filters :
         Grouped(f) /\ Plain(f) /\ {f.since, f.until} # {None} => FiguresOfWindow(f)
  BY <1>1, WindowFigures
<1>4. ASSUME NEW f \in Filters PROVE VulnIsListed(f)
  BY TopVulnSelects DEF VulnIsListed
<1>5. ASSUME NEW f \in Filters, Grouped(f), Plain(f), f.since # None
      PROVE  FindingsMatch(f)
  <2> DEFINE threats == [f EXCEPT !.classes = {Class("threats", "")}, !.until = None]
             new == [threats EXCEPT !.seen = "new"]
             listed(since) == [threats EXCEPT !.since = since]
  <2>1. f \in Filter /\ f.since \in Nat
    BY <1>1, <1>5 DEF Filter, Moment
  <2>2. Threats(new, f.since) /\ new.seen = "new"
    BY <1>5, <2>1 DEF Filter, Plain, Grouped, Threats
  <2>3. \A since : Threats(listed(since), since) /\ listed(since).seen = "total"
    BY <1>5, <2>1 DEF Filter, Plain, Grouped, Threats
  <2> HIDE DEF new, listed
  <2>4. NewThreats(f.since) = VisitorCount(new)
    BY <2>1, <2>2, NewThreatsAreListed
  <2>5. \A since \in {None} \union 0 .. f.since : NewThreats(f.since) <= VisitorCount(listed(since))
    BY <2>1, <2>2, <2>3, NewThreatsAreAmong
  <2>6. Throttled(f.since) > 0 <=> DOMAIN RateLimitTimeline(f.since, None) # {}
    BY <2>1, ThrottledIsDrawn
  <2> QED BY <2>4, <2>5, <2>6, Zenon DEF FindingsMatch, new, listed
<1>6. \A ip \in Addresses(visits) : OneMajority(ip)
  BY MajorityIsOne DEF OneMajority
<1> QED BY <1>2, <1>3, <1>4, <1>5, <1>6, Zenon DEF FiguresMatchTheirList

\* What the log and the facts are besides.
FiguresInv == SelectionInv /\ (part = "selection" => StatusWell /\ FactsWell)

\* It holds of the empty log.
LEMMA FiguresInit == Init => FiguresInv
<1> SUFFICES ASSUME Init PROVE FiguresInv
  OBVIOUS
<1>1. visits = {} /\ intel = <<>>
  BY DEF Init
<1>2. DOMAIN intel = {}
  BY <1>1
<1> QED BY <1>1, <1>2, SelectionInit DEF FiguresInv, StatusWell, FactsWell

\* A visit that is recorded and a finding that is learnt keep it.
LEMMA FiguresStep ==
    ASSUME FiguresInv, [Next]_<<rowVars, part>>
    PROVE  FiguresInv'
<1>1. SelectionInv'
  BY SelectionStep DEF FiguresInv
<1>2. part' = part
  BY DEF Next, RecordOne, LearnOne
<1> SUFFICES ASSUME part = "selection" PROVE StatusWell' /\ FactsWell'
  BY <1>1, <1>2 DEF FiguresInv
<1>3. StatusWell /\ FactsWell
  BY DEF FiguresInv
<1>4. ASSUME NEW s \in Senders, NEW at \in {0, 1, 4}, Record(s[1], at, s[2])
      PROVE  StatusWell' /\ FactsWell'
  <2> DEFINE row == Row(Cardinality(visits) + 1, s[1], at, s[2])
  <2>1. visits' = visits \union {row} /\ intel' = intel
    BY <1>4 DEF Record
  <2>2. /\ DOMAIN s[2] = {"path", "browser", "os", "port", "status", "limit"}
        /\ s[2].status \in {200, 404}
    <3> DEFINE r1 == Request("/", "Firefox", "Linux", "443", 200, "")
               r2 == Request("/.env", "", "Windows", "80", 404, "DELAYED")
               r3 == Request("/", "Firefox", "Android", "443", 200, "")
               Well(r) == /\ DOMAIN r = {"path", "browser", "os", "port", "status", "limit"}
                          /\ r.status \in {200, 404}
    <3>1. Well(r1) /\ Well(r2) /\ Well(r3)
      BY DEF Request
    <3>2. s = <<1, r1>> \/ s = <<1, r2>> \/ s = <<2, r3>>
      BY DEF Senders
    <3> HIDE DEF r1, r2, r3
    <3>3. s[2] = r1 \/ s[2] = r2 \/ s[2] = r3
      BY <3>2
    <3> QED BY <3>1, <3>3
  <2>3. row.status \in {200, 404}
    BY <2>2 DEF Row
  <2> HIDE DEF row
  <2>4. StatusWell'
    BY <1>3, <2>1, <2>3 DEF StatusWell
  <2>5. FactsWell'
    BY <1>3, <2>1 DEF FactsWell
  <2> QED BY <2>4, <2>5
<1>5. ASSUME NEW l \in SelectionFacts, Learn(l[1], l[2])
      PROVE  StatusWell' /\ FactsWell'
  <2>1. /\ intel' = [i \in DOMAIN intel \union {l[1]} |-> IF i = l[1] THEN l[2] ELSE intel[i]]
        /\ visits' = visits
    BY <1>5 DEF Learn
  <2>2. DOMAIN intel' = DOMAIN intel \union {l[1]}
    BY <2>1
  <2>3. \A ip \in DOMAIN intel' : intel'[ip] = IF ip = l[1] THEN l[2] ELSE intel[ip]
    BY <2>1
  <2>4. "" \notin l[2].tags /\ "" \notin l[2].vulns
    <3> DEFINE f1 == Fact(Class("threats", "exploit"), "FR", {"is_tor"}, {"scanner"}, {"CVE"}, TRUE)
               f2 == Fact(Class("humans", "browser"), "DE", {"is_mobile"}, {}, {"CVE"}, TRUE)
               f3 == Fact(Class("unknown", ""), "", {"is_hosting"}, {}, {}, FALSE)
    <3>1. /\ "" \notin f1.tags /\ "" \notin f1.vulns
          /\ "" \notin f2.tags /\ "" \notin f2.vulns
          /\ "" \notin f3.tags /\ "" \notin f3.vulns
      BY DEF Fact
    <3>2. l = <<1, f1>> \/ l = <<2, f2>> \/ l = <<2, f3>>
      BY DEF SelectionFacts
    <3> HIDE DEF f1, f2, f3
    <3>3. l[2] = f1 \/ l[2] = f2 \/ l[2] = f3
      BY <3>2
    <3> QED BY <3>1, <3>3
  <2> QED BY <1>3, <2>1, <2>2, <2>3, <2>4 DEF StatusWell, FactsWell
<1>6. CASE RecordOne
  BY <1>4, <1>6 DEF RecordOne
<1>7. CASE LearnOne
  BY <1>5, <1>7 DEF LearnOne
<1>8. CASE UNCHANGED <<rowVars, part>>
  BY <1>3, <1>8 DEF rowVars, StatusWell, FactsWell
<1> QED BY <1>6, <1>7, <1>8 DEF Next

\* For every set of filters, every size of the log and every day length: the matrix, the
\* tiles, the feed, the facets and the rows of the one-column groupings count what the list
\* they open holds; the clients of a browser make up the drawer they share; and the findings
\* of a day are among what their links list.
THEOREM FiguresAgreeWithTheirLists == Spec => []SelectionFiguresMatch
<1>1. FiguresInv => SelectionFiguresMatch
  BY FiguresOfTheLog DEF FiguresInv, SelectionInv, SelectionFiguresMatch
<1>2. FiguresInv /\ [Next]_<<rowVars, part>> => FiguresInv'
  BY FiguresStep
<1> QED BY <1>1, <1>2, FiguresInit, PTL DEF Spec


-----------------------------------------------------------------------------
(* The exposure page *)

\* The sum of the requests of a list's rows.
LEMMA HitsAddUp ==
    ASSUME NEW S, IsFiniteSet(S), \A x \in S : x.hits \in Int
    PROVE  MapThenSumSet(LAMBDA x : x.hits, S) = Sum([x \in S |-> x.hits])
<1> DEFINE f == [x \in S |-> x.hits]
           Is(g) == g = [s \in SUBSET S |->
                           IF s = {} THEN 0 ELSE Pick(s).hits + g[s \ {Pick(s)}]]
<1>1. MapThenSumSet(LAMBDA x : x.hits, S) = (CHOOSE g : Is(g))[S]
  BY DEF MapThenSumSet, MapThenFoldSet, Pick
<1>2. \A s \in SUBSET S : s # {} => Pick(s) \in S /\ f[Pick(s)] = Pick(s).hits
  BY DEF Pick
<1>3. DOMAIN f = S /\ \A x \in S : f[x] \in Int
  OBVIOUS
<1>4. ASSUME NEW g, Adds(g, f, S) PROVE Is(g)
  BY <1>2, <1>4 DEF Adds
<1>5. ASSUME NEW g, Is(g) PROVE Adds(g, f, S)
  BY <1>2, <1>5 DEF Adds
<1> HIDE DEF f, Is
<1>6. PICK g : Adds(g, f, S) /\ Sum(f) = g[S]
  BY <1>3, SumIsAdded
<1>7. Is(CHOOSE h : Is(h))
  BY <1>4, <1>6, Zenon
<1>8. (CHOOSE h : Is(h))[S] = g[S]
  BY <1>3, <1>5, <1>6, <1>7, AddsOnce
<1> QED BY <1>1, <1>6, <1>8 DEF f

\* What was fetched of a file in a window, and the spellings it was fetched by.
Fetched(c, since, until) == Within(FetchedAs(Spellings(c)), since, until)
Tried(c, since, until) == {v.path : v \in Fetched(c, since, until)}

\* The row of one spelling, and the rows that fold into one.
PathRow(p, since, until) ==
  [path |-> p,
   ips |-> Cardinality(Addresses({v \in Fetched(CanonicalPath(p), since, until) : v.path = p})),
   hits |-> Cardinality({v \in Fetched(CanonicalPath(p), since, until) : v.path = p}),
   benign_ips |-> Cardinality(BenignEver({p}))]
Folded(c, since, until) ==
  {r \in PathRows(since, until) : CanonicalPath(r.path) = c}

\* The log is finite, so is all that is read from it here.
LEMMA FetchedIsFinite ==
    ASSUME FiniteLog, NEW c, NEW since, NEW until
    PROVE  /\ IsFiniteSet(Fetched(c, since, until)) /\ IsFiniteSet(Tried(c, since, until))
           /\ Fetched(c, since, until) \subseteq visits
<1> DEFINE rows == Fetched(c, since, until)
           f == [v \in rows |-> v.path]
<1>1. rows \subseteq visits
  BY DEF Fetched, Within, FetchedAs
<1>2. IsFiniteSet(rows)
  BY <1>1, FS_Subset DEF FiniteLog
<1>3. Tried(c, since, until) = {f[v] : v \in rows}
  BY DEF Tried
<1>4. DOMAIN f = rows
  OBVIOUS
<1> HIDE DEF rows, f
<1>5. IsFiniteSet({f[v] : v \in rows})
  BY <1>2, <1>4, ImageCount
<1> QED BY <1>1, <1>2, <1>3, <1>5 DEF rows

\* Which spellings fold into a row, and what each of them counts.
LEMMA FoldedRows ==
    ASSUME NEW c, NEW since, NEW until
    PROVE  /\ Folded(c, since, until) =
                {PathRow(p, since, until) : p \in Tried(c, since, until)}
           /\ {r.path : r \in Folded(c, since, until)} = Tried(c, since, until)
<1> DEFINE rows == Within(FetchedAs({p \in DOMAIN Form : ~ Form[p].query}), since, until)
           row(p) == [path |-> p,
                      ips |-> Cardinality(Addresses({v \in rows : v.path = p})),
                      hits |-> Cardinality({v \in rows : v.path = p}),
                      benign_ips |-> Cardinality(BenignEver({p}))]
<1>1. PathRows(since, until) = {row(p) : p \in {v.path : v \in rows}}
  BY DEF PathRows
<1>2. \A v : v \in Fetched(c, since, until) <=> v \in rows /\ CanonicalPath(v.path) = c
  BY DEF Fetched, Within, FetchedAs, Spellings
<1>3. \A p : p \in Tried(c, since, until) <=>
               p \in {v.path : v \in rows} /\ CanonicalPath(p) = c
  BY <1>2 DEF Tried
<1>4. \A p \in Tried(c, since, until) : row(p) = PathRow(p, since, until)
  <2> TAKE p \in Tried(c, since, until)
  <2>1. CanonicalPath(p) = c
    BY <1>3
  <2>2. {v \in rows : v.path = p} = {v \in Fetched(c, since, until) : v.path = p}
    BY <1>2, <2>1
  <2> QED BY <2>1, <2>2 DEF PathRow
<1>5. \A p : row(p).path = p
  OBVIOUS
<1> HIDE DEF rows, row
<1>6. Folded(c, since, until) = {row(p) : p \in Tried(c, since, until)}
  BY <1>1, <1>3, <1>5 DEF Folded
<1>7. {r.path : r \in Folded(c, since, until)} = Tried(c, since, until)
  BY <1>5, <1>6
<1> QED BY <1>4, <1>6, <1>7

\* Asking again by the spellings finds the same requests.
LEMMA AskedAgain ==
    ASSUME NEW c, NEW since, NEW until
    PROVE  Within(FetchedAs(Tried(c, since, until)), since, until) = Fetched(c, since, until)
BY DEF Tried, Fetched, Within, FetchedAs

\* On a page without a window they are all the spellings that were ever fetched.
LEMMA AllSpellings ==
    ASSUME NEW c
    PROVE  BenignEver(Tried(c, None, None)) = BenignEver(Spellings(c))
<1>1. FetchedAs(Tried(c, None, None)) = FetchedAs(Spellings(c))
  BY DEF Tried, Fetched, Within, InWindow, FetchedAs
<1> QED BY <1>1 DEF BenignEver

\* A row counts the addresses and the requests of its file, each once.
LEMMA RowCounts ==
    ASSUME FiniteLog, NEW c, NEW since, NEW until, Tried(c, since, until) # {},
           NEW r, r = ServedPath(c, Folded(c, since, until), since, until)
    PROVE  /\ r.path = c /\ r.spellings = Tried(c, since, until)
           /\ r.hits = Cardinality(Fetched(c, since, until))
           /\ r.ips = Cardinality(Addresses(Fetched(c, since, until)))
           /\ r.is_finding => Cardinality(BenignEver(Tried(c, since, until))) < BenignForSite
<1> DEFINE group == Folded(c, since, until)
           fetched == Fetched(c, since, until)
           tried == Tried(c, since, until)
           row == [p \in tried |-> PathRow(p, since, until)]
           counts == FoldedCounts(group, since, until)
           hits == [g \in group |-> g.hits]
           F == [g \in group |-> {v \in fetched : v.path = g.path}]
<1>1. /\ r.path = c /\ r.spellings = {g.path : g \in group}
      /\ r.hits = MapThenSumSet(LAMBDA g : g.hits, group)
      /\ r.ips = counts.ips
      /\ r.is_finding => counts.benign_ips < BenignForSite
  BY DEF ServedPath
<1>2. group = {row[p] : p \in tried} /\ {g.path : g \in group} = tried
  BY FoldedRows
<1>3. IsFiniteSet(fetched) /\ IsFiniteSet(tried)
  BY FetchedIsFinite
<1>4. \A p \in tried : CanonicalPath(p) = c
  BY DEF Tried, Fetched, Within, FetchedAs, Spellings
<1>5. \A p \in tried : /\ row[p].path = p
                       /\ row[p].hits = Cardinality({v \in fetched : v.path = p})
                       /\ row[p].ips = Cardinality(Addresses({v \in fetched : v.path = p}))
                       /\ row[p].benign_ips = Cardinality(BenignEver({p}))
  BY <1>4 DEF PathRow
<1>6. DOMAIN row = tried
  OBVIOUS
<1>7. \A v \in fetched : v.path \in tried
  BY DEF Tried
<1>8. Within(FetchedAs(tried), since, until) = fetched
  BY AskedAgain
<1>9. counts = IF Cardinality(group) > 1
               THEN RecountFolded({g.path : g \in group}, since, until)
               ELSE [ips |-> Pick(group).ips, benign_ips |-> Pick(group).benign_ips]
  BY DEF FoldedCounts, Pick
<1>10. group # {}
  BY <1>2
<1>11. RecountFolded(tried, since, until).ips =
         Cardinality(Addresses(Within(FetchedAs(tried), since, until)))
       /\ RecountFolded(tried, since, until).benign_ips = Cardinality(BenignEver(tried))
  BY DEF RecountFolded
<1> HIDE DEF group, fetched, tried, row, counts
<1>12. IsFiniteSet(group) /\ Cardinality(group) \in Nat
  BY <1>2, <1>3, <1>6, ImageCount, FS_CardinalityType
<1>13. MapThenSumSet(LAMBDA g : g.hits, group) = Cardinality(fetched)
  <2>1. ASSUME NEW g \in group PROVE g.path \in tried /\ g = row[g.path]
    <3>1. PICK p \in tried : g = row[p]
      BY <1>2
    <3>2. g.path = p
      BY <1>5, <3>1
    <3> QED BY <3>1, <3>2
  <2>2. \A g \in group : IsFiniteSet({v \in fetched : v.path = g.path})
    BY <1>3, FS_Subset
  <2>3. \A g \in group : g.hits = Cardinality(F[g]) /\ g.hits \in Int
    <3> TAKE g \in group
    <3>1. g.path \in tried /\ g = row[g.path] /\ IsFiniteSet({v \in fetched : v.path = g.path})
      BY <2>1, <2>2
    <3>2. row[g.path].hits = Cardinality({v \in fetched : v.path = g.path})
      BY <1>5, <3>1
    <3>3. g.hits = Cardinality({v \in fetched : v.path = g.path})
      BY <3>1, <3>2
    <3>4. Cardinality({v \in fetched : v.path = g.path}) \in Int
      <4> DEFINE R == {v \in fetched : v.path = g.path}
      <4>1. IsFiniteSet(R)
        BY <3>1
      <4> HIDE DEF R
      <4>2. Cardinality(R) \in Int
        BY <4>1, FS_CardinalityType
      <4> QED BY <4>2 DEF R
    <3> QED BY <3>3, <3>4
  <2>4. /\ \A g \in group : F[g] \subseteq fetched
        /\ \A g, h \in group : g # h => F[g] \cap F[h] = {}
        /\ \A v \in fetched : \E g \in group : v \in F[g]
    <3>1. \A g \in group : F[g] \subseteq fetched
      OBVIOUS
    <3>2. \A g, h \in group : g.path = h.path => g = h
      BY <2>1
    <3>3. ASSUME NEW v \in fetched PROVE \E g \in group : v \in F[g]
      <4>1. row[v.path] \in group /\ row[v.path].path = v.path
        BY <1>2, <1>5, <1>7
      <4> QED BY <4>1
    <3> QED BY <3>1, <3>2, <3>3
  <2>5. DOMAIN hits = group /\ \A g \in group : hits[g] = Cardinality(F[g])
    BY <2>3
  <2>6. MapThenSumSet(LAMBDA g : g.hits, group) = Sum(hits)
    BY <1>12, <2>3, HitsAddUp
  <2> HIDE DEF hits, F
  <2>7. Sum(hits) = Cardinality(fetched)
    BY <1>3, <1>12, <2>4, <2>5, PartsOf
  <2> QED BY <2>6, <2>7
<1>14. counts.ips = Cardinality(Addresses(fetched))
       /\ counts.benign_ips = Cardinality(BenignEver(tried))
  <2>1. CASE Cardinality(group) > 1
    BY <1>2, <1>8, <1>9, <1>11, <2>1
  <2>2. CASE ~(Cardinality(group) > 1)
    <3>1. Cardinality(group) # 0
      BY <1>10, <1>12, FS_EmptySet
    <3>2. Cardinality(group) = 1
      BY <1>12, <2>2, <3>1
    <3>3. PICK g : group = {g}
      BY <1>12, <3>2, FS_Singleton
    <3>4. Pick(group) = g
      BY <3>3 DEF Pick
    <3>5. tried = {g.path} /\ g = row[g.path]
      <4>1. tried = {g.path}
        BY <1>2, <3>3
      <4>2. row[g.path] \in group
        BY <1>2, <4>1
      <4> QED BY <3>3, <4>1, <4>2
    <3>6. {v \in fetched : v.path = g.path} = fetched
      BY <1>7, <3>5
    <3>7. counts = [ips |-> g.ips, benign_ips |-> g.benign_ips]
      BY <1>9, <2>2, <3>4
    <3> QED BY <1>5, <3>5, <3>6, <3>7
  <2> QED BY <2>1, <2>2
<1> QED BY <1>1, <1>2, <1>13, <1>14 DEF fetched, tried

\* The panel of a row repeats its figures and sorts every address and every request once.
LEMMA PanelOfRow ==
    ASSUME FiniteLog, NEW c, NEW since, NEW until,
           NEW panel, panel = ExposureDetail(Tried(c, since, until), since, until)
    PROVE  /\ panel.ips = Cardinality(Addresses(Fetched(c, since, until)))
           /\ panel.hits = Cardinality(Fetched(c, since, until))
           /\ Entries(panel.classes, DOMAIN panel.classes) = panel.ips
           /\ Entries(panel.answers, DOMAIN panel.answers) = panel.hits
<1> DEFINE rows == Fetched(c, since, until)
           label(ip) == IF Intel(ip).class.group = "" THEN Class("unknown", "")
                                                      ELSE Intel(ip).class
           ips == Addresses(rows)
           labelled == [ip \in ips |-> label(ip)]
           labels == {labelled[ip] : ip \in ips}
           answered == [v \in rows |-> v.status]
           answers == {answered[v] : v \in rows}
<1>1. /\ panel.ips = Cardinality(ips) /\ panel.hits = Cardinality(rows)
      /\ panel.answers = [s \in answers |-> Cardinality({v \in rows : answered[v] = s})]
      /\ panel.classes = [l \in labels |-> Cardinality({ip \in ips : labelled[ip] = l})]
  <2>1. Within(FetchedAs(Tried(c, since, until)), since, until) = rows
    BY AskedAgain
  <2>2. /\ panel.ips = Cardinality(Addresses(rows)) /\ panel.hits = Cardinality(rows)
        /\ panel.answers = [s \in {v.status : v \in rows} |->
                              Cardinality({v \in rows : v.status = s})]
        /\ panel.classes = [l \in {label(ip) : ip \in Addresses(rows)} |->
                              Cardinality({ip \in Addresses(rows) : label(ip) = l})]
    <3> HIDE DEF rows
    <3> QED BY <2>1 DEF ExposureDetail
  <2> HIDE DEF rows, label
  <2>3. answers = {v.status : v \in rows} /\ labels = {label(ip) : ip \in ips}
    OBVIOUS
  <2>4. \A s : {v \in rows : answered[v] = s} = {v \in rows : v.status = s}
    OBVIOUS
  <2>5. \A l : {ip \in ips : labelled[ip] = l} = {ip \in ips : label(ip) = l}
    OBVIOUS
  <2> HIDE DEF answers, labels, answered, labelled
  <2>6. panel.answers = [s \in answers |-> Cardinality({v \in rows : answered[v] = s})]
    <3>1. panel.answers = [s \in answers |-> Cardinality({v \in rows : v.status = s})]
      BY <2>2, <2>3
    <3> QED BY <2>4, <3>1
  <2>7. panel.classes = [l \in labels |-> Cardinality({ip \in ips : labelled[ip] = l})]
    <3>1. panel.classes = [l \in labels |-> Cardinality({ip \in ips : label(ip) = l})]
      BY <2>2, <2>3
    <3> QED BY <2>5, <3>1
  <2> QED BY <2>2, <2>6, <2>7
<1>2. IsFiniteSet(rows) /\ IsFiniteSet(ips)
  BY FetchedIsFinite, FiniteAddresses
<1>3. DOMAIN labelled = ips /\ DOMAIN answered = rows
  OBVIOUS
<1>4. /\ \A ip \in ips : labelled[ip] \in labels
      /\ \A v \in rows : answered[v] \in answers
  OBVIOUS
<1> HIDE DEF rows, ips, labelled, answered
<1>5. IsFiniteSet(labels) /\ IsFiniteSet(answers)
  BY <1>2, <1>3, ImageCount
<1> HIDE DEF labels, answers
<1> DEFINE counted == [l \in labels |-> Cardinality({ip \in ips : labelled[ip] = l})]
           answering == [s \in answers |-> Cardinality({v \in rows : answered[v] = s})]
<1>6. /\ \A l \in labels : counted[l] \in Int
      /\ \A s \in answers : answering[s] \in Int
  <2>1. \A l : IsFiniteSet({ip \in ips : labelled[ip] = l})
    BY <1>2, FS_Subset
  <2>2. \A s : IsFiniteSet({v \in rows : answered[v] = s})
    BY <1>2, FS_Subset
  <2>3. ASSUME NEW l PROVE Cardinality({ip \in ips : labelled[ip] = l}) \in Int
    <3> DEFINE R == {ip \in ips : labelled[ip] = l}
    <3>1. IsFiniteSet(R)
      BY <2>1
    <3> HIDE DEF R
    <3>2. Cardinality(R) \in Int
      BY <3>1, FS_CardinalityType
    <3> QED BY <3>2 DEF R
  <2>4. ASSUME NEW s PROVE Cardinality({v \in rows : answered[v] = s}) \in Int
    <3> DEFINE R == {v \in rows : answered[v] = s}
    <3>1. IsFiniteSet(R)
      BY <2>2
    <3> HIDE DEF R
    <3>2. Cardinality(R) \in Int
      BY <3>1, FS_CardinalityType
    <3> QED BY <3>2 DEF R
  <2> QED BY <2>3, <2>4
<1>7. /\ DOMAIN counted = labels /\ DOMAIN answering = answers
      /\ \A l \in labels : counted[l] = Cardinality({ip \in ips : labelled[ip] = l})
      /\ \A s \in answers : answering[s] = Cardinality({v \in rows : answered[v] = s})
      /\ [l \in labels |-> counted[l]] = counted
      /\ [s \in answers |-> answering[s]] = answering
  OBVIOUS
<1>8. panel.classes = counted /\ panel.answers = answering
  BY <1>1
<1> HIDE DEF counted, answering
<1>9. Sum(counted) = Cardinality(ips)
  BY <1>2, <1>4, <1>5, <1>7, CountByKey
<1>10. Sum(answering) = Cardinality(rows)
  BY <1>2, <1>4, <1>5, <1>7, CountByKey
<1>11. Entries(counted, labels) = Sum([l \in labels |-> counted[l]])
  BY <1>5, <1>6, EntriesAddUp
<1>12. Entries(answering, answers) = Sum([s \in answers |-> answering[s]])
  BY <1>5, <1>6, EntriesAddUp
<1> QED BY <1>1, <1>7, <1>8, <1>9, <1>10, <1>11, <1>12 DEF rows, ips

\* What FindingsAreHonest asks of one row.
HonestRow(r, panel, fetched, since) ==
  /\ r.ips = Cardinality(Addresses(fetched))
  /\ r.hits = Cardinality(fetched)
  /\ panel.ips = r.ips /\ panel.hits = r.hits
  /\ MapThenSumSet(LAMBDA c : panel.classes[c], DOMAIN panel.classes) = r.ips
  /\ MapThenSumSet(LAMBDA s : panel.answers[s], DOMAIN panel.answers) = r.hits
  /\ (since = None /\ r.is_finding) =>
        Cardinality(BenignEver(Spellings(r.path))) < BenignForSite

\* On every finite log, whoever made it: the rows of the exposure page count every address
\* once, their panels repeat them, and on the page without a window no finding was fetched by
\* enough benign addresses, under whatever spelling (get_exposures, _fold_encodings).
LEMMA ExposedRows ==
    ASSUME FiniteLog
    PROVE  FindingsAreHonest
<1> SUFFICES ASSUME NEW since, NEW r \in ServedPaths(since, None)
             PROVE  HonestRow(r, ExposureDetail(r.spellings, since, None),
                              Within(FetchedAs(Spellings(r.path)), since, None), since)
  BY DEF FindingsAreHonest, HonestRow
<1> DEFINE panel == ExposureDetail(r.spellings, since, None)
           fetched == Within(FetchedAs(Spellings(r.path)), since, None)
<1> HIDE DEF panel, fetched
<1>1. PICK c : /\ c \in {CanonicalPath(g.path) : g \in PathRows(since, None)}
               /\ r = ServedPath(c, Folded(c, since, None), since, None)
  BY DEF ServedPaths, Folded
<1>2. Folded(c, since, None) # {}
  BY <1>1 DEF Folded
<1>3. Tried(c, since, None) # {}
  BY <1>2, FoldedRows
<1>4. /\ r.path = c /\ r.spellings = Tried(c, since, None)
      /\ r.hits = Cardinality(Fetched(c, since, None))
      /\ r.ips = Cardinality(Addresses(Fetched(c, since, None)))
      /\ r.is_finding => Cardinality(BenignEver(Tried(c, since, None))) < BenignForSite
  BY <1>1, <1>3, RowCounts
<1>5. fetched = Fetched(c, since, None)
  BY <1>4 DEF Fetched, fetched
<1>6. panel = ExposureDetail(Tried(c, since, None), since, None)
  BY <1>4 DEF panel
<1>7. /\ panel.ips = Cardinality(Addresses(fetched)) /\ panel.hits = Cardinality(fetched)
      /\ Entries(panel.classes, DOMAIN panel.classes) = panel.ips
      /\ Entries(panel.answers, DOMAIN panel.answers) = panel.hits
  BY <1>5, <1>6, PanelOfRow
<1>8. (since = None /\ r.is_finding) =>
         Cardinality(BenignEver(Spellings(r.path))) < BenignForSite
  BY <1>4, AllSpellings
<1>9. HonestRow(r, panel, fetched, since)
  BY <1>4, <1>5, <1>7, <1>8 DEF HonestRow, Entries
<1> QED BY <1>9 DEF panel, fetched

\* The same for the run, with every value of its constants: what the exposure page says of a
\* file is what was fetched of it, in every spelling.
THEOREM FindingsCountEverySpelling == Spec => []ExposureIsHonest
<1>1. FiniteLog => ExposureIsHonest
  BY ExposedRows DEF ExposureIsHonest
<1>2. Init => FiniteLog
  BY FS_EmptySet DEF Init, FiniteLog
<1>3. FiniteLog /\ [Next]_<<rowVars, part>> => FiniteLog'
  BY LogGrows DEF FiniteLog
<1> QED BY <1>1, <1>2, <1>3, PTL DEF Spec


-----------------------------------------------------------------------------
(* The range of a page *)

\* What the address and the memory ask for, and what is shown of it.
Asked(key, from, to, remembered) ==
  IF ~ (key = "" /\ from = None /\ to = None) THEN Window(from, to, key)
  ELSE IF remembered.active = "custom" THEN [remembered EXCEPT !.active = ""]
  ELSE remembered
Backwards(w) == w.from # None /\ w.to # None /\ w.from > w.to
Preset(key, today) ==
  IF key = "all" THEN Window(None, None, "all")
  ELSE Window(today - Presets[key] + 1, today, key)
Chosen(key) == IF key \in RangeKeys THEN key ELSE DefaultRange
Shown(asked, today) ==
  IF Backwards(asked) THEN Window(asked.to, asked.from, "custom")
  ELSE IF asked.from # None \/ asked.to # None THEN Window(asked.from, asked.to, "custom")
  ELSE Preset(Chosen(asked.active), today)

\* A range is resolved in these two steps.
LEMMA ResolvedInSteps ==
    ASSUME NEW key, NEW from, NEW to, NEW remembered, NEW today
    PROVE  ResolveRange(key, from, to, remembered, today) =
             Shown(Asked(key, from, to, remembered), today)
<1> DEFINE asked == Asked(key, from, to, remembered)
           dated == asked.from # None \/ asked.to # None
           r == CASE Backwards(asked) -> Window(asked.to, asked.from, "custom")
                  [] ~ Backwards(asked) /\ dated -> Window(asked.from, asked.to, "custom")
                  [] OTHER -> Preset(Chosen(asked.active), today)
<1>1. ResolveRange(key, from, to, remembered, today) = r
  BY Zenon DEF ResolveRange, Asked, Backwards, Preset, Chosen
<1>2. CASE Backwards(asked)
  <2>1. r = Window(asked.to, asked.from, "custom")
    <3> HIDE DEF asked
    <3> QED BY <1>2
  <2> QED BY <1>1, <1>2, <2>1 DEF Shown
<1>3. CASE ~ Backwards(asked) /\ dated
  <2>1. r = Window(asked.from, asked.to, "custom")
    <3> HIDE DEF asked, dated
    <3> QED BY <1>3
  <2> QED BY <1>1, <1>3, <2>1 DEF Shown
<1>4. CASE ~ Backwards(asked) /\ ~ dated
  <2>1. r = Preset(Chosen(asked.active), today)
    <3> HIDE DEF asked, dated
    <3> QED BY <1>4
  <2> QED BY <1>1, <1>4, <2>1 DEF Shown
<1> QED BY <1>2, <1>3, <1>4

\* The dates an address names here.
Dates(today) == {None} \union today - 3 .. today - 1
LEMMA DatesAreDays == ASSUME NEW today \in Nat PROVE Dates(today) \subseteq Int
BY DEF Dates, None

\* Dates that are shown: in order, and as the address or a preset has them.
ShownDates(w, today) ==
  /\ w = Window(w.from, w.to, w.active)
  /\ w.from # None /\ w.to # None =>
       /\ w.from \in Int /\ w.to \in Int /\ w.from <= w.to
       /\ \/ w.from \in Dates(today) /\ w.to \in Dates(today)
          \/ \E key \in DOMAIN Presets : w.from = today - Presets[key] + 1 /\ w.to = today

\* No window runs backwards, and what is remembered of it shows it again.
LEMMA WindowComesBack ==
    ASSUME NEW today \in Nat
    PROVE  \A w \in Windowed(today) :
              /\ ResolveRange("", None, None, RememberedRange(RememberRange(w)), today) = w
              /\ ShownDates(w, today)
<1> SUFFICES ASSUME NEW w \in Windowed(today)
             PROVE  /\ ResolveRange("", None, None, RememberedRange(RememberRange(w)), today) = w
                    /\ ShownDates(w, today)
  OBVIOUS
<1>a. PICK asked \in Asking(today) :
             w = ResolveRange(asked.active, asked.from, asked.to, NoMemory, today)
  BY DEF Windowed
<1> DEFINE key == asked.active
           from == asked.from
           to == asked.to
<1>1. from \in Dates(today) /\ to \in Dates(today) /\ from \in Int /\ to \in Int
  <2> DEFINE keys == {"", "all", "unknown"} \union DOMAIN Presets
  <2>1. asked \in [from : Dates(today), to : Dates(today), active : keys]
    BY DEF Asking, Dates
  <2> HIDE DEF keys
  <2> QED BY <2>1, DatesAreDays
<1>0. w = ResolveRange(key, from, to, NoMemory, today)
  BY <1>a
<1> DEFINE D == Dates(today)
<1>D. D = Dates(today) /\ D \subseteq Int
  BY DatesAreDays
<1> HIDE DEF key, from, to, D
<1>2. w = Shown(Window(from, to, key), today)
  <2>1. NoMemory = Window(None, None, "") /\ NoMemory.active = ""
    BY DEF NoMemory, Window
  <2>2. Asked(key, from, to, NoMemory) = Window(from, to, key)
    BY <2>1 DEF Asked
  <2> QED BY <1>0, <2>2, ResolvedInSteps
<1>3. Window(from, to, key).from = from /\ Window(from, to, key).to = to
      /\ Window(from, to, key).active = key
  BY DEF Window
<1>4. \/ \E a, b \in D : /\ w = Window(a, b, "custom") /\ ~ (a = None /\ b = None)
                         /\ a # None /\ b # None => a <= b
      \/ \E c \in RangeKeys : w = Preset(c, today)
  <2>1. CASE Backwards(Window(from, to, key))
    <3>1. w = Window(to, from, "custom") /\ from # None /\ to # None /\ from > to
      BY <1>2, <1>3, <2>1 DEF Shown, Backwards
    <3> QED BY <1>1, <1>D, <3>1
  <2>2. CASE ~ Backwards(Window(from, to, key)) /\ (from # None \/ to # None)
    <3>1. w = Window(from, to, "custom") /\ (from # None /\ to # None => ~ (from > to))
      BY <1>2, <1>3, <2>2 DEF Shown, Backwards
    <3> QED BY <1>1, <1>D, <2>2, <3>1
  <2>3. CASE ~ Backwards(Window(from, to, key)) /\ ~ (from # None \/ to # None)
    <3>1. w = Preset(Chosen(key), today)
      BY <1>2, <1>3, <2>3 DEF Shown
    <3>2. Chosen(key) \in RangeKeys
      BY QueriesAssumption DEF ComparisonsAssumption, Chosen, RangeKeys
    <3> QED BY <3>1, <3>2
  <2> QED BY <2>1, <2>2, <2>3
<1>5. ASSUME NEW a \in D, NEW b \in D,
             w = Window(a, b, "custom"), ~ (a = None /\ b = None), a # None /\ b # None => a <= b
      PROVE  /\ ResolveRange("", None, None, RememberedRange(RememberRange(w)), today) = w
             /\ ShownDates(w, today)
  <2>0. a \in Int /\ b \in Int
    BY <1>D
  <2>1. w.from = a /\ w.to = b /\ w.active = "custom"
    BY <1>5 DEF Window
  <2>2. RememberedRange(RememberRange(w)) = w
    BY <1>5, <2>1 DEF RememberedRange, RememberRange
  <2>3. Asked("", None, None, w) = Window(a, b, "")
    BY <1>5, <2>1 DEF Asked, Window
  <2>4. /\ Window(a, b, "").from = a /\ Window(a, b, "").to = b
    BY DEF Window
  <2>5. ~ Backwards(Window(a, b, ""))
    <3> SUFFICES ASSUME a # None, b # None
                 PROVE  ~ (a > b)
      BY <2>4 DEF Backwards
    <3> QED BY <1>5, <2>0
  <2>6. Shown(Window(a, b, ""), today) = w
    BY <1>5, <2>4, <2>5 DEF Shown
  <2>7. ResolveRange("", None, None, w, today) = w
    BY <2>3, <2>6, ResolvedInSteps
  <2> QED BY <1>5, <1>D, <2>0, <2>1, <2>2, <2>7 DEF ShownDates
<1>6. ASSUME NEW c \in RangeKeys, w = Preset(c, today)
      PROVE  /\ ResolveRange("", None, None, RememberedRange(RememberRange(w)), today) = w
             /\ ShownDates(w, today)
  <2>1. CASE c = "all"
    <3>1. w = Window(None, None, "all")
      BY <1>6, <2>1 DEF Preset
    <3>2. w.from = None /\ w.to = None /\ w.active = "all"
      BY <3>1 DEF Window
    <3>3. RememberRange(w) = w /\ RememberedRange(w) = w
      BY <3>1, <3>2 DEF RememberRange, RememberedRange, RangeKeys
    <3>4. Asked("", None, None, w) = w
      BY <3>2 DEF Asked
    <3>5. Shown(w, today) = Preset(Chosen("all"), today)
      BY <3>2 DEF Shown, Backwards
    <3>6. Chosen("all") = "all"
      BY DEF Chosen, RangeKeys
    <3> QED BY <3>1, <3>2, <3>3, <3>4, <3>5, <3>6, ResolvedInSteps DEF Preset, ShownDates
  <2>2. CASE c # "all"
    <3> DEFINE first == today - Presets[c] + 1
    <3>0. c \in DOMAIN Presets /\ Presets[c] \in Nat \ {0}
      BY <2>2, QueriesAssumption DEF ComparisonsAssumption, RangeKeys
    <3>1. w = Window(first, today, c)
      BY <1>6, <2>2 DEF Preset
    <3>2. first \in Int /\ first <= today /\ today # None /\ first = today - Presets[c] + 1
      BY <3>0 DEF None
    <3> HIDE DEF first
    <3>3. w.from = first /\ w.to = today /\ w.active = c
      BY <3>1 DEF Window
    <3>4. ShownDates(w, today)
      BY <3>0, <3>1, <3>2, <3>3 DEF ShownDates
    <3>5. CASE c = "custom"
      <4>1. RememberedRange(RememberRange(w)) = w
        BY <3>2, <3>3, <3>5 DEF RememberedRange, RememberRange
      <4>2. Asked("", None, None, w) = Window(first, today, "")
        BY <3>1, <3>3, <3>5 DEF Asked, Window
      <4>3. /\ Window(first, today, "").from = first /\ Window(first, today, "").to = today
        BY DEF Window
      <4>4. ~ Backwards(Window(first, today, ""))
        <5> SUFFICES ASSUME first # None, today # None
                     PROVE  ~ (first > today)
          BY <4>3 DEF Backwards
        <5> QED BY <3>2
      <4>5. Shown(Window(first, today, ""), today) = w
        BY <3>1, <3>2, <3>5, <4>3, <4>4 DEF Shown
      <4> QED BY <3>4, <4>1, <4>2, <4>5, ResolvedInSteps
    <3>6. CASE c # "custom"
      <4> DEFINE kept == Window(None, None, c)
      <4>1. kept.from = None /\ kept.to = None /\ kept.active = c
        BY DEF Window
      <4>2. RememberRange(w) = kept
        BY <3>3, <3>6 DEF RememberRange
      <4>3. c \in RangeKeys
        BY <1>6
      <4> HIDE DEF kept
      <4>4. RememberedRange(kept) = kept
        BY <4>1, <4>3 DEF RememberedRange
      <4>5. Asked("", None, None, kept) = kept
        BY <3>6, <4>1 DEF Asked
      <4>6. Shown(kept, today) = Preset(c, today)
        BY <4>1, <4>3 DEF Shown, Backwards, Chosen
      <4> QED BY <1>6, <3>4, <4>2, <4>4, <4>5, <4>6, ResolvedInSteps
    <3> QED BY <3>5, <3>6
  <2> QED BY <2>1, <2>2
<1>7. CASE \E c \in RangeKeys : w = Preset(c, today)
  BY <1>6, <1>7
<1>8. CASE ~ \E c \in RangeKeys : w = Preset(c, today)
  <2>1. PICK a, b \in D : /\ w = Window(a, b, "custom") /\ ~ (a = None /\ b = None)
                          /\ a # None /\ b # None => a <= b
    BY <1>4, <1>8
  <2> QED BY <1>5, <2>1
<1> QED BY <1>7, <1>8


\* The days of any window add up to its requests.
LEMMA DayVisitsAddUp ==
    ASSUME FiniteLog, NEW since, NEW until, NEW days, days = DailyKPIs(since, until)
    PROVE  Sum([d \in DOMAIN days |-> days[d].visits]) =
             Cardinality(Within(visits, since, until))
<1> DEFINE W == Within(visits, since, until)
           day == [v \in W |-> Day(v.at)]
           K == {day[v] : v \in W}
           visited == [d \in DOMAIN days |-> days[d].visits]
<1>1. IsFiniteSet(W)
  BY FS_Subset DEF Within, FiniteLog
<1>2. K = {Day(v.at) : v \in W} /\ \A v \in W : day[v] = Day(v.at)
  OBVIOUS
<1>3. /\ DOMAIN days = K
      /\ \A d \in K : days[d].visits = Cardinality({v \in W : Day(v.at) = d})
  BY <1>2 DEF DailyKPIs
<1>4. \A d : {v \in W : Day(v.at) = d} = {v \in W : day[v] = d}
  BY <1>2
<1>5. DOMAIN visited = K /\ DOMAIN day = W /\ \A v \in W : day[v] \in K
  BY <1>3
<1>6. \A d \in K : visited[d] = Cardinality({v \in W : day[v] = d})
  <2> TAKE d \in K
  <2>1. visited[d] = days[d].visits
    BY <1>3
  <2> HIDE DEF W, day, K, visited
  <2> QED BY <1>3, <1>4, <2>1
<1>7. IsFiniteSet(K)
  <2> HIDE DEF W, day
  <2> QED BY <1>1, <1>5, ImageCount
<1> HIDE DEF W, day, K, visited
<1>8. Sum(visited) = Cardinality(W)
  BY <1>1, <1>5, <1>6, <1>7, CountByKey
<1> QED BY <1>8 DEF visited, W

\* The window of the days a to b holds the moments from the beginning of a to the end of b.
LEMMA DaysBetween ==
    ASSUME NEW a \in Nat, NEW b \in Nat, NEW at \in Nat
    PROVE  InWindow(at, a * Hours, b * Hours) <=> a * Hours <= at /\ at < (b + 1) * Hours
<1>1. Hours \in Nat /\ Hours > 0
  BY QueriesAssumption DEF RowsAssumption
<1>2. (b * Hours) \div Hours = b
  BY <1>1
<1>3. a * Hours \in Nat /\ b * Hours \in Nat
  BY <1>1
<1>4. a * Hours # None /\ b * Hours # None
  BY <1>3 DEF None
<1> QED BY <1>2, <1>3, <1>4 DEF InWindow

\* Two windows that touch hold what one over both holds.
LEMMA WindowsJoin ==
    ASSUME FiniteLog, MomentsWell, NEW a \in Nat, NEW b \in Nat, NEW c \in Nat, a <= b, b <= c
    PROVE  Cardinality(Within(visits, a * Hours, b * Hours))
             + Cardinality(Within(visits, (b + 1) * Hours, c * Hours))
             = Cardinality(Within(visits, a * Hours, c * Hours))
<1> DEFINE before == Within(visits, a * Hours, b * Hours)
           own == Within(visits, (b + 1) * Hours, c * Hours)
           both == Within(visits, a * Hours, c * Hours)
           x == a * Hours
           y == (b + 1) * Hours
           z == (c + 1) * Hours
<1>1. Hours \in Nat /\ Hours > 0
  BY QueriesAssumption DEF RowsAssumption
<1>2. x \in Nat /\ y \in Nat /\ z \in Nat /\ x <= y /\ y <= z
  <2>1. PICK m \in Nat : b + 1 = a + m
    <3>1. (b + 1) - a \in Nat /\ b + 1 = a + ((b + 1) - a)
      OBVIOUS
    <3> QED BY <3>1
  <2>2. PICK n \in Nat : c + 1 = b + 1 + n
    <3>1. c - b \in Nat /\ c + 1 = b + 1 + (c - b)
      OBVIOUS
    <3> QED BY <3>1
  <2>3. y = x + m * Hours /\ z = y + n * Hours /\ m * Hours \in Nat /\ n * Hours \in Nat
        /\ x \in Nat /\ y \in Nat
    BY <1>1, <2>1, <2>2
  <2> HIDE DEF x, y, z
  <2> QED BY <2>3
<1>3. \A v \in visits : /\ v.at \in Nat
                        /\ v \in before <=> x <= v.at /\ v.at < y
                        /\ v \in own <=> y <= v.at /\ v.at < z
                        /\ v \in both <=> x <= v.at /\ v.at < z
  <2> TAKE v \in visits
  <2>1. v.at \in Nat
    BY DEF MomentsWell
  <2>2. b + 1 \in Nat
    OBVIOUS
  <2>3. /\ InWindow(v.at, a * Hours, b * Hours) <=> x <= v.at /\ v.at < y
        /\ InWindow(v.at, a * Hours, c * Hours) <=> x <= v.at /\ v.at < z
    BY <2>1, DaysBetween
  <2>4. InWindow(v.at, (b + 1) * Hours, c * Hours) <=> y <= v.at /\ v.at < z
    BY <2>1, <2>2, DaysBetween
  <2> QED BY <2>1, <2>3, <2>4 DEF Within
<1>4. before \subseteq visits /\ own \subseteq visits /\ both \subseteq visits
  BY DEF Within
<1> HIDE DEF x, y, z, before, own, both
<1>5. both = before \union own /\ before \cap own = {}
  BY <1>2, <1>3, <1>4
<1>6. IsFiniteSet(before) /\ IsFiniteSet(own)
  BY <1>4, FS_Subset DEF FiniteLog
<1>7. Cardinality(both) = Cardinality(before) + Cardinality(own)
  <2>1. /\ Cardinality(before \union own) =
               Cardinality(before) + Cardinality(own) - Cardinality(before \cap own)
        /\ Cardinality(before \cap own) = 0
    BY <1>5, <1>6, FS_Union, FS_EmptySet
  <2>2. Cardinality(before) \in Nat /\ Cardinality(own) \in Nat
    BY <1>6, FS_CardinalityType
  <2> QED BY <1>5, <2>1, <2>2
<1> QED BY <1>7 DEF before, own, both

\* The delta is of a span as long, directly before.
LEMMA DeltaOfWindow ==
    ASSUME FiniteLog, MomentsWell, NEW today \in Nat, LongAgo(today)
    PROVE  DeltaIsAdjacent(today)
<1> SUFFICES ASSUME NEW w \in Windowed(today), NEW before, before = PreviousWindow(w),
                    before # NoMemory
             PROVE  /\ before.to - before.from = w.to - w.from
                    /\ PreviousVisits(w) + Stats(Since(w), Until(w)).total_visits
                         = Stats(Since(before), Until(w)).total_visits
  BY Zenon DEF DeltaIsAdjacent
<1> DEFINE from == w.from
           to == w.to
           span == to - from + 1
<1>1. from # None /\ to # None
  BY DEF PreviousWindow
<1>2. ShownDates(w, today)
  BY WindowComesBack
<1>3. from \in Int /\ to \in Int /\ from <= to
  BY <1>1, <1>2 DEF ShownDates
<1>4. from - span \in Nat /\ span \in Nat
  <2>1. CASE from \in Dates(today) /\ to \in Dates(today)
    <3>1. from >= today - 3 /\ to <= today - 1 /\ today >= 6
      BY <1>1, <2>1 DEF Dates, LongAgo
    <3> HIDE DEF from, to
    <3> QED BY <1>3, <3>1
  <2>2. ASSUME NEW key \in DOMAIN Presets, from = today - Presets[key] + 1, to = today
        PROVE  from - span \in Nat /\ span \in Nat
    <3> DEFINE p == Presets[key]
    <3>1. p \in Nat \ {0} /\ today + 1 >= 2 * p
      BY QueriesAssumption DEF ComparisonsAssumption, LongAgo
    <3>2. from = today - p + 1 /\ to = today
      BY <2>2
    <3> HIDE DEF p, from, to
    <3> QED BY <3>1, <3>2
  <2> QED BY <1>1, <1>2, <2>1, <2>2 DEF ShownDates
<1>5. before = Window(from - span, from - 1, "previous")
  BY <1>1 DEF PreviousWindow
<1> HIDE DEF from, to
<1>6. before.from = from - span /\ before.to = from - 1
  BY <1>5 DEF Window
<1>7. /\ from - span \in Nat /\ from - 1 \in Nat /\ from \in Nat /\ to \in Nat
      /\ from - span <= from - 1 /\ from - 1 <= to /\ (from - 1) + 1 = from
      /\ (from - 1) - (from - span) = to - from
  BY <1>3, <1>4
<1> DEFINE a == from - span
           b == from - 1
<1>8. /\ Since(before) = a * Hours /\ Until(before) = b * Hours
      /\ Since(w) = (b + 1) * Hours /\ Until(w) = to * Hours
      /\ before.from # None
  <2>1. a # None /\ b # None
    BY <1>7 DEF None
  <2> HIDE DEF a, b
  <2>2. before.from = a /\ before.to = b
    BY <1>6 DEF a, b
  <2>3. b + 1 = from /\ w.from = from /\ w.to = to
    BY <1>7 DEF b, from, to
  <2> QED BY <1>1, <2>1, <2>2, <2>3 DEF Since, Until
<1>9. before.to - before.from = w.to - w.from
  BY <1>6, <1>7 DEF from, to
<1> HIDE DEF a, b
<1>10. PreviousVisits(w) = Cardinality(Within(visits, a * Hours, b * Hours))
  <2> DEFINE days == DailyKPIs(a * Hours, b * Hours)
  <2>1. PreviousVisits(w) = Sum([day \in DOMAIN days |-> days[day].visits])
    BY <1>8 DEF PreviousVisits
  <2> HIDE DEF days
  <2> QED BY <2>1, DayVisitsAddUp DEF days
<1>11. /\ Stats(Since(w), Until(w)).total_visits
             = Cardinality(Within(visits, (b + 1) * Hours, to * Hours))
       /\ Stats(Since(before), Until(w)).total_visits
             = Cardinality(Within(visits, a * Hours, to * Hours))
  BY <1>8 DEF Stats, Requests
<1>12. a \in Nat /\ b \in Nat /\ to \in Nat /\ a <= b /\ b <= to
  BY <1>7 DEF a, b
<1> QED BY <1>9, <1>10, <1>11, <1>12, WindowsJoin


-----------------------------------------------------------------------------
(* The median *)

\* Slots in all, how many of them hold at most x, and the least value that k of them reach.
SlotsOf(f, slots) == IF slots > Cardinality(DOMAIN f) THEN slots ELSE Cardinality(DOMAIN f)
AtMost(f, x) == {h \in DOMAIN f : f[h] <= x}
UpTo(f, n, x) == n - Cardinality(DOMAIN f) + Cardinality(AtMost(f, x))
Values(f) == {0} \union {f[h] : h \in DOMAIN f}
AtRank(f, n, k) == Least({x \in Values(f) : UpTo(f, n, x) >= k})
Counts(f) == IsFiniteSet(DOMAIN f) /\ \A h \in DOMAIN f : f[h] \in Nat

\* The median is the middle rank, or lies between the two middle ranks.
LEMMA MedianByRanks ==
    ASSUME NEW f, NEW slots \in Int, slots > 0, NEW n, n = SlotsOf(f, slots)
    PROVE  MedianTwice(f, slots) =
             IF n % 2 = 1 THEN 2 * AtRank(f, n, n \div 2 + 1)
             ELSE AtRank(f, n, n \div 2) + AtRank(f, n, n \div 2 + 1)
<1>1. ~ (slots <= 0)
  OBVIOUS
<1>2. MedianTwice(f, slots) =
        IF slots <= 0 THEN 0
        ELSE IF n % 2 = 1 THEN 2 * AtRank(f, n, n \div 2 + 1)
        ELSE AtRank(f, n, n \div 2) + AtRank(f, n, n \div 2 + 1)
  BY Zenon DEF MedianTwice, SlotsOf, AtMost, UpTo, Values, AtRank
<1> QED BY <1>1, <1>2, Zenon

\* The values of finitely many counts.
LEMMA CountsAreFinite ==
    ASSUME NEW f, Counts(f)
    PROVE  /\ IsFiniteSet(Values(f)) /\ Values(f) \subseteq Nat /\ 0 \in Values(f)
           /\ Cardinality(DOMAIN f) \in Nat
           /\ \A x : /\ IsFiniteSet(AtMost(f, x)) /\ Cardinality(AtMost(f, x)) \in Nat
                     /\ Cardinality(AtMost(f, x)) <= Cardinality(DOMAIN f)
<1>1. IsFiniteSet({f[h] : h \in DOMAIN f})
  BY ImageCount DEF Counts
<1>2. IsFiniteSet(Values(f))
  <2>1. IsFiniteSet({0})
    BY FS_Singleton
  <2> QED BY <1>1, <2>1, FS_Union DEF Values
<1>3. \A x : AtMost(f, x) \subseteq DOMAIN f
  BY DEF AtMost
<1>4. Values(f) \subseteq Nat /\ 0 \in Values(f)
  BY DEF Values, Counts
<1>5. \A x : IsFiniteSet(AtMost(f, x)) /\ Cardinality(AtMost(f, x)) <= Cardinality(DOMAIN f)
  BY <1>3, FS_Subset DEF Counts
<1> QED BY <1>2, <1>4, <1>5, FS_CardinalityType DEF Counts

\* Every rank is reached, and by the least value that reaches it.
LEMMA RankIsReached ==
    ASSUME NEW f, Counts(f), NEW n \in Nat, Cardinality(DOMAIN f) <= n, NEW k \in Nat, k <= n,
           NEW a, a = AtRank(f, n, k)
    PROVE  /\ a \in Values(f) /\ a \in Nat /\ UpTo(f, n, a) >= k
           /\ \A x \in Values(f) : UpTo(f, n, x) >= k => a <= x
<1> DEFINE R == {x \in Values(f) : UpTo(f, n, x) >= k}
           top == Greatest(Values(f))
<1>1. IsFiniteSet(Values(f)) /\ Values(f) \subseteq Nat /\ 0 \in Values(f)
  BY CountsAreFinite
<1>2. top \in Values(f) /\ \A x \in Values(f) : x <= top
  BY <1>1, LastOf
<1> HIDE DEF top
<1>3. AtMost(f, top) = DOMAIN f
  BY <1>2 DEF AtMost, Values
<1>4. UpTo(f, n, top) = n
  BY <1>3, CountsAreFinite DEF UpTo
<1>5. R # {} /\ R \subseteq Nat
  BY <1>1, <1>2, <1>4
<1>6. a = Least(R)
  BY DEF AtRank
<1> HIDE DEF R
<1>7. a \in R /\ \A x \in R : a <= x
  BY <1>5, <1>6, FirstOfChain
<1> QED BY <1>5, <1>7 DEF R

\* Below the value of a rank there are fewer slots than it asks for.
LEMMA RankIsNeeded ==
    ASSUME NEW f, Counts(f), NEW n \in Nat, Cardinality(DOMAIN f) <= n, NEW k \in Nat, k <= n,
           NEW b, b = AtRank(f, n, k), b > 0
    PROVE  Cardinality({h \in DOMAIN f : f[h] >= b}) >= n - k + 1
<1> DEFINE below == {x \in Values(f) : x < b}
           y == Greatest(below)
           high == {h \in DOMAIN f : f[h] >= b}
<1>1. b \in Nat /\ \A x \in Values(f) : UpTo(f, n, x) >= k => b <= x
  BY RankIsReached
<1>2. IsFiniteSet(Values(f)) /\ Values(f) \subseteq Nat /\ 0 \in Values(f)
  BY CountsAreFinite
<1>3. below # {} /\ below \subseteq Nat /\ below \subseteq Values(f) /\ IsFiniteSet(below)
  <2>1. 0 \in below /\ below \subseteq Values(f)
    BY <1>1, <1>2
  <2> HIDE DEF below
  <2> QED BY <1>2, <2>1, FS_Subset
<1>4. y \in below /\ \A x \in below : x <= y
  <2> HIDE DEF below
  <2> QED BY <1>3, LastOf
<1> HIDE DEF y
<1>5. y \in Values(f) /\ y \in Nat /\ y < b
  BY <1>2, <1>4
<1>6. ~ (UpTo(f, n, y) >= k)
  BY <1>1, <1>5
<1>7. AtMost(f, y) = DOMAIN f \ high
  <2>1. ASSUME NEW h \in DOMAIN f PROVE f[h] <= y <=> ~ (f[h] >= b)
    <3>1. f[h] \in Nat /\ f[h] \in Values(f)
      BY DEF Counts, Values
    <3>2. f[h] < b => f[h] <= y
      BY <1>4, <3>1
    <3> QED BY <1>1, <1>5, <3>1, <3>2
  <2> QED BY <2>1 DEF AtMost
<1> DEFINE F == Cardinality(DOMAIN f)
           H == Cardinality(high)
           L == Cardinality(AtMost(f, y))
<1>8. L = F - H /\ F \in Nat /\ H \in Nat /\ L \in Nat
  <2>1. high \subseteq DOMAIN f /\ IsFiniteSet(DOMAIN f)
    BY DEF Counts
  <2> HIDE DEF high
  <2>2. IsFiniteSet(high) /\ DOMAIN f \cap high = high
    BY <2>1, FS_Subset
  <2>3. L = F - H
    BY <1>7, <2>1, <2>2, FS_Difference
  <2> QED BY <2>1, <2>2, <2>3, CountsAreFinite, FS_CardinalityType
<1>9. UpTo(f, n, y) = n - F + L
  BY DEF UpTo
<1> HIDE DEF F, H, L
<1>10. H >= n - k + 1
  BY <1>6, <1>8, <1>9
<1> QED BY <1>10 DEF H

\* Twice the median is the sum of two numbers of which one is not below half of the slots
\* and the other not above half of them.
LEMMA MedianSplits ==
    ASSUME NEW f, Counts(f), NEW slots \in Int, slots > 0, NEW n, n = SlotsOf(f, slots)
    PROVE  \E a, b \in Nat :
             /\ a <= b /\ MedianTwice(f, slots) = a + b
             /\ 2 * UpTo(f, n, a) >= n
             /\ b > 0 => 2 * Cardinality({h \in DOMAIN f : f[h] >= b}) >= n
<1> DEFINE k == n \div 2
           a == AtRank(f, n, IF n % 2 = 1 THEN k + 1 ELSE k)
           b == AtRank(f, n, k + 1)
<1>1. n \in Nat /\ n > 0 /\ Cardinality(DOMAIN f) <= n
  BY CountsAreFinite DEF SlotsOf
<1>2. k \in Nat /\ (n = 2 * k \/ n = 2 * k + 1) /\ (n % 2 = 1 <=> n = 2 * k + 1) /\ k + 1 <= n
      /\ k + 1 \in Nat
  BY <1>1
<1>3. MedianTwice(f, slots) = IF n % 2 = 1 THEN 2 * b ELSE a + b
  BY MedianByRanks, Zenon
<1>4. n % 2 = 1 => a = b
  OBVIOUS
<1> DEFINE j == IF n % 2 = 1 THEN k + 1 ELSE k
<1>5. j \in Nat /\ j <= n /\ j <= k + 1 /\ 2 * j >= n
  BY <1>1, <1>2
<1>6. a = AtRank(f, n, j)
  BY <1>4
<1> HIDE DEF k, j, a
<1>7. a \in Nat /\ UpTo(f, n, a) >= j /\ \A x \in Values(f) : UpTo(f, n, x) >= j => a <= x
  BY <1>1, <1>5, <1>6, RankIsReached
<1>8. b \in Values(f) /\ b \in Nat /\ UpTo(f, n, b) >= k + 1
  BY <1>1, <1>2, RankIsReached
<1>9. b > 0 => Cardinality({h \in DOMAIN f : f[h] >= b}) >= n - (k + 1) + 1
  BY <1>1, <1>2, RankIsNeeded
<1> HIDE DEF b
<1>10. \A x : UpTo(f, n, x) \in Int
  BY <1>1, CountsAreFinite DEF UpTo
<1>11. a <= b
  BY <1>2, <1>5, <1>7, <1>8, <1>10
<1>12. MedianTwice(f, slots) = a + b
  BY <1>3, <1>4, <1>7, <1>8
<1>13. 2 * UpTo(f, n, a) >= n
  BY <1>1, <1>5, <1>7, <1>10
<1>14. b > 0 => 2 * Cardinality({h \in DOMAIN f : f[h] >= b}) >= n
  <2> DEFINE H == {h \in DOMAIN f : f[h] >= b}
  <2>1. Cardinality(H) \in Nat
    <3>1. H \subseteq DOMAIN f /\ IsFiniteSet(DOMAIN f)
      BY DEF Counts
    <3> HIDE DEF H
    <3> QED BY <3>1, FS_Subset, FS_CardinalityType
  <2>2. b > 0 => Cardinality(H) >= n - (k + 1) + 1
    BY <1>9
  <2> HIDE DEF H
  <2>3. b > 0 => 2 * Cardinality(H) >= n
    BY <1>1, <1>2, <2>1, <2>2
  <2> QED BY <2>3 DEF H
<1> QED BY <1>7, <1>8, <1>11, <1>12, <1>13, <1>14


-----------------------------------------------------------------------------
(* Spikes *)

CountOf(f, s) == IF s \in DOMAIN f THEN f[s] ELSE 0

\* A slot without a count holds nothing, so half of the slots are not above the median.
LEMMA HalfAtMost ==
    ASSUME NEW f, Counts(f), NEW S, IsFiniteSet(S), DOMAIN f \subseteq S,
           NEW n \in Nat, n <= Cardinality(S), NEW a \in Nat, 2 * UpTo(f, n, a) >= n
    PROVE  2 * Cardinality({s \in S : CountOf(f, s) <= a}) >= Cardinality(S)
<1> DEFINE low == {s \in S : CountOf(f, s) <= a}
           over == DOMAIN f \ AtMost(f, a)
           N == Cardinality(S)
           F == Cardinality(DOMAIN f)
           L == Cardinality(AtMost(f, a))
           H == Cardinality(over)
           B == Cardinality(low)
<1>1. low = S \ over /\ over \subseteq S /\ over \subseteq DOMAIN f
      /\ AtMost(f, a) \subseteq DOMAIN f
  BY DEF CountOf, AtMost
<1>2. IsFiniteSet(DOMAIN f) /\ IsFiniteSet(over) /\ IsFiniteSet(AtMost(f, a))
  <2> HIDE DEF over
  <2> QED BY <1>1, FS_Subset DEF Counts
<1>3. H = F - L
  <2>1. DOMAIN f \cap AtMost(f, a) = AtMost(f, a)
    BY <1>1
  <2> QED BY <1>2, <2>1, FS_Difference
<1>4. B = N - H
  <2>1. S \cap over = over
    BY <1>1
  <2>2. low = S \ over
    BY <1>1
  <2> HIDE DEF over, low
  <2>3. Cardinality(S \ over) = Cardinality(S) - Cardinality(S \cap over)
    BY FS_Difference
  <2> QED BY <2>1, <2>2, <2>3
<1>5. N \in Nat /\ F \in Nat /\ L \in Nat
  BY <1>2, FS_CardinalityType
<1>6. UpTo(f, n, a) = n - F + L
  BY DEF UpTo
<1> HIDE DEF N, F, L, H, B
<1>7. 2 * B >= N
  <2>1. n <= N
    BY DEF N
  <2> QED BY <1>3, <1>4, <1>5, <1>6, <2>1
<1> QED BY <1>7 DEF B, N

\* A multiple keeps the order.
LEMMA Scaled ==
    ASSUME NEW c \in Nat, NEW a \in Nat, NEW b \in Nat, a <= b
    PROVE  c * a \in Nat /\ c * b \in Nat /\ c * a <= c * b
<1>1. PICK d \in Nat : b = a + d
  <2>1. b - a \in Nat /\ b = a + (b - a)
    OBVIOUS
  <2> QED BY <2>1
<1>2. c * b = c * a + c * d /\ c * d \in Nat /\ c * a \in Nat
  BY <1>1
<1> QED BY <1>2

\* What is reported stands out from half of the slots, and what is not has half of them, but
\* for those that are missing, in its way.
LEMMA SpikeHolds ==
    ASSUME NEW f, Counts(f), NEW S, IsFiniteSet(S), DOMAIN f \subseteq S,
           NEW slots \in Int, slots > 0, slots <= Cardinality(S),
           NEW missing \in Nat, Cardinality(S) <= slots + missing,
           NEW factor \in Nat \ {0}, NEW least \in Nat, NEW current \in Nat
    PROVE  SpikeIsFair(Spike(f, slots, current, factor, least), f, S, factor, least, missing)
<1> DEFINE n == SlotsOf(f, slots)
           N == Cardinality(S)
           twice == MedianTwice(f, slots)
           unusual == twice > 0 /\ current >= least /\ 2 * current >= factor * twice
           spike == Spike(f, slots, current, factor, least)
           below == {s \in S : factor * CountOf(f, s) <= current}
<1>1. spike.twice = twice /\ spike.current = current /\ (spike.unusual <=> unusual)
  BY Zenon DEF Spike
<1>2. N \in Nat /\ n \in Nat /\ slots <= n /\ n <= N
  <2>1. Cardinality(DOMAIN f) <= N
    BY FS_Subset
  <2> QED BY <2>1, CountsAreFinite, FS_CardinalityType DEF SlotsOf
<1>3. PICK a, b \in Nat : /\ a <= b /\ twice = a + b
                          /\ 2 * UpTo(f, n, a) >= n
                          /\ b > 0 => 2 * Cardinality({h \in DOMAIN f : f[h] >= b}) >= n
  BY MedianSplits
<1>4. \A s \in S : CountOf(f, s) \in Nat
  BY DEF CountOf, Counts
<1>5. factor * twice = factor * a + factor * b /\ factor * a \in Nat /\ factor * b \in Nat
      /\ factor * a <= factor * b
  <2>1. factor * (a + b) = factor * a + factor * b
    OBVIOUS
  <2> QED BY <1>3, <2>1, Scaled
<1>6. IsFiniteSet(below) /\ below \subseteq S /\ Cardinality(below) \in Nat
  <2>1. below \subseteq S
    OBVIOUS
  <2> HIDE DEF below
  <2> QED BY <2>1, FS_Subset, FS_CardinalityType
<1> HIDE DEF n, twice, below, spike
<1>7. ASSUME unusual PROVE 2 * Cardinality(below) >= N
  <2> DEFINE low == {s \in S : CountOf(f, s) <= a}
  <2>1. factor * a <= current
    BY <1>5, <1>7
  <2>2. low \subseteq below
    <3> SUFFICES ASSUME NEW s \in S, CountOf(f, s) <= a
                 PROVE  factor * CountOf(f, s) <= current
      BY DEF below
    <3>1. factor * CountOf(f, s) <= factor * a /\ factor * CountOf(f, s) \in Nat
      BY <1>4, Scaled
    <3> QED BY <1>5, <2>1, <3>1
  <2>3. 2 * Cardinality(low) >= N
    BY <1>2, <1>3, HalfAtMost
  <2> HIDE DEF low
  <2>4. Cardinality(low) <= Cardinality(below) /\ Cardinality(low) \in Nat
    BY <1>6, <2>2, FS_Subset, FS_CardinalityType
  <2> HIDE DEF N
  <2> QED BY <1>2, <1>6, <2>3, <2>4
<1>8. ASSUME twice > 0, current >= least, ~ unusual
      PROVE  2 * Cardinality(S \ below) + missing >= N
  <2> DEFINE high == {h \in DOMAIN f : f[h] >= b}
  <2>1. ~ (2 * current >= factor * twice)
    BY <1>8
  <2>2. current < factor * b
    BY <1>5, <2>1
  <2>3. high \subseteq S \ below
    <3> SUFFICES ASSUME NEW s \in DOMAIN f, f[s] >= b
                 PROVE  ~ (factor * CountOf(f, s) <= current)
      BY DEF below
    <3>1. CountOf(f, s) = f[s] /\ f[s] \in Nat
      BY DEF CountOf, Counts
    <3>2. factor * b <= factor * f[s] /\ factor * f[s] \in Nat
      BY <3>1, Scaled
    <3> QED BY <1>5, <2>2, <3>1, <3>2
  <2>4. b > 0
    BY <1>3, <1>8
  <2>5. 2 * Cardinality(high) >= n
    BY <1>3, <2>4
  <2> HIDE DEF high
  <2>6. IsFiniteSet(S \ below)
    BY FS_Difference
  <2>7. /\ Cardinality(high) <= Cardinality(S \ below)
        /\ Cardinality(high) \in Nat /\ Cardinality(S \ below) \in Nat
    BY <2>3, <2>6, FS_Subset, FS_CardinalityType
  <2>8. N <= slots + missing
    OBVIOUS
  <2> HIDE DEF N
  <2> QED BY <1>2, <2>5, <2>7, <2>8
<1> DEFINE fair(low) == /\ spike.unusual => 2 * Cardinality(low) >= Cardinality(S)
                        /\ (spike.twice > 0 /\ spike.current >= least /\ ~ spike.unusual) =>
                             2 * Cardinality(S \ low) + missing >= Cardinality(S)
<1>9. SpikeIsFair(spike, f, S, factor, least, missing) <=>
        fair({s \in S : factor * CountOf(f, s) <= spike.current})
  BY Zenon DEF SpikeIsFair, CountOf
<1>10. {s \in S : factor * CountOf(f, s) <= spike.current} = below
  BY <1>1 DEF below
<1>11. fair(below)
  BY <1>1, <1>7, <1>8
<1> HIDE DEF fair
<1>12. SpikeIsFair(spike, f, S, factor, least, missing)
  BY <1>9, <1>10, <1>11
<1> QED BY <1>12 DEF spike


\* Division rounds down, below zero too.
LEMMA Divided ==
    ASSUME NEW u \in Nat \ {0}, NEW x \in Int
    PROVE  x \div u \in Int /\ (x \div u) * u <= x /\ x < (x \div u + 1) * u
OBVIOUS

\* And keeps the order.
LEMMA QuotientOrder ==
    ASSUME NEW u \in Nat \ {0}, NEW p \in Int, NEW q \in Int, NEW x \in Int,
           p * u <= x, x < (q + 1) * u
    PROVE  p <= q
<1>1. ASSUME p >= q + 1 PROVE FALSE
  <2>1. PICK n \in Nat : p = q + 1 + n
    <3>1. p - (q + 1) \in Nat /\ p = q + 1 + (p - (q + 1))
      BY <1>1
    <3> QED BY <3>1
  <2>2. p * u = (q + 1) * u + n * u
    BY <2>1
  <2>3. n * u \in Nat /\ (q + 1) * u \in Int /\ p * u \in Int
    OBVIOUS
  <2> QED BY <2>2, <2>3
<1> QED BY <1>1

\* A span that ends r short of a whole number of units.
LEMMA ShortBy ==
    ASSUME NEW u \in Nat \ {0}, NEW e \in Int, NEW r \in Nat, r < u,
           NEW x \in Int, x = e * u - r
    PROVE  /\ x \div u \in Int /\ x \div u <= e /\ e - 1 <= x \div u
           /\ \A d \in Int : /\ x < d * u => e <= d
                             /\ d * u <= x => d <= e
<1> DEFINE q == x \div u
<1>1. q \in Int /\ q * u <= x /\ x < (q + 1) * u
  BY Divided
<1>2. /\ e * u \in Int /\ (e + 1) * u = e * u + u /\ (e - 1) * u = e * u - u
      /\ (e + 1) * u \in Int /\ (e - 1) * u \in Int
  OBVIOUS
<1> HIDE DEF q
<1>3. q * u \in Int
  BY <1>1
<1>4. q <= e
  <2>1. x < (e + 1) * u
    BY <1>2
  <2> QED BY <1>1, <2>1, QuotientOrder
<1>5. (e - 1) * u <= x
  BY <1>2
<1>6. e - 1 <= q
  BY <1>1, <1>5, QuotientOrder
<1>7. ASSUME NEW d \in Int PROVE /\ x < d * u => e <= d
                                 /\ d * u <= x => d <= e
  <2>1. ASSUME x < d * u PROVE e <= d
    <3>1. x < ((d - 1) + 1) * u /\ d - 1 \in Int /\ e - 1 \in Int
      BY <2>1
    <3>2. e - 1 <= d - 1
      BY <1>5, <3>1, QuotientOrder
    <3> QED BY <3>2
  <2>2. ASSUME d * u <= x PROVE d <= e
    <3>1. x < (e + 1) * u
      BY <1>2
    <3> QED BY <2>2, <3>1, QuotientOrder
  <2> QED BY <2>1, <2>2
<1> QED BY <1>1, <1>4, <1>6, <1>7 DEF q

\* The larger of two.
LEMMA GreatestOfTwo ==
    ASSUME NEW a \in Int, NEW b \in Int
    PROVE  Greatest({a, b}) = IF a >= b THEN a ELSE b
BY DEF Greatest

\* A number of days is a whole number of hours.
LEMMA WholeHours ==
    ASSUME NEW days \in Nat \ {0}
    PROVE  \E d \in Nat \ {0} : days * Hours = d * HourUnits
<1>1. HourUnits \in Nat \ {0} /\ Hours \in Nat \ {0} /\ Hours % HourUnits = 0
  BY QueriesAssumption DEF RowsAssumption, ComparisonsAssumption
<1> DEFINE h == Hours \div HourUnits
<1>2. h \in Nat /\ Hours = h * HourUnits
  BY <1>1
<1>3. h # 0
  BY <1>1, <1>2
<1> HIDE DEF h
<1>4. days * h \in Nat \ {0} /\ days * Hours = (days * h) * HourUnits
  <2>1. days * (h * HourUnits) = (days * h) * HourUnits
    BY <1>1, <1>2
  <2>2. days * h # 0 /\ days * h \in Nat
    BY <1>2, <1>3
  <2> QED BY <1>2, <2>1, <2>2
<1> QED BY <1>4

\* What is measured of finitely many rows, and of each of their hours.
LEMMA HoursAreCounted ==
    ASSUME NEW rows, IsFiniteSet(rows), NEW name \in Measures
    PROVE  /\ Measure(rows, name) \in Nat
           /\ Counts(PerHour(rows, name))
           /\ DOMAIN PerHour(rows, name) = {Hour(v.at) : v \in rows}
<1>1. ASSUME NEW some, some \subseteq rows PROVE Measure(some, name) \in Nat
  <2>1. IsFiniteSet(some)
    BY <1>1, FS_Subset
  <2> DEFINE odd == {v \in some : v.status = 404 /\ v.path \notin Convention}
  <2>2. IsFiniteSet(odd)
    BY <2>1, FS_Subset
  <2> HIDE DEF odd
  <2>3. Cardinality(some) \in Nat /\ Cardinality(Addresses(odd)) \in Nat
    BY <2>1, <2>2, FiniteAddresses, FS_CardinalityType
  <2>4. Measure(some, name) = IF name = "requests" THEN Cardinality(some)
                              ELSE Cardinality(Addresses(odd))
    BY DEF Measure, Requests, Distinct, odd
  <2> QED BY <2>3, <2>4
<1> DEFINE hour == [v \in rows |-> Hour(v.at)]
           f == PerHour(rows, name)
<1>2. IsFiniteSet({hour[v] : v \in rows})
  <2>1. DOMAIN hour = rows
    OBVIOUS
  <2> HIDE DEF hour
  <2> QED BY <2>1, ImageCount
<1>3. {hour[v] : v \in rows} = {Hour(v.at) : v \in rows}
  OBVIOUS
<1>4. DOMAIN f = {Hour(v.at) : v \in rows}
  BY DEF PerHour
<1>5. \A h \in DOMAIN f : f[h] = Measure({v \in rows : Hour(v.at) = h}, name)
  BY DEF PerHour
<1>6. \A h \in DOMAIN f : f[h] \in Nat
  BY <1>1, <1>5
<1> HIDE DEF f, hour
<1>7. Counts(f)
  BY <1>2, <1>3, <1>4, <1>6 DEF Counts
<1> QED BY <1>1, <1>4, <1>7 DEF f


\* The first of the hours that are compared with.
FirstHour(now) ==
  Greatest({Hour(Least({v.at : v \in visits})),
            LastHour(now) - (BaselineDays * Hours) \div HourUnits})
SlotsBefore(now) ==
  (IF History(now) < BaselineDays * Hours THEN History(now) ELSE BaselineDays * Hours)
    \div HourUnits

\* The slots are the hours from the first one on, or one less, and no hour before is counted.
LEMMA SlotsAreHours ==
    ASSUME FiniteLog, MomentsWell, NEW now \in Nat, EnoughHistory(now),
           NEW first, first = FirstHour(now), NEW last, last = LastHour(now) - 1,
           NEW slots, slots = SlotsBefore(now)
    PROVE  /\ IsFiniteSet(first .. last)
           /\ slots \in Int /\ slots > 0
           /\ slots <= Cardinality(first .. last) /\ Cardinality(first .. last) <= slots + 1
           /\ \A v \in BaselineRows(now) : Hour(v.at) \in first .. last
<1> DEFINE u == HourUnits
           m == Least({v.at : v \in visits})
           q == m \div u
           r == m - q * u
           end == LastHour(now)
           e == end - q
           hist == end * u - m
           all == BaselineDays * Hours
<1>1. u \in Nat \ {0} /\ BaselineDays \in Nat \ {0} /\ MinBaselineDays \in Nat \ {0}
      /\ Hours \in Nat \ {0}
  BY QueriesAssumption DEF RowsAssumption, ComparisonsAssumption
<1>2. PICK D \in Nat \ {0} : all = D * u
  BY <1>1, WholeHours
<1>3. PICK d \in Nat \ {0} : MinBaselineDays * Hours = d * u
  BY <1>1, WholeHours
<1>4. m \in Nat /\ \A v \in visits : v.at \in Nat /\ m <= v.at
  <2> DEFINE times == {v.at : v \in visits}
  <2>1. times \subseteq Nat /\ times # {}
    BY DEF MomentsWell, EnoughHistory
  <2>2. \A v \in visits : v.at \in times
    OBVIOUS
  <2> HIDE DEF times
  <2>3. Least(times) \in times /\ \A n \in times : Least(times) <= n
    BY <2>1, FirstOfChain
  <2>4. m = Least(times)
    BY DEF times
  <2> HIDE DEF m
  <2> QED BY <2>1, <2>2, <2>3, <2>4
<1>5. end \in Int
  <2>1. now \div u \in Int
    BY <1>1
  <2> QED BY <2>1 DEF LastHour, Hour
<1>6. History(now) = hist /\ Hour(m) = q
  BY DEF History, Hour
<1>7. first = Greatest({q, end - all \div u})
  BY <1>6 DEF FirstHour
<1>8. slots = (IF hist < all THEN hist ELSE all) \div u
  BY <1>6 DEF SlotsBefore
<1>9. hist >= d * u
  BY <1>3, <1>6 DEF EnoughHistory
<1>10. last = end - 1
  OBVIOUS
<1> HIDE DEF u, m, all, end
<1>11. q \in Int /\ q * u <= m /\ m < (q + 1) * u
  BY <1>1, <1>4, Divided
<1>12. r \in Nat /\ r < u
  <2>1. (q + 1) * u = q * u + u /\ q * u \in Int
    BY <1>1, <1>11
  <2> HIDE DEF q
  <2> QED BY <1>1, <1>4, <1>11, <2>1
<1>13. hist \in Int /\ hist = e * u - r
  <2> HIDE DEF q
  <2>1. e * u = end * u - q * u /\ end * u \in Int /\ q * u \in Int
    BY <1>1, <1>5, <1>11
  <2> QED BY <1>4, <2>1
<1>14. e \in Int /\ q = end - e
  BY <1>5, <1>11
<1> HIDE DEF q, r, e, hist
<1>15. /\ hist \div u \in Int /\ hist \div u <= e /\ e - 1 <= hist \div u
       /\ hist < D * u => e <= D
       /\ D * u <= hist => D <= e
       /\ d * u <= hist => d <= e
  <2>1. /\ hist \div u \in Int /\ hist \div u <= e /\ e - 1 <= hist \div u
        /\ \A k \in Int : /\ hist < k * u => e <= k
                          /\ k * u <= hist => k <= e
    BY <1>1, <1>12, <1>13, <1>14, ShortBy
  <2>2. D \in Int /\ d \in Int
    OBVIOUS
  <2> QED BY <2>1, <2>2
<1>16. all \div u = D /\ all \in Int /\ d * u \in Int
  BY <1>1, <1>2
<1>17. first = IF q >= end - D THEN q ELSE end - D
  BY <1>5, <1>7, <1>11, <1>16, GreatestOfTwo
<1>18. d <= e
  BY <1>9, <1>13, <1>15, <1>16
<1>19. ASSUME hist < all
       PROVE  first = q /\ slots = hist \div u /\ slots > 0
  <2>1. e <= D
    BY <1>2, <1>15, <1>19
  <2>2. slots = hist \div u
    BY <1>8, <1>19
  <2>3. d <= hist \div u
    <3>1. hist < (hist \div u + 1) * u
      BY <1>1, <1>13, Divided
    <3>2. d * u <= hist
      BY <1>9, <1>13, <1>16
    <3> QED BY <1>1, <1>13, <1>15, <3>1, <3>2, QuotientOrder
  <2> QED BY <1>5, <1>11, <1>14, <1>15, <1>17, <2>1, <2>2, <2>3
<1>20. ASSUME ~ (hist < all)
       PROVE  first = end - D /\ slots = D
  <2>1. D <= e
    BY <1>2, <1>13, <1>15, <1>16, <1>20
  <2> QED BY <1>5, <1>8, <1>14, <1>16, <1>17, <1>20, <2>1
<1>21. /\ first \in Int /\ last \in Int /\ slots \in Int /\ slots > 0
       /\ last - first + 1 <= slots + 1 /\ slots <= last - first + 1
  <2>1. CASE hist < all
    <3>1. first = q /\ slots = hist \div u /\ slots > 0
      BY <1>19, <2>1
    <3> QED BY <1>5, <1>10, <1>11, <1>14, <1>15, <3>1
  <2>2. CASE ~ (hist < all)
    <3>1. first = end - D /\ slots = D
      BY <1>20, <2>2
    <3> QED BY <1>5, <1>10, <3>1
  <2> QED BY <2>1, <2>2
<1>22. IsFiniteSet(first .. last) /\ Cardinality(first .. last) = last - first + 1
  <2>1. ~ (first > last)
    BY <1>21
  <2> QED BY <1>21, <2>1, FS_Interval
<1>23. ASSUME NEW v \in BaselineRows(now) PROVE Hour(v.at) \in first .. last
  <2> DEFINE h == Hour(v.at)
             t == v.at
  <2>1. v \in visits /\ h < end /\ t >= end * u - all
    BY <1>23 DEF BaselineRows, end, u, all
  <2>2. h = t \div u /\ t \in Nat /\ m <= t
    BY <1>4, <2>1 DEF Hour, u
  <2> HIDE DEF t, h
  <2>3. h \in Int /\ t < (h + 1) * u
    BY <1>1, <2>2, Divided
  <2>4. q <= h
    <3>1. q * u <= t
      <4>1. q * u \in Int
        BY <1>1, <1>11
      <4> QED BY <1>4, <1>11, <2>2, <4>1
    <3> QED BY <1>1, <1>11, <2>2, <2>3, <3>1, QuotientOrder
  <2>5. end - D <= h
    <3>1. (end - D) * u = end * u - D * u /\ end - D \in Int
      BY <1>1, <1>5
    <3>2. (end - D) * u <= t
      BY <1>2, <2>1, <3>1
    <3> QED BY <1>1, <2>2, <2>3, <3>1, <3>2, QuotientOrder
  <2>6. h \in first .. last
    BY <1>5, <1>10, <1>17, <1>21, <2>1, <2>3, <2>4, <2>5
  <2> QED BY <2>6 DEF h
<1> QED BY <1>21, <1>22, <1>23

\* An hour that is called unusual is so against the hours before it.
LEMMA HoursAreFair ==
    ASSUME FiniteLog, MomentsWell, NEW now \in Nat, EnoughHistory(now), NEW name \in Measures
    PROVE  SpikeIsFair(HourlyBaseline(now)[name], PerHour(BaselineRows(now), name),
                       FirstHour(now) .. LastHour(now) - 1, UnusualFactor, MinAbsolute, 1)
<1> DEFINE f == PerHour(BaselineRows(now), name)
           current == Measure({v \in visits : Hour(v.at) = LastHour(now)}, name)
           first == FirstHour(now)
           last == LastHour(now) - 1
           slots == SlotsBefore(now)
<1>1. UnusualFactor \in Nat \ {0} /\ MinAbsolute \in Nat
  BY QueriesAssumption DEF ComparisonsAssumption
<1>2. HourlyBaseline(now)[name] = Spike(f, slots, current, UnusualFactor, MinAbsolute)
  BY Zenon DEF HourlyBaseline, SlotsBefore
<1>3. BaselineRows(now) \subseteq visits /\ IsFiniteSet(BaselineRows(now))
  <2>1. BaselineRows(now) \subseteq visits
    BY DEF BaselineRows
  <2> QED BY <2>1, FS_Subset DEF FiniteLog
<1>4. Counts(f) /\ DOMAIN f = {Hour(v.at) : v \in BaselineRows(now)}
  BY <1>3, HoursAreCounted
<1>5. current \in Nat
  <2> DEFINE rows == {v \in visits : Hour(v.at) = LastHour(now)}
  <2>1. IsFiniteSet(rows)
    BY FS_Subset DEF FiniteLog
  <2> HIDE DEF rows
  <2>2. Measure(rows, name) \in Nat
    BY <2>1, HoursAreCounted
  <2> QED BY <2>2 DEF rows
<1> HIDE DEF f, current, first, last, slots
<1>6. /\ IsFiniteSet(first .. last) /\ slots \in Int /\ slots > 0
      /\ slots <= Cardinality(first .. last) /\ Cardinality(first .. last) <= slots + 1
      /\ \A v \in BaselineRows(now) : Hour(v.at) \in first .. last
  BY SlotsAreHours DEF first, last, slots
<1>7. DOMAIN f \subseteq first .. last
  BY <1>4, <1>6
<1> DEFINE S == first .. last
<1>8. S = FirstHour(now) .. LastHour(now) - 1
  BY DEF first, last
<1> HIDE DEF S
<1>9. SpikeIsFair(Spike(f, slots, current, UnusualFactor, MinAbsolute), f, S,
                  UnusualFactor, MinAbsolute, 1)
  <2>1. IsFiniteSet(S) /\ DOMAIN f \subseteq S
        /\ slots <= Cardinality(S) /\ Cardinality(S) <= slots + 1
    BY <1>6, <1>7 DEF S
  <2> QED BY <1>1, <1>4, <1>5, <1>6, <2>1, SpikeHolds
<1> QED BY <1>2, <1>8, <1>9 DEF f


\* So is today's Tor traffic, against the days before it.
LEMMA TorIsFair ==
    ASSUME FiniteLog, MomentsWell, NEW now \in Nat
    PROVE  SpikeIsFair(TorSpike(now), TorBefore(now),
                       Day(now) - TorDays .. Day(now) - 1, 2, 1, 0)
<1> DEFINE rows == {v \in TorRows : v.at >= now - TorDays * Hours /\ Day(v.at) < Day(now)}
           f == TorBefore(now)
           current == Requests({v \in TorRows : Day(v.at) >= Day(now)})
           today == Day(now)
           S == today - TorDays .. today - 1
<1>1. Hours \in Nat \ {0} /\ TorDays \in Nat \ {0}
  BY QueriesAssumption DEF RowsAssumption, ComparisonsAssumption
<1>2. TorSpike(now) = Spike(f, TorDays, current, 2, 1)
  BY Zenon DEF TorSpike
<1>3. TorRows \subseteq visits /\ IsFiniteSet(TorRows)
  <2>1. TorRows \subseteq visits
    BY DEF TorRows
  <2> QED BY <2>1, FS_Subset DEF FiniteLog
<1>4. ASSUME NEW some, some \subseteq TorRows PROVE IsFiniteSet(some) /\ Requests(some) \in Nat
  BY <1>3, <1>4, FS_Subset, FS_CardinalityType DEF Requests
<1>5. current \in Nat
  BY <1>4
<1>6. today \in Int /\ today * Hours <= now
  BY DayOf
<1>7. f = [day \in {Day(v.at) : v \in rows} |-> Requests({v \in rows : Day(v.at) = day})]
  BY Zenon DEF TorBefore
<1>8. rows \subseteq TorRows
  OBVIOUS
<1>9. ASSUME NEW v \in rows PROVE Day(v.at) \in S
  <2> DEFINE t == v.at
             d == Day(v.at)
  <2>1. t \in Nat
    BY <1>3, <1>8, <1>9 DEF MomentsWell
  <2>2. t >= now - TorDays * Hours /\ d < today
    BY <1>9
  <2>3. d \in Nat /\ t < (d + 1) * Hours
    BY <2>1, DayOf
  <2> HIDE DEF t, d, today
  <2>4. (today - TorDays) * Hours = today * Hours - TorDays * Hours /\ today * Hours \in Int
        /\ TorDays * Hours \in Nat /\ today - TorDays \in Int
    BY <1>1, <1>6
  <2>5. (today - TorDays) * Hours <= t
    BY <1>6, <2>1, <2>2, <2>4
  <2>6. today - TorDays <= d
    BY <1>1, <2>1, <2>3, <2>4, <2>5, QuotientOrder
  <2>7. d \in S
    BY <1>1, <1>6, <2>2, <2>3, <2>6
  <2> QED BY <2>7 DEF d
<1> HIDE DEF rows, f, current, today
<1>10. IsFiniteSet(S) /\ Cardinality(S) = TorDays
  <2>1. today - TorDays \in Int /\ today - 1 \in Int /\ ~ (today - TorDays > today - 1)
        /\ (today - 1) - (today - TorDays) + 1 = TorDays
    BY <1>1, <1>6
  <2> QED BY <2>1, FS_Interval
<1>11. DOMAIN f \subseteq S
  BY <1>7, <1>9
<1>12. Counts(f)
  <2>1. IsFiniteSet(DOMAIN f)
    BY <1>10, <1>11, FS_Subset
  <2>2. ASSUME NEW day \in DOMAIN f PROVE f[day] \in Nat
    <3> DEFINE own == {v \in rows : Day(v.at) = day}
    <3>1. own \subseteq TorRows
      BY <1>8
    <3>2. f[day] = Requests(own)
      BY <1>7, <2>2
    <3> HIDE DEF own
    <3> QED BY <1>4, <3>1, <3>2
  <2> QED BY <2>1, <2>2 DEF Counts
<1> HIDE DEF S
<1>13. SpikeIsFair(Spike(f, TorDays, current, 2, 1), f, S, 2, 1, 0)
  <2>1. TorDays \in Int /\ TorDays > 0 /\ TorDays <= Cardinality(S)
        /\ Cardinality(S) <= TorDays + 0 /\ 0 \in Nat /\ 1 \in Nat /\ 2 \in Nat \ {0}
    BY <1>1, <1>10
  <2> QED BY <1>5, <1>10, <1>11, <1>12, <2>1, SpikeHolds
<1> QED BY <1>2, <1>13 DEF f, S, today

\* The hours of a span are not fewer than those between its ends.
LEMMA HoursBetween ==
    ASSUME NEW u \in Nat \ {0}, NEW x \in Nat, NEW y \in Nat
    PROVE  (y - x) \div u \in Int /\ (y - x) \div u <= y \div u - x \div u
<1> DEFINE k == (y - x) \div u
           p == x \div u
           q == y \div u
<1>1. k \in Int /\ k * u <= y - x
  BY Divided
<1>2. p \in Int /\ p * u <= x
  BY Divided
<1>3. q \in Int /\ y < (q + 1) * u
  BY Divided
<1> HIDE DEF k, p, q
<1>4. ((q - p) + 1) * u = (q + 1) * u - p * u /\ (q + 1) * u \in Int /\ p * u \in Int
      /\ k * u \in Int /\ q - p \in Int
  BY <1>1, <1>2, <1>3
<1>5. y - x < ((q - p) + 1) * u /\ y - x \in Int
  BY <1>2, <1>3, <1>4
<1>6. k <= q - p
  BY <1>1, <1>4, <1>5, QuotientOrder
<1> QED BY <1>1, <1>6 DEF k, p, q

\* The typical hour holds for half of the hours of the span.
LEMMA TypicalHolds ==
    ASSUME FiniteLog, MomentsWell, NEW since, NEW until
    PROVE  TypicalIsMiddling(since, until)
<1> DEFINE rows == Within(visits, since, until)
           hours == {Hour(v.at) : v \in rows}
           times == {v.at : v \in rows}
           first == Least(hours)
           last == Greatest(hours)
           span == first .. last
           active == Cardinality(hours)
           slots == (Greatest(times) - Least(times)) \div HourUnits + 1
           n == IF slots > active THEN slots ELSE active
           typical == TypicalHour(since, until)
<1> SUFFICES ASSUME rows # {}
             PROVE  /\ typical.hours <= last - first + 1
                    /\ \A name \in Measures :
                         2 * Cardinality({h \in span :
                               2 * CountOf(PerHour(rows, name), h) <= typical.twice[name]})
                           >= Cardinality(span)
  <2>1. ASSUME NEW name \in Measures PROVE DOMAIN PerHour(rows, name) = hours
    BY DEF PerHour
  <2> HIDE DEF rows, typical
  <2> QED BY <2>1, Zenon DEF TypicalIsMiddling, CountOf, rows, typical
<1>1. HourUnits \in Nat \ {0}
  BY QueriesAssumption DEF ComparisonsAssumption
<1>2. rows \subseteq visits /\ IsFiniteSet(rows)
  <2>1. rows \subseteq visits
    BY DEF Within
  <2> QED BY <2>1, FS_Subset DEF FiniteLog
<1>3. \A v \in rows : v.at \in Nat
  BY <1>2 DEF MomentsWell
<1>4. typical = [hours |-> n, twice |-> [name \in Measures |-> MedianTwice(PerHour(rows, name), n)]]
  BY Zenon DEF TypicalHour
<1>5. typical.hours = n /\ \A name \in Measures :
                              typical.twice[name] = MedianTwice(PerHour(rows, name), n)
  <2> HIDE DEF typical, n, rows
  <2> QED BY <1>4
<1> HIDE DEF rows, typical
<1>6. IsFiniteSet(times) /\ IsFiniteSet(hours)
  <2> DEFINE at == [v \in rows |-> v.at]
             hour == [v \in rows |-> Hour(v.at)]
  <2>1. times = {at[v] : v \in rows} /\ hours = {hour[v] : v \in rows}
        /\ DOMAIN at = rows /\ DOMAIN hour = rows
    OBVIOUS
  <2> HIDE DEF at, hour, times, hours
  <2> QED BY <1>2, <2>1, ImageCount
<1>7. times # {} /\ times \subseteq Nat
  BY <1>3
<1>8. \A t \in times : t \div HourUnits \in hours
  BY DEF Hour
<1>9. hours # {} /\ hours \subseteq Nat
  <2>1. \A v \in rows : Hour(v.at) \in Nat
    BY <1>1, <1>3 DEF Hour
  <2> QED BY <2>1
<1> HIDE DEF times, hours
<1> DEFINE y == Greatest(times)
           x == Least(times)
<1>10. y \in times /\ x \in times /\ y \in Nat /\ x \in Nat
  <2>1. x \in times
    BY <1>7, FirstOfChain
  <2>2. y \in times
    BY <1>6, <1>7, LastOf
  <2> HIDE DEF x, y
  <2> QED BY <1>7, <2>1, <2>2
<1>11. first \in hours /\ \A h \in hours : first <= h
  BY <1>9, FirstOfChain
<1>12. last \in hours /\ \A h \in hours : h <= last
  BY <1>6, <1>9, LastOf
<1>13. slots = (y - x) \div HourUnits + 1
  OBVIOUS
<1> HIDE DEF first, last, slots, x, y
<1>14. slots \in Int /\ slots <= last - first + 1
  <2>1. y \div HourUnits <= last /\ first <= x \div HourUnits
        /\ y \div HourUnits \in Nat /\ x \div HourUnits \in Nat
    BY <1>8, <1>9, <1>10, <1>11, <1>12
  <2> DEFINE k == (y - x) \div HourUnits
             p == x \div HourUnits
             q == y \div HourUnits
  <2>2. k \in Int /\ k <= q - p
    BY <1>1, <1>10, HoursBetween
  <2>3. slots = k + 1
    BY <1>13
  <2> HIDE DEF k, p, q
  <2>4. q <= last /\ first <= p /\ q \in Nat /\ p \in Nat
    BY <2>1 DEF p, q
  <2> QED BY <1>9, <1>11, <1>12, <2>2, <2>3, <2>4
<1>15. hours \subseteq span /\ first \in Nat /\ last \in Nat /\ first <= last
  BY <1>9, <1>11, <1>12
<1>16. IsFiniteSet(span) /\ Cardinality(span) = last - first + 1
  <2>1. first \in Int /\ last \in Int /\ ~ (first > last)
    BY <1>15
  <2> QED BY <2>1, FS_Interval
<1> HIDE DEF span
<1>17. active \in Nat /\ active > 0 /\ active <= last - first + 1
  <2>1. active <= Cardinality(span) /\ active \in Nat
    BY <1>6, <1>15, <1>16, FS_Subset, FS_CardinalityType
  <2>2. active # 0
    BY <1>6, <1>9, FS_EmptySet
  <2> HIDE DEF active
  <2> QED BY <1>16, <2>1, <2>2
<1> HIDE DEF active
<1>18. n \in Nat /\ n > 0 /\ n <= last - first + 1 /\ active <= n
  BY <1>14, <1>17
<1> HIDE DEF n
<1>19. ASSUME NEW name \in Measures
       PROVE  2 * Cardinality({h \in span :
                    2 * CountOf(PerHour(rows, name), h) <= typical.twice[name]})
                >= Cardinality(span)
  <2> DEFINE f == PerHour(rows, name)
             twice == typical.twice[name]
             below == {h \in span : 2 * CountOf(f, h) <= twice}
  <2>1. Counts(f) /\ DOMAIN f = hours
    BY <1>2, HoursAreCounted DEF hours
  <2>2. twice = MedianTwice(f, n)
    BY <1>5
  <2> HIDE DEF f, twice
  <2>3. n = SlotsOf(f, n)
    <3>1. Cardinality(DOMAIN f) = active
      BY <2>1 DEF active
    <3> QED BY <1>17, <1>18, <3>1 DEF SlotsOf
  <2>4. PICK a, b \in Nat : a <= b /\ twice = a + b /\ 2 * UpTo(f, n, a) >= n
    <3>1. n \in Int
      BY <1>18
    <3>2. \E a, b \in Nat : a <= b /\ MedianTwice(f, n) = a + b /\ 2 * UpTo(f, n, a) >= n
      BY <1>18, <2>1, <2>3, <3>1, MedianSplits
    <3> QED BY <2>2, <3>2
  <2> DEFINE low == {h \in span : CountOf(f, h) <= a}
  <2>5. 2 * Cardinality(low) >= Cardinality(span)
    BY <1>15, <1>16, <1>18, <2>1, <2>4, HalfAtMost
  <2>6. low \subseteq below
    <3> SUFFICES ASSUME NEW h \in span, CountOf(f, h) <= a
                 PROVE  2 * CountOf(f, h) <= twice
      OBVIOUS
    <3>1. CountOf(f, h) \in Nat
      BY <2>1 DEF CountOf, Counts
    <3> QED BY <2>4, <3>1
  <2>7. below \subseteq span
    OBVIOUS
  <2> HIDE DEF low, below
  <2>8. /\ Cardinality(low) <= Cardinality(below)
        /\ Cardinality(low) \in Nat /\ Cardinality(below) \in Nat
    BY <1>16, <2>6, <2>7, FS_Subset, FS_CardinalityType
  <2>9. Cardinality(span) \in Nat
    BY <1>16, FS_CardinalityType
  <2>10. 2 * Cardinality(below) >= Cardinality(span)
    BY <2>5, <2>8, <2>9
  <2> QED BY <2>10 DEF below, f, twice
<1> QED BY <1>5, <1>18, <1>19


-----------------------------------------------------------------------------
(* Every comparison of the log *)

\* What the comparisons need of the log.
ComparisonsInv == FiniteLog /\ (part = "comparisons" => MomentsWell)

\* It holds of the empty log.
LEMMA ComparisonsInit == Init => ComparisonsInv
<1> SUFFICES ASSUME Init PROVE ComparisonsInv
  OBVIOUS
<1>1. visits = {}
  BY DEF Init
<1> QED BY <1>1, FS_EmptySet DEF ComparisonsInv, FiniteLog, MomentsWell

\* A finite log with moments compares fairly.
LEMMA ComparisonsOfTheLog ==
    ASSUME FiniteLog, MomentsWell, LongAgo(Day(Now))
    PROVE  /\ WindowIsCarried(Day(Now)) /\ DeltaIsAdjacent(Day(Now)) /\ SpikesAreFair(Now)
           /\ TypicalIsMiddling(None, None) /\ TypicalIsMiddling(14, 20)
<1>1. Now \in Nat /\ Day(Now) \in Nat
  BY DayOf DEF Now
<1>2. WindowIsCarried(Day(Now))
  BY <1>1, WindowComesBack DEF WindowIsCarried, ShownDates
<1>3. DeltaIsAdjacent(Day(Now))
  BY <1>1, DeltaOfWindow
<1>4. SpikesAreFair(Now)
  <2>1. EnoughHistory(Now) =>
          \A name \in Measures :
            SpikeIsFair(HourlyBaseline(Now)[name], PerHour(BaselineRows(Now), name),
                        FirstHour(Now) .. LastHour(Now) - 1, UnusualFactor, MinAbsolute, 1)
    BY <1>1, HoursAreFair
  <2>2. SpikeIsFair(TorSpike(Now), TorBefore(Now), Day(Now) - TorDays .. Day(Now) - 1, 2, 1, 0)
    BY <1>1, TorIsFair
  <2> QED BY <2>1, <2>2, Zenon DEF SpikesAreFair, FirstHour
<1>5. TypicalIsMiddling(None, None) /\ TypicalIsMiddling(14, 20)
  BY TypicalHolds
<1> QED BY <1>2, <1>3, <1>4, <1>5

\* A request that is recorded has its moment.
LEMMA ComparisonsStep ==
    ASSUME ComparisonsInv, [Next]_<<rowVars, part>>
    PROVE  ComparisonsInv'
<1>1. FiniteLog
  BY DEF ComparisonsInv
<1>2. FiniteLog'
  BY <1>1, LogGrows DEF FiniteLog
<1>3. part' = part
  BY DEF Next, RecordOne, LearnOne
<1> SUFFICES ASSUME part = "comparisons" PROVE MomentsWell'
  BY <1>2, <1>3 DEF ComparisonsInv
<1>4. MomentsWell
  BY DEF ComparisonsInv
<1>5. ASSUME NEW ip \in {1, 2}, NEW at \in Moments, RecordSweep(ip, at, <<"/a">>)
      PROVE  MomentsWell'
  <2>1. at \in Nat
    BY DEF Moments
  <2> DEFINE row(k) == Row(Cardinality(visits) + k, ip, at, Probe((<<"/a">>)[k]))
             rows == {row(k) : k \in DOMAIN <<"/a">>}
  <2>2. visits' = visits \union rows
    BY <1>5 DEF RecordSweep
  <2>3. \A k : row(k).at = at
    BY DEF Row, Probe, Visit
  <2> HIDE DEF row
  <2>4. \A v \in rows : v.at = at
    BY <2>3
  <2> HIDE DEF rows
  <2> QED BY <1>4, <2>1, <2>2, <2>4 DEF MomentsWell
<1>6. CASE RecordOne
  BY <1>5, <1>6 DEF RecordOne
<1>7. CASE LearnOne
  <2>1. visits' = visits
    BY <1>7 DEF LearnOne, Learn
  <2> QED BY <1>4, <2>1 DEF MomentsWell
<1>8. CASE UNCHANGED <<rowVars, part>>
  BY <1>4, <1>8 DEF rowVars, MomentsWell
<1> QED BY <1>6, <1>7, <1>8 DEF Next

\* For every set of ranges, every day and hour length and every threshold: a window shown is the one that
\* comes back, its delta is of the span directly before it, and what is called unusual or
\* typical is so against every slot, the silent ones included.
THEOREM ComparisonsAreOfTheirSpan == Spec => []ComparisonsAreFair
<1>1. ComparisonsInv => ComparisonsAreFair
  BY ComparisonsOfTheLog, DaysAssumption DEF ComparisonsInv, ComparisonsAreFair
<1>2. ComparisonsInv /\ [Next]_<<rowVars, part>> => ComparisonsInv'
  BY ComparisonsStep
<1> QED BY <1>1, <1>2, ComparisonsInit, PTL DEF Spec
=============================================================================

------------------------------ MODULE MCQueries ------------------------------
(***************************************************************************)
(* The query modules over one small log that grows a request at a time     *)
(* while addresses are enriched and judged again.  A behaviour picks the   *)
(* part whose requests and facts it draws from.                            *)
(***************************************************************************)
EXTENDS Comparisons, Sessions, Exposure, Rules

VARIABLE part

ASSUME QueriesAssumption ==
  /\ RowsAssumption /\ SelectionAssumption /\ SessionsAssumption
  /\ ExposureAssumption /\ RulesAssumption /\ ComparisonsAssumption

AsWritten(p) == [page |-> p, decoded |-> p, query |-> FALSE]
MCForm == [p \in {"/", "/.env", "/a", "/robots", "junk"} |-> AsWritten(p)]
            @@ ("/?x" :> [page |-> "/", decoded |-> "/?x", query |-> TRUE])
            @@ ("/%2eenv" :> [page |-> "/%2eenv", decoded |-> "/.env", query |-> FALSE])

Request(path, browser, os, port, status, limit) ==
  [path |-> path, browser |-> browser, os |-> os, port |-> port, status |-> status,
   limit |-> limit]

Fact(class, country, flags, tags, vulns, located) ==
  [class |-> class, country |-> country, asn |-> "AS1", flags |-> flags, tags |-> tags,
   vulns |-> vulns, located |-> located]

SelectionFacts ==
  {<<1, Fact(Class("threats", "exploit"), "FR", {"is_tor"}, {"scanner"}, {"CVE"}, TRUE)>>,
   <<2, Fact(Class("humans", "browser"), "DE", {"is_mobile"}, {}, {"CVE"}, TRUE)>>,
   <<2, Fact(Class("unknown", ""), "", {"is_hosting"}, {}, {}, FALSE)>>}

\* Every window alone and with a class, New, the bar or an address; over the one
\* that begins with the second day also every other narrowing, alone and paired
\* with New and with the bar.
Windows == {<<None, None>>, <<4, None>>, <<0, 0>>}
Drills == {{}, Only("country", "DE"), Only("path", "/.env"), Only("port", "443")}
TermSets == {{}, {Term("path", "/.env")}, {Term("status", "4xx")}, {Term("class", "threats")},
             {Term("signal", "clean")}, {Term("broad", "DE")}}

Narrowings(f) ==
  LET one(b) == IF b THEN 1 ELSE 0
  IN  one(f.classes # {}) + one(f.signals # {}) + one(f.seen # "total") + one(f.min # 0)
      + one(f.ip # None) + one(f.drill # {}) + one(f.terms # {})

MCFilters ==
  {f \in [since : {None, 0, 4}, until : {None, 0}, classes : {{}, {Class("threats", "")}},
          signals : {{}, {"clean"}, {"is_tor", "has_tags"}}, seen : {"total", "new", "both"},
          min : {0, 2}, ip : {None, 1}, drill : Drills, terms : TermSets] :
     /\ <<f.since, f.until>> \in Windows
     /\ f.seen = "both" => Narrowings(f) = 1
     /\ f.signals # {} \/ f.drill # {} \/ f.terms # {} => f.since = 4
     /\ \/ Narrowings(f) <= 1
        \/ Narrowings(f) = 2 /\ f.since = 4 /\ (f.seen = "new" \/ f.min = 2)}

\* The second address only browses, with another system under the same browser.
Senders == {<<1, Request("/", "Firefox", "Linux", "443", 200, "")>>,
            <<1, Request("/.env", "", "Windows", "80", 404, "DELAYED")>>,
            <<2, Request("/", "Firefox", "Android", "443", 200, "")>>}

\* Both are of one network.
MCNetworkOf == [ip \in {1, 2} |-> "192.0.2.0/24"]

\* Requests of one address that tell sessions and behaviours apart.
Visit(path, status, method, port, internal) ==
  [path |-> path, status |-> status, method |-> method, port |-> port, internal |-> internal]

SessionRequests ==
  {Visit("/", 200, "GET", "443", FALSE), Visit("/?x", 200, "GET", "443", TRUE),
   Visit("/", 301, "GET", "80", FALSE), Visit("/a", 401, "POST", "443", FALSE),
   Visit("/a", 404, "GET", "443", FALSE), Visit("/robots", 404, "GET", "443", FALSE),
   Visit("junk", 400, "TLS", "443", FALSE)}

Probe(path) == Visit(path, 404, "GET", "443", FALSE)
\* A sweep probes its paths in one moment.
Sweeps == {<<"/a">>, <<"/.env", "/a">>}

RecordSweep(ip, at, paths) ==
  /\ \A v \in visits : v.at <= at
  /\ visits' = visits \union
       {Row(Cardinality(visits) + k, ip, at, Probe(paths[k])) : k \in DOMAIN paths}
  /\ UNCHANGED intel

\* Two spellings of one file, fetched by a reader and by two others.
Fetches == [path : {"/.env", "/%2eenv", "/?x"}, status : {200}]
             \union [path : {"/.env"}, status : {404}]

ExposureFacts ==
  {Fact(Class("humans", "browser"), "DE", {}, {}, {}, FALSE),
   Fact(Class("threats", "exploit"), "FR", {}, {}, {}, FALSE)}
MCBenign == {Class("humans", "browser")}

\* Requests and findings that reach every rule of the classifier.
MCKinds ==
  [p \in DOMAIN MCForm |-> CASE p = "/.env"    -> {"scanner"}
                             [] p = "/%2eenv" -> {"exploit"}
                             [] p = "junk"    -> {"payload"}
                             [] p = "/a"      -> {"script"}
                             [] OTHER         -> {}]
Lists == {"researcher_rdns", "researcher_uas", "scanning_tool_uas", "search_rdns",
          "search_uas", "ai_rdns", "ai_uas", "seo_uas", "http_client_uas"}
MCNeedles ==
  [l \in Lists |-> CASE l = "search_uas"      -> <<"searchbot">>
                     [] l = "search_rdns"     -> <<"search.example">>
                     [] l = "http_client_uas" -> <<"curl">>
                     [] OTHER                 -> <<>>]
MCCrawlerOrigins == "searchbot" :> {"search-net"}

Judged(path, status, method, fetch, origin, agent, device) ==
  [path |-> path, status |-> status, method |-> method, port |-> "443", fetch |-> fetch,
   origin |-> origin, agent |-> agent, device |-> device, modern |-> fetch = "navigate"]

JudgedRequests ==
  {Judged("/", 200, "GET", "navigate", "cross-site", {}, "Desktop"),
   Judged("/?x", 200, "GET", "navigate", "same-origin", {}, "Desktop"),
   Judged("/a", 200, "GET", "", "same-origin", {"curl"}, "Desktop"),
   Judged("/", 200, "GET", "", "", {"searchbot"}, "Bot"),
   Judged("/a", 404, "GET", "", "", {"curl"}, "Desktop"),
   Judged("/", 404, "GET", "navigate", "", {}, "Desktop"),
   Judged("/.env", 404, "GET", "navigate", "", {}, "Desktop"),
   Judged("/%2eenv", 200, "GET", "navigate", "", {}, "Desktop"),
   Judged("junk", 400, "NON-HTTP", "", "", {}, "Desktop"),
   Judged("/", 400, "TLS", "", "", {}, "Desktop"),
   Judged("/robots", 404, "GET", "navigate", "", {}, "Desktop")}

Lookups == {l \in [rdns : {{}, {"search.example"}}, owner : {{}, {"search-net"}},
                    hosting : BOOLEAN] : l.hosting => l.rdns = {}}

\* Moments of a few days of two hours each, the last of them having begun.
MCPresets == "24h" :> 1 @@ "2d" :> 2
Moments == {9, 12, 13, 14, 16, 18, 22, 23, 24, 26}
Now == 27

ASSUME DaysAssumption == LongAgo(Day(Now))

\* The server refuses what is not HTTP.
ASSUME PseudoAssumption == \A r \in SessionRequests : r.path \in Pseudo => ~ IsOk(r)

Init == /\ visits = {} /\ intel = <<>>
        /\ part \in {"selection", "sessions", "incidents", "exposure", "rules", "comparisons"}

RecordOne ==
  /\ \/ /\ part = "selection"
        /\ \E s \in Senders, at \in {0, 1, 4} : Record(s[1], at, s[2])
     \/ /\ part = "sessions"
        /\ \E r \in SessionRequests, at \in {0, 1, 3} : Record(1, at, r)
     \/ /\ part = "incidents" /\ Cardinality(visits) < 7
        /\ \E ip \in {1, 2}, at \in 3 .. 6, s \in Sweeps : RecordSweep(ip, at, s)
     \/ /\ part = "exposure"
        /\ \E ip \in {1, 2}, at \in {0, 4}, f \in Fetches : Record(ip, at, f)
     \/ /\ part = "rules"
        /\ \E r \in JudgedRequests : Record(1, 0, r)
     \/ /\ part = "comparisons" /\ Cardinality(visits) < 4
        /\ \E ip \in {1, 2}, at \in Moments : RecordSweep(ip, at, <<"/a">>)
  /\ UNCHANGED part

LearnOne ==
  /\ \/ /\ part = "selection"
        /\ \E l \in SelectionFacts : Learn(l[1], l[2])
     \/ /\ part = "exposure"
        /\ \E ip \in {1, 2}, f \in ExposureFacts : Learn(ip, f)
     \/ /\ part = "rules"
        /\ \E f \in Lookups : Learn(1, f)
     \/ /\ part = "comparisons"
        /\ Learn(2, Fact(Class("threats", "exploit"), "FR", {"is_tor"}, {}, {}, FALSE))
  /\ UNCHANGED part

Next == RecordOne \/ LearnOne

Spec == Init /\ [][Next]_<<rowVars, part>>

-----------------------------------------------------------------------------
(* The properties of the parts *)

\* Whatever the visitors page is asked with, its table, pager, chips, charts and
\* map answer for one selection.
SelectionViewsAgree == part = "selection" => ViewsAgree

\* A figure of the other pages and the list it opens agree as far as their filters do.
SelectionFiguresMatch == part = "selection" => FiguresMatchTheirList

\* A session's bounds list exactly its requests, and the panel under an incident
\* of the unbounded page the addresses, probes and paths its row counts.
SessionsAndPanelsMatch ==
  /\ part = "sessions" => SessionSelectsItsRows
  /\ part = "incidents" => PanelMatchesRow

\* The same panel on a page that begins with a day.
IncidentPanelMatches == part = "incidents" => PanelMatchesItsRow

\* A finding counts what was fetched of its file, in every spelling, and the page
\* behind it shows the same.
ExposureIsHonest == part = "exposure" => FindingsAreHonest

\* The window follows the reader, its delta is of the span before it, and what is
\* called unusual or typical is so against every slot, the silent ones included.
ComparisonsAreFair ==
  part = "comparisons" =>
    /\ WindowIsCarried(Day(Now)) /\ DeltaIsAdjacent(Day(Now)) /\ SpikesAreFair(Now)
    /\ TypicalIsMiddling(None, None) /\ TypicalIsMiddling(14, 20)

\* An address once judged a threat is never washed out by what it does next.
VerdictsKeepAbuse == [][part = "rules" => AbuseIsKept]_rowVars
=============================================================================

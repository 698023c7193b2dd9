------------------------------ MODULE Sessions ------------------------------
(***************************************************************************)
(* Sessions and incidents, computed on read from the stored requests.      *)
(*                                                                         *)
(* A session is a run of one address's requests with no silence longer     *)
(* than SessionGap (queries/sessions.py); what it did is read from its     *)
(* counts (src/sessions.py).  An incident is a run of sessions of several  *)
(* addresses that probed the same first paths in the same order            *)
(* (queries/incidents.py); a page of incidents is asked for a window, and  *)
(* the panel under a row asks again for that one event, by its own bounds  *)
(* and signature.                                                          *)
(***************************************************************************)
EXTENDS Rows

CONSTANTS SessionGap, IncidentGap, MinAddresses, SignaturePaths,
          MinActions, BruteRepeats, EnumUnserved, ReconMax, ScrapeServed,
          ProbeUnit, ProbeCap

SessionsAssumption ==
  /\ {SessionGap, IncidentGap, MinAddresses, SignaturePaths, ProbeUnit} \subseteq Nat \ {0}
  /\ {MinActions, BruteRepeats, EnumUnserved, ReconMax, ScrapeServed, ProbeCap} \subseteq Nat

Earlier(v, w) == v.at < w.at \/ (v.at = w.at /\ v.id < w.id)

\* Members in order of their place, a moment and a tie-break, cut wherever the
\* one before lies more than `gap` back.
Chained(S, place, gap) ==
  LET before(y, x) == \/ place[y][1] < place[x][1]
                      \/ place[y][1] = place[x][1] /\ place[y][2] < place[x][2]
      starts == {x \in S : \A y \in S : before(y, x) => place[x][1] - place[y][1] > gap}
      number(x) == Cardinality({s \in starts : s = x \/ before(s, x)})
  IN  {{x \in S : number(x) = n} : n \in 1 .. Cardinality(starts)}

Runs(rows, ip) ==
  LET own == OfAddress(rows, ip)
  IN  Chained(own, [v \in own |-> <<v.at, v.id>>], SessionGap)

Started(rows) == Least({v.at : v \in rows})
Ended(rows) == Greatest({v.at : v \in rows})

-----------------------------------------------------------------------------
(* The sessions of one address (queries/sessions.py, src/sessions.py) *)

Page(path) == Form[path].page
Pages(rows) == {Page(v.path) : v \in {w \in rows : w.path \notin Pseudo}}
IsOk(v) == v.status \in 200 .. 299
IsProbe(v) == v.status = 404 /\ v.path \notin Convention
\* A request that reached the site: not the redirect away from port 80.
IsContent(v) == ~ (v.status \in {301, 308} /\ v.port = "80")

\* What the session asked for and what of it was served, counted in pages.
Evidence(rows) ==
  LET ok == {v \in rows : IsOk(v)}
      served == {Page(v.path) : v \in ok}
      hits(path) == Cardinality({v \in rows : v.path = path})
  IN  [started |-> Started(rows), ended |-> Ended(rows),
       requests |-> Cardinality(rows),
       unique_paths |-> Cardinality(Pages(rows)),
       distinct_2xx_paths |-> Cardinality(served),
       unserved_paths |-> Cardinality(Pages(rows)) - Cardinality(served),
       probe_404 |-> Cardinality({v \in rows : IsProbe(v)}),
       ok_requests |-> Cardinality(ok),
       content_requests |-> Cardinality({v \in rows : IsContent(v)}),
       internal_nav |-> Cardinality({v \in rows : v.internal}),
       post_requests |-> Cardinality({v \in rows : v.method = "POST"}),
       refused |-> Cardinality({v \in rows : v.status \in {401, 403}}),
       max_path_repeats |-> Greatest({hits(v.path) : v \in rows}),
       entry_id |-> Least({v.id : v \in rows})]

\* A priority chain: the first rule that holds; "" is a normal answer.
Behaviours(s) ==
  <<[key |-> "", holds |-> s.unique_paths < MinActions /\ s.content_requests < MinActions],
    [key |-> "brute-force",
     holds |-> /\ s.max_path_repeats >= BruteRepeats
               /\ s.post_requests >= BruteRepeats \/ s.refused >= BruteRepeats],
    [key |-> "enumeration",
     holds |-> /\ s.unserved_paths >= EnumUnserved
               /\ 2 * s.unserved_paths > s.unique_paths],
    [key |-> "recon", holds |-> s.probe_404 > 0 /\ s.content_requests \in 1 .. ReconMax],
    [key |-> "scraping",
     holds |-> s.distinct_2xx_paths >= ScrapeServed /\ s.internal_nav = 0],
    [key |-> "browsing", holds |-> s.internal_nav > 0 \/ s.ok_requests >= MinActions],
    [key |-> "", holds |-> TRUE]>>

BehaviourFor(s) ==
  LET chain == Behaviours(s)
  IN  chain[Least({k \in DOMAIN chain : chain[k].holds})].key

Session(s) ==
  [field \in DOMAIN s \union {"behaviour"} |->
     IF field = "behaviour" THEN BehaviourFor(s) ELSE s[field]]

GetSessions(ip) == {Session(Evidence(rows)) : rows \in Runs(visits, ip)}

\* Asked on its own: the boundaries, not the sessions.
CountSessions(ip) ==
  LET own == OfAddress(visits, ip)
      silence(v) == \A w \in own : Earlier(w, v) => v.at - w.at > SessionGap
  IN  Cardinality({v \in own : silence(v)})

\* A session's bounds are moments: both ends included, at full precision.
MomentWindow(rows, since, until) == {v \in rows : v.at >= since /\ v.at <= until}

\* The requests the drawer lists for a session.
VisitorRequests(ip, since, until) == MomentWindow(OfAddress(visits, ip), since, until)

-----------------------------------------------------------------------------
(* Incidents (queries/incidents.py, src/incidents.py) *)

ProbeRows(since, until) == {v \in Within(visits, since, until) : IsProbe(v)}

\* The first SignaturePaths distinct paths, in the order they first arrived; a
\* session that probed fewer has none.
Signature(rows) ==
  LET paths == {v.path : v \in rows}
      first(path) == Least({v.id : v \in {w \in rows : w.path = path}})
      rank(path) == Cardinality({q \in paths : first(q) <= first(path)})
  IN  IF Cardinality(paths) < SignaturePaths THEN <<>>
      ELSE [k \in 1 .. SignaturePaths |-> CHOOSE p \in paths : rank(p) = k]

\* The chain both queries read: the probing sessions that carry a signature.
Spans(rows) ==
  LET span(ip, run) == [ip |-> ip, signature |-> Signature(run), rows |-> run,
                        started |-> Started(run), ended |-> Ended(run)]
  IN  {s \in UNION {{span(ip, run) : run \in Runs(rows, ip)} : ip \in Addresses(rows)} :
         s.signature # <<>>}

\* The sort key: coordination first, volume last and capped.
Score(members, probes) ==
  LET ips == {s.ip : s \in members}
      asns == {Intel(ip).asn : ip \in ips} \ {""}
      listed == {ip \in ips : "dnsbl_listed" \in Intel(ip).flags}
      units == IF probes \div ProbeUnit < ProbeCap THEN probes \div ProbeUnit ELSE ProbeCap
  IN  3 * Cardinality(ips) + 2 * Cardinality(asns) + 4 * Cardinality(listed) + units

Incident(members) ==
  LET probes == Sum([s \in members |-> Cardinality(s.rows)])
  IN  [signature |-> (CHOOSE s \in members : TRUE).signature,
       started |-> Least({s.started : s \in members}),
       ended |-> Greatest({s.ended : s \in members}),
       last_started |-> Greatest({s.started : s \in members}),
       members |-> {s.ip : s \in members},
       probe_404 |-> probes,
       score |-> Score(members, probes)]

\* Sessions of one signature whose starts follow each other closely are one run;
\* a run of enough addresses is an incident.
GetIncidents(since, until) ==
  LET spans == Spans(ProbeRows(since, until))
      of(signature) == {s \in spans : s.signature = signature}
      runs == UNION {Chained(of(sig), [s \in of(sig) |-> <<s.started, s.ip>>], IncidentGap) :
                       sig \in {s.signature : s \in spans}}
  IN  {Incident(run) : run \in {r \in runs : Cardinality({s.ip : s \in r}) >= MinAddresses}}

\* Broken variant of Padded: the panel's window opens with the incident.
PaddedNot(since) == since

\* One gap earlier, so that the silence before a start can be seen.
Padded(since) == since - SessionGap

\* Membership ends with the last start, the data with the last end.
PanelSpans(incident) ==
  {s \in Spans(ProbeRows(Padded(incident.started), incident.ended)) :
     /\ s.signature = incident.signature
     /\ s.started \in incident.started .. incident.last_started}

\* What the members asked for: per path, its addresses and its requests.
IncidentPaths(incident) ==
  LET rows == UNION {s.rows : s \in PanelSpans(incident)}
  IN  [p \in {v.path : v \in rows} |->
         [addresses |-> Addresses({v \in rows : v.path = p}),
          requests |-> Cardinality({v \in rows : v.path = p})]]

-----------------------------------------------------------------------------
(* What they owe each other *)

\* The bounds of a session, put into the address of a page, list exactly its
\* own requests; the sessions cover the address, their number is the one the
\* page states, and what was served and what was not add up to what was asked
\* for (get_visitor_requests, count_sessions, get_sessions).
SessionSelectsItsRows ==
  \A ip \in Addresses(visits) :
     LET sessions == GetSessions(ip)
     IN  /\ Cardinality(sessions) = CountSessions(ip)
         /\ Sum([s \in sessions |-> s.requests]) = Cardinality(OfAddress(visits, ip))
         /\ \A s \in sessions :
              LET rows == VisitorRequests(ip, s.started, s.ended)
                  served == {Page(v.path) : v \in {w \in rows : IsOk(w)}}
              IN  /\ Cardinality(rows) = s.requests
                  /\ s.unserved_paths = Cardinality(Pages(rows) \ served)
                  /\ s.behaviour = "recon" => \E v \in rows : IsProbe(v)
                  /\ s.behaviour = "scraping" => Cardinality(served) >= ScrapeServed

PanelMatches(incident) ==
  LET panel == PanelSpans(incident)
      paths == IncidentPaths(incident)
  IN  /\ {s.ip : s \in panel} = incident.members
      /\ Sum([s \in panel |-> Cardinality(s.rows)]) = incident.probe_404
      /\ Sum([p \in DOMAIN paths |-> paths[p].requests]) = incident.probe_404
      /\ \A k \in DOMAIN incident.signature : incident.signature[k] \in DOMAIN paths

\* The panel under an incident of the unbounded page lists the addresses, the
\* probes and the paths its row counts (get_incident_sessions).
PanelMatchesRow == \A incident \in GetIncidents(None, None) : PanelMatches(incident)

\* The same for a page that begins with any day.  It does not hold: the page
\* cuts a session that runs over midnight and the panel does not.
PanelMatchesItsRow ==
  \A day \in {v.at \div Hours : v \in visits} :
     \A incident \in GetIncidents(day * Hours, None) : PanelMatches(incident)
=============================================================================

------------------------------ MODULE Exposure ------------------------------
(***************************************************************************)
(* What this server handed out and nothing legitimate asked for            *)
(* (queries/analysis.py, the exposure page).                               *)
(*                                                                         *)
(* Requests are counted per raw path; the percent-encoded spellings of one *)
(* resource then fold into one row, and the row is asked whether benign    *)
(* visitors ever fetched it.  The panel under a row asks again, by its     *)
(* spellings.                                                              *)
(***************************************************************************)
EXTENDS Rows

CONSTANTS Benign,         \* classes that count as legitimate
          BenignForSite,  \* benign addresses that make a path part of the site
          Fragments       \* paths only the site's own scripts fetch

ExposureAssumption == BenignForSite \in Nat \ {0} /\ Fragments \subseteq DOMAIN Form

Served(v) == v.status \in 200 .. 299
IsBenign(ip) == Enriched(ip) /\ Intel(ip).class \in Benign

FetchedAs(spellings) == {v \in visits : Served(v) /\ v.path \in spellings}

\* Unwindowed: a path does not leave the site on a quiet day.
BenignEver(spellings) == {ip \in Addresses(FetchedAs(spellings)) : IsBenign(ip)}

CanonicalPath(path) == Form[path].decoded

\* One raw path: its addresses and requests in the window.
PathRows(since, until) ==
  LET rows == Within(FetchedAs({p \in DOMAIN Form : ~ Form[p].query}), since, until)
  IN  {[path |-> p,
        ips |-> Cardinality(Addresses({v \in rows : v.path = p})),
        hits |-> Cardinality({v \in rows : v.path = p}),
        benign_ips |-> Cardinality(BenignEver({p}))] : p \in {v.path : v \in rows}}

\* Distinct addresses over several spellings: the sum would count one that
\* tried both of them twice.
RecountFolded(spellings, since, until) ==
  [ips |-> Cardinality(Addresses(Within(FetchedAs(spellings), since, until))),
   benign_ips |-> Cardinality(BenignEver(spellings))]

\* Broken variant of FoldedCounts: the figures of the spellings are added up.
FoldedCountsSummed(group, since, until) ==
  [ips |-> MapThenSumSet(LAMBDA r : r.ips, group),
   benign_ips |-> MapThenSumSet(LAMBDA r : r.benign_ips, group)]

FoldedCounts(group, since, until) ==
  IF Cardinality(group) > 1
  THEN RecountFolded({r.path : r \in group}, since, until)
  ELSE LET r == CHOOSE r \in group : TRUE IN [ips |-> r.ips, benign_ips |-> r.benign_ips]

\* The fold, and only then the question, asked of the resource.
ServedPath(c, group, since, until) ==
  LET counts == FoldedCounts(group, since, until)
      isSite == c \in Convention \union Fragments
  IN  [path |-> c, spellings |-> {r.path : r \in group},
       hits |-> MapThenSumSet(LAMBDA r : r.hits, group),
       ips |-> counts.ips, benign_ips |-> counts.benign_ips, is_site |-> isSite,
       is_finding |-> ~ isSite /\ counts.benign_ips < BenignForSite]

ServedPaths(since, until) ==
  LET rows == PathRows(since, until)
      group(c) == {r \in rows : CanonicalPath(r.path) = c}
  IN  {ServedPath(c, group(c), since, until) : c \in {CanonicalPath(r.path) : r \in rows}}

Exposures(since, until) == {r \in ServedPaths(since, until) : r.is_finding}

\* The panel of a row, keyed on its spellings.  Whether the file is still
\* there, and what else its fetchers asked for, does not depend on the window.
ExposureDetail(spellings, since, until) ==
  LET rows == Within(FetchedAs(spellings), since, until)
      label(ip) == IF Intel(ip).class.group = "" THEN Class("unknown", "") ELSE Intel(ip).class
      refused == {v \in visits : v.path \in spellings /\ v.status = 404}
      fetchers == Addresses(FetchedAs(spellings))
      context == {v \in visits : v.ip \in fetchers /\ v.path \notin spellings}
      labels == {label(ip) : ip \in Addresses(rows)}
  IN  [ips |-> Cardinality(Addresses(rows)),
       hits |-> Cardinality(rows),
       answers |-> [s \in {v.status : v \in rows} |->
                      Cardinality({v \in rows : v.status = s})],
       classes |-> [c \in labels |->
                      Cardinality({ip \in Addresses(rows) : label(ip) = c})],
       refused |-> Cardinality(refused),
       context |-> [paths |-> Cardinality({v.path : v \in context}),
                    hits |-> Cardinality(context)]]

\* Probe addresses whose query a static server ignored: not exposures.
ProbeEcho(since, until) ==
  LET rows == {v \in Within(visits, since, until) : Served(v) /\ Form[v.path].query}
      paths == {p \in {v.path : v \in rows} :
                  \A v \in rows : v.path = p => ~ IsBenign(v.ip)}
      ips(p) == Cardinality(Addresses({v \in rows : v.path = p}))
  IN  [urls |-> Cardinality(paths), ips |-> MapThenSumSet(ips, paths)]

-----------------------------------------------------------------------------
Spellings(c) == {p \in DOMAIN Form : ~ Form[p].query /\ CanonicalPath(p) = c}

\* A row of the exposure page counts every address once however it spelt the
\* path, its panel repeats the row's figures and gives every address exactly
\* one class, and on the unbounded page nothing that enough benign visitors
\* fetched, under any spelling, is reported as something the server gave away
\* (get_exposures, _fold_encodings, get_exposure_detail).
FindingsAreHonest ==
  \A since \in {None} \union {v.at : v \in visits} :
     \A r \in ServedPaths(since, None) :
        LET panel == ExposureDetail(r.spellings, since, None)
            fetched == Within(FetchedAs(Spellings(r.path)), since, None)
        IN  /\ r.ips = Cardinality(Addresses(fetched))
            /\ r.hits = Cardinality(fetched)
            /\ panel.ips = r.ips /\ panel.hits = r.hits
            /\ MapThenSumSet(LAMBDA c : panel.classes[c], DOMAIN panel.classes) = r.ips
            /\ MapThenSumSet(LAMBDA s : panel.answers[s], DOMAIN panel.answers) = r.hits
            /\ (since = None /\ r.is_finding) =>
                  Cardinality(BenignEver(Spellings(r.path))) < BenignForSite
=============================================================================

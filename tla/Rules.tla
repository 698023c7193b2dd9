-------------------------------- MODULE Rules --------------------------------
(***************************************************************************)
(* The classifier (src/classifier): one evidence row per address, counted  *)
(* over all its requests and joined to what enrichment knows of it, and    *)
(* one ordered chain of rules of which the first that claims the address   *)
(* decides.                                                                *)
(*                                                                         *)
(* The pattern pack is a parameter: Kinds says which path patterns a path  *)
(* matches, and a user agent, a reverse name and a network owner are the   *)
(* sets of needles they contain.                                           *)
(***************************************************************************)
EXTENDS Rows

CONSTANTS Kinds,          \* path -> which of exploit, payload, scanner, script it matches
          Needles,        \* list name -> its needles, in the order of the pack
          CrawlerOrigins, \* crawler -> the owners of the networks it crawls from
          RateOneIn,      \* a share is too high at one in RateOneIn
          MinContentForRatio, Distinct404ForProber,
          MinPagesForWeakBrowser, MinPagesForDatacenterHuman

RulesAssumption ==
  /\ {RateOneIn, MinContentForRatio, Distinct404ForProber} \subseteq Nat \ {0}
  /\ {MinPagesForWeakBrowser, MinPagesForDatacenterHuman} \subseteq Nat

NonHttp == {"NON-HTTP", "TLS", "UNKNOWN"}
Unlooked == [rdns |-> {}, owner |-> {}, hosting |-> FALSE]
Looked(ip) == IF Enriched(ip) THEN intel[ip] ELSE Unlooked

IsKind(v, kind) == kind \in Kinds[v.path]
Redirected(v) == v.status \in {301, 308} /\ v.port = "80"
Missing(v) == v.status = 404 /\ v.path \notin Convention

\* The one row everything below reads (_classify_sql); content is a divisor.
EvidenceRow(ip) ==
  LET rows == OfAddress(visits, ip)
      count(P(_)) == Cardinality({v \in rows : P(v)})
      content == count(LAMBDA v : ~ Redirected(v))
  IN  [content |-> IF content = 0 THEN 1 ELSE content,
       payload_abuse |-> count(LAMBDA v : v.method \in NonHttp /\ IsKind(v, "payload")),
       protocol_mismatch |-> count(LAMBDA v : v.path \in Pseudo \/ v.method \in NonHttp),
       exploit_probes |-> count(LAMBDA v : IsKind(v, "exploit")),
       scanner_paths |-> count(LAMBDA v : IsKind(v, "scanner")),
       browser_navigate |-> count(LAMBDA v : v.fetch = "navigate"),
       js_fetch |-> count(LAMBDA v : IsKind(v, "script")),
       weak_transport |-> count(LAMBDA v : v.modern),
       probe_404 |-> count(Missing),
       distinct_404_paths |-> Cardinality({v.path : v \in {w \in rows : Missing(w)}}),
       bot_device |-> count(LAMBDA v : v.device = "Bot"),
       internal_nav |-> count(LAMBDA v : v.origin = "same-origin"),
       cross_site_nav |-> count(LAMBDA v : v.origin = "cross-site"),
       unique_paths |->
         Cardinality({Form[v.path].page : v \in {w \in rows : w.path \notin Pseudo}}),
       bad_requests |-> count(LAMBDA v : v.status = 400),
       uas |-> UNION {v.agent : v \in rows},
       rdns |-> Looked(ip).rdns, owner |-> Looked(ip).owner, hosting |-> Looked(ip).hosting]

\* The first needle of the list that occurs; "" when none does.
Hit(haystack, needles) ==
  LET found == {k \in DOMAIN needles : needles[k] \in haystack}
  IN  IF found = {} THEN "" ELSE needles[Least(found)]

Hits(haystack, list) == Hit(haystack, Needles[list]) # ""

\* Counter-evidence to a person browsing.
BrowserDisqualified(e) ==
  \/ e.bot_device > 0
  \/ e.protocol_mismatch > 0
  \/ RateOneIn * e.probe_404 >= e.content
  \/ RateOneIn * e.bad_requests >= e.content

\* What tells a person behind a commercial VPN from a driven browser.
ReadsLikeAPerson(e) ==
  /\ e.internal_nav > 0
  /\ e.probe_404 = 0
  /\ e.unique_paths >= MinPagesForDatacenterHuman

LooksLikeABrowser(e) ==
  \/ e.browser_navigate > 0
  \/ e.js_fetch > 0 /\ ~ e.hosting /\ e.bot_device = 0
  \/ e.weak_transport > 0 /\ e.unique_paths >= MinPagesForWeakBrowser

BrowserClass(e) ==
  IF e.hosting /\ ~ ReadsLikeAPerson(e) THEN Class("automated", "headless-browser")
  ELSE Class("humans", IF e.cross_site_nav > 0 THEN "browser-referred"
                       ELSE IF e.internal_nav > 0 THEN "browser-internal-nav"
                       ELSE "browser-direct")

Rule(claims, class) == [claims |-> claims, class |-> class]

RuleBrowser(e) == Rule(LooksLikeABrowser(e) /\ ~ BrowserDisqualified(e), BrowserClass(e))

\* A declared crawler: the reverse name confirms it, or the owner of the network
\* does; from a hosting range with neither it is an impersonator.
CrawlerRule(e, rdns, uas, label) ==
  LET named == Hit(e.uas, Needles[uas])
      owned == named # "" /\ named \in DOMAIN CrawlerOrigins
                 /\ CrawlerOrigins[named] \cap e.owner # {}
  IN  Rule(Hits(e.rdns, rdns) \/ named # "",
           IF Hits(e.rdns, rdns) \/ owned \/ ~ e.hosting
           THEN Class("bots", label) ELSE Class("bots", "impersonators"))

\* What an address did.
AbuseRules(e) ==
  <<Rule(e.payload_abuse > 0, Class("threats", "protocol-abusers")),
    Rule(e.exploit_probes > 0, Class("threats", "exploit-probers")),
    Rule(e.scanner_paths > 0, Class("bots", "vulnerability-probers")),
    Rule(e.content >= MinContentForRatio /\ RateOneIn * e.probe_404 > e.content,
         Class("bots", "vulnerability-probers")),
    Rule(e.distinct_404_paths >= Distinct404ForProber, Class("bots", "vulnerability-probers"))>>

\* What it says it is.
DeclaredRules(e) ==
  <<Rule(Hits(e.rdns, "researcher_rdns"), Class("bots", "security-researchers")),
    Rule(Hits(e.uas, "researcher_uas"), Class("bots", "security-researchers")),
    Rule(Hits(e.uas, "scanning_tool_uas"), Class("bots", "scanning-tools")),
    CrawlerRule(e, "search_rdns", "search_uas", "search-crawlers"),
    CrawlerRule(e, "ai_rdns", "ai_uas", "ai-crawlers"),
    Rule(Hits(e.uas, "seo_uas"), Class("bots", "seo-tools")),
    Rule({"screaming", "frog"} \subseteq e.uas, Class("bots", "seo-tools"))>>

\* What is left when it did and said nothing of the kind.
FallbackRules(e) ==
  <<Rule(Hits(e.uas, "http_client_uas"), Class("automated", "http-clients")),
    Rule(e.bot_device > 0, Class("bots", "generic-bots")),
    Rule(e.protocol_mismatch > 0, Class("automated", "protocol-mismatch")),
    Rule(e.hosting, Class("automated", "datacenter")),
    Rule(TRUE, Class("unknown", ""))>>

\* Broken variant of Chain: a browser is recognised before what it did.
ChainBrowserFirst(e) ==
  <<RuleBrowser(e)>> \o AbuseRules(e) \o DeclaredRules(e) \o FallbackRules(e)

Chain(e) == AbuseRules(e) \o DeclaredRules(e) \o <<RuleBrowser(e)>> \o FallbackRules(e)

\* The first rule that claims the address decides.
Decide(e) ==
  LET chain == Chain(e)
  IN  chain[Least({k \in DOMAIN chain : chain[k].claims})].class

\* The query is grouped by address: one row, or none for one never seen.
ClassifyIp(ip) ==
  IF ip \notin Addresses(visits) THEN Class("unknown", "")
  ELSE CHOOSE class \in {Decide(e) : e \in {EvidenceRow(ip)}} : TRUE

-----------------------------------------------------------------------------
Prober == Class("bots", "vulnerability-probers")

Guilty(ip) ==
  \E v \in OfAddress(visits, ip) :
     \/ IsKind(v, "exploit")
     \/ IsKind(v, "payload") /\ v.method \in NonHttp

\* An address that attacked stays a threat whatever else it sends or is found
\* to be; one that asked for a known probe path, or for enough missing ones,
\* stays a prober until it attacks; and neither is ever a person again
\* (_decide, classify_ip).
AbuseIsKept ==
  \A ip \in Addresses(visits) : \A now \in {ClassifyIp(ip)}, next \in {ClassifyIp(ip)'} :
     LET convicted == \/ \E v \in OfAddress(visits, ip) : IsKind(v, "scanner")
                      \/ EvidenceRow(ip).distinct_404_paths >= Distinct404ForProber
     IN  /\ now.group = "threats" => next.group = "threats"
         /\ now = Prober /\ convicted => next = Prober \/ next.group = "threats"
         /\ Guilty(ip) => now.group = "threats"
         /\ now.group = "humans" => next.group # "threats" \/ Guilty(ip)'
=============================================================================

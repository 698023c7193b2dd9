----------------------------- MODULE QueriesProofs -----------------------------
(***************************************************************************)
(* Two results about the rows every page reads.                            *)
(*                                                                         *)
(* The order of the classifier's rules, for every pattern pack, every      *)
(* threshold and every number of requests: what an address did decides     *)
(* before what it says it is, and nothing it sends later takes it back.    *)
(*                                                                         *)
(* The visitors page answers for one selection: the table, its pager, the  *)
(* chips, the charts and the map agree, for every set of filters and every *)
(* finite log, as long as no chart is cut off at its ceiling of buckets.   *)
(* From the sums up: what summing over a finite set comes to, what each    *)
(* query keeps of the log, and then one view of the page after the other.  *)
(***************************************************************************)
EXTENDS MCQueries, SequenceTheorems, FiniteSetTheorems, WellFoundedInduction, TLAPS

-----------------------------------------------------------------------------
(* The order of the rules *)

\* The rule that decides is on the chain, claims, and none before it does.
LEMMA FirstOfChain ==
    ASSUME NEW S, S \subseteq Nat, S # {}
    PROVE  Least(S) \in S /\ \A n \in S : Least(S) <= n
<1>1. PICK m \in S : \A n \in S : ~(<<n, m>> \in OpToRel(<, Nat))
  BY NatLessThanWellFounded, WFMin
<1>2. ASSUME NEW n \in S PROVE m <= n
  <2>1. ~(n < m)
    BY <1>1 DEF OpToRel
  <2> QED BY <2>1
<1> QED BY <1>2 DEF Least

\* Tuples of rules are sequences over any set that has their members.
LEMMA ShortTuples ==
    ASSUME NEW T, NEW a \in T, NEW b \in T, NEW c \in T, NEW d \in T, NEW f \in T,
           NEW g \in T, NEW h \in T
    PROVE  /\ <<a>> \in Seq(T) /\ Len(<<a>>) = 1
           /\ <<a, b, c, d, f>> \in Seq(T) /\ Len(<<a, b, c, d, f>>) = 5
           /\ <<a, b, c, d, f, g, h>> \in Seq(T) /\ Len(<<a, b, c, d, f, g, h>>) = 7
OBVIOUS

\* The chain is the four lists one after the other.
LEMMA ChainInOrder ==
    ASSUME NEW e
    PROVE  /\ DOMAIN Chain(e) = 1..18
           /\ \A k \in 1..5 : Chain(e)[k] = AbuseRules(e)[k]
           /\ \A k \in 6..12 : Chain(e)[k] = DeclaredRules(e)[k - 5]
           /\ Chain(e)[13] = RuleBrowser(e)
           /\ \A k \in 14..18 : Chain(e)[k] = FallbackRules(e)[k - 13]
<1> DEFINE A == AbuseRules(e)
           D == DeclaredRules(e)
           B == <<RuleBrowser(e)>>
           F == FallbackRules(e)
<1>0. Chain(e) = ((A \o D) \o B) \o F
  BY DEF Chain
<1>1. PICK a1, a2, a3, a4, a5 : A = <<a1, a2, a3, a4, a5>>
  BY Zenon DEF AbuseRules
<1>2. PICK d1, d2, d3, d4, d5, d6, d7 : D = <<d1, d2, d3, d4, d5, d6, d7>>
  BY Zenon DEF DeclaredRules
<1>3. PICK b1 : B = <<b1>> /\ b1 = RuleBrowser(e)
  BY Zenon
<1>4. PICK f1, f2, f3, f4, f5 : F = <<f1, f2, f3, f4, f5>>
  BY Zenon DEF FallbackRules
<1> HIDE DEF A, D, B, F
<1> DEFINE AllRules == {a1, a2, a3, a4, a5, d1, d2, d3, d4, d5, d6, d7, b1,
                        f1, f2, f3, f4, f5}
<1>5. /\ a1 \in AllRules /\ a2 \in AllRules /\ a3 \in AllRules /\ a4 \in AllRules
      /\ a5 \in AllRules /\ d1 \in AllRules /\ d2 \in AllRules /\ d3 \in AllRules
      /\ d4 \in AllRules /\ d5 \in AllRules /\ d6 \in AllRules /\ d7 \in AllRules
      /\ b1 \in AllRules /\ f1 \in AllRules /\ f2 \in AllRules /\ f3 \in AllRules
      /\ f4 \in AllRules /\ f5 \in AllRules
  OBVIOUS
<1> HIDE DEF AllRules
<1>6. /\ A \in Seq(AllRules) /\ Len(A) = 5 /\ D \in Seq(AllRules) /\ Len(D) = 7
      /\ B \in Seq(AllRules) /\ Len(B) = 1 /\ F \in Seq(AllRules) /\ Len(F) = 5
  BY <1>1, <1>2, <1>3, <1>4, <1>5, ShortTuples
<1> DEFINE AD == A \o D
           ADB == AD \o B
<1>7. /\ AD \in Seq(AllRules)
      /\ Len(AD) = 12
      /\ \A k \in 1..12 : AD[k] = IF k <= 5 THEN A[k] ELSE D[k - 5]
  <2>1. AD \in Seq(AllRules)
    BY <1>6, ConcatProperties
  <2>2. Len(AD) = Len(A) + Len(D)
    BY <1>6, ConcatProperties
  <2>3. \A k \in 1..Len(A) + Len(D) :
           AD[k] = IF k <= Len(A) THEN A[k] ELSE D[k - Len(A)]
    BY <1>6, ConcatProperties
  <2> HIDE DEF AD
  <2> QED BY <1>6, <2>1, <2>2, <2>3
<1> HIDE DEF AD
<1>8. /\ ADB \in Seq(AllRules)
      /\ Len(ADB) = 13
      /\ \A k \in 1..13 : ADB[k] = IF k <= 12 THEN AD[k] ELSE B[k - 12]
  <2>1. ADB \in Seq(AllRules)
    BY <1>6, <1>7, ConcatProperties
  <2>2. Len(ADB) = Len(AD) + Len(B)
    BY <1>6, <1>7, ConcatProperties
  <2>3. \A k \in 1..Len(AD) + Len(B) :
           ADB[k] = IF k <= Len(AD) THEN AD[k] ELSE B[k - Len(AD)]
    BY <1>6, <1>7, ConcatProperties
  <2> HIDE DEF ADB
  <2> QED BY <1>6, <1>7, <2>1, <2>2, <2>3
<1> HIDE DEF ADB
<1> DEFINE C == ADB \o F
<1>9. /\ DOMAIN C = 1..18
      /\ \A k \in 1..18 : C[k] = IF k <= 13 THEN ADB[k] ELSE F[k - 13]
  <2>1. C \in Seq(AllRules)
    BY <1>6, <1>8, ConcatProperties
  <2>2. Len(C) = Len(ADB) + Len(F)
    BY <1>6, <1>8, ConcatProperties
  <2>3. \A k \in 1..Len(ADB) + Len(F) :
           C[k] = IF k <= Len(ADB) THEN ADB[k] ELSE F[k - Len(ADB)]
    BY <1>6, <1>8, ConcatProperties
  <2> HIDE DEF C
  <2> QED BY <1>6, <1>8, <2>1, <2>2, <2>3
<1>10. Chain(e) = C
  BY Zenon, <1>0 DEF AD, ADB
<1> HIDE DEF C
<1>11. \A k \in 1..5 : C[k] = A[k]
  BY <1>7, <1>8, <1>9
<1>12. \A k \in 6..12 : C[k] = D[k - 5]
  BY SMTT(30), <1>7, <1>8, <1>9
<1>13. C[13] = b1
  BY <1>3, <1>8, <1>9
<1>14. \A k \in 14..18 : C[k] = F[k - 13]
  BY <1>9
<1> QED BY Zenon, <1>3, <1>9, <1>10, <1>11, <1>12, <1>13, <1>14 DEF A, D, F

\* A rule is a claim and a class, a class a group and a subclass.
LEMMA RuleParts ==
    /\ \A c, x : Rule(c, x).claims = c
    /\ \A c, x : Rule(c, x).class = x
    /\ \A g, s : Class(g, s).group = g
BY Zenon DEF Rule, Class

\* The rules on what an address did, one by one.
LEMMA AbuseOneByOne ==
    ASSUME NEW e
    PROVE  /\ Chain(e)[1] = Rule(e.payload_abuse > 0, Class("threats", "protocol-abusers"))
           /\ Chain(e)[2] = Rule(e.exploit_probes > 0, Class("threats", "exploit-probers"))
           /\ Chain(e)[3] = Rule(e.scanner_paths > 0, Prober)
           /\ Chain(e)[4].class = Prober
           /\ Chain(e)[5] = Rule(e.distinct_404_paths >= Distinct404ForProber, Prober)
           /\ Chain(e)[18] = Rule(TRUE, Class("unknown", ""))
<1>1. AbuseRules(e)[1] = Rule(e.payload_abuse > 0, Class("threats", "protocol-abusers"))
  BY DEF AbuseRules
<1>2. AbuseRules(e)[2] = Rule(e.exploit_probes > 0, Class("threats", "exploit-probers"))
  BY DEF AbuseRules
<1>3. AbuseRules(e)[3] = Rule(e.scanner_paths > 0, Prober)
  BY DEF AbuseRules, Prober
<1>4. AbuseRules(e)[4] = Rule(e.content >= MinContentForRatio
                                /\ RateOneIn * e.probe_404 > e.content, Prober)
  BY DEF AbuseRules, Prober
<1>5. AbuseRules(e)[5] = Rule(e.distinct_404_paths >= Distinct404ForProber, Prober)
  BY DEF AbuseRules, Prober
<1>6. FallbackRules(e)[5] = Rule(TRUE, Class("unknown", ""))
  BY DEF FallbackRules
<1>7. Chain(e)[4].class = Prober
  <2>1. Chain(e)[4] = AbuseRules(e)[4]
    BY ChainInOrder
  <2> QED BY <1>4, <2>1, RuleParts
<1>8. /\ Chain(e)[1] = AbuseRules(e)[1] /\ Chain(e)[2] = AbuseRules(e)[2]
      /\ Chain(e)[3] = AbuseRules(e)[3] /\ Chain(e)[5] = AbuseRules(e)[5]
      /\ Chain(e)[18] = FallbackRules(e)[5]
  BY ChainInOrder
<1> QED BY Zenon, <1>1, <1>2, <1>3, <1>5, <1>6, <1>7, <1>8

\* Only the first two rules make a threat.
LEMMA OnlyAttacksThreaten ==
    ASSUME NEW e, NEW k \in 3..18
    PROVE  Chain(e)[k].class.group # "threats"
<1>0. ASSUME NEW c, NEW g \in {"bots", "humans", "automated", "unknown"}, NEW s
      PROVE  Rule(c, Class(g, s)).class.group # "threats"
  <2>1. Rule(c, Class(g, s)).class.group = g
    BY RuleParts
  <2> QED BY <2>1
<1>1. \A c, s : Rule(c, Class("bots", s)).class.group # "threats"
  BY Zenon, <1>0
<1>2. \A c, s : Rule(c, Class("automated", s)).class.group # "threats"
  BY Zenon, <1>0
<1>3. \A c, s : Rule(c, Class("unknown", s)).class.group # "threats"
  BY Zenon, <1>0
<1>4. CASE k \in 3..5
  <2>1. Chain(e)[k].class = Prober
    <3>0. /\ \E c : Chain(e)[3] = Rule(c, Prober)
          /\ \E c : Chain(e)[5] = Rule(c, Prober)
      BY AbuseOneByOne
    <3>1. Chain(e)[3].class = Prober /\ Chain(e)[5].class = Prober
      BY <3>0, RuleParts
    <3>2. k = 3 \/ k = 4 \/ k = 5
      BY <1>4
    <3> QED BY Zenon, <3>1, <3>2, AbuseOneByOne
  <2>2. Prober.group = "bots"
    BY RuleParts DEF Prober
  <2> QED BY <2>1, <2>2
<1>5. CASE k \in 6..12
  <2>1. \A rdns, uas, label : CrawlerRule(e, rdns, uas, label).class.group = "bots"
    <3> SUFFICES ASSUME NEW rdns, NEW uas, NEW label
                 PROVE  CrawlerRule(e, rdns, uas, label).class.group = "bots"
      OBVIOUS
    <3>1. \E c : \/ CrawlerRule(e, rdns, uas, label) = Rule(c, Class("bots", label))
                \/ CrawlerRule(e, rdns, uas, label) = Rule(c, Class("bots", "impersonators"))
      BY DEF CrawlerRule
    <3> QED BY <3>1, RuleParts
  <2>2. \A j \in 1..7 : DeclaredRules(e)[j].class.group # "threats"
    <3> SUFFICES ASSUME NEW j \in 1..7 PROVE DeclaredRules(e)[j].class.group # "threats"
      OBVIOUS
    <3>1. j = 1 \/ j = 2 \/ j = 3 \/ j = 4 \/ j = 5 \/ j = 6 \/ j = 7
      OBVIOUS
    <3>2. \/ \E c, s : DeclaredRules(e)[j] = Rule(c, Class("bots", s))
          \/ \E rdns, uas, label : DeclaredRules(e)[j] = CrawlerRule(e, rdns, uas, label)
      BY <3>1 DEF DeclaredRules
    <3> QED BY <1>1, <2>1, <3>2
  <2>3. k - 5 \in 1..7 /\ Chain(e)[k] = DeclaredRules(e)[k - 5]
    BY <1>5, ChainInOrder
  <2> QED BY Zenon, <2>2, <2>3
<1>6. CASE k = 13
  <2>1. RuleBrowser(e).class.group \in {"automated", "humans"}
    BY RuleParts DEF RuleBrowser, BrowserClass
  <2> QED BY <1>6, <2>1, ChainInOrder
<1>7. CASE k \in 14..18
  <2>1. \A j \in 1..5 : FallbackRules(e)[j].class.group # "threats"
    <3> SUFFICES ASSUME NEW j \in 1..5 PROVE FallbackRules(e)[j].class.group # "threats"
      OBVIOUS
    <3>1. j = 1 \/ j = 2 \/ j = 3 \/ j = 4 \/ j = 5
      OBVIOUS
    <3>2. /\ \E c, s : FallbackRules(e)[1] = Rule(c, Class("automated", s))
          /\ \E c, s : FallbackRules(e)[2] = Rule(c, Class("bots", s))
          /\ \E c, s : FallbackRules(e)[3] = Rule(c, Class("automated", s))
          /\ \E c, s : FallbackRules(e)[4] = Rule(c, Class("automated", s))
          /\ \E c, s : FallbackRules(e)[5] = Rule(c, Class("unknown", s))
      BY DEF FallbackRules
    <3> QED BY <1>1, <1>2, <1>3, <3>1, <3>2
  <2>2. k - 13 \in 1..5 /\ Chain(e)[k] = FallbackRules(e)[k - 13]
    BY <1>7, ChainInOrder
  <2> QED BY Zenon, <2>1, <2>2
<1> QED BY <1>4, <1>5, <1>6, <1>7

\* What the chain makes of the counts of an address.
LEMMA DecideByDeeds ==
    ASSUME NEW e
    PROVE  /\ Decide(e).group = "threats" <=> e.payload_abuse > 0 \/ e.exploit_probes > 0
           /\ e.scanner_paths > 0 \/ e.distinct_404_paths >= Distinct404ForProber
                => Decide(e).group = "threats" \/ Decide(e) = Prober
<1> DEFINE claiming == {k \in DOMAIN Chain(e) : Chain(e)[k].claims}
           first == Least(claiming)
<1>1. Decide(e) = Chain(e)[first].class
  BY DEF Decide
<1>c. \A c, x : Rule(c, x).claims = c
  BY RuleParts
<1>d. Class("threats", "protocol-abusers").group = "threats"
      /\ Class("threats", "exploit-probers").group = "threats"
  BY RuleParts
<1>2. /\ Chain(e)[1].claims = (e.payload_abuse > 0)
      /\ Chain(e)[2].claims = (e.exploit_probes > 0)
      /\ Chain(e)[3].claims = (e.scanner_paths > 0)
      /\ Chain(e)[5].claims = (e.distinct_404_paths >= Distinct404ForProber)
      /\ Chain(e)[18].claims = TRUE
  <2> DEFINE P1 == e.payload_abuse > 0
             P2 == e.exploit_probes > 0
             P3 == e.scanner_paths > 0
             P5 == e.distinct_404_paths >= Distinct404ForProber
  <2>1. /\ \E x : Chain(e)[1] = Rule(P1, x)
        /\ \E x : Chain(e)[2] = Rule(P2, x)
        /\ \E x : Chain(e)[3] = Rule(P3, x)
        /\ \E x : Chain(e)[5] = Rule(P5, x)
        /\ \E x : Chain(e)[18] = Rule(TRUE, x)
    BY AbuseOneByOne
  <2> HIDE DEF P1, P2, P3, P5
  <2>2. /\ Chain(e)[1].claims = P1 /\ Chain(e)[2].claims = P2
        /\ Chain(e)[3].claims = P3 /\ Chain(e)[5].claims = P5
        /\ Chain(e)[18].claims = TRUE
    BY ZenonT(90), <1>c, <2>1
  <2> QED BY Zenon, <2>2 DEF P1, P2, P3, P5
<1>3. /\ Chain(e)[1].class.group = "threats" /\ Chain(e)[2].class.group = "threats"
      /\ Chain(e)[3].class = Prober /\ Chain(e)[4].class = Prober
      /\ Chain(e)[5].class = Prober
  <2>1. \A c, x : Rule(c, x).class = x
    BY RuleParts
  <2>2. /\ \E c : Chain(e)[1] = Rule(c, Class("threats", "protocol-abusers"))
        /\ \E c : Chain(e)[2] = Rule(c, Class("threats", "exploit-probers"))
        /\ \E c : Chain(e)[3] = Rule(c, Prober)
        /\ \E c : Chain(e)[5] = Rule(c, Prober)
    BY AbuseOneByOne
  <2>3. /\ Chain(e)[1].class = Class("threats", "protocol-abusers")
        /\ Chain(e)[2].class = Class("threats", "exploit-probers")
        /\ Chain(e)[3].class = Prober /\ Chain(e)[5].class = Prober
    BY <2>1, <2>2
  <2> QED BY <1>d, <2>3, AbuseOneByOne
<1>4. Chain(e)[18].claims
  BY <1>2
<1>5. DOMAIN Chain(e) = 1..18
  BY ChainInOrder
<1>6. 18 \in claiming /\ claiming \subseteq Nat
  BY <1>4, <1>5
<1>7. first \in claiming /\ \A n \in claiming : first <= n
  <2> HIDE DEF claiming
  <2> QED BY <1>6, FirstOfChain
<1>8. /\ first \in 1..18 /\ Chain(e)[first].claims
      /\ \A n \in 1..18 : Chain(e)[n].claims => first <= n
  BY <1>5, <1>7
<1> HIDE DEF claiming, first
<1>a. /\ Chain(e)[1].claims => first <= 1
      /\ Chain(e)[2].claims => first <= 2
      /\ Chain(e)[3].claims => first <= 3
      /\ Chain(e)[5].claims => first <= 5
  BY <1>8
<1>b. /\ first <= 1 => first \in {1, 2}
      /\ first <= 2 => first \in {1, 2}
      /\ first <= 3 => first \in {1, 2, 3, 4, 5}
      /\ first <= 5 => first \in {1, 2, 3, 4, 5}
  BY <1>8
<1>9. e.payload_abuse > 0 \/ e.exploit_probes > 0 => first \in {1, 2}
  BY Zenon, <1>2, <1>a, <1>b
<1>10. e.scanner_paths > 0 \/ e.distinct_404_paths >= Distinct404ForProber
         => first \in {1, 2, 3, 4, 5}
  BY Zenon, <1>2, <1>a, <1>b
<1>11. Decide(e).group = "threats" => first \in {1, 2}
  BY <1>1, <1>8, OnlyAttacksThreaten
<1>12. first \in {1, 2} => e.payload_abuse > 0 \/ e.exploit_probes > 0
  BY Zenon, <1>2, <1>8
<1> QED BY <1>1, <1>3, <1>9, <1>10, <1>11, <1>12

-----------------------------------------------------------------------------
(* The requests of an address *)

\* The paths of the page an address asked for that were not there.
MissedPaths(ip) == {v.path : v \in {w \in OfAddress(visits, ip) : Missing(w)}}

\* Asked for a known probe path, or for enough missing ones.
Convicted(ip) ==
    \/ \E v \in OfAddress(visits, ip) : IsKind(v, "scanner")
    \/ Cardinality(MissedPaths(ip)) >= Distinct404ForProber

\* What the classifier says of an address is decided by what it did: a threat
\* exactly if it attacked, and never less than a prober once it probed.
JudgedByDeeds ==
    \A ip \in Addresses(visits) :
        /\ EvidenceRow(ip).distinct_404_paths = Cardinality(MissedPaths(ip))
        /\ IsFiniteSet(MissedPaths(ip))
        /\ ClassifyIp(ip).group = "threats" <=> Guilty(ip)
        /\ Convicted(ip) => ClassifyIp(ip).group = "threats" \/ ClassifyIp(ip) = Prober

\* A count is positive exactly if there is something to count.
LEMMA SomeCounted ==
    ASSUME NEW S, IsFiniteSet(S)
    PROVE  Cardinality(S) > 0 <=> \E x \in S : TRUE
<1>1. Cardinality(S) \in Nat
  BY FS_CardinalityType
<1>2. Cardinality(S) = 0 <=> S = {}
  BY FS_EmptySet
<1> QED BY <1>1, <1>2

\* The counts of the evidence row, over finitely many requests.
LEMMA DeedsDecide == IsFiniteSet(visits) => JudgedByDeeds
<1> SUFFICES ASSUME IsFiniteSet(visits), NEW ip \in Addresses(visits)
             PROVE  /\ EvidenceRow(ip).distinct_404_paths = Cardinality(MissedPaths(ip))
                    /\ IsFiniteSet(MissedPaths(ip))
                    /\ ClassifyIp(ip).group = "threats" <=> Guilty(ip)
                    /\ Convicted(ip) =>
                         ClassifyIp(ip).group = "threats" \/ ClassifyIp(ip) = Prober
  BY DEF JudgedByDeeds
<1> DEFINE rows == OfAddress(visits, ip)
           e == EvidenceRow(ip)
           Attack == {v \in rows : v.method \in NonHttp /\ IsKind(v, "payload")}
           Exploit == {v \in rows : IsKind(v, "exploit")}
           Scan == {v \in rows : IsKind(v, "scanner")}
           Miss == {v \in rows : Missing(v)}
<1>1. ClassifyIp(ip) = Decide(e)
  BY DEF ClassifyIp
<1>2. /\ e.payload_abuse = Cardinality(Attack)
      /\ e.exploit_probes = Cardinality(Exploit)
      /\ e.scanner_paths = Cardinality(Scan)
      /\ e.distinct_404_paths = Cardinality(MissedPaths(ip))
  BY DEF EvidenceRow, MissedPaths
<1>3. rows \subseteq visits
  BY DEF OfAddress
<1>4. /\ IsFiniteSet(Attack) /\ IsFiniteSet(Exploit) /\ IsFiniteSet(Scan)
      /\ IsFiniteSet(Miss)
  <2>1. /\ Attack \subseteq visits /\ Exploit \subseteq visits /\ Scan \subseteq visits
        /\ Miss \subseteq visits
    BY <1>3
  <2> HIDE DEF Attack, Exploit, Scan, Miss
  <2> QED BY <2>1, FS_Subset
<1>5. IsFiniteSet(MissedPaths(ip))
  <2> DEFINE PathOf(v) == v.path
  <2>1. MissedPaths(ip) = {PathOf(v) : v \in Miss}
    BY DEF MissedPaths
  <2> HIDE DEF Miss, PathOf
  <2> DEFINE f == [v \in Miss |-> PathOf(v)]
  <2>3. f \in Surjection(Miss, {PathOf(v) : v \in Miss})
    BY DEF Surjection
  <2> HIDE DEF f
  <2> QED BY <1>4, <2>1, <2>3, FS_Surjection
<1>6. e.payload_abuse > 0 \/ e.exploit_probes > 0 <=> Guilty(ip)
  <2>1. Cardinality(Attack) > 0 <=> \E v \in Attack : TRUE
    BY <1>4, SomeCounted
  <2>2. Cardinality(Exploit) > 0 <=> \E v \in Exploit : TRUE
    BY <1>4, SomeCounted
  <2>3. Guilty(ip) <=> (\E v \in Attack : TRUE) \/ (\E v \in Exploit : TRUE)
    BY DEF Guilty
  <2> HIDE DEF Attack, Exploit, e
  <2> QED BY <1>2, <2>1, <2>2, <2>3
<1>7. e.scanner_paths > 0 <=> \E v \in rows : IsKind(v, "scanner")
  <2>1. Cardinality(Scan) > 0 <=> \E v \in Scan : TRUE
    BY <1>4, SomeCounted
  <2> QED BY <1>2, <2>1
<1> HIDE DEF e, rows
<1>8. Decide(e).group = "threats" <=> Guilty(ip)
  BY <1>6, DecideByDeeds
<1>9. Convicted(ip) => e.scanner_paths > 0
                       \/ e.distinct_404_paths >= Distinct404ForProber
  BY <1>2, <1>7 DEF Convicted, rows
<1>10. Convicted(ip) => Decide(e).group = "threats" \/ Decide(e) = Prober
  BY <1>9, DecideByDeeds
<1> QED BY <1>1, <1>2, <1>5, <1>8, <1>10 DEF e

-----------------------------------------------------------------------------
(* Nothing takes it back *)

\* Once judged by its deeds before and after, an address that only sends more
\* cannot lose a verdict to it, whatever else is learnt of it meanwhile.
LEMMA MoreRequestsKeepAbuse ==
    ASSUME JudgedByDeeds, JudgedByDeeds', visits \subseteq visits'
    PROVE  AbuseIsKept
<1> SUFFICES ASSUME NEW ip \in Addresses(visits),
                    NEW now, now = ClassifyIp(ip), NEW next, next = ClassifyIp(ip)'
             PROVE  /\ now.group = "threats" => next.group = "threats"
                    /\ /\ now = Prober
                       /\ \/ \E v \in OfAddress(visits, ip) : IsKind(v, "scanner")
                          \/ EvidenceRow(ip).distinct_404_paths >= Distinct404ForProber
                       => next = Prober \/ next.group = "threats"
                    /\ Guilty(ip) => now.group = "threats"
                    /\ now.group = "humans" => next.group # "threats" \/ Guilty(ip)'
  BY Zenon DEF AbuseIsKept
<1>1. ip \in Addresses(visits')
  BY DEF Addresses
<1>2. OfAddress(visits, ip) \subseteq OfAddress(visits', ip)
  BY DEF OfAddress
<1>3. /\ EvidenceRow(ip).distinct_404_paths = Cardinality(MissedPaths(ip))
      /\ now.group = "threats" <=> Guilty(ip)
  BY DEF JudgedByDeeds
<1>4. /\ next.group = "threats" <=> Guilty(ip)'
      /\ Convicted(ip)' => next.group = "threats" \/ next = Prober
      /\ IsFiniteSet(MissedPaths(ip)')
  BY <1>1 DEF JudgedByDeeds
<1>5. Guilty(ip) => Guilty(ip)'
  BY <1>2 DEF Guilty, IsKind
<1>6. Cardinality(MissedPaths(ip)) <= Cardinality(MissedPaths(ip)')
  <2>1. MissedPaths(ip) \subseteq MissedPaths(ip)'
    BY <1>2 DEF MissedPaths, Missing
  <2> QED BY <1>4, <2>1, FS_Subset
<1>7. Convicted(ip) => Convicted(ip)'
  <2>1. ASSUME NEW v \in OfAddress(visits, ip), IsKind(v, "scanner")
        PROVE  Convicted(ip)'
    BY <1>2, <2>1 DEF Convicted, IsKind
  <2>2. ASSUME Cardinality(MissedPaths(ip)) >= Distinct404ForProber
        PROVE  Convicted(ip)'
    <3>1. /\ IsFiniteSet(MissedPaths(ip)) /\ Cardinality(MissedPaths(ip)) \in Nat
          /\ Cardinality(MissedPaths(ip)') \in Nat
      BY <1>4, FS_CardinalityType DEF JudgedByDeeds
    <3>2. Distinct404ForProber \in Nat
      BY QueriesAssumption DEF RulesAssumption
    <3>3. Cardinality(MissedPaths(ip)') >= Distinct404ForProber
      BY <1>6, <2>2, <3>1, <3>2
    <3> QED BY <3>3 DEF Convicted
  <2> QED BY <2>1, <2>2 DEF Convicted
<1> QED BY <1>3, <1>4, <1>5, <1>7 DEF Convicted

\* The log is finite, and a step adds requests and takes none away.
FiniteLog == IsFiniteSet(visits)
Growing == FiniteLog' /\ visits \subseteq visits'

\* As long as the log only grows, whatever enrichment finds out or forgets and
\* whatever the pattern pack and the thresholds are: an address that attacked
\* stays a threat, one that probed stays a prober or becomes a threat, and only
\* an attack makes a threat (the chain of rules, _decide).
THEOREM DeedsAreNotForgotten ==
    FiniteLog /\ [][Growing]_rowVars => [][AbuseIsKept]_rowVars
<1>1. FiniteLog /\ [Growing]_rowVars => FiniteLog'
  BY DEF rowVars, Growing, FiniteLog
<1>2. JudgedByDeeds /\ JudgedByDeeds' /\ [Growing]_rowVars => [AbuseIsKept]_rowVars
  BY MoreRequestsKeepAbuse DEF Growing
<1>3. FiniteLog => JudgedByDeeds
  BY DeedsDecide DEF FiniteLog
<1> QED BY <1>1, <1>2, <1>3, PTL

\* Requests arrive one at a time or as a sweep of a few.
LEMMA LogGrows ==
    ASSUME IsFiniteSet(visits), [Next]_<<rowVars, part>>
    PROVE  visits \subseteq visits' /\ IsFiniteSet(visits')
<1>1. ASSUME NEW ip, NEW at, NEW request, Record(ip, at, request)
      PROVE  visits \subseteq visits' /\ IsFiniteSet(visits')
  BY <1>1, FS_AddElement DEF Record
<1>2. ASSUME NEW ip, NEW at, NEW paths \in Sweeps \cup {<<"/a">>}, RecordSweep(ip, at, paths)
      PROVE  visits \subseteq visits' /\ IsFiniteSet(visits')
  <2> DEFINE row(k) == Row(Cardinality(visits) + k, ip, at, Probe(paths[k]))
             new == {row(k) : k \in DOMAIN paths}
  <2>1. visits' = visits \cup new
    BY <1>2 DEF RecordSweep
  <2>2. paths = <<"/a">> \/ paths = <<"/.env", "/a">>
    BY DEF Sweeps
  <2>3. DOMAIN paths \subseteq {1, 2}
    BY <2>2
  <2> HIDE DEF row
  <2>4. new \subseteq {row(1), row(2)}
    BY <2>3
  <2>5. IsFiniteSet({row(1)}) /\ {row(1), row(2)} = {row(1)} \cup {row(2)}
    BY FS_Singleton
  <2>6. IsFiniteSet({row(1), row(2)})
    BY <2>5, FS_AddElement
  <2> HIDE DEF new
  <2>7. IsFiniteSet(new)
    BY <2>4, <2>6, FS_Subset
  <2> QED BY <2>1, <2>7, FS_Union
<1>3. CASE RecordOne
  BY <1>1, <1>2, <1>3 DEF RecordOne
<1>4. CASE LearnOne
  BY <1>4 DEF LearnOne, Learn
<1>5. CASE UNCHANGED <<rowVars, part>>
  BY <1>5 DEF rowVars
<1> QED BY <1>3, <1>4, <1>5 DEF Next

\* The same for the requests and lookups of the instance that TLC checks, with
\* every value of its constants: an address once judged a threat is never washed
\* out by what it does next.
THEOREM AbuseIsNotWashedOut == Spec => VerdictsKeepAbuse
<1>1. Init => FiniteLog
  BY FS_EmptySet DEF Init, FiniteLog
<1>2. FiniteLog /\ [Next]_<<rowVars, part>> => [Growing]_rowVars /\ FiniteLog'
  BY LogGrows DEF Growing, FiniteLog
<1>3. [AbuseIsKept]_rowVars => [part = "rules" => AbuseIsKept]_rowVars
  OBVIOUS
<1> QED BY <1>1, <1>2, <1>3, DeedsAreNotForgotten, PTL DEF Spec, VerdictsKeepAbuse

-----------------------------------------------------------------------------
(* Sums over finite sets.  A claim about every finite set is proved by looking
   at a smallest set of which it is false.                                   *)

Pick(s) == CHOOSE x \in s : TRUE

\* g sums f over every subset of S, an element picked at a time.
Adds(g, f, S) ==
  g = [s \in SUBSET S |-> IF s = {} THEN 0 ELSE f[Pick(s)] + g[s \ {Pick(s)}]]

\* Finite sets are counted down: what fails for some set fails for a least one.
LEMMA SmallestSet ==
    ASSUME NEW S, IsFiniteSet(S), NEW B, B \subseteq SUBSET S, B # {}
    PROVE  \E s \in B : IsFiniteSet(s) /\ \A t \in B : Cardinality(s) <= Cardinality(t)
<1>1. \A s \in SUBSET S : IsFiniteSet(s) /\ Cardinality(s) \in Nat
  BY FS_Subset, FS_CardinalityType
<1> DEFINE sizes == {Cardinality(s) : s \in B}
<1>2. sizes \subseteq Nat /\ sizes # {}
  BY <1>1
<1>3. Least(sizes) \in sizes /\ \A n \in sizes : Least(sizes) <= n
  <2> HIDE DEF sizes
  <2> QED BY <1>2, FirstOfChain
<1> QED BY <1>1, <1>3

\* Without one element a finite set has one element less.
LEMMA OneLess ==
    ASSUME NEW s, IsFiniteSet(s), NEW x \in s
    PROVE  /\ IsFiniteSet(s \ {x}) /\ Cardinality(s) \in Nat
           /\ Cardinality(s \ {x}) = Cardinality(s) - 1
BY FS_RemoveElement, FS_CardinalityType

\* The same up to a size.
Small(S, n) == {t \in SUBSET S : Cardinality(t) <= n}
AddsBelow(g, f, S, n) ==
  g = [s \in Small(S, n) |-> IF s = {} THEN 0 ELSE f[Pick(s)] + g[s \ {Pick(s)}]]

\* There is such a g up to every size.
LEMMA AddsUpTo ==
    ASSUME NEW S, IsFiniteSet(S), NEW f, \A x \in S : f[x] \in Int, NEW n \in Nat
    PROVE  \E g : AddsBelow(g, f, S, n)
<1> DEFINE Possible(m) == \E g : AddsBelow(g, f, S, m)
           bad == {m \in Nat : ~ Possible(m)}
<1>1. \A s \in SUBSET S : IsFiniteSet(s) /\ Cardinality(s) \in Nat
  BY FS_Subset, FS_CardinalityType
<1>2. \A s \in SUBSET S : s # {} => /\ Pick(s) \in s /\ s \ {Pick(s)} \in SUBSET S
                                    /\ Cardinality(s \ {Pick(s)}) = Cardinality(s) - 1
  <2> TAKE s \in SUBSET S
  <2> HAVE s # {}
  <2>1. Pick(s) \in s
    BY DEF Pick
  <2> QED BY <1>1, <2>1, OneLess
<1>3. Possible(0)
  <2> DEFINE g == [s \in Small(S, 0) |-> 0]
  <2>1. \A s \in Small(S, 0) : s = {}
    BY <1>1, FS_EmptySet DEF Small
  <2>2. AddsBelow(g, f, S, 0)
    BY <2>1 DEF AddsBelow
  <2> QED BY <2>2
<1>4. ASSUME NEW m \in Nat, Possible(m) PROVE Possible(m + 1)
  <2>1. PICK g : AddsBelow(g, f, S, m)
    BY <1>4
  <2> DEFINE h == [s \in Small(S, m + 1) |->
                     IF s = {} THEN 0 ELSE f[Pick(s)] + g[s \ {Pick(s)}]]
  <2>2. Small(S, m) \subseteq Small(S, m + 1)
    BY <1>1 DEF Small
  <2>3. \A t \in Small(S, m) : h[t] = g[t]
    BY <2>1, <2>2 DEF AddsBelow
  <2>4. \A s \in Small(S, m + 1) : s # {} => s \ {Pick(s)} \in Small(S, m)
    BY <1>1, <1>2 DEF Small
  <2>5. \A s \in Small(S, m + 1) : s # {} => g[s \ {Pick(s)}] = h[s \ {Pick(s)}]
    BY <2>3, <2>4
  <2>6. AddsBelow(h, f, S, m + 1)
    BY <2>5 DEF AddsBelow
  <2> QED BY <2>6
<1> HIDE DEF Possible
<1>5. ASSUME bad # {} PROVE FALSE
  <2>1. PICK m \in bad : \A k \in bad : m <= k
    BY <1>5, FirstOfChain
  <2>2. m \in Nat /\ ~ Possible(m) /\ m # 0
    BY <1>3, <2>1
  <2>3. m - 1 \in Nat /\ m - 1 \notin bad
    BY <2>1, <2>2
  <2>4. Possible((m - 1) + 1)
    BY <1>4, <2>3
  <2> QED BY <2>2, <2>4
<1>6. Possible(n)
  BY <1>5
<1> QED BY <1>6 DEF Possible

\* There is such a g for every finite set.
LEMMA AddsExists ==
    ASSUME NEW S, IsFiniteSet(S), NEW f, \A x \in S : f[x] \in Int
    PROVE  \E g : Adds(g, f, S)
<1> DEFINE n == Cardinality(S)
<1>1. n \in Nat
  BY FS_CardinalityType
<1>2. Small(S, n) = SUBSET S
  BY FS_Subset DEF Small
<1> HIDE DEF n
<1>3. PICK g : AddsBelow(g, f, S, n)
  BY <1>1, AddsUpTo
<1> QED BY <1>2, <1>3 DEF Adds, AddsBelow

\* It does not matter which element is picked first.
LEMMA AddsAny ==
    ASSUME NEW S, IsFiniteSet(S), NEW f, \A x \in S : f[x] \in Int, NEW g, Adds(g, f, S)
    PROVE  /\ g[{}] = 0
           /\ \A s \in SUBSET S : g[s] \in Int
           /\ \A s \in SUBSET S : \A x \in s : g[s] = f[x] + g[s \ {x}]
<1>1. \A s \in SUBSET S : s # {} => Pick(s) \in s /\ g[s] = f[Pick(s)] + g[s \ {Pick(s)}]
  BY DEF Adds, Pick
<1>2. g[{}] = 0
  BY DEF Adds
<1>3. \A s \in SUBSET S : IsFiniteSet(s)
  BY FS_Subset
<1>4. \A s \in SUBSET S : \A x \in s : /\ Cardinality(s) \in Nat /\ s \ {x} \in SUBSET S
                                       /\ Cardinality(s \ {x}) = Cardinality(s) - 1
  BY <1>3, OneLess
<1>5. \A s \in SUBSET S : g[s] \in Int
  <2> DEFINE B == {s \in SUBSET S : g[s] \notin Int}
  <2>1. ASSUME B # {} PROVE FALSE
    <3>1. PICK s \in B : \A t \in B : Cardinality(s) <= Cardinality(t)
      BY <2>1, SmallestSet
    <3>2. s # {}
      BY <1>2, <3>1
    <3>3. s \ {Pick(s)} \notin B /\ s \ {Pick(s)} \in SUBSET S
      BY <1>1, <1>4, <3>1, <3>2
    <3> QED BY <1>1, <3>1, <3>2, <3>3
  <2> QED BY <2>1
<1>6. \A s \in SUBSET S : \A x \in s : g[s] = f[x] + g[s \ {x}]
  <2> DEFINE B == {s \in SUBSET S : \E x \in s : g[s] # f[x] + g[s \ {x}]}
  <2>1. ASSUME B # {} PROVE FALSE
    <3>1. PICK s \in B : \A t \in B : Cardinality(s) <= Cardinality(t)
      BY <2>1, SmallestSet
    <3>2. PICK x \in s : g[s] # f[x] + g[s \ {x}]
      BY <3>1
    <3> DEFINE p == Pick(s)
    <3>3. p \in s /\ g[s] = f[p] + g[s \ {p}] /\ p # x
      BY <1>1, <3>1, <3>2
    <3> HIDE DEF p
    <3>8. /\ Cardinality(s) \in Nat
          /\ s \ {p} \in SUBSET S /\ Cardinality(s \ {p}) = Cardinality(s) - 1
          /\ s \ {x} \in SUBSET S /\ Cardinality(s \ {x}) = Cardinality(s) - 1
      BY <1>4, <3>1, <3>2, <3>3
    <3>4. s \ {p} \notin B /\ s \ {x} \notin B
      <4> HIDE DEF B
      <4> QED BY <3>1, <3>8
    <3>5. x \in s \ {p} /\ p \in s \ {x} /\ (s \ {p}) \ {x} = (s \ {x}) \ {p}
      BY <3>2, <3>3
    <3>6. g[s \ {p}] = f[x] + g[(s \ {p}) \ {x}] /\ g[s \ {x}] = f[p] + g[(s \ {x}) \ {p}]
      BY <3>4, <3>5, <3>8
    <3> DEFINE r == g[(s \ {p}) \ {x}]
    <3>7. f[x] \in Int /\ f[p] \in Int /\ r \in Int
      BY <1>5, <3>1, <3>2, <3>3
    <3>9. g[s] = f[p] + (f[x] + r) /\ g[s \ {x}] = f[p] + r
      BY <3>3, <3>5, <3>6
    <3>10. g[s] # f[x] + g[s \ {x}]
      BY <3>2
    <3> HIDE DEF r
    <3> QED BY <3>7, <3>9, <3>10
  <2> QED BY <2>1
<1> QED BY <1>2, <1>5, <1>6

\* A sum is such a g of its whole domain.
LEMMA SumIsAdded ==
    ASSUME NEW f, IsFiniteSet(DOMAIN f), \A x \in DOMAIN f : f[x] \in Int
    PROVE  \E g : Adds(g, f, DOMAIN f) /\ Sum(f) = g[DOMAIN f]
<1> DEFINE S == DOMAIN f
           Is(g) == Adds(g, f, S)
<1>1. \E g : Is(g)
  BY AddsExists
<1>2. Sum(f) = (CHOOSE g : Is(g))[S]
  BY DEF Sum, MapThenSumSet, MapThenFoldSet, Adds, Pick
<1>3. Is(CHOOSE g : Is(g))
  <2> HIDE DEF Is
  <2> QED BY <1>1, Zenon
<1> QED BY <1>2, <1>3

\* Two ways to sum the same over one set agree.
LEMMA AddsOnce ==
    ASSUME NEW S, IsFiniteSet(S), NEW f, \A x \in S : f[x] \in Int,
           NEW g, Adds(g, f, S), NEW h, Adds(h, f, S)
    PROVE  g[S] = h[S]
<1> DEFINE B == {s \in SUBSET S : g[s] # h[s]}
<1>1. g[{}] = 0 /\ h[{}] = 0
  BY DEF Adds
<1>2. ASSUME NEW s \in SUBSET S, NEW x \in s
      PROVE  g[s] = f[x] + g[s \ {x}] /\ h[s] = f[x] + h[s \ {x}]
  <2>1. g[s] = f[x] + g[s \ {x}]
    BY AddsAny
  <2>2. h[s] = f[x] + h[s \ {x}]
    BY AddsAny
  <2> QED BY <2>1, <2>2
<1>3. ASSUME B # {} PROVE FALSE
  <2>1. PICK s \in B : IsFiniteSet(s) /\ \A t \in B : Cardinality(s) <= Cardinality(t)
    <3>1. B \subseteq SUBSET S
      OBVIOUS
    <3> HIDE DEF B
    <3> QED BY <1>3, <3>1, SmallestSet
  <2>2. PICK x : x \in s
    BY <1>1, <2>1
  <2>3. /\ Cardinality(s) \in Nat /\ Cardinality(s \ {x}) = Cardinality(s) - 1
        /\ s \ {x} \in SUBSET S
    BY <2>1, <2>2, OneLess
  <2>4. s \ {x} \notin B
    <3> HIDE DEF B
    <3> QED BY <2>1, <2>3
  <2> QED BY <1>2, <2>1, <2>2, <2>3, <2>4
<1> QED BY <1>3

\* The sum of the visits of a list's rows.
LEMMA VisitsAddUp ==
    ASSUME NEW S, IsFiniteSet(S), \A x \in S : x.visits \in Int
    PROVE  MapThenSumSet(LAMBDA x : x.visits, S) = Sum([x \in S |-> x.visits])
<1> DEFINE f == [x \in S |-> x.visits]
           Is(g) == g = [s \in SUBSET S |->
                           IF s = {} THEN 0 ELSE Pick(s).visits + g[s \ {Pick(s)}]]
<1>1. MapThenSumSet(LAMBDA x : x.visits, S) = (CHOOSE g : Is(g))[S]
  BY DEF MapThenSumSet, MapThenFoldSet, Pick
<1>2. \A s \in SUBSET S : s # {} => Pick(s) \in S /\ f[Pick(s)] = Pick(s).visits
  BY DEF Pick
<1>3. DOMAIN f = S /\ \A x \in S : f[x] \in Int
  OBVIOUS
<1>4. ASSUME NEW g, Adds(g, f, S) PROVE Is(g)
  BY <1>2, <1>4 DEF Adds
<1>5. ASSUME NEW g, Is(g) PROVE Adds(g, f, S)
  BY <1>2, <1>5 DEF Adds
<1> HIDE DEF f, Is
<1>6. PICK g : Adds(g, f, S) /\ Sum(f) = g[S]
  BY <1>3, SumIsAdded
<1>7. Is(CHOOSE h : Is(h))
  BY <1>4, <1>6, Zenon
<1>8. (CHOOSE h : Is(h))[S] = g[S]
  BY <1>3, <1>5, <1>6, <1>7, AddsOnce
<1> QED BY <1>1, <1>6, <1>8 DEF f

\* The entries of a function over some of its domain.
Entries(e, S) == MapThenSumSet(LAMBDA x : e[x], S)

\* It is the sum of that part of the function.
LEMMA EntriesAddUp ==
    ASSUME NEW e, NEW S, IsFiniteSet(S), \A x \in S : e[x] \in Int
    PROVE  Entries(e, S) = Sum([x \in S |-> e[x]])
<1> DEFINE f == [x \in S |-> e[x]]
           Is(g) == g = [s \in SUBSET S |->
                           IF s = {} THEN 0 ELSE e[Pick(s)] + g[s \ {Pick(s)}]]
<1>1. Entries(e, S) = (CHOOSE g : Is(g))[S]
  BY DEF Entries, MapThenSumSet, MapThenFoldSet, Pick
<1>2. \A s \in SUBSET S : s # {} => Pick(s) \in S /\ f[Pick(s)] = e[Pick(s)]
  BY DEF Pick
<1>3. DOMAIN f = S /\ \A x \in S : f[x] \in Int
  OBVIOUS
<1>4. ASSUME NEW g, Adds(g, f, S) PROVE Is(g)
  BY <1>2, <1>4 DEF Adds
<1>5. ASSUME NEW g, Is(g) PROVE Adds(g, f, S)
  BY <1>2, <1>5 DEF Adds
<1> HIDE DEF f, Is
<1>6. PICK g : Adds(g, f, S) /\ Sum(f) = g[S]
  BY <1>3, SumIsAdded
<1>7. Is(CHOOSE h : Is(h))
  BY <1>4, <1>6, Zenon
<1>8. (CHOOSE h : Is(h))[S] = g[S]
  BY <1>3, <1>5, <1>6, <1>7, AddsOnce
<1> QED BY <1>1, <1>6, <1>8 DEF f

\* The totals of a timeline.
LEMMA TotalsAddUp ==
    ASSUME NEW e, IsFiniteSet(DOMAIN e), \A x \in DOMAIN e : e[x].total \in Int
    PROVE  Totals(e) = Sum([x \in DOMAIN e |-> e[x].total])
<1> DEFINE S == DOMAIN e
           f == [x \in S |-> e[x].total]
           Is(g) == g = [s \in SUBSET S |->
                           IF s = {} THEN 0 ELSE e[Pick(s)].total + g[s \ {Pick(s)}]]
<1>1. Totals(e) = (CHOOSE g : Is(g))[S]
  BY DEF Totals, MapThenSumSet, MapThenFoldSet, Pick
<1>2. \A s \in SUBSET S : s # {} => Pick(s) \in S /\ f[Pick(s)] = e[Pick(s)].total
  BY DEF Pick
<1>3. DOMAIN f = S /\ \A x \in S : f[x] \in Int
  OBVIOUS
<1>4. ASSUME NEW g, Adds(g, f, S) PROVE Is(g)
  BY <1>2, <1>4 DEF Adds
<1>5. ASSUME NEW g, Is(g) PROVE Adds(g, f, S)
  BY <1>2, <1>5 DEF Adds
<1> HIDE DEF f, Is
<1>6. PICK g : Adds(g, f, S) /\ Sum(f) = g[S]
  BY <1>3, SumIsAdded
<1>7. Is(CHOOSE h : Is(h))
  BY <1>4, <1>6, Zenon
<1>8. (CHOOSE h : Is(h))[S] = g[S]
  BY <1>3, <1>5, <1>6, <1>7, AddsOnce
<1> QED BY <1>1, <1>6, <1>8 DEF f

-----------------------------------------------------------------------------
(* Counting *)

\* The image of a finite set is finite and not larger, and as large if nothing falls together.
LEMMA ImageCount ==
    ASSUME NEW S, IsFiniteSet(S), NEW f, DOMAIN f = S
    PROVE  /\ IsFiniteSet({f[x] : x \in S})
           /\ Cardinality({f[x] : x \in S}) <= Cardinality(S)
           /\ (\A x, y \in S : f[x] = f[y] => x = y) =>
                 Cardinality({f[x] : x \in S}) = Cardinality(S)
<1> DEFINE T == {f[x] : x \in S}
           h == [x \in S |-> f[x]]
<1>1. h \in Surjection(S, T)
  BY DEF Surjection
<1>2. (\A x, y \in S : f[x] = f[y] => x = y) => h \in Injection(S, T)
  BY DEF Injection, IsInjective
<1> HIDE DEF T, h
<1>3. IsFiniteSet(T) /\ Cardinality(T) <= Cardinality(S)
  BY <1>1, FS_Surjection
<1>4. h \in Injection(S, T) => Cardinality(T) = Cardinality(S)
  BY <1>1, FS_Surjection
<1> QED BY <1>2, <1>3, <1>4 DEF T

\* The sizes of parts that do not overlap add up to the size of the whole.
LEMMA PartsAddUp ==
    ASSUME NEW K, IsFiniteSet(K), NEW F, \A k \in K : IsFiniteSet(F[k]),
           \A j, k \in K : j # k => F[j] \cap F[k] = {},
           NEW f, DOMAIN f = K, \A k \in K : f[k] = Cardinality(F[k])
    PROVE  /\ IsFiniteSet(UNION {F[k] : k \in K})
           /\ Sum(f) = Cardinality(UNION {F[k] : k \in K})
<1> DEFINE whole(s) == UNION {F[k] : k \in s}
<1>1. \A k \in K : f[k] \in Nat
  BY FS_CardinalityType
<1>2. PICK g : Adds(g, f, K) /\ Sum(f) = g[K]
  BY <1>1, SumIsAdded
<1>3. /\ g[{}] = 0
      /\ \A s \in SUBSET K : \A x \in s : g[s] = f[x] + g[s \ {x}]
  <2>1. \A x \in K : f[x] \in Int
    BY <1>1
  <2> QED BY <1>2, <2>1, AddsAny
<1> DEFINE Counts(s) == IsFiniteSet(whole(s)) /\ g[s] = Cardinality(whole(s))
           B == {s \in SUBSET K : ~ Counts(s)}
<1>4. Counts({})
  <2>1. whole({}) = {}
    OBVIOUS
  <2> QED BY <1>3, <2>1, FS_EmptySet
<1>5. ASSUME NEW s \in SUBSET K, NEW x \in s, Counts(s \ {x}) PROVE Counts(s)
  <2> DEFINE rest == whole(s \ {x})
  <2>1. whole(s) = rest \cup F[x]
    OBVIOUS
  <2>2. rest \cap F[x] = {}
    OBVIOUS
  <2>3. IsFiniteSet(rest) /\ g[s \ {x}] = Cardinality(rest) /\ IsFiniteSet(F[x])
    BY <1>5
  <2> HIDE DEF rest
  <2>4. /\ IsFiniteSet(rest \cup F[x])
        /\ Cardinality(rest \cup F[x]) = Cardinality(rest) + Cardinality(F[x])
                                             - Cardinality(rest \cap F[x])
    BY <2>3, FS_Union
  <2>5. /\ Cardinality(rest \cap F[x]) = 0
        /\ Cardinality(rest) \in Nat /\ Cardinality(F[x]) \in Nat
    BY <2>2, <2>3, FS_EmptySet, FS_CardinalityType
  <2>6. g[s] = f[x] + g[s \ {x}] /\ f[x] = Cardinality(F[x])
    BY <1>3
  <2>7. IsFiniteSet(whole(s)) /\ Cardinality(whole(s)) = Cardinality(rest) + Cardinality(F[x])
    <3> HIDE DEF whole
    <3> QED BY <2>1, <2>4, <2>5
  <2> HIDE DEF whole
  <2> QED BY <2>3, <2>5, <2>6, <2>7
<1> HIDE DEF Counts
<1>6. ASSUME B # {} PROVE FALSE
  <2>1. PICK s \in B : IsFiniteSet(s) /\ \A t \in B : Cardinality(s) <= Cardinality(t)
    <3> HIDE DEF B
    <3>1. B \subseteq SUBSET K
      BY DEF B
    <3> QED BY <1>6, <3>1, SmallestSet
  <2>2. PICK x : x \in s
    BY <1>4, <2>1
  <2>3. /\ Cardinality(s) \in Nat /\ Cardinality(s \ {x}) = Cardinality(s) - 1
        /\ s \ {x} \in SUBSET K
    BY <2>1, <2>2, OneLess
  <2>4. s \ {x} \notin B
    <3> HIDE DEF B
    <3> QED BY <2>1, <2>3
  <2> QED BY <1>5, <2>1, <2>2, <2>3, <2>4
<1>7. Counts(K)
  BY <1>6
<1> QED BY <1>2, <1>7 DEF Counts

\* The same, for a whole that is known.
LEMMA PartsOf ==
    ASSUME NEW K, IsFiniteSet(K), NEW F, NEW W, IsFiniteSet(W),
           \A k \in K : F[k] \subseteq W,
           \A v \in W : \E k \in K : v \in F[k],
           \A j, k \in K : j # k => F[j] \cap F[k] = {},
           NEW f, DOMAIN f = K, \A k \in K : f[k] = Cardinality(F[k])
    PROVE  Sum(f) = Cardinality(W)
<1>1. \A k \in K : IsFiniteSet(F[k])
  BY FS_Subset
<1>2. UNION {F[k] : k \in K} = W
  OBVIOUS
<1> QED BY <1>1, <1>2, PartsAddUp

\* Members counted by what they are add up to their number.
LEMMA CountByKey ==
    ASSUME NEW R, IsFiniteSet(R), NEW K, IsFiniteSet(K), NEW key, \A r \in R : key[r] \in K,
           NEW f, DOMAIN f = K, \A k \in K : f[k] = Cardinality({r \in R : key[r] = k})
    PROVE  Sum(f) = Cardinality(R)
<1> DEFINE F == [k \in K |-> {r \in R : key[r] = k}]
<1>1. /\ \A k \in K : IsFiniteSet(F[k])
      /\ \A j, k \in K : j # k => F[j] \cap F[k] = {}
      /\ \A k \in K : f[k] = Cardinality(F[k])
  BY FS_Subset
<1>2. UNION {F[k] : k \in K} = R
  OBVIOUS
<1> HIDE DEF F
<1> QED BY <1>1, <1>2, PartsAddUp

-----------------------------------------------------------------------------
(* The list and its pager *)

\* What the page of f keeps: the rows of the addresses that clear the bar.
Kept(f) == MinVisits(VisitorRows(f), f.min)

\* Every selection is a finite part of the log.
LEMMA KeptIsFinite ==
    ASSUME FiniteLog, NEW f
    PROVE  /\ IsFiniteSet(VisitorRows(f)) /\ IsFiniteSet(Kept(f))
           /\ VisitorRows(f) \subseteq visits /\ Kept(f) \subseteq VisitorRows(f)
<1>1. VisitorRows(f) \subseteq visits /\ Kept(f) \subseteq VisitorRows(f)
  BY DEF VisitorRows, Kept, MinVisits, Within
<1> QED BY <1>1, FS_Subset DEF FiniteLog

\* A condition on the address commutes with the bar.
LEMMA MinVisitsByAddress ==
    ASSUME NEW rows, NEW A, NEW least
    PROVE  MinVisits({v \in rows : v.ip \in A}, least) = {v \in MinVisits(rows, least) : v.ip \in A}
<1>1. ASSUME NEW ip \in A
      PROVE  OfAddress({v \in rows : v.ip \in A}, ip) = OfAddress(rows, ip)
  BY DEF OfAddress
<1> QED BY <1>1 DEF MinVisits

\* The pager counts the addresses of the rows it keeps.
LEMMA PagerCounts ==
    ASSUME NEW f
    PROVE  VisitorCount(f) = Cardinality(Addresses(Kept(f)))
BY DEF VisitorCount, Kept, VisitorRows, Distinct

\* The addresses of finitely many rows.
LEMMA FiniteAddresses ==
    ASSUME NEW rows, IsFiniteSet(rows)
    PROVE  IsFiniteSet(Addresses(rows)) /\ Cardinality(Addresses(rows)) <= Cardinality(rows)
<1> DEFINE f == [v \in rows |-> v.ip]
<1>1. IsFiniteSet({f[v] : v \in rows}) /\ Cardinality({f[v] : v \in rows}) <= Cardinality(rows)
  <2> HIDE DEF f
  <2> QED BY ImageCount DEF f
<1>2. {f[v] : v \in rows} = Addresses(rows)
  BY DEF Addresses
<1> QED BY <1>1, <1>2

\* The row of an address in the list.
ListRow(f, ip) ==
  [ip |-> ip, visits |-> Cardinality(OfAddress(Kept(f), ip)),
   last |-> Greatest({v.at : v \in OfAddress(Kept(f), ip)})]

\* The list has one row for each address kept.
LEMMA ListOfKept ==
    ASSUME NEW f
    PROVE  VisitorList(f) = {ListRow(f, ip) : ip \in Addresses(Kept(f))}
<1> DEFINE rows == VisitorRows(f)
           row(ip) == [ip |-> ip, visits |-> Cardinality(OfAddress(rows, ip)),
                       last |-> Greatest({v.at : v \in OfAddress(rows, ip)})]
           clears(ip) == f.min > 0 => Cardinality(OfAddress(rows, ip)) >= f.min
<1>1. VisitorList(f) = {r \in {row(ip) : ip \in Addresses(rows)} : f.min > 0 => r.visits >= f.min}
  BY DEF VisitorList
<1>2. VisitorList(f) = {row(ip) : ip \in {ip \in Addresses(rows) : clears(ip)}}
  BY <1>1
<1>3. Addresses(Kept(f)) = {ip \in Addresses(rows) : clears(ip)}
  BY DEF Addresses, Kept, MinVisits
<1>4. ASSUME NEW ip \in Addresses(Kept(f)) PROVE OfAddress(Kept(f), ip) = OfAddress(rows, ip)
  <2>1. clears(ip)
    BY <1>3
  <2> QED BY <2>1 DEF Kept, MinVisits, OfAddress
<1>5. \A ip \in Addresses(Kept(f)) : row(ip) = ListRow(f, ip)
  BY <1>4 DEF ListRow
<1> HIDE DEF rows, row, clears
<1> QED BY <1>2, <1>3, <1>5

\* The table lists the addresses kept, once each, and the pager counts its rows.
LEMMA ListIsKept ==
    ASSUME FiniteLog, NEW f
    PROVE  /\ Listed(f) = Addresses(Kept(f))
           /\ IsFiniteSet(VisitorList(f))
           /\ Cardinality(VisitorList(f)) = Cardinality(Addresses(Kept(f)))
           /\ VisitorCount(f) = Cardinality(VisitorList(f))
<1> DEFINE S == Addresses(Kept(f))
           r == [ip \in S |-> ListRow(f, ip)]
<1>1. VisitorList(f) = {r[ip] : ip \in S}
  BY ListOfKept
<1>2. IsFiniteSet(S)
  BY KeptIsFinite, FiniteAddresses
<1>3. \A ip \in S : r[ip].ip = ip
  BY DEF ListRow
<1>4. DOMAIN r = S
  OBVIOUS
<1> HIDE DEF r, S
<1>5. \A x, y \in S : r[x] = r[y] => x = y
  BY <1>3
<1>6. IsFiniteSet(VisitorList(f)) /\ Cardinality(VisitorList(f)) = Cardinality(S)
  <2>1. /\ IsFiniteSet({r[ip] : ip \in S})
        /\ Cardinality({r[ip] : ip \in S}) = Cardinality(S)
    BY <1>2, <1>4, <1>5, ImageCount
  <2> QED BY <1>1, <2>1
<1>7. Listed(f) = S
  BY <1>1, <1>3 DEF Listed
<1> QED BY <1>6, <1>7, PagerCounts DEF S

\* The visits of the list are the rows it keeps.
LEMMA ListedVisitsAreKept ==
    ASSUME FiniteLog, NEW f
    PROVE  ListedVisits(f) = Cardinality(Kept(f))
<1> DEFINE K == VisitorList(f)
           own == [r \in K |-> OfAddress(Kept(f), r.ip)]
           count == [r \in K |-> r.visits]
<1>1. IsFiniteSet(K)
  BY ListIsKept
<1>2. \A r \in K : /\ r.visits = Cardinality(own[r]) /\ own[r] \subseteq Kept(f)
                   /\ r.ip \in Addresses(Kept(f)) /\ r = ListRow(f, r.ip)
  <2> TAKE r \in K
  <2>1. PICK ip \in Addresses(Kept(f)) : r = ListRow(f, ip)
    BY ListOfKept
  <2>2. r.ip = ip /\ r.visits = Cardinality(OfAddress(Kept(f), ip))
    BY <2>1 DEF ListRow
  <2>3. OfAddress(Kept(f), ip) \subseteq Kept(f)
    BY DEF OfAddress
  <2> QED BY <2>1, <2>2, <2>3
<1>3. (\A r \in K : IsFiniteSet(own[r])) /\ (\A r \in K : r.visits \in Nat)
  BY <1>2, KeptIsFinite, FS_Subset, FS_CardinalityType
<1>4. \A r, q \in K : r # q => own[r] \cap own[q] = {}
  <2>1. \A r, q \in K : r # q => r.ip # q.ip
    BY <1>2
  <2> QED BY <2>1 DEF OfAddress
<1>5. \A v \in Kept(f) : \E r \in K : v \in own[r]
  <2> TAKE v \in Kept(f)
  <2>1. ListRow(f, v.ip) \in K
    BY ListOfKept DEF Addresses
  <2>2. v \in own[ListRow(f, v.ip)]
    BY <2>1 DEF ListRow, OfAddress
  <2> QED BY <2>1, <2>2
<1>6. ListedVisits(f) = Sum(count)
  BY <1>1, <1>3, VisitsAddUp DEF ListedVisits
<1>7. DOMAIN count = K /\ (\A r \in K : count[r] = Cardinality(own[r]))
  BY <1>2
<1> HIDE DEF K, own, count
<1>8. /\ IsFiniteSet(K) /\ IsFiniteSet(Kept(f))
      /\ \A r \in K : own[r] \subseteq Kept(f)
      /\ \A r, q \in K : r # q => own[r] \cap own[q] = {}
  BY <1>1, <1>2, <1>4, KeptIsFinite
<1>9. Sum(count) = Cardinality(Kept(f))
  BY <1>5, <1>7, <1>8, PartsOf
<1> QED BY <1>6, <1>9

-----------------------------------------------------------------------------
(* Narrowing by what is known of an address *)

\* The conditions of a filter that only look at the address.
ByAddress(f, ip) ==
  ClassFilter(f.classes, ip) /\ SignalFilter(f.signals, ip) /\ SeenFilter(ip, f.seen, f.since)

\* Two filters that differ only in them keep rows that differ only by address.
LEMMA NarrowedByAddress ==
    ASSUME NEW f, NEW g, g.since = f.since, g.until = f.until, g.ip = f.ip,
           g.drill = f.drill, g.terms = f.terms, g.min = f.min, NEW A,
           \A v \in visits : ByAddress(g, v.ip) <=> ByAddress(f, v.ip) /\ v.ip \in A
    PROVE  Kept(g) = {v \in Kept(f) : v.ip \in A}
<1> DEFINE Same(v) == /\ f.ip # None => v.ip = f.ip
                      /\ DrillDown(v, f.drill)
                      /\ VisitorSearch(f.terms, v, f.since, f.until)
<1>1. VisitorRows(f) = {v \in Within(visits, f.since, f.until) : Same(v) /\ ByAddress(f, v.ip)}
  BY DEF VisitorRows, ByAddress
<1>2. VisitorRows(g) = {v \in Within(visits, f.since, f.until) : Same(v) /\ ByAddress(g, v.ip)}
  BY Zenon DEF VisitorRows, ByAddress
<1>3. Within(visits, f.since, f.until) \subseteq visits
  BY DEF Within
<1> HIDE DEF Same
<1>4. VisitorRows(g) = {v \in VisitorRows(f) : v.ip \in A}
  BY <1>1, <1>2, <1>3
<1>5. Kept(g) = MinVisits({v \in VisitorRows(f) : v.ip \in A}, f.min)
  BY <1>4 DEF Kept
<1> QED BY <1>5, MinVisitsByAddress DEF Kept

\* The addresses of rows narrowed by address.
LEMMA AddressesAmong ==
    ASSUME NEW rows, NEW A
    PROVE  Addresses({v \in rows : v.ip \in A}) = Addresses(rows) \cap A
BY DEF Addresses

\* Every view asks for the rows the list keeps, whatever order it states its conditions in.
LEMMA ViewsKeepTheSame ==
    ASSUME NEW f
    PROVE  /\ TimelineRows(f) = Kept(f)
           /\ HeatmapRows(f) = Kept(f)
<1> DEFINE W == Within(visits, f.since, f.until)
           listed == {v \in W :
               /\ f.ip # None => v.ip = f.ip
               /\ DrillDown(v, f.drill)
               /\ VisitorSearch(f.terms, v, f.since, f.until)
               /\ ClassFilter(f.classes, v.ip)
               /\ SignalFilter(f.signals, v.ip)
               /\ SeenFilter(v.ip, f.seen, f.since)}
           drawn == {v \in W :
               /\ ClassFilter(f.classes, v.ip)
               /\ SignalFilter(f.signals, v.ip)
               /\ VisitorSearch(f.terms, v, f.since, f.until)
               /\ SeenFilter(v.ip, f.seen, f.since)
               /\ f.ip # None => v.ip = f.ip
               /\ DrillDown(v, f.drill)}
<1>1. listed = drawn
  OBVIOUS
<1>2. Kept(f) = MinVisits(listed, f.min)
  BY Zenon DEF Kept, VisitorRows
<1>3. TimelineRows(f) = MinVisits(drawn, f.min) /\ HeatmapRows(f) = MinVisits(drawn, f.min)
  BY Zenon DEF TimelineRows, HeatmapRows
<1> HIDE DEF listed, drawn
<1> QED BY <1>1, <1>2, <1>3

\* The rows behind the chips are those of the list without its classes.
LEMMA ChipsKeepAllClasses ==
    ASSUME NEW f \in Filter
    PROVE  ChipRows(f) = Kept([f EXCEPT !.classes = {}])
<1> DEFINE g == [f EXCEPT !.classes = {}]
           W == Within(visits, f.since, f.until)
           listed == {v \in W :
               /\ f.ip # None => v.ip = f.ip
               /\ DrillDown(v, f.drill)
               /\ VisitorSearch(f.terms, v, f.since, f.until)
               /\ ClassFilter({}, v.ip)
               /\ SignalFilter(f.signals, v.ip)
               /\ SeenFilter(v.ip, f.seen, f.since)}
           counted == {v \in W :
               /\ SignalFilter(f.signals, v.ip)
               /\ VisitorSearch(f.terms, v, f.since, f.until)
               /\ SeenFilter(v.ip, f.seen, f.since)
               /\ f.ip # None => v.ip = f.ip
               /\ DrillDown(v, f.drill)}
<1>1. /\ g.since = f.since /\ g.until = f.until /\ g.ip = f.ip /\ g.drill = f.drill
      /\ g.terms = f.terms /\ g.min = f.min /\ g.classes = {} /\ g.signals = f.signals
      /\ g.seen = f.seen
  BY DEF Filter
<1> HIDE DEF g
<1>2. \A ip : ClassFilter({}, ip)
  BY DEF ClassFilter
<1>3. listed = counted
  BY <1>2
<1>4. Kept(g) = MinVisits(listed, f.min)
  BY <1>1, Zenon DEF Kept, VisitorRows
<1>5. ChipRows(f) = MinVisits(counted, f.min)
  BY Zenon DEF ChipRows
<1> HIDE DEF listed, counted
<1> QED BY <1>3, <1>4, <1>5 DEF g

-----------------------------------------------------------------------------
(* Classes, as the classifier writes them *)

\* A class is unlabelled, or one of the four groups with a subclass.
Labelled(class) ==
  /\ class \in Unlabelled \/ (class.group \in Groups /\ class.sub # "")
KnownWell ==
  /\ IsFiniteSet(DOMAIN intel)
  /\ \A ip \in DOMAIN intel : Labelled(intel[ip].class)

\* An address without a row is unlabelled.
LEMMA EveryClassLabelled ==
    ASSUME KnownWell, NEW ip
    PROVE  Labelled(Intel(ip).class)
<1>1. CASE ip \in DOMAIN intel
  BY <1>1 DEF KnownWell, Intel, Enriched
<1>2. CASE ip \notin DOMAIN intel
  <2>1. Intel(ip).class = Class("", "")
    BY <1>2 DEF Intel, Enriched, Absent
  <2>2. Class("", "") \in Unlabelled
    BY DEF Unlabelled
  <2> QED BY <2>1, <2>2 DEF Labelled
<1> QED BY <1>1, <1>2

\* The chip, the charts, the groupings and the filter agree on the group of a class.
LEMMA OneGroup ==
    ASSUME NEW class, Labelled(class)
    PROVE  /\ Label(class) \in GroupsWithUnknown /\ GroupOf(class) = Label(class)
           /\ \A g \in GroupsWithUnknown : GroupMatch(g, class) <=> Label(class) = g
<1>1. CASE class \in Unlabelled
  <2>1. class.group = "unknown" \/ class.group = ""
    <3>1. class = Class("unknown", "") \/ class = Class("", "")
      BY <1>1 DEF Unlabelled
    <3>2. ASSUME class = Class("unknown", "") PROVE class.group = "unknown"
      BY <3>2 DEF Class
    <3>3. ASSUME class = Class("", "") PROVE class.group = ""
      BY <3>3 DEF Class
    <3> QED BY <3>1, <3>2, <3>3
  <2>2. Label(class) = "unknown" /\ GroupOf(class) = "unknown"
    BY <2>1 DEF Label, GroupOf, Groups
  <2>3. \A g \in GroupsWithUnknown : GroupMatch(g, class) <=> g = "unknown"
    BY <1>1, <2>1 DEF GroupMatch, GroupsWithUnknown, Groups
  <2> QED BY <2>2, <2>3 DEF GroupsWithUnknown
<1>2. CASE class.group \in Groups /\ class \notin Unlabelled
  <2>1. Label(class) = class.group /\ GroupOf(class) = class.group /\ class.group # "unknown"
    BY <1>2 DEF Label, GroupOf, Groups
  <2>2. \A g \in GroupsWithUnknown : GroupMatch(g, class) <=> class.group = g
    BY <1>2, <2>1 DEF GroupMatch
  <2> QED BY <1>2, <2>1, <2>2 DEF GroupsWithUnknown
<1> QED BY <1>1, <1>2 DEF Labelled

\* Filtering by a group.
LEMMA GroupFilter ==
    ASSUME KnownWell, NEW ip, NEW g \in GroupsWithUnknown
    PROVE  ClassFilter({Class(g, "")}, ip) <=> Label(Intel(ip).class) = g
<1>1. Labelled(Intel(ip).class)
  BY EveryClassLabelled
<1> DEFINE c == Intel(ip).class
<1>2. ClassFilter({Class(g, "")}, ip) <=> GroupMatch(g, c)
  <2> DEFINE d == Class(g, "")
  <2>1. d.sub = "" /\ d.group = g
    BY DEF Class
  <2> HIDE DEF d
  <2>2. ClassFilter({d}, ip) <=> GroupMatch(d.group, c)
    BY <2>1 DEF ClassFilter
  <2> QED BY <2>1, <2>2, Zenon DEF d
<1>3. GroupMatch(g, c) <=> Label(c) = g
  BY <1>1, OneGroup
<1> QED BY <1>2, <1>3

\* Filtering by a class.
LEMMA WholeClassFilter ==
    ASSUME KnownWell, NEW ip, NEW class, Labelled(class), class \notin Unlabelled
    PROVE  ClassFilter({class}, ip) <=> Intel(ip).class = class
<1>1. class.sub # "" /\ class # Class("unknown", "")
  BY DEF Labelled, Unlabelled, Class
<1> QED BY <1>1 DEF ClassFilter

-----------------------------------------------------------------------------
(* The chips *)

\* What a class lists is what the rows behind the chips have of it.
LEMMA ListedByClass ==
    ASSUME FiniteLog, NEW f \in Filter, NEW C
    PROVE  ListedUnder(f, C) =
             Cardinality({ip \in Addresses(ChipRows(f)) : ClassFilter(C, ip)})
<1> DEFINE g == [f EXCEPT !.classes = C]
           h == [f EXCEPT !.classes = {}]
           A == {ip \in Addresses(visits) : ClassFilter(C, ip)}
<1>1. /\ g.since = h.since /\ g.until = h.until /\ g.ip = h.ip /\ g.drill = h.drill
      /\ g.terms = h.terms /\ g.min = h.min /\ g.signals = h.signals /\ g.seen = h.seen
      /\ g.classes = C /\ h.classes = {}
  BY DEF Filter
<1> HIDE DEF g, h
<1>2. \A v \in visits : ByAddress(g, v.ip) <=> ByAddress(h, v.ip) /\ v.ip \in A
  <2> SUFFICES ASSUME NEW v \in visits
               PROVE  ByAddress(g, v.ip) <=> ByAddress(h, v.ip) /\ v.ip \in A
    OBVIOUS
  <2>1. v.ip \in A <=> ClassFilter(C, v.ip)
    BY DEF Addresses
  <2>2. ClassFilter({}, v.ip)
    BY DEF ClassFilter
  <2> HIDE DEF A
  <2> QED BY <1>1, <2>1, <2>2, Zenon DEF ByAddress
<1> HIDE DEF A
<1>3. Kept(g) = {v \in Kept(h) : v.ip \in A}
  BY <1>1, <1>2, NarrowedByAddress
<1>4. Addresses(Kept(g)) = Addresses(Kept(h)) \cap A
  BY <1>3, AddressesAmong
<1>5. Addresses(Kept(h)) \subseteq Addresses(visits)
  <2>1. Kept(h) \subseteq visits
    BY KeptIsFinite
  <2> QED BY <2>1 DEF Addresses
<1>6. Addresses(Kept(g)) = {ip \in Addresses(Kept(h)) : ClassFilter(C, ip)}
  BY <1>4, <1>5 DEF A
<1>7. Kept(h) = ChipRows(f)
  BY ChipsKeepAllClasses DEF h
<1> QED BY <1>6, <1>7, PagerCounts DEF ListedUnder, g

\* A chip says what clicking it lists, and All what the others add up to.
LEMMA ChipsSayWhatTheyList ==
    ASSUME FiniteLog, KnownWell, NEW f \in Filter
    PROVE  ChipsAgree(f, ClassChips(f))
<1> DEFINE A == Addresses(ChipRows(f))
           class == [ip \in A |-> Intel(ip).class]
           chips == ClassChips(f)
           groups == GroupChips(chips)
           label == [ip \in A |-> Label(Intel(ip).class)]
<1>1. IsFiniteSet(A)
  BY KeptIsFinite, FiniteAddresses, ChipsKeepAllClasses
<1>2. /\ DOMAIN chips = {class[ip] : ip \in A}
      /\ \A c \in DOMAIN chips : chips[c] = Cardinality({ip \in A : class[ip] = c})
  BY DEF ClassChips
<1>3. \A ip \in A : Labelled(class[ip]) /\ label[ip] = Label(class[ip])
  BY EveryClassLabelled
<1>4. DOMAIN chips = {class[ip] : ip \in A} /\ IsFiniteSet(DOMAIN chips)
  <2>1. DOMAIN class = A
    OBVIOUS
  <2> HIDE DEF A, class, chips
  <2> QED BY <1>1, <1>2, <2>1, ImageCount
<1>5. \A C : ListedUnder(f, C) = Cardinality({ip \in A : ClassFilter(C, ip)})
  BY ListedByClass
<1>6. ASSUME NEW c \in DOMAIN chips \ Unlabelled PROVE chips[c] = ListedUnder(f, {c})
  <2>1. PICK ip \in A : c = class[ip]
    BY <1>2
  <2>2. Labelled(c)
    BY <1>3, <2>1
  <2>3. \A i \in A : ClassFilter({c}, i) <=> class[i] = c
    BY <2>2, WholeClassFilter
  <2>4. {i \in A : ClassFilter({c}, i)} = {i \in A : class[i] = c}
    BY <2>3
  <2> QED BY <1>2, <1>5, <2>4
<1>7. DOMAIN groups = {Label(c) : c \in DOMAIN chips}
  BY DEF GroupChips
<1>8. ASSUME NEW g \in DOMAIN groups
      PROVE  groups[g] = Cardinality({ip \in A : label[ip] = g})
  <2> DEFINE K == {c \in DOMAIN chips : Label(c) = g}
             W == {ip \in A : label[ip] = g}
             own == [c \in K |-> {ip \in A : class[ip] = c}]
             count == [c \in K |-> chips[c]]
  <2>1. groups[g] = MapThenSumSet(LAMBDA c : chips[c], K)
    BY <1>7, <1>8 DEF GroupChips
  <2>2. IsFiniteSet(K) /\ IsFiniteSet(W)
    BY <1>1, <1>4, FS_Subset
  <2>3. \A c \in K : own[c] \subseteq W
    BY <1>3
  <2>4. \A ip \in W : class[ip] \in K /\ ip \in own[class[ip]]
    BY <1>2, <1>3
  <2>5. \A c, d \in K : c # d => own[c] \cap own[d] = {}
    OBVIOUS
  <2>6. \A c \in K : chips[c] = Cardinality(own[c]) /\ chips[c] \in Nat
    <3>1. \A c \in K : IsFiniteSet(own[c])
      BY <2>2, <2>3, FS_Subset
    <3> QED BY <1>2, <3>1, FS_CardinalityType
  <2>7. groups[g] = Sum(count)
    <3> HIDE DEF groups, chips, K, own
    <3>1. \A c \in K : chips[c] \in Int
      BY <2>6
    <3>2. Entries(chips, K) = Sum([c \in K |-> chips[c]])
      BY <2>2, <3>1, EntriesAddUp
    <3> QED BY <2>1, <3>2 DEF Entries, count
  <2>8. DOMAIN count = K /\ (\A c \in K : count[c] = Cardinality(own[c]))
    BY <2>6
  <2> HIDE DEF K, W, own, count
  <2>9. Sum(count) = Cardinality(W)
    <3>1. \A ip \in W : \E c \in K : ip \in own[c]
      BY <2>4
    <3> QED BY <2>2, <2>3, <2>5, <2>8, <3>1, PartsOf
  <2> QED BY <2>7, <2>9 DEF W
<1>9. ASSUME NEW g \in GroupsWithUnknown
      PROVE  ListedUnder(f, {Class(g, "")}) = IF g \in DOMAIN groups THEN groups[g] ELSE 0
  <2>1. \A ip \in A : ClassFilter({Class(g, "")}, ip) <=> label[ip] = g
    BY GroupFilter
  <2>2. {ip \in A : ClassFilter({Class(g, "")}, ip)} = {ip \in A : label[ip] = g}
    BY <2>1
  <2>3. ListedUnder(f, {Class(g, "")}) = Cardinality({ip \in A : label[ip] = g})
    BY <1>5, <2>2
  <2>4. g \notin DOMAIN groups => {ip \in A : label[ip] = g} = {}
    BY <1>2, <1>3, <1>7
  <2> QED BY <1>8, <2>3, <2>4, FS_EmptySet
<1>10. AllChip(chips) = ListedUnder(f, {})
  <2>1. AllChip(chips) = Sum(groups)
    BY DEF AllChip
  <2>2. \A ip \in A : ClassFilter({}, ip)
    BY DEF ClassFilter
  <2>3. {ip \in A : ClassFilter({}, ip)} = A
    BY <2>2
  <2>4. \A ip \in A : label[ip] \in DOMAIN groups
    BY <1>2, <1>3, <1>7
  <2>5. IsFiniteSet(DOMAIN groups)
    <3> DEFINE l == [c \in DOMAIN chips |-> Label(c)]
    <3>1. DOMAIN groups = {l[c] : c \in DOMAIN chips} /\ DOMAIN l = DOMAIN chips
      BY <1>7
    <3> HIDE DEF l, chips, groups
    <3> QED BY <1>4, <3>1, ImageCount
  <2>6. \A g \in DOMAIN groups : groups[g] = Cardinality({ip \in A : label[ip] = g})
    BY <1>8
  <2> HIDE DEF A, label, groups, chips
  <2>7. Sum(groups) = Cardinality(A)
    BY <1>1, <2>4, <2>5, <2>6, CountByKey
  <2> QED BY <1>5, <2>1, <2>3, <2>7
<1> HIDE DEF chips
<1> QED BY <1>6, <1>9, <1>10 DEF ChipsAgree, chips

-----------------------------------------------------------------------------
(* Days and buckets *)

MomentsWell == \A v \in visits : v.at \in Nat

\* Division by the hours of a day.
LEMMA DayOf ==
    ASSUME NEW at \in Nat
    PROVE  /\ Day(at) \in Nat
           /\ Day(at) * Hours <= at /\ at < (Day(at) + 1) * Hours
<1>1. Hours \in Nat /\ Hours > 0
  BY QueriesAssumption DEF RowsAssumption
<1> QED BY <1>1 DEF Day

\* The days are in the order of the moments.
LEMMA DaysInOrder ==
    ASSUME NEW a \in Nat, NEW b \in Nat, a < (Day(b) + 1) * Hours
    PROVE  Day(a) <= Day(b)
<1>1. Hours \in Nat /\ Hours > 0
  BY QueriesAssumption DEF RowsAssumption
<1> DEFINE p == Day(a)
           q == Day(b)
<1>2. p \in Nat /\ q \in Nat /\ p * Hours <= a /\ a < (q + 1) * Hours
  BY DayOf
<1> HIDE DEF p, q
<1>3. ASSUME p >= q + 1 PROVE FALSE
  <2>1. PICK n \in Nat : p = q + 1 + n
    <3>1. p - (q + 1) \in Nat /\ p = q + 1 + (p - (q + 1))
      BY <1>2, <1>3
    <3> QED BY <3>1
  <2>2. p * Hours = (q + 1) * Hours + n * Hours
    BY <1>1, <1>2, <2>1
  <2>3. n * Hours \in Nat /\ (q + 1) * Hours \in Nat /\ p * Hours \in Nat
    BY <1>1, <1>2, <2>1
  <2> QED BY <1>2, <2>2, <2>3
<1>4. p <= q
  BY <1>2, <1>3
<1> QED BY <1>4 DEF p, q

\* A row in a window lies between the days that bound it.
LEMMA RowsInWindow ==
    ASSUME NEW at \in Nat, NEW since \in Moment, NEW until \in Moment,
           InWindow(at, since, until)
    PROVE  /\ since # None => Day(since) <= Day(at)
           /\ until # None => Day(at) <= Day(until)
<1>1. ASSUME since # None PROVE Day(since) <= Day(at)
  <2>1. since \in Nat /\ since <= at
    BY <1>1 DEF Moment, InWindow
  <2>2. at < (Day(at) + 1) * Hours /\ (Day(at) + 1) * Hours \in Int
    <3>1. Hours \in Nat
      BY QueriesAssumption DEF RowsAssumption
    <3> QED BY <3>1, DayOf
  <2>3. since < (Day(at) + 1) * Hours
    BY <2>1, <2>2
  <2> QED BY <2>1, <2>3, DaysInOrder
<1>2. ASSUME until # None PROVE Day(at) <= Day(until)
  <2>1. until \in Nat /\ at < (Day(until) + 1) * Hours
    BY <1>2 DEF Moment, InWindow, Day
  <2> QED BY <2>1, DaysInOrder
<1> QED BY <1>1, <1>2

\* The last of finitely many numbers.
LEMMA LastOf ==
    ASSUME NEW S, S \subseteq Nat, IsFiniteSet(S), S # {}
    PROVE  Greatest(S) \in S /\ \A n \in S : n <= Greatest(S)
<1> DEFINE Has(s) == \E m \in s : \A n \in s : n <= m
           B == {s \in SUBSET S : s # {} /\ ~ Has(s)}
<1>1. ASSUME B # {} PROVE FALSE
  <2>1. PICK s \in B : IsFiniteSet(s) /\ \A t \in B : Cardinality(s) <= Cardinality(t)
    <3> HIDE DEF B
    <3>1. B \subseteq SUBSET S
      BY DEF B
    <3> QED BY <1>1, <3>1, SmallestSet
  <2>2. PICK x : x \in s
    BY <2>1
  <2>3. /\ Cardinality(s) \in Nat /\ Cardinality(s \ {x}) = Cardinality(s) - 1
        /\ s \ {x} \in SUBSET S
    BY <2>1, <2>2, OneLess
  <2>4. s \ {x} \notin B
    <3> HIDE DEF B
    <3> QED BY <2>1, <2>3
  <2>5. CASE s \ {x} = {}
    <3>1. s = {x} /\ x \in Nat
      BY <2>1, <2>2, <2>5
    <3>2. Has(s)
      BY <3>1
    <3> QED BY <2>1, <3>2
  <2>6. CASE s \ {x} # {}
    <3>1. PICK m \in s \ {x} : \A n \in s \ {x} : n <= m
      BY <2>3, <2>4, <2>6
    <3>2. m \in Nat /\ x \in Nat /\ m \in s
      BY <2>1, <2>2
    <3>3. CASE x <= m
      <4>1. Has(s)
        BY <3>1, <3>2, <3>3
      <4> QED BY <2>1, <4>1
    <3>4. CASE ~(x <= m)
      <4>1. \A n \in s : n <= x
        BY <2>1, <3>1, <3>2, <3>4
      <4>2. Has(s)
        BY <2>2, <4>1
      <4> QED BY <2>1, <4>2
    <3> QED BY <3>3, <3>4
  <2> QED BY <2>5, <2>6
<1>2. PICK m \in S : \A n \in S : m >= n
  <2>1. Has(S)
    BY <1>1
  <2> QED BY <2>1
<1> QED BY <1>2 DEF Greatest

-----------------------------------------------------------------------------
(* The charts *)

BucketOf(f) == PickBucket(f.since, f.until)
Opens(f) == IF BucketOf(f) = "hour" THEN Day(f.since) * Hours ELSE Day(f.since)

\* A chart of f is not longer than the ceiling on its buckets.
ChartFits(f) ==
  \A v \in Within(visits, f.since, f.until) :
     /\ \A w \in Within(visits, f.since, f.until) :
          Bucket(v, BucketOf(f)) - Bucket(w, BucketOf(f)) < MaxBuckets
     /\ f.since # None => Bucket(v, BucketOf(f)) - Opens(f) < MaxBuckets

\* The buckets of some rows, and those a chart of f draws for them.
Keys(f, rows) == {Bucket(v, BucketOf(f)) : v \in rows}
Drawn(f, rows) == FillGaps(Keys(f, rows), BucketOf(f), f.since, f.until)
Slice(f, rows, k) == {v \in rows : Bucket(v, BucketOf(f)) = k}

\* Buckets are numbered by the hours or days since the first.
LEMMA BucketsAreNumbers ==
    ASSUME MomentsWell, NEW v \in visits, NEW bucket
    PROVE  Bucket(v, bucket) \in Nat
<1>1. v.at \in Nat /\ Day(v.at) \in Nat
  BY DayOf DEF MomentsWell
<1> QED BY <1>1 DEF Bucket

\* A chart is finite and has the bucket of every row.
LEMMA EveryRowIsDrawn ==
    ASSUME FiniteLog, MomentsWell, NEW f \in Filter, ChartFits(f),
           NEW rows, rows \subseteq Within(visits, f.since, f.until)
    PROVE  Keys(f, rows) \subseteq Drawn(f, rows) /\ IsFiniteSet(Drawn(f, rows))
<1> DEFINE bucket == BucketOf(f)
           keys == Keys(f, rows)
           opens == IF bucket = "hour" THEN Day(f.since) * Hours ELSE Day(f.since)
           closes == IF bucket = "hour" THEN Day(f.until) * Hours + Hours - 1 ELSE Day(f.until)
           low == keys \union (IF f.since # None THEN {opens} ELSE {})
           high == keys \union (IF f.until # None THEN {closes} ELSE {})
           drawn == {k \in Least(low) .. Greatest(high) : k - Least(low) < MaxBuckets}
<1>1. Drawn(f, rows) = IF keys = {} THEN {} ELSE drawn
  BY DEF Drawn, FillGaps
<1>2. /\ f.since # None => f.since \in Nat
      /\ f.until # None => f.until \in Nat
      /\ Hours \in Nat /\ Hours > 0
  BY QueriesAssumption DEF Filter, Moment, RowsAssumption
<1>3. /\ f.since # None => opens \in Nat
      /\ f.until # None => closes \in Nat
  <2>1. f.since # None => Day(f.since) \in Nat
    BY <1>2, DayOf
  <2>2. f.until # None => Day(f.until) \in Nat
    BY <1>2, DayOf
  <2> HIDE DEF bucket
  <2> QED BY <1>2, <2>1, <2>2
<1>4. Within(visits, f.since, f.until) \subseteq visits /\ rows \subseteq visits
  BY DEF Within
<1>5. keys \subseteq Nat /\ IsFiniteSet(keys)
  <2> DEFINE b == [v \in rows |-> Bucket(v, BucketOf(f))]
  <2>1. IsFiniteSet(rows)
    BY <1>4, FS_Subset DEF FiniteLog
  <2>2. DOMAIN b = rows /\ keys = {b[v] : v \in rows}
    BY DEF Keys
  <2>3. \A v \in rows : b[v] \in Nat
    BY <1>4, BucketsAreNumbers
  <2> HIDE DEF b, keys
  <2> QED BY <2>1, <2>2, <2>3, ImageCount
<1> HIDE DEF bucket, opens, closes
<1>6. low \subseteq Nat /\ high \subseteq Nat /\ IsFiniteSet(high)
  <2>1. IsFiniteSet(keys \union {closes})
    BY <1>5, FS_AddElement
  <2> QED BY <1>3, <1>5, <2>1
<1>7. ASSUME keys # {}
      PROVE  /\ Least(low) \in low /\ \A n \in low : Least(low) <= n
             /\ Greatest(high) \in high /\ \A n \in high : n <= Greatest(high)
  <2>1. low # {} /\ high # {}
    BY <1>7
  <2> HIDE DEF low, high
  <2>2. Least(low) \in low /\ \A n \in low : Least(low) <= n
    BY <1>6, <2>1, FirstOfChain
  <2>3. Greatest(high) \in high /\ \A n \in high : n <= Greatest(high)
    BY <1>6, <2>1, LastOf
  <2> QED BY <2>2, <2>3
<1>8. ASSUME NEW k \in keys PROVE k \in drawn
  <2>1. PICK v \in rows : k = Bucket(v, BucketOf(f))
    BY DEF Keys
  <2>2. \A n \in low : k - n < MaxBuckets
    <3>1. ASSUME NEW n \in keys PROVE k - n < MaxBuckets
      <4>1. PICK w \in rows : n = Bucket(w, BucketOf(f))
        BY <3>1 DEF Keys
      <4> QED BY <2>1, <4>1 DEF ChartFits
    <3>2. ASSUME f.since # None PROVE k - opens < MaxBuckets
      BY <2>1, <3>2 DEF ChartFits, Opens, opens, bucket
    <3> QED BY <3>1, <3>2
  <2>3. k \in low /\ k \in high /\ keys # {}
    OBVIOUS
  <2> HIDE DEF low, high
  <2>4. /\ Least(low) \in low /\ Least(low) \in Nat /\ Least(low) <= k
        /\ Greatest(high) \in Nat /\ k <= Greatest(high) /\ k \in Nat
    BY <1>5, <1>6, <1>7, <2>3
  <2>5. k - Least(low) < MaxBuckets
    BY <2>2, <2>4
  <2> QED BY <2>4, <2>5
<1>9. IsFiniteSet(Drawn(f, rows))
  <2>1. CASE keys = {}
    BY <1>1, <2>1, FS_EmptySet
  <2>2. CASE keys # {}
    <3>1. Least(low) \in Int /\ Greatest(high) \in Int
      BY <1>6, <1>7, <2>2
    <3> HIDE DEF low, high
    <3>2. IsFiniteSet(Least(low) .. Greatest(high))
      BY <3>1, FS_Interval
    <3> QED BY <1>1, <2>2, <3>2, FS_Subset
  <2> QED BY <2>1, <2>2
<1> HIDE DEF keys, drawn
<1> QED BY <1>1, <1>8, <1>9 DEF keys

\* What a timeline of some rows draws.
LEMMA BucketedRows ==
    ASSUME NEW rows, NEW f, NEW measure,
           NEW s, s = Bucketed(rows, f, BucketOf(f), measure)
    PROVE  /\ DOMAIN s = Drawn(f, rows)
           /\ \A k \in Drawn(f, rows) : s[k].total = Measured(measure, Slice(f, rows, k))
BY DEF Bucketed, Drawn, Keys, Slice

\* And how it splits a bucket into groups.
LEMMA BucketedGroups ==
    ASSUME NEW rows, NEW f, NEW measure,
           NEW s, s = Bucketed(rows, f, BucketOf(f), measure), NEW k \in Drawn(f, rows)
    PROVE  /\ DOMAIN s[k].group = GroupsWithUnknown
           /\ \A g \in GroupsWithUnknown : s[k].group[g] =
                Measured(measure, {v \in Slice(f, rows, k) : GroupMatch(g, Intel(v.ip).class)})
BY DEF Bucketed, Drawn, Keys, Slice

\* The buckets of a chart in which every row is drawn add up to the rows.
LEMMA SlicesAddUp ==
    ASSUME NEW f, NEW rows, IsFiniteSet(rows), Keys(f, rows) \subseteq Drawn(f, rows),
           IsFiniteSet(Drawn(f, rows)), NEW s, DOMAIN s = Drawn(f, rows),
           \A k \in DOMAIN s : s[k].total = Cardinality(Slice(f, rows, k))
    PROVE  Totals(s) = Cardinality(rows)
<1> DEFINE K == Drawn(f, rows)
           key == [v \in rows |-> Bucket(v, BucketOf(f))]
           t == [k \in K |-> s[k].total]
<1>1. \A k \in K : Slice(f, rows, k) = {v \in rows : key[v] = k}
  BY DEF Slice
<1>2. \A k \in K : IsFiniteSet(Slice(f, rows, k))
  BY FS_Subset DEF Slice
<1>3. \A k \in K : s[k].total \in Nat
  BY <1>2, FS_CardinalityType
<1>4. Totals(s) = Sum(t)
  BY <1>3, TotalsAddUp
<1>5. \A v \in rows : key[v] \in K
  BY DEF Keys
<1>6. DOMAIN t = K /\ \A k \in K : t[k] = Cardinality({v \in rows : key[v] = k})
  BY <1>1
<1>7. IsFiniteSet(K)
  OBVIOUS
<1> HIDE DEF K, key, t
<1>8. Sum(t) = Cardinality(rows)
  BY <1>5, <1>6, <1>7, CountByKey
<1> QED BY <1>4, <1>8

\* A series is one pass over the rows of the list, or two of them laid over each other.
LEMMA SeriesOf ==
    ASSUME NEW f \in Filter, NEW measure
    PROVE  LET all == Bucketed(Kept(f), f, BucketOf(f), measure)
               n == [f EXCEPT !.seen = "new"]
               new == Bucketed(Kept(n), n, BucketOf(f), measure)
           IN  Series(f, measure) = IF f.seen = "both" THEN OverlayNew(all, new) ELSE all
<1> DEFINE n == [f EXCEPT !.seen = "new"]
           o == [f EXCEPT !.seen = "both"]
           same == [f EXCEPT !.seen = f.seen]
           b == BucketOf(f)
           q(g) == Bucketed(Kept(g), g, b, measure)
<1>1. same = f /\ (f.seen = "both" => o = f)
  BY DEF Filter
<1>2. Series(f, measure) =
         IF f.seen = "both" THEN OverlayNew(Timeline(o, b, measure), Timeline(n, b, measure))
                            ELSE Timeline(same, b, measure)
  BY DEF Series, BucketOf
<1>3. \A g : Timeline(g, b, measure) = q(g)
  BY ViewsKeepTheSame DEF Timeline
<1> HIDE DEF n, o, same, q
<1>4. CASE f.seen = "both"
  BY <1>1, <1>2, <1>3, <1>4 DEF q, n
<1>5. CASE f.seen # "both"
  BY <1>1, <1>2, <1>3, <1>5 DEF q, n
<1> QED BY <1>4, <1>5

\* Whichever it is, its buckets count the slices of those rows.
LEMMA SeriesSlices ==
    ASSUME NEW f \in Filter, NEW measure
    PROVE  /\ DOMAIN Series(f, measure) = Drawn(f, Kept(f))
           /\ \A k \in Drawn(f, Kept(f)) :
                Series(f, measure)[k].total = Measured(measure, Slice(f, Kept(f), k))
<1> DEFINE all == Bucketed(Kept(f), f, BucketOf(f), measure)
           n == [f EXCEPT !.seen = "new"]
           new == Bucketed(Kept(n), n, BucketOf(f), measure)
<1>1. /\ DOMAIN all = Drawn(f, Kept(f))
      /\ \A k \in Drawn(f, Kept(f)) : all[k].total = Measured(measure, Slice(f, Kept(f), k))
  <2> HIDE DEF all
  <2>1. all = Bucketed(Kept(f), f, BucketOf(f), measure)
    BY DEF all
  <2> QED BY <2>1, BucketedRows
<1>2. Series(f, measure) = IF f.seen = "both" THEN OverlayNew(all, new) ELSE all
  BY SeriesOf
<1> HIDE DEF all, new
<1>3. /\ DOMAIN OverlayNew(all, new) = DOMAIN all
      /\ \A k \in DOMAIN all : OverlayNew(all, new)[k].total = all[k].total
  BY DEF OverlayNew
<1> QED BY <1>1, <1>2, <1>3

\* The cells of the heatmap add up to the rows.
LEMMA HeatmapAddsUp ==
    ASSUME FiniteLog, NEW f
    PROVE  Sum(Heatmap(f)) = Cardinality(Kept(f))
<1> DEFINE R == Kept(f)
           key == [v \in R |-> Cell(v)]
           K == {key[v] : v \in R}
           h == Heatmap(f)
<1>1. IsFiniteSet(R)
  BY KeptIsFinite
<1>2. HeatmapRows(f) = R
  BY ViewsKeepTheSame
<1>3. h = [c \in {Cell(v) : v \in R} |-> Cardinality({v \in R : Cell(v) = c})]
  BY <1>2 DEF Heatmap
<1>4. DOMAIN h = K /\ \A c \in K : h[c] = Cardinality({v \in R : key[v] = c})
  <2>1. \A c \in K : {v \in R : Cell(v) = c} = {v \in R : key[v] = c}
    OBVIOUS
  <2>2. K = {Cell(v) : v \in R}
    OBVIOUS
  <2> HIDE DEF K, key, h, R
  <2> QED BY <1>3, <2>1, <2>2
<1>5. IsFiniteSet(K)
  <2>1. DOMAIN key = R
    OBVIOUS
  <2> HIDE DEF key, R
  <2> QED BY <1>1, <2>1, ImageCount
<1>6. \A v \in R : key[v] \in K
  OBVIOUS
<1> HIDE DEF R, key, K, h
<1>7. Sum(h) = Cardinality(R)
  BY <1>1, <1>4, <1>5, <1>6, CountByKey
<1> QED BY <1>7 DEF h, R

\* A row of a window is on one of its weekdays.
LEMMA OnItsWeekdays ==
    ASSUME MomentsWell, NEW f \in Filter, NEW v \in Within(visits, f.since, f.until)
    PROVE  Cell(v).dow \in WeekdaysIn(f.since, f.until)
<1>1. v.at \in Nat /\ Day(v.at) \in Nat /\ InWindow(v.at, f.since, f.until)
  BY DayOf DEF MomentsWell, Within
<1>2. f.since \in Moment /\ f.until \in Moment
  BY DEF Filter
<1>3. /\ f.since # None => Day(f.since) \in Nat /\ Day(f.since) <= Day(v.at)
      /\ f.until # None => Day(f.until) \in Nat /\ Day(v.at) <= Day(f.until)
  <2>1. /\ f.since # None => Day(f.since) <= Day(v.at)
        /\ f.until # None => Day(v.at) <= Day(f.until)
    BY <1>1, <1>2, RowsInWindow
  <2> QED BY <1>2, <2>1, DayOf DEF Moment
<1> DEFINE d == Day(v.at)
           s == Day(f.since)
           u == Day(f.until)
<1>4. Cell(v).dow = d % 7
  BY DEF Cell
<1>5. WeekdaysIn(f.since, f.until) =
         IF f.since = None \/ f.until = None THEN 0 .. 6
         ELSE IF u - s < 0 \/ u - s >= 6 THEN 0 .. 6 ELSE {(s + n) % 7 : n \in 0 .. (u - s)}
  BY DEF WeekdaysIn
<1> HIDE DEF d, s, u
<1>6. d % 7 \in 0 .. 6
  BY <1>1 DEF d
<1>7. CASE f.since # None /\ f.until # None /\ ~(u - s < 0 \/ u - s >= 6)
  <2>1. d - s \in 0 .. (u - s) /\ s + (d - s) = d
    BY <1>1, <1>3, <1>7 DEF d, s, u
  <2>2. d % 7 \in {(s + n) % 7 : n \in 0 .. (u - s)}
    BY <2>1
  <2> QED BY <1>4, <1>5, <1>7, <2>2
<1>8. CASE f.since = None \/ f.until = None \/ u - s < 0 \/ u - s >= 6
  BY <1>4, <1>5, <1>6, <1>8
<1> QED BY <1>7, <1>8

\* There are five groups.
LEMMA FewGroups == IsFiniteSet(GroupsWithUnknown)
<1>1. IsFiniteSet({"humans"})
  BY FS_Singleton
<1>2. IsFiniteSet({"humans"} \cup {"bots"})
  BY <1>1, FS_AddElement
<1>3. IsFiniteSet(({"humans"} \cup {"bots"}) \cup {"automated"})
  BY <1>2, FS_AddElement
<1>4. IsFiniteSet((({"humans"} \cup {"bots"}) \cup {"automated"}) \cup {"threats"})
  BY <1>3, FS_AddElement
<1>5. IsFiniteSet(((({"humans"} \cup {"bots"}) \cup {"automated"}) \cup {"threats"})
                    \cup {"unknown"})
  BY <1>4, FS_AddElement
<1>6. GroupsWithUnknown = (((({"humans"} \cup {"bots"}) \cup {"automated"}) \cup {"threats"})
                              \cup {"unknown"})
  BY DEF GroupsWithUnknown, Groups
<1> QED BY <1>5, <1>6

\* Addresses counted by group add up to the addresses.
LEMMA AddressesByGroup ==
    ASSUME KnownWell, NEW rows, IsFiniteSet(rows),
           NEW group, DOMAIN group = GroupsWithUnknown,
           \A g \in GroupsWithUnknown :
             group[g] = Distinct({v \in rows : GroupMatch(g, Intel(v.ip).class)})
    PROVE  Sum(group) = Distinct(rows)
<1> DEFINE A == Addresses(rows)
           byIp == [ip \in A |-> Label(Intel(ip).class)]
<1>1. \A ip : /\ Label(Intel(ip).class) \in GroupsWithUnknown
              /\ \A g \in GroupsWithUnknown :
                   GroupMatch(g, Intel(ip).class) <=> Label(Intel(ip).class) = g
  BY EveryClassLabelled, OneGroup
<1>2. IsFiniteSet(GroupsWithUnknown) /\ IsFiniteSet(A)
  BY FewGroups, FiniteAddresses
<1>3. \A ip \in A : byIp[ip] \in GroupsWithUnknown
  BY <1>1
<1>4. \A g \in GroupsWithUnknown :
         Addresses({v \in rows : GroupMatch(g, Intel(v.ip).class)}) = {ip \in A : byIp[ip] = g}
  <2> TAKE g \in GroupsWithUnknown
  <2>1. \A v \in rows : v.ip \in A /\ (GroupMatch(g, Intel(v.ip).class) <=> byIp[v.ip] = g)
    BY <1>1 DEF Addresses
  <2>2. \A ip \in A : \E v \in rows : ip = v.ip
    BY DEF Addresses
  <2> HIDE DEF A, byIp
  <2> QED BY <2>1, <2>2 DEF Addresses
<1> HIDE DEF A, byIp
<1>5. \A g \in GroupsWithUnknown : group[g] = Cardinality({ip \in A : byIp[ip] = g})
  BY <1>4 DEF Distinct
<1>6. Sum(group) = Cardinality(A)
  BY <1>2, <1>3, <1>5, CountByKey
<1> QED BY <1>6 DEF A, Distinct

\* The groups of a slice partition its requests and its addresses.
LEMMA SliceGroups ==
    ASSUME KnownWell, NEW rows, IsFiniteSet(rows), NEW measure, NEW f,
           NEW k \in Drawn(f, rows), IsFiniteSet(Slice(f, rows, k)),
           NEW s, s = Bucketed(rows, f, BucketOf(f), measure)
    PROVE  Sum(s[k].group) = s[k].total
<1> DEFINE S == Slice(f, rows, k)
           byRow == [v \in S |-> Label(Intel(v.ip).class)]
           group == s[k].group
<1>1. \A ip : /\ Label(Intel(ip).class) \in GroupsWithUnknown
              /\ \A g \in GroupsWithUnknown :
                   GroupMatch(g, Intel(ip).class) <=> Label(Intel(ip).class) = g
  BY EveryClassLabelled, OneGroup
<1>2. s[k].total = Measured(measure, S)
  BY BucketedRows
<1>3. /\ DOMAIN group = GroupsWithUnknown
      /\ \A g \in GroupsWithUnknown :
           group[g] = Measured(measure, {v \in S : GroupMatch(g, Intel(v.ip).class)})
  BY BucketedGroups
<1>4. IsFiniteSet(GroupsWithUnknown) /\ IsFiniteSet(S)
  BY FewGroups
<1>5. \A v \in S : byRow[v] \in GroupsWithUnknown
  BY <1>1
<1>6. \A g \in GroupsWithUnknown :
         {v \in S : GroupMatch(g, Intel(v.ip).class)} = {v \in S : byRow[v] = g}
  <2> TAKE g \in GroupsWithUnknown
  <2>1. \A v \in S : GroupMatch(g, Intel(v.ip).class) <=> byRow[v] = g
    BY <1>1
  <2> HIDE DEF S, byRow
  <2> QED BY <2>1
<1> HIDE DEF S, byRow, group
<1>7. CASE measure = "requests"
  <2>1. \A g \in GroupsWithUnknown : group[g] = Cardinality({v \in S : byRow[v] = g})
    BY <1>3, <1>6, <1>7 DEF Measured, Requests
  <2>2. Sum(group) = Cardinality(S)
    BY <1>3, <1>4, <1>5, <2>1, CountByKey
  <2> QED BY <1>2, <1>7, <2>2 DEF Measured, Requests, group
<1>8. CASE measure # "requests"
  <2>1. \A g \in GroupsWithUnknown :
           group[g] = Distinct({v \in S : GroupMatch(g, Intel(v.ip).class)})
    BY <1>3, <1>8 DEF Measured
  <2>2. Sum(group) = Distinct(S)
    BY <1>3, <1>4, <2>1, AddressesByGroup
  <2> QED BY <1>2, <1>8, <2>2 DEF Measured, group
<1> QED BY <1>7, <1>8

\* What the page of charts is made of.
LEMMA TimelineParts ==
    ASSUME NEW f
    PROVE  /\ TimelinePage(f).activity = Series(f, "requests")
           /\ TimelinePage(f).addresses = Series(f, "addresses")
           /\ TimelinePage(f).heatmap = Heatmap(f)
           /\ TimelinePage(f).total = Totals(Series(f, "requests"))
BY DEF TimelinePage

\* Every row the list keeps is in a bucket of its charts.
LEMMA KeptIsDrawn ==
    ASSUME FiniteLog, MomentsWell, NEW f \in Filter, ChartFits(f)
    PROVE  /\ Kept(f) \subseteq Within(visits, f.since, f.until)
           /\ Keys(f, Kept(f)) \subseteq Drawn(f, Kept(f)) /\ IsFiniteSet(Drawn(f, Kept(f)))
<1>1. Kept(f) \subseteq Within(visits, f.since, f.until)
  BY DEF Kept, MinVisits, VisitorRows
<1>2. Keys(f, Kept(f)) \subseteq Drawn(f, Kept(f)) /\ IsFiniteSet(Drawn(f, Kept(f)))
  BY <1>1, EveryRowIsDrawn
<1> QED BY <1>1, <1>2

\* The charts add up to the list, bucket by bucket and group by group.
LEMMA ChartsAddUp ==
    ASSUME FiniteLog, MomentsWell, KnownWell, NEW f \in Filter, ChartFits(f)
    PROVE  ChartsAgree(f, TimelinePage(f), VisitorList(f))
<1> DEFINE requests == Series(f, "requests")
           addresses == Series(f, "addresses")
           D == Drawn(f, Kept(f))
           slice(k) == Slice(f, Kept(f), k)
<1>1. IsFiniteSet(Kept(f)) /\ IsFiniteSet(D) /\ Keys(f, Kept(f)) \subseteq D
  BY KeptIsFinite, KeptIsDrawn
<1>2. /\ DOMAIN requests = D /\ DOMAIN addresses = D
      /\ \A k \in D : requests[k].total = Cardinality(slice(k))
      /\ \A k \in D : addresses[k].total = Cardinality(Addresses(slice(k)))
  <2>1. DOMAIN requests = D /\ \A k \in D : requests[k].total = Measured("requests", slice(k))
    BY SeriesSlices
  <2>2. DOMAIN addresses = D /\ \A k \in D : addresses[k].total = Measured("addresses", slice(k))
    BY SeriesSlices
  <2> QED BY <2>1, <2>2 DEF Measured, Requests, Distinct
<1>3. Totals(requests) = Cardinality(Kept(f))
  <2> HIDE DEF requests
  <2> QED BY <1>1, <1>2, SlicesAddUp
<1>4. \A k \in D : IsFiniteSet(slice(k)) /\ slice(k) \subseteq Kept(f)
  BY <1>1, FS_Subset DEF Slice
<1>5. ASSUME f.seen # "both", NEW measure
      PROVE  GroupsAddUp(Series(f, measure))
  <2> DEFINE s == Bucketed(Kept(f), f, BucketOf(f), measure)
  <2>1. Series(f, measure) = s
    BY <1>5, SeriesOf
  <2>2. DOMAIN s = D
    BY BucketedRows
  <2>3. ASSUME NEW k \in D PROVE Sum(s[k].group) = s[k].total
    <3>1. IsFiniteSet(Slice(f, Kept(f), k))
      BY <1>4
    <3> HIDE DEF s
    <3>2. s = Bucketed(Kept(f), f, BucketOf(f), measure)
      BY DEF s
    <3> QED BY <1>1, <3>1, <3>2, SliceGroups
  <2> HIDE DEF s
  <2> QED BY <2>1, <2>2, <2>3 DEF GroupsAddUp
<1>6. ASSUME NEW k \in D PROVE addresses[k].total <= Cardinality(VisitorList(f))
  <2>1. Addresses(slice(k)) \subseteq Addresses(Kept(f))
    BY <1>4 DEF Addresses
  <2>2. IsFiniteSet(Addresses(Kept(f)))
    BY <1>1, FiniteAddresses
  <2>3. Cardinality(Addresses(slice(k))) <= Cardinality(Addresses(Kept(f)))
    BY <2>1, <2>2, FS_Subset
  <2> QED BY <1>2, <2>3, ListIsKept
<1>7. \A c \in DOMAIN Heatmap(f) : c.dow \in WeekdaysIn(f.since, f.until)
  <2> TAKE c \in DOMAIN Heatmap(f)
  <2>1. DOMAIN Heatmap(f) = {Cell(v) : v \in Kept(f)}
    BY ViewsKeepTheSame DEF Heatmap
  <2>2. PICK v \in Kept(f) : c = Cell(v)
    BY <2>1
  <2>3. v \in Within(visits, f.since, f.until)
    BY KeptIsDrawn
  <2> QED BY <2>2, <2>3, OnItsWeekdays
<1>8. Sum(Heatmap(f)) = Cardinality(Kept(f))
  BY HeatmapAddsUp
<1>9. MapThenSumSet(LAMBDA r : r.visits, VisitorList(f)) = Cardinality(Kept(f))
  BY ListedVisitsAreKept DEF ListedVisits
<1> HIDE DEF D, slice, requests, addresses
<1>10. /\ TimelinePage(f).activity = requests /\ TimelinePage(f).addresses = addresses
       /\ TimelinePage(f).heatmap = Heatmap(f) /\ TimelinePage(f).total = Totals(requests)
  BY TimelineParts DEF requests, addresses
<1>11. f.seen # "both" => GroupsAddUp(requests) /\ GroupsAddUp(addresses)
  BY <1>5 DEF requests, addresses
<1> QED BY <1>2, <1>3, <1>6, <1>7, <1>8, <1>9, <1>10, <1>11 DEF ChartsAgree

\* New nests inside All, and comparing the two does not change All.
LEMMA NewIsPartOfAll ==
    ASSUME FiniteLog, MomentsWell, NEW f \in Filter, ChartFits(f), f.seen = "total"
    PROVE  NewNests(TimelinePage(f).activity, TimelinePage([f EXCEPT !.seen = "both"]).activity)
<1> DEFINE o == [f EXCEPT !.seen = "both"]
           n == [f EXCEPT !.seen = "new"]
           A == {ip \in Addresses(visits) : SeenFilter(ip, "new", f.since)}
<1>1. /\ o.since = f.since /\ o.until = f.until /\ o.ip = f.ip /\ o.drill = f.drill
      /\ o.terms = f.terms /\ o.min = f.min /\ o.classes = f.classes /\ o.signals = f.signals
      /\ o.seen = "both" /\ o \in Filter
  BY DEF Filter
<1>2. /\ n.since = f.since /\ n.until = f.until /\ n.ip = f.ip /\ n.drill = f.drill
      /\ n.terms = f.terms /\ n.min = f.min /\ n.classes = f.classes /\ n.signals = f.signals
      /\ n.seen = "new" /\ n \in Filter /\ [o EXCEPT !.seen = "new"] = n
  BY DEF Filter
<1> HIDE DEF o, n
<1>3. Kept(o) = Kept(f)
  <2>1. \A ip : SeenFilter(ip, o.seen, o.since) /\ SeenFilter(ip, f.seen, f.since)
    BY <1>1 DEF SeenFilter
  <2>2. VisitorRows(o) = VisitorRows(f)
    BY <1>1, <2>1 DEF VisitorRows
  <2> QED BY <1>1, <2>2 DEF Kept
<1>4. Kept(n) \subseteq Kept(f)
  <2>1. \A v \in visits : ByAddress(n, v.ip) <=> ByAddress(f, v.ip) /\ v.ip \in A
    <3> TAKE v \in visits
    <3>1. v.ip \in A <=> SeenFilter(v.ip, "new", f.since)
      BY DEF Addresses
    <3>2. SeenFilter(v.ip, f.seen, f.since)
      BY DEF SeenFilter
    <3> HIDE DEF A
    <3> QED BY <1>2, <3>1, <3>2, Zenon DEF ByAddress
  <2> HIDE DEF A
  <2>2. Kept(n) = {v \in Kept(f) : v.ip \in A}
    BY <1>2, <2>1, NarrowedByAddress
  <2> QED BY <2>2
<1> DEFINE all == Bucketed(Kept(o), o, BucketOf(o), "requests")
           new == Bucketed(Kept(n), n, BucketOf(o), "requests")
<1>5. Series(o, "requests") = OverlayNew(all, new)
  BY <1>1, <1>2, SeriesOf
<1>6. BucketOf(o) = BucketOf(f) /\ BucketOf(n) = BucketOf(f)
  BY <1>1, <1>2 DEF BucketOf
<1>7. /\ DOMAIN all = Drawn(f, Kept(f))
      /\ \A k \in DOMAIN all : all[k].total = Cardinality(Slice(f, Kept(f), k))
  <2>1. Drawn(o, Kept(o)) = Drawn(f, Kept(f))
    BY <1>1, <1>3, <1>6 DEF Drawn, Keys
  <2>2. \A k : Slice(o, Kept(o), k) = Slice(f, Kept(f), k)
    BY <1>3, <1>6 DEF Slice
  <2>3. /\ DOMAIN all = Drawn(o, Kept(o))
        /\ \A k \in Drawn(o, Kept(o)) : all[k].total = Measured("requests", Slice(o, Kept(o), k))
    <3> HIDE DEF all
    <3>1. all = Bucketed(Kept(o), o, BucketOf(o), "requests")
      BY DEF all
    <3> QED BY <3>1, BucketedRows
  <2> HIDE DEF all
  <2> QED BY <2>1, <2>2, <2>3 DEF Measured, Requests
<1>8. \A k \in DOMAIN new : new[k].total = Cardinality(Slice(f, Kept(n), k))
  <2>1. \A k : Slice(n, Kept(n), k) = Slice(f, Kept(n), k)
    BY <1>6 DEF Slice
  <2>2. /\ DOMAIN new = Drawn(n, Kept(n))
        /\ \A k \in Drawn(n, Kept(n)) : new[k].total = Measured("requests", Slice(n, Kept(n), k))
    <3> HIDE DEF new
    <3>1. new = Bucketed(Kept(n), n, BucketOf(n), "requests")
      BY <1>6 DEF new
    <3> QED BY <3>1, BucketedRows
  <2> HIDE DEF new
  <2> QED BY <2>1, <2>2 DEF Measured, Requests
<1>9. \A k : /\ IsFiniteSet(Slice(f, Kept(f), k))
             /\ Slice(f, Kept(n), k) \subseteq Slice(f, Kept(f), k)
             /\ Cardinality(Slice(f, Kept(f), k)) \in Nat
             /\ Cardinality(Slice(f, Kept(n), k)) <= Cardinality(Slice(f, Kept(f), k))
  <2> TAKE k
  <2>1. IsFiniteSet(Kept(f)) /\ Slice(f, Kept(f), k) \subseteq Kept(f)
    BY KeptIsFinite DEF Slice
  <2>2. Slice(f, Kept(n), k) \subseteq Slice(f, Kept(f), k)
    BY <1>4 DEF Slice
  <2>3. IsFiniteSet(Slice(f, Kept(f), k))
    BY <2>1, FS_Subset
  <2> QED BY <2>2, <2>3, FS_Subset, FS_CardinalityType
<1>10. /\ DOMAIN Series(f, "requests") = Drawn(f, Kept(f))
       /\ \A k \in Drawn(f, Kept(f)) :
            Series(f, "requests")[k].total = Cardinality(Slice(f, Kept(f), k))
  BY SeriesSlices DEF Measured, Requests
<1> HIDE DEF all, new
<1>11. \A k \in DOMAIN all :
          /\ OverlayNew(all, new)[k].total = all[k].total
          /\ OverlayNew(all, new)[k].total_new = IF k \in DOMAIN new THEN new[k].total ELSE 0
  BY DEF OverlayNew
<1>12. DOMAIN OverlayNew(all, new) = DOMAIN all
  BY DEF OverlayNew
<1>13. NewNests(Series(f, "requests"), OverlayNew(all, new))
  BY <1>7, <1>8, <1>9, <1>10, <1>11, <1>12 DEF NewNests
<1> QED BY <1>5, <1>13, TimelineParts DEF o

-----------------------------------------------------------------------------
(* The map *)

\* The filter of the map narrows by country only.
OnMap(m) == m \in Filter /\ m.ip = None /\ \A d \in m.drill : d.column = "country"

\* The filter the map works with is such a filter.
LEMMA MapFilterNarrows ==
    ASSUME NEW f \in Filter
    PROVE  OnMap(MapFilter(f))
<1> DEFINE D == {d \in f.drill : d.column = "country"}
           m == [f EXCEPT !.ip = None, !.drill = D]
<1>1. D \in SUBSET [column : STRING, value : STRING]
  BY DEF Filter
<1>2. None \in Int
  BY DEF None
<1>3. MapFilter(f) = m
  BY DEF MapFilter
<1>4. \A d \in D : d.column = "country"
  OBVIOUS
<1> HIDE DEF D
<1>5. m \in Filter /\ m.ip = None /\ m.drill = D
  BY <1>1, <1>2 DEF Filter
<1> QED BY <1>3, <1>4, <1>5 DEF OnMap

\* The markers are the listed addresses that have a place.
LEMMA MarkersAreListed ==
    ASSUME NEW m, OnMap(m)
    PROVE  Markers(m) = {ip \in Addresses(Kept(m)) : Intel(ip).located}
<1> DEFINE W == Within(visits, m.since, m.until)
           shown(ip) == {v \in W : /\ v.ip = ip
                                   /\ SeenFilter(ip, m.seen, m.since)
                                   /\ VisitorSearch(m.terms, v, m.since, m.until)}
           here(ip) == \A d \in m.drill : Intel(ip).country = d.value
           asked(ip) == ClassFilter(m.classes, ip) /\ SignalFilter(m.signals, ip) /\ here(ip)
           clears(rows) == rows # {} /\ (m.min > 0 => Cardinality(rows) >= m.min)
<1>1. \A ip \in DOMAIN intel : Intel(ip) = intel[ip]
  BY DEF Intel, Enriched
<1>2. \A ip : Intel(ip).located => ip \in DOMAIN intel
  BY DEF Intel, Enriched, Absent
<1>3. Markers(m) = {ip \in DOMAIN intel : Intel(ip).located /\ asked(ip) /\ clears(shown(ip))}
  BY <1>1 DEF Markers, OnMap
<1>4. \A v : DrillDown(v, m.drill) <=> here(v.ip)
  BY DEF DrillDown, Column, OnMap
<1>5. ASSUME NEW ip, asked(ip) PROVE OfAddress(VisitorRows(m), ip) = shown(ip)
  <2>1. VisitorRows(m) =
          {v \in W : /\ here(v.ip)
                     /\ VisitorSearch(m.terms, v, m.since, m.until)
                     /\ ClassFilter(m.classes, v.ip)
                     /\ SignalFilter(m.signals, v.ip)
                     /\ SeenFilter(v.ip, m.seen, m.since)}
    <3> HIDE DEF here
    <3> QED BY <1>4 DEF VisitorRows, OnMap
  <2> HIDE DEF here
  <2> QED BY <1>5, <2>1 DEF OfAddress
<1>6. ASSUME NEW ip, ip \in Addresses(VisitorRows(m)) PROVE asked(ip)
  <2>1. PICK v \in VisitorRows(m) : v.ip = ip
    BY <1>6 DEF Addresses
  <2> QED BY <1>4, <2>1 DEF VisitorRows
<1>7. \A ip : ip \in Addresses(Kept(m)) <=> asked(ip) /\ clears(shown(ip))
  <2> TAKE ip
  <2> DEFINE own == OfAddress(VisitorRows(m), ip)
  <2>1. ip \in Addresses(Kept(m)) <=> clears(own)
    BY DEF Addresses, Kept, MinVisits, OfAddress
  <2>2. own # {} => asked(ip)
    BY <1>6 DEF OfAddress, Addresses
  <2>3. asked(ip) => own = shown(ip)
    BY <1>5
  <2> HIDE DEF own, asked, shown
  <2> QED BY <2>1, <2>2, <2>3
<1> HIDE DEF asked, shown, clears
<1> QED BY <1>2, <1>3, <1>7

\* The map shows the listed addresses that have a place, and its header counts them.
LEMMA MapShowsTheList ==
    ASSUME FiniteLog, KnownWell, NEW f \in Filter
    PROVE  MapAgrees(MapFilter(f), MapPage(f), Listed(MapFilter(f)))
<1> DEFINE m == MapFilter(f)
           M == Markers(m)
           placed(ips) == {ip \in ips : Intel(ip).located}
           page == MapPage(f)
           c == [m EXCEPT !.signals = {"clean"}]
           key == [ip \in M |-> Label(intel[ip].class)]
           group == GeoStats(M).group
<1>1. OnMap(m) /\ m \in Filter
  BY MapFilterNarrows DEF OnMap
<1>2. /\ c \in Filter /\ OnMap(c) /\ c.signals = {"clean"}
      /\ c.since = m.since /\ c.until = m.until /\ c.ip = m.ip /\ c.drill = m.drill
      /\ c.terms = m.terms /\ c.min = m.min /\ c.classes = m.classes /\ c.seen = m.seen
  <2> HIDE DEF m
  <2>1. m \in Filter /\ m.ip = None /\ \A d \in m.drill : d.column = "country"
    BY <1>1 DEF OnMap
  <2>2. {"clean"} \in SUBSET Signals
    BY DEF Signals
  <2>3. /\ c \in Filter /\ c.signals = {"clean"}
        /\ c.since = m.since /\ c.until = m.until /\ c.ip = m.ip /\ c.drill = m.drill
        /\ c.terms = m.terms /\ c.min = m.min /\ c.classes = m.classes /\ c.seen = m.seen
    BY <2>1, <2>2 DEF Filter
  <2> QED BY <2>1, <2>3 DEF OnMap
<1>3. /\ page.rows = M /\ page.total = Cardinality(M) /\ page.geo = GeoStats(M)
      /\ page.unmapped = IF M = {} THEN VisitorCount(m) ELSE 0
  <2> DEFINE n == VisitorCount(m)
             geo == GeoStats(M)
  <2>1. page = [rows |-> M, total |-> Cardinality(M), geo |-> geo,
                unmapped |-> IF M = {} THEN n ELSE 0]
    BY DEF MapPage
  <2> HIDE DEF page, n, geo, M
  <2> QED BY <2>1 DEF n, geo
<1> HIDE DEF m, c, page
<1>4. M = placed(Listed(m))
  BY <1>1, MarkersAreListed, ListIsKept
<1>5. IsFiniteSet(Listed(m)) /\ IsFiniteSet(M) /\ M \subseteq DOMAIN intel
  <2>1. IsFiniteSet(Listed(m))
    BY <1>1, KeptIsFinite, FiniteAddresses, ListIsKept
  <2> QED BY <1>4, <2>1, FS_Subset DEF Markers
<1>6. page.total = 0 => page.unmapped = Cardinality(Listed(m))
  <2>1. page.total = 0 => M = {}
    BY <1>3, <1>5, FS_EmptySet
  <2> QED BY <1>1, <1>3, <2>1, PagerCounts, ListIsKept
<1>7. GeoStats(M).total_ips = Sum(GeoStats(M).group)
  <2>1. /\ DOMAIN group = GroupsWithUnknown
        /\ \A g \in GroupsWithUnknown : group[g] = Cardinality({ip \in M : key[ip] = g})
    BY DEF GeoStats
  <2>2. \A ip \in M : key[ip] \in GroupsWithUnknown
    BY <1>5, OneGroup DEF KnownWell
  <2>3. GeoStats(M).total_ips = Cardinality(M)
    BY DEF GeoStats
  <2>4. IsFiniteSet(GroupsWithUnknown)
    BY FewGroups
  <2> HIDE DEF group, key, M
  <2>5. Sum(group) = Cardinality(M)
    BY <1>5, <2>1, <2>2, <2>4, CountByKey
  <2> QED BY <2>3, <2>5 DEF group
<1>8. ASSUME m.signals = {}
      PROVE  GeoStats(M).clean = Cardinality(placed(Listed(c)))
  <2> DEFINE A == {ip \in Addresses(visits) : NoSignals(ip)}
  <2>1. \A v \in visits : ByAddress(c, v.ip) <=> ByAddress(m, v.ip) /\ v.ip \in A
    <3> TAKE v \in visits
    <3>1. v.ip \in A <=> NoSignals(v.ip)
      BY DEF Addresses
    <3>2. SignalFilter({"clean"}, v.ip) <=> NoSignals(v.ip)
      BY DEF SignalFilter, SignalCondition
    <3>3. SignalFilter({}, v.ip)
      BY DEF SignalFilter
    <3> HIDE DEF A
    <3> QED BY <1>2, <1>8, <3>1, <3>2, <3>3, Zenon DEF ByAddress
  <2>2. Addresses(Kept(m)) \subseteq Addresses(visits)
    BY KeptIsFinite DEF Addresses
  <2> HIDE DEF A
  <2>3. Kept(c) = {v \in Kept(m) : v.ip \in A}
    BY <1>2, <2>1, NarrowedByAddress
  <2>4. Listed(c) = Listed(m) \cap A
    <3>1. Addresses(Kept(c)) = Addresses(Kept(m)) \cap A
      BY <2>3, AddressesAmong
    <3>2. Listed(c) = Addresses(Kept(c)) /\ Listed(m) = Addresses(Kept(m))
      BY <1>1, <1>2, ListIsKept
    <3> QED BY <3>1, <3>2
  <2>5. Listed(c) = {ip \in Listed(m) : NoSignals(ip)}
    BY <1>1, <2>2, <2>4, ListIsKept DEF A
  <2>6. \A ip \in M : NoSignals(ip) <=> /\ intel[ip].flags \cap CleanColumns = {}
                                        /\ intel[ip].tags = {}
    BY <1>5 DEF NoSignals, Intel, Enriched
  <2>7. placed(Listed(c)) = {ip \in M : /\ intel[ip].flags \cap CleanColumns = {}
                                        /\ intel[ip].tags = {}}
    BY <1>4, <2>5, <2>6
  <2> QED BY <2>7 DEF GeoStats
<1> HIDE DEF M
<1> QED BY <1>3, <1>4, <1>6, <1>7, <1>8 DEF MapAgrees, m, c, page

-----------------------------------------------------------------------------
(* One selection, many views *)

\* On every finite log, with every class labelled and no chart cut off, the views agree.
LEMMA OneSelection ==
    ASSUME FiniteLog, MomentsWell, KnownWell, \A f \in Filters : ChartFits(f)
    PROVE  ViewsAgree
<1> SUFFICES ASSUME NEW f \in Filters
             PROVE  /\ PagerAgrees(AddressesPage(f))
                    /\ ChipsAgree(f, ClassChips(f))
                    /\ ChartsAgree(f, TimelinePage(f), AddressesPage(f).rows)
                    /\ f.seen = "total" =>
                         NewNests(TimelinePage(f).activity,
                                  TimelinePage([f EXCEPT !.seen = "both"]).activity)
                    /\ MapAgrees(MapFilter(f), MapPage(f), Listed(MapFilter(f)))
  BY DEF ViewsAgree
<1>1. f \in Filter /\ ChartFits(f)
  BY QueriesAssumption DEF SelectionAssumption
<1>2. AddressesPage(f).rows = VisitorList(f) /\ AddressesPage(f).total = VisitorCount(f)
  BY DEF AddressesPage
<1>3. PagerAgrees(AddressesPage(f))
  BY <1>1, <1>2, ListIsKept DEF PagerAgrees
<1>4. ChipsAgree(f, ClassChips(f))
  BY <1>1, ChipsSayWhatTheyList
<1>5. ChartsAgree(f, TimelinePage(f), AddressesPage(f).rows)
  BY <1>1, <1>2, ChartsAddUp
<1>6. f.seen = "total" =>
         NewNests(TimelinePage(f).activity, TimelinePage([f EXCEPT !.seen = "both"]).activity)
  BY <1>1, NewIsPartOfAll
<1>7. MapAgrees(MapFilter(f), MapPage(f), Listed(MapFilter(f)))
  BY <1>1, MapShowsTheList
<1> QED BY <1>3, <1>4, <1>5, <1>6, <1>7

\* The log stays finite, its moments are numbers, and what is learnt has a class.
SelectionInv ==
  /\ FiniteLog
  /\ part = "selection" => MomentsWell /\ KnownWell

\* It holds of the empty log.
LEMMA SelectionInit == Init => SelectionInv
<1> SUFFICES ASSUME Init PROVE SelectionInv
  OBVIOUS
<1>1. visits = {} /\ intel = <<>>
  BY DEF Init
<1>2. DOMAIN intel = {}
  BY <1>1
<1> QED BY <1>1, <1>2, FS_EmptySet DEF SelectionInv, FiniteLog, MomentsWell, KnownWell

\* A visit that is recorded and a finding that is learnt keep it.
LEMMA SelectionStep ==
    ASSUME SelectionInv, [Next]_<<rowVars, part>>
    PROVE  SelectionInv'
<1>1. FiniteLog'
  BY LogGrows DEF SelectionInv, FiniteLog
<1>2. part' = part
  BY DEF Next, RecordOne, LearnOne
<1> SUFFICES ASSUME part = "selection" PROVE MomentsWell' /\ KnownWell'
  BY <1>1, <1>2 DEF SelectionInv
<1>3. MomentsWell /\ KnownWell
  BY DEF SelectionInv
<1>4. ASSUME NEW s \in Senders, NEW at \in {0, 1, 4}, Record(s[1], at, s[2])
      PROVE  MomentsWell' /\ KnownWell'
  <2> DEFINE row == Row(Cardinality(visits) + 1, s[1], at, s[2])
  <2>1. visits' = visits \union {row} /\ intel' = intel
    BY <1>4 DEF Record
  <2>2. row.at = at
    BY DEF Row
  <2> HIDE DEF row
  <2> QED BY <1>3, <2>1, <2>2 DEF MomentsWell, KnownWell
<1>5. ASSUME NEW l \in SelectionFacts, Learn(l[1], l[2])
      PROVE  MomentsWell' /\ KnownWell'
  <2>1. /\ intel' = [i \in DOMAIN intel \union {l[1]} |-> IF i = l[1] THEN l[2] ELSE intel[i]]
        /\ visits' = visits
    BY <1>5 DEF Learn
  <2>2. DOMAIN intel' = DOMAIN intel \union {l[1]}
    BY <2>1
  <2>3. \A ip \in DOMAIN intel' : intel'[ip] = IF ip = l[1] THEN l[2] ELSE intel[ip]
    BY <2>1
  <2>4. Labelled(l[2].class)
    <3>1. \/ l[2].class = Class("threats", "exploit")
          \/ l[2].class = Class("humans", "browser")
          \/ l[2].class = Class("unknown", "")
      <4> DEFINE f1 == Fact(Class("threats", "exploit"), "FR", {"is_tor"}, {"scanner"}, {"CVE"}, TRUE)
                 f2 == Fact(Class("humans", "browser"), "DE", {"is_mobile"}, {}, {"CVE"}, TRUE)
                 f3 == Fact(Class("unknown", ""), "", {"is_hosting"}, {}, {}, FALSE)
      <4>1. /\ f1.class = Class("threats", "exploit")
            /\ f2.class = Class("humans", "browser")
            /\ f3.class = Class("unknown", "")
        BY DEF Fact
      <4>2. l = <<1, f1>> \/ l = <<2, f2>> \/ l = <<2, f3>>
        BY DEF SelectionFacts
      <4> HIDE DEF f1, f2, f3
      <4>3. l[2] = f1 \/ l[2] = f2 \/ l[2] = f3
        BY <4>2
      <4> QED BY <4>1, <4>3
    <3>2. Labelled(Class("threats", "exploit"))
      BY DEF Class, Labelled, Groups, Unlabelled
    <3>3. Labelled(Class("humans", "browser"))
      BY DEF Class, Labelled, Groups, Unlabelled
    <3>4. Labelled(Class("unknown", ""))
      BY DEF Class, Labelled, Groups, Unlabelled
    <3> QED BY <3>1, <3>2, <3>3, <3>4
  <2>5. IsFiniteSet(DOMAIN intel')
    BY <1>3, <2>2, FS_AddElement DEF KnownWell
  <2> QED BY <1>3, <2>1, <2>2, <2>3, <2>4, <2>5 DEF MomentsWell, KnownWell
<1>6. CASE RecordOne
  BY <1>4, <1>6 DEF RecordOne
<1>7. CASE LearnOne
  BY <1>5, <1>7 DEF LearnOne
<1>8. CASE UNCHANGED <<rowVars, part>>
  BY <1>3, <1>8 DEF rowVars, MomentsWell, KnownWell
<1> QED BY <1>6, <1>7, <1>8 DEF Next

\* No chart reaches the ceiling on its buckets ("nothing real approaches it").
ChartsFit == part = "selection" => \A f \in Filters : ChartFits(f)

\* For every set of filters and every size of the log: as long as no chart is cut off at its
\* ceiling, the table, its pager, the chips, the charts and the map of the visitors page answer
\* for one selection.
THEOREM PagesAnswerForOneSelection ==
    Spec /\ []ChartsFit => []SelectionViewsAgree
<1>1. SelectionInv /\ ChartsFit => SelectionViewsAgree
  BY OneSelection DEF SelectionInv, ChartsFit, SelectionViewsAgree
<1>2. SelectionInv /\ [Next]_<<rowVars, part>> => SelectionInv'
  BY SelectionStep
<1> QED BY <1>1, <1>2, SelectionInit, PTL DEF Spec
=============================================================================

---------------------------- MODULE SessionsProofs ----------------------------
(***************************************************************************)
(* Sessions and incidents, for every gap, every length of a signature and  *)
(* every log that arrives in order: the bounds of a session name it, and   *)
(* the panel under an incident lists the sessions its row was counted off. *)
(*                                                                         *)
(* Both rest on one observation about cutting a chain at its silences: the *)
(* runs partition it, and a run is what lies between two starts, so a      *)
(* window that begins one gap early keeps every later start and its run up *)
(* to the window's end.  A signature is read off the first rows of a run,  *)
(* and does not change when its end is cut.                                *)
(***************************************************************************)
EXTENDS QueriesProofs

-----------------------------------------------------------------------------
(* Runs: what a chain that is cut at every long silence comes to *)

\* The order of the members, the ones before which there was silence, and the number of a
\* member: how many such there are up to it.
Before(place, y, x) ==
  \/ place[y][1] < place[x][1]
  \/ place[y][1] = place[x][1] /\ place[y][2] < place[x][2]
Starts(S, place, gap) ==
  {x \in S : \A y \in S : Before(place, y, x) => place[x][1] - place[y][1] > gap}
Reach(S, place, gap, x) == {s \in Starts(S, place, gap) : s = x \/ Before(place, s, x)}
RunOf(S, place, gap, s) == {x \in S : Reach(S, place, gap, x) = Reach(S, place, gap, s)}

\* Members have places of their own.
Placed(S, place) ==
  /\ IsFiniteSet(S)
  /\ \A x \in S : place[x][1] \in Nat /\ place[x][2] \in Nat
  /\ \A x, y \in S : place[x][1] = place[y][1] /\ place[x][2] = place[y][2] => x = y

\* The places are an order.
LEMMA PlacesAreOrdered ==
    ASSUME NEW S, NEW place, Placed(S, place)
    PROVE  /\ \A x \in S : ~ Before(place, x, x)
           /\ \A x, y \in S : x = y \/ Before(place, x, y) \/ Before(place, y, x)
           /\ \A x, y \in S : Before(place, x, y) => ~ Before(place, y, x)
           /\ \A x, y, z \in S : Before(place, x, y) /\ Before(place, y, z) => Before(place, x, z)
           /\ \A x, y \in S : Before(place, x, y) => place[x][1] <= place[y][1]
BY DEF Placed, Before

\* Some member of a part comes first.
LEMMA FirstPlaced ==
    ASSUME NEW S, NEW place, Placed(S, place), NEW T, T \subseteq S, T # {}
    PROVE  \E x \in T : \A y \in T : y = x \/ Before(place, x, y)
<1> DEFINE moments == {place[x][1] : x \in T}
           m == Least(moments)
           ties == {place[x][2] : x \in {y \in T : place[y][1] = m}}
           t == Least(ties)
<1>1. \A x \in T : place[x][1] \in Nat /\ place[x][2] \in Nat
  BY DEF Placed
<1>2. m \in moments /\ \A n \in moments : m <= n
  <2>1. moments \subseteq Nat /\ moments # {}
    BY <1>1
  <2> HIDE DEF moments
  <2> QED BY <2>1, FirstOfChain
<1> HIDE DEF m
<1>3. t \in ties /\ \A n \in ties : t <= n
  <2>1. ties \subseteq Nat /\ ties # {}
    BY <1>1, <1>2
  <2> HIDE DEF ties
  <2> QED BY <2>1, FirstOfChain
<1> HIDE DEF t
<1>4. PICK x \in T : place[x][1] = m /\ place[x][2] = t
  BY <1>3
<1>5. ASSUME NEW y \in T PROVE y = x \/ Before(place, x, y)
  <2>1. place[y][1] \in moments /\ m <= place[y][1]
    BY <1>2
  <2>2. place[y][1] = m => t <= place[y][2]
    BY <1>3
  <2>3. place[y][1] = m /\ place[y][2] = t => y = x
    BY <1>4 DEF Placed
  <2> HIDE DEF moments, ties
  <2>4. m \in Nat /\ t \in Nat /\ place[y][1] \in Nat /\ place[y][2] \in Nat
    BY <1>1, <1>4
  <2> QED BY <1>4, <2>1, <2>2, <2>3, <2>4 DEF Before
<1> QED BY <1>5

\* And some member comes last.
LEMMA LastPlaced ==
    ASSUME NEW S, NEW place, Placed(S, place), NEW T, T \subseteq S, T # {}
    PROVE  \E x \in T : \A y \in T : y = x \/ Before(place, y, x)
<1> DEFINE moments == {place[x][1] : x \in T}
           m == Greatest(moments)
           late == {y \in T : place[y][1] = m}
           ties == {place[x][2] : x \in late}
           t == Greatest(ties)
<1>1. \A x \in T : place[x][1] \in Nat /\ place[x][2] \in Nat
  BY DEF Placed
<1>2. IsFiniteSet(T) /\ \A U : U \subseteq T => IsFiniteSet(U)
  BY FS_Subset DEF Placed
<1>3. m \in moments /\ \A n \in moments : n <= m
  <2> DEFINE f == [x \in T |-> place[x][1]]
  <2>1. moments = {f[x] : x \in T} /\ DOMAIN f = T
    OBVIOUS
  <2>2. moments \subseteq Nat /\ moments # {}
    BY <1>1
  <2> HIDE DEF moments, f
  <2>3. IsFiniteSet(moments)
    BY <1>2, <2>1, ImageCount
  <2> QED BY <2>2, <2>3, LastOf
<1> HIDE DEF m
<1>4. t \in ties /\ \A n \in ties : n <= t
  <2> DEFINE f == [x \in late |-> place[x][2]]
  <2>1. ties = {f[x] : x \in late} /\ DOMAIN f = late /\ late \subseteq T
    OBVIOUS
  <2>2. ties \subseteq Nat /\ ties # {}
    BY <1>1, <1>3
  <2> HIDE DEF ties, f, late
  <2>3. IsFiniteSet(ties)
    BY <1>2, <2>1, ImageCount
  <2> QED BY <2>2, <2>3, LastOf
<1> HIDE DEF t
<1>5. PICK x \in T : place[x][1] = m /\ place[x][2] = t
  BY <1>4
<1>6. ASSUME NEW y \in T PROVE y = x \/ Before(place, y, x)
  <2>1. place[y][1] \in moments /\ place[y][1] <= m
    BY <1>3
  <2>2. place[y][1] = m => place[y][2] <= t
    BY <1>4
  <2>3. place[y][1] = m /\ place[y][2] = t => y = x
    BY <1>5 DEF Placed
  <2> HIDE DEF moments, ties, late
  <2>4. m \in Nat /\ t \in Nat /\ place[y][1] \in Nat /\ place[y][2] \in Nat
    BY <1>1, <1>5
  <2> QED BY <1>5, <2>1, <2>2, <2>3, <2>4 DEF Before
<1> QED BY <1>6

\* Every member follows a start, and the last one it follows reaches what it reaches.
LEMMA StartOf ==
    ASSUME NEW S, NEW place, Placed(S, place), NEW gap, NEW x \in S
    PROVE  \E s \in Starts(S, place, gap) :
             /\ s = x \/ Before(place, s, x)
             /\ Reach(S, place, gap, x) = Reach(S, place, gap, s)
<1> DEFINE R == Reach(S, place, gap, x)
           T == Starts(S, place, gap)
<1>1. T \subseteq S /\ R \subseteq T /\ \A s \in R : s = x \/ Before(place, s, x)
  BY DEF Starts, Reach
<1>2. R # {}
  <2>1. PICK f \in S : \A y \in S : y = f \/ Before(place, f, y)
    BY FirstPlaced
  <2>2. \A y \in S : ~ Before(place, y, f)
    BY <2>1, PlacesAreOrdered
  <2>3. f \in T
    BY <2>2 DEF Starts
  <2>4. f = x \/ Before(place, f, x)
    BY <2>1
  <2> QED BY <2>3, <2>4 DEF Reach
<1>3. PICK s \in R : \A t \in R : t = s \/ Before(place, t, s)
  <2>1. R \subseteq S
    BY <1>1
  <2> HIDE DEF R
  <2> QED BY <1>2, <2>1, LastPlaced
<1>4. ASSUME NEW t \in T PROVE (t = x \/ Before(place, t, x)) <=> (t = s \/ Before(place, t, s))
  <2>1. CASE t = x \/ Before(place, t, x)
    <3>1. t \in R
      BY <2>1 DEF Reach
    <3> QED BY <1>3, <2>1, <3>1
  <2>2. CASE t = s \/ Before(place, t, s)
    <3>1. s = x \/ Before(place, s, x)
      BY <1>1
    <3>2. s \in S /\ t \in S
      BY <1>1
    <3> QED BY <2>2, <3>1, <3>2, PlacesAreOrdered
  <2> QED BY <2>1, <2>2
<1>5. R = Reach(S, place, gap, s)
  BY <1>4 DEF Reach
<1> QED BY <1>1, <1>5

\* What is reached grows along the order.
LEMMA ReachGrows ==
    ASSUME NEW S, NEW place, Placed(S, place), NEW gap, NEW x \in S, NEW y \in S,
           Before(place, x, y)
    PROVE  Reach(S, place, gap, x) \subseteq Reach(S, place, gap, y)
<1>1. Starts(S, place, gap) \subseteq S
  BY DEF Starts
<1> QED BY <1>1, PlacesAreOrdered DEF Reach

\* A run begins with its start and lies behind it; members between two of a run are of it;
\* and before a member of another run there was silence.
LEMMA RunFacts ==
    ASSUME NEW S, NEW place, Placed(S, place), NEW gap \in Nat,
           NEW s \in Starts(S, place, gap), NEW R, R = RunOf(S, place, gap, s)
    PROVE  /\ s \in R /\ R \subseteq S
           /\ \A x \in R : x = s \/ Before(place, s, x)
           /\ \A x, z \in R, y \in S : Before(place, x, y) /\ Before(place, y, z) => y \in R
           /\ \A x \in R, y \in S \ R :
                Before(place, x, y) => \A z \in R : place[y][1] - place[z][1] > gap
           /\ \A x \in R, y \in S \ R :
                Before(place, y, x) => \A z \in R : place[z][1] - place[y][1] > gap
<1> DEFINE T == Starts(S, place, gap)
           at(x) == Reach(S, place, gap, x)
<1>1. T \subseteq S /\ s \in S
  BY DEF Starts
<1>2. R \subseteq S /\ s \in R /\ \A x \in S : x \in R <=> at(x) = at(s)
  BY <1>1 DEF RunOf
<1>3. ASSUME NEW x \in R PROVE x = s \/ Before(place, s, x)
  <2>1. s \in at(s)
    BY DEF Reach
  <2>2. s \in at(x)
    BY <1>2, <2>1
  <2> QED BY <2>2 DEF Reach
<1>4. ASSUME NEW x \in R, NEW z \in R, NEW y \in S, Before(place, x, y), Before(place, y, z)
      PROVE  y \in R
  <2>1. at(x) \subseteq at(y) /\ at(y) \subseteq at(z)
    BY <1>2, <1>4, ReachGrows
  <2> QED BY <1>2, <2>1
<1>5. ASSUME NEW x \in S, NEW y \in S, Before(place, x, y), at(x) # at(y)
      PROVE  place[y][1] - place[x][1] > gap
  <2>1. at(x) \subseteq at(y)
    BY <1>5, ReachGrows
  <2>2. PICK t \in at(y) : t \notin at(x)
    BY <1>5, <2>1
  <2>3. t \in T /\ t \in S /\ (t = y \/ Before(place, t, y)) /\ ~ (t = x \/ Before(place, t, x))
    BY <1>1, <2>2 DEF Reach
  <2>4. Before(place, x, t)
    BY <2>3, PlacesAreOrdered
  <2>5. place[t][1] - place[x][1] > gap
    BY <2>3, <2>4 DEF Starts
  <2>6. place[t][1] <= place[y][1]
    BY <2>3, PlacesAreOrdered DEF Placed
  <2>7. place[x][1] \in Nat /\ place[y][1] \in Nat /\ place[t][1] \in Nat
    BY <2>3 DEF Placed
  <2> QED BY <2>5, <2>6, <2>7
<1>6. ASSUME NEW x \in R, NEW y \in S \ R, Before(place, x, y), NEW z \in R
      PROVE  place[y][1] - place[z][1] > gap
  <2>1. z \in S /\ y # z /\ at(z) # at(y)
    BY <1>2, <1>6
  <2>2. ~ Before(place, y, z)
    BY <1>4, <1>6
  <2>3. Before(place, z, y)
    BY <2>1, <2>2, PlacesAreOrdered
  <2> QED BY <1>5, <2>1, <2>3
<1>7. ASSUME NEW x \in R, NEW y \in S \ R, Before(place, y, x), NEW z \in R
      PROVE  place[z][1] - place[y][1] > gap
  <2>1. z \in S /\ y # z /\ at(z) # at(y)
    BY <1>2, <1>7
  <2>2. ~ Before(place, z, y)
    BY <1>4, <1>7
  <2>3. Before(place, y, z)
    BY <2>1, <2>2, PlacesAreOrdered
  <2> QED BY <1>5, <2>1, <2>3
<1> HIDE DEF at
<1> QED BY <1>2, <1>3, <1>4, <1>6, <1>7

\* Starts that reach the same are one.
LEMMA OneStart ==
    ASSUME NEW S, NEW place, Placed(S, place), NEW gap,
           NEW s \in Starts(S, place, gap), NEW t \in Starts(S, place, gap),
           Reach(S, place, gap, s) = Reach(S, place, gap, t)
    PROVE  s = t
<1>1. s \in S /\ t \in S
  BY DEF Starts
<1>2. s \in Reach(S, place, gap, t) /\ t \in Reach(S, place, gap, s)
  BY DEF Reach
<1>3. (s = t \/ Before(place, s, t)) /\ (t = s \/ Before(place, t, s))
  BY <1>2 DEF Reach
<1> QED BY <1>1, <1>3, PlacesAreOrdered

\* Members have the same number exactly if they reach the same starts.
LEMMA SameNumber ==
    ASSUME NEW S, NEW place, Placed(S, place), NEW gap, NEW x \in S, NEW y \in S
    PROVE  Cardinality(Reach(S, place, gap, x)) = Cardinality(Reach(S, place, gap, y)) <=>
             Reach(S, place, gap, x) = Reach(S, place, gap, y)
<1> DEFINE P == Reach(S, place, gap, x)
           Q == Reach(S, place, gap, y)
<1>1. IsFiniteSet(P) /\ IsFiniteSet(Q)
  <2>1. P \subseteq S /\ Q \subseteq S
    BY DEF Reach, Starts
  <2> QED BY <2>1, FS_Subset DEF Placed
<1>2. P \subseteq Q \/ Q \subseteq P
  <2>1. x = y \/ Before(place, x, y) \/ Before(place, y, x)
    BY PlacesAreOrdered
  <2> QED BY <2>1, ReachGrows
<1> HIDE DEF P, Q
<1>3. Cardinality(P) = Cardinality(Q) => P = Q
  BY <1>1, <1>2, FS_Subset
<1> QED BY <1>3 DEF P, Q

\* The starts are numbered one after the other.
LEMMA StartsAreNumbered ==
    ASSUME NEW S, NEW place, Placed(S, place), NEW gap
    PROVE  /\ IsFiniteSet(Starts(S, place, gap))
           /\ {Cardinality(Reach(S, place, gap, s)) : s \in Starts(S, place, gap)}
                = 1 .. Cardinality(Starts(S, place, gap))
<1> DEFINE T == Starts(S, place, gap)
           N == Cardinality(T)
           f == [s \in T |-> Cardinality(Reach(S, place, gap, s))]
           I == {f[s] : s \in T}
<1>1. T \subseteq S /\ IsFiniteSet(T) /\ N \in Nat
  <2>1. T \subseteq S
    BY DEF Starts
  <2>2. IsFiniteSet(T)
    BY <2>1, FS_Subset DEF Placed
  <2> QED BY <2>1, <2>2, FS_CardinalityType
<1>2. ASSUME NEW s \in T PROVE f[s] \in 1 .. N
  <2> DEFINE P == Reach(S, place, gap, s)
  <2>1. P \subseteq T /\ s \in P
    BY DEF Reach
  <2> HIDE DEF P, T
  <2>2. Cardinality(P) \in Nat /\ Cardinality(P) <= Cardinality(T) /\ Cardinality(P) # 0
    BY <1>1, <2>1, FS_Subset, FS_CardinalityType, FS_EmptySet
  <2>3. f[s] = Cardinality(P)
    BY DEF P
  <2> HIDE DEF f
  <2> QED BY <1>1, <2>2, <2>3
<1>3. \A s, t \in T : f[s] = f[t] => s = t
  <2> SUFFICES ASSUME NEW s \in T, NEW t \in T, f[s] = f[t] PROVE s = t
    OBVIOUS
  <2>1. Cardinality(Reach(S, place, gap, s)) = Cardinality(Reach(S, place, gap, t))
    OBVIOUS
  <2>2. Reach(S, place, gap, s) = Reach(S, place, gap, t)
    BY <1>1, <2>1, SameNumber
  <2> QED BY <2>2, OneStart
<1>4. DOMAIN f = T
  OBVIOUS
<1>5. I = {Cardinality(Reach(S, place, gap, s)) : s \in T}
  OBVIOUS
<1> HIDE DEF f, T, N
<1>6. Cardinality(I) = Cardinality(T)
  BY <1>1, <1>3, <1>4, ImageCount
<1>7. I \subseteq 1 .. N
  BY <1>2
<1>8. IsFiniteSet(1 .. N) /\ Cardinality(1 .. N) = N
  BY <1>1, FS_Interval
<1> HIDE DEF I
<1>9. I = 1 .. N
  BY <1>6, <1>7, <1>8, FS_Subset DEF N
<1> QED BY <1>1, <1>5, <1>9 DEF T, N

\* What is cut by number are the runs of the starts, one each.
LEMMA ChainIsRuns ==
    ASSUME NEW S, NEW place, Placed(S, place), NEW gap
    PROVE  /\ Chained(S, place, gap) = {RunOf(S, place, gap, s) : s \in Starts(S, place, gap)}
           /\ IsFiniteSet(Chained(S, place, gap))
           /\ Cardinality(Chained(S, place, gap)) = Cardinality(Starts(S, place, gap))
<1> DEFINE T == Starts(S, place, gap)
           at(x) == Reach(S, place, gap, x)
           number(x) == Cardinality(at(x))
           N == Cardinality(T)
           run == [s \in T |-> RunOf(S, place, gap, s)]
<1>1. Chained(S, place, gap) = {{x \in S : number(x) = n} : n \in 1 .. N}
  BY Zenon DEF Chained, Starts, Reach, Before
<1>2. IsFiniteSet(T) /\ {number(s) : s \in T} = 1 .. N
  BY StartsAreNumbered
<1>3. T \subseteq S
  BY DEF Starts
<1>4. \A s \in T : {x \in S : number(x) = number(s)} = RunOf(S, place, gap, s)
  <2> TAKE s \in T
  <2>1. \A x \in S : number(x) = number(s) <=> at(x) = at(s)
    BY <1>3, SameNumber
  <2> HIDE DEF number, at
  <2> QED BY <2>1 DEF RunOf, at
<1>5. Chained(S, place, gap) = {RunOf(S, place, gap, s) : s \in T}
  <2> DEFINE cut == [n \in 1 .. N |-> {x \in S : number(x) = n}]
             of == [s \in T |-> number(s)]
  <2>1. Chained(S, place, gap) = {cut[n] : n \in 1 .. N}
    BY <1>1, Zenon
  <2>2. {of[s] : s \in T} = 1 .. N
    BY <1>2, Zenon
  <2>3. \A s \in T : of[s] \in 1 .. N /\ cut[of[s]] = RunOf(S, place, gap, s)
    <3> TAKE s \in T
    <3>1. of[s] = number(s) /\ of[s] \in 1 .. N
      BY <2>2, Zenon
    <3>2. cut[of[s]] = {x \in S : number(x) = number(s)}
      BY <3>1, Zenon
    <3> QED BY <1>4, <3>1, <3>2, Zenon
  <2> HIDE DEF cut, of, T, N
  <2>4. \A C : (\E n \in 1 .. N : C = cut[n]) <=> \E s \in T : C = RunOf(S, place, gap, s)
    BY <2>2, <2>3, Zenon
  <2> QED BY <2>1, <2>4, Zenon
<1>6. {run[s] : s \in T} = {RunOf(S, place, gap, s) : s \in T} /\ DOMAIN run = T
  OBVIOUS
<1>7. \A s, t \in T : run[s] = run[t] => s = t
  <2> SUFFICES ASSUME NEW s \in T, NEW t \in T, run[s] = run[t] PROVE s = t
    OBVIOUS
  <2>1. s \in RunOf(S, place, gap, s) /\ RunOf(S, place, gap, s) = RunOf(S, place, gap, t)
    BY <1>3 DEF RunOf
  <2>2. at(s) = at(t)
    BY <2>1 DEF RunOf
  <2> QED BY <2>2, OneStart
<1> HIDE DEF run, T
<1>8. IsFiniteSet({run[s] : s \in T}) /\ Cardinality({run[s] : s \in T}) = Cardinality(T)
  BY <1>2, <1>6, <1>7, ImageCount
<1> QED BY <1>5, <1>6, <1>8 DEF T

\* Every member is in a run, and in one only.
LEMMA RunsPartition ==
    ASSUME NEW S, NEW place, Placed(S, place), NEW gap
    PROVE  /\ \A x \in S : \E R \in Chained(S, place, gap) : x \in R
           /\ \A Q, R \in Chained(S, place, gap) : \A x : x \in Q /\ x \in R => Q = R
<1>1. ASSUME NEW x \in S PROVE \E R \in Chained(S, place, gap) : x \in R
  <2>1. PICK s \in Starts(S, place, gap) : Reach(S, place, gap, x) = Reach(S, place, gap, s)
    BY StartOf
  <2>2. x \in RunOf(S, place, gap, s)
    BY <2>1 DEF RunOf
  <2> QED BY <2>2, ChainIsRuns
<1>2. ASSUME NEW s \in Starts(S, place, gap), NEW t \in Starts(S, place, gap),
             NEW x, x \in RunOf(S, place, gap, s), x \in RunOf(S, place, gap, t)
      PROVE  RunOf(S, place, gap, s) = RunOf(S, place, gap, t)
  BY <1>2 DEF RunOf
<1>3. ASSUME NEW Q \in Chained(S, place, gap), NEW R \in Chained(S, place, gap),
             NEW x, x \in Q, x \in R
      PROVE  Q = R
  <2>1. PICK s \in Starts(S, place, gap) : Q = RunOf(S, place, gap, s)
    BY ChainIsRuns
  <2>2. PICK t \in Starts(S, place, gap) : R = RunOf(S, place, gap, t)
    BY ChainIsRuns
  <2> QED BY <1>2, <1>3, <2>1, <2>2
<1> QED BY <1>1, <1>3

\* A run is what follows its start up to the next one.
LEMMA RunIsBetween ==
    ASSUME NEW S, NEW place, Placed(S, place), NEW gap, NEW s \in Starts(S, place, gap),
           NEW x \in S
    PROVE  x \in RunOf(S, place, gap, s) <=>
             /\ s = x \/ Before(place, s, x)
             /\ \A t \in Starts(S, place, gap) :
                  t = x \/ Before(place, t, x) => t = s \/ Before(place, t, s)
<1>1. s \in S /\ s \in Reach(S, place, gap, s)
  BY DEF Starts, Reach
<1>2. ASSUME x \in RunOf(S, place, gap, s)
      PROVE  /\ s = x \/ Before(place, s, x)
             /\ \A t \in Starts(S, place, gap) :
                  t = x \/ Before(place, t, x) => t = s \/ Before(place, t, s)
  <2>1. Reach(S, place, gap, x) = Reach(S, place, gap, s)
    BY <1>2 DEF RunOf
  <2>2. s \in Reach(S, place, gap, x)
    BY <1>1, <2>1
  <2> QED BY <2>1, <2>2 DEF Reach
<1>3. ASSUME s = x \/ Before(place, s, x),
             \A t \in Starts(S, place, gap) :
               t = x \/ Before(place, t, x) => t = s \/ Before(place, t, s)
      PROVE  x \in RunOf(S, place, gap, s)
  <2>1. Reach(S, place, gap, s) \subseteq Reach(S, place, gap, x)
    BY <1>1, <1>3, ReachGrows
  <2>2. Reach(S, place, gap, x) \subseteq Reach(S, place, gap, s)
    BY <1>3 DEF Reach
  <2> QED BY <2>1, <2>2 DEF RunOf
<1> QED BY <1>2, <1>3

\* W is the part of S from one gap before `from` up to `hi`.
CutOut(S, place, gap, from, hi, W, q) ==
  /\ W = {x \in S : from - gap <= place[x][1] /\ place[x][1] < hi}
  /\ \A x \in W : q[x] = place[x]

\* Cut there, what starts no earlier than `from` starts where it did, and its run is the same
\* up to the cut: the silence before a start lies inside.
LEMMA CutKeepsRuns ==
    ASSUME NEW S, NEW place, Placed(S, place), NEW gap \in Nat, NEW from \in Nat, NEW hi \in Nat,
           NEW W, NEW q, CutOut(S, place, gap, from, hi, W, q)
    PROVE  /\ Placed(W, q)
           /\ \A s \in W : from <= place[s][1] =>
                /\ s \in Starts(W, q, gap) <=> s \in Starts(S, place, gap)
                /\ s \in Starts(S, place, gap) =>
                     RunOf(W, q, gap, s) = RunOf(S, place, gap, s) \cap W
<1> DEFINE T == Starts(S, place, gap)
           U == Starts(W, q, gap)
<1>1. /\ W \subseteq S /\ \A x \in W : q[x] = place[x]
      /\ \A x \in S : x \in W <=> from - gap <= place[x][1] /\ place[x][1] < hi
      /\ \A x \in S : place[x][1] \in Nat
  BY DEF CutOut, Placed
<1>2. Placed(W, q)
  <2>1. IsFiniteSet(W)
    BY <1>1, FS_Subset DEF Placed
  <2>2. \A x \in W : q[x][1] \in Nat /\ q[x][2] \in Nat
    BY <1>1 DEF Placed
  <2>3. \A x, y \in W : q[x][1] = q[y][1] /\ q[x][2] = q[y][2] => x = y
    BY <1>1 DEF Placed
  <2> QED BY <2>1, <2>2, <2>3 DEF Placed
<1>3. \A x, y \in W : Before(q, x, y) <=> Before(place, x, y)
  BY <1>1 DEF Before
<1>4. \A x, y \in S : Before(place, x, y) => place[x][1] <= place[y][1]
  BY PlacesAreOrdered
<1>5. \A s \in W : s \in T => s \in U
  BY <1>1, <1>3 DEF Starts
<1>6. ASSUME NEW s \in W, from <= place[s][1], s \in U PROVE s \in T
  <2>1. ASSUME NEW y \in S, Before(place, y, s) PROVE place[s][1] - place[y][1] > gap
    <3>1. CASE y \in W
      <4>1. Before(q, y, s)
        BY <1>3, <2>1, <3>1
      <4>2. q[s][1] - q[y][1] > gap
        BY <1>6, <3>1, <4>1 DEF Starts
      <4> QED BY <1>1, <3>1, <4>2
    <3>2. CASE y \notin W
      <4>1. place[y][1] <= place[s][1] /\ place[s][1] < hi
        BY <1>1, <1>4, <2>1
      <4>2. place[s][1] \in Nat /\ place[y][1] \in Nat
        BY <1>1
      <4>3. ~ (from - gap <= place[y][1])
        BY <1>1, <3>2, <4>1, <4>2
      <4> QED BY <1>6, <4>2, <4>3
    <3> QED BY <3>1, <3>2
  <2> QED BY <1>1, <2>1 DEF Starts
<1>7. ASSUME NEW s \in W, from <= place[s][1], s \in T, NEW x \in W
      PROVE  x \in RunOf(W, q, gap, s) <=> x \in RunOf(S, place, gap, s)
  <2>1. s \in U /\ s \in S /\ x \in S
    BY <1>1, <1>5, <1>7
  <2>2. (s = x \/ Before(q, s, x)) <=> (s = x \/ Before(place, s, x))
    BY <1>3
  <2>3. ASSUME \A t \in T : t = x \/ Before(place, t, x) => t = s \/ Before(place, t, s),
               NEW t \in U, t = x \/ Before(q, t, x)
        PROVE  t = s \/ Before(q, t, s)
    <3>1. t \in W /\ t \in S
      BY <1>1 DEF Starts
    <3>2. t = x \/ Before(place, t, x)
      BY <1>3, <2>3, <3>1
    <3>3. CASE from <= place[t][1]
      <4>1. t \in T
        BY <1>6, <3>1, <3>3
      <4> QED BY <1>3, <2>3, <3>1, <3>2, <4>1
    <3>4. CASE ~ (from <= place[t][1])
      <4>1. place[t][1] < place[s][1]
        BY <1>1, <1>7, <3>1, <3>4
      <4> QED BY <1>1, <3>1, <4>1 DEF Before
    <3> QED BY <3>3, <3>4
  <2>4. ASSUME \A t \in U : t = x \/ Before(q, t, x) => t = s \/ Before(q, t, s),
               NEW t \in T, t = x \/ Before(place, t, x)
        PROVE  t = s \/ Before(place, t, s)
    <3>1. t \in S
      BY DEF Starts
    <3>2. place[t][1] <= place[x][1] /\ place[x][1] < hi
      BY <1>1, <1>4, <2>1, <2>4, <3>1
    <3>3. place[t][1] \in Nat /\ place[x][1] \in Nat /\ place[s][1] \in Nat
      BY <1>1, <2>1, <3>1
    <3>4. CASE t \in W
      <4>1. t \in U
        BY <1>5, <3>4
      <4> QED BY <1>3, <2>4, <3>4, <4>1
    <3>5. CASE t \notin W
      <4>1. ~ (from - gap <= place[t][1])
        BY <1>1, <3>1, <3>2, <3>3, <3>5
      <4>2. place[t][1] < place[s][1]
        BY <1>7, <3>3, <4>1
      <4> QED BY <4>2 DEF Before
    <3> QED BY <3>4, <3>5
  <2>5. x \in RunOf(W, q, gap, s) <=>
          /\ s = x \/ Before(q, s, x)
          /\ \A t \in U : t = x \/ Before(q, t, x) => t = s \/ Before(q, t, s)
    BY <1>2, <2>1, RunIsBetween
  <2>6. x \in RunOf(S, place, gap, s) <=>
          /\ s = x \/ Before(place, s, x)
          /\ \A t \in T : t = x \/ Before(place, t, x) => t = s \/ Before(place, t, s)
    BY <1>7, <2>1, RunIsBetween
  <2> HIDE DEF T, U
  <2>7. (\A t \in U : t = x \/ Before(q, t, x) => t = s \/ Before(q, t, s)) <=>
          \A t \in T : t = x \/ Before(place, t, x) => t = s \/ Before(place, t, s)
    BY <2>3, <2>4
  <2> QED BY <2>2, <2>5, <2>6, <2>7
<1>8. ASSUME NEW s \in W, from <= place[s][1], s \in T
      PROVE  RunOf(W, q, gap, s) = RunOf(S, place, gap, s) \cap W
  <2>1. RunOf(W, q, gap, s) \subseteq W
    BY DEF RunOf
  <2> QED BY <1>7, <1>8, <2>1
<1> QED BY <1>2, <1>5, <1>6, <1>8

-----------------------------------------------------------------------------
(* The sessions of an address *)

\* The log in its order: every row has its number, later rows the greater ones.
OrderedLog ==
  /\ FiniteLog
  /\ \A v \in visits : v.id \in Nat /\ v.at \in Nat /\ v.ip \in Nat
  /\ \A v, w \in visits : v.id = w.id => v = w
  /\ \A v, w \in visits : v.at < w.at => v.id < w.id

Places(own) == [v \in own |-> <<v.at, v.id>>]

\* Rows of the log have places of their own.
LEMMA RowsArePlaced ==
    ASSUME OrderedLog, NEW own, own \subseteq visits
    PROVE  /\ Placed(own, Places(own))
           /\ \A v \in own : Places(own)[v][1] = v.at /\ Places(own)[v][2] = v.id
<1>1. \A v \in own : Places(own)[v][1] = v.at /\ Places(own)[v][2] = v.id
  BY DEF Places
<1>2. IsFiniteSet(own)
  BY FS_Subset DEF OrderedLog, FiniteLog
<1>3. \A v \in own : Places(own)[v][1] \in Nat /\ Places(own)[v][2] \in Nat
  BY <1>1 DEF OrderedLog
<1>4. \A v, w \in own : Places(own)[v][1] = Places(own)[w][1]
                        /\ Places(own)[v][2] = Places(own)[w][2] => v = w
  BY <1>1 DEF OrderedLog
<1> QED BY <1>1, <1>2, <1>3, <1>4 DEF Placed

\* The bounds of a run are the first and the last moment of it.
LEMMA RunSpan ==
    ASSUME OrderedLog, NEW R, R \subseteq visits, R # {}
    PROVE  /\ Started(R) \in Nat /\ Ended(R) \in Nat
           /\ \A v \in R : Started(R) <= v.at /\ v.at <= Ended(R)
           /\ \E v \in R : v.at = Started(R)
           /\ \E v \in R : v.at = Ended(R)
<1> DEFINE moments == {v.at : v \in R}
           f == [v \in R |-> v.at]
<1>1. moments \subseteq Nat /\ moments # {} /\ \A n : n \in moments <=> \E v \in R : n = v.at
  BY DEF OrderedLog
<1>2. IsFiniteSet(moments)
  <2>1. IsFiniteSet(R)
    BY FS_Subset DEF OrderedLog, FiniteLog
  <2>2. moments = {f[v] : v \in R} /\ DOMAIN f = R
    OBVIOUS
  <2> HIDE DEF moments, f
  <2> QED BY <2>1, <2>2, ImageCount
<1> HIDE DEF moments
<1>3. Least(moments) \in moments /\ \A n \in moments : Least(moments) <= n
  BY <1>1, FirstOfChain
<1>4. Greatest(moments) \in moments /\ \A n \in moments : n <= Greatest(moments)
  BY <1>1, <1>2, LastOf
<1>5. Started(R) = Least(moments) /\ Ended(R) = Greatest(moments)
  BY DEF Started, Ended, moments
<1> DEFINE l == Least(moments)
           g == Greatest(moments)
<1>6. l \in Nat /\ g \in Nat /\ \A v \in R : l <= v.at /\ v.at <= g
  BY <1>1, <1>3, <1>4
<1>7. (\E v \in R : v.at = l) /\ \E v \in R : v.at = g
  BY <1>1, <1>3, <1>4
<1> HIDE DEF l, g
<1> QED BY <1>5, <1>6, <1>7 DEF l, g

\* Each run begins at a start, and its bounds take in its own rows and no other.
LEMMA RunIsItsWindow ==
    ASSUME OrderedLog, NEW rows, rows \subseteq visits, NEW ip, NEW R \in Runs(rows, ip),
           SessionGap \in Nat
    PROVE  /\ R \subseteq OfAddress(rows, ip) /\ R # {} /\ IsFiniteSet(R)
           /\ \A v \in OfAddress(rows, ip) :
                Started(R) <= v.at /\ v.at <= Ended(R) => v \in R
           /\ \E s \in Starts(OfAddress(rows, ip), Places(OfAddress(rows, ip)), SessionGap) :
                /\ R = RunOf(OfAddress(rows, ip), Places(OfAddress(rows, ip)), SessionGap, s)
                /\ s.at = Started(R)
<1> DEFINE own == OfAddress(rows, ip)
           place == Places(own)
<1>1. own \subseteq visits
  BY DEF OfAddress
<1>2. Placed(own, place) /\ \A v \in own : place[v][1] = v.at /\ place[v][2] = v.id
  BY <1>1, RowsArePlaced
<1>3. Runs(rows, ip) = Chained(own, place, SessionGap)
  BY DEF Runs, Places
<1> HIDE DEF own, place
<1>4. PICK s \in Starts(own, place, SessionGap) : R = RunOf(own, place, SessionGap, s)
  BY <1>2, <1>3, ChainIsRuns
<1>5. /\ s \in R /\ R \subseteq own
      /\ \A x \in R : x = s \/ Before(place, s, x)
      /\ \A x \in R, y \in own \ R :
           Before(place, x, y) => \A z \in R : place[y][1] - place[z][1] > SessionGap
      /\ \A x \in R, y \in own \ R :
           Before(place, y, x) => \A z \in R : place[z][1] - place[y][1] > SessionGap
  BY <1>2, <1>4, RunFacts
<1>6. /\ Started(R) \in Nat /\ Ended(R) \in Nat
      /\ \A v \in R : Started(R) <= v.at /\ v.at <= Ended(R)
      /\ \E v \in R : v.at = Started(R)
      /\ \E v \in R : v.at = Ended(R)
  BY <1>1, <1>5, RunSpan
<1>7. \A v \in own : v.at \in Nat
  BY <1>1 DEF OrderedLog
<1>8. s.at = Started(R)
  <2>1. PICK v \in R : v.at = Started(R)
    BY <1>6
  <2>2. s.at <= v.at
    <3>1. v = s \/ Before(place, s, v)
      BY <1>5
    <3> QED BY <1>2, <1>5, <1>7, <3>1, PlacesAreOrdered
  <2>3. s.at \in Nat /\ Started(R) <= s.at
    BY <1>5, <1>6, <1>7
  <2> QED BY <1>6, <2>1, <2>2, <2>3
<1>9. ASSUME NEW y \in own, Started(R) <= y.at, y.at <= Ended(R), y \notin R PROVE FALSE
  <2>1. PICK z \in R : z.at = Ended(R)
    BY <1>6
  <2>2. s \in own /\ z \in own /\ y.at \in Nat
    BY <1>5, <1>7
  <2>3. s # y
    BY <1>5, <1>9
  <2>4. CASE Before(place, s, y)
    <3>1. y.at - z.at > SessionGap
      BY <1>2, <1>5, <1>9, <2>1, <2>2, <2>4
    <3> QED BY <1>6, <1>9, <2>1, <2>2, <3>1
  <2>5. CASE Before(place, y, s)
    <3>1. s.at - y.at > SessionGap
      BY <1>2, <1>5, <1>9, <2>2, <2>5
    <3> QED BY <1>6, <1>8, <1>9, <2>2, <3>1
  <2> QED BY <1>2, <2>2, <2>3, <2>4, <2>5, PlacesAreOrdered
<1>10. IsFiniteSet(R)
  BY <1>1, <1>5, FS_Subset DEF OrderedLog, FiniteLog
<1> QED BY <1>4, <1>5, <1>8, <1>9, <1>10 DEF own, place

\* A rule of that chain.
Named(key, holds) == [key |-> key, holds |-> holds]

\* Its parts.
LEMMA NamedParts ==
    /\ \A key, holds : Named(key, holds).key = key
    /\ \A key, holds : Named(key, holds).holds <=> holds
BY Zenon DEF Named

\* Seven of them are its seven places.
LEMMA SevenRules ==
    ASSUME NEW a, NEW b, NEW c, NEW d, NEW f, NEW g, NEW h,
           NEW t, t = <<a, b, c, d, f, g, h>>
    PROVE  /\ DOMAIN t = 1 .. 7
           /\ t[1] = a /\ t[2] = b /\ t[3] = c /\ t[4] = d
           /\ t[5] = f /\ t[6] = g /\ t[7] = h
OBVIOUS

\* A rule of the chain that names a session holds of it.
LEMMA BehaviourHolds ==
    ASSUME NEW s
    PROVE  /\ BehaviourFor(s) = "recon" => s.probe_404 > 0
           /\ BehaviourFor(s) = "scraping" => s.distinct_2xx_paths >= ScrapeServed
<1> DEFINE chain == Behaviours(s)
           holding == {k \in DOMAIN chain : chain[k].holds}
           first == Least(holding)
<1>0. PICK h1, h2, h3, h6 :
         chain = <<Named("", h1), Named("brute-force", h2), Named("enumeration", h3),
                   Named("recon", s.probe_404 > 0 /\ s.content_requests \in 1 .. ReconMax),
                   Named("scraping", s.distinct_2xx_paths >= ScrapeServed /\ s.internal_nav = 0),
                   Named("browsing", h6), Named("", TRUE)>>
  BY Zenon DEF Behaviours, Named
<1> HIDE DEF chain
<1>1. PICK r1, r2, r3, r4, r5, r6, r7 :
         /\ chain = <<r1, r2, r3, r4, r5, r6, r7>>
         /\ r1 = Named("", h1) /\ r2 = Named("brute-force", h2)
         /\ r3 = Named("enumeration", h3)
         /\ r4 = Named("recon", s.probe_404 > 0 /\ s.content_requests \in 1 .. ReconMax)
         /\ r5 = Named("scraping", s.distinct_2xx_paths >= ScrapeServed /\ s.internal_nav = 0)
         /\ r6 = Named("browsing", h6) /\ r7 = Named("", TRUE)
  BY <1>0, Zenon
<1>a. chain = <<r1, r2, r3, r4, r5, r6, r7>>
  BY <1>1, Zenon
<1>b. /\ DOMAIN chain = 1 .. 7
      /\ chain[1] = r1 /\ chain[2] = r2 /\ chain[3] = r3 /\ chain[4] = r4
      /\ chain[5] = r5 /\ chain[6] = r6 /\ chain[7] = r7
  BY <1>a, SevenRules
<1>c. /\ r1.key = "" /\ r2.key = "brute-force" /\ r3.key = "enumeration"
      /\ r4.key = "recon" /\ r5.key = "scraping" /\ r6.key = "browsing"
      /\ r7.key = "" /\ r7.holds
      /\ r4.holds => s.probe_404 > 0
      /\ r5.holds => s.distinct_2xx_paths >= ScrapeServed
  BY <1>1, NamedParts, Zenon
<1>2. /\ chain[1].key = "" /\ chain[2].key = "brute-force" /\ chain[3].key = "enumeration"
      /\ chain[4].key = "recon" /\ chain[5].key = "scraping" /\ chain[6].key = "browsing"
      /\ chain[7].key = "" /\ chain[7].holds
      /\ chain[4].holds => s.probe_404 > 0
      /\ chain[5].holds => s.distinct_2xx_paths >= ScrapeServed
  BY <1>b, <1>c, Zenon
<1>3. first \in holding
  <2>1. 7 \in holding
    <3>1. 7 \in DOMAIN chain
      BY <1>b
    <3> QED BY <1>2, <3>1, Zenon
  <2>2. holding \subseteq Nat
    <3>1. holding \subseteq DOMAIN chain
      BY Zenon
    <3> HIDE DEF holding
    <3> QED BY <1>b, <3>1
  <2> HIDE DEF holding
  <2> QED BY <2>1, <2>2, FirstOfChain
<1> HIDE DEF first
<1>4. first \in DOMAIN chain /\ chain[first].holds
  BY <1>3, Zenon
<1>8. first = 1 \/ first = 2 \/ first = 3 \/ first = 4 \/ first = 5 \/ first = 6 \/ first = 7
  <2>1. first \in 1 .. 7
    BY <1>b, <1>4, Zenon
  <2> QED BY <2>1
<1>5. BehaviourFor(s) = chain[first].key
  BY DEF BehaviourFor, first, chain
<1>6. ASSUME BehaviourFor(s) = "recon" PROVE s.probe_404 > 0
  <2>1. "recon" # "" /\ "recon" # "brute-force" /\ "recon" # "enumeration"
        /\ "recon" # "scraping" /\ "recon" # "browsing"
    OBVIOUS
  <2>2. first = 4
    BY <1>8, <1>2, <1>5, <1>6, <2>1, Zenon
  <2> QED BY <1>2, <1>4, <2>2, Zenon
<1>7. ASSUME BehaviourFor(s) = "scraping" PROVE s.distinct_2xx_paths >= ScrapeServed
  <2>1. "scraping" # "" /\ "scraping" # "brute-force" /\ "scraping" # "enumeration"
        /\ "scraping" # "recon" /\ "scraping" # "browsing"
    OBVIOUS
  <2>2. first = 5
    BY <1>8, <1>2, <1>5, <1>7, <2>1, Zenon
  <2> QED BY <1>2, <1>4, <2>2, Zenon
<1> QED BY <1>6, <1>7

ServedPages(rows) == {Page(v.path) : v \in {w \in rows : IsOk(w)}}

\* What a session says of its rows.
LEMMA SessionSays ==
    ASSUME NEW R
    PROVE  /\ Session(Evidence(R)).started = Started(R)
           /\ Session(Evidence(R)).ended = Ended(R)
           /\ Session(Evidence(R)).requests = Cardinality(R)
           /\ Session(Evidence(R)).unserved_paths =
                Cardinality(Pages(R)) - Cardinality(ServedPages(R))
           /\ Session(Evidence(R)).entry_id = Least({v.id : v \in R})
           /\ Session(Evidence(R)).behaviour = "recon" =>
                Cardinality({v \in R : IsProbe(v)}) > 0
           /\ Session(Evidence(R)).behaviour = "scraping" =>
                Cardinality(ServedPages(R)) >= ScrapeServed
<1> DEFINE e == Evidence(R)
<1>1. /\ e.started = Started(R) /\ e.ended = Ended(R) /\ e.requests = Cardinality(R)
      /\ e.unserved_paths = Cardinality(Pages(R)) - Cardinality(ServedPages(R))
      /\ e.entry_id = Least({v.id : v \in R})
      /\ e.probe_404 = Cardinality({v \in R : IsProbe(v)})
      /\ e.distinct_2xx_paths = Cardinality(ServedPages(R))
  BY Zenon DEF Evidence, ServedPages
<1>2. {"started", "ended", "requests", "unserved_paths", "entry_id"} \subseteq DOMAIN e
  BY DEF Evidence
<1> HIDE DEF e
<1>3. /\ Session(e).started = e.started /\ Session(e).ended = e.ended
      /\ Session(e).requests = e.requests /\ Session(e).unserved_paths = e.unserved_paths
      /\ Session(e).entry_id = e.entry_id /\ Session(e).behaviour = BehaviourFor(e)
  BY <1>2 DEF Session
<1>4. /\ Session(e).behaviour = "recon" => e.probe_404 > 0
      /\ Session(e).behaviour = "scraping" => e.distinct_2xx_paths >= ScrapeServed
  BY <1>3, BehaviourHolds
<1>5. /\ Session(e).behaviour = "recon" => Cardinality({v \in R : IsProbe(v)}) > 0
      /\ Session(e).behaviour = "scraping" => Cardinality(ServedPages(R)) >= ScrapeServed
  BY <1>1, <1>4
<1> QED BY <1>1, <1>3, <1>5 DEF e

\* The sessions of an address are its runs, one each, as many as there are silences.
LEMMA SessionsAreRuns ==
    ASSUME OrderedLog, SessionGap \in Nat, NEW ip
    PROVE  /\ IsFiniteSet(GetSessions(ip))
           /\ Cardinality(GetSessions(ip)) = CountSessions(ip)
           /\ \A s \in GetSessions(ip) : \E R \in Runs(visits, ip) : s = Session(Evidence(R))
           /\ \A R \in Runs(visits, ip) : Session(Evidence(R)) \in GetSessions(ip)
<1> DEFINE own == OfAddress(visits, ip)
           place == Places(own)
           runs == Runs(visits, ip)
           of == [R \in runs |-> Session(Evidence(R))]
<1>1. own \subseteq visits
  BY DEF OfAddress
<1>2. Placed(own, place) /\ \A v \in own : place[v][1] = v.at /\ place[v][2] = v.id
  BY <1>1, RowsArePlaced
<1>3. runs = Chained(own, place, SessionGap)
  BY DEF Runs, Places
<1>4. GetSessions(ip) = {of[R] : R \in runs} /\ DOMAIN of = runs
  BY DEF GetSessions
<1>5. \A R \in runs : of[R] = Session(Evidence(R))
  OBVIOUS
<1>6. \A R \in runs : R \subseteq own /\ R # {} /\ R \subseteq visits
  BY <1>1, RunIsItsWindow
<1> HIDE DEF own, place, runs, of
<1>7. ASSUME NEW Q \in runs, NEW R \in runs, of[Q] = of[R] PROVE Q = R
  <2>1. Least({v.id : v \in Q}) = Least({v.id : v \in R})
    BY <1>5, <1>7, SessionSays
  <2>2. ASSUME NEW X \in runs PROVE \E v \in X : v.id = Least({w.id : w \in X})
    <3> DEFINE ids == {v.id : v \in X}
    <3>1. ids \subseteq Nat /\ ids # {} /\ \A n \in ids : \E v \in X : n = v.id
      BY <1>6 DEF OrderedLog
    <3> HIDE DEF ids
    <3>2. Least(ids) \in ids
      BY <3>1, FirstOfChain
    <3> QED BY <3>1, <3>2 DEF ids
  <2>3. PICK v \in Q : v.id = Least({w.id : w \in Q})
    BY <2>2
  <2>4. PICK u \in R : u.id = Least({w.id : w \in R})
    BY <2>2
  <2>5. v = u
    BY <1>6, <2>1, <2>3, <2>4 DEF OrderedLog
  <2> QED BY <1>2, <1>3, <2>5, RunsPartition
<1>8. IsFiniteSet(runs) /\ Cardinality(runs) = Cardinality(Starts(own, place, SessionGap))
  BY <1>2, <1>3, ChainIsRuns
<1>9. /\ IsFiniteSet({of[R] : R \in runs})
      /\ Cardinality({of[R] : R \in runs}) = Cardinality(runs)
  BY <1>4, <1>7, <1>8, ImageCount
<1>10. CountSessions(ip) = Cardinality(Starts(own, place, SessionGap))
  <2>1. CountSessions(ip) =
          Cardinality({v \in own : \A w \in own : Earlier(w, v) => v.at - w.at > SessionGap})
    BY Zenon DEF CountSessions, own
  <2>2. \A v, w \in own : Earlier(w, v) <=> Before(place, w, v)
    BY <1>2 DEF Earlier, Before
  <2>3. {v \in own : \A w \in own : Earlier(w, v) => v.at - w.at > SessionGap}
          = Starts(own, place, SessionGap)
    BY <1>2, <2>2 DEF Starts
  <2> QED BY <2>1, <2>3
<1>11. \A s \in GetSessions(ip) : \E R \in runs : s = Session(Evidence(R))
  BY <1>4, <1>5
<1>12. \A R \in runs : Session(Evidence(R)) \in GetSessions(ip)
  BY <1>4, <1>5
<1> QED BY <1>4, <1>8, <1>9, <1>10, <1>11, <1>12 DEF runs

\* What was served was asked for, so what was not is the difference.
LEMMA UnservedAddsUp ==
    ASSUME NEW R, IsFiniteSet(R), \A v \in R : v.path \in Pseudo => ~ IsOk(v)
    PROVE  Cardinality(Pages(R)) - Cardinality(ServedPages(R))
             = Cardinality(Pages(R) \ ServedPages(R))
<1> DEFINE asked == {w \in R : w.path \notin Pseudo}
           page == [v \in asked |-> Page(v.path)]
<1>1. Pages(R) = {page[v] : v \in asked} /\ DOMAIN page = asked
  BY DEF Pages
<1>2. IsFiniteSet(asked)
  BY FS_Subset
<1>3. ServedPages(R) \subseteq Pages(R)
  BY DEF ServedPages, Pages
<1> HIDE DEF page, asked
<1>4. IsFiniteSet(Pages(R))
  BY <1>1, <1>2, ImageCount
<1> DEFINE P == Pages(R)
           Q == ServedPages(R)
<1>5. IsFiniteSet(P) /\ IsFiniteSet(Q) /\ Q \subseteq P
  BY <1>3, <1>4, FS_Subset
<1> HIDE DEF P, Q
<1>6. Cardinality(P \ Q) = Cardinality(P) - Cardinality(P \cap Q) /\ P \cap Q = Q
  BY <1>5, FS_Difference
<1>7. Cardinality(P) - Cardinality(Q) = Cardinality(P \ Q)
  BY <1>6
<1> QED BY <1>7 DEF P, Q

\* The sessions of an address and what the drawer lists for them.
LEMMA SessionsMatch ==
    ASSUME OrderedLog, SessionGap \in Nat, \A v \in visits : v.path \in Pseudo => ~ IsOk(v)
    PROVE  SessionSelectsItsRows
<1> SUFFICES ASSUME NEW ip \in Addresses(visits)
             PROVE  /\ Cardinality(GetSessions(ip)) = CountSessions(ip)
                    /\ Sum([s \in GetSessions(ip) |-> s.requests]) =
                         Cardinality(OfAddress(visits, ip))
                    /\ \A s \in GetSessions(ip) :
                         LET rows == VisitorRequests(ip, s.started, s.ended)
                             served == {Page(v.path) : v \in {w \in rows : IsOk(w)}}
                         IN  /\ Cardinality(rows) = s.requests
                             /\ s.unserved_paths = Cardinality(Pages(rows) \ served)
                             /\ s.behaviour = "recon" => \E v \in rows : IsProbe(v)
                             /\ s.behaviour = "scraping" => Cardinality(served) >= ScrapeServed
  BY Zenon DEF SessionSelectsItsRows
<1> DEFINE sessions == GetSessions(ip)
           own == OfAddress(visits, ip)
           runs == Runs(visits, ip)
           listed == [s \in sessions |-> VisitorRequests(ip, s.started, s.ended)]
           counts == [s \in sessions |-> s.requests]
<1>1. /\ IsFiniteSet(sessions) /\ Cardinality(sessions) = CountSessions(ip)
      /\ \A s \in sessions : \E R \in runs : s = Session(Evidence(R))
      /\ \A R \in runs : Session(Evidence(R)) \in sessions
  BY SessionsAreRuns
<1>2. own \subseteq visits /\ IsFiniteSet(own)
  BY FS_Subset DEF OfAddress, OrderedLog, FiniteLog
<1>3. Placed(own, Places(own)) /\ runs = Chained(own, Places(own), SessionGap)
  BY <1>2, RowsArePlaced DEF Runs, Places
<1>4. ASSUME NEW R \in runs
      PROVE  /\ R \subseteq own /\ R # {} /\ IsFiniteSet(R)
             /\ VisitorRequests(ip, Started(R), Ended(R)) = R
  <2>1. /\ R \subseteq own /\ R # {} /\ IsFiniteSet(R)
        /\ \A v \in own : Started(R) <= v.at /\ v.at <= Ended(R) => v \in R
    BY RunIsItsWindow
  <2>2. \A v \in R : Started(R) <= v.at /\ v.at <= Ended(R)
    BY <1>2, <2>1, RunSpan
  <2>3. \A v \in R : v.at \in Nat /\ Started(R) \in Nat
    BY <1>2, <2>1, RunSpan DEF OrderedLog
  <2>4. VisitorRequests(ip, Started(R), Ended(R))
          = {v \in own : v.at >= Started(R) /\ v.at <= Ended(R)}
    BY DEF VisitorRequests, MomentWindow
  <2>5. \A v \in own : v.at >= Started(R) <=> Started(R) <= v.at
    BY <1>2, <2>1, RunSpan DEF OrderedLog
  <2> HIDE DEF own
  <2> QED BY <2>1, <2>2, <2>4, <2>5
<1>5. ASSUME NEW s \in sessions
      PROVE  \E R \in runs : /\ s = Session(Evidence(R)) /\ listed[s] = R
                             /\ VisitorRequests(ip, s.started, s.ended) = R
  <2>1. PICK R \in runs : s = Session(Evidence(R))
    BY <1>1
  <2>2. s.started = Started(R) /\ s.ended = Ended(R)
    BY <2>1, SessionSays
  <2>3. VisitorRequests(ip, s.started, s.ended) = R
    BY <1>4, <2>2
  <2> QED BY <2>1, <2>3
<1>6. \A s \in sessions : counts[s] = s.requests
  OBVIOUS
<1>7. DOMAIN counts = sessions
  OBVIOUS
<1> HIDE DEF sessions, own, runs, listed, counts
<1>8. Sum(counts) = Cardinality(own)
  <2>1. \A s \in sessions : listed[s] \subseteq own
    BY <1>4, <1>5
  <2>2. \A v \in own : \E s \in sessions : v \in listed[s]
    <3> TAKE v \in own
    <3>1. PICK R \in runs : v \in R
      BY <1>3, RunsPartition
    <3>2. Session(Evidence(R)) \in sessions
      BY <1>1
    <3>3. PICK Q \in runs : /\ Session(Evidence(R)) = Session(Evidence(Q))
                            /\ listed[Session(Evidence(R))] = Q
      BY <1>5, <3>2
    <3>4. Started(Q) = Started(R) /\ Ended(Q) = Ended(R)
      BY <3>3, SessionSays
    <3>5. Q = R
      BY <1>4, <3>4
    <3> QED BY <3>1, <3>2, <3>3, <3>5
  <2>3. ASSUME NEW s \in sessions, NEW t \in sessions, s # t
        PROVE  listed[s] \cap listed[t] = {}
    <3>1. PICK Q \in runs : s = Session(Evidence(Q)) /\ listed[s] = Q
      BY <1>5
    <3>2. PICK R \in runs : t = Session(Evidence(R)) /\ listed[t] = R
      BY <1>5
    <3>3. Q # R
      BY <2>3, <3>1, <3>2
    <3> QED BY <1>3, <3>1, <3>2, <3>3, RunsPartition
  <2>4. \A s \in sessions : counts[s] = Cardinality(listed[s])
    <3> TAKE s \in sessions
    <3>1. PICK R \in runs : s = Session(Evidence(R)) /\ listed[s] = R
      BY <1>5
    <3>2. s.requests = Cardinality(R)
      BY <3>1, SessionSays
    <3> QED BY <1>6, <3>1, <3>2
  <2> QED BY <1>1, <1>2, <1>7, <2>1, <2>2, <2>3, <2>4, PartsOf
<1>9. ASSUME NEW s \in sessions, NEW rows, rows = VisitorRequests(ip, s.started, s.ended)
      PROVE  /\ Cardinality(rows) = s.requests
             /\ s.unserved_paths = Cardinality(Pages(rows) \ ServedPages(rows))
             /\ s.behaviour = "recon" => \E v \in rows : IsProbe(v)
             /\ s.behaviour = "scraping" => Cardinality(ServedPages(rows)) >= ScrapeServed
  <2>1. rows \in runs /\ s = Session(Evidence(rows))
    BY <1>5, <1>9
  <2>2. IsFiniteSet(rows) /\ \A v \in rows : v.path \in Pseudo => ~ IsOk(v)
    BY <1>2, <1>4, <2>1
  <2>3. s.unserved_paths = Cardinality(Pages(rows) \ ServedPages(rows))
    BY <2>1, <2>2, SessionSays, UnservedAddsUp
  <2>4. ASSUME s.behaviour = "recon" PROVE \E v \in rows : IsProbe(v)
    <3>1. Cardinality({v \in rows : IsProbe(v)}) > 0
      BY <2>1, <2>4, SessionSays
    <3>2. {v \in rows : IsProbe(v)} # {}
      BY <3>1, FS_EmptySet
    <3> QED BY <3>2
  <2> QED BY <2>1, <2>3, <2>4, SessionSays
<1>10. ASSUME NEW s \in sessions
       PROVE  LET rows == VisitorRequests(ip, s.started, s.ended)
                  served == {Page(v.path) : v \in {w \in rows : IsOk(w)}}
              IN  /\ Cardinality(rows) = s.requests
                  /\ s.unserved_paths = Cardinality(Pages(rows) \ served)
                  /\ s.behaviour = "recon" => \E v \in rows : IsProbe(v)
                  /\ s.behaviour = "scraping" => Cardinality(served) >= ScrapeServed
  BY <1>9, Zenon DEF ServedPages
<1> QED BY <1>1, <1>8, <1>10 DEF sessions, own, counts

-----------------------------------------------------------------------------
(* Signatures: the first paths of a run, in the order they arrived *)

\* How many of D come up to x.
Rank(D, f, x) == Cardinality({y \in D : f[y] <= f[x]})

\* Ranks are the numbers up to the size, each once.
LEMMA RanksAreNumbers ==
    ASSUME NEW D, IsFiniteSet(D), NEW f, \A x \in D : f[x] \in Nat,
           \A x, y \in D : f[x] = f[y] => x = y
    PROVE  /\ \A n \in 1 .. Cardinality(D) : \E x \in D : Rank(D, f, x) = n
           /\ \A x, y \in D : Rank(D, f, x) = Rank(D, f, y) => x = y
<1> DEFINE place == [x \in D |-> <<f[x], 0>>]
<1>1. \A x \in D : place[x][1] = f[x] /\ place[x][2] = 0
  OBVIOUS
<1> HIDE DEF place
<1>2. Placed(D, place)
  BY <1>1 DEF Placed
<1>3. \A x, y \in D : Before(place, x, y) <=> f[x] < f[y]
  BY <1>1 DEF Before
<1>4. Starts(D, place, 0) = D
  BY <1>1, <1>3 DEF Starts
<1>5. \A x \in D : Reach(D, place, 0, x) = {y \in D : f[y] <= f[x]}
  BY <1>3, <1>4 DEF Reach
<1>6. \A x \in D : Rank(D, f, x) = Cardinality(Reach(D, place, 0, x))
  BY <1>5 DEF Rank
<1>7. {Cardinality(Reach(D, place, 0, s)) : s \in D} = 1 .. Cardinality(D)
  BY <1>2, <1>4, StartsAreNumbered
<1>8. ASSUME NEW x \in D, NEW y \in D, Rank(D, f, x) = Rank(D, f, y) PROVE x = y
  <2>1. Reach(D, place, 0, x) = Reach(D, place, 0, y)
    BY <1>2, <1>6, <1>8, SameNumber
  <2> QED BY <1>2, <1>4, <2>1, OneStart
<1> QED BY <1>6, <1>7, <1>8

PathsOf(rows) == {v.path : v \in rows}
FirstId(rows, path) == Least({v.id : v \in {w \in rows : w.path = path}})
Firsts(rows) == [path \in PathsOf(rows) |-> FirstId(rows, path)]
PathAt(rows, k) == CHOOSE p \in PathsOf(rows) : Rank(PathsOf(rows), Firsts(rows), p) = k

\* The signature by its places.
LEMMA SignatureByPlace ==
    ASSUME NEW rows
    PROVE  Signature(rows) = IF Cardinality(PathsOf(rows)) < SignaturePaths THEN <<>>
                             ELSE [k \in 1 .. SignaturePaths |-> PathAt(rows, k)]
<1> DEFINE first(path) == Least({v.id : v \in {w \in rows : w.path = path}})
           rank(path) == Cardinality({q \in PathsOf(rows) : first(q) <= first(path)})
<1>1. Signature(rows) = IF Cardinality(PathsOf(rows)) < SignaturePaths THEN <<>>
        ELSE [k \in 1 .. SignaturePaths |-> CHOOSE p \in PathsOf(rows) : rank(p) = k]
  BY Zenon DEF Signature, PathsOf
<1>2. \A p \in PathsOf(rows) : Firsts(rows)[p] = first(p)
  BY DEF Firsts, FirstId
<1>3. \A p \in PathsOf(rows) : rank(p) = Rank(PathsOf(rows), Firsts(rows), p)
  <2> TAKE p \in PathsOf(rows)
  <2> HIDE DEF first
  <2>1. {q \in PathsOf(rows) : first(q) <= first(p)}
          = {q \in PathsOf(rows) : Firsts(rows)[q] <= Firsts(rows)[p]}
    BY <1>2
  <2> QED BY <2>1 DEF Rank
<1> HIDE DEF rank
<1>4. \A k : (CHOOSE p \in PathsOf(rows) : rank(p) = k) = PathAt(rows, k)
  <2> TAKE k
  <2>1. \A p : p \in PathsOf(rows) /\ rank(p) = k <=>
               p \in PathsOf(rows) /\ Rank(PathsOf(rows), Firsts(rows), p) = k
    BY <1>3
  <2> QED BY <2>1 DEF PathAt
<1> QED BY <1>1, <1>4

\* The first row of a path is a row of it, and no other row of it is earlier.
LEMMA FirstOfPath ==
    ASSUME OrderedLog, NEW R, R \subseteq visits, NEW p \in PathsOf(R)
    PROVE  /\ FirstId(R, p) \in Nat
           /\ \E v \in R : v.path = p /\ v.id = FirstId(R, p)
           /\ \A v \in R : v.path = p => FirstId(R, p) <= v.id
<1> DEFINE ids == {v.id : v \in {w \in R : w.path = p}}
<1>1. ids \subseteq Nat /\ ids # {} /\ \A n : n \in ids <=> \E v \in R : v.path = p /\ v.id = n
  BY DEF PathsOf, OrderedLog
<1>2. FirstId(R, p) = Least(ids)
  BY DEF FirstId
<1> HIDE DEF ids
<1>3. Least(ids) \in ids /\ \A n \in ids : Least(ids) <= n
  BY <1>1, FirstOfChain
<1> QED BY <1>1, <1>2, <1>3

\* Paths have first rows of their own.
LEMMA FirstsDiffer ==
    ASSUME OrderedLog, NEW R, R \subseteq visits
    PROVE  /\ IsFiniteSet(PathsOf(R)) /\ Cardinality(PathsOf(R)) \in Nat
           /\ \A p \in PathsOf(R) : Firsts(R)[p] = FirstId(R, p) /\ Firsts(R)[p] \in Nat
           /\ \A p, q \in PathsOf(R) : Firsts(R)[p] = Firsts(R)[q] => p = q
<1> DEFINE path == [v \in R |-> v.path]
<1>1. PathsOf(R) = {path[v] : v \in R} /\ DOMAIN path = R
  BY DEF PathsOf
<1>2. IsFiniteSet(R)
  BY FS_Subset DEF OrderedLog, FiniteLog
<1> HIDE DEF path
<1>3. IsFiniteSet(PathsOf(R))
  BY <1>1, <1>2, ImageCount
<1>4. \A p \in PathsOf(R) : Firsts(R)[p] = FirstId(R, p) /\ Firsts(R)[p] \in Nat
  BY FirstOfPath DEF Firsts
<1>5. ASSUME NEW p \in PathsOf(R), NEW q \in PathsOf(R), Firsts(R)[p] = Firsts(R)[q]
      PROVE  p = q
  <2>1. PICK v \in R : v.path = p /\ v.id = FirstId(R, p)
    BY FirstOfPath
  <2>2. PICK w \in R : w.path = q /\ w.id = FirstId(R, q)
    BY FirstOfPath
  <2>3. v = w
    BY <1>4, <1>5, <2>1, <2>2 DEF OrderedLog
  <2> QED BY <2>1, <2>2, <2>3
<1> QED BY <1>3, <1>4, <1>5, FS_CardinalityType

\* A run that has a signature has it from its first rows on.
LEMMA SignatureOfPrefix ==
    ASSUME OrderedLog, SignaturePaths \in Nat \ {0},
           NEW Q, Q \subseteq visits, NEW R, R \subseteq Q,
           \A x \in R, y \in Q \ R : x.id < y.id,
           Signature(R) # <<>>
    PROVE  Signature(Q) = Signature(R)
<1> DEFINE P == PathsOf(R)
           Z == PathsOf(Q)
           f == Firsts(R)
           g == Firsts(Q)
<1>1. R \subseteq visits /\ P \subseteq Z
  BY DEF PathsOf
<1>2. /\ IsFiniteSet(P) /\ Cardinality(P) \in Nat
      /\ \A p \in P : f[p] = FirstId(R, p) /\ f[p] \in Nat
      /\ \A p, q \in P : f[p] = f[q] => p = q
  BY <1>1, FirstsDiffer
<1>3. /\ IsFiniteSet(Z) /\ Cardinality(Z) \in Nat
      /\ \A p \in Z : g[p] = FirstId(Q, p) /\ g[p] \in Nat
      /\ \A p, q \in Z : g[p] = g[q] => p = q
  BY FirstsDiffer
<1>4. Cardinality(P) >= SignaturePaths /\ Cardinality(Z) >= SignaturePaths
  <2>1. Cardinality(P) >= SignaturePaths
    BY <1>2, SignatureByPlace
  <2>2. Cardinality(P) <= Cardinality(Z)
    BY <1>1, <1>3, FS_Subset
  <2> QED BY <1>2, <1>3, <2>1, <2>2
<1>5. ASSUME NEW p \in P PROVE g[p] = f[p]
  <2>1. PICK v \in R : v.path = p /\ v.id = FirstId(R, p)
    BY <1>1, FirstOfPath
  <2>2. PICK w \in Q : w.path = p /\ w.id = FirstId(Q, p)
    BY <1>1, FirstOfPath
  <2>3. FirstId(Q, p) <= v.id
    BY <1>1, <2>1, FirstOfPath
  <2>4. v.id \in Nat /\ w.id \in Nat
    BY <1>1 DEF OrderedLog
  <2>5. w \in R
    BY <2>1, <2>2, <2>3, <2>4
  <2>6. FirstId(R, p) <= w.id
    BY <1>1, <2>2, <2>5, FirstOfPath
  <2> QED BY <1>1, <1>2, <1>3, <2>1, <2>2, <2>3, <2>4, <2>6
<1>6. ASSUME NEW p \in P, NEW q \in Z \ P PROVE g[p] < g[q]
  <2>1. PICK v \in R : v.path = p /\ v.id = FirstId(R, p)
    BY <1>1, FirstOfPath
  <2>2. PICK w \in Q : w.path = q /\ w.id = FirstId(Q, q)
    BY FirstOfPath
  <2>3. w \notin R
    BY <1>6, <2>2 DEF PathsOf
  <2>4. v.id < w.id
    BY <2>2, <2>3
  <2> QED BY <1>2, <1>3, <1>5, <2>1, <2>2, <2>4
<1>7. ASSUME NEW p \in P PROVE Rank(Z, g, p) = Rank(P, f, p)
  <2>1. \A q \in Z : g[q] <= g[p] => q \in P
    BY <1>1, <1>3, <1>6
  <2>2. {q \in Z : g[q] <= g[p]} = {q \in P : f[q] <= f[p]}
    BY <1>1, <1>5, <2>1
  <2> QED BY <2>2 DEF Rank
<1>8. ASSUME NEW k \in 1 .. SignaturePaths PROVE PathAt(Q, k) = PathAt(R, k)
  <2>1. PICK p \in P : Rank(P, f, p) = k
    <3>1. k \in 1 .. Cardinality(P)
      BY <1>2, <1>4
    <3> QED BY <1>2, <3>1, RanksAreNumbers
  <2>2. \A q \in P : Rank(P, f, q) = k => q = p
    BY <1>2, <2>1, RanksAreNumbers
  <2>3. p \in Z /\ Rank(Z, g, p) = k
    BY <1>1, <1>7, <2>1
  <2>4. \A q \in Z : Rank(Z, g, q) = k => q = p
    BY <1>3, <2>3, RanksAreNumbers
  <2> HIDE DEF P, Z, f, g
  <2>5. (CHOOSE q \in P : Rank(P, f, q) = k) = p
    BY <2>1, <2>2
  <2>6. (CHOOSE q \in Z : Rank(Z, g, q) = k) = p
    BY <2>3, <2>4
  <2> QED BY <2>5, <2>6 DEF PathAt, P, Z, f, g
<1>9. /\ Signature(R) = [k \in 1 .. SignaturePaths |-> PathAt(R, k)]
      /\ Signature(Q) = [k \in 1 .. SignaturePaths |-> PathAt(Q, k)]
  BY <1>2, <1>3, <1>4, SignatureByPlace
<1>10. [k \in 1 .. SignaturePaths |-> PathAt(Q, k)] = [k \in 1 .. SignaturePaths |-> PathAt(R, k)]
  BY <1>8, Zenon
<1> QED BY <1>9, <1>10

\* Its paths are paths of the run.
LEMMA SignatureIsOfPaths ==
    ASSUME OrderedLog, SignaturePaths \in Nat \ {0}, NEW R, R \subseteq visits,
           Signature(R) # <<>>
    PROVE  \A k \in DOMAIN Signature(R) : Signature(R)[k] \in PathsOf(R)
<1>1. /\ IsFiniteSet(PathsOf(R)) /\ Cardinality(PathsOf(R)) \in Nat
      /\ \A p \in PathsOf(R) : Firsts(R)[p] \in Nat
      /\ \A p, q \in PathsOf(R) : Firsts(R)[p] = Firsts(R)[q] => p = q
  BY FirstsDiffer
<1>2. /\ Cardinality(PathsOf(R)) >= SignaturePaths
      /\ Signature(R) = [k \in 1 .. SignaturePaths |-> PathAt(R, k)]
  BY <1>1, SignatureByPlace
<1>3. ASSUME NEW k \in 1 .. SignaturePaths PROVE PathAt(R, k) \in PathsOf(R)
  <2>1. k \in 1 .. Cardinality(PathsOf(R))
    BY <1>1, <1>2
  <2>2. \E p \in PathsOf(R) : Rank(PathsOf(R), Firsts(R), p) = k
    <3> DEFINE D == PathsOf(R)
               f == Firsts(R)
    <3>1. /\ IsFiniteSet(D) /\ \A p \in D : f[p] \in Nat
          /\ \A p, q \in D : f[p] = f[q] => p = q
          /\ k \in 1 .. Cardinality(D)
      BY <1>1, <2>1
    <3> HIDE DEF D, f
    <3>2. \E p \in D : Rank(D, f, p) = k
      BY <3>1, RanksAreNumbers
    <3> QED BY <3>2 DEF D, f
  <2> QED BY <2>2 DEF PathAt
<1> QED BY <1>2, <1>3

-----------------------------------------------------------------------------
(* The panel under an incident *)

SpanOf(ip, run) == [ip |-> ip, signature |-> Signature(run), rows |-> run,
                    started |-> Started(run), ended |-> Ended(run)]

\* Its fields.
LEMMA SpanFields ==
    ASSUME NEW ip, NEW run
    PROVE  /\ SpanOf(ip, run).ip = ip /\ SpanOf(ip, run).signature = Signature(run)
           /\ SpanOf(ip, run).rows = run /\ SpanOf(ip, run).started = Started(run)
           /\ SpanOf(ip, run).ended = Ended(run)
BY DEF SpanOf

\* A span is a run that carries a signature.
LEMMA SpansAreRuns ==
    ASSUME NEW rows, NEW s
    PROVE  s \in Spans(rows) <=>
             \E ip \in Addresses(rows) : \E run \in Runs(rows, ip) :
                s = SpanOf(ip, run) /\ Signature(run) # <<>>
<1>1. Spans(rows) = {t \in UNION {{SpanOf(ip, run) : run \in Runs(rows, ip)} :
                                    ip \in Addresses(rows)} : t.signature # <<>>}
  BY Zenon DEF Spans, SpanOf
<1>2. s \in UNION {{SpanOf(ip, run) : run \in Runs(rows, ip)} : ip \in Addresses(rows)} <=>
        \E ip \in Addresses(rows) : \E run \in Runs(rows, ip) : s = SpanOf(ip, run)
  <2> DEFINE of == [ip \in Addresses(rows) |-> {SpanOf(ip, run) : run \in Runs(rows, ip)}]
  <2>1. \A ip \in Addresses(rows) :
          s \in of[ip] <=> \E run \in Runs(rows, ip) : s = SpanOf(ip, run)
    BY Zenon
  <2>2. UNION {{SpanOf(ip, run) : run \in Runs(rows, ip)} : ip \in Addresses(rows)}
          = UNION {of[ip] : ip \in Addresses(rows)}
    BY Zenon
  <2> HIDE DEF of
  <2>3. s \in UNION {of[ip] : ip \in Addresses(rows)} <=>
          \E ip \in Addresses(rows) : s \in of[ip]
    OBVIOUS
  <2> QED BY <2>1, <2>2, <2>3, Zenon
<1>3. \A ip, run : SpanOf(ip, run).signature = Signature(run)
  BY SpanFields
<1> QED BY <1>1, <1>2, <1>3, Zenon

\* The probes of an address in a window are those of the log, cut.
LEMMA ProbesCut ==
    ASSUME OrderedLog, Hours \in Nat \ {0}, SessionGap \in Nat, NEW ip,
           NEW from \in Nat, NEW end \in Nat,
           NEW S, S = OfAddress(ProbeRows(None, None), ip),
           NEW W, W = OfAddress(ProbeRows(Padded(from), end), ip)
    PROVE  /\ (end \div Hours + 1) * Hours \in Nat /\ end < (end \div Hours + 1) * Hours
           /\ CutOut(S, Places(S), SessionGap, from, (end \div Hours + 1) * Hours, W, Places(W))
<1> DEFINE hi == (end \div Hours + 1) * Hours
<1>1. hi \in Nat /\ end < hi
  <2>1. end \div Hours \in Nat /\ end < (end \div Hours + 1) * Hours
    BY DayOf DEF Day
  <2> QED BY <2>1
<1>2. S = {v \in visits : IsProbe(v) /\ v.ip = ip}
  BY DEF OfAddress, ProbeRows, Within, InWindow
<1>3. \A v \in visits : v.at \in Nat
  BY DEF OrderedLog
<1> HIDE DEF hi
<1>4. \A v \in visits : InWindow(v.at, Padded(from), end) <=>
                          from - SessionGap <= v.at /\ v.at < hi
  <2> TAKE v \in visits
  <2>1. v.at \in Nat /\ end # None
    BY <1>3 DEF None
  <2>2. InWindow(v.at, Padded(from), end) <=>
          /\ from - SessionGap # -1 => v.at >= from - SessionGap
          /\ v.at < hi
    BY <2>1 DEF InWindow, Padded, None, hi
  <2> QED BY <2>1, <2>2
<1>5. W = {v \in visits : InWindow(v.at, Padded(from), end) /\ IsProbe(v) /\ v.ip = ip}
  BY DEF OfAddress, ProbeRows, Within
<1>6. W = {v \in S : from - SessionGap <= v.at /\ v.at < hi}
  BY <1>2, <1>4, <1>5
<1>7. \A v \in S : Places(S)[v][1] = v.at
  BY DEF Places
<1>8. \A v \in W : Places(W)[v] = Places(S)[v]
  BY <1>6 DEF Places
<1>9. W = {v \in S : from - SessionGap <= Places(S)[v][1] /\ Places(S)[v][1] < hi}
  BY <1>6, <1>7
<1>10. CutOut(S, Places(S), SessionGap, from, hi, W, Places(W))
  BY <1>8, <1>9 DEF CutOut
<1> QED BY <1>1, <1>10 DEF hi

\* Runs that share a row are one.
LEMMA RunsApart ==
    ASSUME OrderedLog, SessionGap \in Nat, NEW rows, rows \subseteq visits,
           NEW ip, NEW jp, NEW Q \in Runs(rows, ip), NEW R \in Runs(rows, jp),
           NEW x, x \in Q, x \in R
    PROVE  ip = jp /\ Q = R
<1>1. Q \subseteq OfAddress(rows, ip) /\ R \subseteq OfAddress(rows, jp)
  BY RunIsItsWindow
<1>2. ip = jp
  BY <1>1 DEF OfAddress
<1> DEFINE own == OfAddress(rows, ip)
<1>3. own \subseteq visits
  BY DEF OfAddress
<1>4. Placed(own, Places(own)) /\ Runs(rows, ip) = Chained(own, Places(own), SessionGap)
  BY <1>3, RowsArePlaced DEF Runs, Places
<1> HIDE DEF own
<1>5. Q = R
  BY <1>2, <1>4, RunsPartition
<1> QED BY <1>2, <1>5

AllProbes == ProbeRows(None, None)

\* What a span of the log is.
LEMMA SpanIsRun ==
    ASSUME OrderedLog, SessionGap \in Nat, NEW s \in Spans(AllProbes)
    PROVE  /\ s.rows \in Runs(AllProbes, s.ip) /\ s = SpanOf(s.ip, s.rows)
           /\ Signature(s.rows) # <<>> /\ s.signature = Signature(s.rows)
           /\ s.rows \subseteq visits /\ s.rows # {} /\ IsFiniteSet(s.rows)
           /\ \A v \in s.rows : v.ip = s.ip /\ v.at \in Nat /\ s.started <= v.at /\ v.at <= s.ended
           /\ s.ip \in Nat /\ s.started \in Nat /\ s.ended \in Nat
           /\ \E t \in Starts(OfAddress(AllProbes, s.ip), Places(OfAddress(AllProbes, s.ip)),
                              SessionGap) :
                /\ s.rows = RunOf(OfAddress(AllProbes, s.ip),
                                  Places(OfAddress(AllProbes, s.ip)), SessionGap, t)
                /\ t.at = s.started /\ t \in s.rows
<1>0. PICK ip \in Addresses(AllProbes) : \E run \in Runs(AllProbes, ip) :
         s = SpanOf(ip, run) /\ Signature(run) # <<>>
  BY SpansAreRuns
<1>1. PICK run \in Runs(AllProbes, ip) : s = SpanOf(ip, run) /\ Signature(run) # <<>>
  BY <1>0
<1>2. /\ s.ip = ip /\ s.rows = run /\ s.signature = Signature(run)
      /\ s.started = Started(run) /\ s.ended = Ended(run)
  BY <1>1, SpanFields
<1>3. AllProbes \subseteq visits
  BY DEF AllProbes, ProbeRows, Within
<1>4. /\ run \subseteq OfAddress(AllProbes, ip) /\ run # {} /\ IsFiniteSet(run)
      /\ \E t \in Starts(OfAddress(AllProbes, ip), Places(OfAddress(AllProbes, ip)), SessionGap) :
           /\ run = RunOf(OfAddress(AllProbes, ip), Places(OfAddress(AllProbes, ip)),
                          SessionGap, t)
           /\ t.at = Started(run)
  BY <1>3, RunIsItsWindow
<1>5. run \subseteq visits /\ \A v \in run : v.ip = ip
  BY <1>3, <1>4 DEF OfAddress
<1>6. /\ Started(run) \in Nat /\ Ended(run) \in Nat
      /\ \A v \in run : Started(run) <= v.at /\ v.at <= Ended(run)
  BY <1>4, <1>5, RunSpan
<1>7. ip \in Nat /\ \A v \in run : v.at \in Nat
  BY <1>4, <1>5 DEF OrderedLog
<1>8. PICK t \in Starts(OfAddress(AllProbes, ip), Places(OfAddress(AllProbes, ip)), SessionGap) :
         /\ run = RunOf(OfAddress(AllProbes, ip), Places(OfAddress(AllProbes, ip)),
                        SessionGap, t)
         /\ t.at = Started(run)
  BY <1>4
<1>9. t \in run
  BY <1>8 DEF RunOf, Starts
<1> QED BY <1>1, <1>2, <1>4, <1>5, <1>6, <1>7, <1>8, <1>9

\* Spans that share a row are one.
LEMMA SpansApart ==
    ASSUME OrderedLog, SessionGap \in Nat,
           NEW s \in Spans(AllProbes), NEW u \in Spans(AllProbes),
           NEW x, x \in s.rows, x \in u.rows
    PROVE  s = u
<1>1. AllProbes \subseteq visits
  BY DEF AllProbes, ProbeRows, Within
<1>2. /\ s.rows \in Runs(AllProbes, s.ip) /\ s = SpanOf(s.ip, s.rows)
      /\ u.rows \in Runs(AllProbes, u.ip) /\ u = SpanOf(u.ip, u.rows)
  BY SpanIsRun
<1> DEFINE ip == s.ip
           jp == u.ip
           Q == s.rows
           R == u.rows
<1>3. Q \in Runs(AllProbes, ip) /\ R \in Runs(AllProbes, jp) /\ x \in Q /\ x \in R
  BY <1>2
<1> HIDE DEF ip, jp, Q, R
<1>4. ip = jp /\ Q = R
  BY <1>1, <1>3, RunsApart
<1> QED BY <1>2, <1>4 DEF ip, jp, Q, R

SpanPlaces(O) == [s \in O |-> <<s.started, s.ip>>]

\* Spans have places of their own.
LEMMA SpansArePlaced ==
    ASSUME OrderedLog, SessionGap \in Nat, NEW O, O \subseteq Spans(AllProbes)
    PROVE  /\ Placed(O, SpanPlaces(O))
           /\ \A s \in O : SpanPlaces(O)[s][1] = s.started /\ SpanPlaces(O)[s][2] = s.ip
<1>1. \A s \in O : SpanPlaces(O)[s][1] = s.started /\ SpanPlaces(O)[s][2] = s.ip
  BY DEF SpanPlaces
<1>2. IsFiniteSet(O)
  <2> DEFINE own(t) == OfAddress(AllProbes, t.ip)
             f == [t \in visits |-> SpanOf(t.ip, RunOf(own(t), Places(own(t)), SessionGap, t))]
  <2>1. DOMAIN f = visits /\ IsFiniteSet(visits)
    BY DEF OrderedLog, FiniteLog
  <2>2. ASSUME NEW s \in O PROVE \E t \in visits : s = f[t]
    <3>1. /\ s = SpanOf(s.ip, s.rows) /\ s.rows \subseteq visits
          /\ \A v \in s.rows : v.ip = s.ip
          /\ \E t \in Starts(OfAddress(AllProbes, s.ip), Places(OfAddress(AllProbes, s.ip)),
                             SessionGap) :
               /\ s.rows = RunOf(OfAddress(AllProbes, s.ip),
                                 Places(OfAddress(AllProbes, s.ip)), SessionGap, t)
               /\ t \in s.rows
      BY SpanIsRun
    <3>2. PICK t \in s.rows :
            s.rows = RunOf(OfAddress(AllProbes, s.ip),
                           Places(OfAddress(AllProbes, s.ip)), SessionGap, t)
      BY <3>1
    <3>3. t \in visits /\ t.ip = s.ip
      BY <3>1
    <3> QED BY <3>1, <3>2, <3>3
  <2> HIDE DEF f
  <2>3. IsFiniteSet({f[t] : t \in visits}) /\ O \subseteq {f[t] : t \in visits}
    BY <2>1, <2>2, ImageCount
  <2> QED BY <2>3, FS_Subset
<1>3. \A s \in O : s.started \in Nat /\ s.ip \in Nat
  BY SpanIsRun
<1>4. ASSUME NEW s \in O, NEW u \in O, s.started = u.started, s.ip = u.ip PROVE s = u
  <2>1. /\ s.rows \in Runs(AllProbes, s.ip) /\ s = SpanOf(s.ip, s.rows)
        /\ u.rows \subseteq visits /\ \E t \in u.rows : t.at = u.started
    BY SpanIsRun
  <2>2. PICK t \in u.rows : t.at = u.started
    BY <2>1
  <2>3. t \in OfAddress(AllProbes, u.ip)
    <3>1. u.rows \in Runs(AllProbes, u.ip) /\ AllProbes \subseteq visits
      BY SpanIsRun DEF AllProbes, ProbeRows, Within
    <3>2. u.rows \subseteq OfAddress(AllProbes, u.ip)
      BY <3>1, RunIsItsWindow
    <3> QED BY <3>2
  <2>4. /\ s.started = Started(s.rows) /\ s.ended = Ended(s.rows)
        /\ s.started <= s.ended /\ s.started \in Nat
    <3>1. s.started = Started(s.rows) /\ s.ended = Ended(s.rows)
      BY <2>1, SpanFields
    <3>2. /\ s.rows # {} /\ s.started \in Nat /\ s.ended \in Nat
          /\ \A v \in s.rows : v.at \in Nat /\ s.started <= v.at /\ v.at <= s.ended
      BY SpanIsRun
    <3>3. PICK v \in s.rows : TRUE
      BY <3>2
    <3>4. v.at \in Nat /\ s.started <= v.at /\ v.at <= s.ended
      BY <3>2
    <3> QED BY <3>1, <3>2, <3>4
  <2>5. t \in s.rows
    <3>1. AllProbes \subseteq visits
      BY DEF AllProbes, ProbeRows, Within
    <3>2. \A v \in OfAddress(AllProbes, s.ip) :
             Started(s.rows) <= v.at /\ v.at <= Ended(s.rows) => v \in s.rows
      BY <2>1, <3>1, RunIsItsWindow
    <3> QED BY <1>4, <2>2, <2>3, <2>4, <3>2
  <2> QED BY <2>2, <2>5, SpansApart
<1>5. \A s, u \in O : SpanPlaces(O)[s][1] = SpanPlaces(O)[u][1]
                      /\ SpanPlaces(O)[s][2] = SpanPlaces(O)[u][2] => s = u
  BY <1>1, <1>4
<1> QED BY <1>1, <1>2, <1>3, <1>5 DEF Placed

\* The least and the greatest of what finitely many have are had by some.
LEMMA ImageBounds ==
    ASSUME NEW M, IsFiniteSet(M), M # {}, NEW f, DOMAIN f = M, \A s \in M : f[s] \in Nat,
           NEW N, N = {f[s] : s \in M}
    PROVE  /\ Least(N) \in Nat /\ Greatest(N) \in Nat
           /\ \A s \in M : Least(N) <= f[s] /\ f[s] <= Greatest(N)
           /\ Least(N) \in N /\ Greatest(N) \in N
<1>1. N \subseteq Nat /\ N # {} /\ \A n : n \in N <=> \E s \in M : n = f[s]
  OBVIOUS
<1>2. IsFiniteSet(N)
  BY ImageCount
<1>3. Least(N) \in N /\ \A n \in N : Least(N) <= n
  BY <1>1, FirstOfChain
<1>4. Greatest(N) \in N /\ \A n \in N : n <= Greatest(N)
  BY <1>1, <1>2, LastOf
<1> DEFINE l == Least(N)
           g == Greatest(N)
<1> HIDE DEF l, g
<1>5. l \in N /\ g \in N /\ \A n \in N : l <= n /\ n <= g
  BY <1>3, <1>4 DEF l, g
<1>6. l \in Nat /\ g \in Nat /\ \A s \in M : l <= f[s] /\ f[s] <= g
  BY <1>1, <1>5
<1> QED BY <1>5, <1>6 DEF l, g

From(M) == Least({s.started : s \in M})
Last(M) == Greatest({s.started : s \in M})
End(M) == Greatest({s.ended : s \in M})

\* What an incident says of its members.
LEMMA IncidentSays ==
    ASSUME NEW M
    PROVE  /\ Incident(M).signature = (CHOOSE s \in M : TRUE).signature
           /\ Incident(M).started = From(M) /\ Incident(M).ended = End(M)
           /\ Incident(M).last_started = Last(M) /\ Incident(M).members = {s.ip : s \in M}
           /\ Incident(M).probe_404 = Sum([s \in M |-> Cardinality(s.rows)])
BY Zenon DEF Incident, From, Last, End

\* The bounds of finitely many spans.
LEMMA SpanBounds ==
    ASSUME OrderedLog, SessionGap \in Nat, NEW M, M \subseteq Spans(AllProbes),
           IsFiniteSet(M), M # {}
    PROVE  /\ From(M) \in Nat /\ Last(M) \in Nat /\ End(M) \in Nat
           /\ \A s \in M : From(M) <= s.started /\ s.started <= Last(M) /\ s.ended <= End(M)
           /\ \E s \in M : s.started = From(M)
           /\ \E s \in M : s.started = Last(M)
<1> DEFINE f == [s \in M |-> s.started]
           g == [s \in M |-> s.ended]
<1>1. /\ DOMAIN f = M /\ DOMAIN g = M
      /\ \A s \in M : f[s] = s.started /\ g[s] = s.ended
      /\ {s.started : s \in M} = {f[s] : s \in M}
      /\ {s.ended : s \in M} = {g[s] : s \in M}
  OBVIOUS
<1>2. \A s \in M : s.started \in Nat /\ s.ended \in Nat
  BY SpanIsRun
<1> HIDE DEF f, g
<1>3. \A s \in M : f[s] \in Nat /\ g[s] \in Nat
  BY <1>1, <1>2
<1>4. /\ From(M) \in Nat /\ Last(M) \in Nat
      /\ \A s \in M : From(M) <= f[s] /\ f[s] <= Last(M)
      /\ \E s \in M : f[s] = From(M)
      /\ \E s \in M : f[s] = Last(M)
  <2> DEFINE N == {f[s] : s \in M}
  <2>1. From(M) = Least(N) /\ Last(M) = Greatest(N)
    BY <1>1 DEF From, Last
  <2>2. \A s \in M : f[s] \in Nat
    BY <1>3
  <2>3. N = {f[s] : s \in M} /\ DOMAIN f = M
    BY <1>1
  <2> HIDE DEF N
  <2>4. /\ Least(N) \in Nat /\ Greatest(N) \in Nat
        /\ \A s \in M : Least(N) <= f[s] /\ f[s] <= Greatest(N)
        /\ Least(N) \in N /\ Greatest(N) \in N
    BY <2>2, <2>3, ImageBounds
  <2> QED BY <2>1, <2>3, <2>4
<1>5. End(M) \in Nat /\ \A s \in M : g[s] <= End(M)
  <2>1. End(M) = Greatest({g[s] : s \in M})
    BY <1>1 DEF End
  <2> QED BY <1>1, <1>3, <2>1, ImageBounds
<1> QED BY <1>1, <1>4, <1>5

Signed(sig) == {s \in Spans(AllProbes) : s.signature = sig}

\* An event has no gap: what carries its signature and begins within it is of it.
LEMMA EventHasNoGap ==
    ASSUME OrderedLog, SessionGap \in Nat, IncidentGap \in Nat, NEW sig,
           NEW M \in Chained(Signed(sig), SpanPlaces(Signed(sig)), IncidentGap)
    PROVE  /\ M \subseteq Signed(sig) /\ M \subseteq Spans(AllProbes) /\ IsFiniteSet(M) /\ M # {}
           /\ \A u \in Signed(sig) : From(M) <= u.started /\ u.started <= Last(M) => u \in M
<1> DEFINE O == Signed(sig)
           place == SpanPlaces(O)
<1>1. O \subseteq Spans(AllProbes)
  BY DEF Signed
<1>2. Placed(O, place) /\ \A s \in O : place[s][1] = s.started /\ place[s][2] = s.ip
  BY <1>1, SpansArePlaced
<1> HIDE DEF O, place
<1>3. PICK t \in Starts(O, place, IncidentGap) : M = RunOf(O, place, IncidentGap, t)
  BY <1>2, ChainIsRuns DEF O, place
<1>4. /\ t \in M /\ M \subseteq O
      /\ \A x \in M, y \in O \ M :
           Before(place, x, y) => \A z \in M : place[y][1] - place[z][1] > IncidentGap
      /\ \A x \in M, y \in O \ M :
           Before(place, y, x) => \A z \in M : place[z][1] - place[y][1] > IncidentGap
  BY <1>2, <1>3, RunFacts
<1>5. IsFiniteSet(M) /\ M # {} /\ M \subseteq Spans(AllProbes)
  BY <1>1, <1>2, <1>4, FS_Subset DEF Placed
<1>6. /\ From(M) \in Nat /\ Last(M) \in Nat
      /\ \E s \in M : s.started = From(M)
      /\ \E s \in M : s.started = Last(M)
  BY <1>5, SpanBounds
<1>7. ASSUME NEW u \in O, From(M) <= u.started, u.started <= Last(M), u \notin M PROVE FALSE
  <2>1. PICK x \in M : x.started = From(M)
    BY <1>6
  <2>2. PICK z \in M : z.started = Last(M)
    BY <1>6
  <2>3. x \in O /\ z \in O /\ x # u
    BY <1>4, <1>7
  <2>4. u.started \in Nat
    BY <1>1, SpanIsRun
  <2>5. CASE Before(place, x, u)
    <3>1. u.started - z.started > IncidentGap
      BY <1>2, <1>4, <1>7, <2>3, <2>5
    <3> QED BY <1>6, <1>7, <2>2, <2>4, <3>1
  <2>6. CASE Before(place, u, x)
    <3>1. x.started - u.started > IncidentGap
      BY <1>2, <1>4, <1>7, <2>3, <2>6
    <3> QED BY <1>6, <1>7, <2>1, <2>4, <3>1
  <2> QED BY <1>2, <2>3, <2>5, <2>6, PlacesAreOrdered
<1> QED BY <1>4, <1>5, <1>7 DEF O

\* What the panel reads: the probes from one session gap before the event to its end.
PanelRows(M) == ProbeRows(Padded(From(M)), End(M))

\* A span the panel reads that begins within the event begins a span of the log with the same
\* signature; one of the log that ends within it is read as it is.
LEMMA PanelReadsSpans ==
    ASSUME OrderedLog, Hours \in Nat \ {0}, SessionGap \in Nat, SignaturePaths \in Nat \ {0},
           NEW M, M \subseteq Spans(AllProbes), IsFiniteSet(M), M # {}
    PROVE  /\ \A s \in Spans(PanelRows(M)) : From(M) <= s.started =>
                \E u \in Spans(AllProbes) :
                   /\ u.signature = s.signature /\ u.started = s.started
                   /\ u.ended <= End(M) => u = s
           /\ \A u \in Spans(AllProbes) : From(M) <= u.started /\ u.ended <= End(M) =>
                u \in Spans(PanelRows(M))
<1> DEFINE hi == (End(M) \div Hours + 1) * Hours
           rows == PanelRows(M)
<1>1. From(M) \in Nat /\ End(M) \in Nat
  BY SpanBounds
<1>2. AllProbes \subseteq visits /\ rows \subseteq visits
  BY DEF AllProbes, ProbeRows, Within, PanelRows
<1>3. ASSUME NEW ip, NEW S, S = OfAddress(AllProbes, ip), NEW W, W = OfAddress(rows, ip)
      PROVE  /\ hi \in Nat /\ End(M) < hi
             /\ W = {x \in S : From(M) - SessionGap <= x.at /\ x.at < hi}
             /\ S \subseteq visits /\ W \subseteq S
             /\ Placed(S, Places(S)) /\ Placed(W, Places(W))
             /\ Runs(AllProbes, ip) = Chained(S, Places(S), SessionGap)
             /\ Runs(rows, ip) = Chained(W, Places(W), SessionGap)
             /\ \A t \in W : From(M) <= t.at =>
                  /\ t \in Starts(W, Places(W), SessionGap) <=>
                       t \in Starts(S, Places(S), SessionGap)
                  /\ t \in Starts(S, Places(S), SessionGap) =>
                       RunOf(W, Places(W), SessionGap, t)
                         = RunOf(S, Places(S), SessionGap, t) \cap W
  <2>1. S \subseteq visits
    BY <1>2, <1>3 DEF OfAddress
  <2>2. hi \in Nat /\ End(M) < hi
    BY <1>1, <1>3, ProbesCut DEF AllProbes, PanelRows
  <2>3. CutOut(S, Places(S), SessionGap, From(M), hi, W, Places(W))
    BY <1>1, <1>3, ProbesCut DEF AllProbes, PanelRows
  <2>4. Placed(S, Places(S)) /\ \A v \in S : Places(S)[v][1] = v.at
    BY <2>1, RowsArePlaced
  <2>5. W = {x \in S : From(M) - SessionGap <= x.at /\ x.at < hi}
    BY <2>3, <2>4 DEF CutOut
  <2>6. Runs(AllProbes, ip) = Chained(S, Places(S), SessionGap)
    BY <1>3 DEF Runs, Places
  <2>7. Runs(rows, ip) = Chained(W, Places(W), SessionGap)
    BY <1>3 DEF Runs, Places
  <2>8. W \subseteq S /\ \A t \in W : Places(S)[t][1] = t.at
    BY <2>4, <2>5
  <2> HIDE DEF hi, rows
  <2>9. /\ Placed(W, Places(W))
        /\ \A t \in W : From(M) <= Places(S)[t][1] =>
             /\ t \in Starts(W, Places(W), SessionGap) <=> t \in Starts(S, Places(S), SessionGap)
             /\ t \in Starts(S, Places(S), SessionGap) =>
                  RunOf(W, Places(W), SessionGap, t)
                    = RunOf(S, Places(S), SessionGap, t) \cap W
    BY <1>1, <2>2, <2>3, <2>4, CutKeepsRuns
  <2> QED BY <2>1, <2>2, <2>4, <2>5, <2>6, <2>7, <2>8, <2>9
<1> HIDE DEF hi, rows
<1>4. ASSUME NEW s \in Spans(rows), From(M) <= s.started
      PROVE  \E u \in Spans(AllProbes) :
                /\ u.signature = s.signature /\ u.started = s.started
                /\ u.ended <= End(M) => u = s
  <2>1. PICK ip \in Addresses(rows) :
          \E run \in Runs(rows, ip) : s = SpanOf(ip, run) /\ Signature(run) # <<>>
    BY SpansAreRuns
  <2>2. PICK R \in Runs(rows, ip) : s = SpanOf(ip, R) /\ Signature(R) # <<>>
    BY <2>1
  <2> DEFINE S == OfAddress(AllProbes, ip)
             W == OfAddress(rows, ip)
  <2>3. /\ hi \in Nat /\ End(M) < hi
        /\ W = {x \in S : From(M) - SessionGap <= x.at /\ x.at < hi}
        /\ S \subseteq visits /\ W \subseteq S
        /\ Placed(S, Places(S)) /\ Placed(W, Places(W))
        /\ Runs(AllProbes, ip) = Chained(S, Places(S), SessionGap)
        /\ \A t \in W : From(M) <= t.at =>
             /\ t \in Starts(W, Places(W), SessionGap) <=> t \in Starts(S, Places(S), SessionGap)
             /\ t \in Starts(S, Places(S), SessionGap) =>
                  RunOf(W, Places(W), SessionGap, t)
                    = RunOf(S, Places(S), SessionGap, t) \cap W
    BY <1>3, Zenon
  <2>4. s.started = Started(R) /\ s.signature = Signature(R)
    BY <2>2, SpanFields
  <2>5. /\ R \subseteq W /\ R # {}
        /\ \E t \in Starts(W, Places(W), SessionGap) :
             R = RunOf(W, Places(W), SessionGap, t) /\ t.at = Started(R)
    BY <1>2, RunIsItsWindow
  <2> HIDE DEF S, W
  <2>6. PICK t \in Starts(W, Places(W), SessionGap) :
          R = RunOf(W, Places(W), SessionGap, t) /\ t.at = Started(R)
    BY <2>5
  <2>7. t \in W /\ From(M) <= t.at
    BY <1>4, <2>4, <2>6 DEF Starts
  <2> DEFINE Q == RunOf(S, Places(S), SessionGap, t)
             u == SpanOf(ip, Q)
  <2>8. t \in Starts(S, Places(S), SessionGap) /\ R = Q \cap W
    BY <2>3, <2>6, <2>7
  <2>9. Q \in Runs(AllProbes, ip)
    BY <2>3, <2>8, ChainIsRuns
  <2>10. /\ Q \subseteq S /\ Q # {}
         /\ \E r \in Starts(S, Places(S), SessionGap) :
              Q = RunOf(S, Places(S), SessionGap, r) /\ r.at = Started(Q)
    BY <1>2, <2>9, RunIsItsWindow DEF S
  <2>11. t \in Q /\ \A x \in Q : x = t \/ Before(Places(S), t, x)
    BY <2>3, <2>8, RunFacts
  <2>12. \A x \in S : x.at \in Nat /\ Places(S)[x][1] = x.at
    BY <2>3, RowsArePlaced DEF OrderedLog
  <2>13. \A x \in Q : t.at <= x.at
    <3>1. \A x \in Q : x = t \/ Places(S)[t][1] <= Places(S)[x][1]
      BY <2>3, <2>10, <2>11, PlacesAreOrdered
    <3> QED BY <2>10, <2>11, <2>12, <3>1
  <2>14. Started(Q) = t.at
    <3>1. /\ Started(Q) \in Nat /\ \E v \in Q : v.at = Started(Q)
          /\ \A v \in Q : Started(Q) <= v.at
      BY <2>3, <2>10, RunSpan
    <3>2. PICK v \in Q : v.at = Started(Q)
      BY <3>1
    <3>3. t.at <= Started(Q) /\ Started(Q) <= t.at /\ t.at \in Nat
      BY <2>10, <2>11, <2>12, <2>13, <3>1, <3>2
    <3> QED BY <3>1, <3>3
  <2> HIDE DEF Q
  <2>15. \A x \in Q : x \in R <=> x.at < hi
    <3> TAKE x \in Q
    <3>1. x.at \in Nat /\ t.at \in Nat /\ t.at <= x.at /\ x \in S
      BY <2>10, <2>11, <2>12, <2>13
    <3>2. From(M) - SessionGap <= x.at
      BY <1>1, <2>7, <3>1
    <3> QED BY <2>3, <2>8, <3>1, <3>2
  <2>16. \A x \in R, y \in Q \ R : x.id < y.id
    <3> TAKE x \in R, y \in Q \ R
    <3>1. x \in Q /\ x \in visits /\ y \in visits
      BY <2>3, <2>8, <2>10
    <3>2. x.at < hi /\ ~ (y.at < hi) /\ x.at \in Nat /\ y.at \in Nat
      BY <2>15, <3>1 DEF OrderedLog
    <3>3. x.at < y.at
      BY <2>3, <3>2
    <3> QED BY <3>1, <3>3 DEF OrderedLog
  <2>17. Signature(Q) = Signature(R)
    <3>1. Q \subseteq visits /\ R \subseteq Q
      BY <2>3, <2>8, <2>10
    <3> QED BY <2>2, <2>16, <3>1, SignatureOfPrefix
  <2>18. /\ u.signature = s.signature /\ u.started = s.started /\ u.ended = Ended(Q)
    BY <2>4, <2>6, <2>14, <2>17, SpanFields
  <2>19. u \in Spans(AllProbes)
    <3>1. ip \in Addresses(AllProbes)
      BY <2>10 DEF Addresses, S, OfAddress
    <3> QED BY <2>2, <2>9, <2>17, <3>1, SpansAreRuns
  <2>20. ASSUME u.ended <= End(M) PROVE u = s
    <3>1. Ended(Q) \in Nat /\ \A v \in Q : v.at <= Ended(Q)
      BY <2>3, <2>10, RunSpan
    <3>2. \A v \in Q : v.at < hi
      BY <1>1, <2>3, <2>10, <2>12, <2>18, <2>20, <3>1
    <3>3. Q = R
      BY <2>8, <2>15, <3>2
    <3> QED BY <2>2, <3>3
  <2> QED BY <2>18, <2>19, <2>20
<1>5. ASSUME NEW u \in Spans(AllProbes), From(M) <= u.started, u.ended <= End(M)
      PROVE  u \in Spans(rows)
  <2> DEFINE ip == u.ip
             S == OfAddress(AllProbes, ip)
             W == OfAddress(rows, ip)
             Q == u.rows
  <2>1. /\ Q \in Runs(AllProbes, ip) /\ u = SpanOf(ip, Q) /\ Signature(Q) # <<>>
        /\ Q # {} /\ u.started \in Nat /\ u.ended \in Nat
        /\ \A v \in Q : v.at \in Nat /\ u.started <= v.at /\ v.at <= u.ended
        /\ \E t \in Starts(S, Places(S), SessionGap) :
             Q = RunOf(S, Places(S), SessionGap, t) /\ t.at = u.started /\ t \in Q
    BY SpanIsRun
  <2> HIDE DEF ip, Q
  <2>2. /\ hi \in Nat /\ End(M) < hi
        /\ W = {x \in S : From(M) - SessionGap <= x.at /\ x.at < hi}
        /\ Placed(S, Places(S)) /\ Placed(W, Places(W))
        /\ Runs(rows, ip) = Chained(W, Places(W), SessionGap)
        /\ \A t \in W : From(M) <= t.at =>
             /\ t \in Starts(W, Places(W), SessionGap) <=> t \in Starts(S, Places(S), SessionGap)
             /\ t \in Starts(S, Places(S), SessionGap) =>
                  RunOf(W, Places(W), SessionGap, t)
                    = RunOf(S, Places(S), SessionGap, t) \cap W
    BY <1>3, Zenon
  <2>3. \A v \in W : v.ip = ip /\ v \in rows
    BY DEF W, OfAddress
  <2>4. PICK t \in Starts(S, Places(S), SessionGap) :
          Q = RunOf(S, Places(S), SessionGap, t) /\ t.at = u.started /\ t \in Q
    BY <2>1
  <2>5. Q \subseteq S
    BY <2>4 DEF RunOf
  <2> HIDE DEF S, W
  <2>6. Q \subseteq W
    <3> SUFFICES ASSUME NEW v \in Q PROVE v \in W
      OBVIOUS
    <3>1. v.at \in Nat /\ u.started <= v.at /\ v.at <= u.ended
      BY <2>1
    <3>2. From(M) - SessionGap <= v.at /\ v.at < hi
      BY <1>1, <1>5, <2>1, <2>2, <3>1
    <3> QED BY <2>2, <2>5, <3>2
  <2>7. t \in W /\ From(M) <= t.at
    BY <1>5, <2>4, <2>6
  <2>8. t \in Starts(W, Places(W), SessionGap) /\ RunOf(W, Places(W), SessionGap, t) = Q
    BY <2>2, <2>4, <2>6, <2>7
  <2>9. Q \in Runs(rows, ip)
    BY <2>2, <2>8, ChainIsRuns
  <2>10. ip \in Addresses(rows)
    BY <2>3, <2>7 DEF Addresses
  <2> QED BY <2>1, <2>9, <2>10, SpansAreRuns
<1> QED BY <1>4, <1>5 DEF rows

\* The panel of an event lists its members and no other session.
LEMMA PanelIsMembers ==
    ASSUME OrderedLog, Hours \in Nat \ {0}, SessionGap \in Nat, IncidentGap \in Nat,
           SignaturePaths \in Nat \ {0}, NEW sig,
           NEW M \in Chained(Signed(sig), SpanPlaces(Signed(sig)), IncidentGap)
    PROVE  PanelSpans(Incident(M)) = M
<1>1. /\ M \subseteq Signed(sig) /\ M \subseteq Spans(AllProbes) /\ IsFiniteSet(M) /\ M # {}
      /\ \A u \in Signed(sig) : From(M) <= u.started /\ u.started <= Last(M) => u \in M
  BY EventHasNoGap
<1>2. /\ From(M) \in Nat /\ Last(M) \in Nat /\ End(M) \in Nat
      /\ \A s \in M : From(M) <= s.started /\ s.started <= Last(M) /\ s.ended <= End(M)
  BY <1>1, SpanBounds
<1>3. Incident(M).signature = sig
  <2>1. (CHOOSE s \in M : TRUE) \in M
    BY <1>1
  <2>2. \A s \in M : s.signature = sig
    BY <1>1 DEF Signed
  <2> QED BY <2>1, <2>2, IncidentSays
<1>4. PanelSpans(Incident(M)) = {s \in Spans(PanelRows(M)) :
                                   s.signature = sig /\ s.started \in From(M) .. Last(M)}
  BY <1>3, IncidentSays DEF PanelSpans, PanelRows
<1>5. /\ \A s \in Spans(PanelRows(M)) : From(M) <= s.started =>
           \E u \in Spans(AllProbes) :
              /\ u.signature = s.signature /\ u.started = s.started
              /\ u.ended <= End(M) => u = s
      /\ \A u \in Spans(AllProbes) : From(M) <= u.started /\ u.ended <= End(M) =>
           u \in Spans(PanelRows(M))
  BY <1>1, PanelReadsSpans
<1>6. ASSUME NEW s \in Spans(PanelRows(M)), s.signature = sig, s.started \in From(M) .. Last(M)
      PROVE  s \in M
  <2>1. From(M) <= s.started /\ s.started <= Last(M)
    BY <1>2, <1>6
  <2>2. PICK u \in Spans(AllProbes) : /\ u.signature = s.signature /\ u.started = s.started
                                      /\ u.ended <= End(M) => u = s
    BY <1>5, <2>1
  <2>3. u \in Signed(sig)
    BY <1>6, <2>2 DEF Signed
  <2>4. u \in M
    BY <1>1, <2>1, <2>2, <2>3
  <2> QED BY <1>2, <2>2, <2>4
<1>7. ASSUME NEW s \in M
      PROVE  s \in Spans(PanelRows(M)) /\ s.signature = sig /\ s.started \in From(M) .. Last(M)
  <2>1. s.started \in Nat
    BY <1>1, SpanIsRun
  <2> QED BY <1>1, <1>2, <1>5, <2>1 DEF Signed
<1> QED BY <1>4, <1>6, <1>7

RowsAt(rows, p) == {v \in rows : v.path = p}

\* Rows counted by their paths add up to their number.
LEMMA CountByPath ==
    ASSUME NEW rows, IsFiniteSet(rows), NEW of, DOMAIN of = PathsOf(rows),
           \A p \in PathsOf(rows) : of[p] = Cardinality(RowsAt(rows, p))
    PROVE  Sum(of) = Cardinality(rows)
<1> DEFINE K == PathsOf(rows)
           G == [p \in K |-> RowsAt(rows, p)]
           path == [v \in rows |-> v.path]
<1>1. K = {path[v] : v \in rows} /\ DOMAIN path = rows
  BY DEF PathsOf
<1>2. /\ \A p \in K : G[p] \subseteq rows
      /\ \A v \in rows : \E p \in K : v \in G[p]
      /\ \A p, q \in K : p # q => G[p] \cap G[q] = {}
  BY DEF RowsAt, PathsOf
<1>3. /\ DOMAIN of = K /\ \A p \in K : of[p] = Cardinality(G[p])
  OBVIOUS
<1> HIDE DEF K, G, path
<1>4. IsFiniteSet(K)
  BY <1>1, ImageCount
<1> QED BY <1>2, <1>3, <1>4, PartsOf

\* The rows of distinct spans add up, one by one and path by path.
LEMMA PanelAddsUp ==
    ASSUME OrderedLog, SessionGap \in Nat, NEW M, M \subseteq Spans(AllProbes), IsFiniteSet(M),
           NEW rows, rows = UNION {s.rows : s \in M},
           NEW of, DOMAIN of = PathsOf(rows),
           \A p \in PathsOf(rows) : of[p] = Cardinality(RowsAt(rows, p))
    PROVE  Sum(of) = Sum([s \in M |-> Cardinality(s.rows)])
<1> DEFINE f == [s \in M |-> Cardinality(s.rows)]
           F == [s \in M |-> s.rows]
<1>1. DOMAIN f = M /\ \A s \in M : f[s] = Cardinality(F[s]) /\ F[s] = s.rows
  OBVIOUS
<1>2. rows = UNION {F[s] : s \in M}
  BY Zenon
<1>3. rows \subseteq visits /\ IsFiniteSet(rows)
  <2>1. \A s \in M : s.rows \subseteq visits
    BY SpanIsRun
  <2>2. rows \subseteq visits
    BY <2>1
  <2> QED BY <2>2, FS_Subset DEF OrderedLog, FiniteLog
<1> HIDE DEF f, F
<1>4. \A s \in M : IsFiniteSet(F[s])
  BY <1>1, SpanIsRun
<1>5. ASSUME NEW s \in M, NEW u \in M, s # u PROVE F[s] \cap F[u] = {}
  <2> SUFFICES ASSUME NEW x, x \in F[s], x \in F[u] PROVE FALSE
    OBVIOUS
  <2>1. x \in s.rows /\ x \in u.rows /\ s \in Spans(AllProbes) /\ u \in Spans(AllProbes)
    BY <1>1
  <2>2. s = u
    BY <2>1, SpansApart
  <2> QED BY <1>5, <2>2
<1>6. Sum(f) = Cardinality(rows)
  <2>1. (\A s \in M : F[s] \subseteq rows) /\ \A v \in rows : \E s \in M : v \in F[s]
    BY <1>2
  <2> QED BY <1>1, <1>3, <1>5, <2>1, PartsOf
<1>7. Sum(of) = Cardinality(rows)
  BY <1>3, CountByPath
<1> QED BY <1>6, <1>7 DEF f

\* The panel states what the row states.
LEMMA PanelStatesTheRow ==
    ASSUME OrderedLog, Hours \in Nat \ {0}, SessionGap \in Nat, IncidentGap \in Nat,
           SignaturePaths \in Nat \ {0}, NEW sig,
           NEW M \in Chained(Signed(sig), SpanPlaces(Signed(sig)), IncidentGap)
    PROVE  PanelMatches(Incident(M))
<1> DEFINE incident == Incident(M)
           paths == IncidentPaths(incident)
           rows == UNION {s.rows : s \in M}
           of == [p \in DOMAIN paths |-> paths[p].requests]
<1>1. PanelSpans(incident) = M
  BY PanelIsMembers
<1>2. M \subseteq Signed(sig) /\ M \subseteq Spans(AllProbes) /\ IsFiniteSet(M) /\ M # {}
  BY EventHasNoGap
<1>3. paths = [p \in PathsOf(rows) |->
                 [addresses |-> Addresses({v \in rows : v.path = p}),
                  requests |-> Cardinality({v \in rows : v.path = p})]]
  BY <1>1, Zenon DEF IncidentPaths, PathsOf
<1>4. /\ incident.members = {s.ip : s \in M}
      /\ incident.probe_404 = Sum([s \in M |-> Cardinality(s.rows)])
      /\ incident.signature = (CHOOSE s \in M : TRUE).signature
  BY IncidentSays
<1> HIDE DEF incident, paths
<1>5. /\ DOMAIN paths = PathsOf(rows)
      /\ \A p \in PathsOf(rows) : paths[p].requests = Cardinality({v \in rows : v.path = p})
  BY <1>3
<1>6. Sum(of) = incident.probe_404
  <2>1. DOMAIN of = PathsOf(rows)
    BY <1>5
  <2>2. \A p \in PathsOf(rows) : of[p] = Cardinality(RowsAt(rows, p))
    BY <1>5 DEF RowsAt
  <2>3. rows = UNION {s.rows : s \in M}
    OBVIOUS
  <2> HIDE DEF of, rows
  <2> QED BY <1>2, <1>4, <2>1, <2>2, <2>3, PanelAddsUp
<1>7. \A k \in DOMAIN incident.signature : incident.signature[k] \in DOMAIN paths
  <2> DEFINE s == CHOOSE s \in M : TRUE
  <2>1. s \in M
    BY <1>2
  <2> HIDE DEF s
  <2>2. incident.signature = Signature(s.rows) /\ Signature(s.rows) # <<>> /\ s.rows \subseteq visits
    BY <1>2, <1>4, <2>1, SpanIsRun DEF s
  <2>3. \A k \in DOMAIN Signature(s.rows) : Signature(s.rows)[k] \in PathsOf(s.rows)
    BY <2>2, SignatureIsOfPaths
  <2>4. PathsOf(s.rows) \subseteq PathsOf(rows)
    BY <2>1 DEF PathsOf
  <2> HIDE DEF rows
  <2> QED BY <1>5, <2>2, <2>3, <2>4
<1> QED BY <1>1, <1>4, <1>6, <1>7, Zenon DEF PanelMatches, incident, paths

\* Every row of the unbounded page is an event, and its panel states what it states.
LEMMA PanelsMatch ==
    ASSUME OrderedLog, Hours \in Nat \ {0}, SessionGap \in Nat, IncidentGap \in Nat,
           SignaturePaths \in Nat \ {0}
    PROVE  PanelMatchesRow
<1> SUFFICES ASSUME NEW incident \in GetIncidents(None, None) PROVE PanelMatches(incident)
  BY DEF PanelMatchesRow
<1> DEFINE signatures == {s.signature : s \in Spans(AllProbes)}
           events(sig) == Chained(Signed(sig), SpanPlaces(Signed(sig)), IncidentGap)
<1>1. GetIncidents(None, None) =
        {Incident(run) : run \in {r \in UNION {events(sig) : sig \in signatures} :
                                    Cardinality({s.ip : s \in r}) >= MinAddresses}}
  BY Zenon DEF GetIncidents, Signed, SpanPlaces, AllProbes
<1> HIDE DEF signatures, events
<1>2. PICK run \in UNION {events(sig) : sig \in signatures} : incident = Incident(run)
  BY <1>1
<1>3. \E sig \in signatures : run \in events(sig)
  BY <1>2
<1>4. PICK sig : run \in events(sig)
  BY <1>3
<1> QED BY <1>2, <1>4, PanelStatesTheRow DEF events

\* Rows numbered in the order of their moments.
Numbered(S) ==
  /\ IsFiniteSet(S)
  /\ \A v \in S : v.id \in Nat /\ v.at \in Nat /\ v.ip \in Nat /\ v.id <= Cardinality(S)
  /\ \A v, w \in S : v.id = w.id => v = w
  /\ \A v, w \in S : v.at < w.at => v.id < w.id

\* One more row, not before the others, takes the next number.
LEMMA OneMore ==
    ASSUME NEW S, Numbered(S), NEW row, row.id = Cardinality(S) + 1,
           row.at \in Nat, row.ip \in Nat, \A v \in S : v.at <= row.at
    PROVE  Numbered(S \union {row}) /\ Cardinality(S \union {row}) = Cardinality(S) + 1
<1> DEFINE n == Cardinality(S)
           T == S \union {row}
<1>1. n \in Nat /\ IsFiniteSet(S)
  BY FS_CardinalityType DEF Numbered
<1>2. \A v \in S : v.id \in Nat /\ v.id <= n /\ v.at \in Nat
  BY DEF Numbered
<1> HIDE DEF n
<1>3. row.id = n + 1
  BY DEF n
<1>4. row \notin S
  BY <1>1, <1>2, <1>3
<1>5. IsFiniteSet(T) /\ Cardinality(T) = n + 1
  BY <1>1, <1>4, FS_AddElement DEF n
<1>6. \A v \in T : v.id \in Nat /\ v.at \in Nat /\ v.ip \in Nat /\ v.id <= n + 1
  BY <1>1, <1>2, <1>3 DEF Numbered
<1>7. \A v \in S : v.id < row.id /\ ~ (row.at < v.at)
  BY <1>1, <1>2, <1>3
<1>8. \A v, w \in T : v.id = w.id => v = w
  BY <1>2, <1>6, <1>7 DEF Numbered
<1>9. \A v, w \in T : v.at < w.at => v.id < w.id
  BY <1>6, <1>7 DEF Numbered
<1> QED BY <1>5, <1>6, <1>8, <1>9 DEF Numbered, n

\* The columns of a row.
LEMMA RowColumns ==
    ASSUME NEW id, NEW ip, NEW at, NEW request
    PROVE  /\ Row(id, ip, at, request).id = id
           /\ Row(id, ip, at, request).ip = ip
           /\ Row(id, ip, at, request).at = at
           /\ \A c \in DOMAIN request : c \notin {"id", "ip", "at"} =>
                Row(id, ip, at, request)[c] = request[c]
BY DEF Row

\* A sweep is numbered on, path by path.
LEMMA SweepIsNumbered ==
    ASSUME Numbered(visits), NEW ip \in Nat, NEW at \in Nat, NEW paths \in Sweeps,
           \A v \in visits : v.at <= at
    PROVE  Numbered(visits \union {Row(Cardinality(visits) + k, ip, at, Probe(paths[k])) :
                                     k \in DOMAIN paths})
<1> DEFINE n == Cardinality(visits)
           row(k) == Row(n + k, ip, at, Probe(paths[k]))
           rows == {row(k) : k \in DOMAIN paths}
           one == visits \union {row(1)}
<1>1. n \in Nat
  BY FS_CardinalityType DEF Numbered
<1>2. \A k \in Nat : row(k).id = n + k /\ row(k).at = at /\ row(k).ip = ip
  BY RowColumns
<1>3. DOMAIN paths = {1} \/ DOMAIN paths = {1, 2}
  BY DEF Sweeps
<1> HIDE DEF row
<1>4. rows = {row(1)} \/ rows = {row(1)} \union {row(2)}
  BY <1>3
<1>5. Numbered(one) /\ Cardinality(one) = n + 1
  BY <1>2, OneMore
<1>6. Numbered(one \union {row(2)})
  <2>1. \A v \in one : v.at <= at
    BY <1>2
  <2>2. row(2).id = Cardinality(one) + 1
    BY <1>1, <1>2, <1>5
  <2> HIDE DEF one
  <2> QED BY <1>2, <1>5, <2>1, <2>2, OneMore
<1>7. visits \union rows = one \/ visits \union rows = one \union {row(2)}
  <2> HIDE DEF rows
  <2> QED BY <1>4
<1>8. Numbered(visits \union rows)
  BY <1>5, <1>6, <1>7
<1> QED BY <1>8 DEF row

\* What the sessions and the incidents need of the log.
SessionsInv ==
  /\ part \in {"sessions", "incidents"} => Numbered(visits)
  /\ part = "sessions" => \A v \in visits : v.path \in Pseudo => ~ IsOk(v)

\* It holds of the empty log.
LEMMA SessionsInit == Init => SessionsInv
<1> SUFFICES ASSUME Init PROVE SessionsInv
  OBVIOUS
<1>1. visits = {}
  BY DEF Init
<1> QED BY <1>1, FS_EmptySet DEF SessionsInv, Numbered

\* A request and a sweep that are recorded keep it.
LEMMA SessionsStep ==
    ASSUME SessionsInv, [Next]_<<rowVars, part>>
    PROVE  SessionsInv'
<1>1. part' = part
  BY DEF Next, RecordOne, LearnOne
<1>2. ASSUME part = "sessions", NEW r \in SessionRequests, NEW at \in {0, 1, 3}, Record(1, at, r)
      PROVE  Numbered(visits') /\ \A v \in visits' : v.path \in Pseudo => ~ IsOk(v)
  <2> DEFINE row == Row(Cardinality(visits) + 1, 1, at, r)
  <2>1. visits' = visits \union {row} /\ \A v \in visits : v.at <= at
    BY <1>2 DEF Record
  <2>2. {"path", "status"} \subseteq DOMAIN r
    BY DEF SessionRequests, Visit
  <2>3. /\ row.id = Cardinality(visits) + 1 /\ row.ip = 1 /\ row.at = at
        /\ row.path = r.path /\ row.status = r.status
    BY <2>2, RowColumns
  <2>4. Numbered(visits) /\ \A v \in visits : v.path \in Pseudo => ~ IsOk(v)
    BY <1>2 DEF SessionsInv
  <2> HIDE DEF row
  <2>5. Numbered(visits')
    BY <2>1, <2>3, <2>4, OneMore
  <2>6. row.path \in Pseudo => ~ IsOk(row)
    BY <2>3, PseudoAssumption DEF IsOk
  <2> QED BY <2>1, <2>4, <2>5, <2>6
<1>3. ASSUME part = "incidents", NEW ip \in {1, 2}, NEW at \in 3 .. 6, NEW s \in Sweeps,
             RecordSweep(ip, at, s)
      PROVE  Numbered(visits')
  <2>1. /\ visits' = visits \union {Row(Cardinality(visits) + k, ip, at, Probe(s[k])) :
                                      k \in DOMAIN s}
        /\ \A v \in visits : v.at <= at
    BY <1>3 DEF RecordSweep
  <2>2. Numbered(visits) /\ ip \in Nat /\ at \in Nat
    BY <1>3 DEF SessionsInv
  <2> QED BY <2>1, <2>2, SweepIsNumbered
<1>4. CASE RecordOne
  <2>1. CASE part = "sessions"
    BY <1>1, <1>2, <1>4, <2>1 DEF RecordOne, SessionsInv
  <2>2. CASE part = "incidents"
    BY <1>1, <1>3, <1>4, <2>2 DEF RecordOne, SessionsInv
  <2> QED BY <1>1, <2>1, <2>2 DEF SessionsInv
<1>5. CASE visits' = visits
  BY <1>1, <1>5 DEF SessionsInv
<1>6. CASE LearnOne
  BY <1>5, <1>6 DEF LearnOne, Learn
<1>7. CASE UNCHANGED <<rowVars, part>>
  BY <1>5, <1>7 DEF rowVars
<1> QED BY <1>4, <1>6, <1>7 DEF Next

\* For every pair of gaps, every length of a signature, every threshold and every path table: the bounds
\* of a session list its own requests and no other, the sessions cover the address, and the
\* panel under an incident lists the sessions, the probes and the paths its row counts.
THEOREM SessionsAnswerForTheirBounds == Spec => []SessionsAndPanelsMatch
<1>1. Hours \in Nat \ {0} /\ {SessionGap, IncidentGap, SignaturePaths} \subseteq Nat \ {0}
  BY QueriesAssumption DEF RowsAssumption, SessionsAssumption
<1>2. SessionsInv => SessionsAndPanelsMatch
  <2> SUFFICES ASSUME SessionsInv PROVE SessionsAndPanelsMatch
    OBVIOUS
  <2>1. Numbered(visits) => OrderedLog
    BY DEF Numbered, OrderedLog, FiniteLog
  <2>2. part = "sessions" => SessionSelectsItsRows
    BY <1>1, <2>1, SessionsMatch DEF SessionsInv
  <2>3. part = "incidents" => PanelMatchesRow
    BY <1>1, <2>1, PanelsMatch DEF SessionsInv
  <2> QED BY <2>2, <2>3 DEF SessionsAndPanelsMatch
<1>3. SessionsInv /\ [Next]_<<rowVars, part>> => SessionsInv'
  BY SessionsStep
<1> QED BY <1>2, <1>3, SessionsInit, PTL DEF Spec
=============================================================================

----------------------------- MODULE Comparisons -----------------------------
(***************************************************************************)
(* The window a page shows and what its figures are compared with: the     *)
(* range and the cookie that carries it from page to page, the span before *)
(* it (routes/_range.py), and the typical hour and day against which one   *)
(* is called unusual (queries/baseline.py, queries/stats.py).              *)
(*                                                                         *)
(* A date is the number of its day; an hour is HourUnits of time.  A       *)
(* median may lie between two whole numbers, so twice its value is kept.   *)
(***************************************************************************)
EXTENDS Selection

CONSTANTS Presets,       \* range key -> its days
          DefaultRange,  \* the key of an untouched dashboard
          HourUnits, BaselineDays, MinBaselineDays, UnusualFactor, MinAbsolute,
          TorDays        \* the days today's Tor traffic is compared with

ComparisonsAssumption ==
  /\ DefaultRange \in DOMAIN Presets /\ \A key \in DOMAIN Presets : Presets[key] \in Nat \ {0}
  /\ {HourUnits, BaselineDays, MinBaselineDays, UnusualFactor, MinAbsolute, TorDays}
       \subseteq Nat \ {0}
  /\ Hours % HourUnits = 0 /\ MinBaselineDays <= BaselineDays

-----------------------------------------------------------------------------
(* The range of a page (routes/_range.py) *)

Window(from, to, active) == [from |-> from, to |-> to, active |-> active]
NoMemory == Window(None, None, "")
RangeKeys == DOMAIN Presets \union {"all"}

\* Explicit dates win over a preset, the address wins over what is remembered,
\* bounds the wrong way round are swapped, and nothing at all is the default.
ResolveRange(key, from, to, remembered, today) ==
  LET silent == key = "" /\ from = None /\ to = None
      asked == IF ~ silent THEN Window(from, to, key)
               ELSE IF remembered.active = "custom" THEN [remembered EXCEPT !.active = ""]
               ELSE remembered
      swapped == asked.from # None /\ asked.to # None /\ asked.from > asked.to
      chosen == IF asked.active \in RangeKeys THEN asked.active ELSE DefaultRange
  IN  CASE swapped -> Window(asked.to, asked.from, "custom")
        [] ~ swapped /\ (asked.from # None \/ asked.to # None) ->
             Window(asked.from, asked.to, "custom")
        [] OTHER -> IF chosen = "all" THEN Window(None, None, "all")
                    ELSE Window(today - Presets[chosen] + 1, today, chosen)

\* The cookie: the key, or the dates of a custom window.
RememberRange(w) ==
  IF w.active = "custom" THEN w ELSE Window(None, None, w.active)

\* It is input like any other: what is not a range we offer is no memory.
RememberedRange(cookie) ==
  IF \/ cookie.active \in RangeKeys
     \/ cookie.active = "custom" /\ (cookie.from # None \/ cookie.to # None)
  THEN cookie ELSE NoMemory

Since(w) == IF w.from = None THEN None ELSE w.from * Hours
Until(w) == IF w.to = None THEN None ELSE w.to * Hours

\* The same span again, immediately before; an open window has none.
PreviousWindow(w) ==
  IF w.from = None \/ w.to = None THEN NoMemory
  ELSE LET span == w.to - w.from + 1
       IN  Window(w.from - span, w.from - 1, "previous")

\* What the delta of the Overview compares with.
PreviousVisits(w) ==
  LET before == PreviousWindow(w)
      kpis == DailyKPIs(Since(before), Until(before))
  IN  IF before.from = None THEN 0
      ELSE Sum([day \in DOMAIN kpis |-> kpis[day].visits])

-----------------------------------------------------------------------------
(* What is typical (queries/baseline.py) *)

\* Broken variant of MedianTwice: the silent slots are left out.
MedianTwiceOfActive(f, slots) ==
  LET n == Cardinality(DOMAIN f)
      at(k) == Least({x \in {f[h] : h \in DOMAIN f} :
                        Cardinality({h \in DOMAIN f : f[h] <= x}) >= k})
  IN  IF n = 0 THEN 0
      ELSE IF n % 2 = 1 THEN 2 * at(n \div 2 + 1) ELSE at(n \div 2) + at(n \div 2 + 1)

\* Twice the median of the values of f, padded with zeros up to `slots`: a slot
\* without traffic has no row.
MedianTwice(f, slots) ==
  LET active == Cardinality(DOMAIN f)
      n == IF slots > active THEN slots ELSE active
      upTo(x) == n - active + Cardinality({h \in DOMAIN f : f[h] <= x})
      at(k) == Least({x \in {0} \union {f[h] : h \in DOMAIN f} : upTo(x) >= k})
  IN  IF slots <= 0 THEN 0
      ELSE IF n % 2 = 1 THEN 2 * at(n \div 2 + 1) ELSE at(n \div 2) + at(n \div 2 + 1)

Measures == {"requests", "probing_addresses"}
Measure(rows, name) ==
  IF name = "requests" THEN Requests(rows)
  ELSE Distinct({v \in rows : v.status = 404 /\ v.path \notin Convention})

Hour(at) == at \div HourUnits
PerHour(rows, name) ==
  [h \in {Hour(v.at) : v \in rows} |-> Measure({v \in rows : Hour(v.at) = h}, name)]

Spike(f, slots, current, factor, least) ==
  LET twice == MedianTwice(f, slots)
  IN  [twice |-> twice, current |-> current,
       unusual |-> twice > 0 /\ current >= least /\ 2 * current >= factor * twice]

\* The last complete hour against the hours of BaselineDays before it; silent
\* below MinBaselineDays of history.
LastHour(now) == Hour(now) - 1
BaselineRows(now) ==
  {v \in visits : /\ Hour(v.at) < LastHour(now)
                  /\ v.at >= LastHour(now) * HourUnits - BaselineDays * Hours}
History(now) == LastHour(now) * HourUnits - Least({v.at : v \in visits})
EnoughHistory(now) == visits # {} /\ History(now) >= MinBaselineDays * Hours

HourlyBaseline(now) ==
  LET all == BaselineDays * Hours
      slots == (IF History(now) < all THEN History(now) ELSE all) \div HourUnits
      current == {v \in visits : Hour(v.at) = LastHour(now)}
  IN  [name \in Measures |->
         Spike(PerHour(BaselineRows(now), name), slots, Measure(current, name),
               UnusualFactor, MinAbsolute)]

\* A typical hour of a window, to place a past event against.
TypicalHour(since, until) ==
  LET rows == Within(visits, since, until)
      span == Greatest({v.at : v \in rows}) - Least({v.at : v \in rows})
      active == Cardinality({Hour(v.at) : v \in rows})
      slots == span \div HourUnits + 1
      hours == IF slots > active THEN slots ELSE active
  IN  IF rows = {} THEN [hours |-> 0, twice |-> [name \in Measures |-> 0]]
      ELSE [hours |-> hours,
            twice |-> [name \in Measures |-> MedianTwice(PerHour(rows, name), hours)]]

\* Today's Tor requests against the days before; two of them make a finding.
TorRows == {v \in visits : "is_tor" \in Intel(v.ip).flags}
TorBefore(now) ==
  LET rows == {v \in TorRows : v.at >= now - TorDays * Hours /\ Day(v.at) < Day(now)}
  IN  [day \in {Day(v.at) : v \in rows} |-> Requests({v \in rows : Day(v.at) = day})]
TorSpike(now) ==
  Spike(TorBefore(now), TorDays, Requests({v \in TorRows : Day(v.at) >= Day(now)}), 2, 1)

-----------------------------------------------------------------------------
(* What they promise *)

\* What an address asks for, and the windows that are shown for it.
Asking(today) ==
  LET dates == {None} \union today - 3 .. today - 1
  IN  [from : dates, to : dates, active : {"", "all", "unknown"} \union DOMAIN Presets]
Windowed(today) ==
  {ResolveRange(a.active, a.from, a.to, NoMemory, today) : a \in Asking(today)}

\* The days are numbered from long enough before the ranges asked for.
LongAgo(today) ==
  today >= 6 /\ \A key \in DOMAIN Presets : today + 1 >= 2 * Presets[key]

\* A page opened without a range after any other shows the window the other one
\* showed, and no window runs backwards (_resolve_range, _remember_range,
\* _remembered_range).
WindowIsCarried(today) ==
  \A w \in Windowed(today) :
     /\ ResolveRange("", None, None, RememberedRange(RememberRange(w)), today) = w
     /\ w.from # None /\ w.to # None => w.from <= w.to

\* The delta compares with a span as long as the window, directly before it: the
\* two together hold what one window over both holds.
DeltaIsAdjacent(today) ==
  \A w \in Windowed(today) :
     LET before == PreviousWindow(w)
     IN  before # NoMemory =>
           /\ before.to - before.from = w.to - w.from
           /\ PreviousVisits(w) + Stats(Since(w), Until(w)).total_visits
                = Stats(Since(before), Until(w)).total_visits

\* A spike means what it says: at least half of the slots before it held at most
\* its share, and one that is not reported has busier slots in its way.
SpikeIsFair(spike, f, slots, factor, least, missing) ==
  LET count(s) == IF s \in DOMAIN f THEN f[s] ELSE 0
      below == {s \in slots : factor * count(s) <= spike.current}
  IN  /\ spike.unusual => 2 * Cardinality(below) >= Cardinality(slots)
      /\ (spike.twice > 0 /\ spike.current >= least /\ ~ spike.unusual) =>
           2 * Cardinality(slots \ below) + missing >= Cardinality(slots)

\* Against the hours and the days before, the silent ones included.  A log that
\* begins inside an hour is one slot short of the hours it touches.
SpikesAreFair(now) ==
  /\ EnoughHistory(now) =>
       LET first == Greatest({Hour(Least({v.at : v \in visits})),
                              LastHour(now) - (BaselineDays * Hours) \div HourUnits})
       IN  \A name \in Measures :
              SpikeIsFair(HourlyBaseline(now)[name], PerHour(BaselineRows(now), name),
                          first .. LastHour(now) - 1, UnusualFactor, MinAbsolute, 1)
  /\ SpikeIsFair(TorSpike(now), TorBefore(now), Day(now) - TorDays .. Day(now) - 1, 2, 1, 0)

\* What an incident is placed against holds for half of the hours its window
\* spans, at least.
TypicalIsMiddling(since, until) ==
  LET rows == Within(visits, since, until)
      hours == {Hour(v.at) : v \in rows}
      typical == TypicalHour(since, until)
  IN  rows # {} =>
        /\ typical.hours <= Greatest(hours) - Least(hours) + 1
        /\ \A name \in Measures :
             LET f == PerHour(rows, name)
                 count(h) == IF h \in hours THEN f[h] ELSE 0
                 span == Least(hours) .. Greatest(hours)
             IN  2 * Cardinality({h \in span : 2 * count(h) <= typical.twice[name]})
                   >= Cardinality(span)
=============================================================================

-------------------------------- MODULE Pacing --------------------------------
(***************************************************************************)
(* How the enrichment worker keeps to what its free providers allow: the   *)
(* pacing and the cooldown of the Shodan lookups of one batch, and the     *)
(* cached list of Tor exits (src/enricher.py).                             *)
(*                                                                         *)
(* The lookups of a batch run concurrently, bounded by a semaphore; each   *)
(* await is a point where the others may run.  Batches follow one another, *)
(* and the Tor list is asked for once in each.                             *)
(***************************************************************************)
EXTENDS Integers, FiniteSets

CONSTANTS
    Lookup,         \* the lookups of a batch
    Concurrency,    \* settings.shodan_concurrency
    Interval,       \* 60 / settings.shodan_requests_per_minute
    Cooldown,       \* settings.shodan_cooldown_seconds
    TorTTL,         \* settings.tor_cache_ttl_seconds
    TorRetry,       \* _TOR_RETRY_AFTER_FAILURE_S
    MaxTime,        \* bound: the clock
    MaxBatches      \* bound: batches

\* What the constants must be; MCService assumes it.
PacingAssumption ==
    /\ Concurrency \in Nat \ {0} /\ Interval \in Nat \ {0} /\ Cooldown \in Nat
    /\ TorTTL \in Nat /\ TorRetry \in Nat /\ MaxTime \in Nat /\ MaxBatches \in Nat

VARIABLES
    clock,
    nextAt,         \* _RateGate._next_at
    resumeAt,       \* _RateGate._resume_at
    lookup,         \* _fetch_shodan_bounded() of each address
    lastSent,       \* history: when the last request left, -1 before any
    crowded,        \* history: two left within an interval
    overrun,        \* history: requests sent since the 429 that started the cooldown
    tor,            \* _tor_exits, _tor_exits_loaded_at and _tor_exits_failed_at
    asked,          \* history: when a download of the list failed last
    hasty,          \* history: a download within TorRetry of a failure
    batch

shodanVars == <<nextAt, resumeAt, lookup, lastSent, crowded, overrun>>
torVars == <<tor, asked, hasty>>
vars == <<clock, shodanVars, torVars, batch>>

Queued == [pc |-> "queued", at |-> 0]

InCooldown == clock < resumeAt

\* Holders of _SHODAN_SEM.
Inside == {l \in Lookup : lookup[l].pc \in {"turn", "asked"}}

Greatest(a, b) == IF a > b THEN a ELSE b

Init ==
    /\ clock = 0 /\ nextAt = 0 /\ resumeAt = 0
    /\ lookup = [l \in Lookup |-> Queued]
    /\ lastSent = -1 /\ crowded = FALSE /\ overrun = 0
    /\ tor = [exits |-> "none", loaded |-> 0, failed |-> 0]
    /\ asked = -1 /\ hasty = FALSE
    /\ batch = 1

-----------------------------------------------------------------------------
(* Shodan *)

End(l, how) == lookup' = [lookup EXCEPT ![l] = [pc |-> how, at |-> 0]]

\* The cooldown is looked at when the lookup enters, ...
SkipInCooldown(l) ==
    /\ lookup[l].pc = "queued" /\ Cardinality(Inside) < Concurrency
    /\ InCooldown
    /\ End(l, "silent")
    /\ UNCHANGED <<clock, nextAt, resumeAt, lastSent, crowded, overrun, torVars, batch>>

\* Broken variant of TakeTurn: each waits from now on, not from the last turn.
TakeTurnUnserialised(l) ==
    /\ lookup[l].pc = "queued" /\ Cardinality(Inside) < Concurrency
    /\ ~InCooldown
    /\ lookup' = [lookup EXCEPT ![l] = [pc |-> "turn", at |-> Greatest(clock, nextAt)]]
    /\ nextAt' = clock + Interval
    /\ UNCHANGED <<clock, resumeAt, lastSent, crowded, overrun, torVars, batch>>

\* Broken variant of TakeTurn: the cooldown is not looked at.
TakeTurnAnyway(l) ==
    /\ lookup[l].pc = "queued" /\ Cardinality(Inside) < Concurrency
    /\ lookup' = [lookup EXCEPT ![l] = [pc |-> "turn", at |-> Greatest(clock, nextAt)]]
    /\ nextAt' = Greatest(clock, nextAt) + Interval
    /\ UNCHANGED <<clock, resumeAt, lastSent, crowded, overrun, torVars, batch>>

\* ... and _RateGate.wait() gives it the next free turn.
TakeTurn(l) ==
    /\ lookup[l].pc = "queued" /\ Cardinality(Inside) < Concurrency
    /\ ~InCooldown
    /\ lookup' = [lookup EXCEPT ![l] = [pc |-> "turn", at |-> Greatest(clock, nextAt)]]
    /\ nextAt' = Greatest(clock, nextAt) + Interval
    /\ UNCHANGED <<clock, resumeAt, lastSent, crowded, overrun, torVars, batch>>

\* The sleep ends on time: MayTick keeps the clock from passing a turn.
Send(l) ==
    /\ lookup[l].pc = "turn" /\ lookup[l].at <= clock
    /\ lookup' = [lookup EXCEPT ![l] = [pc |-> "asked", at |-> 0]]
    /\ lastSent' = clock
    /\ crowded' = (crowded \/ (lastSent >= 0 /\ clock - lastSent < Interval))
    /\ overrun' = IF InCooldown THEN overrun + 1 ELSE overrun
    /\ UNCHANGED <<clock, nextAt, resumeAt, torVars, batch>>

\* An answer, a 404, a timeout, a 5xx or an unreadable body.
Answered(l) ==
    /\ lookup[l].pc = "asked"
    /\ \E how \in {"answered", "silent"} : End(l, how)
    /\ UNCHANGED <<clock, nextAt, resumeAt, lastSent, crowded, overrun, torVars, batch>>

\* A 429: back_off() never shortens a cooldown.
PushedBack(l) ==
    /\ lookup[l].pc = "asked"
    /\ End(l, "silent")
    /\ overrun' = IF InCooldown THEN overrun ELSE 0
    /\ resumeAt' = Greatest(resumeAt, clock + Cooldown)
    /\ UNCHANGED <<clock, nextAt, lastSent, crowded, torVars, batch>>

-----------------------------------------------------------------------------
(* The list of Tor exits *)

Fresh == tor.exits = "some" /\ clock - tor.loaded < TorTTL

\* A failure at time 0 is none: _tor_exits_failed_at is 0 then.
CoolingOff == tor.failed # 0 /\ clock - tor.failed < TorRetry

Download == /\ \A l \in Lookup : lookup[l].pc \in {"answered", "silent"}
            /\ ~Fresh /\ ~CoolingOff /\ clock > 0

TorHistory(failed) ==
    /\ hasty' = (hasty \/ (asked >= 0 /\ clock - asked < TorRetry))
    /\ asked' = IF failed THEN clock ELSE -1

NextBatch == /\ batch' = batch + 1
             /\ lookup' = [l \in Lookup |-> Queued]

\* A body without a single address is taken for a list all the same.
TorLoads ==
    /\ Download /\ batch < MaxBatches
    /\ \E exits \in {"some", "empty"} :
         tor' = [exits |-> exits, loaded |-> clock, failed |-> 0]
    /\ TorHistory(FALSE)
    /\ NextBatch
    /\ UNCHANGED <<clock, nextAt, resumeAt, lastSent, crowded, overrun>>

\* Three attempts failed; the list of before stays.
TorFails ==
    /\ Download /\ batch < MaxBatches
    /\ tor' = [tor EXCEPT !.failed = clock]
    /\ TorHistory(TRUE)
    /\ NextBatch
    /\ UNCHANGED <<clock, nextAt, resumeAt, lastSent, crowded, overrun>>

\* The list is fresh, or a failure is too recent.
TorCached ==
    /\ \A l \in Lookup : lookup[l].pc \in {"answered", "silent"}
    /\ Fresh \/ CoolingOff
    /\ batch < MaxBatches
    /\ NextBatch
    /\ UNCHANGED <<clock, nextAt, resumeAt, lastSent, crowded, overrun, torVars>>

-----------------------------------------------------------------------------

\* A sleeping lookup wakes up when its turn comes, not later.
MayTick == \A l \in Lookup : lookup[l].pc = "turn" => clock < lookup[l].at

Tick ==
    /\ clock < MaxTime /\ MayTick
    /\ clock' = clock + 1
    /\ UNCHANGED <<shodanVars, torVars, batch>>

Next ==
    \/ \E l \in Lookup :
         SkipInCooldown(l) \/ TakeTurn(l) \/ Send(l) \/ Answered(l) \/ PushedBack(l)
    \/ TorLoads \/ TorFails \/ TorCached
    \/ Tick

Spec == Init /\ [][Next]_vars

-----------------------------------------------------------------------------
(* Properties *)

\* Types, and the counters of the gate.
TypeOK ==
    /\ clock \in 0..MaxTime /\ nextAt \in Nat /\ resumeAt \in Nat
    /\ \A l \in Lookup :
         /\ lookup[l].pc \in {"queued", "turn", "asked", "answered", "silent"}
         /\ lookup[l].pc # "turn" => lookup[l].at = 0
    /\ tor.exits \in {"none", "some", "empty"}
    /\ {tor.loaded, tor.failed} \subseteq 0..MaxTime
    /\ lastSent \in -1..MaxTime /\ crowded \in BOOLEAN /\ overrun \in Nat
    /\ asked \in -1..MaxTime /\ hasty \in BOOLEAN /\ batch \in 1..MaxBatches
    /\ Cardinality(Inside) <= Concurrency

\* The free providers are spared.  "Paces outbound requests": no two Shodan
\* lookups leave within an interval, in this batch or across batches, whichever
\* order they wake up in; and torproject.org is not asked again within the
\* retry delay of a failure.
Paced == ~crowded /\ ~hasty

\* After a 429 the lookups that had passed the test still go out: at most as
\* many as the semaphore admits beside the one that was refused.
OverrunIsBounded == overrun < Concurrency
===============================================================================

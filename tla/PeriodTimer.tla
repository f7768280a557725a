----------------------------- MODULE PeriodTimer -----------------------------
(***************************************************************************)
(* beatbox/app/src/periodTimer.c: the threads of the program mark events,  *)
(* and two of them, main (for the LCD) and the display thread (for the     *)
(* console), each ask for the statistics of the same events and clear      *)
(* them.  Both calls hold s_lock from end to end, so a call is one step.   *)
(* A time stamp is a small number; the clock advances between two calls.   *)
(***************************************************************************)
EXTENDS Integers, Sequences

CONSTANTS
    Events,                 \* PERIOD_EVENT_AUDIO, PERIOD_EVENT_ACCEL
    Reporters,              \* the callers of Period_getStatisticsAndClear
    MAX_EVENT_TIMESTAMPS,   \* 4096 in the code
    MaxStep,                \* bound: time between two calls
    MaxTime                 \* bound: length of a behaviour

PeriodAssumption ==
    /\ MAX_EVENT_TIMESTAMPS \in Nat \ {0}
    /\ MaxStep \in Nat \ {0} /\ MaxTime \in Nat

VARIABLES
    timestampsInNs,     \* per event: the stamps since the last report
    prevTimestampInNs,  \* per event: the last stamp reported; 0 for none
    now,                \* the clock
    stats,              \* per reporter and event: what it was told last
    marked,             \* history: marks made of each event,
    dropped,            \* those that found no space,
    reported,           \* those counted in some report,
    first,              \* the first stamp recorded; 0 for none
    total               \* and the sum of all periods reported

data == <<timestampsInNs, prevTimestampInNs>>
history == <<marked, dropped, reported, first, total>>
periodVars == <<data, now, stats, history>>

NoStats == [numSamples |-> 0, min |-> 0, max |-> 0, avg |-> 0]

TypeOK ==
    /\ timestampsInNs \in [Events -> Seq(Nat)]
    /\ \A e \in Events : Len(timestampsInNs[e]) <= MAX_EVENT_TIMESTAMPS
    /\ prevTimestampInNs \in [Events -> Nat]
    /\ now \in Nat
    /\ stats \in [Reporters -> [Events ->
            [numSamples : 0 .. MAX_EVENT_TIMESTAMPS, min : Int, max : Int, avg : Int]]]
    /\ {marked, dropped, reported, first, total} \subseteq [Events -> Nat]

\* Period_init; the clock counts from boot.
Init ==
    /\ timestampsInNs = [e \in Events |-> << >>]
    /\ prevTimestampInNs = [e \in Events |-> 0]
    /\ now = 1
    /\ stats = [r \in Reporters |-> [e \in Events |-> NoStats]]
    /\ marked = [e \in Events |-> 0] /\ dropped = [e \in Events |-> 0]
    /\ reported = [e \in Events |-> 0] /\ first = [e \in Events |-> 0]
    /\ total = [e \in Events |-> 0]

Advance == \E d \in 1 .. MaxStep : now + d <= MaxTime /\ now' = now + d

HasSpace(e) == Len(timestampsInNs[e]) < MAX_EVENT_TIMESTAMPS

\* Period_markEvent: the clock is read inside the critical section.
Mark(e) ==
    /\ Advance
    /\ marked' = [marked EXCEPT ![e] = @ + 1]
    /\ IF HasSpace(e)
       THEN /\ timestampsInNs' = [timestampsInNs EXCEPT ![e] = Append(@, now')]
            /\ first' = [first EXCEPT ![e] = IF @ = 0 THEN now' ELSE @]
            /\ UNCHANGED dropped
       ELSE /\ dropped' = [dropped EXCEPT ![e] = @ + 1]
            /\ UNCHANGED <<timestampsInNs, first>>
    /\ UNCHANGED <<prevTimestampInNs, stats, reported, total>>

------------------------------------------------------------------------------
(* updateStats.                                                            *)

\* The stamp the first period starts from.
Previous(e) ==
    IF prevTimestampInNs[e] = 0 THEN timestampsInNs[e][1] ELSE prevTimestampInNs[e]

\* The periods between consecutive samples.
Deltas(e) ==
    LET ts == timestampsInNs[e]
    IN  [i \in 1 .. Len(ts) |-> ts[i] - (IF i = 1 THEN Previous(e) ELSE ts[i - 1])]

\* Summed up in the loop that finds them.
SumDeltas(e) ==
    LET sum[i \in 0 .. Len(timestampsInNs[e])] ==
            IF i = 0 THEN 0 ELSE sum[i - 1] + Deltas(e)[i]
    IN  sum[Len(timestampsInNs[e])]

Least(S) == CHOOSE x \in S : \A y \in S : x <= y
Greatest(S) == CHOOSE x \in S : \A y \in S : x >= y

UpdateStats(e) ==
    LET n == Len(timestampsInNs[e])
        periods == {Deltas(e)[i] : i \in 1 .. n}
    IN  IF n = 0 THEN NoStats
        ELSE [numSamples |-> n, min |-> Least(periods), max |-> Greatest(periods),
              avg |-> SumDeltas(e) \div n]

BugUpdatePrevious(e) == UNCHANGED prevTimestampInNs     \* mutant: not kept

\* The last sample starts the next period, if there was one.
UpdatePrevious(e) ==
    LET ts == timestampsInNs[e]
    IN  prevTimestampInNs' =
            IF ts = << >> THEN prevTimestampInNs
            ELSE [prevTimestampInNs EXCEPT ![e] = ts[Len(ts)]]

BugClear(e) == UNCHANGED timestampsInNs                 \* mutant: kept

Clear(e) == timestampsInNs' = [timestampsInNs EXCEPT ![e] = << >>]

\* Period_getStatisticsAndClear, called by r.
GetStatisticsAndClear(r, e) ==
    /\ stats' = [stats EXCEPT ![r][e] = UpdateStats(e)]
    /\ UpdatePrevious(e)
    /\ Clear(e)
    /\ reported' = [reported EXCEPT ![e] = @ + Len(timestampsInNs[e])]
    /\ total' = [total EXCEPT ![e] = @ + SumDeltas(e)]
    /\ UNCHANGED <<now, marked, dropped, first>>

Next ==
    \E e \in Events :
        \/ Mark(e)
        \/ \E r \in Reporters : GetStatisticsAndClear(r, e)

Spec == Init /\ [][Next]_periodVars

------------------------------------------------------------------------------
\* Two reporters share the events, but no event is counted twice or vanishes:
\* each one marked is in exactly one report, or still waiting for one, or was
\* refused for want of space with a warning (periodTimer.c:59).
EveryEventCountedOnce ==
    \A e \in Events :
        marked[e] = reported[e] + Len(timestampsInNs[e]) + dropped[e]

\* The periods of successive reports join without gap or overlap, whoever
\* asked for them: they add up to the time from the first event recorded to
\* the last one reported.
PeriodsJoin ==
    \A e \in Events :
        prevTimestampInNs[e] # 0 => total[e] = prevTimestampInNs[e] - first[e]

\* Both: no event and no time between two events is lost or reported twice,
\* whichever of the two reporters takes it (periodTimer.c:65-87).
ReportsAddUp == EveryEventCountedOnce /\ PeriodsJoin

\* A period of zero is what the very first sample gets for want of an earlier
\* one (periodTimer.c:95-99); a later report has real periods only, in order.
ZeroOnlyAtStartup ==
    [][\A r \in Reporters, e \in Events :
          LET new == stats'[r][e]
          IN  stats[r][e] # new /\ new.numSamples > 0 =>
                  /\ 0 <= new.min /\ new.min <= new.avg /\ new.avg <= new.max
                  /\ new.min = 0 => reported[e] = 0]_periodVars
==============================================================================

---------------------------- MODULE RateConverter ---------------------------
(***************************************************************************)
(* The currency rates (currency/rate_converter.go) and the ticker task     *)
(* that updates them (util/task/ticker_task.go), in discrete time.  The    *)
(* rates are the time when they were fetched.  A step of the goroutine     *)
(* takes no time, except for the fetch, which ends at its time-out.        *)
(***************************************************************************)
EXTENDS Integers

CONSTANTS Intervals,  \* of the ticker; zero: no ticker
          Thresholds, \* of stale rates; zero: rates are never stale
          HttpTimeout,
          MaxTime     \* bound on the clock

ASSUME RateAssumption ==
  Intervals \subseteq Nat /\ Thresholds \subseteq Nat /\ HttpTimeout \in Nat /\ MaxTime \in Nat

VARIABLES interval, threshold, \* of this configuration
          clock,
          rates, lastUpdated,  \* two atomic values
          task,                \* the goroutine: in the fetch, between the two stores, waiting, ended
          began,               \* time of the beginning of the fetch
          nextTick,            \* time of the next tick of the ticker
          ticked               \* the channel of the ticker holds a tick

rateVars == <<interval, threshold, clock, rates, lastUpdated, task, began, nextTick, ticked>>
setting == <<interval, threshold>>

NoRates == -1
NoTick == -1

\* Start runs the first update before it creates the ticker.
RateInit ==
  /\ interval \in Intervals /\ threshold \in Thresholds
  /\ clock = 0
  /\ rates = NoRates /\ lastUpdated = NoRates
  /\ task = "fetch" /\ began = 0
  /\ nextTick = NoTick /\ ticked = FALSE

\* Run returns: the ticker is created after the first one, or never.
RunEnds ==
  IF interval = 0 THEN task' = "ended" /\ UNCHANGED nextTick
  ELSE /\ task' = "wait"
       /\ nextTick' = IF nextTick = NoTick THEN clock + interval ELSE nextTick

\* fetch has succeeded: the rates are stored, and then the time.
StoreRates ==
  /\ task = "fetch"
  /\ rates' = clock
  /\ task' = "stored"
  /\ UNCHANGED <<setting, clock, lastUpdated, began, nextTick, ticked>>

StoreTime ==
  /\ task = "stored"
  /\ lastUpdated' = clock
  /\ RunEnds
  /\ UNCHANGED <<setting, clock, rates, began, ticked>>

\* Mutant of Stale: twice the threshold.
StaleTwice == threshold > 0 /\ lastUpdated # NoRates /\ clock - lastUpdated > 2 * threshold

\* checkStaleRates.
Stale == threshold > 0 /\ lastUpdated # NoRates /\ clock - lastUpdated > threshold

\* fetch has failed: stale rates are cleared, and Rates falls back to the
\* constant ones.
UpdateFails ==
  /\ task = "fetch"
  /\ rates' = IF Stale THEN NoRates ELSE rates
  /\ RunEnds
  /\ UNCHANGED <<setting, clock, lastUpdated, began, ticked>>

TakeTick ==
  /\ task = "wait" /\ ticked
  /\ ticked' = FALSE
  /\ task' = "fetch" /\ began' = clock
  /\ UNCHANGED <<setting, clock, rates, lastUpdated, nextTick>>

\* The ticker: the tick is dropped when the channel holds one already.
TickRates ==
  /\ nextTick = clock
  /\ nextTick' = clock + interval
  /\ ticked' = TRUE
  /\ UNCHANGED <<setting, clock, rates, lastUpdated, task, began>>

\* Time passes while nothing but a fetch within its time-out is at work.
PassTime ==
  /\ clock < MaxTime
  /\ task \in {"wait", "ended"} \/ (task = "fetch" /\ clock < began + HttpTimeout)
  /\ ~(task = "wait" /\ ticked) /\ nextTick # clock
  /\ clock' = clock + 1
  /\ UNCHANGED <<setting, rates, lastUpdated, task, began, nextTick, ticked>>

RateNext ==
  StoreRates \/ StoreTime \/ UpdateFails \/ TakeTick \/ TickRates \/ PassTime

RateSpec == RateInit /\ [][RateNext]_rateVars

-----------------------------------------------------------------------------

RateTypeOK ==
  /\ interval \in Intervals /\ threshold \in Thresholds
  /\ clock \in 0 .. MaxTime
  /\ rates \in NoRates .. clock /\ lastUpdated \in NoRates .. clock
  /\ task \in {"fetch", "stored", "wait", "ended"}
  /\ began \in 0 .. clock
  /\ nextTick = NoTick \/ nextTick \in clock .. clock + interval
  /\ ticked \in BOOLEAN

\* With a ticker and a threshold, the rates that Rates returns were fetched no
\* longer ago than the threshold, one interval and one time-out: they are
\* looked at when an update fails and at no other time (update, runRecurring).
\* Without a ticker they are used for ever.
RatesNotTooOld ==
  interval > 0 /\ threshold > 0 /\ rates # NoRates =>
    clock - rates <= threshold + interval + HttpTimeout

=============================================================================

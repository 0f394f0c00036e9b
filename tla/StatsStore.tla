----------------------------- MODULE StatsStore -----------------------------
(***************************************************************************)
(* Persistence of the video statistics (videoStatsStore in                 *)
(* endpoints/video_pipeline.go).  Counters are incremented under the mutex *)
(* by requests and beacons, saved every 30 s by one goroutine, once more   *)
(* by that goroutine when done is closed, and cleared by the reset         *)
(* endpoint, which then removes the file.                                  *)
(*                                                                         *)
(* The counters are the set of the increments they include; an increment   *)
(* is a number that exists only in the model.                              *)
(***************************************************************************)
EXTENDS Integers

CONSTANTS MaxIncs,    \* bound on increments
          MaxResets,  \* bound on calls of reset
          MaxExits,   \* bound on crashes and shutdowns
          MaxFailures, \* bound on saves that fail
          Missing, Partial

ASSUME StatsAssumption ==
  /\ MaxIncs \in Nat /\ MaxResets \in Nat /\ MaxExits \in Nat /\ MaxFailures \in Nat
  /\ Missing # Partial /\ \A c \in SUBSET (1 .. MaxIncs) : c # Missing /\ c # Partial

VARIABLES mem,           \* the counters
          tmp, disk,     \* the temporary file and the file
          saver, snap,   \* where the goroutine is, and the copy it writes
          resetter,      \* where a call of reset is
          clearing,      \* what that call has cleared from memory
          up,            \* "up", "closing" (done is closed) or "down"
          incs, resets, exits, failures,
          cleared        \* increments that a finished reset has cleared

statsVars == <<mem, tmp, disk, saver, snap, resetter, clearing, up, incs, resets, exits, failures, cleared>>

Running == up \in {"up", "closing"}

StatsInit ==
  /\ mem = {} /\ tmp = Missing /\ disk = Missing
  /\ saver = "idle" /\ snap = {} /\ resetter = "idle" /\ clearing = {}
  /\ up = "up" /\ incs = 0 /\ resets = 0 /\ exits = 0 /\ failures = 0
  /\ cleared = {}

\* incRequestBatch, incFillBatch, incImpressionBatch, incDimFill, ...
Inc ==
  /\ Running /\ incs < MaxIncs
  /\ incs' = incs + 1
  /\ mem' = mem \cup {incs + 1}
  /\ UNCHANGED <<tmp, disk, saver, snap, resetter, clearing, up, resets, exits, cleared, failures>>
-----------------------------------------------------------------------------
\* Mutant of Tick: nothing is saved while the counters are empty.
TickUnlessEmpty ==
  /\ Running /\ saver = "idle"
  /\ saver' = IF mem = {} THEN "idle" ELSE IF up = "closing" THEN "final" ELSE "snapped"
  /\ snap' = mem
  /\ UNCHANGED <<mem, tmp, disk, resetter, clearing, up, incs, resets, exits, failures, cleared>>

\* The ticker fires, or done is closed, and save() copies the counters under
\* the mutex.  When done is closed the ticker may still be chosen first.
Tick ==
  /\ Running /\ saver = "idle"
  /\ saver' \in IF up = "closing" THEN {"snapped", "final"} ELSE {"snapped"}
  /\ snap' = mem
  /\ UNCHANGED <<mem, tmp, disk, resetter, clearing, up, incs, resets, exits, failures, cleared>>

Writing == [s \in {"snapped", "final"} |->
              IF s = "snapped" THEN "writing" ELSE "writing final"]
Written == [s \in {"writing", "writing final"} |->
              IF s = "writing" THEN "written" ELSE "written final"]

\* os.WriteFile creates or truncates the temporary file ...
WriteBegin ==
  /\ Running /\ saver \in DOMAIN Writing
  /\ tmp' = Partial
  /\ saver' = Writing[saver]
  /\ UNCHANGED <<mem, disk, snap, resetter, clearing, up, incs, resets, exits, failures, cleared>>

\* ... and fills it.  If reset has removed the name, what is written has none.
WriteEnd ==
  /\ Running /\ saver \in DOMAIN Written
  /\ tmp' = IF tmp = Missing THEN Missing ELSE snap
  /\ saver' = Written[saver]
  /\ UNCHANGED <<mem, disk, snap, resetter, clearing, up, incs, resets, exits, failures, cleared>>

\* os.Rename, which only logs an error when the temporary file is gone.
Rename ==
  /\ Running /\ saver \in {"written", "written final"}
  /\ disk' = IF tmp = Missing THEN disk ELSE tmp
  /\ tmp' = Missing
  /\ saver' = IF saver = "written" THEN "idle" ELSE "stopped"
  /\ UNCHANGED <<mem, snap, resetter, clearing, up, incs, resets, exits, failures, cleared>>

\* MkdirAll, WriteFile or Rename fails: the error is logged and the save given up.
SaveFails ==
  /\ Running /\ saver \notin {"idle", "stopped"} /\ failures < MaxFailures
  /\ failures' = failures + 1
  /\ saver' = IF saver \in {"snapped", "writing", "written"} THEN "idle" ELSE "stopped"
  /\ UNCHANGED <<mem, tmp, disk, snap, resetter, clearing, up, incs, resets, exits, cleared>>
-----------------------------------------------------------------------------
\* reset: the maps are replaced under the mutex, then the files are removed.
ResetClear ==
  /\ Running /\ resetter = "idle" /\ resets < MaxResets
  /\ resets' = resets + 1
  /\ clearing' = mem
  /\ mem' = {}
  /\ resetter' = "cleared"
  /\ UNCHANGED <<tmp, disk, saver, snap, up, incs, exits, cleared, failures>>

ResetRemoveFile ==
  /\ Running /\ resetter = "cleared"
  /\ disk' = Missing
  /\ resetter' = "removed"
  /\ UNCHANGED <<mem, tmp, saver, snap, clearing, up, incs, resets, exits, failures, cleared>>

ResetRemoveTmp ==
  /\ Running /\ resetter = "removed"
  /\ tmp' = Missing
  /\ resetter' = "idle"
  /\ cleared' = cleared \cup clearing
  /\ clearing' = {}
  /\ UNCHANGED <<mem, disk, saver, snap, up, incs, resets, exits, failures>>
-----------------------------------------------------------------------------
Shutdown ==
  /\ up = "up" /\ exits < MaxExits
  /\ exits' = exits + 1
  /\ up' = "closing"
  /\ UNCHANGED <<mem, tmp, disk, saver, snap, resetter, clearing, incs, resets, cleared, failures>>

\* The process dies; or main returns after Shutdown, waiting for nobody.
Stop(counted) ==
  /\ up' = "down"
  /\ saver' = "idle" /\ snap' = {} /\ resetter' = "idle"
  /\ clearing' = {}
  /\ UNCHANGED <<mem, tmp, disk, incs, resets, cleared, failures>>
  /\ exits' = exits + counted

Crash == up = "up" /\ exits < MaxExits /\ Stop(1)
Exit == up = "closing" /\ Stop(0)

\* Mutant of Loaded: the file is not read at start.
LoadedNothing == {}

\* load: a missing file is no statistics.
Loaded == IF disk = Missing THEN {} ELSE disk

Restart ==
  /\ up = "down"
  /\ up' = "up"
  /\ mem' = Loaded
  /\ UNCHANGED <<tmp, disk, saver, snap, resetter, clearing, incs, resets, exits, cleared, failures>>

SaverStep == Tick \/ WriteBegin \/ WriteEnd \/ Rename
ResetStep == ResetRemoveFile \/ ResetRemoveTmp

StatsNext ==
  \/ Inc \/ SaverStep \/ SaveFails
  \/ ResetClear \/ ResetStep \/ Shutdown \/ Crash \/ Exit \/ Restart

StatsSpec == StatsInit /\ [][StatsNext]_statsVars

\* The ticker fires for ever and goroutines run.
StatsFairSpec == StatsSpec /\ WF_statsVars(SaverStep) /\ WF_statsVars(ResetStep)
-----------------------------------------------------------------------------
Counters == SUBSET (1 .. MaxIncs)

\* Whenever the process dies during a save, the file is one that load() can
\* read; and what was saved is not forgotten: an increment leaves the file only
\* if a reset cleared it, or if it is still counted in memory (a reset may remove
\* a file that a save has just written after the counters were cleared); no later
\* save, crash or restart drops it.
DurableUntilReset ==
  [][/\ disk' # Partial
     /\ disk # Missing =>
          disk \subseteq cleared' \cup clearing' \cup mem'
                           \cup (IF disk' = Missing THEN {} ELSE disk')]_disk

\* Once a reset has finished, the file soon holds nothing that it cleared, even
\* if a save that was running at the time has put it back, as long as the same
\* process runs.
ResetEventuallyForgotten ==
  \A i \in 1 .. MaxIncs :
    (up = "up" /\ i \in cleared \ mem) ~> (up # "up" \/ disk = Missing \/ i \notin disk)

\* "reset clears all stats from memory and removes the on-disk persistence
\* file": nothing that a finished reset has cleared is on disk.
ResetForgets == disk # Missing /\ disk # Partial => disk \cap cleared = {}
=============================================================================

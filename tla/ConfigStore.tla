----------------------------- MODULE ConfigStore ----------------------------
(***************************************************************************)
(* The registry of placement configurations (adServerConfigStore in        *)
(* endpoints/video_pipeline.go) and how it is persisted: a change restarts *)
(* a 500 ms timer, the timer that expires starts a goroutine that saves,   *)
(* savers are serialised by saveMu, and a save replaces the whole file (a  *)
(* temporary file, renamed) or the whole table (one transaction).          *)
(*                                                                         *)
(* Every content carries the number of the change it results from; the     *)
(* numbers exist only in the model.  getDashDB() answers the same for the  *)
(* life of the process, so the backend is chosen once.                     *)
(***************************************************************************)
EXTENDS Integers, FiniteSets

CONSTANTS Placements, Configs, Absent,
          Savers,       \* goroutines that may be saving at the same time
          Backends,     \* subset of {"file", "db"}
          MaxChanges,   \* bound on calls of set and remove
          MaxExits,     \* bound on crashes and shutdowns
          MaxFailures,  \* bound on failed saves
          LoadMayFail   \* whether load() may hit an error at start

ASSUME BackendAssumption ==
  /\ Backends \subseteq {"file", "db"} /\ LoadMayFail \in BOOLEAN
  /\ MaxChanges \in Nat /\ MaxExits \in Nat /\ MaxFailures \in Nat
  /\ Absent \notin Configs /\ Absent \notin Savers

VARIABLES backend,   \* where the configurations are persisted
          mem,       \* s.configs
          timer,     \* s.saveTimer is running
          saveMu,    \* the saver that holds saveMu, or Absent
          pc, snap,  \* where each saver is, and the copy it took
          tmp,       \* the temporary file
          disk,      \* the file, or the committed rows
          up,        \* "up", "crashed" or "shutdown"
          changes, exits, failures,
          failed,    \* the newest content whose save has failed
          removed    \* placements remove() was ever called for

vars == <<backend, mem, timer, saveMu, pc, snap, tmp, disk, up, changes, exits, failures,
          failed, removed>>

Contents == [Placements -> Configs \cup {Absent}]
Versioned == [ver : 0 .. MaxChanges, cfg : Contents]
Empty == [p \in Placements |-> Absent]

Missing == [ver |-> 0, cfg |-> Empty]
Partial == [ver |-> -1, cfg |-> Empty]

Init ==
  /\ backend \in Backends
  /\ mem = Missing /\ disk = Missing /\ tmp = Missing
  /\ timer = FALSE /\ saveMu = Absent
  /\ pc = [s \in Savers |-> "idle"] /\ snap = [s \in Savers |-> Missing]
  /\ up = "up" /\ changes = 0 /\ exits = 0 /\ failures = 0 /\ failed = 0
  /\ removed = {}
-----------------------------------------------------------------------------
\* A change under the write lock; it stops the old timer and starts a new one.
Change(p, c) ==
  /\ up = "up" /\ changes < MaxChanges
  /\ changes' = changes + 1
  /\ mem' = [ver |-> changes + 1, cfg |-> [mem.cfg EXCEPT ![p] = c]]
  /\ timer' = TRUE
  /\ UNCHANGED <<backend, saveMu, pc, snap, tmp, disk, up, exits, failures, failed>>

Set(p, c) == Change(p, c) /\ UNCHANGED removed

Remove(p) == Change(p, Absent) /\ removed' = removed \cup {p}

\* Mutant of TimerFire: a timer that expires while a save runs starts none.
TimerFireUnlessSaving(s) ==
  /\ up = "up" /\ timer /\ pc[s] = "idle"
  /\ timer' = FALSE
  /\ pc' = IF saveMu = Absent THEN [pc EXCEPT ![s] = "waiting"] ELSE pc
  /\ UNCHANGED <<backend, mem, saveMu, snap, tmp, disk, up, changes, exits, failures, failed, removed>>

\* The timer expires: safeSave runs in a goroutine of its own and asks for saveMu.
TimerFire(s) ==
  /\ up = "up" /\ timer /\ pc[s] = "idle"
  /\ timer' = FALSE
  /\ pc' = [pc EXCEPT ![s] = "waiting"]
  /\ UNCHANGED <<backend, mem, saveMu, snap, tmp, disk, up, changes, exits, failures, failed, removed>>

SaveMuFree == saveMu = Absent

\* Mutant of Lock: the copy is taken before saveMu is held.
LockAfterCopy(s) ==
  /\ up = "up"
  /\ \/ /\ pc[s] = "waiting"
        /\ snap' = [snap EXCEPT ![s] = mem] /\ pc' = [pc EXCEPT ![s] = "copied"]
        /\ UNCHANGED saveMu
     \/ /\ pc[s] = "copied" /\ SaveMuFree
        /\ saveMu' = s /\ pc' = [pc EXCEPT ![s] = "snapped"]
        /\ UNCHANGED snap
  /\ UNCHANGED <<backend, mem, timer, tmp, disk, up, changes, exits, failures, failed, removed>>

Lock(s) ==
  /\ up = "up" /\ pc[s] = "waiting" /\ SaveMuFree
  /\ saveMu' = s
  /\ pc' = [pc EXCEPT ![s] = "locked"]
  /\ UNCHANGED <<backend, mem, timer, snap, tmp, disk, up, changes, exits, failures, failed, removed>>

\* The copy of the configurations, under the read lock.  The rows of the
\* database branch are inserted while that lock is held.
Snapshot(s) ==
  /\ up = "up" /\ pc[s] = "locked"
  /\ snap' = [snap EXCEPT ![s] = mem]
  /\ pc' = [pc EXCEPT ![s] = "snapped"]
  /\ UNCHANGED <<backend, mem, timer, saveMu, tmp, disk, up, changes, exits, failures, failed, removed>>

\* os.WriteFile truncates the temporary file, then fills it.
WriteBegin(s) ==
  /\ up = "up" /\ backend = "file" /\ pc[s] = "snapped"
  /\ tmp' = Partial
  /\ pc' = [pc EXCEPT ![s] = "writing"]
  /\ UNCHANGED <<backend, mem, timer, saveMu, snap, disk, up, changes, exits, failures, failed, removed>>

WriteEnd(s) ==
  /\ up = "up" /\ pc[s] = "writing"
  /\ tmp' = snap[s]
  /\ pc' = [pc EXCEPT ![s] = "written"]
  /\ UNCHANGED <<backend, mem, timer, saveMu, snap, disk, up, changes, exits, failures, failed, removed>>

Unlock(s) == saveMu' = Absent /\ pc' = [pc EXCEPT ![s] = "idle"]

Rename(s) ==
  /\ up = "up" /\ pc[s] = "written"
  /\ disk' = tmp /\ tmp' = Missing
  /\ Unlock(s)
  /\ UNCHANGED <<backend, mem, timer, snap, up, changes, exits, failures, failed, removed>>

\* The purge and the inserts of one transaction become visible together.
Commit(s) ==
  /\ up = "up" /\ backend = "db" /\ pc[s] = "snapped"
  /\ disk' = snap[s]
  /\ Unlock(s)
  /\ UNCHANGED <<backend, mem, timer, snap, tmp, up, changes, exits, failures, failed, removed>>

\* An error of any step of a save is logged, and the save is given up.
SaveFails(s) ==
  /\ up = "up" /\ pc[s] \in {"locked", "snapped", "writing", "written"} /\ failures < MaxFailures
  /\ failures' = failures + 1
  /\ failed' = LET v == IF pc[s] = "locked" THEN mem.ver ELSE snap[s].ver
               IN  IF v > failed THEN v ELSE failed
  /\ Unlock(s)
  /\ UNCHANGED <<backend, mem, timer, snap, tmp, disk, up, changes, exits, removed>>
-----------------------------------------------------------------------------
\* The process dies, or main returns after Shutdown(), which does not touch the
\* configuration store: timers and savers vanish either way.
Exit(how) ==
  /\ up = "up" /\ exits < MaxExits
  /\ exits' = exits + 1 /\ up' = how
  /\ timer' = FALSE /\ saveMu' = Absent
  /\ pc' = [s \in Savers |-> "idle"] /\ snap' = [s \in Savers |-> Missing]
  /\ UNCHANGED <<backend, mem, tmp, disk, changes, failures, failed, removed>>

Crash == Exit("crashed")
Shutdown == Exit("shutdown")

\* Mutant of LoadedContent: a restart begins with no placement.
LoadsNothing(loaded) == Empty

LoadedContent(loaded) == IF loaded THEN disk.cfg ELSE Empty

\* newAdServerConfigStore: load() fills the map, or logs an error and leaves it
\* empty.
Restart(loaded) ==
  /\ up # "up" /\ (loaded \/ LoadMayFail)
  /\ up' = "up"
  /\ mem' = [ver |-> disk.ver, cfg |-> LoadedContent(loaded)]
  /\ UNCHANGED <<backend, timer, saveMu, pc, snap, tmp, disk, changes, exits, failures, failed, removed>>

SaverStep(s) ==
  \/ Lock(s) \/ Snapshot(s) \/ WriteBegin(s) \/ WriteEnd(s) \/ Rename(s) \/ Commit(s)

Next ==
  \/ \E p \in Placements : Remove(p) \/ \E c \in Configs : Set(p, c)
  \/ \E s \in Savers : TimerFire(s) \/ SaverStep(s) \/ SaveFails(s)
  \/ Crash \/ Shutdown
  \/ \E loaded \in BOOLEAN : Restart(loaded)

Spec == Init /\ [][Next]_vars

\* Timers expire and goroutines run.
FairSpec ==
  /\ Spec
  /\ WF_vars(\E s \in Savers : TimerFire(s))
  /\ \A s \in Savers : WF_vars(SaverStep(s))
-----------------------------------------------------------------------------
Saving == {"snapped", "writing", "written"}

\* The type invariant.  It also says that nothing on disk is partly written
\* (Partial is not in Versioned) and that the savers past Lock are at a step of
\* save().
TypeOK ==
  /\ backend \in Backends
  /\ mem \in Versioned /\ disk \in Versioned
  /\ tmp \in Versioned \cup {Partial}
  /\ snap \in [Savers -> Versioned]
  /\ timer \in BOOLEAN
  /\ saveMu \in Savers \cup {Absent}
  /\ pc \in [Savers -> {"idle", "waiting", "locked"} \cup Saving]
  /\ up \in {"up", "crashed", "shutdown"}
  /\ changes \in 0 .. MaxChanges /\ exits \in 0 .. MaxExits
  /\ failures \in 0 .. MaxFailures /\ failed \in 0 .. MaxChanges
  /\ removed \subseteq Placements

\* A crash at any point of a save leaves a readable file: the file is only ever
\* replaced by renaming a temporary file that is complete.
DiskWhole == disk # Partial

\* A save never puts an older content over a newer one, although a timer may
\* start a save while another one runs: saveMu is held from before the copy is
\* taken until the file is renamed or the transaction ends.
DiskNeverGoesBack == [][disk'.ver >= disk.ver]_disk

\* Some timer or saver will still write the content in memory.
SavePending ==
  \/ timer
  \/ \E s \in Savers : pc[s] \in {"waiting", "locked"}
  \/ \E s \in Savers : pc[s] \in Saving /\ snap[s].ver = mem.ver

\* No change is forgotten: unless its save has failed (an error is logged and
\* nothing retries before the next change), what is in memory is on disk or a
\* save that will include it is on its way.
NoLostUpdate ==
  up = "up" /\ ~LoadMayFail => disk = mem \/ failed >= mem.ver \/ SavePending

\* A placement disappears from disk only if remove() was called for it, however
\* often the process stopped in between ("Configs are persisted to disk so
\* placement settings survive server restarts").
PlacementsSurvive ==
  [][\A p \in Placements :
       disk.cfg[p] # Absent /\ disk'.cfg[p] = Absent => p \in removed]_disk

\* A change reaches the disk, unless the process stops or the save fails.
EventuallySaved ==
  \A v \in 1 .. MaxChanges :
    (up = "up" /\ mem.ver = v) ~> (up # "up" \/ failed >= v \/ disk.ver >= v)

\* "Shutdown stops background goroutines and flushes pending data to disk": when
\* the process ends after Shutdown(), the disk holds the last configuration.
ShutdownFlushes == up = "shutdown" => disk = mem
=============================================================================

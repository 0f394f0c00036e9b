------------------------- MODULE ConfigStoreProofs --------------------------
(***************************************************************************)
(* For any number of placements, configurations, savers, changes, crashes  *)
(* and failed saves: the file is always whole, a save never goes back to   *)
(* an older content, and no change is forgotten.                           *)
(***************************************************************************)
EXTENDS ConfigStore, TLAPS

\* Only the holder of saveMu is past the lock; what it copied lies between what
\* is on disk and what is in memory; contents of the same version are equal.
Ordered ==
  /\ \A s \in Savers : pc[s] \in {"locked"} \cup Saving => saveMu = s
  /\ \A s \in Savers : pc[s] = "written" => tmp = snap[s]
  /\ disk.ver <= mem.ver /\ mem.ver <= changes
  /\ \A s \in Savers : pc[s] \in Saving => disk.ver <= snap[s].ver /\ snap[s].ver <= mem.ver

SameVersion ==
  ~LoadMayFail =>
    /\ disk.ver = mem.ver => disk = mem
    /\ \A s \in Savers : pc[s] \in Saving /\ snap[s].ver = mem.ver => snap[s] = mem

IInv == TypeOK /\ Ordered /\ SameVersion /\ NoLostUpdate

LEMMA VersionedRec ==
  ASSUME NEW v \in Versioned
  PROVE  v.ver \in 0 .. MaxChanges /\ v.cfg \in Contents /\ v # Partial
BY BackendAssumption DEF Versioned, Partial

LEMMA MissingVersioned == Missing \in Versioned
BY BackendAssumption DEF Missing, Versioned, Contents, Empty

\* The empty store satisfies the invariant.
LEMMA InitIInv == Init => IInv
<1> SUFFICES ASSUME Init PROVE IInv
  OBVIOUS
<1>1. TypeOK
  <2>1. /\ changes \in 0 .. MaxChanges /\ exits \in 0 .. MaxExits
        /\ failures \in 0 .. MaxFailures /\ failed \in 0 .. MaxChanges
    BY BackendAssumption DEF Init
  <2>2. /\ pc \in [Savers -> {"idle", "waiting", "locked"} \cup Saving]
        /\ snap \in [Savers -> Versioned]
    BY MissingVersioned DEF Init
  <2> QED
    BY Zenon, <2>1, <2>2, MissingVersioned DEF Init, TypeOK
<1>2. Ordered
  BY BackendAssumption DEF Init, Ordered, Saving, Missing
<1>3. SameVersion
  BY DEF Init, SameVersion, Saving
<1>4. NoLostUpdate
  BY DEF Init, NoLostUpdate
<1> QED
  BY <1>1, <1>2, <1>3, <1>4 DEF IInv

\* A change is newer than every content the store or a saver holds.
LEMMA ChangeIInv ==
  ASSUME IInv, NEW p \in Placements, NEW c \in Configs \cup {Absent}, Change(p, c),
         removed' \subseteq Placements
  PROVE  IInv'
<1>1. /\ mem' \in Versioned /\ mem'.ver = changes + 1 /\ changes' \in 0 .. MaxChanges
      /\ changes' = changes + 1 /\ changes \in 0 .. MaxChanges
  <2>1. changes \in 0 .. MaxChanges /\ changes < MaxChanges /\ changes' = changes + 1
    BY BackendAssumption DEF IInv, TypeOK, Change
  <2>2. mem.cfg \in Contents
    BY VersionedRec DEF IInv, TypeOK
  <2>3. [mem.cfg EXCEPT ![p] = c] \in Contents
    BY <2>2 DEF Contents
  <2> QED
    BY <2>1, <2>3, BackendAssumption DEF Change, Versioned
<1>2. TypeOK'
  BY <1>1 DEF IInv, TypeOK, Change
<1>3. /\ disk.ver \in 0 .. MaxChanges /\ mem.ver \in 0 .. MaxChanges
      /\ \A s \in Savers : snap[s].ver \in 0 .. MaxChanges
  BY VersionedRec DEF IInv, TypeOK
<1>4. Ordered'
  BY <1>1, <1>3, BackendAssumption DEF IInv, Ordered, Change
<1>5. SameVersion'
  BY <1>1, <1>3, BackendAssumption DEF IInv, SameVersion, Ordered, Change
<1>6. NoLostUpdate'
  BY DEF NoLostUpdate, SavePending, Change
<1> QED
  BY <1>2, <1>4, <1>5, <1>6 DEF IInv

\* The steps of a save before it takes effect.
LEMMA EarlyStepIInv ==
  ASSUME IInv, NEW s \in Savers,
         TimerFire(s) \/ Lock(s) \/ Snapshot(s) \/ WriteBegin(s) \/ WriteEnd(s)
  PROVE  IInv'
<1> USE DEF Saving
<1>0. /\ disk.ver \in 0 .. MaxChanges /\ mem.ver \in 0 .. MaxChanges /\ changes \in 0 .. MaxChanges
      /\ \A t \in Savers : snap[t].ver \in 0 .. MaxChanges
  BY VersionedRec DEF IInv, TypeOK
<1>1. CASE TimerFire(s)
  <2>1. TypeOK'
    BY Zenon, <1>1 DEF IInv, TypeOK, TimerFire
  <2>2. Ordered'
    BY <1>1 DEF IInv, TypeOK, Ordered, TimerFire
  <2>3. SameVersion'
    BY <1>1 DEF IInv, TypeOK, SameVersion, TimerFire
  <2>4. NoLostUpdate'
    BY <1>1 DEF IInv, TypeOK, NoLostUpdate, SavePending, TimerFire
  <2> QED
    BY <2>1, <2>2, <2>3, <2>4 DEF IInv
<1>2. CASE Lock(s)
  <2>1. TypeOK'
    BY <1>2 DEF IInv, TypeOK, Lock
  <2>2. Ordered'
    BY <1>2, BackendAssumption DEF IInv, TypeOK, Ordered, Lock, SaveMuFree
  <2>3. SameVersion'
    BY <1>2 DEF IInv, TypeOK, SameVersion, Lock
  <2>4. NoLostUpdate'
    BY <1>2 DEF IInv, TypeOK, NoLostUpdate, SavePending, Lock
  <2> QED
    BY <2>1, <2>2, <2>3, <2>4 DEF IInv
<1>3. CASE Snapshot(s)
  <2>1. TypeOK'
    BY <1>3 DEF IInv, TypeOK, Snapshot
  <2>2. Ordered'
    BY <1>3, <1>0, BackendAssumption DEF IInv, TypeOK, Ordered, Snapshot
  <2>3. SameVersion'
    BY <1>3 DEF IInv, TypeOK, Ordered, SameVersion, Snapshot
  <2>4. NoLostUpdate'
    BY <1>3 DEF IInv, TypeOK, NoLostUpdate, SavePending, Snapshot
  <2> QED
    BY <2>1, <2>2, <2>3, <2>4 DEF IInv
<1>4. CASE WriteBegin(s)
  BY <1>4 DEF IInv, TypeOK, Ordered, SameVersion, NoLostUpdate, SavePending, WriteBegin
<1>5. CASE WriteEnd(s)
  BY <1>5 DEF IInv, TypeOK, Ordered, SameVersion, NoLostUpdate, SavePending, WriteEnd
<1> QED
  BY <1>1, <1>2, <1>3, <1>4, <1>5

\* The step by which a save takes effect.
TakesEffect(s) ==
  /\ up = "up" /\ pc[s] \in Saving
  /\ disk' = snap[s] /\ tmp' \in {tmp, Missing}
  /\ Unlock(s)
  /\ UNCHANGED <<backend, mem, timer, snap, up, changes, exits, failures, failed, removed>>

LEMMA EffectOfSave ==
  ASSUME IInv, NEW s \in Savers, Rename(s) \/ Commit(s)
  PROVE  TakesEffect(s)
BY DEF IInv, Ordered, Rename, Commit, TakesEffect, Saving

\* A save that takes effect writes nothing older than the disk, and what is in
\* memory if it copied the newest content.
LEMMA EffectIInv ==
  ASSUME IInv, NEW s \in Savers, TakesEffect(s)
  PROVE  IInv' /\ disk'.ver >= disk.ver
<1>0. /\ disk.ver \in 0 .. MaxChanges /\ mem.ver \in 0 .. MaxChanges /\ changes \in 0 .. MaxChanges
      /\ \A t \in Savers : snap[t].ver \in 0 .. MaxChanges
  BY VersionedRec DEF IInv, TypeOK
<1>1. /\ disk' = snap[s] /\ mem' = mem /\ snap' = snap /\ changes' = changes /\ pc[s] \in Saving
      /\ \A t \in Savers : pc'[t] = IF t = s THEN "idle" ELSE pc[t]
  BY DEF TakesEffect, Unlock, IInv, TypeOK
<1>2. \A t \in Savers : t # s => pc[t] \notin {"locked"} \cup Saving
  BY <1>1 DEF IInv, Ordered
<1>3. TypeOK'
  BY MissingVersioned DEF IInv, TypeOK, TakesEffect, Unlock
<1>4. Ordered'
  BY <1>0, <1>1, <1>2, BackendAssumption DEF IInv, Ordered, Saving
<1>5. SameVersion'
  BY <1>1, <1>2 DEF IInv, SameVersion, Saving
<1>6. disk'.ver >= disk.ver
  BY <1>0, <1>1, BackendAssumption DEF IInv, Ordered
<1>7. NoLostUpdate'
  <2> SUFFICES ASSUME ~LoadMayFail
               PROVE  disk' = mem \/ failed >= mem.ver \/ SavePending'
    BY DEF TakesEffect, NoLostUpdate
  <2>1. CASE disk = mem
    BY <2>1, <1>0, <1>1, BackendAssumption DEF IInv, Ordered, SameVersion
  <2>2. CASE failed >= mem.ver
    BY <2>2
  <2>3. CASE timer \/ \E t \in Savers : pc[t] \in {"waiting", "locked"}
    BY <2>3, <1>1, <1>2 DEF SavePending, TakesEffect, Saving
  <2>4. ASSUME NEW t \in Savers, pc[t] \in Saving, snap[t].ver = mem.ver
        PROVE  disk' = mem
    BY <2>4, <1>1, <1>2 DEF IInv, SameVersion
  <2> QED
    BY <2>1, <2>2, <2>3, <2>4 DEF IInv, NoLostUpdate, SavePending, TakesEffect
<1> QED
  BY <1>3, <1>4, <1>5, <1>6, <1>7 DEF IInv

\* A save that is given up is remembered as failed if it held the newest content.
LEMMA FailureIInv ==
  ASSUME IInv, NEW s \in Savers, SaveFails(s)
  PROVE  IInv'
<1>0. /\ disk.ver \in 0 .. MaxChanges /\ mem.ver \in 0 .. MaxChanges /\ failed \in 0 .. MaxChanges
      /\ \A t \in Savers : snap[t].ver \in 0 .. MaxChanges
  BY VersionedRec DEF IInv, TypeOK
<1>1. /\ disk' = disk /\ mem' = mem /\ snap' = snap /\ changes' = changes /\ tmp' = tmp
      /\ timer' = timer /\ up' = up /\ saveMu' = Absent /\ pc[s] \in {"locked"} \cup Saving
      /\ \A t \in Savers : pc'[t] = IF t = s THEN "idle" ELSE pc[t]
  BY DEF SaveFails, Unlock, IInv, TypeOK, Saving
<1>2. \A t \in Savers : t # s => pc[t] \notin {"locked"} \cup Saving
  BY <1>1 DEF IInv, Ordered
<1>3. /\ failed' >= failed /\ failed' \in 0 .. MaxChanges
      /\ pc[s] = "locked" => failed' >= mem.ver
      /\ pc[s] \in Saving => failed' >= snap[s].ver
  BY <1>0, BackendAssumption DEF SaveFails, Saving
<1>4. TypeOK'
  <2>1. failures' \in 0 .. MaxFailures
    BY BackendAssumption DEF IInv, TypeOK, SaveFails
  <2> QED
    BY Zenon, <2>1, <1>3 DEF IInv, TypeOK, SaveFails, Unlock
<1>5. Ordered'
  BY <1>1, <1>2 DEF IInv, Ordered, Saving
<1>6. SameVersion'
  BY <1>1, <1>2 DEF IInv, SameVersion, Saving
<1>7. NoLostUpdate'
  <2> SUFFICES ASSUME ~LoadMayFail, up = "up"
               PROVE  disk = mem \/ failed' >= mem.ver \/ SavePending'
    BY <1>1 DEF NoLostUpdate
  <2>1. CASE disk = mem
    BY <2>1
  <2>2. CASE failed >= mem.ver
    BY <2>2, <1>0, <1>3, BackendAssumption
  <2>3. CASE timer \/ \E t \in Savers : pc[t] = "waiting"
    BY <2>3, <1>1 DEF SavePending, Saving
  <2>4. ASSUME NEW t \in Savers, pc[t] = "locked" \/ (pc[t] \in Saving /\ snap[t].ver = mem.ver)
        PROVE  failed' >= mem.ver
    BY <2>4, <1>2, <1>3
  <2> QED
    BY <2>1, <2>2, <2>3, <2>4 DEF IInv, NoLostUpdate, SavePending
<1> QED
  BY <1>4, <1>5, <1>6, <1>7 DEF IInv

\* Stopping and starting.
LEMMA ExitIInv ==
  ASSUME IInv, Crash \/ Shutdown
  PROVE  IInv'
<1>1. PICK how \in {"crashed", "shutdown"} : Exit(how)
  BY DEF Crash, Shutdown
<1>2. TypeOK'
  <2>1. exits' \in 0 .. MaxExits
    BY <1>1, BackendAssumption DEF IInv, TypeOK, Exit
  <2>2. /\ pc' \in [Savers -> {"idle", "waiting", "locked"} \cup Saving]
        /\ snap' \in [Savers -> Versioned]
    BY <1>1, MissingVersioned DEF Exit
  <2> QED
    BY Zenon, <1>1, <2>1, <2>2 DEF IInv, TypeOK, Exit
<1>3. \A s \in Savers : pc'[s] = "idle"
  BY <1>1 DEF Exit
<1>4. Ordered' /\ SameVersion'
  BY <1>1, <1>3 DEF IInv, Ordered, SameVersion, Exit, Saving
<1>5. NoLostUpdate'
  BY <1>1 DEF NoLostUpdate, Exit
<1> QED
  BY <1>2, <1>4, <1>5 DEF IInv

\* While the process is down no saver runs.
Down == up # "up" => \A s \in Savers : pc[s] = "idle"

LEMMA RestartIInv ==
  ASSUME IInv, Down, NEW loaded \in BOOLEAN, Restart(loaded)
  PROVE  IInv'
<1>1. /\ disk.ver \in 0 .. MaxChanges /\ disk.cfg \in Contents /\ Empty \in Contents
      /\ disk = [ver |-> disk.ver, cfg |-> disk.cfg] /\ mem.ver \in 0 .. MaxChanges
      /\ changes \in 0 .. MaxChanges
  BY VersionedRec DEF IInv, TypeOK, Versioned, Contents, Empty
<1>2. mem' \in Versioned /\ mem'.ver = disk.ver /\ disk' = disk
  BY <1>1 DEF Restart, LoadedContent, Versioned
<1>3. ~LoadMayFail => mem' = disk
  BY <1>1 DEF Restart, LoadedContent
<1>4. \A s \in Savers : pc'[s] = "idle"
  BY DEF Down, Restart
<1>5. TypeOK'
  BY <1>2 DEF IInv, TypeOK, Restart
<1>6. Ordered'
  BY <1>1, <1>2, <1>4, BackendAssumption DEF IInv, Ordered, Restart, Saving
<1>7. SameVersion' /\ NoLostUpdate'
  BY <1>2, <1>3, <1>4 DEF SameVersion, NoLostUpdate, Saving
<1> QED
  BY <1>5, <1>6, <1>7 DEF IInv

\* The invariant is inductive, and no step puts an older content on disk.
LEMMA StepIInv ==
  ASSUME IInv, Down, [Next]_vars
  PROVE  IInv' /\ Down' /\ (disk' = disk \/ disk'.ver >= disk.ver)
<1> USE DEF Down
<1>1. ASSUME NEW p \in Placements, NEW c \in Configs, Set(p, c)
      PROVE  IInv' /\ Down' /\ disk' = disk
  <2>1. IInv'
    BY <1>1, ChangeIInv DEF Set, IInv, TypeOK
  <2> QED
    BY <1>1, <2>1 DEF Set, Change
<1>2. ASSUME NEW p \in Placements, Remove(p)
      PROVE  IInv' /\ Down' /\ disk' = disk
  <2>1. IInv'
    BY <1>2, ChangeIInv DEF Remove, IInv, TypeOK
  <2> QED
    BY <1>2, <2>1 DEF Remove, Change
<1>3. ASSUME NEW s \in Savers,
             TimerFire(s) \/ Lock(s) \/ Snapshot(s) \/ WriteBegin(s) \/ WriteEnd(s)
      PROVE  IInv' /\ Down' /\ disk' = disk
  <2>1. IInv'
    BY <1>3, EarlyStepIInv
  <2> QED
    BY <1>3, <2>1 DEF TimerFire, Lock, Snapshot, WriteBegin, WriteEnd
<1>4. ASSUME NEW s \in Savers, Rename(s) \/ Commit(s)
      PROVE  IInv' /\ Down' /\ disk'.ver >= disk.ver
  <2>1. TakesEffect(s)
    BY <1>4, EffectOfSave
  <2>2. IInv' /\ disk'.ver >= disk.ver
    BY <2>1, EffectIInv
  <2> QED
    BY <2>1, <2>2 DEF TakesEffect
<1>5. ASSUME NEW s \in Savers, SaveFails(s)
      PROVE  IInv' /\ Down' /\ disk' = disk
  <2>1. IInv'
    BY <1>5, FailureIInv
  <2> QED
    BY <1>5, <2>1 DEF SaveFails
<1>6. CASE Crash \/ Shutdown
  <2>1. IInv'
    BY <1>6, ExitIInv
  <2> QED
    BY <1>6, <2>1 DEF Crash, Shutdown, Exit
<1>7. ASSUME NEW loaded \in BOOLEAN, Restart(loaded)
      PROVE  IInv' /\ Down' /\ disk' = disk
  <2>1. IInv'
    BY <1>7, RestartIInv
  <2> QED
    BY <1>7, <2>1 DEF Restart
<1>8. CASE UNCHANGED vars
  BY Zenon, <1>8 DEF vars, IInv, TypeOK, Ordered, SameVersion, NoLostUpdate, SavePending
<1> QED
  BY Zenon, <1>1, <1>2, <1>3, <1>4, <1>5, <1>6, <1>7, <1>8 DEF Next, SaverStep

LEMMA Invariance == Spec => [](IInv /\ Down)
<1>1. Init => IInv /\ Down
  BY InitIInv DEF Init, Down
<1>2. IInv /\ Down /\ [Next]_vars => (IInv /\ Down)'
  BY StepIInv
<1> QED
  BY <1>1, <1>2, PTL DEF Spec

\* Every value of the store has its type; in particular the file is whole.
THEOREM TypeCorrect == Spec => []TypeOK
<1>1. IInv => TypeOK
  BY DEF IInv
<1> QED
  BY <1>1, Invariance, PTL

\* The file a restart reads is never half written.
THEOREM DiskWholeHolds == Spec => []DiskWhole
<1>1. IInv => DiskWhole
  BY VersionedRec DEF IInv, TypeOK, DiskWhole
<1> QED
  BY <1>1, Invariance, PTL

\* A change that is not on disk is on its way there, or its save has failed.
THEOREM NoLostUpdateHolds == Spec => []NoLostUpdate
<1>1. IInv => NoLostUpdate
  BY DEF IInv
<1> QED
  BY <1>1, Invariance, PTL

\* No save replaces a content by an older one.
THEOREM DiskNeverGoesBackHolds == Spec => DiskNeverGoesBack
<1>1. IInv /\ Down /\ [Next]_vars => [disk'.ver >= disk.ver]_disk
  BY StepIInv
<1> QED
  BY <1>1, Invariance, PTL DEF Spec, DiskNeverGoesBack
\* Placements that y lacks although x has them were removed.
Keeps(x, y) == \A p \in Placements : x.cfg[p] # Absent /\ y.cfg[p] = Absent => p \in removed

\* What a save copied lies between the disk and the memory: along that way only
\* remove() makes a placement disappear.
Kept ==
  /\ Keeps(disk, mem)
  /\ \A s \in Savers : pc[s] \in Saving => Keeps(disk, snap[s]) /\ Keeps(snap[s], mem)

\* A change takes a placement out of the memory only if it is a removal.
LEMMA ChangeKept ==
  ASSUME IInv, Kept, NEW p \in Placements, NEW c \in Configs \cup {Absent}, Change(p, c),
         removed \subseteq removed', c = Absent => p \in removed'
  PROVE  Kept'
<1>1. mem.cfg \in [Placements -> Configs \cup {Absent}]
  BY VersionedRec DEF IInv, TypeOK, Contents
<1>2. \A q \in Placements : mem'.cfg[q] = IF q = p THEN c ELSE mem.cfg[q]
  BY <1>1 DEF Change
<1>3. UNCHANGED <<disk, pc, snap>>
  BY DEF Change
<1> QED
  BY Zenon, <1>2, <1>3 DEF Kept, Keeps

\* The steps of a save, and a stop, copy contents along that way.
LEMMA SaverKept ==
  ASSUME IInv, Kept, NEW s \in Savers,
         \/ TimerFire(s) \/ Lock(s) \/ Snapshot(s) \/ WriteBegin(s) \/ WriteEnd(s)
         \/ TakesEffect(s) \/ SaveFails(s)
  PROVE  Kept' /\ (disk' = disk \/ Keeps(disk, disk'))
<1> USE DEF Saving
<1>1. /\ pc \in [Savers -> {"idle", "waiting", "locked"} \cup Saving]
      /\ snap \in [Savers -> Versioned]
  BY DEF IInv, TypeOK
<1>2. CASE Snapshot(s)
  <2>1. UNCHANGED <<disk, mem, removed>> /\ \A t \in Savers :
          IF t = s THEN snap'[t] = mem ELSE snap'[t] = snap[t] /\ pc'[t] = pc[t]
    BY <1>1, <1>2 DEF Snapshot
  <2> QED
    BY Zenon, <2>1 DEF Kept, Keeps
<1>3. CASE TakesEffect(s)
  <2>1. /\ disk' = snap[s] /\ mem' = mem /\ snap' = snap /\ removed' = removed /\ pc[s] \in Saving
        /\ \A t \in Savers : pc'[t] = IF t = s THEN "idle" ELSE pc[t]
    BY Zenon, <1>1, <1>3 DEF TakesEffect, Unlock
  <2>2. \A t \in Savers : pc'[t] \notin Saving
    BY Zenon, <2>1 DEF IInv, Ordered
  <2> QED
    BY Zenon, <2>1, <2>2 DEF Kept, Keeps
<1>4. CASE TimerFire(s) \/ Lock(s) \/ WriteBegin(s) \/ WriteEnd(s) \/ SaveFails(s)
  <2>1. UNCHANGED <<disk, mem, snap, removed>>
    BY Zenon, <1>4 DEF TimerFire, Lock, WriteBegin, WriteEnd, SaveFails
  <2>2. \A t \in Savers : pc'[t] \in Saving => pc[t] \in Saving
    BY Zenon, <1>1, <1>4 DEF TimerFire, Lock, WriteBegin, WriteEnd, SaveFails, Unlock
  <2> QED
    BY Zenon, <2>1, <2>2 DEF Kept, Keeps
<1> QED
  BY <1>2, <1>3, <1>4

\* If load() cannot fail, a placement leaves the disk only after it was removed.
LEMMA StepKept ==
  ASSUME ~LoadMayFail, IInv, Down, Kept, [Next]_vars
  PROVE  Kept' /\ (disk' = disk \/ Keeps(disk, disk'))
<1>1. ASSUME NEW p \in Placements, NEW c \in Configs, Set(p, c)
      PROVE  Kept' /\ disk' = disk
  BY Zenon, <1>1, ChangeKept, BackendAssumption DEF Set, Change
<1>2. ASSUME NEW p \in Placements, Remove(p)
      PROVE  Kept' /\ disk' = disk
  BY <1>2, ChangeKept DEF Remove, Change
<1>3. ASSUME NEW s \in Savers, TimerFire(s) \/ SaverStep(s) \/ SaveFails(s)
      PROVE  Kept' /\ (disk' = disk \/ Keeps(disk, disk'))
  <2>1. \/ TimerFire(s) \/ Lock(s) \/ Snapshot(s) \/ WriteBegin(s) \/ WriteEnd(s)
        \/ TakesEffect(s) \/ SaveFails(s)
    BY Zenon, <1>3, EffectOfSave DEF SaverStep
  <2> QED
    BY Zenon, <2>1, SaverKept
<1>4. CASE Crash \/ Shutdown
  BY Zenon, <1>4 DEF Crash, Shutdown, Exit, Kept, Keeps, Saving
<1>5. ASSUME NEW loaded \in BOOLEAN, Restart(loaded)
      PROVE  Kept' /\ disk' = disk
  BY Zenon, <1>5 DEF Restart, LoadedContent, Down, Kept, Keeps, Saving
<1>6. CASE UNCHANGED vars
  BY Zenon, <1>6 DEF vars, Kept, Keeps
<1> QED
  BY <1>1, <1>2, <1>3, <1>4, <1>5, <1>6 DEF Next

\* A placement that is on disk stays there over crashes, shutdowns, failed and
\* overlapping saves until remove() is called for it, provided load() of
\* adServerConfigStore does not fail (if it does, the run config_store_load_fails
\* shows the placements lost).
THEOREM PlacementsSurviveHolds ==
  ASSUME ~LoadMayFail
  PROVE  Spec => PlacementsSurvive
<1>1. Init => Kept
  BY DEF Init, Kept, Keeps, Missing, Saving, Empty
<1>2. IInv /\ Down /\ Kept /\ [Next]_vars => Kept'
  BY StepKept
<1>3. Spec => []Kept
  BY <1>1, <1>2, Invariance, PTL DEF Spec
<1>4. IInv /\ Down /\ Kept /\ [Next]_vars =>
        [\A p \in Placements : disk.cfg[p] # Absent /\ disk'.cfg[p] = Absent => p \in removed]_disk
  BY StepKept DEF Keeps
<1> QED
  BY <1>3, <1>4, Invariance, PTL DEF Spec, PlacementsSurvive
=============================================================================

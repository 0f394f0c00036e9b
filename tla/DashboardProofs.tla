--------------------------- MODULE DashboardProofs --------------------------
(***************************************************************************)
(* The dashboard, for every value of the constants.  A save of EntityStore *)
(* that overlaps with no other keeps the promise of atomicWriteJSON,       *)
(* whatever fails and wherever the process dies.  The configurations that  *)
(* AdUnitSync registers agree with the stores when nobody works on an ad   *)
(* unit, unless the last push had been overtaken: a push that has read     *)
(* something that has changed since has a rival that holds the ad unit,    *)
(* and overtakes it or is overtaken.                                       *)
(***************************************************************************)
EXTENDS MCDashboard, FiniteSetTheorems, TLAPS


\* A save s that is alone is the only one that writes, and the temporary file
\* is its own.  Its copy holds what the file holds, and is complete unless
\* another save is about to copy the map.
AloneOK(s) ==
  /\ Writing = {s}
  /\ saver[s].copy \subseteq mem
  /\ saver[s].copy = mem \/ \E t \in Savers : saver[t].pc = "copy"
  /\ clean => Disk \subseteq saver[s].copy
  /\ saver[s].pc \in {"write", "rename"} => tmp \in Inodes /\ saver[s].fd = tmp
  /\ saver[s].pc = "write" => inode[tmp] = Truncated
  /\ saver[s].pc = "rename" => inode[tmp] = saver[s].copy

Handles ==
  /\ tmp # NoFile => tmp # path
  /\ \A s \in Savers : saver[s].pc \in {"idle", "copy", "open"} => saver[s].fd = NoFile

AllAloneOK == \A s \in Writing \ shared : AloneOK(s)

DownOK == ~up => \A s \in Savers : saver[s] = NoSave

CleanOK ==
  /\ clean => Disk \in Contents
  /\ clean /\ up => Disk \subseteq mem
  /\ clean /\ up /\ ~failed /\ (\A s \in Savers : saver[s].pc = "idle") => Disk = mem

\* The inductive invariant.
StoreInv == StoreTypeOK /\ Handles /\ AllAloneOK /\ DownOK /\ CleanOK

-----------------------------------------------------------------------------

\* Initially nothing is written and the map is empty.
THEOREM StoreInvInit == StoreInit => StoreInv
<1>1. SUFFICES ASSUME StoreInit PROVE StoreInv
  OBVIOUS
<1>2. StoreTypeOK
  <2>1. mem \in Contents /\ made \in 0 .. MaxEntryChanges /\ crashes \in 0 .. MaxCrashes
    BY <1>1, StoreAssumption DEF StoreInit, Contents
  <2>2. saver \in [Savers -> [pc : {"idle", "copy", "open", "write", "rename"},
                              copy : Contents, fd : Inodes \cup {NoFile}]]
    BY <1>1 DEF StoreInit, NoSave, Contents
  <2>3. /\ inode \in [Inodes -> Contents \cup {Truncated, Garbage}]
        /\ path \in Inodes \cup {NoFile} /\ tmp \in Inodes \cup {NoFile}
        /\ shared \subseteq Savers
    BY <1>1 DEF StoreInit
  <2>4. up \in BOOLEAN /\ failed \in BOOLEAN /\ clean \in BOOLEAN
    BY <1>1, Zenon DEF StoreInit
  <2> QED
    BY <2>1, <2>2, <2>3, <2>4, Zenon DEF StoreTypeOK
<1>3. Handles
  BY <1>1 DEF StoreInit, Handles, NoSave
<1>4. AllAloneOK
  BY <1>1 DEF StoreInit, AllAloneOK, Writing, NoSave
<1>5. DownOK
  BY <1>1 DEF StoreInit, DownOK
<1>6. CleanOK
  BY <1>1, StoreAssumption DEF StoreInit, CleanOK, Disk, Contents
<1> QED
  BY Zenon, <1>2, <1>3, <1>4, <1>5, <1>6 DEF StoreInv

\* Opening the temporary file gives an inode, which is not the one of the file:
\* there are inodes enough for the file and for every save.
LEMMA OpenedIsApart ==
  ASSUME StoreTypeOK, Handles
  PROVE  Opened \in Inodes /\ Opened # path
<1>1. CASE tmp # NoFile
  BY <1>1 DEF Opened, StoreTypeOK, Handles
<1>2. CASE tmp = NoFile
  <2> DEFINE Fds == {saver[s].fd : s \in Savers}
  <2>1. IsFiniteSet(Fds) /\ Cardinality(Fds) <= Cardinality(Savers)
    <3>1. [s \in Savers |-> saver[s].fd] \in Surjection(Savers, Fds)
      BY DEF Surjection, Range
    <3> HIDE DEF Fds
    <3> QED
      BY <3>1, FS_Surjection, StoreAssumption
  <2>2. IsFiniteSet(Fds \cup {path}) /\ Cardinality(Fds \cup {path}) <= Cardinality(Savers) + 1
    <3>1. /\ IsFiniteSet(Fds \cup {path})
          /\ Cardinality(Fds \cup {path}) = IF path \in Fds THEN Cardinality(Fds) ELSE Cardinality(Fds) + 1
      BY <2>1, FS_AddElement
    <3>2. Cardinality(Fds) \in Nat /\ Cardinality(Savers) \in Nat
      BY <2>1, StoreAssumption, FS_CardinalityType
    <3> QED
      BY <2>1, <3>1, <3>2
  <2>3. Free # {}
    <3>1. SUFFICES ASSUME Free = {} PROVE FALSE
      OBVIOUS
    <3>2. Inodes \subseteq Fds \cup {path}
      BY <3>1, <1>2, StoreAssumption DEF Free
    <3>3. Cardinality(Inodes) <= Cardinality(Fds \cup {path})
      BY <3>2, <2>2, FS_Subset
    <3>4. /\ Cardinality(Inodes) \in Nat /\ Cardinality(Savers) \in Nat
          /\ Cardinality(Fds \cup {path}) \in Nat
      BY <2>2, StoreAssumption, FS_CardinalityType
    <3>5. Cardinality(Inodes) >= Cardinality(Savers) + 2
      BY StoreAssumption
    <3> HIDE DEF Fds
    <3> QED
      BY <3>3, <3>4, <3>5, <2>2
  <2>4. Opened \in Free
    BY <2>3, <1>2 DEF Opened
  <2> QED
    BY <2>4 DEF Free
<1> QED
  BY <1>1, <1>2

Saves == [pc : {"idle", "copy", "open", "write", "rename"},
          copy : Contents, fd : Inodes \cup {NoFile}]

\* The types of the numbers, files and saves, without the Boolean variables.
DataOK ==
  /\ mem \in Contents
  /\ made \in 0 .. MaxEntryChanges
  /\ crashes \in 0 .. MaxCrashes
  /\ saver \in [Savers -> Saves]
  /\ inode \in [Inodes -> Contents \cup {Truncated, Garbage}]
  /\ path \in Inodes \cup {NoFile}
  /\ tmp \in Inodes \cup {NoFile}
  /\ shared \subseteq Savers

\* The types of the variables of the store.
LEMMA TypeParts == StoreTypeOK <=> DataOK /\ up \in BOOLEAN /\ failed \in BOOLEAN /\ clean \in BOOLEAN
  BY Zenon DEF StoreTypeOK, DataOK, Saves

\* Every step keeps the types.
LEMMA StoreTypeNext == ASSUME StoreInv, StoreNext PROVE StoreTypeOK'
<1>1. DataOK /\ Handles /\ StoreTypeOK
  BY TypeParts, Zenon DEF StoreInv
<1>2. ASSUME NEW s \in Savers, ChangeEntry(s) PROVE StoreTypeOK'
  <2>1. DataOK'
    BY <1>1, <1>2, StoreAssumption DEF DataOK, Saves, ChangeEntry, Contents
  <2> QED
    BY <1>1, <1>2, <2>1, Zenon DEF StoreTypeOK, DataOK, Saves, ChangeEntry
<1>3. ASSUME NEW s \in Savers, CopyEntries(s) PROVE StoreTypeOK'
  <2>1. DataOK'
    BY ZenonT(30), <1>1, <1>3 DEF DataOK, Saves, CopyEntries, Writing
  <2> QED
    BY <1>1, <1>3, <2>1, Zenon DEF StoreTypeOK, DataOK, Saves, CopyEntries
<1>4. ASSUME NEW s \in Savers, OpenTmp(s) PROVE StoreTypeOK'
  <2>1. Opened \in Inodes
    BY <1>1, OpenedIsApart
  <2>2. DataOK'
    BY ZenonT(30), <1>1, <1>4, <2>1 DEF DataOK, Saves, OpenTmp
  <2>3. clean' \in BOOLEAN /\ UNCHANGED <<up, failed>>
    BY <1>4, Zenon DEF OpenTmp
  <2> QED
    BY <1>1, <2>2, <2>3, Zenon DEF StoreTypeOK, DataOK, Saves
<1>5. ASSUME NEW s \in Savers, WriteTmp(s) PROVE StoreTypeOK'
  <2>1. PICK c \in Written(s) : inode' = [inode EXCEPT ![saver[s].fd] = c]
    BY Zenon, <1>5 DEF WriteTmp
  <2>2. c \in Contents \cup {Garbage}
    BY <1>1, <2>1 DEF Written, DataOK, Saves
  <2>3. DataOK'
    BY ZenonT(30), <1>1, <1>5, <2>1, <2>2 DEF DataOK, Saves, WriteTmp
  <2>4. clean' \in BOOLEAN /\ UNCHANGED <<up, failed>>
    BY <1>5, Zenon DEF WriteTmp
  <2> QED
    BY <1>1, <2>3, <2>4, Zenon DEF StoreTypeOK, DataOK, Saves
<1>6. ASSUME NEW s \in Savers, SaveFails(s) PROVE StoreTypeOK'
  <2>1. DataOK'
    BY Zenon, <1>1, <1>6 DEF DataOK, Saves, SaveFails, NoSave, Contents
  <2>2. clean' \in BOOLEAN /\ failed' \in BOOLEAN /\ UNCHANGED up
    BY <1>6, Zenon DEF SaveFails
  <2> QED
    BY <1>1, <2>1, <2>2, Zenon DEF StoreTypeOK, DataOK, Saves
<1>7. ASSUME NEW s \in Savers, RenameTmp(s) PROVE StoreTypeOK'
  <2>1. DataOK'
    BY Zenon, <1>1, <1>7 DEF DataOK, Saves, RenameTmp, NoSave, Contents
  <2>2. clean' \in BOOLEAN /\ failed' \in BOOLEAN /\ UNCHANGED up
    BY <1>7, Zenon DEF RenameTmp
  <2> QED
    BY <1>1, <2>1, <2>2, Zenon DEF StoreTypeOK, DataOK, Saves
<1>8. CASE Crash
  <2>1. DataOK'
    BY <1>1, <1>8, StoreAssumption DEF DataOK, Saves, Crash, NoSave, Contents
  <2>2. up' \in BOOLEAN /\ UNCHANGED <<failed, clean>>
    BY <1>8, Zenon DEF Crash
  <2> QED
    BY <1>1, <2>1, <2>2, Zenon DEF StoreTypeOK, DataOK, Saves
<1>9. CASE Restart
  <2>1. Loaded \in Contents
    BY <1>1 DEF Loaded, Disk, DataOK, Contents
  <2>2. DataOK'
    BY <1>1, <1>9, <2>1 DEF DataOK, Saves, Restart
  <2>3. up' \in BOOLEAN /\ failed' \in BOOLEAN /\ UNCHANGED clean
    BY <1>9, Zenon DEF Restart
  <2> QED
    BY <1>1, <2>2, <2>3, Zenon DEF StoreTypeOK, DataOK, Saves
<1> QED
  BY <1>2, <1>3, <1>4, <1>5, <1>6, <1>7, <1>8, <1>9 DEF StoreNext

\* Every step keeps the temporary file apart from the file, and file handles
\* with the saves that have opened one.
LEMMA HandlesNext == ASSUME StoreInv, StoreNext PROVE Handles'
<1>1. DataOK /\ Handles /\ StoreTypeOK
  BY TypeParts, Zenon DEF StoreInv
<1>2. ASSUME NEW s \in Savers, ChangeEntry(s) \/ CopyEntries(s) \/ WriteTmp(s) PROVE Handles'
  BY <1>1, <1>2 DEF Handles, DataOK, Saves, ChangeEntry, CopyEntries, WriteTmp
<1>3. ASSUME NEW s \in Savers, OpenTmp(s) PROVE Handles'
  <2>1. Opened # path
    BY <1>1, OpenedIsApart
  <2> QED
    BY <1>1, <1>3, <2>1 DEF Handles, DataOK, Saves, OpenTmp
<1>4. ASSUME NEW s \in Savers, SaveFails(s) \/ RenameTmp(s) PROVE Handles'
  BY <1>1, <1>4 DEF Handles, DataOK, Saves, SaveFails, RenameTmp, NoSave
<1>5. CASE Crash \/ Restart
  BY <1>1, <1>5 DEF Handles, DataOK, Saves, Crash, Restart, NoSave
<1> QED
  BY <1>2, <1>3, <1>4, <1>5 DEF StoreNext

\* Only a running process takes the steps of a save.
LEMMA SaverIsUp ==
  ASSUME StoreInv, NEW s \in Savers, saver[s].pc # "idle"
  PROVE  up
  BY DEF StoreInv, DownOK, NoSave

\* A save that writes and is not shared is the only one that writes, and what
\* it does to the temporary file leaves the file as it is.
LEMMA AloneWrites ==
  ASSUME StoreInv, NEW s \in Writing, s \notin shared
  PROVE  AloneOK(s) /\ \A t \in Writing : t = s
  BY Zenon DEF StoreInv, AllAloneOK, AloneOK

\* Opening the temporary file leaves the file as it is (atomicWriteJSON).
LEMMA OpenKeepsDisk ==
  ASSUME StoreInv, NEW s \in Savers, OpenTmp(s)
  PROVE  Disk' = Disk
<1>1. Opened \in Inodes /\ Opened # path
  BY OpenedIsApart DEF StoreInv
<1>2. inode \in [Inodes -> Contents \cup {Truncated, Garbage}] /\ path \in Inodes \cup {NoFile}
  BY TypeParts, Zenon DEF StoreInv, DataOK
<1>3. inode' = [inode EXCEPT ![Opened] = Truncated] /\ path' = path
  BY DEF OpenTmp
<1> QED
  BY <1>1, <1>2, <1>3 DEF Disk

\* Writing it leaves the file alone too, for a save that ran by itself.
LEMMA AloneWriteKeepsDisk ==
  ASSUME StoreInv, NEW s \in Savers, s \notin shared, saver[s].pc = "write",
         NEW c, inode' = [inode EXCEPT ![saver[s].fd] = c], path' = path
  PROVE  Disk' = Disk
<1>1. saver[s].fd = tmp /\ tmp \in Inodes
  BY Zenon, AloneWrites DEF Writing, AloneOK
<1>2. tmp # path
  BY <1>1, StoreAssumption DEF StoreInv, Handles
<1>3. inode \in [Inodes -> Contents \cup {Truncated, Garbage}] /\ path \in Inodes \cup {NoFile}
  BY TypeParts, Zenon DEF StoreInv, DataOK
<1> QED
  BY <1>1, <1>2, <1>3 DEF Disk

\* Every step keeps what is said of a save that runs alone.
LEMMA AloneNext == ASSUME StoreInv, StoreNext PROVE AllAloneOK'
<1>1. DataOK /\ Handles /\ StoreTypeOK
  BY TypeParts, Zenon DEF StoreInv
<1>2. ASSUME NEW s \in Savers, ChangeEntry(s) PROVE AllAloneOK'
  <2>1. SUFFICES ASSUME NEW t \in Writing', t \notin shared' PROVE AloneOK(t)'
    BY DEF AllAloneOK
  <2>2. /\ saver' = [saver EXCEPT ![s].pc = "copy"] /\ saver[s].pc = "idle"
        /\ mem \subseteq mem' /\ UNCHANGED <<inode, path, tmp, shared>> /\ UNCHANGED clean
    BY <1>2 DEF ChangeEntry
  <2>3. Writing' = Writing /\ s \notin Writing /\ saver'[s].pc = "copy"
    BY <1>1, <2>2 DEF Writing, DataOK, Saves
  <2>4. AloneOK(t) /\ t # s /\ saver'[t] = saver[t] /\ t \in Savers
    BY <1>1, <2>1, <2>2, <2>3, AloneWrites DEF Writing, DataOK, Saves
  <2>5. Disk' = Disk
    BY <2>2 DEF Disk
  <2> QED
    BY <2>2, <2>3, <2>4, <2>5 DEF AloneOK
<1>3. ASSUME NEW s \in Savers, CopyEntries(s) PROVE AllAloneOK'
  <2>1. SUFFICES ASSUME NEW t \in Writing', t \notin shared' PROVE AloneOK(t)'
    BY DEF AllAloneOK
  <2>2. /\ saver' = [saver EXCEPT ![s].pc = "open", ![s].copy = mem] /\ saver[s].pc = "copy"
        /\ shared' = IF Writing = {} THEN shared ELSE shared \cup Writing \cup {s}
        /\ UNCHANGED <<mem, inode, path, tmp>> /\ UNCHANGED clean
    BY <1>3 DEF CopyEntries
  <2>3. Writing' = Writing \cup {s} /\ saver'[s].pc = "open" /\ saver'[s].copy = mem
    BY <1>1, <2>2 DEF Writing, DataOK, Saves
  <2>4. Writing = {} /\ t = s
    BY <2>1, <2>2, <2>3
  <2>5. Disk' = Disk
    BY <2>2 DEF Disk
  <2>6. clean => Disk \subseteq mem
    BY <2>2, SaverIsUp, Zenon DEF StoreInv, CleanOK
  <2> QED
    BY Zenon, <2>2, <2>3, <2>4, <2>5, <2>6 DEF AloneOK
<1>4. ASSUME NEW s \in Savers, OpenTmp(s) PROVE AllAloneOK'
  <2>1. SUFFICES ASSUME NEW t \in Writing', t \notin shared' PROVE AloneOK(t)'
    BY DEF AllAloneOK
  <2>2. /\ saver' = [saver EXCEPT ![s].pc = "write", ![s].fd = Opened] /\ saver[s].pc = "open"
        /\ tmp' = Opened /\ inode' = [inode EXCEPT ![Opened] = Truncated]
        /\ UNCHANGED <<mem, path, shared>>
    BY <1>4 DEF OpenTmp
  <2>3. clean' => clean
    BY <1>4, Zenon DEF OpenTmp
  <2>4. Writing' = Writing /\ s \in Writing
    BY <1>1, <2>2 DEF Writing, DataOK, Saves
  <2>5. t = s /\ AloneOK(s)
    BY <2>1, <2>2, <2>4, AloneWrites
  <2>6. Disk' = Disk /\ Opened \in Inodes
    BY <1>1, <1>4, OpenKeepsDisk, OpenedIsApart
  <2>7. /\ saver'[s].pc = "write" /\ saver'[s].copy = saver[s].copy
        /\ saver'[s].fd = Opened /\ inode'[Opened] = Truncated
        /\ \A u \in Savers : saver[u].pc = "copy" => saver'[u].pc = "copy"
    BY <1>1, <2>2, <2>6 DEF DataOK, Saves
  <2> QED
    BY Zenon, <2>2, <2>3, <2>4, <2>5, <2>6, <2>7 DEF AloneOK
<1>5. ASSUME NEW s \in Savers, WriteTmp(s) PROVE AllAloneOK'
  <2>1. SUFFICES ASSUME NEW t \in Writing', t \notin shared' PROVE AloneOK(t)'
    BY DEF AllAloneOK
  <2>2. PICK c \in Written(s) : inode' = [inode EXCEPT ![saver[s].fd] = c]
    BY Zenon, <1>5 DEF WriteTmp
  <2>3. /\ saver' = [saver EXCEPT ![s].pc = "rename"] /\ saver[s].pc = "write"
        /\ UNCHANGED <<mem, path, tmp, shared>>
    BY <1>5 DEF WriteTmp
  <2>4. clean' => clean
    BY <1>5, Zenon DEF WriteTmp
  <2>5. Writing' = Writing /\ s \in Writing
    BY <1>1, <2>3 DEF Writing, DataOK, Saves
  <2>6. t = s /\ AloneOK(s)
    BY <2>1, <2>3, <2>5, AloneWrites
  <2>7. Disk' = Disk
    BY Zenon, <2>1, <2>2, <2>3, <2>6, AloneWriteKeepsDisk
  <2>8. c = saver[s].copy
    BY <2>2, <2>3, <2>6 DEF Written, AloneOK
  <2>9. /\ saver'[s].pc = "rename" /\ saver'[s].copy = saver[s].copy
        /\ saver'[s].fd = saver[s].fd /\ inode'[tmp] = saver[s].copy
        /\ \A u \in Savers : saver[u].pc = "copy" => saver'[u].pc = "copy"
    BY <1>1, <2>2, <2>3, <2>6, <2>8 DEF DataOK, Saves, AloneOK
  <2> QED
    BY Zenon, <2>3, <2>4, <2>5, <2>6, <2>7, <2>9 DEF AloneOK
<1>6. ASSUME NEW s \in Savers, SaveFails(s) \/ RenameTmp(s) PROVE AllAloneOK'
  <2>1. SUFFICES ASSUME NEW t \in Writing', t \notin shared' PROVE FALSE
    BY DEF AllAloneOK
  <2>2. /\ saver' = [saver EXCEPT ![s] = NoSave] /\ shared' = shared \ {s} /\ s \in Writing
    BY Zenon, <1>6 DEF SaveFails, RenameTmp, Writing
  <2>3. t \in Writing /\ t # s
    BY <1>1, <2>1, <2>2 DEF Writing, DataOK, NoSave
  <2> QED
    BY <2>1, <2>2, <2>3, AloneWrites
<1>7. CASE Crash \/ Restart
  <2>1. Writing' = {}
    BY <1>7 DEF StoreInv, DownOK, Crash, Restart, Writing, NoSave
  <2> QED
    BY <2>1 DEF AllAloneOK
<1> QED
  BY <1>2, <1>3, <1>4, <1>5, <1>6, <1>7 DEF StoreNext

\* A process that is down has no saves.
LEMMA DownNext == ASSUME StoreInv, StoreNext PROVE DownOK'
<1>1. ASSUME NEW s \in Savers,
             \/ ChangeEntry(s) \/ CopyEntries(s) \/ OpenTmp(s)
             \/ WriteTmp(s) \/ SaveFails(s) \/ RenameTmp(s)
      PROVE  DownOK'
  <2>1. up' = up /\ up
    BY Zenon, <1>1, SaverIsUp DEF ChangeEntry, CopyEntries, OpenTmp, WriteTmp, SaveFails, RenameTmp
  <2> QED
    BY <2>1 DEF DownOK
<1>2. CASE Crash
  BY <1>2 DEF Crash, DownOK
<1>3. CASE Restart
  BY <1>3 DEF Restart, DownOK
<1> QED
  BY <1>1, <1>2, <1>3 DEF StoreNext

\* A save that came to its end alone has put its copy in the file.
LEMMA AloneRename ==
  ASSUME StoreInv, NEW s \in Savers, RenameTmp(s), s \notin shared
  PROVE  Disk' = saver[s].copy /\ AloneOK(s)
<1>1. saver[s].pc = "rename" /\ path' = (IF tmp # NoFile THEN tmp ELSE path) /\ inode' = inode
  BY DEF RenameTmp
<1>2. AloneOK(s)
  BY <1>1, AloneWrites DEF Writing
<1>3. tmp \in Inodes /\ inode[tmp] = saver[s].copy
  BY <1>1, <1>2 DEF AloneOK
<1> QED
  BY <1>1, <1>2, <1>3, StoreAssumption DEF Disk

\* A failed save that was alone has left the file as it was.
LEMMA AloneFailure ==
  ASSUME StoreInv, NEW s \in Savers, SaveFails(s), s \notin shared
  PROVE  Disk' = Disk
<1>1. path' = path
  BY DEF SaveFails
<1>2. CASE saver[s].pc = "write"
  <2>1. PICK c : inode' = [inode EXCEPT ![saver[s].fd] = c]
    BY Zenon, <1>2 DEF SaveFails
  <2> QED
    BY Zenon, <1>1, <1>2, <2>1, AloneWriteKeepsDisk
<1>3. CASE saver[s].pc # "write"
  BY <1>1, <1>3 DEF SaveFails, Disk
<1> QED
  BY <1>2, <1>3

\* Every step keeps what is said of the file while the saves run alone.
LEMMA CleanNext == ASSUME StoreInv, StoreNext PROVE CleanOK'
<1>1. DataOK /\ CleanOK
  BY TypeParts, Zenon DEF StoreInv
<1>2. ASSUME NEW s \in Savers, ChangeEntry(s) \/ CopyEntries(s) PROVE CleanOK'
  <2>1. saver'[s].pc # "idle" /\ mem \subseteq mem'
    BY <1>1, <1>2 DEF DataOK, Saves, ChangeEntry, CopyEntries
  <2>2. UNCHANGED <<inode, path>> /\ clean' = clean /\ up' = up
    BY <1>2 DEF ChangeEntry, CopyEntries
  <2>3. Disk' = Disk
    BY <2>2 DEF Disk
  <2> QED
    BY <1>1, <2>1, <2>2, <2>3 DEF CleanOK, Contents
<1>3. ASSUME NEW s \in Savers, OpenTmp(s) PROVE CleanOK'
  <2>1. saver'[s].pc # "idle" /\ mem' = mem
    BY <1>1, <1>3 DEF DataOK, Saves, OpenTmp
  <2>2. (clean' => clean) /\ up' = up
    BY <1>3, Zenon DEF OpenTmp
  <2>3. Disk' = Disk
    BY <1>3, OpenKeepsDisk
  <2> QED
    BY <1>1, <2>1, <2>2, <2>3 DEF CleanOK, Contents
<1>4. ASSUME NEW s \in Savers, WriteTmp(s) PROVE CleanOK'
  <2>1. saver'[s].pc # "idle" /\ mem' = mem /\ path' = path
    BY <1>1, <1>4 DEF DataOK, Saves, WriteTmp
  <2>2. (clean' => clean /\ s \notin shared) /\ up' = up
    BY <1>4, Zenon DEF WriteTmp
  <2>3. PICK c : inode' = [inode EXCEPT ![saver[s].fd] = c]
    BY Zenon, <1>4 DEF WriteTmp
  <2>4. saver[s].pc = "write"
    BY <1>4 DEF WriteTmp
  <2>5. clean' => Disk' = Disk
    BY Zenon, <2>1, <2>2, <2>3, <2>4, AloneWriteKeepsDisk
  <2> QED
    BY <1>1, <2>1, <2>2, <2>5 DEF CleanOK, Contents
<1>5. ASSUME NEW s \in Savers, SaveFails(s) PROVE CleanOK'
  <2>1. (clean' => clean /\ s \notin shared) /\ up' = up /\ failed'
    BY <1>5, Zenon DEF SaveFails
  <2>2. mem' = mem
    BY <1>5 DEF SaveFails
  <2>3. clean' => Disk' = Disk
    BY <1>5, <2>1, AloneFailure
  <2> QED
    BY <1>1, <2>1, <2>2, <2>3 DEF CleanOK, Contents
<1>6. ASSUME NEW s \in Savers, RenameTmp(s) PROVE CleanOK'
  <2>1. SUFFICES ASSUME clean' PROVE CleanOK'
    BY DEF CleanOK
  <2>2. s \notin shared
    BY <1>6, <2>1, Zenon DEF RenameTmp
  <2>3. Disk' = saver[s].copy /\ AloneOK(s)
    BY <1>6, <2>2, AloneRename
  <2>4. mem' = mem /\ saver[s].copy \in Contents
    BY <1>1, <1>6 DEF DataOK, Saves, RenameTmp
  <2>5. ASSUME NEW t \in Savers, saver[t].pc = "copy" PROVE saver'[t].pc = "copy"
    BY <1>1, <1>6, <2>5 DEF DataOK, RenameTmp
  <2> QED
    BY <2>3, <2>4, <2>5 DEF CleanOK, AloneOK, Contents
<1>7. CASE Crash
  <2>1. ~up' /\ clean' = clean
    BY <1>7, Zenon DEF Crash
  <2>2. Disk' = Disk
    BY <1>7 DEF Crash, Disk
  <2> QED
    BY <1>1, <2>1, <2>2 DEF CleanOK, Contents
<1>8. CASE Restart
  <2>1. clean' = clean /\ mem' = Loaded
    BY <1>8 DEF Restart
  <2>2. Disk' = Disk
    BY <1>8 DEF Restart, Disk
  <2>3. clean => Loaded = Disk
    BY <1>1, StoreAssumption DEF CleanOK, Loaded, Contents
  <2> QED
    BY <1>1, <2>1, <2>2, <2>3 DEF CleanOK, Contents
<1> QED
  BY <1>2, <1>3, <1>4, <1>5, <1>6, <1>7, <1>8 DEF StoreNext

-----------------------------------------------------------------------------

\* Every step of the store keeps the inductive invariant.
THEOREM StoreInvStep == StoreInv /\ [StoreNext]_storeVars => StoreInv'
<1>1. SUFFICES ASSUME StoreInv, [StoreNext]_storeVars PROVE StoreInv'
  OBVIOUS
<1>2. CASE StoreNext
  BY <1>1, <1>2, StoreTypeNext, HandlesNext, AloneNext, DownNext, CleanNext DEF StoreInv
<1>3. CASE UNCHANGED storeVars
  BY ZenonT(30), <1>1, <1>3, Zenon DEF storeVars, StoreInv, StoreTypeOK, Handles, AllAloneOK, AloneOK,
                           Writing, Disk, DownOK, CleanOK
<1> QED
  BY <1>1, <1>2, <1>3

\* The invariant holds of the store throughout, over saves, failures and crashes
\* (entityStore.save, storeLoad).
THEOREM StoreInvariant == StoreSpec => []StoreInv
  BY StoreInvInit, StoreInvStep, PTL DEF StoreSpec

\* Whatever number of changes and crashes: unless saves overlapped, the file
\* always parses (atomicWriteJSON).
THEOREM FileWhole == StoreSpec => []FileWholeIfAlone
<1>1. StoreInv => FileWholeIfAlone
  BY StoreAssumption DEF StoreInv, CleanOK, FileWholeIfAlone, Contents
<1> QED
  BY <1>1, StoreInvariant, PTL

\* Then the file holds the map once the saves have come to their end, unless
\* the last one failed (storeSave).
THEOREM FileComplete == StoreSpec => []SavedIfAlone
<1>1. StoreInv => SavedIfAlone
  BY Zenon DEF StoreInv, CleanOK, SavedIfAlone
<1> QED
  BY <1>1, StoreInvariant, PTL

\* And no save takes a change from the file (entityStore.save).
THEOREM FileGrows == StoreSpec => AloneNeverGoesBack
<1>1. ASSUME StoreInv, [StoreNext]_storeVars, clean, clean' PROVE Disk \subseteq Disk'
  <2>1. ASSUME NEW s \in Savers, ChangeEntry(s) \/ CopyEntries(s) PROVE Disk' = Disk
    BY <2>1 DEF ChangeEntry, CopyEntries, Disk
  <2>2. ASSUME NEW s \in Savers, OpenTmp(s) PROVE Disk' = Disk
    BY <1>1, <2>2, OpenKeepsDisk
  <2>3. ASSUME NEW s \in Savers, WriteTmp(s) PROVE Disk' = Disk
    <3>1. s \notin shared
      BY <1>1, <2>3, Zenon DEF WriteTmp
    <3>2. PICK c : inode' = [inode EXCEPT ![saver[s].fd] = c]
      BY Zenon, <2>3 DEF WriteTmp
    <3>3. saver[s].pc = "write" /\ path' = path
      BY <2>3 DEF WriteTmp
    <3> QED
      BY Zenon, <1>1, <3>1, <3>2, <3>3, AloneWriteKeepsDisk
  <2>4. ASSUME NEW s \in Savers, SaveFails(s) PROVE Disk' = Disk
    <3>1. s \notin shared
      BY <1>1, <2>4, Zenon DEF SaveFails
    <3> QED
      BY <1>1, <2>4, <3>1, AloneFailure
  <2>5. ASSUME NEW s \in Savers, RenameTmp(s) PROVE Disk \subseteq Disk'
    <3>1. s \notin shared
      BY <1>1, <2>5, Zenon DEF RenameTmp
    <3> QED
      BY Zenon, <1>1, <2>5, <3>1, AloneRename DEF AloneOK
  <2>6. CASE Crash \/ Restart \/ UNCHANGED storeVars
    BY <2>6 DEF Crash, Restart, storeVars, Disk
  <2> QED
    BY <1>1, <2>1, <2>2, <2>3, <2>4, <2>5, <2>6 DEF StoreNext
<1>2. StoreInv /\ [StoreNext]_storeVars => [clean /\ clean' => Disk \subseteq Disk']_storeVars
  BY <1>1
<1> QED
  BY <1>2, StoreInvariant, PTL DEF StoreSpec, AloneNeverGoesBack


-----------------------------------------------------------------------------
(* Pushes of ad units into the pipeline.                                   *)

Pushing == {"resolve", "demand", "extra", "register"}

IsWorker(r) ==
  r = [pc |-> r.pc, todo |-> r.todo, camp |-> r.camp, demand |-> r.demand,
       extra |-> r.extra, late |-> r.late]

\* A worker, given the identifiers of ad units in use and of those that exist.
WorkerOK(r, ids, live) ==
  /\ IsWorker(r)
  /\ r.pc \in Pushing \cup {"idle", "list", "unregister"}
  /\ r.pc \in {"idle", "list"} <=> r.todo = {}
  /\ \A e \in r.todo : e.id \in ids
  /\ \A e, f \in r.todo : e.id = f.id => e = f
  /\ r.pc = "unregister" => \A e, f \in r.todo : e.id \notin live /\ e = f

\* The record of the identifiers given.
IsUsed(r) == r = [units |-> r.units, campaigns |-> r.campaigns]

SyncShape ==
  /\ IsUsed(used)
  /\ used.units \subseteq UnitIds /\ DOMAIN units \subseteq used.units
  /\ units = [u \in DOMAIN units |-> units[u]]
  /\ \A u \in DOMAIN units : units[u].id = u
  /\ worker = [w \in Workers |-> worker[w]]
  /\ \A w \in Workers : WorkerOK(worker[w], used.units, DOMAIN units)

Holds(r, u) == \E e \in r.todo : e.id = u

\* The ad unit that is pushed first.
Top(todo) == CHOOSE e \in todo : \A f \in todo : f.id <= e.id

\* What has been read for the ad unit e is what the stores hold.
ReadsHold(r, e) ==
  /\ r.pc \in {"demand", "extra", "register"} => r.camp = Resolved(e)
  /\ r.pc \in {"extra", "register"} => r.demand = DemandOf(r.camp)
  /\ r.pc = "register" => r.extra = ExtraOf(e)

UpToDate(r, e) ==
  r.pc \in Pushing /\ e \in r.todo /\ (e = Top(r.todo) => ReadsHold(r, e))

\* A worker that will register what the stores hold of u or, late, will mark it
\* as overtaken; of an ad unit that is deleted, one that will unregister it.
Good(r, u) ==
  IF u \in DOMAIN units
  THEN r.pc = "list" \/ (Holds(r, u) /\ u \in r.late) \/ UpToDate(r, units[u])
  ELSE Holds(r, u) /\ (r.pc = "unregister" \/ u \in r.late)

Settled ==
  \A u \in UnitIds :
    u \in overtaken \/ u \in direct \/ Agrees(u) \/ \E w \in Workers : Good(worker[w], u)

\* A push that is neither late nor up to date has a rival.
Rivals ==
  \A w \in Workers, u \in UnitIds :
    worker[w].pc \in Pushing /\ Holds(worker[w], u) /\ u \notin worker[w].late =>
       IF u \in DOMAIN units
       THEN \/ UpToDate(worker[w], units[u])
            \/ \E v \in Workers \ {w} : worker[v].pc = "list" \/ Holds(worker[v], u)
       ELSE \E v \in Workers : worker[v].pc = "unregister" /\ Holds(worker[v], u)

Registered ==
  \A u \in DOMAIN units :
    \/ u \in direct \/ u \in DOMAIN cfgs \/ \E w \in Workers : units[u] \in worker[w].todo
    \/ ~serving /\ \E w \in Workers : worker[w].pc = "list"

SyncInv == SyncShape /\ Settled /\ Rivals /\ Registered

\* A finite set of numbers that is not empty has a greatest one.
LEMMA GreatestOf ==
  ASSUME NEW S, IsFiniteSet(S), S \subseteq Nat, S # {}
  PROVE  \E m \in S : \A x \in S : x <= m
<1> DEFINE Max(T, m) == m \in T /\ \A x \in T : x <= m
           Bad == {T \in SUBSET S : T # {} /\ ~\E m : Max(T, m)}
<1> SUFFICES ASSUME Bad # {} PROVE FALSE
  <2>1. S \notin Bad => \E m : Max(S, m)
    OBVIOUS
  <2> QED
    BY Zenon, <2>1
<1>1. IsWellFoundedOn(StrictSubsetOrdering(S), SUBSET S)
  BY Zenon, FS_StrictSubsetOrderingWellFounded, FS_FiniteSubsetsOfFinite
<1>2. PICK T \in Bad : \A U \in Bad : ~(<<U, T>> \in StrictSubsetOrdering(S))
  BY Zenon, <1>1, WFMin
<1>3. PICK x : x \in T
  BY <1>2
<1>4. T \ {x} \notin Bad
  <2>1. <<T \ {x}, T>> \in StrictSubsetOrdering(S)
    BY Zenon, <1>2, <1>3 DEF StrictSubsetOrdering
  <2> QED
    BY <1>2, <2>1
<1>5. CASE T = {x}
  <2>1. Max(T, x)
    BY <1>2, <1>5
  <2> QED
    BY <1>2, <2>1
<1>6. CASE T # {x}
  <2>1. PICK m : Max(T \ {x}, m)
    BY <1>2, <1>3, <1>4, <1>6
  <2>2. Max(T, m) \/ Max(T, x)
    BY <1>2, <1>3, <2>1
  <2> QED
    BY <1>2, <2>2
<1> QED
  BY <1>5, <1>6

\* The list of a worker has an ad unit to be pushed first, and one only.
LEMMA TopIn ==
  ASSUME NEW T, T # {}, \A e \in T : e.id \in UnitIds
  PROVE  Top(T) \in T
<1> DEFINE S == {e.id : e \in T}
<1>1. S \in SUBSET UnitIds /\ S # {}
  OBVIOUS
<1> HIDE DEF S
<1>2. IsFiniteSet(S) /\ S \subseteq Nat
  BY Zenon, <1>1, IdAssumption, FS_Subset
<1>3. PICK m \in S : \A x \in S : x <= m
  BY Zenon, <1>1, <1>2, GreatestOf
<1>4. \E e \in T : \A f \in T : f.id <= e.id
  BY <1>3 DEF S
<1> QED
  BY <1>4 DEF Top

\* What is computed for an ad unit depends on the store of campaigns only.
LEMMA SameCampaigns ==
  ASSUME campaigns' = campaigns, NEW e
  PROVE  /\ Resolved(e)' = Resolved(e) /\ ExtraOf(e)' = ExtraOf(e)
         /\ \A c : DemandOf(c)' = DemandOf(c)
         /\ ConfigOf(e)' = ConfigOf(e)
<1>1. \A c : DemandOf(c)' = DemandOf(c)
  BY DEF DemandOf
<1>2. Resolved(e)' = Resolved(e)
  BY DEF Resolved, Existing, SuppliedBy
<1>3. ExtraOf(e)' = ExtraOf(e)
  BY Zenon DEF ExtraOf, DemandOf
<1>4. ConfigOf(e)' = ConfigOf(e)
  BY <1>1, <1>2, <1>3 DEF ConfigOf
<1> QED
  BY <1>1, <1>2, <1>3, <1>4

\* While the campaigns stay the same, so does whether a push is up to date.
LEMMA SameUpToDate ==
  ASSUME campaigns' = campaigns, NEW r, NEW e
  PROVE  UpToDate(r, e)' <=> UpToDate(r, e)
<1>1. ReadsHold(r, e)' <=> ReadsHold(r, e)
  BY SameCampaigns DEF ReadsHold
<1> QED
  BY <1>1 DEF UpToDate

\* Whether a worker is good for u depends on the entry of u and the campaigns.
LEMMA SameGood ==
  ASSUME campaigns' = campaigns, NEW r, NEW u, u \in DOMAIN units' <=> u \in DOMAIN units,
         u \in DOMAIN units => units'[u] = units[u]
  PROVE  Good(r, u)' <=> Good(r, u)
<1>1. CASE u \in DOMAIN units
  <2>1. PICK e : e = units[u]
    OBVIOUS
  <2>2. UpToDate(r, e)' <=> UpToDate(r, e)
    BY Zenon, SameUpToDate
  <2>3. e = units'[u]
    BY <1>1, <2>1
  <2> QED
    BY Zenon, <1>1, <2>1, <2>2, <2>3 DEF Good
<1>2. CASE u \notin DOMAIN units
  BY Zenon, <1>2 DEF Good
<1> QED
  BY <1>1, <1>2

\* So does what its configuration should be.
LEMMA SameAgrees ==
  ASSUME campaigns' = campaigns, NEW u, u \in DOMAIN units' <=> u \in DOMAIN units,
         u \in DOMAIN units => units'[u] = units[u],
         u \in DOMAIN cfgs' <=> u \in DOMAIN cfgs,
         u \in DOMAIN cfgs => cfgs'[u] = cfgs[u], orphans' = orphans
  PROVE  Agrees(u)' <=> Agrees(u)
<1>1. CASE u \in DOMAIN units
  <2>1. PICK e : e = units[u]
    OBVIOUS
  <2>2. ConfigOf(e)' = ConfigOf(e)
    BY SameCampaigns
  <2>3. e = units'[u]
    BY <1>1, <2>1
  <2> QED
    BY Zenon, <1>1, <2>1, <2>2, <2>3 DEF Agrees
<1>2. CASE u \notin DOMAIN units
  BY <1>2 DEF Agrees
<1> QED
  BY <1>1, <1>2

\* A worker goes from r to n without touching the stores or a configuration:
\* it stays good, keeps what it holds, and is no staler than it was.
Continues(r, n) ==
  /\ WorkerOK(n, used.units, DOMAIN units)
  /\ \A u \in UnitIds : Good(r, u) => Good(n, u)
  /\ \A u \in DOMAIN units : r.pc = "list" \/ units[u] \in r.todo => units[u] \in n.todo
  /\ \A u \in UnitIds : Holds(r, u) => Holds(n, u)
  /\ r.pc # "unregister" /\ n.pc # "list"
  /\ \A u \in UnitIds : n.pc \in Pushing /\ Holds(n, u) /\ u \notin n.late =>
       \/ u \in DOMAIN units /\ UpToDate(n, units[u])
       \/ /\ r.pc \in Pushing /\ Holds(r, u) /\ u \notin r.late
          /\ u \in DOMAIN units => ~UpToDate(r, units[u])

\* A worker that goes on in this way keeps the invariant.
LEMMA QuietMove ==
  ASSUME SyncInv, NEW w \in Workers, NEW n, Continues(worker[w], n),
         UNCHANGED <<units, campaigns, cfgs, used, serving, overtaken, direct, orphans>>,
         worker' = [worker EXCEPT ![w] = n]
  PROVE  SyncInv'
<1>0. SyncShape /\ Settled /\ Rivals /\ Registered
  BY DEF SyncInv
<1>1. /\ units' = units /\ campaigns' = campaigns /\ cfgs' = cfgs /\ used' = used
      /\ serving' = serving /\ overtaken' = overtaken /\ direct' = direct /\ orphans' = orphans
  OBVIOUS
<1>2. /\ worker' = [v \in Workers |-> worker'[v]]
      /\ \A v \in Workers : worker'[v] = IF v = w THEN n ELSE worker[v]
  BY Zenon, <1>0 DEF SyncShape
<1>3. SyncShape'
  BY ZenonT(30), <1>0, <1>1, <1>2 DEF SyncShape, Continues
<1>4. \A r, u : Good(r, u)' <=> Good(r, u)
  BY <1>1, SameGood
<1>5. \A u \in UnitIds : Agrees(u)' <=> Agrees(u)
  BY Zenon, <1>1, SameAgrees
<1>6. Settled'
  BY Zenon, <1>0, <1>1, <1>2, <1>4, <1>5 DEF Settled, Continues
<1>7. \A r, e : UpToDate(r, e)' <=> UpToDate(r, e)
  BY <1>1, SameUpToDate
<1>8. Rivals'
  <2> SUFFICES ASSUME NEW v \in Workers, NEW u \in UnitIds,
                      worker'[v].pc \in Pushing, Holds(worker'[v], u), u \notin worker'[v].late
               PROVE  IF u \in DOMAIN units
                      THEN \/ UpToDate(worker'[v], units[u])
                           \/ \E x \in Workers \ {v} : worker'[x].pc = "list" \/ Holds(worker'[x], u)
                      ELSE \E x \in Workers : worker'[x].pc = "unregister" /\ Holds(worker'[x], u)
    BY Zenon, <1>1, <1>7 DEF Rivals
  <2>1. \A x \in Workers : (worker[x].pc = "list" /\ u \in DOMAIN units) \/ Holds(worker[x], u) =>
          worker'[x].pc = "list" \/ Holds(worker'[x], u)
    <3>1. \A x \in Workers \ {w} : worker'[x] = worker[x]
      BY Zenon, <1>2
    <3>2. u \in DOMAIN units => units[u].id = u
      BY Zenon, <1>0 DEF SyncShape
    <3>3. worker[w].pc = "list" /\ u \in DOMAIN units => Holds(n, u)
      BY Zenon, <3>2 DEF Continues, Holds
    <3>4. Holds(worker[w], u) => Holds(n, u)
      BY Zenon DEF Continues
    <3> QED
      BY Zenon, <1>2, <3>1, <3>3, <3>4
  <2>2. \A x \in Workers : worker[x].pc = "unregister" => worker'[x] = worker[x]
    BY Zenon, <1>2 DEF Continues
  <2>3. CASE v # w
    <3>1. worker'[v] = worker[v]
      BY Zenon, <1>2, <2>3
    <3> QED
      BY Zenon, <1>0, <2>1, <2>2, <3>1 DEF Rivals
  <2>4. CASE v = w
    <3>1. worker'[v] = n
      BY <1>2, <2>4
    <3>2. \/ u \in DOMAIN units /\ UpToDate(n, units[u])
          \/ /\ worker[w].pc \in Pushing /\ Holds(worker[w], u) /\ u \notin worker[w].late
             /\ u \in DOMAIN units => ~UpToDate(worker[w], units[u])
      BY Zenon, <3>1 DEF Continues
    <3> QED
      BY Zenon, <1>0, <2>1, <2>2, <2>4, <3>1, <3>2 DEF Rivals
  <2> QED
    BY Zenon, <2>3, <2>4
<1>9. Registered'
  <2>1. \A u \in DOMAIN units : \A v \in Workers :
          units[u] \in worker[v].todo => units[u] \in worker'[v].todo
    BY Zenon, <1>2 DEF Continues
  <2>2. \A u \in DOMAIN units : \A v \in Workers :
          worker[v].pc = "list" => worker'[v].pc = "list" \/ units[u] \in worker'[v].todo
    BY Zenon, <1>2 DEF Continues
  <2> QED
    BY <1>0, <1>1, <2>1, <2>2 DEF Registered
<1> QED
  BY <1>3, <1>6, <1>8, <1>9 DEF SyncInv

\* A push goes on in this way if what it has read holds after the next read.
LEMMA ReadMove ==
  ASSUME SyncInv, NEW r, NEW n, WorkerOK(r, used.units, DOMAIN units), IsWorker(n),
         r.pc \in Pushing, n.pc \in Pushing, n.todo = r.todo, n.late = r.late,
         ReadsHold(r, Top(r.todo)) => ReadsHold(n, Top(r.todo))
  PROVE  Continues(r, n)
<1>1. WorkerOK(n, used.units, DOMAIN units)
  BY Zenon DEF WorkerOK, Pushing
<1>2. \A e : UpToDate(r, e) => UpToDate(n, e)
  BY Zenon DEF UpToDate
<1>3. \A u : Holds(n, u) <=> Holds(r, u)
  BY Zenon DEF Holds
<1>4. \A u \in UnitIds : Good(r, u) => Good(n, u)
  BY Zenon, <1>2, <1>3 DEF Good, Pushing
<1>5. r.pc # "unregister" /\ n.pc # "list" /\ r.pc # "list"
  BY DEF Pushing
<1> QED
  BY Zenon, <1>1, <1>2, <1>3, <1>4, <1>5 DEF Continues

\* SyncAllToPipeline takes the list of the ad units.
LEMMA ListSync ==
  ASSUME SyncInv, NEW w \in Workers, List(w)
  PROVE  SyncInv'
<1> DEFINE r == worker[w]
<1>0. SyncShape /\ WorkerOK(r, used.units, DOMAIN units) /\ r.pc = "list" /\ r.todo = {}
  BY Zenon DEF SyncInv, SyncShape, WorkerOK, List
<1>1. PICK n : n = IF units = << >> THEN Idle
                   ELSE [Idle EXCEPT !.pc = "resolve", !.todo = {units[u] : u \in DOMAIN units}]
  BY Zenon
<1>2. worker' = [worker EXCEPT ![w] = n]
  BY <1>1 DEF List
<1>3. UNCHANGED <<units, campaigns, cfgs, used, serving, overtaken, direct, orphans>>
  BY DEF List
<1>4. \A u : u \in DOMAIN units => units[u].id = u /\ u \in used.units
  BY <1>0 DEF SyncShape
<1>5. \A u \in UnitIds : ~Holds(r, u)
  BY <1>0 DEF Holds
<1>6. Continues(r, n)
  <2>1. CASE units = << >>
    <3>1. DOMAIN units = {}
      BY <2>1
    <3>2. n.pc = "idle" /\ n.todo = {} /\ IsWorker(n)
      BY <1>1, <2>1 DEF Idle, IsWorker
    <3>3. WorkerOK(n, used.units, DOMAIN units)
      BY Zenon, <3>2 DEF WorkerOK
    <3>4. \A u \in UnitIds : ~Good(r, u)
      BY Zenon, <1>5, <3>1 DEF Good
    <3> QED
      BY Zenon, <1>0, <1>5, <3>1, <3>2, <3>3, <3>4 DEF Continues, Pushing
  <2>2. CASE units # << >>
    <3>1. DOMAIN units # {}
      <4>1. units = [u \in DOMAIN units |-> units[u]]
        BY <1>0 DEF SyncShape
      <4>2. << >> = [u \in {} |-> units[u]]
        OBVIOUS
      <4> QED
        BY Zenon, <2>2, <4>1, <4>2
    <3>2. /\ n.pc = "resolve" /\ n.todo = {units[u] : u \in DOMAIN units} /\ n.late = {}
          /\ IsWorker(n)
      BY Zenon, <1>1, <2>2 DEF Idle, IsWorker
    <3>3. WorkerOK(n, used.units, DOMAIN units)
      BY <1>4, <3>1, <3>2 DEF WorkerOK, Pushing
    <3>4. \A u \in DOMAIN units : UpToDate(n, units[u])
      BY Zenon, <3>2 DEF UpToDate, ReadsHold, Pushing
    <3>5. \A u \in UnitIds : Holds(n, u) => u \in DOMAIN units
      BY <1>4, <3>2 DEF Holds
    <3>6. \A u \in UnitIds : Good(r, u) => Good(n, u)
      BY Zenon, <1>5, <3>4 DEF Good
    <3> QED
      BY Zenon, <1>0, <1>5, <3>2, <3>3, <3>4, <3>5, <3>6 DEF Continues
  <2> QED
    BY <2>1, <2>2
<1> QED
  BY Zenon, <1>2, <1>3, <1>6, QuietMove

\* The reads of syncPipelineCfg: the campaign, its contents, the other links.
LEMMA ReadSync ==
  ASSUME SyncInv, NEW w \in Workers, Resolve(w) \/ Demand(w) \/ Extra(w)
  PROVE  SyncInv'
<1>0. SyncShape /\ WorkerOK(worker[w], used.units, DOMAIN units)
  BY DEF SyncInv, SyncShape
<1>1. PICK r : r = worker[w]
  OBVIOUS
<1>2. IsWorker(r) /\ WorkerOK(r, used.units, DOMAIN units)
  BY Zenon, <1>0, <1>1 DEF WorkerOK
<1>3. PICK e : e = Top(r.todo)
  OBVIOUS
<1>4. Current(w) = e
  BY <1>1, <1>3 DEF Current, Top
<1>5. ASSUME NEW n, worker' = [worker EXCEPT ![w] = n], IsWorker(n), r.pc \in Pushing,
             n.pc \in Pushing, n.todo = r.todo, n.late = r.late, ReadsHold(r, e) => ReadsHold(n, e)
      PROVE  SyncInv'
  <2>1. Continues(r, n)
    BY Zenon, <1>2, <1>3, <1>5, ReadMove
  <2>2. UNCHANGED <<units, campaigns, cfgs, used, serving, overtaken, direct, orphans>>
    BY Zenon DEF Resolve, Demand, Extra
  <2> QED
    BY Zenon, <1>1, <1>5, <2>1, <2>2, QuietMove
<1>6. CASE Resolve(w)
  <2>1. PICK n : n = [r EXCEPT !.pc = "demand", !.camp = Resolved(e)]
    OBVIOUS
  <2>2. worker' = [worker EXCEPT ![w] = n] /\ r.pc = "resolve"
    BY Zenon, <1>0, <1>1, <1>4, <1>6, <2>1 DEF Resolve, SyncShape
  <2>3. IsWorker(n) /\ n.pc = "demand" /\ n.camp = Resolved(e) /\ n.todo = r.todo /\ n.late = r.late
    BY Zenon, <1>2, <2>1 DEF IsWorker
  <2> QED
    BY Zenon, <1>5, <2>2, <2>3 DEF ReadsHold, Pushing
<1>7. CASE Demand(w)
  <2>1. PICK n : n = [r EXCEPT !.pc = "extra", !.demand = DemandOf(r.camp)]
    OBVIOUS
  <2>2. worker' = [worker EXCEPT ![w] = n] /\ r.pc = "demand"
    BY Zenon, <1>0, <1>1, <1>7, <2>1 DEF Demand, SyncShape
  <2>3. /\ IsWorker(n) /\ n.pc = "extra" /\ n.camp = r.camp /\ n.demand = DemandOf(n.camp)
        /\ n.todo = r.todo /\ n.late = r.late
    BY Zenon, <1>2, <2>1 DEF IsWorker
  <2> QED
    BY Zenon, <1>5, <2>2, <2>3 DEF ReadsHold, Pushing
<1>8. CASE Extra(w)
  <2>1. PICK n : n = [r EXCEPT !.pc = "register", !.extra = ExtraOf(e)]
    OBVIOUS
  <2>2. worker' = [worker EXCEPT ![w] = n] /\ r.pc = "extra"
    BY Zenon, <1>0, <1>1, <1>4, <1>8, <2>1 DEF Extra, SyncShape
  <2>3. /\ IsWorker(n) /\ n.pc = "register" /\ n.camp = r.camp /\ n.demand = r.demand
        /\ n.extra = ExtraOf(e) /\ n.todo = r.todo /\ n.late = r.late
    BY Zenon, <1>2, <2>1 DEF IsWorker
  <2> QED
    BY Zenon, <1>5, <2>2, <2>3 DEF ReadsHold, Pushing
<1> QED
  BY <1>6, <1>7, <1>8

\* What the files hold when the process starts, with the first push due
\* (newEntityStore, WireVideoExchange).
LEMMA InitSync == Init => SyncInv
<1> SUFFICES ASSUME Init PROVE SyncInv
  OBVIOUS
<1>1. PICK us \in SUBSET OldUnits, camp \in CampaignIds \cup {NoCampaign}, ls \in Links :
        units = [u \in us |-> Unit(u, 0, camp, ls)]
  BY ZenonT(30) DEF Init
<1>2. /\ DOMAIN units = us /\ \A u \in us : units[u].id = u
      /\ units = [u \in DOMAIN units |-> units[u]]
  BY Zenon, <1>1 DEF Unit
<1>3. used.units = OldUnits /\ IsUsed(used)
  BY DEF Init, IsUsed
<1>4. PICK boot \in Workers :
        worker = [w \in Workers |-> IF w = boot THEN [Idle EXCEPT !.pc = "list"] ELSE Idle]
  BY ZenonT(30), IdAssumption DEF Init
<1>5. \A w \in Workers : IsWorker(worker[w]) /\ worker[w].todo = {} /\ worker[w].pc \in {"idle", "list"}
  BY Zenon, <1>4 DEF Idle, IsWorker
<1>6. worker[boot].pc = "list"
  BY <1>4 DEF Idle
<1>7. SyncShape
  <2>1. worker = [w \in Workers |-> worker[w]]
    BY <1>4
  <2>2. \A w \in Workers : WorkerOK(worker[w], used.units, DOMAIN units)
    BY Zenon, <1>5 DEF WorkerOK
  <2> QED
    BY Zenon, <1>2, <1>3, <2>1, <2>2, IdAssumption DEF SyncShape
<1>8. Settled
  <2>1. DOMAIN cfgs \ DOMAIN units \subseteq orphans
    BY DEF Init
  <2>2. \A u \in UnitIds : u \in DOMAIN units => Good(worker[boot], u)
    BY Zenon, <1>6 DEF Good
  <2>3. \A u \in UnitIds : u \notin DOMAIN units => Agrees(u)
    BY Zenon, <2>1 DEF Agrees
  <2> QED
    BY <1>4, <2>2, <2>3 DEF Settled
<1>9. Rivals
  BY Zenon, <1>5 DEF Rivals, Pushing
<1>10. Registered
  BY <1>6 DEF Registered, Init
<1> QED
  BY <1>7, <1>8, <1>9, <1>10 DEF SyncInv

\* The server starts when the first push has come to its end.
LEMMA ServeSync ==
  ASSUME SyncInv, Serve
  PROVE  SyncInv'
<1>0. SyncShape /\ Settled /\ Rivals /\ Registered
  BY DEF SyncInv
<1>1. /\ units' = units /\ campaigns' = campaigns /\ cfgs' = cfgs /\ used' = used
      /\ worker' = worker /\ overtaken' = overtaken /\ direct' = direct /\ orphans' = orphans
  BY DEF Serve
<1>2. SyncShape'
  BY Zenon, <1>0, <1>1 DEF SyncShape
<1>3. Settled'
  <2>1. \A r, u : Good(r, u)' <=> Good(r, u)
    BY <1>1, SameGood
  <2>2. \A u \in UnitIds : Agrees(u)' <=> Agrees(u)
    BY Zenon, <1>1, SameAgrees
  <2> QED
    BY Zenon, <1>0, <1>1, <2>1, <2>2 DEF Settled
<1>4. Rivals'
  <2>1. \A r, e : UpToDate(r, e)' <=> UpToDate(r, e)
    BY <1>1, SameUpToDate
  <2> QED
    BY Zenon, <1>0, <1>1, <2>1 DEF Rivals
<1>5. Registered'
  BY Zenon, <1>0, <1>1 DEF Registered, Serve
<1> QED
  BY <1>2, <1>3, <1>4, <1>5 DEF SyncInv

\* A worker that is idle is good for nothing, and holds nothing.
LEMMA IdleWorker ==
  ASSUME NEW r, WorkerOK(r, used.units, DOMAIN units), r.pc = "idle"
  PROVE  /\ \A u : ~Good(r, u) /\ ~Holds(r, u)
         /\ r.todo = {}
<1>1. r.todo = {}
  BY DEF WorkerOK
<1> QED
  BY Zenon, <1>1 DEF Good, Holds, UpToDate

\* An ad unit is created or updated by the handler w, which then pushes it.
LEMMA PutUnitSync ==
  ASSUME SyncInv, NEW w \in Workers, worker[w].pc = "idle", NEW u0 \in UnitIds, NEW e, e.id = u0,
         u0 \notin used.units \/ u0 \in DOMAIN units,
         units' = Put(units, u0, e), Push(w, e), used'.units = used.units \cup {u0}, IsUsed(used'),
         UNCHANGED <<campaigns, cfgs, serving, overtaken, direct, orphans>>
  PROVE  SyncInv'
<1>0. SyncShape /\ Settled /\ Rivals /\ Registered
  BY Zenon DEF SyncInv
<1>1. /\ campaigns' = campaigns /\ cfgs' = cfgs /\ serving' = serving
      /\ overtaken' = overtaken /\ direct' = direct /\ orphans' = orphans
  BY Zenon
<1>2. /\ DOMAIN units' = DOMAIN units \cup {u0} /\ units'[u0] = e
      /\ \A u \in DOMAIN units : u # u0 => units'[u] = units[u]
      /\ units' = [u \in DOMAIN units' |-> units'[u]]
  BY Zenon DEF Put
<1>3. PICK n : n = [Idle EXCEPT !.pc = "resolve", !.todo = {e}]
  OBVIOUS
<1>4. n.pc = "resolve" /\ n.todo = {e} /\ n.late = {} /\ IsWorker(n)
  BY Zenon, <1>3 DEF Idle, IsWorker
<1>5. /\ worker' = [v \in Workers |-> worker'[v]] /\ worker'[w] = n
      /\ \A v \in Workers \ {w} : worker'[v] = worker[v]
  BY Zenon, <1>0, <1>3 DEF Push, SyncShape
<1>6. /\ \A v \in Workers : WorkerOK(worker[v], used.units, DOMAIN units)
      /\ \A u : ~Good(worker[w], u) /\ ~Holds(worker[w], u)
      /\ worker[w].todo = {}
  BY Zenon, <1>0, IdleWorker DEF SyncShape
<1>7. SyncShape'
  <2>1. \A v \in Workers \ {w} : WorkerOK(worker[v], used'.units, DOMAIN units')
    BY <1>0, <1>2, <1>6 DEF WorkerOK, SyncShape
  <2>2. WorkerOK(n, used'.units, DOMAIN units')
    BY Zenon, <1>4 DEF WorkerOK, Pushing
  <2>3. used'.units \subseteq UnitIds /\ DOMAIN units' \subseteq used'.units
    BY Zenon, <1>0, <1>2 DEF SyncShape
  <2>4. \A u \in DOMAIN units' : units'[u].id = u
    BY Zenon, <1>0, <1>2 DEF SyncShape
  <2>5. \A v \in Workers : WorkerOK(worker'[v], used'.units, DOMAIN units')
    BY Zenon, <1>5, <2>1, <2>2
  <2> QED
    BY ZenonT(30), <1>2, <1>5, <2>3, <2>4, <2>5 DEF SyncShape
<1>8. UpToDate(n, e)'
  BY Zenon, <1>4 DEF UpToDate, ReadsHold, Pushing
<1>9. \A u \in UnitIds \ {u0} : \A r : Good(r, u)' <=> Good(r, u)
  BY Zenon, <1>1, <1>2, SameGood
<1>10. \A u \in UnitIds \ {u0} : Agrees(u)' <=> Agrees(u)
  BY ZenonT(30), <1>1, <1>2, SameAgrees
<1>11. Settled'
  <2>1. Good(n, u0)'
    BY Zenon, <1>2, <1>8 DEF Good
  <2> QED
    BY <1>0, <1>1, <1>5, <1>6, <1>9, <1>10, <2>1 DEF Settled
<1>12. \A r, f : UpToDate(r, f)' <=> UpToDate(r, f)
  BY Zenon, <1>1, SameUpToDate
<1>13. Rivals'
  <2> SUFFICES ASSUME NEW v \in Workers, NEW u \in UnitIds,
                      worker'[v].pc \in Pushing, Holds(worker'[v], u), u \notin worker'[v].late
               PROVE  IF u \in DOMAIN units'
                      THEN \/ UpToDate(worker'[v], units'[u])
                           \/ \E x \in Workers \ {v} : worker'[x].pc = "list" \/ Holds(worker'[x], u)
                      ELSE \E x \in Workers : worker'[x].pc = "unregister" /\ Holds(worker'[x], u)
    BY Zenon, <1>12 DEF Rivals
  <2>1. CASE v = w
    <3>1. u = u0
      BY Zenon, <1>4, <1>5, <2>1 DEF Holds
    <3> QED
      BY Zenon, <1>2, <1>5, <1>8, <1>12, <2>1, <3>1
  <2>2. CASE v # w /\ u = u0
    <3>1. Holds(worker'[w], u0)
      BY ZenonT(30), <1>4, <1>5 DEF Holds
    <3> QED
      BY Zenon, <1>2, <2>2, <3>1
  <2>3. CASE v # w /\ u # u0
    <3>1. worker'[v] = worker[v] /\ (u \in DOMAIN units' <=> u \in DOMAIN units)
      BY Zenon, <1>2, <1>5, <2>3
    <3>2. u \in DOMAIN units => units'[u] = units[u]
      BY Zenon, <1>2, <2>3
    <3>3. \A x \in Workers : worker[x].pc \in {"list", "unregister"} \/ Holds(worker[x], u) =>
                               worker'[x] = worker[x]
      BY Zenon, <1>5, <1>6
    <3>4. IF u \in DOMAIN units
          THEN \/ UpToDate(worker[v], units[u])
               \/ \E x \in Workers \ {v} : worker[x].pc = "list" \/ Holds(worker[x], u)
          ELSE \E x \in Workers : worker[x].pc = "unregister" /\ Holds(worker[x], u)
      BY Zenon, <1>0, <3>1 DEF Rivals
    <3>5. CASE u \in DOMAIN units
      BY ZenonT(30), <3>1, <3>2, <3>3, <3>4, <3>5
    <3>6. CASE u \notin DOMAIN units
      BY ZenonT(30), <3>1, <3>3, <3>4, <3>6
    <3> QED
      BY Zenon, <3>5, <3>6
  <2> QED
    BY Zenon, <2>1, <2>2, <2>3
<1>14. Registered'
  BY <1>0, <1>1, <1>2, <1>4, <1>5, <1>6 DEF Registered
<1> QED
  BY Zenon, <1>7, <1>11, <1>13, <1>14 DEF SyncInv

\* The handlers that create and update an ad unit.
LEMMA CreateUnitSync ==
  ASSUME SyncInv, NEW w \in Workers, NEW u \in UnitIds, CreateUnit(w, u) \/ UpdateUnit(w, u)
  PROVE  SyncInv'
<1>0. SyncShape
  BY DEF SyncInv
<1>1. PICK e : e.id = u /\ units' = Put(units, u, e) /\ Push(w, e)
  BY Zenon DEF CreateUnit, UpdateUnit, Unit
<1>2. u \notin used.units \/ u \in DOMAIN units
  BY DEF CreateUnit, UpdateUnit
<1>3. UNCHANGED <<campaigns, cfgs, serving, overtaken, direct, orphans>> /\ worker[w].pc = "idle"
  BY Zenon DEF CreateUnit, UpdateUnit, Change
<1>4. used'.units = used.units \cup {u} /\ IsUsed(used')
  <2>1. CASE CreateUnit(w, u)
    BY Zenon, <1>0, <2>1 DEF CreateUnit, SyncShape, IsUsed
  <2>2. CASE UpdateUnit(w, u)
    BY Zenon, <1>0, <2>2 DEF UpdateUnit, SyncShape
  <2> QED
    BY Zenon, <2>1, <2>2
<1> QED
  BY Zenon, <1>1, <1>2, <1>3, <1>4, PutUnitSync

\* An ad unit is deleted by the handler w, which then unregisters it.
LEMMA DeleteUnitSync ==
  ASSUME SyncInv, NEW w \in Workers, NEW u0 \in UnitIds, DeleteUnit(w, u0)
  PROVE  SyncInv'
<1>0. SyncShape /\ Settled /\ Rivals /\ Registered
  BY DEF SyncInv
<1>1. /\ campaigns' = campaigns /\ cfgs' = cfgs /\ serving' = serving /\ used' = used
      /\ overtaken' = overtaken /\ direct' = direct /\ orphans' = orphans
      /\ worker[w].pc = "idle" /\ u0 \in DOMAIN units
  BY DEF DeleteUnit, Change
<1>2. /\ DOMAIN units' = DOMAIN units \ {u0}
      /\ \A u \in DOMAIN units' : units'[u] = units[u]
      /\ units' = [u \in DOMAIN units' |-> units'[u]]
  BY DEF DeleteUnit, Without
<1>3. PICK n : n = [Idle EXCEPT !.pc = "unregister", !.todo = {units[u0]}]
  OBVIOUS
<1>4. n.pc = "unregister" /\ n.todo = {units[u0]} /\ n.late = {} /\ IsWorker(n)
  BY Zenon, <1>3 DEF Idle, IsWorker
<1>5. /\ worker' = [v \in Workers |-> worker'[v]] /\ worker'[w] = n
      /\ \A v \in Workers \ {w} : worker'[v] = worker[v]
  BY <1>0, <1>3 DEF DeleteUnit, SyncShape
<1>6. /\ \A v \in Workers : WorkerOK(worker[v], used.units, DOMAIN units)
      /\ \A u : ~Good(worker[w], u) /\ ~Holds(worker[w], u)
      /\ worker[w].todo = {}
  BY Zenon, <1>0, <1>1, IdleWorker DEF SyncShape
<1>7. Holds(n, u0) /\ units[u0].id = u0
  BY Zenon, <1>0, <1>1, <1>4 DEF Holds, SyncShape
<1>8. SyncShape'
  <2>1. \A v \in Workers \ {w} : WorkerOK(worker[v], used'.units, DOMAIN units')
    BY <1>1, <1>2, <1>6 DEF WorkerOK
  <2>2. WorkerOK(n, used'.units, DOMAIN units')
    BY <1>0, <1>1, <1>2, <1>4, <1>7 DEF WorkerOK, SyncShape, Pushing
  <2>3. \A v \in Workers : WorkerOK(worker'[v], used'.units, DOMAIN units')
    BY Zenon, <1>5, <2>1, <2>2
  <2> QED
    BY ZenonT(30), <1>0, <1>1, <1>2, <1>5, <2>3 DEF SyncShape
<1>9. \A u \in UnitIds \ {u0} : \A r : Good(r, u)' <=> Good(r, u)
  BY Zenon, <1>1, <1>2, SameGood
<1>10. \A u \in UnitIds \ {u0} : Agrees(u)' <=> Agrees(u)
  BY Zenon, <1>1, <1>2, SameAgrees
<1>11. Settled'
  <2>1. Good(n, u0)'
    BY Zenon, <1>2, <1>4, <1>7 DEF Good
  <2> QED
    BY Zenon, <1>0, <1>1, <1>5, <1>6, <1>9, <1>10, <2>1 DEF Settled
<1>12. \A r, f : UpToDate(r, f)' <=> UpToDate(r, f)
  BY Zenon, <1>1, SameUpToDate
<1>13. Rivals'
  <2> SUFFICES ASSUME NEW v \in Workers, NEW u \in UnitIds,
                      worker'[v].pc \in Pushing, Holds(worker'[v], u), u \notin worker'[v].late
               PROVE  IF u \in DOMAIN units'
                      THEN \/ UpToDate(worker'[v], units'[u])
                           \/ \E x \in Workers \ {v} : worker'[x].pc = "list" \/ Holds(worker'[x], u)
                      ELSE \E x \in Workers : worker'[x].pc = "unregister" /\ Holds(worker'[x], u)
    BY Zenon, <1>12 DEF Rivals
  <2>1. v # w
    BY <1>4, <1>5 DEF Pushing
  <2>2. CASE u = u0
    BY ZenonT(30), <1>2, <1>4, <1>5, <1>7, <2>2
  <2>3. CASE u # u0
    <3>1. worker'[v] = worker[v] /\ (u \in DOMAIN units' <=> u \in DOMAIN units)
      BY Zenon, <1>2, <1>5, <2>1, <2>3
    <3>2. u \in DOMAIN units => units'[u] = units[u]
      BY Zenon, <1>2, <2>3
    <3>3. \A x \in Workers : worker[x].pc \in {"list", "unregister"} \/ Holds(worker[x], u) =>
                               worker'[x] = worker[x]
      BY Zenon, <1>1, <1>5, <1>6
    <3> QED
      BY <1>0, <3>1, <3>2, <3>3 DEF Rivals
  <2> QED
    BY Zenon, <2>2, <2>3
<1>14. Registered'
  BY ZenonT(30), <1>0, <1>1, <1>2, <1>4, <1>5, <1>6 DEF Registered
<1> QED
  BY <1>8, <1>11, <1>13, <1>14 DEF SyncInv

\* A campaign is changed by the handler w, whose goroutine is to push every ad
\* unit (onChange).
LEMMA CampaignSync ==
  ASSUME SyncInv, NEW w \in Workers, worker[w].pc = "idle", OnChange(w), used'.units = used.units, IsUsed(used'),
         UNCHANGED <<units, cfgs, serving, overtaken, direct, orphans>>
  PROVE  SyncInv'
<1>0. SyncShape /\ Settled /\ Rivals /\ Registered
  BY Zenon DEF SyncInv
<1>1. /\ units' = units /\ cfgs' = cfgs /\ serving' = serving
      /\ overtaken' = overtaken /\ direct' = direct /\ orphans' = orphans
  BY Zenon
<1>2. PICK n : n = [Idle EXCEPT !.pc = "list"]
  BY Zenon
<1>3. n.pc = "list" /\ n.todo = {} /\ IsWorker(n)
  BY Zenon, <1>2 DEF Idle, IsWorker
<1>4. /\ worker' = [v \in Workers |-> worker'[v]] /\ worker'[w] = n
      /\ \A v \in Workers \ {w} : worker'[v] = worker[v]
  BY Zenon, <1>0, <1>2 DEF OnChange, SyncShape
<1>5. /\ \A v \in Workers : WorkerOK(worker[v], used.units, DOMAIN units)
      /\ \A u : ~Good(worker[w], u) /\ ~Holds(worker[w], u)
      /\ worker[w].todo = {}
  BY Zenon, <1>0, IdleWorker DEF SyncShape
<1>6. SyncShape'
  <2>1. WorkerOK(n, used.units, DOMAIN units)
    BY Zenon, <1>3 DEF WorkerOK
  <2>2. \A v \in Workers : WorkerOK(worker'[v], used'.units, DOMAIN units')
    BY Zenon, <1>1, <1>4, <1>5, <2>1
  <2> QED
    BY Zenon, <1>0, <1>1, <1>4, <2>2 DEF SyncShape
<1>7. Settled'
  <2>1. \A u \in DOMAIN units : Good(n, u)'
    BY Zenon, <1>1, <1>3 DEF Good
  <2>2. \A u \in UnitIds \ DOMAIN units : \A r : Good(r, u)' <=> Good(r, u)
    BY Zenon, <1>1 DEF Good
  <2>3. \A u \in UnitIds \ DOMAIN units : Agrees(u)' <=> Agrees(u)
    BY Zenon, <1>1 DEF Agrees
  <2> QED
    BY Zenon, <1>0, <1>1, <1>4, <1>5, <2>1, <2>2, <2>3 DEF Settled
<1>8. Rivals'
  <2> SUFFICES ASSUME NEW v \in Workers, NEW u \in UnitIds,
                      worker'[v].pc \in Pushing, Holds(worker'[v], u), u \notin worker'[v].late
               PROVE  IF u \in DOMAIN units
                      THEN \E x \in Workers \ {v} : worker'[x].pc = "list"
                      ELSE \E x \in Workers : worker'[x].pc = "unregister" /\ Holds(worker'[x], u)
    BY Zenon, <1>1 DEF Rivals
  <2>1. v # w /\ worker'[v] = worker[v]
    BY Zenon, <1>3, <1>4 DEF Pushing
  <2>2. CASE u \in DOMAIN units
    BY Zenon, <1>3, <1>4, <2>1, <2>2
  <2>3. CASE u \notin DOMAIN units
    <3>1. \A x \in Workers : worker[x].pc = "unregister" => worker'[x] = worker[x]
      BY Zenon, <1>4
    <3> QED
      BY Zenon, <1>0, <2>1, <2>3, <3>1 DEF Rivals
  <2> QED
    BY Zenon, <2>2, <2>3
<1>9. Registered'
  BY <1>0, <1>1, <1>4, <1>5 DEF Registered
<1> QED
  BY Zenon, <1>6, <1>7, <1>8, <1>9 DEF SyncInv

\* The worker r once it has been overtaken on u0, if it holds it.
Late(r, u0) == IF Holds(r, u0) THEN [r EXCEPT !.late = @ \cup {u0}] ELSE r

\* A worker that is marked as overtaken is otherwise the same.
LEMMA LateWorker ==
  ASSUME NEW r, NEW u0, NEW ids, NEW live, WorkerOK(r, ids, live)
  PROVE  /\ WorkerOK(Late(r, u0), ids, live)
         /\ Late(r, u0).pc = r.pc /\ Late(r, u0).todo = r.todo
         /\ Holds(r, u0) => u0 \in Late(r, u0).late
         /\ r.late \subseteq Late(r, u0).late
         /\ \A u : Holds(Late(r, u0), u) <=> Holds(r, u)
         /\ \A e : UpToDate(r, e) => UpToDate(Late(r, u0), e)
         /\ \A u : Good(r, u) => Good(Late(r, u0), u)
<1>1. PICK n : n = Late(r, u0)
  OBVIOUS
<1>2. IsWorker(r)
  BY Zenon DEF WorkerOK
<1>3. /\ IsWorker(n) /\ n.pc = r.pc /\ n.todo = r.todo /\ r.late \subseteq n.late
      /\ n.camp = r.camp /\ n.demand = r.demand /\ n.extra = r.extra
      /\ Holds(r, u0) => u0 \in n.late
  BY <1>1, <1>2 DEF Late, IsWorker
<1>4. WorkerOK(n, ids, live)
  BY Zenon, <1>3 DEF WorkerOK
<1>5. \A u : Holds(n, u) <=> Holds(r, u)
  BY Zenon, <1>3 DEF Holds
<1>6. \A e : UpToDate(r, e) => UpToDate(n, e)
  BY Zenon, <1>3 DEF UpToDate, ReadsHold
<1>7. \A u : Good(r, u) => Good(n, u)
  BY Zenon, <1>3, <1>5, <1>6 DEF Good
<1> QED
  BY Zenon, <1>1, <1>3, <1>4, <1>5, <1>6, <1>7

\* The worker w has done with the ad unit u0, which leaves its list, and the
\* others that hold it are overtaken.
LEMMA PassOn ==
  ASSUME SyncInv, NEW w \in Workers, NEW u0 \in UnitIds, NEW n, NEW r, r = worker[w],
         \A v \in Workers : worker'[v] = IF v = w THEN n ELSE Late(worker[v], u0),
         worker' = [v \in Workers |-> worker'[v]],
         UNCHANGED <<units, campaigns, used, serving, orphans>>,
         DOMAIN cfgs' \ {u0} = DOMAIN cfgs \ {u0},
         \A u \in DOMAIN cfgs \ {u0} : cfgs'[u] = cfgs[u],
         overtaken' \ {u0} = overtaken \ {u0}, direct' = direct \ {u0},
         WorkerOK(n, used.units, DOMAIN units),
         n.pc \in {"idle", "resolve"}, n.todo = {e \in r.todo : e.id # u0},
         n.todo # {} => n.late = r.late,
         r.pc = "register" \/ (r.pc = "unregister" /\ n.todo = {}),
         u0 \in overtaken' \/ Agrees(u0)' \/ \E v \in Workers : Good(worker'[v], u0),
         u0 \in DOMAIN units => u0 \in DOMAIN cfgs'
  PROVE  SyncInv'
<1>0. SyncShape /\ Settled /\ Rivals /\ Registered
  BY Zenon DEF SyncInv
<1>1. /\ units' = units /\ campaigns' = campaigns /\ used' = used
      /\ serving' = serving /\ orphans' = orphans
  BY Zenon
<1>2. \A v \in Workers : WorkerOK(worker[v], used.units, DOMAIN units)
  BY ZenonT(30), <1>0 DEF SyncShape
<1>3. /\ worker'[w] = n
      /\ \A v \in Workers \ {w} :
           /\ WorkerOK(worker'[v], used.units, DOMAIN units)
           /\ worker'[v].pc = worker[v].pc /\ worker'[v].todo = worker[v].todo
           /\ Holds(worker[v], u0) => u0 \in worker'[v].late
           /\ worker[v].late \subseteq worker'[v].late
           /\ \A u : Holds(worker'[v], u) <=> Holds(worker[v], u)
           /\ \A e : UpToDate(worker[v], e) => UpToDate(worker'[v], e)
           /\ \A u : Good(worker[v], u) => Good(worker'[v], u)
  <2>1. \A v \in Workers \ {w} : worker'[v] = Late(worker[v], u0)
    BY Zenon
  <2> QED
    BY <1>2, <2>1, LateWorker
<1>4. SyncShape'
  <2>1. \A v \in Workers : WorkerOK(worker'[v], used'.units, DOMAIN units')
    BY Zenon, <1>1, <1>2, <1>3
  <2> QED
    BY Zenon, <1>0, <1>1, <2>1 DEF SyncShape
<1>5. n.todo # {} => n.pc = "resolve"
  BY Zenon DEF WorkerOK
<1>6. \A u \in UnitIds \ {u0} : Holds(n, u) <=> Holds(r, u)
  BY Zenon DEF Holds
<1>7. ~Holds(n, u0)
  BY Zenon DEF Holds
<1>8. \A u \in UnitIds \ {u0} : u \in DOMAIN units /\ UpToDate(r, units[u]) => UpToDate(n, units[u])
  <2>1. \A u \in DOMAIN units : units[u].id = u
    BY Zenon, <1>0 DEF SyncShape
  <2> QED
    BY Zenon, <1>5, <2>1 DEF UpToDate, ReadsHold, Pushing
<1>9. \A u \in UnitIds \ {u0} : Good(r, u) => Good(n, u)
  <2> SUFFICES ASSUME NEW u \in UnitIds \ {u0}, Good(r, u) PROVE Good(n, u)
    BY Zenon
  <2>1. Holds(r, u) => n.late = r.late /\ r.pc = "register"
    BY Zenon, <1>6 DEF Holds
  <2> QED
    BY Zenon, <1>6, <1>8, <2>1 DEF Good
<1>10. Settled'
  <2>1. \A x, u : Good(x, u)' <=> Good(x, u)
    BY Zenon, <1>1, SameGood
  <2>2. \A u \in UnitIds \ {u0} : Agrees(u)' <=> Agrees(u)
    BY Zenon, <1>1, SameAgrees
  <2>3. \A u \in UnitIds \ {u0} : \A v \in Workers : Good(worker[v], u) => Good(worker'[v], u)
    BY Zenon, <1>2, <1>3, <1>9
  <2>4. \A u \in UnitIds \ {u0} : /\ u \in overtaken' <=> u \in overtaken
                                  /\ u \in direct' <=> u \in direct
    BY Zenon
  <2> QED
    BY ZenonT(30), <1>0, <2>1, <2>2, <2>3, <2>4 DEF Settled
<1>11. \A x, f : UpToDate(x, f)' <=> UpToDate(x, f)
  BY ZenonT(30), <1>1, SameUpToDate
<1>12. Rivals'
  <2> SUFFICES ASSUME NEW v \in Workers, NEW u \in UnitIds,
                      worker'[v].pc \in Pushing, Holds(worker'[v], u), u \notin worker'[v].late
               PROVE  IF u \in DOMAIN units
                      THEN \/ UpToDate(worker'[v], units[u])
                           \/ \E x \in Workers \ {v} : worker'[x].pc = "list" \/ Holds(worker'[x], u)
                      ELSE \E x \in Workers : worker'[x].pc = "unregister" /\ Holds(worker'[x], u)
    BY Zenon, <1>1, <1>11 DEF Rivals
  <2>1. u # u0
    BY Zenon, <1>2, <1>3, <1>7
  <2>2. worker[v].pc \in Pushing /\ Holds(worker[v], u) /\ u \notin worker[v].late
    <3>1. CASE v # w
      BY Zenon, <1>2, <1>3, <3>1
    <3>2. CASE v = w
      <4>1. Holds(r, u) /\ n.todo # {}
        BY Zenon, <1>3, <1>6, <2>1, <3>2 DEF Holds
      <4> QED
        BY Zenon, <1>3, <3>2, <4>1 DEF Pushing
    <3> QED
      BY Zenon, <3>1, <3>2
  <2>3. u \in DOMAIN units /\ UpToDate(worker[v], units[u]) => UpToDate(worker'[v], units[u])
    BY Zenon, <1>2, <1>3, <1>8, <2>1
  <2>4. \A x \in Workers : Holds(worker[x], u) => Holds(worker'[x], u)
    BY Zenon, <1>2, <1>3, <1>6, <2>1
  <2>5. \A x \in Workers : worker[x].pc = "list" => worker'[x].pc = "list"
    BY Zenon, <1>2, <1>3
  <2>6. \A x \in Workers : worker[x].pc = "unregister" /\ Holds(worker[x], u) =>
                             worker'[x].pc = "unregister" /\ Holds(worker'[x], u)
    <3>1. r.pc = "unregister" => ~Holds(r, u)
      BY Zenon, <1>6, <2>1 DEF Holds
    <3> QED
      BY Zenon, <1>2, <1>3, <3>1
  <2> QED
    BY <1>0, <2>2, <2>3, <2>4, <2>5, <2>6 DEF Rivals
<1>13. Registered'
  <2> SUFFICES ASSUME NEW u \in DOMAIN units
               PROVE  \/ u \in direct' \/ u \in DOMAIN cfgs'
                      \/ \E v \in Workers : units[u] \in worker'[v].todo
                      \/ ~serving /\ \E v \in Workers : worker'[v].pc = "list"
    BY <1>1 DEF Registered
  <2>1. CASE u = u0
    BY Zenon, <2>1
  <2>2. CASE u # u0
    <3>1. units[u].id = u
      BY Zenon, <1>0 DEF SyncShape
    <3>2. \A v \in Workers : units[u] \in worker[v].todo => units[u] \in worker'[v].todo
      BY Zenon, <1>2, <1>3, <2>2, <3>1
    <3>3. \A v \in Workers : worker[v].pc = "list" => worker'[v].pc = "list"
      BY Zenon, <1>2, <1>3
    <3>4. u \in direct => u \in direct'
      BY Zenon, <2>2
    <3> QED
      BY Zenon, <1>0, <2>2, <3>2, <3>3, <3>4 DEF Registered
  <2> QED
    BY Zenon, <2>1, <2>2
<1> QED
  BY Zenon, <1>4, <1>10, <1>12, <1>13 DEF SyncInv

\* What Register and Unregister make of the workers.
LEMMA Overtaking ==
  ASSUME SyncShape, NEW w \in Workers, NEW u0, NEW n,
         worker' = [Overtake(w, u0) EXCEPT ![w] = n]
  PROVE  /\ worker' = [v \in Workers |-> worker'[v]]
         /\ \A v \in Workers : worker'[v] = IF v = w THEN n ELSE Late(worker[v], u0)
  BY ZenonT(30) DEF Overtake, Late, Holds

\* registerCfg: a late push is marked, one that is up to date leaves what the
\* stores hold, and any other has a rival, which is late from now on.
LEMMA RegisterSync ==
  ASSUME SyncInv, NEW w \in Workers, Register(w)
  PROVE  SyncInv'
<1>0. SyncShape /\ Settled /\ Rivals
  BY DEF SyncInv
<1>1. PICK r : r = worker[w]
  BY Zenon
<1>2. r.pc = "register" /\ WorkerOK(r, used.units, DOMAIN units) /\ IsWorker(r)
  BY Zenon, <1>0, <1>1 DEF Register, SyncShape, WorkerOK
<1>3. PICK e : e = Top(r.todo)
  BY Zenon
<1>4. Current(w) = e
  BY Zenon, <1>1, <1>3 DEF Current, Top
<1>5. e \in r.todo
  <2>1. r.todo # {} /\ \A f \in r.todo : f.id \in UnitIds
    BY Zenon, <1>0, <1>2 DEF WorkerOK, SyncShape
  <2> QED
    BY Zenon, <1>3, <2>1, TopIn
<1>6. PICK u0 \in UnitIds : u0 = e.id
  BY Zenon, <1>0, <1>2, <1>5 DEF WorkerOK, SyncShape
<1>7. PICK n : n = After(w, e)
  BY Zenon
<1>8. n.todo = {f \in r.todo : f.id # u0}
  <2>1. \A f \in r.todo : f.id = u0 => f = e
    BY Zenon, <1>2, <1>5, <1>6 DEF WorkerOK
  <2>2. CASE r.todo = {e}
    BY <1>1, <1>6, <1>7, <2>2 DEF After, Idle
  <2>3. CASE r.todo # {e}
    <3>1. n.todo = r.todo \ {e}
      BY Zenon, <1>1, <1>2, <1>7, <2>3 DEF After, IsWorker
    <3> QED
      BY Zenon, <1>6, <2>1, <3>1
  <2> QED
    BY Zenon, <2>2, <2>3
<1>9. /\ WorkerOK(n, used.units, DOMAIN units)
      /\ n.pc \in {"idle", "resolve"}
      /\ n.todo # {} => n.late = r.late
  <2>1. CASE r.todo = {e}
    <3>1. n = Idle
      BY <1>1, <1>7, <2>1 DEF After
    <3> QED
      BY Zenon, <3>1 DEF Idle, WorkerOK, IsWorker
  <2>2. CASE r.todo # {e}
    <3>1. n = [r EXCEPT !.pc = "resolve", !.todo = r.todo \ {e}]
      BY <1>1, <1>7, <2>2 DEF After
    <3>2. IsWorker(n) /\ n.pc = "resolve" /\ n.late = r.late /\ n.todo = r.todo \ {e}
      BY Zenon, <1>2, <3>1 DEF IsWorker
    <3>3. n.todo # {}
      BY Zenon, <1>5, <2>2, <3>2
    <3> QED
      BY Zenon, <1>2, <3>2, <3>3 DEF WorkerOK, Pushing
  <2> QED
    BY Zenon, <2>1, <2>2
<1>10. /\ units' = units /\ campaigns' = campaigns /\ used' = used
       /\ serving' = serving /\ orphans' = orphans
  BY Zenon DEF Register
<1>11. cfgs' = Put(cfgs, u0, Config(e, r.camp, r.demand, r.extra))
  BY Zenon, <1>1, <1>4, <1>6 DEF Register
<1>12. /\ DOMAIN cfgs' = DOMAIN cfgs \cup {u0} /\ cfgs'[u0] = Config(e, r.camp, r.demand, r.extra)
       /\ \A u \in DOMAIN cfgs \ {u0} : cfgs'[u] = cfgs[u]
  BY Zenon, <1>11 DEF Put
<1>13. overtaken' = IF u0 \in r.late THEN overtaken \cup {u0} ELSE overtaken \ {u0}
  BY Zenon, <1>1, <1>4, <1>6 DEF Register
<1>14. /\ worker' = [v \in Workers |-> worker'[v]]
       /\ \A v \in Workers : worker'[v] = IF v = w THEN n ELSE Late(worker[v], u0)
  <2>1. worker' = [Overtake(w, u0) EXCEPT ![w] = n]
    BY Zenon, <1>4, <1>6, <1>7 DEF Register
  <2> QED
    BY Zenon, <1>0, <2>1, Overtaking
<1>15. u0 \in overtaken' \/ Agrees(u0)' \/ \E v \in Workers : Good(worker'[v], u0)
  <2>1. CASE u0 \in r.late
    BY Zenon, <1>13, <2>1
  <2>2. \A v \in Workers \ {w} :
          /\ worker'[v].pc = worker[v].pc /\ \A u : Holds(worker'[v], u) <=> Holds(worker[v], u)
          /\ Holds(worker[v], u0) => u0 \in worker'[v].late
    <3> TAKE v \in Workers \ {w}
    <3>1. PICK x : x = worker[v]
      OBVIOUS
    <3>2. worker'[v] = Late(x, u0)
      BY Zenon, <1>14, <3>1
    <3>3. WorkerOK(x, used.units, DOMAIN units)
      BY Zenon, <1>0, <3>1 DEF SyncShape
    <3>4. /\ Late(x, u0).pc = x.pc
          /\ Holds(x, u0) => u0 \in Late(x, u0).late
          /\ \A u : Holds(Late(x, u0), u) <=> Holds(x, u)
      BY Zenon, <3>3, LateWorker
    <3> QED
      BY ZenonT(30), <3>1, <3>2, <3>4
  <2>3. r.pc \in Pushing /\ Holds(r, u0)
    BY Zenon, <1>2, <1>5, <1>6 DEF Holds, Pushing
  <2>4. CASE u0 \notin r.late /\ u0 \notin DOMAIN units
    <3>1. PICK v \in Workers : worker[v].pc = "unregister" /\ Holds(worker[v], u0)
      BY Zenon, <1>0, <1>1, <2>3, <2>4 DEF Rivals
    <3>2. v # w
      BY Zenon, <1>1, <1>2, <3>1
    <3>3. Good(worker'[v], u0)
      BY Zenon, <2>2, <2>4, <3>1, <3>2 DEF Good
    <3> QED
      BY Zenon, <3>3
  <2>5. CASE u0 \notin r.late /\ u0 \in DOMAIN units /\ UpToDate(r, units[u0])
    <3>1. units[u0] = e
      BY Zenon, <1>0, <1>2, <1>5, <1>6, <2>5 DEF UpToDate, SyncShape, WorkerOK
    <3>2. r.camp = Resolved(e) /\ r.demand = DemandOf(r.camp) /\ r.extra = ExtraOf(e)
      BY Zenon, <1>2, <1>3, <2>5, <3>1 DEF UpToDate, ReadsHold
    <3>3. cfgs'[u0] = ConfigOf(e)
      BY Zenon, <1>12, <3>2 DEF ConfigOf
    <3>4. ConfigOf(e)' = ConfigOf(e)
      BY Zenon, <1>10, SameCampaigns
    <3>5. u0 \in DOMAIN units' /\ units'[u0] = e /\ u0 \in DOMAIN cfgs'
      BY Zenon, <1>10, <1>12, <2>5, <3>1
    <3>6. Agrees(u0)'
      BY Zenon, <3>3, <3>4, <3>5 DEF Agrees
    <3> QED
      BY Zenon, <3>6
  <2>6. CASE u0 \notin r.late /\ u0 \in DOMAIN units /\ ~UpToDate(r, units[u0])
    <3>1. PICK v \in Workers \ {w} : worker[v].pc = "list" \/ Holds(worker[v], u0)
      BY Zenon, <1>0, <1>1, <2>3, <2>6 DEF Rivals
    <3>2. Good(worker'[v], u0)
      BY Zenon, <2>2, <2>6, <3>1 DEF Good
    <3> QED
      BY Zenon, <3>2
  <2> QED
    BY Zenon, <2>1, <2>4, <2>5, <2>6
<1>16. DOMAIN cfgs' \ {u0} = DOMAIN cfgs \ {u0} /\ overtaken' \ {u0} = overtaken \ {u0}
  BY Zenon, <1>12, <1>13
<1>17. r.pc = "register" \/ (r.pc = "unregister" /\ n.todo = {})
  BY Zenon, <1>2
<1>18. u0 \in DOMAIN units => u0 \in DOMAIN cfgs'
  BY Zenon, <1>12
<1>19. UNCHANGED <<units, campaigns, used, serving, orphans>> /\ direct' = direct \ {u0}
  BY ZenonT(30), <1>4, <1>6, <1>10 DEF Register
<1> QED
  BY SMTT(30), <1>1, <1>8, <1>9, <1>12, <1>14, <1>15, <1>16, <1>17, <1>18, <1>19, PassOn

\* The handler of a deletion takes the configuration from the pipeline.
LEMMA UnregisterSync ==
  ASSUME SyncInv, NEW w \in Workers, Unregister(w)
  PROVE  SyncInv'
<1>0. SyncShape
  BY Zenon DEF SyncInv
<1>1. PICK r : r = worker[w]
  OBVIOUS
<1>2. r.pc = "unregister" /\ WorkerOK(r, used.units, DOMAIN units)
  BY Zenon, <1>0, <1>1 DEF Unregister, SyncShape
<1>3. PICK e : e = Top(r.todo)
  OBVIOUS
<1>4. Current(w) = e
  BY <1>1, <1>3 DEF Current, Top
<1>5. e \in r.todo
  <2>1. r.todo # {} /\ \A f \in r.todo : f.id \in UnitIds
    BY Zenon, <1>0, <1>2 DEF WorkerOK, SyncShape
  <2> QED
    BY Zenon, <1>3, <2>1, TopIn
<1>6. PICK u0 \in UnitIds : u0 = e.id
  BY Zenon, <1>0, <1>2, <1>5 DEF WorkerOK, SyncShape
<1>7. PICK n : n = Idle
  OBVIOUS
<1>8. n.todo = {} /\ n.pc = "idle" /\ WorkerOK(n, used.units, DOMAIN units)
  BY Zenon, <1>7 DEF Idle, WorkerOK, IsWorker
<1>9. n.todo = {f \in r.todo : f.id # u0}
  BY Zenon, <1>2, <1>5, <1>6, <1>8 DEF WorkerOK
<1>10. u0 \notin DOMAIN units
  BY Zenon, <1>2, <1>5, <1>6 DEF WorkerOK
<1>11. /\ UNCHANGED <<units, campaigns, used, serving, orphans>>
       /\ units' = units
       /\ cfgs' = Without(cfgs, u0) /\ overtaken' = overtaken \ {u0}
       /\ direct' = direct \ {u0}
  BY Zenon, <1>4, <1>6 DEF Unregister
<1>12. DOMAIN cfgs' = DOMAIN cfgs \ {u0} /\ \A u \in DOMAIN cfgs \ {u0} : cfgs'[u] = cfgs[u]
  BY Zenon, <1>11 DEF Without
<1>13. /\ worker' = [v \in Workers |-> worker'[v]]
       /\ \A v \in Workers : worker'[v] = IF v = w THEN n ELSE Late(worker[v], u0)
  <2>1. worker' = [Overtake(w, u0) EXCEPT ![w] = n]
    BY Zenon, <1>4, <1>6, <1>7 DEF Unregister
  <2> QED
    BY Zenon, <1>0, <2>1, Overtaking
<1>14. Agrees(u0)'
  BY Zenon, <1>10, <1>11, <1>12 DEF Agrees
<1>15. DOMAIN cfgs' \ {u0} = DOMAIN cfgs \ {u0} /\ overtaken' \ {u0} = overtaken \ {u0}
  BY Zenon, <1>11, <1>12
<1>16. r.pc = "register" \/ (r.pc = "unregister" /\ n.todo = {})
  BY Zenon, <1>2, <1>8
<1>17. n.pc \in {"idle", "resolve"} /\ (n.todo # {} => n.late = r.late)
  BY Zenon, <1>8
<1> QED
  BY SMTT(30), <1>1, <1>8, <1>9, <1>10, <1>11, <1>12, <1>13, <1>14, <1>15, <1>16, <1>17, PassOn

\* /video/adserver sets or removes a configuration, whatever the workers do.
LEMMA DirectSync ==
  ASSUME SyncInv, NEW u0 \in UnitIds, PostConfig(u0) \/ DeleteConfig(u0)
  PROVE  SyncInv'
<1>0. SyncShape /\ Settled /\ Rivals /\ Registered
  BY DEF SyncInv
<1>1. /\ units' = units /\ campaigns' = campaigns /\ used' = used /\ worker' = worker
      /\ serving' = serving /\ overtaken' = overtaken /\ direct' = direct \cup {u0}
      /\ orphans' = orphans
  BY Zenon DEF PostConfig, DeleteConfig
<1>2. \A u \in UnitIds \ {u0} : /\ u \in DOMAIN cfgs' <=> u \in DOMAIN cfgs
                                /\ u \in DOMAIN cfgs => cfgs'[u] = cfgs[u]
  BY Zenon DEF PostConfig, DeleteConfig, Put, Without
<1>3. SyncShape'
  BY Zenon, <1>0, <1>1 DEF SyncShape
<1>4. Settled'
  <2>1. \A r, u : Good(r, u)' <=> Good(r, u)
    BY <1>1, SameGood
  <2>2. \A u \in UnitIds \ {u0} : Agrees(u)' <=> Agrees(u)
    BY Zenon, <1>1, <1>2, SameAgrees
  <2> QED
    BY Zenon, <1>0, <1>1, <2>1, <2>2 DEF Settled
<1>5. Rivals'
  <2>1. \A r, e : UpToDate(r, e)' <=> UpToDate(r, e)
    BY <1>1, SameUpToDate
  <2> QED
    BY Zenon, <1>0, <1>1, <2>1 DEF Rivals
<1>6. Registered'
  <2>1. \A u \in DOMAIN units : u \in UnitIds
    BY Zenon, <1>0 DEF SyncShape
  <2> QED
    BY Zenon, <1>0, <1>1, <1>2, <2>1 DEF Registered
<1> QED
  BY <1>3, <1>4, <1>5, <1>6 DEF SyncInv

\* Every step of the handlers and goroutines keeps the invariant.
LEMMA NextSync == SyncInv /\ [Next]_vars => SyncInv'
<1> SUFFICES ASSUME SyncInv, [Next]_vars PROVE SyncInv'
  OBVIOUS
<1>1. ASSUME NEW w \in Workers, Step(w) PROVE SyncInv'
  BY Zenon, <1>1, ListSync, ReadSync, RegisterSync, UnregisterSync DEF Step
<1>2. ASSUME NEW w \in Workers, NEW u \in UnitIds,
             CreateUnit(w, u) \/ UpdateUnit(w, u) \/ DeleteUnit(w, u)
      PROVE  SyncInv'
  BY Zenon, <1>2, CreateUnitSync, DeleteUnitSync
<1>3. ASSUME NEW w \in Workers, NEW c \in CampaignIds,
             CreateCampaign(w, c) \/ UpdateCampaign(w, c) \/ DeleteCampaign(w, c)
      PROVE  SyncInv'
  <2>1. worker[w].pc = "idle" /\ OnChange(w) /\ UNCHANGED <<units, cfgs, serving, overtaken, direct, orphans>>
    BY Zenon, <1>3 DEF CreateCampaign, UpdateCampaign, DeleteCampaign, Change
  <2>2. used'.units = used.units /\ IsUsed(used')
    BY Zenon, <1>3 DEF CreateCampaign, UpdateCampaign, DeleteCampaign, SyncInv, SyncShape, IsUsed
  <2> QED
    BY Zenon, <2>1, <2>2, CampaignSync
<1>4. CASE UNCHANGED vars
  <2>1. /\ units' = units /\ campaigns' = campaigns /\ cfgs' = cfgs /\ used' = used
        /\ worker' = worker /\ overtaken' = overtaken /\ direct' = direct /\ orphans' = orphans /\ serving' = serving
    BY Zenon, <1>4 DEF vars
  <2>2. \A r, u : Good(r, u)' <=> Good(r, u)
    BY Zenon, <2>1, SameGood
  <2>3. \A u \in UnitIds : Agrees(u)' <=> Agrees(u)
    BY Zenon, <2>1, SameAgrees
  <2>4. \A r, e : UpToDate(r, e)' <=> UpToDate(r, e)
    BY Zenon, <2>1, SameUpToDate
  <2>5. SyncShape' /\ Registered'
    <3>1. SyncShape'
      BY Zenon, <2>1 DEF SyncInv, SyncShape
    <3>2. Registered'
      BY Zenon, <2>1 DEF SyncInv, Registered
    <3> QED
      BY <3>1, <3>2
  <2>6. Settled'
    BY Zenon, <2>1, <2>2, <2>3 DEF SyncInv, Settled
  <2>7. Rivals'
    BY Zenon, <2>1, <2>4 DEF SyncInv, Rivals
  <2> QED
    BY <2>5, <2>6, <2>7 DEF SyncInv
<1> QED
  BY Zenon, <1>1, <1>2, <1>3, <1>4, ServeSync, DirectSync DEF Next

\* For any number of ad units, campaigns, handlers and goroutines, in every
\* interleaving of their reads and pushes: once the server listens, an ad unit
\* has a configuration or is about to get one, and the configuration of an ad
\* unit nobody works on is the one the stores give, unless its last push had
\* been overtaken or /video/adserver has set it since (syncPipelineCfg,
\* SyncAllToPipeline, AdServerConfigEndpoint).
THEOREM ConfigsAgreeHolds == Spec => []ConfigsAgree
<1>1. SyncInv => ConfigsAgree
  <2> SUFFICES ASSUME SyncInv, serving PROVE ConfigsAgree
    BY Zenon DEF ConfigsAgree
  <2>1. \A u \in DOMAIN units \ direct :
          u \in DOMAIN cfgs \/ \E w \in Workers : units[u] \in worker[w].todo
    BY Zenon DEF SyncInv, Registered
  <2>2. \A u \in UnitIds : AtRest(u) => \A w \in Workers : ~Good(worker[w], u)
    <3>1. SyncShape
      BY DEF SyncInv
    <3>2. \A u \in UnitIds : AtRest(u) =>
            \A w \in Workers : worker[w].pc # "list" /\ ~Holds(worker[w], u)
      BY Zenon DEF AtRest, Holds
    <3>3. \A u \in DOMAIN units : \A r : UpToDate(r, units[u]) => Holds(r, u)
      BY Zenon, <3>1 DEF UpToDate, Holds, SyncShape
    <3> QED
      BY Zenon, <3>2, <3>3 DEF Good
  <2>3. \A u \in UnitIds \ (overtaken \cup direct) : AtRest(u) => Agrees(u)
    BY Zenon, <2>2 DEF SyncInv, Settled
  <2> QED
    BY Zenon, <2>1, <2>3 DEF ConfigsAgree
<1> QED
  BY <1>1, InitSync, NextSync, PTL DEF Spec

\* The dashboard as it is model-checked runs its two parts as they are: what is
\* proved of the pushes and of the store holds in it (MCDashboard).
THEOREM DashboardRunsParts == DashboardSpec => Spec /\ StoreSpec
<1>1. DashboardInit => Init /\ StoreInit
  BY DEF DashboardInit
<1>2. [DashboardNext]_dashboardVars => [Next]_vars /\ [StoreNext]_storeVars
  BY Zenon DEF DashboardNext, Sync, dashboardVars
<1> QED
  BY <1>1, <1>2, PTL DEF DashboardSpec, Spec, StoreSpec
=============================================================================

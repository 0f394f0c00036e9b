----------------------------- MODULE EntityStore ----------------------------
(***************************************************************************)
(* The generic store behind every list of the dashboard (entityStore in    *)
(* endpoints/dashboard.go) with its file.  create, update, delete and      *)
(* modifyFn change the map under the lock and start a goroutine that saves *)
(* it: the map is copied under the read lock, and atomicWriteJSON writes   *)
(* the copy to path + ".tmp" and renames it.  No lock covers a save, and   *)
(* all saves of a store use the same temporary file.                       *)
(*                                                                         *)
(* The contents of the map are the set of the changes made to it.  A file  *)
(* name refers to an inode; a writer keeps the inode it has opened, under  *)
(* whatever name.  When a copy is written over bytes that another writer   *)
(* has left, the tail of the longer text may remain, and the file may or   *)
(* may not parse: both are possible.  The database that can replace the    *)
(* files is not modelled.                                                  *)
(***************************************************************************)
EXTENDS Integers, FiniteSets

CONSTANTS Savers,           \* goroutines that save
          Inodes,           \* at least two more than the savers
          NoFile,           \* a name without a file
          Truncated,        \* an empty file, which does not parse
          Garbage,          \* other contents that do not parse
          MaxEntryChanges,  \* bound on the changes
          MaxCrashes        \* bound on the crashes

ASSUME StoreAssumption ==
  /\ MaxEntryChanges \in Nat /\ MaxCrashes \in Nat
  /\ IsFiniteSet(Savers) /\ IsFiniteSet(Inodes) /\ NoFile \notin Inodes
  /\ Cardinality(Inodes) >= Cardinality(Savers) + 2
  /\ Truncated \notin SUBSET (1 .. MaxEntryChanges)
  /\ Garbage \notin SUBSET (1 .. MaxEntryChanges)

VARIABLES mem,      \* contents of the map
          up,       \* the process runs
          made,     \* number of changes
          crashes,  \* number of crashes
          saver,    \* state of each save
          inode,    \* contents of the files
          path,     \* inode of the file
          tmp,      \* inode of the temporary file
          shared,   \* history: saves that have overlapped with another
          failed,   \* history: the last save failed
          clean     \* history: the file was left by a save that ran alone

storeVars == <<mem, up, made, crashes, saver, inode, path, tmp, shared, failed, clean>>

Contents == SUBSET (1 .. MaxEntryChanges)

NoSave == [pc |-> "idle", copy |-> {}, fd |-> NoFile]

\* Saves that have copied the map and not come to their end.
Writing == {s \in Savers : saver[s].pc \in {"open", "write", "rename"}}

StoreInit ==
  /\ mem = {}
  /\ up = TRUE
  /\ made = 0
  /\ crashes = 0
  /\ saver = [s \in Savers |-> NoSave]
  /\ inode = [i \in Inodes |-> Truncated]
  /\ path = NoFile
  /\ tmp = NoFile
  /\ shared = {}
  /\ failed = FALSE
  /\ clean = TRUE

\* Mutant of ChangeEntry: no save is started.
ChangeEntryUnsaved(s) ==
  /\ up
  /\ made < MaxEntryChanges
  /\ saver[s].pc = "idle"
  /\ made' = made + 1
  /\ mem' = mem \cup {made'}
  /\ UNCHANGED <<up, crashes, saver, inode, path, tmp, shared, failed, clean>>

\* create, update, delete, modifyFn: the map changes and a save is started.
ChangeEntry(s) ==
  /\ up
  /\ made < MaxEntryChanges
  /\ saver[s].pc = "idle"
  /\ made' = made + 1
  /\ mem' = mem \cup {made'}
  /\ saver' = [saver EXCEPT ![s].pc = "copy"]
  /\ UNCHANGED <<up, crashes, inode, path, tmp, shared, failed, clean>>

\* storeSave copies the map.  From here on the saves disturb each other.
CopyEntries(s) ==
  /\ saver[s].pc = "copy"
  /\ saver' = [saver EXCEPT ![s].pc = "open", ![s].copy = mem]
  /\ shared' = IF Writing = {} THEN shared ELSE shared \cup Writing \cup {s}
  /\ UNCHANGED <<mem, up, made, crashes, inode, path, tmp, failed, clean>>

\* Inodes without a name that nobody has open.
Free == {i \in Inodes \ {path, tmp} : \A s \in Savers : saver[s].fd # i}

\* Mutant of Opened: the file itself is opened.
OpenedInPlace == IF path # NoFile THEN path ELSE CHOOSE i \in Free : TRUE

\* The inode that opening the temporary file gives: the existing one, which is
\* truncated, or a new one.
Opened == IF tmp # NoFile THEN tmp ELSE CHOOSE i \in Free : TRUE

OpenTmp(s) ==
  /\ saver[s].pc = "open"
  /\ tmp' = Opened
  /\ inode' = [inode EXCEPT ![Opened] = Truncated]
  /\ saver' = [saver EXCEPT ![s].pc = "write", ![s].fd = Opened]
  /\ clean' = (clean /\ s \notin shared)
  /\ UNCHANGED <<mem, up, made, crashes, path, shared, failed>>

\* What a file may hold once s has written its copy to it.
Written(s) ==
  {saver[s].copy} \cup (IF inode[saver[s].fd] = Truncated THEN {} ELSE {Garbage})

WriteTmp(s) ==
  /\ saver[s].pc = "write"
  /\ \E c \in Written(s) : inode' = [inode EXCEPT ![saver[s].fd] = c]
  /\ saver' = [saver EXCEPT ![s].pc = "rename"]
  /\ clean' = (clean /\ s \notin shared)
  /\ UNCHANGED <<mem, up, made, crashes, path, tmp, shared, failed>>

\* The temporary file cannot be opened, or the write fails and leaves it as it
\* is.
SaveFails(s) ==
  /\ \/ saver[s].pc = "open" /\ UNCHANGED inode
     \/ /\ saver[s].pc = "write"
        /\ \E c \in {Truncated, Garbage} : inode' = [inode EXCEPT ![saver[s].fd] = c]
  /\ saver' = [saver EXCEPT ![s] = NoSave]
  /\ shared' = shared \ {s}
  /\ failed' = TRUE
  /\ clean' = (clean /\ s \notin shared)
  /\ UNCHANGED <<mem, up, made, crashes, path, tmp>>

\* os.Rename, which fails if another save has renamed the temporary file.
RenameTmp(s) ==
  /\ saver[s].pc = "rename"
  /\ path' = IF tmp # NoFile THEN tmp ELSE path
  /\ tmp' = NoFile
  /\ saver' = [saver EXCEPT ![s] = NoSave]
  /\ shared' = shared \ {s}
  /\ failed' = (tmp = NoFile)
  /\ clean' = (s \notin shared)
  /\ UNCHANGED <<mem, up, made, crashes, inode>>

Crash ==
  /\ up
  /\ crashes < MaxCrashes
  /\ crashes' = crashes + 1
  /\ up' = FALSE
  /\ saver' = [s \in Savers |-> NoSave]
  /\ shared' = {}
  /\ UNCHANGED <<mem, made, inode, path, tmp, failed, clean>>

\* What is on disk under the name of the file, for a reader.
Disk == IF path = NoFile THEN {} ELSE inode[path]

\* storeLoad: a file that does not parse is only logged.
Loaded == IF Disk \in {Truncated, Garbage} THEN {} ELSE Disk

Restart ==
  /\ ~up
  /\ up' = TRUE
  /\ mem' = Loaded
  /\ failed' = FALSE
  /\ UNCHANGED <<made, crashes, saver, inode, path, tmp, shared, clean>>

StoreNext ==
  \/ Crash \/ Restart
  \/ \E s \in Savers :
       \/ ChangeEntry(s) \/ CopyEntries(s) \/ OpenTmp(s)
       \/ WriteTmp(s) \/ SaveFails(s) \/ RenameTmp(s)

StoreSpec == StoreInit /\ [][StoreNext]_storeVars

-----------------------------------------------------------------------------

StoreTypeOK ==
  /\ mem \in Contents
  /\ up \in BOOLEAN
  /\ made \in 0 .. MaxEntryChanges
  /\ crashes \in 0 .. MaxCrashes
  /\ saver \in [Savers -> [pc : {"idle", "copy", "open", "write", "rename"},
                           copy : Contents, fd : Inodes \cup {NoFile}]]
  /\ inode \in [Inodes -> Contents \cup {Truncated, Garbage}]
  /\ path \in Inodes \cup {NoFile}
  /\ tmp \in Inodes \cup {NoFile}
  /\ shared \subseteq Savers
  /\ failed \in BOOLEAN
  /\ clean \in BOOLEAN

\* As long as no two saves overlapped since the last save that ran alone, the
\* file is whole whatever write failed and wherever the process died: this is
\* what writing a temporary file and renaming it is for (atomicWriteJSON).
\* With overlapping saves it fails: one save renames the file the other has
\* just truncated.
FileWholeIfAlone == clean => Disk \notin {Truncated, Garbage}

\* Then the file also holds every change once the saves have come to their
\* end, unless the last one failed (storeSave).
SavedIfAlone ==
  clean /\ up /\ ~failed /\ (\A s \in Savers : saver[s].pc = "idle") => Disk = mem

\* A save that runs alone never takes a change from the file
\* (entityStore.save).
AloneNeverGoesBack == [][clean /\ clean' => Disk \subseteq Disk']_storeVars

=============================================================================

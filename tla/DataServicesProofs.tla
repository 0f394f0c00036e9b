------------------------- MODULE DataServicesProofs -------------------------
(***************************************************************************)
(* The services behind the request handlers, for every value of their      *)
(* constants.  An event of the ClickHouse store is stored at most once and *)
(* is never lost in silence: the inductive invariant says that it is in    *)
(* one place at a time, with its handler, in the queue, in the batch or in *)
(* the table.  The age of the currency rates is bounded: the next look at  *)
(* them is always under way or to come.  The cache of stored requests      *)
(* follows the backend: a change the producer has seen has been applied,   *)
(* or is on its way, or is one of the exceptions CacheFollows names.       *)
(***************************************************************************)
EXTENDS MCDataServices, TLAPS

-----------------------------------------------------------------------------
(* The cache of stored requests.                                           *)

PollRecords ==
  [pc : {"idle", "query", "send"}, start : Nat, save : RowMaps, drop : RowMaps]
FetchRecords == [pc : {"idle", "fetch", "save"}, want : SUBSET Ids, rows : RowMaps]

Shaped == poll \in PollRecords /\ fetch \in [Fetchers -> FetchRecords]

\* r is what the row s is or was: s itself when it is as new as s.
VersionOf(r, s) == 0 <= r.at /\ r.at <= s.at /\ (r.at = s.at => r = s)
AllVersions(map, all) == \A id \in DOMAIN map : VersionOf(map[id], all[id])
NoneLive(map) == \A id \in DOMAIN map : ~map[id].live

\* Whatever is cached or on its way is a version of the row of the backend.
Versions ==
  /\ \A id \in Ids : 0 <= stored[id].at /\ stored[id].at <= now /\ applied[id] <= stored[id].at
  /\ \A id \in Ids : cache[id] = Absent \/ VersionOf(cache[id], stored[id])
  /\ AllVersions(poll.save, stored) /\ AllVersions(poll.drop, stored)
  /\ AllVersions(saves, stored) /\ AllVersions(invalidations, stored)
  /\ NoneLive(poll.drop) /\ NoneLive(invalidations)
  /\ \A f \in Fetchers : AllVersions(fetch[f].rows, stored)

Control ==
  /\ poll.pc # "send" => poll.save = NoRows /\ poll.drop = NoRows
  /\ source = "http" => 0 <= lastUpdate
  /\ source = "http" /\ load = "never" => lastUpdate = 0
  /\ source = "database" => (load = "done" <=> lastUpdate # Never)

\* An id without a race was last written with a row that is as new as the last
\* event, or invalidated by it.
Newest ==
  \A id \in Ids \ raced :
    \/ applied[id] <= cache[id].at
    \/ cache[id] = Absent /\ (applied[id] = stored[id].at => ~stored[id].live)

InFlight(id) ==
  id \in DOMAIN poll.save \cup DOMAIN poll.drop \cup DOMAIN saves \cup DOMAIN invalidations

Brings(map, id, row) == id \in DOMAIN map /\ map[id].at = row.at

\* A deletion that the first load of the database found, and an entry as old as
\* the server that the first load over HTTP did not bring.
Exempt(id) ==
  \/ /\ source = "database" /\ ~stored[id].live /\ ~InFlight(id)
     /\ \/ id \in skipped
        \/ /\ cache[id] \in {Absent, stored[id]}
           /\ \A f \in Fetchers : id \in DOMAIN fetch[f].rows => fetch[f].rows[id] = stored[id]
  \/ source = "http" /\ stored[id].at = 0 /\ (load = "failed" \/ ~stored[id].live)

\* The event of the row as it is now has been applied or is on its way.
Seen(id) ==
  \/ applied[id] = stored[id].at
  \/ Brings(poll.save, id, stored[id]) \/ Brings(poll.drop, id, stored[id])
  \/ Brings(saves, id, stored[id]) \/ Brings(invalidations, id, stored[id])
  \/ Exempt(id)

\* The producer has seen every change up to the time it will ask from.
Reached ==
  /\ load # "never" => \A id \in Ids : stored[id].at <= lastUpdate => Seen(id)
  /\ poll.pc = "send" => \A id \in Ids : stored[id].at <= Polled => Seen(id)
  /\ source = "database" /\ lastUpdate = Never /\ poll.pc # "send" =>
       \A id \in Ids : ~InFlight(id)

StoredInv == StoredTypeOK /\ Shaped /\ Versions /\ Control /\ Newest /\ Reached

\* Of maps from ids to rows: the empty one, and the rows of the backend.
LEMMA RowMapFacts ==
  /\ NoRows \in RowMaps /\ DOMAIN NoRows = {}
  /\ \A R \in RowMaps : DOMAIN R \subseteq Ids /\ \A id \in DOMAIN R : R[id] \in AllRows
<1>1. NoRows \in [{} -> AllRows] /\ DOMAIN NoRows = {}
  BY DEF NoRows
<1>2. NoRows \in RowMaps
  BY Zenon, <1>1 DEF RowMaps
<1> QED
  BY <1>1, <1>2 DEF RowMaps

\* The rows a query returns are those of the backend.
LEMMA RowsFacts ==
  ASSUME StoredTypeOK, NEW ids \in SUBSET Ids
  PROVE  Rows(ids) \in RowMaps /\ DOMAIN Rows(ids) = ids /\ \A id \in ids : Rows(ids)[id] = stored[id]
<1>1. Rows(ids) \in [ids -> AllRows]
  BY DEF StoredTypeOK, Rows
<1> QED
  BY <1>1 DEF RowMaps, Rows

\* The cache starts empty and nothing is on its way.
LEMMA InitStored == StoredInit => StoredInv
<1> SUFFICES ASSUME StoredInit PROVE StoredInv
  OBVIOUS
<1>1. NoRows \in RowMaps /\ DOMAIN NoRows = {}
  BY RowMapFacts
<1>2. /\ poll.pc = "idle" /\ poll.start = 0 /\ poll.save = NoRows /\ poll.drop = NoRows
      /\ \A f \in Fetchers : fetch[f].pc = "idle" /\ fetch[f].want = {} /\ fetch[f].rows = NoRows
  BY DEF StoredInit, NoPoll, NoFetch
<1>3. Shaped
  BY <1>1 DEF StoredInit, Shaped, NoPoll, NoFetch, PollRecords, FetchRecords
<1>4. stored \in [Ids -> AllRows] /\ (\A id \in Ids : stored[id].at = 0)
  BY StoredAssumption DEF StoredInit, AllRows, Times, Never
<1>5. cache \in [Ids -> AllRows] /\ (\A id \in Ids : cache[id] = Absent) /\ applied \in [Ids -> Times]
  BY StoredAssumption DEF StoredInit, AllRows, Times, Never, Absent
<1>6. listening \in BOOLEAN
  BY Zenon DEF StoredInit
<1>7. StoredTypeOK
  BY <1>1, <1>2, <1>4, <1>5, <1>6, StoredAssumption DEF StoredInit, StoredTypeOK, Never
<1>8. Versions
  BY <1>1, <1>2, <1>4, <1>5 DEF StoredInit, Versions, AllVersions, NoneLive, Never
<1>9. Control /\ Reached
  BY <1>1, <1>2 DEF StoredInit, Control, Reached, InFlight, Never
<1>10. Newest
  BY <1>5 DEF StoredInit, Newest, Absent, Never
<1> QED
  BY <1>3, <1>7, <1>8, <1>9, <1>10 DEF StoredInv

\* What is known of the parts of the state, for the steps.
LEMMA StoredParts ==
  ASSUME StoredInv
  PROVE  /\ StoredTypeOK /\ Shaped /\ Versions /\ Control /\ Newest /\ Reached
         /\ now \in Int /\ lastUpdate \in Int /\ poll.start \in Int
         /\ poll \in PollRecords /\ poll.save \in RowMaps /\ poll.drop \in RowMaps
         /\ saves \in RowMaps /\ invalidations \in RowMaps
         /\ \A f \in Fetchers : fetch[f] \in FetchRecords /\ fetch[f].rows \in RowMaps /\ fetch[f].want \subseteq Ids
         /\ \A id \in Ids : /\ stored[id] \in AllRows /\ cache[id] \in AllRows
                            /\ stored[id].at \in Int /\ cache[id].at \in Int /\ applied[id] \in Int
<1>1. StoredTypeOK /\ Shaped /\ Versions /\ Control /\ Newest /\ Reached
  BY DEF StoredInv
<1>2. /\ now \in Int /\ lastUpdate \in Int
      /\ \A id \in Ids : stored[id] \in AllRows /\ cache[id] \in AllRows /\ applied[id] \in Int
  BY <1>1 DEF StoredTypeOK, Times, Never
<1>3. \A r \in AllRows : r.at \in Int
  BY DEF AllRows, Times, Never
<1>4. poll \in PollRecords /\ poll.save \in RowMaps /\ poll.drop \in RowMaps /\ poll.start \in Int
  BY <1>1 DEF Shaped, PollRecords
<1>5. \A f \in Fetchers : fetch[f] \in FetchRecords /\ fetch[f].rows \in RowMaps /\ fetch[f].want \subseteq Ids
  BY <1>1 DEF Shaped, FetchRecords
<1>6. saves \in RowMaps /\ invalidations \in RowMaps
  BY <1>1 DEF StoredTypeOK
<1> QED
  BY <1>1, <1>2, <1>3, <1>4, <1>5, <1>6

\* A change of the backend leaves everything under way as it is, only older.
LEMMA ChangeKeeps ==
  ASSUME StoredInv, NEW x \in Ids, NEW alive \in BOOLEAN, ChangeStored(x, alive)
  PROVE  StoredInv'
<1>1. /\ UNCHANGED <<source, load, lastUpdate, poll, skipped, saves, invalidations>>
      /\ UNCHANGED <<cache, applied, raced, fetch, listening>>
      /\ now < MaxStoredChanges /\ now' = now + 1
      /\ stored' = [stored EXCEPT ![x] = [at |-> now + 1, live |-> alive]]
  BY DEF ChangeStored, producer, channels, written
<1>2. /\ StoredTypeOK /\ Shaped /\ Versions /\ Control /\ Newest /\ Reached
      /\ now \in Int /\ lastUpdate \in Int /\ poll.start \in Int
      /\ poll.save \in RowMaps /\ poll.drop \in RowMaps /\ saves \in RowMaps /\ invalidations \in RowMaps
      /\ \A f \in Fetchers : fetch[f].rows \in RowMaps
      /\ \A id \in Ids : stored[id] \in AllRows /\ stored[id].at \in Int /\ cache[id].at \in Int /\ applied[id] \in Int
  BY StoredParts
<1>3. stored'[x].at = now + 1 /\ \A id \in Ids \ {x} : stored'[id] = stored[id]
  BY Zenon, <1>1, <1>2 DEF StoredTypeOK
<1>4. StoredTypeOK'
  <2>1. now' \in 0 .. MaxStoredChanges
    BY <1>1, <1>2, StoredAssumption DEF StoredTypeOK
  <2>2. [at |-> now + 1, live |-> alive] \in AllRows
    BY <1>1, <2>1 DEF AllRows, Times, Never
  <2>3. stored' \in [Ids -> AllRows]
    BY Zenon, <1>1, <1>2, <2>2 DEF StoredTypeOK
  <2>4. lastUpdate \in Never .. now' /\ poll.start \in 0 .. now'
    BY <1>1, <1>2 DEF StoredTypeOK, Never
  <2> QED
    BY Zenon, <1>1, <1>2, <2>1, <2>3, <2>4 DEF StoredTypeOK
<1>5. \A r, id : id \in Ids /\ r.at \in Int /\ VersionOf(r, stored[id]) => VersionOf(r, stored'[id])
  <2> TAKE r, id
  <2>1. id \in Ids => stored[id].at <= now
    BY Zenon, <1>2 DEF Versions
  <2>2. CASE id = x
    BY <1>2, <1>3, <2>1, <2>2 DEF VersionOf
  <2>3. CASE id # x
    BY <1>3, <2>3
  <2> QED
    BY <2>2, <2>3
<1>6. \A R \in RowMaps : AllVersions(R, stored) => AllVersions(R, stored')
  <2>1. \A R \in RowMaps : \A id \in DOMAIN R : id \in Ids /\ R[id].at \in Int
    BY RowMapFacts DEF AllRows, Times, Never
  <2> QED
    BY <1>5, <2>1 DEF AllVersions
<1>7. Versions'
  <2>1. \A id \in Ids : 0 <= stored'[id].at /\ stored'[id].at <= now' /\ applied[id] <= stored'[id].at
    <3> TAKE id \in Ids
    <3>1. 0 <= stored[id].at /\ stored[id].at <= now /\ applied[id] <= stored[id].at
      BY Zenon, <1>2 DEF Versions
    <3>2. stored'[id].at = stored[id].at \/ stored'[id].at = now + 1
      BY <1>3
    <3> QED
      BY <1>1, <1>2, <3>1, <3>2
  <2>2. \A id \in Ids : cache[id] = Absent \/ VersionOf(cache[id], stored'[id])
    BY Zenon, <1>2, <1>5 DEF Versions
  <2> QED
    BY Zenon, <1>1, <1>2, <1>6, <2>1, <2>2 DEF Versions
<1>8. Newest'
  <2>1. applied[x] # stored'[x].at
    BY <1>2, <1>3 DEF Versions
  <2> QED
    BY <1>1, <1>2, <1>3, <2>1 DEF Newest
<1>9. Reached'
  <2>1. stored'[x].at > lastUpdate /\ stored'[x].at > Polled'
    BY <1>1, <1>2, <1>3 DEF StoredTypeOK, Polled, Never
  <2>2. \A id \in Ids \ {x} : Seen(id) => Seen(id)'
    BY <1>1, <1>3 DEF Seen, Brings, Exempt, InFlight
  <2>3. Polled' = Polled /\ (\A id \in Ids : InFlight(id)' <=> InFlight(id))
    BY Zenon, <1>1 DEF Polled, InFlight
  <2>4. \A id \in Ids : stored'[id].at <= lastUpdate \/ stored'[id].at <= Polled => id # x
    BY <1>2, <1>3, <2>1, <2>3 DEF Polled
  <2> QED
    BY Zenon, <1>1, <1>2, <1>3, <2>2, <2>3, <2>4 DEF Reached
<1>10. Shaped' /\ Control'
  BY Zenon, <1>1, <1>2 DEF Shaped, Control
<1> QED
  BY <1>4, <1>7, <1>8, <1>9, <1>10 DEF StoredInv

\* A poll begins, with the time it will ask from next (Run, refresh).
LEMMA StartPollKeeps == ASSUME StoredInv, StartPoll PROVE StoredInv'
<1>1. /\ UNCHANGED <<source, stored, now, load, lastUpdate, skipped, saves, invalidations>>
      /\ UNCHANGED <<cache, applied, raced, fetch, listening>>
      /\ poll.pc = "idle"
  BY DEF StartPoll, backend, channels, written
<1>2. /\ StoredTypeOK /\ Shaped /\ Versions /\ Control /\ Newest /\ Reached
      /\ now \in Int /\ lastUpdate \in Int /\ poll.start \in Int
      /\ poll \in PollRecords /\ poll.save \in RowMaps /\ poll.drop \in RowMaps
      /\ saves \in RowMaps /\ invalidations \in RowMaps
      /\ \A id \in Ids : stored[id].at \in Int
  BY StoredParts
<1>3. PICK t \in Ticks : poll' = [poll EXCEPT !.pc = "query", !.start = t]
  BY Zenon DEF StartPoll
<1>4. t \in 0 .. now
  BY <1>2 DEF Ticks, Control, StoredTypeOK
<1>5. /\ poll' \in PollRecords /\ poll'.pc = "query" /\ poll'.start = t
      /\ poll'.save = poll.save /\ poll'.drop = poll.drop
  <2>1. t \in Nat
    BY <1>2, <1>4
  <2> QED
    BY Zenon, <1>2, <1>3, <2>1 DEF PollRecords
<1>6. StoredTypeOK' /\ Shaped' /\ Control'
  BY Zenon, <1>1, <1>2, <1>4, <1>5 DEF StoredTypeOK, Shaped, Control
<1>7. Versions' /\ Newest'
  BY Zenon, <1>1, <1>2, <1>5 DEF Versions, Newest
<1>8. Reached'
  <2>1. \A id \in Ids : (Seen(id) => Seen(id)') /\ (InFlight(id)' <=> InFlight(id))
    BY Zenon, <1>1, <1>5 DEF Seen, Exempt, InFlight
  <2> QED
    BY Zenon, <1>1, <1>2, <1>5, <2>1 DEF Reached
<1> QED
  BY <1>6, <1>7, <1>8 DEF StoredInv

\* A query fails: nothing has been sent, and the first load over HTTP is not
\* repeated.
LEMMA QueryFailsKeeps == ASSUME StoredInv, QueryFails PROVE StoredInv'
<1>1. /\ UNCHANGED <<source, stored, now, lastUpdate, skipped, saves, invalidations>>
      /\ UNCHANGED <<cache, applied, raced, fetch, listening>>
      /\ poll.pc = "query" /\ poll' = NoPoll
      /\ load' = IF load = "never" THEN "failed" ELSE load
  BY DEF QueryFails, backend, channels, written
<1>2. /\ StoredTypeOK /\ Shaped /\ Versions /\ Control /\ Newest /\ Reached
      /\ now \in Int /\ lastUpdate \in Int /\ poll.start \in Int
      /\ poll \in PollRecords /\ poll.save \in RowMaps /\ poll.drop \in RowMaps
      /\ saves \in RowMaps /\ invalidations \in RowMaps
      /\ \A id \in Ids : stored[id].at \in Int
  BY Zenon, StoredParts
<1>3. /\ poll'.pc = "idle" /\ poll'.start = 0 /\ poll'.save = NoRows /\ poll'.drop = NoRows
      /\ poll' \in PollRecords /\ NoRows \in RowMaps /\ DOMAIN NoRows = {}
  BY Zenon, <1>1, RowMapFacts DEF NoPoll, PollRecords
<1>4. poll.save = NoRows /\ poll.drop = NoRows
  BY Zenon, <1>1, <1>2 DEF Control
<1>5. StoredTypeOK' /\ Shaped' /\ Control'
  BY <1>1, <1>2, <1>3 DEF StoredTypeOK, Shaped, Control
<1>6. Versions' /\ Newest'
  BY Zenon, <1>1, <1>2, <1>3, <1>4 DEF Versions, Newest
<1>7. Reached'
  <2>1. \A id \in Ids : InFlight(id)' <=> InFlight(id)
    BY Zenon, <1>1, <1>3, <1>4 DEF InFlight
  <2>2. ASSUME load # "never" PROVE \A id \in Ids : Seen(id) => Seen(id)'
    BY Zenon, <1>1, <1>3, <1>4, <2>1, <2>2 DEF Seen, Exempt
  <2>3. ASSUME load = "never", NEW id \in Ids, stored[id].at <= lastUpdate PROVE Seen(id)'
    <3>1. 0 <= stored[id].at
      BY Zenon, <1>2 DEF Versions
    <3>2. source = "http" /\ stored[id].at = 0
      BY <1>2, <2>3, <3>1 DEF Control, StoredTypeOK, Never
    <3> QED
      BY Zenon, <1>1, <2>3, <3>2 DEF Seen, Exempt
  <2> QED
    BY Zenon, <1>1, <1>2, <1>3, <2>1, <2>2, <2>3 DEF Reached
<1> QED
  BY <1>5, <1>6, <1>7 DEF StoredInv

\* A send puts the rows on a channel (sendEvents, refresh).
LEMMA SendKeeps == ASSUME StoredInv, SendSaves \/ SendInvalidations PROVE StoredInv'
<1>1. /\ UNCHANGED <<source, stored, now, load, lastUpdate, skipped>>
      /\ UNCHANGED <<cache, applied, raced, fetch, listening>>
  BY DEF SendSaves, SendInvalidations, backend, written
<1>2. /\ StoredTypeOK /\ Shaped /\ Versions /\ Control /\ Newest /\ Reached
      /\ now \in Int /\ lastUpdate \in Int /\ poll.start \in Int
      /\ poll \in PollRecords /\ poll.save \in RowMaps /\ poll.drop \in RowMaps
      /\ saves \in RowMaps /\ invalidations \in RowMaps
      /\ \A id \in Ids : stored[id].at \in Int
  BY Zenon, StoredParts
<1>3. /\ poll' \in PollRecords /\ poll'.pc = poll.pc /\ poll'.start = poll.start
      /\ \/ /\ saves = NoRows /\ saves' = poll.save /\ poll'.save = NoRows
            /\ poll'.drop = poll.drop /\ invalidations' = invalidations
         \/ /\ invalidations = NoRows /\ invalidations' = poll.drop /\ poll'.drop = NoRows
            /\ poll'.save = poll.save /\ saves' = saves
  BY <1>2, RowMapFacts DEF SendSaves, SendInvalidations, PollRecords
<1>4. NoRows \in RowMaps /\ DOMAIN NoRows = {}
  BY RowMapFacts
<1>5. StoredTypeOK' /\ Shaped' /\ Control'
  BY <1>1, <1>2, <1>3, <1>4 DEF StoredTypeOK, Shaped, Control
<1>6. AllVersions(NoRows, stored) /\ NoneLive(NoRows)
  BY <1>4 DEF AllVersions, NoneLive
<1>7. Versions' /\ Newest'
  BY Zenon, <1>1, <1>2, <1>3, <1>6 DEF Versions, Newest
<1>8. Reached'
  <2>1. \A id \in Ids : InFlight(id)' <=> InFlight(id)
    BY Zenon, <1>3, <1>4 DEF InFlight
  <2>2. \A id \in Ids : Exempt(id) => Exempt(id)'
    BY Zenon, <1>1, <2>1 DEF Exempt
  <2>3. \A id \in Ids : Seen(id) => Seen(id)'
    BY Zenon, <1>1, <1>3, <1>4, <2>2 DEF Seen, Brings
  <2>4. Polled' = Polled
    BY Zenon, <1>1, <1>3 DEF Polled
  <2> QED
    BY Zenon, <1>1, <1>2, <1>3, <2>1, <2>3, <2>4 DEF Reached
<1> QED
  BY <1>5, <1>7, <1>8 DEF StoredInv

\* A poll ends when everything has been sent.
LEMMA PollEndsKeeps == ASSUME StoredInv, PollEnds PROVE StoredInv'
<1>1. /\ UNCHANGED <<source, stored, now, skipped, saves, invalidations>>
      /\ UNCHANGED <<cache, applied, raced, fetch, listening>>
      /\ poll.pc = "send" /\ poll.save = NoRows /\ poll.drop = NoRows /\ poll' = NoPoll
      /\ lastUpdate' = Polled
      /\ load' = IF source = "database" \/ load = "never" THEN "done" ELSE load
  BY DEF PollEnds, backend, channels, written
<1>2. /\ StoredTypeOK /\ Shaped /\ Versions /\ Control /\ Newest /\ Reached
      /\ now \in Int /\ lastUpdate \in Int /\ poll.start \in Int
      /\ poll \in PollRecords /\ poll.save \in RowMaps /\ poll.drop \in RowMaps
      /\ saves \in RowMaps /\ invalidations \in RowMaps
      /\ \A id \in Ids : stored[id].at \in Int
  BY Zenon, StoredParts
<1>3. /\ poll'.pc = "idle" /\ poll'.start = 0 /\ poll'.save = NoRows /\ poll'.drop = NoRows
      /\ poll' \in PollRecords /\ NoRows \in RowMaps
  BY Zenon, <1>1, RowMapFacts DEF NoPoll, PollRecords
<1>4. Polled \in 0 .. now
  BY <1>2 DEF Polled, StoredTypeOK, Control
<1>5. lastUpdate' \in Never .. now /\ lastUpdate' # Never /\ 0 <= lastUpdate'
  BY <1>1, <1>2, <1>4 DEF Never
<1>6. load' \in {"never", "failed", "done"} /\ load' # "never" /\ (source = "database" => load' = "done")
  BY Zenon, <1>1, <1>2 DEF StoredTypeOK
<1>7. StoredTypeOK'
  BY <1>1, <1>2, <1>3, <1>5, <1>6 DEF StoredTypeOK
<1>8. Shaped' /\ Control'
  BY Zenon, <1>1, <1>2, <1>3, <1>5, <1>6 DEF Shaped, Control
<1>9. Versions' /\ Newest'
  BY Zenon, <1>1, <1>2, <1>3 DEF Versions, Newest
<1>10. Reached'
  <2>1. \A id \in Ids : InFlight(id)' <=> InFlight(id)
    BY Zenon, <1>1, <1>3 DEF InFlight
  <2>2. source = "http" /\ load = "failed" => load' = "failed"
    BY Zenon, <1>1, <1>2 DEF StoredTypeOK
  <2>3. \A id \in Ids : Exempt(id) => Exempt(id)'
    BY Zenon, <1>1, <2>1, <2>2 DEF Exempt
  <2>4. \A id \in Ids : Seen(id) => Seen(id)'
    BY Zenon, <1>1, <1>3, <2>3 DEF Seen, Brings
  <2> QED
    BY Zenon, <1>1, <1>2, <1>3, <1>5, <2>4 DEF Reached
<1> QED
  BY <1>7, <1>8, <1>9, <1>10 DEF StoredInv

\* The rows of a query become events: what is not among them has been seen
\* before, and what the first load leaves out is exempt.
LEMMA QueryEndsKeeps == ASSUME StoredInv, QueryEnds PROVE StoredInv'
<1>1. /\ UNCHANGED <<source, stored, now, load, lastUpdate, saves, invalidations>>
      /\ UNCHANGED <<cache, applied, raced, fetch, listening>>
      /\ poll.pc = "query"
      /\ skipped' = IF LoadsAll THEN Exposed \ Live(Changed) ELSE skipped
  BY DEF QueryEnds, backend, channels, written
<1>2. /\ StoredTypeOK /\ Shaped /\ Versions /\ Control /\ Newest /\ Reached
      /\ now \in Int /\ lastUpdate \in Int /\ poll.start \in Int
      /\ poll \in PollRecords /\ poll.save \in RowMaps /\ poll.drop \in RowMaps
      /\ saves \in RowMaps /\ invalidations \in RowMaps
      /\ \A id \in Ids : stored[id].at \in Int
  BY Zenon, StoredParts
<1>3. PICK B, G : B = Live(Changed) /\ G = IF LoadsAll THEN {} ELSE Changed \ Live(Changed)
  BY Zenon
<1>4. B \subseteq Ids /\ G \subseteq Ids
  BY Zenon, <1>3 DEF Live, Changed
<1>5. poll' = [poll EXCEPT !.pc = "send", !.save = Rows(B), !.drop = Rows(G)]
  <2>1. Rows({}) = NoRows
    BY DEF Rows, NoRows
  <2> QED
    BY Zenon, <1>3, <2>1 DEF QueryEnds
<1>6. /\ Rows(B) \in RowMaps /\ DOMAIN Rows(B) = B /\ (\A id \in B : Rows(B)[id] = stored[id])
      /\ Rows(G) \in RowMaps /\ DOMAIN Rows(G) = G /\ (\A id \in G : Rows(G)[id] = stored[id])
  BY Zenon, <1>2, <1>4, RowsFacts
<1>7. /\ poll' \in PollRecords /\ poll'.pc = "send" /\ poll'.start = poll.start
      /\ poll'.save = Rows(B) /\ poll'.drop = Rows(G)
  BY Zenon, <1>2, <1>5, <1>6 DEF PollRecords
<1>8. poll.save = NoRows /\ poll.drop = NoRows /\ DOMAIN NoRows = {}
  BY Zenon, <1>1, <1>2, RowMapFacts DEF Control
<1>9. skipped' \subseteq Ids
  BY Zenon, <1>1, <1>2 DEF StoredTypeOK, Exposed
<1>10. StoredTypeOK' /\ Shaped' /\ Control'
  BY Zenon, <1>1, <1>2, <1>6, <1>7, <1>9 DEF StoredTypeOK, Shaped, Control
<1>11. Versions'
  <2>1. \A id \in Ids : VersionOf(stored[id], stored[id])
    BY <1>2 DEF Versions, VersionOf
  <2>2. AllVersions(Rows(B), stored) /\ AllVersions(Rows(G), stored)
    BY Zenon, <1>4, <1>6, <2>1 DEF AllVersions
  <2>3. \A id \in G : ~stored[id].live
    BY <1>3 DEF Live
  <2>4. NoneLive(Rows(G))
    BY Zenon, <1>6, <2>3 DEF NoneLive
  <2> QED
    BY Zenon, <1>1, <1>2, <1>7, <2>2, <2>4 DEF Versions
<1>12. Newest'
  BY Zenon, <1>1, <1>2 DEF Newest
<1>13. ASSUME NEW id \in Ids, id \in B \cup G PROVE Seen(id)'
  BY Zenon, <1>1, <1>6, <1>7, <1>13 DEF Seen, Brings
<1>14. ASSUME NEW id \in Ids, LoadsAll, id \notin B, stored[id].at <= Polled' PROVE Seen(id)'
  <2>1. ~stored[id].live /\ G = {}
    BY Zenon, <1>3, <1>14 DEF Live, Changed
  <2>2. CASE source = "http"
    <3>1. stored[id].at = 0
      BY <1>1, <1>2, <1>14, <2>2 DEF LoadsAll, Polled, Control, Versions
    <3> QED
      BY ZenonT(30), <1>1, <2>1, <2>2, <3>1 DEF Seen, Exempt
  <2>3. CASE source = "database"
    <3>1. ~InFlight(id)
      BY Zenon, <1>1, <1>2, <1>14, <2>3 DEF LoadsAll, Reached
    <3>2. ~InFlight(id)'
      BY Zenon, <1>1, <1>6, <1>7, <1>14, <2>1, <3>1 DEF InFlight
    <3>3. id \in skipped' \/ (cache[id] = Absent /\ \A f \in Fetchers : id \notin DOMAIN fetch[f].rows)
      BY Zenon, <1>1, <1>3, <1>14 DEF Exposed
    <3> QED
      BY Zenon, <1>1, <2>1, <2>3, <3>2, <3>3 DEF Seen, Exempt
  <2> QED
    BY Zenon, <1>2, <2>2, <2>3 DEF StoredTypeOK
<1>15. ASSUME NEW id \in Ids, ~LoadsAll, id \notin B \cup G PROVE Seen(id)'
  <2>1. ~(stored[id].at > Since)
    BY Zenon, <1>3, <1>15 DEF Changed, Live
  <2>2. load # "never" /\ stored[id].at <= lastUpdate
    <3>1. CASE source = "database"
      BY <1>2, <1>15, <2>1, <3>1 DEF Since, LoadsAll, Control
    <3>2. CASE source = "http"
      <4>1. lastUpdate % Second >= 0 /\ lastUpdate % Second \in Int
        BY <1>2, StoredAssumption
      <4> QED
        BY <1>2, <1>15, <2>1, <3>2, <4>1 DEF Since, LoadsAll
    <3> QED
      BY Zenon, <1>2, <3>1, <3>2 DEF StoredTypeOK
  <2>3. Seen(id)
    BY Zenon, <1>2, <2>2 DEF Reached
  <2>4. InFlight(id)' <=> InFlight(id)
    BY Zenon, <1>1, <1>6, <1>7, <1>8, <1>15 DEF InFlight
  <2>5. Exempt(id) => Exempt(id)'
    BY Zenon, <1>1, <1>15, <2>4 DEF Exempt
  <2> QED
    BY Zenon, <1>1, <1>8, <2>3, <2>5 DEF Seen, Brings
<1>16. Reached'
  <2>1. load # "never" /\ LoadsAll => lastUpdate = Never
    BY Zenon, <1>2 DEF LoadsAll, StoredTypeOK
  <2>2. \A id \in Ids : ~(stored[id].at <= Never)
    BY <1>2 DEF Versions, Never
  <2> QED
    BY Zenon, <1>1, <1>7, <1>13, <1>14, <1>15, <2>1, <2>2 DEF Reached
<1> QED
  BY <1>10, <1>11, <1>12, <1>16 DEF StoredInv

\* What is written, to the cache or as an event, is older than the last event
\* or as new.
LEMMA WriteFacts ==
  ASSUME StoredInv, NEW R \in RowMaps, AllVersions(R, stored), NoteWrite(R), stored' = stored
  PROVE  /\ raced' \subseteq Ids
         /\ \A id \in DOMAIN R : R[id] \in AllRows /\ R[id].at \in Int /\ id \in Ids
         /\ \A id \in Ids \ raced' : id \in DOMAIN R => applied[id] <= R[id].at
         /\ \A id \in Ids \ raced' : id \notin DOMAIN R => id \notin raced
         /\ \A id \in DOMAIN R : VersionOf(R[id], stored[id])
<1>1. DOMAIN R \subseteq Ids /\ \A id \in DOMAIN R : R[id] \in AllRows
  BY RowMapFacts
<1>2. \A id \in DOMAIN R : R[id].at \in Int /\ applied[id] \in Int
  BY <1>1, StoredParts DEF AllRows, Times, Never
<1>3. raced' = (raced \ DOMAIN R) \cup {id \in DOMAIN R : R[id].at < applied[id]}
  BY DEF NoteWrite
<1>4. raced \subseteq Ids
  BY Zenon DEF StoredInv, StoredTypeOK
<1> QED
  BY <1>1, <1>2, <1>3, <1>4 DEF AllVersions

\* What saving rows does to the cache (cache.Save).
LEMMA SavedFacts ==
  ASSUME StoredInv, NEW R \in RowMaps, cache' = Saved(R)
  PROVE  /\ cache' \in [Ids -> AllRows]
         /\ \A id \in Ids : cache'[id] = IF id \in DOMAIN R THEN R[id] ELSE cache[id]
BY Zenon, RowMapFacts, StoredParts DEF Saved

\* An event brings the newest row there is of an id, or not.
LEMMA EventFacts ==
  ASSUME StoredInv, NEW R \in RowMaps, AllVersions(R, stored), NoteEvent(R), stored' = stored
  PROVE  /\ applied' \in [Ids -> Times]
         /\ \A id \in Ids : /\ applied'[id] <= stored[id].at
                            /\ applied[id] = stored[id].at => applied'[id] = stored[id].at
         /\ \A id \in Ids : id \notin DOMAIN R => applied'[id] = applied[id] /\ (id \in skipped' <=> id \in skipped)
         /\ \A id \in DOMAIN R : /\ applied[id] <= R[id].at => applied'[id] = R[id].at
                                 /\ R[id].at = stored[id].at => applied'[id] = stored[id].at
         /\ skipped' \subseteq Ids
<1>1. applied' = [id \in Ids |-> IF id \in DOMAIN R /\ R[id].at > applied[id] THEN R[id].at ELSE applied[id]]
  BY Zenon DEF NoteEvent
<1>2. skipped' = skipped \ DOMAIN R /\ NoteWrite(R)
  BY DEF NoteEvent
<1>3. \A id \in DOMAIN R : R[id].at \in Int /\ R[id].at \in Times /\ id \in Ids
  BY RowMapFacts DEF AllRows, Times, Never
<1>4. /\ \A id \in Ids : applied[id] \in Times /\ applied[id] \in Int /\ stored[id].at \in Int
      /\ \A id \in Ids : applied[id] <= stored[id].at
      /\ skipped \subseteq Ids
  BY Zenon, StoredParts DEF StoredTypeOK, Versions
<1>5. \A id \in DOMAIN R : R[id].at <= stored[id].at
  BY DEF AllVersions, VersionOf
<1>6. \A id \in Ids : applied'[id] = IF id \in DOMAIN R /\ R[id].at > applied[id] THEN R[id].at ELSE applied[id]
  BY Zenon, <1>1
<1>7. applied' \in [Ids -> Times]
  BY Zenon, <1>1, <1>3, <1>4
<1>8. \A id \in Ids : /\ applied'[id] <= stored[id].at
                      /\ applied[id] = stored[id].at => applied'[id] = stored[id].at
  BY <1>3, <1>4, <1>5, <1>6
<1>9. \A id \in DOMAIN R : /\ applied[id] <= R[id].at => applied'[id] = R[id].at
                           /\ R[id].at = stored[id].at => applied'[id] = stored[id].at
  BY <1>3, <1>4, <1>6
<1> QED
  BY Zenon, <1>2, <1>4, <1>6, <1>7, <1>8, <1>9

\* What invalidating entries does to the cache (cache.Invalidate).
LEMMA KeptFacts ==
  ASSUME StoredInv, NEW R \in RowMaps, cache' = Kept(R)
  PROVE  /\ cache' \in [Ids -> AllRows]
         /\ \A id \in Ids : cache'[id] = IF id \in DOMAIN R THEN Absent ELSE cache[id]
<1>1. Absent \in AllRows
  BY StoredAssumption DEF Absent, AllRows, Times, Never
<1> QED
  BY Zenon, <1>1, StoredParts DEF Kept

\* The listener applies a save (OnSave).
LEMMA ReceiveSaveKeeps == ASSUME StoredInv, ReceiveSave PROVE StoredInv'
<1>1. /\ UNCHANGED <<source, stored, now, load, lastUpdate, poll, invalidations, fetch, listening>>
      /\ cache' = Saved(saves) /\ NoteEvent(saves) /\ saves' = NoRows
  BY DEF ReceiveSave, backend
<1>2. /\ StoredTypeOK /\ Shaped /\ Versions /\ Control /\ Newest /\ Reached
      /\ saves \in RowMaps /\ AllVersions(saves, stored)
      /\ \A id \in Ids : stored[id].at \in Int /\ applied[id] \in Int
  BY Zenon, StoredParts DEF Versions
<1>3. NoteWrite(saves) /\ NoRows \in RowMaps /\ DOMAIN NoRows = {}
  BY Zenon, <1>1, RowMapFacts DEF NoteEvent
<1>4. /\ raced' \subseteq Ids
      /\ \A id \in DOMAIN saves : saves[id].at \in Int /\ id \in Ids
      /\ \A id \in Ids \ raced' : id \in DOMAIN saves => applied[id] <= saves[id].at
      /\ \A id \in Ids \ raced' : id \notin DOMAIN saves => id \notin raced
      /\ \A id \in DOMAIN saves : VersionOf(saves[id], stored[id])
  BY Zenon, <1>1, <1>2, <1>3, WriteFacts
<1>5. /\ cache' \in [Ids -> AllRows]
      /\ \A id \in Ids : cache'[id] = IF id \in DOMAIN saves THEN saves[id] ELSE cache[id]
  BY Zenon, <1>1, <1>2, SavedFacts
<1>6. /\ applied' \in [Ids -> Times]
      /\ \A id \in Ids : /\ applied'[id] <= stored[id].at
                         /\ applied[id] = stored[id].at => applied'[id] = stored[id].at
      /\ \A id \in Ids : id \notin DOMAIN saves => applied'[id] = applied[id] /\ (id \in skipped' <=> id \in skipped)
      /\ \A id \in DOMAIN saves : /\ applied[id] <= saves[id].at => applied'[id] = saves[id].at
                                  /\ saves[id].at = stored[id].at => applied'[id] = stored[id].at
      /\ skipped' \subseteq Ids
  BY ZenonT(30), <1>1, <1>2, EventFacts
<1>7. StoredTypeOK' /\ Shaped' /\ Control'
  BY <1>1, <1>2, <1>3, <1>4, <1>5, <1>6 DEF StoredTypeOK, Shaped, Control
<1>8. Versions'
  <2>1. AllVersions(NoRows, stored)
    BY Zenon, <1>3 DEF AllVersions
  <2> QED
    BY Zenon, <1>1, <1>2, <1>4, <1>5, <1>6, <2>1 DEF Versions
<1>9. Newest'
  <2> SUFFICES ASSUME NEW id \in Ids \ raced'
               PROVE  \/ applied'[id] <= cache'[id].at
                      \/ cache'[id] = Absent /\ (applied'[id] = stored[id].at => ~stored[id].live)
    BY ZenonT(30), <1>1 DEF Newest
  <2>1. CASE id \in DOMAIN saves
    BY <1>4, <1>5, <1>6, <2>1
  <2>2. CASE id \notin DOMAIN saves
    BY Zenon, <1>2, <1>4, <1>5, <1>6, <2>2 DEF Newest
  <2> QED
    BY Zenon, <2>1, <2>2
<1>10. Reached'
  <2>1. \A id \in Ids : InFlight(id)' => InFlight(id)
    BY Zenon, <1>1, <1>3 DEF InFlight
  <2>2. ASSUME NEW id \in Ids, Exempt(id) PROVE Exempt(id)'
    <3>1. CASE source = "http" /\ stored[id].at = 0 /\ (load = "failed" \/ ~stored[id].live)
      BY Zenon, <1>1, <3>1 DEF Exempt
    <3>2. CASE source = "database" /\ ~InFlight(id)
      <4>1. id \notin DOMAIN saves
        BY <3>2 DEF InFlight
      <4>2. cache'[id] = cache[id] /\ (id \in skipped' <=> id \in skipped)
        BY Zenon, <1>5, <1>6, <4>1
      <4> QED
        BY Zenon, <1>1, <2>1, <2>2, <3>2, <4>2 DEF Exempt
    <3> QED
      BY Zenon, <2>2, <3>1, <3>2 DEF Exempt
  <2>3. ASSUME NEW id \in Ids, Seen(id) PROVE Seen(id)'
    <3>1. CASE Brings(saves, id, stored[id])
      BY Zenon, <1>1, <1>6, <3>1 DEF Seen, Brings
    <3>2. CASE applied[id] = stored[id].at
      BY Zenon, <1>1, <1>6, <3>2 DEF Seen
    <3> QED
      BY Zenon, <1>1, <2>2, <2>3, <3>1, <3>2 DEF Seen
  <2>4. Polled' = Polled
    BY <1>1 DEF Polled
  <2> QED
    BY Zenon, <1>1, <1>2, <2>1, <2>3, <2>4 DEF Reached
<1> QED
  BY <1>7, <1>8, <1>9, <1>10 DEF StoredInv

\* The listener applies an invalidation (OnInvalidate).
LEMMA ReceiveInvalidationKeeps == ASSUME StoredInv, ReceiveInvalidation PROVE StoredInv'
<1>1. /\ UNCHANGED <<source, stored, now, load, lastUpdate, poll, saves, fetch, listening>>
      /\ cache' = Kept(invalidations) /\ NoteEvent(invalidations) /\ invalidations' = NoRows
  BY Zenon DEF ReceiveInvalidation, backend
<1>2. /\ StoredTypeOK /\ Shaped /\ Versions /\ Control /\ Newest /\ Reached
      /\ invalidations \in RowMaps /\ AllVersions(invalidations, stored) /\ NoneLive(invalidations)
      /\ \A id \in Ids : stored[id].at \in Int /\ applied[id] \in Int
  BY Zenon, StoredParts DEF Versions
<1>3. NoteWrite(invalidations) /\ NoRows \in RowMaps /\ DOMAIN NoRows = {}
  BY Zenon, <1>1, RowMapFacts DEF NoteEvent
<1>4. /\ raced' \subseteq Ids
      /\ \A id \in DOMAIN invalidations : invalidations[id].at \in Int /\ id \in Ids
      /\ \A id \in Ids \ raced' : id \in DOMAIN invalidations => applied[id] <= invalidations[id].at
      /\ \A id \in Ids \ raced' : id \notin DOMAIN invalidations => id \notin raced
      /\ \A id \in DOMAIN invalidations : VersionOf(invalidations[id], stored[id])
  BY Zenon, <1>1, <1>2, <1>3, WriteFacts
<1>5. /\ cache' \in [Ids -> AllRows]
      /\ \A id \in Ids : cache'[id] = IF id \in DOMAIN invalidations THEN Absent ELSE cache[id]
  BY Zenon, <1>1, <1>2, KeptFacts
<1>6. /\ applied' \in [Ids -> Times]
      /\ \A id \in Ids : /\ applied'[id] <= stored[id].at
                         /\ applied[id] = stored[id].at => applied'[id] = stored[id].at
      /\ \A id \in Ids : id \notin DOMAIN invalidations => applied'[id] = applied[id] /\ (id \in skipped' <=> id \in skipped)
      /\ \A id \in DOMAIN invalidations : /\ applied[id] <= invalidations[id].at => applied'[id] = invalidations[id].at
                                          /\ invalidations[id].at = stored[id].at => applied'[id] = stored[id].at
      /\ skipped' \subseteq Ids
  BY ZenonT(30), <1>1, <1>2, EventFacts
<1>7. StoredTypeOK' /\ Shaped' /\ Control'
  BY ZenonT(30), <1>1, <1>2, <1>3, <1>4, <1>5, <1>6 DEF StoredTypeOK, Shaped, Control
<1>8. Versions'
  <2>1. AllVersions(NoRows, stored) /\ NoneLive(NoRows)
    BY Zenon, <1>3 DEF AllVersions, NoneLive
  <2> QED
    BY Zenon, <1>1, <1>2, <1>4, <1>5, <1>6, <2>1 DEF Versions
<1>9. Newest'
  <2> SUFFICES ASSUME NEW id \in Ids \ raced'
               PROVE  \/ applied'[id] <= cache'[id].at
                      \/ cache'[id] = Absent /\ (applied'[id] = stored[id].at => ~stored[id].live)
    BY Zenon, <1>1 DEF Newest
  <2>1. CASE id \in DOMAIN invalidations
    <3>1. applied'[id] = invalidations[id].at /\ cache'[id] = Absent
      BY Zenon, <1>4, <1>5, <1>6, <2>1
    <3>2. invalidations[id].at = stored[id].at => invalidations[id] = stored[id]
      BY Zenon, <1>4, <2>1 DEF VersionOf
    <3> QED
      BY Zenon, <1>2, <2>1, <3>1, <3>2 DEF NoneLive
  <2>2. CASE id \notin DOMAIN invalidations
    BY Zenon, <1>2, <1>4, <1>5, <1>6, <2>2 DEF Newest
  <2> QED
    BY Zenon, <2>1, <2>2
<1>10. Reached'
  <2>1. \A id \in Ids : InFlight(id)' => InFlight(id)
    BY Zenon, <1>1, <1>3 DEF InFlight
  <2>2. ASSUME NEW id \in Ids, Exempt(id) PROVE Exempt(id)'
    <3>1. CASE source = "http" /\ stored[id].at = 0 /\ (load = "failed" \/ ~stored[id].live)
      BY Zenon, <1>1, <3>1 DEF Exempt
    <3>2. CASE source = "database" /\ ~InFlight(id)
      <4>1. id \notin DOMAIN invalidations
        BY Zenon, <3>2 DEF InFlight
      <4>2. cache'[id] = cache[id] /\ (id \in skipped' <=> id \in skipped)
        BY Zenon, <1>5, <1>6, <4>1
      <4> QED
        BY Zenon, <1>1, <2>1, <2>2, <3>2, <4>2 DEF Exempt
    <3> QED
      BY Zenon, <2>2, <3>1, <3>2 DEF Exempt
  <2>3. ASSUME NEW id \in Ids, Seen(id) PROVE Seen(id)'
    <3>1. CASE Brings(invalidations, id, stored[id])
      BY Zenon, <1>1, <1>6, <3>1 DEF Seen, Brings
    <3>2. CASE applied[id] = stored[id].at
      BY Zenon, <1>1, <1>6, <3>2 DEF Seen
    <3> QED
      BY Zenon, <1>1, <2>2, <2>3, <3>1, <3>2 DEF Seen
  <2>4. Polled' = Polled
    BY <1>1 DEF Polled
  <2> QED
    BY Zenon, <1>1, <1>2, <2>1, <2>3, <2>4 DEF Reached
<1> QED
  BY <1>7, <1>8, <1>9, <1>10 DEF StoredInv


\* The listener returns, and a request finds ids that are not cached: no row
\* is read or written.
LEMMA NothingReadKeeps ==
  ASSUME StoredInv,
         \/ StopListener
         \/ \E f \in Fetchers, ids \in SUBSET Ids : MissCache(f, ids)
         \/ UNCHANGED storedVars
  PROVE  StoredInv'
<1>1. /\ UNCHANGED <<source, stored, now, load, lastUpdate, poll, skipped, saves, invalidations>>
      /\ UNCHANGED <<cache, applied, raced>>
  BY Zenon DEF StopListener, MissCache, storedVars, backend, producer, channels, written
<1>2. /\ StoredTypeOK /\ Shaped /\ Versions /\ Control /\ Newest /\ Reached
      /\ \A f \in Fetchers : fetch[f] \in FetchRecords
  BY Zenon, StoredParts
<1>3. listening' \in BOOLEAN
  <2>1. listening' = FALSE \/ listening' = listening
    BY Zenon DEF StopListener, MissCache, storedVars
  <2> QED
    BY Zenon, <1>2, <2>1 DEF StoredTypeOK
<1>4. fetch' \in [Fetchers -> FetchRecords] /\ \A f \in Fetchers : fetch'[f].rows = fetch[f].rows
  <2>1. CASE UNCHANGED fetch
    BY <1>2, <2>1 DEF Shaped
  <2>2. ASSUME NEW f \in Fetchers, NEW ids \in SUBSET Ids, MissCache(f, ids)
        PROVE  fetch' \in [Fetchers -> FetchRecords] /\ \A e \in Fetchers : fetch'[e].rows = fetch[e].rows
    <3>1. fetch' = [fetch EXCEPT ![f].pc = "fetch", ![f].want = ids]
      BY <2>2 DEF MissCache
    <3>2. PICK n : n = [fetch[f] EXCEPT !.pc = "fetch", !.want = ids]
      OBVIOUS
    <3>3. fetch' = [fetch EXCEPT ![f] = n]
      BY Zenon, <1>2, <3>1, <3>2 DEF Shaped
    <3>4. n \in FetchRecords /\ n.rows = fetch[f].rows
      BY Zenon, <1>2, <3>2 DEF FetchRecords
    <3> QED
      BY Zenon, <1>2, <3>3, <3>4 DEF Shaped
  <2> QED
    BY Zenon, <2>1, <2>2 DEF StopListener, storedVars
<1>5. Shaped'
  BY Zenon, <1>1, <1>2, <1>4 DEF Shaped
<1>6. \A f \in Fetchers : /\ fetch'[f].pc \in {"idle", "fetch", "save"}
                          /\ fetch'[f].want \subseteq Ids /\ fetch'[f].rows \in RowMaps
  BY <1>4 DEF FetchRecords
<1>7. StoredTypeOK' /\ Control' /\ Newest'
  BY Zenon, <1>1, <1>2, <1>3, <1>6 DEF StoredTypeOK, Control, Newest
<1>8. Versions'
  BY Zenon, <1>1, <1>2, <1>4 DEF Versions
<1>9. \A id \in Ids : (Seen(id) => Seen(id)') /\ (InFlight(id)' <=> InFlight(id))
  BY Zenon, <1>1, <1>4 DEF Seen, Exempt, InFlight
<1>10. Reached'
  BY Zenon, <1>1, <1>2, <1>9 DEF Reached, Polled
<1> QED
  BY <1>5, <1>7, <1>8, <1>10 DEF StoredInv

\* A request reads rows of the backend, or fails to.
LEMMA FetchKeeps ==
  ASSUME StoredInv, NEW f \in Fetchers, FetchRows(f) \/ FetchFails(f) PROVE StoredInv'
<1>1. /\ UNCHANGED <<source, stored, now, load, lastUpdate, poll, skipped, saves, invalidations>>
      /\ UNCHANGED <<cache, applied, raced, listening>>
  BY Zenon DEF FetchRows, FetchFails, backend, producer, channels, written
<1>2. /\ StoredTypeOK /\ Shaped /\ Versions /\ Control /\ Newest /\ Reached
      /\ fetch[f].want \subseteq Ids /\ fetch \in [Fetchers -> FetchRecords]
      /\ \A id \in Ids : stored[id].at \in Int
  BY Zenon, StoredParts DEF Shaped
<1>3. NoRows \in RowMaps /\ DOMAIN NoRows = {}
  BY RowMapFacts
<1>4. PICK n : /\ n \in FetchRecords /\ fetch' = [fetch EXCEPT ![f] = n]
               /\ \A id \in DOMAIN n.rows : id \in Ids /\ n.rows[id] = stored[id]
  <2>1. Answered(f) \subseteq Ids
    BY Zenon, <1>2 DEF Answered, Live
  <2>2. PICK ids \in SUBSET Ids : fetch' = [fetch EXCEPT ![f] = [pc |-> "save", want |-> {}, rows |-> Rows(ids)]]
    BY Zenon, <2>1 DEF FetchRows, FetchFails, Fetched
  <2>3. Rows(ids) \in RowMaps /\ DOMAIN Rows(ids) = ids /\ \A id \in ids : Rows(ids)[id] = stored[id]
    BY Zenon, <1>2, RowsFacts
  <2>4. PICK m : m = [pc |-> "save", want |-> {}, rows |-> Rows(ids)]
    BY Zenon
  <2>5. m \in FetchRecords /\ m.rows = Rows(ids)
    BY Zenon, <2>3, <2>4 DEF FetchRecords
  <2>6. \A id \in DOMAIN m.rows : id \in Ids /\ m.rows[id] = stored[id]
    BY Zenon, <2>3, <2>5
  <2> QED
    BY Zenon, <2>2, <2>4, <2>5, <2>6
<1>5. /\ fetch' \in [Fetchers -> FetchRecords]
      /\ \A e \in Fetchers : fetch'[e] = IF e = f THEN n ELSE fetch[e]
  BY Zenon, <1>2, <1>4
<1>6. \A e \in Fetchers : /\ fetch'[e].pc \in {"idle", "fetch", "save"}
                          /\ fetch'[e].want \subseteq Ids /\ fetch'[e].rows \in RowMaps
  BY Zenon, <1>5 DEF FetchRecords
<1>7. StoredTypeOK' /\ Shaped' /\ Control' /\ Newest'
  BY ZenonT(30), <1>1, <1>2, <1>5, <1>6 DEF StoredTypeOK, Shaped, Control, Newest
<1>8. Versions'
  <2>1. \A id \in Ids : VersionOf(stored[id], stored[id])
    BY <1>2 DEF Versions, VersionOf
  <2>2. AllVersions(n.rows, stored)
    BY Zenon, <1>4, <2>1 DEF AllVersions
  <2> QED
    BY Zenon, <1>1, <1>2, <1>5, <2>2 DEF Versions
<1>9. \A id \in Ids : InFlight(id)' <=> InFlight(id)
  BY Zenon, <1>1 DEF InFlight
<1>10. \A id \in Ids : Exempt(id) => Exempt(id)'
  BY Zenon, <1>1, <1>4, <1>5, <1>9 DEF Exempt
<1>11. \A id \in Ids : Seen(id) => Seen(id)'
  BY Zenon, <1>1, <1>10 DEF Seen
<1>12. Reached'
  BY Zenon, <1>1, <1>2, <1>9, <1>11 DEF Reached, Polled
<1> QED
  BY <1>7, <1>8, <1>12 DEF StoredInv

\* A request saves what it had fetched.
LEMMA SaveFetchedKeeps == ASSUME StoredInv, NEW f \in Fetchers, SaveFetched(f) PROVE StoredInv'
<1>1. /\ UNCHANGED <<source, stored, now, load, lastUpdate, poll, skipped, saves, invalidations>>
      /\ UNCHANGED <<applied, listening>>
      /\ cache' = Saved(fetch[f].rows) /\ NoteWrite(fetch[f].rows)
      /\ fetch' = [fetch EXCEPT ![f] = NoFetch]
  BY Zenon DEF SaveFetched, backend, producer, channels
<1>2. /\ StoredTypeOK /\ Shaped /\ Versions /\ Control /\ Newest /\ Reached
      /\ fetch[f].rows \in RowMaps /\ AllVersions(fetch[f].rows, stored)
  BY Zenon, StoredParts DEF Versions
<1>3. PICK R : R = fetch[f].rows
  OBVIOUS
<1>4. /\ raced' \subseteq Ids
      /\ \A id \in DOMAIN R : R[id].at \in Int /\ id \in Ids
      /\ \A id \in Ids \ raced' : id \in DOMAIN R => applied[id] <= R[id].at
      /\ \A id \in Ids \ raced' : id \notin DOMAIN R => id \notin raced
      /\ \A id \in DOMAIN R : VersionOf(R[id], stored[id])
  BY Zenon, <1>1, <1>2, <1>3, WriteFacts
<1>5. /\ cache' \in [Ids -> AllRows]
      /\ \A id \in Ids : cache'[id] = IF id \in DOMAIN R THEN R[id] ELSE cache[id]
  BY Zenon, <1>1, <1>2, <1>3, SavedFacts
<1>6. NoFetch \in FetchRecords /\ NoFetch.rows = NoRows /\ DOMAIN NoRows = {}
  BY Zenon, RowMapFacts DEF NoFetch, FetchRecords
<1>7. /\ fetch' \in [Fetchers -> FetchRecords]
      /\ \A e \in Fetchers : fetch'[e] = IF e = f THEN NoFetch ELSE fetch[e]
  BY Zenon, <1>1, <1>2, <1>6 DEF Shaped
<1>8. \A e \in Fetchers : /\ fetch'[e].pc \in {"idle", "fetch", "save"}
                          /\ fetch'[e].want \subseteq Ids /\ fetch'[e].rows \in RowMaps
  BY Zenon, <1>7 DEF FetchRecords
<1>9. StoredTypeOK' /\ Shaped' /\ Control'
  BY Zenon, <1>1, <1>2, <1>4, <1>5, <1>7, <1>8 DEF StoredTypeOK, Shaped, Control
<1>10. Versions'
  <2>1. AllVersions(NoRows, stored)
    BY Zenon, <1>6 DEF AllVersions
  <2> QED
    BY Zenon, <1>1, <1>2, <1>4, <1>5, <1>6, <1>7, <2>1 DEF Versions
<1>11. Newest'
  BY Zenon, <1>1, <1>2, <1>4, <1>5 DEF Newest
<1>12. \A id \in Ids : InFlight(id)' <=> InFlight(id)
  BY Zenon, <1>1 DEF InFlight
<1>13. \A id \in Ids : Exempt(id) => Exempt(id)'
  BY Zenon, <1>1, <1>3, <1>5, <1>6, <1>7, <1>12 DEF Exempt
<1>14. \A id \in Ids : Seen(id) => Seen(id)'
  BY Zenon, <1>1, <1>13 DEF Seen
<1>15. Reached'
  BY Zenon, <1>1, <1>2, <1>12, <1>14 DEF Reached, Polled
<1> QED
  BY <1>9, <1>10, <1>11, <1>15 DEF StoredInv

\* Every step of requests, producer and listener keeps the invariant.
LEMMA StepStored == StoredInv /\ [StoredNext]_storedVars => StoredInv'
<1> SUFFICES ASSUME StoredInv, [StoredNext]_storedVars PROVE StoredInv'
  OBVIOUS
<1>1. CASE \E id \in Ids, live \in BOOLEAN : ChangeStored(id, live)
  BY <1>1, ChangeKeeps
<1>2. CASE \E f \in Fetchers : FetchRows(f) \/ FetchFails(f) \/ SaveFetched(f)
  BY <1>2, FetchKeeps, SaveFetchedKeeps
<1>3. CASE StopListener \/ (\E f \in Fetchers, ids \in SUBSET Ids : MissCache(f, ids)) \/ UNCHANGED storedVars
  BY <1>3, NothingReadKeeps
<1>4. CASE StartPoll \/ QueryEnds \/ QueryFails \/ SendSaves \/ SendInvalidations \/ PollEnds
  BY <1>4, StartPollKeeps, QueryEndsKeeps, QueryFailsKeeps, SendKeeps, PollEndsKeeps
<1>5. CASE ReceiveSave \/ ReceiveInvalidation
  BY <1>5, ReceiveSaveKeeps, ReceiveInvalidationKeeps
<1> QED
  BY Zenon, <1>1, <1>2, <1>3, <1>4, <1>5 DEF StoredNext

\* The invariant holds throughout.
LEMMA StoredInvariance == StoredSpec => []StoredInv
<1> QED
  BY InitStored, StepStored, PTL DEF StoredSpec

\* When nothing is on its way, an id of which the newest event has been applied
\* was written with it, and an exempt one has nothing to follow.
LEMMA InvFollows == StoredInv => CacheFollows
<1> SUFFICES ASSUME StoredInv, NEW id \in Ids \ (raced \cup skipped), ~Pending(id) PROVE Follows(id)
  BY DEF CacheFollows
<1>1. /\ StoredTypeOK /\ Versions /\ Newest /\ Reached
      /\ lastUpdate \in Int /\ stored[id].at \in Int /\ cache[id].at \in Int
  BY Zenon, StoredParts
<1>2. load # "never" /\ stored[id].at <= lastUpdate /\ ~InFlight(id)
  BY <1>1 DEF Pending, InFlight
<1>3. Seen(id)
  BY Zenon, <1>1, <1>2 DEF Reached
<1>4. applied[id] = stored[id].at \/ Exempt(id)
  BY Zenon, <1>2, <1>3 DEF Seen, Brings, InFlight
<1>5. cache[id] = Absent \/ VersionOf(cache[id], stored[id])
  BY Zenon, <1>1 DEF Versions
<1>6. 0 <= stored[id].at /\ Absent.at = -1
  BY Zenon, <1>1 DEF Versions, Absent, Never
<1>7. CASE applied[id] = stored[id].at
  <2>1. \/ stored[id].at <= cache[id].at
        \/ cache[id] = Absent /\ ~stored[id].live
    BY Zenon, <1>1, <1>7 DEF Newest
  <2> QED
    BY <1>1, <1>5, <1>6, <2>1 DEF VersionOf, Follows
<1>8. CASE source = "http" /\ stored[id].at = 0 /\ (load = "failed" \/ ~stored[id].live)
  BY <1>1, <1>5, <1>8 DEF VersionOf, Follows
<1>9. CASE ~stored[id].live /\ cache[id] \in {Absent, stored[id]}
  BY Zenon, <1>9 DEF Follows
<1> QED
  BY Zenon, <1>4, <1>7, <1>8, <1>9 DEF Exempt

\* The state of the cache, of its producer and of the requests is well formed
\* (fetcherWithCache, DatabaseEventProducer, HTTPEvents, EventListener).
THEOREM StoredTypeCorrect == StoredSpec => []StoredTypeOK
<1>1. StoredInv => StoredTypeOK
  BY DEF StoredInv
<1> QED
  BY <1>1, StoredInvariance, PTL

\* For any number of ids, requests and changes, the cache agrees with the
\* backend when nothing is on its way, but for the two exceptions
\* (fetcherWithCache, sendEvents, refresh, Listen).
THEOREM CacheFollowsHolds == StoredSpec => []CacheFollows
<1> QED
  BY InvFollows, StoredInvariance, PTL

-----------------------------------------------------------------------------
(* The currency rates.                                                     *)

\* The rates and the time of the last update differ only between the two stores
\* of update, which take no time, and after the rates have been cleared.
Paired ==
  /\ task = "stored" => rates = clock
  /\ task # "stored" => rates = NoRates \/ rates = lastUpdated

\* A fetch ends at its time-out; the goroutine waits only for a ticker.
Timed ==
  /\ task = "fetch" => clock <= began + HttpTimeout
  /\ task = "wait" => nextTick # NoTick
  /\ task = "ended" => interval = 0

Limit == rates + threshold + interval

\* The next look at the rates begins before they are older than the threshold
\* and one interval: it has begun, its tick is there, or the tick is to come.
Watched ==
  interval > 0 /\ threshold > 0 /\ rates # NoRates =>
    /\ task = "fetch" => began <= Limit
    /\ task = "wait" /\ ticked => clock <= Limit
    /\ task = "wait" /\ ~ticked => nextTick <= Limit

RateInv == RateTypeOK /\ Paired /\ Timed /\ Watched

-----------------------------------------------------------------------------

\* No rates are loaded and the first fetch has just begun (NewRateConverter,
\* Start).
LEMMA InitRates == RateInit => RateInv
<1> SUFFICES ASSUME RateInit PROVE RateInv
  OBVIOUS
<1>1. ticked \in BOOLEAN
  BY Zenon DEF RateInit
<1>2. RateTypeOK
  BY <1>1, RateAssumption DEF RateInit, RateTypeOK, NoRates, NoTick
<1>3. Paired /\ Timed /\ Watched
  BY RateAssumption DEF RateInit, Paired, Timed, Watched, NoRates
<1> QED BY <1>2, <1>3 DEF RateInv

\* Every step of update, of the ticker task and of the clock keeps the
\* invariant.
LEMMA StepRates == RateInv /\ [RateNext]_rateVars => RateInv'
<1> SUFFICES ASSUME RateInv, [RateNext]_rateVars PROVE RateInv'
  OBVIOUS
<1> USE RateAssumption DEF RateInv, RateTypeOK, setting, NoRates, NoTick
<1>1. CASE StoreRates
  BY <1>1 DEF StoreRates, Paired, Timed, Watched, Limit
<1>2. CASE StoreTime
  <2>1. CASE interval = 0
    BY Zenon, <1>2, <2>1 DEF StoreTime, RunEnds, Paired, Timed, Watched, Limit
  <2>2. CASE interval # 0
    BY <1>2, <2>2 DEF StoreTime, RunEnds, Paired, Timed, Watched, Limit
  <2> QED BY Zenon, <2>1, <2>2
<1>3. CASE UpdateFails
  <2>1. CASE interval = 0
    BY <1>3, <2>1 DEF UpdateFails, RunEnds, Paired, Timed, Watched, Limit
  <2>2. CASE interval # 0 /\ Stale
    BY <1>3, <2>2 DEF UpdateFails, RunEnds, Paired, Timed, Watched, Limit
  <2>3. CASE interval # 0 /\ ~Stale
    BY <1>3, <2>3 DEF UpdateFails, RunEnds, Stale, Paired, Timed, Watched, Limit
  <2> QED BY Zenon, <2>1, <2>2, <2>3
<1>4. CASE TakeTick
  <2>1. ticked' \in BOOLEAN
    BY <1>4, Zenon DEF TakeTick
  <2>2. RateTypeOK'
    BY <1>4, <2>1 DEF TakeTick
  <2>3. Paired' /\ Timed' /\ Watched'
    BY <1>4 DEF TakeTick, Paired, Timed, Watched, Limit
  <2> QED BY Zenon, <2>2, <2>3
<1>5. CASE TickRates
  BY <1>5 DEF TickRates, Paired, Timed, Watched, Limit
<1>6. CASE PassTime
  BY <1>6 DEF PassTime, Paired, Timed, Watched, Limit
<1>7. CASE UNCHANGED rateVars
  BY Zenon, <1>7 DEF rateVars, Paired, Timed, Watched, Limit
<1> QED BY Zenon, <1>1, <1>2, <1>3, <1>4, <1>5, <1>6, <1>7 DEF RateNext

\* The invariant bounds the age: whatever the goroutine does, its next look at
\* the rates ends within the time-out (update, checkStaleRates).
LEMMA WatchedBounds == RateInv => RatesNotTooOld
BY RateAssumption
DEF RateInv, RateTypeOK, Paired, Timed, Watched, Limit, RatesNotTooOld, NoRates, NoTick

\* With a ticker and a threshold, the rates that Rates returns are never older
\* than the threshold, one interval and one time-out (update, runRecurring).
THEOREM RatesNotTooOldHolds == RateSpec => []RatesNotTooOld
<1>1. RateSpec => []RateInv
  BY InitRates, StepRates, PTL DEF RateSpec
<1> QED BY <1>1, WatchedBounds, PTL

-----------------------------------------------------------------------------

MetricsTyped ==
  /\ rec \in [Events -> {"idle", "sending", "inserting", "done"}]
  /\ queue \in Seq(Events) /\ batch \in Seq(Events)
  /\ runner \in {"select", "insert", "last", "stopped"}
  /\ rows \in [Events -> Nat] /\ closer \in {"open", "waiting", "closed"}
  /\ failed \subseteq Events /\ truncated \subseteq Events

\* An event that has not reached the table, and was not removed from it.
Fresh(e) == rows[e] = 0 /\ e \notin truncated

\* The events of a sequence wait in it, each in one place.
Waiting(s) ==
  /\ \A i \in 1 .. Len(s) : rec[s[i]] = "done" /\ Fresh(s[i])
  /\ \A i, j \in 1 .. Len(s) : s[i] = s[j] => i = j

OnePlace ==
  /\ Waiting(queue) /\ Waiting(batch)
  /\ \A i \in 1 .. Len(queue), j \in 1 .. Len(batch) : queue[i] # batch[j]
  /\ \A e \in Events : rec[e] # "done" => Fresh(e)

Closing ==
  /\ closer = "closed" => runner = "stopped"
  /\ runner = "stopped" => batch = <<>>

MetricsInv == MetricsTyped /\ OnePlace /\ Closing /\ StoredAtMostOnce /\ NoSilentLoss

LEMMA ElemsIndex ==
  ASSUME NEW S, NEW s \in Seq(S)
  PROVE  /\ DOMAIN s = 1 .. Len(s) /\ Len(s) \in Nat
         /\ \A e : e \in Elems(s) <=> \E i \in 1 .. Len(s) : s[i] = e
         /\ \A i \in 1 .. Len(s) : s[i] \in S
  BY DEF Elems

LEMMA AppendIndex ==
  ASSUME NEW S, NEW s \in Seq(S), NEW e \in S
  PROVE  /\ Append(s, e) \in Seq(S) /\ Len(Append(s, e)) = Len(s) + 1 /\ Len(s) \in Nat
         /\ \A i \in 1 .. Len(s) : Append(s, e)[i] = s[i]
         /\ Append(s, e)[Len(s) + 1] = e
  OBVIOUS

LEMMA TailIndex ==
  ASSUME NEW S, NEW s \in Seq(S), s # <<>>
  PROVE  /\ Tail(s) \in Seq(S) /\ Len(Tail(s)) = Len(s) - 1 /\ Len(s) \in Nat \ {0}
         /\ Head(s) = s[1] /\ Head(s) \in S
         /\ \A i \in 1 .. Len(s) - 1 : Tail(s)[i] = s[i + 1]
  OBVIOUS

LEMMA ElemsAppend ==
  ASSUME NEW S, NEW s \in Seq(S), NEW e \in S
  PROVE  Elems(Append(s, e)) = Elems(s) \cup {e}
  BY AppendIndex DEF Elems

LEMMA ElemsTail ==
  ASSUME NEW S, NEW s \in Seq(S), s # <<>>
  PROVE  Elems(s) = Elems(Tail(s)) \cup {Head(s)}
  <1>1. Elems(s) \subseteq Elems(Tail(s)) \cup {Head(s)}
    <2> SUFFICES ASSUME NEW i \in 1 .. Len(s), i # 1 PROVE s[i] \in Elems(Tail(s))
      BY ElemsIndex, TailIndex
    <2>1. i - 1 \in 1 .. Len(Tail(s)) /\ Tail(s)[i - 1] = s[i]
      BY TailIndex
    <2> QED
      BY Zenon, <2>1, TailIndex, ElemsIndex
  <1>2. Elems(Tail(s)) \cup {Head(s)} \subseteq Elems(s)
    <2>1. Head(s) \in Elems(s)
      BY TailIndex, ElemsIndex
    <2>2. ASSUME NEW e \in Elems(Tail(s)) PROVE e \in Elems(s)
      <3>0. Tail(s) \in Seq(S)
        BY TailIndex
      <3>1. PICK i \in 1 .. Len(Tail(s)) : Tail(s)[i] = e
        BY <3>0 DEF Elems
      <3>2. i + 1 \in 1 .. Len(s) /\ s[i + 1] = e
        BY <3>1, TailIndex
      <3> QED
        BY <3>2 DEF Elems
    <2> QED
      BY <2>1, <2>2
  <1> QED
    BY <1>1, <1>2

\* Init establishes the invariant.
LEMMA InitIInv == Init => MetricsInv
  BY DEF Init, MetricsInv, MetricsTyped, OnePlace, Waiting, Fresh, Closing, StoredAtMostOnce, NoSilentLoss

\* Record and Fallback move an event that is still with its handler.
LEMMA HandlerIInv ==
  ASSUME MetricsInv, NEW e \in Events, Record(e) \/ Fallback(e)
  PROVE  MetricsInv'
  <1>1. /\ UNCHANGED <<queue, batch, runner, rows, closer, truncated>>
        /\ rec[e] # "done" /\ \E v \in {"sending", "inserting", "done"} : rec' = [rec EXCEPT ![e] = v]
        /\ rec'[e] = "done" => e \in failed'
        /\ failed \subseteq failed' /\ failed' \subseteq Events
    BY Zenon DEF Record, Fallback, history, MetricsInv, MetricsTyped
  <1>2. MetricsTyped' /\ Closing' /\ StoredAtMostOnce'
    BY ZenonT(30), <1>1 DEF MetricsInv, MetricsTyped, Closing, StoredAtMostOnce
  <1>3. rec \in [Events -> {"idle", "sending", "inserting", "done"}]
        /\ \A x \in Events : x # e => rec'[x] = rec[x]
    BY ZenonT(30), <1>1 DEF MetricsInv, MetricsTyped
  <1>4. OnePlace'
    BY <1>1, <1>3 DEF MetricsInv, MetricsTyped, OnePlace, Waiting, Fresh
  <1>5. NoSilentLoss'
    BY Zenon, <1>1, <1>3 DEF MetricsInv, NoSilentLoss
  <1> QED
    BY <1>2, <1>4, <1>5 DEF MetricsInv

\* Send puts the event of the handler at the end of the queue.
LEMMA SendIInv ==
  ASSUME MetricsInv, NEW e \in Events, Send(e)
  PROVE  MetricsInv'
  <1>1. /\ UNCHANGED <<batch, runner, rows, closer, truncated, failed>>
        /\ rec[e] = "sending" /\ rec' = [rec EXCEPT ![e] = "done"]
        /\ queue' = Append(queue, e)
    BY DEF Send, history
  <1>2. /\ rec \in [Events -> {"idle", "sending", "inserting", "done"}]
        /\ queue \in Seq(Events) /\ batch \in Seq(Events)
    BY DEF MetricsInv, MetricsTyped
  <1>3. /\ queue' \in Seq(Events) /\ Len(queue') = Len(queue) + 1 /\ Len(queue) \in Nat
        /\ \A i \in 1 .. Len(queue) : queue'[i] = queue[i]
        /\ queue'[Len(queue) + 1] = e
    BY <1>1, <1>2, AppendIndex
  <1>4. MetricsTyped' /\ Closing' /\ StoredAtMostOnce'
    BY Zenon, <1>1, <1>3 DEF MetricsInv, MetricsTyped, Closing, StoredAtMostOnce
  <1>5. /\ \A i \in 1 .. Len(queue) : queue[i] \in Events /\ queue[i] # e
        /\ \A i \in 1 .. Len(batch) : batch[i] \in Events /\ batch[i] # e
        /\ Fresh(e)
    BY Zenon, <1>1, <1>2, ElemsIndex DEF MetricsInv, OnePlace, Waiting
  <1>6. \A x \in Events : rec'[x] = IF x = e THEN "done" ELSE rec[x]
    BY Zenon, <1>1, <1>2
  <1>7. OnePlace'
    <2>1. Waiting(queue)'
      BY <1>1, <1>3, <1>5, <1>6 DEF MetricsInv, OnePlace, Waiting, Fresh
    <2>2. Waiting(batch)'
      BY <1>1, <1>5, <1>6 DEF MetricsInv, OnePlace, Waiting, Fresh
    <2>3. (\A i \in 1 .. Len(queue), j \in 1 .. Len(batch) : queue[i] # batch[j])'
      BY <1>1, <1>3, <1>5 DEF MetricsInv, OnePlace
    <2> QED
      BY ZenonT(30), <2>1, <2>2, <2>3, <1>1, <1>6 DEF MetricsInv, OnePlace, Fresh
  <1>8. NoSilentLoss'
    <2>1. Elems(queue') = Elems(queue) \cup {e}
      BY <1>1, <1>2, ElemsAppend
    <2> QED
      BY Zenon, <2>1, <1>1, <1>6 DEF MetricsInv, NoSilentLoss
  <1> QED
    BY <1>4, <1>7, <1>8 DEF MetricsInv

\* Receive moves the first event of the queue to the end of the batch.
LEMMA ReceiveIInv ==
  ASSUME MetricsInv, Receive
  PROVE  MetricsInv'
  <1>1. /\ UNCHANGED <<rec, rows, closer, truncated, failed>>
        /\ runner = "select" /\ runner' \in {"insert", "select"} /\ queue # <<>>
        /\ queue' = Tail(queue) /\ batch' = Append(batch, Head(queue))
    BY Zenon DEF Receive, history
  <1>2. queue \in Seq(Events) /\ batch \in Seq(Events)
    BY DEF MetricsInv, MetricsTyped
  <1> DEFINE h == Head(queue)
  <1>3. /\ queue' \in Seq(Events) /\ Len(queue') = Len(queue) - 1 /\ Len(queue) \in Nat \ {0}
        /\ h = queue[1] /\ h \in Events
        /\ \A i \in 1 .. Len(queue) - 1 : queue'[i] = queue[i + 1]
    BY Zenon, <1>1, <1>2, TailIndex
  <1>4. /\ batch' \in Seq(Events) /\ Len(batch') = Len(batch) + 1 /\ Len(batch) \in Nat
        /\ \A i \in 1 .. Len(batch) : batch'[i] = batch[i]
        /\ batch'[Len(batch) + 1] = h
    BY <1>1, <1>2, <1>3, AppendIndex
  <1> HIDE DEF h
  <1>5. MetricsTyped' /\ Closing' /\ StoredAtMostOnce'
    BY Zenon, <1>1, <1>3, <1>4 DEF MetricsInv, MetricsTyped, Closing, StoredAtMostOnce
  <1>6. OnePlace'
    <2>1. Waiting(queue)'
      BY <1>1, <1>3 DEF MetricsInv, OnePlace, Waiting, Fresh
    <2>2. /\ \A i \in 1 .. Len(batch) : batch[i] # h
          /\ \A i \in 1 .. Len(queue) - 1 : queue'[i] # h
          /\ rec[h] = "done" /\ Fresh(h)
      BY <1>3 DEF MetricsInv, OnePlace, Waiting
    <2>3. Waiting(batch)'
      BY <1>1, <1>4, <2>2 DEF MetricsInv, OnePlace, Waiting, Fresh
    <2>4. (\A i \in 1 .. Len(queue), j \in 1 .. Len(batch) : queue[i] # batch[j])'
      BY <1>3, <1>4, <2>2 DEF MetricsInv, OnePlace
    <2> QED
      BY ZenonT(30), <2>1, <2>3, <2>4, <1>1 DEF MetricsInv, OnePlace, Fresh
  <1>7. NoSilentLoss'
    <2>1. Elems(batch') = Elems(batch) \cup {h} /\ Elems(queue) = Elems(queue') \cup {h}
      BY <1>1, <1>2, <1>3, ElemsAppend, ElemsTail DEF h
    <2> QED
      BY Zenon, <2>1, <1>1 DEF MetricsInv, NoSilentLoss, Closing
  <1> QED
    BY <1>5, <1>6, <1>7 DEF MetricsInv

\* A fallback insert: the event leaves its handler for the table, if it gets there.
LEMMA FallbackInsertIInv ==
  ASSUME MetricsInv, NEW e \in Events, FallbackInsert(e)
  PROVE  MetricsInv'
  <1>1. /\ UNCHANGED <<queue, batch, runner, closer, truncated>>
        /\ rec[e] = "inserting" /\ rec' = [rec EXCEPT ![e] = "done"]
    BY Zenon DEF FallbackInsert
  <1>2. PICK err \in BOOLEAN : insertBatch({e}, err)
    BY Zenon DEF FallbackInsert
  <1>3. /\ rec \in [Events -> {"idle", "sending", "inserting", "done"}]
        /\ queue \in Seq(Events) /\ batch \in Seq(Events) /\ rows \in [Events -> Nat]
        /\ rows[e] = 0 /\ e \notin truncated
    BY Zenon, <1>1 DEF MetricsInv, MetricsTyped, OnePlace, Fresh
  <1>4. /\ rows' \in [Events -> Nat] /\ \A x \in Events : x # e => rows'[x] = rows[x]
        /\ rows'[e] <= 1 /\ (rows'[e] > 0 \/ e \in failed')
        /\ failed \subseteq failed' /\ failed' \subseteq Events
    <2>1. failed \subseteq failed' /\ failed' \subseteq Events /\ (err => e \in failed')
      BY Zenon, <1>2 DEF insertBatch, MetricsInv, MetricsTyped
    <2>2. CASE rows' = rows /\ err
      BY <2>1, <2>2, <1>3
    <2>3. CASE rows' = [x \in Events |-> IF x \in {e} THEN rows[x] + 1 ELSE rows[x]]
      BY <2>1, <2>3, <1>3
    <2> QED
      BY Zenon, <1>2, <2>2, <2>3 DEF insertBatch
  <1>5. \A x \in Events : rec'[x] = IF x = e THEN "done" ELSE rec[x]
    BY Zenon, <1>1, <1>3
  <1>6. MetricsTyped' /\ Closing'
    BY Zenon, <1>1, <1>4 DEF MetricsInv, MetricsTyped, Closing
  <1>7. StoredAtMostOnce'
    BY Zenon, <1>1, <1>3, <1>4 DEF MetricsInv, StoredAtMostOnce
  <1>8. /\ \A i \in 1 .. Len(queue) : queue[i] \in Events /\ queue[i] # e
        /\ \A i \in 1 .. Len(batch) : batch[i] \in Events /\ batch[i] # e
    BY ZenonT(30), <1>1, <1>3, ElemsIndex DEF MetricsInv, OnePlace, Waiting
  <1>9. OnePlace'
    BY <1>1, <1>4, <1>5, <1>8 DEF MetricsInv, OnePlace, Waiting, Fresh
  <1>10. NoSilentLoss'
    BY Zenon, <1>1, <1>4, <1>5 DEF MetricsInv, NoSilentLoss
  <1> QED
    BY Zenon, <1>6, <1>7, <1>9, <1>10 DEF MetricsInv

\* The batch goes to the table, if it gets there, and run() goes on or returns.
LEMMA InsertedIInv ==
  ASSUME MetricsInv, Inserted
  PROVE  MetricsInv'
  <1>1. /\ UNCHANGED <<rec, queue, closer, truncated>> /\ batch' = <<>>
        /\ runner' \in {"stopped", "select"} /\ runner \in {"insert", "last"}
        /\ closer # "closed"
    BY Zenon DEF Inserted, MetricsInv, Closing
  <1>2. PICK err \in BOOLEAN : insertBatch(Elems(batch), err)
    BY Zenon, <1>1 DEF Inserted
  <1>3. /\ rows \in [Events -> Nat] /\ batch \in Seq(Events) /\ queue \in Seq(Events)
        /\ \A x \in Elems(batch) : rec[x] = "done" /\ Fresh(x) /\ x \in Events
        /\ \A i \in 1 .. Len(queue) : queue[i] \in Events /\ queue[i] \notin Elems(batch)
    <2>1. batch \in Seq(Events) /\ queue \in Seq(Events) /\ rows \in [Events -> Nat]
      BY Zenon DEF MetricsInv, MetricsTyped
    <2>2. /\ \A x \in Elems(batch) : \E i \in 1 .. Len(batch) : batch[i] = x
          /\ \A i \in 1 .. Len(batch) : batch[i] \in Events
          /\ \A i \in 1 .. Len(queue) : queue[i] \in Events
      BY ZenonT(30), <2>1, ElemsIndex
    <2>3. \A x \in Elems(batch) : rec[x] = "done" /\ Fresh(x) /\ x \in Events
      <3>1. Waiting(batch)
        BY Zenon DEF MetricsInv, OnePlace
      <3> QED
        BY <2>2, <3>1 DEF Waiting
    <2>4. \A i \in 1 .. Len(queue) : queue[i] \notin Elems(batch)
      BY Zenon, <2>2 DEF MetricsInv, OnePlace
    <2> QED
      BY Zenon, <2>1, <2>2, <2>3, <2>4
  <1>4. /\ rows' \in [Events -> Nat]
        /\ \A x \in Events : x \notin Elems(batch) => rows'[x] = rows[x]
        /\ \A x \in Elems(batch) : rows'[x] <= 1 /\ (rows'[x] > 0 \/ x \in failed')
        /\ failed \subseteq failed' /\ failed' \subseteq Events
    <2>1. /\ failed \subseteq failed' /\ failed' \subseteq Events
          /\ (err => Elems(batch) \subseteq failed')
      BY Zenon, <1>2, <1>3 DEF insertBatch, MetricsInv, MetricsTyped
    <2>2. CASE rows' = rows /\ err
      BY <2>1, <2>2, <1>3 DEF Fresh
    <2>3. CASE rows' = [x \in Events |-> IF x \in Elems(batch) THEN rows[x] + 1 ELSE rows[x]]
      BY <2>1, <2>3, <1>3 DEF Fresh
    <2> QED
      BY Zenon, <1>2, <2>2, <2>3 DEF insertBatch
  <1>5. MetricsTyped' /\ Closing'
    BY <1>1, <1>4 DEF MetricsInv, MetricsTyped, Closing
  <1>6. StoredAtMostOnce'
    BY ZenonT(30), <1>1, <1>3, <1>4 DEF MetricsInv, StoredAtMostOnce, Fresh
  <1>7. OnePlace'
    <2>1. OnePlace /\ Waiting(queue)
      BY Zenon DEF MetricsInv, OnePlace
    <2>2. \A e \in Events : e \notin Elems(batch) /\ Fresh(e) => Fresh(e)'
      BY Zenon, <1>1, <1>4 DEF Fresh
    <2>3. \A i \in 1 .. Len(queue) : rec[queue[i]] = "done" /\ Fresh(queue[i]) /\ Fresh(queue[i])'
      <3> TAKE i \in 1 .. Len(queue)
      <3>1. queue[i] \in Events /\ queue[i] \notin Elems(batch) /\ queue' = queue
        BY Zenon, <1>1, <1>3
      <3>2. rec[queue[i]] = "done" /\ Fresh(queue[i])
        BY Zenon, <2>1 DEF Waiting
      <3> QED
        BY Zenon, <3>1, <3>2, <2>2
    <2>4. Waiting(queue)'
      BY Zenon, <1>1, <2>1, <2>3 DEF Waiting
    <2>5. \A i : i \notin 1 .. Len(batch')
      BY <1>1
    <2>6. Waiting(batch)'
      BY Zenon, <2>5 DEF Waiting
    <2>7. \A e \in Events : rec'[e] # "done" => Fresh(e)'
      BY Zenon, <1>1, <1>3, <2>1, <2>2 DEF OnePlace
    <2> QED
      BY Zenon, <2>4, <2>5, <2>6, <2>7 DEF OnePlace
  <1>8. NoSilentLoss'
    BY Zenon, <1>1, <1>4 DEF MetricsInv, NoSilentLoss
  <1> QED
    BY <1>5, <1>6, <1>7, <1>8 DEF MetricsInv

\* A reset empties the table; what waits in the queue and the batch stays fresh.
LEMMA ResetIInv ==
  ASSUME MetricsInv, Reset
  PROVE  MetricsInv'
  <1>1. /\ UNCHANGED <<rec, queue, batch, runner, closer, failed>>
        /\ rows' = [e \in Events |-> 0]
        /\ truncated' = truncated \cup {e \in Events : rows[e] > 0}
    BY DEF Reset
  <1>2. /\ rows \in [Events -> Nat] /\ queue \in Seq(Events) /\ batch \in Seq(Events)
        /\ truncated \subseteq Events
    BY Zenon DEF MetricsInv, MetricsTyped
  <1>3. /\ rows' \in [Events -> Nat] /\ \A e \in Events : rows'[e] = 0
        /\ \A e \in Events : Fresh(e) => Fresh(e)'
        /\ \A e \in Events : rows[e] > 0 => e \in truncated'
        /\ truncated \subseteq truncated' /\ truncated' \subseteq Events
    BY <1>1, <1>2 DEF Fresh
  <1>4. MetricsTyped' /\ Closing' /\ StoredAtMostOnce'
    BY <1>1, <1>3 DEF MetricsInv, MetricsTyped, Closing, StoredAtMostOnce
  <1>5. /\ \A i \in 1 .. Len(queue) : queue[i] \in Events
        /\ \A i \in 1 .. Len(batch) : batch[i] \in Events
    BY ZenonT(30), <1>2, ElemsIndex
  <1>6. OnePlace'
    BY <1>1, <1>3, <1>5 DEF MetricsInv, OnePlace, Waiting
  <1>7. NoSilentLoss'
    BY Zenon, <1>1, <1>3 DEF MetricsInv, NoSilentLoss
  <1> QED
    BY Zenon, <1>4, <1>6, <1>7 DEF MetricsInv

\* The other steps of run(), of Close and of Snapshot move no event.
LEMMA ControlIInv ==
  ASSUME MetricsInv,
         Tick \/ Stop \/ QueryGrouped \/ QueryTotal \/ Answer \/ Close \/ CloseDB \/ UNCHANGED vars
  PROVE  MetricsInv'
  <1>1. /\ UNCHANGED <<rec, queue, batch, rows, truncated, failed>>
        /\ Closing' /\ runner' \in {"select", "insert", "last", "stopped"}
        /\ closer' \in {"open", "waiting", "closed"}
        /\ runner' = "stopped" => runner = "stopped" \/ batch = <<>>
    BY ZenonT(30) DEF Tick, Stop, QueryGrouped, QueryTotal, Answer, Close, CloseDB, vars, history, MetricsInv,
           MetricsTyped, Closing
  <1>2. MetricsTyped' /\ StoredAtMostOnce' /\ OnePlace'
    BY <1>1 DEF MetricsInv, MetricsTyped, StoredAtMostOnce, OnePlace, Waiting, Fresh
  <1>3. NoSilentLoss'
    <2>1. batch = <<>> => Elems(batch) = {}
      BY DEF Elems
    <2> QED
      BY Zenon, <1>1, <2>1 DEF MetricsInv, NoSilentLoss, Closing
  <1> QED
    BY Zenon, <1>1, <1>2, <1>3 DEF MetricsInv

\* Every step of the store keeps an event in one place.
LEMMA StepIInv == MetricsInv /\ [Next]_vars => MetricsInv'
  BY Zenon, HandlerIInv, SendIInv, FallbackInsertIInv, ReceiveIInv, InsertedIInv, ResetIInv, ControlIInv
  DEF Next

\* Recorded events are inserted at most once, whether they go through the queue or
\* through the fallback of Record, whatever inserts fail and whenever Reset is called.
THEOREM StoredAtMostOnceHolds == Spec => []StoredAtMostOnce
  <1>1. MetricsInv => StoredAtMostOnce
    BY DEF MetricsInv
  <1> QED
    BY InitIInv, StepIInv, <1>1, PTL DEF Spec

\* A recorded event that is in neither the queue nor a batch run() will still insert
\* is in the table, or was removed by a reset, or its insert reported an error; and
\* when run() has returned its batch is no excuse.
THEOREM NoSilentLossHolds == Spec => []NoSilentLoss
  <1>1. MetricsInv => NoSilentLoss
    BY DEF MetricsInv
  <1> QED
    BY InitIInv, StepIInv, <1>1, PTL DEF Spec
-----------------------------------------------------------------------------
\* The queue and the batch stay within their sizes: run() leaves its select as soon
\* as the batch is full.
Sized ==
  /\ Len(queue) <= QueueCap /\ Len(batch) <= BatchSize
  /\ runner = "select" => Len(batch) < BatchSize
  /\ resets \in 0 .. MaxResets /\ snapshots \in 0 .. MaxSnapshots

\* Queue and batch start empty (newClickHouseVideoMetricsStoreFromEnv).
LEMMA InitSized == Init => Sized
  BY SizeAssumption DEF Init, Sized

\* Every step keeps queue and batch within their sizes.
LEMMA StepSized == MetricsInv /\ Sized /\ [Next]_vars => Sized'
  <1> SUFFICES ASSUME MetricsInv, Sized, [Next]_vars PROVE Sized'
    OBVIOUS
  <1>0. /\ QueueCap \in Nat \ {0} /\ BatchSize \in Nat \ {0} /\ MaxResets \in Nat
        /\ MaxSnapshots \in Nat /\ queue \in Seq(Events) /\ batch \in Seq(Events)
        /\ Len(queue) \in Nat /\ Len(batch) \in Nat
    BY SizeAssumption DEF MetricsInv, MetricsTyped
  <1>1. ASSUME NEW e \in Events, Send(e) PROVE Sized'
    <2>1. Len(queue') = Len(queue) + 1 /\ Len(queue) < QueueCap
      BY Zenon, <1>0, <1>1, AppendIndex DEF Send
    <2> QED
      BY <1>0, <1>1, <2>1 DEF Send, Sized, calls
  <1>2. CASE Receive
    <2>1. queue # <<>> /\ Head(queue) \in Events /\ Len(Tail(queue)) = Len(queue) - 1
      BY Zenon, <1>0, <1>2, TailIndex DEF Receive
    <2>2. /\ Len(queue') = Len(queue) - 1 /\ Len(batch') = Len(batch) + 1
          /\ Len(batch) < BatchSize /\ runner' = IF Len(batch') >= BatchSize THEN "insert" ELSE "select"
      BY <1>0, <1>2, <2>1, AppendIndex DEF Receive, Sized
    <2> QED
      BY <1>0, <1>2, <2>2 DEF Receive, Sized, calls
  <1>3. CASE Inserted
    BY <1>0, <1>3 DEF Inserted, Sized, calls
  <1>4. CASE Reset \/ QueryGrouped
    BY <1>0, <1>4 DEF Reset, QueryGrouped, Sized
  <1>5. ASSUME NEW e \in Events, Record(e) \/ Fallback(e) \/ FallbackInsert(e) PROVE Sized'
    BY Zenon, <1>5 DEF Record, Fallback, FallbackInsert, Sized, calls
  <1>6. CASE Tick \/ Stop \/ QueryTotal \/ Answer \/ Close \/ CloseDB \/ UNCHANGED vars
    BY Zenon, <1>6 DEF Tick, Stop, QueryTotal, Answer, Close, CloseDB, Sized, calls, vars
  <1> QED
    BY Zenon, <1>1, <1>2, <1>3, <1>4, <1>5, <1>6 DEF Next
-----------------------------------------------------------------------------
INSTANCE FiniteSetTheorems

StoredEvents == {e \in Events : rows[e] > 0}

\* What the grouped query of a snapshot saw is still in the table, unless a reset came.
Reading ==
  /\ reader \in [at : {"idle", "grouped", "total"}, grouped : Nat, total : Nat, reset : BOOLEAN]
  /\ IsFiniteSet(StoredEvents)
  /\ reader.at = "grouped" /\ ~reader.reset => reader.grouped <= Stored
  /\ BreakdownWithinTotal

\* The elements of a sequence are finitely many.
LEMMA ElemsFinite ==
  ASSUME NEW S, NEW s \in Seq(S)
  PROVE  IsFiniteSet(Elems(s))
  <1>1. s \in [1 .. Len(s) -> Elems(s)] /\ DOMAIN s = 1 .. Len(s) /\ Len(s) \in Nat
    BY DEF Elems
  <1>2. s \in Surjection(1 .. Len(s), Elems(s))
    BY <1>1 DEF Surjection, Elems
  <1> QED
    BY <1>1, <1>2, FS_Surjection, FS_Interval

\* An INSERT adds finitely many events to the table and takes none away.
LEMMA InsertGrows ==
  ASSUME MetricsInv, Reading, NEW es \in SUBSET Events, IsFiniteSet(es), NEW err \in BOOLEAN,
         insertBatch(es, err), UNCHANGED reader
  PROVE  Reading'
  <1>1. rows \in [Events -> Nat]
    BY Zenon DEF MetricsInv, MetricsTyped
  <1>2. StoredEvents \subseteq StoredEvents' /\ StoredEvents' \subseteq StoredEvents \cup es
    BY <1>1 DEF insertBatch, StoredEvents
  <1>3. IsFiniteSet(StoredEvents')
    BY Zenon, <1>2, FS_Union, FS_Subset DEF Reading
  <1>4. Cardinality(StoredEvents) <= Cardinality(StoredEvents')
    BY Zenon, <1>2, <1>3, FS_Subset
  <1>5. Cardinality(StoredEvents) \in Nat /\ Cardinality(StoredEvents') \in Nat
    BY Zenon, <1>3, FS_CardinalityType DEF Reading
  <1>6. Stored = Cardinality(StoredEvents) /\ Stored' = Cardinality(StoredEvents')
    BY Zenon DEF Stored, StoredEvents
  <1> QED
    BY <1>3, <1>4, <1>5, <1>6 DEF Reading, BreakdownWithinTotal

\* Between the queries of a snapshot only a reset takes rows away (Snapshot).
LEMMA StepReading ==
  ASSUME MetricsInv, Reading, [Next]_vars
  PROVE  Reading'
  <1>1. /\ reader \in [at : {"idle", "grouped", "total"}, grouped : Nat, total : Nat, reset : BOOLEAN]
        /\ IsFiniteSet(StoredEvents)
    BY Zenon DEF Reading
  <1>2. Stored \in Nat /\ Stored = Cardinality(StoredEvents)
    BY Zenon, <1>1, FS_CardinalityType DEF Stored, StoredEvents
  <1>3. ASSUME NEW e \in Events, FallbackInsert(e) PROVE Reading'
    BY Zenon, <1>3, InsertGrows, FS_Singleton DEF FallbackInsert
  <1>4. CASE Inserted
    <2>1. Elems(batch) \subseteq Events /\ IsFiniteSet(Elems(batch))
      BY ElemsFinite, ElemsIndex DEF MetricsInv, MetricsTyped
    <2>2. CASE UNCHANGED rows
      BY Zenon, <1>4, <2>2 DEF Inserted, Reading, BreakdownWithinTotal, Stored, StoredEvents
    <2> QED
      BY ZenonT(30), <1>4, <2>1, <2>2, InsertGrows DEF Inserted
  <1>5. CASE Reset
    <2>1. /\ reader' = [reader EXCEPT !.reset = reader.reset \/ reader.at = "grouped"]
          /\ rows' = [e \in Events |-> 0]
      BY <1>5 DEF Reset
    <2>2. /\ reader' \in [at : {"idle", "grouped", "total"}, grouped : Nat, total : Nat, reset : BOOLEAN]
      BY Zenon, <1>1, <2>1
    <2>3. /\ reader'.at = reader.at /\ reader'.grouped = reader.grouped /\ reader'.total = reader.total
      BY <1>1, <2>1
    <2>4. reader'.reset = (reader.reset \/ reader.at = "grouped")
      BY <1>1, <2>1
    <2>5. StoredEvents' = {}
      BY <2>1 DEF StoredEvents
    <2>6. ~(reader'.at = "grouped" /\ ~reader'.reset) /\ (~reader'.reset => ~reader.reset)
      BY <2>3, <2>4, Zenon
    <2>7. BreakdownWithinTotal'
      BY Zenon, <2>3, <2>6 DEF Reading, BreakdownWithinTotal
    <2> QED
      BY Zenon, <2>2, <2>5, <2>6, <2>7, FS_EmptySet DEF Reading
  <1>6. CASE QueryGrouped
    <2>1. /\ reader' = [reader EXCEPT !.at = "grouped", !.grouped = Stored] /\ rows' = rows
      BY <1>6 DEF QueryGrouped
    <2>2. StoredEvents' = StoredEvents /\ Stored' = Stored
      BY <2>1 DEF StoredEvents, Stored
    <2>3. /\ reader' \in [at : {"idle", "grouped", "total"}, grouped : Nat, total : Nat, reset : BOOLEAN]
          /\ reader'.at = "grouped" /\ reader'.grouped = Stored
      BY Zenon, <1>1, <1>2, <2>1
    <2> QED
      BY <1>1, <1>2, <2>2, <2>3 DEF Reading, BreakdownWithinTotal
  <1>7. CASE QueryTotal
    <2>1. rows' = rows
      BY <1>7 DEF QueryTotal
    <2>2. CASE reader' = Idle
      BY Zenon, <1>1, <2>1, <2>2 DEF Idle, Reading, BreakdownWithinTotal, Stored, StoredEvents
    <2>3. CASE reader.at = "grouped" /\ reader' = [reader EXCEPT !.at = "total", !.total = Stored]
      BY Zenon, <1>1, <1>2, <2>1, <2>3 DEF Reading, BreakdownWithinTotal, Stored, StoredEvents
    <2> QED
      BY <1>7, <2>2, <2>3 DEF QueryTotal
  <1>8. CASE Answer
    BY Zenon, <1>1, <1>8 DEF Answer, Idle, Reading, BreakdownWithinTotal, Stored, StoredEvents
  <1>9. ASSUME UNCHANGED <<rows, reader>> PROVE Reading'
    BY Zenon, <1>9 DEF Reading, BreakdownWithinTotal, Stored, StoredEvents
  <1>10. ASSUME NEW e \in Events, Record(e) \/ Send(e) \/ Fallback(e) PROVE Reading'
    BY Zenon, <1>9, <1>10 DEF Record, Send, Fallback
  <1>11. CASE Receive \/ Tick \/ Stop \/ Close \/ CloseDB \/ UNCHANGED vars
    BY Zenon, <1>9, <1>11 DEF Receive, Tick, Stop, Close, CloseDB, vars
  <1> QED
    BY ZenonT(30), <1>3, <1>4, <1>5, <1>6, <1>7, <1>8, <1>10, <1>11 DEF Next

\* The three invariants hold when the store is created.
LEMMA InitMetrics == Init => MetricsInv /\ Sized /\ Reading
<1>1. Init => Reading
  <2> SUFFICES ASSUME Init PROVE Reading
    OBVIOUS
  <2>1. StoredEvents = {}
    BY DEF Init, StoredEvents
  <2> QED
    BY Zenon, <2>1, FS_EmptySet DEF Init, Reading, Idle, BreakdownWithinTotal
<1> QED
  BY <1>1, InitIInv, InitSized

\* Every step keeps the three of them.
LEMMA StepMetrics ==
  MetricsInv /\ Sized /\ Reading /\ [Next]_vars => (MetricsInv /\ Sized /\ Reading)'
BY Zenon, StepIInv, StepSized, StepReading

\* Together they give the types.
LEMMA MetricsType == MetricsInv /\ Sized /\ Reading => TypeOK
BY Zenon DEF MetricsInv, MetricsTyped, Sized, Reading, TypeOK

\* They hold throughout.
LEMMA MetricsInvariance == Spec => [](MetricsInv /\ Sized /\ Reading)
<1> QED
  BY InitMetrics, StepMetrics, PTL DEF Spec

\* The queue and the batch of clickHouseVideoMetricsStore never exceed their sizes,
\* and every other variable has its type.
THEOREM MetricsTypeCorrect == Spec => []TypeOK
<1> QED
  BY MetricsType, MetricsInvariance, PTL

\* The breakdowns of Snapshot, which is not one transaction, never exceed the total
\* it reports unless the table was truncated in between.
THEOREM BreakdownWithinTotalHolds == Spec => []BreakdownWithinTotal
  <1>1. Reading => BreakdownWithinTotal
    BY DEF Reading
  <1> QED
    BY <1>1, MetricsInvariance, PTL

-----------------------------------------------------------------------------
(* The composition: a step of one service is a stutter of the others.      *)

\* A step of the services is a step of one of them, and leaves the others alone.
LEMMA DataSteps ==
  [DataNext]_dataVars => [Next]_vars /\ [StoredNext]_storedVars /\ [RateNext]_rateVars
<1>1. CASE Metrics(Next)
  BY <1>1 DEF Metrics
<1>2. CASE Requests(StoredNext)
  BY <1>2 DEF Requests
<1>3. CASE Rates(RateNext)
  BY <1>3 DEF Rates
<1>4. CASE UNCHANGED dataVars
  BY Zenon, <1>4 DEF dataVars
<1> QED
  BY Zenon, <1>1, <1>2, <1>3, <1>4 DEF DataNext

\* The services keep their types together: the queue and the batch of the
\* video metrics within their sizes, the cache, the rates.
THEOREM DataTypeCorrect == DataSpec => []DataTypeOK
<1>1. DataInit => MetricsInv /\ Sized /\ Reading /\ StoredInv /\ RateInv
  BY InitMetrics, InitStored, InitRates DEF DataInit
<1>2. StoredInv => StoredTypeOK
  BY DEF StoredInv
<1>3. RateInv => RateTypeOK
  BY DEF RateInv
<1>4. MetricsInv /\ Sized /\ Reading /\ [DataNext]_dataVars => (MetricsInv /\ Sized /\ Reading)'
  BY Zenon, DataSteps, StepMetrics
<1>5. StoredInv /\ [DataNext]_dataVars => StoredInv'
  BY Zenon, DataSteps, StepStored
<1>6. RateInv /\ [DataNext]_dataVars => RateInv'
  BY Zenon, DataSteps, StepRates
<1>7. MetricsInv /\ Sized /\ Reading /\ StoredInv /\ RateInv => DataTypeOK
  BY <1>2, <1>3, MetricsType DEF DataTypeOK
<1> QED
  BY <1>1, <1>4, <1>5, <1>6, <1>7, PTL DEF DataSpec

\* The data services as they are model-checked run their parts as they are: what
\* is proved of the metrics, the stored requests and the rates holds in the
\* services together.
THEOREM DataRunsParts == DataSpec => Spec /\ StoredSpec /\ RateSpec
<1>1. DataInit => Init /\ StoredInit /\ RateInit
  BY Zenon DEF DataInit
<1> QED
  BY <1>1, DataSteps, PTL DEF DataSpec, Spec, StoredSpec, RateSpec
=============================================================================

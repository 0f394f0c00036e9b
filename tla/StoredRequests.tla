--------------------------- MODULE StoredRequests ---------------------------
(***************************************************************************)
(* The cache of stored requests (stored_requests): requests that miss it   *)
(* fetch from the backend and save what they got (fetcherWithCache); an    *)
(* event producer polls the backend for what has changed and sends saves   *)
(* and invalidations on two channels (DatabaseEventProducer, HTTPEvents);  *)
(* a listener applies them to the cache (EventListener).                   *)
(*                                                                         *)
(* The data of an entry is the time of its last change.  The clock counts  *)
(* the changes.  The cache is the unbounded one; the bounded one may drop  *)
(* entries in addition.                                                    *)
(***************************************************************************)
EXTENDS Integers, FiniteSets

CONSTANTS Ids,
          Fetchers,         \* goroutines of requests
          MaxStoredChanges, \* bound on the changes of the backend
          Second            \* changes in one second of last-modified

ASSUME StoredAssumption == MaxStoredChanges \in Nat /\ Second \in Nat \ {0}

VARIABLES source,           \* the kind of the producer: "database" or "http"
          stored,           \* the backend
          now,
          load,             \* the first load: "never" ended, "failed", "done"
          lastUpdate,
          poll,             \* the producer: rows still to send
          saves, invalidations, \* channels of capacity 1
          cache,
          fetch,            \* per request: ids it misses, rows it got
          listening,
          applied,          \* history: the newest change an event brought
          raced,            \* history: ids last written with a row older than that
          skipped           \* history: deletions the first load did not send

storedVars == <<source, stored, now, load, lastUpdate, poll, saves, invalidations,
                cache, fetch, listening, applied, raced, skipped>>
backend == <<source, stored, now>>
producer == <<load, lastUpdate, poll, skipped>>
channels == <<saves, invalidations>>
written == <<cache, applied, raced>>

Never == -1
Absent == [at |-> Never, live |-> FALSE]

\* A set of rows by id, as in a map; the empty one stands for an empty channel.
NoRows == [id \in {} |-> Absent]
Rows(ids) == [id \in ids |-> stored[id]]
Live(ids) == {id \in ids : stored[id].live}

NoPoll == [pc |-> "idle", start |-> 0, save |-> NoRows, drop |-> NoRows]
NoFetch == [pc |-> "idle", want |-> {}, rows |-> NoRows]

\* NewHTTPEvents notes the time; a DatabaseEventProducer begins at time zero.
StoredInit ==
  /\ source \in {"database", "http"}
  /\ stored \in [Ids -> [at : {0}, live : BOOLEAN]]
  /\ now = 0
  /\ load = "never"
  /\ lastUpdate = IF source = "http" THEN 0 ELSE Never
  /\ poll = NoPoll
  /\ saves = NoRows /\ invalidations = NoRows
  /\ cache = [id \in Ids |-> Absent]
  /\ fetch = [f \in Fetchers |-> NoFetch]
  /\ listening = TRUE
  /\ applied = [id \in Ids |-> Never]
  /\ raced = {} /\ skipped = {}

-----------------------------------------------------------------------------
(* The backend.  A deleted entry keeps its row, without data.              *)

ChangeStored(id, live) ==
  /\ now < MaxStoredChanges
  /\ live \/ stored[id].live
  /\ now' = now + 1
  /\ stored' = [stored EXCEPT ![id] = [at |-> now', live |-> live]]
  /\ UNCHANGED <<source, producer, channels, written, fetch, listening>>

-----------------------------------------------------------------------------
(* The producer: the ticker task of the database, refresh of HTTPEvents.   *)

\* The times of the tick: refresh takes the one in the tick it receives, which
\* may have waited in the ticker's channel while the poll before it ran.
Ticks == IF source = "database" THEN {now} ELSE lastUpdate .. now

\* Mutant of StartPoll: the task ends when its first run fails.
StartPollUnlessFailed ==
  /\ poll.pc = "idle" /\ load # "failed"
  /\ \E t \in Ticks : poll' = [poll EXCEPT !.pc = "query", !.start = t]
  /\ UNCHANGED <<backend, load, lastUpdate, skipped, channels, written, fetch, listening>>

StartPoll ==
  /\ poll.pc = "idle"
  /\ \E t \in Ticks : poll' = [poll EXCEPT !.pc = "query", !.start = t]
  /\ UNCHANGED <<backend, load, lastUpdate, skipped, channels, written, fetch, listening>>

\* fetchAll: until it succeeds once, or only at the start.
LoadsAll == IF source = "database" THEN lastUpdate = Never ELSE load = "never"

\* The parameter of the query; last-modified is formatted in whole seconds.
Since == IF source = "database" THEN lastUpdate ELSE lastUpdate - (lastUpdate % Second)

Changed == IF LoadsAll THEN Ids ELSE {id \in Ids : stored[id].at > Since}

\* Rows that somebody has cached or is about to.
Exposed == {id \in Ids : cache[id] # Absent \/ \E f \in Fetchers : id \in DOMAIN fetch[f].rows}

\* The rows have been read: those without data are invalidated, but not at the
\* first load.
QueryEnds ==
  /\ poll.pc = "query"
  /\ poll' = [poll EXCEPT !.pc = "send",
                          !.save = Rows(Live(Changed)),
                          !.drop = IF LoadsAll THEN NoRows ELSE Rows(Changed \ Live(Changed))]
  /\ skipped' = IF LoadsAll THEN Exposed \ Live(Changed) ELSE skipped
  /\ UNCHANGED <<backend, load, lastUpdate, channels, written, fetch, listening>>

\* The query or the reading of its rows fails: nothing has been sent.
QueryFails ==
  /\ poll.pc = "query"
  /\ poll' = NoPoll
  /\ load' = IF load = "never" THEN "failed" ELSE load
  /\ UNCHANGED <<backend, lastUpdate, skipped, channels, written, fetch, listening>>

SendSaves ==
  /\ poll.save # NoRows
  /\ saves = NoRows
  /\ saves' = poll.save
  /\ poll' = [poll EXCEPT !.save = NoRows]
  /\ UNCHANGED <<backend, load, lastUpdate, skipped, invalidations, written, fetch, listening>>

SendInvalidations ==
  /\ poll.save = NoRows /\ poll.drop # NoRows
  /\ invalidations = NoRows
  /\ invalidations' = poll.drop
  /\ poll' = [poll EXCEPT !.drop = NoRows]
  /\ UNCHANGED <<backend, load, lastUpdate, skipped, saves, written, fetch, listening>>

\* Mutant of Polled: the time when the events have been sent.
PolledAtEnd == now

\* The next poll asks for what has changed since this one began.
Polled == IF source = "http" /\ load = "never" THEN lastUpdate ELSE poll.start

PollEnds ==
  /\ poll.pc = "send" /\ poll.save = NoRows /\ poll.drop = NoRows
  /\ poll' = NoPoll
  /\ lastUpdate' = Polled
  /\ load' = IF source = "database" \/ load = "never" THEN "done" ELSE load
  /\ UNCHANGED <<backend, skipped, channels, written, fetch, listening>>

-----------------------------------------------------------------------------
(* The listener.  It starts when the first load has ended.                 *)

\* Rows are written; one that is older than an event for its id is a race.
NoteWrite(rows) ==
  raced' = (raced \ DOMAIN rows) \cup {id \in DOMAIN rows : rows[id].at < applied[id]}

NoteEvent(rows) ==
  /\ NoteWrite(rows)
  /\ applied' = [id \in Ids |->
       IF id \in DOMAIN rows /\ rows[id].at > applied[id] THEN rows[id].at ELSE applied[id]]
  /\ skipped' = skipped \ DOMAIN rows

Saved(rows) == [id \in Ids |-> IF id \in DOMAIN rows THEN rows[id] ELSE cache[id]]

ReceiveSave ==
  /\ listening /\ load # "never"
  /\ saves # NoRows
  /\ cache' = Saved(saves)
  /\ NoteEvent(saves)
  /\ saves' = NoRows
  /\ UNCHANGED <<backend, load, lastUpdate, poll, invalidations, fetch, listening>>

\* What an invalidation leaves.
Kept(rows) == [id \in Ids |-> IF id \in DOMAIN rows THEN Absent ELSE cache[id]]

ReceiveInvalidation ==
  /\ listening /\ load # "never"
  /\ invalidations # NoRows
  /\ cache' = Kept(invalidations)
  /\ NoteEvent(invalidations)
  /\ invalidations' = NoRows
  /\ UNCHANGED <<backend, load, lastUpdate, poll, saves, fetch, listening>>

\* The listener takes the stop signal of the shutdown and returns.
StopListener ==
  /\ listening /\ load # "never"
  /\ listening' = FALSE
  /\ UNCHANGED <<backend, producer, channels, written, fetch>>

-----------------------------------------------------------------------------
(* fetcherWithCache: FetchRequests, FetchResponses, FetchAccount.          *)

MissCache(f, ids) ==
  /\ load # "never"
  /\ fetch[f].pc = "idle"
  /\ ids # {} /\ \A id \in ids : cache[id] = Absent
  /\ fetch' = [fetch EXCEPT ![f].pc = "fetch", ![f].want = ids]
  /\ UNCHANGED <<backend, producer, channels, written, listening>>

\* The ids the backend answers for: a deleted entry has a row without data, which
\* the database fetcher returns as it is.
Answered(f) == IF source = "database" THEN fetch[f].want ELSE Live(fetch[f].want)

Fetched(f, ids) == fetch' = [fetch EXCEPT ![f] = [pc |-> "save", want |-> {}, rows |-> Rows(ids)]]

FetchRows(f) ==
  /\ fetch[f].pc = "fetch"
  /\ Fetched(f, Answered(f))
  /\ UNCHANGED <<backend, producer, channels, written, listening>>

\* The fetch returns errors.  What it returns beside them, nothing or the rows of
\* those of its fetchers that succeeded, is saved all the same.
FetchFails(f) ==
  /\ fetch[f].pc = "fetch"
  /\ \E ids \in SUBSET Answered(f) : Fetched(f, ids)
  /\ UNCHANGED <<backend, producer, channels, written, listening>>

SaveFetched(f) ==
  /\ fetch[f].pc = "save"
  /\ cache' = Saved(fetch[f].rows)
  /\ NoteWrite(fetch[f].rows)
  /\ fetch' = [fetch EXCEPT ![f] = NoFetch]
  /\ UNCHANGED <<backend, producer, channels, applied, listening>>

-----------------------------------------------------------------------------

StoredNext ==
  \/ \E id \in Ids, live \in BOOLEAN : ChangeStored(id, live)
  \/ StartPoll \/ QueryEnds \/ QueryFails \/ SendSaves \/ SendInvalidations \/ PollEnds
  \/ ReceiveSave \/ ReceiveInvalidation \/ StopListener
  \/ \E f \in Fetchers :
       \/ \E ids \in SUBSET Ids : MissCache(f, ids)
       \/ FetchRows(f) \/ FetchFails(f) \/ SaveFetched(f)

StoredSpec == StoredInit /\ [][StoredNext]_storedVars

PollStep == StartPoll \/ SendSaves \/ SendInvalidations \/ PollEnds
FetchStep(f) == FetchRows(f) \/ SaveFetched(f)

\* The ticker fires, the goroutines run, a query that is repeated succeeds in
\* the end.  The listener's select takes a case that stays ready.
StoredFairSpec ==
  /\ StoredSpec
  /\ WF_storedVars(PollStep) /\ SF_storedVars(QueryEnds)
  /\ WF_storedVars(ReceiveSave) /\ WF_storedVars(ReceiveInvalidation)
  /\ \A f \in Fetchers : WF_storedVars(FetchStep(f))

-----------------------------------------------------------------------------

Times == Never .. MaxStoredChanges
AllRows == [at : Times, live : BOOLEAN]
RowMaps == UNION {[ids -> AllRows] : ids \in SUBSET Ids}

StoredTypeOK ==
  /\ source \in {"database", "http"}
  /\ stored \in [Ids -> AllRows] /\ cache \in [Ids -> AllRows]
  /\ now \in 0 .. MaxStoredChanges /\ lastUpdate \in Never .. now
  /\ load \in {"never", "failed", "done"}
  /\ poll.pc \in {"idle", "query", "send"} /\ poll.start \in 0 .. now
  /\ {poll.save, poll.drop, saves, invalidations} \subseteq RowMaps
  /\ \A f \in Fetchers :
       /\ fetch[f].pc \in {"idle", "fetch", "save"}
       /\ fetch[f].want \subseteq Ids /\ fetch[f].rows \in RowMaps
  /\ listening \in BOOLEAN
  /\ applied \in [Ids -> Times]
  /\ raced \subseteq Ids /\ skipped \subseteq Ids

\* What is on its way to the cache or has to be polled.
Pending(id) ==
  \/ load = "never" \/ stored[id].at > lastUpdate
  \/ id \in DOMAIN poll.save \cup DOMAIN poll.drop \cup DOMAIN saves \cup DOMAIN invalidations
  \/ \E f \in Fetchers : id \in DOMAIN fetch[f].rows

\* The cache has the data of the backend; nothing, or no data, for a deleted
\* entry; and nothing for an entry of a first load that failed for good.
Follows(id) ==
  \/ cache[id] = stored[id]
  \/ cache[id] = Absent /\ (~stored[id].live \/ (source = "http" /\ load = "failed" /\ stored[id].at = 0))

\* When nothing is on its way, the cache agrees with the backend: no change is
\* missed between two polls, by a poll that fails or by a request that saves
\* what it had fetched before.  There are two exceptions.  A row that was
\* fetched, or sent on the other channel, before an event that has been applied
\* replaces it for good; and a deletion that the first successful load of the
\* database finds is not sent (fetcherWithCache, sendEvents, refresh, Listen).
CacheFollows == \A id \in Ids \ (raced \cup skipped) : Pending(id) \/ Follows(id)

\* Once the backend is left alone, the cache comes to agree with it and stays
\* so, with the same exceptions, as long as the listener runs (Run, refresh).
EventuallyFollows ==
  \A id \in Ids : <>[](~listening \/ id \in raced \cup skipped \/ Follows(id))

=============================================================================

-------------------------- MODULE ClickHouseMetrics -------------------------
(***************************************************************************)
(* clickHouseVideoMetricsStore (endpoints/video_analytics_clickhouse.go):  *)
(* request handlers Record events, the goroutine run() collects them in    *)
(* batches and inserts them, Reset truncates the table, Snapshot reads it  *)
(* query by query, and Close stops the goroutine and closes the database.  *)
(*                                                                         *)
(* Every event is recorded by one call.  An insert may fail, and one that  *)
(* fails may still have reached the table (a deadline that expires while   *)
(* the server works).  Only the number of rows matters to Snapshot.        *)
(***************************************************************************)
EXTENDS Integers, Sequences, FiniteSets

CONSTANTS Events, QueueCap, BatchSize, MaxResets, MaxSnapshots

ASSUME SizeAssumption ==
  QueueCap \in Nat \ {0} /\ BatchSize \in Nat \ {0} /\ MaxResets \in Nat /\ MaxSnapshots \in Nat

VARIABLES rec,      \* where the call of Record is
          queue, batch,
          runner,   \* run(): in its select, in an insert, in the last insert, returned
          rows,     \* how often the table holds each event
          closer,   \* Close: not called, waiting for run(), returned
          resets, snapshots,
          reader,   \* Snapshot: what its queries have seen, and whether a reset came between
          failed, truncated \* events whose insert failed, events a reset removed

calls == <<resets, snapshots>>
history == <<failed, truncated>>
vars == <<rec, queue, batch, runner, rows, closer, calls, reader, history>>

Elems(s) == {s[i] : i \in DOMAIN s}
Idle == [at |-> "idle", grouped |-> 0, total |-> 0, reset |-> FALSE]

Init ==
  /\ rec = [e \in Events |-> "idle"]
  /\ queue = <<>> /\ batch = <<>> /\ runner = "select"
  /\ rows = [e \in Events |-> 0]
  /\ closer = "open" /\ resets = 0 /\ snapshots = 0 /\ reader = Idle
  /\ failed = {} /\ truncated = {}
-----------------------------------------------------------------------------
Record(e) ==
  /\ rec[e] = "idle"
  /\ rec' = [rec EXCEPT ![e] = "sending"]
  /\ UNCHANGED <<queue, batch, runner, rows, closer, calls, reader, history>>

\* Mutant of Send: a queue without a bound.
SendAlways(e) ==
  /\ rec[e] = "sending"
  /\ queue' = Append(queue, e)
  /\ rec' = [rec EXCEPT ![e] = "done"]
  /\ UNCHANGED <<batch, runner, rows, closer, calls, reader, history>>

Send(e) ==
  /\ rec[e] = "sending" /\ Len(queue) < QueueCap
  /\ queue' = Append(queue, e)
  /\ rec' = [rec EXCEPT ![e] = "done"]
  /\ UNCHANGED <<batch, runner, rows, closer, calls, reader, history>>

\* The queue has stayed full for 50 ms: the handler inserts the event itself.  On
\* a closed database that fails at once; an insert that has begun may still end.
Fallback(e) ==
  /\ rec[e] = "sending" /\ Len(queue) = QueueCap
  /\ IF closer = "closed"
     THEN rec' = [rec EXCEPT ![e] = "done"] /\ failed' = failed \cup {e}
     ELSE rec' = [rec EXCEPT ![e] = "inserting"] /\ failed' = failed
  /\ UNCHANGED <<queue, batch, runner, rows, closer, calls, reader, truncated>>

\* One INSERT statement: all rows, or an error and all rows or none.
insertBatch(es, err) ==
  LET more == [e \in Events |-> IF e \in es THEN rows[e] + 1 ELSE rows[e]] IN
  /\ rows' \in IF err THEN {rows, more} ELSE {more}
  /\ failed' = IF err THEN failed \cup es ELSE failed

FallbackInsert(e) ==
  /\ rec[e] = "inserting"
  /\ \E err \in BOOLEAN : insertBatch({e}, err)
  /\ rec' = [rec EXCEPT ![e] = "done"]
  /\ UNCHANGED <<queue, batch, runner, closer, calls, reader, truncated>>
-----------------------------------------------------------------------------
\* One iteration of run(): an event is taken, and a full batch is inserted ...
Receive ==
  /\ runner = "select" /\ queue # <<>>
  /\ queue' = Tail(queue)
  /\ batch' = Append(batch, Head(queue))
  /\ runner' = IF Len(batch') >= BatchSize THEN "insert" ELSE "select"
  /\ UNCHANGED <<rec, rows, closer, calls, reader, history>>

\* Mutant of Tick: the ticker flushes full batches only.
TickIfFull ==
  /\ runner = "select" /\ Len(batch) >= BatchSize
  /\ runner' = "insert"
  /\ UNCHANGED <<rec, queue, batch, rows, closer, calls, reader, history>>

\* ... the ticker fires, and what there is is inserted ...
Tick ==
  /\ runner = "select" /\ batch # <<>>
  /\ runner' = "insert"
  /\ UNCHANGED <<rec, queue, batch, rows, closer, calls, reader, history>>

\* ... or done is closed, and the batch, not the queue, is inserted.
Stop ==
  /\ runner = "select" /\ closer = "waiting"
  /\ runner' = IF batch = <<>> THEN "stopped" ELSE "last"
  /\ UNCHANGED <<rec, queue, batch, rows, closer, calls, reader, history>>

\* Mutant of Inserted: a batch that failed is tried again.
InsertedOrRetry ==
  /\ runner \in {"insert", "last"}
  /\ \E err \in BOOLEAN :
       /\ insertBatch(Elems(batch), err)
       /\ batch' = IF err THEN batch ELSE <<>>
       /\ runner' = IF err THEN runner ELSE IF runner = "last" THEN "stopped" ELSE "select"
  /\ UNCHANGED <<rec, queue, closer, calls, reader, truncated>>

\* flush: an error is logged and the batch is emptied all the same.  An insert
\* into a closed database is one that fails.
Inserted ==
  /\ runner \in {"insert", "last"}
  /\ IF closer = "closed" THEN rows' = rows /\ failed' = failed \cup Elems(batch)
     ELSE \E err \in BOOLEAN : insertBatch(Elems(batch), err)
  /\ batch' = <<>>
  /\ runner' = IF runner = "last" THEN "stopped" ELSE "select"
  /\ UNCHANGED <<rec, queue, closer, calls, reader, truncated>>
-----------------------------------------------------------------------------
\* TRUNCATE TABLE, on an open database.
Reset ==
  /\ resets < MaxResets /\ closer # "closed"
  /\ resets' = resets + 1
  /\ rows' = [e \in Events |-> 0]
  /\ truncated' = truncated \cup {e \in Events : rows[e] > 0}
  /\ reader' = [reader EXCEPT !.reset = @ \/ reader.at = "grouped"]
  /\ UNCHANGED <<rec, queue, batch, runner, closer, snapshots, failed>>

Stored == Cardinality({e \in Events : rows[e] > 0})

\* Snapshot queries the groups of a dimension first ...
QueryGrouped ==
  /\ reader.at = "idle" /\ snapshots < MaxSnapshots /\ closer # "closed"
  /\ reader' = [reader EXCEPT !.at = "grouped", !.grouped = Stored]
  /\ snapshots' = snapshots + 1
  /\ UNCHANGED <<rec, queue, batch, runner, rows, closer, resets, history>>

\* Mutant of QueryTotal: the total was read before the groups.
QueryTotalStale ==
  /\ reader.at = "grouped"
  /\ \/ reader' = [reader EXCEPT !.at = "total", !.grouped = Stored, !.total = reader.grouped]
     \/ reader' = Idle
  /\ UNCHANGED <<rec, queue, batch, runner, rows, closer, calls, history>>

\* ... then the total; an error in between makes the caller use the counters in
\* memory instead.
QueryTotal ==
  /\ reader.at = "grouped"
  /\ \/ closer # "closed" /\ reader' = [reader EXCEPT !.at = "total", !.total = Stored]
     \/ reader' = Idle
  /\ UNCHANGED <<rec, queue, batch, runner, rows, closer, calls, history>>

Answer ==
  /\ reader.at = "total"
  /\ reader' = Idle
  /\ UNCHANGED <<rec, queue, batch, runner, rows, closer, calls, history>>
-----------------------------------------------------------------------------
Close ==
  /\ closer = "open"
  /\ closer' = "waiting"
  /\ UNCHANGED <<rec, queue, batch, runner, rows, calls, reader, history>>

\* Mutant of CloseDB: the database is closed without waiting for run().
CloseDBAtOnce ==
  /\ closer = "waiting"
  /\ closer' = "closed"
  /\ UNCHANGED <<rec, queue, batch, runner, rows, calls, reader, history>>

\* wg.Wait, then the database is closed.
CloseDB ==
  /\ closer = "waiting" /\ runner = "stopped"
  /\ closer' = "closed"
  /\ UNCHANGED <<rec, queue, batch, runner, rows, calls, reader, history>>

Next ==
  \/ \E e \in Events : Record(e) \/ Send(e) \/ Fallback(e) \/ FallbackInsert(e)
  \/ Receive \/ Tick \/ Stop \/ Inserted
  \/ Reset \/ QueryGrouped \/ QueryTotal \/ Answer \/ Close \/ CloseDB

Spec == Init /\ [][Next]_vars

\* run() is scheduled, its ticker fires, every statement ends by its deadline, and
\* select picks a case that stays ready at random, so it is not passed over for ever.
FairSpec ==
  /\ Spec
  /\ WF_vars(Receive) /\ SF_vars(Tick) /\ SF_vars(Stop) /\ WF_vars(Inserted) /\ WF_vars(CloseDB)
-----------------------------------------------------------------------------
TypeOK ==
  /\ rec \in [Events -> {"idle", "sending", "inserting", "done"}]
  /\ queue \in Seq(Events) /\ Len(queue) <= QueueCap
  /\ batch \in Seq(Events) /\ Len(batch) <= BatchSize
  /\ runner \in {"select", "insert", "last", "stopped"}
  /\ rows \in [Events -> Nat] /\ closer \in {"open", "waiting", "closed"}
  /\ reader.at \in {"idle", "grouped", "total"}
  /\ resets \in 0 .. MaxResets /\ snapshots \in 0 .. MaxSnapshots
  /\ failed \subseteq Events /\ truncated \subseteq Events

\* An event is never counted twice, whichever way it took, even if an insert that
\* reported an error reached the table; and one that a reset has removed does not
\* come back.
StoredAtMostOnce ==
  \A e \in Events : rows[e] <= IF e \in truncated THEN 0 ELSE 1

\* Where a recorded event may be.  After Close it may be left in the queue, which
\* run() does not drain, but not in the batch: run() has made its last insert, and
\* nothing is in its batch, when the database is closed (run, Record, Close).
NoSilentLoss ==
  /\ \A e \in Events : rec[e] = "done" =>
       \/ e \in Elems(queue) \/ (e \in Elems(batch) /\ runner # "stopped")
       \/ rows[e] > 0 \/ e \in failed \/ e \in truncated
  /\ closer = "closed" => batch = <<>>

\* Inserts may come between the queries of a snapshot, but the rows of a breakdown
\* never exceed its total, unless a reset came between them.
BreakdownWithinTotal ==
  reader.at = "total" /\ ~reader.reset => reader.grouped <= reader.total

\* An event that is waiting in the queue is inserted, successfully or not, while
\* the store is open; and Close returns, however many handlers go on recording
\* (run, Close).  The events are interchangeable, and one of them stands for all.
EventuallyFlushed ==
  /\ LET e == CHOOSE f \in Events : TRUE IN
     e \in Elems(queue) ~> closer # "open" \/ e \notin Elems(queue) \cup Elems(batch)
  /\ closer = "waiting" ~> closer = "closed"

=============================================================================

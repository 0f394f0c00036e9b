----------------------------- MODULE FloorFetcher ---------------------------
(***************************************************************************)
(* The fetcher of dynamic price floors (floors/fetcher.go).  A request     *)
(* that misses the cache sends the URL over a bounded channel to one       *)
(* goroutine, which starts a fetch for a URL it has not seen; a worker of  *)
(* a pool fetches the floors, caches them and sends the URL back, to be    *)
(* fetched again by a later tick.  When the pool refuses a URL at a tick,  *)
(* the loop puts it back into the queue and takes it out again at once, so *)
(* that it neither ends nor reads the channel until the pool accepts it.   *)
(*                                                                         *)
(* Of the times only their effect is kept: a tick finds some of the queue  *)
(* due, and cached floors may have expired when a request looks for them.  *)
(* A fetch fails (an error, a time-out, a file that is too large or not    *)
(* valid), or it succeeds; even then the floors may not get into the cache *)
(* (they cannot be marshalled, or the cache refuses the entry).            *)
(***************************************************************************)
EXTENDS Integers, Sequences, FiniteSets

CONSTANTS URLs,        \* URLs in the configurations of accounts
          NoURL,       \* the URL of the zero value of a channel
          Requests,    \* auctions at work at a time
          PoolWorkers, \* config.Fetcher.Worker goroutines
          Capacities,  \* values of config.Fetcher.Capacity
          MaxRetries   \* config.Fetcher.MaxRetries

ASSUME FetcherAssumption ==
  /\ IsFiniteSet(URLs) /\ NoURL \notin URLs
  /\ IsFiniteSet(PoolWorkers) /\ PoolWorkers # {}
  /\ Capacities \subseteq Nat \ {0}
  /\ MaxRetries \in Nat

VARIABLES capacity,    \* of the channel and of the queue of the pool
          cached,      \* URLs with floors in the cache
          request,     \* the URL each request is sending, or NoURL
          channel,     \* configReceiver
          inProgress,  \* fetchInProgress
          queue,       \* fetchQueue: how often each job waits in it
          loop,        \* the goroutine: "select", "tick" or "ended"
          due,         \* during a tick: URLs that are due
          pool,        \* jobs that wait in the pool
          worker,      \* what each worker of the pool does
          stop,        \* steps of Stop that are done, 0 .. 3
          gaveUp       \* history: URLs that failed too often

fetcherVars == <<capacity, cached, request, channel, inProgress, queue, loop, due,
                 pool, worker, stop, gaveUp>>

Job(u, n) == [url |-> u, retry |-> n]
NoJob == Job(NoURL, 0)
AllJobs == [url : URLs \cup {NoURL}, retry : 0 .. MaxRetries]
Sent(job, refetch) == [job |-> job, refetch |-> refetch]
Busy(pc, job) == [pc |-> pc, job |-> job]
IdleWorker == Busy("idle", NoJob)

FetcherInit ==
  /\ capacity \in Capacities
  /\ cached = {}
  /\ request = [r \in Requests |-> NoURL]
  /\ channel = << >>
  /\ inProgress = {}
  /\ queue = [job \in AllJobs |-> 0]
  /\ loop = "select"
  /\ due = {}
  /\ pool = << >>
  /\ worker = [w \in PoolWorkers |-> IdleWorker]
  /\ stop = 0
  /\ gaveUp = {}

Closed == stop = 3

PoolCapacity == capacity

-----------------------------------------------------------------------------
(* Requests.                                                               *)

\* Fetch, when the floors are not in the cache or no longer; a hit changes
\* nothing.
Miss(r, u) ==
  /\ request[r] = NoURL
  /\ cached' = cached \ {u}
  /\ request' = [request EXCEPT ![r] = u]
  /\ UNCHANGED <<capacity, channel, inProgress, queue, loop, due, pool, worker, stop, gaveUp>>

\* Mutant of SendMiss: the channel has no limit.
SendMissAnyway(r) ==
  /\ request[r] # NoURL
  /\ channel' = Append(channel, Sent(Job(request[r], 0), FALSE))
  /\ request' = [request EXCEPT ![r] = NoURL]
  /\ UNCHANGED <<capacity, cached, inProgress, queue, loop, due, pool, worker, stop, gaveUp>>

\* The request waits until the channel has room; the send panics when the
\* channel is closed, and the request ends.
SendMiss(r) ==
  /\ request[r] # NoURL
  /\ Closed \/ Len(channel) < capacity
  /\ channel' = IF Closed THEN channel
                ELSE Append(channel, Sent(Job(request[r], 0), FALSE))
  /\ request' = [request EXCEPT ![r] = NoURL]
  /\ UNCHANGED <<capacity, cached, inProgress, queue, loop, due, pool, worker, stop, gaveUp>>

-----------------------------------------------------------------------------
(* The pool (pond.WorkerPool).                                             *)

IdleWorkers == {w \in PoolWorkers : worker[w] = IdleWorker}

\* A job is given to a worker only when no other job waits.
Handed == IdleWorkers # {} /\ pool = << >>

\* TrySubmit: a worker is free or the queue of the pool has room.
Accepts == stop < 2 /\ (Handed \/ Len(pool) < PoolCapacity)

Accept(job) ==
  IF Handed
  THEN /\ worker' = [worker EXCEPT ![CHOOSE w \in IdleWorkers : TRUE] = Busy("fetch", job)]
       /\ pool' = pool
  ELSE /\ pool' = Append(pool, job)
       /\ worker' = worker

\* A worker takes the next job; not once the pool is stopped.
Take(w) ==
  /\ stop < 2
  /\ worker[w] = IdleWorker
  /\ pool # << >>
  /\ worker' = [worker EXCEPT ![w] = Busy("fetch", Head(pool))]
  /\ pool' = Tail(pool)
  /\ UNCHANGED <<capacity, cached, request, channel, inProgress, queue, loop, due, stop, gaveUp>>

-----------------------------------------------------------------------------
(* The workers.                                                            *)

FetchResults == {"cached", "uncached", "failed"}

\* Mutant of Retries: every failure is the first one.
RetriesAnew(job, result) == IF result = "failed" THEN 1 ELSE 0

\* The retryCount after a fetch.
Retries(job, result) == IF result = "failed" THEN job.retry + 1 ELSE 0

\* worker, up to its send: a fetch ends, and the URL goes back to the loop
\* unless it has failed too often.
Fetched(w, result) ==
  LET job == worker[w].job
      n == Retries(job, result)
      again == n < MaxRetries
  IN /\ worker[w].pc = "fetch"
     /\ cached' = IF result = "cached" THEN cached \cup {job.url} ELSE cached
     /\ worker' = [worker EXCEPT ![w] = IF again THEN Busy("send", Job(job.url, n)) ELSE IdleWorker]
     /\ gaveUp' = IF again THEN gaveUp ELSE gaveUp \cup {job.url}
     /\ UNCHANGED <<capacity, request, channel, inProgress, queue, loop, due, pool, stop>>

\* The send, which waits for room; on a closed channel it panics, and the pool
\* goes on with the worker.
SendBack(w) ==
  /\ worker[w].pc = "send"
  /\ Closed \/ Len(channel) < capacity
  /\ channel' = IF Closed THEN channel ELSE Append(channel, Sent(worker[w].job, TRUE))
  /\ worker' = [worker EXCEPT ![w] = IdleWorker]
  /\ UNCHANGED <<capacity, cached, request, inProgress, queue, loop, due, pool, stop, gaveUp>>

-----------------------------------------------------------------------------
(* The loop (Fetcher).                                                     *)

\* Mutant of Submit: a refused job is dropped.
SubmitOrDrop(job) ==
  IF Accepts THEN Accept(job) /\ queue' = queue
  ELSE UNCHANGED <<queue, pool, worker>>

\* submit
Submit(job) ==
  IF Accepts THEN Accept(job) /\ queue' = queue
  ELSE queue' = [queue EXCEPT ![job] = @ + 1] /\ UNCHANGED <<pool, worker>>

IsNew(u) == u \notin inProgress

\* A URL from the channel; a closed channel gives zero values at its end.
Receive ==
  LET msg == IF channel = << >> THEN Sent(NoJob, FALSE) ELSE Head(channel)
      u == msg.job.url
  IN /\ loop = "select"
     /\ Closed \/ channel # << >>
     /\ channel' = IF channel = << >> THEN channel ELSE Tail(channel)
     /\ IF msg.refetch
        THEN queue' = [queue EXCEPT ![msg.job] = @ + 1] /\ UNCHANGED <<inProgress, pool, worker>>
        ELSE IF IsNew(u) THEN inProgress' = inProgress \cup {u} /\ Submit(msg.job)
        ELSE UNCHANGED <<inProgress, queue, pool, worker>>
     /\ UNCHANGED <<capacity, cached, request, loop, due, stop, gaveUp>>

InQueue == {job \in AllJobs : queue[job] > 0}

Queued == {job.url : job \in InQueue}

\* The ticker fires and finds the URLs us due.
Tick(us) ==
  /\ loop = "select"
  /\ us # {}
  /\ loop' = "tick"
  /\ due' = us
  /\ UNCHANGED <<capacity, cached, request, channel, inProgress, queue, pool, worker, stop, gaveUp>>

\* The next URL that is due is taken from the queue.  A step that the pool
\* refuses changes nothing, and the loop repeats it.
PopDue ==
  /\ loop = "tick"
  /\ Accepts
  /\ \E job \in InQueue :
       /\ job.url \in due
       /\ Accept(job)
       /\ queue' = [queue EXCEPT ![job] = @ - 1]
       /\ due' = due \ {job.url}
  /\ UNCHANGED <<capacity, cached, request, channel, inProgress, loop, stop, gaveUp>>

TickEnds ==
  /\ loop = "tick"
  /\ due = {}
  /\ loop' = "select"
  /\ UNCHANGED <<capacity, cached, request, channel, inProgress, queue, due, pool, worker, stop, gaveUp>>

\* The channel done is closed.
LoopEnds ==
  /\ loop = "select"
  /\ stop > 0
  /\ loop' = "ended"
  /\ UNCHANGED <<capacity, cached, request, channel, inProgress, queue, due, pool, worker, stop, gaveUp>>

\* Stop: done is closed, then the pool is stopped, then the channel is closed.
Stop ==
  /\ stop < 3
  /\ stop' = stop + 1
  /\ UNCHANGED <<capacity, cached, request, channel, inProgress, queue, loop, due, pool, worker, gaveUp>>

Loop == Receive \/ PopDue \/ TickEnds \/ LoopEnds

FetcherNext ==
  \/ Loop \/ Stop
  \/ \E us \in SUBSET Queued : Tick(us)
  \/ \E r \in Requests : SendMiss(r) \/ \E u \in URLs : Miss(r, u)
  \/ \E w \in PoolWorkers : Take(w) \/ SendBack(w) \/ \E result \in FetchResults : Fetched(w, result)

FetcherSpec == FetcherInit /\ [][FetcherNext]_fetcherVars

\* The goroutines run, a fetch ends at its time-out at the latest, select takes
\* every case that is ready again and again, and a channel serves the senders
\* that wait in their order.  Nobody has to request or stop.
Fairness ==
  /\ SF_fetcherVars(Receive) /\ WF_fetcherVars(PopDue \/ TickEnds)
  /\ SF_fetcherVars(LoopEnds)
  /\ \A u \in URLs : SF_fetcherVars(\E us \in SUBSET Queued : u \in us /\ Tick(us))
  /\ \A r \in Requests : SF_fetcherVars(SendMiss(r))
  /\ \A w \in PoolWorkers :
       /\ WF_fetcherVars(Take(w) \/ \E result \in FetchResults : Fetched(w, result))
       /\ SF_fetcherVars(SendBack(w))

FetcherFairSpec == FetcherSpec /\ Fairness

-----------------------------------------------------------------------------

FetcherTypeOK ==
  /\ capacity \in Capacities
  /\ cached \subseteq URLs
  /\ request \in [Requests -> URLs \cup {NoURL}]
  /\ channel \in Seq([job : AllJobs, refetch : BOOLEAN]) /\ Len(channel) <= capacity
  /\ inProgress \subseteq URLs \cup {NoURL}
  /\ queue \in [AllJobs -> Nat]
  /\ loop \in {"select", "tick", "ended"}
  /\ due \subseteq URLs \cup {NoURL}
  /\ pool \in Seq(AllJobs) /\ Len(pool) <= capacity
  /\ worker \in [PoolWorkers -> [pc : {"idle", "fetch", "send"}, job : AllJobs]]
  /\ stop \in 0 .. 3
  /\ gaveUp \subseteq URLs

\* The copies of jobs of a URL in the queue.
Copies(u) ==
  UNION {{<<job, k>> : k \in 1 .. queue[job]} : job \in {j \in AllJobs : j.url = u}}

\* The number of jobs of a URL: sent back, in the queue, in the pool, at work.
Jobs(u) ==
  Cardinality({i \in DOMAIN channel : channel[i].refetch /\ channel[i].job.url = u})
  + Cardinality(Copies(u))
  + Cardinality({i \in DOMAIN pool : pool[i].url = u})
  + Cardinality({w \in PoolWorkers : worker[w].job.url = u})

\* However many requests miss the cache at once, a URL is fetched by one job at
\* a time; and it keeps its job until it has failed MaxRetries times in a row:
\* nothing that the pool refuses or that waits for the channel is lost (Fetcher,
\* submit, worker).
OneJobPerURL ==
  \A u \in URLs : Jobs(u) <= 1 /\ (stop < 3 => (Jobs(u) = 1 <=> u \in inProgress \ gaveUp))

\* The loop waits for the pool, the workers for the channel, and the channel
\* for the loop; or the pool was stopped during a tick.
Wedged ==
  /\ loop = "tick" /\ due # {} /\ ~Accepts
  /\ stop >= 2 \/ (Len(channel) = capacity /\ \A w \in PoolWorkers : worker[w].pc = "send")

\* A fetch of the URL has succeeded, and its worker is about to send it back.
Succeeded(u) == \E w \in PoolWorkers : worker[w] = Busy("send", Job(u, 0))

\* A request that misses the cache gets its URL fetched with success in the end, or
\* the URL has failed too often, or the fetcher is stopped or wedged (Fetch,
\* worker).  It may miss again: the floors expire, and may not have been cached.
\* After the last failure a URL is not fetched again, whoever asks for it.  The
\* URLs are interchangeable, and one of them stands for all.
MissesAreFetched ==
  LET u == CHOOSE v \in URLs : TRUE IN
  (\E r \in Requests : request[r] = u) ~> (Succeeded(u) \/ u \in gaveUp \/ stop > 0 \/ Wedged)

=============================================================================

----------------------------- MODULE Impressions ----------------------------
(***************************************************************************)
(* What a served ad leaves behind and what its impression beacons do with  *)
(* it (ORTBEndpoint and VASTEndpoint after the auction, ImpressionEndpoint,*)
(* impressionDeduper, the clean-up of the 30 s ticker, the stats reset, in *)
(* endpoints/video_pipeline.go), in one process.                           *)
(*                                                                         *)
(* Time is counted in units shorter than every time-to-live.  Handlers of  *)
(* beacons and the clean-up interleave between their locks and may take    *)
(* any number of ticks: a beacon waits for the event log, the statistics   *)
(* and the queue of metrics before it comes to its BURL.  An auction has   *)
(* one bid, so it stands for the impressionKey.  All auctions share one    *)
(* publisher and one bucket of each dimension.                             *)
(***************************************************************************)
EXTENDS Integers, FiniteSets

CONSTANTS Auctions, Handlers, None,
          BurlTTL,    \* ExpiresAt of a pending BURL (5 min)
          DedupTTL,   \* firedImpressions is kept that long (10 min)
          DimTTL,     \* auctionDims is kept that long (30 min)
          MaxTime, MaxBeacons, MaxResets

ASSUME TimeAssumption ==
  /\ BurlTTL \in Nat \ {0} /\ DedupTTL \in Nat /\ DimTTL \in Nat
  /\ BurlTTL <= DedupTTL /\ DedupTTL <= DimTTL
  /\ MaxTime \in Nat /\ MaxBeacons \in Nat /\ MaxResets \in Nat /\ None \notin Nat

VARIABLES now,
          fill,        \* what the request of each auction has done
          pending,     \* pendingBURLs: ExpiresAt
          dims,        \* auctionDims: born
          seen,        \* firedImpressions: seenAt
          pub, dim,    \* impressions of the publisher; [opp, imp] of a dimension
          pc, key, at, cached, \* of each beacon handler: step, auction, its now, dk # nil
          cleaner, cutNow,     \* the ticker goroutine, and its now
          beacons, resets,
          counts, last,        \* how often an auction was counted; when the last such beacon came
          expires,             \* ExpiresAt of the BURL, also when it is gone
          owed, billed,        \* whether the BURL "no", "may" or "must" be called; its calls
          recounts             \* repeated counts since the last reset

handlerVars == <<pc, key, at, cached>>
storeVars == <<pending, dims, seen, pub, dim>>
cleanVars == <<cleaner, cutNow>>
history == <<counts, last, expires, owed, billed, recounts>>
vars == <<now, fill, storeVars, handlerVars, cleanVars, beacons, resets, history>>

Init ==
  /\ now = 0 /\ fill = [a \in Auctions |-> "none"]
  /\ pending = [a \in Auctions |-> None] /\ dims = [a \in Auctions |-> None]
  /\ seen = [a \in Auctions |-> None]
  /\ pub = 0 /\ dim = [opp |-> 0, imp |-> 0]
  /\ pc = [h \in Handlers |-> "idle"] /\ key = [h \in Handlers |-> None]
  /\ at = [h \in Handlers |-> 0] /\ cached = [h \in Handlers |-> FALSE]
  /\ cleaner = "idle" /\ cutNow = 0 /\ beacons = 0 /\ resets = 0
  /\ counts = [a \in Auctions |-> 0] /\ last = [a \in Auctions |-> None]
  /\ expires = [a \in Auctions |-> None]
  /\ owed = [a \in Auctions |-> "no"] /\ billed = [a \in Auctions |-> 0]
  /\ recounts = 0

Tick ==
  /\ now < MaxTime
  /\ now' = now + 1
  /\ UNCHANGED <<fill, storeVars, handlerVars, cleanVars, beacons, resets, history>>
-----------------------------------------------------------------------------
\* The winner of the auction is known.  ORTBEndpoint caches its BURL, if it has
\* one; VASTEndpoint leaves it in the document.
StoreBURL(a) ==
  /\ fill[a] = "none"
  /\ fill' = [fill EXCEPT ![a] = "won"]
  /\ \E t \in {now + BurlTTL, None} :
       pending' = [pending EXCEPT ![a] = t] /\ expires' = [expires EXCEPT ![a] = t]
  /\ UNCHANGED <<now, dims, seen, pub, dim, handlerVars, cleanVars, beacons, resets,
                 counts, last, owed, billed, recounts>>

\* incDimFill, under one lock; then the response is written.
CacheDims(a) ==
  /\ fill[a] = "won"
  /\ fill' = [fill EXCEPT ![a] = "served"]
  /\ dims' = [dims EXCEPT ![a] = now]
  /\ dim' = [dim EXCEPT !.opp = @ + 1]
  /\ UNCHANGED <<now, pending, seen, pub, handlerVars, cleanVars, beacons, resets, history>>
-----------------------------------------------------------------------------
\* The beacon of a served ad arrives: a first time, again from a wrapper chain or
\* a retry, early or late.
Arrive(h, a) ==
  /\ fill[a] = "served" /\ pc[h] = "idle" /\ beacons < MaxBeacons
  /\ beacons' = beacons + 1
  /\ pc' = [pc EXCEPT ![h] = "arrived"]
  /\ key' = [key EXCEPT ![h] = a] /\ at' = [at EXCEPT ![h] = now]
  /\ UNCHANGED <<now, fill, storeVars, cached, cleanVars, resets, history>>

Ends(h) ==
  /\ pc' = [pc EXCEPT ![h] = "idle"] /\ key' = [key EXCEPT ![h] = None]
  /\ at' = [at EXCEPT ![h] = 0] /\ cached' = [cached EXCEPT ![h] = FALSE]

\* The beacon of h came before the BURL of its auction expired.
InTime(h) == expires[key[h]] # None /\ at[h] < expires[key[h]]

\* SeenOrAdd: a duplicate ends here.
SeenOrAdd(h) ==
  LET a == key[h] IN
  /\ pc[h] = "arrived"
  /\ IF seen[a] # None
     THEN Ends(h) /\ UNCHANGED <<seen, history>>
     ELSE /\ seen' = [seen EXCEPT ![a] = at[h]]
          /\ pc' = [pc EXCEPT ![h] = "new"]
          /\ counts' = [counts EXCEPT ![a] = @ + 1] /\ last' = [last EXCEPT ![a] = at[h]]
          /\ owed' = [owed EXCEPT ![a] = IF @ = "no" /\ InTime(h) THEN "may" ELSE @]
          /\ recounts' = IF counts[a] > 0 THEN recounts + 1 ELSE recounts
          /\ UNCHANGED <<key, at, cached, expires, billed>>
  /\ UNCHANGED <<now, fill, pending, dims, pub, dim, cleanVars, beacons, resets>>

\* incDimImpression, for a bucket that exists.
CreditDim(h) ==
  /\ pc[h] = "new"
  /\ pc' = [pc EXCEPT ![h] = "credited"]
  /\ cached' = [cached EXCEPT ![h] = dims[key[h]] # None]
  /\ dim' = IF dims[key[h]] # None /\ dim.opp > 0 THEN [dim EXCEPT !.imp = @ + 1] ELSE dim
  /\ UNCHANGED <<now, fill, pending, dims, seen, pub, key, at, cleanVars, beacons, resets,
                 history>>

\* Mutant of CreditPub: the placement has to be registered even if dk is known.
CreditPubIfRegistered(h) ==
  /\ pc[h] = "credited"
  /\ pc' = [pc EXCEPT ![h] = "counted"]
  /\ \E registered \in BOOLEAN : pub' = IF registered THEN pub + 1 ELSE pub
  /\ UNCHANGED <<now, fill, pending, dims, seen, dim, key, at, cached, cleanVars, beacons,
                 resets, history>>

\* incImpressionBatch for the publisher cached with the auction, or else of the
\* placement's configuration, which may be gone.
CreditPub(h) ==
  /\ pc[h] = "credited"
  /\ pc' = [pc EXCEPT ![h] = "counted"]
  /\ \E registered \in BOOLEAN : pub' = IF cached[h] \/ registered THEN pub + 1 ELSE pub
  /\ UNCHANGED <<now, fill, pending, dims, seen, dim, key, at, cached, cleanVars, beacons,
                 resets, history>>

\* LoadAndDelete of the pending BURL, which is called if it has not expired.
Bill(h) ==
  LET a == key[h] IN
  /\ pc[h] = "counted"
  /\ pending' = [pending EXCEPT ![a] = None]
  /\ billed' = IF pending[a] # None /\ at[h] < pending[a]
               THEN [billed EXCEPT ![a] = @ + 1] ELSE billed
  /\ owed' = IF InTime(h) /\ now <= expires[a] THEN [owed EXCEPT ![a] = "must"] ELSE owed
  /\ Ends(h)
  /\ UNCHANGED <<now, fill, dims, seen, pub, dim, cleanVars, beacons, resets,
                 counts, last, expires, recounts>>
-----------------------------------------------------------------------------
\* Entries older than the limit are dropped.
Evict(map, limit) ==
  [a \in Auctions |-> IF map[a] # None /\ map[a] < limit THEN None ELSE map[a]]

\* The ticker: save() forgets old auctions under the mutex of the statistics ...
EvictDims ==
  /\ cleaner = "idle" /\ \E a \in Auctions : fill[a] # "none"
  /\ dims' = Evict(dims, now - DimTTL)
  /\ cleaner' = "burls" /\ cutNow' = now
  /\ UNCHANGED <<now, fill, pending, seen, pub, dim, handlerVars, beacons, resets, history>>

\* Mutant of EvictBURLs: a BURL is dropped at the moment it expires.
EvictBURLsAtExpiry ==
  /\ cleaner = "burls"
  /\ cutNow' \in cutNow .. now
  /\ pending' = Evict(pending, cutNow' + 1)
  /\ cleaner' = "seen"
  /\ UNCHANGED <<now, fill, dims, seen, pub, dim, handlerVars, beacons, resets, history>>

\* ... then the clock is read, some time after, and expired BURLs are dropped ...
EvictBURLs ==
  /\ cleaner = "burls"
  /\ cutNow' \in cutNow .. now
  /\ pending' = Evict(pending, cutNow')
  /\ cleaner' = "seen"
  /\ UNCHANGED <<now, fill, dims, seen, pub, dim, handlerVars, beacons, resets, history>>

\* Mutant of EvictSeen: the time-to-live of the BURLs is used.
EvictSeenEarly ==
  /\ cleaner = "seen"
  /\ seen' = Evict(seen, cutNow - BurlTTL)
  /\ cleaner' = "idle" /\ cutNow' = 0
  /\ UNCHANGED <<now, fill, pending, dims, pub, dim, handlerVars, beacons, resets, history>>

\* ... and CleanupBefore forgets old beacons.
EvictSeen ==
  /\ cleaner = "seen"
  /\ seen' = Evict(seen, cutNow - DedupTTL)
  /\ cleaner' = "idle" /\ cutNow' = 0
  /\ UNCHANGED <<now, fill, pending, dims, pub, dim, handlerVars, beacons, resets, history>>

\* Mutant of Reset: the auctions are not forgotten.
ResetKeepsDims ==
  /\ resets < MaxResets
  /\ resets' = resets + 1
  /\ pub' = 0 /\ dim' = [opp |-> 0, imp |-> 0] /\ recounts' = 0
  /\ UNCHANGED <<now, fill, pending, dims, seen, handlerVars, cleanVars, beacons,
                 counts, last, expires, owed, billed>>

\* reset clears the counters and the cached auctions together.
Reset ==
  /\ resets < MaxResets
  /\ resets' = resets + 1
  /\ pub' = 0 /\ dim' = [opp |-> 0, imp |-> 0] /\ recounts' = 0
  /\ dims' = [a \in Auctions |-> None]
  /\ UNCHANGED <<now, fill, pending, seen, handlerVars, cleanVars, beacons,
                 counts, last, expires, owed, billed>>

Next ==
  \/ Tick \/ EvictDims \/ EvictBURLs \/ EvictSeen \/ Reset
  \/ \E a \in Auctions : StoreBURL(a) \/ CacheDims(a) \/ \E h \in Handlers : Arrive(h, a)
  \/ \E h \in Handlers : SeenOrAdd(h) \/ CreditDim(h) \/ CreditPub(h) \/ Bill(h)

Spec == Init /\ [][Next]_vars
-----------------------------------------------------------------------------
Times == 0 .. MaxTime + BurlTTL
MaybeTime(t) == t = None \/ t \in Times

TypeOK ==
  /\ now \in 0 .. MaxTime
  /\ fill \in [Auctions -> {"none", "won", "served"}]
  /\ \A a \in Auctions : MaybeTime(pending[a]) /\ MaybeTime(dims[a]) /\ MaybeTime(seen[a])
  /\ pub \in 0 .. MaxBeacons /\ dim.opp \in 0 .. Cardinality(Auctions) /\ dim.imp \in 0 .. MaxBeacons
  /\ pc \in [Handlers -> {"idle", "arrived", "new", "credited", "counted"}]
  /\ \A h \in Handlers : key[h] = None \/ key[h] \in Auctions
  /\ cached \in [Handlers -> BOOLEAN] /\ cleaner \in {"idle", "burls", "seen"}
  /\ counts \in [Auctions -> 0 .. MaxBeacons] /\ billed \in [Auctions -> 0 .. MaxBeacons]

\* Beacons of the same auction_id:bid_id that arrive within the time-to-live are
\* counted once, whatever the interleaving of handlers and clean-up: a second
\* count comes more than DedupTTL after the beacon counted before arrived.
CountsFarApart ==
  [][\A a \in Auctions :
       counts[a] > 0 /\ counts'[a] # counts[a] => now - last[a] > DedupTTL]_vars

\* The BURL is called at most once, only if a counted beacon arrived before it
\* expired, and certainly if the handler of such a beacon came to it by then.
\* Neither a duplicate, a recount after the time-to-live, nor the clean-up at
\* any moment changes that.  Of a beacon that arrived in time and whose handler
\* comes to the BURL after it expired, the clean-up may have dropped it.
BilledOnceIfDue ==
  \A a \in Auctions :
    /\ billed[a] <= 1
    /\ billed[a] = 1 => owed[a] # "no"
    /\ owed[a] = "must" => billed[a] = 1

\* A dimension bucket never shows more impressions than opportunities, repeated
\* counts aside, even if the statistics are reset while auctions are in flight.
DimensionsBacked == dim.imp <= dim.opp + recounts

\* Every impression of a dimension is one of the publisher, as soon as the
\* handlers that credit both have finished, also across a reset.
DimensionsWithinPublisher ==
  dim.imp <= pub + Cardinality({h \in Handlers : pc[h] = "credited" /\ cached[h]})

\* "deduplicates impression beacon fires so the same auction_id:bid_id pair is
\* only counted once".
CountedOnce == \A a \in Auctions : counts[a] <= 1
=============================================================================

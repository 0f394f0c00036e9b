-------------------------- MODULE ImpressionsProofs -------------------------
(***************************************************************************)
(* Impression counting and billing for every number of auctions, beacons   *)
(* and handlers and every time-to-live, however long a handler or the      *)
(* clean-up takes between two of its steps: beacons within the             *)
(* time-to-live are counted once, and the BURL is called at most once, for *)
(* a beacon in time, and for certain while it has not expired.             *)
(***************************************************************************)
EXTENDS Impressions, TLAPS

Time == Nat \cup {None}

Typed ==
  /\ now \in Nat /\ cutNow \in Nat
  /\ fill \in [Auctions -> {"none", "won", "served"}]
  /\ pending \in [Auctions -> Time] /\ seen \in [Auctions -> Time]
  /\ pc \in [Handlers -> {"idle", "arrived", "new", "credited", "counted"}]
  /\ key \in [Handlers -> Auctions \cup {None}] /\ at \in [Handlers -> Nat]
  /\ counts \in [Auctions -> Nat] /\ last \in [Auctions -> Time]
  /\ expires \in [Auctions -> Time] /\ owed \in [Auctions -> {"no", "may", "must"}]
  /\ billed \in [Auctions -> Nat]

\* Handlers that SeenOrAdd has let through.
Past(h) == pc[h] \in {"new", "credited", "counted"}

\* A handler works on an auction that was served, and its beacon arrived after
\* the BURL was stored; the clean-up read the clock before.
Timely ==
  /\ \A a \in Auctions : expires[a] # None => expires[a] <= now + BurlTTL
  /\ \A h \in Handlers : pc[h] # "idle" =>
       /\ key[h] \in Auctions /\ fill[key[h]] = "served" /\ at[h] <= now
       /\ expires[key[h]] # None => expires[key[h]] <= at[h] + BurlTTL
  /\ cleaner # "idle" => cutNow <= now

\* What is remembered about an auction that was counted: when it is forgotten,
\* the time-to-live has passed, and so has that of the BURL.
Spaced ==
  /\ \A a \in Auctions : counts[a] > 0 =>
       /\ last[a] \in Nat
       /\ seen[a] = None => now - last[a] > DedupTTL
       /\ seen[a] # None => last[a] = seen[a]
       /\ expires[a] # None => expires[a] <= last[a] + BurlTTL
  /\ \A h \in Handlers : Past(h) => counts[key[h]] > 0
  /\ \A a \in Auctions : fill[a] # "served" => counts[a] = 0

\* A BURL is called once, for a beacon in time.
BillingOf(a) ==
  /\ pending[a] \in {None, expires[a]}
  /\ fill[a] = "none" => expires[a] = None /\ owed[a] = "no"
  /\ billed[a] \in {0, 1} /\ (billed[a] = 1 => pending[a] = None /\ owed[a] # "no")
  /\ owed[a] = "must" => billed[a] = 1
  /\ \A h \in Handlers : Past(h) /\ key[h] = a /\ InTime(h) => owed[a] # "no"

\* Until it expires, it is there for the only handler let through.
OpenOf(a) ==
  expires[a] # None /\ now <= expires[a] =>
    /\ counts[a] = 0 => pending[a] = expires[a]
    /\ \A h \in Handlers : Past(h) /\ key[h] = a => pending[a] = expires[a]
    /\ \A g, h \in Handlers : Past(g) /\ Past(h) /\ key[g] = a /\ key[h] = a => g = h

Billing == \A a \in Auctions : BillingOf(a) /\ OpenOf(a)

IInv == Typed /\ Timely /\ Spaced /\ Billing

LEMMA InitIInv == Init => IInv
  <1> SUFFICES ASSUME Init PROVE IInv
    OBVIOUS
  <1>1. Typed /\ Timely
    BY TimeAssumption DEF Init, Typed, Time, Timely
  <1>2. Spaced /\ Billing
    BY DEF Init, Spaced, Past, Billing, BillingOf, OpenOf, InTime
  <1> QED
    BY <1>1, <1>2 DEF IInv

\* What a step leaves alone of the handlers let through.
SamePast ==
  \A h \in Handlers : /\ Past(h)' <=> Past(h)
                      /\ Past(h) => key'[h] = key[h] /\ at'[h] = at[h]

\* A step that neither stores nor takes a BURL and lets no handler through.
LEMMA QuietBilling ==
  ASSUME IInv, now' \in Nat, now <= now', UNCHANGED <<pending, counts, expires, owed, billed>>,
         \A a \in Auctions : fill'[a] = "none" => fill[a] = "none", SamePast
  PROVE  Billing'
  <1> SUFFICES ASSUME NEW a \in Auctions PROVE BillingOf(a)' /\ OpenOf(a)'
    BY DEF Billing
  <1>0. BillingOf(a) /\ OpenOf(a)
    BY DEF IInv, Billing
  <1>1. \A h \in Handlers : Past(h) /\ key[h] = a => (InTime(h)' <=> InTime(h))
    BY Zenon DEF InTime, SamePast
  <1>2. BillingOf(a)'
    BY Zenon, <1>0, <1>1 DEF BillingOf, SamePast
  <1>3. expires[a] # None /\ now' <= expires[a] => now <= expires[a]
    BY DEF IInv, Typed, Time
  <1>4. OpenOf(a)'
    BY Zenon, <1>0, <1>3 DEF OpenOf, SamePast
  <1> QED
    BY <1>2, <1>4

LEMMA TickIInv == IInv /\ Tick => IInv'
  <1> SUFFICES ASSUME IInv, Tick PROVE IInv'
    OBVIOUS
  <1>1. now \in Nat /\ now' = now + 1 /\ cutNow \in Nat
    BY DEF Tick, IInv, Typed
  <1>2. UNCHANGED <<fill, pending, seen, pc, key, at, cleaner, cutNow, counts, last, expires, owed, billed>>
    BY DEF Tick, storeVars, handlerVars, cleanVars, history
  <1>3. Typed'
    BY <1>1, <1>2 DEF IInv, Typed
  <1>4. Timely'
    BY <1>1, <1>2, TimeAssumption DEF IInv, Typed, Time, Timely
  <1>5. Spaced'
    <2> SUFFICES ASSUME NEW a \in Auctions, counts[a] > 0, seen[a] = None
                 PROVE  now' - last[a] > DedupTTL
      BY Zenon, <1>2 DEF IInv, Spaced, Past
    <2> QED
      BY <1>1, TimeAssumption DEF IInv, Spaced
  <1>6. now <= now' /\ SamePast
    BY <1>1, <1>2 DEF SamePast, Past
  <1>7. Billing'
    BY <1>1, <1>2, <1>6, QuietBilling
  <1> QED
    BY <1>3, <1>4, <1>5, <1>7 DEF IInv

\* The winner's BURL is stored: no handler can be at work for the auction yet.
LEMMA StoreIInv ==
  ASSUME IInv, NEW a \in Auctions, StoreBURL(a)
  PROVE  IInv'
  <1>1. UNCHANGED <<now, seen, pc, key, at, cleaner, cutNow, counts, last, owed, billed>>
    BY DEF StoreBURL, handlerVars, cleanVars
  <1>2. PICK t \in {now + BurlTTL, None} :
          pending' = [pending EXCEPT ![a] = t] /\ expires' = [expires EXCEPT ![a] = t]
    BY Zenon DEF StoreBURL
  <1>3. fill[a] = "none" /\ fill' = [fill EXCEPT ![a] = "won"]
    BY DEF StoreBURL
  <1>4. t \in Time /\ now \in Nat
    BY <1>2, TimeAssumption DEF IInv, Typed, Time
  <1>5. /\ pending'[a] = t /\ expires'[a] = t /\ fill'[a] = "won"
        /\ \A b \in Auctions : b # a => /\ pending'[b] = pending[b] /\ expires'[b] = expires[b]
                                        /\ fill'[b] = fill[b]
    BY Zenon, <1>2, <1>3 DEF IInv, Typed
  <1>6. \A h \in Handlers : pc[h] # "idle" => key[h] # a /\ key[h] \in Auctions
    BY <1>3 DEF IInv, Timely
  <1>7. Typed'
    BY Zenon, <1>1, <1>2, <1>3, <1>4 DEF IInv, Typed
  <1>8. Timely'
    <2>1. \A b \in Auctions : expires'[b] # None => expires'[b] <= now + BurlTTL
      BY <1>2, <1>4, <1>5, TimeAssumption DEF IInv, Timely
    <2> QED
      BY Zenon, <1>1, <1>5, <1>6, <2>1 DEF IInv, Timely
  <1>9. counts[a] = 0
    BY <1>3 DEF IInv, Spaced
  <1>10. Spaced'
    <2>1. \A b \in Auctions : counts[b] > 0 => b # a
      BY <1>9
    <2>2. \A b \in Auctions : fill'[b] # "served" => fill[b] # "served" \/ b = a
      BY Zenon, <1>5
    <2> QED
      BY Zenon, <1>1, <1>5, <1>9, <2>1, <2>2 DEF IInv, Spaced, Past
  <1>11. Billing'
    <2> SUFFICES ASSUME NEW b \in Auctions PROVE BillingOf(b)' /\ OpenOf(b)'
      BY DEF Billing
    <2>0. BillingOf(b) /\ OpenOf(b)
      BY DEF IInv, Billing
    <2>1. \A h \in Handlers : (Past(h)' <=> Past(h)) /\ (Past(h) => pc[h] # "idle")
      BY <1>1 DEF Past
    <2>2. CASE b # a
      <3>1. \A h \in Handlers : key[h] = b => (InTime(h)' <=> InTime(h))
        BY Zenon, <1>1, <1>5, <2>2 DEF InTime
      <3> QED
        BY Zenon, <1>1, <1>5, <2>0, <2>1, <2>2, <3>1 DEF BillingOf, OpenOf
    <2>3. CASE b = a
      <3>1. \A h \in Handlers : ~(Past(h) /\ key[h] = a)
        BY Zenon, <1>6, <2>1
      <3>2. owed[a] = "no" /\ billed[a] \in {0, 1} /\ billed[a] # 1
        BY Zenon, <1>3, <2>0, <2>3 DEF BillingOf
      <3> QED
        BY Zenon, <1>1, <1>5, <2>1, <2>3, <3>1, <3>2 DEF BillingOf, OpenOf
    <2> QED
      BY Zenon, <2>2, <2>3
  <1> QED
    BY <1>7, <1>8, <1>10, <1>11 DEF IInv

\* The response is written.
LEMMA CacheIInv ==
  ASSUME IInv, NEW a \in Auctions, CacheDims(a)
  PROVE  IInv'
  <1>1. /\ UNCHANGED <<now, pending, seen, pc, key, at, cleaner, cutNow, counts, last, expires,
                       owed, billed>>
        /\ fill[a] = "won" /\ fill' = [fill EXCEPT ![a] = "served"]
    BY DEF CacheDims, handlerVars, cleanVars, history
  <1>2. /\ fill'[a] = "served"
        /\ \A b \in Auctions : b # a => fill'[b] = fill[b]
    BY Zenon, <1>1 DEF IInv, Typed
  <1>3. Typed'
    BY Zenon, <1>1 DEF IInv, Typed
  <1>4. Timely' /\ Spaced'
    <2>1. \A b \in Auctions : fill[b] = "served" => fill'[b] = "served"
      BY Zenon, <1>2
    <2>2. Timely'
      BY Zenon, <1>1, <2>1 DEF IInv, Timely
    <2>3. Spaced'
      BY Zenon, <1>1, <2>1 DEF IInv, Spaced, Past
    <2> QED
      BY <2>2, <2>3
  <1>5. SamePast /\ \A b \in Auctions : fill'[b] = "none" => fill[b] = "none"
    BY <1>1, <1>2 DEF SamePast, Past
  <1>6. now' \in Nat /\ now <= now'
    BY <1>1 DEF IInv, Typed
  <1>7. Billing'
    BY Zenon, <1>1, <1>5, <1>6, QuietBilling
  <1> QED
    BY <1>3, <1>4, <1>7 DEF IInv

\* A beacon arrives, or SeenOrAdd finds it to be a duplicate and its handler ends.
LEMMA PassingIInv ==
  ASSUME IInv, NEW h \in Handlers,
         \/ \E a \in Auctions : Arrive(h, a)
         \/ SeenOrAdd(h) /\ seen[key[h]] # None
  PROVE  IInv'
  <1>1. UNCHANGED <<now, fill, pending, seen, cleaner, cutNow, counts, last, expires, owed, billed>>
    BY Zenon DEF Arrive, SeenOrAdd, storeVars, cleanVars, history
  <1>2. now \in Nat /\ now <= now' /\ now' \in Nat
    BY <1>1 DEF IInv, Typed
  <1>3. Typed'
    <2>1. CASE \E a \in Auctions : Arrive(h, a)
      <3>1. PICK a \in Auctions : /\ pc' = [pc EXCEPT ![h] = "arrived"]
                                  /\ key' = [key EXCEPT ![h] = a] /\ at' = [at EXCEPT ![h] = now]
        BY Zenon, <2>1 DEF Arrive
      <3> QED
        BY <1>1, <1>2, <3>1 DEF IInv, Typed
    <2>2. CASE SeenOrAdd(h) /\ seen[key[h]] # None
      <3>1. Ends(h)
        BY Zenon, <2>2 DEF SeenOrAdd
      <3> QED
        BY <1>1, <3>1 DEF IInv, Typed, Ends
    <2> QED
      BY <2>1, <2>2
  <1>4. /\ \A g \in Handlers : g # h => pc'[g] = pc[g] /\ key'[g] = key[g] /\ at'[g] = at[g]
        /\ pc[h] \in {"idle", "arrived"} /\ pc'[h] \in {"idle", "arrived"}
        /\ pc'[h] = "arrived" => key'[h] \in Auctions /\ fill[key'[h]] = "served" /\ at'[h] = now
    BY DEF Arrive, SeenOrAdd, Ends, IInv, Typed
  <1>5. Timely'
    <2>1. \A g \in Handlers : pc'[g] # "idle" =>
            /\ key'[g] \in Auctions /\ fill[key'[g]] = "served" /\ at'[g] <= now
            /\ expires[key'[g]] # None => expires[key'[g]] <= at'[g] + BurlTTL
      <3> SUFFICES ASSUME NEW g \in Handlers, pc'[g] # "idle"
                   PROVE  /\ key'[g] \in Auctions /\ fill[key'[g]] = "served" /\ at'[g] <= now
                          /\ expires[key'[g]] # None => expires[key'[g]] <= at'[g] + BurlTTL
        BY Zenon
      <3>1. CASE g # h
        BY <1>4, <3>1 DEF IInv, Timely
      <3>2. CASE g = h
        <4>1. key'[h] \in Auctions /\ fill[key'[h]] = "served" /\ at'[h] = now
          BY <1>4, <3>2
        <4> QED
          BY <1>2, <3>2, <4>1 DEF IInv, Timely
      <3> QED
        BY <3>1, <3>2
    <2> QED
      BY Zenon, <1>1, <2>1 DEF IInv, Timely
  <1>6. SamePast
    <2>1. ~Past(h) /\ ~Past(h)'
      BY <1>4 DEF Past
    <2> QED
      BY Zenon, <1>4, <2>1 DEF SamePast, Past
  <1>7. Spaced'
    BY Zenon, <1>1, <1>6 DEF IInv, Spaced, SamePast
  <1>8. Billing'
    BY Zenon, <1>1, <1>2, <1>6, QuietBilling
  <1> QED
    BY <1>3, <1>5, <1>7, <1>8 DEF IInv

\* SeenOrAdd lets a beacon through: the last count, if any, is long ago, and the
\* BURL has expired since.
LEMMA CountIInv ==
  ASSUME IInv, NEW h \in Handlers, SeenOrAdd(h), seen[key[h]] = None
  PROVE  IInv' /\ (counts[key[h]] > 0 => now - last[key[h]] > DedupTTL)
  <1>0. PICK a : a = key[h]
    OBVIOUS
  <1>1. /\ UNCHANGED <<now, fill, pending, cleaner, cutNow, key, at, expires, billed>>
        /\ pc[h] = "arrived" /\ pc' = [pc EXCEPT ![h] = "new"]
        /\ seen' = [seen EXCEPT ![a] = at[h]]
        /\ counts' = [counts EXCEPT ![a] = @ + 1] /\ last' = [last EXCEPT ![a] = at[h]]
        /\ owed' = [owed EXCEPT ![a] = IF @ = "no" /\ InTime(h) THEN "may" ELSE @]
    BY Zenon, <1>0 DEF SeenOrAdd, cleanVars
  <1>2. /\ a \in Auctions /\ fill[a] = "served" /\ at[h] <= now
        /\ now \in Nat /\ at[h] \in Nat /\ at[h] # None /\ counts[a] \in Nat
        /\ expires[a] # None => expires[a] <= at[h] + BurlTTL
    BY <1>0, <1>1, TimeAssumption DEF IInv, Typed, Timely
  <1>3. /\ \A b \in Auctions : b # a => /\ seen'[b] = seen[b] /\ counts'[b] = counts[b]
                                        /\ last'[b] = last[b] /\ owed'[b] = owed[b]
        /\ seen'[a] = at[h] /\ counts'[a] = counts[a] + 1 /\ last'[a] = at[h]
        /\ owed'[a] = IF owed[a] = "no" /\ InTime(h) THEN "may" ELSE owed[a]
        /\ \A g \in Handlers : pc'[g] = IF g = h THEN "new" ELSE pc[g]
    BY Zenon, <1>1, <1>2 DEF IInv, Typed
  <1>4. Typed'
    <2>1. counts' \in [Auctions -> Nat]
      BY <1>1, <1>2 DEF IInv, Typed
    <2>2. last' \in [Auctions -> Time] /\ seen' \in [Auctions -> Time]
      BY Zenon, <1>1, <1>2 DEF IInv, Typed, Time
    <2>3. owed' \in [Auctions -> {"no", "may", "must"}]
      BY <1>1, <1>2 DEF IInv, Typed
    <2>4. pc' \in [Handlers -> {"idle", "arrived", "new", "credited", "counted"}]
      BY Zenon, <1>1 DEF IInv, Typed
    <2> QED
      BY Zenon, <1>1, <2>1, <2>2, <2>3, <2>4 DEF IInv, Typed
  <1>5. Timely'
    <2>1. \A g \in Handlers : pc'[g] # "idle" => pc[g] # "idle"
      BY Zenon, <1>1, <1>3
    <2> QED
      BY Zenon, <1>1, <2>1 DEF IInv, Timely
  <1>6. /\ \A g \in Handlers : Past(g)' <=> Past(g) \/ g = h
        /\ ~Past(h)
        /\ \A g \in Handlers : InTime(g)' <=> InTime(g)
    BY <1>1, <1>3 DEF Past, InTime
  <1>7. counts'[a] > 0 /\ \A b \in Auctions : counts[b] > 0 => counts'[b] > 0
    BY <1>2, <1>3
  <1>8. Spaced'
    <2>1. \A g \in Handlers : Past(g)' => counts'[key'[g]] > 0
      <3>1. \A g \in Handlers : Past(g) => key[g] \in Auctions /\ counts[key[g]] > 0
        BY DEF IInv, Timely, Spaced, Past
      <3> QED
        BY Zenon, <1>0, <1>1, <1>6, <1>7, <3>1
    <2>2. \A b \in Auctions : fill'[b] # "served" => counts'[b] = 0
      BY ZenonT(30), <1>1, <1>2, <1>3 DEF IInv, Spaced
    <2>3. ASSUME NEW b \in Auctions, counts'[b] > 0
          PROVE  /\ last'[b] \in Nat
                 /\ seen'[b] = None => now - last'[b] > DedupTTL
                 /\ seen'[b] # None => last'[b] = seen'[b]
                 /\ expires[b] # None => expires[b] <= last'[b] + BurlTTL
      <3>1. CASE b = a
        BY <1>2, <1>3, <3>1
      <3>2. CASE b # a
        BY <1>3, <2>3, <3>2 DEF IInv, Spaced
      <3> QED
        BY <3>1, <3>2
    <2> QED
      BY Zenon, <1>1, <2>1, <2>2, <2>3 DEF Spaced
  <1>9. counts[a] > 0 => now - last[a] > DedupTTL
    BY <1>0, <1>2 DEF IInv, Spaced
  <1>10. expires[a] # None /\ now <= expires[a] => counts[a] = 0
    <2> SUFFICES ASSUME expires[a] # None, counts[a] > 0 PROVE ~(now <= expires[a])
      BY <1>2
    <2>1. last[a] \in Nat /\ expires[a] \in Nat /\ expires[a] <= last[a] + BurlTTL
      BY <1>2 DEF IInv, Spaced, Typed, Time
    <2> QED
      BY <1>2, <1>9, <2>1, TimeAssumption
  <1>11. Billing'
    <2> SUFFICES ASSUME NEW b \in Auctions PROVE BillingOf(b)' /\ OpenOf(b)'
      BY DEF Billing
    <2>0. BillingOf(b) /\ OpenOf(b)
      BY DEF IInv, Billing
    <2>1. CASE b # a
      <3>1. \A g \in Handlers : key[g] = b => (Past(g)' <=> Past(g))
        BY Zenon, <1>0, <1>6, <2>1
      <3> QED
        BY Zenon, <1>1, <1>3, <1>6, <2>0, <2>1, <3>1 DEF BillingOf, OpenOf
    <2>2. CASE b = a
      <3>1. /\ owed[a] # "no" => owed'[a] = owed[a]
            /\ InTime(h) => owed'[a] # "no"
            /\ owed'[a] = "must" => owed[a] = "must"
        BY <1>3
      <3>2. \A g \in Handlers : Past(g)' /\ key[g] = a /\ InTime(g) => owed'[a] # "no"
        BY Zenon, <1>6, <2>0, <2>2, <3>1 DEF BillingOf
      <3>3. BillingOf(a)'
        BY Zenon, <1>1, <1>2, <1>6, <2>0, <2>2, <3>1, <3>2 DEF BillingOf
      <3>4. counts'[a] # 0
        BY <1>2, <1>3
      <3>5. counts[a] = 0 => \A g \in Handlers : ~(Past(g) /\ key[g] = a)
        BY DEF IInv, Spaced
      <3>6. OpenOf(a)'
        BY Zenon, <1>1, <1>6, <1>10, <2>0, <2>2, <3>4, <3>5 DEF OpenOf
      <3> QED
        BY <2>2, <3>3, <3>6
    <2> QED
      BY <2>1, <2>2
  <1> QED
    BY Zenon, <1>0, <1>4, <1>5, <1>8, <1>9, <1>11 DEF IInv

LEMMA CreditIInv ==
  ASSUME IInv, NEW h \in Handlers, CreditDim(h) \/ CreditPub(h)
  PROVE  IInv'
  <1>1. /\ UNCHANGED <<now, fill, pending, seen, key, at, cleaner, cutNow, counts, last, expires,
                       owed, billed>>
        /\ Past(h) /\ \E p \in {"credited", "counted"} : pc' = [pc EXCEPT ![h] = p]
    BY DEF CreditDim, CreditPub, cleanVars, history, Past
  <1>2. Typed'
    BY <1>1 DEF IInv, Typed
  <1>3. Timely'
    BY <1>1 DEF IInv, Typed, Timely, Past
  <1>4. SamePast
    BY <1>1 DEF SamePast, Past, IInv, Typed
  <1>5. Spaced'
    BY Zenon, <1>1, <1>4 DEF IInv, Spaced, SamePast
  <1>6. now' \in Nat /\ now <= now'
    BY <1>1 DEF IInv, Typed
  <1>7. Billing'
    BY Zenon, <1>1, <1>4, <1>6, QuietBilling
  <1> QED
    BY <1>2, <1>3, <1>5, <1>7 DEF IInv

\* A handler takes the BURL: it is there if it has not expired.
LEMMA BillIInv ==
  ASSUME IInv, NEW h \in Handlers, Bill(h)
  PROVE  IInv'
  <1>0. PICK a : a = key[h]
    OBVIOUS
  <1> DEFINE Called == pending[a] # None /\ at[h] < pending[a]
             Due == InTime(h) /\ now <= expires[a]
  <1>1. /\ UNCHANGED <<now, fill, seen, cleaner, cutNow, counts, last, expires>>
        /\ pc[h] = "counted" /\ Ends(h)
        /\ pending' = [pending EXCEPT ![a] = None]
        /\ billed' = IF Called THEN [billed EXCEPT ![a] = @ + 1] ELSE billed
        /\ owed' = IF Due THEN [owed EXCEPT ![a] = "must"] ELSE owed
    BY Zenon, <1>0 DEF Bill, cleanVars
  <1>2. a \in Auctions /\ fill[a] = "served" /\ Past(h)
    BY Zenon, <1>0, <1>1 DEF IInv, Timely, Past
  <1>3. /\ InTime(h) <=> expires[a] # None /\ at[h] < expires[a]
        /\ BillingOf(a) /\ OpenOf(a)
    BY <1>0, <1>2 DEF InTime, IInv, Billing
  <1>4. Called => InTime(h) /\ owed[a] # "no" /\ billed[a] = 0
    <2>1. Called => pending[a] = expires[a] /\ InTime(h)
      BY Zenon, <1>3 DEF BillingOf
    <2> QED
      BY Zenon, <1>0, <1>2, <1>3, <2>1 DEF BillingOf
  <1>5. Due => Called \/ billed[a] = 1
    <2>1. Due => pending[a] = expires[a]
      BY Zenon, <1>0, <1>2, <1>3 DEF OpenOf
    <2> QED
      BY Zenon, <1>3, <2>1
  <1> HIDE DEF Called, Due
  <1>6. /\ \A b \in Auctions : b # a => /\ pending'[b] = pending[b] /\ billed'[b] = billed[b]
                                        /\ owed'[b] = owed[b]
        /\ pending'[a] = None
        /\ Due => owed'[a] = "must"
        /\ ~Due => owed'[a] = owed[a]
        /\ ~Called => billed'[a] = billed[a]
    BY <1>1, <1>2 DEF IInv, Typed
  <1>7. Called => billed'[a] = 1
    BY <1>1, <1>2, <1>4 DEF IInv, Typed
  <1>8. Typed'
    <2>1. pending' \in [Auctions -> Time] /\ owed' \in [Auctions -> {"no", "may", "must"}]
      BY Zenon, <1>1 DEF IInv, Typed, Time
    <2>2. billed' \in [Auctions -> Nat]
      BY <1>1, <1>2 DEF IInv, Typed
    <2>3. /\ pc' \in [Handlers -> {"idle", "arrived", "new", "credited", "counted"}]
          /\ key' \in [Handlers -> Auctions \cup {None}] /\ at' \in [Handlers -> Nat]
      BY <1>1 DEF IInv, Typed, Ends
    <2> QED
      BY Zenon, <1>1, <2>1, <2>2, <2>3 DEF IInv, Typed
  <1>9. /\ \A g \in Handlers : g # h => pc'[g] = pc[g] /\ key'[g] = key[g] /\ at'[g] = at[g]
        /\ pc'[h] = "idle"
    BY Zenon, <1>1 DEF IInv, Typed, Ends
  <1>10. /\ \A g \in Handlers : Past(g)' <=> Past(g) /\ g # h
         /\ \A g \in Handlers : g # h => (InTime(g)' <=> InTime(g))
    BY <1>1, <1>9 DEF Past, InTime
  <1>11. Timely'
    <2>1. \A g \in Handlers : pc'[g] # "idle" =>
            pc[g] # "idle" /\ key'[g] = key[g] /\ at'[g] = at[g]
      BY Zenon, <1>9
    <2> QED
      BY Zenon, <1>1, <2>1 DEF IInv, Timely
  <1>12. Spaced'
    BY Zenon, <1>1, <1>9, <1>10 DEF IInv, Spaced
  <1>13. Billing'
    <2> SUFFICES ASSUME NEW b \in Auctions PROVE BillingOf(b)' /\ OpenOf(b)'
      BY DEF Billing
    <2>0. BillingOf(b) /\ OpenOf(b)
      BY DEF IInv, Billing
    <2>1. CASE b # a
      <3>1. \A g \in Handlers : Past(g) /\ key[g] = b => Past(g)'
        BY Zenon, <1>0, <1>10, <2>1
      <3> QED
        BY ZenonT(30), <1>1, <1>6, <1>9, <1>10, <2>0, <2>1 DEF BillingOf, OpenOf
    <2>2. CASE b = a
      <3>1. \A g \in Handlers : Past(g)' /\ key'[g] = a => Past(g) /\ key[g] = a /\ g # h
        BY Zenon, <1>9, <1>10
      <3>2. owed[a] # "no" => owed'[a] # "no"
        BY <1>6
      <3>3. billed'[a] \in {0, 1} /\ (billed'[a] = 1 => owed'[a] # "no")
        BY Zenon, <1>3, <1>4, <1>6, <1>7, <3>2 DEF BillingOf
      <3>4. owed'[a] = "must" => billed'[a] = 1
        BY Zenon, <1>3, <1>5, <1>6, <1>7 DEF BillingOf, Called
      <3>5. BillingOf(a)'
        BY Zenon, <1>1, <1>2, <1>3, <1>6, <1>10, <3>1, <3>2, <3>3, <3>4 DEF BillingOf
      <3>6. expires[a] # None /\ now <= expires[a] => \A g \in Handlers : ~(Past(g)' /\ key'[g] = a)
        BY Zenon, <1>0, <1>2, <1>3, <3>1 DEF OpenOf
      <3>7. counts[a] # 0
        BY <1>0, <1>2 DEF IInv, Spaced
      <3>8. OpenOf(a)'
        BY Zenon, <1>1, <3>6, <3>7 DEF OpenOf
      <3> QED
        BY <2>2, <3>5, <3>8
    <2> QED
      BY <2>1, <2>2
  <1> QED
    BY <1>8, <1>11, <1>12, <1>13 DEF IInv

\* Expired BURLs are dropped, and no other.
LEMMA EvictBURLsIInv ==
  ASSUME IInv, EvictBURLs
  PROVE  IInv'
  <1>1. /\ UNCHANGED <<now, fill, seen, pc, key, at, counts, last, expires, owed, billed>>
        /\ cleaner = "burls" /\ cleaner' = "seen" /\ cutNow' \in cutNow .. now
        /\ \A a \in Auctions :
             pending'[a] = IF pending[a] # None /\ pending[a] < cutNow' THEN None ELSE pending[a]
    BY DEF EvictBURLs, Evict, handlerVars, history
  <1>2. cutNow' \in Nat /\ cutNow' <= now /\ now \in Nat
    BY <1>1 DEF IInv, Typed
  <1>3. Typed'
    <2>1. pending' \in [Auctions -> Time]
      BY Zenon DEF EvictBURLs, Evict, IInv, Typed, Time
    <2> QED
      BY Zenon, <1>1, <1>2, <2>1 DEF IInv, Typed
  <1>4. Timely' /\ Spaced'
    BY Zenon, <1>1, <1>2 DEF IInv, Timely, Spaced, Past
  <1>5. Billing'
    <2> SUFFICES ASSUME NEW a \in Auctions PROVE BillingOf(a)' /\ OpenOf(a)'
      BY DEF Billing
    <2>0. BillingOf(a) /\ OpenOf(a)
      BY DEF IInv, Billing
    <2>1. \A h \in Handlers : (Past(h)' <=> Past(h)) /\ (InTime(h)' <=> InTime(h))
      BY <1>1 DEF Past, InTime
    <2>2. pending'[a] \in {None, pending[a]}
      BY <1>1
    <2>3. BillingOf(a)'
      BY Zenon, <1>1, <2>0, <2>1, <2>2 DEF BillingOf
    <2>4. expires[a] # None /\ now <= expires[a] /\ pending[a] = expires[a] =>
            pending'[a] = pending[a]
      <3>1. expires[a] \in Nat \cup {None}
        BY DEF IInv, Typed, Time
      <3> QED
        BY <1>1, <1>2, <3>1
    <2>5. OpenOf(a)'
      BY Zenon, <1>1, <2>0, <2>1, <2>4 DEF OpenOf
    <2> QED
      BY <2>3, <2>5
  <1> QED
    BY <1>3, <1>4, <1>5 DEF IInv

\* Old beacons are forgotten.
LEMMA EvictSeenIInv ==
  ASSUME IInv, EvictSeen
  PROVE  IInv'
  <1>1. /\ UNCHANGED <<now, fill, pending, pc, key, at, counts, last, expires, owed, billed>>
        /\ cleaner = "seen" /\ cleaner' = "idle" /\ cutNow' = 0
        /\ \A a \in Auctions :
             seen'[a] = IF seen[a] # None /\ seen[a] < cutNow - DedupTTL THEN None ELSE seen[a]
    BY DEF EvictSeen, Evict, handlerVars, history
  <1>2. cutNow \in Nat /\ now \in Nat /\ cutNow <= now /\ DedupTTL \in Nat
    BY <1>1, TimeAssumption DEF IInv, Typed, Timely
  <1>3. Typed'
    <2>1. seen' \in [Auctions -> Time]
      BY Zenon DEF EvictSeen, Evict, IInv, Typed, Time
    <2> QED
      BY Zenon, <1>1, <2>1 DEF IInv, Typed
  <1>4. Timely'
    BY Zenon, <1>1 DEF IInv, Timely
  <1>5. Spaced'
    <2> SUFFICES ASSUME NEW a \in Auctions, counts[a] > 0
        PROVE  /\ seen'[a] = None => now - last[a] > DedupTTL
               /\ seen'[a] # None => last[a] = seen'[a]
      BY Zenon, <1>1 DEF IInv, Spaced, Past
    <2>1. /\ last[a] \in Nat /\ (seen[a] = None => now - last[a] > DedupTTL)
          /\ (seen[a] # None => last[a] = seen[a]) /\ seen[a] \in Nat \cup {None}
      BY DEF IInv, Spaced, Typed, Time
    <2> QED
      BY <1>1, <1>2, <2>1, TimeAssumption
  <1>6. SamePast /\ now' \in Nat /\ now <= now'
    BY <1>1, <1>2 DEF SamePast, Past
  <1>7. Billing'
    BY Zenon, <1>1, <1>6, QuietBilling
  <1> QED
    BY <1>3, <1>4, <1>5, <1>7 DEF IInv

\* save() and reset touch only the statistics.
LEMMA StatsIInv ==
  ASSUME IInv, EvictDims \/ Reset
  PROVE  IInv'
  <1>1. /\ UNCHANGED <<now, fill, pending, seen, pc, key, at, counts, last, expires, owed, billed>>
        /\ cutNow' \in {now, cutNow} /\ (cleaner' # "idle" => cutNow' = now \/ UNCHANGED cleanVars)
    BY Zenon DEF EvictDims, Reset, handlerVars, cleanVars, history
  <1>2. Typed' /\ now' \in Nat /\ now <= now'
    <2>1. Typed'
      BY Zenon, <1>1 DEF IInv, Typed
    <2> QED
      BY <1>1, <2>1 DEF IInv, Typed
  <1>3. Timely'
    BY <1>1 DEF IInv, Typed, Timely, cleanVars
  <1>4. Spaced' /\ SamePast
    BY Zenon, <1>1 DEF IInv, Spaced, SamePast, Past
  <1>5. Billing'
    BY Zenon, <1>1, <1>2, <1>4, QuietBilling
  <1> QED
    BY <1>2, <1>3, <1>4, <1>5 DEF IInv

\* A step that counts an auction again does so long after the beacon counted
\* before arrived.
Apart == \A a \in Auctions : counts[a] > 0 /\ counts'[a] # counts[a] => now - last[a] > DedupTTL

LEMMA StepIInv ==
  ASSUME IInv, [Next]_vars
  PROVE  IInv' /\ Apart
  <1>1. CASE UNCHANGED vars
    <2>1. UNCHANGED <<now, fill, pending, seen, pc, key, at, cleaner, cutNow, counts, last, expires,
                      owed, billed>>
      BY <1>1 DEF vars, storeVars, handlerVars, cleanVars, history
    <2>2. Typed' /\ Timely' /\ Spaced' /\ SamePast
      BY Zenon, <2>1 DEF IInv, Typed, Timely, Spaced, Past, SamePast
    <2>3. now' \in Nat /\ now <= now'
      BY <2>1 DEF IInv, Typed
    <2>4. Billing'
      BY Zenon, <2>1, <2>2, <2>3, QuietBilling
    <2> QED
      BY Zenon, <2>1, <2>2, <2>4 DEF IInv, Apart
  <1>2. CASE Tick \/ EvictDims \/ EvictBURLs \/ EvictSeen \/ Reset
    <2>1. IInv'
      BY <1>2, TickIInv, EvictBURLsIInv, EvictSeenIInv, StatsIInv
    <2>2. counts' = counts
      BY Zenon, <1>2 DEF Tick, EvictDims, EvictBURLs, EvictSeen, Reset, history
    <2> QED
      BY <2>1, <2>2 DEF Apart
  <1>3. ASSUME NEW a \in Auctions, StoreBURL(a) \/ CacheDims(a) PROVE IInv' /\ Apart
    <2>1. counts' = counts
      BY <1>3 DEF StoreBURL, CacheDims, history
    <2> QED
      BY <1>3, <2>1, StoreIInv, CacheIInv DEF Apart
  <1>4. ASSUME NEW a \in Auctions, NEW h \in Handlers, Arrive(h, a) PROVE IInv' /\ Apart
    <2>1. counts' = counts
      BY <1>4 DEF Arrive, history
    <2> QED
      BY <1>4, <2>1, PassingIInv DEF Apart
  <1>5. ASSUME NEW h \in Handlers, CreditDim(h) \/ CreditPub(h) \/ Bill(h) PROVE IInv' /\ Apart
    <2>1. counts' = counts
      BY <1>5 DEF CreditDim, CreditPub, Bill, history
    <2> QED
      BY <1>5, <2>1, CreditIInv, BillIInv DEF Apart
  <1>6. ASSUME NEW h \in Handlers, SeenOrAdd(h) PROVE IInv' /\ Apart
    <2>1. CASE seen[key[h]] # None
      <3>1. counts' = counts
        BY Zenon, <1>6, <2>1 DEF SeenOrAdd, history
      <3> QED
        BY <1>6, <2>1, <3>1, PassingIInv DEF Apart
    <2>2. CASE seen[key[h]] = None
      <3>1. IInv' /\ (counts[key[h]] > 0 => now - last[key[h]] > DedupTTL)
        BY Zenon, <1>6, <2>2, CountIInv
      <3>2. \A a \in Auctions : a # key[h] => counts'[a] = counts[a]
        BY Zenon, <1>6, <2>2 DEF SeenOrAdd, IInv, Typed
      <3> QED
        BY <3>1, <3>2 DEF Apart
    <2> QED
      BY <2>1, <2>2
  <1> QED
    BY <1>1, <1>2, <1>3, <1>4, <1>5, <1>6 DEF Next

LEMMA Invariance == Spec => []IInv
  <1>1. IInv /\ [Next]_vars => IInv'
    BY StepIInv
  <1> QED
    BY <1>1, InitIInv, PTL DEF Spec

\* ImpressionEndpoint counts beacons of one auction_id:bid_id that come within the
\* time-to-live once, whatever handlers and clean-up interleave and however long
\* they take.
THEOREM CountsFarApartHolds == Spec => CountsFarApart
  <1>1. IInv /\ [Next]_vars => [Apart]_vars
    BY StepIInv
  <1> QED
    BY <1>1, Invariance, PTL DEF Spec, CountsFarApart, Apart

\* The BURL of an auction is called at most once, only for a beacon that arrived
\* before it expired, and for certain if the handler of such a beacon comes to it
\* by then (LoadAndDelete in ImpressionEndpoint against the ticker's clean-up).
THEOREM BilledOnceIfDueHolds == Spec => []BilledOnceIfDue
  <1>1. IInv => BilledOnceIfDue
    <2> SUFFICES ASSUME IInv, NEW a \in Auctions
                 PROVE  /\ billed[a] <= 1
                        /\ billed[a] = 1 => owed[a] # "no"
                        /\ owed[a] = "must" => billed[a] = 1
      BY DEF BilledOnceIfDue
    <2>1. BillingOf(a)
      BY DEF IInv, Billing
    <2> QED
      BY <2>1 DEF BillingOf
  <1> QED
    BY <1>1, Invariance, PTL
-----------------------------------------------------------------------------
INSTANCE FiniteSetTheorems

\* How the size of a set that changes by at most one element is bounded.
LEMMA SmallerSet ==
  ASSUME NEW S, NEW T, IsFiniteSet(S), T \subseteq S
  PROVE  /\ IsFiniteSet(T) /\ Cardinality(T) \in Nat /\ Cardinality(S) \in Nat
         /\ Cardinality(T) <= Cardinality(S)
  BY FS_Subset, FS_CardinalityType

LEMMA OneMore ==
  ASSUME NEW S, NEW T, NEW x, IsFiniteSet(S), T \subseteq S \cup {x}
  PROVE  /\ IsFiniteSet(T) /\ Cardinality(T) \in Nat /\ Cardinality(S) \in Nat
         /\ Cardinality(T) <= Cardinality(S) + 1
  <1>1. IsFiniteSet(S \cup {x}) /\ Cardinality(S \cup {x}) \in {Cardinality(S), Cardinality(S) + 1}
    BY FS_AddElement
  <1>2. /\ Cardinality(S) \in Nat /\ IsFiniteSet(T) /\ Cardinality(T) \in Nat
        /\ Cardinality(T) <= Cardinality(S \cup {x})
    BY <1>1, SmallerSet, FS_CardinalityType
  <1> QED
    BY <1>1, <1>2

LEMMA OneLess ==
  ASSUME NEW S, NEW T, NEW x \in S, IsFiniteSet(S), T \subseteq S \ {x}
  PROVE  /\ IsFiniteSet(T) /\ Cardinality(T) \in Nat /\ Cardinality(S) \in Nat
         /\ Cardinality(T) + 1 <= Cardinality(S)
  <1>1. IsFiniteSet(S \ {x}) /\ Cardinality(S \ {x}) = Cardinality(S) - 1
    BY FS_RemoveElement
  <1>2. /\ Cardinality(S) \in Nat /\ IsFiniteSet(T) /\ Cardinality(T) \in Nat
        /\ Cardinality(T) <= Cardinality(S \ {x})
    BY <1>1, SmallerSet, FS_CardinalityType
  <1> QED
    BY <1>1, <1>2

\* Handlers that have credited the dimension and not yet the publisher; handlers
\* about to credit the dimension; cached auctions nobody has counted.
Crediting == {h \in Handlers : pc[h] = "credited" /\ cached[h]}
AboutToCredit == {h \in Handlers : pc[h] = "new" /\ dims[key[h]] # None}
Uncounted == {a \in Auctions : dims[a] # None /\ counts[a] = 0}

Counters ==
  /\ pub \in Nat /\ recounts \in Nat /\ dim \in [opp : Nat, imp : Nat]
  /\ dims \in [Auctions -> Time] /\ cached \in [Handlers -> BOOLEAN]
  /\ \A a \in Auctions : fill[a] # "served" => counts[a] = 0
  /\ IsFiniteSet(Crediting) /\ IsFiniteSet(AboutToCredit) /\ IsFiniteSet(Uncounted)

\* Every opportunity is spent at most once: by an impression, by a handler that is
\* about to credit it, or by a cached auction that may still be counted.
Backed ==
  dim.imp + Cardinality(AboutToCredit) + Cardinality(Uncounted) <= dim.opp + recounts

DimInv == Counters /\ DimensionsWithinPublisher /\ Backed

LEMMA InitDim == Init => DimInv
  <1> SUFFICES ASSUME Init PROVE DimInv
    OBVIOUS
  <1>1. Crediting = {} /\ AboutToCredit = {} /\ Uncounted = {}
    BY Zenon DEF Init, Crediting, AboutToCredit, Uncounted
  <1>2. Counters
    BY Zenon, <1>1, FS_EmptySet DEF Init, Counters, Time
  <1>3. dim.imp = 0 /\ dim.opp = 0 /\ pub = 0 /\ recounts = 0
    BY Zenon DEF Init
  <1>4. DimensionsWithinPublisher
    <2>1. dim.imp <= pub + Cardinality(Crediting)
      BY <1>1, <1>3, FS_EmptySet
    <2> QED
      BY Zenon, <2>1 DEF DimensionsWithinPublisher, Crediting
  <1>5. Backed
    BY <1>1, <1>3, FS_EmptySet DEF Backed
  <1> QED
    BY <1>2, <1>4, <1>5 DEF DimInv

LEMMA DimFacts ==
  ASSUME DimInv
  PROVE  /\ pub \in Nat /\ recounts \in Nat /\ dim \in [opp : Nat, imp : Nat]
         /\ dim.opp \in Nat /\ dim.imp \in Nat /\ dims \in [Auctions -> Time]
         /\ cached \in [Handlers -> BOOLEAN]
         /\ IsFiniteSet(Crediting) /\ IsFiniteSet(AboutToCredit) /\ IsFiniteSet(Uncounted)
         /\ Cardinality(Crediting) \in Nat /\ Cardinality(AboutToCredit) \in Nat
         /\ Cardinality(Uncounted) \in Nat
         /\ dim.imp <= pub + Cardinality(Crediting)
         /\ dim.imp + Cardinality(AboutToCredit) + Cardinality(Uncounted) <= dim.opp + recounts
  BY Zenon, FS_CardinalityType DEF DimInv, Counters, DimensionsWithinPublisher, Backed, Crediting

\* A step that credits nothing, and after which no more handlers and auctions wait.
LEMMA QuietDim ==
  ASSUME DimInv, UNCHANGED <<pub, dim, recounts>>, dims' \in [Auctions -> Time],
         cached' \in [Handlers -> BOOLEAN], \A a \in Auctions : fill'[a] # "served" => counts'[a] = 0,
         Crediting' = Crediting, AboutToCredit' \subseteq AboutToCredit,
         Uncounted' \subseteq Uncounted
  PROVE  DimInv'
  <1>1. /\ IsFiniteSet(AboutToCredit') /\ Cardinality(AboutToCredit') \in Nat
        /\ Cardinality(AboutToCredit') <= Cardinality(AboutToCredit)
    BY Zenon, DimFacts, SmallerSet
  <1>2. /\ IsFiniteSet(Uncounted') /\ Cardinality(Uncounted') \in Nat
        /\ Cardinality(Uncounted') <= Cardinality(Uncounted)
    BY Zenon, DimFacts, SmallerSet
  <1>3. Counters'
    BY Zenon, <1>1, <1>2, DimFacts DEF Counters
  <1>4. Backed'
    BY <1>1, <1>2, DimFacts DEF Backed
  <1>5. DimensionsWithinPublisher'
    BY Zenon, DimFacts DEF DimensionsWithinPublisher, Crediting
  <1> QED
    BY Zenon, <1>3, <1>4, <1>5 DEF DimInv

\* The fill of an auction adds an opportunity and an auction to count.
LEMMA CacheDimsDim ==
  ASSUME IInv, DimInv, NEW a \in Auctions, CacheDims(a)
  PROVE  DimInv'
  <1>1. /\ UNCHANGED <<pub, recounts, pc, key, cached, counts>>
        /\ fill[a] = "won" /\ fill' = [fill EXCEPT ![a] = "served"]
        /\ dims' = [dims EXCEPT ![a] = now] /\ dim' = [dim EXCEPT !.opp = @ + 1]
    BY DEF CacheDims, handlerVars, history
  <1>2. \A h \in Handlers : pc[h] # "idle" => key[h] \in Auctions /\ key[h] # a
    BY <1>1 DEF IInv, Timely
  <1>3. dims' \in [Auctions -> Time] /\ \A b \in Auctions : b # a => dims'[b] = dims[b]
    BY <1>1, DimFacts DEF IInv, Typed, Time
  <1>4. Crediting' = Crediting /\ AboutToCredit' = AboutToCredit
    BY <1>1, <1>2, <1>3 DEF Crediting, AboutToCredit
  <1>5. Uncounted' \subseteq Uncounted \cup {a}
    BY <1>1, <1>3 DEF Uncounted
  <1>6. /\ IsFiniteSet(Uncounted') /\ Cardinality(Uncounted') \in Nat
        /\ Cardinality(Uncounted') <= Cardinality(Uncounted) + 1
    BY Zenon, <1>5, DimFacts, OneMore
  <1>7. dim' \in [opp : Nat, imp : Nat] /\ dim'.opp = dim.opp + 1 /\ dim'.imp = dim.imp
    BY <1>1, DimFacts
  <1>8. \A b \in Auctions : fill'[b] # "served" => counts'[b] = 0
    BY <1>1 DEF IInv, Typed, DimInv, Counters
  <1>9. Counters'
    BY <1>1, <1>3, <1>4, <1>6, <1>7, <1>8, DimFacts DEF Counters
  <1>10. Backed'
    BY <1>1, <1>4, <1>6, <1>7, DimFacts DEF Backed
  <1>11. DimensionsWithinPublisher'
    BY <1>1, <1>4, <1>7, DimFacts DEF DimensionsWithinPublisher, Crediting
  <1> QED
    BY <1>9, <1>10, <1>11 DEF DimInv

\* A beacon let through takes the place of its auction, or is a repeated count.
LEMMA CountDim ==
  ASSUME IInv, DimInv, NEW h \in Handlers, SeenOrAdd(h), seen[key[h]] = None
  PROVE  DimInv'
  <1> DEFINE a == key[h]
  <1>1. /\ UNCHANGED <<pub, dim, fill, dims, key, cached>>
        /\ pc[h] = "arrived" /\ pc' = [pc EXCEPT ![h] = "new"]
        /\ counts' = [counts EXCEPT ![a] = @ + 1]
        /\ recounts' = IF counts[a] > 0 THEN recounts + 1 ELSE recounts
    BY Zenon DEF SeenOrAdd
  <1>2. a \in Auctions /\ fill[a] = "served" /\ counts \in [Auctions -> Nat]
    BY Zenon, <1>1 DEF IInv, Typed, Timely
  <1> HIDE DEF a
  <1>3. /\ \A g \in Handlers : pc'[g] = IF g = h THEN "new" ELSE pc[g]
        /\ \A b \in Auctions : counts'[b] = IF b = a THEN counts[b] + 1 ELSE counts[b]
    BY Zenon, <1>1, <1>2 DEF IInv, Typed
  <1>4. Crediting' = Crediting
    BY <1>1, <1>3 DEF Crediting
  <1>5. Uncounted' \subseteq Uncounted \ {a}
    BY <1>1, <1>2, <1>3 DEF Uncounted
  <1>6. \A b \in Auctions : fill'[b] # "served" => counts'[b] = 0
    BY Zenon, <1>1, <1>2, <1>3 DEF DimInv, Counters
  <1>7. recounts' \in Nat /\ recounts' >= recounts
    BY <1>1, <1>2, DimFacts
  <1>8. DimensionsWithinPublisher'
    BY Zenon, <1>1, <1>4, DimFacts DEF DimensionsWithinPublisher, Crediting
  <1>9. CASE dims[a] = None
    <2>1. AboutToCredit' = AboutToCredit
      BY Zenon, <1>1, <1>3, <1>9 DEF AboutToCredit, a
    <2>2. /\ IsFiniteSet(Uncounted') /\ Cardinality(Uncounted') \in Nat
          /\ Cardinality(Uncounted') <= Cardinality(Uncounted)
      BY Zenon, <1>5, DimFacts, SmallerSet
    <2>3. Counters'
      BY ZenonT(30), <1>1, <1>4, <1>6, <1>7, <2>1, <2>2, DimFacts DEF Counters
    <2>4. Backed'
      BY <1>1, <1>7, <2>1, <2>2, DimFacts DEF Backed
    <2> QED
      BY <1>8, <2>3, <2>4 DEF DimInv
  <1>10. CASE dims[a] # None
    <2>1. AboutToCredit' \subseteq AboutToCredit \cup {h}
      BY Zenon, <1>1, <1>3 DEF AboutToCredit
    <2>2. /\ IsFiniteSet(AboutToCredit') /\ Cardinality(AboutToCredit') \in Nat
          /\ Cardinality(AboutToCredit') <= Cardinality(AboutToCredit) + 1
      BY Zenon, <2>1, DimFacts, OneMore
    <2>3. /\ IsFiniteSet(Uncounted') /\ Cardinality(Uncounted') \in Nat
          /\ Cardinality(Uncounted') <= Cardinality(Uncounted)
      BY Zenon, <1>5, DimFacts, SmallerSet
    <2>4. Counters'
      BY ZenonT(30), <1>1, <1>4, <1>6, <1>7, <2>2, <2>3, DimFacts DEF Counters
    <2>5. CASE counts[a] > 0
      BY <1>1, <2>2, <2>3, <2>4, <2>5, <1>8, DimFacts DEF Backed, DimInv
    <2>6. CASE counts[a] = 0
      <3>1. a \in Uncounted
        BY Zenon, <1>2, <1>10, <2>6 DEF Uncounted
      <3>2. Cardinality(Uncounted') + 1 <= Cardinality(Uncounted)
        BY ZenonT(30), <1>5, <3>1, DimFacts, OneLess
      <3>3. Backed'
        BY <1>1, <1>7, <2>2, <2>3, <3>2, DimFacts DEF Backed
      <3> QED
        BY <2>4, <3>3, <1>8 DEF DimInv
    <2> QED
      BY <2>5, <2>6, <1>2
  <1> QED
    BY <1>9, <1>10

\* incDimImpression spends the handler's opportunity.
LEMMA CreditDimDim ==
  ASSUME IInv, DimInv, NEW h \in Handlers, CreditDim(h)
  PROVE  DimInv'
  <1> DEFINE known == dims[key[h]] # None
  <1>1. /\ UNCHANGED <<pub, recounts, fill, dims, key, counts>>
        /\ pc[h] = "new" /\ pc' = [pc EXCEPT ![h] = "credited"]
        /\ cached' = [cached EXCEPT ![h] = known]
        /\ dim' = IF known /\ dim.opp > 0 THEN [dim EXCEPT !.imp = @ + 1] ELSE dim
    BY DEF CreditDim, history
  <1>2. \A g \in Handlers : pc'[g] = IF g = h THEN "credited" ELSE pc[g]
    BY <1>1 DEF IInv, Typed
  <1>3. AboutToCredit' \subseteq AboutToCredit \ {h} /\ Uncounted' = Uncounted
    BY <1>1, <1>2 DEF AboutToCredit, Uncounted
  <1>4. \A b \in Auctions : fill'[b] # "served" => counts'[b] = 0
    BY <1>1 DEF DimInv, Counters
  <1>5. /\ IsFiniteSet(AboutToCredit') /\ Cardinality(AboutToCredit') \in Nat
        /\ Cardinality(AboutToCredit') <= Cardinality(AboutToCredit)
        /\ known => Cardinality(AboutToCredit') + 1 <= Cardinality(AboutToCredit)
    <2>1. known => h \in AboutToCredit
      BY Zenon, <1>1 DEF AboutToCredit
    <2> QED
      BY Zenon, <1>3, <2>1, DimFacts, SmallerSet, OneLess
  <1>6. /\ dim' \in [opp : Nat, imp : Nat] /\ dim'.opp = dim.opp
        /\ dim'.imp = dim.imp \/ (known /\ dim'.imp = dim.imp + 1)
    BY <1>1, DimFacts
  <1>7. cached' \in [Handlers -> BOOLEAN]
    BY <1>1, Zenon DEF DimInv, Counters
  <1>8. /\ \A g \in Handlers : g # h => cached'[g] = cached[g]
        /\ cached'[h] <=> known
    BY <1>1, Zenon DEF DimInv, Counters
  <1>9. Backed'
    BY <1>1, <1>3, <1>5, <1>6, DimFacts DEF Backed
  <1> HIDE DEF known
  <1>10. /\ h \notin Crediting
         /\ known => Crediting' = Crediting \cup {h}
         /\ ~known => Crediting' = Crediting
    BY <1>1, <1>2, <1>8 DEF Crediting
  <1>11. /\ IsFiniteSet(Crediting')
         /\ Cardinality(Crediting') = IF known THEN Cardinality(Crediting) + 1
                                               ELSE Cardinality(Crediting)
    BY <1>10, DimFacts, FS_AddElement
  <1>12. dim'.imp <= pub' + Cardinality(Crediting')
    BY <1>1, <1>6, <1>11, DimFacts
  <1>13. DimensionsWithinPublisher'
    BY <1>12 DEF DimensionsWithinPublisher, Crediting
  <1>14. Counters'
    BY <1>1, <1>3, <1>4, <1>5, <1>6, <1>7, <1>11, DimFacts DEF Counters
  <1> QED
    BY <1>9, <1>13, <1>14 DEF DimInv

\* incImpressionBatch counts for the publisher whatever the dimension was credited.
LEMMA CreditPubDim ==
  ASSUME IInv, DimInv, NEW h \in Handlers, CreditPub(h)
  PROVE  DimInv'
  <1>1. /\ UNCHANGED <<dim, recounts, fill, dims, key, counts, cached>>
        /\ pc[h] = "credited" /\ pc' = [pc EXCEPT ![h] = "counted"]
        /\ pub' \in {pub, pub + 1} /\ (cached[h] => pub' = pub + 1)
    BY DEF CreditPub, history
  <1>2. \A g \in Handlers : pc'[g] = IF g = h THEN "counted" ELSE pc[g]
    BY <1>1 DEF IInv, Typed
  <1>3. AboutToCredit' = AboutToCredit /\ Uncounted' = Uncounted
    BY <1>1, <1>2 DEF AboutToCredit, Uncounted
  <1>4. Crediting' = Crediting \ {h} /\ (h \in Crediting => cached[h])
    BY <1>1, <1>2 DEF Crediting
  <1>5. /\ IsFiniteSet(Crediting')
        /\ Cardinality(Crediting') = IF h \in Crediting THEN Cardinality(Crediting) - 1
                                                        ELSE Cardinality(Crediting)
    BY Zenon, <1>4, DimFacts, FS_RemoveElement
  <1>6. dim'.imp <= pub' + Cardinality(Crediting')
    BY <1>1, <1>4, <1>5, DimFacts
  <1>7. DimensionsWithinPublisher'
    BY <1>6 DEF DimensionsWithinPublisher, Crediting
  <1>8. Counters'
    BY <1>1, <1>3, <1>5, DimFacts DEF Counters, DimInv
  <1>9. Backed'
    BY <1>1, <1>3 DEF Backed, DimInv
  <1> QED
    BY <1>7, <1>8, <1>9 DEF DimInv

\* A handler that arrives, or ends without crediting.
LEMMA HandlerDim ==
  ASSUME IInv, DimInv, NEW h \in Handlers,
         \/ \E a \in Auctions : Arrive(h, a)
         \/ SeenOrAdd(h) /\ seen[key[h]] # None
         \/ Bill(h)
  PROVE  DimInv'
  <1>1. /\ UNCHANGED <<pub, dim, recounts, fill, dims, counts>>
        /\ pc[h] \notin {"new", "credited"}
        /\ \A g \in Handlers : g # h =>
             pc'[g] = pc[g] /\ key'[g] = key[g] /\ cached'[g] = cached[g]
        /\ pc'[h] \in {"arrived", "idle"}
    BY ZenonT(30) DEF Arrive, SeenOrAdd, Bill, Ends, storeVars, history, IInv, Typed, DimInv, Counters
  <1>2. cached' \in [Handlers -> BOOLEAN]
    BY Zenon DEF Arrive, SeenOrAdd, Bill, Ends, DimInv, Counters
  <1>3. /\ Crediting' = Crediting /\ AboutToCredit' = AboutToCredit /\ Uncounted' = Uncounted
    BY Zenon, <1>1 DEF Crediting, AboutToCredit, Uncounted
  <1>4. \A a \in Auctions : fill'[a] # "served" => counts'[a] = 0
    BY Zenon, <1>1 DEF DimInv, Counters
  <1> QED
    BY ZenonT(30), <1>1, <1>2, <1>3, <1>4, QuietDim, DimFacts

\* save() only forgets cached auctions.
LEMMA EvictDimsDim ==
  ASSUME IInv, DimInv, EvictDims
  PROVE  DimInv'
  <1>1. /\ UNCHANGED <<pub, dim, recounts, fill, pc, key, cached, counts>>
        /\ dims' = Evict(dims, now - DimTTL)
    BY DEF EvictDims, handlerVars, history
  <1>2. dims' \in [Auctions -> Time] /\ \A a \in Auctions : dims'[a] \in {dims[a], None}
    BY Zenon, <1>1, DimFacts DEF Evict, Time
  <1>3. \A h \in Handlers : pc[h] # "idle" => key[h] \in Auctions
    BY Zenon DEF IInv, Timely
  <1>4. /\ Crediting' = Crediting /\ AboutToCredit' \subseteq AboutToCredit
        /\ Uncounted' \subseteq Uncounted
    BY Zenon, <1>1, <1>2, <1>3 DEF Crediting, AboutToCredit, Uncounted
  <1>5. \A a \in Auctions : fill'[a] # "served" => counts'[a] = 0
    BY Zenon, <1>1 DEF DimInv, Counters
  <1> QED
    BY Zenon, <1>1, <1>2, <1>4, <1>5, QuietDim DEF DimInv, Counters

\* A reset leaves no counter and no cached auction to credit one.
LEMMA ResetDim ==
  ASSUME IInv, DimInv, Reset
  PROVE  DimInv'
  <1>1. /\ UNCHANGED <<fill, pc, key, cached, counts>>
        /\ pub' = 0 /\ dim' = [opp |-> 0, imp |-> 0] /\ recounts' = 0
        /\ dims' = [a \in Auctions |-> None]
    BY Zenon DEF Reset, handlerVars
  <1>2. \A h \in Handlers : pc[h] # "idle" => key[h] \in Auctions
    BY DEF IInv, Timely
  <1>3. Crediting' = Crediting /\ AboutToCredit' = {} /\ Uncounted' = {}
    BY Zenon, <1>1, <1>2 DEF Crediting, AboutToCredit, Uncounted
  <1>4. Counters'
    BY Zenon, <1>1, <1>3, FS_EmptySet DEF DimInv, Counters, Time
  <1>5. dim'.imp = 0 /\ dim'.opp = 0
    BY <1>1
  <1>6. dim'.imp <= pub' + Cardinality(Crediting')
    BY <1>1, <1>3, <1>5, DimFacts
  <1>7. DimensionsWithinPublisher'
    BY <1>6 DEF DimensionsWithinPublisher, Crediting
  <1>8. Backed'
    BY <1>1, <1>3, <1>5, FS_EmptySet DEF Backed
  <1> QED
    BY Zenon, <1>4, <1>7, <1>8 DEF DimInv

LEMMA StepDim ==
  ASSUME IInv, DimInv, [Next]_vars
  PROVE  DimInv'
  <1>1. ASSUME UNCHANGED <<pub, dim, recounts, dims, pc, key, cached, counts>>,
               \A a \in Auctions : fill'[a] # "served" => fill[a] # "served"
        PROVE  DimInv'
    <2>1. Crediting' = Crediting /\ AboutToCredit' = AboutToCredit /\ Uncounted' = Uncounted
      BY Zenon, <1>1 DEF Crediting, AboutToCredit, Uncounted
    <2> QED
      BY Zenon, <1>1, <2>1, QuietDim DEF DimInv, Counters
  <1>2. CASE Tick \/ EvictBURLs \/ EvictSeen \/ UNCHANGED vars
    BY Zenon, <1>1, <1>2 DEF Tick, EvictBURLs, EvictSeen, vars, storeVars, handlerVars, history
  <1>3. ASSUME NEW a \in Auctions, StoreBURL(a) PROVE DimInv'
    BY Zenon, <1>1, <1>3 DEF StoreBURL, handlerVars, history, IInv, Typed
  <1>4. ASSUME NEW h \in Handlers, SeenOrAdd(h) \/ CreditDim(h) \/ CreditPub(h) \/ Bill(h)
        PROVE  DimInv'
    BY Zenon, <1>4, CountDim, HandlerDim, CreditDimDim, CreditPubDim
  <1> QED
    BY Zenon, <1>2, <1>3, <1>4, CacheDimsDim, HandlerDim, EvictDimsDim, ResetDim DEF Next

LEMMA DimInvariance == Spec => []DimInv
  <1>1. IInv /\ DimInv /\ [Next]_vars => DimInv'
    BY StepDim
  <1> QED
    BY <1>1, InitDim, Invariance, PTL DEF Spec

\* A dimension of the statistics never shows more impressions than opportunities,
\* counts repeated after the time-to-live aside: incDimImpression, reset and the
\* clean-up of auctionDims may interleave with any number of beacons.
THEOREM DimensionsBackedHolds == Spec => []DimensionsBacked
  <1>1. DimInv => DimensionsBacked
    BY DimFacts DEF DimensionsBacked
  <1> QED
    BY <1>1, DimInvariance, PTL

\* Every impression of a dimension is credited to the publisher by the same handler.
THEOREM DimensionsWithinPublisherHolds == Spec => []DimensionsWithinPublisher
  <1>1. DimInv => DimensionsWithinPublisher
    BY DEF DimInv
  <1> QED
    BY <1>1, DimInvariance, PTL
=============================================================================

--------------------------- MODULE DemandWaterfall --------------------------
(***************************************************************************)
(* One ad request, from the fan-out to its demand sources to the response  *)
(* (runDemandWaterfall, buildDemandSources, the six demand adapters, and   *)
(* what VASTEndpoint and ORTBEndpoint do with the winner).  Source 1 is    *)
(* the primary, the others are ExtraDemand.  Every source runs in a        *)
(* goroutine of its own and sends one result to a buffered channel; with   *)
(* a single source the adapter is called directly.                         *)
(*                                                                         *)
(* A bid is reduced to its price, what its AdM holds ("vast", "bad" for a  *)
(* VAST document validateVASTAdM rejects, "none") and whether it has a win *)
(* notice (NURL) and a billing notice (BURL).  extractWinningBid has its   *)
(* own module, BidSelection; here it answers the winner or NoBid.          *)
(***************************************************************************)
EXTENDS Integers, Sequences

CONSTANTS N,          \* bound on the number of sources, 1 + len(ExtraDemand)
          Inbounds,   \* subset of {"VAST", "ORTB"}
          Kinds,      \* subset of {"vast", "ortb", "prebid"} (resolveDemandType)
          Floors,     \* demand floors; 0 is "not set"
          FloorCPM,   \* the floor of the ad unit
          Prices, AdMs,
          MayPanic,   \* whether an adapter may panic
          None, NoBid, Error, Document

Sources == 1 .. N

Bids ==
  {b \in [price : Prices, adm : AdMs, nurl : BOOLEAN, burl : BOOLEAN] :
     b.adm # "none" \/ b.nurl}

Responses ==
  [src : Sources, err : BOOLEAN, price : Nat, nofill : BOOLEAN, bid : Bids \cup {None}]

\* What an endpoint may answer: no ad, or the response of a source with its notices.
NoFill == [fill |-> FALSE, counted |-> FALSE]
Filled == [fill : {TRUE}, resp : Responses, counted : BOOLEAN,
           nurl : BOOLEAN, burl : BOOLEAN, cached : BOOLEAN]

ASSUME WaterfallAssumption ==
  /\ N \in Nat \ {0} /\ Floors \subseteq Nat /\ FloorCPM \in Nat /\ Prices \subseteq Nat
  /\ MayPanic \in BOOLEAN /\ None \notin Responses
  /\ None # NoFill /\ None \notin Filled
  /\ Inbounds \subseteq {"VAST", "ORTB"}

VARIABLES inbound, n, cfg, \* the request: protocol, number of sources, their configurations
          pc,             \* what the goroutine of each source has done
          answer,         \* what the demand of each source answered
          ch, got,        \* the channel, and how many results were collected
          best,           \* the winning response so far
          fired,          \* sources whose NURL the server has called
          out             \* what was served, or None

vars == <<inbound, n, cfg, pc, answer, ch, got, best, fired, out>>

\* winnerMinPriceCPM and outboundBidFloorCPM.
MinPrice(c) == IF c.floor > 0 /\ c.kind # "prebid" THEN c.floor ELSE FloorCPM

\* buildDemandSources: an extra without a floor has the floor of the primary.
SourceCfg(primary, extra) ==
  [kind |-> extra.kind, floor |-> IF extra.floor > 0 THEN extra.floor ELSE primary.floor]

Init ==
  /\ inbound \in Inbounds /\ n \in Sources
  /\ \E given \in [Sources -> [kind : Kinds, floor : Floors]] :
       /\ \A s \in Sources : s > n => given[s] = given[1]
       /\ cfg = [s \in Sources |-> SourceCfg(given[1], given[s])]
  /\ pc = [s \in Sources |-> IF s <= n THEN "running" ELSE "absent"]
  /\ answer = [s \in Sources |-> None]
  /\ ch = << >> /\ got = 0 /\ best = None
  /\ fired = {} /\ out = None
-----------------------------------------------------------------------------
\* The answers a source may get.  fetchTrackedVASTDemand serves any document it
\* could fetch at the configured floor; an OpenRTB bid below the floor never wins.
Answers(s) ==
  {Error} \cup
  IF cfg[s].kind = "vast" THEN {Document}
  ELSE {NoBid} \cup {b \in Bids : b.price >= MinPrice(cfg[s])}

Response(s, price, nofill, bid) ==
  [src |-> s, err |-> FALSE, price |-> price, nofill |-> nofill, bid |-> bid]

ErrorOf(s) == [src |-> s, err |-> TRUE, price |-> 0, nofill |-> FALSE, bid |-> None]

\* Execute of the six adapters.  Of these only ortbPrebidAdapter forgets to mark
\* a response without a winner as no-fill.
ResultOf(s, a) ==
  IF cfg[s].kind = "vast"
  THEN IF a = Error THEN Response(s, 0, TRUE, None)
       ELSE Response(s, MinPrice(cfg[s]), FALSE, None)
  ELSE IF a = Error \/ (inbound = "VAST" /\ a # NoBid /\ a.adm = "bad")
  THEN ErrorOf(s)
  ELSE IF a = NoBid
  THEN Response(s, 0, inbound = "VAST" \/ cfg[s].kind = "ortb", None)
  ELSE Response(s, a.price, FALSE, a)

\* buildVASTResponse calls the NURL of a bid that has an AdM, before the AdM is
\* validated and before the sources are compared.
FiresInAdapter(s, a) ==
  inbound = "VAST" /\ a \in Bids /\ a.nurl /\ a.adm # "none"

\* Mutant of Execute: an error is logged and not sent.
ExecuteSilentOnError(s) ==
  /\ pc[s] = "running"
  /\ pc' = [pc EXCEPT ![s] = "sent"]
  /\ \E a \in Answers(s) :
       /\ answer' = [answer EXCEPT ![s] = a]
       /\ ch' = IF ResultOf(s, a).err THEN ch ELSE Append(ch, ResultOf(s, a))
       /\ fired' = IF FiresInAdapter(s, a) THEN fired \cup {s} ELSE fired
  /\ UNCHANGED <<inbound, n, cfg, got, best, out>>

\* The adapter of s returns, with an error at the latest when the context ends,
\* and its goroutine sends the result.
Execute(s) ==
  /\ pc[s] = "running"
  /\ pc' = [pc EXCEPT ![s] = "sent"]
  /\ \E a \in Answers(s) :
       /\ answer' = [answer EXCEPT ![s] = a]
       /\ ch' = Append(ch, ResultOf(s, a))
       /\ fired' = IF FiresInAdapter(s, a) THEN fired \cup {s} ELSE fired
  /\ UNCHANGED <<inbound, n, cfg, got, best, out>>

\* The adapter panics: safeGo recovers, and nothing is sent.
Panic(s) ==
  /\ MayPanic /\ n > 1 /\ pc[s] = "running"
  /\ pc' = [pc EXCEPT ![s] = "panicked"]
  /\ UNCHANGED <<inbound, n, cfg, answer, ch, got, best, fired, out>>

\* Mutant of Replaces: the last response wins.
LastReplaces(r) == TRUE

\* Highest WinPrice wins; the first of equals is kept.
Replaces(r) == best = None \/ r.price > best.price

Counts(r) == ~r.err /\ ~r.nofill

Collect ==
  /\ ch # << >>
  /\ got' = got + 1
  /\ ch' = Tail(ch)
  /\ best' = IF n = 1 THEN Head(ch)
             ELSE IF Counts(Head(ch)) /\ Replaces(Head(ch)) THEN Head(ch) ELSE best
  /\ UNCHANGED <<inbound, n, cfg, pc, answer, fired, out>>
-----------------------------------------------------------------------------
\* ORTBEndpoint looks for the winner again, with the primary configuration.
Reextracted(r) ==
  inbound = "ORTB" /\ ~r.nofill /\ r.bid # None /\ r.bid.price >= MinPrice(cfg[1])

\* Mutant of ExposedNURL: the ORTB response keeps the NURL.
ExposedNURLAlways(r) ==
  /\ r.bid # None /\ r.bid.nurl
  /\ inbound = "ORTB" \/ r.bid.adm = "none"

\* Whether the player sees the NURL: as VASTAdTagURI when there is no AdM, or in
\* an ORTB response that was not blanked.
ExposedNURL(r) ==
  /\ r.bid # None /\ r.bid.nurl
  /\ r.bid.adm = "none" \/ (inbound = "ORTB" /\ ~Reextracted(r))

\* The BURL is an <Impression> of the VAST document; ORTBEndpoint blanks it once
\* it is cached for the impression beacon.
ExposedBURL(r) == r.bid # None /\ r.bid.burl /\ ~Reextracted(r)

CachedBURL(r) == Reextracted(r) /\ r.bid.burl

Respond ==
  /\ got = n /\ out = None
  /\ IF best = None \/ best.err
     THEN /\ out' = NoFill
          /\ UNCHANGED fired
     ELSE /\ out' = [fill |-> TRUE, resp |-> best, counted |-> ~best.nofill,
                     nurl |-> ExposedNURL(best), burl |-> ExposedBURL(best),
                     cached |-> CachedBURL(best)]
          /\ fired' = IF Reextracted(best) /\ best.bid.nurl /\ best.bid.adm # "none"
                      THEN fired \cup {best.src} ELSE fired
  /\ UNCHANGED <<inbound, n, cfg, pc, answer, ch, got, best>>

Next == (\E s \in Sources : Execute(s) \/ Panic(s)) \/ Collect \/ Respond

Spec == Init /\ [][Next]_vars

\* The context of the request has a deadline, so every adapter returns.
FairSpec == Spec /\ WF_vars(Next)
-----------------------------------------------------------------------------
\* The type invariant: the channel never holds more results than its capacity,
\* the number of sources, so no goroutine ever blocks on its send.
TypeOK ==
  /\ inbound \in Inbounds /\ n \in Sources
  /\ cfg \in [Sources -> [kind : Kinds, floor : Floors]]
  /\ pc \in [Sources -> {"running", "sent", "panicked", "absent"}]
  /\ answer \in [Sources -> Bids \cup {None, NoBid, Error, Document}]
  /\ ch \in Seq(Responses) /\ Len(ch) + got <= n
  /\ got \in 0 .. n
  /\ best \in Responses \cup {None}
  /\ fired \subseteq Sources

\* The responses the sources have given so far that are worth serving.
Fills == {s \in Sources : pc[s] = "sent" /\ Counts(ResultOf(s, answer[s]))}

\* "Highest WinPrice wins", whatever the order in which the sources answer: the
\* response served has a price no source's fill exceeds, and nothing is served
\* only when no source had a fill.
BestFillServed ==
  n > 1 /\ out # None =>
    /\ out.fill <=> Fills # {}
    /\ out.fill => /\ out.resp.src \in Fills
                   /\ \A s \in Fills : ResultOf(s, answer[s]).price <= out.resp.price

\* Each notice of the bid that is served has one owner.  Its NURL is either
\* called by the server or visible to the player, never both ("the client never
\* double-fires win notices") and never neither; its BURL is either visible or
\* kept for the impression beacon.
NoticesHaveOneOwner ==
  out # None /\ out.fill /\ out.resp.bid # None =>
    /\ out.resp.bid.nurl => (out.nurl <=> out.resp.src \notin fired)
    /\ out.resp.bid.burl => (out.burl <=> ~out.cached)

\* Every request is answered.  The collector waits for one result of every source
\* and has no deadline of its own, so an adapter that panics leaves it waiting.
Answered == <>(out # None \/ \E s \in Sources : pc[s] = "panicked")

\* "Win-notification URL -- fire when bid wins": only the bid that is served has
\* its NURL called by the server.
WinNoticeOnlyForServed ==
  out # None => fired \subseteq (IF out.fill THEN {out.resp.src} ELSE {})
=============================================================================

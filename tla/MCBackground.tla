---------------------------- MODULE MCBackground ----------------------------
(***************************************************************************)
(* Two background services for TLC: the fetcher of price floors and the    *)
(* events of the pubstack module.  They share no state, so a behaviour     *)
(* takes the steps of one of them and leaves the other in its initial      *)
(* state.                                                                  *)
(***************************************************************************)
EXTENDS FloorFetcher, EventChannel

VARIABLE service  \* the service that takes steps

backgroundVars == <<fetcherVars, channelVars, service>>

Fetching(A) == service = "floors" /\ A /\ UNCHANGED <<channelVars, service>>
Logging(A) == service = "events" /\ A /\ UNCHANGED <<fetcherVars, service>>

BackgroundInit == service \in {"floors", "events"} /\ FetcherInit /\ ChannelInit

BackgroundNext == Fetching(FetcherNext) \/ Logging(ChannelNext)

BackgroundTypeOK == FetcherTypeOK /\ ChannelTypeOK

\* The fairness of FloorFetcher and of EventChannel.
BackgroundSpec ==
  /\ BackgroundInit /\ [][BackgroundNext]_backgroundVars
  /\ SF_backgroundVars(Fetching(Receive))
  /\ WF_backgroundVars(Fetching(PopDue \/ TickEnds))
  /\ SF_backgroundVars(Fetching(LoopEnds))
  /\ \A u \in URLs : SF_backgroundVars(Fetching(\E us \in SUBSET Queued : u \in us /\ Tick(us)))
  /\ \A r \in Requests : SF_backgroundVars(Fetching(SendMiss(r)))
  /\ \A w \in PoolWorkers :
       /\ WF_backgroundVars(Fetching(Take(w) \/ \E result \in FetchResults : Fetched(w, result)))
       /\ SF_backgroundVars(Fetching(SendBack(w)))
  /\ WF_backgroundVars(Logging(CloseReturns))
  /\ WF_backgroundVars(Logging(\E c \in Channels : BufferEvent(c)))
  /\ WF_backgroundVars(Logging(\E c \in Channels : FlushTick(c)))
  /\ WF_backgroundVars(Logging(\E c \in Channels :
       StartDrain(c) \/ DrainEvent(c) \/ FlushLast(c) \/ EndLoop(c)))

=============================================================================

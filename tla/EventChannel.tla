----------------------------- MODULE EventChannel ---------------------------
(***************************************************************************)
(* The events of one feature of the pubstack analytics module              *)
(* (analytics/modules/pubstack).  A request takes the channel of its       *)
(* feature under the read lock and pushes an event after it has released   *)
(* the lock.  The collector of a channel gathers the events in a buffer; a *)
(* sender posts full buffers.  An update of the configuration, or SIGTERM, *)
(* closes the channel under the write lock, waits for its collector, and   *)
(* may open a new channel.                                                 *)
(*                                                                         *)
(* An event is the number of its acceptance.  The sizes of events are left *)
(* out: the buffer may be full in bytes whenever it holds an event.        *)
(***************************************************************************)
EXTENDS Integers, Sequences, FiniteSets, Functions

CONSTANTS Pushers,       \* requests that log an event
          MaxChannels,   \* bound on the channels opened one after the other
          MaxEvents,     \* bound on the events accepted
          QueueSize,     \* places of the channel of events
          MaxCount,      \* events of a full buffer
          SendCapacity   \* places of the queue of the sender

ASSUME ChannelAssumption ==
  /\ MaxChannels \in Nat \ {0} /\ MaxEvents \in Nat
  /\ QueueSize \in Nat \ {0} /\ MaxCount \in Nat \ {0} /\ SendCapacity \in Nat \ {0}

Channels == 1 .. MaxChannels

VARIABLES current,   \* the channel of the feature, 0 when it is disabled
          opened,    \* number of channels opened
          updater,   \* the goroutine start: "idle", "closing", "terminating", "stopped"
          pusher,    \* [pc, chan] of each request
          accepted,  \* number of events accepted
          ch,        \* events waiting for the collector, by channel
          buf,       \* the buffer of the collector
          collector, \* start: "none", "run", "drain", "close" or "ended"
          sendCh,    \* buffers waiting for the sender
          sending,   \* the buffer being posted, empty if none
          sent,      \* history: events posted, with success or not, in order
          dropped,   \* history: events dropped
          early      \* history: events accepted before Close began

channelVars == <<current, opened, updater, pusher, accepted, ch, buf, collector, sendCh,
                 sending, sent, dropped, early>>

NoPush == [pc |-> "idle", chan |-> 0]

ChannelInit ==
  /\ current = 0
  /\ opened = 0
  /\ updater = "idle"
  /\ pusher = [p \in Pushers |-> NoPush]
  /\ accepted = 0
  /\ ch = [c \in Channels |-> << >>]
  /\ buf = [c \in Channels |-> << >>]
  /\ collector = [c \in Channels |-> "none"]
  /\ sendCh = [c \in Channels |-> << >>]
  /\ sending = [c \in Channels |-> << >>]
  /\ sent = [c \in Channels |-> << >>]
  /\ dropped = {}
  /\ early = {}

\* The channel endCh is closed: Close waits for the collector, or has returned.
Ending(c) == c <= opened /\ (c # current \/ updater \in {"closing", "terminating"})

Done(c) == collector[c] = "ended"

-----------------------------------------------------------------------------
(* Log...Object and Push.                                                  *)

\* getEventChannel, which waits while the write lock is held.
GetChannel(p) ==
  /\ pusher[p].pc = "idle"
  /\ updater \in {"idle", "stopped"}
  /\ current # 0
  /\ pusher' = [pusher EXCEPT ![p] = [pc |-> "check", chan |-> current]]
  /\ UNCHANGED <<current, opened, updater, accepted, ch, buf, collector, sendCh, sending, sent, dropped, early>>

\* The first select of Push.
CheckDone(p) ==
  /\ pusher[p].pc = "check"
  /\ pusher' = [pusher EXCEPT ![p] = IF Done(pusher[p].chan) THEN NoPush ELSE [@ EXCEPT !.pc = "push"]]
  /\ UNCHANGED <<current, opened, updater, accepted, ch, buf, collector, sendCh, sending, sent, dropped, early>>

\* The second select: the event is accepted if the channel has room, even if
\* the collector has ended since.
PushAccepted(p) ==
  LET c == pusher[p].chan IN
  /\ pusher[p].pc = "push"
  /\ accepted < MaxEvents
  /\ Len(ch[c]) < QueueSize
  /\ accepted' = accepted + 1
  /\ ch' = [ch EXCEPT ![c] = Append(@, accepted')]
  /\ early' = IF Ending(c) THEN early ELSE early \cup {accepted'}
  /\ pusher' = [pusher EXCEPT ![p] = NoPush]
  /\ UNCHANGED <<current, opened, updater, buf, collector, sendCh, sending, sent, dropped>>

PushRefused(p) ==
  /\ pusher[p].pc = "push"
  /\ Done(pusher[p].chan) \/ Len(ch[pusher[p].chan]) = QueueSize
  /\ pusher' = [pusher EXCEPT ![p] = NoPush]
  /\ UNCHANGED <<current, opened, updater, accepted, ch, buf, collector, sendCh, sending, sent, dropped, early>>

-----------------------------------------------------------------------------
(* start and sendLoop of a channel.                                        *)

\* Mutant of Flush: the collector waits for the sender.
FlushBlocking(c, events) ==
  /\ Len(sendCh[c]) < SendCapacity
  /\ sendCh' = [sendCh EXCEPT ![c] = IF events = << >> THEN @ ELSE Append(@, events)]
  /\ buf' = [buf EXCEPT ![c] = << >>]
  /\ UNCHANGED dropped

\* Mutant of Flush: the buffer is not reset.
FlushAndKeep(c, events) ==
  LET room == Len(sendCh[c]) < SendCapacity IN
  /\ buf' = [buf EXCEPT ![c] = events]
  /\ sendCh' = [sendCh EXCEPT ![c] = IF room /\ events # << >> THEN Append(@, events) ELSE @]
  /\ dropped' = IF room THEN dropped ELSE dropped \cup Range(events)

\* flush of a buffer with these events: they are dropped if the sender is
\* behind.
Flush(c, events) ==
  LET room == Len(sendCh[c]) < SendCapacity IN
  /\ buf' = [buf EXCEPT ![c] = << >>]
  /\ sendCh' = [sendCh EXCEPT ![c] = IF room /\ events # << >> THEN Append(@, events) ELSE @]
  /\ dropped' = IF room THEN dropped ELSE dropped \cup Range(events)

\* isBufferFull, of the number of events.
HasRoom(events) == Len(events) < MaxCount

\* An event is buffered, and the buffer flushed when it is full.
BufferEvent(c) ==
  LET events == Append(buf[c], Head(ch[c])) IN
  /\ collector[c] = "run"
  /\ ch[c] # << >>
  /\ ch' = [ch EXCEPT ![c] = Tail(@)]
  /\ \/ Flush(c, events)
     \/ /\ HasRoom(events)
        /\ buf' = [buf EXCEPT ![c] = events]
        /\ UNCHANGED <<sendCh, dropped>>
  /\ UNCHANGED <<current, opened, updater, pusher, accepted, collector, sending, sent, early>>

\* Mutant of FlushTick: a tick flushes full buffers only.
FlushTickIfFull(c) ==
  /\ collector[c] = "run"
  /\ Len(buf[c]) >= MaxCount
  /\ Flush(c, buf[c])
  /\ UNCHANGED <<current, opened, updater, pusher, accepted, ch, collector, sending, sent, early>>

FlushTick(c) ==
  /\ collector[c] = "run"
  /\ buf[c] # << >>
  /\ Flush(c, buf[c])
  /\ UNCHANGED <<current, opened, updater, pusher, accepted, ch, collector, sending, sent, early>>

\* The collector finds endCh closed.
StartDrain(c) ==
  /\ collector[c] = "run"
  /\ Ending(c)
  /\ collector' = [collector EXCEPT ![c] = "drain"]
  /\ UNCHANGED <<current, opened, updater, pusher, accepted, ch, buf, sendCh, sending, sent, dropped, early>>

\* drainPendingEvents
DrainEvent(c) ==
  /\ collector[c] = "drain"
  /\ ch[c] # << >>
  /\ buf' = [buf EXCEPT ![c] = Append(@, Head(ch[c]))]
  /\ ch' = [ch EXCEPT ![c] = Tail(@)]
  /\ UNCHANGED <<current, opened, updater, pusher, accepted, collector, sendCh, sending, sent, dropped, early>>

Drained(c) == ch[c] = << >>

FlushLast(c) ==
  /\ collector[c] = "drain"
  /\ Drained(c)
  /\ Flush(c, buf[c])
  /\ collector' = [collector EXCEPT ![c] = "close"]
  /\ UNCHANGED <<current, opened, updater, pusher, accepted, ch, sending, sent, early>>

\* sendCh and done are closed.
EndLoop(c) ==
  /\ collector[c] = "close"
  /\ collector' = [collector EXCEPT ![c] = "ended"]
  /\ UNCHANGED <<current, opened, updater, pusher, accepted, ch, buf, sendCh, sending, sent, dropped, early>>

\* sendLoop, which also empties a closed queue.
SendNext(c) ==
  /\ sending[c] = << >>
  /\ sendCh[c] # << >>
  /\ sending' = [sending EXCEPT ![c] = Head(sendCh[c])]
  /\ sendCh' = [sendCh EXCEPT ![c] = Tail(@)]
  /\ UNCHANGED <<current, opened, updater, pusher, accepted, ch, buf, collector, sent, dropped, early>>

SendEnds(c) ==
  /\ sending[c] # << >>
  /\ sending' = [sending EXCEPT ![c] = << >>]
  /\ sent' = [sent EXCEPT ![c] = @ \o sending[c]]
  /\ UNCHANGED <<current, opened, updater, pusher, accepted, ch, buf, collector, sendCh, dropped, early>>

-----------------------------------------------------------------------------
(* start of the module.                                                    *)

\* registerChannel for an enabled feature.
Open ==
  /\ opened < MaxChannels
  /\ opened' = opened + 1
  /\ current' = opened'
  /\ collector' = [collector EXCEPT ![opened'] = "run"]

\* updateConfig takes the lock; a channel that is open is closed first.
Update ==
  /\ updater = "idle"
  /\ IF current = 0 THEN Open /\ UNCHANGED updater
     ELSE updater' = "closing" /\ UNCHANGED <<opened, current, collector>>
  /\ UNCHANGED <<pusher, accepted, ch, buf, sendCh, sending, sent, dropped, early>>

\* SIGTERM disables every feature.
Terminate ==
  /\ updater = "idle"
  /\ updater' = IF current = 0 THEN "stopped" ELSE "terminating"
  /\ UNCHANGED <<current, opened, pusher, accepted, ch, buf, collector, sendCh, sending, sent, dropped, early>>

\* Close has returned, and the feature is enabled again or not.
CloseReturns ==
  /\ updater \in {"closing", "terminating"}
  /\ Done(current)
  /\ \/ updater = "closing" /\ Open
     \/ current' = 0 /\ UNCHANGED <<opened, collector>>
  /\ updater' = IF updater = "closing" THEN "idle" ELSE "stopped"
  /\ UNCHANGED <<pusher, accepted, ch, buf, sendCh, sending, sent, dropped, early>>

PusherNext(p) == GetChannel(p) \/ CheckDone(p) \/ PushAccepted(p) \/ PushRefused(p)

ChannelNext ==
  \/ Update \/ Terminate \/ CloseReturns
  \/ \E p \in Pushers : PusherNext(p)
  \/ \E c \in Channels :
       \/ BufferEvent(c) \/ FlushTick(c) \/ StartDrain(c)
       \/ DrainEvent(c) \/ FlushLast(c) \/ EndLoop(c)
       \/ SendNext(c) \/ SendEnds(c)

ChannelSpec == ChannelInit /\ [][ChannelNext]_channelVars

\* The collector of the open channel runs, its select takes a case that stays
\* ready in the end, and the updater goes on when Close returns.  A post need
\* not end.
ChannelFairness ==
  /\ WF_channelVars(CloseReturns)
  /\ WF_channelVars(\E c \in Channels : BufferEvent(c))
  /\ WF_channelVars(\E c \in Channels : FlushTick(c))
  /\ WF_channelVars(\E c \in Channels :
       StartDrain(c) \/ DrainEvent(c) \/ FlushLast(c) \/ EndLoop(c))

ChannelFairSpec == ChannelSpec /\ ChannelFairness

-----------------------------------------------------------------------------

Events == 1 .. MaxEvents

ChannelTypeOK ==
  /\ current \in 0 .. opened /\ opened \in 0 .. MaxChannels
  /\ updater \in {"idle", "closing", "terminating", "stopped"}
  /\ pusher \in [Pushers -> [pc : {"idle", "check", "push"}, chan : 0 .. MaxChannels]]
  /\ accepted \in 0 .. MaxEvents
  /\ \A c \in Channels :
       /\ ch[c] \in Seq(Events) /\ Len(ch[c]) <= QueueSize
       /\ buf[c] \in Seq(Events) /\ sending[c] \in Seq(Events) /\ sent[c] \in Seq(Events)
       /\ sendCh[c] \in Seq(Seq(Events)) /\ Len(sendCh[c]) <= SendCapacity
       /\ collector[c] \in {"none", "run", "drain", "close", "ended"}
  /\ dropped \subseteq Events /\ early \subseteq Events

\* The events of a queue of buffers, in order.
Flatten(bufs) ==
  LET upTo[i \in 1 .. Len(bufs)] == IF i = 1 THEN bufs[i] ELSE upTo[i - 1] \o bufs[i]
  IN  IF Len(bufs) = 0 THEN << >> ELSE upTo[Len(bufs)]

\* The events of a channel in the order in which they leave it.
Line(c) == sent[c] \o sending[c] \o Flatten(sendCh[c]) \o buf[c] \o ch[c]

\* Events leave a channel in the order of their acceptance, none twice and
\* none in two channels, whatever is dropped on the way; and an event that was
\* accepted is in a channel or was dropped (start, flush, sendLoop).
InOrderAndOnce ==
  /\ \A c \in Channels : \A i, j \in DOMAIN Line(c) : i < j => Line(c)[i] < Line(c)[j]
  /\ \A e \in 1 .. accepted :
       Cardinality({c \in Channels : e \in Range(Line(c))}) = IF e \in dropped THEN 0 ELSE 1

\* Close returns even if a post never ends: nobody who waits for the lock of
\* the module waits for the network (Close, flush).
CloseEnds == updater \in {"closing", "terminating"} ~> updater \in {"idle", "stopped"}

\* Once no more events come, every event accepted before its Close began has
\* left the queue and the buffer for good, for the sender or because the
\* sender is behind (start).
EventsLeave ==
  <>[](\A c \in Channels : Range(ch[c] \o buf[c]) \cap early = {})

=============================================================================

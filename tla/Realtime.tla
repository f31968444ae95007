------------------------------ MODULE Realtime ------------------------------
(***************************************************************************)
(* The realtime endpoints of src/src/realtime: WebSocket connections with  *)
(* their map of subscriptions, Server-Sent-Event streams, and the          *)
(* in-process broker both listen to.                                       *)
(*                                                                         *)
(* The map of a connection holds, per channel, the message whose           *)
(* reservation or whose release function is there.  A broker handler is    *)
(* named after the message, or the stream and channel, that subscribed it; *)
(* a Set of handlers after the handler it was made for.  A publication     *)
(* changes nothing here: it reaches the handlers in its topic's Set.       *)
(***************************************************************************)
EXTENDS FiniteSets, Naturals

CONSTANTS
  Connections,       \* WebSocket connections
  Channels,          \* declared channels
  Messages,          \* "subscribe" messages
  Streams,           \* SSE requests
  MaxSubscriptions,  \* maxSubscriptions
  None

ASSUME RealtimeConstants ==
  /\ MaxSubscriptions \in Nat
  /\ Messages \cap (Streams \X Channels) = {}
  /\ None \notin Messages \cup Connections \cup Channels \cup (Streams \X Channels)

VARIABLES
  conns,      \* per connection: "opening" until authenticate has answered
  subs,       \* per connection and channel: what the map holds
  messages,   \* per message: where it is
  streams,    \* per stream: where it is and the channels it listens to
  topics,     \* the broker's Map: per channel, its Set
  sets,       \* every Set of handlers ever made
  home,       \* per handler: the Set its release function deletes from
  again       \* history: channels a stream has left more than once

realtimeVars == <<conns, subs, messages, streams, topics, sets, home, again>>
broker == <<topics, sets, home>>

Handlers == Messages \cup (Streams \X Channels)

Message == [pc: {"idle", "authorizing", "live", "stuck", "over"},
            conn: Connections \cup {None}, channel: Channels \cup {None}]

Stream == [pc: {"idle", "streaming", "broken", "ended"}, channels: SUBSET Channels]

ChannelOf(h) == IF h \in Messages THEN messages[h].channel ELSE h[2]

StreamHandlers(s) == {<<s, ch>> : ch \in streams[s].channels}

-----------------------------------------------------------------------------
(* memoryBroker *)

\* subscribe, for handlers of different channels: each joins the channel's Set, or
\* a new one.
Joins(hs) ==
  LET SetOf(h) == IF topics[ChannelOf(h)] = None THEN h ELSE topics[ChannelOf(h)]
  IN /\ home' = [h \in Handlers |-> IF h \in hs THEN SetOf(h) ELSE home[h]]
     /\ sets' = [i \in Handlers |-> sets[i] \cup {h \in hs : SetOf(h) = i}]
     /\ topics' = [ch \in Channels |->
          IF \E h \in hs : ChannelOf(h) = ch
          THEN SetOf(CHOOSE h \in hs : ChannelOf(h) = ch) ELSE topics[ch]]

\* A release that drops the topic without looking at its Set.
LeavesDropTopic(hs) ==
  /\ sets' = [i \in Handlers |-> sets[i] \ hs]
  /\ topics' = [ch \in Channels |->
       IF \E h \in hs : ChannelOf(h) = ch THEN None ELSE topics[ch]]
  /\ UNCHANGED home

\* The release functions of these handlers, of different channels: the Set a handler
\* joined loses it and, when it is empty, the topic loses whatever Set it has.
Leaves(hs) ==
  LET emptied == {h \in hs : sets[home[h]] \subseteq {h}}
  IN /\ sets' = [i \in Handlers |-> sets[i] \ hs]
     /\ topics' = [ch \in Channels |->
          IF \E h \in emptied : ChannelOf(h) = ch THEN None ELSE topics[ch]]
     /\ UNCHANGED home

-----------------------------------------------------------------------------
(* WebSocket connections *)

\* open, after authenticate: the connection gets its map.  A message that comes
\* before finds none and throws: it changes nothing.
Open(c) ==
  /\ conns[c] = "opening"
  /\ conns' = [conns EXCEPT ![c] = "open"]
  /\ UNCHANGED <<subs, messages, streams, broker, again>>

Held(c) == {ch \in Channels : subs[c][ch] # None}

\* "subscribe": a slot is reserved before authorize is awaited.
Reserve(r, c, ch) ==
  /\ messages[r].pc = "idle" /\ conns[c] = "open"
  /\ subs[c][ch] = None /\ Cardinality(Held(c)) < MaxSubscriptions
  /\ subs' = [subs EXCEPT ![c][ch] = r]
  /\ messages' = [messages EXCEPT ![r] = [pc |-> "authorizing", conn |-> c, channel |-> ch]]
  /\ UNCHANGED <<conns, streams, broker, again>>

Slot(r) == subs[messages[r].conn][messages[r].channel]

GiveUpSlot(r) ==
  subs' = IF Slot(r) = r
          THEN [subs EXCEPT ![messages[r].conn][messages[r].channel] = None] ELSE subs

\* Without the second look at the reservation.
AuthorizedUnchecked(r) ==
  /\ messages[r].pc = "authorizing"
  /\ Joins({r})
  /\ messages' = [messages EXCEPT ![r].pc = "live"]
  /\ UNCHANGED <<conns, subs, streams, again>>

\* authorize agrees: a handler that stays if the reservation is still there, and is
\* released at once otherwise.
Authorized(r) ==
  /\ messages[r].pc = "authorizing"
  /\ IF Slot(r) = r
     THEN /\ Joins({r})
          /\ messages' = [messages EXCEPT ![r].pc = "live"]
     ELSE /\ UNCHANGED broker
          /\ messages' = [messages EXCEPT ![r].pc = "over"]
  /\ UNCHANGED <<conns, subs, streams, again>>

Refused(r) ==
  /\ messages[r].pc = "authorizing"
  /\ GiveUpSlot(r)
  /\ messages' = [messages EXCEPT ![r].pc = "over"]
  /\ UNCHANGED <<conns, streams, broker, again>>

\* authorize throws: nobody takes the reservation back.
AuthorizeThrows(r) ==
  /\ messages[r].pc = "authorizing"
  /\ messages' = [messages EXCEPT ![r].pc = IF Slot(r) = r THEN "stuck" ELSE "over"]
  /\ UNCHANGED <<conns, subs, streams, broker, again>>

\* The entries are dropped, and nothing is called.
ReleasedUncalled(rs) ==
  /\ UNCHANGED broker
  /\ messages' = [r \in Messages |-> IF r \in rs /\ messages[r].pc \in {"live", "stuck"}
                                     THEN [messages[r] EXCEPT !.pc = "over"] ELSE messages[r]]

\* Entries of the map that are release functions are called; reservations are
\* empty functions.
Released(rs) ==
  /\ Leaves({r \in rs : messages[r].pc = "live"})
  /\ messages' = [r \in Messages |-> IF r \in rs /\ messages[r].pc \in {"live", "stuck"}
                                     THEN [messages[r] EXCEPT !.pc = "over"] ELSE messages[r]]

Unsubscribe(c, ch) ==
  /\ conns[c] = "open" /\ subs[c][ch] # None
  /\ Released({subs[c][ch]})
  /\ subs' = [subs EXCEPT ![c][ch] = None]
  /\ UNCHANGED <<conns, streams, again>>

Close(c) ==
  /\ conns[c] # "closed"
  /\ conns' = [conns EXCEPT ![c] = "closed"]
  /\ Released({subs[c][ch] : ch \in Held(c)})
  /\ subs' = [subs EXCEPT ![c] = [ch \in Channels |-> None]]
  /\ UNCHANGED <<streams, again>>

-----------------------------------------------------------------------------
(* Server-Sent Events *)

\* Every channel was authorized: start subscribes to them all.  Nothing is shared
\* before that.
StreamStarts(s, chs) ==
  /\ streams[s].pc = "idle"
  /\ Joins({<<s, ch>> : ch \in chs})
  /\ streams' = [streams EXCEPT ![s] = [pc |-> "streaming", channels |-> chs]]
  /\ UNCHANGED <<conns, subs, messages, again>>

Reachable(h) == topics[ChannelOf(h)] # None /\ h \in sets[topics[ChannelOf(h)]]

\* A payload that cannot be written to the stream releases all its handlers.
SendFails(s) ==
  /\ streams[s].pc = "streaming" /\ \E h \in StreamHandlers(s) : Reachable(h)
  /\ Leaves(StreamHandlers(s))
  /\ streams' = [streams EXCEPT ![s].pc = "broken"]
  /\ UNCHANGED <<conns, subs, messages, again>>

\* The client goes: cancel releases them, released or not.
Cancel(s) ==
  /\ streams[s].pc \in {"streaming", "broken"}
  /\ Leaves(StreamHandlers(s))
  /\ streams' = [streams EXCEPT ![s].pc = "ended"]
  /\ again' = IF streams[s].pc = "broken" THEN again \cup streams[s].channels ELSE again
  /\ UNCHANGED <<conns, subs, messages>>

-----------------------------------------------------------------------------
RealtimeInit ==
  /\ conns = [c \in Connections |-> "opening"]
  /\ subs = [c \in Connections |-> [ch \in Channels |-> None]]
  /\ messages = [r \in Messages |-> [pc |-> "idle", conn |-> None, channel |-> None]]
  /\ streams = [s \in Streams |-> [pc |-> "idle", channels |-> {}]]
  /\ topics = [ch \in Channels |-> None]
  /\ sets = [h \in Handlers |-> {}]
  /\ home = [h \in Handlers |-> None]
  /\ again = {}

Connected(c) ==
  \/ Open(c) \/ Close(c)
  \/ \E ch \in Channels : Unsubscribe(c, ch) \/ \E r \in Messages : Reserve(r, c, ch)

Authorizing(r) == Authorized(r) \/ Refused(r) \/ AuthorizeThrows(r)

Streaming(s) ==
  \/ \E chs \in (SUBSET Channels) \ {{}} :
       Cardinality(chs) <= MaxSubscriptions /\ StreamStarts(s, chs)
  \/ SendFails(s) \/ Cancel(s)

RealtimeNext ==
  \/ \E c \in Connections : Connected(c)
  \/ \E r \in Messages : Authorizing(r)
  \/ \E s \in Streams : Streaming(s)

RealtimeSpec == RealtimeInit /\ [][RealtimeNext]_realtimeVars

-----------------------------------------------------------------------------
(* Properties *)

RealtimeTypeOK ==
  /\ conns \in [Connections -> {"opening", "open", "closed"}]
  /\ subs \in [Connections -> [Channels -> Messages \cup {None}]]
  /\ messages \in [Messages -> Message]
  /\ streams \in [Streams -> Stream]
  /\ topics \in [Channels -> Handlers \cup {None}]
  /\ sets \in [Handlers -> SUBSET Handlers]
  /\ home \in [Handlers -> Handlers \cup {None}]
  /\ again \subseteq Channels

LiveHandlers ==
  {r \in Messages : messages[r].pc = "live"}
    \cup UNION {StreamHandlers(s) : s \in {t \in Streams : streams[t].pc = "streaming"}}

\* No handler outlives its owner: the broker's Sets hold exactly the handlers of
\* live subscriptions, whatever is unsubscribed, refused or closed while authorize
\* is awaited.
NoLeakedHandler == UNION {sets[i] : i \in Handlers} = LiveHandlers

\* The map and the messages agree: a live handler is the one in the map of its open
\* connection, so a channel has one handler per connection at most; a slot is held by
\* a live subscription, a pending authorization, or one whose authorize threw.
SlotsMatchMessages ==
  /\ \A r \in Messages : messages[r].pc \in {"live", "stuck"} =>
       conns[messages[r].conn] = "open" /\ Slot(r) = r
  /\ \A c \in Connections, ch \in Channels : subs[c][ch] # None =>
       LET r == messages[subs[c][ch]]
       IN  r.conn = c /\ r.channel = ch /\ r.pc \in {"authorizing", "live", "stuck"}

\* maxSubscriptions: however many authorizations overlap, a connection never has more
\* live subscriptions.
SubscriptionsBounded == \A c \in Connections :
  Cardinality({r \in Messages : messages[r].pc = "live" /\ messages[r].conn = c})
    <= MaxSubscriptions

\* A live subscription hears what is published, unless a stream left the channel twice.
LiveHear == \A h \in LiveHandlers : ChannelOf(h) \notin again => Reachable(h)

-----------------------------------------------------------------------------
(* The inductive invariant behind the safety properties *)

\* A message knows its connection and channel from its reservation on, and only an
\* open connection's map has entries.
Placed ==
  /\ \A r \in Messages : messages[r].pc # "idle" =>
       messages[r].conn \in Connections /\ messages[r].channel \in Channels
  /\ \A c \in Connections, ch \in Channels : subs[c][ch] # None => conns[c] = "open"

\* The limit counts pending authorizations too.
SlotsBounded == \A c \in Connections :
  IsFiniteSet(Held(c)) /\ Cardinality(Held(c)) <= MaxSubscriptions

-----------------------------------------------------------------------------
(* What comments say, and the code does not do *)

\* memoryBroker: "one bad subscriber must not stop the others from being told".
OthersKeepHearing == \A h \in LiveHandlers : Reachable(h)
=============================================================================

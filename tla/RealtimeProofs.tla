--------------------------- MODULE RealtimeProofs ---------------------------
(***************************************************************************)
(* What holds of the realtime endpoints for any number of connections,     *)
(* channels, messages and streams.                                         *)
(***************************************************************************)
EXTENDS Realtime, FiniteSetTheorems, TLAPS

-----------------------------------------------------------------------------
(* Types *)

\* Handlers that join leave the broker well typed.
LEMMA JoinsType ==
  ASSUME RealtimeTypeOK, NEW hs \in SUBSET Handlers, Joins(hs),
         \A h \in hs : ChannelOf(h) \in Channels
  PROVE  /\ topics' \in [Channels -> Handlers \cup {None}]
         /\ sets' \in [Handlers -> SUBSET Handlers]
         /\ home' \in [Handlers -> Handlers \cup {None}]
<1> DEFINE SetOf(h) == IF topics[ChannelOf(h)] = None THEN h ELSE topics[ChannelOf(h)]
<1>1. ASSUME NEW h \in hs, ChannelOf(h) \in Channels PROVE SetOf(h) \in Handlers
  BY <1>1 DEF RealtimeTypeOK
<1>2. topics' = [ch \in Channels |->
         IF \E h \in hs : ChannelOf(h) = ch
         THEN SetOf(CHOOSE h \in hs : ChannelOf(h) = ch) ELSE topics[ch]]
  BY DEF Joins
<1>3. ASSUME NEW ch \in Channels, \E h \in hs : ChannelOf(h) = ch
      PROVE  SetOf(CHOOSE h \in hs : ChannelOf(h) = ch) \in Handlers
  <2>1. /\ (CHOOSE h \in hs : ChannelOf(h) = ch) \in hs
        /\ ChannelOf(CHOOSE h \in hs : ChannelOf(h) = ch) = ch
    BY <1>3
  <2> HIDE DEF SetOf
  <2>2. QED
    BY <2>1, <1>1
<1>4. topics' \in [Channels -> Handlers \cup {None}]
  <2> HIDE DEF SetOf
  <2>1. QED
    BY <1>2, <1>3 DEF RealtimeTypeOK
<1>5. sets' \in [Handlers -> SUBSET Handlers]
  BY DEF Joins, RealtimeTypeOK
<1>6. home' \in [Handlers -> Handlers \cup {None}]
  BY <1>1 DEF Joins, RealtimeTypeOK
<1>7. QED
  BY <1>4, <1>5, <1>6

LEMMA LeavesType ==
  ASSUME RealtimeTypeOK, NEW hs \in SUBSET Handlers, Leaves(hs)
  PROVE  /\ topics' \in [Channels -> Handlers \cup {None}]
         /\ sets' \in [Handlers -> SUBSET Handlers]
         /\ home' \in [Handlers -> Handlers \cup {None}]
BY DEF RealtimeTypeOK, Leaves

LEMMA ReleasedType ==
  ASSUME RealtimeTypeOK, NEW rs \in SUBSET Messages, Released(rs)
  PROVE  /\ topics' \in [Channels -> Handlers \cup {None}]
         /\ sets' \in [Handlers -> SUBSET Handlers]
         /\ home' \in [Handlers -> Handlers \cup {None}]
         /\ messages' \in [Messages -> Message]
<1>1. {r \in rs : messages[r].pc = "live"} \in SUBSET Handlers
  BY DEF Handlers
<1>2. messages' \in [Messages -> Message]
  BY DEF Released, RealtimeTypeOK, Message
<1>3. QED
  BY <1>1, <1>2, LeavesType DEF Released

LEMMA TypeInit == RealtimeInit => RealtimeTypeOK
BY DEF RealtimeInit, RealtimeTypeOK, Message, Stream

LEMMA TypeStep == RealtimeTypeOK /\ Placed /\ [RealtimeNext]_realtimeVars => RealtimeTypeOK'
<1> SUFFICES ASSUME RealtimeTypeOK, Placed, [RealtimeNext]_realtimeVars PROVE RealtimeTypeOK'
  OBVIOUS
<1>1. ASSUME NEW c \in Connections, Open(c) PROVE RealtimeTypeOK'
  BY <1>1 DEF Open, RealtimeTypeOK, broker
<1>2. ASSUME NEW c \in Connections, Close(c) PROVE RealtimeTypeOK'
  <2>1. {subs[c][ch] : ch \in Held(c)} \in SUBSET Messages
    BY DEF Held, RealtimeTypeOK
  <2>2. /\ topics' \in [Channels -> Handlers \cup {None}]
        /\ sets' \in [Handlers -> SUBSET Handlers]
        /\ home' \in [Handlers -> Handlers \cup {None}]
        /\ messages' \in [Messages -> Message]
    BY <1>2, <2>1, ReleasedType DEF Close
  <2>3. QED
    BY <1>2, <2>2 DEF Close, RealtimeTypeOK
<1>3. ASSUME NEW c \in Connections, NEW ch \in Channels, Unsubscribe(c, ch) PROVE RealtimeTypeOK'
  <2>1. {subs[c][ch]} \in SUBSET Messages
    BY <1>3 DEF Unsubscribe, RealtimeTypeOK
  <2>2. /\ topics' \in [Channels -> Handlers \cup {None}]
        /\ sets' \in [Handlers -> SUBSET Handlers]
        /\ home' \in [Handlers -> Handlers \cup {None}]
        /\ messages' \in [Messages -> Message]
    BY <1>3, <2>1, ReleasedType DEF Unsubscribe
  <2>3. QED
    BY <1>3, <2>2 DEF Unsubscribe, RealtimeTypeOK
<1>4. ASSUME NEW c \in Connections, NEW ch \in Channels, NEW r \in Messages, Reserve(r, c, ch)
      PROVE  RealtimeTypeOK'
  <2>1. [pc |-> "authorizing", conn |-> c, channel |-> ch] \in Message
    BY DEF Message
  <2>2. QED
    BY <1>4, <2>1 DEF Reserve, RealtimeTypeOK, broker
<1>5. ASSUME NEW r \in Messages, Authorized(r) PROVE RealtimeTypeOK'
  <2>1. messages' \in [Messages -> Message]
    <3>1. ASSUME NEW end \in {"live", "over"}, messages' = [messages EXCEPT ![r].pc = end]
          PROVE  messages' \in [Messages -> Message]
      BY <3>1 DEF RealtimeTypeOK, Message
    <3>2. QED
      BY <1>5, <3>1 DEF Authorized
  <2>2. {r} \in SUBSET Handlers /\ ChannelOf(r) \in Channels
    BY <1>5 DEF Handlers, ChannelOf, Placed, Authorized
  <2>3. /\ topics' \in [Channels -> Handlers \cup {None}]
        /\ sets' \in [Handlers -> SUBSET Handlers]
        /\ home' \in [Handlers -> Handlers \cup {None}]
    <3>1. CASE Slot(r) = r
      BY <1>5, <2>2, <3>1, JoinsType DEF Authorized
    <3>2. CASE Slot(r) # r
      BY <1>5, <3>2 DEF Authorized, RealtimeTypeOK, broker
    <3>3. QED
      BY <3>1, <3>2
  <2>4. QED
    BY <1>5, <2>1, <2>3 DEF Authorized, RealtimeTypeOK
<1>6. ASSUME NEW r \in Messages, Refused(r) PROVE RealtimeTypeOK'
  BY <1>6 DEF Refused, GiveUpSlot, RealtimeTypeOK, Message, broker
<1>7. ASSUME NEW r \in Messages, AuthorizeThrows(r) PROVE RealtimeTypeOK'
  <2>1. ASSUME NEW end \in {"stuck", "over"}, messages' = [messages EXCEPT ![r].pc = end]
        PROVE  messages' \in [Messages -> Message]
    BY <2>1 DEF RealtimeTypeOK, Message
  <2>2. QED
    BY <1>7, <2>1 DEF AuthorizeThrows, RealtimeTypeOK, broker
<1>8. ASSUME NEW s \in Streams, NEW chs \in SUBSET Channels, StreamStarts(s, chs) PROVE RealtimeTypeOK'
  <2>1. /\ {<<s, ch>> : ch \in chs} \in SUBSET Handlers
        /\ \A h \in {<<s, ch>> : ch \in chs} : ChannelOf(h) \in Channels
    BY RealtimeConstants DEF RealtimeConstants, Handlers, ChannelOf
  <2>2. /\ topics' \in [Channels -> Handlers \cup {None}]
        /\ sets' \in [Handlers -> SUBSET Handlers]
        /\ home' \in [Handlers -> Handlers \cup {None}]
    BY <1>8, <2>1, JoinsType DEF StreamStarts
  <2>3. [pc |-> "streaming", channels |-> chs] \in Stream
    BY DEF Stream
  <2>4. QED
    BY <1>8, <2>2, <2>3 DEF StreamStarts, RealtimeTypeOK
<1>9. ASSUME NEW s \in Streams, SendFails(s) PROVE RealtimeTypeOK'
  <2>1. StreamHandlers(s) \in SUBSET Handlers
    BY DEF StreamHandlers, Handlers, RealtimeTypeOK, Stream
  <2>2. QED
    BY <1>9, <2>1, LeavesType DEF SendFails, RealtimeTypeOK, Stream
<1>10. ASSUME NEW s \in Streams, Cancel(s) PROVE RealtimeTypeOK'
  <2>1. StreamHandlers(s) \in SUBSET Handlers /\ streams[s].channels \subseteq Channels
    BY DEF StreamHandlers, Handlers, RealtimeTypeOK, Stream
  <2>2. streams' \in [Streams -> Stream]
    BY <1>10 DEF Cancel, RealtimeTypeOK, Stream
  <2>3. again' \subseteq Channels
    BY <1>10, <2>1 DEF Cancel, RealtimeTypeOK
  <2>4. QED
    BY <1>10, <2>1, <2>2, <2>3, LeavesType DEF Cancel, RealtimeTypeOK
<1>11. CASE UNCHANGED realtimeVars
  BY <1>11 DEF realtimeVars, RealtimeTypeOK
<1>12. QED
  BY <1>1, <1>2, <1>3, <1>4, <1>5, <1>6, <1>7, <1>8, <1>9, <1>10, <1>11
  DEF RealtimeNext, Connected, Authorizing, Streaming

-----------------------------------------------------------------------------
(* Reservations *)

LEMMA SlotsInit == RealtimeInit => Placed /\ SlotsMatchMessages
BY DEF RealtimeInit, Placed, SlotsMatchMessages

LEMMA SlotsStep ==
  RealtimeTypeOK /\ Placed /\ SlotsMatchMessages /\ [RealtimeNext]_realtimeVars => Placed' /\ SlotsMatchMessages'
<1> SUFFICES ASSUME RealtimeTypeOK, Placed, SlotsMatchMessages, [RealtimeNext]_realtimeVars
             PROVE  Placed' /\ SlotsMatchMessages'
  OBVIOUS
<1> USE RealtimeConstants DEF RealtimeConstants, Slot
<1>1. ASSUME NEW c \in Connections, Open(c) PROVE Placed' /\ SlotsMatchMessages'
  BY <1>1 DEF Open, RealtimeTypeOK, Placed, SlotsMatchMessages
<1>2. ASSUME NEW c \in Connections, Close(c) PROVE Placed' /\ SlotsMatchMessages'
  BY <1>2 DEF Close, Released, Held, RealtimeTypeOK, Placed, SlotsMatchMessages
<1>3. ASSUME NEW c \in Connections, NEW ch \in Channels, Unsubscribe(c, ch)
      PROVE  Placed' /\ SlotsMatchMessages'
  <2> DEFINE r == subs[c][ch]
  <2>1. /\ conns[c] = "open" /\ r # None /\ UNCHANGED conns
        /\ subs' = [subs EXCEPT ![c][ch] = None]
    BY <1>3 DEF Unsubscribe
  <2>2. /\ r \in Messages /\ messages[r].conn = c /\ messages[r].channel = ch
        /\ messages[r].pc \in {"authorizing", "live", "stuck"}
    BY <2>1 DEF RealtimeTypeOK, SlotsMatchMessages
  <2>3. /\ \A q \in Messages \ {r} : messages'[q] = messages[q]
        /\ messages'[r] = IF messages[r].pc \in {"live", "stuck"}
                          THEN [messages[r] EXCEPT !.pc = "over"] ELSE messages[r]
    BY <1>3, <2>2 DEF Unsubscribe, Released
  <2>4. /\ messages'[r].conn = c /\ messages'[r].channel = ch
        /\ messages'[r].pc \in {"authorizing", "over"}
    BY <2>2, <2>3 DEF RealtimeTypeOK, Message
  <2>5. /\ subs'[c][ch] = None
        /\ \A d \in Connections, dh \in Channels : <<d, dh>> # <<c, ch>> => subs'[d][dh] = subs[d][dh]
    BY <2>1 DEF RealtimeTypeOK
  <2> HIDE DEF r
  <2>6. Placed'
    <3>1. \A q \in Messages : messages'[q].pc # "idle" =>
            messages'[q].conn \in Connections /\ messages'[q].channel \in Channels
      BY <2>2, <2>3, <2>4 DEF Placed
    <3>2. \A d \in Connections, dh \in Channels : subs'[d][dh] # None => conns[d] = "open"
      BY <2>5 DEF Placed
    <3>3. QED
      BY <2>1, <3>1, <3>2 DEF Placed
  <2>7. ASSUME NEW q \in Messages, messages'[q].pc \in {"live", "stuck"}
        PROVE  conns[messages'[q].conn] = "open" /\ subs'[messages'[q].conn][messages'[q].channel] = q
    <3>1. q # r /\ messages'[q] = messages[q]
      BY <2>3, <2>4, <2>7
    <3>2. /\ conns[messages[q].conn] = "open" /\ subs[messages[q].conn][messages[q].channel] = q
          /\ messages[q].conn \in Connections /\ messages[q].channel \in Channels
      BY <2>7, <3>1 DEF Placed, SlotsMatchMessages
    <3>3. <<messages[q].conn, messages[q].channel>> # <<c, ch>>
      BY <3>1, <3>2 DEF r
    <3>4. QED
      BY <2>5, <3>1, <3>2, <3>3
  <2>8. ASSUME NEW d \in Connections, NEW dh \in Channels, subs'[d][dh] # None
        PROVE  /\ messages'[subs'[d][dh]].conn = d /\ messages'[subs'[d][dh]].channel = dh
               /\ messages'[subs'[d][dh]].pc \in {"authorizing", "live", "stuck"}
    <3>1. <<d, dh>> # <<c, ch>> /\ subs'[d][dh] = subs[d][dh]
      BY <2>5, <2>8
    <3>2. PICK q \in Messages : q = subs[d][dh]
      BY <2>8, <3>1 DEF RealtimeTypeOK
    <3>3. /\ messages[q].conn = d /\ messages[q].channel = dh
          /\ messages[q].pc \in {"authorizing", "live", "stuck"}
      BY <2>8, <3>1, <3>2 DEF SlotsMatchMessages
    <3>4. q # r
      BY <2>2, <3>1, <3>3
    <3>5. QED
      BY <2>3, <3>1, <3>2, <3>3, <3>4
  <2>9. SlotsMatchMessages'
    BY <2>1, <2>7, <2>8 DEF SlotsMatchMessages
  <2>10. QED
    BY <2>6, <2>9
<1>4. ASSUME NEW c \in Connections, NEW ch \in Channels, NEW r \in Messages, Reserve(r, c, ch)
      PROVE  Placed' /\ SlotsMatchMessages'
  BY <1>4 DEF Reserve, RealtimeTypeOK, Placed, SlotsMatchMessages
<1>5. ASSUME NEW r \in Messages, Authorized(r) PROVE Placed' /\ SlotsMatchMessages'
  <2>1. messages[r].pc = "authorizing" /\ UNCHANGED <<conns, subs>>
    BY <1>5 DEF Authorized
  <2>2. PICK end \in {"live", "over"} : /\ messages' = [messages EXCEPT ![r].pc = end]
                                        /\ end = "live" <=> subs[messages[r].conn][messages[r].channel] = r
    BY <1>5 DEF Authorized
  <2>3. ASSUME end = "live" PROVE Placed' /\ SlotsMatchMessages'
    BY <2>1, <2>2, <2>3 DEF RealtimeTypeOK, Placed, SlotsMatchMessages
  <2>4. ASSUME end = "over" PROVE Placed' /\ SlotsMatchMessages'
    BY <2>1, <2>2, <2>4 DEF RealtimeTypeOK, Placed, SlotsMatchMessages
  <2>5. QED
    BY <2>2, <2>3, <2>4
<1>6. ASSUME NEW r \in Messages, Refused(r) PROVE Placed' /\ SlotsMatchMessages'
  <2>1. /\ messages[r].pc = "authorizing" /\ UNCHANGED conns
        /\ messages' = [messages EXCEPT ![r].pc = "over"]
    BY <1>6 DEF Refused
  <2>2. CASE subs[messages[r].conn][messages[r].channel] = r
    <3>1. subs' = [subs EXCEPT ![messages[r].conn][messages[r].channel] = None]
      BY <1>6, <2>2 DEF Refused, GiveUpSlot
    <3>2. Placed'
      BY <2>1, <3>1 DEF RealtimeTypeOK, Placed
    <3>3. ASSUME NEW q \in Messages, messages'[q].pc \in {"live", "stuck"}
          PROVE  conns[messages'[q].conn] = "open" /\ subs'[messages'[q].conn][messages'[q].channel] = q
      <4>1. q # r /\ messages'[q] = messages[q]
        BY <2>1, <3>3 DEF RealtimeTypeOK
      <4>2. /\ conns[messages[q].conn] = "open" /\ subs[messages[q].conn][messages[q].channel] = q
            /\ messages[q].conn \in Connections /\ messages[q].channel \in Channels
        BY <3>3, <4>1 DEF Placed, SlotsMatchMessages
      <4>3. subs'[messages[q].conn][messages[q].channel] = q
        BY <2>2, <3>1, <4>1, <4>2 DEF RealtimeTypeOK
      <4>4. QED
        BY <4>1, <4>2, <4>3
    <3>4. ASSUME NEW c \in Connections, NEW ch \in Channels, subs'[c][ch] # None
          PROVE  /\ messages'[subs'[c][ch]].conn = c /\ messages'[subs'[c][ch]].channel = ch
                 /\ messages'[subs'[c][ch]].pc \in {"authorizing", "live", "stuck"}
      <4>1. subs'[c][ch] = subs[c][ch]
        BY <3>1, <3>4 DEF RealtimeTypeOK
      <4>2. PICK q \in Messages : q = subs[c][ch]
        BY <3>4, <4>1 DEF RealtimeTypeOK
      <4>3. /\ messages[q].conn = c /\ messages[q].channel = ch
            /\ messages[q].pc \in {"authorizing", "live", "stuck"}
        BY <3>4, <4>1, <4>2 DEF SlotsMatchMessages
      <4>4. q # r
        BY <3>1, <3>4, <4>1, <4>2, <4>3 DEF RealtimeTypeOK
      <4>5. messages'[q] = messages[q]
        BY <2>1, <4>4 DEF RealtimeTypeOK
      <4>6. QED
        BY <4>1, <4>2, <4>3, <4>5
    <3>5. SlotsMatchMessages'
      BY <2>1, <3>3, <3>4 DEF SlotsMatchMessages
    <3>6. QED
      BY <3>2, <3>5
  <2>3. CASE subs[messages[r].conn][messages[r].channel] # r
    <3>1. UNCHANGED subs
      BY <1>6, <2>3 DEF Refused, GiveUpSlot
    <3>2. QED
      BY <2>1, <2>3, <3>1 DEF RealtimeTypeOK, Placed, SlotsMatchMessages
  <2>4. QED
    BY <2>2, <2>3
<1>7. ASSUME NEW r \in Messages, AuthorizeThrows(r) PROVE Placed' /\ SlotsMatchMessages'
  BY <1>7 DEF AuthorizeThrows, RealtimeTypeOK, Placed, SlotsMatchMessages
<1>8. ASSUME NEW s \in Streams, NEW chs \in SUBSET Channels, StreamStarts(s, chs)
      PROVE  Placed' /\ SlotsMatchMessages'
  BY <1>8 DEF StreamStarts, Placed, SlotsMatchMessages
<1>9. ASSUME NEW s \in Streams, SendFails(s) PROVE Placed' /\ SlotsMatchMessages'
  BY <1>9 DEF SendFails, Placed, SlotsMatchMessages
<1>10. ASSUME NEW s \in Streams, Cancel(s) PROVE Placed' /\ SlotsMatchMessages'
  BY <1>10 DEF Cancel, Placed, SlotsMatchMessages
<1>11. CASE UNCHANGED realtimeVars
  BY <1>11 DEF realtimeVars, Placed, SlotsMatchMessages
<1>12. QED
  BY <1>1, <1>2, <1>3, <1>4, <1>5, <1>6, <1>7, <1>8, <1>9, <1>10, <1>11
  DEF RealtimeNext, Connected, Authorizing, Streaming

-----------------------------------------------------------------------------
(* The limit *)

\* A map that loses entries stays within the limit.
LEMMA FewerHeld ==
  ASSUME SlotsBounded, \A c \in Connections : Held(c)' \subseteq Held(c)
  PROVE  SlotsBounded'
<1> SUFFICES ASSUME NEW c \in Connections
             PROVE  IsFiniteSet(Held(c)') /\ Cardinality(Held(c)') <= MaxSubscriptions
  BY DEF SlotsBounded
<1>1. IsFiniteSet(Held(c)) /\ Cardinality(Held(c)) <= MaxSubscriptions
  BY DEF SlotsBounded
<1>2. IsFiniteSet(Held(c)') /\ Cardinality(Held(c)') <= Cardinality(Held(c))
  BY <1>1, FS_Subset
<1>3. Cardinality(Held(c)) \in Nat /\ Cardinality(Held(c)') \in Nat
  BY <1>1, <1>2, FS_CardinalityType
<1>4. QED
  BY <1>1, <1>2, <1>3, RealtimeConstants DEF RealtimeConstants

LEMMA LimitInit == RealtimeInit => SlotsBounded
<1> SUFFICES ASSUME RealtimeInit, NEW c \in Connections
             PROVE  IsFiniteSet(Held(c)) /\ Cardinality(Held(c)) <= MaxSubscriptions
  BY DEF SlotsBounded
<1>1. Held(c) = {}
  BY DEF RealtimeInit, Held
<1>2. QED
  BY <1>1, FS_EmptySet, RealtimeConstants DEF RealtimeConstants

LEMMA LimitStep == RealtimeTypeOK /\ Placed /\ SlotsBounded /\ [RealtimeNext]_realtimeVars => SlotsBounded'
<1> SUFFICES ASSUME RealtimeTypeOK, Placed, SlotsBounded, [RealtimeNext]_realtimeVars PROVE SlotsBounded'
  OBVIOUS
<1> USE RealtimeConstants DEF RealtimeConstants
<1>1. ASSUME NEW c \in Connections, NEW ch \in Channels, NEW r \in Messages, Reserve(r, c, ch)
      PROVE  SlotsBounded'
  <2>1. Held(c)' = Held(c) \cup {ch} /\ ch \notin Held(c)
    BY <1>1 DEF Reserve, Held, RealtimeTypeOK
  <2>2. IsFiniteSet(Held(c)) /\ Cardinality(Held(c)) \in Nat /\ Cardinality(Held(c)) < MaxSubscriptions
    BY <1>1, FS_CardinalityType DEF SlotsBounded, Reserve
  <2>3. IsFiniteSet(Held(c)') /\ Cardinality(Held(c)') = Cardinality(Held(c)) + 1
    BY <2>1, <2>2, FS_AddElement
  <2>4. ASSUME NEW d \in Connections, d # c PROVE Held(d)' = Held(d)
    BY <1>1, <2>4 DEF Reserve, Held, RealtimeTypeOK
  <2>5. ASSUME NEW d \in Connections
        PROVE  IsFiniteSet(Held(d)') /\ Cardinality(Held(d)') <= MaxSubscriptions
    <3>1. CASE d = c
      BY <2>2, <2>3, <3>1
    <3>2. CASE d # c
      BY <2>4, <3>2 DEF SlotsBounded
    <3>3. QED
      BY <3>1, <3>2
  <2>6. QED
    BY <2>5 DEF SlotsBounded
<1>2. ASSUME NEW c \in Connections, Close(c) PROVE SlotsBounded'
  BY <1>2, FewerHeld DEF Close, Held, RealtimeTypeOK
<1>3. ASSUME NEW c \in Connections, NEW ch \in Channels, Unsubscribe(c, ch) PROVE SlotsBounded'
  BY <1>3, FewerHeld DEF Unsubscribe, Held, RealtimeTypeOK
<1>4. ASSUME NEW r \in Messages, Refused(r) PROVE SlotsBounded'
  <2>1. messages[r].conn \in Connections /\ messages[r].channel \in Channels
    BY <1>4 DEF Refused, Placed
  <2>2. QED
    BY <1>4, <2>1, FewerHeld DEF Refused, GiveUpSlot, Held, RealtimeTypeOK
<1>5. ASSUME UNCHANGED subs PROVE SlotsBounded'
  BY <1>5, FewerHeld DEF Held
<1>6. ASSUME NEW c \in Connections, Open(c) PROVE UNCHANGED subs
  BY <1>6 DEF Open
<1>7. ASSUME NEW r \in Messages, Authorized(r) \/ AuthorizeThrows(r) PROVE UNCHANGED subs
  BY <1>7 DEF Authorized, AuthorizeThrows
<1>8. ASSUME NEW s \in Streams, Streaming(s) PROVE UNCHANGED subs
  BY <1>8 DEF Streaming, StreamStarts, SendFails, Cancel
<1>9. CASE UNCHANGED realtimeVars
  BY <1>5, <1>9 DEF realtimeVars
<1>10. QED
  BY <1>1, <1>2, <1>3, <1>4, <1>5, <1>6, <1>7, <1>8, <1>9 DEF RealtimeNext, Connected, Authorizing

\* The live subscriptions of a connection are in its map, each under its own channel.
LEMMA LiveAreHeld ==
  ASSUME RealtimeTypeOK, Placed, SlotsMatchMessages, SlotsBounded
  PROVE  SubscriptionsBounded
<1> SUFFICES ASSUME NEW c \in Connections
             PROVE  Cardinality({r \in Messages : messages[r].pc = "live" /\ messages[r].conn = c})
                      <= MaxSubscriptions
  BY DEF SubscriptionsBounded
<1> DEFINE live == {r \in Messages : messages[r].pc = "live" /\ messages[r].conn = c}
           f == [r \in live |-> messages[r].channel]
<1>1. ASSUME NEW r \in live PROVE messages[r].channel \in Held(c) /\ subs[c][messages[r].channel] = r
  BY RealtimeConstants DEF RealtimeConstants, Placed, SlotsMatchMessages, Slot, Held
<1>2. f \in Injection(live, Held(c))
  BY <1>1 DEF Injection, IsInjective
<1>3. IsFiniteSet(Held(c)) /\ Cardinality(Held(c)) <= MaxSubscriptions
  BY DEF SlotsBounded
<1>4. IsFiniteSet(live) /\ Cardinality(live) <= Cardinality(Held(c))
  <2> HIDE DEF f, live
  <2>1. QED
    BY <1>2, <1>3, FS_Injection
<1>5. Cardinality(live) \in Nat /\ Cardinality(Held(c)) \in Nat
  BY <1>3, <1>4, FS_CardinalityType
<1>6. QED
  BY <1>3, <1>4, <1>5, RealtimeConstants DEF RealtimeConstants

-----------------------------------------------------------------------------
(* The broker's handlers *)

\* What the Sets hold together, and what joining and leaving do to it.
InSets == UNION {sets[i] : i \in Handlers}

LEMMA JoinsAdd ==
  ASSUME RealtimeTypeOK, NEW hs \in SUBSET Handlers, Joins(hs),
         \A h \in hs : ChannelOf(h) \in Channels
  PROVE  InSets' = InSets \cup hs
<1> DEFINE SetOf(h) == IF topics[ChannelOf(h)] = None THEN h ELSE topics[ChannelOf(h)]
<1>1. ASSUME NEW h \in hs PROVE SetOf(h) \in Handlers
  BY <1>1 DEF RealtimeTypeOK
<1>2. sets' = [i \in Handlers |-> sets[i] \cup {h \in hs : SetOf(h) = i}]
  BY DEF Joins
<1> HIDE DEF SetOf
<1>3. QED
  BY <1>1, <1>2 DEF InSets

LEMMA LeavesRemove ==
  ASSUME NEW hs, Leaves(hs)
  PROVE  InSets' = InSets \ hs
BY DEF Leaves, InSets

LEMMA ReleasedRemoves ==
  ASSUME NEW rs, Released(rs)
  PROVE  InSets' = InSets \ {r \in rs : messages[r].pc = "live"}
BY LeavesRemove DEF Released

LEMMA HandlersInit == RealtimeInit => NoLeakedHandler
BY DEF RealtimeInit, NoLeakedHandler, LiveHandlers, StreamHandlers

\* Handlers of one stream are not those of another, and no message's.
LEMMA HandlersApart ==
  ASSUME NEW s \in Streams, RealtimeTypeOK
  PROVE  /\ StreamHandlers(s) \cap Messages = {}
         /\ \A t \in Streams : t # s => StreamHandlers(s) \cap StreamHandlers(t) = {}
BY RealtimeConstants DEF RealtimeConstants, StreamHandlers, RealtimeTypeOK, Stream

Live == {r \in Messages : messages[r].pc = "live"}
Streamed == UNION {StreamHandlers(s) : s \in {t \in Streams : streams[t].pc = "streaming"}}

LEMMA HandlersStep ==
  RealtimeTypeOK /\ Placed /\ SlotsMatchMessages /\ NoLeakedHandler /\ [RealtimeNext]_realtimeVars => NoLeakedHandler'
<1> SUFFICES ASSUME RealtimeTypeOK, Placed, SlotsMatchMessages, InSets = Live \cup Streamed, [RealtimeNext]_realtimeVars
             PROVE  InSets' = Live' \cup Streamed'
  BY DEF NoLeakedHandler, InSets, LiveHandlers, Live, Streamed
<1> USE RealtimeConstants DEF RealtimeConstants
<1>1. ASSUME UNCHANGED streams PROVE Streamed' = Streamed
  BY <1>1 DEF Streamed, StreamHandlers
<1>2. Live \cap Streamed = {}
  BY HandlersApart DEF Live, Streamed
<1>3. ASSUME NEW c \in Connections, Open(c) PROVE InSets' = Live' \cup Streamed'
  BY <1>1, <1>3 DEF Open, InSets, Live, broker
<1>4. ASSUME NEW rs \in SUBSET Messages, Released(rs), UNCHANGED streams
      PROVE  InSets' = Live' \cup Streamed'
  <2>1. Live' = Live \ {r \in rs : messages[r].pc = "live"}
    BY <1>4 DEF Released, Live, RealtimeTypeOK, Message
  <2>2. InSets' = InSets \ {r \in rs : messages[r].pc = "live"}
    BY <1>4, ReleasedRemoves
  <2>3. {r \in rs : messages[r].pc = "live"} \subseteq Live
    BY DEF Live
  <2>4. QED
    BY <1>1, <1>2, <1>4, <2>1, <2>2, <2>3
<1>5. ASSUME NEW c \in Connections, Close(c) PROVE InSets' = Live' \cup Streamed'
  <2>1. {subs[c][ch] : ch \in Held(c)} \in SUBSET Messages
    BY DEF Held, RealtimeTypeOK
  <2>2. QED
    BY <1>4, <1>5, <2>1 DEF Close
<1>6. ASSUME NEW c \in Connections, NEW ch \in Channels, Unsubscribe(c, ch)
      PROVE  InSets' = Live' \cup Streamed'
  <2>1. {subs[c][ch]} \in SUBSET Messages
    BY <1>6 DEF Unsubscribe, RealtimeTypeOK
  <2>2. QED
    BY <1>4, <1>6, <2>1 DEF Unsubscribe
<1>7. ASSUME NEW c \in Connections, NEW ch \in Channels, NEW r \in Messages, Reserve(r, c, ch)
      PROVE  InSets' = Live' \cup Streamed'
  <2>1. Live' = Live
    BY <1>7 DEF Reserve, Live, RealtimeTypeOK
  <2>2. QED
    BY <1>1, <1>7, <2>1 DEF Reserve, InSets, broker
<1>8. ASSUME NEW r \in Messages, Authorized(r) PROVE InSets' = Live' \cup Streamed'
  <2>1. messages[r].pc = "authorizing" /\ UNCHANGED streams
    BY <1>8 DEF Authorized
  <2>2. ASSUME Slot(r) = r PROVE InSets' = Live' \cup Streamed'
    <3>1. messages' = [messages EXCEPT ![r].pc = "live"] /\ Joins({r})
      BY <1>8, <2>2 DEF Authorized
    <3>2. {r} \in SUBSET Handlers /\ ChannelOf(r) \in Channels
      BY <2>1 DEF Handlers, ChannelOf, Placed
    <3>3. InSets' = InSets \cup {r}
      BY <3>1, <3>2, JoinsAdd
    <3>4. Live' = Live \cup {r}
      BY <3>1 DEF Live, RealtimeTypeOK
    <3>5. QED
      BY <1>1, <2>1, <3>3, <3>4
  <2>3. ASSUME Slot(r) # r PROVE InSets' = Live' \cup Streamed'
    <3>1. messages' = [messages EXCEPT ![r].pc = "over"] /\ UNCHANGED <<topics, sets, home>>
      BY <1>8, <2>3 DEF Authorized, broker
    <3>2. Live' = Live
      BY <2>1, <3>1 DEF Live, RealtimeTypeOK
    <3>3. QED
      BY <1>1, <2>1, <3>1, <3>2 DEF InSets
  <2>4. QED
    BY <2>2, <2>3
<1>9. ASSUME NEW r \in Messages, Refused(r) PROVE InSets' = Live' \cup Streamed'
  <2>1. Live' = Live
    BY <1>9 DEF Refused, Live, RealtimeTypeOK
  <2>2. QED
    BY <1>1, <1>9, <2>1 DEF Refused, InSets, broker
<1>10. ASSUME NEW r \in Messages, AuthorizeThrows(r) PROVE InSets' = Live' \cup Streamed'
  <2>1. PICK end \in {"stuck", "over"} : messages' = [messages EXCEPT ![r].pc = end]
    BY <1>10 DEF AuthorizeThrows
  <2>2. Live' = Live
    BY <1>10, <2>1 DEF AuthorizeThrows, Live, RealtimeTypeOK
  <2>3. QED
    BY <1>1, <1>10, <2>2 DEF AuthorizeThrows, InSets, broker
<1>11. ASSUME NEW s \in Streams, NEW chs \in SUBSET Channels, StreamStarts(s, chs)
       PROVE  InSets' = Live' \cup Streamed'
  <2>1. /\ {<<s, ch>> : ch \in chs} \in SUBSET Handlers
        /\ \A h \in {<<s, ch>> : ch \in chs} : ChannelOf(h) \in Channels
    BY DEF Handlers, ChannelOf
  <2>2. InSets' = InSets \cup {<<s, ch>> : ch \in chs}
    BY <1>11, <2>1, JoinsAdd DEF StreamStarts
  <2>3. streams' = [streams EXCEPT ![s] = [pc |-> "streaming", channels |-> chs]]
        /\ streams[s].pc = "idle" /\ UNCHANGED messages
    BY <1>11 DEF StreamStarts
  <2>4. Streamed' = Streamed \cup {<<s, ch>> : ch \in chs}
    BY <2>3 DEF Streamed, StreamHandlers, RealtimeTypeOK
  <2>5. QED
    BY <2>2, <2>3, <2>4 DEF Live
<1>12. ASSUME NEW s \in Streams, NEW end \in {"broken", "ended"}, Leaves(StreamHandlers(s)),
              streams' = [streams EXCEPT ![s].pc = end], UNCHANGED messages
       PROVE  InSets' = Live' \cup Streamed'
  <2>1. InSets' = InSets \ StreamHandlers(s)
    BY <1>12, LeavesRemove
  <2>2. ASSUME NEW t \in Streams PROVE StreamHandlers(t)' = StreamHandlers(t)
    BY <1>12 DEF StreamHandlers, RealtimeTypeOK
  <2>3. \A t \in Streams : streams'[t].pc = "streaming" <=> t # s /\ streams[t].pc = "streaming"
    BY <1>12 DEF RealtimeTypeOK
  <2>4. Streamed' = Streamed \ StreamHandlers(s)
    BY <2>2, <2>3, HandlersApart DEF Streamed
  <2>5. Live' = Live /\ Live \cap StreamHandlers(s) = {}
    BY <1>12, HandlersApart DEF Live
  <2>6. QED
    BY <2>1, <2>4, <2>5
<1>13. ASSUME NEW s \in Streams, SendFails(s) PROVE InSets' = Live' \cup Streamed'
  BY <1>12, <1>13 DEF SendFails
<1>14. ASSUME NEW s \in Streams, Cancel(s) PROVE InSets' = Live' \cup Streamed'
  BY <1>12, <1>14 DEF Cancel
<1>15. CASE UNCHANGED realtimeVars
  BY <1>1, <1>15 DEF realtimeVars, InSets, Live
<1>16. QED
  BY <1>3, <1>5, <1>6, <1>7, <1>8, <1>9, <1>10, <1>11, <1>13, <1>14, <1>15
  DEF RealtimeNext, Connected, Authorizing, Streaming

-----------------------------------------------------------------------------
(* Hearing *)

\* The release function of a handler knows the Set that its channel's topic has.
TunedTo(h, ch) == home[h] \in Handlers /\ topics[ch] = home[h] /\ h \in sets[home[h]]
Tuned == \A h \in LiveHandlers : ChannelOf(h) \notin again => TunedTo(h, ChannelOf(h))

\* The same after a step, of a handler and a channel that the step does not change.
TunedLater(h, ch) == home'[h] \in Handlers /\ topics'[ch] = home'[h] /\ h \in sets'[home'[h]]
ChannelLater(h) == IF h \in Messages THEN messages'[h].channel ELSE h[2]

LEMMA LiveTyped == RealtimeTypeOK /\ Placed => \A h \in LiveHandlers : h \in Handlers /\ ChannelOf(h) \in Channels
BY RealtimeConstants
DEF RealtimeConstants, RealtimeTypeOK, Placed, LiveHandlers, StreamHandlers, Handlers, ChannelOf, Stream

LEMMA TunedHear == ASSUME RealtimeTypeOK, Placed, Tuned PROVE LiveHear
BY LiveTyped, RealtimeConstants DEF RealtimeConstants, Tuned, TunedTo, LiveHear, Reachable, Handlers

LEMMA JoinsTune ==
  ASSUME RealtimeTypeOK, NEW hs \in SUBSET Handlers, Joins(hs),
         \A h \in hs : ChannelOf(h) \in Channels,
         \A h, k \in hs : ChannelOf(h) = ChannelOf(k) => h = k
  PROVE  /\ \A h \in hs, ch \in Channels : ChannelOf(h) = ch => TunedLater(h, ch)
         /\ \A g \in Handlers \ hs, ch \in Channels : TunedTo(g, ch) => TunedLater(g, ch)
<1> DEFINE SetOf(h) == IF topics[ChannelOf(h)] = None THEN h ELSE topics[ChannelOf(h)]
<1>1. /\ home' = [h \in Handlers |-> IF h \in hs THEN SetOf(h) ELSE home[h]]
      /\ sets' = [i \in Handlers |-> sets[i] \cup {h \in hs : SetOf(h) = i}]
      /\ topics' = [ch \in Channels |->
           IF \E h \in hs : ChannelOf(h) = ch
           THEN SetOf(CHOOSE h \in hs : ChannelOf(h) = ch) ELSE topics[ch]]
  BY DEF Joins
<1>2. ASSUME NEW h \in hs PROVE SetOf(h) \in Handlers
  BY <1>2 DEF RealtimeTypeOK
<1>3. ASSUME NEW h \in hs PROVE topics'[ChannelOf(h)] = SetOf(h)
  <2>1. (CHOOSE k \in hs : ChannelOf(k) = ChannelOf(h)) = h
    <3>1. \A k \in hs : ChannelOf(k) = ChannelOf(h) <=> k = h
      OBVIOUS
    <3>2. QED
      BY <3>1
  <2> HIDE DEF SetOf
  <2>2. QED
    BY <1>1, <2>1
<1>4. ASSUME NEW h \in hs PROVE home'[h] = SetOf(h) /\ h \in sets'[SetOf(h)]
  <2> HIDE DEF SetOf
  <2>1. QED
    BY <1>1, <1>2
<1>5. ASSUME NEW h \in hs, NEW ch \in Channels, ChannelOf(h) = ch PROVE TunedLater(h, ch)
  <2> HIDE DEF SetOf
  <2>1. QED
    BY <1>2, <1>3, <1>4, <1>5 DEF TunedTo, TunedLater
<1>6. ASSUME NEW g \in Handlers \ hs, NEW ch \in Channels, TunedTo(g, ch) PROVE TunedLater(g, ch)
  <2>1. topics[ch] # None
    BY <1>6, RealtimeConstants DEF RealtimeConstants, TunedTo, Handlers
  <2>2. \A h \in hs : ChannelOf(h) = ch => SetOf(h) = topics[ch]
    BY <2>1
  <2>3. topics'[ch] = topics[ch]
    <3>1. CASE \E h \in hs : ChannelOf(h) = ch
      BY <1>3, <2>2, <3>1
    <3>2. CASE ~\E h \in hs : ChannelOf(h) = ch
      BY <1>1, <3>2
    <3>3. QED
      BY <3>1, <3>2
  <2>4. home'[g] = home[g] /\ sets[home[g]] \subseteq sets'[home[g]]
    BY <1>1, <1>6 DEF TunedTo
  <2>5. QED
    BY <1>6, <2>3, <2>4 DEF TunedTo, TunedLater
<1>7. QED
  BY <1>5, <1>6

\* A Set that somebody else is in is not emptied.
LEMMA LeavesTune ==
  ASSUME NEW hs, Leaves(hs), NEW g \in Handlers, g \notin hs, NEW ch \in Channels,
         TunedTo(g, ch), \A h \in hs : ChannelOf(h) = ch => TunedTo(h, ch)
  PROVE  TunedLater(g, ch)
<1>1. ASSUME NEW h \in hs, ChannelOf(h) = ch PROVE ~(sets[home[h]] \subseteq {h})
  BY <1>1 DEF TunedTo
<1>2. topics'[ch] = topics[ch]
  BY <1>1 DEF Leaves
<1>3. home' = home /\ sets'[home[g]] = sets[home[g]] \ hs
  BY DEF Leaves, TunedTo
<1>4. QED
  BY <1>2, <1>3 DEF TunedTo, TunedLater

LEMMA TunedInit == RealtimeInit => Tuned
BY DEF RealtimeInit, Tuned, LiveHandlers, StreamHandlers

\* What is live after a step in which handlers leave was live before, on the same channel.
LEMMA TunedAfterLeaving ==
  ASSUME RealtimeTypeOK, Placed, Tuned, NEW hs, Leaves(hs), again \subseteq again',
         LiveHandlers' \subseteq LiveHandlers \ hs,
         \A h \in LiveHandlers' : ChannelLater(h) = ChannelOf(h),
         \A h \in hs : h \in LiveHandlers \/ ChannelOf(h) \in again'
  PROVE  Tuned'
<1> SUFFICES ASSUME NEW g \in LiveHandlers', ChannelLater(g) \notin again'
             PROVE  TunedLater(g, ChannelLater(g))
  BY DEF Tuned, TunedTo, TunedLater, ChannelOf, ChannelLater
<1>1. PICK ch \in Channels : ch = ChannelOf(g)
  BY LiveTyped
<1>2. g \in Handlers /\ g \notin hs /\ TunedTo(g, ch)
  BY <1>1, LiveTyped DEF Tuned
<1>3. \A h \in hs : ChannelOf(h) = ch => TunedTo(h, ch)
  BY <1>1 DEF Tuned
<1>4. TunedLater(g, ch)
  BY <1>2, <1>3, LeavesTune
<1>5. ChannelLater(g) = ch
  BY <1>1
<1>6. QED
  BY <1>4, <1>5

\* Handlers join, and are live; the others live are those that were.
LEMMA TunedAfterJoining ==
  ASSUME RealtimeTypeOK, Placed, Tuned, NEW hs \in SUBSET Handlers, Joins(hs), UNCHANGED again,
         LiveHandlers' \subseteq LiveHandlers \cup hs,
         \A h \in LiveHandlers' : ChannelLater(h) = ChannelOf(h),
         \A h \in hs : ChannelOf(h) \in Channels,
         \A h, k \in hs : ChannelOf(h) = ChannelOf(k) => h = k
  PROVE  Tuned'
<1> SUFFICES ASSUME NEW g \in LiveHandlers', ChannelLater(g) \notin again'
             PROVE  TunedLater(g, ChannelLater(g))
  BY DEF Tuned, TunedTo, TunedLater, ChannelOf, ChannelLater
<1>1. PICK ch \in Channels : ch = ChannelOf(g)
  BY LiveTyped
<1>2. ChannelLater(g) = ch
  BY <1>1
<1>3. TunedLater(g, ch)
  <2>1. CASE g \in hs
    BY <1>1, <2>1, JoinsTune
  <2>2. CASE g \notin hs
    <3>1. g \in LiveHandlers /\ g \in Handlers /\ TunedTo(g, ch)
      BY <1>1, <1>2, <2>2, LiveTyped DEF Tuned
    <3>2. QED
      BY <2>2, <3>1, JoinsTune
  <2>3. QED
    BY <2>1, <2>2
<1>4. QED
  BY <1>2, <1>3

\* Nothing joins or leaves.
LEMMA TunedAnyway ==
  ASSUME Tuned, UNCHANGED <<topics, sets, home, again>>, LiveHandlers' \subseteq LiveHandlers,
         \A h \in LiveHandlers' : ChannelLater(h) = ChannelOf(h)
  PROVE  Tuned'
BY DEF Tuned, TunedTo, ChannelOf, ChannelLater

LEMMA LiveParts ==
  /\ LiveHandlers = Live \cup Streamed
  /\ LiveHandlers' = Live' \cup Streamed'
BY DEF LiveHandlers, Live, Streamed

\* A message keeps its channel once it has one, and what goes on streaming its channels.
LEMMA ChannelsKept ==
  ASSUME RealtimeTypeOK, Placed, [RealtimeNext]_realtimeVars,
         \A r \in Messages : messages'[r].pc = "live" => messages'[r].channel = messages[r].channel
  PROVE  \A h \in LiveHandlers' : ChannelLater(h) = ChannelOf(h)
<1> SUFFICES ASSUME NEW h \in LiveHandlers' PROVE ChannelLater(h) = ChannelOf(h)
  OBVIOUS
<1>1. CASE h \in Messages
  <2>1. messages'[h].pc = "live"
    <3>1. streams' \in [Streams -> Stream]
      BY TypeStep DEF RealtimeTypeOK
    <3>2. ASSUME NEW s \in Streams PROVE h \notin StreamHandlers(s)'
      BY <1>1, <3>1, RealtimeConstants DEF RealtimeConstants, StreamHandlers, Stream
    <3>3. QED
      BY <1>1, <3>2 DEF LiveHandlers
  <2>2. QED
    BY <1>1, <2>1 DEF ChannelOf, ChannelLater
<1>2. CASE h \notin Messages
  BY <1>2 DEF ChannelOf, ChannelLater
<1>3. QED
  BY <1>1, <1>2

LEMMA TunedStep ==
  RealtimeTypeOK /\ Placed /\ SlotsMatchMessages /\ Tuned /\ [RealtimeNext]_realtimeVars => Tuned'
<1> SUFFICES ASSUME RealtimeTypeOK, Placed, SlotsMatchMessages, Tuned, [RealtimeNext]_realtimeVars PROVE Tuned'
  OBVIOUS
<1> USE RealtimeConstants DEF RealtimeConstants
<1>1. ASSUME UNCHANGED streams PROVE Streamed' = Streamed
  BY <1>1 DEF Streamed, StreamHandlers
<1>2. Live \cap Streamed = {}
  BY HandlersApart DEF Live, Streamed
<1>3. ASSUME NEW c \in Connections, Open(c) PROVE Tuned'
  <2>1. Live' = Live /\ UNCHANGED <<messages, streams, topics, sets, home, again>>
    BY <1>3 DEF Open, Live, broker
  <2>2. LiveHandlers' = LiveHandlers
    BY <1>1, <2>1, LiveParts
  <2>3. QED
    BY <2>1, <2>2, TunedAnyway, ChannelsKept
<1>4. ASSUME NEW rs \in SUBSET Messages, Released(rs), UNCHANGED <<streams, again>>
      PROVE  Tuned'
  <2> DEFINE hs == {r \in rs : messages[r].pc = "live"}
  <2>1. Live' = Live \ hs /\ hs \subseteq Live
    BY <1>4 DEF Released, Live, RealtimeTypeOK, Message
  <2>2. Leaves(hs)
    BY <1>4 DEF Released
  <2>3. \A r \in Messages : messages'[r].channel = messages[r].channel
    BY <1>4 DEF Released, RealtimeTypeOK, Message
  <2>4. LiveHandlers' \subseteq LiveHandlers \ hs /\ hs \subseteq LiveHandlers
    <3> HIDE DEF hs
    <3>1. QED
      BY <1>1, <1>2, <1>4, <2>1, LiveParts
  <2>5. \A h \in LiveHandlers' : ChannelLater(h) = ChannelOf(h)
    BY <2>3, ChannelsKept
  <2> HIDE DEF hs
  <2>6. QED
    BY <1>4, <2>2, <2>4, <2>5, TunedAfterLeaving
<1>5. ASSUME NEW c \in Connections, Close(c) PROVE Tuned'
  <2>1. {subs[c][ch] : ch \in Held(c)} \in SUBSET Messages
    BY DEF Held, RealtimeTypeOK
  <2>2. QED
    BY <1>4, <1>5, <2>1 DEF Close
<1>6. ASSUME NEW c \in Connections, NEW ch \in Channels, Unsubscribe(c, ch) PROVE Tuned'
  <2>1. {subs[c][ch]} \in SUBSET Messages
    BY <1>6 DEF Unsubscribe, RealtimeTypeOK
  <2>2. QED
    BY <1>4, <1>6, <2>1 DEF Unsubscribe
<1>7. ASSUME UNCHANGED <<streams, topics, sets, home, again>>, Live' = Live,
             \A r \in Live : messages'[r].channel = messages[r].channel
      PROVE  Tuned'
  <2>1. LiveHandlers' = LiveHandlers
    BY <1>1, <1>7, LiveParts
  <2>2. \A r \in Messages : messages'[r].pc = "live" => messages'[r].channel = messages[r].channel
    BY <1>7 DEF Live
  <2>3. QED
    BY <1>7, <2>1, <2>2, ChannelsKept, TunedAnyway
<1>8. ASSUME NEW c \in Connections, NEW ch \in Channels, NEW r \in Messages, Reserve(r, c, ch)
      PROVE  Tuned'
  <2>1. Live' = Live
    BY <1>8 DEF Reserve, Live, RealtimeTypeOK
  <2>2. \A q \in Live : messages'[q].channel = messages[q].channel
    BY <1>8 DEF Reserve, Live, RealtimeTypeOK
  <2>3. QED
    BY <1>7, <1>8, <2>1, <2>2 DEF Reserve, broker
<1>9. ASSUME NEW r \in Messages, NEW end \in {"stuck", "over"}, messages[r].pc = "authorizing",
             messages' = [messages EXCEPT ![r].pc = end], UNCHANGED <<streams, topics, sets, home, again>>
      PROVE  Tuned'
  <2>1. Live' = Live
    BY <1>9 DEF Live, RealtimeTypeOK
  <2>2. \A q \in Live : messages'[q].channel = messages[q].channel
    BY <1>9 DEF Live, RealtimeTypeOK
  <2>3. QED
    BY <1>7, <1>9, <2>1, <2>2
<1>10. ASSUME NEW r \in Messages, Authorized(r) PROVE Tuned'
  <2>1. messages[r].pc = "authorizing" /\ UNCHANGED <<streams, again>>
    BY <1>10 DEF Authorized
  <2>2. ASSUME Slot(r) = r PROVE Tuned'
    <3>1. messages' = [messages EXCEPT ![r].pc = "live"] /\ Joins({r})
      BY <1>10, <2>2 DEF Authorized
    <3>2. {r} \in SUBSET Handlers /\ ChannelOf(r) \in Channels
      BY <2>1 DEF Handlers, ChannelOf, Placed
    <3>3. Live' = Live \cup {r}
      BY <3>1 DEF Live, RealtimeTypeOK
    <3>4. LiveHandlers' \subseteq LiveHandlers \cup {r}
      BY <1>1, <2>1, <3>3, LiveParts
    <3>5. \A q \in Messages : messages'[q].channel = messages[q].channel
      BY <3>1 DEF RealtimeTypeOK, Message
    <3>6. \A h \in LiveHandlers' : ChannelLater(h) = ChannelOf(h)
      BY <3>5, ChannelsKept
    <3>7. QED
      BY <2>1, <3>1, <3>2, <3>4, <3>6, TunedAfterJoining
  <2>3. ASSUME Slot(r) # r PROVE Tuned'
    BY <1>9, <1>10, <2>1, <2>3 DEF Authorized, broker
  <2>4. QED
    BY <2>2, <2>3
<1>11. ASSUME NEW r \in Messages, Refused(r) PROVE Tuned'
  BY <1>9, <1>11 DEF Refused, broker
<1>12. ASSUME NEW r \in Messages, AuthorizeThrows(r) PROVE Tuned'
  <2>1. PICK end \in {"stuck", "over"} : messages' = [messages EXCEPT ![r].pc = end]
    BY <1>12 DEF AuthorizeThrows
  <2>2. QED
    BY <1>9, <1>12, <2>1 DEF AuthorizeThrows, broker
<1>13. ASSUME NEW s \in Streams, NEW chs \in SUBSET Channels, StreamStarts(s, chs) PROVE Tuned'
  <2> DEFINE hs == {<<s, ch>> : ch \in chs}
  <2>1. hs \in SUBSET Handlers /\ \A ch \in chs : ChannelOf(<<s, ch>>) = ch
    BY DEF Handlers, ChannelOf
  <2>2. /\ \A h \in hs : ChannelOf(h) \in Channels
        /\ \A h, k \in hs : ChannelOf(h) = ChannelOf(k) => h = k
    BY <2>1
  <2>3. streams' = [streams EXCEPT ![s] = [pc |-> "streaming", channels |-> chs]]
        /\ streams[s].pc = "idle" /\ UNCHANGED <<messages, again>> /\ Joins(hs)
    BY <1>13 DEF StreamStarts
  <2>4. Streamed' = Streamed \cup hs
    BY <2>3 DEF Streamed, StreamHandlers, RealtimeTypeOK
  <2>5. LiveHandlers' \subseteq LiveHandlers \cup hs
    <3> HIDE DEF hs
    <3>1. Live' = Live
      BY <2>3 DEF Live
    <3>2. QED
      BY <2>4, <3>1, LiveParts
  <2>6. \A h \in LiveHandlers' : ChannelLater(h) = ChannelOf(h)
    BY <2>3, ChannelsKept
  <2> HIDE DEF hs
  <2>7. QED
    BY <2>1, <2>2, <2>3, <2>5, <2>6, TunedAfterJoining
<1>14. ASSUME NEW s \in Streams, NEW end \in {"broken", "ended"}, Leaves(StreamHandlers(s)),
              streams' = [streams EXCEPT ![s].pc = end], UNCHANGED messages, again \subseteq again',
              streams[s].pc = "streaming" \/ streams[s].channels \subseteq again'
       PROVE  Tuned'
  <2>1. ASSUME NEW t \in Streams PROVE StreamHandlers(t)' = StreamHandlers(t)
    BY <1>14 DEF StreamHandlers, RealtimeTypeOK
  <2>2. \A t \in Streams : streams'[t].pc = "streaming" <=> t # s /\ streams[t].pc = "streaming"
    BY <1>14 DEF RealtimeTypeOK
  <2>3. Streamed' = Streamed \ StreamHandlers(s)
    BY <2>1, <2>2, HandlersApart DEF Streamed
  <2>4. Live' = Live /\ Live \cap StreamHandlers(s) = {}
    BY <1>14, HandlersApart DEF Live
  <2>5. LiveHandlers' \subseteq LiveHandlers \ StreamHandlers(s)
    BY <2>3, <2>4, LiveParts
  <2>6. \A h \in StreamHandlers(s) : h \in LiveHandlers \/ ChannelOf(h) \in again'
    <3>1. CASE streams[s].pc = "streaming"
      BY <3>1 DEF LiveHandlers
    <3>2. CASE streams[s].channels \subseteq again'
      BY <3>2 DEF StreamHandlers, ChannelOf, RealtimeTypeOK, Stream
    <3>3. QED
      BY <1>14, <3>1, <3>2
  <2>7. \A h \in LiveHandlers' : ChannelLater(h) = ChannelOf(h)
    BY <1>14, ChannelsKept
  <2>8. QED
    BY <1>14, <2>5, <2>6, <2>7, TunedAfterLeaving
<1>15. ASSUME NEW s \in Streams, SendFails(s) PROVE Tuned'
  BY <1>14, <1>15 DEF SendFails
<1>16. ASSUME NEW s \in Streams, Cancel(s) PROVE Tuned'
  <2>1. again \subseteq again' /\ (streams[s].pc = "streaming" \/ streams[s].channels \subseteq again')
    BY <1>16 DEF Cancel
  <2>2. QED
    BY <1>14, <1>16, <2>1 DEF Cancel
<1>17. CASE UNCHANGED realtimeVars
  <2>1. Live' = Live
    BY <1>17 DEF realtimeVars, Live
  <2>2. QED
    BY <1>7, <1>17, <2>1 DEF realtimeVars
<1>18. QED
  BY <1>3, <1>5, <1>6, <1>8, <1>10, <1>11, <1>12, <1>13, <1>15, <1>16, <1>17
  DEF RealtimeNext, Connected, Authorizing, Streaming

-----------------------------------------------------------------------------
\* The variables of the realtime endpoints keep their types.
THEOREM TypeCorrect == RealtimeSpec => []RealtimeTypeOK
<1>1. RealtimeInit => RealtimeTypeOK /\ Placed /\ SlotsMatchMessages
  BY TypeInit, SlotsInit
<1>2. RealtimeTypeOK /\ Placed /\ SlotsMatchMessages /\ [RealtimeNext]_realtimeVars
        => (RealtimeTypeOK /\ Placed /\ SlotsMatchMessages)'
  BY TypeStep, SlotsStep
<1>3. QED
  BY <1>1, <1>2, PTL DEF RealtimeSpec

\* A channel has one live handler per connection, the one its map can release, however
\* subscribe, unsubscribe and close overlap an authorization.
THEOREM SlotsStayMatched == RealtimeSpec => []SlotsMatchMessages
<1>1. RealtimeInit => RealtimeTypeOK /\ Placed /\ SlotsMatchMessages
  BY TypeInit, SlotsInit
<1>2. RealtimeTypeOK /\ Placed /\ SlotsMatchMessages /\ [RealtimeNext]_realtimeVars
        => (RealtimeTypeOK /\ Placed /\ SlotsMatchMessages)'
  BY TypeStep, SlotsStep
<1>3. QED
  BY <1>1, <1>2, PTL DEF RealtimeSpec

\* maxSubscriptions holds of live subscriptions, however many authorizations overlap.
THEOREM LimitHolds == RealtimeSpec => []SubscriptionsBounded
<1> DEFINE IInv == RealtimeTypeOK /\ Placed /\ SlotsMatchMessages /\ SlotsBounded
<1>1. RealtimeInit => IInv
  BY TypeInit, SlotsInit, LimitInit
<1>2. IInv /\ [RealtimeNext]_realtimeVars => IInv'
  BY TypeStep, SlotsStep, LimitStep
<1>3. IInv => SubscriptionsBounded
  BY LiveAreHeld
<1>4. QED
  BY <1>1, <1>2, <1>3, PTL DEF RealtimeSpec

\* The broker's Sets hold the handlers of live subscriptions and streams and no others:
\* no handler outlives a close, an unsubscribe or a refusal.
THEOREM NothingLeaks == RealtimeSpec => []NoLeakedHandler
<1> DEFINE IInv == RealtimeTypeOK /\ Placed /\ SlotsMatchMessages /\ NoLeakedHandler
<1>1. RealtimeInit => IInv
  BY TypeInit, SlotsInit, HandlersInit
<1>2. IInv /\ [RealtimeNext]_realtimeVars => IInv'
  BY TypeStep, SlotsStep, HandlersStep
<1>3. QED
  BY <1>1, <1>2, PTL DEF RealtimeSpec

\* A live subscription or stream hears what is published on its channels, whoever joins,
\* leaves, closes or is cut off beside it, unless a stream left that channel twice.
THEOREM LiveOnesHear == RealtimeSpec => []LiveHear
<1> DEFINE IInv == RealtimeTypeOK /\ Placed /\ SlotsMatchMessages /\ Tuned
<1>1. RealtimeInit => IInv
  BY TypeInit, SlotsInit, TunedInit
<1>2. IInv /\ [RealtimeNext]_realtimeVars => IInv'
  BY TypeStep, SlotsStep, TunedStep
<1>3. IInv => LiveHear
  BY TunedHear
<1>4. QED
  BY <1>1, <1>2, <1>3, PTL DEF RealtimeSpec
=============================================================================

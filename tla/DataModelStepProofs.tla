------------------------ MODULE DataModelStepProofs -------------------------
(***************************************************************************)
(* What every step does to the messages, the senders and the copies of the *)
(* model: the types are right, and the steps of the controllers keep the   *)
(* invariant of the messages on their way to the router.                   *)
(***************************************************************************)
EXTENDS DataModelSyncProofs

USE DEF repairVars

(* What handleModelChange sends *)

\* A replay is made of events of the cache, and there is none for a sender
\* whose router is on another timeline.
LEMMA ReplaySeq ==
    ASSUME DataModelInv, NEW c \in Controllers, NEW r, IsSender(r)
    PROVE  /\ Replay(c, r).events \in Seq(DOMAIN ctrl[c].cache.Events)
           /\ Replay(c, r).events # <<>> => r.timelineId = timeline
<1> DEFINE cache == ctrl[c].cache
           changes == Changes(Log, ctrl[c].applied)
           E == DOMAIN ctrl[c].cache.Events
<1>1. <<>> \in Seq(E)
  OBVIOUS
<1>2. Failed(FullSyncRequired).events = <<>>
  BY DEF Failed
<1>3. CASE ~(r.currentIndex > 0 /\ r.timelineId = timeline)
  BY Zenon, <1>1, <1>2, <1>3 DEF Replay
<1>4. CASE r.currentIndex > 0 /\ r.timelineId = timeline
  <2>1. Replay(c, r) = ReplayFrom(cache, r.currentIndex)
    BY <1>4 DEF Replay
  <2>2. r.currentIndex \in Nat
    BY DEF IsSender
  <2>3. CacheOK(cache, changes) /\ changes \in SUBSET (Nat \ {0})
    <3>1. CtrlOK(ctrl[c], Log)
      BY DEF DataModelInv
    <3>2. ctrl[c].applied \in Nat
      BY <3>1, LogFacts DEF CtrlOK
    <3> QED  BY <3>1, <3>2 DEF CtrlOK, Changes
  <2>4. CASE ReplayFrom(cache, r.currentIndex).result = Success
    <3>1. PICK n \in 1 .. LogSize : ReplayFrom(cache, r.currentIndex).events \in [1 .. n -> E]
      BY SMTT(20), <2>2, <2>3, <2>4, ReplayOK
    <3>2. n \in Nat
      BY LogSizeAssumption
    <3> QED  BY SMTT(20), <1>4, <2>1, <3>1, <3>2, FunctionIsSeq
  <2>5. CASE ReplayFrom(cache, r.currentIndex).result # Success
    <3>1. ReplayFrom(cache, r.currentIndex).events = <<>>
      BY <2>5 DEF ReplayFrom, Failed
    <3> QED  BY <1>1, <2>1, <3>1
  <2> QED  BY <2>4, <2>5
<1> QED  BY <1>3, <1>4

LEMMA FirstOf ==
    ASSUME NEW S, NEW s \in Seq(S), NEW k \in 0 .. Len(s)
    PROVE  SubSeq(s, 1, k) \in Seq(S) /\ Len(SubSeq(s, 1, k)) = k
<1>1. k \in Int /\ 1 \in Int /\ Len(s) \in Nat /\ \A i \in 1 .. k : i \in 1 .. Len(s)
  OBVIOUS
<1>2. \A i \in 1 .. k : s[i] \in S
  BY <1>1, ElementType
<1>3. SubSeq(s, 1, k) \in Seq(S) /\ Len(SubSeq(s, 1, k)) = IF 1 <= k THEN k - 1 + 1 ELSE 0
  BY <1>1, <1>2, SubSeqParts
<1> QED  BY <1>1, <1>3

LEMMA NewsSeq ==
    ASSUME DataModelInv, NEW c \in Controllers, NEW r, IsSender(r),
           NEW k \in 0 .. Len(News(Replay(c, r)))
    PROVE  LET keys == SubSeq(News(Replay(c, r)), 1, k) IN
           /\ keys \in Seq(DOMAIN ctrl[c].cache.Events) /\ Len(keys) = k /\ k \in Nat
           /\ k > 0 => r.timelineId = timeline
<1> DEFINE E == DOMAIN ctrl[c].cache.Events
           events == Replay(c, r).events
           news == News(Replay(c, r))
<1>1. events \in Seq(E) /\ (events # <<>> => r.timelineId = timeline)
  BY ReplaySeq
<1>2. news \in Seq(E) /\ (news # <<>> => events # <<>>)
  <2>1. news = IF events = <<>> THEN <<>> ELSE Tail(events)
    BY DEF News
  <2> HIDE DEF news, events
  <2>2. CASE events = <<>>
    BY <2>1, <2>2
  <2>3. CASE events # <<>>
    <3>1. Tail(events) \in Seq(E)
      BY <1>1, <2>3, HeadAndTail
    <3> QED  BY <2>1, <2>3, <3>1
  <2> QED  BY <2>2, <2>3
<1> HIDE DEF events
<1>3. Len(news) \in Nat /\ k \in Nat /\ k <= Len(news) /\ (k > 0 => news # <<>>)
  <2>1. k \in 0 .. Len(news)
    OBVIOUS
  <2> HIDE DEF news
  <2> QED  BY <1>2, <2>1
<1> HIDE DEF news
<1>4. SubSeq(news, 1, k) \in Seq(E) /\ Len(SubSeq(news, 1, k)) = k
  <2>1. k \in 0 .. Len(news)
    BY <1>3
  <2> QED  BY Zenon, <1>2, <2>1, FirstOf
<1> QED  BY <1>1, <1>2, <1>3, <1>4 DEF news, events

ChangesOf(c, s, keys) ==
    [i \in 1 .. Len(keys) |-> ChangeSet(s, keys[i], ctrl[c].cache.Events[keys[i]])]

\* The change sets among it, and the full state.
LEMMA SentChanges ==
    ASSUME DataModelInv, NEW c \in Controllers, NEW s \in Ids,
           NEW keys \in Seq(DOMAIN ctrl[c].cache.Events)
    PROVE  LET msgs == ChangesOf(c, s, keys) IN
           /\ msgs \in Seq(Messages) /\ Len(msgs) = Len(keys)
           /\ \A i \in 1 .. Len(msgs) : /\ msgs[i].subscriptionId = s /\ ~IsState(msgs[i])
                                        /\ ChangeAt(history, timeline, msgs[i], timeline)
<1> DEFINE msgs == ChangesOf(c, s, keys)
<1>1. Len(keys) \in Nat /\ \A i \in 1 .. Len(keys) : keys[i] \in DOMAIN ctrl[c].cache.Events
  BY ElementType
<1>2. \A i \in 1 .. Len(keys) : /\ msgs[i] \in ChangeSets /\ msgs[i].subscriptionId = s
                                /\ ChangeAt(history, timeline, msgs[i], timeline)
  BY <1>1, ControllerChange DEF ChangesOf
<1>3. \A m \in ChangeSets : ~IsState(m) /\ m \in Messages
  BY DEF ChangeSets, IsState, Messages
<1>4. msgs \in [1 .. Len(keys) -> Messages]
  BY <1>2, <1>3 DEF ChangesOf
<1>5. msgs \in Seq(Messages) /\ Len(msgs) = Len(keys)
  BY <1>1, <1>4, FunctionIsSeq
<1> QED  BY <1>2, <1>3, <1>5

LEMMA SentState ==
    ASSUME DataModelInv, NEW c \in Controllers, NEW s \in Ids
    PROVE  LET m == DataState(s, c) IN
           /\ m \in Messages /\ m.subscriptionId = s /\ IsState(m)
           /\ m.model = Model(timeline, currentIndex(ctrl[c].cache), ctrl[c].model)
<1>1. Model(timeline, currentIndex(ctrl[c].cache), ctrl[c].model) \in Models
  BY ControllerModel
<1> QED  BY <1>1 DEF DataState, Messages, DataStates, IsState

MovedTo(r, n, t) == [r EXCEPT !.currentIndex = n, !.timelineId = t]

LEMMA MovedSender ==
    ASSUME NEW r, IsSender(r), NEW n \in Nat, NEW t
    PROVE  LET s == MovedTo(r, n, t) IN
           /\ IsSender(s) /\ s.subscriptionId = r.subscriptionId
           /\ s.requestModelSync = r.requestModelSync /\ s.timelineId = t
<1> DEFINE f == [r EXCEPT !.currentIndex = n]
<1>1. /\ IsSender(f) /\ f.subscriptionId = r.subscriptionId
      /\ f.requestModelSync = r.requestModelSync
  BY DEF IsSender
<1> HIDE DEF f
<1> DEFINE s == MovedTo(r, n, t)
<1>2. s = [f EXCEPT !.timelineId = t]
  BY DEF f, MovedTo
<1> HIDE DEF s
<1>3. /\ IsSender(s) /\ s.subscriptionId = f.subscriptionId
      /\ s.requestModelSync = f.requestModelSync /\ s.timelineId = t
  BY <1>1, <1>2 DEF IsSender
<1> QED  BY <1>1, <1>3 DEF s

\* The sender afterwards, and all that it has sent.
Emits(c, r, out) ==
    /\ IsSender(out.sender) /\ out.sender.subscriptionId = r.subscriptionId
    /\ out.sender.requestModelSync = r.requestModelSync
    /\ out.msgs \in Seq(Messages)
    /\ \A i \in 1 .. Len(out.msgs) :
          /\ out.msgs[i].subscriptionId = r.subscriptionId
          /\ IsState(out.msgs[i]) => out.msgs[i].model =
                Model(timeline, currentIndex(ctrl[c].cache), ctrl[c].model)
          /\ ~IsState(out.msgs[i]) =>
                ChangeAt(history, timeline, out.msgs[i], timeline) /\ r.timelineId = timeline
    /\ out.sender.timelineId = timeline =>
          \/ r.timelineId = timeline
          \/ \E i \in 1 .. Len(out.msgs) : IsState(out.msgs[i])

LEMMA ModelChangeSends ==
    ASSUME DataModelInv, NEW c \in Controllers, NEW r, IsSender(r), NEW isLeader,
           NEW k \in 0 .. Len(News(Replay(c, r))), NEW stateSent
    PROVE  Emits(c, r, ModelChange(c, r, Replay(c, r), isLeader, k, stateSent))
<1> DEFINE keys == SubSeq(News(Replay(c, r)), 1, k)
           cache == ctrl[c].cache
           msgs == ChangesOf(c, r.subscriptionId, keys)
           sent == [r EXCEPT !.currentIndex = IF keys = <<>> THEN @ ELSE keys[Len(keys)]]
           head == currentIndex(cache)
           full == MovedTo(sent, head, timeline)
           state == DataState(sent.subscriptionId, c)
           out == ModelChange(c, r, Replay(c, r), isLeader, k, stateSent)
<1>1. /\ keys \in Seq(DOMAIN cache.Events) /\ Len(keys) = k /\ k \in Nat
      /\ k > 0 => r.timelineId = timeline
  BY NewsSeq
<1>2. r.subscriptionId \in Ids /\ r.currentIndex \in Nat
  BY DEF IsSender
<1>3. \/ out = [sender |-> r, msgs |-> <<>>]
      \/ out = [sender |-> full, msgs |-> Append(msgs, state)]
      \/ out = [sender |-> sent, msgs |-> msgs]
  BY Zenon DEF ModelChange, FullState, ChangesOf, MovedTo
<1>4. head \in Nat /\ \A i \in DOMAIN cache.Events : i \in Nat
  <2>1. CtrlOK(ctrl[c], Log)
    BY DEF DataModelInv
  <2>2. ctrl[c].applied \in Nat
    BY <2>1, LogFacts DEF CtrlOK
  <2> QED  BY <2>1, <2>2 DEF CtrlOK, CacheOK, CacheType, HoldsChanges, Changes, currentIndex
<1> HIDE DEF keys
<1>5. keys # <<>> => keys[Len(keys)] \in Nat
  <2>1. keys # <<>> => Len(keys) \in 1 .. Len(keys)
    BY <1>1
  <2> QED  BY <1>1, <1>4, <2>1, ElementType
<1>6. /\ IsSender(sent) /\ sent.subscriptionId = r.subscriptionId
      /\ sent.requestModelSync = r.requestModelSync /\ sent.timelineId = r.timelineId
  BY <1>5 DEF IsSender
<1>7. /\ msgs \in Seq(Messages) /\ Len(msgs) = k
      /\ \A i \in 1 .. k : /\ msgs[i].subscriptionId = r.subscriptionId /\ ~IsState(msgs[i])
                           /\ ChangeAt(history, timeline, msgs[i], timeline)
  <2>1. /\ msgs \in Seq(Messages) /\ Len(msgs) = Len(keys)
        /\ \A i \in 1 .. Len(msgs) : /\ msgs[i].subscriptionId = r.subscriptionId
                                     /\ ~IsState(msgs[i]) /\ ChangeAt(history, timeline, msgs[i], timeline)
    BY <1>1, <1>2, SentChanges
  <2> QED  BY Zenon, <1>1, <2>1
<1>8. /\ state \in Messages /\ state.subscriptionId = r.subscriptionId /\ IsState(state)
      /\ state.model = Model(timeline, head, ctrl[c].model)
  BY <1>2, <1>6, SentState
<1> HIDE DEF msgs, sent, head, state
<1>9. /\ IsSender(full) /\ full.subscriptionId = r.subscriptionId
      /\ full.requestModelSync = r.requestModelSync
  BY <1>4, <1>6, MovedSender
<1>10. \A i \in 1 .. k : r.timelineId = timeline
  BY <1>1
<1> SUFFICES Emits(c, r, out)
  OBVIOUS
<1> HIDE DEF out, full
<1>11. CASE out = [sender |-> r, msgs |-> <<>>]
  BY <1>11 DEF Emits
<1>12. CASE out = [sender |-> sent, msgs |-> msgs]
  BY SMTT(20), <1>6, <1>7, <1>10, <1>12 DEF Emits
<1>13. CASE out = [sender |-> full, msgs |-> Append(msgs, state)]
  <2>1. out.sender = full /\ out.msgs = Append(msgs, state)
    BY <1>13
  <2>2. /\ out.msgs \in Seq(Messages) /\ Len(out.msgs) = k + 1 /\ out.msgs[k + 1] = state
        /\ \A i \in 1 .. k : out.msgs[i] = msgs[i]
    BY <1>7, <1>8, <2>1, AppendParts
  <2>3. \A i \in 1 .. Len(out.msgs) : i \in 1 .. k \/ i = k + 1
    BY <1>1, <2>2
  <2>4. k + 1 \in 1 .. Len(out.msgs)
    BY <1>1, <2>2
  <2> QED  BY SMTT(20), <1>7, <1>8, <1>9, <1>10, <2>1, <2>2, <2>3, <2>4 DEF Emits, head
<1> QED  BY Zenon, <1>3, <1>11, <1>12, <1>13 DEF full, out

-----------------------------------------------------------------------------
(* What becomes of messages and senders when the router makes a new id *)

AgedSender(r) == [Aged(r) EXCEPT !.requestModelSync = AgedAll(@)]

LEMMA AgedRequest ==
    ASSUME NEW q, IsRequest(q)
    PROVE  IsRequest(Aged(q)) /\ Aged(q).subscriptionId # Current
<1> DEFINE s == IF q.subscriptionId = Current THEN Old ELSE q.subscriptionId
<1>1. s # Current /\ s \in Ids
  BY Constants DEF IsRequest
<1>2. Aged(q) = [q EXCEPT !.subscriptionId = s]
  BY DEF Aged
<1> HIDE DEF s
<1> QED  BY <1>1, <1>2 DEF IsRequest

\* Changing one field of a sender.
WithRequests(r, qs) == [r EXCEPT !.requestModelSync = qs]
WithId(r, s) == [r EXCEPT !.subscriptionId = s]

LEMMA RequestsSender ==
    ASSUME NEW r, IsSender(r), NEW qs, \A i \in DOMAIN qs : IsRequest(qs[i])
    PROVE  LET s == WithRequests(r, qs) IN
           /\ IsSender(s) /\ s.requestModelSync = qs /\ s.currentIndex = r.currentIndex
           /\ s.subscriptionId = r.subscriptionId /\ s.timelineId = r.timelineId
BY DEF IsSender, WithRequests

LEMMA IdSender ==
    ASSUME NEW r, IsSender(r), NEW id \in Ids
    PROVE  LET s == WithId(r, id) IN
           /\ IsSender(s) /\ s.requestModelSync = r.requestModelSync
           /\ s.currentIndex = r.currentIndex
           /\ s.subscriptionId = id /\ s.timelineId = r.timelineId
BY DEF IsSender, WithId

LEMMA AgedSenderSilent ==
    ASSUME NEW r, IsSender(r)
    PROVE  IsSender(AgedSender(r)) /\ Silent(AgedSender(r))
<1> DEFINE id == IF r.subscriptionId = Current THEN Old ELSE r.subscriptionId
           qs == r.requestModelSync
           f == WithId(r, id)
<1>1. id # Current /\ id \in Ids
  BY Constants DEF IsSender
<1>2. \A i \in DOMAIN qs : IsRequest(Aged(qs[i])) /\ Aged(qs[i]).subscriptionId # Current
  BY AgedRequest DEF IsSender
<1>3. AgedSender(r) = WithRequests(f, AgedAll(f.requestModelSync))
  BY Zenon DEF AgedSender, Aged, WithRequests, WithId
<1> HIDE DEF id, f
<1>4. IsSender(f) /\ f.requestModelSync = qs /\ f.subscriptionId = id
  BY <1>1, IdSender DEF f
<1>5. DOMAIN AgedAll(qs) = DOMAIN qs /\ \A i \in DOMAIN qs : AgedAll(qs)[i] = Aged(qs[i])
  BY DEF AgedAll
<1> HIDE DEF qs
<1>6. /\ IsSender(AgedSender(r)) /\ AgedSender(r).requestModelSync = AgedAll(qs)
      /\ AgedSender(r).subscriptionId = id
  BY <1>2, <1>3, <1>4, <1>5, RequestsSender
<1> QED  BY Zenon, <1>1, <1>2, <1>5, <1>6 DEF Silent

WithOn(r, b) == [r EXCEPT !.on = b]
WithSupport(r, b) == [r EXCEPT !.supportsRouterModel = b]
WithActive(r, b) == [r EXCEPT !.active = b]
WithChange(r, b) == [r EXCEPT !.modelChange = b]

LEMMA FlagSender ==
    ASSUME NEW r, IsSender(r), NEW b
    PROVE  /\ IsSender(WithOn(r, b)) /\ SameSubscription(r, WithOn(r, b))
           /\ IsSender(WithSupport(r, b)) /\ SameSubscription(r, WithSupport(r, b))
           /\ IsSender(WithActive(r, b)) /\ SameSubscription(r, WithActive(r, b))
           /\ IsSender(WithChange(r, b)) /\ SameSubscription(r, WithChange(r, b))
<1>1. IsSender(WithOn(r, b)) /\ SameSubscription(r, WithOn(r, b))
  BY DEF IsSender, SameSubscription, WithOn
<1>2. IsSender(WithSupport(r, b)) /\ SameSubscription(r, WithSupport(r, b))
  BY DEF IsSender, SameSubscription, WithSupport
<1>3. IsSender(WithActive(r, b)) /\ SameSubscription(r, WithActive(r, b))
  BY DEF IsSender, SameSubscription, WithActive
<1>4. IsSender(WithChange(r, b)) /\ SameSubscription(r, WithChange(r, b))
  BY DEF IsSender, SameSubscription, WithChange
<1> QED  BY <1>1, <1>2, <1>3, <1>4

LEMMA FreshSender ==
    ASSUME NEW supports
    PROVE  /\ IsSender(NewSender(supports)) /\ Silent(NewSender(supports))
           /\ NewSender(supports).requestModelSync = <<>>
           /\ NewSender(supports).subscriptionId = NoId
           /\ IsSender(NoSender) /\ Silent(NoSender)
<1>1. IsSender(NoSender) /\ Silent(NoSender)
  BY Constants DEF NoSender, IsSender, Silent, NoRequest
<1>2. /\ NewSender(supports).requestModelSync = <<>>
      /\ NewSender(supports).subscriptionId = NoId
  BY DEF NewSender, NoSender, NoRequest
<1>3. IsSender(NewSender(supports))
  <2>1. NewSender(supports) = WithSupport(WithOn(NoSender, TRUE), supports)
    BY Zenon DEF NewSender, WithSupport, WithOn
  <2> QED  BY Zenon, <1>1, <2>1, FlagSender
<1> HIDE DEF NewSender
<1> QED  BY <1>1, <1>2, <1>3, Constants DEF Silent

LEMMA SubscribedSender ==
    ASSUME NEW r, IsSender(r), NEW q, IsRequest(q)
    PROVE  LET s == Subscribed(r, q) IN
           /\ IsSender(s) /\ s.requestModelSync = <<>>
           /\ s.subscriptionId = q.subscriptionId /\ s.timelineId = q.timelineId
<1> DEFINE n == IF ~q.renew \/ q.subscriptionId # r.subscriptionId
                THEN q.currentIndex ELSE r.currentIndex
           s == Subscribed(r, q)
           f == MovedTo(r, n, q.timelineId)
           g == WithId(f, q.subscriptionId)
           h == WithActive(g, TRUE)
<1>1. n \in Nat /\ q.subscriptionId \in Ids
  BY DEF IsSender, IsRequest
<1>2. s = WithRequests(h, <<>>)
  BY Zenon DEF Subscribed, MovedTo, WithId, WithActive, WithRequests, NoRequest
<1> HIDE DEF s, n
<1>3. IsSender(f) /\ f.timelineId = q.timelineId
  BY <1>1, MovedSender
<1> HIDE DEF f
<1>4. IsSender(g) /\ g.timelineId = q.timelineId /\ g.subscriptionId = q.subscriptionId
  BY <1>1, <1>3, IdSender
<1> HIDE DEF g
<1>5. IsSender(h) /\ h.timelineId = q.timelineId /\ h.subscriptionId = q.subscriptionId
  BY Zenon, <1>4, FlagSender DEF SameSubscription
<1> HIDE DEF h
<1>6. \A i \in DOMAIN <<>> : IsRequest(<<>>[i])
  OBVIOUS
<1> QED  BY SMTT(20), <1>2, <1>5, <1>6, RequestsSender DEF s

LEMMA RequestedSender ==
    ASSUME NEW r, IsSender(r), NEW q, IsRequest(q)
    PROVE  LET s == Requested(r, q) IN
           /\ IsSender(s) /\ s.requestModelSync = <<q>>
           /\ \/ s.subscriptionId = r.subscriptionId /\ s.timelineId = r.timelineId
              \/ s.subscriptionId = NoId
<1> DEFINE qs == <<q>>
<1>1. \A i \in DOMAIN qs : IsRequest(qs[i])
  OBVIOUS
<1>2. qs = <<q>>
  OBVIOUS
<1> HIDE DEF qs
<1>3. CASE r.on
  <2>1. Requested(r, q) = WithRequests(r, qs)
    BY Zenon, <1>3 DEF Requested, WithRequests, qs
  <2>2. LET s == WithRequests(r, qs) IN
        /\ IsSender(s) /\ s.requestModelSync = qs
        /\ s.subscriptionId = r.subscriptionId /\ s.timelineId = r.timelineId
    BY <1>1, RequestsSender
  <2> QED  BY <1>2, <2>1, <2>2
<1>4. CASE ~r.on
  <2>1. Requested(r, q) = WithRequests(NewSender(TRUE), qs)
    BY Zenon, <1>4 DEF Requested, WithRequests, qs
  <2>2. LET s == WithRequests(NewSender(TRUE), qs) IN
        IsSender(s) /\ s.requestModelSync = qs /\ s.subscriptionId = NoId
    <3> DEFINE n == NewSender(TRUE)
    <3>1. IsSender(n) /\ n.subscriptionId = NoId
      BY Zenon, FreshSender
    <3> HIDE DEF n
    <3>2. LET s == WithRequests(n, qs) IN
          IsSender(s) /\ s.requestModelSync = qs /\ s.subscriptionId = NoId
      BY <1>1, <3>1, RequestsSender
    <3> QED  BY Zenon, <3>2 DEF n
  <2> QED  BY Zenon, <1>2, <2>1, <2>2
<1> QED  BY <1>3, <1>4

-----------------------------------------------------------------------------
(* Steps that leave the subscriptions of the senders alone, or stop them *)

\* The sender of c is on the same subscription, with the same messages on the
\* way, or it is not on the current one at all.
SenderKept(c) ==
    /\ IsSender(rtx'[c]) /\ down'[c] \in {down[c], <<>>}
    /\ \/ SameSubscription(rtx[c], rtx'[c]) /\ down'[c] = down[c]
       \/ Silent(rtx'[c])
SendersKept ==
    /\ rtx' = [c \in Controllers |-> rtx'[c]]
    /\ down' = [c \in Controllers |-> down'[c]]
    /\ \A c \in Controllers : SenderKept(c)

PutSender(c, r) == [rtx EXCEPT ![c] = r]

LEMMA SameSender ==
    ASSUME SenderTypes, NEW c \in Controllers, rtx'[c] = rtx[c], down'[c] = down[c]
    PROVE  SenderKept(c)
<1>1. IsSender(rtx[c])
  BY DEF SenderTypes
<1> QED  BY Zenon, <1>1 DEF SenderKept, SameSubscription

LEMMA OneSender ==
    ASSUME Typed, NEW c \in Controllers, NEW r, IsSender(r),
           SameSubscription(rtx[c], r) \/ Silent(r),
           rtx' = PutSender(c, r), down' = down
    PROVE  SendersKept
<1>1. /\ rtx' = [d \in Controllers |-> rtx'[d]]
      /\ \A d \in Controllers : rtx'[d] = IF d = c THEN r ELSE rtx[d]
  BY DEF Typed, SenderTypes, PutSender
<1>2. down' = [d \in Controllers |-> down'[d]] /\ \A d \in Controllers : down'[d] = down[d]
  BY DEF Typed, QueueTypes
<1>3. ASSUME NEW d \in Controllers  PROVE  SenderKept(d)
  <2>1. CASE d # c
    BY <1>1, <1>2, <2>1, SameSender DEF Typed
  <2>2. CASE d = c
    <3>1. rtx'[d] = r /\ down'[d] = down[d]
      BY <1>1, <1>2, <2>2
    <3> QED  BY Zenon, <2>2, <3>1 DEF SenderKept
  <2> QED  BY <2>1, <2>2
<1> QED  BY Zenon, <1>1, <1>2, <1>3 DEF SendersKept

\* The senders whose channels are closed, and those of the others.
LEMMA ClosedSenders ==
    ASSUME Typed, NEW C, Closed(C)
    PROVE  /\ SendersKept
           /\ lowPriority' = [c \in Controllers |-> lowPriority'[c]]
           /\ \A c \in Controllers : /\ lowPriority'[c] \in {<<>>, lowPriority[c]}
                                     /\ c \in C => Silent(rtx'[c]) /\ down'[c] = <<>>
<1>1. /\ rtx' = [c \in Controllers |-> rtx'[c]]
      /\ down' = [c \in Controllers |-> down'[c]]
      /\ lowPriority' = [c \in Controllers |-> lowPriority'[c]]
      /\ \A c \in Controllers :
            IF c \in C THEN rtx'[c] = NoSender /\ down'[c] = <<>> /\ lowPriority'[c] = <<>>
            ELSE rtx'[c] = rtx[c] /\ down'[c] = down[c] /\ lowPriority'[c] = lowPriority[c]
  BY DEF Closed
<1>2. ASSUME NEW c \in Controllers  PROVE  SenderKept(c)
  <2>1. CASE c \notin C
    BY <1>1, <2>1, SameSender DEF Typed
  <2>2. CASE c \in C
    <3>1. rtx'[c] = NoSender /\ down'[c] = <<>>
      BY <1>1, <2>2
    <3> QED  BY Zenon, <3>1, FreshSender DEF SenderKept
  <2> QED  BY <2>1, <2>2
<1>3. Silent(NoSender)
  BY FreshSender
<1>4. SendersKept
  BY Zenon, <1>1, <1>2 DEF SendersKept
<1> QED  BY <1>1, <1>3, <1>4

\* The router and its connections aside from the senders.
Elsewhere == UNCHANGED <<history, timeline, rdm, saved, sub, pool, fix, lowPriority>>

LEMMA FlagSteps ==
    ASSUME Typed, NEW c \in Controllers,
           \/ ApplyEntry(c) \/ FanOut(c) \/ RouterConnected(c) \/ ReceiveClientHello(c)
           \/ SubscriptionExpires(c) \/ Reconnect(c)
    PROVE  SendersKept /\ Elsewhere
<1> USE DEF linkVars, routerVars, ctrlVars
<1>1. IsSender(rtx[c])
  BY DEF Typed, SenderTypes
<1>2. CASE ApplyEntry(c) \/ Reconnect(c)
  <2>1. rtx' = rtx /\ down' = down /\ Elsewhere
    BY <1>2 DEF ApplyEntry, Reconnect, Elsewhere
  <2>2. rtx' = [d \in Controllers |-> rtx'[d]] /\ down' = [d \in Controllers |-> down'[d]]
    BY <2>1 DEF Typed, SenderTypes, QueueTypes
  <2> QED  BY SMTT(20), <2>1, <2>2, SameSender DEF SendersKept, Typed
<1>3. CASE FanOut(c)
  <2> DEFINE b == rtx[c].modelChange \/ (rtx[c].on /\ rtx[c].supportsRouterModel)
  <2>1. rtx' = PutSender(c, WithChange(rtx[c], b)) /\ down' = down /\ Elsewhere
    BY Zenon, <1>3 DEF FanOut, PutSender, WithChange, Elsewhere
  <2> HIDE DEF b
  <2> QED  BY Zenon, <1>1, <2>1, FlagSender, OneSender
<1>4. CASE RouterConnected(c)
  <2>1. rtx' = PutSender(c, NewSender(FALSE)) /\ down' = down /\ Elsewhere
    BY Zenon, <1>4 DEF RouterConnected, PutSender, Elsewhere
  <2> QED  BY Zenon, <2>1, FreshSender, OneSender
<1>5. CASE ReceiveClientHello(c)
  <2>1. rtx' = PutSender(c, WithSupport(rtx[c], TRUE)) /\ down' = down /\ Elsewhere
    BY Zenon, <1>5 DEF ReceiveClientHello, PutSender, WithSupport, Elsewhere
  <2> QED  BY Zenon, <1>1, <2>1, FlagSender, OneSender
<1>6. CASE SubscriptionExpires(c)
  <2>1. rtx' = PutSender(c, WithActive(rtx[c], FALSE)) /\ down' = down /\ Elsewhere
    BY Zenon, <1>6 DEF SubscriptionExpires, PutSender, WithActive, Elsewhere
  <2> QED  BY Zenon, <1>1, <2>1, FlagSender, OneSender
<1> QED  BY SMTT(20), <1>2, <1>3, <1>4, <1>5, <1>6

-----------------------------------------------------------------------------
(* Steps of the senders *)

PutDown(c, msgs) == [down EXCEPT ![c] = @ \o msgs]

LEMMA HandleModelChangeSends ==
    ASSUME Typed, NEW c \in Controllers, NEW r, IsSender(r), HandleModelChange(c, r)
    PROVE  \E s, msgs : Sends(r, s, msgs) /\ rtx' = PutSender(c, s) /\ down' = PutDown(c, msgs)
<1>1. PICK k \in 0 .. Len(News(Replay(c, r))), stateSent \in BOOLEAN :
        \E out \in {ModelChange(c, r, Replay(c, r), isLeader, k, stateSent) : isLeader \in BOOLEAN} :
           rtx' = PutSender(c, out.sender) /\ down' = PutDown(c, out.msgs)
  <2>1. PICK replay \in {Replay(c, r)} : \E k \in 0 .. Len(News(replay)), stateSent \in BOOLEAN :
          \E out \in {ModelChange(c, r, replay, isLeader, k, stateSent) : isLeader \in BOOLEAN} :
             rtx' = PutSender(c, out.sender) /\ down' = PutDown(c, out.msgs)
    BY ZenonT(40) DEF HandleModelChange, PutSender, PutDown
  <2>2. replay = Replay(c, r)
    BY Zenon, <2>1
  <2> QED  BY Zenon, <2>1, <2>2
<1>2. PICK isLeader \in BOOLEAN :
        LET out == ModelChange(c, r, Replay(c, r), isLeader, k, stateSent) IN
        rtx' = PutSender(c, out.sender) /\ down' = PutDown(c, out.msgs)
  BY Zenon, <1>1
<1> DEFINE x == Model(timeline, currentIndex(ctrl[c].cache), ctrl[c].model)
           out == ModelChange(c, r, Replay(c, r), isLeader, k, stateSent)
<1>3. DataModelInv
  BY DEF Typed
<1>4. ModelAt(history, timeline, x, timeline) /\ x.timelineId = timeline
  BY <1>3, ControllerModel
<1>5. rtx' = PutSender(c, out.sender) /\ down' = PutDown(c, out.msgs)
  BY Zenon, <1>2
<1>6. Emits(c, r, out)
  BY Zenon, <1>3, ModelChangeSends
<1> HIDE DEF x, out
<1>7. \A i \in 1 .. Len(out.msgs) : MessageOK(history, timeline, out.msgs[i])
  BY Zenon, <1>4, <1>6 DEF MessageOK, Emits, x
<1>8. Sends(r, out.sender, out.msgs)
  BY Zenon, <1>6, <1>7 DEF Sends, Emits
<1> QED  BY Zenon, <1>5, <1>8

LEMMA SenderStepSends ==
    ASSUME Typed, NEW c \in Controllers, SenderStep(c)
    PROVE  /\ Elsewhere
           /\ \E r, s, msgs : /\ Origin(c, r) /\ Sends(r, s, msgs)
                              /\ rtx' = PutSender(c, s) /\ down' = PutDown(c, msgs)
<1>1. IsSender(rtx[c]) /\ \A i \in DOMAIN rtx[c].requestModelSync : IsRequest(rtx[c].requestModelSync[i])
  BY DEF Typed, SenderTypes, IsSender
<1>2. CASE NotifiedOfModelChange(c)
  <2> DEFINE r == WithChange(rtx[c], FALSE)
  <2>1. HandleModelChange(c, r) /\ Elsewhere
    BY Zenon, <1>2 DEF NotifiedOfModelChange, WithChange, Elsewhere, routerVars, ctrlVars
  <2>2. IsSender(r) /\ SameSubscription(rtx[c], r)
    BY Zenon, <1>1, FlagSender
  <2> HIDE DEF r
  <2>3. PICK s, msgs : Sends(r, s, msgs) /\ rtx' = PutSender(c, s) /\ down' = PutDown(c, msgs)
    BY Zenon, <2>1, <2>2, HandleModelChangeSends
  <2> QED  BY Zenon, <2>1, <2>2, <2>3 DEF Origin
<1>3. CASE HandleSyncRequest(c)
  <2> DEFINE Handled(r) == IF OutOfDate(c, r) THEN HandleModelChange(c, r)
                           ELSE rtx' = PutSender(c, r) /\ UNCHANGED down /\ NoFault
  <2>a. \E q \in Range(rtx[c].requestModelSync) : \E r \in {Subscribed(rtx[c], q)} : Handled(r)
    BY Zenon, <1>3 DEF HandleSyncRequest, PutSender
  <2>b. \A r : Handled(r) => HandleModelChange(c, r) \/ (rtx' = PutSender(c, r) /\ down' = down)
    BY Zenon
  <2> HIDE DEF Handled
  <2>1. PICK q \in Range(rtx[c].requestModelSync) :
          \/ HandleModelChange(c, Subscribed(rtx[c], q))
          \/ rtx' = PutSender(c, Subscribed(rtx[c], q)) /\ down' = down
    BY Zenon, <2>a, <2>b
  <2>2. Elsewhere
    BY Zenon, <1>3 DEF HandleSyncRequest, Elsewhere, routerVars, ctrlVars
  <2>3. PICK i \in DOMAIN rtx[c].requestModelSync : q = rtx[c].requestModelSync[i]
    BY Zenon, <2>1 DEF Range
  <2> DEFINE r == Subscribed(rtx[c], q)
  <2>4. IsRequest(q)
    BY Zenon, <1>1, <2>3
  <2>5. /\ IsSender(r) /\ r.requestModelSync = <<>>
        /\ r.subscriptionId = q.subscriptionId /\ r.timelineId = q.timelineId
    BY Zenon, <1>1, <2>4, SubscribedSender
  <2>6. HandleModelChange(c, r) \/ (rtx' = PutSender(c, r) /\ down' = down)
    BY Zenon, <2>1
  <2> HIDE DEF r
  <2>7. Origin(c, r)
    BY Zenon, <2>3, <2>5 DEF Origin, FromRequest
  <2>8. CASE HandleModelChange(c, r)
    <3>1. PICK s, msgs : Sends(r, s, msgs) /\ rtx' = PutSender(c, s) /\ down' = PutDown(c, msgs)
      BY Zenon, <2>5, <2>8, HandleModelChangeSends
    <3> QED  BY Zenon, <2>2, <2>7, <3>1
  <2>9. CASE rtx' = PutSender(c, r) /\ down' = down
    <3> DEFINE none == <<>>
    <3>1. none \in Seq(Messages) /\ Len(none) = 0 /\ 1 .. Len(none) = {}
      OBVIOUS
    <3>2. PutDown(c, none) = down
      <4>1. down \in [Controllers -> Seq(Messages)]
        BY DEF Typed, QueueTypes
      <4>2. down[c] \in Seq(Messages)
        BY <4>1
      <4>3. down[c] \o none = down[c]
        BY <4>2
      <4> HIDE DEF none
      <4> QED  BY <4>1, <4>3 DEF PutDown
    <3> HIDE DEF none
    <3>3. Sends(r, r, none)
      BY <2>5, <3>1 DEF Sends
    <3> QED  BY Zenon, <2>2, <2>7, <2>9, <3>2, <3>3
  <2> QED  BY <2>6, <2>8, <2>9
<1> QED  BY SMTT(20), <1>2, <1>3 DEF SenderStep

-----------------------------------------------------------------------------
(* Every step keeps the types *)

LEMMA KeptTypes ==
    ASSUME Typed, SendersKept
    PROVE  SenderTypes' /\ down' \in [Controllers -> Seq(Messages)]
<1>1. /\ rtx' = [c \in Controllers |-> rtx'[c]] /\ down' = [c \in Controllers |-> down'[c]]
      /\ \A c \in Controllers : IsSender(rtx'[c]) /\ down'[c] \in {down[c], <<>>}
  BY Zenon DEF SendersKept, SenderKept
<1>2. down \in [Controllers -> Seq(Messages)]
  BY DEF Typed, QueueTypes
<1>3. ASSUME NEW c \in Controllers  PROVE  down'[c] \in Seq(Messages)
  <2>1. <<>> \in Seq(Messages) /\ down[c] \in Seq(Messages)
    BY <1>2
  <2> QED  BY Zenon, <1>1, <2>1
<1>4. down' \in [Controllers -> Seq(Messages)]
  BY <1>1, <1>3
<1> QED  BY Zenon, <1>1, <1>4 DEF SenderTypes

LEMMA SentTypes ==
    ASSUME Typed, NEW c \in Controllers, NEW s, IsSender(s), NEW msgs \in Seq(Messages),
           rtx' = PutSender(c, s), down' = PutDown(c, msgs)
    PROVE  SenderTypes' /\ down' \in [Controllers -> Seq(Messages)]
<1>1. /\ rtx' = [d \in Controllers |-> rtx'[d]]
      /\ \A d \in Controllers : rtx'[d] = IF d = c THEN s ELSE rtx[d]
  BY DEF Typed, SenderTypes, PutSender
<1>2. \A d \in Controllers : IsSender(rtx'[d])
  BY <1>1 DEF Typed, SenderTypes
<1>3. down \in [Controllers -> Seq(Messages)]
  BY DEF Typed, QueueTypes
<1>4. down[c] \o msgs \in Seq(Messages)
  BY <1>3, ConcatParts
<1>5. down' \in [Controllers -> Seq(Messages)]
  BY <1>3, <1>4 DEF PutDown
<1> QED  BY Zenon, <1>1, <1>2, <1>5 DEF SenderTypes

\* The router makes a new subscription id.
LEMMA AgedTypes ==
    ASSUME Typed, NewSubscriptionId
    PROVE  /\ SenderTypes' /\ QueueTypes' /\ pool' = AgedAll(pool)
           /\ \A c \in Controllers : Silent(rtx'[c]) /\ down'[c] = AgedAll(down[c])
<1>1. /\ rtx' = [c \in Controllers |-> AgedSender(rtx[c])]
      /\ down' = [c \in Controllers |-> AgedAll(down[c])] /\ pool' = AgedAll(pool)
  BY Zenon DEF NewSubscriptionId, AgedSender
<1>2. \A c \in Controllers : IsSender(AgedSender(rtx[c])) /\ Silent(AgedSender(rtx[c]))
  BY AgedSenderSilent DEF Typed, SenderTypes
<1>3. /\ rtx' = [c \in Controllers |-> rtx'[c]]
      /\ \A c \in Controllers : rtx'[c] = AgedSender(rtx[c])
  <2> HIDE DEF AgedSender
  <2> QED  BY <1>1
<1>4. \A c \in Controllers : AgedAll(down[c]) \in Seq(Messages)
  BY AgedMessages DEF Typed, QueueTypes
<1>5. AgedAll(pool) \in Seq(Messages) /\ Len(AgedAll(pool)) = Len(pool)
  BY AgedMessages DEF Typed, QueueTypes
<1>6. \A c \in Controllers : down'[c] = AgedAll(down[c])
  BY <1>1
<1>7. down' \in [Controllers -> Seq(Messages)]
  BY <1>1, <1>4
<1>8. QueueTypes'
  BY <1>1, <1>5, <1>7 DEF QueueTypes, Typed
<1>9. SenderTypes'
  BY Zenon, <1>2, <1>3 DEF SenderTypes
<1> QED  BY Zenon, <1>1, <1>2, <1>3, <1>6, <1>8, <1>9

\* The request of the subscription manager.
NewRequest ==
    [currentIndex |-> mgr[4], renew |-> mgr[3],
     timelineId |-> rdm.timelineId, subscriptionId |-> Current]

LEMMA SubscribeStep ==
    ASSUME Typed, SendSubscribe
    PROVE  /\ UNCHANGED <<history, timeline, rdm, saved, pool, fix, lowPriority, down>>
           /\ IsRequest(NewRequest)
           /\ \/ rtx' = rtx /\ sub' \in {sub, NoSubscription}
              \/ /\ mgr[2] \in Controllers /\ sub' \in {sub, NoSubscription}
                 /\ rtx' = PutSender(mgr[2], Requested(rtx[mgr[2]], NewRequest))
<1>1. UNCHANGED <<history, timeline, rdm, saved, pool, fix, lowPriority, down>>
  BY DEF SendSubscribe, ctrlVars
<1>2. IsRequest(NewRequest)
  BY Constants DEF SendSubscribe, NewRequest, IsRequest, Typed, ManagerTypes, CopyTypes, Models
<1>3. /\ sub' \in {sub, NoSubscription}
      /\ rtx' = rtx \/ rtx' = PutSender(mgr[2], Requested(rtx[mgr[2]], NewRequest))
  BY Zenon DEF SendSubscribe, PutSender, NewRequest
<1>4. ASSUME NEW r, mgr[2] \notin Controllers  PROVE  PutSender(mgr[2], r) = rtx
  BY <1>4 DEF Typed, SenderTypes, PutSender
<1> QED  BY Zenon, <1>1, <1>2, <1>3, <1>4

\* Steps that change the router's copy or its queues.
LEMMA ReceiveTypes ==
    ASSUME Typed, NEW c \in Controllers, Receive(c)
    PROVE  CopyTypes' /\ QueueTypes'
<1>1. down \in [Controllers -> Seq(Messages)] /\ pool \in Seq(Messages) /\ Len(pool) <= PoolSize
  BY DEF Typed, QueueTypes
<1>2. down[c] \in Seq(Messages) /\ down[c] # <<>>
  BY <1>1 DEF Receive
<1> DEFINE m == Head(down[c])
           rest == Tail(down[c])
<1>3. m \in Messages /\ rest \in Seq(Messages)
  BY <1>2, HeadAndTail
<1>4. /\ down' = [down EXCEPT ![c] = rest]
      /\ pool' = pool \/ (pool' = Append(pool, m) /\ ~(Len(pool) >= PoolSize))
      /\ sub' \in {sub, NoSubscription}
      /\ UNCHANGED <<rdm, saved, fix, lowPriority>>
  BY DEF Receive, QueueFull
<1> HIDE DEF m, rest
<1>5. down' \in [Controllers -> Seq(Messages)]
  BY <1>1, <1>3, <1>4
<1>6. pool' \in Seq(Messages) /\ Len(pool') <= PoolSize
  <2>1. Len(pool) \in Nat /\ PoolSize \in Nat
    BY <1>1, Constants
  <2>2. Append(pool, m) \in Seq(Messages) /\ Len(Append(pool, m)) = Len(pool) + 1
    BY SMTT(20), <1>1, <1>3, AppendParts
  <2>3. ~(Len(pool) >= PoolSize) => Len(pool) + 1 <= PoolSize
    BY <2>1
  <2> QED  BY Zenon, <1>1, <1>4, <2>2, <2>3
<1> QED  BY <1>4, <1>5, <1>6 DEF CopyTypes, QueueTypes, Typed

\* A model after it has taken in a change (Store).
TakenIn(x, m) == [x EXCEPT !.index = m.index, !.contents = @ \cup {m.change}]

LEMMA TakesIn ==
    ASSUME NEW x \in Models, NEW m \in ChangeSets
    PROVE  /\ TakenIn(x, m) = Model(x.timelineId, m.index, x.contents \cup {m.change})
           /\ TakenIn(x, m) \in Models
<1>1. m.index \in Nat /\ m.change \in Nat \X Nat
  BY DEF ChangeSets
<1> DEFINE f == [x EXCEPT !.index = m.index]
           cs == x.contents \cup {m.change}
<1>2. f = Model(x.timelineId, m.index, x.contents)
  BY DEF Models, Model
<1>3. TakenIn(x, m) = [f EXCEPT !.contents = cs]
  BY <1>2 DEF TakenIn, Model
<1> HIDE DEF f, cs
<1>4. TakenIn(x, m) = Model(x.timelineId, m.index, cs)
  BY <1>2, <1>3 DEF Model
<1>5. cs \in SUBSET (Nat \X Nat) /\ x.timelineId \in Timelines \cup {NoTimeline}
  BY <1>1 DEF cs, Models
<1> QED  BY <1>1, <1>4, <1>5 DEF Model, Models, cs

LEMMA WorkerTypes ==
    ASSUME Typed, WorkerStep
    PROVE  /\ CopyTypes' /\ QueueTypes' /\ rtx' = rtx
<1>1. /\ pool \in Seq(Messages) /\ Len(pool) <= PoolSize /\ pool # <<>>
      /\ pool' = Tail(pool) /\ UNCHANGED <<rtx, down, saved, fix, lowPriority>>
      /\ sub' \in {sub, NoSubscription}
  BY DEF Typed, QueueTypes, WorkerStep, ApplyChangeSet, ApplyDataState, linkVars
<1> DEFINE m == Head(pool)
<1>2. m \in Messages /\ Tail(pool) \in Seq(Messages) /\ Len(Tail(pool)) = Len(pool) - 1
  BY <1>1, HeadAndTail
<1>3. Len(Tail(pool)) <= PoolSize
  <2>1. Len(pool) \in Nat /\ PoolSize \in Nat
    BY <1>1, Constants
  <2> QED  BY <1>1, <1>2, <2>1
<1>4. rdm \in Models
  BY DEF Typed, CopyTypes
<1>5. rdm' \in Models
  <2>1. CASE ApplyChangeSet
    <3>1. m.type = "changeSet"
      BY <2>1 DEF ApplyChangeSet
    <3>2. \/ rdm' = rdm
          \/ rdm' = TakenIn(rdm, m)
      BY Zenon, <2>1 DEF ApplyChangeSet, TakenIn
    <3> HIDE DEF m
    <3>3. m \in ChangeSets
      BY <1>2, <3>1 DEF Messages, DataStates
    <3> QED  BY Zenon, <1>4, <3>2, <3>3, TakesIn
  <2>2. CASE ApplyDataState
    <3>1. m.type = "dataState" /\ rdm' = m.model
      BY <2>2 DEF ApplyDataState
    <3> HIDE DEF m
    <3> QED  BY <1>2, <3>1 DEF Messages, ChangeSets, DataStates
  <2> QED  BY <2>1, <2>2 DEF WorkerStep
<1> QED  BY SMTT(20), <1>1, <1>2, <1>3, <1>5 DEF CopyTypes, QueueTypes, Typed

LEMMA RepairTypes ==
    ASSUME Typed, \/ \E c \in Controllers : RequestValidation(c) \/ Validate(c)
                  \/ RepairStep
    PROVE  CopyTypes' /\ UNCHANGED <<rtx, down, pool>>
<1>1. /\ rdm \in Models /\ fix \in Seq(Models)
      /\ lowPriority \in [Controllers -> Seq(Models)]
  BY DEF Typed, CopyTypes
<1>2. ASSUME NEW c \in Controllers, RequestValidation(c)
      PROVE  CopyTypes' /\ UNCHANGED <<rtx, down, pool>>
  <2>1. /\ lowPriority' = [lowPriority EXCEPT ![c] = Append(@, ValidateRequest(c))]
        /\ UNCHANGED <<rtx, down, pool, rdm, saved, sub, fix>>
    BY SMTT(20), <1>2 DEF RequestValidation, routerVars
  <2> DEFINE x == ValidateRequest(c)
  <2>2. x \in Models
    <3>1. Model(timeline, currentIndex(ctrl[c].cache), ctrl[c].model) \in Models
      BY ControllerModel DEF Typed
    <3> QED  BY <3>1 DEF ValidateRequest, Model, Models
  <2> HIDE DEF x
  <2>3. Append(lowPriority[c], x) \in Seq(Models)
    BY <1>1, <2>2
  <2>4. lowPriority' \in [Controllers -> Seq(Models)]
    BY SMTT(20), <1>1, <2>1, <2>3 DEF x
  <2> QED  BY <2>1, <2>4 DEF CopyTypes, Typed
<1>3. ASSUME NEW c \in Controllers, Validate(c)
      PROVE  CopyTypes' /\ UNCHANGED <<rtx, down, pool>>
  <2>1. /\ lowPriority' = [lowPriority EXCEPT ![c] = Tail(@)] /\ lowPriority[c] # <<>>
        /\ fix' = fix \/ fix' = <<Head(lowPriority[c])>>
        /\ UNCHANGED <<rtx, down, pool, rdm, saved, sub>>
    BY <1>3 DEF Validate
  <2>2. Head(lowPriority[c]) \in Models /\ Tail(lowPriority[c]) \in Seq(Models)
    BY <1>1, <2>1, HeadAndTail
  <2>3. fix' \in Seq(Models)
    <3> DEFINE x == Head(lowPriority[c])
    <3>1. fix' = fix \/ fix' = <<x>>
      BY <2>1
    <3> HIDE DEF x
    <3>2. x \in Models
      BY <2>2 DEF x
    <3>3. <<x>> \in Seq(Models)
      BY <3>2
    <3> QED  BY Zenon, <1>1, <3>1, <3>3
  <2>4. lowPriority' \in [Controllers -> Seq(Models)]
    BY SMTT(20), <1>1, <2>1, <2>2
  <2> QED  BY SMTT(20), <2>1, <2>3, <2>4 DEF CopyTypes, Typed
<1>4. ASSUME ReplaceModel  PROVE  CopyTypes' /\ UNCHANGED <<rtx, down, pool>>
  <2>1. /\ fix # <<>> /\ rdm' = fix[1] /\ fix' = <<>>
        /\ UNCHANGED <<rtx, down, pool, saved, sub, lowPriority>>
    BY <1>4 DEF ReplaceModel, NoFix, linkVars
  <2>2. fix[1] \in Models
    BY <1>1, <2>1
  <2>3. fix' \in Seq(Models)
    BY SMTT(20), <2>1
  <2> QED  BY <2>1, <2>2, <2>3 DEF CopyTypes, Typed
<1>5. ASSUME ResetSubscription  PROVE  CopyTypes' /\ UNCHANGED <<rtx, down, pool>>
  <2>1. sub' = NoSubscription /\ UNCHANGED <<rtx, down, pool, rdm, saved, fix, lowPriority>>
    BY <1>5 DEF ResetSubscription, linkVars
  <2> QED  BY <2>1 DEF CopyTypes, Typed
<1> QED  BY SMTT(20), <1>2, <1>3, <1>4, <1>5 DEF RepairStep

\* The index of the request that the manager is about to send is one that the
\* router's model had.
LEMMA ManagerTypesStep ==
    ASSUME Typed, [Next]_vars
    PROVE  ManagerTypes'
<1> USE DEF linkVars, routerVars, ManagerTypes, Idle
<1>1. rdm.index \in Nat /\ ManagerTypes
  BY DEF Typed, CopyTypes, Models
<1>2. ASSUME mgr' = mgr \/ mgr' = <<>>  PROVE  ManagerTypes'
  BY <1>1, <1>2
<1>4. ASSUME NEW c \in Controllers,
             \/ ApplyEntry(c) \/ FanOut(c) \/ RouterConnected(c) \/ ReceiveClientHello(c)
             \/ SenderStep(c) \/ Receive(c) \/ Validate(c) \/ Reconnect(c)
             \/ SubscriptionExpires(c) \/ RequestValidation(c)
             \/ Disconnect(c) \/ RestartController(c) \/ EndpointChanged(c)
      PROVE  mgr' = mgr
  BY Zenon, <1>4 DEF ApplyEntry, FanOut, RouterConnected, ReceiveClientHello, SenderStep,
       NotifiedOfModelChange, HandleSyncRequest, Receive, Validate, Reconnect,
       SubscriptionExpires, RequestValidation, Disconnect, RestartController, EndpointChanged
<1>5. ASSUME WorkerStep \/ RepairStep \/ Commit \/ Restore \/ Save \/ RestartRouter \/ UNCHANGED vars
      PROVE  mgr' = mgr \/ mgr' = <<>>
  BY Zenon, <1>5 DEF WorkerStep, ApplyChangeSet, ApplyDataState, RepairStep, ResetSubscription,
       ReplaceModel, Commit, Restore, Save, RestartRouter, vars
<1>6. ASSUME NEW c \in Controllers, CheckSubscription(c)  PROVE  ManagerTypes'
  <2>1. PICK b : mgr' = <<"flag", c, b>>
    BY Zenon, <1>6 DEF CheckSubscription
  <2> QED  BY <2>1
<1>7. CASE LoadResync
  BY <1>7 DEF LoadResync
<1>8. CASE LoadIndex
  BY <1>1, <1>8 DEF LoadIndex
<1>9. CASE SendSubscribe
  <2>1. mgr' = <<"sent", mgr[2]>> \/ mgr' = <<>>
    BY Zenon, <1>9 DEF SendSubscribe
  <2> QED  BY <2>1
<1>10. CASE SubscribeSent
  BY <1>10 DEF SubscribeSent
<1> HIDE DEF ManagerTypes
<1> QED  BY SMTT(20), <1>2, <1>4, <1>5, <1>6, <1>7, <1>8, <1>9, <1>10 DEF Next, Environment, ManagerStep

\* Every step keeps the types.
LEMMA TypedStep == Typed /\ [Next]_vars => Typed'
<1> SUFFICES ASSUME Typed, [Next]_vars  PROVE  CopyTypes' /\ QueueTypes' /\ SenderTypes'
  BY NextInv, ManagerTypesStep DEF Typed
<1> USE DEF ctrlVars, linkVars, routerVars
<1>1. CopyTypes /\ QueueTypes /\ SenderTypes
  BY DEF Typed
<1>2. ASSUME UNCHANGED <<rdm, saved, fix, lowPriority>>, sub' \in {sub, NoSubscription}
      PROVE  CopyTypes'
  BY <1>1, <1>2 DEF CopyTypes
<1>3. ASSUME pool' = pool, down' \in [Controllers -> Seq(Messages)]  PROVE  QueueTypes'
  BY <1>1, <1>3 DEF QueueTypes
<1>4. ASSUME UNCHANGED <<pool, down>>  PROVE  QueueTypes'
  BY <1>1, <1>4 DEF QueueTypes
<1>5. ASSUME UNCHANGED rtx  PROVE  SenderTypes'
  BY <1>1, <1>5 DEF SenderTypes
<1>6. ASSUME NEW c \in Controllers,
             \/ ApplyEntry(c) \/ FanOut(c) \/ RouterConnected(c) \/ ReceiveClientHello(c)
             \/ SubscriptionExpires(c) \/ Reconnect(c)
      PROVE  CopyTypes' /\ QueueTypes' /\ SenderTypes'
  <2>1. SendersKept /\ Elsewhere
    BY Zenon, <1>6, FlagSteps
  <2>2. UNCHANGED <<rdm, saved, fix, lowPriority, pool>> /\ sub' \in {sub, NoSubscription}
    BY <2>1 DEF Elsewhere
  <2> QED  BY SMTT(20), <1>2, <1>3, <2>1, <2>2, KeptTypes
<1>7. ASSUME NEW c \in Controllers, SenderStep(c)
      PROVE  CopyTypes' /\ QueueTypes' /\ SenderTypes'
  <2>1. Elsewhere
    BY Zenon, <1>7, SenderStepSends
  <2>2. PICK r, s, msgs : /\ Origin(c, r) /\ Sends(r, s, msgs)
                          /\ rtx' = PutSender(c, s) /\ down' = PutDown(c, msgs)
    BY Zenon, <1>7, SenderStepSends
  <2>3. IsSender(s) /\ msgs \in Seq(Messages)
    BY <2>2 DEF Sends
  <2>4. SenderTypes' /\ down' \in [Controllers -> Seq(Messages)]
    BY Zenon, <2>2, <2>3, SentTypes
  <2>5. UNCHANGED <<rdm, saved, fix, lowPriority, pool>> /\ sub' \in {sub, NoSubscription}
    BY <2>1 DEF Elsewhere
  <2> QED  BY <1>2, <1>3, <2>4, <2>5
<1>8. ASSUME NEW c \in Controllers, Receive(c)
      PROVE  CopyTypes' /\ QueueTypes' /\ SenderTypes'
  <2>1. rtx' = rtx
    BY <1>8 DEF Receive
  <2> QED  BY Zenon, <1>5, <1>8, <2>1, ReceiveTypes
<1>9. ASSUME NEW c \in Controllers, EndpointChanged(c)
      PROVE  CopyTypes' /\ QueueTypes' /\ SenderTypes'
  BY SMTT(20), <1>2, <1>4, <1>5, <1>9 DEF EndpointChanged
<1>10. ASSUME NEW c \in Controllers, CheckSubscription(c)
       PROVE  CopyTypes' /\ QueueTypes' /\ SenderTypes'
  <2>1. UNCHANGED <<rdm, saved, fix, lowPriority>> /\ sub' = <<c>>
    BY <1>10 DEF CheckSubscription
  <2>2. CopyTypes'
    BY <1>1, <2>1 DEF CopyTypes
  <2>3. UNCHANGED <<rtx, down, pool>> \/ NewSubscriptionId
    BY <1>10 DEF CheckSubscription
  <2> QED  BY SMTT(20), <1>4, <1>5, <2>2, <2>3, AgedTypes
<1>11. CASE SendSubscribe
  <2>1. UNCHANGED <<rdm, saved, pool, fix, lowPriority, down>> /\ sub' \in {sub, NoSubscription}
    BY <1>11, SubscribeStep
  <2>2. SenderTypes'
    <3>1. CASE rtx' = rtx
      BY <1>5, <3>1
    <3>2. CASE rtx' # rtx
      <4> DEFINE c == mgr[2]
                 s == Requested(rtx[c], NewRequest)
      <4>1. c \in Controllers /\ rtx' = PutSender(c, s) /\ IsRequest(NewRequest)
        BY Zenon, <1>11, <3>2, SubscribeStep
      <4>2. IsSender(rtx[c])
        BY <1>1, <4>1 DEF SenderTypes
      <4>3. IsSender(s)
        BY Zenon, <4>1, <4>2, RequestedSender
      <4> HIDE DEF c, s
      <4> QED  BY <1>1, <4>1, <4>3 DEF SenderTypes, PutSender
    <3> QED  BY <3>1, <3>2
  <2> QED  BY SMTT(20), <1>2, <1>4, <2>1, <2>2
<1>12. CASE LoadResync \/ LoadIndex \/ SubscribeSent \/ Commit
  BY <1>2, <1>4, <1>5, <1>12 DEF LoadResync, LoadIndex, SubscribeSent, Commit
<1>13. CASE WorkerStep
  BY <1>5, <1>13, WorkerTypes
<1>14. CASE (\E c \in Controllers : RequestValidation(c) \/ Validate(c)) \/ RepairStep
  BY SMTT(20), <1>4, <1>5, <1>14, RepairTypes
<1>15. ASSUME NEW C, Closed(C), pool' \in {pool, <<>>}, fix' \in {fix, NoFix},
              rdm' \in {rdm, saved, EmptyModel}, saved' = saved, sub' \in {sub, NoSubscription}
       PROVE  CopyTypes' /\ QueueTypes' /\ SenderTypes'
  <2>1. SendersKept
    BY Zenon, <1>15, ClosedSenders
  <2>2. lowPriority' \in [Controllers -> Seq(Models)]
    <3>1. lowPriority' = [c \in Controllers |-> lowPriority'[c]]
      BY Zenon, <1>15, ClosedSenders
    <3>2. \A c \in Controllers : lowPriority'[c] \in {<<>>, lowPriority[c]}
      BY Zenon, <1>15, ClosedSenders
    <3>3. <<>> \in Seq(Models) /\ \A c \in Controllers : lowPriority[c] \in Seq(Models)
      BY <1>1 DEF CopyTypes
    <3>4. \A c \in Controllers : lowPriority'[c] \in Seq(Models)
      BY Zenon, <3>2, <3>3
    <3> QED  BY <3>1, <3>4
  <2>3. EmptyModel \in Models
    BY DEF EmptyModel, Model, Models
  <2>4. fix' \in Seq(Models) /\ pool' \in Seq(Messages) /\ Len(pool') <= PoolSize
    <3>1. <<>> \in Seq(Models) /\ <<>> \in Seq(Messages) /\ Len(<<>>) = 0 /\ 0 <= PoolSize
      BY SMTT(20), Constants
    <3> QED  BY Zenon, <1>1, <1>15, <3>1 DEF CopyTypes, QueueTypes, NoFix
  <2>5. CopyTypes'
    BY SMTT(20), <1>1, <1>15, <2>2, <2>3, <2>4 DEF CopyTypes
  <2> QED  BY SMTT(20), <2>1, <2>4, <2>5, KeptTypes DEF QueueTypes
<1>16. ASSUME NEW c \in Controllers, Disconnect(c) \/ RestartController(c)
       PROVE  CopyTypes' /\ QueueTypes' /\ SenderTypes'
  <2>1. Closed({c}) /\ UNCHANGED <<pool, fix, rdm, saved, sub>>
    BY Zenon, <1>16 DEF Disconnect, RestartController
  <2> QED  BY Zenon, <1>15, <2>1
<1>17. CASE Restore
  <2>1. Closed(Controllers) /\ UNCHANGED <<pool, fix, rdm, saved, sub>>
    BY Zenon, <1>17 DEF Restore
  <2> QED  BY Zenon, <1>15, <2>1
<1>18. CASE RestartRouter
  <2>1. /\ Closed(Controllers) /\ pool' = <<>> /\ fix' = NoFix /\ rdm' \in {saved, EmptyModel}
        /\ saved' = saved /\ sub' = NoSubscription
    BY Zenon, <1>18 DEF RestartRouter
  <2> QED  BY Zenon, <1>15, <2>1
<1>19. CASE Save
  <2>1. saved' = rdm /\ UNCHANGED <<rdm, fix, lowPriority, sub, rtx, down, pool>>
    BY Zenon, <1>19 DEF Save
  <2>2. CopyTypes'
    BY <1>1, <2>1 DEF CopyTypes
  <2> QED  BY SMTT(20), <1>4, <1>5, <2>1, <2>2
<1>20. CASE UNCHANGED vars
  BY <1>2, <1>4, <1>5, <1>20 DEF vars
<1> QED  BY SMTT(20), <1>6, <1>7, <1>8, <1>9, <1>10, <1>11, <1>12, <1>13, <1>14, <1>16, <1>17, <1>18, <1>19,
            <1>20 DEF Next, Environment, ManagerStep

LEMMA TypedInit == Init => Typed
<1> SUFFICES ASSUME Init  PROVE  CopyTypes /\ QueueTypes /\ SenderTypes
  BY InitInv DEF Typed, ManagerTypes, Init
<1>1. /\ rtx = [c \in Controllers |-> NewSender(TRUE)]
      /\ down = [c \in Controllers |-> <<>>] /\ lowPriority = down
      /\ rdm = EmptyModel /\ saved = EmptyModel /\ sub = NoSubscription
      /\ pool = <<>> /\ fix = <<>>
  BY DEF Init, NoFix
<1>2. EmptyModel \in Models
  BY DEF EmptyModel, Model, Models
<1>3. CopyTypes
  BY <1>1, <1>2 DEF CopyTypes
<1>4. QueueTypes
  BY <1>1, Constants DEF QueueTypes
<1>5. SenderTypes
  <2>1. IsSender(NewSender(TRUE))
    BY Zenon, FreshSender
  <2>2. rtx = [c \in Controllers |-> rtx[c]] /\ \A c \in Controllers : rtx[c] = NewSender(TRUE)
    BY <1>1
  <2> QED  BY Zenon, <2>1, <2>2 DEF SenderTypes
<1> QED  BY <1>3, <1>4, <1>5

THEOREM TypeInvariance == Spec => []Typed
BY TypedInit, TypedStep, PTL DEF Spec

\* The pool's queue never outgrows its size, a ring holds no event without a
\* slot of its own and never runs ahead of the raft entries applied, and the
\* router subscribes to at most one controller (storeLocked,
\* GetRouterDataModelPool().QueueOrError, dataModelSubscription).
THEOREM DataModelTypeCorrect == Spec => []DataModelTypeOK
<1>1. Typed => DataModelTypeOK
  <2> SUFFICES ASSUME Typed  PROVE  DataModelTypeOK
    OBVIOUS
  <2>1. timeline \in Timelines /\ \A c \in Controllers : CtrlOK(ctrl[c], Log)
    BY LogFacts DEF Typed, DataModelInv
  <2>2. /\ rdm.timelineId \in Timelines \cup {NoTimeline}
        /\ sub \in {NoSubscription} \cup {<<c>> : c \in Controllers} /\ Len(pool) <= PoolSize
    BY DEF Typed, CopyTypes, QueueTypes, Models
  <2>3. ASSUME NEW c \in Controllers
        PROVE  LET cache == ctrl[c].cache IN
               /\ cache.HeadLogIndex \in Slots
               /\ DOMAIN cache.Events \subseteq Range(cache.Log)
               /\ ctrl[c].applied >= currentIndex(cache)
    <3> DEFINE cache == ctrl[c].cache
    <3>1. /\ cache.HeadLogIndex \in Slots /\ cache.Log \in [Slots -> Nat]
          /\ \A i \in DOMAIN cache.Events : \E s \in Slots : cache.Log[s] = i
          /\ currentIndex(cache) <= ctrl[c].applied /\ ctrl[c].applied \in 1 .. Len(Log)
      BY Zenon, <2>1 DEF CtrlOK, CacheOK, CacheType, HoldsChanges
    <3>2. currentIndex(cache) \in Nat /\ ctrl[c].applied \in Nat
      <4>1. DataModelInv
        BY DEF Typed
      <4>2. Len(Log) \in Nat
        BY <4>1, LogFacts
      <4> QED  BY <3>1, <4>2 DEF currentIndex
    <3> HIDE DEF cache
    <3>3. DOMAIN cache.Events \subseteq Range(cache.Log)
      BY <3>1 DEF Range
    <3> QED  BY <3>1, <3>2, <3>3 DEF cache
  <2> QED  BY Zenon, <2>1, <2>2, <2>3 DEF DataModelTypeOK
<1> QED  BY <1>1, TypeInvariance, PTL

-----------------------------------------------------------------------------
(* Logs only grow *)

LEMMA StepGrown ==
    ASSUME Typed, Next
    PROVE  /\ Grown(history, timeline, history', timeline')
           /\ Histories(history, timeline) /\ Histories(history', timeline')
           /\ timeline' = timeline \/ Restore
<1>1. DataModelInv /\ DataModelInv'
  BY NextInv DEF Typed
<1>2. Histories(history, timeline) /\ Histories(history', timeline')
  <2>1. Histories(history, timeline)
    BY Zenon, <1>1, HistoryType
  <2>2. Histories(history, timeline)'
    BY <1>1, HistoryType, PTL
  <2> QED  BY <2>1, <2>2
<1>3. /\ timeline \in Nat \ {0} /\ history \in [Timelines -> Logs] /\ timeline \in Timelines
      /\ \A t \in 1 .. timeline : Len(history[t]) \in Nat
  BY <1>1, <1>2, LogFacts DEF DataModelInv, Histories, Logs
<1>4. CASE Commit
  <2>1. PICK model \in BOOLEAN :
          history' = [history EXCEPT ![timeline] = Append(@, [timeline |-> timeline, model |-> model])]
    BY Zenon, <1>4 DEF Commit
  <2>2. timeline' = timeline
    BY <1>4 DEF Commit
  <2> DEFINE e == [timeline |-> timeline, model |-> model]
             new == Append(history[timeline], e)
  <2>3. e \in [timeline : Nat, model : BOOLEAN] /\ history[timeline] \in Logs
    BY <1>3
  <2> HIDE DEF e
  <2>4. Len(new) = Len(history[timeline]) + 1 /\ \A i \in 1 .. Len(history[timeline]) : new[i] = history[timeline][i]
    BY <2>3, AppendParts DEF Logs
  <2>5. history' = [history EXCEPT ![timeline] = new]
    BY <2>1 DEF e
  <2> HIDE DEF new
  <2>6. \A t \in 1 .. timeline : history'[t] = IF t = timeline THEN new ELSE history[t]
    BY <1>3, <2>5
  <2>7. \A t \in 1 .. timeline : Extends(history[t], history'[t])
    BY <1>3, <2>4, <2>6 DEF Extends
  <2> QED  BY <1>2, <1>3, <2>2, <2>7 DEF Grown
<1>5. CASE Restore
  <2>1. PICK n \in 1 .. Len(Log) : \E len \in {n, Len(Log) + 1} :
          history' = [history EXCEPT ![timeline + 1] = Branched(n, len)]
    BY Zenon, <1>5 DEF Restore
  <2>2. PICK len \in {n, Len(Log) + 1} :
          history' = [history EXCEPT ![timeline + 1] = Branched(n, len)]
    BY Zenon, <2>1
  <2>3. timeline' = timeline + 1
    BY <1>5 DEF Restore
  <2> DEFINE new == Branched(n, len)
  <2> HIDE DEF new
  <2>4. \A t \in 1 .. timeline : history'[t] = history[t]
    <3>1. history' = [history EXCEPT ![timeline + 1] = new]
      BY <2>2 DEF new
    <3>2. \A t \in 1 .. timeline : t # timeline + 1 /\ t \in Timelines
      BY <1>1, <1>3, Constants DEF DataModelInv, Timelines
    <3> QED  BY SMTT(20), <1>3, <3>1, <3>2
  <2> QED  BY <1>2, <1>3, <1>5, <2>3, <2>4 DEF Grown, Extends
<1>6. CASE UNCHANGED <<history, timeline>>
  BY SMTT(20), <1>1, <1>2, <1>6, SameHistory
<1>7. ASSUME NEW c \in Controllers, ApplyEntry(c) \/ FanOut(c) \/ RestartController(c)
      PROVE  UNCHANGED <<history, timeline>>
  BY Zenon, <1>7 DEF ApplyEntry, FanOut, RestartController
<1> QED  BY <1>4, <1>5, <1>6, <1>7, OtherStep DEF ctrlVars

-----------------------------------------------------------------------------
(* The steps: what keeps each part of the invariant *)

\* The facts about the log that every step may use.
LogGrows ==
    /\ Histories(history, timeline) /\ Histories(history', timeline')
    /\ Grown(history, timeline, history', timeline')

LEMMA CopiesStep ==
    ASSUME LogGrows,
           Sound(history, timeline, rdm'), Sound(history, timeline, saved'),
           fix' # NoFix => Full(history, timeline, fix'[1]),
           \A c \in Controllers : \A i \in 1 .. Len(lowPriority'[c]) :
              Full(history, timeline, lowPriority'[c][i])
    PROVE  Copies'
<1>1. /\ \A x : Full(history, timeline, x) => Full(history', timeline', x)
      /\ \A x : Sound(history, timeline, x) => Sound(history', timeline', x)
  BY Zenon, GrownSound DEF LogGrows
<1> QED  BY Zenon, <1>1 DEF Copies

LEMMA MessageGrown ==
    ASSUME NEW h, NEW n, NEW g, Histories(h, n), Histories(g, n), Grown(h, n, g, n),
           NEW m \in Messages, MessageOK(h, n, m)
    PROVE  MessageOK(g, n, m)
<1>1. CASE IsState(m)
  BY Zenon, <1>1, GrownModel DEF MessageOK
<1>2. CASE ~IsState(m)
  <2>1. m \in ChangeSets
    BY <1>2 DEF Messages, DataStates, IsState
  <2> QED  BY Zenon, <1>2, <2>1, GrownChange DEF MessageOK
<1> QED  BY <1>1, <1>2

\* Every message on the way is one that was, or has just been sent.
LEMMA DownStep ==
    ASSUME LogGrows, timeline' = timeline, down' \in [Controllers -> Seq(Messages)],
           \A c \in Controllers : \A i \in 1 .. Len(down'[c]) :
              MessageOK(history, timeline, down'[c][i])
    PROVE  DownOK'
<1>1. ASSUME NEW c \in Controllers, NEW i \in 1 .. Len(down'[c])
      PROVE  MessageOK(history', timeline', down'[c][i])
  <2>1. down'[c][i] \in Messages
    <3> DEFINE d == down'[c]
    <3>1. d \in Seq(Messages)
      OBVIOUS
    <3> HIDE DEF d
    <3>2. \A j \in 1 .. Len(d) : d[j] \in Messages
      BY <3>1, ElementType
    <3> QED  BY Zenon, <3>2 DEF d
  <2>2. MessageOK(history, timeline, down'[c][i])
    OBVIOUS
  <2> QED  BY Zenon, <2>1, <2>2, MessageGrown DEF LogGrows
<1> QED  BY Zenon, <1>1 DEF DownOK

LEMMA DownKept ==
    ASSUME Typed, LogGrows, DownOK, SendersKept, timeline' = timeline
    PROVE  DownOK'
<1>1. down' \in [Controllers -> Seq(Messages)]
  BY Zenon, KeptTypes
<1>2. ASSUME NEW c \in Controllers, NEW i \in 1 .. Len(down'[c])
      PROVE  MessageOK(history, timeline, down'[c][i])
  <2>1. down'[c] = down[c] \/ down'[c] = <<>>
    BY Zenon DEF SendersKept, SenderKept
  <2>2. CASE down'[c] = <<>>
    BY <1>2, <2>2
  <2>3. CASE down'[c] = down[c]
    BY Zenon, <1>2, <2>3 DEF DownOK
  <2> QED  BY <2>1, <2>2, <2>3
<1> QED  BY Zenon, <1>1, <1>2, DownStep

\* The pool and the router's copy stay as they are.
LEMMA PoolKept ==
    ASSUME Typed, LogGrows, UNCHANGED <<rdm, pool>>,
           PoolOK(history, timeline, Stage(rdm), pool)
    PROVE  PoolOK(history', timeline', Stage(rdm'), pool')
<1>1. pool \in Seq(Messages) /\ pool' = pool /\ Stage(rdm') = Stage(rdm)
  BY DEF Typed, QueueTypes
<1>2. PoolOK(history', timeline', Stage(rdm), pool)
  BY Zenon, <1>1, PoolGrown DEF LogGrows
<1> QED  BY Zenon, <1>1, <1>2

\* The subscription stays or is dropped, and so do the senders'.
Supplied(c) == Covered(down[c]) /\ SenderOK(rtx[c], down[c], timeline)

LEMMA SuppliedKept ==
    ASSUME NEW c \in Controllers, SenderKept(c), Supplied(c), timeline' = timeline
    PROVE  Supplied(c)'
<1>1. CASE SameSubscription(rtx[c], rtx'[c]) /\ down'[c] = down[c]
  BY Zenon, <1>1, SameSenderOK DEF Supplied
<1>2. CASE Silent(rtx'[c]) /\ down'[c] \in {down[c], <<>>}
  <2>1. Covered(down'[c])
    BY Zenon, <1>2, NothingCovered DEF Supplied
  <2>2. SenderOK(rtx'[c], down'[c], timeline')
    BY Zenon, <1>2, SilentSender
  <2> QED  BY Zenon, <2>1, <2>2 DEF Supplied
<1> QED  BY Zenon, <1>1, <1>2 DEF SenderKept

LEMMA FirstKept ==
    ASSUME StateFirst, UNCHANGED <<rdm, pool, timeline>>, sub' \in {sub, NoSubscription},
           \A c \in Controllers : IsCurrentController(c) /\ Supplied(c) => Supplied(c)'
    PROVE  StateFirst'
<1>1. Stage(rdm') = Stage(rdm) /\ pool' = pool /\ timeline' = timeline
  OBVIOUS
<1>2. CASE Grounded(Stage(rdm), pool, timeline)
  BY Zenon, <1>1, <1>2 DEF StateFirst
<1>3. CASE \A c \in Controllers : IsCurrentController(c) => Supplied(c)
  <2>1. ASSUME NEW c \in Controllers, IsCurrentController(c)'  PROVE  Supplied(c)'
    <3>1. IsCurrentController(c)
      BY Zenon, <2>1 DEF IsCurrentController
    <3> QED  BY Zenon, <1>3, <3>1
  <2> QED  BY Zenon, <2>1 DEF StateFirst, Supplied
<1> QED  BY Zenon, <1>2, <1>3 DEF StateFirst, Supplied
-----------------------------------------------------------------------------
(* The steps of the controllers and of their senders *)

LEMMA CopiesKept ==
    ASSUME LogGrows, Copies, UNCHANGED <<rdm, fix, lowPriority>>, saved' \in {saved, rdm}
    PROVE  Copies'
<1>1. Sound(history, timeline, rdm') /\ Sound(history, timeline, saved')
  BY Zenon DEF Copies
<1>2. fix' # NoFix => Full(history, timeline, fix'[1])
  BY Zenon DEF Copies
<1>3. \A c \in Controllers : \A i \in 1 .. Len(lowPriority'[c]) :
         Full(history, timeline, lowPriority'[c][i])
  BY Zenon DEF Copies
<1> QED  BY Zenon, <1>1, <1>2, <1>3, CopiesStep

LEMMA KindsKept ==
    ASSUME Kinds, UNCHANGED <<timeline, fix, lowPriority>>
    PROVE  Kinds'
BY Zenon DEF Kinds

\* Nothing but the senders changes, and these keep their subscriptions.
LEMMA FrameStep ==
    ASSUME Typed, LogGrows, ViewInv, SendersKept, UNCHANGED <<timeline, rdm, pool>>,
           sub' \in {sub, NoSubscription}, Copies', Kinds'
    PROVE  ViewInv'
<1>1. DownOK /\ StateFirst /\ PoolOK(history, timeline, Stage(rdm), pool)
  BY Zenon DEF ViewInv
<1>2. DownOK'
  BY Zenon, <1>1, DownKept
<1>3. PoolOK(history', timeline', Stage(rdm'), pool')
  BY Zenon, <1>1, PoolKept
<1>4. \A c \in Controllers : IsCurrentController(c) /\ Supplied(c) => Supplied(c)'
  <2>1. \A c \in Controllers : SenderKept(c)
    BY Zenon DEF SendersKept
  <2> QED  BY Zenon, <2>1, SuppliedKept
<1>5. StateFirst'
  BY Zenon, <1>1, <1>4, FirstKept
<1> QED  BY Zenon, <1>2, <1>3, <1>5 DEF ViewInv

\* No sender is touched.
LEMMA SendersSame ==
    ASSUME Typed, UNCHANGED <<rtx, down>>
    PROVE  SendersKept
<1>1. rtx' = [d \in Controllers |-> rtx'[d]] /\ down' = [d \in Controllers |-> down'[d]]
  BY DEF Typed, SenderTypes, QueueTypes
<1>2. \A c \in Controllers : rtx'[c] = rtx[c] /\ down'[c] = down[c]
  BY Zenon
<1>3. SenderTypes
  BY DEF Typed
<1> QED  BY Zenon, <1>1, <1>2, <1>3, SameSender DEF SendersKept

LEMMA QuietSteps ==
    ASSUME Typed, LogGrows, ViewInv, SendersKept, UNCHANGED <<timeline, rdm, pool, fix, lowPriority>>,
           saved' \in {saved, rdm}, sub' \in {sub, NoSubscription}
    PROVE  ViewInv'
<1>1. Copies /\ Kinds
  BY Zenon DEF ViewInv
<1>2. Copies' /\ Kinds'
  BY Zenon, <1>1, CopiesKept, KindsKept
<1> QED  BY Zenon, <1>2, FrameStep

\* A channel is closed.
LEMMA ClosedStep ==
    ASSUME Typed, LogGrows, ViewInv, NEW C, Closed(C),
           UNCHANGED <<timeline, rdm, saved, pool, fix, sub>>
    PROVE  ViewInv'
<1>1. SendersKept /\ \A c \in Controllers : lowPriority'[c] \in {<<>>, lowPriority[c]}
  BY Zenon, ClosedSenders
<1>2. Copies /\ Kinds
  BY Zenon DEF ViewInv
<1>3. ASSUME NEW c \in Controllers, NEW i \in 1 .. Len(lowPriority'[c])
      PROVE  Full(history, timeline, lowPriority'[c][i])
  <2>1. CASE lowPriority'[c] = <<>>
    BY <1>3, <2>1
  <2>2. CASE lowPriority'[c] = lowPriority[c]
    BY Zenon, <1>2, <1>3, <2>2 DEF Copies
  <2> QED  BY Zenon, <1>1, <2>1, <2>2
<1>4. Copies'
  <2>1. /\ Sound(history, timeline, rdm') /\ Sound(history, timeline, saved')
        /\ fix' # NoFix => Full(history, timeline, fix'[1])
    BY Zenon, <1>2 DEF Copies
  <2> QED  BY Zenon, <1>3, <2>1, CopiesStep
<1>5. Kinds'
  BY Zenon, <1>1, <1>2 DEF Kinds
<1> QED  BY Zenon, <1>1, <1>4, <1>5, FrameStep

LEMMA SenderViewStep ==
    ASSUME Typed, LogGrows, ViewInv, NEW c \in Controllers, SenderStep(c)
    PROVE  ViewInv'
<1>1. Elsewhere
  BY Zenon, SenderStepSends
<1>2. UNCHANGED <<timeline, rdm, saved, sub, pool, fix, lowPriority>>
  BY <1>1 DEF Elsewhere
<1>3. PICK r, s, msgs : /\ Origin(c, r) /\ Sends(r, s, msgs)
                        /\ rtx' = PutSender(c, s) /\ down' = PutDown(c, msgs)
  BY Zenon, SenderStepSends
<1>4. IsSender(s) /\ msgs \in Seq(Messages)
      /\ \A i \in 1 .. Len(msgs) : MessageOK(history, timeline, msgs[i])
  BY Zenon, <1>3 DEF Sends
<1>5. down' \in [Controllers -> Seq(Messages)]
  BY Zenon, <1>3, <1>4, SentTypes
<1>6. down \in [Controllers -> Seq(Messages)] /\ rtx = [d \in Controllers |-> rtx[d]]
  BY DEF Typed, QueueTypes, SenderTypes
<1>7. /\ \A d \in Controllers : d # c => rtx'[d] = rtx[d] /\ down'[d] = down[d]
      /\ rtx'[c] = s /\ down'[c] = down[c] \o msgs
  BY <1>3, <1>6 DEF PutSender, PutDown
<1>8. Copies /\ Kinds /\ DownOK /\ StateFirst /\ PoolOK(history, timeline, Stage(rdm), pool)
  BY Zenon DEF ViewInv
<1>9. DownOK'
  <2>1. ASSUME NEW d \in Controllers, NEW i \in 1 .. Len(down'[d])
        PROVE  MessageOK(history, timeline, down'[d][i])
    <3>1. CASE d # c
      BY Zenon, <1>7, <1>8, <2>1, <3>1 DEF DownOK
    <3>2. CASE d = c
      <4> DEFINE e == down[c]
      <4>1. e \in Seq(Messages) /\ down'[d] = e \o msgs
        BY <1>6, <1>7, <3>2
      <4>2. \A j \in 1 .. Len(e) : MessageOK(history, timeline, e[j])
        BY Zenon, <1>8 DEF DownOK
      <4> HIDE DEF e
      <4>3. \/ i \in 1 .. Len(e) /\ (e \o msgs)[i] = e[i]
            \/ i - Len(e) \in 1 .. Len(msgs) /\ (e \o msgs)[i] = msgs[i - Len(e)]
        BY SMTT(20), <1>4, <2>1, <4>1, ConcatParts
      <4> QED  BY Zenon, <1>4, <4>1, <4>2, <4>3
    <3> QED  BY <3>1, <3>2
  <2> QED  BY Zenon, <1>2, <1>5, <2>1, DownStep
<1>10. ASSUME NEW d \in Controllers, Supplied(d)  PROVE  Supplied(d)'
  <2>1. CASE d # c
    BY Zenon, <1>2, <1>7, <1>10, <2>1 DEF Supplied
  <2>2. CASE d = c
    <3>1. Covered(down[c]) /\ SenderOK(rtx[c], down[c], timeline)
      BY Zenon, <1>10, <2>2 DEF Supplied
    <3>2. SenderOK(r, down[c], timeline)
      BY Zenon, <1>3, <3>1, OriginOK
    <3>3. down[c] \in Seq(Messages)
      BY <1>6
    <3>4. Covered(down[c] \o msgs) /\ SenderOK(s, down[c] \o msgs, timeline)
      BY Zenon, <1>3, <3>1, <3>2, <3>3, SendsCovered
    <3> QED  BY Zenon, <1>2, <1>7, <2>2, <3>4 DEF Supplied
  <2> QED  BY <2>1, <2>2
<1>11. StateFirst'
  BY Zenon, <1>2, <1>8, <1>10, FirstKept
<1>12. Copies' /\ Kinds'
  BY Zenon, <1>2, <1>8, CopiesKept, KindsKept
<1>13. PoolOK(history', timeline', Stage(rdm'), pool')
  BY Zenon, <1>2, <1>8, PoolKept
<1> QED  BY Zenon, <1>9, <1>11, <1>12, <1>13 DEF ViewInv
=============================================================================

------------------------ MODULE DataModelViewProofs -------------------------
(***************************************************************************)
(* The router's copy of the data model implements DataModelView, for any   *)
(* number of controllers, any log and any number of disturbances.          *)
(***************************************************************************)
EXTENDS DataModelStepProofs

USE DEF repairVars

(* The steps of the subscription manager *)

LEMMA AgedOK ==
    ASSUME NEW h, NEW n, NEW m \in Messages, MessageOK(h, n, m)
    PROVE  MessageOK(h, n, Aged(m))
<1>1. Alike(m, Aged(m))
  BY AgedMessage DEF Alike
<1> QED  BY Zenon, <1>1 DEF Alike, MessageOK, ChangeAt

\* The router makes a new subscription: no message that is on the way is of it.
LEMMA NewSubscriptionStep ==
    ASSUME Typed, LogGrows, ViewInv, NewSubscriptionId,
           UNCHANGED <<timeline, rdm, saved, fix, lowPriority>>
    PROVE  ViewInv'
<1>1. /\ QueueTypes' /\ pool' = AgedAll(pool)
      /\ \A c \in Controllers : Silent(rtx'[c]) /\ down'[c] = AgedAll(down[c])
  BY Zenon, AgedTypes
<1>2. Copies /\ Kinds /\ DownOK /\ StateFirst /\ PoolOK(history, timeline, Stage(rdm), pool)
  BY Zenon DEF ViewInv
<1>3. pool \in Seq(Messages) /\ \A c \in Controllers : down[c] \in Seq(Messages)
  BY DEF Typed, QueueTypes
<1>4. Copies' /\ Kinds'
  BY Zenon, <1>2, CopiesKept, KindsKept
<1>5. DownOK'
  <2>1. ASSUME NEW c \in Controllers, NEW i \in 1 .. Len(down'[c])
        PROVE  MessageOK(history, timeline, down'[c][i])
    <3> DEFINE d == down[c]
    <3>1. d \in Seq(Messages) /\ down'[c] = AgedAll(d)
          /\ \A j \in 1 .. Len(d) : MessageOK(history, timeline, d[j])
      BY Zenon, <1>1, <1>2, <1>3 DEF DownOK
    <3> HIDE DEF d
    <3>2. Len(AgedAll(d)) = Len(d)
          /\ \A j \in 1 .. Len(d) : AgedAll(d)[j] = Aged(d[j]) /\ d[j] \in Messages
      BY Zenon, <3>1, AgedMessages
    <3>3. i \in 1 .. Len(d)
      BY Zenon, <2>1, <3>1, <3>2
    <3>4. down'[c][i] = Aged(d[i]) /\ d[i] \in Messages /\ MessageOK(history, timeline, d[i])
      BY Zenon, <3>1, <3>2, <3>3
    <3> QED  BY Zenon, <3>4, AgedOK
  <2>2. down' \in [Controllers -> Seq(Messages)]
    BY Zenon, <1>1 DEF QueueTypes
  <2> QED  BY Zenon, <2>1, <2>2, DownStep
<1>6. StateFirst'
  <2>1. ASSUME NEW c \in Controllers  PROVE  Supplied(c)'
    <3>1. Covered(down'[c])
      BY Zenon, <1>1, <1>3, AgedCovered
    <3>2. SenderOK(rtx'[c], down'[c], timeline')
      BY Zenon, <1>1, SilentSender
    <3> QED  BY Zenon, <3>1, <3>2 DEF Supplied
  <2> QED  BY Zenon, <2>1 DEF StateFirst, Supplied
<1>7. PoolOK(history', timeline', Stage(rdm'), pool')
  <2>1. PoolOK(history, timeline, Stage(rdm), pool')
    BY Zenon, <1>1, <1>2, <1>3, PoolAged
  <2>2. pool' \in Seq(Messages)
    BY Zenon, <1>1 DEF QueueTypes
  <2>3. PoolOK(history', timeline', Stage(rdm), pool')
    BY Zenon, <2>1, <2>2, PoolGrown DEF LogGrows
  <2>4. Stage(rdm') = Stage(rdm)
    OBVIOUS
  <2> QED  BY Zenon, <2>3, <2>4
<1> QED  BY Zenon, <1>4, <1>5, <1>6, <1>7 DEF ViewInv

LEMMA CheckViewStep ==
    ASSUME Typed, LogGrows, ViewInv, NEW c \in Controllers, CheckSubscription(c)
    PROVE  ViewInv'
<1>1. UNCHANGED <<timeline, rdm, saved, fix, lowPriority>> /\ sub' = <<c>>
  BY DEF CheckSubscription, ctrlVars
<1>2. \/ NewSubscriptionId
      \/ UNCHANGED <<rtx, down, pool>> /\ IsCurrentController(c)
  BY Zenon DEF CheckSubscription
<1>3. CASE NewSubscriptionId
  BY Zenon, <1>1, <1>3, NewSubscriptionStep
<1>4. CASE UNCHANGED <<rtx, down, pool>> /\ IsCurrentController(c)
  <2>1. SendersKept
    BY Zenon, <1>4, SendersSame
  <2>2. sub' = sub
    <3>1. PICK d \in Controllers : sub = <<d>>
      BY <1>4 DEF Typed, CopyTypes, IsCurrentController
    <3>2. d = c
      BY <1>4, <3>1 DEF IsCurrentController
    <3> QED  BY Zenon, <1>1, <3>1, <3>2
  <2> QED  BY Zenon, <1>1, <1>4, <2>1, <2>2, QuietSteps
<1> QED  BY <1>2, <1>3, <1>4

\* A copy that names the timeline in use is of it.
LEMMA NamedStage ==
    ASSUME Typed, Kinds, Sound(history, timeline, rdm), rdm.timelineId = timeline
    PROVE  Stage(rdm) = timeline
<1>1. timeline \in Nat \ {0}
  BY LogFacts DEF Typed
<1>2. rdm # EmptyModel
  BY <1>1 DEF EmptyModel, Model, NoTimeline
<1>3. Full(history, timeline, rdm)
  BY Zenon, <1>2 DEF Sound
<1>4. Stage(rdm) \in 1 .. timeline
  BY Zenon, <1>3 DEF Full, ModelAt
<1>5. rdm.index # 0
  BY <1>4 DEF Stage
<1>6. "restore" \notin Faults => timeline = 1
  BY Zenon DEF Kinds
<1> QED  BY <1>5, <1>6 DEF Stage

LEMMA SubscribeViewStep ==
    ASSUME Typed, LogGrows, ViewInv, SendSubscribe
    PROVE  ViewInv'
<1>1. UNCHANGED <<timeline, rdm, saved, pool, fix, lowPriority, down>> /\ IsRequest(NewRequest)
  BY Zenon, SubscribeStep
<1>2. CASE rtx' = rtx /\ sub' \in {sub, NoSubscription}
  <2>1. SendersKept
    BY Zenon, <1>1, <1>2, SendersSame
  <2> QED  BY Zenon, <1>1, <1>2, <2>1, QuietSteps
<1>3. ASSUME NEW c \in Controllers, sub' \in {sub, NoSubscription},
             rtx' = PutSender(c, Requested(rtx[c], NewRequest))
      PROVE  ViewInv'
  <2> DEFINE s == Requested(rtx[c], NewRequest)
             q == NewRequest
  <2>1. IsSender(rtx[c])
    BY DEF Typed, SenderTypes
  <2>2. /\ IsSender(s) /\ s.requestModelSync = <<q>>
        /\ \/ s.subscriptionId = rtx[c].subscriptionId /\ s.timelineId = rtx[c].timelineId
           \/ s.subscriptionId = NoId
    BY Zenon, <1>1, <2>1, RequestedSender
  <2>3. q.timelineId = rdm.timelineId
    BY DEF NewRequest
  <2> HIDE DEF s, q
  <2>4. rtx'[c] = s /\ \A d \in Controllers : d # c => rtx'[d] = rtx[d]
    <3>1. rtx' = PutSender(c, s)
      BY Zenon, <1>3 DEF s
    <3> QED  BY <3>1 DEF Typed, SenderTypes, PutSender
  <2>5. Copies /\ Kinds /\ DownOK /\ StateFirst /\ PoolOK(history, timeline, Stage(rdm), pool)
    BY Zenon DEF ViewInv
  <2>6. Copies' /\ Kinds'
    BY Zenon, <1>1, <2>5, CopiesKept, KindsKept
  <2>7. PoolOK(history', timeline', Stage(rdm'), pool')
    BY Zenon, <1>1, <2>5, PoolKept
  <2>8. DownOK'
    <3>1. down' \in [Controllers -> Seq(Messages)]
      BY <1>1 DEF Typed, QueueTypes
    <3>2. \A d \in Controllers : \A i \in 1 .. Len(down'[d]) :
             MessageOK(history, timeline, down'[d][i])
      BY Zenon, <1>1, <2>5 DEF DownOK
    <3> QED  BY Zenon, <1>1, <3>1, <3>2, DownStep
  <2>9. CASE Grounded(Stage(rdm), pool, timeline)
    <3>1. StateFirst'
      <4>1. Stage(rdm') = Stage(rdm) /\ pool' = pool /\ timeline' = timeline
        BY <1>1
      <4> QED  BY Zenon, <2>9, <4>1 DEF StateFirst
    <3> QED  BY Zenon, <2>6, <2>7, <2>8, <3>1 DEF ViewInv
  <2>10. CASE ~Grounded(Stage(rdm), pool, timeline)
    <3>1. q.timelineId # timeline
      <4>1. Sound(history, timeline, rdm)
        BY Zenon, <2>5 DEF Copies
      <4> QED  BY Zenon, <2>3, <2>5, <2>10, <4>1, NamedStage DEF Grounded
    <3>2. \A i \in DOMAIN s.requestModelSync : s.requestModelSync[i] = q
      BY <2>2
    <3>3. NoId # Current
      BY DEF NoId, Current
    <3>4. SenderOK(rtx[c], down[c], timeline) => SenderOK(s, down[c], timeline)
      BY Zenon, <2>2, <3>1, <3>2, <3>3 DEF SenderOK
    <3>5. ASSUME NEW d \in Controllers, Supplied(d)  PROVE  Supplied(d)'
      <4>1. CASE d = c
        BY Zenon, <1>1, <2>4, <3>4, <3>5, <4>1 DEF Supplied
      <4>2. CASE d # c
        BY Zenon, <1>1, <2>4, <3>5, <4>2 DEF Supplied
      <4> QED  BY <4>1, <4>2
    <3>6. StateFirst'
      BY Zenon, <1>1, <1>3, <2>5, <3>5, FirstKept
    <3> QED  BY Zenon, <2>6, <2>7, <2>8, <3>6 DEF ViewInv
  <2> QED  BY <2>9, <2>10
<1> QED  BY Zenon, <1>2, <1>3, SubscribeStep
-----------------------------------------------------------------------------
(* What arrives at the router *)

\* A message on the way is fit for the pool.
LEMMA MessageFull ==
    ASSUME Typed, Kinds, NEW m \in Messages, MessageOK(history, timeline, m), IsState(m)
    PROVE  Full(history, timeline, m.model) /\ Stage(m.model) = timeline
<1> DEFINE x == m.model
<1>1. ModelAt(history, timeline, x, timeline) /\ x.timelineId = timeline
  BY Zenon DEF MessageOK
<1> HIDE DEF x
<1>2. x.index # 0
  BY <1>1 DEF ModelAt
<1>3. "restore" \notin Faults => timeline = 1
  BY Zenon DEF Kinds
<1>4. Stage(x) = timeline
  BY <1>1, <1>2, <1>3 DEF Stage
<1> QED  BY Zenon, <1>1, <1>4 DEF Full, x

LEMMA ReceiveViewStep ==
    ASSUME Typed, LogGrows, ViewInv, NEW c \in Controllers, Receive(c)
    PROVE  ViewInv'
<1> DEFINE d == down[c]
           m == Head(d)
<1>1. /\ UNCHANGED <<timeline, rdm, saved, fix, lowPriority, rtx>>
      /\ d # <<>> /\ down' = [down EXCEPT ![c] = Tail(d)]
  BY Zenon DEF Receive, ctrlVars
<1>2. \/ Accepted(c, m) /\ pool' = Append(pool, m) /\ sub' = sub
      \/ Accepted(c, m) /\ pool' = pool /\ sub' = NoSubscription
      \/ ~Accepted(c, m) /\ pool' = pool /\ sub' = sub
  BY Zenon DEF Receive
<1>3. Copies /\ Kinds /\ DownOK /\ StateFirst /\ PoolOK(history, timeline, Stage(rdm), pool)
  BY Zenon DEF ViewInv
<1>4. /\ pool \in Seq(Messages) /\ down \in [Controllers -> Seq(Messages)] /\ d \in Seq(Messages)
  BY DEF Typed, QueueTypes
<1>5. down'[c] = Tail(d) /\ \A e \in Controllers : e # c => down'[e] = down[e]
  BY <1>1, <1>4
<1>6. /\ m \in Messages /\ MessageOK(history, timeline, m)
      /\ \A i \in 1 .. Len(Tail(d)) : MessageOK(history, timeline, Tail(d)[i])
  <2>1. \A i \in 1 .. Len(d) : MessageOK(history, timeline, d[i])
    BY Zenon, <1>3 DEF DownOK
  <2> HIDE DEF d
  <2>2. d[1] \in Messages
    <3>1. 1 \in 1 .. Len(d)
      BY Zenon, <1>1, <1>4, TailOf
    <3> QED  BY <1>4, <3>1, ElementType
  <2> QED  BY Zenon, <1>1, <1>4, <2>1, <2>2, TailOf
<1> HIDE DEF m, d
<1>7. Copies' /\ Kinds'
  BY Zenon, <1>1, <1>3, CopiesKept, KindsKept
<1>8. DownOK'
  <2>1. down' \in [Controllers -> Seq(Messages)]
    BY Zenon, ReceiveTypes DEF QueueTypes
  <2>2. \A e \in Controllers : \A i \in 1 .. Len(down'[e]) :
           MessageOK(history, timeline, down'[e][i])
    BY Zenon, <1>3, <1>5, <1>6 DEF DownOK
  <2> QED  BY Zenon, <1>1, <2>1, <2>2, DownStep
<1>9. timeline \in Nat /\ Stage(rdm) \in 0 .. timeline
  <2>1. timeline \in Nat /\ rdm \in Models
    BY LogFacts DEF Typed, CopyTypes
  <2>2. Sound(history, timeline, rdm)
    BY Zenon, <1>3 DEF Copies
  <2> QED  BY Zenon, <2>1, <2>2, StageType
<1>10. Stage(rdm') = Stage(rdm) /\ timeline' = timeline
  BY <1>1
<1>11. CASE Accepted(c, m) /\ pool' = Append(pool, m) /\ sub' = sub
  <2>1. IsCurrentController(c) /\ m.subscriptionId = Current
    BY Zenon, <1>11 DEF Accepted
  <2>2. ASSUME IsState(m)
        PROVE  PoolOK(history, timeline, Stage(rdm), pool') /\ Grounded(Stage(rdm), pool', timeline)
    <3>1. Full(history, timeline, m.model) /\ Stage(m.model) = timeline
      BY Zenon, <1>3, <1>6, <2>2, MessageFull
    <3>2. PoolOK(history, timeline, Stage(rdm), pool')
      BY Zenon, <1>3, <1>4, <1>6, <1>9, <1>11, <2>2, <3>1, PoolAppend
    <3>3. Grounded(Stage(rdm), pool', timeline)
      BY Zenon, <1>4, <1>11, <2>2, <3>1, GroundedAppend DEF Carries
    <3> QED  BY Zenon, <3>2, <3>3
  <2>3. ASSUME ~IsState(m)
        PROVE  PoolOK(history, timeline, Stage(rdm), pool') /\ Grounded(Stage(rdm), pool', timeline)
    <3>1. Grounded(Stage(rdm), pool, timeline)
      <4>1. Covered(d) => IsState(m)
        BY Zenon, <1>1, <1>4, <2>1, CoveredTail DEF m
      <4> QED  BY Zenon, <1>3, <2>1, <2>3, <4>1 DEF StateFirst, d
    <3>2. ChangeAt(history, timeline, m, timeline)
      BY Zenon, <1>6, <2>3 DEF MessageOK
    <3>3. PoolOK(history, timeline, Stage(rdm), pool')
      BY Zenon, <1>3, <1>4, <1>6, <1>9, <1>11, <2>3, <3>1, <3>2, PoolAppend
    <3>4. Grounded(Stage(rdm), pool', timeline)
      BY Zenon, <1>4, <1>11, <3>1, GroundedAppend
    <3> QED  BY Zenon, <3>3, <3>4
  <2>4. PoolOK(history, timeline, Stage(rdm), pool') /\ Grounded(Stage(rdm), pool', timeline)
    BY Zenon, <2>2, <2>3
  <2>5. StateFirst'
    BY Zenon, <1>10, <2>4 DEF StateFirst
  <2>6. PoolOK(history', timeline', Stage(rdm'), pool')
    <3>1. pool' \in Seq(Messages)
      BY Zenon, ReceiveTypes DEF QueueTypes
    <3>2. PoolOK(history', timeline', Stage(rdm), pool')
      BY Zenon, <2>4, <3>1, PoolGrown DEF LogGrows
    <3> QED  BY Zenon, <1>10, <3>2
  <2> QED  BY Zenon, <1>7, <1>8, <2>5, <2>6 DEF ViewInv
<1>12. CASE pool' = pool /\ sub' = NoSubscription
  <2>1. StateFirst'
    BY Zenon, <1>12 DEF StateFirst, IsCurrentController
  <2>2. PoolOK(history', timeline', Stage(rdm'), pool')
    BY Zenon, <1>1, <1>3, <1>12, PoolKept
  <2> QED  BY Zenon, <1>7, <1>8, <2>1, <2>2 DEF ViewInv
<1>13. CASE ~Accepted(c, m) /\ pool' = pool /\ sub' = sub
  <2>1. ASSUME NEW e \in Controllers, IsCurrentController(e), Supplied(e)  PROVE  Supplied(e)'
    <3>1. CASE e # c
      BY Zenon, <1>1, <1>5, <2>1, <3>1 DEF Supplied
    <3>2. CASE e = c
      <4>1. m.subscriptionId # Current
        BY Zenon, <1>13, <2>1, <3>2 DEF Accepted
      <4>2. Covered(d) /\ SenderOK(rtx[c], d, timeline)
        BY Zenon, <2>1, <3>2 DEF Supplied, d
      <4>3. Covered(Tail(d)) /\ SenderOK(rtx[c], Tail(d), timeline)
        BY Zenon, <1>1, <1>4, <4>1, <4>2, CoveredTail DEF m
      <4> QED  BY Zenon, <1>1, <1>5, <3>2, <4>3 DEF Supplied
    <3> QED  BY <3>1, <3>2
  <2>2. StateFirst'
    BY Zenon, <1>1, <1>3, <1>13, <2>1, FirstKept
  <2>3. PoolOK(history', timeline', Stage(rdm'), pool')
    BY Zenon, <1>1, <1>3, <1>13, PoolKept
  <2> QED  BY Zenon, <1>7, <1>8, <2>2, <2>3 DEF ViewInv
<1> QED  BY Zenon, <1>2, <1>11, <1>12, <1>13
-----------------------------------------------------------------------------
(* Repairs *)

\* With a single timeline everything that waits is of it.
LEMMA PoolOne ==
    ASSUME NEW h, NEW s, NEW q \in Seq(Messages), PoolOK(h, 1, s, q)
    PROVE  PoolOK(h, 1, 1, q) /\ Grounded(1, q, 1)
<1>1. \A i \in 1 .. Len(q) : IsState(q[i]) => Stage(q[i].model) = 1
  <2>1. ASSUME NEW i \in 1 .. Len(q), IsState(q[i])  PROVE  Stage(q[i].model) = 1
    <3>1. q[i].model \in Models
      BY <2>1, MessageParts
    <3>2. Full(h, 1, q[i].model)
      BY Zenon, <2>1 DEF PoolOK, StateOK
    <3> QED  BY <3>1, <3>2, StageType
  <2> QED  BY <2>1
<1>2. /\ 1 <= 1 /\ 1 \in 1 .. 1 /\ \A t \in 1 .. 1 : t = 1
      /\ \A i \in 1 .. Len(q) : \A j \in 1 .. i - 1 : j \in 1 .. Len(q)
  OBVIOUS
<1>3. ASSUME NEW i \in 1 .. Len(q), IsState(q[i])  PROVE  StateOK(h, 1, 1, q, i)
  <2>1. Full(h, 1, q[i].model)
    BY Zenon, <1>3 DEF PoolOK, StateOK
  <2>2. Stage(q[i].model) = 1
    BY Zenon, <1>1, <1>3
  <2>3. \A j \in 1 .. i - 1 : IsState(q[j]) => Stage(q[j].model) = 1
    BY Zenon, <1>1, <1>2
  <2> QED  BY <1>2, <2>1, <2>2, <2>3 DEF StateOK
<1>4. ASSUME NEW i \in 1 .. Len(q), ~IsState(q[i])  PROVE  ChangeOK(h, 1, 1, q, i)
  <2>1. PICK t \in 1 .. 1 : ChangeAt(h, 1, q[i], t)
    BY Zenon, <1>4 DEF PoolOK, ChangeOK
  <2>2. t = 1
    BY Zenon, <1>2, <2>1
  <2>3. \A j \in 1 .. i - 1 : IsState(q[j]) => Stage(q[j].model) <= 1
    BY Zenon, <1>1, <1>2
  <2>4. Due(1, q, i, 1)
    BY Zenon, <2>3 DEF Due
  <2> QED  BY Zenon, <1>2, <2>1, <2>2, <2>4 DEF ChangeOK
<1>5. PoolOK(h, 1, 1, q)
  BY Zenon, <1>3, <1>4 DEF PoolOK
<1> QED  BY Zenon, <1>5 DEF Grounded

LEMMA RequestViewStep ==
    ASSUME Unmixed, Typed, LogGrows, ViewInv, NEW c \in Controllers, RequestValidation(c)
    PROVE  ViewInv'
<1> DEFINE x == ValidateRequest(c)
<1>1. /\ lowPriority' = [lowPriority EXCEPT ![c] = Append(@, x)]
      /\ UNCHANGED <<timeline, rtx, down, pool, rdm, saved, sub, fix>> /\ "fix" \in Faults
  BY Zenon DEF RequestValidation, routerVars, ctrlVars, Fault
<1>2. Copies /\ Kinds
  BY Zenon DEF ViewInv
<1>3. timeline = 1 /\ "restore" \notin Faults
  BY Zenon, <1>1, <1>2 DEF Unmixed, Kinds
<1>4. Full(history, timeline, x)
  <2> DEFINE y == Model(timeline, currentIndex(ctrl[c].cache), ctrl[c].model)
  <2>1. y.index > 0 /\ ModelAt(history, timeline, y, timeline) /\ y \in Models
    BY ControllerModel DEF Typed
  <2>2. x.index = y.index /\ x.contents = y.contents /\ x.timelineId = NoTimeline
    BY DEF ValidateRequest, Model
  <2> HIDE DEF x, y
  <2>3. ModelAt(history, timeline, x, timeline)
    BY <2>1, <2>2 DEF ModelAt
  <2>4. Stage(x) = 1
    BY SMTT(20), <1>3, <2>1, <2>2 DEF Stage, Models
  <2> QED  BY Zenon, <1>3, <2>3, <2>4 DEF Full
<1> HIDE DEF x
<1>5. lowPriority \in [Controllers -> Seq(Models)]
  BY DEF Typed, CopyTypes
<1>6. ASSUME NEW d \in Controllers, NEW i \in 1 .. Len(lowPriority'[d])
      PROVE  Full(history, timeline, lowPriority'[d][i])
  <2>1. CASE d # c
    <3>1. lowPriority'[d] = lowPriority[d]
      BY <1>1, <1>5, <2>1
    <3> QED  BY Zenon, <1>2, <1>6, <3>1 DEF Copies
  <2>2. CASE d = c
    <3> DEFINE l == lowPriority[c]
    <3>1. lowPriority'[d] = Append(l, x) /\ l \in Seq(Models)
      BY <1>1, <1>5, <2>2
    <3>2. \A j \in 1 .. Len(l) : Full(history, timeline, l[j])
      BY Zenon, <1>2 DEF Copies
    <3> HIDE DEF l
    <3>3. \/ i \in 1 .. Len(l) /\ Append(l, x)[i] = l[i]
          \/ Append(l, x)[i] = x
      BY <1>6, <3>1
    <3> QED  BY Zenon, <1>4, <3>1, <3>2, <3>3
  <2> QED  BY <2>1, <2>2
<1>7. Copies'
  <2>1. /\ Sound(history, timeline, rdm') /\ Sound(history, timeline, saved')
        /\ fix' # NoFix => Full(history, timeline, fix'[1])
    BY Zenon, <1>1, <1>2 DEF Copies
  <2> QED  BY Zenon, <1>6, <2>1, CopiesStep
<1>8. Kinds'
  BY Zenon, <1>1, <1>2 DEF Kinds
<1>9. SendersKept
  BY Zenon, <1>1, SendersSame
<1> QED  BY Zenon, <1>1, <1>7, <1>8, <1>9, FrameStep

LEMMA ValidateViewStep ==
    ASSUME Typed, LogGrows, ViewInv, NEW c \in Controllers, Validate(c)
    PROVE  ViewInv'
<1> DEFINE l == lowPriority[c]
<1>1. /\ lowPriority' = [lowPriority EXCEPT ![c] = Tail(l)] /\ l # <<>>
      /\ fix' = fix \/ fix' = <<Head(l)>>
      /\ UNCHANGED <<timeline, rtx, down, pool, rdm, saved, sub>>
  BY DEF Validate, ctrlVars
<1>2. Copies /\ Kinds
  BY Zenon DEF ViewInv
<1>3. lowPriority \in [Controllers -> Seq(Models)] /\ l \in Seq(Models)
  BY DEF Typed, CopyTypes
<1>4. lowPriority'[c] = Tail(l) /\ \A d \in Controllers : d # c => lowPriority'[d] = lowPriority[d]
  BY <1>1, <1>3
<1>5. \A i \in 1 .. Len(l) : Full(history, timeline, l[i])
  BY Zenon, <1>2 DEF Copies
<1>6. "fix" \in Faults
  BY Zenon, <1>1, <1>2 DEF Kinds
<1> HIDE DEF l
<1>7. /\ 1 \in 1 .. Len(l) /\ Head(l) = l[1]
      /\ \A i \in 1 .. Len(Tail(l)) : Tail(l)[i] = l[i + 1] /\ i + 1 \in 1 .. Len(l)
  BY <1>1, <1>3, HeadAndTail
<1>8. \A d \in Controllers : \A i \in 1 .. Len(lowPriority'[d]) :
         Full(history, timeline, lowPriority'[d][i])
  <2>1. \A i \in 1 .. Len(Tail(l)) : Full(history, timeline, Tail(l)[i])
    BY Zenon, <1>5, <1>7
  <2> QED  BY Zenon, <1>2, <1>4, <2>1 DEF Copies
<1>9. fix' # NoFix => Full(history, timeline, fix'[1])
  <2>1. CASE fix' = fix
    BY Zenon, <1>2, <2>1 DEF Copies
  <2>2. CASE fix' = <<Head(l)>>
    <3>1. fix'[1] = l[1]
      BY <1>7, <2>2
    <3> QED  BY Zenon, <1>5, <1>7, <3>1
  <2> QED  BY <1>1, <2>1, <2>2
<1>10. Copies'
  <2>1. Sound(history, timeline, rdm') /\ Sound(history, timeline, saved')
    BY Zenon, <1>1, <1>2 DEF Copies
  <2> QED  BY Zenon, <1>8, <1>9, <2>1, CopiesStep
<1>11. Kinds'
  BY Zenon, <1>1, <1>2, <1>6 DEF Kinds
<1>12. SendersKept /\ sub' \in {sub, NoSubscription}
  BY Zenon, <1>1, SendersSame
<1> QED  BY Zenon, <1>1, <1>10, <1>11, <1>12, FrameStep

LEMMA ReplaceViewStep ==
    ASSUME Unmixed, Typed, LogGrows, ViewInv, ReplaceModel
    PROVE  Full(history, timeline, rdm') /\ ViewInv'
<1>1. /\ fix # NoFix /\ rdm' = fix[1] /\ fix' = NoFix
      /\ UNCHANGED <<timeline, rtx, down, lowPriority, pool, saved, sub>>
  BY DEF ReplaceModel, linkVars, ctrlVars
<1>2. Copies /\ Kinds /\ DownOK /\ StateFirst /\ PoolOK(history, timeline, Stage(rdm), pool)
  BY Zenon DEF ViewInv
<1>3. timeline = 1
  BY Zenon, <1>1, <1>2 DEF Unmixed, Kinds
<1>4. Full(history, timeline, rdm')
  BY Zenon, <1>1, <1>2 DEF Copies
<1>5. Stage(rdm') = 1
  <2>1. rdm' \in Models
    BY Zenon, RepairTypes DEF CopyTypes, RepairStep
  <2> QED  BY SMTT(20), <1>3, <1>4, <2>1, StageType
<1>6. pool \in Seq(Messages)
  BY DEF Typed, QueueTypes
<1>7. PoolOK(history, timeline, 1, pool) /\ Grounded(1, pool, timeline)
  BY Zenon, <1>2, <1>3, <1>6, PoolOne
<1>8. PoolOK(history', timeline', 1, pool)
  BY Zenon, <1>6, <1>7, PoolGrown DEF LogGrows
<1>9. PoolOK(history', timeline', Stage(rdm'), pool')
  BY Zenon, <1>1, <1>5, <1>8
<1>10. StateFirst'
  BY Zenon, <1>1, <1>5, <1>7 DEF StateFirst
<1>11. DownOK'
  <2>1. SendersKept
    BY Zenon, <1>1, SendersSame
  <2> QED  BY Zenon, <1>1, <1>2, <2>1, DownKept
<1>12. Copies'
  <2>1. /\ Sound(history, timeline, rdm') /\ Sound(history, timeline, saved')
        /\ fix' # NoFix => Full(history, timeline, fix'[1])
        /\ \A c \in Controllers : \A i \in 1 .. Len(lowPriority'[c]) :
              Full(history, timeline, lowPriority'[c][i])
    BY Zenon, <1>1, <1>2, <1>4 DEF Copies, Sound
  <2> QED  BY Zenon, <2>1, CopiesStep
<1>13. Kinds'
  BY Zenon, <1>1, <1>2 DEF Kinds
<1> QED  BY Zenon, <1>4, <1>9, <1>10, <1>11, <1>12, <1>13 DEF ViewInv
-----------------------------------------------------------------------------
(* The pool's worker *)

\* The next change of a log, and nothing else, is missing.
LEMMA NextContents ==
    ASSUME NEW log, NEW i \in Nat, NEW k \in Nat, i < k, log[k].model,
           \A j \in i + 1 .. k - 1 : ~log[j].model
    PROVE  Contents(log, k) = Contents(log, i) \cup {<<log[k].timeline, k>>}
<1>1. {j \in 1 .. k : log[j].model} = {j \in 1 .. i : log[j].model} \cup {k}
  OBVIOUS
<1> DEFINE S == {j \in 1 .. i : log[j].model}
<1> HIDE DEF S
<1>2. {<<log[j].timeline, j>> : j \in S \cup {k}}
         = {<<log[j].timeline, j>> : j \in S} \cup {<<log[k].timeline, k>>}
  OBVIOUS
<1> QED  BY <1>1, <1>2 DEF Contents, S

\* The copy x follows timeline t, and takes in its next change.
Follows(h, x, t) ==
    /\ x.timelineId \in {t, NoTimeline}
    /\ x.index <= Len(h[t]) /\ x.contents = Contents(h[t], x.index)
Advances(h, n, x, y) ==
    \E t \in 1 .. n : \E k \in x.index + 1 .. Len(h[t]) :
        /\ Follows(h, x, t)
        /\ h[t][k].model /\ \A i \in x.index + 1 .. k - 1 : ~h[t][i].model
        /\ y = Model(x.timelineId, k, Contents(h[t], k))

LEMMA ChangeTakenIn ==
    ASSUME NEW h, NEW n, Histories(h, n), NEW x \in Models, Sound(h, n, x),
           NEW m \in ChangeSets, ChangeAt(h, n, m, Stage(x)),
           ~(m.previousIndex > 0 /\ x.index > 0 /\ m.previousIndex # x.index)
    PROVE  /\ Advances(h, n, x, TakenIn(x, m))
           /\ Full(h, n, TakenIn(x, m)) /\ Stage(TakenIn(x, m)) = Stage(x)
<1> DEFINE t == Stage(x)
           y == TakenIn(x, m)
           k == m.index
           p == m.previousIndex
           i == x.index
           log == h[t]
<1>1. /\ t \in 1 .. n /\ p > 0 /\ p < k /\ k <= Len(log)
      /\ log[k].model /\ m.change = <<log[k].timeline, k>>
      /\ \A j \in p + 1 .. k - 1 : ~log[j].model
  BY Zenon DEF ChangeAt
<1>2. k \in Nat /\ p \in Nat /\ i \in Nat
  BY DEF ChangeSets, Models
<1>3. ~(p > 0 /\ i > 0 /\ p # i)
  OBVIOUS
<1>4. n \in Nat /\ Len(log) \in Nat
  <2> HIDE DEF t
  <2> QED  BY <1>1 DEF Histories, Logs
<1>5. t # 0
  <2> HIDE DEF t
  <2> QED  BY <1>1, <1>4
<1>6. Full(h, n, x)
  <2>1. Stage(EmptyModel) = 0
    BY DEF Stage, EmptyModel, Model
  <2> QED  BY Zenon, <1>5, <2>1 DEF Sound
<1>7. x.timelineId \in {t, NoTimeline} /\ i \in 1 .. Len(log) /\ x.contents = Contents(log, i)
  BY Zenon, <1>6 DEF Full, ModelAt
<1>8. y = Model(x.timelineId, k, x.contents \cup {m.change})
  BY Zenon, TakesIn
<1>9. Stage(x) = t /\ x.index = i
  OBVIOUS
<1> HIDE DEF t, y, k, p, i, log
<1>10. p = i /\ i < k /\ i # 0 /\ k # 0 /\ k \in i + 1 .. Len(log) /\ k \in 1 .. Len(log)
  BY SMTT(20), <1>1, <1>2, <1>3, <1>4, <1>7
<1>11. \A j \in i + 1 .. k - 1 : ~log[j].model
  BY Zenon, <1>1, <1>10
<1>12. Contents(log, k) = Contents(log, i) \cup {<<log[k].timeline, k>>}
  <2>1. /\ i \in Nat /\ k \in Nat /\ i < k /\ log[k].model
        /\ \A j \in i + 1 .. k - 1 : ~log[j].model
    BY Zenon, <1>1, <1>2, <1>10, <1>11
  <2> QED  BY <2>1, NextContents
<1>13. y = Model(x.timelineId, k, Contents(log, k))
  BY Zenon, <1>1, <1>7, <1>8, <1>12
<1>14. y.timelineId = x.timelineId /\ y.index = k /\ y.contents = Contents(log, k)
  BY <1>13 DEF Model
<1>15. Stage(y) = t
  BY Zenon, <1>9, <1>10, <1>14 DEF Stage
<1>16. ModelAt(h, n, y, t)
  BY Zenon, <1>1, <1>7, <1>10, <1>14 DEF ModelAt, log
<1>17. Follows(h, x, t)
  <2>1. i <= Len(log)
    BY <1>4, <1>7
  <2> QED  BY Zenon, <1>7, <2>1 DEF Follows, i, log
<1>18. Advances(h, n, x, y)
  BY Zenon, <1>1, <1>10, <1>11, <1>13, <1>17 DEF Advances, i, log
<1> QED  BY Zenon, <1>15, <1>16, <1>18 DEF Full, y, t

\* The facts that both steps of the worker need.
LEMMA WorkerViewStep ==
    ASSUME Typed, LogGrows, ViewInv, pool # <<>>, pool' = Tail(pool),
           UNCHANGED <<timeline, rtx, down, lowPriority, saved, fix>>,
           sub' \in {sub, NoSubscription},
           Sound(history, timeline, rdm'),
           Stage(rdm') = IF IsState(Head(pool)) THEN Stage(Head(pool).model) ELSE Stage(rdm)
    PROVE  ViewInv'
<1>1. Copies /\ Kinds /\ DownOK /\ StateFirst /\ PoolOK(history, timeline, Stage(rdm), pool)
  BY Zenon DEF ViewInv
<1>2. pool \in Seq(Messages) /\ timeline \in Nat /\ rdm \in Models
  BY LogFacts DEF Typed, QueueTypes, CopyTypes
<1>3. Stage(rdm) \in Nat /\ Stage(rdm) <= timeline
  <2>1. Sound(history, timeline, rdm)
    BY Zenon, <1>1 DEF Copies
  <2>2. Stage(rdm) \in 0 .. timeline
    BY Zenon, <1>2, <2>1, StageType
  <2> QED  BY <1>2, <2>2
<1>4. /\ PoolOK(history, timeline, Stage(rdm'), Tail(pool))
      /\ Grounded(Stage(rdm), pool, timeline) => Grounded(Stage(rdm'), Tail(pool), timeline)
  BY Zenon, <1>1, <1>2, <1>3, PoolTail
<1>5. Tail(pool) \in Seq(Messages)
  BY Zenon, <1>2, TailOf
<1>6. PoolOK(history', timeline', Stage(rdm'), pool')
  BY Zenon, <1>4, <1>5, PoolGrown DEF LogGrows
<1>7. StateFirst'
  <2>1. CASE Grounded(Stage(rdm), pool, timeline)
    BY Zenon, <1>4, <2>1 DEF StateFirst
  <2>2. CASE \A c \in Controllers : IsCurrentController(c) => Supplied(c)
    <3>1. ASSUME NEW c \in Controllers, IsCurrentController(c)'  PROVE  Supplied(c)'
      <4>1. IsCurrentController(c)
        BY Zenon, <3>1 DEF IsCurrentController
      <4>2. Supplied(c)
        BY Zenon, <2>2, <4>1
      <4> QED  BY Zenon, <4>2 DEF Supplied
    <3> QED  BY Zenon, <3>1 DEF StateFirst, Supplied
  <2> QED  BY Zenon, <1>1, <2>1, <2>2 DEF StateFirst, Supplied
<1>8. DownOK'
  <2>1. SendersKept
    BY Zenon, SendersSame
  <2> QED  BY Zenon, <1>1, <2>1, DownKept
<1>9. Copies'
  <2>1. /\ Sound(history, timeline, saved')
        /\ fix' # NoFix => Full(history, timeline, fix'[1])
        /\ \A c \in Controllers : \A i \in 1 .. Len(lowPriority'[c]) :
              Full(history, timeline, lowPriority'[c][i])
    BY Zenon, <1>1 DEF Copies
  <2> QED  BY Zenon, <2>1, CopiesStep
<1>10. Kinds'
  BY Zenon, <1>1 DEF Kinds
<1> QED  BY Zenon, <1>6, <1>7, <1>8, <1>9, <1>10 DEF ViewInv

LEMMA DataStateViewStep ==
    ASSUME Typed, LogGrows, ViewInv, ApplyDataState
    PROVE  Full(history, timeline, rdm') /\ ViewInv'
<1>1. /\ pool # <<>> /\ IsState(Head(pool)) /\ pool' = Tail(pool) /\ rdm' = Head(pool).model
      /\ UNCHANGED <<timeline, rtx, down, lowPriority, saved, fix, sub>>
  BY Zenon DEF ApplyDataState, linkVars, ctrlVars, IsState
<1>2. PoolOK(history, timeline, Stage(rdm), pool) /\ pool \in Seq(Messages)
  BY Zenon DEF ViewInv, Typed, QueueTypes
<1>3. 1 \in 1 .. Len(pool) /\ Head(pool) = pool[1]
  BY Zenon, <1>1, <1>2, TailOf
<1>4. Full(history, timeline, rdm')
  BY Zenon, <1>1, <1>2, <1>3 DEF PoolOK, StateOK
<1>5. Stage(rdm') = Stage(Head(pool).model)
  BY Zenon, <1>1
<1>6. Sound(history, timeline, rdm')
  BY Zenon, <1>4 DEF Sound
<1>7. sub' \in {sub, NoSubscription}
  BY Zenon, <1>1
<1> QED  BY Zenon, <1>1, <1>4, <1>5, <1>6, <1>7, WorkerViewStep

LEMMA ChangeSetViewStep ==
    ASSUME Typed, LogGrows, ViewInv, ApplyChangeSet
    PROVE  /\ ViewInv'
           /\ rdm' = rdm \/ Advances(history, timeline, rdm, rdm')
<1> DEFINE m == Head(pool)
<1>1. /\ pool # <<>> /\ m.type = "changeSet" /\ pool' = Tail(pool)
      /\ UNCHANGED <<timeline, rtx, down, lowPriority, saved, fix>>
      /\ sub' \in {sub, NoSubscription}
      /\ rdm' = rdm \/ (~Gap(m) /\ rdm' = TakenIn(rdm, m))
  BY Zenon DEF ApplyChangeSet, linkVars, ctrlVars, TakenIn
<1>2. /\ PoolOK(history, timeline, Stage(rdm), pool) /\ pool \in Seq(Messages)
      /\ Sound(history, timeline, rdm)
  BY Zenon DEF ViewInv, Typed, QueueTypes, Copies
<1>3. timeline \in Nat /\ rdm \in Models
  BY LogFacts DEF Typed, CopyTypes
<1>4. ~IsState(m)
  BY <1>1 DEF IsState
<1>5. Stage(rdm) \in Nat
  BY Zenon, <1>3, StageType
<1>6. ChangeAt(history, timeline, m, Stage(rdm))
  BY Zenon, <1>1, <1>2, <1>3, <1>4, <1>5, PoolTail
<1>7. m \in ChangeSets
  <2>1. 1 \in 1 .. Len(pool) /\ m = pool[1]
    BY Zenon, <1>1, <1>2, TailOf
  <2> HIDE DEF m
  <2> QED  BY SMTT(20), <1>2, <1>4, <2>1, MessageParts
<1> HIDE DEF m
<1>8. Histories(history, timeline)
  BY Zenon DEF LogGrows
<1>9. CASE rdm' = TakenIn(rdm, m) /\ ~Gap(m)
  <2>1. ~(m.previousIndex > 0 /\ rdm.index > 0 /\ m.previousIndex # rdm.index)
    BY Zenon, <1>9 DEF Gap
  <2>2. /\ Advances(history, timeline, rdm, rdm')
        /\ Full(history, timeline, rdm') /\ Stage(rdm') = Stage(rdm)
    BY Zenon, <1>2, <1>3, <1>6, <1>7, <1>8, <1>9, <2>1, ChangeTakenIn
  <2>3. Sound(history, timeline, rdm')
    BY Zenon, <2>2 DEF Sound
  <2> QED  BY Zenon, <1>1, <1>4, <2>2, <2>3, WorkerViewStep DEF m
<1>10. CASE rdm' = rdm
  <2>1. Sound(history, timeline, rdm') /\ Stage(rdm') = Stage(rdm)
    BY Zenon, <1>2, <1>10
  <2> QED  BY Zenon, <1>1, <1>4, <1>10, <2>1, WorkerViewStep DEF m
<1> QED  BY Zenon, <1>1, <1>9, <1>10
-----------------------------------------------------------------------------
(* Restarts *)

\* With every channel closed nothing is on the way.
LEMMA AllClosed ==
    ASSUME Typed, LogGrows, ViewInv, Closed(Controllers)
    PROVE  /\ DownOK' /\ (\A c \in Controllers : Supplied(c)')
           /\ \A c \in Controllers : lowPriority'[c] \in {<<>>, lowPriority[c]}
           /\ \A c \in Controllers : \A i \in 1 .. Len(lowPriority'[c]) :
                 Full(history, timeline, lowPriority'[c][i])
<1>1. /\ \A c \in Controllers : Silent(rtx'[c]) /\ down'[c] = <<>>
      /\ \A c \in Controllers : lowPriority'[c] \in {<<>>, lowPriority[c]}
  BY Zenon, ClosedSenders
<1>2. 1 .. Len(<<>>) = {}
  OBVIOUS
<1>3. DownOK'
  BY Zenon, <1>1, <1>2 DEF DownOK
<1>4. \A c \in Controllers : Supplied(c)'
  <2>1. ASSUME NEW c \in Controllers  PROVE  Supplied(c)'
    <3>1. Covered(down'[c]) /\ SenderOK(rtx'[c], down'[c], timeline')
      BY Zenon, <1>1, NothingCovered, SilentSender
    <3> QED  BY Zenon, <3>1 DEF Supplied
  <2> QED  BY Zenon, <2>1
<1>5. \A c \in Controllers : \A i \in 1 .. Len(lowPriority'[c]) :
         Full(history, timeline, lowPriority'[c][i])
  <2>1. Copies
    BY Zenon DEF ViewInv
  <2> QED  BY Zenon, <1>1, <1>2, <2>1 DEF Copies
<1> QED  BY Zenon, <1>1, <1>3, <1>4, <1>5

LEMMA RestoreViewStep ==
    ASSUME Typed, LogGrows, ViewInv, Restore
    PROVE  ViewInv'
<1>1. Closed(Controllers) /\ UNCHANGED <<rdm, saved, pool, fix>> /\ "restore" \in Faults
  BY Zenon DEF Restore, Fault
<1>2. Copies /\ Kinds /\ PoolOK(history, timeline, Stage(rdm), pool)
  BY Zenon DEF ViewInv
<1>3. DownOK' /\ StateFirst'
  BY Zenon, <1>1, AllClosed DEF StateFirst, Supplied
<1>4. Copies'
  <2>1. /\ Sound(history, timeline, rdm') /\ Sound(history, timeline, saved')
        /\ fix' # NoFix => Full(history, timeline, fix'[1])
    BY Zenon, <1>1, <1>2 DEF Copies
  <2> QED  BY Zenon, <1>1, <2>1, AllClosed, CopiesStep
<1>5. Kinds'
  BY Zenon, <1>1, <1>2, AllClosed DEF Kinds
<1>6. PoolOK(history', timeline', Stage(rdm'), pool')
  BY Zenon, <1>1, <1>2, PoolKept
<1> QED  BY Zenon, <1>3, <1>4, <1>5, <1>6 DEF ViewInv

LEMMA RestartRouterViewStep ==
    ASSUME Typed, LogGrows, ViewInv, RestartRouter
    PROVE  Sound(history, timeline, rdm') /\ ViewInv'
<1>1. /\ Closed(Controllers) /\ pool' = <<>> /\ fix' = NoFix /\ rdm' \in {saved, EmptyModel}
      /\ UNCHANGED <<timeline, saved>> /\ sub' = NoSubscription
  BY Zenon DEF RestartRouter, ctrlVars
<1>2. Copies /\ Kinds
  BY Zenon DEF ViewInv
<1>3. DownOK' /\ StateFirst'
  BY Zenon, <1>1, AllClosed DEF StateFirst, Supplied
<1>4. Sound(history, timeline, rdm') /\ Sound(history, timeline, saved')
  BY Zenon, <1>1, <1>2 DEF Copies, Sound
<1>5. Copies'
  BY Zenon, <1>1, <1>4, AllClosed, CopiesStep
<1>6. Kinds'
  BY Zenon, <1>1, <1>2, AllClosed DEF Kinds
<1>7. PoolOK(history', timeline', Stage(rdm'), pool')
  <2>1. 1 .. Len(<<>>) = {}
    OBVIOUS
  <2> QED  BY Zenon, <1>1, <2>1 DEF PoolOK
<1> QED  BY Zenon, <1>3, <1>4, <1>5, <1>6, <1>7 DEF ViewInv

-----------------------------------------------------------------------------
(* The invariant *)

LEMMA ViewInit == Init => ViewInv
<1> SUFFICES ASSUME Init  PROVE  ViewInv
  OBVIOUS
<1>1. /\ timeline = 1 /\ down = [c \in Controllers |-> <<>>] /\ lowPriority = down
      /\ rdm = EmptyModel /\ saved = EmptyModel /\ sub = NoSubscription
      /\ pool = <<>> /\ fix = NoFix
  BY DEF Init
<1>2. /\ 1 .. Len(<<>>) = {}
      /\ \A c \in Controllers : down[c] = <<>> /\ lowPriority[c] = <<>>
  BY <1>1
<1>3. Copies /\ Kinds /\ DownOK
  BY Zenon, <1>1, <1>2 DEF Copies, Sound, Kinds, DownOK
<1>4. PoolOK(history, timeline, Stage(rdm), pool) /\ StateFirst
  BY Zenon, <1>1, <1>2 DEF PoolOK, StateFirst, IsCurrentController
<1> QED  BY Zenon, <1>3, <1>4 DEF ViewInv

LEMMA StutterView ==
    ASSUME Typed, ViewInv, UNCHANGED vars
    PROVE  ViewInv'
<1>1. /\ UNCHANGED <<history, timeline, rtx, down, lowPriority, rdm, saved, sub, pool, fix>>
  BY DEF vars, ctrlVars, linkVars, routerVars
<1> QED  BY Zenon, <1>1 DEF ViewInv, Copies, Kinds, DownOK, StateFirst, IsCurrentController

LEMMA ViewStep ==
    ASSUME Unmixed, Typed, ViewInv, Next
    PROVE  ViewInv'
<1> USE DEF ctrlVars, linkVars, routerVars
<1>1. LogGrows
  BY Zenon, StepGrown DEF LogGrows
<1>2. ASSUME NEW c \in Controllers,
             \/ ApplyEntry(c) \/ FanOut(c) \/ RouterConnected(c) \/ ReceiveClientHello(c)
             \/ SubscriptionExpires(c) \/ Reconnect(c)
      PROVE  ViewInv'
  <2>1. SendersKept /\ Elsewhere
    BY Zenon, <1>2, FlagSteps
  <2>2. /\ UNCHANGED <<timeline, rdm, pool, fix, lowPriority>>
        /\ saved' \in {saved, rdm} /\ sub' \in {sub, NoSubscription}
    BY <2>1 DEF Elsewhere
  <2> QED  BY Zenon, <1>1, <2>1, <2>2, QuietSteps
<1>3. ASSUME NEW c \in Controllers, SenderStep(c) \/ Receive(c) \/ CheckSubscription(c)
      PROVE  ViewInv'
  BY Zenon, <1>1, <1>3, SenderViewStep, ReceiveViewStep, CheckViewStep
<1>4. ASSUME NEW c \in Controllers, RequestValidation(c) \/ Validate(c)
      PROVE  ViewInv'
  BY Zenon, <1>1, <1>4, RequestViewStep, ValidateViewStep
<1>5. ASSUME \/ \E c \in Controllers : EndpointChanged(c)
             \/ LoadResync \/ LoadIndex \/ SubscribeSent \/ ResetSubscription \/ Commit \/ Save
      PROVE  ViewInv'
  <2>1. /\ UNCHANGED <<timeline, rdm, pool, fix, lowPriority, rtx, down>>
        /\ saved' \in {saved, rdm} /\ sub' \in {sub, NoSubscription}
    BY Zenon, <1>5 DEF EndpointChanged, LoadResync, LoadIndex, SubscribeSent, ResetSubscription, Commit, Save
  <2>2. SendersKept
    BY Zenon, <2>1, SendersSame
  <2> QED  BY Zenon, <1>1, <2>1, <2>2, QuietSteps
<1>6. ASSUME NEW c \in Controllers, Disconnect(c) \/ RestartController(c)
      PROVE  ViewInv'
  <2>1. Closed({c}) /\ UNCHANGED <<timeline, rdm, saved, pool, fix, sub>>
    BY Zenon, <1>6 DEF Disconnect, RestartController
  <2> QED  BY Zenon, <1>1, <2>1, ClosedStep
<1>7. CASE SendSubscribe
  BY Zenon, <1>1, <1>7, SubscribeViewStep
<1>8. CASE WorkerStep \/ ReplaceModel
  BY Zenon, <1>1, <1>8, ChangeSetViewStep, DataStateViewStep, ReplaceViewStep DEF WorkerStep
<1>9. CASE Restore \/ RestartRouter
  BY Zenon, <1>1, <1>9, RestoreViewStep, RestartRouterViewStep
<1> QED  BY SMTT(20), <1>2, <1>3, <1>4, <1>5, <1>6, <1>7, <1>8, <1>9 DEF Next, Environment, ManagerStep, RepairStep

\* The copy of the router, the one on its disk, a repair and every message that
\* is queued or on the way stand for entries of the log, in an order in which
\* the router may take them in, as long as no repair meets a restored database.
THEOREM ViewInvariance ==
    ASSUME Unmixed
    PROVE  Spec => [](Typed /\ ViewInv)
<1>1. Init => Typed /\ ViewInv
  BY TypedInit, ViewInit
<1>2. (Typed /\ ViewInv) /\ [Next]_vars => (Typed /\ ViewInv)'
  BY TypedStep, ViewStep, StutterView
<1> QED  BY <1>1, <1>2, PTL DEF Spec
-----------------------------------------------------------------------------
(* The refinement *)

LEMMA SamePrefix ==
    ASSUME NEW log, NEW n
    PROVE  View!Prefix(log, n) = Contents(log, n)
BY Zenon DEF View!Prefix, Contents

LEMMA TimelinesInUse ==
    ASSUME Typed
    PROVE  /\ timeline \in Timelines /\ 1 \in Timelines /\ 1 .. timeline \subseteq Timelines
           /\ \A t \in 1 .. timeline : Len(history[t]) \in Nat
<1>1. timeline \in 1 .. faults + 1 /\ faults \in 0 .. MaxFaults /\ MaxFaults \in Nat
  BY Constants DEF Typed, DataModelInv
<1>2. Histories(history, timeline)
  BY HistoryType DEF Typed
<1> QED  BY <1>1, <1>2 DEF Timelines, Histories, Logs

LEMMA ViewStart == Init => View!Init
<1> SUFFICES ASSUME Init  PROVE  View!Init
  OBVIOUS
<1> DEFINE E == [timeline : Timelines, model : BOOLEAN]
           log == [i \in DOMAIN StartLog |-> [timeline |-> 1, model |-> StartLog[i]]]
<1>1. /\ history = [t \in Timelines |-> IF t = 1 THEN log ELSE <<>>]
      /\ timeline = 1 /\ rdm = EmptyModel
  BY DEF Init
<1>2. 1 \in Timelines /\ StartLog \in Seq(BOOLEAN)
  BY Constants, BoundsAssumption DEF Timelines, Bounds
<1>3. log \in Seq(E)
  <2>1. Len(StartLog) \in Nat /\ DOMAIN StartLog = 1 .. Len(StartLog)
        /\ \A i \in 1 .. Len(StartLog) : StartLog[i] \in BOOLEAN
    BY <1>2
  <2>2. log = [i \in 1 .. Len(StartLog) |-> [timeline |-> 1, model |-> StartLog[i]]]
    BY <2>1
  <2>3. \A i \in 1 .. Len(StartLog) : [timeline |-> 1, model |-> StartLog[i]] \in E
    BY <1>2, <2>1
  <2>4. log \in [1 .. Len(StartLog) -> E]
    BY <2>2, <2>3
  <2> HIDE DEF log, E
  <2> QED  BY SMTT(20), <2>1, <2>4, FunctionIsSeq
<1>4. <<>> \in Seq(E)
  OBVIOUS
<1> HIDE DEF log, E
<1>5. history \in [Timelines -> Seq(E)]
  BY <1>1, <1>3, <1>4
<1>6. rdm = [timelineId |-> View!Unnamed, index |-> 0, contents |-> {}]
  BY Zenon, <1>1 DEF EmptyModel, Model, NoTimeline, View!Unnamed
<1> QED  BY Zenon, <1>1, <1>5, <1>6 DEF View!Init, E

\* A model that stands for an entry of the log may be put in place.
LEMMA SoundReplaces ==
    ASSUME Typed, rdm' \in Models, Sound(history, timeline, rdm'), UNCHANGED <<history, timeline>>
    PROVE  View!Replace
<1> DEFINE y == rdm'
<1>1. y = [timelineId |-> y.timelineId, index |-> y.index, contents |-> y.contents]
      /\ y.timelineId \in Timelines \cup {NoTimeline}
  BY DEF Models
<1>2. PICK t \in Timelines : /\ y.index \in 0 .. Len(history[t])
                             /\ y.timelineId \in {t, NoTimeline}
                             /\ y.contents = Contents(history[t], y.index)
  <2>1. CASE y = EmptyModel
    <3>1. y.index = 0 /\ y.timelineId = NoTimeline /\ y.contents = {}
      BY <2>1 DEF EmptyModel, Model
    <3>2. Contents(history[1], 0) = {}
      BY DEF Contents
    <3>3. 1 \in Timelines /\ Len(history[1]) \in Nat
      <4>1. 1 \in 1 .. timeline
        BY LogFacts DEF Typed
      <4> QED  BY <4>1, TimelinesInUse
    <3>4. 0 \in 0 .. Len(history[1])
      BY <3>3
    <3> HIDE DEF y
    <3> QED  BY Zenon, <3>1, <3>2, <3>3, <3>4
  <2>2. CASE Full(history, timeline, y)
    <3> DEFINE t == Stage(y)
    <3>1. /\ t \in 1 .. timeline /\ y.timelineId \in {t, NoTimeline}
          /\ y.index \in 1 .. Len(history[t])
          /\ y.contents = Contents(history[t], y.index)
      BY Zenon, <2>2 DEF Full, ModelAt
    <3> HIDE DEF t, y
    <3>2. t \in Timelines /\ Len(history[t]) \in Nat
      BY <3>1, TimelinesInUse
    <3>3. y.index \in 0 .. Len(history[t])
      BY <3>1, <3>2
    <3> QED  BY Zenon, <3>1, <3>2, <3>3
  <2> QED  BY <2>1, <2>2 DEF Sound
<1>3. y.contents = View!Prefix(history[t], y.index)
  BY Zenon, <1>2, SamePrefix
<1>4. NoTimeline = View!Unnamed
  BY DEF NoTimeline, View!Unnamed
<1> QED  BY Zenon, <1>1, <1>2, <1>3, <1>4 DEF View!Replace

LEMMA AdvancesView ==
    ASSUME Typed, Advances(history, timeline, rdm, rdm'), UNCHANGED <<history, timeline>>
    PROVE  View!Advance
<1>0. PICK t \in 1 .. timeline : \E k \in rdm.index + 1 .. Len(history[t]) :
        /\ Follows(history, rdm, t)
        /\ history[t][k].model /\ \A i \in rdm.index + 1 .. k - 1 : ~history[t][i].model
        /\ rdm' = Model(rdm.timelineId, k, Contents(history[t], k))
  BY Zenon DEF Advances
<1>1. PICK k \in rdm.index + 1 .. Len(history[t]) :
        /\ Follows(history, rdm, t)
        /\ history[t][k].model /\ \A i \in rdm.index + 1 .. k - 1 : ~history[t][i].model
        /\ rdm' = Model(rdm.timelineId, k, Contents(history[t], k))
  BY Zenon, <1>0
<1>2. t \in Timelines
  BY <1>0, TimelinesInUse
<1>3. View!Follows(t)
  BY Zenon, <1>1, SamePrefix DEF Follows, View!Follows, NoTimeline, View!Unnamed
<1> DEFINE cs == Contents(history[t], k)
<1>4. cs = View!Prefix(history[t], k)
  BY Zenon, SamePrefix
<1>5. rdm' = Model(rdm.timelineId, k, cs) /\ rdm \in Models
  BY Zenon, <1>1 DEF Typed, CopyTypes
<1> HIDE DEF cs
<1>6. rdm' = [rdm EXCEPT !.index = k, !.contents = cs]
  <2> DEFINE f == [rdm EXCEPT !.index = k]
  <2>1. f = Model(rdm.timelineId, k, rdm.contents)
    BY <1>5 DEF Models, Model
  <2>2. [rdm EXCEPT !.index = k, !.contents = cs] = [f EXCEPT !.contents = cs]
    OBVIOUS
  <2> HIDE DEF f
  <2>3. [f EXCEPT !.contents = cs] = Model(rdm.timelineId, k, cs)
    BY <2>1 DEF Model
  <2> QED  BY Zenon, <1>5, <2>2, <2>3
<1>7. rdm' = [rdm EXCEPT !.index = k, !.contents = View!Prefix(history[t], k)]
  BY Zenon, <1>4, <1>6
<1> QED  BY Zenon, <1>1, <1>2, <1>3, <1>7 DEF View!Advance

LEMMA RestoreBranches ==
    ASSUME Typed, Restore
    PROVE  View!Branch
<1>0. PICK n \in 1 .. Len(Log) : \E len \in {n, Len(Log) + 1} :
        history' = [history EXCEPT ![timeline + 1] = Branched(n, len)]
  BY Zenon DEF Restore
<1>1. PICK len \in {n, Len(Log) + 1} :
        history' = [history EXCEPT ![timeline + 1] = Branched(n, len)]
  BY Zenon, <1>0
<1>2. timeline' = timeline + 1 /\ rdm' = rdm
  BY Zenon DEF Restore
<1>3. Len(Log) \in Nat
  BY LogFacts DEF Typed
<1>4. len \in 1 .. Len(Log) + 1 /\ n <= len
  BY <1>0, <1>1, <1>3
<1>5. Branched(n, len) = [i \in 1 .. len |-> IF i <= n THEN history[timeline][i]
                                              ELSE [timeline |-> timeline, model |-> FALSE]]
  BY Zenon DEF Branched, Log
<1>6. history' = [history EXCEPT ![timeline'] =
                    [i \in 1 .. len |-> IF i <= n THEN history[timeline][i]
                                        ELSE [timeline |-> timeline, model |-> FALSE]]]
  BY Zenon, <1>1, <1>2, <1>5
<1> QED  BY Zenon, <1>0, <1>2, <1>4, <1>6 DEF View!Branch, Log

LEMMA ViewSimulation ==
    ASSUME Unmixed, Typed, Typed', ViewInv, Next
    PROVE  View!Next \/ UNCHANGED <<history, timeline, rdm>>
<1> USE DEF ctrlVars, linkVars, routerVars
<1>1. LogGrows
  BY Zenon, StepGrown DEF LogGrows
<1>2. rdm' \in Models
  BY Zenon DEF Typed, CopyTypes
<1>3. ASSUME NEW c \in Controllers,
             \/ ApplyEntry(c) \/ FanOut(c) \/ RouterConnected(c) \/ ReceiveClientHello(c)
             \/ SubscriptionExpires(c) \/ Reconnect(c) \/ SenderStep(c)
      PROVE  UNCHANGED <<history, timeline, rdm>>
  <2>1. Elsewhere
    BY Zenon, <1>3, FlagSteps, SenderStepSends
  <2> QED  BY <2>1 DEF Elsewhere
<1>4. ASSUME NEW c \in Controllers,
             \/ Receive(c) \/ CheckSubscription(c) \/ EndpointChanged(c) \/ RequestValidation(c)
             \/ Validate(c) \/ Disconnect(c) \/ RestartController(c)
      PROVE  UNCHANGED <<history, timeline, rdm>>
  BY Zenon, <1>4 DEF Receive, CheckSubscription, EndpointChanged, RequestValidation, Validate,
                     Disconnect, RestartController
<1>5. ASSUME LoadResync \/ LoadIndex \/ SendSubscribe \/ SubscribeSent \/ ResetSubscription \/ Save
      PROVE  UNCHANGED <<history, timeline, rdm>>
  BY Zenon, <1>5 DEF LoadResync, LoadIndex, SendSubscribe, SubscribeSent, ResetSubscription, Save
<1>6. CASE Commit
  BY Zenon, <1>6 DEF Commit, View!Next, View!Commit
<1>7. CASE Restore
  BY Zenon, <1>7, RestoreBranches DEF View!Next
<1>8. CASE ApplyChangeSet
  <2>1. UNCHANGED <<history, timeline>>
    BY <1>8 DEF ApplyChangeSet
  <2>2. rdm' = rdm \/ Advances(history, timeline, rdm, rdm')
    BY Zenon, <1>1, <1>8, ChangeSetViewStep
  <2> QED  BY Zenon, <2>1, <2>2, AdvancesView DEF View!Next
<1>9. CASE ApplyDataState \/ ReplaceModel \/ RestartRouter
  <2>1. UNCHANGED <<history, timeline>>
    BY Zenon, <1>9 DEF ApplyDataState, ReplaceModel, RestartRouter
  <2>2. Sound(history, timeline, rdm')
    BY Zenon, <1>1, <1>9, DataStateViewStep, ReplaceViewStep, RestartRouterViewStep DEF Sound
  <2> QED  BY Zenon, <1>2, <2>1, <2>2, SoundReplaces DEF View!Next
<1> QED  BY SMTT(20), <1>3, <1>4, <1>5, <1>6, <1>7, <1>8, <1>9 DEF Next, Environment, ManagerStep, WorkerStep,
       RepairStep

\* The router's copy implements the abstract view for any number of controllers,
\* any log and any sequence of disturbances in which no repair meets a restored
\* database: it moves on by the next change of the log it follows (Store,
\* ApplyChangeSet) or is replaced as a whole by the model as it was after one
\* entry (NewReceiverRouterDataModelFromDataState, SetRouterDataModel), and
\* never mixes two timelines or skips a change.
THEOREM ViewRefinement ==
    ASSUME Unmixed
    PROVE  Spec => ViewSpec
<1>1. Init => View!Init
  BY ViewStart
<1>2. (Typed /\ ViewInv) /\ (Typed /\ ViewInv)' /\ [Next]_vars => [View!Next]_(View!vars)
  <2> SUFFICES ASSUME Typed, ViewInv, Typed', [Next]_vars
               PROVE  View!Next \/ UNCHANGED <<history, timeline, rdm>>
    BY DEF View!vars
  <2>1. CASE Next
    BY Zenon, <2>1, ViewSimulation
  <2>2. CASE UNCHANGED vars
    BY <2>2 DEF vars, ctrlVars, routerVars
  <2> QED  BY <2>1, <2>2
<1> QED  BY <1>1, <1>2, ViewInvariance, PTL DEF Spec, ViewSpec, View!Spec
=============================================================================

---------------------------- MODULE DataModelSync ----------------------------
(***************************************************************************)
(* How one router keeps its copy of the data model: the controllers apply  *)
(* the raft log and cache the change sets it makes (EventCache), their     *)
(* RouterSenders replay them to the router or send the full state          *)
(* (controller/sync_strats), and the router subscribes to one controller   *)
(* at a time, checks and applies what arrives and asks again when it       *)
(* notices a gap (router/state, common/router_data_model.go).              *)
(*                                                                         *)
(* A change set is the place in history that made it, so the contents of a *)
(* model are the set of the changes it has taken in.  Left out: synthetic  *)
(* change sets (public keys), the filtering of router configs, the index   *)
(* report of the 30 s ticker, which only feeds statistics, and the time in *)
(* which a restored controller still runs on its old model.                *)
(***************************************************************************)
EXTENDS EventCache

CONSTANTS
    Controllers,
    PoolSize,       \* the queue of the router's data model pool
    MaxInFlight,    \* the router subscribes anew with at most so many messages on the way
    StartLog,       \* the raft log so far: which of its entries changed the data model
    StartIndex,     \* [Controllers -> the entry each started at]
    MaxEntries,     \* bound on the entries committed, on all timelines together
    Faults,         \* the kinds of disturbance that happen
    MaxFaults       \* bound on them, together

Disturbance ==
    {"disconnect",              \* a control channel is lost
     "controller restarts", "router restarts",
     "restore",                 \* the database is replaced by a backup
     "send fails", "subscription expires",
     "renewal",                 \* the router subscribes anew with messages on the way
     "fix"}                     \* an operator has the router's model repaired

Bounds ==
    /\ {PoolSize, MaxInFlight} \subseteq Nat \ {0}
    /\ StartLog \in Seq(BOOLEAN) /\ StartIndex \in [Controllers -> 1 .. Len(StartLog)]
    /\ MaxEntries \in Nat /\ MaxFaults \in Nat
    /\ Faults \subseteq Disturbance

ASSUME BoundsAssumption == Bounds

VARIABLES
    history,    \* [Timelines -> log]: what raft committed on each timeline
    timeline,   \* the timeline of the database the controllers share
    ctrl,       \* [Controllers -> the last entry applied, the cache, the model]
    conn,       \* [Controllers -> whether the router's control channel is open]
    rtx,        \* [Controllers -> the RouterSender for the router]
    down,       \* [Controllers -> messages on the way to the router]
    lowPriority,\* [Controllers -> the same for the low priority sender]
    rdm,        \* the router's data model
    saved,      \* the router's copy of it on disk
    sub,        \* the controller of the router's current subscription, if any
    resync,     \* resyncRouterDataModel
    mgr,        \* where the subscription manager is in subscribeToDataModelUpdates
    changed,    \* controllers with an unprocessed endpoint event
    pool,       \* work queued for the data model pool's only worker
    fix,        \* the model of a repair, from the comparison to its replacement
    rmdReplaceInProgress,       \* the repair has the lock of SetRouterDataModel
    overtaken,  \* history: an older model was put in place after a newer
                \* subscription had been made from the one it replaced
    faults      \* disturbances so far

ctrlVars == <<history, timeline, ctrl>>
linkVars == <<conn, rtx, down, lowPriority>>
routerVars == <<rdm, saved, sub, resync, mgr, changed, pool, fix,
                rmdReplaceInProgress, overtaken>>
vars == <<ctrlVars, linkVars, routerVars, faults>>

repairVars == <<fix, rmdReplaceInProgress, overtaken>>

-----------------------------------------------------------------------------
(* History, models and messages *)

Timelines == 1 .. MaxFaults + 1
NoTimeline == 0

\* An entry is the timeline it was committed on and whether it changed the
\* data model: not every raft update does.
Log == history[timeline]

\* The changes a model at this index of a timeline consists of.
Contents(log, index) ==
    {<<log[i].timeline, i>> : i \in {j \in 1 .. index : log[j].model}}

Model(t, index, contents) == [timelineId |-> t, index |-> index, contents |-> contents]
EmptyModel == Model(NoTimeline, 0, {})

NoSubscription == <<>>
IsCurrentController(c) == sub # NoSubscription /\ sub[1] = c

\* Subscription ids are fresh (eid.New()) and only ever compared with the
\* current one: when the router makes a new id, those still around are Old.
NoId == 0
Current == 1
Old == 2

NoRequest == <<>>
Idle == <<>>
NoFix == <<>>

\* A sender that does not exist is off; a new one has no subscription.
NoSender == [on |-> FALSE, supportsRouterModel |-> FALSE, currentIndex |-> 0,
             timelineId |-> NoTimeline, subscriptionId |-> NoId, active |-> FALSE,
             modelChange |-> FALSE, requestModelSync |-> NoRequest]
NewSender(supports) == [NoSender EXCEPT !.on = TRUE, !.supportsRouterModel = supports]

ChangeSet(s, index, prev) ==
    [type |-> "changeSet", subscriptionId |-> s, index |-> index, previousIndex |-> prev,
     change |-> <<Log[index].timeline, index>>]
DataState(s, c) ==
    [type |-> "dataState", subscriptionId |-> s,
     model |-> Model(timeline, currentIndex(ctrl[c].cache), ctrl[c].model)]
ValidateRequest(c) ==
    Model(NoTimeline, currentIndex(ctrl[c].cache), ctrl[c].model)

Aged(x) == [x EXCEPT !.subscriptionId = IF @ = Current THEN Old ELSE @]
AgedAll(xs) == [i \in DOMAIN xs |-> Aged(xs[i])]

NewSubscriptionId ==
    /\ rtx' = [c \in Controllers |->
                 [Aged(rtx[c]) EXCEPT !.requestModelSync = AgedAll(@)]]
    /\ down' = [c \in Controllers |-> AgedAll(down[c])]
    /\ pool' = AgedAll(pool)

Fault(kind) == kind \in Faults /\ faults < MaxFaults /\ faults' = faults + 1
NoFault == UNCHANGED faults

-----------------------------------------------------------------------------
(* Controllers: the raft log, the cache and the fan-out of its events *)

\* BuildAll: the model comes from the database, the cache starts out empty at
\* the raft index the database is at.
Started(log, index) ==
    [applied |-> index, cache |-> SetCurrentIndex(NewLoggingEventCache, index),
     model |-> Contents(log, index), event |-> FALSE]

\* The FSM applies the next entry; completeChangeSet hands the change set, if
\* there is one, to the sender's model, which stores it, takes it in and puts
\* it on the channel of handleRouterModelEvents.
Applied(r, log) ==
    LET index == r.applied + 1 IN
    IF log[index].model
    THEN [applied |-> index, cache |-> Store(r.cache, index),
          model |-> r.model \cup {<<log[index].timeline, index>>}, event |-> TRUE]
    ELSE [r EXCEPT !.applied = index]

\* A controller starts at an entry of the log, and if that is not the newest
\* it has applied one more and handled its event.
AtStart(log, start) ==
    IF start < Len(log) THEN [Applied(Started(log, start), log) EXCEPT !.event = FALSE]
    ELSE Started(log, start)

\* The router is connected to every controller and has nothing yet.
Init ==
    LET log == [i \in DOMAIN StartLog |-> [timeline |-> 1, model |-> StartLog[i]]] IN
    /\ history = [t \in Timelines |-> IF t = 1 THEN log ELSE <<>>]
    /\ timeline = 1
    /\ ctrl = [c \in Controllers |-> AtStart(log, StartIndex[c])]
    /\ conn = [c \in Controllers |-> TRUE]
    /\ rtx = [c \in Controllers |-> NewSender(TRUE)]
    /\ down = [c \in Controllers |-> <<>>] /\ lowPriority = down
    /\ rdm = EmptyModel /\ saved = EmptyModel
    /\ sub = NoSubscription /\ resync = FALSE /\ mgr = Idle
    /\ changed = {} /\ pool = <<>> /\ fix = NoFix /\ rmdReplaceInProgress = FALSE
    /\ overtaken = FALSE /\ faults = 0

\* The entries committed, each counted on the timeline it was committed on.
CommittedOn(t) == Cardinality({i \in DOMAIN history[t] : history[t][i].timeline = t})
Committed == MapThenSumSet(CommittedOn, Timelines)

\* Raft commits an entry that changes the data model, or one that does not.
Commit ==
    /\ Committed < MaxEntries
    /\ \E model \in BOOLEAN :
          history' = [history EXCEPT ![timeline] =
                        Append(@, [timeline |-> timeline, model |-> model])]
    /\ UNCHANGED <<timeline, ctrl, linkVars, routerVars, faults>>

ApplyEntry(c) ==
    /\ ctrl[c].applied < Len(Log)
    /\ ctrl' = [ctrl EXCEPT ![c] = Applied(@, Log)]
    /\ UNCHANGED <<history, timeline, linkVars, routerVars, faults>>

\* One pass of handleRouterModelEvents.  Events that wait together are passed
\* on together: the sender has one flag for any number of them.
FanOut(c) ==
    /\ ctrl[c].event
    /\ ctrl' = [ctrl EXCEPT ![c].event = FALSE]
    /\ rtx' = [rtx EXCEPT ![c].modelChange = @ \/ (rtx[c].on /\ rtx[c].supportsRouterModel)]
    /\ UNCHANGED <<history, timeline, conn, down, lowPriority, routerVars, faults>>

-----------------------------------------------------------------------------
(* Controllers: the RouterSender *)

\* The replay of handleModelChange for a sender r of c.
Replay(c, r) ==
    IF r.currentIndex > 0 /\ r.timelineId = timeline
    THEN ReplayFrom(ctrl[c].cache, r.currentIndex)
    ELSE Failed(FullSyncRequired)

\* It starts at the sender's own index, so its first event is not news.
News(replay) == IF replay.events = <<>> THEN <<>> ELSE Tail(replay.events)

FullState(c, r, msgs) ==
    [sender |-> [r EXCEPT !.currentIndex = currentIndex(ctrl[c].cache), !.timelineId = timeline],
     msgs   |-> Append(msgs, DataState(r.subscriptionId, c))]

\* handleModelChange: the sender afterwards and what it sends.  Of the news
\* the first k go out; if one fails the full state is tried, which may fail too.
ModelChange(c, r, replay, isLeader, k, stateSent) ==
    LET keys == SubSeq(News(replay), 1, k)
        msgs == [i \in 1 .. Len(keys) |->
                   ChangeSet(r.subscriptionId, keys[i], ctrl[c].cache.Events[keys[i]])]
        sent == [r EXCEPT !.currentIndex = IF keys = <<>> THEN @ ELSE keys[Len(keys)]]
        full == \/ k < Len(News(replay))
                \/ replay.result = FullSyncRequired
                \/ isLeader /\ replay.result = RequestFromFuture
    IN  IF ~r.active THEN [sender |-> r, msgs |-> <<>>]
        ELSE IF full /\ stateSent THEN FullState(c, sent, msgs)
        ELSE [sender |-> sent, msgs |-> msgs]

HandleModelChange(c, r) ==
    \E replay \in {Replay(c, r)} : \E k \in 0 .. Len(News(replay)), stateSent \in BOOLEAN :
        /\ IF k = Len(News(replay)) /\ stateSent THEN NoFault ELSE Fault("send fails")
        /\ \E out \in {ModelChange(c, r, replay, isLeader, k, stateSent) : isLeader \in BOOLEAN} :
              /\ rtx' = [rtx EXCEPT ![c] = out.sender]
              /\ down' = [down EXCEPT ![c] = @ \o out.msgs]

NotifiedOfModelChange(c) ==
    /\ rtx[c].on /\ rtx[c].modelChange
    /\ HandleModelChange(c, [rtx[c] EXCEPT !.modelChange = FALSE])
    /\ UNCHANGED <<ctrlVars, conn, lowPriority, routerVars>>

\* Mutant: an index the sender has is kept.
SubscribedKeepsIndex(r, req) ==
    [r EXCEPT !.currentIndex = IF @ = 0 THEN req.currentIndex ELSE @,
              !.timelineId = req.timelineId,
              !.subscriptionId = req.subscriptionId,
              !.active = TRUE,
              !.requestModelSync = NoRequest]

\* The sender after the first half of handleSyncRequest.
Subscribed(r, req) ==
    [r EXCEPT !.currentIndex = IF ~req.renew \/ req.subscriptionId # r.subscriptionId
                               THEN req.currentIndex ELSE @,
              !.timelineId = req.timelineId,
              !.subscriptionId = req.subscriptionId,
              !.active = TRUE,
              !.requestModelSync = NoRequest]

\* Mutant: a router on another timeline is not brought over.
OutOfDateIndexOnly(c, r) == currentIndex(ctrl[c].cache) > r.currentIndex

OutOfDate(c, r) ==
    currentIndex(ctrl[c].cache) > r.currentIndex \/ rtx[c].timelineId # r.timelineId

HandleSyncRequest(c) ==
    /\ rtx[c].on
    /\ \E req \in Range(rtx[c].requestModelSync) : \E r \in {Subscribed(rtx[c], req)} :
          IF OutOfDate(c, r)
          THEN HandleModelChange(c, r)
          ELSE rtx' = [rtx EXCEPT ![c] = r] /\ UNCHANGED down /\ NoFault
    /\ UNCHANGED <<ctrlVars, conn, lowPriority, routerVars>>

\* syncRdmUntil passes.
SubscriptionExpires(c) ==
    /\ rtx[c].active /\ Fault("subscription expires")
    /\ rtx' = [rtx EXCEPT ![c].active = FALSE]
    /\ UNCHANGED <<ctrlVars, conn, down, lowPriority, routerVars>>

\* receiveSubscribeRequest, once the request is there: a sender is made on
\* demand, and a newer request takes the place of one that the sender has not
\* looked at yet.
Requested(r, req) ==
    [IF r.on THEN r ELSE NewSender(TRUE) EXCEPT !.requestModelSync = <<req>>]

\* The connect path of an edge router.  It adopts a sender that a subscribe
\* made first; one that it makes itself passes no changes on before the router
\* has answered its hello.
RouterConnected(c) ==
    /\ conn[c] /\ ~rtx[c].on
    /\ rtx' = [rtx EXCEPT ![c] = NewSender(FALSE)]
    /\ UNCHANGED <<ctrlVars, conn, down, lowPriority, routerVars, faults>>

ReceiveClientHello(c) ==
    /\ rtx[c].on /\ ~rtx[c].supportsRouterModel
    /\ rtx' = [rtx EXCEPT ![c].supportsRouterModel = TRUE]
    /\ UNCHANGED <<ctrlVars, conn, down, lowPriority, routerVars, faults>>

-----------------------------------------------------------------------------
(* The router: its subscription *)

\* One endpoint event: if it is about the subscribed controller the
\* subscription is dropped.
EndpointChanged(c) ==
    /\ mgr = Idle /\ c \in changed
    /\ changed' = changed \ {c}
    /\ sub' = IF IsCurrentController(c) THEN NoSubscription ELSE sub
    /\ UNCHANGED <<ctrlVars, linkVars, rdm, saved, resync, mgr, pool, repairVars, faults>>

\* Nothing is on the way from c to the router's model.
Quiet(c) == down[c] = <<>> /\ pool = <<>> /\ rtx[c].requestModelSync = NoRequest

\* checkRouterDataModelSubscription picks c, and subscribeToDataModelUpdates
\* stores the subscription.  There is none, or its controller is gone or
\* slow, or dataModelSubTimeout has passed.  That happens at any time; with
\* messages on the way it counts as a disturbance, to bound how often.
\* The 30 s ticker may start a check at any time, so the modelChanged channel,
\* which only starts one earlier, adds nothing.
CheckSubscription(c) ==
    LET renew == ~resync /\ IsCurrentController(c) IN
    /\ mgr = Idle /\ conn[c] /\ Len(down[c]) <= MaxInFlight
    /\ IF sub = NoSubscription THEN NoFault
       ELSE IF ~conn[sub[1]] \/ Quiet(sub[1]) THEN NoFault
       ELSE Fault("renewal")
    /\ sub' = <<c>>
    /\ mgr' = <<"flag", c, renew>>
    /\ IF renew THEN UNCHANGED <<rtx, down, pool>> ELSE NewSubscriptionId
    /\ UNCHANGED <<ctrlVars, conn, lowPriority, rdm, saved, resync, changed, repairVars>>

\* The request is made of the flag, the index and the timeline as they are
\* when each is loaded.
LoadResync ==
    /\ mgr # Idle /\ mgr[1] = "flag"
    /\ mgr' = <<"index", mgr[2], mgr[3], resync>>
    /\ UNCHANGED <<ctrlVars, linkVars, rdm, saved, sub, resync, changed, pool, repairVars, faults>>

LoadIndex ==
    /\ mgr # Idle /\ mgr[1] = "index"
    /\ mgr' = <<"send", mgr[2], mgr[3], IF mgr[4] THEN 0 ELSE rdm.index>>
    /\ UNCHANGED <<ctrlVars, linkVars, rdm, saved, sub, resync, changed, pool, repairVars, faults>>

\* A closed channel makes the send fail.  An open one may, by a timeout, and
\* the controller may have the request all the same.
SendSubscribe ==
    /\ mgr # Idle /\ mgr[1] = "send"
    /\ LET c         == mgr[2]
           delivered == [rtx EXCEPT ![c] = Requested(@,
                          [currentIndex |-> mgr[4], renew |-> mgr[3],
                           timelineId |-> rdm.timelineId, subscriptionId |-> Current])]
       IN  \/ /\ conn[c] /\ NoFault
              /\ rtx' = delivered /\ mgr' = <<"sent", c>>
              /\ UNCHANGED sub
           \/ /\ IF conn[c] THEN Fault("send fails") ELSE NoFault
              /\ rtx' = rtx \/ (conn[c] /\ rtx' = delivered)
              /\ sub' = NoSubscription /\ mgr' = Idle
    /\ UNCHANGED <<ctrlVars, conn, down, lowPriority, rdm, saved, resync, changed, pool, repairVars>>

SubscribeSent ==
    /\ mgr # Idle /\ mgr[1] = "sent"
    /\ mgr' = Idle /\ resync' = FALSE
    /\ UNCHANGED <<ctrlVars, linkVars, rdm, saved, sub, changed, pool, repairVars, faults>>

-----------------------------------------------------------------------------
(* The router: what arrives *)

\* A change set or full state passes only under the current subscription; if
\* the pool is full the router asks for everything again.
AcceptedAnyId(c, m) == IsCurrentController(c)   \* mutant
Accepted(c, m) == IsCurrentController(c) /\ m.subscriptionId = Current

QueueFullOffByOne == Len(pool) > PoolSize   \* mutant
QueueFull == Len(pool) >= PoolSize

Receive(c) ==
    /\ down[c] # <<>>
    /\ down' = [down EXCEPT ![c] = Tail(@)]
    /\ LET m == Head(down[c]) IN
       /\ pool' = IF Accepted(c, m) /\ ~QueueFull THEN Append(pool, m) ELSE pool
       /\ IF Accepted(c, m) /\ QueueFull
          THEN resync' = TRUE /\ sub' = NoSubscription
          ELSE UNCHANGED <<resync, sub>>
    /\ UNCHANGED <<ctrlVars, conn, rtx, lowPriority, rdm, saved, mgr, changed, repairVars, faults>>

\* The checks of RouterDataModel.Store.
NoGap(m) == FALSE   \* mutant
OutOfOrder(m) == rdm.index > 0 /\ rdm.index >= m.index
Gap(m) == m.previousIndex > 0 /\ rdm.index > 0 /\ m.previousIndex # rdm.index

\* The pool's worker applies a change set; a gap drops the subscription, so
\* that the manager subscribes again from the current index.
ApplyChangeSet ==
    /\ pool # <<>> /\ Head(pool).type = "changeSet"
    /\ ~rmdReplaceInProgress
    /\ pool' = Tail(pool)
    /\ LET m == Head(pool) IN
       \/ OutOfOrder(m) /\ UNCHANGED <<rdm, sub>>
       \/ ~OutOfOrder(m) /\ Gap(m) /\ sub' = NoSubscription /\ UNCHANGED rdm
       \/ /\ ~OutOfOrder(m) /\ ~Gap(m)
          /\ rdm' = [rdm EXCEPT !.index = m.index, !.contents = @ \cup {m.change}]
          /\ UNCHANGED sub
    /\ UNCHANGED <<ctrlVars, linkVars, saved, resync, mgr, changed, repairVars, faults>>

\* The worker replaces the model by a full state, once no other replacement
\* holds the lock.
ApplyDataState ==
    /\ pool # <<>> /\ Head(pool).type = "dataState"
    /\ ~rmdReplaceInProgress
    /\ pool' = Tail(pool)
    /\ rdm' = Head(pool).model
    /\ overtaken' = (overtaken \/ (Head(pool).subscriptionId = Old /\ rdm'.index < rdm.index))
    /\ UNCHANGED <<ctrlVars, linkVars, saved, sub, resync, mgr, changed, fix, rmdReplaceInProgress,
                   faults>>

\* An operator has a controller check the router's model and repair it; the
\* request may be overtaken by what is sent later.
RequestValidation(c) ==
    /\ conn[c] /\ Fault("fix")
    /\ lowPriority' = [lowPriority EXCEPT ![c] = Append(@, ValidateRequest(c))]
    /\ UNCHANGED <<ctrlVars, conn, rtx, down, routerVars>>

\* The router compares; if they differ, its model is going to be replaced.
Validate(c) ==
    /\ lowPriority[c] # <<>> /\ fix = NoFix
    /\ lowPriority' = [lowPriority EXCEPT ![c] = Tail(@)]
    /\ fix' = IF Head(lowPriority[c]).contents = rdm.contents THEN NoFix
              ELSE <<Head(lowPriority[c])>>
    /\ UNCHANGED <<ctrlVars, conn, rtx, down, rdm, saved, sub, resync, mgr, changed, pool,
                   rmdReplaceInProgress, overtaken, faults>>

\* SetRouterDataModel, with its lock, drops the subscription first and puts
\* the model in place after that.
ResetSubscription ==
    /\ fix # NoFix /\ ~rmdReplaceInProgress
    /\ rmdReplaceInProgress' = TRUE /\ sub' = NoSubscription
    /\ UNCHANGED <<ctrlVars, linkVars, rdm, saved, resync, mgr, changed, pool, fix, overtaken, faults>>

ReplaceModel ==
    /\ fix # NoFix /\ rmdReplaceInProgress
    /\ rdm' = fix[1] /\ fix' = NoFix /\ rmdReplaceInProgress' = FALSE
    /\ overtaken' = (overtaken \/ (sub # NoSubscription /\ rdm'.index < rdm.index))
    /\ UNCHANGED <<ctrlVars, linkVars, saved, sub, resync, mgr, changed, pool, faults>>

-----------------------------------------------------------------------------
(* Faults *)

\* What a set of controllers has for the router once its channels are closed:
\* RouterDisconnected has stopped the senders.
Closed(C) ==
    /\ conn' = [c \in Controllers |-> c \notin C /\ conn[c]]
    /\ rtx' = [c \in Controllers |-> IF c \in C THEN NoSender ELSE rtx[c]]
    /\ down' = [c \in Controllers |-> IF c \in C THEN <<>> ELSE down[c]]
    /\ lowPriority' = [c \in Controllers |-> IF c \in C THEN <<>> ELSE lowPriority[c]]

\* The events of these controllers are queued; one that finds the channel
\* full is dropped.
Notified(C) == \E queued \in SUBSET C : changed' = changed \cup queued

Disconnect(c) ==
    /\ conn[c] /\ Fault("disconnect")
    /\ Closed({c})
    /\ Notified({c})
    /\ UNCHANGED <<ctrlVars, rdm, saved, sub, resync, mgr, pool, repairVars>>

Reconnect(c) ==
    /\ ~conn[c]
    /\ conn' = [conn EXCEPT ![c] = TRUE]
    /\ Notified({c})
    /\ UNCHANGED <<ctrlVars, rtx, down, lowPriority, rdm, saved, sub, resync, mgr, pool,
                   repairVars, faults>>

\* A controller restarts with the database it has, or with a newer one out of
\* a raft snapshot: the index is that of any entry, one that made no change
\* set included.
RestartController(c) ==
    /\ Fault("controller restarts")
    /\ \E index \in ctrl[c].applied .. Len(Log) :
          ctrl' = [ctrl EXCEPT ![c] = Started(Log, index)]
    /\ Closed({c})
    /\ Notified({c})
    /\ UNCHANGED <<history, timeline, rdm, saved, sub, resync, mgr, pool, repairVars>>

\* The log of a database with the first n entries of this one, as seen from
\* the raft index len: none of the entries in between changed it.
Branched(n, len) ==
    [i \in 1 .. len |-> IF i <= n THEN Log[i] ELSE [timeline |-> timeline, model |-> FALSE]]

\* The database is replaced by a backup and given a timeline of its own, and
\* the controllers restart.  A standalone controller (NonHaIndexProvider) goes
\* on from the index the backup has; in a cluster the restore is a raft entry
\* like any other, and its index that of the database.
Restore ==
    /\ Fault("restore")
    /\ timeline' = timeline + 1
    /\ \E n \in 1 .. Len(Log) : \E len \in {n, Len(Log) + 1} :
          /\ len = n => Cardinality(Controllers) = 1
          /\ history' = [history EXCEPT ![timeline + 1] = Branched(n, len)]
          /\ ctrl' = [c \in Controllers |-> Started(Branched(n, len), len)]
    /\ Closed(Controllers)
    /\ Notified(Controllers)
    /\ UNCHANGED <<rdm, saved, sub, resync, mgr, pool, repairVars>>

\* A copy that no restart is going to read need not be told apart.
Save ==
    /\ saved # rdm /\ "router restarts" \in Faults /\ faults < MaxFaults
    /\ saved' = rdm
    /\ UNCHANGED <<ctrlVars, linkVars, rdm, sub, resync, mgr, changed, pool, repairVars, faults>>

\* The router restarts from its copy, or from nothing when the copy was being
\* written.
RestartRouter ==
    /\ Fault("router restarts")
    /\ rdm' \in {saved, EmptyModel}
    /\ sub' = NoSubscription /\ resync' = FALSE /\ mgr' = Idle
    /\ changed' = {} /\ pool' = <<>> /\ fix' = NoFix /\ rmdReplaceInProgress' = FALSE
    /\ Closed(Controllers)
    /\ UNCHANGED <<ctrlVars, saved, overtaken>>

-----------------------------------------------------------------------------
SenderStep(c) == NotifiedOfModelChange(c) \/ HandleSyncRequest(c)

WorkerStep == ApplyChangeSet \/ ApplyDataState

RepairStep == ResetSubscription \/ ReplaceModel

ManagerStep ==
    \/ \E c \in Controllers : EndpointChanged(c) \/ CheckSubscription(c)
    \/ LoadResync \/ LoadIndex \/ SendSubscribe \/ SubscribeSent

Environment ==
    \/ Commit \/ Restore \/ Save \/ RestartRouter
    \/ \E c \in Controllers :
          \/ SubscriptionExpires(c) \/ RequestValidation(c)
          \/ Disconnect(c) \/ RestartController(c)

Next ==
    \/ \E c \in Controllers :
          \/ ApplyEntry(c) \/ FanOut(c) \/ RouterConnected(c) \/ ReceiveClientHello(c)
          \/ SenderStep(c) \/ Receive(c) \/ Validate(c) \/ Reconnect(c)
    \/ WorkerStep \/ ManagerStep \/ RepairStep \/ Environment

Spec == Init /\ [][Next]_vars

\* The raft log is applied and its events are passed on; a router dials a
\* controller it has lost until it is connected, and answers its hello.
Background(c) ==
    ApplyEntry(c) \/ FanOut(c) \/ Reconnect(c) \/ RouterConnected(c) \/ ReceiveClientHello(c)

\* Besides, the goroutines of the senders, the channels, the pool and the
\* subscription manager run, the last of them at least at every tick.
Fairness ==
    /\ WF_vars(\E c \in Controllers : Background(c))
    /\ WF_vars(\E c \in Controllers : SenderStep(c))
    /\ WF_vars(\E c \in Controllers : Receive(c) \/ Validate(c))
    /\ WF_vars(WorkerStep \/ RepairStep)
    /\ WF_vars(ManagerStep)

LiveSpec == Spec /\ Fairness

-----------------------------------------------------------------------------
\* The types, and the bounds of the pool's queue and of the ring: one event
\* for every slot in use, the start index aside.
DataModelTypeOK ==
    /\ timeline \in Timelines /\ rdm.timelineId \in Timelines \cup {NoTimeline}
    /\ sub \in {NoSubscription} \cup {<<c>> : c \in Controllers}
    /\ Len(pool) <= PoolSize
    /\ \A c \in Controllers :
          LET cache == ctrl[c].cache IN
          /\ cache.HeadLogIndex \in Slots
          /\ DOMAIN cache.Events \subseteq Range(cache.Log)
          /\ ctrl[c].applied >= currentIndex(cache)

\* A replay that succeeds is complete: it has every change from the index the
\* router asked for up to the newest, in the order of the log, whatever the
\* ring has overwritten.  A sender drops the first of them and sends the rest.
ReplayIsComplete ==
    \A c \in Controllers : \A start \in 1 .. Len(Log) :
        LET cache  == ctrl[c].cache
            replay == ReplayFrom(cache, start)
            events == replay.events
        IN  replay.result = Success =>
                /\ Range(events) = {i \in start .. currentIndex(cache) : Log[i].model}
                /\ \A i \in 2 .. Len(events) : events[i - 1] < events[i]

\* A sender never takes the router to be further than it is: once nothing is
\* on the way, what handleModelChange goes on from is no newer than the
\* router's model, so nothing is left out for good.  Not so for an overtaken
\* model: subscription ids are checked when a message is queued and not when
\* it is applied, and a repair lets the manager subscribe before it is done.
SenderNeverAhead ==
    \A c \in Controllers :
        /\ IsCurrentController(c) /\ Quiet(c) /\ ~rmdReplaceInProgress
        /\ rtx[c].on /\ rtx[c].subscriptionId = Current /\ ~overtaken
        => rtx[c].currentIndex <= rdm.index

InSync == rdm.contents = Contents(Log, Len(Log))

\* The router's index is none that its controller has an event for, yet lies
\* between two that it has.
InGap(c) ==
    LET cache == ctrl[c].cache IN
    /\ rdm.index \notin DOMAIN cache.Events
    /\ cache.MinEntryIndex <= rdm.index /\ rdm.index < currentIndex(cache)

\* Once raft commits nothing more, the router has everything and keeps it.
CatchesUp == <>[](InSync \/ overtaken \/ \E c \in Controllers : InGap(c))

\* A controller whose event cache can replay forward from the router's index
\* streams the deltas, and otherwise sends a full snapshot
\* (ctrl-managed-router-config.md): either way its sender has passed on the
\* newest change once it is through, as long as no send fails.
DeltasReachHead ==
    [][\A c \in Controllers : SenderStep(c) /\ rtx'[c].active
          => rtx'[c].currentIndex >= currentIndex(ctrl[c].cache)]_vars

\* The router's copy implements the abstract view: with every gap check,
\* replay, full state, restart and repair it is at all times the model as it
\* was after one committed entry of the timeline it names (Store and
\* ApplyChangeSet, NewReceiverRouterDataModelFromDataState, SetRouterDataModel).
View == INSTANCE DataModelView WITH copy <- rdm
ViewSpec == View!Spec
=============================================================================

# OpenZiti controller and router: TLA+ specifications

This directory specifies parts of OpenZiti (the controller, the router and what
they share under `common/`) in TLA+, checks them with TLC on small instances and
proves the most important properties with TLAPS for every instance. Every
definition is translated from the code; `PROJECT.json` maps each one to its lines.

## The system

A controller keeps the state of an overlay network in an embedded database,
replicated between controllers with raft, and tells routers what to do. Routers
hold a control channel to every controller, dial links to each other and forward
circuits over those links. SDKs and tunnelers connect to routers to dial and to
host services.

| Part | State | Operations | What makes it hard |
|---|---|---|---|
| Router connect and disconnect (`controller/network`, `controller/handler_ctrl`) | the current connection of each router, a flag per connection, striped mutexes | accept, register, displace, tear down | teardowns of an old connection race a new one; a channel closes while it is being registered; two routers share a mutex |
| Link table (`controller/model/link_manager.go`) | links by id, an index of links per connection | report, fault, cleanup, removal API, teardown | three locks, so adding and removing are sequences of steps |
| Control channel dialer (`controller/handler_ctrl/dialer.go`) | a state per router, a retry queue, a worker pool | scan, dial, result, connected, lost, updated, deleted | events arrive late and out of order; a state outlives its map entry |
| Router peer messaging (`controller/network/router_messaging.go`) | pending updates per router with a version | peer changes, sends and their results, terminator validation | lost sends, results of an earlier connection, messages applied out of order |
| Rate limiters (`controller/command/rate_limiter.go`) | slots, a window, outstanding work | admit, report, expire | expiry races a late report |
| Circuits (`controller/network/network.go`, `routesender.go`) | circuits, one route sender per creation | create with retries, reroute, remove | timeouts race late results of earlier attempts |
| Forwarder (`router/forwarder`) | circuit and destination tables | route, unroute, idle scan, fault | a route may arrive after the unroute of its circuit |
| Link registry (`router/link`) | destinations, a state per link, open links | dial, accept, duplicate resolution, close, notify controllers | dial results, closes and destination updates in any order |
| Hosted services (`router/xgress_edge/hosted.go`) | a terminator state machine per bind | establish, validate, retry, close | the SDK, the controller and timers act on the same terminator |
| Router data model (`common/router_data_model.go`, `event_cache.go`, `controller/sync_strats`) | a replicated model with an index, a ring of events | apply, replay, full sync, resubscribe | a router changes controllers; the ring wraps; indexes are reset |
| Raft state machine (`controller/raft`) | the applied index, snapshots, cluster members | apply, snapshot, restore, wait for an index | a crash between the database commit and the index |

How they interact: the connect protocol decides which connection is current;
link reports and circuits only count for the current one. Its presence events
feed the dialer and peer messaging. Peer messaging drives the routers' link
registries, whose links come back as reports to the link table. Paths are found
in the link table, and circuits are routed along them through the forwarders.
The rate limit tracker guards the entrances of several of these. The raft log is
applied by every controller, whose caches feed the routers' copies of the data
model.

## Modules

| Module | Models | Kind |
|---|---|---|
| `RouterConnect` | admission, registration, displacement and teardown of control channels | specification |
| `RouterConnectProofs` | | theorems |
| `ControllerLinks` | the link table; extends `RouterConnect`, so links and connects are checked in composition | specification |
| `ControllerLinksProofs` | | theorems, on top of `RouterConnectProofs` |
| `CtrlDialer` | the controller's dialer of routers | specification |
| `CtrlDialerProofs` | | theorems |
| `PeerMessaging` | distribution of peer states to one router | specification |
| `PeerMessagingProofs` | | theorems |
| `RateLimitTracker` | the adaptive rate limit tracker | specification |
| `RateLimitTrackerProofs` | | theorems |
| `CircuitRouting` | one circuit: its creation, its routes and tables on the routers, rerouting and removal | specification |
| `EventCache` | the ring of change sets behind a controller's router data model | operators |
| `DataModelSync` | how the controllers keep one router's copy of the data model up to date; uses `EventCache` | specification |
| `DataModelView` | what a router promises of its copy | abstract specification |
| `DataModelSyncProofs` | the event cache, replays, and queues of messages | theorems |
| `DataModelStepProofs` | types; the steps of controllers and senders | theorems |
| `DataModelViewProofs` | the refinement of `DataModelView` | theorems |
| `MC...` | constants for TLC | instances |

### RouterConnect

A connection is one `*model.Router` instance, because `NewCtrlChanRouter` builds a
fresh one per control channel and "current" means pointer identity. Each has up
to three goroutines: `bind` (HandleConnection, Bind, ConnectRouter), `close` (its
close handler, DisconnectRouter) and `report` (NotifyExistingLink). `pc` says where
each is. A step is what a goroutine does between two accesses that another
goroutine could come between: taking the connect stripe, reading the connected
map, reading `IsClosed`, setting the flag, setting the map entry. `connected`,
`flag`, `closed` and `lock` are `RouterManager.connected`, `Router.Connected`,
`Control.IsClosed()` and the holder of each of `connectLocks`. `young` is the churn
limit's age test. A refused connect remembers in `target` the occupant it
displaces, closes its channel and runs its teardown directly.

### ControllerLinks

One link id, since the table treats ids independently. Each report builds a new
object in `Link`; `table`, `index`, `src` and `dst` are the linkTable entry,
`Router.routerLinks`, `Link.Src` and `Link.Dst`. `step` says where in
`LinkManager.Add` or `Remove` a goroutine is. Removers (fault handlers, the removal
API, the cleanup of the Run loop) hold no connect stripe. Each connection's index
is a list in the code and a set here: `RouterLinks.Remove` takes out every
occurrence of the object, so duplicates make no difference. `missed` is a history
variable: the links that were put in the table when a connection of the destination
had already read it (`HasReadTable`) without being the one that the report had
looked up.

### CtrlDialer

One router, since the loop treats routers independently and the shared pool may
be full at any time. Several `routerDialState` objects, since one deleted from the
map may still be on the queue or in a dial. `heap` counts entries of an object in
the retry queue, `active` is `dialActive`, `dialer` is the position of the pool's
goroutine. `pending` is a bag: events come from goroutines and timers, so any may
be next. Times are reduced to whether `nextDial` has passed.

### PeerMessaging

One router, the subject, and its peers. `entry` is `routerUpdates[subject]` with its
version, the changed peers and `sendInProgress`. A record in `sends` is a send
handed to the pool, until its done event has been handled; `cur` says whether its
`*routerUpdates` is still the one in the map and `old` whether its channel has
closed. `dispatching` holds messages the router has received and not yet applied,
one goroutine each. `view` is what its link registry knows. `mishaps` is a history
variable: it records that an event fell into a time without connection, that a
stale result deleted an entry, or that one message overtook another, so that the
properties can say exactly when they hold.

### RateLimitTracker

A piece of work is one `adaptiveRateLimitTrackerWork`. Winning its `completed` flag
and taking the lock are two steps, so that a caller's report and the expiry
goroutine interleave. The comparison of the measured success rate with the
threshold is a free choice. Scaling by the configured factors is a pair of
constant functions with just what `Load()` guarantees of the factors (`Loaded`).
Sizes are int32 (`MaxInt32` is a constant, so that small instances reach it):
`minWindow` and `maxWindow` wrap, as `int32(config.MaxSize)` does, and a product that
int32 cannot hold is converted to any value that Go's conversion may give
(`Truncated`). `Representable` says that a configuration does not get there; the
properties that need it name it.

### CircuitRouting

One circuit, between the routers of a small network. `creation` is the goroutine in
`CreateCircuit` with its `routeSender`: the attempt, the path, the statuses in the
sender's channel (`in`), and `attendance` and `cleanups`, which outlive an attempt as
they do in the code. `circuit` is the circuit object and whether the manager has it,
`reroute` the goroutine that holds `circuit.Rerouting`, which goes through the
routers of the new path one by one. Both choose a path, publish it in
`circuit.path` and send routes in separate steps, so that each may publish over the
other. `net` is a set: control channel messages are handled by goroutines and pools,
so any may be next. It also has the goroutines that have been started and have not
run: the close handler of an end that was dropped or closed (`Closings`), which drops
whatever ends of the circuit its router has by then, the reroute after a link fault
(`Rerouting`), and `rerouteCircuitWithTries` between two tries (`Retry`), when
`circuit.Rerouting` is free for others. Two goroutines with the same number of tries
left count as one. `table` and `dests` are each
router's forward table and registered ends of the circuit. An address is an end or
a link, and a link is the pair of its routers. Any path of links that the
controller believes in may be the shortest. `RoundTrip` sends a payload through the
tables and back, which decides when a forwarding fault is reported and whether the
circuit works.

### EventCache, DataModelSync and DataModelView

`EventCache` has the operations of `LoggingEventCache` as operators on a record with
the names of its fields. A change set is the place in history that made it, so the
cache maps indexes to previous indexes.

`DataModelSync` has one log per timeline in `history` (a restored database starts a
timeline), `ctrl` with the applied index, cache and model of every controller, `rtx`
with its `RouterSender` for the router (one flag for any number of model changes,
one slot for a subscribe request, as in the code), `down` and `lowPriority` with the
messages on the way, and the router: `rdm` and its copy on disk, the subscription
`sub`, the position of the subscription manager in `subscribeToDataModelUpdates`
(`mgr`: it stores the subscription, loads the resync flag, loads the index, and sends,
in four steps), the data model pool's queue, and a repair in progress (`fix`, and
`rmdReplaceInProgress` while `SetRouterDataModel` holds the lock). A request whose send
fails may have been delivered all the same. Connection events may be dropped on their
way to the manager, whose channel is bounded (`Notified`). Subscription
ids are only compared with the current one, so they are `Current` or `Old`. The
contents of a model are the set of changes it has taken in. `overtaken` is a history
variable for the one case in which a newer subscription meets an older model (see
below).

`DataModelView` is the abstract specification: the router's copy is the model as it
was after some committed entry of the timeline that it names. It moves to the next
change or is replaced as a whole. `ViewSpec` is this specification with `copy` mapped
to `rdm`: `DataModelSync` is checked to implement it.

## What TLC checks

| Run | Instance | Shows |
|---|---|---|
| `router_connect` | one router, two connections | `RegistrationAgrees`, `AcceptedOpenIsRegistered`, `PublishOnlyWhileCurrent`, `OnlyClosedLeaveSlot`, no deadlock, and `NoWedgedSlot`: a closed connection always leaves its slot |
| `links_source` | the source of a link reconnects, two iterations, one remover | `NoLinkFromDisconnected`, `IndexComplete`, `AddNeverOverwrites` |
| `links_dest` | the destination of a link reconnects; its two connections are interchangeable | `NoLinkFromDisconnected` and `IndexComplete` with `BuildRouterLinks` in play |
| `dialer_live` | one state object, two addresses, two queue entries per object | `DialingHasDial`, `TrackedIsScheduled`, address index in range, and `RedialedUnlessRaced`: a router that is down is dialed again |
| `dialer_orphan` | two state objects | `TrackedIsScheduled` with objects that have left the map |
| `peers` | two peers, three changes of the network, two sends at a time | `InProgressHasSend`, `QuietMeansKnown`, `ForgottenOnlyWhenSent`, `EventuallyKnown` |
| `tracker` | three pieces of work, windows of 1 and 2, an int32 of four bits | `SlotsAreCounted`, `WindowBoundsWork`, `SlotsComeBack`, and `OpensAgain`: a limiter that refuses work does not do so for ever |
| `circuits_create` | two routers, two attempts, two faults | `EstablishedIsConnected`: a created circuit is wired up; `TablesSettle`: leaked tables are removed; `CircuitsHeal`: a bound initiator ends up with a circuit that works or with none |
| `circuits_reroute` | a ring of three routers, one attempt, one fault | `TablesSettle` and `CircuitsHeal` with reroutes around a failed link or to a cheaper path |
| `datamodel_faults` | one controller, a ring of two slots, one fault of any kind | `SenderNeverAhead`, `ViewSpec` (the refinement), `CatchesUp`, bounds of the pool and the ring |
| `datamodel_failover` | two controllers that start at different entries, one change of subscription with messages on the way | `ReplayIsComplete`, `SenderNeverAhead`, `ViewSpec` while the router's pool overflows and changes of two controllers are in flight |
| `datamodel_gap` | two controllers, one of which starts at an entry without a change set | `DeltasReachHead` is violated |

Why the bounds are enough. Two connections are the least with which one can
displace another while its own teardown and close handler run; the theorems
cover every larger number and shared stripes. Links need an old and a new
connection at one end, and two objects, for an old one to be mistaken for the
new; the two runs put the reconnect at either end. The dialer needs a second
object for one to be orphaned, and two addresses for a list to shrink below an
index. Peer messaging needs a send in progress while another change is recorded
(two sends, three changes), and a change of a second peer in the same entry. The
tracker needs more work than the largest window and a window that is clamped at
both ends (its factors take it past either bound). A circuit needs a second attempt for results and routes of the
first to come late, and a third router for a path to change; two faults let a
message be lost and its repair be disturbed. A report of a forwarding fault that
comes while the controller is still rerouting counts as a fault: reports are an
interval apart, and without a bound they could starve every retry. The caches need a ring that wraps (two
slots, three or four entries), a queue that overflows (one place) and a second
controller whose cache starts later. A fault budget of one for the data model is
deliberate for `ViewSpec`: a restore, a repair and a message left in the pool
together can mix two timelines (see below). A renewal is due every few minutes;
one that comes while messages of the subscription are on their way counts as a fault.
An instance with two faults (lost channels, early renewals, restarts of the router,
failed sends, repairs) has been checked for the same properties as
`datamodel_faults`. Where a run turns the
deadlock check off, the bounded numbers of events, link objects or faults end its
behaviours.

### Fairness

- `RouterConnect`: goroutines run, a router that was refused or lost dials again,
  and a Go mutex is eventually acquired by a waiter (strong fairness of the lock
  steps: its starvation mode guarantees it). Channels need not close.
- `CtrlDialer`: the loop's `select` picks among ready cases at random, so of the dial
  results and the tickers one is taken if some are ready over and over (strong
  fairness of all of them together); dials return; the pool is not full for ever;
  time passes. Routers and operators owe nothing.
- `PeerMessaging`: goroutines run, a closed channel is unregistered, the loop wakes
  up at least with its ticker, and on a channel that stays open not every send
  times out. The network owes nothing.
- `RateLimitTracker`: time passes, the expiry goroutine runs, and whoever has won
  `completed` takes the lock. No caller ever has to report.
- `CircuitRouting`: weak fairness of everything the programs do once started,
  together: messages are handled, deadlines pass, idle tables are scanned again and
  again, and an initiator that stays connected goes on sending, so that a broken
  path is noticed. Creating circuits, binding, closing and losing owe nothing.
- `DataModelSync`: the log is applied and passed on, lost channels are dialed again,
  and the senders, channels, the pool's worker and the subscription manager run
  (weak fairness of each kind). Raft need not commit and nothing need fail.

## What is proved

`RouterConnectProofs`, for every set of routers, connections and stripes, and every
assignment of routers to stripes (`ConnAssumption`: the assignments are functions
and nil is not a connection):

- `Invariance`: `Spec => []IInv`, and from it `TypeCorrect`, `RegistrationAgreement`,
  `AcceptedStaysRegistered`, `PublishCurrent` and the action property
  `SlotDiscipline`.

`AcceptedOpenIsRegistered` is not inductive alone. A teardown's second check and
its `MarkDisconnected` are two steps, so the argument needs that nobody registers
in between (`LockInv`: whoever is between lock and unlock holds the stripe of its
own router, also when it tears down another connection), that the connection it
tears down is of the same router (`TargetInv`) and has closed (`VictimInv`), and
what each step of ConnectRouter has established about the slot (`SlotInv`). Most
steps change neither the map nor the flags; one lemma, `Move`, covers them, and the
registering and deregistering steps have a lemma each.

`RateLimitTrackerProofs`, for every set of work and every configuration that
`Load()` accepts (`ConfigLoaded`): `TrackerInvariance`, and from it `TrackerTypeCorrect`
and `SlotAccounting`; `WindowBound` for those that are also `Representable`. The
strengthening is `MapIsPending`:
work is in the map exactly while it is held or a report on it has won `completed` and
not yet taken the lock. That is what makes each decrement belong to one map entry.

`ControllerLinksProofs`, for every number of routers, connections, stripes, removers,
reports and re-dials (`LinkAssumption`: at most one connection of a router is
established at the start, the ends of the link are different routers, and a goroutine
of the removal API is not one of a connection): `LinkInvariance`, and from it
`LinkTypeCorrect`, `DisconnectedHasNoLink`, `IndexCompleteness` and the action property
`NoOverwrite`. `LinkInv` contains the invariant of `RouterConnect`, because the argument
rests on its locks: reports and teardowns of the source hold its stripe, so while a
report is between its look at the table and its addition nobody else adds
(`ReplaceInv`), and a teardown finds in the index every link its connection is the
source of (`IndexInv`). The destination's stripe is not held. `DestInv` says that a
connection of the destination which has read the table is the destination of the
link in it, or the link is in `missed`; with `IndexInv` for that destination this
gives `IndexComplete` for whichever connection is registered. Removers hold no stripe. `ReplaceInv` says that what they take
out of the indexes has left the table already, `WhereInv` which goroutine can be where
in `Add` and `Remove`, and `ObjectInv` that all of them name links that were built.

`CtrlDialerProofs`, for every number of state objects, addresses, queue entries and
events (`DialerAssumption`: the bounds are positive, nil is not an object):
`DialerInvariance`, and from it `DialerTypeCorrect`, `DialingIsBacked` and
`NeverUntracked`. `DialingHasDial` needs that `dialActive` is set exactly while the
goroutine of a dial runs (`ActiveInv`): an object that is still active is not dialed
again, so a dial's start and its result come in turns. Events are a bag; the lemmas
`RaiseBag` and those after it say what raising and taking one does to it.

`PeerMessagingProofs`, for every finite set of peers, every set of listeners and all
bounds (`PeerAssumption`: the subject is not its own peer, and a set of listeners is
not one of the words the model uses for having none): `PeerInvariance`, and from it
`PeerTypeCorrect`, `SendInProgress`, `PeersKnown` and the action property `ChangesKept`.
`QuietMeansKnown` only speaks of quiet states. `ToldInv` says for every state why a
peer is not lost (`Covered`): the subject has been told the truth about it, or it is in
the entry and no send that takes the entry away has been written, or an event that will
put it there is on its way. `CurrentInv` keeps the one send that belongs to the entry
apart from those of earlier entries, by its version; `CarriedInv` says that what it
writes is true or about to be corrected. The exceptions are those of the properties
(`mishaps`).

`DataModelSyncProofs`, `DataModelStepProofs` and `DataModelViewProofs`, for every ring
size, number of controllers, initial log and bound on entries, queues and faults
(`LogSizeAssumption`: a ring has a slot; `BoundsAssumption`: the bounds are numbers, the
queues have a place and controllers start at entries of the log):

- `ReplayCompleteness`, `Spec => []ReplayIsComplete`. The invariant has two layers.
  `CacheOK` says of a cache and the set of changes its controller has made that the
  indexes of the ring rise from slot to slot around the head (`RingOK`), and that the
  cache has every change that is newer than some index in the ring and not older than
  `MinEntryIndex` (`HoldsChanges`). `StoreOK` shows that storing a change keeps it, with
  eviction, `FreshCacheOK` that a cache set to an index has it, and `ReplayOK` that a
  replay from a cache with it is complete and in order; `WellFoundedInduction` is used
  for the least index found by the upward search. `DataModelInv` says that every
  controller's cache is so with respect to the part of the current timeline's log that
  it has applied. Only applying an entry, restarts, restores and the event flag touch
  it; the lemma `OtherStep` covers the rest.
- `DataModelTypeCorrect`, from `TypeInvariance`: what is in the channels, the requests,
  the pool and the senders are messages and requests.
- `ViewRefinement`, `Spec => ViewSpec`, if restores and repairs are not both among the
  disturbances (`Unmixed`). `Commit` implements `Commit`, `Restore` implements `Branch`,
  `ApplyChangeSet` implements `Advance`; applying a full state, `ReplaceModel` and
  `RestartRouter` implement `Replace`, and every other step is a stutter. That a change
  set the pool's worker applies is the next one of the log the copy follows is not a
  matter of that step: the `PreviousIndex` check compares indexes, and indexes are
  numbered anew after a restore. The invariant `ViewInv` carries the rest: every model
  anywhere is the model after an entry of some timeline (`Copies`); every message is of
  the current timeline (`DownOK`); a change waits in the pool only behind a full state
  of its timeline or for a copy of that timeline (`PoolOK`); and under the current
  subscription a controller that has moved to a new timeline sends its full state
  before any change (`StateFirst`, which is why `timelineId` is compared in
  `handleModelChange` and why a subscription id is renewed). `Stage` is the timeline of
  a copy, which is known from its `timelineId` if there are restores and is the only
  one if there are none.

`Unmixed` cannot be dropped. A model that a repair puts in place has no timeline, and
TLC finds a behaviour with one restore and one repair in which a change set of the old
timeline, waiting in the pool, is then applied to a model of the new one. The run
`datamodel_faults` has all kinds of faults and one fault at a time;
`datamodel_failover` is an instance of the theorem.

Only model-checked are:

- liveness, which is out of the prover's reach: `NoWedgedSlot`, `RedialedUnlessRaced`,
  `EventuallyKnown`, `SlotsComeBack`, `OpensAgain`, `TablesSettle`, `CircuitsHeal` and `CatchesUp`;
- the invariants of `CircuitRouting`, `CircuitTypeOK` and `EstablishedIsConnected`: what
  is connected is the result of following tables from router to router, a recursive
  definition about which the prover cannot reason by induction;
- `SenderNeverAhead`: it needs an invariant that follows the indexes of every message
  between a sender and the copy through refused, lost and renewed subscriptions, which
  `ViewInv` does not.

## Where code and documentation disagree

`datamodel_gap` exhibits one disagreement. A sender replays from the index the
router named and drops the first event, taking it to be the one the router has. A
controller that starts at an entry without a change set gives its full state that
entry's index; a router that takes it and then subscribes to a controller whose
cache has changes on both sides of that index is not sent the first change after
it. The next one fails the router's `PreviousIndex` check, and a new subscription
from the same index goes the same way, until the ring has moved past the index or
the router changes controllers. `CatchesUp` excepts such routers (`InGap`).

The models contain the following behaviours too. They were found as violations of a
property that quotes the document, and the properties that are kept say where they
do not apply.

- Links: src/controller/network/router_connect_test.go:333 states that "once a
  router is disconnected, no link may remain naming it as its source".
  `LinkManager.Add` publishes a link in the table before it is indexed. A removal in
  between (fault, cleanup, removal API) leaves the link in the destination's index,
  where path finding still sees it after the source has disconnected; the teardown
  of the source does nothing for a link that the table does not hold.
- Dialer: dialer-states.md:8 has a router in `NeedsDial` "sitting on the retry queue".
  A dial's goroutine queues its result before the deferred store clears `dialActive`
  (dialer.go:399, 417). If the loop handles the result and pops the state in
  between, the state is on no queue with no result to come, and `scan()` skips
  tracked routers. `raced` marks this.
- Peers: "Reconnecting resyncs everything" (router_messaging.go:213), but a router
  that reconnects is told of connected peers only (line 479), so a peer that went
  away in the meantime stays healthy in its registry. `mishaps` marks this.
- Peers: "if the router disconnected, we're going to sync everything anyway" (line
  207). Versions restart with every entry, so the result of a send over the
  previous connection can match and delete the updates collected for the new one
  (line 519). `mishaps` marks this too.
- Circuits: CHANGELOG.0.19.md:977 says that a session is created "if all of the
  participating routers respond affirmatively within the timeout period". The
  attendance map is never reset (routesender.go:91, 117): a router of an earlier
  path that did not answer is still awaited by later attempts, which time out
  although all of their routers answered. They are cleaned up like other failures.

Behaviours the specifications contain and no run singles out:

- `NotifyExistingLink` looks up the destination (network.go:603) with the stripe of
  the source only. If the destination connects after the lookup and has read the
  table (`BuildRouterLinks`) before the link is in it, the link is in no index of the
  new connection and keeps the old one, or none, as its destination. Reports of the
  same iteration return early (link_manager.go:153), so this lasts until the link is
  re-dialed or the destination connects again. `missed` marks it, and `IndexComplete`
  is about all other links.
- `Load()` bounds neither `increaseFactor` nor `maxSize` from above. With a `maxSize`
  above int32 the window is negative from the start and nothing is ever admitted.
  With a factor whose product int32 cannot hold, an increase may give a negative
  window, since the result is clamped from above only; the limiter then stays closed.
  TLC shows both when `Representable` is dropped, and `WindowBoundsWork`
  and `OpensAgain` are for configurations that satisfy it.
- A limiter's window shrinks when work expires, also below the work that is
  outstanding. `OpensAgain` shows that it still opens when that work is gone.
- An end that an unroute has dropped closes later and then drops all ends of the
  circuit on its router, those of a newer attempt included (close.go:56).
  `CircuitsHeal` covers it.
- `CreateCircuit` and a reroute publish paths over each other. A reroute that read the
  path of an earlier attempt puts the addresses of that attempt back into the circuit.
  `CircuitsHeal` covers what follows.
- A connection can be registered after its channel has closed and its close
  handler has run: `ConnectRouter` checks `IsClosed` before `MarkConnected`.
  `NoWedgedSlot` shows that the next dial of the router frees the slot.
- A `routerDialState` that has left the map is still dialed from the queue, next to
  the one that replaced it, although `dialActive` "prevents duplicate submissions"
  (dialer-states.md): the flag belongs to the object.
- The late close report of a dialed channel goes through `connectionLost` again and
  resets the backoff a fast failure had set.
- Two messages about one peer are applied by two goroutines; the older one may be
  applied last.
- A route result that arrives after its attempt was given up, once the circuit has
  been created by the next attempt, is answered with an unroute of the circuit in
  use. `CircuitsHeal` shows that the next payload has the circuit rerouted or removed.
- The subscription id of a full state is compared when it is queued
  (router/state/dataState.go:41) and not when it is applied, and a repair drops the
  subscription before it replaces the model (manager.go:1109), so the manager may
  subscribe from the newer model that an older one then replaces. `overtaken` marks
  both; the next renewal with a gap repairs them. Together with a restore they can
  put changes of one timeline on top of a model of another.
- A change that is fanned out before a new sender has seen the router's hello is
  passed on with the next change or renewal only.
- A resync that is asked for between `SendSubscribe` and `SubscribeSent` is
  forgotten, because the flag is cleared after the send.

## Plan

Done: the connect protocol, the link table on top of it, the dialer, peer
messaging, the rate limit tracker, circuits, and the distribution of the data
model, with proofs for all of them but the circuits. Next, in this order:

1. Link registry: dial states, duplicates by iteration, established and closed
   events out of order (link_registry.go:588), the lookup of a removed
   destination's links by id in a map keyed by link key (link_events.go:50), and the
   notification of controllers. To be composed with `ControllerLinks` by its reports.
2. Hosted services: the terminator state machine of `hosted.go`, with terminator
   validation (a lost response is repeated only through a timeout,
   router_messaging.go:301).
3. Raft index tracking; the mesh peer dialer, which is built like `CtrlDialer`;
   shortest paths against a reference definition over small graphs.

Proofs planned: `ViewSpec` with restores and repairs where no message of an earlier
timeline waits in the pool; `EstablishedIsConnected` with tables followed by a
recursive function instead of an operator.

## Not modelled

The database and its query engine (serialised transactions), the REST API and
entity managers (one command or query per request), authentication flows, events
and metrics (nothing reads them back), transports and interceptors (byte pumps and
platform interfaces), configuration and the command line, and the libraries the
code uses (channels, hashicorp/raft, xgress). `PROJECT.json` lists each with its
reason.

Inside the modelled parts: database read errors (router_messaging.go:239); the data
race of `doDial` on the address (dialer.go:419), whose outcome is a failed dial;
listeners that change between `NewCtrlChanRouter` and `MarkConnected`, which the
dialer sees as any listeners; costs, parallel links and links that come back for
circuits; an egress that was dialed while its route failed, which the xgress library
closes (forwarder.go:168); what a reconnecting router does about its circuits;
synthetic change sets, per-router filtering of
configs, and what a change does to the entities of the data model.

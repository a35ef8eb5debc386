----------------------------- MODULE CtrlDialer -----------------------------
(***************************************************************************)
(* The controller's dialer of router control channels                      *)
(* (controller/handler_ctrl/dialer.go).  One event loop owns the states    *)
(* map and the retry queue; dials run in a worker pool and report back     *)
(* with an event.                                                          *)
(*                                                                         *)
(* One router is modelled: the loop treats routers independently, and the  *)
(* pool they share is full or not, as it likes.  The router may have       *)
(* several routerDialState objects, because one that was deleted from the  *)
(* states map can still be on the queue or in a dial.                      *)
(*                                                                         *)
(* Events come from the pool, from timers, from presence handlers (started *)
(* with go on connect) and from entity listeners, so those that are        *)
(* pending are a bag: the loop may see them in any order.                  *)
(***************************************************************************)
EXTENDS Naturals, FiniteSets, Bags

CONSTANTS
  Obj,          \* routerDialState objects
  MaxAddr,      \* bound on the endpoints a router advertises
  MaxEvents,    \* bound on the pending events, dial results aside
  MaxCopies,    \* bound on the entries of one object in the retry queue
  NoObj         \* nil

ASSUME DialerAssumption ==
  /\ MaxAddr \in Nat \ {0} /\ MaxEvents \in Nat \ {0} /\ MaxCopies \in Nat \ {0}
  /\ NoObj \notin Obj

VARIABLES
  listeners,    \* matching endpoints of the router in the datastore; 0 if it
                \* is disabled or deleted
  conn,         \* the router's control channel: "down", or who dialed it
  entry,        \* states[routerId]
  state,        \* the fields of each object
  heap,         \* how often each object is on the retry queue
  active,       \* dialActive of each object
  dialer,       \* where the pool's goroutine for an object is
  pending,      \* events waiting for the loop
  evaluating,   \* the loop is inside evaluateRetryQueue
  raced         \* history: a state was dropped from the queue because the
                \* goroutine of a finished dial had not cleared dialActive yet

dvars == <<listeners, conn, entry, state, heap, active, dialer, pending,
           evaluating, raced>>

(* "lost" is a RouterDisconnected call, "closed" comes from the close      *)
(* handler of a channel this dialer dialed.                                *)
Event == {"lost", "closed", "connected", "updated", "deleted", "ok", "failed"}

(* next abstracts nextDial: it has passed ("due") or not; the backoff of a *)
(* fast failure is told apart.  How much of FastFailureWindow has passed   *)
(* since connectedAt is chosen when it is looked at.                       *)
DialState == [status : {"NeedsDial", "Dialing", "Connected"},
              next : {"due", "waiting", "fast failure"},
              addresses : 1..MaxAddr,
              addrIndex : 0..(MaxAddr - 1)]

NewState(n) == [status |-> "NeedsDial", next |-> "waiting",
                addresses |-> n, addrIndex |-> 0]

(* After the first scan.                                                   *)
DialerInit ==
  /\ listeners \in 0..MaxAddr
  /\ conn = "down"
  /\ entry \in Obj \cup {NoObj} /\ (entry = NoObj <=> listeners = 0)
  /\ state = [o \in Obj |-> NewState(IF o = entry THEN listeners ELSE 1)]
  /\ heap = [o \in Obj |-> IF o = entry THEN 1 ELSE 0]
  /\ active = [o \in Obj |-> FALSE]
  /\ dialer = [o \in Obj |-> "none"]
  /\ pending = EmptyBag
  /\ evaluating = FALSE
  /\ raced = FALSE

----------------------------------------------------------------------------
(* routerDialState                                                         *)

DialFailed(s) ==
  [s EXCEPT !.status = "NeedsDial", !.next = "waiting",
            !.addrIndex = (@ + 1) % s.addresses]

(* dialResultEvent schedules the re-check after FastFailureWindow.         *)
DialSucceeded(s) == [s EXCEPT !.status = "Connected", !.next = "waiting"]

(* The outcomes of connectionLost: a connection that is lost within        *)
(* FastFailureWindow is a failed dial, any other is retried at once.       *)
ConnectionLost(s) ==
  {[s EXCEPT !.status = "NeedsDial", !.addrIndex = 0, !.next = "waiting"]}
    \cup (IF s.status = "Connected"
          THEN {[DialFailed(s) EXCEPT !.next = "fast failure"]} ELSE {})

(* The address list is refreshed and the index clamped.                    *)
Refresh(s, n) == [s EXCEPT !.addresses = n, !.addrIndex = @ % n]

(* getRouterIdEndpointsNeedingDial, for n matching endpoints.              *)
EndpointsNeedingDial(n) == IF conn = "down" THEN n ELSE 0

----------------------------------------------------------------------------

Raise(es, room) ==
  /\ BagCardinality(pending) + Cardinality(es) <= room
  /\ pending' = pending (+) SetToBag(es)

(* The loop takes an event.                                                *)
Take(e) ==
  /\ ~evaluating
  /\ BagIn(e, pending)
  /\ pending' = pending (-) SetToBag({e})

Push(o) ==
  /\ heap[o] < MaxCopies
  /\ heap' = [heap EXCEPT ![o] = @ + 1]

Unreferenced(o) == o # entry /\ heap[o] = 0 /\ dialer[o] = "none"

(* A new object enters the states map with fields s, and the queue.        *)
Track(s) ==
  \E o \in Obj :
    /\ Unreferenced(o)
    /\ entry' = o
    /\ state' = [state EXCEPT ![o] = s]
    /\ Push(o)

(* The environment of the loop leaves this alone.                          *)
network == <<listeners, conn>>
pool == <<active, dialer>>

----------------------------------------------------------------------------
(* Routers and their control channels; RouterConnect has the details.      *)

(* The router dials; ConnectRouter calls RouterConnected.                  *)
RouterDials ==
  /\ conn = "down"
  /\ conn' = "router"
  /\ Raise({"connected"}, MaxEvents)
  /\ UNCHANGED <<listeners, entry, state, heap, pool, evaluating, raced>>

(* The channel closes: DisconnectRouter calls RouterDisconnected, and a    *)
(* channel this dialer dialed has a close handler of its own.              *)
ChannelLost ==
  /\ conn # "down"
  /\ conn' = "down"
  /\ Raise({"lost"} \cup (IF conn = "dialer" THEN {"closed"} ELSE {}), MaxEvents)
  /\ UNCHANGED <<listeners, entry, state, heap, pool, evaluating, raced>>

(* The router is created, updated or deleted in the datastore.             *)
Update(n) ==
  /\ listeners' = n
  /\ Raise({"updated"}, MaxEvents)
  /\ UNCHANGED <<conn, entry, state, heap, pool, evaluating, raced>>

Delete ==
  /\ listeners' = 0
  /\ Raise({"deleted"}, MaxEvents)
  /\ UNCHANGED <<conn, entry, state, heap, pool, evaluating, raced>>

----------------------------------------------------------------------------
(* doDial, in the pool.                                                    *)

(* The address does not parse, the dial or the bind fails.                 *)
DialFails(o) ==
  /\ dialer[o] = "dialing"
  /\ dialer' = [dialer EXCEPT ![o] = "sent"]
  /\ Raise({"failed"}, MaxEvents + 1)
  /\ UNCHANGED <<network, entry, state, heap, active, evaluating, raced>>

(* The bind of the new channel registers it with ConnectRouter.            *)
DialBinds(o) ==
  /\ dialer[o] = "dialing"
  /\ conn = "down"
  /\ conn' = "dialer"
  /\ dialer' = [dialer EXCEPT ![o] = "bound"]
  /\ Raise({"connected"}, MaxEvents + 1)
  /\ UNCHANGED <<listeners, entry, state, heap, active, evaluating, raced>>

DialReturns(o) ==
  /\ dialer[o] = "bound"
  /\ Raise({"ok"}, MaxEvents + 1)
  /\ dialer' = [dialer EXCEPT ![o] = "sent"]
  /\ UNCHANGED <<network, entry, state, heap, active, evaluating, raced>>

(* The deferred dialActive.Store(false), after the result was queued.      *)
DialEnds(o) ==
  /\ dialer[o] = "sent"
  /\ dialer' = [dialer EXCEPT ![o] = "none"]
  /\ active' = [active EXCEPT ![o] = FALSE]
  /\ UNCHANGED <<network, entry, state, heap, pending, evaluating, raced>>

----------------------------------------------------------------------------
(* The event handlers.                                                     *)

(* routerDisconnectedEvent.  n is what the datastore lists, or the Router  *)
(* instance RouterDisconnected was called with, which can be out of date:  *)
(* updates reach only instances that are in the connected map.             *)
HandleDisconnected(e, n) ==
  /\ Take(e)
  /\ \/ /\ entry # NoObj
        /\ \E lost \in ConnectionLost(state[entry]) : state' = [state EXCEPT ![entry] = lost]
        /\ Push(entry)
        /\ UNCHANGED entry
     \/ /\ entry = NoObj /\ EndpointsNeedingDial(n) > 0
        /\ Track(NewState(n))
     \/ /\ entry = NoObj /\ EndpointsNeedingDial(n) = 0
        /\ UNCHANGED <<entry, state, heap>>
  /\ UNCHANGED <<network, pool, evaluating, raced>>

(* Mutant: the address list is refreshed, the index is not clamped.        *)
HandleUpdatedUnclamped ==
  /\ Take("updated")
  /\ entry # NoObj /\ EndpointsNeedingDial(listeners) > 0
  /\ state' = [state EXCEPT ![entry].addresses = listeners]
  /\ UNCHANGED <<network, pool, entry, heap, evaluating, raced>>

(* routerUpdatedEvent, also queued when a router is created.               *)
HandleUpdated ==
  /\ Take("updated")
  /\ LET n == EndpointsNeedingDial(listeners) IN
       \/ /\ entry # NoObj /\ state[entry].status = "Connected"
          /\ UNCHANGED <<entry, state, heap>>
       \/ /\ entry # NoObj /\ state[entry].status # "Connected"
          /\ entry' = IF n = 0 THEN NoObj ELSE entry
          /\ state' = IF n = 0 THEN state
                      ELSE [state EXCEPT ![entry] = Refresh(@, n)]
          /\ UNCHANGED heap
       \/ /\ entry = NoObj /\ n > 0
          /\ Track(NewState(n))
       \/ /\ entry = NoObj /\ n = 0
          /\ UNCHANGED <<entry, state, heap>>
  /\ UNCHANGED <<network, pool, evaluating, raced>>

(* routerConnectedEvent, for a channel dialed by either side.              *)
HandleConnected ==
  /\ Take("connected")
  /\ state' = IF entry = NoObj THEN state
              ELSE [state EXCEPT ![entry].status = "Connected"]
  /\ UNCHANGED <<network, pool, entry, heap, evaluating, raced>>

HandleDeleted ==
  /\ Take("deleted")
  /\ entry' = NoObj
  /\ UNCHANGED <<network, pool, state, heap, evaluating, raced>>

Outcome(e, s) == IF e = "ok" THEN DialSucceeded(s) ELSE DialFailed(s)

(* Mutant: a failed dial is not put back on the queue.                     *)
HandleDialResultNoPush(e) ==
  /\ Take(e)
  /\ IF entry = NoObj
     THEN UNCHANGED <<state, heap>>
     ELSE /\ state' = [state EXCEPT ![entry] = Outcome(e, @)]
          /\ IF e = "ok" THEN Push(entry) ELSE UNCHANGED heap
  /\ UNCHANGED <<network, pool, entry, evaluating, raced>>

(* dialResultEvent names the router, not the object that was dialed.       *)
HandleDialResult(e) ==
  /\ Take(e)
  /\ IF entry = NoObj
     THEN UNCHANGED <<state, heap>>
     ELSE /\ state' = [state EXCEPT ![entry] = Outcome(e, @)]
          /\ Push(entry)
  /\ UNCHANGED <<network, pool, entry, evaluating, raced>>

HandleEvent(e) ==
  \/ e = "lost" /\ \E n \in 0..MaxAddr : HandleDisconnected(e, n)
  \/ e = "closed" /\ HandleDisconnected(e, listeners)
  \/ e = "updated" /\ HandleUpdated
  \/ e = "connected" /\ HandleConnected
  \/ e = "deleted" /\ HandleDeleted
  \/ e \in {"ok", "failed"} /\ HandleDialResult(e)

(* scan: at startup and every hour.                                        *)
Scan ==
  /\ ~evaluating
  /\ entry = NoObj
  /\ EndpointsNeedingDial(listeners) > 0
  /\ Track(NewState(listeners))
  /\ UNCHANGED <<network, pool, pending, evaluating, raced>>

----------------------------------------------------------------------------
(* The retry queue.                                                        *)

Due(o) == heap[o] > 0 /\ state[o].next = "due"

(* The 5 second ticker fires and something is due.                         *)
EvaluateRetryQueue ==
  /\ ~evaluating
  /\ \E o \in Obj : Due(o)
  /\ evaluating' = TRUE
  /\ UNCHANGED <<network, pool, entry, state, heap, pending, raced>>

(* The head of the queue is not due.  Objects change while they are on the *)
(* queue, so the head need not be the earliest.                            *)
EvaluateDone ==
  /\ evaluating
  /\ (\A o \in Obj : ~Due(o)) \/ (\E o \in Obj : heap[o] > 0 /\ ~Due(o))
  /\ evaluating' = FALSE
  /\ UNCHANGED <<network, pool, entry, state, heap, pending, raced>>

Pop(o) ==
  /\ evaluating
  /\ Due(o)
  /\ heap' = [heap EXCEPT ![o] = @ - 1]

(* evaluateDialState                                                       *)

(* Still connected after FastFailureWindow: stop tracking the router.      *)
EvaluateSurvived(o) ==
  /\ state[o].status = "Connected" /\ conn # "down"
  /\ Pop(o)
  /\ entry' = NoObj
  /\ UNCHANGED <<network, pool, state, pending, evaluating, raced>>

(* Mutant: the lost connection is looked at again later, not given up.     *)
EvaluateLostWaits(o) ==
  /\ evaluating /\ Due(o)
  /\ state[o].status = "Connected" /\ conn = "down"
  /\ state' = [state EXCEPT ![o].next = "waiting"]
  /\ UNCHANGED <<network, pool, entry, heap, pending, evaluating, raced>>

(* Popped and pushed again.                                                *)
EvaluateLost(o) ==
  /\ evaluating /\ Due(o)
  /\ state[o].status = "Connected" /\ conn = "down"
  /\ \E lost \in ConnectionLost(state[o]) : state' = [state EXCEPT ![o] = lost]
  /\ UNCHANGED <<network, pool, entry, heap, pending, evaluating, raced>>

EvaluateUnneeded(o) ==
  /\ state[o].status # "Connected" /\ EndpointsNeedingDial(listeners) = 0
  /\ Pop(o)
  /\ entry' = NoObj
  /\ UNCHANGED <<network, pool, state, pending, evaluating, raced>>

NeedsDial(o) ==
  state[o].status # "Connected" /\ EndpointsNeedingDial(listeners) > 0

ResultPending == BagIn("ok", pending) \/ BagIn("failed", pending)

(* dialActive.CompareAndSwap fails; the object is not pushed again.        *)
EvaluateActive(o) ==
  /\ NeedsDial(o) /\ active[o]
  /\ Pop(o)
  /\ state' = [state EXCEPT ![o] = Refresh(@, listeners)]
  /\ raced' = (raced \/ (o = entry /\ dialer[o] = "sent" /\ ~ResultPending))
  /\ UNCHANGED <<network, pool, entry, pending, evaluating>>

(* Mutant: the status is set although the dial could not be queued.        *)
EvaluatePoolFullDialing(o) ==
  /\ evaluating /\ Due(o)
  /\ NeedsDial(o) /\ ~active[o]
  /\ state' = [state EXCEPT ![o] =
       [DialFailed(Refresh(@, listeners)) EXCEPT !.status = "Dialing"]]
  /\ UNCHANGED <<network, pool, entry, heap, pending, evaluating, raced>>

(* QueueOrError fails: popped, failed and pushed again.                    *)
EvaluatePoolFull(o) ==
  /\ evaluating /\ Due(o)
  /\ NeedsDial(o) /\ ~active[o]
  /\ state' = [state EXCEPT ![o] = DialFailed(Refresh(@, listeners))]
  /\ UNCHANGED <<network, pool, entry, heap, pending, evaluating, raced>>

EvaluateDial(o) ==
  /\ NeedsDial(o) /\ ~active[o]
  /\ Pop(o)
  /\ state' = [state EXCEPT ![o] = [Refresh(@, listeners) EXCEPT !.status = "Dialing"]]
  /\ active' = [active EXCEPT ![o] = TRUE]
  /\ dialer' = [dialer EXCEPT ![o] = "dialing"]
  /\ UNCHANGED <<network, entry, pending, evaluating, raced>>

EvaluateStep ==
  \/ EvaluateRetryQueue
  \/ EvaluateDone
  \/ \E o \in Obj :
       \/ EvaluateSurvived(o)
       \/ EvaluateLost(o)
       \/ EvaluateUnneeded(o)
       \/ EvaluateActive(o)
       \/ EvaluatePoolFull(o)
       \/ EvaluateDial(o)

(* Time passes.  evaluateRetryQueue reads the clock once, at its start.    *)
Arrive(o) ==
  /\ ~evaluating
  /\ heap[o] > 0 /\ state[o].next # "due"
  /\ state' = [state EXCEPT ![o].next = "due"]
  /\ UNCHANGED <<network, pool, entry, heap, pending, evaluating, raced>>

----------------------------------------------------------------------------

NetworkStep ==
  \/ RouterDials
  \/ ChannelLost
  \/ \E n \in 0..MaxAddr : Update(n)
  \/ Delete

DialStep(o) ==
  \/ DialFails(o)
  \/ DialBinds(o)
  \/ DialReturns(o)
  \/ DialEnds(o)

DialerNext ==
  \/ NetworkStep
  \/ \E o \in Obj : DialStep(o) \/ Arrive(o)
  \/ \E e \in Event : HandleEvent(e)
  \/ Scan
  \/ EvaluateStep

(* Time passes, and the loop's select picks a ready case at random: among  *)
(* dial results and tickers that are ready over and over one is taken.     *)
(* Goroutines of the pool and a pass over the queue run to their end, and  *)
(* dials return, so that the pool is not full for ever.  Routers and       *)
(* operators owe nothing.                                                  *)
DialerFairness ==
  /\ SF_dvars(\/ \E e \in {"ok", "failed"} : HandleEvent(e)
             \/ Scan \/ EvaluateRetryQueue \/ \E o \in Obj : Arrive(o))
  /\ SF_dvars(\E o \in Obj : EvaluateDial(o))
  /\ WF_dvars((evaluating /\ EvaluateStep) \/ \E o \in Obj : DialStep(o))

DialerSpec == DialerInit /\ [][DialerNext]_dvars
DialerFairSpec == DialerSpec /\ DialerFairness

----------------------------------------------------------------------------

DialerTypeOK ==
  /\ listeners \in 0..MaxAddr
  /\ conn \in {"down", "router", "dialer"}
  /\ entry \in Obj \cup {NoObj}
  /\ state \in [Obj -> DialState]
  /\ \A o \in Obj : state[o].addrIndex < state[o].addresses
  /\ heap \in [Obj -> 0..MaxCopies]
  /\ active \in [Obj -> BOOLEAN]
  /\ dialer \in [Obj -> {"none", "dialing", "bound", "sent"}]
  /\ IsABag(pending) /\ BagToSet(pending) \subseteq Event
  /\ evaluating \in BOOLEAN
  /\ raced \in BOOLEAN

(* A dial of o has been submitted and its result is still to come.         *)
InFlight(o) == dialer[o] \in {"dialing", "bound"} \/ ResultPending

(* No router is left in Dialing: the status means that an attempt "has     *)
(* been submitted to the worker pool and is in progress"                   *)
(* (dialer-states.md), or that its result waits for the loop.  Nothing     *)
(* else takes the router out of that status.                               *)
DialingHasDial ==
  entry # NoObj /\ state[entry].status = "Dialing" => InFlight(entry)

(* The loop never loses track of a router: a tracked state is on the retry *)
(* queue or will be put there by the result of a dial.  scan() skips       *)
(* tracked routers, so nothing else would bring it back.  Excepted is a    *)
(* state that a pass dropped between the handling of a dial's result and   *)
(* the end of its goroutine (EvaluateActive).                              *)
TrackedIsScheduled ==
  entry # NoObj /\ ~raced => heap[entry] > 0 \/ InFlight(entry)

(* A router that is down and has endpoints is dialed again.                *)
DownWithEndpoints == conn = "down" /\ listeners > 0
RedialedUnlessRaced ==
  DownWithEndpoints ~>
    (~DownWithEndpoints \/ raced \/ \E o \in Obj : dialer[o] = "dialing")
=============================================================================

--------------------------- MODULE CtrlDialerProofs ---------------------------
(***************************************************************************)
(* The dialer's event loop never leaves a router in Dialing without a dial *)
(* and never loses track of one, for any number of routerDialState objects *)
(* and any bounds.                                                         *)
(***************************************************************************)
EXTENDS CtrlDialer, Integers, TLAPS

(* The fields of an object: the address index is within the list.         *)
Good == {s \in DialState : s.addrIndex < s.addresses}

Typed ==
  /\ listeners \in 0..MaxAddr
  /\ conn \in {"down", "router", "dialer"}
  /\ entry \in Obj \cup {NoObj}
  /\ state \in [Obj -> Good]
  /\ heap \in [Obj -> 0..MaxCopies]
  /\ active \in [Obj -> BOOLEAN]
  /\ dialer \in [Obj -> {"none", "dialing", "bound", "sent"}]
  /\ IsABag(pending) /\ BagToSet(pending) \subseteq Event
  /\ evaluating \in BOOLEAN
  /\ raced \in BOOLEAN

(* dialActive is set exactly while the goroutine of a dial runs.           *)
ActiveInv == \A o \in Obj : active[o] <=> dialer[o] # "none"

(* The inductive invariant.                                                *)
DialerInv == Typed /\ ActiveInv /\ DialingHasDial /\ TrackedIsScheduled

----------------------------------------------------------------------------
(* Bags of events.                                                         *)

LEMMA RaiseBag ==
  ASSUME NEW es \in SUBSET Event, NEW room, Raise(es, room), IsABag(pending),
         BagToSet(pending) \subseteq Event
  PROVE  /\ IsABag(pending') /\ BagToSet(pending') \subseteq Event
         /\ \A e \in Event : BagIn(e, pending') <=> BagIn(e, pending) \/ e \in es
<1>1. pending' = pending (+) SetToBag(es)
  BY DEF Raise
<1>2. DOMAIN pending' = DOMAIN pending \cup es
  BY <1>1 DEF SetToBag, (+)
<1>3. \A e \in DOMAIN pending' : pending'[e] \in {n \in Nat : n > 0}
  BY <1>1 DEF SetToBag, (+), IsABag
<1> QED
  BY <1>1, <1>2, <1>3 DEF IsABag, BagToSet, BagIn, (+)

LEMMA TakeBag ==
  ASSUME NEW e \in Event, Take(e), IsABag(pending), BagToSet(pending) \subseteq Event
  PROVE  /\ IsABag(pending') /\ BagToSet(pending') \subseteq Event /\ ~evaluating
         /\ \A x \in Event : x # e => (BagIn(x, pending') <=> BagIn(x, pending))
<1>1. pending' = pending (-) SetToBag({e}) /\ ~evaluating
  BY DEF Take
<1>2. \A x \in DOMAIN pending : pending[x] \in Nat /\ pending[x] > 0
  BY DEF IsABag
<1>3. DOMAIN SetToBag({e}) = {e} /\ SetToBag({e})[e] = 1
  BY DEF SetToBag
<1> DEFINE left == [x \in DOMAIN pending |->
                      IF x \in DOMAIN SetToBag({e}) THEN pending[x] - SetToBag({e})[x]
                      ELSE pending[x]]
<1>4. pending' = [x \in {d \in DOMAIN left : left[d] > 0} |-> left[x]]
  BY <1>1 DEF (-)
<1>5. \A x \in DOMAIN pending : left[x] \in Int /\ (x # e => left[x] = pending[x])
  BY <1>2, <1>3
<1>6. DOMAIN left = DOMAIN pending
  OBVIOUS
<1> HIDE DEF left
<1>7. /\ DOMAIN pending' \subseteq DOMAIN pending
      /\ \A x \in DOMAIN pending : x # e => x \in DOMAIN pending'
      /\ pending' \in [DOMAIN pending' -> {n \in Nat : n > 0}]
  BY <1>2, <1>4, <1>5, <1>6
<1> QED
  BY <1>1, <1>7 DEF IsABag, BagToSet, BagIn

----------------------------------------------------------------------------
(* routerDialState                                                         *)

LEMMA GoodFields ==
  ASSUME NEW s \in Good
  PROVE  /\ s \in DialState
         /\ s.addresses \in 1..MaxAddr /\ s.addrIndex \in 0..(MaxAddr - 1)
         /\ s.addrIndex < s.addresses
  BY Zenon DEF Good, DialState

LEMMA NewStateGood ==
  ASSUME NEW n \in 1..MaxAddr
  PROVE  NewState(n) \in Good /\ NewState(n).status = "NeedsDial"
  BY DialerAssumption DEF NewState, Good, DialState

LEMMA StatusGood ==
  ASSUME NEW s \in Good, NEW st \in {"NeedsDial", "Dialing", "Connected"},
         NEW nx \in {"due", "waiting", "fast failure"}
  PROVE  /\ [s EXCEPT !.status = st] \in Good /\ [s EXCEPT !.status = st].status = st
         /\ [s EXCEPT !.next = nx] \in Good /\ [s EXCEPT !.next = nx].status = s.status
  BY Zenon DEF Good, DialState

LEMMA DialFailedGood ==
  ASSUME NEW s \in Good
  PROVE  DialFailed(s) \in Good /\ DialFailed(s).status = "NeedsDial"
<1>1. (s.addrIndex + 1) % s.addresses \in 0..(s.addresses - 1)
  BY GoodFields
<1>2. /\ (s.addrIndex + 1) % s.addresses \in 0..(MaxAddr - 1)
      /\ (s.addrIndex + 1) % s.addresses < s.addresses
  BY <1>1, GoodFields, DialerAssumption
<1> QED
  BY Zenon, <1>2 DEF DialFailed, Good, DialState

LEMMA RefreshGood ==
  ASSUME NEW s \in Good, NEW n \in 1..MaxAddr
  PROVE  Refresh(s, n) \in Good /\ Refresh(s, n).status = s.status
<1>1. s.addrIndex % n \in 0..(n - 1)
  BY GoodFields
<1>2. s.addrIndex % n \in 0..(MaxAddr - 1) /\ s.addrIndex % n < n
  BY <1>1, DialerAssumption
<1> QED
  BY Zenon, <1>2 DEF Refresh, Good, DialState

LEMMA OutcomeGood ==
  ASSUME NEW s \in Good, NEW e
  PROVE  Outcome(e, s) \in Good /\ Outcome(e, s).status # "Dialing"
<1>1. DialSucceeded(s) \in Good /\ DialSucceeded(s).status = "Connected"
  BY Zenon DEF DialSucceeded, Good, DialState
<1> QED
  BY <1>1, DialFailedGood DEF Outcome

LEMMA ConnectionLostGood ==
  ASSUME NEW s \in Good, NEW lost \in ConnectionLost(s)
  PROVE  lost \in Good /\ lost.status = "NeedsDial"
<1>1. [s EXCEPT !.status = "NeedsDial", !.addrIndex = 0, !.next = "waiting"] \in Good
  <2>1. s \in DialState /\ 0 < s.addresses /\ 0 \in 0..(MaxAddr - 1)
    BY GoodFields, DialerAssumption
  <2> QED
    BY Zenon, <2>1 DEF Good, DialState
<1>2. /\ [DialFailed(s) EXCEPT !.next = "fast failure"] \in Good
      /\ [DialFailed(s) EXCEPT !.next = "fast failure"].status = "NeedsDial"
  <2>1. DialFailed(s) \in Good /\ DialFailed(s).status = "NeedsDial"
    BY DialFailedGood
  <2> QED
    BY Zenon, <2>1 DEF Good, DialState
<1>3. [s EXCEPT !.status = "NeedsDial", !.addrIndex = 0, !.next = "waiting"].status
        = "NeedsDial"
  BY Zenon DEF Good, DialState
<1> QED
  BY Zenon, <1>1, <1>2, <1>3 DEF ConnectionLost

----------------------------------------------------------------------------
(* The environment and the pool.                                           *)

LEMMA InitInv == DialerInit => DialerInv
<1> SUFFICES ASSUME DialerInit PROVE DialerInv
  OBVIOUS
<1>1. IsABag(pending) /\ BagToSet(pending) = {}
  BY DEF DialerInit, EmptyBag, SetToBag, IsABag, BagToSet
<1>2. \A o \in Obj : state[o] \in Good /\ state[o].status = "NeedsDial"
  <2>1. ASSUME NEW o \in Obj
        PROVE  (IF o = entry THEN listeners ELSE 1) \in 1..MaxAddr
    BY DialerAssumption DEF DialerInit
  <2> QED
    BY <2>1, NewStateGood DEF DialerInit
<1>3. Typed
  <2>1. state \in [Obj -> Good]
    BY Zenon, <1>2 DEF DialerInit
  <2>2. heap \in [Obj -> 0..MaxCopies]
    BY DialerAssumption DEF DialerInit
  <2> QED
    BY Zenon, <1>1, <2>1, <2>2 DEF DialerInit, Typed
<1>4. ActiveInv
  BY DEF DialerInit, ActiveInv
<1>5. DialingHasDial /\ TrackedIsScheduled
  BY <1>2 DEF DialerInit, DialingHasDial, TrackedIsScheduled
<1> QED
  BY <1>3, <1>4, <1>5 DEF DialerInv

(* More results may be pending; nothing else of the loop changes.          *)
LEMMA NetworkFrame ==
  ASSUME DialerInv, listeners' \in 0..MaxAddr, conn' \in {"down", "router", "dialer"},
         NEW es \in SUBSET Event, NEW room, Raise(es, room),
         UNCHANGED <<entry, state, heap, pool, evaluating, raced>>
  PROVE  DialerInv'
<1>1. /\ IsABag(pending') /\ BagToSet(pending') \subseteq Event
      /\ \A e \in Event : BagIn(e, pending) => BagIn(e, pending')
  BY RaiseBag DEF DialerInv, Typed
<1>2. Typed'
  BY <1>1 DEF DialerInv, Typed, pool
<1>3. ActiveInv'
  BY Zenon DEF DialerInv, ActiveInv, pool
<1>4. ResultPending => ResultPending'
  BY <1>1 DEF ResultPending, Event
<1>5. DialingHasDial' /\ TrackedIsScheduled'
  BY Zenon, <1>4 DEF DialerInv, DialingHasDial, TrackedIsScheduled, InFlight, pool
<1> QED
  BY <1>2, <1>3, <1>5 DEF DialerInv

LEMMA NetworkInv ==
  ASSUME DialerInv, NetworkStep
  PROVE  DialerInv'
<1>1. listeners \in 0..MaxAddr /\ conn \in {"down", "router", "dialer"}
  BY DEF DialerInv, Typed
<1>2. CASE RouterDials
  <2>1. {"connected"} \in SUBSET Event /\ Raise({"connected"}, MaxEvents)
    BY <1>2 DEF RouterDials, Event
  <2> QED
    BY <1>1, <1>2, <2>1, NetworkFrame DEF RouterDials
<1>3. CASE ChannelLost
  <2>1. PICK es \in SUBSET Event : Raise(es, MaxEvents)
    BY <1>3 DEF ChannelLost, Event
  <2> QED
    BY <1>1, <1>3, <2>1, NetworkFrame DEF ChannelLost
<1>4. CASE \E n \in 0..MaxAddr : Update(n)
  <2>1. {"updated"} \in SUBSET Event /\ Raise({"updated"}, MaxEvents)
    BY <1>4 DEF Update, Event
  <2> QED
    BY <1>1, <1>4, <2>1, NetworkFrame DEF Update
<1>5. CASE Delete
  <2>1. {"deleted"} \in SUBSET Event /\ Raise({"deleted"}, MaxEvents)
    BY <1>5 DEF Delete, Event
  <2>2. 0 \in 0..MaxAddr
    BY DialerAssumption
  <2> QED
    BY <1>1, <1>5, <2>1, <2>2, NetworkFrame DEF Delete
<1> QED
  BY <1>2, <1>3, <1>4, <1>5 DEF NetworkStep

(* The pool's goroutine of o moves from one place to the next.             *)
LEMMA DialFrame ==
  ASSUME DialerInv, NEW o \in Obj, NEW to \in {"none", "bound", "sent"},
         dialer[o] # "none", dialer' = [dialer EXCEPT ![o] = to],
         active' = [active EXCEPT ![o] = (to # "none")],
         IsABag(pending'), BagToSet(pending') \subseteq Event,
         conn' \in {"down", "router", "dialer"},
         ResultPending => ResultPending',
         dialer[o] = "sent" \/ to = "bound" \/ ResultPending',
         UNCHANGED <<listeners, entry, state, heap, evaluating, raced>>
  PROVE  DialerInv'
<1>1. Typed'
  BY DEF DialerInv, Typed
<1>2. /\ dialer'[o] = to /\ (active'[o] <=> to # "none")
      /\ \A p \in Obj : p # o => dialer'[p] = dialer[p] /\ active'[p] = active[p]
  BY Zenon DEF DialerInv, Typed
<1>3. ActiveInv'
  BY Zenon, <1>2 DEF DialerInv, ActiveInv
<1>4. ASSUME entry # NoObj, InFlight(entry) PROVE InFlight(entry)'
  <2>1. CASE entry = o
    BY <1>2, <1>4, <2>1 DEF InFlight
  <2>2. CASE entry # o
    BY <1>2, <1>4, <2>2 DEF InFlight, DialerInv, Typed
  <2> QED
    BY <2>1, <2>2
<1>5. DialingHasDial' /\ TrackedIsScheduled'
  BY Zenon, <1>4 DEF DialerInv, DialingHasDial, TrackedIsScheduled
<1> QED
  BY Zenon, <1>1, <1>3, <1>5 DEF DialerInv

LEMMA DialInv ==
  ASSUME DialerInv, NEW o \in Obj, DialStep(o)
  PROVE  DialerInv'
<1>1. /\ conn \in {"down", "router", "dialer"} /\ active \in [Obj -> BOOLEAN]
      /\ dialer[o] # "none" => active[o]
      /\ IsABag(pending) /\ BagToSet(pending) \subseteq Event
  BY DEF DialerInv, Typed, ActiveInv
<1>2. dialer[o] # "none" => active = [active EXCEPT ![o] = TRUE]
  BY <1>1
<1>3. ASSUME NEW e \in Event, Raise({e}, MaxEvents + 1)
      PROVE  /\ IsABag(pending') /\ BagToSet(pending') \subseteq Event
             /\ ResultPending => ResultPending'
             /\ e \in {"ok", "failed"} => ResultPending'
  <2>1. /\ IsABag(pending') /\ BagToSet(pending') \subseteq Event
        /\ \A x \in Event : BagIn(x, pending') <=> BagIn(x, pending) \/ x \in {e}
    BY <1>1, <1>3, RaiseBag
  <2>2. "ok" \in Event /\ "failed" \in Event
    BY DEF Event
  <2> QED
    BY <2>1, <2>2 DEF ResultPending
<1>4. "ok" \in Event /\ "failed" \in Event /\ "connected" \in Event
  BY DEF Event
<1>5. CASE DialFails(o)
  BY Zenon, <1>2, <1>3, <1>4, <1>5, <1>1, DialFrame DEF DialFails, network
<1>6. CASE DialBinds(o)
  BY Zenon, <1>2, <1>3, <1>4, <1>6, <1>1, DialFrame DEF DialBinds, network
<1>7. CASE DialReturns(o)
  BY Zenon, <1>2, <1>3, <1>4, <1>7, <1>1, DialFrame DEF DialReturns, network
<1>8. CASE DialEnds(o)
  <2>1. ResultPending' = ResultPending
    BY <1>8 DEF DialEnds, ResultPending
  <2> QED
    BY Zenon, <2>1, <1>8, <1>1, DialFrame DEF DialEnds, network
<1> QED
  BY <1>5, <1>6, <1>7, <1>8 DEF DialStep

----------------------------------------------------------------------------
(* The event handlers.                                                     *)

(* A handler puts the tracked object on the queue in another status than   *)
(* Dialing, or leaves it where it is without using up a dial's result.     *)
LEMMA HandleFrame ==
  ASSUME DialerInv, NEW e \in Event, Take(e),
         UNCHANGED <<network, pool, evaluating, raced>>,
         entry' \in Obj \cup {NoObj}, state' \in [Obj -> Good],
         heap' \in [Obj -> 0..MaxCopies],
         entry' # NoObj =>
           \/ heap'[entry'] > 0 /\ state'[entry'].status # "Dialing"
           \/ /\ entry' = entry /\ heap'[entry] = heap[entry]
              /\ e \notin {"ok", "failed"}
              /\ state'[entry].status = "Dialing" => state[entry].status = "Dialing"
  PROVE  DialerInv'
<1>1. /\ IsABag(pending') /\ BagToSet(pending') \subseteq Event
      /\ \A x \in Event : x # e => (BagIn(x, pending') <=> BagIn(x, pending))
  BY Zenon, TakeBag DEF DialerInv, Typed
<1>2. Typed'
  BY <1>1 DEF DialerInv, Typed, network, pool
<1>3. ActiveInv'
  BY Zenon DEF DialerInv, ActiveInv, pool
<1>4. e \notin {"ok", "failed"} => (ResultPending => ResultPending')
  BY <1>1 DEF ResultPending, Event
<1>5. (entry' = entry /\ e \notin {"ok", "failed"} /\ InFlight(entry)) => InFlight(entry)'
  BY Zenon, <1>4 DEF InFlight, pool
<1>6. DialingHasDial' /\ TrackedIsScheduled'
  BY Zenon, <1>5 DEF DialerInv, DialingHasDial, TrackedIsScheduled
<1> QED
  BY Zenon, <1>2, <1>3, <1>6 DEF DialerInv

LEMMA PushedOne ==
  ASSUME Typed, NEW o \in Obj, Push(o)
  PROVE  heap' \in [Obj -> 0..MaxCopies] /\ heap'[o] > 0
<1>1. heap \in [Obj -> 0..MaxCopies] /\ heap[o] < MaxCopies
  BY DEF Typed, Push
<1>2. heap[o] + 1 \in 0..MaxCopies /\ heap[o] + 1 > 0
  BY <1>1, DialerAssumption
<1> QED
  BY <1>1, <1>2 DEF Push

(* A new object is queued as NeedsDial.                                    *)
LEMMA TrackedOne ==
  ASSUME Typed, NEW n \in 1..MaxAddr, Track(NewState(n))
  PROVE  /\ entry' \in Obj /\ state' \in [Obj -> Good] /\ heap' \in [Obj -> 0..MaxCopies]
         /\ heap'[entry'] > 0 /\ state'[entry'].status # "Dialing"
<1>1. PICK o \in Obj : /\ entry' = o /\ Push(o)
                       /\ state' = [state EXCEPT ![o] = NewState(n)]
  BY Zenon DEF Track
<1>2. NewState(n) \in Good /\ NewState(n).status = "NeedsDial"
  BY NewStateGood
<1>3. state' \in [Obj -> Good] /\ state'[o] = NewState(n)
  BY <1>1, <1>2 DEF Typed
<1> QED
  BY <1>1, <1>2, <1>3, PushedOne

LEMMA EndpointsBound ==
  ASSUME NEW n \in 0..MaxAddr
  PROVE  /\ EndpointsNeedingDial(n) \in 0..MaxAddr
         /\ EndpointsNeedingDial(n) > 0 => EndpointsNeedingDial(n) = n /\ n \in 1..MaxAddr
  BY DialerAssumption DEF EndpointsNeedingDial

LEMMA HandleDisconnectedInv ==
  ASSUME DialerInv, NEW e \in Event, NEW n \in 0..MaxAddr, HandleDisconnected(e, n)
  PROVE  DialerInv'
<1>1. Take(e) /\ UNCHANGED <<network, pool, evaluating, raced>>
  BY DEF HandleDisconnected
<1>2. Typed /\ entry \in Obj \cup {NoObj} /\ state \in [Obj -> Good]
      /\ heap \in [Obj -> 0..MaxCopies]
  BY DEF DialerInv, Typed
<1>3. CASE /\ entry # NoObj
           /\ \E lost \in ConnectionLost(state[entry]) :
                state' = [state EXCEPT ![entry] = lost]
           /\ Push(entry)
           /\ UNCHANGED entry
  <2>1. PICK lost \in ConnectionLost(state[entry]) : state' = [state EXCEPT ![entry] = lost]
    BY Zenon, <1>3
  <2>2. lost \in Good /\ lost.status = "NeedsDial" /\ entry \in Obj
    BY <1>2, <1>3, ConnectionLostGood
  <2>3. state' \in [Obj -> Good] /\ state'[entry] = lost
    BY <1>2, <2>1, <2>2
  <2>4. heap' \in [Obj -> 0..MaxCopies] /\ heap'[entry] > 0
    BY <1>2, <1>3, <2>2, PushedOne
  <2> QED
    BY <1>1, <1>2, <1>3, <2>2, <2>3, <2>4, HandleFrame
<1>4. CASE EndpointsNeedingDial(n) > 0 /\ Track(NewState(n))
  <2>1. n \in 1..MaxAddr
    BY <1>4, EndpointsBound
  <2> QED
    BY <1>1, <1>2, <1>4, <2>1, TrackedOne, HandleFrame
<1>5. CASE entry = NoObj /\ UNCHANGED <<entry, state, heap>>
  BY <1>1, <1>2, <1>5, HandleFrame
<1> QED
  BY <1>3, <1>4, <1>5 DEF HandleDisconnected

LEMMA HandleUpdatedInv ==
  ASSUME DialerInv, HandleUpdated
  PROVE  DialerInv'
<1> DEFINE n == EndpointsNeedingDial(listeners)
<1>1. /\ Take("updated") /\ UNCHANGED <<network, pool, evaluating, raced>>
      /\ "updated" \in Event /\ "updated" \notin {"ok", "failed"}
  BY DEF HandleUpdated, Event
<1>2. Typed /\ entry \in Obj \cup {NoObj} /\ state \in [Obj -> Good]
      /\ heap \in [Obj -> 0..MaxCopies] /\ listeners \in 0..MaxAddr
  BY DEF DialerInv, Typed
<1>3. n \in 0..MaxAddr /\ (n # 0 => n \in 1..MaxAddr)
  BY <1>2, EndpointsBound, DialerAssumption
<1>4. CASE UNCHANGED <<entry, state, heap>>
  BY <1>1, <1>2, <1>4, HandleFrame
<1>5. CASE /\ entry # NoObj /\ entry' = IF n = 0 THEN NoObj ELSE entry
           /\ state' = IF n = 0 THEN state ELSE [state EXCEPT ![entry] = Refresh(@, n)]
           /\ UNCHANGED heap
  <2>1. CASE n = 0
    BY <1>1, <1>2, <1>5, <2>1, HandleFrame
  <2>2. CASE n # 0
    <3>1. /\ entry \in Obj /\ Refresh(state[entry], n) \in Good
          /\ Refresh(state[entry], n).status = state[entry].status
      BY <1>2, <1>3, <1>5, <2>2, RefreshGood
    <3>2. /\ state' \in [Obj -> Good] /\ state'[entry] = Refresh(state[entry], n)
          /\ entry' = entry /\ heap' = heap
      BY <1>2, <1>5, <2>2, <3>1
    <3> QED
      BY <1>1, <1>2, <3>1, <3>2, HandleFrame
  <2> QED
    BY <2>1, <2>2
<1>6. CASE n > 0 /\ Track(NewState(n))
  <2>1. n \in 1..MaxAddr
    BY <1>3, <1>6
  <2> QED
    BY <1>1, <1>2, <1>6, <2>1, TrackedOne, HandleFrame
<1> QED
  BY <1>4, <1>5, <1>6 DEF HandleUpdated

LEMMA HandleConnectedInv ==
  ASSUME DialerInv, HandleConnected
  PROVE  DialerInv'
<1>1. /\ Take("connected") /\ UNCHANGED <<network, pool, entry, heap, evaluating, raced>>
      /\ "connected" \in Event /\ "connected" \notin {"ok", "failed"}
  BY DEF HandleConnected, Event
<1>2. /\ entry \in Obj \cup {NoObj} /\ state \in [Obj -> Good]
      /\ heap \in [Obj -> 0..MaxCopies]
  BY DEF DialerInv, Typed
<1>3. CASE entry = NoObj
  BY <1>1, <1>2, <1>3, HandleFrame DEF HandleConnected
<1>4. CASE entry # NoObj
  <2>1. /\ entry \in Obj /\ state[entry] \in Good
        /\ state' = [state EXCEPT ![entry] = [@ EXCEPT !.status = "Connected"]]
    BY <1>2, <1>4 DEF HandleConnected
  <2>2. /\ [state[entry] EXCEPT !.status = "Connected"] \in Good
        /\ [state[entry] EXCEPT !.status = "Connected"].status = "Connected"
    BY Zenon, <2>1, StatusGood
  <2>3. state' \in [Obj -> Good] /\ state'[entry].status = "Connected"
    BY <1>2, <2>1, <2>2
  <2> QED
    BY <1>1, <1>2, <2>3, HandleFrame
<1> QED
  BY <1>3, <1>4

LEMMA HandleDeletedInv ==
  ASSUME DialerInv, HandleDeleted
  PROVE  DialerInv'
<1>1. "deleted" \in Event /\ state \in [Obj -> Good] /\ heap \in [Obj -> 0..MaxCopies]
  BY DEF Event, DialerInv, Typed
<1> QED
  BY <1>1, HandleFrame DEF HandleDeleted

LEMMA HandleDialResultInv ==
  ASSUME DialerInv, NEW e \in {"ok", "failed"}, HandleDialResult(e)
  PROVE  DialerInv'
<1>1. /\ Take(e) /\ UNCHANGED <<network, pool, entry, evaluating, raced>> /\ e \in Event
  BY DEF HandleDialResult, Event
<1>2. /\ Typed /\ entry \in Obj \cup {NoObj} /\ state \in [Obj -> Good]
      /\ heap \in [Obj -> 0..MaxCopies]
  BY DEF DialerInv, Typed
<1>3. CASE entry = NoObj
  BY <1>1, <1>2, <1>3, HandleFrame DEF HandleDialResult
<1>4. CASE entry # NoObj
  <2>1. /\ entry \in Obj /\ state[entry] \in Good /\ Push(entry)
        /\ state' = [state EXCEPT ![entry] = Outcome(e, state[entry])]
    BY <1>2, <1>4 DEF HandleDialResult
  <2>2. /\ state' \in [Obj -> Good] /\ state'[entry].status # "Dialing"
    BY <1>2, <2>1, OutcomeGood
  <2>3. heap' \in [Obj -> 0..MaxCopies] /\ heap'[entry] > 0
    BY <1>2, <2>1, PushedOne
  <2> QED
    BY <1>1, <1>2, <2>1, <2>2, <2>3, HandleFrame
<1> QED
  BY <1>3, <1>4

LEMMA HandleInv ==
  ASSUME DialerInv, NEW e \in Event, HandleEvent(e)
  PROVE  DialerInv'
<1>1. listeners \in 0..MaxAddr
  BY DEF DialerInv, Typed
<1> QED
  BY Zenon, <1>1, HandleDisconnectedInv, HandleUpdatedInv, HandleConnectedInv,
     HandleDeletedInv, HandleDialResultInv DEF HandleEvent

----------------------------------------------------------------------------
(* The scan, the passing of time and the retry queue.                      *)

(* No event is taken and no dial moves.  An object that stays tracked      *)
(* keeps its copies on the queue, or has a dial in flight.                 *)
LEMMA QueueFrame ==
  ASSUME DialerInv, UNCHANGED <<network, pool, pending>>,
         entry' \in Obj \cup {NoObj}, state' \in [Obj -> Good],
         heap' \in [Obj -> 0..MaxCopies], evaluating' \in BOOLEAN, raced' \in BOOLEAN,
         raced => raced',
         entry' # NoObj =>
           \/ heap'[entry'] > 0 /\ state'[entry'].status # "Dialing"
           \/ /\ entry' = entry
              /\ state'[entry].status = "Dialing" => state[entry].status = "Dialing"
              /\ heap'[entry] > 0 \/ heap'[entry] = heap[entry] \/ raced'
                   \/ InFlight(entry)
  PROVE  DialerInv'
<1>1. Typed'
  BY DEF DialerInv, Typed, network, pool
<1>2. ActiveInv'
  BY Zenon DEF DialerInv, ActiveInv, pool
<1>3. entry' = entry /\ InFlight(entry) => InFlight(entry)'
  BY Zenon DEF InFlight, ResultPending, pool
<1>4. DialingHasDial' /\ TrackedIsScheduled'
  BY Zenon, <1>3 DEF DialerInv, DialingHasDial, TrackedIsScheduled
<1> QED
  BY Zenon, <1>1, <1>2, <1>4 DEF DialerInv

LEMMA LoopTypes ==
  ASSUME DialerInv
  PROVE  /\ Typed /\ entry \in Obj \cup {NoObj} /\ state \in [Obj -> Good]
         /\ heap \in [Obj -> 0..MaxCopies] /\ listeners \in 0..MaxAddr
         /\ evaluating \in BOOLEAN /\ raced \in BOOLEAN
  BY DEF DialerInv, Typed

LEMMA ScanInv ==
  ASSUME DialerInv, Scan
  PROVE  DialerInv'
<1>1. listeners \in 1..MaxAddr /\ Track(NewState(listeners))
  BY LoopTypes, EndpointsBound DEF Scan
<1>2. /\ entry' \in Obj /\ state' \in [Obj -> Good] /\ heap' \in [Obj -> 0..MaxCopies]
      /\ heap'[entry'] > 0 /\ state'[entry'].status # "Dialing"
  BY <1>1, TrackedOne, LoopTypes
<1> QED
  BY <1>2, LoopTypes, QueueFrame DEF Scan

(* One object's fields change, its status only away from Dialing.          *)
LEMMA FieldsInv ==
  ASSUME DialerInv, NEW o \in Obj, NEW s \in Good,
         s.status = "Dialing" => state[o].status = "Dialing",
         state' = [state EXCEPT ![o] = s],
         UNCHANGED <<network, pool, entry, heap, pending, evaluating, raced>>
  PROVE  DialerInv'
<1>1. /\ state' \in [Obj -> Good]
      /\ \A p \in Obj : state'[p].status = "Dialing" => state[p].status = "Dialing"
  BY LoopTypes
<1> QED
  BY <1>1, LoopTypes, QueueFrame

LEMMA ArriveInv ==
  ASSUME DialerInv, NEW o \in Obj, Arrive(o)
  PROVE  DialerInv'
<1> DEFINE s == [state[o] EXCEPT !.next = "due"]
<1>1. s \in Good /\ s.status = state[o].status
  BY Zenon, LoopTypes, StatusGood
<1>2. state' = [state EXCEPT ![o] = s]
  BY LoopTypes DEF Arrive
<1> QED
  BY Zenon, <1>1, <1>2, FieldsInv DEF Arrive

LEMMA EvaluateLostInv ==
  ASSUME DialerInv, NEW o \in Obj, EvaluateLost(o)
  PROVE  DialerInv'
<1>1. PICK lost \in ConnectionLost(state[o]) : state' = [state EXCEPT ![o] = lost]
  BY Zenon DEF EvaluateLost
<1>2. lost \in Good /\ lost.status = "NeedsDial"
  BY LoopTypes, ConnectionLostGood
<1> QED
  BY Zenon, <1>1, <1>2, FieldsInv DEF EvaluateLost

LEMMA EvaluatePoolFullInv ==
  ASSUME DialerInv, NEW o \in Obj, EvaluatePoolFull(o)
  PROVE  DialerInv'
<1>1. state[o] \in Good /\ listeners \in 1..MaxAddr
  BY LoopTypes, EndpointsBound DEF EvaluatePoolFull, NeedsDial
<1>2. Refresh(state[o], listeners) \in Good
  BY <1>1, RefreshGood
<1>3. /\ DialFailed(Refresh(state[o], listeners)) \in Good
      /\ DialFailed(Refresh(state[o], listeners)).status = "NeedsDial"
  BY <1>2, DialFailedGood
<1> QED
  BY Zenon, <1>3, FieldsInv DEF EvaluatePoolFull

LEMMA PopOne ==
  ASSUME DialerInv, NEW o \in Obj, Pop(o)
  PROVE  /\ heap' \in [Obj -> 0..MaxCopies] /\ \A p \in Obj : p # o => heap'[p] = heap[p]
         /\ raced \in BOOLEAN /\ evaluating \in BOOLEAN
<1>1. heap \in [Obj -> 0..MaxCopies] /\ heap[o] > 0 /\ heap' = [heap EXCEPT ![o] = @ - 1]
  BY LoopTypes DEF Pop, Due
<1>2. heap[o] - 1 \in 0..MaxCopies
  BY <1>1, DialerAssumption
<1> QED
  BY <1>1, <1>2, LoopTypes

LEMMA EvaluateForgetsInv ==
  ASSUME DialerInv, NEW o \in Obj, EvaluateSurvived(o) \/ EvaluateUnneeded(o)
  PROVE  DialerInv'
<1>1. /\ Pop(o) /\ entry' = NoObj
      /\ UNCHANGED <<network, pool, state, pending, evaluating, raced>>
  BY DEF EvaluateSurvived, EvaluateUnneeded
<1> QED
  BY <1>1, PopOne, LoopTypes, QueueFrame

(* The object that finds its dial still active is not pushed again: unless *)
(* the step is the recorded race, that dial has its result to come.        *)
LEMMA EvaluateActiveInv ==
  ASSUME DialerInv, NEW o \in Obj, EvaluateActive(o)
  PROVE  DialerInv'
<1>1. state[o] \in Good /\ listeners \in 1..MaxAddr
  BY LoopTypes, EndpointsBound DEF EvaluateActive, NeedsDial
<1>2. Refresh(state[o], listeners) \in Good
      /\ Refresh(state[o], listeners).status = state[o].status
  BY <1>1, RefreshGood
<1>3. /\ state' \in [Obj -> Good]
      /\ \A p \in Obj : state'[p].status = "Dialing" => state[p].status = "Dialing"
  BY <1>2, LoopTypes DEF EvaluateActive
<1>4. /\ heap' \in [Obj -> 0..MaxCopies] /\ \A p \in Obj : p # o => heap'[p] = heap[p]
      /\ raced \in BOOLEAN /\ evaluating \in BOOLEAN
  BY PopOne DEF EvaluateActive
<1>5. raced' \in BOOLEAN /\ (raced => raced')
  BY <1>4 DEF EvaluateActive
<1>6. dialer[o] \in {"dialing", "bound", "sent"}
  BY DEF DialerInv, Typed, ActiveInv, EvaluateActive
<1>7. o = entry => raced' \/ InFlight(entry)
  BY Zenon, <1>6 DEF EvaluateActive, InFlight
<1> QED
  BY SMTT(20), <1>3, <1>4, <1>5, <1>7, LoopTypes, QueueFrame DEF EvaluateActive

LEMMA EvaluateDialInv ==
  ASSUME DialerInv, NEW o \in Obj, EvaluateDial(o)
  PROVE  DialerInv'
<1> DEFINE s == [Refresh(state[o], listeners) EXCEPT !.status = "Dialing"]
<1>1. state[o] \in Good /\ listeners \in 1..MaxAddr
  BY LoopTypes, EndpointsBound DEF EvaluateDial, NeedsDial
<1>2. s \in Good
  BY Zenon, <1>1, RefreshGood, StatusGood
<1>3. state' \in [Obj -> Good] /\ \A p \in Obj : p # o => state'[p] = state[p]
  BY <1>2, LoopTypes DEF EvaluateDial
<1>4. /\ heap' \in [Obj -> 0..MaxCopies] /\ \A p \in Obj : p # o => heap'[p] = heap[p]
  BY PopOne DEF EvaluateDial
<1>5. /\ active' \in [Obj -> BOOLEAN]
      /\ dialer' \in [Obj -> {"none", "dialing", "bound", "sent"}]
      /\ dialer'[o] = "dialing" /\ \A p \in Obj : p # o => dialer'[p] = dialer[p]
      /\ ActiveInv'
  BY DEF DialerInv, Typed, ActiveInv, EvaluateDial
<1>6. UNCHANGED <<network, entry, pending, evaluating, raced>>
  BY DEF EvaluateDial
<1>7. Typed'
  BY <1>3, <1>4, <1>5, <1>6 DEF DialerInv, Typed, network
<1>8. entry \in Obj \cup {NoObj}
  BY LoopTypes
<1>9. InFlight(o)' /\ \A p \in Obj : p # o /\ InFlight(p) => InFlight(p)'
  BY Zenon, <1>5, <1>6 DEF InFlight, ResultPending
<1>10. DialingHasDial' /\ TrackedIsScheduled'
  <2>1. CASE entry = o
    BY Zenon, <2>1, <1>6, <1>9 DEF DialingHasDial, TrackedIsScheduled
  <2>2. CASE entry # o
    BY Zenon, <2>2, <1>3, <1>4, <1>6, <1>8, <1>9
       DEF DialerInv, DialingHasDial, TrackedIsScheduled
  <2> QED
    BY <2>1, <2>2
<1> QED
  BY Zenon, <1>5, <1>7, <1>10 DEF DialerInv

LEMMA EvaluateInv ==
  ASSUME DialerInv, EvaluateStep
  PROVE  DialerInv'
<1>1. CASE EvaluateRetryQueue
  BY <1>1, LoopTypes, QueueFrame DEF EvaluateRetryQueue
<1>2. CASE EvaluateDone
  BY Zenon, <1>2, LoopTypes, QueueFrame DEF EvaluateDone
<1> QED
  BY Zenon, <1>1, <1>2, EvaluateForgetsInv, EvaluateLostInv, EvaluateActiveInv,
     EvaluatePoolFullInv, EvaluateDialInv DEF EvaluateStep

----------------------------------------------------------------------------

LEMMA StepInv == DialerInv /\ [DialerNext]_dvars => DialerInv'
<1>1. ASSUME DialerInv, DialerNext
      PROVE  DialerInv'
  BY Zenon, <1>1, NetworkInv, DialInv, ArriveInv, HandleInv, ScanInv, EvaluateInv
     DEF DialerNext
<1>2. ASSUME DialerInv, UNCHANGED dvars
      PROVE  DialerInv'
  BY <1>2, LoopTypes, QueueFrame DEF dvars, network, pool
<1> QED
  BY <1>1, <1>2

(* Whatever the number of state objects, addresses and pending events, the *)
(* loop of the dialer keeps DialerInv: well-formed dial states whose       *)
(* address index is in range, dialActive set exactly while a goroutine of  *)
(* the pool works for the object, and the two facts below.                 *)
THEOREM DialerInvariance == DialerSpec => []DialerInv
<1> QED
  BY InitInv, StepInv, PTL DEF DialerSpec

(* Type correctness of the dialer; in particular addrIndex is always a     *)
(* valid index of the addresses, which the code reads without a check.     *)
THEOREM DialerTypeCorrect == DialerSpec => []DialerTypeOK
<1>1. DialerInv => DialerTypeOK
  BY DEF DialerInv, Typed, DialerTypeOK, Good
<1> QED
  BY <1>1, DialerInvariance, PTL

(* A router in status Dialing has a dial in the pool or a result on its    *)
(* way to the loop: evaluateDialState sets the status only once the dial   *)
(* is queued, and every end of a dial sends its result.                    *)
THEOREM DialingIsBacked == DialerSpec => []DialingHasDial
<1>1. DialerInv => DialingHasDial
  BY DEF DialerInv
<1> QED
  BY <1>1, DialerInvariance, PTL

(* A tracked router is on the retry queue or has a result to come, but for *)
(* the race in which evaluateDialState pops a state whose dialActive the   *)
(* ending goroutine has not yet cleared.                                   *)
THEOREM NeverUntracked == DialerSpec => []TrackedIsScheduled
<1>1. DialerInv => TrackedIsScheduled
  BY DEF DialerInv
<1> QED
  BY <1>1, DialerInvariance, PTL
=============================================================================

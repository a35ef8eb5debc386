--------------------------- MODULE RouterConnect ---------------------------
(***************************************************************************)
(* How the controller admits, registers, displaces and tears down the      *)
(* control channels of routers (controller/network, RouterManager and the  *)
(* control channel handlers).                                              *)
(*                                                                         *)
(* A connection is one *model.Router instance: NewCtrlChanRouter builds a  *)
(* fresh one per control channel, and "which connection is current" is     *)
(* pointer identity against the connected map.  Three goroutines work for  *)
(* a connection:                                                           *)
(*   bind    the accept path: HandleConnection, Bind, ConnectRouter        *)
(*   close   its close handler, DisconnectRouter                           *)
(*   report  the receive loop handling a links message,                    *)
(*           NotifyExistingLink                                            *)
(* They meet at the connected map, at the Connected flag of the instance   *)
(* and at the connect stripe of the router id.  A step of this module is   *)
(* what a goroutine does between two accesses another goroutine could come *)
(* between.                                                                *)
(***************************************************************************)
CONSTANTS
  Router,       \* router ids
  Conn,         \* control channel connections, each a Router instance
  Stripe,       \* slots of RouterManager.connectLocks
  RouterOf,     \* the router id a connection was dialed for
  StripeOf,     \* the slot a router id hashes to; two ids may share one
  ChurnLimited, \* whether RouterConnectChurnLimit is above zero
  NoConn,       \* nil
  NoThread      \* the holder of an unlocked mutex

Thread == {"bind", "close", "report"} \X Conn

ASSUME ConnAssumption ==
  /\ RouterOf \in [Conn -> Router]
  /\ StripeOf \in [Router -> Stripe]
  /\ ChurnLimited \in BOOLEAN
  /\ NoConn \notin Conn
  /\ NoThread \notin Thread

VARIABLES
  connected,    \* RouterManager.connected: the current connection of a router
  flag,         \* Router.Connected of each instance
  closed,       \* Control.IsClosed() of each instance
  young,        \* time.Since(ConnectTime) < RouterConnectChurnLimit
  lock,         \* holder of each connect stripe
  target,       \* the occupant a refused connect is displacing
  pc            \* where each goroutine is

vars == <<connected, flag, closed, young, lock, target, pc>>

(* A goroutine that is not running is "none" before it ran, or has ended:  *)
(* a bind as "accepted" or "rejected", a close handler as "done".          *)
TeardownPC == {"precheck", "dlock", "recheck", "unmark", "unlink"}
BindPC == {"none", "admit", "lock", "occupied", "closed", "mark", "register",
           "notify", "displace", "accepted", "rejected"} \cup TeardownPC
ReportPC == {"none", "rlock", "rcheck", "publish"}
ClosePC == {"none", "done"} \cup TeardownPC

Bind(c) == <<"bind", c>>
CloseHandler(c) == <<"close", c>>
Report(c) == <<"report", c>>

StripeFor(c) == StripeOf[RouterOf[c]]

(* The connection a goroutine's DisconnectRouter call is about: its own    *)
(* for a close handler, the occupant for a bind that displaces one.        *)
Victim(t) == IF t[1] = "bind" THEN target[t[2]] ELSE t[2]

(* isCurrentConnection: pointer identity and the flag.                     *)
IsCurrent(c) == connected[RouterOf[c]] = c /\ flag[c]

Goto(t, where) == pc' = [pc EXCEPT ![t] = where]
Acquire(s, t) == lock[s] = NoThread /\ lock' = [lock EXCEPT ![s] = t]
Release(s) == lock' = [lock EXCEPT ![s] = NoThread]

----------------------------------------------------------------------------

Init ==
  /\ connected = [r \in Router |-> NoConn]
  /\ flag = [c \in Conn |-> FALSE]
  /\ closed = [c \in Conn |-> FALSE]
  /\ young = [c \in Conn |-> FALSE]
  /\ lock = [s \in Stripe |-> NoThread]
  /\ target = [c \in Conn |-> NoConn]
  /\ pc = [t \in Thread |-> "none"]

(* Every goroutine of the connection has ended and nothing refers to it.   *)
Gone(c) ==
  /\ pc[Bind(c)] \in {"accepted", "rejected"}
  /\ pc[CloseHandler(c)] \in {"none", "done"}
  /\ pc[CloseHandler(c)] = "none" => pc[Bind(c)] = "rejected"
  /\ pc[Report(c)] = "none"
  /\ connected[RouterOf[c]] # c
  /\ \A d \in Conn : target[d] # c

(* A router dials.  The identity of a connection that is gone may be used  *)
(* again: a fresh instance nobody holds a pointer to is indistinguishable  *)
(* from it.                                                                *)
Dial(c) ==
  /\ pc[Bind(c)] = "none" \/ Gone(c)
  /\ pc' = [pc EXCEPT ![Bind(c)] = "admit", ![CloseHandler(c)] = "none"]
  /\ flag' = [flag EXCEPT ![c] = FALSE]
  /\ closed' = [closed EXCEPT ![c] = FALSE]
  /\ young' = [young EXCEPT ![c] = FALSE]
  /\ UNCHANGED <<connected, lock, target>>

(* Connections within RouterConnectChurnLimit of their ConnectTime.        *)
Protected == {c \in Conn : young[c]}

(* HandleConnection: an established connection is protected from being     *)
(* displaced for RouterConnectChurnLimit.  The routers of the model are    *)
(* enrolled and enabled; any other hello is refused before this state.     *)
AdmitRefuse(c) ==
  /\ pc[Bind(c)] = "admit"
  /\ connected[RouterOf[c]] \in Protected
  /\ closed' = [closed EXCEPT ![c] = TRUE]
  /\ Goto(Bind(c), "rejected")
  /\ UNCHANGED <<connected, flag, young, lock, target>>

(* HandleConnection lets the hello pass; NewCtrlChanRouter builds the      *)
(* instance and stamps ConnectTime; the bind handler adds the close        *)
(* handler.  From here on the channel can close.                           *)
Admit(c) ==
  /\ pc[Bind(c)] = "admit"
  /\ connected[RouterOf[c]] \notin Protected
  /\ young' = [young EXCEPT ![c] = ChurnLimited]
  /\ Goto(Bind(c), "lock")
  /\ UNCHANGED <<connected, flag, closed, lock, target>>

(* RouterConnectChurnLimit elapses.                                        *)
Age(c) ==
  /\ young[c]
  /\ young' = [young EXCEPT ![c] = FALSE]
  /\ UNCHANGED <<connected, flag, closed, lock, target, pc>>

(* The channel closes: the peer went away, a heartbeat was missed.  The    *)
(* close handler starts; it runs once in the life of a channel.            *)
ChannelClose(c) ==
  /\ pc[Bind(c)] \notin {"none", "admit", "rejected"}
  /\ ~closed[c]
  /\ closed' = [closed EXCEPT ![c] = TRUE]
  /\ Goto(CloseHandler(c), "precheck")
  /\ UNCHANGED <<connected, flag, young, lock, target>>

----------------------------------------------------------------------------
(* ConnectRouter                                                           *)

ConnectLock(c) ==
  /\ pc[Bind(c)] = "lock"
  /\ Acquire(StripeFor(c), Bind(c))
  /\ Goto(Bind(c), "occupied")
  /\ UNCHANGED <<connected, flag, closed, young, target>>

(* Mutant: a slot whose occupant has closed is taken over on the spot.     *)
ConnectOccupiedTakeover(c) ==
  /\ pc[Bind(c)] = "occupied"
  /\ LET cur == connected[RouterOf[c]] IN
       /\ cur \notin {NoConn, c} /\ closed[cur]
       /\ flag' = [flag EXCEPT ![cur] = FALSE, ![c] = TRUE]
  /\ connected' = [connected EXCEPT ![RouterOf[c]] = c]
  /\ Goto(Bind(c), "notify")
  /\ UNCHANGED <<closed, young, lock, target>>

(* The slot is held by another connection: unlock, then displace it.       *)
ConnectOccupied(c) ==
  /\ pc[Bind(c)] = "occupied"
  /\ connected[RouterOf[c]] \notin {NoConn, c}
  /\ Release(StripeFor(c))
  /\ target' = [target EXCEPT ![c] = connected[RouterOf[c]]]
  /\ Goto(Bind(c), "displace")
  /\ UNCHANGED <<connected, flag, closed, young>>

ConnectFree(c) ==
  /\ pc[Bind(c)] = "occupied"
  /\ connected[RouterOf[c]] \in {NoConn, c}
  /\ Goto(Bind(c), "closed")
  /\ UNCHANGED <<connected, flag, closed, young, lock, target>>

(* ErrConnectChannelClosed.                                                *)
ConnectChannelClosed(c) ==
  /\ pc[Bind(c)] = "closed"
  /\ closed[c]
  /\ Release(StripeFor(c))
  /\ Goto(Bind(c), "rejected")
  /\ UNCHANGED <<connected, flag, closed, young, target>>

(* BuildRouterLinks; it does not touch the state of this module.           *)
ConnectBuildLinks(c) ==
  /\ pc[Bind(c)] = "closed"
  /\ ~closed[c]
  /\ Goto(Bind(c), "mark")
  /\ UNCHANGED <<connected, flag, closed, young, lock, target>>

(* MarkConnected: the flag first, then the map entry.                      *)
ConnectMark(c) ==
  /\ pc[Bind(c)] = "mark"
  /\ flag' = [flag EXCEPT ![c] = TRUE]
  /\ Goto(Bind(c), "register")
  /\ UNCHANGED <<connected, closed, young, lock, target>>

ConnectRegister(c) ==
  /\ pc[Bind(c)] = "register"
  /\ connected' = [connected EXCEPT ![RouterOf[c]] = c]
  /\ Goto(Bind(c), "notify")
  /\ UNCHANGED <<flag, closed, young, lock, target>>

(* The synchronous presence handlers run under the stripe.                 *)
ConnectNotify(c) ==
  /\ pc[Bind(c)] = "notify"
  /\ Release(StripeFor(c))
  /\ Goto(Bind(c), "accepted")
  /\ UNCHANGED <<connected, flag, closed, young, target>>

(* Mutant: the teardown is run without closing the occupant's channel.     *)
DisplaceOpen(c) ==
  /\ pc[Bind(c)] = "displace"
  /\ Goto(Bind(c), "precheck")
  /\ UNCHANGED <<connected, flag, closed, young, lock, target>>

(* Mutant: the occupant is only closed, and its close handler trusted.     *)
DisplaceByClose(c) ==
  /\ pc[Bind(c)] = "displace"
  /\ LET cur == target[c]
         bind == [pc EXCEPT ![Bind(c)] = "rejected"]
     IN /\ closed' = [closed EXCEPT ![cur] = TRUE, ![c] = TRUE]
        /\ pc' = IF closed[cur] THEN bind
                 ELSE [bind EXCEPT ![CloseHandler(cur)] = "precheck"]
  /\ target' = [target EXCEPT ![c] = NoConn]
  /\ UNCHANGED <<connected, flag, young, lock>>

(* displaceConnection: close the occupant's channel unless it is closed    *)
(* already, then run its teardown directly.                                *)
Displace(c) ==
  /\ pc[Bind(c)] = "displace"
  /\ LET cur == target[c] IN
       IF closed[cur]
       THEN /\ Goto(Bind(c), "precheck")
            /\ UNCHANGED closed
       ELSE /\ closed' = [closed EXCEPT ![cur] = TRUE]
            /\ pc' = [pc EXCEPT ![Bind(c)] = "precheck",
                                ![CloseHandler(cur)] = "precheck"]
  /\ UNCHANGED <<connected, flag, young, lock, target>>

----------------------------------------------------------------------------
(* DisconnectRouter, called by a close handler or by displaceConnection.   *)

(* Mutant: every caller returns as the displacing bind does.               *)
AfterDisconnectRejects(t) ==
  /\ Goto(t, "rejected")
  /\ closed' = [closed EXCEPT ![t[2]] = TRUE]
  /\ target' = [target EXCEPT ![t[2]] = NoConn]

(* What a goroutine does after its DisconnectRouter call returns: a close  *)
(* handler is done, a displacing bind returns ErrConnectRejected and the   *)
(* refused channel's underlay is closed.                                   *)
AfterDisconnect(t) ==
  IF t[1] = "bind"
  THEN /\ Goto(t, "rejected")
       /\ closed' = [closed EXCEPT ![t[2]] = TRUE]
       /\ target' = [target EXCEPT ![t[2]] = NoConn]
  ELSE /\ Goto(t, "done")
       /\ UNCHANGED <<closed, target>>

(* The lock-free check.                                                    *)
DisconnectPrecheck(t) ==
  /\ pc[t] = "precheck"
  /\ \/ /\ IsCurrent(Victim(t))
        /\ Goto(t, "dlock")
        /\ UNCHANGED <<closed, target>>
     \/ /\ ~IsCurrent(Victim(t))
        /\ AfterDisconnect(t)
  /\ UNCHANGED <<connected, flag, young, lock>>

DisconnectLock(t) ==
  /\ pc[t] = "dlock"
  /\ Acquire(StripeFor(Victim(t)), t)
  /\ Goto(t, "recheck")
  /\ UNCHANGED <<connected, flag, closed, young, target>>

DisconnectRecheck(t) ==
  /\ pc[t] = "recheck"
  /\ \/ /\ IsCurrent(Victim(t))
        /\ Goto(t, "unmark")
        /\ UNCHANGED <<closed, lock, target>>
     \/ /\ ~IsCurrent(Victim(t))
        /\ Release(StripeFor(Victim(t)))
        /\ AfterDisconnect(t)
  /\ UNCHANGED <<connected, flag, young>>

(* Mutant: the map entry is removed by id, the flag is left.               *)
DisconnectUnmarkMapOnly(t) ==
  /\ pc[t] = "unmark"
  /\ connected' = [connected EXCEPT ![RouterOf[Victim(t)]] = NoConn]
  /\ Goto(t, "unlink")
  /\ UNCHANGED <<flag, closed, young, lock, target>>

(* MarkDisconnected: all or nothing, under the map's shard lock.           *)
DisconnectUnmark(t) ==
  /\ pc[t] = "unmark"
  /\ LET c == Victim(t) IN
       IF connected[RouterOf[c]] = c
       THEN /\ connected' = [connected EXCEPT ![RouterOf[c]] = NoConn]
            /\ flag' = [flag EXCEPT ![c] = FALSE]
       ELSE UNCHANGED <<connected, flag>>
  /\ Goto(t, "unlink")
  /\ UNCHANGED <<closed, young, lock, target>>

(* The links are removed, the presence handlers run, the stripe is freed.  *)
DisconnectUnlink(t) ==
  /\ pc[t] = "unlink"
  /\ Release(StripeFor(Victim(t)))
  /\ AfterDisconnect(t)
  /\ UNCHANGED <<connected, flag, young>>

----------------------------------------------------------------------------
(* NotifyExistingLink, for a links message on the channel of c.            *)

(* routerLinkHandler.HandleReceive drops the message of an instance that   *)
(* is not connected or whose channel is closed.                            *)
ReportReceive(c) ==
  /\ pc[Bind(c)] = "accepted"
  /\ pc[Report(c)] = "none"
  /\ flag[c] /\ ~closed[c]
  /\ Goto(Report(c), "rlock")
  /\ UNCHANGED <<connected, flag, closed, young, lock, target>>

(* Mutant: the report is checked and published without the stripe.         *)
ReportLockFree(c) ==
  /\ pc[Report(c)] = "rlock"
  /\ Goto(Report(c), "rcheck")
  /\ UNCHANGED <<connected, flag, closed, young, lock, target>>

ReportLock(c) ==
  /\ pc[Report(c)] = "rlock"
  /\ Acquire(StripeFor(c), Report(c))
  /\ Goto(Report(c), "rcheck")
  /\ UNCHANGED <<connected, flag, closed, young, target>>

(* Not the current connection any more: the report is ignored.             *)
ReportIgnore(c) ==
  /\ pc[Report(c)] = "rcheck"
  /\ ~IsCurrent(c)
  /\ Release(StripeFor(c))
  /\ Goto(Report(c), "none")
  /\ UNCHANGED <<connected, flag, closed, young, target>>

ReportCurrent(c) ==
  /\ pc[Report(c)] = "rcheck"
  /\ IsCurrent(c)
  /\ Goto(Report(c), "publish")
  /\ UNCHANGED <<connected, flag, closed, young, lock, target>>

ReportPublish(c) ==
  /\ pc[Report(c)] = "publish"
  /\ Release(StripeFor(c))
  /\ Goto(Report(c), "none")
  /\ UNCHANGED <<connected, flag, closed, young, target>>

----------------------------------------------------------------------------

DisconnectStep(t) ==
  \/ DisconnectPrecheck(t)
  \/ DisconnectLock(t)
  \/ DisconnectRecheck(t)
  \/ DisconnectUnmark(t)
  \/ DisconnectUnlink(t)

ConnectStep(c) ==
  \/ ConnectLock(c)
  \/ ConnectOccupied(c)
  \/ ConnectFree(c)
  \/ ConnectChannelClosed(c)
  \/ ConnectBuildLinks(c)
  \/ ConnectMark(c)
  \/ ConnectRegister(c)
  \/ ConnectNotify(c)
  \/ Displace(c)

ReportStep(c) ==
  \/ ReportLock(c)
  \/ ReportIgnore(c)
  \/ ReportCurrent(c)
  \/ ReportPublish(c)

Next ==
  \/ \E c \in Conn :
       \/ Dial(c)
       \/ AdmitRefuse(c)
       \/ Admit(c)
       \/ Age(c)
       \/ ChannelClose(c)
       \/ ReportReceive(c)
       \/ ConnectStep(c)
       \/ ReportStep(c)
  \/ \E t \in {"bind", "close"} \X Conn : DisconnectStep(t)

(* The Go scheduler runs every goroutine that can run, and sync.Mutex      *)
(* hands the lock to a waiter that has been starved, so an acquisition     *)
(* that is enabled again and again happens.  Routers keep redialing and    *)
(* time passes.  Channels need not close and routers need not report.      *)
Fairness ==
  /\ \A c \in Conn :
       /\ WF_vars(Dial(c))
       /\ WF_vars(AdmitRefuse(c) \/ Admit(c))
       /\ WF_vars(Age(c))
       /\ SF_vars(ConnectLock(c))
       /\ WF_vars(ConnectStep(c))
       /\ SF_vars(ReportLock(c))
       /\ WF_vars(ReportStep(c))
  /\ \A t \in {"bind", "close"} \X Conn :
       /\ SF_vars(DisconnectLock(t))
       /\ WF_vars(DisconnectStep(t))

Spec == Init /\ [][Next]_vars
FairSpec == Spec /\ Fairness

----------------------------------------------------------------------------

TypeOK ==
  /\ connected \in [Router -> Conn \cup {NoConn}]
  /\ flag \in [Conn -> BOOLEAN]
  /\ closed \in [Conn -> BOOLEAN]
  /\ young \in [Conn -> BOOLEAN]
  /\ lock \in [Stripe -> Thread \cup {NoThread}]
  /\ target \in [Conn -> Conn \cup {NoConn}]
  /\ pc \in [Thread -> BindPC \cup ClosePC \cup ReportPC]
  /\ \A c \in Conn : /\ pc[Bind(c)] \in BindPC
                     /\ pc[CloseHandler(c)] \in ClosePC
                     /\ pc[Report(c)] \in ReportPC

(* The connected map and the flags of the instances never disagree: the    *)
(* map holds only a connected instance ("map must not hold a disconnected  *)
(* router", TestConnectDisconnectRace) and an instance that believes it is *)
(* connected is the one in the map or is about to be put there by          *)
(* MarkConnected, so a router has at most one current connection.          *)
RegistrationAgrees ==
  \A r \in Router, c \in Conn :
    connected[r] = c <=> RouterOf[c] = r /\ flag[c] /\ pc[Bind(c)] # "register"

(* The race of issue 4196: a connection that was accepted and whose        *)
(* channel is open is the registered one.  Neither the teardown of an      *)
(* older connection of the same router nor a bind that displaces one may   *)
(* deregister it.                                                          *)
AcceptedOpenIsRegistered ==
  \A c \in Conn :
    pc[Bind(c)] = "accepted" /\ ~closed[c] => connected[RouterOf[c]] = c

(* Registrations change hands only through an empty slot, and the only     *)
(* connection ever taken out of its slot is one whose channel has closed:  *)
(* DisconnectRouter is all-or-nothing for the connection it was called     *)
(* for, and MarkConnected never takes a slot over.                         *)
SlotStep(r) ==
  connected[r] # NoConn /\ connected'[r] # connected[r]
    => connected'[r] = NoConn /\ closed[connected[r]]
OnlyClosedLeaveSlot == [][\A r \in Router : SlotStep(r)]_vars

(* A links message is published only between a connection's registration   *)
(* and its teardown: while a goroutine is inside the publication its       *)
(* connection is the current one, whatever other goroutines do.            *)
PublishOnlyWhileCurrent ==
  \A c \in Conn : pc[Report(c)] = "publish" => IsCurrent(c)

(* No slot is wedged: a registered connection whose channel has closed     *)
(* leaves the slot, even when its close handler ran before it was          *)
(* registered and will never run again.  displaceConnection's direct call  *)
(* of DisconnectRouter is what frees that slot on the next redial.         *)
NoWedgedSlot ==
  \A c \in Conn :
    connected[RouterOf[c]] = c /\ closed[c] ~> connected[RouterOf[c]] # c
=============================================================================

------------------------ MODULE RouterConnectProofs ------------------------
(***************************************************************************)
(* The slot protocol of RouterConnect is correct for any number of         *)
(* routers, connections and stripes, and for any assignment of routers to  *)
(* stripes.                                                                *)
(***************************************************************************)
EXTENDS RouterConnect, TLAPS

(* The goroutine is between LockConnectFor and its unlock.                 *)
Critical == {"occupied", "closed", "mark", "register", "notify",
             "recheck", "unmark", "unlink", "rcheck", "publish"}

(* Mutual exclusion: whoever is between lock and unlock holds the stripe   *)
(* of its own router, also when it tears down the occupant it displaces.   *)
LockInv ==
  \A t \in Thread : pc[t] \in Critical => lock[StripeFor(t[2])] = t

(* The occupant a bind displaces belongs to the same router and its        *)
(* instance stays reserved until the bind lets go of it.                   *)
TargetInv ==
  \A c \in Conn :
    /\ pc[Bind(c)] \in {"displace"} \cup TeardownPC => target[c] # NoConn
    /\ target[c] # NoConn => /\ RouterOf[target[c]] = RouterOf[c]
                             /\ pc[Bind(target[c])] \in {"notify", "accepted"}

(* A teardown is only ever run for a connection whose channel has closed.  *)
VictimInv ==
  /\ \A c \in Conn : pc[Bind(c)] \in TeardownPC => closed[target[c]]
  /\ \A c \in Conn : pc[CloseHandler(c)] \in TeardownPC => closed[c]

(* What each step of ConnectRouter has established.                        *)
SlotInv ==
  \A c \in Conn :
    /\ flag[c] => pc[Bind(c)] \in {"register", "notify", "accepted"}
    /\ pc[Bind(c)] = "register" => flag[c]
    /\ pc[Bind(c)] \in {"closed", "mark", "register"} => connected[RouterOf[c]] = NoConn
    /\ pc[Bind(c)] \in {"notify", "accepted"} /\ ~closed[c]
         => connected[RouterOf[c]] = c
    /\ pc[Bind(c)] \in {"none", "admit"} => pc[CloseHandler(c)] = "none"

IInv ==
  /\ TypeOK
  /\ RegistrationAgrees
  /\ LockInv
  /\ TargetInv
  /\ VictimInv
  /\ SlotInv
  /\ PublishOnlyWhileCurrent

----------------------------------------------------------------------------

(* What the proof uses about the names of goroutines: their parts,         *)
LEMMA ThreadFacts ==
  \A c \in Conn : /\ Bind(c) \in Thread /\ Bind(c)[1] = "bind" /\ Bind(c)[2] = c
                  /\ CloseHandler(c) \in Thread
                  /\ CloseHandler(c)[1] = "close" /\ CloseHandler(c)[2] = c
                  /\ Report(c) \in Thread
                  /\ Report(c)[1] = "report" /\ Report(c)[2] = c
BY DEF Thread, Bind, CloseHandler, Report

(* that goroutines of different kinds, or of different connections,        *)
(* differ,                                                                 *)
LEMMA ThreadsDiffer ==
  \A c, d \in Conn : /\ c # d => Bind(c) # Bind(d)
                     /\ c # d => CloseHandler(c) # CloseHandler(d)
                     /\ c # d => Report(c) # Report(d)
                     /\ Bind(c) # CloseHandler(d) /\ Bind(c) # Report(d)
                     /\ CloseHandler(c) # Report(d)
BY DEF Bind, CloseHandler, Report

(* and that there are no others.                                           *)
LEMMA ThreadKinds ==
  /\ \A t \in Thread : /\ t[2] \in Conn
                       /\ t \in {Bind(t[2]), CloseHandler(t[2]), Report(t[2])}
  /\ \A t \in {"bind", "close"} \X Conn :
       /\ t \in Thread
       /\ t \in {Bind(t[2]), CloseHandler(t[2])}
BY DEF Thread, Bind, CloseHandler, Report

(* The initial state, with no connection and every stripe free.            *)
LEMMA InitIInv == Init => IInv
BY ConnAssumption, ThreadFacts, ThreadKinds DEF Init, IInv, TypeOK,
   RegistrationAgrees, LockInv, TargetInv, VictimInv, SlotInv,
   PublishOnlyWhileCurrent, BindPC, ClosePC, TeardownPC, ReportPC, Critical,
   StripeFor

(* What has to hold for a bind, a close handler or a report to move to w.  *)
BindMove(c, w) ==
  /\ pc[Bind(c)] # "register" /\ w \in BindPC \ {"none", "admit", "register"}
  /\ flag[c] => w \in {"notify", "accepted"}
  /\ pc[Bind(c)] \in {"notify", "accepted"} => w \in {"notify", "accepted"}
  /\ w \in {"displace"} \cup TeardownPC => target'[c] # NoConn
  /\ w \in TeardownPC => closed'[target'[c]]
  /\ w \in {"closed", "mark"} => connected[RouterOf[c]] = NoConn
  /\ w \in {"notify", "accepted"} /\ ~closed[c] => connected[RouterOf[c]] = c

CloseMove(c, w) ==
  /\ pc[Bind(c)] \notin {"none", "admit"} /\ w \in ClosePC
  /\ w \in TeardownPC => closed'[c]

ReportMove(c, w) == w \in ReportPC /\ (w = "publish" => IsCurrent(c))

(* Channels only close and a displaced occupant is only let go of.         *)
DataMove ==
  /\ UNCHANGED <<connected, flag>>
  /\ young' \in [Conn -> BOOLEAN] /\ closed' \in [Conn -> BOOLEAN]
  /\ target' \in [Conn -> Conn \cup {NoConn}]
  /\ \A c \in Conn : /\ closed[c] => closed'[c]
                     /\ target'[c] \in {target[c], NoConn}
                     /\ pc'[Bind(c)] = pc[Bind(c)] => target'[c] = target[c]

(* How such a move may change the lock.                                    *)
LockMove(t, w) ==
  \/ UNCHANGED lock /\ (w \in Critical => pc[t] \in Critical)
  \/ Acquire(StripeFor(t[2]), t)
  \/ pc[t] \in Critical /\ w \notin Critical /\ Release(StripeFor(t[2]))

(* A goroutine moves on, taking or giving back the stripe, and registers   *)
(* or deregisters nothing: most steps of the module.                       *)
LEMMA Move ==
  ASSUME IInv, NEW t \in Thread, NEW w,
         pc' = [pc EXCEPT ![t] = w],
         DataMove, LockMove(t, w),
         \A c \in Conn : /\ t = Bind(c) => BindMove(c, w)
                         /\ t = CloseHandler(c) => CloseMove(c, w)
                         /\ t = Report(c) => ReportMove(c, w)
  PROVE  IInv'
<1> USE DEF IInv, DataMove
<1>1. w \in BindPC \cup ClosePC \cup ReportPC
  BY ThreadKinds DEF BindMove, CloseMove, ReportMove
<1>2. /\ pc \in [Thread -> BindPC \cup ClosePC \cup ReportPC]
      /\ pc' \in [Thread -> BindPC \cup ClosePC \cup ReportPC]
  BY <1>1 DEF TypeOK
<1>3. /\ pc'[t] = w
      /\ \A u \in Thread \ {t} : pc'[u] = pc[u]
  BY <1>2
<1>4. TypeOK'
  <2>1. StripeFor(t[2]) \in Stripe
    BY ConnAssumption, ThreadKinds DEF StripeFor
  <2>2. lock' \in [Stripe -> Thread \cup {NoThread}]
    BY <2>1 DEF TypeOK, LockMove, Acquire, Release
  <2>3. \A d \in Conn : /\ pc'[Bind(d)] \in BindPC
                        /\ pc'[CloseHandler(d)] \in ClosePC
                        /\ pc'[Report(d)] \in ReportPC
    BY <1>3 DEF TypeOK, BindMove, CloseMove, ReportMove
  <2> QED
    BY <1>2, <2>2, <2>3 DEF TypeOK
<1>5. \A d \in Conn : pc'[Bind(d)] = "register" <=> pc[Bind(d)] = "register"
  BY <1>3 DEF BindMove
<1>6. RegistrationAgrees'
  BY <1>5 DEF RegistrationAgrees
<1>7. LockInv'
  <2> SUFFICES ASSUME NEW u \in Thread, pc'[u] \in Critical
               PROVE  lock'[StripeFor(u[2])] = u
    BY DEF LockInv, StripeFor
  <2>1. /\ lock \in [Stripe -> Thread \cup {NoThread}]
        /\ StripeFor(u[2]) \in Stripe /\ StripeFor(t[2]) \in Stripe
    BY ConnAssumption, ThreadKinds DEF TypeOK, StripeFor
  <2>2. pc[u] \in Critical => lock[StripeFor(u[2])] = u
    BY DEF LockInv
  <2>3. pc[t] \in Critical => lock[StripeFor(t[2])] = t
    BY DEF LockInv
  <2>4. CASE u = t
    BY <1>3, <2>1, <2>2, <2>4 DEF LockMove, Acquire
  <2>5. CASE u # t
    BY <1>3, <2>1, <2>2, <2>3, <2>5, ConnAssumption DEF LockMove, Acquire,
       Release
  <2> QED
    BY <2>4, <2>5
<1>8. TargetInv'
  <2> SUFFICES ASSUME NEW d \in Conn PROVE
            /\ pc'[Bind(d)] \in {"displace"} \cup TeardownPC => target'[d] # NoConn
            /\ target'[d] # NoConn =>
                 /\ RouterOf[target'[d]] = RouterOf[d]
                 /\ pc'[Bind(target'[d])] \in {"notify", "accepted"}
    BY DEF TargetInv
  <2>1. ASSUME t = Bind(d), pc'[Bind(d)] \in {"displace"} \cup TeardownPC
        PROVE  target'[d] # NoConn
    BY <1>3, <2>1 DEF BindMove
  <2>2. ASSUME t # Bind(d), pc'[Bind(d)] \in {"displace"} \cup TeardownPC
        PROVE  target'[d] # NoConn
    <3>1. pc'[Bind(d)] = pc[Bind(d)] /\ target'[d] = target[d]
      BY <1>3, <2>2
    <3> QED
      BY <2>2, <3>1 DEF TargetInv
  <2>3. pc'[Bind(d)] \in {"displace"} \cup TeardownPC => target'[d] # NoConn
    BY <2>1, <2>2
  <2>4. ASSUME NEW e \in Conn, pc[Bind(e)] \in {"notify", "accepted"}
        PROVE  pc'[Bind(e)] \in {"notify", "accepted"}
    BY <1>3, <2>4 DEF BindMove
  <2> QED
    BY <2>3, <2>4 DEF TargetInv, TypeOK
<1>9. VictimInv'
  <2>1. ASSUME NEW d \in Conn, pc'[Bind(d)] \in TeardownPC
        PROVE  closed'[target'[d]]
    <3>1. CASE t = Bind(d)
      BY <1>3, <2>1, <3>1 DEF BindMove
    <3>2. CASE t # Bind(d)
      <4>1. pc'[Bind(d)] = pc[Bind(d)] /\ target'[d] = target[d]
        BY <1>3, <3>2
      <4>2. target[d] # NoConn /\ closed[target[d]] /\ target[d] \in Conn
        BY <2>1, <4>1 DEF VictimInv, TargetInv, TypeOK
      <4> QED
        BY <4>1, <4>2
    <3> QED
      BY <3>1, <3>2
  <2>2. ASSUME NEW d \in Conn, pc'[CloseHandler(d)] \in TeardownPC
        PROVE  closed'[d]
    BY <1>3, <2>2 DEF VictimInv, CloseMove
  <2> QED
    BY <2>1, <2>2 DEF VictimInv
<1>10. SlotInv'
  <2> SUFFICES ASSUME NEW d \in Conn PROVE
        /\ flag[d] => pc'[Bind(d)] \in {"register", "notify", "accepted"}
        /\ pc'[Bind(d)] = "register" => flag[d]
        /\ pc'[Bind(d)] \in {"closed", "mark", "register"}
             => connected[RouterOf[d]] = NoConn
        /\ pc'[Bind(d)] \in {"notify", "accepted"} /\ ~closed'[d]
             => connected[RouterOf[d]] = d
        /\ pc'[Bind(d)] \in {"none", "admit"} => pc'[CloseHandler(d)] = "none"
    BY DEF SlotInv
  <2>1. CASE t = Bind(d)
    BY <1>3, <2>1 DEF BindMove
  <2>2. CASE t # Bind(d)
    <3>1. pc'[Bind(d)] = pc[Bind(d)]
      BY <1>3, <2>2
    <3>2. pc[Bind(d)] \in {"none", "admit"} => pc'[CloseHandler(d)] = "none"
      BY <1>3 DEF CloseMove, SlotInv
    <3> QED
      BY <3>1, <3>2 DEF SlotInv
  <2> QED
    BY <2>1, <2>2
<1>11. PublishOnlyWhileCurrent'
  BY <1>3 DEF PublishOnlyWhileCurrent, IsCurrent, ReportMove
<1> QED
  BY <1>4, <1>6, <1>7, <1>8, <1>9, <1>10, <1>11

(* The same for each kind of goroutine: a bind,                            *)
LEMMA MoveBind ==
  ASSUME IInv, NEW c \in Conn, NEW w,
         pc' = [pc EXCEPT ![Bind(c)] = w],
         DataMove, LockMove(Bind(c), w), BindMove(c, w)
  PROVE  IInv'
<1>1. Bind(c) \in Thread
  BY ThreadFacts
<1>2. \A d \in Conn : /\ Bind(c) = Bind(d) => BindMove(d, w)
                      /\ Bind(c) = CloseHandler(d) => CloseMove(d, w)
                      /\ Bind(c) = Report(d) => ReportMove(d, w)
  BY ThreadFacts, ThreadsDiffer
<1> QED
  BY Zenon, <1>1, <1>2, Move

(* a close handler,                                                        *)
LEMMA MoveClose ==
  ASSUME IInv, NEW c \in Conn, NEW w,
         pc' = [pc EXCEPT ![CloseHandler(c)] = w],
         DataMove, LockMove(CloseHandler(c), w), CloseMove(c, w)
  PROVE  IInv'
<1>1. CloseHandler(c) \in Thread
  BY ThreadFacts
<1>2. \A d \in Conn : /\ CloseHandler(c) = Bind(d) => BindMove(d, w)
                      /\ CloseHandler(c) = CloseHandler(d) => CloseMove(d, w)
                      /\ CloseHandler(c) = Report(d) => ReportMove(d, w)
  BY ThreadFacts, ThreadsDiffer
<1> QED
  BY Zenon, <1>1, <1>2, Move

(* a report.                                                               *)
LEMMA MoveReport ==
  ASSUME IInv, NEW c \in Conn, NEW w,
         pc' = [pc EXCEPT ![Report(c)] = w],
         DataMove, LockMove(Report(c), w), ReportMove(c, w)
  PROVE  IInv'
<1>1. Report(c) \in Thread
  BY ThreadFacts
<1>2. \A d \in Conn : /\ Report(c) = Bind(d) => BindMove(d, w)
                      /\ Report(c) = CloseHandler(d) => CloseMove(d, w)
                      /\ Report(c) = Report(d) => ReportMove(d, w)
  BY ThreadFacts, ThreadsDiffer
<1> QED
  BY Zenon, <1>1, <1>2, Move

(* A bind whose teardown of the occupant returns is rejected.  It holds    *)
(* the stripe unless it leaves at the lock-free check.                     *)
LEMMA EndBind ==
  ASSUME IInv, NEW c \in Conn,
         pc[Bind(c)] \in TeardownPC,
         pc' = [pc EXCEPT ![Bind(c)] = "rejected"],
         closed' = [closed EXCEPT ![c] = TRUE],
         target' = [target EXCEPT ![c] = NoConn],
         UNCHANGED <<connected, flag, young>>,
         \/ pc[Bind(c)] = "precheck" /\ UNCHANGED lock
         \/ pc[Bind(c)] \in Critical /\ Release(StripeFor(c))
  PROVE  IInv'
<1>1. /\ pc'[Bind(c)] = "rejected" /\ Bind(c)[2] = c
      /\ \A d \in Conn \ {c} : pc'[Bind(d)] = pc[Bind(d)]
  BY ThreadFacts DEF IInv, TypeOK
<1>2. DataMove
  BY <1>1 DEF IInv, TypeOK, DataMove, TeardownPC
<1>3. LockMove(Bind(c), "rejected")
  BY <1>1 DEF LockMove, Critical
<1>4. BindMove(c, "rejected")
  BY DEF IInv, SlotInv, BindMove, BindPC, TeardownPC
<1> QED
  BY Zenon, <1>2, <1>3, <1>4, MoveBind

(* A close handler whose teardown returns is done.                         *)
LEMMA EndClose ==
  ASSUME IInv, NEW c \in Conn,
         pc[CloseHandler(c)] \in TeardownPC,
         pc' = [pc EXCEPT ![CloseHandler(c)] = "done"],
         UNCHANGED <<closed, target, connected, flag, young>>,
         \/ pc[CloseHandler(c)] = "precheck" /\ UNCHANGED lock
         \/ pc[CloseHandler(c)] \in Critical /\ Release(StripeFor(c))
  PROVE  IInv'
<1>1. LockMove(CloseHandler(c), "done")
  BY ThreadFacts DEF LockMove, Critical
<1>2. CloseMove(c, "done")
  BY DEF IInv, SlotInv, CloseMove, ClosePC, TeardownPC
<1>3. DataMove
  BY DEF IInv, TypeOK, DataMove
<1> QED
  BY Zenon, <1>1, <1>2, <1>3, MoveClose

(* The two together: a DisconnectRouter call returns.                      *)
LEMMA EndTeardown ==
  ASSUME IInv, NEW t \in {"bind", "close"} \X Conn,
         pc[t] \in TeardownPC, AfterDisconnect(t),
         UNCHANGED <<connected, flag, young>>,
         \/ pc[t] = "precheck" /\ UNCHANGED lock
         \/ pc[t] \in Critical /\ Release(StripeFor(Victim(t)))
  PROVE  IInv'
<1>1. ASSUME NEW c \in Conn, t = Bind(c) PROVE IInv'
  <2>1. t[1] = "bind" /\ t[2] = c
    BY <1>1, ThreadFacts
  <2>2. /\ pc' = [pc EXCEPT ![Bind(c)] = "rejected"]
        /\ closed' = [closed EXCEPT ![c] = TRUE]
        /\ target' = [target EXCEPT ![c] = NoConn]
    BY <1>1, <2>1 DEF AfterDisconnect, Goto
  <2>3. StripeFor(Victim(t)) = StripeFor(c)
    BY <1>1, <2>1 DEF IInv, TargetInv, Victim, StripeFor
  <2> QED
    BY Zenon, <1>1, <2>2, <2>3, EndBind
<1>2. ASSUME NEW c \in Conn, t = CloseHandler(c) PROVE IInv'
  <2>1. t[1] = "close" /\ t[2] = c
    BY <1>2, ThreadFacts
  <2>2. /\ pc' = [pc EXCEPT ![CloseHandler(c)] = "done"]
        /\ UNCHANGED <<closed, target>>
        /\ Victim(t) = c
    BY <1>2, <2>1 DEF AfterDisconnect, Goto, Victim
  <2> QED
    BY Zenon, <1>2, <2>2, EndClose
<1> QED
  BY <1>1, <1>2, ThreadKinds

(* A DisconnectRouter call goes on: it passes a check, or takes the lock.  *)
LEMMA Advance ==
  ASSUME IInv, NEW t \in {"bind", "close"} \X Conn, NEW w \in TeardownPC,
         pc[t] \in TeardownPC,
         pc' = [pc EXCEPT ![t] = w],
         UNCHANGED <<connected, flag, closed, young, target>>,
         \/ UNCHANGED lock /\ (w \in Critical => pc[t] \in Critical)
         \/ Acquire(StripeFor(t[2]), t)
  PROVE  IInv'
<1>1. LockMove(t, w)
  BY DEF LockMove
<1>2. DataMove
  BY DEF IInv, TypeOK, DataMove
<1>3. ASSUME NEW c \in Conn, t = Bind(c) PROVE IInv'
  <2>1. BindMove(c, w)
    BY <1>3 DEF IInv, BindMove, TargetInv, VictimInv, SlotInv, TeardownPC,
       BindPC
  <2> QED
    BY Zenon, <1>1, <1>2, <1>3, <2>1, MoveBind
<1>4. ASSUME NEW c \in Conn, t = CloseHandler(c) PROVE IInv'
  <2>1. CloseMove(c, w)
    BY <1>4 DEF IInv, CloseMove, VictimInv, SlotInv, TeardownPC, ClosePC
  <2> QED
    BY Zenon, <1>1, <1>2, <1>4, <2>1, MoveClose
<1> QED
  BY <1>3, <1>4, ThreadKinds

(* MarkDisconnected takes the closed connection v out of its slot.  No     *)
(* goroutine that relies on the slot is inside its critical section: the   *)
(* caller holds the stripe.                                                *)
LEMMA Unmark ==
  ASSUME IInv, NEW t \in Thread, NEW v \in Conn,
         pc[t] = "unmark", lock[StripeFor(v)] = t, closed[v],
         pc' = [pc EXCEPT ![t] = "unlink"],
         connected[RouterOf[v]] = v,
         connected' = [connected EXCEPT ![RouterOf[v]] = NoConn],
         flag' = [flag EXCEPT ![v] = FALSE],
         UNCHANGED <<closed, young, lock, target>>
  PROVE  IInv'
<1> USE DEF IInv
<1>1. TypeOK'
  <2>1. pc' \in [Thread -> BindPC \cup ClosePC \cup ReportPC]
    BY DEF TypeOK, BindPC, ClosePC, ReportPC, TeardownPC
  <2>2. \A d \in Conn : /\ pc'[Bind(d)] \in BindPC
                        /\ pc'[CloseHandler(d)] \in ClosePC
                        /\ pc'[Report(d)] \in ReportPC
    BY DEF TypeOK, BindPC, ClosePC, ReportPC, TeardownPC
  <2> QED
    BY Zenon, <2>1, <2>2 DEF TypeOK
<1>2. RegistrationAgrees'
  <2> SUFFICES ASSUME NEW r \in Router, NEW d \in Conn
               PROVE  connected'[r] = d <=>
                        RouterOf[d] = r /\ flag'[d] /\ pc'[Bind(d)] # "register"
    BY DEF RegistrationAgrees
  <2>1. connected \in [Router -> Conn \cup {NoConn}] /\ flag \in [Conn -> BOOLEAN]
    BY DEF TypeOK
  <2>2. pc'[Bind(d)] = "register" <=> pc[Bind(d)] = "register"
    BY DEF TypeOK
  <2>3. CASE r = RouterOf[v]
    <3>1. connected'[r] = NoConn
      BY <2>1, <2>3
    <3>2. RouterOf[d] = r /\ d # v => ~(flag[d] /\ pc[Bind(d)] # "register")
      BY <2>1, <2>3 DEF RegistrationAgrees
    <3>3. RouterOf[d] = r => ~(flag'[d] /\ pc'[Bind(d)] # "register")
      BY <2>1, <2>2, <3>2
    <3> QED
      BY <3>1, <3>3, ConnAssumption
  <2>4. CASE r # RouterOf[v]
    BY <2>1, <2>2, <2>4 DEF RegistrationAgrees
  <2> QED
    BY <2>3, <2>4
<1>3. LockInv'
  BY DEF TypeOK, LockInv, TargetInv, BindPC, ClosePC, ReportPC, TeardownPC,
     StripeFor, Critical
<1>4. TargetInv'
  BY DEF TypeOK, RegistrationAgrees, TargetInv, SlotInv, BindPC, ClosePC,
     ReportPC, TeardownPC
<1>5. VictimInv'
  BY DEF TypeOK, RegistrationAgrees, TargetInv, VictimInv, SlotInv, BindPC,
     ClosePC, ReportPC, TeardownPC
<1>6. SlotInv'
  BY ThreadFacts DEF TypeOK, RegistrationAgrees, LockInv, TargetInv,
     VictimInv, SlotInv, BindPC, ClosePC, ReportPC, TeardownPC, StripeFor,
     Critical
<1>7. PublishOnlyWhileCurrent'
  BY ThreadFacts DEF TypeOK, RegistrationAgrees, LockInv, TargetInv,
     PublishOnlyWhileCurrent, SlotInv, BindPC, ClosePC, ReportPC, TeardownPC,
     StripeFor, Critical, IsCurrent
<1> HIDE DEF IInv, Goto, Acquire, Release
<1> QED
  BY <1>1, <1>2, <1>3, <1>4, <1>5, <1>6, <1>7 DEF IInv

(* displaceConnection has closed the occupant or found it closed.          *)
LEMMA DisplaceIInv ==
  ASSUME IInv, NEW c \in Conn, Displace(c) PROVE IInv'
<1> USE DEF IInv
<1> DEFINE cur == target[c]
<1>1. pc[Bind(c)] = "displace" /\ cur \in Conn /\ cur # c
       /\ RouterOf[cur] = RouterOf[c] /\ pc[Bind(cur)] \in {"notify", "accepted"}
  BY DEF Displace, TargetInv, TypeOK
<1>2. CASE /\ closed[cur]
           /\ pc' = [pc EXCEPT ![Bind(c)] = "precheck"]
           /\ UNCHANGED <<closed, connected, flag, young, lock, target>>
  <2>1. BindMove(c, "precheck")
    BY <1>1, <1>2, ConnAssumption DEF BindMove, BindPC, TeardownPC, SlotInv
  <2>2. LockMove(Bind(c), "precheck")
    BY <1>2 DEF LockMove, Critical
  <2>3. DataMove
    BY <1>2 DEF TypeOK, DataMove
  <2> HIDE DEF IInv
  <2> QED
    BY Zenon, <1>2, <2>1, <2>2, <2>3, MoveBind
<1>3. CASE /\ ~closed[cur]
           /\ closed' = [closed EXCEPT ![cur] = TRUE]
           /\ pc' = [pc EXCEPT ![Bind(c)] = "precheck",
                               ![CloseHandler(cur)] = "precheck"]
           /\ UNCHANGED <<connected, flag, young, lock, target>>
  <2>0. /\ pc' \in [Thread -> BindPC \cup ClosePC \cup ReportPC]
        /\ \A d \in Conn :
             /\ pc'[Bind(d)] = IF d = c THEN "precheck" ELSE pc[Bind(d)]
             /\ pc'[CloseHandler(d)] = IF d = cur THEN "precheck"
                                                  ELSE pc[CloseHandler(d)]
             /\ pc'[Report(d)] = pc[Report(d)]
    <3>1. pc \in [Thread -> BindPC \cup ClosePC \cup ReportPC]
      BY DEF TypeOK
    <3>2. "precheck" \in BindPC
      BY DEF BindPC, TeardownPC
    <3>3. pc' \in [Thread -> BindPC \cup ClosePC \cup ReportPC]
      BY Zenon, <1>3, <3>1, <3>2
    <3>4. \A t \in Thread \ {Bind(c), CloseHandler(cur)} : pc'[t] = pc[t]
      BY <1>3, <3>1
    <3>5. /\ pc'[Bind(c)] = "precheck"
          /\ pc'[CloseHandler(cur)] = "precheck"
      BY <1>1, <1>3, <3>1, ThreadFacts
    <3> QED
      BY <1>1, <3>3, <3>4, <3>5, ThreadFacts
  <2>1. TypeOK'
    BY <1>1, <1>3, <2>0, ThreadFacts, ThreadsDiffer DEF TypeOK, BindPC,
       ClosePC, TeardownPC
  <2>2. RegistrationAgrees'
    BY <1>1, <1>3, ThreadFacts DEF TypeOK, RegistrationAgrees, SlotInv,
       TargetInv, BindPC, ClosePC, ReportPC, TeardownPC
  <2>3. LockInv'
    BY <1>1, <1>3 DEF TypeOK, LockInv, TargetInv, BindPC, ClosePC, ReportPC,
       TeardownPC, StripeFor, Critical
  <2>4. TargetInv'
    <3> SUFFICES ASSUME NEW d \in Conn PROVE
              /\ pc'[Bind(d)] \in {"displace"} \cup TeardownPC => target'[d] # NoConn
              /\ target'[d] # NoConn =>
                   /\ RouterOf[target'[d]] = RouterOf[d]
                   /\ pc'[Bind(target'[d])] \in {"notify", "accepted"}
      BY DEF TargetInv
    <3>1. /\ target \in [Conn -> Conn \cup {NoConn}] /\ target' = target
          /\ pc[Bind(d)] \in {"displace"} \cup TeardownPC => target[d] # NoConn
          /\ target[d] # NoConn =>
               /\ RouterOf[target[d]] = RouterOf[d]
               /\ pc[Bind(target[d])] \in {"notify", "accepted"}
      BY <1>3 DEF TypeOK, TargetInv
    <3> QED
      BY <1>1, <2>0, <3>1
  <2>5. VictimInv'
    BY SMTT(20), <1>1, <1>3, <2>0, ThreadFacts DEF TypeOK, RegistrationAgrees,
       TargetInv, VictimInv, SlotInv, BindPC, ClosePC, ReportPC, TeardownPC
  <2>6. SlotInv'
    BY <1>1, <1>3, ThreadFacts DEF TypeOK, RegistrationAgrees, LockInv,
       TargetInv, VictimInv, SlotInv, BindPC, ClosePC, ReportPC, TeardownPC,
       StripeFor, Critical
  <2>7. PublishOnlyWhileCurrent'
    BY <1>1, <1>3, SMTT(30), ThreadFacts DEF TypeOK, RegistrationAgrees,
       LockInv, TargetInv, PublishOnlyWhileCurrent, SlotInv, BindPC, ClosePC,
       ReportPC, TeardownPC, StripeFor, Critical, IsCurrent
  <2> QED
    BY <2>1, <2>2, <2>3, <2>4, <2>5, <2>6, <2>7 DEF IInv
<1> QED
  BY <1>2, <1>3 DEF Displace, Goto

(* The invariant does not depend on the age of a connection.               *)
LEMMA Still ==
  ASSUME IInv, UNCHANGED <<connected, flag, closed, lock, target, pc>>,
         young' \in [Conn -> BOOLEAN]
  PROVE  IInv'
<1> USE DEF IInv
<1>1. TypeOK'
  BY DEF TypeOK
<1>2. RegistrationAgrees' /\ LockInv' /\ TargetInv'
  BY DEF RegistrationAgrees, LockInv, TargetInv, StripeFor
<1>3. VictimInv' /\ SlotInv' /\ PublishOnlyWhileCurrent'
  BY DEF VictimInv, SlotInv, PublishOnlyWhileCurrent, IsCurrent
<1> QED
  BY <1>1, <1>2, <1>3

(* Every step preserves the invariant.                                     *)
LEMMA StepIInv == IInv /\ [Next]_vars => IInv'
<1> SUFFICES ASSUME IInv, [Next]_vars PROVE IInv'
  OBVIOUS
<1> USE DEF IInv, Goto, Acquire, Release
<1>1. ASSUME NEW c \in Conn, Dial(c) PROVE IInv'
  <2>1. /\ connected[RouterOf[c]] # c /\ ~flag[c]
        /\ pc[CloseHandler(c)] \in {"none", "done"}
        /\ pc[Bind(c)] \in {"none", "accepted", "rejected"}
        /\ \A d \in Conn : target[d] # c
    <3>1. CASE pc[Bind(c)] = "none"
      <4>1. ~flag[c] /\ pc[CloseHandler(c)] = "none"
        BY <3>1 DEF SlotInv
      <4>2. \A d \in Conn : target[d] # c
        BY <3>1, ConnAssumption DEF TargetInv
      <4> QED
        BY <3>1, <4>1, <4>2, ConnAssumption DEF RegistrationAgrees
    <3>2. CASE Gone(c)
      <4>1. pc[Bind(c)] # "register" /\ connected[RouterOf[c]] # c
        BY <3>2 DEF Gone
      <4>2. ~flag[c]
        BY <4>1, ConnAssumption DEF RegistrationAgrees
      <4> QED
        BY <3>2, <4>1, <4>2 DEF Gone
    <3> QED
      BY <1>1, <3>1, <3>2 DEF Dial
  <2>2. /\ pc' \in [Thread -> BindPC \cup ClosePC \cup ReportPC]
        /\ pc'[Bind(c)] = "admit" /\ pc'[CloseHandler(c)] = "none"
        /\ \A t \in Thread \ {Bind(c), CloseHandler(c)} : pc'[t] = pc[t]
    <3>1. pc \in [Thread -> BindPC \cup ClosePC \cup ReportPC]
      BY DEF TypeOK
    <3>2. "admit" \in BindPC /\ "none" \in BindPC
      BY DEF BindPC
    <3> QED
      BY <1>1, <3>1, <3>2, ThreadFacts DEF Dial
  <2>3. /\ flag' = [flag EXCEPT ![c] = FALSE]
        /\ closed' = [closed EXCEPT ![c] = FALSE]
        /\ young' = [young EXCEPT ![c] = FALSE]
        /\ UNCHANGED <<connected, lock, target>>
    BY <1>1 DEF Dial
  <2>4. TypeOK'
    BY <2>2, <2>3, ThreadFacts DEF TypeOK, BindPC, ClosePC
  <2>5. RegistrationAgrees'
    <3>1. flag \in [Conn -> BOOLEAN]
      BY DEF TypeOK
    <3>2. \A d \in Conn \ {c} : flag'[d] = flag[d] /\ pc'[Bind(d)] = pc[Bind(d)]
      BY <2>2, <2>3, <3>1, ThreadFacts
    <3>3. ~flag'[c]
      BY <2>3, <3>1
    <3> QED
      BY <2>1, <2>3, <3>2, <3>3 DEF RegistrationAgrees
  <2>6. LockInv'
    BY <2>2, <2>3 DEF LockInv, Critical, StripeFor
  <2>7. TargetInv'
    <3> SUFFICES ASSUME NEW d \in Conn PROVE
              /\ pc'[Bind(d)] \in {"displace"} \cup TeardownPC => target'[d] # NoConn
              /\ target'[d] # NoConn =>
                   /\ RouterOf[target'[d]] = RouterOf[d]
                   /\ pc'[Bind(target'[d])] \in {"notify", "accepted"}
      BY DEF TargetInv
    <3>1. /\ target \in [Conn -> Conn \cup {NoConn}]
          /\ pc[Bind(d)] \in {"displace"} \cup TeardownPC => target[d] # NoConn
          /\ target[d] # NoConn =>
               /\ RouterOf[target[d]] = RouterOf[d]
               /\ pc[Bind(target[d])] \in {"notify", "accepted"}
      BY DEF TypeOK, TargetInv
    <3> QED
      BY <2>1, <2>2, <2>3, <3>1, ThreadFacts DEF TeardownPC
  <2>8. VictimInv'
    BY <2>1, <2>2, <2>3, SMTT(30), ThreadFacts DEF TypeOK, TargetInv,
       VictimInv, TeardownPC
  <2>9. SlotInv'
    BY SMTT(20), <2>1, <2>2, <2>3, ThreadFacts DEF TypeOK, SlotInv
  <2>10. PublishOnlyWhileCurrent'
    <3> SUFFICES ASSUME NEW d \in Conn, pc'[Report(d)] = "publish"
                 PROVE  connected'[RouterOf[d]] = d /\ flag'[d]
      BY DEF PublishOnlyWhileCurrent, IsCurrent
    <3>1. Report(d) \in Thread \ {Bind(c), CloseHandler(c)}
      BY ThreadFacts
    <3>2. connected[RouterOf[d]] = d /\ flag[d]
      BY <2>2, <3>1 DEF PublishOnlyWhileCurrent, IsCurrent
    <3> QED
      BY <2>1, <2>3, <3>2 DEF TypeOK
  <2> QED
    BY <2>4, <2>5, <2>6, <2>7, <2>8, <2>9, <2>10
<1>2. ASSUME NEW c \in Conn, AdmitRefuse(c) PROVE IInv'
  <2>1. BindMove(c, "rejected")
    BY <1>2 DEF AdmitRefuse, BindMove, BindPC, TeardownPC, SlotInv
  <2>2. LockMove(Bind(c), "rejected")
    BY <1>2 DEF AdmitRefuse, LockMove, Critical
  <2>3. DataMove
    BY <1>2 DEF AdmitRefuse, TypeOK, DataMove
  <2> HIDE DEF IInv
  <2> QED
    BY Zenon, <1>2, <2>1, <2>2, <2>3, MoveBind DEF AdmitRefuse
<1>3. ASSUME NEW c \in Conn, Admit(c) PROVE IInv'
  <2>1. BindMove(c, "lock")
    BY <1>3 DEF Admit, BindMove, BindPC, TeardownPC, SlotInv
  <2>2. LockMove(Bind(c), "lock")
    BY <1>3 DEF Admit, LockMove, Critical
  <2>3. DataMove
    BY <1>3, ConnAssumption DEF Admit, TypeOK, DataMove
  <2> HIDE DEF IInv
  <2> QED
    BY Zenon, <1>3, <2>1, <2>2, <2>3, MoveBind DEF Admit
<1>4. ASSUME NEW c \in Conn, Age(c) PROVE IInv'
  <2>1. young' \in [Conn -> BOOLEAN]
    BY <1>4 DEF Age, TypeOK
  <2> QED
    BY <1>4, <2>1, Still DEF Age
<1>5. ASSUME NEW c \in Conn, ChannelClose(c) PROVE IInv'
  <2>1. closed' = [closed EXCEPT ![c] = TRUE]
    BY <1>5 DEF ChannelClose
  <2>2. CloseMove(c, "precheck")
    BY <1>5, <2>1 DEF ChannelClose, CloseMove, ClosePC, TeardownPC, TypeOK
  <2>3. LockMove(CloseHandler(c), "precheck")
    BY <1>5 DEF ChannelClose, LockMove, Critical
  <2>4. DataMove
    BY <1>5, <2>1 DEF ChannelClose, TypeOK, DataMove
  <2> HIDE DEF IInv
  <2> QED
    BY Zenon, <1>5, <2>2, <2>3, <2>4, MoveClose DEF ChannelClose
<1>6. ASSUME NEW c \in Conn, ReportReceive(c) PROVE IInv'
  <2>1. ReportMove(c, "rlock")
    BY <1>6 DEF ReportReceive, ReportMove, ReportPC
  <2>2. LockMove(Report(c), "rlock")
    BY <1>6 DEF ReportReceive, LockMove, Critical
  <2>3. DataMove
    BY <1>6 DEF ReportReceive, TypeOK, DataMove
  <2> HIDE DEF IInv
  <2> QED
    BY Zenon, <1>6, <2>1, <2>2, <2>3, MoveReport DEF ReportReceive
<1>7. ASSUME NEW c \in Conn, ConnectLock(c) PROVE IInv'
  <2>1. BindMove(c, "occupied")
    BY <1>7 DEF ConnectLock, BindMove, BindPC, TeardownPC, SlotInv
  <2>2. LockMove(Bind(c), "occupied")
    <3>1. Bind(c)[2] = c
      BY ThreadFacts
    <3> QED
      BY <1>7, <3>1 DEF ConnectLock, LockMove
  <2>3. DataMove
    BY SMTT(20), <1>7 DEF ConnectLock, TypeOK, DataMove
  <2> HIDE DEF IInv
  <2> QED
    BY Zenon, <1>7, <2>1, <2>2, <2>3, MoveBind DEF ConnectLock
<1>8. ASSUME NEW c \in Conn, ConnectOccupied(c) PROVE IInv'
  <2> DEFINE cur == connected[RouterOf[c]]
  <2>1. /\ pc[Bind(c)] = "occupied" /\ lock[StripeFor(c)] = Bind(c)
        /\ cur \in Conn /\ cur # c /\ flag[cur] /\ RouterOf[cur] = RouterOf[c]
        /\ pc[Bind(cur)] \in {"notify", "accepted"}
    <3>1. pc[Bind(c)] = "occupied" /\ cur \in Conn /\ cur # c
      BY Zenon, <1>8, ConnAssumption DEF ConnectOccupied, TypeOK
    <3>2. flag[cur] /\ RouterOf[cur] = RouterOf[c]
      BY <3>1, ConnAssumption DEF RegistrationAgrees, TypeOK
    <3> QED
      BY <3>1, <3>2, ConnAssumption, ThreadFacts, ThreadsDiffer DEF LockInv,
         Critical, SlotInv
  <2>2. /\ pc' \in [Thread -> BindPC \cup ClosePC \cup ReportPC]
        /\ pc'[Bind(c)] = "displace"
        /\ \A t \in Thread \ {Bind(c)} : pc'[t] = pc[t]
    <3>1. pc \in [Thread -> BindPC \cup ClosePC \cup ReportPC]
      BY DEF TypeOK
    <3>2. "displace" \in BindPC
      BY DEF BindPC
    <3> QED
      BY <1>8, <3>1, <3>2, ThreadFacts DEF ConnectOccupied
  <2>3. /\ target' = [target EXCEPT ![c] = cur]
        /\ lock' = [lock EXCEPT ![StripeFor(c)] = NoThread]
        /\ UNCHANGED <<connected, flag, closed, young>>
    BY <1>8 DEF ConnectOccupied
  <2>4. TypeOK'
    <3>1. target' \in [Conn -> Conn \cup {NoConn}]
      BY <2>1, <2>3 DEF TypeOK
    <3>2. lock' \in [Stripe -> Thread \cup {NoThread}]
      BY Zenon, <2>3 DEF TypeOK
    <3>3. \A d \in Conn : /\ pc'[Bind(d)] \in BindPC
                          /\ pc'[CloseHandler(d)] \in ClosePC
                          /\ pc'[Report(d)] \in ReportPC
      BY SMTT(20), <2>2, ThreadFacts DEF TypeOK, BindPC
    <3> QED
      BY <2>2, <2>3, <3>1, <3>2, <3>3 DEF TypeOK
  <2>5. RegistrationAgrees'
    BY <2>1, <2>2, <2>3, ThreadFacts DEF RegistrationAgrees
  <2>6. LockInv'
    BY <2>1, <2>2, <2>3 DEF TypeOK, LockInv, Critical, StripeFor
  <2>7. TargetInv'
    <3> SUFFICES ASSUME NEW d \in Conn PROVE
              /\ pc'[Bind(d)] \in {"displace"} \cup TeardownPC => target'[d] # NoConn
              /\ target'[d] # NoConn =>
                   /\ RouterOf[target'[d]] = RouterOf[d]
                   /\ pc'[Bind(target'[d])] \in {"notify", "accepted"}
      BY DEF TargetInv
    <3>1. /\ target \in [Conn -> Conn \cup {NoConn}]
          /\ pc[Bind(d)] \in {"displace"} \cup TeardownPC => target[d] # NoConn
          /\ target[d] # NoConn =>
               /\ RouterOf[target[d]] = RouterOf[d]
               /\ pc[Bind(target[d])] \in {"notify", "accepted"}
      BY SMTT(20) DEF TypeOK, TargetInv
    <3>2. CASE d = c
      BY SMTT(20), <2>1, <2>2, <2>3, <3>1, <3>2, ConnAssumption, ThreadFacts,
         ThreadsDiffer
    <3>3. CASE d # c
      <4>1. target'[d] = target[d] /\ pc'[Bind(d)] = pc[Bind(d)]
        BY <2>2, <2>3, <3>1, <3>3, ThreadFacts
      <4> QED
        BY <2>1, <2>2, <3>1, <4>1, ThreadFacts
    <3> QED
      BY <3>2, <3>3
  <2>8. VictimInv'
    BY <2>1, <2>2, <2>3, ThreadFacts DEF TypeOK, TargetInv, VictimInv,
       TeardownPC
  <2>9. SlotInv'
    BY <2>1, <2>2, <2>3, ThreadFacts DEF TypeOK, SlotInv
  <2>10. PublishOnlyWhileCurrent'
    BY <2>1, <2>2, <2>3, ThreadFacts DEF TypeOK, PublishOnlyWhileCurrent,
       IsCurrent
  <2> QED
    BY SMTT(20), <2>4, <2>5, <2>6, <2>7, <2>8, <2>9, <2>10
<1>9. ASSUME NEW c \in Conn, ConnectFree(c) PROVE IInv'
  <2>1. BindMove(c, "closed")
    BY <1>9, ConnAssumption DEF ConnectFree, BindMove, BindPC, TeardownPC,
       SlotInv, RegistrationAgrees, TypeOK
  <2>2. LockMove(Bind(c), "closed")
    BY <1>9 DEF ConnectFree, LockMove, Critical
  <2>3. DataMove
    BY <1>9 DEF ConnectFree, TypeOK, DataMove
  <2> HIDE DEF IInv
  <2> QED
    BY Zenon, <1>9, <2>1, <2>2, <2>3, MoveBind DEF ConnectFree
<1>10. ASSUME NEW c \in Conn, ConnectChannelClosed(c) PROVE IInv'
  <2>1. BindMove(c, "rejected")
    BY <1>10 DEF ConnectChannelClosed, BindMove, BindPC, TeardownPC, SlotInv
  <2>2. LockMove(Bind(c), "rejected")
    BY Zenon, <1>10, ThreadFacts DEF ConnectChannelClosed, LockMove, Critical
  <2>3. DataMove
    BY <1>10 DEF ConnectChannelClosed, TypeOK, DataMove
  <2> HIDE DEF IInv
  <2> QED
    BY Zenon, <1>10, <2>1, <2>2, <2>3, MoveBind DEF ConnectChannelClosed
<1>11. ASSUME NEW c \in Conn, ConnectBuildLinks(c) PROVE IInv'
  <2>1. BindMove(c, "mark")
    BY <1>11 DEF ConnectBuildLinks, BindMove, BindPC, TeardownPC, SlotInv
  <2>2. LockMove(Bind(c), "mark")
    BY <1>11 DEF ConnectBuildLinks, LockMove, Critical
  <2>3. DataMove
    BY <1>11 DEF ConnectBuildLinks, TypeOK, DataMove
  <2> HIDE DEF IInv
  <2> QED
    BY Zenon, <1>11, <2>1, <2>2, <2>3, MoveBind DEF ConnectBuildLinks
<1>12. ASSUME NEW c \in Conn, ConnectMark(c) PROVE IInv'
  <2>1. pc[Bind(c)] = "mark" /\ connected[RouterOf[c]] = NoConn /\ ~flag[c]
    BY <1>12 DEF ConnectMark, SlotInv
  <2>2. /\ pc' \in [Thread -> BindPC \cup ClosePC \cup ReportPC]
        /\ pc'[Bind(c)] = "register"
        /\ \A t \in Thread \ {Bind(c)} : pc'[t] = pc[t]
    <3>1. pc \in [Thread -> BindPC \cup ClosePC \cup ReportPC]
      BY DEF TypeOK
    <3>2. "register" \in BindPC
      BY DEF BindPC
    <3> QED
      BY <1>12, <3>1, <3>2, ThreadFacts DEF ConnectMark
  <2>3. /\ UNCHANGED connected /\ flag' \in [Conn -> BOOLEAN] /\ flag'[c]
        /\ \A d \in Conn \ {c} : flag'[d] = flag[d]
    BY <1>12 DEF ConnectMark, TypeOK
  <2>4. TypeOK'
    <3>1. \A d \in Conn : /\ pc'[Bind(d)] \in BindPC
                          /\ pc'[CloseHandler(d)] \in ClosePC
                          /\ pc'[Report(d)] \in ReportPC
      BY SMTT(20), <2>2, ThreadFacts DEF TypeOK, BindPC
    <3> QED
      BY <1>12, <2>2, <2>3, <3>1 DEF ConnectMark, TypeOK
  <2>5. RegistrationAgrees'
    <3>1. \A d \in Conn \ {c} : flag'[d] = flag[d] /\ pc'[Bind(d)] = pc[Bind(d)]
      BY <2>2, <2>3, ThreadFacts
    <3> QED
      BY <2>1, <2>2, <2>3, <3>1 DEF RegistrationAgrees
  <2>6. LockInv'
    <3> SUFFICES ASSUME NEW t \in Thread, pc'[t] \in Critical
                 PROVE  lock[StripeFor(t[2])] = t
      BY <1>12 DEF ConnectMark, LockInv, StripeFor
    <3> QED
      BY <2>1, <2>2 DEF LockInv, Critical
  <2>7. TargetInv'
    <3>1. \A d \in Conn \ {c} : pc'[Bind(d)] = pc[Bind(d)]
      BY <2>2, ThreadFacts
    <3>2. UNCHANGED target /\ target \in [Conn -> Conn \cup {NoConn}]
      BY <1>12 DEF ConnectMark, TypeOK
    <3> QED
      BY <2>1, <2>2, <3>1, <3>2 DEF TargetInv, TeardownPC
  <2>8. VictimInv'
    <3>1. UNCHANGED <<closed, target>>
      BY <1>12 DEF ConnectMark
    <3> QED
      BY <2>2, <3>1, ThreadFacts DEF VictimInv, TeardownPC
  <2>9. SlotInv'
    <3>1. UNCHANGED <<closed, connected>>
      BY <1>12 DEF ConnectMark
    <3> QED
      BY <2>1, <2>2, <2>3, <3>1, ThreadFacts DEF SlotInv
  <2>10. PublishOnlyWhileCurrent'
    <3>1. \A d \in Conn : pc'[Report(d)] = pc[Report(d)] /\ (flag[d] => flag'[d])
      BY <2>2, <2>3, ThreadFacts
    <3> QED
      BY <2>3, <3>1 DEF PublishOnlyWhileCurrent, IsCurrent
  <2> QED
    BY <2>4, <2>5, <2>6, <2>7, <2>8, <2>9, <2>10
<1>13. ASSUME NEW c \in Conn, ConnectNotify(c) PROVE IInv'
  <2>1. BindMove(c, "accepted")
    BY <1>13 DEF ConnectNotify, BindMove, BindPC, TeardownPC, SlotInv
  <2>2. LockMove(Bind(c), "accepted")
    BY Zenon, <1>13, ThreadFacts DEF ConnectNotify, LockMove, Critical
  <2>3. DataMove
    BY <1>13 DEF ConnectNotify, TypeOK, DataMove
  <2> HIDE DEF IInv
  <2> QED
    BY Zenon, <1>13, <2>1, <2>2, <2>3, MoveBind DEF ConnectNotify
<1>14. ASSUME NEW c \in Conn, Displace(c) PROVE IInv'
  BY <1>14, DisplaceIInv
<1>15. ASSUME NEW c \in Conn, ReportLock(c) PROVE IInv'
  <2>1. ReportMove(c, "rcheck")
    BY <1>15 DEF ReportLock, ReportMove, ReportPC
  <2>2. LockMove(Report(c), "rcheck")
    <3>1. Report(c)[2] = c
      BY ThreadFacts
    <3> QED
      BY <1>15, <3>1 DEF ReportLock, LockMove
  <2>3. DataMove
    BY <1>15 DEF ReportLock, TypeOK, DataMove
  <2> HIDE DEF IInv
  <2> QED
    BY Zenon, <1>15, <2>1, <2>2, <2>3, MoveReport DEF ReportLock
<1>16. ASSUME NEW c \in Conn, ReportIgnore(c) PROVE IInv'
  <2>1. ReportMove(c, "none")
    BY <1>16 DEF ReportIgnore, ReportMove, ReportPC
  <2>2. LockMove(Report(c), "none")
    BY Zenon, <1>16, ThreadFacts DEF ReportIgnore, LockMove, Critical
  <2>3. DataMove
    BY <1>16 DEF ReportIgnore, TypeOK, DataMove
  <2> HIDE DEF IInv
  <2> QED
    BY Zenon, <1>16, <2>1, <2>2, <2>3, MoveReport DEF ReportIgnore
<1>17. ASSUME NEW c \in Conn, ReportCurrent(c) PROVE IInv'
  <2>1. ReportMove(c, "publish")
    BY <1>17 DEF ReportCurrent, ReportMove, ReportPC
  <2>2. LockMove(Report(c), "publish")
    BY <1>17 DEF ReportCurrent, LockMove, Critical
  <2>3. DataMove
    BY <1>17 DEF ReportCurrent, TypeOK, DataMove
  <2> HIDE DEF IInv
  <2> QED
    BY Zenon, <1>17, <2>1, <2>2, <2>3, MoveReport DEF ReportCurrent
<1>18. ASSUME NEW c \in Conn, ReportPublish(c) PROVE IInv'
  <2>1. ReportMove(c, "none")
    BY <1>18 DEF ReportPublish, ReportMove, ReportPC
  <2>2. LockMove(Report(c), "none")
    BY Zenon, <1>18, ThreadFacts DEF ReportPublish, LockMove, Critical
  <2>3. DataMove
    BY <1>18 DEF ReportPublish, TypeOK, DataMove
  <2> HIDE DEF IInv
  <2> QED
    BY Zenon, <1>18, <2>1, <2>2, <2>3, MoveReport DEF ReportPublish
<1>19. ASSUME NEW t \in {"bind", "close"} \X Conn, DisconnectPrecheck(t)
      PROVE  IInv'
  <2>1. CASE Goto(t, "dlock") /\ UNCHANGED <<closed, lock, target>>
    BY Zenon, <1>19, <2>1, Advance DEF DisconnectPrecheck, TeardownPC, Critical
  <2>2. CASE AfterDisconnect(t) /\ UNCHANGED lock
    BY <1>19, <2>2, EndTeardown DEF DisconnectPrecheck, TeardownPC, Critical
  <2> QED
    BY <1>19, <2>1, <2>2 DEF DisconnectPrecheck
<1>20. ASSUME NEW t \in {"bind", "close"} \X Conn, DisconnectLock(t)
      PROVE  IInv'
  <2>1. StripeFor(Victim(t)) = StripeFor(t[2])
    BY <1>20, ThreadFacts, ThreadKinds DEF DisconnectLock, Victim, StripeFor,
       TargetInv, TeardownPC
  <2> QED
    BY Zenon, <1>20, <2>1, Advance DEF DisconnectLock, TeardownPC
<1>21. ASSUME NEW t \in {"bind", "close"} \X Conn, DisconnectRecheck(t)
      PROVE  IInv'
  <2>1. CASE Goto(t, "unmark") /\ UNCHANGED <<closed, lock, target>>
    BY Zenon, <1>21, <2>1, Advance DEF DisconnectRecheck, TeardownPC, Critical
  <2>2. CASE AfterDisconnect(t) /\ Release(StripeFor(Victim(t)))
    BY Zenon, <1>21, <2>2, EndTeardown DEF DisconnectRecheck, TeardownPC, Critical
  <2> QED
    BY <1>21, <2>1, <2>2 DEF DisconnectRecheck
<1>22. ASSUME NEW t \in {"bind", "close"} \X Conn, DisconnectUnmark(t)
      PROVE  IInv'
  <2>1. /\ Victim(t) \in Conn /\ closed[Victim(t)]
        /\ lock[StripeFor(Victim(t))] = t
    BY <1>22, ThreadFacts, ThreadKinds DEF DisconnectUnmark, Victim,
       TargetInv, VictimInv, LockInv, TypeOK, TeardownPC, Critical, StripeFor
  <2>2. CASE connected[RouterOf[Victim(t)]] = Victim(t)
    BY Zenon, <1>22, <2>1, <2>2, Unmark, ThreadKinds DEF DisconnectUnmark
  <2>3. CASE connected[RouterOf[Victim(t)]] # Victim(t)
    BY Zenon, <1>22, <2>3, Advance DEF DisconnectUnmark, TeardownPC, Critical
  <2> QED
    BY SMTT(20), <2>2, <2>3
<1>23. ASSUME NEW t \in {"bind", "close"} \X Conn, DisconnectUnlink(t)
      PROVE  IInv'
  BY Zenon, <1>23, EndTeardown DEF DisconnectUnlink, TeardownPC, Critical
<1>25. ASSUME NEW c \in Conn, ConnectRegister(c) PROVE IInv'
  <2>1. /\ pc[Bind(c)] = "register" /\ connected[RouterOf[c]] = NoConn /\ flag[c]
        /\ lock[StripeFor(c)] = Bind(c)
    <3>1. pc[Bind(c)] = "register"
      BY <1>25 DEF ConnectRegister
    <3>2. connected[RouterOf[c]] = NoConn /\ flag[c]
      BY <3>1 DEF SlotInv
    <3>3. Bind(c) \in Thread /\ Bind(c)[2] = c
      BY ThreadFacts
    <3>4. lock[StripeFor(Bind(c)[2])] = Bind(c)
      BY <3>1, <3>3 DEF LockInv, Critical
    <3> QED
      BY <3>1, <3>2, <3>3, <3>4
  <2>2. /\ pc' \in [Thread -> BindPC \cup ClosePC \cup ReportPC]
        /\ pc'[Bind(c)] = "notify"
        /\ \A t \in Thread \ {Bind(c)} : pc'[t] = pc[t]
    <3>1. pc \in [Thread -> BindPC \cup ClosePC \cup ReportPC]
      BY DEF TypeOK
    <3>2. "notify" \in BindPC
      BY DEF BindPC
    <3> QED
      BY <1>25, <3>1, <3>2, ThreadFacts DEF ConnectRegister
  <2>3. /\ UNCHANGED flag /\ connected' \in [Router -> Conn \cup {NoConn}]
        /\ connected'[RouterOf[c]] = c
        /\ \A r \in Router \ {RouterOf[c]} : connected'[r] = connected[r]
    BY <1>25, ConnAssumption DEF ConnectRegister, TypeOK
  <2>4. TypeOK'
    <3>1. \A d \in Conn : /\ pc'[Bind(d)] \in BindPC
                          /\ pc'[CloseHandler(d)] \in ClosePC
                          /\ pc'[Report(d)] \in ReportPC
      BY SMTT(20), <2>2, ThreadFacts DEF TypeOK, BindPC
    <3> QED
      BY <1>25, <2>2, <2>3, <3>1 DEF ConnectRegister, TypeOK
  <2>5. RegistrationAgrees'
    <3> SUFFICES ASSUME NEW r \in Router, NEW d \in Conn
                 PROVE  connected'[r] = d <=>
                          RouterOf[d] = r /\ flag[d] /\ pc'[Bind(d)] # "register"
      BY <2>3 DEF RegistrationAgrees
    <3>1. ASSUME d # c PROVE pc'[Bind(d)] = pc[Bind(d)]
      BY <2>2, <3>1, ThreadFacts
    <3>2. CASE d # c /\ r = RouterOf[c]
      BY <2>1, <2>3, <3>1, <3>2, ConnAssumption DEF RegistrationAgrees
    <3>3. CASE r # RouterOf[c]
      BY <2>3, <3>1, <3>3 DEF RegistrationAgrees
    <3>4. CASE d = c /\ r = RouterOf[c]
      BY <2>1, <2>2, <2>3, <3>4
    <3> QED
      BY <3>2, <3>3, <3>4
  <2>6. LockInv'
    <3> SUFFICES ASSUME NEW t \in Thread, pc'[t] \in Critical
                 PROVE  lock[StripeFor(t[2])] = t
      BY <1>25 DEF ConnectRegister, LockInv, StripeFor
    <3> QED
      BY <2>1, <2>2 DEF LockInv, Critical
  <2>7. TargetInv'
    <3>1. \A d \in Conn \ {c} : pc'[Bind(d)] = pc[Bind(d)]
      BY <2>2, ThreadFacts
    <3>2. UNCHANGED target /\ target \in [Conn -> Conn \cup {NoConn}]
      BY <1>25 DEF ConnectRegister, TypeOK
    <3> QED
      BY <2>1, <2>2, <3>1, <3>2 DEF TargetInv, TeardownPC
  <2>8. VictimInv'
    <3>1. UNCHANGED <<closed, target>>
      BY SMTT(20), <1>25 DEF ConnectRegister
    <3> QED
      BY <2>2, <3>1, ThreadFacts DEF VictimInv, TeardownPC
  <2>9. SlotInv'
    <3> SUFFICES ASSUME NEW d \in Conn PROVE
          /\ flag[d] => pc'[Bind(d)] \in {"register", "notify", "accepted"}
          /\ pc'[Bind(d)] = "register" => flag[d]
          /\ pc'[Bind(d)] \in {"closed", "mark", "register"}
               => connected'[RouterOf[d]] = NoConn
          /\ pc'[Bind(d)] \in {"notify", "accepted"} /\ ~closed[d]
               => connected'[RouterOf[d]] = d
          /\ pc'[Bind(d)] \in {"none", "admit"} => pc'[CloseHandler(d)] = "none"
      BY SMTT(20), <1>25, <2>3 DEF ConnectRegister, SlotInv
    <3>1. CASE d = c
      BY <2>2, <2>3, <3>1
    <3>2. CASE d # c
      <4>1. /\ pc'[Bind(d)] = pc[Bind(d)]
            /\ pc'[CloseHandler(d)] = pc[CloseHandler(d)]
        BY <2>2, <3>2, ThreadFacts
      <4>2. pc[Bind(d)] \in {"closed", "mark", "register"} => RouterOf[d] # RouterOf[c]
        BY <2>1, <3>2, ThreadFacts DEF LockInv, Critical, StripeFor
      <4>3. pc[Bind(d)] \in {"notify", "accepted"} /\ ~closed[d]
              => RouterOf[d] # RouterOf[c]
        BY <2>1, ConnAssumption DEF SlotInv
      <4> QED
        BY Zenon, <2>3, <4>1, <4>2, <4>3, ConnAssumption DEF SlotInv
    <3> QED
      BY SMTT(20), <3>1, <3>2
  <2>10. PublishOnlyWhileCurrent'
    <3>1. ASSUME NEW d \in Conn, pc'[Report(d)] = "publish"
          PROVE  connected'[RouterOf[d]] = d /\ flag'[d]
      <4>1. connected[RouterOf[d]] = d /\ flag[d]
        BY <2>2, <3>1, ThreadFacts DEF PublishOnlyWhileCurrent, IsCurrent
      <4> QED
        BY <2>1, <2>3, <4>1, ConnAssumption
    <3> QED
      BY <3>1 DEF PublishOnlyWhileCurrent, IsCurrent
  <2> QED
    BY <2>4, <2>5, <2>6, <2>7, <2>8, <2>9, <2>10
<1>24. CASE UNCHANGED vars
  BY <1>24, Still DEF vars, TypeOK
<1> QED
  BY Zenon, <1>1, <1>2, <1>3, <1>4, <1>5, <1>6, <1>7, <1>8, <1>9, <1>10, <1>11,
     <1>12, <1>13, <1>14, <1>15, <1>16, <1>17, <1>18, <1>19, <1>20, <1>21,
     <1>22, <1>23, <1>24, <1>25 DEF Next, ConnectStep, ReportStep, DisconnectStep

(* The inductive invariant holds in every reachable state.                 *)
THEOREM Invariance == Spec => []IInv
BY InitIInv, StepIInv, PTL DEF Spec

(* TypeOK, for ConnectRouter and DisconnectRouter with any number of       *)
(* routers and connections.                                                *)
THEOREM TypeCorrect == Spec => []TypeOK
<1>1. IInv => TypeOK
  BY DEF IInv
<1> QED
  BY <1>1, Invariance, PTL

(* The connected map and the Connected flags agree, so that a router never *)
(* has two current connections.                                            *)
THEOREM RegistrationAgreement == Spec => []RegistrationAgrees
<1>1. IInv => RegistrationAgrees
  BY DEF IInv
<1> QED
  BY <1>1, Invariance, PTL

(* No teardown of another connection deregisters one that was accepted and *)
(* whose channel is open: the race between ConnectRouter and               *)
(* DisconnectRouter of issue 4196 is closed.                               *)
THEOREM AcceptedStaysRegistered == Spec => []AcceptedOpenIsRegistered
<1>1. IInv => AcceptedOpenIsRegistered
  BY DEF IInv, SlotInv, AcceptedOpenIsRegistered
<1> QED
  BY <1>1, Invariance, PTL

(* NotifyExistingLink publishes only for the current connection.           *)
THEOREM PublishCurrent == Spec => []PublishOnlyWhileCurrent
<1>1. IInv => PublishOnlyWhileCurrent
  BY DEF IInv
<1> QED
  BY <1>1, Invariance, PTL

(* MarkConnected never takes a slot over and MarkDisconnected empties it   *)
(* only for a connection whose channel has closed.                         *)
THEOREM SlotDiscipline == Spec => OnlyClosedLeaveSlot
<1>1. IInv /\ [Next]_vars => [\A r \in Router : SlotStep(r)]_vars
  <2> SUFFICES ASSUME IInv, Next, NEW r \in Router PROVE SlotStep(r)
    BY DEF vars, SlotStep
  <2> USE DEF IInv
  <2>1. ASSUME NEW c \in Conn, ConnectRegister(c) PROVE SlotStep(r)
    <3>1. connected[RouterOf[c]] = NoConn
      BY <2>1 DEF ConnectRegister, SlotInv
    <3>2. connected \in [Router -> Conn \cup {NoConn}]
      BY DEF TypeOK
    <3> QED
      BY <2>1, <3>1, <3>2 DEF ConnectRegister, SlotStep
  <2>2. ASSUME NEW t \in {"bind", "close"} \X Conn, DisconnectUnmark(t)
        PROVE  SlotStep(r)
    <3>1. Victim(t) \in Conn /\ closed[Victim(t)]
      <4>1. pc[t] = "unmark" /\ t[2] \in Conn
        BY <2>2, ThreadKinds DEF DisconnectUnmark
      <4>2. t = Bind(t[2]) \/ t = CloseHandler(t[2])
        BY ThreadKinds
      <4>3. CASE t = Bind(t[2])
        <5>1. t[1] = "bind" /\ pc[Bind(t[2])] \in TeardownPC
          BY <4>1, <4>3, ThreadFacts DEF TeardownPC
        <5>2. target[t[2]] # NoConn /\ closed[target[t[2]]]
          BY <4>1, <5>1 DEF TargetInv, VictimInv
        <5>3. target[t[2]] \in Conn
          BY <4>1, <5>2 DEF TypeOK
        <5> QED
          BY <5>1, <5>2, <5>3 DEF Victim
      <4>4. CASE t = CloseHandler(t[2])
        <5>1. t[1] = "close" /\ pc[CloseHandler(t[2])] \in TeardownPC
          BY <4>1, <4>4, ThreadFacts DEF TeardownPC
        <5> QED
          BY <4>1, <5>1 DEF VictimInv, Victim
      <4> QED
        BY <4>2, <4>3, <4>4
    <3> QED
      BY SMTT(20), <2>2, <3>1 DEF DisconnectUnmark, SlotStep, TypeOK
  <2>3. CASE UNCHANGED connected
    BY <2>3 DEF SlotStep
  <2> QED
    BY Zenon, <2>1, <2>2, <2>3 DEF Next, ConnectStep, ReportStep, DisconnectStep,
       Dial, AdmitRefuse, Admit, Age, ChannelClose, ReportReceive,
       ConnectLock, ConnectOccupied, ConnectFree, ConnectChannelClosed,
       ConnectBuildLinks, ConnectMark, ConnectNotify, Displace, ReportLock,
       ReportIgnore, ReportCurrent, ReportPublish, DisconnectPrecheck,
       DisconnectLock, DisconnectRecheck, DisconnectUnlink
<1> QED
  BY <1>1, Invariance, PTL DEF Spec, OnlyClosedLeaveSlot
=============================================================================

----------------------- MODULE ControllerLinksProofs ------------------------
(***************************************************************************)
(* The link table and the indexes of the connections agree as they should  *)
(* for any number of routers, connections, stripes and removers, and for   *)
(* any number of reports and re-dials of the link.                         *)
(*                                                                         *)
(* The argument: reports and teardowns of the source hold its stripe, so   *)
(* while a report is between CheckExisting and AddToTable nobody else adds *)
(* to the table, and a teardown finds in the index every link its          *)
(* connection is the source of.  Removers hold no stripe, but a remover    *)
(* only ever takes the table's entry away, and what it takes out of the    *)
(* indexes is not in the table any more.                                   *)
(***************************************************************************)
EXTENDS ControllerLinks, RouterConnectProofs

(* The goroutines that run DisconnectRouter.                               *)
Teardown == {"bind", "close"} \X Conn

Removal == {"fail", "table", "unindexSrc", "unindexDst"}
Adding == {"existing", "build", "indexSrc", "indexDst", "end"}
Place == {"idle"} \cup Removal \cup Adding
Object == 1..built

(* The table, the indexes and the goroutines name objects that were built, *)
(* whose ends are connections of the right routers.                        *)
ObjectInv ==
  /\ table # NoLink => table \in Object
  /\ \A l \in Object : src[l] \in Conn /\ RouterOf[src[l]] = SrcId
  /\ \A l \in Link : dst[l] # NoConn => RouterOf[dst[l]] = DstId
  /\ \A c \in Conn : /\ found[c] # NoConn => RouterOf[found[c]] = DstId
                     /\ index[c] \subseteq Object
  /\ \A t \in Thread : todo[t] \subseteq Object
  /\ \A w \in Worker :
       step[w] \in Removal \cup {"indexSrc", "indexDst"} => doing[w] \in Object

(* Which goroutine can be where in LinkManager.Add and Remove.             *)
WhereInv ==
  /\ \A w \in Remover : step[w] \in {"idle"} \cup Removal
  /\ \A t \in Teardown :
       /\ step[t] # "idle" => pc[t] = "unlink" /\ step[t] \in Removal \ {"fail"}
       /\ todo[t] # {} => pc[t] = "unlink"
  /\ \A c \in Conn :
       /\ pc[Report(c)] # "none" => RouterOf[c] = SrcId
       /\ pc[Report(c)] \in {"rlock", "rcheck"} => Idle(Report(c))
       /\ step[Report(c)] \in Adding => pc[Report(c)] = "publish"
       /\ step[Report(c)] = "fail" => pc[Report(c)] = "none"

(* What is being taken out of the indexes has left the table, and a report *)
(* that replaces a link meets no other.                                    *)
ReplaceInv ==
  /\ \A w \in Worker : step[w] \in {"unindexSrc", "unindexDst"} => doing[w] # table
  /\ \A c \in Conn : pc[Report(c)] = "publish" =>
       /\ step[Report(c)] = "table" => table \in {NoLink, doing[Report(c)]}
       /\ step[Report(c)] \in {"unindexSrc", "unindexDst", "build"} => table = NoLink

(* The report that built link l is still putting it into the indexes.      *)
Indexing(l, where) ==
  doing[Report(src[l])] = l /\ step[Report(src[l])] \in where

(* The teardown of the source of link l is about to take it out of the     *)
(* table.                                                                  *)
WillRemove(t, l) ==
  /\ pc[t] = "unlink" /\ Victim(t) = src[l]
  /\ l \in todo[t] \/ (step[t] = "table" /\ doing[t] = l)

(* Where the link in the table is known: at its source while that is       *)
(* connected, with the source's teardown after that, and at its            *)
(* destination from BuildRouterLinks on.                                   *)
IndexInv ==
  table # NoLink =>
    /\ flag[src[table]] => table \in index[src[table]] \/ Indexing(table, {"indexSrc"})
    /\ ~flag[src[table]] => \E t \in Teardown : WillRemove(t, table)
    /\ \A d \in Conn : d = dst[table] /\ (flag[d] \/ pc[Bind(d)] = "mark")
         => table \in index[d] \/ Indexing(table, {"indexSrc", "indexDst"})

(* A connection of the destination that is past BuildRouterLinks is the    *)
(* destination the link in the table has, unless the link was missed.      *)
DestInv ==
  table # NoLink =>
    \A d \in Conn : HasReadTable(d) => dst[table] = d \/ table \in missed

LinkInv ==
  /\ IInv
  /\ LinkTypeOK
  /\ ObjectInv
  /\ WhereInv
  /\ ReplaceInv
  /\ IndexInv
  /\ DestInv

----------------------------------------------------------------------------

(* Goroutines and workers.                                                 *)
LEMMA WorkerFacts ==
  /\ \A c \in Conn : /\ Report(c) \in Worker /\ Report(c) \in Thread
                     /\ Report(c) \notin Remover /\ Report(c) \notin Teardown
                     /\ Bind(c) \in Teardown /\ CloseHandler(c) \in Teardown
  /\ \A t \in Teardown : t \in Worker /\ t \in Thread /\ t \notin Remover
  /\ \A w \in Worker : w \in Remover \/ w \in Teardown \/ \E c \in Conn : w = Report(c)
  /\ \A w \in Remover : w \notin Thread /\ w \notin Teardown /\ w \in Worker
  /\ \A t \in Thread : t[1] = "report" <=> \E c \in Conn : t = Report(c)
<1>1. Remover \cap Thread = {}
  BY Zenon, LinkAssumption
<1>2. \A t \in Teardown : t \in Thread
  BY Zenon DEF Teardown, Thread
<1>3. \A c \in Conn : Report(c) \in Thread /\ Report(c) \notin Teardown
  BY Zenon DEF Teardown, Report, Thread
<1>4. \A t \in Thread : t \in Teardown \/ \E c \in Conn : t = Report(c)
  BY DEF Teardown, Report, Thread
<1>5. \A t \in Thread : t[1] = "report" <=> \E c \in Conn : t = Report(c)
  BY DEF Report, Thread
<1>6. \A c \in Conn : Bind(c) \in Teardown /\ CloseHandler(c) \in Teardown
  BY Zenon DEF Bind, CloseHandler, Teardown
<1> QED
  BY Zenon, <1>1, <1>2, <1>3, <1>4, <1>5, <1>6 DEF Worker

(* Two goroutines of one router are not both between lock and unlock.      *)
LEMMA Exclusive ==
  ASSUME IInv, NEW t \in Thread, NEW u \in Thread,
         pc[t] \in Critical, pc[u] \in Critical, RouterOf[t[2]] = RouterOf[u[2]]
  PROVE  t = u
BY Zenon DEF IInv, LockInv, StripeFor

(* A teardown is of a connection of the goroutine's own router, which no   *)
(* goroutine is connecting meanwhile if the teardown holds the stripe.     *)
LEMMA VictimFacts ==
  ASSUME IInv, NEW t \in Teardown, pc[t] \in TeardownPC
  PROVE  /\ Victim(t) \in Conn /\ t[2] \in Conn
         /\ RouterOf[Victim(t)] = RouterOf[t[2]]
         /\ pc[t] \in Critical => pc[Bind(Victim(t))] \notin {"mark", "register"}
<1>1. t \in Thread /\ t[2] \in Conn /\ t \in {Bind(t[2]), CloseHandler(t[2])}
  BY Zenon, ThreadKinds DEF Teardown
<1>2. CASE t = Bind(t[2])
  <2>1. t[1] = "bind" /\ Victim(t) = target[t[2]]
    BY <1>1, <1>2, ThreadFacts DEF Victim
  <2>2. target[t[2]] # NoConn
    BY Zenon, <1>1, <1>2 DEF IInv, TargetInv
  <2> QED
    BY Zenon, <1>1, <2>1, <2>2 DEF IInv, TargetInv, TypeOK
<1>3. CASE t = CloseHandler(t[2])
  <2>1. Victim(t) = t[2]
    BY Zenon, <1>1, <1>3, ThreadFacts DEF Victim
  <2>2. t # Bind(t[2]) /\ Bind(t[2]) \in Thread /\ Bind(t[2])[2] = t[2]
    BY Zenon, <1>1, <1>3, ThreadFacts, ThreadsDiffer
  <2>3. ASSUME pc[t] \in Critical, pc[Bind(t[2])] \in {"mark", "register"}  PROVE FALSE
    <3>1. pc[Bind(t[2])] \in Critical
      BY Zenon, <2>3 DEF Critical
    <3>2. t = Bind(t[2])
      BY Zenon, <1>1, <2>2, <2>3, <3>1, Exclusive
    <3> QED
      BY Zenon, <2>2, <3>2
  <2> QED
    BY Zenon, <1>1, <2>1, <2>3
<1> QED
  BY Zenon, <1>1, <1>2, <1>3

(* The Established connections are registered and nothing else has         *)
(* happened.                                                               *)
LEMMA ConnInitIInv == ConnInit => IInv
<1> SUFFICES ASSUME ConnInit PROVE IInv
  BY Zenon
<1> DEFINE Of(r) == {c \in Established : RouterOf[c] = r}
<1>1. Established \subseteq Conn /\ \A c, d \in Established : RouterOf[c] = RouterOf[d] => c = d
  BY Zenon, LinkAssumption
<1>2. ASSUME NEW r \in Router
      PROVE  /\ connected[r] \in Conn \cup {NoConn}
             /\ \A c \in Conn : connected[r] = c <=> c \in Established /\ RouterOf[c] = r
  <2>1. CASE \E c \in Established : RouterOf[c] = r
    <3>1. PICK c \in Established : RouterOf[c] = r
      BY Zenon, <2>1
    <3>2. connected[r] = CHOOSE d \in Established : RouterOf[d] = r
      BY Zenon, <2>1, <1>2 DEF ConnInit
    <3>3. connected[r] \in Established /\ RouterOf[connected[r]] = r
      BY Zenon, <3>1, <3>2
    <3> QED
      BY Zenon, <1>1, <3>3
  <2>2. CASE ~\E c \in Established : RouterOf[c] = r
    BY Zenon, <1>2, <2>2, ConnAssumption DEF ConnInit
  <2> QED
    BY Zenon, <2>1, <2>2
<1>3. \A c \in Conn : /\ pc[Bind(c)] = IF c \in Established THEN "accepted" ELSE "none"
                      /\ pc[CloseHandler(c)] = "none" /\ pc[Report(c)] = "none"
  BY Zenon, ThreadFacts DEF ConnInit
<1>4. \A t \in Thread : pc[t] \in {"none", "accepted"}
  BY Zenon DEF ConnInit
<1>5. TypeOK
  <2>1. connected \in [Router -> Conn \cup {NoConn}]
    BY Zenon, <1>2 DEF ConnInit
  <2>2. pc \in [Thread -> BindPC \cup ClosePC \cup ReportPC]
    BY Zenon DEF ConnInit, BindPC
  <2> QED
    BY <1>3, <2>1, <2>2, ConnAssumption DEF ConnInit, TypeOK, BindPC, ClosePC, ReportPC
<1>6. \A c \in Conn : /\ flag[c] <=> c \in Established
                      /\ ~closed[c] /\ target[c] = NoConn /\ RouterOf[c] \in Router
  BY Zenon, ConnAssumption DEF ConnInit
<1>7. RegistrationAgrees
  BY Zenon, <1>2, <1>3, <1>6 DEF RegistrationAgrees
<1>8. LockInv
  BY Zenon, <1>4 DEF LockInv, Critical
<1>9. TargetInv /\ VictimInv /\ PublishOnlyWhileCurrent
  BY Zenon, <1>3, <1>6 DEF TargetInv, VictimInv, PublishOnlyWhileCurrent, TeardownPC
<1>10. SlotInv
  BY <1>2, <1>3, <1>6 DEF SlotInv
<1> QED
  BY Zenon, <1>5, <1>7, <1>8, <1>9, <1>10 DEF IInv

LEMMA InitLinkInv == LinksInit => LinkInv
<1> SUFFICES ASSUME LinksInit PROVE LinkInv
  BY Zenon
<1>1. IInv
  BY Zenon, ConnInitIInv DEF LinksInit
<1>2. MaxLink \in Nat \ {0} /\ MaxIteration \in Nat \ {0} /\ NoLink \notin Link
  BY Zenon, LinkAssumption
<1>3. LinkTypeOK
  BY <1>2 DEF LinksInit, LinkInit, LinkTypeOK, Link
<1>4. \A w \in Worker : step[w] = "idle"
  BY Zenon DEF LinksInit, LinkInit
<1>5. ObjectInv
  BY <1>2, <1>4 DEF LinksInit, LinkInit, ObjectInv, Object, Removal
<1>6. WhereInv
  <2>1. \A c \in Conn : pc[Report(c)] = "none"
    BY Zenon, ThreadFacts DEF LinksInit, ConnInit
  <2>2. \A t \in Teardown : todo[t] = {}
    BY Zenon, WorkerFacts DEF LinksInit, LinkInit
  <2> QED
    BY Zenon, <1>4, <2>1, <2>2, WorkerFacts DEF WhereInv, Adding
<1>7. ReplaceInv /\ IndexInv /\ DestInv
  BY Zenon, <1>4, WorkerFacts DEF LinksInit, LinkInit, ReplaceInv, IndexInv, DestInv
<1> QED
  BY Zenon, <1>1, <1>3, <1>5, <1>6, <1>7 DEF LinkInv

----------------------------------------------------------------------------

(* Steps of RouterConnect that LinkManager does not take part in: no flag  *)
(* changes, no connection comes to be marked, no teardown that has links   *)
(* to remove moves on, and a report only takes the stripe or is found      *)
(* current.                                                                *)
QuietMove ==
  /\ UNCHANGED <<flag, lvars>>
  /\ \A c \in Conn :
       /\ pc'[Bind(c)] = "mark" => pc[Bind(c)] = "mark"
       /\ \/ pc'[Report(c)] = pc[Report(c)]
          \/ pc[Report(c)] \in {"rlock", "rcheck"} /\ pc'[Report(c)] \in {"rcheck", "publish"}
  /\ \A t \in Teardown : pc[t] = "unlink" /\ (todo[t] # {} \/ ~Idle(t)) =>
       pc'[t] = "unlink" /\ Victim(t)' = Victim(t)

LEMMA QuietStep ==
  ASSUME LinkInv, IInv', QuietMove PROVE LinkInv'
<1> USE DEF LinkInv
<1>1. /\ UNCHANGED <<table, built, iteration, src, dst, missed, failed, index, dialed, msg>>
      /\ UNCHANGED <<found, todo, doing, step, flag>>
  BY Zenon DEF QuietMove, lvars
<1>2. LinkTypeOK'
  BY Zenon, <1>1 DEF LinkTypeOK
<1>3. ObjectInv'
  BY Zenon, <1>1 DEF ObjectInv, Object
<1>4. WhereInv'
  <2>1. \A t \in Teardown : /\ step[t] # "idle" => pc'[t] = "unlink" /\ step[t] \in Removal \ {"fail"}
                            /\ todo[t] # {} => pc'[t] = "unlink"
    BY Zenon DEF QuietMove, WhereInv, Idle
  <2>2. \A c \in Conn :
          /\ pc'[Report(c)] # "none" => RouterOf[c] = SrcId
          /\ pc'[Report(c)] \in {"rlock", "rcheck"} => Idle(Report(c))
          /\ step[Report(c)] \in Adding => pc'[Report(c)] = "publish"
          /\ step[Report(c)] = "fail" => pc'[Report(c)] = "none"
    BY Zenon DEF QuietMove, WhereInv, Idle, Adding
  <2> QED
    BY Zenon, <1>1, <2>1, <2>2 DEF WhereInv, Idle
<1>5. ReplaceInv'
  BY Zenon, <1>1 DEF ReplaceInv, QuietMove, WhereInv, Idle
<1>6. IndexInv'
  <2> SUFFICES ASSUME table # NoLink PROVE IndexInv'
    BY Zenon, <1>1 DEF IndexInv
  <2>1. ~flag[src[table]] => \E t \in Teardown : WillRemove(t, table)'
    <3>1. ASSUME NEW t \in Teardown, WillRemove(t, table) PROVE WillRemove(t, table)'
      BY Zenon, <1>1, <3>1 DEF WillRemove, QuietMove, Idle
    <3> QED
      BY Zenon, <3>1 DEF IndexInv
  <2> QED
    BY Zenon, <1>1, <2>1 DEF IndexInv, Indexing, QuietMove
<1>7. DestInv'
  BY Zenon, <1>1 DEF DestInv, HasReadTable, QuietMove
<1> QED
  BY Zenon, <1>2, <1>3, <1>4, <1>5, <1>6, <1>7

(* One goroutine moves.                                                    *)
OneMoves(u, w) ==
  /\ Goto(u, w) /\ w # "mark"
  /\ UNCHANGED <<flag, lvars>>
  /\ pc[u] = "unlink" => Idle(u) /\ todo[u] = {}
  /\ \A c \in Conn : u = Report(c) =>
       pc[u] \in {"rlock", "rcheck"} /\ w \in {"rcheck", "publish"}
  /\ \A c \in Conn : target'[c] = target[c] \/ u = Bind(c)

LEMMA QuietGoto ==
  ASSUME LinkInv, NEW u \in Thread, NEW w, OneMoves(u, w) PROVE QuietMove
<1> USE DEF OneMoves, Goto
<1>1. pc \in [Thread -> BindPC \cup ClosePC \cup ReportPC]
  BY Zenon DEF LinkInv, IInv, TypeOK
<1>2. \A c \in Conn : /\ pc'[Bind(c)] = "mark" => pc[Bind(c)] = "mark"
                      /\ \/ pc'[Report(c)] = pc[Report(c)]
                         \/ /\ pc[Report(c)] \in {"rlock", "rcheck"}
                            /\ pc'[Report(c)] \in {"rcheck", "publish"}
  BY <1>1, ThreadFacts
<1>3. ASSUME NEW t \in Teardown, pc[t] = "unlink", todo[t] # {} \/ ~Idle(t)
      PROVE  pc'[t] = "unlink" /\ Victim(t)' = Victim(t)
  <2>1. t # u /\ t \in Thread /\ t[2] \in Conn
    BY Zenon, <1>3, ThreadKinds DEF Teardown
  <2>2. pc'[t] = pc[t]
    BY Zenon, <1>1, <2>1
  <2>3. t[1] = "bind" => t = Bind(t[2])
    BY DEF Teardown, Bind
  <2> QED
    BY Zenon, <1>3, <2>1, <2>2, <2>3 DEF Victim
<1> QED
  BY Zenon, <1>2, <1>3 DEF QuietMove

(* The steps of a connection that LinkManager does not take part in.       *)
LEMMA QuietConnStep ==
  ASSUME LinkInv, NEW c \in Conn, UNCHANGED lvars,
         \/ Dial(c) /\ pc[Bind(c)] = "none"
         \/ AdmitRefuse(c) \/ Admit(c) \/ Age(c) \/ ChannelClose(c)
         \/ ConnectLock(c) \/ ConnectOccupied(c) \/ ConnectFree(c)
         \/ ConnectChannelClosed(c) \/ ConnectRegister(c) \/ ConnectNotify(c)
         \/ Displace(c) \/ ReportLock(c) \/ ReportCurrent(c)
  PROVE  QuietMove
<1>1. /\ pc \in [Thread -> BindPC \cup ClosePC \cup ReportPC]
      /\ flag \in [Conn -> BOOLEAN] /\ closed \in [Conn -> BOOLEAN]
  BY Zenon DEF LinkInv, IInv, TypeOK
<1>2. /\ Bind(c) \in Thread /\ CloseHandler(c) \in Thread /\ Report(c) \in Thread
      /\ \A d \in Conn : Bind(c) # Report(d) /\ CloseHandler(c) # Report(d)
      /\ CloseHandler(c) # Bind(c)
  BY Zenon, ThreadFacts, ThreadsDiffer
<1>3. CASE Dial(c) /\ pc[Bind(c)] = "none"
  <2>1. ~flag[c] /\ pc[CloseHandler(c)] = "none"
    BY Zenon, <1>3 DEF LinkInv, IInv, SlotInv
  <2>2. UNCHANGED flag
    BY Zenon, <1>1, <1>3, <2>1 DEF Dial
  <2>3. pc' = [pc EXCEPT ![Bind(c)] = "admit"]
    BY Zenon, <1>1, <1>2, <1>3, <2>1 DEF Dial
  <2>4. OneMoves(Bind(c), "admit")
    BY Zenon, <1>2, <1>3, <2>2, <2>3 DEF OneMoves, Dial, Goto
  <2> QED
    BY Zenon, <1>2, <2>4, QuietGoto
<1>4. CASE AdmitRefuse(c) \/ Admit(c)
  <2>1. OneMoves(Bind(c), "rejected") \/ OneMoves(Bind(c), "lock")
    BY Zenon, <1>2, <1>4 DEF OneMoves, AdmitRefuse, Admit
  <2> QED
    BY Zenon, <1>2, <2>1, QuietGoto
<1>5. CASE Age(c)
  BY Zenon, <1>5 DEF Age, QuietMove, Victim
<1>6. CASE ChannelClose(c)
  <2>1. pc[CloseHandler(c)] # "unlink"
    BY Zenon, <1>6 DEF ChannelClose, LinkInv, IInv, VictimInv, TeardownPC
  <2>2. OneMoves(CloseHandler(c), "precheck")
    BY Zenon, <1>2, <1>6, <2>1 DEF OneMoves, ChannelClose
  <2> QED
    BY Zenon, <1>2, <2>2, QuietGoto
<1>7. CASE ConnectLock(c) \/ ConnectFree(c) \/ ConnectChannelClosed(c)
  <2>1. \E w : OneMoves(Bind(c), w)
    BY Zenon, <1>2, <1>7 DEF OneMoves, ConnectLock, ConnectFree, ConnectChannelClosed
  <2> QED
    BY Zenon, <1>2, <2>1, QuietGoto
<1>8. CASE ConnectOccupied(c)
  <2>1. \A d \in Conn : target'[d] = target[d] \/ Bind(c) = Bind(d)
    BY Zenon, <1>8 DEF ConnectOccupied, LinkInv, IInv, TypeOK
  <2>2. OneMoves(Bind(c), "displace")
    BY Zenon, <1>2, <1>8, <2>1 DEF OneMoves, ConnectOccupied
  <2> QED
    BY Zenon, <1>2, <2>2, QuietGoto
<1>9. CASE ConnectRegister(c) \/ ConnectNotify(c)
  <2>1. \E w : OneMoves(Bind(c), w)
    BY Zenon, <1>2, <1>9 DEF OneMoves, ConnectRegister, ConnectNotify
  <2> QED
    BY Zenon, <1>2, <2>1, QuietGoto
<1>10. CASE Displace(c)
  <2> DEFINE cur == target[c]
  <2>1. pc[Bind(c)] = "displace" /\ cur \in Conn
    BY Zenon, <1>10 DEF Displace, LinkInv, IInv, TypeOK, TargetInv
  <2>2. CASE closed[cur]
    <3>1. OneMoves(Bind(c), "precheck")
      BY Zenon, <1>2, <1>10, <2>1, <2>2 DEF OneMoves, Displace
    <3> QED
      BY Zenon, <1>2, <3>1, QuietGoto
  <2>3. CASE ~closed[cur]
    <3>1. pc[CloseHandler(cur)] # "unlink"
      BY Zenon, <2>1, <2>3 DEF LinkInv, IInv, VictimInv, TeardownPC
    <3>2. pc' = [pc EXCEPT ![Bind(c)] = "precheck", ![CloseHandler(cur)] = "precheck"]
      BY Zenon, <1>10, <2>3 DEF Displace
    <3>3. /\ \A d \in Conn : /\ pc'[Bind(d)] = "mark" => pc[Bind(d)] = "mark"
                             /\ pc'[Report(d)] = pc[Report(d)]
          /\ \A t \in Teardown : pc[t] = "unlink" => pc'[t] = "unlink"
      BY <1>1, <2>1, <3>1, <3>2, ThreadFacts, ThreadsDiffer, WorkerFacts
    <3>4. UNCHANGED <<flag, target>>
      BY Zenon, <1>10 DEF Displace
    <3> QED
      BY Zenon, <3>3, <3>4 DEF QuietMove, Victim
  <2> QED
    BY Zenon, <2>2, <2>3
<1>11. CASE ReportLock(c) \/ ReportCurrent(c)
  <2>1. \A d \in Conn : Report(c) = Report(d) => c = d
    BY Zenon, ThreadsDiffer
  <2>2. \E w : OneMoves(Report(c), w)
    BY Zenon, <1>2, <1>11, <2>1, ThreadsDiffer DEF OneMoves, ReportLock, ReportCurrent
  <2> QED
    BY Zenon, <1>2, <2>2, QuietGoto
<1> QED
  BY Zenon, <1>3, <1>4, <1>5, <1>6, <1>7, <1>8, <1>9, <1>10, <1>11

(* The steps of a teardown other than the one that takes the links.        *)
LEMMA QuietTeardownStep ==
  ASSUME LinkInv, NEW t \in Teardown, UNCHANGED lvars,
         \/ DisconnectPrecheck(t) \/ DisconnectLock(t) \/ DisconnectRecheck(t)
         \/ DisconnectUnlink(t) /\ Idle(t) /\ todo[t] = {}
  PROVE  QuietMove
<1>1. /\ t \in Thread /\ t[2] \in Conn /\ t \in {Bind(t[2]), CloseHandler(t[2])}
      /\ \A d \in Conn : t # Report(d)
      /\ t[1] = "bind" => t = Bind(t[2])
  BY ThreadKinds, WorkerFacts DEF Teardown, Bind
<1>2. target \in [Conn -> Conn \cup {NoConn}]
  BY Zenon DEF LinkInv, IInv, TypeOK
<1>3. /\ UNCHANGED flag
      /\ pc[t] = "unlink" => Idle(t) /\ todo[t] = {}
      /\ \/ Goto(t, "dlock") /\ UNCHANGED target
         \/ Goto(t, "recheck") /\ UNCHANGED target
         \/ Goto(t, "unmark") /\ UNCHANGED target
         \/ AfterDisconnect(t)
  BY Zenon DEF DisconnectPrecheck, DisconnectLock, DisconnectRecheck, DisconnectUnlink
<1>4. CASE AfterDisconnect(t)
  <2>1. \A d \in Conn : target'[d] = target[d] \/ t = Bind(d)
    BY Zenon, <1>1, <1>2, <1>4 DEF AfterDisconnect
  <2>2. \E w : OneMoves(t, w)
    BY Zenon, <1>1, <1>3, <1>4, <2>1 DEF OneMoves, AfterDisconnect
  <2> QED
    BY Zenon, <1>1, <2>2, QuietGoto
<1>5. CASE UNCHANGED target /\ \E w \in {"dlock", "recheck", "unmark"} : Goto(t, w)
  <2>1. \E w : OneMoves(t, w)
    BY Zenon, <1>1, <1>3, <1>5 DEF OneMoves
  <2> QED
    BY Zenon, <1>1, <2>1, QuietGoto
<1> QED
  BY Zenon, <1>3, <1>4, <1>5

----------------------------------------------------------------------------

(* MarkConnected.  No teardown of the connection is under way, so the      *)
(* table has no link of which it is the source.                            *)
LEMMA MarkStep ==
  ASSUME LinkInv, IInv', NEW c \in Conn, ConnectMark(c), UNCHANGED lvars
  PROVE  LinkInv'
<1> USE DEF LinkInv
<1>1. /\ UNCHANGED <<table, built, iteration, src, dst, missed, failed, index, dialed, msg>>
      /\ UNCHANGED <<found, todo, doing, step, target>>
      /\ flag' = [flag EXCEPT ![c] = TRUE] /\ flag \in [Conn -> BOOLEAN]
      /\ pc' = [pc EXCEPT ![Bind(c)] = "register"]
      /\ pc \in [Thread -> BindPC \cup ClosePC \cup ReportPC]
      /\ pc[Bind(c)] = "mark" /\ Bind(c) \in Thread
  BY Zenon, ThreadFacts DEF ConnectMark, Goto, lvars, IInv, TypeOK
<1>2. LinkTypeOK'
  BY Zenon, <1>1 DEF LinkTypeOK
<1>3. ObjectInv'
  BY Zenon, <1>1 DEF ObjectInv, Object
<1>4. /\ \A d \in Conn : pc'[Report(d)] = pc[Report(d)]
      /\ \A d \in Conn : pc'[Bind(d)] = "mark" => pc[Bind(d)] = "mark"
      /\ \A t \in Teardown : pc[t] = "unlink" => pc'[t] = "unlink"
  BY <1>1, ThreadFacts, ThreadsDiffer, WorkerFacts
<1>5. WhereInv' /\ ReplaceInv'
  BY <1>1, <1>4 DEF WhereInv, ReplaceInv, Idle
<1>6. IndexInv'
  <2> SUFFICES ASSUME table # NoLink PROVE IndexInv'
    BY Zenon, <1>1 DEF IndexInv
  <2>1. src[table] \in Conn
    BY Zenon DEF ObjectInv
  <2>2. CASE src[table] = c /\ ~flag[c]
    <3>1. PICK t \in Teardown : WillRemove(t, table)
      BY Zenon, <2>2 DEF IndexInv
    <3>2. pc[t] \in TeardownPC /\ pc[t] \in Critical /\ Victim(t) = c
      BY Zenon, <2>2, <3>1 DEF WillRemove, TeardownPC, Critical
    <3> QED
      BY Zenon, <1>1, <3>2, VictimFacts
  <2>3. CASE src[table] # c \/ flag[c]
    <3>1. flag'[src[table]] = flag[src[table]]
      BY Zenon, <1>1, <2>1, <2>3
    <3>2. \A t \in Teardown : WillRemove(t, table) => WillRemove(t, table)'
      BY Zenon, <1>1, <1>4 DEF WillRemove, Victim
    <3>3. \A d \in Conn : flag'[d] => flag[d] \/ pc[Bind(d)] = "mark"
      BY Zenon, <1>1
    <3> QED
      BY Zenon, <1>1, <1>4, <3>1, <3>2, <3>3 DEF IndexInv, Indexing
  <2> QED
    BY Zenon, <2>2, <2>3
<1>7. DestInv'
  <2>1. \A d \in Conn : HasReadTable(d)' => HasReadTable(d)
    BY Zenon, <1>1, <1>4 DEF HasReadTable
  <2> QED
    BY Zenon, <1>1, <2>1 DEF DestInv
<1> QED
  BY Zenon, <1>2, <1>3, <1>5, <1>6, <1>7

(* BuildRouterLinks.                                                       *)
LEMMA BuildLinksStep ==
  ASSUME LinkInv, IInv', NEW c \in Conn, ConnectBuildLinks(c), BuildRouterLinks(c)
  PROVE  LinkInv'
<1> USE DEF LinkInv
<1>1. /\ UNCHANGED <<table, built, iteration, src, failed, dialed, msg>>
      /\ UNCHANGED <<found, todo, doing, step, target, flag>>
      /\ pc' = [pc EXCEPT ![Bind(c)] = "mark"]
      /\ pc \in [Thread -> BindPC \cup ClosePC \cup ReportPC]
      /\ pc[Bind(c)] = "closed" /\ Bind(c) \in Thread
      /\ index \in [Conn -> SUBSET Link] /\ dst \in [Link -> Conn \cup {NoConn}]
  BY Zenon, ThreadFacts DEF ConnectBuildLinks, BuildRouterLinks, Goto, objects, IInv, TypeOK, LinkTypeOK
<1>2. /\ \A d \in Conn : pc'[Report(d)] = pc[Report(d)]
      /\ \A d \in Conn \ {c} : pc'[Bind(d)] = pc[Bind(d)]
      /\ \A t \in Teardown : pc[t] = "unlink" => pc'[t] = "unlink"
  BY <1>1, ThreadFacts, ThreadsDiffer, WorkerFacts
<1>3. WhereInv' /\ ReplaceInv'
  BY <1>1, <1>2 DEF WhereInv, ReplaceInv, Idle
<1>4. \A t \in Teardown : WillRemove(t, table) => WillRemove(t, table)'
  BY Zenon, <1>1, <1>2 DEF WillRemove, Victim
<1>5. \A d \in Conn : index[d] \subseteq index'[d]
  BY <1>1 DEF BuildRouterLinks
<1>6. table # NoLink => table \in Object /\ table \in Link /\ src[table] \in Conn
  BY Zenon DEF ObjectInv, LinkTypeOK
<1>d. \A d \in Conn \ {c} : HasReadTable(d)' => HasReadTable(d)
  BY Zenon, <1>1, <1>2 DEF HasReadTable
<1>7. CASE table # NoLink /\ RouterOf[c] = DstId
  <2>1. /\ index' = [index EXCEPT ![c] = @ \cup {table}]
        /\ dst' = [dst EXCEPT ![table] = c]
        /\ missed' = missed \ {table}
    BY Zenon, <1>7 DEF BuildRouterLinks
  <2>2. LinkTypeOK'
    BY Zenon, <1>1, <1>6, <1>7, <2>1 DEF LinkTypeOK
  <2>3. ObjectInv'
    BY Zenon, <1>1, <1>6, <1>7, <2>1 DEF ObjectInv, Object
  <2>4. dst'[table] = c /\ table \in index'[c]
    BY Zenon, <1>1, <1>6, <1>7, <2>1
  <2>5. IndexInv'
    BY Zenon, <1>1, <1>4, <1>5, <1>6, <2>4 DEF IndexInv, Indexing
  <2>6. ASSUME NEW d \in Conn \ {c}, HasReadTable(d)  PROVE FALSE
    <3>1. connected[DstId] \in {NoConn, c} /\ NoConn \notin Conn
      BY Zenon, <1>1, <1>7, ConnAssumption DEF IInv, SlotInv
    <3>2. pc[Bind(d)] \in {"mark", "register"}
      <4>1. connected[DstId] # d /\ DstId \in Router
        BY Zenon, <3>1, LinkAssumption
      <4>2. d \in Conn /\ RouterOf[d] = DstId /\ (flag[d] \/ pc[Bind(d)] = "mark")
        BY Zenon, <2>6 DEF HasReadTable
      <4>3. flag[d] => pc[Bind(d)] = "register"
        <5>1. \A r \in Router : connected[r] = d <=>
                RouterOf[d] = r /\ flag[d] /\ pc[Bind(d)] # "register"
          BY <4>2 DEF IInv, RegistrationAgrees
        <5> HIDE DEF LinkInv
        <5> QED
          BY Zenon, <4>1, <4>2, <5>1
      <4> HIDE DEF LinkInv
      <4> QED
        BY Zenon, <4>2, <4>3
    <3>3. Bind(d) \in Thread /\ Bind(d)[2] = d /\ Bind(c)[2] = c /\ Bind(d) # Bind(c)
      BY Zenon, ThreadFacts, ThreadsDiffer
    <3>4. /\ pc[Bind(c)] \in Critical /\ pc[Bind(d)] \in Critical
          /\ RouterOf[d] = RouterOf[c]
      BY Zenon, <1>1, <1>7, <2>6, <3>2 DEF Critical, HasReadTable
    <3> QED
      BY Zenon, <1>1, <3>3, <3>4, Exclusive
  <2>7. DestInv'
    BY Zenon, <1>1, <1>d, <2>4, <2>6 DEF DestInv
  <2> QED
    BY Zenon, <1>3, <2>2, <2>3, <2>5, <2>7
<1>8. CASE ~(table # NoLink /\ RouterOf[c] = DstId)
  <2>1. UNCHANGED <<index, dst, missed>>
    BY Zenon, <1>8 DEF BuildRouterLinks
  <2>2. LinkTypeOK' /\ ObjectInv'
    BY Zenon, <1>1, <2>1 DEF LinkTypeOK, ObjectInv, Object
  <2>3. table # NoLink => dst[table] # c
    BY <1>6, <1>8, ConnAssumption DEF ObjectInv
  <2>4. IndexInv'
    BY Zenon, <1>1, <1>2, <1>4, <1>6, <2>1, <2>3 DEF IndexInv, Indexing
  <2>5. DestInv'
    BY Zenon, <1>1, <1>8, <1>d, <2>1 DEF DestInv, HasReadTable
  <2> QED
    BY Zenon, <1>3, <2>2, <2>4, <2>5
<1> QED
  BY Zenon, <1>7, <1>8

(* The report thread of a connection moves between two states in which it  *)
(* is not inside LinkManager.                                              *)
ReportMoves(c, w) ==
  /\ pc' = [pc EXCEPT ![Report(c)] = w]
  /\ UNCHANGED <<flag, target, table, built, iteration, src, dst, missed, failed, index, dialed, todo>>
  /\ step[Report(c)] \in {"idle", "end"} /\ step' = [step EXCEPT ![Report(c)] = "idle"]
  /\ doing' = [doing EXCEPT ![Report(c)] = NoLink] \/ UNCHANGED doing
  /\ w # "none" => RouterOf[c] = SrcId
  /\ msg' \in [Conn -> 0..MaxIteration]
  /\ \A d \in Conn : found'[d] \in {found[d], NoConn}
  /\ found' \in [Conn -> Conn \cup {NoConn}]

LEMMA ReportStepInv ==
  ASSUME LinkInv, IInv', NEW c \in Conn, NEW w, ReportMoves(c, w) PROVE LinkInv'
<1> USE DEF LinkInv
<1>1. /\ pc \in [Thread -> BindPC \cup ClosePC \cup ReportPC]
      /\ step \in [Worker -> Place] /\ doing \in [Worker -> Link \cup {NoLink}]
      /\ Report(c) \in Worker /\ Report(c) \in Thread
  BY Zenon, WorkerFacts DEF LinkTypeOK, IInv, TypeOK, Place, Removal, Adding
<1>2. LinkTypeOK'
  <2>1. step' \in [Worker -> Place] /\ doing' \in [Worker -> Link \cup {NoLink}]
    BY Zenon, <1>1 DEF ReportMoves, Place
  <2> QED
    BY Zenon, <2>1 DEF LinkTypeOK, ReportMoves, Place, Removal, Adding
<1>3. /\ step'[Report(c)] = "idle" /\ pc'[Report(c)] = w
      /\ \A v \in Worker \ {Report(c)} : step'[v] = step[v] /\ doing'[v] = doing[v]
      /\ \A d \in Conn \ {c} : Report(d) \in Worker \ {Report(c)} /\ pc'[Report(d)] = pc[Report(d)]
      /\ \A t \in Teardown : t \in Worker \ {Report(c)} /\ pc'[t] = pc[t]
      /\ \A v \in Remover : v \in Worker \ {Report(c)}
      /\ \A d \in Conn : pc'[Bind(d)] = pc[Bind(d)]
  BY <1>1, WorkerFacts, ThreadsDiffer, ThreadFacts DEF ReportMoves
<1>4. ObjectInv'
  BY <1>3 DEF ReportMoves, ObjectInv, Object, Removal
<1>5. WhereInv'
  BY <1>3 DEF ReportMoves, WhereInv, Idle, Adding, Removal
<1>6. ReplaceInv'
  BY <1>3, WorkerFacts DEF ReportMoves, ReplaceInv
<1>7. IndexInv'
  <2> SUFFICES ASSUME table # NoLink PROVE IndexInv'
    BY Zenon DEF ReportMoves, IndexInv
  <2>1. src[table] \in Conn
    BY Zenon DEF ObjectInv
  <2>2. \A t \in Teardown : WillRemove(t, table) => WillRemove(t, table)'
    BY Zenon, <1>3 DEF ReportMoves, WillRemove, Victim
  <2>3. \A where \in {{"indexSrc"}, {"indexSrc", "indexDst"}} :
          Indexing(table, where) => Indexing(table, where)'
    BY ZenonT(30), <1>3, <2>1 DEF ReportMoves, Indexing
  <2> QED
    BY Zenon, <1>3, <2>2, <2>3 DEF ReportMoves, IndexInv
<1>8. DestInv'
  BY Zenon, <1>3 DEF ReportMoves, DestInv, HasReadTable
<1> QED
  BY Zenon, <1>2, <1>4, <1>5, <1>6, <1>7, <1>8

(* A links message arrives, is dropped or has been published.              *)
LEMMA ReportSteps ==
  ASSUME LinkInv, IInv', NEW c \in Conn,
         \/ ReportReceive(c) /\ ReportArrives(c)
         \/ ReportIgnore(c) /\ ReportDropped(c)
         \/ ReportPublish(c) /\ Published(c)
  PROVE  LinkInv'
<1>1. /\ step \in [Worker -> Place]
      /\ msg \in [Conn -> 0..MaxIteration] /\ dialed \in 0..MaxIteration /\ MaxIteration \in Nat
      /\ found \in [Conn -> Conn \cup {NoConn}]
      /\ Report(c) \in Worker
  BY WorkerFacts, LinkAssumption DEF LinkInv, LinkTypeOK, Place, Removal, Adding
<1>2. msg' \in [Conn -> 0..MaxIteration]
  BY <1>1 DEF ReportArrives, ReportDropped, Published
<1>3. /\ found' \in [Conn -> Conn \cup {NoConn}]
      /\ \A d \in Conn : found'[d] \in {found[d], NoConn}
  BY Zenon, <1>1 DEF ReportArrives, ReportDropped, Published
<1>4. /\ step[Report(c)] \in {"idle", "end"} /\ step' = [step EXCEPT ![Report(c)] = "idle"]
      /\ doing' = [doing EXCEPT ![Report(c)] = NoLink] \/ UNCHANGED doing
  BY <1>1 DEF ReportArrives, ReportDropped, ReportIgnore, Published, Return, StepTo, Idle,
              LinkInv, WhereInv
<1>5. /\ UNCHANGED <<flag, target, table, built, iteration, src, dst, missed, failed, index, dialed, todo>>
      /\ \/ pc' = [pc EXCEPT ![Report(c)] = "none"]
         \/ pc' = [pc EXCEPT ![Report(c)] = "rlock"] /\ RouterOf[c] = SrcId
  BY Zenon DEF ReportReceive, ReportArrives, ReportDropped, ReportIgnore, ReportPublish, Published,
         Goto, objects
<1>6. ReportMoves(c, "none") \/ ReportMoves(c, "rlock")
  BY Zenon, <1>2, <1>3, <1>4, <1>5 DEF ReportMoves
<1> QED
  BY Zenon, <1>6, ReportStepInv

(* DisconnectRouter takes the links of its connection and marks it as      *)
(* disconnected.  The report goroutine of the connection is not adding any *)
(* because the teardown has the stripe.                                    *)
LEMMA UnmarkStep ==
  ASSUME LinkInv, IInv', NEW t \in Teardown, DisconnectUnmark(t), SnapshotLinks(t)
  PROVE  LinkInv'
<1> USE DEF LinkInv
<1> DEFINE v == Victim(t)
           own == {l \in index[v] : RouterOf[src[l]] = RouterOf[v]}
<1>1. /\ pc[t] = "unmark" /\ pc' = [pc EXCEPT ![t] = "unlink"]
      /\ pc \in [Thread -> BindPC \cup ClosePC \cup ReportPC]
      /\ UNCHANGED <<table, built, iteration, src, dst, missed, failed, dialed, msg>>
      /\ UNCHANGED <<found, doing, step, target>>
      /\ index \in [Conn -> SUBSET Link] /\ todo \in [Thread -> SUBSET Link]
      /\ index' = [index EXCEPT ![v] = {}] /\ todo' = [todo EXCEPT ![t] = own]
      /\ flag \in [Conn -> BOOLEAN] /\ t \in Thread
  BY Zenon, WorkerFacts DEF DisconnectUnmark, SnapshotLinks, Goto, objects, IInv, TypeOK, LinkTypeOK
<1>2. /\ v \in Conn /\ t[2] \in Conn /\ RouterOf[v] = RouterOf[t[2]]
      /\ pc[Bind(v)] \notin {"mark", "register"}
  BY Zenon, <1>1, VictimFacts DEF TeardownPC, Critical
<1>3. ~flag'[v] /\ \A c \in Conn \ {v} : flag'[c] = flag[c]
  <2>1. CASE connected[RouterOf[v]] = v
    BY Zenon, <1>1, <1>2, <2>1 DEF DisconnectUnmark
  <2>2. CASE connected[RouterOf[v]] # v
    <3>1. UNCHANGED flag
      BY Zenon, <2>2 DEF DisconnectUnmark
    <3>2. ~flag[v]
      BY <1>2, <2>2, ConnAssumption DEF IInv, RegistrationAgrees
    <3> QED
      BY Zenon, <3>1, <3>2
  <2> QED
    BY Zenon, <2>1, <2>2
<1>4. \A u \in Thread : pc[u] \in Critical /\ RouterOf[u[2]] = RouterOf[v] => u = t
  BY Zenon, <1>1, <1>2, Exclusive DEF Critical
<1>5. /\ \A c \in Conn : pc'[Report(c)] = pc[Report(c)] /\ (pc'[Bind(c)] = "mark" => pc[Bind(c)] = "mark")
      /\ \A u \in Teardown : /\ u # t => todo'[u] = todo[u]
                             /\ pc[u] = "unlink" => pc'[u] = "unlink" /\ u # t
      /\ pc'[t] = "unlink" /\ todo'[t] = own
  BY <1>1, WorkerFacts, ThreadFacts
<1>6. /\ own \subseteq index[v] /\ \A c \in Conn : index'[c] \subseteq index[c]
      /\ \A c \in Conn \ {v} : index'[c] = index[c]
  BY Zenon, <1>1, <1>2
<1> HIDE DEF own
<1>7. LinkTypeOK'
  BY Zenon, <1>1, <1>2, <1>6 DEF LinkTypeOK
<1>8. ObjectInv'
  <2>1. \A u \in Thread : todo'[u] \subseteq Object
    BY <1>1, <1>2, <1>6 DEF ObjectInv
  <2> QED
    BY Zenon, <1>1, <1>6, <2>1 DEF ObjectInv, Object
<1>9. WhereInv'
  <2>1. \A u \in Teardown : /\ step[u] # "idle" => pc'[u] = "unlink" /\ step[u] \in Removal \ {"fail"}
                            /\ todo'[u] # {} => pc'[u] = "unlink"
    BY Zenon, <1>5 DEF WhereInv
  <2> QED
    BY <1>1, <1>5, <2>1 DEF WhereInv, Idle
<1>10. ReplaceInv'
  BY <1>1, <1>5 DEF ReplaceInv
<1>11. IndexInv'
  <2> SUFFICES ASSUME table # NoLink PROVE IndexInv'
    BY Zenon, <1>1 DEF IndexInv
  <2>1. src[table] \in Conn
    BY Zenon DEF ObjectInv
  <2>2. Victim(t)' = v
    BY Zenon, <1>1 DEF Victim
  <2>3. \A u \in Teardown : WillRemove(u, table) => WillRemove(u, table)'
    BY Zenon, <1>1, <1>5 DEF WillRemove, Victim
  <2>4. \A where : Indexing(table, where)' <=> Indexing(table, where)
    BY Zenon, <1>1 DEF Indexing
  <2>5. ASSUME src[table] = v, flag[v]  PROVE WillRemove(t, table)'
    <3>1. ~Indexing(table, {"indexSrc"})
      <4> SUFFICES ASSUME Indexing(table, {"indexSrc"}) PROVE FALSE
        BY Zenon
      <4>1. pc[Report(v)] = "publish"
        BY <1>2, <2>5 DEF Indexing, WhereInv, Adding
      <4>2. Report(v) = t
        BY <1>2, <1>4, <4>1, ThreadFacts DEF Critical
      <4> QED
        BY Zenon, <1>2, <4>2, WorkerFacts
    <3>2. table \in own
      BY Zenon, <2>5, <3>1 DEF IndexInv, own
    <3> QED
      BY Zenon, <1>1, <1>5, <2>2, <2>5, <3>2 DEF WillRemove
  <2>6. ASSUME ~flag'[src[table]]  PROVE \E u \in Teardown : WillRemove(u, table)'
    BY Zenon, <1>3, <2>1, <2>3, <2>5, <2>6 DEF IndexInv
  <2> QED
    BY <1>1, <1>2, <1>3, <1>5, <1>6, <2>1, <2>4, <2>6 DEF IndexInv
<1>12. DestInv'
  <2>1. \A d \in Conn : HasReadTable(d)' => HasReadTable(d)
    BY Zenon, <1>3, <1>5 DEF HasReadTable
  <2> QED
    BY Zenon, <1>1, <2>1 DEF DestInv
<1> QED
  BY Zenon, <1>7, <1>8, <1>9, <1>10, <1>11, <1>12

----------------------------------------------------------------------------

(* What has to hold for worker w to move to place s with link l in hand.   *)
WorkerMove(w, s, l) ==
  /\ l \in Object \cup Link \cup {NoLink}
  /\ s \in Removal \cup {"indexSrc", "indexDst"} => l \in Object
  /\ s \in {"idle"} \cup Removal \cup Adding
  /\ s \in {"unindexSrc", "unindexDst"} => l # table
  /\ w \in Remover => s \in {"idle"} \cup Removal
  /\ w \in Teardown => s = "idle" \/ (pc[w] = "unlink" /\ s \in Removal \ {"fail"})
  /\ \A c \in Conn : w = Report(c) =>
       /\ pc[w] \in {"rlock", "rcheck"} => s = "idle"
       /\ s \in Adding => pc[w] = "publish"
       /\ s = "fail" => pc[w] = "none"
       /\ pc[w] = "publish" =>
            /\ s = "table" => table \in {NoLink, l}
            /\ s \in {"unindexSrc", "unindexDst", "build"} => table = NoLink

MoveTo(w, s, l) ==
  /\ WorkerMove(w, s, l)
  /\ step' = [step EXCEPT ![w] = s] /\ doing' = [doing EXCEPT ![w] = l]

(* Meanwhile the table stays, and its entry in the indexes.                *)
WorkerFrame(w) ==
  /\ UNCHANGED <<vars, table, built, iteration, src, dst, missed, dialed, msg, todo>>
  /\ failed' \in [Link -> BOOLEAN]
  /\ found' \in [Conn -> Conn \cup {NoConn}]
  /\ \A c \in Conn : found'[c] \in {found[c], connected[DstId], NoConn}
  /\ index' \in [Conn -> SUBSET Link]
  /\ \A c \in Conn : /\ index'[c] \subseteq index[c]
                     /\ table \in index[c] => table \in index'[c]
  /\ step[w] \notin {"indexSrc", "indexDst"}
  /\ w \in Teardown => step[w] # "table" \/ doing[w] # table

LEMMA WorkerStep ==
  ASSUME LinkInv, NEW w \in Worker, NEW s, NEW l, MoveTo(w, s, l), WorkerFrame(w)
  PROVE  LinkInv'
<1> USE DEF LinkInv
<1>1. step \in [Worker -> Place] /\ doing \in [Worker -> Link \cup {NoLink}]
  BY Zenon DEF LinkTypeOK, Place, Removal, Adding
<1>2. /\ step'[w] = s /\ doing'[w] = l
      /\ \A v \in Worker \ {w} : step'[v] = step[v] /\ doing'[v] = doing[v]
  BY Zenon, <1>1 DEF MoveTo
<1>3. /\ UNCHANGED <<table, built, src, dst, missed, todo>>
      /\ UNCHANGED <<flag, target, pc>> /\ IInv' /\ Object' = Object
  BY Zenon, StepIInv DEF WorkerFrame, vars, Object
<1>4. LinkTypeOK'
  <2>1. s \in Place /\ l \in Link \cup {NoLink}
    BY LinkAssumption DEF MoveTo, WorkerMove, Place, Object, Link, LinkTypeOK
  <2>2. step' \in [Worker -> Place] /\ doing' \in [Worker -> Link \cup {NoLink}]
    BY Zenon, <1>1, <2>1 DEF MoveTo
  <2> QED
    BY Zenon, <2>2 DEF LinkTypeOK, WorkerFrame, Place, Removal, Adding
<1>5. ObjectInv'
  <2>1. \A d \in Conn : connected[DstId] = d => RouterOf[d] = DstId
    BY Zenon, LinkAssumption DEF IInv, RegistrationAgrees
  <2>2. \A c \in Conn : found'[c] # NoConn => RouterOf[found'[c]] = DstId
    BY Zenon, <2>1 DEF ObjectInv, WorkerFrame
  <2>3. \A v \in Worker :
          step'[v] \in Removal \cup {"indexSrc", "indexDst"} => doing'[v] \in Object
    BY Zenon, <1>2 DEF ObjectInv, WorkerMove, MoveTo
  <2>4. \A c \in Conn : index'[c] \subseteq Object
    BY Zenon DEF ObjectInv, WorkerFrame
  <2> QED
    BY Zenon, <1>3, <2>2, <2>3, <2>4 DEF ObjectInv
<1>6. WhereInv'
  BY <1>2, <1>3, WorkerFacts DEF WhereInv, MoveTo, WorkerMove, Idle
<1>7. ReplaceInv'
  BY <1>2, <1>3, WorkerFacts DEF ReplaceInv, MoveTo, WorkerMove
<1>8. IndexInv'
  <2> SUFFICES ASSUME table # NoLink PROVE IndexInv'
    BY Zenon, <1>3 DEF IndexInv
  <2>1. src[table] \in Conn /\ Report(src[table]) \in Worker
    BY Zenon, WorkerFacts DEF ObjectInv
  <2>2. \A t \in Teardown : WillRemove(t, table) => WillRemove(t, table)'
    BY Zenon, <1>2, <1>3, WorkerFacts DEF WillRemove, Victim, WorkerFrame
  <2>3. \A where \in {{"indexSrc"}, {"indexSrc", "indexDst"}} :
          Indexing(table, where) => Indexing(table, where)'
    BY Zenon, <1>2, <1>3, <2>1 DEF Indexing, WorkerFrame
  <2>4. \A c \in Conn : table \in index[c] => table \in index'[c]
    BY Zenon DEF WorkerFrame
  <2> QED
    BY Zenon, <1>3, <2>1, <2>2, <2>3, <2>4 DEF IndexInv
<1>9. DestInv'
  BY Zenon, <1>3 DEF DestInv, HasReadTable
<1> QED
  BY Zenon, <1>3, <1>4, <1>5, <1>6, <1>7, <1>8, <1>9

(* A fault, a removal by an operator or by the cleanup, or a refresh that  *)
(* does not list the link begins.                                          *)
LEMMA BeginRemoval ==
  ASSUME LinkInv, UNCHANGED vars,
         \/ \E w \in Remover :
              \/ \E i \in 0..dialed : Fault(w, i)
              \/ RemoveLink(w) \/ Clean(w) \/ ScanForDeadLinks(w)
         \/ \E c \in Conn : FullRefresh(c)
  PROVE  LinkInv'
<1>1. /\ failed \in [Link -> BOOLEAN] /\ found \in [Conn -> Conn \cup {NoConn}]
      /\ index \in [Conn -> SUBSET Link]
  BY Zenon DEF LinkInv, LinkTypeOK
<1>2. PICK w \in Worker, s \in {"fail", "table"} :
        /\ table # NoLink /\ Start(w, table, s)
        /\ UNCHANGED <<table, objects, dst, missed, index, dialed, msg, found, todo>>
        /\ w \notin Teardown
        /\ \A c \in Conn : w = Report(c) => s = "fail" /\ pc[w] = "none"
  <2>1. CASE \E w \in Remover :
              \/ \E i \in 0..dialed : Fault(w, i)
              \/ RemoveLink(w) \/ Clean(w) \/ ScanForDeadLinks(w)
    BY <2>1, WorkerFacts DEF Fault, RemoveLink, Clean, ScanForDeadLinks
  <2>2. CASE \E c \in Conn : FullRefresh(c)
    BY Zenon, <2>2, WorkerFacts, ThreadsDiffer DEF FullRefresh
  <2> QED
    BY Zenon, <2>1, <2>2
<1>3. WorkerMove(w, s, table)
  <2>1. table \in Object
    BY Zenon, <1>2 DEF LinkInv, ObjectInv
  <2>2. s \in Removal /\ s \notin Adding /\ s \notin {"idle", "unindexSrc", "unindexDst", "build"}
    BY Zenon DEF Removal, Adding
  <2> QED
    BY Zenon, <1>2, <2>1, <2>2 DEF WorkerMove
<1>4. MoveTo(w, s, table)
  BY Zenon, <1>2, <1>3 DEF MoveTo, Start, StepTo
<1>5. WorkerFrame(w)
  BY Zenon, <1>1, <1>2 DEF WorkerFrame, Start, Idle, objects
<1> QED
  BY Zenon, <1>4, <1>5, WorkerStep

(* After LinkManager.Remove a report builds the new link, and every other  *)
(* worker is done.                                                         *)
LEMMA RemovedMove ==
  ASSUME LinkInv, NEW w \in Worker, Removed(w),
         step[w] \in Removal, doing[w] \in Object,
         (\E c \in Conn : w = Report(c) /\ pc[w] = "publish") => table = NoLink
  PROVE  \E s, l : MoveTo(w, s, l)
<1>1. doing \in [Worker -> Link \cup {NoLink}]
  BY Zenon DEF LinkInv, LinkTypeOK
<1>2. CASE \E c \in Conn : w = Report(c) /\ pc[w] = "publish"
  <2>1. w \in Thread /\ w[1] = "report" /\ w \notin Teardown /\ w \notin Remover
    BY Zenon, <1>2, WorkerFacts
  <2>2. step' = [step EXCEPT ![w] = "build"] /\ doing' = [doing EXCEPT ![w] = doing[w]]
    BY Zenon, <1>1, <1>2, <2>1 DEF Removed, StepTo
  <2>3. WorkerMove(w, "build", doing[w])
    BY Zenon, <1>2, <2>1 DEF WorkerMove, Removal, Adding
  <2> QED
    BY Zenon, <2>2, <2>3 DEF MoveTo
<1>3. CASE ~\E c \in Conn : w = Report(c) /\ pc[w] = "publish"
  <2>1. step' = [step EXCEPT ![w] = "idle"] /\ doing' = [doing EXCEPT ![w] = NoLink]
    BY Zenon, <1>3, WorkerFacts DEF Removed, Return, StepTo
  <2>2. WorkerMove(w, "idle", NoLink)
    BY Zenon DEF WorkerMove, Removal, Adding
  <2> QED
    BY Zenon, <2>1, <2>2 DEF MoveTo
<1> QED
  BY Zenon, <1>2, <1>3

(* The steps of LinkManager.Remove.                                        *)
LEMMA RemoveStepInv ==
  ASSUME LinkInv, UNCHANGED vars, NEW w \in Worker, RemoveStep(w) PROVE LinkInv'
<1> USE DEF LinkInv
<1>1. /\ step \in [Worker -> Place] /\ doing \in [Worker -> Link \cup {NoLink}]
      /\ failed \in [Link -> BOOLEAN] /\ found \in [Conn -> Conn \cup {NoConn}]
      /\ index \in [Conn -> SUBSET Link]
  BY Zenon DEF LinkTypeOK, Place, Removal, Adding
<1>2. step[w] \in Removal /\ doing[w] \in Object /\ doing[w] \in Link
  <2>1. step[w] \in Removal
    BY Zenon DEF RemoveStep, MarkFailed, RemoveFromTable, RemoveFromSrc, RemoveFromDst, Removal
  <2> QED
    BY <2>1, LinkAssumption DEF ObjectInv, LinkTypeOK, Object, Link
<1>3. CASE MarkFailed(w)
  <2>1. /\ step[w] = "fail" /\ step' = [step EXCEPT ![w] = "table"]
        /\ doing' = [doing EXCEPT ![w] = doing[w]]
        /\ failed' \in [Link -> BOOLEAN]
        /\ UNCHANGED <<table, built, iteration, src, dst, missed, dialed, msg, todo, found, index>>
    BY Zenon, <1>1, <1>2, <1>3 DEF MarkFailed, StepTo
  <2>2. WorkerMove(w, "table", doing[w])
    BY <1>2, <2>1 DEF WorkerMove, WhereInv, Removal, Adding
  <2>3. MoveTo(w, "table", doing[w]) /\ WorkerFrame(w)
    BY Zenon, <1>1, <2>1, <2>2 DEF MoveTo, WorkerFrame
  <2> QED
    BY Zenon, <2>3, WorkerStep
<1>4. CASE RemoveFromTable(w)
  <2>1. /\ step[w] = "table"
        /\ UNCHANGED <<built, iteration, src, dst, missed, failed, index, dialed, msg, found, todo>>
    BY Zenon, <1>4 DEF RemoveFromTable, objects
  <2>2. CASE table # NoLink /\ iteration[table] = iteration[doing[w]]
    <3>1. /\ table' = NoLink /\ UNCHANGED doing
          /\ step' = [step EXCEPT ![w] = "unindexSrc"]
      BY Zenon, <1>4, <2>2 DEF RemoveFromTable, StepTo
    <3>2. /\ IInv' /\ UNCHANGED <<pc, Object>>
          /\ step'[w] = "unindexSrc" /\ \A v \in Worker \ {w} : step'[v] = step[v]
      BY Zenon, <1>1, <2>1, <3>1, StepIInv DEF vars, Object
    <3>3. LinkTypeOK'
      BY Zenon, <1>1, <2>1, <3>1 DEF LinkTypeOK
    <3>4. ObjectInv'
      BY Zenon, <1>2, <2>1, <3>1, <3>2 DEF ObjectInv
    <3>5. WhereInv'
      BY <2>1, <3>2, WorkerFacts DEF WhereInv, Idle, Removal, Adding
    <3>6. ReplaceInv'
      <4>1. NoLink \notin Object
        BY LinkAssumption DEF Object, Link, LinkTypeOK
      <4>2. \A v \in Worker : step'[v] \in {"unindexSrc", "unindexDst"} => doing[v] \in Object
        BY Zenon, <1>2, <3>2 DEF ObjectInv, Removal
      <4> QED
        BY Zenon, <3>1, <4>1, <4>2 DEF ReplaceInv
    <3>7. IndexInv' /\ DestInv'
      BY Zenon, <3>1 DEF IndexInv, DestInv
    <3> QED
      BY Zenon, <3>2, <3>3, <3>4, <3>5, <3>6, <3>7
  <2>3. CASE ~(table # NoLink /\ iteration[table] = iteration[doing[w]])
    <3>1. UNCHANGED table /\ Removed(w) /\ doing[w] # table
      <4>1. doing[w] # NoLink
        BY Zenon, <1>2, LinkAssumption
      <4> QED
        BY Zenon, <1>4, <2>3, <4>1 DEF RemoveFromTable
    <3>2. (\E c \in Conn : w = Report(c) /\ pc[w] = "publish") => table = NoLink
      BY Zenon, <2>1, <3>1 DEF ReplaceInv
    <3>3. PICK s, l : MoveTo(w, s, l)
      BY Zenon, <1>2, <3>1, <3>2, RemovedMove
    <3>4. WorkerFrame(w)
      BY Zenon, <1>1, <2>1, <3>1 DEF WorkerFrame
    <3> QED
      BY Zenon, <3>3, <3>4, WorkerStep
  <2> QED
    BY Zenon, <2>2, <2>3
<1>5. CASE RemoveFromSrc(w) \/ RemoveFromDst(w)
  <2>1. /\ step[w] \in {"unindexSrc", "unindexDst"} /\ doing[w] # table
        /\ UNCHANGED <<table, built, iteration, src, dst, missed, failed, dialed, msg, found, todo>>
    BY Zenon, <1>5 DEF RemoveFromSrc, RemoveFromDst, objects, ReplaceInv
  <2>2. \/ UNCHANGED index
        \/ \E c : index' = [index EXCEPT ![c] = @ \ {doing[w]}]
    BY Zenon, <1>5 DEF RemoveFromSrc, RemoveFromDst, Unindex
  <2>3. /\ index' \in [Conn -> SUBSET Link]
        /\ \A c \in Conn : /\ index'[c] \subseteq index[c]
                           /\ table \in index[c] => table \in index'[c]
    BY <1>1, <2>1, <2>2
  <2>4. (\E c \in Conn : w = Report(c) /\ pc[w] = "publish") => table = NoLink
    BY Zenon, <2>1 DEF ReplaceInv
  <2>5. PICK s, l : MoveTo(w, s, l)
    <3>1. CASE RemoveFromSrc(w)
      <4>1. /\ step' = [step EXCEPT ![w] = "unindexDst"]
            /\ doing' = [doing EXCEPT ![w] = doing[w]] /\ step[w] = "unindexSrc"
        BY Zenon, <1>1, <3>1 DEF RemoveFromSrc, StepTo
      <4>2. WorkerMove(w, "unindexDst", doing[w])
        BY Zenon, <1>2, <2>1, <2>4, <4>1 DEF WorkerMove, WhereInv, Removal, Adding, Idle
      <4> QED
        BY Zenon, <4>1, <4>2 DEF MoveTo
    <3>2. CASE RemoveFromDst(w)
      BY <1>2, <2>4, <3>2, RemovedMove DEF RemoveFromDst
    <3> QED
      BY Zenon, <1>5, <3>1, <3>2
  <2>6. WorkerFrame(w)
    BY Zenon, <1>1, <2>1, <2>3 DEF WorkerFrame
  <2> QED
    BY Zenon, <2>5, <2>6, WorkerStep
<1> QED
  BY Zenon, <1>3, <1>4, <1>5 DEF RemoveStep

(* A teardown takes up the next of its links.                              *)
LEMMA TeardownRemoveInv ==
  ASSUME LinkInv, UNCHANGED vars, NEW t \in Teardown, TeardownRemove(t) PROVE LinkInv'
<1> USE DEF LinkInv
<1>1. /\ step \in [Worker -> Place] /\ doing \in [Worker -> Link \cup {NoLink}]
      /\ todo \in [Thread -> SUBSET Link] /\ t \in Worker /\ t \in Thread
  BY Zenon, WorkerFacts DEF LinkTypeOK, Place, Removal, Adding
<1>2. PICK l \in todo[t] : /\ step[t] = "idle" /\ step' = [step EXCEPT ![t] = "table"]
                           /\ doing' = [doing EXCEPT ![t] = l]
                           /\ todo' = [todo EXCEPT ![t] = @ \ {l}]
  BY Zenon DEF TeardownRemove, Start, StepTo, Idle
<1>3. /\ UNCHANGED <<table, built, iteration, src, dst, missed, failed, index, dialed, msg, found>>
      /\ UNCHANGED <<flag, pc, target, Object>> /\ IInv'
  BY Zenon, StepIInv DEF TeardownRemove, objects, vars, Object
<1>4. pc[t] = "unlink" /\ l \in Object /\ l \in Link
  BY <1>1, <1>2 DEF WhereInv, ObjectInv
<1>5. /\ step'[t] = "table" /\ doing'[t] = l
      /\ \A v \in Worker \ {t} : step'[v] = step[v] /\ doing'[v] = doing[v]
      /\ \A u \in Thread : todo'[u] = IF u = t THEN todo[u] \ {l} ELSE todo[u]
      /\ \A c \in Conn : Report(c) \in Worker \ {t}
  BY Zenon, <1>1, <1>2, WorkerFacts
<1>6. LinkTypeOK'
  BY Zenon, <1>1, <1>2, <1>3, <1>4 DEF LinkTypeOK, Place, Removal, Adding
<1>7. ObjectInv'
  <2>1. /\ \A u \in Thread : todo'[u] \subseteq Object
        /\ \A w \in Worker : step'[w] \in Removal \cup {"indexSrc", "indexDst"} => doing'[w] \in Object
    BY Zenon, <1>4, <1>5 DEF ObjectInv
  <2> QED
    BY <1>3, <2>1 DEF ObjectInv
<1>8. WhereInv'
  <2>1. \A u \in Teardown :
          /\ step'[u] # "idle" => pc[u] = "unlink" /\ step'[u] \in Removal \ {"fail"}
          /\ todo'[u] # {} => pc[u] = "unlink"
    BY Zenon, <1>4, <1>5, WorkerFacts DEF WhereInv, Removal
  <2>2. \A v \in Remover : step'[v] = step[v]
    BY Zenon, <1>5, WorkerFacts
  <2> QED
    BY Zenon, <1>3, <1>5, <2>1, <2>2 DEF WhereInv, Idle
<1>9. ReplaceInv'
  BY Zenon, <1>3, <1>5 DEF ReplaceInv
<1>10. IndexInv'
  <2> SUFFICES ASSUME table # NoLink PROVE IndexInv'
    BY Zenon, <1>3 DEF IndexInv
  <2>1. src[table] \in Conn
    BY Zenon DEF ObjectInv
  <2>2. ASSUME NEW u \in Teardown, WillRemove(u, table)  PROVE WillRemove(u, table)'
    <3>1. pc'[u] = "unlink" /\ Victim(u)' = src'[table'] /\ table' = table
      BY Zenon, <1>3, <2>2 DEF WillRemove, Victim
    <3>2. table \in todo'[u] \/ (step'[u] = "table" /\ doing'[u] = table)
      BY <1>2, <1>5, <2>2, WorkerFacts DEF WillRemove
    <3> QED
      BY Zenon, <3>1, <3>2 DEF WillRemove
  <2>3. \A where : Indexing(table, where)' <=> Indexing(table, where)
    BY Zenon, <1>3, <1>5, <2>1 DEF Indexing
  <2> QED
    BY Zenon, <1>3, <2>2, <2>3 DEF IndexInv
<1>11. DestInv'
  BY Zenon, <1>3 DEF DestInv, HasReadTable
<1> QED
  BY Zenon, <1>3, <1>6, <1>7, <1>8, <1>9, <1>10, <1>11

(* RouterReportedLink up to newLink.                                       *)
LEMMA LookupInv ==
  ASSUME LinkInv, UNCHANGED vars, NEW c \in Conn, LookupDst(c) \/ CheckExisting(c)
  PROVE  LinkInv'
<1> USE DEF LinkInv
<1> DEFINE w == Report(c)
<1>1. /\ step \in [Worker -> Place] /\ doing \in [Worker -> Link \cup {NoLink}]
      /\ failed \in [Link -> BOOLEAN] /\ found \in [Conn -> Conn \cup {NoConn}] /\ index \in [Conn -> SUBSET Link]
      /\ connected \in [Router -> Conn \cup {NoConn}] /\ DstId \in Router
      /\ w \in Worker /\ w \notin Teardown /\ w \notin Remover
  BY WorkerFacts, LinkAssumption DEF LinkTypeOK, IInv, TypeOK, Place, Removal, Adding
<1>2. /\ UNCHANGED <<table, built, iteration, src, dst, missed, dialed, msg, todo, failed, index>>
      /\ found' \in [Conn -> Conn \cup {NoConn}]
      /\ \A d \in Conn : found'[d] \in {found[d], connected[DstId]}
      /\ step[w] \in {"idle", "existing"} /\ pc[w] = "publish"
  BY <1>1 DEF LookupDst, CheckExisting, objects, Idle, WhereInv, Adding
<1>3. PICK s, l : MoveTo(w, s, l)
  <2>1. CASE UNCHANGED doing /\ \/ StepTo(w, "existing")
                                \/ StepTo(w, "end")
                                \/ StepTo(w, "build") /\ table = NoLink
    <3>1. PICK s \in {"existing", "end", "build"} :
            step' = [step EXCEPT ![w] = s] /\ (s = "build" => table = NoLink)
      BY Zenon, <2>1 DEF StepTo
    <3>2. WorkerMove(w, s, doing[w]) /\ doing' = [doing EXCEPT ![w] = doing[w]]
      BY Zenon, <1>1, <1>2, <2>1, <3>1 DEF WorkerMove, Removal, Adding
    <3> QED
      BY Zenon, <3>1, <3>2 DEF MoveTo
  <2>2. CASE table # NoLink /\ StepTo(w, "table") /\ doing' = [doing EXCEPT ![w] = table]
    <3>1. WorkerMove(w, "table", table)
      BY Zenon, <1>1, <1>2, <2>2 DEF WorkerMove, Removal, Adding, ObjectInv
    <3> QED
      BY Zenon, <2>2, <3>1 DEF StepTo, MoveTo
  <2> QED
    BY Zenon, <2>1, <2>2 DEF LookupDst, CheckExisting
<1>4. WorkerFrame(w)
  BY Zenon, <1>1, <1>2 DEF WorkerFrame
<1> QED
  BY Zenon, <1>1, <1>3, <1>4, WorkerStep

(* A report that is adding a link is where it may be.                      *)
LEMMA AddingWhere ==
  ASSUME WhereInv, NEW c \in Conn, pc[Report(c)] = "publish", step'[Report(c)] \in Adding,
         UNCHANGED <<pc, todo>>,
         \A v \in Worker \ {Report(c)} : step'[v] = step[v]
  PROVE  WhereInv'
<1>1. \A v \in Remover : step'[v] \in {"idle"} \cup Removal
  BY WorkerFacts DEF WhereInv
<1>2. \A t \in Teardown :
        /\ step'[t] # "idle" => pc'[t] = "unlink" /\ step'[t] \in Removal \ {"fail"}
        /\ todo'[t] # {} => pc'[t] = "unlink"
  BY WorkerFacts DEF WhereInv
<1>3. ASSUME NEW d \in Conn
      PROVE  /\ pc'[Report(d)] # "none" => RouterOf[d] = SrcId
             /\ pc'[Report(d)] \in {"rlock", "rcheck"} => Idle(Report(d))'
             /\ step'[Report(d)] \in Adding => pc'[Report(d)] = "publish"
             /\ step'[Report(d)] = "fail" => pc'[Report(d)] = "none"
  <2>1. CASE Report(d) = Report(c)
    BY <2>1 DEF WhereInv, Adding
  <2>2. CASE Report(d) # Report(c)
    BY Zenon, <2>2, WorkerFacts DEF WhereInv, Idle
  <2> QED
    BY Zenon, <2>1, <2>2
<1> QED
  BY Zenon, <1>1, <1>2, <1>3 DEF WhereInv

(* newLink and linkTable.add.  The report has the stripe of the source and *)
(* found the table empty, or has emptied it; nobody else adds to it.       *)
LEMMA AddToTableInv ==
  ASSUME LinkInv, UNCHANGED vars, NEW c \in Conn, AddToTable(c)
  PROVE  LinkInv' /\ table = NoLink
<1> USE DEF LinkInv
<1> DEFINE w == Report(c)
           new == built + 1
<1>1. /\ step \in [Worker -> Place] /\ doing \in [Worker -> Link \cup {NoLink}]
      /\ iteration \in [Link -> 0..MaxIteration] /\ msg \in [Conn -> 0..MaxIteration]
      /\ src \in [Link -> Conn \cup {NoConn}] /\ dst \in [Link -> Conn \cup {NoConn}]
      /\ found \in [Conn -> Conn \cup {NoConn}]
      /\ w \in Worker /\ w \notin Teardown /\ w \notin Remover
  BY WorkerFacts DEF LinkTypeOK, Place, Removal, Adding
<1>2. /\ step[w] = "build" /\ step' = [step EXCEPT ![w] = "indexSrc"]
      /\ doing' = [doing EXCEPT ![w] = new] /\ table' = new
      /\ built < MaxLink /\ built' = new
      /\ iteration' = [iteration EXCEPT ![new] = msg[c]]
      /\ src' = [src EXCEPT ![new] = c] /\ dst' = [dst EXCEPT ![new] = found[c]]
      /\ missed' = IF \E d \in Conn : HasReadTable(d) /\ d # found[c]
                   THEN missed \cup {new} ELSE missed
      /\ UNCHANGED <<failed, index, dialed, msg, found, todo>>
  BY Zenon DEF AddToTable, StepTo
<1>3. /\ new \in Link /\ new \notin Object /\ Object' = Object \cup {new}
      /\ built' \in 0..MaxLink /\ NoLink # new /\ Object \subseteq Link
  BY <1>2, LinkAssumption DEF LinkTypeOK, Object, Link
<1>4. /\ pc[w] = "publish" /\ table = NoLink /\ RouterOf[c] = SrcId /\ flag[c]
      /\ step[w] \notin Removal
  BY Zenon, <1>2 DEF WhereInv, Adding, Removal, ReplaceInv, IInv, PublishOnlyWhileCurrent, IsCurrent
<1>5. UNCHANGED <<flag, pc, target>> /\ IInv'
  BY Zenon, StepIInv DEF vars
<1> HIDE DEF new
<1>6. /\ step'[w] = "indexSrc" /\ doing'[w] = new /\ src'[new] = c
      /\ \A v \in Worker \ {w} : step'[v] = step[v] /\ doing'[v] = doing[v]
      /\ \A l \in Object : src'[l] = src[l]
      /\ \A l \in Link : dst'[l] \in {dst[l], found[c]}
  BY Zenon, <1>1, <1>2, <1>3
<1>7. LinkTypeOK'
  BY Zenon, <1>1, <1>2, <1>3 DEF LinkTypeOK, Place, Removal, Adding
<1>8. ObjectInv'
  <2>1. \A v \in Worker :
          step'[v] \in Removal \cup {"indexSrc", "indexDst"} => doing'[v] \in Object'
    BY Zenon, <1>3, <1>6 DEF ObjectInv
  <2>2. \A l \in Object' : src'[l] \in Conn /\ RouterOf[src'[l]] = SrcId
    BY SMTT(20), <1>3, <1>4, <1>6 DEF ObjectInv
  <2>3. \A l \in Link : dst'[l] # NoConn => RouterOf[dst'[l]] = DstId
    BY SMTT(20), <1>6 DEF ObjectInv
  <2>4. /\ table' \in Object' /\ Object \subseteq Object'
        /\ UNCHANGED <<found, index, todo>>
    BY Zenon, <1>2, <1>3
  <2> QED
    BY Zenon, <2>1, <2>2, <2>3, <2>4 DEF ObjectInv
<1>9. WhereInv'
  BY <1>2, <1>4, <1>5, <1>6, AddingWhere DEF Adding
<1>10. ReplaceInv'
  <2>1. \A v \in Worker : step'[v] \in {"unindexSrc", "unindexDst"} => doing'[v] # new
    BY SMTT(30), <1>3, <1>6 DEF ObjectInv, Removal
  <2>2. ASSUME NEW d \in Conn, pc[Report(d)] = "publish"  PROVE d = c
    <3>1. RouterOf[d] = SrcId /\ pc[Report(d)] \in Critical /\ pc[w] \in Critical
      BY Zenon, <1>4, <2>2 DEF WhereInv, Critical
    <3>2. Report(d) = w
      BY <1>4, <3>1, ThreadFacts, Exclusive
    <3> QED
      BY Zenon, <3>2, ThreadsDiffer
  <2> QED
    BY ZenonT(30), <1>2, <1>5, <1>6, <2>1, <2>2 DEF ReplaceInv
<1>11. IndexInv'
  <2>1. Indexing(table, {"indexSrc"})' /\ Indexing(table, {"indexSrc", "indexDst"})'
    BY Zenon, <1>2, <1>6 DEF Indexing
  <2> QED
    BY Zenon, <1>2, <1>4, <1>5, <1>6, <2>1 DEF IndexInv
<1>12. DestInv'
  <2>1. dst'[new] = found[c] /\ \A d \in Conn : HasReadTable(d)' <=> HasReadTable(d)
    BY Zenon, <1>1, <1>2, <1>3, <1>5 DEF HasReadTable
  <2> QED
    BY Zenon, <1>2, <2>1 DEF DestInv
<1> QED
  BY Zenon, <1>4, <1>5, <1>7, <1>8, <1>9, <1>10, <1>11, <1>12

(* The new link enters the indexes.                                        *)
LEMMA AddToIndexInv ==
  ASSUME LinkInv, UNCHANGED vars, NEW c \in Conn, AddToSrc(c) \/ AddToDst(c)
  PROVE  LinkInv'
<1> USE DEF LinkInv
<1> DEFINE w == Report(c)
           l == doing[w]
<1>1. /\ step \in [Worker -> Place]
      /\ index \in [Conn -> SUBSET Link] /\ dst \in [Link -> Conn \cup {NoConn}]
      /\ w \in Worker /\ w \notin Teardown /\ w \notin Remover
  BY Zenon, WorkerFacts DEF LinkTypeOK, Place, Removal, Adding
<1>2. /\ UNCHANGED <<table, built, iteration, src, dst, missed, failed, dialed, msg, found, todo, doing>>
      /\ UNCHANGED <<flag, pc, target, Object>> /\ IInv'
  BY Zenon, StepIInv DEF AddToSrc, AddToDst, objects, vars, Object
<1>3. PICK s \in {"indexDst", "end"} :
        /\ step' = [step EXCEPT ![w] = s]
        /\ s = "indexDst" => step[w] = "indexSrc"
        /\ s = "end" => step[w] = "indexDst"
  BY Zenon DEF AddToSrc, AddToDst, StepTo
<1>4. l \in Object /\ l \in Link /\ pc[w] = "publish"
  <2>1. l \in Object
    BY <1>1, <1>3 DEF ObjectInv
  <2>2. Object \subseteq Link
    BY LinkAssumption DEF Object, Link, LinkTypeOK
  <2>3. pc[w] = "publish"
    BY Zenon, <1>3 DEF WhereInv, Adding
  <2> QED
    BY Zenon, <2>1, <2>2, <2>3
<1>5. /\ index' \in [Conn -> SUBSET Link]
      /\ \A d \in Conn : index[d] \subseteq index'[d] /\ index'[d] \subseteq index[d] \cup {l}
      /\ s = "indexDst" => l \in index'[c]
      /\ s = "end" /\ dst[l] # NoConn => l \in index'[dst[l]]
  <2>1. CASE AddToSrc(c)
    <3>1. index' = [index EXCEPT ![c] = @ \cup {l}] /\ s = "indexDst"
      BY Zenon, <1>1, <1>3, <2>1 DEF AddToSrc, StepTo
    <3> HIDE DEF l
    <3> QED
      BY Zenon, <1>1, <1>4, <3>1
  <2>2. CASE AddToDst(c)
    <3>1. /\ s = "end"
          /\ IF dst[l] # NoConn THEN index' = [index EXCEPT ![dst[l]] = @ \cup {l}]
             ELSE UNCHANGED index
      BY Zenon, <1>1, <1>3, <2>2 DEF AddToDst, StepTo
    <3>2. dst[l] \in Conn \cup {NoConn}
      BY Zenon, <1>1, <1>4
    <3> HIDE DEF l
    <3> QED
      BY <1>1, <1>4, <3>1, <3>2
  <2> QED
    BY Zenon, <2>1, <2>2
<1>6. step'[w] = s /\ \A v \in Worker \ {w} : step'[v] = step[v]
  BY Zenon, <1>1, <1>3
<1>7. LinkTypeOK'
  BY Zenon, <1>1, <1>2, <1>3, <1>5 DEF LinkTypeOK, Place, Removal, Adding
<1>8. ObjectInv'
  <2>1. \A d \in Conn : index'[d] \subseteq Object
    BY <1>4, <1>5 DEF ObjectInv
  <2>2. \A v \in Worker :
          step'[v] \in Removal \cup {"indexSrc", "indexDst"} => doing[v] \in Object
    BY Zenon, <1>4, <1>6 DEF ObjectInv
  <2> QED
    BY Zenon, <1>2, <2>1, <2>2 DEF ObjectInv
<1>9. WhereInv'
  BY <1>2, <1>4, <1>6, AddingWhere DEF Adding
<1>10. ReplaceInv'
  BY <1>2, <1>6, WorkerFacts DEF ReplaceInv
<1>11. IndexInv'
  <2> SUFFICES ASSUME table # NoLink PROVE IndexInv'
    BY Zenon, <1>2 DEF IndexInv
  <2>1. src[table] \in Conn /\ Report(src[table]) \in Worker
    BY Zenon, WorkerFacts DEF ObjectInv
  <2>2. \A t \in Teardown : WillRemove(t, table) => WillRemove(t, table)'
    BY Zenon, <1>1, <1>2, <1>6, WorkerFacts DEF WillRemove, Victim
  <2>3. Indexing(table, {"indexSrc"}) =>
          Indexing(table, {"indexSrc"})' \/ table \in index'[src[table]]
    <3>1. CASE src[table] = c
      BY Zenon, <1>2, <1>3, <1>5, <1>6, <3>1 DEF Indexing
    <3>2. CASE src[table] # c
      BY Zenon, <1>2, <1>6, <2>1, <3>2, ThreadsDiffer DEF Indexing
    <3> QED
      BY Zenon, <3>1, <3>2
  <2>4. \A d \in Conn : d = dst[table] /\ Indexing(table, {"indexSrc", "indexDst"}) =>
          Indexing(table, {"indexSrc", "indexDst"})' \/ table \in index'[d]
    <3>1. CASE src[table] = c
      BY <1>2, <1>3, <1>5, <1>6, <3>1, ConnAssumption DEF Indexing
    <3>2. CASE src[table] # c
      BY Zenon, <1>2, <1>6, <2>1, <3>2, ThreadsDiffer DEF Indexing
    <3> QED
      BY <3>1, <3>2
  <2> QED
    BY Zenon, <1>2, <1>5, <2>1, <2>2, <2>3, <2>4 DEF IndexInv
<1>12. DestInv'
  BY Zenon, <1>2 DEF DestInv, HasReadTable
<1> QED
  BY Zenon, <1>2, <1>7, <1>8, <1>9, <1>10, <1>11, <1>12

----------------------------------------------------------------------------

(* Every step of the composition is a step of RouterConnect or leaves it   *)
(* alone.                                                                  *)
LEMMA ConnPart == LinkNext => [Next]_vars
<1> SUFFICES ASSUME LinkNext PROVE [Next]_vars
  BY Zenon
<1>1. ASSUME NEW c \in Conn, ConnStep(c) PROVE Next
  BY Zenon, <1>1 DEF ConnStep, Next, ConnectStep, ReportStep
<1>2. ASSUME NEW t \in {"bind", "close"} \X Conn, TeardownStep(t) PROVE Next
  <2>1. DisconnectStep(t)
    BY Zenon, <1>2 DEF TeardownStep, DisconnectStep
  <2> QED
    BY <2>1 DEF Next
<1> QED
  BY Zenon, <1>1, <1>2 DEF LinkNext

LEMMA StepLinkInv == LinkInv /\ [LinkNext]_<<vars, lvars>> => LinkInv'
<1> SUFFICES ASSUME LinkInv, [LinkNext]_<<vars, lvars>> PROVE LinkInv'
  OBVIOUS
<1>1. IInv'
  BY Zenon, ConnPart, StepIInv DEF LinkInv
<1>2. ASSUME NEW c \in Conn, ConnStep(c) PROVE LinkInv'
  BY Zenon, <1>1, <1>2, QuietConnStep, QuietStep, MarkStep, BuildLinksStep, ReportSteps DEF ConnStep
<1>3. ASSUME NEW t \in {"bind", "close"} \X Conn, TeardownStep(t) PROVE LinkInv'
  BY <1>1, <1>3, QuietTeardownStep, QuietStep, UnmarkStep DEF TeardownStep, Teardown
<1>4. ASSUME NEW c \in Conn, AddStep(c), UNCHANGED vars PROVE LinkInv'
  BY Zenon, <1>4, LookupInv, AddToTableInv, AddToIndexInv DEF AddStep
<1>5. ASSUME NEW t \in {"bind", "close"} \X Conn, TeardownRemove(t), UNCHANGED vars PROVE LinkInv'
  BY Zenon, <1>5, TeardownRemoveInv DEF Teardown
<1>6. CASE Redial /\ UNCHANGED vars
  <2>1. /\ UNCHANGED <<table, built, iteration, src, dst, missed, failed, index, msg, found, todo>>
        /\ UNCHANGED <<doing, step, flag, pc, target>>
        /\ dialed' \in 1..MaxIteration
    BY <1>6, LinkAssumption DEF Redial, LinkInv, LinkTypeOK, objects, vars
  <2>2. LinkTypeOK'
    BY Zenon, <2>1 DEF LinkInv, LinkTypeOK
  <2>3. ObjectInv' /\ WhereInv' /\ ReplaceInv'
    BY Zenon, <2>1 DEF LinkInv, ObjectInv, WhereInv, ReplaceInv, Object, Idle
  <2>4. IndexInv' /\ DestInv'
    BY Zenon, <2>1 DEF LinkInv, IndexInv, Indexing, WillRemove, Victim, DestInv, HasReadTable
  <2> QED
    BY <1>1, <2>2, <2>3, <2>4 DEF LinkInv
<1>7. CASE UNCHANGED <<vars, lvars>>
  BY Zenon, <1>1, <1>7, QuietStep DEF QuietMove, vars, Victim
<1> QED
  BY Zenon, <1>2, <1>3, <1>4, <1>5, <1>6, <1>7, BeginRemoval, RemoveStepInv DEF LinkNext

----------------------------------------------------------------------------

(* Whatever the goroutines of connect, teardown, report and removal do,    *)
(* the table, the indexes and the places in LinkManager fit together.      *)
THEOREM LinkInvariance == LinkSpec => []LinkInv
BY InitLinkInv, StepLinkInv, PTL DEF LinkSpec

(* LinkTypeOK, whatever the table and the goroutines of LinkManager do.    *)
THEOREM LinkTypeCorrect == LinkSpec => []LinkTypeOK
<1>1. LinkInv => LinkTypeOK
  BY Zenon DEF LinkInv
<1> QED
  BY <1>1, LinkInvariance, PTL

(* The table never keeps a link of a router whose teardown (DisconnectRouter) *)
(* is over.                                                                *)
THEOREM DisconnectedHasNoLink == LinkSpec => []NoLinkFromDisconnected
<1>1. LinkInv => NoLinkFromDisconnected
  BY Zenon DEF LinkInv, IndexInv, NoLinkFromDisconnected, TearingDown, WillRemove, Teardown
<1> QED
  BY <1>1, LinkInvariance, PTL

(* Once LinkManager.Add is through with it, a link in the table is in the  *)
(* index of its source and of the connection registered for its            *)
(* destination, unless that one read the table between the lookup of       *)
(* NotifyExistingLink and linkTable.add.                                   *)
THEOREM IndexCompleteness == LinkSpec => []IndexComplete
<1>1. LinkInv => IndexComplete
  <2> SUFFICES ASSUME LinkInv, table # NoLink, Idle(Report(src[table]))
               PROVE  /\ flag[src[table]] => table \in index[src[table]]
                      /\ \A d \in Conn : connected[DstId] = d =>
                           table \in index[d] \/ table \in missed
    BY Zenon DEF IndexComplete
  <2>1. \A where \in {{"indexSrc"}, {"indexSrc", "indexDst"}} : ~Indexing(table, where)
    BY Zenon DEF Indexing, Idle
  <2>2. ASSUME NEW d \in Conn, connected[DstId] = d
        PROVE  table \in index[d] \/ table \in missed
    <3>1. flag[d] /\ HasReadTable(d)
      BY Zenon, <2>2, LinkAssumption DEF HasReadTable, LinkInv, IInv, RegistrationAgrees
    <3> QED
      BY Zenon, <2>1, <3>1 DEF LinkInv, IndexInv, DestInv
  <2> QED
    BY Zenon, <2>1, <2>2 DEF LinkInv, IndexInv
<1> QED
  BY <1>1, LinkInvariance, PTL

(* linkTable.add never overwrites an entry (RouterReportedLink).           *)
THEOREM NoOverwrite == LinkSpec => AddNeverOverwrites
<1>1. LinkInv /\ [LinkNext]_<<vars, lvars>> => [built' > built => table = NoLink]_<<vars, lvars>>
  <2> SUFFICES ASSUME LinkInv, LinkNext, built' > built PROVE table = NoLink
    BY Zenon
  <2>1. built \in Nat
    BY LinkAssumption DEF LinkInv, LinkTypeOK
  <2>2. built' # built
    BY <2>1
  <2>3. PICK c \in Conn : AddStep(c) /\ UNCHANGED vars
    <3>1. ASSUME NEW c \in Conn, ConnStep(c) PROVE FALSE
      BY Zenon, <2>2, <3>1 DEF ConnStep, lvars, BuildRouterLinks, ReportArrives, ReportDropped, Published, objects
    <3>2. ASSUME NEW t \in {"bind", "close"} \X Conn, TeardownStep(t) \/ TeardownRemove(t) PROVE FALSE
      BY Zenon, <2>2, <3>2 DEF TeardownStep, lvars, SnapshotLinks, TeardownRemove, objects
    <3>3. ASSUME NEW w \in Worker, RemoveStep(w) PROVE FALSE
      BY Zenon, <2>2, <3>3 DEF RemoveStep, MarkFailed, RemoveFromTable, RemoveFromSrc, RemoveFromDst, objects
    <3>4. ASSUME NEW w, \/ \E i \in 0..dialed : Fault(w, i)
                        \/ RemoveLink(w) \/ Clean(w) \/ ScanForDeadLinks(w) \/ FullRefresh(w)
                        \/ Redial
          PROVE  FALSE
      BY Zenon, <2>2, <3>4 DEF Fault, RemoveLink, Clean, ScanForDeadLinks, FullRefresh, Redial, objects
    <3> QED
      BY Zenon, <3>1, <3>2, <3>3, <3>4 DEF LinkNext
  <2>4. AddToTable(c)
    BY Zenon, <2>2, <2>3 DEF AddStep, LookupDst, CheckExisting, AddToSrc, AddToDst, objects
  <2> QED
    BY Zenon, <2>3, <2>4, AddToTableInv
<1> QED
  BY <1>1, LinkInvariance, PTL DEF LinkSpec, AddNeverOverwrites
=============================================================================

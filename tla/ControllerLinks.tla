-------------------------- MODULE ControllerLinks --------------------------
(***************************************************************************)
(* The controller's link table (LinkManager) under the connect protocol of *)
(* RouterConnect.  A link is reported by the router that dialed it, SrcId, *)
(* and leads to DstId.  Every report builds a Link object; the table holds *)
(* one per link id, and each connection indexes the objects it is an end   *)
(* of (Router.routerLinks), which is what path finding reads.              *)
(*                                                                         *)
(* The table, the index of a connection and the Dst of a link have locks   *)
(* of their own, so LinkManager.Add and Remove are sequences of steps.     *)
(* They are run by report and teardown goroutines, which hold the connect  *)
(* stripe of the source, and by "removers", which do not: fault handlers,  *)
(* the link removal API and the cleanup of the Run loop.                   *)
(*                                                                         *)
(* One link id is modelled: the table treats ids independently.  Its       *)
(* reports come from one router, so that RouterReportedLink's own stripe,  *)
(* which only ever nests inside the source's connect stripe, adds nothing. *)
(***************************************************************************)
EXTENDS RouterConnect, Naturals, FiniteSets

CONSTANTS
  SrcId, DstId,   \* the ends of the link
  Established,    \* connections that were accepted before the run starts
  Remover,        \* goroutines that remove links without holding a stripe
  Cleaner,        \* the one of them that is the Run loop
  MaxIteration,   \* bound on the times the router re-dials the link
  MaxLink,        \* bound on the Link objects ever built
  NoLink          \* nil

Link == 1..MaxLink

ASSUME LinkAssumption ==
  /\ Established \subseteq Conn
  /\ \A c, d \in Established : RouterOf[c] = RouterOf[d] => c = d
  /\ SrcId \in Router /\ DstId \in Router /\ SrcId # DstId
  /\ Cleaner \in Remover /\ Remover \cap Thread = {}
  /\ MaxIteration \in Nat \ {0} /\ MaxLink \in Nat \ {0}
  /\ NoLink \notin Link

VARIABLES
  table,        \* linkTable.links, for the one id
  built,        \* the Link objects built so far
  iteration,    \* Link.Iteration
  src,          \* Link.Src, the connection that reported it
  dst,          \* Link.Dst
  missed,       \* history: links added without the connection of the destination
                \* that had read the table before them
  failed,       \* state.Mode = Failed
  index,        \* Router.routerLinks of each connection
  dialed,       \* the iteration the dialing router is at
  msg,          \* the iteration a report goroutine is working on
  found,        \* the destination a report looked up
  todo,         \* the links a teardown has yet to remove
  doing,        \* the link a goroutine is removing
  step          \* where in LinkManager.Add or Remove it is

objects == <<built, iteration, src, failed>>
lvars == <<table, built, iteration, src, dst, missed, failed, index, dialed,
           msg, found, todo, doing, step>>

Worker == Thread \cup Remover

(* RouterConnect's Init, or the state its ConnectRouter leads to when the  *)
(* Established connections dial one after the other.                       *)
ConnInit ==
  /\ connected = [r \in Router |->
       IF \E c \in Established : RouterOf[c] = r
       THEN CHOOSE c \in Established : RouterOf[c] = r ELSE NoConn]
  /\ flag = [c \in Conn |-> c \in Established]
  /\ closed = [c \in Conn |-> FALSE]
  /\ young = [c \in Conn |-> FALSE]
  /\ lock = [s \in Stripe |-> NoThread]
  /\ target = [c \in Conn |-> NoConn]
  /\ pc = [t \in Thread |-> IF t[1] = "bind" /\ t[2] \in Established
                            THEN "accepted" ELSE "none"]

LinkInit ==
  /\ table = NoLink
  /\ built = 0
  /\ iteration = [l \in Link |-> 0]
  /\ src = [l \in Link |-> NoConn]
  /\ dst = [l \in Link |-> NoConn]
  /\ missed = {}
  /\ failed = [l \in Link |-> FALSE]
  /\ index = [c \in Conn |-> {}]
  /\ dialed = 1
  /\ msg = [c \in Conn |-> 0]
  /\ found = [c \in Conn |-> NoConn]
  /\ todo = [t \in Thread |-> {}]
  /\ doing = [w \in Worker |-> NoLink]
  /\ step = [w \in Worker |-> "idle"]

Idle(w) == step[w] = "idle"
StepTo(w, where) == step' = [step EXCEPT ![w] = where]
Return(w) == StepTo(w, "idle") /\ doing' = [doing EXCEPT ![w] = NoLink]
Start(w, l, where) ==
  /\ Idle(w)
  /\ doing' = [doing EXCEPT ![w] = l]
  /\ StepTo(w, where)

----------------------------------------------------------------------------
(* LinkManager.Remove, for any goroutine.  After it a report goes on to    *)
(* build the new link; everyone else is done.                              *)

Removed(w) ==
  IF w \in Thread /\ w[1] = "report" /\ pc[w] = "publish"
  THEN StepTo(w, "build") /\ UNCHANGED doing
  ELSE Return(w)

(* linkTable.remove compares iterations, not objects.                      *)
RemoveFromTable(w) ==
  /\ step[w] = "table"
  /\ IF table # NoLink /\ iteration[table] = iteration[doing[w]]
     THEN table' = NoLink /\ StepTo(w, "unindexSrc") /\ UNCHANGED doing
     ELSE UNCHANGED table /\ Removed(w)
  /\ UNCHANGED <<objects, dst, missed, index, dialed, msg, found, todo>>

(* RouterLinks.Remove compares objects.                                    *)
Unindex(c, l) == index' = [index EXCEPT ![c] = @ \ {l}]

RemoveFromSrc(w) ==
  /\ step[w] = "unindexSrc"
  /\ Unindex(src[doing[w]], doing[w])
  /\ StepTo(w, "unindexDst")
  /\ UNCHANGED <<table, objects, dst, missed, dialed, msg, found, todo, doing>>

RemoveFromDst(w) ==
  /\ step[w] = "unindexDst"
  /\ IF dst[doing[w]] # NoConn
     THEN Unindex(dst[doing[w]], doing[w])
     ELSE UNCHANGED index
  /\ Removed(w)
  /\ UNCHANGED <<table, objects, dst, missed, dialed, msg, found, todo>>

(* LinkFaulted: the link is marked before it is removed.                   *)
MarkFailed(w) ==
  /\ step[w] = "fail"
  /\ failed' = [failed EXCEPT ![doing[w]] = TRUE]
  /\ StepTo(w, "table")
  /\ UNCHANGED <<table, built, iteration, src, dst, missed, index, dialed, msg,
                 found, todo, doing>>

RemoveStep(w) ==
  \/ MarkFailed(w)
  \/ RemoveFromTable(w)
  \/ RemoveFromSrc(w)
  \/ RemoveFromDst(w)

----------------------------------------------------------------------------
(* Removals that hold no stripe.                                           *)

(* handleFaultedLink: a fault of either end, for iteration i or for any (0) *)
(* iteration, unless the link in the table is newer.                       *)
Fault(w, i) ==
  /\ table # NoLink
  /\ ~(i # 0 /\ iteration[table] # 0 /\ i < iteration[table])
  /\ Start(w, table, "fail")
  /\ UNCHANGED <<table, objects, dst, missed, index, dialed, msg, found, todo>>

(* RemoveLink, after it has sent the faults.                               *)
RemoveLink(w) ==
  /\ table # NoLink
  /\ Start(w, table, "table")
  /\ UNCHANGED <<table, objects, dst, missed, index, dialed, msg, found, todo>>

(* clean: links that have been Failed for a while.                         *)
Clean(w) ==
  /\ w = Cleaner
  /\ table # NoLink /\ failed[table]
  /\ Start(w, table, "table")
  /\ UNCHANGED <<table, objects, dst, missed, index, dialed, msg, found, todo>>

(* ScanForDeadLinks: links whose source is not connected any more.         *)
ScanForDeadLinks(w) ==
  /\ w = Cleaner
  /\ table # NoLink /\ ~flag[src[table]]
  /\ Start(w, table, "table")
  /\ UNCHANGED <<table, objects, dst, missed, index, dialed, msg, found, todo>>

(* HandleLinks with FullRefresh and a set without the link: LinkFaulted on *)
(* the receive goroutine of the source's channel.                          *)
FullRefresh(c) ==
  /\ pc[Bind(c)] = "accepted" /\ pc[Report(c)] = "none"
  /\ flag[c] /\ ~closed[c]
  /\ table # NoLink /\ RouterOf[src[table]] = RouterOf[c]
  /\ Start(Report(c), table, "fail")
  /\ UNCHANGED <<table, objects, dst, missed, index, dialed, msg, found, todo>>

(* The dialing router loses the link and dials it again.                   *)
Redial ==
  /\ dialed < MaxIteration
  /\ dialed' = dialed + 1
  /\ UNCHANGED <<table, objects, dst, missed, index, msg, found, todo, doing, step>>

----------------------------------------------------------------------------
(* Connect and teardown.                                                   *)

(* Mutant: the links get their destination, the router not its links.      *)
BuildRouterLinksDstOnly(c) ==
  /\ IF table # NoLink /\ RouterOf[c] = DstId
     THEN dst' = [dst EXCEPT ![table] = c] /\ missed' = missed \ {table}
     ELSE UNCHANGED <<dst, missed>>
  /\ UNCHANGED <<table, objects, index, dialed, msg, found, todo, doing, step>>

(* BuildRouterLinks, under the lock of the table's shard.                  *)
BuildRouterLinks(c) ==
  /\ IF table # NoLink /\ RouterOf[c] = DstId
     THEN /\ index' = [index EXCEPT ![c] = @ \cup {table}]
          /\ dst' = [dst EXCEPT ![table] = c]
          /\ missed' = missed \ {table}
     ELSE UNCHANGED <<index, dst, missed>>
  /\ UNCHANGED <<table, objects, dialed, msg, found, todo, doing, step>>

(* Mutant: the links are read after MarkDisconnected has cleared them.     *)
SnapshotLinksLate(t) ==
  /\ index' = [index EXCEPT ![Victim(t)] = {}]
  /\ UNCHANGED <<table, objects, dst, missed, dialed, msg, found, todo, doing, step>>

(* DisconnectRouter takes the links of the connection before               *)
(* MarkDisconnected clears them, and removes those it is the source of.    *)
(* Only report goroutines add such links, and they need the stripe.        *)
SnapshotLinks(t) ==
  LET c == Victim(t)
      own == {l \in index[c] : RouterOf[src[l]] = RouterOf[c]}
  IN /\ index' = [index EXCEPT ![c] = {}]
     /\ todo' = [todo EXCEPT ![t] = own]
     /\ UNCHANGED <<table, objects, dst, missed, dialed, msg, found, doing, step>>

TeardownRemove(t) ==
  /\ \E l \in todo[t] :
       /\ Start(t, l, "table")
       /\ todo' = [todo EXCEPT ![t] = @ \ {l}]
  /\ UNCHANGED <<table, objects, dst, missed, index, dialed, msg, found>>

----------------------------------------------------------------------------
(* RouterReportedLink, between the checks of NotifyExistingLink and its    *)
(* unlock.                                                                 *)

(* Mutant: the iteration is counted on before it is sent.                  *)
ReportArrivesCounted(c) ==
  /\ RouterOf[c] = SrcId /\ Idle(Report(c))
  /\ msg' = [msg EXCEPT ![c] = dialed + 1]
  /\ UNCHANGED <<table, objects, dst, missed, index, dialed, found, todo, doing, step>>

(* The links message carries the iteration the router is at.               *)
ReportArrives(c) ==
  /\ RouterOf[c] = SrcId /\ Idle(Report(c))
  /\ msg' = [msg EXCEPT ![c] = dialed]
  /\ UNCHANGED <<table, objects, dst, missed, index, dialed, found, todo, doing, step>>

ReportDropped(c) ==
  /\ msg' = [msg EXCEPT ![c] = 0]
  /\ UNCHANGED <<table, objects, dst, missed, index, dialed, found, todo, doing, step>>

(* dst := GetConnected(DestRouterId).                                      *)
LookupDst(c) ==
  /\ pc[Report(c)] = "publish" /\ Idle(Report(c))
  /\ found' = [found EXCEPT ![c] = connected[DstId]]
  /\ StepTo(Report(c), "existing")
  /\ UNCHANGED <<table, objects, dst, missed, index, dialed, msg, todo, doing>>

(* Mutant: an older link is overwritten, not removed.                      *)
CheckExistingOverwrite(c) ==
  /\ step[Report(c)] = "existing"
  /\ IF table # NoLink /\ iteration[table] >= msg[c]
     THEN StepTo(Report(c), "end") ELSE StepTo(Report(c), "build")
  /\ UNCHANGED <<table, objects, dst, missed, index, dialed, msg, found, todo, doing>>

(* A report that is not newer leaves the existing link; an older link is   *)
(* removed before the new one is built.                                    *)
CheckExisting(c) ==
  /\ step[Report(c)] = "existing"
  /\ \/ /\ table # NoLink /\ iteration[table] >= msg[c]
        /\ StepTo(Report(c), "end")
        /\ UNCHANGED doing
     \/ /\ table # NoLink /\ iteration[table] < msg[c]
        /\ StepTo(Report(c), "table")
        /\ doing' = [doing EXCEPT ![Report(c)] = table]
     \/ /\ table = NoLink
        /\ StepTo(Report(c), "build")
        /\ UNCHANGED doing
  /\ UNCHANGED <<table, objects, dst, missed, index, dialed, msg, found, todo>>

(* A connection of the destination that is past BuildRouterLinks.          *)
HasReadTable(d) ==
  RouterOf[d] = DstId /\ (flag[d] \/ pc[Bind(d)] = "mark")

(* newLink, and the entry in the table.  A destination that has read the   *)
(* table by now and was not there for LookupDst does not get the link.     *)
AddToTable(c) ==
  /\ step[Report(c)] = "build"
  /\ built < MaxLink
  /\ built' = built + 1
  /\ iteration' = [iteration EXCEPT ![built + 1] = msg[c]]
  /\ src' = [src EXCEPT ![built + 1] = c]
  /\ dst' = [dst EXCEPT ![built + 1] = found[c]]
  /\ missed' = IF \E d \in Conn : HasReadTable(d) /\ d # found[c]
               THEN missed \cup {built + 1} ELSE missed
  /\ table' = built + 1
  /\ doing' = [doing EXCEPT ![Report(c)] = built + 1]
  /\ StepTo(Report(c), "indexSrc")
  /\ UNCHANGED <<failed, index, dialed, msg, found, todo>>

(* Mutant: the link is indexed only if its destination is connected.       *)
AddToSrcWithDst(c) ==
  /\ step[Report(c)] = "indexSrc"
  /\ index' = [index EXCEPT ![c] =
       IF found[c] = NoConn THEN @ ELSE @ \cup {doing[Report(c)]}]
  /\ StepTo(Report(c), "indexDst")
  /\ UNCHANGED <<table, objects, dst, missed, dialed, msg, found, todo, doing>>

AddToSrc(c) ==
  /\ step[Report(c)] = "indexSrc"
  /\ index' = [index EXCEPT ![c] = @ \cup {doing[Report(c)]}]
  /\ StepTo(Report(c), "indexDst")
  /\ UNCHANGED <<table, objects, dst, missed, dialed, msg, found, todo, doing>>

(* The destination is read again: a connect may have changed it.           *)
AddToDst(c) ==
  /\ step[Report(c)] = "indexDst"
  /\ LET l == doing[Report(c)] IN
       IF dst[l] # NoConn
       THEN index' = [index EXCEPT ![dst[l]] = @ \cup {l}]
       ELSE UNCHANGED index
  /\ StepTo(Report(c), "end")
  /\ UNCHANGED <<table, objects, dst, missed, dialed, msg, found, todo, doing>>

Published(c) ==
  /\ step[Report(c)] = "end"
  /\ Return(Report(c))
  /\ msg' = [msg EXCEPT ![c] = 0]
  /\ found' = [found EXCEPT ![c] = NoConn]
  /\ UNCHANGED <<table, objects, dst, missed, index, dialed, todo>>

AddStep(c) ==
  \/ LookupDst(c)
  \/ CheckExisting(c)
  \/ AddToTable(c)
  \/ AddToSrc(c)
  \/ AddToDst(c)

----------------------------------------------------------------------------

(* Each connection is dialed once; RouterConnect checks reuse.             *)
ConnStep(c) ==
  \/ Dial(c) /\ pc[Bind(c)] = "none" /\ UNCHANGED lvars
  \/ (AdmitRefuse(c) \/ Admit(c) \/ Age(c) \/ ChannelClose(c)) /\ UNCHANGED lvars
  \/ (ConnectLock(c) \/ ConnectOccupied(c) \/ ConnectFree(c)) /\ UNCHANGED lvars
  \/ ConnectChannelClosed(c) /\ UNCHANGED lvars
  \/ ConnectBuildLinks(c) /\ BuildRouterLinks(c)
  \/ (ConnectMark(c) \/ ConnectRegister(c)) /\ UNCHANGED lvars
  \/ (ConnectNotify(c) \/ Displace(c)) /\ UNCHANGED lvars
  \/ ReportReceive(c) /\ ReportArrives(c)
  \/ (ReportLock(c) \/ ReportCurrent(c)) /\ UNCHANGED lvars
  \/ ReportIgnore(c) /\ ReportDropped(c)
  \/ ReportPublish(c) /\ Published(c)

TeardownStep(t) ==
  \/ DisconnectPrecheck(t) /\ UNCHANGED lvars
  \/ DisconnectLock(t) /\ UNCHANGED lvars
  \/ DisconnectRecheck(t) /\ UNCHANGED lvars
  \/ DisconnectUnmark(t) /\ SnapshotLinks(t)
  \/ DisconnectUnlink(t) /\ Idle(t) /\ todo[t] = {} /\ UNCHANGED lvars

LinkNext ==
  \/ \E c \in Conn : ConnStep(c)
  \/ \E t \in {"bind", "close"} \X Conn : TeardownStep(t)
  \/ /\ \/ \E w \in Worker : RemoveStep(w)
        \/ \E w \in Remover :
             \/ \E i \in 0..dialed : Fault(w, i)
             \/ RemoveLink(w)
             \/ Clean(w)
             \/ ScanForDeadLinks(w)
        \/ \E c \in Conn : FullRefresh(c) \/ AddStep(c)
        \/ \E t \in {"bind", "close"} \X Conn : TeardownRemove(t)
        \/ Redial
     /\ UNCHANGED vars

LinksInit == ConnInit /\ LinkInit

LinkSpec == LinksInit /\ [][LinkNext]_<<vars, lvars>>

----------------------------------------------------------------------------

LinkTypeOK ==
  /\ table \in Link \cup {NoLink}
  /\ built \in 0..MaxLink
  /\ iteration \in [Link -> 0..MaxIteration]
  /\ src \in [Link -> Conn \cup {NoConn}]
  /\ dst \in [Link -> Conn \cup {NoConn}]
  /\ missed \subseteq Link
  /\ failed \in [Link -> BOOLEAN]
  /\ index \in [Conn -> SUBSET Link]
  /\ dialed \in 1..MaxIteration
  /\ msg \in [Conn -> 0..MaxIteration]
  /\ found \in [Conn -> Conn \cup {NoConn}]
  /\ todo \in [Thread -> SUBSET Link]
  /\ doing \in [Worker -> Link \cup {NoLink}]
  /\ step \in [Worker -> {"idle", "fail", "table", "unindexSrc", "unindexDst",
                          "existing", "build", "indexSrc", "indexDst", "end"}]

(* A goroutine is between MarkDisconnected and the unlock of a teardown of *)
(* connection c.                                                           *)
TearingDown(c) ==
  \E t \in {"bind", "close"} \X Conn : pc[t] = "unlink" /\ Victim(t) = c

(* Once a router is disconnected no link in the table names it as its      *)
(* source (TestNotifyExistingLink_RaceDisconnect): publication and         *)
(* teardown do not interleave, whatever removers do meanwhile.             *)
NoLinkFromDisconnected ==
  table # NoLink => flag[src[table]] \/ TearingDown(src[table])

(* Once the report that added it is done, a link in the table is in the    *)
(* index of its source and of the connection its destination router has    *)
(* now, whenever that connected: DisconnectRouter and path finding work    *)
(* from those indexes.  Either BuildRouterLinks finds the link in the      *)
(* table or LinkManager.Add finds the connection, with one exception:      *)
(* NotifyExistingLink looks the destination up without its stripe, and one *)
(* that reads the table between that and linkTable.add is missed by both.  *)
IndexComplete ==
  table # NoLink /\ Idle(Report(src[table])) =>
    /\ flag[src[table]] => table \in index[src[table]]
    /\ \A d \in Conn : connected[DstId] = d => table \in index[d] \/ table \in missed

(* RouterReportedLink: a report never overwrites an entry of the table,    *)
(* which would leave the old link in the indexes.  The older link has been *)
(* removed when the new one is added, whatever runs in between.            *)
AddNeverOverwrites ==
  [][built' > built => table = NoLink]_<<vars, lvars>>
=============================================================================

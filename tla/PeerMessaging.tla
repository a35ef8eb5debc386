----------------------------- MODULE PeerMessaging -----------------------------
(***************************************************************************)
(* How a controller tells one router which other routers are up, and with  *)
(* which link listeners (controller/network/router_messaging.go), and what *)
(* the router makes of it (router/handler_ctrl/peer_state.go).             *)
(*                                                                         *)
(* The entries of routerUpdates for different routers do not touch each    *)
(* other, so the module follows one router, the subject, and its peers.    *)
(* The network changes under RouterMessaging's event loop: presence        *)
(* handlers run on goroutines of their own (ConnectRouter starts each with *)
(* `go`), so an event reaches the loop some time after what it reports and *)
(* in any order, and the loop may sync before it does.  Sends run on the   *)
(* router communication pool and report back with an event.  The router    *)
(* starts a goroutine for every message, so messages received one after    *)
(* the other may be applied the other way round.                           *)
(*                                                                         *)
(* Left out: database errors while looking for a deleted router, and the   *)
(* terminator validations, which share only the event loop.                *)
(***************************************************************************)
EXTENDS Naturals, Sequences, FiniteSets

CONSTANTS
    Peer,           \* the other routers
    Listeners,      \* values of a router's link listeners
    Subject,        \* the router that is told
    MaxChanges,     \* bound on the changes of the network
    MaxSends,       \* bound on the sends in the pool and their results
    MaxDispatching, \* bound on the messages the subject is applying at a time
    NoEntry

\* An element of routerUpdates.
Updates == [version : Nat, changed : (SUBSET Peer) \ {{}}, sending : BOOLEAN]

ASSUME PeerAssumption ==
    /\ IsFiniteSet(Peer) /\ Subject \notin Peer
    /\ Listeners \cap {"none", "unhealthy", "removed", "unknown"} = {}
    /\ MaxChanges \in Nat /\ MaxSends \in Nat /\ MaxDispatching \in Nat
    /\ NoEntry \notin Updates

VARIABLES
    up,             \* the subject: "down", "open", or registered but "closed"
    listens,        \* a connected peer's listeners, "none" if not connected
    exists,         \* peers in the database
    pending,        \* how many routerChangedEvents of each router are on their way
    entry,          \* routerUpdates[subject]
    sends,          \* sends queued, on the wire or with their event on its way
    dispatching,    \* messages the subject is applying, in order of arrival
    view,           \* what the subject's link registry holds of each peer
    changes,        \* how often the network has changed
    mishaps         \* history: what has gone wrong so far

vars == <<up, listens, exists, pending, entry, sends, dispatching, view,
          changes, mishaps>>

network == <<up, listens, exists, changes>>
subject == <<dispatching, view>>

\* What syncStates says of a peer, and the registry without the peer.
Actual(p) == CASE listens[p] # "none" -> listens[p]
               [] listens[p] = "none" /\ exists[p] -> "unhealthy"
               [] OTHER -> "removed"

PeerState == Listeners \cup {"unhealthy", "removed"}
Connected == {p \in Peer : listens[p] # "none"}

Init ==
    /\ up = "down"
    /\ listens = [p \in Peer |-> "none"]
    /\ exists = [p \in Peer |-> TRUE]
    /\ pending = [r \in Peer \cup {Subject} |-> 0]
    /\ entry = NoEntry
    /\ sends = {}
    /\ dispatching = <<>>
    /\ view = [p \in Peer |-> "unknown"]
    /\ changes = 0
    /\ mishaps = {}

-----------------------------------------------------------------------------
(* The network changes, and an event is on its way.                         *)

Changed(r) ==
    /\ changes < MaxChanges
    /\ changes' = changes + 1
    /\ pending' = [pending EXCEPT ![r] = @ + 1]

PeerListens(p, l) ==        \* connects, or updates its listeners mid-session
    /\ exists[p] \/ listens[p] # "none"
    /\ listens[p] # l
    /\ listens' = [listens EXCEPT ![p] = l]
    /\ Changed(p)
    /\ UNCHANGED <<up, exists, entry, sends, subject, mishaps>>

PeerDisconnects(p) ==
    /\ listens[p] # "none"
    /\ listens' = [listens EXCEPT ![p] = "none"]
    /\ Changed(p)
    /\ UNCHANGED <<up, exists, entry, sends, subject, mishaps>>

PeerDeleted(p) ==
    /\ exists[p]
    /\ exists' = [exists EXCEPT ![p] = FALSE]
    /\ Changed(p)
    /\ UNCHANGED <<up, listens, entry, sends, subject, mishaps>>

\* The subject connects, after a restart with nothing in its registry.
SubjectConnects(restarted) ==
    /\ up = "down"
    /\ up' = "open"
    /\ Changed(Subject)
    /\ IF restarted
       THEN view' = [p \in Peer |-> "unknown"] /\ dispatching' = <<>>
       ELSE UNCHANGED subject
    /\ UNCHANGED <<listens, exists, entry, sends, mishaps>>

SubjectListens ==
    /\ up = "open"
    /\ Changed(Subject)
    /\ UNCHANGED <<up, listens, exists, entry, sends, subject, mishaps>>

\* The channel closes: what is queued for it can only fail.
ChannelCloses ==
    /\ up = "open"
    /\ up' = "closed"
    /\ sends' = {[s EXCEPT !.old = TRUE] : s \in sends}
    /\ UNCHANGED <<listens, exists, changes, pending, entry, subject, mishaps>>

\* DisconnectRouter.  The event changes nothing of the subject's own entry.
SubjectDisconnects ==
    /\ up = "closed"
    /\ up' = "down"
    /\ UNCHANGED <<listens, exists, changes, pending, entry, sends, subject, mishaps>>

-----------------------------------------------------------------------------
(* The event loop.                                                          *)

\* getRouterStates and stateUpdated for each router of ps.
Updated(ps, n) ==
    IF entry = NoEntry
    THEN [version |-> n, changed |-> ps, sending |-> FALSE]
    ELSE [entry EXCEPT !.version = @ + n, !.changed = @ \cup ps]

\* One event of r comes out of the queue.
Take(r) ==
    /\ pending[r] > 0
    /\ pending' = [pending EXCEPT ![r] = @ - 1]

Orphaned == {[s EXCEPT !.cur = FALSE] : s \in sends}

\* The mutant records the peer without counting the version up.
HandlePeerChangedUnversioned(p) ==
    /\ Take(p)
    /\ IF up # "down"
       THEN entry' = Updated({p}, IF entry = NoEntry THEN 1 ELSE 0) /\ UNCHANGED mishaps
       ELSE mishaps' = mishaps \cup {"missed"} /\ UNCHANGED entry
    /\ UNCHANGED <<network, sends, subject>>

\* The mutant does not record a peer while its entry is being sent.
HandlePeerChangedUnlessSending(p) ==
    /\ Take(p)
    /\ IF up # "down"
       THEN /\ entry' = IF entry # NoEntry /\ entry.sending THEN entry
                        ELSE Updated({p}, 1)
            /\ UNCHANGED mishaps
       ELSE mishaps' = mishaps \cup {"missed"} /\ UNCHANGED entry
    /\ UNCHANGED <<network, sends, subject>>

\* A peer's event reaches the subject's entry if the subject is connected.
HandlePeerChanged(p) ==
    /\ Take(p)
    /\ IF up # "down"
       THEN entry' = Updated({p}, 1) /\ UNCHANGED mishaps
       ELSE mishaps' = mishaps \cup {"missed"} /\ UNCHANGED entry
    /\ UNCHANGED <<network, sends, subject>>

\* The subject's own event marks every connected peer.
HandleSubjectChanged ==
    /\ Take(Subject)
    /\ entry' = IF Connected = {} THEN entry
                ELSE Updated(Connected, Cardinality(Connected))
    /\ UNCHANGED <<network, sends, subject, mishaps>>

\* routerPeerChangesSendDone.  The version is compared with that of whatever
\* entry the subject has now, the flag is cleared on the one that was sent.
HandleSendDone(s) ==
    /\ s \in sends /\ s.phase # "queued"
    /\ LET forget == /\ entry # NoEntry
                     /\ s.phase = "ok" /\ s.version = entry.version
       IN /\ sends' = IF forget
                      THEN {[t EXCEPT !.cur = FALSE] : t \in sends \ {s}}
                      ELSE sends \ {s}
          /\ entry' = IF forget THEN NoEntry
                      ELSE IF s.cur THEN [entry EXCEPT !.sending = FALSE]
                      ELSE entry
          /\ mishaps' = IF forget /\ ~s.cur
                        THEN mishaps \cup {"stale result"} ELSE mishaps
    /\ UNCHANGED <<network, pending, subject>>

\* syncStates for the subject: discard, or hand the states of the changed
\* peers to the pool.  A full pool leaves the entry for the next round.
SyncDiscard ==
    /\ entry # NoEntry /\ up # "open"
    /\ entry' = NoEntry
    /\ sends' = Orphaned
    /\ mishaps' = mishaps \cup {"missed"}
    /\ UNCHANGED <<network, pending, subject>>

\* The mutant puts off the message while one of its peers is not connected.
SyncSendConnected ==
    /\ entry # NoEntry /\ up = "open" /\ ~entry.sending
    /\ entry.changed \subseteq Connected
    /\ Cardinality(sends) < MaxSends
    /\ entry' = [entry EXCEPT !.sending = TRUE]
    /\ sends' = sends \cup
         {[version |-> entry.version, cur |-> TRUE, old |-> FALSE, phase |-> "queued",
           states |-> [p \in entry.changed |-> Actual(p)]]}
    /\ UNCHANGED <<network, pending, subject, mishaps>>

SyncSend ==
    /\ entry # NoEntry /\ up = "open" /\ ~entry.sending
    /\ Cardinality(sends) < MaxSends
    /\ entry' = [entry EXCEPT !.sending = TRUE]
    /\ sends' = sends \cup
         {[version |-> entry.version, cur |-> TRUE, old |-> FALSE, phase |-> "queued",
           states |-> [p \in entry.changed |-> Actual(p)]]}
    /\ UNCHANGED <<network, pending, subject, mishaps>>

-----------------------------------------------------------------------------
(* The pool and the subject.                                                *)

\* The mutant returns without its event when the send has failed.
WireNoResult(s, written, ok) ==
    /\ s \in sends /\ s.phase = "queued"
    /\ ok => written
    /\ written => ~s.old /\ Len(dispatching) < MaxDispatching
    /\ sends' = (sends \ {s}) \cup (IF ok THEN {[s EXCEPT !.phase = "ok"]} ELSE {})
    /\ dispatching' = IF written THEN Append(dispatching, s.states) ELSE dispatching
    /\ UNCHANGED <<network, pending, entry, view, mishaps>>

\* SendAndWaitForWire: written, or failed, perhaps with the message written
\* just after the timeout.  A send for a channel that closed can only fail.
Wire(s, written, ok) ==
    /\ s \in sends /\ s.phase = "queued"
    /\ ok => written
    /\ written => ~s.old /\ Len(dispatching) < MaxDispatching
    /\ sends' = (sends \ {s}) \cup {[s EXCEPT !.phase = IF ok THEN "ok" ELSE "failed"]}
    /\ dispatching' = IF written THEN Append(dispatching, s.states) ELSE dispatching
    /\ UNCHANGED <<network, pending, entry, view, mishaps>>

\* The messages but for the i-th one.
Without(s, i) == [j \in 1 .. Len(s) - 1 |-> s[IF j < i THEN j ELSE j + 1]]

\* The mutant takes a removed peer for an update.
DispatchUpdatesOnly(i) ==
    /\ i \in DOMAIN dispatching
    /\ LET m == dispatching[i]
       IN view' = [p \in Peer |-> IF p \in DOMAIN m THEN m[p] ELSE view[p]]
    /\ dispatching' = Without(dispatching, i)
    /\ UNCHANGED <<network, pending, entry, sends, mishaps>>

\* DispatchChanges: RemoveLinkDest or UpdateLinkDest for each peer.  It is a
\* mishap to pass an earlier message about the same peer.
Dispatch(i) ==
    /\ i \in DOMAIN dispatching
    /\ LET m == dispatching[i]
       IN /\ view' = [p \in Peer |-> IF p \notin DOMAIN m THEN view[p]
                                     ELSE IF m[p] = "removed" THEN "unknown"
                                     ELSE m[p]]
          /\ mishaps' = IF \E j \in 1 .. i - 1 :
                             DOMAIN dispatching[j] \cap DOMAIN m # {}
                        THEN mishaps \cup {"overtaken"} ELSE mishaps
    /\ dispatching' = Without(dispatching, i)
    /\ UNCHANGED <<network, pending, entry, sends>>

Next ==
    \/ \E p \in Peer : \/ \E l \in Listeners : PeerListens(p, l)
                       \/ PeerDisconnects(p) \/ PeerDeleted(p)
                       \/ HandlePeerChanged(p)
    \/ \E restarted \in BOOLEAN : SubjectConnects(restarted)
    \/ SubjectListens \/ ChannelCloses \/ SubjectDisconnects
    \/ HandleSubjectChanged \/ SyncDiscard \/ SyncSend
    \/ \E s \in sends : \/ HandleSendDone(s)
                        \/ \E written, ok \in BOOLEAN : Wire(s, written, ok)
    \/ \E i \in DOMAIN dispatching : Dispatch(i)

Spec == Init /\ [][Next]_vars

\* Goroutines run, a closed channel is unregistered, the loop wakes up at
\* least with its ticker, and on a channel that stays open not every send
\* times out.
LiveSpec ==
    /\ Spec
    /\ WF_vars(SubjectDisconnects)
    /\ WF_vars(\E p \in Peer : HandlePeerChanged(p))
    /\ WF_vars(HandleSubjectChanged)
    /\ WF_vars(SyncDiscard \/ SyncSend)
    /\ WF_vars(\E s \in sends : HandleSendDone(s))
    /\ WF_vars(\E s \in sends, w \in BOOLEAN : Wire(s, w, FALSE))
    /\ SF_vars(\E s \in sends : Wire(s, TRUE, TRUE))
    /\ WF_vars(\E i \in DOMAIN dispatching : Dispatch(i))

-----------------------------------------------------------------------------

PeerTypeOK ==
    /\ up \in {"down", "open", "closed"}
    /\ listens \in [Peer -> Listeners \cup {"none"}]
    /\ exists \in [Peer -> BOOLEAN]
    /\ pending \in [Peer \cup {Subject} -> 0 .. MaxChanges]
    /\ entry \in Updates \cup {NoEntry}
    /\ \A s \in sends : /\ s.version \in Nat /\ s.cur \in BOOLEAN
                        /\ s.old \in BOOLEAN
                        /\ s.phase \in {"queued", "ok", "failed"}
                        /\ DOMAIN s.states \subseteq Peer
    /\ view \in [Peer -> Listeners \cup {"unhealthy", "unknown"}]
    /\ mishaps \subseteq {"missed", "stale result", "overtaken"}

\* The registry agrees with the network about a peer.
Known(p) ==
    \/ view[p] = Actual(p)
    \/ view[p] = "unknown" /\ listens[p] = "none"

\* Nothing is on its way to a connected subject.
Quiet ==
    /\ up = "open" /\ entry = NoEntry
    /\ \A r \in Peer \cup {Subject} : pending[r] = 0
    /\ sends = {} /\ dispatching = <<>>

\* sendInProgress is set exactly while a send of that entry is queued, on the
\* wire or has its done event on its way: "The done event must be queued on
\* every path ... without it this router's updates would never be attempted
\* again" (syncStates).
InProgressHasSend ==
    LET current == {s \in sends : s.cur}
    IN  /\ entry # NoEntry /\ entry.sending <=> current # {}
        /\ Cardinality(current) <= 1

\* When nothing is on its way any more, the subject knows every connected
\* peer with its current listeners, unless a stale send result has thrown
\* away an entry or one message has overtaken another; and if besides no
\* event fell into a time without connection, it knows of every peer.
QuietMeansKnown ==
    Quiet => \A p \in Peer :
       \/ Known(p)
       \/ mishaps \cap {"stale result", "overtaken"} # {}
       \/ "missed" \in mishaps /\ listens[p] = "none"

\* An update recorded for the subject is never forgotten by a send that did
\* not carry it: an entry only goes away when every change in it has been
\* written to the subject's channel, or with the connection, unless a stale
\* result has come between.
ForgottenOnlyWhenSent ==
    [][(entry # NoEntry /\ entry' = NoEntry /\ up = "open"
          /\ "stale result" \notin mishaps') =>
         \E s \in sends : /\ s.cur /\ s.phase = "ok"
                          /\ entry.changed \subseteq DOMAIN s.states]_vars

\* Once the network stops changing, a connected subject comes to know it,
\* through failed sends and full pools, unless one of the mishaps happened.
EventuallyKnown ==
    <>[](up = "open" /\ mishaps = {} => \A p \in Peer : Known(p))
=============================================================================

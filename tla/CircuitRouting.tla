--------------------------- MODULE CircuitRouting ---------------------------
(***************************************************************************)
(* The life of one circuit: CreateCircuit and its route attempts on the    *)
(* controller (network.go, routesender.go), the route and unroute handlers *)
(* and the forwarder of every router (router/handler_ctrl, forwarder), the *)
(* results that come back, rerouting, faults, removal and the idle scan    *)
(* that is the routers' last resort against leaked forward tables.         *)
(*                                                                         *)
(* Covered: routes answered late, out of order, negatively or never;       *)
(* unroutes that overtake routes; lost messages; link failures and closing *)
(* egresses at any time, during the creation included; a reroute that runs *)
(* beside the creation.                                                    *)
(* Left out: costs (any path of usable links may be the shortest one),     *)
(* parallel links between two routers (a link is the pair of its ends),    *)
(* the payloads themselves, and links that come back.                      *)
(***************************************************************************)
EXTENDS Naturals, Sequences, FiniteSets

CONSTANTS
    Routers,        \* the routers
    Ingress,        \* the router that asks for the circuit
    Egresses,       \* the routers with a terminator of the service
    Links,          \* the links at the start, each the set of its two ends
    Retries,        \* options.CreateCircuitRetries
    MaxFaults       \* bound on lost and late messages, link failures, closing ends,
                    \* removals and smart reroutes, together

Topology ==
    /\ Ingress \in Routers /\ Egresses \subseteq Routers
    /\ Links \subseteq {{a, b} : a, b \in Routers}
    /\ Retries \in Nat \ {0}
    /\ MaxFaults \in Nat

ASSUME TopologyAssumption == Topology

VARIABLES
    creation,   \* the CreateCircuit goroutine and its routeSender
    circuit,    \* the circuit object and whether the CircuitManager has it
    reroute,    \* the goroutine that holds circuit.Rerouting, if any
    net,        \* messages on control channels, and work queued or started in a goroutine
    table,      \* [Routers -> forwardTable], the empty function if there is none
    dests,      \* [Routers -> addresses of the circuit's ends registered there]
    links,      \* links that are up
    ctrlLinks,  \* links the controller believes usable
    faults,     \* what the environment has done so far
    disturbed   \* history: something other than the creation touched the circuit

vars == <<creation, circuit, reroute, net, table, dests, links, ctrlLinks,
          faults, disturbed>>

-----------------------------------------------------------------------------
(* Addresses, paths and route messages *)

NoTable == [a \in {} |-> a]
InAddr(k) == <<"in", k>>
EgAddr(k) == <<"eg", k>>
LinkAddr(a, b) == <<"link", {a, b}>>

\* A path keeps the ids of the attempt that made it; a reroute keeps them too.
Path(nodes, k) == [nodes |-> nodes, id |-> k]
NoPath == Path(<<>>, 0)
Nodes(p) == {p.nodes[i] : i \in DOMAIN p.nodes}

\* What shortestPath may return when these links are usable.
Routes(usable, dst) ==
    {s \in UNION {[1..n -> Routers] : n \in 1..Cardinality(Routers)} :
        /\ s[1] = Ingress /\ s[Len(s)] = dst
        /\ \A i, j \in DOMAIN s : s[i] = s[j] => i = j
        /\ \A i \in 1..(Len(s) - 1) : {s[i], s[i + 1]} \in usable}

Left(p, i) == IF i = 1 THEN InAddr(p.id) ELSE LinkAddr(p.nodes[i - 1], p.nodes[i])
Right(p, i) == IF i = Len(p.nodes) THEN EgAddr(p.id)
               ELSE LinkAddr(p.nodes[i], p.nodes[i + 1])

\* The two forwards of the route message for the i-th router, in their order.
Forwards(p, i) ==
    IF i > 1 /\ i = Len(p.nodes)
    THEN <<<<Right(p, i), Left(p, i)>>, <<Left(p, i), Right(p, i)>>>>
    ELSE <<<<Left(p, i), Right(p, i)>>, <<Right(p, i), Left(p, i)>>>>

\* Attempts are numbered from 0. A reroute uses a number no attempt has; Late is
\* the same number once nobody waits for the answer any more.
SmartRerouteAttempt == Retries
Late == Retries + 1
SmartRetries == 2   \* DefaultOptionsCreateCircuitRetries

\* The egress part is left out of a reroute, except on a path of one router.
RouteMsg(p, i, attempt) ==
    [kind |-> "route", to |-> p.nodes[i], attempt |-> attempt, id |-> p.id,
     forwards |-> Forwards(p, i), dialed |-> FALSE,
     egress |-> i = Len(p.nodes) /\ (attempt < Retries \/ Len(p.nodes) = 1)]

RouteMsgs(p, attempt) == {RouteMsg(p, i, attempt) : i \in DOMAIN p.nodes}
Unroute(r) == [kind |-> "unroute", to |-> r]
Unroutes(S) == {Unroute(r) : r \in S}
Result(r, attempt, ok) == [kind |-> "result", from |-> r, attempt |-> attempt, ok |-> ok]
EndFault == [kind |-> "endFault"]
LinkFault(l) == [kind |-> "linkFault", link |-> l]

\* Goroutines that were started: the close handler of an end, handleRerouteLink, and
\* rerouteCircuitWithTries with what is left of its tries.
Closings(r, addrs) == {[kind |-> "closing", at |-> r, addr |-> a] : a \in addrs}
Rerouting(l) == [kind |-> "rerouteLink", link |-> l]
Retry(tries) == [kind |-> "retry", tries |-> tries]

-----------------------------------------------------------------------------
(* Initial state *)

Idle == [on |-> FALSE, old |-> NoPath, new |-> NoPath, at |-> 0, tries |-> 0]

Init ==
    /\ creation = [pc |-> "idle", attempt |-> 0, path |-> NoPath, in |-> {},
                   attendance |-> [r \in {} |-> FALSE], cleanups |-> {}]
    /\ circuit = [known |-> FALSE, path |-> NoPath]
    /\ reroute = Idle
    /\ net = {}
    /\ table = [r \in Routers |-> NoTable]
    /\ dests = [r \in Routers |-> {}]
    /\ links = Links /\ ctrlLinks = Links
    /\ faults = 0
    /\ disturbed = FALSE

-----------------------------------------------------------------------------
(* CreateCircuit and the route sender *)

\* A routeSender is registered.
Sending == creation.pc \in {"select", "selected", "published", "route"}

\* CreateCircuit: reserve the id with a stub and register the route sender.
CreateCircuit ==
    /\ creation.pc = "idle"
    /\ creation' = [creation EXCEPT !.pc = "select"]
    /\ circuit' = [circuit EXCEPT !.known = TRUE]
    /\ UNCHANGED <<reroute, net, table, dests, links, ctrlLinks, faults, disturbed>>

\* One turn of the loop begins: selectPath and CreatePathWithNodes.
SelectPath ==
    /\ creation.pc = "select"
    /\ \E e \in Egresses : \E nodes \in Routes(ctrlLinks, e) :
        creation' = [creation EXCEPT !.pc = "selected", !.path = Path(nodes, creation.attempt)]
    /\ UNCHANGED <<circuit, reroute, net, table, dests, links, ctrlLinks, faults, disturbed>>

\* The path is published in the circuit, over that of a reroute if need be.
PublishPath ==
    /\ creation.pc = "selected"
    /\ creation' = [creation EXCEPT !.pc = "published"]
    /\ circuit' = [circuit EXCEPT !.path = creation.path]
    /\ UNCHANGED <<reroute, net, table, dests, links, ctrlLinks, faults, disturbed>>

\* routeSender.route starts one send for every router of the path.
SendRoutes ==
    /\ creation.pc = "published"
    /\ creation' = [creation EXCEPT !.pc = "route",
           !.attendance = [r \in DOMAIN @ \cup Nodes(creation.path) |->
                              IF r \in Nodes(creation.path) THEN FALSE ELSE @[r]]]
    /\ net' = net \cup RouteMsgs(creation.path, creation.attempt)
    /\ UNCHANGED <<circuit, reroute, table, dests, links, ctrlLinks, faults, disturbed>>

\* The early returns: no service, no path, or a link of the path is gone. The
\* deferred calls run, the clean-ups of earlier attempts are not sent.
SelectFails ==
    /\ creation.pc = "select"
    /\ creation' = [creation EXCEPT !.pc = "failed", !.in = {}]
    /\ circuit' = [circuit EXCEPT !.known = FALSE]
    /\ UNCHANGED <<reroute, net, table, dests, links, ctrlLinks, faults, disturbed>>

\* routeSender.cleanups: the routers of the path that answered in time.
Cleanups == {r \in Nodes(creation.path) : creation.attendance[r]}

\* Is there another attempt?
RetryOneMore == creation.attempt < Retries   \* mutant
RetryLeft == creation.attempt + 1 < Retries

\* A failed attempt: the next one, or give up and unroute what was set up.
AttemptFailed(in) ==
    LET all == creation.cleanups \cup Cleanups IN
    IF RetryLeft
    THEN /\ creation' = [creation EXCEPT !.pc = "select", !.in = in,
                            !.attempt = @ + 1, !.cleanups = all]
         /\ UNCHANGED <<circuit, net>>
    ELSE /\ creation' = [creation EXCEPT !.pc = "failed", !.in = {}, !.cleanups = all]
         /\ circuit' = [circuit EXCEPT !.known = FALSE]
         /\ net' = net \cup Unroutes(all)

Established(attendance) ==
    /\ creation' = [creation EXCEPT !.pc = "ok", !.in = {}, !.attendance = attendance]
    /\ net' = net \cup Unroutes(creation.cleanups \ Nodes(creation.path))
    /\ UNCHANGED circuit

\* A status counts for the attempt it answers only.
AnyAttempt(s) == TRUE   \* mutant
Current(s) == s.attempt = creation.attempt

\* Every router that was ever asked has answered: attendance outlives an attempt.
AllPresent(present) == \A r \in DOMAIN present : present[r]

\* routeSender.route takes a status off its channel (handleRouteSend).
ReceiveStatus ==
    /\ creation.pc = "route"
    /\ \E s \in creation.in :
        LET in == creation.in \ {s}
            present == [creation.attendance EXCEPT ![s.from] = TRUE]
        IN \/ /\ s.ok /\ Current(s)
              /\ IF AllPresent(present)
                 THEN Established(present)
                 ELSE /\ creation' = [creation EXCEPT !.in = in, !.attendance = present]
                      /\ UNCHANGED <<circuit, net>>
           \/ /\ ~s.ok /\ Current(s)
              /\ AttemptFailed(in)
           \/ /\ ~Current(s)
              /\ creation' = [creation EXCEPT !.in = in]
              /\ UNCHANGED <<circuit, net>>
    /\ UNCHANGED <<reroute, table, dests, links, ctrlLinks, faults, disturbed>>

\* A deadline passes: nothing is under way any more, or it is too slow.
Expires(pending) ==
    \/ ~pending /\ UNCHANGED faults
    \/ pending /\ faults < MaxFaults /\ faults' = faults + 1

\* routeSender.route runs into the deadline.
RouteTimeout ==
    /\ creation.pc = "route"
    /\ Expires(\E m \in net \cup creation.in :
                   m.kind \in {"route", "result"} /\ m.attempt = creation.attempt)
    /\ AttemptFailed(creation.in)
    /\ UNCHANGED <<reroute, table, dests, links, ctrlLinks, disturbed>>

\* routeResultHandler: hand the result to the route sender of the circuit or,
\* when there is none, tell the router to drop the route.
HandleRouteResult ==
    /\ \E s \in net : s.kind = "result" /\
        IF Sending
        THEN /\ creation' = [creation EXCEPT !.in = @ \cup {s}]
             /\ net' = net \ {s}
        ELSE /\ net' = (net \ {s}) \cup {Unroute(s.from)}
             /\ UNCHANGED creation
    /\ UNCHANGED <<circuit, reroute, table, dests, links, ctrlLinks, faults, disturbed>>

\* The answer reaches the initiator, whose xgress is registered and may send.
BindIngress ==
    /\ creation.pc = "ok"
    /\ creation' = [creation EXCEPT !.pc = "bound"]
    /\ dests' = [dests EXCEPT ![Ingress] = @ \cup {InAddr(creation.path.id)}]
    /\ UNCHANGED <<circuit, reroute, net, table, links, ctrlLinks, faults, disturbed>>

-----------------------------------------------------------------------------
(* The routers: route, unroute and the forwarder *)

\* Forwarder.HasDestination, as Route needs it: an ingress address need not
\* exist yet.
Valid(r, address) ==
    CASE address[1] = "link" -> address[2] \in links
      [] address[1] = "eg" -> address \in dests[r]
      [] OTHER -> TRUE

SetForward(t, f) == [a \in DOMAIN t \cup {f[1]} |-> IF a = f[1] THEN f[2] ELSE t[a]]

\* Forwarder.Route: the forwards are set one by one in the existing table, which
\* keeps the first one when the second is invalid; a new table is only stored
\* when both are valid.
Routed(r, forwards) ==
    LET first == SetForward(table[r], forwards[1]) IN
    IF ~Valid(r, forwards[1][2]) THEN [ok |-> FALSE, table |-> table[r]]
    ELSE IF ~Valid(r, forwards[2][2])
    THEN [ok |-> FALSE, table |-> IF table[r] = NoTable THEN NoTable ELSE first]
    ELSE [ok |-> TRUE, table |-> SetForward(first, forwards[2])]

\* The answer of a router: a route attempt's goes to routeResultHandler, a
\* reroute's to the goroutine that waits for it, an abandoned one nowhere.
Answer(m, ok) ==
    IF m.attempt < Retries THEN {Result(m.to, m.attempt, ok)}
    ELSE IF m.attempt = SmartRerouteAttempt
    THEN {[kind |-> "reply", from |-> m.to, ok |-> ok]} ELSE {}

\* connectEgress: dial the terminator; a success registers the egress. An
\* egress that is registered already needs no dial.
ConnectEgress(m) ==
    /\ m.kind = "route" /\ m.egress /\ ~m.dialed
    /\ \/ /\ net' = (net \ {m}) \cup {[m EXCEPT !.dialed = TRUE]}
          /\ dests' = [dests EXCEPT ![m.to] = @ \cup {EgAddr(m.id)}]
       \/ /\ EgAddr(m.id) \notin dests[m.to]
          /\ net' = (net \ {m}) \cup Answer(m, FALSE)
          /\ UNCHANGED dests
    /\ UNCHANGED <<creation, circuit, reroute, table, links, ctrlLinks, faults, disturbed>>

\* completeRoute: update the forwarder and answer. A link that is not there is
\* also reported to the controller (NotifyInvalidLink).
CompleteRoute(m) ==
    /\ m.kind = "route" /\ (m.egress => m.dialed)
    /\ LET res == Routed(m.to, m.forwards)
           lost == {LinkFault(m.forwards[i][2][2]) : i \in
                      {j \in 1..2 : m.forwards[j][2][1] = "link" /\ ~Valid(m.to, m.forwards[j][2])}}
       IN /\ table' = [table EXCEPT ![m.to] = res.table]
          /\ net' = (net \ {m}) \cup Answer(m, res.ok) \cup lost
    /\ disturbed' = (disturbed \/ m.attempt # creation.attempt)
    /\ UNCHANGED <<creation, circuit, reroute, dests, links, ctrlLinks, faults>>

\* The forwarder drops every end of the circuit on this router; each of them is
\* closed in a goroutine of its own (Unrouted).
EndCircuit(r, closed, work) ==
    /\ dests' = [dests EXCEPT ![r] = {}]
    /\ net' = work \cup Closings(r, dests[r] \ closed)

\* Forwarder.Unroute, at once or once the circuit is quiet (unrouteTimeout).
HandleUnroute(m) ==
    /\ m.kind = "unroute"
    /\ table' = [table EXCEPT ![m.to] = NoTable]
    /\ EndCircuit(m.to, {}, net \ {m})
    /\ disturbed' = (disturbed \/ m.to \in Nodes(circuit.path))
    /\ UNCHANGED <<creation, circuit, reroute, links, ctrlLinks, faults>>

\* circuitConfirmationHandler: the circuit is gone or runs elsewhere.
GoneOnly(r) == ~circuit.known   \* mutant
ElsewhereOnly(r) == circuit.known /\ r \notin Nodes(circuit.path)   \* mutant
Unconfirmed(r) == ~circuit.known \/ r \notin Nodes(circuit.path)

\* Scanner.scan finds the table idle and asks the controller, which orders an
\* unroute unless the circuit exists and runs through this router.
IdleScan(r) ==
    /\ table[r] # NoTable
    /\ Unconfirmed(r)
    /\ net' = net \cup {Unroute(r)}
    /\ UNCHANGED <<creation, circuit, reroute, table, dests, links, ctrlLinks,
                   faults, disturbed>>

-----------------------------------------------------------------------------
(* Removal and rerouting *)

\* RemoveCircuit: unroutes to the current path, then out of the manager.
RemoveCircuit(m) ==
    /\ IF circuit.known
       THEN /\ net' = (net \ m) \cup Unroutes(Nodes(circuit.path))
            /\ circuit' = [circuit EXCEPT !.known = FALSE]
       ELSE /\ net' = net \ m
            /\ UNCHANGED circuit
    /\ disturbed' = TRUE

\* An ingress or egress fault reaches the controller.
HandleEndFault ==
    /\ EndFault \in net
    /\ RemoveCircuit({EndFault})
    /\ UNCHANGED <<creation, reroute, table, dests, links, ctrlLinks, faults>>

\* An end of the circuit closes by itself.
XgressClose(r) ==
    /\ faults < MaxFaults
    /\ faults' = faults + 1
    /\ \E a \in dests[r] : net' = net \cup Closings(r, {a})
    /\ disturbed' = TRUE
    /\ UNCHANGED <<creation, circuit, reroute, table, dests, links, ctrlLinks>>

\* HandleXgressClose: the forwarder drops every end of the circuit that is
\* registered by now, and the controller is told.
HandleXgressClose(m) ==
    /\ m.kind = "closing"
    /\ EndCircuit(m.at, {m.addr}, (net \ {m}) \cup {EndFault})
    /\ disturbed' = (disturbed \/ dests[m.at] # {})
    /\ UNCHANGED <<creation, circuit, reroute, table, links, ctrlLinks, faults>>

\* The answer to the client could not be sent, or the circuit was idle too long.
RemoveOnRequest ==
    /\ faults < MaxFaults /\ creation.pc \in {"ok", "bound"}
    /\ faults' = faults + 1
    /\ RemoveCircuit({})
    /\ UNCHANGED <<creation, reroute, table, dests, links, ctrlLinks>>

Terminus == circuit.path.nodes[Len(circuit.path.nodes)]

\* The start of rerouteCircuit or smartReroute, which has the CAS on
\* circuit.Rerouting: a new path, or a failed try if there is none.
StartReroute(work, tries, candidates) ==
    \/ /\ candidates = {}
       /\ net' = work \cup {Retry(tries - 1)}
       /\ UNCHANGED reroute
    \/ /\ \E nodes \in candidates :
            reroute' = [on |-> TRUE, old |-> circuit.path, at |-> 0, tries |-> tries,
                        new |-> Path(nodes, circuit.path.id)]
       /\ net' = work

\* The new path is published, over that of the creation if need be, and its first
\* router asked.
PublishReroute ==
    /\ reroute.on /\ reroute.at = 0
    /\ reroute' = [reroute EXCEPT !.at = 1]
    /\ circuit' = [circuit EXCEPT !.path = reroute.new]
    /\ net' = net \cup {RouteMsg(reroute.new, 1, SmartRerouteAttempt)}
    /\ disturbed' = TRUE
    /\ UNCHANGED <<creation, table, dests, links, ctrlLinks, faults>>

\* Network.LinkFaulted: the link is removed, its circuits are left to a goroutine.
HandleLinkFault ==
    /\ \E m \in net : m.kind = "linkFault" /\
        /\ ctrlLinks' = ctrlLinks \ {m.link}
        /\ net' = (net \ {m}) \cup {Rerouting(l) : l \in ctrlLinks \cap {m.link}}
    /\ UNCHANGED <<creation, circuit, reroute, table, dests, links, faults, disturbed>>

UsesLink(p, l) == \E i \in 1..(Len(p.nodes) - 1) : {p.nodes[i], p.nodes[i + 1]} = l

\* rerouteLink, for this circuit: one try, unless a reroute is under way.
RerouteLink ==
    /\ \E m \in net : m.kind = "rerouteLink" /\
        IF circuit.known /\ UsesLink(circuit.path, m.link) /\ ~reroute.on
        THEN StartReroute(net \ {m}, 1, Routes(ctrlLinks, Terminus))
        ELSE net' = net \ {m} /\ UNCHANGED reroute
    /\ UNCHANGED <<creation, circuit, table, dests, links, ctrlLinks, faults, disturbed>>

\* rerouteCircuitWithTries: the next try, which counts as a success when another
\* reroute is under way, or after the last one the end of the circuit.
RerouteWithTries ==
    /\ \E m \in net : m.kind = "retry" /\
        IF m.tries = 0 \/ circuit.path = NoPath
        THEN RemoveCircuit({m}) /\ UNCHANGED reroute
        ELSE /\ IF reroute.on
                THEN net' = net \ {m} /\ UNCHANGED reroute
                ELSE StartReroute(net \ {m}, m.tries, Routes(ctrlLinks, Terminus))
             /\ UNCHANGED <<circuit, disturbed>>
    /\ UNCHANGED <<creation, table, dests, links, ctrlLinks, faults>>

\* Network.smart: a cheaper path for a circuit.
SmartReroute ==
    /\ faults < MaxFaults /\ circuit.known /\ circuit.path # NoPath /\ ~reroute.on
    /\ LET changed == Routes(ctrlLinks, Terminus) \ {circuit.path.nodes} IN
        changed # {} /\ StartReroute(net, 1 + SmartRetries, changed)
    /\ faults' = faults + 1
    /\ UNCHANGED <<creation, circuit, table, dests, links, ctrlLinks, disturbed>>

\* Forwarder.forwardPayload on the router a payload is at: to the link's other
\* end, to an end of the circuit, or nowhere.
Hop(h) ==
    LET t == table[h.at]
        out == t[h.addr]
    IN CASE h.is # "moving" -> h
         [] h.is = "moving" /\ h.addr \notin DOMAIN t -> [h EXCEPT !.is = "stuck"]
         [] h.is = "moving" /\ h.addr \in DOMAIN t /\ out[1] = "link" ->
              IF out[2] \in links
              THEN [h EXCEPT !.at = CHOOSE r \in out[2] : r # h.at, !.addr = out]
              ELSE [h EXCEPT !.is = "stuck"]
         [] OTHER -> [h EXCEPT !.addr = out,
                         !.is = IF out \in dests[h.at] THEN "delivered" ELSE "stuck"]

\* Where payloads get in n hops.
RECURSIVE Hops(_, _)
Hops(S, n) == IF n = 0 THEN S ELSE Hops({Hop(h) : h \in S}, n - 1)

\* Where the initiator's payload gets or, if an egress answers it, the answer.
RoundTrip ==
    LET far == Cardinality(Routers) + 1
        sent == {[is |-> "moving", at |-> Ingress, addr |-> InAddr(creation.path.id)]}
    IN Hops({IF h.is = "delivered" THEN [h EXCEPT !.is = "moving"] ELSE h :
                h \in Hops(sent, far)}, far)

Bound == creation.pc = "bound" /\ InAddr(creation.path.id) \in dests[Ingress]

\* What fault tells the router of a circuit that does not exist.
NothingFor(r) == {}   \* mutant
UnknownCircuit(r) == {Unroute(r)}

\* A forwarding fault is reported (Faulter.run, Network.fault): the circuit is
\* rerouted or, if there is none, the router of a faulting end told to drop it.
ForwardFault ==
    /\ Bound
    /\ \E h \in RoundTrip : h.is = "stuck"
    /\ \/ /\ circuit.known
          /\ Expires(reroute.on \/ \E m \in net : m.kind = "retry")
          /\ net' = net \cup {Retry(2)}
       \/ /\ ~circuit.known /\ UNCHANGED faults
          /\ InAddr(creation.path.id) \notin DOMAIN table[Ingress]
          /\ net' = net \cup UnknownCircuit(Ingress)
    /\ UNCHANGED <<creation, circuit, reroute, table, dests, links, ctrlLinks, disturbed>>

\* Routers of the new path that are still to be told.
MoreTransit == reroute.at + 1 < Len(reroute.new.nodes)   \* mutant
MoreNodes == reroute.at < Len(reroute.new.nodes)

\* sendRoute got its reply: on to the next router of the path, or done.
RerouteReply ==
    /\ reroute.on
    /\ \E s \in net : s.kind = "reply" /\ s.ok /\
        IF MoreNodes
        THEN /\ reroute' = [reroute EXCEPT !.at = @ + 1]
             /\ net' = (net \ {s}) \cup {RouteMsg(reroute.new, reroute.at + 1, SmartRerouteAttempt)}
        ELSE /\ reroute' = Idle
             /\ net' = (net \ {s}) \cup Unroutes(Nodes(reroute.old) \ Nodes(reroute.new))
    /\ UNCHANGED <<creation, circuit, table, dests, links, ctrlLinks, faults, disturbed>>

\* The request of a reroute whose answer nobody waits for any more.
Abandoned == {IF m.kind = "route" /\ m.attempt = SmartRerouteAttempt
              THEN [m EXCEPT !.attempt = Late] ELSE m : m \in
              {n \in net : n.kind # "reply"}}

\* sendRoute failed or timed out: circuit.Rerouting is released before the next try
\* or the removal.
RerouteFails ==
    /\ reroute.on /\ reroute.at > 0
    /\ \/ /\ \E m \in net : m.kind = "reply" /\ ~m.ok
          /\ UNCHANGED faults
       \/ Expires(\E m \in net : \/ m.kind = "reply"
                                 \/ m.kind = "route" /\ m.attempt = SmartRerouteAttempt)
    /\ reroute' = Idle
    /\ net' = Abandoned \cup {Retry(reroute.tries - 1)}
    /\ UNCHANGED <<creation, circuit, table, dests, links, ctrlLinks, disturbed>>

-----------------------------------------------------------------------------
(* Faults of the environment *)

\* A link goes down; the routers tell the controller.
LinkFails(l) ==
    /\ faults < MaxFaults
    /\ faults' = faults + 1
    /\ links' = links \ {l}
    /\ net' = net \cup {LinkFault(l)}
    /\ disturbed' = TRUE
    /\ UNCHANGED <<creation, circuit, reroute, table, dests, ctrlLinks>>

\* A send fails, or the router's full pool refuses the work (QueueOrError).
Drop(m) ==
    /\ faults < MaxFaults /\ m.kind \notin {"closing", "rerouteLink", "retry"}
    /\ m.kind = "route" => ~m.dialed
    /\ faults' = faults + 1
    /\ net' = net \ {m}
    /\ UNCHANGED <<creation, circuit, reroute, table, dests, links, ctrlLinks, disturbed>>

-----------------------------------------------------------------------------

\* What the programs do once started; the idle scan and the faults of stuck
\* payloads recur as long as there is a reason for them.
Progress ==
    \/ SelectPath \/ PublishPath \/ SendRoutes \/ ReceiveStatus \/ RouteTimeout
    \/ HandleRouteResult \/ HandleEndFault \/ HandleLinkFault
    \/ \E m \in net : ConnectEgress(m) \/ CompleteRoute(m) \/ HandleUnroute(m) \/ HandleXgressClose(m)
    \/ \E r \in Routers : IdleScan(r)
    \/ RerouteLink \/ RerouteWithTries \/ PublishReroute \/ RerouteReply \/ RerouteFails
    \/ ForwardFault

Environment ==
    \/ CreateCircuit \/ SelectFails \/ BindIngress \/ RemoveOnRequest \/ SmartReroute
    \/ \E r \in Routers : XgressClose(r)
    \/ \E l \in links : LinkFails(l)
    \/ \E m \in net : Drop(m)

Next == Progress \/ Environment

Spec == Init /\ [][Next]_vars
LiveSpec == Spec /\ WF_vars(Progress)
-----------------------------------------------------------------------------
(* Properties *)

CircuitTypeOK ==
    /\ creation.pc \in {"idle", "select", "selected", "published", "route", "ok", "bound", "failed"}
    /\ creation.attempt \in 0..(Retries - 1)
    /\ creation.cleanups \subseteq Routers
    /\ DOMAIN creation.attendance \subseteq Routers
    /\ reroute.on => reroute.at \in 0..Len(reroute.new.nodes)
    /\ ctrlLinks \subseteq Links /\ links \subseteq Links
    /\ \A r \in Routers : dests[r] \subseteq
          UNION {{InAddr(k), EgAddr(k)} : k \in 0..(Retries - 1)}

\* Following the forward tables along the path leads to the egress and back.
Connected(p) ==
    /\ \A i \in DOMAIN p.nodes : LET t == table[p.nodes[i]] IN
        /\ {Left(p, i), Right(p, i)} \subseteq DOMAIN t
        /\ t[Left(p, i)] = Right(p, i) /\ t[Right(p, i)] = Left(p, i)
    /\ EgAddr(p.id) \in dests[p.nodes[Len(p.nodes)]]

(* A circuit that CreateCircuit reports as created is wired up end to end by  *)
(* the tables of its routers, whatever was left over from failed attempts, as *)
(* long as only its own route messages touched it.                            *)
EstablishedIsConnected ==
    creation.pc \in {"ok", "bound"} /\ ~disturbed => circuit.known /\ Connected(circuit.path)

\* A table the routes of this circuit left behind.
Stale(r) == table[r] # NoTable /\ (~circuit.known \/ r \notin Nodes(circuit.path))

(* No router keeps a forward table for a circuit that is gone or that does    *)
(* not run through it: failed attempts, late routes, lost unroutes and        *)
(* interrupted reroutes are all cleaned up in the end.                        *)
TablesSettle == <>[](\A r \in Routers : ~Stale(r))

(* An initiator that is still connected to its circuit can talk to an egress  *)
(* and hears back from it in the end: what link failures, late routes and     *)
(* stray unroutes broke is rerouted, or the circuit is removed and the        *)
(* initiator's end closed.                                                    *)
CircuitsHeal ==
    <>[](Bound => \A h \in RoundTrip :
                     h.is = "delivered" /\ h.addr = InAddr(creation.path.id))
=============================================================================

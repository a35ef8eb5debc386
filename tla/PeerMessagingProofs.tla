------------------------- MODULE PeerMessagingProofs -------------------------
(***************************************************************************)
(* What RouterMessaging promises, proved for every set of peers and of     *)
(* link listeners and for every value of the bounds.                       *)
(*                                                                         *)
(* The argument for QuietMeansKnown is that every peer is covered at any   *)
(* time (Covered): the subject has been told the truth about it, or the    *)
(* peer is in the entry and no send that would take the entry away has     *)
(* been written, or an event is on its way that will put it there.         *)
(***************************************************************************)
EXTENDS PeerMessaging, FiniteSetTheorems, TLAPS

-----------------------------------------------------------------------------
(* The inductive invariant. *)

\* What Actual can say of a peer, as a message carries it.
Message == UNION {[S -> PeerState] : S \in SUBSET Peer}
Phase == {"queued", "ok", "failed"}
Send == [version : Nat, cur : BOOLEAN, old : BOOLEAN, phase : Phase, states : Message]

Types ==
    /\ PeerTypeOK
    /\ sends \subseteq Send
    /\ dispatching \in Seq(Message)
    /\ changes \in 0 .. MaxChanges
    /\ \A r \in Peer \cup {Subject} : pending[r] <= changes

\* The send of the entry that is there now: the only one of its kind, its
\* version never ahead of the entry's and, when they are equal, with every
\* changed peer in it.
CurrentInv ==
    /\ \A s \in sends : s.cur =>
         /\ entry # NoEntry /\ entry.sending
         /\ s.version <= entry.version
         /\ DOMAIN s.states \subseteq entry.changed
         /\ s.version = entry.version => entry.changed \subseteq DOMAIN s.states
    /\ \A s, t \in sends : s.cur /\ t.cur => s = t
    /\ entry # NoEntry /\ entry.sending => \E s \in sends : s.cur

\* A send that can still be written was started on this connection and, but
\* for a stale result, for the entry that is there now.
WritableInv ==
    /\ up # "open" => \A s \in sends : s.old
    /\ "stale result" \notin mishaps =>
         \A s \in sends : s.phase = "queued" /\ ~s.old => s.cur

\* What it will write is true, or an event that will change the entry's
\* version is on its way.
CarriedInv ==
    \A s \in sends :
        (s.cur /\ s.phase = "queued" /\ ~s.old /\ s.version = entry.version) =>
          \A p \in DOMAIN s.states : s.states[p] = Actual(p) \/ pending[p] > 0

\* The last word about p among the messages being applied.
LastWord(i, p) ==
    /\ p \in DOMAIN dispatching[i]
    /\ \A j \in DOMAIN dispatching : j > i => p \notin DOMAIN dispatching[j]

\* Once the messages it has are applied in their order, the subject agrees
\* with the network about p.
Told(p) ==
    \/ \E i \in DOMAIN dispatching : LastWord(i, p) /\ dispatching[i][p] = Actual(p)
    \/ Known(p) /\ \A i \in DOMAIN dispatching : p \notin DOMAIN dispatching[i]

\* A send that takes the entry away when its result is handled.
Final(s) == s.cur /\ s.phase = "ok" /\ s.version = entry.version

Recorded(p) ==
    /\ entry # NoEntry /\ p \in entry.changed
    /\ \A s \in sends : ~Final(s)

Covered(p) ==
    \/ Told(p)
    \/ Recorded(p)
    \/ pending[p] > 0
    \/ listens[p] # "none" /\ (up # "open" \/ pending[Subject] > 0)
    \/ listens[p] = "none" /\ "missed" \in mishaps

ToldInv == mishaps \cap {"stale result", "overtaken"} = {} => \A p \in Peer : Covered(p)

PeerInv == Types /\ CurrentInv /\ WritableInv /\ CarriedInv /\ ToldInv

-----------------------------------------------------------------------------
(* Parts of the invariant that a step leaves alone. *)

LEMMA SendsFrame ==
    ASSUME CurrentInv, WritableInv, UNCHANGED <<entry, sends>>,
           up' # "open" => up # "open", mishaps \subseteq mishaps'
    PROVE  CurrentInv' /\ WritableInv'
<1>1. CurrentInv'
  BY Zenon DEF CurrentInv
<1>2. WritableInv'
  BY Zenon DEF WritableInv
<1> QED
  BY Zenon, <1>1, <1>2

LEMMA RecordedFrame ==
    ASSUME UNCHANGED <<entry, sends>>, NEW q, Recorded(q)
    PROVE  Recorded(q)'
  BY Zenon DEF Recorded, Final

LEMMA ToldFrame ==
    ASSUME NEW q, UNCHANGED subject, Told(q),
           listens'[q] = listens[q], exists'[q] = exists[q]
    PROVE  Told(q)'
  BY Zenon DEF Told, LastWord, Known, Actual, subject

\* The subject has not heard of q in a step that changes nothing about q.
LEMMA CoveredFrame ==
    ASSUME NEW q \in Peer, Types, Covered(q),
           Told(q) => Told(q)', Recorded(q) => Recorded(q)',
           listens' = listens, pending' = pending, up' = up \/ up' # "open",
           mishaps \subseteq mishaps'
    PROVE  Covered(q)'
  BY Zenon DEF Covered

-----------------------------------------------------------------------------
(* Initially nothing is known of a peer, and no peer is connected. *)

LEMMA InitInv == Init => PeerInv
<1> SUFFICES ASSUME Init PROVE PeerInv
  BY Zenon
<1> USE PeerAssumption
<1>1. Types
  BY DEF Init, Types, PeerTypeOK
<1>2. CurrentInv /\ WritableInv /\ CarriedInv
  BY Zenon DEF Init, CurrentInv, WritableInv, CarriedInv
<1>3. ToldInv
  BY DEF Init, ToldInv, Covered, Told, Known
<1> QED
  BY Zenon, <1>1, <1>2, <1>3 DEF PeerInv

-----------------------------------------------------------------------------
(* The network changes. *)

\* A peer connects, listens elsewhere, disconnects or is deleted.
PeerMoves(p) ==
    /\ Changed(p)
    /\ \A q \in Peer \ {p} : listens'[q] = listens[q] /\ exists'[q] = exists[q]
    /\ listens' \in [Peer -> Listeners \cup {"none"}]
    /\ exists' \in [Peer -> BOOLEAN]
    /\ UNCHANGED <<up, entry, sends, subject, mishaps>>

Router == Peer \cup {Subject}

LEMMA PendingTypes ==
    ASSUME Types
    PROVE  /\ MaxChanges \in Nat /\ changes \in 0 .. MaxChanges
           /\ pending \in [Router -> 0 .. MaxChanges]
           /\ \A q \in Router : pending[q] \in Nat /\ pending[q] <= changes
<1>1. pending \in [Router -> 0 .. MaxChanges] /\ changes \in 0 .. MaxChanges
  BY Zenon DEF Types, PeerTypeOK, Router
<1>2. \A q \in Router : pending[q] <= changes
  BY Zenon DEF Types, Router
<1>3. MaxChanges \in Nat
  BY Zenon, PeerAssumption
<1> QED
  BY <1>1, <1>2, <1>3

LEMMA ChangedTypes ==
    ASSUME Types, NEW r \in Router, Changed(r)
    PROVE  /\ changes' \in 0 .. MaxChanges
           /\ pending' \in [Router -> 0 .. MaxChanges]
           /\ \A q \in Router : pending'[q] <= changes'
           /\ \A q \in Router : pending[q] > 0 => pending'[q] > 0
           /\ pending'[r] > 0
  BY PendingTypes DEF Changed

LEMMA PeerMovesInv ==
    ASSUME PeerInv, NEW p \in Peer, PeerMoves(p)
    PROVE  PeerInv'
<1>1. /\ changes' \in 0 .. MaxChanges
      /\ pending' \in [Router -> 0 .. MaxChanges]
      /\ \A q \in Router : pending'[q] <= changes'
      /\ \A q \in Router : pending[q] > 0 => pending'[q] > 0
      /\ pending'[p] > 0
  BY Zenon, ChangedTypes DEF PeerInv, PeerMoves, Router
<1>t. sends \subseteq Send
  BY Zenon DEF PeerInv, Types
<1>2. Types'
  BY Zenon, <1>1 DEF PeerInv, PeerMoves, Types, PeerTypeOK, subject, Router
<1>3. CurrentInv' /\ WritableInv'
  BY Zenon, SendsFrame DEF PeerInv, PeerMoves
<1>4. \A q \in Peer \ {p} : Actual(q)' = Actual(q)
  BY Zenon DEF PeerMoves, Actual
<1>5. CarriedInv'
  <2> SUFFICES ASSUME NEW s \in sends, s.cur, s.phase = "queued", ~s.old,
                      s.version = entry.version, NEW q \in DOMAIN s.states
               PROVE  s.states[q] = Actual(q)' \/ pending'[q] > 0
    BY Zenon DEF CarriedInv, PeerMoves
  <2>1. q \in Peer
    BY Zenon, <1>t DEF Send, Message
  <2>2. s.states[q] = Actual(q) \/ pending[q] > 0
    BY Zenon DEF PeerInv, CarriedInv
  <2> QED
    BY Zenon, <2>1, <2>2, <1>1, <1>4 DEF Router
<1>6. ToldInv'
  <2> SUFFICES ASSUME mishaps \cap {"stale result", "overtaken"} = {}, NEW q \in Peer
               PROVE  Covered(q)'
    BY Zenon DEF ToldInv, PeerMoves
  <2>1. CASE q = p
    BY Zenon, <2>1, <1>1 DEF Covered
  <2>2. CASE q # p
    <3>1. Covered(q)
      BY Zenon DEF PeerInv, ToldInv
    <3>2. Told(q) => Told(q)'
      BY Zenon, <2>2, ToldFrame DEF PeerMoves
    <3>3. Recorded(q) => Recorded(q)'
      BY Zenon, RecordedFrame DEF PeerMoves
    <3>4. listens'[q] = listens[q] /\ up' = up /\ mishaps' = mishaps
      BY Zenon, <2>2 DEF PeerMoves
    <3>5. /\ pending[q] > 0 => pending'[q] > 0
          /\ pending[Subject] > 0 => pending'[Subject] > 0
      BY Zenon, <1>1 DEF Router
    <3> QED
      BY Zenon, <3>1, <3>2, <3>3, <3>4, <3>5 DEF Covered
  <2> QED
    BY Zenon, <2>1, <2>2
<1> QED
  BY Zenon, <1>2, <1>3, <1>5, <1>6 DEF PeerInv

LEMMA PeerStep ==
    ASSUME PeerInv, NEW p \in Peer,
           \/ \E l \in Listeners : PeerListens(p, l)
           \/ PeerDisconnects(p) \/ PeerDeleted(p)
    PROVE  PeerInv'
<1>1. listens \in [Peer -> Listeners \cup {"none"}] /\ exists \in [Peer -> BOOLEAN]
  BY Zenon DEF PeerInv, Types, PeerTypeOK
<1>2. PeerMoves(p)
  <2>1. CASE \E l \in Listeners : PeerListens(p, l)
    BY Zenon, <1>1, <2>1 DEF PeerListens, PeerMoves
  <2>2. CASE PeerDisconnects(p)
    BY Zenon, <1>1, <2>2 DEF PeerDisconnects, PeerMoves
  <2>3. CASE PeerDeleted(p)
    BY Zenon, <1>1, <2>3 DEF PeerDeleted, PeerMoves
  <2> QED
    BY Zenon, <2>1, <2>2, <2>3
<1> QED
  BY Zenon, <1>2, PeerMovesInv

-----------------------------------------------------------------------------
(* The subject's connection. *)

LEMMA SubjectConnectsInv ==
    ASSUME PeerInv, NEW restarted \in BOOLEAN, SubjectConnects(restarted)
    PROVE  PeerInv'
<1>1. /\ changes' \in 0 .. MaxChanges
      /\ pending' \in [Router -> 0 .. MaxChanges]
      /\ \A q \in Router : pending'[q] <= changes'
      /\ \A q \in Router : pending[q] > 0 => pending'[q] > 0
      /\ pending'[Subject] > 0
  BY Zenon, ChangedTypes DEF PeerInv, SubjectConnects, Router
<1>2. /\ up = "down" /\ up' = "open"
      /\ UNCHANGED <<listens, exists, entry, sends, mishaps>>
  BY Zenon DEF SubjectConnects
<1>5. /\ Types'
      /\ \A q \in Peer : listens[q] = "none" /\ Told(q) => Told(q)'
  <2>1. CASE UNCHANGED subject
    <3>1. Types'
      BY Zenon, <1>1, <1>2, <2>1 DEF PeerInv, Types, PeerTypeOK, subject, Router
    <3>2. \A q \in Peer : Told(q) => Told(q)'
      BY Zenon, <1>2, <2>1, ToldFrame
    <3> QED
      BY Zenon, <3>1, <3>2
  <2>2. CASE view' = [p \in Peer |-> "unknown"] /\ dispatching' = <<>>
    <3>0. /\ dispatching' \in Seq(Message)
          /\ view' \in [Peer -> Listeners \cup {"unhealthy", "unknown"}]
      BY <2>2
    <3>1. Types'
      BY Zenon, <1>1, <1>2, <3>0 DEF PeerInv, Types, PeerTypeOK, Router
    <3>2. \A q \in Peer : listens[q] = "none" => Told(q)'
      <4> SUFFICES ASSUME NEW q \in Peer, listens[q] = "none"
                   PROVE  Told(q)'
        BY Zenon
      <4>1. DOMAIN dispatching' = {}
        BY <2>2
      <4>2. Known(q)'
        BY Zenon, <1>2, <2>2 DEF Known
      <4> QED
        BY Zenon, <4>1, <4>2 DEF Told
    <3> QED
      BY Zenon, <3>1, <3>2
  <2> QED
    BY Zenon, <2>1, <2>2 DEF SubjectConnects
<1>6. CurrentInv' /\ WritableInv'
  BY Zenon, <1>2, SendsFrame DEF PeerInv
<1>7. CarriedInv'
  BY Zenon, <1>2 DEF PeerInv, CarriedInv, WritableInv
<1>8. ToldInv'
  <2> SUFFICES ASSUME mishaps \cap {"stale result", "overtaken"} = {}, NEW q \in Peer
               PROVE  Covered(q)'
    BY Zenon, <1>2 DEF ToldInv
  <2>1. Covered(q)
    BY Zenon DEF PeerInv, ToldInv
  <2>2. Recorded(q) => Recorded(q)'
    BY Zenon, <1>2, RecordedFrame
  <2>3. pending[q] > 0 => pending'[q] > 0
    BY Zenon, <1>1 DEF Router
  <2> QED
    BY Zenon, <1>1, <1>2, <1>5, <2>1, <2>2, <2>3 DEF Covered
<1> QED
  BY Zenon, <1>5, <1>6, <1>7, <1>8 DEF PeerInv

LEMMA SubjectListensInv ==
    ASSUME PeerInv, SubjectListens
    PROVE  PeerInv'
<1>1. /\ changes' \in 0 .. MaxChanges
      /\ pending' \in [Router -> 0 .. MaxChanges]
      /\ \A q \in Router : pending'[q] <= changes'
      /\ \A q \in Router : pending[q] > 0 => pending'[q] > 0
  BY Zenon, ChangedTypes DEF PeerInv, SubjectListens, Router
<1>2. UNCHANGED <<up, listens, exists, entry, sends, subject, mishaps>>
  BY Zenon DEF SubjectListens
<1>3. Types'
  BY Zenon, <1>1, <1>2 DEF PeerInv, Types, PeerTypeOK, subject, Router
<1>4. CurrentInv' /\ WritableInv'
  BY Zenon, <1>2, SendsFrame DEF PeerInv
<1>5. CarriedInv'
  <2> SUFFICES ASSUME NEW s \in sends, s.cur, s.phase = "queued", ~s.old,
                      s.version = entry.version, NEW q \in DOMAIN s.states
               PROVE  s.states[q] = Actual(q) \/ pending'[q] > 0
    BY Zenon, <1>2 DEF CarriedInv, Actual
  <2>1. q \in Peer
    BY Zenon DEF PeerInv, Types, Send, Message
  <2>2. s.states[q] = Actual(q) \/ pending[q] > 0
    BY Zenon DEF PeerInv, CarriedInv
  <2> QED
    BY Zenon, <2>1, <2>2, <1>1 DEF Router
<1>6. ToldInv'
  <2> SUFFICES ASSUME mishaps \cap {"stale result", "overtaken"} = {}, NEW q \in Peer
               PROVE  Covered(q)'
    BY Zenon, <1>2 DEF ToldInv
  <2>1. Covered(q)
    BY Zenon DEF PeerInv, ToldInv
  <2>2. (Recorded(q) => Recorded(q)') /\ (Told(q) => Told(q)')
    BY Zenon, <1>2, RecordedFrame, ToldFrame
  <2>3. /\ pending[q] > 0 => pending'[q] > 0
        /\ pending[Subject] > 0 => pending'[Subject] > 0
    BY Zenon, <1>1 DEF Router
  <2> QED
    BY Zenon, <1>2, <2>1, <2>2, <2>3 DEF Covered
<1> QED
  BY Zenon, <1>3, <1>4, <1>5, <1>6 DEF PeerInv

\* The sends after the channel closed are those before, marked.
Outdated(s) == [s EXCEPT !.old = TRUE]

LEMMA OutdatedSend ==
    ASSUME NEW s \in Send
    PROVE  /\ Outdated(s) \in Send /\ Outdated(s).old
           /\ Outdated(s).cur = s.cur /\ Outdated(s).phase = s.phase
           /\ Outdated(s).version = s.version /\ Outdated(s).states = s.states
  BY Zenon DEF Send, Outdated

LEMMA ChannelClosesInv ==
    ASSUME PeerInv, ChannelCloses
    PROVE  PeerInv'
<1>1. /\ up' = "closed"
      /\ UNCHANGED <<listens, exists, changes, pending, entry, subject, mishaps>>
  BY Zenon DEF ChannelCloses
<1>2. sends' = {Outdated(s) : s \in sends} /\ sends \subseteq Send
  BY Zenon DEF ChannelCloses, Outdated, PeerInv, Types
<1>3. sends' \subseteq Send /\ \A s \in sends' : s.old
  BY Zenon, <1>2, OutdatedSend
<1>4. Types'
  <2>1. \A s \in sends' : /\ s.version \in Nat /\ s.cur \in BOOLEAN
                          /\ s.old \in BOOLEAN
                          /\ s.phase \in {"queued", "ok", "failed"}
                          /\ DOMAIN s.states \subseteq Peer
    BY Zenon, <1>3 DEF Send, Message, Phase
  <2> QED
    BY Zenon, <1>1, <1>3, <2>1 DEF PeerInv, Types, PeerTypeOK, subject
<1>5. CurrentInv'
  <2>1. \A s \in sends' : s.cur =>
         /\ entry # NoEntry /\ entry.sending
         /\ s.version <= entry.version
         /\ DOMAIN s.states \subseteq entry.changed
         /\ s.version = entry.version => entry.changed \subseteq DOMAIN s.states
    BY <1>2, OutdatedSend DEF PeerInv, CurrentInv
  <2>2. \A s, t \in sends' : s.cur /\ t.cur => s = t
    BY <1>2, OutdatedSend DEF PeerInv, CurrentInv
  <2>3. entry # NoEntry /\ entry.sending => \E s \in sends' : s.cur
    BY Zenon, <1>2, OutdatedSend DEF PeerInv, CurrentInv
  <2> QED
    BY Zenon, <1>1, <2>1, <2>2, <2>3 DEF CurrentInv
<1>6. WritableInv' /\ CarriedInv'
  BY Zenon, <1>3 DEF WritableInv, CarriedInv
<1>7. ToldInv'
  <2> SUFFICES ASSUME mishaps \cap {"stale result", "overtaken"} = {}, NEW q \in Peer
               PROVE  Covered(q)'
    BY Zenon, <1>1 DEF ToldInv
  <2>1. Covered(q)
    BY Zenon DEF PeerInv, ToldInv
  <2>2. Told(q) => Told(q)'
    BY Zenon, <1>1, ToldFrame
  <2>3. Recorded(q) => Recorded(q)'
    <3> SUFFICES ASSUME Recorded(q), NEW s \in sends PROVE ~Final(Outdated(s))'
      BY Zenon, <1>1, <1>2 DEF Recorded
    <3>1. ~Final(s) /\ s \in Send
      BY Zenon, <1>2 DEF Recorded
    <3> QED
      BY Zenon, <1>1, <3>1, OutdatedSend DEF Final, Outdated
  <2> QED
    BY Zenon, <1>1, <2>1, <2>2, <2>3 DEF Covered
<1> QED
  BY Zenon, <1>4, <1>5, <1>6, <1>7 DEF PeerInv

LEMMA SubjectDisconnectsInv ==
    ASSUME PeerInv, SubjectDisconnects
    PROVE  PeerInv'
<1>1. /\ up = "closed" /\ up' = "down"
      /\ UNCHANGED <<listens, exists, changes, pending, entry, sends, subject, mishaps>>
  BY Zenon DEF SubjectDisconnects
<1>2. Types'
  BY Zenon, <1>1 DEF PeerInv, Types, PeerTypeOK, subject
<1>3. CurrentInv' /\ WritableInv'
  BY Zenon, <1>1, SendsFrame DEF PeerInv
<1>4. CarriedInv'
  BY Zenon, <1>1 DEF PeerInv, CarriedInv, Actual
<1>5. ToldInv'
  <2> SUFFICES ASSUME mishaps \cap {"stale result", "overtaken"} = {}, NEW q \in Peer
               PROVE  Covered(q)'
    BY Zenon, <1>1 DEF ToldInv
  <2>1. Covered(q)
    BY Zenon DEF PeerInv, ToldInv
  <2>2. (Recorded(q) => Recorded(q)') /\ (Told(q) => Told(q)')
    BY Zenon, <1>1, RecordedFrame, ToldFrame
  <2> QED
    BY Zenon, <1>1, <2>1, <2>2 DEF Covered
<1> QED
  BY Zenon, <1>2, <1>3, <1>4, <1>5 DEF PeerInv

-----------------------------------------------------------------------------
(* The event loop records changes. *)

LEMMA TakeTypes ==
    ASSUME Types, NEW r \in Router, Take(r)
    PROVE  /\ pending' \in [Router -> 0 .. MaxChanges]
           /\ \A q \in Router : pending'[q] <= changes
           /\ \A q \in Router \ {r} : pending'[q] = pending[q]
  BY PendingTypes DEF Take

LEMMA UpdatedEntry ==
    ASSUME Types, NEW ps \in SUBSET Peer, ps # {}, NEW n \in Nat \ {0}
    PROVE  /\ Updated(ps, n) \in Updates
           /\ ps \subseteq Updated(ps, n).changed
           /\ entry # NoEntry =>
                /\ Updated(ps, n).version = entry.version + n
                /\ Updated(ps, n).sending = entry.sending
                /\ entry.changed \subseteq Updated(ps, n).changed
           /\ entry = NoEntry => ~Updated(ps, n).sending
<1>1. CASE entry = NoEntry
  BY Zenon, <1>1 DEF Updated, Updates
<1>2. CASE entry # NoEntry
  <2>1. entry \in Updates
    BY Zenon, <1>2 DEF Types, PeerTypeOK
  <2>2. /\ entry.version + n \in Nat
        /\ entry.changed \cup ps \in (SUBSET Peer) \ {{}}
    BY <2>1 DEF Updates
  <2>3. /\ Updated(ps, n) \in Updates
        /\ Updated(ps, n).version = entry.version + n
        /\ Updated(ps, n).changed = entry.changed \cup ps
        /\ Updated(ps, n).sending = entry.sending
    BY Zenon, <1>2, <2>1, <2>2 DEF Updated, Updates
  <2> QED
    BY Zenon, <1>2, <2>3
<1> QED
  BY Zenon, <1>1, <1>2

\* The peers of ps are put in the entry, which gets a new version.
Records(ps) ==
    /\ ps # {}
    /\ \E n \in Nat \ {0} : entry' = Updated(ps, n)
    /\ UNCHANGED <<network, sends, subject, mishaps>>

LEMMA RecordsInv ==
    ASSUME PeerInv, NEW ps \in SUBSET Peer, Records(ps)
    PROVE  /\ entry' \in Updates /\ CurrentInv' /\ WritableInv' /\ CarriedInv'
           /\ \A q \in ps : Recorded(q)'
           /\ \A q \in Peer : Recorded(q) => Recorded(q)'
<1> PICK n \in Nat \ {0} : entry' = Updated(ps, n)
  BY Zenon DEF Records
<1>1. /\ entry' \in Updates /\ ps \subseteq entry'.changed /\ entry' # NoEntry
      /\ entry # NoEntry => /\ entry'.version = entry.version + n
                            /\ entry'.sending = entry.sending
                            /\ entry.changed \subseteq entry'.changed
      /\ entry = NoEntry => ~entry'.sending
  BY Zenon, UpdatedEntry, PeerAssumption DEF PeerInv, Records
<1>2. UNCHANGED <<up, sends, mishaps>>
  BY Zenon DEF Records, network
<1>3. \A s \in sends : s.cur => /\ entry # NoEntry /\ entry \in Updates
                                /\ s.version \in Nat /\ s.version < entry'.version
  <2> SUFFICES ASSUME NEW s \in sends, s.cur
               PROVE  /\ entry # NoEntry /\ entry \in Updates
                      /\ s.version \in Nat /\ s.version < entry'.version
    BY Zenon
  <2>1. entry # NoEntry /\ s.version <= entry.version
    BY Zenon DEF PeerInv, CurrentInv
  <2>2. entry \in Updates /\ s.version \in Nat
    BY Zenon, <2>1 DEF PeerInv, Types, PeerTypeOK
  <2> QED
    BY <1>1, <2>1, <2>2 DEF Updates
<1>4. CurrentInv'
  <2>1. ASSUME NEW s \in sends, s.cur
        PROVE  /\ entry'.sending /\ s.version <= entry'.version
               /\ DOMAIN s.states \subseteq entry'.changed
               /\ s.version # entry'.version
    <3>1. entry.sending /\ DOMAIN s.states \subseteq entry.changed
      BY Zenon, <2>1 DEF PeerInv, CurrentInv
    <3>2. entry'.version \in Nat
      BY Zenon, <1>1 DEF Updates
    <3>3. /\ entry'.sending
          /\ DOMAIN s.states \subseteq entry'.changed
      BY Zenon, <1>1, <1>3, <2>1, <3>1
    <3> QED
      BY <1>3, <2>1, <3>2, <3>3
  <2>2. \A s, t \in sends : s.cur /\ t.cur => s = t
    BY Zenon DEF PeerInv, CurrentInv
  <2>3. entry'.sending => \E s \in sends : s.cur
    BY Zenon, <1>1 DEF PeerInv, CurrentInv
  <2> QED
    BY Zenon, <1>1, <1>2, <2>1, <2>2, <2>3 DEF CurrentInv
<1>5. WritableInv'
  BY Zenon, <1>2 DEF PeerInv, WritableInv
<1>6. \A s \in sends : s.cur => s.version # entry'.version
  BY <1>1, <1>3 DEF Updates
<1>7. CarriedInv'
  BY Zenon, <1>2, <1>6 DEF CarriedInv
<1>8. \A q \in entry'.changed : Recorded(q)'
  BY Zenon, <1>1, <1>2, <1>6 DEF Recorded, Final
<1>9. \A q \in Peer : Recorded(q) => Recorded(q)'
  BY Zenon, <1>1, <1>8 DEF Recorded
<1> QED
  BY Zenon, <1>1, <1>4, <1>5, <1>7, <1>8, <1>9

LEMMA HandlePeerChangedInv ==
    ASSUME PeerInv, NEW p \in Peer, HandlePeerChanged(p)
    PROVE  PeerInv'
<1>1. /\ pending' \in [Router -> 0 .. MaxChanges]
      /\ \A q \in Router : pending'[q] <= changes
      /\ \A q \in Router \ {p} : pending'[q] = pending[q]
  BY Zenon, TakeTypes DEF HandlePeerChanged, PeerInv, Router
<1>2. Subject \in Router \ {p} /\ Peer \subseteq Router
  BY Zenon, PeerAssumption DEF Router
<1>3. UNCHANGED <<up, listens, exists, changes, sends, subject>>
  BY Zenon DEF HandlePeerChanged, network
<1>4. \A q \in Peer : Told(q) => Told(q)'
  BY Zenon, <1>3, ToldFrame
<1>5. CASE up # "down"
  <2>1. Records({p}) /\ mishaps' = mishaps
    BY <1>3, <1>5 DEF Records, HandlePeerChanged
  <2>2. /\ entry' \in Updates /\ CurrentInv' /\ WritableInv' /\ CarriedInv'
        /\ Recorded(p)'
        /\ \A q \in Peer : Recorded(q) => Recorded(q)'
    BY Zenon, <2>1, RecordsInv
  <2>3. Types'
    BY Zenon, <1>1, <1>3, <2>1, <2>2 DEF PeerInv, Types, PeerTypeOK, subject, Router
  <2>4. ToldInv'
    <3> SUFFICES ASSUME mishaps \cap {"stale result", "overtaken"} = {}, NEW q \in Peer
                 PROVE  Covered(q)'
      BY Zenon, <2>1 DEF ToldInv
    <3>1. CASE q = p
      BY Zenon, <2>2, <3>1 DEF Covered
    <3>2. CASE q # p
      <4>1. pending'[q] = pending[q] /\ pending'[Subject] = pending[Subject]
        BY Zenon, <1>1, <1>2, <3>2
      <4>2. Covered(q)
        BY Zenon DEF PeerInv, ToldInv
      <4> QED
        BY Zenon, <1>3, <1>4, <2>1, <2>2, <4>1, <4>2 DEF Covered
    <3> QED
      BY Zenon, <3>1, <3>2
  <2> QED
    BY Zenon, <2>2, <2>3, <2>4 DEF PeerInv
<1>6. CASE up = "down"
  <2>1. mishaps' = mishaps \cup {"missed"} /\ entry' = entry
    BY Zenon, <1>6 DEF HandlePeerChanged
  <2>2. Types'
    BY Zenon, <1>1, <1>3, <2>1 DEF PeerInv, Types, PeerTypeOK, subject, Router
  <2>3. CurrentInv' /\ WritableInv'
    BY Zenon, <1>3, <2>1, SendsFrame DEF PeerInv
  <2>4. CarriedInv'
    BY Zenon, <1>3, <1>6 DEF PeerInv, CarriedInv, WritableInv
  <2>5. ToldInv'
    <3> SUFFICES ASSUME mishaps \cap {"stale result", "overtaken"} = {}, NEW q \in Peer
                 PROVE  Covered(q)'
      BY Zenon, <2>1 DEF ToldInv
    <3>1. "missed" \in mishaps' /\ up' # "open"
      BY Zenon, <1>3, <1>6, <2>1
    <3> QED
      BY Zenon, <1>3, <3>1 DEF Covered
  <2> QED
    BY Zenon, <2>2, <2>3, <2>4, <2>5 DEF PeerInv
<1> QED
  BY Zenon, <1>5, <1>6

LEMMA HandleSubjectChangedInv ==
    ASSUME PeerInv, HandleSubjectChanged
    PROVE  PeerInv'
<1>1. /\ pending' \in [Router -> 0 .. MaxChanges]
      /\ \A q \in Router : pending'[q] <= changes
      /\ \A q \in Router \ {Subject} : pending'[q] = pending[q]
  BY Zenon, TakeTypes DEF HandleSubjectChanged, PeerInv, Router
<1>2. \A q \in Peer : pending'[q] = pending[q]
  BY Zenon, <1>1, PeerAssumption DEF Router
<1>3. UNCHANGED <<up, listens, exists, changes, sends, subject, mishaps>>
  BY Zenon DEF HandleSubjectChanged, network
<1>4. \A q \in Peer : Told(q) => Told(q)'
  BY Zenon, <1>3, ToldFrame
<1>5. CASE Connected = {}
  <2>1. entry' = entry
    BY Zenon, <1>5 DEF HandleSubjectChanged
  <2>2. Types'
    BY Zenon, <1>1, <1>3, <2>1 DEF PeerInv, Types, PeerTypeOK, subject, Router
  <2>3. CurrentInv' /\ WritableInv'
    BY Zenon, <1>3, <2>1, SendsFrame DEF PeerInv
  <2>4. CarriedInv'
    <3>1. \A s \in sends : DOMAIN s.states \subseteq Peer
      BY Zenon DEF PeerInv, Types, PeerTypeOK
    <3>2. \A q \in Peer : Actual(q)' = Actual(q)
      BY Zenon, <1>3 DEF Actual
    <3> QED
      BY Zenon, <1>2, <1>3, <2>1, <3>1, <3>2 DEF PeerInv, CarriedInv
  <2>5. ToldInv'
    <3> SUFFICES ASSUME mishaps \cap {"stale result", "overtaken"} = {}, NEW q \in Peer
                 PROVE  Covered(q)'
      BY Zenon, <1>3 DEF ToldInv
    <3>1. listens[q] = "none" /\ Covered(q)
      BY Zenon, <1>5 DEF PeerInv, ToldInv, Connected
    <3>2. Recorded(q) => Recorded(q)'
      BY Zenon, <1>3, <2>1, RecordedFrame
    <3> QED
      BY Zenon, <1>2, <1>3, <1>4, <3>1, <3>2 DEF Covered
  <2> QED
    BY Zenon, <2>2, <2>3, <2>4, <2>5 DEF PeerInv
<1>6. CASE Connected # {}
  <2>0. Cardinality(Connected) \in Nat \ {0} /\ Connected \in SUBSET Peer
    BY Zenon, <1>6, PeerAssumption, FS_Subset, FS_EmptySet, FS_CardinalityType DEF Connected
  <2>1. Records(Connected)
    BY Zenon, <1>3, <1>6, <2>0 DEF Records, HandleSubjectChanged
  <2>2. /\ entry' \in Updates /\ CurrentInv' /\ WritableInv' /\ CarriedInv'
        /\ \A q \in Connected : Recorded(q)'
        /\ \A q \in Peer : Recorded(q) => Recorded(q)'
    BY Zenon, <2>0, <2>1, RecordsInv
  <2>3. Types'
    BY Zenon, <1>1, <1>3, <2>2 DEF PeerInv, Types, PeerTypeOK, subject, Router
  <2>4. ToldInv'
    <3> SUFFICES ASSUME mishaps \cap {"stale result", "overtaken"} = {}, NEW q \in Peer
                 PROVE  Covered(q)'
      BY Zenon, <1>3 DEF ToldInv
    <3>1. Covered(q) /\ (listens[q] # "none" => q \in Connected)
      BY Zenon DEF PeerInv, ToldInv, Connected
    <3> QED
      BY Zenon, <1>2, <1>3, <1>4, <2>2, <3>1 DEF Covered
  <2> QED
    BY Zenon, <2>2, <2>3, <2>4 DEF PeerInv
<1> QED
  BY Zenon, <1>5, <1>6

-----------------------------------------------------------------------------
(* The entry goes away, or is released after a send. *)

Orphan(s) == [s EXCEPT !.cur = FALSE]

LEMMA OrphanSend ==
    ASSUME NEW s \in Send
    PROVE  /\ Orphan(s) \in Send /\ ~Orphan(s).cur
           /\ Orphan(s).old = s.old /\ Orphan(s).phase = s.phase
           /\ Orphan(s).version = s.version /\ Orphan(s).states = s.states
  BY Zenon DEF Send, Orphan

LEMMA SendTypes ==
    ASSUME NEW S \in SUBSET Send
    PROVE  \A s \in S : /\ s.version \in Nat /\ s.cur \in BOOLEAN
                        /\ s.old \in BOOLEAN
                        /\ s.phase \in {"queued", "ok", "failed"}
                        /\ DOMAIN s.states \subseteq Peer
  BY Zenon DEF Send, Message, Phase

\* The entry is dropped: what was sent for it is nobody's any more, and what
\* it held counts as missed unless a send has delivered it.
LEMMA ForgetInv ==
    ASSUME PeerInv, NEW S \in SUBSET sends,
           entry' = NoEntry, sends' = {Orphan(s) : s \in S},
           UNCHANGED <<network, pending, subject>>,
           mishaps \subseteq mishaps',
           mishaps' \subseteq {"missed", "stale result", "overtaken"},
           \/ "missed" \in mishaps' /\ up # "open"
           \/ "stale result" \in mishaps'
           \/ (\E s \in sends : Final(s)) /\ entry # NoEntry
    PROVE  PeerInv'
<1>1. UNCHANGED <<up, listens, exists, changes, subject, pending>> /\ sends \subseteq Send
  BY Zenon DEF network, PeerInv, Types
<1>2. sends' \subseteq Send /\ \A s \in sends' : ~s.cur
  BY Zenon, <1>1, OrphanSend
<1>3. Types'
  <2>1. \A s \in sends' : /\ s.version \in Nat /\ s.cur \in BOOLEAN
                          /\ s.old \in BOOLEAN
                          /\ s.phase \in {"queued", "ok", "failed"}
                          /\ DOMAIN s.states \subseteq Peer
    BY Zenon, <1>2, SendTypes
  <2> QED
    BY Zenon, <1>1, <1>2, <2>1 DEF PeerInv, Types, PeerTypeOK, subject
<1>4. CurrentInv' /\ CarriedInv'
  BY Zenon, <1>2 DEF CurrentInv, CarriedInv
<1>5. WritableInv'
  <2>1. ASSUME up' # "open", NEW s \in S PROVE Orphan(s).old
    BY Zenon, <1>1, <2>1, OrphanSend DEF PeerInv, WritableInv
  <2>2. ASSUME "stale result" \notin mishaps', NEW s \in S
        PROVE  ~(Orphan(s).phase = "queued" /\ ~Orphan(s).old)
    <3>1. s \in Send /\ Orphan(s).old = s.old /\ Orphan(s).phase = s.phase
      BY Zenon, <1>1, OrphanSend
    <3>2. s.phase = "queued" /\ ~s.old => s.cur /\ up = "open"
      BY Zenon, <2>2 DEF PeerInv, WritableInv
    <3>3. CASE \E t \in sends : Final(t)
      BY Zenon, <3>1, <3>2, <3>3 DEF PeerInv, CurrentInv, Final
    <3> QED
      BY Zenon, <2>2, <3>1, <3>2, <3>3
  <2> QED
    BY Zenon, <2>1, <2>2 DEF WritableInv
<1>6. ToldInv'
  <2> SUFFICES ASSUME mishaps' \cap {"stale result", "overtaken"} = {}, NEW q \in Peer
               PROVE  Covered(q)'
    BY Zenon DEF ToldInv
  <2>1. Covered(q) /\ "stale result" \notin mishaps'
    BY Zenon DEF PeerInv, ToldInv
  <2>2. Told(q) => Told(q)'
    BY Zenon, <1>1, ToldFrame
  <2>3. CASE "missed" \in mishaps' /\ up # "open"
    BY Zenon, <1>1, <2>3 DEF Covered
  <2>4. CASE (\E s \in sends : Final(s)) /\ entry # NoEntry
    <3>1. ~Recorded(q)
      BY Zenon, <2>4 DEF Recorded
    <3> QED
      BY Zenon, <1>1, <2>1, <2>2, <3>1 DEF Covered
  <2> QED
    BY Zenon, <2>1, <2>3, <2>4
<1> QED
  BY Zenon, <1>3, <1>4, <1>5, <1>6 DEF PeerInv

LEMMA SyncDiscardInv ==
    ASSUME PeerInv, SyncDiscard
    PROVE  PeerInv'
<1>1. /\ entry' = NoEntry /\ sends' = {Orphan(s) : s \in sends}
      /\ UNCHANGED <<network, pending, subject>>
      /\ mishaps' = mishaps \cup {"missed"} /\ up # "open"
  BY Zenon DEF SyncDiscard, Orphaned, Orphan
<1>2. mishaps' \subseteq {"missed", "stale result", "overtaken"}
  BY Zenon, <1>1 DEF PeerInv, Types, PeerTypeOK
<1> QED
  BY Zenon, <1>1, <1>2, ForgetInv

\* The result of a send that does not take the entry away.
Released(s) ==
    /\ s \in sends /\ ~Final(s)
    /\ sends' = sends \ {s}
    /\ entry' = IF s.cur THEN [entry EXCEPT !.sending = FALSE] ELSE entry
    /\ UNCHANGED <<network, pending, subject, mishaps>>

LEMMA ReleasedInv ==
    ASSUME PeerInv, NEW s, Released(s)
    PROVE  PeerInv'
<1>1. /\ UNCHANGED <<up, listens, exists, changes, subject, pending, mishaps>>
      /\ s \in sends /\ sends' = sends \ {s}
  BY Zenon DEF network, Released
<1>2. /\ entry' \in Updates \cup {NoEntry} /\ CurrentInv' /\ CarriedInv'
      /\ \A q \in Peer : Recorded(q) => Recorded(q)'
  <2>1. CASE s.cur
    <3>1. entry \in Updates /\ entry # NoEntry
      BY Zenon, <1>1, <2>1 DEF PeerInv, CurrentInv, Types, PeerTypeOK
    <3>2. /\ entry' \in Updates /\ entry'.sending = FALSE
          /\ entry'.version = entry.version /\ entry'.changed = entry.changed
      BY Zenon, <2>1, <3>1 DEF Released, Updates
    <3>3. \A t \in sends' : ~t.cur
      BY Zenon, <1>1, <2>1 DEF PeerInv, CurrentInv
    <3>4. CurrentInv' /\ CarriedInv'
      BY Zenon, <3>2, <3>3 DEF CurrentInv, CarriedInv
    <3>5. \A q \in Peer : Recorded(q) => Recorded(q)'
      BY Zenon, <3>2, <3>3, PeerAssumption DEF Recorded, Final
    <3> QED
      BY Zenon, <3>2, <3>4, <3>5
  <2>2. CASE ~s.cur
    <3>1. entry' = entry
      BY Zenon, <2>2 DEF Released
    <3>2. CurrentInv'
      BY Zenon, <1>1, <2>2, <3>1 DEF PeerInv, CurrentInv
    <3>3. CarriedInv'
      BY Zenon, <1>1, <3>1 DEF PeerInv, CarriedInv, Actual
    <3>4. \A q \in Peer : Recorded(q) => Recorded(q)'
      BY Zenon, <1>1, <3>1 DEF Recorded, Final
    <3> QED
      BY Zenon, <3>1, <3>2, <3>3, <3>4 DEF PeerInv, Types, PeerTypeOK
  <2> QED
    BY Zenon, <2>1, <2>2
<1>3. Types'
  BY Zenon, <1>1, <1>2 DEF PeerInv, Types, PeerTypeOK, subject
<1>4. WritableInv'
  BY Zenon, <1>1 DEF PeerInv, WritableInv
<1>5. ToldInv'
  <2> SUFFICES ASSUME mishaps \cap {"stale result", "overtaken"} = {}, NEW q \in Peer
               PROVE  Covered(q)'
    BY Zenon, <1>1 DEF ToldInv
  <2>1. Covered(q)
    BY Zenon DEF PeerInv, ToldInv
  <2>2. Told(q) => Told(q)'
    BY Zenon, <1>1, ToldFrame
  <2> QED
    BY Zenon, <1>1, <1>2, <2>1, <2>2 DEF Covered
<1> QED
  BY Zenon, <1>2, <1>3, <1>4, <1>5 DEF PeerInv

LEMMA HandleSendDoneInv ==
    ASSUME PeerInv, NEW s \in sends, HandleSendDone(s)
    PROVE  PeerInv'
<1> DEFINE forget == /\ entry # NoEntry
                     /\ s.phase = "ok" /\ s.version = entry.version
<1>1. UNCHANGED <<network, pending, subject>>
  BY Zenon DEF HandleSendDone
<1>2. CASE forget
  <2>1. /\ entry' = NoEntry /\ sends' = {Orphan(t) : t \in sends \ {s}}
        /\ mishaps' = IF ~s.cur THEN mishaps \cup {"stale result"} ELSE mishaps
    BY Zenon, <1>2 DEF HandleSendDone, Orphan
  <2>2. /\ mishaps' \subseteq {"missed", "stale result", "overtaken"}
        /\ mishaps \subseteq mishaps'
        /\ "stale result" \in mishaps' \/ s.cur
    BY Zenon, <2>1 DEF PeerInv, Types, PeerTypeOK
  <2>3. s.cur => Final(s)
    BY Zenon, <1>2 DEF Final
  <2> QED
    BY Zenon, <1>1, <1>2, <2>1, <2>2, <2>3, ForgetInv
<1>3. CASE ~forget
  <2>1. /\ sends' = sends \ {s} /\ mishaps' = mishaps
        /\ entry' = IF s.cur THEN [entry EXCEPT !.sending = FALSE] ELSE entry
    BY Zenon, <1>3 DEF HandleSendDone
  <2>2. ~Final(s)
    BY Zenon, <1>3 DEF PeerInv, CurrentInv, Final
  <2> QED
    BY Zenon, <1>1, <2>1, <2>2, ReleasedInv DEF Released
<1> QED
  BY Zenon, <1>2, <1>3

-----------------------------------------------------------------------------
(* Sends. *)

LEMMA ActualState ==
    ASSUME PeerInv, NEW p \in Peer
    PROVE  Actual(p) \in PeerState
  BY Zenon DEF Actual, PeerState, PeerInv, Types, PeerTypeOK

LEMMA SyncSendInv ==
    ASSUME PeerInv, SyncSend
    PROVE  PeerInv'
<1> DEFINE new == [version |-> entry.version, cur |-> TRUE, old |-> FALSE,
                   phase |-> "queued", states |-> [p \in entry.changed |-> Actual(p)]]
<1>1. /\ UNCHANGED <<up, listens, exists, changes, subject, pending, mishaps>>
      /\ sends' = sends \cup {new} /\ sends \subseteq Send /\ up = "open"
      /\ entry' = [entry EXCEPT !.sending = TRUE]
      /\ entry \in Updates /\ entry # NoEntry /\ ~entry.sending
  BY Zenon DEF network, SyncSend, PeerInv, Types, PeerTypeOK
<1>2. /\ entry.version \in Nat /\ entry.changed \subseteq Peer
      /\ entry' \in Updates /\ entry'.sending = TRUE
      /\ entry'.version = entry.version /\ entry'.changed = entry.changed
  BY Zenon, <1>1 DEF Updates
<1>3. new \in Send
  <2>1. [p \in entry.changed |-> Actual(p)] \in Message
    BY <1>2, ActualState DEF Message
  <2> QED
    BY Zenon, <1>2, <2>1 DEF Send, Phase
<1>4. \A t \in sends : ~t.cur
  BY Zenon, <1>1 DEF PeerInv, CurrentInv
<1>5. /\ new.cur /\ ~new.old /\ new.phase = "queued" /\ new.version = entry.version
      /\ DOMAIN new.states = entry.changed
      /\ \A p \in entry.changed : new.states[p] = Actual(p)
  BY Zenon
<1> HIDE DEF new
<1>6. Types'
  <2>1. sends' \subseteq Send
    BY Zenon, <1>1, <1>3
  <2>2. \A t \in sends' : /\ t.version \in Nat /\ t.cur \in BOOLEAN
                          /\ t.old \in BOOLEAN
                          /\ t.phase \in {"queued", "ok", "failed"}
                          /\ DOMAIN t.states \subseteq Peer
    BY Zenon, <2>1, SendTypes
  <2> QED
    BY Zenon, <1>1, <1>2, <2>1, <2>2 DEF PeerInv, Types, PeerTypeOK, subject
<1>7. CurrentInv'
  <2>1. \A t \in sends' : t.cur => t = new
    BY Zenon, <1>1, <1>4
  <2>2. /\ new \in sends' /\ new.version = entry'.version
        /\ DOMAIN new.states = entry'.changed
    BY Zenon, <1>1, <1>2, <1>5
  <2>3. entry' # NoEntry /\ entry'.version <= entry'.version
    BY <1>2, PeerAssumption
  <2> QED
    BY Zenon, <1>2, <1>5, <2>1, <2>2, <2>3 DEF CurrentInv
<1>8. WritableInv'
  BY Zenon, <1>1, <1>5 DEF PeerInv, WritableInv
<1>9. CarriedInv'
  <2>1. \A p \in entry.changed : Actual(p)' = Actual(p)
    BY Zenon, <1>1 DEF Actual
  <2> QED
    BY Zenon, <1>1, <1>4, <1>5, <2>1 DEF CarriedInv
<1>10. ToldInv'
  <2> SUFFICES ASSUME mishaps \cap {"stale result", "overtaken"} = {}, NEW q \in Peer
               PROVE  Covered(q)'
    BY Zenon, <1>1 DEF ToldInv
  <2>1. Covered(q)
    BY Zenon DEF PeerInv, ToldInv
  <2>2. Told(q) => Told(q)'
    BY Zenon, <1>1, ToldFrame
  <2>3. new.phase # "ok" /\ entry' # NoEntry
    BY Zenon, <1>2, <1>5, PeerAssumption
  <2>4. Recorded(q) => Recorded(q)'
    BY Zenon, <1>1, <1>2, <1>4, <2>3 DEF Recorded, Final
  <2> QED
    BY Zenon, <1>1, <2>1, <2>2, <2>4 DEF Covered
<1> QED
  BY Zenon, <1>6, <1>7, <1>8, <1>9, <1>10 DEF PeerInv

\* The message arrives behind those the subject is applying.
LEMMA AppendTold ==
    ASSUME PeerInv, NEW m \in Message, NEW q \in Peer,
           UNCHANGED <<listens, exists, view>>,
           dispatching' = Append(dispatching, m)
    PROVE  /\ q \notin DOMAIN m /\ Told(q) => Told(q)'
           /\ q \in DOMAIN m /\ m[q] = Actual(q) => Told(q)'
<1>1. /\ dispatching \in Seq(Message) /\ Actual(q)' = Actual(q)
      /\ Known(q)' = Known(q)
  BY Zenon DEF PeerInv, Types, Actual, Known
<1>2. /\ DOMAIN dispatching = 1 .. Len(dispatching) /\ Len(dispatching) \in Nat
      /\ DOMAIN dispatching' = 1 .. Len(dispatching) + 1
      /\ \A i \in DOMAIN dispatching : dispatching'[i] = dispatching[i]
      /\ dispatching'[Len(dispatching) + 1] = m
  BY <1>1
<1>3. ASSUME q \notin DOMAIN m, Told(q)
      PROVE  Told(q)'
  <2>1. CASE Known(q) /\ \A i \in DOMAIN dispatching : q \notin DOMAIN dispatching[i]
    <3>1. \A i \in DOMAIN dispatching' : q \notin DOMAIN dispatching'[i]
      BY <1>2, <1>3, <2>1
    <3> QED
      BY Zenon, <1>1, <2>1, <3>1 DEF Told
  <2>2. ASSUME NEW i \in DOMAIN dispatching, LastWord(i, q), dispatching[i][q] = Actual(q)
        PROVE  Told(q)'
    <3>1. /\ i \in DOMAIN dispatching' /\ dispatching'[i] = dispatching[i]
          /\ q \in DOMAIN dispatching[i]
          /\ \A j \in DOMAIN dispatching' : j > i => q \notin DOMAIN dispatching'[j]
      BY <1>2, <1>3, <2>2 DEF LastWord
    <3> QED
      BY Zenon, <1>1, <2>2, <3>1 DEF Told, LastWord
  <2> QED
    BY Zenon, <1>3, <2>1, <2>2 DEF Told
<1>4. ASSUME q \in DOMAIN m, m[q] = Actual(q)
      PROVE  Told(q)'
  <2> DEFINE k == Len(dispatching) + 1
  <2>1. /\ k \in DOMAIN dispatching' /\ dispatching'[k] = m
        /\ \A j \in DOMAIN dispatching' : j > k => q \notin DOMAIN dispatching'[j]
    BY <1>2
  <2> HIDE DEF k
  <2> QED
    BY Zenon, <1>1, <1>4, <2>1 DEF Told, LastWord
<1> QED
  BY Zenon, <1>3, <1>4

LEMMA WireInv ==
    ASSUME PeerInv, NEW s \in sends, NEW written \in BOOLEAN, NEW ok \in BOOLEAN,
           Wire(s, written, ok)
    PROVE  PeerInv'
<1> DEFINE done == [s EXCEPT !.phase = IF ok THEN "ok" ELSE "failed"]
<1>1. /\ UNCHANGED <<up, listens, exists, changes, view, pending, entry, mishaps>>
      /\ sends' = (sends \ {s}) \cup {done} /\ sends \subseteq Send
      /\ s.phase = "queued" /\ (ok => written) /\ (written => ~s.old)
      /\ dispatching' = IF written THEN Append(dispatching, s.states) ELSE dispatching
  BY Zenon DEF network, Wire, PeerInv, Types
<1>2. /\ done \in Send /\ done.phase # "queued" /\ (done.phase = "ok" => ok)
      /\ done.version = s.version /\ done.states = s.states
      /\ done.cur = s.cur /\ done.old = s.old
  BY Zenon, <1>1 DEF Send, Phase
<1> HIDE DEF done
<1>3. Types'
  <2>1. sends' \subseteq Send
    BY Zenon, <1>1, <1>2
  <2>2. \A t \in sends' : /\ t.version \in Nat /\ t.cur \in BOOLEAN
                          /\ t.old \in BOOLEAN
                          /\ t.phase \in {"queued", "ok", "failed"}
                          /\ DOMAIN t.states \subseteq Peer
    BY Zenon, <2>1, SendTypes
  <2>3. dispatching' \in Seq(Message)
    <3>1. s.states \in Message /\ dispatching \in Seq(Message)
      BY Zenon, <1>1 DEF Send, PeerInv, Types
    <3> QED
      BY <1>1, <3>1
  <2> QED
    BY Zenon, <1>1, <2>1, <2>2, <2>3 DEF PeerInv, Types, PeerTypeOK
<1>4. CurrentInv'
  BY Zenon, <1>1, <1>2 DEF PeerInv, CurrentInv
<1>5. WritableInv'
  BY Zenon, <1>1, <1>2 DEF PeerInv, WritableInv
<1>6. CarriedInv'
  <2>1. \A t \in sends' : t.phase = "queued" => t \in sends
    BY Zenon, <1>1, <1>2
  <2> QED
    BY Zenon, <1>1, <2>1 DEF PeerInv, CarriedInv, Actual
<1>7. ToldInv'
  <2> SUFFICES ASSUME mishaps \cap {"stale result", "overtaken"} = {}, NEW q \in Peer
               PROVE  Covered(q)'
    BY Zenon, <1>1 DEF ToldInv
  <2>1. Covered(q)
    BY Zenon DEF PeerInv, ToldInv
  <2>2. /\ (written /\ q \in DOMAIN s.states) \/ (Told(q) => Told(q)')
        /\ (written /\ q \in DOMAIN s.states /\ s.states[q] = Actual(q)) => Told(q)'
    <3>1. CASE written
      <4>1. s.states \in Message /\ dispatching' = Append(dispatching, s.states)
        BY Zenon, <1>1, <3>1 DEF Send
      <4>2. UNCHANGED <<listens, exists, view>>
        BY Zenon, <1>1
      <4>3. /\ q \notin DOMAIN s.states /\ Told(q) => Told(q)'
            /\ q \in DOMAIN s.states /\ s.states[q] = Actual(q) => Told(q)'
        BY Zenon, <4>1, <4>2, AppendTold
      <4> QED
        BY Zenon, <3>1, <4>3
    <3>2. CASE ~written
      BY Zenon, <1>1, <3>2, ToldFrame DEF subject
    <3> QED
      BY Zenon, <3>1, <3>2
  <2>3. CASE Final(done)
    <3>1. /\ s.cur /\ ok /\ written /\ ~s.old /\ s.version = entry.version
          /\ entry # NoEntry
      BY Zenon, <1>1, <1>2, <2>3 DEF Final, PeerInv, CurrentInv
    <3>2. DOMAIN s.states = entry.changed
      BY Zenon, <3>1 DEF PeerInv, CurrentInv
    <3>3. \A p \in DOMAIN s.states : s.states[p] = Actual(p) \/ pending[p] > 0
      BY Zenon, <1>1, <3>1 DEF PeerInv, CarriedInv
    <3>4. Recorded(q) => q \in DOMAIN s.states
      BY Zenon, <3>2 DEF Recorded
    <3> QED
      BY Zenon, <1>1, <2>1, <2>2, <3>1, <3>3, <3>4 DEF Covered
  <2>4. CASE ~Final(done)
    <3>1. Recorded(q) => Recorded(q)'
      BY Zenon, <1>1, <2>4 DEF Recorded, Final
    <3>2. CASE written /\ q \in DOMAIN s.states
      <4>1. s.cur /\ entry # NoEntry /\ q \in entry.changed
        BY Zenon, <1>1, <3>2 DEF PeerInv, WritableInv, CurrentInv
      <4>2. \A t \in sends' : t.cur => t = done
        BY Zenon, <1>1, <4>1 DEF PeerInv, CurrentInv
      <4>3. Recorded(q)'
        BY Zenon, <1>1, <2>4, <4>1, <4>2 DEF Recorded, Final
      <4> QED
        BY Zenon, <4>3 DEF Covered
    <3> QED
      BY Zenon, <1>1, <2>1, <2>2, <3>1, <3>2 DEF Covered
  <2> QED
    BY Zenon, <2>3, <2>4
<1> QED
  BY Zenon, <1>3, <1>4, <1>5, <1>6, <1>7 DEF PeerInv

-----------------------------------------------------------------------------
(* The subject applies a message. *)

LEMMA WithoutSeq ==
    ASSUME NEW S, NEW d \in Seq(S), NEW i \in DOMAIN d
    PROVE  /\ Without(d, i) \in Seq(S)
           /\ DOMAIN Without(d, i) = 1 .. Len(d) - 1
           /\ \A j \in 1 .. Len(d) - 1 :
                Without(d, i)[j] = IF j < i THEN d[j] ELSE d[j + 1]
<1>1. i \in 1 .. Len(d) /\ Len(d) \in Nat /\ Len(d) - 1 \in Nat
  OBVIOUS
<1>2. \A j \in 1 .. Len(d) - 1 : d[IF j < i THEN j ELSE j + 1] \in S
  BY <1>1
<1>3. Without(d, i) \in [1 .. Len(d) - 1 -> S]
  BY Zenon, <1>2 DEF Without
<1>4. \A j \in 1 .. Len(d) - 1 :
         Without(d, i)[j] = IF j < i THEN d[j] ELSE d[j + 1]
  BY Zenon DEF Without
<1> QED
  BY <1>1, <1>3, <1>4

LEMMA DispatchTold ==
    ASSUME PeerInv, NEW i \in DOMAIN dispatching, Dispatch(i), NEW q \in Peer, Told(q),
           "overtaken" \notin mishaps'
    PROVE  Told(q)'
<1> DEFINE m == dispatching[i]
<1>1. /\ UNCHANGED <<listens, exists>> /\ dispatching' = Without(dispatching, i)
      /\ view'[q] = IF q \notin DOMAIN m THEN view[q]
                    ELSE IF m[q] = "removed" THEN "unknown" ELSE m[q]
  BY Zenon DEF Dispatch, network
<1>2. \A j \in 1 .. i - 1 : DOMAIN dispatching[j] \cap DOMAIN m = {}
  BY Zenon DEF Dispatch
<1>3. dispatching \in Seq(Message)
  BY Zenon DEF PeerInv, Types
<1>4. /\ i \in 1 .. Len(dispatching) /\ Len(dispatching) \in Nat
      /\ DOMAIN dispatching = 1 .. Len(dispatching)
      /\ DOMAIN dispatching' = 1 .. Len(dispatching) - 1
      /\ \A j \in DOMAIN dispatching' :
           dispatching'[j] = IF j < i THEN dispatching[j] ELSE dispatching[j + 1]
  <2>1. /\ DOMAIN dispatching' = 1 .. Len(dispatching) - 1
        /\ \A j \in 1 .. Len(dispatching) - 1 :
             dispatching'[j] = IF j < i THEN dispatching[j] ELSE dispatching[j + 1]
    BY Zenon, <1>1, <1>3, WithoutSeq
  <2>2. DOMAIN dispatching = 1 .. Len(dispatching) /\ Len(dispatching) \in Nat
    BY <1>3
  <2> QED
    BY Zenon, <2>1, <2>2
<1>5. Actual(q)' = Actual(q)
  BY Zenon, <1>1 DEF Actual
<1>6. ASSUME \A j \in DOMAIN dispatching : j # i => q \notin DOMAIN dispatching[j],
             Known(q)'
      PROVE  Told(q)'
  <2>1. \A j \in DOMAIN dispatching' : q \notin DOMAIN dispatching'[j]
    BY <1>4, <1>6
  <2> QED
    BY Zenon, <1>6, <2>1 DEF Told
<1>7. CASE Known(q) /\ \A j \in DOMAIN dispatching : q \notin DOMAIN dispatching[j]
  <2>1. Known(q)'
    BY Zenon, <1>1, <1>5, <1>7 DEF Known
  <2> QED
    BY Zenon, <1>6, <1>7, <2>1
<1>8. ASSUME NEW k \in DOMAIN dispatching, LastWord(k, q), dispatching[k][q] = Actual(q)
      PROVE  Told(q)'
  <2>1. CASE k = i
    <3>1. \A j \in DOMAIN dispatching : j # i => q \notin DOMAIN dispatching[j]
      BY <1>2, <1>4, <1>8, <2>1 DEF LastWord
    <3>2. Known(q)'
      <4>1. view'[q] = IF Actual(q) = "removed" THEN "unknown" ELSE Actual(q)
        BY Zenon, <1>1, <1>8, <2>1 DEF LastWord
      <4>2. Actual(q) = "removed" => listens[q] = "none"
        BY Zenon, PeerAssumption DEF Actual, PeerInv, Types, PeerTypeOK
      <4> QED
        BY Zenon, <1>1, <1>5, <4>1, <4>2 DEF Known
    <3> QED
      BY Zenon, <1>6, <3>1, <3>2
  <2>2. ASSUME NEW l \in DOMAIN dispatching',
               l = IF k < i THEN k ELSE k - 1, k # i
        PROVE  Told(q)'
    <3>1. /\ dispatching'[l] = dispatching[k] /\ q \in DOMAIN dispatching[k]
          /\ \A j \in DOMAIN dispatching' : j > l => q \notin DOMAIN dispatching'[j]
      BY <1>4, <1>8, <2>2 DEF LastWord
    <3> QED
      BY Zenon, <1>5, <1>8, <2>2, <3>1 DEF Told, LastWord
  <2>3. k # i => (IF k < i THEN k ELSE k - 1) \in DOMAIN dispatching'
    BY <1>4, <1>8
  <2> QED
    BY Zenon, <2>1, <2>2, <2>3
<1> QED
  BY Zenon, <1>7, <1>8 DEF Told

LEMMA DispatchInv ==
    ASSUME PeerInv, NEW i \in DOMAIN dispatching, Dispatch(i)
    PROVE  PeerInv'
<1>1. UNCHANGED <<up, listens, exists, changes, pending, entry, sends>>
  BY Zenon DEF Dispatch, network
<1>2. dispatching \in Seq(Message) /\ dispatching' = Without(dispatching, i)
  BY Zenon DEF Dispatch, PeerInv, Types
<1>3. dispatching' \in Seq(Message)
  BY Zenon, <1>2, WithoutSeq
<1>4. view' \in [Peer -> Listeners \cup {"unhealthy", "unknown"}]
  <2>1. \A p \in DOMAIN dispatching[i] : dispatching[i][p] \in PeerState
    BY <1>2 DEF Message
  <2>2. view \in [Peer -> Listeners \cup {"unhealthy", "unknown"}]
    BY Zenon DEF PeerInv, Types, PeerTypeOK
  <2> QED
    BY Zenon, <2>1, <2>2 DEF Dispatch, PeerState
<1>5. /\ mishaps \subseteq mishaps'
      /\ mishaps' \subseteq {"missed", "stale result", "overtaken"}
  BY Zenon DEF Dispatch, PeerInv, Types, PeerTypeOK
<1>6. Types'
  BY Zenon, <1>1, <1>3, <1>4, <1>5 DEF PeerInv, Types, PeerTypeOK
<1>7. CurrentInv' /\ WritableInv'
  BY Zenon, <1>1, <1>5, SendsFrame DEF PeerInv
<1>8. CarriedInv'
  BY Zenon, <1>1 DEF PeerInv, CarriedInv, Actual
<1>9. ToldInv'
  <2> SUFFICES ASSUME mishaps' \cap {"stale result", "overtaken"} = {}, NEW q \in Peer
               PROVE  Covered(q)'
    BY Zenon DEF ToldInv
  <2>1. Covered(q) /\ "overtaken" \notin mishaps'
    BY Zenon, <1>5 DEF PeerInv, ToldInv
  <2>2. Told(q) => Told(q)'
    BY Zenon, <2>1, DispatchTold
  <2>3. Recorded(q) => Recorded(q)'
    BY Zenon, <1>1, RecordedFrame
  <2> QED
    BY Zenon, <1>1, <1>5, <2>1, <2>2, <2>3 DEF Covered
<1> QED
  BY Zenon, <1>6, <1>7, <1>8, <1>9 DEF PeerInv

-----------------------------------------------------------------------------
(* The theorems. *)

LEMMA StutterInv ==
    ASSUME PeerInv, UNCHANGED vars
    PROVE  PeerInv'
<1>1. UNCHANGED <<up, listens, exists, changes, pending, entry, sends, subject, mishaps>>
  BY Zenon DEF vars, subject
<1>2. Types'
  BY Zenon, <1>1 DEF PeerInv, Types, PeerTypeOK, subject
<1>3. CurrentInv' /\ WritableInv'
  BY Zenon, <1>1, SendsFrame DEF PeerInv
<1>4. CarriedInv'
  BY Zenon, <1>1 DEF PeerInv, CarriedInv, Actual
<1>5. ToldInv'
  <2>1. \A q \in Peer : (Told(q) => Told(q)') /\ (Recorded(q) => Recorded(q)')
    BY Zenon, <1>1, ToldFrame, RecordedFrame
  <2> QED
    BY Zenon, <1>1, <2>1 DEF PeerInv, ToldInv, Covered
<1> QED
  BY Zenon, <1>2, <1>3, <1>4, <1>5 DEF PeerInv

LEMMA StepInv ==
    ASSUME PeerInv, [Next]_vars
    PROVE  PeerInv'
<1>1. ASSUME NEW p \in Peer,
             \/ \E l \in Listeners : PeerListens(p, l)
             \/ PeerDisconnects(p) \/ PeerDeleted(p)
             \/ HandlePeerChanged(p)
      PROVE  PeerInv'
  BY Zenon, <1>1, PeerStep, HandlePeerChangedInv
<1>2. ASSUME NEW restarted \in BOOLEAN, SubjectConnects(restarted)
      PROVE  PeerInv'
  BY Zenon, <1>2, SubjectConnectsInv
<1>3. CASE \/ SubjectListens \/ ChannelCloses \/ SubjectDisconnects
           \/ HandleSubjectChanged \/ SyncDiscard \/ SyncSend
  BY Zenon, <1>3, SubjectListensInv, ChannelClosesInv, SubjectDisconnectsInv,
     HandleSubjectChangedInv, SyncDiscardInv, SyncSendInv
<1>4. ASSUME NEW s \in sends,
             \/ HandleSendDone(s)
             \/ \E written, ok \in BOOLEAN : Wire(s, written, ok)
      PROVE  PeerInv'
  BY Zenon, <1>4, HandleSendDoneInv, WireInv
<1>5. ASSUME NEW i \in DOMAIN dispatching, Dispatch(i)
      PROVE  PeerInv'
  BY Zenon, <1>5, DispatchInv
<1>6. CASE UNCHANGED vars
  BY Zenon, <1>6, StutterInv
<1> QED
  BY Zenon, <1>1, <1>2, <1>3, <1>4, <1>5, <1>6 DEF Next

(* Whatever the network, the pool and the subject do, every peer is covered *)
(* and the sends fit the entry of routerUpdates.                            *)
THEOREM PeerInvariance == Spec => []PeerInv
  BY InitInv, StepInv, PTL DEF Spec

(* The state of RouterMessaging and of the subject has its type.            *)
THEOREM PeerTypeCorrect == Spec => []PeerTypeOK
<1>1. PeerInv => PeerTypeOK
  BY Zenon DEF PeerInv, Types
<1> QED
  BY <1>1, PeerInvariance, PTL

(* sendInProgress is set exactly while a send of the entry is under way, so *)
(* that syncStates is never locked out of a router for good.                *)
THEOREM SendInProgress == Spec => []InProgressHasSend
<1>1. ASSUME PeerInv PROVE InProgressHasSend
  <2> DEFINE current == {s \in sends : s.cur}
  <2>1. entry # NoEntry /\ entry.sending <=> current # {}
    BY Zenon, <1>1 DEF PeerInv, CurrentInv
  <2>2. Cardinality(current) <= 1
    <3>3. \A s, t \in current : s = t
      BY Zenon, <1>1 DEF PeerInv, CurrentInv
    <3> HIDE DEF current
    <3>1. CASE current = {}
      BY <3>1, FS_EmptySet
    <3>2. ASSUME NEW s \in current, current = {s} PROVE Cardinality(current) <= 1
      BY <3>2, FS_Singleton
    <3> QED
      BY Zenon, <3>1, <3>2, <3>3
  <2> QED
    BY Zenon, <2>1, <2>2 DEF InProgressHasSend
<1> QED
  BY <1>1, PeerInvariance, PTL

LEMMA NothingLeft == ~(0 > 0) /\ DOMAIN <<>> = {}
  OBVIOUS

(* When nothing is on its way any more, a connected router knows its peers, *)
(* but for the mishaps named in QuietMeansKnown.                            *)
THEOREM PeersKnown == Spec => []QuietMeansKnown
<1>1. ASSUME PeerInv PROVE QuietMeansKnown
  <2>1. ASSUME NEW p \in Peer, Quiet, ~Known(p),
               mishaps \cap {"stale result", "overtaken"} = {}
        PROVE  "missed" \in mishaps /\ listens[p] = "none"
    <3>1. /\ up = "open" /\ entry = NoEntry /\ dispatching = <<>>
          /\ pending[p] = 0 /\ pending[Subject] = 0
      BY Zenon, <2>1 DEF Quiet
    <3>2. Covered(p)
      BY Zenon, <1>1, <2>1 DEF PeerInv, ToldInv
    <3> QED
      BY Zenon, <2>1, <3>1, <3>2, NothingLeft DEF Covered, Told, Recorded
  <2> QED
    BY Zenon, <2>1 DEF QuietMeansKnown
<1> QED
  BY <1>1, PeerInvariance, PTL

(* A recorded change is not forgotten by a send that did not carry it.      *)
THEOREM ChangesKept == Spec => ForgottenOnlyWhenSent
<1>1. ASSUME PeerInv, Next, entry # NoEntry, entry' = NoEntry, up = "open",
             "stale result" \notin mishaps'
      PROVE  \E s \in sends : /\ s.cur /\ s.phase = "ok"
                              /\ entry.changed \subseteq DOMAIN s.states
  <2>1. entry \in Updates /\ Types
    BY Zenon, <1>1 DEF PeerInv, Types, PeerTypeOK
  <2>2. \A ps \in SUBSET Peer, n \in Nat \ {0} : ps # {} => entry' # Updated(ps, n)
    BY Zenon, <1>1, <2>1, UpdatedEntry, PeerAssumption
  <2>3. ~SyncSend /\ ~SyncDiscard
    BY Zenon, <1>1, <2>1, PeerAssumption DEF SyncSend, SyncDiscard, Updates
  <2>4. \A p \in Peer : ~HandlePeerChanged(p)
    <3>1. \A p \in Peer : entry' # Updated({p}, 1)
      BY <2>2
    <3> QED
      BY Zenon, <1>1, <3>1 DEF HandlePeerChanged
  <2>5. ~HandleSubjectChanged
    <3>1. Connected # {} => Cardinality(Connected) \in Nat \ {0} /\ Connected \in SUBSET Peer
      BY Zenon, PeerAssumption, FS_Subset, FS_EmptySet, FS_CardinalityType DEF Connected
    <3> QED
      BY Zenon, <1>1, <2>2, <3>1 DEF HandleSubjectChanged
  <2>6. ASSUME entry' = entry PROVE FALSE
    BY Zenon, <1>1, <2>6
  <2>7. PICK s \in sends : HandleSendDone(s)
    BY Zenon, <1>1, <2>3, <2>4, <2>5, <2>6
    DEF Next, PeerListens, PeerDisconnects, PeerDeleted, SubjectConnects,
        SubjectListens, ChannelCloses, SubjectDisconnects, Wire, Dispatch
  <2>8. Final(s)
    <3>1. CASE s.cur
      <4>1. [entry EXCEPT !.sending = FALSE] # NoEntry
        BY Zenon, <2>1, PeerAssumption DEF Updates
      <4> QED
        BY Zenon, <1>1, <2>7, <3>1, <4>1 DEF HandleSendDone, Final
    <3>2. CASE ~s.cur
      BY Zenon, <1>1, <2>7, <3>2 DEF HandleSendDone
    <3> QED
      BY Zenon, <3>1, <3>2
  <2> QED
    BY Zenon, <1>1, <2>8 DEF Final, PeerInv, CurrentInv
<1>2. PeerInv /\ [Next]_vars =>
        [(entry # NoEntry /\ entry' = NoEntry /\ up = "open"
            /\ "stale result" \notin mishaps') =>
           \E s \in sends : /\ s.cur /\ s.phase = "ok"
                            /\ entry.changed \subseteq DOMAIN s.states]_vars
  BY Zenon, <1>1
<1> QED
  BY <1>2, PeerInvariance, PTL DEF Spec, ForgottenOnlyWhenSent
=============================================================================

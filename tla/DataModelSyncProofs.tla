------------------------ MODULE DataModelSyncProofs -------------------------
(***************************************************************************)
(* For any size of the ring, any number of controllers, any log and any    *)
(* number of disturbances: every cache that a controller makes by          *)
(* SetCurrentIndex and Store is in order, and a replay of one is complete. *)
(* Then the invariant of the messages on their way to the router, and how  *)
(* the operations on queues of messages keep it, for the steps in          *)
(* DataModelStepProofs and DataModelViewProofs.                            *)
(***************************************************************************)
EXTENDS DataModelSync, TLAPS

LOCAL INSTANCE WellFoundedInduction

USE DEF repairVars

-----------------------------------------------------------------------------
(* Sequences *)

\* What the operations on sequences make.
LEMMA ElementType ==
    ASSUME NEW S, NEW s \in Seq(S), NEW n \in 1 .. Len(s)
    PROVE  s[n] \in S
OBVIOUS

LEMMA AppendParts ==
    ASSUME NEW S, NEW s \in Seq(S), NEW e \in S
    PROVE  /\ Append(s, e) \in Seq(S) /\ Append(s, e) # <<>>
           /\ Len(Append(s, e)) = Len(s) + 1
           /\ \A i \in 1 .. Len(s) : Append(s, e)[i] = s[i]
           /\ Append(s, e)[Len(s) + 1] = e
OBVIOUS

LEMMA ConcatParts ==
    ASSUME NEW S, NEW s \in Seq(S), NEW r \in Seq(S)
    PROVE  /\ s \o r \in Seq(S) /\ Len(s \o r) = Len(s) + Len(r)
           /\ \A i \in 1 .. Len(s) + Len(r) :
                 (s \o r)[i] = IF i <= Len(s) THEN s[i] ELSE r[i - Len(s)]
OBVIOUS

LEMMA SubSeqParts ==
    ASSUME NEW S, NEW s, NEW m \in Int, NEW n \in Int, \A i \in m .. n : s[i] \in S
    PROVE  /\ SubSeq(s, m, n) \in Seq(S)
           /\ Len(SubSeq(s, m, n)) = IF m <= n THEN n - m + 1 ELSE 0
           /\ \A i \in 1 .. n - m + 1 : SubSeq(s, m, n)[i] = s[m + i - 1]
OBVIOUS

LEMMA HeadAndTail ==
    ASSUME NEW S, NEW s \in Seq(S), s # <<>>
    PROVE  /\ Head(s) \in S /\ Tail(s) \in Seq(S) /\ Len(Tail(s)) = Len(s) - 1
           /\ \A i \in 1 .. Len(Tail(s)) : Tail(s)[i] = s[i + 1]
OBVIOUS

-----------------------------------------------------------------------------
(* The event cache *)

\* Slot s was written before slot t: the ring ends at its head and starts
\* after it.
Older(cache, s, t) ==
    \/ s < t /\ (t <= cache.HeadLogIndex \/ cache.HeadLogIndex < s)
    \/ cache.HeadLogIndex < s /\ t <= cache.HeadLogIndex

CacheType(cache) ==
    /\ cache.HeadLogIndex \in Slots
    /\ cache.MinEntryIndex \in Nat
    /\ cache.Log \in [Slots -> Nat]

\* The ring is in the order it was written in, empty slots aside, and once it
\* holds an event it holds events from there on.
RingOK(cache) ==
    \A s, t \in Slots : Older(cache, s, t) =>
        /\ cache.Log[s] = 0 \/ cache.Log[s] < cache.Log[t]
        /\ cache.Log[s] \in DOMAIN cache.Events => cache.Log[t] \in DOMAIN cache.Events

\* What a cache holds of the changes made so far: nothing that is newer than
\* an index in the ring is missing, nor anything from MinEntryIndex on.
HoldsChanges(cache, changes) ==
    /\ DOMAIN cache.Events \subseteq changes
    /\ \A i \in DOMAIN cache.Events : \E s \in Slots : cache.Log[s] = i
    /\ \A i \in changes :
          /\ i <= currentIndex(cache)
          /\ \A s \in Slots : cache.Log[s] # 0 /\ cache.Log[s] < i => i \in DOMAIN cache.Events
          /\ cache.MinEntryIndex # 0 /\ cache.MinEntryIndex <= i => i \in DOMAIN cache.Events
    /\ cache.MinEntryIndex = 0 => DOMAIN cache.Events = {}

CacheOK(cache, changes) == CacheType(cache) /\ RingOK(cache) /\ HoldsChanges(cache, changes)

-----------------------------------------------------------------------------
\* The slot after the head, which storeLocked writes to.
LEMMA NextSlot ==
    \A s \in Slots : /\ (s + 1) % LogSize \in Slots
                      /\ (s + 1) % LogSize = IF s = LogSize - 1 THEN 0 ELSE s + 1
BY LogSizeAssumption DEF Slots

\* The slots ReplayFrom walks over.
LEMMA SlotFrom ==
    \A s \in Slots : \A i \in 1 .. LogSize :
        (s + i - 1) % LogSize = IF s + i <= LogSize THEN s + i - 1 ELSE s + i - 1 - LogSize
BY LogSizeAssumption DEF Slots

\* FirstFrom's search finds the least event there is.
LEMMA MinNat ==
    ASSUME NEW S \in SUBSET Nat, S # {}
    PROVE  Min(S) \in S /\ \A y \in S : Min(S) <= y
<1>1. PICK x \in S : \A y \in S : ~ (<<y, x>> \in OpToRel(<, Nat))
  BY Zenon, NatLessThanWellFounded, WFMin
<1>2. OpToRel(<, Nat) = {ss \in Nat \X Nat : ss[1] < ss[2]}
  BY Zenon DEF OpToRel
<1>3. \A y \in S : ~ (<<y, x>> \in {ss \in Nat \X Nat : ss[1] < ss[2]})
  BY <1>1, <1>2, Zenon
<1>4. \A y \in S : x <= y
  <2> TAKE y \in S
  <2>1. <<y, x>> \in Nat \X Nat
    OBVIOUS
  <2>2. ~ (<<y, x>>[1] < <<y, x>>[2])
    BY <1>3, <2>1, Zenon
  <2>3. ~ (y < x)
    BY <2>2
  <2>4. x \in Nat /\ y \in Nat
    OBVIOUS
  <2> QED  BY <2>3, <2>4
<1> QED  BY Zenon, <1>4 DEF Min

\* A controller that starts with an empty cache (SetCurrentIndex) has missed
\* nothing that came after.
LEMMA FreshCacheOK ==
    ASSUME NEW index \in Nat, NEW changes \in SUBSET (1 .. index)
    PROVE  /\ CacheOK(SetCurrentIndex(NewLoggingEventCache, index), changes)
           /\ currentIndex(SetCurrentIndex(NewLoggingEventCache, index)) = index
<1> DEFINE cache == SetCurrentIndex(NewLoggingEventCache, index)
<1>1. /\ cache.HeadLogIndex = 0 /\ cache.MinEntryIndex = 0
      /\ cache.Log = [i \in Slots |-> IF i = 0 THEN index ELSE 0]
      /\ DOMAIN cache.Events = {}
  BY DEF SetCurrentIndex, NewLoggingEventCache
<1>2. 0 \in Slots
  BY LogSizeAssumption DEF Slots
<1> HIDE DEF cache
<1>3. CacheType(cache)
  BY <1>1, <1>2 DEF CacheType
<1>4. RingOK(cache)
  BY <1>1, <1>2 DEF RingOK, Older, Slots
<1>5. HoldsChanges(cache, changes)
  BY <1>1, <1>2 DEF HoldsChanges, currentIndex, Slots
<1>6. currentIndex(cache) = index
  BY <1>1, <1>2 DEF currentIndex
<1> QED  BY <1>3, <1>4, <1>5, <1>6 DEF CacheOK, cache

\* storeLocked keeps it that way for the next change.
LEMMA StoreOK ==
    ASSUME NEW cache, NEW changes \in SUBSET (Nat \ {0}), CacheOK(cache, changes),
           NEW index \in Nat, currentIndex(cache) < index
    PROVE  /\ CacheOK(Store(cache, index), changes \cup {index})
           /\ currentIndex(Store(cache, index)) = index
<1> DEFINE head == cache.HeadLogIndex
           target == (head + 1) % LogSize
           new == Store(cache, index)
<1> USE LogSizeAssumption
<1>1. /\ head \in Slots /\ cache.MinEntryIndex \in Nat /\ cache.Log \in [Slots -> Nat]
      /\ currentIndex(cache) = cache.Log[head] /\ cache.Log[head] < index /\ 0 < index
  BY DEF CacheOK, CacheType, currentIndex
<1>2. target \in Slots /\ target = IF head = LogSize - 1 THEN 0 ELSE head + 1
  BY <1>1, NextSlot, Zenon
<1>3. /\ new.HeadLogIndex = target
      /\ new.Log = [cache.Log EXCEPT ![target] = index]
      /\ DOMAIN new.Events = (DOMAIN cache.Events \ {cache.Log[target]}) \cup {index}
      /\ new.MinEntryIndex = IF cache.Log[target] # 0 THEN cache.Log[target] + 1
                             ELSE IF cache.MinEntryIndex = 0 THEN index ELSE cache.MinEntryIndex
  BY <1>1, <1>2 DEF Store, MinAfterEviction, Evicting
<1> HIDE DEF new, target
<1>4. CacheType(new)
  BY <1>1, <1>2, <1>3 DEF CacheType
<1>5. ASSUME NEW s \in Slots, s # target  PROVE  Older(cache, target, s)
  BY <1>1, <1>2, <1>5 DEF Older, Slots
<1>6. ASSUME NEW s \in Slots, NEW t \in Slots, Older(new, s, t)
      PROVE  s # target /\ (t # target => Older(cache, s, t))
  <2>1. \/ s < t /\ (t <= target \/ target < s)
        \/ target < s /\ t <= target
    BY <1>3, <1>6 DEF Older
  <2>2. s # target
    BY <1>1, <1>2, <2>1 DEF Slots
  <2>3. CASE head = LogSize - 1
    <3>1. (target = 0 /\ t <= head /\ s < t) \/ t = target
      BY <1>1, <1>2, <2>1, <2>3 DEF Slots
    <3> QED  BY <2>2, <3>1 DEF Older
  <2>4. CASE head # LogSize - 1
    <3>1. target = head + 1
      BY <1>2, <2>4
    <3>2. t # target => \/ s < t /\ (t <= head \/ head < s)
                        \/ head < s /\ t <= head
      <4>1. s \in Int /\ t \in Int /\ head \in Int
        BY <1>1 DEF Slots
      <4> HIDE DEF head
      <4> QED  BY <2>1, <2>2, <3>1, <4>1
    <3> QED  BY <2>2, <3>2 DEF Older
  <2> QED  BY <2>3, <2>4
<1>7. ASSUME NEW s \in Slots  PROVE  cache.Log[s] <= cache.Log[head]
  <2>1. s = head \/ Older(cache, s, head)
    BY <1>1 DEF Older, Slots
  <2> QED  BY <1>1, <2>1 DEF CacheOK, RingOK
<1>8. RingOK(new)
  <2> SUFFICES ASSUME NEW s \in Slots, NEW t \in Slots, Older(new, s, t)
               PROVE  /\ new.Log[s] = 0 \/ new.Log[s] < new.Log[t]
                      /\ new.Log[s] \in DOMAIN new.Events => new.Log[t] \in DOMAIN new.Events
    BY DEF RingOK
  <2>1. s # target /\ new.Log[s] = cache.Log[s] /\ cache.Log[s] <= cache.Log[head]
    BY <1>1, <1>2, <1>3, <1>6, <1>7
  <2>2. CASE t = target
    <3>1. new.Log[t] = index
      BY <1>1, <1>2, <1>3, <2>2
    <3>2. cache.Log[s] \in Nat /\ cache.Log[head] \in Nat
      BY <1>1
    <3> QED  BY <1>1, <1>3, <2>1, <3>1, <3>2
  <2>3. CASE t # target
    <3>1. new.Log[t] = cache.Log[t] /\ Older(cache, s, t) /\ cache.Log[t] <= cache.Log[head]
      BY <1>1, <1>2, <1>3, <1>6, <1>7, <2>3
    <3>2. cache.Log[target] = 0 \/ cache.Log[target] < cache.Log[t]
      BY <1>2, <1>5, <2>3 DEF CacheOK, RingOK
    <3>3. /\ cache.Log[s] = 0 \/ cache.Log[s] < cache.Log[t]
          /\ cache.Log[s] \in DOMAIN cache.Events => cache.Log[t] \in DOMAIN cache.Events
      BY <3>1 DEF CacheOK, RingOK
    <3>4. cache.Log[s] \in Nat /\ cache.Log[t] \in Nat /\ cache.Log[target] \in Nat
      BY <1>1, <1>2
    <3>5. 0 \notin DOMAIN cache.Events
      BY DEF CacheOK, HoldsChanges
    <3> QED  BY <1>1, <1>3, <2>1, <3>1, <3>2, <3>3, <3>4, <3>5
  <2> QED  BY <2>2, <2>3
<1>9. currentIndex(new) = index
  BY <1>1, <1>2, <1>3 DEF currentIndex
<1>10. HoldsChanges(new, changes \cup {index})
  <2>1. DOMAIN new.Events \subseteq changes \cup {index}
    BY <1>3 DEF CacheOK, HoldsChanges
  <2>2. ASSUME NEW i \in DOMAIN new.Events  PROVE  \E s \in Slots : new.Log[s] = i
    <3>1. CASE i = index
      BY <1>1, <1>2, <1>3, <3>1
    <3>2. CASE i # index
      <4>1. PICK s \in Slots : cache.Log[s] = i
        BY <1>3, <2>2, <3>2 DEF CacheOK, HoldsChanges
      <4>2. s # target
        BY <1>3, <2>2, <3>2, <4>1
      <4> QED  BY <1>1, <1>2, <1>3, <4>1, <4>2
    <3> QED  BY <3>1, <3>2
  <2>3. ASSUME NEW i \in changes
        PROVE  i \in Nat /\ i < index
    <3>1. i <= cache.Log[head]
      BY <1>1, <2>3 DEF CacheOK, HoldsChanges
    <3>2. i \in Nat /\ cache.Log[head] \in Nat
      BY <1>1, <2>3
    <3> HIDE DEF head
    <3> QED  BY <1>1, <3>1, <3>2
  <2>4. ASSUME NEW i \in changes, NEW s \in Slots, new.Log[s] # 0, new.Log[s] < i
        PROVE  i \in DOMAIN new.Events
    <3>1. s # target /\ new.Log[s] = cache.Log[s]
      BY <1>1, <1>2, <1>3, <2>3, <2>4
    <3>2. i \in DOMAIN cache.Events
      BY <2>4, <3>1 DEF CacheOK, HoldsChanges
    <3>3. cache.Log[target] = 0 \/ cache.Log[target] < cache.Log[s]
      BY <1>2, <1>5, <3>1 DEF CacheOK, RingOK
    <3>4. i # cache.Log[target]
      BY <1>1, <1>2, <2>3, <2>4, <3>1, <3>3
    <3> QED  BY <1>3, <3>2, <3>4
  <2>5. ASSUME NEW i \in changes, new.MinEntryIndex # 0, new.MinEntryIndex <= i
        PROVE  i \in DOMAIN new.Events
    <3>1. CASE cache.Log[target] # 0
      <4>1. cache.Log[target] < i
        BY <1>1, <1>2, <1>3, <2>3, <2>5, <3>1
      <4>2. i \in DOMAIN cache.Events
        BY Zenon, <1>2, <3>1, <4>1 DEF CacheOK, HoldsChanges
      <4> QED  BY <1>1, <1>2, <1>3, <2>3, <4>1, <4>2
    <3>2. CASE cache.Log[target] = 0
      <4>1. new.MinEntryIndex = cache.MinEntryIndex
        BY <1>1, <1>3, <2>3, <2>5, <3>2
      <4>2. i \in DOMAIN cache.Events
        BY Zenon, <2>5, <4>1 DEF CacheOK, HoldsChanges
      <4> QED  BY <1>3, <2>3, <3>2, <4>2
    <3> QED  BY <3>1, <3>2
  <2>6. new.MinEntryIndex # 0
    BY <1>1, <1>2, <1>3
  <2>7. index <= currentIndex(new) /\ index \in DOMAIN new.Events
    BY <1>1, <1>3, <1>9
  <2> QED  BY <1>9, <2>1, <2>2, <2>3, <2>4, <2>5, <2>6, <2>7 DEF HoldsChanges
<1> QED  BY <1>4, <1>8, <1>9, <1>10 DEF CacheOK, new

\* Every event names the change before it (PreviousIndex): there is none in
\* between.
PreviousOK(cache, changes) ==
    \A i \in DOMAIN cache.Events :
        /\ cache.Events[i] \in Nat \ {0} /\ cache.Events[i] < i
        /\ \A j \in changes : j <= cache.Events[i] \/ i <= j

\* storeLocked stamps the current index on the event it stores, so that stays
\* true.
LEMMA StorePrevious ==
    ASSUME NEW cache, NEW changes \in SUBSET (Nat \ {0}), CacheOK(cache, changes),
           PreviousOK(cache, changes),
           NEW index \in Nat, currentIndex(cache) < index, 0 < currentIndex(cache)
    PROVE  PreviousOK(Store(cache, index), changes \cup {index})
<1> DEFINE new == Store(cache, index)
<1>1. currentIndex(cache) \in Nat
  BY DEF CacheOK, CacheType, currentIndex
<1>2. \A j \in changes : j <= currentIndex(cache)
  BY DEF CacheOK, HoldsChanges
<1>3. /\ DOMAIN new.Events \subseteq DOMAIN cache.Events \cup {index}
      /\ \A i \in DOMAIN new.Events :
            new.Events[i] = IF i = index THEN currentIndex(cache) ELSE cache.Events[i]
  BY <1>1 DEF Store
<1>4. \A i \in DOMAIN cache.Events : i \in changes
  BY DEF CacheOK, HoldsChanges
<1> HIDE DEF new
<1>5. ASSUME NEW i \in DOMAIN new.Events
      PROVE  /\ new.Events[i] \in Nat \ {0} /\ new.Events[i] < i
             /\ \A j \in changes \cup {index} : j <= new.Events[i] \/ i <= j
  <2>1. CASE i = index
    <3>1. new.Events[i] = currentIndex(cache)
      BY <1>3, <2>1
    <3> DEFINE k == currentIndex(cache)
    <3>2. /\ k \in Nat /\ k < index /\ 0 < k /\ new.Events[i] = k
          /\ \A j \in changes : j <= k
      BY <1>1, <1>2, <3>1
    <3>3. k \in Nat \ {0} /\ index <= index
      BY <3>2
    <3> HIDE DEF k
    <3> QED  BY Zenon, <2>1, <3>2, <3>3
  <2>2. CASE i # index
    <3>1. i \in DOMAIN cache.Events /\ new.Events[i] = cache.Events[i]
      BY <1>3, <2>2
    <3>2. i \in Nat /\ i <= index
      <4>1. i \in changes
        BY Zenon, <1>4, <3>1
      <4>2. i <= currentIndex(cache) /\ i \in Nat
        BY Zenon, <1>2, <4>1
      <4> QED  BY <1>1, <4>2
    <3>3. /\ cache.Events[i] \in Nat \ {0} /\ cache.Events[i] < i
          /\ \A j \in changes : j <= cache.Events[i] \/ i <= j
      BY <3>1 DEF PreviousOK
    <3> QED  BY <3>1, <3>2, <3>3
  <2> QED  BY <2>1, <2>2
<1> QED  BY <1>5 DEF PreviousOK, new

\* The events of a ring from a slot on are in order.
LEMMA KeysFromOK ==
    ASSUME NEW cache, CacheType(cache), RingOK(cache), NEW slot \in Slots,
           cache.Log[slot] \in DOMAIN cache.Events, 0 \notin DOMAIN cache.Events
    PROVE  LET keys == KeysFrom(cache, slot) IN
           /\ Range(keys) = {cache.Log[t] : t \in {u \in Slots : u = slot \/ Older(cache, slot, u)}}
           /\ \A i \in 2 .. Len(keys) : keys[i - 1] < keys[i]
           /\ \E n \in 1 .. LogSize : keys = [i \in 1 .. n |-> keys[i]]
<1> DEFINE head == cache.HeadLogIndex
           len == IF slot <= head THEN head - slot + 1 ELSE LogSize - slot + head + 1
           at(i) == (slot + i - 1) % LogSize
           keys == KeysFrom(cache, slot)
           later == {u \in Slots : u = slot \/ Older(cache, slot, u)}
<1>1. /\ LogSize \in Nat /\ head \in Nat /\ head < LogSize /\ slot \in Nat /\ slot < LogSize
      /\ \A u : u \in Slots <=> u \in Nat /\ u < LogSize
  BY LogSizeAssumption DEF CacheType, Slots
<1>2. \A s, t : Older(cache, s, t) <=> \/ s < t /\ (t <= head \/ head < s)
                                       \/ head < s /\ t <= head
  BY DEF Older
<1>3. keys = [i \in 1 .. len |-> cache.Log[at(i)]]
  BY DEF KeysFrom
<1> HIDE DEF head
<1>4. len \in 1 .. LogSize
  BY <1>1
<1>5. ASSUME NEW i \in 1 .. len
      PROVE  at(i) = IF slot + i <= LogSize THEN slot + i - 1 ELSE slot + i - 1 - LogSize
  <2> HIDE DEF len
  <2>1. i \in 1 .. LogSize
    BY <1>1, <1>4
  <2> QED  BY <2>1, SlotFrom, Zenon
<1> HIDE DEF at, keys, len
<1>6. ASSUME NEW i \in 1 .. len  PROVE  at(i) \in later
  <2>1. CASE slot + i <= LogSize
    <3>1. at(i) = slot + i - 1
      BY <1>5, <2>1
    <3>2. at(i) \in Nat /\ at(i) < LogSize /\ (at(i) = slot \/ slot < at(i))
      BY <1>1, <1>4, <2>1, <3>1
    <3>3. at(i) <= head \/ head < slot
      BY <1>1, <1>4, <2>1, <3>1 DEF len
    <3> QED  BY <1>1, <1>2, <3>2, <3>3
  <2>2. CASE ~(slot + i <= LogSize)
    <3>1. at(i) = slot + i - 1 - LogSize
      BY <1>5, <2>2
    <3>2. head < slot /\ i <= LogSize - slot + head + 1
      BY <1>1, <1>4, <2>2 DEF len
    <3>3. at(i) \in Nat /\ at(i) <= head /\ at(i) < LogSize
      BY <1>1, <1>4, <2>2, <3>1, <3>2
    <3> QED  BY <1>1, <1>2, <3>2, <3>3
  <2> QED  BY <2>1, <2>2
<1>7. ASSUME NEW u \in later  PROVE  \E i \in 1 .. len : at(i) = u
  <2> DEFINE i == IF slot <= u THEN u - slot + 1 ELSE LogSize - slot + u + 1
  <2>1. u \in Nat /\ u < LogSize
    BY <1>1
  <2>2. \/ u = slot
        \/ slot < u /\ (u <= head \/ head < slot)
        \/ head < slot /\ u <= head
    BY <1>2
  <2>3. i \in 1 .. len
    BY <1>1, <2>1, <2>2 DEF len
  <2>4. at(i) = u
    <3>1. at(i) = IF slot + i <= LogSize THEN slot + i - 1 ELSE slot + i - 1 - LogSize
      BY <1>5, <2>3
    <3> QED  BY <1>1, <2>1, <3>1
  <2> QED  BY <2>3, <2>4
<1>8. ASSUME NEW i \in 2 .. len  PROVE  Older(cache, at(i - 1), at(i))
  <2>1. i \in 1 .. len /\ i - 1 \in 1 .. len /\ i \in Nat /\ len \in Nat
    BY <1>4
  <2>2. /\ at(i) = IF slot + i <= LogSize THEN slot + i - 1 ELSE slot + i - 1 - LogSize
        /\ at(i - 1) = IF slot + (i - 1) <= LogSize THEN slot + (i - 1) - 1
                       ELSE slot + (i - 1) - 1 - LogSize
    BY <1>5, <2>1
  <2>3. CASE slot + i <= LogSize
    <3>1. at(i) = slot + i - 1 /\ at(i - 1) = slot + i - 2
      BY <1>1, <2>1, <2>2, <2>3
    <3>2. at(i) <= head \/ head < at(i - 1)
      BY <1>1, <2>1, <3>1 DEF len
    <3> QED  BY <1>1, <1>2, <2>1, <3>1, <3>2
  <2>4. CASE ~(slot + i <= LogSize)
    <3>1. head < slot /\ at(i) = slot + i - 1 - LogSize /\ at(i) <= head
      BY <1>1, <2>1, <2>2, <2>4 DEF len
    <3>2. at(i - 1) = LogSize - 1 \/ at(i - 1) = at(i) - 1
      BY <1>1, <2>1, <2>2, <2>4, <3>1
    <3> QED  BY <1>1, <1>2, <2>1, <3>1, <3>2
  <2> QED  BY <2>3, <2>4
<1>9. Range(keys) = {cache.Log[u] : u \in later}
  BY <1>3, <1>6, <1>7 DEF Range
<1>10. ASSUME NEW i \in 2 .. Len(keys)  PROVE  keys[i - 1] < keys[i]
  <2>1. Len(keys) = len
    BY <1>3, <1>4
  <2>2. i \in 1 .. len /\ i - 1 \in 1 .. len
    BY <1>4, <1>10, <2>1
  <2>3. keys[i] = cache.Log[at(i)] /\ keys[i - 1] = cache.Log[at(i - 1)]
    BY <1>3, <2>2
  <2>4. at(i) \in Slots /\ at(i - 1) \in later /\ Older(cache, at(i - 1), at(i))
    BY <1>6, <1>8, <1>10, <2>1, <2>2
  <2>5. cache.Log[at(i - 1)] \in DOMAIN cache.Events
    BY <2>4 DEF RingOK
  <2> QED  BY <2>3, <2>4, <2>5 DEF RingOK
<1>11. keys = [i \in 1 .. len |-> keys[i]]
  BY <1>3
<1> QED  BY SMTT(20), <1>4, <1>9, <1>10, <1>11 DEF keys

\* ReplayFrom: when it succeeds it returns all the changes from the start
\* index on, each once and in the order they were made.
LEMMA ReplayOK ==
    ASSUME NEW cache, NEW changes \in SUBSET (Nat \ {0}), CacheOK(cache, changes),
           NEW start \in Nat, ReplayFrom(cache, start).result = Success
    PROVE  LET events == ReplayFrom(cache, start).events IN
           /\ Range(events) = {i \in changes : start <= i}
           /\ \A i \in 2 .. Len(events) : events[i - 1] < events[i]
           /\ \E n \in 1 .. LogSize : events \in [1 .. n -> DOMAIN cache.Events]
<1> DEFINE E == DOMAIN cache.Events
           found == FirstFrom(cache, start)
           first == Min(found)
           slots == {i \in Slots : cache.Log[i] = first}
           slot == Min(slots)
           later == {u \in Slots : u = slot \/ Older(cache, slot, u)}
<1>1. /\ cache.HeadLogIndex \in Slots /\ cache.Log \in [Slots -> Nat]
      /\ currentIndex(cache) = cache.Log[cache.HeadLogIndex] /\ currentIndex(cache) \in Nat
      /\ cache.MinEntryIndex \in Nat
  BY DEF CacheOK, CacheType, currentIndex
<1>2. E \subseteq changes /\ \A i \in E : i \in Nat /\ i # 0 /\ i <= currentIndex(cache)
  BY Zenon DEF CacheOK, HoldsChanges
<1>3. /\ slots # {}
      /\ start \in E \/ (cache.MinEntryIndex <= start /\ found # {})
      /\ ReplayFrom(cache, start).events = KeysFrom(cache, slot)
  <2>1. Success # FullSyncRequired /\ Success # RequestFromFuture
    BY DEF Success, FullSyncRequired, RequestFromFuture
  <2> QED  BY <1>1, <2>1 DEF ReplayFrom, Failed
<1>4. found \in SUBSET Nat /\ found # {} /\ (start \in E => start \in found)
  BY <1>2, <1>3 DEF FirstFrom
<1> HIDE DEF found, slots
<1>5. first \in found /\ \A i \in found : first <= i
  BY <1>4, MinNat
<1>6. slot \in slots
  <2>1. slots \in SUBSET Nat
    BY DEF slots, Slots
  <2> QED  BY <1>3, <2>1, MinNat
<1> HIDE DEF first, slot
<1>7. slot \in Slots /\ cache.Log[slot] = first
  BY <1>6 DEF slots
<1>8. first \in E /\ first \in Nat /\ first # 0 /\ start <= first
  BY <1>2, <1>5 DEF found, FirstFrom
<1>9. /\ Range(KeysFrom(cache, slot)) = {cache.Log[u] : u \in later}
      /\ \A i \in 2 .. Len(KeysFrom(cache, slot)) :
            KeysFrom(cache, slot)[i - 1] < KeysFrom(cache, slot)[i]
      /\ \E n \in 1 .. LogSize :
            KeysFrom(cache, slot) = [i \in 1 .. n |-> KeysFrom(cache, slot)[i]]
  BY <1>2, <1>7, <1>8, KeysFromOK DEF CacheOK
<1>10. ASSUME NEW u \in later
       PROVE  cache.Log[u] \in E /\ cache.Log[u] \in changes /\ start <= cache.Log[u]
  <2>1. CASE u = slot
    BY <1>2, <1>7, <1>8, <2>1
  <2>2. CASE Older(cache, slot, u)
    <3>1. cache.Log[u] \in E /\ first < cache.Log[u]
      BY <1>7, <1>8, <2>2 DEF CacheOK, RingOK
    <3> QED  BY <1>2, <1>8, <3>1
  <2> QED  BY <2>1, <2>2
<1>11. ASSUME NEW i \in changes, start <= i  PROVE  \E u \in later : cache.Log[u] = i
  <2>1. i \in Nat /\ i # 0 /\ i <= currentIndex(cache)
    BY DEF CacheOK, HoldsChanges
  <2>2. i \in E
    <3>1. CASE first < i
      BY <1>7, <1>8, <3>1 DEF CacheOK, HoldsChanges
    <3>2. CASE i = first
      BY <1>8, <3>2
    <3>3. CASE i < first
      <4>1. start \notin found
        BY <1>5, <1>8, <1>11, <2>1, <3>3
      <4>2. cache.MinEntryIndex <= start /\ cache.MinEntryIndex # 0
        BY <1>3, <1>4, <1>8, <4>1 DEF CacheOK, HoldsChanges
      <4> QED  BY <1>1, <1>11, <2>1, <4>2 DEF CacheOK, HoldsChanges
    <3> QED  BY <1>8, <2>1, <3>1, <3>2, <3>3
  <2>3. first <= i
    BY <1>5, <1>11, <2>1, <2>2 DEF found, FirstFrom
  <2>4. PICK u \in Slots : cache.Log[u] = i
    BY <2>2 DEF CacheOK, HoldsChanges
  <2>5. u = slot \/ Older(cache, slot, u) \/ Older(cache, u, slot)
    BY <1>1, <1>7 DEF Older, Slots
  <2>6. ~Older(cache, u, slot)
    BY <1>7, <1>8, <2>1, <2>3, <2>4 DEF CacheOK, RingOK
  <2> QED  BY <2>4, <2>5, <2>6
<1>12. {cache.Log[u] : u \in later} = {i \in changes : start <= i}
  BY <1>10, <1>11
<1>13. \E n \in 1 .. LogSize : KeysFrom(cache, slot) \in [1 .. n -> E]
  <2>1. PICK n \in 1 .. LogSize :
          KeysFrom(cache, slot) = [i \in 1 .. n |-> KeysFrom(cache, slot)[i]]
    BY <1>9
  <2>2. \A i \in 1 .. n : KeysFrom(cache, slot)[i] \in Range(KeysFrom(cache, slot))
    BY <2>1 DEF Range
  <2>3. \A i \in 1 .. n : KeysFrom(cache, slot)[i] \in E
    BY Zenon, <1>9, <1>10, <2>2
  <2> QED  BY <2>1, <2>3
<1> QED  BY Zenon, <1>3, <1>9, <1>12, <1>13

-----------------------------------------------------------------------------
(* The controllers *)

Changes(log, n) == {i \in 1 .. n : log[i].model}

\* What a controller has applied is in the log of the current timeline, its
\* cache holds the changes among it, each with the one before it, and its model
\* consists of them.
CtrlOK(r, log) ==
    /\ r = [applied |-> r.applied, cache |-> r.cache, model |-> r.model, event |-> r.event]
    /\ r.applied \in 1 .. Len(log)
    /\ 1 <= currentIndex(r.cache) /\ currentIndex(r.cache) <= r.applied
    /\ CacheOK(r.cache, Changes(log, r.applied))
    /\ PreviousOK(r.cache, Changes(log, r.applied))
    /\ r.model = Contents(log, r.applied)

Logs == Seq([timeline : Nat, model : BOOLEAN])

\* The inductive invariant.  Every timeline but the first costs a fault.
DataModelInv ==
    /\ faults \in 0 .. MaxFaults /\ timeline \in 1 .. faults + 1
    /\ history \in [Timelines -> Logs]
    /\ ctrl = [c \in Controllers |-> ctrl[c]]
    /\ \A c \in Controllers : CtrlOK(ctrl[c], Log)

-----------------------------------------------------------------------------
\* A function on 1 .. n is a sequence.
LEMMA FunctionIsSeq ==
    ASSUME NEW S, NEW n \in Nat, NEW f \in [1 .. n -> S]
    PROVE  f \in Seq(S) /\ Len(f) = n
<1>1. f \in Seq(S)
  OBVIOUS
<1>2. DOMAIN f = 1 .. Len(f) /\ Len(f) \in Nat /\ DOMAIN f = 1 .. n
  BY <1>1
<1> QED  BY <1>1, <1>2

\* What a log has in common with another, up to an index, it has as changes.
LEMMA SameStart ==
    ASSUME NEW log, NEW other, NEW n \in Nat, \A i \in 1 .. n : other[i] = log[i]
    PROVE  Changes(other, n) = Changes(log, n) /\ Contents(other, n) = Contents(log, n)
<1>1. Changes(other, n) = Changes(log, n)
  BY DEF Changes
<1>2. /\ Contents(log, n) = {<<log[i].timeline, i>> : i \in Changes(log, n)}
      /\ Contents(other, n) = {<<other[i].timeline, i>> : i \in Changes(log, n)}
  BY <1>1 DEF Contents, Changes
<1>3. \A i \in Changes(log, n) : other[i] = log[i]
  BY DEF Changes
<1> QED  BY <1>1, <1>2, <1>3

\* BuildAll leaves a controller with a cache that has missed nothing.
LEMMA StartedOK ==
    ASSUME NEW log \in Logs, NEW index \in 1 .. Len(log)
    PROVE  CtrlOK(Started(log, index), log)
<1> DEFINE r == Started(log, index)
<1>1. /\ r = [applied |-> r.applied, cache |-> r.cache, model |-> r.model, event |-> r.event]
      /\ r.applied = index /\ r.cache = SetCurrentIndex(NewLoggingEventCache, index)
      /\ r.model = Contents(log, index)
  BY DEF Started
<1>2. Len(log) \in Nat /\ index \in Nat
  BY DEF Logs
<1>3. Changes(log, index) \in SUBSET (1 .. index)
  BY DEF Changes
<1>4. CacheOK(r.cache, Changes(log, index)) /\ currentIndex(r.cache) = index
  BY <1>1, <1>2, <1>3, FreshCacheOK
<1>5. PreviousOK(r.cache, Changes(log, index))
  <2>1. DOMAIN r.cache.Events = {}
    BY <1>1 DEF SetCurrentIndex, NewLoggingEventCache
  <2> QED  BY <2>1 DEF PreviousOK
<1> HIDE DEF r
<1> QED  BY <1>1, <1>2, <1>4, <1>5 DEF CtrlOK, r

\* Applying the next entry stores its change, if it made one.
LEMMA AppliedOK ==
    ASSUME NEW log \in Logs, NEW r, CtrlOK(r, log), r.applied < Len(log)
    PROVE  CtrlOK(Applied(r, log), log)
<1> DEFINE index == r.applied + 1
           new == Applied(r, log)
<1>1. Len(log) \in Nat /\ r.applied \in Nat /\ index \in 1 .. Len(log)
  BY DEF CtrlOK, Logs
<1>2. /\ Changes(log, r.applied) \in SUBSET (Nat \ {0})
      /\ CacheOK(r.cache, Changes(log, r.applied)) /\ currentIndex(r.cache) <= r.applied
      /\ PreviousOK(r.cache, Changes(log, r.applied)) /\ 1 <= currentIndex(r.cache)
      /\ r.model = Contents(log, r.applied)
  BY <1>1 DEF Changes, CtrlOK
<1>3. currentIndex(r.cache) \in Nat
  BY <1>2 DEF CacheOK, CacheType, currentIndex
<1>4. CASE log[index].model
  <2>1. /\ new = [applied |-> new.applied, cache |-> new.cache, model |-> new.model, event |-> new.event]
        /\ new.applied = index /\ new.cache = Store(r.cache, index)
        /\ new.model = r.model \cup {<<log[index].timeline, index>>}
    BY <1>4 DEF Applied
  <2>2. Changes(log, index) = Changes(log, r.applied) \cup {index}
    BY <1>1, <1>4 DEF Changes
  <2>3. /\ CacheOK(new.cache, Changes(log, index)) /\ currentIndex(new.cache) = index
        /\ PreviousOK(new.cache, Changes(log, index))
    <3> HIDE DEF new, index
    <3>1. index \in Nat /\ currentIndex(r.cache) < index
      BY <1>1, <1>2, <1>3 DEF index
    <3>2. /\ CacheOK(Store(r.cache, index), Changes(log, r.applied) \cup {index})
          /\ currentIndex(Store(r.cache, index)) = index
      BY <1>2, <3>1, StoreOK
    <3>3. PreviousOK(Store(r.cache, index), Changes(log, r.applied) \cup {index})
      BY <1>2, <1>3, <3>1, StorePrevious
    <3> QED  BY <2>1, <2>2, <3>2, <3>3
  <2>4. new.model = Contents(log, index)
    BY <1>1, <1>2, <1>4, <2>1 DEF Contents
  <2> HIDE DEF new
  <2> QED  BY <1>1, <2>1, <2>3, <2>4 DEF CtrlOK, new
<1>5. CASE ~log[index].model
  <2>1. new = [r EXCEPT !.applied = index]
    BY <1>5 DEF Applied
  <2>2. /\ new = [applied |-> new.applied, cache |-> new.cache, model |-> new.model, event |-> new.event]
        /\ new.applied = index /\ new.cache = r.cache /\ new.model = r.model
    BY <2>1 DEF CtrlOK
  <2>3. /\ Changes(log, index) = Changes(log, r.applied)
        /\ Contents(log, index) = Contents(log, r.applied)
    BY <1>1, <1>5 DEF Changes, Contents
  <2> HIDE DEF new
  <2> QED  BY <1>1, <1>2, <1>3, <2>2, <2>3 DEF CtrlOK, new
<1> QED  BY <1>4, <1>5

\* The flag of handleRouterModelEvents does not matter to the cache.
LEMMA EventOK ==
    ASSUME NEW log, NEW r, CtrlOK(r, log), NEW event
    PROVE  CtrlOK([r EXCEPT !.event = event], log)
<1> DEFINE e == [r EXCEPT !.event = event]
<1>1. /\ e = [applied |-> e.applied, cache |-> e.cache, model |-> e.model, event |-> e.event]
      /\ e.applied = r.applied /\ e.cache = r.cache /\ e.model = r.model
  BY DEF CtrlOK
<1> HIDE DEF e
<1>2. CtrlOK(e, log)
  BY <1>1 DEF CtrlOK
<1> QED  BY <1>2 DEF e

\* The controllers start with caches that have missed nothing.
LEMMA InitInv == Init => DataModelInv
<1> SUFFICES ASSUME Init  PROVE DataModelInv
  OBVIOUS
<1> DEFINE log == [i \in DOMAIN StartLog |-> [timeline |-> 1, model |-> StartLog[i]]]
<1>1. /\ StartLog \in Seq(BOOLEAN) /\ StartIndex \in [Controllers -> 1 .. Len(StartLog)]
      /\ MaxFaults \in Nat
  BY BoundsAssumption DEF Bounds
<1>2. log \in Logs /\ Len(log) = Len(StartLog) /\ Len(log) \in Nat
  <2>1. Len(StartLog) \in Nat /\ DOMAIN StartLog = 1 .. Len(StartLog)
    BY <1>1
  <2>2. log \in [1 .. Len(StartLog) -> [timeline : Nat, model : BOOLEAN]]
    BY <1>1, <2>1
  <2> QED  BY <2>1, <2>2, FunctionIsSeq DEF Logs
<1>3. /\ faults = 0 /\ timeline = 1 /\ history = [t \in Timelines |-> IF t = 1 THEN log ELSE <<>>]
      /\ ctrl = [c \in Controllers |-> AtStart(log, StartIndex[c])]
  BY DEF Init
<1> HIDE DEF log
<1>4. <<>> \in Logs
  BY DEF Logs
<1>5. history \in [Timelines -> Logs] /\ Log = log
  BY <1>1, <1>2, <1>3, <1>4 DEF Timelines, Log
<1>6. ASSUME NEW c \in Controllers  PROVE  CtrlOK(AtStart(log, StartIndex[c]), log)
  <2>1. StartIndex[c] \in 1 .. Len(log)
    BY <1>1, <1>2
  <2>2. CtrlOK(Started(log, StartIndex[c]), log) /\ Started(log, StartIndex[c]).applied = StartIndex[c]
    BY <1>2, <2>1, StartedOK DEF Started
  <2>3. CASE StartIndex[c] < Len(log)
    <3>1. CtrlOK(Applied(Started(log, StartIndex[c]), log), log)
      BY <1>2, <2>2, <2>3, AppliedOK
    <3> QED  BY <2>3, <3>1, EventOK DEF AtStart
  <2>4. CASE ~(StartIndex[c] < Len(log))
    BY <2>2, <2>4 DEF AtStart
  <2> QED  BY <2>3, <2>4
<1> QED  BY <1>1, <1>3, <1>5, <1>6 DEF DataModelInv

-----------------------------------------------------------------------------
FaultStep == faults' = faults \/ (faults < MaxFaults /\ faults' = faults + 1)

\* Nothing a sender or the router does touches a log or a cache.
LEMMA OtherStep ==
    ASSUME Next
    PROVE  \/ Commit \/ Restore
           \/ \E c \in Controllers : ApplyEntry(c) \/ FanOut(c) \/ RestartController(c)
           \/ UNCHANGED ctrlVars /\ FaultStep
<1> USE DEF ctrlVars, linkVars, routerVars, FaultStep, Fault, NoFault
<1>1. ASSUME NEW c \in Controllers, RouterConnected(c) \/ ReceiveClientHello(c)
      PROVE  UNCHANGED ctrlVars /\ FaultStep
  BY Zenon, <1>1 DEF RouterConnected, ReceiveClientHello
<1>2. ASSUME NEW c \in Controllers, NEW r, HandleModelChange(c, r)
      PROVE  FaultStep
  BY Zenon, <1>2 DEF HandleModelChange
<1>3. ASSUME NEW c \in Controllers, SenderStep(c)
      PROVE  UNCHANGED ctrlVars /\ FaultStep
  BY <1>2, <1>3 DEF SenderStep, NotifiedOfModelChange, HandleSyncRequest
<1>4. ASSUME NEW c \in Controllers, Receive(c) \/ Validate(c) \/ Reconnect(c)
      PROVE  UNCHANGED ctrlVars /\ FaultStep
  BY <1>4 DEF Receive, Validate, Reconnect
<1>5. ASSUME WorkerStep \/ RepairStep
      PROVE  UNCHANGED ctrlVars /\ FaultStep
  BY <1>5 DEF WorkerStep, ApplyChangeSet, ApplyDataState, RepairStep, ResetSubscription, ReplaceModel
<1>6. ASSUME ManagerStep
      PROVE  UNCHANGED ctrlVars /\ FaultStep
  <2>1. ASSUME NEW c \in Controllers, EndpointChanged(c)  PROVE  UNCHANGED ctrlVars /\ FaultStep
    BY <2>1 DEF EndpointChanged
  <2>2. ASSUME NEW c \in Controllers, CheckSubscription(c)  PROVE  UNCHANGED ctrlVars /\ FaultStep
    BY <2>2 DEF CheckSubscription
  <2>3. ASSUME LoadResync \/ LoadIndex \/ SendSubscribe \/ SubscribeSent
        PROVE  UNCHANGED ctrlVars /\ FaultStep
    BY <2>3 DEF LoadResync, LoadIndex, SendSubscribe, SubscribeSent
  <2> QED  BY <1>6, <2>1, <2>2, <2>3 DEF ManagerStep
<1>7. ASSUME Save \/ RestartRouter
      PROVE  UNCHANGED ctrlVars /\ FaultStep
  BY Zenon, <1>7 DEF Save, RestartRouter
<1>8. ASSUME NEW c \in Controllers, SubscriptionExpires(c) \/ RequestValidation(c) \/ Disconnect(c)
      PROVE  UNCHANGED ctrlVars /\ FaultStep
  BY Zenon, <1>8 DEF SubscriptionExpires, RequestValidation, Disconnect
<1> QED  BY <1>1, <1>3, <1>4, <1>5, <1>6, <1>7, <1>8 DEF Next, Environment

\* Every step keeps the caches of all controllers in order.
LEMMA NextInv == DataModelInv /\ [Next]_vars => DataModelInv'
<1> SUFFICES ASSUME DataModelInv, [Next]_vars  PROVE  DataModelInv'
  OBVIOUS
<1>1. MaxFaults \in Nat
  BY BoundsAssumption DEF Bounds
<1>2. /\ timeline \in Timelines /\ history \in [Timelines -> Logs]
      /\ Log = history[timeline] /\ Log \in Logs /\ Len(Log) \in Nat
      /\ faults \in 0 .. MaxFaults /\ timeline \in 1 .. faults + 1
  BY <1>1 DEF DataModelInv, Timelines, Log, Logs
<1>3. ctrl = [c \in Controllers |-> ctrl[c]] /\ \A c \in Controllers : CtrlOK(ctrl[c], Log)
  BY DEF DataModelInv
<1>4. CASE Commit
  <2>1. PICK model \in BOOLEAN :
          history' = [history EXCEPT ![timeline] = Append(@, [timeline |-> timeline, model |-> model])]
    BY Zenon, <1>4 DEF Commit
  <2>2. ctrl' = ctrl /\ timeline' = timeline /\ faults' = faults
    BY <1>4 DEF Commit
  <2>3. [timeline |-> timeline, model |-> model] \in [timeline : Nat, model : BOOLEAN]
    BY <1>1, <1>2 DEF Timelines
  <2> DEFINE new == Append(Log, [timeline |-> timeline, model |-> model])
  <2>4. /\ new \in Logs /\ Len(new) = Len(Log) + 1
        /\ \A i \in 1 .. Len(Log) : new[i] = Log[i]
    BY <1>2, <2>3, AppendParts DEF Logs
  <2>5. history' = [history EXCEPT ![timeline] = new]
    BY <1>2, <2>1
  <2> HIDE DEF new
  <2>6. history' \in [Timelines -> Logs] /\ Log' = new
    BY SMTT(20), <1>2, <2>2, <2>4, <2>5 DEF Log
  <2>7. ASSUME NEW c \in Controllers  PROVE  CtrlOK(ctrl[c], new)
    <3>1. CtrlOK(ctrl[c], Log)
      BY <1>3
    <3>2. /\ Changes(new, ctrl[c].applied) = Changes(Log, ctrl[c].applied)
          /\ Contents(new, ctrl[c].applied) = Contents(Log, ctrl[c].applied)
      <4>1. /\ ctrl[c].applied \in Nat
            /\ \A i \in 1 .. ctrl[c].applied : new[i] = Log[i]
        BY <1>2, <2>4, <3>1 DEF CtrlOK
      <4> QED  BY Zenon, <4>1, SameStart
    <3> QED  BY <1>2, <2>4, <3>1, <3>2 DEF CtrlOK
  <2> QED  BY <1>2, <1>3, <2>2, <2>6, <2>7 DEF DataModelInv
<1>5. ASSUME NEW c \in Controllers, ApplyEntry(c)  PROVE  DataModelInv'
  <2>1. /\ ctrl[c].applied < Len(Log) /\ ctrl' = [ctrl EXCEPT ![c] = Applied(ctrl[c], Log)]
        /\ history' = history /\ timeline' = timeline /\ faults' = faults
    BY <1>5 DEF ApplyEntry
  <2>2. CtrlOK(Applied(ctrl[c], Log), Log)
    BY <1>2, <1>3, <2>1, AppliedOK
  <2>3. Log' = Log
    BY <2>1 DEF Log
  <2> QED  BY <1>2, <1>3, <2>1, <2>2, <2>3 DEF DataModelInv
<1>6. ASSUME NEW c \in Controllers, FanOut(c)  PROVE  DataModelInv'
  <2> DEFINE e == [ctrl[c] EXCEPT !.event = FALSE]
  <2>1. /\ ctrl' = [ctrl EXCEPT ![c] = e]
        /\ history' = history /\ timeline' = timeline /\ faults' = faults
    BY <1>6 DEF FanOut
  <2>2. CtrlOK(ctrl[c], Log)
    BY <1>3
  <2>3. CtrlOK(e, Log)
    BY <2>2, EventOK
  <2> HIDE DEF e
  <2>4. Log' = Log
    BY <2>1 DEF Log
  <2> QED  BY <1>2, <1>3, <2>1, <2>3, <2>4 DEF DataModelInv
<1>7. ASSUME NEW c \in Controllers, RestartController(c)  PROVE  DataModelInv'
  <2>1. PICK index \in ctrl[c].applied .. Len(Log) :
          ctrl' = [ctrl EXCEPT ![c] = Started(Log, index)]
    BY Zenon, <1>7 DEF RestartController
  <2>2. /\ history' = history /\ timeline' = timeline
        /\ faults < MaxFaults /\ faults' = faults + 1
    BY Zenon, <1>7 DEF RestartController, Fault
  <2>3. index \in 1 .. Len(Log)
    BY <1>2, <1>3, <2>1 DEF CtrlOK
  <2>4. CtrlOK(Started(Log, index), Log)
    BY <1>2, <2>3, StartedOK
  <2>5. Log' = Log
    BY <2>2 DEF Log
  <2>6. faults' \in 0 .. MaxFaults /\ timeline' \in 1 .. faults' + 1
    BY <1>1, <1>2, <2>2
  <2> QED  BY <1>2, <1>3, <2>1, <2>2, <2>4, <2>5, <2>6 DEF DataModelInv
<1>8. CASE Restore
  <2>1. /\ timeline' = timeline + 1 /\ faults < MaxFaults /\ faults' = faults + 1
    BY <1>8 DEF Restore, Fault
  <2>2. PICK n \in 1 .. Len(Log) : \E len \in {n, Len(Log) + 1} :
          /\ history' = [history EXCEPT ![timeline + 1] = Branched(n, len)]
          /\ ctrl' = [c \in Controllers |-> Started(Branched(n, len), len)]
    BY Zenon, <1>8 DEF Restore
  <2>3. PICK len \in {n, Len(Log) + 1} :
          /\ history' = [history EXCEPT ![timeline + 1] = Branched(n, len)]
          /\ ctrl' = [c \in Controllers |-> Started(Branched(n, len), len)]
    BY Zenon, <2>2
  <2>4. len \in Nat /\ 1 <= len /\ n \in Nat /\ n <= Len(Log)
    BY <1>2, <2>3
  <2> DEFINE log == Branched(n, len)
  <2>5. log \in [1 .. len -> [timeline : Nat, model : BOOLEAN]]
    <3>1. ASSUME NEW i \in 1 .. len, i <= n  PROVE  Log[i] \in [timeline : Nat, model : BOOLEAN]
      <4>1. i \in 1 .. Len(Log)
        BY <1>2, <2>4, <3>1
      <4> QED  BY Zenon, <1>2, <4>1, ElementType DEF Logs
    <3>2. [timeline |-> timeline, model |-> FALSE] \in [timeline : Nat, model : BOOLEAN]
      BY <1>1, <1>2 DEF Timelines
    <3> QED  BY <3>1, <3>2 DEF Branched
  <2> HIDE DEF log
  <2>6. log \in Logs /\ Len(log) = len
    BY Zenon, <2>4, <2>5, FunctionIsSeq DEF Logs
  <2>7. CtrlOK(Started(log, len), log)
    BY <2>4, <2>6, StartedOK
  <2>8. timeline + 1 \in Timelines /\ faults' \in 0 .. MaxFaults /\ timeline' \in 1 .. faults' + 1
    BY <1>1, <1>2, <2>1 DEF Timelines
  <2>9. history' = [history EXCEPT ![timeline + 1] = log]
        /\ ctrl' = [c \in Controllers |-> Started(log, len)]
    BY <2>3 DEF log
  <2>10. history' \in [Timelines -> Logs] /\ Log' = log
    BY <1>2, <2>1, <2>6, <2>8, <2>9 DEF Log
  <2> QED  BY <2>7, <2>8, <2>9, <2>10 DEF DataModelInv
<1>9. CASE UNCHANGED ctrlVars /\ FaultStep
  <2>1. history' = history /\ timeline' = timeline /\ ctrl' = ctrl /\ Log' = Log
    BY <1>9 DEF ctrlVars, Log
  <2>2. faults' \in 0 .. MaxFaults /\ timeline' \in 1 .. faults' + 1
    BY <1>1, <1>2, <1>9, <2>1 DEF FaultStep
  <2> QED  BY <1>2, <1>3, <2>1, <2>2 DEF DataModelInv
<1>10. CASE UNCHANGED vars
  BY SMTT(20), <1>9, <1>10 DEF vars, FaultStep
<1> QED  BY <1>4, <1>5, <1>6, <1>7, <1>8, <1>9, <1>10, OtherStep

\* And then a replay that succeeds is complete (ReplayFrom).
LEMMA InvReplay == DataModelInv => ReplayIsComplete
<1> SUFFICES ASSUME DataModelInv, NEW c \in Controllers, NEW start \in 1 .. Len(Log),
                    ReplayFrom(ctrl[c].cache, start).result = Success
             PROVE  LET cache  == ctrl[c].cache
                        events == ReplayFrom(cache, start).events
                    IN  /\ Range(events) = {i \in start .. currentIndex(cache) : Log[i].model}
                        /\ \A i \in 2 .. Len(events) : events[i - 1] < events[i]
  BY DEF ReplayIsComplete
<1> DEFINE cache == ctrl[c].cache
           changes == Changes(Log, ctrl[c].applied)
<1>1. CtrlOK(ctrl[c], Log)
  BY DEF DataModelInv
<1>2. Len(Log) \in Nat
  <2>1. Log \in Logs
    BY SMTT(20), BoundsAssumption DEF DataModelInv, Bounds, Timelines, Log
  <2> QED  BY <2>1 DEF Logs
<1>3. ctrl[c].applied \in Nat /\ start \in Nat /\ 0 < start
  BY SMTT(20), <1>1, <1>2 DEF CtrlOK
<1>4. changes \in SUBSET (Nat \ {0}) /\ CacheOK(cache, changes)
  BY SMTT(20), <1>1, <1>3 DEF Changes, CtrlOK
<1>5. /\ Range(ReplayFrom(cache, start).events) = {i \in changes : start <= i}
      /\ \A i \in 2 .. Len(ReplayFrom(cache, start).events) :
            ReplayFrom(cache, start).events[i - 1] < ReplayFrom(cache, start).events[i]
  BY SMTT(20), <1>3, <1>4, ReplayOK
<1>6. {i \in changes : start <= i} = {i \in start .. currentIndex(cache) : Log[i].model}
  <2>1. currentIndex(cache) \in Nat /\ currentIndex(cache) <= ctrl[c].applied
    BY Zenon, <1>1, <1>4 DEF CacheOK, CacheType, currentIndex, CtrlOK
  <2>2. \A i \in changes : i <= currentIndex(cache)
    BY <1>4 DEF CacheOK, HoldsChanges
  <2> HIDE DEF cache
  <2> QED  BY SMTT(20), <1>3, <2>1, <2>2 DEF Changes
<1> QED  BY SMTT(20), <1>5, <1>6

\* However often the ring wraps around, the controllers restart or the
\* database is restored, a replay that succeeds (LoggingEventCache.ReplayFrom)
\* leaves no change out and keeps them in order.
THEOREM ReplayCompleteness == Spec => []ReplayIsComplete
<1>1. Spec => []DataModelInv
  BY InitInv, NextInv, PTL DEF Spec
<1> QED  BY <1>1, InvReplay, PTL

-----------------------------------------------------------------------------
(* Messages, senders and their types *)

Ids == {NoId, Current, Old}
Models ==
    [timelineId : Timelines \cup {NoTimeline}, index : Nat, contents : SUBSET (Nat \X Nat)]
ChangeSets ==
    [type : {"changeSet"}, subscriptionId : Ids, index : Nat, previousIndex : Nat,
     change : Nat \X Nat]
DataStates == [type : {"dataState"}, subscriptionId : Ids, model : Models]
Messages == ChangeSets \cup DataStates

IsRequest(q) ==
    /\ q = [currentIndex |-> q.currentIndex, renew |-> q.renew,
            timelineId |-> q.timelineId, subscriptionId |-> q.subscriptionId]
    /\ q.currentIndex \in Nat /\ q.subscriptionId \in Ids

IsSender(r) ==
    /\ r = [on |-> r.on, supportsRouterModel |-> r.supportsRouterModel,
            currentIndex |-> r.currentIndex, timelineId |-> r.timelineId,
            subscriptionId |-> r.subscriptionId, active |-> r.active,
            modelChange |-> r.modelChange, requestModelSync |-> r.requestModelSync]
    /\ r.currentIndex \in Nat /\ r.subscriptionId \in Ids
    /\ \A i \in DOMAIN r.requestModelSync : IsRequest(r.requestModelSync[i])

\* The types of what the controllers and the router have and send.
CopyTypes ==
    /\ rdm \in Models /\ saved \in Models /\ fix \in Seq(Models)
    /\ lowPriority \in [Controllers -> Seq(Models)]
    /\ sub \in {NoSubscription} \cup {<<c>> : c \in Controllers}
QueueTypes ==
    /\ pool \in Seq(Messages) /\ Len(pool) <= PoolSize
    /\ down \in [Controllers -> Seq(Messages)]
SenderTypes ==
    /\ rtx = [c \in Controllers |-> rtx[c]]
    /\ \A c \in Controllers : IsSender(rtx[c])
ManagerTypes == mgr # Idle /\ mgr[1] = "send" => mgr[4] \in Nat

Typed == DataModelInv /\ CopyTypes /\ QueueTypes /\ SenderTypes /\ ManagerTypes

-----------------------------------------------------------------------------
\* m is a change of the log of timeline t, one of the first n of history h, and
\* its previousIndex leaves none out.
ChangeAt(h, n, m, t) ==
    /\ t \in 1 .. n
    /\ m.previousIndex > 0 /\ m.previousIndex < m.index /\ m.index <= Len(h[t])
    /\ h[t][m.index].model
    /\ m.change = <<h[t][m.index].timeline, m.index>>
    /\ \A i \in m.previousIndex + 1 .. m.index - 1 : ~h[t][i].model

\* x is the model as it was after an entry of timeline t.
ModelAt(h, n, x, t) ==
    /\ t \in 1 .. n /\ x.timelineId \in {t, NoTimeline}
    /\ x.index \in 1 .. Len(h[t])
    /\ x.contents = Contents(h[t], x.index)

LEMMA Constants ==
    /\ PoolSize \in Nat \ {0} /\ MaxFaults \in Nat /\ 0 < PoolSize
    /\ NoId \in Ids /\ Current \in Ids /\ Old \in Ids /\ NoId # Current /\ Old # Current
BY BoundsAssumption DEF Bounds, Ids, NoId, Current, Old

LEMMA LogFacts ==
    ASSUME DataModelInv
    PROVE  /\ timeline \in Timelines /\ timeline \in Nat \ {0}
           /\ Log = history[timeline] /\ Log \in Logs /\ Len(Log) \in Nat
BY Constants DEF DataModelInv, Timelines, Log, Logs

LEMMA EntryType ==
    ASSUME NEW log \in Logs, NEW i \in 1 .. Len(log)
    PROVE  log[i].timeline \in Nat /\ i \in Nat
<1>1. log[i] \in [timeline : Nat, model : BOOLEAN]
  BY Zenon, ElementType DEF Logs
<1> QED  BY <1>1

\* The entries of a log make contents of the right type.
LEMMA ContentsType ==
    ASSUME NEW log \in Logs, NEW n \in 0 .. Len(log)
    PROVE  Contents(log, n) \in SUBSET (Nat \X Nat)
<1>1. Len(log) \in Nat
  BY DEF Logs
<1>2. \A i \in 1 .. n : i \in 1 .. Len(log)
  BY <1>1
<1>3. \A i \in 1 .. n : i \in Nat /\ log[i].timeline \in Nat
  BY <1>2, EntryType
<1> QED  BY <1>3 DEF Contents

\* A controller's own model is that of its current index.
LEMMA ControllerModel ==
    ASSUME DataModelInv, NEW c \in Controllers
    PROVE  LET x == Model(timeline, currentIndex(ctrl[c].cache), ctrl[c].model) IN
           /\ x \in Models /\ x.index > 0 /\ x.timelineId = timeline /\ ModelAt(history, timeline, x, timeline)
<1> DEFINE r == ctrl[c]
           n == currentIndex(ctrl[c].cache)
<1>1. /\ r.applied \in 1 .. Len(Log) /\ n \in Nat /\ 1 <= n /\ n <= r.applied
      /\ \A i \in Changes(Log, r.applied) : i <= n
      /\ r.model = Contents(Log, r.applied)
  BY SMTT(20) DEF DataModelInv, CtrlOK, CacheOK, CacheType, HoldsChanges, currentIndex
<1>2. Len(Log) \in Nat /\ r.applied \in Nat
  BY <1>1, LogFacts
<1> HIDE DEF n, r
<1>3. {i \in 1 .. r.applied : Log[i].model} = {i \in 1 .. n : Log[i].model}
  BY <1>1, <1>2 DEF Changes
<1>4. r.model = Contents(Log, n)
  BY <1>1, <1>3 DEF Contents
<1>5. Contents(Log, n) \in SUBSET (Nat \X Nat)
  BY <1>1, <1>2, LogFacts, ContentsType
<1>6. n \in 1 .. Len(Log)
  BY <1>1, <1>2
<1> DEFINE x == Model(timeline, n, r.model)
<1>7. /\ x.timelineId = timeline /\ x.index = n /\ x.contents = Contents(Log, n)
      /\ x = [timelineId |-> timeline, index |-> n, contents |-> Contents(Log, n)]
  BY <1>4 DEF Model
<1>8. x \in Models
  BY <1>1, <1>5, <1>7, LogFacts DEF Models
<1> HIDE DEF x
<1>9. ModelAt(history, timeline, x, timeline)
  BY <1>6, <1>7, LogFacts DEF ModelAt
<1>10. n > 0
  BY SMTT(20), <1>1
<1> QED  BY <1>7, <1>8, <1>9, <1>10 DEF x, n, r

\* An event of a controller's cache makes a change set of its log.
LEMMA ControllerChange ==
    ASSUME DataModelInv, NEW c \in Controllers, NEW s \in Ids,
           NEW k \in DOMAIN ctrl[c].cache.Events
    PROVE  LET m == ChangeSet(s, k, ctrl[c].cache.Events[k]) IN
           /\ m \in ChangeSets /\ m.subscriptionId = s /\ ChangeAt(history, timeline, m, timeline)
<1> DEFINE r == ctrl[c]
           prev == ctrl[c].cache.Events[k]
<1>1. /\ r.applied \in 1 .. Len(Log) /\ k \in Changes(Log, r.applied)
      /\ prev \in Nat \ {0} /\ prev < k
      /\ \A j \in Changes(Log, r.applied) : j <= prev \/ k <= j
  BY DEF DataModelInv, CtrlOK, CacheOK, HoldsChanges, PreviousOK
<1>2. Len(Log) \in Nat /\ r.applied \in Nat /\ r.applied <= Len(Log)
  BY SMTT(20), <1>1, LogFacts
<1>3. k \in 1 .. r.applied /\ Log[k].model
  BY <1>1 DEF Changes
<1> HIDE DEF r, prev
<1>4. k \in Nat /\ k <= Len(Log) /\ k \in 1 .. Len(Log)
  BY <1>2, <1>3
<1>5. Log[k].timeline \in Nat
  BY <1>4, LogFacts, EntryType
<1>6. ASSUME NEW i \in prev + 1 .. k - 1  PROVE  ~Log[i].model
  <2>1. i \in 1 .. r.applied /\ ~(i <= prev \/ k <= i)
    BY <1>1, <1>2, <1>3
  <2> QED  BY <1>1, <2>1 DEF Changes
<1> DEFINE m == ChangeSet(s, k, prev)
<1>7. /\ m = [type |-> "changeSet", subscriptionId |-> s, index |-> k,
              previousIndex |-> prev, change |-> <<Log[k].timeline, k>>]
  BY DEF ChangeSet
<1>8. /\ m.subscriptionId = s /\ m.index = k /\ m.previousIndex = prev
      /\ m.change = <<Log[k].timeline, k>>
  BY <1>7
<1>9. m \in ChangeSets
  BY <1>1, <1>4, <1>5, <1>7 DEF ChangeSets
<1> HIDE DEF m
<1>10. timeline \in 1 .. timeline /\ prev > 0
  BY SMTT(20), <1>1, LogFacts
<1>11. ChangeAt(history, timeline, m, timeline)
  BY <1>1, <1>3, <1>4, <1>6, <1>8, <1>10, LogFacts DEF ChangeAt
<1> QED  BY Zenon, <1>8, <1>9, <1>11 DEF m, prev

IsState(m) == m.type = "dataState"

\* A message on its way from a controller of timeline n is a change of that
\* timeline or the model after one of its entries.
MessageOK(h, n, m) ==
    IF IsState(m) THEN ModelAt(h, n, m.model, n) /\ m.model.timelineId = n
    ELSE ChangeAt(h, n, m, n)

-----------------------------------------------------------------------------
(* What is true of the router's copy and of all that is on its way to it *)

\* A model that a repair puts in place names no timeline.  If the database may
\* be restored in between, the router does not notice that what waits in the
\* pool belongs to another timeline: the two together are left out.
Unmixed == ~({"restore", "fix"} \subseteq Faults)

\* The timeline a model is of, 0 for one that is empty.
Stage(x) == IF x.index = 0 THEN 0 ELSE IF "restore" \in Faults THEN x.timelineId ELSE 1
Full(h, n, x) == ModelAt(h, n, x, Stage(x))
Sound(h, n, x) == x = EmptyModel \/ Full(h, n, x)
Carries(m, t) == IsState(m) /\ Stage(m.model) = t

Copies ==
    /\ Sound(history, timeline, rdm) /\ Sound(history, timeline, saved)
    /\ fix # NoFix => Full(history, timeline, fix[1])
    /\ \A c \in Controllers : \A i \in 1 .. Len(lowPriority[c]) :
          Full(history, timeline, lowPriority[c][i])

\* Disturbances that do not happen.
Kinds ==
    /\ "fix" \notin Faults => fix = NoFix /\ \A c \in Controllers : lowPriority[c] = <<>>
    /\ "restore" \notin Faults => timeline = 1

\* The messages q that wait for a copy of stage s: the full states are of later
\* and later timelines, and a change is of the timeline the copy is at by then.
StateOK(h, n, s, q, i) ==
    /\ Full(h, n, q[i].model) /\ s <= Stage(q[i].model)
    /\ \A j \in 1 .. i - 1 : IsState(q[j]) => Stage(q[j].model) <= Stage(q[i].model)
Due(s, q, i, t) ==
    /\ s = t \/ \E j \in 1 .. i - 1 : Carries(q[j], t)
    /\ \A j \in 1 .. i - 1 : IsState(q[j]) => Stage(q[j].model) <= t
ChangeOK(h, n, s, q, i) == \E t \in 1 .. n : ChangeAt(h, n, q[i], t) /\ Due(s, q, i, t)
PoolOK(h, n, s, q) ==
    \A i \in 1 .. Len(q) :
        IF IsState(q[i]) THEN StateOK(h, n, s, q, i) ELSE ChangeOK(h, n, s, q, i)

DownOK == \A c \in Controllers : \A i \in 1 .. Len(down[c]) :
              MessageOK(history, timeline, down[c][i])

\* The copy is of timeline n, or will be once it has what waits in q.
Grounded(s, q, n) == s = n \/ \E i \in 1 .. Len(q) : Carries(q[i], n)

\* Among the first k messages of d is a full state of the current subscription.
Brings(d, k) == \E i \in 1 .. k : IsState(d[i]) /\ d[i].subscriptionId = Current
Covered(d) ==
    \A i \in 1 .. Len(d) : ~IsState(d[i]) /\ d[i].subscriptionId = Current => Brings(d, i - 1)
SenderOK(r, d, t) ==
    /\ r.subscriptionId = Current /\ r.timelineId = t => Brings(d, Len(d))
    /\ \A i \in DOMAIN r.requestModelSync :
          ~(r.requestModelSync[i].subscriptionId = Current /\ r.requestModelSync[i].timelineId = t)

\* As long as the copy is of an earlier timeline, the subscription brings the
\* full state before it brings a change.
StateFirst ==
    \/ Grounded(Stage(rdm), pool, timeline)
    \/ \A c \in Controllers : IsCurrentController(c) =>
          Covered(down[c]) /\ SenderOK(rtx[c], down[c], timeline)

ViewInv ==
    /\ Copies /\ Kinds /\ PoolOK(history, timeline, Stage(rdm), pool) /\ DownOK /\ StateFirst

-----------------------------------------------------------------------------
(* Logs only grow *)

Extends(k, l) == Len(k) <= Len(l) /\ \A i \in 1 .. Len(k) : l[i] = k[i]
Grown(h, n, g, m) == n <= m /\ \A t \in 1 .. n : Extends(h[t], g[t])

\* Logs for the first n timelines.
Histories(h, n) == n \in Nat /\ \A t \in 1 .. n : h[t] \in Logs

LEMMA GrownModel ==
    ASSUME NEW h, NEW n, NEW g, NEW m, Histories(h, n), Histories(g, m), Grown(h, n, g, m),
           NEW x, NEW t, ModelAt(h, n, x, t)
    PROVE  ModelAt(g, m, x, t)
<1>1. t \in 1 .. n /\ t \in 1 .. m /\ Extends(h[t], g[t])
  BY DEF ModelAt, Grown, Histories
<1>2. Len(h[t]) \in Nat /\ Len(g[t]) \in Nat
  BY <1>1 DEF Histories, Logs
<1>3. x.index \in 1 .. Len(h[t]) /\ x.timelineId \in {t, NoTimeline}
      /\ x.contents = Contents(h[t], x.index)
  BY DEF ModelAt
<1>4. x.index \in Nat /\ x.index \in 1 .. Len(g[t])
      /\ \A i \in 1 .. x.index : g[t][i] = h[t][i]
  BY <1>1, <1>2, <1>3 DEF Extends
<1>5. Contents(g[t], x.index) = Contents(h[t], x.index)
  BY Zenon, <1>4, SameStart
<1> QED  BY Zenon, <1>1, <1>3, <1>4, <1>5 DEF ModelAt

LEMMA GrownChange ==
    ASSUME NEW h, NEW n, NEW g, NEW m, Histories(h, n), Histories(g, m), Grown(h, n, g, m),
           NEW x \in ChangeSets, NEW t, ChangeAt(h, n, x, t)
    PROVE  ChangeAt(g, m, x, t)
<1>1. t \in 1 .. n /\ t \in 1 .. m /\ Extends(h[t], g[t])
  BY DEF ChangeAt, Grown, Histories
<1>2. Len(h[t]) \in Nat /\ Len(g[t]) \in Nat
  BY <1>1 DEF Histories, Logs
<1> DEFINE k == x.index
           p == x.previousIndex
<1>3. /\ k \in Nat /\ p \in Nat /\ p > 0 /\ p < k /\ k <= Len(h[t])
      /\ h[t][k].model /\ x.change = <<h[t][k].timeline, k>>
      /\ \A i \in p + 1 .. k - 1 : ~h[t][i].model
  BY DEF ChangeAt, ChangeSets
<1> SUFFICES /\ p > 0 /\ p < k /\ k <= Len(g[t])
             /\ g[t][k].model /\ x.change = <<g[t][k].timeline, k>>
             /\ \A i \in p + 1 .. k - 1 : ~g[t][i].model
  BY Zenon, <1>1 DEF ChangeAt
<1> HIDE DEF k, p
<1>4. k \in 1 .. Len(h[t]) /\ k <= Len(g[t]) /\ \A i \in p + 1 .. k - 1 : i \in 1 .. Len(h[t])
  BY <1>1, <1>2, <1>3 DEF Extends
<1>5. \A i \in 1 .. Len(h[t]) : g[t][i] = h[t][i]
  BY <1>1 DEF Extends
<1> QED  BY SMTT(20), <1>3, <1>4, <1>5

\* The two that matter most, about everything at once.
LEMMA GrownSound ==
    ASSUME NEW h, NEW n, NEW g, NEW m, Histories(h, n), Histories(g, m), Grown(h, n, g, m)
    PROVE  /\ \A x : Full(h, n, x) => Full(g, m, x)
           /\ \A x : Sound(h, n, x) => Sound(g, m, x)
<1>1. \A x : Full(h, n, x) => Full(g, m, x)
  BY Zenon, GrownModel DEF Full
<1> QED  BY Zenon, <1>1 DEF Sound

LEMMA HistoryType ==
    ASSUME DataModelInv
    PROVE  Histories(history, timeline)
<1>1. timeline \in Nat /\ timeline \in 1 .. faults + 1 /\ faults \in 0 .. MaxFaults /\ MaxFaults \in Nat
  BY LogFacts, Constants DEF DataModelInv
<1>2. \A t \in 1 .. timeline : t \in Timelines
  BY <1>1 DEF Timelines
<1> QED  BY <1>1, <1>2 DEF Histories, DataModelInv

LEMMA SameHistory ==
    ASSUME DataModelInv, UNCHANGED <<history, timeline>>
    PROVE  Grown(history, timeline, history', timeline')
<1>1. Histories(history, timeline)
  BY HistoryType
<1>2. \A t \in 1 .. timeline : Len(history[t]) \in Nat
  BY <1>1 DEF Histories, Logs
<1> QED  BY <1>1, <1>2 DEF Grown, Extends, Histories

LEMMA AgedMessage ==
    ASSUME NEW m \in Messages
    PROVE  /\ Aged(m) \in Messages /\ Aged(m).subscriptionId # Current
           /\ IsState(Aged(m)) <=> IsState(m)
           /\ IsState(m) => Aged(m).model = m.model
           /\ ~IsState(m) => /\ Aged(m).index = m.index /\ Aged(m).change = m.change
                             /\ Aged(m).previousIndex = m.previousIndex
<1> DEFINE s == IF m.subscriptionId = Current THEN Old ELSE m.subscriptionId
<1>1. s # Current /\ s \in Ids
  BY Constants DEF Messages, ChangeSets, DataStates
<1>2. Aged(m) = [m EXCEPT !.subscriptionId = s]
  BY DEF Aged
<1> HIDE DEF s
<1>3. CASE m \in ChangeSets
  BY <1>1, <1>2, <1>3 DEF ChangeSets, Messages, IsState
<1>4. CASE m \in DataStates
  BY <1>1, <1>2, <1>4 DEF DataStates, Messages, IsState
<1> QED  BY <1>3, <1>4 DEF Messages

LEMMA AgedMessages ==
    ASSUME NEW xs \in Seq(Messages)
    PROVE  /\ AgedAll(xs) \in Seq(Messages) /\ Len(AgedAll(xs)) = Len(xs)
           /\ \A i \in 1 .. Len(xs) : AgedAll(xs)[i] = Aged(xs[i]) /\ xs[i] \in Messages
<1>1. Len(xs) \in Nat /\ DOMAIN xs = 1 .. Len(xs)
  OBVIOUS
<1>2. \A i \in 1 .. Len(xs) : xs[i] \in Messages
  BY ElementType
<1>3. \A i \in 1 .. Len(xs) : Aged(xs[i]) \in Messages
  BY <1>2, AgedMessage
<1>4. AgedAll(xs) = [i \in 1 .. Len(xs) |-> Aged(xs[i])]
  BY <1>1 DEF AgedAll
<1>5. AgedAll(xs) \in [1 .. Len(xs) -> Messages]
  BY <1>3, <1>4
<1> QED  BY <1>1, <1>2, <1>4, <1>5, FunctionIsSeq

-----------------------------------------------------------------------------
(* The messages that wait in the pool *)

LEMMA StageType ==
    ASSUME NEW x \in Models, NEW h, NEW n \in Nat
    PROVE  /\ Stage(x) \in Nat
           /\ Full(h, n, x) => Stage(x) \in 1 .. n
           /\ Sound(h, n, x) => Stage(x) \in 0 .. n
<1>1. Stage(x) \in Nat
  BY Constants DEF Stage, Models, Timelines, NoTimeline
<1>2. Full(h, n, x) => Stage(x) \in 1 .. n
  BY DEF Full, ModelAt
<1>3. x = EmptyModel => Stage(x) = 0
  BY DEF EmptyModel, Model, Stage
<1> QED  BY <1>1, <1>2, <1>3 DEF Sound

LEMMA MessageParts ==
    ASSUME NEW q \in Seq(Messages), NEW i \in 1 .. Len(q)
    PROVE  /\ q[i] \in Messages
           /\ IsState(q[i]) => q[i].model \in Models /\ Stage(q[i].model) \in Nat
           /\ ~IsState(q[i]) => q[i] \in ChangeSets
<1>1. q[i] \in Messages
  BY ElementType
<1>2. ASSUME NEW m \in Messages
      PROVE  (IsState(m) => m.model \in Models) /\ (~IsState(m) => m \in ChangeSets)
  BY DEF Messages, ChangeSets, DataStates, IsState
<1>3. \A x \in Models : Stage(x) \in Nat
  BY Constants DEF Stage, Models, Timelines, NoTimeline
<1> QED  BY Zenon, <1>1, <1>2, <1>3

LEMMA PoolGrown ==
    ASSUME NEW h, NEW n, NEW g, NEW m, Histories(h, n), Histories(g, m), Grown(h, n, g, m),
           NEW s, NEW q \in Seq(Messages), PoolOK(h, n, s, q)
    PROVE  PoolOK(g, m, s, q)
<1>1. ASSUME NEW i \in 1 .. Len(q), IsState(q[i])  PROVE  StateOK(g, m, s, q, i)
  <2>1. StateOK(h, n, s, q, i)
    BY Zenon, <1>1 DEF PoolOK
  <2> QED  BY Zenon, <2>1, GrownSound DEF StateOK
<1>2. ASSUME NEW i \in 1 .. Len(q), ~IsState(q[i])  PROVE  ChangeOK(g, m, s, q, i)
  <2>1. q[i] \in ChangeSets
    BY <1>2, MessageParts
  <2>2. PICK t \in 1 .. n : ChangeAt(h, n, q[i], t) /\ Due(s, q, i, t)
    BY Zenon, <1>2 DEF PoolOK, ChangeOK
  <2>3. ChangeAt(g, m, q[i], t)
    BY Zenon, <2>1, <2>2, GrownChange
  <2>4. t \in 1 .. m
    BY <2>3 DEF ChangeAt
  <2> QED  BY Zenon, <2>2, <2>3, <2>4 DEF ChangeOK
<1> QED  BY Zenon, <1>1, <1>2 DEF PoolOK

\* The subscription ids of what waits do not matter any more.
Alike(m, x) ==
    /\ IsState(x) <=> IsState(m)
    /\ IsState(m) => x.model = m.model
    /\ ~IsState(m) => x.index = m.index /\ x.change = m.change /\ x.previousIndex = m.previousIndex

LEMMA PoolAged ==
    ASSUME NEW h, NEW n, NEW s, NEW q \in Seq(Messages)
    PROVE  /\ PoolOK(h, n, s, q) => PoolOK(h, n, s, AgedAll(q))
           /\ Grounded(s, q, n) => Grounded(s, AgedAll(q), n)
<1> DEFINE p == AgedAll(q)
<1>1. Len(p) = Len(q) /\ \A i \in 1 .. Len(q) : p[i] = Aged(q[i]) /\ q[i] \in Messages
  BY Zenon, AgedMessages
<1>2. \A i \in 1 .. Len(q) : Alike(q[i], p[i])
  <2>1. ASSUME NEW m \in Messages  PROVE  Alike(m, Aged(m))
    BY AgedMessage DEF Alike
  <2> QED  BY Zenon, <1>1, <2>1
<1>3. ASSUME NEW i \in 1 .. Len(q), NEW j \in 1 .. i - 1  PROVE  j \in 1 .. Len(q)
  OBVIOUS
<1> HIDE DEF p
<1>4. ASSUME PoolOK(h, n, s, q), NEW i \in 1 .. Len(q), IsState(q[i])
      PROVE  StateOK(h, n, s, p, i)
  <2>1. StateOK(h, n, s, q, i)
    BY Zenon, <1>4 DEF PoolOK
  <2> QED  BY Zenon, <1>2, <1>3, <1>4, <2>1 DEF StateOK, Alike
<1>5. ASSUME PoolOK(h, n, s, q), NEW i \in 1 .. Len(q), ~IsState(q[i])
      PROVE  ChangeOK(h, n, s, p, i)
  <2>1. PICK t \in 1 .. n : ChangeAt(h, n, q[i], t) /\ Due(s, q, i, t)
    BY Zenon, <1>5 DEF PoolOK, ChangeOK
  <2>2. ChangeAt(h, n, p[i], t)
    BY Zenon, <1>2, <1>5, <2>1 DEF ChangeAt, Alike
  <2>3. Due(s, p, i, t)
    BY Zenon, <1>2, <1>3, <2>1 DEF Due, Carries, Alike
  <2> QED  BY Zenon, <2>1, <2>2, <2>3 DEF ChangeOK
<1>6. Grounded(s, q, n) => Grounded(s, p, n)
  BY Zenon, <1>1, <1>2 DEF Grounded, Carries, Alike
<1>7. \A i \in 1 .. Len(q) : IsState(p[i]) <=> IsState(q[i])
  BY Zenon, <1>2 DEF Alike
<1>8. PoolOK(h, n, s, q) => PoolOK(h, n, s, p)
  BY Zenon, <1>1, <1>4, <1>5, <1>7 DEF PoolOK
<1> QED  BY Zenon, <1>6, <1>8 DEF p

\* A message of the timeline n, the newest, is queued: the full state, or a
\* change when the copy is of that timeline by then.
LEMMA PoolAppend ==
    ASSUME NEW h, NEW n \in Nat, NEW s \in 0 .. n, NEW q \in Seq(Messages), PoolOK(h, n, s, q),
           NEW m \in Messages,
           IF IsState(m) THEN Full(h, n, m.model) /\ Stage(m.model) = n
           ELSE ChangeAt(h, n, m, n) /\ Grounded(s, q, n)
    PROVE  PoolOK(h, n, s, Append(q, m))
<1> DEFINE p == Append(q, m)
           k == Len(q)
           l == Len(q) + 1
<1>1. /\ k \in Nat /\ Len(p) = l /\ p[l] = m
      /\ \A i \in 1 .. k : p[i] = q[i]
  BY SMTT(20), AppendParts
<1>2. \A i \in 1 .. k : \A j \in 1 .. i - 1 : j \in 1 .. k
  BY <1>1
<1>3. \A i \in 1 .. k : IsState(q[i]) => Stage(q[i].model) <= n
  <2>1. ASSUME NEW i \in 1 .. k, IsState(q[i])  PROVE  Stage(q[i].model) \in 1 .. n
    <3>1. q[i].model \in Models
      BY <2>1, MessageParts
    <3>2. Full(h, n, q[i].model)
      BY Zenon, <2>1 DEF PoolOK, StateOK
    <3> QED  BY SMTT(20), <3>1, <3>2, StageType
  <2> QED  BY SMTT(20), <2>1
<1>4. \A i \in 1 .. Len(p) : i \in 1 .. k \/ i = l
  BY <1>1
<1>5. s <= n /\ l - 1 = k
  BY <1>1
<1> SUFFICES PoolOK(h, n, s, p)
  OBVIOUS
<1> HIDE DEF p, k, l
<1>6. ASSUME NEW i \in 1 .. k, IsState(p[i])  PROVE  StateOK(h, n, s, p, i)
  <2>1. StateOK(h, n, s, q, i)
    BY Zenon, <1>1, <1>6 DEF PoolOK, k
  <2> QED  BY Zenon, <1>1, <1>2, <2>1 DEF StateOK
<1>7. ASSUME IsState(p[l])  PROVE  StateOK(h, n, s, p, l)
  <2>1. \A j \in 1 .. k : IsState(p[j]) => Stage(p[j].model) <= n
    BY Zenon, <1>1, <1>3
  <2> QED  BY Zenon, <1>1, <1>5, <1>7, <2>1 DEF StateOK
<1>8. ASSUME NEW i \in 1 .. k, ~IsState(p[i])  PROVE  ChangeOK(h, n, s, p, i)
  <2>1. PICK t \in 1 .. n : ChangeAt(h, n, q[i], t) /\ Due(s, q, i, t)
    BY Zenon, <1>1, <1>8 DEF PoolOK, ChangeOK, k
  <2>2. Due(s, p, i, t)
    BY Zenon, <1>1, <1>2, <2>1 DEF Due, Carries
  <2> QED  BY Zenon, <1>1, <2>1, <2>2 DEF ChangeOK
<1>9. ASSUME ~IsState(p[l])  PROVE  ChangeOK(h, n, s, p, l)
  <2>1. ChangeAt(h, n, p[l], n) /\ Grounded(s, q, n)
    BY ZenonT(30), <1>1, <1>9
  <2>2. n \in 1 .. n
    BY <2>1 DEF ChangeAt
  <2>3. s = n \/ \E j \in 1 .. l - 1 : Carries(p[j], n)
    BY Zenon, <1>1, <1>5, <2>1 DEF Grounded, k
  <2>4. \A j \in 1 .. l - 1 : IsState(p[j]) => Stage(p[j].model) <= n
    BY Zenon, <1>1, <1>3, <1>5
  <2>5. Due(s, p, l, n)
    BY Zenon, <2>3, <2>4 DEF Due
  <2> QED  BY Zenon, <2>1, <2>2, <2>5 DEF ChangeOK
<1> QED  BY Zenon, <1>4, <1>6, <1>7, <1>8, <1>9 DEF PoolOK

LEMMA GroundedAppend ==
    ASSUME NEW s, NEW q \in Seq(Messages), NEW n, NEW m
    PROVE  /\ Grounded(s, q, n) => Grounded(s, Append(q, m), n)
           /\ Carries(m, n) => Grounded(s, Append(q, m), n)
<1>1. /\ Len(q) \in Nat /\ Len(Append(q, m)) = Len(q) + 1 /\ Append(q, m)[Len(q) + 1] = m
      /\ \A i \in 1 .. Len(q) : Append(q, m)[i] = q[i]
  OBVIOUS
<1>2. \A i \in 1 .. Len(q) : i \in 1 .. Len(Append(q, m))
  BY <1>1
<1>3. Len(q) + 1 \in 1 .. Len(Append(q, m))
  BY <1>1
<1> QED  BY Zenon, <1>1, <1>2, <1>3 DEF Grounded

\* The worker takes the first message.
LEMMA TailOf ==
    ASSUME NEW q \in Seq(Messages), q # <<>>
    PROVE  /\ Len(q) \in Nat /\ 1 \in 1 .. Len(q) /\ Head(q) = q[1]
           /\ Tail(q) \in Seq(Messages) /\ Len(Tail(q)) = Len(q) - 1
           /\ \A i \in 1 .. Len(Tail(q)) : Tail(q)[i] = q[i + 1] /\ i + 1 \in 1 .. Len(q)
           /\ \A i \in 1 .. Len(q) : i = 1 \/ i - 1 \in 1 .. Len(Tail(q))
BY HeadAndTail

\* What is before a message is the first, or is still there.
LEMMA PoolTail ==
    ASSUME NEW h, NEW n \in Nat, NEW s \in Nat, NEW q \in Seq(Messages), q # <<>>,
           PoolOK(h, n, s, q),
           NEW u, u = IF IsState(Head(q)) THEN Stage(Head(q).model) ELSE s
    PROVE  /\ PoolOK(h, n, u, Tail(q))
           /\ ~IsState(Head(q)) => ChangeAt(h, n, Head(q), s)
           /\ Grounded(s, q, n) /\ s <= n => Grounded(u, Tail(q), n)
<1> DEFINE p == Tail(q)
<1>1. /\ Len(q) \in Nat /\ 1 \in 1 .. Len(q) /\ Head(q) = q[1]
      /\ p \in Seq(Messages) /\ Len(p) = Len(q) - 1
      /\ \A i \in 1 .. Len(p) : p[i] = q[i + 1] /\ i + 1 \in 1 .. Len(q)
      /\ \A i \in 1 .. Len(q) : i = 1 \/ i - 1 \in 1 .. Len(p)
  BY Zenon, TailOf
<1> HIDE DEF p
<1>2. ASSUME NEW i \in 1 .. Len(p), NEW j \in 1 .. i - 1
      PROVE  j \in 1 .. Len(p) /\ p[j] = q[j + 1] /\ j + 1 \in 1 .. i + 1 - 1
  BY <1>1
<1>3. ASSUME NEW i \in 1 .. Len(p)
      PROVE  /\ 1 \in 1 .. i + 1 - 1
             /\ \A j \in 1 .. i + 1 - 1 : j = 1 \/ (j - 1 \in 1 .. i - 1 /\ q[j] = p[j - 1])
  BY SMTT(20), <1>1
<1>4. u \in Nat /\ s <= u
  <2>1. CASE IsState(Head(q))
    <3>1. StateOK(h, n, s, q, 1)
      BY Zenon, <1>1, <2>1 DEF PoolOK
    <3>2. Stage(Head(q).model) \in Nat
      BY <1>1, <2>1, MessageParts
    <3> QED  BY <1>1, <2>1, <3>1, <3>2 DEF StateOK
  <2>2. CASE ~IsState(Head(q))
    BY <2>2
  <2> QED  BY <2>1, <2>2
<1>0. Head(q) = q[1]
  BY <1>1
<1>5. ASSUME NEW i \in 1 .. Len(p), IsState(p[i])  PROVE  StateOK(h, n, u, p, i)
  <2> DEFINE k == i + 1
  <2>1. /\ k \in 1 .. Len(q) /\ q[k] = p[i] /\ 1 \in 1 .. k - 1
        /\ \A j \in 1 .. i - 1 : j + 1 \in 1 .. k - 1 /\ p[j] = q[j + 1]
    BY <1>1, <1>2, <1>3
  <2> HIDE DEF k
  <2>2. /\ Full(h, n, p[i].model) /\ s <= Stage(p[i].model)
        /\ \A j \in 1 .. k - 1 : IsState(q[j]) => Stage(q[j].model) <= Stage(p[i].model)
    BY Zenon, <1>5, <2>1 DEF PoolOK, StateOK
  <2>3. u <= Stage(p[i].model)
    <3>1. IsState(q[1]) => Stage(q[1].model) <= Stage(p[i].model)
      BY Zenon, <2>1, <2>2
    <3> QED  BY Zenon, <1>0, <2>2, <3>1
  <2>4. \A j \in 1 .. i - 1 : IsState(p[j]) => Stage(p[j].model) <= Stage(p[i].model)
    BY Zenon, <2>1, <2>2
  <2> QED  BY Zenon, <2>2, <2>3, <2>4 DEF StateOK
<1>6. ASSUME NEW i \in 1 .. Len(p), ~IsState(p[i])  PROVE  ChangeOK(h, n, u, p, i)
  <2> DEFINE k == i + 1
  <2>1. /\ k \in 1 .. Len(q) /\ q[k] = p[i] /\ 1 \in 1 .. k - 1
        /\ \A j \in 1 .. i - 1 : j + 1 \in 1 .. k - 1 /\ p[j] = q[j + 1]
        /\ \A j \in 1 .. k - 1 : j = 1 \/ (j - 1 \in 1 .. i - 1 /\ q[j] = p[j - 1])
    BY <1>1, <1>2, <1>3
  <2> HIDE DEF k
  <2>2. PICK t \in 1 .. n : ChangeAt(h, n, p[i], t) /\ Due(s, q, k, t)
    BY Zenon, <1>6, <2>1 DEF PoolOK, ChangeOK
  <2>3. /\ s = t \/ \E j \in 1 .. k - 1 : Carries(q[j], t)
        /\ \A j \in 1 .. k - 1 : IsState(q[j]) => Stage(q[j].model) <= t
    BY Zenon, <2>2 DEF Due
  <2>4. u = t \/ \E j \in 1 .. i - 1 : Carries(p[j], t)
    <3>1. CASE s = t
      <4>1. CASE IsState(Head(q))
        <5>1. u <= t
          BY Zenon, <1>0, <2>1, <2>3, <4>1
        <5> QED  BY <1>4, <3>1, <5>1
      <4>2. CASE ~IsState(Head(q))
        BY <3>1, <4>2
      <4> QED  BY <4>1, <4>2
    <3>2. ASSUME NEW j \in 1 .. k - 1, Carries(q[j], t)
          PROVE  u = t \/ \E l \in 1 .. i - 1 : Carries(p[l], t)
      <4>1. CASE j = 1
        BY Zenon, <1>0, <3>2, <4>1 DEF Carries
      <4>2. CASE j # 1
        BY Zenon, <2>1, <3>2, <4>2
      <4> QED  BY <4>1, <4>2
    <3> QED  BY Zenon, <2>3, <3>1, <3>2
  <2>5. \A j \in 1 .. i - 1 : IsState(p[j]) => Stage(p[j].model) <= t
    BY Zenon, <2>1, <2>3
  <2> QED  BY Zenon, <2>2, <2>4, <2>5 DEF ChangeOK, Due
<1>7. PoolOK(h, n, u, p)
  BY Zenon, <1>5, <1>6 DEF PoolOK
<1>8. ASSUME ~IsState(Head(q))  PROVE  ChangeAt(h, n, Head(q), s)
  <2>1. PICK t \in 1 .. n : ChangeAt(h, n, q[1], t) /\ Due(s, q, 1, t)
    BY Zenon, <1>1, <1>8 DEF PoolOK, ChangeOK
  <2>2. s = t
    <3>1. 1 .. 1 - 1 = {}
      OBVIOUS
    <3> QED  BY Zenon, <2>1, <3>1 DEF Due
  <2> QED  BY Zenon, <1>1, <2>1, <2>2
<1>9. ASSUME Grounded(s, q, n), s <= n  PROVE  Grounded(u, p, n)
  <2>1. CASE s = n
    <3>1. CASE IsState(Head(q))
      <4>1. Full(h, n, q[1].model)
        BY Zenon, <1>1, <3>1 DEF PoolOK, StateOK
      <4>2. u <= n
        <5>1. q[1].model \in Models
          BY <1>1, <3>1, MessageParts
        <5> QED  BY <1>1, <3>1, <4>1, <5>1, StageType
      <4> QED  BY <1>4, <2>1, <4>2 DEF Grounded
    <3>2. CASE ~IsState(Head(q))
      BY <2>1, <3>2 DEF Grounded
    <3> QED  BY <3>1, <3>2
  <2>2. ASSUME NEW i \in 1 .. Len(q), Carries(q[i], n)  PROVE  Grounded(u, p, n)
    <3>1. CASE i = 1
      BY Zenon, <1>1, <2>2, <3>1 DEF Grounded, Carries
    <3>2. CASE i # 1
      <4>1. i - 1 \in 1 .. Len(p)
        BY Zenon, <1>1, <3>2
      <4>2. p[i - 1] = q[i]
        BY <1>1, <4>1
      <4> QED  BY Zenon, <2>2, <4>1, <4>2 DEF Grounded
    <3> QED  BY <3>1, <3>2
  <2> QED  BY Zenon, <1>9, <2>1, <2>2 DEF Grounded
<1> QED  BY Zenon, <1>7, <1>8, <1>9 DEF p

-----------------------------------------------------------------------------
(* What a sender has sent, and will send, under the current subscription *)

\* A sender that no message of the current subscription can come from.
Silent(r) ==
    /\ r.subscriptionId # Current
    /\ \A i \in DOMAIN r.requestModelSync : r.requestModelSync[i].subscriptionId # Current

\* The flags of a sender have nothing to do with its subscription.
SameSubscription(r, s) ==
    /\ s.subscriptionId = r.subscriptionId /\ s.timelineId = r.timelineId
    /\ s.requestModelSync = r.requestModelSync

\* The sender has its subscription from before or from a request.
FromRequest(c, r, i) ==
    /\ r.subscriptionId = rtx[c].requestModelSync[i].subscriptionId
    /\ r.timelineId = rtx[c].requestModelSync[i].timelineId
    /\ r.requestModelSync = <<>>
Origin(c, r) ==
    \/ SameSubscription(rtx[c], r)
    \/ \E i \in DOMAIN rtx[c].requestModelSync : FromRequest(c, r, i)

\* Sender r becomes s and sends msgs.
Sends(r, s, msgs) ==
    /\ IsSender(s) /\ s.subscriptionId = r.subscriptionId
    /\ s.requestModelSync = r.requestModelSync
    /\ msgs \in Seq(Messages)
    /\ \A i \in 1 .. Len(msgs) :
          /\ msgs[i].subscriptionId = r.subscriptionId
          /\ MessageOK(history, timeline, msgs[i])
          /\ ~IsState(msgs[i]) => r.timelineId = timeline
    /\ s.timelineId = timeline =>
          r.timelineId = timeline \/ \E i \in 1 .. Len(msgs) : IsState(msgs[i])

LEMMA SilentSender ==
    ASSUME NEW r, NEW d, NEW t, Silent(r)
    PROVE  SenderOK(r, d, t)
BY Zenon DEF Silent, SenderOK

LEMMA SameSenderOK ==
    ASSUME NEW r, NEW s, NEW d, NEW t, SameSubscription(r, s), SenderOK(r, d, t)
    PROVE  SenderOK(s, d, t)
BY Zenon DEF SameSubscription, SenderOK

LEMMA NothingCovered == Covered(<<>>)
<1>1. 1 .. Len(<<>>) = {}
  OBVIOUS
<1> QED  BY Zenon, <1>1 DEF Covered

\* Messages of an earlier subscription need nothing.
LEMMA AgedCovered ==
    ASSUME NEW d \in Seq(Messages)
    PROVE  Covered(AgedAll(d))
<1> DEFINE e == AgedAll(d)
<1>1. Len(e) = Len(d) /\ \A i \in 1 .. Len(d) : e[i] = Aged(d[i]) /\ d[i] \in Messages
  BY Zenon, AgedMessages
<1>2. \A m \in Messages : Aged(m).subscriptionId # Current
  BY Zenon, AgedMessage
<1> HIDE DEF e
<1>3. Covered(e)
  BY Zenon, <1>1, <1>2 DEF Covered
<1> QED  BY Zenon, <1>3 DEF e

LEMMA OriginOK ==
    ASSUME NEW c, NEW r, NEW d, NEW t, Origin(c, r), SenderOK(rtx[c], d, t)
    PROVE  SenderOK(r, d, t)
<1>1. CASE SameSubscription(rtx[c], r)
  BY Zenon, <1>1, SameSenderOK
<1>2. ASSUME NEW i \in DOMAIN rtx[c].requestModelSync, FromRequest(c, r, i)
      PROVE  SenderOK(r, d, t)
  <2>1. DOMAIN r.requestModelSync = {}
    BY <1>2 DEF FromRequest
  <2> QED  BY Zenon, <1>2, <2>1 DEF SenderOK, FromRequest
<1> QED  BY Zenon, <1>1, <1>2 DEF Origin

\* What a sender adds to the messages on the way.
LEMMA SendsCovered ==
    ASSUME NEW r, NEW s, NEW d \in Seq(Messages), NEW msgs, Sends(r, s, msgs),
           Covered(d), SenderOK(r, d, timeline)
    PROVE  Covered(d \o msgs) /\ SenderOK(s, d \o msgs, timeline)
<1> DEFINE e == d \o msgs
           k == Len(d)
           l == Len(msgs)
<1>1. msgs \in Seq(Messages)
  BY Zenon DEF Sends
<1>2. /\ k \in Nat /\ l \in Nat /\ Len(e) = k + l
      /\ \A i \in 1 .. k : e[i] = d[i]
      /\ \A i \in k + 1 .. k + l : e[i] = msgs[i - k] /\ i - k \in 1 .. l
      /\ \A i \in 1 .. l : e[k + i] = msgs[i]
  BY <1>1, ConcatParts
<1>3. \A i \in 1 .. k : \A j \in 1 .. i - 1 : j \in 1 .. k
  BY <1>2
<1>4. \A i \in k + 1 .. k + l : \A j \in 1 .. k : j \in 1 .. i - 1
  BY <1>2
<1>5. \A j \in 1 .. k : j \in 1 .. Len(e)
  BY <1>2
<1>6. \A j \in 1 .. l : k + j \in 1 .. Len(e)
  BY <1>2
<1>7. \A i \in 1 .. Len(e) : i \in 1 .. k \/ i \in k + 1 .. k + l
  BY <1>2
<1> SUFFICES Covered(e) /\ SenderOK(s, e, timeline)
  OBVIOUS
<1> HIDE DEF e, k, l
<1>8. ASSUME NEW i \in 1 .. k, ~IsState(e[i]), e[i].subscriptionId = Current
      PROVE  Brings(e, i - 1)
  <2>1. Brings(d, i - 1)
    BY Zenon, <1>2, <1>8 DEF Covered, k
  <2> QED  BY Zenon, <1>2, <1>3, <2>1 DEF Brings
<1>9. r.subscriptionId = Current /\ r.timelineId = timeline => Brings(d, k)
  BY Zenon DEF SenderOK, k
<1>10. ASSUME NEW i \in k + 1 .. k + l, ~IsState(e[i]), e[i].subscriptionId = Current
       PROVE  Brings(e, i - 1)
  <2> DEFINE j == i - k
  <2>1. e[i] = msgs[j] /\ j \in 1 .. Len(msgs)
    BY Zenon, <1>2, <1>10 DEF l
  <2> HIDE DEF j
  <2>2. r.subscriptionId = Current /\ r.timelineId = timeline
    BY Zenon, <1>10, <2>1 DEF Sends
  <2>3. Brings(d, k)
    BY Zenon, <1>9, <2>2
  <2> QED  BY Zenon, <1>2, <1>4, <2>3 DEF Brings
<1>11. Covered(e)
  BY Zenon, <1>7, <1>8, <1>10 DEF Covered
<1>12. ASSUME s.subscriptionId = Current, s.timelineId = timeline
       PROVE  Brings(e, Len(e))
  <2>1. r.subscriptionId = Current
    BY Zenon, <1>12 DEF Sends
  <2>2. CASE r.timelineId = timeline
    <3>1. Brings(d, k)
      BY Zenon, <1>9, <2>1, <2>2
    <3> QED  BY Zenon, <1>2, <1>5, <3>1 DEF Brings
  <2>3. ASSUME NEW i \in 1 .. l, IsState(msgs[i])
        PROVE  Brings(e, Len(e))
    <3> DEFINE j == k + i
    <3>1. j \in 1 .. Len(e) /\ e[j] = msgs[i]
      BY Zenon, <1>2, <1>6
    <3> HIDE DEF j
    <3>2. e[j].subscriptionId = Current
      BY Zenon, <2>1, <3>1 DEF Sends, l
    <3> QED  BY Zenon, <2>3, <3>1, <3>2 DEF Brings
  <2> QED  BY Zenon, <1>12, <2>2, <2>3 DEF Sends, l
<1>13. SenderOK(s, e, timeline)
  <2>1. s.requestModelSync = r.requestModelSync
    BY Zenon DEF Sends
  <2> QED  BY Zenon, <1>12, <2>1 DEF SenderOK
<1> QED  BY <1>11, <1>13

\* A message of another subscription arrives, or the first message is a change.
LEMMA CoveredTail ==
    ASSUME NEW r, NEW d \in Seq(Messages), d # <<>>, NEW t, Covered(d)
    PROVE  /\ Head(d).subscriptionId = Current => IsState(Head(d))
           /\ Head(d).subscriptionId # Current =>
                 Covered(Tail(d)) /\ (SenderOK(r, d, t) => SenderOK(r, Tail(d), t))
<1> DEFINE e == Tail(d)
<1>1. /\ 1 \in 1 .. Len(d) /\ Head(d) = d[1]
      /\ \A i \in 1 .. Len(e) : e[i] = d[i + 1] /\ i + 1 \in 1 .. Len(d)
  BY Zenon, TailOf
<1>2. /\ \A i \in 1 .. Len(e) : \A j \in 1 .. i + 1 - 1 :
            j = 1 \/ (j - 1 \in 1 .. i - 1 /\ d[j] = e[j - 1])
      /\ \A j \in 1 .. Len(d) : j = 1 \/ (j - 1 \in 1 .. Len(e) /\ d[j] = e[j - 1])
  <2>1. Len(d) \in Nat /\ Len(e) = Len(d) - 1
    BY Zenon, TailOf
  <2> QED  BY <1>1, <2>1
<1> HIDE DEF e
<1>3. Head(d).subscriptionId = Current => IsState(Head(d))
  <2>1. 1 .. 1 - 1 = {}
    OBVIOUS
  <2>2. ~Brings(d, 1 - 1)
    BY Zenon, <2>1 DEF Brings
  <2> QED  BY Zenon, <1>1, <2>2 DEF Covered
<1>4. ASSUME Head(d).subscriptionId # Current, NEW i \in 1 .. Len(e),
             ~IsState(e[i]), e[i].subscriptionId = Current
      PROVE  Brings(e, i - 1)
  <2> DEFINE k == i + 1
  <2>0. k \in 1 .. Len(d) /\ ~IsState(d[k]) /\ d[k].subscriptionId = Current
    BY Zenon, <1>1, <1>4
  <2>1. Brings(d, k - 1)
    <3> HIDE DEF k
    <3> QED  BY Zenon, <2>0 DEF Covered
  <2>2. PICK j \in 1 .. k - 1 : IsState(d[j]) /\ d[j].subscriptionId = Current
    BY Zenon, <2>1 DEF Brings
  <2>3. j # 1
    BY Zenon, <1>1, <1>4, <2>2
  <2>4. j - 1 \in 1 .. i - 1 /\ d[j] = e[j - 1]
    BY <1>2, <2>2, <2>3
  <2> QED  BY Zenon, <2>2, <2>4 DEF Brings
<1>5. ASSUME Head(d).subscriptionId # Current, Brings(d, Len(d))
      PROVE  Brings(e, Len(e))
  <2>1. PICK j \in 1 .. Len(d) : IsState(d[j]) /\ d[j].subscriptionId = Current
    BY Zenon, <1>5 DEF Brings
  <2>2. j # 1
    BY Zenon, <1>1, <1>5, <2>1
  <2> QED  BY Zenon, <1>2, <2>1, <2>2 DEF Brings
<1>6. ASSUME Head(d).subscriptionId # Current
      PROVE  Covered(e) /\ (SenderOK(r, d, t) => SenderOK(r, e, t))
  BY Zenon, <1>4, <1>5, <1>6 DEF Covered, SenderOK
<1> QED  BY Zenon, <1>3, <1>6 DEF e
=============================================================================

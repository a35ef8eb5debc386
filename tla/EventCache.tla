----------------------------- MODULE EventCache -----------------------------
(***************************************************************************)
(* The event cache of a controller's router data model (LoggingEventCache  *)
(* of common/event_cache.go): a ring of the indexes of the last change     *)
(* sets and the change sets themselves, from which a controller replays to *)
(* a router what it missed.  Pure operators over a cache record whose      *)
(* fields have the names of the struct; its mutex makes each of them one   *)
(* step of whoever calls it.                                               *)
(***************************************************************************)
EXTENDS Integers, Sequences, FiniteSetsExt

CONSTANT LogSize        \* the slots of the ring

ASSUME LogSizeAssumption == LogSize \in Nat \ {0}

Slots == 0 .. LogSize - 1

\* A zero slot holds nothing: indexes start at one.
NewLoggingEventCache ==
    [HeadLogIndex |-> 0, MinEntryIndex |-> 0,
     Log |-> [i \in Slots |-> 0], Events |-> [i \in {} |-> 0]]

\* MinEntryIndex is left as it is.
SetCurrentIndex(cache, index) ==
    [cache EXCEPT !.HeadLogIndex = 0,
                  !.Log = [i \in Slots |-> IF i = 0 THEN index ELSE 0],
                  !.Events = [i \in {} |-> 0]]

currentIndex(cache) == cache.Log[cache.HeadLogIndex]

\* The index of an event is its place in Events, its value there the
\* PreviousIndex that the store stamps on it.  An out of order event is
\* rejected and leaves the cache alone.
Evicting(cache) == cache.Log[(cache.HeadLogIndex + 1) % LogSize]

\* Mutant: the evicted index still counts as present.
MinIsEvicted(cache) ==
    IF Evicting(cache) # 0 THEN Evicting(cache) ELSE cache.MinEntryIndex

MinAfterEviction(cache) ==
    IF Evicting(cache) # 0 THEN Evicting(cache) + 1 ELSE cache.MinEntryIndex

Store(cache, index) ==
    LET target == (cache.HeadLogIndex + 1) % LogSize
        min    == MinAfterEviction(cache)
        kept   == (DOMAIN cache.Events \ {Evicting(cache)}) \cup {index}
    IN  IF currentIndex(cache) >= index THEN cache
        ELSE [HeadLogIndex  |-> target,
              MinEntryIndex |-> IF min = 0 THEN index ELSE min,
              Log           |-> [cache.Log EXCEPT ![target] = index],
              Events        |-> [i \in kept |-> IF i = index
                                                THEN currentIndex(cache)
                                                ELSE cache.Events[i]]]

-----------------------------------------------------------------------------
\* The results of ReplayFrom.
Success == "success"
FullSyncRequired == "full sync required"
RequestFromFuture == "request from future"

Failed(result) == [result |-> result, events |-> <<>>]

\* The keys of the ring from a slot up to the head, around its end if need be.
KeysFrom(cache, slot) ==
    LET head == cache.HeadLogIndex
        len  == IF slot <= head THEN head - slot + 1
                                ELSE LogSize - slot + head + 1
    IN  [i \in 1 .. len |-> cache.Log[(slot + i - 1) % LogSize]]

\* The upward search for the first event at or after the start index.
FirstFrom(cache, startIndex) ==
    {i \in DOMAIN cache.Events : startIndex <= i /\ i <= currentIndex(cache)}

ReplayFrom(cache, startIndex) ==
    LET found == FirstFrom(cache, startIndex)
        first == Min(found)
        slots == {i \in Slots : cache.Log[i] = first}
    IN  CASE startIndex \notin DOMAIN cache.Events /\ startIndex > currentIndex(cache) ->
                Failed(RequestFromFuture)
          [] startIndex \notin DOMAIN cache.Events /\ startIndex <= currentIndex(cache)
             /\ (startIndex < cache.MinEntryIndex \/ found = {}) ->
                Failed(FullSyncRequired)
          [] OTHER ->
                IF slots = {} THEN Failed(FullSyncRequired)
                ELSE [result |-> Success, events |-> KeysFrom(cache, Min(slots))]
=============================================================================

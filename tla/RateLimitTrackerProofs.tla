------------------------- MODULE RateLimitTrackerProofs -------------------------
(***************************************************************************)
(* The tracker's accounting, proved for every set of work, window sizes,   *)
(* check intervals and scaling factors that Load() accepts, and the bounds *)
(* of its window, proved for those of them that int32 can represent.       *)
(***************************************************************************)
EXTENDS RateLimitTracker, FiniteSetTheorems, TLAPS

\* Work is in the map exactly while it is held or a report on it has won
\* `completed` and not yet taken the lock: this is what makes the decrement
\* of each report correspond to one map entry.
MapIsPending ==
    \A w \in Work : w \in outstandingWork <=> status[w] \in {"held"} \cup Reporting

\* The inductive invariant: it needs no bound on the window, which may
\* overflow.
IInv ==
    /\ TrackerTypeOK
    /\ IsFiniteSet(outstandingWork)
    /\ MapIsPending
    /\ SlotsAreCounted

\* The bounds of the window are int32.
LEMMA BoundsAreInt32 == minWindow \in Int32 /\ maxWindow \in Int32
  BY ConfigLoaded DEF Loaded, Int32, minWindow, maxWindow, Wrapped

\* A conversion gives an int32, whatever the build.
LEMMA TruncatedType ==
    ASSUME NEW n \in Int
    PROVE  Truncated(n) \subseteq Int32
  BY ConfigLoaded DEF Truncated, Int32

\* Both ways of moving the window give an int32.
LEMMA WindowIsInt32 ==
    ASSUME NEW c \in Int32
    PROVE  /\ c < maxWindow => Increased(c) \subseteq Int32
           /\ c > minWindow => Decreased(c) \in Int32
<1>1. /\ c \in Int /\ MaxInt32 \in Nat
      /\ Grown[c] \in Int /\ Shrunk[c] \in Int32
  BY ConfigLoaded DEF Loaded, Int32
<1>2. ASSUME c < maxWindow, NEW n \in Truncated(Grown[c])
      PROVE  /\ n \in Int32
             /\ c + 1 \in Int32
    BY <1>1, <1>2, BoundsAreInt32, TruncatedType DEF Int32
<1>3. c < maxWindow => Increased(c) \subseteq Int32
  BY <1>2, BoundsAreInt32 DEF Increased
<1>4. c > minWindow => Decreased(c) \in Int32
  BY <1>1, BoundsAreInt32 DEF Decreased, Int32
<1> QED
  BY <1>3, <1>4

\* A configuration that int32 represents keeps the window within the bounds
\* it was configured with.
LEMMA WindowMoves ==
    ASSUME Representable, NEW c \in MinSize .. MaxSize
    PROVE  /\ minWindow = MinSize /\ maxWindow = MaxSize
           /\ c < MaxSize => Increased(c) \subseteq MinSize .. MaxSize
           /\ c > MinSize => Decreased(c) \in MinSize .. MaxSize
<1>1. /\ MinSize \in Nat \ {0} /\ MaxSize \in Nat /\ MinSize <= MaxSize
      /\ MaxSize <= MaxInt32 /\ MaxInt32 \in Nat /\ c \in Int32 /\ c >= 0
  BY ConfigLoaded DEF Loaded, Representable, Int32
<1>2. minWindow = MinSize /\ maxWindow = MaxSize
  BY <1>1 DEF minWindow, maxWindow, Wrapped
<1>3. c < MaxSize => Increased(c) \subseteq MinSize .. MaxSize
  <2> SUFFICES ASSUME c < MaxSize
               PROVE  Increased(c) \subseteq MinSize .. MaxSize
    OBVIOUS
  <2>1. Grown[c] \in Int /\ Grown[c] >= c /\ Grown[c] <= MaxInt32
    BY <1>1, ConfigLoaded DEF Loaded, Representable
  <2>2. Truncated(Grown[c]) = {Grown[c]}
    BY <1>1, <2>1 DEF Truncated, Int32
  <2> QED
    BY <1>1, <1>2, <2>1, <2>2 DEF Increased
<1>4. c > MinSize => Decreased(c) \in MinSize .. MaxSize
  <2>1. Shrunk[c] \in 0 .. c
    BY <1>1, ConfigLoaded DEF Loaded
  <2> QED
    BY <1>1, <1>2, <2>1 DEF Decreased
<1> QED
  BY <1>2, <1>3, <1>4

\* The counters modulo their intervals.
LEMMA ModBounds ==
    ASSUME NEW k \in Nat, NEW n \in Nat \ {0}
    PROVE  (k + 1) % n \in 0 .. n - 1
  OBVIOUS

\* Releasing one piece of work keeps the accounting.
LEMMA ReleaseKeeps ==
    ASSUME IInv, NEW w \in Work, status[w] \in Reporting, Release(w)
    PROVE  /\ currentSize' \in Nat
           /\ outstandingWork' \subseteq Work
           /\ status' \in [Work -> Status]
           /\ expired' \subseteq Work /\ toRemove' \subseteq Work
           /\ removing' \in Work \cup {NoWork}
           /\ IsFiniteSet(outstandingWork')
           /\ MapIsPending'
           /\ SlotsAreCounted'
           /\ Cardinality(outstandingWork') <= Cardinality(outstandingWork)
<1>1. /\ status \in [Work -> Status]
      /\ currentSize \in Nat /\ outstandingWork \subseteq Work
      /\ removing \in Work \cup {NoWork}
      /\ expired \subseteq Work /\ toRemove \subseteq Work
  BY DEF IInv, TrackerTypeOK
<1>2. status' \in [Work -> Status]
  BY <1>1 DEF Release, Status
<1>3. w \in outstandingWork
  BY DEF IInv, MapIsPending
<1>4. /\ IsFiniteSet(outstandingWork')
      /\ Cardinality(outstandingWork') = Cardinality(outstandingWork) - 1
  BY <1>3, FS_RemoveElement DEF IInv, Release
<1>5. MapIsPending'
  BY <1>1 DEF IInv, MapIsPending, Release, Reporting
<1>6. /\ SlotsAreCounted' /\ currentSize' \in Nat
      /\ Cardinality(outstandingWork') <= Cardinality(outstandingWork)
  BY <1>1, <1>4, FS_CardinalityType DEF IInv, SlotsAreCounted, Release
<1> QED
  BY <1>1, <1>2, <1>4, <1>5, <1>6 DEF Release

LEMMA InitHolds == Init => IInv
<1> SUFFICES ASSUME Init PROVE IInv
  OBVIOUS
<1>1. IsFiniteSet(outstandingWork) /\ Cardinality(outstandingWork) = 0
  BY FS_EmptySet DEF Init
<1>2. TrackerTypeOK
  BY ConfigLoaded, BoundsAreInt32 DEF Loaded, Init, TrackerTypeOK, Status
<1>3. MapIsPending
  BY DEF Init, MapIsPending, Reporting
<1> QED
  BY <1>1, <1>2, <1>3 DEF Init, IInv, SlotsAreCounted

LEMMA NextHolds == IInv /\ [Next]_vars => IInv'
<1> SUFFICES ASSUME IInv, [Next]_vars PROVE IInv'
  OBVIOUS
<1>t. /\ status \in [Work -> Status]
      /\ currentSize \in Nat /\ outstandingWork \subseteq Work
      /\ removing \in Work \cup {NoWork}
      /\ expired \subseteq Work /\ toRemove \subseteq Work
      /\ successCounter \in 0 .. increaseCheckInterval - 1
      /\ backoffCounter \in 0 .. decreaseCheckInterval - 1
      /\ currentWindow \in Int32
      /\ IsFiniteSet(outstandingWork)
      /\ currentSize = Cardinality(outstandingWork)
  BY DEF IInv, TrackerTypeOK, SlotsAreCounted
<1>0. CASE UNCHANGED vars
  BY <1>0 DEF vars, IInv, TrackerTypeOK, MapIsPending, SlotsAreCounted
<1>1. CASE cleanExpired
  BY <1>1, <1>t DEF cleanExpired, window, IInv, TrackerTypeOK, MapIsPending,
                    SlotsAreCounted
<1>2. ASSUME NEW w \in Work, RunRateLimited(w)
      PROVE  IInv'
  <2>1. status' \in [Work -> Status]
    BY <1>2, <1>t DEF RunRateLimited, Status
  <2>2. w \notin outstandingWork
    BY <1>2 DEF RunRateLimited, IInv, MapIsPending, Reporting
  <2>3. /\ IsFiniteSet(outstandingWork')
        /\ Cardinality(outstandingWork') = Cardinality(outstandingWork) + 1
    BY <1>2, <1>t, <2>2, FS_AddElement DEF RunRateLimited
  <2>4. MapIsPending'
    BY <1>2, <1>t DEF RunRateLimited, IInv, MapIsPending, Reporting
  <2>5. TrackerTypeOK'
    BY <1>2, <1>t, <2>1, ConfigLoaded DEF Loaded, RunRateLimited, TrackerTypeOK, window, cleaner
  <2>6. SlotsAreCounted'
    BY <1>2, <1>t, <2>3 DEF RunRateLimited, SlotsAreCounted
  <2> QED
    BY <2>3, <2>4, <2>5, <2>6 DEF IInv
<1>3. ASSUME NEW w \in Work, NEW how \in Reporting, Report(w, how)
      PROVE  IInv'
  <2>1. status' \in [Work -> Status]
    BY <1>3, <1>t DEF Report, Status
  <2>2. MapIsPending'
    BY <1>3, <1>t DEF Report, IInv, MapIsPending, Reporting
  <2> QED
    BY <1>3, <1>t, <2>1, <2>2 DEF Report, window, cleaner, IInv, TrackerTypeOK,
                                  SlotsAreCounted
<1>4. ASSUME NEW w \in Work, success(w)
      PROVE  IInv'
  <2>1. Release(w) /\ status[w] \in Reporting
    BY <1>4 DEF success, Reporting
  <2>a. currentWindow < maxWindow =>
          Increased(currentWindow) \subseteq Int32
    BY <1>t, WindowIsInt32
  <2>b. (successCounter + 1) % increaseCheckInterval \in 0 .. increaseCheckInterval - 1
    BY SMTT(20), <1>t, ModBounds, ConfigLoaded DEF Loaded
  <2>2. currentWindow' \in Int32
    BY <1>4, <1>t, <2>a, BoundsAreInt32 DEF success, Int32
  <2>3. /\ successCounter' \in 0 .. increaseCheckInterval - 1
        /\ backoffCounter' \in 0 .. decreaseCheckInterval - 1
    BY <1>4, <1>t, <2>b DEF success
  <2> QED
    BY <2>1, <2>2, <2>3, ReleaseKeeps DEF IInv, TrackerTypeOK
<1>5. ASSUME NEW w \in Work, backoff(w)
      PROVE  IInv'
  <2>1. Release(w) /\ status[w] \in Reporting
    BY <1>5 DEF backoff, Reporting
  <2>a. currentWindow > minWindow =>
          Decreased(currentWindow) \in Int32
    BY <1>t, WindowIsInt32
  <2>b. (backoffCounter + 1) % decreaseCheckInterval \in 0 .. decreaseCheckInterval - 1
    BY SMTT(20), <1>t, ModBounds, ConfigLoaded DEF Loaded
  <2>2. currentWindow' \in Int32
    BY <1>5, <1>t, <2>a, BoundsAreInt32 DEF backoff, Int32
  <2>3. /\ successCounter' \in 0 .. increaseCheckInterval - 1
        /\ backoffCounter' \in 0 .. decreaseCheckInterval - 1
    BY <1>5, <1>t, <2>b DEF backoff
  <2> QED
    BY <2>1, <2>2, <2>3, ReleaseKeeps DEF IInv, TrackerTypeOK
<1>6. ASSUME NEW w \in Work, complete(w)
      PROVE  IInv'
  <2>1. Release(w) /\ status[w] \in Reporting
    BY <1>6 DEF complete, Reporting
  <2>2. UNCHANGED <<currentWindow, successCounter, backoffCounter>>
    BY <1>6 DEF complete, window
  <2> QED
    BY <1>t, <2>1, <2>2, ReleaseKeeps DEF IInv, TrackerTypeOK
<1>7. ASSUME NEW w \in Work, Age(w)
      PROVE  IInv'
  BY <1>7, <1>t DEF Age, window, IInv, TrackerTypeOK, MapIsPending,
                    SlotsAreCounted
<1>8. ASSUME NEW w \in Work, RemoveExpired(w)
      PROVE  IInv'
  <2>1. status' \in [Work -> Status]
    BY <1>8, <1>t DEF RemoveExpired, Status, Reporting
  <2>2. MapIsPending'
    BY <1>8, <1>t DEF RemoveExpired, IInv, MapIsPending, Reporting
  <2> QED
    BY <1>8, <1>t, <2>1, <2>2 DEF RemoveExpired, window, IInv, TrackerTypeOK,
                                  SlotsAreCounted
<1>9. ASSUME NEW w \in Work, Collect(w)
      PROVE  IInv'
  <2>1. status' \in [Work -> Status]
    BY <1>9, <1>t DEF Collect, Status
  <2>2. MapIsPending'
    BY <1>9, <1>t DEF Collect, IInv, MapIsPending, Reporting
  <2> QED
    BY <1>9, <1>t, <2>1, <2>2 DEF Collect, window, IInv, TrackerTypeOK,
                                  SlotsAreCounted
<1> QED
  BY <1>0, <1>1, <1>2, <1>3, <1>4, <1>5, <1>6, <1>7, <1>8, <1>9 DEF Next

\* The inductive invariant holds in every reachable state.
THEOREM TrackerInvariance == Spec => []IInv
  BY InitHolds, NextHolds, PTL DEF Spec

\* The window, the counter and the states of the work have their types, also
\* after cleanExpired and the window's growth and shrinking.
THEOREM TrackerTypeCorrect == Spec => []TrackerTypeOK
<1>1. IInv => TrackerTypeOK
  BY DEF IInv
<1> QED
  BY <1>1, TrackerInvariance, PTL

\* The counter of taken slots is always the number of pieces of outstanding
\* work: no race of a report with the expiry loses a slot or frees one twice.
THEOREM SlotAccounting == Spec => []SlotsAreCounted
<1>1. IInv => SlotsAreCounted
  BY DEF IInv
<1> QED
  BY <1>1, TrackerInvariance, PTL

\* The window's bounds are kept by every step, on top of the accounting.
LEMMA BoundsKept ==
    ASSUME Representable, IInv, WindowBoundsWork, [Next]_vars
    PROVE  WindowBoundsWork'
<1>1. /\ currentWindow \in MinSize .. MaxSize /\ IsFiniteSet(outstandingWork)
      /\ MinSize \in Nat /\ MaxSize \in Nat
      /\ currentSize = Cardinality(outstandingWork) /\ currentSize \in Nat
      /\ currentSize <= MaxSize
  BY ConfigLoaded DEF Loaded, IInv, TrackerTypeOK, SlotsAreCounted, WindowBoundsWork
<1>2. ASSUME UNCHANGED <<currentWindow, outstandingWork>>
      PROVE  WindowBoundsWork'
  BY <1>2 DEF WindowBoundsWork
<1>3. ASSUME NEW w \in Work, RunRateLimited(w)
      PROVE  WindowBoundsWork'
  <2>1. /\ outstandingWork' = outstandingWork \cup {w} /\ w \notin outstandingWork
        /\ currentWindow' = currentWindow /\ currentSize + 1 <= currentWindow
    BY <1>3 DEF RunRateLimited, IInv, MapIsPending, Reporting, window
  <2>2. Cardinality(outstandingWork') = Cardinality(outstandingWork) + 1
    BY <1>1, <2>1, FS_AddElement
  <2> QED
    BY <1>1, <2>1, <2>2 DEF WindowBoundsWork
<1>4. ASSUME NEW w \in Work, Release(w), status[w] \in Reporting,
             currentWindow' \in MinSize .. MaxSize
      PROVE  WindowBoundsWork'
  <2>1. /\ IsFiniteSet(outstandingWork')
        /\ Cardinality(outstandingWork') <= Cardinality(outstandingWork)
    BY <1>4, ReleaseKeeps
  <2> QED
    BY <1>1, <1>4, <2>1, FS_CardinalityType DEF WindowBoundsWork
<1>5. ASSUME NEW w \in Work, success(w)
      PROVE  WindowBoundsWork'
  <2>1. Release(w) /\ status[w] \in Reporting
    BY <1>5 DEF success, Reporting
  <2>2. /\ maxWindow = MaxSize
        /\ currentWindow < MaxSize =>
             Increased(currentWindow) \subseteq MinSize .. MaxSize
    BY <1>1, WindowMoves
  <2>3. currentWindow' \in MinSize .. MaxSize
    BY <1>1, <1>5, <2>2 DEF success
  <2> QED
    BY <1>4, <2>1, <2>3
<1>6. ASSUME NEW w \in Work, backoff(w)
      PROVE  WindowBoundsWork'
  <2>1. Release(w) /\ status[w] \in Reporting
    BY <1>6 DEF backoff, Reporting
  <2>2. /\ minWindow = MinSize
        /\ currentWindow > MinSize =>
             Decreased(currentWindow) \in MinSize .. MaxSize
    BY <1>1, WindowMoves
  <2>3. currentWindow' \in MinSize .. MaxSize
    BY <1>1, <1>6, <2>2 DEF backoff
  <2> QED
    BY <1>4, <2>1, <2>3
<1>7. ASSUME NEW w \in Work, complete(w)
      PROVE  WindowBoundsWork'
  <2>1. Release(w) /\ status[w] \in Reporting /\ currentWindow' = currentWindow
    BY <1>7 DEF complete, Reporting, window
  <2> QED
    BY <1>1, <1>4, <2>1
<1>8. ASSUME NEW w \in Work,
             \/ \E how \in Reporting : Report(w, how)
             \/ Age(w) \/ RemoveExpired(w) \/ Collect(w)
      PROVE  WindowBoundsWork'
  BY <1>2, <1>8 DEF Report, Age, RemoveExpired, Collect, window
<1>9. CASE UNCHANGED vars \/ cleanExpired
  BY <1>2, <1>9 DEF vars, cleanExpired, window
<1> QED
  BY <1>3, <1>5, <1>6, <1>7, <1>8, <1>9 DEF Next

\* The window stays within its bounds and bounds the outstanding work, when
\* int32 represents the largest window and its products.
THEOREM WindowBound ==
    ASSUME Representable PROVE Spec => []WindowBoundsWork
<1>1. Init => WindowBoundsWork
  <2> SUFFICES ASSUME Init PROVE WindowBoundsWork
    OBVIOUS
  <2>1. Cardinality(outstandingWork) = 0
    BY FS_EmptySet DEF Init
  <2> QED
    BY <2>1, ConfigLoaded
    DEF Loaded, Representable, maxWindow, Wrapped, Init, WindowBoundsWork
<1>2. IInv /\ WindowBoundsWork /\ [Next]_vars => WindowBoundsWork'
  BY BoundsKept
<1> QED
  BY <1>1, <1>2, TrackerInvariance, PTL DEF Spec

=============================================================================

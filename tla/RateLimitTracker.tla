---------------------------- MODULE RateLimitTracker ----------------------------
(***************************************************************************)
(* The adaptive rate limit tracker of controller/command/rate_limiter.go:  *)
(* it hands out slots for work that runs elsewhere (a TLS handshake, a     *)
(* control request of a router, a raft command), is told how the work      *)
(* ended, and grows or shrinks the number of slots from what it is told.   *)
(*                                                                         *)
(* A piece of work is one adaptiveRateLimitTrackerWork object.  Whoever    *)
(* reports on it, the caller or the expiry goroutine, first wins the       *)
(* compare-and-swap of its `completed` flag and only then takes the lock,  *)
(* so these are two steps, with the other one in between.  The sections    *)
(* under the lock are one step each.                                       *)
(*                                                                         *)
(* Abstracted: the mean of the decaying success histogram, compared with   *)
(* the threshold, is a free choice; multiplying by a configured factor is  *)
(* a constant function with what Load() guarantees about the factor; the   *)
(* counters are kept modulo their check intervals, which is all that is    *)
(* read of them.                                                           *)
(*                                                                         *)
(* The window and its bounds are int32, and so the conversions that make   *)
(* them are modelled with their width.  Not so the intervals, which are    *)
(* taken to fit uint32, and currentSize, which would need 2^31 pieces of   *)
(* outstanding work to overflow.                                           *)
(***************************************************************************)
EXTENDS Integers, FiniteSets

CONSTANTS
    Work,                   \* the work objects
    NoWork,
    MaxInt32,
    MinSize, MaxSize,       \* as configured, uint32
    increaseCheckInterval, decreaseCheckInterval,
    Grown, Shrunk           \* float64(window) * increaseFactor, ... decreaseFactor,
                            \* rounded towards zero

Int32 == -(MaxInt32 + 1) .. MaxInt32

\* What Load() leaves: a minimum of at least 1 and no larger than the
\* maximum, an increase factor of at least 1, a decrease factor in (0, 1),
\* check intervals of at least 1.  There is no upper bound on the sizes but
\* that of uint32, and none on the increase factor.
Loaded ==
    /\ MinSize \in Nat \ {0} /\ MaxSize \in Nat /\ MinSize <= MaxSize
    /\ MaxSize <= 2 * MaxInt32 + 1
    /\ increaseCheckInterval \in Nat \ {0}
    /\ decreaseCheckInterval \in Nat \ {0}
    /\ Grown \in [Int32 -> Int]
    /\ Shrunk \in [Int32 -> Int32]
    /\ \A w \in Int32 :
          IF w >= 0 THEN Grown[w] >= w /\ Shrunk[w] \in 0 .. w
                    ELSE Grown[w] <= w /\ Shrunk[w] \in w .. 0

ASSUME ConfigLoaded == MaxInt32 \in Nat \ {0} /\ Loaded

\* What Load() does not look at: the largest window is an int32, and so is
\* every window multiplied by the increase factor.
Representable ==
    /\ MaxSize <= MaxInt32
    /\ \A w \in MinSize .. MaxSize - 1 : Grown[w] <= MaxInt32

\* int32(n) of a uint32 n.
Wrapped(n) == IF n <= MaxInt32 THEN n ELSE n - 2 * (MaxInt32 + 1)

minWindow == Wrapped(MinSize)
maxWindow == Wrapped(MaxSize)

ASSUME NoWorkIsNone == NoWork \notin Work

VARIABLES
    currentWindow,
    currentSize,
    outstandingWork,        \* keys of the map
    successCounter,         \* modulo increaseCheckInterval
    backoffCounter,         \* modulo decreaseCheckInterval
    status,                 \* per work: see Status
    expired,                \* work older than the timeout
    toRemove,               \* cleanExpired's list, still to be visited
    removing                \* the work cleanExpired is backing off, or NoWork

vars == <<currentWindow, currentSize, outstandingWork, successCounter,
          backoffCounter, status, expired, toRemove, removing>>

window == <<currentWindow, successCounter, backoffCounter>>
cleaner == <<expired, toRemove, removing>>

\* "none": not allocated.  "held": its slot is taken and `completed` is
\* false.  "success", "backoff", "failed": that report has won `completed`
\* and has yet to take the lock.  "done": reported, perhaps still referenced.
Reporting == {"success", "backoff", "failed"}
Status == {"none", "held", "done"} \cup Reporting

Init ==
    /\ currentWindow = maxWindow
    /\ currentSize = 0
    /\ outstandingWork = {}
    /\ successCounter = 0 /\ backoffCounter = 0
    /\ status = [w \in Work |-> "none"]
    /\ expired = {} /\ toRemove = {} /\ removing = NoWork

-----------------------------------------------------------------------------
(* Taking a slot.  A rejected request adds one and takes it off again under *)
(* the same lock: no step.                                                  *)

RunRateLimited(w) ==
    /\ status[w] = "none"
    /\ currentSize + 1 <= currentWindow
    /\ currentSize' = currentSize + 1
    /\ status' = [status EXCEPT ![w] = "held"]
    /\ outstandingWork' = outstandingWork \cup {w}
    /\ UNCHANGED <<window, cleaner>>

IsRateLimited == currentSize >= currentWindow

\* The mutant sets the flag without looking at it.
ReportAgain(w, how) ==
    /\ status[w] \in {"held", "done"}
    /\ status' = [status EXCEPT ![w] = how]
    /\ UNCHANGED <<currentSize, outstandingWork, window, cleaner>>

\* The caller reports: Success(), Backoff() or Failed() wins the flag.  A
\* report that loses the compare-and-swap does nothing.
Report(w, how) ==
    /\ status[w] = "held"
    /\ status' = [status EXCEPT ![w] = how]
    /\ UNCHANGED <<currentSize, outstandingWork, window, cleaner>>

-----------------------------------------------------------------------------
(* The sections under the lock.                                             *)

\* The mutant gives the slot back and leaves the work in the map.
ReleaseNoDelete(w) ==
    /\ currentSize' = currentSize - 1
    /\ outstandingWork' = outstandingWork
    /\ status' = [status EXCEPT ![w] = "done"]
    /\ removing' = IF removing = w THEN NoWork ELSE removing
    /\ UNCHANGED <<expired, toRemove>>

\* What success(), backoff() and complete() have in common: the slot and the
\* map entry go, and the reporter is finished.
Release(w) ==
    /\ currentSize' = currentSize - 1
    /\ outstandingWork' = outstandingWork \ {w}
    /\ status' = [status EXCEPT ![w] = "done"]
    /\ removing' = IF removing = w THEN NoWork ELSE removing
    /\ UNCHANGED <<expired, toRemove>>

\* int32(x) of a float64 that rounds to n.  Out of range the language leaves
\* the result to the implementation: amd64 gives the smallest int32 and
\* arm64 the nearest one.
Truncated(n) ==
    CASE n \in Int32   -> {n}
      [] n > MaxInt32  -> {-(MaxInt32 + 1), MaxInt32}
      [] OTHER         -> {-(MaxInt32 + 1)}

\* The mutant leaves a window alone that has grown past the maximum.
IncreasedUnclamped(current) ==
    {IF n = current THEN current + 1 ELSE n : n \in Truncated(Grown[current])}

Increased(current) ==
    LET next(n) == IF n = current THEN current + 1 ELSE n
    IN  {IF next(n) > maxWindow THEN maxWindow ELSE next(n) :
            n \in Truncated(Grown[current])}

Decreased(current) ==
    LET next == IF Shrunk[current] = current THEN current - 1 ELSE Shrunk[current]
    IN  IF next < minWindow THEN minWindow ELSE next

success(w) ==
    /\ status[w] = "success"
    /\ Release(w)
    /\ UNCHANGED backoffCounter
    /\ IF currentWindow >= maxWindow
       THEN UNCHANGED <<currentWindow, successCounter>>
       ELSE /\ successCounter' = (successCounter + 1) % increaseCheckInterval
            /\ \/ UNCHANGED currentWindow
               \/ /\ successCounter' = 0       \* and the rate is above it
                  /\ currentWindow' \in Increased(currentWindow)

backoff(w) ==
    /\ status[w] = "backoff"
    /\ Release(w)
    /\ UNCHANGED successCounter
    /\ IF currentWindow <= minWindow
       THEN UNCHANGED <<currentWindow, backoffCounter>>
       ELSE /\ backoffCounter' = (backoffCounter + 1) % decreaseCheckInterval
            /\ \/ UNCHANGED currentWindow
               \/ /\ backoffCounter' = 0       \* and the rate is below it
                  /\ currentWindow' = Decreased(currentWindow)

complete(w) ==
    /\ status[w] = "failed"
    /\ Release(w)
    /\ UNCHANGED window

-----------------------------------------------------------------------------
(* Expiry.                                                                  *)

\* time.Since(createTime) passes the timeout.
Age(w) ==
    /\ w \in outstandingWork \ expired
    /\ expired' = expired \cup {w}
    /\ UNCHANGED <<currentSize, outstandingWork, status, toRemove, removing, window>>

\* The mutant only cleans up when the window is full.
cleanExpiredWhenFull ==
    /\ toRemove = {} /\ removing = NoWork
    /\ outstandingWork \cap expired # {}
    /\ currentSize >= currentWindow
    /\ toRemove' = outstandingWork \cap expired
    /\ UNCHANGED <<currentSize, outstandingWork, status, expired, removing, window>>

\* The ticker fires with the previous round finished; the list is made under
\* the lock.  Work already reported may be on it.
cleanExpired ==
    /\ toRemove = {} /\ removing = NoWork
    /\ outstandingWork \cap expired # {}
    /\ toRemove' = outstandingWork \cap expired
    /\ UNCHANGED <<currentSize, outstandingWork, status, expired, removing, window>>

\* The mutant only logs that the work has expired.
RemoveExpiredLogged(w) ==
    /\ removing = NoWork
    /\ w \in toRemove
    /\ toRemove' = toRemove \ {w}
    /\ UNCHANGED <<currentSize, outstandingWork, status, expired, removing, window>>

\* One iteration of the loop: Backoff() wins the flag, or has lost it.
RemoveExpired(w) ==
    /\ removing = NoWork
    /\ w \in toRemove
    /\ toRemove' = toRemove \ {w}
    /\ IF status[w] = "held"
       THEN /\ status' = [status EXCEPT ![w] = "backoff"]
            /\ removing' = w
       ELSE UNCHANGED <<status, removing>>
    /\ UNCHANGED <<currentSize, outstandingWork, expired, window>>

\* Nothing refers to the object any more: its name stands for a new one.
Collect(w) ==
    /\ status[w] = "done" /\ w \notin toRemove
    /\ status' = [status EXCEPT ![w] = "none"]
    /\ expired' = expired \ {w}
    /\ UNCHANGED <<currentSize, outstandingWork, toRemove, removing, window>>

Reported(w) == success(w) \/ backoff(w) \/ complete(w)

Next ==
    \/ cleanExpired
    \/ \E w \in Work :
          \/ RunRateLimited(w)
          \/ \E how \in Reporting : Report(w, how)
          \/ success(w) \/ backoff(w) \/ complete(w)
          \/ Age(w) \/ RemoveExpired(w) \/ Collect(w)

Spec == Init /\ [][Next]_vars

\* Time passes, the expiry goroutine keeps running, and whoever has won
\* `completed` goes on to take the lock.  No caller ever has to report.
LiveSpec ==
    /\ Spec
    /\ WF_vars(cleanExpired)
    /\ \A w \in Work : /\ WF_vars(Age(w))
                       /\ WF_vars(RemoveExpired(w))
                       /\ WF_vars(Reported(w))

-----------------------------------------------------------------------------

TrackerTypeOK ==
    /\ currentWindow \in Int32 /\ currentSize \in Nat
    /\ outstandingWork \subseteq Work
    /\ successCounter \in 0 .. increaseCheckInterval - 1
    /\ backoffCounter \in 0 .. decreaseCheckInterval - 1
    /\ status \in [Work -> Status]
    /\ expired \subseteq Work /\ toRemove \subseteq Work
    /\ removing \in Work \cup {NoWork}

\* A slot is counted exactly while its work is in the map, whoever reports on
\* the work and however often: a caller's late report racing the expiry of
\* the same work gives the slot back once.  (currentSize.Add(-1) and delete()
\* in success(), backoff() and complete(), behind the `completed` flag.)
SlotsAreCounted == currentSize = Cardinality(outstandingWork)

\* The window stays within its configured bounds through every sequence of
\* growth and shrinkage, and so never more work is outstanding than the
\* largest window, even just after the window has shrunk below the work that
\* is already running.  (The struct's comment: "The window size adjusts
\* between minWindow and maxWindow".)  For a Representable configuration.
WindowBoundsWork ==
    /\ currentWindow \in MinSize .. MaxSize
    /\ Cardinality(outstandingWork) <= MaxSize

\* "so that work slots aren't lost" (the Timeout field): work whose caller
\* never reports loses its slot through expiry, and no interleaving of the
\* caller's report with the expiry leaves the slot taken for ever.
SlotsComeBack ==
    \A w \in Work : w \in outstandingWork ~> w \notin outstandingWork

\* A limiter that is full, or whose window has shrunk below the work that is
\* running, has a free slot again some time, though no caller ever reports
\* and each expiry may shrink the window further: what
\* hostedServiceRegistry.run(), which tries nothing while IsRateLimited(),
\* relies on to establish its terminators.
OpensAgain == IsRateLimited ~> ~IsRateLimited

=============================================================================

----------------------------- MODULE FlushCycle -----------------------------
(***************************************************************************)
(* The uploader's cycle: a heartbeat, then the event, metric and session   *)
(* queues flushed in turn, the backoff they share and the delay until the  *)
(* next cycle (src/internal/uploader/uploader.go).  How a batch is leased  *)
(* and acknowledged is EventQueue's and SessionQueue's concern, how a 401  *)
(* is recovered from is KeyRotation's: here a queue is its number of       *)
(* leasable batches, and a 401 either degrades or ends with a good key.    *)
(***************************************************************************)
EXTENDS Integers

CONSTANTS
  Intervals,    \* values of Policy.FlushInterval() the backend may set
  MaxBackoff,   \* maxBackoff
  Probe,        \* degradedProbeInterval
  MaxBacklog,   \* bound: batches in one queue
  MaxArrivals   \* bound: batches that arrive in all

ASSUME CycleAssumption ==
  /\ Intervals \subseteq Nat \ {0} /\ Intervals # {}
  /\ MaxBackoff \in Nat /\ Probe \in Nat
  /\ MaxBacklog \in Nat /\ MaxArrivals \in Nat

VARIABLES
  mode,       \* stateActive or stateDegraded
  base,       \* the flush interval of the policy in force
  backoff,
  delay,      \* what the timer was last reset to
  phase,      \* "start", "wait", "beat" or the queue being flushed
  backlog,    \* batches waiting in each queue
  bad,        \* queues whose oldest batch the backend refuses with a 4xx
  netUp,      \* does the backend answer?
  keyOk,      \* does it accept the key?
  failures,   \* sends that failed in this cycle
  answered,   \* has anything been answered in this cycle?
  arrivals

environment == <<bad, netUp, keyOk>>
cycleVars == <<mode, base, backoff, delay, phase, backlog, environment, failures,
               answered, arrivals>>
-----------------------------------------------------------------------------
Queues == {"events", "metrics", "sessions"}

\* Where the uploader goes from a heartbeat that leaves it active (Run's first
\* one flushes nothing), and from a flush.
AfterBeat == IF phase = "start" THEN "wait" ELSE "events"

After(q) == CASE q = "events"  -> "metrics"
              [] q = "metrics" -> "sessions"
              [] OTHER         -> "wait"

Larger(a, b) == IF a > b THEN a ELSE b

CycleInit ==
  /\ mode = "active"
  /\ base \in Intervals
  /\ backoff = 0
  /\ delay = 0
  /\ phase = "start"
  /\ backlog = [q \in Queues |-> 0]
  /\ bad \in SUBSET Queues
  /\ netUp \in BOOLEAN /\ keyOk \in BOOLEAN
  /\ failures = 0 /\ answered = FALSE
  /\ arrivals = 0

\* cycleDelay, with the backoff b and the interval i.
CycleDelay(m, b, i) == IF m = "degraded" THEN Probe ELSE Larger(b, i)

\* Go on to phase p; reaching "wait" resets the timer.
Enter(p, m, b, i) ==
  /\ phase' = p
  /\ delay' = IF p = "wait" THEN CycleDelay(m, b, i) ELSE delay

\* widenBackoff
Widened ==
  LET b == 2 * (IF backoff = 0 THEN base ELSE backoff)
  IN  IF b > MaxBackoff THEN MaxBackoff ELSE b

\* The timer fires: runCycle.
Timer ==
  /\ phase = "wait"
  /\ phase' = "beat"
  /\ failures' = 0 /\ answered' = FALSE
  /\ UNCHANGED <<mode, base, backoff, delay, backlog, environment, arrivals>>

Beating == phase \in {"start", "beat"}

\* HeartbeatOnce succeeds: enterActive and the refreshed policy.
HeartbeatOk ==
  /\ Beating /\ netUp /\ keyOk
  /\ mode' = "active" /\ backoff' = 0
  /\ base' \in Intervals
  /\ answered' = TRUE
  /\ Enter(AfterBeat, "active", 0, base')
  /\ UNCHANGED <<backlog, environment, failures, arrivals>>

\* handleAuthError, going on to phase p if a pending or freshly rotated key
\* could be adopted, and to phase d if not.
AuthError(p, d) ==
  /\ netUp /\ ~keyOk
  /\ answered' = TRUE
  /\ \/ /\ keyOk' = TRUE
        /\ mode' = "active" /\ backoff' = 0
        /\ Enter(p, "active", 0, base)
     \/ /\ keyOk' = FALSE
        /\ mode' = "degraded" /\ backoff' = backoff
        /\ Enter(d, "degraded", backoff, base)
  /\ UNCHANGED <<base, backlog, bad, netUp, failures, arrivals>>

HeartbeatUnauthorized == Beating /\ AuthError(AfterBeat, "wait")

\* No answer: the cycle goes on only if the mode is active.
HeartbeatLost ==
  /\ Beating /\ ~netUp
  /\ Enter(IF mode = "active" THEN AfterBeat ELSE "wait", mode, backoff, base)
  /\ UNCHANGED <<mode, base, backoff, backlog, environment, failures, answered, arrivals>>

\* A flush returns at once when an earlier one has degraded the mode.
FlushSkipped(q) ==
  /\ phase = q /\ mode = "degraded"
  /\ Enter(After(q), mode, backoff, base)
  /\ UNCHANGED <<mode, base, backoff, backlog, environment, failures, answered, arrivals>>

\* The queue is empty: onFlushSuccess clears the backoff all three share.
FlushEmpty(q) ==
  /\ phase = q /\ mode = "active" /\ backlog[q] = 0
  /\ backoff' = 0
  /\ Enter(After(q), mode, 0, base)
  /\ UNCHANGED <<mode, base, backlog, environment, failures, answered, arrivals>>

\* A batch is sent and acknowledged; the loop leases the next one.
SendOk(q) ==
  /\ phase = q /\ mode = "active" /\ backlog[q] > 0
  /\ netUp /\ keyOk /\ q \notin bad
  /\ backlog' = [backlog EXCEPT ![q] = @ - 1]
  /\ answered' = TRUE
  /\ UNCHANGED <<mode, base, backoff, delay, phase, environment, failures, arrivals>>

Deferred(q) ==
  /\ phase = q /\ mode = "active" /\ backlog[q] > 0
  /\ ~netUp \/ (keyOk /\ q \in bad)

\* Mutants: the loop tries again at once; runCycle stops at a failed flush.
SendDeferred_Retries(q) ==
  /\ Deferred(q)
  /\ failures <= 4     \* bound of the mutant alone
  /\ backoff' = Widened
  /\ failures' = failures + 1
  /\ answered' = (answered \/ netUp)
  /\ UNCHANGED <<mode, base, delay, phase, backlog, environment, arrivals>>

SendDeferred_EndsCycle(q) ==
  /\ Deferred(q)
  /\ backoff' = Widened
  /\ failures' = failures + 1
  /\ answered' = (answered \/ netUp)
  /\ Enter("wait", mode, Widened, base)
  /\ UNCHANGED <<mode, base, backlog, environment, arrivals>>

\* The send fails on the network, or the backend refuses the batch: it is
\* nacked, the backoff widens and this flush ends.
SendDeferred(q) ==
  /\ Deferred(q)
  /\ backoff' = Widened
  /\ failures' = failures + 1
  /\ answered' = (answered \/ netUp)
  /\ Enter(After(q), mode, Widened, base)
  /\ UNCHANGED <<mode, base, backlog, environment, arrivals>>

SendUnauthorized(q) ==
  /\ phase = q /\ mode = "active" /\ backlog[q] > 0
  /\ AuthError(After(q), After(q))

\* The database fails to lease: the flush ends and the backoff stays.
LeaseFails(q) ==
  /\ phase = q /\ mode = "active"
  /\ Enter(After(q), mode, backoff, base)
  /\ UNCHANGED <<mode, base, backoff, backlog, environment, failures, answered, arrivals>>

Flush(q) ==
  \/ FlushSkipped(q) \/ FlushEmpty(q)
  \/ SendOk(q) \/ SendDeferred(q) \/ SendUnauthorized(q) \/ LeaseFails(q)

Cycle ==
  \/ Timer
  \/ HeartbeatOk \/ HeartbeatUnauthorized \/ HeartbeatLost
  \/ \E q \in Queues : Flush(q)

Arrive ==
  /\ arrivals < MaxArrivals /\ arrivals' = arrivals + 1
  /\ \E q \in Queues : /\ backlog[q] < MaxBacklog
                       /\ backlog' = [backlog EXCEPT ![q] = @ + 1]
  /\ UNCHANGED <<mode, base, backoff, delay, phase, environment, failures, answered>>

\* The backend goes away and comes back; the key in use dies, and a rotation
\* (RotateCheckOnce leaves the mode alone) or a reloaded login replaces it.
NetworkChanges ==
  /\ netUp' = ~netUp
  /\ UNCHANGED <<mode, base, backoff, delay, phase, backlog, bad, keyOk, failures,
                 answered, arrivals>>

KeyChanges ==
  /\ keyOk' = ~keyOk
  /\ UNCHANGED <<mode, base, backoff, delay, phase, backlog, bad, netUp, failures,
                 answered, arrivals>>

CycleNext == Cycle \/ Arrive \/ NetworkChanges \/ KeyChanges

CycleSpec == CycleInit /\ [][CycleNext]_cycleVars

\* The uploader goroutine keeps running: its timer fires and every request
\* ends, at the latest in a timeout.  The database does not fail every lease.
CycleFairness ==
  /\ WF_cycleVars(Cycle)
  /\ \A q \in Queues : SF_cycleVars(SendOk(q))

CycleLiveSpec == CycleSpec /\ CycleFairness
-----------------------------------------------------------------------------
(***************************************************************************)
(* Properties.                                                             *)
(***************************************************************************)

\* Every variable has its type.
CycleTypeOK ==
  /\ mode \in {"active", "degraded"}
  /\ base \in Intervals
  /\ backoff \in 0 .. MaxBackoff
  /\ delay \in {Probe} \cup Intervals \cup 0 .. MaxBackoff
  /\ phase \in {"start", "wait", "beat"} \cup Queues
  /\ backlog \in [Queues -> 0 .. MaxBacklog]
  /\ arrivals \in 0 .. MaxArrivals

\* No retry storm (uploader.go:203-205, 413-415): a cycle makes at most one
\* failing send per queue, an active uploader waits at least the policy's
\* interval before the next, and a degraded one the probe interval, although a
\* 401 or a new policy may arrive in any phase.
NoStorm ==
  /\ failures <= 3
  /\ phase = "wait" => IF mode = "degraded" THEN delay = Probe ELSE delay >= base

\* Once the backend stays reachable and accepts the key, every queue drains,
\* whatever went before, although the oldest batch of another may be refused for
\* ever: a failed flush ends itself, never the cycle (uploader.go:162-168).
OthersDrain ==
  <>[](netUp /\ keyOk) =>
    \A q \in Queues : q \notin bad => []<>(backlog[q] = 0)

\* As uploader.go:27-28 and 170-172 have it: after a cycle whose sends failed
\* and to which nothing answered, the next one comes later than usual.  (It is
\* not so: the flush of a queue that is empty clears the backoff.)
OutageBacksOff ==
  phase = "wait" /\ mode = "active" /\ failures > 0 /\ ~answered
    /\ 2 * base <= MaxBackoff
    => delay > base
=============================================================================

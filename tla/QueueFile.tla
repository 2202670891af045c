----------------------------- MODULE QueueFile -----------------------------
(***************************************************************************)
(* The metrics table of queue.db and the file it shares with the events    *)
(* and the sessions (src/internal/queue/metrics.go).  The table is the     *)
(* state machine of EventQueue, whose items are here the metric points;    *)
(* its rows have an idempotency key of their own, except those from before *)
(* the column existed.  Each eviction measures the whole file, but deletes *)
(* rows of its own table only, and the file never shrinks: that is         *)
(* EventQueue with MayOutgrow and without AutoVacuum.                      *)
(***************************************************************************)
EXTENDS EventQueue

CONSTANTS
  Legacy,       \* points queued before the point_id column: no key
  MaxPages,     \* Options.MaxBytes, one row to a page
  MaxSessions,  \* the row cap of the sessions table
  MaxLost,      \* bound: answers that are lost after the backend took a batch
  MaxCalls      \* bound: calls of Enqueue and of UpsertSessions

ASSUME QueueFileAssumption ==
  /\ Legacy \subseteq Events /\ Cardinality(Legacy) <= MaxPages
  /\ \A n \in {MaxPages, MaxSessions, MaxLost, MaxCalls} : n \in Nat

VARIABLES
  events,    \* rows of the events table
  sessions,  \* rows of the sessions table
  size,      \* page_count: the most rows there have ever been
  counted,   \* how often the backend has counted each point
  lost,      \* answers lost so far
  calls      \* of what is bounded by MaxCalls

others == <<events, sessions>>
backend == <<counted, lost>>
fileVars == <<vars, others, size, backend, calls>>
-----------------------------------------------------------------------------
\* A table of the version before: its rows are pending, in some order.
FileInit ==
  /\ fate = [p \in Events |-> IF p \in Legacy THEN "pending" ELSE "new"]
  /\ rowid \in [Events -> 0 .. Cardinality(Legacy)]
  /\ \A p, r \in Events : /\ rowid[p] = 0 <=> p \notin Legacy
                          /\ rowid[p] = rowid[r] /\ p \in Legacy => p = r
  /\ big = FALSE /\ up = TRUE /\ pc = "idle"
  /\ batch = {} /\ ids = {} /\ accepted = {} /\ faults = 0
  /\ events = 0 /\ sessions = 0 /\ size = Cardinality(Legacy)
  /\ counted = [p \in Events |-> 0] /\ lost = 0 /\ calls = 0

\* The high-water mark, if the tables get n rows for a moment.
Grown(n) == IF n > size THEN n ELSE size

Call == calls < MaxCalls /\ calls' = calls + 1

\* EnqueueMetrics: what overCapMetrics finds is the size of the whole file.
EnqueueMetrics(S) ==
  /\ Enqueue(S)
  /\ size' = Grown(Cardinality(Rows(Inserted(S))) + events + sessions)
  /\ big' = (size' > MaxPages)
  /\ UNCHANGED <<others, backend, calls>>

\* insertMetrics fails: the transaction is rolled back.
EnqueueMetricsRefused(S) ==
  EnqueueRefused(S) /\ UNCHANGED <<others, size, backend, calls>>

\* Mutant: only the row cap is looked at.
Kept_RowsOnly(n, over) == IF n > MaxRows THEN AfterRound(n) ELSE n

\* What the eviction of the events table leaves of n rows: none, if the file
\* is over its cap, for it stays there.
Kept(n, over) ==
  IF over THEN 0 ELSE IF n > MaxRows THEN AfterRound(n) ELSE n

\* Enqueue, for events; its eviction may fail when the rows are in.
EnqueueEvents(n) ==
  /\ up /\ Call
  /\ size' = Grown(Cardinality(Rows(fate)) + events + n + sessions)
  /\ \/ events' = Kept(events + n, size' > MaxPages) /\ faults' = faults
     \/ events' = events + n /\ faults < MaxFaults /\ faults' = faults + 1
  /\ UNCHANGED <<fate, rowid, big, up, uploaderVars, sessions, backend>>

\* UpsertSessions: a new session, and the oldest goes if there are too many.
\* The bytes are not looked at.
UpsertSession ==
  /\ up /\ Call
  /\ size' = Grown(Cardinality(Rows(fate)) + events + sessions + 1)
  /\ sessions' = IF sessions < MaxSessions THEN sessions + 1 ELSE sessions
  /\ UNCHANGED <<vars, events, backend>>

\* PruneAcked and PruneAckedSessions: the pages are free, the file keeps them.
OthersPruned ==
  /\ up
  /\ \/ events > 0 /\ events' = events - 1 /\ sessions' = sessions
     \/ sessions > 0 /\ sessions' = sessions - 1 /\ events' = events
  /\ UNCHANGED <<vars, size, backend, calls>>
-----------------------------------------------------------------------------
\* Mutant: splitMetrics sends every point without its key.
Keyless_All(B) == B

\* splitMetrics: the items without a point_id are sent without a key.
Keyless(B) == B \cap Legacy

\* The backend takes a batch: a key it has seen is not counted again.
Takes ==
  counted' = [p \in Events |->
                IF p \in batch /\ (p \in Keyless(batch) \/ counted[p] = 0)
                THEN counted[p] + 1 ELSE counted[p]]

\* SendMetrics returns nil.
SendMetricsOk ==
  SendOk /\ Takes /\ UNCHANGED <<others, size, lost, calls>>

\* It returns an error: the batch did not arrive, or its answer did not.
SendMetricsFails ==
  /\ SendFails
  /\ \/ accepted' = accepted \cup batch /\ Takes /\ lost < MaxLost /\ lost' = lost + 1
     \/ accepted' = accepted /\ UNCHANGED backend
  /\ UNCHANGED <<others, size, calls>>

\* What else happens to the metrics rows leaves the rest alone.
LeaseMetricsBatch == Lease /\ UNCHANGED <<others, size, backend, calls>>
AckMetrics == Ack /\ UNCHANGED <<others, size, backend, calls>>
NackMetrics == Nack /\ UNCHANGED <<others, size, backend, calls>>
MetricsWriteFails == AckOrNackFails /\ UNCHANGED <<others, size, backend, calls>>
MetricsLeaseExpires == LeaseExpires /\ UNCHANGED <<others, size, backend, calls>>
PruneAckedMetrics == PruneAcked /\ UNCHANGED <<others, size, backend, calls>>
DaemonDies == Crash /\ UNCHANGED <<others, size, backend, calls>>
DaemonRestarts == Restart /\ UNCHANGED <<others, size, backend, calls>>

FileNext ==
  \/ \E S \in Batches : EnqueueMetrics(S) \/ EnqueueMetricsRefused(S)
  \/ \E n \in 1 .. MaxEnqueue : EnqueueEvents(n)
  \/ UpsertSession \/ OthersPruned
  \/ LeaseMetricsBatch \/ SendMetricsOk \/ SendMetricsFails
  \/ AckMetrics \/ NackMetrics \/ MetricsWriteFails \/ MetricsLeaseExpires
  \/ PruneAckedMetrics \/ DaemonDies \/ DaemonRestarts

FileSpec == FileInit /\ [][FileNext]_fileVars
-----------------------------------------------------------------------------
\* Although the file never shrinks and each table deletes its own rows alone,
\* it stays within its cap, one batch for this call and for each eviction that
\* failed, and the sessions, which are not counted (queue.go:392-425,
\* metrics.go:244-277, sessions.go).
FileBounded ==
  size <= MaxPages + MaxSessions + (faults + 1) * MaxEnqueue

\* A point is counted once, however often its row is leased again and sent; one
\* without a key once more for each answer lost or ack not written
\* (metrics.go:46-51, uploader.go:565-569).
CountedOnce ==
  \A p \in Events :
    counted[p] <= 1 + IF p \in Legacy THEN lost + faults ELSE 0
=============================================================================

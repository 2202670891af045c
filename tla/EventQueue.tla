----------------------------- MODULE EventQueue -----------------------------
(***************************************************************************)
(* The events table of ~/.burndown/queue.db, the uploader goroutine that   *)
(* leases, sends and acknowledges its rows, and the backend's ingest       *)
(* endpoint (src/internal/queue/queue.go, src/internal/uploader).          *)
(*                                                                         *)
(* The receiver's handlers enqueue, one uploader flushes, the retention    *)
(* goroutine prunes: the three interleave at the granularity of q.mu.  A   *)
(* row is addressed by its SQLite rowid.  The table has no AUTOINCREMENT,  *)
(* so the next rowid is one more than the largest one still in the table.  *)
(***************************************************************************)
EXTENDS Integers, FiniteSets

CONSTANTS
  Events,         \* the normalized events ever handed to Enqueue
  MaxRows,        \* Options.MaxRows
  EvictChunk,     \* evictChunk
  BatchSize,      \* Policy.BatchSize(), the LIMIT of a lease
  MaxEnqueue,     \* bound: events in one Enqueue call
  MayOutgrow,     \* may queue.db, shared by three tables, reach maxBytes?
  AutoVacuum,     \* does PRAGMA incremental_vacuum give pages back?
  MaxFaults       \* bound: crashes and failed database writes in a behaviour

ASSUME ConstantsAssumption ==
  /\ IsFiniteSet(Events)
  /\ MaxRows \in Nat \ {0}
  /\ EvictChunk \in Nat \ {0}
  /\ BatchSize \in Nat \ {0}
  /\ MaxEnqueue \in Nat \ {0}
  /\ MayOutgrow \in BOOLEAN
  /\ AutoVacuum \in BOOLEAN
  /\ MaxFaults \in Nat

VARIABLES
  fate,       \* what became of each event; see Fates
  rowid,      \* the rowid of each event's row, 0 if it has none
  big,        \* page_count * page_size > maxBytes at the last Enqueue
  up,         \* is the daemon process running?
  pc,         \* where the uploader is in FlushOnce and sendBatch
  batch,      \* the events of the leased batch held in memory
  ids,        \* the row ids held with them (split)
  accepted,   \* the events the backend has taken (it dedupes by event_id)
  faults      \* crashes and failed writes so far

uploaderVars == <<pc, batch, ids, accepted>>
vars == <<fate, rowid, big, up, uploaderVars, faults>>
-----------------------------------------------------------------------------
\* "lapsed" is state='leased' with leased_until in the past.  A deleted row is
\* "forgotten" if it was acked and "evicted" if not; "refused" is an Enqueue
\* that rolled back.
Outstanding == {"pending", "leased", "lapsed"}
Stored      == Outstanding \cup {"acked"}
Fates       == Stored \cup {"new", "refused", "evicted", "forgotten"}

Rows(f) == {e \in Events : f[e] \in Stored}

\* Mutant: the next id is taken from the number of rows.
LargestRowid_Counted == {Cardinality(Rows(fate))}

\* max(rowid), 0 for an empty table (as a set with that one element).
LargestRowid == {n \in {0} \cup {rowid[e] : e \in Rows(fate)} :
                   \A e \in Rows(fate) : rowid[e] <= n}

\* Mutant: ORDER BY (state='acked') DESC, id DESC.
VictimBefore_NewestFirst(f, id, a, b) ==
  \/ f[a] = "acked" /\ f[b] # "acked"
  \/ (f[a] = "acked" <=> f[b] = "acked") /\ id[a] > id[b]

\* ORDER BY (state='acked') DESC, id ASC: the order of deleteVictims.
VictimBefore(f, id, a, b) ==
  \/ f[a] = "acked" /\ f[b] # "acked"
  \/ (f[a] = "acked" <=> f[b] = "acked") /\ id[a] < id[b]

\* The rows that go, of table f with row ids id, when `left' rows stay.
Victims(f, id, left) ==
  {D \in SUBSET Rows(f) :
     /\ Cardinality(Rows(f) \ D) = left
     /\ \A a \in D, b \in Rows(f) \ D : VictimBefore(f, id, a, b)}

EvictTarget(n) == IF n - MaxRows > EvictChunk THEN n - MaxRows ELSE EvictChunk

\* What one evictRound leaves of a table of n rows.
AfterRound(n) == IF n > EvictTarget(n) THEN n - EvictTarget(n) ELSE 0

\* What a round and then any number of rounds of one evictChunk leave of it.
AfterRounds(n) ==
  {m \in 0 .. AfterRound(n) : m = 0 \/ (AfterRound(n) - m) % EvictChunk = 0}

\* evictIfNeeded over n rows, in a file over its byte cap or not, returns nil
\* with `left' rows and the file `still' over the cap.  Rounds repeat while it
\* is.  With AutoVacuum the freed pages bring the file under the cap after
\* some round, or not even once the table is empty, when the other tables hold
\* the bytes; without it page_count never falls and only an empty table ends
\* the loop.
EvictionEnds(n, over, left, still) ==
  \/ ~over /\ ~still /\ left = IF n > MaxRows THEN AfterRound(n) ELSE n
  \/ over /\ still /\ left = 0
  \/ over /\ ~still /\ AutoVacuum /\ left \in AfterRounds(n)

\* evictIfNeeded fails in its first overCap or after some of its rounds.
EvictionFails(n, over, left, still) ==
  /\ still = over
  /\ \/ left = n
     \/ over /\ left \in AfterRounds(n)
     \/ n > MaxRows /\ left = AfterRound(n)

\* Whether the file is over its cap once an Enqueue has inserted its rows: all
\* three tables grow it, and only a vacuum that frees pages shrinks it.
FileSizes == {over \in BOOLEAN :
                /\ over => MayOutgrow
                /\ big /\ ~AutoVacuum => over}
-----------------------------------------------------------------------------
Init ==
  /\ fate = [e \in Events |-> "new"]
  /\ rowid = [e \in Events |-> 0]
  /\ big = FALSE
  /\ up = TRUE
  /\ pc = "idle"
  /\ batch = {}
  /\ ids = {}
  /\ accepted = {}
  /\ faults = 0

\* Delete the rows D of the table f.
Delete(f, D) ==
  [e \in Events |-> IF e \notin D THEN f[e]
                    ELSE IF f[e] = "acked" THEN "forgotten" ELSE "evicted"]

Inserted(S) == [e \in Events |-> IF e \in S THEN "pending" ELSE fate[e]]

\* The ids the inserts of S get, in some order: max(rowid)+1 upward.
NewIds(S) ==
  UNION {{at \in [S -> top + 1 .. top + Cardinality(S)] :
            \A a, b \in S : at[a] = at[b] => a = b} : top \in LargestRowid}

InsertedAt(S, at) == [e \in Events |-> IF e \in S THEN at[e] ELSE rowid[e]]

\* Enqueue: one transaction inserts the batch, and after its commit, still
\* under q.mu, evictIfNeeded runs; its error is returned although the rows
\* are in.
Enqueue(S) ==
  /\ up
  /\ \E at \in NewIds(S), over \in FileSizes, failed \in BOOLEAN :
       LET f == Inserted(S)
           id == InsertedAt(S, at)
           n == Cardinality(Rows(f))
       IN  /\ failed => faults < MaxFaults
           /\ faults' = IF failed THEN faults + 1 ELSE faults
           /\ \E left \in 0 .. n, still \in BOOLEAN :
                /\ IF failed THEN EvictionFails(n, over, left, still)
                             ELSE EvictionEnds(n, over, left, still)
                /\ big' = still
                /\ \E D \in Victims(f, id, left) :
                     /\ fate' = Delete(f, D)
                     /\ rowid' = [e \in Events |-> IF e \in D THEN 0 ELSE id[e]]
  /\ UNCHANGED <<up, uploaderVars>>

\* The transaction fails and rolls back: none of the batch is in the table.
EnqueueRefused(S) ==
  /\ up
  /\ faults < MaxFaults
  /\ faults' = faults + 1
  /\ fate' = [e \in Events |-> IF e \in S THEN "refused" ELSE fate[e]]
  /\ UNCHANGED <<rowid, big, up, uploaderVars>>

EnqueueCall(S) == Enqueue(S) \/ EnqueueRefused(S)

\* Fresh batches a handler may pass.
Batches == {S \in SUBSET {e \in Events : fate[e] = "new"} :
              S # {} /\ Cardinality(S) <= MaxEnqueue}

-----------------------------------------------------------------------------
\* Mutants: the lease time is not looked at; WHERE leased_until IS NULL.
Leasable_NeverLapsed == {e \in Events : fate[e] = "pending"}
Leasable_OrAcked     == {e \in Events : fate[e] \in {"pending", "lapsed", "acked"}}

\* WHERE state='pending' OR (state='leased' AND leased_until < now)
Leasable == {e \in Events : fate[e] \in {"pending", "lapsed"}}

\* ORDER BY id ASC LIMIT BatchSize
OldestLeasable ==
  {B \in SUBSET Leasable :
     /\ \A a \in B, b \in Leasable \ B : rowid[a] < rowid[b]
     /\ \/ B = Leasable /\ Cardinality(B) <= BatchSize
        \/ Cardinality(B) = BatchSize}

\* Mutant: the rows are acked when they are taken, before the send.
Lease_AcksEarly ==
  /\ up /\ pc = "idle"
  /\ Leasable # {}
  /\ \E B \in OldestLeasable :
       /\ batch' = B
       /\ ids' = {rowid[e] : e \in B}
       /\ fate' = [e \in Events |-> IF e \in B THEN "acked" ELSE fate[e]]
  /\ pc' = "sending"
  /\ UNCHANGED <<rowid, big, up, accepted, faults>>

\* LeaseBatch: one critical section selects the rows and marks them leased.
\* The uploader keeps the payloads and the row ids.
Lease ==
  /\ up /\ pc = "idle"
  /\ Leasable # {}
  /\ \E B \in OldestLeasable :
       /\ batch' = B
       /\ ids' = {rowid[e] : e \in B}
       /\ fate' = [e \in Events |-> IF e \in B THEN "leased" ELSE fate[e]]
  /\ pc' = "sending"
  /\ UNCHANGED <<rowid, big, up, accepted, faults>>

\* SendEvents returns nil: the backend answered one of the attempts with 2xx.
SendOk ==
  /\ up /\ pc = "sending"
  /\ accepted' = accepted \cup batch
  /\ pc' = "acking"
  /\ UNCHANGED <<fate, rowid, big, up, batch, ids, faults>>

\* Mutants: the error is not looked at; sendBatch returns without a Nack.
SendFails_Acks ==
  /\ up /\ pc = "sending"
  /\ accepted' \in {accepted, accepted \cup batch}
  /\ pc' = "acking"
  /\ UNCHANGED <<fate, rowid, big, up, batch, ids, faults>>

SendFails_NoNack ==
  /\ up /\ pc = "sending"
  /\ accepted' \in {accepted, accepted \cup batch}
  /\ pc' = "idle" /\ batch' = {} /\ ids' = {}
  /\ UNCHANGED <<fate, rowid, big, up, faults>>

\* SendEvents returns an error after its attempts: the requests were lost or
\* refused, or the backend took the batch and every answer was lost.
SendFails ==
  /\ up /\ pc = "sending"
  /\ accepted' \in {accepted, accepted \cup batch}
  /\ pc' = "nacking"
  /\ UNCHANGED <<fate, rowid, big, up, batch, ids, faults>>

\* updateByIDs: UPDATE queue SET state=... WHERE id IN (ids).  The ids alone
\* choose the rows; the state they are in is not looked at.
UpdateByIDs(state) ==
  [e \in Events |-> IF e \in Rows(fate) /\ rowid[e] \in ids THEN state
                                                            ELSE fate[e]]

\* The batch is done with, whether or not the write went through.
BatchDone ==
  /\ pc' = "idle"
  /\ batch' = {}
  /\ ids' = {}
  /\ UNCHANGED <<rowid, big, up, accepted>>

Ack ==
  /\ up /\ pc = "acking"
  /\ fate' = UpdateByIDs("acked")
  /\ BatchDone
  /\ UNCHANGED faults

Nack ==
  /\ up /\ pc = "nacking"
  /\ fate' = UpdateByIDs("pending")
  /\ BatchDone
  /\ UNCHANGED faults

\* Ack's error is logged and Nack's discarded; the rows stay leased.
AckOrNackFails ==
  /\ up /\ pc \in {"acking", "nacking"}
  /\ faults < MaxFaults
  /\ faults' = faults + 1
  /\ BatchDone
  /\ UNCHANGED fate

\* leased_until passes.  leaseDuration exceeds the longest call, but the wall
\* clock of a sleeping machine does not, so the row may be in flight.
LeaseExpires ==
  /\ \E e \in Events : /\ fate[e] = "leased"
                       /\ fate' = [fate EXCEPT ![e] = "lapsed"]
  /\ UNCHANGED <<rowid, big, up, uploaderVars, faults>>

\* PruneAcked: delete the acked rows whose acked_at is before the cutoff.
PruneAcked ==
  /\ up
  /\ \E D \in SUBSET {e \in Events : fate[e] = "acked"} :
       /\ D # {}
       /\ fate' = Delete(fate, D)
       /\ rowid' = [e \in Events |-> IF e \in D THEN 0 ELSE rowid[e]]
  /\ UNCHANGED <<big, up, uploaderVars, faults>>

\* The process dies; what the uploader held in memory is gone.
Crash ==
  /\ up
  /\ faults < MaxFaults
  /\ faults' = faults + 1
  /\ up' = FALSE
  /\ pc' = "idle" /\ batch' = {} /\ ids' = {}
  /\ UNCHANGED <<fate, rowid, big, accepted>>

\* KeepAlive restarts it and Open finds the table as it was.
Restart ==
  /\ ~up
  /\ up' = TRUE
  /\ UNCHANGED <<fate, rowid, big, uploaderVars, faults>>

Next ==
  \/ \E S \in Batches : EnqueueCall(S)
  \/ Lease
  \/ SendOk
  \/ SendFails
  \/ Ack
  \/ Nack
  \/ AckOrNackFails
  \/ LeaseExpires
  \/ PruneAcked
  \/ Crash
  \/ Restart

Spec == Init /\ [][Next]_vars

\* The daemon keeps running its cycles and the wall clock keeps advancing; the
\* backend, tried for ever, answers again and again.
Fairness ==
  /\ WF_vars(Lease) /\ WF_vars(Ack) /\ WF_vars(Nack)
  /\ WF_vars(SendOk \/ SendFails) /\ SF_vars(SendOk)
  /\ WF_vars(LeaseExpires)
  /\ WF_vars(Restart)

LiveSpec == Spec /\ Fairness

-----------------------------------------------------------------------------
(***************************************************************************)
(* Properties.                                                             *)
(***************************************************************************)

\* Every variable has its type, a row has a rowid exactly while it is in the
\* table, and the uploader holds a batch exactly while it is not idle.
TypeOK ==
  /\ fate \in [Events -> Fates]
  /\ rowid \in [Events -> Nat]
  /\ \A e \in Events : rowid[e] > 0 <=> fate[e] \in Stored
  /\ big \in BOOLEAN /\ up \in BOOLEAN
  /\ pc \in {"idle", "sending", "acking", "nacking"}
  /\ batch \subseteq Events /\ ids \subseteq Nat
  /\ (pc = "idle" <=> batch = {}) /\ (~up => pc = "idle")
  /\ accepted \subseteq Events
  /\ faults \in 0 .. MaxFaults

\* A row id the uploader holds names a row of its batch or no row at all:
\* evictions, prunes and inserts made while the request is in flight never
\* hand it to another event (Ack and Nack address rows by id alone).
InFlightIdsNotReused ==
  \A e \in Rows(fate) : rowid[e] \in ids => e \in batch

\* An event is marked acked, and later counted by stats and pruned, only if
\* the backend has taken it (queue.go:5-8).
AckedWasAccepted ==
  \A e \in Events : fate[e] \in {"acked", "forgotten"} => e \in accepted

\* While no crash and no failed write has happened, a leased row is one the
\* uploader is sending: Ack and Nack leave none behind (run.go:28-31).
NoStuckLeases ==
  faults = 0 => \A e \in Events : fate[e] \in {"leased", "lapsed"} => e \in batch

\* While the uploader holds a batch no one else disturbs its rows: each is
\* still leased, whatever its lease time, or was evicted.
BatchStaysLeased ==
  \A e \in batch : fate[e] \in {"leased", "lapsed", "evicted"}

\* Why no row id in flight is handed out again: the table still holds an
\* undelivered row at or above each of them, and inserts go above that row.
RowidInv ==
  /\ \A a, b \in Rows(fate) : rowid[a] = rowid[b] => a = b
  /\ \A i \in ids : \E e \in Rows(fate) : fate[e] # "acked" /\ i <= rowid[e]
  /\ InFlightIdsNotReused
  /\ BatchStaysLeased
  /\ pc = "acking" => batch \subseteq accepted
  /\ AckedWasAccepted

\* An event Enqueue inserts is still there when Enqueue returns: eviction
\* sacrifices delivered history and older rows before the rows just queued.
QueuedIsKept ==
  [][\A e \in Events : fate[e] = "new" => fate'[e] # "evicted"]_vars

\* Acked rows are never leased again (queue.go Ack).
AckedIsFinal ==
  [][\A e \in Events : fate[e] \in {"acked", "forgotten"} =>
                       fate'[e] \in {"acked", "forgotten"}]_vars

\* Queued events reach the backend unless a cap evicts them, if faults are
\* finitely many and the backend answers again and again.
EventuallySettled ==
  \A e \in Events :
    fate[e] \in Outstanding ~> (e \in accepted \/ fate[e] = "evicted")

\* The queue, the uploader and the backend together implement Delivery: the
\* outbox is what still waits in the table or is in flight.  An evicted row
\* that is in flight may still reach the backend.
InFlight == IF pc = "sending" THEN batch ELSE {}

Outbox  == {e \in Events \ accepted : fate[e] \in Outstanding \/ e \in InFlight}
GivenUp == {e \in Events \ (accepted \cup InFlight) : fate[e] = "evicted"}

Promise == INSTANCE Delivery WITH
       Items <- Events, outbox <- Outbox, delivered <- accepted, givenUp <- GivenUp

DeliversOrEvicts == Promise!DeliverySpec
=============================================================================

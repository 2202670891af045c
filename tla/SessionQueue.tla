---------------------------- MODULE SessionQueue ----------------------------
(***************************************************************************)
(* The sessions table of queue.db, the uploader that leases, sends and     *)
(* acknowledges its rows, and the backend that keeps the newest snapshot   *)
(* of each session (src/internal/queue/sessions.go, src/internal/uploader).*)
(*                                                                         *)
(* A row is a running summary of one session: every upsert folds events    *)
(* into it, adds one to its revision and moves its updated_at forward.     *)
(* What a summary counts is modelled by which of the session's upserts it  *)
(* holds: those after `from' up to `to'.                                   *)
(***************************************************************************)
EXTENDS Integers, FiniteSets

CONSTANTS
  Sessions,         \* session ids
  MaxSessionRows,   \* maxSessionRows
  BatchSize,        \* min(Policy.BatchSize(), 500), the LIMIT of a lease
  MaxUpdates,       \* bound: upserts per session
  MaxClock,         \* bound: seconds that pass
  MaxFaults         \* bound: crashes and failed database writes

ASSUME ConstantsAssumption ==
  /\ IsFiniteSet(Sessions)
  /\ MaxSessionRows \in Nat \ {0}
  /\ BatchSize \in Nat \ {0}
  /\ MaxUpdates \in Nat /\ MaxClock \in Nat \ {0} /\ MaxFaults \in Nat

VARIABLES
  clock,      \* time.Now().UTC().Truncate(time.Second)
  row,        \* the row of each session, NoRow if it has none
  total,      \* how many upserts of each session have committed
  evicted,    \* sessions whose row was ever deleted to keep the table small
  pruned,     \* sessions whose row was ever deleted by retention
  up,         \* is the daemon process running?
  pc,         \* where the uploader is in FlushSessionsOnce
  batch,      \* the items it holds
  sent,       \* every item ever put on the wire: any copy may arrive, again
  remote,     \* the snapshot of each session the backend keeps
  faults      \* crashes and failed writes so far

ghosts == <<evicted, pruned>>
vars == <<clock, row, total, ghosts, up, pc, batch, sent, remote, faults>>
-----------------------------------------------------------------------------
\* "lapsed" is state='leased' with leased_until in the past.
Outstanding == {"pending", "leased", "lapsed"}
NoRow == [rev |-> 0, upd |-> 0, from |-> 0, to |-> 0, state |-> "none"]

RowSet == [rev: Nat, upd: Nat, from: Nat, to: Nat,
           state: Outstanding \cup {"acked", "none"}]

Stored(r) == {s \in Sessions : r[s].state # "none"}

\* SessionItem: the key, the revision and the payload of a leased row.
Item(s) == [session |-> s, rev |-> row[s].rev, upd |-> row[s].upd,
            from |-> row[s].from, to |-> row[s].to]

Snapshot(r) == [upd |-> r.upd, from |-> r.from, to |-> r.to]

\* ORDER BY (state='acked') DESC, updated_at ASC
VictimBefore(r, a, b) ==
  \/ r[a].state = "acked" /\ r[b].state # "acked"
  \/ (r[a].state = "acked" <=> r[b].state = "acked") /\ r[a].upd <= r[b].upd

\* The rows deleted to bring the table r down to MaxSessionRows.
Surplus(r) ==
  {D \in SUBSET Stored(r) :
     /\ Cardinality(Stored(r) \ D) =
          IF Cardinality(Stored(r)) > MaxSessionRows
            THEN MaxSessionRows ELSE Cardinality(Stored(r))
     /\ \A a \in D, b \in Stored(r) \ D : VictimBefore(r, a, b)}
-----------------------------------------------------------------------------
Init ==
  /\ clock = 1
  /\ row = [s \in Sessions |-> NoRow]
  /\ total = [s \in Sessions |-> 0]
  /\ evicted = {} /\ pruned = {}
  /\ up = TRUE
  /\ pc = "idle" /\ batch = {} /\ sent = {}
  /\ remote = [s \in Sessions |-> Snapshot(NoRow)]
  /\ faults = 0

Tick ==
  /\ clock < MaxClock
  /\ clock' = clock + 1
  /\ UNCHANGED <<row, total, ghosts, up, pc, batch, sent, remote, faults>>

\* Mutant: the time alone stamps the snapshot.
UpdatedAt_Now(s) == clock

\* setSessionUpdatedAt: at least one second after the prior snapshot.
UpdatedAt(s) ==
  IF row[s].state # "none" /\ clock <= row[s].upd THEN row[s].upd + 1 ELSE clock

\* Mutants: the payload is replaced, not merged; the revision stays.
Merged_DropsPrior(s) ==
  [rev |-> row[s].rev + 1, upd |-> UpdatedAt(s), from |-> total[s],
   to |-> total[s] + 1, state |-> "pending"]

Merged_SameRevision(s) ==
  [rev |-> IF row[s].state = "none" THEN 1 ELSE row[s].rev, upd |-> UpdatedAt(s),
   from |-> IF row[s].state = "none" THEN total[s] ELSE row[s].from,
   to |-> total[s] + 1, state |-> "pending"]

\* upsertSessionGroup: a new row starts at revision 1 with nothing of what
\* came before; an existing one is merged, and is pending again in any state.
Merged(s) ==
  [rev |-> row[s].rev + 1, upd |-> UpdatedAt(s),
   from |-> IF row[s].state = "none" THEN total[s] ELSE row[s].from,
   to |-> total[s] + 1, state |-> "pending"]

\* UpsertSessionEvents: one transaction merges every session of the batch; a
\* second statement deletes the surplus rows, and its error is discarded.  A
\* transaction that fails changes nothing.
UpsertSessionEvents(S) ==
  /\ up
  /\ \A s \in S : total[s] < MaxUpdates
  /\ total' = [s \in Sessions |-> IF s \in S THEN total[s] + 1 ELSE total[s]]
  /\ LET r == [s \in Sessions |-> IF s \in S THEN Merged(s) ELSE row[s]]
     IN  \/ \E D \in Surplus(r) :
              /\ row' = [s \in Sessions |-> IF s \in D THEN NoRow ELSE r[s]]
              /\ evicted' = evicted \cup D
              /\ UNCHANGED faults
         \/ /\ Cardinality(Stored(r)) > MaxSessionRows
            /\ faults < MaxFaults
            /\ faults' = faults + 1
            /\ row' = r
            /\ UNCHANGED evicted
  /\ UNCHANGED <<clock, pruned, up, pc, batch, sent, remote>>
-----------------------------------------------------------------------------
\* WHERE state='pending' OR (state='leased' AND leased_until < now)
Leasable == {s \in Sessions : row[s].state \in {"pending", "lapsed"}}

\* ORDER BY updated_at ASC LIMIT BatchSize
OldestLeasable ==
  {B \in SUBSET Leasable :
     /\ \A a \in B, b \in Leasable \ B : row[a].upd <= row[b].upd
     /\ \/ B = Leasable /\ Cardinality(B) <= BatchSize
        \/ Cardinality(B) = BatchSize}

SetState(S, state) ==
  [s \in Sessions |-> IF s \in S THEN [row[s] EXCEPT !.state = state] ELSE row[s]]

\* LeaseSessionsBatch; the request goes out right after it.
Lease ==
  /\ up /\ pc = "idle"
  /\ Leasable # {}
  /\ \E B \in OldestLeasable :
       /\ row' = SetState(B, "leased")
       /\ batch' = {Item(s) : s \in B}
  /\ sent' = sent \cup batch'
  /\ pc' = "sending"
  /\ UNCHANGED <<clock, total, ghosts, up, remote, faults>>

\* The rows are marked one statement at a time: an error leaves the first of
\* them leased with no one sending them.
LeaseFails ==
  /\ up /\ pc = "idle"
  /\ faults < MaxFaults
  /\ faults' = faults + 1
  /\ \E B \in OldestLeasable : \E P \in SUBSET B :
       /\ P # {} /\ P # B
       /\ \A a \in P, b \in B \ P : row[a].upd <= row[b].upd
       /\ row' = SetState(P, "leased")
  /\ UNCHANGED <<clock, total, ghosts, up, pc, batch, sent, remote>>

\* The backend takes the snapshots newer than those it has.
Applied(I) ==
  [s \in Sessions |->
     IF \E i \in I : i.session = s /\ i.upd > remote[s].upd
       THEN Snapshot(CHOOSE i \in I : i.session = s /\ i.upd > remote[s].upd)
       ELSE remote[s]]

\* A copy of a request, of a retried or timed out attempt too, arrives.
Arrive ==
  /\ \E i \in sent : remote' = Applied({i}) /\ remote' # remote
  /\ UNCHANGED <<clock, row, total, ghosts, up, pc, batch, sent, faults>>

SendOk ==
  /\ up /\ pc = "sending"
  /\ remote' = Applied(batch)
  /\ pc' = "acking"
  /\ UNCHANGED <<clock, row, total, ghosts, up, batch, sent, faults>>

SendFails ==
  /\ up /\ pc = "sending"
  /\ pc' = "nacking"
  /\ UNCHANGED <<clock, row, total, ghosts, up, batch, sent, remote, faults>>

\* Mutant: WHERE session_id=?, whatever the revision.
Current_AnyRevision(I) ==
  {s \in Sessions : row[s].state # "none" /\ \E i \in I : i.session = s}

\* WHERE session_id=? AND revision=?
Current(I) == {s \in Sessions : /\ row[s].state # "none"
                                /\ \E i \in I : i.session = s /\ i.rev = row[s].rev}

BatchDone ==
  /\ pc' = "idle"
  /\ batch' = {}
  /\ UNCHANGED <<clock, total, ghosts, up, sent, remote>>

AckSessions ==
  /\ up /\ pc = "acking"
  /\ row' = SetState(Current(batch), "acked")
  /\ BatchDone
  /\ UNCHANGED faults

NackSessions ==
  /\ up /\ pc = "nacking"
  /\ row' = SetState(Current(batch), "pending")
  /\ BatchDone
  /\ UNCHANGED faults

\* finishSessions stops at the first row it cannot write; those before it are
\* done, and the caller logs or discards the error.
FinishFails ==
  /\ up /\ pc \in {"acking", "nacking"}
  /\ faults < MaxFaults
  /\ faults' = faults + 1
  /\ \E I \in SUBSET batch :
       /\ I # batch
       /\ \A a \in I, b \in batch \ I : a.upd <= b.upd
       /\ row' = SetState(Current(I), IF pc = "acking" THEN "acked" ELSE "pending")
  /\ BatchDone

LeaseExpires ==
  /\ \E s \in Sessions : row[s].state = "leased" /\ row' = SetState({s}, "lapsed")
  /\ UNCHANGED <<clock, total, ghosts, up, pc, batch, sent, remote, faults>>

\* The retention window is days long, and updated_at runs ahead of the clock
\* by seconds: an acked row is pruned only when its updated_at is in the past.
PruneAckedSessions ==
  /\ up
  /\ \E S \in SUBSET {s \in Sessions : row[s].state = "acked" /\ row[s].upd < clock} :
       /\ S # {}
       /\ row' = [s \in Sessions |-> IF s \in S THEN NoRow ELSE row[s]]
       /\ pruned' = pruned \cup S
  /\ UNCHANGED <<clock, total, evicted, up, pc, batch, sent, remote, faults>>

Crash ==
  /\ up
  /\ faults < MaxFaults
  /\ faults' = faults + 1
  /\ up' = FALSE
  /\ pc' = "idle" /\ batch' = {}
  /\ UNCHANGED <<clock, row, total, ghosts, sent, remote>>

Restart ==
  /\ ~up
  /\ up' = TRUE
  /\ UNCHANGED <<clock, row, total, ghosts, pc, batch, sent, remote, faults>>

Next ==
  \/ Tick
  \/ \E S \in (SUBSET Sessions) \ {{}} : UpsertSessionEvents(S)
  \/ Lease
  \/ LeaseFails
  \/ SendOk
  \/ SendFails
  \/ Arrive
  \/ AckSessions
  \/ NackSessions
  \/ FinishFails
  \/ LeaseExpires
  \/ PruneAckedSessions
  \/ Crash
  \/ Restart

Spec == Init /\ [][Next]_vars

\* As for the events: cycles go on, time passes, the backend answers again and
\* again.
Fairness ==
  /\ WF_vars(Lease) /\ WF_vars(AckSessions) /\ WF_vars(NackSessions)
  /\ WF_vars(SendOk \/ SendFails) /\ SF_vars(SendOk)
  /\ WF_vars(LeaseExpires)
  /\ WF_vars(Restart)

LiveSpec == Spec /\ Fairness
-----------------------------------------------------------------------------
(***************************************************************************)
(* Properties.                                                             *)
(***************************************************************************)

\* Every variable has its type, and a row's revision counts the upserts it
\* holds, the last committed one among them (sessions.go upsertSessionGroup).
TypeOK ==
  /\ clock \in 1 .. MaxClock
  /\ row \in [Sessions -> RowSet]
  /\ \A s \in Sessions : IF row[s].state = "none" THEN row[s] = NoRow
                         ELSE /\ row[s].rev = row[s].to - row[s].from
                              /\ row[s].rev > 0 /\ row[s].to = total[s]
  /\ total \in [Sessions -> 0 .. MaxUpdates]
  /\ evicted \subseteq Sessions /\ pruned \subseteq Sessions
  /\ up \in BOOLEAN
  /\ pc \in {"idle", "sending", "acking", "nacking"}
  /\ (pc = "idle" <=> batch = {}) /\ batch \subseteq sent
  /\ faults \in 0 .. MaxFaults

\* An acked row is one the backend holds exactly as it is: an upsert made
\* while an older revision is in flight is never acked with it, and no late
\* copy of an older snapshot replaces it (uploader.go:254-256).
AckedIsStored ==
  \A s \in Sessions \ evicted :
    row[s].state = "acked" => remote[s] = Snapshot(row[s])

\* An acked row's content has been sent, evictions or not.  (It is not so: a row
\* evicted in flight and created again is at revision 1 too.  Only sessions
\* without an eviction have AckedIsStored.)
AckedWasSent ==
  \A s \in Sessions : row[s].state = "acked" => Item(s) \in sent

\* What the backend knows of a session only grows, until its row is deleted:
\* nothing it counted is taken back by a merge, a retry or a late copy.  (A
\* session resumed after retention pruned its row does start from nothing.)
SnapshotsGrow ==
  [][\A s \in Sessions \ (evicted \cup pruned) :
       /\ remote[s].to <= remote'[s].to
       /\ remote'[s].from = remote[s].from]_vars

\* The backend learns of every upsert of a session whose row is not evicted,
\* although upserts, failures and retries interleave.
EventuallyUpToDate ==
  \A s \in Sessions : total[s] > 0 ~> (s \in evicted \/ remote[s].to = total[s])
=============================================================================

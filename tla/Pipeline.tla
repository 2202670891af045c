------------------------------ MODULE Pipeline ------------------------------
(***************************************************************************)
(* The daemon's log pipeline: concurrent receiver requests filter their    *)
(* events, fold them into session summaries and enqueue what is kept,      *)
(* while the tokens of dropped events wait in the filter for the next      *)
(* rollup; shutdown drains both (src/internal/daemon, internal/filter).    *)
(* The property at stake is conservation: where each event's tokens are,   *)
(* and what the session summaries have of them.                            *)
(* Enqueue and UpsertSessionEvents are one step each, as their transaction *)
(* is; what becomes of a stored row is EventQueue's and SessionQueue's     *)
(* concern.                                                                *)
(***************************************************************************)
EXTENDS Naturals

CONSTANTS
  Requests,   \* the goroutines that serve /v1/logs
  Noise,      \* normalized events the filter drops, all of them with tokens
  Kept,       \* normalized events it keeps
  Sessionless, \* those of either kind that name no session
  MaxFaults   \* bound: failed writes, shutdown timeouts and crashes

ASSUME ConstantsAssumption ==
  /\ Noise \cap Kept = {}
  /\ Sessionless \subseteq Noise \cup Kept
  /\ MaxFaults \in Nat

Events == Noise \cup Kept

VARIABLES
  phase,      \* of the process: "up", the steps of drain, "closed" or "down"
  req,        \* what each request is about to do, and what it has in hand
  unseen,     \* events no agent has sent yet
  pending,    \* events folded into the filter's buckets
  due,        \* has rollupInterval passed since lastRollup?
  final,      \* the last rollups, between Flush and Enqueue in drain
  rows,       \* in how many queued rows are an event's tokens?
  summarised, \* events folded into their session's summary
  lost,       \* events whose tokens no row will ever hold
  missed,     \* history: events of a session that no summary will ever hold
  faults

filterVars == <<pending, due>>
stored == <<rows, summarised, missed>>
vars == <<phase, req, unseen, filterVars, final, stored, lost, faults>>
-----------------------------------------------------------------------------
Idle == [at |-> "idle", events |-> {}, kept |-> {}, rollups |-> {}]

Init ==
  /\ phase = "up"
  /\ req = [h \in Requests |-> Idle]
  /\ unseen = Events
  /\ pending = {} /\ due = FALSE
  /\ final = {}
  /\ rows = [e \in Events |-> 0]
  /\ summarised = {} /\ lost = {} /\ missed = {}
  /\ faults = 0

\* The process runs its goroutines until it exits.
Serving(h, at) == phase # "down" /\ req[h].at = at

Fault == faults < MaxFaults /\ faults' = faults + 1

WithRows(E) == [e \in Events |-> IF e \in E THEN rows[e] + 1 ELSE rows[e]]

\* A write fails once in a while, and always once the queue is closed.
WriteFails == IF phase = "closed" THEN faults' = faults ELSE Fault

InHand(h) == req[h].kept \cup req[h].rollups

\* The events a request will still put somewhere: its whole batch before Apply.
Carried(h) == InHand(h) \cup (IF req[h].at = "filter" THEN req[h].events ELSE {})
AllCarried == UNION {Carried(h) : h \in Requests}

\* groupSessionEvents: an event without a session id, or with a blank one, is
\* in no group.
OfSessions(E) == E \ Sessionless

\* What a request has yet to fold into the summaries.
Unsummed(h) ==
  IF req[h].at \in {"filter", "summarise"} THEN OfSessions(req[h].events) ELSE {}

\* A batch arrives; it may hold no event worth a token.  A connection accepted
\* before the receiver was stopped may still bring one while it drains.
Receive(h) ==
  /\ phase \in {"up", "draining"} /\ req[h].at = "idle"
  /\ \E E \in SUBSET unseen :
       /\ unseen' = unseen \ E
       /\ req' = [req EXCEPT ![h] = [Idle EXCEPT !.at = "filter", !.events = E]]
  /\ UNCHANGED <<phase, filterVars, final, stored, lost, faults>>

\* Filter.Apply: under f.mu the dropped events go into the buckets.
Apply(h) ==
  /\ Serving(h, "filter")
  /\ pending' = pending \cup (req[h].events \cap Noise)
  /\ req' = [req EXCEPT ![h].at = "summarise", ![h].kept = req[h].events \cap Kept]
  /\ UNCHANGED <<phase, unseen, due, final, stored, lost, faults>>

\* Mutant: the summaries see what the filter kept.
Upsert_KeptOnly(h) ==
  /\ Serving(h, "summarise")
  /\ req' = [req EXCEPT ![h].at = "due"]
  /\ phase # "closed"
  /\ summarised' = summarised \cup OfSessions(req[h].kept)
  /\ UNCHANGED <<phase, unseen, filterVars, final, rows, lost, missed, faults>>

\* UpsertSessionEvents: all of the batch that belongs to a session or, logged
\* and ignored, none of it.  Without any such event there is nothing to write,
\* not even to a closed queue.
Upsert(h) ==
  /\ Serving(h, "summarise")
  /\ req' = [req EXCEPT ![h].at = "due"]
  /\ \/ /\ phase # "closed" \/ Unsummed(h) = {}
        /\ summarised' = summarised \cup Unsummed(h)
        /\ UNCHANGED <<missed, faults>>
     \/ /\ Unsummed(h) # {} /\ WriteFails
        /\ missed' = missed \cup Unsummed(h)
        /\ summarised' = summarised
  /\ UNCHANGED <<phase, unseen, filterVars, final, rows, lost>>

\* Mutant: only a request with rows of its own looks at the clock.
DueCheck_NeedsKept(h) ==
  /\ Serving(h, "due")
  /\ due' = (due /\ req[h].kept = {})
  /\ req' = [req EXCEPT ![h].at = IF due /\ req[h].kept # {} THEN "flush" ELSE "enqueue"]
  /\ UNCHANGED <<phase, unseen, pending, final, stored, lost, faults>>

\* dueRollups, under rollupMu: one request per interval goes on to Flush.
DueCheck(h) ==
  /\ Serving(h, "due")
  /\ due' = FALSE
  /\ req' = [req EXCEPT ![h].at = IF due THEN "flush" ELSE "enqueue"]
  /\ UNCHANGED <<phase, unseen, pending, final, stored, lost, faults>>

\* Mutant: the buckets are read and not replaced.
TakeRollups_Keeps(h) ==
  /\ Serving(h, "flush")
  /\ req' = [req EXCEPT ![h].at = "enqueue", ![h].rollups = pending]
  /\ UNCHANGED <<phase, unseen, pending, due, final, stored, lost, faults>>

\* Filter.Flush, under f.mu.
TakeRollups(h) ==
  /\ Serving(h, "flush")
  /\ req' = [req EXCEPT ![h].at = "enqueue", ![h].rollups = pending]
  /\ pending' = {}
  /\ UNCHANGED <<phase, unseen, due, final, stored, lost, faults>>

\* Enqueue of the kept events and the rollups, in one transaction.  (An error
\* after its commit, from the eviction, differs in the counters only.)
Enqueue(h) ==
  /\ Serving(h, "enqueue") /\ phase # "closed"
  /\ rows' = WithRows(InHand(h))
  /\ req' = [req EXCEPT ![h] = Idle]
  /\ UNCHANGED <<phase, unseen, filterVars, final, summarised, missed, lost, faults>>

\* It fails: logged, answered with 200 and not tried again.
EnqueueFails(h) ==
  /\ Serving(h, "enqueue")
  /\ WriteFails
  /\ lost' = lost \cup InHand(h)
  /\ req' = [req EXCEPT ![h] = Idle]
  /\ UNCHANGED <<phase, unseen, filterVars, final, stored>>

Serve(h) ==
  \/ Apply(h) \/ Upsert(h) \/ DueCheck(h) \/ TakeRollups(h)
  \/ Enqueue(h) \/ EnqueueFails(h)

\* rollupInterval passes.
IntervalEnds ==
  /\ ~due /\ due' = TRUE
  /\ UNCHANGED <<phase, req, unseen, pending, final, stored, lost, faults>>
-----------------------------------------------------------------------------
DrainStep(from, to) == phase = from /\ phase' = to

\* SIGTERM: the receiver takes no more connections.
Signal ==
  /\ DrainStep("up", "draining")
  /\ UNCHANGED <<req, unseen, filterVars, final, stored, lost, faults>>

\* Mutant: drain does not wait for the requests in flight.
ReceiverStopped_Early ==
  /\ DrainStep("draining", "stopped")
  /\ faults' = faults
  /\ UNCHANGED <<req, unseen, filterVars, final, stored, lost>>

\* receiver.Shutdown returns when no request is left, or after drainTimeout.
ReceiverStopped ==
  /\ DrainStep("draining", "stopped")
  /\ \/ (\A h \in Requests : req[h].at = "idle") /\ faults' = faults
     \/ (\E h \in Requests : req[h].at # "idle") /\ Fault
  /\ UNCHANGED <<req, unseen, filterVars, final, stored, lost>>

\* The uploader loop has ended; the last rollups are taken ...
FinalFlush ==
  /\ DrainStep("stopped", "final")
  /\ final' = pending /\ pending' = {}
  /\ UNCHANGED <<req, unseen, due, stored, lost, faults>>

\* ... and enqueued, or lost with a line in the log.
FinalEnqueue ==
  /\ DrainStep("final", "uploading")
  /\ final' = {}
  /\ \/ rows' = WithRows(final) /\ lost' = lost /\ faults' = faults
     \/ rows' = rows /\ lost' = lost \cup final /\ Fault
  /\ UNCHANGED <<req, unseen, filterVars, summarised, missed>>

\* The last upload, which changes no row's contents; then the queue closes.
Close ==
  /\ DrainStep("uploading", "closed")
  /\ UNCHANGED <<req, unseen, filterVars, final, stored, lost, faults>>

\* With the process go the buckets and all that a request or drain has in hand.
Gone ==
  /\ phase' = "down"
  /\ lost' = lost \cup pending \cup final \cup AllCarried
  /\ missed' = missed \cup UNION {Unsummed(h) : h \in Requests}
  /\ req' = [h \in Requests |-> Idle]
  /\ pending' = {} /\ final' = {}
  /\ UNCHANGED <<unseen, due, rows, summarised>>

Exit == phase = "closed" /\ Gone /\ faults' = faults

Crash == phase # "down" /\ Gone /\ Fault

\* The service manager starts it again: lastRollup is now.
Start ==
  /\ phase = "down" /\ phase' = "up"
  /\ due' = FALSE
  /\ UNCHANGED <<req, unseen, pending, final, stored, lost, faults>>

Drain == ReceiverStopped \/ FinalFlush \/ FinalEnqueue \/ Close \/ Exit \/ Start

Next ==
  \/ \E h \in Requests : Receive(h) \/ Serve(h)
  \/ IntervalEnds \/ Signal \/ Crash \/ Drain

Spec == Init /\ [][Next]_vars

\* A request that was received is served, time passes, and drain goes on.
Fairness ==
  /\ \A h \in Requests : WF_vars(Serve(h))
  /\ WF_vars(IntervalEnds)
  /\ WF_vars(Drain)

LiveSpec == Spec /\ Fairness
-----------------------------------------------------------------------------
(***************************************************************************)
(* Properties.                                                             *)
(***************************************************************************)

\* Every variable has its type.
TypeOK ==
  /\ phase \in {"up", "draining", "stopped", "final", "uploading", "closed", "down"}
  /\ req \in [Requests -> [at : {"idle", "filter", "summarise", "due", "flush", "enqueue"},
                           events : SUBSET Events, kept : SUBSET Kept,
                           rollups : SUBSET Noise]]
  /\ unseen \subseteq Events
  /\ pending \subseteq Noise /\ due \in BOOLEAN /\ final \subseteq Noise
  /\ rows \in [Events -> Nat]
  /\ summarised \subseteq Events /\ lost \subseteq Events /\ missed \subseteq Events
  /\ faults \in 0 .. MaxFaults

\* Where an event's tokens may be.
Places == <<unseen, AllCarried, pending, final, {e \in Events : rows[e] = 1}, lost>>

\* An event's tokens are always in exactly one place: not sent yet, with one
\* request, in the filter, in the last rollups, in one queued row, or lost; and
\* none is lost without a failed write, a shutdown that timed out or a crash
\* (daemon.go:142-168, run.go:28-50).
Conserved ==
  /\ UNION {Places[i] : i \in 1 .. 6} = Events
  /\ \A i, j \in 1 .. 6 : i # j => Places[i] \cap Places[j] = {}
  /\ \A g, h \in Requests : g # h => Carried(g) \cap Carried(h) = {}
  /\ \A e \in Events : rows[e] <= 1
  /\ lost # {} => faults > 0

\* daemon.go:149-153: the session token totals stay reconcilable with the rows.
\* An event that names no session is in rows alone (sessions.go:83), and so is
\* one whose upsert failed or whose request died before it; any other is in a
\* summary just when it was sent: its tokens are in a row, on their way to one,
\* or lost to a later failure.  A batch between Apply and the upsert is excepted;
\* and no event of a session misses its summary without a fault.
Reconciles ==
  /\ \A e \in Events :
       (\A h \in Requests : e \notin Unsummed(h)) =>
         IF e \in Sessionless \cup missed
         THEN e \notin summarised
         ELSE e \in summarised
                <=> rows[e] = 1 \/ e \in pending \cup final \cup AllCarried \cup lost
  /\ missed # {} => faults > 0

\* While traffic flows, the tokens of dropped events leave the filter, whichever
\* request happens to see that the interval is over (daemon.go:27-29).
RollupsAreTaken ==
  []<><<\E h \in Requests : Receive(h)>>_vars =>
    \A e \in Noise : e \in pending ~> e \notin pending
=============================================================================

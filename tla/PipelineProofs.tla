--------------------------- MODULE PipelineProofs ---------------------------
(***************************************************************************)
(* What the daemon does with the telemetry it is sent. Pipeline conserves  *)
(* tokens, for every number of requests and events and every number of     *)
(* faults. And the resolver, which names the repository that a session     *)
(* works in, answers with a directory that was the session's at some time  *)
(* of the call, however often the session file is written, moved or        *)
(* replaced: by what the file's last reading leaves to be read of it.      *)
(***************************************************************************)
EXTENDS Pipeline, Resolver, WellFoundedInduction, TLAPS

\* What a request has in hand fits the step it is about to take.
HandsFit == \A h \in Requests :
  /\ req[h].at = "idle" => req[h].events = {}
  /\ req[h].at \in {"idle", "filter"} => req[h].kept = {}
  /\ req[h].at # "enqueue" => req[h].rollups = {}

\* Each event is in one place: the places in an order, each of which excludes
\* those that come later, and together they hold every event.
OnePlace == \A e \in Events :
  /\ rows[e] \in {0, 1}
  /\ e \in unseen =>
       (\A h \in Requests : e \notin Carried(h)) /\ e \notin pending
         /\ e \notin final /\ rows[e] = 0 /\ e \notin lost
  /\ \A h \in Requests : e \in Carried(h) =>
       (\A g \in Requests : g # h => e \notin Carried(g)) /\ e \notin pending
         /\ e \notin final /\ rows[e] = 0 /\ e \notin lost
  /\ e \in pending => e \notin final /\ rows[e] = 0 /\ e \notin lost
  /\ e \in final => rows[e] = 0 /\ e \notin lost
  /\ rows[e] = 1 => e \notin lost
  /\ e \in unseen \/ (\E h \in Requests : e \in Carried(h)) \/ e \in pending
       \/ e \in final \/ rows[e] = 1 \/ e \in lost

\* Without a fault, nothing is left behind as drain goes on: no request once the
\* receiver has stopped, nothing in the filter once it was flushed.
DrainedInOrder ==
  /\ phase = "down" =>
       pending = {} /\ final = {} /\ \A h \in Requests : req[h].at = "idle"
  /\ phase \notin {"final"} => final = {}
  /\ faults = 0 =>
       /\ phase \in {"stopped", "final", "uploading", "closed"} =>
            \A h \in Requests : req[h].at = "idle"
       /\ phase \in {"final", "uploading", "closed"} => pending = {}
       /\ lost = {}

PipelineInv == TypeOK /\ HandsFit /\ OnePlace /\ DrainedInOrder

\* The summaries hold what was sent of the sessions, but for the batches whose
\* request has not reached them and for what they missed; a batch is one
\* request's, and is folded in once.
SummariesFollow ==
  /\ \A h \in Requests : \A e \in req[h].events :
       /\ e \notin unseen
       /\ e \in Unsummed(h) => e \notin summarised \cup missed
       /\ \A g \in Requests : g # h => e \notin req[g].events
  /\ unseen \cap (summarised \cup missed) = {}
  /\ Sessionless \cap (summarised \cup missed) = {}
  /\ summarised \cap missed = {}
  /\ \A e \in Events \ Sessionless :
       e \in unseen \cup summarised \cup missed \/ \E h \in Requests : e \in Unsummed(h)
  /\ missed # {} => faults > 0

\* The daemon starts with an empty filter and idle requests (daemon.go:88-120).
LEMMA PipelineInit == Init => PipelineInv
<1> SUFFICES ASSUME Init PROVE PipelineInv
  OBVIOUS
<1> USE DEF Init, Idle
<1>1. TypeOK
  <2>1. req \in [Requests -> [at : {"idle", "filter", "summarise", "due", "flush", "enqueue"},
                            events : SUBSET Events, kept : SUBSET Kept,
                            rollups : SUBSET Noise]]
    OBVIOUS
  <2>2. rows \in [Events -> Nat] /\ faults \in 0 .. MaxFaults
    BY ConstantsAssumption
  <2>3. QED
    BY <2>1, <2>2 DEF TypeOK
<1>2. HandsFit
  BY DEF HandsFit
<1>3. \A h \in Requests : Carried(h) = {}
  BY DEF Carried, InHand
<1>4. OnePlace
  BY <1>3 DEF OnePlace
<1>5. DrainedInOrder
  BY DEF DrainedInOrder
<1>6. QED
  BY <1>1, <1>2, <1>4, <1>5 DEF PipelineInv

\* A batch that arrives moves its events from the agents to the request.
LEMMA ReceiveKeeps ==
  ASSUME PipelineInv, NEW h \in Requests, Receive(h)
  PROVE  PipelineInv'
<1> USE DEF PipelineInv
<1>1. PICK E \in SUBSET unseen :
        /\ unseen' = unseen \ E
        /\ req' = [req EXCEPT ![h] = [Idle EXCEPT !.at = "filter", !.events = E]]
  BY DEF Receive
<1>2. /\ req'[h] = [at |-> "filter", events |-> E, kept |-> {}, rollups |-> {}]
      /\ \A g \in Requests : g # h => req'[g] = req[g]
  BY <1>1 DEF TypeOK, Idle
<1>3. Carried(h) = {} /\ Carried(h)' = E
        /\ \A g \in Requests : g # h => Carried(g)' = Carried(g)
  <2>1. Carried(h) = {}
    BY DEF Carried, InHand, HandsFit, Receive, TypeOK
  <2>2. Carried(h)' = E
    BY <1>2 DEF Carried, InHand
  <2>3. QED
    BY <1>2, <2>1, <2>2 DEF Carried, InHand
<1>4. TypeOK'
  BY <1>1, <1>2 DEF TypeOK, Receive, Idle, filterVars, stored
<1>5. HandsFit'
  BY <1>2 DEF HandsFit
<1>6. OnePlace'
  BY <1>1, <1>3 DEF OnePlace, TypeOK, Receive, filterVars, stored
<1>7. DrainedInOrder'
  BY <1>1 DEF DrainedInOrder, Receive, filterVars, stored
<1>8. QED
  BY <1>4, <1>5, <1>6, <1>7

\* Filter.Apply moves dropped events from the request to the filter.
LEMMA ApplyKeeps ==
  ASSUME PipelineInv, NEW h \in Requests, Apply(h)
  PROVE  PipelineInv'
<1> USE DEF PipelineInv
<1>1. /\ req'[h] = [at |-> "summarise", events |-> req[h].events,
                    kept |-> req[h].events \cap Kept, rollups |-> req[h].rollups]
      /\ \A g \in Requests : g # h => req'[g] = req[g]
      /\ req[h].at = "filter" /\ req[h].kept = {} /\ req[h].rollups = {}
      /\ req[h].events \subseteq Events
  BY DEF TypeOK, HandsFit, Apply, Serving
<1>2. /\ Carried(h) = req[h].events
      /\ Carried(h)' = req[h].events \cap Kept
      /\ \A g \in Requests : g # h => Carried(g)' = Carried(g)
  BY <1>1 DEF Carried, InHand
<1>3. TypeOK'
  BY <1>1 DEF TypeOK, Apply, stored
<1>4. HandsFit'
  BY <1>1 DEF HandsFit
<1>5. OnePlace'
  BY <1>1, <1>2, ConstantsAssumption DEF OnePlace, TypeOK, Apply, stored, Events
<1>6. DrainedInOrder'
  BY <1>1 DEF DrainedInOrder, Apply, Serving, stored, TypeOK
<1>7. QED
  BY <1>3, <1>4, <1>5, <1>6

\* The session upsert and the rollup clock move no tokens.
LEMMA UpsertAndDueKeep ==
  ASSUME PipelineInv, NEW h \in Requests, Upsert(h) \/ DueCheck(h)
  PROVE  PipelineInv'
<1> USE DEF PipelineInv
<1>1. /\ \E a \in {"due", "flush", "enqueue"} : req' = [req EXCEPT ![h].at = a]
      /\ req[h].at \in {"summarise", "due"}
  BY DEF Upsert, DueCheck, Serving
<1>2. PICK a \in {"due", "flush", "enqueue"} : req' = [req EXCEPT ![h].at = a]
  BY <1>1
<1>3. /\ req'[h] = [at |-> a, events |-> req[h].events,
                    kept |-> req[h].kept, rollups |-> req[h].rollups]
      /\ \A g \in Requests : g # h => req'[g] = req[g]
  BY <1>2 DEF TypeOK
<1>4. \A g \in Requests : Carried(g)' = Carried(g)
  BY <1>1, <1>3 DEF Carried, InHand
<1>5. /\ faults' \in {faults, faults + 1} /\ faults' \in 0 .. MaxFaults
      /\ summarised' \subseteq Events /\ missed' \subseteq Events /\ due' \in BOOLEAN
      /\ UNCHANGED <<phase, unseen, pending, final, rows, lost>>
  <2>1. CASE Upsert(h)
    <3>1. faults' \in {faults, faults + 1} /\ faults' \in 0 .. MaxFaults
      BY <2>1, ConstantsAssumption DEF Upsert, WriteFails, Fault, TypeOK
    <3>2. Unsummed(h) \subseteq Events
      BY DEF Unsummed, OfSessions, TypeOK
    <3>3. QED
      BY <2>1, <3>1, <3>2 DEF Upsert, TypeOK, filterVars
  <2>2. CASE DueCheck(h)
    BY <2>2 DEF DueCheck, TypeOK, stored
  <2>3. QED
    BY <2>1, <2>2
<1>6. TypeOK'
  BY <1>2, <1>5 DEF TypeOK
<1>7. HandsFit'
  BY <1>1, <1>3 DEF HandsFit
<1>8. OnePlace'
  BY <1>4, <1>5 DEF OnePlace
<1>9. DrainedInOrder'
  <2>1. faults' = 0 => faults = 0
    BY <1>5 DEF TypeOK
  <2>2. phase # "down" /\ req[h].at # "idle"
    BY <1>1 DEF Upsert, DueCheck, Serving
  <2>3. QED
    BY <1>5, <2>1, <2>2 DEF DrainedInOrder
<1>10. QED
  BY <1>6, <1>7, <1>8, <1>9

\* Filter.Flush moves the buckets to the request that saw the interval end.
LEMMA TakeRollupsKeeps ==
  ASSUME PipelineInv, NEW h \in Requests, TakeRollups(h)
  PROVE  PipelineInv'
<1> USE DEF PipelineInv
<1>1. /\ req'[h] = [at |-> "enqueue", events |-> req[h].events,
                    kept |-> req[h].kept, rollups |-> pending]
      /\ \A g \in Requests : g # h => req'[g] = req[g]
      /\ req[h].at = "flush" /\ req[h].rollups = {}
  BY DEF TypeOK, HandsFit, TakeRollups, Serving
<1>2. /\ Carried(h) = req[h].kept
      /\ Carried(h)' = req[h].kept \cup pending
      /\ \A g \in Requests : g # h => Carried(g)' = Carried(g)
  BY <1>1 DEF Carried, InHand
<1>3. TypeOK'
  BY <1>1 DEF TypeOK, TakeRollups, stored
<1>4. HandsFit'
  BY <1>1 DEF HandsFit
<1>5. OnePlace'
  <2>1. UNCHANGED <<unseen, final, rows, lost>> /\ pending' = {}
    BY DEF TakeRollups, stored
  <2> SUFFICES ASSUME NEW e \in Events PROVE OnePlace!(e)'
    BY DEF OnePlace
  <2>2. e \in Carried(h)' <=> e \in Carried(h) \/ e \in pending
    BY <1>2
  <2>3. QED
    BY <1>2, <2>1, <2>2 DEF OnePlace
<1>6. DrainedInOrder'
  BY <1>1 DEF DrainedInOrder, TakeRollups, Serving, stored, TypeOK
<1>7. QED
  BY <1>3, <1>4, <1>5, <1>6

\* Enqueue moves what the request has in hand to rows, and a failed Enqueue to
\* what is lost.
LEMMA EnqueueKeeps ==
  ASSUME PipelineInv, NEW h \in Requests, Enqueue(h) \/ EnqueueFails(h)
  PROVE  PipelineInv'
<1> USE DEF PipelineInv
<1>1. /\ req'[h] = Idle
      /\ \A g \in Requests : g # h => req'[g] = req[g]
      /\ req[h].at = "enqueue" /\ phase # "down"
      /\ UNCHANGED <<phase, unseen, pending, due, final, summarised, missed>>
      /\ InHand(h) \subseteq Events
  BY DEF TypeOK, Enqueue, EnqueueFails, Serving, filterVars, stored, InHand, Events
<1>2. /\ Carried(h) = InHand(h)
      /\ Carried(h)' = {}
      /\ \A g \in Requests : g # h => Carried(g)' = Carried(g)
  BY <1>1 DEF Carried, InHand, Idle
<1>3. HandsFit'
  BY <1>1 DEF HandsFit, Idle
<1>4. req' \in [Requests -> [at : {"idle", "filter", "summarise", "due", "flush", "enqueue"},
                            events : SUBSET Events, kept : SUBSET Kept,
                            rollups : SUBSET Noise]]
  BY DEF TypeOK, Enqueue, EnqueueFails, Idle
<1>5. CASE Enqueue(h)
  <2>1. /\ rows' = WithRows(InHand(h))
        /\ UNCHANGED <<lost, faults>>
    BY <1>5 DEF Enqueue
  <2>2. /\ rows' \in [Events -> Nat]
        /\ \A e \in Events : rows'[e] = IF e \in InHand(h) THEN rows[e] + 1 ELSE rows[e]
    BY <2>1 DEF TypeOK, WithRows
  <2>3. TypeOK'
    BY <1>1, <1>4, <2>1, <2>2 DEF TypeOK
  <2>4. OnePlace'
    <3> SUFFICES ASSUME NEW e \in Events PROVE OnePlace!(e)'
      BY DEF OnePlace
    <3>1. CASE e \in InHand(h)
      BY <1>1, <1>2, <2>1, <2>2, <3>1 DEF OnePlace
    <3>2. CASE e \notin InHand(h)
      BY <1>1, <1>2, <2>1, <2>2, <3>2 DEF OnePlace
    <3>3. QED
      BY <3>1, <3>2
  <2>5. DrainedInOrder'
    BY <1>1, <2>1 DEF DrainedInOrder, Idle
  <2>6. QED
    BY <1>3, <2>3, <2>4, <2>5
<1>6. CASE EnqueueFails(h)
  <2>1. /\ lost' = lost \cup InHand(h) /\ rows' = rows
        /\ faults' \in 0 .. MaxFaults /\ faults' >= faults
        /\ phase # "closed" => faults' > 0
    BY <1>6, ConstantsAssumption DEF EnqueueFails, WriteFails, Fault, TypeOK, stored
  <2>2. TypeOK'
    BY <1>1, <1>4, <2>1 DEF TypeOK
  <2>3. OnePlace'
    <3> SUFFICES ASSUME NEW e \in Events PROVE OnePlace!(e)'
      BY DEF OnePlace
    <3>1. CASE e \in InHand(h)
      BY <1>1, <1>2, <2>1, <3>1 DEF OnePlace
    <3>2. CASE e \notin InHand(h)
      BY <1>1, <1>2, <2>1, <3>2 DEF OnePlace
    <3>3. QED
      BY <3>1, <3>2
  <2>4. faults' > 0
    BY <1>1, <2>1 DEF DrainedInOrder, TypeOK
  <2>5. DrainedInOrder'
    BY <1>1, <2>1, <2>4 DEF DrainedInOrder, Idle
  <2>6. QED
    BY <1>3, <2>2, <2>3, <2>5
<1>7. QED
  BY <1>5, <1>6

\* Drain moves the buckets to the last rollups and those to rows, in an order in
\* which nothing arrives behind it (run.go:28-50).
LEMMA DrainKeeps ==
  ASSUME PipelineInv, Signal \/ ReceiverStopped \/ FinalFlush \/ FinalEnqueue \/ Close \/ Start
  PROVE  PipelineInv'
<1> USE DEF PipelineInv
<1>1. /\ UNCHANGED <<req, unseen, summarised, missed>>
      /\ \A g \in Requests : Carried(g)' = Carried(g)
  BY DEF Signal, ReceiverStopped, FinalFlush, FinalEnqueue, Close, Start, filterVars,
         stored, Carried, InHand
<1>2. HandsFit'
  BY <1>1 DEF HandsFit
<1>3. CASE Signal \/ Close \/ Start
  <2>1. /\ UNCHANGED <<pending, final, rows, lost, faults>> /\ due' \in BOOLEAN
        /\ <<phase, phase'>> \in {<<"up", "draining">>, <<"uploading", "closed">>, <<"down", "up">>}
    BY <1>3 DEF Signal, Close, Start, DrainStep, TypeOK, filterVars, stored
  <2>2. TypeOK' /\ OnePlace'
    BY <1>1, <2>1 DEF TypeOK, OnePlace
  <2>3. DrainedInOrder'
    BY <1>1, <2>1 DEF DrainedInOrder
  <2>4. QED
    BY <1>2, <2>2, <2>3
<1>4. CASE ReceiverStopped
  <2>1. /\ faults' \in 0 .. MaxFaults
        /\ faults' = 0 => faults = 0 /\ \A h \in Requests : req[h].at = "idle"
    BY <1>4, ConstantsAssumption DEF ReceiverStopped, Fault, TypeOK
  <2>2. QED
    BY <1>1, <1>2, <1>4, <2>1
    DEF ReceiverStopped, DrainStep, TypeOK, OnePlace, DrainedInOrder, filterVars, stored
<1>5. CASE FinalFlush
  BY <1>1, <1>2, <1>5
  DEF FinalFlush, DrainStep, TypeOK, OnePlace, DrainedInOrder, stored
<1>6. CASE FinalEnqueue
  <2>1. /\ phase = "final" /\ phase' = "uploading" /\ final' = {}
        /\ UNCHANGED <<pending, due>> /\ final \subseteq Events
    BY <1>6 DEF FinalEnqueue, DrainStep, filterVars, TypeOK, Events
  <2>2. CASE rows' = WithRows(final) /\ lost' = lost /\ faults' = faults
    <3>1. /\ rows' \in [Events -> Nat]
          /\ \A e \in Events : rows'[e] = IF e \in final THEN rows[e] + 1 ELSE rows[e]
      BY <2>2 DEF TypeOK, WithRows
    <3>2. QED
      BY <1>1, <1>2, <2>1, <2>2, <3>1 DEF TypeOK, OnePlace, DrainedInOrder
  <2>3. CASE rows' = rows /\ lost' = lost \cup final /\ Fault
    <3>1. faults' \in 0 .. MaxFaults /\ faults' > 0
      BY <2>3, ConstantsAssumption DEF Fault, TypeOK
    <3>2. QED
      BY <1>1, <1>2, <2>1, <2>3, <3>1 DEF TypeOK, OnePlace, DrainedInOrder
  <2>4. QED
    BY <1>6, <2>2, <2>3 DEF FinalEnqueue
<1>7. QED
  BY <1>3, <1>4, <1>5, <1>6

\* What the process had in memory goes with it, and is accounted for as lost.
LEMMA GoneKeeps ==
  ASSUME PipelineInv, Exit \/ Crash
  PROVE  PipelineInv'
<1> USE DEF PipelineInv
<1>1. /\ Gone /\ faults' \in 0 .. MaxFaults
      /\ faults' = 0 => faults = 0 /\ phase = "closed"
  BY ConstantsAssumption DEF Exit, Crash, Fault, TypeOK
<1>2. \A h \in Requests : req'[h] = Idle /\ Carried(h)' = {}
  BY <1>1 DEF Gone, Carried, InHand, Idle
<1>3. /\ AllCarried \subseteq Events
      /\ \A e \in Events : e \in AllCarried <=> \E h \in Requests : e \in Carried(h)
  BY DEF AllCarried, Carried, InHand, TypeOK, Events
<1>4. TypeOK'
  <2>1. req' \in [Requests -> [at : {"idle", "filter", "summarise", "due", "flush", "enqueue"},
                              events : SUBSET Events, kept : SUBSET Kept,
                              rollups : SUBSET Noise]]
    BY <1>1 DEF Gone, Idle
  <2>2. UNION {Unsummed(h) : h \in Requests} \subseteq Events
    BY DEF Unsummed, OfSessions, TypeOK
  <2>3. QED
    BY <1>1, <1>3, <2>1, <2>2 DEF Gone, TypeOK, Events
<1>5. HandsFit'
  BY <1>2 DEF HandsFit, Idle
<1>6. OnePlace'
  <2> SUFFICES ASSUME NEW e \in Events PROVE OnePlace!(e)'
    BY DEF OnePlace
  <2>1. /\ unseen' = unseen /\ rows' = rows /\ pending' = {} /\ final' = {}
        /\ lost' = lost \cup pending \cup final \cup AllCarried
    BY <1>1 DEF Gone
  <2>2. QED
    BY <1>2, <1>3, <2>1 DEF OnePlace
<1>7. DrainedInOrder'
  <2>1. faults' = 0 => AllCarried = {}
    <3> SUFFICES ASSUME faults' = 0 PROVE AllCarried = {}
      OBVIOUS
    <3>1. \A h \in Requests : req[h].at = "idle"
      BY <1>1 DEF DrainedInOrder
    <3>2. \A h \in Requests : Carried(h) = {}
      BY <3>1 DEF HandsFit, Carried, InHand
    <3>3. QED
      BY <3>2 DEF AllCarried
  <2>2. QED
    BY <1>1, <1>2, <2>1 DEF DrainedInOrder, Gone, Idle
<1>8. QED
  BY <1>4, <1>5, <1>6, <1>7

\* Every step of the pipeline keeps the invariant.
LEMMA PipelineStep == PipelineInv /\ [Next]_vars => PipelineInv'
<1> SUFFICES ASSUME PipelineInv, [Next]_vars PROVE PipelineInv'
  OBVIOUS
<1>1. ASSUME NEW h \in Requests, Receive(h) \/ Serve(h) PROVE PipelineInv'
  BY <1>1, ReceiveKeeps, ApplyKeeps, UpsertAndDueKeep, TakeRollupsKeeps, EnqueueKeeps
  DEF Serve
<1>2. CASE IntervalEnds \/ UNCHANGED vars
  <2>1. /\ UNCHANGED <<phase, req, unseen, pending, final, stored, lost, faults>>
        /\ due' \in BOOLEAN
    BY <1>2 DEF IntervalEnds, vars, filterVars, stored, PipelineInv, TypeOK
  <2>2. QED
    BY <2>1
    DEF PipelineInv, TypeOK, HandsFit, OnePlace, DrainedInOrder, Carried, InHand, stored
<1>3. CASE Signal \/ Crash \/ Drain
  BY <1>3, DrainKeeps, GoneKeeps DEF Drain
<1>4. QED
  BY <1>1, <1>2, <1>3 DEF Next

\* The daemon's state keeps its types, whatever fails.
THEOREM PipelineTypeCorrect == Spec => []TypeOK
<1>1. PipelineInv => TypeOK
  BY DEF PipelineInv
<1>2. QED
  BY <1>1, PipelineInit, PipelineStep, PTL DEF Spec

\* No token is counted twice or goes missing unnoticed, through concurrent
\* requests, rollups, failed writes, shutdowns and crashes.
THEOREM TokensAreConserved == Spec => []Conserved
<1>1. PipelineInv => Conserved
  <2> SUFFICES ASSUME PipelineInv PROVE Conserved
    OBVIOUS
  <2> USE DEF PipelineInv
  <2>1. /\ AllCarried \subseteq Events
        /\ \A e \in Events : e \in AllCarried <=> \E h \in Requests : e \in Carried(h)
    BY DEF AllCarried, Carried, InHand, TypeOK, Events
  <2>2. UNION {Places[i] : i \in 1 .. 6} = Events
    <3>1. ASSUME NEW i \in 1 .. 6 PROVE Places[i] \subseteq Events
      BY <2>1 DEF Places, TypeOK, Events
    <3>2. ASSUME NEW e \in Events PROVE \E i \in 1 .. 6 : e \in Places[i]
      <4>1. /\ Places[1] = unseen /\ Places[2] = AllCarried /\ Places[3] = pending
            /\ Places[4] = final /\ Places[5] = {x \in Events : rows[x] = 1}
            /\ Places[6] = lost
        BY DEF Places
      <4>2. \/ e \in unseen \/ e \in AllCarried \/ e \in pending
            \/ e \in final \/ rows[e] = 1 \/ e \in lost
        BY <2>1 DEF OnePlace
      <4>3. 1 \in 1 .. 6 /\ 2 \in 1 .. 6 /\ 3 \in 1 .. 6 /\ 4 \in 1 .. 6 /\ 5 \in 1 .. 6
              /\ 6 \in 1 .. 6
        OBVIOUS
      <4>4. QED
        BY <4>1, <4>2, <4>3
    <3>3. QED
      BY <3>1, <3>2
  <2>3. \A i, j \in 1 .. 6 : i # j => Places[i] \cap Places[j] = {}
    <3>1. ASSUME NEW i \in 1 .. 6, NEW j \in 1 .. 6, i < j, NEW e \in Places[i]
          PROVE  e \notin Places[j]
      BY <2>1, <3>1 DEF Places, OnePlace, TypeOK, Events
    <3>2. QED
      BY <3>1
  <2>4. \A g, h \in Requests : g # h => Carried(g) \cap Carried(h) = {}
    BY DEF OnePlace, Carried, InHand, TypeOK, Events
  <2>5. QED
    BY <2>2, <2>3, <2>4 DEF Conserved, OnePlace, DrainedInOrder, TypeOK
<1>2. QED
  BY <1>1, PipelineInit, PipelineStep, PTL DEF Spec

\* The summaries start empty, as no event has been sent (daemon.go:88-120).
LEMMA SummariesInit == Init => SummariesFollow
  BY DEF Init, Idle, SummariesFollow, Unsummed

\* A step that sends no event, folds none and leaves each batch where it is or
\* drops it once it was folded keeps the summaries in step: the rollups, the
\* writes to the event queue and the steps of drain (daemon.go:142-168).
LEMMA QuietKeepsSummaries ==
  ASSUME SummariesFollow, TypeOK, faults' \in Nat, faults' >= faults,
         UNCHANGED <<unseen, summarised, missed>>,
         \A h \in Requests : \/ /\ req'[h].events = req[h].events
                                /\ Unsummed(h)' = Unsummed(h)
                             \/ req'[h] = Idle /\ Unsummed(h) = {}
  PROVE  SummariesFollow'
<1>1. ASSUME NEW h \in Requests
      PROVE  req'[h].events \subseteq req[h].events /\ Unsummed(h)' = Unsummed(h)
  <2>1. CASE req'[h].events = req[h].events /\ Unsummed(h)' = Unsummed(h)
    BY <2>1
  <2>2. CASE req'[h] = Idle /\ Unsummed(h) = {}
    BY <2>2 DEF Unsummed, Idle
  <2>3. QED
    BY <2>1, <2>2
<1>2. missed' # {} => faults' > 0
  BY ConstantsAssumption DEF SummariesFollow, TypeOK
<1>3. QED
  BY <1>1, <1>2 DEF SummariesFollow

\* UpsertSessionEvents: what it takes is in the summaries, or it failed and that
\* was a fault or came after one, since without one no request is left by the
\* time the queue is closed.
LEMMA UpsertKeepsSummaries ==
  ASSUME PipelineInv, SummariesFollow, NEW h \in Requests, Upsert(h)
  PROVE  SummariesFollow'
<1> USE DEF PipelineInv
<1>1. /\ req[h].at = "summarise" /\ req'[h].at = "due" /\ req'[h].events = req[h].events
      /\ \A g \in Requests : g # h => req'[g] = req[g]
  BY DEF Upsert, Serving, TypeOK
<1>2. /\ Unsummed(h)' = {} /\ Unsummed(h) = req[h].events \ Sessionless
      /\ \A g \in Requests : g # h => Unsummed(g)' = Unsummed(g)
  BY <1>1 DEF Unsummed, OfSessions
<1>3. unseen' = unseen /\ \A g \in Requests : req'[g].events = req[g].events
  BY <1>1 DEF Upsert
<1>4. /\ \A g \in Requests : g # h => Unsummed(g) \subseteq req[g].events
      /\ \A g \in Requests : g # h => Unsummed(g) \cap Unsummed(h) = {}
      /\ Unsummed(h) \cap (summarised \cup missed \cup unseen \cup Sessionless) = {}
  BY <1>2 DEF SummariesFollow, Unsummed, OfSessions
<1>5. CASE summarised' = summarised \cup Unsummed(h) /\ UNCHANGED <<missed, faults>>
  BY <1>2, <1>3, <1>4, <1>5 DEF SummariesFollow
<1>6. CASE /\ WriteFails
           /\ missed' = missed \cup Unsummed(h) /\ summarised' = summarised
  <2>1. faults' > 0
    BY <1>1, <1>6, ConstantsAssumption DEF WriteFails, Fault, TypeOK, DrainedInOrder
  <2>2. QED
    BY <1>2, <1>3, <1>4, <1>6, <2>1 DEF SummariesFollow
<1>7. QED
  BY <1>5, <1>6 DEF Upsert

\* The end of the process: what the requests had yet to fold in is missed, and
\* nothing is when drain came to its end without a fault (run.go:28-59).
LEMMA GoneKeepsSummaries ==
  ASSUME PipelineInv, SummariesFollow, Exit \/ Crash
  PROVE  SummariesFollow'
<1> USE DEF PipelineInv
<1>1. /\ Gone /\ faults' \in Nat /\ faults \in Nat
      /\ \/ faults' = faults /\ phase = "closed"
         \/ faults' > 0
  BY ConstantsAssumption DEF Exit, Crash, Fault, TypeOK
<1>2. PICK U : U = UNION {Unsummed(h) : h \in Requests}
  OBVIOUS
<1>3. /\ UNCHANGED <<unseen, summarised>> /\ missed' = missed \cup U
      /\ \A h \in Requests : req'[h] = Idle
  BY <1>1, <1>2 DEF Gone
<1>4. \A h \in Requests : req'[h].events = {} /\ Unsummed(h)' = {}
  BY <1>3 DEF Unsummed, Idle
<1>5. \A e : e \in U <=> \E h \in Requests : e \in Unsummed(h)
  BY <1>2
<1>6. U \cap (unseen \cup summarised \cup Sessionless) = {}
  BY <1>5 DEF SummariesFollow, Unsummed, OfSessions
<1>7. missed' # {} => faults' > 0
  <2>1. CASE faults' = faults /\ phase = "closed" /\ faults = 0
    <3>1. \A h \in Requests : Unsummed(h) = {}
      BY <2>1 DEF DrainedInOrder, Unsummed
    <3>2. U = {}
      BY <1>5, <3>1
    <3>3. QED
      BY <1>3, <2>1, <3>2 DEF SummariesFollow
  <2>2. CASE faults' > 0
    BY <2>2
  <2>3. QED
    BY <1>1, <2>1, <2>2
<1>8. QED
  BY <1>3, <1>4, <1>5, <1>6, <1>7 DEF SummariesFollow

\* Each step of the pipeline keeps the summaries in step with what was sent.
LEMMA SummariesStep ==
  ASSUME PipelineInv, SummariesFollow, [Next]_vars
  PROVE  SummariesFollow'
<1> USE DEF PipelineInv
<1>1. ASSUME NEW h \in Requests, Receive(h) PROVE SummariesFollow'
  <2>1. PICK E \in SUBSET unseen :
          /\ unseen' = unseen \ E
          /\ req' = [req EXCEPT ![h] = [Idle EXCEPT !.at = "filter", !.events = E]]
    BY <1>1 DEF Receive
  <2>2. /\ req'[h].at = "filter" /\ req'[h].events = E
        /\ \A g \in Requests : g # h => req'[g] = req[g]
    BY <2>1 DEF TypeOK, Idle
  <2>3. /\ Unsummed(h)' = E \ Sessionless /\ Unsummed(h) = {}
        /\ \A g \in Requests : g # h => Unsummed(g)' = Unsummed(g)
    BY <1>1, <2>2 DEF Unsummed, OfSessions, Receive
  <2>4. UNCHANGED <<summarised, missed, faults>>
    BY <1>1 DEF Receive, stored
  <2>5. QED
    BY <2>1, <2>2, <2>3, <2>4 DEF SummariesFollow
<1>2. ASSUME NEW h \in Requests, Upsert(h) PROVE SummariesFollow'
  BY <1>2, UpsertKeepsSummaries
<1>3. ASSUME NEW h \in Requests, Apply(h) \/ DueCheck(h) \/ TakeRollups(h)
      PROVE  SummariesFollow'
  <2>1. /\ req'[h].events = req[h].events
        /\ \/ req[h].at = "filter" /\ req'[h].at = "summarise"
           \/ req[h].at \in {"due", "flush"} /\ req'[h].at \in {"flush", "enqueue"}
        /\ \A g \in Requests : g # h => req'[g] = req[g]
    BY <1>3 DEF Apply, DueCheck, TakeRollups, Serving, TypeOK
  <2>2. \A g \in Requests : req'[g].events = req[g].events /\ Unsummed(g)' = Unsummed(g)
    BY <2>1 DEF Unsummed
  <2>3. UNCHANGED <<unseen, summarised, missed, faults>> /\ faults \in Nat
    BY <1>3, ConstantsAssumption DEF Apply, DueCheck, TakeRollups, stored, TypeOK
  <2>4. QED
    BY <2>2, <2>3, QuietKeepsSummaries
<1>4. ASSUME NEW h \in Requests, Enqueue(h) \/ EnqueueFails(h) PROVE SummariesFollow'
  <2>1. /\ req'[h] = Idle /\ Unsummed(h) = {}
        /\ \A g \in Requests : g # h => req'[g] = req[g]
    BY <1>4 DEF Enqueue, EnqueueFails, Serving, TypeOK, Unsummed
  <2>2. \A g \in Requests : g # h => req'[g].events = req[g].events
                                      /\ Unsummed(g)' = Unsummed(g)
    BY <2>1 DEF Unsummed
  <2>3. UNCHANGED <<unseen, summarised, missed>> /\ faults' \in Nat /\ faults' >= faults
    BY <1>4, ConstantsAssumption
    DEF Enqueue, EnqueueFails, WriteFails, Fault, stored, TypeOK
  <2>4. QED
    BY <2>1, <2>2, <2>3, QuietKeepsSummaries
<1>5. CASE Signal \/ ReceiverStopped \/ FinalFlush \/ FinalEnqueue \/ Close \/ Start
             \/ IntervalEnds \/ UNCHANGED vars
  <2>1. UNCHANGED <<req, unseen, summarised, missed>>
    BY <1>5 DEF Signal, ReceiverStopped, FinalFlush, FinalEnqueue, Close, Start,
                IntervalEnds, vars, filterVars, stored
  <2>2. faults' \in Nat /\ faults' >= faults
    BY <1>5, ConstantsAssumption
    DEF Signal, ReceiverStopped, FinalFlush, FinalEnqueue, Close, Start, IntervalEnds,
        vars, Fault, TypeOK
  <2>3. \A g \in Requests : req'[g].events = req[g].events /\ Unsummed(g)' = Unsummed(g)
    BY <2>1 DEF Unsummed
  <2>4. QED
    BY <2>1, <2>2, <2>3, QuietKeepsSummaries
<1>6. CASE Exit \/ Crash
  BY <1>6, GoneKeepsSummaries
<1>7. QED
  BY <1>1, <1>2, <1>3, <1>4, <1>5, <1>6 DEF Next, Serve, Drain

\* The session summaries hold the events that were sent of a session, those
\* aside that they missed by a fault, and the rows hold the tokens of those that
\* were sent and not lost, whatever fails (daemon.go:149-153).
THEOREM SummariesReconcile == Spec => []Reconciles
<1>1. PipelineInv /\ SummariesFollow => Reconciles
  <2> SUFFICES ASSUME PipelineInv, SummariesFollow, NEW e \in Events,
                      \A h \in Requests : e \notin Unsummed(h)
               PROVE  IF e \in Sessionless \cup missed
                      THEN e \notin summarised
                      ELSE e \in summarised
                             <=> rows[e] = 1 \/ e \in pending \cup final \cup AllCarried \cup lost
    BY DEF Reconciles, SummariesFollow
  <2> USE DEF PipelineInv
  <2>1. e \in AllCarried <=> \E h \in Requests : e \in Carried(h)
    BY DEF AllCarried
  <2>2. e \in Sessionless \cup missed => e \notin summarised
    BY DEF SummariesFollow
  <2>3. e \notin Sessionless \cup missed => (e \in summarised <=> e \notin unseen)
    BY DEF SummariesFollow
  <2>4. e \notin unseen <=> rows[e] = 1 \/ e \in pending \cup final \cup AllCarried \cup lost
    BY <2>1 DEF OnePlace
  <2>5. QED
    BY <2>2, <2>3, <2>4
<1>2. PipelineInv /\ SummariesFollow /\ [Next]_vars => (PipelineInv /\ SummariesFollow)'
  BY PipelineStep, SummariesStep
<1>3. Init => PipelineInv /\ SummariesFollow
  BY PipelineInit, SummariesInit
<1>4. QED
  BY <1>1, <1>2, <1>3, PTL DEF Spec
-----------------------------------------------------------------------------
\* Min (FiniteSetsExt), as a scan stops at the first line that is too long, is in
\* the set, and the least of it.
LEMMA LeastIn ==
  ASSUME NEW S \in SUBSET Nat, S # {}
  PROVE  Min(S) \in S /\ \A n \in S : Min(S) <= n
<1> DEFINE R == OpToRel(<, Nat)
<1>1. IsWellFoundedOn(R, Nat)
  BY NatLessThanWellFounded
<1>2. PICK x \in S : \A y \in S : ~ (<<y, x>> \in R)
  <2> HIDE DEF R
  <2> QED
    BY <1>1, WFMin
<1>3. \A y \in S : y < x => <<y, x>> \in R
  BY DEF OpToRel
<1> HIDE DEF R
<1>4. \A y \in S : ~ (y < x)
  BY <1>2, <1>3
<1>5. \A y \in S : x <= y
  BY <1>4
<1> QED
  BY <1>5 DEF Min

\* Max, as the last directory stated is the one that counts, is in the set, and
\* the greatest of it.
LEMMA GreatestIn ==
  ASSUME NEW n \in Nat, NEW S \in SUBSET (1 .. n), S # {}
  PROVE  Max(S) \in S /\ \A i \in S : i <= Max(S)
<1> DEFINE T == {t \in 0 .. n : n - t \in S}
<1>1. T \in SUBSET Nat /\ T # {}
  <2>1. PICK i \in S : TRUE
    OBVIOUS
  <2>2. n - i \in 0 .. n /\ n - (n - i) = i
    BY <2>1
  <2>3. n - i \in T
    BY <2>2
  <2>4. T \in SUBSET Nat
    BY SMT
  <2> HIDE DEF T
  <2> QED
    BY <2>3, <2>4
<1>2. PICK m \in T : \A t \in T : m <= t
  <2> HIDE DEF T
  <2> QED
    BY <1>1, LeastIn
<1>3. PICK x \in S : x = n - m
  OBVIOUS
<1>4. ASSUME NEW i \in S
      PROVE  x >= i
  <2>1. i \in 1 .. n /\ n - (n - i) = i /\ m \in 0 .. n
    OBVIOUS
  <2>2. n - i \in T
    BY <2>1
  <2>3. m <= n - i
    BY <1>2, <2>2
  <2> QED
    BY <1>3, <2>1, <2>3
<1>5. Max(S) \in S /\ \A i \in S : Max(S) >= i
  BY <1>4 DEF Max
<1>6. QED
  BY <1>5

\* The place of the last directory that some records state.
LastAt(recs, k) ==
  /\ k \in 1 .. Len(recs) /\ recs[k] \in Dirs
  /\ \A j \in 1 .. Len(recs) : j > k => recs[j] \notin Dirs
StatesNone(recs) == \A i \in 1 .. Len(recs) : recs[i] \notin Dirs

\* Records state no directory, or there is a last one they state.
LEMMA SomeOrNone ==
  ASSUME NEW recs \in Seq(Records)
  PROVE  StatesNone(recs) \/ \E k : LastAt(recs, k)
<1> DEFINE S == {i \in 1 .. Len(recs) : recs[i] \in Dirs}
<1>1. CASE S = {}
  BY <1>1 DEF StatesNone
<1>2. CASE S # {}
  <2>1. Max(S) \in S /\ \A i \in S : i <= Max(S)
    <3>1. S \in SUBSET (1 .. Len(recs)) /\ Len(recs) \in Nat
      OBVIOUS
    <3> HIDE DEF S
    <3> QED
      BY <3>1, <1>2, GreatestIn
  <2>2. PICK k : k = Max(S)
    OBVIOUS
  <2>3. k \in 1 .. Len(recs) /\ recs[k] \in Dirs /\ \A i \in S : i <= k
    BY <2>1, <2>2
  <2>4. LastAt(recs, k)
    BY <2>3 DEF LastAt
  <2> QED
    BY <2>4
<1> QED
  BY <1>1, <1>2

\* applicableCWD (resolver.go:327-347) over all the records, where the last
\* directory is known.
LEMMA LatestIsLast ==
  ASSUME NEW recs \in Seq(Records), NEW c, NEW k, LastAt(recs, k)
  PROVE  Latest(recs, c) = recs[k]
<1> DEFINE S == {i \in 1 .. Len(recs) : recs[i] \in Dirs}
<1>1. DOMAIN recs = 1 .. Len(recs) /\ Len(recs) \in Nat
  OBVIOUS
<1>2. k \in S /\ \A i \in S : i <= k
  BY <1>1 DEF LastAt
<1>3. Max(S) \in S /\ \A i \in S : i <= Max(S)
  <2>1. S \in SUBSET (1 .. Len(recs)) /\ S # {}
    BY <1>2
  <2> HIDE DEF S
  <2> QED
    BY <2>1, <1>1, GreatestIn
<1>4. Max(S) = k
  <2>1. S \in SUBSET Int
    BY <1>1
  <2> HIDE DEF S
  <2>2. Max(S) \in Int /\ k \in Int /\ Max(S) <= k /\ k <= Max(S)
    BY <2>1, <1>2, <1>3
  <2> QED
    BY <2>2
<1>5. {i \in DOMAIN recs : recs[i] \in Dirs} = S
  BY <1>1
<1> HIDE DEF S
<1> QED
  BY <1>2, <1>4, <1>5 DEF Latest

\* And over records that state none.
LEMMA LatestIsKept ==
  ASSUME NEW recs \in Seq(Records), NEW c, StatesNone(recs)
  PROVE  Latest(recs, c) = c
<1>1. DOMAIN recs = 1 .. Len(recs)
  OBVIOUS
<1>2. {i \in DOMAIN recs : recs[i] \in Dirs} = {}
  BY <1>1 DEF StatesNone
<1> QED
  BY <1>2 DEF Latest

\* A record more.
LEMMA LatestOfMore ==
  ASSUME NEW recs \in Seq(Records), NEW rec \in Records, NEW c
  PROVE  Latest(Append(recs, rec), c) = IF rec \in Dirs THEN rec ELSE Latest(recs, c)
<1> DEFINE more == Append(recs, rec)
<1>1. /\ more \in Seq(Records) /\ Len(more) = Len(recs) + 1 /\ Len(recs) \in Nat
      /\ more[Len(recs) + 1] = rec
      /\ \A i \in 1 .. Len(recs) : more[i] = recs[i]
  OBVIOUS
<1> HIDE DEF more
<1>2. CASE rec \in Dirs
  <2>1. LastAt(more, Len(recs) + 1)
    BY <1>1, <1>2 DEF LastAt
  <2> QED
    BY <2>1, <1>1, <1>2, LatestIsLast DEF more
<1>3. CASE rec \notin Dirs /\ StatesNone(recs)
  <2>1. StatesNone(more)
    BY <1>1, <1>3 DEF StatesNone
  <2> QED
    BY <2>1, <1>1, <1>3, LatestIsKept DEF more
<1>4. ASSUME rec \notin Dirs, NEW k, LastAt(recs, k)
      PROVE  Latest(more, c) = Latest(recs, c)
  <2>1. LastAt(more, k) /\ more[k] = recs[k]
    BY <1>1, <1>4 DEF LastAt
  <2>2. Latest(more, c) = more[k] /\ Latest(recs, c) = recs[k]
    BY <2>1, <1>1, <1>4, LatestIsLast
  <2> QED
    BY <2>1, <2>2
<1> QED
  BY <1>2, <1>3, <1>4, SomeOrNone DEF more

\* The records from some place on: if they state a directory, the last of them is
\* the last of all; if not, what was found so far is kept.
LEMMA LatestOfRest ==
  ASSUME NEW recs \in Seq(Records), NEW m \in Nat \ {0}, NEW c
  PROVE  LET rest == SubSeq(recs, m, Len(recs))
         IN /\ rest \in Seq(Records)
            /\ Latest(rest, None) # None => Latest(rest, c) = Latest(recs, None)
            /\ Latest(rest, Latest(recs, None)) = Latest(recs, None)
            /\ Latest(rest, None) = None => Latest(rest, c) = c
<1> DEFINE rest == SubSeq(recs, m, Len(recs))
<1>1. /\ rest \in Seq(Records)
      /\ Len(rest) = IF m <= Len(recs) THEN Len(recs) + 1 - m ELSE 0
      /\ \A i \in 1 .. Len(rest) : rest[i] = recs[m + i - 1] /\ m + i - 1 \in 1 .. Len(recs)
      /\ Len(rest) \in Nat /\ Len(recs) \in Nat
  OBVIOUS
<1> HIDE DEF rest
<1>2. CASE StatesNone(rest)
  <2>1. \A d : Latest(rest, d) = d
    BY <1>1, <1>2, LatestIsKept
  <2> QED
    BY <2>1, <1>1 DEF rest
<1>3. ASSUME NEW k, LastAt(rest, k)
      PROVE  /\ Latest(rest, None) # None /\ Latest(rest, c) = Latest(recs, None)
             /\ Latest(rest, Latest(recs, None)) = Latest(recs, None)
  <2>1. k \in 1 .. Len(rest) /\ rest[k] \in Dirs
    BY <1>3 DEF LastAt
  <2>2. m + k - 1 \in 1 .. Len(recs) /\ recs[m + k - 1] = rest[k]
    BY <2>1, <1>1
  <2>3. ASSUME NEW j \in 1 .. Len(recs), j > m + k - 1
        PROVE  recs[j] \notin Dirs
    <3>1. j - m + 1 \in 1 .. Len(rest) /\ j - m + 1 > k /\ m + (j - m + 1) - 1 = j
      BY <2>1, <2>3, <1>1
    <3>2. rest[j - m + 1] = recs[j]
      BY <3>1, <1>1
    <3> QED
      BY <3>1, <3>2, <1>3 DEF LastAt
  <2>4. LastAt(recs, m + k - 1)
    BY <2>1, <2>2, <2>3 DEF LastAt
  <2>5. Latest(recs, None) = rest[k]
    BY <2>2, <2>4, LatestIsLast
  <2>6. \A d : Latest(rest, d) = rest[k]
    BY <1>1, <1>3, LatestIsLast
  <2>7. None \notin Dirs
    BY ResolverAssumption
  <2> QED
    BY <2>1, <2>5, <2>6, <2>7
<1> QED
  <2>1. StatesNone(rest) \/ \E k : LastAt(rest, k)
    BY <1>1, SomeOrNone
  <2> QED
    BY <2>1, <1>1, <1>2, <1>3 DEF rest
-----------------------------------------------------------------------------
\* What a session file is.
Paths == {"live", "archive", None}
FileOK(f) ==
  /\ f \in [at : Paths, recs : Seq(Records), half : BOOLEAN, stamp : 0 .. 3]
  /\ f.half => Len(f.recs) > 0

\* The whole records of a file, and its size.
LEMMA WholeIs ==
  ASSUME NEW f, FileOK(f)
  PROVE  /\ Whole(f) \in Seq(Records)
         /\ SizeOf(f) \in Nat
         /\ f.half => /\ f.recs = Append(Whole(f), Last(f.recs)) /\ Last(f.recs) \in Records
                      /\ SizeOf(f) = 2 * Len(Whole(f)) + 1
         /\ ~ f.half => Whole(f) = f.recs /\ SizeOf(f) = 2 * Len(Whole(f))
<1>1. f.recs \in Seq(Records) /\ f.half \in BOOLEAN /\ Len(f.recs) \in Nat
  BY DEF FileOK
<1>2. CASE f.half
  <2>1. Len(f.recs) > 0
    BY <1>2 DEF FileOK
  <2>2. PICK s \in Seq(Records) : s = f.recs
    BY <1>1
  <2>3. /\ Front(s) \in Seq(Records) /\ Len(Front(s)) = Len(s) - 1
        /\ Last(s) \in Records /\ s = Append(Front(s), Last(s))
    BY <2>1, <2>2 DEF Front, Last
  <2>4. Whole(f) = Front(s)
    BY <1>2, <2>2 DEF Whole
  <2>5. SizeOf(f) = 2 * Len(s) - 1
    BY <1>2, <2>2 DEF SizeOf
  <2> QED
    BY <1>1, <1>2, <2>1, <2>2, <2>3, <2>4, <2>5
<1>3. CASE ~ f.half
  <2>1. Whole(f) = f.recs /\ SizeOf(f) = 2 * Len(f.recs)
    BY <1>1, <1>3 DEF Whole, SizeOf
  <2> QED
    BY <1>1, <1>3, <2>1
<1> QED
  BY <1>1, <1>2, <1>3

\* The session's directory is what a reading of the whole file finds.
LEMMA TruthIsLatest ==
  ASSUME NEW f, FileOK(f)
  PROVE  Truth(f) = Latest(Whole(f), None)
<1>1. PICK recs \in Seq(Records) : recs = Whole(f)
  BY WholeIs
<1> DEFINE Stands(dir) ==
      \E i \in DOMAIN recs : recs[i] = dir /\ \A j \in i + 1 .. Len(recs) : recs[j] \notin Dirs
<1>2. Truth(f) = IF \E dir \in Dirs : Stands(dir) THEN CHOOSE dir \in Dirs : Stands(dir) ELSE None
  BY <1>1 DEF Truth
<1>3. DOMAIN recs = 1 .. Len(recs) /\ Len(recs) \in Nat
  OBVIOUS
<1>4. ASSUME NEW k, LastAt(recs, k)
      PROVE  Truth(f) = recs[k]
  <2>1. k \in 1 .. Len(recs) /\ recs[k] \in Dirs
    BY <1>4 DEF LastAt
  <2>2. \A j \in k + 1 .. Len(recs) : recs[j] \notin Dirs
    BY <2>1, <1>3, <1>4 DEF LastAt
  <2>3. Stands(recs[k])
    BY <2>1, <2>2, <1>3
  <2>4. ASSUME NEW dir \in Dirs, Stands(dir)
        PROVE  dir = recs[k]
    <3>1. PICK i \in 1 .. Len(recs) : recs[i] = dir /\ \A j \in i + 1 .. Len(recs) : recs[j] \notin Dirs
      BY <2>4, <1>3
    <3>2. ~ (i > k)
      BY <3>1, <1>4 DEF LastAt
    <3>3. ~ (i < k)
      BY <3>1, <2>1, <1>3
    <3> QED
      BY <3>1, <3>2, <3>3, <2>1, <1>3
  <2> HIDE DEF Stands
  <2> QED
    BY <1>2, <2>1, <2>3, <2>4
<1>5. CASE StatesNone(recs)
  <2>1. ~ \E dir \in Dirs : Stands(dir)
    BY <1>3, <1>5 DEF StatesNone
  <2> HIDE DEF Stands
  <2>2. Truth(f) = None
    BY <1>2, <2>1
  <2> QED
    BY <2>2, <1>1, <1>5, LatestIsKept
<1> HIDE DEF Stands
<1>6. ASSUME NEW k, LastAt(recs, k)
      PROVE  Truth(f) = Latest(recs, None)
  BY <1>4, <1>6, LatestIsLast
<1> QED
  BY <1>1, <1>5, <1>6, SomeOrNone

\* What a reading from an offset finds (resolver.go:300-325): the records from
\* some place on, all of them if it starts at the top, none at the end.
LEMMA FromIs ==
  ASSUME NEW f, FileOK(f), NEW offset \in Nat
  PROVE  /\ From(f, offset) \in Seq(Records)
         /\ \A c : Latest(From(f, offset), None) # None => Latest(From(f, offset), c) = Truth(f)
         /\ \A c : Latest(From(f, offset), None) = None => Latest(From(f, offset), c) = c
         /\ Latest(From(f, offset), Truth(f)) = Truth(f)
         /\ offset = 0 => From(f, offset) = Whole(f)
         /\ offset = SizeOf(f) => \A c : Latest(From(f, offset), c) = c
<1>1. PICK recs \in Seq(Records) : recs = Whole(f)
  BY WholeIs
<1>2. PICK m \in Nat \ {0} : m = (offset + 1) \div 2 + 1
  <2>1. (offset + 1) \div 2 + 1 \in Nat \ {0}
    OBVIOUS
  <2> QED
    BY <2>1
<1>3. From(f, offset) = SubSeq(recs, m, Len(recs))
  BY <1>1, <1>2 DEF From
<1>4. Truth(f) = Latest(recs, None)
  BY <1>1, TruthIsLatest
<1>5. offset = 0 => SubSeq(recs, m, Len(recs)) = recs
  <2>1. offset = 0 => m = 1
    BY <1>2
  <2> QED
    BY <2>1
<1>6. ASSUME offset = SizeOf(f), NEW c
      PROVE  Latest(From(f, offset), c) = c
  <2>1. m > Len(recs)
    BY <1>1, <1>2, <1>6, WholeIs
  <2>2. SubSeq(recs, m, Len(recs)) \in Seq(Records) /\ Len(SubSeq(recs, m, Len(recs))) = 0
    BY <2>1
  <2>3. StatesNone(SubSeq(recs, m, Len(recs)))
    BY <2>2 DEF StatesNone
  <2> QED
    BY <2>2, <2>3, <1>3, LatestIsKept
<1>7. QED
  BY <1>1, <1>3, <1>4, <1>5, <1>6, LatestOfRest

\* A scan that stops early has read records too.
LEMMA ScannedIn ==
  ASSUME NEW recs \in Seq(Records)
  PROVE  Scanned(recs) \in Seq(Records)
<1> DEFINE huge == {i \in DOMAIN recs : recs[i] = Huge}
<1>1. huge \in SUBSET Nat /\ huge \subseteq 1 .. Len(recs)
  OBVIOUS
<1>2. Scanned(recs) = IF huge = {} THEN recs ELSE SubSeq(recs, 1, Min(huge) - 1)
  BY DEF Scanned
<1>3. huge # {} => Min(huge) \in 1 .. Len(recs)
  <2> HIDE DEF huge
  <2> QED
    BY <1>1, LeastIn
<1> HIDE DEF huge
<1> QED
  BY <1>2, <1>3
-----------------------------------------------------------------------------
\* A reading from this place with this answer comes to the session's directory,
\* and nothing that states one is cut off there.
Follows(f, size, cwd) ==
  /\ Truth(f) = Latest(From(f, size), cwd)
  /\ size <= SizeOf(f)
  /\ f.half /\ size = SizeOf(f) => Last(f.recs) \notin Dirs

\* A whole record more after the place where a reading starts.
LEMMA MoreFollows ==
  ASSUME NEW f, FileOK(f), NEW g, FileOK(g), NEW rec \in Records,
         Whole(g) = Append(Whole(f), rec), ~ g.half,
         NEW size \in Nat, NEW cwd, Follows(f, size, cwd),
         size <= 2 * Len(Whole(f)) \/ rec \notin Dirs
  PROVE  Follows(g, size, cwd)
<1>1. PICK recs \in Seq(Records) : recs = Whole(f)
  BY WholeIs
<1>2. Whole(g) = Append(recs, rec) /\ Len(Append(recs, rec)) = Len(recs) + 1
  BY <1>1
<1>3. size <= SizeOf(g)
  BY <1>1, <1>2, WholeIs DEF Follows
<1>4. PICK m \in Nat \ {0} : m = (size + 1) \div 2 + 1
  <2>1. (size + 1) \div 2 + 1 \in Nat \ {0}
    OBVIOUS
  <2> QED
    BY <2>1
<1>5. From(f, size) = SubSeq(recs, m, Len(recs)) /\ From(g, size) = SubSeq(Append(recs, rec), m, Len(recs) + 1)
  BY <1>1, <1>2, <1>4 DEF From
<1>6. Truth(g) = IF rec \in Dirs THEN rec ELSE Truth(f)
  <2>1. Truth(f) = Latest(recs, None) /\ Truth(g) = Latest(Append(recs, rec), None)
    BY <1>1, <1>2, TruthIsLatest
  <2> QED
    BY <2>1, LatestOfMore
<1>7. CASE m <= Len(recs) + 1
  <2>1. SubSeq(Append(recs, rec), m, Len(recs) + 1) = Append(SubSeq(recs, m, Len(recs)), rec)
    BY <1>7
  <2>2. SubSeq(recs, m, Len(recs)) \in Seq(Records)
    BY <1>7
  <2>3. PICK rest \in Seq(Records) : rest = From(f, size) /\ From(g, size) = Append(rest, rec)
    BY <2>1, <2>2, <1>5
  <2>4. Latest(From(g, size), cwd) = IF rec \in Dirs THEN rec ELSE Latest(From(f, size), cwd)
    BY <2>3, LatestOfMore
  <2> QED
    BY <2>4, <1>3, <1>6 DEF Follows
<1>8. CASE ~ (m <= Len(recs) + 1)
  <2>1. rec \notin Dirs
    BY <1>1, <1>4, <1>8
  <2>2. SubSeq(Append(recs, rec), m, Len(recs) + 1) = <<>> /\ SubSeq(recs, m, Len(recs)) = <<>>
    BY <1>8
  <2>3. From(g, size) = From(f, size)
    BY <2>2, <1>5
  <2> QED
    BY <2>1, <2>3, <1>3, <1>6 DEF Follows
<1> QED
  BY <1>7, <1>8

\* A record is begun: finished at once it is one more; half of it is not read.
LEMMA BegunFollows ==
  ASSUME NEW f, FileOK(f), NEW g, FileOK(g), NEW rec \in Records,
         ~ f.half, g.recs = Append(f.recs, rec),
         NEW size \in Nat, NEW cwd, Follows(f, size, cwd)
  PROVE  Follows(g, size, cwd)
<1>1. Whole(f) = f.recs /\ f.recs \in Seq(Records) /\ SizeOf(f) = 2 * Len(f.recs) /\ size <= 2 * Len(f.recs)
  BY WholeIs DEF Follows
<1>2. CASE ~ g.half
  <2>1. Whole(g) = Append(Whole(f), rec)
    BY <1>1, <1>2, WholeIs
  <2> QED
    BY <2>1, <1>1, <1>2, MoreFollows
<1>3. CASE g.half
  <2>1. PICK s \in Seq(Records) : s = f.recs
    BY <1>1
  <2>2. Front(Append(s, rec)) = s
    BY DEF Front
  <2>3. Whole(g) = s
    BY <1>3, <2>1, <2>2 DEF Whole
  <2>4. From(g, size) = From(f, size)
    BY <2>1, <2>3, <1>1 DEF From
  <2>5. Truth(g) = Truth(f)
    BY <2>1, <2>3, <1>1, TruthIsLatest
  <2>6. SizeOf(g) = 2 * Len(s) + 1
    BY <2>3, <1>3, WholeIs
  <2>7. size < SizeOf(g)
    BY <2>1, <2>6, <1>1
  <2> QED
    BY <2>4, <2>5, <2>7, WholeIs DEF Follows
<1> QED
  BY <1>2, <1>3

\* The rest of a record is written.
LEMMA FinishedFollows ==
  ASSUME NEW f, FileOK(f), NEW g, FileOK(g),
         f.half, ~ g.half, g.recs = f.recs,
         NEW size \in Nat, NEW cwd, Follows(f, size, cwd)
  PROVE  Follows(g, size, cwd)
<1>1. PICK rec \in Records : rec = Last(f.recs)
  BY WholeIs
<1>2. Whole(g) = Append(Whole(f), rec)
  BY <1>1, WholeIs
<1>3. SizeOf(f) = 2 * Len(Whole(f)) + 1 /\ Whole(f) \in Seq(Records)
  BY WholeIs
<1>4. size <= 2 * Len(Whole(f)) \/ rec \notin Dirs
  BY <1>1, <1>3 DEF Follows
<1> QED
  BY <1>2, <1>4, MoreFollows
-----------------------------------------------------------------------------
\* A call knows its path, and what would be right now would be right for it.
CallOK ==
  /\ call \in [at : {"idle", "stat", "read"}, path : Paths, size : Nat, stamp : 0 .. 3]
  /\ call.at # "idle" => call.path # None /\ Truth(file) \in truths

EntryOK ==
  cache.size \in Nat /\ cache.stamp \in 0 .. 3

\* Only an archived Codex session is not where it was.
InPlace ==
  agent = "claude" =>
    /\ index # None => index = file.at
    /\ call.at # "idle" => call.path = file.at

\* Unless it may have missed a directory, Codex's entry is right as long as the
\* file has its time stamp, and Claude's once what follows it is read.
EntryFollows ==
  cache.path # None /\ ~ doubt =>
    /\ agent = "codex" /\ cache.stamp = file.stamp => cache.cwd = Truth(file)
    /\ agent = "claude" => Follows(file, cache.size, cache.cwd)

ResolverInv ==
  /\ agent \in {"codex", "claude"} /\ troubles \in Nat /\ doubt \in BOOLEAN
  /\ FileOK(file) /\ index \in Paths
  /\ CallOK /\ EntryOK /\ InPlace /\ EntryFollows

\* What the answer of a call must be: one of those that were right meanwhile,
\* or none when there was no file to read.
Right == truths \cup (IF NoFile THEN {None} ELSE {})

\* A daemon starts with nothing known, and no session file (resolver.go:60-96).
LEMMA ResolverStarts == ResolverInit => ResolverInv
<1> SUFFICES ASSUME ResolverInit PROVE ResolverInv
  OBVIOUS
<1>1. FileOK(file)
  BY DEF ResolverInit, FileOK, Paths
<1>2. CallOK /\ EntryOK /\ InPlace /\ EntryFollows
  BY DEF ResolverInit, NoCall, NoEntry, CallOK, EntryOK, InPlace, EntryFollows, Paths
<1> QED
  BY <1>1, <1>2 DEF ResolverInit, ResolverInv, Paths

\* A stamp that neither the file nor the entry nor the call has.
LEMMA NewStamp ==
  ASSUME NEW a \in 0 .. 3, NEW b \in 0 .. 3, NEW c \in 0 .. 3
  PROVE  LET new == Min((0 .. 3) \ {a, b, c})
         IN new \in 0 .. 3 /\ new # a /\ new # b /\ new # c
<1> DEFINE S == (0 .. 3) \ {a, b, c}
<1>1. S \in SUBSET Nat
  OBVIOUS
<1>2. S # {}
  <2>1. 0 \in S \/ 1 \in S \/ 2 \in S \/ 3 \in S
    OBVIOUS
  <2> QED
    BY <2>1
<1>3. Min(S) \in S
  <2> HIDE DEF S
  <2> QED
    BY <1>1, <1>2, LeastIn
<1> QED
  BY <1>3

\* The agent writes: what it has written is one of the truths of the call, and
\* Codex's entry is out of date.
LEMMA WriteKeeps ==
  ASSUME ResolverInv, NEW f, Writes(f), FileOK(f),
         doubt' = doubt \/ doubt' = TRUE,
         troubles' \in Nat, troubles' >= troubles,
         f.at = file.at \/ (file.at = None /\ f.at \in Paths),
         agent = "claude" /\ cache.path # None /\ ~ doubt' /\ Follows(file, cache.size, cache.cwd)
           => Follows(f, cache.size, cache.cwd)
  PROVE  ResolverInv'
<1> DEFINE new == Min((0 .. 3) \ {file.stamp, cache.stamp, call.stamp})
<1>1. new \in 0 .. 3 /\ new # cache.stamp
  <2>1. file.stamp \in 0 .. 3 /\ cache.stamp \in 0 .. 3 /\ call.stamp \in 0 .. 3
    BY DEF ResolverInv, FileOK, EntryOK, CallOK
  <2> QED
    BY <2>1, NewStamp
<1>2. file' = [f EXCEPT !.stamp = new]
  BY DEF Writes, Changes
<1> HIDE DEF new
<1>3. /\ file'.at = f.at /\ file'.recs = f.recs /\ file'.half = f.half /\ file'.stamp = new
      /\ FileOK(file')
  BY <1>1, <1>2 DEF FileOK
<1>4. UNCHANGED <<agent, index, cache, call, answer>>
  BY DEF Writes, Changes, resolver
<1>5. truths' = IF call = NoCall THEN {} ELSE truths \cup {Truth(file')}
  BY <1>2 DEF Writes, Changes, new
<1>6. CallOK'
  BY <1>4, <1>5 DEF ResolverInv, CallOK, NoCall
<1>7. InPlace'
  BY <1>3, <1>4 DEF ResolverInv, InPlace, CallOK
<1>8. EntryFollows'
  <2>1. Whole(file') = Whole(f)
    BY <1>3 DEF Whole
  <2>2. Truth(file') = Truth(f)
    BY <2>1, <1>3, TruthIsLatest
  <2>3. SizeOf(file') = SizeOf(f)
    BY <1>3 DEF SizeOf
  <2>4. From(file', cache.size) = From(f, cache.size)
    BY <2>1 DEF From
  <2>5. Follows(f, cache.size, cache.cwd) => Follows(file', cache.size, cache.cwd)
    BY <1>3, <2>2, <2>3, <2>4 DEF Follows
  <2>6. ASSUME cache.path # None, ~ doubt', agent = "claude"
        PROVE  Follows(file', cache.size, cache.cwd)
    BY <2>5, <2>6 DEF ResolverInv, EntryFollows
  <2>7. cache.stamp # file'.stamp
    BY <1>1, <1>3
  <2> QED
    BY <2>6, <2>7, <1>4 DEF EntryFollows
<1> QED
  BY <1>3, <1>4, <1>6, <1>7, <1>8 DEF ResolverInv, EntryOK
-----------------------------------------------------------------------------
\* A record is begun, and the first one makes the file.
LEMMA BeginsKeeps ==
  ASSUME ResolverInv, NEW rec \in Records, Begins(rec)
  PROVE  ResolverInv'
<1>1. PICK half \in BOOLEAN :
        Writes([file EXCEPT !.recs = Append(@, rec), !.half = half,
                            !.at = IF @ = None THEN "live" ELSE @])
  BY DEF Begins
<1> DEFINE f == [file EXCEPT !.recs = Append(@, rec), !.half = half,
                             !.at = IF @ = None THEN "live" ELSE @]
<1>2. FileOK(file) /\ ~ file.half /\ UNCHANGED <<doubt, troubles>>
  BY DEF ResolverInv, Begins
<1>3. /\ f.recs = Append(file.recs, rec) /\ FileOK(f)
      /\ f.at = file.at \/ (file.at = None /\ f.at \in Paths)
  <2>1. Append(file.recs, rec) \in Seq(Records) /\ Len(Append(file.recs, rec)) > 0
    BY <1>2 DEF FileOK
  <2> QED
    BY <1>2, <2>1 DEF FileOK, Paths
<1>4. Writes(f)
  BY <1>1
<1> HIDE DEF f
<1>5. Follows(file, cache.size, cache.cwd) => Follows(f, cache.size, cache.cwd)
  <2>1. cache.size \in Nat
    BY DEF ResolverInv, EntryOK
  <2> QED
    BY <2>1, <1>2, <1>3, BegunFollows
<1>6. troubles' \in Nat /\ troubles' >= troubles
  BY <1>2 DEF ResolverInv
<1> QED
  BY <1>2, <1>3, <1>4, <1>5, <1>6, WriteKeeps

\* The rest of a record is written.
LEMMA FinishesKeeps ==
  ASSUME ResolverInv, Finishes
  PROVE  ResolverInv'
<1> DEFINE f == [file EXCEPT !.half = FALSE]
<1>1. FileOK(file) /\ file.half /\ UNCHANGED <<doubt, troubles>> /\ Writes(f)
  BY DEF ResolverInv, Finishes
<1>2. f.recs = file.recs /\ ~ f.half /\ FileOK(f) /\ f.at = file.at
  BY <1>1 DEF FileOK
<1> HIDE DEF f
<1>3. Follows(file, cache.size, cache.cwd) => Follows(f, cache.size, cache.cwd)
  <2>1. cache.size \in Nat
    BY DEF ResolverInv, EntryOK
  <2> QED
    BY <2>1, <1>1, <1>2, FinishedFollows
<1>4. troubles' \in Nat /\ troubles' >= troubles
  BY <1>1 DEF ResolverInv
<1> QED
  BY <1>1, <1>2, <1>3, <1>4, WriteKeeps

\* Claude's file is written anew: from then on the entry is in doubt.
LEMMA ReplacesKeeps ==
  ASSUME ResolverInv, NEW rec \in Records, Replaces(rec)
  PROVE  ResolverInv'
<1> DEFINE f == [file EXCEPT !.recs = <<rec>>, !.half = FALSE]
<1>1. FileOK(file) /\ doubt' = TRUE /\ troubles' = troubles + 1 /\ Writes(f)
  BY DEF ResolverInv, Replaces, Trouble
<1>2. FileOK(f) /\ f.at = file.at
  <2>1. <<rec>> \in Seq(Records)
    OBVIOUS
  <2>2. /\ f \in [at : Paths, recs : Seq(Records), half : BOOLEAN, stamp : 0 .. 3]
        /\ f.at = file.at /\ f.half = FALSE
    BY <1>1, <2>1 DEF FileOK
  <2> QED
    BY <2>2 DEF FileOK
<1> HIDE DEF f
<1>3. troubles' \in Nat /\ troubles' >= troubles
  BY <1>1 DEF ResolverInv
<1> QED
  BY <1>1, <1>2, <1>3, WriteKeeps

\* Codex moves its file, with its records and its time stamp.
LEMMA MovesKeeps ==
  ASSUME ResolverInv, Moves
  PROVE  ResolverInv'
<1> DEFINE f == [file EXCEPT !.at = IF @ = "live" THEN "archive" ELSE "live"]
<1>1. /\ FileOK(file) /\ agent = "codex" /\ troubles' = troubles + 1 /\ troubles \in Nat
      /\ file' = f /\ truths' = (IF call = NoCall THEN {} ELSE truths \cup {Truth(f)})
      /\ UNCHANGED <<agent, index, cache, call, answer, doubt>>
  BY DEF ResolverInv, Moves, Trouble, Changes, resolver
<1>2. FileOK(f) /\ f.recs = file.recs /\ f.half = file.half /\ f.stamp = file.stamp
  BY <1>1 DEF FileOK, Paths
<1> HIDE DEF f
<1>3. Truth(f) = Truth(file)
  <2>1. Whole(f) = Whole(file)
    BY <1>2 DEF Whole
  <2> QED
    BY <1>1, <1>2, <2>1, TruthIsLatest
<1>4. CallOK'
  BY <1>1, <1>3 DEF ResolverInv, CallOK, NoCall
<1>5. InPlace'
  BY <1>1 DEF InPlace
<1>6. EntryFollows'
  BY <1>1, <1>2, <1>3 DEF ResolverInv, EntryFollows
<1> QED
  BY <1>1, <1>2, <1>4, <1>5, <1>6 DEF ResolverInv, EntryOK

\* The call and the entry when a call has just ended.
LEMMA AfterAnswer ==
  ASSUME ResolverInv, NEW cwd, Answers(cwd), UNCHANGED <<agent, file>>,
         index' \in {index, None}, troubles' \in Nat, troubles' >= troubles, doubt' \in BOOLEAN
  PROVE  /\ agent' \in {"codex", "claude"} /\ troubles' \in Nat /\ doubt' \in BOOLEAN
         /\ FileOK(file') /\ index' \in Paths
         /\ CallOK' /\ InPlace'
<1>1. index' \in Paths
  BY DEF ResolverInv, Paths
<1>2. CallOK'
  BY DEF Answers, NoCall, CallOK, Paths
<1>3. InPlace'
  BY DEF ResolverInv, InPlace, Answers, NoCall
<1> QED
  BY <1>1, <1>2, <1>3 DEF ResolverInv

\* findSession: what would be right now is the first truth of the call.
LEMMA FindKeeps ==
  ASSUME ResolverInv, Find
  PROVE  ResolverInv'
<1> DEFINE path == IF index # None THEN index ELSE file.at
<1>1. path \in Paths /\ UNCHANGED <<agent, file, troubles, cache, doubt>> /\ index' = path
  BY DEF ResolverInv, FileOK, Find, session
<1>2. CASE path = None
  <2>1. Answers(None) /\ index' = None
    BY <1>1, <1>2 DEF Find
  <2>2. CallOK'
    BY <2>1 DEF Answers, NoCall, CallOK, Paths
  <2>3. InPlace'
    BY <2>1 DEF InPlace, Answers, NoCall
  <2>4. EntryFollows'
    BY <1>1 DEF ResolverInv, EntryFollows
  <2> QED
    BY <1>1, <2>2, <2>3, <2>4 DEF ResolverInv, EntryOK
<1>3. CASE path # None
  <2>1. /\ call' = [at |-> "stat", path |-> path, size |-> 0, stamp |-> 0]
        /\ truths' = {Truth(file)}
    BY <1>3 DEF Find, NoCall
  <2>2. CallOK'
    BY <1>1, <1>3, <2>1 DEF CallOK
  <2>3. InPlace'
    BY <1>1, <2>1 DEF ResolverInv, InPlace
  <2>4. EntryFollows'
    BY <1>1 DEF ResolverInv, EntryFollows
  <2> QED
    BY <1>1, <2>2, <2>3, <2>4 DEF ResolverInv, EntryOK
<1> QED
  BY <1>2, <1>3

\* A walk that ends early finds nothing and changes nothing.
LEMMA FindFailsKeeps ==
  ASSUME ResolverInv, FindFails
  PROVE  ResolverInv' /\ call.at = "idle"
<1>1. /\ Answers(None) /\ UNCHANGED <<agent, file, index, cache, doubt>>
      /\ troubles' = troubles + 1 /\ troubles \in Nat /\ call.at = "idle"
  BY DEF FindFails, Trouble, ResolverInv
<1>2. EntryOK' /\ EntryFollows'
  BY <1>1 DEF ResolverInv, EntryOK, EntryFollows
<1>3. doubt' \in BOOLEAN /\ index' \in {index, None} /\ troubles' \in Nat /\ troubles' >= troubles
  BY <1>1 DEF ResolverInv
<1> QED
  BY <1>1, <1>2, <1>3, AfterAnswer DEF ResolverInv

\* A file that is gone or cannot be stated leaves no entry; only Codex's can be
\* gone.
LEMMA StatFailsKeeps ==
  ASSUME ResolverInv, StatFails
  PROVE  ResolverInv' /\ answer' \in Right
<1>1. /\ Answers(None) /\ UNCHANGED <<agent, file, doubt>> /\ index' = None /\ cache' = NoEntry
      /\ call.at # "idle" /\ troubles \in Nat
      /\ \/ file.at # call.path /\ troubles' = troubles
         \/ troubles' = troubles + 1
  BY DEF StatFails, NotStated, Trouble, ResolverInv
<1>2. EntryOK' /\ EntryFollows'
  BY <1>1 DEF NoEntry, EntryOK, EntryFollows
<1>3. doubt' \in BOOLEAN /\ index' \in {index, None} /\ troubles' \in Nat /\ troubles' >= troubles
  BY <1>1 DEF ResolverInv
<1>4. ResolverInv'
  BY <1>1, <1>2, <1>3, AfterAnswer DEF ResolverInv
<1>5. NoFile
  BY <1>1 DEF ResolverInv, InPlace, NoFile
<1> QED
  BY <1>1, <1>4, <1>5 DEF Right, Answers

\* cacheUnchanged: the entry is right for the file as it is.
LEMMA CachedKeeps ==
  ASSUME ResolverInv, Cached
  PROVE  ResolverInv' /\ (~ doubt' => answer' \in Right)
<1>1. /\ Answers(cache.cwd) /\ UNCHANGED <<agent, file, troubles, index, cache, doubt>>
      /\ call.at # "idle" /\ cache.path = call.path
      /\ cache.size = SizeOf(file) /\ cache.stamp = file.stamp
  BY DEF Cached, Unchanged, session
<1>2. EntryOK' /\ EntryFollows'
  BY <1>1 DEF ResolverInv, EntryOK, EntryFollows
<1>3. ResolverInv'
  BY <1>1, <1>2, AfterAnswer DEF ResolverInv
<1>4. ASSUME ~ doubt
      PROVE  cache.cwd = Truth(file)
  <2>1. CASE agent = "codex"
    BY <1>1, <1>4, <2>1 DEF ResolverInv, EntryFollows, CallOK
  <2>2. CASE agent = "claude"
    <3>1. Truth(file) = Latest(From(file, cache.size), cache.cwd)
      BY <1>1, <1>4, <2>2 DEF ResolverInv, EntryFollows, CallOK, Follows
    <3>2. FileOK(file) /\ cache.size \in Nat
      BY DEF ResolverInv, EntryOK
    <3> QED
      BY <1>1, <3>1, <3>2, FromIs
  <2> QED
    BY <2>1, <2>2 DEF ResolverInv
<1>5. Truth(file) \in truths
  BY <1>1 DEF ResolverInv, CallOK
<1> QED
  BY <1>1, <1>3, <1>4, <1>5 DEF Right, Answers

\* A file that has changed is about to be read.
LEMMA StatKeeps ==
  ASSUME ResolverInv, Stat
  PROVE  ResolverInv' /\ call'.at # "idle"
<1>1. /\ UNCHANGED <<agent, file, troubles, index, cache, answer, truths, doubt>>
      /\ call.at = "stat" /\ file.at = call.path
      /\ call' = [call EXCEPT !.at = "read", !.size = SizeOf(file), !.stamp = file.stamp]
  BY DEF Stat, session
<1>2. SizeOf(file) \in Nat /\ file.stamp \in 0 .. 3
  BY WholeIs DEF ResolverInv, FileOK
<1>3. CallOK' /\ call'.at = "read"
  BY <1>1, <1>2 DEF ResolverInv, CallOK
<1>4. InPlace'
  BY <1>1 DEF ResolverInv, InPlace, CallOK
<1>5. EntryFollows' /\ EntryOK'
  BY <1>1 DEF ResolverInv, EntryFollows, EntryOK
<1> QED
  BY <1>1, <1>3, <1>4, <1>5 DEF ResolverInv
-----------------------------------------------------------------------------
\* readLatestCWD: a file that was there and was read to its end gives the
\* directory of the session, and an entry for the stamp it had before.
LEMMA ReadCodexKeeps ==
  ASSUME ResolverInv, ReadCodex
  PROVE  ResolverInv' /\ (~ doubt' => answer' \in Right)
<1> DEFINE there == file.at = call.path
           cwd == IF there THEN Latest(Scanned(Whole(file)), None) ELSE None
<1>1. /\ call.at # "idle" /\ agent = "codex" /\ UNCHANGED <<agent, file, troubles, index>>
      /\ cache' = [path |-> call.path, size |-> call.size, stamp |-> call.stamp, cwd |-> cwd]
      /\ Answers(cwd)
      /\ doubt' = (~ there \/ Scanned(Whole(file)) # Whole(file))
  BY DEF ReadCodex, Keeps
<1>2. ~ doubt' => cwd = Truth(file)
  <2>1. FileOK(file)
    BY DEF ResolverInv
  <2>2. Truth(file) = Latest(Whole(file), None)
    BY <2>1, TruthIsLatest
  <2> QED
    BY <1>1, <2>2
<1> HIDE DEF cwd, there
<1>3. EntryOK'
  BY <1>1 DEF ResolverInv, CallOK, EntryOK
<1>4. agent = "codex" /\ "codex" # "claude" /\ cache'.cwd = cwd
  BY <1>1
<1>5. EntryFollows'
  BY <1>1, <1>2, <1>4 DEF EntryFollows
<1>6. doubt' \in BOOLEAN /\ index' \in {index, None} /\ troubles' \in Nat /\ troubles' >= troubles
  BY <1>1 DEF ResolverInv
<1>7. ResolverInv'
  BY <1>1, <1>3, <1>5, <1>6, AfterAnswer DEF ResolverInv
<1>8. Truth(file) \in truths
  BY <1>1 DEF ResolverInv, CallOK
<1> QED
  BY <1>1, <1>2, <1>7, <1>8 DEF Right, Answers

\* readLatestClaudeCWD: unless it passes a directory over, it comes to that of
\* the session, whether it goes on from an entry or starts at the top.
LEMMA ReadClaudeFinds ==
  ASSUME ResolverInv, ReadClaude, ~ doubt'
  PROVE  /\ Latest(Scanned(From(file, ResumePoint.offset)), ResumePoint.cwd) = Truth(file)
         /\ Follows(file, call.size, Truth(file))
<1>1. PICK offset, cwd : offset = ResumePoint.offset /\ cwd = ResumePoint.cwd
  OBVIOUS
<1> DEFINE goes == cache.path = call.path /\ cache.size <= call.size
<1>2. /\ call.at # "idle" /\ agent = "claude" /\ FileOK(file)
      /\ call.path # None /\ call.size \in Nat /\ cache.size \in Nat
  BY DEF ReadClaude, ResolverInv, CallOK, EntryOK
<1>3. IF goes THEN offset = cache.size /\ cwd = cache.cwd ELSE offset = 0 /\ cwd = None
  BY <1>1 DEF ResumePoint
<1>4. PICK recs : recs = From(file, offset)
  OBVIOUS
<1>5. MissesNone(recs) /\ (~ doubt \/ Latest(recs, None) # None \/ ~ goes)
  BY <1>1, <1>4 DEF ReadClaude
<1>6. offset \in Nat
  BY <1>2, <1>3
<1>7. recs \in Seq(Records) /\ Scanned(recs) \in Seq(Records)
  BY <1>2, <1>4, <1>6, FromIs, ScannedIn
<1>8. Latest(recs, cwd) = Truth(file)
  <2>1. CASE Latest(recs, None) # None
    BY <1>2, <1>4, <1>6, <2>1, FromIs
  <2>2. CASE goes /\ ~ doubt
    BY <1>2, <1>3, <1>4, <2>2 DEF ResolverInv, EntryFollows, Follows
  <2>3. CASE ~ goes
    <3>1. offset = 0 /\ cwd = None
      BY <1>3, <2>3
    <3>2. recs = Whole(file)
      BY <3>1, <1>2, <1>4, <1>6, FromIs
    <3> QED
      BY <3>1, <3>2, <1>2, TruthIsLatest
  <2> QED
    BY <1>5, <2>1, <2>2, <2>3
<1>9. Latest(Scanned(recs), cwd) = Latest(recs, cwd)
  <2>1. Latest(Scanned(recs), None) = Latest(recs, None)
    BY <1>5 DEF MissesNone
  <2>2. ASSUME NEW s \in Seq(Records), NEW k, LastAt(s, k)
        PROVE  Latest(s, cwd) = s[k] /\ Latest(s, None) = s[k] /\ s[k] # None
    <3>1. s[k] \in Dirs /\ None \notin Dirs
      BY <2>2, ResolverAssumption DEF LastAt
    <3> QED
      BY <2>2, <3>1, LatestIsLast
  <2>3. ASSUME NEW s \in Seq(Records), StatesNone(s)
        PROVE  Latest(s, cwd) = cwd /\ Latest(s, None) = None
    BY <2>3, LatestIsKept
  <2>4. \A s \in Seq(Records) :
          Latest(s, cwd) = IF Latest(s, None) = None THEN cwd ELSE Latest(s, None)
    <3> SUFFICES ASSUME NEW s \in Seq(Records)
                 PROVE  Latest(s, cwd) = IF Latest(s, None) = None THEN cwd ELSE Latest(s, None)
      OBVIOUS
    <3> QED
      BY <2>2, <2>3, SomeOrNone
  <2> QED
    BY <2>1, <2>4, <1>7
<1>10. Follows(file, call.size, Truth(file))
  <2>1. Latest(From(file, call.size), Truth(file)) = Truth(file)
    BY <1>2, FromIs
  <2>2. /\ call.size <= SizeOf(file)
        /\ file.half /\ call.size = SizeOf(file) => Last(file.recs) \notin Dirs
    BY <1>5 DEF MissesNone
  <2> QED
    BY <2>1, <2>2 DEF Follows
<1> QED
  BY <1>1, <1>4, <1>8, <1>9, <1>10

\* The entry that this leaves can be gone on from.
LEMMA ReadClaudeKeeps ==
  ASSUME ResolverInv, ReadClaude
  PROVE  ResolverInv' /\ (~ doubt' => answer' \in Right)
<1> DEFINE cwd == Latest(Scanned(From(file, ResumePoint.offset)), ResumePoint.cwd)
<1>1. /\ call.at # "idle" /\ agent = "claude" /\ UNCHANGED <<agent, file, troubles, index>>
      /\ cache' = [path |-> call.path, size |-> call.size, stamp |-> call.stamp, cwd |-> cwd]
      /\ Answers(cwd)
      /\ doubt' \in BOOLEAN
  BY DEF ReadClaude, Keeps, ResolverInv
<1>2. ~ doubt' => cwd = Truth(file) /\ Follows(file, call.size, Truth(file))
  BY ReadClaudeFinds
<1> HIDE DEF cwd
<1>3. EntryOK' /\ cache'.size = call.size /\ cache'.cwd = cwd
  BY <1>1 DEF ResolverInv, CallOK, EntryOK
<1>4. ~ doubt' => Follows(file', cache'.size, cache'.cwd)
  BY <1>1, <1>2, <1>3
<1>5. EntryFollows'
  BY <1>1, <1>4 DEF EntryFollows
<1>6. index' \in {index, None} /\ troubles' \in Nat /\ troubles' >= troubles
  BY <1>1 DEF ResolverInv
<1>7. ResolverInv'
  BY <1>1, <1>3, <1>5, <1>6, AfterAnswer DEF ResolverInv
<1>8. Truth(file) \in truths
  BY <1>1 DEF ResolverInv, CallOK
<1> QED
  BY <1>1, <1>2, <1>7, <1>8 DEF Right, Answers

\* A read that fails leaves an entry in doubt.
LEMMA ReadFailsKeeps ==
  ASSUME ResolverInv, ReadFails
  PROVE  ResolverInv' /\ doubt'
<1>1. PICK cwd : Keeps(cwd)
  BY DEF ReadFails
<1>2. doubt' = TRUE /\ troubles' = troubles + 1 /\ troubles \in Nat
  BY DEF ReadFails, Trouble, ResolverInv
<1>3. /\ UNCHANGED <<agent, file, index>> /\ Answers(cwd)
      /\ cache' = [path |-> call.path, size |-> call.size, stamp |-> call.stamp, cwd |-> cwd]
  BY <1>1 DEF Keeps
<1>4. EntryOK' /\ EntryFollows'
  BY <1>2, <1>3 DEF ResolverInv, CallOK, EntryOK, EntryFollows
<1>5. doubt' \in BOOLEAN /\ index' \in {index, None} /\ troubles' \in Nat /\ troubles' >= troubles
  BY <1>2, <1>3
<1> QED
  BY <1>2, <1>3, <1>4, <1>5, AfterAnswer DEF ResolverInv

\* What a step may do to a call.
AnswersRight == call.at # "idle" /\ call'.at = "idle" /\ ~ doubt' => answer' \in Right

\* Every step keeps what the resolver knows, and ends a call with a right answer.
LEMMA ResolverStep == ResolverInv /\ [ResolverNext]_resolverVars => ResolverInv' /\ AnswersRight
<1> SUFFICES ASSUME ResolverInv, [ResolverNext]_resolverVars
             PROVE  ResolverInv' /\ AnswersRight
  OBVIOUS
<1>1. ASSUME NEW rec \in Records, Begins(rec)
      PROVE  ResolverInv' /\ AnswersRight
  BY <1>1, BeginsKeeps DEF AnswersRight, Begins, Writes, Changes, resolver
<1>2. ASSUME NEW rec \in Records, Replaces(rec)
      PROVE  ResolverInv' /\ AnswersRight
  BY <1>2, ReplacesKeeps DEF AnswersRight, Replaces, Writes, Changes, resolver
<1>3. CASE Finishes
  BY <1>3, FinishesKeeps DEF AnswersRight, Finishes, Writes, Changes, resolver
<1>4. CASE Moves
  BY <1>4, MovesKeeps DEF AnswersRight, Moves, Changes, resolver
<1>5. CASE Find
  BY <1>5, FindKeeps DEF AnswersRight, Find
<1>6. CASE StatFails
  BY <1>6, StatFailsKeeps DEF AnswersRight
<1>7. CASE Cached
  BY <1>7, CachedKeeps DEF AnswersRight
<1>8. CASE Stat
  BY <1>8, StatKeeps DEF AnswersRight
<1>9. CASE ReadCodex
  BY <1>9, ReadCodexKeeps DEF AnswersRight
<1>10. CASE ReadClaude
  BY <1>10, ReadClaudeKeeps DEF AnswersRight
<1>11. CASE ReadFails
  BY <1>11, ReadFailsKeeps DEF AnswersRight
<1>12. CASE FindFails
  BY <1>12, FindFailsKeeps DEF AnswersRight
<1>13. CASE UNCHANGED resolverVars
  <2>1. UNCHANGED <<agent, file, troubles, index, cache, call, answer, truths, doubt>>
    BY <1>13 DEF resolverVars, session, resolver
  <2>2. CallOK' /\ EntryOK' /\ InPlace' /\ EntryFollows'
    BY <2>1 DEF ResolverInv, CallOK, EntryOK, InPlace, EntryFollows
  <2> QED
    BY <2>1, <2>2 DEF ResolverInv, AnswersRight
<1> QED
  BY <1>1, <1>2, <1>3, <1>4, <1>5, <1>6, <1>7, <1>8, <1>9, <1>10, <1>11, <1>12, <1>13
     DEF ResolverNext, Resolves

\* Every answer is a directory that was the session's at some time of the call,
\* unless the entry may have missed one (resolver.go:23-25).
THEOREM AnswersAreCurrent == ResolverSpec => AnswerIsCurrent
<1>1. ResolverInv /\ [ResolverNext]_resolverVars => ResolverInv'
  BY ResolverStep
<1>2. ResolverInv /\ [ResolverNext]_resolverVars =>
        [call.at # "idle" /\ call'.at = "idle" /\ ~ doubt' =>
           answer' \in truths \cup (IF NoFile THEN {None} ELSE {})]_resolverVars
  BY ResolverStep DEF AnswersRight, Right
<1> QED
  BY <1>1, <1>2, ResolverStarts, PTL DEF ResolverSpec, AnswerIsCurrent
=============================================================================

--------------------------- MODULE UploaderProofs ---------------------------
(***************************************************************************)
(* The two loops of the uploader that share no state here: the cycle of    *)
(* flushes (FlushCycle), whose types and absence of retry storms hold for  *)
(* every set of policy intervals and every cap, probe interval and         *)
(* backlog; and the inventory worker (Inventory), whose safety properties  *)
(* hold for any number of changes of consent, failures and restarts.       *)
(***************************************************************************)
EXTENDS FlushCycle, Inventory, TLAPS
-----------------------------------------------------------------------------
\* How many sends a cycle may have failed when it reaches a phase.
FailedBy == [p \in {"start", "wait", "beat"} \cup Queues |->
  CASE p \in {"start", "beat", "events"} -> 0
    [] p = "metrics"                     -> 1
    [] p = "sessions"                    -> 2
    [] OTHER                             -> 3]

\* The inductive invariant: the flushes of a cycle come in order, so that the
\* failures are bounded by the queues already left behind, and the timer was
\* reset from the mode, backoff and interval still in force.
CycleInv ==
  /\ CycleTypeOK
  /\ failures \in 0 .. FailedBy[phase]
  /\ phase = "wait" => delay = CycleDelay(mode, backoff, base)

\* widenBackoff never exceeds maxBackoff (uploader.go:525-536).
LEMMA WidenedBound ==
  ASSUME CycleTypeOK
  PROVE  Widened \in 0 .. MaxBackoff
BY CycleAssumption DEF CycleTypeOK, Widened

\* The timer is reset to a delay of its type (uploader.go:170-188).
LEMMA DelayType ==
  ASSUME NEW m \in {"active", "degraded"}, NEW b \in 0 .. MaxBackoff, NEW i \in Intervals
  PROVE  CycleDelay(m, b, i) \in {Probe} \cup Intervals \cup 0 .. MaxBackoff
BY CycleAssumption DEF CycleDelay, Larger

\* Run starts with no backoff and no failed send (uploader.go:127-134).
LEMMA CycleInvInit == CycleInit => CycleInv
BY CycleAssumption DEF CycleInit, CycleInv, CycleTypeOK, FailedBy, Queues

\* Every step of the cycle, and of what surrounds it, keeps the invariant.
LEMMA CycleInvStep == CycleInv /\ [CycleNext]_cycleVars => CycleInv'
<1> SUFFICES ASSUME CycleInv, [CycleNext]_cycleVars PROVE CycleInv'
  OBVIOUS
<1> USE CycleAssumption DEF CycleInv, CycleTypeOK, FailedBy, Queues, environment
<1>1. CASE Timer
  BY <1>1 DEF Timer
<1>2. CASE HeartbeatOk
  BY <1>2, DelayType DEF HeartbeatOk, Beating, AfterBeat, Enter
<1>3. CASE HeartbeatUnauthorized
  BY <1>3, DelayType DEF HeartbeatUnauthorized, AuthError, Beating, AfterBeat, Enter
<1>4. CASE HeartbeatLost
  BY <1>4, DelayType DEF HeartbeatLost, Beating, AfterBeat, Enter
<1>5. ASSUME NEW q \in Queues, Flush(q) PROVE CycleInv'
  <2>1. CASE FlushSkipped(q)
    BY <2>1, DelayType DEF FlushSkipped, After, Enter
  <2>2. CASE FlushEmpty(q)
    BY <2>2, DelayType DEF FlushEmpty, After, Enter
  <2>3. CASE SendOk(q)
    BY <2>3 DEF SendOk
  <2>4. CASE SendDeferred(q)
    BY <2>4, DelayType, WidenedBound DEF SendDeferred, Deferred, After, Enter
  <2>5. CASE SendUnauthorized(q)
    BY <2>5, DelayType DEF SendUnauthorized, AuthError, After, Enter
  <2>6. CASE LeaseFails(q)
    BY <2>6, DelayType DEF LeaseFails, After, Enter
  <2>7. QED
    BY <1>5, <2>1, <2>2, <2>3, <2>4, <2>5, <2>6 DEF Flush
<1>6. CASE Arrive
  BY <1>6 DEF Arrive
<1>7. CASE NetworkChanges
  BY <1>7 DEF NetworkChanges
<1>8. CASE KeyChanges
  BY <1>8 DEF KeyChanges
<1>9. CASE UNCHANGED cycleVars
  BY <1>9 DEF cycleVars, CycleDelay, Larger
<1>10. QED
  BY <1>1, <1>2, <1>3, <1>4, <1>5, <1>6, <1>7, <1>8, <1>9 DEF CycleNext, Cycle

\* The uploader's state keeps its types: in particular the backoff never
\* exceeds its cap, whatever interval the policy sets.
THEOREM FlushTypeCorrect == CycleSpec => []CycleTypeOK
<1>1. CycleInv => CycleTypeOK
  BY DEF CycleInv
<1>2. QED
  BY <1>1, CycleInvInit, CycleInvStep, PTL DEF CycleSpec

\* No retry storm: at most one failed send per queue and cycle, and the next
\* cycle no sooner than the policy's interval or the probe's.
THEOREM NoRetryStorm == CycleSpec => []NoStorm
<1>1. CycleInv => NoStorm
  BY CycleAssumption
  DEF CycleInv, CycleTypeOK, FailedBy, Queues, NoStorm, CycleDelay, Larger
<1>2. QED
  BY <1>1, CycleInvInit, CycleInvStep, PTL DEF CycleSpec
-----------------------------------------------------------------------------
\* Steps at which the context of the sync is what a heartbeat would cancel.
Cancellable == Syncing \cup {"sent", "failed", "erred", "finish"}

\* The inductive invariant.  A sync whose context is live is one that consent
\* has lasted for since it began, because inventoryCancel is its cancel
\* function for as long.  inventoryRunning stands for a token in the channel
\* or on its way there, or for a sync not yet cancelled.  And a status is
\* written against a withdrawn consent only before the heartbeat that brought
\* the news writes its own, since that one waits for storeMu.
InventoryInv ==
  /\ storeMu <=> worker = "write"
  /\ worker \in Cancellable /\ live => enabled /\ cancel
  /\ running => enabled
  /\ running =>
       \/ trigger \/ (beat # "idle" /\ wants)
       \/ worker = "taken" \/ (worker \in Cancellable /\ live)
  /\ worker = "write" /\ ~enabled => beat = "save"

\* What the config file is, for the last theorem.
HasStatus == DOMAIN file = {"enabled", "status"}

\* New starts with nothing scheduled (uploader.go:106-119).
LEMMA InventoryInit == Init => InventoryInv
BY DEF Init, InventoryInv, Cancellable, Syncing

\* The uploader's critical sections keep the invariant (uploader.go:380-403).
LEMMA UploaderStep == InventoryInv /\ Uploader => InventoryInv'
<1> SUFFICES ASSUME InventoryInv, Uploader PROVE InventoryInv'
  OBVIOUS
<1> USE DEF InventoryInv, Cancellable, Syncing, schedule, sync, bounds
<1>1. CASE Beat /\ consent
  BY <1>1 DEF Beat, Schedule
<1>2. CASE Beat /\ ~consent
  BY <1>2 DEF Beat, Unschedule, Cancelled
<1>3. CASE BeatSave
  BY <1>3 DEF BeatSave
<1>4. CASE BeatTrigger
  BY <1>4 DEF BeatTrigger
<1>5. QED
  BY <1>1, <1>2, <1>3, <1>4 DEF Uploader

\* So does every step of the worker (inventory.go:41-104).
LEMMA SyncStep == InventoryInv /\ Sync => InventoryInv'
<1> SUFFICES ASSUME InventoryInv, Sync PROVE InventoryInv'
  OBVIOUS
<1> USE DEF InventoryInv, Cancellable, Syncing, schedule, sync, bounds
<1>1. CASE Take
  BY <1>1 DEF Take
<1>2. CASE Begin
  BY <1>2 DEF Begin
<1>3. CASE Mark
  BY <1>3 DEF Mark
<1>4. CASE Discover
  BY <1>4 DEF Discover, WorkerTo, WorkerFails, Worker
<1>5. CASE Check
  BY <1>5 DEF Check, WorkerTo, Worker
<1>6. CASE Send
  BY <1>6 DEF Send, WorkerTo, Worker
<1>7. CASE Answer
  BY <1>7 DEF Answer, WorkerTo, WorkerFails, Worker
<1>8. CASE Conclude
  BY <1>8 DEF Conclude, WorkerTo, Reports, Worker
<1>9. CASE Finish
  BY <1>9 DEF Finish
<1>10. CASE Write
  BY <1>10 DEF Write
<1>11. QED
  BY <1>1, <1>2, <1>3, <1>4, <1>5, <1>6, <1>7, <1>8, <1>9, <1>10 DEF Sync

\* Every step keeps the invariant: consent may change at the backend at any
\* time, an interval end, and the process be started again.
LEMMA InventoryStep == InventoryInv /\ [Next]_vars => InventoryInv'
<1> SUFFICES ASSUME InventoryInv, [Next]_vars PROVE InventoryInv'
  OBVIOUS
<1>1. CASE Uploader
  BY <1>1, UploaderStep
<1>2. CASE Sync
  BY <1>2, SyncStep
<1> USE DEF InventoryInv, Cancellable, Syncing, schedule, sync, bounds
<1>3. CASE ConsentChanges
  BY <1>3 DEF ConsentChanges
<1>4. CASE IntervalPasses
  BY <1>4 DEF IntervalPasses
<1>5. CASE Crash
  BY <1>5 DEF Crash
<1>6. CASE UNCHANGED vars
  BY <1>6 DEF vars
<1>7. QED
  BY <1>1, <1>2, <1>3, <1>4, <1>5, <1>6 DEF Next

\* The invariant holds in every state of every behaviour.
LEMMA InventorySafe == Spec => []InventoryInv
BY InventoryInit, InventoryStep, PTL DEF Spec

\* The config keeps its fields (config.go:274-290).
LEMMA FileHasStatus == Spec => []HasStatus
<1>1. Init => HasStatus
  BY DEF Init, HasStatus
<1>2. HasStatus /\ [Next]_vars => HasStatus'
  <2> SUFFICES ASSUME HasStatus, [Next]_vars PROVE HasStatus'
    OBVIOUS
  <2>1. CASE UNCHANGED file
    BY <2>1 DEF HasStatus
  <2>2. CASE BeatSave \/ Mark \/ Write
    BY <2>2 DEF HasStatus, BeatSave, Mark, Write
  <2>3. QED
    BY <2>1, <2>2 DEF Next, vars, Uploader, Beat, BeatTrigger, Sync, Take, Begin, Discover,
         Check, Send, Answer, Conclude, Finish, WorkerTo, WorkerFails, Worker, Reports,
         ConsentChanges, IntervalPasses, Crash
<1>3. QED
  BY <1>1, <1>2, PTL DEF Spec

\* inventoryRunning is never left set with nobody to do the work.
THEOREM NeverStuck == Spec => []RunningIsWorkedOn
<1>1. InventoryInv => RunningIsWorkedOn
  BY DEF InventoryInv, RunningIsWorkedOn, Cancellable, Syncing
<1>2. QED
  BY <1>1, InventorySafe, PTL

\* No snapshot is sent once a heartbeat has withdrawn consent, for the sync
\* it could belong to has been cancelled.
THEOREM ConsentIsRespected == Spec => SentOnlyWithConsent
<1>1. InventoryInv /\ [Next]_vars =>
        [worker = "send" /\ worker' = "sending" => enabled]_vars
  <2> SUFFICES ASSUME InventoryInv, Next, worker = "send", worker' = "sending"
               PROVE  enabled
    BY DEF vars
  <2>1. CASE Uploader
    BY <2>1 DEF Uploader, Beat, BeatSave, BeatTrigger, sync
  <2>2. CASE Sync
    <3>1. Send
      BY <2>2 DEF Sync, Take, Begin, Mark, Discover, Check, Answer, Conclude, Finish,
                  Write, WorkerTo, WorkerFails, Worker, Reports
    <3>2. live
      BY <3>1 DEF Send, WorkerTo, Worker
    <3>3. QED
      BY <3>2 DEF InventoryInv, Cancellable, Syncing
  <2>3. CASE ConsentChanges \/ IntervalPasses \/ Crash
    BY <2>3 DEF ConsentChanges, IntervalPasses, Crash, sync
  <2>4. QED
    BY <2>1, <2>2, <2>3 DEF Next
<1>2. QED
  BY <1>1, InventorySafe, PTL DEF Spec, SentOnlyWithConsent

\* A "disabled" that a heartbeat has written is not overwritten by the end of
\* a sync.
THEOREM DisabledStays == Spec => DisabledIsNotOverwritten
<1>1. InventoryInv /\ HasStatus /\ [Next]_vars =>
        [~enabled /\ beat # "save" /\ file.status = "disabled"
         => file'.status \in {"disabled", "pending"}]_vars
  <2> SUFFICES ASSUME InventoryInv, HasStatus, Next,
                      ~enabled, beat # "save", file.status = "disabled"
               PROVE  file'.status \in {"disabled", "pending"}
    BY DEF vars
  <2>1. CASE UNCHANGED file
    BY <2>1
  <2>2. CASE Mark
    BY <2>2 DEF Mark, HasStatus
  <2>3. ~BeatSave /\ ~Write
    BY DEF InventoryInv, BeatSave, Write
  <2>4. QED
    BY <2>1, <2>2, <2>3 DEF Next, Uploader, Beat, BeatTrigger, Sync, Take, Begin, Discover,
         Check, Send, Answer, Conclude, Finish, WorkerTo, WorkerFails, Worker, Reports,
         ConsentChanges, IntervalPasses, Crash
<1>2. QED
  BY <1>1, InventorySafe, FileHasStatus, PTL DEF Spec, DisabledIsNotOverwritten

\* The booleans of both goroutines, where they are, and what they write.
Flags ==
  /\ consent \in BOOLEAN /\ enabled \in BOOLEAN
  /\ running \in BOOLEAN /\ cancel \in BOOLEAN /\ due \in BOOLEAN
  /\ trigger \in BOOLEAN /\ storeMu \in BOOLEAN /\ wants \in BOOLEAN /\ live \in BOOLEAN

Control ==
  /\ beat \in {"idle", "save", "trigger"}
  /\ worker \in {"idle", "taken"} \cup Syncing \cup Ending
  /\ result \in {"", "current", "error"}

Written ==
  /\ file \in [enabled : BOOLEAN, status : Statuses]
  /\ flips \in 0 .. MaxFlips /\ faults \in 0 .. MaxFaults

TypeParts == Flags /\ Control /\ Written

\* What each critical section and each step of the worker assigns, given the
\* types of what it reads (inventory.go:41-104, uploader.go:380-403).
LEMMA FlagsStep == TypeParts /\ [Next]_vars => Flags'
<1> SUFFICES ASSUME TypeParts, [Next]_vars PROVE Flags'
  OBVIOUS
<1> USE DEF TypeParts, Flags, Written, schedule, sync, bounds
<1>1. CASE Beat
  <2>1. CASE consent
    BY <1>1, <2>1 DEF Beat, Schedule
  <2>2. CASE ~consent
    BY <1>1, <2>2 DEF Beat, Unschedule, Cancelled
  <2>3. QED
    BY <2>1, <2>2
<1>2. CASE BeatSave \/ BeatTrigger
  BY <1>2 DEF BeatSave, BeatTrigger
<1>3. CASE Take \/ Begin
  BY <1>3 DEF Take, Begin
<1>4. CASE Finish \/ Write
  BY <1>4 DEF Finish, Write
<1>5. CASE Mark \/ Discover \/ Check \/ Send \/ Answer \/ Conclude
  BY <1>5 DEF Mark, Discover, Check, Send, Answer, Conclude, WorkerTo, WorkerFails,
              Reports, Worker
<1>6. CASE ConsentChanges \/ IntervalPasses \/ Crash
  BY <1>6 DEF ConsentChanges, IntervalPasses, Crash
<1>7. CASE UNCHANGED vars
  BY <1>7 DEF vars
<1>8. QED
  BY <1>1, <1>2, <1>3, <1>4, <1>5, <1>6, <1>7 DEF Next, Uploader, Sync

\* Where the uploader and the worker go next, and the status to report.
LEMMA ControlStep == TypeParts /\ [Next]_vars => Control'
<1> SUFFICES ASSUME TypeParts, [Next]_vars PROVE Control'
  OBVIOUS
<1> USE DEF TypeParts, Control, Syncing, Ending, schedule, sync, bounds
<1>1. CASE Uploader
  BY <1>1 DEF Uploader, Beat, BeatSave, BeatTrigger
<1>2. CASE Sync
  BY <1>2 DEF Sync, Take, Begin, Mark, Discover, Check, Send, Answer, Conclude, Finish,
              Write, WorkerTo, WorkerFails, Reports, Worker
<1>3. CASE ConsentChanges \/ IntervalPasses \/ Crash \/ UNCHANGED vars
  BY <1>3 DEF ConsentChanges, IntervalPasses, Crash, vars
<1>4. QED
  BY <1>1, <1>2, <1>3 DEF Next

\* mutateConfig of either goroutine writes a config (uploader.go:489-510).
LEMMA WrittenStep == TypeParts /\ [Next]_vars => Written'
<1> SUFFICES ASSUME TypeParts, [Next]_vars PROVE Written'
  OBVIOUS
<1>1. /\ file' = file
      \/ BeatSave \/ Mark \/ Write
  BY DEF Next, vars, Uploader, Beat, BeatTrigger, Sync, Take, Begin, Discover,
         Check, Send, Answer, Conclude, Finish, WorkerTo, WorkerFails, Worker, Reports,
         ConsentChanges, IntervalPasses, Crash
<1>2. file' \in [enabled : BOOLEAN, status : Statuses]
  <2> USE DEF TypeParts, Flags, Control, Written, Statuses
  <2>1. CASE BeatSave
    <3>1. CASE file' = file
      BY <3>1
    <3>2. CASE file' = [enabled |-> enabled,
                        status |-> IF enabled THEN file.status ELSE "disabled"]
      <4>1. ASSUME NEW e \in BOOLEAN, NEW s \in Statuses,
                   file' = [enabled |-> e, status |-> s]
            PROVE  file' \in [enabled : BOOLEAN, status : Statuses]
        BY <4>1
      <4>2. enabled \in BOOLEAN
        OBVIOUS
      <4>3. (IF enabled THEN file.status ELSE "disabled") \in Statuses
        BY <4>2
      <4> HIDE DEF Statuses
      <4>4. QED
        BY <3>2, <4>1, <4>2, <4>3
    <3>3. QED
      BY <2>1, <3>1, <3>2 DEF BeatSave
  <2>2. CASE Mark
    BY <2>2 DEF Mark
  <2>3. CASE Write
    BY <2>3 DEF Write
  <2>4. QED
    BY <1>1, <2>1, <2>2, <2>3
<1>3. /\ flips' = flips \/ (flips < MaxFlips /\ flips' = flips + 1)
      /\ faults' = faults \/ Fault
  BY DEF Next, vars, Uploader, Beat, BeatSave, BeatTrigger, Sync, Take, Begin, Mark, Discover,
         Check, Send, Answer, Conclude, Finish, Write, WorkerTo, WorkerFails, Worker, Reports,
         ConsentChanges, IntervalPasses, Crash, bounds
<1>4. QED
  BY <1>2, <1>3, ConstantsAssumption DEF TypeParts, Written, Fault

\* Every variable keeps its type, and storeMu is held just while the last write
\* of a sync is made (inventory.go:83-104).
THEOREM InventoryTypeCorrect == Spec => []TypeOK
<1>1. Init => TypeParts
  <2> SUFFICES ASSUME Init PROVE TypeParts
    OBVIOUS
  <2>1. Flags /\ Control
    BY DEF Init, Flags, Control
  <2>2. flips \in 0 .. MaxFlips /\ faults \in 0 .. MaxFaults
    <3>1. flips = 0 /\ faults = 0
      BY DEF Init
    <3>2. QED
      BY <3>1, ConstantsAssumption
  <2>3. file \in [enabled : BOOLEAN, status : Statuses]
    <3>1. ASSUME NEW e \in BOOLEAN, file = [enabled |-> e, status |-> ""]
          PROVE  file \in [enabled : BOOLEAN, status : Statuses]
      BY <3>1 DEF Statuses
    <3>2. enabled \in BOOLEAN /\ file = [enabled |-> enabled, status |-> ""]
      BY DEF Init
    <3>3. QED
      BY <3>1, <3>2
  <2>4. QED
    BY <2>1, <2>2, <2>3 DEF TypeParts, Written
<1>2. TypeParts /\ [Next]_vars => TypeParts'
  BY FlagsStep, ControlStep, WrittenStep DEF TypeParts
<1>3. TypeParts /\ InventoryInv => TypeOK
  BY DEF TypeParts, Flags, Control, Written, InventoryInv, TypeOK
<1>4. QED
  BY <1>1, <1>2, <1>3, InventorySafe, PTL DEF Spec
=============================================================================

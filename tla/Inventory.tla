----------------------------- MODULE Inventory -----------------------------
(***************************************************************************)
(* The inventory worker and the uploader beside it: heartbeats bring the   *)
(* owner's consent, schedule a snapshot or cancel the one in progress, and *)
(* both goroutines write what became of it to config.json                  *)
(* (src/internal/uploader/inventory.go, uploader.go).                      *)
(***************************************************************************)
EXTENDS Naturals

CONSTANTS
  MaxFlips,     \* bound: how often consent is given or withdrawn
  MaxFaults     \* bound: failed discoveries, requests and saves, crashes

ASSUME ConstantsAssumption == MaxFlips \in Nat /\ MaxFaults \in Nat

VARIABLES
  consent,    \* the setting at the backend that the next heartbeat reports
  enabled,    \* policy.InventoryEnabled
  running,    \* inventoryRunning
  cancel,     \* is inventoryCancel the cancel function of this sync?
  due,        \* has inventoryNextAttempt passed?
  trigger,    \* is there a token in inventoryTrigger?
  storeMu,    \* does finishInventory hold storeMu?
  beat,       \* where the uploader is in onHeartbeatOK
  wants,      \* its triggerInventory
  worker,     \* where the worker is in syncInventory
  result,     \* the status it is about to report
  live,       \* is the context of this sync not cancelled?
  file,       \* Policy.InventoryEnabled and InventoryStatus in config.json
  flips, faults

schedule == <<running, cancel, due>>
sync == <<worker, result, live>>
bounds == <<flips, faults>>
vars == <<consent, enabled, schedule, trigger, storeMu, beat, wants, sync, file, bounds>>
-----------------------------------------------------------------------------
Statuses == {"", "disabled", "pending", "current", "error"}

\* Steps of syncInventory: those of buildAndSendInventory, and its ends.
Syncing == {"mark", "discover", "check", "send", "sending"}
Ending  == {"sent", "failed", "erred", "finish", "write"}

Fault == faults < MaxFaults /\ faults' = faults + 1

\* New: the policy is the saved one, and a recent snapshot is not repeated.
Init ==
  /\ consent \in BOOLEAN /\ enabled \in BOOLEAN
  /\ running = FALSE /\ cancel = FALSE /\ due = TRUE
  /\ trigger = FALSE /\ storeMu = FALSE
  /\ beat = "idle" /\ wants = FALSE
  /\ worker = "idle" /\ result = "" /\ live = FALSE
  /\ file = [enabled |-> enabled, status |-> ""]
  /\ flips = 0 /\ faults = 0

ConsentChanges ==
  /\ flips < MaxFlips /\ flips' = flips + 1
  /\ consent' = ~consent
  /\ UNCHANGED <<enabled, schedule, trigger, storeMu, beat, wants, sync, file, faults>>

\* The refresh or retry interval is over.
IntervalPasses ==
  /\ ~due /\ due' = TRUE
  /\ UNCHANGED <<consent, enabled, running, cancel, trigger, storeMu, beat, wants, sync,
                 file, bounds>>
-----------------------------------------------------------------------------
\* Mutant: a snapshot in progress goes on.
Cancelled_GoesOn == UNCHANGED live

\* inventoryCancel(), if there is one.
Cancelled == live' = (live /\ ~cancel)

\* scheduleInventoryLocked, when consent has been withdrawn ...
Unschedule ==
  /\ Cancelled
  /\ cancel' = FALSE /\ running' = FALSE /\ due' = TRUE
  /\ wants' = FALSE

\* ... and when it is given.
Schedule ==
  /\ wants' = (~running /\ due)
  /\ running' = (running \/ wants')
  /\ UNCHANGED <<cancel, due, live>>

\* A heartbeat is answered: the policy is swapped in and applied under u.mu.
Beat ==
  /\ beat = "idle" /\ beat' = "save"
  /\ enabled' = consent
  /\ IF consent THEN Schedule ELSE Unschedule
  /\ UNCHANGED <<consent, trigger, storeMu, worker, result, file, bounds>>

\* Mutant: the status is written only when the saved policy changes.
BeatSave_OnChange ==
  /\ beat = "save" /\ beat' = "trigger"
  /\ ~storeMu
  /\ \/ /\ file' = [enabled |-> enabled,
                    status |-> IF enabled \/ ~file.enabled THEN file.status ELSE "disabled"]
        /\ faults' = faults
     \/ Fault /\ file' = file
  /\ UNCHANGED <<consent, enabled, schedule, trigger, storeMu, wants, sync, flips>>

\* mutateConfig of onHeartbeatOK.
BeatSave ==
  /\ beat = "save" /\ beat' = "trigger"
  /\ ~storeMu
  /\ \/ /\ file' = [enabled |-> enabled,
                    status |-> IF enabled THEN file.status ELSE "disabled"]
        /\ faults' = faults
     \/ Fault /\ file' = file
  /\ UNCHANGED <<consent, enabled, schedule, trigger, storeMu, wants, sync, flips>>

\* Mutant: only an idle worker is triggered.
BeatTrigger_IfIdle ==
  /\ beat = "trigger" /\ beat' = "idle"
  /\ trigger' = (trigger \/ (wants /\ worker = "idle"))
  /\ UNCHANGED <<consent, enabled, schedule, storeMu, wants, sync, file, bounds>>

\* The channel holds one token; another is dropped.
BeatTrigger ==
  /\ beat = "trigger" /\ beat' = "idle"
  /\ trigger' = (trigger \/ wants)
  /\ UNCHANGED <<consent, enabled, schedule, storeMu, wants, sync, file, bounds>>
-----------------------------------------------------------------------------
Take ==
  /\ worker = "idle" /\ trigger
  /\ trigger' = FALSE /\ worker' = "taken"
  /\ UNCHANGED <<consent, enabled, schedule, storeMu, beat, wants, result, live, file, bounds>>

\* The first critical section of syncInventory.
Begin ==
  /\ worker = "taken"
  /\ IF enabled
       THEN worker' = "mark" /\ cancel' = TRUE /\ live' = TRUE /\ running' = running
       ELSE worker' = "idle" /\ running' = FALSE /\ UNCHANGED <<cancel, live>>
  /\ UNCHANGED <<consent, enabled, due, trigger, storeMu, beat, wants, result, file, bounds>>

\* mutateConfig: whether inventory is still enabled is not looked at.
Mark ==
  /\ worker = "mark" /\ worker' = "discover"
  /\ ~storeMu
  /\ \/ /\ file' = [file EXCEPT !.status = IF @ = "current" THEN @ ELSE "pending"]
        /\ faults' = faults
     \/ Fault /\ file' = file
  /\ UNCHANGED <<consent, enabled, schedule, trigger, storeMu, beat, wants, result, live,
                 flips>>

\* The worker goes on, or to its last critical section with a status.
Worker(from, to) ==
  /\ worker = from /\ worker' = to
  /\ UNCHANGED <<consent, enabled, schedule, trigger, storeMu, beat, wants, live, file, flips>>

WorkerTo(from, to) == Worker(from, to) /\ result' = result /\ faults' = faults
WorkerFails(from) ==
  /\ Worker(from, "failed") /\ result' = result
  /\ IF live THEN Fault ELSE faults' = faults
Reports(from, status) == Worker(from, "finish") /\ result' = status /\ faults' = faults

\* discoverInventory fails when its context is cancelled, or by itself.
Discover == WorkerTo("discover", "check") \/ WorkerFails("discover")

Check == WorkerTo("check", IF enabled THEN "send" ELSE "failed")

\* SendInventory starts no request on a cancelled context ...
Send == WorkerTo("send", IF live THEN "sending" ELSE "failed")

\* ... and one that is cancelled later may still have been answered.
Answer == WorkerTo("sending", "sent") \/ WorkerFails("sending")

\* What syncInventory makes of it: two looks at consent, one at the context.
Conclude ==
  \/ IF enabled THEN Reports("sent", "current") ELSE WorkerTo("sent", "failed")
  \/ WorkerTo("failed", IF live THEN "erred" ELSE "idle")
  \/ IF enabled THEN Reports("erred", "error") ELSE WorkerTo("erred", "idle")

\* Mutant: the file is written without the lock.
Finish_Unlocked ==
  /\ worker = "finish"
  /\ ~storeMu
  /\ running' = FALSE /\ cancel' = FALSE
  /\ due' = (due /\ ~enabled)
  /\ storeMu' = FALSE
  /\ worker' = IF enabled THEN "write" ELSE "idle"
  /\ UNCHANGED <<consent, enabled, trigger, beat, wants, result, live, file, bounds>>

\* finishInventory takes storeMu, then u.mu for a last look at consent, and
\* keeps storeMu until the file is written.
Finish ==
  /\ worker = "finish"
  /\ ~storeMu
  /\ running' = FALSE /\ cancel' = FALSE
  /\ due' = (due /\ ~enabled)
  /\ storeMu' = enabled
  /\ worker' = IF enabled THEN "write" ELSE "idle"
  /\ UNCHANGED <<consent, enabled, trigger, beat, wants, result, live, file, bounds>>

\* Mutant: storeMu is not given back.
Write_KeepsLock ==
  /\ worker = "write" /\ worker' = "idle" /\ result' = ""
  /\ storeMu' = storeMu
  /\ \/ file' = [file EXCEPT !.status = result] /\ faults' = faults
     \/ Fault /\ file' = file
  /\ UNCHANGED <<consent, enabled, schedule, trigger, beat, wants, live, flips>>

Write ==
  /\ worker = "write" /\ worker' = "idle" /\ result' = ""
  /\ storeMu' = FALSE
  /\ \/ file' = [file EXCEPT !.status = result] /\ faults' = faults
     \/ Fault /\ file' = file
  /\ UNCHANGED <<consent, enabled, schedule, trigger, beat, wants, live, flips>>

\* The process dies and is started again (New).
Crash ==
  /\ Fault
  /\ enabled' = file.enabled
  /\ running' = FALSE /\ cancel' = FALSE
  /\ due' \in IF file.status = "current" THEN BOOLEAN ELSE {TRUE}
  /\ trigger' = FALSE /\ storeMu' = FALSE
  /\ beat' = "idle" /\ wants' = FALSE
  /\ worker' = "idle" /\ result' = "" /\ live' = FALSE
  /\ UNCHANGED <<consent, file, flips>>

Uploader == Beat \/ BeatSave \/ BeatTrigger
Sync ==
  \/ Take \/ Begin \/ Mark \/ Discover \/ Check \/ Send \/ Answer \/ Conclude
  \/ Finish \/ Write

Next == ConsentChanges \/ IntervalPasses \/ Uploader \/ Sync \/ Crash

\* Both goroutines run on, a heartbeat is answered again and again, and the
\* intervals end.
Spec ==
  /\ Init /\ [][Next]_vars
  /\ WF_vars(Uploader) /\ WF_vars(Sync) /\ WF_vars(IntervalPasses)
-----------------------------------------------------------------------------
(***************************************************************************)
(* Properties.                                                             *)
(***************************************************************************)

\* Every variable has its type, and storeMu is held for the last write alone.
TypeOK ==
  /\ consent \in BOOLEAN /\ enabled \in BOOLEAN
  /\ running \in BOOLEAN /\ cancel \in BOOLEAN /\ due \in BOOLEAN
  /\ trigger \in BOOLEAN /\ storeMu \in BOOLEAN /\ wants \in BOOLEAN /\ live \in BOOLEAN
  /\ beat \in {"idle", "save", "trigger"}
  /\ worker \in {"idle", "taken"} \cup Syncing \cup Ending
  /\ result \in {"", "current", "error"}
  /\ storeMu <=> worker = "write"
  /\ file \in [enabled : BOOLEAN, status : Statuses]
  /\ flips \in 0 .. MaxFlips /\ faults \in 0 .. MaxFaults

\* A snapshot is sent only while the policy allows it, however the heartbeats
\* fall between the looks at it: "applies consent changes immediately"
\* (inventory.go:10).
SentOnlyWithConsent ==
  [][worker = "send" /\ worker' = "sending" => enabled]_vars

\* A sync that ends late does not report over the "disabled" that a heartbeat
\* has written meanwhile (finishInventory holds storeMu for this).
DisabledIsNotOverwritten ==
  [][~enabled /\ beat # "save" /\ file.status = "disabled"
       => file'.status \in {"disabled", "pending"}]_vars

\* inventoryRunning is never left set with nobody about to do the work, which
\* would end the snapshots until the daemon is restarted.
RunningIsWorkedOn ==
  running => trigger \/ (beat # "idle" /\ wants) \/ worker # "idle"

\* With consent given for good, snapshots are sent again and again, whatever
\* has been cancelled, failed or dropped from the channel before.
SnapshotsGoOn == <>[]consent => []<>(worker = "sending")

\* With consent withdrawn for good, the status ends as "disabled".
StatusSettles == <>[]~consent => <>[](file.status = "disabled")
=============================================================================

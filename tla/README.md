# A TLA+ verification of the Burndown collector

`burndown-cli serve` is a desktop daemon that receives OpenTelemetry logs and
metrics from coding agents on a loopback port, reduces them to privacy-safe
events, keeps them in a SQLite file and uploads them to a backend with a
rotating collector key. This directory models its control: what is stored,
leased, sent, acknowledged, evicted, rotated and persisted, in which order, and
what a crash, a lost answer, a failed write or a full cap does to that.

The source is the Go repository of `burndown-cli` at one commit; paths below are
relative to `src/`. Every definition that models code is tied to its lines in
`PROJECT.json` under `map`; the hazards the properties are aimed at are listed
there too.

Contents: 1 inventory, 2 how the parts interact, 3 plan, 4 the modules and the
code they stand for, 5 the runs, 6 fairness, 7 the proofs, 8 disagreements found,
9 abstractions, 10 what is not modelled.

## 1. Inventory

| Component | State it keeps | Operations | Hard behaviour | What makes it correct |
|---|---|---|---|---|
| Event queue (`internal/queue/queue.go`) | rows `pending -> leased -> acked` in `queue.db`, addressed by rowid | Enqueue with eviction, LeaseBatch, Ack, Nack, PruneAcked | receiver, uploader and retention interleave under `q.mu`; crash with rows leased; row and byte caps; failed writes | nothing acked that was not sent; nothing lost but to a cap; leases always come back |
| Metrics queue (`queue/metrics.go`) | the same machine for metric points; `point_id` may be missing on old rows; the file it shares with the two other tables | as above, with the size of the whole file as the cap | keyless rows cannot be deduplicated; one table's growth is another one's eviction; the file never shrinks | a point is counted once; the file stays bounded |
| Session queue (`queue/sessions.go`) | one cumulative row per session with a revision | UpsertSessionEvents, LeaseSessionsBatch, Ack/Nack by id and revision, PruneAckedSessions | an update while an older revision is in flight; eviction and re-creation | the newest revision always reaches the backend |
| Uploader (`internal/uploader`) | Active/Degraded, backoff, policy, key held by the client | Run, runCycle, flushes, heartbeat | 401 codes, outages, restarts | no storm, no silent stop, back to Active after a login |
| Key rotation (`uploader/rotation.go`) | active and pending key in config and keychain | RotateCheckOnce, attemptRotate, verifyPendingKey, commitPendingKey | crash or lost answer between mint, persist, verify and commit; a second process logging in | never without a working key that the backend would accept |
| Inventory worker (`uploader/inventory.go`) | next attempt, running flag, status in config | schedule, sync, finish, cancel | runs beside the uploader on the same client and config | nothing sent without consent, nothing forgotten with it |
| Pipeline (`internal/daemon`, `internal/filter`) | token accumulators per session, last rollup time | handleLogs, handleMetrics, drain, retention | rollups are drained before Enqueue's result is known; crash | every token is counted once |
| API client (`internal/api`) | the key, the gzip latch | doWithRetry, handleResponse | retries of 5xx and network errors | at most four attempts |
| Config and credential store (`internal/config`, `internal/credstore`) | `config.json`, keychain items | Load, Save, migrate, hydrate | two processes write; crash between keychain and file | secrets never lost, never in the file |
| Login and register (`cmd/burndown-cli/login.go`) | none of their own | device login, register | races with the daemon through files | the daemon picks a new key up |
| Setup (`cmd/burndown-cli/setup.go`, `internal/setup`) | the receiver token in `config.json`; `settings.json`, `config.toml` and their backups | detect, plan, show, ask, back up, write, restart the service | the user edits a file at the prompt; a kill between two writes; the daemon saves a config without the token; TOML is edited by a line scanner | no agent is refused for its token; nothing the user wrote is lost; a second run does nothing |
| Repository resolver (`internal/codexrepo`) | an index of paths, a cache of answers, under `r.mu` | Resolve, Origin; a session's file is looked for, stated, read from the start or from where the last reading stopped | the file is written, archived or replaced between two calls, or within one | the answer is the directory of the session at some time of the call |
| Serve and service (`internal/platform`) | none of their own | load, record the port, listen; start and stop under launchd | restarts | - |
| Normalizer, doctor, stats | none | pure or read-only | - | - |

## 2. How the parts interact

```
agents --OTLP--> receiver -> normalize -> filter -> queue.db -> uploader --HTTPS--> backend
                 (a goroutine             (buckets)  queue       (one     inventory worker --+
                  per request)                       metrics_q.   goroutine)
                                                     sessions_q.
   burndown-cli login / register / setup --> config.json + keychain <-- uploader, inventory
   burndown-cli setup --> settings.json, config.toml --> agents (endpoint and token)
   agents --session files--> resolver --> repository label on events, in handleLogs
```

- **Receiver and pipeline.** `net/http` serves every request in a goroutine of its
  own. `daemon.handleLogs` filters the batch (`Filter.Apply`, under `f.mu`), folds
  the whole batch into session summaries, looks at the rollup clock (under
  `rollupMu`), perhaps takes the filter's buckets (`Filter.Flush`, under `f.mu`
  again) and enqueues. None of these sections contains another, so requests
  interleave between any two.
- **Queue.** The three tables share a file, a connection and the mutex `q.mu`;
  each operation is a critical section. Uploader, receiver and the retention
  goroutine meet there. A batch is *leased* in one section, sent without any
  lock, and *acked* or *nacked* in another, by row id (events, metrics) or by
  session id and revision (sessions).
- **Uploader.** One goroutine: heartbeat, rotation check, three flushes, wait. It
  holds the collector key in the API client and keeps `config.json` up to date by
  load-change-save. The inventory worker runs beside it on the same client.
- **Config and keychain** are the only channel between `burndown-cli login` and
  the daemon. There is no lock between processes.
- **Receiver token.** `setup` mints it once into `config.json` and writes it into both
  agents' settings; `serve` loads it when it starts; an agent when *it* starts. The receiver
  refuses any other token, so three files and two running programs have to agree, while the
  daemon's own saves write back the whole config they loaded.
- **Resolver.** `handleLogs` asks it for the working directory of an event's session. It
  reads files that the agents own and write, without any lock but its own.
- **Shutdown** is ordered (`daemon.drain`): receiver, uploader loop, last rollups,
  last upload, close. launchd restarts the daemon when it dies.

## 3. Plan

The order follows what a user loses when it goes wrong: events, session totals,
the key, progress in an outage, token counts; then the files two processes share.

| # | Module | What it is for | State |
|---|---|---|---|
| 1 | `Delivery` | the abstract promise of the upload pipeline | done |
| 2 | `EventQueue` | events table x uploader x backend; implements `Delivery` | done, safety proved |
| 3 | `SessionQueue` | cumulative rows with revisions, backend keeps newest | done, safety proved |
| 4 | `KeyRotation` | heartbeat, 401s, rotation, config, login in another process | done, safety proved |
| 5 | `FlushCycle` | three flushes, shared backoff, delay | done, safety proved |
| 6 | `Pipeline` | requests, filter, rollups, drain; conservation of tokens | done, safety proved |
| 7 | `CredStore` | keychain beside file: save order, crash in between, hydrate, migrate, two processes | done, safety proved |
| 8 | `Inventory` | schedule, sync, finish, cancel beside the uploader | done, safety proved |
| 9 | `QueueFile` | metric points, and the three tables under one file cap; extends `EventQueue` | done, safety proved |
| 10 | `CodexEdit` | the line editor of `config.toml` against a reading of TOML | done, what an edit makes of a file proved |
| 11 | `Setup` | setup beside daemon, agents and user; extends `CodexEdit` | done, safety proved |
| 12 | `Resolver` | incremental read of a growing session file and its cache | done, safety proved |
| 13 | `Login` | device polling and its deadline (register is in `KeyRotation`) | left |
| 14 | `ApiClient` | retry loop, retry delay and gzip latch as a component of its own | left |

## 4. The modules and the code they stand for

### `EventQueue` (`internal/queue/queue.go`, `internal/uploader/uploader.go`)

| TLA+ | Code |
|---|---|
| `fate[e]` | what became of event `e`: column `state` of its row, or how it came to have none; `lapsed` is `leased` with `leased_until` in the past |
| `rowid[e]` | the row's `id INTEGER PRIMARY KEY`, 0 without a row; a new id is `max(rowid)+1` (`LargestRowid`), since the table has no AUTOINCREMENT |
| `big` | `page_count * page_size > maxBytes`, as `overCap` sees it |
| `pc`, `batch`, `ids` | where `FlushOnce`/`sendBatch` is, and the items and ids it holds |
| `accepted` | what the backend has taken; it deduplicates by event id |
| `Enqueue(S)` | insert transaction and, in the same critical section, `evictIfNeeded`; it may fail after some of its rounds although the rows are in |
| `EnqueueRefused(S)` | the transaction rolled back |
| `Lease`, `SendOk`, `SendFails`, `Ack`, `Nack`, `AckOrNackFails` | `LeaseBatch`, `SendEvents`, `updateByIDs` |
| `LeaseExpires`, `PruneAcked`, `Crash`, `Restart` | time, retention, process |

`SendFails` leaves open whether the backend took the batch: an answer may be lost
after the request was applied. `UpdateByIDs` looks at ids alone, as the SQL does.

Two constants describe the file. `MayOutgrow` says whether the file, which two
more tables fill, may pass its byte cap; `AutoVacuum` whether
`PRAGMA incremental_vacuum` gives pages back. In the code as it is it does not:
`queue.go:142-144` sets `auto_vacuum` after `journal_mode=WAL` has written the
database header, and SQLite then keeps it at 0, so once the file is too large
eviction deletes until the table is empty.

`Delivery` is the abstract specification: an outbox from which items leave only
delivered or given up. `Promise == INSTANCE Delivery WITH ...` maps the rows that
are outstanding, or in flight, and not yet accepted to the outbox.

### `SessionQueue` (`internal/queue/sessions.go`, `internal/uploader/uploader.go`)

A row is a record of revision, `updated_at`, state, and the interval of the
session's upserts its summary holds (`from` to `to`): that is all the properties
need of token sums. `Merged(s)` is `upsertSessionGroup` with
`setSessionUpdatedAt`; `Surplus` the eviction; `Current(I)` the
`WHERE session_id=? AND revision=?` of `finishSessions`. Rows are marked one
statement at a time, so `LeaseFails` and `FinishFails` stop after some of them.
`sent` keeps every item ever put on the wire and `Arrive` lets any copy of it
reach the backend at any later time, again or late; `remote` is what the backend
keeps, replaced by a snapshot with a newer `updated_at` only.

### `KeyRotation` (`internal/uploader/{uploader,rotation}.go`, `cmd/burndown-cli/login.go`)

`life[k]` is the backend's view of each key; `cfg` is `config.json` with its
keychain items as one record. The uploader's `pc` walks through heartbeat, rotation
check, rotate, persist, verify, recover and flush; `why` is the caller of
`handleAuthError` or `RotateCheckOnce`, which decides where it goes on. A refusal carries one of
`RejectCodes(k)`: what a current backend says of the key, or nothing, as a legacy one answers
(`api/client.go:475-486`). `authReason` is the daemon's own reason, `cfg.reason` the file's. Every
`mutateConfig` is two steps: the action computes the file to be written (`copy`)
and `Save` writes it, so that a login (`LoginLoad`, `LoginSave`) may write in
between. `RegisterLoad` is a `register`, which loads before its call and saves what it has loaded. `mislaid` is a ghost: keys whose answer was lost, or which died in memory
before any save. `verified` is a history: the keys which a verification was answered for, or which
were issued to a login. `clash` is a ghost too: a save of one process has overwritten one the
other made after its load. What is then left in the file is the last writer's, and
the properties about the content of the file are claims for the rest of the
behaviours; the liveness properties hold in all of them.

### `CredStore` (`internal/credstore`, `internal/config`, `cmd/burndown-cli/login.go`)

| TLA+ | Code |
|---|---|
| `file` | `config.json`: whether it is marked keychain-backed, and the keys in it |
| `keychain` | the two items |
| `proc[p]` | how far process `p` (the daemon or a command) is in its `Load`, or the `Load` and `Save` of a change, and the `Config` it has in memory |
| `Begin`, `GetActive`, `GetPending`, `DiscardWrite` | `Load`: `FileStore.Load`, `hydrate`, `hydratePending` |
| `Change` | what `mutateConfig`, `persistLogin`, `EnsureReceiverToken` and `persistReceiverPort` do between `Load` and `Save` |
| `SetActive`, `CheckActive`, `SetPending`, `CheckPending`, `FallBack` | `writeSecrets`, `writeVerified` and the plaintext fallback |
| `Scrub`, `WritePlain` | `saveScrubbed`; the inner `Save` |

Each step is one keychain call or one atomic rename, and each can fail. A `Load`
that finds plaintext goes through the same steps as a `Save` (`migrateOnLoad`).
`keys` and `pendings` are ghosts: what a `Load` may return, which is what the last
`Save` that ran alone has stored and what any begun since was asked to store.

### `Inventory` (`internal/uploader/{inventory,uploader}.go`)

Two goroutines. The uploader's steps are the critical section of `onHeartbeatOK`,
its write of the config and its offer to the trigger channel, which holds one
token; the worker's are those of `syncInventory`, with each look at the policy or
at the context a step of its own. `storeMu` is a variable because
`finishInventory` holds it over two steps; `u.mu` is never held over more than one.
`cancel` says whether `inventoryCancel` is the cancel function of the sync whose
context `live` describes.

### `FlushCycle` (`internal/uploader/uploader.go`)

Heartbeat, events, metrics, sessions, wait, with the mode, the backoff the three
flushes share, the policy's interval and the delay the timer is reset to. A queue
is its number of leasable batches. `bad` are queues whose oldest batch the backend
refuses with a 4xx for ever; `netUp` and `keyOk` change at any time.

### `Pipeline` (`internal/daemon`, `internal/filter`)

Each request is a process with the steps of `handleLogs`; the filter's buckets
are the set of events folded into them; `rows[e]` counts in how many queued rows
the tokens of `e` are. `Sessionless` are the events without a session id, which the normalizer lets
through (`normalize.go:72`) and `Upsert` leaves out of the summaries (`sessions.go:80-89`). `drain` is a sequence of phases, with the receiver's
shutdown possibly timing out while requests are still at work. `lost` and `missed` are ghosts: what a
failed write, a crash or a request cut off has kept from the rows, and from the summaries.

### `QueueFile` (`internal/queue/metrics.go`, with `queue.go` and `sessions.go` for the file)

`metrics.go` is the same state machine as `queue.go` over another table, so the module
EXTENDS `EventQueue`: its items are the metric points and its actions are conjoined with
what they do to the rest.

| TLA+ | Code |
|---|---|
| `events`, `sessions` | how many rows the other two tables have |
| `size`, `Grown` | `page_count`: with `auto_vacuum` 0 the most rows there have ever been at once |
| `EnqueueMetrics`, `big` | `EnqueueMetrics` and `overCapMetrics`, which measures the whole file but deletes metric rows |
| `EnqueueEvents`, `Kept` | `Enqueue` and `evictIfNeeded`, likewise for events |
| `UpsertSession` | `UpsertSessions`, whose eviction counts rows only |
| `Legacy`, `Keyless`, `Takes` | rows without `point_id`, `splitMetrics`, and the backend, which counts a key once |
| `SendMetricsFails` | the batch was not taken, or its answer was lost |

### `CodexEdit` and `Setup` (`internal/setup`, `cmd/burndown-cli/{setup,serve}.go`)

`CodexEdit` has no state. `Read` is the reference: what TOML says of a sequence of lines,
which keys are assigned in which table, and whether it is a document at all. `LineDepths`,
`FindTable`, `TableEnd`, `FindKey`, `EnsureTableKey`, `ReplaceOrInsertTableKey`,
`RemoveTable` and `EditCodex` are the functions of `codex.go` with these names, over lines
of eight kinds: those on which a bracket counter and a regular expression may disagree with
the grammar (a header with a comment, `key=value`, a multi-line array or string, an array
element that looks like a header, prose with a bracket). `VerifyCodexEdit` is the check that
precedes every offer. `Regular` says of a file that it has none of the lines on which they do
disagree, `Editable` that TOML's exporter in it is one line or the stale table and no other table:
`replaceOrInsertTableKey` replaces one line (`codex.go:249-263`) and `removeTable` cuts out the table
of exactly the stale path (`codex.go:269-289`).

| TLA+ | Code |
|---|---|
| `config` | `receiver_token` and `receiver_port` of `config.json` |
| `claude` | the env of `settings.json` that depends on them, and whether it is JSON |
| `codex`, `saved` | the lines of `config.toml`, and its backups |
| `run` | where the command is, with its targets, port, token and plan |
| `daemon` | `serve`: started, listening with which token, and a config it holds to save |
| `agents` | the token each agent read when it was started |
| `Begin`, `SaveToken`, `Plan`, `Offers`, `Confirm` | `gatherPlans`, `EnsureReceiverToken`, `buildPlans`, `printPlan`, the prompt |
| `ApplyClaude`, `BackupCodex`, `TruncateCodex`, `WriteCodex`, `Restart` | `applyPlans`: each file's backup and write, `restartCollectorService` |
| `Fails` | a write that fails, or a kill, at any of these |
| `ServeLoad`, `ServeListen`, `TouchLoad`, `TouchSave` | `loadServeConfig`, `persistReceiverPort`, `mutateConfig` |
| `AgentStarts`, `UserEdits`, `DaemonStops` | the environment |

`users` (what the user last left in `config.toml`), `done` (what the last finished setup
configured, until something changes it) and `clash` (a stale config was saved over a newer
token) are ghosts.

### `Resolver` (`internal/codexrepo/resolver.go`)

| TLA+ | Code |
|---|---|
| `file` | the session file: live or archived, its records, whether the last one is half written, its time stamp |
| `index`, `cache` | the path found last; the cached size, time stamp and answer |
| `call` | the call that holds `r.mu`: after `Find` it has a path, after `Stat` a size and a time stamp |
| `Find`, `FindFails` | the lookup or walk; a walk that an error ends before the file, which is ignored |
| `StatFails`, `Cached`, `Stat` | `os.Stat`, of a file that is gone or for an error, and `cacheUnchanged` |
| `ReadCodex` | `readLatestCWD`: the whole file |
| `ReadClaude`, `ResumePoint` | `readLatestClaudeCWD` from `resumePoint` |
| `ReadFails` | the open or the seek fails; the entry is made all the same |
| `Begins`, `Finishes`, `Moves`, `Replaces` | the agent writes a record in one or two writes, archives the file, writes it anew |

Sizes are counted in half records, so that a size can fall within a record. `truths` are the
directories that were right at some time of the call; `doubt` is a ghost that says exactly when
the entry may have missed a directory: a record cut off at the size that was taken, a line too
long for the scanner, a failed read, or a file replaced and grown again unseen.

Definitions with a suffix (`Lease_AcksEarly`, `Persist_AsActive`, ...) under a comment
"Mutant" are plausible wrong versions of the definition that follows them and
belong to no specification. Each property of a passing run is violated when one
of them takes its definition's place; `PROJECT.json` lists which.

## 5. The runs

Run with `tlc -config X.cfg M`. Bounds were enlarged until the behaviours
named here occur and are kept to what finishes in four minutes.

| Run (module) | Question and result | Bounds and why they suffice |
|---|---|---|
| `EventQueue` | Is anything acked that was not sent, lost but to a cap, left leased, or lost for ever? No. `AckedWasAccepted`, `NoStuckLeases`, `QueuedIsKept`, `AckedIsFinal`, refinement of `Delivery`, `EventuallySettled`. | 4 events, cap 2, batches of 2: the table overflows with a batch in flight, with and without acked rows to sacrifice; one crash or failed write at any step (two were tried too). File below its byte cap. |
| `SessionQueue` | Is an acked summary what the backend holds, do late copies or late acks lose an update, does every update arrive? `TypeOK`, `AckedIsStored`, `SnapshotsGrow`, `EventuallyUpToDate` hold. | 2 sessions sharing one row, 2 updates each, 2 ticks (so that updates fall in one second and in two), 2 faults. |
| `KeyRotation` | Is a usable key ever forgotten, a pending key dropped for a transient reason, the shown reason wrong; does a degraded daemon recover, is a pending key always resolved? `TypeOK`, `NewestIsKnown`, `PendingSurvives`, `KeyFollowsPending`, `AuthReasonIsRight`, `DegradedRecovers`, `PendingIsResolved` hold. | 3 keys: a rotation of a rotated or logged-in key; 1 login or register, whose load and save fall anywhere; 1 revocation; every refusal with and without its code; 1 fault. |
| `FlushCycle` | Can the loop storm, or one refused queue starve the others? No: `NoStorm`, `OthersDrain`. | intervals 1 and 4 around a cap of 3: widening both below and above the cap; 2 batches. |
| `Pipeline` | Is every token in exactly one place, do events and sessions reconcile, do rollups leave memory? `Conserved`, `Reconciles`, `RollupsAreTaken` hold. | 2 concurrent requests, 2 noise and 1 kept event, one of the noise without a session; 1 fault, so a timed out shutdown, a failed write or a crash at any step. |
| `CredStore` | Can a key be in neither file nor keychain, or a stale item come back; do the secrets leave the file? `TypeOK`, `SavedIsLoaded` and `SecretsLeaveFile` hold. | 3 keys: one migrated, one rotated, one logged in. The daemon and one command in any interleaving; 1 keychain or file error, lost item or kill (2 were tried too, in three minutes). |
| `CredStore_login` | Does the login that a lost item calls for help? No: a violation. | 1 lost item |
| `Inventory` | Is a snapshot sent without consent, forgotten with it, or the status left wrong? No: `TypeOK`, `SentOnlyWithConsent`, `RunningIsWorkedOn`, `DisabledIsNotOverwritten`, `SnapshotsGoOn`, `StatusSettles`. | 4 changes of consent: withdrawn and given again within one sync, twice; 2 failures or restarts. |
| `QueueFile` | Does the file outgrow its cap for good, and is a metric point counted twice? Not by more than `FileBounded` and `CountedOnce` say. | 3 points, one of them without a key, 3 pages, 1 session row; 3 calls of the other tables, 1 lost answer, 1 failed write or crash: each table is emptied by another one's growth, before, while and after a batch is in flight. |
| `Setup` | Is an agent refused, do config, agents and daemon end up apart, is a user's text lost, a key moved, a correct file refused for more than its exporter, a second run more than a no-op? No: `NoneShutOut`, `AgreeAfterSetup`, `UserTextIsKept`, `EditIsRight`, `SecondRunIsNoop`. | Every TOML file of at most 4 of the 15 hard lines, edited twice: with an exporter of several lines, with a table below the stale one, and with neither. One of them (`Main`) also meets the daemon, agents that start, and 1 trouble: a stale save, an edit at the prompt, a failed write, a kill or a restart. 2 tokens, 2 ports. |
| `Setup_second` | Is the second run a no-op for every file? No: a violation. | the same |
| `Resolver` | Is an answer one that was right during the call, and is the last one right? `AnswerIsCurrent` and `Settles` hold unless `doubt` says why not. | 2 records of 4 kinds, whole or half; 2 moves, replacements, failed walks, stats or reads: archived and back, replaced twice, shorter and longer than the entry. Four time stamps: they are compared with the entry's and the call's alone. |

Deadlock is checked in `KeyRotation`, `FlushCycle`, `Pipeline` and `Inventory`. The
queue modules stop when all of the finite set of events is settled, and `CredStore`
when no key has ever been stored and the command is done, `QueueFile` and `Setup` when
their bounds are used up, `Resolver` when the agent writes no more; hence
`CHECK_DEADLOCK FALSE` there.

Liveness runs use no symmetry and no state constraint; bounds are guards on
counters (`MaxFaults`, `MaxUpdates`, `MaxClock`, `MaxLogins`, `MaxRevokes`,
`MaxArrivals`, `MaxCommands`, `MaxFlips`, `MaxLost`, `MaxCalls`, `MaxLines`, `MaxSetups`,
`MaxTroubles`, `MaxRecords`), each named in its module. A bounded number of faults is what
"eventually" needs: a daemon that crashes for ever delivers nothing. The type invariants
of `EventQueue`, `FlushCycle` and `Pipeline` and the invariant `RowidInv` were
checked in the same runs before they were proved, and are in none now.

## 6. Fairness

- `EventQueue`, `SessionQueue`: weak fairness of the uploader's own steps, of the
  lease clock and of the restart (launchd's KeepAlive). A send ends, by success,
  error or timeout. Strong fairness of `SendOk`: a backend tried for ever answers
  again and again. It excludes a batch that is refused for ever; that such a
  batch blocks its own queue is a hazard of the code, and what it does to the
  others is `FlushCycle`'s question.
- `KeyRotation`: weak fairness of the daemon's loop and of the restart, strong
  fairness of an answered heartbeat and an answered verification, whichever
  way they are answered, where a refusal is answered with a code again and again. Of a legacy
  backend that never gives one nothing is claimed: there the daemon stays degraded, its pending key
  untried, until a login. Nothing is assumed of the login, of keys' ages or of
  the flushes.
- `FlushCycle`: weak fairness of the cycle, strong fairness of each queue's send,
  which says that the database does not fail every lease; refused queues never
  succeed. That the backend stays reachable and accepts the key is the antecedent
  of `OthersDrain`, not an assumption.
- `Pipeline`: weak fairness of serving a request, of the clock and of drain. That
  traffic flows is the antecedent of `RollupsAreTaken`: only a request flushes the
  rollups (`daemon.go:27-29`).
- `CredStore`: a process goes on with the call it has begun, and the daemon loads its
  config in every cycle. Nothing is assumed of the user's commands. The number of
  faults is bounded: a keychain locked for ever leaves the secrets in the file.
- `Inventory`: both goroutines run on, heartbeats are answered again and again, and
  intervals end. That consent is given, or withdrawn, for good is the antecedent of
  the two liveness properties.
- `Resolver`: weak fairness of a call's steps and of the next call: telemetry of the session goes
  on and every call ends. Nothing is assumed of the agent's writes.
- `QueueFile`, `Setup`: safety only.

## 7. The proofs

`tlapm M.tla` checks them; each theorem holds for every value of the constants that
satisfies the `ASSUME` of its module, and `RowCapOnly` where it says so.

**`QueueProofs`, `EventQueue`.** Ack and Nack address rows by rowid alone, and SQLite reuses
the ids above the largest one left. Why an acknowledgement in flight still never
hits another event's row is not local to any operation: `AckedWasAccepted` is not
inductive. The strengthening is `RowidInv`: for each id in flight the table
holds a row with an id at least as large that is not acked, so that no insert
can reach down to it. Eviction keeps that because it deletes acked rows first and
then the *oldest*, so that what survives a round includes the youngest undelivered row;
retention keeps it because it deletes acked rows only; Ack keeps it because it empties the
set of ids. The argument needs that a round leaves at least one row, which is
what `RowCapOnly == ~MayOutgrow /\ EvictChunk <= MaxRows` says (512 against 50,000
in the code), and the assumption is needed: with `MayOutgrow = TRUE` TLC finds `AckedWasAccepted` violated
(section 8).
`SafetyInvariant` is that induction; from it follow `AckedOnlyIfAccepted`,
`RowidsNotReused`, `EnqueueKeepsItsRows` (with
`MaxEnqueue + EvictChunk <= MaxRows + 1`) and `ImplementsDelivery`, in which each
action is a `Take`, a `Deliver` or a stutter. A second induction, `LeaseInvariant`, holds under
every cap: the uploader's ids cover its batch's rows and none of those is acked. It
gives `LeasesAreReleased`, `BatchIsUndisturbed` and `AckedStaysAcked`.

**`QueueProofs`, `QueueFile`.** A step of `FileNext` is one of `EventQueue`'s or leaves its variables
alone, so type correctness and `LeaseInv` carry over (`TypeCorrectStep`, `LeaseStep`); `RowidInv` does
not, since this file outgrows its cap. `FileBounded` bounds the high-water mark, which says
nothing of what the tables hold when the next call comes. `RowsFit` does: the rows of
metrics and events are at most `MaxPages` and what failed evictions left behind (`Leftover`, one batch per
fault), and sessions at most `MaxSessions`; each eviction that ends has brought its own table
below the cap or to nothing. Hence `FileStaysBounded`. `CountFits(p)` is a
budget for a point without a key: when it has been counted it is `Spent`, its row not to be sent
again, until an answer or an ack is lost or the process dies, and that is what pays for the next time.
Hence `PointsAreCountedOnce`.

**`SessionQueueProofs`.** An Ack goes by revision, and the backend keeps what has the newer `updated_at`;
what makes the two agree is that every merge moves `updated_at` forward. `SessionInv`: nothing sent of
a session is newer than its row, and what is as new says the same (`RowIsNewest`); an item of the batch
is at the row's revision only if it says what the row says (`BatchFits`); once the answer is here the backend
has each item of the batch or a newer one (`AckingIsStored`), and it has nothing that was not sent
(`RemoteWasSent`). Together with `AckedIsStored` they are inductive, for sessions that were not evicted, since
after an eviction revision 1 stands for another row (section 8, 4). `FromIsZero` adds that a newer snapshot
holds no less, which gives `SnapshotsOnlyGrow`. The constants need `MaxClock >= 1`: the first upsert is
made at time 1.

**`KeyRotationProofs`.** A save writes what was loaded some steps before, so `KeyInv` says how the
copy differs from the file: it has the file's key or its pending key, and drops the pending one
only for good reason (`SaveFollows`); the key being verified is the pending one (`VerifiesPending`); a key is minted
only when none is pending (`RotatesAlone`), so that a pending key is newer than the key in use
(`PendingIsNewer`) and the newest is in the file or on its way there (`NewestIsHeld`). That the
backend issues keys in order and never revives one (`IssuedInOrder`, `Aged`) is external. Until two
saves overlap (`clash`), a login's copy is the file's (`LoginKeeps`). That a key is in the file only
after a verification with it was answered, or because it was issued to a login, is told from
`verified`, which every copy's key is in: so `OnlyVerifiedKeys` says this of overlapping saves as
well, and only that it is the *pending* key, or the login's, of the others. `FileTellsTheReason`
needs, of every copy, that its reason is the daemon's. Each action has a lemma that says
what it writes; the five theorems follow.

**`CredStoreProofs`.** `CredInv` has one claim for each place a `Load` or `Save` can be at: whatever
a process is going to write, and whatever it takes to be in the keychain already, is something a
`Load` may find (`WritesKnown`); one that runs alone finds what it has set (`AloneFinds`, `AloneIsAlone`). That a
file on the keychain is scrubbed only after both items were read back is what makes
`SavedIsLoaded` inductive: `SecretsAreNeverNowhere`.

**`UploaderProofs`, `FlushCycle`.** `CycleInv`: the failures of a cycle are bounded by
the queues already behind it (`FailedBy`), and in `wait` the delay is `CycleDelay`
of the mode, backoff and interval in force. Hence `NoRetryStorm`.

**`PipelineProofs`.** `PipelineInv`: each event is in one place, the places ordered so
that each excludes the later ones (`OnePlace`); what a request has in hand fits its
step (`HandsFit`); and without a fault drain leaves nothing behind (`DrainedInOrder`).
Hence `TokensAreConserved`, for any number of requests, events and faults.
`SummariesFollow`: the summaries hold what requests have folded of the events that name a session,
but for the batches that are between the filter and the upsert (`Unsummed`) and for those that a fault
has kept from them (`missed`). Hence `SummariesReconcile`.

**`PipelineProofs`, `Resolver`.** An answer is current because of what the entry leaves to be read.
`EntryFollows`: unless it is in `doubt`, Codex's entry has the session's directory as long as the file has its
time stamp; and a reading of Claude's file from the entry's size, with the entry's answer to begin with, comes to that
directory, while no record that states one is cut off at that size (`Follows`). A record more keeps
that (`MoreFollows`: read from there on, or it states nothing), and so does half a record
(`BegunFollows`) and its other half (`FinishedFollows`). `CallOK`: what is right now is among the `truths` of
the call; `InPlace`: only Codex's file may not be where the index has it. The lemmas on sequences
are about the last directory that records state (`LastAt`), its place found as the greatest element of a set
(`GreatestIn`, from `WFMin`). Hence `AnswersAreCurrent`, for files and calls of any length, any number of directories, moves,
replacements and failed reads. `doubt` is what the theorem excepts: what an entry in doubt answers until a later
record, or a reading from the start, settles it, is left open; a call answers none for a file that it
cannot state, or that Codex has moved (`NoFile`).

**`UploaderProofs`, `Inventory`.** `InventoryInv`: a sync whose context is live is one that consent has
lasted for, because `inventoryCancel` is its cancel function for as long
(`ConsentIsRespected`); `inventoryRunning` stands for a token in the channel or on its
way, or for a sync not yet cancelled (`NeverStuck`); and a status is written against a
withdrawn consent only before the heartbeat that brought the news can take
`storeMu` (`DisabledStays`). These need no types; `InventoryTypeCorrect` is a
small induction of its own, over flags, control and what has been written.

**`SetupProofs`.** `UserTextIsKept` is not inductive: when `config.toml` is truncated, what saves
the user's text is a backup made two steps before. `KeptInv` adds `BackedUp`: between
backup and write, what the user last left is among the backups. It stands because a backup
is made of the file as it is then, not of the text the plan was made of. `UserTextSurvives` uses nothing of
how lines are edited, so it holds for every `config.toml`, any number of runs, and wherever each of
them is cut short.

`NoneShutOut` does need to know what an edit computes: an agent must not come by a token that setup
did not put there. `TokenInv` says that config, command, daemon, files and agents have one token
(`OneToken`) until a stale save drops it (`clash`). For `config.toml` it says so of the *lines*: a
line with an exporter's token has that one. `EditKeepsLines` proves of the line editor that the lines of its result
are lines of its input or setup's own, through each of its functions; `ExporterToken` that the token which
TOML reads from a file is on one of its lines. The latter is an induction over the lines. The
library's induction theorems cannot be instantiated here, but well-foundedness can: `WFMin` gives
the least number for which a claim fails, as the least element of a *set* (`LeastOf`,
`UpFromZero`), and `Read` is a recursive function of the number of lines read (`ReadTo`). So
`AgentsAreNeverShutOut` holds for every `config.toml`, including those which the scanner misreads.

**`CodexEditProofs` and `AgreeAfterSetup`.** When setup is done, what it configured has to be what TOML
reads from `config.toml`. It does verify the text it is going to write, but not a file that it would
leave as it is: there it trusts its own scanner, which counts brackets and may be wrong about where a
line stands. So the theorem rests on what the scanner and the grammar have in common.

- *What TOML reads* is found by induction on the lines, through `ReadTo`: a key is never forgotten nor assigned twice
  in a document.
- *What the scanner sees* of a line is its depth, so a function of the editor keeps what is seen
  of the lines before the place it changes (`SameStart`) and behind it.
- An edit has one of four outcomes (`IsSet`, `EditSetsExporter`): the scanner finds the line it has
  put (`Seen`); the line is behind an `[otel]` that the scanner sees, where the depth stays above zero to the end
  (`Closed`), so that TOML either reads it or finds the key twice; the scanner did not find the `[otel]` it had
  just added, and added another (`Twice`), which TOML refuses; or the removal of a stale table took
  what was added with it, and there is no exporter and there are fewer lines (`Lost`), which
  setup's check refuses, and which no file is that an edit leaves alone.
- `Sound` is what keeps this going from one run to the next: a line with a port and a token is
  nowhere but where TOML reads it (`Only`), and the scanner finds it (`Placed`) or it is behind an `[otel]` that the
  scanner sees and behind which it sees nothing (`Blind`). It holds of every file that has no token of its
  own and no `metrics_exporter`, which only setup's files have (`Fresh`; `StartIsSound`), of a verified edit (`EditIsSound`), and of what the user adds (`AdditionIsSound`).
- Hence a sound file that the edit leaves alone has the exporter already (`FixpointHasExporter`).

`AgreeInv` says the rest: the plan's text is the edit of a sound file (`PlanIsRight`), a file that is not
to be written has the exporter (`HasIt`), one that was written has it (`WrittenIsRight`), and config and
daemon hold what the run resolved (`FitsRun`, `FitsDaemon`, `FitsDone`). With `TokenInv` it is
inductive: `SetupAgrees`, for every `config.toml`, the irregular ones included.

**`CodexEditProofs`, `EditIsRight` and `SecondRunIsNoop`.** These say what an edit computes, and for the
files that the scanner reads as TOML does (`Regular`) there is a description of a file on which both readings
depend: which lines open a table (`Heads`), and which key each line assigns in which (`Has`).

- A `Regular` document is `Shaped` (`RegularIsShaped`): at depth 0 there are headers and keys, at depth 1 elements
  of an array. In a shaped file TOML reads exactly what its lines have, and it is a document if nothing is
  there twice (`Once`) and no key is a table too (`Clear`): `ShapedReads`.
- One lemma carries this across every change of the editor: lines put into a file (`Inserted`) leave to
  the others what they have, if they bring no header, or stand where a table begins or the file
  ends (`Apart`; `InsertedReads`). A key that is added, a table that is appended, and, the other way round, a stale
  table that is cut out are all of that form (`InsertAdds`, `AppendAdds`, `CutDrops`); a value that is replaced
  moves nothing (`ReplaceSets`).
- Hence `RegularEdit`: the edit of such a file, if it is `Editable`, is such a file, with the scalars and the
  exporter, without the stale table, and with every other key the user had; so setup's check accepts it (`RegularIsVerified`), and that is
  `EditsAreRight`.
- A regular file with the scalars and the exporter (`Settled`) is left alone (`SettledIsFixed`). A verified text that is
  regular is settled, whatever it was made of (`VerifiedIsSettled`, for which the assumption that `Absent` is not
  a value of setup's own is needed: a key that is missing would read like one that was added). The hard case is
  an exporter of several lines, of which the edit leaves a part: a key that the scanner has found, and setup so
  has not added, could be lost to TOML. But `metrics_exporter`, which setup adds last, is behind that key (`Behind`),
  and stays behind it, or behind the end of a table, when the stale table is cut out (`Ahead`); setup's check has seen it in
  `[otel]`, and then TOML reads the key there too (`AheadIsAssigned`). A file that an edit leaves alone is editable (`FixpointIsEditable`).

`NoopInv` follows this through a run: the text that is going to be written, and the file when nothing is to be
written or it has been, is settled if it is regular (`CodexSettles`), also when the user adds a table while setup asks; and
the env of Claude has both keys, or they are in the plan (`ClaudeSettles`). So a second run finds nothing to
write and nothing to refuse: `SecondRunChangesNothing`. That the hypothesis is needed is the second
finding of section 8.

Model-checked only:

- all liveness (`EventuallySettled`, `EventuallyUpToDate`, `DegradedRecovers`,
  `PendingIsResolved`, `OthersDrain`, `RollupsAreTaken`, `SecretsLeaveFile`, `SnapshotsGoOn`,
  `StatusSettles`, `Settles`), which is out of the prover's reach;
- the three properties of the two runs that end in a violation and of section 8, which are false.

## 8. Where code and text disagree

Two runs end in a violation of something a comment or document says.

1. `CredStore_login`. When the keychain item is gone every `Load` fails and says to run
   `login`; `persistLogin` begins with a `Load` and fails as well, after the key has been
   issued (`login.go:268`, against `credstore.go:265`).
2. `Setup_second`. A bracket in a multi-line string raises the depth of every line after it, so
   that the second run does not find what the first has added, adds it again, and refuses its
   own result (`codex.go:401`, against `cmd/burndown-cli/setup.go:30-32`).

Five more are stated in the modules and have no run of their own. TLC finds each within
seconds when the property is put in the run's cfg in place of the others:

3. `AckedWasAccepted` in `EventQueue` with `MayOutgrow = TRUE`. Once the byte cap has emptied
   the table under a request in flight, the next insert reuses its row ids, and the Ack of that request
   acks an event that was never sent (`queue.go:294`, against `queue.go:454`).
4. `AckedWasSent` in `SessionQueue`. A row evicted in flight and created again is back at revision
   1, so a late Ack of the old revision 1 acks the new summary unsent (`sessions.go:73`,
   against `uploader.go:254-256`). It takes 10,000 other sessions within one request.
5. `NewKeyNotLost` in `KeyRotation`. Between the answer of `RotateKey` and the save of the
   pending key the new key is in memory only (`rotation.go:64`, against the comment above it).
6. `OutageBacksOff` in `FlushCycle`. A flush that finds its queue empty clears the backoff
   the three flushes share, so that an outage backs off only while the last queue has
   something to send (`uploader.go:219`, against `uploader.go:27-28` and `171-172`).
7. `ReasonTellsDegraded` in `KeyRotation`. A 401 without a code, as a legacy backend gives it, degrades
   with the empty reason (`uploader.go:424`, `443-450`), so that the file says what it says of a daemon
   that is not paused and `status` prints no `auth:` line (`status.go:129`), against the comment
   "so status/doctor are accurate" (`uploader.go:443-445`). `AuthReasonIsRight` therefore claims that
   the file has the daemon's reason, not that there is one.

Seen while modelling and not the subject of a run: an event without a session id is queued and
in no summary, so that the two totals of `docs/architecture.md:43-46` differ by such events without
any fault (`sessions.go:80-89`; `Reconciles` sets them aside, as it does what a failed upsert or a
crash has kept from a summary); an exporter of several lines in `[otel]`, and a table below
`[otel.exporter]` other than the stale one, `[otel.exporter.otlp-http.headers]` say, are read
rightly by the scanner and still end in a refusal, since the edit replaces the first line only and cuts
out the one table (`codex.go:249-263`, `269-289`; `EditIsRight` says so of no others); a session resumed after retention
pruned its summary starts from zero, and its newer snapshot replaces the full totals
(`sessions.go:370`, against `docs/architecture.md:43-46`); an active daemon does not
reload the file, so a rotation under way commits over a key that a login has just
saved (`rotation.go:142`); `loadConfig` (`uploader.go:478`) does not take
`storeMu`, and the inventory worker uses the client while `verifyPendingKey` has
swapped its key (`rotation.go:102-105` says that nothing else does).

A `register` that was under way saves the key it has loaded over a rotation committed meanwhile
(`login.go:245`); the properties about the content of the file except such a `clash`, and the
liveness properties say that the daemon gets over it if the backend accepts the key left there.
`setup` keeps an `OTEL_EXPORTER_OTLP_ENDPOINT` that is there (`claude.go:84-104`), so a
later `setup --port` moves Codex and not Claude, against `docs/troubleshooting.md:31-37`. A save
of a config loaded before the token was minted loses the token; the next setup mints another one,
which Claude, whose headers are kept, does not get and is refused (`clash`). Removing the
stale exporter table also removes a table that follows it under a header the regular expression
misses, which is why `EditIsRight` asks for `Regular`. A session file that cannot be opened after it was
stated leaves a cache entry of its full size, so what it held is not read again
(`resolver.go`, `readLatestClaudeCWD`). Metrics and events measure one file and delete
their own rows only (`metrics.go:244`): growth of metrics does not delete events itself, as
`metrics_test.go:119-121` tests, but once it has filled the file the next `Enqueue` of events empties their
table.

## 9. Abstractions

- Payloads, ids, tokens and names are model values or numbers; a session summary is the
  set of upserts it holds.
- A database transaction is atomic; it commits or rolls back. `Enqueue` and its eviction are
  one step because both run under `q.mu`, and every round of an eviction is reachable
  as a place to fail. `UpsertSessionEvents` is likewise one step with its eviction.
- An API call is one step at the time its last attempt ends; attempts that were applied and
  whose answers were lost are in the failing outcome (`EventQueue`), in `Arrive`
  (`SessionQueue`), in `RotateAnswerLost` (`KeyRotation`).
- The wall clock does not go back. A lease may lapse at any time, as it does on a machine
  that slept. Retention is days, so an acked session row is pruned only once its
  `updated_at`, which may run seconds ahead, is in the past.
- `KeyRotation` has file and keychain as one record written at once (`CredStore` is what
  that rests on), and no change of the API base URL; `NewestIsKnown` is stated for behaviours without a login, whose saves may
  rightly forget a rotated key.
- `FlushCycle` reduces a 401 to its two outcomes, degraded or active with a good key;
  `KeyRotation` has what happens in between.
- `CredStore` leaves out the file-only backend (`BURNDOWN_CONFIG_DIR`, other platforms),
  whose `Load` and `Save` are single file operations, and one command runs at a time.
- `Inventory` has one heartbeat outcome, the answered one: the others change nothing it
  models. A graceful stop leaves what a crash at the same step leaves.
- `QueueFile`: a row is a page, whichever table it is in, and free pages are used again; the other
  two tables are counts.
- `Setup`: `config.toml` is a sequence of the lines that matter, without blank ones, comments and spelling; the
  env of `settings.json` is its endpoint and headers, the keys that can disagree. The user's own lines are
  `UserLines`: of setup's keys `exporter` and `environment`, on one line, and the exporter on several; the tables
  `[otel]`, `[tui]`, the stale one and the one below it. Not among them: dotted or quoted keys, an inline
  `otel = {...}`, the table `[otel.exporter]` itself, the other three scalars, and arrays of tables. Of
  those no property says anything. Backups
  are named by the second and are taken not to collide. `os.WriteFile` truncates, then writes
  all. An edit by the user falls before the backup or after the write. The daemon is already
  registered, and a service that is restarted loads the config again. After a token is lost from the
  config by a stale save, `NoneShutOut` claims nothing.
- `Resolver`: one session, of either agent, since sessions share `r.mu` and no entry. A write always changes
  the time stamp and a rename keeps it. A read is one step, after the stat.
- `Pipeline` treats all noise events as token-bearing and keeps the session upsert's
  contents as a set of events.

## 10. Not modelled, and why

- Pure or read-only code: normalizer, metric filter, doctor, status, stats, counters,
  version, inventory discovery.
- The OS side: launchd plists.
- The backend, beyond what the client relies on: it deduplicates events, keeps the newest
  snapshot, issues and expires keys.
- Planned (section 3): device polling, the API client's gzip latch and retry delay. Hazards
  that no property covers are listed with a note in `PROJECT.json`.
- What a directory becomes: the repository's label, its key and the salt are functions of the
  directory the resolver answers with.

---------------------------- MODULE KeyRotation ----------------------------
(***************************************************************************)
(* The collector key: the uploader's cycle of heartbeat, rotation check    *)
(* and flush with its Active and Degraded modes, the config file it shares *)
(* with `burndown-cli login', and the backend that issues, rotates and     *)
(* expires keys (src/internal/uploader/{uploader,rotation}.go,             *)
(* src/cmd/burndown-cli/login.go).                                         *)
(*                                                                         *)
(* Keys are numbered in the order the backend issues them; 0 is none.      *)
(* Every change of the config file is a Load, a change and a Save: the     *)
(* file read is held in `copy' until the Save, and another process may     *)
(* write in between.                                                       *)
(***************************************************************************)
EXTENDS Integers

CONSTANTS
  MaxKeys,      \* bound: keys ever issued
  MaxLogins,    \* bound: runs of `burndown-cli login' and `register'
  MaxRevokes,   \* bound: keys revoked on the backend
  MaxFaults     \* bound: crashes, failed saves and lost rotation answers

ASSUME ConstantsAssumption ==
  /\ MaxKeys \in Nat \ {0}
  /\ MaxLogins \in Nat /\ MaxRevokes \in Nat /\ MaxFaults \in Nat

VARIABLES
  life,       \* the backend's view of each key
  cfg,        \* config.json with the keychain
  up, mode,   \* is the daemon running; stateActive or stateDegraded
  authReason, \* why it is degraded, as the daemon has it
  client,     \* the key the API client sends
  pc,         \* where the uploader is in its cycle
  why,        \* who called for the rotation or verification
  held,       \* the key it is about to persist or verify
  copy, then, \* the config to be saved and where the uploader goes from there
  login,      \* the key a login or register is about to save
  loginCopy,  \* the config that it has loaded
  clash,      \* has the file been written between another's Load and Save?
  logins, revokes, faults,
  mislaid,    \* history: keys whose answer was lost or never saved
  verified    \* history: keys a verification succeeded with, and logins' keys

server == <<life, revokes>>
flow   == <<pc, why, held, copy, then>>
user   == <<login, loginCopy, logins, clash>>
auth   == <<mode, authReason>>
past   == <<mislaid, verified>>
vars   == <<server, cfg, up, auth, client, flow, user, faults, past>>
-----------------------------------------------------------------------------
Keys == 1 .. MaxKeys
NoKey == 0

Lives == {"unissued", "fresh", "aging", "overlap", "rotated", "expired", "revoked"}
Valid(k) == k # NoKey /\ life[k] \in {"fresh", "aging", "overlap"}

\* The key issued last.
Newest == CHOOSE k \in Keys : /\ life[k] # "unissued"
                              /\ \A j \in Keys : j > k => life[j] = "unissued"

\* The codes that a 401 for a key that is not valid may have: a legacy backend
\* or a proxy gives none.
RejectCodes(k) ==
  {"", CASE life[k] = "rotated" -> "key_rotated"
         [] life[k] = "expired" -> "key_expired"
         [] OTHER -> "key_revoked"}

Codes == {"", "key_rotated", "key_expired", "key_revoked"}
Reasons == {"", "key_invalid", "key_revoked"}

\* CollectorKey, PendingKey, the key KeyExpiresAt is the expiry of, whether
\* LastRotationAt is less than a day ago, and AuthReason.
Configs == [key: Keys, pending: Keys \cup {NoKey}, exp: Keys, recent: BOOLEAN,
            reason: Reasons]

NoConfig == [key |-> NoKey]

\* rotationDue: within seven days of the expiry and not tried for a day.
RotationDue == ~cfg.recent /\ life[cfg.exp] \in {"aging", "overlap", "rotated", "expired"}

Init ==
  /\ life = [k \in Keys |-> IF k = 1 THEN "fresh" ELSE "unissued"]
  /\ cfg = [key |-> 1, pending |-> NoKey, exp |-> 1, recent |-> FALSE, reason |-> ""]
  /\ up = TRUE /\ mode = "active" /\ authReason = "" /\ client = 1
  /\ pc = "beat" /\ why = "check" /\ held = NoKey
  /\ copy = NoConfig /\ then = "wait"
  /\ login = NoKey /\ loginCopy = NoConfig /\ logins = 0 /\ clash = FALSE
  /\ revokes = 0 /\ faults = 0 /\ mislaid = {} /\ verified = {1}
-----------------------------------------------------------------------------
\* mutateConfig: save c and go on at `next'.
Write(c, next) ==
  /\ copy' = c
  /\ pc' = "save" /\ then' = next

Goto(next) == pc' = next /\ UNCHANGED <<copy, then>>

\* Where the cycle goes on after a 401 was handled, or a rotation step done.
Resume(w, m) ==
  CASE w = "check" -> "flush"
    [] w = "beat"  -> IF m = "active" THEN "check" ELSE "wait"
    [] w = "flush" -> "wait"

\* enterActive and enterDegraded(reason) change the mode and its reason in
\* memory and in the file; here for a caller w of handleAuthError.
Degrade(c, reason, w) ==
  /\ mode' = "degraded" /\ authReason' = reason
  /\ Write([c EXCEPT !.reason = reason], Resume(w, "degraded"))

\* Mutant: the key in the file is not looked at.
Wake_NoReload ==
  /\ up /\ pc = "wait"
  /\ Goto("beat")
  /\ why' = "check"
  /\ UNCHANGED <<server, cfg, up, auth, client, held, user, faults, past>>

\* The timer fires: a degraded cycle first takes a changed key from the file.
Wake ==
  /\ up /\ pc = "wait"
  /\ client' = IF mode = "degraded" THEN cfg.key ELSE client
  /\ Goto("beat")
  /\ why' = "check"
  /\ UNCHANGED <<server, cfg, up, auth, held, user, faults, past>>

\* Mutant: enterActive clears the reason in memory only.
BeatOk_KeepsReason ==
  /\ up /\ pc = "beat" /\ Valid(client)
  /\ mode' = "active" /\ authReason' = ""
  /\ Write([cfg EXCEPT !.exp = client], "check")
  /\ UNCHANGED <<server, cfg, up, client, why, held, user, faults, past>>

\* HeartbeatOnce: onHeartbeatOK, and the expiry of the key that was used.
BeatOk ==
  /\ up /\ pc = "beat" /\ Valid(client)
  /\ mode' = "active" /\ authReason' = ""
  /\ Write([cfg EXCEPT !.reason = "", !.exp = client], "check")
  /\ UNCHANGED <<server, cfg, up, client, why, held, user, faults, past>>

\* No answer: nothing changes, and runCycle goes on only if it is active.
BeatLost ==
  /\ up /\ pc = "beat"
  /\ Goto(Resume("beat", mode))
  /\ UNCHANGED <<server, cfg, up, auth, client, why, held, user, faults, past>>

\* Mutant: every 401 degrades at once.
HandleAuthError_Degrades(code, w) ==
  /\ why' = w
  /\ Degrade(cfg, "key_invalid", w)

\* handleAuthError for the client's key: a code that is neither key_rotated nor
\* key_expired degrades, an empty one too.
HandleAuthError(code, w) ==
  /\ why' = w
  /\ CASE code = "key_rotated" -> Goto("recover") /\ UNCHANGED auth
       [] code = "key_expired" -> Goto("rotate") /\ UNCHANGED auth
       [] OTHER -> Degrade(cfg, code, w)

BeatRejected(code) ==
  /\ up /\ pc = "beat" /\ ~Valid(client) /\ code \in RejectCodes(client)
  /\ HandleAuthError(code, "beat")
  /\ UNCHANGED <<server, cfg, up, client, held, user, faults, past>>

\* RotateCheckOnce.
Check ==
  /\ up /\ pc = "check"
  /\ why' = "check"
  /\ \/ cfg.pending # NoKey /\ held' = cfg.pending /\ Goto("verify")
     \/ cfg.pending = NoKey /\ RotationDue /\ held' = NoKey /\ Goto("rotate")
     \/ cfg.pending = NoKey /\ ~RotationDue /\ held' = NoKey /\ Goto("flush")
  /\ UNCHANGED <<server, cfg, up, auth, client, user, faults, past>>

\* After attemptRotate: its caller is RotateCheckOnce or handleAuthError.
AfterRotate == IF why = "check" THEN "flush" ELSE "recover"

\* The backend rotates a valid key that is not being rotated already.
Rotates(n) ==
  /\ life[client] \in {"fresh", "aging"}
  /\ life[n] = "unissued" /\ \A j \in Keys : j < n => life[j] # "unissued"
  /\ life' = [life EXCEPT ![n] = "fresh", ![client] = "overlap"]

\* attemptRotate gets the new key; it is in memory alone.
RotateOk ==
  /\ up /\ pc = "rotate"
  /\ \E n \in Keys : Rotates(n) /\ held' = n
  /\ Goto("persist")
  /\ UNCHANGED <<revokes, cfg, up, auth, client, why, user, faults, past>>

\* The backend has rotated the key but the answer is lost: the client's retry
\* gets a 409, and the new key is known to no one.
RotateAnswerLost ==
  /\ up /\ pc = "rotate"
  /\ faults < MaxFaults /\ faults' = faults + 1
  /\ \E n \in Keys : Rotates(n) /\ mislaid' = mislaid \cup {n}
  /\ Write([cfg EXCEPT !.recent = TRUE], AfterRotate)
  /\ UNCHANGED <<revokes, cfg, up, auth, client, why, held, user, verified>>

\* 409, 401 or no answer at all: recordFailedRotateAttempt.
RotateFails ==
  /\ up /\ pc = "rotate"
  /\ Write([cfg EXCEPT !.recent = TRUE], AfterRotate)
  /\ UNCHANGED <<server, cfg, up, auth, client, why, held, user, faults, past>>

Persist ==
  /\ up /\ pc = "persist"
  /\ Write([cfg EXCEPT !.pending = held, !.recent = TRUE], AfterRotate)
  /\ UNCHANGED <<server, cfg, up, auth, client, why, held, user, faults, past>>

\* Mutant: an empty pending key is verified like any other.
Recover_NoEmptyCheck ==
  /\ up /\ pc = "recover"
  /\ held' = cfg.pending
  /\ Goto("verify")
  /\ UNCHANGED <<server, cfg, up, auth, client, why, user, faults, past>>

\* recoverViaPendingKeyOrDegrade.
Recover ==
  /\ up /\ pc = "recover"
  /\ \/ /\ cfg.pending = NoKey
        /\ Degrade(cfg, "key_invalid", why)
        /\ UNCHANGED held
     \/ /\ cfg.pending # NoKey
        /\ held' = cfg.pending
        /\ Goto("verify") /\ UNCHANGED auth
  /\ UNCHANGED <<server, cfg, up, client, why, user, faults, past>>

\* verifyPendingKey succeeds: the client stays on the pending key and
\* commitPendingKey writes it; handleAuthError's caller is active again.
VerifyOk ==
  /\ up /\ pc = "verify" /\ Valid(held)
  /\ client' = held /\ verified' = verified \cup {held}
  /\ LET c == [cfg EXCEPT !.key = held, !.exp = held, !.pending = NoKey]
     IN IF why = "check"
          THEN Write(c, "flush") /\ UNCHANGED auth
          ELSE /\ mode' = "active" /\ authReason' = ""
               /\ Write([c EXCEPT !.reason = ""], Resume(why, "active"))
  /\ UNCHANGED <<server, cfg, up, why, held, user, faults, mislaid>>

\* The backend rejects the pending key: it is discarded.
VerifyRejected ==
  /\ up /\ pc = "verify" /\ ~Valid(held)
  /\ LET c == [cfg EXCEPT !.pending = NoKey]
     IN IF why = "check" THEN Write(c, "flush") /\ UNCHANGED auth
                         ELSE Degrade(c, "key_invalid", why)
  /\ UNCHANGED <<server, cfg, up, client, why, held, user, faults, past>>

\* Mutant: any answer but a 401, or none, commits the pending key.
VerifyLost_Commits ==
  /\ up /\ pc = "verify"
  /\ client' = held
  /\ Write([cfg EXCEPT !.key = held, !.exp = held, !.pending = NoKey], Resume(why, "active"))
  /\ mode' = "active" /\ authReason' = ""
  /\ UNCHANGED <<server, cfg, up, why, held, user, faults, past>>

\* Mutant: any error discards the pending key.
VerifyLost_Discards ==
  /\ up /\ pc = "verify"
  /\ LET c == [cfg EXCEPT !.pending = NoKey]
     IN IF why = "check" THEN Write(c, "flush") /\ UNCHANGED auth
                         ELSE Degrade(c, "key_invalid", why)
  /\ UNCHANGED <<server, cfg, up, client, why, held, user, faults, past>>

\* No answer: the pending key is kept for another try.
VerifyLost ==
  /\ up /\ pc = "verify"
  /\ IF why = "check" THEN Goto("flush") /\ UNCHANGED auth
                      ELSE Degrade(cfg, "key_invalid", why)
  /\ UNCHANGED <<server, cfg, up, client, why, held, user, faults, past>>

\* The flushes end: nothing to send, sent, or deferred.
FlushDone ==
  /\ up /\ pc = "flush"
  /\ Goto("wait")
  /\ why' = "check" /\ held' = NoKey
  /\ UNCHANGED <<server, cfg, up, auth, client, user, faults, past>>

\* A flush, skipped unless the mode is active, gets a 401.
FlushRejected(code) ==
  /\ up /\ pc = "flush" /\ mode = "active" /\ ~Valid(client) /\ code \in RejectCodes(client)
  /\ HandleAuthError(code, "flush")
  /\ UNCHANGED <<server, cfg, up, client, held, user, faults, past>>

\* The uploader goes on after a save, and what it held is out of scope; so is
\* the caller, unless the pending key is still to be tried for it.
Saved ==
  /\ pc' = then /\ then' = "wait"
  /\ why' = IF then = "recover" THEN why ELSE "check"
  /\ copy' = NoConfig /\ held' = NoKey

Save ==
  /\ up /\ pc = "save"
  /\ cfg' = copy
  /\ clash' = (clash \/ loginCopy # NoConfig)
  /\ Saved
  /\ UNCHANGED <<server, up, auth, client, login, loginCopy, logins, faults, past>>

\* A key that dies with its process, or whose save fails, before any save.
Unsaved == IF /\ \/ pc = "persist"
                 \/ pc = "save" /\ copy.pending = held
              /\ held # NoKey /\ held \notin {cfg.key, cfg.pending}
             THEN {held} ELSE {}

\* mutateConfig logs a failed Load or Save and goes on.
SaveFails ==
  /\ up /\ pc = "save"
  /\ faults < MaxFaults /\ faults' = faults + 1
  /\ mislaid' = mislaid \cup Unsaved
  /\ Saved
  /\ UNCHANGED <<server, cfg, up, auth, client, user, verified>>

Crash ==
  /\ up
  /\ faults < MaxFaults /\ faults' = faults + 1
  /\ up' = FALSE /\ mode' = "active" /\ authReason' = ""
  /\ mislaid' = mislaid \cup Unsaved
  /\ pc' = "wait" /\ why' = "check" /\ held' = NoKey
  /\ copy' = NoConfig /\ then' = "wait"
  /\ UNCHANGED <<server, cfg, client, user, verified>>

\* serve loads the config and starts active, with a heartbeat.
Restart ==
  /\ ~up
  /\ up' = TRUE /\ mode' = "active" /\ authReason' = "" /\ client' = cfg.key
  /\ Goto("beat")
  /\ UNCHANGED <<server, cfg, why, held, user, faults, past>>
-----------------------------------------------------------------------------
\* A key approved in the browser is issued to a login and registered.
LoginIssue ==
  /\ login = NoKey /\ logins < MaxLogins
  /\ logins' = logins + 1
  /\ \E n \in Keys :
       /\ life[n] = "unissued" /\ \A j \in Keys : j < n => life[j] # "unissued"
       /\ life' = [life EXCEPT ![n] = "fresh"]
       /\ login' = n /\ verified' = verified \cup {n}
  /\ UNCHANGED <<revokes, cfg, up, auth, client, flow, loginCopy, clash, faults,
                 mislaid>>

\* persistLogin overwrites the key and its expiry and keeps other fields.
LoggedIn(c) == [c EXCEPT !.key = login, !.exp = login]

\* persistLogin loads the file ...
LoginLoad ==
  /\ login # NoKey /\ loginCopy = NoConfig
  /\ loginCopy' = cfg
  /\ UNCHANGED <<server, cfg, up, auth, client, flow, login, logins, clash, faults, past>>

\* ... and saves it, whatever the daemon has saved or is about to save.
LoginSave ==
  /\ loginCopy # NoConfig
  /\ cfg' = LoggedIn(loginCopy)
  /\ login' = NoKey /\ loginCopy' = NoConfig
  /\ clash' = (clash \/ (up /\ pc = "save"))
  /\ UNCHANGED <<server, up, auth, client, flow, logins, faults, past>>

\* register loads the file before it calls the backend with the key in it, and
\* then saves what it has loaded, with that key's expiry, as a login does.  The
\* backend accepts only a key that was valid at the load; a register that is
\* refused saves nothing.
RegisterLoad ==
  /\ login = NoKey /\ logins < MaxLogins /\ Valid(cfg.key)
  /\ logins' = logins + 1
  /\ login' = cfg.key /\ loginCopy' = cfg
  /\ UNCHANGED <<server, cfg, up, auth, client, flow, clash, faults, past>>

\* Time passes for a key: it nears its expiry, expires, or the overlap window
\* in which it stays valid beside its successor ends.
KeyAges ==
  /\ \E k \in Keys :
       \/ life[k] = "fresh"   /\ life' = [life EXCEPT ![k] = "aging"]
       \/ life[k] = "aging"   /\ life' = [life EXCEPT ![k] = "expired"]
       \/ life[k] = "overlap" /\ life' = [life EXCEPT ![k] = "rotated"]
  /\ UNCHANGED <<revokes, cfg, up, auth, client, flow, user, faults, past>>

Revoke ==
  /\ revokes < MaxRevokes /\ revokes' = revokes + 1
  /\ \E k \in Keys : Valid(k) /\ life' = [life EXCEPT ![k] = "revoked"]
  /\ UNCHANGED <<cfg, up, auth, client, flow, user, faults, past>>

\* LastRotationAt is now a day ago (in any copy of it too, so no copy is open).
DayPasses ==
  /\ cfg.recent /\ pc # "save" /\ loginCopy = NoConfig
  /\ cfg' = [cfg EXCEPT !.recent = FALSE]
  /\ UNCHANGED <<server, up, auth, client, flow, user, faults, past>>

Daemon ==
  \/ Wake \/ BeatOk \/ BeatLost
  \/ \E code \in Codes : BeatRejected(code) \/ FlushRejected(code)
  \/ Check
  \/ RotateOk \/ RotateAnswerLost \/ RotateFails \/ Persist
  \/ Recover \/ VerifyOk \/ VerifyRejected \/ VerifyLost
  \/ FlushDone
  \/ Save \/ SaveFails

Next ==
  \/ Daemon
  \/ Crash \/ Restart
  \/ LoginIssue \/ LoginLoad \/ LoginSave \/ RegisterLoad
  \/ KeyAges \/ Revoke \/ DayPasses

Spec == Init /\ [][Next]_vars

\* The uploader keeps running its cycles, a dead daemon is restarted, and a
\* heartbeat that is tried for ever is answered again and again, with a code
\* when it is refused.
Fairness ==
  /\ WF_vars(Daemon) /\ WF_vars(Restart)
  /\ SF_vars(BeatOk \/ \E code \in Codes \ {""} : BeatRejected(code))
  /\ SF_vars(VerifyOk \/ VerifyRejected)

LiveSpec == Spec /\ Fairness
-----------------------------------------------------------------------------
(***************************************************************************)
(* Properties.                                                             *)
(***************************************************************************)

\* Every variable has its type.
TypeOK ==
  /\ life \in [Keys -> Lives]
  /\ cfg \in Configs
  /\ up \in BOOLEAN /\ mode \in {"active", "degraded"} /\ client \in Keys
  /\ authReason \in Reasons
  /\ pc \in {"wait", "beat", "check", "rotate", "persist", "recover", "verify",
             "flush", "save"}
  /\ why \in {"check", "beat", "flush"}
  /\ held \in Keys \cup {NoKey}
  /\ copy \in Configs \cup {NoConfig}
  /\ up /\ pc = "save" => copy \in Configs
  /\ up /\ pc \in {"persist", "verify"} => held # NoKey
  /\ then \in {"wait", "check", "recover", "flush"}
  /\ login \in Keys \cup {NoKey} /\ loginCopy \in Configs \cup {NoConfig}
  /\ loginCopy # NoConfig => login # NoKey
  /\ logins \in 0 .. MaxLogins /\ revokes \in 0 .. MaxRevokes /\ faults \in 0 .. MaxFaults
  /\ clash \in BOOLEAN /\ mislaid \subseteq Keys /\ verified \subseteq Keys

\* Every key the daemon, the config or a login holds.
Known == (IF up THEN {client} ELSE {}) \cup {cfg.key, cfg.pending, login}
           \cup (IF up /\ pc \in {"persist", "save"} THEN {held} ELSE {})

\* A key the backend has issued and still accepts is known to this machine,
\* unless its answer was lost or the process died before saving it once:
\* rotation has no other window in which a crash, a failed save, a rejected
\* or unanswered heartbeat, in any order, forgets the new key.
NewestIsKnown ==
  Valid(Newest) /\ logins = 0 => Newest \in Known \cup mislaid

\* A key becomes the key in the file only once the backend has accepted it in
\* a verification or has issued it to a login, whatever is lost, fails, dies or
\* saves at once; and unless two processes save at once it is the key of the
\* login that saves, or the pending key that was in the file.
KeyFollowsPending ==
  [][cfg'.key # cfg.key =>
       /\ cfg'.key \in verified
       /\ ~clash' => \/ cfg'.key = login /\ login' = NoKey
                     \/ cfg'.key = cfg.pending]_vars

\* A pending key leaves the file only by becoming the active key or because
\* the backend no longer accepts it: never for a network error, a crash or a
\* restart (rotation.go:131-133), unless two processes save at once.
PendingSurvives ==
  [][cfg.pending # NoKey /\ cfg'.pending # cfg.pending /\ ~clash' =>
       cfg'.key = cfg.pending \/ ~Valid(cfg.pending)]_vars

\* While nothing has failed, no save is under way and no two have overlapped,
\* the file gives the reason that the daemon has, and gives none while uploads
\* are not paused (config.go:104-107): no order of refusals, recoveries and
\* logins leaves a stale reason behind or overwrites a newer one.
AuthReasonIsRight ==
  faults = 0 /\ up /\ pc # "save" /\ ~clash =>
    /\ cfg.reason = authReason
    /\ mode = "active" => cfg.reason = ""

\* A degraded daemon whose file holds a key the backend accepts, say after a
\* login, becomes active without a restart (uploader.go:190-192).
DegradedRecovers ==
  up /\ mode = "degraded" /\ Valid(cfg.key)
    ~> ~Valid(cfg.key) \/ mode = "active"

\* A pending key is verified and committed or discarded in the end, if the
\* key in use is not revoked: through restarts, lost answers and the end of
\* the overlap window, in either mode.
PendingIsResolved ==
  cfg.pending # NoKey ~> cfg.pending = NoKey \/ life[client] = "revoked"

\* As rotation.go:60-62 has it, a crash right after RotateKey cannot lose the
\* new key: what a stopped daemon leaves behind holds it.  (It is not so until
\* the answer is saved: NewestIsKnown excepts those keys.)
NewKeyNotLost == ~up /\ Valid(Newest) /\ logins = 0 => Newest \in Known

\* As uploader.go:443-445 has it, the reason is there whenever uploads are
\* paused, for `status' and `doctor' to tell.  (It is not so after a 401
\* without a code.)
ReasonTellsDegraded ==
  faults = 0 /\ up /\ pc # "save" /\ ~clash /\ mode = "degraded" => cfg.reason # ""
=============================================================================

----------------------------- MODULE CredStore -----------------------------
(***************************************************************************)
(* The collector's config file and the two keychain items beside it: what  *)
(* a Load and a Save of credstore.Store do, one keychain call and one file *)
(* write at a time, when the daemon and a command run them concurrently    *)
(* and either may be killed or find the keychain locked                    *)
(* (src/internal/credstore, src/cmd/burndown-cli/login.go).                *)
(***************************************************************************)
EXTENDS Naturals

CONSTANTS
  MaxKeys,      \* bound: keys ever issued
  MaxCommands,  \* bound: commands a user runs beside the daemon
  MaxFaults     \* bound: keychain and file errors, lost items and kills

ASSUME ConstantsAssumption ==
  /\ MaxKeys \in Nat \ {0}
  /\ MaxCommands \in Nat
  /\ MaxFaults \in Nat

VARIABLES
  file,       \* config.json
  keychain,   \* the secret in each item, NoKey if there is none
  proc,       \* the Load or Save each process is in
  hand,       \* per process: a key it has got and is to save, and as what
  issued,     \* how many keys the backend has issued
  keys,       \* what a Load may find: the keys and pending keys of the last
  pendings,   \*   Save that ran alone, and of every one since
  commands, faults

stored == <<file, keychain>>
expected == <<keys, pendings>>
vars == <<stored, proc, hand, issued, expected, commands, faults>>
-----------------------------------------------------------------------------
Keys == 1 .. MaxKeys
NoKey == 0
Procs == {"daemon", "command"}

\* CollectorKey, PendingKey and PendingKeyID of a Config in memory.
Configs == [key: Keys \cup {NoKey}, pending: Keys \cup {NoKey}, id: Keys \cup {NoKey}]
Empty == [key |-> NoKey, pending |-> NoKey, id |-> NoKey]

\* Mutant: the pending key stays in the file.
Scrubbed_KeepsPending(c) ==
  [on |-> "keychain", cfg |-> [Empty EXCEPT !.pending = c.pending, !.id = c.id]]

\* A file marked CredentialBackend = "keychain" holds no secret.
Plain(c)    == [on |-> "file", cfg |-> c]
Scrubbed(c) == [on |-> "keychain", cfg |-> [Empty EXCEPT !.id = c.id]]
NoFile      == [on |-> "none", cfg |-> Empty]

\* alone: nothing else happened to the file or the keychain since Begin.
Idle == [at |-> "idle", kind |-> "none", cfg |-> Empty, alone |-> FALSE]

Nothing == [to |-> "none", key |-> NoKey]
Drop(p) == hand' = [hand EXCEPT ![p] = Nothing]

\* What a Load that meets no error and no other process returns.
LoadKey == IF file.on = "keychain" THEN keychain.active ELSE file.cfg.key
LoadPending ==
  IF file.on # "keychain" THEN file.cfg.pending
  ELSE IF file.cfg.id = NoKey THEN NoKey ELSE keychain.pending

\* A fresh installation, with or without a setup, or one from before the
\* keychain was used.
Init ==
  /\ file \in {NoFile, Plain(Empty), Plain([Empty EXCEPT !.key = 1])}
  /\ keychain = [active |-> NoKey, pending |-> NoKey]
  /\ proc = [p \in Procs |-> Idle]
  /\ hand = [p \in Procs |-> Nothing]
  /\ issued = 1
  /\ keys = {file.cfg.key} /\ pendings = {NoKey}
  /\ commands = 0 /\ faults = 0

Fault == faults < MaxFaults /\ faults' = faults + 1

At(p, at) == proc[p].at = at
Saving(p) == proc[p].kind = "save"

\* Process p goes on with the config c, or is done.
GoWith(p, at, c) == proc' = [proc EXCEPT ![p].at = at, ![p].cfg = c]
Go(p, at) == GoWith(p, at, proc[p].cfg)
Done(p) == proc' = [proc EXCEPT ![p] = Idle]

\* Where the config c goes once it is loaded from a file that has the secrets.
Migrates(c) == IF c.key = NoKey THEN "loaded" ELSE "setActive"
-----------------------------------------------------------------------------
\* Why a process calls Load: to report (status), to change other fields
\* (touch: the daemon in every cycle, setup), or to save the key in its hand.
Kinds(p) == CASE hand[p].to = "none"    -> {"status", "touch"}
              [] hand[p].to = "login"   -> {"login"}
              [] hand[p].to = "pending" -> {"rotate"}
              [] hand[p].to = "active"  -> {"commit", "discard"}

\* Store.Load: the file is read.
Begin(p, kind) ==
  /\ At(p, "idle") /\ kind \in Kinds(p)
  /\ file.on = "none" => kind # "status"
  /\ p = "daemon" => file.on = "keychain" \/ file.cfg.key # NoKey  \* loadServeConfig
  /\ LET c == file.cfg
         alone == \A q \in Procs : At(q, "idle")
     IN proc' = [q \in Procs |->
          IF q = p THEN [at |-> IF file.on = "keychain" THEN "getActive" ELSE Migrates(c),
                         kind |-> kind, cfg |-> c, alone |-> alone]
                   ELSE [proc[q] EXCEPT !.alone = FALSE]]
  /\ IF p = "daemon" THEN commands' = commands
     ELSE commands < MaxCommands /\ commands' = commands + 1
  /\ UNCHANGED <<stored, hand, issued, expected, faults>>

\* hydrate: a key that cannot be read, or is gone, fails the Load.
GetActive(p) ==
  /\ At(p, "getActive")
  /\ LET c == [proc[p].cfg EXCEPT !.key = keychain.active]
     IN \/ /\ keychain.active # NoKey
           /\ GoWith(p, IF c.id = NoKey THEN "loaded" ELSE "getPending", c)
           /\ faults' = faults
           /\ hand' = hand
        \/ /\ Done(p) /\ Drop(p)
           /\ IF keychain.active = NoKey THEN faults' = faults ELSE Fault
  /\ UNCHANGED <<stored, issued, expected, commands>>

\* hydratePending: not there, or not readable, and the rotation is discarded.
GetPending(p) ==
  /\ At(p, "getPending")
  /\ LET c == proc[p].cfg
     IN \/ /\ keychain.pending # NoKey
           /\ GoWith(p, "loaded", [c EXCEPT !.pending = keychain.pending])
           /\ UNCHANGED <<faults, pendings>>
        \/ /\ GoWith(p, "discard", [c EXCEPT !.id = NoKey])
           /\ pendings' = pendings \cup {NoKey}
           /\ IF keychain.pending = NoKey THEN faults' = faults ELSE Fault
  /\ UNCHANGED <<stored, hand, issued, keys, commands>>

\* The discard is written, best effort.
DiscardWrite(p) ==
  /\ At(p, "discard")
  /\ Go(p, "loaded")
  /\ \/ file' = Scrubbed(proc[p].cfg) /\ faults' = faults
     \/ file' = file /\ Fault
  /\ UNCHANGED <<keychain, hand, issued, expected, commands>>

\* The change a process makes to the config it has loaded.
Changed(kind, k, c) ==
  CASE kind = "login"   -> [c EXCEPT !.key = k]
    [] kind = "rotate"  -> [c EXCEPT !.pending = k, !.id = k]
    [] kind = "commit"  -> [key |-> k, pending |-> NoKey, id |-> NoKey]
    [] kind = "discard" -> [c EXCEPT !.pending = NoKey, !.id = NoKey]
    [] OTHER            -> c

\* A Load for its own sake ends; RotateCheckOnce finds what is pending.
LoadEnds(p) ==
  /\ At(p, "loaded")
  /\ proc[p].kind = "status"
  /\ Done(p)
  /\ hand' = IF p = "daemon" /\ proc[p].cfg.pending # NoKey
               THEN [hand EXCEPT ![p] = [to |-> "active", key |-> proc[p].cfg.pending]]
               ELSE hand
  /\ UNCHANGED <<stored, issued, expected, faults, commands>>

\* A Save of the changed config begins.
Change(p) ==
  /\ At(p, "loaded") /\ proc[p].kind # "status"
  /\ LET c == Changed(proc[p].kind, hand[p].key, proc[p].cfg)
     IN /\ proc' = [proc EXCEPT ![p].at = IF c.key = NoKey THEN "plain" ELSE "setActive",
                                ![p].cfg = c, ![p].kind = "save"]
        /\ keys' = keys \cup {c.key} /\ pendings' = pendings \cup {c.pending}
  /\ Drop(p)
  /\ UNCHANGED <<stored, issued, faults, commands>>
-----------------------------------------------------------------------------
\* Mutant: what was written to the keychain is taken back.
FallBack_RollsBack(p) ==
  /\ Go(p, IF Saving(p) THEN "plain" ELSE "loaded")
  /\ keychain' = [keychain EXCEPT !.active = NoKey]

\* The keychain cannot be used: a Save writes the secrets to the file, a Load
\* leaves them there.  Nothing in the keychain is rolled back.
FallBack(p) ==
  /\ Go(p, IF Saving(p) THEN "plain" ELSE "loaded")
  /\ UNCHANGED keychain

\* writeVerified of the active key: Set ...
SetActive(p) ==
  /\ At(p, "setActive")
  /\ \/ /\ keychain' = [keychain EXCEPT !.active = proc[p].cfg.key]
        /\ Go(p, "checkActive") /\ faults' = faults
     \/ FallBack(p) /\ Fault
  /\ UNCHANGED <<file, hand, issued, expected, commands>>

\* Mutant: the other item is read back.
CheckActive_OtherItem(p) ==
  /\ At(p, "checkActive")
  /\ \/ /\ keychain.pending = proc[p].cfg.key
        /\ Go(p, "setPending") /\ UNCHANGED <<keychain, faults>>
     \/ keychain.pending # proc[p].cfg.key /\ FallBack(p) /\ faults' = faults
     \/ FallBack(p) /\ Fault
  /\ UNCHANGED <<file, hand, issued, expected, commands>>

\* ... and Get, which may find what another process has set meanwhile.
CheckActive(p) ==
  /\ At(p, "checkActive")
  /\ \/ /\ keychain.active = proc[p].cfg.key
        /\ Go(p, "setPending") /\ UNCHANGED <<keychain, faults>>
     \/ keychain.active # proc[p].cfg.key /\ FallBack(p) /\ faults' = faults
     \/ FallBack(p) /\ Fault
  /\ UNCHANGED <<file, hand, issued, expected, commands>>

\* The pending key likewise; with none, a stale item is deleted, best effort.
SetPending(p) ==
  /\ At(p, "setPending")
  /\ LET k == proc[p].cfg.pending
     IN \/ /\ keychain' = [keychain EXCEPT !.pending = k]
           /\ Go(p, IF k = NoKey THEN "scrub" ELSE "checkPending")
           /\ faults' = faults
        \/ k = NoKey /\ Go(p, "scrub") /\ UNCHANGED keychain /\ Fault
        \/ k # NoKey /\ FallBack(p) /\ Fault
  /\ UNCHANGED <<file, hand, issued, expected, commands>>

CheckPending(p) ==
  /\ At(p, "checkPending")
  /\ \/ /\ keychain.pending = proc[p].cfg.pending
        /\ Go(p, "scrub") /\ UNCHANGED <<keychain, faults>>
     \/ keychain.pending # proc[p].cfg.pending /\ FallBack(p) /\ faults' = faults
     \/ FallBack(p) /\ Fault
  /\ UNCHANGED <<file, hand, issued, expected, commands>>

\* A Save has returned nil: if it ran alone, a Load finds what it saved.
Saved(p) ==
  /\ Done(p)
  /\ IF proc[p].alone
       THEN keys' = {proc[p].cfg.key} /\ pendings' = {proc[p].cfg.pending}
       ELSE UNCHANGED expected

\* saveScrubbed: only now do the secrets leave the file.
Scrub(p) ==
  /\ At(p, "scrub")
  /\ \/ /\ file' = Scrubbed(proc[p].cfg) /\ faults' = faults
        /\ IF Saving(p) THEN Saved(p) ELSE Go(p, "loaded") /\ UNCHANGED expected
     \/ /\ file' = file /\ Fault
        /\ IF Saving(p) THEN Done(p) ELSE Go(p, "loaded")
        /\ UNCHANGED expected
  /\ UNCHANGED <<keychain, hand, issued, commands>>

\* A Save without a key, or one whose keychain calls failed.
WritePlain(p) ==
  /\ At(p, "plain")
  /\ \/ file' = Plain(proc[p].cfg) /\ Saved(p) /\ faults' = faults
     \/ file' = file /\ Done(p) /\ Fault /\ UNCHANGED expected
  /\ UNCHANGED <<keychain, hand, issued, commands>>

Step(p) ==
  \/ GetActive(p) \/ GetPending(p) \/ DiscardWrite(p) \/ LoadEnds(p) \/ Change(p)
  \/ SetActive(p) \/ CheckActive(p) \/ SetPending(p) \/ CheckPending(p)
  \/ Scrub(p) \/ WritePlain(p)

\* The backend issues a key: to a login, or to the daemon that rotates the key
\* RotateCheckOnce has just loaded.
GetKey(p) ==
  /\ At(p, "idle") /\ hand[p] = Nothing
  /\ issued < MaxKeys /\ issued' = issued + 1
  /\ p = "daemon" => LoadKey # NoKey
  /\ hand' = [hand EXCEPT ![p] = [to |-> IF p = "daemon" THEN "pending" ELSE "login",
                                  key |-> issued']]
  /\ UNCHANGED <<stored, proc, expected, faults, commands>>

\* The heartbeat with the pending key gets no answer: it stays pending.
VerifyLost ==
  /\ At("daemon", "idle") /\ hand["daemon"].to = "active"
  /\ Drop("daemon")
  /\ UNCHANGED <<stored, proc, issued, expected, faults, commands>>

Kill(p) ==
  /\ ~At(p, "idle") /\ Fault /\ Done(p) /\ Drop(p)
  /\ UNCHANGED <<stored, issued, expected, commands>>

\* A keychain item is gone: deleted by its owner, or left behind in a restore.
ItemLost ==
  /\ Fault
  /\ \/ /\ keychain' = [keychain EXCEPT !.active = NoKey]
        /\ keys' = keys \cup {NoKey} /\ UNCHANGED pendings
     \/ /\ keychain' = [keychain EXCEPT !.pending = NoKey]
        /\ pendings' = pendings \cup {NoKey} /\ UNCHANGED keys
  /\ proc' = [p \in Procs |-> [proc[p] EXCEPT !.alone = FALSE]]
  /\ UNCHANGED <<file, hand, issued, commands>>

Next ==
  \/ \E p \in Procs :
       (\E kind \in Kinds(p) : Begin(p, kind)) \/ Step(p) \/ GetKey(p) \/ Kill(p)
  \/ VerifyLost \/ ItemLost

Spec == Init /\ [][Next]_vars

\* A process goes on with what it has begun, and the daemon touches its config
\* in every cycle.
Fairness ==
  /\ \A p \in Procs : WF_vars(Step(p))
  /\ WF_vars(\E kind \in Kinds("daemon") : Begin("daemon", kind))

LiveSpec == Spec /\ Fairness
-----------------------------------------------------------------------------
(***************************************************************************)
(* Properties.                                                             *)
(***************************************************************************)

\* Every variable has its type, and a file on the keychain holds no secret.
TypeOK ==
  /\ file \in [on : {"none", "file", "keychain"}, cfg : Configs]
  /\ file.on # "file" => file.cfg.key = NoKey /\ file.cfg.pending = NoKey
  /\ keychain \in [active : Keys \cup {NoKey}, pending : Keys \cup {NoKey}]
  /\ proc \in [Procs -> [at : {"idle", "getActive", "getPending", "discard", "loaded",
                               "setActive", "checkActive", "setPending", "checkPending",
                               "scrub", "plain"},
                         kind : {"none", "status", "touch", "login", "rotate", "commit",
                                 "discard", "save"},
                         cfg : Configs, alone : BOOLEAN]]
  /\ hand \in [Procs -> [to : {"none", "login", "pending", "active"},
                         key : Keys \cup {NoKey}]]
  /\ issued \in Keys
  /\ keys \subseteq Keys \cup {NoKey} /\ pendings \subseteq Keys \cup {NoKey}
  /\ commands \in 0 .. MaxCommands /\ faults \in 0 .. MaxFaults

\* At every moment, between any two keychain calls or file writes and after a
\* kill, a Load finds a key and a pending key that the last Save left there or
\* that one begun since was asked to store: the secrets are never in neither
\* place, nor does a stale keychain item come back (credstore.go:145-157).
SavedIsLoaded == LoadKey \in keys /\ LoadPending \in pendings

\* Whatever locked the keychain for a while, the secrets do leave the file
\* (credstore.go:117-135).
SecretsLeaveFile ==
  file.on = "file" /\ file.cfg.key # NoKey ~> file.on = "keychain"

\* The error of a lost key says to run login (credstore.go:265), so a login
\* that meets no fault of its own goes on to save the key it was given.
LoginRestoresKey ==
  [][\A p \in Procs :
       /\ hand[p].to = "login" /\ proc[p] # Idle
       /\ proc'[p] = Idle /\ faults' = faults
       => LoadKey' # NoKey]_vars
=============================================================================

--------------------------- MODULE CredStoreProofs ---------------------------
(***************************************************************************)
(* What a Save was asked to store is what a Load finds, at every moment of *)
(* the Loads and Saves of the daemon and the commands, for every number of *)
(* keys, commands and faults.                                              *)
(***************************************************************************)
EXTENDS CredStore, TLAPS

Ats == {"idle", "getActive", "getPending", "discard", "loaded", "setActive",
        "checkActive", "setPending", "checkPending", "scrub", "plain"}
AllKinds == {"none", "status", "touch", "login", "rotate", "commit", "discard", "save"}
SomeKey == Keys \cup {NoKey}

\* The steps at which a process has a config that it is going to store, and those
\* of a process that takes the active key to be in the keychain.
Storing == {"setActive", "checkActive", "setPending", "checkPending", "scrub", "plain"}
OnKeychain == {"getActive", "getPending", "discard", "checkActive", "setPending",
               "checkPending", "scrub"}

\* A file without the keychain has a pending key and its id, or neither.
FileFits ==
  file.on # "keychain" => (file.cfg.pending = NoKey <=> file.cfg.id = NoKey)

\* What a process has in its hand fits what it is going to do with it.
HandFits(p) ==
  /\ hand[p].to # "none" => hand[p].key # NoKey
  /\ proc[p].at # "idle" /\ proc[p].kind = "rotate" => hand[p].to # "none"

\* A config in memory has a pending key and its id, or neither, but for the id
\* of the file until the keychain has been asked for the key.
IdFits(p) ==
  /\ proc[p].at \in {"getActive", "getPending", "discard"} => proc[p].cfg.pending = NoKey
  /\ proc[p].at = "getPending" => proc[p].cfg.id # NoKey
  /\ proc[p].at \notin {"getActive", "getPending"} =>
       (proc[p].cfg.pending = NoKey <=> proc[p].cfg.id = NoKey)

\* Whatever a process is going to write, and what it takes to be in the keychain,
\* is what a Load may find.
WritesKnown(p) ==
  /\ proc[p].at \in Storing => proc[p].cfg.key \in keys /\ proc[p].cfg.pending \in pendings
  /\ proc[p].at = "discard" => NoKey \in pendings
  /\ proc[p].at \in OnKeychain => keychain.active \in keys
  /\ proc[p].at \in {"checkPending", "scrub"} /\ proc[p].cfg.pending # NoKey =>
       keychain.pending \in pendings

\* A process that nothing interferes with finds what it has set.
AloneFinds(p) ==
  proc[p].alone =>
    /\ proc[p].at \in {"checkActive", "setPending", "checkPending", "scrub"} =>
         keychain.active = proc[p].cfg.key
    /\ proc[p].at \in {"checkPending", "scrub"} /\ proc[p].cfg.pending # NoKey =>
         keychain.pending = proc[p].cfg.pending

ProcInv(p) == HandFits(p) /\ IdFits(p) /\ WritesKnown(p) /\ AloneFinds(p)

\* One that is alone is: the others do nothing until it is done.
AloneIsAlone == \A p, q \in Procs : p # q /\ proc[p].alone => At(q, "idle")

CredInv ==
  /\ TypeOK
  /\ FileFits
  /\ \A p \in Procs : ProcInv(p)
  /\ AloneIsAlone
  /\ SavedIsLoaded

\* A fresh installation, or one that has its key in the file (credstore.go:79-92).
LEMMA CredInit == Init => CredInv
<1> SUFFICES ASSUME Init PROVE CredInv
  OBVIOUS
<1>1. /\ Empty \in Configs /\ [Empty EXCEPT !.key = 1] \in Configs
      /\ Empty.key = NoKey /\ Empty.pending = NoKey /\ Empty.id = NoKey
      /\ [Empty EXCEPT !.key = 1].pending = NoKey /\ [Empty EXCEPT !.key = 1].id = NoKey
  BY ConstantsAssumption DEF Empty, Configs, Keys, NoKey
<1>2. /\ file \in [on : {"none", "file", "keychain"}, cfg : Configs]
      /\ file.on \in {"none", "file"}
      /\ file.on = "none" => file.cfg.key = NoKey
      /\ file.cfg.pending = NoKey /\ file.cfg.id = NoKey
      /\ file.cfg.key \in SomeKey
  BY <1>1 DEF Init, NoFile, Plain, Configs, SomeKey
<1>3. \A p \in Procs : proc[p] = Idle /\ hand[p] = Nothing
  BY DEF Init
<1>4. /\ proc \in [Procs -> [at : Ats, kind : AllKinds, cfg : Configs, alone : BOOLEAN]]
      /\ hand \in [Procs -> [to : {"none", "login", "pending", "active"}, key : SomeKey]]
  BY <1>1 DEF Init, Idle, Nothing, Ats, AllKinds, SomeKey
<1>5. TypeOK
  <2>1. /\ keychain \in [active : SomeKey, pending : SomeKey]
        /\ issued \in Keys /\ keys \subseteq SomeKey /\ pendings \subseteq SomeKey
    BY <1>2, ConstantsAssumption DEF Init, Keys, SomeKey
  <2>2. commands \in 0 .. MaxCommands /\ faults \in 0 .. MaxFaults
    BY ConstantsAssumption DEF Init
  <2>3. file.on # "file" => file.cfg.key = NoKey /\ file.cfg.pending = NoKey
    BY <1>2
  <2>4. QED
    BY <1>2, <1>4, <2>1, <2>2, <2>3 DEF TypeOK, Ats, AllKinds, SomeKey
<1>6. FileFits
  BY <1>2 DEF FileFits
<1>7. \A p \in Procs : ProcInv(p)
  BY <1>1, <1>3
  DEF ProcInv, HandFits, IdFits, WritesKnown, AloneFinds, Idle, Nothing, Storing, OnKeychain
<1>8. AloneIsAlone
  BY <1>3 DEF AloneIsAlone, Idle
<1>9. SavedIsLoaded
  BY <1>2 DEF SavedIsLoaded, LoadKey, LoadPending, Init
<1>10. QED
  BY <1>5, <1>6, <1>7, <1>8, <1>9 DEF CredInv

\* What it takes for a step to keep the types: proc and hand are typed apart.
LEMMA GoWithType ==
  ASSUME TypeOK, NEW p \in Procs, NEW a \in Ats, NEW c \in Configs, GoWith(p, a, c)
  PROVE  /\ proc' \in [Procs -> [at : Ats, kind : AllKinds, cfg : Configs, alone : BOOLEAN]]
         /\ proc'[p] = [at |-> a, kind |-> proc[p].kind, cfg |-> c, alone |-> proc[p].alone]
         /\ \A q \in Procs : q # p => proc'[q] = proc[q]
<1>1. proc \in [Procs -> [at : Ats, kind : AllKinds, cfg : Configs, alone : BOOLEAN]]
  BY DEF TypeOK, Ats, AllKinds
<1>2. QED
  BY <1>1 DEF GoWith

\* The same when the config stays as it is.
LEMMA GoType ==
  ASSUME TypeOK, NEW p \in Procs, NEW a \in Ats, Go(p, a)
  PROVE  /\ proc' \in [Procs -> [at : Ats, kind : AllKinds, cfg : Configs, alone : BOOLEAN]]
         /\ proc'[p] = [at |-> a, kind |-> proc[p].kind, cfg |-> proc[p].cfg,
                        alone |-> proc[p].alone]
         /\ \A q \in Procs : q # p => proc'[q] = proc[q]
<1>1. proc[p].cfg \in Configs
  BY DEF TypeOK
<1>2. GoWith(p, a, proc[p].cfg)
  BY DEF Go
<1>3. QED
  BY <1>1, <1>2, GoWithType

\* A process that is done with its Load or Save.
LEMMA DoneType ==
  ASSUME TypeOK, NEW p \in Procs, Done(p)
  PROVE  /\ proc' \in [Procs -> [at : Ats, kind : AllKinds, cfg : Configs, alone : BOOLEAN]]
         /\ proc'[p] = Idle
         /\ \A q \in Procs : q # p => proc'[q] = proc[q]
<1>1. proc \in [Procs -> [at : Ats, kind : AllKinds, cfg : Configs, alone : BOOLEAN]]
  BY DEF TypeOK, Ats, AllKinds
<1>2. Empty \in Configs
  BY DEF Empty, Configs
<1>3. QED
  BY <1>1, <1>2 DEF Done, Idle, Ats, AllKinds

\* A process that drops what it has in its hand.
LEMMA DropType ==
  ASSUME TypeOK, NEW p \in Procs, Drop(p)
  PROVE  /\ hand' \in [Procs -> [to : {"none", "login", "pending", "active"}, key : SomeKey]]
         /\ hand'[p] = Nothing
         /\ \A q \in Procs : q # p => hand'[q] = hand[q]
  BY DEF TypeOK, Drop, Nothing, SomeKey

\* What a process that is done keeps: nothing.
LEMMA IdleKeeps ==
  ASSUME NEW p \in Procs, proc'[p] = Idle, hand'[p].to # "none" => hand'[p].key # NoKey
  PROVE  ProcInv(p)'
<1>1. /\ proc'[p].at = "idle" /\ proc'[p].kind = "none" /\ proc'[p].alone = FALSE
      /\ proc'[p].cfg.pending = NoKey /\ proc'[p].cfg.id = NoKey
  BY DEF Idle, Empty
<1>2. QED
  BY <1>1
  DEF ProcInv, HandFits, IdFits, WritesKnown, AloneFinds, Storing, OnKeychain

\* The step of one process leaves the others as they were: what a Load may find
\* only grows, unless the process was alone, and what the step puts into the
\* keychain is among it (credstore.go:160-207).
LEMMA StepKeeps ==
  ASSUME CredInv, TypeOK', NEW p \in Procs, ~ At(p, "idle"),
         \A q \in Procs : q # p => proc'[q] = proc[q] /\ hand'[q] = hand[q],
         proc'[p].alone => proc[p].alone,
         proc[p].alone \/ (keys \subseteq keys' /\ pendings \subseteq pendings'),
         keychain'.active \in {keychain.active} \cup keys',
         keychain'.pending \in {keychain.pending} \cup pendings',
         ProcInv(p)', FileFits', SavedIsLoaded'
  PROVE  CredInv'
<1> USE DEF CredInv
<1>1. ASSUME NEW q \in Procs, q # p PROVE ProcInv(q)'
  <2>1. proc'[q] = proc[q] /\ hand'[q] = hand[q] /\ ProcInv(q)
    BY <1>1
  <2>2. ~ proc[q].alone
    BY <1>1 DEF AloneIsAlone
  <2>3. HandFits(q)' /\ IdFits(q)'
    BY <2>1 DEF ProcInv, HandFits, IdFits
  <2>4. AloneFinds(q)'
    BY <2>1, <2>2 DEF AloneFinds
  <2>5. WritesKnown(q)'
    <3>1. CASE proc[p].alone
      <4>1. proc'[q].at = "idle"
        BY <1>1, <2>1, <3>1 DEF AloneIsAlone, At
      <4>2. QED
        BY <4>1 DEF WritesKnown, Storing, OnKeychain
    <3>2. CASE keys \subseteq keys' /\ pendings \subseteq pendings'
      BY <2>1, <3>2 DEF ProcInv, WritesKnown
    <3>3. QED
      BY <3>1, <3>2
  <2>6. QED
    BY <2>3, <2>4, <2>5 DEF ProcInv
<1>2. AloneIsAlone'
  <2> SUFFICES ASSUME NEW r \in Procs, NEW q \in Procs, r # q, proc'[r].alone
               PROVE  proc'[q].at = "idle"
    BY DEF AloneIsAlone, At
  <2>1. CASE r = p
    BY <2>1 DEF AloneIsAlone, At
  <2>2. CASE r # p
    <3>1. proc[r].alone
      BY <2>2
    <3>2. At(p, "idle")
      BY <2>2, <3>1 DEF AloneIsAlone
    <3>3. QED
      BY <3>2
  <2>3. QED
    BY <2>1, <2>2
<1>3. QED
  BY <1>1, <1>2

\* As long as the file stays as it is and what is put into the keychain is what a
\* Load may find, a Load finds it.
LEMMA FileKeeps ==
  ASSUME CredInv, file' = file, keys \subseteq keys', pendings \subseteq pendings',
         keychain'.active \in {keychain.active} \cup keys',
         keychain'.pending \in {keychain.pending} \cup pendings'
  PROVE  FileFits' /\ SavedIsLoaded'
<1> USE DEF CredInv
<1>1. FileFits'
  BY DEF FileFits
<1>2. LoadKey \in keys /\ LoadPending \in pendings
  BY DEF SavedIsLoaded
<1>3. LoadKey' \in keys'
  BY <1>2 DEF LoadKey
<1>4. LoadPending' \in pendings'
  BY <1>2 DEF LoadPending
<1>5. QED
  BY <1>1, <1>3, <1>4 DEF SavedIsLoaded

\* The parts of the type invariant, for a step that changes some of them.
LEMMA TypeParts ==
  ASSUME CredInv
  PROVE  /\ file \in [on : {"none", "file", "keychain"}, cfg : Configs]
         /\ file.on # "file" => file.cfg.key = NoKey /\ file.cfg.pending = NoKey
         /\ keychain \in [active : SomeKey, pending : SomeKey]
         /\ proc \in [Procs -> [at : Ats, kind : AllKinds, cfg : Configs, alone : BOOLEAN]]
         /\ hand \in [Procs -> [to : {"none", "login", "pending", "active"}, key : SomeKey]]
         /\ issued \in Keys
         /\ keys \subseteq SomeKey /\ pendings \subseteq SomeKey
         /\ commands \in 0 .. MaxCommands /\ faults \in 0 .. MaxFaults
  BY DEF CredInv, TypeOK, Ats, AllKinds, SomeKey

\* A step that changes no more than proc, hand, the keychain and the counters.
LEMMA QuietType ==
  ASSUME CredInv, UNCHANGED <<file, issued, commands>>,
         keychain' \in [active : SomeKey, pending : SomeKey],
         keys' \subseteq SomeKey, pendings' \subseteq SomeKey,
         proc' \in [Procs -> [at : Ats, kind : AllKinds, cfg : Configs, alone : BOOLEAN]],
         hand' \in [Procs -> [to : {"none", "login", "pending", "active"}, key : SomeKey]],
         faults' = faults \/ Fault
  PROVE  TypeOK'
<1>1. faults' \in 0 .. MaxFaults
  BY TypeParts, ConstantsAssumption DEF Fault
<1>2. QED
  BY TypeParts, <1>1 DEF TypeOK, Ats, AllKinds, SomeKey

\* hydrate (credstore.go:211-225): the active key is read, or the Load fails.
LEMMA GetActiveKeeps ==
  ASSUME CredInv, NEW p \in Procs, GetActive(p)
  PROVE  CredInv'
<1> USE DEF CredInv
<1> DEFINE c == [proc[p].cfg EXCEPT !.key = keychain.active]
<1>1. /\ UNCHANGED <<file, keychain, keys, pendings, issued, commands>>
      /\ proc[p].at = "getActive" /\ ~ At(p, "idle")
      /\ proc[p].cfg.pending = NoKey
      /\ keychain.active \in keys /\ keychain.active \in SomeKey
      /\ faults' = faults \/ Fault
  <2>1. /\ UNCHANGED <<file, keychain, keys, pendings, issued, commands>>
        /\ proc[p].at = "getActive" /\ ~ At(p, "idle") /\ (faults' = faults \/ Fault)
    BY DEF GetActive, At, stored, expected
  <2>2. proc[p].cfg.pending = NoKey /\ keychain.active \in keys
    BY <2>1 DEF ProcInv, IdFits, WritesKnown, OnKeychain
  <2>3. keychain.active \in SomeKey
    BY TypeParts
  <2>4. QED
    BY <2>1, <2>2, <2>3
<1>2. FileFits' /\ SavedIsLoaded'
  BY <1>1, FileKeeps
<1>3. CASE GoWith(p, IF c.id = NoKey THEN "loaded" ELSE "getPending", c) /\ hand' = hand
  <2>1. /\ c \in Configs /\ c.pending = NoKey /\ c.id = proc[p].cfg.id
    BY TypeParts, <1>1 DEF Configs, SomeKey
  <2>2. PICK a \in Ats : /\ GoWith(p, a, c)
                         /\ a = IF c.id = NoKey THEN "loaded" ELSE "getPending"
    BY <1>3 DEF Ats
  <2> HIDE DEF c
  <2>3. /\ proc' \in [Procs -> [at : Ats, kind : AllKinds, cfg : Configs, alone : BOOLEAN]]
        /\ proc'[p] = [at |-> a, kind |-> proc[p].kind, cfg |-> c, alone |-> proc[p].alone]
        /\ \A q \in Procs : q # p => proc'[q] = proc[q]
    BY <2>1, <2>2, GoWithType
  <2>4. TypeOK'
    BY <1>1, <1>3, <2>3, TypeParts, QuietType
  <2>5. HandFits(p)'
    BY <1>1, <1>3, <2>3 DEF ProcInv, HandFits
  <2>6. IdFits(p)' /\ AloneFinds(p)'
    BY <2>1, <2>2, <2>3 DEF IdFits, AloneFinds
  <2>7. WritesKnown(p)'
    BY <1>1, <2>1, <2>2, <2>3 DEF WritesKnown, Storing, OnKeychain
  <2>8. ProcInv(p)'
    BY <2>5, <2>6, <2>7 DEF ProcInv
  <2>9. QED
    BY <1>1, <1>2, <1>3, <2>3, <2>4, <2>8, StepKeeps
<1>4. CASE Done(p) /\ Drop(p)
  <2>1. ProcInv(p)'
    BY <1>4, DoneType, DropType, IdleKeeps DEF Nothing
  <2>2. TypeOK'
    BY <1>1, <1>4, DoneType, DropType, TypeParts, QuietType
  <2>3. /\ \A q \in Procs : q # p => proc'[q] = proc[q] /\ hand'[q] = hand[q]
        /\ ~ proc'[p].alone
    BY <1>4, DoneType, DropType DEF Idle
  <2>4. QED
    BY <1>1, <1>2, <2>1, <2>2, <2>3, StepKeeps
<1>5. QED
  BY <1>3, <1>4 DEF GetActive

\* hydratePending (credstore.go:233-247): the pending key is read, or the
\* rotation is given up.
LEMMA GetPendingKeeps ==
  ASSUME CredInv, NEW p \in Procs, GetPending(p)
  PROVE  CredInv'
<1> USE DEF CredInv
<1> DEFINE c == proc[p].cfg
<1>1. /\ UNCHANGED <<file, keychain, hand, issued, keys, commands>>
      /\ proc[p].at = "getPending" /\ ~ At(p, "idle")
      /\ faults' = faults \/ Fault
      /\ pendings' \in {pendings, pendings \cup {NoKey}}
  BY DEF GetPending, At, stored
<1>2. /\ c \in Configs /\ c.pending = NoKey /\ c.id # NoKey
      /\ keychain.active \in keys /\ keychain.pending \in SomeKey
      /\ pendings \subseteq pendings' /\ pendings' \subseteq SomeKey
  <2>1. c.pending = NoKey /\ c.id # NoKey /\ keychain.active \in keys
    BY <1>1 DEF ProcInv, IdFits, WritesKnown, OnKeychain
  <2>2. QED
    BY <1>1, <2>1, TypeParts DEF SomeKey
<1>3. FileFits' /\ SavedIsLoaded'
  BY <1>1, <1>2, FileKeeps
<1>4. ASSUME NEW a \in {"loaded", "discard"}, NEW d \in Configs, GoWith(p, a, d),
             d.pending = NoKey <=> d.id = NoKey,
             a = "discard" => d.pending = NoKey /\ NoKey \in pendings'
      PROVE  CredInv'
  <2>1. /\ proc' \in [Procs -> [at : Ats, kind : AllKinds, cfg : Configs, alone : BOOLEAN]]
        /\ proc'[p] = [at |-> a, kind |-> proc[p].kind, cfg |-> d, alone |-> proc[p].alone]
        /\ \A q \in Procs : q # p => proc'[q] = proc[q]
    BY <1>4, GoWithType DEF Ats
  <2>2. TypeOK'
    BY <1>1, <1>2, <2>1, TypeParts, QuietType
  <2>3. HandFits(p)'
    BY <1>1, <2>1 DEF ProcInv, HandFits
  <2>4. IdFits(p)' /\ AloneFinds(p)'
    BY <1>4, <2>1 DEF IdFits, AloneFinds
  <2>5. WritesKnown(p)'
    BY <1>1, <1>2, <1>4, <2>1 DEF WritesKnown, Storing, OnKeychain
  <2>6. ProcInv(p)'
    BY <2>3, <2>4, <2>5 DEF ProcInv
  <2>7. QED
    BY <1>1, <1>2, <1>3, <2>1, <2>2, <2>6, StepKeeps
<1>5. CASE keychain.pending # NoKey /\ GoWith(p, "loaded", [c EXCEPT !.pending = keychain.pending])
  <2>1. /\ [c EXCEPT !.pending = keychain.pending] \in Configs
        /\ [c EXCEPT !.pending = keychain.pending].pending # NoKey
        /\ [c EXCEPT !.pending = keychain.pending].id # NoKey
    BY <1>2, <1>5 DEF Configs, SomeKey
  <2>2. QED
    BY <1>4, <1>5, <2>1
<1>6. CASE /\ GoWith(p, "discard", [c EXCEPT !.id = NoKey])
           /\ pendings' = pendings \cup {NoKey}
  <2>1. /\ [c EXCEPT !.id = NoKey] \in Configs
        /\ [c EXCEPT !.id = NoKey].pending = NoKey
        /\ [c EXCEPT !.id = NoKey].id = NoKey
    BY <1>2 DEF Configs
  <2>2. QED
    BY <1>4, <1>6, <2>1
<1>7. QED
  BY <1>5, <1>6 DEF GetPending

\* A Load for its own sake ends, and may leave the daemon a key to verify.
LEMMA LoadEndsKeeps ==
  ASSUME CredInv, NEW p \in Procs, LoadEnds(p)
  PROVE  CredInv'
<1> USE DEF CredInv
<1>1. /\ UNCHANGED <<file, keychain, keys, pendings, issued, faults, commands>>
      /\ ~ At(p, "idle") /\ Done(p)
  BY DEF LoadEnds, At, stored, expected
<1>2. /\ hand' \in [Procs -> [to : {"none", "login", "pending", "active"}, key : SomeKey]]
      /\ hand'[p].to # "none" => hand'[p].key # NoKey
      /\ \A q \in Procs : q # p => hand'[q] = hand[q]
  <2>1. proc[p].cfg.pending \in SomeKey
    BY TypeParts DEF Configs, SomeKey
  <2>2. CASE hand' = hand
    BY <2>2, TypeParts DEF ProcInv, HandFits
  <2>3. CASE /\ hand' = [hand EXCEPT ![p] = [to |-> "active", key |-> proc[p].cfg.pending]]
             /\ proc[p].cfg.pending # NoKey
    BY <2>1, <2>3, TypeParts
  <2>4. QED
    BY <2>2, <2>3 DEF LoadEnds
<1>3. FileFits' /\ SavedIsLoaded'
  BY <1>1, FileKeeps
<1>4. ProcInv(p)'
  BY <1>1, <1>2, DoneType, IdleKeeps
<1>5. TypeOK'
  BY <1>1, <1>2, DoneType, TypeParts, QuietType
<1>6. \A q \in Procs : q # p => proc'[q] = proc[q] /\ hand'[q] = hand[q]
  BY <1>1, <1>2, DoneType
<1>7. ~ proc'[p].alone
  BY <1>1, DoneType DEF Idle
<1>8. QED
  BY <1>1, <1>3, <1>4, <1>5, <1>6, <1>7, StepKeeps

\* A Save of the changed config begins: from now on a Load may find it.
LEMMA ChangeKeeps ==
  ASSUME CredInv, NEW p \in Procs, Change(p)
  PROVE  CredInv'
<1> USE DEF CredInv
<1> DEFINE c == Changed(proc[p].kind, hand[p].key, proc[p].cfg)
<1>1. /\ UNCHANGED <<file, keychain, issued, faults, commands>>
      /\ proc[p].at = "loaded" /\ ~ At(p, "idle") /\ Drop(p)
      /\ keys' = keys \cup {c.key} /\ pendings' = pendings \cup {c.pending}
  BY DEF Change, At, stored
<1>2. PICK a \in {"plain", "setActive"} :
        proc' = [proc EXCEPT ![p].at = a, ![p].cfg = c, ![p].kind = "save"]
  BY DEF Change
<1>3. /\ proc[p].cfg \in Configs /\ hand[p].key \in SomeKey
      /\ proc[p].cfg.pending = NoKey <=> proc[p].cfg.id = NoKey
      /\ proc[p].kind = "rotate" => hand[p].key # NoKey
  BY <1>1, TypeParts DEF ProcInv, HandFits, IdFits
<1>4. c \in Configs /\ (c.pending = NoKey <=> c.id = NoKey)
  <2>1. CASE proc[p].kind = "login"
    BY <1>3, <2>1 DEF Changed, Configs, SomeKey
  <2>2. CASE proc[p].kind = "rotate"
    BY <1>3, <2>2 DEF Changed, Configs, SomeKey
  <2>3. CASE proc[p].kind = "commit"
    BY <1>3, <2>3 DEF Changed, Configs, SomeKey
  <2>4. CASE proc[p].kind = "discard"
    BY <1>3, <2>4 DEF Changed, Configs, SomeKey
  <2>5. CASE proc[p].kind \notin {"login", "rotate", "commit", "discard"}
    BY <1>3, <2>5 DEF Changed
  <2>6. QED
    BY <2>1, <2>2, <2>3, <2>4, <2>5
<1> HIDE DEF c
<1>5. /\ proc' \in [Procs -> [at : Ats, kind : AllKinds, cfg : Configs, alone : BOOLEAN]]
      /\ proc'[p] = [at |-> a, kind |-> "save", cfg |-> c, alone |-> proc[p].alone]
      /\ \A q \in Procs : q # p => proc'[q] = proc[q]
  <2>1. proc \in [Procs -> [at : Ats, kind : AllKinds, cfg : Configs, alone : BOOLEAN]]
    BY TypeParts
  <2>2. c \in Configs /\ a \in Ats /\ "save" \in AllKinds
    BY <1>4 DEF Ats, AllKinds
  <2> HIDE DEF CredInv
  <2>3. QED
    BY <1>2, <2>1, <2>2
<1>6. c.key \in SomeKey /\ c.pending \in SomeKey
  BY <1>4 DEF Configs, SomeKey
<1>7. TypeOK'
  BY <1>1, <1>5, <1>6, DropType, TypeParts, QuietType
<1>8. FileFits' /\ SavedIsLoaded'
  BY <1>1, FileKeeps
<1>9. HandFits(p)' /\ IdFits(p)' /\ AloneFinds(p)'
  BY <1>1, <1>4, <1>5, DropType DEF HandFits, IdFits, AloneFinds, Nothing
<1>10. WritesKnown(p)'
  BY <1>1, <1>5 DEF WritesKnown, Storing, OnKeychain
<1>11. ProcInv(p)'
  BY <1>9, <1>10 DEF ProcInv
<1>12. \A q \in Procs : q # p => proc'[q] = proc[q] /\ hand'[q] = hand[q]
  BY <1>1, <1>5, DropType
<1>13. QED
  BY <1>1, <1>5, <1>7, <1>8, <1>11, <1>12, StepKeeps

\* One of the keychain calls of writeVerified: a config is on its way to the
\* keychain, and after each call the item is what it was set to, unless somebody
\* else has set it (credstore.go:160-188).
LEMMA KeychainCallKeeps ==
  ASSUME CredInv, NEW p \in Procs,
         proc[p].at \in {"setActive", "checkActive", "setPending", "checkPending"},
         NEW a \in {"checkActive", "setPending", "checkPending", "scrub", "plain", "loaded"},
         Go(p, a),
         UNCHANGED <<file, hand, keys, pendings, issued, commands>>,
         faults' = faults \/ Fault,
         keychain' \in [active : SomeKey, pending : SomeKey],
         keychain'.active \in {keychain.active} \cup keys,
         keychain'.pending \in {keychain.pending} \cup pendings,
         a \in {"checkActive", "setPending", "checkPending", "scrub"} =>
           /\ keychain'.active \in keys
           /\ proc[p].alone => keychain'.active = proc[p].cfg.key,
         a \in {"checkPending", "scrub"} /\ proc[p].cfg.pending # NoKey =>
           /\ keychain'.pending \in pendings
           /\ proc[p].alone => keychain'.pending = proc[p].cfg.pending
  PROVE  CredInv'
<1> USE DEF CredInv
<1>1. /\ proc' \in [Procs -> [at : Ats, kind : AllKinds, cfg : Configs, alone : BOOLEAN]]
      /\ proc'[p] = [at |-> a, kind |-> proc[p].kind, cfg |-> proc[p].cfg,
                     alone |-> proc[p].alone]
      /\ \A q \in Procs : q # p => proc'[q] = proc[q]
  BY GoType DEF Ats
<1>2. TypeOK'
  BY <1>1, TypeParts, QuietType
<1>3. FileFits' /\ SavedIsLoaded'
  BY FileKeeps
<1>4. /\ proc[p].cfg.pending = NoKey <=> proc[p].cfg.id = NoKey
      /\ proc[p].cfg.key \in keys /\ proc[p].cfg.pending \in pendings
  BY DEF ProcInv, IdFits, WritesKnown, Storing
<1>5. HandFits(p)'
  BY <1>1 DEF ProcInv, HandFits
<1>6. IdFits(p)' /\ AloneFinds(p)'
  BY <1>1, <1>4 DEF IdFits, AloneFinds
<1>7. WritesKnown(p)'
  BY <1>1, <1>4 DEF WritesKnown, Storing, OnKeychain
<1>8. ProcInv(p)'
  BY <1>5, <1>6, <1>7 DEF ProcInv
<1>9. ~ At(p, "idle") /\ (proc'[p].alone => proc[p].alone)
  BY <1>1 DEF At
<1>10. QED
  BY <1>1, <1>2, <1>3, <1>8, <1>9, StepKeeps

\* What a process on its way to the keychain knows of it.
LEMMA OnItsWay ==
  ASSUME CredInv, NEW p \in Procs,
         proc[p].at \in {"setActive", "checkActive", "setPending", "checkPending", "scrub",
                         "plain"}
  PROVE  /\ proc[p].cfg \in Configs
         /\ proc[p].cfg.key \in keys /\ proc[p].cfg.key \in SomeKey
         /\ proc[p].cfg.pending \in pendings /\ proc[p].cfg.pending \in SomeKey
         /\ proc[p].cfg.pending = NoKey <=> proc[p].cfg.id = NoKey
         /\ proc[p].at \in {"checkActive", "setPending", "checkPending", "scrub"} =>
              /\ keychain.active \in keys
              /\ proc[p].alone => keychain.active = proc[p].cfg.key
         /\ proc[p].at \in {"checkPending", "scrub"} /\ proc[p].cfg.pending # NoKey =>
              /\ keychain.pending \in pendings
              /\ proc[p].alone => keychain.pending = proc[p].cfg.pending
<1> USE DEF CredInv
<1>1. proc[p].cfg \in Configs
  BY TypeParts
<1>2. proc[p].cfg.key \in SomeKey /\ proc[p].cfg.pending \in SomeKey
  BY <1>1 DEF Configs, SomeKey
<1>3. ProcInv(p)
  OBVIOUS
<1>4. /\ proc[p].cfg.pending = NoKey <=> proc[p].cfg.id = NoKey
      /\ proc[p].cfg.key \in keys /\ proc[p].cfg.pending \in pendings
  BY <1>3 DEF ProcInv, IdFits, WritesKnown, Storing
<1>5. proc[p].at \in {"checkActive", "setPending", "checkPending", "scrub"} =>
              /\ keychain.active \in keys
              /\ proc[p].alone => keychain.active = proc[p].cfg.key
  BY <1>3 DEF ProcInv, WritesKnown, AloneFinds, OnKeychain
<1>6. proc[p].at \in {"checkPending", "scrub"} /\ proc[p].cfg.pending # NoKey =>
              /\ keychain.pending \in pendings
              /\ proc[p].alone => keychain.pending = proc[p].cfg.pending
  BY <1>3 DEF ProcInv, WritesKnown, AloneFinds
<1>7. QED
  BY <1>1, <1>2, <1>4, <1>5, <1>6

\* Where a keychain that cannot be used leaves a Load or a Save.
LEMMA FallBackKeeps ==
  ASSUME CredInv, NEW p \in Procs, FallBack(p),
         proc[p].at \in {"setActive", "checkActive", "setPending", "checkPending"},
         UNCHANGED <<file, hand, keys, pendings, issued, commands>>,
         faults' = faults \/ Fault
  PROVE  CredInv'
<1>1. PICK a \in {"plain", "loaded"} : Go(p, a)
  BY DEF FallBack
<1>2. keychain' = keychain
  BY DEF FallBack
<1>3. keychain \in [active : SomeKey, pending : SomeKey]
  BY TypeParts
<1>4. QED
  BY <1>1, <1>2, <1>3, KeychainCallKeeps

\* Set and Get of the active key (credstore.go:161, 175-188).
LEMMA ActiveKeeps ==
  ASSUME CredInv, NEW p \in Procs, SetActive(p) \/ CheckActive(p)
  PROVE  CredInv'
<1>1. /\ UNCHANGED <<file, hand, keys, pendings, issued, commands>>
      /\ faults' = faults \/ Fault
      /\ proc[p].at \in {"setActive", "checkActive"}
  BY DEF SetActive, CheckActive, At, expected
<1>2. /\ proc[p].cfg.key \in keys /\ proc[p].cfg.key \in SomeKey
      /\ keychain \in [active : SomeKey, pending : SomeKey]
  BY <1>1, OnItsWay, TypeParts
<1>3. CASE FallBack(p)
  BY <1>1, <1>3, FallBackKeeps
<1>4. CASE keychain' = [keychain EXCEPT !.active = proc[p].cfg.key] /\ Go(p, "checkActive")
  <2>1. /\ keychain' \in [active : SomeKey, pending : SomeKey]
        /\ keychain'.active = proc[p].cfg.key /\ keychain'.pending = keychain.pending
    BY <1>2, <1>4
  <2>2. QED
    BY <1>1, <1>2, <1>4, <2>1, KeychainCallKeeps
<1>5. CASE /\ keychain.active = proc[p].cfg.key /\ keychain' = keychain
           /\ Go(p, "setPending")
  BY <1>1, <1>2, <1>5, KeychainCallKeeps
<1>6. QED
  BY <1>3, <1>4, <1>5 DEF SetActive, CheckActive

\* The pending key likewise, or the deletion of a stale one (credstore.go:164-170).
LEMMA PendingKeeps ==
  ASSUME CredInv, NEW p \in Procs, SetPending(p) \/ CheckPending(p)
  PROVE  CredInv'
<1> DEFINE k == proc[p].cfg.pending
<1>1. /\ UNCHANGED <<file, hand, keys, pendings, issued, commands>>
      /\ faults' = faults \/ Fault
      /\ proc[p].at \in {"setPending", "checkPending"}
  BY DEF SetPending, CheckPending, At, expected
<1>2. /\ k \in pendings /\ k \in SomeKey
      /\ keychain \in [active : SomeKey, pending : SomeKey]
      /\ keychain.active \in keys
      /\ proc[p].alone => keychain.active = proc[p].cfg.key
  BY <1>1, OnItsWay, TypeParts
<1>3. CASE FallBack(p)
  BY <1>1, <1>3, FallBackKeeps
<1>4. CASE /\ keychain' = [keychain EXCEPT !.pending = k]
           /\ Go(p, IF k = NoKey THEN "scrub" ELSE "checkPending")
  <2>1. /\ keychain' \in [active : SomeKey, pending : SomeKey]
        /\ keychain'.pending = k /\ keychain'.active = keychain.active
    BY <1>2, <1>4
  <2>2. PICK a \in {"scrub", "checkPending"} : Go(p, a)
    BY <1>4
  <2>3. QED
    BY <1>1, <1>2, <2>1, <2>2, KeychainCallKeeps
<1>5. CASE k = NoKey /\ Go(p, "scrub") /\ UNCHANGED keychain
  BY <1>1, <1>2, <1>5, KeychainCallKeeps
<1>6. CASE keychain.pending = k /\ Go(p, "scrub") /\ UNCHANGED keychain
  BY <1>1, <1>2, <1>6, KeychainCallKeeps
<1>7. QED
  BY <1>3, <1>4, <1>5, <1>6 DEF SetPending, CheckPending

\* What a Load finds once a file without secrets is written: the key that is in
\* the keychain, and the pending key if the file names one (credstore.go:192-220).
LEMMA ScrubbedFile ==
  ASSUME CredInv, NEW p \in Procs, proc[p].cfg \in Configs,
         file' = Scrubbed(proc[p].cfg), keychain' = keychain
  PROVE  /\ file' \in [on : {"none", "file", "keychain"}, cfg : Configs]
         /\ file'.on = "keychain" /\ file'.cfg.key = NoKey /\ file'.cfg.pending = NoKey
         /\ FileFits'
         /\ LoadKey' = keychain.active
         /\ LoadPending' = IF proc[p].cfg.id = NoKey THEN NoKey ELSE keychain.pending
<1>1. /\ [Empty EXCEPT !.id = proc[p].cfg.id] \in Configs
      /\ [Empty EXCEPT !.id = proc[p].cfg.id].key = NoKey
      /\ [Empty EXCEPT !.id = proc[p].cfg.id].pending = NoKey
      /\ [Empty EXCEPT !.id = proc[p].cfg.id].id = proc[p].cfg.id
  BY DEF Empty, Configs
<1>2. /\ file' \in [on : {"none", "file", "keychain"}, cfg : Configs]
      /\ file'.on = "keychain" /\ file'.cfg.key = NoKey /\ file'.cfg.pending = NoKey
      /\ file'.cfg.id = proc[p].cfg.id
  BY <1>1 DEF Scrubbed
<1>3. LoadKey' = keychain.active
  BY <1>2 DEF LoadKey
<1>4. LoadPending' = IF proc[p].cfg.id = NoKey THEN NoKey ELSE keychain.pending
  BY <1>2 DEF LoadPending
<1>5. FileFits'
  BY <1>2 DEF FileFits
<1>6. QED
  BY <1>2, <1>3, <1>4, <1>5

\* A step that writes the file.
LEMMA WriteType ==
  ASSUME CredInv, UNCHANGED <<keychain, hand, issued, commands>>,
         file' \in [on : {"none", "file", "keychain"}, cfg : Configs],
         file'.on # "file" => file'.cfg.key = NoKey /\ file'.cfg.pending = NoKey,
         keys' \subseteq SomeKey, pendings' \subseteq SomeKey,
         proc' \in [Procs -> [at : Ats, kind : AllKinds, cfg : Configs, alone : BOOLEAN]],
         faults' = faults \/ Fault
  PROVE  TypeOK'
<1>1. faults' \in 0 .. MaxFaults
  BY TypeParts, ConstantsAssumption DEF Fault
<1>2. QED
  BY TypeParts, <1>1 DEF TypeOK, Ats, AllKinds, SomeKey

\* The rotation that hydratePending gave up is forgotten (credstore.go:239-246).
LEMMA DiscardWriteKeeps ==
  ASSUME CredInv, NEW p \in Procs, DiscardWrite(p)
  PROVE  CredInv'
<1> USE DEF CredInv
<1>1. /\ UNCHANGED <<keychain, hand, issued, keys, pendings, commands>>
      /\ proc[p].at = "discard" /\ ~ At(p, "idle") /\ Go(p, "loaded")
      /\ faults' = faults \/ Fault
  BY DEF DiscardWrite, At, expected
<1>2. /\ proc[p].cfg \in Configs /\ proc[p].cfg.pending = NoKey /\ proc[p].cfg.id = NoKey
      /\ NoKey \in pendings /\ keychain.active \in keys
  <2>1. proc[p].cfg.pending = NoKey /\ proc[p].cfg.id = NoKey
    BY <1>1 DEF ProcInv, IdFits
  <2>2. NoKey \in pendings /\ keychain.active \in keys
    BY <1>1 DEF ProcInv, WritesKnown, OnKeychain
  <2>3. QED
    BY <2>1, <2>2, TypeParts
<1>3. /\ proc' \in [Procs -> [at : Ats, kind : AllKinds, cfg : Configs, alone : BOOLEAN]]
      /\ proc'[p] = [at |-> "loaded", kind |-> proc[p].kind, cfg |-> proc[p].cfg,
                     alone |-> proc[p].alone]
      /\ \A q \in Procs : q # p => proc'[q] = proc[q]
  BY <1>1, GoType DEF Ats
<1>4. ProcInv(p)'
  <2>1. HandFits(p)'
    BY <1>1, <1>3 DEF ProcInv, HandFits
  <2>2. IdFits(p)' /\ AloneFinds(p)' /\ WritesKnown(p)'
    BY <1>2, <1>3 DEF IdFits, AloneFinds, WritesKnown, Storing, OnKeychain
  <2>3. QED
    BY <2>1, <2>2 DEF ProcInv
<1>5. CASE file' = file
  <2>1. FileFits' /\ SavedIsLoaded'
    BY <1>1, <1>5, FileKeeps
  <2>2. TypeOK'
    BY <1>1, <1>3, <1>5, TypeParts, WriteType
  <2>3. QED
    BY <1>1, <1>3, <1>4, <2>1, <2>2, StepKeeps
<1>6. CASE file' = Scrubbed(proc[p].cfg)
  <2>1. /\ file' \in [on : {"none", "file", "keychain"}, cfg : Configs]
        /\ file'.on = "keychain" /\ file'.cfg.key = NoKey /\ file'.cfg.pending = NoKey
        /\ FileFits' /\ LoadKey' = keychain.active /\ LoadPending' = NoKey
    BY <1>1, <1>2, <1>6, ScrubbedFile
  <2>2. SavedIsLoaded'
    BY <1>1, <1>2, <2>1 DEF SavedIsLoaded
  <2>3. TypeOK'
    BY <1>1, <1>3, <2>1, TypeParts, WriteType
  <2>4. QED
    BY <1>1, <1>3, <1>4, <2>1, <2>2, <2>3, StepKeeps
<1>7. QED
  BY <1>5, <1>6 DEF DiscardWrite

\* What a Save that returns nil leaves a Load to find.
LEMMA SavedExpects ==
  ASSUME CredInv, NEW p \in Procs, Saved(p), proc[p].cfg \in Configs,
         proc[p].cfg.key \in keys, proc[p].cfg.pending \in pendings
  PROVE  /\ Done(p)
         /\ keys' \subseteq SomeKey /\ pendings' \subseteq SomeKey
         /\ proc[p].alone \/ (keys' = keys /\ pendings' = pendings)
         /\ proc[p].cfg.key \in keys' /\ proc[p].cfg.pending \in pendings'
         /\ keys' = keys \/ (proc[p].alone /\ keys' = {proc[p].cfg.key})
         /\ pendings' = pendings \/ (proc[p].alone /\ pendings' = {proc[p].cfg.pending})
<1>1. proc[p].cfg.key \in SomeKey /\ proc[p].cfg.pending \in SomeKey
  BY DEF Configs, SomeKey
<1>2. CASE proc[p].alone
  BY <1>1, <1>2 DEF Saved
<1>3. CASE ~ proc[p].alone
  BY <1>1, <1>3, TypeParts DEF Saved, expected
<1>4. QED
  BY <1>2, <1>3

\* saveScrubbed (credstore.go:192-202): the secrets leave the file when both are
\* in the keychain, the Save is done, or a Load that has moved them goes on.
LEMMA ScrubKeeps ==
  ASSUME CredInv, NEW p \in Procs, Scrub(p)
  PROVE  CredInv'
<1> USE DEF CredInv
<1>1. /\ UNCHANGED <<keychain, hand, issued, commands>>
      /\ proc[p].at = "scrub" /\ ~ At(p, "idle")
      /\ faults' = faults \/ Fault
  BY DEF Scrub, At
<1>2. /\ proc[p].cfg \in Configs
      /\ proc[p].cfg.key \in keys /\ proc[p].cfg.pending \in pendings
      /\ proc[p].cfg.pending = NoKey <=> proc[p].cfg.id = NoKey
      /\ keychain.active \in keys
      /\ proc[p].alone => keychain.active = proc[p].cfg.key
      /\ proc[p].cfg.pending # NoKey =>
           /\ keychain.pending \in pendings
           /\ proc[p].alone => keychain.pending = proc[p].cfg.pending
  BY <1>1, OnItsWay
<1>3. ASSUME Go(p, "loaded") PROVE
        /\ proc' \in [Procs -> [at : Ats, kind : AllKinds, cfg : Configs, alone : BOOLEAN]]
        /\ \A q \in Procs : q # p => proc'[q] = proc[q] /\ hand'[q] = hand[q]
        /\ proc'[p].alone => proc[p].alone
        /\ ProcInv(p)'
  <2>1. /\ proc' \in [Procs -> [at : Ats, kind : AllKinds, cfg : Configs, alone : BOOLEAN]]
        /\ proc'[p] = [at |-> "loaded", kind |-> proc[p].kind, cfg |-> proc[p].cfg,
                       alone |-> proc[p].alone]
        /\ \A q \in Procs : q # p => proc'[q] = proc[q]
    BY <1>3, GoType DEF Ats
  <2>2. HandFits(p)'
    BY <1>1, <2>1 DEF ProcInv, HandFits
  <2>3. IdFits(p)' /\ AloneFinds(p)' /\ WritesKnown(p)'
    BY <1>2, <2>1 DEF IdFits, AloneFinds, WritesKnown, Storing, OnKeychain
  <2>4. QED
    BY <1>1, <2>1, <2>2, <2>3 DEF ProcInv
<1>4. ASSUME Done(p) PROVE
        /\ proc' \in [Procs -> [at : Ats, kind : AllKinds, cfg : Configs, alone : BOOLEAN]]
        /\ \A q \in Procs : q # p => proc'[q] = proc[q] /\ hand'[q] = hand[q]
        /\ proc'[p].alone => proc[p].alone
        /\ ProcInv(p)'
  <2>1. hand'[p].to # "none" => hand'[p].key # NoKey
    BY <1>1 DEF ProcInv, HandFits
  <2>2. proc'[p].alone = FALSE
    BY <1>4, DoneType DEF Idle
  <2>3. QED
    BY <1>1, <1>4, <2>1, <2>2, DoneType, IdleKeeps
<1>5. CASE file' = file /\ UNCHANGED expected /\ (Done(p) \/ Go(p, "loaded"))
  <2>1. keys' = keys /\ pendings' = pendings
    BY <1>5 DEF expected
  <2>2. FileFits' /\ SavedIsLoaded'
    BY <1>1, <1>5, <2>1, FileKeeps
  <2>3. TypeOK'
    BY <1>1, <1>3, <1>4, <1>5, <2>1, TypeParts, WriteType
  <2>4. QED
    BY <1>1, <1>3, <1>4, <1>5, <2>1, <2>2, <2>3, StepKeeps
<1>6. CASE file' = Scrubbed(proc[p].cfg) /\ (Saved(p) \/ (Go(p, "loaded") /\ UNCHANGED expected))
  <2>1. /\ file' \in [on : {"none", "file", "keychain"}, cfg : Configs]
        /\ file'.on = "keychain" /\ file'.cfg.key = NoKey /\ file'.cfg.pending = NoKey
        /\ FileFits' /\ LoadKey' = keychain.active
        /\ LoadPending' = IF proc[p].cfg.id = NoKey THEN NoKey ELSE keychain.pending
    BY <1>1, <1>2, <1>6, ScrubbedFile
  <2>2. /\ Done(p) \/ Go(p, "loaded")
        /\ keys' \subseteq SomeKey /\ pendings' \subseteq SomeKey
        /\ proc[p].alone \/ (keys' = keys /\ pendings' = pendings)
        /\ proc[p].cfg.key \in keys' /\ proc[p].cfg.pending \in pendings'
    <3>1. CASE Saved(p)
      BY <1>2, <3>1, SavedExpects
    <3>2. CASE Go(p, "loaded") /\ UNCHANGED expected
      BY <1>2, <3>2, TypeParts DEF expected
    <3>3. QED
      BY <1>6, <3>1, <3>2
  <2>3. SavedIsLoaded'
    <3>1. keychain.active \in keys'
      BY <1>2, <2>2
    <3>2. LoadPending' \in pendings'
      BY <1>2, <2>1, <2>2
    <3>3. QED
      BY <2>1, <3>1, <3>2 DEF SavedIsLoaded
  <2>4. TypeOK'
    BY <1>1, <1>3, <1>4, <2>1, <2>2, WriteType
  <2>5. QED
    BY <1>1, <1>3, <1>4, <2>1, <2>2, <2>3, <2>4, StepKeeps
<1>7. QED
  BY <1>5, <1>6 DEF Scrub

\* A Save that keeps the secrets in the file (credstore.go:104-113).
LEMMA WritePlainKeeps ==
  ASSUME CredInv, NEW p \in Procs, WritePlain(p)
  PROVE  CredInv'
<1> USE DEF CredInv
<1>1. /\ UNCHANGED <<keychain, hand, issued, commands>>
      /\ proc[p].at = "plain" /\ ~ At(p, "idle")
      /\ faults' = faults \/ Fault
  BY DEF WritePlain, At
<1>2. /\ proc[p].cfg \in Configs
      /\ proc[p].cfg.key \in keys /\ proc[p].cfg.pending \in pendings
      /\ proc[p].cfg.pending = NoKey <=> proc[p].cfg.id = NoKey
  BY <1>1, OnItsWay
<1>3. Done(p)
  BY DEF WritePlain, Saved
<1>4. /\ proc' \in [Procs -> [at : Ats, kind : AllKinds, cfg : Configs, alone : BOOLEAN]]
      /\ \A q \in Procs : q # p => proc'[q] = proc[q] /\ hand'[q] = hand[q]
      /\ proc'[p].alone = FALSE
      /\ ProcInv(p)'
  <2>1. hand'[p].to # "none" => hand'[p].key # NoKey
    BY <1>1 DEF ProcInv, HandFits
  <2>2. proc'[p].alone = FALSE
    BY <1>3, DoneType DEF Idle
  <2>3. QED
    BY <1>1, <1>3, <2>1, <2>2, DoneType, IdleKeeps
<1>5. CASE file' = file /\ UNCHANGED expected
  <2>1. keys' = keys /\ pendings' = pendings
    BY <1>5 DEF expected
  <2>2. FileFits' /\ SavedIsLoaded'
    BY <1>1, <1>5, <2>1, FileKeeps
  <2>3. TypeOK'
    BY <1>1, <1>4, <1>5, <2>1, TypeParts, WriteType
  <2>4. QED
    BY <1>1, <1>4, <2>1, <2>2, <2>3, StepKeeps
<1>6. CASE file' = Plain(proc[p].cfg) /\ Saved(p)
  <2>1. /\ file' \in [on : {"none", "file", "keychain"}, cfg : Configs]
        /\ file'.on = "file" /\ file'.cfg = proc[p].cfg
    BY <1>2, <1>6 DEF Plain
  <2>2. /\ keys' \subseteq SomeKey /\ pendings' \subseteq SomeKey
        /\ proc[p].alone \/ (keys' = keys /\ pendings' = pendings)
        /\ proc[p].cfg.key \in keys' /\ proc[p].cfg.pending \in pendings'
    BY <1>2, <1>6, SavedExpects
  <2>3. FileFits'
    BY <1>2, <2>1 DEF FileFits
  <2>4. SavedIsLoaded'
    BY <2>1, <2>2 DEF SavedIsLoaded, LoadKey, LoadPending
  <2>5. TypeOK'
    BY <1>1, <1>4, <2>1, <2>2, WriteType
  <2>6. QED
    BY <1>1, <1>4, <2>2, <2>3, <2>4, <2>5, StepKeeps
<1>7. QED
  BY <1>5, <1>6 DEF WritePlain

\* A Load begins: from now on no other process is alone (credstore.go:79-92).
LEMMA BeginKeeps ==
  ASSUME CredInv, NEW p \in Procs, NEW kind \in Kinds(p), Begin(p, kind)
  PROVE  CredInv'
<1> USE DEF CredInv
<1> DEFINE a == IF file.on = "keychain" THEN "getActive" ELSE Migrates(file.cfg)
           alone == \A q \in Procs : At(q, "idle")
<1>1. /\ UNCHANGED <<file, keychain, hand, issued, keys, pendings, faults>>
      /\ proc[p].at = "idle"
      /\ commands' \in {commands, commands + 1} /\ commands' \in 0 .. MaxCommands
  <2>1. /\ UNCHANGED <<file, keychain, hand, issued, keys, pendings, faults>>
        /\ proc[p].at = "idle"
    BY DEF Begin, At, stored, expected
  <2>2. commands \in 0 .. MaxCommands
    BY TypeParts
  <2>3. commands' = commands \/ (commands < MaxCommands /\ commands' = commands + 1)
    BY DEF Begin
  <2>4. QED
    BY <2>1, <2>2, <2>3, ConstantsAssumption
<1>2. proc' = [q \in Procs |-> IF q = p THEN [at |-> a, kind |-> kind, cfg |-> file.cfg,
                                              alone |-> alone]
                               ELSE [proc[q] EXCEPT !.alone = FALSE]]
  BY DEF Begin
<1>3. /\ a \in {"getActive", "loaded", "setActive"}
      /\ a = "getActive" <=> file.on = "keychain"
  BY DEF Migrates
<1>4. /\ kind \in AllKinds
      /\ kind = "rotate" => hand[p].to # "none"
  <2>1. hand[p].to \in {"none", "login", "pending", "active"}
    BY TypeParts
  <2>2. QED
    BY <2>1 DEF Kinds, AllKinds
<1>5. file.cfg \in Configs /\ alone \in BOOLEAN
  BY TypeParts
<1> HIDE DEF a, alone
<1>6. /\ proc' \in [Procs -> [at : Ats, kind : AllKinds, cfg : Configs, alone : BOOLEAN]]
      /\ proc'[p] = [at |-> a, kind |-> kind, cfg |-> file.cfg, alone |-> alone]
      /\ \A q \in Procs : q # p => proc'[q] = [proc[q] EXCEPT !.alone = FALSE]
  <2>1. proc \in [Procs -> [at : Ats, kind : AllKinds, cfg : Configs, alone : BOOLEAN]]
    BY TypeParts
  <2>2. a \in Ats
    BY <1>3 DEF Ats
  <2> HIDE DEF CredInv
  <2>3. QED
    BY <1>2, <1>4, <1>5, <2>1, <2>2
<1>7. \A q \in Procs : q # p => /\ proc'[q].at = proc[q].at /\ proc'[q].kind = proc[q].kind
                               /\ proc'[q].cfg = proc[q].cfg /\ proc'[q].alone = FALSE
  <2>1. proc \in [Procs -> [at : Ats, kind : AllKinds, cfg : Configs, alone : BOOLEAN]]
    BY TypeParts
  <2>2. QED
    BY <1>6, <2>1
<1>8. TypeOK'
  BY <1>1, <1>6, TypeParts DEF TypeOK, Ats, AllKinds, SomeKey
<1>9. FileFits' /\ SavedIsLoaded'
  BY <1>1, FileKeeps
<1>10. ProcInv(p)'
  <2>1. LoadKey \in keys /\ LoadPending \in pendings
    BY DEF SavedIsLoaded
  <2>2. HandFits(p)' /\ AloneFinds(p)'
    BY <1>1, <1>3, <1>4, <1>6 DEF ProcInv, HandFits, AloneFinds
  <2>3. IdFits(p)'
    <3>1. file.on = "keychain" => file.cfg.pending = NoKey
      BY TypeParts
    <3>2. QED
      BY <1>3, <1>6, <3>1 DEF IdFits, FileFits
  <2>4. WritesKnown(p)'
    <3>1. CASE file.on = "keychain"
      BY <1>1, <1>3, <1>6, <2>1, <3>1 DEF WritesKnown, LoadKey, Storing, OnKeychain
    <3>2. CASE file.on # "keychain"
      BY <1>1, <1>3, <1>6, <2>1, <3>2
      DEF WritesKnown, LoadKey, LoadPending, Storing, OnKeychain
    <3>3. QED
      BY <3>1, <3>2
  <2>5. QED
    BY <2>2, <2>3, <2>4 DEF ProcInv
<1>11. ASSUME NEW q \in Procs, q # p PROVE ProcInv(q)'
  <2>1. ProcInv(q)
    OBVIOUS
  <2>2. HandFits(q)' /\ IdFits(q)' /\ AloneFinds(q)' /\ WritesKnown(q)'
    BY <1>1, <1>7, <1>11, <2>1 DEF ProcInv, HandFits, IdFits, AloneFinds, WritesKnown
  <2>3. QED
    BY <2>2 DEF ProcInv
<1>12. AloneIsAlone'
  <2> SUFFICES ASSUME NEW r \in Procs, NEW q \in Procs, r # q, proc'[r].alone
               PROVE  proc'[q].at = "idle"
    BY DEF AloneIsAlone, At
  <2>1. r = p
    BY <1>7
  <2>2. alone
    BY <1>6, <2>1
  <2>3. proc[q].at = "idle"
    BY <2>2 DEF alone, At
  <2>4. QED
    BY <1>7, <2>1, <2>3
<1>13. QED
  BY <1>8, <1>9, <1>10, <1>11, <1>12

\* A kill loses what the process had in memory, and no more.
LEMMA KillKeeps ==
  ASSUME CredInv, NEW p \in Procs, Kill(p)
  PROVE  CredInv'
<1> USE DEF CredInv
<1>1. /\ UNCHANGED <<file, keychain, keys, pendings, issued, commands>>
      /\ ~ At(p, "idle") /\ Done(p) /\ Drop(p) /\ Fault
  BY DEF Kill, stored, expected
<1>2. ProcInv(p)'
  BY <1>1, DoneType, DropType, IdleKeeps DEF Nothing
<1>3. TypeOK'
  BY <1>1, DoneType, DropType, TypeParts, QuietType
<1>4. /\ \A q \in Procs : q # p => proc'[q] = proc[q] /\ hand'[q] = hand[q]
      /\ ~ proc'[p].alone
  BY <1>1, DoneType, DropType DEF Idle
<1>5. FileFits' /\ SavedIsLoaded'
  BY <1>1, FileKeeps
<1>6. QED
  BY <1>1, <1>2, <1>3, <1>4, <1>5, StepKeeps

\* A key is issued to an idle process, or the verification of one gets no answer.
LEMMA HandKeeps ==
  ASSUME CredInv, (\E p \in Procs : GetKey(p)) \/ VerifyLost
  PROVE  CredInv'
<1> USE DEF CredInv
<1>1. /\ UNCHANGED <<file, keychain, proc, keys, pendings, commands, faults>>
      /\ issued' \in Keys
      /\ hand' \in [Procs -> [to : {"none", "login", "pending", "active"}, key : SomeKey]]
      /\ \A q \in Procs : /\ hand'[q].to # "none" => hand'[q].key # NoKey
                          /\ hand'[q] = hand[q] \/ proc[q].at = "idle"
  <2>1. ASSUME NEW p \in Procs, GetKey(p) PROVE
          /\ UNCHANGED <<file, keychain, proc, keys, pendings, commands, faults>>
          /\ issued' \in Keys
          /\ hand' \in [Procs -> [to : {"none", "login", "pending", "active"}, key : SomeKey]]
          /\ \A q \in Procs : /\ hand'[q].to # "none" => hand'[q].key # NoKey
                              /\ hand'[q] = hand[q] \/ proc[q].at = "idle"
    <3>1. UNCHANGED <<file, keychain, proc, keys, pendings, commands, faults>>
      BY <2>1 DEF GetKey, stored, expected
    <3>2. issued' \in Keys /\ issued' # NoKey
      BY <2>1, TypeParts, ConstantsAssumption DEF GetKey, Keys, NoKey
    <3>3. PICK t \in {"pending", "login"} :
            hand' = [hand EXCEPT ![p] = [to |-> t, key |-> issued']]
      BY <2>1 DEF GetKey
    <3>4. /\ hand' \in [Procs -> [to : {"none", "login", "pending", "active"}, key : SomeKey]]
          /\ hand'[p].key # NoKey
          /\ \A q \in Procs : q # p => hand'[q] = hand[q]
      BY <3>2, <3>3, TypeParts DEF SomeKey
    <3>5. proc[p].at = "idle"
      BY <2>1 DEF GetKey, At
    <3>6. \A q \in Procs : hand[q].to # "none" => hand[q].key # NoKey
      BY DEF ProcInv, HandFits
    <3>7. QED
      BY <3>1, <3>2, <3>4, <3>5, <3>6
  <2>2. ASSUME VerifyLost PROVE
          /\ UNCHANGED <<file, keychain, proc, keys, pendings, commands, faults>>
          /\ issued' \in Keys
          /\ hand' \in [Procs -> [to : {"none", "login", "pending", "active"}, key : SomeKey]]
          /\ \A q \in Procs : /\ hand'[q].to # "none" => hand'[q].key # NoKey
                              /\ hand'[q] = hand[q] \/ proc[q].at = "idle"
    <3>1. /\ UNCHANGED <<file, keychain, proc, keys, pendings, commands, faults, issued>>
          /\ Drop("daemon") /\ proc["daemon"].at = "idle" /\ "daemon" \in Procs
      BY <2>2 DEF VerifyLost, stored, expected, At, Procs
    <3>2. /\ hand' \in [Procs -> [to : {"none", "login", "pending", "active"}, key : SomeKey]]
          /\ hand'["daemon"] = Nothing
          /\ \A q \in Procs : q # "daemon" => hand'[q] = hand[q]
      BY <3>1, DropType
    <3>3. \A q \in Procs : hand[q].to # "none" => hand[q].key # NoKey
      BY DEF ProcInv, HandFits
    <3>4. QED
      BY <3>1, <3>2, <3>3, TypeParts DEF Nothing
  <2>3. QED
    BY <2>1, <2>2
<1>2. TypeOK'
  BY <1>1, TypeParts DEF TypeOK, Ats, AllKinds, SomeKey
<1>3. FileFits' /\ SavedIsLoaded'
  BY <1>1, FileKeeps
<1>4. ASSUME NEW q \in Procs PROVE ProcInv(q)'
  <2>1. ProcInv(q)
    OBVIOUS
  <2>2. HandFits(q)'
    BY <1>1, <2>1 DEF ProcInv, HandFits
  <2>3. IdFits(q)' /\ AloneFinds(q)' /\ WritesKnown(q)'
    BY <1>1, <2>1 DEF ProcInv, IdFits, AloneFinds, WritesKnown
  <2>4. QED
    BY <2>2, <2>3 DEF ProcInv
<1>5. AloneIsAlone'
  BY <1>1 DEF AloneIsAlone, At
<1>6. QED
  BY <1>2, <1>3, <1>4, <1>5

\* A keychain item is gone: a Load may find that, and no process is alone.
LEMMA ItemLostKeeps ==
  ASSUME CredInv, ItemLost
  PROVE  CredInv'
<1> USE DEF CredInv
<1>1. /\ UNCHANGED <<file, hand, issued, commands>> /\ Fault
      /\ proc' = [p \in Procs |-> [proc[p] EXCEPT !.alone = FALSE]]
  BY DEF ItemLost
<1>2. /\ keys \subseteq keys' /\ pendings \subseteq pendings'
      /\ keys' \subseteq SomeKey /\ pendings' \subseteq SomeKey
      /\ keychain' \in [active : SomeKey, pending : SomeKey]
      /\ keychain'.active \in {keychain.active} \cup keys'
      /\ keychain'.pending \in {keychain.pending} \cup pendings'
  <2>1. NoKey \in SomeKey
    BY DEF SomeKey
  <2>2. CASE /\ keychain' = [keychain EXCEPT !.active = NoKey]
             /\ keys' = keys \cup {NoKey} /\ UNCHANGED pendings
    BY <2>1, <2>2, TypeParts
  <2>3. CASE /\ keychain' = [keychain EXCEPT !.pending = NoKey]
             /\ pendings' = pendings \cup {NoKey} /\ UNCHANGED keys
    BY <2>1, <2>3, TypeParts
  <2>4. QED
    BY <2>2, <2>3 DEF ItemLost
<1>3. /\ proc' \in [Procs -> [at : Ats, kind : AllKinds, cfg : Configs, alone : BOOLEAN]]
      /\ \A q \in Procs : /\ proc'[q].at = proc[q].at /\ proc'[q].kind = proc[q].kind
                          /\ proc'[q].cfg = proc[q].cfg /\ proc'[q].alone = FALSE
  <2>1. proc \in [Procs -> [at : Ats, kind : AllKinds, cfg : Configs, alone : BOOLEAN]]
    BY TypeParts
  <2> HIDE DEF CredInv
  <2>2. QED
    BY <1>1, <2>1
<1>4. TypeOK'
  BY <1>1, <1>2, <1>3, TypeParts, QuietType
<1>5. FileFits' /\ SavedIsLoaded'
  BY <1>1, <1>2, FileKeeps
<1>6. ASSUME NEW q \in Procs PROVE ProcInv(q)'
  <2>1. ProcInv(q)
    OBVIOUS
  <2>2. HandFits(q)' /\ IdFits(q)' /\ AloneFinds(q)'
    BY <1>1, <1>3, <2>1 DEF ProcInv, HandFits, IdFits, AloneFinds
  <2>3. WritesKnown(q)'
    BY <1>2, <1>3, <2>1 DEF ProcInv, WritesKnown
  <2>4. QED
    BY <2>2, <2>3 DEF ProcInv
<1>7. AloneIsAlone'
  BY <1>3 DEF AloneIsAlone, At
<1>8. QED
  BY <1>4, <1>5, <1>6, <1>7

\* Every step of the daemon, a command, the keychain and the backend keeps it.
LEMMA CredStep == CredInv /\ [Next]_vars => CredInv'
<1> SUFFICES ASSUME CredInv, [Next]_vars PROVE CredInv'
  OBVIOUS
<1>1. ASSUME NEW p \in Procs, Step(p) PROVE CredInv'
  BY <1>1, GetActiveKeeps, GetPendingKeeps, DiscardWriteKeeps, LoadEndsKeeps, ChangeKeeps,
     ActiveKeeps, PendingKeeps, ScrubKeeps, WritePlainKeeps DEF Step
<1>2. ASSUME NEW p \in Procs, (\E kind \in Kinds(p) : Begin(p, kind)) \/ GetKey(p) \/ Kill(p)
      PROVE  CredInv'
  BY <1>2, BeginKeeps, HandKeeps, KillKeeps
<1>3. CASE VerifyLost \/ ItemLost
  BY <1>3, HandKeeps, ItemLostKeeps
<1>4. CASE UNCHANGED vars
  <2>1. UNCHANGED <<file, keychain, proc, hand, issued, keys, pendings, commands, faults>>
    BY <1>4 DEF vars, stored, expected
  <2>2. FileFits' /\ SavedIsLoaded'
    BY <2>1, FileKeeps
  <2>3. ASSUME NEW q \in Procs PROVE ProcInv(q)'
    <3>1. ProcInv(q)
      BY DEF CredInv
    <3>2. QED
      BY <2>1, <3>1 DEF ProcInv, HandFits, IdFits, AloneFinds, WritesKnown
  <2>4. TypeOK' /\ AloneIsAlone'
    BY <2>1 DEF CredInv, TypeOK, AloneIsAlone, At
  <2>5. QED
    BY <2>2, <2>3, <2>4 DEF CredInv
<1>5. QED
  BY <1>1, <1>2, <1>3, <1>4 DEF Next

\* The state keeps its types, and a file on the keychain holds no secret, however
\* the daemon and a command interleave and whatever fails (credstore.go:192-202).
THEOREM CredTypeCorrect == Spec => []TypeOK
<1>1. CredInv => TypeOK
  BY DEF CredInv
<1>2. QED
  BY <1>1, CredInit, CredStep, PTL DEF Spec

\* At every moment a Load finds the keys that the last Save that ran alone left,
\* or those that a Save begun since was asked to store (credstore.go:145-157).
THEOREM SecretsAreNeverNowhere == Spec => []SavedIsLoaded
<1>1. CredInv => SavedIsLoaded
  BY DEF CredInv
<1>2. QED
  BY <1>1, CredInit, CredStep, PTL DEF Spec
=============================================================================

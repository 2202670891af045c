------------------------- MODULE KeyRotationProofs -------------------------
(***************************************************************************)
(* Theorems about KeyRotation, for any number of keys, logins, revocations *)
(* and faults.  A save writes what was loaded before, so the invariant     *)
(* says how the copy that is about to be saved differs from the file, and  *)
(* what the uploader holds from the file while it waits for an answer.     *)
(***************************************************************************)
EXTENDS KeyRotation, TLAPS

Modes == {"active", "degraded"}
Whys == {"check", "beat", "flush"}

Issued(k) == life[k] # "unissued"
IsNewest(m) == \A k \in Keys : Issued(k) <=> k <= m

\* The backend issues one key after the other.
IssuedInOrder == \E m \in Keys : IsNewest(m)

WasIssued(c) == Issued(c.key) /\ (c.pending # NoKey => Issued(c.pending))

\* No one makes up a key.
KeysAreIssued ==
  /\ WasIssued(cfg)
  /\ copy # NoConfig => WasIssued(copy)
  /\ loginCopy # NoConfig => WasIssued(loginCopy)
  /\ held # NoKey => Issued(held)
  /\ login # NoKey => Issued(login)

\* Until two saves overlap, a login's copy is what is in the file.
LoginKeeps == ~clash /\ loginCopy # NoConfig => loginCopy = cfg

\* The key being verified is the pending key in the file.
VerifiesPending == ~clash /\ up /\ pc = "verify" => held = cfg.pending

\* A key is rotated only when none is pending: on a 401 the key that is to be
\* rotated has expired, and the backend refuses.
RotatesAlone ==
  up /\ pc \in {"rotate", "persist"} =>
    IF why = "check" THEN ~clash => cfg.pending = NoKey
                     ELSE pc = "rotate" /\ life[client] = "expired"

\* The copy to be saved has the key in the file or its pending key, and drops
\* the pending key only if that becomes the key or is not valid.
SaveFollows ==
  ~clash /\ up /\ pc = "save" =>
    /\ copy.key \in {cfg.key, cfg.pending}
    /\ cfg.pending # NoKey /\ copy.pending # cfg.pending =>
         copy.key = cfg.pending \/ ~Valid(cfg.pending)

\* The reason that is about to be saved is the daemon's.
ReasonFollows ==
  faults = 0 => /\ up
                /\ pc = "save" /\ ~clash => copy.reason = authReason

\* An active daemon has none.
ActiveHasNone == mode = "active" => authReason = ""

\* The key in the file, and in every copy that may become the file, is one
\* that the backend has accepted or has issued to a login.
KeysAreVerified ==
  /\ cfg.key \in verified
  /\ copy # NoConfig => copy.key \in verified
  /\ loginCopy # NoConfig => loginCopy.key \in verified
  /\ login # NoKey => login \in verified

\* Without a login the daemon is the only one that writes.
NoLoginYet == logins = 0 => login = NoKey /\ loginCopy = NoConfig /\ ~clash

\* And then a pending key was issued after the key in use.
PendingIsNewer ==
  logins = 0 =>
    /\ cfg.pending # NoKey => cfg.pending > cfg.key
    /\ up /\ pc = "save" /\ copy.pending # NoKey => copy.pending > copy.key
    /\ up /\ pc = "persist" => held > cfg.key

\* The newest key is in the file, or on its way there, and no save drops it.
NewestIsHeld ==
  \A m \in Keys : IsNewest(m) /\ logins = 0 /\ Valid(m) /\ m \notin mislaid =>
    /\ \/ m \in {cfg.key, cfg.pending}
       \/ up /\ pc = "persist" /\ held = m
       \/ up /\ pc = "save" /\ held = m /\ copy.pending = m
    /\ up /\ pc = "save" /\ m \in {cfg.key, cfg.pending} => m \in {copy.key, copy.pending}

\* The inductive invariant.
KeyInv ==
  /\ IssuedInOrder
  /\ KeysAreIssued
  /\ LoginKeeps
  /\ VerifiesPending
  /\ RotatesAlone
  /\ SaveFollows
  /\ ReasonFollows
  /\ AuthReasonIsRight
  /\ ActiveHasNone
  /\ KeysAreVerified
  /\ NoLoginYet
  /\ PendingIsNewer
  /\ NewestIsHeld

\* The backend's keys only age: what was issued stays so, and what is no longer
\* accepted is never accepted again.
Aged ==
  \A k \in Keys : /\ Issued(k) => Issued(k)'
                  /\ Issued(k) /\ Valid(k)' => Valid(k)
                  /\ life[k] = "expired" => life'[k] = "expired"
-----------------------------------------------------------------------------
\* What a config written by the code has.
Like(c, key, pending, reason) ==
  c \in Configs /\ c.key = key /\ c.pending = pending /\ c.reason = reason

\* NoConfig is not a config.
LEMMA ConfigFields ==
  ASSUME NEW c \in Configs
  PROVE  c.key \in Keys /\ c.pending \in Keys \cup {NoKey} /\ c.reason \in Reasons /\ c # NoConfig
<1>1. c.key \in Keys /\ c.pending \in Keys \cup {NoKey} /\ c.reason \in Reasons
  BY DEF Configs, Reasons
<1>2. c = NoConfig => c.key = 0
  BY DEF NoConfig, NoKey
<1>3. 0 \notin Keys
  BY DEF Keys
<1> QED
  BY <1>1, <1>2, <1>3

\* The changes that mutateConfig and persistLogin make.
LEMMA Edits ==
  ASSUME NEW c \in Configs, NEW k \in Keys, NEW r \in Reasons
  PROVE  /\ Like([c EXCEPT !.reason = r], c.key, c.pending, r)
         /\ Like([c EXCEPT !.reason = "", !.exp = k], c.key, c.pending, "")
         /\ Like([c EXCEPT !.recent = TRUE], c.key, c.pending, c.reason)
         /\ Like([c EXCEPT !.recent = FALSE], c.key, c.pending, c.reason)
         /\ Like([c EXCEPT !.pending = k, !.recent = TRUE], c.key, k, c.reason)
         /\ Like([c EXCEPT !.pending = NoKey], c.key, NoKey, c.reason)
         /\ Like([c EXCEPT !.key = k, !.exp = k], k, c.pending, c.reason)
         /\ Like([c EXCEPT !.key = k, !.exp = k, !.pending = NoKey], k, NoKey, c.reason)
<1>1. Like([c EXCEPT !.reason = r], c.key, c.pending, r)
  BY DEF Like, Configs, Reasons
<1>2. Like([c EXCEPT !.reason = "", !.exp = k], c.key, c.pending, "")
  BY DEF Like, Configs, Reasons
<1>3. /\ Like([c EXCEPT !.recent = TRUE], c.key, c.pending, c.reason)
      /\ Like([c EXCEPT !.recent = FALSE], c.key, c.pending, c.reason)
  BY DEF Like, Configs
<1>4. Like([c EXCEPT !.pending = k, !.recent = TRUE], c.key, k, c.reason)
  BY DEF Like, Configs
<1>5. Like([c EXCEPT !.pending = NoKey], c.key, NoKey, c.reason)
  BY DEF Like, Configs
<1>6. Like([c EXCEPT !.key = k, !.exp = k], k, c.pending, c.reason)
  BY DEF Like, Configs
<1>7. Like([c EXCEPT !.key = k, !.exp = k, !.pending = NoKey], k, NoKey, c.reason)
  BY DEF Like, Configs
<1> QED
  BY <1>1, <1>2, <1>3, <1>4, <1>5, <1>6, <1>7

\* There is one newest key, and Newest is it.
LEMMA NewestIsNewest ==
  ASSUME TypeOK, NEW m \in Keys, IsNewest(m)
  PROVE  Newest = m
<1>1. Issued(m) /\ \A j \in Keys : j > m => life[j] = "unissued"
  BY DEF IsNewest, Issued, Keys
<1>2. ASSUME NEW k \in Keys, life[k] # "unissued", \A j \in Keys : j > k => life[j] = "unissued"
      PROVE  k = m
  <2>1. k <= m
    BY <1>2 DEF IsNewest, Issued
  <2>2. ~ m > k
    BY <1>1, <1>2 DEF Issued
  <2> QED
    BY <2>1, <2>2, ConstantsAssumption DEF Keys
<1> QED
  BY <1>1, <1>2 DEF Newest, Issued

\* A key issued is newer than all before it.
LEMMA IssueNext ==
  ASSUME IssuedInOrder, NEW n \in Keys, ~Issued(n), \A j \in Keys : j < n => Issued(j),
         \A k \in Keys : Issued(k)' <=> Issued(k) \/ k = n
  PROVE  /\ IsNewest(n)' /\ IssuedInOrder'
         /\ \A m \in Keys : IsNewest(m)' => m = n
         /\ \A k \in Keys : Issued(k) => k < n
<1>1. PICK l \in Keys : IsNewest(l)
  BY DEF IssuedInOrder
<1>2. \A k \in Keys : Issued(k) => k < n
  BY <1>1 DEF IsNewest, Keys
<1>3. \A k \in Keys : Issued(k)' <=> k <= n
  BY <1>2 DEF Keys
<1>4. IsNewest(n)'
  BY <1>3 DEF IsNewest
<1>5. \A m \in Keys : IsNewest(m)' => m = n
  BY <1>3 DEF IsNewest, Keys
<1> QED
  BY <1>2, <1>4, <1>5 DEF IssuedInOrder

\* While no key is issued the newest one stays the newest.
LEMMA NewestStays ==
  ASSUME IssuedInOrder, \A k \in Keys : Issued(k)' <=> Issued(k)
  PROVE  IssuedInOrder' /\ \A m \in Keys : IsNewest(m)' <=> IsNewest(m)
  BY DEF IssuedInOrder, IsNewest

\* A backend that does nothing ages nothing.
LEMMA AgedSame == UNCHANGED life => Aged /\ \A k \in Keys : Issued(k)' <=> Issued(k)
  BY DEF Aged, Issued, Valid

\* The uploader decides to save c.
LEMMA WriteStep ==
  ASSUME TypeOK, KeyInv, up, pc # "save",
         NEW c \in Configs, NEW next \in {"wait", "check", "recover", "flush"}, Write(c, next),
         UNCHANGED <<cfg, user, held, revokes>>, up' = up, up',
         life' \in [Keys -> Lives], Aged, IssuedInOrder',
         client' \in Keys, mode' \in Modes, why' \in Whys,
         faults' \in 0 .. MaxFaults, faults' = 0 => faults = 0, mislaid' \subseteq Keys,
         verified \subseteq verified', verified' \subseteq Keys,
         WasIssued(c), c.key \in verified',
         authReason' \in Reasons, mode' = "active" => authReason' = "",
         ~clash => /\ c.key \in {cfg.key, cfg.pending}
                   /\ cfg.pending # NoKey /\ c.pending # cfg.pending =>
                        c.key = cfg.pending \/ ~Valid(cfg.pending),
         faults = 0 /\ ~clash => c.reason = authReason',
         logins = 0 /\ c.pending # NoKey => c.pending > c.key,
         \A m \in Keys : IsNewest(m)' /\ logins = 0 /\ Valid(m)' /\ m \notin mislaid' =>
           /\ m \in {cfg.key, cfg.pending} \/ (held = m /\ c.pending = m)
           /\ m \in {cfg.key, cfg.pending} => m \in {c.key, c.pending}
  PROVE  TypeOK' /\ KeyInv'
<1>t. pc' = "save" /\ copy' = c /\ copy' # NoConfig /\ then' = next
      /\ UNCHANGED <<cfg, up, held, login, loginCopy, logins, clash>>
  BY ConfigFields DEF Write, user
<1>f. /\ cfg.key \in Keys /\ cfg.pending \in Keys \cup {NoKey}
      /\ loginCopy # NoConfig => loginCopy.key \in Keys /\ loginCopy.pending \in Keys \cup {NoKey}
      /\ c.key \in Keys /\ c.pending \in Keys \cup {NoKey}
  BY ConfigFields DEF TypeOK
<1>1. TypeOK'
  BY <1>t DEF TypeOK, Modes, Whys
<1>2. KeysAreIssued'
  <2>1. \A k \in Keys : Issued(k) => Issued(k)'
    BY DEF Aged
  <2> QED
    BY <1>t, <1>f, <2>1 DEF KeyInv, KeysAreIssued, WasIssued, TypeOK
<1>3. LoginKeeps' /\ VerifiesPending' /\ RotatesAlone' /\ AuthReasonIsRight' /\ NoLoginYet'
  BY <1>t DEF KeyInv, LoginKeeps, VerifiesPending, RotatesAlone, AuthReasonIsRight, NoLoginYet
<1>8. ActiveHasNone' /\ KeysAreVerified'
  <2>1. ActiveHasNone'
    BY DEF ActiveHasNone
  <2>2. KeysAreVerified'
    BY <1>t DEF KeyInv, KeysAreVerified
  <2> QED
    BY <2>1, <2>2
<1>4. SaveFollows'
  <2>1. cfg.pending # NoKey => (~Valid(cfg.pending) => ~Valid(cfg.pending)')
    BY <1>f DEF KeyInv, KeysAreIssued, WasIssued, Aged
  <2> QED
    BY <1>t, <2>1 DEF SaveFollows
<1>5. ReasonFollows'
  <2>1. up'
    OBVIOUS
  <2>2. ASSUME faults' = 0, ~clash' PROVE copy'.reason = authReason'
    <3>1. faults = 0 /\ ~clash /\ copy' = c
      BY <1>t, <2>2
    <3>2. c.reason = authReason'
      BY <3>1
    <3> QED
      BY <3>1, <3>2
  <2> QED
    BY <2>1, <2>2 DEF ReasonFollows
<1>6. PendingIsNewer'
  BY <1>t DEF KeyInv, PendingIsNewer
<1>7. NewestIsHeld'
  <2> SUFFICES ASSUME NEW m \in Keys, IsNewest(m)', logins' = 0, Valid(m)', m \notin mislaid'
               PROVE  /\ m \in {cfg.key, cfg.pending} \/ (held = m /\ c.pending = m)
                      /\ m \in {cfg.key, cfg.pending} => m \in {c.key, c.pending}
    <3>1. pc' = "save" /\ copy' = c /\ cfg' = cfg /\ held' = held /\ logins' = logins
      BY <1>t
    <3> QED
      BY <3>1 DEF NewestIsHeld
  <2>1. logins = 0
    BY <1>t
  <2> QED
    BY <2>1
<1> QED
  BY <1>1, <1>2, <1>3, <1>4, <1>5, <1>6, <1>7, <1>8 DEF KeyInv

\* The uploader goes on without a save.
LEMMA GotoStep ==
  ASSUME TypeOK, KeyInv, up, pc \notin {"save", "persist"},
         NEW next \in {"wait", "beat", "check", "rotate", "recover", "verify", "flush"}, Goto(next),
         UNCHANGED <<server, cfg, auth, user, faults, past>>, up' = up, up',
         client' \in Keys, why' \in Whys, held' \in {held, NoKey, cfg.pending},
         next = "verify" => held' = cfg.pending /\ held' # NoKey,
         next = "rotate" => IF why' = "check" THEN cfg.pending = NoKey
                                              ELSE life[client'] = "expired"
  PROVE  TypeOK' /\ KeyInv'
<1>t. pc' = next /\ UNCHANGED <<copy, then, life, revokes, cfg, up, mode, authReason, login,
                                loginCopy, logins, clash, faults, mislaid, verified>>
  BY DEF Goto, server, user, auth, past
<1>f. cfg.key \in Keys /\ cfg.pending \in Keys \cup {NoKey}
  BY ConfigFields DEF TypeOK
<1>1. TypeOK'
  BY <1>t, <1>f DEF TypeOK, Whys
<1>2. KeysAreIssued' /\ IssuedInOrder'
  BY <1>t, <1>f DEF KeyInv, KeysAreIssued, WasIssued, Issued, IssuedInOrder, IsNewest
<1>3. LoginKeeps' /\ VerifiesPending' /\ SaveFollows' /\ NoLoginYet'
  BY <1>t DEF KeyInv, LoginKeeps, VerifiesPending, SaveFollows, NoLoginYet
<1>4. RotatesAlone'
  BY <1>t DEF KeyInv, RotatesAlone
<1>5. ReasonFollows' /\ AuthReasonIsRight'
  <2>1. ReasonFollows'
    <3>1. pc' # "save"
      BY <1>t
    <3> QED
      BY <3>1 DEF ReasonFollows
  <2>2. pc # "save" /\ up /\ UNCHANGED <<cfg, mode, authReason, faults, clash>>
    BY <1>t
  <2>3. AuthReasonIsRight'
    BY <2>2 DEF KeyInv, AuthReasonIsRight
  <2> QED
    BY <2>1, <2>3
<1>8. ActiveHasNone' /\ KeysAreVerified'
  BY <1>t DEF KeyInv, ActiveHasNone, KeysAreVerified
<1>6. PendingIsNewer'
  BY <1>t DEF KeyInv, PendingIsNewer
<1>7. NewestIsHeld'
  BY <1>t DEF KeyInv, NewestIsHeld, IsNewest, Issued, Valid
<1> QED
  BY <1>1, <1>2, <1>3, <1>4, <1>5, <1>6, <1>7, <1>8 DEF KeyInv

\* A step of the backend or of a login that writes nothing.
LEMMA QuietStep ==
  ASSUME TypeOK, KeyInv, TypeOK',
         UNCHANGED <<cfg, up, auth, client, flow, clash, faults, mislaid>>,
         Aged, IssuedInOrder',
         verified \subseteq verified', login' # NoKey => login' \in verified',
         login' # NoKey => life'[login'] # "unissued", loginCopy' \in {loginCopy, cfg},
         logins' = 0 => /\ logins = 0 /\ login' = NoKey /\ loginCopy' = NoConfig
                        /\ \A k \in Keys : Issued(k)' <=> Issued(k)
  PROVE  KeyInv'
<1>t. UNCHANGED <<cfg, up, mode, authReason, client, pc, why, held, copy, then, clash, faults,
                  mislaid>>
  BY DEF flow, auth
<1>f. /\ cfg.key \in Keys /\ cfg.pending \in Keys \cup {NoKey} /\ client \in Keys
      /\ held \in Keys \cup {NoKey}
      /\ copy # NoConfig => copy.key \in Keys /\ copy.pending \in Keys \cup {NoKey}
      /\ loginCopy # NoConfig => loginCopy.key \in Keys /\ loginCopy.pending \in Keys \cup {NoKey}
  BY ConfigFields DEF TypeOK
<1>2. KeysAreIssued'
  <2>1. \A k \in Keys : Issued(k) => Issued(k)'
    BY DEF Aged
  <2>2. WasIssued(cfg)'
    BY <1>t, <1>f, <2>1 DEF KeyInv, KeysAreIssued, WasIssued
  <2>3. copy # NoConfig => WasIssued(copy)'
    BY <1>t, <1>f, <2>1 DEF KeyInv, KeysAreIssued, WasIssued
  <2>4. loginCopy' # NoConfig => WasIssued(loginCopy)'
    BY <1>t, <1>f, <2>1 DEF KeyInv, KeysAreIssued, WasIssued
  <2>5. login' # NoKey => Issued(login)'
    BY DEF Issued
  <2> QED
    BY <1>t, <1>f, <2>1, <2>2, <2>3, <2>4, <2>5 DEF KeyInv, KeysAreIssued
<1>3. LoginKeeps' /\ VerifiesPending' /\ NoLoginYet'
  BY <1>t DEF KeyInv, LoginKeeps, VerifiesPending, NoLoginYet
<1>4. RotatesAlone'
  BY <1>t, <1>f DEF KeyInv, RotatesAlone, Aged
<1>5. SaveFollows'
  <2>1. cfg.pending # NoKey => (~Valid(cfg.pending) => ~Valid(cfg.pending)')
    BY <1>f DEF KeyInv, KeysAreIssued, WasIssued, Aged
  <2> QED
    BY <1>t, <2>1 DEF KeyInv, SaveFollows
<1>6. ReasonFollows' /\ AuthReasonIsRight'
  <2>1. ReasonFollows <=> ReasonFollows'
    BY <1>t DEF ReasonFollows
  <2>2. AuthReasonIsRight <=> AuthReasonIsRight'
    BY <1>t DEF AuthReasonIsRight
  <2> QED
    BY <2>1, <2>2 DEF KeyInv
<1>7. PendingIsNewer'
  BY <1>t DEF KeyInv, PendingIsNewer
<1>8. NewestIsHeld'
  <2> SUFFICES ASSUME NEW m \in Keys, IsNewest(m)', logins' = 0, Valid(m)', m \notin mislaid
               PROVE  IsNewest(m) /\ Valid(m)
    BY <1>t DEF KeyInv, NewestIsHeld
  <2>1. IsNewest(m)
    BY NewestStays DEF KeyInv
  <2>2. Issued(m)
    BY <2>1, ConstantsAssumption DEF IsNewest, Keys
  <2> QED
    BY <2>1, <2>2 DEF Aged
<1>9. ActiveHasNone' /\ KeysAreVerified'
  BY <1>t DEF KeyInv, ActiveHasNone, KeysAreVerified
<1> QED
  BY <1>2, <1>3, <1>4, <1>5, <1>6, <1>7, <1>8, <1>9 DEF KeyInv

\* The uploader decides to save a config with the keys that are in the file.
LEMMA WriteSameKeys ==
  ASSUME TypeOK, KeyInv, up, pc \notin {"save", "persist"},
         NEW c \in Configs, c.key = cfg.key, c.pending = cfg.pending,
         NEW next \in {"wait", "check", "recover", "flush"}, Write(c, next),
         UNCHANGED <<server, cfg, client, user, held, faults, past>>, up' = up, up',
         mode' \in Modes, why' \in Whys,
         authReason' \in Reasons, mode' = "active" => authReason' = "",
         faults = 0 /\ ~clash => c.reason = authReason'
  PROVE  TypeOK' /\ KeyInv'
<1>1. life' \in [Keys -> Lives] /\ Aged /\ IssuedInOrder'
  BY AgedSame, NewestStays DEF KeyInv, TypeOK, server
<1>2. client' \in Keys /\ faults' \in 0 .. MaxFaults /\ mislaid' \subseteq Keys /\ verified' = verified
      /\ verified' \subseteq Keys
  BY DEF TypeOK, past
<1>3. WasIssued(c) /\ c.key \in verified'
  BY DEF KeyInv, KeysAreIssued, WasIssued, KeysAreVerified, past
<1>4. logins = 0 /\ c.pending # NoKey => c.pending > c.key
  BY DEF KeyInv, PendingIsNewer
<1>5. ASSUME NEW m \in Keys, IsNewest(m)', logins = 0, Valid(m)', m \notin mislaid'
      PROVE  m \in {cfg.key, cfg.pending}
  <2>1. IsNewest(m) /\ Valid(m) /\ m \notin mislaid
    BY <1>5 DEF IsNewest, Issued, Valid, server, past
  <2> QED
    BY <1>5, <2>1 DEF KeyInv, NewestIsHeld
<1>6. UNCHANGED <<cfg, user, held, revokes>> /\ pc # "save"
  BY DEF server
<1> QED
  BY <1>1, <1>2, <1>3, <1>4, <1>5, <1>6, WriteStep

\* enterDegraded keeps the keys.
LEMMA DegradeStep ==
  ASSUME TypeOK, KeyInv, up, pc \notin {"save", "persist"},
         NEW reason \in Reasons, NEW w \in Whys,
         Degrade(cfg, reason, w),
         UNCHANGED <<server, cfg, client, user, held, faults, past>>, up' = up, up',
         why' \in Whys
  PROVE  TypeOK' /\ KeyInv'
<1> DEFINE c == [cfg EXCEPT !.reason = reason]
<1>1. Like(c, cfg.key, cfg.pending, reason)
  BY Edits DEF TypeOK
<1>2. Resume(w, "degraded") \in {"wait", "flush"}
  BY DEF Resume, Whys
<1>3. Write(c, Resume(w, "degraded")) /\ mode' = "degraded" /\ authReason' = reason /\ mode' \in Modes
  BY DEF Degrade, Modes
<1>4. c.reason = reason /\ c \in Configs /\ c.key = cfg.key /\ c.pending = cfg.pending
  BY <1>1 DEF Like
<1> HIDE DEF c
<1> QED
  BY <1>2, <1>3, <1>4, WriteSameKeys

\* A 401 to a heartbeat or a flush.
LEMMA HandleAuthErrorStep ==
  ASSUME TypeOK, KeyInv, up, pc \in {"beat", "flush"},
         NEW w \in {"beat", "flush"}, NEW code \in RejectCodes(client), HandleAuthError(code, w),
         UNCHANGED <<server, cfg, client, user, held, faults, past>>, up' = up, up'
  PROVE  TypeOK' /\ KeyInv'
<1>1. why' = w /\ w \in Whys /\ why' \in Whys /\ client' \in Keys
  BY DEF HandleAuthError, Whys, TypeOK
<1>2. CASE code = "key_rotated"
  <2>1. Goto("recover") /\ UNCHANGED auth
    BY <1>2 DEF HandleAuthError
  <2> QED
    BY <1>1, <2>1, GotoStep
<1>3. CASE code = "key_expired"
  <2>1. Goto("rotate") /\ UNCHANGED auth
    BY <1>3 DEF HandleAuthError
  <2>2. life[client] = "expired" /\ life[client'] = "expired"
    BY <1>3 DEF RejectCodes
  <2> QED
    BY <1>1, <2>1, <2>2, GotoStep
<1>4. CASE code \notin {"key_rotated", "key_expired"}
  <2>1. code \in Reasons
    BY <1>4 DEF RejectCodes, Reasons
  <2>2. Degrade(cfg, code, w)
    BY <1>4 DEF HandleAuthError
  <2> QED
    BY <1>1, <2>1, <2>2, DegradeStep
<1> QED
  BY <1>2, <1>3, <1>4

\* The backend rotates the client's key: n is issued, and nothing is forgotten.
LEMMA RotatesStep ==
  ASSUME TypeOK, KeyInv, NEW n \in Keys, Rotates(n)
  PROVE  /\ life' \in [Keys -> Lives] /\ Aged
         /\ life[client] # "expired" /\ life'[n] # "unissued"
         /\ IsNewest(n)' /\ IssuedInOrder'
         /\ \A m \in Keys : IsNewest(m)' => m = n
         /\ \A k \in Keys : Issued(k) => k < n
<1>1. /\ life \in [Keys -> Lives] /\ client \in Keys
      /\ life[client] \in {"fresh", "aging"} /\ life[n] = "unissued"
      /\ \A j \in Keys : j < n => life[j] # "unissued"
      /\ life' = [life EXCEPT ![n] = "fresh", ![client] = "overlap"]
  BY DEF TypeOK, Rotates
<1>2. \A k \in Keys : life'[k] = IF k = client THEN "overlap"
                                 ELSE IF k = n THEN "fresh" ELSE life[k]
  BY <1>1
<1>3. life' \in [Keys -> Lives]
  BY <1>1 DEF Lives
<1>4. \A k \in Keys : Issued(k)' <=> Issued(k) \/ k = n
  BY <1>1, <1>2 DEF Issued
<1>5. Aged
  BY <1>1, <1>2 DEF Aged, Issued, Valid
<1>6. ~Issued(n) /\ \A j \in Keys : j < n => Issued(j)
  BY <1>1 DEF Issued
<1>7. life[client] # "expired" /\ life'[n] # "unissued"
  BY <1>1, <1>2
<1> QED
  BY <1>3, <1>4, <1>5, <1>6, <1>7, IssueNext DEF KeyInv

\* The new key is in memory alone.
LEMMA RotateOkStep == TypeOK /\ KeyInv /\ RotateOk => TypeOK' /\ KeyInv'
<1> SUFFICES ASSUME TypeOK, KeyInv, RotateOk PROVE TypeOK' /\ KeyInv'
  OBVIOUS
<1>1. PICK n \in Keys : Rotates(n) /\ held' = n
  BY DEF RotateOk
<1>t. /\ pc = "rotate" /\ pc' = "persist" /\ up /\ up' = up /\ up'
      /\ UNCHANGED <<revokes, cfg, mode, authReason, client, why, login, loginCopy, logins, clash,
                     faults, mislaid, verified, copy, then>>
  BY DEF RotateOk, Goto, user, auth, past
<1>2. /\ life' \in [Keys -> Lives] /\ Aged
      /\ life[client] # "expired" /\ life'[n] # "unissued"
      /\ IsNewest(n)' /\ IssuedInOrder'
      /\ \A m \in Keys : IsNewest(m)' => m = n
      /\ \A k \in Keys : Issued(k) => k < n
  BY <1>1, RotatesStep
<1>f. /\ cfg.key \in Keys /\ cfg.pending \in Keys \cup {NoKey} /\ n # NoKey /\ n \in Nat
      /\ copy # NoConfig => copy.key \in Keys /\ copy.pending \in Keys \cup {NoKey}
      /\ loginCopy # NoConfig => loginCopy.key \in Keys /\ loginCopy.pending \in Keys \cup {NoKey}
      /\ login \in Keys \cup {NoKey}
  BY ConfigFields DEF TypeOK, Keys, NoKey
<1>3. TypeOK'
  BY <1>1, <1>2, <1>t, <1>f DEF TypeOK
<1>4. KeysAreIssued'
  <2>1. \A k \in Keys : Issued(k) => Issued(k)'
    BY <1>2 DEF Aged
  <2>2. WasIssued(cfg)' /\ (copy' # NoConfig => WasIssued(copy)')
        /\ (loginCopy' # NoConfig => WasIssued(loginCopy)')
    BY <1>t, <1>f, <2>1 DEF KeyInv, KeysAreIssued, WasIssued
  <2>3. Issued(held)'
    BY <1>1, <1>2 DEF Issued
  <2> QED
    BY <1>t, <1>f, <2>1, <2>2, <2>3 DEF KeyInv, KeysAreIssued
<1>5. LoginKeeps' /\ VerifiesPending' /\ SaveFollows' /\ NoLoginYet'
  BY <1>t DEF KeyInv, LoginKeeps, VerifiesPending, SaveFollows, NoLoginYet
<1>6. RotatesAlone'
  <2>1. why = "check" /\ (~clash => cfg.pending = NoKey)
    BY <1>t, <1>2 DEF KeyInv, RotatesAlone
  <2> QED
    BY <2>1, <1>t DEF RotatesAlone
<1>7. ReasonFollows'
  BY <1>t DEF KeyInv, ReasonFollows
<1>8. AuthReasonIsRight'
  <2>1. pc # "save" /\ pc' # "save" /\ up /\ UNCHANGED <<faults, clash, mode, authReason, cfg>>
    BY <1>t
  <2> QED
    BY <2>1 DEF KeyInv, AuthReasonIsRight
<1>9. PendingIsNewer'
  <2>1. cfg.key < n
    BY <1>f, <1>2 DEF KeyInv, KeysAreIssued, WasIssued
  <2>2. n > cfg.key
    BY <1>f, <2>1 DEF Keys
  <2> QED
    BY <1>1, <1>t, <2>2 DEF KeyInv, PendingIsNewer
<1>10. NewestIsHeld'
  BY <1>1, <1>2, <1>t DEF NewestIsHeld
<1>11. ActiveHasNone' /\ KeysAreVerified'
  BY <1>t DEF KeyInv, ActiveHasNone, KeysAreVerified
<1> QED
  BY <1>2, <1>3, <1>4, <1>5, <1>6, <1>7, <1>8, <1>9, <1>10, <1>11 DEF KeyInv

\* The new key is known to no one, and is counted as mislaid.
LEMMA RotateAnswerLostStep == TypeOK /\ KeyInv /\ RotateAnswerLost => TypeOK' /\ KeyInv'
<1> SUFFICES ASSUME TypeOK, KeyInv, RotateAnswerLost PROVE TypeOK' /\ KeyInv'
  OBVIOUS
<1> DEFINE c == [cfg EXCEPT !.recent = TRUE]
<1>1. PICK n \in Keys : Rotates(n) /\ mislaid' = mislaid \cup {n}
  BY DEF RotateAnswerLost
<1>t. /\ pc = "rotate" /\ pc # "save" /\ up /\ up' = up /\ up'
      /\ UNCHANGED <<cfg, user, held, revokes>>
      /\ UNCHANGED <<mode, authReason, client, why, verified>>
      /\ faults' = faults + 1 /\ faults < MaxFaults
      /\ Write(c, AfterRotate)
  BY DEF RotateAnswerLost, auth
<1>2. /\ life' \in [Keys -> Lives] /\ Aged /\ IssuedInOrder'
      /\ \A m \in Keys : IsNewest(m)' => m = n
  BY <1>1, RotatesStep
<1>3. c \in Configs /\ c.key = cfg.key /\ c.pending = cfg.pending /\ c.reason = cfg.reason
  BY Edits DEF TypeOK, Like, Reasons
<1>4. AfterRotate \in {"wait", "check", "recover", "flush"}
  BY DEF AfterRotate
<1>5. client' \in Keys /\ mode' \in Modes /\ why' \in Whys /\ mislaid' \subseteq Keys
      /\ authReason' \in Reasons /\ verified \subseteq verified' /\ verified' \subseteq Keys
  BY <1>1, <1>t DEF TypeOK, Modes, Whys
<1>6. faults' \in 0 .. MaxFaults /\ faults' # 0
  BY <1>t, ConstantsAssumption DEF TypeOK
<1>7. WasIssued(c) /\ (logins = 0 /\ c.pending # NoKey => c.pending > c.key)
  BY <1>3 DEF KeyInv, KeysAreIssued, WasIssued, PendingIsNewer
<1>8. /\ faults = 0 /\ ~clash => c.reason = authReason'
      /\ mode' = "active" => authReason' = ""
      /\ c.key \in verified'
  <2>1. faults = 0 /\ ~clash => cfg.reason = authReason
    BY <1>t DEF KeyInv, AuthReasonIsRight
  <2>2. mode = "active" => authReason = ""
    BY DEF KeyInv, ActiveHasNone
  <2>3. cfg.key \in verified
    BY DEF KeyInv, KeysAreVerified
  <2>4. mode' = mode /\ authReason' = authReason /\ verified' = verified
    BY <1>t
  <2>5. c.reason = cfg.reason /\ c.key = cfg.key
    BY <1>3
  <2> HIDE DEF c
  <2> QED
    BY <2>1, <2>2, <2>3, <2>4, <2>5
<1> HIDE DEF c
<1> QED
  BY <1>1, <1>2, <1>3, <1>4, <1>5, <1>6, <1>7, <1>8, <1>t, WriteStep

\* The new key is to be saved as the pending key.
LEMMA PersistStep == TypeOK /\ KeyInv /\ Persist => TypeOK' /\ KeyInv'
<1> SUFFICES ASSUME TypeOK, KeyInv, Persist PROVE TypeOK' /\ KeyInv'
  OBVIOUS
<1> DEFINE c == [cfg EXCEPT !.pending = held, !.recent = TRUE]
<1>t. /\ pc = "persist" /\ pc # "save" /\ up /\ up' = up /\ up'
      /\ UNCHANGED <<cfg, user, held, revokes>>
      /\ UNCHANGED <<life, mode, authReason, client, why, faults, mislaid, verified>>
      /\ Write(c, AfterRotate)
  BY DEF Persist, server, auth, past
<1>1. held \in Keys /\ held # NoKey
  BY <1>t DEF TypeOK
<1>2. c \in Configs /\ c.key = cfg.key /\ c.pending = held /\ c.reason = cfg.reason
  <2>1. cfg \in Configs /\ "" \in Reasons
    BY DEF TypeOK, Reasons
  <2>2. Like(c, cfg.key, held, cfg.reason)
    BY <1>1, <2>1, Edits
  <2> QED
    BY <2>2 DEF Like
<1>3. AfterRotate \in {"wait", "check", "recover", "flush"}
  BY DEF AfterRotate
<1>4. /\ client' \in Keys /\ mode' \in Modes /\ why' \in Whys /\ mislaid' \subseteq Keys
      /\ faults' \in 0 .. MaxFaults /\ authReason' \in Reasons
      /\ verified \subseteq verified' /\ verified' \subseteq Keys
  BY <1>t DEF TypeOK, Modes, Whys
<1>5. life' \in [Keys -> Lives] /\ Aged /\ IssuedInOrder'
  BY <1>t, AgedSame, NewestStays DEF KeyInv, TypeOK
<1>6. WasIssued(c) /\ (logins = 0 => c.pending > c.key)
  BY <1>1, <1>2, <1>t DEF KeyInv, KeysAreIssued, WasIssued, PendingIsNewer
<1>7. ~clash => cfg.pending = NoKey
  BY <1>t DEF KeyInv, RotatesAlone
<1>8. /\ faults = 0 /\ ~clash => c.reason = authReason'
      /\ mode' = "active" => authReason' = ""
      /\ c.key \in verified'
  <2>1. faults = 0 /\ ~clash => cfg.reason = authReason
    BY <1>t DEF KeyInv, AuthReasonIsRight
  <2>2. mode = "active" => authReason = ""
    BY DEF KeyInv, ActiveHasNone
  <2>3. cfg.key \in verified
    BY DEF KeyInv, KeysAreVerified
  <2>4. mode' = mode /\ authReason' = authReason /\ verified' = verified
    BY <1>t
  <2>5. c.reason = cfg.reason /\ c.key = cfg.key
    BY <1>2
  <2> HIDE DEF c
  <2> QED
    BY <2>1, <2>2, <2>3, <2>4, <2>5
<1>9. ASSUME NEW m \in Keys, IsNewest(m)', logins = 0, Valid(m)', m \notin mislaid'
      PROVE  /\ m \in {cfg.key, cfg.pending} \/ (held = m /\ c.pending = m)
             /\ m \in {cfg.key, cfg.pending} => m \in {c.key, c.pending}
  <2>1. IsNewest(m) /\ Valid(m) /\ m \notin mislaid /\ m # NoKey
    BY <1>9, <1>t DEF IsNewest, Issued, Valid
  <2>2. m \in {cfg.key, cfg.pending} \/ held = m
    BY <1>9, <1>t, <2>1 DEF KeyInv, NewestIsHeld
  <2>3. cfg.pending = NoKey
    BY <1>7, <1>9 DEF KeyInv, NoLoginYet
  <2> QED
    BY <1>2, <2>1, <2>2, <2>3
<1> HIDE DEF c
<1> QED
  BY <1>2, <1>3, <1>4, <1>5, <1>6, <1>7, <1>8, <1>9, <1>t, WriteStep

\* The pending key, verified, is to be saved as the key.
LEMMA VerifyOkStep == TypeOK /\ KeyInv /\ VerifyOk => TypeOK' /\ KeyInv'
<1> SUFFICES ASSUME TypeOK, KeyInv, VerifyOk PROVE TypeOK' /\ KeyInv'
  OBVIOUS
<1> DEFINE d == [cfg EXCEPT !.key = held, !.exp = held, !.pending = NoKey]
<1>t. /\ pc = "verify" /\ pc # "save" /\ up /\ up' = up /\ up' /\ client' = held
      /\ UNCHANGED <<cfg, user, held, revokes>>
      /\ UNCHANGED <<life, why, faults, mislaid>> /\ verified' = verified \cup {held}
  BY DEF VerifyOk, server
<1>1. held \in Keys /\ held # NoKey /\ cfg \in Configs
  BY <1>t DEF TypeOK
<1>2. PICK c \in Configs, next \in {"wait", "check", "recover", "flush"} :
        /\ Write(c, next)
        /\ c.key = held /\ c.pending = NoKey
        /\ mode' \in Modes
        /\ \/ mode' = mode /\ authReason' = authReason /\ c.reason = cfg.reason
           \/ mode' = "active" /\ authReason' = "" /\ c.reason = ""
  <2>1. Like(d, held, NoKey, cfg.reason)
    <3>1. "" \in Reasons
      BY DEF Reasons
    <3> QED
      BY <1>1, <3>1, Edits
  <2>2. CASE why = "check"
    <3>1. Write(d, "flush") /\ mode' = mode /\ authReason' = authReason
      BY <2>2 DEF VerifyOk, auth
    <3>2. mode' \in Modes
      BY <3>1 DEF TypeOK, Modes
    <3> HIDE DEF d
    <3> QED
      BY <2>1, <3>1, <3>2 DEF Like
  <2>3. CASE why # "check"
    <3> DEFINE e == [d EXCEPT !.reason = ""]
    <3>1. Write(e, Resume(why, "active")) /\ mode' = "active" /\ authReason' = ""
      BY <2>3 DEF VerifyOk
    <3>2. Like(e, held, NoKey, "")
      <4>1. d \in Configs /\ d.key = held /\ d.pending = NoKey /\ "" \in Reasons
        BY <2>1 DEF Like, Reasons
      <4>2. Like(e, d.key, d.pending, "")
        <5> HIDE DEF d
        <5> QED
          BY <1>1, <4>1, Edits
      <4> QED
        BY <4>1, <4>2 DEF Like
    <3>3. Resume(why, "active") \in {"wait", "check", "recover", "flush"}
      BY <2>3 DEF Resume, TypeOK
    <3>4. mode' \in Modes
      BY <3>1 DEF Modes
    <3> HIDE DEF d, e
    <3> QED
      BY <3>1, <3>2, <3>3, <3>4 DEF Like
  <2> QED
    BY <2>2, <2>3
<1>3. ~clash => held = cfg.pending
  BY <1>t DEF KeyInv, VerifiesPending
<1>4. /\ client' \in Keys /\ why' \in Whys /\ mislaid' \subseteq Keys
      /\ faults' \in 0 .. MaxFaults /\ authReason' \in Reasons
      /\ verified \subseteq verified' /\ verified' \subseteq Keys
  BY <1>1, <1>2, <1>t DEF TypeOK, Whys, Reasons
<1>5. life' \in [Keys -> Lives] /\ Aged /\ IssuedInOrder'
  BY <1>t, AgedSame, NewestStays DEF KeyInv, TypeOK
<1>6. WasIssued(c)
  BY <1>1, <1>2 DEF KeyInv, KeysAreIssued, WasIssued
<1>7. ~clash => /\ c.key \in {cfg.key, cfg.pending}
                /\ cfg.pending # NoKey /\ c.pending # cfg.pending =>
                     c.key = cfg.pending \/ ~Valid(cfg.pending)
  BY <1>2, <1>3
<1>8. /\ faults = 0 /\ ~clash => c.reason = authReason'
      /\ mode' = "active" => authReason' = ""
      /\ c.key \in verified'
  BY <1>2, <1>t DEF KeyInv, AuthReasonIsRight, ActiveHasNone
<1>9. ASSUME NEW m \in Keys, IsNewest(m)', logins = 0, Valid(m)', m \notin mislaid'
      PROVE  m \in {cfg.key, cfg.pending} => m = c.key
  <2>1. IsNewest(m)
    BY <1>9, <1>t DEF IsNewest, Issued
  <2>2. held = cfg.pending
    BY <1>3, <1>9 DEF KeyInv, NoLoginYet
  <2>3. cfg.pending > cfg.key
    BY <1>1, <1>9, <2>2 DEF KeyInv, PendingIsNewer
  <2>4. cfg.pending <= m
    BY <1>1, <2>1, <2>2 DEF KeyInv, KeysAreIssued, IsNewest
  <2>5. m # cfg.key
    BY <1>1, <2>2, <2>3, <2>4 DEF Keys
  <2> QED
    BY <1>2, <2>2, <2>5
<1>10. ASSUME NEW m \in Keys, IsNewest(m)', logins = 0, Valid(m)', m \notin mislaid'
       PROVE  m \in {cfg.key, cfg.pending}
  <2>1. IsNewest(m) /\ Valid(m) /\ m \notin mislaid
    BY <1>10, <1>t DEF IsNewest, Issued, Valid
  <2> QED
    BY <1>10, <1>t, <2>1 DEF KeyInv, NewestIsHeld
<1> QED
  BY <1>2, <1>4, <1>5, <1>6, <1>7, <1>8, <1>9, <1>10, <1>t, WriteStep

\* The pending key is discarded once the backend has refused it.
LEMMA VerifyRejectedStep == TypeOK /\ KeyInv /\ VerifyRejected => TypeOK' /\ KeyInv'
<1> SUFFICES ASSUME TypeOK, KeyInv, VerifyRejected PROVE TypeOK' /\ KeyInv'
  OBVIOUS
<1> DEFINE d == [cfg EXCEPT !.pending = NoKey]
<1>t. /\ pc = "verify" /\ pc # "save" /\ up /\ up' = up /\ up' /\ client' = client
      /\ UNCHANGED <<cfg, user, held, revokes>>
      /\ UNCHANGED <<life, why, faults, mislaid, verified>>
      /\ ~Valid(held)
  BY DEF VerifyRejected, server, past
<1>1. cfg \in Configs /\ client \in Keys
  BY DEF TypeOK
<1>2. PICK c \in Configs, next \in {"wait", "check", "recover", "flush"} :
        /\ Write(c, next)
        /\ c.key = cfg.key /\ c.pending = NoKey
        /\ mode' \in Modes
        /\ \/ mode' = mode /\ authReason' = authReason /\ c.reason = cfg.reason
           \/ mode' = "degraded" /\ authReason' = c.reason /\ c.reason = "key_invalid"
  <2>1. Like(d, cfg.key, NoKey, cfg.reason)
    <3>1. "" \in Reasons
      BY DEF Reasons
    <3> QED
      BY <1>1, <3>1, Edits
  <2>2. CASE why = "check"
    <3>1. Write(d, "flush") /\ mode' = mode /\ authReason' = authReason
      BY <2>2 DEF VerifyRejected, auth
    <3>2. mode' \in Modes
      BY <3>1 DEF TypeOK, Modes
    <3> HIDE DEF d
    <3> QED
      BY <2>1, <3>1, <3>2 DEF Like
  <2>3. CASE why # "check"
    <3> DEFINE e == [d EXCEPT !.reason = "key_invalid"]
    <3>1. Write(e, Resume(why, "degraded")) /\ mode' = "degraded" /\ authReason' = "key_invalid"
      BY <2>3 DEF VerifyRejected, Degrade
    <3>2. Like(e, cfg.key, NoKey, "key_invalid")
      <4>1. d \in Configs /\ d.key = cfg.key /\ d.pending = NoKey /\ "key_invalid" \in Reasons
        BY <2>1 DEF Like, Reasons
      <4>2. Like(e, d.key, d.pending, "key_invalid")
        <5> HIDE DEF d
        <5> QED
          BY <1>1, <4>1, Edits
      <4> QED
        BY <4>1, <4>2 DEF Like
    <3>3. Resume(why, "degraded") \in {"wait", "check", "recover", "flush"}
      BY <2>3 DEF Resume, TypeOK
    <3>4. mode' \in Modes
      BY <3>1 DEF Modes
    <3> HIDE DEF d, e
    <3> QED
      BY <3>1, <3>2, <3>3, <3>4 DEF Like
  <2> QED
    BY <2>2, <2>3
<1>3. ~clash => held = cfg.pending
  BY <1>t DEF KeyInv, VerifiesPending
<1>4. /\ client' \in Keys /\ why' \in Whys /\ mislaid' \subseteq Keys
      /\ faults' \in 0 .. MaxFaults /\ authReason' \in Reasons
      /\ verified \subseteq verified' /\ verified' \subseteq Keys
  BY <1>1, <1>2, <1>t DEF TypeOK, Whys, Reasons
<1>5. life' \in [Keys -> Lives] /\ Aged /\ IssuedInOrder'
  BY <1>t, AgedSame, NewestStays DEF KeyInv, TypeOK
<1>6. WasIssued(c)
  BY <1>2 DEF KeyInv, KeysAreIssued, WasIssued
<1>7. ~clash => c.key = cfg.key /\ ~Valid(cfg.pending)
  BY <1>2, <1>3, <1>t
<1>8. /\ faults = 0 /\ ~clash => c.reason = authReason'
      /\ mode' = "active" => authReason' = ""
      /\ c.key \in verified'
  <2>1. faults = 0 /\ ~clash => cfg.reason = authReason
    BY <1>t DEF KeyInv, AuthReasonIsRight
  <2>2. (mode = "active" => authReason = "") /\ cfg.key \in verified
    BY DEF KeyInv, ActiveHasNone, KeysAreVerified
  <2> QED
    BY <1>2, <1>t, <2>1, <2>2
<1>9. ASSUME NEW m \in Keys, IsNewest(m)', logins = 0, Valid(m)', m \notin mislaid'
      PROVE  m = cfg.key
  <2>1. IsNewest(m) /\ Valid(m) /\ m \notin mislaid
    BY <1>9, <1>t DEF IsNewest, Issued, Valid
  <2>2. m \in {cfg.key, cfg.pending}
    BY <1>9, <1>t, <2>1 DEF KeyInv, NewestIsHeld
  <2>3. ~Valid(cfg.pending)
    BY <1>7, <1>9 DEF KeyInv, NoLoginYet
  <2> QED
    BY <2>1, <2>2, <2>3
<1> QED
  BY <1>2, <1>4, <1>5, <1>6, <1>7, <1>8, <1>9, <1>t, WriteStep

\* The uploader's other steps but the saves.
LEMMA CycleStep ==
  ASSUME TypeOK, KeyInv,
         \/ Wake \/ BeatOk \/ BeatLost \/ Check \/ RotateFails
         \/ \E code \in Codes : BeatRejected(code) \/ FlushRejected(code)
         \/ Recover \/ VerifyLost \/ FlushDone
  PROVE  TypeOK' /\ KeyInv'
<1>a. /\ cfg \in Configs /\ cfg.key \in Keys /\ cfg.pending \in Keys \cup {NoKey}
      /\ cfg.reason \in Reasons /\ client \in Keys
      /\ mode \in Modes /\ why \in Whys /\ "" \in Reasons /\ "check" \in Whys
      /\ authReason \in Reasons /\ "key_invalid" \in Reasons
  BY ConfigFields DEF TypeOK, Modes, Whys, Reasons
<1>b. /\ up /\ pc # "save" => (faults = 0 /\ ~clash => cfg.reason = authReason)
      /\ mode = "active" => authReason = ""
  BY DEF KeyInv, AuthReasonIsRight, ActiveHasNone
<1>1. CASE Wake
  <2>1. /\ up /\ pc \notin {"save", "persist"} /\ Goto("beat") /\ why' = "check"
        /\ UNCHANGED <<server, cfg, auth, user, faults, past>> /\ up' = up
        /\ held' = held
    BY <1>1 DEF Wake
  <2>2. up'
    BY <2>1
  <2>3. client' \in Keys
    BY <1>1, <1>a DEF Wake
  <2> QED
    BY <1>a, <2>1, <2>2, <2>3, GotoStep
<1>2. CASE BeatOk
  <2> DEFINE c == [cfg EXCEPT !.reason = "", !.exp = client]
  <2>1. /\ up /\ pc \notin {"save", "persist"} /\ Write(c, "check")
        /\ UNCHANGED <<server, cfg, client, user, held, faults, past>> /\ up' = up
        /\ mode' = "active" /\ authReason' = "" /\ why' = why
    BY <1>2 DEF BeatOk
  <2>2. up' /\ mode' \in Modes /\ why' \in Whys
    BY <1>a, <2>1 DEF Modes
  <2>3. Like(c, cfg.key, cfg.pending, "")
    BY <1>a, Edits
  <2>4. c \in Configs /\ c.key = cfg.key /\ c.pending = cfg.pending /\ c.reason = ""
    BY <2>3 DEF Like
  <2> HIDE DEF c
  <2> QED
    BY <1>a, <2>1, <2>2, <2>4, WriteSameKeys
<1>3. CASE BeatLost
  <2>1. /\ up /\ pc \notin {"save", "persist"} /\ Goto(Resume("beat", mode))
        /\ UNCHANGED <<server, cfg, auth, user, faults, past>> /\ up' = up
        /\ held' = held /\ why' = why /\ client' = client
    BY <1>3 DEF BeatLost
  <2>2. Resume("beat", mode) \in {"check", "wait"}
    BY DEF Resume
  <2>3. up'
    BY <2>1
  <2> QED
    BY <1>a, <2>1, <2>2, <2>3, GotoStep
<1>4. ASSUME NEW code \in Codes, BeatRejected(code) \/ FlushRejected(code)
      PROVE  TypeOK' /\ KeyInv'
  <2>1. PICK w \in {"beat", "flush"} :
          /\ up /\ pc \in {"beat", "flush"} /\ code \in RejectCodes(client)
          /\ HandleAuthError(code, w)
          /\ UNCHANGED <<server, cfg, client, user, held, faults, past>> /\ up' = up
    BY <1>4 DEF BeatRejected, FlushRejected
  <2>2. up'
    BY <2>1
  <2> QED
    BY <2>1, <2>2, HandleAuthErrorStep
<1>5. CASE Check
  <2>1. /\ up /\ pc \notin {"save", "persist"} /\ why' = "check"
        /\ UNCHANGED <<server, cfg, auth, user, faults, past>> /\ up' = up
        /\ client' = client
    BY <1>5 DEF Check
  <2>2. up'
    BY <2>1
  <2>3. CASE cfg.pending # NoKey
    <3>1. held' = cfg.pending /\ Goto("verify")
      BY <1>5, <2>3 DEF Check
    <3> QED
      BY <1>a, <2>1, <2>2, <2>3, <3>1, GotoStep
  <2>4. CASE cfg.pending = NoKey
    <3>1. held' = NoKey /\ (Goto("rotate") \/ Goto("flush"))
      BY <1>5, <2>4 DEF Check
    <3>2. CASE Goto("rotate")
      BY <1>a, <2>1, <2>2, <2>4, <3>1, <3>2, GotoStep
    <3>3. CASE Goto("flush")
      BY <1>a, <2>1, <2>2, <3>1, <3>3, GotoStep
    <3> QED
      BY <3>1, <3>2, <3>3
  <2> QED
    BY <2>3, <2>4
<1>6. CASE RotateFails
  <2> DEFINE c == [cfg EXCEPT !.recent = TRUE]
  <2>1. /\ up /\ pc \notin {"save", "persist"} /\ pc # "save" /\ Write(c, AfterRotate)
        /\ UNCHANGED <<server, cfg, client, user, held, faults, past>> /\ up' = up
        /\ mode' = mode /\ authReason' = authReason /\ why' = why
    BY <1>6 DEF RotateFails, auth
  <2>2. up' /\ mode' \in Modes /\ why' \in Whys
    BY <1>a, <2>1
  <2>3. Like(c, cfg.key, cfg.pending, cfg.reason)
    BY <1>a, Edits
  <2>4. c \in Configs /\ c.key = cfg.key /\ c.pending = cfg.pending /\ c.reason = cfg.reason
    BY <2>3 DEF Like
  <2>5. AfterRotate \in {"flush", "recover"}
    BY DEF AfterRotate
  <2>6. /\ faults = 0 /\ ~clash => c.reason = authReason'
        /\ mode' = "active" => authReason' = ""
        /\ authReason' \in Reasons
    BY <1>a, <1>b, <2>1, <2>4
  <2> HIDE DEF c
  <2> QED
    BY <2>1, <2>2, <2>4, <2>5, <2>6, WriteSameKeys
<1>7. CASE Recover
  <2>1. /\ up /\ pc \notin {"save", "persist"}
        /\ UNCHANGED <<server, cfg, client, user, faults, past>> /\ up' = up
        /\ why' = why
    BY <1>7 DEF Recover
  <2>2. up' /\ why' \in Whys /\ client' \in Keys
    BY <1>a, <2>1
  <2>3. CASE cfg.pending = NoKey
    <3>1. Degrade(cfg, "key_invalid", why) /\ held' = held
      BY <1>7, <2>3 DEF Recover
    <3> QED
      BY <1>a, <2>1, <2>2, <3>1, DegradeStep
  <2>4. CASE cfg.pending # NoKey
    <3>1. held' = cfg.pending /\ held' # NoKey /\ Goto("verify") /\ UNCHANGED auth
      BY <1>7, <2>4 DEF Recover
    <3> QED
      BY <2>1, <2>2, <3>1, GotoStep
  <2> QED
    BY <2>3, <2>4
<1>8. CASE VerifyLost
  <2>1. /\ up /\ pc \notin {"save", "persist"}
        /\ UNCHANGED <<server, cfg, client, user, held, faults, past>> /\ up' = up
        /\ why' = why
    BY <1>8 DEF VerifyLost
  <2>2. up' /\ why' \in Whys /\ client' \in Keys
    BY <1>a, <2>1
  <2>3. CASE why = "check"
    <3>1. Goto("flush") /\ UNCHANGED auth
      BY <1>8, <2>3 DEF VerifyLost
    <3> QED
      BY <2>1, <2>2, <3>1, GotoStep
  <2>4. CASE why # "check"
    <3>1. Degrade(cfg, "key_invalid", why)
      BY <1>8, <2>4 DEF VerifyLost
    <3> QED
      BY <1>a, <2>1, <2>2, <3>1, DegradeStep
  <2> QED
    BY <2>3, <2>4
<1>9. CASE FlushDone
  <2>1. /\ up /\ pc \notin {"save", "persist"} /\ Goto("wait") /\ why' = "check"
        /\ UNCHANGED <<server, cfg, auth, user, faults, past>> /\ up' = up
        /\ held' = NoKey /\ client' = client
    BY <1>9 DEF FlushDone
  <2>2. up'
    BY <2>1
  <2> QED
    BY <1>a, <2>1, <2>2, GotoStep
<1> QED
  BY <1>1, <1>2, <1>3, <1>4, <1>5, <1>6, <1>7, <1>8, <1>9

\* The copy becomes the file.
LEMMA SaveStep == TypeOK /\ KeyInv /\ Save => TypeOK' /\ KeyInv'
<1> SUFFICES ASSUME TypeOK, KeyInv, Save PROVE TypeOK' /\ KeyInv'
  OBVIOUS
<1>t. /\ pc = "save" /\ up /\ cfg' = copy /\ clash' = (clash \/ loginCopy # NoConfig)
      /\ pc' = then /\ then' = "wait" /\ copy' = NoConfig /\ held' = NoKey
      /\ why' \in {why, "check"}
      /\ UNCHANGED <<life, revokes, mode, authReason, client, login, loginCopy, logins, faults,
                     mislaid, verified>>
  BY DEF Save, Saved, server, auth, past
<1>u. up' = up /\ up'
  <2>1. up' = up /\ up
    BY DEF Save
  <2> QED
    BY <2>1
<1>c. copy \in Configs /\ copy # NoConfig /\ copy.pending \in Keys \cup {NoKey}
  <2>1. copy \in Configs
    BY <1>t DEF TypeOK
  <2> QED
    BY <2>1, ConfigFields
<1>n. ~clash' => ~clash /\ loginCopy = NoConfig
  BY <1>t
<1>p. pc' \in {"wait", "check", "recover", "flush"}
  BY <1>t DEF TypeOK
<1>1. TypeOK'
  <2>1. clash' \in BOOLEAN
    BY <1>t DEF TypeOK
  <2> QED
    BY <1>t, <1>u, <1>c, <1>p, <2>1 DEF TypeOK
<1>2. KeysAreIssued' /\ IssuedInOrder'
  BY <1>t, <1>c DEF KeyInv, KeysAreIssued, WasIssued, Issued, IssuedInOrder, IsNewest
<1>3. LoginKeeps'
  BY <1>t, <1>n DEF LoginKeeps
<1>4. VerifiesPending' /\ RotatesAlone' /\ SaveFollows'
  BY <1>p DEF VerifiesPending, RotatesAlone, SaveFollows
<1>5. ReasonFollows'
  BY <1>p, <1>u DEF ReasonFollows
<1>6. AuthReasonIsRight'
  <2> SUFFICES ASSUME faults' = 0, ~clash'
               PROVE  cfg'.reason = authReason' /\ (mode' = "active" => cfg'.reason = "")
    BY DEF AuthReasonIsRight
  <2>1. faults = 0 /\ ~clash /\ mode' = mode /\ authReason' = authReason /\ cfg' = copy
    BY <1>n, <1>t
  <2>2. copy.reason = authReason /\ (mode = "active" => authReason = "")
    BY <1>t, <2>1 DEF KeyInv, ReasonFollows, ActiveHasNone
  <2> QED
    BY <2>1, <2>2
<1>7. NoLoginYet'
  BY <1>t DEF KeyInv, NoLoginYet
<1>8. PendingIsNewer'
  BY <1>t, <1>p DEF KeyInv, PendingIsNewer
<1>9. NewestIsHeld'
  <2> SUFFICES ASSUME NEW m \in Keys, IsNewest(m)', logins' = 0, Valid(m)', m \notin mislaid'
               PROVE  m \in {cfg'.key, cfg'.pending}
    BY <1>p DEF NewestIsHeld
  <2>1. IsNewest(m) /\ logins = 0 /\ Valid(m) /\ m \notin mislaid
    BY <1>t DEF IsNewest, Issued, Valid
  <2> QED
    BY <1>t, <2>1 DEF KeyInv, NewestIsHeld
<1>10. ActiveHasNone' /\ KeysAreVerified'
  BY <1>t, <1>c DEF KeyInv, ActiveHasNone, KeysAreVerified
<1> QED
  BY <1>1, <1>2, <1>3, <1>4, <1>5, <1>6, <1>7, <1>8, <1>9, <1>10 DEF KeyInv

\* A save fails, or the process dies: a key that was nowhere else is mislaid.
LEMMA FaultStep ==
  ASSUME TypeOK, KeyInv, SaveFails \/ Crash
  PROVE  TypeOK' /\ KeyInv'
<1>t. /\ up /\ faults' = faults + 1 /\ faults < MaxFaults
      /\ mislaid' = mislaid \cup Unsaved
      /\ pc' \in {"wait", "check", "recover", "flush"} /\ then' = "wait"
      /\ copy' = NoConfig /\ held' = NoKey /\ why' \in Whys
      /\ mode' \in Modes /\ authReason' \in Reasons /\ (mode' = "active" => authReason' = "")
      /\ UNCHANGED <<life, revokes, cfg, client, login, loginCopy, logins, clash, verified>>
  BY DEF KeyInv, ActiveHasNone, Reasons, auth, SaveFails, Crash, Saved, TypeOK, Whys, Modes,
         server, user
<1>u. up' \in BOOLEAN
  BY DEF SaveFails, Crash, TypeOK
<1>s. Unsaved \subseteq Keys
  BY DEF Unsaved, TypeOK
<1>f. faults' # 0 /\ faults' \in 0 .. MaxFaults
  <2>1. faults' = faults + 1 /\ faults < MaxFaults /\ faults \in 0 .. MaxFaults
    BY <1>t DEF TypeOK
  <2> QED
    BY <2>1, ConstantsAssumption
<1>1. TypeOK'
  BY <1>t, <1>u, <1>s, <1>f DEF TypeOK, Whys, Modes
<1>2. KeysAreIssued' /\ IssuedInOrder'
  BY <1>t DEF KeyInv, KeysAreIssued, WasIssued, Issued, IssuedInOrder, IsNewest
<1>3. LoginKeeps' /\ NoLoginYet'
  BY <1>t DEF KeyInv, LoginKeeps, NoLoginYet
<1>4. VerifiesPending' /\ RotatesAlone' /\ SaveFollows'
  BY <1>t DEF VerifiesPending, RotatesAlone, SaveFollows
<1>5. ReasonFollows' /\ AuthReasonIsRight'
  BY <1>f DEF ReasonFollows, AuthReasonIsRight
<1>6. PendingIsNewer'
  BY <1>t DEF KeyInv, PendingIsNewer
<1>7. NewestIsHeld'
  <2> SUFFICES ASSUME NEW m \in Keys, IsNewest(m)', logins' = 0, Valid(m)', m \notin mislaid'
               PROVE  m \in {cfg.key, cfg.pending}
    BY <1>t DEF NewestIsHeld
  <2>1. IsNewest(m) /\ logins = 0 /\ Valid(m) /\ m \notin mislaid /\ m \notin Unsaved /\ m # NoKey
    BY <1>t DEF IsNewest, Issued, Valid
  <2>2. \/ m \in {cfg.key, cfg.pending}
        \/ pc = "persist" /\ held = m
        \/ pc = "save" /\ held = m /\ copy.pending = m
    BY <2>1 DEF KeyInv, NewestIsHeld
  <2> QED
    BY <2>1, <2>2 DEF Unsaved
<1>8. ActiveHasNone' /\ KeysAreVerified'
  BY <1>t DEF KeyInv, ActiveHasNone, KeysAreVerified
<1> QED
  BY <1>1, <1>2, <1>3, <1>4, <1>5, <1>6, <1>7, <1>8 DEF KeyInv

\* The process comes back with what is in the file.
LEMMA RestartStep == TypeOK /\ KeyInv /\ Restart => TypeOK' /\ KeyInv'
<1> SUFFICES ASSUME TypeOK, KeyInv, Restart PROVE TypeOK' /\ KeyInv'
  OBVIOUS
<1>t. /\ up' = TRUE /\ ~up /\ mode' = "active" /\ authReason' = "" /\ client' = cfg.key /\ pc' = "beat"
      /\ UNCHANGED <<life, revokes, cfg, why, held, copy, then, login, loginCopy, logins, clash,
                     faults, mislaid, verified>>
  BY DEF Restart, Goto, server, user, past
<1>f. cfg.key \in Keys /\ faults # 0
  <2>1. cfg.key \in Keys
    BY ConfigFields DEF TypeOK
  <2>2. ~up
    BY <1>t
  <2>3. faults = 0 => up
    BY DEF KeyInv, ReasonFollows
  <2> QED
    BY <2>1, <2>2, <2>3
<1>1. TypeOK'
  BY <1>t, <1>f DEF TypeOK, Reasons
<1>2. KeysAreIssued' /\ IssuedInOrder'
  BY <1>t DEF KeyInv, KeysAreIssued, WasIssued, Issued, IssuedInOrder, IsNewest
<1>3. LoginKeeps' /\ NoLoginYet'
  BY <1>t DEF KeyInv, LoginKeeps, NoLoginYet
<1>4. VerifiesPending' /\ RotatesAlone' /\ SaveFollows'
  BY <1>t DEF VerifiesPending, RotatesAlone, SaveFollows
<1>5. ReasonFollows' /\ AuthReasonIsRight'
  <2>1. faults' # 0
    BY <1>f, <1>t
  <2> QED
    BY <2>1 DEF ReasonFollows, AuthReasonIsRight
<1>6. PendingIsNewer'
  BY <1>t DEF KeyInv, PendingIsNewer
<1>7. NewestIsHeld'
  <2> SUFFICES ASSUME NEW m \in Keys, IsNewest(m)', logins' = 0, Valid(m)', m \notin mislaid'
               PROVE  m \in {cfg.key, cfg.pending}
    BY <1>t DEF NewestIsHeld
  <2>1. IsNewest(m) /\ logins = 0 /\ Valid(m) /\ m \notin mislaid
    BY <1>t DEF IsNewest, Issued, Valid
  <2>2. ~up
    BY <1>t
  <2> QED
    BY <2>1, <2>2 DEF KeyInv, NewestIsHeld
<1>8. ActiveHasNone' /\ KeysAreVerified'
  BY <1>t DEF KeyInv, ActiveHasNone, KeysAreVerified
<1> QED
  BY <1>1, <1>2, <1>3, <1>4, <1>5, <1>6, <1>7, <1>8 DEF KeyInv

\* A key ages or is revoked.
LEMMA LifeStep == TypeOK /\ KeyInv /\ (KeyAges \/ Revoke) => TypeOK' /\ KeyInv'
<1> SUFFICES ASSUME TypeOK, KeyInv, KeyAges \/ Revoke PROVE TypeOK' /\ KeyInv'
  OBVIOUS
<1>1. PICK k \in Keys, l \in {"aging", "expired", "rotated", "revoked"} :
        /\ life' = [life EXCEPT ![k] = l]
        /\ \/ life[k] = "fresh" /\ l = "aging"
           \/ life[k] = "aging" /\ l = "expired"
           \/ life[k] = "overlap" /\ l = "rotated"
           \/ life[k] \in {"fresh", "aging", "overlap"} /\ l = "revoked"
  <2>1. CASE KeyAges
    BY <2>1 DEF KeyAges
  <2>2. CASE Revoke
    BY <2>2 DEF Revoke, Valid
  <2> QED
    BY <2>1, <2>2
<1>t. /\ UNCHANGED <<cfg, up, auth, client, flow, clash, faults, mislaid>>
      /\ UNCHANGED <<login, loginCopy, logins, verified>>
      /\ revokes' \in 0 .. MaxRevokes
  <2>1. revokes' \in 0 .. MaxRevokes
    BY ConstantsAssumption DEF KeyAges, Revoke, TypeOK
  <2> QED
    BY <2>1 DEF KeyAges, Revoke, user, past
<1>2. \A j \in Keys : life'[j] = IF j = k THEN l ELSE life[j]
  BY <1>1 DEF TypeOK
<1>3. life' \in [Keys -> Lives] /\ Aged /\ \A j \in Keys : Issued(j)' <=> Issued(j)
  <2>1. life' \in [Keys -> Lives]
    BY <1>1 DEF TypeOK, Lives
  <2>2. \A j \in Keys : Issued(j)' <=> Issued(j)
    BY <1>1, <1>2 DEF Issued
  <2>3. Aged
    BY <1>1, <1>2 DEF Aged, Issued, Valid
  <2> QED
    BY <2>1, <2>2, <2>3
<1>4. TypeOK'
  BY <1>3, <1>t DEF TypeOK, flow, auth
<1>5. IssuedInOrder'
  BY <1>3, NewestStays DEF KeyInv
<1>6. login' # NoKey => life'[login'] # "unissued"
  BY <1>3, <1>t DEF KeyInv, KeysAreIssued, Issued, TypeOK
<1>7. logins' = 0 => logins = 0 /\ login' = NoKey /\ loginCopy' = NoConfig
  BY <1>t DEF KeyInv, NoLoginYet
<1>8. login' # NoKey => login' \in verified'
  BY <1>t DEF KeyInv, KeysAreVerified
<1> QED
  BY <1>3, <1>4, <1>5, <1>6, <1>7, <1>8, <1>t, QuietStep

\* The backend issues a key to a login.
LEMMA LoginIssueStep == TypeOK /\ KeyInv /\ LoginIssue => TypeOK' /\ KeyInv'
<1> SUFFICES ASSUME TypeOK, KeyInv, LoginIssue PROVE TypeOK' /\ KeyInv'
  OBVIOUS
<1>1. PICK n \in Keys : /\ life[n] = "unissued" /\ \A j \in Keys : j < n => life[j] # "unissued"
                        /\ life' = [life EXCEPT ![n] = "fresh"]
                        /\ login' = n /\ verified' = verified \cup {n}
  BY DEF LoginIssue
<1>t. /\ UNCHANGED <<cfg, up, auth, client, flow, clash, faults, mislaid>>
      /\ UNCHANGED <<loginCopy, revokes>>
      /\ login = NoKey /\ logins' = logins + 1 /\ logins < MaxLogins
  BY DEF LoginIssue
<1>2. \A j \in Keys : life'[j] = IF j = n THEN "fresh" ELSE life[j]
  BY <1>1 DEF TypeOK
<1>3. life' \in [Keys -> Lives] /\ Aged /\ \A j \in Keys : Issued(j)' <=> Issued(j) \/ j = n
  <2>1. life' \in [Keys -> Lives]
    BY <1>1 DEF TypeOK, Lives
  <2>2. \A j \in Keys : Issued(j)' <=> Issued(j) \/ j = n
    BY <1>1, <1>2 DEF Issued
  <2>3. Aged
    BY <1>1, <1>2 DEF Aged, Issued, Valid
  <2> QED
    BY <2>1, <2>2, <2>3
<1>n. n # NoKey /\ logins' \in 0 .. MaxLogins /\ logins' # 0
  BY <1>t, ConstantsAssumption DEF TypeOK, Keys, NoKey
<1>4. TypeOK'
  BY <1>1, <1>3, <1>n, <1>t DEF TypeOK, flow, auth
<1>5. IssuedInOrder'
  <2>1. ~Issued(n) /\ \A j \in Keys : j < n => Issued(j)
    BY <1>1 DEF Issued
  <2> QED
    BY <1>3, <2>1, IssueNext DEF KeyInv
<1>6. login' # NoKey => life'[login'] # "unissued"
  BY <1>1, <1>2
<1> QED
  BY <1>1, <1>3, <1>4, <1>5, <1>6, <1>n, <1>t, QuietStep

\* A login or a register loads the file.
LEMMA LoadStep == TypeOK /\ KeyInv /\ (LoginLoad \/ RegisterLoad) => TypeOK' /\ KeyInv'
<1> SUFFICES ASSUME TypeOK, KeyInv, LoginLoad \/ RegisterLoad PROVE TypeOK' /\ KeyInv'
  OBVIOUS
<1>t. /\ UNCHANGED <<cfg, up, auth, client, flow, clash, faults, mislaid>>
      /\ UNCHANGED <<life, revokes, verified>>
      /\ loginCopy' = cfg
  BY DEF LoginLoad, RegisterLoad, server, past
<1>f. cfg \in Configs /\ cfg.key \in Keys /\ cfg.key # NoKey
  BY ConfigFields DEF TypeOK, Keys, NoKey
<1>1. login' \in {login, cfg.key} /\ login' # NoKey
  BY <1>f DEF LoginLoad, RegisterLoad
<1>2. logins' \in 0 .. MaxLogins /\ logins' # 0
  <2>1. CASE LoginLoad
    BY <2>1 DEF LoginLoad, TypeOK, KeyInv, NoLoginYet
  <2>2. CASE RegisterLoad
    BY <2>2, ConstantsAssumption DEF RegisterLoad, TypeOK
  <2> QED
    BY <2>1, <2>2
<1>3. Aged /\ IssuedInOrder'
  BY <1>t, AgedSame, NewestStays DEF KeyInv
<1>4. TypeOK'
  BY <1>f, <1>1, <1>2, <1>t DEF TypeOK, flow, auth
<1>5. login' # NoKey => life'[login'] # "unissued"
  BY <1>1, <1>t DEF KeyInv, KeysAreIssued, WasIssued, Issued
<1>6. login' # NoKey => login' \in verified'
  BY <1>1, <1>t DEF KeyInv, KeysAreVerified
<1> QED
  BY <1>2, <1>3, <1>4, <1>5, <1>6, <1>t, QuietStep

\* A login or a register saves what it loaded, with its key.
LEMMA LoginSaveStep == TypeOK /\ KeyInv /\ LoginSave => TypeOK' /\ KeyInv'
<1> SUFFICES ASSUME TypeOK, KeyInv, LoginSave PROVE TypeOK' /\ KeyInv'
  OBVIOUS
<1>t. /\ loginCopy # NoConfig /\ cfg' = LoggedIn(loginCopy)
      /\ login' = NoKey /\ loginCopy' = NoConfig /\ clash' = (clash \/ (up /\ pc = "save"))
      /\ UNCHANGED <<life, revokes, up, mode, authReason, client, pc, why, held, copy, then, logins,
                     faults, mislaid, verified>>
  BY DEF LoginSave, server, flow, auth, past
<1>1. loginCopy \in Configs /\ login \in Keys
  BY <1>t DEF TypeOK
<1>2. Like(cfg', login, loginCopy.pending, loginCopy.reason)
  <2>1. "" \in Reasons
    BY DEF Reasons
  <2> QED
    BY <1>1, <1>t, <2>1, Edits DEF LoggedIn
<1>3. /\ cfg' \in Configs /\ cfg'.key = login /\ cfg'.pending = loginCopy.pending
      /\ cfg'.reason = loginCopy.reason
  BY <1>2 DEF Like
<1>n. ~clash' => /\ ~clash /\ ~(up /\ pc = "save") /\ cfg'.pending = cfg.pending
                 /\ cfg'.reason = cfg.reason
  BY <1>3, <1>t DEF KeyInv, LoginKeeps
<1>l. logins # 0
  BY <1>t DEF KeyInv, NoLoginYet
<1>4. TypeOK'
  <2>1. clash' \in BOOLEAN
    BY <1>t DEF TypeOK
  <2>2. NoKey \in Keys \cup {NoKey} /\ NoConfig \in Configs \cup {NoConfig}
    OBVIOUS
  <2> QED
    BY <1>3, <1>t, <2>1, <2>2 DEF TypeOK
<1>5. KeysAreIssued' /\ IssuedInOrder'
  <2>1. WasIssued(cfg)'
    BY <1>1, <1>3, <1>t DEF KeyInv, KeysAreIssued, WasIssued, Issued, Keys, NoKey
  <2> QED
    BY <1>t, <2>1 DEF KeyInv, KeysAreIssued, WasIssued, Issued, IssuedInOrder, IsNewest
<1>6. LoginKeeps'
  BY <1>t DEF LoginKeeps
<1>7. VerifiesPending'
  BY <1>n, <1>t DEF KeyInv, VerifiesPending
<1>8. RotatesAlone'
  BY <1>n, <1>t DEF KeyInv, RotatesAlone
<1>9. SaveFollows'
  BY <1>n, <1>t DEF SaveFollows
<1>10. ReasonFollows'
  <2>1. faults = 0 => up
    BY DEF KeyInv, ReasonFollows
  <2>2. ~clash' => pc # "save" \/ ~up
    BY <1>n
  <2>3. UNCHANGED <<up, pc, faults>>
    BY <1>t
  <2>4. faults' = 0 => up'
    BY <2>1, <2>3
  <2>5. faults' = 0 /\ pc' = "save" => clash'
    BY <2>1, <2>2, <2>3
  <2> QED
    BY <2>4, <2>5 DEF ReasonFollows
<1>11. AuthReasonIsRight'
  <2> SUFFICES ASSUME faults' = 0, up', pc' # "save", ~clash'
               PROVE  cfg'.reason = authReason' /\ (mode' = "active" => cfg'.reason = "")
    BY DEF AuthReasonIsRight
  <2>1. up' = up
    BY <1>t
  <2>2. up
    BY <2>1
  <2>3. faults = 0 /\ pc # "save" /\ ~clash /\ mode' = mode /\ cfg'.reason = cfg.reason
        /\ authReason' = authReason
    BY <1>t, <1>n
  <2>4. cfg.reason = authReason /\ (mode = "active" => cfg.reason = "")
    BY <2>2, <2>3 DEF KeyInv, AuthReasonIsRight
  <2> QED
    BY <2>3, <2>4
<1>12. NoLoginYet' /\ PendingIsNewer' /\ NewestIsHeld'
  BY <1>l, <1>t DEF NoLoginYet, PendingIsNewer, NewestIsHeld
<1>13. ActiveHasNone'
  BY <1>t DEF KeyInv, ActiveHasNone
<1>14. KeysAreVerified'
  <2>1. login \in verified
    BY <1>1 DEF KeyInv, KeysAreVerified, Keys, NoKey
  <2>2. cfg'.key \in verified'
    BY <1>3, <1>t, <2>1
  <2>3. copy' # NoConfig => copy'.key \in verified'
    BY <1>t DEF KeyInv, KeysAreVerified
  <2> QED
    BY <1>t, <2>2, <2>3 DEF KeysAreVerified
<1> QED
  BY <1>4, <1>5, <1>6, <1>7, <1>8, <1>9, <1>10, <1>11, <1>12, <1>13, <1>14 DEF KeyInv

\* LastRotationAt is a day ago.
LEMMA DayPassesStep == TypeOK /\ KeyInv /\ DayPasses => TypeOK' /\ KeyInv'
<1> SUFFICES ASSUME TypeOK, KeyInv, DayPasses PROVE TypeOK' /\ KeyInv'
  OBVIOUS
<1>t. /\ pc # "save" /\ loginCopy = NoConfig /\ cfg' = [cfg EXCEPT !.recent = FALSE]
      /\ UNCHANGED <<life, revokes, up, mode, authReason, client, pc, why, held, copy, then, login,
                     loginCopy, logins, clash, faults, mislaid, verified>>
  BY DEF DayPasses, server, flow, user, auth, past
<1>1. Like(cfg', cfg.key, cfg.pending, cfg.reason)
  <2>1. cfg \in Configs /\ cfg.key \in Keys /\ "" \in Reasons
    BY ConfigFields DEF TypeOK, Reasons
  <2> QED
    BY <1>t, <2>1, Edits
<1>2. /\ cfg' \in Configs /\ cfg'.key = cfg.key /\ cfg'.pending = cfg.pending
      /\ cfg'.reason = cfg.reason
  BY <1>1 DEF Like
<1>3. TypeOK'
  BY <1>2, <1>t DEF TypeOK
<1>4. KeysAreIssued' /\ IssuedInOrder'
  BY <1>2, <1>t DEF KeyInv, KeysAreIssued, WasIssued, Issued, IssuedInOrder, IsNewest
<1>5. LoginKeeps' /\ VerifiesPending' /\ RotatesAlone' /\ SaveFollows' /\ NoLoginYet'
  BY <1>2, <1>t DEF KeyInv, LoginKeeps, VerifiesPending, RotatesAlone, SaveFollows, NoLoginYet
<1>6. ReasonFollows'
  <2>1. pc' # "save" /\ UNCHANGED <<faults, up>>
    BY <1>t
  <2> QED
    BY <2>1 DEF KeyInv, ReasonFollows
<1>7. AuthReasonIsRight'
  <2> SUFFICES ASSUME faults' = 0, up', pc' # "save", ~clash'
               PROVE  cfg'.reason = authReason' /\ (mode' = "active" => cfg'.reason = "")
    BY DEF AuthReasonIsRight
  <2>1. up' = up
    BY <1>t
  <2>2. up
    BY <2>1
  <2>3. faults = 0 /\ pc # "save" /\ ~clash /\ mode' = mode /\ cfg'.reason = cfg.reason
        /\ authReason' = authReason
    BY <1>2, <1>t
  <2>4. cfg.reason = authReason /\ (mode = "active" => cfg.reason = "")
    BY <2>2, <2>3 DEF KeyInv, AuthReasonIsRight
  <2> QED
    BY <2>3, <2>4
<1>8. PendingIsNewer'
  BY <1>2, <1>t DEF KeyInv, PendingIsNewer
<1>9. NewestIsHeld'
  BY <1>2, <1>t DEF KeyInv, NewestIsHeld, IsNewest, Issued, Valid
<1>10. ActiveHasNone'
  BY <1>t DEF KeyInv, ActiveHasNone
<1>11. KeysAreVerified'
  <2>1. cfg'.key \in verified'
    BY <1>2, <1>t DEF KeyInv, KeysAreVerified
  <2>2. copy' # NoConfig => copy'.key \in verified'
    BY <1>t DEF KeyInv, KeysAreVerified
  <2>3. login' # NoKey => login' \in verified'
    BY <1>t DEF KeyInv, KeysAreVerified
  <2> QED
    BY <1>t, <2>1, <2>2, <2>3 DEF KeysAreVerified
<1> QED
  BY <1>3, <1>4, <1>5, <1>6, <1>7, <1>8, <1>9, <1>10, <1>11 DEF KeyInv

\* The invariant holds at the start, with one key.
LEMMA KeyInit == Init => TypeOK /\ KeyInv
<1> SUFFICES ASSUME Init PROVE TypeOK /\ KeyInv
  OBVIOUS
<1>1. 1 \in Keys /\ 1 # NoKey /\ NoConfig \in Configs \cup {NoConfig}
  BY ConstantsAssumption DEF Keys, NoKey
<1>2. cfg \in Configs /\ cfg.key = 1 /\ cfg.pending = NoKey /\ cfg.reason = ""
  BY <1>1 DEF Init, Configs, Reasons
<1>3. TypeOK
  <2>1. life \in [Keys -> Lives]
    BY DEF Init, Lives
  <2>2. /\ client = 1 /\ pc = "beat" /\ held = NoKey /\ login = NoKey /\ mode = "active"
        /\ why = "check" /\ then = "wait" /\ copy = NoConfig /\ loginCopy = NoConfig
        /\ mislaid = {} /\ verified = {1} /\ authReason = ""
    BY DEF Init
  <2>3. up \in BOOLEAN /\ clash \in BOOLEAN
    BY DEF Init
  <2>4. logins \in 0 .. MaxLogins /\ revokes \in 0 .. MaxRevokes /\ faults \in 0 .. MaxFaults
    <3>1. logins = 0 /\ revokes = 0 /\ faults = 0
      BY DEF Init
    <3> QED
      BY <3>1, ConstantsAssumption
  <2> QED
    BY <1>1, <1>2, <2>1, <2>2, <2>3, <2>4 DEF TypeOK, Reasons
<1>4. \A k \in Keys : Issued(k) <=> k = 1
  BY DEF Init, Issued
<1>5. IsNewest(1) /\ \A m \in Keys : IsNewest(m) => m = 1
  BY <1>1, <1>4 DEF IsNewest, Keys
<1>6. IssuedInOrder /\ KeysAreIssued
  BY <1>1, <1>2, <1>4, <1>5 DEF Init, IssuedInOrder, KeysAreIssued, WasIssued
<1>7. LoginKeeps /\ VerifiesPending /\ RotatesAlone /\ SaveFollows /\ NoLoginYet
  BY DEF Init, LoginKeeps, VerifiesPending, RotatesAlone, SaveFollows, NoLoginYet
<1>8. ReasonFollows
  BY DEF Init, ReasonFollows
<1>9. AuthReasonIsRight
  BY <1>2 DEF Init, AuthReasonIsRight
<1>10. PendingIsNewer
  BY <1>2 DEF Init, PendingIsNewer
<1>11. NewestIsHeld
  BY <1>2, <1>5 DEF Init, NewestIsHeld
<1>12. ActiveHasNone /\ KeysAreVerified
  BY <1>2 DEF Init, ActiveHasNone, KeysAreVerified
<1> QED
  BY <1>3, <1>6, <1>7, <1>8, <1>9, <1>10, <1>11, <1>12 DEF KeyInv

\* Every step preserves the invariant.
LEMMA KeyStep == TypeOK /\ KeyInv /\ [Next]_vars => TypeOK' /\ KeyInv'
<1> SUFFICES ASSUME TypeOK, KeyInv, [Next]_vars PROVE TypeOK' /\ KeyInv'
  OBVIOUS
<1>1. CASE Next
  BY <1>1, CycleStep, RotateOkStep, RotateAnswerLostStep, PersistStep, VerifyOkStep,
     VerifyRejectedStep, SaveStep, FaultStep, RestartStep, LifeStep, LoginIssueStep, LoadStep,
     LoginSaveStep, DayPassesStep DEF Next, Daemon
<1>2. CASE UNCHANGED vars
  <2>1. TypeOK' <=> TypeOK
    BY <1>2 DEF vars, server, flow, user, auth, past, TypeOK
  <2>2. /\ KeysAreIssued' <=> KeysAreIssued
        /\ IssuedInOrder' <=> IssuedInOrder
        /\ NewestIsHeld' <=> NewestIsHeld
    BY <1>2 DEF vars, server, flow, user, auth, past, KeysAreIssued, WasIssued, Issued, IssuedInOrder,
                IsNewest, NewestIsHeld, Valid
  <2>3. /\ LoginKeeps' <=> LoginKeeps
        /\ VerifiesPending' <=> VerifiesPending
        /\ RotatesAlone' <=> RotatesAlone
        /\ SaveFollows' <=> SaveFollows
    BY <1>2 DEF vars, server, flow, user, auth, past, LoginKeeps, VerifiesPending, RotatesAlone, SaveFollows,
                Valid
  <2>4. /\ ReasonFollows' <=> ReasonFollows
        /\ AuthReasonIsRight' <=> AuthReasonIsRight
        /\ NoLoginYet' <=> NoLoginYet
        /\ PendingIsNewer' <=> PendingIsNewer
        /\ ActiveHasNone' <=> ActiveHasNone
        /\ KeysAreVerified' <=> KeysAreVerified
    BY <1>2 DEF vars, server, flow, user, auth, past, ReasonFollows, AuthReasonIsRight, NoLoginYet,
                PendingIsNewer, ActiveHasNone, KeysAreVerified
  <2> QED
    BY <2>1, <2>2, <2>3, <2>4 DEF KeyInv
<1> QED
  BY <1>1, <1>2

\* The invariant holds in every state.
LEMMA KeySafe == Spec => [](TypeOK /\ KeyInv)
  BY KeyInit, KeyStep, PTL DEF Spec

\* Three actions write the file.
LEMMA Writers == [Next]_vars /\ cfg' # cfg => Save \/ LoginSave \/ DayPasses
<1> SUFFICES ASSUME [Next]_vars, cfg' # cfg PROVE Save \/ LoginSave \/ DayPasses
  OBVIOUS
<1>1. ~ UNCHANGED vars
  BY DEF vars
<1>2. ~(Wake \/ BeatOk \/ BeatLost \/ (\E code \in Codes : BeatRejected(code) \/ FlushRejected(code))
        \/ Check \/ RotateOk \/ RotateAnswerLost \/ RotateFails \/ Persist \/ Recover \/ VerifyOk
        \/ VerifyRejected \/ VerifyLost \/ FlushDone \/ SaveFails)
  BY DEF Wake, BeatOk, BeatLost, BeatRejected, Check, RotateOk, RotateAnswerLost, RotateFails,
         Persist, Recover, VerifyOk, VerifyRejected, VerifyLost, FlushDone, FlushRejected, SaveFails
<1>3. ~(Crash \/ Restart \/ LoginIssue \/ LoginLoad \/ RegisterLoad \/ KeyAges \/ Revoke)
  BY DEF Crash, Restart, LoginIssue, LoginLoad, RegisterLoad, KeyAges, Revoke
<1> QED
  BY <1>1, <1>2, <1>3 DEF Next, Daemon

\* What such a step makes of the key and of the pending key in the file.
LEMMA FileStep ==
  ASSUME TypeOK, KeyInv, [Next]_vars
  PROVE  /\ cfg'.key \in verified
         /\ ~clash' =>
              /\ cfg'.key # cfg.key => (cfg'.key = login /\ login' = NoKey) \/ cfg'.key = cfg.pending
              /\ cfg.pending # NoKey /\ cfg'.pending # cfg.pending =>
                   cfg'.key = cfg.pending \/ ~Valid(cfg.pending)
<1>1. CASE Save
  <2>1. pc = "save" /\ up /\ cfg' = copy /\ clash' = (clash \/ loginCopy # NoConfig)
    BY <1>1 DEF Save
  <2>2. ~clash' => ~clash
    BY <2>1
  <2>3. copy # NoConfig
    BY <2>1, ConfigFields DEF TypeOK
  <2>4. copy.key \in verified
    BY <2>3 DEF KeyInv, KeysAreVerified
  <2> QED
    BY <2>1, <2>2, <2>4 DEF KeyInv, SaveFollows
<1>2. CASE LoginSave
  <2>1. /\ loginCopy # NoConfig /\ cfg' = LoggedIn(loginCopy)
        /\ login' = NoKey /\ clash' = (clash \/ (up /\ pc = "save"))
    BY <1>2 DEF LoginSave
  <2>2. loginCopy \in Configs /\ login \in Keys /\ login # NoKey /\ "" \in Reasons
    BY <2>1 DEF TypeOK, Reasons
  <2>3. Like(cfg', login, loginCopy.pending, loginCopy.reason)
    BY <2>1, <2>2, Edits DEF LoggedIn
  <2>4. ~clash' => loginCopy = cfg
    BY <2>1 DEF KeyInv, LoginKeeps
  <2>5. login \in verified
    BY <2>2 DEF KeyInv, KeysAreVerified
  <2> QED
    BY <2>1, <2>3, <2>4, <2>5 DEF Like
<1>3. CASE DayPasses
  <2>1. cfg' = [cfg EXCEPT !.recent = FALSE]
    BY <1>3 DEF DayPasses
  <2>2. cfg \in Configs /\ cfg.key \in Keys /\ "" \in Reasons
    BY ConfigFields DEF TypeOK, Reasons
  <2>3. Like(cfg', cfg.key, cfg.pending, cfg.reason)
    BY <2>1, <2>2, Edits
  <2> QED
    BY <2>3 DEF Like, KeyInv, KeysAreVerified
<1>4. CASE cfg' = cfg
  BY <1>4 DEF KeyInv, KeysAreVerified
<1> QED
  BY <1>1, <1>2, <1>3, <1>4, Writers
-----------------------------------------------------------------------------
\* Every variable has its type; the uploader saves and verifies only what it
\* holds (rotation.go:60-137).
THEOREM KeyTypeCorrect == Spec => []TypeOK
<1>1. TypeOK /\ KeyInv => TypeOK
  OBVIOUS
<1> QED
  BY <1>1, KeySafe, PTL

\* While no login interferes, a key the backend issued and accepts is known to
\* this machine, or its answer was lost, or the process died or failed to save
\* before it was saved once: for any number of rotations, rejected or unanswered
\* requests and restarts (rotation.go:57-97).
THEOREM RotationForgetsNoKey == Spec => []NewestIsKnown
<1>1. TypeOK /\ KeyInv => NewestIsKnown
  <2> SUFFICES ASSUME TypeOK, KeyInv, Valid(Newest), logins = 0
               PROVE  Newest \in Known \cup mislaid
    BY DEF NewestIsKnown
  <2>1. PICK m \in Keys : IsNewest(m)
    BY DEF KeyInv, IssuedInOrder
  <2>2. Newest = m
    BY <2>1, NewestIsNewest
  <2>3. m \notin mislaid => \/ m \in {cfg.key, cfg.pending}
                            \/ up /\ pc \in {"persist", "save"} /\ held = m
    BY <2>1, <2>2 DEF KeyInv, NewestIsHeld
  <2> QED
    BY <2>2, <2>3 DEF Known
<1> QED
  BY <1>1, KeySafe, PTL

\* As long as nothing failed and no two saves overlapped, the file gives the
\* reason the daemon has for being paused, which is none while it is active
\* (config.go:104-107, uploader.go:443-476): with any codes in the refusals, none
\* among them.
THEOREM FileTellsTheReason == Spec => []AuthReasonIsRight
<1>1. TypeOK /\ KeyInv => AuthReasonIsRight
  BY DEF KeyInv
<1> QED
  BY <1>1, KeySafe, PTL

\* A key is put into the file as the one to use only after a verification with
\* it succeeded or it was issued to a login, even when saves overlap; when none
\* does it is the login's key or the pending key in the file (rotation.go:99-160,
\* login.go:262-283).
THEOREM OnlyVerifiedKeys == Spec => KeyFollowsPending
<1>1. TypeOK /\ KeyInv /\ [Next]_vars =>
        [cfg'.key # cfg.key =>
           /\ cfg'.key \in verified
           /\ ~clash' => \/ cfg'.key = login /\ login' = NoKey
                         \/ cfg'.key = cfg.pending]_vars
  BY FileStep
<1> QED
  BY <1>1, KeySafe, PTL DEF Spec, KeyFollowsPending

\* A pending key leaves the file only as the new key or once the backend does
\* not accept it, whatever is lost, fails or dies (rotation.go:131-133).
THEOREM PendingIsKept == Spec => PendingSurvives
<1>1. TypeOK /\ KeyInv /\ [Next]_vars =>
        [cfg.pending # NoKey /\ cfg'.pending # cfg.pending /\ ~clash' =>
           cfg'.key = cfg.pending \/ ~Valid(cfg.pending)]_vars
  BY FileStep
<1> QED
  BY <1>1, KeySafe, PTL DEF Spec, PendingSurvives
=============================================================================

------------------------- MODULE SessionQueueProofs -------------------------
(***************************************************************************)
(* Theorems about SessionQueue, for any sessions, caps, bounds, faults and *)
(* copies of requests.  What makes an Ack by revision safe is updated_at:  *)
(* every merge moves it forward, so a snapshot is as new as the row only   *)
(* if it says what the row says.                                           *)
(***************************************************************************)
EXTENDS SessionQueue, FiniteSetTheorems, TLAPS

Items == [session : Sessions, rev : Nat, upd : Nat, from : Nat, to : Nat]
Of(s) == {i \in sent : i.session = s}
Exists(s) == row[s].state # "none"

\* What the item says is what the row says.
Matches(i, s) == i.upd = row[s].upd /\ i.from = row[s].from /\ i.to = row[s].to

\* The types of what is on the wire and of what the backend keeps.
WireTypeOK ==
  /\ sent \subseteq Items
  /\ remote \in [Sessions -> [upd : Nat, from : Nat, to : Nat]]

TypeInv == TypeOK /\ WireTypeOK

\* A summary that exists has a time.
UpdIsSet ==
  /\ \A s \in Sessions : Exists(s) => row[s].upd > 0
  /\ \A i \in sent : i.upd > 0

\* The backend makes nothing up.
RemoteWasSent ==
  \A s \in Sessions : \/ remote[s] = Snapshot(NoRow)
                      \/ \E i \in Of(s) : remote[s] = Snapshot(i)

\* Nothing sent of a session is newer than its row, and what is as new says the
\* same; a session whose row is gone was last sent before now.
RowIsNewest ==
  \A s \in Sessions \ evicted : \A i \in Of(s) :
    IF Exists(s) THEN i.upd <= row[s].upd /\ (i.upd = row[s].upd => Matches(i, s))
                 ELSE i.upd < clock

\* The batch has an item of a session at most once, its row is not acked, and is
\* the item's or a later revision.
BatchFits ==
  /\ \A i, j \in batch : i.session = j.session => i = j
  /\ \A i \in batch : i.session \notin evicted =>
       LET s == i.session
       IN /\ row[s].state \in Outstanding
          /\ i.rev <= row[s].rev
          /\ i.rev = row[s].rev => Matches(i, s)

\* Once the answer is here, the backend has each item or one that is newer.
AckingIsStored ==
  pc = "acking" => \A i \in batch : i.upd <= remote[i.session].upd

\* The summaries of a session whose row was never deleted start at its first
\* upsert, and a newer one holds no less.
FromIsZero ==
  \A s \in Sessions \ (evicted \cup pruned) :
    /\ IF Exists(s) THEN row[s].from = 0 ELSE total[s] = 0 /\ Of(s) = {}
    /\ \A i \in Of(s) : i.from = 0 /\ i.to <= row[s].to
    /\ \A i, j \in Of(s) : i.upd <= j.upd => i.to <= j.to

\* The inductive invariant.
SessionInv ==
  /\ UpdIsSet
  /\ RemoteWasSent
  /\ RowIsNewest
  /\ BatchFits
  /\ AckingIsStored
  /\ AckedIsStored
  /\ FromIsZero
-----------------------------------------------------------------------------
\* Marking rows changes nothing but their state.
LEMMA SetStateRows ==
  ASSUME row \in [Sessions -> RowSet],
         NEW S \in SUBSET Sessions, NEW state \in Outstanding \cup {"acked"}
  PROVE  /\ SetState(S, state) \in [Sessions -> RowSet]
         /\ \A s \in Sessions :
              /\ SetState(S, state)[s].rev = row[s].rev
              /\ SetState(S, state)[s].upd = row[s].upd
              /\ SetState(S, state)[s].from = row[s].from
              /\ SetState(S, state)[s].to = row[s].to
              /\ SetState(S, state)[s].state = IF s \in S THEN state ELSE row[s].state
  BY DEF SetState, RowSet, Outstanding

\* The rows a lease takes are leasable, and there is one.
LEMMA LeasedRows ==
  ASSUME NEW B \in OldestLeasable
  PROVE  /\ B \subseteq Leasable
         /\ Leasable # {} => B # {}
<1>1. B \subseteq Leasable /\ (B = Leasable \/ Cardinality(B) = BatchSize)
  BY DEF OldestLeasable
<1>2. Cardinality({}) = 0
  BY FS_EmptySet
<1> QED
  BY <1>1, <1>2, ConstantsAssumption

\* What the backend has of a session after a request is what it had, or an item
\* of the request that is newer.
LEMMA AppliedSnapshots ==
  ASSUME remote \in [Sessions -> [upd : Nat, from : Nat, to : Nat]],
         NEW I \in SUBSET Items, NEW s \in Sessions
  PROVE  \/ /\ Applied(I)[s] = remote[s]
            /\ \A i \in I : i.session = s => i.upd <= remote[s].upd
         \/ \E i \in I : /\ i.session = s /\ i.upd > remote[s].upd
                         /\ Applied(I)[s] = Snapshot(i)
<1>1. CASE \E i \in I : i.session = s /\ i.upd > remote[s].upd
  <2> DEFINE new == CHOOSE i \in I : i.session = s /\ i.upd > remote[s].upd
  <2>1. new \in I /\ new.session = s /\ new.upd > remote[s].upd
    BY <1>1
  <2>2. Applied(I)[s] = Snapshot(new)
    BY <1>1 DEF Applied
  <2> HIDE DEF new
  <2> QED
    BY <2>1, <2>2
<1>2. CASE ~ \E i \in I : i.session = s /\ i.upd > remote[s].upd
  <2>1. Applied(I)[s] = remote[s]
    BY <1>2 DEF Applied
  <2>2. \A i \in I : i.session = s => i.upd <= remote[s].upd
    BY <1>2 DEF Items
  <2> QED
    BY <2>1, <2>2
<1> QED
  BY <1>1, <1>2

\* The backend's snapshots keep their type.
LEMMA AppliedType ==
  ASSUME WireTypeOK, NEW I \in SUBSET Items
  PROVE  Applied(I) \in [Sessions -> [upd : Nat, from : Nat, to : Nat]]
<1>1. ASSUME NEW s \in Sessions
      PROVE  Applied(I)[s] \in [upd : Nat, from : Nat, to : Nat]
  <2>1. Applied(I)[s] = remote[s] \/ \E i \in I : Applied(I)[s] = Snapshot(i)
    BY AppliedSnapshots DEF WireTypeOK
  <2>2. \A i \in Items : Snapshot(i) \in [upd : Nat, from : Nat, to : Nat]
    BY DEF Items, Snapshot
  <2> QED
    BY <2>1, <2>2 DEF WireTypeOK
<1>2. DOMAIN Applied(I) = Sessions /\ Applied(I) = [s \in Sessions |-> Applied(I)[s]]
  BY DEF Applied
<1> QED
  BY <1>1, <1>2

\* What an upsert makes of the row of s.
Upserted(S, s) == IF s \in S THEN Merged(s) ELSE row[s]

\* A merge starts or extends the summary, and moves its time forward.
LEMMA MergedRow ==
  ASSUME TypeInv, NEW s \in Sessions
  PROVE  LET m == Merged(s)
         IN /\ m \in RowSet
            /\ m.rev = row[s].rev + 1 /\ m.state = "pending" /\ m.to = total[s] + 1
            /\ Exists(s) => m.from = row[s].from /\ m.upd > row[s].upd
            /\ ~ Exists(s) => m.from = total[s] /\ m.upd = clock
            /\ m.rev = m.to - m.from
            /\ m.upd > 0
  BY DEF TypeInv, TypeOK, Merged, UpdatedAt, RowSet, NoRow, Outstanding, Exists
-----------------------------------------------------------------------------
\* Type correctness, of the wire and the backend too.
LEMMA TypeInit == Init => TypeInv
  BY ConstantsAssumption DEF Init, TypeInv, TypeOK, WireTypeOK, RowSet, NoRow, Snapshot

\* What TypeOK says of the rows alone.
RowsOK ==
  /\ row \in [Sessions -> RowSet]
  /\ total \in [Sessions -> 0 .. MaxUpdates]
  /\ \A s \in Sessions : IF row[s].state = "none" THEN row[s] = NoRow
                         ELSE /\ row[s].rev = row[s].to - row[s].from
                              /\ row[s].rev > 0 /\ row[s].to = total[s]

\* Rows there are may be marked.
LEMMA SetStateOK ==
  ASSUME TypeInv, NEW S \in SUBSET Sessions, NEW state \in Outstanding \cup {"acked"},
         \A s \in S : Exists(s),
         row' = SetState(S, state), total' = total
  PROVE  RowsOK'
<1>1. /\ row' \in [Sessions -> RowSet]
      /\ \A s \in Sessions : /\ row'[s].rev = row[s].rev /\ row'[s].upd = row[s].upd
                             /\ row'[s].from = row[s].from /\ row'[s].to = row[s].to
                             /\ row'[s].state = IF s \in S THEN state ELSE row[s].state
  <2>1. row \in [Sessions -> RowSet]
    BY DEF TypeInv, TypeOK
  <2> QED
    BY <2>1, SetStateRows
<1>2. \A s \in Sessions \ S : row'[s] = row[s]
  BY DEF SetState
<1>3. \A s \in S : row'[s].state # "none" /\ row[s].state # "none"
  BY <1>1 DEF Exists, Outstanding
<1> QED
  BY <1>1, <1>2, <1>3 DEF TypeInv, TypeOK, RowsOK

\* After an upsert a row is merged or as it was, or its session is evicted.
LEMMA UpsertOK ==
  ASSUME TypeInv, NEW S \in SUBSET Sessions, UpsertSessionEvents(S)
  PROVE  /\ RowsOK'
         /\ evicted' \subseteq Sessions /\ evicted \subseteq evicted'
         /\ total' = [s \in Sessions |-> IF s \in S THEN total[s] + 1 ELSE total[s]]
         /\ \A s \in Sessions : \/ row'[s] = Upserted(S, s)
                                \/ row'[s] = NoRow /\ s \in evicted'
<1> DEFINE r == [s \in Sessions |-> Upserted(S, s)]
<1>1. PICK D \in SUBSET Sessions :
        /\ row' = [s \in Sessions |-> IF s \in D THEN NoRow ELSE r[s]]
        /\ evicted' = evicted \cup D
  <2>1. CASE \E D \in Surplus(r) :
               /\ row' = [s \in Sessions |-> IF s \in D THEN NoRow ELSE r[s]]
               /\ evicted' = evicted \cup D
    BY <2>1 DEF Surplus, Stored
  <2>2. CASE row' = r /\ evicted' = evicted
    <3>1. row' = [s \in Sessions |-> IF s \in {} THEN NoRow ELSE r[s]]
      BY <2>2
    <3>2. evicted' = evicted \cup {}
      BY <2>2
    <3> HIDE DEF r
    <3> QED
      BY <3>1, <3>2
  <2> QED
    BY <2>1, <2>2 DEF UpsertSessionEvents, Upserted
<1>2. ASSUME NEW s \in Sessions
      PROVE  /\ r[s] \in RowSet
             /\ IF r[s].state = "none" THEN r[s] = NoRow
                ELSE /\ r[s].rev = r[s].to - r[s].from
                     /\ r[s].rev > 0 /\ r[s].to = total'[s]
  <2>1. CASE s \in S
    BY <2>1, MergedRow DEF Upserted, UpsertSessionEvents, TypeInv, TypeOK, RowSet
  <2>2. CASE s \notin S
    BY <2>2 DEF Upserted, UpsertSessionEvents, TypeInv, TypeOK
  <2> QED
    BY <2>1, <2>2
<1>3. total' \in [Sessions -> 0 .. MaxUpdates]
  BY ConstantsAssumption DEF UpsertSessionEvents, TypeInv, TypeOK
<1>4. NoRow \in RowSet /\ NoRow.state = "none"
  BY DEF NoRow, RowSet
<1>5. row' \in [Sessions -> RowSet]
  BY <1>1, <1>2, <1>4
<1>6. ASSUME NEW s \in Sessions
      PROVE  (row'[s] = NoRow /\ s \in evicted') \/ row'[s] = r[s]
  BY <1>1
<1>7. RowsOK'
  BY <1>2, <1>3, <1>4, <1>5, <1>6 DEF RowsOK
<1>8. evicted' \subseteq Sessions /\ evicted \subseteq evicted'
  BY <1>1 DEF TypeInv, TypeOK
<1> QED
  BY <1>6, <1>7, <1>8 DEF UpsertSessionEvents

\* What is leased can be sent.
LEMMA ItemType ==
  ASSUME TypeInv, NEW s \in Sessions
  PROVE  Item(s) \in Items
  BY DEF TypeInv, TypeOK, RowSet, Item, Items

\* Every step preserves the types.
LEMMA TypeStep == TypeInv /\ [Next]_vars => TypeInv'
<1> SUFFICES ASSUME TypeInv, [Next]_vars PROVE TypeInv'
  OBVIOUS
<1>0. /\ RowsOK' /\ UNCHANGED <<clock, pc, batch, sent, remote, up, pruned>>
      /\ evicted' \subseteq Sessions /\ faults' \in 0 .. MaxFaults
      => TypeInv'
  BY DEF TypeInv, TypeOK, WireTypeOK, RowsOK
<1>a. \A n \in {faults, faults + 1} : n \in 0 .. MaxFaults \/ ~ faults < MaxFaults
  BY ConstantsAssumption DEF TypeInv, TypeOK
<1>b. RowsOK /\ faults \in 0 .. MaxFaults /\ evicted \subseteq Sessions /\ batch \subseteq Items
  BY DEF TypeInv, TypeOK, RowsOK, WireTypeOK
<1>1. CASE Tick
  BY <1>1, ConstantsAssumption DEF Tick, TypeInv, TypeOK, WireTypeOK, ghosts
<1>2. ASSUME NEW S \in (SUBSET Sessions) \ {{}}, UpsertSessionEvents(S) PROVE TypeInv'
  <2>1. faults' \in 0 .. MaxFaults
    BY <1>2, <1>a, <1>b DEF UpsertSessionEvents
  <2> QED
    BY <1>2, <1>0, <2>1, UpsertOK DEF UpsertSessionEvents
<1>3. CASE Lease
  <2>1. PICK B \in OldestLeasable : row' = SetState(B, "leased") /\ batch' = {Item(s) : s \in B}
    BY <1>3 DEF Lease
  <2>2. B \subseteq Leasable /\ B # {}
    BY <1>3, LeasedRows DEF Lease
  <2>3. B \in SUBSET Sessions /\ \A s \in B : Exists(s)
    BY <2>2 DEF Leasable, Exists
  <2>4. RowsOK'
    BY <2>1, <2>3, <1>3, SetStateOK DEF Lease, Outstanding
  <2>5. batch' # {} /\ batch' \subseteq Items
    BY <2>1, <2>2, <2>3, ItemType
  <2>6. sent' \subseteq Items /\ batch' \subseteq sent' /\ pc' = "sending"
    BY <2>5, <1>3 DEF Lease, TypeInv, WireTypeOK
  <2> QED
    BY <2>4, <2>5, <2>6, <1>3 DEF Lease, TypeInv, TypeOK, WireTypeOK, RowsOK, ghosts
<1>4. CASE LeaseFails
  <2>1. PICK P \in SUBSET Sessions : row' = SetState(P, "leased") /\ P \subseteq Leasable
    BY <1>4, LeasedRows DEF LeaseFails, Leasable
  <2>2. RowsOK'
    BY <2>1, <1>4, SetStateOK DEF LeaseFails, Outstanding, Leasable, Exists
  <2> QED
    BY <1>4, <2>2, <1>0, <1>a, <1>b DEF LeaseFails, ghosts
<1>5. CASE SendOk
  <2>1. Applied(batch) \in [Sessions -> [upd : Nat, from : Nat, to : Nat]]
    BY <1>b, AppliedType DEF TypeInv
  <2> QED
    BY <1>5, <2>1 DEF SendOk, TypeInv, TypeOK, WireTypeOK, ghosts
<1>6. CASE SendFails
  BY <1>6 DEF SendFails, TypeInv, TypeOK, WireTypeOK, ghosts
<1>7. CASE Arrive
  <2>1. \A i \in sent : Applied({i}) \in [Sessions -> [upd : Nat, from : Nat, to : Nat]]
    BY AppliedType DEF TypeInv, WireTypeOK
  <2> QED
    BY <1>7, <2>1 DEF Arrive, TypeInv, TypeOK, WireTypeOK, ghosts
<1>8. \A I : Current(I) \in SUBSET Sessions /\ \A s \in Current(I) : Exists(s)
  BY DEF Current, Exists
<1>9. RowsOK' /\ BatchDone /\ faults' \in 0 .. MaxFaults => TypeInv'
  BY DEF TypeInv, TypeOK, WireTypeOK, RowsOK, BatchDone, ghosts
<1>10. CASE AckSessions
  <2>1. RowsOK'
    BY <1>8, <1>10, SetStateOK DEF AckSessions, BatchDone
  <2> QED
    BY <1>9, <1>10, <2>1, <1>b DEF AckSessions
<1>11. CASE NackSessions
  <2>1. RowsOK'
    BY <1>8, <1>11, SetStateOK DEF NackSessions, BatchDone, Outstanding
  <2> QED
    BY <1>9, <1>11, <2>1, <1>b DEF NackSessions
<1>12. CASE FinishFails
  <2>1. PICK I : \/ row' = SetState(Current(I), "acked")
                 \/ row' = SetState(Current(I), "pending")
    BY <1>12 DEF FinishFails
  <2>2. RowsOK'
    BY <1>8, <1>12, <2>1, SetStateOK DEF FinishFails, BatchDone, Outstanding
  <2> QED
    BY <1>9, <1>12, <2>2, <1>a, <1>b DEF FinishFails
<1>13. CASE LeaseExpires
  <2>1. PICK s \in Sessions : row[s].state = "leased" /\ row' = SetState({s}, "lapsed")
    BY <1>13 DEF LeaseExpires
  <2>2. RowsOK'
    BY <1>13, <2>1, SetStateOK DEF LeaseExpires, Outstanding, Exists
  <2> QED
    BY <1>13, <2>2, <1>0, <1>b DEF LeaseExpires, ghosts
<1>14. CASE PruneAckedSessions
  <2>1. PICK S \in SUBSET Sessions :
          /\ row' = [s \in Sessions |-> IF s \in S THEN NoRow ELSE row[s]]
          /\ pruned' = pruned \cup S
    BY <1>14 DEF PruneAckedSessions
  <2>2. RowsOK'
    BY <1>14, <1>b, <2>1 DEF PruneAckedSessions, RowsOK, NoRow, RowSet
  <2>3. pruned' \subseteq Sessions
    BY <2>1 DEF TypeInv, TypeOK
  <2> QED
    BY <1>14, <2>2, <2>3 DEF PruneAckedSessions, TypeInv, TypeOK, WireTypeOK, RowsOK
<1>15. CASE Crash
  BY <1>15, <1>a DEF Crash, TypeInv, TypeOK, WireTypeOK, ghosts
<1>16. CASE Restart
  BY <1>16 DEF Restart, TypeInv, TypeOK, WireTypeOK, ghosts
<1>17. CASE UNCHANGED vars
  BY <1>17 DEF vars, TypeInv, TypeOK, WireTypeOK, ghosts
<1> QED
  BY <1>1, <1>2, <1>3, <1>4, <1>5, <1>6, <1>7, <1>10, <1>11, <1>12, <1>13, <1>14,
     <1>15, <1>16, <1>17 DEF Next

\* Every variable has its type in every state.
LEMMA TypeSafe == Spec => []TypeInv
  BY TypeInit, TypeStep, PTL DEF Spec
-----------------------------------------------------------------------------
\* An empty table has the invariant.
LEMMA SessionInit == Init => SessionInv
  BY DEF Init, SessionInv, UpdIsSet, RemoteWasSent, RowIsNewest, BatchFits, AckingIsStored,
     AckedIsStored, FromIsZero, Exists, Of, NoRow

\* Rows are leased again, lapse, or are released; those that are acked are what the
\* backend has, and then the batch is done.
LEMMA MarkStep ==
  ASSUME TypeInv, SessionInv,
         NEW S \in SUBSET Sessions, NEW state \in Outstanding \cup {"acked"},
         \A s \in S : Exists(s),
         row' = SetState(S, state),
         UNCHANGED <<clock, total, evicted, pruned, sent, remote>>,
         state = "acked" => \A s \in S \ evicted : remote[s] = Snapshot(row[s]),
         \/ batch' = {} /\ pc' # "acking"
         \/ UNCHANGED <<batch, pc>> /\ state # "acked"
  PROVE  SessionInv'
<1>1. \A s \in Sessions : /\ row'[s].rev = row[s].rev /\ row'[s].upd = row[s].upd
                          /\ row'[s].from = row[s].from /\ row'[s].to = row[s].to
                          /\ row'[s].state = IF s \in S THEN state ELSE row[s].state
  <2>1. row \in [Sessions -> RowSet]
    BY DEF TypeInv, TypeOK
  <2> QED
    BY <2>1, SetStateRows
<1>2. \A s \in Sessions : Exists(s)' <=> Exists(s)
  BY <1>1 DEF Exists, Outstanding
<1>3. \A s \in Sessions : Of(s)' = Of(s) /\ Snapshot(row'[s]) = Snapshot(row[s])
  BY <1>1 DEF Of, Snapshot
<1>4. \A s \in Sessions : \A i : Matches(i, s)' <=> Matches(i, s)
  BY <1>1 DEF Matches
<1>5. UpdIsSet'
  BY <1>1, <1>2 DEF SessionInv, UpdIsSet
<1>6. RemoteWasSent'
  BY <1>3 DEF SessionInv, RemoteWasSent, Snapshot
<1>7. RowIsNewest'
  BY <1>1, <1>2, <1>3, <1>4 DEF SessionInv, RowIsNewest
<1>8. BatchFits'
  <2>1. CASE batch' = {}
    BY <2>1 DEF BatchFits
  <2>2. CASE UNCHANGED <<batch, pc>> /\ state # "acked"
    BY <2>2, <1>1, <1>4 DEF SessionInv, BatchFits, TypeInv, TypeOK, WireTypeOK, Items
  <2> QED
    BY <2>1, <2>2
<1>9. AckingIsStored'
  BY DEF SessionInv, AckingIsStored
<1>10. AckedIsStored'
  BY <1>1, <1>3 DEF SessionInv, AckedIsStored
<1>11. FromIsZero'
  BY <1>1, <1>2, <1>3 DEF SessionInv, FromIsZero
<1> QED
  BY <1>5, <1>6, <1>7, <1>8, <1>9, <1>10, <1>11 DEF SessionInv

\* A request arrives, or an old copy of one.
LEMMA RemoteStep ==
  ASSUME TypeInv, SessionInv, NEW I \in SUBSET sent,
         remote' = Applied(I),
         UNCHANGED <<clock, row, total, evicted, pruned, sent, batch>>,
         pc' = "acking" => pc = "acking" \/ I = batch
  PROVE  SessionInv'
<1>1. I \in SUBSET Items /\ remote \in [Sessions -> [upd : Nat, from : Nat, to : Nat]]
  BY DEF TypeInv, WireTypeOK
<1>2. ASSUME NEW s \in Sessions
      PROVE  \/ /\ remote'[s] = remote[s]
                /\ \A i \in I : i.session = s => i.upd <= remote[s].upd
             \/ \E i \in I : /\ i.session = s /\ i.upd > remote[s].upd
                             /\ remote'[s] = Snapshot(i)
  BY <1>1, AppliedSnapshots
<1>3. UNCHANGED <<UpdIsSet, RowIsNewest, BatchFits, FromIsZero>>
  BY DEF UpdIsSet, RowIsNewest, BatchFits, FromIsZero, Exists, Of, Matches
<1>4. RemoteWasSent'
  BY <1>2 DEF SessionInv, RemoteWasSent, Of
<1>5. AckingIsStored'
  <2> SUFFICES ASSUME pc' = "acking", NEW i \in batch PROVE i.upd <= remote'[i.session].upd
    BY DEF AckingIsStored
  <2>1. i \in Items /\ i \in sent /\ i.session \in Sessions
    BY DEF TypeInv, TypeOK, WireTypeOK, Items
  <2>2. CASE pc = "acking"
    <3>1. i.upd <= remote[i.session].upd
      BY <2>2 DEF SessionInv, AckingIsStored
    <3>2. \A j \in I : j.upd > remote[i.session].upd => i.upd <= Snapshot(j).upd
      BY <1>1, <2>1, <3>1 DEF Items, Snapshot
    <3> QED
      BY <1>2, <2>1, <3>1, <3>2
  <2>3. CASE I = batch
    <3>1. \A j \in I : j.session = i.session => j = i
      BY <2>3 DEF SessionInv, BatchFits
    <3>2. i.upd <= Snapshot(i).upd
      BY <2>1 DEF Items, Snapshot
    <3> QED
      BY <1>2, <2>1, <2>3, <3>1, <3>2
  <2> QED
    BY <2>2, <2>3
<1>6. AckedIsStored'
  <2> SUFFICES ASSUME NEW s \in Sessions \ evicted, row[s].state = "acked"
               PROVE  remote'[s] = remote[s]
    BY DEF SessionInv, AckedIsStored, Snapshot
  <2>0. remote[s] = Snapshot(row[s])
    BY DEF SessionInv, AckedIsStored
  <2>1. remote[s].upd = row[s].upd
    BY <2>0 DEF Snapshot
  <2>2. \A i \in I : i.session = s => i.upd <= row[s].upd
    BY DEF SessionInv, RowIsNewest, Of, Exists
  <2>3. row[s].upd \in Nat /\ \A i \in I : i.upd \in Nat
    BY <1>1 DEF TypeInv, TypeOK, RowSet, Items
  <2> QED
    BY <1>2, <2>1, <2>2, <2>3
<1> QED
  BY <1>3, <1>4, <1>5, <1>6 DEF SessionInv

\* Whatever is folded into a summary is newer than all that was ever sent of it.
LEMMA UpsertStep ==
  ASSUME TypeInv, SessionInv, NEW S \in SUBSET Sessions, UpsertSessionEvents(S)
  PROVE  SessionInv'
<1>1. /\ evicted \subseteq evicted'
      /\ total' = [s \in Sessions |-> IF s \in S THEN total[s] + 1 ELSE total[s]]
      /\ \A s \in Sessions : \/ row'[s] = Upserted(S, s)
                             \/ row'[s] = NoRow /\ s \in evicted'
  BY UpsertOK
<1>2. UNCHANGED <<clock, pruned, pc, batch, sent, remote>>
  BY DEF UpsertSessionEvents
<1>3. ASSUME NEW s \in Sessions \ evicted'
      PROVE  /\ s \in Sessions \ evicted
             /\ s \notin S => row'[s] = row[s] /\ total'[s] = total[s]
             /\ s \in S => /\ row'[s].state = "pending" /\ row'[s].rev = row[s].rev + 1
                           /\ row'[s].to = total[s] + 1 /\ total'[s] = total[s] + 1
                           /\ Exists(s) => row'[s].from = row[s].from /\ row'[s].upd > row[s].upd
                           /\ ~ Exists(s) => row'[s].from = total[s] /\ row'[s].upd = clock
  BY <1>1, MergedRow DEF Upserted
<1>4. \A s : Of(s)' = Of(s)
  BY <1>2 DEF Of
<1>t. /\ row \in [Sessions -> RowSet] /\ clock \in Nat /\ batch \subseteq sent /\ sent \subseteq Items
      /\ total \in [Sessions -> Nat]
      /\ \A s \in Sessions : Exists(s) => row[s].to = total[s]
  BY ConstantsAssumption DEF TypeInv, TypeOK, WireTypeOK, Exists
<1>5. UpdIsSet'
  <2>1. \A s \in Sessions : row'[s].state # "none" => row'[s].upd > 0
    <3> SUFFICES ASSUME NEW s \in Sessions, row'[s].state # "none" PROVE row'[s].upd > 0
      OBVIOUS
    <3>1. row'[s] = Upserted(S, s)
      BY <1>1 DEF NoRow
    <3> QED
      BY <3>1, MergedRow DEF Upserted, SessionInv, UpdIsSet, Exists
  <2> QED
    BY <1>2, <2>1 DEF SessionInv, UpdIsSet, Exists
<1>6. RemoteWasSent'
  BY <1>2, <1>4 DEF SessionInv, RemoteWasSent
<1>7. RowIsNewest'
  <2> SUFFICES ASSUME NEW s \in Sessions \ evicted', NEW i \in Of(s)
               PROVE  IF row'[s].state # "none"
                      THEN i.upd <= row'[s].upd /\ (i.upd = row'[s].upd => Matches(i, s)')
                      ELSE i.upd < clock
    BY <1>2, <1>4 DEF RowIsNewest, Exists
  <2>1. i.upd \in Nat /\ row[s].upd \in Nat
    BY <1>t DEF Of, Items, RowSet
  <2>2. IF Exists(s) THEN i.upd <= row[s].upd /\ (i.upd = row[s].upd => Matches(i, s))
                     ELSE i.upd < clock
    BY <1>3 DEF SessionInv, RowIsNewest
  <2>3. CASE s \in S /\ Exists(s)
    BY <2>1, <2>2, <2>3, <1>3, <1>1, MergedRow DEF Upserted, RowSet
  <2>4. CASE s \in S /\ ~ Exists(s)
    BY <2>1, <2>2, <2>4, <1>3, <1>t
  <2>5. CASE s \notin S
    BY <2>2, <2>5, <1>3 DEF Exists, Matches
  <2> QED
    BY <2>3, <2>4, <2>5
<1>8. BatchFits'
  <2> SUFFICES ASSUME NEW i \in batch, i.session \notin evicted'
               PROVE  /\ row'[i.session].state \in Outstanding
                      /\ i.rev <= row'[i.session].rev
                      /\ i.rev = row'[i.session].rev => Matches(i, i.session)'
    BY <1>2 DEF SessionInv, BatchFits
  <2> DEFINE s == i.session
  <2>1. s \in Sessions \ evicted' /\ i.rev \in Nat /\ row[s].rev \in Nat
    BY <1>t DEF Items, RowSet
  <2>2. /\ row[s].state \in Outstanding /\ i.rev <= row[s].rev
        /\ i.rev = row[s].rev => Matches(i, s)
    BY <2>1, <1>1 DEF SessionInv, BatchFits
  <2>3. CASE s \in S
    BY <2>1, <2>2, <2>3, <1>3 DEF Outstanding
  <2>4. CASE s \notin S
    BY <2>1, <2>2, <2>4, <1>3 DEF Matches
  <2> QED
    BY <2>3, <2>4
<1>9. AckingIsStored'
  BY <1>2 DEF SessionInv, AckingIsStored
<1>10. AckedIsStored'
  BY <1>2, <1>3 DEF SessionInv, AckedIsStored
<1>11. FromIsZero'
  <2> SUFFICES ASSUME NEW s \in Sessions \ (evicted' \cup pruned)
               PROVE  /\ IF row'[s].state # "none" THEN row'[s].from = 0
                         ELSE total'[s] = 0 /\ Of(s) = {}
                      /\ \A i \in Of(s) : i.from = 0 /\ i.to <= row'[s].to
                      /\ \A i, j \in Of(s) : i.upd <= j.upd => i.to <= j.to
    BY <1>2, <1>4 DEF FromIsZero, Exists
  <2>1. /\ IF Exists(s) THEN row[s].from = 0 ELSE total[s] = 0 /\ Of(s) = {}
        /\ \A i \in Of(s) : i.from = 0 /\ i.to <= row[s].to
        /\ \A i, j \in Of(s) : i.upd <= j.upd => i.to <= j.to
    BY <1>3 DEF SessionInv, FromIsZero
  <2>2. \A i \in Of(s) : i.to \in Nat
    BY <1>t DEF Of, Items
  <2>3. CASE s \in S
    BY <2>1, <2>2, <2>3, <1>3, <1>t
  <2>4. CASE s \notin S
    BY <2>1, <2>4, <1>3 DEF Exists
  <2> QED
    BY <2>3, <2>4
<1> QED
  BY <1>5, <1>6, <1>7, <1>8, <1>9, <1>10, <1>11 DEF SessionInv

\* A lease: what is sent is what the rows say, so it is the newest of each session.
LEMMA LeaseStep == TypeInv /\ SessionInv /\ Lease => SessionInv'
<1> SUFFICES ASSUME TypeInv, SessionInv, Lease PROVE SessionInv'
  OBVIOUS
<1>1. PICK B \in OldestLeasable : row' = SetState(B, "leased") /\ batch' = {Item(s) : s \in B}
  BY DEF Lease
<1>2. B \in SUBSET Sessions /\ \A s \in B : Exists(s)
  BY LeasedRows DEF Leasable, Exists
<1>3. UNCHANGED <<clock, total, evicted, pruned, remote>> /\ sent' = sent \cup batch' /\ pc' = "sending"
  BY DEF Lease, ghosts
<1>t. row \in [Sessions -> RowSet] /\ sent \subseteq Items /\ clock \in Nat
  BY ConstantsAssumption DEF TypeInv, TypeOK, WireTypeOK
<1>4. \A s \in Sessions : /\ row'[s].rev = row[s].rev /\ row'[s].upd = row[s].upd
                          /\ row'[s].from = row[s].from /\ row'[s].to = row[s].to
                          /\ row'[s].state = IF s \in B THEN "leased" ELSE row[s].state
  BY <1>1, <1>2, <1>t, SetStateRows DEF Outstanding
<1>5. \A s \in Sessions : Exists(s)' <=> Exists(s)
  BY <1>2, <1>4 DEF Exists
<1>6. \A s \in Sessions : Item(s).session = s /\ Item(s).rev = row[s].rev /\ Item(s).upd = row[s].upd
                          /\ Item(s).from = row[s].from /\ Item(s).to = row[s].to
  BY DEF Item
<1>7. \A s \in Sessions : \A i : Matches(i, s)' <=> Matches(i, s)
  BY <1>4 DEF Matches
<1>8. ASSUME NEW s \in Sessions, NEW i \in Of(s)'
      PROVE  i \in Of(s) \/ (i = Item(s) /\ s \in B)
  BY <1>1, <1>2, <1>3, <1>6 DEF Of
<1>9. \A s \in Sessions : Of(s) \subseteq Of(s)'
  BY <1>3 DEF Of
<1>10. UpdIsSet'
  BY <1>1, <1>2, <1>3, <1>4, <1>5, <1>6 DEF SessionInv, UpdIsSet
<1>11. RemoteWasSent'
  BY <1>3, <1>9 DEF SessionInv, RemoteWasSent
<1>12. RowIsNewest'
  <2> SUFFICES ASSUME NEW s \in Sessions \ evicted, NEW i \in Of(s)'
               PROVE  IF Exists(s) THEN i.upd <= row[s].upd /\ (i.upd = row[s].upd => Matches(i, s))
                                   ELSE i.upd < clock
    BY <1>3, <1>4, <1>5, <1>7 DEF RowIsNewest
  <2>1. CASE i \in Of(s)
    BY <2>1 DEF SessionInv, RowIsNewest
  <2>2. CASE i = Item(s) /\ s \in B
    BY <2>2, <1>2, <1>6, <1>t DEF Matches, RowSet
  <2> QED
    BY <2>1, <2>2, <1>8
<1>13. BatchFits'
  <2>1. ASSUME NEW i \in batch'
        PROVE  /\ i.session \in B /\ i = Item(i.session)
               /\ row'[i.session].state \in Outstanding
               /\ i.rev <= row'[i.session].rev
               /\ Matches(i, i.session)'
    <3>1. PICK s \in B : i = Item(s)
      BY <1>1
    <3>2. i.session = s /\ i.rev = row[s].rev /\ Matches(i, s)
      BY <1>2, <1>6, <3>1 DEF Matches
    <3>3. row'[s].rev = row[s].rev /\ row[s].rev \in Nat /\ row'[s].state = "leased" /\ Matches(i, s)'
      BY <1>2, <1>4, <1>7, <1>t, <3>2 DEF RowSet
    <3> QED
      BY <3>1, <3>2, <3>3 DEF Outstanding
  <2>2. \A i, j \in batch' : i.session = j.session => i = j
    BY <2>1
  <2> QED
    BY <2>1, <2>2 DEF BatchFits
<1>14. AckingIsStored'
  BY <1>3 DEF AckingIsStored
<1>15. AckedIsStored'
  BY <1>3, <1>4 DEF SessionInv, AckedIsStored, Snapshot
<1>16. FromIsZero'
  <2> SUFFICES ASSUME NEW s \in Sessions \ (evicted \cup pruned)
               PROVE  /\ IF Exists(s) THEN row[s].from = 0 ELSE total[s] = 0 /\ Of(s)' = {}
                      /\ \A i \in Of(s)' : i.from = 0 /\ i.to <= row[s].to
                      /\ \A i, j \in Of(s)' : i.upd <= j.upd => i.to <= j.to
    BY <1>3, <1>4, <1>5 DEF FromIsZero
  <2>1. /\ IF Exists(s) THEN row[s].from = 0 ELSE total[s] = 0 /\ Of(s) = {}
        /\ \A i \in Of(s) : i.from = 0 /\ i.to <= row[s].to
        /\ \A i, j \in Of(s) : i.upd <= j.upd => i.to <= j.to
    BY DEF SessionInv, FromIsZero
  <2>2. Exists(s) => \A i \in Of(s) : i.upd <= row[s].upd /\ (i.upd = row[s].upd => Matches(i, s))
    BY DEF SessionInv, RowIsNewest
  <2>3. row[s] \in RowSet /\ Item(s).upd = row[s].upd /\ Item(s).from = row[s].from /\ Item(s).to = row[s].to
    BY <1>6, <1>t
  <2>4. \A i \in Of(s) : i.upd \in Nat /\ i.to \in Nat
    BY <1>t DEF Of, Items
  <2>5. CASE s \in B
    <3>1. row[s].upd \in Nat /\ row[s].to \in Nat /\ Exists(s)
      BY <2>3, <2>5, <1>2 DEF RowSet
    <3>2. \A i \in Of(s)' : i.from = 0 /\ i.to <= row[s].to
      BY <1>8, <2>1, <2>3, <3>1
    <3>3. ASSUME NEW i \in Of(s)', NEW j \in Of(s)', i.upd <= j.upd PROVE i.to <= j.to
      <4>1. CASE i \in Of(s) /\ j \in Of(s)
        BY <4>1, <3>3, <2>1
      <4>2. CASE j = Item(s)
        BY <4>2, <3>2, <2>3
      <4>3. CASE i = Item(s) /\ j \in Of(s)
        BY <4>3, <3>1, <3>3, <2>2, <2>3, <2>4 DEF Matches
      <4> QED
        BY <4>1, <4>2, <4>3, <1>8
    <3> QED
      BY <2>1, <3>1, <3>2, <3>3
  <2>6. CASE s \notin B
    <3>1. Of(s)' = Of(s)
      BY <2>6, <1>8, <1>9
    <3> QED
      BY <3>1, <2>1
  <2> QED
    BY <2>5, <2>6
<1> QED
  BY <1>10, <1>11, <1>12, <1>13, <1>14, <1>15, <1>16 DEF SessionInv

\* Retention deletes rows whose updated_at is past, so a row made later is newer still.
LEMMA PruneStep == TypeInv /\ SessionInv /\ PruneAckedSessions => SessionInv'
<1> SUFFICES ASSUME TypeInv, SessionInv, PruneAckedSessions PROVE SessionInv'
  OBVIOUS
<1>1. PICK S \in SUBSET {s \in Sessions : row[s].state = "acked" /\ row[s].upd < clock} :
        /\ row' = [s \in Sessions |-> IF s \in S THEN NoRow ELSE row[s]]
        /\ pruned' = pruned \cup S
  BY DEF PruneAckedSessions
<1>2. UNCHANGED <<clock, total, evicted, pc, batch, sent, remote>>
  BY DEF PruneAckedSessions
<1>t. /\ row \in [Sessions -> RowSet] /\ clock \in Nat
      /\ batch \subseteq sent /\ sent \subseteq Items
  BY ConstantsAssumption DEF TypeInv, TypeOK, WireTypeOK
<1>3. \A s \in S : row'[s] = NoRow /\ row[s].state = "acked" /\ row[s].upd < clock
  BY <1>1
<1>4. \A s \in Sessions \ S : row'[s] = row[s]
  BY <1>1
<1>5. \A s : Of(s)' = Of(s)
  BY <1>2 DEF Of
<1>6. UpdIsSet'
  BY <1>2, <1>3, <1>4 DEF SessionInv, UpdIsSet, Exists, NoRow
<1>7. RemoteWasSent'
  BY <1>2, <1>5 DEF SessionInv, RemoteWasSent
<1>8. RowIsNewest'
  <2> SUFFICES ASSUME NEW s \in Sessions \ evicted, NEW i \in Of(s)
               PROVE  IF row'[s].state # "none"
                      THEN i.upd <= row'[s].upd /\ (i.upd = row'[s].upd => Matches(i, s)')
                      ELSE i.upd < clock
    BY <1>2, <1>5 DEF RowIsNewest, Exists
  <2>1. i.upd \in Nat /\ row[s].upd \in Nat
    BY <1>t DEF Of, Items, RowSet
  <2>2. IF Exists(s) THEN i.upd <= row[s].upd /\ (i.upd = row[s].upd => Matches(i, s))
                     ELSE i.upd < clock
    BY DEF SessionInv, RowIsNewest
  <2>3. CASE s \in S
    BY <1>3, <1>t, <2>1, <2>2, <2>3 DEF Exists, NoRow
  <2>4. CASE s \notin S
    BY <1>4, <2>2, <2>4 DEF Exists, Matches
  <2> QED
    BY <2>3, <2>4
<1>9. BatchFits'
  <2> SUFFICES ASSUME NEW i \in batch, i.session \notin evicted
               PROVE  row'[i.session] = row[i.session]
    BY <1>2 DEF SessionInv, BatchFits, Matches
  <2>1. i.session \in Sessions
    BY <1>t DEF Items
  <2>2. row[i.session].state \in Outstanding
    BY DEF SessionInv, BatchFits
  <2> QED
    BY <1>3, <1>4, <2>1, <2>2 DEF Outstanding
<1>10. AckingIsStored'
  BY <1>2 DEF SessionInv, AckingIsStored
<1>11. AckedIsStored'
  BY <1>2, <1>3, <1>4 DEF SessionInv, AckedIsStored, NoRow
<1>12. FromIsZero'
  <2>1. \A s \in Sessions \ (evicted' \cup pruned') :
          s \in Sessions \ (evicted \cup pruned) /\ row'[s] = row[s]
    BY <1>1, <1>2, <1>4
  <2> QED
    BY <1>2, <1>5, <2>1 DEF SessionInv, FromIsZero, Exists
<1> QED
  BY <1>6, <1>7, <1>8, <1>9, <1>10, <1>11, <1>12 DEF SessionInv

\* A row that AckSessions finds at the revision of an item is what that item says,
\* and the backend has nothing else of the session that is as new.
LEMMA CurrentIsStored ==
  ASSUME TypeInv, SessionInv, pc = "acking",
         NEW I \in SUBSET batch, NEW s \in Current(I) \ evicted
  PROVE  remote[s] = Snapshot(row[s])
<1>1. PICK i \in I : i.session = s /\ i.rev = row[s].rev
  BY DEF Current
<1>2. s \in Sessions \ evicted /\ Exists(s)
  BY DEF Current, Exists
<1>t. /\ row[s].upd \in Nat /\ remote[s].upd \in Nat
      /\ sent \subseteq Items
  BY <1>2 DEF TypeInv, TypeOK, WireTypeOK, RowSet
<1>3. Matches(i, s)
  BY <1>1, <1>2 DEF SessionInv, BatchFits
<1>4. row[s].upd > 0 /\ row[s].upd <= remote[s].upd
  BY <1>1, <1>2, <1>3 DEF SessionInv, UpdIsSet, AckingIsStored, Matches
<1>5. remote[s] # Snapshot(NoRow)
  BY <1>4, <1>t DEF Snapshot, NoRow
<1>6. PICK j \in Of(s) : remote[s] = Snapshot(j)
  BY <1>2, <1>5 DEF SessionInv, RemoteWasSent
<1>7. j.upd \in Nat /\ j.upd <= row[s].upd /\ (j.upd = row[s].upd => Matches(j, s))
  BY <1>2, <1>t DEF SessionInv, RowIsNewest, Of, Items
<1>8. remote[s].upd = j.upd
  BY <1>6 DEF Snapshot
<1>9. Matches(j, s)
  BY <1>4, <1>7, <1>8, <1>t
<1> QED
  BY <1>6, <1>9 DEF Matches, Snapshot

\* An Ack, of all items or of those before the row that could not be written.
LEMMA AckStep ==
  ASSUME TypeInv, SessionInv, pc = "acking", NEW I \in SUBSET batch,
         row' = SetState(Current(I), "acked"), BatchDone
  PROVE  SessionInv'
<1>1. Current(I) \in SUBSET Sessions /\ \A s \in Current(I) : Exists(s)
  BY DEF Current, Exists
<1>2. \A s \in Current(I) \ evicted : remote[s] = Snapshot(row[s])
  BY CurrentIsStored
<1> QED
  BY <1>1, <1>2, MarkStep DEF BatchDone, ghosts

\* A Nack, complete or not.
LEMMA NackStep ==
  ASSUME TypeInv, SessionInv, NEW I,
         row' = SetState(Current(I), "pending"), BatchDone
  PROVE  SessionInv'
<1>1. Current(I) \in SUBSET Sessions /\ \A s \in Current(I) : Exists(s)
  BY DEF Current, Exists
<1> QED
  BY <1>1, MarkStep DEF BatchDone, ghosts, Outstanding

\* Time, a failed send, a crash or a restart: the tables stay, and the batch too
\* unless it is lost.
LEMMA IdleStep ==
  ASSUME TypeInv, SessionInv,
         UNCHANGED <<row, total, evicted, pruned, sent, remote>>,
         clock' \in {clock, clock + 1},
         batch' \in {batch, {}}, pc' = "acking" => pc = "acking" /\ batch' = batch
  PROVE  SessionInv'
<1>1. UNCHANGED <<UpdIsSet, RemoteWasSent, FromIsZero, AckedIsStored>>
  BY DEF UpdIsSet, RemoteWasSent, FromIsZero, AckedIsStored, Exists, Of, Snapshot
<1>2. RowIsNewest'
  <2>1. clock \in Nat /\ sent \subseteq Items
    BY ConstantsAssumption DEF TypeInv, TypeOK, WireTypeOK
  <2>2. \A i \in sent : i.upd < clock => i.upd < clock'
    BY <2>1 DEF Items
  <2> QED
    BY <2>2 DEF SessionInv, RowIsNewest, Exists, Of, Matches
<1>3. BatchFits'
  BY DEF SessionInv, BatchFits, Matches
<1>4. AckingIsStored'
  BY DEF SessionInv, AckingIsStored
<1> QED
  BY <1>1, <1>2, <1>3, <1>4 DEF SessionInv

\* Every step preserves the invariant.
LEMMA SessionStep == TypeInv /\ SessionInv /\ [Next]_vars => SessionInv'
<1> SUFFICES ASSUME TypeInv, SessionInv, [Next]_vars PROVE SessionInv'
  OBVIOUS
<1>t. batch \subseteq sent /\ row \in [Sessions -> RowSet]
  BY DEF TypeInv, TypeOK
<1>1. CASE Tick
  BY <1>1, IdleStep DEF Tick, ghosts
<1>2. ASSUME NEW S \in (SUBSET Sessions) \ {{}}, UpsertSessionEvents(S) PROVE SessionInv'
  BY <1>2, UpsertStep
<1>3. CASE Lease
  BY <1>3, LeaseStep
<1>4. CASE LeaseFails
  <2>1. PICK P \in SUBSET Sessions : row' = SetState(P, "leased") /\ P \subseteq Leasable
    BY <1>4, LeasedRows DEF LeaseFails, Leasable
  <2>2. \A s \in P : Exists(s)
    BY <2>1 DEF Leasable, Exists
  <2> QED
    BY <1>4, <2>1, <2>2, MarkStep DEF LeaseFails, ghosts, Outstanding
<1>5. CASE SendOk
  BY <1>5, <1>t, RemoteStep DEF SendOk, ghosts
<1>6. CASE SendFails
  BY <1>6, IdleStep DEF SendFails, ghosts
<1>7. CASE Arrive
  <2>1. PICK i \in sent : remote' = Applied({i})
    BY <1>7 DEF Arrive
  <2>2. {i} \in SUBSET sent
    BY <2>1
  <2> QED
    BY <1>7, <2>1, <2>2, RemoteStep DEF Arrive, ghosts
<1>8. CASE AckSessions
  BY <1>8, AckStep DEF AckSessions
<1>9. CASE NackSessions
  BY <1>9, NackStep DEF NackSessions
<1>10. CASE FinishFails
  <2>1. PICK I \in SUBSET batch :
          row' = SetState(Current(I), IF pc = "acking" THEN "acked" ELSE "pending")
    BY <1>10 DEF FinishFails
  <2>2. CASE pc = "acking"
    BY <1>10, <2>1, <2>2, AckStep DEF FinishFails
  <2>3. CASE pc # "acking"
    BY <1>10, <2>1, <2>3, NackStep DEF FinishFails
  <2> QED
    BY <2>2, <2>3
<1>11. CASE LeaseExpires
  <2>1. PICK s \in Sessions : row[s].state = "leased" /\ row' = SetState({s}, "lapsed")
    BY <1>11 DEF LeaseExpires
  <2>2. {s} \in SUBSET Sessions /\ \A x \in {s} : Exists(x)
    BY <2>1 DEF Exists
  <2> QED
    BY <1>11, <2>1, <2>2, MarkStep DEF LeaseExpires, ghosts, Outstanding
<1>12. CASE PruneAckedSessions
  BY <1>12, PruneStep
<1>13. CASE Crash
  BY <1>13, IdleStep DEF Crash, ghosts
<1>14. CASE Restart
  BY <1>14, IdleStep DEF Restart, ghosts
<1>15. CASE UNCHANGED vars
  BY <1>15, IdleStep DEF vars, ghosts
<1> QED
  BY <1>1, <1>2, <1>3, <1>4, <1>5, <1>6, <1>7, <1>8, <1>9, <1>10, <1>11, <1>12,
     <1>13, <1>14, <1>15 DEF Next

\* The invariant holds in every state.
LEMMA SessionSafe == Spec => [](TypeInv /\ SessionInv)
<1>1. Init => TypeInv /\ SessionInv
  BY TypeInit, SessionInit
<1>2. TypeInv /\ SessionInv /\ [Next]_vars => (TypeInv /\ SessionInv)'
  BY TypeStep, SessionStep
<1> QED
  BY <1>1, <1>2, PTL DEF Spec

\* What the backend has of a session only grows, whatever arrives and however late.
LEMMA SnapshotGrows ==
  ASSUME TypeInv, SessionInv, [Next]_vars, NEW s \in Sessions \ (evicted \cup pruned)
  PROVE  remote[s].to <= remote'[s].to /\ remote'[s].from = remote[s].from
<1>1. CASE remote' = remote
  <2>1. remote[s].to \in Nat
    BY DEF TypeInv, WireTypeOK
  <2> QED
    BY <1>1, <2>1
<1>2. ASSUME NEW I \in SUBSET sent, remote' = Applied(I)
      PROVE  remote[s].to <= remote'[s].to /\ remote'[s].from = remote[s].from
  <2>1. I \in SUBSET Items /\ remote \in [Sessions -> [upd : Nat, from : Nat, to : Nat]]
    BY DEF TypeInv, WireTypeOK
  <2>2. CASE remote'[s] = remote[s]
    BY <2>1, <2>2
  <2>3. ASSUME NEW i \in I, i.session = s, i.upd > remote[s].upd, remote'[s] = Snapshot(i)
        PROVE  remote[s].to <= remote'[s].to /\ remote'[s].from = remote[s].from
    <3>1. i \in Of(s) /\ i.upd \in Nat /\ i.to \in Nat
      BY <2>1, <2>3 DEF Of, Items
    <3>2. i.from = 0 /\ remote'[s].from = 0 /\ remote'[s].to = i.to
      BY <2>3, <3>1 DEF SessionInv, FromIsZero, Snapshot
    <3>3. CASE remote[s] = Snapshot(NoRow)
      BY <3>1, <3>2, <3>3 DEF Snapshot, NoRow
    <3>4. ASSUME NEW j \in Of(s), remote[s] = Snapshot(j)
          PROVE  remote[s].to <= i.to /\ remote[s].from = 0
      <4>1. j.upd \in Nat /\ remote[s].upd = j.upd /\ remote[s].to = j.to /\ remote[s].from = j.from
        BY <3>4 DEF Snapshot, Of, TypeInv, WireTypeOK, Items
      <4>2. j.upd <= i.upd
        BY <2>3, <3>1, <4>1
      <4> QED
        BY <3>1, <3>4, <4>1, <4>2 DEF SessionInv, FromIsZero
    <3> QED
      BY <3>2, <3>3, <3>4 DEF SessionInv, RemoteWasSent
  <2> QED
    BY <1>2, <2>1, <2>2, <2>3, AppliedSnapshots
<1>3. remote' = remote \/ \E I \in SUBSET sent : remote' = Applied(I)
  <2>1. Arrive => \E I \in SUBSET sent : remote' = Applied(I)
    <3>1. \A i \in sent : {i} \in SUBSET sent
      OBVIOUS
    <3> QED
      BY <3>1 DEF Arrive
  <2>2. SendOk => \E I \in SUBSET sent : remote' = Applied(I)
    BY DEF SendOk, TypeInv, TypeOK
  <2> QED
    BY <2>1, <2>2 DEF Next, vars, Tick, UpsertSessionEvents, Lease, LeaseFails, SendFails,
       AckSessions, NackSessions, FinishFails, BatchDone, LeaseExpires, PruneAckedSessions,
       Crash, Restart
<1> QED
  BY <1>1, <1>2, <1>3
-----------------------------------------------------------------------------
\* Every variable has its type, and a row's revision counts the upserts merged
\* into it, the last committed one among them (sessions.go:91-118).
THEOREM TypeCorrect == Spec => []TypeOK
<1>1. TypeInv => TypeOK
  BY DEF TypeInv
<1> QED
  BY <1>1, TypeSafe, PTL

\* However many sessions, updates, faults and copies of requests there are, a row
\* AckSessions marked acked is what the backend has of its session, unless the
\* session was ever evicted (sessions.go:342-366, uploader.go:254-256).
THEOREM AckedRowsAreStored == Spec => []AckedIsStored
<1>1. SessionInv => AckedIsStored
  BY DEF SessionInv
<1> QED
  BY <1>1, SessionSafe, PTL

\* No merge, retry or late copy takes back what the backend counted of a session
\* whose row was never deleted: updated_at orders its snapshots the way their
\* contents grow (sessions.go:272-279).
THEOREM SnapshotsOnlyGrow == Spec => SnapshotsGrow
<1>1. TypeInv /\ SessionInv /\ [Next]_vars =>
        [\A s \in Sessions \ (evicted \cup pruned) :
           /\ remote[s].to <= remote'[s].to
           /\ remote'[s].from = remote[s].from]_vars
  BY SnapshotGrows
<1> QED
  BY <1>1, SessionSafe, PTL DEF Spec, SnapshotsGrow
=============================================================================

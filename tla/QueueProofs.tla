---------------------------- MODULE QueueProofs ----------------------------
(***************************************************************************)
(* Theorems about EventQueue, and at the end about QueueFile.  In those    *)
(* about EventQueue, RowCapOnly says that the shared file stays under its  *)
(* byte cap and that an eviction round is not larger than the table is     *)
(* allowed to be (512 against 50,000 in the code); those about QueueFile   *)
(* assume nothing of the kind.                                             *)
(***************************************************************************)
EXTENDS QueueFile, FiniteSetTheorems, TLAPS

USE DEF Outstanding, Stored, Fates

\* Only the row cap evicts, and one round does not empty a table that is over it.
RowCapOnly == ~MayOutgrow /\ EvictChunk <= MaxRows

-----------------------------------------------------------------------------
\* The tables Enqueue works on have as many rows as a natural number tells.
LEMMA RowsFinite ==
  ASSUME NEW f
  PROVE  /\ IsFiniteSet(Rows(f))
         /\ Cardinality(Rows(f)) \in Nat
         /\ \A D \in SUBSET Rows(f) :
              /\ IsFiniteSet(Rows(f) \ D)
              /\ Cardinality(Rows(f) \ D) = 0 <=> D = Rows(f)
<1>1. Rows(f) \subseteq Events
  BY DEF Rows
<1>2. IsFiniteSet(Rows(f))
  BY <1>1, FS_Subset, ConstantsAssumption DEF ConstantsAssumption
<1>3. ASSUME NEW D \in SUBSET Rows(f)
      PROVE  /\ IsFiniteSet(Rows(f) \ D)
             /\ Cardinality(Rows(f) \ D) = 0 <=> D = Rows(f)
  <2>1. IsFiniteSet(Rows(f) \ D)
    BY <1>2, FS_Subset
  <2>2. Cardinality(Rows(f) \ D) = 0 <=> Rows(f) \ D = {}
    BY <2>1, FS_EmptySet
  <2> QED
    BY <2>1, <2>2
<1> QED
  BY <1>2, <1>3, FS_CardinalityType


\* What one successful Enqueue(S) does to the table, as the invariants use
\* it: `top' is the largest rowid before, `id' the row ids once S is in, D
\* the evicted rows.
Inserts(S, top, id, D) ==
  /\ top \in LargestRowid
  /\ id \in [Events -> Nat]
  /\ \A e \in Events : IF e \in S THEN id[e] > top ELSE id[e] = rowid[e]
  /\ \A a, b \in S : id[a] = id[b] => a = b
  /\ D \subseteq Rows(Inserted(S))
  /\ \A a \in D, b \in Rows(Inserted(S)) \ D :
       VictimBefore(Inserted(S), id, a, b)
  /\ fate' = Delete(Inserted(S), D)
  /\ rowid' = [e \in Events |-> IF e \in D THEN 0 ELSE id[e]]

\* Under RowCapOnly an eviction leaves at least one row, and if it deletes any
\* it leaves all but evictChunk of one row more than the cap.
LEMMA SomeRowStays ==
  ASSUME RowCapOnly, NEW n \in Nat, n > 0,
         NEW left, NEW still \in BOOLEAN,
         EvictionEnds(n, FALSE, left, still) \/ EvictionFails(n, FALSE, left, still)
  PROVE  left > 0 /\ ~still /\ (left = n \/ left >= MaxRows + 1 - EvictChunk)
<1> USE ConstantsAssumption DEF ConstantsAssumption
<1>1. n > MaxRows => /\ AfterRound(n) \in Nat \ {0}
                     /\ AfterRound(n) >= MaxRows + 1 - EvictChunk
  BY DEF AfterRound, EvictTarget, RowCapOnly
<1> QED
  BY <1>1 DEF EvictionEnds, EvictionFails

\* What an Enqueue has done, with the choices it made named, however its eviction
\* ended: fresh events inserted above every old row id, then some victims deleted.
LEMMA EnqueueInserts ==
  ASSUME TypeOK, NEW S \in Batches, Enqueue(S)
  PROVE  \E top, id, D :
           /\ Inserts(S, top, id, D)
           /\ big' \in BOOLEAN
           /\ RowCapOnly /\ ~big =>
                /\ ~big' /\ Rows(Inserted(S)) # D
                /\ \/ D = {}
                   \/ Cardinality(Rows(Inserted(S)) \ D) >= MaxRows + 1 - EvictChunk
<1> DEFINE f == Inserted(S)
           n == Cardinality(Rows(f))
<1>1. PICK at \in NewIds(S), over \in FileSizes,
           left \in 0 .. n, still \in BOOLEAN :
        /\ EvictionEnds(n, over, left, still) \/ EvictionFails(n, over, left, still)
        /\ big' = still
        /\ \E D \in Victims(f, InsertedAt(S, at), left) :
             /\ fate' = Delete(f, D)
             /\ rowid' = [e \in Events |-> IF e \in D THEN 0
                                           ELSE InsertedAt(S, at)[e]]
  BY DEF Enqueue
<1> DEFINE id == InsertedAt(S, at)
<1>2. PICK D \in Victims(f, id, left) :
        /\ fate' = Delete(f, D)
        /\ rowid' = [e \in Events |-> IF e \in D THEN 0 ELSE id[e]]
  BY <1>1
<1>3. PICK top \in LargestRowid :
        /\ at \in [S -> top + 1 .. top + Cardinality(S)]
        /\ \A a, b \in S : at[a] = at[b] => a = b
  BY DEF NewIds
<1>4. S \subseteq Events /\ S # {}
  BY DEF Batches
<1>5. top \in Nat
  BY DEF LargestRowid, Rows, TypeOK
<1>6. IsFiniteSet(S) /\ Cardinality(S) \in Nat
  BY <1>4, FS_Subset, FS_CardinalityType, ConstantsAssumption DEF ConstantsAssumption
<1>7. \A e \in S : at[e] \in Nat /\ at[e] > top
  BY <1>3, <1>5, <1>6
<1>8. /\ id \in [Events -> Nat]
      /\ \A e \in Events : IF e \in S THEN id[e] > top ELSE id[e] = rowid[e]
      /\ \A a, b \in S : id[a] = id[b] => a = b
  BY <1>3, <1>4, <1>7 DEF InsertedAt, TypeOK
<1>9. Inserts(S, top, id, D)
  BY <1>2, <1>8 DEF Inserts, Victims
<1>10. ASSUME RowCapOnly, ~big
       PROVE  /\ ~big' /\ Rows(f) # D
              /\ D = {} \/ Cardinality(Rows(f) \ D) >= MaxRows + 1 - EvictChunk
  <2>1. over = FALSE
    BY <1>10 DEF FileSizes, RowCapOnly
  <2>2. n \in Nat /\ (n = 0 <=> Rows(f) = {})
    BY RowsFinite, FS_EmptySet
  <2>3. n > 0
    BY <1>4, <2>2 DEF Rows, Inserted
  <2>4. left > 0 /\ ~still /\ (left = n \/ left >= MaxRows + 1 - EvictChunk)
    BY <1>1, <1>10, <2>1, <2>2, <2>3, SomeRowStays
  <2>5. Cardinality(Rows(f) \ D) = left /\ D \in SUBSET Rows(f)
    BY DEF Victims
  <2>6. Cardinality(Rows(f) \ D) = 0 <=> D = Rows(f)
    BY <2>5, RowsFinite
  <2>7. Rows(f) # D
    BY <2>4, <2>5, <2>6
  <2>8. ~big'
    BY <1>1, <2>4
  <2>9. D = {} \/ Cardinality(Rows(f) \ D) >= MaxRows + 1 - EvictChunk
    <3>1. CASE left = n
      <4>1. Rows(f) \ D = Rows(f)
        BY <2>5, <3>1, RowsFinite, FS_Subset
      <4> QED
        BY <2>5, <4>1
    <3> QED
      BY <2>4, <2>5, <3>1
  <2> QED
    BY <2>7, <2>8, <2>9
<1> QED
  BY <1>1, <1>9, <1>10

-----------------------------------------------------------------------------
\* The daemon starts on an empty table with an idle uploader (queue.go Open).
LEMMA TypeCorrectInit == Init => TypeOK
<1> SUFFICES ASSUME Init PROVE TypeOK
  OBVIOUS
<1> USE ConstantsAssumption DEF ConstantsAssumption
<1>1. big \in BOOLEAN /\ up \in BOOLEAN /\ (~up => pc = "idle")
  BY DEF Init
<1> QED
  BY <1>1 DEF Init, TypeOK

\* And it stays well typed, whatever interleaves (queue.go's q.mu).
LEMMA TypeCorrectStep == TypeOK /\ [Next]_vars => TypeOK'
<1> SUFFICES ASSUME TypeOK, [Next]_vars PROVE TypeOK'
  OBVIOUS
<1> USE ConstantsAssumption DEF ConstantsAssumption
<1>1. ASSUME NEW S \in Batches, Enqueue(S) PROVE TypeOK'
  <2>1. PICK top, id, D : Inserts(S, top, id, D) /\ big' \in BOOLEAN
    BY <1>1, EnqueueInserts
  <2>2. top \in Nat /\ S \subseteq Events
    BY <2>1 DEF Inserts, LargestRowid, Rows, TypeOK, Batches
  <2>3. fate' \in [Events -> Fates]
    BY <2>1, <2>2 DEF Inserts, Inserted, Delete, TypeOK
  <2>4. rowid' \in [Events -> Nat]
    BY <2>1 DEF Inserts
  <2>5. \A e \in Events : rowid'[e] > 0 <=> fate'[e] \in Stored
    BY <2>1, <2>2 DEF Inserts, Inserted, Delete, Rows, TypeOK
  <2>6. faults' \in 0 .. MaxFaults /\ UNCHANGED <<up, pc, batch, ids, accepted>>
    BY <1>1 DEF Enqueue, TypeOK, uploaderVars
  <2> QED
    BY <2>1, <2>3, <2>4, <2>5, <2>6 DEF TypeOK
<1>2. ASSUME NEW S \in Batches, EnqueueRefused(S) PROVE TypeOK'
  <2>1. \A e \in S : fate[e] = "new"
    BY DEF Batches
  <2> QED
    BY <1>2, <2>1 DEF EnqueueRefused, TypeOK, uploaderVars
<1>3. CASE Lease
  <2>1. PICK B \in OldestLeasable :
          /\ batch' = B
          /\ ids' = {rowid[e] : e \in B}
          /\ fate' = [e \in Events |-> IF e \in B THEN "leased" ELSE fate[e]]
    BY <1>3 DEF Lease
  <2>2. B \subseteq Leasable /\ B # {}
    BY <1>3, FS_EmptySet DEF OldestLeasable, Lease
  <2> QED
    BY <1>3, <2>1, <2>2 DEF Lease, Leasable, TypeOK
<1>4. CASE SendOk
  BY <1>4 DEF SendOk, TypeOK
<1>5. CASE SendFails
  BY <1>5 DEF SendFails, TypeOK
<1>6. CASE Ack
  BY <1>6 DEF Ack, UpdateByIDs, BatchDone, Rows, TypeOK
<1>7. CASE Nack
  BY <1>7 DEF Nack, UpdateByIDs, BatchDone, Rows, TypeOK
<1>8. CASE AckOrNackFails
  BY <1>8 DEF AckOrNackFails, BatchDone, TypeOK
<1>9. CASE LeaseExpires
  BY <1>9 DEF LeaseExpires, uploaderVars, TypeOK
<1>10. CASE PruneAcked
  BY <1>10 DEF PruneAcked, Delete, uploaderVars, TypeOK
<1>11. CASE Crash
  <2>1. faults' \in 0 .. MaxFaults
    BY <1>11 DEF Crash, TypeOK
  <2>2. up' \in BOOLEAN /\ ~up'
    BY <1>11 DEF Crash
  <2> QED
    BY <1>11, <2>1, <2>2 DEF Crash, TypeOK
<1>12. CASE Restart
  BY <1>12 DEF Restart, uploaderVars, TypeOK
<1>13. CASE UNCHANGED vars
  BY <1>13 DEF TypeOK, vars, uploaderVars
<1> QED
  BY <1>1, <1>2, <1>3, <1>4, <1>5, <1>6, <1>7, <1>8, <1>9, <1>10, <1>11,
     <1>12, <1>13 DEF Next, EnqueueCall

\* Every reachable state is well typed, and a row has a rowid exactly while it
\* is in the table.
THEOREM TypeCorrect == Spec => []TypeOK
  BY TypeCorrectInit, TypeCorrectStep, PTL DEF Spec

-----------------------------------------------------------------------------
\* The strengthening of the safety invariants: no row id in flight is reused
\* because, while the file is under its byte cap, an undelivered row at or
\* above it survives every eviction.
SafetyInv == TypeOK /\ ~big /\ RowidInv

\* No event is marked acked that the backend has not taken, and the uploader
\* never holds a row id that has come to name another event, as long as only
\* the row cap evicts.
LEMMA SafetyInvariant == ASSUME RowCapOnly PROVE Spec => []SafetyInv
<1>1. Init => SafetyInv
  <2> SUFFICES ASSUME Init PROVE ~big /\ RowidInv
    BY TypeCorrectInit DEF SafetyInv
  <2> QED
    BY DEF Init, RowidInv, Rows, InFlightIdsNotReused, BatchStaysLeased, AckedWasAccepted
<1>2. SafetyInv /\ TypeOK' /\ [Next]_vars => SafetyInv'
  <2> SUFFICES ASSUME TypeOK, TypeOK', ~big, RowidInv, [Next]_vars
               PROVE  ~big' /\ RowidInv'
    BY DEF SafetyInv
  <2> USE DEF RowidInv, Rows, InFlightIdsNotReused, BatchStaysLeased, AckedWasAccepted, TypeOK
  <2>1. ASSUME NEW S \in Batches, Enqueue(S) PROVE ~big' /\ RowidInv'
    <3>1. PICK top, id, D : /\ Inserts(S, top, id, D)
                            /\ ~big' /\ Rows(Inserted(S)) # D
      BY <2>1, EnqueueInserts, RowCapOnly
    <3> DEFINE f == Inserted(S)
    <3>2. UNCHANGED <<pc, batch, ids, accepted>>
      BY <2>1 DEF Enqueue, uploaderVars
    <3>3. /\ S \subseteq Events /\ \A e \in S : fate[e] = "new" /\ f[e] = "pending"
          /\ \A e \in Events \ S : f[e] = fate[e]
      BY DEF Batches, Inserted
    <3>4. /\ top \in Nat
          /\ \A e \in Rows(fate) : rowid[e] <= top
          /\ \A i \in ids : i <= top
      BY <3>1 DEF Inserts, LargestRowid
    <3>5. \A e \in Events : fate'[e] \in Stored => e \notin D /\ fate'[e] = f[e] /\ rowid'[e] = id[e]
      BY <3>1 DEF Inserts, Delete
    <3>6. \A e \in S : id[e] \notin ids /\ id[e] > top
      BY <3>1, <3>3, <3>4 DEF Inserts
    <3>7. \A e \in Events \ S : id[e] = rowid[e]
      BY <3>1 DEF Inserts
    <3>8. \A a, b \in Rows(fate') : rowid'[a] = rowid'[b] => a = b
      BY <3>1, <3>3, <3>4, <3>5, <3>6, <3>7 DEF Inserts
    <3>9. ASSUME NEW i \in ids
          PROVE  \E e \in Rows(fate') : fate'[e] # "acked" /\ i <= rowid'[e]
      <4>1. PICK e \in Rows(fate) : fate[e] # "acked" /\ i <= rowid[e]
        OBVIOUS
      <4>2. e \in Rows(f) /\ f[e] # "acked" /\ i <= id[e]
        BY <3>3, <3>7, <4>1
      <4>3. CASE e \notin D
        BY <3>1, <4>2, <4>3 DEF Inserts, Delete
      <4>4. CASE e \in D
        <5>1. PICK b \in Rows(f) : b \notin D
          BY <3>1 DEF Inserts
        <5>2. f[b] # "acked" /\ id[e] < id[b]
          BY <3>1, <4>2, <4>4, <5>1 DEF Inserts, VictimBefore
        <5>3. i <= id[b]
          BY <3>1, <4>2, <5>1, <5>2 DEF Inserts
        <5> QED
          BY <3>1, <5>1, <5>2, <5>3 DEF Inserts, Delete
      <4> QED
        BY <4>3, <4>4
    <3>10. InFlightIdsNotReused'
      BY <3>2, <3>3, <3>5, <3>6, <3>7
    <3>11. BatchStaysLeased'
      BY <3>1, <3>2, <3>3 DEF Inserts, Delete
    <3>12. AckedWasAccepted'
      BY <3>1, <3>2, <3>3 DEF Inserts, Delete
    <3> QED
      BY <3>1, <3>2, <3>8, <3>9, <3>10, <3>11, <3>12
  <2>2. ASSUME NEW S \in Batches, EnqueueRefused(S) PROVE ~big' /\ RowidInv'
    BY <2>2 DEF EnqueueRefused, uploaderVars, Batches
  <2>3. CASE Lease
    BY <2>3 DEF Lease, OldestLeasable, Leasable
  <2>4. CASE SendOk
    BY <2>4 DEF SendOk
  <2>5. CASE SendFails
    BY <2>5 DEF SendFails
  <2>6. CASE Ack
    BY <2>6 DEF Ack, UpdateByIDs, BatchDone
  <2>7. CASE Nack
    BY <2>7 DEF Nack, UpdateByIDs, BatchDone
  <2>8. CASE AckOrNackFails
    BY <2>8 DEF AckOrNackFails, BatchDone
  <2>9. CASE LeaseExpires
    BY <2>9 DEF LeaseExpires, uploaderVars
  <2>10. CASE PruneAcked
    BY <2>10 DEF PruneAcked, Delete, uploaderVars
  <2>11. CASE Crash
    BY <2>11 DEF Crash
  <2>12. CASE Restart
    BY <2>12 DEF Restart, uploaderVars
  <2>13. CASE UNCHANGED vars
    BY <2>13 DEF vars, uploaderVars
  <2> QED
    BY <2>1, <2>2, <2>3, <2>4, <2>5, <2>6, <2>7, <2>8, <2>9, <2>10, <2>11,
       <2>12, <2>13 DEF Next, EnqueueCall
<1> QED
  BY <1>1, <1>2, TypeCorrect, PTL DEF Spec

\* Only what the backend took is ever marked acked, counted by the local stats
\* and pruned, as long as no eviction is forced by the byte cap.
THEOREM AckedOnlyIfAccepted == ASSUME RowCapOnly PROVE Spec => []AckedWasAccepted
<1>1. SafetyInv => AckedWasAccepted
  BY DEF SafetyInv, RowidInv
<1> QED
  BY <1>1, SafetyInvariant, PTL

\* An acknowledgement in flight never lands on a row of another event, as long
\* as no eviction is forced by the byte cap.
THEOREM RowidsNotReused == ASSUME RowCapOnly PROVE Spec => []InFlightIdsNotReused
<1>1. SafetyInv => InFlightIdsNotReused
  BY DEF SafetyInv, RowidInv
<1> QED
  BY <1>1, SafetyInvariant, PTL

-----------------------------------------------------------------------------
\* What holds of leases whatever forces the evictions: the uploader's ids cover
\* the rows of its batch, those rows stay leased, and no row they name is acked.
LeaseInv ==
  /\ TypeOK
  /\ \A a, b \in Rows(fate) : rowid[a] = rowid[b] => a = b
  /\ \A e \in batch : e \in Rows(fate) => rowid[e] \in ids
  /\ \A e \in Rows(fate) : rowid[e] \in ids => fate[e] # "acked"
  /\ BatchStaysLeased
  /\ NoStuckLeases

\* No one acks, releases or leases the rows of the uploader's batch but the
\* uploader itself.
LEMMA LeaseStep == LeaseInv /\ [Next]_vars => LeaseInv'
<1> SUFFICES ASSUME LeaseInv, TypeOK', [Next]_vars PROVE LeaseInv'
  BY TypeCorrectStep DEF LeaseInv
<1> USE DEF LeaseInv, Rows, BatchStaysLeased, NoStuckLeases, TypeOK
<1>1. ASSUME NEW S \in Batches, Enqueue(S) PROVE LeaseInv'
  <2>1. PICK top, id, D : Inserts(S, top, id, D)
    BY <1>1, EnqueueInserts
  <2>2. UNCHANGED <<pc, batch, ids, accepted>> /\ (faults' = 0 => faults = 0)
    BY <1>1 DEF Enqueue, uploaderVars
  <2>3. /\ S \subseteq Events /\ \A e \in S : fate[e] = "new"
        /\ \A e \in Events : Inserted(S)[e] = IF e \in S THEN "pending" ELSE fate[e]
    BY DEF Batches, Inserted
  <2>4. top \in Nat /\ \A e \in Rows(fate) : rowid[e] <= top
    BY <2>1 DEF Inserts, LargestRowid
  <2>5. \A e \in Rows(fate') : /\ rowid'[e] = id[e]
                               /\ fate'[e] = IF e \in S THEN "pending" ELSE fate[e]
    BY <2>1, <2>3 DEF Inserts, Delete
  <2>6. \A a, b \in Rows(fate') : rowid'[a] = rowid'[b] => a = b
    BY <2>1, <2>3, <2>4, <2>5 DEF Inserts
  <2>7. \A e \in batch : e \in Rows(fate') => rowid'[e] \in ids
    BY <2>1, <2>3, <2>5 DEF Inserts
  <2>8. \A e \in Rows(fate') : rowid'[e] \in ids => fate'[e] # "acked"
    BY <2>1, <2>3, <2>5 DEF Inserts
  <2>9. BatchStaysLeased'
    BY <2>1, <2>2, <2>3 DEF Inserts, Delete
  <2>10. NoStuckLeases'
    BY <2>2, <2>5
  <2> QED
    BY <2>2, <2>6, <2>7, <2>8, <2>9, <2>10
<1>2. ASSUME NEW S \in Batches, EnqueueRefused(S) PROVE LeaseInv'
  BY <1>2 DEF EnqueueRefused, uploaderVars, Batches
<1>3. CASE Lease
  BY <1>3 DEF Lease, OldestLeasable, Leasable
<1>4. CASE SendOk
  BY <1>4 DEF SendOk
<1>5. CASE SendFails
  BY <1>5 DEF SendFails
<1>6. CASE Ack
  BY <1>6 DEF Ack, UpdateByIDs, BatchDone
<1>7. CASE Nack
  BY <1>7 DEF Nack, UpdateByIDs, BatchDone
<1>8. CASE AckOrNackFails
  BY <1>8 DEF AckOrNackFails, BatchDone
<1>9. CASE LeaseExpires
  BY <1>9 DEF LeaseExpires, uploaderVars
<1>10. CASE PruneAcked
  BY <1>10 DEF PruneAcked, Delete, uploaderVars
<1>11. CASE Crash
  BY <1>11 DEF Crash
<1>12. CASE Restart
  BY <1>12 DEF Restart, uploaderVars
<1>13. CASE UNCHANGED vars
  BY <1>13 DEF vars, uploaderVars
<1> QED
  BY <1>1, <1>2, <1>3, <1>4, <1>5, <1>6, <1>7, <1>8, <1>9, <1>10, <1>11,
     <1>12, <1>13 DEF Next, EnqueueCall

\* The uploader's batch and its ids stay in step with the table, under every cap.
LEMMA LeaseInvariant == Spec => []LeaseInv
<1>1. Init => LeaseInv
  BY TypeCorrectInit DEF LeaseInv, Init, Rows, BatchStaysLeased, NoStuckLeases
<1> QED
  BY <1>1, LeaseStep, PTL DEF Spec

\* Without crashes and failed writes no row stays leased behind the uploader's
\* back, under every cap.
THEOREM LeasesAreReleased == Spec => []NoStuckLeases
<1>1. LeaseInv => NoStuckLeases
  BY DEF LeaseInv
<1> QED
  BY <1>1, LeaseInvariant, PTL

\* Nobody but the uploader changes the rows of its batch, except an eviction.
THEOREM BatchIsUndisturbed == Spec => []BatchStaysLeased
<1>1. LeaseInv => BatchStaysLeased
  BY DEF LeaseInv
<1> QED
  BY <1>1, LeaseInvariant, PTL

\* An acked row is never leased again, under every cap: Nack, which looks at
\* ids only, cannot meet one.
THEOREM AckedStaysAcked == Spec => AckedIsFinal
<1> DEFINE StaysAcked == \A e \in Events : fate[e] \in {"acked", "forgotten"} =>
                                      fate'[e] \in {"acked", "forgotten"}
<1>1. LeaseInv /\ [Next]_vars => [StaysAcked]_vars
  <2> SUFFICES ASSUME LeaseInv, Next PROVE StaysAcked
    OBVIOUS
  <2> USE DEF LeaseInv, TypeOK, Rows
  <2>1. ASSUME NEW S \in Batches, Enqueue(S)
        PROVE  StaysAcked
    <3>1. PICK top, id, D : Inserts(S, top, id, D)
      BY <2>1, EnqueueInserts
    <3> QED
      BY <3>1 DEF Inserts, Inserted, Delete, Batches
  <2>2. ASSUME NEW S \in Batches, EnqueueRefused(S)
        PROVE  StaysAcked
    BY <2>2 DEF EnqueueRefused, Batches
  <2>3. CASE Lease
    BY <2>3 DEF Lease, OldestLeasable, Leasable
  <2>4. CASE SendOk \/ SendFails \/ AckOrNackFails \/ LeaseExpires \/ Crash \/ Restart
    BY <2>4 DEF SendOk, SendFails, AckOrNackFails, LeaseExpires, Crash, Restart
  <2>5. CASE Ack \/ Nack
    BY <2>5 DEF Ack, Nack, UpdateByIDs
  <2>6. CASE PruneAcked
    BY <2>6 DEF PruneAcked, Delete
  <2> QED
    BY <2>1, <2>2, <2>3, <2>4, <2>5, <2>6 DEF Next, EnqueueCall
<1> QED
  BY <1>1, LeaseInvariant, PTL DEF Spec, AckedIsFinal

-----------------------------------------------------------------------------
\* A step that changes what is waiting only by S coming in and V being given
\* up, or only by T being delivered, is a step of Delivery.
LEMMA TakeMaps ==
  ASSUME NEW S \in SUBSET Events, NEW V \in SUBSET Events,
         S \cap (Outbox \cup accepted \cup GivenUp) = {},
         V \subseteq Outbox \cup S,
         Outbox' = (Outbox \cup S) \ V, GivenUp' = GivenUp \cup V,
         accepted' = accepted
  PROVE  Promise!DeliveryNext
BY DEF Promise!DeliveryNext, Promise!Take, Promise!Fresh

\* The same without newcomers: a step that only gives V up, as when a send fails
\* for rows that were evicted under it.
LEMMA GiveUpMaps ==
  ASSUME NEW V \in SUBSET Outbox,
         Outbox' = Outbox \ V, GivenUp' = GivenUp \cup V, accepted' = accepted
  PROVE  Promise!DeliveryNext
<1>1. V \in SUBSET Events
  BY DEF Outbox
<1>2. Promise!Take({}, V)
  BY DEF Promise!Take
<1> QED
  BY <1>1, <1>2 DEF Promise!DeliveryNext

\* And a send that succeeds delivers what of its batch was still waiting.
LEMMA DeliverMaps ==
  ASSUME NEW T \in SUBSET Outbox,
         Outbox' = Outbox \ T, accepted' = accepted \cup T, GivenUp' = GivenUp
  PROVE  Promise!DeliveryNext
<1>1. T \in SUBSET Events
  BY DEF Outbox
<1> QED
  BY <1>1 DEF Promise!DeliveryNext, Promise!Deliver

\* The queue, the uploader and the backend implement Delivery as long as no
\* eviction is forced by the byte cap: what Enqueue took in is delivered, still
\* waiting, or was evicted undelivered, and nothing else ever becomes of it.
THEOREM ImplementsDelivery == ASSUME RowCapOnly PROVE Spec => DeliversOrEvicts
<1>1. Init => Promise!DeliveryInit
  BY DEF Init, Promise!DeliveryInit, Outbox, GivenUp, InFlight
<1>2. SafetyInv /\ SafetyInv' /\ [Next]_vars => [Promise!DeliveryNext]_(Promise!deliveryVars)
  <2> SUFFICES ASSUME SafetyInv, SafetyInv', [Next]_vars,
                      ~ UNCHANGED <<Outbox, accepted, GivenUp>>
               PROVE  Promise!DeliveryNext
    BY DEF Promise!deliveryVars
  <2> USE DEF SafetyInv, TypeOK, Rows, InFlight
  <2>1. ASSUME NEW S \in Batches, Enqueue(S) PROVE Promise!DeliveryNext
    <3>1. PICK top, id, E : Inserts(S, top, id, E)
      BY <2>1, EnqueueInserts
    <3>2. UNCHANGED <<pc, batch, accepted>>
      BY <2>1 DEF Enqueue, uploaderVars
    <3> DEFINE New == S \ accepted
               V == {e \in E : fate[e] # "acked"} \ (accepted \cup InFlight)
    <3>3. /\ S \subseteq Events /\ \A e \in S : fate[e] = "new" /\ e \notin InFlight
          /\ \A e \in Events : Inserted(S)[e] = IF e \in S THEN "pending" ELSE fate[e]
      BY DEF Batches, Inserted, RowidInv, BatchStaysLeased
    <3>4. /\ E \subseteq Events
          /\ \A e \in E : e \in S \/ fate[e] \in Stored
          /\ fate' = Delete(Inserted(S), E)
      BY <3>1, <3>3 DEF Inserts
    <3>5. New \cap (Outbox \cup accepted \cup GivenUp) = {}
      BY <3>3 DEF Outbox, GivenUp
    <3>6. V \subseteq Outbox \cup New
      BY <3>3, <3>4 DEF Outbox
    <3>7. Outbox' = (Outbox \cup New) \ V
      BY <3>2, <3>3, <3>4 DEF Outbox, Delete
    <3>8. GivenUp' = GivenUp \cup V
      BY <3>2, <3>3, <3>4 DEF GivenUp, Delete
    <3>9. New \in SUBSET Events /\ V \in SUBSET Events /\ accepted' = accepted
      BY <3>2, <3>3, <3>4
    <3> HIDE DEF New, V
    <3> QED
      BY <3>5, <3>6, <3>7, <3>8, <3>9, TakeMaps
  <2>2. ASSUME NEW S \in Batches, EnqueueRefused(S) PROVE Promise!DeliveryNext
    BY <2>2 DEF EnqueueRefused, Batches, uploaderVars, Outbox, GivenUp
  <2>3. CASE Lease
    BY <2>3 DEF Lease, OldestLeasable, Leasable, Outbox, GivenUp
  <2>4. CASE SendOk
    <3> DEFINE T == batch \ accepted
    <3>1. /\ T \subseteq Outbox /\ accepted' = accepted \cup T
          /\ Outbox' = Outbox \ T /\ GivenUp' = GivenUp
      BY <2>4 DEF SendOk, Outbox, GivenUp
    <3> QED
      BY <3>1, DeliverMaps
  <2>5. CASE SendFails
    <3>1. CASE accepted' = accepted
      <4> DEFINE V == {e \in batch \ accepted : fate[e] = "evicted"}
      <4>1. /\ V \subseteq Outbox
            /\ Outbox' = Outbox \ V /\ GivenUp' = GivenUp \cup V
        BY <2>5, <3>1 DEF SendFails, Outbox, GivenUp, RowidInv, BatchStaysLeased
      <4> QED
        BY <3>1, <4>1, GiveUpMaps
    <3>2. CASE accepted' = accepted \cup batch
      <4> DEFINE T == batch \ accepted
      <4>1. /\ T \subseteq Outbox /\ accepted' = accepted \cup T
            /\ Outbox' = Outbox \ T /\ GivenUp' = GivenUp
        BY <2>5, <3>2 DEF SendFails, Outbox, GivenUp
      <4> QED
        BY <4>1, DeliverMaps
    <3> QED
      BY <2>5, <3>1, <3>2 DEF SendFails
  <2>6. CASE Ack
    BY <2>6 DEF Ack, UpdateByIDs, BatchDone, RowidInv, InFlightIdsNotReused, Outbox, GivenUp
  <2>7. CASE Nack
    BY <2>7 DEF Nack, UpdateByIDs, BatchDone, RowidInv, InFlightIdsNotReused, BatchStaysLeased, Outbox, GivenUp
  <2>8. CASE AckOrNackFails
    BY <2>8 DEF AckOrNackFails, BatchDone, Outbox, GivenUp
  <2>9. CASE LeaseExpires
    BY <2>9 DEF LeaseExpires, uploaderVars, Outbox, GivenUp
  <2>10. CASE PruneAcked
    BY <2>10 DEF PruneAcked, Delete, uploaderVars, Outbox, GivenUp
  <2>11. CASE Crash
    <3> DEFINE V == {e \in InFlight \ accepted : fate[e] = "evicted"}
    <3>1. /\ V \subseteq Outbox /\ accepted' = accepted
          /\ Outbox' = Outbox \ V /\ GivenUp' = GivenUp \cup V
      BY <2>11 DEF Crash, Outbox, GivenUp, RowidInv, BatchStaysLeased
    <3> QED
      BY <3>1, GiveUpMaps
  <2>12. CASE Restart
    BY <2>12 DEF Restart, uploaderVars, Outbox, GivenUp
  <2>13. CASE UNCHANGED vars
    BY <2>13 DEF vars, uploaderVars, Outbox, GivenUp
  <2> QED
    BY <2>1, <2>2, <2>3, <2>4, <2>5, <2>6, <2>7, <2>8, <2>9, <2>10, <2>11,
       <2>12, <2>13 DEF Next, EnqueueCall
<1> QED
  BY <1>1, <1>2, SafetyInvariant, PTL DEF Spec, DeliversOrEvicts, Promise!DeliverySpec

-----------------------------------------------------------------------------
\* An event just enqueued is not what its own Enqueue evicts, as long as only
\* the row cap evicts and a batch is small against the table.
THEOREM EnqueueKeepsItsRows ==
  ASSUME RowCapOnly, MaxEnqueue + EvictChunk <= MaxRows + 1
  PROVE  Spec => QueuedIsKept
<1> DEFINE KeepsItsRows == \A e \in Events : fate[e] = "new" => fate'[e] # "evicted"
<1>1. SafetyInv /\ [Next]_vars => [KeepsItsRows]_vars
  <2> SUFFICES ASSUME SafetyInv, Next PROVE KeepsItsRows
    OBVIOUS
  <2> USE DEF SafetyInv, TypeOK, Rows
  <2>1. ASSUME NEW S \in Batches, Enqueue(S) PROVE KeepsItsRows
    <3> SUFFICES ASSUME NEW e \in Events, fate[e] = "new", fate'[e] = "evicted"
                 PROVE  FALSE
      OBVIOUS
    <3> DEFINE f == Inserted(S)
    <3>1. PICK top, id, D :
            /\ Inserts(S, top, id, D)
            /\ D = {} \/ Cardinality(Rows(f) \ D) >= MaxRows + 1 - EvictChunk
      BY <2>1, EnqueueInserts
    <3>2. /\ S \subseteq Events /\ IsFiniteSet(S) /\ Cardinality(S) <= MaxEnqueue
          /\ \A x \in Events : f[x] = IF x \in S THEN "pending" ELSE fate[x]
      BY FS_Subset, ConstantsAssumption DEF Batches, Inserted, ConstantsAssumption
    <3>3. e \in S /\ e \in D
      BY <3>1, <3>2 DEF Inserts, Delete
    <3>4. Rows(f) \ D \subseteq S \ {e}
      <4> SUFFICES ASSUME NEW b \in Rows(f) \ D PROVE b \in S /\ b # e
        OBVIOUS
      <4>1. id[e] < id[b] /\ id[e] > top
        BY <3>1, <3>2, <3>3 DEF Inserts, VictimBefore
      <4>2. b \notin S => id[b] = rowid[b] /\ rowid[b] <= top
        BY <3>1, <3>2 DEF Inserts, LargestRowid
      <4>3. top \in Nat /\ id[e] \in Nat /\ id[b] \in Nat
        BY <3>1, <3>2, <3>3 DEF Inserts, LargestRowid
      <4> QED
        BY <3>3, <4>1, <4>2, <4>3
    <3>5. Cardinality(S \ {e}) = Cardinality(S) - 1 /\ IsFiniteSet(S \ {e})
      BY <3>2, <3>3, FS_RemoveElement
    <3>6. Cardinality(Rows(f) \ D) <= Cardinality(S) - 1
      BY <3>4, <3>5, FS_Subset
    <3>7. Cardinality(Rows(f) \ D) \in Nat /\ Cardinality(S) \in Nat
      BY <3>2, <3>4, <3>5, FS_Subset, FS_CardinalityType
    <3> QED
      BY <3>1, <3>2, <3>3, <3>6, <3>7, ConstantsAssumption DEF ConstantsAssumption
  <2>2. ASSUME NEW S \in Batches, EnqueueRefused(S) PROVE KeepsItsRows
    BY <2>2 DEF EnqueueRefused
  <2>3. CASE Lease
    BY <2>3 DEF Lease
  <2>4. CASE SendOk \/ SendFails \/ AckOrNackFails \/ LeaseExpires \/ Crash \/ Restart
    BY <2>4 DEF SendOk, SendFails, AckOrNackFails, LeaseExpires, Crash, Restart
  <2>5. CASE Ack \/ Nack
    BY <2>5 DEF Ack, Nack, UpdateByIDs
  <2>6. CASE PruneAcked
    BY <2>6 DEF PruneAcked, Delete
  <2> QED
    BY <2>1, <2>2, <2>3, <2>4, <2>5, <2>6 DEF Next, EnqueueCall
<1> QED
  BY <1>1, SafetyInvariant, PTL DEF Spec, QueuedIsKept

-----------------------------------------------------------------------------
(***************************************************************************)
(* The metrics table in the file that it shares.                           *)
(***************************************************************************)
FileTypes ==
  /\ events \in Nat /\ sessions \in 0 .. MaxSessions /\ size \in Nat
  /\ counted \in [Events -> Nat] /\ lost \in Nat

\* The old version's rows are pending at first, and nothing else is in the file.
LEMMA FileTypeInit == FileInit => LeaseInv /\ FileTypes
<1> SUFFICES ASSUME FileInit PROVE LeaseInv /\ FileTypes
  OBVIOUS
<1> USE ConstantsAssumption, QueueFileAssumption DEF ConstantsAssumption, QueueFileAssumption
<1>1. IsFiniteSet(Legacy) /\ Cardinality(Legacy) \in Nat
  BY FS_Subset, FS_CardinalityType
<1>2. /\ fate = [p \in Events |-> IF p \in Legacy THEN "pending" ELSE "new"]
      /\ rowid \in [Events -> 0 .. Cardinality(Legacy)]
      /\ \A p, r \in Events : /\ rowid[p] = 0 <=> p \notin Legacy
                              /\ rowid[p] = rowid[r] /\ p \in Legacy => p = r
  BY DEF FileInit
<1>3. /\ big = FALSE /\ up = TRUE /\ pc = "idle" /\ batch = {} /\ ids = {} /\ accepted = {}
      /\ faults = 0
  BY DEF FileInit
<1>4. fate \in [Events -> Fates] /\ rowid \in [Events -> Nat]
  BY <1>1, <1>2
<1>5. \A e \in Events : rowid[e] > 0 <=> fate[e] \in Stored
  BY <1>2, <1>4
<1>6. TypeOK
  <2>1. big \in BOOLEAN /\ up \in BOOLEAN /\ (~up => pc = "idle")
    BY <1>3
  <2>2. /\ pc = "idle" /\ batch = {} /\ ids = {} /\ accepted = {} /\ faults = 0
    BY <1>3
  <2> QED
    BY <1>4, <1>5, <2>1, <2>2 DEF TypeOK
<1>7. \A a, b \in Rows(fate) : rowid[a] = rowid[b] => a = b
  BY <1>2 DEF Rows
<1>8. BatchStaysLeased /\ NoStuckLeases
  BY <1>2, <1>3 DEF BatchStaysLeased, NoStuckLeases
<1>9. LeaseInv
  BY <1>3, <1>6, <1>7, <1>8 DEF LeaseInv
<1>10. FileTypes
  BY <1>1 DEF FileInit, FileTypes
<1> QED
  BY <1>9, <1>10

\* A step of the file is a step of the metrics table, or leaves that alone but
\* for the count of faults.
LEMMA FileStepIsQueueStep ==
  ASSUME [FileNext]_fileVars
  PROVE  \/ [Next]_vars
         \/ /\ UNCHANGED <<fate, rowid, big, up, uploaderVars>>
            /\ faults < MaxFaults /\ faults' = faults + 1
<1>1. ASSUME NEW S \in Batches, EnqueueMetrics(S) \/ EnqueueMetricsRefused(S) PROVE Next
  BY <1>1 DEF EnqueueMetrics, EnqueueMetricsRefused, Next, EnqueueCall
<1>2. ASSUME NEW n \in 1 .. MaxEnqueue, EnqueueEvents(n)
      PROVE  \/ UNCHANGED vars
             \/ /\ UNCHANGED <<fate, rowid, big, up, uploaderVars>>
                /\ faults < MaxFaults /\ faults' = faults + 1
  BY <1>2 DEF EnqueueEvents, vars
<1>3. CASE UpsertSession \/ OthersPruned
  BY <1>3 DEF UpsertSession, OthersPruned
<1>4. CASE LeaseMetricsBatch
  BY <1>4 DEF LeaseMetricsBatch, Next
<1>5. CASE SendMetricsOk
  BY <1>5 DEF SendMetricsOk, Next
<1>6. CASE SendMetricsFails
  BY <1>6 DEF SendMetricsFails, Next
<1>7. CASE AckMetrics \/ NackMetrics
  BY <1>7 DEF AckMetrics, NackMetrics, Next
<1>8. CASE MetricsWriteFails \/ MetricsLeaseExpires
  BY <1>8 DEF MetricsWriteFails, MetricsLeaseExpires, Next
<1>9. CASE PruneAckedMetrics \/ DaemonDies \/ DaemonRestarts
  BY <1>9 DEF PruneAckedMetrics, DaemonDies, DaemonRestarts, Next
<1>10. CASE UNCHANGED fileVars
  BY <1>10 DEF fileVars
<1> QED
  BY <1>1, <1>2, <1>3, <1>4, <1>5, <1>6, <1>7, <1>8, <1>9, <1>10 DEF FileNext

\* So what holds of the leases whatever forces the evictions holds here too.
LEMMA FileLeaseStep == LeaseInv /\ [FileNext]_fileVars => LeaseInv'
<1> SUFFICES ASSUME LeaseInv, [FileNext]_fileVars PROVE LeaseInv'
  OBVIOUS
<1>1. CASE [Next]_vars
  BY <1>1, LeaseStep
<1>2. CASE /\ UNCHANGED <<fate, rowid, big, up, uploaderVars>>
           /\ faults < MaxFaults /\ faults' = faults + 1
  <2>1. TypeOK'
    BY <1>2, ConstantsAssumption DEF ConstantsAssumption, LeaseInv, TypeOK, uploaderVars
  <2>2. faults' # 0
    BY <1>2 DEF LeaseInv, TypeOK
  <2> QED
    BY <1>2, <2>1, <2>2 DEF LeaseInv, Rows, BatchStaysLeased, NoStuckLeases, uploaderVars
<1> QED
  BY <1>1, <1>2, FileStepIsQueueStep

-----------------------------------------------------------------------------
\* What the tables of events and metrics have is at most what the cap allows and
\* what failed evictions left.
Leftover == faults * MaxEnqueue
RowsFit == Cardinality(Rows(fate)) + events <= MaxPages + Leftover

FileInv == TypeOK /\ FileTypes /\ RowsFit /\ FileBounded

\* A product with one more.
LEMMA ProductGrows ==
  ASSUME NEW a \in Nat, NEW b \in Nat
  PROVE  a * b \in Nat /\ (a + 1) * b = a * b + b
  OBVIOUS

\* One more failed eviction leaves one more batch.
LEMMA LeftoverGrows ==
  ASSUME TypeOK
  PROVE  /\ Leftover \in Nat
         /\ (faults + 1) * MaxEnqueue = Leftover + MaxEnqueue
         /\ faults' = faults => Leftover' = Leftover
         /\ faults' = faults + 1 => Leftover' = Leftover + MaxEnqueue
<1>1. faults \in Nat /\ MaxEnqueue \in Nat
  BY ConstantsAssumption DEF ConstantsAssumption, TypeOK
<1> QED
  BY <1>1, ProductGrows DEF Leftover

\* Rows that go leave fewer.
LEMMA FewerRows ==
  ASSUME NEW f, NEW g, Rows(g) \subseteq Rows(f)
  PROVE  /\ Cardinality(Rows(g)) \in Nat /\ Cardinality(Rows(f)) \in Nat
         /\ Cardinality(Rows(g)) <= Cardinality(Rows(f))
  BY RowsFinite, FS_Subset

\* EnqueueMetrics: either the file is over its cap and the table is emptied, or it
\* has what it had, or the eviction failed.
LEMMA EnqueueMetricsRows ==
  ASSUME TypeOK, FileTypes, NEW S \in Batches, EnqueueMetrics(S)
  PROVE  \E n \in Nat :
           /\ n <= Cardinality(Rows(fate)) + MaxEnqueue
           /\ size' = Grown(n + events + sessions)
           /\ Cardinality(Rows(fate')) \in Nat /\ Cardinality(Rows(fate')) <= n
           /\ \/ faults' = faults + 1
              \/ faults' = faults /\ size' <= MaxPages
              \/ faults' = faults /\ Cardinality(Rows(fate')) = 0
<1> DEFINE f == Inserted(S)
           n == Cardinality(Rows(f))
<1>1. n \in Nat /\ n <= Cardinality(Rows(fate)) + MaxEnqueue
  <2>1. IsFiniteSet(S) /\ Cardinality(S) \in Nat /\ Cardinality(S) <= MaxEnqueue
    BY FS_Subset, FS_CardinalityType, ConstantsAssumption DEF Batches, ConstantsAssumption
  <2>2. Rows(f) \subseteq Rows(fate) \cup S
    BY DEF Rows, Inserted
  <2>3. /\ IsFiniteSet(Rows(fate) \cup S)
        /\ Cardinality(Rows(fate) \cup S) =
             Cardinality(Rows(fate)) + Cardinality(S) - Cardinality(Rows(fate) \cap S)
    BY <2>1, RowsFinite, FS_Union
  <2>4. Cardinality(Rows(fate) \cap S) \in Nat
    BY <2>1, FS_Subset, FS_CardinalityType
  <2>5. n <= Cardinality(Rows(fate) \cup S)
    BY <2>2, <2>3, FS_Subset
  <2>6. n \in Nat /\ Cardinality(Rows(fate)) \in Nat /\ MaxEnqueue \in Nat
    BY RowsFinite, ConstantsAssumption DEF ConstantsAssumption
  <2> HIDE DEF n
  <2> QED
    BY <2>1, <2>3, <2>4, <2>5, <2>6
<1>2. size' = Grown(n + events + sessions) /\ big' = (size' > MaxPages)
  BY DEF EnqueueMetrics
<1>3. PICK at \in NewIds(S), over \in FileSizes, failed \in BOOLEAN :
        /\ faults' = IF failed THEN faults + 1 ELSE faults
        /\ \E left \in 0 .. n, still \in BOOLEAN :
             /\ IF failed THEN EvictionFails(n, over, left, still)
                          ELSE EvictionEnds(n, over, left, still)
             /\ big' = still
             /\ \E D \in Victims(f, InsertedAt(S, at), left) : fate' = Delete(f, D)
  BY DEF EnqueueMetrics, Enqueue
<1>4. PICK left \in 0 .. n, still \in BOOLEAN :
        /\ IF failed THEN EvictionFails(n, over, left, still)
                     ELSE EvictionEnds(n, over, left, still)
        /\ big' = still
        /\ \E D \in Victims(f, InsertedAt(S, at), left) : fate' = Delete(f, D)
  BY <1>3
<1>5. Cardinality(Rows(fate')) = left
  <2>1. PICK D \in Victims(f, InsertedAt(S, at), left) : fate' = Delete(f, D)
    BY <1>4
  <2>2. Rows(fate') = Rows(f) \ D
    BY <2>1 DEF Delete, Victims, Rows
  <2> QED
    BY <2>2 DEF Victims
<1>6. size' \in Nat
  BY <1>1, <1>2 DEF Grown, FileTypes
<1>7. CASE failed
  BY <1>1, <1>2, <1>3, <1>5, <1>7
<1>8. CASE ~ failed
  <2>1. EvictionEnds(n, over, left, still) /\ faults' = faults
    BY <1>3, <1>4, <1>8
  <2>2. CASE still
    <3>1. left = 0
      BY <2>1, <2>2 DEF EvictionEnds
    <3> QED
      BY <1>1, <1>2, <1>5, <2>1, <3>1
  <2>3. CASE ~ still
    <3>1. ~ (size' > MaxPages)
      BY <1>2, <1>4, <2>3
    <3>2. size' <= MaxPages
      BY <1>6, <3>1, QueueFileAssumption DEF QueueFileAssumption
    <3> QED
      BY <1>1, <1>2, <1>5, <2>1, <3>2
  <2> QED
    BY <2>2, <2>3
<1> QED
  BY <1>7, <1>8

\* Every step keeps what the tables have within the cap and what failed
\* evictions left.
LEMMA FileStep == FileInv /\ TypeOK' /\ [FileNext]_fileVars => FileInv'
<1> SUFFICES ASSUME TypeOK, FileTypes, RowsFit, FileBounded, TypeOK', [FileNext]_fileVars
             PROVE  FileTypes' /\ RowsFit' /\ FileBounded'
  BY DEF FileInv
<1> DEFINE rows == Cardinality(Rows(fate))
<1>1. /\ rows \in Nat /\ events \in Nat /\ sessions \in 0 .. MaxSessions /\ size \in Nat
      /\ MaxPages \in Nat /\ MaxSessions \in Nat /\ MaxEnqueue \in Nat \ {0} /\ faults \in Nat
      /\ Leftover \in Nat
  BY RowsFinite, LeftoverGrows, ConstantsAssumption, QueueFileAssumption
     DEF ConstantsAssumption, QueueFileAssumption, FileTypes, TypeOK
<1>2. rows + events <= MaxPages + Leftover /\ size <= MaxPages + MaxSessions + Leftover + MaxEnqueue
  BY <1>1, LeftoverGrows DEF RowsFit, FileBounded
<1> DEFINE Fits ==
      /\ Cardinality(Rows(fate')) + events' <= MaxPages + Leftover'
      /\ size' <= MaxPages + MaxSessions + Leftover' + MaxEnqueue
<1>3. ASSUME Fits PROVE RowsFit' /\ FileBounded'
  <2>2. faults' \in Nat /\ MaxEnqueue \in Nat
    BY ConstantsAssumption DEF ConstantsAssumption, TypeOK
  <2>3. Leftover' \in Nat /\ (faults' + 1) * MaxEnqueue = Leftover' + MaxEnqueue
    BY <2>2, ProductGrows DEF Leftover
  <2> QED
    BY <1>1, <1>3, <2>3 DEF RowsFit, FileBounded
<1> SUFFICES FileTypes' /\ Fits
  BY <1>3
<1>4. ASSUME faults' \in {faults, faults + 1}
      PROVE  \/ faults' = faults /\ Leftover' = Leftover
             \/ faults' = faults + 1 /\ Leftover' = Leftover + MaxEnqueue
  BY <1>4, LeftoverGrows
<1> HIDE DEF rows
\* What the metrics table loses rows in, or nothing changes.
<1>5. ASSUME UNCHANGED <<events, sessions, size>>, Rows(fate') \subseteq Rows(fate),
             faults' \in {faults, faults + 1}
      PROVE  Fits
  <2>1. Cardinality(Rows(fate')) \in Nat /\ Cardinality(Rows(fate')) <= rows
    BY <1>5, FewerRows DEF rows
  <2> QED
    BY <1>1, <1>2, <1>4, <1>5, <2>1
<1>6. ASSUME UNCHANGED counted, UNCHANGED lost, events' \in Nat, sessions' \in 0 .. MaxSessions,
             size' \in Nat
      PROVE  FileTypes'
  BY <1>6 DEF FileTypes
<1>7. Takes => counted' \in [Events -> Nat]
  BY DEF Takes, FileTypes
<1>8. ASSUME NEW S \in Batches, EnqueueMetrics(S) PROVE FileTypes' /\ Fits
  <2>1. PICK n \in Nat :
          /\ n <= rows + MaxEnqueue
          /\ size' = Grown(n + events + sessions)
          /\ Cardinality(Rows(fate')) \in Nat /\ Cardinality(Rows(fate')) <= n
          /\ \/ faults' = faults + 1
             \/ faults' = faults /\ size' <= MaxPages
             \/ faults' = faults /\ Cardinality(Rows(fate')) = 0
    BY <1>8, EnqueueMetricsRows DEF rows
  <2>2. UNCHANGED <<events, sessions, counted, lost>>
    BY <1>8 DEF EnqueueMetrics, others, backend
  <2>3. /\ size' \in Nat /\ n + events + sessions <= size'
        /\ size' = size \/ size' = n + events + sessions
    BY <1>1, <2>1 DEF Grown
  <2>4. size' <= MaxPages + MaxSessions + Leftover + MaxEnqueue
    BY <1>1, <1>2, <2>1, <2>3
  <2>5. Leftover' = Leftover \/ Leftover' = Leftover + MaxEnqueue
    BY <1>4, <2>1
  <2>6. size' <= MaxPages + MaxSessions + Leftover' + MaxEnqueue
    BY <1>1, <2>3, <2>4, <2>5
  <2>7. ASSUME faults' = faults + 1 PROVE Fits
    BY <1>1, <1>2, <1>4, <2>1, <2>2, <2>6, <2>7
  <2>8. ASSUME faults' = faults, size' <= MaxPages PROVE Fits
    BY <1>1, <1>4, <2>1, <2>2, <2>3, <2>6, <2>8
  <2>9. ASSUME faults' = faults, Cardinality(Rows(fate')) = 0 PROVE Fits
    BY <1>1, <1>2, <1>4, <2>1, <2>2, <2>6, <2>9
  <2>10. FileTypes'
    BY <1>1, <1>6, <2>2, <2>3
  <2> QED
    BY <2>1, <2>7, <2>8, <2>9, <2>10
<1>9. ASSUME NEW S \in Batches, EnqueueMetricsRefused(S) PROVE FileTypes' /\ Fits
  <2>1. Rows(fate') \subseteq Rows(fate)
    BY <1>9 DEF EnqueueMetricsRefused, EnqueueRefused, Rows
  <2>2. UNCHANGED <<events, sessions, size, counted, lost>> /\ faults' = faults + 1
    BY <1>9 DEF EnqueueMetricsRefused, EnqueueRefused, others, backend
  <2> QED
    BY <1>1, <1>5, <1>6, <2>1, <2>2
<1>10. ASSUME NEW n \in 1 .. MaxEnqueue, EnqueueEvents(n) PROVE FileTypes' /\ Fits
  <2>1. /\ size' = Grown(rows + events + n + sessions)
        /\ \/ events' = Kept(events + n, size' > MaxPages) /\ faults' = faults
           \/ events' = events + n /\ faults' = faults + 1
        /\ UNCHANGED <<fate, sessions, counted, lost>>
    BY <1>10 DEF EnqueueEvents, backend, rows
  <2>2. n \in Nat /\ n <= MaxEnqueue
    BY <1>1
  <2>3. /\ size' \in Nat /\ rows + events + n + sessions <= size'
        /\ size' = size \/ size' = rows + events + n + sessions
    BY <1>1, <2>1, <2>2 DEF Grown
  <2>4. Cardinality(Rows(fate')) = rows
    BY <2>1 DEF rows
  <2>5. /\ faults' \in {faults, faults + 1} /\ events' \in Nat
        /\ \/ faults' = faults + 1 /\ events' = events + n
           \/ faults' = faults /\ events' = 0
           \/ faults' = faults /\ size' <= MaxPages /\ events' <= events + n
    <3>1. ASSUME size' > MaxPages PROVE Kept(events + n, size' > MaxPages) = 0
      BY <3>1 DEF Kept
    <3>2. ASSUME ~ (size' > MaxPages)
          PROVE  /\ Kept(events + n, size' > MaxPages) \in Nat
                 /\ Kept(events + n, size' > MaxPages) <= events + n
      BY <1>1, <2>2, <3>2, ConstantsAssumption
         DEF Kept, AfterRound, EvictTarget, ConstantsAssumption
    <3> QED
      BY <1>1, <2>1, <2>2, <2>3, <3>1, <3>2
  <2>6. size' <= MaxPages + MaxSessions + Leftover' + MaxEnqueue
    BY <1>1, <1>2, <1>4, <2>2, <2>3, <2>5
  <2>7. Fits
    BY <1>1, <1>2, <1>4, <2>2, <2>3, <2>4, <2>5, <2>6
  <2> QED
    BY <1>1, <1>6, <2>1, <2>3, <2>5, <2>7
<1>11. CASE UpsertSession
  <2>1. /\ UNCHANGED <<fate, faults, events, counted, lost>>
        /\ size' = Grown(rows + events + sessions + 1)
        /\ sessions' = IF sessions < MaxSessions THEN sessions + 1 ELSE sessions
    BY <1>11 DEF UpsertSession, vars, backend, rows
  <2>2. /\ size' \in Nat /\ sessions' \in 0 .. MaxSessions
        /\ size' = size \/ size' = rows + events + sessions + 1
    BY <1>1, <2>1 DEF Grown
  <2>3. Cardinality(Rows(fate')) = rows /\ Leftover' = Leftover
    BY <2>1 DEF rows, Leftover
  <2>4. Fits
    BY <1>1, <1>2, <2>1, <2>2, <2>3
  <2> QED
    BY <1>1, <1>6, <2>1, <2>2, <2>4
<1>12. CASE OthersPruned
  <2>1. UNCHANGED <<fate, faults, size, counted, lost>>
    BY <1>12 DEF OthersPruned, vars, backend
  <2>2. /\ events' \in Nat /\ events' <= events
        /\ sessions' \in 0 .. MaxSessions
    BY <1>1, <1>12 DEF OthersPruned
  <2>3. Cardinality(Rows(fate')) = rows /\ Leftover' = Leftover /\ size' = size
    BY <2>1 DEF rows, Leftover
  <2>4. rows + events' <= MaxPages + Leftover
    <3>1. ASSUME NEW e \in Nat, NEW d \in Nat, d <= e, rows + e <= MaxPages + Leftover
          PROVE  rows + d <= MaxPages + Leftover
      BY <1>1, <3>1
    <3> QED
      BY <1>1, <1>2, <2>2, <3>1
  <2>5. Fits
    BY <1>2, <2>3, <2>4
  <2> QED
    BY <1>1, <1>6, <2>1, <2>2, <2>5
<1>13. CASE SendMetricsOk \/ SendMetricsFails
  <2>1. UNCHANGED <<fate, events, sessions, size, faults>>
    BY <1>13 DEF SendMetricsOk, SendMetricsFails, SendOk, SendFails, others
  <2>2. counted' \in [Events -> Nat] /\ lost' \in Nat
    BY <1>7, <1>13 DEF SendMetricsOk, SendMetricsFails, backend, FileTypes
  <2> QED
    BY <1>1, <1>5, <2>1, <2>2 DEF FileTypes
<1>14. CASE \/ LeaseMetricsBatch \/ AckMetrics \/ NackMetrics \/ MetricsWriteFails
            \/ MetricsLeaseExpires \/ PruneAckedMetrics \/ DaemonDies \/ DaemonRestarts
            \/ UNCHANGED fileVars
  <2>1. UNCHANGED <<events, sessions, size, counted, lost>>
    BY <1>14 DEF LeaseMetricsBatch, AckMetrics, NackMetrics, MetricsWriteFails,
       MetricsLeaseExpires, PruneAckedMetrics, DaemonDies, DaemonRestarts, others, backend,
       fileVars
  <2>2. Rows(fate') \subseteq Rows(fate) /\ faults' \in {faults, faults + 1}
    <3>1. CASE LeaseMetricsBatch
      BY <3>1 DEF LeaseMetricsBatch, Lease, OldestLeasable, Leasable, Rows
    <3>2. CASE AckMetrics \/ NackMetrics
      BY <3>2 DEF AckMetrics, NackMetrics, Ack, Nack, UpdateByIDs, Rows
    <3>3. CASE MetricsWriteFails \/ DaemonDies \/ DaemonRestarts
      BY <3>3 DEF MetricsWriteFails, DaemonDies, DaemonRestarts, AckOrNackFails, Crash, Restart
    <3>4. CASE MetricsLeaseExpires
      BY <3>4 DEF MetricsLeaseExpires, LeaseExpires, Rows, TypeOK
    <3>5. CASE PruneAckedMetrics
      BY <3>5 DEF PruneAckedMetrics, PruneAcked, Delete, Rows
    <3>6. CASE UNCHANGED fileVars
      BY <3>6 DEF fileVars, vars
    <3> QED
      BY <1>14, <3>1, <3>2, <3>3, <3>4, <3>5, <3>6
  <2> QED
    BY <1>1, <1>5, <1>6, <2>1, <2>2
<1> HIDE DEF Fits
<1> QED
  BY <1>8, <1>9, <1>10, <1>11, <1>12, <1>13, <1>14 DEF FileNext

\* At first the file has the old version's points.
LEMMA FileInvInit == FileInit => FileInv /\ LeaseInv
<1> SUFFICES ASSUME FileInit, LeaseInv, FileTypes PROVE RowsFit /\ FileBounded
  BY FileTypeInit DEF FileInv, LeaseInv
<1>1. Rows(fate) \subseteq Legacy
  BY DEF FileInit, Rows
<1>2. IsFiniteSet(Legacy) /\ Cardinality(Legacy) \in Nat /\ Cardinality(Legacy) <= MaxPages
  BY FS_Subset, FS_CardinalityType, ConstantsAssumption, QueueFileAssumption
     DEF ConstantsAssumption, QueueFileAssumption
<1>3. Cardinality(Rows(fate)) <= Cardinality(Legacy) /\ Cardinality(Rows(fate)) \in Nat
  BY <1>1, <1>2, FS_Subset, RowsFinite
<1>4. events = 0 /\ faults = 0 /\ size = Cardinality(Legacy)
  BY DEF FileInit
<1>5. Leftover = 0 /\ (faults + 1) * MaxEnqueue = MaxEnqueue
  BY <1>4, ConstantsAssumption DEF Leftover, ConstantsAssumption
<1> QED
  BY <1>2, <1>3, <1>4, <1>5, ConstantsAssumption, QueueFileAssumption
     DEF RowsFit, FileBounded, ConstantsAssumption, QueueFileAssumption

\* Although the file never shrinks and an eviction deletes rows of one table
\* only, queue.db stays within its cap but for one batch, one more for each
\* eviction that failed, and the sessions, under every cap.
THEOREM FileStaysBounded == FileSpec => []FileBounded
<1>1. FileInv /\ LeaseInv /\ [FileNext]_fileVars => FileInv' /\ LeaseInv'
  <2>1. LeaseInv' => TypeOK'
    BY DEF LeaseInv
  <2> QED
    BY <2>1, FileStep, FileLeaseStep
<1>2. FileInv => FileBounded
  BY DEF FileInv
<1> QED
  BY FileInvInit, <1>1, <1>2, PTL DEF FileSpec

-----------------------------------------------------------------------------
\* A point from before the column is in the table from the start, so that it is
\* never inserted.
LegacyIsOld == \A p \in Legacy : fate[p] # "new"

\* The backend has the point, and its row will not be sent again, unless an answer
\* or an ack gets lost.
Spent(p) == IF p \in batch THEN pc = "acking" ELSE fate[p] \notin Outstanding

CountFits(p) ==
  counted[p] <= IF p \notin Legacy THEN 1 ELSE lost + faults + IF Spent(p) THEN 1 ELSE 0

CountInv == LeaseInv /\ FileTypes /\ LegacyIsOld /\ \A p \in Events : CountFits(p)

\* An item with a key is counted at most once, one without each time it is taken.
LEMMA TakesCounts ==
  ASSUME FileTypes, Takes, NEW p \in Events
  PROVE  /\ counted'[p] \in {counted[p], counted[p] + 1}
         /\ p \notin batch => counted'[p] = counted[p]
         /\ p \notin Legacy /\ counted[p] <= 1 => counted'[p] <= 1
<1>1. counted[p] \in Nat
  BY DEF FileTypes
<1>2. counted'[p] = IF p \in batch /\ (p \in Keyless(batch) \/ counted[p] = 0)
                    THEN counted[p] + 1 ELSE counted[p]
  BY DEF Takes
<1> QED
  BY <1>1, <1>2 DEF Keyless

\* A count that stays fits as long as faults and lost answers do not get fewer,
\* and the point is as much spent as before, or more, or something was lost.
LEMMA CountStays ==
  ASSUME LeaseInv, LeaseInv', FileTypes, FileTypes', NEW p \in Events, CountFits(p),
         counted'[p] = counted[p], lost' = lost,
         \/ faults' = faults /\ (p \in Legacy /\ Spent(p) => Spent(p)')
         \/ faults' = faults + 1
  PROVE  CountFits(p)'
<1>1. counted[p] \in Nat /\ lost \in Nat /\ faults \in Nat
  BY DEF FileTypes, LeaseInv, TypeOK
<1> QED
  BY <1>1 DEF CountFits

\* The table's own steps that are no send: a row that is spent stays so.
LEMMA SpentStays ==
  ASSUME LeaseInv, LegacyIsOld, [Next]_vars, ~ SendOk, ~ SendFails, NEW p \in Legacy
  PROVE  /\ fate'[p] # "new"
         /\ (faults' = faults /\ (Spent(p) => Spent(p)')) \/ faults' = faults + 1
<1> USE DEF LegacyIsOld, Spent
<1>1. p \in Events /\ fate[p] # "new"
  BY QueueFileAssumption DEF QueueFileAssumption
<1>2. ASSUME NEW S \in Batches, Enqueue(S)
      PROVE  /\ fate'[p] # "new" /\ UNCHANGED <<pc, batch>>
             /\ fate[p] \notin Outstanding => fate'[p] \notin Outstanding
             /\ faults' = faults \/ faults' = faults + 1
  <2>1. PICK top, id, D : Inserts(S, top, id, D)
    BY <1>2, EnqueueInserts DEF LeaseInv
  <2>2. p \notin S
    BY <1>1 DEF Batches
  <2>3. UNCHANGED <<pc, batch>> /\ (faults' = faults \/ faults' = faults + 1)
    BY <1>2 DEF Enqueue, uploaderVars
  <2> QED
    BY <1>1, <2>1, <2>2, <2>3 DEF Inserts, Inserted, Delete
<1>3. ASSUME NEW S \in Batches, EnqueueRefused(S)
      PROVE  fate'[p] # "new" /\ faults' = faults + 1
  BY <1>1, <1>3 DEF EnqueueRefused
<1>4. CASE Lease
  <2>1. PICK B \in OldestLeasable :
          /\ batch' = B
          /\ fate' = [e \in Events |-> IF e \in B THEN "leased" ELSE fate[e]]
    BY <1>4 DEF Lease
  <2>2. batch = {} /\ (p \in B => fate[p] \in Outstanding) /\ faults' = faults
    BY <1>4 DEF Lease, OldestLeasable, Leasable, LeaseInv, TypeOK
  <2>3. fate'[p] = IF p \in B THEN "leased" ELSE fate[p]
    BY <1>1, <2>1
  <2> QED
    BY <1>1, <2>1, <2>2, <2>3
<1>5. CASE Ack
  <2>1. p \in batch /\ fate[p] \in Stored => fate'[p] = "acked"
    BY <1>1, <1>5 DEF Ack, UpdateByIDs, Rows, LeaseInv
  <2>2. fate'[p] \in {fate[p], "acked"} /\ batch' = {} /\ faults' = faults
    BY <1>1, <1>5 DEF Ack, UpdateByIDs, BatchDone
  <2> QED
    BY <1>1, <2>1, <2>2
<1>6. CASE Nack
  <2>1. fate[p] \notin Outstanding => fate'[p] = fate[p]
    BY <1>1, <1>6 DEF Nack, UpdateByIDs, Rows, LeaseInv
  <2>2. fate'[p] # "new" /\ batch' = {} /\ faults' = faults /\ pc = "nacking"
    BY <1>1, <1>6 DEF Nack, UpdateByIDs, BatchDone
  <2> QED
    BY <1>1, <2>1, <2>2
<1>7. CASE AckOrNackFails \/ Crash
  BY <1>1, <1>7 DEF AckOrNackFails, Crash
<1>8. CASE LeaseExpires
  BY <1>1, <1>8 DEF LeaseExpires, uploaderVars, LeaseInv, TypeOK
<1>9. CASE PruneAcked
  BY <1>1, <1>9 DEF PruneAcked, Delete, uploaderVars
<1>10. CASE Restart
  BY <1>1, <1>10 DEF Restart, uploaderVars
<1>11. CASE UNCHANGED vars
  BY <1>1, <1>11 DEF vars, uploaderVars
<1> QED
  BY <1>2, <1>3, <1>4, <1>5, <1>6, <1>7, <1>8, <1>9, <1>10, <1>11 DEF Next, EnqueueCall

\* Every step keeps the counts, because each time that a point without a key is
\* taken again an answer or an ack has been lost.
LEMMA CountStep == CountInv /\ LeaseInv' /\ FileTypes' /\ [FileNext]_fileVars => CountInv'
<1> SUFFICES ASSUME CountInv, LeaseInv', FileTypes', [FileNext]_fileVars
             PROVE  LegacyIsOld' /\ \A p \in Events : CountFits(p)'
  BY DEF CountInv
<1> USE DEF CountInv
\* The steps that send nothing.
<1>1. ASSUME UNCHANGED <<counted, lost>>, [Next]_vars, ~ SendOk, ~ SendFails
      PROVE  LegacyIsOld' /\ \A p \in Events : CountFits(p)'
  <2>1. LegacyIsOld'
    BY <1>1, SpentStays DEF LegacyIsOld
  <2>2. ASSUME NEW p \in Events PROVE CountFits(p)'
    <3>1. CASE p \in Legacy
      BY <1>1, <3>1, SpentStays, CountStays
    <3>2. CASE p \notin Legacy
      BY <1>1, <3>2 DEF CountFits
    <3> QED
      BY <3>1, <3>2
  <2> QED
    BY <2>1, <2>2
<1>2. ASSUME UNCHANGED <<counted, lost, fate, batch, pc>>,
             faults' = faults \/ faults' = faults + 1
      PROVE  LegacyIsOld' /\ \A p \in Events : CountFits(p)'
  <2>1. LegacyIsOld'
    BY <1>2 DEF LegacyIsOld
  <2>2. ASSUME NEW p \in Events PROVE CountFits(p)'
    <3>1. Spent(p) => Spent(p)'
      BY <1>2 DEF Spent
    <3> QED
      BY <1>2, <3>1, CountStays
  <2> QED
    BY <2>1, <2>2
<1>3. ASSUME NEW S \in Batches, EnqueueMetrics(S) \/ EnqueueMetricsRefused(S)
      PROVE  LegacyIsOld' /\ \A p \in Events : CountFits(p)'
  <2>1. UNCHANGED <<counted, lost, pc>> /\ (Enqueue(S) \/ EnqueueRefused(S))
    BY <1>3 DEF EnqueueMetrics, EnqueueMetricsRefused, backend, Enqueue, EnqueueRefused,
       uploaderVars
  <2>2. ~ SendOk /\ ~ SendFails
    BY <2>1 DEF SendOk, SendFails
  <2> QED
    BY <1>1, <2>1, <2>2 DEF Next, EnqueueCall
<1>4. ASSUME NEW n \in 1 .. MaxEnqueue, EnqueueEvents(n)
      PROVE  LegacyIsOld' /\ \A p \in Events : CountFits(p)'
  BY <1>2, <1>4 DEF EnqueueEvents, backend, uploaderVars
<1>5. CASE UpsertSession \/ OthersPruned \/ UNCHANGED fileVars
  BY <1>2, <1>5 DEF UpsertSession, OthersPruned, fileVars, vars, backend, uploaderVars
<1>6. CASE SendMetricsOk \/ SendMetricsFails
  <2>1. /\ Takes \/ counted' = counted
        /\ UNCHANGED <<fate, batch, faults>> /\ pc = "sending"
        /\ \/ lost' = lost + 1 /\ pc' = "nacking"
           \/ lost' = lost /\ pc' = "acking"
           \/ lost' = lost /\ pc' = "nacking" /\ counted' = counted
    BY <1>6 DEF SendMetricsOk, SendMetricsFails, SendOk, SendFails, backend
  <2>2. LegacyIsOld'
    BY <2>1 DEF LegacyIsOld
  <2>3. ASSUME NEW p \in Events PROVE CountFits(p)'
    <3>1. counted[p] \in Nat /\ lost \in Nat /\ faults \in Nat
      BY DEF FileTypes, LeaseInv, TypeOK
    <3>2. /\ counted'[p] \in {counted[p], counted[p] + 1}
          /\ p \notin batch => counted'[p] = counted[p]
          /\ p \notin Legacy /\ counted[p] <= 1 => counted'[p] <= 1
      BY <2>1, <3>1, TakesCounts
    <3>3. CASE p \notin Legacy
      BY <3>2, <3>3 DEF CountFits
    <3>4. CASE p \in Legacy /\ p \in batch
      <4>1. counted[p] <= lost + faults
        <5>1. ~ Spent(p)
          BY <2>1, <3>4 DEF Spent
        <5> QED
          BY <3>1, <3>4, <5>1 DEF CountFits
      <4>2. CASE lost' = lost + 1
        BY <2>1, <3>1, <3>2, <3>4, <4>1, <4>2 DEF CountFits
      <4>3. CASE lost' = lost /\ pc' = "acking"
        BY <2>1, <3>1, <3>2, <3>4, <4>1, <4>3 DEF CountFits, Spent
      <4>4. CASE lost' = lost /\ counted' = counted
        BY <2>1, <3>1, <3>4, <4>1, <4>4 DEF CountFits
      <4> QED
        BY <2>1, <4>2, <4>3, <4>4
    <3>5. CASE p \in Legacy /\ p \notin batch
      <4>1. Spent(p)' <=> Spent(p)
        BY <2>1, <3>5 DEF Spent
      <4>2. counted'[p] = counted[p] /\ lost' \in {lost, lost + 1} /\ faults' = faults
        BY <2>1, <3>2, <3>5
      <4> QED
        BY <3>1, <3>5, <4>1, <4>2 DEF CountFits
    <3> QED
      BY <3>3, <3>4, <3>5
  <2> QED
    BY <2>2, <2>3
<1>7. CASE \/ LeaseMetricsBatch \/ AckMetrics \/ NackMetrics \/ MetricsWriteFails
           \/ MetricsLeaseExpires \/ PruneAckedMetrics \/ DaemonDies \/ DaemonRestarts
  <2>1. UNCHANGED <<counted, lost>>
    BY <1>7 DEF LeaseMetricsBatch, AckMetrics, NackMetrics, MetricsWriteFails,
       MetricsLeaseExpires, PruneAckedMetrics, DaemonDies, DaemonRestarts, backend
  <2>2. \/ Lease \/ Ack \/ Nack \/ AckOrNackFails \/ LeaseExpires \/ PruneAcked \/ Crash
        \/ Restart
    BY <1>7 DEF LeaseMetricsBatch, AckMetrics, NackMetrics, MetricsWriteFails,
       MetricsLeaseExpires, PruneAckedMetrics, DaemonDies, DaemonRestarts
  <2>3. ~ SendOk /\ ~ SendFails
    BY <2>2 DEF SendOk, SendFails, Lease, Ack, Nack, AckOrNackFails, LeaseExpires, PruneAcked,
       Crash, Restart, BatchDone, uploaderVars
  <2> QED
    BY <1>1, <2>1, <2>2, <2>3 DEF Next
<1> QED
  BY <1>3, <1>4, <1>5, <1>6, <1>7 DEF FileNext

\* However often its row is leased and sent, a point with a key is counted once,
\* and one without once more for each answer that was lost and each failure.
THEOREM PointsAreCountedOnce == FileSpec => []CountedOnce
<1>1. FileInit => FileInv /\ CountInv
  <2> SUFFICES ASSUME FileInit, LeaseInv, FileTypes
               PROVE  FileInv /\ LegacyIsOld /\ \A p \in Events : CountFits(p)
    BY FileTypeInit DEF CountInv
  <2>1. FileInv
    BY FileInvInit
  <2>2. LegacyIsOld
    BY QueueFileAssumption DEF FileInit, LegacyIsOld, QueueFileAssumption
  <2>3. ASSUME NEW p \in Events PROVE CountFits(p)
    <3>1. counted[p] = 0 /\ lost = 0 /\ faults = 0
      BY DEF FileInit
    <3> QED
      BY <3>1 DEF CountFits
  <2> QED
    BY <2>1, <2>2, <2>3
<1>2. FileInv /\ CountInv /\ [FileNext]_fileVars => FileInv' /\ CountInv'
  <2>1. LeaseInv' => TypeOK'
    BY DEF LeaseInv
  <2>2. CountInv => LeaseInv
    BY DEF CountInv
  <2>3. FileInv' => FileTypes'
    BY DEF FileInv
  <2> QED
    BY <2>1, <2>2, <2>3, FileStep, FileLeaseStep, CountStep
<1>3. CountInv => CountedOnce
  <2> SUFFICES ASSUME CountInv, NEW p \in Events
               PROVE  counted[p] <= 1 + IF p \in Legacy THEN lost + faults ELSE 0
    BY DEF CountedOnce
  <2>1. counted[p] \in Nat /\ lost \in Nat /\ faults \in Nat /\ CountFits(p)
    BY DEF CountInv, FileTypes, LeaseInv, TypeOK
  <2> QED
    BY <2>1 DEF CountFits
<1> QED
  BY <1>1, <1>2, <1>3, PTL DEF FileSpec
=============================================================================

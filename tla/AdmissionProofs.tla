--------------------------- MODULE AdmissionProofs ---------------------------
(***************************************************************************)
(* Admission is bounded for every set of producers, every set of records,  *)
(* every size and every capacity.                                          *)
(*                                                                         *)
(* The inductive invariant is GaugesExact together with the bound: a       *)
(* producer decides on the previous value of a gauge, so the bound can be  *)
(* preserved only if the gauge is known to count everything that is held.  *)
(***************************************************************************)
EXTENDS Admission, FiniteSetTheorems, TLAPS

(* The type invariant without the sign of the gauges, which needs GaugesExact. *)
TypeInt ==
    /\ phase \in [Log -> Phase]
    /\ thread \in [Log -> Producer \cup {None}]
    /\ queue \in [Log -> Queue]
    /\ failure \in [Log -> Failure \cup {None}]
    /\ depth \in [Queue -> Int]
    /\ bytes \in [Queue -> Int]
    /\ next_ticket \in Nat
    /\ ticket \in [Log -> Nat]

IInv == TypeInt /\ GaugesExact /\ CapacityRespected

-----------------------------------------------------------------------------
(* Sums of sizes as cardinalities.                                         *)

(* The bytes of one record are Size[r] units. *)
LEMMA BytesOfCardinality ==
    ASSUME NEW r \in Log
    PROVE  IsFiniteSet(BytesOf(r)) /\ Cardinality(BytesOf(r)) = Size[r]
<1> DEFINE n == Size[r]
<1>1. n \in Nat
  BY AdmissionAssumption
<1> HIDE DEF n
<1>2. IsFiniteSet(1 .. n) /\ Cardinality(1 .. n) = n
  BY <1>1, FS_Interval
<1>3. IsFiniteSet({r}) /\ Cardinality({r}) = 1
  BY FS_Singleton
<1>4. /\ IsFiniteSet({r} \X (1 .. n))
      /\ Cardinality({r} \X (1 .. n)) = Cardinality({r}) * Cardinality(1 .. n)
  BY <1>2, <1>3, FS_Product
<1>5. IsFiniteSet({r} \X (1 .. n)) /\ Cardinality({r} \X (1 .. n)) = n
  BY <1>1, <1>2, <1>3, <1>4
<1>6. QED
  BY <1>5 DEF BytesOf, n

(* The bytes of any set of records can be counted. *)
LEMMA UnitsFinite ==
    ASSUME NEW S \in SUBSET Log
    PROVE  IsFiniteSet(S) /\ IsFiniteSet(Units(S)) /\ Cardinality(Units(S)) \in Nat
<1>1. IsFiniteSet(S)
  BY AdmissionAssumption, FS_Subset
<1> DEFINE T == {BytesOf(r) : r \in S}
<1> DEFINE f == [r \in S |-> BytesOf(r)]
<1>2. f \in Surjection(S, T)
  BY DEF Surjection
<1>3. IsFiniteSet(T)
  BY <1>1, <1>2, FS_Surjection
<1>4. \A U \in T : IsFiniteSet(U)
  BY BytesOfCardinality
<1>5. IsFiniteSet(UNION T)
  BY <1>3, <1>4, FS_UNION
<1>6. QED
  BY <1>1, <1>5, FS_CardinalityType DEF Units

(* Adding a record adds its size. *)
LEMMA UnitsAdd ==
    ASSUME NEW S \in SUBSET Log, NEW r \in Log, r \notin S
    PROVE  Cardinality(Units(S \cup {r})) = Cardinality(Units(S)) + Size[r]
<1>1. Units(S \cup {r}) = Units(S) \cup BytesOf(r)
  BY DEF Units
<1>2. Units(S) \cap BytesOf(r) = {}
  BY DEF Units, BytesOf
<1>3. Cardinality(Units(S) \cap BytesOf(r)) = 0
  BY <1>2, FS_EmptySet
<1>4. Size[r] \in Nat
  BY AdmissionAssumption
<1>5. Cardinality(Units(S) \cup BytesOf(r))
        = Cardinality(Units(S)) + Cardinality(BytesOf(r)) - Cardinality(Units(S) \cap BytesOf(r))
  BY UnitsFinite, BytesOfCardinality, FS_Union
<1>6. Cardinality(Units(S)) \in Nat /\ Cardinality(BytesOf(r)) = Size[r]
  BY UnitsFinite, BytesOfCardinality
<1>7. Cardinality(Units(S \cup {r})) = Cardinality(Units(S) \cup BytesOf(r))
  BY <1>1, Zenon
<1>8. QED
  BY <1>3, <1>4, <1>5, <1>6, <1>7

(* Removing a record removes its size. *)
LEMMA UnitsRemove ==
    ASSUME NEW S \in SUBSET Log, NEW r \in S
    PROVE  Cardinality(Units(S \ {r})) = Cardinality(Units(S)) - Size[r]
<1>1. (S \ {r}) \cup {r} = S
  OBVIOUS
<1> DEFINE T == S \ {r}
<1>2. Cardinality(Units(T \cup {r})) = Cardinality(Units(T)) + Size[r]
  <2>1. T \in SUBSET Log /\ r \in Log /\ r \notin T
    OBVIOUS
  <2> HIDE DEF T
  <2>2. QED
    BY <2>1, UnitsAdd
<1>3. Size[r] \in Nat /\ Cardinality(Units(T)) \in Nat
  BY AdmissionAssumption, UnitsFinite
<1>4. Cardinality(Units(T \cup {r})) = Cardinality(Units(S))
  BY <1>1, Zenon
<1>5. QED
  BY <1>2, <1>3, <1>4

(* Fewer records hold no more slots and no more bytes. *)
LEMMA UnitsMonotone ==
    ASSUME NEW T \in SUBSET Log, NEW S \in SUBSET T
    PROVE  /\ Cardinality(S) \in Nat /\ Cardinality(T) \in Nat
           /\ Cardinality(S) <= Cardinality(T)
           /\ Cardinality(Units(S)) \in Nat /\ Cardinality(Units(T)) \in Nat
           /\ Cardinality(Units(S)) <= Cardinality(Units(T))
<1>1. IsFiniteSet(S) /\ IsFiniteSet(T) /\ IsFiniteSet(Units(T)) /\ IsFiniteSet(Units(S))
  BY UnitsFinite
<1>2. Units(S) \subseteq Units(T)
  BY DEF Units
<1>3. QED
  BY <1>1, <1>2, FS_Subset, FS_CardinalityType
-----------------------------------------------------------------------------
(* How one step moves one record in and out of the sets the gauges count.  *)

RecordWeight(ph) == IF ph \in CountsAsRecord THEN 1 ELSE 0
ByteWeight(r, ph) == IF ph \in CountsAsBytes THEN Size[r] ELSE 0

OnlyMoves(r) == \A s \in Log \ {r} : phase'[s] = phase[s] /\ queue'[s] = queue[s]

(* A step of one record only moves that record in or out of a set. *)
LEMMA InStep ==
    ASSUME NEW r \in Log, OnlyMoves(r), NEW CONSTANT q, NEW CONSTANT phases
    PROVE  In(q, phases)' = IF queue'[r] = q /\ phase'[r] \in phases
                            THEN In(q, phases) \cup {r}
                            ELSE In(q, phases) \ {r}
  BY DEF OnlyMoves, In

(* The records a gauge counts are records. *)
LEMMA InType == \A q, phases : In(q, phases) \in SUBSET Log
  BY DEF In

(* A record slot is counted by its queue's gauge, before and after. *)
LEMMA DepthStep ==
    ASSUME TypeInt, GaugesExact, NEW r \in Log, OnlyMoves(r), NEW CONSTANT q \in Queue,
           queue'[r] # queue[r] => phase'[r] \notin CountsAsRecord,
           depth'[q] = IF queue[r] = q THEN depth[q] + RecordWeight(phase'[r]) - RecordWeight(phase[r])
                                       ELSE depth[q]
    PROVE  depth'[q] = Cardinality(In(q, CountsAsRecord)')
<1> DEFINE S == In(q, CountsAsRecord)
<1>1. S \in SUBSET Log /\ IsFiniteSet(S) /\ Cardinality(S) \in Nat /\ depth[q] = Cardinality(S)
  <2>1. S \in SUBSET Log
    BY InType
  <2> HIDE DEF S
  <2>2. IsFiniteSet(S) /\ Cardinality(S) \in Nat
    BY <2>1, UnitsFinite, FS_CardinalityType
  <2>3. depth[q] = Cardinality(S)
    BY DEF GaugesExact, S
  <2>4. QED
    BY <2>1, <2>2, <2>3
<1>2. r \in S <=> queue[r] = q /\ phase[r] \in CountsAsRecord
  BY DEF In
<1>3. S' = IF queue'[r] = q /\ phase'[r] \in CountsAsRecord THEN S \cup {r} ELSE S \ {r}
  BY InStep
<1> HIDE DEF S
<1>4. /\ Cardinality(S \cup {r}) = IF r \in S THEN Cardinality(S) ELSE Cardinality(S) + 1
      /\ Cardinality(S \ {r}) = IF r \in S THEN Cardinality(S) - 1 ELSE Cardinality(S)
  BY <1>1, FS_AddElement, FS_RemoveElement
<1>5. depth'[q] = IF queue[r] = q THEN depth[q] + RecordWeight(phase'[r]) - RecordWeight(phase[r])
                                  ELSE depth[q]
  OBVIOUS
<1>6. CASE queue'[r] = q /\ phase'[r] \in CountsAsRecord
  <2>1. queue[r] = q
    BY <1>6
  <2>2. Cardinality(S') = Cardinality(S \cup {r})
    BY <1>3, <1>6, Zenon
  <2>3. QED
    BY <1>1, <1>2, <1>4, <1>5, <1>6, <2>1, <2>2 DEF RecordWeight, S
<1>7. CASE ~(queue'[r] = q /\ phase'[r] \in CountsAsRecord)
  <2>1. Cardinality(S') = Cardinality(S \ {r})
    BY <1>3, <1>7, Zenon
  <2>2. queue[r] = q => phase'[r] \notin CountsAsRecord
    BY <1>7
  <2>3. QED
    BY <1>1, <1>2, <1>4, <1>5, <2>1, <2>2 DEF RecordWeight, S
<1>8. QED
  BY <1>6, <1>7

(* The same for bytes. *)
LEMMA BytesStep ==
    ASSUME TypeInt, GaugesExact, NEW r \in Log, OnlyMoves(r), NEW CONSTANT q \in Queue,
           queue'[r] # queue[r] => phase'[r] \notin CountsAsBytes,
           bytes'[q] = IF queue[r] = q THEN bytes[q] + ByteWeight(r, phase'[r]) - ByteWeight(r, phase[r])
                                       ELSE bytes[q]
    PROVE  bytes'[q] = Cardinality(Units(In(q, CountsAsBytes)'))
<1> DEFINE S == In(q, CountsAsBytes)
<1>1. S \in SUBSET Log /\ Cardinality(Units(S)) \in Nat /\ bytes[q] = Cardinality(Units(S))
  <2>1. S \in SUBSET Log
    BY InType
  <2>2. bytes[q] = Cardinality(Units(S))
    BY DEF GaugesExact
  <2> HIDE DEF S
  <2>3. Cardinality(Units(S)) \in Nat
    BY <2>1, UnitsFinite
  <2>4. QED
    BY <2>1, <2>2, <2>3
<1>2. r \in S <=> queue[r] = q /\ phase[r] \in CountsAsBytes
  BY DEF In
<1>3. S' = IF queue'[r] = q /\ phase'[r] \in CountsAsBytes THEN S \cup {r} ELSE S \ {r}
  BY InStep
<1> HIDE DEF S
<1>4. Cardinality(Units(S \cup {r}))
        = IF r \in S THEN Cardinality(Units(S)) ELSE Cardinality(Units(S)) + Size[r]
  <2>1. CASE r \in S
    <3>1. S \cup {r} = S
      BY <2>1
    <3>2. QED
      BY <2>1, <3>1, Zenon
  <2>2. CASE r \notin S
    BY <2>2, <1>1, UnitsAdd
  <2>3. QED
    BY <2>1, <2>2
<1>5. Cardinality(Units(S \ {r}))
        = IF r \in S THEN Cardinality(Units(S)) - Size[r] ELSE Cardinality(Units(S))
  <2>1. CASE r \in S
    BY <2>1, <1>1, UnitsRemove
  <2>2. CASE r \notin S
    <3>1. S \ {r} = S
      BY <2>2
    <3>2. QED
      BY <2>2, <3>1, Zenon
  <2>3. QED
    BY <2>1, <2>2
<1>6. bytes'[q] = IF queue[r] = q THEN bytes[q] + ByteWeight(r, phase'[r]) - ByteWeight(r, phase[r])
                                  ELSE bytes[q]
  OBVIOUS
<1>7. Size[r] \in Nat
  BY AdmissionAssumption
<1>8. CASE queue'[r] = q /\ phase'[r] \in CountsAsBytes
  <2>1. queue[r] = q
    BY <1>8
  <2>2. Cardinality(Units(S')) = Cardinality(Units(S \cup {r}))
    BY <1>3, <1>8, Zenon
  <2>3. QED
    BY <1>1, <1>2, <1>4, <1>6, <1>7, <1>8, <2>1, <2>2 DEF ByteWeight, S
<1>9. CASE ~(queue'[r] = q /\ phase'[r] \in CountsAsBytes)
  <2>1. Cardinality(Units(S')) = Cardinality(Units(S \ {r}))
    BY <1>3, <1>9, Zenon
  <2>2. queue[r] = q => phase'[r] \notin CountsAsBytes
    BY <1>9
  <2>3. QED
    BY <1>1, <1>2, <1>5, <1>6, <1>7, <2>1, <2>2 DEF ByteWeight, S
<1>10. QED
  BY <1>8, <1>9
-----------------------------------------------------------------------------
(* Every action moves one record and changes the gauges by the weights of  *)
(* the phases it leaves and enters.                                        *)

Moves(r) ==
    /\ OnlyMoves(r)
    /\ queue'[r] # queue[r] => phase'[r] \notin CountsAsRecord \cup CountsAsBytes
    /\ \A q \in Queue :
          /\ depth'[q] = IF queue[r] = q THEN depth[q] + RecordWeight(phase'[r]) - RecordWeight(phase[r])
                                         ELSE depth[q]
          /\ bytes'[q] = IF queue[r] = q THEN bytes[q] + ByteWeight(r, phase'[r]) - ByteWeight(r, phase[r])
                                         ELSE bytes[q]

(* The local part of a failed claim leaves the record uncounted. *)
LEMMA RefuseMoves ==
    ASSUME TypeInt, NEW r \in Log, NEW f \in Failure, Refuse(r, f)
    PROVE  /\ phase' \in [Log -> Phase] /\ queue' \in [Log -> Queue]
           /\ failure' \in [Log -> Failure \cup {None}]
           /\ OnlyMoves(r)
           /\ phase'[r] \in {"claim_bytes"} \cup Dropped
  BY DEF TypeInt, Refuse, OnlyMoves, SubmitResult, Combine, Phase, Dropped, Queue, Failure, Claiming

(* A step that keeps its queue only changes its own phase. *)
LEMMA GotoMoves ==
    ASSUME TypeInt, NEW r \in Log, NEW next \in Phase, Goto(r, next)
    PROVE  /\ phase' \in [Log -> Phase] /\ queue' \in [Log -> Queue]
           /\ failure' \in [Log -> Failure \cup {None}]
           /\ OnlyMoves(r)
           /\ phase'[r] = next /\ queue'[r] = queue[r]
  BY DEF TypeInt, Goto, OnlyMoves

(* Every action moves one record and changes the gauges with it. *)
LEMMA ActionMoves ==
    ASSUME TypeInt, NEW r \in Log, (\E p \in Producer : Submit(p, r)) \/ Step(r)
    PROVE  TypeInt' /\ Moves(r)
<1>0. Size[r] \in Nat /\ queue[r] \in Queue
  BY AdmissionAssumption DEF TypeInt
<1> USE DEF CountsAsRecord, CountsAsBytes, Granted, Dropped, Claiming, RecordWeight, ByteWeight
<1>1. CASE \E p \in Producer : Submit(p, r)
  <2>1. PICK p \in Producer : Submit(p, r)
    BY <1>1
  <2>2. Goto(r, "claim_bytes") /\ phase[r] = "fresh"
    BY <2>1 DEF Submit
  <2>3. QED
    BY <1>0, <2>1, <2>2, GotoMoves DEF Submit, TypeInt, Moves, Phase
<1>2. CASE ClaimBytes(r)
  <2> DEFINE q == queue[r]
  <2>1. phase[r] = "claim_bytes"
    BY <1>2 DEF ClaimBytes
  <2>2. CASE Refuse(r, "Bytes") /\ UNCHANGED bytes
    BY <1>0, <1>2, <2>1, <2>2, RefuseMoves DEF ClaimBytes, TypeInt, Moves, Failure
  <2>3. CASE /\ Goto(r, "claim_record") \/ Goto(r, "undo_bytes")
             /\ bytes' = [bytes EXCEPT ![q] = @ + Size[r]]
    BY <1>0, <1>2, <2>1, <2>3, GotoMoves DEF ClaimBytes, TypeInt, Moves, Phase
  <2>4. QED
    BY <1>2, <2>2, <2>3 DEF ClaimBytes
<1>3. CASE UndoBytes(r)
  BY <1>0, <1>3, RefuseMoves DEF UndoBytes, TypeInt, Moves, Failure
<1>4. CASE ClaimRecord(r)
  <2> DEFINE q == queue[r]
  <2>1. phase[r] = "claim_record"
    BY <1>4 DEF ClaimRecord
  <2>2. CASE Goto(r, "refund_bytes") /\ UNCHANGED depth
    BY <1>0, <1>4, <2>1, <2>2, GotoMoves DEF ClaimRecord, TypeInt, Moves, Phase
  <2>3. CASE /\ Goto(r, "ticket") \/ Goto(r, "undo_record")
             /\ depth' = [depth EXCEPT ![q] = @ + 1]
    BY <1>0, <1>4, <2>1, <2>3, GotoMoves DEF ClaimRecord, TypeInt, Moves, Phase
  <2>4. QED
    BY <1>4, <2>2, <2>3 DEF ClaimRecord
<1>5. CASE UndoRecord(r)
  BY <1>0, <1>5, GotoMoves DEF UndoRecord, TypeInt, Moves, Phase
<1>6. CASE RefundBytes(r)
  BY <1>0, <1>6, RefuseMoves DEF RefundBytes, TypeInt, Moves, Failure
<1>7. CASE TakeTicket(r)
  BY <1>0, <1>7, GotoMoves DEF TakeTicket, TypeInt, Moves, Phase
<1>8. CASE Push(r)
  BY <1>0, <1>8, GotoMoves DEF Push, TypeInt, Moves, Phase
<1>9. CASE ReleaseRecord(r)
  BY <1>0, <1>9, GotoMoves DEF ReleaseRecord, TypeInt, Moves, Phase
<1>10. CASE ReleaseBytes(r)
  BY <1>0, <1>10, GotoMoves DEF ReleaseBytes, TypeInt, Moves, Phase
<1>11. QED
  BY <1>1, <1>2, <1>3, <1>4, <1>5, <1>6, <1>7, <1>8, <1>9, <1>10 DEF Step
-----------------------------------------------------------------------------
(* So a step that moves one record keeps both gauges exact. *)
LEMMA GaugesPreserved ==
    ASSUME TypeInt, GaugesExact, NEW r \in Log, Moves(r)
    PROVE  GaugesExact'
<1> SUFFICES ASSUME NEW CONSTANT q \in Queue
             PROVE  /\ depth'[q] = Cardinality(In(q, CountsAsRecord)')
                    /\ bytes'[q] = Cardinality(Units(In(q, CountsAsBytes)'))
  BY DEF GaugesExact, In, CountsAsRecord, CountsAsBytes, Granted
<1>1. depth'[q] = Cardinality(In(q, CountsAsRecord)')
  BY DepthStep DEF Moves
<1>2. bytes'[q] = Cardinality(Units(In(q, CountsAsBytes)'))
  BY BytesStep DEF Moves
<1>3. QED
  BY <1>1, <1>2

(* A step that grants nothing leaves no more granted than before. *)
LEMMA NothingGranted ==
    ASSUME CapacityRespected, NEW CONSTANT q \in Queue,
           In(q, Granted)' \subseteq In(q, Granted)
    PROVE  Cardinality(In(q, Granted)') <= RecordCapacity[q]
<1> DEFINE S == In(q, Granted)'
<1> DEFINE T == In(q, Granted)
<1>1. S \in SUBSET T /\ T \in SUBSET Log
  BY InType
<1>2. Cardinality(T) <= RecordCapacity[q] /\ RecordCapacity[q] \in Nat
  BY AdmissionAssumption DEF CapacityRespected
<1> HIDE DEF S, T
<1>3. Cardinality(S) <= Cardinality(T) /\ Cardinality(S) \in Nat /\ Cardinality(T) \in Nat
  BY <1>1, UnitsMonotone
<1>4. Cardinality(S) <= RecordCapacity[q]
  BY <1>2, <1>3
<1>5. QED
  BY <1>4 DEF S

(* The same for bytes. *)
LEMMA NoBytesGranted ==
    ASSUME CapacityRespected, NEW CONSTANT q \in Queue,
           In(q, GrantedBytes)' \subseteq In(q, GrantedBytes)
    PROVE  Cardinality(Units(In(q, GrantedBytes)')) <= ByteCapacity[q]
<1> DEFINE S == In(q, GrantedBytes)'
<1> DEFINE T == In(q, GrantedBytes)
<1>1. S \in SUBSET T /\ T \in SUBSET Log
  BY InType
<1>2. Cardinality(Units(T)) <= ByteCapacity[q] /\ ByteCapacity[q] \in Nat
  BY AdmissionAssumption DEF CapacityRespected
<1> HIDE DEF S, T
<1>3. /\ Cardinality(Units(S)) <= Cardinality(Units(T))
      /\ Cardinality(Units(S)) \in Nat /\ Cardinality(Units(T)) \in Nat
  BY <1>1, UnitsMonotone
<1>4. Cardinality(Units(S)) <= ByteCapacity[q]
  BY <1>2, <1>3
<1>5. QED
  BY <1>4 DEF S

(* A slot is granted on a previous value that counted all granted slots. *)
LEMMA SlotGranted ==
    ASSUME TypeInt, TypeInt', GaugesExact', NEW r \in Log, ClaimRecord(r),
           NEW CONSTANT q \in Queue, q = queue[r],
           Room(depth[q], RecordCapacity[q], 1)
    PROVE  Cardinality(In(q, Granted)') <= RecordCapacity[q]
<1> DEFINE S == In(q, Granted)'
<1> DEFINE T == In(q, CountsAsRecord)'
<1>1. q \in Queue
  OBVIOUS
<1>2. depth'[q] = depth[q] + 1 /\ depth[q] <= RecordCapacity[q] - 1
  BY <1>1 DEF ClaimRecord, Room, TypeInt
<1>3. depth'[q] = Cardinality(T)
  BY <1>1 DEF GaugesExact, In, CountsAsRecord, Granted
<1>4. S \in SUBSET T /\ T \in SUBSET Log
  BY DEF In, CountsAsRecord
<1>5. RecordCapacity[q] \in Nat /\ depth[q] \in Int
  BY <1>1, AdmissionAssumption DEF TypeInt
<1> HIDE DEF S, T
<1>6. Cardinality(S) <= Cardinality(T) /\ Cardinality(S) \in Nat
  BY <1>4, UnitsMonotone
<1>7. Cardinality(S) <= RecordCapacity[q]
  BY <1>2, <1>3, <1>5, <1>6
<1>8. QED
  BY <1>7 DEF S

(* Bytes are granted on a previous value that counted all granted bytes. *)
LEMMA BytesGranted ==
    ASSUME TypeInt, TypeInt', GaugesExact', NEW r \in Log, ClaimBytes(r),
           NEW CONSTANT q \in Queue, q = queue[r],
           Size[r] <= ByteCapacity[q],
           Room(bytes[q], ByteCapacity[q], Size[r])
    PROVE  Cardinality(Units(In(q, GrantedBytes)')) <= ByteCapacity[q]
<1> DEFINE S == In(q, GrantedBytes)'
<1> DEFINE T == In(q, CountsAsBytes)'
<1>1. q \in Queue /\ ByteCapacity[q] \in Nat /\ bytes[q] \in Int /\ Size[r] \in Nat
  BY AdmissionAssumption DEF TypeInt
<1>2. bytes'[q] = bytes[q] + Size[r] /\ bytes[q] <= ByteCapacity[q] - Size[r]
  BY <1>1 DEF ClaimBytes, Room, TypeInt
<1>3. bytes'[q] = Cardinality(Units(T))
  BY <1>1 DEF GaugesExact, In, CountsAsBytes, Granted
<1>4. S \in SUBSET T /\ T \in SUBSET Log
  BY DEF In, CountsAsBytes, GrantedBytes
<1> HIDE DEF S, T
<1>5. Cardinality(Units(S)) <= Cardinality(Units(T)) /\ Cardinality(Units(S)) \in Nat
  BY <1>4, UnitsMonotone
<1>6. Cardinality(Units(S)) <= ByteCapacity[q]
  BY <1>1, <1>2, <1>3, <1>5
<1>7. QED
  BY <1>6 DEF S
-----------------------------------------------------------------------------
(* What a step grants.  Only the two claims add to what is granted.        *)
LEMMA OnlyClaimsGrant ==
    ASSUME TypeInt, TypeInt', NEW r \in Log, Moves(r), NEW CONSTANT q \in Queue,
           (\E p \in Producer : Submit(p, r)) \/ Step(r)
    PROVE  /\ \/ In(q, Granted)' \subseteq In(q, Granted)
              \/ /\ ClaimRecord(r) /\ q = queue[r]
                 /\ Room(depth[q], RecordCapacity[q], 1)
           /\ \/ In(q, GrantedBytes)' \subseteq In(q, GrantedBytes)
              \/ /\ ClaimBytes(r) /\ q = queue[r] /\ Size[r] <= ByteCapacity[q]
                 /\ Room(bytes[q], ByteCapacity[q], Size[r])
<1> DEFINE Enters(phases) == phase'[r] \in phases /\ ~(phase[r] \in phases)
<1>1. Enters(Granted) => ClaimRecord(r) /\ Room(depth[queue[r]], RecordCapacity[queue[r]], 1)
  BY DEF Step, Submit, ClaimBytes, UndoBytes, ClaimRecord, UndoRecord, RefundBytes, TakeTicket,
         Push, ReleaseRecord, ReleaseBytes, Goto, Refuse, SubmitResult, Combine, TypeInt, Granted
<1>2. Enters(GrantedBytes) =>
        /\ ClaimBytes(r) /\ Size[r] <= ByteCapacity[queue[r]]
        /\ Room(bytes[queue[r]], ByteCapacity[queue[r]], Size[r])
  BY DEF Step, Submit, ClaimBytes, UndoBytes, ClaimRecord, UndoRecord, RefundBytes, TakeTicket,
         Push, ReleaseRecord, ReleaseBytes, Goto, Refuse, SubmitResult, Combine, TypeInt, Granted, GrantedBytes
<1>3. queue'[r] # queue[r] => phase'[r] \notin Granted /\ phase'[r] \notin GrantedBytes
  BY DEF Moves, CountsAsRecord, CountsAsBytes, Granted, GrantedBytes
<1>4. QED
  BY <1>1, <1>2, <1>3 DEF Moves, OnlyMoves, In

(* The step case of the invariant. *)
LEMMA StepPreserves ==
    ASSUME IInv, NEW r \in Log, (\E p \in Producer : Submit(p, r)) \/ Step(r)
    PROVE  IInv'
<1>1. TypeInt' /\ Moves(r)
  BY ActionMoves DEF IInv
<1>2. GaugesExact'
  BY <1>1, GaugesPreserved DEF IInv
<1>3. CapacityRespected'
  <2> SUFFICES ASSUME NEW CONSTANT q \in Queue
               PROVE  /\ Cardinality(In(q, Granted)') <= RecordCapacity[q]
                      /\ Cardinality(Units(In(q, GrantedBytes)')) <= ByteCapacity[q]
    BY DEF CapacityRespected, In, Granted, GrantedBytes
  <2>1. Cardinality(In(q, Granted)') <= RecordCapacity[q]
    BY <1>1, <1>2, OnlyClaimsGrant, SlotGranted, NothingGranted DEF IInv
  <2>2. Cardinality(Units(In(q, GrantedBytes)')) <= ByteCapacity[q]
    BY <1>1, <1>2, OnlyClaimsGrant, BytesGranted, NoBytesGranted DEF IInv
  <2>3. QED
    BY <2>1, <2>2
<1>4. QED
  BY <1>1, <1>2, <1>3 DEF IInv

(* Nothing is claimed, counted or granted at the start. *)
LEMMA InitEstablishes == Init => IInv
<1> SUFFICES ASSUME Init PROVE IInv
  OBVIOUS
<1>1. TypeInt
  BY DEF Init, TypeInt, Phase, Queue
<1>2. \A q \in Queue : /\ In(q, CountsAsRecord) = {} /\ In(q, CountsAsBytes) = {}
                       /\ In(q, Granted) = {} /\ In(q, GrantedBytes) = {}
  BY DEF Init, In, CountsAsRecord, CountsAsBytes, Granted, GrantedBytes
<1>3. Units({}) = {} /\ Cardinality({}) = 0
  BY FS_EmptySet DEF Units
<1>4. GaugesExact
  BY <1>2, <1>3 DEF Init, GaugesExact
<1>5. CapacityRespected
  BY <1>2, <1>3, AdmissionAssumption, SMTT(40) DEF CapacityRespected
<1>6. QED
  BY <1>1, <1>4, <1>5 DEF IInv

(* The invariant is inductive: the step case, or a stutter. *)
LEMMA Inductive == IInv /\ [Next]_vars => IInv'
<1> SUFFICES ASSUME IInv, [Next]_vars PROVE IInv'
  OBVIOUS
<1>1. CASE Next
  BY <1>1, StepPreserves DEF Next
<1>2. CASE UNCHANGED vars
  <2>1. TypeInt'
    BY <1>2 DEF vars, IInv, TypeInt
  <2>2. phase' = phase /\ queue' = queue /\ depth' = depth /\ bytes' = bytes
    BY <1>2 DEF vars
  <2>3. GaugesExact' /\ CapacityRespected'
    BY <2>2, Zenon DEF IInv, GaugesExact, CapacityRespected, In
  <2>4. QED
    BY <2>1, <2>3 DEF IInv
<1>3. QED
  BY <1>1, <1>2

(* So it holds of every execution. *)
LEMMA Invariant == Spec => []IInv
  BY InitEstablishes, Inductive, PTL DEF Spec

(* The gauges are unsigned integers at every step of every execution: no   *)
(* release, undo or refund ever takes more than was added.                 *)
THEOREM GaugesNeverUnderflow == Spec => []TypeOK
<1>1. IInv => TypeOK
  <2> SUFFICES ASSUME IInv PROVE TypeOK
    OBVIOUS
  <2>1. \A q \in Queue : depth[q] \in Nat /\ bytes[q] \in Nat
    BY InType, UnitsFinite, FS_CardinalityType DEF IInv, GaugesExact
  <2>2. QED
    BY <2>1 DEF IInv, TypeInt, TypeOK
<1>2. QED
  BY <1>1, Invariant, PTL

(* The gauges the snapshot reports are exact at every step. *)
THEOREM GaugesAlwaysExact == Spec => []GaugesExact
<1>1. IInv => GaugesExact
  BY DEF IInv
<1>2. QED
  BY <1>1, Invariant, PTL

(* Memory held by accepted records is bounded by configuration alone. *)
THEOREM AdmissionIsBounded == Spec => []CapacityRespected
<1>1. IInv => CapacityRespected
  BY DEF IInv
<1>2. QED
  BY <1>1, Invariant, PTL
-----------------------------------------------------------------------------
(* The overshoot.  A producer runs one submission at a time, so the slots   *)
(* about to be undone are at most one for each producer inside a claim; and *)
(* a record whose bytes are about to be undone is no larger than the budget. *)

Submitting == Claiming \cup {"ticket", "push"}
OneSubmission ==
    /\ \A r \in Log : phase[r] \in Submitting => thread[r] \in Producer
    /\ \A r, s \in Log :
          phase[r] \in Submitting /\ phase[s] \in Submitting /\ thread[r] = thread[s] => r = s
    /\ \A r \in Log : phase[r] = "undo_bytes" => Size[r] <= ByteCapacity[queue[r]]

(* A submission begins on a thread that runs none, and ends once.           *)
LEMMA OneSubmissionStep ==
    ASSUME TypeInt, OneSubmission, NEW r \in Log, (\E p \in Producer : Submit(p, r)) \/ Step(r)
    PROVE  OneSubmission'
<1>1. CASE \E p \in Producer : Submit(p, r)
  <2>1. PICK p \in Producer : Submit(p, r)
    BY <1>1
  <2>2. /\ \A s \in Log : s # r => phase'[s] = phase[s] /\ thread'[s] = thread[s]
        /\ phase'[r] = "claim_bytes" /\ thread'[r] = p /\ UNCHANGED queue
    BY <2>1 DEF Submit, Goto, TypeInt
  <2>3. \A s \in Log : phase[s] \in Submitting => thread[s] # p
    BY <2>1 DEF Submit, Busy, Submitting
  <2>4. QED
    BY <2>2, <2>3 DEF OneSubmission, Submitting, Claiming
<1>2. CASE Step(r)
  <2>1. UNCHANGED thread /\ phase[r] \in Submitting \cup {"queued", "releasing"}
    BY <1>2 DEF Step, ClaimBytes, UndoBytes, ClaimRecord, UndoRecord, RefundBytes, TakeTicket, Push,
                ReleaseRecord, ReleaseBytes, Submitting, Claiming
  <2>2. \A s \in Log : s # r => phase'[s] = phase[s] /\ queue'[s] = queue[s]
    BY <1>2, ActionMoves DEF Moves, OnlyMoves
  <2>3. phase'[r] \in Submitting => phase[r] \in Submitting
    BY <1>2 DEF Step, ClaimBytes, UndoBytes, ClaimRecord, UndoRecord, RefundBytes, TakeTicket, Push,
                ReleaseRecord, ReleaseBytes, Submitting, Claiming, Goto, TypeInt
  <2>4. phase'[r] = "undo_bytes" => Size[r] <= ByteCapacity[queue'[r]]
    BY <1>2 DEF Step, ClaimBytes, UndoBytes, ClaimRecord, UndoRecord, RefundBytes, TakeTicket, Push,
                ReleaseRecord, ReleaseBytes, Goto, Refuse, SubmitResult, Combine, TypeInt
  <2>5. QED
    BY <2>1, <2>2, <2>3, <2>4 DEF OneSubmission
<1>3. QED
  BY <1>1, <1>2

BusyProducers == {p \in Producer : Busy(p)}

(* Records of different threads are no more than the threads.               *)
LEMMA NoMoreThanBusy ==
    ASSUME OneSubmission, NEW V \in SUBSET {r \in Log : phase[r] \in Submitting}
    PROVE  /\ Cardinality(V) \in Nat /\ Cardinality(BusyProducers) \in Nat
           /\ Cardinality(V) <= Cardinality(BusyProducers)
           /\ IsFiniteSet(V) /\ IsFiniteSet(BusyProducers)
<1> DEFINE f == [r \in V |-> thread[r]]
<1>1. IsFiniteSet(BusyProducers) /\ IsFiniteSet(V)
  BY AdmissionAssumption, FS_Subset DEF BusyProducers
<1>2. f \in Injection(V, BusyProducers)
  BY DEF OneSubmission, Injection, IsInjective, BusyProducers, Busy, Submitting
<1>3. Cardinality(V) <= Cardinality(BusyProducers)
  BY <1>1, <1>2, FS_Injection
<1>4. QED
  BY <1>1, <1>3, FS_CardinalityType

(* The bytes of records no larger than a budget are no more than the budget *)
(* for each thread.                                                         *)
LEMMA NoMoreThanBudgets ==
    ASSUME OneSubmission, NEW c \in Nat, NEW V \in SUBSET {r \in Log : phase[r] \in Submitting},
           \A r \in V : Size[r] <= c
    PROVE  Cardinality(Units(V)) <= Cardinality(BusyProducers) * c
<1> DEFINE T == BusyProducers \X (1 .. c)
           f == [u \in Units(V) |-> <<thread[u[1]], u[2]>>]
<1>1. IsFiniteSet(BusyProducers) /\ IsFiniteSet(1 .. c) /\ Cardinality(1 .. c) = c
  <2>1. IsFiniteSet(BusyProducers)
    BY AdmissionAssumption, FS_Subset DEF BusyProducers
  <2>2. IsFiniteSet(1 .. c) /\ Cardinality(1 .. c) = IF 1 > c THEN 0 ELSE c - 1 + 1
    BY FS_Interval
  <2>3. QED
    BY <2>1, <2>2
<1>2. IsFiniteSet(T) /\ Cardinality(T) = Cardinality(BusyProducers) * c
  BY <1>1, FS_Product
<1>3. \A r \in V : Size[r] \in Nat /\ thread[r] \in BusyProducers
  BY AdmissionAssumption DEF OneSubmission, BusyProducers, Busy, Submitting
<1>4. \A u \in Units(V) : u[1] \in V /\ u[2] \in 1 .. c /\ u = <<u[1], u[2]>>
  BY <1>3 DEF Units, BytesOf
<1>5. f \in [Units(V) -> T]
  BY <1>3, <1>4
<1>6. ASSUME NEW u \in Units(V), NEW v \in Units(V), f[u] = f[v] PROVE u = v
  <2>1. thread[u[1]] = thread[v[1]] /\ u[2] = v[2]
    BY <1>6
  <2>2. u[1] = v[1]
    BY <1>4, <2>1 DEF OneSubmission
  <2>3. QED
    BY <1>4, <2>1, <2>2
<1>7. f \in Injection(Units(V), T)
  BY <1>5, <1>6 DEF Injection, IsInjective
<1>8. Cardinality(Units(V)) <= Cardinality(T)
  <2> HIDE DEF f, T
  <2> QED BY <1>2, <1>7, FS_Injection
<1>9. QED
  BY <1>2, <1>8

(* Two sets of records count no more together than apart.                   *)
LEMMA UnionCounts ==
    ASSUME NEW S \in SUBSET Log, NEW V \in SUBSET Log
    PROVE  /\ Cardinality(S \cup V) <= Cardinality(S) + Cardinality(V)
           /\ Cardinality(Units(S \cup V)) <= Cardinality(Units(S)) + Cardinality(Units(V))
<1>1. /\ IsFiniteSet(S) /\ IsFiniteSet(V) /\ IsFiniteSet(Units(S)) /\ IsFiniteSet(Units(V))
  BY UnitsFinite
<1>2. Units(S \cup V) = Units(S) \cup Units(V)
  BY DEF Units
<1>3. ASSUME NEW A, NEW B, IsFiniteSet(A), IsFiniteSet(B)
      PROVE  Cardinality(A \cup B) <= Cardinality(A) + Cardinality(B)
  <2>1. Cardinality(A \cup B) = Cardinality(A) + Cardinality(B) - Cardinality(A \cap B)
    BY <1>3, FS_Union
  <2>2. IsFiniteSet(A \cap B)
    BY <1>3, FS_Subset
  <2>3. Cardinality(A \cap B) \in Nat /\ Cardinality(A) \in Nat /\ Cardinality(B) \in Nat
    BY <1>3, <2>2, FS_CardinalityType
  <2>4. QED
    BY <2>1, <2>3
<1>4. QED
  BY <1>1, <1>2, <1>3

(* What the gauges count beyond what is granted is about to be undone.      *)
LEMMA OvershootIsUndone ==
    ASSUME IInv, OneSubmission
    PROVE  OvershootBounded
<1> DEFINE n == Cardinality(BusyProducers)
<1> SUFFICES ASSUME NEW q \in Queue
             PROVE  /\ depth[q] <= RecordCapacity[q] + n
                    /\ bytes[q] <= ByteCapacity[q] * (1 + n)
  BY DEF OvershootBounded, BusyProducers
<1> DEFINE S == In(q, Granted)
           T == In(q, GrantedBytes)
           U == In(q, {"undo_record"})
           V == In(q, {"undo_bytes"})
<1>1. In(q, CountsAsRecord) = S \cup U /\ In(q, CountsAsBytes) = T \cup V
  BY DEF In, CountsAsRecord, CountsAsBytes, Granted, GrantedBytes
<1>2. /\ U \in SUBSET {r \in Log : phase[r] \in Submitting}
      /\ V \in SUBSET {r \in Log : phase[r] \in Submitting}
      /\ S \in SUBSET Log /\ T \in SUBSET Log
  BY DEF In, Submitting, Claiming
<1>3. ByteCapacity[q] \in Nat /\ RecordCapacity[q] \in Nat /\ \A r \in V : Size[r] <= ByteCapacity[q]
  BY AdmissionAssumption DEF In, OneSubmission
<1> HIDE DEF S, T, U, V
<1>4. /\ depth[q] = Cardinality(S \cup U) /\ bytes[q] = Cardinality(Units(T \cup V))
      /\ Cardinality(S) <= RecordCapacity[q] /\ Cardinality(Units(T)) <= ByteCapacity[q]
  BY <1>1 DEF IInv, GaugesExact, CapacityRespected, S, T
<1>5. Cardinality(U) <= n /\ n \in Nat /\ Cardinality(Units(V)) <= n * ByteCapacity[q]
  BY <1>2, <1>3, NoMoreThanBusy, NoMoreThanBudgets
<1>6. /\ U \in SUBSET Log /\ V \in SUBSET Log
      /\ Cardinality(S) \in Nat /\ Cardinality(U) \in Nat /\ Cardinality(S \cup U) \in Nat
      /\ Cardinality(Units(T)) \in Nat /\ Cardinality(Units(V)) \in Nat /\ Cardinality(Units(T \cup V)) \in Nat
  <2>1. U \in SUBSET Log /\ V \in SUBSET Log
    BY <1>2
  <2>2. S \cup U \in SUBSET Log /\ T \cup V \in SUBSET Log
    BY <1>2, <2>1
  <2>3. QED
    BY <1>2, <2>1, <2>2, UnitsFinite, FS_CardinalityType
<1>7. depth[q] <= Cardinality(S) + Cardinality(U) /\ bytes[q] <= Cardinality(Units(T)) + Cardinality(Units(V))
  BY <1>2, <1>4, <1>6, UnionCounts
<1>8. depth[q] <= RecordCapacity[q] + n
  <2> HIDE DEF n
  <2> QED BY <1>3, <1>4, <1>5, <1>6, <1>7
<1>9. bytes[q] <= ByteCapacity[q] + n * ByteCapacity[q]
  <2> DEFINE c == ByteCapacity[q]
             m == n * ByteCapacity[q]
  <2>1. c \in Nat /\ m \in Nat /\ Cardinality(Units(T)) <= c /\ Cardinality(Units(V)) <= m
    BY <1>3, <1>4, <1>5
  <2>2. bytes[q] = Cardinality(Units(T \cup V)) /\ bytes[q] <= Cardinality(Units(T)) + Cardinality(Units(V))
    BY <1>4, <1>7
  <2> HIDE DEF c, m
  <2>3. bytes[q] <= c + m
    BY <2>1, <2>2, <1>6
  <2> QED BY <2>3 DEF c, m
<1>10. ByteCapacity[q] + n * ByteCapacity[q] = ByteCapacity[q] * (1 + n)
  <2> HIDE DEF n
  <2> QED BY <1>3, <1>5
<1> QED BY <1>8, <1>9, <1>10

(* The optimistic adds exceed a gauge's capacity by at most one attempt of  *)
(* each producer inside a claim: what keeps fetch_add of claim_amount from  *)
(* wrapping around.                                                         *)
THEOREM OvershootAlwaysBounded == Spec => []OvershootBounded
<1>1. Init => OneSubmission
  BY DEF Init, OneSubmission, Submitting, Claiming
<1>2. IInv /\ OneSubmission /\ [Next]_vars => OneSubmission'
  <2>1. CASE Next
    BY <2>1, OneSubmissionStep DEF Next, IInv
  <2>2. CASE UNCHANGED vars
    BY <2>2 DEF vars, OneSubmission
  <2>3. QED
    BY <2>1, <2>2
<1>3. IInv /\ OneSubmission => OvershootBounded
  BY OvershootIsUndone
<1>4. QED
  BY <1>1, <1>2, <1>3, Invariant, PTL DEF Spec
-----------------------------------------------------------------------------
(* Tickets.  A fresh ticket is one more than every ticket drawn so far.     *)

LEMMA TicketStep ==
    ASSUME TypeInt, TicketsDense, NEW r \in Log, TakeTicket(r)
    PROVE  TicketsDense'
<1>1. Accepted' = Accepted \cup {r} /\ r \notin Accepted /\ Accepted \in SUBSET Log
  BY DEF TakeTicket, Goto, Accepted, TypeInt
<1>2. IsFiniteSet(Accepted)
  BY <1>1, AdmissionAssumption, FS_Subset
<1>3. Cardinality(Accepted') = next_ticket'
  <2> DEFINE S == Accepted
  <2>1. Cardinality(S) = next_ticket
    BY DEF TicketsDense
  <2> HIDE DEF S
  <2>2. Cardinality(S \cup {r}) = next_ticket + 1
    BY <1>1, <1>2, <2>1, FS_AddElement DEF S
  <2>3. QED
    BY <1>1, <2>2 DEF TakeTicket, S
<1>4. {ticket'[s] : s \in Accepted'} = {ticket[s] : s \in Accepted} \cup {next_ticket + 1}
  BY <1>1 DEF TakeTicket, TypeInt
<1>5. {ticket'[s] : s \in Accepted'} = 1 .. next_ticket'
  <2>1. next_ticket \in Nat /\ next_ticket' = next_ticket + 1
    BY DEF TakeTicket, TypeInt
  <2>2. {ticket[s] : s \in Accepted} = 1 .. next_ticket
    BY DEF TicketsDense
  <2>3. (1 .. next_ticket) \cup {next_ticket + 1} = 1 .. next_ticket'
    BY <2>1
  <2>4. QED
    BY <1>4, <2>2, <2>3, Zenon
<1>6. QED
  BY <1>3, <1>5 DEF TicketsDense

(* No other step draws a ticket, or takes one back.                         *)
LEMMA OtherStepsKeepTickets ==
    ASSUME TypeInt, NEW r \in Log, (\E p \in Producer : Submit(p, r)) \/ Step(r), ~TakeTicket(r)
    PROVE  Accepted' = Accepted /\ UNCHANGED <<ticket, next_ticket>>
<1>1. UNCHANGED <<ticket, next_ticket>>
  BY DEF Step, Submit, ClaimBytes, UndoBytes, ClaimRecord, UndoRecord, RefundBytes, Push,
         ReleaseRecord, ReleaseBytes
<1>2. \A s \in Log \ {r} : phase'[s] = phase[s]
  BY ActionMoves DEF Moves, OnlyMoves
<1>3. r \in Accepted' <=> r \in Accepted
  BY DEF Step, Submit, ClaimBytes, UndoBytes, ClaimRecord, UndoRecord, RefundBytes, Push,
         ReleaseRecord, ReleaseBytes, Goto, Refuse, SubmitResult, Combine, Accepted, TypeInt
<1>4. QED
  BY <1>1, <1>2, <1>3 DEF Accepted

(* The tickets of the accepted records are 1, 2, ... without a gap or a     *)
(* repetition, whatever is refused in between: the completion watermark,    *)
(* which waits for each number in turn, never waits for one nobody has.     *)
THEOREM TicketsAlwaysDense == Spec => []TicketsDense
<1>1. Init => TicketsDense
  <2>1. Init => Accepted = {} /\ next_ticket = 0
    BY DEF Init, Accepted
  <2>2. Cardinality({}) = 0 /\ 1 .. 0 = {}
    BY FS_EmptySet
  <2>3. QED
    BY <2>1, <2>2 DEF TicketsDense
<1>2. IInv /\ TicketsDense /\ [Next]_vars => TicketsDense'
  <2> SUFFICES ASSUME IInv, TicketsDense, [Next]_vars PROVE TicketsDense'
    OBVIOUS
  <2>1. ASSUME NEW r \in Log, (\E p \in Producer : Submit(p, r)) \/ Step(r)
        PROVE  TicketsDense'
    <3>1. CASE TakeTicket(r)
      BY <3>1, TicketStep DEF IInv
    <3>2. CASE ~TakeTicket(r)
      <4>1. Accepted' = Accepted /\ ticket' = ticket /\ next_ticket' = next_ticket
        BY <2>1, <3>2, OtherStepsKeepTickets DEF IInv
      <4>2. QED
        BY <4>1, Zenon DEF TicketsDense
    <3>3. QED
      BY <3>1, <3>2
  <2>2. CASE UNCHANGED vars
    <3>1. Accepted' = Accepted /\ ticket' = ticket /\ next_ticket' = next_ticket
      BY <2>2 DEF vars, Accepted
    <3>2. QED
      BY <3>1, Zenon DEF TicketsDense
  <2>3. QED
    BY <2>1, <2>2 DEF Next
<1>3. QED
  BY <1>1, <1>2, Invariant, PTL DEF Spec
-----------------------------------------------------------------------------
(* Admission implements BoundedQueue: the slot's claim is the step in which *)
(* a record enters, and everything else a producer does is a stutter.      *)

Places == [r \in Log |-> Place(r)]

(* Only a priority record is ever moved to the reserved queue.              *)
ReservedIsPriority == \A r \in Log : queue[r] = "Reserved" => r \in Priority

(* The two modules hold the same records and count their bytes alike.       *)
LEMMA HeldIsGranted ==
    ASSUME TypeInt, NEW q \in Queue
    PROVE  Bounded!Held(q) = In(q, Granted)
  BY DEF Bounded!Held, In, Place, TypeInt, Queue, Granted, Dropped

LEMMA UnitsAgree == \A S : Bounded!Units(S) = Units(S)
  BY DEF Bounded!Units, Units, BytesOf

LEMMA CountsAgree == \A S : Bounded!Cardinality(S) = Cardinality(S)
  BY Zenon DEF Bounded!Cardinality, Cardinality

(* A record not moved by a step keeps its place.                            *)
LEMMA PlaceStep ==
    ASSUME NEW r \in Log, OnlyMoves(r)
    PROVE  Places' = [Places EXCEPT ![r] = Place(r)']
  BY DEF Places, OnlyMoves, Place

(* What the step of a record does to its place.                             *)
LEMMA PlaceMoves ==
    ASSUME TypeInt, NEW r \in Log, (\E p \in Producer : Submit(p, r)) \/ Step(r)
    PROVE  \/ Place(r)' = Place(r)
           \/ Place(r) = "new" /\ Place(r)' = "refused"
           \/ Place(r) = "new" /\ Place(r)' = queue[r]
           \/ Place(r) \in Queue /\ Place(r)' = "received"
<1> USE DEF Place, Granted, Dropped, TypeInt
<1>1. CASE \E p \in Producer : Submit(p, r)
  BY <1>1 DEF Submit, Goto
<1>2. CASE ClaimBytes(r)
  BY <1>2 DEF ClaimBytes, Goto, Refuse, SubmitResult
<1>3. CASE UndoBytes(r)
  BY <1>3 DEF UndoBytes, Refuse, SubmitResult
<1>4. CASE ClaimRecord(r)
  BY <1>4 DEF ClaimRecord, Goto
<1>5. CASE UndoRecord(r)
  BY <1>5 DEF UndoRecord, Goto
<1>6. CASE RefundBytes(r)
  BY <1>6 DEF RefundBytes, Refuse, SubmitResult
<1>7. CASE TakeTicket(r)
  BY <1>7 DEF TakeTicket, Goto
<1>8. CASE Push(r)
  BY <1>8 DEF Push, Goto
<1>9. CASE ReleaseRecord(r)
  BY <1>9 DEF ReleaseRecord, Goto
<1>10. CASE ReleaseBytes(r)
  BY <1>10 DEF ReleaseBytes, Goto
<1>11. QED
  BY <1>1, <1>2, <1>3, <1>4, <1>5, <1>6, <1>7, <1>8, <1>9, <1>10 DEF Step

(* What is held fits: the bound of the detailed module.                     *)
HeldFits ==
    \A q \in Queue : /\ Bounded!Cardinality(Bounded!Held(q)) <= RecordCapacity[q]
                     /\ Bounded!Cardinality(Bounded!Units(Bounded!Held(q))) <= ByteCapacity[q]

LEMMA WhatIsHeldFits == TypeInt /\ CapacityRespected => HeldFits
<1> SUFFICES ASSUME TypeInt, CapacityRespected, NEW q \in Queue
             PROVE  /\ Bounded!Cardinality(Bounded!Held(q)) <= RecordCapacity[q]
                    /\ Bounded!Cardinality(Bounded!Units(Bounded!Held(q))) <= ByteCapacity[q]
  BY DEF HeldFits
<1> DEFINE S == In(q, Granted)
           T == In(q, GrantedBytes)
<1>1. S \in SUBSET T /\ T \in SUBSET Log
  BY DEF In, GrantedBytes
<1>2. Cardinality(S) <= RecordCapacity[q] /\ Cardinality(Units(T)) <= ByteCapacity[q]
  BY DEF CapacityRespected
<1>3. ByteCapacity[q] \in Nat
  BY AdmissionAssumption
<1>4. Bounded!Held(q) = S
  BY HeldIsGranted
<1> HIDE DEF S, T
<1>5. Cardinality(Units(S)) <= ByteCapacity[q]
  BY <1>1, <1>2, <1>3, UnitsMonotone
<1>6. QED
  BY <1>2, <1>4, <1>5, UnitsAgree, CountsAgree

(* Every step of one record is a step of the bounded queue, or none.        *)
LEMMA StepRefines ==
    ASSUME IInv, IInv', ReservedIsPriority, NEW r \in Log,
           (\E p \in Producer : Submit(p, r)) \/ Step(r)
    PROVE  Bounded!Next \/ UNCHANGED Places
<1>1. OnlyMoves(r) /\ Places' = [Places EXCEPT ![r] = Place(r)']
  BY ActionMoves, PlaceStep DEF IInv, Moves
<1>2. Places[r] = Place(r) /\ Places \in [Log -> {Place(s) : s \in Log}]
  BY DEF Places
<1>3. CASE Place(r)' = Place(r)
  BY <1>1, <1>2, <1>3
<1>4. CASE Place(r) = "new" /\ Place(r)' = "refused"
  <2>1. Bounded!Refuse(r)
    BY <1>1, <1>2, <1>4 DEF Bounded!Refuse, Places
  <2>2. QED
    BY <2>1 DEF Bounded!Next
<1>5. CASE Place(r) = "new" /\ Place(r)' = queue[r]
  <2>1. PICK q \in Queue : q = queue[r]
    BY DEF IInv, TypeInt
  <2>2. q = "Reserved" => r \in Priority
    BY <2>1 DEF ReservedIsPriority
  <2>3. HeldFits'
    <3>1. (TypeInt /\ CapacityRespected)'
      BY DEF IInv
    <3>2. QED
      BY <3>1, WhatIsHeldFits, PTL
  <2>4. Bounded!Admit(r, q)
    <3>1. Places[r] = "new" /\ Places' = [Places EXCEPT ![r] = q]
      BY <1>1, <1>2, <1>5, <2>1
    <3>2. /\ Bounded!Cardinality(Bounded!Held(q)') <= RecordCapacity[q]
          /\ Bounded!Cardinality(Bounded!Units(Bounded!Held(q)')) <= ByteCapacity[q]
      BY <2>3 DEF HeldFits
    <3>3. QED
      BY <2>2, <3>1, <3>2 DEF Bounded!Admit, Places
  <2>5. QED
    BY <2>1, <2>4 DEF Bounded!Next, Bounded!Queue, Queue
<1>6. CASE Place(r) \in Queue /\ Place(r)' = "received"
  <2>1. Bounded!Receive(r)
    BY <1>1, <1>2, <1>6 DEF Bounded!Receive, Places, Bounded!Queue, Queue
  <2>2. QED
    BY <2>1 DEF Bounded!Next
<1>7. QED
  BY <1>3, <1>4, <1>5, <1>6, PlaceMoves DEF IInv

(* The fallback of submit_to_lane is for priority records.                  *)
LEMMA ReservedStaysPriority ==
    ASSUME TypeInt, ReservedIsPriority, NEW r \in Log,
           (\E p \in Producer : Submit(p, r)) \/ Step(r)
    PROVE  ReservedIsPriority'
  BY DEF ReservedIsPriority, TypeInt, Step, Submit, ClaimBytes, UndoBytes, ClaimRecord, UndoRecord,
         RefundBytes, TakeTicket, Push, ReleaseRecord, ReleaseBytes, Goto, Refuse

(* collector.rs refines a bounded queue with atomic admission, for any      *)
(* number of producers and records, any sizes and capacities: no sequence   *)
(* of claims, undos and refunds lets a record in that does not fit, or lets *)
(* it in twice, or gives a reserved slot to a record below the threshold.   *)
THEOREM AdmissionImplementsBoundedQueue == Spec => ImplementsBoundedQueue
<1>1. Init => ReservedIsPriority /\ Bounded!Init
  BY DEF Init, ReservedIsPriority, Bounded!Init, Place, Granted, Dropped
<1>2. IInv /\ ReservedIsPriority /\ [Next]_vars => ReservedIsPriority'
  <2>1. CASE Next
    BY <2>1, ReservedStaysPriority DEF Next, IInv
  <2>2. CASE UNCHANGED vars
    BY <2>2 DEF vars, ReservedIsPriority
  <2>3. QED
    BY <2>1, <2>2
<1>3. IInv /\ IInv' /\ ReservedIsPriority /\ [Next]_vars => [Bounded!Next]_Places
  <2>1. CASE Next
    BY <2>1, StepRefines DEF Next
  <2>2. CASE UNCHANGED vars
    BY <2>2 DEF vars, Places, Place
  <2>3. QED
    BY <2>1, <2>2
<1>4. QED
  BY <1>1, <1>2, <1>3, Invariant, PTL DEF Spec, ImplementsBoundedQueue, Bounded!Spec, Places
=============================================================================

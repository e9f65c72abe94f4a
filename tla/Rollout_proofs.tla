--------------------------- MODULE Rollout_proofs ---------------------------
(***************************************************************************)
(* Proofs about what a rollout relies on: Migrations, for every set of     *)
(* replicas, every set of releases and every number of files, and Health,  *)
(* for every number of services, threshold and period of the probes.       *)
(***************************************************************************)
EXTENDS Migrations, Health, TLAPS

USE FilesAssumption, ReplicaAssumption

ReplicaStates == [phase : Phases, files : Releases \cup {0}, applied : SUBSET Files]

(* A replica works on the schema only while it holds the lock.             *)
WorksUnderLock ==
  \A r \in Replicas : replica[r].phase \in {"reading", "applying", "failing"} => lock = r

MigrationsIInv ==
  /\ MigrationsTypeOK /\ WorksUnderLock
  /\ AppliedOnce /\ AppliedInOrder /\ ServesItsSchema /\ NeverOvertaken

LEMMA InitMigrationsIInv == MigrationsInit => MigrationsIInv
<1> SUFFICES ASSUME MigrationsInit PROVE MigrationsIInv
  OBVIOUS
<1> USE DEF MigrationsInit, Down
<1>1. MigrationsTypeOK
  <2>1. Down \in ReplicaStates
    BY DEF ReplicaStates, Phases
  <2> QED
    BY <2>1 DEF MigrationsTypeOK, ReplicaStates
<1>2. WorksUnderLock
  BY DEF WorksUnderLock
<1>3. AppliedOnce /\ AppliedInOrder
  BY DEF AppliedOnce, AppliedInOrder
<1>4. ServesItsSchema /\ NeverOvertaken
  BY DEF ServesItsSchema, NeverOvertaken, At
<1> QED
  BY <1>1, <1>2, <1>3, <1>4 DEF MigrationsIInv

(* Steps that leave the schema alone: what one replica does to the lock    *)
(* and to its own state keeps the invariant if the replica works only      *)
(* under the lock, serves only with its schema and knows what is stamped.  *)
LEMMA SchemaUntouched ==
  ASSUME MigrationsIInv, NEW r \in Replicas, NEW q \in ReplicaStates,
         replica' = [replica EXCEPT ![r] = q],
         UNCHANGED <<stamped, executed>>,
         lock' \in {lock, r, None},
         lock \in {r, None} \/ lock' = lock,
         q.phase \in {"reading", "applying", "failing"} => lock' = r,
         q.phase = "serving" => 1..q.files \subseteq stamped,
         q.phase = "applying" => q.applied = stamped
  PROVE  MigrationsIInv'
<1>1. MigrationsTypeOK'
  BY DEF MigrationsIInv, MigrationsTypeOK, ReplicaStates
<1>2. \A p \in Replicas : replica'[p] = IF p = r THEN q ELSE replica[p]
  BY DEF MigrationsIInv, MigrationsTypeOK
<1>3. WorksUnderLock'
  BY <1>2 DEF MigrationsIInv, WorksUnderLock
<1>4. AppliedOnce' /\ AppliedInOrder'
  BY DEF MigrationsIInv, AppliedOnce, AppliedInOrder
<1>5. ServesItsSchema'
  BY <1>2 DEF MigrationsIInv, ServesItsSchema, At
<1>6. NeverOvertaken'
  BY <1>2 DEF MigrationsIInv, NeverOvertaken, At
<1> QED
  BY <1>1, <1>3, <1>4, <1>5, <1>6 DEF MigrationsIInv

LEMMA ApplyMigrationsIInv ==
  ASSUME MigrationsIInv, NEW r \in Replicas, Apply(r)
  PROVE  MigrationsIInv'
<1>1. PICK f \in Pending(r) : /\ f \notin stamped /\ \A g \in Pending(r) : f <= g
                              /\ executed' = [executed EXCEPT ![f] = @ + 1]
                              /\ stamped' = stamped \cup {f}
                              /\ replica' = [replica EXCEPT ![r].applied = @ \cup {f}]
  BY DEF Apply
<1>2. At(r, "applying") /\ lock' = lock
  BY DEF Apply
<1>3. replica[r] \in ReplicaStates /\ replica[r].files \in 0..LastFile
  <2>1. replica[r] \in ReplicaStates
    BY DEF MigrationsIInv, MigrationsTypeOK, ReplicaStates
  <2>2. replica[r].files \in Releases \/ replica[r].files = 0
    BY <2>1 DEF ReplicaStates
  <2>3. \A n \in Releases : n \in 0..LastFile
    OBVIOUS
  <2>4. 0 \in 0..LastFile
    OBVIOUS
  <2> QED
    BY <2>1, <2>2, <2>3, <2>4
<1>4. f \in Files /\ f \in 1..replica[r].files
  BY <1>1, <1>3 DEF Pending, Files
<1>5. lock = r /\ replica[r].applied = stamped
  BY <1>2 DEF MigrationsIInv, WorksUnderLock, NeverOvertaken, At
<1>6. \A p \in Replicas \ {r} : replica'[p] = replica[p] /\ ~At(p, "applying")
  BY <1>1, <1>2, <1>5 DEF MigrationsIInv, MigrationsTypeOK, WorksUnderLock, At
<1>7. /\ replica'[r].phase = "applying" /\ replica'[r].files = replica[r].files
      /\ replica'[r].applied = stamped'
  BY <1>1, <1>2, <1>3, <1>5 DEF At, MigrationsIInv, MigrationsTypeOK
<1>8. executed[f] = 0
  BY <1>1, <1>4 DEF MigrationsIInv, AppliedOnce
<1>9. MigrationsTypeOK'
  <2>1. replica'[r] \in ReplicaStates
    BY <1>1, <1>3, <1>4 DEF ReplicaStates, MigrationsIInv, MigrationsTypeOK
  <2>2. replica' \in [Replicas -> ReplicaStates]
    BY <1>1, <2>1 DEF MigrationsIInv, MigrationsTypeOK, ReplicaStates
  <2>3. stamped' \subseteq Files /\ executed' \in [Files -> 0..1]
    BY <1>1, <1>4, <1>8 DEF MigrationsIInv, MigrationsTypeOK
  <2> QED
    BY <1>2, <2>2, <2>3 DEF MigrationsIInv, MigrationsTypeOK, ReplicaStates
<1>10. WorksUnderLock'
  BY <1>2, <1>5, <1>6 DEF MigrationsIInv, WorksUnderLock
<1>11. AppliedOnce'
  BY <1>1, <1>4, <1>8 DEF MigrationsIInv, MigrationsTypeOK, AppliedOnce
<1>12. AppliedInOrder'
  <2>1. ASSUME NEW g \in 1..f PROVE g \in stamped'
    <3>1. g \in 1..replica[r].files /\ (g = f \/ ~(f <= g))
      BY <1>3, <1>4
    <3>2. g = f \/ g \notin Pending(r)
      BY <1>1, <3>1
    <3> QED
      BY <1>1, <1>5, <3>1, <3>2 DEF Pending
  <2> QED
    BY <1>1, <2>1 DEF MigrationsIInv, AppliedInOrder
<1>13. ServesItsSchema'
  <2>1. ASSUME NEW p \in Replicas, replica'[p].phase = "serving"
        PROVE  1..replica'[p].files \subseteq stamped'
    BY <1>1, <1>6, <1>7, <2>1 DEF MigrationsIInv, ServesItsSchema, At
  <2> QED
    BY <2>1 DEF ServesItsSchema, At
<1>14. NeverOvertaken'
  BY <1>6, <1>7 DEF NeverOvertaken, At
<1> QED
  BY <1>9, <1>10, <1>11, <1>12, <1>13, <1>14 DEF MigrationsIInv

LEMMA NextMigrationsIInv ==
  MigrationsIInv /\ [MigrationsNext]_migrationsVars => MigrationsIInv'
<1> SUFFICES ASSUME MigrationsIInv, [MigrationsNext]_migrationsVars PROVE MigrationsIInv'
  OBVIOUS
<1> DEFINE To(r, p) == [replica[r] EXCEPT !.phase = p]
<1>1. ASSUME NEW r \in Replicas, NEW p \in Phases
      PROVE  /\ To(r, p) \in ReplicaStates
             /\ To(r, p).phase = p
             /\ To(r, p).files = replica[r].files
             /\ To(r, p).applied = replica[r].applied
             /\ GoTo(r, p) => replica' = [replica EXCEPT ![r] = To(r, p)]
  BY <1>1 DEF MigrationsIInv, MigrationsTypeOK, ReplicaStates, GoTo
<1> HIDE DEF To
<1>2. Down \in ReplicaStates /\ Down.phase = "down"
  BY DEF Down, ReplicaStates, Phases
<1>3. ASSUME NEW r \in Replicas, Release(r)
      PROVE  lock' \in {lock, r, None} /\ (lock \in {r, None} \/ lock' = lock)
  BY <1>3 DEF Release
<1>4. ASSUME NEW r \in Replicas, Start(r) PROVE MigrationsIInv'
  <2>1. PICK n \in Releases : replica' = [replica EXCEPT ![r] =
                                [phase |-> "locking", files |-> n, applied |-> {}]]
    BY <1>4 DEF Start
  <2> DEFINE q == [phase |-> "locking", files |-> n, applied |-> {}]
  <2>2. q \in ReplicaStates /\ q.phase = "locking"
    BY DEF ReplicaStates, Phases
  <2> HIDE DEF q
  <2> QED
    BY <1>4, <2>1, <2>2, SchemaUntouched DEF Start, q
<1>5. ASSUME NEW r \in Replicas, Lock(r) PROVE MigrationsIInv'
  BY <1>1, <1>5, SchemaUntouched DEF Lock, Phases
<1>6. ASSUME NEW r \in Replicas, ReadApplied(r) PROVE MigrationsIInv'
  <2> DEFINE q == [phase |-> "applying", files |-> replica[r].files, applied |-> stamped]
  <2>1. q \in ReplicaStates /\ q.phase = "applying" /\ q.applied = stamped
    BY DEF MigrationsIInv, MigrationsTypeOK, ReplicaStates, Phases
  <2>2. replica' = [replica EXCEPT ![r] = q] /\ lock' = r /\ lock = r
    BY <1>6 DEF ReadApplied, MigrationsIInv, MigrationsTypeOK, WorksUnderLock, At
  <2> HIDE DEF q
  <2> QED
    BY <1>6, <2>1, <2>2, SchemaUntouched DEF ReadApplied
<1>7. ASSUME NEW r \in Replicas, ApplyFails(r) PROVE MigrationsIInv'
  <2>1. lock' = r
    BY <1>7 DEF ApplyFails, MigrationsIInv, WorksUnderLock, At
  <2> QED
    BY <1>1, <1>7, <2>1, SchemaUntouched DEF ApplyFails, Phases
<1>8. ASSUME NEW r \in Replicas, GiveUp(r) PROVE MigrationsIInv'
  BY <1>2, <1>3, <1>8, SchemaUntouched DEF GiveUp
<1>9. ASSUME NEW r \in Replicas, Serve(r) PROVE MigrationsIInv'
  <2>1. replica[r].applied = stamped /\ 1..replica[r].files \subseteq stamped
    BY <1>9 DEF Serve, Pending, MigrationsIInv, NeverOvertaken
  <2> QED
    BY <1>1, <1>3, <1>9, <2>1, SchemaUntouched DEF Serve, Phases
<1>10. ASSUME NEW r \in Replicas, Crash(r) PROVE MigrationsIInv'
  BY <1>2, <1>3, <1>10, SchemaUntouched DEF Crash
<1>11. CASE UNCHANGED migrationsVars
  BY <1>11 DEF migrationsVars, MigrationsIInv, MigrationsTypeOK, WorksUnderLock,
               AppliedOnce, AppliedInOrder,
               ServesItsSchema, NeverOvertaken, At, Pending
<1> QED
  BY <1>4, <1>5, <1>6, <1>7, <1>8, <1>9, <1>10, <1>11, ApplyMigrationsIInv
     DEF MigrationsNext, Progress

LEMMA MigrationsInductive == MigrationsSpec => []MigrationsIInv
BY InitMigrationsIInv, NextMigrationsIInv, PTL DEF MigrationsSpec

(* Lock, stamps and replicas keep their types; no file takes effect twice. *)
THEOREM MigrationsTypeCorrect == MigrationsSpec => []MigrationsTypeOK
BY MigrationsInductive, PTL DEF MigrationsIInv

(* Every file takes effect once, when it is stamped, however many replicas *)
(* of whatever releases start, fail and die.                               *)
THEOREM RunsExactlyOnce == MigrationsSpec => []AppliedOnce
BY MigrationsInductive, PTL DEF MigrationsIInv

(* The files take effect in the order of their names.                      *)
THEOREM RunsInOrder == MigrationsSpec => []AppliedInOrder
BY MigrationsInductive, PTL DEF MigrationsIInv

(* A replica that serves has the whole schema of its release.              *)
THEOREM SchemaServed == MigrationsSpec => []ServesItsSchema
BY MigrationsInductive, PTL DEF MigrationsIInv

(* The advisory lock keeps the versions a replica has read up to date.     *)
THEOREM NotOvertaken == MigrationsSpec => []NeverOvertaken
BY MigrationsInductive, PTL DEF MigrationsIInv
-----------------------------------------------------------------------------
(* The health checks of the gateway.                                       *)

USE HealthAssumption

(* What a probe has seen of the services: all of them, as they were at     *)
(* least once since it began.  It is healthy as long as those it asked     *)
(* were ok, and if it is not then one of them was not.                     *)
Remembered(k) ==
  IF asking[k] = 0 THEN wasOk[k] = {} /\ wasNot[k] = {}
  ELSE /\ \A u \in Upstreams :
            IF StatusOk(u) THEN u \in wasOk[k] ELSE u \in wasNot[k]
       /\ healthy[k]  => 1..asking[k] - 1 \subseteq wasOk[k]
       /\ ~healthy[k] => wasNot[k] # {}

ProbesIInv == TypeOK /\ \A k \in Probes : Remembered(k)

LEMMA ProbesInit == Init => ProbesIInv
<1> SUFFICES ASSUME Init PROVE ProbesIInv
  OBVIOUS
<1> USE DEF Upstreams, Probes
<1>1. TypeOK
  BY DEF Init, TypeOK
<1>2. \A k \in Probes : Remembered(k)
  BY DEF Init, Remembered
<1> QED
  BY <1>1, <1>2 DEF ProbesIInv

(* While the world changes, a probe under way keeps what it has seen and   *)
(* sees the change.                                                        *)
LEMMA Observed ==
  ASSUME ProbesIInv, Observe,
         process' \in [Upstreams -> {"up", "down", "silent"}],
         broken' \in [Upstreams -> SUBSET Dependencies],
         UNCHANGED <<open, asking, healthy, due, clock, failures, ready>>
  PROVE  ProbesIInv'
<1> USE DEF ProbesIInv, TypeOK, Observe
<1>1. TypeOK'
  <2>1. /\ wasOk' \in [Probes -> SUBSET Upstreams]
        /\ wasNot' \in [Probes -> SUBSET Upstreams]
    OBVIOUS
  <2> QED
    BY <2>1, Zenon DEF Upstreams, Probes
<1>2. ASSUME NEW k \in Probes PROVE Remembered(k)'
  <2>1. CASE asking[k] = 0
    BY <2>1 DEF Remembered
  <2>2. CASE asking[k] # 0
    <3>1. /\ wasOk'[k] = wasOk[k] \cup {u \in Upstreams : StatusOk(u)'}
          /\ wasNot'[k] = wasNot[k] \cup
               (Upstreams \ {u \in Upstreams : StatusOk(u)'})
      BY <2>2
    <3>2. Remembered(k) /\ asking'[k] # 0 /\ healthy'[k] = healthy[k]
      BY <2>2
    <3> QED
      BY <2>2, <3>1, <3>2 DEF Remembered
  <2> QED
    BY <2>1, <2>2
<1> QED
  BY <1>1, <1>2 DEF Probes

LEMMA ProbesNext == ProbesIInv /\ [Next]_vars => ProbesIInv'
<1> SUFFICES ASSUME ProbesIInv, [Next]_vars PROVE ProbesIInv'
  OBVIOUS
<1>1. ASSUME NEW u \in Upstreams,
             ProcessChanges(u) \/ DependencyChanges(u)
      PROVE  ProbesIInv'
  <2>1. /\ process' \in [Upstreams -> {"up", "down", "silent"}]
        /\ broken' \in [Upstreams -> SUBSET Dependencies]
    BY <1>1 DEF ProcessChanges, DependencyChanges, ProbesIInv, TypeOK
  <2> QED
    BY <1>1, <2>1, Observed, Zenon DEF ProcessChanges, DependencyChanges
<1>t. /\ process \in [Upstreams -> {"up", "down", "silent"}]
      /\ asking \in [Probes -> 0..Services]
      /\ healthy \in [Probes -> BOOLEAN]
      /\ wasOk \in [Probes -> SUBSET Upstreams]
      /\ wasNot \in [Probes -> SUBSET Upstreams]
      /\ due \subseteq {k \in Probes : asking[k] = 0}
      /\ clock \in 0..LivenessPeriod - 1
      /\ failures \in [Probes -> 0..FailureThreshold]
      /\ ready \in BOOLEAN /\ (ready => failures["readiness"] < FailureThreshold)
      /\ \A k \in Probes : Remembered(k)
      /\ "readiness" \in Probes
  BY Zenon DEF ProbesIInv, TypeOK, Probes
<1>2. ASSUME NEW u \in Upstreams, CircuitChanges(u) PROVE ProbesIInv'
  <2>1. open' \subseteq Upstreams
    BY <1>2 DEF CircuitChanges, ProbesIInv, TypeOK
  <2>2. UNCHANGED <<process, broken, asking, healthy, due, clock, failures, ready, wasOk,
                    wasNot>>
    BY <1>2, Zenon DEF CircuitChanges, history
  <2>3. TypeOK'
    BY <2>1, <2>2, Zenon
       DEF ProbesIInv, TypeOK, Upstreams, Probes
  <2>4. \A k \in Probes : Remembered(k)'
    BY <1>t, <2>2, Zenon DEF Remembered, StatusOk, Degraded, Upstreams
  <2> QED
    BY <2>3, <2>4, Zenon DEF ProbesIInv, Probes
(* A step of one probe leaves the services and the other probe alone.      *)
<1>w. ASSUME NEW k \in Probes, UNCHANGED world,
             asking' \in [Probes -> 0..Services],
             healthy' \in [Probes -> BOOLEAN],
             wasOk' \in [Probes -> SUBSET Upstreams],
             wasNot' \in [Probes -> SUBSET Upstreams],
             due' \subseteq {q \in Probes : asking'[q] = 0},
             clock' \in 0..LivenessPeriod - 1,
             failures' \in [Probes -> 0..FailureThreshold],
             ready' \in BOOLEAN /\ (ready' => failures'["readiness"] < FailureThreshold),
             \A q \in Probes \ {k} :
               /\ asking'[q] = asking[q] /\ healthy'[q] = healthy[q]
               /\ wasOk'[q] = wasOk[q]   /\ wasNot'[q] = wasNot[q],
             Remembered(k)'
      PROVE  ProbesIInv'
  <2>1. TypeOK'
    BY <1>w, Zenon
       DEF ProbesIInv, TypeOK, Upstreams, Probes, world
  <2>2. ASSUME NEW q \in Probes PROVE Remembered(q)'
    <3>1. CASE q = k
      BY <1>w, <3>1
    <3>2. CASE q # k
      <4>1. UNCHANGED <<process, broken>>
        BY <1>w DEF world
      <4>2. Remembered(q)
        BY <1>t, Zenon
      <4>3. /\ asking'[q] = asking[q] /\ healthy'[q] = healthy[q]
            /\ wasOk'[q] = wasOk[q]   /\ wasNot'[q] = wasNot[q]
        BY <1>w, <3>2, Zenon
      <4> QED
        BY <4>1, <4>2, <4>3, Zenon
           DEF Remembered, StatusOk, Degraded, Upstreams
    <3> QED
      BY <3>1, <3>2
  <2> QED
    BY <2>1, <2>2, Zenon DEF ProbesIInv, Probes
<1>3. ASSUME NEW k \in Probes, Send(k) PROVE ProbesIInv'
  <2>1. /\ k \in due /\ due' = due \ {k}
        /\ asking' = [asking EXCEPT ![k] = 1]
        /\ healthy' = [healthy EXCEPT ![k] = TRUE]
        /\ wasOk'  = [wasOk  EXCEPT ![k] = {u \in Upstreams : StatusOk(u)}]
        /\ wasNot' = [wasNot EXCEPT ![k] = {u \in Upstreams : ~StatusOk(u)}]
        /\ UNCHANGED <<process, broken, open, clock, failures, ready>>
    BY <1>3, Zenon DEF Send, Begin, world
  <2>2. Remembered(k)'
    BY <1>t, <2>1 DEF Remembered, StatusOk, Degraded, Upstreams
  <2>3. asking' \in [Probes -> 0..Services]
    BY <1>t, <2>1
  <2>4. healthy' \in [Probes -> BOOLEAN]
    BY <1>t, <2>1, Zenon
  <2>5. due' \subseteq {q \in Probes : asking'[q] = 0}
    BY <1>t, <2>1
  <2>6. /\ wasOk' \in [Probes -> SUBSET Upstreams]
        /\ wasNot' \in [Probes -> SUBSET Upstreams]
    BY <1>t, <2>1
  <2>7. \A q \in Probes \ {k} :
          /\ asking'[q] = asking[q] /\ healthy'[q] = healthy[q]
          /\ wasOk'[q] = wasOk[q]   /\ wasNot'[q] = wasNot[q]
    BY <1>t, <2>1, Zenon
  <2> QED
    BY <1>t, <1>w, <2>1, <2>2, <2>3, <2>4, <2>5, <2>6, <2>7, Zenon DEF world
<1>4. ASSUME NEW k \in Probes, AskNext(k) PROVE ProbesIInv'
  <2>1. /\ asking[k] \in 1..Services - 1
        /\ asking' = [asking EXCEPT ![k] = asking[k] + 1]
        /\ healthy' = [healthy EXCEPT ![k] = healthy[k] /\ StatusOk(asking[k])]
        /\ UNCHANGED <<process, broken, open, due, clock, failures, ready, wasOk, wasNot>>
    BY <1>4, <1>t, Zenon
       DEF AskNext, StillHealthy, world, history
  <2>2. /\ asking'[k] = asking[k] + 1
        /\ healthy'[k] <=> healthy[k] /\ StatusOk(asking[k])
    BY <1>t, <2>1
  <2>3. Remembered(k)'
    <3>1. asking[k] \in Upstreams /\ asking[k] \in Nat /\ asking[k] # 0
      BY <2>1 DEF Upstreams
    <3>2. /\ \A u \in Upstreams :
                IF StatusOk(u) THEN u \in wasOk[k] ELSE u \in wasNot[k]
          /\ healthy[k]  => 1..asking[k] - 1 \subseteq wasOk[k]
          /\ ~healthy[k] => wasNot[k] # {}
      BY <1>t, <3>1, Zenon DEF Remembered
    <3>3. healthy'[k] => 1..asking'[k] - 1 \subseteq wasOk[k]
      BY <2>2, <3>1, <3>2
    <3>4. ~healthy'[k] => wasNot[k] # {}
      BY <2>2, <3>1, <3>2
    <3>5. asking'[k] # 0
      BY <2>2, <3>1
    <3> QED
      BY <2>1, <3>2, <3>3, <3>4, <3>5, Zenon
         DEF Remembered, StatusOk, Degraded, Upstreams
  <2>4. asking' \in [Probes -> 0..Services]
    BY <1>t, <2>1
  <2>5. healthy' \in [Probes -> BOOLEAN]
    BY <1>t, <2>1
  <2>6. due' \subseteq {q \in Probes : asking'[q] = 0}
    BY <1>t, <2>1
  <2>7. \A q \in Probes \ {k} : asking'[q] = asking[q] /\ healthy'[q] = healthy[q]
    BY <1>t, <2>1, Zenon
  <2> QED
    BY <1>t, <1>w, <2>1, <2>3, <2>4, <2>5, <2>6, <2>7, Zenon DEF world
(* The end of a probe, whatever it counts for.                             *)
<1>d. ASSUME NEW k \in Probes, asking[k] # 0, Done(k),
             UNCHANGED <<process, broken, open, due, clock>>,
             failures' \in [Probes -> 0..FailureThreshold],
             ready' \in BOOLEAN, ready' => failures'["readiness"] < FailureThreshold
      PROVE  ProbesIInv'
  <2>1. /\ asking' = [asking EXCEPT ![k] = 0]
        /\ healthy' = [healthy EXCEPT ![k] = healthy[k] /\ StatusOk(asking[k])]
        /\ wasOk' = [wasOk EXCEPT ![k] = {}] /\ wasNot' = [wasNot EXCEPT ![k] = {}]
    BY <1>d, Zenon DEF Done, StillHealthy
  <2>2. Remembered(k)'
    BY <1>t, <2>1 DEF Remembered
  <2>3. asking' \in [Probes -> 0..Services]
    BY <1>t, <2>1
  <2>4. healthy' \in [Probes -> BOOLEAN]
    BY <1>t, <2>1
  <2>5. due' \subseteq {q \in Probes : asking'[q] = 0}
    BY <1>d, <1>t, <2>1
  <2>6. /\ wasOk' \in [Probes -> SUBSET Upstreams]
        /\ wasNot' \in [Probes -> SUBSET Upstreams]
    BY <1>t, <2>1
  <2>7. \A q \in Probes \ {k} :
          /\ asking'[q] = asking[q] /\ healthy'[q] = healthy[q]
          /\ wasOk'[q] = wasOk[q]   /\ wasNot'[q] = wasNot[q]
    BY <1>t, <2>1, Zenon
  <2> QED
    BY <1>d, <1>t, <1>w, <2>2, <2>3, <2>4, <2>5, <2>6, <2>7, Zenon DEF world
<1>5. ASSUME NEW k \in Probes, Succeed(k) PROVE ProbesIInv'
  <2>1. /\ asking[k] # 0 /\ Done(k)
        /\ UNCHANGED <<process, broken, open, due, clock>>
        /\ failures' = [failures EXCEPT ![k] = 0]
        /\ ready' = (ready \/ k = "readiness")
    BY <1>5 DEF Succeed, Answered, world
  <2>2. failures' \in [Probes -> 0..FailureThreshold]
    BY <1>t, <2>1
  <2>3. ready' \in BOOLEAN
    BY <1>t, <2>1
  <2>4. ready' => failures'["readiness"] < FailureThreshold
    <3>1. CASE k = "readiness"
      BY <1>t, <2>1, <3>1
    <3>2. CASE k # "readiness"
      BY <1>t, <2>1, <3>2
    <3> QED
      BY <3>1, <3>2
  <2> QED
    BY <1>d, <2>1, <2>2, <2>3, <2>4, Zenon
<1>6. ASSUME NEW k \in Probes, asking[k] # 0, CountFailure(k)
      PROVE  ProbesIInv'
  <2>1. /\ Done(k)
        /\ UNCHANGED <<process, broken, open, due, clock>>
        /\ failures' = [failures EXCEPT
                          ![k] = IF failures[k] = FailureThreshold THEN failures[k]
                                 ELSE failures[k] + 1]
        /\ ready' = (ready /\ failures'["readiness"] < FailureThreshold)
    BY <1>6, Zenon DEF CountFailure, world
  <2>2. failures' \in [Probes -> 0..FailureThreshold]
    BY <1>t, <2>1
  <2>3. ready' \in BOOLEAN /\ (ready' => failures'["readiness"] < FailureThreshold)
    BY <2>1, Zenon
  <2> QED
    BY <1>d, <1>6, <2>1, <2>2, <2>3, Zenon
<1>7. ASSUME NEW k \in Probes, Fail503(k) \/ TimeOut(k)
      PROVE  ProbesIInv'
  <2>1. asking[k] # 0 /\ CountFailure(k)
    BY <1>7 DEF Fail503, TimeOut, Answered
  <2> QED
    BY <1>6, <2>1
<1>8. CASE Restart
  <2>1. /\ asking' = [k \in Probes |-> 0] /\ healthy' = [k \in Probes |-> TRUE]
        /\ wasOk' = [k \in Probes |-> {}] /\ wasNot' = [k \in Probes |-> {}]
        /\ due' = {} /\ clock' = 0
        /\ failures' = [k \in Probes |-> 0]
        /\ ready' = FALSE /\ open' = {}
        /\ UNCHANGED <<process, broken>>
    BY <1>8, Zenon DEF Restart
  <2>2. TypeOK'
    <3>1. /\ process' \in [Upstreams -> {"up", "down", "silent"}]
          /\ broken' \in [Upstreams -> SUBSET Dependencies]
      BY <2>1, Zenon DEF ProbesIInv, TypeOK, Upstreams
    <3>2. /\ open' \subseteq Upstreams
          /\ asking' \in [Probes -> 0..Services]
          /\ healthy' \in [Probes -> BOOLEAN]
          /\ due' \subseteq {k \in Probes : asking'[k] = 0}
          /\ clock' \in 0..LivenessPeriod - 1
          /\ failures' \in [Probes -> 0..FailureThreshold]
      BY <2>1
    <3>3. ready' \in BOOLEAN /\ (ready' => failures'["readiness"] < FailureThreshold)
      BY <2>1, Zenon
    <3>4. /\ wasOk' \in [Probes -> SUBSET Upstreams]
          /\ wasNot' \in [Probes -> SUBSET Upstreams]
      BY <2>1
    <3> QED
      BY <3>1, <3>2, <3>3, <3>4, Zenon DEF TypeOK, Upstreams, Probes
  <2>3. \A k \in Probes : Remembered(k)'
    BY <2>1 DEF Remembered
  <2> QED
    BY <2>2, <2>3, Zenon DEF ProbesIInv, Probes
<1>9. CASE Tick
  <2>1. /\ \A k \in Probes : asking[k] = 0
        /\ clock' = (clock + 1) % LivenessPeriod
        /\ due' \in {Probes, {"readiness"}}
        /\ UNCHANGED <<process, broken, open, asking, healthy, failures, ready, wasOk, wasNot>>
    BY <1>9, Zenon DEF Tick, world, history
  <2>2. clock' \in 0..LivenessPeriod - 1
    BY <1>t, <2>1
  <2>3. due' \subseteq {k \in Probes : asking'[k] = 0}
    BY <1>t, <2>1
  <2>4. TypeOK'
    BY <2>1, <2>2, <2>3, Zenon
       DEF ProbesIInv, TypeOK, Upstreams, Probes
  <2>5. \A k \in Probes : Remembered(k)'
    BY <1>t, <2>1, Zenon DEF Remembered
  <2> QED
    BY <2>4, <2>5, Zenon DEF ProbesIInv, Probes
<1>10. CASE UNCHANGED vars
  <2>1. UNCHANGED <<process, broken, open, asking, healthy, due, clock, failures, ready,
                    wasOk, wasNot>>
    BY <1>10, Zenon DEF vars, history
  <2>2. TypeOK'
    BY <2>1, Zenon DEF ProbesIInv, TypeOK, Upstreams, Probes
  <2>3. \A k \in Probes : Remembered(k)'
    BY <1>t, <2>1, Zenon DEF Remembered, StatusOk, Degraded, Upstreams
  <2> QED
    BY <2>2, <2>3, Zenon DEF ProbesIInv, Probes
<1> QED
  BY <1>1, <1>2, <1>3, <1>4, <1>5, <1>7, <1>8, <1>9, <1>10, Zenon
     DEF Next, Probing

LEMMA ProbesInductive == Spec => []ProbesIInv
<1>1. Init => ProbesIInv
  BY ProbesInit
<1>2. ProbesIInv /\ [Next]_vars => ProbesIInv'
  BY ProbesNext
<1> QED
  BY <1>1, <1>2, PTL DEF Spec

(* Probes, counters and what a probe has seen keep their types: a replica  *)
(* that gets requests is below the threshold of the readiness probe.       *)
THEOREM HealthTypeCorrect == Spec => []TypeOK
<1>1. ProbesIInv => TypeOK
  BY DEF ProbesIInv
<1> QED
  BY <1>1, ProbesInductive, PTL

(* What a probe counts for rests on what it has seen.                      *)
LEMMA ProbeEnds ==
  ASSUME ProbesIInv, Next, NEW k \in Probes
  PROVE  /\ failures'[k] > failures[k] => wasNot[k] # {}
         /\ asking[k] # 0 /\ asking'[k] = 0 /\ failures'[k] = 0
              => wasOk[k] = Upstreams \/ MustRestart
<1>t. /\ asking \in [Probes -> 0..Services]
      /\ wasOk \in [Probes -> SUBSET Upstreams]
      /\ failures \in [Probes -> 0..FailureThreshold]
      /\ \A q \in Probes : Remembered(q)
  BY Zenon DEF ProbesIInv, TypeOK, Probes
<1>r. ASSUME asking[k] # 0
      PROVE  /\ \A u \in Upstreams :
                   IF StatusOk(u) THEN u \in wasOk[k] ELSE u \in wasNot[k]
             /\ healthy[k]  => 1..asking[k] - 1 \subseteq wasOk[k]
             /\ ~healthy[k] => wasNot[k] # {}
             /\ asking[k] \in Upstreams
  <2>1. asking[k] \in Upstreams
    BY <1>t, <1>r DEF Upstreams
  <2> QED
    BY <1>t, <1>r, <2>1, Zenon DEF Remembered
(* Steps that end no probe of k, and count nothing for it.                 *)
<1>1. ASSUME failures'[k] = failures[k], asking'[k] = asking[k] \/ asking'[k] # 0
      PROVE  /\ ~(failures'[k] > failures[k])
             /\ ~(asking[k] # 0 /\ asking'[k] = 0)
  BY <1>1, <1>t
<1>2. ASSUME Tick \/ \E u \in Upstreams :
               \/ ProcessChanges(u) \/ DependencyChanges(u)
               \/ CircuitChanges(u)
      PROVE  UNCHANGED <<failures, asking>>
  BY <1>2, Zenon DEF Tick, ProcessChanges, DependencyChanges,
                     CircuitChanges
<1>3. ASSUME NEW q \in Probes, Send(q) \/ AskNext(q)
      PROVE  failures' = failures /\ (asking'[k] = asking[k] \/ asking'[k] # 0)
  <2>1. failures' = failures
    BY <1>3, Zenon DEF Send, AskNext
  <2>2. asking' = [asking EXCEPT ![q] = 1] \/
          (asking[q] \in 1..Services - 1 /\ asking' = [asking EXCEPT ![q] = asking[q] + 1])
    BY <1>3, <1>t, Zenon DEF Send, Begin, AskNext
  <2> QED
    BY <1>t, <2>1, <2>2
<1>4. ASSUME NEW q \in Probes,
             Succeed(q) \/ Fail503(q) \/ TimeOut(q), q # k
      PROVE  failures'[k] = failures[k] /\ asking'[k] = asking[k]
  BY <1>4, <1>t, Zenon DEF Succeed, Fail503, TimeOut,
                           CountFailure, Done
<1>5. ASSUME Succeed(k)
      PROVE  failures'[k] = 0 /\ wasOk[k] = Upstreams
  <2>1. /\ failures' = [failures EXCEPT ![k] = 0]
        /\ asking[k] = Services /\ healthy[k] /\ StatusOk(asking[k])
    BY <1>5, Zenon DEF Succeed, Answered, StillHealthy
  <2>2. asking[k] # 0
    BY <2>1
  <2>3. 1..Services - 1 \subseteq wasOk[k] /\ Services \in wasOk[k]
    BY <1>r, <2>1, <2>2
  <2>4. \A u \in Upstreams : u \in 1..Services - 1 \/ u = Services
    BY DEF Upstreams
  <2> QED
    BY <1>t, <2>1, <2>3, <2>4
<1>6. ASSUME Fail503(k) \/ TimeOut(k)
      PROVE  wasNot[k] # {} /\ failures'[k] # 0
  <2>1. asking[k] # 0 /\ (~healthy[k] \/ ~StatusOk(asking[k]))
    BY <1>6 DEF Fail503, TimeOut, Answered, StillHealthy,
                StatusOk
  <2>2. failures'[k] = IF failures[k] = FailureThreshold THEN failures[k]
                       ELSE failures[k] + 1
    BY <1>6, <1>t, Zenon DEF Fail503, TimeOut, CountFailure
  <2>3. wasNot[k] # {}
    BY <1>r, <2>1
  <2>4. failures'[k] # 0
    BY <1>t, <2>2
  <2> QED
    BY <2>3, <2>4
<1>7. ASSUME Restart
      PROVE  MustRestart /\ ~(failures'[k] > failures[k])
  <2>1. failures'[k] = 0 /\ MustRestart
    BY <1>7, Zenon DEF Restart
  <2> QED
    BY <1>t, <2>1
<1>8. CASE \E q \in Probes : Probing(q)
  <2>1. PICK q \in Probes : Probing(q)
    BY <1>8
  <2>2. CASE Send(q) \/ AskNext(q)
    BY <1>1, <1>3, <2>2
  <2>3. CASE (Succeed(q) \/ Fail503(q) \/ TimeOut(q)) /\ q # k
    BY <1>1, <1>4, <2>3
  <2>4. CASE Succeed(q) /\ q = k
    BY <1>5, <1>t, <2>4
  <2>5. CASE (Fail503(q) \/ TimeOut(q)) /\ q = k
    BY <1>6, <2>5
  <2> QED
    BY <2>1, <2>2, <2>3, <2>4, <2>5, Zenon DEF Probing
<1>9. CASE Restart
  BY <1>7, <1>9
<1>10. CASE Tick \/ \E u \in Upstreams :
               \/ ProcessChanges(u) \/ DependencyChanges(u)
               \/ CircuitChanges(u)
  BY <1>1, <1>2, <1>10
<1> QED
  BY <1>8, <1>9, <1>10, Zenon DEF Next

(* A failed probe is held against the gateway only if some service was not *)
(* ok while it ran, whatever circuits are open (healthz).                  *)
THEOREM FailuresGrounded == Spec => FailuresAreGrounded
<1> DEFINE Grounded == \A k \in Probes : failures'[k] > failures[k] => wasNot[k] # {}
<1>1. ProbesIInv /\ [Next]_vars => [Grounded]_vars
  BY ProbeEnds
<1> QED
  BY <1>1, ProbesInductive, PTL DEF Spec, FailuresAreGrounded

(* Every service was ok at some time during a probe that succeeds, though  *)
(* perhaps no two of them at the same time (healthz).                      *)
THEOREM SuccessesGrounded == Spec => SuccessesAreGrounded
<1> DEFINE Grounded == \A k \in Probes :
                         asking[k] # 0 /\ asking'[k] = 0 /\ failures'[k] = 0
                           => wasOk[k] = Upstreams \/ MustRestart
<1>1. ProbesIInv /\ [Next]_vars => [Grounded]_vars
  BY ProbeEnds
<1> QED
  BY <1>1, ProbesInductive, PTL DEF Spec, SuccessesAreGrounded
=============================================================================

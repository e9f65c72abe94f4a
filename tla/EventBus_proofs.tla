--------------------------- MODULE EventBus_proofs --------------------------
(***************************************************************************)
(* Proofs about the publishers of events, for every number of handlers.    *)
(***************************************************************************)
EXTENDS EventBus, FiniteSetTheorems, TLAPS

Starting == {h \in Handlers : phase[h] = "starting"}

(* A producer being started is its handler's own and not one an outage has *)
(* cut off.                                                                *)
StartsItsOwn ==
  \A h \in Handlers : phase[h] = "starting" =>
    /\ using[h] \in Producers /\ using[h] \notin cut /\ using[h] # producer
    /\ \A g \in Handlers : using[g] = using[h] => g = h

OnlyKafkaStarts ==
  bus # "kafka" => producer = None /\ \A h \in Handlers : phase[h] # "starting"

(* As long as no producer is set, those created since the last one was     *)
(* dropped are all still being started.                                    *)
StartsPending == producer = None => starts <= Cardinality(Starting)

(* A handler that has lost an event since the broker came back shares      *)
(* nothing any more with the time before.                                  *)
FailedIsOver ==
  brokerUp => \A h \in Handlers : failures[h] > 0 =>
                h \notin hit /\ using[h] \notin cut /\ producer \notin cut

IInv == /\ TypeOK
        /\ StartsItsOwn /\ OnlyKafkaStarts
        /\ StartsPending /\ StartsBounded
        /\ FailedIsOver /\ FailsOnce

(* The number of handlers and of those starting a producer are numbers.    *)
LEMMA StartingIsFinite ==
  /\ IsFiniteSet(Starting) /\ Cardinality(Starting) \in Nat
  /\ Cardinality(Handlers) \in Nat
  /\ Cardinality(Starting) <= Cardinality(Handlers)
<1>1. Starting \subseteq Handlers  BY DEF Starting
<1>2. IsFiniteSet(Handlers)  BY ProducersAssumption
<1> QED  BY <1>1, <1>2, FS_Subset, FS_CardinalityType

LEMMA InitIInv == Init => IInv
<1> SUFFICES ASSUME Init PROVE IInv  OBVIOUS
<1>1. bus \in {"redis", "kafka", "none"}  BY DEF Init, BuildPublisher
<1>2. /\ producer = None /\ cut = {} /\ hit = {} /\ lost = {} /\ starts = 0
      /\ brokerUp \in BOOLEAN
      /\ phase = [h \in Handlers |-> "idle"]
      /\ using = [h \in Handlers |-> None]
      /\ failures = [h \in Handlers |-> 0]
  BY DEF Init
<1>3. TypeOK  BY <1>1, <1>2 DEF TypeOK, Phases
<1>4. StartsItsOwn /\ OnlyKafkaStarts /\ FailedIsOver /\ FailsOnce
  BY <1>2 DEF StartsItsOwn, OnlyKafkaStarts, FailedIsOver, FailsOnce
<1>5. StartsPending /\ StartsBounded
  BY <1>2, StartingIsFinite DEF StartsPending, StartsBounded
<1> QED  BY <1>3, <1>4, <1>5 DEF IInv

(* The reset of publish(): no producer, or no Kafka.                       *)
LEMMA DropType ==
  ASSUME TypeOK, NEW h \in Handlers, DropProducer(h)
  PROVE  /\ producer' \in {producer, None}
         /\ starts' \in {starts, 0}
         /\ producer' # producer => starts' = 0
BY DEF DropProducer, TypeOK

LEMMA TypeStep == IInv /\ [Next]_vars => TypeOK'
<1> SUFFICES ASSUME IInv, [Next]_vars PROVE TypeOK'  OBVIOUS
<1> USE DEF IInv, TypeOK, history
<1>1. ASSUME NEW h \in Handlers, Publish(h) PROVE TypeOK'
  <2>1. CASE PublishNowhere(h)  BY <2>1 DEF PublishNowhere, vars
  <2>2. CASE PublishToRedis(h)  BY <2>2 DEF PublishToRedis, Await, Phases
  <2>3. CASE PublishWithProducer(h)
    BY <2>3 DEF PublishWithProducer, Await, Phases
  <2>4. CASE StartProducer(h)  BY <2>4 DEF StartProducer, Await, Phases
  <2> QED  BY <1>1, <2>1, <2>2, <2>3, <2>4 DEF Publish
<1>2. ASSUME NEW h \in Handlers, Started(h) PROVE TypeOK'
  BY <1>2 DEF Started, Await, Phases
<1>3. ASSUME NEW h \in Handlers, Sent(h) PROVE TypeOK'
  BY <1>3 DEF Sent, Return, Phases
<1>4. ASSUME NEW h \in Handlers, Reject(h) PROVE TypeOK'
  BY <1>4, DropType DEF Reject, Return, Phases
<1>5. ASSUME NEW h \in Handlers, Fail(h) PROVE TypeOK'
  <2>1. failures' \in [Handlers -> 0..2]  BY <1>5 DEF Fail
  <2> QED  BY <1>5, <2>1, DropType DEF Fail, Return, Phases
<1>6. CASE BrokerDown
  <2>1. cut' \subseteq Producers  BY <1>6 DEF BrokerDown, Connected
  <2> QED  BY <1>6, <2>1 DEF BrokerDown
<1>7. CASE BrokerBack  BY <1>7 DEF BrokerBack
<1>8. CASE UNCHANGED vars  BY <1>8 DEF vars
<1> QED
  BY <1>1, <1>2, <1>3, <1>4, <1>5, <1>6, <1>7, <1>8 DEF Next, Finish

LEMMA OwnStep == IInv /\ [Next]_vars => StartsItsOwn'
<1> SUFFICES ASSUME IInv, [Next]_vars PROVE StartsItsOwn'  OBVIOUS
<1>0. None \notin Producers  BY ProducersAssumption
<1> USE <1>0 DEF IInv, TypeOK, StartsItsOwn, history
<1>1. ASSUME NEW h \in Handlers, Publish(h) PROVE StartsItsOwn'
  <2>1. CASE PublishNowhere(h)  BY <2>1 DEF PublishNowhere, vars
  <2>2. CASE PublishToRedis(h)  BY <2>2 DEF PublishToRedis, Await
  <2>3. CASE PublishWithProducer(h)  BY <2>3 DEF PublishWithProducer, Await
  <2>4. CASE StartProducer(h)
    <3> DEFINE new == NewProducer
    <3>1. /\ new \in Producers /\ new # producer
          /\ \A g \in Handlers : using[g] # new
      BY <2>4 DEF StartProducer, InUse, Range
    <3>2. /\ phase' = [phase EXCEPT ![h] = "starting"]
          /\ using' = [using EXCEPT ![h] = new]
          /\ cut' = cut \ {new} /\ producer' = producer
      BY <2>4 DEF StartProducer, Await
    <3> HIDE DEF new
    <3> QED  BY <3>1, <3>2
  <2> QED  BY <1>1, <2>1, <2>2, <2>3, <2>4 DEF Publish
<1>2. ASSUME NEW h \in Handlers, Started(h) PROVE StartsItsOwn'
  BY <1>2 DEF Started, Await
<1>3. ASSUME NEW h \in Handlers, Sent(h) PROVE StartsItsOwn'
  BY <1>3 DEF Sent, Return
<1>4. ASSUME NEW h \in Handlers, Reject(h) \/ Fail(h) PROVE StartsItsOwn'
  <2>1. /\ phase' = [phase EXCEPT ![h] = "idle"]
        /\ using' = [using EXCEPT ![h] = None] /\ cut' = cut
    BY <1>4 DEF Reject, Fail, Return
  <2>2. producer' \in {producer, None}
    BY <1>4, DropType DEF Reject, Fail
  <2> QED  BY <2>1, <2>2
<1>5. CASE BrokerDown  BY <1>5 DEF BrokerDown, Connected
<1>6. CASE BrokerBack  BY <1>6 DEF BrokerBack
<1>7. CASE UNCHANGED vars  BY <1>7 DEF vars
<1> QED
  BY <1>1, <1>2, <1>3, <1>4, <1>5, <1>6, <1>7 DEF Next, Finish

LEMMA OnlyKafkaStep == IInv /\ [Next]_vars => OnlyKafkaStarts'
<1> SUFFICES ASSUME IInv, [Next]_vars PROVE OnlyKafkaStarts'  OBVIOUS
<1> USE DEF IInv, TypeOK, OnlyKafkaStarts, history
<1>1. ASSUME NEW h \in Handlers, Publish(h) PROVE OnlyKafkaStarts'
  BY <1>1 DEF Publish, PublishNowhere, PublishToRedis, PublishWithProducer,
              StartProducer, Await, vars
<1>2. ASSUME NEW h \in Handlers, Started(h) PROVE OnlyKafkaStarts'
  BY <1>2 DEF Started, Await
<1>3. ASSUME NEW h \in Handlers, Sent(h) \/ Reject(h) \/ Fail(h)
      PROVE  OnlyKafkaStarts'
  BY <1>3 DEF Sent, Reject, Fail, Return, DropProducer
<1>4. CASE BrokerDown \/ BrokerBack \/ UNCHANGED vars
  BY <1>4 DEF BrokerDown, BrokerBack, vars
<1> QED  BY <1>1, <1>2, <1>3, <1>4 DEF Next, Finish

(* Only a start of a producer adds to starts, and it adds to those being   *)
(* started as well; those that succeed set producer.                       *)
LEMMA StartsStep ==
  IInv /\ [Next]_vars => StartsPending' /\ StartsBounded'
<1> SUFFICES ASSUME IInv, [Next]_vars PROVE StartsPending' /\ StartsBounded'
  OBVIOUS
<1>0. /\ Cardinality(Handlers) \in Nat
      /\ IsFiniteSet(Starting') /\ Cardinality(Starting)' \in Nat
      /\ Cardinality(Starting)' <= Cardinality(Handlers)
  <2>1. Starting' \subseteq Handlers  BY DEF Starting
  <2> QED
    BY <2>1, ProducersAssumption, FS_Subset, FS_CardinalityType
<1> USE <1>0, StartingIsFinite DEF IInv, StartsPending, StartsBounded, history
<1>1. ASSUME Starting' = Starting,
             (starts' = starts /\ producer' = producer) \/ starts' = 0
      PROVE  StartsPending' /\ StartsBounded'
  BY <1>1 DEF TypeOK
<1>2. ASSUME NEW h \in Handlers, Publish(h)
      PROVE  StartsPending' /\ StartsBounded'
  <2>1. CASE PublishNowhere(h)
    BY <1>1, <2>1 DEF PublishNowhere, vars, Starting
  <2>2. CASE PublishToRedis(h)
    BY <1>1, <2>2 DEF PublishToRedis, Await, Starting, TypeOK
  <2>3. CASE PublishWithProducer(h)
    BY <1>1, <2>3 DEF PublishWithProducer, Await, Starting, TypeOK
  <2>4. CASE StartProducer(h)
    <3>1. Starting' = Starting \cup {h} /\ h \notin Starting
      BY <2>4 DEF StartProducer, Await, Starting, TypeOK
    <3>2. Cardinality(Starting)' = Cardinality(Starting) + 1
      BY <3>1, FS_AddElement
    <3>3. producer = None /\ starts' = starts + 1 /\ starts \in Nat
      BY <2>4 DEF StartProducer, TypeOK
    <3> QED  BY <3>2, <3>3
  <2> QED  BY <1>2, <2>1, <2>2, <2>3, <2>4 DEF Publish
<1>3. ASSUME NEW h \in Handlers, Started(h)
      PROVE  StartsPending' /\ StartsBounded'
  <2>1. producer' # None  BY <1>3, ProducersAssumption DEF Started, StartsItsOwn
  <2> QED  BY <1>3, <2>1 DEF Started
<1>4. ASSUME NEW h \in Handlers, Sent(h)
      PROVE  StartsPending' /\ StartsBounded'
  BY <1>1, <1>4 DEF Sent, Return, Starting, TypeOK
<1>5. ASSUME NEW h \in Handlers, Reject(h) \/ Fail(h)
      PROVE  StartsPending' /\ StartsBounded'
  <2>1. CASE bus = "kafka"
    BY <1>5, <2>1 DEF Reject, Fail, DropProducer
  <2>2. CASE bus # "kafka"
    <3>1. starts' = starts /\ producer' = producer
      BY <1>5, <2>2 DEF Reject, Fail, DropProducer
    <3>2. phase' = [phase EXCEPT ![h] = "idle"]
      BY <1>5 DEF Reject, Fail, Return
    <3>3. phase[h] # "starting"
      BY <2>2 DEF OnlyKafkaStarts
    <3> QED  BY <1>1, <3>1, <3>2, <3>3 DEF Starting, TypeOK
  <2> QED  BY <2>1, <2>2
<1>6. CASE BrokerDown \/ BrokerBack \/ UNCHANGED vars
  BY <1>1, <1>6 DEF BrokerDown, BrokerBack, vars, Starting
<1> QED  BY <1>2, <1>3, <1>4, <1>5, <1>6 DEF Next, Finish

(* Whoever fails with the broker up has waited since before it came back,  *)
(* or used a producer of that time; afterwards it does neither.            *)
LEMMA FailureStep == IInv /\ [Next]_vars => FailedIsOver' /\ FailsOnce'
<1> SUFFICES ASSUME IInv, [Next]_vars PROVE FailedIsOver' /\ FailsOnce'
  OBVIOUS
<1>0. None \notin Producers  BY ProducersAssumption
<1> USE <1>0 DEF IInv, TypeOK, FailedIsOver, FailsOnce, history
<1>1. ASSUME NEW h \in Handlers, Publish(h) PROVE FailedIsOver' /\ FailsOnce'
  <2>1. CASE PublishNowhere(h)  BY <2>1 DEF PublishNowhere, vars
  <2>2. CASE PublishToRedis(h)  BY <2>2 DEF PublishToRedis, Await
  <2>3. CASE PublishWithProducer(h)  BY <2>3 DEF PublishWithProducer, Await
  <2>4. CASE StartProducer(h)
    <3> DEFINE new == NewProducer
    <3>1. /\ using' = [using EXCEPT ![h] = new]
          /\ cut' = cut \ {new} /\ producer' = producer
          /\ hit' = IF brokerUp THEN hit \ {h} ELSE hit \cup {h}
          /\ failures' = failures /\ brokerUp' = brokerUp
      BY <2>4 DEF StartProducer, Await
    <3> HIDE DEF new
    <3> QED  BY <3>1
  <2> QED  BY <1>1, <2>1, <2>2, <2>3, <2>4 DEF Publish
<1>2. ASSUME NEW h \in Handlers, Started(h) PROVE FailedIsOver' /\ FailsOnce'
  BY <1>2 DEF Started, Await, StartsItsOwn
<1>3. ASSUME NEW h \in Handlers, Sent(h) PROVE FailedIsOver' /\ FailsOnce'
  BY <1>3 DEF Sent, Return
<1>4. ASSUME NEW h \in Handlers, Reject(h) PROVE FailedIsOver' /\ FailsOnce'
  BY <1>4, DropType DEF Reject, Return
<1>5. ASSUME NEW h \in Handlers, Fail(h) PROVE FailedIsOver' /\ FailsOnce'
  <2>1. /\ using' = [using EXCEPT ![h] = None] /\ hit' = hit \ {h}
        /\ cut' = cut /\ brokerUp' = brokerUp
        /\ failures' = [failures EXCEPT
                          ![h] = IF brokerUp /\ @ < 2 THEN @ + 1 ELSE @]
        /\ ~brokerUp \/ h \in hit \/ using[h] \in cut
    BY <1>5 DEF Fail, Return
  <2>2. brokerUp => failures[h] = 0  BY <2>1
  <2>3. FailsOnce'  BY <2>1, <2>2
  <2>4. producer' = None
    BY <1>5 DEF Fail, DropProducer, OnlyKafkaStarts
  <2>5. FailedIsOver'  BY <2>1, <2>4
  <2> QED  BY <2>3, <2>5
<1>6. CASE BrokerDown  BY <1>6 DEF BrokerDown
<1>7. CASE BrokerBack  BY <1>7 DEF BrokerBack
<1>8. CASE UNCHANGED vars  BY <1>8 DEF vars
<1> QED
  BY <1>1, <1>2, <1>3, <1>4, <1>5, <1>6, <1>7, <1>8 DEF Next, Finish

LEMMA Inductive == Spec => []IInv
<1>1. IInv /\ [Next]_vars => IInv'
  BY TypeStep, OwnStep, OnlyKafkaStep, StartsStep, FailureStep DEF IInv
<1> QED  BY InitIInv, <1>1, PTL DEF Spec

(* Publisher, producers and handlers keep their types, whatever handlers   *)
(* share a producer and whenever the bus goes away (events.py).            *)
THEOREM TypeCorrect == Spec => []TypeOK
BY Inductive, PTL DEF IInv

(* Between two resets each handler starts one producer at most: the        *)
(* process leaks at most one per handler and failure (_ensure_producer).   *)
THEOREM StartsAreBounded == Spec => []StartsBounded
BY Inductive, PTL DEF IInv

(* After an outage no handler loses a second event, in whatever order old  *)
(* producers fail and new ones start (publish, _ensure_producer).          *)
THEOREM FailsOnlyOnce == Spec => []FailsOnce
BY Inductive, PTL DEF IInv
=============================================================================

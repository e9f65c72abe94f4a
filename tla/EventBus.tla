------------------------------ MODULE EventBus ------------------------------
(***************************************************************************)
(* Publishing of events: shared/convmem_shared/events.py, as concurrent    *)
(* handlers of one service process use it.  The Kafka publisher shares one *)
(* producer among them, creates it on the first publish, and drops it when *)
(* any publish fails; every method is suspended while the producer starts  *)
(* and while it sends.                                                     *)
(*                                                                         *)
(* A dropped producer is not stopped, and whoever is sending with it goes  *)
(* on.  Once nobody refers to it any more its name is used again here; the *)
(* process still has its connections.                                      *)
(***************************************************************************)
EXTENDS Naturals, FiniteSets, Functions

CONSTANTS
  Handlers,    (* handlers that publish, one event at a time each          *)
  Producers,   (* names for AIOKafkaProducer objects                       *)
  None         (* no producer                                              *)

(* One name per handler suffices: whoever starts a producer uses none yet  *)
(* and finds none.                                                         *)
ASSUME ProducersAssumption ==
  /\ IsFiniteSet(Handlers) /\ IsFiniteSet(Producers)
  /\ Cardinality(Producers) >= Cardinality(Handlers)
  /\ None \notin Producers

VARIABLES
  bus,        (* the publisher that was built: "redis", "kafka", "none"    *)
  producer,   (* KafkaEventPublisher._producer                             *)
  phase,      (* what each handler awaits                                  *)
  using,      (* the local variable producer of each handler               *)
  lost,       (* handlers whose last event the bus did not get, or did not *)
              (* acknowledge, though it would have taken it                *)
  brokerUp,   (* whether Redis or Kafka can be reached                     *)
  cut,        (* producers that lost their connections in an outage        *)
  hit,        (* handlers whose present await has seen an outage           *)
  (* History, read only by the properties.                                 *)
  starts,     (* producers created since one was last dropped              *)
  failures    (* failed publishes of each handler since the bus last came  *)
              (* back, cut off at 2                                        *)

history == <<starts, failures>>
vars    == <<bus, producer, phase, using, lost, brokerUp, cut, hit, history>>

Phases  == {"idle", "starting", "sending"}

TypeOK ==
  /\ bus \in {"redis", "kafka", "none"}
  /\ producer \in Producers \cup {None}
  /\ phase \in [Handlers -> Phases]
  /\ using \in [Handlers -> Producers \cup {None}]
  /\ lost \subseteq Handlers
  /\ brokerUp \in BOOLEAN
  /\ cut \subseteq Producers /\ hit \subseteq Handlers
  /\ starts \in Nat
  /\ failures \in [Handlers -> 0..2]

(* EVENT_BUS, with the address that goes with it or without.               *)
BuildPublisher(eventBus, address) == IF address THEN eventBus ELSE "none"

Init ==
  /\ \E eventBus \in {"redis", "kafka", "none"}, address \in BOOLEAN :
       bus = BuildPublisher(eventBus, address)
  /\ producer = None
  /\ phase = [h \in Handlers |-> "idle"]
  /\ using = [h \in Handlers |-> None]
  /\ lost = {}
  /\ brokerUp \in BOOLEAN
  /\ cut = {} /\ hit = {}
  /\ starts = 0
  /\ failures = [h \in Handlers |-> 0]

InUse       == {producer} \cup Range(using)
NewProducer == CHOOSE p \in Producers : p \notin InUse
(* There is one: by ProducersAssumption a name is left for every handler.  *)
-----------------------------------------------------------------------------
(* publish() up to an await.                                               *)
Await(h, what, p) ==
  /\ phase' = [phase EXCEPT ![h] = what]
  /\ using' = [using EXCEPT ![h] = p]
  /\ hit' = IF brokerUp THEN hit \ {h} ELSE hit \cup {h}

PublishNowhere(h) ==
  /\ bus = "none" /\ UNCHANGED vars

PublishToRedis(h) ==
  /\ bus = "redis" /\ phase[h] = "idle"
  /\ Await(h, "sending", None)
  /\ UNCHANGED <<bus, producer, lost, brokerUp, cut, history>>

(* _ensure_producer finds a producer, or starts one.                       *)
PublishWithProducer(h) ==
  /\ bus = "kafka" /\ phase[h] = "idle" /\ producer # None
  /\ Await(h, "sending", producer)
  /\ UNCHANGED <<bus, producer, lost, brokerUp, cut, history>>

StartProducer(h) ==
  /\ bus = "kafka" /\ phase[h] = "idle" /\ producer = None
  /\ NewProducer \in Producers \ InUse
  /\ Await(h, "starting", NewProducer)
  /\ cut' = cut \ {NewProducer}
  /\ starts' = starts + 1
  /\ UNCHANGED <<bus, producer, lost, brokerUp, failures>>

(* Faulty variant: the new producer is not kept for the next publish.      *)
StartedNotKept(h) ==
  /\ phase[h] = "starting" /\ brokerUp
  /\ Await(h, "sending", using[h])
  /\ UNCHANGED <<bus, producer, lost, brokerUp, cut, history>>

(* The producer is connected and becomes everybody's, also when another    *)
(* handler has set one meanwhile.                                          *)
Started(h) ==
  /\ phase[h] = "starting" /\ brokerUp
  /\ producer' = using[h]
  /\ Await(h, "sending", using[h])
  /\ UNCHANGED <<bus, lost, brokerUp, cut, history>>
-----------------------------------------------------------------------------
(* The end of publish(), in success or not.                                *)
Return(h) ==
  /\ phase' = [phase EXCEPT ![h] = "idle"]
  /\ using' = [using EXCEPT ![h] = None]
  /\ hit' = hit \ {h}

Sent(h) ==
  /\ phase[h] = "sending" /\ brokerUp
  /\ Return(h)
  /\ lost' = lost \ {h}
  /\ UNCHANGED <<bus, producer, brokerUp, cut, history>>

(* Faulty variants: the producer stays; only a start that fails drops it.  *)
KeepAfterFailure(h) == UNCHANGED <<producer, starts>>

DropAfterFailedStart(h) ==
  IF phase[h] = "starting"
  THEN producer' = None /\ starts' = 0
  ELSE UNCHANGED <<producer, starts>>

(* Any exception: the producer everybody uses is dropped, whether it is    *)
(* the one that failed or not.                                             *)
DropProducer(h) ==
  IF bus = "kafka"
  THEN producer' = None /\ starts' = 0
  ELSE UNCHANGED <<producer, starts>>

(* The broker is unreachable, or was at some time while this handler       *)
(* waited, or the producer has been cut off and cannot recover.            *)
Fail(h) ==
  /\ phase[h] # "idle"
  /\ ~brokerUp \/ h \in hit \/ using[h] \in cut
  /\ DropProducer(h)
  /\ Return(h)
  /\ lost' = lost \cup {h}
  /\ failures' = [failures EXCEPT ![h] = IF brokerUp /\ @ < 2 THEN @ + 1 ELSE @]
  /\ UNCHANGED <<bus, brokerUp, cut>>

(* The bus refuses the event itself, as Kafka does when it is too large.   *)
Reject(h) ==
  /\ phase[h] = "sending" /\ brokerUp
  /\ DropProducer(h)
  /\ Return(h)
  /\ lost' = lost \ {h}
  /\ UNCHANGED <<bus, brokerUp, cut, failures>>
-----------------------------------------------------------------------------
(* An outage cuts off the producers that are connected.                    *)
Connected == {producer} \cup {using[h] : h \in {g \in Handlers : phase[g] = "sending"}}

BrokerDown ==
  /\ brokerUp /\ brokerUp' = FALSE
  /\ cut' = Connected \ {None}
  /\ hit' = {h \in Handlers : phase[h] # "idle"}
  /\ UNCHANGED <<bus, producer, phase, using, lost, history>>

BrokerBack ==
  /\ ~brokerUp /\ brokerUp' = TRUE
  /\ failures' = [h \in Handlers |-> 0]
  /\ UNCHANGED <<bus, producer, phase, using, lost, cut, hit, starts>>

Publish(h) ==
  \/ PublishNowhere(h) \/ PublishToRedis(h)
  \/ PublishWithProducer(h) \/ StartProducer(h)

Finish(h) == Started(h) \/ Sent(h) \/ Fail(h) \/ Reject(h)

Next ==
  \/ \E h \in Handlers : Publish(h) \/ Finish(h)
  \/ BrokerDown \/ BrokerBack

Spec == Init /\ [][Next]_vars

(* The services keep publishing, and no await lasts for ever:              *)
(* request_timeout_ms bounds the producer's; for Redis, which is called    *)
(* without a timeout, it is an assumption that TCP gives up some time.     *)
Fairness == \A h \in Handlers : WF_vars(Publish(h)) /\ WF_vars(Finish(h))

FairSpec == Spec /\ Fairness
-----------------------------------------------------------------------------
(* Handlers that find no producer at the same time each start one, but no  *)
(* handler starts a second before one is dropped again: what the process   *)
(* leaks is bounded by the handlers and the failures (_ensure_producer).   *)
StartsBounded == starts <= Cardinality(Handlers)

(* Once the broker is back each handler loses at most one event to the     *)
(* outage, in whatever order failures of the old producer and starts of    *)
(* new ones come (the reset in publish and the assignment in               *)
(* _ensure_producer).                                                      *)
FailsOnce == \A h \in Handlers : failures[h] <= 1

(* "reset on failure so a broker restart heals without a service restart"  *)
(* (KafkaEventPublisher): once the broker is back for good, no event is    *)
(* lost any more but for what it says.                                     *)
Heals == <>[]brokerUp => <>[](lost = {})
=============================================================================

--------------------------- MODULE MemoryService ---------------------------
(***************************************************************************)
(* The memory service on Postgres: the endpoints of                        *)
(* services/memory/app/main.py that change something, with                 *)
(* PostgresMemoryRepository (postgres.py) and the best-effort events       *)
(* (events.py in shared/convmem_shared).                                   *)
(*                                                                         *)
(* One user, since every statement names the user it is about, and the     *)
(* handlers that run for it, on whatever replica.  A handler is suspended  *)
(* at the call of the embedding service, at its one SQL statement, which   *)
(* commits by itself, and at the event bus; a step here ends with one of   *)
(* them.  A memory is named by the POST that stores it, a metadata key by  *)
(* the PATCH that merges it.                                               *)
(***************************************************************************)
EXTENDS Naturals, FiniteSets, Sequences

CONSTANT
  Handlers    (* activations of the POST, PATCH and DELETE endpoints       *)

ASSUME HandlersAssumption == IsFiniteSet(Handlers)

VARIABLES
  table,      (* the user's rows in memories                               *)
  metadata,   (* the metadata column of each row                           *)
  phase,      (* what each handler does next, or what it answered          *)
  removed,    (* the rows each DELETE statement removed; the code is told  *)
              (* how many there are                                        *)
  (* The bus has a stream or topic for each kind of event, with no order   *)
  (* between the two.  What it drops of a long stream has been told.       *)
  storedStream,  (* memory.stored events: the memories they tell of        *)
  wipedStream,   (* memory.wiped events: by whom, and how many rows        *)
  (* History, read only by the properties.                                 *)
  patched     (* the PATCHes that were acknowledged, and of which memory   *)

streams == <<storedStream, wipedStream>>
vars    == <<table, metadata, phase, removed, streams, patched>>

Finished == {"stored", "patched", "deleted", "wiped", "not found", "failed", "crashed"}
Phases   == {"new", "embed", "insert", "announce store", "wipe", "announce wipe"} \cup Finished

Wiped(h)   == [by |-> h, deleted |-> Cardinality(removed[h])]
WipeEvents == [by : Handlers, deleted : Nat]

(* Each handler has one event to publish, at most.                         *)
PublishedOnce ==
  /\ \A i, j \in DOMAIN storedStream : storedStream[i] = storedStream[j] => i = j
  /\ \A i, j \in DOMAIN wipedStream : wipedStream[i].by = wipedStream[j].by => i = j

TypeOK ==
  /\ table \subseteq Handlers
  /\ metadata \in [Handlers -> SUBSET Handlers]
  /\ phase \in [Handlers -> Phases]
  /\ removed \in [Handlers -> SUBSET Handlers]
  /\ storedStream \in Seq(Handlers)
  /\ wipedStream \in Seq(WipeEvents)
  /\ PublishedOnce
  /\ patched \subseteq Handlers \X Handlers

Init ==
  /\ table = {}
  /\ metadata = [m \in Handlers |-> {}]
  /\ phase = [h \in Handlers |-> "new"]
  /\ removed = [h \in Handlers |-> {}]
  /\ storedStream = <<>>
  /\ wipedStream = <<>>
  /\ patched = {}

GoTo(h, next) == phase' = [phase EXCEPT ![h] = next]
-----------------------------------------------------------------------------
(* POST: the content is embedded, inserted and announced.                  *)
Store(h) ==
  /\ phase[h] = "new"
  /\ GoTo(h, "embed")
  /\ UNCHANGED <<table, metadata, removed, streams, patched>>

Embed(h) ==
  /\ phase[h] = "embed"
  /\ GoTo(h, "insert")
  /\ UNCHANGED <<table, metadata, removed, streams, patched>>

(* No embedding service, an error of its, or a vector of another length.   *)
EmbedFails(h) ==
  /\ phase[h] = "embed"
  /\ GoTo(h, "failed")
  /\ UNCHANGED <<table, metadata, removed, streams, patched>>

Insert(h) ==
  /\ phase[h] = "insert"
  /\ table' = table \cup {h}
  /\ GoTo(h, "announce store")
  /\ UNCHANGED <<metadata, removed, streams, patched>>

(* What publish() makes of a stream: it swallows every error of the bus,   *)
(* and so may lose the event.                                              *)
Publish(stream, event) == {stream, Append(stream, event)}

(* Faulty variant: an error of the bus fails the request.                  *)
AnnounceStoreOrFail(h) ==
  /\ phase[h] = "announce store"
  /\ \/ storedStream' = Append(storedStream, h) /\ GoTo(h, "stored")
     \/ storedStream' = storedStream /\ GoTo(h, "failed")
  /\ UNCHANGED <<table, metadata, removed, wipedStream, patched>>

AnnounceStore(h) ==
  /\ phase[h] = "announce store"
  /\ storedStream' \in Publish(storedStream, h)
  /\ GoTo(h, "stored")
  /\ UNCHANGED <<table, metadata, removed, wipedStream, patched>>
-----------------------------------------------------------------------------
(* Faulty variant: the patch replaces the metadata.                        *)
PatchReplaces(h, m) ==
  /\ phase[h] = "new"
  /\ m \in table
  /\ metadata' = [metadata EXCEPT ![m] = {h}]
  /\ patched' = patched \cup {<<h, m>>}
  /\ GoTo(h, "patched")
  /\ UNCHANGED <<table, removed, streams>>

(* Faulty variant: the patch is an upsert.                                 *)
PatchUpserts(h, m) ==
  /\ phase[h] = "new"
  /\ table' = table \cup {m}
  /\ metadata' = [metadata EXCEPT ![m] = @ \cup {h}]
  /\ patched' = patched \cup {<<h, m>>}
  /\ GoTo(h, "patched")
  /\ UNCHANGED <<removed, streams>>

(* PATCH: one UPDATE merges the metadata in the row.                       *)
Patch(h, m) ==
  /\ phase[h] = "new"
  /\ m \in table
  /\ metadata' = [metadata EXCEPT ![m] = @ \cup {h}]
  /\ patched' = patched \cup {<<h, m>>}
  /\ GoTo(h, "patched")
  /\ UNCHANGED <<table, removed, streams>>

(* Faulty variant: the number of deleted rows is not looked at.            *)
DeleteUnchecked(h, m) ==
  /\ phase[h] = "new"
  /\ table' = table \ {m}
  /\ metadata' = [metadata EXCEPT ![m] = {}]
  /\ removed' = [removed EXCEPT ![h] = {m}]
  /\ GoTo(h, "deleted")
  /\ UNCHANGED <<streams, patched>>

(* DELETE of one memory; no event tells of it.                             *)
Delete(h, m) ==
  /\ phase[h] = "new"
  /\ m \in table
  /\ table' = table \ {m}
  /\ metadata' = [metadata EXCEPT ![m] = {}]
  /\ removed' = [removed EXCEPT ![h] = {m}]
  /\ GoTo(h, "deleted")
  /\ UNCHANGED <<streams, patched>>

(* PATCH and DELETE of a memory that is not there: 404.                    *)
NotFound(h) ==
  /\ phase[h] = "new"
  /\ GoTo(h, "not found")
  /\ UNCHANGED <<table, metadata, removed, streams, patched>>
-----------------------------------------------------------------------------
(* DELETE of all the user's memories: one statement, then its event.       *)
Wipe(h) ==
  /\ phase[h] = "new"
  /\ GoTo(h, "wipe")
  /\ UNCHANGED <<table, metadata, removed, streams, patched>>

DeleteAll(h) ==
  /\ phase[h] = "wipe"
  /\ table' = {}
  /\ removed' = [removed EXCEPT ![h] = table]
  /\ metadata' = [m \in Handlers |-> {}]
  /\ GoTo(h, "announce wipe")
  /\ UNCHANGED <<streams, patched>>

AnnounceWipe(h) ==
  /\ phase[h] = "announce wipe"
  /\ wipedStream' \in Publish(wipedStream, Wiped(h))
  /\ GoTo(h, "wiped")
  /\ UNCHANGED <<table, metadata, removed, storedStream, patched>>

(* The process of a handler is restarted, or Postgres raises an error.     *)
Crash(h) ==
  /\ phase[h] \notin Finished \cup {"new"}
  /\ GoTo(h, "crashed")
  /\ UNCHANGED <<table, metadata, removed, streams, patched>>

Step(h) ==
  \/ Store(h) \/ Embed(h) \/ EmbedFails(h) \/ Insert(h) \/ AnnounceStore(h)
  \/ \E m \in Handlers : Patch(h, m) \/ Delete(h, m)
  \/ NotFound(h)
  \/ Wipe(h) \/ DeleteAll(h) \/ AnnounceWipe(h)
  \/ Crash(h)

Next == \E h \in Handlers : Step(h)

Spec == Init /\ [][Next]_vars
-----------------------------------------------------------------------------
Announced(m) == \E i \in DOMAIN storedStream : storedStream[i] = m

(* No event tells of a memory that was never stored, whatever failed or    *)
(* crashed on the way, and a POST that cannot embed its content, or cannot *)
(* reach the bus, does not answer with an error about a row or an event it *)
(* has left behind (store_memory: embed, add, publish; publish never       *)
(* raises).                                                                *)
ErrorsLeaveNothing ==
  \A m \in Handlers :
    /\ Announced(m) => \/ m \in table
                       \/ \E h \in Handlers : m \in removed[h]
    /\ phase[m] = "failed" => /\ m \notin table /\ ~Announced(m)
                              /\ \A h \in Handlers : m \notin removed[h]

(* However DELETEs and wipes overlap, a memory is reported as deleted by   *)
(* one of them at most, and the counts in answers and events add up to     *)
(* what has gone (delete, delete_all).                                     *)
RemovedOnce ==
  /\ \A h \in Handlers : removed[h] \cap table = {}
  /\ \A h, g \in Handlers : h # g => removed[h] \cap removed[g] = {}
  /\ \A i \in DOMAIN wipedStream :
       wipedStream[i].deleted = Cardinality(removed[wipedStream[i].by])

(* An acknowledged PATCH stays in the memory as long as that exists,       *)
(* whatever other PATCHes overlap it (update_metadata; the session         *)
(* service's merge_state does not keep this promise).                      *)
PatchesKept ==
  \A p \in patched : p[2] \in table => p[1] \in metadata[p[2]]
-----------------------------------------------------------------------------
Row(m) ==
  IF m \in table THEN "kept"
  ELSE IF \E h \in Handlers : m \in removed[h] THEN "gone" ELSE "none"

Life(m) == INSTANCE MemoryLife WITH
  Keys <- Handlers, row <- Row(m), merged <- metadata[m], announced <- Announced(m)

(* Each memory has the one life of MemoryLife, however the requests about  *)
(* it overlap, fail or crash: no PATCH or late INSERT brings back what a   *)
(* DELETE or wipe removed, no metadata outlives it or is lost before, and  *)
(* the bus is told of it once at most (add, update_metadata, delete,       *)
(* delete_all, and the publish in store_memory).                           *)
ImplementsLife ==
  /\ \A m \in Handlers : Life(m)!Init
  /\ [][\A m \in Handlers : [Life(m)!Next]_(Life(m)!vars)]_vars
=============================================================================

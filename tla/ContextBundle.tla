--------------------------- MODULE ContextBundle ---------------------------
(***************************************************************************)
(* The context bundle of one user: context_bundle() of the personalization *)
(* service (services/personalization/app/main.py) reads the recent         *)
(* memories, the signals and the memories that match a query one after the *)
(* other, through HttpMemoryGateway (memory_gateway.py) and                *)
(* PostgresSignalStore (signals.py), while memories and signals are stored *)
(* and forgotten.  Each request here ends with its SQL statement; what the *)
(* memory service does around it is modelled in MemoryService.             *)
(***************************************************************************)
EXTENDS Ranking, Profile

CONSTANTS
  Memories,     (* a memory is named by the POST that brings it            *)
  Texts,        (* contents and queries, sequences of tokens               *)
  Signals,      (* records with a key, a value and a strength              *)
  Window,       (* profile_history_window                                  *)
  TopK,
  Skew,         (* how far the clocks of two replicas are apart, at most   *)
  MaxClock,     (* bounds the time                                         *)
  None

ASSUME BundleAssumption ==
  /\ Texts \subseteq Seq(DOMAIN Bucket)
  /\ Window \in Nat \ {0} /\ TopK \in Nat \ {0}
  /\ Skew \in Nat /\ MaxClock \in Nat
  /\ None \notin Signals /\ None \notin {EmbedOne(t) : t \in Texts}

VARIABLES
  clock,        (* in half-lives of the ranking                            *)
  post,         (* what has become of each POST                            *)
  memory,       (* the Memory each POST has made, with its embedding once  *)
                (* there is one, as long as a handler or the table has it  *)
  table,        (* the memories that have a row                            *)
  signal,       (* the row of each key in preference_signals, or None      *)
  reader,       (* what context_bundle() awaits                            *)
  recent,       (* what recent_memories() returned, until the profile is   *)
                (* built from it                                           *)
  profile,      (* the profile it has built                                *)
  bundle,       (* the memories of the bundle                              *)
  (* History, read only by the properties.                                 *)
  deleted,      (* memories that a DELETE or a wipe has found              *)
  forgotten,    (* those of them before the bundle began                   *)
  since,        (* stored after the recent memories were read              *)
  degraded,     (* whether these could not be read                         *)
  given,        (* the values signalled for each key since the last clear  *)
  lately        (* what the bundle may show for each key: the values given *)
                (* at its begin, or None, and what has come by then        *)

stored  == <<clock, post, memory, table, signal>>
reading == <<reader, recent, profile, bundle>>
history == <<deleted, forgotten, since, degraded, given, lately>>
vars    == <<stored, reading, history>>

Records == [id : Memories, created_at : 0..MaxClock + Skew,
            embedding : {EmbedOne(t) : t \in Texts} \cup {None}]
Keys   == {s.key : s \in Signals}
Values == {s.value : s \in Signals}

NoProfile == BuildProfile(<<>>, {})

TypeOK ==
  /\ clock \in 0..MaxClock
  /\ post \in [Memories -> {"new", "embedding", "stored", "failed"}]
  /\ \A m \in Memories :
       IF post[m] = "embedding" \/ m \in table
       THEN memory[m] \in Records /\ (memory[m].embedding = None <=> m \notin table)
       ELSE memory[m] = None
  /\ table \subseteq {m \in Memories : post[m] = "stored"}
  /\ \A k \in Keys : signal[k] # None => signal[k] \in Signals /\ signal[k].key = k
  /\ reader \in {"idle", "recent", "signals", "search", "answered"}
  /\ Len(recent) <= Window /\ ToSet(recent) \subseteq Records
  /\ recent = <<>> \/ profile = NoProfile
  /\ profile.memory_count \in 0..Window
  /\ Len(bundle) <= TopK
  /\ forgotten \subseteq deleted /\ deleted \subseteq Memories /\ since \subseteq Memories
  /\ degraded \in BOOLEAN
  /\ given \in [Keys -> SUBSET Values]
  /\ lately \in [Keys -> SUBSET (Values \cup {None})]

Init ==
  /\ clock = 0
  /\ post = [m \in Memories |-> "new"]
  /\ memory = [m \in Memories |-> None] /\ table = {}
  /\ signal = [k \in Keys |-> None]
  /\ reader = "idle"
  /\ recent = <<>> /\ profile = NoProfile /\ bundle = <<>>
  /\ deleted = {} /\ forgotten = {} /\ since = {} /\ degraded = FALSE
  /\ given = [k \in Keys |-> {}] /\ lately = [k \in Keys |-> {}]

Rows == {memory[m] : m \in table}

Tick ==
  /\ clock < MaxClock /\ clock' = clock + 1
  /\ UNCHANGED <<post, memory, table, signal, reading, history>>
-----------------------------------------------------------------------------
(* POST of a memory: created_at is taken when it arrives, the row comes    *)
(* after the embedding.                                                    *)
Store(m) ==
  /\ post[m] = "new" /\ post' = [post EXCEPT ![m] = "embedding"]
  /\ \E now \in clock..clock + Skew :
       memory' = [memory EXCEPT ![m] = [id |-> m, created_at |-> now, embedding |-> None]]
  /\ UNCHANGED <<clock, table, signal, reading, history>>

(* The text matters from here on.                                          *)
Insert(m, text) ==
  /\ post[m] = "embedding" /\ post' = [post EXCEPT ![m] = "stored"]
  /\ memory' = [memory EXCEPT ![m].embedding = EmbedOne(text)]
  /\ table' = table \cup {m}
  /\ since' = IF reader \in {"signals", "search"} THEN since \cup {m} ELSE since
  /\ UNCHANGED <<clock, signal, reading, deleted, forgotten, degraded, given, lately>>

(* Faulty variant: the memory is stored without a vector.                  *)
EmbedFailsSilently(m) ==
  /\ post[m] = "embedding" /\ post' = [post EXCEPT ![m] = "stored"]
  /\ table' = table \cup {m}
  /\ UNCHANGED <<clock, memory, signal, reading, history>>

EmbedFails(m) ==
  /\ post[m] = "embedding" /\ post' = [post EXCEPT ![m] = "failed"]
  /\ memory' = [memory EXCEPT ![m] = None]
  /\ UNCHANGED <<clock, table, signal, reading, history>>

Delete(m) ==
  /\ m \in table /\ table' = table \ {m}
  /\ memory' = [memory EXCEPT ![m] = None]
  /\ deleted' = deleted \cup {m}
  /\ UNCHANGED <<clock, post, signal, reading, forgotten, since, degraded, given, lately>>

(* Faulty variant: the memories that a client is shown are deleted.        *)
DeleteListed ==
  \E page \in ListByUser(Rows, Window) : table' = table \ {r.id : r \in ToSet(page)}

DeleteAll == table' = {}

Wipe ==
  /\ DeleteAll
  /\ memory' = [m \in Memories |-> IF m \in table \ table' THEN None ELSE memory[m]]
  /\ deleted' = deleted \cup table
  /\ UNCHANGED <<clock, post, signal, reading, forgotten, since, degraded, given, lately>>
-----------------------------------------------------------------------------
Reading == reader \in {"recent", "signals"}

(* ON CONFLICT (user_id, key) DO UPDATE, whatever the strengths.           *)
Upsert(s) == signal' = [signal EXCEPT ![s.key] = s]

Signal(s) ==
  /\ Upsert(s)
  /\ given' = [given EXCEPT ![s.key] = @ \cup {s.value}]
  /\ lately' = IF Reading THEN [lately EXCEPT ![s.key] = @ \cup {s.value}] ELSE lately
  /\ UNCHANGED <<clock, post, memory, table, reading, deleted, forgotten, since, degraded>>

(* Faulty variant: the rows stay, as the weakest there can be.             *)
WeakenSignals ==
  signal' = [k \in Keys |-> IF signal[k] = None THEN None
                            ELSE [signal[k] EXCEPT !.strength = 0]]

ClearSignals == signal' = [k \in Keys |-> None]

Clear ==
  /\ ClearSignals
  /\ given' = [k \in Keys |-> {}]
  /\ lately' = IF Reading THEN [k \in Keys |-> lately[k] \cup {None}] ELSE lately
  /\ UNCHANGED <<clock, post, memory, table, reading, deleted, forgotten, since, degraded>>
-----------------------------------------------------------------------------
(* What the two reads of the memory service may answer.                    *)
ListMemories == ListByUser(Rows, Window)

ContextSearch(query) ==
  UNION {UNION {Rank(hits, clock) : hits \in Search(rows, EmbedOne(query), TopK)} :
           rows \in SUBSET Rows}

(* GET of the context bundle.                                              *)
Begin ==
  /\ reader = "idle" /\ reader' = "recent"
  /\ forgotten' = deleted
  /\ lately' = [k \in Keys |-> IF given[k] = {} THEN {None} ELSE given[k]]
  /\ UNCHANGED <<stored, recent, profile, bundle, deleted, since, degraded, given>>

(* What it answers, or [] if it cannot be reached.                         *)
ReadRecent(answered) ==
  /\ reader = "recent" /\ reader' = "signals"
  /\ recent' \in IF answered THEN ListMemories ELSE {<<>>}
  /\ degraded' = ~answered /\ since' = {}
  /\ UNCHANGED <<stored, profile, bundle, deleted, forgotten, given, lately>>

ReadSignals ==
  /\ reader = "signals" /\ reader' = "search"
  /\ profile' = BuildProfile(recent, {signal[k] : k \in Keys} \ {None})
  /\ recent' = <<>>
  /\ UNCHANGED <<stored, bundle, history>>

SearchContext(query, answered) ==
  /\ reader = "search" /\ reader' = "answered"
  /\ bundle' \in IF answered THEN ContextSearch(query) ELSE {<<>>}
  /\ UNCHANGED <<stored, recent, profile, history>>

Return ==
  /\ reader' = "idle"
  /\ recent' = <<>> /\ profile' = NoProfile /\ bundle' = <<>>
  /\ forgotten' = {} /\ since' = {} /\ degraded' = FALSE
  /\ lately' = [k \in Keys |-> {}]
  /\ UNCHANGED <<stored, deleted, given>>

Answer == reader = "answered" /\ Return

(* A 5xx of the memory service, or an error of Postgres, is answered 500.  *)
Break == reader \in {"recent", "signals", "search"} /\ Return

Next ==
  \/ Tick \/ Wipe \/ Clear
  \/ \E m \in Memories :
       Store(m) \/ (\E text \in Texts : Insert(m, text)) \/ EmbedFails(m) \/ Delete(m)
  \/ \E s \in Signals : Signal(s)
  \/ Begin \/ ReadSignals \/ Answer \/ Break
  \/ \E answered \in BOOLEAN :
       ReadRecent(answered) \/ \E query \in Texts : SearchContext(query, answered)

Spec == Init /\ [][Next]_vars
-----------------------------------------------------------------------------
Shown == {hit.id : hit \in ToSet(bundle)}

(* A bundle that is asked for after memories were deleted shows and counts *)
(* none of them, whatever was stored, deleted and read meanwhile           *)
(* (delete_all, "Right to be forgotten"; context_bundle).                  *)
ForgottenStaysForgotten ==
  forgotten \cap (Shown \cup {r.id : r \in ToSet(recent)}) = {}

(* Profile and memories of a bundle are read at different times, but a     *)
(* memory that it shows is within the time that the profile spans, or it   *)
(* is older and the profile's window is full, unless it was stored in      *)
(* between; a memory that is gone by then may still be in the profile      *)
(* (_profile, context_bundle).                                             *)
BundleIsCoherent ==
  reader = "answered" /\ ~degraded =>
    \A hit \in ToSet(bundle) : hit.id \notin since =>
      /\ profile.memory_count > 0 /\ hit.created_at <= profile.last_seen
      /\ hit.created_at < profile.first_seen => profile.memory_count = Window

(* A bundle shows a preference that was signalled and not cleared, and not *)
(* none where there is one, unless that changed before its signals were    *)
(* read; which of the values signalled for a key it is, is left open       *)
(* (clear, "Right to be forgotten"; upsert, build_profile).                *)
PreferencesHonoured ==
  reader = "answered" =>
    \A k \in Keys :
      (IF k \in DOMAIN profile.preferences THEN profile.preferences[k] ELSE None)
        \in lately[k]

(* Of two memories in a bundle the second is not the more similar one      *)
(* unless the first is more recent, and not by so much that recency cannot *)
(* make up for it (rank).                                                  *)
OrderIsBalanced ==
  \A i, j \in DOMAIN bundle : i < j =>
    /\ bundle[j].similarity > bundle[i].similarity =>
         bundle[j].created_at < bundle[i].created_at
    /\ WeightSimilarity * (bundle[j].similarity - bundle[i].similarity)
         <= WeightRecency * One

(* No vector in the table is zero, of which the cosine distance is         *)
(* undefined, also when the tokens of a text cancel out (_embed_one).      *)
NoZeroVector == \A r \in Rows : Dot(r.embedding, r.embedding) # 0
=============================================================================

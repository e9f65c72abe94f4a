--------------------------- MODULE SessionService ---------------------------
(***************************************************************************)
(* The session service on Redis: services/session/app/main.py with         *)
(* RedisSessionStore (store.py) and HttpMemoryFlusher (flush.py).          *)
(*                                                                         *)
(* One session, since its key is the only thing handlers share, and the    *)
(* handlers that run on it, on whatever replica.  A handler is suspended   *)
(* at every command it sends to Redis and at every call of the memory      *)
(* service; a step here is one command.  The state of a session is the set *)
(* of keys merged into it; each PATCH brings a key of its own.             *)
(***************************************************************************)
EXTENDS Naturals, FiniteSets

CONSTANTS
  Handlers,   (* activations of the GET, PATCH and DELETE endpoints        *)
  Initial,    (* the key a session may be created with                     *)
  Ttl,        (* SESSION_TTL_SECONDS, in ticks                             *)
  Retries,    (* ServiceClient retries a call this often                   *)
  MayCrash    (* whether handlers die: a restart, an error of Redis        *)

ASSUME TtlAssumption   == Ttl \in Nat \ {0}
ASSUME RetryAssumption == Retries \in Nat
ASSUME CrashAssumption == MayCrash \in BOOLEAN

VARIABLES
  row,        (* the value of the session's key in Redis, and its TTL;     *)
              (* as in Redis, a key without TTL (0 here) never expires     *)
  created,    (* whether POST has handed out the session id                *)
  handler,    (* where each handler is and what it has in its locals       *)
  summaries,  (* memories stored for this session by the memory service    *)
  events,     (* session.ended events published                           *)
  (* History, read only by the properties.                                 *)
  idle,       (* time since POST or GET last set the TTL, cut off at Ttl   *)
  contested   (* handlers that ran into another's GET-to-SET window        *)

vars == <<row, created, handler, summaries, events, idle, contested>>

States == SUBSET (Handlers \cup {Initial})

NoRow      == [live |-> FALSE, state |-> {}, ttl |-> 0]
Live(s)    == [live |-> TRUE, state |-> s, ttl |-> Ttl]
NewHandler == [phase |-> "new", read |-> {}, attempt |-> 0, flushed |-> FALSE]

(* The command each handler sends next, or what became of it.              *)
InPatch  == {"set", "patched"}
InEnd    == {"delete", "flush", "publish", "ended"}
Finished == {"served", "patched", "ended", "not found", "crashed"}
Phases   == {"new", "expire"} \cup InPatch \cup InEnd \cup Finished

TypeOK ==
  /\ row \in [live : BOOLEAN, state : States, ttl : 0..Ttl]
  /\ created \in BOOLEAN
  /\ handler \in [Handlers -> [phase   : Phases,     read    : States,
                               attempt : 0..Retries, flushed : BOOLEAN]]
  /\ summaries \subseteq [by : Handlers, attempt : 0..Retries, state : States]
  /\ events \subseteq [by : Handlers, flushed : BOOLEAN]
  /\ idle \in 0..Ttl
  /\ contested \subseteq Handlers

Init ==
  /\ row = NoRow
  /\ created = FALSE
  /\ handler = [h \in Handlers |-> NewHandler]
  /\ summaries = {}
  /\ events = {}
  /\ idle = 0
  /\ contested = {}

At(h, phase)  == handler[h].phase = phase
GoTo(h, next) == handler' = [handler EXCEPT ![h].phase = next]
-----------------------------------------------------------------------------
(* POST: the session is written under a new id.                            *)
Create ==
  /\ ~created
  /\ created' = TRUE
  /\ \E s \in SUBSET {Initial} : row' = Live(s)
  /\ idle' = 0
  /\ UNCHANGED <<handler, summaries, events, contested>>

(* The GET every endpoint starts with finds nothing: 404.                  *)
NotFound(h) ==
  /\ created /\ At(h, "new")
  /\ ~row.live
  /\ GoTo(h, "not found")
  /\ UNCHANGED <<row, created, summaries, events, idle, contested>>

(* It finds the session, which the handler now holds a copy of.            *)
Fetch(h, next) ==
  /\ created /\ At(h, "new")
  /\ row.live
  /\ handler' = [handler EXCEPT ![h].phase = next, ![h].read = row.state]
  /\ UNCHANGED <<row, created, summaries, events, idle>>

ReadGet(h)  == Fetch(h, "expire") /\ UNCHANGED contested
EndGet(h)   == Fetch(h, "delete") /\ UNCHANGED contested

PatchGet(h) ==
  LET others == {q \in Handlers : At(q, "set")} IN
  /\ Fetch(h, "set")
  /\ contested' = contested \cup others \cup (IF others = {} THEN {} ELSE {h})

(* Faulty variants: the TTL is slid by writing the value that was read; it *)
(* is not slid at all.                                                     *)
ReadExpireBySet(h) ==
  /\ At(h, "expire")
  /\ row' = Live(handler[h].read)
  /\ idle' = 0
  /\ GoTo(h, "served")
  /\ UNCHANGED <<created, summaries, events, contested>>

ReadExpireForgotten(h) ==
  /\ At(h, "expire")
  /\ idle' = IF row.live THEN 0 ELSE idle
  /\ GoTo(h, "served")
  /\ UNCHANGED <<row, created, summaries, events, contested>>

(* GET slides the TTL; EXPIRE does nothing when the key is gone by now.    *)
ReadExpire(h) ==
  /\ At(h, "expire")
  /\ IF row.live THEN row' = [row EXCEPT !.ttl = Ttl] /\ idle' = 0
                 ELSE UNCHANGED <<row, idle>>
  /\ GoTo(h, "served")
  /\ UNCHANGED <<created, summaries, events, contested>>

(* Faulty variants: the patch replaces the state; SET without ex.          *)
PatchSetReplaces(h) ==
  /\ At(h, "set")
  /\ row' = Live({h})
  /\ GoTo(h, "patched")
  /\ UNCHANGED <<created, summaries, events, idle, contested>>

PatchSetForever(h) ==
  /\ At(h, "set")
  /\ row' = [Live(handler[h].read \cup {h}) EXCEPT !.ttl = 0]
  /\ GoTo(h, "patched")
  /\ UNCHANGED <<created, summaries, events, idle, contested>>

(* PATCH writes what it read, merged with its key, with a fresh TTL,       *)
(* whatever became of the session since.                                   *)
PatchSet(h) ==
  /\ At(h, "set")
  /\ row' = Live(handler[h].read \cup {h})
  /\ GoTo(h, "patched")
  /\ UNCHANGED <<created, summaries, events, idle, contested>>

(* DELETE removes the key, if it is still there; an empty session is not   *)
(* flushed.                                                                *)
EndDelete(h) ==
  /\ At(h, "delete")
  /\ row' = NoRow
  /\ contested' = IF \E q \in Handlers : At(q, "set") THEN contested \cup {h} ELSE contested
  /\ GoTo(h, IF handler[h].read = {} THEN "publish" ELSE "flush")
  /\ UNCHANGED <<created, summaries, events, idle>>
-----------------------------------------------------------------------------
(* flush(): the POST to the memory service and the retries around it.      *)
Summary(h) == [by |-> h, attempt |-> handler[h].attempt, state |-> handler[h].read]

(* The memory service stores the summary and its 201 arrives.              *)
FlushStored(h) ==
  /\ At(h, "flush")
  /\ summaries' = summaries \cup {Summary(h)}
  /\ handler' = [handler EXCEPT ![h].phase = "publish", ![h].flushed = TRUE]
  /\ UNCHANGED <<row, created, events, idle, contested>>

(* Faulty variant: any answer counts as stored.                            *)
FlushRefusedTaken(h) ==
  /\ At(h, "flush")
  /\ handler' = [handler EXCEPT ![h].phase = "publish", ![h].flushed = TRUE]
  /\ UNCHANGED <<row, created, summaries, events, idle, contested>>

(* It answers with another status (a summary that is too long, an error).  *)
FlushRefused(h) ==
  /\ At(h, "flush")
  /\ GoTo(h, "publish")
  /\ UNCHANGED <<row, created, summaries, events, idle, contested>>

(* Faulty variant: the count of attempts starts over.                      *)
GiveUpNever(h) ==
  handler' = IF handler[h].attempt < Retries
             THEN [handler EXCEPT ![h].attempt = @ + 1]
             ELSE [handler EXCEPT ![h].attempt = 0]

GiveUpOrRetry(h) ==
  handler' = IF handler[h].attempt < Retries
             THEN [handler EXCEPT ![h].attempt = @ + 1]
             ELSE [handler EXCEPT ![h].phase = "publish"]

(* No answer: the connection fails or the call times out.  The memory      *)
(* service may have stored the summary all the same.                       *)
FlushUnanswered(h) ==
  /\ At(h, "flush")
  /\ summaries' \in {summaries, summaries \cup {Summary(h)}}
  /\ GiveUpOrRetry(h)
  /\ UNCHANGED <<row, created, events, idle, contested>>

(* Publishing the event is best-effort, then DELETE is answered.           *)
EndPublish(h) ==
  /\ At(h, "publish")
  /\ events' \in {events, events \cup {[by |-> h, flushed |-> handler[h].flushed]}}
  /\ GoTo(h, "ended")
  /\ UNCHANGED <<row, created, summaries, idle, contested>>
-----------------------------------------------------------------------------
(* The process of a handler is restarted, or Redis raises an error.        *)
Crash(h) ==
  /\ MayCrash
  /\ handler[h].phase \notin Finished \cup {"new"}
  /\ GoTo(h, "crashed")
  /\ UNCHANGED <<row, created, summaries, events, idle, contested>>

(* Time passes, and Redis expires the key.                                 *)
Tick ==
  /\ created
  /\ row' = CASE row.ttl > 1 -> [row EXCEPT !.ttl = @ - 1]
              [] row.ttl = 1 -> NoRow
              [] OTHER       -> row
  /\ idle' = IF idle < Ttl THEN idle + 1 ELSE idle
  /\ UNCHANGED <<created, handler, summaries, events, contested>>

Start(h) == NotFound(h) \/ ReadGet(h) \/ PatchGet(h) \/ EndGet(h)

Continue(h) ==
  \/ ReadExpire(h)  \/ PatchSet(h)     \/ EndDelete(h)
  \/ FlushStored(h) \/ FlushRefused(h) \/ FlushUnanswered(h) \/ EndPublish(h)

Next ==
  \/ Create
  \/ \E h \in Handlers : Start(h) \/ Continue(h) \/ Crash(h)
  \/ Tick

Spec == Init /\ [][Next]_vars

(* Time passes; Redis answers; every call of the memory service ends, by   *)
(* an answer, an error or http_timeout_seconds.                            *)
FairSpec == Spec /\ WF_vars(Tick) /\ \A h \in Handlers : WF_vars(Continue(h))
-----------------------------------------------------------------------------
(* A PATCH that was answered, and whose GET and SET met no other PATCH     *)
(* between its own, stays in the session as long as that lives, also       *)
(* through later merges and a restart (merge_state).                       *)
UncontestedPatchKept ==
  \A h \in Handlers :
    At(h, "patched") /\ h \notin contested /\ row.live => h \in row.state

(* A DELETE that caught no PATCH between its GET and SET is final: no GET, *)
(* PATCH or DELETE brings the session back (end, and EXPIRE in get).       *)
UncontestedEndIsFinal ==
  \A h \in Handlers :
    handler[h].phase \in InEnd \ {"delete"} /\ h \notin contested => ~row.live

SaysFlushed(h) ==
  \/ At(h, "ended") /\ handler[h].flushed
  \/ [by |-> h, flushed |-> TRUE] \in events

(* "flushed": true in the answer or the event means that the memory        *)
(* service has the very state the answer shows (end_session, flush).       *)
FlushedIsStored ==
  \A h \in Handlers :
    SaysFlushed(h) => \E s \in summaries : s.by = h /\ s.state = handler[h].read

(* The session does not disappear before its lifetime has passed since it  *)
(* was created or last read, unless a DELETE took it: no PATCH in between  *)
(* takes from what a GET gave it, whether it slides the TTL, as on Redis,  *)
(* or keeps it, as InMemorySessionStore does (ex= in create and            *)
(* merge_state, EXPIRE in get).                                            *)
NoEarlyExpiry ==
  [][row.live /\ ~row'.live =>
       \/ idle' >= Ttl
       \/ \E h \in Handlers : At(h, "delete") /\ ~At(h, "delete")']_vars

(* A session nobody uses any more expires: every write gives it a TTL.     *)
AbandonedExpires == row.live ~> ~row.live

(* "a memory-service outage must not prevent the session from ending"      *)
(* (main.py): whatever flush meets, no DELETE stays under way for good     *)
(* (a handler runs once), it is answered unless its own process dies.      *)
EndIsAnswered == <>[](\A h \in Handlers : handler[h].phase \notin InEnd \ {"ended"})
=============================================================================

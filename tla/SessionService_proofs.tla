----------------------- MODULE SessionService_proofs -----------------------
(***************************************************************************)
(* Proofs about SessionService, for every set of handlers, every TTL and   *)
(* every number of retries, with and without crashes.                      *)
(***************************************************************************)
EXTENDS SessionService, TLAPS

(* Two handlers between GET and SET know that they met.                    *)
WindowsContested ==
  \A h, q \in Handlers : At(h, "set") /\ At(q, "set") /\ h # q => h \in contested

(* Whoever is about to write has read what an uncontested PATCH wrote.     *)
WritersCarry ==
  \A h, q \in Handlers :
    At(h, "patched") /\ h \notin contested /\ At(q, "set") => h \in handler[q].read

(* After an uncontested DELETE nobody is left who could write.             *)
NoWriterAfterEnd ==
  \A h, q \in Handlers :
    handler[h].phase \in InEnd \ {"delete"} /\ h \notin contested => ~At(q, "set")

NobodyBeforeCreate == ~created => ~row.live /\ \A h \in Handlers : At(h, "new")

IInv ==
  /\ TypeOK
  /\ UncontestedPatchKept
  /\ UncontestedEndIsFinal
  /\ WindowsContested
  /\ WritersCarry
  /\ NoWriterAfterEnd
  /\ NobodyBeforeCreate

USE TtlAssumption, RetryAssumption, CrashAssumption

LEMMA StatesClosed ==
  ASSUME NEW s \in States, NEW h \in Handlers
  PROVE  s \cup {h} \in States
  BY DEF States

LEMMA RowsTyped ==
  /\ NoRow \in [live : BOOLEAN, state : States, ttl : 0..Ttl] /\ ~NoRow.live
  /\ \A s \in States : /\ Live(s) \in [live : BOOLEAN, state : States, ttl : 0..Ttl]
                       /\ Live(s).live /\ Live(s).state = s
<1>1. {} \in States
  BY DEF States
<1> QED
  BY <1>1 DEF NoRow, Live

LEMMA InitIInv == Init => IInv
<1> SUFFICES ASSUME Init PROVE IInv
  OBVIOUS
<1>1. {} \in States
  BY DEF States
<1>2. NewHandler \in [phase : Phases, read : States, attempt : 0..Retries, flushed : BOOLEAN]
  BY <1>1 DEF NewHandler, Phases
<1>3. TypeOK
  <2>1. row \in [live : BOOLEAN, state : States, ttl : 0..Ttl]
    BY RowsTyped DEF Init
  <2>2. handler \in [Handlers -> [phase : Phases, read : States, attempt : 0..Retries,
                                   flushed : BOOLEAN]]
    BY <1>2 DEF Init
  <2>3. created \in BOOLEAN /\ idle \in 0..Ttl
    <3>1. 0 \in 0..Ttl
      OBVIOUS
    <3> QED
      BY <3>1, Zenon DEF Init
  <2>4. /\ contested \subseteq Handlers
        /\ summaries \subseteq [by : Handlers, attempt : 0..Retries, state : States]
        /\ events \subseteq [by : Handlers, flushed : BOOLEAN]
    BY Zenon DEF Init
  <2> QED
    BY <2>1, <2>2, <2>3, <2>4 DEF TypeOK
<1>4. ~row.live /\ \A h \in Handlers : At(h, "new")
  BY RowsTyped DEF Init, At, NewHandler
<1> QED
  BY <1>3, <1>4 DEF IInv, At, UncontestedPatchKept, UncontestedEndIsFinal, WindowsContested,
                    WritersCarry, NoWriterAfterEnd, NobodyBeforeCreate, InEnd

LEMMA NextTypeOK == TypeOK /\ [Next]_vars => TypeOK'
<1> SUFFICES ASSUME TypeOK, [Next]_vars PROVE TypeOK'
  OBVIOUS
<1> DEFINE HandlerType == [phase : Phases, read : States, attempt : 0..Retries, flushed : BOOLEAN]
           RowType     == [live : BOOLEAN, state : States, ttl : 0..Ttl]
<1>1. row \in RowType /\ handler \in [Handlers -> HandlerType]
  BY DEF TypeOK
<1>2. ASSUME NEW h \in Handlers, NEW p \in Phases
      PROVE  [handler EXCEPT ![h].phase = p] \in [Handlers -> HandlerType]
  BY <1>1
<1>3. \A h \in Handlers : handler[h].read \in States /\ handler[h].read \cup {h} \in States
  BY <1>1, StatesClosed
<1>4. ASSUME NEW h \in Handlers PROVE Summary(h) \in [by : Handlers, attempt : 0..Retries, state : States]
  BY <1>1 DEF Summary
<1>5. CASE Create
  <2>1. SUBSET {Initial} \subseteq States
    BY DEF States
  <2> QED
    BY <1>5, <2>1, RowsTyped DEF Create, TypeOK
<1>6. ASSUME NEW h \in Handlers, NEW p \in Phases, Fetch(h, p), contested' \subseteq Handlers
      PROVE  TypeOK'
  <2>1. handler' \in [Handlers -> HandlerType]
    <3>1. handler' = [handler EXCEPT ![h] = [[handler[h] EXCEPT !.phase = p] EXCEPT !.read = row.state]]
      BY <1>1, <1>6 DEF Fetch
    <3>2. [handler[h] EXCEPT !.phase = p] \in HandlerType /\ row.state \in States
      BY <1>1
    <3>3. [[handler[h] EXCEPT !.phase = p] EXCEPT !.read = row.state] \in HandlerType
      BY <3>2
    <3> HIDE DEF HandlerType
    <3> QED
      BY <1>1, <3>1, <3>3
  <2> QED
    BY <1>6, <2>1 DEF Fetch, TypeOK
<1>7. ASSUME NEW h \in Handlers, Start(h) PROVE TypeOK'
  <2>1. CASE NotFound(h)
    BY <1>2, <2>1 DEF NotFound, GoTo, TypeOK, Phases, Finished
  <2>2. CASE ReadGet(h)
    BY <1>6, <2>2 DEF ReadGet, TypeOK, Phases
  <2>3. CASE EndGet(h)
    BY <1>6, <2>3 DEF EndGet, TypeOK, Phases, InEnd
  <2>4. CASE PatchGet(h)
    <3>1. contested' \subseteq Handlers
      BY <2>4 DEF PatchGet, TypeOK
    <3> QED
      BY <1>6, <2>4, <3>1 DEF PatchGet, Phases, InPatch
  <2> QED
    BY <1>7, <2>1, <2>2, <2>3, <2>4 DEF Start
<1>8. ASSUME NEW h \in Handlers, ReadExpire(h) PROVE TypeOK'
  <2>1. row' \in RowType /\ idle' \in 0..Ttl
    <3>1. CASE row.live
      BY <1>1, <1>8, <3>1 DEF ReadExpire
    <3>2. CASE ~row.live
      BY <1>1, <1>8, <3>2 DEF ReadExpire, TypeOK
    <3> QED
      BY <3>1, <3>2
  <2>2. handler' \in [Handlers -> HandlerType]
    BY <1>2, <1>8 DEF ReadExpire, GoTo, Phases, Finished
  <2>3. UNCHANGED <<created, summaries, events, contested>>
    BY <1>8 DEF ReadExpire
  <2> QED
    BY <2>1, <2>2, <2>3 DEF TypeOK
<1>9. ASSUME NEW h \in Handlers, PatchSet(h) PROVE TypeOK'
  BY <1>2, <1>3, <1>9, RowsTyped DEF PatchSet, GoTo, TypeOK, Phases, InPatch
<1>10. ASSUME NEW h \in Handlers, EndDelete(h) PROVE TypeOK'
  BY <1>2, <1>10, RowsTyped DEF EndDelete, GoTo, TypeOK, Phases, InEnd
<1>11. ASSUME NEW h \in Handlers, FlushStored(h) PROVE TypeOK'
  <2>1. handler' = [handler EXCEPT ![h] = [[handler[h] EXCEPT !.phase = "publish"] EXCEPT !.flushed = TRUE]]
    BY <1>1, <1>11 DEF FlushStored
  <2>2. [handler[h] EXCEPT !.phase = "publish"] \in HandlerType
    BY <1>1 DEF Phases, InEnd
  <2>3. [[handler[h] EXCEPT !.phase = "publish"] EXCEPT !.flushed = TRUE] \in HandlerType
    BY <2>2
  <2>4. handler' \in [Handlers -> HandlerType]
    <3> HIDE DEF HandlerType
    <3> QED
      BY <1>1, <2>1, <2>3
  <2> QED
    BY <1>4, <1>11, <2>4 DEF FlushStored, TypeOK
<1>12. ASSUME NEW h \in Handlers, FlushRefused(h) PROVE TypeOK'
  BY <1>2, <1>12 DEF FlushRefused, GoTo, TypeOK, Phases, InEnd
<1>13. ASSUME NEW h \in Handlers, FlushUnanswered(h) PROVE TypeOK'
  <2>1. handler' \in [Handlers -> HandlerType]
    <3>1. CASE handler[h].attempt < Retries
      <4>1. handler' = [handler EXCEPT ![h].attempt = @ + 1]
        BY <1>13, <3>1 DEF FlushUnanswered, GiveUpOrRetry
      <4>2. handler[h].attempt + 1 \in 0..Retries
        BY <1>1, <3>1
      <4> QED
        BY <1>1, <4>1, <4>2
    <3>2. CASE ~(handler[h].attempt < Retries)
      BY <1>2, <1>13, <3>2 DEF FlushUnanswered, GiveUpOrRetry, Phases, InEnd
    <3> QED
      BY <3>1, <3>2
  <2> QED
    BY <1>4, <1>13, <2>1 DEF FlushUnanswered, TypeOK
<1>14. ASSUME NEW h \in Handlers, EndPublish(h) PROVE TypeOK'
  BY <1>1, <1>2, <1>14 DEF EndPublish, GoTo, TypeOK, Phases, InEnd
<1>15. ASSUME NEW h \in Handlers, Crash(h) PROVE TypeOK'
  BY <1>2, <1>15 DEF Crash, GoTo, TypeOK, Phases, Finished
<1>16. CASE Tick
  <2>1. row' \in RowType
    <3>1. CASE row.ttl > 1
      <4>1. row' = [row EXCEPT !.ttl = @ - 1] /\ row.ttl - 1 \in 0..Ttl
        BY <1>1, <1>16, <3>1 DEF Tick
      <4> QED
        BY <1>1, <4>1
    <3>2. CASE row.ttl = 1
      BY <1>16, <3>2, RowsTyped DEF Tick
    <3>3. CASE row.ttl # 1 /\ ~(row.ttl > 1)
      BY <1>1, <1>16, <3>3 DEF Tick
    <3> QED
      BY <3>1, <3>2, <3>3
  <2> QED
    BY <1>16, <2>1 DEF Tick, TypeOK
<1>17. CASE UNCHANGED vars
  BY <1>17 DEF vars, TypeOK
<1> QED
  BY <1>5, <1>7, <1>8, <1>9, <1>10, <1>11, <1>12, <1>13, <1>14, <1>15, <1>16, <1>17
     DEF Next, Continue

(* The handlers a step leaves alone, and the one it moves.                 *)
Moved(h, next) ==
  /\ handler'[h].phase = next
  /\ handler'[h].read = handler[h].read
  /\ \A q \in Handlers \ {h} : handler'[q] = handler[q]

LEMMA GoToMoves ==
  ASSUME TypeOK, NEW h \in Handlers, NEW next, GoTo(h, next)
  PROVE  Moved(h, next)
  BY DEF TypeOK, GoTo, Moved

LEMMA NextIInv == IInv /\ [Next]_vars => IInv'
<1> SUFFICES ASSUME IInv, [Next]_vars PROVE IInv'
  OBVIOUS
<1>1. TypeOK /\ TypeOK'
  BY NextTypeOK DEF IInv
<1> USE DEF IInv, UncontestedPatchKept, UncontestedEndIsFinal, WindowsContested,
            WritersCarry, NoWriterAfterEnd, NobodyBeforeCreate, At, InEnd
<1>2. CASE Create
  <2>1. \A h \in Handlers : handler'[h].phase = "new"
    BY <1>2 DEF Create
  <2> QED
    BY <1>1, <1>2, <2>1 DEF Create
<1>3. ASSUME NEW h \in Handlers, Start(h) PROVE IInv'
  <2>1. created /\ created' /\ row' = row /\ At(h, "new")
    <3>1. NotFound(h) => created /\ created' = created /\ row' = row /\ At(h, "new")
      BY Zenon DEF NotFound
    <3>2. ASSUME NEW next, Fetch(h, next)
          PROVE  created /\ created' = created /\ row' = row /\ At(h, "new")
      BY <3>2, Zenon DEF Fetch
    <3> QED
      BY <1>3, <3>1, <3>2 DEF Start, ReadGet, PatchGet, EndGet
  <2>2. CASE NotFound(h)
    <3>1. Moved(h, "not found") /\ contested' = contested
      BY <1>1, <2>2, GoToMoves DEF NotFound
    <3> QED
      BY <1>1, <2>1, <3>1 DEF Moved
  <2>3. ASSUME NEW next \in {"expire", "set", "delete"}, Fetch(h, next)
        PROVE  /\ row.live /\ handler'[h].phase = next /\ handler'[h].read = row.state
               /\ \A q \in Handlers \ {h} : handler'[q] = handler[q]
    BY <1>1, <2>3 DEF Fetch, TypeOK
  <2>4. CASE ReadGet(h) \/ EndGet(h)
    <3>1. PICK next \in {"expire", "delete"} : Fetch(h, next) /\ contested' = contested
      BY <2>4 DEF ReadGet, EndGet
    <3>2. /\ handler'[h].phase = next
          /\ \A q \in Handlers \ {h} : handler'[q] = handler[q]
      BY <2>3, <3>1
    <3> QED
      BY <1>1, <2>1, <3>1, <3>2
  <2>5. CASE PatchGet(h)
    <3>1. /\ row.live /\ handler'[h].phase = "set" /\ handler'[h].read = row.state
          /\ \A q \in Handlers \ {h} : handler'[q] = handler[q]
      BY <2>3, <2>5 DEF PatchGet
    <3>2. /\ contested \subseteq contested'
          /\ \A q \in Handlers : At(q, "set") => q \in contested' /\ h \in contested'
      BY <2>5 DEF PatchGet
    <3>3. UncontestedPatchKept' /\ UncontestedEndIsFinal' /\ NobodyBeforeCreate'
      BY <2>1, <3>1, <3>2
    <3>4. WindowsContested'
      BY <2>1, <3>1, <3>2
    <3>5. WritersCarry' /\ NoWriterAfterEnd'
      BY <2>1, <3>1, <3>2
    <3> QED
      BY <1>1, <3>3, <3>4, <3>5
  <2> QED
    BY <1>3, <2>2, <2>4, <2>5 DEF Start
<1>4. ASSUME NEW h \in Handlers, ~At(h, "new") PROVE created
  BY <1>4
<1>5. ASSUME NEW h \in Handlers, ReadExpire(h) PROVE IInv'
  <2>1. Moved(h, "served") /\ created' = created /\ contested' = contested /\ created
    BY <1>1, <1>4, <1>5, GoToMoves DEF ReadExpire
  <2>2. row'.live = row.live /\ row'.state = row.state
    <3>1. CASE row.live
      BY <1>1, <1>5, <3>1 DEF ReadExpire, TypeOK
    <3>2. CASE ~row.live
      BY <1>5, <3>2 DEF ReadExpire
    <3> QED
      BY <3>1, <3>2
  <2> QED
    BY <1>1, <2>1, <2>2 DEF Moved
<1>6. ASSUME NEW h \in Handlers, PatchSet(h) PROVE IInv'
  <2>1. /\ Moved(h, "patched") /\ created' = created /\ contested' = contested /\ created
        /\ At(h, "set")
    BY <1>1, <1>4, <1>6, GoToMoves DEF PatchSet
  <2>2. row'.live /\ row'.state = handler[h].read \cup {h}
    <3>1. handler[h].read \cup {h} \in States
      BY <1>1, StatesClosed DEF TypeOK
    <3> QED
      BY <1>6, <3>1, RowsTyped DEF PatchSet
  <2>3. UncontestedPatchKept'
    BY <2>1, <2>2 DEF Moved
  <2>4. UncontestedEndIsFinal' /\ NoWriterAfterEnd'
    BY <2>1, <2>2 DEF Moved
  <2>5. WindowsContested' /\ WritersCarry' /\ NobodyBeforeCreate'
    BY <2>1 DEF Moved
  <2> QED
    BY <1>1, <2>3, <2>4, <2>5
<1>7. ASSUME NEW h \in Handlers, EndDelete(h) PROVE IInv'
  <2>1. PICK next \in {"publish", "flush"} : Moved(h, next)
    BY <1>1, <1>7, GoToMoves DEF EndDelete
  <2>2. created' = created /\ created /\ ~row'.live
    BY <1>4, <1>7, RowsTyped DEF EndDelete
  <2>3. /\ contested \subseteq contested'
        /\ h \notin contested' => \A q \in Handlers : ~At(q, "set")
    BY <1>7 DEF EndDelete
  <2>4. UncontestedPatchKept' /\ UncontestedEndIsFinal' /\ NobodyBeforeCreate'
    BY <2>2
  <2>5. WindowsContested' /\ WritersCarry'
    BY <2>1, <2>3 DEF Moved
  <2>6. NoWriterAfterEnd'
    BY <2>1, <2>3 DEF Moved
  <2> QED
    BY <1>1, <2>4, <2>5, <2>6
(* The rest of DELETE and a crash move a handler on and leave the session. *)
<1>8. ASSUME NEW h \in Handlers,
             NEW next \in {"flush", "publish", "ended", "crashed"}, Moved(h, next),
             ~At(h, "new"), next = "crashed" \/ handler[h].phase \in {"flush", "publish"},
             UNCHANGED <<row, created, contested>>
      PROVE  IInv'
  BY <1>1, <1>4, <1>8 DEF Moved
<1>9. ASSUME NEW h \in Handlers, FlushStored(h) PROVE IInv'
  <2>1. Moved(h, "publish")
    BY <1>1, <1>9 DEF FlushStored, Moved, TypeOK
  <2> QED
    BY <1>8, <1>9, <2>1 DEF FlushStored
<1>10. ASSUME NEW h \in Handlers, FlushRefused(h) PROVE IInv'
  <2>1. Moved(h, "publish")
    BY <1>1, <1>10, GoToMoves DEF FlushRefused
  <2> QED
    BY <1>8, <1>10, <2>1 DEF FlushRefused
<1>11. ASSUME NEW h \in Handlers, FlushUnanswered(h) PROVE IInv'
  <2>1. Moved(h, "flush") \/ Moved(h, "publish")
    <3>1. CASE handler[h].attempt < Retries
      BY <1>1, <1>11, <3>1 DEF FlushUnanswered, GiveUpOrRetry, Moved, TypeOK
    <3>2. CASE ~(handler[h].attempt < Retries)
      BY <1>1, <1>11, <3>2 DEF FlushUnanswered, GiveUpOrRetry, Moved, TypeOK
    <3> QED
      BY <3>1, <3>2
  <2> QED
    BY <1>8, <1>11, <2>1 DEF FlushUnanswered
<1>12. ASSUME NEW h \in Handlers, EndPublish(h) PROVE IInv'
  <2>1. Moved(h, "ended")
    BY <1>1, <1>12, GoToMoves DEF EndPublish
  <2> QED
    BY <1>8, <1>12, <2>1 DEF EndPublish
<1>13. ASSUME NEW h \in Handlers, Crash(h) PROVE IInv'
  <2>1. Moved(h, "crashed") /\ ~At(h, "new")
    BY <1>1, <1>13, GoToMoves DEF Crash
  <2> QED
    BY <1>8, <1>13, <2>1 DEF Crash
<1>14. CASE Tick
  <2>1. row'.live => row.live /\ row'.state = row.state
    <3>1. CASE row.ttl > 1
      BY <1>1, <1>14, <3>1 DEF Tick, TypeOK
    <3>2. CASE row.ttl = 1
      BY <1>14, <3>2, RowsTyped DEF Tick
    <3>3. CASE row.ttl # 1 /\ ~(row.ttl > 1)
      BY <1>1, <1>14, <3>3 DEF Tick
    <3> QED
      BY <3>1, <3>2, <3>3
  <2>2. created /\ created' /\ handler' = handler /\ contested' = contested
    BY <1>14 DEF Tick
  <2> QED
    BY <1>1, <2>1, <2>2
<1>15. CASE UNCHANGED vars
  BY <1>1, <1>15 DEF vars
<1> QED
  BY <1>2, <1>3, <1>5, <1>6, <1>7, <1>9, <1>10, <1>11, <1>12, <1>13, <1>14, <1>15
     DEF Next, Continue

(* In every behaviour, for every set of concurrent handlers.               *)
THEOREM Invariance == Spec => []IInv
  BY InitIInv, NextIInv, PTL DEF Spec

(* The session, the handlers and what they sent out always have their      *)
(* type; in particular no call is retried more often than Retries.         *)
THEOREM TypeCorrect == Spec => []TypeOK
<1>1. IInv => TypeOK
  BY DEF IInv
<1> QED
  BY <1>1, Invariance, PTL

(* A lost update needs two PATCHes whose GET-to-SET windows meet           *)
(* (merge_state): every other acknowledged PATCH stays in the session.     *)
THEOREM PatchKept == Spec => []UncontestedPatchKept
<1>1. IInv => UncontestedPatchKept
  BY DEF IInv
<1> QED
  BY <1>1, Invariance, PTL

(* A session comes back after its DELETE only through a PATCH that was     *)
(* between its GET and SET at that moment (end, merge_state).              *)
THEOREM EndFinal == Spec => []UncontestedEndIsFinal
<1>1. IInv => UncontestedEndIsFinal
  BY DEF IInv
<1> QED
  BY <1>1, Invariance, PTL

(* Whoever says that it has flushed has read nothing since, and the        *)
(* summary of what it read is stored.                                      *)
SummaryStored(h) ==
  /\ handler[h].flushed =>
       ~At(h, "new") /\ \E s \in summaries : s.by = h /\ s.state = handler[h].read
  /\ [by |-> h, flushed |-> TRUE] \in events => handler[h].flushed

FlushLeavesSummary == \A h \in Handlers : SummaryStored(h)

LEMMA OthersUntouched ==
  ASSUME NEW q, SummaryStored(q), handler'[q] = handler[q], summaries \subseteq summaries',
         [by |-> q, flushed |-> TRUE] \in events' => [by |-> q, flushed |-> TRUE] \in events
  PROVE  SummaryStored(q)'
<1>1. /\ handler'[q].flushed <=> handler[q].flushed
      /\ handler'[q].read = handler[q].read /\ handler'[q].phase = handler[q].phase
  BY Zenon
<1> QED
  BY <1>1, Zenon DEF SummaryStored, At

(* Steps of a handler that keep what it read and whether it has flushed.   *)
LEMMA FlushUntouched ==
  ASSUME FlushLeavesSummary, NEW h \in Handlers,
         handler'[h].flushed <=> handler[h].flushed, handler'[h].read = handler[h].read,
         handler'[h].phase # "new", \A q \in Handlers \ {h} : handler'[q] = handler[q],
         summaries \subseteq summaries', events' = events
  PROVE  FlushLeavesSummary'
<1>1. SummaryStored(h)'
  <2>1. SummaryStored(h)
    BY DEF FlushLeavesSummary
  <2>2. handler'[h].flushed =>
          ~At(h, "new")' /\ \E s \in summaries' : s.by = h /\ s.state = handler'[h].read
    <3>1. ASSUME handler'[h].flushed
          PROVE  \E s \in summaries' : s.by = h /\ s.state = handler'[h].read
      <4>1. PICK s \in summaries : s.by = h /\ s.state = handler[h].read
        BY <2>1, <3>1, Zenon DEF SummaryStored
      <4> QED
        BY <4>1, Zenon
    <3> QED
      BY <3>1, Zenon DEF At
  <2>3. [by |-> h, flushed |-> TRUE] \in events' => handler'[h].flushed
    BY <2>1, Zenon DEF SummaryStored
  <2> QED
    BY <2>2, <2>3, Zenon DEF SummaryStored
<1>2. \A q \in Handlers \ {h} : SummaryStored(q)'
  BY OthersUntouched DEF FlushLeavesSummary
<1> QED
  BY <1>1, <1>2 DEF FlushLeavesSummary

LEMMA GoToKeepsFlushed ==
  ASSUME TypeOK, NEW h \in Handlers, NEW next, next # "new", GoTo(h, next)
  PROVE  /\ handler'[h].flushed <=> handler[h].flushed
         /\ handler'[h].read = handler[h].read
         /\ handler'[h].phase # "new"
         /\ \A q \in Handlers \ {h} : handler'[q] = handler[q]
BY DEF TypeOK, GoTo

LEMMA NextFlush == TypeOK /\ FlushLeavesSummary /\ [Next]_vars => FlushLeavesSummary'
<1> SUFFICES ASSUME TypeOK, FlushLeavesSummary, [Next]_vars PROVE FlushLeavesSummary'
  OBVIOUS
<1>1. CASE Create \/ Tick \/ UNCHANGED vars
  <2>1. UNCHANGED <<handler, summaries, events>>
    BY <1>1 DEF Create, Tick, vars
  <2> QED
    BY <2>1 DEF FlushLeavesSummary, SummaryStored, At
<1>2. ASSUME NEW h \in Handlers, Start(h) PROVE FlushLeavesSummary'
  <2>1. UNCHANGED <<summaries, events>> /\ At(h, "new")
    BY <1>2, Zenon DEF Start, NotFound, ReadGet, PatchGet, EndGet, Fetch
  <2>2. ~handler[h].flushed
    BY <2>1 DEF FlushLeavesSummary, SummaryStored
  <2>3. /\ handler'[h].flushed <=> handler[h].flushed
        /\ \A q \in Handlers \ {h} : handler'[q] = handler[q]
    <3>1. CASE NotFound(h)
      BY <3>1, GoToKeepsFlushed DEF NotFound
    <3>2. ASSUME NEW next, Fetch(h, next)
          PROVE  /\ handler'[h].flushed <=> handler[h].flushed
                 /\ \A q \in Handlers \ {h} : handler'[q] = handler[q]
      BY <3>2 DEF Fetch, TypeOK
    <3> QED
      BY <1>2, <3>1, <3>2 DEF Start, ReadGet, PatchGet, EndGet
  <2>4. \A q \in Handlers \ {h} : SummaryStored(q)'
    BY <2>1, <2>3, OthersUntouched DEF FlushLeavesSummary
  <2>5. SummaryStored(h)'
    BY <2>1, <2>2, <2>3, Zenon DEF FlushLeavesSummary, SummaryStored
  <2> QED
    BY <2>4, <2>5 DEF FlushLeavesSummary
<1>3. ASSUME NEW h \in Handlers, FlushStored(h) PROVE FlushLeavesSummary'
  <2>1. /\ handler'[h].read = handler[h].read /\ handler'[h].phase = "publish"
        /\ \A q \in Handlers \ {h} : handler'[q] = handler[q]
    BY <1>3 DEF FlushStored, TypeOK
  <2>2. handler'[h].flushed
    BY <1>3 DEF FlushStored, TypeOK
  <2>3. Summary(h) \in summaries' /\ summaries \subseteq summaries' /\ events' = events
    BY <1>3 DEF FlushStored
  <2>4. Summary(h).by = h /\ Summary(h).state = handler[h].read
    BY DEF Summary
  <2>5. \A q \in Handlers \ {h} : SummaryStored(q)'
    BY <2>1, <2>3, OthersUntouched DEF FlushLeavesSummary
  <2>6. SummaryStored(h)'
    BY <2>1, <2>2, <2>3, <2>4 DEF SummaryStored, At
  <2> QED
    BY <2>5, <2>6 DEF FlushLeavesSummary
<1>4. ASSUME NEW h \in Handlers, FlushUnanswered(h) PROVE FlushLeavesSummary'
  <2>1. summaries \subseteq summaries' /\ events' = events /\ At(h, "flush")
    BY <1>4 DEF FlushUnanswered
  <2>2. /\ (handler'[h].flushed <=> handler[h].flushed) /\ handler'[h].read = handler[h].read
        /\ handler'[h].phase # "new" /\ \A q \in Handlers \ {h} : handler'[q] = handler[q]
    BY <1>4, <2>1 DEF FlushUnanswered, GiveUpOrRetry, TypeOK, At
  <2> QED
    BY <2>1, <2>2, FlushUntouched
<1>5. ASSUME NEW h \in Handlers, EndPublish(h) PROVE FlushLeavesSummary'
  <2>1. /\ (handler'[h].flushed <=> handler[h].flushed) /\ handler'[h].read = handler[h].read
        /\ handler'[h].phase # "new" /\ \A q \in Handlers \ {h} : handler'[q] = handler[q]
    BY <1>5, GoToKeepsFlushed DEF EndPublish
  <2>2. summaries' = summaries /\ At(h, "publish")
    BY <1>5 DEF EndPublish
  <2>3. ASSUME NEW q \in Handlers, [by |-> q, flushed |-> TRUE] \in events'
        PROVE  [by |-> q, flushed |-> TRUE] \in events \/ (q = h /\ handler[h].flushed)
    BY <1>5, <2>3 DEF EndPublish
  <2>4. \A q \in Handlers \ {h} : SummaryStored(q)'
    BY <2>1, <2>2, <2>3, OthersUntouched DEF FlushLeavesSummary
  <2>5. SummaryStored(h)'
    BY <2>1, <2>2, <2>3, Zenon DEF FlushLeavesSummary, SummaryStored, At
  <2> QED
    BY <2>4, <2>5 DEF FlushLeavesSummary
<1>6. ASSUME NEW h \in Handlers, NEW next \in Phases \ {"new"}, GoTo(h, next),
             UNCHANGED <<summaries, events>>
      PROVE  FlushLeavesSummary'
  BY <1>6, FlushUntouched, GoToKeepsFlushed
<1>7. ASSUME NEW h \in Handlers,
             ReadExpire(h) \/ PatchSet(h) \/ EndDelete(h) \/ FlushRefused(h) \/ Crash(h)
      PROVE  FlushLeavesSummary'
  <2>1. PICK next \in Phases \ {"new"} : GoTo(h, next)
    BY <1>7 DEF ReadExpire, PatchSet, EndDelete, FlushRefused, Crash, Phases, InPatch, InEnd,
                Finished
  <2>2. UNCHANGED <<summaries, events>>
    BY <1>7 DEF ReadExpire, PatchSet, EndDelete, FlushRefused, Crash
  <2> QED
    BY <1>6, <2>1, <2>2
<1> QED
  BY <1>1, <1>2, <1>3, <1>4, <1>5, <1>7 DEF Next, Continue

(* "flushed": true is never said in vain, neither in the answer of a       *)
(* DELETE nor in its event, whatever calls were retried, refused or cut    *)
(* off by a crash (end_session, flush).                                    *)
THEOREM FlushedStored == Spec => []FlushedIsStored
<1>1. Init => FlushLeavesSummary
  BY DEF Init, NewHandler, FlushLeavesSummary, SummaryStored
<1>2. FlushLeavesSummary => FlushedIsStored
  BY DEF FlushLeavesSummary, SummaryStored, FlushedIsStored, SaysFlushed
<1> QED
  BY <1>1, <1>2, NextFlush, TypeCorrect, PTL DEF Spec

(* What is left of the lifetime of a session, and the time since it was    *)
(* created or read, make up a whole lifetime at least.                     *)
LifetimeLeft == row.live => row.ttl > 0 /\ row.ttl + idle >= Ttl

LEMMA NextLifetime == TypeOK /\ LifetimeLeft /\ [Next]_vars => LifetimeLeft'
<1> SUFFICES ASSUME TypeOK, LifetimeLeft, [Next]_vars PROVE LifetimeLeft'
  OBVIOUS
<1>1. row \in [live : BOOLEAN, state : States, ttl : 0..Ttl] /\ idle \in 0..Ttl
  BY DEF TypeOK
<1>2. idle' \in Nat
  BY NextTypeOK DEF TypeOK
<1>3. ASSUME NEW s, row' = Live(s) PROVE LifetimeLeft'
  <2>1. row'.ttl = Ttl
    BY <1>3 DEF Live
  <2>2. Ttl > 0 /\ \A i \in Nat : Ttl + i >= Ttl
    OBVIOUS
  <2> QED
    BY <1>2, <2>1, <2>2, Zenon DEF LifetimeLeft
<1>4. CASE Create
  BY <1>3, <1>4 DEF Create
<1>5. ASSUME NEW h \in Handlers, ReadExpire(h) PROVE LifetimeLeft'
  <2>1. CASE row.live
    <3>1. row' = [row EXCEPT !.ttl = Ttl]
      BY <1>5, <2>1 DEF ReadExpire
    <3> QED
      BY <1>1, <1>2, <3>1 DEF LifetimeLeft
  <2>2. CASE ~row.live
    BY <1>5, <2>2 DEF ReadExpire, LifetimeLeft
  <2> QED
    BY <2>1, <2>2
<1>6. ASSUME NEW h \in Handlers, PatchSet(h) PROVE LifetimeLeft'
  BY <1>3, <1>6 DEF PatchSet
<1>7. ASSUME NEW h \in Handlers, EndDelete(h) PROVE LifetimeLeft'
  BY <1>7, RowsTyped DEF EndDelete, LifetimeLeft
<1>8. CASE Tick
  <2>1. CASE row.ttl > 1
    <3>1. row' = [row EXCEPT !.ttl = @ - 1] /\ idle' = IF idle < Ttl THEN idle + 1 ELSE idle
      BY <1>8, <2>1 DEF Tick
    <3> QED
      BY <1>1, <2>1, <3>1 DEF LifetimeLeft
  <2>2. CASE row.ttl = 1
    BY <1>8, <2>2, RowsTyped DEF Tick, LifetimeLeft
  <2>3. CASE row.ttl = 0
    BY <1>1, <1>8, <2>3 DEF Tick, LifetimeLeft
  <2> QED
    BY <1>1, <2>1, <2>2, <2>3
<1>9. ASSUME UNCHANGED <<row, idle>> PROVE LifetimeLeft'
  BY <1>9 DEF LifetimeLeft
<1>10. ASSUME NEW h \in Handlers,
              Start(h) \/ FlushStored(h) \/ FlushRefused(h) \/ FlushUnanswered(h)
                \/ EndPublish(h) \/ Crash(h)
       PROVE  UNCHANGED <<row, idle>>
  BY <1>10 DEF Start, NotFound, ReadGet, PatchGet, EndGet, Fetch, FlushStored, FlushRefused,
               FlushUnanswered, EndPublish, Crash
<1>11. CASE UNCHANGED vars
  BY <1>9, <1>11 DEF vars
<1> QED
  BY <1>4, <1>5, <1>6, <1>7, <1>8, <1>9, <1>10, <1>11 DEF Next, Continue

(* A session disappears only by a DELETE or when its whole lifetime has    *)
(* passed since it was created or last read, however the commands of GET,  *)
(* PATCH and DELETE interleave (ex= in create and merge_state, EXPIRE in   *)
(* get).                                                                   *)
THEOREM ExpiresInTime == Spec => NoEarlyExpiry
<1> DEFINE InTime == row.live /\ ~row'.live =>
                       \/ idle' >= Ttl
                       \/ \E h \in Handlers : At(h, "delete") /\ ~At(h, "delete")'
<1>1. Init => LifetimeLeft
  BY RowsTyped DEF Init, LifetimeLeft
<1>2. TypeOK /\ LifetimeLeft /\ [Next]_vars => [InTime]_vars
  <2> SUFFICES ASSUME TypeOK, LifetimeLeft, Next, row.live, ~row'.live
               PROVE  \/ idle' >= Ttl
                      \/ \E h \in Handlers : At(h, "delete") /\ ~At(h, "delete")'
    BY DEF vars
  <2>1. row \in [live : BOOLEAN, state : States, ttl : 0..Ttl] /\ idle \in 0..Ttl
    BY DEF TypeOK
  <2>2. ASSUME NEW s, row' = Live(s) PROVE FALSE
    BY <2>2 DEF Live
  <2>3. CASE Tick
    <3>1. row.ttl = 1
      <4>1. CASE row.ttl > 1
        <5>1. row' = [row EXCEPT !.ttl = @ - 1]
          BY <2>3, <4>1 DEF Tick
        <5> QED
          BY <2>1, <5>1
      <4>2. CASE row.ttl = 0
        BY <4>2 DEF LifetimeLeft
      <4> QED
        BY <2>1, <4>1, <4>2
    <3>2. idle' = IF idle < Ttl THEN idle + 1 ELSE idle
      BY <2>3 DEF Tick
    <3> QED
      BY <2>1, <3>1, <3>2 DEF LifetimeLeft
  <2>4. ASSUME NEW h \in Handlers, EndDelete(h)
        PROVE  At(h, "delete") /\ ~At(h, "delete")'
    <3>1. PICK next \in {"publish", "flush"} : GoTo(h, next)
      BY <2>4 DEF EndDelete
    <3>2. handler'[h].phase = next
      BY <3>1, GoToMoves DEF Moved
    <3> QED
      BY <2>4, <3>2 DEF EndDelete, At
  <2>5. ~Create /\ \A h \in Handlers : ~PatchSet(h)
    BY <2>2 DEF Create, PatchSet
  <2>6. ASSUME NEW h \in Handlers, ReadExpire(h) PROVE FALSE
    <3>1. row' = [row EXCEPT !.ttl = Ttl]
      BY <2>6 DEF ReadExpire
    <3> QED
      BY <2>1, <3>1
  <2>7. ASSUME NEW h \in Handlers,
               Start(h) \/ FlushStored(h) \/ FlushRefused(h) \/ FlushUnanswered(h)
                 \/ EndPublish(h) \/ Crash(h)
        PROVE  row' = row
    BY <2>7 DEF Start, NotFound, ReadGet, PatchGet, EndGet, Fetch, FlushStored, FlushRefused,
                FlushUnanswered, EndPublish, Crash
  <2> QED
    BY <2>3, <2>4, <2>5, <2>6, <2>7 DEF Next, Continue
<1> QED
  BY <1>1, <1>2, NextLifetime, TypeCorrect, PTL DEF Spec, NoEarlyExpiry
=============================================================================

------------------------ MODULE MemoryService_proofs ------------------------
(***************************************************************************)
(* Proofs about MemoryService, for every finite set of handlers.           *)
(***************************************************************************)
EXTENDS MemoryService, FiniteSetTheorems, SequenceTheorems, TLAPS

USE HandlersAssumption

(* What a handler may have left behind, by the phase it is in: a row or    *)
(* its traces only a POST that got past its INSERT, removed rows only a    *)
(* DELETE past its statement, an event only one that has been answered.    *)
InsertedPhases == {"announce store", "stored", "crashed"}
RemoverPhases  == {"deleted", "announce wipe", "wiped", "crashed"}

Traces ==
  /\ \A m \in table : phase[m] \in InsertedPhases
  /\ \A h, m \in Handlers : m \in removed[h] => phase[m] \in InsertedPhases
  /\ \A p \in patched : phase[p[2]] \in InsertedPhases
  /\ \A h \in Handlers : removed[h] # {} => phase[h] \in RemoverPhases

(* A memory that was stored is in the table or somebody has removed it.    *)
Accounted ==
  \A m \in Handlers : phase[m] \in {"announce store", "stored"}
                        => m \in table \/ \E h \in Handlers : m \in removed[h]

Disjoint ==
  /\ \A h \in Handlers : removed[h] \cap table = {}
  /\ \A h, g \in Handlers : h # g => removed[h] \cap removed[g] = {}

Told(m)     == phase[m] = "stored"
ToldWipe(e) == e = Wiped(e.by) /\ phase[e.by] = "wiped"

EventsTrue ==
  /\ \A i \in DOMAIN storedStream : Told(storedStream[i])
  /\ \A i \in DOMAIN wipedStream : ToldWipe(wipedStream[i])

IInv == TypeOK /\ Traces /\ Accounted /\ Disjoint /\ EventsTrue /\ PatchesKept

LEMMA RemovedCount ==
  ASSUME TypeOK, NEW h \in Handlers
  PROVE  Cardinality(removed[h]) \in Nat
<1>1. removed[h] \subseteq Handlers
  BY DEF TypeOK
<1>2. IsFiniteSet(removed[h])
  BY <1>1, FS_Subset
<1> QED
  BY <1>2, FS_CardinalityType

LEMMA AppendFacts ==
  ASSUME NEW S, NEW s \in Seq(S), NEW x \in S
  PROVE  /\ Append(s, x) \in Seq(S)
         /\ DOMAIN Append(s, x) = DOMAIN s \cup {Len(s) + 1}
         /\ Append(s, x)[Len(s) + 1] = x
         /\ \A i \in DOMAIN s : Append(s, x)[i] = s[i] /\ s[i] \in S
         /\ Len(s) + 1 \notin DOMAIN s
<1>1. /\ Append(s, x) \in Seq(S) /\ Len(Append(s, x)) = Len(s) + 1
      /\ Append(s, x)[Len(s) + 1] = x
      /\ \A i \in 1..Len(s) : Append(s, x)[i] = s[i]
  BY AppendProperties
<1>2. DOMAIN s = 1..Len(s) /\ DOMAIN Append(s, x) = 1..(Len(s) + 1) /\ Len(s) \in Nat
  BY <1>1
<1>3. \A i \in DOMAIN s : s[i] \in S
  OBVIOUS
<1> QED
  BY <1>1, <1>2, <1>3

LEMMA InitIInv == Init => IInv
<1> SUFFICES ASSUME Init PROVE IInv
  OBVIOUS
<1> USE DEF Init
<1>1. TypeOK
  BY DEF TypeOK, Phases, Finished, PublishedOnce
<1>2. Traces /\ Accounted /\ Disjoint
  BY DEF Traces, Accounted, Disjoint
<1>3. EventsTrue /\ PatchesKept
  BY DEF EventsTrue, PatchesKept
<1> QED
  BY <1>1, <1>2, <1>3 DEF IInv

(* Events stay true while the handlers they are about stay as they are.    *)
LEMMA StillTold ==
  ASSUME IInv, NEW h \in Handlers, phase[h] \notin {"stored", "wiped"},
         NEW p, phase' = [phase EXCEPT ![h] = p],
         \A g \in Handlers \ {h} : removed'[g] = removed[g]
  PROVE  /\ \A m \in Handlers : Told(m) => m # h /\ phase'[m] = "stored"
         /\ \A e \in WipeEvents : ToldWipe(e) =>
              /\ e.by # h /\ phase'[e.by] = "wiped"
              /\ e = [by |-> e.by, deleted |-> Cardinality(removed'[e.by])]
<1>1. \A g \in Handlers \ {h} : phase'[g] = phase[g]
  BY DEF IInv, TypeOK
<1>2. \A e \in WipeEvents : e.by \in Handlers
  BY DEF WipeEvents
<1>3. ASSUME NEW m \in Handlers, Told(m) PROVE m # h /\ phase'[m] = "stored"
  BY <1>1, <1>3 DEF Told
<1>4. ASSUME NEW e \in WipeEvents, ToldWipe(e)
      PROVE  /\ e.by # h /\ phase'[e.by] = "wiped"
             /\ e = [by |-> e.by, deleted |-> Cardinality(removed'[e.by])]
  <2>1. e.by \in Handlers /\ e.by # h
    BY <1>2, <1>4 DEF ToldWipe
  <2>2. removed'[e.by] = removed[e.by]
    BY <2>1
  <2>3. e = [by |-> e.by, deleted |-> Cardinality(removed[e.by])]
    BY <1>4 DEF ToldWipe, Wiped
  <2> QED
    BY <1>1, <1>4, <2>1, <2>2, <2>3 DEF ToldWipe
<1> QED
  BY <1>3, <1>4

LEMMA EventsUntouched ==
  ASSUME IInv, NEW h \in Handlers, phase[h] \notin {"stored", "wiped"},
         NEW p, phase' = [phase EXCEPT ![h] = p],
         \A g \in Handlers \ {h} : removed'[g] = removed[g],
         UNCHANGED streams
  PROVE  EventsTrue'
<1>1. /\ \A i \in DOMAIN storedStream : storedStream[i] \in Handlers /\ Told(storedStream[i])
      /\ \A i \in DOMAIN wipedStream : wipedStream[i] \in WipeEvents /\ ToldWipe(wipedStream[i])
  BY DEF IInv, TypeOK, EventsTrue
<1>2. UNCHANGED <<storedStream, wipedStream>>
  BY DEF streams
<1>3. \A i \in DOMAIN storedStream : phase'[storedStream[i]] = "stored"
  BY <1>1, StillTold
<1>4. \A i \in DOMAIN wipedStream :
        /\ phase'[wipedStream[i].by] = "wiped"
        /\ wipedStream[i] = [by |-> wipedStream[i].by,
                             deleted |-> Cardinality(removed'[wipedStream[i].by])]
  BY <1>1, StillTold
<1> QED
  BY <1>2, <1>3, <1>4, Zenon DEF EventsTrue, Told, ToldWipe, Wiped

(* Steps that only move a handler on.                                      *)
LEMMA PhaseStep ==
  ASSUME IInv, NEW h \in Handlers, NEW p \in Phases,
         GoTo(h, p),
         phase[h] \notin {"stored", "wiped"}, p \notin {"announce store", "stored"},
         phase[h] \in InsertedPhases => p \in InsertedPhases,
         phase[h] \in RemoverPhases  => p \in RemoverPhases,
         UNCHANGED <<table, metadata, removed, streams, patched>>
  PROVE  IInv'
<1>1. phase' = [phase EXCEPT ![h] = p] /\ phase \in [Handlers -> Phases]
  BY DEF GoTo, IInv, TypeOK
<1>2. TypeOK'
  BY <1>1 DEF IInv, TypeOK, PublishedOnce, streams
<1>3. Traces'
  BY <1>1 DEF IInv, TypeOK, Traces
<1>4. Accounted'
  BY <1>1 DEF IInv, Accounted
<1>5. Disjoint' /\ PatchesKept'
  BY DEF IInv, Disjoint, PatchesKept
<1>6. EventsTrue'
  BY <1>1, EventsUntouched
<1> QED
  BY <1>2, <1>3, <1>4, <1>5, <1>6 DEF IInv

(* Steps that answer a request; whether they have published its one event  *)
(* is another matter.                                                      *)
LEMMA AnswerStep ==
  ASSUME IInv, NEW h \in Handlers, NEW p,
         \/ phase[h] = "announce store" /\ p = "stored"
         \/ phase[h] = "announce wipe"  /\ p = "wiped",
         GoTo(h, p),
         UNCHANGED <<table, metadata, removed, patched>>
  PROVE  /\ phase' = [phase EXCEPT ![h] = p] /\ phase[h] \notin {"stored", "wiped"}
         /\ phase' \in [Handlers -> Phases] /\ phase'[h] = p
         /\ Traces' /\ Accounted' /\ Disjoint' /\ PatchesKept'
<1>1. /\ phase' = [phase EXCEPT ![h] = p] /\ phase \in [Handlers -> Phases]
      /\ phase[h] \notin {"stored", "wiped"}
  BY DEF GoTo, IInv, TypeOK
<1>2. phase' \in [Handlers -> Phases] /\ phase'[h] = p
  BY <1>1 DEF Phases, Finished
<1>3. Traces'
  BY <1>1, <1>2 DEF IInv, TypeOK, Traces, InsertedPhases, RemoverPhases
<1>4. Accounted'
  BY <1>1 DEF IInv, Accounted
<1>5. Disjoint' /\ PatchesKept'
  BY DEF IInv, Disjoint, PatchesKept
<1> QED
  BY <1>1, <1>2, <1>3, <1>4, <1>5

LEMMA AnnounceStoreIInv ==
  ASSUME IInv, NEW h \in Handlers, AnnounceStore(h)
  PROVE  IInv'
<1>0. /\ phase[h] = "announce store" /\ GoTo(h, "stored")
      /\ UNCHANGED <<table, metadata, removed, patched>> /\ UNCHANGED wipedStream
      /\ storedStream' \in {storedStream, Append(storedStream, h)}
  BY DEF AnnounceStore, Publish
<1>1. /\ phase' = [phase EXCEPT ![h] = "stored"] /\ phase[h] \notin {"stored", "wiped"}
      /\ phase' \in [Handlers -> Phases] /\ phase'[h] = "stored"
      /\ Traces' /\ Accounted' /\ Disjoint' /\ PatchesKept'
  BY <1>0, AnswerStep
<1>2. CASE storedStream' = storedStream
  <2>1. TypeOK'
    BY <1>0, <1>1, <1>2 DEF IInv, TypeOK, PublishedOnce, streams
  <2>2. EventsTrue'
    BY <1>0, <1>1, <1>2, EventsUntouched DEF streams
  <2> QED
    BY <1>1, <2>1, <2>2 DEF IInv
<1>3. CASE storedStream' = Append(storedStream, h)
  <2> DEFINE n == Len(storedStream) + 1
  <2>1. /\ storedStream' \in Seq(Handlers) /\ DOMAIN storedStream' = DOMAIN storedStream \cup {n}
        /\ storedStream'[n] = h
        /\ \A i \in DOMAIN storedStream : /\ storedStream'[i] = storedStream[i]
                                          /\ storedStream[i] \in Handlers
        /\ n \notin DOMAIN storedStream
    BY <1>3, AppendFacts DEF IInv, TypeOK
  <2> HIDE DEF n
  <2>0. /\ \A i \in DOMAIN storedStream : Told(storedStream[i])
        /\ \A i \in DOMAIN wipedStream :
             wipedStream[i] \in WipeEvents /\ ToldWipe(wipedStream[i])
    BY DEF IInv, TypeOK, EventsTrue
  <2>2. \A i \in DOMAIN storedStream : storedStream[i] # h /\ phase'[storedStream[i]] = "stored"
    BY <1>0, <1>1, <2>0, <2>1, StillTold
  <2>3. \A i \in DOMAIN wipedStream :
          /\ phase'[wipedStream[i].by] = "wiped"
          /\ wipedStream[i] = [by |-> wipedStream[i].by,
                               deleted |-> Cardinality(removed'[wipedStream[i].by])]
    BY <1>0, <1>1, <2>0, StillTold
  <2>4. PublishedOnce'
    BY <1>0, <2>1, <2>2 DEF PublishedOnce, IInv, TypeOK
  <2>5. TypeOK'
    BY <1>0, <1>1, <2>1, <2>4 DEF IInv, TypeOK
  <2>6. \A i \in DOMAIN storedStream' : phase'[storedStream'[i]] = "stored"
    BY <1>1, <2>1, <2>2
  <2>7. EventsTrue'
    BY <1>0, <2>3, <2>6, Zenon DEF EventsTrue, Told, ToldWipe, Wiped
  <2> QED
    BY <1>1, <2>5, <2>7 DEF IInv
<1> QED
  BY <1>0, <1>2, <1>3

LEMMA AnnounceWipeIInv ==
  ASSUME IInv, NEW h \in Handlers, AnnounceWipe(h)
  PROVE  IInv'
<1>0. /\ phase[h] = "announce wipe" /\ GoTo(h, "wiped")
      /\ UNCHANGED <<table, metadata, removed, patched>> /\ UNCHANGED storedStream
      /\ wipedStream' \in {wipedStream, Append(wipedStream, Wiped(h))}
  BY DEF AnnounceWipe, Publish
<1>1. /\ phase' = [phase EXCEPT ![h] = "wiped"] /\ phase[h] \notin {"stored", "wiped"}
      /\ phase' \in [Handlers -> Phases] /\ phase'[h] = "wiped"
      /\ Traces' /\ Accounted' /\ Disjoint' /\ PatchesKept'
  BY <1>0, AnswerStep
<1>2. CASE wipedStream' = wipedStream
  <2>1. TypeOK'
    BY <1>0, <1>1, <1>2 DEF IInv, TypeOK, PublishedOnce, streams
  <2>2. EventsTrue'
    BY <1>0, <1>1, <1>2, EventsUntouched DEF streams
  <2> QED
    BY <1>1, <2>1, <2>2 DEF IInv
<1>3. CASE wipedStream' = Append(wipedStream, Wiped(h))
  <2> DEFINE n == Len(wipedStream) + 1
  <2>0. Wiped(h) \in WipeEvents
    BY RemovedCount DEF IInv, Wiped, WipeEvents
  <2>1. /\ wipedStream' \in Seq(WipeEvents) /\ DOMAIN wipedStream' = DOMAIN wipedStream \cup {n}
        /\ wipedStream'[n] = Wiped(h)
        /\ \A i \in DOMAIN wipedStream : /\ wipedStream'[i] = wipedStream[i]
                                         /\ wipedStream[i] \in WipeEvents
        /\ n \notin DOMAIN wipedStream
    BY <1>3, <2>0, AppendFacts DEF IInv, TypeOK
  <2> HIDE DEF n
  <2>9. /\ \A i \in DOMAIN storedStream :
             storedStream[i] \in Handlers /\ Told(storedStream[i])
        /\ \A i \in DOMAIN wipedStream : ToldWipe(wipedStream[i])
    BY DEF IInv, TypeOK, EventsTrue
  <2>2. \A i \in DOMAIN wipedStream :
          /\ wipedStream[i].by # h /\ phase'[wipedStream[i].by] = "wiped"
          /\ wipedStream[i] = [by |-> wipedStream[i].by,
                               deleted |-> Cardinality(removed'[wipedStream[i].by])]
    BY <1>0, <1>1, <2>1, <2>9, StillTold
  <2>3. \A i \in DOMAIN storedStream : phase'[storedStream[i]] = "stored"
    BY <1>0, <1>1, <2>9, StillTold
  <2>4. Wiped(h).by = h /\ Wiped(h) = [by |-> h, deleted |-> Cardinality(removed'[h])]
    BY <1>0 DEF Wiped
  <2>5. PublishedOnce'
    <3>1. /\ UNCHANGED storedStream
          /\ \A i, j \in DOMAIN storedStream : storedStream[i] = storedStream[j] => i = j
          /\ \A i, j \in DOMAIN wipedStream : wipedStream[i].by = wipedStream[j].by => i = j
      BY <1>0 DEF PublishedOnce, IInv, TypeOK
    <3>2. ASSUME NEW i \in DOMAIN wipedStream', NEW j \in DOMAIN wipedStream',
                 wipedStream'[i].by = wipedStream'[j].by
          PROVE  i = j
      <4>1. wipedStream'[n].by = h
        BY <2>1, <2>4
      <4>2. \A k \in DOMAIN wipedStream : wipedStream'[k].by # h
        BY <2>1, <2>2
      <4>3. CASE i \in DOMAIN wipedStream /\ j \in DOMAIN wipedStream
        BY <2>1, <3>1, <3>2, <4>3
      <4>4. CASE i = n \/ j = n
        BY <2>1, <3>2, <4>1, <4>2, <4>4
      <4> QED
        BY <2>1, <4>3, <4>4
    <3> QED
      BY <3>1, <3>2 DEF PublishedOnce
  <2>6. TypeOK'
    BY <1>0, <1>1, <2>1, <2>5 DEF IInv, TypeOK
  <2>7. \A i \in DOMAIN wipedStream' :
          /\ phase'[wipedStream'[i].by] = "wiped"
          /\ wipedStream'[i] = [by |-> wipedStream'[i].by,
                                deleted |-> Cardinality(removed'[wipedStream'[i].by])]
    BY <1>1, <2>1, <2>2, <2>4
  <2>8. EventsTrue'
    BY <1>0, <2>3, <2>7, Zenon DEF EventsTrue, Told, ToldWipe, Wiped
  <2> QED
    BY <1>1, <2>6, <2>8 DEF IInv
<1> QED
  BY <1>0, <1>2, <1>3

LEMMA InsertIInv ==
  ASSUME IInv, NEW h \in Handlers, Insert(h)
  PROVE  IInv'
<1>1. /\ phase[h] = "insert" /\ phase' = [phase EXCEPT ![h] = "announce store"]
      /\ table' = table \cup {h}
      /\ UNCHANGED <<metadata, removed, streams, patched>>
  BY DEF Insert, GoTo
<1>2. phase \in [Handlers -> Phases] /\ phase' \in [Handlers -> Phases]
  BY <1>1 DEF IInv, TypeOK, Phases
<1>4. TypeOK'
  BY <1>1, <1>2 DEF IInv, TypeOK, PublishedOnce, streams
<1>5. h \notin table /\ (\A g \in Handlers : h \notin removed[g])
      /\ \A p \in patched : p[2] # h
  BY <1>1 DEF IInv, Traces, InsertedPhases
<1>6. Traces'
  BY <1>1, <1>2 DEF IInv, TypeOK, Traces, InsertedPhases, RemoverPhases
<1>7. Accounted'
  <2> SUFFICES ASSUME NEW m \in Handlers, phase'[m] \in {"announce store", "stored"}
               PROVE  m \in table' \/ \E g \in Handlers : m \in removed'[g]
    BY DEF Accounted
  <2>1. m = h \/ phase[m] \in {"announce store", "stored"}
    BY <1>1, <1>2
  <2> QED
    BY <1>1, <2>1 DEF IInv, Accounted
<1>10. Disjoint'
  BY <1>1, <1>5 DEF IInv, Disjoint
<1>8. PatchesKept'
  BY <1>1, <1>5 DEF IInv, PatchesKept
<1>9. EventsTrue'
  BY <1>1, EventsUntouched
<1> QED
  BY <1>4, <1>6, <1>7, <1>8, <1>9, <1>10 DEF IInv

LEMMA PatchIInv ==
  ASSUME IInv, NEW h \in Handlers, NEW m \in Handlers, Patch(h, m)
  PROVE  IInv'
<1>1. /\ phase[h] = "new" /\ phase' = [phase EXCEPT ![h] = "patched"] /\ m \in table
      /\ metadata' = [metadata EXCEPT ![m] = @ \cup {h}]
      /\ patched' = patched \cup {<<h, m>>}
      /\ UNCHANGED <<table, removed, streams>>
  BY DEF Patch, GoTo
<1>2. phase \in [Handlers -> Phases] /\ phase' \in [Handlers -> Phases]
  BY <1>1 DEF IInv, TypeOK, Phases, Finished
<1>3. TypeOK'
  BY <1>1, <1>2 DEF IInv, TypeOK, PublishedOnce, streams
<1>4. phase[m] \in InsertedPhases /\ m # h
  BY <1>1 DEF IInv, Traces, InsertedPhases
<1>5. Traces'
  <2>1. \A p \in patched' : phase'[p[2]] \in InsertedPhases
    <3>1. ASSUME NEW p \in patched PROVE phase'[p[2]] \in InsertedPhases
      <4>1. p[2] \in Handlers /\ phase[p[2]] \in InsertedPhases
        BY DEF IInv, TypeOK, Traces
      <4>2. p[2] # h
        BY <1>1, <4>1 DEF InsertedPhases
      <4> QED
        BY <1>1, <1>2, <4>1, <4>2
    <3>2. phase'[<<h, m>>[2]] \in InsertedPhases
      BY <1>1, <1>2, <1>4
    <3> QED
      BY <1>1, <3>1, <3>2
  <2> QED
    BY <1>1, <1>2, <2>1 DEF IInv, TypeOK, Traces, InsertedPhases, RemoverPhases
<1>6. Accounted'
  <2> SUFFICES ASSUME NEW k \in Handlers, phase'[k] \in {"announce store", "stored"}
               PROVE  k \in table \/ \E g \in Handlers : k \in removed[g]
    BY <1>1 DEF Accounted
  <2>1. phase[k] \in {"announce store", "stored"}
    BY <1>1, <1>2
  <2> QED
    BY <2>1 DEF IInv, Accounted
<1>9. Disjoint'
  BY <1>1 DEF IInv, Disjoint
<1>7. PatchesKept'
  <2>1. \A k \in Handlers : metadata[k] \subseteq metadata'[k]
    BY <1>1 DEF IInv, TypeOK
  <2>2. h \in metadata'[m]
    BY <1>1 DEF IInv, TypeOK
  <2>3. \A p \in patched : p[2] \in Handlers
    BY DEF IInv, TypeOK
  <2>4. ASSUME NEW p \in patched, p[2] \in table PROVE p[1] \in metadata'[p[2]]
    BY <2>1, <2>3, <2>4 DEF IInv, PatchesKept
  <2> QED
    BY <1>1, <2>2, <2>4 DEF PatchesKept
<1>8. EventsTrue'
  BY <1>1, EventsUntouched
<1> QED
  BY <1>3, <1>5, <1>6, <1>7, <1>8, <1>9 DEF IInv

(* A DELETE of one memory and a wipe of all: gone is what has been in the  *)
(* table.                                                                  *)
LEMMA RemoveIInv ==
  ASSUME IInv, NEW h \in Handlers, NEW gone \in SUBSET table, NEW p \in Phases,
         \/ phase[h] = "new"  /\ p = "deleted"
         \/ phase[h] = "wipe" /\ p = "announce wipe",
         GoTo(h, p),
         table' = table \ gone,
         removed' = [removed EXCEPT ![h] = gone],
         metadata' \in [Handlers -> SUBSET Handlers],
         \A m \in Handlers \ gone : metadata'[m] = metadata[m] \/ m \notin table,
         UNCHANGED <<streams, patched>>
  PROVE  IInv'
<1>1. phase' = [phase EXCEPT ![h] = p] /\ phase \in [Handlers -> Phases]
  BY DEF GoTo, IInv, TypeOK
<1>2. /\ table \subseteq Handlers /\ removed \in [Handlers -> SUBSET Handlers]
      /\ removed[h] = {}
  BY DEF IInv, TypeOK, Traces, RemoverPhases
<1>3. removed' \in [Handlers -> SUBSET Handlers] /\ removed'[h] = gone
      /\ \A g \in Handlers \ {h} : removed'[g] = removed[g]
  BY <1>2
<1>4. TypeOK'
  BY <1>1, <1>3 DEF IInv, TypeOK, PublishedOnce, streams
<1>5. \A g \in Handlers : phase'[g] = IF g = h THEN p ELSE phase[g]
  BY <1>1
<1>6. phase[h] \notin InsertedPhases /\ phase[h] \notin RemoverPhases
      /\ p \in RemoverPhases
  BY DEF InsertedPhases, RemoverPhases
<1>7. Traces'
  <2>1. \A m \in table' : phase'[m] \in InsertedPhases
    BY <1>2, <1>5, <1>6 DEF IInv, Traces
  <2>2. ASSUME NEW g \in Handlers, NEW m \in Handlers, m \in removed'[g]
        PROVE  phase'[m] \in InsertedPhases
    <3>1. phase[m] \in InsertedPhases
      BY <1>3, <2>2 DEF IInv, Traces
    <3> QED
      BY <1>5, <1>6, <3>1
  <2>3. ASSUME NEW q \in patched PROVE phase'[q[2]] \in InsertedPhases
    BY <1>5, <1>6, <2>3 DEF IInv, TypeOK, Traces
  <2>4. \A g \in Handlers : removed'[g] # {} => phase'[g] \in RemoverPhases
    BY <1>3, <1>5, <1>6 DEF IInv, Traces
  <2> QED
    BY <2>1, <2>2, <2>3, <2>4 DEF Traces
<1>8. Accounted'
  <2> SUFFICES ASSUME NEW m \in Handlers, phase'[m] \in {"announce store", "stored"}
               PROVE  m \in table' \/ \E g \in Handlers : m \in removed'[g]
    BY DEF Accounted
  <2>1. phase[m] \in {"announce store", "stored"}
    BY <1>5
  <2>2. CASE m \in table
    BY <1>3, <2>2
  <2>3. CASE m \notin table
    <3>1. PICK g \in Handlers : m \in removed[g]
      BY <2>1, <2>3 DEF IInv, Accounted
    <3> QED
      BY <1>2, <1>3, <3>1
  <2> QED
    BY <2>2, <2>3
<1>9. Disjoint'
  <2>1. ASSUME NEW g \in Handlers PROVE removed'[g] \cap table' = {}
    BY <1>3 DEF IInv, Disjoint
  <2>2. ASSUME NEW g \in Handlers \ {h} PROVE removed'[g] \cap removed'[h] = {}
    BY <1>3 DEF IInv, Disjoint
  <2>3. ASSUME NEW f \in Handlers \ {h}, NEW g \in Handlers \ {h}, f # g
        PROVE  removed'[f] \cap removed'[g] = {}
    BY <1>3, <2>3 DEF IInv, Disjoint
  <2> QED
    BY <2>1, <2>2, <2>3 DEF Disjoint
<1>10. PatchesKept'
  <2>1. \A q \in patched : q[2] \in Handlers
    BY DEF IInv, TypeOK
  <2> QED
    BY <2>1 DEF IInv, PatchesKept
<1>11. EventsTrue'
  BY <1>1, <1>3, EventsUntouched
<1> QED
  BY <1>4, <1>7, <1>8, <1>9, <1>10, <1>11 DEF IInv

LEMMA NextIInv == IInv /\ [Next]_vars => IInv'
<1> SUFFICES ASSUME IInv, [Next]_vars PROVE IInv'
  OBVIOUS
<1> USE DEF Phases, Finished, InsertedPhases, RemoverPhases
<1>1. table \subseteq Handlers /\ removed \in [Handlers -> SUBSET Handlers]
      /\ metadata \in [Handlers -> SUBSET Handlers]
  BY DEF IInv, TypeOK
<1>2. ASSUME NEW h \in Handlers, Store(h) \/ Embed(h) \/ EmbedFails(h) \/ NotFound(h)
      PROVE  IInv'
  <2>1. CASE Store(h)
    BY <1>1, <2>1, PhaseStep DEF Store
  <2>2. CASE Embed(h)
    BY <1>1, <2>2, PhaseStep DEF Embed
  <2>3. CASE EmbedFails(h)
    BY <1>1, <2>3, PhaseStep DEF EmbedFails
  <2>4. CASE NotFound(h)
    BY <1>1, <2>4, PhaseStep DEF NotFound
  <2> QED
    BY <1>2, <2>1, <2>2, <2>3, <2>4
<1>3. ASSUME NEW h \in Handlers, Wipe(h) PROVE IInv'
  BY <1>3, PhaseStep DEF Wipe
<1>4. ASSUME NEW h \in Handlers, Crash(h) PROVE IInv'
  BY <1>1, <1>4, PhaseStep DEF Crash
<1>7. ASSUME NEW h \in Handlers, NEW m \in Handlers, Delete(h, m) PROVE IInv'
  <2>1. {m} \in SUBSET table /\ metadata' \in [Handlers -> SUBSET Handlers]
        /\ \A k \in Handlers \ {m} : metadata'[k] = metadata[k]
    BY <1>1, <1>7 DEF Delete
  <2> QED
    BY <1>1, <1>7, <2>1, RemoveIInv DEF Delete
<1>8. ASSUME NEW h \in Handlers, DeleteAll(h) PROVE IInv'
  <2>1. table' = table \ table /\ metadata' \in [Handlers -> SUBSET Handlers]
    BY <1>1, <1>8 DEF DeleteAll
  <2>2. \A k \in Handlers \ table : metadata'[k] = metadata[k] \/ k \notin table
    OBVIOUS
  <2> QED
    BY <1>8, <2>1, <2>2, RemoveIInv DEF DeleteAll
<1>9. CASE UNCHANGED vars
  <2> USE <1>9 DEF vars
  <2>1. TypeOK'
    BY DEF IInv, TypeOK, PublishedOnce, streams
  <2>2. Traces' /\ Accounted'
    BY DEF IInv, Traces, Accounted
  <2>3. Disjoint' /\ PatchesKept'
    BY DEF IInv, Disjoint, PatchesKept
  <2>4. EventsTrue'
    BY DEF IInv, EventsTrue, Told, ToldWipe, Wiped, streams
  <2> QED
    BY <2>1, <2>2, <2>3, <2>4 DEF IInv
<1>10. ASSUME NEW h \in Handlers, Step(h) PROVE IInv'
  <2>1. CASE \E m \in Handlers : Patch(h, m) \/ Delete(h, m)
    BY <1>7, <2>1, PatchIInv
  <2> QED
    BY <1>2, <1>3, <1>4, <1>8, <1>10, <2>1, InsertIInv, AnnounceStoreIInv, AnnounceWipeIInv
       DEF Step
<1> QED
  BY <1>9, <1>10 DEF Next

LEMMA Inductive == Spec => []IInv
BY InitIInv, NextIInv, PTL DEF Spec

(* Rows, answers and events keep their types, and no request has two       *)
(* events on the bus.                                                      *)
THEOREM TypeCorrect == Spec => []TypeOK
BY Inductive, PTL DEF IInv

(* No memory is counted as deleted twice, however DELETEs and wipes        *)
(* overlap, and events give the numbers of their statements.               *)
THEOREM CountsAddUp == Spec => []RemovedOnce
<1>1. IInv => RemovedOnce
  <2> SUFFICES ASSUME IInv, NEW i \in DOMAIN wipedStream
               PROVE  wipedStream[i].deleted = Cardinality(removed[wipedStream[i].by])
    BY DEF IInv, RemovedOnce, Disjoint
  <2>1. ToldWipe(wipedStream[i])
    BY DEF IInv, EventsTrue
  <2> QED
    BY <2>1 DEF ToldWipe, Wiped
<1> QED
  BY Inductive, <1>1, PTL

(* Overlapping PATCHes of a memory are all kept.                           *)
THEOREM PatchesSurvive == Spec => []PatchesKept
BY Inductive, PTL DEF IInv

(* What an event on the bus says of the handler it comes from.             *)
LEMMA AnnouncedFacts ==
  ASSUME IInv, NEW h \in Handlers
  PROVE  Announced(h) => phase[h] = "stored"
BY DEF IInv, EventsTrue, Announced, Told

(* Events tell only of memories that were stored, and a POST that answers  *)
(* with an error has left neither row nor event.                           *)
THEOREM FailedLeaveNothing == Spec => []ErrorsLeaveNothing
<1>1. IInv => ErrorsLeaveNothing
  <2> SUFFICES ASSUME IInv, NEW m \in Handlers
               PROVE  /\ Announced(m) => \/ m \in table
                                         \/ \E h \in Handlers : m \in removed[h]
                      /\ phase[m] = "failed" => /\ m \notin table /\ ~Announced(m)
                                                /\ \A h \in Handlers : m \notin removed[h]
    BY DEF ErrorsLeaveNothing
  <2>1. Announced(m) => phase[m] = "stored"
    BY AnnouncedFacts
  <2> QED
    BY <2>1 DEF IInv, Traces, Accounted, InsertedPhases
<1> QED
  BY Inductive, <1>1, PTL
-----------------------------------------------------------------------------
(* Only a memory that is there has metadata: a wipe, which clears all      *)
(* metadata, so changes nothing for a memory that is not in the table.     *)
BareUnlessKept == \A m \in Handlers \ table : metadata[m] = {}

ILife == IInv /\ BareUnlessKept

(* For the bus a memory is told of by its own event and by no other.       *)
LEMMA AnnouncedByOwn ==
  ASSUME IInv, NEW h \in Handlers, storedStream' = Append(storedStream, h), NEW m \in Handlers
  PROVE  Announced(m)' <=> Announced(m) \/ h = m
<1> DEFINE n == Len(storedStream) + 1
<1>1. /\ DOMAIN storedStream' = DOMAIN storedStream \cup {n} /\ storedStream'[n] = h
      /\ \A i \in DOMAIN storedStream : storedStream'[i] = storedStream[i]
  BY AppendFacts DEF IInv, TypeOK
<1> HIDE DEF n
<1> QED
  BY <1>1 DEF Announced

LEMMA NothingArrives ==
  ASSUME UNCHANGED storedStream, NEW m
  PROVE  Announced(m)' <=> Announced(m)
BY Zenon DEF Announced

(* Steps that do not touch m stutter in its life.                          *)
LEMMA LifeUntouched ==
  ASSUME NEW m \in Handlers, Row(m)' = Row(m), metadata'[m] = metadata[m],
         Announced(m)' <=> Announced(m)
  PROVE  UNCHANGED Life(m)!vars
<1>1. Announced(m)' = Announced(m)
  BY DEF Announced
<1> QED
  BY <1>1 DEF Life!vars

LEMMA InsertLives ==
  ASSUME ILife, NEW h \in Handlers, Insert(h), NEW m \in Handlers
  PROVE  [Life(m)!Next]_(Life(m)!vars)
<1>1. phase[h] = "insert" /\ table' = table \cup {h} /\ UNCHANGED <<metadata, removed, storedStream>>
  BY DEF Insert, streams
<1>2. Announced(m)' <=> Announced(m)
  BY <1>1, NothingArrives
<1>3. CASE m = h
  <2>1. Row(m) = "none" /\ Row(m)' = "kept"
    BY <1>1, <1>3 DEF Row, ILife, IInv, Traces, InsertedPhases
  <2>2. Life(m)!Keep
    BY <1>1, <1>2, <2>1 DEF Life!Keep, Announced
  <2> QED
    BY <2>2 DEF Life!Next
<1>4. CASE m # h
  <2>1. Row(m)' = Row(m)
    BY <1>1, <1>4 DEF Row
  <2> QED
    BY <1>1, <1>2, <2>1, LifeUntouched
<1> QED
  BY <1>3, <1>4

LEMMA PatchLives ==
  ASSUME ILife, NEW h \in Handlers, NEW k \in Handlers, Patch(h, k), NEW m \in Handlers
  PROVE  [Life(m)!Next]_(Life(m)!vars)
<1>1. k \in table /\ metadata' = [metadata EXCEPT ![k] = @ \cup {h}]
      /\ UNCHANGED <<table, removed, storedStream>>
  BY DEF Patch, streams
<1>2. (Announced(m)' <=> Announced(m)) /\ Row(m)' = Row(m)
  BY <1>1, NothingArrives DEF Row
<1>3. metadata \in [Handlers -> SUBSET Handlers]
  BY DEF ILife, IInv, TypeOK
<1>4. CASE m = k
  <2>1. Life(m)!Merge(h)
    BY <1>1, <1>2, <1>3, <1>4 DEF Life!Merge, Row, Announced
  <2> QED
    BY <2>1 DEF Life!Next
<1>5. CASE m # k
  BY <1>1, <1>2, <1>3, <1>5, LifeUntouched
<1> QED
  BY <1>4, <1>5

(* A DELETE of one memory and a wipe of all.                               *)
LEMMA RemoveLives ==
  ASSUME ILife, NEW h \in Handlers, NEW gone \in SUBSET table,
         phase[h] \in {"new", "wipe"},
         table' = table \ gone,
         removed' = [removed EXCEPT ![h] = gone],
         \A k \in Handlers : metadata'[k] = IF k \in gone THEN {} ELSE metadata[k],
         UNCHANGED storedStream,
         NEW m \in Handlers
  PROVE  [Life(m)!Next]_(Life(m)!vars)
<1>1. removed \in [Handlers -> SUBSET Handlers] /\ removed[h] = {}
  BY DEF ILife, IInv, TypeOK, Traces, RemoverPhases
<1>2. \A g \in Handlers : removed'[g] = IF g = h THEN gone ELSE removed[g]
  BY <1>1
<1>3. Announced(m)' <=> Announced(m)
  BY NothingArrives
<1>4. CASE m \in gone
  <2>1. Row(m) = "kept" /\ Row(m)' = "gone"
    BY <1>2, <1>4 DEF Row
  <2>2. Life(m)!Forget
    BY <1>3, <1>4, <2>1 DEF Life!Forget, Announced
  <2> QED
    BY <2>2 DEF Life!Next
<1>5. CASE m \notin gone
  <2>1. m \in table' <=> m \in table
    BY <1>5
  <2>2. (\E g \in Handlers : m \in removed'[g]) <=> \E g \in Handlers : m \in removed[g]
    BY <1>1, <1>2, <1>5
  <2>3. Row(m)' = Row(m)
    BY <2>1, <2>2 DEF Row
  <2> QED
    BY <1>3, <1>5, <2>3, LifeUntouched
<1> QED
  BY <1>4, <1>5

LEMMA AnnounceStoreLives ==
  ASSUME ILife, NEW h \in Handlers, AnnounceStore(h), storedStream' # storedStream, NEW m \in Handlers
  PROVE  [Life(m)!Next]_(Life(m)!vars)
<1>1. /\ phase[h] = "announce store" /\ UNCHANGED <<table, metadata, removed>>
      /\ storedStream' = Append(storedStream, h)
  BY DEF AnnounceStore, Publish
<1>3. (Announced(m)' <=> Announced(m) \/ h = m) /\ Row(m)' = Row(m)
  BY <1>1, AnnouncedByOwn DEF ILife, Row
<1>4. CASE m = h
  <2>1. Row(m) # "none"
    BY <1>1, <1>4 DEF Row, ILife, IInv, Accounted
  <2>2. ~Announced(m)
    BY <1>1, <1>4, AnnouncedFacts DEF ILife
  <2>3. Life(m)!Announce
    BY <1>1, <1>3, <1>4, <2>1, <2>2 DEF Life!Announce, Announced
  <2> QED
    BY <2>3 DEF Life!Next
<1>5. CASE m # h
  BY <1>1, <1>3, <1>5, LifeUntouched
<1> QED
  BY <1>4, <1>5

LEMMA NextLives == ILife /\ [Next]_vars => \A m \in Handlers : [Life(m)!Next]_(Life(m)!vars)
<1> SUFFICES ASSUME ILife, [Next]_vars, NEW m \in Handlers
             PROVE  [Life(m)!Next]_(Life(m)!vars)
  OBVIOUS
<1>1. ASSUME UNCHANGED <<table, metadata, removed, storedStream>> PROVE UNCHANGED Life(m)!vars
  BY <1>1, NothingArrives, LifeUntouched DEF Row
<1>2. ASSUME NEW h \in Handlers,
             Store(h) \/ Embed(h) \/ EmbedFails(h) \/ NotFound(h) \/ Wipe(h) \/ Crash(h)
      PROVE  UNCHANGED Life(m)!vars
  BY <1>1, <1>2 DEF Store, Embed, EmbedFails, NotFound, Wipe, Crash, streams
<1>3. ASSUME NEW h \in Handlers, AnnounceStore(h) \/ AnnounceWipe(h),
             storedStream' = storedStream
      PROVE  UNCHANGED Life(m)!vars
  BY <1>1, <1>3 DEF AnnounceStore, AnnounceWipe
<1>4. ASSUME NEW h \in Handlers, NEW k \in Handlers, Delete(h, k)
      PROVE  [Life(m)!Next]_(Life(m)!vars)
  <2>1. \A g \in Handlers : metadata'[g] = IF g \in {k} THEN {} ELSE metadata[g]
    BY <1>4 DEF Delete, ILife, IInv, TypeOK
  <2> QED
    BY <1>4, <2>1, RemoveLives DEF Delete, streams
<1>5. ASSUME NEW h \in Handlers, DeleteAll(h)
      PROVE  [Life(m)!Next]_(Life(m)!vars)
  <2>1. \A g \in Handlers : metadata'[g] = IF g \in table THEN {} ELSE metadata[g]
    BY <1>5 DEF DeleteAll, ILife, BareUnlessKept
  <2>2. table' = table \ table
    BY <1>5 DEF DeleteAll
  <2> QED
    BY <1>5, <2>1, <2>2, RemoveLives DEF DeleteAll, streams
<1>6. CASE UNCHANGED vars
  BY <1>1, <1>6 DEF vars, streams
<1>7. ASSUME NEW h \in Handlers, AnnounceWipe(h) PROVE storedStream' = storedStream
  BY <1>7 DEF AnnounceWipe
<1> QED
  BY <1>2, <1>3, <1>4, <1>5, <1>6, <1>7, InsertLives, PatchLives, AnnounceStoreLives
     DEF Next, Step

LEMMA NextBare == ILife /\ [Next]_vars => BareUnlessKept'
<1> SUFFICES ASSUME ILife, [Next]_vars PROVE BareUnlessKept'
  OBVIOUS
<1>1. metadata \in [Handlers -> SUBSET Handlers]
  BY DEF ILife, IInv, TypeOK
<1>2. ASSUME NEW h \in Handlers, Insert(h) PROVE BareUnlessKept'
  BY <1>2 DEF Insert, ILife, BareUnlessKept
<1>3. ASSUME NEW h \in Handlers, NEW m \in Handlers, Patch(h, m) PROVE BareUnlessKept'
  BY <1>1, <1>3 DEF Patch, ILife, BareUnlessKept
<1>4. ASSUME NEW h \in Handlers, NEW m \in Handlers, Delete(h, m) PROVE BareUnlessKept'
  BY <1>1, <1>4 DEF Delete, ILife, BareUnlessKept
<1>5. ASSUME NEW h \in Handlers, DeleteAll(h) PROVE BareUnlessKept'
  BY <1>5 DEF DeleteAll, BareUnlessKept
<1>6. ASSUME UNCHANGED <<table, metadata>> PROVE BareUnlessKept'
  BY <1>6 DEF ILife, BareUnlessKept
<1>7. ASSUME NEW h \in Handlers,
             Store(h) \/ Embed(h) \/ EmbedFails(h) \/ NotFound(h) \/ Wipe(h) \/ Crash(h)
               \/ AnnounceStore(h) \/ AnnounceWipe(h)
      PROVE  BareUnlessKept'
  BY <1>6, <1>7 DEF Store, Embed, EmbedFails, NotFound, Wipe, Crash, AnnounceStore, AnnounceWipe
<1>8. CASE UNCHANGED vars
  BY <1>6, <1>8 DEF vars
<1> QED
  BY <1>2, <1>3, <1>4, <1>5, <1>7, <1>8 DEF Next, Step

(* Each memory has the one life of MemoryLife: whatever overlaps, fails or *)
(* crashes, it is stored, patched, removed and told of as if its requests  *)
(* came one after the other (add, update_metadata, delete, delete_all and  *)
(* the publish in store_memory).                                           *)
THEOREM LifeRefined == Spec => ImplementsLife
<1> DEFINE Steps == \A m \in Handlers : [Life(m)!Next]_(Life(m)!vars)
<1>1. Init => ILife /\ \A m \in Handlers : Life(m)!Init
  <2> SUFFICES ASSUME Init PROVE BareUnlessKept /\ \A m \in Handlers : Life(m)!Init
    BY InitIInv DEF ILife
  <2>1. \A m \in Handlers : Announced(m) = FALSE /\ Row(m) = "none" /\ metadata[m] = {}
    BY DEF Init, Announced, Row
  <2> QED
    BY <2>1 DEF BareUnlessKept, Life!Init
<1>2. ILife /\ [Next]_vars => ILife' /\ [Steps]_vars
  BY NextIInv, NextBare, NextLives DEF ILife
<1>3. Spec => [][Steps]_vars
  BY <1>1, <1>2, PTL DEF Spec
<1>4. Spec => \A m \in Handlers : Life(m)!Init
  BY <1>1 DEF Spec
<1> QED
  BY <1>3, <1>4, PTL DEF ImplementsLife
=============================================================================

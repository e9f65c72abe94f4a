------------------------------ MODULE Profile ------------------------------
(***************************************************************************)
(* build_profile() of the personalization service                          *)
(* (services/personalization/app/profile.py), without the intents, which   *)
(* are counted in the same list of memories.                               *)
(***************************************************************************)
EXTENDS Naturals, SequencesExt

CONSTANT NeverSeen   (* first_seen and last_seen of an empty history       *)

(* memories: the recent ones.  signals: rows with distinct keys, which are *)
(* the primary key of preference_signals, so that the order of strengths,  *)
(* in which build_profile goes through them, decides nothing.              *)
BuildProfile(memories, signals) ==
  LET created == {m.created_at : m \in ToSet(memories)}
  IN  [preferences  |-> [k \in {s.key : s \in signals} |->
                           (CHOOSE s \in signals : s.key = k).value],
       memory_count |-> Len(memories),
       first_seen   |-> IF created = {} THEN NeverSeen ELSE Min(created),
       last_seen    |-> IF created = {} THEN NeverSeen ELSE Max(created)]
=============================================================================

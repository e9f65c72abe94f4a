----------------------------- MODULE MemoryLife -----------------------------
(***************************************************************************)
(* What the memory service promises of one memory, without requests: it is *)
(* kept once, gathers metadata as long as it is kept, is forgotten once    *)
(* and for good, metadata and all, and the bus is told of it once at most  *)
(* and never beforehand.                                                   *)
(***************************************************************************)
CONSTANT Keys    (* metadata keys                                          *)

VARIABLES
  row,         (* "none", "kept" or "gone"                                 *)
  merged,      (* the metadata keys it has                                 *)
  announced    (* whether the bus was told of it                           *)

vars == <<row, merged, announced>>

Init ==
  /\ row = "none"
  /\ merged = {}
  /\ announced = FALSE

Keep ==
  /\ row = "none"
  /\ row' = "kept"
  /\ UNCHANGED <<merged, announced>>

Merge(k) ==
  /\ row = "kept"
  /\ merged' = merged \cup {k}
  /\ UNCHANGED <<row, announced>>

Forget ==
  /\ row = "kept"
  /\ row' = "gone"
  /\ merged' = {}
  /\ UNCHANGED announced

Announce ==
  /\ row # "none"
  /\ ~announced
  /\ announced' = TRUE
  /\ UNCHANGED <<row, merged>>

Next == Keep \/ (\E k \in Keys : Merge(k)) \/ Forget \/ Announce

Spec == Init /\ [][Next]_vars
=============================================================================

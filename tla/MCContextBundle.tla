-------------------------- MODULE MCContextBundle --------------------------
(* Constants for the run of ContextBundle: two coordinates; "a" and "b"    *)
(* share one of them with opposite signs.                                  *)
EXTENDS ContextBundle

MCBucket == "a" :> 2 @@ "b" :> 2 @@ "c" :> 1
MCSign   == "a" :> 1 @@ "b" :> -1 @@ "c" :> 1
MCTexts  == {<<"a", "b">>, <<"a">>, <<"c", "c", "a">>}
MCSignals == {[key |-> "tone", value |-> "concise", strength |-> 1],
              [key |-> "tone", value |-> "detailed", strength |-> 2]}
=============================================================================

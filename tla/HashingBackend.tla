--------------------------- MODULE HashingBackend --------------------------
(***************************************************************************)
(* LocalHashingBackend of the embedding service                            *)
(* (services/embedding/app/backends.py) and the cosine similarity that     *)
(* pgvector computes of its vectors.  A text is the sequence of its tokens.*)
(* The two hashes of a token are constants.  Division by the norm is left  *)
(* to Cosine, as it changes no direction.                                  *)
(***************************************************************************)
EXTENDS Integers, SequencesExt

CONSTANTS
  Dim,        (* EMBEDDING_DIM                                             *)
  Bucket,     (* for each token a coordinate in 1..Dim                     *)
  Sign,       (* and 1 or -1                                               *)
  One         (* the number 1 in the fixed-point numbers of similarities   *)

ASSUME HashingAssumption ==
  /\ Dim \in Nat \ {0} /\ One \in Nat \ {0}
  /\ \A token \in DOMAIN Bucket : Bucket[token] \in 1..Dim /\ Sign[token] \in {-1, 1}

Dot(v, w) ==
  LET sum[i \in 0..Dim] == IF i = 0 THEN 0 ELSE sum[i - 1] + v[i] * w[i]
  IN  sum[Dim]

(* The vector after the first n tokens, for each n.                        *)
Hashed(text) ==
  LET vec[n \in 0..Len(text)] ==
        IF n = 0 THEN [i \in 1..Dim |-> 0]
        ELSE [vec[n - 1] EXCEPT ![Bucket[text[n]]] = @ + Sign[text[n]]]
  IN  vec[Len(text)]

(* Faulty variant: only a text without tokens gets the fixed vector.       *)
EmbedOneUnlessEmpty(text) ==
  IF text = <<>> THEN [Hashed(text) EXCEPT ![1] = 1] ELSE Hashed(text)

(* Tokens may also cancel each other out.                                  *)
EmbedOne(text) ==
  LET v == Hashed(text)
  IN  IF Dot(v, v) = 0 THEN [v EXCEPT ![1] = 1] ELSE v

Root(n) == CHOOSE r \in 0..n : r * r <= n /\ n < (r + 1) * (r + 1)

(* 1 - (embedding <=> query), for vectors that are not zero.               *)
Cosine(v, w) ==
  LET d == Dot(v, w)
      r == Root((One * One * d * d) \div (Dot(v, v) * Dot(w, w)))
  IN  IF d < 0 THEN -r ELSE r
=============================================================================

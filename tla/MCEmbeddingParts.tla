-------------------------- MODULE MCEmbeddingParts --------------------------
(* The settings and keys that EmbeddingParts is checked with.              *)
EXTENDS EmbeddingParts

MCKeys == {-1, 4}
MCSettings == {[lib |-> TRUE, kv |-> TRUE], [lib |-> TRUE, kv |-> FALSE],
               [lib |-> FALSE, kv |-> TRUE], [lib |-> FALSE, kv |-> FALSE]}
=============================================================================

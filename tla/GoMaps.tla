------------------------------- MODULE GoMaps -------------------------------
(***************************************************************************)
(* A Go map is a function whose domain is the set of keys present.         *)
(* Everything here is non-recursive, so that modules with proofs can use   *)
(* it.                                                                     *)
(***************************************************************************)

(* make(map[K]V) *)
EmptyMap == [k \in {} |-> {}]

(* m[key] = val *)
Put(m, key, val) == [k \in (DOMAIN m) \cup {key} |-> IF k = key THEN val ELSE m[k]]

(* delete(m, key): a no-op when the key is absent *)
Drop(m, key) == [k \in (DOMAIN m) \ {key} |-> m[k]]

(* m is a map[K]V. *)
IsMap(m, K, V) == m \in [DOMAIN m -> V] /\ DOMAIN m \subseteq K
=============================================================================

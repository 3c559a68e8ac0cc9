------------------------------ MODULE MCAdmission ------------------------------
(* Small instances of Admission for TLC. *)
EXTENDS Admission, TLC

(* Connections and addresses are interchangeable.  Used by the safety runs  *)
(* only.                                                                    *)
Symmetry == Permutations(Conn) \cup Permutations(Host)
===============================================================================

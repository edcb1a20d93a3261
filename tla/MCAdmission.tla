----------------------------- MODULE MCAdmission -----------------------------
(***************************************************************************)
(* A small instance of Admission.  Every queue has one slot.  Record x     *)
(* exceeds the bytes of the normal queue and fits the reserved ones alone;  *)
(* u and w fit them together but need two slots; u and w do not fit the    *)
(* normal bytes together, a and w do.                                      *)
(***************************************************************************)
EXTENDS Admission, TLC

CONSTANTS p1, p2, p3, a, u, w, x

MCPriority == {u, w, x}
MCSize == (a :> 1) @@ (u :> 2) @@ (w :> 1) @@ (x :> 3)
MCRecords == [q \in Queue |-> 1]
MCBytes == [q \in Queue |-> IF q = "Normal" THEN 2 ELSE 3]

(* In each queue one gauge is claimed by fetch_add, the other one checked.  *)
MCChecked == {<<"Normal", "Bytes">>, <<"Reserved", "Records">>}

(* The producers are alike.                                                 *)
Symmetry == Permutations({p1, p2, p3})
=============================================================================

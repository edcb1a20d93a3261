------------------------------- MODULE MCLanes -------------------------------
(***************************************************************************)
(* A small instance of Lanes: a thread with more records than a quantum,   *)
(* and one whose record may go to either queue.                            *)
(***************************************************************************)
EXTENDS Lanes

CONSTANTS a, b, d, t1, t2

MCBy == [r \in Log |-> IF r = d THEN t2 ELSE t1]
=============================================================================

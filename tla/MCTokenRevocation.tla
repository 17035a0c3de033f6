------------------------- MODULE MCTokenRevocation -------------------------
(***************************************************************************)
(* Model checking TokenRevocation: the workers are interchangeable, and so  *)
(* are the tokens and the request slots.                                    *)
(***************************************************************************)
EXTENDS TokenRevocation, TLC

Symmetry ==
    Permutations(Worker) \cup Permutations(Jti) \cup Permutations(Request)

=============================================================================

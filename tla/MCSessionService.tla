------------------------- MODULE MCSessionService -------------------------
(***************************************************************************)
(* Model checking SessionService: alice has two devices, bob administers    *)
(* her tenant.                                                              *)
(***************************************************************************)
EXTENDS SessionService, TLC

CONSTANTS b1, alice, bob, acme

MCOwner    == [j \in Jti |-> IF j = b1 THEN bob ELSE alice]
MCTenantOf == [u \in {alice, bob} |-> acme]

Symmetry == Permutations(Worker) \cup Permutations(Request)

=============================================================================

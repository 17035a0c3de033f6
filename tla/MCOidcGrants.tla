---------------------------- MODULE MCOidcGrants ----------------------------
(***************************************************************************)
(* Model checking OidcGrants: users, clients, credentials and request slots *)
(* are interchangeable.                                                     *)
(***************************************************************************)
EXTENDS OidcGrants, TLC

Symmetry ==
    Permutations(User) \cup Permutations(Client) \cup Permutations(Cred)
        \cup Permutations(Trade)

=============================================================================

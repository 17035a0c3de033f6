---------------------------- MODULE MCSigningKeys ----------------------------
(***************************************************************************)
(* Model checking SigningKeys: the processes are interchangeable.           *)
(***************************************************************************)
EXTENDS SigningKeys, TLC

Symmetry == Permutations(Proc)

\* A keyset in use: one key in the file, loaded by every process, and signing.
\* It is a state that KeysetInit leads to; with a file there is only rotation.
FirstKey == [keys |-> {1}, active |-> 1, mtime |-> 1]

InUseInit ==
    /\ disk = FirstKey
    /\ tmp = Absent
    /\ lock = NoLock
    /\ stale = FALSE
    /\ robbed = FALSE
    /\ pc = [p \in Proc |-> "idle"]
    /\ why = [p \in Proc |-> "init"]
    /\ mem = [p \in Proc |-> FirstKey]
    /\ draft = [p \in Proc |-> Absent]
    /\ gen = 1
    /\ age = [k \in Key |-> "fresh"]
    /\ signed = {1}
    /\ writes = 1
    /\ crashes = 0

InUseSpec == InUseInit /\ [][KeysetNext]_keysetVars

=============================================================================

-------------------------- MODULE MCAccessControl --------------------------
(* The instance of AccessControl that TLC explores.                          *)
EXTENDS AccessControl

\* [read], [write], [read, write] and [read, read].
MCBags == {[a \in Bit |-> IF a = 0 THEN n ELSE m] :
              <<n, m>> \in {<<1, 0>>, <<0, 1>>, <<1, 1>>, <<2, 0>>}}

\* Tokens are interchangeable: they are issued in one order only.
Nth(S) == CHOOSE f \in [1 .. Cardinality(S) -> S] : \A i, j \in DOMAIN f : f[i] = f[j] => i = j
IssuedInTurn ==
    \A i, j \in 1 .. Cardinality(Token) :
        i < j /\ tok'[Nth(Token)[j]] # NoToken => tok'[Nth(Token)[i]] # NoToken

\* Administrators reach the first worker; the others learn what it revokes.
AtFirst == \A t \in Task : task'[t].host \in {None, Nth(Gate)[1]}

\* Every policy names write, but for [read, read] in the first commit and [read] in
\* the first two; those have no validity.
FewRows ==
    LET Few(q) ==
            \/ q = None
            \/ q.actions[1] = 1
            \/ q.until = None /\ changes < (IF Repeats(q.actions) THEN 1 ELSE 2)
    IN
    /\ \A u \in User, p \in Policy : pol'[u][p] # pol[u][p] => Few(pol'[u][p])
    /\ \A t \in Task : Few(task'[t].new)

InTurnSpec ==
    /\ AccessInit
    /\ [][AccessNext /\ IssuedInTurn /\ AtFirst /\ FewRows]_accessVars
    /\ AccessFairness
=============================================================================

------------------------- MODULE RevocationService -------------------------
(***************************************************************************)
(* What the revocation manager promises to the code that calls it, with no  *)
(* word about streams, groups, channels or batches: which tokens each       *)
(* worker may and must refuse.  TokenRevocation implements it.              *)
(***************************************************************************)
CONSTANTS Worker, Jti

VARIABLES
    asked,    \* tokens whose revocation was requested
    durable,  \* requested tokens that a worker starting now must refuse
    open,     \* workers that answer requests
    known     \* known[w]: tokens that worker w refuses

serviceVars == <<asked, durable, open, known>>

ServiceInit ==
    /\ asked = {}
    /\ durable = {}
    /\ open = {}
    /\ known = [w \in Worker |-> {}]

\* A worker that is asked to revoke a token refuses it from that moment.
Ask(w, j) ==
    /\ w \in open
    /\ asked' = asked \cup {j}
    /\ known' = [known EXCEPT ![w] = @ \cup {j}]
    /\ UNCHANGED <<durable, open>>

\* Only requested tokens become durable; the oldest ones may be dropped.
Record ==
    /\ durable' \in SUBSET (durable \cup asked)
    /\ UNCHANGED <<asked, open, known>>

\* A worker learns of tokens that were requested, and of no others.
Learn(w) ==
    /\ \E S \in SUBSET asked : known' = [known EXCEPT ![w] = @ \cup S]
    /\ UNCHANGED <<asked, durable, open>>

\* A worker opens only when it refuses every durable token.
Open(w) ==
    /\ w \notin open
    /\ durable \subseteq known[w]
    /\ open' = open \cup {w}
    /\ UNCHANGED <<asked, durable, known>>

Stop(w) ==
    /\ open' = open \ {w}
    /\ known' = [known EXCEPT ![w] = {}]
    /\ UNCHANGED <<asked, durable>>

ServiceNext ==
    \/ Record
    \/ \E w \in Worker : Learn(w) \/ Open(w) \/ Stop(w)
    \/ \E w \in Worker, j \in Jti : Ask(w, j)

ServiceSpec == ServiceInit /\ [][ServiceNext]_serviceVars

=============================================================================

------------------------------ MODULE MCCheckout ------------------------------
EXTENDS Checkout, TLC

CONSTANTS g1, g2, e1, e2

\* One Google account whose address changed, and another that has the address now.
MCProfiles == {[sub |-> g1, email |-> e1], [sub |-> g1, email |-> e2], [sub |-> g2, email |-> e2]}

MCMoves == {<<"active", "canceled">>}

\* Neither sign-ins nor checkouts are told apart.
Symmetry == Permutations(SignIns) \cup Permutations(Checkouts)
=============================================================================

----------------------------- MODULE MCAuthClient -----------------------------
EXTENDS AuthClient, TLC
CONSTANTS MaxRequests
MCQuota == [p \in Policies |-> MaxRequests]
Symmetry == Permutations(Calls) \cup Permutations(Tabs \ Opened)
=============================================================================

------------------------------ MODULE MCAppStore -----------------------------
EXTENDS AppStore, TLC

Symmetry ==
    Permutations(Tasks) \cup Permutations(Custom) \cup Permutations(Hosts)
        \cup Permutations(Redeemers)
==============================================================================

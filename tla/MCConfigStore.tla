---------------------------- MODULE MCConfigStore ----------------------------
EXTENDS ConfigStore, TLC

CONSTANTS r1, r2,    \* requests
          f1, f2     \* fetches

Requests   == {r1, r2}
OneRequest == {r1}
TwoFetches == {f1, f2}

Symmetry == Permutations(Requests) \cup Permutations(TwoFetches)

==============================================================================

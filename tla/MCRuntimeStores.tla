--------------------------- MODULE MCRuntimeStores ---------------------------
(* Small instances of RuntimeStores for TLC.                               *)
EXTENDS RuntimeStores, TLC

CONSTANTS s1, s2, v1, v2, v3, k1, k2, r1, r2, p1

\* A page that repeats a fill.
MCPages == {<<k1, k2, k1>>}

\* Two confirmations of one snapshot.
MCResolutions == {[id |-> r1, snapshot |-> p1, cause |-> "DEPOSIT"],
                  [id |-> r2, snapshot |-> p1, cause |-> "TRADE"]}

Symmetry == Permutations(Session)
=============================================================================

---------------------------- MODULE MCPathFinding ----------------------------
EXTENDS PathFinding, TLC

MCLinks == {{m, n} : m, n \in Nodes} \ {{n} : n \in Nodes}

\* no earlier search, or one that led over a single link
MCOldPaths == {<<>>} \cup {<<l>> : l \in MCLinks}

Symmetry == Permutations(Nodes)
=============================================================================

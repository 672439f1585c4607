---------------------------- MODULE MCLocalCluster ----------------------------
\* Two commands at a time on one logical name, two owners (an installation and
\* its successor, or a diagnosis), two forward starts, the second of which can
\* only have the pid of the first.
EXTENDS LocalCluster, TLC

CONSTANTS p1, p2, o1, o2, pid1

Symmetry == Permutations({p1, p2}) \union Permutations({o1, o2})
================================================================================

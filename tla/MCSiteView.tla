----------------------------- MODULE MCSiteView ------------------------------
(***************************************************************************)
(* SiteView on small instances: every forest of the sites, and the graphs  *)
(* in which two or more sites are below each other.                        *)
(***************************************************************************)
EXTENDS SiteView, TLC

MCTrees == {t \in [Site -> Site \cup {None}] : \A s \in Site : t[s] # s}

MCRssi == {-110, -100}
MCLimit == -105

Symmetry == Permutations(Site) \cup Permutations(Meter)
=============================================================================

-------------------------- MODULE MCPortalSchedule --------------------------
(* Two handlers at a time, any number one after the other; two slugs, and   *)
(* two ids: a site and one that takes its slug later, or two sites.         *)
EXTENDS PortalSchedule, TLC

CONSTANTS h1, h2, s1, s2, i1, i2, daily

MCHandlers == {h1, h2}
MCSlugs == {s1, s2}
MCIds == {i1, i2}
MCIntervals == {daily}

\* Nothing tells handlers, slugs or ids apart.
Symmetry == Permutations(MCHandlers) \union Permutations(MCSlugs)
            \union Permutations(MCIds)
=============================================================================

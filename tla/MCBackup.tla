------------------------------ MODULE MCBackup ------------------------------
(* Two crawls at a time, any number one after the other, three seconds to   *)
(* name archives by.  The default is below backup_keep_n, as 5 is below 10. *)
EXTENDS Backup, TLC

CONSTANTS c1, c2

MCCrawls == {c1, c2}
MCStamps == 1 .. 3
Symmetry == Permutations(MCCrawls)
=============================================================================

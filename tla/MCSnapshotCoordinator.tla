------------------------ MODULE MCSnapshotCoordinator ------------------------
(* SnapshotCoordinator for TLC: refreshes, or a snapshot, but not both; the *)
(* run of MCServer has them together.                                      *)
EXTENDS SnapshotCoordinator

CONSTANTS c1, c2, c3, s1, s2

\* Nobody has to call, so what is left out are behaviours of their own.
Apart ==
  requestedAssembly + local = 0 \/ \A c \in Callers : caller[c].at = "idle"
==============================================================================

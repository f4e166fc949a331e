-------------------------- MODULE MCSnapshotManager --------------------------
(* A finite instance of SnapshotManager for TLC: r3 is the runtime that fails *)
(* validation.                                                                *)
EXTENDS SnapshotManager

CONSTANTS a1, a2, r1, r2, r3, l1, l2, p1, p2, c1, c2

MCApps == {a1, a2}
MCWellFormed == {r1, r2}
MCRuntimes == MCWellFormed \cup {r3}
MCLeases == {l1, l2}
MCPublishers == {p1, p2}
MCClosers == {c1, c2}
=============================================================================

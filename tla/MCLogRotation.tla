---------------------------- MODULE MCLogRotation ----------------------------
(* A finite instance of LogRotation for TLC.                                *)
EXTENDS LogRotation

\* One, two, all of a file, and an entry that is refused.
MCSizes == {1, 2, 3, 4}
=============================================================================

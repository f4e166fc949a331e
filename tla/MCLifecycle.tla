----------------------------- MODULE MCLifecycle -----------------------------
(* A finite instance of Lifecycle for TLC.                                  *)
EXTENDS Lifecycle

CONSTANTS a1, r1, q1, q2

\* Everything, and the data plane alone.
MCConfigurations == {Servers, {"data"}}
=============================================================================

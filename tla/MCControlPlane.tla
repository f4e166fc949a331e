---------------------------- MODULE MCControlPlane ----------------------------
(* Finite instances of ControlPlane for TLC.                                *)
EXTENDS ControlPlane, TLC

CONSTANTS a1, a2, n1, n2, d1, d2, v1, v2, v3

MCApps == {a1, a2}
MCReplicas == {n1, n2}
MCDomains == {d1, d2}
MCRevs == {v1, v2}
MCMoreRevs == {v1, v2, v3}

Request(d, e, i) == [domain |-> d, enabled |-> e, idl |-> i]

\* Import with a domain, synchronise, move, disable, import another ZIP.
MCRequests == {Request(d1, None, v1), Request(None, None, None), Request(d2, None, None),
               Request(None, FALSE, None), Request(None, None, v2)}

\* The same, and import a ZIP that cannot be built.
MCMoreRequests == MCRequests \cup {Request(None, None, v3)}

\* For two replicas: import, import another ZIP, move and disable.
MCFewRequests == {Request(d1, None, v1), Request(None, None, v2), Request(d2, FALSE, None)}

\* For two applications: import and move.
MCTwoRequests == {Request(d1, None, v1), Request(d2, None, None)}

Live(d) == [domain |-> d, enabled |-> TRUE, rev |-> v1]

\* Nothing, an application that runs, one without a domain, one disabled, one from git.
MCAnyRecord == [{a1} -> {None, Live(d1), Live(None), [Live(d1) EXCEPT !.enabled = FALSE],
                         [Live(None) EXCEPT !.rev = Legacy]}]
MCNoneOrLive == [{a1} -> {None, Live(d1)}]

\* Two applications, the second one perhaps with a contract that cannot be built.
MCTwoLive == {[a \in MCApps |-> IF a = a1 THEN Live(d1) ELSE [Live(d1) EXCEPT !.rev = v]] : v \in MCRevs}

MCSymmetry == Permutations(MCReplicas)
=============================================================================

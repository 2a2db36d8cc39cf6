---------------------------- MODULE MCContainer ----------------------------
(* A container with requests to start it and others, or with execs. *)
EXTENDS Exec

CONSTANTS s1, s2, p1, k1, a1, t1, e1, e2, x1, x2

Scenario(m, l, r) == [made |-> m, logging |-> l, restored |-> r]
MCScenarios == {Scenario({s1, s2, p1}, FALSE, "new"), Scenario({s1, s2, p1}, FALSE, "alive"),
                Scenario({s1, s2, a1, k1}, FALSE, "new"), Scenario({s1, a1, k1}, TRUE, "alive"),
                Scenario({s1, s2, t1}, TRUE, "new"), Scenario({s1, s2, a1, t1}, FALSE, "alive"),
                Scenario({s1, e1, x1}, FALSE, "new"), Scenario({e1, e2, x1, x2}, FALSE, "alive")}
=============================================================================

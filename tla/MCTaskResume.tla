---------------------------- MODULE MCTaskResume ----------------------------
(* TaskResume on a task of two shards, the second one short. *)
EXTENDS TaskResume

\* What the web answers: as measured on a healthy wave; many refused routes at
\* a healthy yield, as on eight nodes, and at a lower one; a poor yield and one
\* too thin to keep; a saturated resolver.
AllProfiles      == {"fair", "busy", "routes", "poor", "thin", "resolver"}
ResolverProfiles == {"fair", "resolver"}
OnlyFair         == {"fair"}

MCStored == [p \in Profile |-> CASE p = "fair" -> 62 [] p = "busy" -> 55
                                 [] p = "poor" -> 35 [] p = "thin" -> 17
                                 [] OTHER -> 40]
MCDns    == [p \in Profile |-> CASE p \in {"poor", "thin"} -> 15
                                 [] p = "resolver" -> 45 [] OTHER -> 6]
MCUnreachable == [p \in Profile |-> IF p \in {"busy", "routes"} THEN 20 ELSE 2]
=============================================================================

----------------------------- MODULE MCRouting -----------------------------
(* Routing with a local and a cloud provider; the alias m2 of a model of the *)
(* default catalog is also the id of a model of its own.                     *)
EXTENDS Routing

CONSTANTS ollama, openai, m1, m2, embed, raw1, raw2, rawEmbed

MCBaked == << <<openai, m1>> >>
MCBakedNames == [k \in Keys |-> IF k = <<openai, m1>> THEN {m2} ELSE {}]
MCBakedCost == [k \in Keys |-> IF k = <<openai, m1>> THEN 3 ELSE NoCost]
MCRawName == [m \in Models |->
    CASE m = m1 -> raw1 [] m = m2 -> raw2 [] m = embed -> rawEmbed]
MCOffers == {<<openai, m1>>, <<openai, m2>>, <<ollama, m1>>, <<ollama, embed>>}
=============================================================================

----------------------------- MODULE MCExtSync ------------------------------
(* One extension besides the task's own, and a configuration that can or cannot be read. *)
EXTENDS ExtSync

Shipped == [good |-> TRUE, load |-> {"net"}, exclude |-> {"fs", "ht", "sync"}]
Broken == [good |-> FALSE, load |-> {}, exclude |-> {}]

MCConfigs == {Shipped, Broken}
=============================================================================

------------------------- MODULE MCJetStreamDurable -------------------------
(* Instances of JetStreamDurable for TLC. *)
EXTENDS JetStreamDurable
CONSTANTS old, new, other, m1, m2

Sub(s) == [subject |-> s, stream |-> "s", batch |-> FALSE]

\* The old version subscribes a, the new one b too, and a third one c.
MCSubs == [r \in {old, new, other} |->
              CASE r = old -> {Sub("a")} [] r = new -> {Sub("a"), Sub("b")} [] r = other -> {Sub("a"), Sub("c")}]

Durable(filter) == [there |-> TRUE, filter |-> filter, explicit |-> TRUE]

MCDurables ==
    {[Durable({}) EXCEPT !.there = FALSE], Durable({}), Durable({"a"}), [Durable({"a"}) EXCEPT !.explicit = FALSE]}
=============================================================================

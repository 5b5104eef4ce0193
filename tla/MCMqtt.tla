------------------------------- MODULE MCMqtt -------------------------------
(* Small instances of MqttBroker: two connections, a topic and a filter.       *)
EXTENDS MqttProperties, TLC

CONSTANTS c1, c2, f1, f2, i1

A  == <<"a">>
AB == <<"a", "b">>
AM == <<"a", "#">>

TopicA      == {A}
TopicAB     == {AB}
NoTopics    == {}
NoFilters   == {}
FilterAM    == {AM}

\* Clients with an id of their own, which needs no other name, or with the same.
OwnId    == [c \in Conns |-> c]
SharedId == [c \in Conns |-> i1]

Two         == [c \in Conns |-> 2]
TwoAndThree == [c \in Conns |-> IF c = c1 THEN 2 ELSE 3]

FdSymmetry == Permutations(Fds)
Symmetry == Permutations(Conns) \union Permutations(Fds)
=============================================================================

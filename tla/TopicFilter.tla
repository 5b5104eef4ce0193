---------------------------- MODULE TopicFilter ----------------------------
(* The meaning of an MQTT topic filter, said without a loop.  Topics and       *)
(* filters are non-empty sequences of segments, as split_topic() returns them: *)
(* cutting a string at every '/' is a bijection onto such sequences.           *)
(* MqttBroker routes by Matches; TopicMatch shows that the loops of            *)
(* topic_matches() compute it.                                                 *)
EXTENDS Naturals, Sequences

CONSTANTS Multi,        \* the segment "#"
          Single        \* the segment "+"

\* "#" stands for the rest of a topic, so it may only come last.
WellFormed(filter) == \A i \in 1..Len(filter) - 1 : filter[i] # Multi

SegmentMatches(segment, part) == segment = Single \/ segment = part

\* "a/#" also matches its parent level "a".
Matches(filter, topic) ==
  LET n == Len(filter) IN
  /\ WellFormed(filter)
  /\ IF filter[n] = Multi
     THEN /\ n - 1 <= Len(topic)
          /\ \A i \in 1..n - 1 : SegmentMatches(filter[i], topic[i])
     ELSE /\ n = Len(topic)
          /\ \A i \in 1..n : SegmentMatches(filter[i], topic[i])
=============================================================================

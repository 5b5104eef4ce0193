-------------------------- MODULE TopicMatchProofs --------------------------
(* topic_matches() is right for every filter and every topic: IInv, of which   *)
(* ComputesMatches is a part, is an invariant of the two loops.                *)
EXTENDS TopicMatch, TLAPS

(* The inputs are non-empty sequences of segments.                             *)
LEMMA Inputs ==
  ASSUME NEW segments \in Filters \union Topics
  PROVE  segments \in Seq(Names) /\ Len(segments) \in Nat /\ Len(segments) > 0
BY InputAssumption

(* The first iteration starts where IInv says.                                 *)
LEMMA InitIInv == Init => IInv
<1> SUFFICES ASSUME Init PROVE IInv
  OBVIOUS
<1>1. Len(filter) \in Nat /\ Len(filter) > 0 /\ Len(topic) \in Nat /\ Len(topic) > 0
  BY Inputs DEF Init
<1>2. TypeOK
  <2>1. fi \in 1..Len(filter) + 1 /\ ti \in 1..Len(topic) + 1
    BY <1>1 DEF Init
  <2> QED BY <2>1 DEF Init, TypeOK
<1>3. Scanned /\ Walked /\ ComputesMatches
  BY DEF Init, Scanned, Walked, ComputesMatches
<1> QED BY <1>2, <1>3 DEF IInv

(* One iteration, one return and the step between the loops keep IInv.         *)
LEMMA NextIInv == IInv /\ [Next]_vars => IInv'
<1> SUFFICES ASSUME IInv, [Next]_vars PROVE IInv'
  OBVIOUS
<1> USE DEF IInv
<1>0. /\ filter \in Seq(Names) /\ Len(filter) \in Nat /\ Len(filter) > 0
      /\ topic \in Seq(Names) /\ Len(topic) \in Nat /\ Len(topic) > 0
  BY Inputs DEF TypeOK
\* Whatever returns the meaning of the filter keeps IInv.
<1>r. ASSUME NEW value \in BOOLEAN, Return(value), value <=> Matches(filter, topic)
      PROVE  IInv'
  BY <1>r DEF Return, TypeOK, Scanned, Walked, ComputesMatches
<1>1. CASE Scan
  <2>1. CASE filter[fi] = Multi /\ fi # Len(filter)
    <3>1. fi \in 1..Len(filter) - 1
      BY <1>0, <1>1, <2>1 DEF Scan, ScanDone, TypeOK
    <3>2. ~WellFormed(filter)
      BY <2>1, <3>1 DEF WellFormed
    <3>3. ~Matches(filter, topic)
      BY <3>2 DEF Matches
    <3> QED BY <1>r, <1>1, <2>1, <3>3 DEF Scan
  <2>2. CASE ~(filter[fi] = Multi /\ fi # Len(filter))
    <3>1. fi' = fi + 1 /\ at = "scan" /\ UNCHANGED <<filter, topic, ti, at, result>>
      BY <1>1, <2>2 DEF Scan
    <3> fi \in 1..Len(filter)
      BY <1>0, <1>1 DEF Scan, ScanDone, TypeOK
    <3>2. TypeOK'
      BY <1>0, <3>1 DEF TypeOK
    <3>3. Scanned'
      BY <1>0, <2>2, <3>1 DEF Scanned
    <3> QED BY <3>1, <3>2, <3>3 DEF Walked, ComputesMatches
  <2> QED BY <2>1, <2>2
<1>2. CASE StartWalk
  BY <1>0, <1>2
  DEF StartWalk, ScanDone, TypeOK, Scanned, Walked, ComputesMatches, WellFormed
<1>3. CASE MatchRest
  <2>1. /\ fi = ti /\ fi \in 1..Len(filter) /\ ti \in 1..Len(topic)
        /\ WellFormed(filter) /\ filter[fi] = Multi
        /\ \A i \in 1..fi - 1 : SegmentMatches(filter[i], topic[i])
    BY <1>0, <1>3 DEF MatchRest, Walking, TypeOK, Walked
  <2>2. fi = Len(filter)
    BY <1>0, <2>1 DEF WellFormed
  <2>3. Matches(filter, topic)
    BY <1>0, <2>1, <2>2 DEF Matches
  <2> QED BY <1>r, <1>3, <2>3 DEF MatchRest
<1>4. CASE Mismatch
  <2>1. /\ fi = ti /\ fi \in 1..Len(filter) /\ ti \in 1..Len(topic)
        /\ filter[fi] # Multi /\ ~SegmentMatches(filter[fi], topic[fi])
    BY <1>0, <1>4 DEF Mismatch, Walking, TypeOK, Walked, SegmentMatches
  <2>2. ~Matches(filter, topic)
    BY <1>0, <2>1 DEF Matches
  <2> QED BY <1>r, <1>4, <2>2 DEF Mismatch
<1>5. CASE Advance
  BY <1>0, <1>5
  DEF Advance, Walking, TypeOK, Scanned, Walked, ComputesMatches, SegmentMatches
<1>6. CASE Finish
  <2>1. /\ fi = ti /\ WellFormed(filter)
        /\ fi \in 1..Len(filter) + 1 /\ ti \in 1..Len(topic) + 1
        /\ fi > Len(filter) \/ ti > Len(topic)
        /\ \A i \in 1..fi - 1 : filter[i] # Multi /\ SegmentMatches(filter[i], topic[i])
    BY <1>0, <1>6 DEF Finish, Walking, TypeOK, Walked
  <2>2. Exhausted <=> Matches(filter, topic)
    <3>1. CASE fi > Len(filter)
      \* All segments of the filter are used, none of them "#".
      <4>1. filter[Len(filter)] # Multi
        BY <1>0, <2>1, <3>1
      <4>2. Exhausted <=> Len(filter) = Len(topic)
        BY <1>0, <2>1, <3>1 DEF Exhausted
      <4>3. Matches(filter, topic) <=> Len(filter) = Len(topic)
        BY <1>0, <2>1, <3>1, <4>1 DEF Matches
      <4> QED BY <4>2, <4>3
    <3>2. CASE fi <= Len(filter)
      \* The topic is used up: what is left of the filter may only be "#".
      <4>1. ti = Len(topic) + 1
        BY <1>0, <2>1, <3>2
      <4>2. CASE filter[fi] = Multi
        <5>1. fi = Len(filter)
          BY <1>0, <2>1, <3>2, <4>2 DEF WellFormed
        <5>2. Matches(filter, topic) /\ Exhausted
          BY <1>0, <2>1, <4>1, <4>2, <5>1 DEF Matches, Exhausted
        <5> QED BY <5>2
      <4>3. CASE filter[fi] # Multi
        <5>1. ~Exhausted
          BY <1>0, <2>1, <3>2, <4>3 DEF Exhausted
        <5>2. ~Matches(filter, topic)
          BY <1>0, <2>1, <3>2, <4>1, <4>3 DEF Matches
        <5> QED BY <5>1, <5>2
      <4> QED BY <4>2, <4>3
    <3> QED BY <1>0, <2>1, <3>1, <3>2
  <2>3. Exhausted \in BOOLEAN
    BY DEF Exhausted
  <2> QED BY <1>r, <1>6, <2>2, <2>3 DEF Finish
<1>7. CASE UNCHANGED vars
  BY <1>7 DEF vars, TypeOK, Scanned, Walked, ComputesMatches
<1> QED BY <1>1, <1>2, <1>3, <1>4, <1>5, <1>6, <1>7 DEF Next

(* The loop invariant of topic_matches().                                      *)
THEOREM Invariance == Spec => []IInv
BY InitIInv, NextIInv, PTL DEF Spec

(* Whatever the filter and the topic, topic_matches() returns their meaning.   *)
THEOREM TopicMatchesCorrect == Spec => []ComputesMatches
<1>1. IInv => ComputesMatches
  BY DEF IInv
<1> QED BY <1>1, Invariance, PTL

(* The loops of topic_matches() come to their end for filters and topics of    *)
(* any length: no iteration leaves as many as there were before it.            *)
THEOREM LoopsShorten == Spec => EveryIterationCounts
<1>1. IInv /\ [Next]_vars => [Left' < Left /\ {Left, Left'} \subseteq Nat]_vars
  <2> SUFFICES ASSUME TypeOK, Next PROVE Left' < Left /\ {Left, Left'} \subseteq Nat
    BY DEF IInv
  <2>1. Len(filter) \in Nat /\ fi \in 1..Len(filter) + 1
    BY InputAssumption DEF TypeOK
  <2>2. CASE Scan
    BY <2>1, <2>2 DEF Scan, ScanDone, Return, Left
  <2>3. CASE StartWalk
    BY <2>1, <2>3 DEF StartWalk, ScanDone, Left
  <2>4. CASE MatchRest \/ Mismatch \/ Finish
    BY <2>1, <2>4 DEF MatchRest, Mismatch, Finish, Walking, Return, Left
  <2>5. CASE Advance
    BY <2>1, <2>5 DEF Advance, Walking, Left
  <2> QED BY <2>2, <2>3, <2>4, <2>5 DEF Next
<1> QED BY <1>1, Invariance, PTL DEF Spec, EveryIterationCounts
=============================================================================

----------------------------- MODULE TopicMatch -----------------------------
(* The loops of topic_matches() (src/mqtt_server.cpp), one iteration a step,   *)
(* run on any filter and topic: first the scan that refuses a filter with "#"  *)
(* anywhere but last, then the two indices that walk filter and topic          *)
(* together.  Indices are one higher than in the code.                         *)
EXTENDS TopicFilter

CONSTANT Names          \* the segments there are, Multi and Single among them

ASSUME SegmentAssumption == Multi \in Names /\ Single \in Names /\ Multi # Single

CONSTANTS Filters, Topics       \* the inputs
ASSUME InputAssumption ==
  \A segments \in Filters \union Topics : segments \in Seq(Names) /\ segments # <<>>

VARIABLES filter, topic,        \* filter_segments and topic_segments
          fi, ti,               \* filter_index and topic_index
          at,                   \* the loop the code is in, or "done"
          result                \* what it returned

vars == <<filter, topic, fi, ti, at, result>>

Init ==
  /\ filter \in Filters /\ topic \in Topics
  /\ fi = 1 /\ ti = 1 /\ at = "scan" /\ result = FALSE

Return(value) == at' = "done" /\ result' = value /\ UNCHANGED <<filter, topic, fi, ti>>

ScanDone == fi > Len(filter)

\* for (...) if (segment == "#" && filter_index != size - 1) return false;
Scan ==
  /\ at = "scan" /\ ~ScanDone
  /\ IF filter[fi] = Multi /\ fi # Len(filter)
     THEN Return(FALSE)
     ELSE fi' = fi + 1 /\ UNCHANGED <<filter, topic, ti, at, result>>

StartWalk ==
  /\ at = "scan" /\ ScanDone
  /\ at' = "walk" /\ fi' = 1
  /\ UNCHANGED <<filter, topic, ti, result>>

Walking == at = "walk" /\ fi <= Len(filter) /\ ti <= Len(topic)

MatchRest == Walking /\ filter[fi] = Multi /\ Return(TRUE)

Mismatch ==
  /\ Walking
  /\ filter[fi] \notin {Multi, Single, topic[ti]}
  /\ Return(FALSE)

\* Faulty: "+" is matched and left standing.
AdvanceLiteral ==
  /\ Walking
  /\ filter[fi] # Multi
  /\ filter[fi] \in {Single, topic[ti]}
  /\ IF filter[fi] = Single THEN UNCHANGED <<fi, ti>> ELSE fi' = fi + 1 /\ ti' = ti + 1
  /\ UNCHANGED <<filter, topic, at, result>>

Advance ==
  /\ Walking
  /\ filter[fi] # Multi
  /\ filter[fi] \in {Single, topic[ti]}
  /\ fi' = fi + 1 /\ ti' = ti + 1
  /\ UNCHANGED <<filter, topic, at, result>>

\* Faulty: "a/#" does not match "a".
NothingLeft == fi > Len(filter) /\ ti > Len(topic)
\* Both used up, or only a trailing "#" left of the filter.
Exhausted == \/ fi > Len(filter) /\ ti > Len(topic)
             \/ fi <= Len(filter) /\ filter[fi] = Multi

Finish ==
  /\ at = "walk" /\ ~Walking
  /\ Return(Exhausted)

Next == Scan \/ StartWalk \/ MatchRest \/ Mismatch \/ Advance \/ Finish

Spec == Init /\ [][Next]_vars
FairSpec == Spec /\ WF_vars(Next)

-----------------------------------------------------------------------------
TypeOK ==
  /\ filter \in Filters /\ topic \in Topics
  /\ fi \in 1..Len(filter) + 1 /\ ti \in 1..Len(topic) + 1
  /\ at \in {"scan", "walk", "done"}
  /\ result \in BOOLEAN

\* Nothing before fi is a "#": what the scan has established so far.
Scanned == at = "scan" =>
  /\ ti = 1
  /\ \A i \in 1..fi - 1 : i < Len(filter) => filter[i] # Multi

\* The filter is well formed, and its first fi - 1 segments match the topic's.
Walked == at = "walk" =>
  /\ fi = ti
  /\ WellFormed(filter)
  /\ \A i \in 1..fi - 1 : filter[i] # Multi /\ SegmentMatches(filter[i], topic[i])

(* topic_matches() returns what the meaning of a topic filter says, "#" at its *)
(* parent level, an empty segment and a misplaced "#" included.                *)
ComputesMatches == at = "done" => (result <=> Matches(filter, topic))

IInv == TypeOK /\ Scanned /\ Walked /\ ComputesMatches

(* Both loops end: every iteration that does not return moves an index.        *)
Terminates == <>(at = "done")

\* The iterations left: those of the scan, then those of the walk.
Left == CASE at = "scan" -> 2 * Len(filter) + 3 - fi
          [] at = "walk" -> Len(filter) + 2 - fi
          [] at = "done" -> 0

(* Both loops together make at most two iterations per segment of the filter   *)
(* and two more, however long the topic: each step leaves fewer.               *)
EveryIterationCounts == [][Left' < Left /\ {Left, Left'} \subseteq Nat]_vars
=============================================================================

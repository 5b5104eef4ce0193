---------------------------- MODULE MCTopicMatch ----------------------------
(* Every filter and every topic of up to three segments over a name, the empty *)
(* name and the two wildcards, which topic_matches() does not refuse in topics.*)
EXTENDS TopicMatch, SequencesExt

MCNames   == {"#", "+", "a", ""}
MCFilters == SeqOf(MCNames, 3) \ {<<>>}
MCTopics  == SeqOf(MCNames, 3) \ {<<>>}
=============================================================================

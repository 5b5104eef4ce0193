----------------------------- MODULE MCFtpPath -----------------------------
(* A root /t/r beside which a directory r2 may exist.  The arguments are all   *)
(* those of up to two segments over the name r, a name with a backslash, "..", *)
(* "." and the empty segment, and a few longer ones that leave the root.       *)
EXTENDS FtpPath, SequencesExt

MCNames   == {"t", "r", "r2", "..\\r2"}
MCSlashed == [n \in MCNames |-> IF n = "..\\r2" THEN <<"..", "r2">> ELSE <<n>>]
MCBase    == <<"t", "r">>
MCExtends == {<<"r2", "r">>}
MCArgs    == [absolute : BOOLEAN, segments : SeqOf({"r", "..\\r2", "..", ".", ""}, 2)]
               \union [absolute : {FALSE}, segments : {<<"..", "..", "t">>, <<"..", "..", "..">>,
                                                       <<"..", "r", "..">>, <<"..", "r2">>}]
=============================================================================

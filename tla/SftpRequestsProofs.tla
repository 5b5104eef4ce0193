------------------------- MODULE SftpRequestsProofs -------------------------
(* For any names, any number of handles and any requests of a session: no      *)
(* stream is lost while the session is served, nothing is changed without the  *)
(* right to write, and the activity log tells the truth (IInv).                *)
EXTENDS SftpRequests, FiniteSetTheorems, TLAPS

-----------------------------------------------------------------------------
(* The table of handles is finite, and empty when the session begins.          *)
LEMMA InitIInv == Init => IInv
<1> SUFFICES ASSUME Init PROVE IInv
  OBVIOUS
<1>1. TypeOK
  BY DEF Init, TypeOK, Replies, Entries
<1>2. Used = {}
  BY DEF Init, Used
<1>3. StreamsMatchHandles
  BY <1>2, FS_EmptySet DEF Init, StreamsMatchHandles
<1>4. LastIsTrue /\ HandlesNeedRights
  BY DEF Init, LastIsTrue, HandlesNeedRights, Holds
<1> QED BY <1>1, <1>3, <1>4 DEF IInv

(* Handing out an unused handle adds one to those the client has.              *)
LEMMA OneMore ==
  ASSUME TypeOK, NEW h \in Slots, NEW object \in Handles, handles[h] = None,
         handles' = [handles EXCEPT ![h] = object]
  PROVE  Cardinality(Used') = Cardinality(Used) + 1
<1>1. IsFiniteSet(Used)
  BY SlotAssumption, FS_Subset DEF Used
<1>2. Used' = Used \union {h} /\ h \notin Used
  BY SlotAssumption DEF Used, TypeOK
<1> QED BY <1>1, <1>2, FS_AddElement

(* Removing a handle takes one away.                                           *)
LEMMA OneLess ==
  ASSUME TypeOK, NEW h \in Slots, handles[h] # None,
         handles' = [handles EXCEPT ![h] = None]
  PROVE  Cardinality(Used') = Cardinality(Used) - 1 /\ Cardinality(Used) - 1 \in Nat
<1>1. IsFiniteSet(Used)
  BY SlotAssumption, FS_Subset DEF Used
<1>2. Used' = Used \ {h} /\ h \in Used
  BY DEF Used, TypeOK
<1>3. IsFiniteSet(Used') /\ Cardinality(Used') = Cardinality(Used) - 1
  BY <1>1, <1>2, FS_RemoveElement
<1> QED BY <1>3, FS_CardinalityType

-----------------------------------------------------------------------------
(* An answer that leaves the handles alone keeps the invariant, if it is one   *)
(* the properties allow.                                                       *)
LEMMA AnswerKeepsIInv ==
  ASSUME IInv, NEW op \in Requests, NEW reply \in Replies, NEW entry \in Entries,
         NEW wrote \in BOOLEAN, Answer(op, reply, entry, wrote),
         wrote => "write" \in rights /\ (entry = "OK" \/ reply = "FAILURE"),
         entry = "OK" => reply \in {"OK", "HANDLE", "lost"},
         reply = "NAME" => "read" \in rights,
         tree' \in [Names -> {"none", "file", "dir"}],
         UNCHANGED <<rights, handles, streams, place>>
  PROVE  IInv'
<1>1. last' = [op |-> op, reply |-> reply, entry |-> entry, wrote |-> wrote]
  BY DEF Answer
<1>2. TypeOK'
  BY <1>1 DEF IInv, TypeOK
<1>3. Used' = Used /\ StreamsMatchHandles'
  BY DEF IInv, StreamsMatchHandles, Used
<1>4. LastIsTrue'
  BY <1>1 DEF LastIsTrue
<1>5. HandlesNeedRights'
  BY DEF IInv, HandlesNeedRights, Holds
<1> QED BY <1>2, <1>3, <1>4, <1>5 DEF IInv

(* A request that only answers.                                                *)
LEMMA ToldKeepsIInv ==
  ASSUME IInv, NEW op \in Requests, NEW reply \in Replies, NEW entry \in Entries,
         Told(op, reply, entry),
         entry = "OK" => reply \in {"OK", "HANDLE", "lost"},
         reply = "NAME" => "read" \in rights
  PROVE  IInv'
<1>1. Answer(op, reply, entry, FALSE) /\ UNCHANGED <<rights, tree, handles, streams, place>>
  BY DEF Told
<1>2. tree' \in [Names -> {"none", "file", "dir"}]
  BY <1>1 DEF IInv, TypeOK
<1> QED BY <1>1, <1>2, AnswerKeepsIInv

(* A request with a path is refused, or has the rights it needs.               *)
LEMMA CheckedOutcome ==
  ASSUME NEW needs, NEW name, NEW mustExist \in BOOLEAN
  PROVE  /\ Checked(needs, name, mustExist) \in {"DENIED", "NO_SUCH", "OK"}
         /\ Checked(needs, name, mustExist) = "OK" =>
              needs \subseteq rights /\ Resolves(name, mustExist)
BY DEF Checked

-----------------------------------------------------------------------------
(* What a file is opened for is what the flags were checked for.               *)
LEMMA ModesNeedRights ==
  ASSUME NEW flags \in SUBSET Flags
  PROVE  /\ Mode(flags) \in Modes
         /\ Creates(Mode(flags)) => "write" \in Needs(flags)
         /\ Truncates(Mode(flags)) => "write" \in Needs(flags)
<1>1. Mode(flags) \in Modes
  BY DEF Mode, Modes
<1>2. Creates(Mode(flags)) \/ Truncates(Mode(flags)) => "WRITE" \in flags
  BY DEF Mode, Creates, Truncates
<1>3. "WRITE" \in flags => "write" \in Needs(flags)
  BY DEF Needs
<1> QED BY <1>1, <1>2, <1>3

(* OPEN and OPENDIR: the stream is closed, or is the client's.                 *)
LEMMA HandKeepsIInv ==
  ASSUME IInv, NEW op \in Requests, NEW object \in Handles, NEW wrote \in BOOLEAN,
         Hand(op, object, wrote), wrote => "write" \in rights,
         object.kind = "directory" => "read" \in rights,
         tree' \in [Names -> {"none", "file", "dir"}], UNCHANGED rights
  PROVE  IInv'
<1>1. CASE Answer(op, "FAILURE", "none", wrote) /\ Closed /\ UNCHANGED <<handles, place>>
  BY <1>1, AnswerKeepsIInv DEF Closed, Replies, Entries
<1>2. ASSUME NEW h \in Slots, handles[h] = None, Answer(op, "HANDLE", "OK", wrote),
             handles' = [handles EXCEPT ![h] = object],
             streams' = streams + 1, UNCHANGED place
      PROVE  IInv'
  <2>1. last' = [op |-> op, reply |-> "HANDLE", entry |-> "OK", wrote |-> wrote]
    BY <1>2 DEF Answer
  <2>2. TypeOK'
    BY <1>2, <2>1 DEF IInv, TypeOK, Replies, Entries
  <2>3. StreamsMatchHandles'
    BY <1>2, OneMore DEF IInv, StreamsMatchHandles
  <2>4. LastIsTrue'
    BY <2>1 DEF LastIsTrue
  <2>5. HandlesNeedRights'
    BY <1>2 DEF IInv, TypeOK, HandlesNeedRights, Holds
  <2> QED BY <2>2, <2>3, <2>4, <2>5 DEF IInv
<1>3. CASE Answer(op, "lost", "OK", wrote) /\ place' = "ended" /\ UNCHANGED <<handles, streams>>
  <2>1. last' = [op |-> op, reply |-> "lost", entry |-> "OK", wrote |-> wrote]
    BY <1>3 DEF Answer
  <2>2. TypeOK'
    BY <1>3, <2>1 DEF IInv, TypeOK, Replies, Entries
  <2>3. StreamsMatchHandles' /\ LastIsTrue'
    BY <1>3, <2>1 DEF StreamsMatchHandles, LastIsTrue
  <2>4. HandlesNeedRights'
    BY <1>3 DEF IInv, HandlesNeedRights, Holds
  <2> QED BY <2>2, <2>3, <2>4 DEF IInv
<1> QED BY <1>1, <1>2, <1>3 DEF Hand

(* OPEN: what it may do with the file is what its user has the rights for.     *)
LEMMA OpenKeepsIInv ==
  ASSUME IInv, NEW name \in Names \union {Outside}, NEW flags \in SUBSET Flags, Open(name, flags)
  PROVE  IInv'
<1> DEFINE checked == Checked(Needs(flags), name, "CREAT" \notin flags)
<1>1. checked \in {"DENIED", "NO_SUCH", "OK"} /\ (checked = "OK" =>
        Needs(flags) \subseteq rights /\ Resolves(name, "CREAT" \notin flags))
  BY CheckedOutcome
<1>2. CASE checked # "OK" /\ Told("OPEN", checked, checked)
  BY <1>1, <1>2, ToldKeepsIInv DEF Requests, Replies, Entries
<1>3. CASE Told("OPEN", "FAILURE", "FAILURE")
  BY <1>3, ToldKeepsIInv DEF Requests, Replies, Entries
<1>4. ASSUME checked = "OK",
             tree' = [tree EXCEPT ![name] = IF @ = "none" THEN "file" ELSE @],
             Fopens(Mode(flags), name),
             Hand("OPEN", [kind |-> "file", mode |-> Mode(flags), on |-> tree'[name],
                           path |-> name], Truncates(Mode(flags))),
             UNCHANGED rights
      PROVE  IInv'
  <2> DEFINE object == [kind |-> "file", mode |-> Mode(flags), on |-> tree'[name], path |-> name]
  <2>1. name \in Names
    BY <1>1, <1>4 DEF Resolves
  <2>2. tree' \in [Names -> {"none", "file", "dir"}] /\ tree'[name] \in {"file", "dir"}
    BY <1>4, <2>1 DEF IInv, TypeOK
  <2>3. object \in Handles /\ object.kind = "file"
    BY <2>1, <2>2, ModesNeedRights DEF Handles
  <2>4. Truncates(Mode(flags)) => "write" \in rights
    BY <1>1, <1>4, ModesNeedRights
  <2>5. Truncates(Mode(flags)) \in BOOLEAN /\ "OPEN" \in Requests
    BY DEF Truncates, Requests
  <2> HIDE DEF object
  <2>6. Hand("OPEN", object, Truncates(Mode(flags)))
    BY <1>4 DEF object
  <2> QED BY <1>4, <2>2, <2>3, <2>4, <2>5, <2>6, HandKeepsIInv
<1> QED BY <1>2, <1>3, <1>4 DEF Open

(* OPENDIR: the user has the right to read.                                    *)
LEMMA OpendirKeepsIInv ==
  ASSUME IInv, NEW name \in Names \union {Outside}, Opendir(name)
  PROVE  IInv'
<1> DEFINE checked == Checked({"read"}, name, TRUE)
<1>1. checked \in {"DENIED", "NO_SUCH", "OK"} /\ (checked = "OK" =>
        {"read"} \subseteq rights /\ Resolves(name, TRUE))
  BY CheckedOutcome
<1>2. CASE checked # "OK" /\ Told("OPENDIR", checked, checked)
  BY <1>1, <1>2, ToldKeepsIInv DEF Requests, Replies, Entries
<1>3. CASE Told("OPENDIR", "FAILURE", "FAILURE")
  BY <1>3, ToldKeepsIInv DEF Requests, Replies, Entries
<1>4. ASSUME checked = "OK", Hand("OPENDIR", [kind |-> "directory", path |-> name], FALSE),
             UNCHANGED <<rights, tree>>
      PROVE  IInv'
  <2> DEFINE object == [kind |-> "directory", path |-> name]
  <2>1. name \in Names /\ "read" \in rights
    BY <1>1, <1>4 DEF Resolves
  <2>2. object \in Handles /\ object.kind = "directory"
    BY <2>1 DEF Handles
  <2>3. tree' \in [Names -> {"none", "file", "dir"}] /\ "OPENDIR" \in Requests
    BY <1>4 DEF IInv, TypeOK, Requests
  <2> HIDE DEF object
  <2>4. Hand("OPENDIR", object, FALSE)
    BY <1>4 DEF object
  <2> QED BY <1>4, <2>1, <2>2, <2>3, <2>4, HandKeepsIInv
<1> QED BY <1>2, <1>3, <1>4 DEF Opendir

-----------------------------------------------------------------------------
(* A handle that is not known is answered so, one of the wrong kind ends what  *)
(* can be said.                                                                *)
LEMMA UnknownKeepsIInv ==
  ASSUME IInv, NEW op \in Requests, NEW h, Unknown(op, h)
  PROVE  IInv'
BY ToldKeepsIInv DEF Unknown, Replies, Entries

LEMMA MisusedKeepsIInv ==
  ASSUME IInv, NEW h, NEW kind, Misused(h, kind)
  PROVE  IInv'
BY DEF IInv, TypeOK, StreamsMatchHandles, LastIsTrue, HandlesNeedRights, Holds, Misused

(* CLOSE takes the handle and the stream.                                      *)
LEMMA CloseKeepsIInv ==
  ASSUME IInv, NEW h \in Slots, Close(h)
  PROVE  IInv'
<1>1. CASE Unknown("CLOSE", h)
  BY <1>1, UnknownKeepsIInv DEF Requests
<1>2. CASE /\ handles[h] # None
           /\ Answer("CLOSE", "OK", "OK", FALSE)
           /\ handles' = [handles EXCEPT ![h] = None]
           /\ streams' = streams - 1
           /\ UNCHANGED <<rights, tree, place>>
  <2>1. last' = [op |-> "CLOSE", reply |-> "OK", entry |-> "OK", wrote |-> FALSE]
          /\ place = "served"
    BY <1>2 DEF Answer
  <2>2. TypeOK /\ streams = Cardinality(Used)
    BY <2>1 DEF IInv, StreamsMatchHandles
  <2>3. streams' = Cardinality(Used') /\ streams' \in Nat
    BY <1>2, <2>2, OneLess
  <2>4. TypeOK'
    BY <1>2, <2>1, <2>2, <2>3 DEF TypeOK, Requests, Replies, Entries
  <2>5. LastIsTrue'
    BY <2>1 DEF LastIsTrue
  <2>6. HandlesNeedRights'
    BY <1>2, <2>2 DEF IInv, TypeOK, HandlesNeedRights, Holds
  <2> QED BY <2>3, <2>4, <2>5, <2>6 DEF IInv, StreamsMatchHandles
<1> QED BY <1>1, <1>2 DEF Close

(* READ and READDIR answer with what their handle was opened for.              *)
LEMMA ReadKeepsIInv ==
  ASSUME IInv, NEW h \in Slots, Read(h) \/ Readdir(h)
  PROVE  IInv'
<1>1. {"READ", "READDIR"} \subseteq Requests /\ {"DATA", "EOF", "FAILURE", "NAME"} \subseteq Replies
        /\ "none" \in Entries
  BY DEF Requests, Replies, Entries
<1>2. Holds(h, "directory") => "read" \in rights
  BY DEF IInv, HandlesNeedRights, Holds
<1>3. CASE Read(h)
  BY <1>1, <1>3, UnknownKeepsIInv, MisusedKeepsIInv, ToldKeepsIInv DEF Read
<1>4. CASE Readdir(h)
  BY <1>1, <1>2, <1>4, UnknownKeepsIInv, MisusedKeepsIInv, ToldKeepsIInv DEF Readdir
<1> QED BY <1>3, <1>4

(* WRITE looks at the rights itself.                                           *)
LEMMA WriteKeepsIInv ==
  ASSUME IInv, NEW h \in Slots, Write(h)
  PROVE  IInv'
<1>1. "WRITE" \in Requests /\ {"DENIED", "FAILURE", "OK"} \subseteq Replies
        /\ {"none", "OK"} \subseteq Entries /\ tree \in [Names -> {"none", "file", "dir"}]
  BY DEF IInv, TypeOK, Requests, Replies, Entries
<1>2. CASE Told("WRITE", "DENIED", "none")
  BY <1>1, <1>2, ToldKeepsIInv
<1>3. CASE Unknown("WRITE", h) \/ Misused(h, "directory")
  BY <1>1, <1>3, UnknownKeepsIInv, MisusedKeepsIInv
<1>4. ASSUME NEW reply \in {"FAILURE", "OK"}, NEW entry \in {"none", "OK"}, NEW wrote \in BOOLEAN,
             Answer("WRITE", reply, entry, wrote), "write" \in rights,
             entry = "OK" \/ reply = "FAILURE", entry = "OK" => reply = "OK",
             UNCHANGED <<rights, tree, handles, streams, place>>
      PROVE  IInv'
  <2>1. reply \in Replies /\ entry \in Entries /\ reply # "NAME" /\ reply # "DATA"
    BY <1>1
  <2> QED BY <1>1, <1>4, <2>1, AnswerKeepsIInv
<1>5. CASE Answer("WRITE", "FAILURE", "none", FALSE) /\ "write" \in rights
             /\ UNCHANGED <<rights, tree, handles, streams, place>>
  BY <1>4, <1>5
<1>6. CASE Answer("WRITE", "FAILURE", "none", TRUE) /\ "write" \in rights
             /\ UNCHANGED <<rights, tree, handles, streams, place>>
  BY <1>4, <1>6
<1>7. ASSUME NEW wrote \in BOOLEAN, Answer("WRITE", "OK", "OK", wrote), "write" \in rights,
             UNCHANGED <<rights, tree, handles, streams, place>>
      PROVE  IInv'
  BY <1>4, <1>7
<1> QED BY <1>2, <1>3, <1>5, <1>6, <1>7 DEF Write

(* FSTAT and FSETSTAT only answer.                                             *)
LEMMA FstatKeepsIInv ==
  ASSUME IInv, NEW h \in Slots, Fstat(h) \/ Fsetstat(h)
  PROVE  IInv'
<1>1. {"FSTAT", "FSETSTAT"} \subseteq Requests
        /\ {"ATTR", "FAILURE", "OK", "DENIED"} \subseteq Replies /\ "none" \in Entries
  BY DEF Requests, Replies, Entries
<1>2. CASE Fstat(h)
  BY <1>1, <1>2, UnknownKeepsIInv, MisusedKeepsIInv, ToldKeepsIInv DEF Fstat
<1>3. CASE Fsetstat(h)
  BY <1>1, <1>3, UnknownKeepsIInv, ToldKeepsIInv DEF Fsetstat
<1> QED BY <1>2, <1>3

-----------------------------------------------------------------------------
(* The requests that do not change the tree.                                   *)
LEMMA LookKeepsIInv ==
  ASSUME IInv,
         \/ \E name \in Names \union {Outside} : Stat(name) \/ Setstat(name)
         \/ Realpath \/ Told("other", "UNSUPPORTED", "none")
  PROVE  IInv'
<1>1. {"STAT", "SETSTAT", "REALPATH", "other"} \subseteq Requests /\ Entries \subseteq Replies
        /\ {"ATTR", "NO_SUCH", "FAILURE", "NAME", "UNSUPPORTED"} \subseteq Replies
        /\ {"none", "OK", "DENIED", "NO_SUCH"} \subseteq Entries
  BY DEF Requests, Replies, Entries
<1>2. ASSUME NEW name, Stat(name) PROVE IInv'
  BY <1>1, <1>2, ToldKeepsIInv DEF Stat
<1>3. ASSUME NEW name, Setstat(name) PROVE IInv'
  <2>1. Checked({"write"}, name, TRUE) \in {"DENIED", "NO_SUCH", "OK"}
    BY CheckedOutcome
  <2> QED BY <1>1, <1>3, <2>1, ToldKeepsIInv DEF Setstat
<1>4. CASE Realpath
  BY <1>1, <1>4, ToldKeepsIInv DEF Realpath
<1>5. CASE Told("other", "UNSUPPORTED", "none")
  BY <1>1, <1>5, ToldKeepsIInv
<1> QED BY <1>2, <1>3, <1>4, <1>5

(* MKDIR, RMDIR and REMOVE.                                                    *)
LEMMA AlterKeepsIInv ==
  ASSUME IInv, NEW op \in {"MKDIR", "RMDIR", "REMOVE"}, NEW name \in Names \union {Outside},
         Alter(op, name)
  PROVE  IInv'
<1> DEFINE checked == Checked({"write"}, name, op # "MKDIR")
<1>1. checked \in {"DENIED", "NO_SUCH", "OK"}
  BY CheckedOutcome
<1>2. op \in Requests /\ {"DENIED", "NO_SUCH", "OK", "FAILURE"} \subseteq Replies
        /\ {"DENIED", "NO_SUCH", "OK", "FAILURE"} \subseteq Entries
  BY DEF Requests, Replies, Entries
<1>3. Logged(op, FALSE) = "FAILURE" /\ Logged(op, TRUE) = "OK"
  BY <1>2 DEF Logged
<1>4. CASE checked # "OK" /\ Told(op, checked, checked)
  BY <1>1, <1>2, <1>4, ToldKeepsIInv
<1>5. CASE Told(op, "FAILURE", Logged(op, FALSE))
  BY <1>2, <1>3, <1>5, ToldKeepsIInv
<1>6. CASE /\ tree' = [tree EXCEPT ![name] = IF op = "MKDIR" THEN "dir" ELSE "none"]
           /\ Answer(op, "OK", Logged(op, TRUE), FALSE)
           /\ UNCHANGED <<rights, handles, streams, place>>
  <2>1. tree' \in [Names -> {"none", "file", "dir"}]
    BY <1>6 DEF IInv, TypeOK
  <2> QED BY <1>2, <1>3, <1>6, <2>1, AnswerKeepsIInv
<1> QED BY <1>4, <1>5, <1>6 DEF Alter

(* RENAME.                                                                     *)
LEMMA RenameKeepsIInv ==
  ASSUME IInv, NEW from \in Names \union {Outside}, NEW to \in Names \union {Outside},
         Rename(from, to)
  PROVE  IInv'
<1> DEFINE checked == Checked({"write"}, from, TRUE)
<1>1. checked \in {"DENIED", "NO_SUCH", "OK"} /\ (checked = "OK" => Resolves(from, TRUE))
  BY CheckedOutcome
<1>2. "RENAME" \in Requests /\ {"DENIED", "NO_SUCH", "OK", "FAILURE"} \subseteq Replies
        /\ {"none", "DENIED", "NO_SUCH", "OK", "FAILURE"} \subseteq Entries
  BY DEF Requests, Replies, Entries
<1>3. CASE checked # "OK" /\ Told("RENAME", checked, checked)
  BY <1>1, <1>2, <1>3, ToldKeepsIInv
<1>4. ASSUME NEW reply \in {"NO_SUCH", "FAILURE"}, NEW entry \in {"none", "NO_SUCH", "FAILURE"},
             Told("RENAME", reply, entry)
      PROVE  IInv'
  BY <1>2, <1>4, ToldKeepsIInv
<1>5. CASE /\ checked = "OK"
           /\ tree' = IF from = to THEN tree
                      ELSE [tree EXCEPT ![from] = "none", ![to] = tree[from]]
           /\ Answer("RENAME", "OK", "OK", FALSE)
           /\ UNCHANGED <<rights, handles, streams, place>>
  <2>1. tree[from] \in {"none", "file", "dir"}
    BY <1>1, <1>5 DEF IInv, TypeOK, Resolves
  <2>2. tree' \in [Names -> {"none", "file", "dir"}]
    BY <1>5, <2>1 DEF IInv, TypeOK
  <2> QED BY <1>2, <1>5, <2>2, AnswerKeepsIInv
<1> QED BY <1>3, <1>4, <1>5 DEF Rename

-----------------------------------------------------------------------------
(* Every request keeps the invariant.                                          *)
LEMMA RequestKeepsIInv ==
  ASSUME IInv, Request PROVE IInv'
<1>1. ASSUME NEW name \in Names \union {Outside}, NEW flags \in SUBSET Flags, Open(name, flags)
      PROVE  IInv'
  BY <1>1, OpenKeepsIInv
<1>2. ASSUME NEW name \in Names \union {Outside}, Opendir(name) PROVE IInv'
  BY <1>2, OpendirKeepsIInv
<1>3. ASSUME NEW name \in Names \union {Outside}, NEW op \in {"MKDIR", "RMDIR", "REMOVE"},
             Alter(op, name)
      PROVE  IInv'
  BY <1>3, AlterKeepsIInv
<1>4. ASSUME NEW name \in Names \union {Outside}, NEW to \in Names \union {Outside},
             Rename(name, to)
      PROVE  IInv'
  BY <1>4, RenameKeepsIInv
<1>5. ASSUME NEW name \in Names \union {Outside}, Stat(name) \/ Setstat(name) PROVE IInv'
  BY <1>5, LookKeepsIInv
<1>6. ASSUME NEW h \in Slots, Close(h) \/ Read(h) \/ Write(h) \/ Readdir(h) \/ Fstat(h) \/ Fsetstat(h)
      PROVE  IInv'
  BY <1>6, CloseKeepsIInv, ReadKeepsIInv, WriteKeepsIInv, FstatKeepsIInv
<1>7. CASE Realpath \/ Told("other", "UNSUPPORTED", "none")
  BY <1>7, LookKeepsIInv
<1> QED BY <1>1, <1>2, <1>3, <1>4, <1>5, <1>6, <1>7 DEF Request

(* The end of the session takes the handles; what others do is no answer.      *)
LEMMA NextKeepsIInv ==
  ASSUME IInv, [Next]_vars PROVE IInv'
<1>1. CASE Request
  BY <1>1, RequestKeepsIInv
<1>2. CASE End
  BY <1>2 DEF IInv, TypeOK, StreamsMatchHandles, LastIsTrue, HandlesNeedRights, Holds, End
<1>3. CASE Others
  <2>1. last' = [last EXCEPT !.op = "nobody"] /\ UNCHANGED <<rights, handles, streams, place>>
    BY <1>3 DEF Others
  <2>2. TypeOK'
    BY <1>3 DEF IInv, TypeOK, Others
  <2>3. Used' = Used /\ StreamsMatchHandles'
    BY <2>1 DEF IInv, StreamsMatchHandles, Used
  <2>4. LastIsTrue'
    BY <2>1 DEF IInv, TypeOK, LastIsTrue
  <2>5. HandlesNeedRights'
    BY <2>1 DEF IInv, HandlesNeedRights, Holds
  <2> QED BY <2>2, <2>3, <2>4, <2>5 DEF IInv
<1>4. CASE UNCHANGED vars
  <2>1. UNCHANGED <<rights, tree, handles, streams, last, place>>
    BY <1>4 DEF vars
  <2>2. Used' = Used /\ StreamsMatchHandles'
    BY <2>1 DEF IInv, StreamsMatchHandles, Used
  <2> QED BY <2>1, <2>2 DEF IInv, TypeOK, LastIsTrue, HandlesNeedRights, Holds
<1> QED BY <1>1, <1>2, <1>3, <1>4 DEF Next

-----------------------------------------------------------------------------
(* A handle is handed out, or not, and the tree is as it was made: what the    *)
(* answer logs is OK, or it is FAILURE.                                        *)
LEMMA HandAnswers ==
  ASSUME NEW op, NEW object, NEW wrote, Hand(op, object, wrote)
  PROVE  last'.entry = "OK" \/ last'.reply = "FAILURE"
BY DEF Hand, Answer

(* What others do is no answer.                                                *)
LEMMA OthersAnswerNothing ==
  ASSUME IInv, Others PROVE last'.op = "nobody"
BY DEF IInv, TypeOK, Others

(* No request changes the rights, and one that changes the tree has been       *)
(* allowed to, and is logged OK or answered FAILURE.                           *)
LEMMA TreeChange ==
  ASSUME IInv, [Next]_vars
  PROVE  /\ rights' = rights
         /\ last'.op # "nobody" /\ tree' # tree =>
              "write" \in rights /\ (last'.entry = "OK" \/ last'.reply = "FAILURE")
<1> DEFINE Allowed == "write" \in rights /\ (last'.entry = "OK" \/ last'.reply = "FAILURE")
<1>1. ASSUME NEW name \in Names \union {Outside}, NEW flags \in SUBSET Flags, Open(name, flags)
      PROVE  rights' = rights /\ (tree' # tree => Allowed)
  <2>1. CASE \E reply, entry : Told("OPEN", reply, entry)
    BY <2>1 DEF Told
  <2>2. ASSUME Checked(Needs(flags), name, "CREAT" \notin flags) = "OK",
               Fopens(Mode(flags), name),
               tree' = [tree EXCEPT ![name] = IF @ = "none" THEN "file" ELSE @],
               NEW object, Hand("OPEN", object, Truncates(Mode(flags))), UNCHANGED rights
        PROVE  rights' = rights /\ (tree' # tree => Allowed)
    <3>1. Needs(flags) \subseteq rights /\ name \in Names
      BY <2>2, CheckedOutcome DEF Resolves
    <3>2. last'.entry = "OK" \/ last'.reply = "FAILURE"
      BY <2>2, HandAnswers
    <3>3. tree[name] = "none" => "write" \in rights
      BY <2>2, <3>1, ModesNeedRights DEF Fopens
    <3>4. tree[name] # "none" => tree' = tree
      BY <2>2 DEF IInv, TypeOK
    <3> QED BY <2>2, <3>2, <3>3, <3>4
  <2> QED BY <1>1, <2>1, <2>2 DEF Open
<1>2. ASSUME NEW name \in Names \union {Outside}, Opendir(name) \/ Stat(name) \/ Setstat(name)
      PROVE  UNCHANGED <<rights, tree>>
  BY <1>2 DEF Opendir, Stat, Setstat, Told
<1>3. ASSUME NEW name \in Names \union {Outside}, NEW op \in {"MKDIR", "RMDIR", "REMOVE"},
             Alter(op, name)
      PROVE  rights' = rights /\ (tree' # tree => Allowed)
  <2>1. op \in Requests
    BY DEF Requests
  <2>2. Checked({"write"}, name, op # "MKDIR") = "OK" => "write" \in rights
    BY CheckedOutcome
  <2> QED BY <1>3, <2>1, <2>2 DEF Alter, Told, Answer, Logged
<1>4. ASSUME NEW name \in Names \union {Outside}, NEW to \in Names \union {Outside},
             Rename(name, to)
      PROVE  rights' = rights /\ (tree' # tree => Allowed)
  <2>1. Checked({"write"}, name, TRUE) = "OK" => "write" \in rights
    BY CheckedOutcome
  <2>2. CASE Checked({"write"}, name, TRUE) = "OK" /\ Answer("RENAME", "OK", "OK", FALSE)
               /\ UNCHANGED <<rights, handles, streams, place>>
    BY <2>1, <2>2 DEF Answer
  <2>3. CASE \E reply, entry : Told("RENAME", reply, entry)
    BY <2>3 DEF Told
  <2> QED BY <1>4, <2>2, <2>3 DEF Rename
<1>5. ASSUME NEW h \in Slots, Close(h) \/ Read(h) \/ Write(h) \/ Readdir(h) \/ Fstat(h) \/ Fsetstat(h)
      PROVE  UNCHANGED <<rights, tree>>
  BY <1>5 DEF Close, Read, Write, Readdir, Fstat, Fsetstat, Unknown, Misused, Told
<1>6. CASE Realpath \/ Told("other", "UNSUPPORTED", "none") \/ End
  BY <1>6 DEF Realpath, Told, End
<1>7. CASE Others
  BY <1>7, OthersAnswerNothing DEF Others
<1>8. CASE UNCHANGED vars
  BY <1>8 DEF vars
<1> QED BY <1>1, <1>2, <1>3, <1>4, <1>5, <1>6, <1>7, <1>8 DEF Next, Request

-----------------------------------------------------------------------------
(* The invariant holds in every state of every session.                        *)
THEOREM Consistency == Spec => []IInv
<1>1. Init => IInv
  BY InitIInv
<1>2. IInv /\ [Next]_vars => IInv'
  BY NextKeepsIInv
<1> QED BY <1>1, <1>2, PTL DEF Spec

(* OPEN, OPENDIR and CLOSE lose no stream, and leave no handle without one.    *)
THEOREM StreamsAreKept == Spec => []StreamsMatchHandles
<1>1. IInv => StreamsMatchHandles
  BY DEF IInv
<1> QED BY <1>1, Consistency, PTL

(* Nothing is made, changed, removed or renamed without the right to write,    *)
(* whatever flags files are opened with, and no name is told without the right *)
(* to read.                                                                    *)
THEOREM RightsAreNeeded == Spec => NeedsRights
<1>1. ASSUME IInv, [Next]_vars
      PROVE  [/\ Changed => "write" \in rights
              /\ last'.reply = "NAME" => "read" \in rights
             ]_vars
  <2>1. LastIsTrue'
    BY <1>1, NextKeepsIInv DEF IInv
  <2>2. rights' = rights /\ (last'.op # "nobody" /\ tree' # tree => "write" \in rights)
    BY <1>1, TreeChange
  <2> QED BY <2>1, <2>2 DEF LastIsTrue, Changed
<1> QED BY <1>1, Consistency, PTL DEF Spec, NeedsRights

(* The activity log has what was done and nothing that failed.                 *)
THEOREM LogTellsTruth == Spec => LogIsTrue
<1>1. ASSUME IInv, [Next]_vars
      PROVE  [/\ Changed => last'.entry = "OK" \/ last'.reply = "FAILURE"
              /\ last'.entry = "OK" => last'.reply \in {"OK", "HANDLE", "lost"}
             ]_vars
  <2>1. LastIsTrue'
    BY <1>1, NextKeepsIInv DEF IInv
  <2>2. last'.op # "nobody" /\ tree' # tree => last'.entry = "OK" \/ last'.reply = "FAILURE"
    BY <1>1, TreeChange
  <2> QED BY <2>1, <2>2 DEF LastIsTrue, Changed
<1> QED BY <1>1, Consistency, PTL DEF Spec, LogIsTrue
=============================================================================

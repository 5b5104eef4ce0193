---------------------------- MODULE SftpRequests ----------------------------
(* The fifteen requests of an SFTP session (src/sftp_handlers.cpp) as          *)
(* process_sftp() takes them up, one after the other: the handles of the       *)
(* session, the tree below its root, the rights of its user, what it answers   *)
(* and what it writes into the activity log.                                   *)
(*                                                                             *)
(* The tree is one level of names; other sessions and the test change it too.  *)
(* The bytes of a file are left out: `last` says whether a request changed     *)
(* some.  libssh's table of handles is modelled by what the handlers expect of *)
(* it: a bounded table in which a handle that has been removed is unknown.     *)
(* The code is modelled as built for POSIX.                                    *)
(*                                                                             *)
(* A definition marked "Faulty:" is not part of the specification: it is the   *)
(* one below it with a bug a change to the code could introduce.               *)
EXTENDS Naturals, FiniteSets

CONSTANTS
  Names,        \* the paths of which the directory is found, and starts as the root does
  Outside,      \* any other path; a session without a root has no Names
  None,         \* no handle in a slot
  Slots         \* bound: libssh's SFTP_HANDLES, with one slot per handle

Flags == {"READ", "WRITE", "APPEND", "CREAT", "TRUNC"}

ASSUME NameAssumption == Outside \notin Names

VARIABLES
  rights,       \* ctx.perm
  tree,         \* what is at each name: "none", "file" or "dir"
  handles,      \* the table of handles: None or the HandleData
  streams,      \* FILE and DIR objects the session has opened and not closed
  last,         \* the last change: by which request, how it was answered, the
                \* result it logged, and whether it changed bytes of a file
  place         \* "served"; "ended"; or "undefined" once a handler has used a
                \* HandleData as what it is not

vars == <<rights, tree, handles, streams, last, place>>

Modes   == {"rb", "rb+", "wb", "wb+", "ab", "ab+"}
Handles == [kind : {"file"}, mode : Modes, on : {"file", "dir"}, path : Names]
             \union [kind : {"directory"}, path : Names]

ASSUME SlotAssumption == IsFiniteSet(Slots) /\ None \notin Handles

Requests == {"OPEN", "CLOSE", "READ", "WRITE", "OPENDIR", "READDIR", "STAT", "FSTAT", "SETSTAT",
             "FSETSTAT", "MKDIR", "RMDIR", "REMOVE", "RENAME", "REALPATH", "other"}
Replies  == {"none", "OK", "DENIED", "NO_SUCH", "FAILURE", "INVALID", "UNSUPPORTED", "HANDLE",
             "lost", "DATA", "EOF", "NAME", "ATTR"}
Entries  == {"none", "OK", "DENIED", "NO_SUCH", "FAILURE"}

TypeOK ==
  /\ rights \subseteq {"read", "write"}
  /\ tree \in [Names -> {"none", "file", "dir"}]
  /\ handles \in [Slots -> Handles \union {None}]
  /\ streams \in Nat
  /\ last \in [op : Requests \union {"nobody"}, reply : Replies, entry : Entries,
               wrote : BOOLEAN]
  /\ place \in {"served", "ended", "undefined"}

Init ==
  /\ rights \in SUBSET {"read", "write"}
  /\ tree \in [Names -> {"none", "file", "dir"}]
  /\ handles = [h \in Slots |-> None] /\ streams = 0
  /\ last = [op |-> "nobody", reply |-> "none", entry |-> "none", wrote |-> FALSE]
  /\ place = "served"

-----------------------------------------------------------------------------
(* What the handlers have in common.                                           *)

Answer(op, reply, entry, wrote) ==
  /\ place = "served"
  /\ last' = [op |-> op, reply |-> reply, entry |-> entry, wrote |-> wrote]

\* realpath() of the path, or, if a file may be made, of its directory.
Found(name, mustExist) == tree[name] # "none" \/ ~mustExist

\* The comparison with the root resolve_path() ends with.
Resolves(name, mustExist) == name \in Names /\ Found(name, mustExist)

\* The result of the two checks every request with a path begins with.
Checked(needs, name, mustExist) ==
  CASE ~ needs \subseteq rights -> "DENIED"
    [] needs \subseteq rights /\ ~Resolves(name, mustExist) -> "NO_SUCH"
    [] OTHER -> "OK"

\* A request that only answers and logs.
Told(op, reply, entry) ==
  /\ Answer(op, reply, entry, FALSE)
  /\ UNCHANGED <<rights, tree, handles, streams, place>>

-----------------------------------------------------------------------------
(* OPEN and OPENDIR.                                                           *)

\* Faulty: only TRUNC is taken for a change.
NeedsTrunc(flags) ==
  (IF "TRUNC" \in flags THEN {"write"} ELSE {})
    \union (IF "READ" \in flags THEN {"read"} ELSE {})
Needs(flags) ==
  (IF flags \intersect {"WRITE", "CREAT", "TRUNC"} # {} THEN {"write"} ELSE {})
    \union (IF "READ" \in flags THEN {"read"} ELSE {})

\* sftp_flags_to_mode().
Mode(flags) ==
  LET plain == "READ" \notin flags IN
  CASE "WRITE" \notin flags -> "rb"
    [] "WRITE" \in flags /\ "APPEND" \in flags -> IF plain THEN "ab" ELSE "ab+"
    [] "WRITE" \in flags /\ "APPEND" \notin flags /\ "TRUNC" \in flags ->
         IF plain THEN "wb" ELSE "wb+"
    [] OTHER -> IF plain /\ "CREAT" \in flags THEN "wb" ELSE "rb+"

Truncates(mode) == mode \in {"wb", "wb+"}
Creates(mode)   == Truncates(mode) \/ mode \in {"ab", "ab+"}
Readable(mode)  == mode \in {"rb", "rb+", "wb+", "ab+"}
Writable(mode)  == mode # "rb"

\* fopen(): a directory can be opened to be read.
Fopens(mode, name) ==
  CASE tree[name] = "none" -> Creates(mode)
    [] tree[name] = "dir" -> mode = "rb"
    [] OTHER -> TRUE

\* Faulty: the stream is not closed when the table is full.
Unclosed == streams' = streams + 1
\* sftp_handle_alloc() and sftp_reply_handle() of what has been opened: the
\* table is full, or the reply is lost, and the stream is closed again, or the
\* client has its handle.
Closed == UNCHANGED streams

Hand(op, object, wrote) ==
  \/ /\ \A h \in Slots : handles[h] # None
     /\ Answer(op, "FAILURE", "none", wrote)
     /\ Closed /\ UNCHANGED <<handles, place>>
  \/ \E h \in Slots :
       /\ handles[h] = None
       /\ \/ Answer(op, "HANDLE", "OK", wrote)
             /\ handles' = [handles EXCEPT ![h] = object]
             /\ streams' = streams + 1 /\ UNCHANGED place
          \/ Answer(op, "lost", "OK", wrote)
             /\ place' = "ended" /\ UNCHANGED <<handles, streams>>

Open(name, flags) ==
  LET mode    == Mode(flags)
      checked == Checked(Needs(flags), name, "CREAT" \notin flags)
  IN \/ checked # "OK" /\ Told("OPEN", checked, checked)
     \/ checked = "OK" /\ ~Fopens(mode, name) /\ Told("OPEN", "FAILURE", "FAILURE")
     \/ /\ checked = "OK" /\ Fopens(mode, name)
        /\ tree' = [tree EXCEPT ![name] = IF @ = "none" THEN "file" ELSE @]
        /\ Hand("OPEN", [kind |-> "file", mode |-> mode, on |-> tree'[name], path |-> name],
                Truncates(mode))
        /\ UNCHANGED rights

Opendir(name) ==
  LET checked == Checked({"read"}, name, TRUE)
  IN \/ checked # "OK" /\ Told("OPENDIR", checked, checked)
     \/ checked = "OK" /\ tree[name] # "dir" /\ Told("OPENDIR", "FAILURE", "FAILURE")
     \/ /\ checked = "OK" /\ tree[name] = "dir"
        /\ Hand("OPENDIR", [kind |-> "directory", path |-> name], FALSE)
        /\ UNCHANGED <<rights, tree>>

-----------------------------------------------------------------------------
(* The requests with a handle.  Slots stands for every handle the client may   *)
(* name: one it was never given is one of an unused slot.                      *)

Unknown(op, h) == handles[h] = None /\ Told(op, "INVALID", "none")

Holds(h, kind) == handles[h] # None /\ handles[h].kind = kind

\* static_cast to FileData or DirData, whatever the handle is of.
Misused(h, kind) ==
  /\ place = "served" /\ Holds(h, kind)
  /\ place' = "undefined"
  /\ UNCHANGED <<rights, tree, handles, streams, last>>

Close(h) ==
  \/ Unknown("CLOSE", h)
  \/ /\ handles[h] # None
     /\ Answer("CLOSE", "OK", "OK", FALSE)
     /\ handles' = [handles EXCEPT ![h] = None]
     /\ streams' = streams - 1
     /\ UNCHANGED <<rights, tree, place>>

\* The right to read was asked for when the file was opened.
Read(h) ==
  \/ Unknown("READ", h) \/ Misused(h, "directory")
  \/ Holds(h, "file") /\ Readable(handles[h].mode) /\ handles[h].on = "file"
       /\ Told("READ", "DATA", "none")
  \/ Holds(h, "file") /\ \E reply \in {"EOF", "FAILURE"} : Told("READ", reply, "none")

\* A short write has changed the file, and is answered FAILURE.  Whether fflush()
\* failed is not looked at, and a write of no bytes is one too: OK, and no change.
Write(h) ==
  \/ "write" \notin rights /\ Told("WRITE", "DENIED", "none")
  \/ "write" \in rights /\ (Unknown("WRITE", h) \/ Misused(h, "directory"))
  \/ /\ "write" \in rights /\ Holds(h, "file")
     /\ \/ Answer("WRITE", "FAILURE", "none", FALSE)
        \/ Answer("WRITE", "OK", "OK", FALSE)
        \/ Writable(handles[h].mode) /\ Answer("WRITE", "FAILURE", "none", TRUE)
        \/ Writable(handles[h].mode) /\ Answer("WRITE", "OK", "OK", TRUE)
     /\ UNCHANGED <<rights, tree, handles, streams, place>>

Readdir(h) ==
  \/ Unknown("READDIR", h) \/ Misused(h, "file")
  \/ Holds(h, "directory") /\ \E reply \in {"NAME", "EOF"} : Told("READDIR", reply, "none")

\* stat() of the path the file had when it was opened.
Fstat(h) ==
  \/ Unknown("FSTAT", h) \/ Misused(h, "directory")
  \/ Holds(h, "file")
       /\ Told("FSTAT", IF tree[handles[h].path] # "none" THEN "ATTR" ELSE "FAILURE", "none")

\* Nothing is set.
Fsetstat(h) ==
  \/ Unknown("FSETSTAT", h)
  \/ handles[h] # None
       /\ Told("FSETSTAT", IF "write" \in rights THEN "OK" ELSE "DENIED", "none")

-----------------------------------------------------------------------------
(* The requests with a path.                                                   *)

\* What resolved may be gone when stat() is called: nothing is logged then.
Stat(name) ==
  \/ ~Resolves(name, TRUE) /\ Told("STAT", "NO_SUCH", "NO_SUCH")
  \/ Resolves(name, TRUE) /\ \E reply \in {"ATTR", "NO_SUCH"} : Told("STAT", reply, "none")

\* Nothing is set.
Setstat(name) ==
  LET checked == Checked({"write"}, name, TRUE) IN Told("SETSTAT", checked, checked)

\* mkdir(), rmdir() and unlink().
Possible(op, name) ==
  tree[name] = CASE op = "MKDIR" -> "none" [] op = "RMDIR" -> "dir" [] op = "REMOVE" -> "file"

\* Faulty: the result of the system call is not logged.
ResultUnread(op, ok) == IF op = "RMDIR" \/ ok THEN "OK" ELSE "FAILURE"
Logged(op, ok) == IF op \in Requests /\ ok THEN "OK" ELSE "FAILURE"

Alter(op, name) ==
  LET checked == Checked({"write"}, name, op # "MKDIR") IN
  \/ checked # "OK" /\ Told(op, checked, checked)
  \/ checked = "OK" /\ ~Possible(op, name) /\ Told(op, "FAILURE", Logged(op, FALSE))
  \/ /\ checked = "OK" /\ Possible(op, name)
     /\ tree' = [tree EXCEPT ![name] = IF op = "MKDIR" THEN "dir" ELSE "none"]
     /\ Answer(op, "OK", Logged(op, TRUE), FALSE)
     /\ UNCHANGED <<rights, handles, streams, place>>

\* rename() replaces a file by a file and an empty directory by a directory.
Rename(from, to) ==
  LET checked == Checked({"write"}, from, TRUE) IN
  \/ checked # "OK" /\ Told("RENAME", checked, checked)
  \/ checked = "OK" /\ ~Resolves(to, FALSE) /\ Told("RENAME", "NO_SUCH", "NO_SUCH")
  \/ checked = "OK" /\ Told("RENAME", "FAILURE", "none")      \* no destination
  \/ /\ checked = "OK" /\ Resolves(to, FALSE) /\ tree[to] \notin {"none", tree[from]}
     /\ Told("RENAME", "FAILURE", "FAILURE")
  \/ /\ checked = "OK" /\ Resolves(to, FALSE) /\ tree[to] \in {"none", tree[from]}
     /\ tree' = IF from = to THEN tree
                ELSE [tree EXCEPT ![from] = "none", ![to] = tree[from]]
     /\ Answer("RENAME", "OK", "OK", FALSE)
     /\ UNCHANGED <<rights, handles, streams, place>>

\* An empty path is a failure; what resolve_path() refuses is answered as if it
\* were below the root.
Realpath ==
  \/ "read" \notin rights /\ Told("REALPATH", "DENIED", "DENIED")
  \/ "read" \in rights /\ \E reply \in {"FAILURE", "NAME"} : Told("REALPATH", reply, "none")

-----------------------------------------------------------------------------
\* process_sftp(): the message decides on the handler.
Request ==
  \/ \E name \in Names \union {Outside} :
       \/ Opendir(name) \/ Stat(name) \/ Setstat(name)
       \/ \E flags \in SUBSET Flags : Open(name, flags)
       \/ \E op \in {"MKDIR", "RMDIR", "REMOVE"} : Alter(op, name)
       \/ \E to \in Names \union {Outside} : Rename(name, to)
  \/ \E h \in Slots :
       Close(h) \/ Read(h) \/ Write(h) \/ Readdir(h) \/ Fstat(h) \/ Fsetstat(h)
  \/ Realpath
  \/ Told("other", "UNSUPPORTED", "none")

\* sftp_server_free(): the handles go, and with them all that knew the streams.
End ==
  /\ place = "served"
  /\ place' = "ended"
  /\ handles' = [h \in Slots |-> None]
  /\ UNCHANGED <<rights, tree, streams, last>>

\* Another session or the test puts something there or takes it away.
Others ==
  /\ place = "served"
  /\ \E name \in Names, what \in {"none", "file", "dir"} : tree' = [tree EXCEPT ![name] = what]
  /\ last' = [last EXCEPT !.op = "nobody"]
  /\ UNCHANGED <<rights, handles, streams, place>>

Next == Request \/ End \/ Others

Spec == Init /\ [][Next]_vars

-----------------------------------------------------------------------------
\* The handles the client has.
Used == {h \in Slots : handles[h] # None}

(* As long as the session is served, what it has opened and not closed is what *)
(* its client has handles for: no path out of OPEN, OPENDIR and CLOSE leaves a *)
(* stream behind, or a handle without one.                                     *)
StreamsMatchHandles ==
  place = "served" => streams = Cardinality(Used)

\* The request of this step changed the tree or a file.
Changed == last'.op # "nobody" /\ (tree' # tree \/ last'.wrote)

(* A session makes, changes, removes and renames files only with the right to  *)
(* write, and tells names only with the right to read.  What is opened needs   *)
(* the rights its flags ask for, in one function, and the mode it is opened in *)
(* is made from the flags in another: no mode changes a file without the flags *)
(* that are checked.  (It is not so for the data of a file: one opened with    *)
(* neither READ nor WRITE, or "rb+" to be written, can be read without the     *)
(* right to read.)                                                             *)
NeedsRights ==
  [][/\ Changed => "write" \in rights
     /\ last'.reply = "NAME" => "read" \in rights
    ]_vars

(* activity() tells the test what happened: a request that changed something   *)
(* has logged OK, unless it was answered FAILURE; and one that logged OK was   *)
(* answered with success, unless the answer was lost.  (Not that OK means the  *)
(* bytes are in the file: fflush() is not looked at.)                          *)
LogIsTrue ==
  [][/\ Changed => last'.entry = "OK" \/ last'.reply = "FAILURE"
     /\ last'.entry = "OK" => last'.reply \in {"OK", "HANDLE", "lost"}
    ]_vars

-----------------------------------------------------------------------------
(* What makes these inductive.                                                 *)

\* The last answer, until the next one, is as the two properties have it.
LastIsTrue ==
  /\ last.op # "nobody" /\ last.wrote =>
       "write" \in rights /\ (last.entry = "OK" \/ last.reply = "FAILURE")
  /\ last.entry = "OK" => last.reply \in {"OK", "HANDLE", "lost"}
  /\ last.reply = "NAME" => "read" \in rights

\* Nobody has a directory open without the right to read.
HandlesNeedRights == \A h \in Slots : Holds(h, "directory") => "read" \in rights

IInv == TypeOK /\ StreamsMatchHandles /\ LastIsTrue /\ HandlesNeedRights
=============================================================================

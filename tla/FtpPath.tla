------------------------------ MODULE FtpPath ------------------------------
(* How a session of the FTP server turns the names a client gives into paths   *)
(* below its root: cwd_cmd(), which keeps client->cwd, and resolve(), which    *)
(* the commands on files call, of src/ftp_server.cpp.  Both are loops over the *)
(* segments of a string; here the string is split at its slashes already.  A   *)
(* backslash is part of a name for cwd_cmd() and a slash for resolve(): such a *)
(* name is one segment, and Slashed says which ones resolve() makes of it.     *)
(*                                                                             *)
(* A definition marked "Faulty:" is not part of the specification: it is the   *)
(* one below it with a bug a change to the code could introduce, kept to show  *)
(* which property would notice.                                                *)
EXTENDS Naturals, Sequences, FiniteSets

CONSTANTS
  Names,        \* names of files and directories
  Up, Here,     \* the segments ".." and "."
  Empty,        \* the empty segment, between two slashes
  Slashed,      \* for each name its segments once backslashes are slashes
  Base,         \* the session's root, phy_root, as a sequence of names
  Extends,      \* the pairs <<n, m>> of names where n starts with m
  Args,         \* what clients give: [absolute, segments]
  MaxCwds,      \* bound: CWD commands before the name is used
  Refused       \* what resolve() returns for a name it does not accept

Segments == Names \union {Up, Here, Empty}

\* A segment without a backslash.
Whole(segment) == segment \in Names => Slashed[segment] = <<segment>>
AllWhole(path) == \A k \in DOMAIN path : Whole(path[k])

ASSUME NameAssumption == {Up, Here, Empty} \intersect Names = {} /\ Up \notin {Here, Empty}
ASSUME SlashAssumption ==
  Slashed \in [Names -> Seq(Segments)] /\ \A name \in Names : AllWhole(Slashed[name])
ASSUME BaseAssumption ==
  Base \in Seq(Names) /\ Base # <<>> /\ AllWhole(Base) /\ Refused \notin Seq(Names)
ASSUME ArgAssumption  ==
  \A arg \in Args : arg.absolute \in BOOLEAN /\ arg.segments \in Seq(Segments)
ASSUME BoundAssumption == MaxCwds \in Nat

VARIABLES
  at,           \* "idle", in the loop of "cwd" or of "resolve", or "done"
  cwd,          \* client->cwd
  todo,         \* the segments the loop has not looked at
  parts,        \* `parts`
  result,       \* what resolve() has returned
  walked,       \* auxiliary: all segments of the CWDs since the last absolute one
  target,       \* auxiliary: the name that is resolved
  cwds          \* the CWD commands so far

vars == <<at, cwd, todo, parts, result, walked, target, cwds>>

NoTarget == [absolute |-> FALSE, segments |-> <<>>]

TypeOK ==
  /\ at \in {"idle", "cwd", "resolve", "done"}
  /\ cwd \in Seq(Names)
  /\ todo \in Seq(Segments)
  /\ parts \in Seq(Names)
  /\ result \in Seq(Names) \union {Refused}
  /\ walked \in Seq(Segments)
  /\ target \in Args \union {NoTarget}
  /\ cwds \in 0..MaxCwds

Init ==
  /\ at = "idle" /\ cwd = <<>> /\ todo = <<>> /\ parts = <<>> /\ result = <<>>
  /\ walked = <<>> /\ target = NoTarget /\ cwds = 0

\* Faulty: a name that does not begin with a slash is taken from the root too.
FromRoot(arg) == arg.segments
\* Where the loop starts from, below the root.
Below(arg) == IF arg.absolute THEN arg.segments ELSE cwd \o arg.segments

\* An empty argument and "/" go to the root, others are worked out.
BeginCwd(arg) ==
  /\ at = "idle" /\ cwds < MaxCwds
  /\ cwds' = cwds + 1
  /\ walked' = IF arg.absolute \/ arg.segments = <<>> THEN arg.segments
                                                      ELSE walked \o arg.segments
  /\ IF arg.segments = <<>> THEN cwd' = <<>> /\ UNCHANGED <<at, todo>>
                            ELSE at' = "cwd" /\ todo' = Below(arg) /\ UNCHANGED cwd
  /\ parts' = <<>>
  /\ UNCHANGED <<result, target>>

BeginResolve(arg) ==
  /\ at = "idle"
  /\ at' = "resolve" /\ target' = arg
  /\ todo' = Base \o Below(arg) /\ parts' = <<>>
  /\ UNCHANGED <<cwd, result, walked, cwds>>

Ignored(segment) == segment \in {Here, Empty}

\* Faulty: ".." leads to the root.
NothingLeft(s) == SubSeq(s, 1, 0)
AllButLast(s) == SubSeq(s, 1, Len(s) - 1)

\* resolve() makes every backslash a slash before its loop: a name is cut where
\* the loop comes to it.
CutName ==
  /\ at = "resolve" /\ todo # <<>> /\ ~Whole(Head(todo))
  /\ todo' = Slashed[Head(todo)] \o Tail(todo)
  /\ UNCHANGED <<at, cwd, parts, result, walked, target, cwds>>

\* One turn of either loop.  ".." takes a part away; with none left cwd_cmd()
\* stays at the root and resolve() gives up.
NextSegment ==
  /\ at \in {"cwd", "resolve"} /\ todo # <<>>
  /\ at = "resolve" => Whole(Head(todo))
  /\ todo' = Tail(todo)
  /\ \/ Head(todo) = Up /\ parts # <<>> /\ parts' = AllButLast(parts) /\ UNCHANGED <<at, result>>
     \/ Head(todo) = Up /\ parts = <<>> /\ at = "cwd" /\ UNCHANGED <<at, parts, result>>
     \/ /\ Head(todo) = Up /\ parts = <<>> /\ at = "resolve"
        /\ at' = "done" /\ result' = Refused
        /\ UNCHANGED parts
     \/ Ignored(Head(todo)) /\ UNCHANGED <<at, parts, result>>
     \/ /\ Head(todo) # Up /\ ~Ignored(Head(todo))
        /\ parts' = Append(parts, Head(todo))
        /\ UNCHANGED <<at, result>>
  /\ UNCHANGED <<cwd, walked, target, cwds>>

EndCwd ==
  /\ at = "cwd" /\ todo = <<>>
  /\ at' = "idle" /\ cwd' = parts
  /\ UNCHANGED <<todo, parts, result, walked, target, cwds>>

\* Faulty: a path as long as the root is not looked at.
StartsLoosely(path) == Len(path) >= Len(Base)
\* result.compare(0, norm_base.size(), norm_base) == 0, a comparison of strings:
\* the last name of the root may be the beginning of another name.
StartsWithBase(path) ==
  /\ Len(path) >= Len(Base)
  /\ \A k \in 1..Len(Base) :
       path[k] = Base[k] \/ (k = Len(Base) /\ <<path[k], Base[k]>> \in Extends)

EndResolve ==
  /\ at = "resolve" /\ todo = <<>>
  /\ at' = "done"
  /\ result' = IF parts = <<>> THEN Base
               ELSE IF StartsWithBase(parts) THEN parts ELSE Refused
  /\ UNCHANGED <<cwd, todo, parts, walked, target, cwds>>

Next ==
  \/ \E arg \in Args : BeginCwd(arg) \/ BeginResolve(arg)
  \/ CutName \/ NextSegment \/ EndCwd \/ EndResolve

Spec == Init /\ [][Next]_vars

-----------------------------------------------------------------------------
(* What the paths mean, said without a loop.                                   *)

Count(s, from, to, S) == Cardinality({k \in from..to : s[k] \in S})

\* A name stays in the path if the ".." behind it have names between to take away.
Survives(s, k) ==
  /\ s[k] \in Names
  /\ \A j \in (k + 1)..Len(s) : Count(s, k + 1, j, Names) >= Count(s, k + 1, j, {Up})

Kept(s) == {k \in 1..Len(s) : Survives(s, k)}

\* The place a walk along some segments ends at, when the root is its own parent:
\* the names that stay, in their order.
Place(s) ==
  [i \in 1..Cardinality(Kept(s)) |->
     s[CHOOSE k \in Kept(s) : Cardinality({j \in Kept(s) : j <= k}) = i]]

\* A walk that tries to go above the place it starts from.
Climbs(s) == \E j \in 1..Len(s) : Count(s, 1, j, Names) < Count(s, 1, j, {Up})

(* After any sequence of CWDs client->cwd is the place they lead to one after  *)
(* the other, however they are mixed with "." , ".." and doubled slashes.      *)
CwdIsWhereOneWalked == at = "idle" => cwd = Place(walked)

(* The file a command works on is the one the client means: the place all its  *)
(* CWDs and the name lead to, below the root.  resolve() starts over from the  *)
(* normalised cwd, CWD had stopped at the root, yet both agree as long as      *)
(* neither client->cwd nor the name has a backslash in it, which only          *)
(* resolve() takes for a slash.                                                *)
ResolvedAsWalked ==
  at = "done" /\ ~Climbs(Below(target)) /\ AllWhole(Below(target)) =>
    result = Base \o Place(IF target.absolute THEN target.segments
                                              ELSE walked \o target.segments)

\* A path with slashes for its backslashes.
Slashes(path) ==
  LET upTo[n \in 0..Len(path)] ==
        IF n = 0 THEN <<>>
        ELSE upTo[n - 1] \o (IF path[n] \in Names THEN Slashed[path[n]] ELSE <<path[n]>>)
  IN  upTo[Len(path)]

\* A path below the root.  The code compares strings: a path beside the root,
\* where the root's last name is the beginning of another one, counts too.
Under(path) == \E rest \in {SubSeq(path, Len(Base) + 1, Len(path))} : path = Base \o rest
Beside(path) ==
  /\ Len(path) >= Len(Base) /\ <<path[Len(Base)], Base[Len(Base)]>> \in Extends
  /\ SubSeq(path, 1, Len(Base) - 1) = SubSeq(Base, 1, Len(Base) - 1)

(* What resolve() answers is settled by where the whole path leads, slashes    *)
(* and backslashes alike, and not by how: that place if it is under the root   *)
(* or beside it under a longer name, however far above the root the path had   *)
(* gone in between, the root itself for "/", and a refusal for any other place *)
(* and for a path above "/".                                                   *)
ResolvedByPlace ==
  at = "done" =>
    LET whole == Base \o Slashes(Below(target))
        place == Place(whole)
    IN  result = IF Climbs(whole) THEN Refused
                 ELSE IF place = <<>> THEN Base
                 ELSE IF Under(place) \/ Beside(place) THEN place
                 ELSE Refused
=============================================================================

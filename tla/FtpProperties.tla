--------------------------- MODULE FtpProperties ---------------------------
(* What the FTP server owes its clients and the test that owns it.             *)
EXTENDS FtpServer

-----------------------------------------------------------------------------
(* Invariants of every instance.                                               *)

(* Every client that has a number in client->sock is in clients_, where stop() *)
(* and the acceptor find it, from before its thread exists until it has closed *)
(* the socket; only the acceptor's guest may still have to be entered.         *)
OpenIsListed ==
  \A c \in Conns : sock[c] \in {"open", "stale"} =>
    \/ c \in clients /\ (Live(c) \/ guest = c)
    \/ acceptor = "push" /\ guest = c

(* When stop() has returned no thread, no control connection and no data       *)
(* connection of the server is left, and nobody waits in its backlog; a data   *)
(* socket is left only of a client whose PASV opened it after the sweep had    *)
(* closed and forgotten that client: no other way past the sweeps and the      *)
(* clean-up of the transfers leaves one.                                       *)
StoppedIsQuiescent ==
  owner = "stopped" =>
    /\ \A c \in Conns : ~Live(c) /\ sock[c] # "open" /\ data[c] # "open"
    /\ \A c \in Conns : passive[c] # "none" => c \in late
    /\ clients = {} /\ backlog = {} /\ acceptor = "none" /\ guest = None

(* The data connection is where the thread of its client is: accepted exactly  *)
(* while the thread transfers, its data socket used up by then, so that no     *)
(* transfer inherits the port of the one before; and a data socket whose       *)
(* number is closed lives on only in a blocked accept().                       *)
DataMatchesPlace ==
  \A c \in Conns :
    /\ data[c] = "open" => pc[c] \in {"accepted", "send", "open", "storing"}
    /\ pc[c] \in {"send", "open", "storing"} => data[c] = "open" /\ passive[c] = "none"
    /\ passive[c] = "held" => pc[c] = "accepting"
    /\ passive[c] = "stale" => pc[c] \in {"bind", "unpasv", "accepted"}
    /\ pc[c] \in {"bind", "unpasv", "accepted"} => passive[c] \in {"none", "stale"}
    /\ data[c] = "queued" => passive[c] \in {"open", "held"}
    /\ pc[c] \in {"accept", "accepting", "accepted", "send", "open", "storing", "complete"}
         <=> transfer[c] # None

-----------------------------------------------------------------------------
(* Sessions.                                                                   *)

Session(c) == auth[c] /\ Live(c) /\ pc[c] # "remove"

(* connected_users() names exactly those who have logged in and not left, when *)
(* no two sessions share a name.                                               *)
ConnectedMatchesSessions == connected = {user[c] : c \in {d \in Conns : Session(d)}}

(* Nothing is sent after 221: the commands a client sent behind its QUIT are   *)
(* still executed, but client->sock is gone.                                   *)
GoodbyeIsLast == [][\A c \in Conns : last[c] = 221 => last'[c] = 221]_vars

(* QUIT, PASV, a transfer and remove_client() close the numbers of a client one *)
(* after the other, each sure that what it finds is open: while the server     *)
(* accepts clients no number is closed twice, and so none that is somebody     *)
(* else's by then.  Once stop() or the end of accept_loop() sweeps clients_    *)
(* this is lost: both may close what a QUIT or PASV has closed a moment before. *)
NothingIsClosedTwice == [][again' # again => ~running \/ ~listener]_vars

(* While no other client has had the right to write, a STOR that was read to   *)
(* its end and written without an error is answered 226 with the file complete *)
(* on disk, whatever stop() does meanwhile: a test may open it right after the *)
(* reply (stor_creates_file).                                                  *)
StoredIsWhole ==
  \A c \in Conns :
    /\ pc[c] = "complete" /\ transfer[c].op = "STOR" /\ c \notin cut
    /\ \A d \in Conns \ {c} : "write" \notin perm[d]
    =>
      transfer[c].file \in Files /\ store[transfer[c].file] = "whole"

-----------------------------------------------------------------------------
(* What makes these inductive.                                                 *)

\* The owner, the listener and the acceptor agree: there is an acceptor from
\* start() to its join, and nobody is listed once it has swept the list.
PhasesAgree ==
  /\ running <=> owner = "running"
  /\ acceptor = "none" <=> owner \in {"stopped", "draining"}
  /\ listener <=> acceptor \notin {"none", "sweep", "exited"}
  /\ ~listener => backlog = {}
  /\ acceptor \in {"none", "exited"} => clients = {}

\* A connection has its socket from accept(), its thread from its spawn, and is
\* in clients_ and client_thread_group_ no longer than that thread lasts.
Wired ==
  \A c \in Conns :
    /\ peer[c] = "away" \/ c \in backlog => pc[c] = "none" /\ c # guest
    /\ peer[c] = "away" => c \notin backlog
    /\ pc[c] = "none" /\ c # guest => sock[c] = "none"
    /\ pc[c] = "none" => ~auth[c]
    /\ c = guest => pc[c] = "none"
    /\ c \in clients => Live(c) \/ (acceptor = "spawn" /\ c = guest)
    /\ Live(c) => c \in group
    /\ sock[c] = "stale" => pc[c] = "hangup"

\* 221 is the last reply: its socket is closed.
SaidGoodbye == \A c \in Conns : last[c] = 221 => sock[c] \in {"stale", "closed"}

\* A data socket stays open only of clients a sweep will find, and of those that
\* opened theirs after it.
SocketsAreFound == \A c \in Conns : passive[c] = "open" => c \in clients \union late

\* Whoever is logged in gave a name, and a transfer is one its rights allow.
Allowed ==
  \A c \in Conns :
    /\ user[c] \in Logins[c] \union {None}
    /\ auth[c] => user[c] # None
    /\ transfer[c] # None => Needed(transfer[c].op) \subseteq perm[c]
    /\ transfer[c] # None /\ pc[c] # "storing" => pc[c] = "complete" \/ transfer[c].file # None
    /\ transfer[c] # None /\ transfer[c].op # "LIST" => transfer[c].file # NoArgument
    /\ pc[c] \in {"open", "storing"} => transfer[c].op = "STOR"
    /\ pc[c] = "send" => transfer[c].op # "STOR"

IInv == /\ TypeOK /\ OpenIsListed /\ StoppedIsQuiescent /\ DataMatchesPlace
        /\ PhasesAgree /\ Wired /\ SaidGoodbye /\ Allowed /\ SocketsAreFound

\* Nobody but w may write.
OnlyWriter(w) == \A d \in Conns \ {w} : "write" \notin perm[d]

\* The file the thread of w writes, or has just written, is its own.
OwnFile(w) ==
  /\ pc[w] = "storing" =>
       transfer[w].file \in Files /\ store[transfer[w].file] = "partial"
  /\ pc[w] = "complete" /\ transfer[w].op = "STOR" /\ w \notin cut =>
       transfer[w].file \in Files /\ store[transfer[w].file] = "whole"

\* No two sessions have a name in common.
NoSharedName == \A c, d \in Conns : Session(c) /\ Session(d) /\ c # d => user[c] # user[d]

\* No client that has logged in gives another name.
NameKept == \A c \in Conns : auth[c] => user'[c] = user[c]

\* A thread, and a guest, has been given its socket.
HasSocket == \A c \in Conns : pc[c] # "none" \/ c = guest => sock[c] # "none"

(* When stop() comes to wait for the threads, the control socket of every one  *)
(* of them is shut down: none is left in recv() for its client to end.         *)
DrainingIsHungUp == owner = "draining" => \A c \in Conns : Live(c) => sock[c] = "closed"

-----------------------------------------------------------------------------
(* Progress.  The threads of the server are scheduled; clients do what they    *)
(* like.                                                                       *)

Fairness ==
  /\ WF_vars(AcceptorStep)
  /\ WF_vars(StopStep)
  /\ \A c \in Conns : WF_vars(HandlerStep(c))

FairSpec == Spec /\ Fairness

\* No client keeps its thread waiting for ever on the data connection: for the
\* client to open it, to take what is sent, or to close it after its file.
Patient == \A c \in Conns : []<>(pc[c] \notin {"accepting", "send", "storing"})

(* stop() returns, unless a client keeps a thread waiting on the data          *)
(* connection, which close() and shutdown() of the control connection do not   *)
(* wake: that is the only thing that can hold it up.                           *)
StopReturns == Patient => (owner = "sweeping" ~> owner = "stopped")

(* A client that has closed its connection is forgotten by connected_users()   *)
(* although nobody asks for it.                                                *)
LeaversAreForgotten ==
  Patient => \A u \in Users : (\A c \in Conns : u \in Logins[c] => peer[c] = "gone")
                                ~> (u \notin connected)

-----------------------------------------------------------------------------
(* The server implements ServerLifecycle.                                      *)

Phase == CASE owner = "stopped" -> "stopped"
           [] owner = "running" -> "serving"
           [] owner \in {"sweeping", "joining"} -> "closing"
           [] owner = "draining" -> "draining"

Lifecycle == INSTANCE ServerLifecycle
               WITH Workers <- Conns, phase <- Phase,
                    working <- {c \in Conns : Live(c)}

(* start() and stop() of the server are those of ServerLifecycle.              *)
ImplementsLifecycle == Lifecycle!Spec
=============================================================================

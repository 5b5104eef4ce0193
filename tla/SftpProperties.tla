--------------------------- MODULE SftpProperties ---------------------------
(* What the SFTP server owes its clients and the test that owns it.            *)
EXTENDS SftpServer

(* What is kept under a session's address goes before the address does: the    *)
(* next session that ssh_new() puts there finds no login and no handshake of   *)
(* the one before, and the callbacks, which do not look before they use the    *)
(* entry of handshakes_, find one as long as they may be called.               *)
NothingOutlivesSession ==
  \A s \in Sessions :
    /\ pc[s] \in {"free", "guest", "start"} => handshakes[s] = None /\ sessionUsers[s] = None
    /\ pc[s] \in {"packets", "init"} => handshakes[s] # None

(* connected_users() names nobody who has no session left.                     *)
ListedHasSession == \A u \in connected : \E s \in Sessions : sessionUsers[s] = u

(* A session is served under the name it logged in with, and without a root or *)
(* a right only if clear_users() has taken that name away.                     *)
ServedAsLoggedIn ==
  \A s \in Sessions : pc[s] \in Serving =>
    /\ ctx[s].user \in Users /\ ctx[s].user = sessionUsers[s]
    /\ ctx[s].found \/ ctx[s].user \in cleared

(* unblock_accept() is in time: while stop() joins the acceptor, one that has  *)
(* yet to return from ssh_bind_accept() has that connection to return with,    *)
(* whatever clients it took and dropped since stop() was called.               *)
AcceptorIsWoken == owner = "joining" /\ acceptor = "accept" => knock

-----------------------------------------------------------------------------
(* What makes these inductive.                                                 *)

\* What there is of a session at each place of its thread.
Wired ==
  \A s \in Sessions :
    /\ handshakes[s] = None <=> pc[s] \in {"free", "guest", "start", "remove", "release"}
    /\ pc[s] \in {"init", "lookup"} \union Serving => handshakes[s] = {"channel", "subsystem"}
    /\ handshakes[s] \notin {None, {}} => sessionUsers[s] # None
    /\ sessionUsers[s] # None =>
         pc[s] \in {"loop", "packets", "init", "lookup", "leave", "remove"} \union Serving
    /\ sessionUsers[s] # None => sessionUsers[s] \in users \union cleared

\* Where the owner and the acceptor can be together, and which sessions then.
PhasesAgree ==
  /\ running <=> owner = "running"
  /\ acceptor = "none" <=> owner \in {"stopped", "crashed", "draining", "clearing"}
  /\ acceptor = "exited" => owner # "running"
  /\ guest = None <=> acceptor \notin {"blank", "kex"}
  /\ \A s \in Sessions : pc[s] \in Live =>
       s \in threads /\ owner \notin {"clearing", "stopped", "crashed"}
  /\ cb = "dead" <=> acceptor \notin {"blank", "kex"}

IInv == /\ TypeOK /\ Wired /\ PhasesAgree
        /\ ListedHasSession /\ ServedAsLoggedIn

-----------------------------------------------------------------------------
(* Progress.  The threads of the server are scheduled; clients do what they    *)
(* like.                                                                       *)

Fairness ==
  /\ WF_vars(AcceptorStep)
  /\ WF_vars(StopStep)
  /\ \A s \in Sessions : WF_vars(ThreadStep(s))

FairSpec == Spec /\ Fairness

\* No client keeps a thread waiting for ever for the rest of a message.
Patient == \A s \in Sessions : []<>(pc[s] \notin {"init", "read"})

(* stop() returns, unless a client that has begun to send a message neither    *)
(* completes it nor leaves.  Silence elsewhere, in the key exchange too, cannot *)
(* hold it up for ever.                                                        *)
StopReturns == Patient => (owner = "unblocking" ~> owner = "stopped")

-----------------------------------------------------------------------------
(* The server implements ServerLifecycle.                                      *)

Phase == CASE owner \in {"stopped", "crashed"} -> "stopped"
           [] owner = "running" -> "serving"
           [] owner \in {"unblocking", "joining"} -> "closing"
           [] owner \in {"draining", "clearing"} -> "draining"

Lifecycle == INSTANCE ServerLifecycle
               WITH Workers <- Sessions, phase <- Phase,
                    working <- {s \in Sessions : pc[s] \in Live}

(* start() and stop() of the server are those of ServerLifecycle.              *)
ImplementsLifecycle == Lifecycle!Spec
=============================================================================

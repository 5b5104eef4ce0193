-------------------------- MODULE ServerLifecycle --------------------------
(* What every socket server of the library promises about start() and stop(),  *)
(* said once and without sockets, sessions or locks: a server works for some   *)
(* clients, stop() first refuses new ones, then waits for the threads that     *)
(* still serve, and only then returns.                                         *)
(* The implementations of mqtt_server, ftp_server and sftp_server each own one *)
(* acceptor thread and one thread per client, those of rest_server and         *)
(* soap_server leave both to httplib; MqttBroker, FtpServer, SftpServer and    *)
(* HttpServer are shown to implement this specification.                       *)

CONSTANT Workers        \* the client connections a server may ever work for

VARIABLES phase,        \* what the owner of the server has called
          working       \* the connections a thread of the server works for

vars == <<phase, working>>

\* "closing": stop() has been called, the acceptor may still take clients.
\* "draining": the acceptor has been joined, stop() waits for the clients'.
Phases == {"stopped", "serving", "closing", "draining"}

TypeOK == phase \in Phases /\ working \subseteq Workers

Init == phase = "stopped" /\ working = {}

Start == phase = "stopped" /\ phase' = "serving" /\ UNCHANGED working

Take(w) ==
  /\ phase \in {"serving", "closing"}
  /\ w \notin working
  /\ working' = working \union {w}
  /\ UNCHANGED phase

Finish(w) ==
  /\ w \in working
  /\ working' = working \ {w}
  /\ UNCHANGED phase

BeginStop == phase = "serving" /\ phase' = "closing" /\ UNCHANGED working

JoinAcceptor == phase = "closing" /\ phase' = "draining" /\ UNCHANGED working

\* join_all() returns only when every thread has returned.
EndStop ==
  /\ phase = "draining"
  /\ working = {}
  /\ phase' = "stopped"
  /\ UNCHANGED working

Next ==
  \/ Start \/ BeginStop \/ JoinAcceptor \/ EndStop
  \/ \E w \in Workers : Take(w) \/ Finish(w)

Spec == Init /\ [][Next]_vars

(* A server that has been stopped works for nobody: no thread of it is left    *)
(* that could touch the freed implementation object.                           *)
StoppedIsIdle == phase = "stopped" => working = {}
=============================================================================

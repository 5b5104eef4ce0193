----------------------------- MODULE HttpServer -----------------------------
(* rest_server::implementation and soap_server::implementation                 *)
(* (src/rest_server.cpp, src/soap_server.cpp): the routes the test has given,  *)
(* the requests the workers of httplib answer by them, the history of requests *)
(* and start() and stop().  Both servers wrap httplib::Server in the same way; *)
(* `kind` says which of the two a behaviour is of.                             *)
(*                                                                             *)
(* One path is modelled.  A key is the method of a REST and the action of a    *)
(* SOAP request.  httplib is modelled by what both servers rely on: the first  *)
(* route that matches is taken, listen_after_bind() returns when stop() has    *)
(* been called and its workers are done, and its table of routes is not        *)
(* changed while it listens: tests add routes before start(), except those of  *)
(* the SOAP server whose path httplib has already been told.                   *)
(*                                                                             *)
(* A definition marked "Faulty:" is not part of the specification: it is the   *)
(* one below it with a bug a change to the code could introduce.               *)
EXTENDS Naturals, Sequences

CONSTANTS
  Keys,         \* methods or actions
  Methods,      \* the keys add_route() of the REST server knows, "GET" among them
  Handlers,     \* what a test may register
  None,         \* no handler
  Requests      \* bound: the requests clients make, for each of which httplib
                \* has a worker

ASSUME KeyAssumption     == Methods \subseteq Keys /\ "GET" \in Methods
ASSUME HandlerAssumption == None \notin Handlers

VARIABLES
  kind,         \* "rest" or "soap"
  owner,        \* where the thread that calls start() and stop() is
  running,      \* running_
  listener,     \* httplib: "none", "bound", "listening", "closed" or "returned"
  handlers,     \* the callbacks of httplib's table, or handlers_
  routed,       \* does httplib know the path? (paths_)
  history,      \* requests_
  pc,           \* where the worker of a request is
  key,          \* its method or action
  chosen,       \* the handler taken for it
  wanted,       \* auxiliary: the handler the test wants for a key
  seen,         \* auxiliary: what was wanted since the request was made
  before,       \* auxiliary: the requests answered when it was made
  cleared       \* auxiliary: the requests clear_requests() has taken out

ownerVars   == <<kind, owner, running, listener>>
routeVars   == <<handlers, routed, wanted>>
requestVars == <<pc, key, chosen, seen, before>>
historyVars == <<history, cleared>>
vars == <<ownerVars, routeVars, requestVars, historyVars>>

Busy == {r \in Requests : pc[r] \in {"record", "find", "handle"}}

Found == [Keys -> Handlers \union {None}]

TypeOK ==
  /\ kind \in {"rest", "soap"} /\ {running, routed} \subseteq BOOLEAN
  /\ owner \in {"stopped", "starting", "running", "stopping", "joining"}
  /\ listener \in {"none", "bound", "listening", "closed", "returned"}
  /\ {handlers, wanted} \subseteq Found
  /\ history \in Seq(Requests) /\ cleared \subseteq Requests
  /\ pc \in [Requests -> {"away", "queued", "record", "find", "handle", "answered",
                          "unknown", "dropped"}]
  /\ key \in [Requests -> Keys] /\ chosen \in [Requests -> Handlers \union {None}]
  /\ seen \in [Requests -> SUBSET (Handlers \union {None})]
  /\ before \in [Requests -> SUBSET Requests]

Init ==
  /\ kind \in {"rest", "soap"} /\ owner = "stopped" /\ running = FALSE /\ listener = "none"
  /\ handlers = [k \in Keys |-> None] /\ wanted = handlers /\ routed = FALSE
  /\ history = <<>> /\ cleared = {}
  /\ pc = [r \in Requests |-> "away"] /\ key = [r \in Requests |-> "GET"]
  /\ chosen = [r \in Requests |-> None]
  /\ seen = [r \in Requests |-> {}] /\ before = [r \in Requests |-> {}]

-----------------------------------------------------------------------------
(* start() and stop().                                                         *)

ownerFrame == <<kind, routeVars, requestVars, historyVars>>

Start ==
  /\ owner = "stopped"
  /\ owner' = "starting" /\ running' = TRUE /\ listener' = "bound"
  /\ UNCHANGED ownerFrame

Listen ==
  /\ listener = "bound" /\ listener' = "listening"
  /\ UNCHANGED <<ownerFrame, owner, running>>

\* start() has waited for is_running().
Started ==
  /\ owner = "starting" /\ listener = "listening"
  /\ owner' = "running"
  /\ UNCHANGED <<ownerFrame, running, listener>>

StopBegin ==
  /\ owner = "running"
  /\ owner' = "stopping" /\ running' = FALSE
  /\ UNCHANGED <<ownerFrame, listener>>

\* Faulty: the listener is not told.
Untold == UNCHANGED listener
ToldToStop == listener' = "closed"

StopServer ==
  /\ owner = "stopping"
  /\ owner' = "joining"
  /\ ToldToStop
  /\ UNCHANGED <<ownerFrame, running>>

\* listen_after_bind(): the workers finish what they have begun; connections
\* that are only queued are closed.
ListenReturns ==
  /\ listener = "closed" /\ Busy = {}
  /\ listener' = "returned"
  /\ pc' = [r \in Requests |-> IF pc[r] = "queued" THEN "dropped" ELSE pc[r]]
  /\ UNCHANGED <<kind, owner, running, routeVars, key, chosen, seen, before, historyVars>>

\* Faulty: the listener's thread is detached.
NotJoined == TRUE
Joined == listener = "returned"

StopJoin ==
  /\ owner = "joining" /\ Joined
  /\ owner' = "stopped" /\ listener' = "none"
  /\ UNCHANGED <<ownerFrame, running>>

-----------------------------------------------------------------------------
(* add_route(), then_return(), requests() and clear_requests(), by the test.   *)

\* Faulty: emplace(), which keeps what there is.
Kept(k, h) == handlers' = [handlers EXCEPT ![k] = IF @ = None THEN h ELSE @]
\* A REST route goes behind those of its method; a SOAP route replaces.
Registered(k, h) ==
  handlers' = [handlers EXCEPT ![k] = IF kind = "rest" /\ @ # None THEN @ ELSE h]

\* A method add_route() does not know is taken for GET.
RouteKey(k) == IF kind = "rest" /\ k \notin Methods THEN "GET" ELSE k

AddRoute(k, h) ==
  /\ \/ owner = "stopped"
     \/ kind = "soap" /\ routed /\ owner = "running"
  /\ routed' = TRUE
  /\ Registered(RouteKey(k), h)
  /\ LET w == IF kind = "rest" /\ wanted[RouteKey(k)] # None THEN wanted[RouteKey(k)] ELSE h
     IN /\ wanted' = [wanted EXCEPT ![RouteKey(k)] = w]
        /\ seen' = [r \in Requests |->
                      IF key[r] = RouteKey(k) /\ (pc[r] = "queued" \/ r \in Busy)
                      THEN seen[r] \union {w} ELSE seen[r]]
  /\ UNCHANGED <<ownerVars, pc, key, chosen, before, historyVars>>

ClearRequests ==
  /\ history # <<>>
  /\ history' = <<>>
  /\ cleared' = cleared \union {history[i] : i \in DOMAIN history}
  /\ UNCHANGED <<ownerVars, routeVars, requestVars>>

-----------------------------------------------------------------------------
(* A request.                                                                  *)

Goto(r, place) == pc' = [pc EXCEPT ![r] = place]

\* A client connects and sends its request.
Arrive(r, k) ==
  /\ pc[r] = "away" /\ listener \in {"bound", "listening"}
  /\ Goto(r, "queued")
  /\ key' = [key EXCEPT ![r] = k]
  /\ seen' = [seen EXCEPT ![r] = {wanted[k]}]
  /\ before' = [before EXCEPT ![r] = {q \in Requests : pc[q] = "answered"}]
  /\ UNCHANGED <<ownerVars, routeVars, chosen, historyVars>>

\* A worker takes it to the callback of its route; 404 if there is none.
Take(r) ==
  /\ pc[r] = "queued" /\ listener = "listening"
  /\ LET known == IF kind = "rest" THEN handlers[key[r]] # None ELSE routed
     IN /\ Goto(r, IF known THEN "record" ELSE "unknown")
        /\ chosen' = [chosen EXCEPT ![r] = IF kind = "rest" THEN handlers[key[r]] ELSE None]
  /\ UNCHANGED <<ownerVars, routeVars, key, seen, before, historyVars>>

\* Faulty: a request no handler is registered for is not recorded.
Handled(r) == history' = IF handlers[key[r]] = None THEN history ELSE Append(history, r)
Recorded(r) == history' = Append(history, r)

Record(r) ==
  /\ pc[r] = "record"
  /\ Recorded(r)
  /\ Goto(r, IF kind = "rest" THEN "handle" ELSE "find")
  /\ UNCHANGED <<ownerVars, routeVars, key, chosen, seen, before, cleared>>

\* handle_request() of the SOAP server looks for the action under handlers_mtx_.
Find(r) ==
  /\ pc[r] = "find"
  /\ chosen' = [chosen EXCEPT ![r] = handlers[key[r]]]
  /\ Goto(r, "handle")
  /\ UNCHANGED <<ownerVars, routeVars, key, seen, before, historyVars>>

\* The handler returns or throws, or there is none: its response, the response
\* made of the exception, or the fault for an unknown action.
Answer(r) ==
  /\ pc[r] = "handle"
  /\ Goto(r, "answered")
  /\ UNCHANGED <<ownerVars, routeVars, key, chosen, seen, before, historyVars>>

ServerStep ==
  \/ Listen \/ Started \/ StopServer \/ ListenReturns \/ StopJoin
WorkerStep(r) == Take(r) \/ Record(r) \/ Find(r) \/ Answer(r)

Next ==
  \/ Start \/ StopBegin \/ ServerStep \/ ClearRequests
  \/ \E k \in Keys, h \in Handlers : AddRoute(k, h)
  \/ \E r \in Requests : WorkerStep(r) \/ \E k \in Keys : Arrive(r, k)

Spec == Init /\ [][Next]_vars

\* Threads are scheduled, and the handlers of the test return.
FairSpec == Spec /\ WF_vars(ServerStep) /\ \A r \in Requests : WF_vars(WorkerStep(r))

-----------------------------------------------------------------------------
(* A request is answered by the handler that was registered for it at some     *)
(* moment between its being made and its being answered, or as unknown if      *)
(* there was a moment without one, although routes are replaced meanwhile.     *)
AnsweredAsRegistered ==
  \A r \in Requests :
    /\ pc[r] = "answered" => chosen[r] \in seen[r]
    /\ pc[r] = "unknown" => None \in seen[r]

Position(r) == CHOOSE i \in DOMAIN history : history[i] = r
Listed(r) == \E i \in DOMAIN history : history[i] = r

(* requests() has every request a callback has answered, with whatever result, *)
(* once, unless it was cleared; and one that was made after another had been   *)
(* answered comes after it.                                                    *)
HistoryIsTrue ==
  /\ \A r \in Requests : pc[r] = "answered" => Listed(r) \/ r \in cleared
  /\ \A i, j \in DOMAIN history : i # j => history[i] # history[j]
  /\ \A r, q \in Requests : Listed(r) /\ Listed(q) /\ q \in before[r] =>
                              Position(q) < Position(r)

-----------------------------------------------------------------------------
(* What makes these inductive.                                                 *)

\* The handler a worker has taken, or would take now, was wanted since the
\* request was made: an unrouted path has no handler.
TakesWhatIsWanted ==
  /\ wanted = handlers
  /\ ~routed => \A k \in Keys : handlers[k] = None
  /\ \A r \in Requests :
       /\ pc[r] = "queued" \/ r \in Busy => wanted[key[r]] \in seen[r]
       /\ pc[r] = "record" /\ kind = "rest" => chosen[r] \in seen[r]
       /\ pc[r] = "handle" => chosen[r] \in seen[r]

\* The requests in history, and those cleared from it, are past Record, each
\* is there once, and behind those answered when it was made.
HistoryMatchesPlaces ==
  /\ \A r \in Requests : pc[r] \in {"find", "handle", "answered"} <=> Listed(r) \/ r \in cleared
  /\ \A i, j \in DOMAIN history : i # j => history[i] # history[j]
  /\ \A i, j \in DOMAIN history : history[j] \in before[history[i]] => j < i
  /\ \A r \in Requests : \A q \in before[r] : pc[q] = "answered"

\* The owner and the listener agree, and there are requests only for a listener
\* that takes them or finishes them.
PhasesAgree ==
  /\ running <=> owner \in {"starting", "running"}
  /\ listener = "none" <=> owner = "stopped"
  /\ owner = "starting" => listener \in {"bound", "listening"}
  /\ owner \in {"running", "stopping"} => listener = "listening"
  /\ owner = "joining" => listener \in {"closed", "returned"}
  /\ listener \in {"none", "bound", "returned"} => Busy = {}
  /\ listener \in {"none", "returned"} => \A r \in Requests : pc[r] # "queued"

IInv == TypeOK /\ AnsweredAsRegistered /\ TakesWhatIsWanted /\ HistoryMatchesPlaces /\ PhasesAgree

-----------------------------------------------------------------------------
(* start() returns when the server listens and stop() when it has answered     *)
(* what it had begun.                                                          *)
StartAndStopReturn ==
  /\ owner = "starting" ~> owner = "running"
  /\ owner = "stopping" ~> owner = "stopped"

-----------------------------------------------------------------------------
(* The server implements ServerLifecycle, with the requests its workers are    *)
(* busy with for its connections.                                              *)

Phase == CASE owner = "stopped" -> "stopped"
           [] owner \in {"starting", "running"} -> "serving"
           [] owner = "stopping" -> "closing"
           [] owner = "joining" -> "draining"

Lifecycle == INSTANCE ServerLifecycle
               WITH Workers <- Requests, phase <- Phase, working <- Busy

(* start() and stop() of the REST and of the SOAP server are those of          *)
(* ServerLifecycle: a worker begins on a request only until httplib has been   *)
(* told to stop, and stop() returns only when none is in a handler of the test.*)
ImplementsLifecycle == Lifecycle!Spec
=============================================================================

-------------------------------- MODULE Ocpi --------------------------------
(***************************************************************************)
(* The OCPI server (internal/ocpi): modules are registered before Start,   *)
(* each mounting its routes and joining the list in version details; then  *)
(* requests are matched, authorized and handled; Shutdown ends the         *)
(* lifetime of the server and waits for the requests in flight.            *)
(*                                                                         *)
(* A path is a tuple of segments below the advertised root, wildcards      *)
(* written "{}" (a wildcard for the rest of a path is left out).  The root, a prefix of every route and of every URL       *)
(* alike, is left out, and so is the twin with a trailing slash that each  *)
(* route is mounted with.  Envelopes, ids and the body cap are formatting. *)
(***************************************************************************)
EXTENDS Integers, Sequences

CONSTANT Requests   \* requests in flight at the OCPI server

VARIABLES
  mounted,    \* the ServeMux: routes [method, path, need]
  modules,    \* what version details list, in order
  started,    \* Start was called: no more modules
  lifetime,   \* the server's context: "live" or "cancelled"
  accepting,  \* the listener is open
  request     \* where each request is

ocpiVars == <<mounted, modules, started, lifetime, accepting, request>>

Version == "2.3.0"
Methods == {"GET", "POST", "PUT", "DELETE"}

AccessNone == 0
AccessRegistration == 1
AccessModules == 2

\* What can be registered.
ModuleRecords ==
  [identifier : STRING, role : STRING, path : STRING, access : Int,
   routes : Seq([method : STRING, sub : Seq(STRING)])]

\* The module run registers: listed like any other, 501 to every method.
CredentialsStub ==
  [identifier |-> "credentials", role |-> "SENDER", path |-> "", access |-> AccessRegistration,
   routes |-> << [method |-> "GET", sub |-> <<>>], [method |-> "POST", sub |-> <<>>],
                 [method |-> "PUT", sub |-> <<>>], [method |-> "DELETE", sub |-> <<>>] >>]
-----------------------------------------------------------------------------
(* New, Register, Start *)

\* splitBaseURL: stricter than the validation of the config.
UsableBaseURL(url) == url.scheme # "" /\ url.host /\ ~url.query /\ ~url.braces

NewServer ==
  /\ mounted' = {[method |-> "GET", path |-> p, need |-> AccessRegistration]
                   : p \in {<<"versions">>, <<Version>>}}
  /\ UNCHANGED <<modules, started, lifetime, accepting, request>>

Path(m) == IF m.path = "" THEN m.identifier ELSE m.path

\* Module.validate; the regular expression for identifiers is `# ""`, a path
\* of nothing but slashes is "/" and one with braces "{}", and every route
\* has a handler.
ValidModule(m) ==
  /\ m.identifier # ""
  /\ m.role \in {"SENDER", "RECEIVER"}
  /\ Path(m) \notin {"/", "{}"}
  /\ m.access \in {AccessRegistration, AccessModules}
  /\ m.routes # <<>>
  /\ \A i \in DOMAIN m.routes : m.routes[i].method # ""

Route(m, i) == [method |-> m.routes[i].method,
                path |-> <<Version, Path(m)>> \o m.routes[i].sub,
                need |-> m.access]

\* Whatever q matches, p matches; some path that both match.
Covers(p, q) == Len(p) = Len(q) /\ \A i \in 1..Len(p) : p[i] \in {"{}", q[i]}
Overlaps(p, q) == Len(p) = Len(q) /\ \A i \in 1..Len(p) : p[i] = q[i] \/ "{}" \in {p[i], q[i]}

\* ServeMux panics on a pattern that overlaps another if neither is more
\* specific than the other.
Conflict(r, s) == /\ r.method = s.method
                  /\ Overlaps(r.path, s.path)
                  /\ Covers(r.path, s.path) <=> Covers(s.path, r.path)

Clashes(m) == {i \in DOMAIN m.routes :
                 \/ \E r \in mounted : Conflict(r, Route(m, i))
                 \/ \E j \in 1..(i - 1) : Conflict(Route(m, j), Route(m, i))}

Registrable(m) ==
  /\ ValidModule(m)
  /\ ~started
  /\ \A i \in DOMAIN modules : ~(modules[i].identifier = m.identifier /\ modules[i].role = m.role)

\* The routes are mounted one by one; the first that clashes ends it with an
\* error, and those before it stay mounted.
Register(m) ==
  /\ mounted' = IF Registrable(m)
                THEN mounted \cup {Route(m, i) : i \in {k \in DOMAIN m.routes : \A c \in Clashes(m) : k < c}}
                ELSE mounted
  /\ modules' = IF Registrable(m) /\ Clashes(m) = {} THEN Append(modules, m) ELSE modules
  /\ UNCHANGED <<started, lifetime, accepting, request>>

\* Registering is closed even if the listener then fails.
Start(ok) ==
  /\ started' = TRUE
  /\ accepting' = ok
  /\ UNCHANGED <<mounted, modules, lifetime, request>>
-----------------------------------------------------------------------------
(* A request *)

\* tokenFromRequest: a header [form, token]; only "Token <base64>" yields one.
TokenFromRequest(h) == IF h.form = "base64" THEN h.token ELSE ""

\* NewStaticAuthenticator
Access(tokenA, token) == IF token # "" /\ token = tokenA THEN AccessRegistration ELSE AccessNone

\* ServeHTTP with authorize: unmatched requests are told apart by the mux
\* before any token is looked at, and of the routes that match the most
\* specific one decides.
Best(routes) == {r \in routes : \A s \in routes : Covers(s.path, r.path)}

Outcome(tokenA, method, path, h) ==
  LET there == {r \in mounted : Covers(r.path, path)}
      taken == {r \in there : r.method = method}
  IN CASE there = {} -> "not found"
       [] there # {} /\ taken = {} -> "method not allowed"
       [] \E r \in Best(taken) : Access(tokenA, TokenFromRequest(h)) >= r.need -> "handler"
       [] OTHER -> "unauthorized"

AcceptRequest(r) ==
  /\ accepting
  /\ request[r] = "none"
  /\ request' = [request EXCEPT ![r] = "reading"]
  /\ UNCHANGED <<mounted, modules, started, lifetime, accepting>>

\* Its header and body are there: a handler runs, or the answer is written.
Dispatch(r, outcome) ==
  /\ request[r] = "reading"
  /\ request' = [request EXCEPT ![r] = IF outcome = "handler" THEN "handling" ELSE "writing"]
  /\ UNCHANGED <<mounted, modules, started, lifetime, accepting>>

\* A handler may wait for the end of its context, which ends with the server.
HandlerReturns(r) ==
  /\ request[r] = "handling"
  /\ request' = [request EXCEPT ![r] = "writing"]
  /\ UNCHANGED <<mounted, modules, started, lifetime, accepting>>

\* The answer is written, or the peer or a timeout of the HTTP server ends it.
RequestEnds(r) ==
  /\ request[r] \in {"reading", "writing"}
  /\ request' = [request EXCEPT ![r] = "none"]
  /\ UNCHANGED <<mounted, modules, started, lifetime, accepting>>
-----------------------------------------------------------------------------
(* Shutdown *)

InFlight == {r \in Requests : request[r] # "none"}

\* cancel, then http.Shutdown closes the listener ...
ShutdownBegins ==
  /\ lifetime' = "cancelled"
  /\ accepting' = FALSE
  /\ UNCHANGED <<mounted, modules, started, request>>

\* ... and waits for the requests in flight, or for the caller's deadline.
ShutdownDone(expired) == InFlight = {} \/ expired

OcpiInit ==
  /\ mounted = {} /\ modules = <<>> /\ started = FALSE
  /\ lifetime = "live" /\ accepting = FALSE
  /\ request = [r \in Requests |-> "none"]
=============================================================================

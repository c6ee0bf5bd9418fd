------------------------------- MODULE MCRun -------------------------------
EXTENDS Run

Text(t) == [text |-> t, padded |-> FALSE]
Padded(t) == [text |-> t, padded |-> TRUE]
Set(n) == [raw |-> "set", dur |-> n]
Unset == [raw |-> "unset", dur |-> 0]
EVSE(uid, id, n) == [uid |-> uid, evseId |-> id, connector |-> n]

Example ==
  [version |-> Text("1.6"), interval |-> Set(60), timeout |-> Set(90), callTimeout |-> Unset,
   ocpp |-> NoBind, ocpi |-> [host |-> "127.0.0.1", port |-> 8080],
   url |-> [scheme |-> "http", host |-> TRUE, query |-> FALSE, braces |-> FALSE, slash |-> TRUE],
   tokenA |-> Text("token-a"), tokenC |-> Text("token-c"),
   evses |-> <<EVSE(Text("u1"), Text("e1"), 1), EVSE(Text("u2"), Text("e2"), 2)>>,
   shape |-> TRUE]

\* The example with one thing at a time written differently.
Configs ==
  {Example}
  \cup {[Example EXCEPT !.version = v] : v \in {Text(""), Padded("1.6"), Text("2.0.1"), Text("1.5")}}
  \cup {[Example EXCEPT !.interval = i, !.timeout = t] :
          i \in {Unset, Set(90), Set(0)}, t \in {Unset, Set(91), [raw |-> "bad", dur |-> 0]}}
  \cup {[Example EXCEPT !.ocpp = [host |-> h, port |-> n]] :
          h \in {"any", "127.0.0.1", "localhost", "0:0:0:0:0:0:0:0", "10.0.0.1", "elsewhere"}, n \in {0, 8080}}
  \cup {[Example EXCEPT !.ocpi.host = h] : h \in {"any", "elsewhere"}}
  \cup {[Example EXCEPT !.url = [scheme |-> s, host |-> TRUE, query |-> q, braces |-> b, slash |-> FALSE]] :
          s \in {"https", "ws"}, q \in BOOLEAN, b \in BOOLEAN}
  \cup {[Example EXCEPT !.tokenC = t] : t \in {Padded("token-c"), Padded("token-a"), Text("short"), Text("")}}
  \cup {[Example EXCEPT !.evses = es] : es \in
          { <<>>,
            <<EVSE(Text("u1"), Text("e1"), 0)>>,
            <<EVSE(Text("u1"), Text("e1"), 1), EVSE(Padded("u1"), Text("e2"), 2)>>,
            <<EVSE(Text("u1"), Text("e1"), 1), EVSE(Text("u2"), Text("e2"), 1)>>,
            <<EVSE(Text("u1"), Text("e1"), 1), EVSE(Text("u2"), Text("e2"), 2), EVSE(Text("u3"), Text("e1"), 3)>> }}
  \cup {[Example EXCEPT !.shape = FALSE]}

\* A machine with a loopback address and one more; the rest is not its own.
MCResolve(host) ==
  CASE host \in {"any", "0:0:0:0:0:0:0:0"} -> "wildcard"
    [] host \in {"localhost", "127.0.0.1"} -> "127.0.0.1"
    [] host = "10.0.0.1" -> "10.0.0.1"
    [] OTHER -> "none"

Get(sub) == [method |-> "GET", sub |-> sub]
Locations == [identifier |-> "locations", role |-> "SENDER", path |-> "", access |-> AccessModules,
              routes |-> <<Get(<<>>), Get(<<"{}">>)>>]
\* More specific than a route of the module before it, and with less access.
Nested == [identifier |-> "other", role |-> "SENDER", path |-> "locations", access |-> AccessRegistration,
           routes |-> <<Get(<<"public">>)>>]
\* Its routes overlap and neither is more specific.
Crossed == [Locations EXCEPT !.routes = <<Get(<<"{}", "x">>), Get(<<"y", "{}">>)>>]
\* It begins on a path of its own and ends on one of the credentials module.
Clashing == [identifier |-> "other", role |-> "RECEIVER", path |-> "credentials", access |-> AccessModules,
             routes |-> <<Get(<<"{}">>), [method |-> "POST", sub |-> <<>>]>>]
Public == [Locations EXCEPT !.access = AccessNone]

Wirings == { <<CredentialsStub, Locations>>, <<CredentialsStub, Clashing>>, <<Locations, Locations>>,
             <<Locations, [Locations EXCEPT !.role = "RECEIVER"]>>, <<CredentialsStub, Public>>,
             <<CredentialsStub, Locations, Nested>>, <<Crossed>>,
             <<[Locations EXCEPT !.path = "{}"]>>, <<[Locations EXCEPT !.routes[1].method = ""]>> }

MCInputs == {[raw |-> c, wiring |-> <<CredentialsStub>>] : c \in Configs}
            \cup {[raw |-> Example, wiring |-> w] : w \in Wirings}
=============================================================================

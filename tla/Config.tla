------------------------------- MODULE Config -------------------------------
(***************************************************************************)
(* How cpms reads its configuration (internal/config): normalize, then     *)
(* applyDefaults, then Validate.  What Validate accepts is what the rest   *)
(* of the program is built from.                                           *)
(*                                                                         *)
(* A text is [text, padded]: what it says, and whether white space was     *)
(* typed around it.  A duration is [raw, dur] in seconds, raw one of       *)
(* "unset", "bad" and "set".  Of the fields that only have to look right   *)
(* (ids, country codes, coordinates, connectors), `shape` says whether     *)
(* they all do; they are independent of the others.                        *)
(***************************************************************************)
EXTENDS Integers, Sequences

Texts == [text : STRING, padded : BOOLEAN]
Durations == [raw : {"unset", "bad", "set"}, dur : Int]
Binds == [host : STRING, port : Int]
URLs == [scheme : STRING, host : BOOLEAN, query : BOOLEAN, braces : BOOLEAN, slash : BOOLEAN]
EVSERecords == [uid : Texts, evseId : Texts, connector : Int]

\* What a config file decodes to.
Configuration ==
  [version : Texts, interval : Durations, timeout : Durations, callTimeout : Durations,
   ocpp : Binds, ocpi : Binds, url : URLs, tokenA : Texts, tokenC : Texts,
   evses : Seq(EVSERecords), shape : BOOLEAN]

Trim(t) == [t EXCEPT !.padded = FALSE]

\* One canonical form for validation and everything after it.
Normalize(c) ==
  [c EXCEPT !.version = Trim(@), !.tokenA = Trim(@), !.tokenC = Trim(@),
            !.url.slash = FALSE,      \* trailing slashes are cut
            !.evses = [i \in DOMAIN @ |-> [@[i] EXCEPT !.uid = Trim(@), !.evseId = Trim(@)]]]

Default(d, value) == IF d.raw = "unset" THEN [raw |-> "set", dur |-> value] ELSE d

DefaultOCPPBind == [host |-> "any", port |-> 9000]
DefaultOCPIBind == [host |-> "any", port |-> 8080]
NoBind == [host |-> "", port |-> -1]

ApplyDefaults(c) ==
  [c EXCEPT !.version.text = IF c.version = [text |-> "", padded |-> FALSE] THEN "1.6" ELSE @,
            !.interval = Default(@, 60),
            !.timeout = Default(@, 90),
            !.callTimeout = Default(@, 30),
            !.ocpp = IF @ = NoBind THEN DefaultOCPPBind ELSE @,
            !.ocpi = IF @ = NoBind THEN DefaultOCPIBind ELSE @]

-----------------------------------------------------------------------------
(* Validate *)

PositiveDuration(d) == d.raw = "set" /\ d.dur > 0

ValidateCharger(c) ==
  /\ c.version.text \in {"1.6", "2.0.1"} /\ ~c.version.padded
  /\ PositiveDuration(c.interval)
  /\ PositiveDuration(c.timeout)
  /\ PositiveDuration(c.callTimeout)
  /\ c.timeout.dur > c.interval.dur

ValidateBind(b) == b.port \in 1..65535

\* Two listeners collide on a port unless their hosts are different words and
\* neither is the wildcard.
ValidateServer(c) ==
  /\ ValidateBind(c.ocpp)
  /\ ValidateBind(c.ocpi)
  /\ ~(c.ocpp.port = c.ocpi.port /\ (c.ocpp.host = c.ocpi.host \/ "any" \in {c.ocpp.host, c.ocpi.host}))

ValidateToken(t) == t.text \notin {"", "short", "spaced"} /\ ~t.padded

ValidateOCPI(c) ==
  /\ c.url.scheme \in {"http", "https"}
  /\ c.url.host
  /\ ValidateToken(c.tokenA)
  /\ ValidateToken(c.tokenC)
  /\ c.tokenA # c.tokenC

\* seenUID, seenEVSEID, seenConnectorID: no value twice.
Distinct(es, f) == \A i, j \in DOMAIN es : es[i][f] = es[j][f] => i = j

ValidateLocation(c) ==
  /\ c.evses # <<>>
  /\ \A i \in DOMAIN c.evses : /\ c.evses[i].uid.text # ""
                               /\ c.evses[i].evseId.text # ""
                               /\ c.evses[i].connector >= 1
  /\ Distinct(c.evses, "uid") /\ Distinct(c.evses, "evseId") /\ Distinct(c.evses, "connector")

Validate(c) == /\ c.shape /\ ValidateCharger(c) /\ ValidateServer(c)
               /\ ValidateOCPI(c) /\ ValidateLocation(c)

\* Mutant: the file is validated as it was typed.
ParseRaw(raw) == [ok |-> Validate(ApplyDefaults(raw)), cfg |-> ApplyDefaults(Normalize(raw))]

Parse(raw) ==
  LET c == ApplyDefaults(Normalize(raw))
  IN [ok |-> Validate(c), cfg |-> c]
-----------------------------------------------------------------------------
(* How the program looks EVSEs up: the first one that fits, or 0. *)

First(es, f, v) ==
  LET fits == {i \in DOMAIN es : es[i][f] = v}
  IN IF fits = {} THEN 0 ELSE CHOOSE i \in fits : \A j \in fits : i <= j

EVSEByUID(c, uid) == First(c.evses, "uid", uid)
EVSEByConnectorID(c, n) == First(c.evses, "connector", n)
=============================================================================

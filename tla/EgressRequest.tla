---------------------------- MODULE EgressRequest ----------------------------
(***************************************************************************)
(* One request at a time through the egress proxy: handleRequest           *)
(* (server/handlers.go), Client.Do (transport/client.go), the policy       *)
(* (policy/url.go, ip.go, redirect.go) and the guarded dialers             *)
(* (transport/dialer.go).                                                  *)
(*                                                                         *)
(* The resolver may answer differently each time it is asked: when the     *)
(* host is validated, when a redirect is checked, and again when a dialer  *)
(* looks the name up.  A host is a class of host names; a literal address  *)
(* is its own class.  The dot marks a name written with a trailing dot,    *)
(* which some of the code's suffix tests trim and others do not.           *)
(***************************************************************************)
EXTENDS Integers

CONSTANTS
  MaxRedirects,  \* cfg.MaxRedirects
  MaxRequest,    \* cfg.MaxRequestBodyBytes
  MaxResponse,   \* cfg.MaxResponseBodyBytes
  None

ASSUME EgressAssumption ==
  /\ MaxRedirects \in Int      \* Load does not look at it
  /\ MaxRequest \in Nat /\ MaxResponse \in Nat

Modes == {"direct", "tor", "i2p", "yggdrasil"}
IPs == {"public", "private", "ygg"}
Hosts == IPs \cup {"localhost", "name", "onion", "onion.", "i2p", "i2p."}
Answers == SUBSET IPs    \* of the resolver; {} when it fails

(* What a request connects to: an address, an onion name handed to Tor, or *)
(* the I2P router's HTTP proxy.                                            *)
Dests == IPs \cup {"onionByName", "i2pProxy"}


(* A request beside its host: whether its method and the form of its URL   *)
(* are accepted, and the length of its body.                               *)
Requests == [mode : Modes \cup {"bogus"}, method : BOOLEAN, url : BOOLEAN,
             body : 0 .. MaxRequest + 1]

ASSUME NoneAssumption == None \notin Dests /\ None \notin Requests

VARIABLES
  pc,       \* where Client.Do stands
  req,      \* the decoded request, its mode defaulted
  host,     \* the host of the hop at hand
  via,      \* requests sent so far, as CheckRedirect counts them
  dest,     \* what the hop at hand is connected to, or None
  pool,     \* idle connections of each mode's transport: <<host, dest>>
  sent,     \* length of the body the upstream sends
  reply     \* status, body length and truncation mark of the answer, or None

vars == <<pc, req, host, via, dest, pool, sent, reply>>

Init ==
  /\ pc = "idle" /\ req = None /\ host = None /\ via = 0 /\ dest = None
  /\ pool = [m \in Modes |-> {}]
  /\ sent = 0 /\ reply = None

-----------------------------------------------------------------------------
(* The policy. *)

Onion(h) == h \in {"onion", "onion."}
I2P(h) == h \in {"i2p", "i2p."}

IPAllowedForMode(ip, mode) ==
  \/ mode \in {"direct", "tor"} /\ ip = "public"
  \/ mode = "yggdrasil" /\ ip = "ygg"

(* Names that belong to another network than the mode's. *)
Foreign(h, mode) ==
  \/ mode \in {"direct", "yggdrasil"} /\ (Onion(h) \/ I2P(h))
  \/ mode = "tor" /\ I2P(h)
  \/ mode = "i2p" /\ ~I2P(h)

(* The status ParseAndValidateURL leads to, 200 when it accepts. *)
ParseAndValidateURL(ok, h, mode) ==
  IF ~ok \/ mode \notin Modes THEN 400
  ELSE IF Foreign(h, mode) THEN 403 ELSE 200

AllAllowed(ips, mode) == ips # {} /\ \A ip \in ips : IPAllowedForMode(ip, mode)

ValidateResolvedHost(h, mode, ips) ==
  \/ h \in IPs /\ IPAllowedForMode(h, mode)
  \/ h \in {"onion", "i2p"}
  \/ h \in {"name", "onion.", "i2p."} /\ AllAllowed(ips, mode)

validateHost(h, mode, ips) ==
  \/ mode = "tor" /\ h = "onion"
  \/ mode = "i2p" /\ h = "i2p"
  \/ ValidateResolvedHost(h, mode, ips)

(* Mutant: the dialer trusts the check made before it. *)
resolveUnchecked(h, mode, ips) ==
  IF h \in IPs THEN {h} ELSE IF h = "localhost" THEN {} ELSE ips

(* The addresses resolveDialAddress may return; {} when it fails. *)
resolveDialAddress(h, mode, ips) ==
  IF h \in IPs THEN {ip \in {h} : IPAllowedForMode(ip, mode)}
  ELSE IF h # "localhost" /\ AllAllowed(ips, mode) THEN ips ELSE {}

(* What the transport of a mode may connect to for h: the guarded dialer,  *)
(* the guarded SOCKS dialer, or the HTTP proxy of I2P.                     *)
DialContext(h, mode, ips) ==
  IF mode = "i2p" THEN {"i2pProxy"}
  ELSE IF mode = "tor" /\ Onion(h) THEN {"onionByName"}
  ELSE resolveDialAddress(h, mode, ips)

-----------------------------------------------------------------------------
(* Client.Do. *)

Finish(status, length, truncated) ==
  /\ reply' = [status |-> status, length |-> length, truncated |-> truncated]
  /\ pc' = "idle" /\ req' = None /\ host' = None /\ via' = 0 /\ dest' = None /\ sent' = 0

Fail(status) == Finish(status, 0, FALSE)

(* handleRequest: a body that does not decode is answered at once. *)
BadRequest ==
  /\ pc = "idle"
  /\ Fail(400) /\ UNCHANGED pool

handleRequest(r, h) ==
  /\ pc = "idle"
  /\ pc' = "validate" /\ req' = r /\ host' = h /\ reply' = None
  /\ UNCHANGED <<via, dest, pool, sent>>

(* NormalizeMethod, then ParseAndValidateURL. *)
Validate ==
  /\ pc = "validate"
  /\ LET status == IF req.method THEN ParseAndValidateURL(req.url, host, req.mode) ELSE 400
     IN  \/ status # 200 /\ Fail(status)
         \/ /\ status = 200 /\ pc' = "resolve"
            /\ UNCHANGED <<req, host, via, dest, sent, reply>>
  /\ UNCHANGED pool

(* validateHost, which waits for the resolver outside the request's        *)
(* timeout, then the limit on the body.                                    *)
ValidateHost(ips) ==
  /\ pc = "resolve"
  /\ \/ ~validateHost(host, req.mode, ips) /\ Fail(403)
     \/ validateHost(host, req.mode, ips) /\ req.body > MaxRequest /\ Fail(400)
     \/ /\ validateHost(host, req.mode, ips) /\ req.body <= MaxRequest
        /\ pc' = "dial" /\ via' = 1
        /\ UNCHANGED <<req, host, dest, sent, reply>>
  /\ UNCHANGED pool

(* The transport takes an idle connection to the same host ... *)
Reuse ==
  /\ pc = "dial"
  /\ \E c \in pool[req.mode] : c[1] = host /\ dest' = c[2]
  /\ pc' = "wait"
  /\ UNCHANGED <<req, host, via, pool, sent, reply>>

(* ... or dials, asking the resolver again; the dial may fail. *)
Dial(ips) ==
  /\ pc = "dial"
  /\ \/ /\ dest' \in DialContext(host, req.mode, ips)
        /\ pc' = "wait" /\ UNCHANGED <<req, host, via, sent, reply>>
     \/ Fail(502)
  /\ UNCHANGED pool

(* The upstream answers with a redirect; the connection may be kept. *)
Redirected(h) ==
  /\ pc = "wait"
  /\ pc' = "redirect" /\ host' = h /\ dest' = None
  /\ \/ pool' = [pool EXCEPT ![req.mode] = @ \cup {<<host, dest>>}]
     \/ UNCHANGED pool
  /\ UNCHANGED <<req, via, sent, reply>>

TooMany == via > MaxRedirects

(* Mutant: a redirect's host is resolved but its name not checked. *)
RedirectAnyName(ok, ips) == ~TooMany /\ ok /\ ValidateResolvedHost(host, req.mode, ips)

(* The verdict on a redirect whose URL has an accepted form, or not. *)
RedirectPolicy(ok, ips) ==
  /\ ~TooMany
  /\ ParseAndValidateURL(ok, host, req.mode) = 200
  /\ ValidateResolvedHost(host, req.mode, ips)

(* CheckRedirect also waits for the resolver without a deadline. *)
CheckRedirect(ok, ips) ==
  /\ pc = "redirect"
  /\ \/ ~RedirectPolicy(ok, ips) /\ Fail(502)
     \/ /\ RedirectPolicy(ok, ips)
        /\ pc' = "dial" /\ via' = via + 1
        /\ UNCHANGED <<req, host, dest, sent, reply>>
  /\ UNCHANGED pool

(* The upstream answers with a body of n bytes. *)
Respond(n) ==
  /\ pc = "wait"
  /\ pc' = "read" /\ sent' = n
  /\ UNCHANGED <<req, host, via, dest, pool, reply>>

(* Mutant: the reader stops at the limit itself. *)
LimitExact(n) == IF n > MaxResponse THEN MaxResponse ELSE n

(* Bytes the LimitReader lets through. *)
Limited(n) == IF n > MaxResponse + 1 THEN MaxResponse + 1 ELSE n

(* buildResponse; a connection read to its end may be kept. *)
buildResponse ==
  /\ pc = "read"
  /\ LET got == Limited(sent)
         truncated == got > MaxResponse
     IN  /\ Finish(200, IF truncated THEN MaxResponse ELSE got, truncated)
         /\ \/ /\ ~truncated
               /\ pool' = [pool EXCEPT ![req.mode] = @ \cup {<<host, dest>>}]
            \/ UNCHANGED pool

(* Mutant: no deadline runs while the upstream is silent. *)
TimeoutWhileReading == pc = "read" /\ Fail(502) /\ UNCHANGED pool

(* The deadline, or a network error. *)
Timeout ==
  /\ pc \in {"dial", "wait", "read"}
  /\ Fail(502) /\ UNCHANGED pool

Next ==
  \/ BadRequest
  \/ \E r \in Requests, h \in Hosts : handleRequest(r, h)
  \/ Validate
  \/ \E ips \in Answers :
       \/ ValidateHost(ips) \/ Dial(ips)
       \/ \E ok \in BOOLEAN : CheckRedirect(ok, ips)
  \/ Reuse
  \/ \E h \in Hosts : Redirected(h)
  \/ \E n \in 0 .. MaxResponse + 2 : Respond(n)
  \/ buildResponse
  \/ Timeout

Spec == Init /\ [][Next]_vars

(* The handler runs, the resolver answers or gives up, and the deadline    *)
(* fires; the upstream owes nothing.                                       *)
Fairness ==
  /\ WF_vars(Validate)
  /\ WF_vars(\E ips \in Answers : ValidateHost(ips))
  /\ WF_vars(\E ips \in Answers, ok \in BOOLEAN : CheckRedirect(ok, ips))
  /\ WF_vars(Timeout)

FairSpec == Spec /\ Fairness

-----------------------------------------------------------------------------
(* Types; a hop is connected exactly while it is under way. *)
TypeOK ==
  /\ pc \in {"idle", "validate", "resolve", "dial", "wait", "redirect", "read"}
  /\ req \in Requests \cup {None} /\ (req = None <=> pc = "idle")
  /\ host \in Hosts \cup {None}
  /\ via \in Nat
  /\ dest \in Dests \cup {None} /\ (dest # None <=> pc \in {"wait", "read"})
  /\ pool \in [Modes -> SUBSET (Hosts \X Dests)]
  /\ sent \in 0 .. MaxResponse + 2
  /\ reply = None \/ reply \in [status : {200, 400, 403, 502}, length : Nat,
                                truncated : BOOLEAN]

(* Whatever the resolver answered when the host or a redirect was checked, *)
(* a hop talks only to an address its mode allows: the dialers check the   *)
(* very address they dial, and an idle connection was dialled so before.   *)
DestinationAllowed ==
  dest # None =>
    \/ dest \in IPs /\ IPAllowedForMode(dest, req.mode)
    \/ dest = "onionByName" /\ req.mode = "tor"
    \/ dest = "i2pProxy" /\ req.mode = "i2p"

(* The names of a network are asked for only through that network, however *)
(* many redirects led there: no .onion outside Tor, .i2p exactly in I2P.   *)
NamesKeepNetwork ==
  dest # None => /\ Onion(host) => req.mode = "tor" /\ dest = "onionByName"
                 /\ I2P(host) <=> req.mode = "i2p"

(* At most MaxRedirects redirects are followed, none if it is negative. *)
RedirectsBounded == via > 1 => via <= MaxRedirects + 1

(* A step that answers with a body says whether it was cut: the mark is    *)
(* set exactly when the upstream sent more than the limit, and an unmarked *)
(* body is complete, at the limit and one byte past it too.                *)
TruncationExact ==
  [][pc = "read" /\ reply' # None /\ reply'.status = 200 =>
       /\ reply'.truncated <=> sent > MaxResponse
       /\ reply'.length = IF reply'.truncated THEN MaxResponse ELSE sent]_vars

(* Every request is answered although the upstream may stay silent or      *)
(* redirect for ever, once the resolver has answered.                      *)
EveryRequestAnswered == pc # "idle" ~> pc = "idle"
=============================================================================

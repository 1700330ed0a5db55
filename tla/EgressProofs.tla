---------------------------- MODULE EgressProofs ----------------------------
(***************************************************************************)
(* Proofs about EgressRequest, for any limits and any resolver: where a    *)
(* request may connect to, and how many redirects it may follow.           *)
(***************************************************************************)
EXTENDS EgressRequest, TLAPS

(* The URL of the hop at hand has passed ParseAndValidateURL. *)
Parsed(h, mode) == ParseAndValidateURL(TRUE, h, mode) = 200

(* Where a connection of a mode may lead for host h. *)
Reaches(mode, h, d) ==
  /\ \/ d \in IPs /\ IPAllowedForMode(d, mode)
     \/ d = "onionByName" /\ mode = "tor"
     \/ d = "i2pProxy" /\ mode = "i2p"
  /\ Onion(h) => mode = "tor" /\ d = "onionByName"
  /\ I2P(h) <=> mode = "i2p"

(* The inductive invariant.  DestinationAllowed says nothing of the idle   *)
(* connections a later request may take, nor of what has been checked      *)
(* about the host when a dial begins; both are needed at the dial.         *)
HopInv ==
  /\ pc \in {"idle", "validate", "resolve", "dial", "wait", "redirect", "read"}
  /\ pc \in {"resolve", "dial", "wait", "redirect", "read"} => req.mode \in Modes
  /\ pc \in {"resolve", "dial", "wait", "read"} => Parsed(host, req.mode)
  /\ dest # None <=> pc \in {"wait", "read"}
  /\ dest # None => Reaches(req.mode, host, dest)
  /\ pool \in [Modes -> SUBSET (Hosts \X Dests)]
  /\ \A m \in Modes : \A c \in pool[m] : Reaches(m, c[1], c[2])
  /\ host \in Hosts \cup {None}
  /\ pc # "idle" => host \in Hosts

(* What the dialers return for a host that passed the URL check leads      *)
(* where the mode may go, whatever the resolver answered.                  *)
LEMMA DialReaches ==
  ASSUME NEW mode \in Modes, NEW h \in Hosts, NEW ips \in Answers,
         Parsed(h, mode), NEW d \in DialContext(h, mode, ips)
  PROVE  Reaches(mode, h, d) /\ d \in Dests
<1>1. CASE mode = "i2p"
  BY <1>1 DEF DialContext, Reaches, Parsed, ParseAndValidateURL, Foreign, Onion, I2P,
              Dests, IPs, Modes
<1>2. CASE mode = "tor" /\ Onion(h)
  BY <1>2 DEF DialContext, Reaches, Parsed, ParseAndValidateURL, Foreign, Onion, I2P,
              Dests, IPs, Modes
<1>3. CASE mode # "i2p" /\ ~(mode = "tor" /\ Onion(h))
  <2>1. d \in resolveDialAddress(h, mode, ips)
    BY <1>3 DEF DialContext
  <2>2. d \in IPs /\ IPAllowedForMode(d, mode)
    BY <2>1 DEF resolveDialAddress, AllAllowed, Answers, Hosts
  <2>3. ~Onion(h) /\ ~I2P(h)
    BY <1>3 DEF Parsed, ParseAndValidateURL, Foreign, Modes
  <2>. QED  BY <1>3, <2>2, <2>3 DEF Reaches, Dests
<1>. QED  BY <1>1, <1>2, <1>3

LEMMA HopInit == Init => HopInv
BY DEF Init, HopInv, Modes

(* A step that ends the request leaves the idle connections as they are,   *)
(* or as a caller of this lemma shows.                                     *)
LEMMA FinishHop ==
  ASSUME HopInv, NEW status, NEW length, NEW truncated,
         Finish(status, length, truncated),
         pool' \in [Modes -> SUBSET (Hosts \X Dests)],
         \A m \in Modes : \A c \in pool'[m] : Reaches(m, c[1], c[2])
  PROVE  HopInv'
BY DEF HopInv, Finish

(* The connection of the hop at hand may become an idle one. *)
LEMMA PoolHop ==
  ASSUME HopInv, pc \in {"wait", "read"},
         \/ pool' = [pool EXCEPT ![req.mode] = @ \cup {<<host, dest>>}]
         \/ pool' = pool
  PROVE  /\ pool' \in [Modes -> SUBSET (Hosts \X Dests)]
         /\ \A m \in Modes : \A c \in pool'[m] : Reaches(m, c[1], c[2])
<1>1. /\ req.mode \in Modes /\ host \in Hosts
      /\ dest \in Dests /\ Reaches(req.mode, host, dest)
  BY DEF HopInv, Reaches, Dests, IPs
<1>2. pool \in [Modes -> SUBSET (Hosts \X Dests)]
  BY DEF HopInv
<1>3. pool' \in [Modes -> SUBSET (Hosts \X Dests)]
  BY <1>1, <1>2
<1>4. ASSUME NEW m \in Modes, NEW c \in pool'[m]
      PROVE  Reaches(m, c[1], c[2])
  <2>1. CASE c \in pool[m]
    BY <2>1 DEF HopInv
  <2>2. CASE c \notin pool[m]
    <3>1. m = req.mode /\ c = <<host, dest>>
      BY <1>1, <1>2, <1>4, <2>2
    <3>. QED  BY <1>1, <3>1
  <2>. QED  BY <2>1, <2>2
<1>. QED  BY <1>3, <1>4

LEMMA FailHop ==
  ASSUME HopInv, NEW status, Fail(status), UNCHANGED pool
  PROVE  HopInv'
<1>1. /\ pool' \in [Modes -> SUBSET (Hosts \X Dests)]
      /\ \A m \in Modes : \A c \in pool'[m] : Reaches(m, c[1], c[2])
  BY DEF HopInv
<1>. QED  BY <1>1, FinishHop DEF Fail

LEMMA HopStep == HopInv /\ [Next]_vars => HopInv'
<1>. SUFFICES ASSUME HopInv, [Next]_vars PROVE HopInv'
  OBVIOUS
<1>1. CASE BadRequest
  BY <1>1, FailHop DEF BadRequest
<1>2. CASE \E r \in Requests, h \in Hosts : handleRequest(r, h)
  BY <1>2 DEF HopInv, handleRequest
<1>3. CASE Validate
  <2>. DEFINE status == IF req.method THEN ParseAndValidateURL(req.url, host, req.mode)
                        ELSE 400
  <2>1. CASE status # 200 /\ Fail(status) /\ UNCHANGED pool
    BY <2>1, FailHop
  <2>2. CASE status = 200 /\ pc' = "resolve" /\ UNCHANGED <<req, host, via, dest, pool, sent, reply>>
    <3>1. req.mode \in Modes /\ Parsed(host, req.mode)
      BY <2>2 DEF ParseAndValidateURL, Parsed
    <3>. QED  BY <1>3, <2>2, <3>1 DEF HopInv, Validate
  <2>. QED  BY <1>3, <2>1, <2>2 DEF Validate
<1>4. ASSUME NEW ips \in Answers, ValidateHost(ips) PROVE HopInv'
  <2>1. CASE Fail(403)
    BY <1>4, <2>1, FailHop DEF ValidateHost
  <2>2. CASE Fail(400)
    BY <1>4, <2>2, FailHop DEF ValidateHost
  <2>3. CASE pc' = "dial" /\ UNCHANGED <<req, host, dest>>
    BY <1>4, <2>3 DEF HopInv, ValidateHost
  <2>. QED  BY <1>4, <2>1, <2>2, <2>3 DEF ValidateHost
<1>5. ASSUME NEW ips \in Answers, Dial(ips) PROVE HopInv'
  <2>1. CASE Fail(502)
    BY <1>5, <2>1, FailHop DEF Dial
  <2>2. CASE /\ dest' \in DialContext(host, req.mode, ips)
             /\ pc' = "wait" /\ UNCHANGED <<req, host, via, sent, reply>>
    <3>1. req.mode \in Modes /\ host \in Hosts /\ Parsed(host, req.mode)
      BY <1>5 DEF HopInv, Dial
    <3>2. Reaches(req.mode, host, dest') /\ dest' \in Dests
      BY <2>2, <3>1, DialReaches
    <3>. QED  BY <1>5, <2>2, <3>1, <3>2, NoneAssumption DEF HopInv, Dial
  <2>. QED  BY <1>5, <2>1, <2>2 DEF Dial
<1>6. ASSUME NEW ips \in Answers, NEW ok \in BOOLEAN, CheckRedirect(ok, ips)
      PROVE  HopInv'
  <2>1. CASE Fail(502)
    BY <1>6, <2>1, FailHop DEF CheckRedirect
  <2>2. CASE /\ RedirectPolicy(ok, ips)
             /\ pc' = "dial" /\ UNCHANGED <<req, host, dest>>
    <3>1. Parsed(host, req.mode)
      BY <2>2 DEF RedirectPolicy, ParseAndValidateURL, Parsed
    <3>. QED  BY <1>6, <2>2, <3>1 DEF HopInv, CheckRedirect
  <2>. QED  BY <1>6, <2>1, <2>2 DEF CheckRedirect
<1>7. CASE Reuse
  <2>1. PICK c \in pool[req.mode] : c[1] = host /\ dest' = c[2]
    BY <1>7 DEF Reuse
  <2>2. req.mode \in Modes /\ host \in Hosts /\ Parsed(host, req.mode)
    BY <1>7 DEF HopInv, Reuse
  <2>3. Reaches(req.mode, host, dest') /\ dest' \in Dests
    BY <2>1, <2>2 DEF HopInv
  <2>. QED  BY <1>7, <2>2, <2>3, NoneAssumption DEF HopInv, Reuse
<1>8. ASSUME NEW h \in Hosts, Redirected(h) PROVE HopInv'
  <2>1. /\ pool' \in [Modes -> SUBSET (Hosts \X Dests)]
        /\ \A m \in Modes : \A c \in pool'[m] : Reaches(m, c[1], c[2])
    BY <1>8, PoolHop DEF Redirected
  <2>. QED  BY <1>8, <2>1 DEF HopInv, Redirected
<1>9. CASE \E n \in 0 .. MaxResponse + 2 : Respond(n)
  BY <1>9 DEF HopInv, Respond
<1>10. CASE buildResponse
  <2>1. /\ pool' \in [Modes -> SUBSET (Hosts \X Dests)]
        /\ \A m \in Modes : \A c \in pool'[m] : Reaches(m, c[1], c[2])
    BY <1>10, PoolHop DEF buildResponse
  <2>. QED  BY <1>10, <2>1, FinishHop DEF buildResponse
<1>11. CASE Timeout
  BY <1>11, FailHop DEF Timeout
<1>12. CASE UNCHANGED vars
  BY <1>12 DEF HopInv, vars
<1>. QED
  BY <1>1, <1>2, <1>3, <1>4, <1>5, <1>6, <1>7, <1>8, <1>9, <1>10, <1>11, <1>12
  DEF Next

(* A hop talks only to what its mode allows, for any limits and whatever   *)
(* the resolver answers each time it is asked.                             *)
THEOREM DestinationsAllowed == Spec => []DestinationAllowed
<1>1. HopInv => DestinationAllowed
  BY DEF HopInv, Reaches, DestinationAllowed
<1>. QED  BY <1>1, HopInit, HopStep, PTL DEF Spec

(* The names of a network are asked for only through that network.         *)
THEOREM NamesStay == Spec => []NamesKeepNetwork
<1>1. HopInv => NamesKeepNetwork
  BY DEF HopInv, Reaches, NamesKeepNetwork
<1>. QED  BY <1>1, HopInit, HopStep, PTL DEF Spec

(* CheckRedirect lets at most MaxRedirects redirects through, for any      *)
(* setting, a negative one included.                                       *)
THEOREM RedirectsAreBounded == Spec => []RedirectsBounded
<1>. DEFINE Inv == via \in Nat /\ RedirectsBounded
<1>1. Init => Inv
  BY DEF Init, RedirectsBounded
<1>2. Inv /\ [Next]_vars => Inv'
  <2>. SUFFICES ASSUME Inv, [Next]_vars PROVE Inv'
    OBVIOUS
  <2>1. CASE via' = via
    BY <2>1 DEF RedirectsBounded
  <2>2. CASE via' \in {0, 1}
    BY <2>2 DEF RedirectsBounded
  <2>3. CASE via' = via + 1 /\ ~TooMany
    BY <2>3, EgressAssumption DEF RedirectsBounded, TooMany
  <2>4. via' = via \/ via' \in {0, 1} \/ (via' = via + 1 /\ ~TooMany)
    BY DEF Next, vars, BadRequest, handleRequest, Validate, ValidateHost, Dial,
           CheckRedirect, RedirectPolicy, Reuse, Redirected, Respond,
           buildResponse, Timeout, Fail, Finish
  <2>. QED  BY <2>1, <2>2, <2>3, <2>4
<1>3. Inv => RedirectsBounded
  OBVIOUS
<1>. QED  BY <1>1, <1>2, <1>3, PTL DEF Spec

-----------------------------------------------------------------------------
(* The part of TypeOK that HopInv leaves open. *)
RequestType ==
  /\ req \in Requests \cup {None} /\ (req = None <=> pc = "idle")
  /\ via \in Nat
  /\ sent \in 0 .. MaxResponse + 2
  /\ reply = None \/ reply \in [status : {200, 400, 403, 502}, length : Nat,
                                truncated : BOOLEAN]

LEMMA FailTyped ==
  ASSUME NEW status \in {200, 400, 403, 502}, Fail(status)
  PROVE  RequestType'
BY EgressAssumption DEF Fail, Finish, RequestType

(* A request, its hops and its answer keep their types, a request is held  *)
(* exactly while Client.Do runs, and a hop is connected exactly while it   *)
(* is under way (client.go).                                               *)
THEOREM EgressTypes == Spec => []TypeOK
<1>1. Init => RequestType
  BY EgressAssumption DEF Init, RequestType
<1>2. HopInv /\ RequestType /\ [Next]_vars => RequestType'
  <2>. SUFFICES ASSUME HopInv, RequestType, [Next]_vars PROVE RequestType'
    OBVIOUS
  <2>1. CASE BadRequest \/ Timeout
    BY <2>1, FailTyped DEF BadRequest, Timeout
  <2>2. CASE \E r \in Requests, h \in Hosts : handleRequest(r, h)
    BY <2>2, NoneAssumption DEF RequestType, handleRequest
  <2>3. CASE Validate
    <3>. DEFINE status == IF req.method THEN ParseAndValidateURL(req.url, host, req.mode)
                          ELSE 400
    <3>1. status \in {200, 400, 403, 502}
      BY DEF ParseAndValidateURL
    <3>2. CASE Fail(status)
      BY <3>1, <3>2, FailTyped
    <3>3. CASE pc' = "resolve" /\ UNCHANGED <<req, host, via, dest, sent, reply>>
      BY <2>3, <3>3 DEF Validate, RequestType
    <3>. QED  BY <2>3, <3>2, <3>3 DEF Validate
  <2>4. ASSUME NEW ips \in Answers, ValidateHost(ips) PROVE RequestType'
    <3>1. CASE Fail(403) \/ Fail(400)
      BY <3>1, FailTyped
    <3>2. CASE pc' = "dial" /\ via' = 1 /\ UNCHANGED <<req, host, dest, sent, reply>>
      BY <2>4, <3>2 DEF ValidateHost, RequestType
    <3>. QED  BY <2>4, <3>1, <3>2 DEF ValidateHost
  <2>5. ASSUME NEW ips \in Answers, Dial(ips) PROVE RequestType'
    <3>1. CASE Fail(502)
      BY <3>1, FailTyped
    <3>2. CASE pc' = "wait" /\ UNCHANGED <<req, host, via, sent, reply>>
      BY <2>5, <3>2 DEF Dial, RequestType
    <3>. QED  BY <2>5, <3>1, <3>2 DEF Dial
  <2>6. ASSUME NEW ips \in Answers, NEW ok \in BOOLEAN, CheckRedirect(ok, ips)
        PROVE  RequestType'
    <3>1. CASE Fail(502)
      BY <3>1, FailTyped
    <3>2. CASE pc' = "dial" /\ via' = via + 1 /\ UNCHANGED <<req, host, dest, sent, reply>>
      BY <2>6, <3>2 DEF CheckRedirect, RequestType
    <3>. QED  BY <2>6, <3>1, <3>2 DEF CheckRedirect
  <2>7. CASE Reuse
    BY <2>7 DEF Reuse, RequestType
  <2>8. CASE \E h \in Hosts : Redirected(h)
    BY <2>8 DEF Redirected, RequestType
  <2>9. CASE \E n \in 0 .. MaxResponse + 2 : Respond(n)
    BY <2>9 DEF Respond, RequestType
  <2>10. CASE buildResponse
    <3>. DEFINE truncated == Limited(sent) > MaxResponse
                length == IF truncated THEN MaxResponse ELSE Limited(sent)
    <3>1. length \in Nat
      BY EgressAssumption DEF RequestType, Limited
    <3>2. truncated \in BOOLEAN
      BY EgressAssumption DEF RequestType, Limited
    <3>3. Finish(200, length, truncated)
      BY <2>10 DEF buildResponse
    <3>. HIDE DEF length, truncated
    <3>. QED  BY <3>1, <3>2, <3>3, EgressAssumption DEF Finish, RequestType
  <2>11. CASE UNCHANGED vars
    BY <2>11 DEF vars, RequestType
  <2>. QED
    BY <2>1, <2>2, <2>3, <2>4, <2>5, <2>6, <2>7, <2>8, <2>9, <2>10, <2>11 DEF Next
<1>3. HopInv /\ RequestType => TypeOK
  BY DEF HopInv, RequestType, Reaches, Dests, TypeOK
<1>. QED  BY <1>1, <1>2, <1>3, HopInit, HopStep, PTL DEF Spec
(* The truncation mark is exact for every limit and every length of the    *)
(* upstream's body (transport/client.go, buildResponse: the reader lets    *)
(* one byte more through than the limit).                                  *)
THEOREM TruncationIsExact == Spec => TruncationExact
<1>. DEFINE Exact ==
       pc = "read" /\ reply' # None /\ reply'.status = 200 =>
         /\ reply'.truncated <=> sent > MaxResponse
         /\ reply'.length = IF reply'.truncated THEN MaxResponse ELSE sent
<1>1. TypeOK /\ [Next]_vars => [Exact]_vars
  <2>. SUFFICES ASSUME TypeOK, Next, pc = "read", reply'.status = 200
                PROVE  /\ reply'.truncated <=> sent > MaxResponse
                       /\ reply'.length = IF reply'.truncated THEN MaxResponse ELSE sent
    OBVIOUS
  <2>1. buildResponse \/ Timeout
    BY DEF Next, BadRequest, handleRequest, Validate, ValidateHost, Dial, CheckRedirect,
           Reuse, Redirected, Respond
  <2>2. ~Timeout
    BY DEF Timeout, Fail, Finish
  <2>3. sent \in Nat /\ MaxResponse \in Nat
    BY EgressAssumption DEF TypeOK
  <2>. DEFINE truncated == Limited(sent) > MaxResponse
              length == IF truncated THEN MaxResponse ELSE Limited(sent)
  <2>4. Finish(200, length, truncated)
    BY <2>1, <2>2 DEF buildResponse
  <2>5. truncated <=> sent > MaxResponse
    BY <2>3 DEF Limited
  <2>6. length = IF truncated THEN MaxResponse ELSE sent
    BY <2>3 DEF Limited
  <2>. HIDE DEF length, truncated
  <2>7. reply'.truncated = truncated /\ reply'.length = length
    BY <2>4, Zenon DEF Finish
  <2>. QED
    BY <2>5, <2>6, <2>7, Zenon
<1>. QED
  BY <1>1, EgressTypes, PTL DEF Spec, TruncationExact
=============================================================================

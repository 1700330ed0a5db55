---------------------------- MODULE TunnelDaemon ----------------------------
(***************************************************************************)
(* The life of the tunnel daemon's process (cmd/hyrule-tunnel-proxy,       *)
(* main.go): start-up in its order, the SSH host key on disk               *)
(* (sshd/server.go, loadOrCreateHostKey), listeners that fail, the signal, *)
(* and the shutdown, in which requests in flight get a grace period before *)
(* the deferred calls of main close the store.  The service manager starts *)
(* the process again whenever it has ended (Restart=always).               *)
(*                                                                         *)
(* A request is served by the control or the metrics listener.  A key is   *)
(* the number of its generation.  os.WriteFile truncates the file before   *)
(* it writes: a crash, or a full disk, between the two leaves a file that  *)
(* is no key.                                                              *)
(***************************************************************************)
EXTENDS Integers

CONSTANTS
  Reqs,         \* requests in flight at once
  MaxKeys,      \* bound: keys generated in a behaviour
  None

HTTP == {"control", "metrics"}       \* serveHTTP: a failure is os.Exit(1)
Intakes == {"ssh", "stun"}           \* a failure is stop()

ASSUME DaemonAssumption == MaxKeys \in Nat /\ None \notin Nat \cup HTTP

VARIABLES
  pc,           \* where main is
  lsn,          \* the state of each listener
  ctx,          \* "live", or "cancelled" by a signal or by stop
  graceOver,    \* the ten seconds of shutdownCtx are over
  store,        \* the lease database is open in this process
  at,           \* the listener a request is served by, None if free
  keyFile,      \* the host key file: None, a key, or Partial
  signer,       \* the key this process serves, None before it has one
  generated,    \* keys generated so far
  lastExit,     \* how the last process ended
  cut           \* history: a request was cut off by the last exit

vars == <<pc, lsn, ctx, graceOver, store, at, keyFile, signer, generated,
          lastExit, cut>>

Partial == 0
Keys == 1 .. MaxKeys

NoListeners == [s \in HTTP \cup Intakes |-> "unbound"]

Init ==
  /\ pc = "down" /\ lsn = NoListeners /\ ctx = "live" /\ graceOver = FALSE
  /\ store = FALSE /\ at = [r \in Reqs |-> None]
  /\ keyFile = None /\ signer = None /\ generated = 0
  /\ lastExit = None /\ cut = FALSE

(* The process is gone, with everything it had in memory. *)
Exit(code) ==
  /\ pc' = "down" /\ lsn' = NoListeners /\ ctx' = "live" /\ graceOver' = FALSE
  /\ store' = FALSE /\ signer' = None
  /\ at' = [r \in Reqs |-> None]
  /\ cut' = (\E r \in Reqs : at[r] # None)
  /\ lastExit' = [code |-> code, grace |-> graceOver]

keyVars == <<keyFile, generated>>

-----------------------------------------------------------------------------
(* Start-up. *)

(* config.Load, MkdirAll and lease.Open; each may fail. *)
OpenStore ==
  /\ pc = "down"
  /\ pc' = "key" /\ store' = TRUE
  /\ UNCHANGED <<lsn, ctx, graceOver, at, keyVars, signer, lastExit, cut>>

OpenFails == pc = "down" /\ Exit(1) /\ UNCHANGED keyVars

(* ReadFile succeeds: what it read is a key, or the process ends. *)
ReadKey ==
  /\ pc = "key" /\ keyFile # None
  /\ IF keyFile = Partial
     THEN Exit(1)
     ELSE /\ signer' = keyFile /\ pc' = "bind"
          /\ UNCHANGED <<lsn, ctx, graceOver, store, at, lastExit, cut>>
  /\ UNCHANGED keyVars

(* ReadFile fails: any error counts, not only a file that does not exist.  *)
GenerateKey ==
  /\ pc = "key" /\ generated < MaxKeys
  /\ generated' = generated + 1
  /\ keyFile' = Partial
  /\ pc' = "write"
  /\ UNCHANGED <<lsn, ctx, graceOver, store, at, signer, lastExit, cut>>

(* No key can be made, or the file cannot be opened for writing. *)
KeyFails == pc = "key" /\ Exit(1) /\ UNCHANGED keyVars

(* Mutant: a key that could not be persisted is served all the same. *)
WriteKeyBestEffort ==
  /\ pc = "write"
  /\ keyFile' \in {generated, Partial} /\ signer' = generated /\ pc' = "bind"
  /\ UNCHANGED <<lsn, ctx, graceOver, store, at, generated, lastExit, cut>>

WriteKey ==
  /\ pc = "write"
  /\ \/ /\ keyFile' = generated /\ signer' = generated /\ pc' = "bind"
        /\ UNCHANGED <<lsn, ctx, graceOver, store, at, lastExit, cut>>
     \/ Exit(1) /\ UNCHANGED keyFile
  /\ UNCHANGED generated

-----------------------------------------------------------------------------
(* The listeners, each bound by its own goroutine. *)

Started == pc \notin {"down", "key", "write"}

(* Shutdown of s has begun, or its context is cancelled: it binds no more. *)
Told(s) ==
  \/ s = "control" /\ pc # "bind"
  \/ s = "metrics" /\ pc \notin {"bind", "drainControl"}
  \/ s \in Intakes /\ ctx = "cancelled"

Bind(s) ==
  /\ Started /\ lsn[s] = "unbound"
  /\ lsn' = [lsn EXCEPT ![s] = IF Told(s) THEN "closed" ELSE "bound"]
  /\ UNCHANGED <<pc, ctx, graceOver, store, at, keyVars, signer, lastExit, cut>>

(* serveHTTP: the process ends at once, without the deferred calls. *)
HTTPFails(s) ==
  /\ s \in HTTP /\ Started /\ lsn[s] # "closed" /\ ~Told(s)
  /\ Exit(1)
  /\ UNCHANGED keyVars

IntakeFails(s) ==
  /\ s \in Intakes /\ Started /\ lsn[s] = "unbound" /\ ctx = "live"
  /\ lsn' = [lsn EXCEPT ![s] = "failed"]
  /\ ctx' = "cancelled"
  /\ UNCHANGED <<pc, graceOver, store, at, keyVars, signer, lastExit, cut>>

Signal ==
  /\ Started /\ ctx = "live"
  /\ ctx' = "cancelled"
  /\ UNCHANGED <<pc, lsn, graceOver, store, at, keyVars, signer, lastExit, cut>>

(* <-ctx.Done() of an intake closes its socket; sessions stay. *)
CloseIntake(s) ==
  /\ s \in Intakes /\ ctx = "cancelled" /\ lsn[s] = "bound"
  /\ lsn' = [lsn EXCEPT ![s] = "closed"]
  /\ UNCHANGED <<pc, ctx, graceOver, store, at, keyVars, signer, lastExit, cut>>

-----------------------------------------------------------------------------
Request(r, s) ==
  /\ s \in HTTP /\ at[r] = None /\ lsn[s] = "bound"
  /\ at' = [at EXCEPT ![r] = s]
  /\ UNCHANGED <<pc, lsn, ctx, graceOver, store, keyVars, signer, lastExit, cut>>

Answer(r) ==
  /\ at[r] # None
  /\ at' = [at EXCEPT ![r] = None]
  /\ UNCHANGED <<pc, lsn, ctx, graceOver, store, keyVars, signer, lastExit, cut>>

-----------------------------------------------------------------------------
(* Shutdown: the listener is closed at once, then its requests drain until *)
(* the grace period, which both servers share, is over.                    *)

BeginShutdown(s, from, to) ==
  /\ pc = from
  /\ pc' = to
  /\ lsn' = [lsn EXCEPT ![s] = IF @ = "bound" THEN "closed" ELSE @]
  /\ UNCHANGED <<ctx, graceOver, store, at, keyVars, signer, lastExit, cut>>

Drained(s) == \A r \in Reqs : at[r] # s

ShutdownControl ==
  ctx = "cancelled" /\ BeginShutdown("control", "bind", "drainControl")

(* Mutant: the grace period is not waited for. *)
NoWait(s) == TRUE

(* Mutant: Shutdown without a deadline. *)
WaitForAll(s) == Drained(s)

ShutdownReturns(s) == Drained(s) \/ graceOver

ShutdownMetrics ==
  ShutdownReturns("control") /\ BeginShutdown("metrics", "drainControl", "drainMetrics")

GraceEnds ==
  /\ pc \in {"drainControl", "drainMetrics"} /\ ~graceOver
  /\ graceOver' = TRUE
  /\ UNCHANGED <<pc, lsn, ctx, store, at, keyVars, signer, lastExit, cut>>

(* The deferred store.Close; handlers past the grace period still run. *)
CloseStore ==
  /\ pc = "drainMetrics" /\ ShutdownReturns("metrics")
  /\ pc' = "return" /\ store' = FALSE
  /\ UNCHANGED <<lsn, ctx, graceOver, at, keyVars, signer, lastExit, cut>>

Return == pc = "return" /\ Exit(0) /\ UNCHANGED keyVars

Crash == pc # "down" /\ Exit(2) /\ UNCHANGED keyVars

Main ==
  \/ OpenStore \/ ReadKey \/ GenerateKey \/ WriteKey
  \/ ShutdownControl \/ ShutdownMetrics \/ CloseStore \/ Return

Next ==
  \/ Main \/ OpenFails \/ KeyFails \/ Signal \/ GraceEnds \/ Crash
  \/ \E s \in HTTP \cup Intakes :
       Bind(s) \/ HTTPFails(s) \/ IntakeFails(s) \/ CloseIntake(s)
  \/ \E r \in Reqs : Answer(r) \/ \E s \in HTTP : Request(r, s)

(* main runs and its timer fires; no request has to end. *)
Spec == Init /\ [][Next]_vars /\ WF_vars(Main) /\ WF_vars(GraceEnds)

-----------------------------------------------------------------------------
TypeOK ==
  /\ pc \in {"down", "key", "write", "bind", "drainControl", "drainMetrics",
             "return"}
  /\ lsn \in [HTTP \cup Intakes -> {"unbound", "bound", "closed", "failed"}]
  /\ ctx \in {"live", "cancelled"} /\ graceOver \in BOOLEAN
  /\ store \in BOOLEAN /\ at \in [Reqs -> HTTP \cup {None}]
  /\ keyFile \in Keys \cup {None, Partial} /\ signer \in Keys \cup {None}
  /\ generated \in 0 .. MaxKeys

(* "generating and persisting one": whatever crash or full disk met the    *)
(* start before, a key that is served is the key in the file.              *)
KeyPersisted == signer # None => keyFile = signer

(* The ten seconds of the shutdown are the requests' own: until they are   *)
(* over, the store of a request in flight is open, and a clean exit cuts   *)
(* no request off.                                                         *)
GraceHonoured ==
  /\ \A r \in Reqs : at[r] # None => (store \/ graceOver)
  /\ (lastExit # None /\ cut /\ lastExit.code = 0) => lastExit.grace

(* A signal, and a public listener that cannot bind ("fatal, like the SSH  *)
(* intake"), end the process, even if a request never does.                *)
StopEndsProcess ==
  (ctx = "cancelled" \/ \E s \in Intakes : lsn[s] = "failed") ~> pc = "down"
=============================================================================

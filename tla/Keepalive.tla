----------------------------- MODULE Keepalive -----------------------------
(***************************************************************************)
(* The keepalive loop of one SSH connection (sshd/server.go, keepalive and *)
(* sendKeepalive) against a client that answers promptly, late or never.   *)
(*                                                                         *)
(* Every tick of the loop starts a goroutine that sends a request with     *)
(* wantReply and waits for its answer without a deadline; the loop waits   *)
(* for that goroutine for one interval only.  Answers to SSH global        *)
(* requests carry no number, so the library sends the next request only    *)
(* after the answer to the previous one: a request the loop has given up   *)
(* on still keeps its successors from being written, and a late answer     *)
(* goes to the request it belongs to.                                      *)
(*                                                                         *)
(* Time is discrete.  The goroutines react at once compared with an        *)
(* interval of 30 s: Elapse waits while one of them has something to do.   *)
(***************************************************************************)
EXTENDS Integers

CONSTANTS
  Interval,   \* KeepaliveInterval
  Delay,      \* the age at which a healthy client has answered a request
  MaxLapse,   \* the same for the odd answer that comes late
  Spacing     \* the least time between two late answers of a healthy client

ASSUME KeepaliveAssumption ==
  /\ Interval \in Nat \ {0}
  /\ Delay \in Nat /\ MaxLapse \in Nat /\ Spacing \in Nat

VARIABLES
  phase,      \* the loop: in its select, in sendKeepalive, or returned
  misses,     \* consecutive failed keepalives
  tick,       \* a tick waits in the ticker's channel, which holds one
  due,        \* time to the next tick
  left,       \* time to the end of the interval sendKeepalive waits
  mine,       \* the request of the current sendKeepalive
  stale,      \* requests given up on whose goroutines still wait
  age,        \* time since the oldest outstanding request was written
  open,       \* the connection's transport is open
  running,    \* the context of the loop has not been cancelled
  path,       \* whether the client can still be reached
  lapsing,    \* the oldest outstanding request is being answered late
  quiet,      \* time since the last late answer, up to Spacing
  silence     \* time since the last answer, up to DeadAfter + 1

loopVars == <<phase, misses, left>>
clientVars == <<path, lapsing, quiet, silence>>
vars == <<loopVars, tick, due, mine, stale, age, open, running, clientVars>>

MaxMisses == 3

(* The last answer may come just after a tick; the keepalives of the next  *)
(* three ticks then fail, one interval each.                               *)
DeadAfter == (MaxMisses + 1) * Interval

Init ==
  /\ phase = "select" /\ misses = 0 /\ left = 0
  /\ tick = FALSE /\ due = Interval
  /\ mine = "none" /\ stale = 0 /\ age = 0
  /\ open = TRUE /\ running = TRUE
  /\ path = "up" /\ lapsing = FALSE /\ quiet = Spacing /\ silence = 0

Outstanding == stale + (IF mine = "waiting" THEN 1 ELSE 0)

-----------------------------------------------------------------------------
(* The loop. *)

(* case <-t.C: the goroutine is started; its request is written at once if *)
(* no other is outstanding.                                                *)
SendKeepalive ==
  /\ phase = "select" /\ tick
  /\ phase' = "sending" /\ tick' = FALSE
  /\ left' = Interval
  /\ mine' = "waiting"
  /\ age' = IF stale = 0 THEN 0 ELSE age
  /\ UNCHANGED <<misses, due, stale, open, running, clientVars>>

CountMiss(n) == n + 1

(* Mutant: the connection is closed on the fourth failure only. *)
MissedFourth ==
  /\ misses' = CountMiss(misses)
  /\ phase' = IF misses' > MaxMisses THEN "ended" ELSE "select"
  /\ open' = (open /\ misses' <= MaxMisses)

(* The third consecutive failure closes the connection and ends the loop.  *)
Missed ==
  /\ misses' = CountMiss(misses)
  /\ phase' = IF misses' >= MaxMisses THEN "ended" ELSE "select"
  /\ open' = (open /\ misses' < MaxMisses)

(* Mutant: an answered keepalive does not clear the counter. *)
KeepMisses == UNCHANGED misses

ResetMisses == misses' = 0

(* case err := <-done. *)
Answered ==
  /\ phase = "sending" /\ mine = "answered"
  /\ ResetMisses
  /\ phase' = "select" /\ mine' = "none"
  /\ UNCHANGED <<left, tick, due, stale, age, open, running, clientVars>>

Failed ==
  /\ phase = "sending" /\ mine = "failed"
  /\ Missed
  /\ mine' = "none"
  /\ UNCHANGED <<left, tick, due, stale, age, running, clientVars>>

(* case <-time.After(interval).  An answer that arrives in the same        *)
(* instant may lose: select chooses.                                       *)
TimedOut ==
  /\ phase = "sending" /\ left = 0
  /\ Missed
  /\ stale' = Outstanding
  /\ mine' = "none"
  /\ UNCHANGED <<left, tick, due, age, running, clientVars>>

(* case <-ctx.Done(), seen only between two keepalives. *)
Cancelled ==
  /\ phase = "select" /\ ~running
  /\ phase' = "ended"
  /\ UNCHANGED <<misses, left, tick, due, mine, stale, age, open, running,
                 clientVars>>

-----------------------------------------------------------------------------
(* The requests and the connection. *)

(* Mutant: an unbuffered channel, from which nobody receives any more. *)
GoroutineBlocks(n) == n

(* A late result goes into a channel with room for it: the goroutine ends. *)
GoroutineEnds(n) == n - 1

(* The client answers the oldest request, and the next one is written. *)
Answer ==
  /\ open /\ path = "up" /\ Outstanding > 0
  /\ IF stale > 0
     THEN stale' = GoroutineEnds(stale) /\ UNCHANGED mine
     ELSE mine' = "answered" /\ UNCHANGED stale
  /\ age' = 0
  /\ silence' = 0 /\ lapsing' = FALSE
  /\ quiet' = IF lapsing THEN 0 ELSE quiet
  /\ UNCHANGED <<loopVars, tick, due, open, running, path>>

(* On a closed connection every SendRequest returns an error. *)
RequestFails ==
  /\ ~open
  /\ \/ stale > 0 /\ stale' = GoroutineEnds(stale) /\ UNCHANGED mine
     \/ mine = "waiting" /\ mine' = "failed" /\ UNCHANGED stale
  /\ age' = 0 /\ lapsing' = FALSE
  /\ UNCHANGED <<loopVars, tick, due, open, running, path, quiet, silence>>

(* The client, a takeover or Teardown closes the connection. *)
Disconnect ==
  /\ open /\ open' = FALSE
  /\ UNCHANGED <<loopVars, tick, due, mine, stale, age, running, clientVars>>

(* The request channel of a closed connection ends, handleConn returns. *)
HandleConnReturns ==
  /\ ~open /\ running
  /\ running' = FALSE
  /\ UNCHANGED <<loopVars, tick, due, mine, stale, age, open, clientVars>>

(* The daemon shuts down: sessions stay open, their context is cancelled.  *)
Shutdown ==
  /\ open /\ running
  /\ running' = FALSE
  /\ UNCHANGED <<loopVars, tick, due, mine, stale, age, open, clientVars>>

PathLost ==
  /\ path = "up" /\ path' = "down" /\ lapsing' = FALSE
  /\ UNCHANGED <<loopVars, tick, due, mine, stale, age, open, running, quiet,
                 silence>>

Lapse ==
  /\ open /\ path = "up" /\ ~lapsing
  /\ Outstanding > 0 /\ quiet >= Spacing
  /\ lapsing' = TRUE
  /\ UNCHANGED <<loopVars, tick, due, mine, stale, age, open, running, path,
                 quiet, silence>>

-----------------------------------------------------------------------------
LoopReady ==
  \/ phase = "select" /\ (tick \/ ~running)
  \/ phase = "sending" /\ (left = 0 \/ mine \in {"answered", "failed"})

(* A healthy client answers within Delay, or MaxLapse when it lapses. *)
AnswerDue ==
  /\ open /\ path = "up" /\ Outstanding > 0
  /\ age >= IF lapsing THEN MaxLapse ELSE Delay

UpTo(n, bound) == IF n < bound THEN n + 1 ELSE n

Elapse ==
  /\ ~LoopReady /\ ~AnswerDue
  /\ open \/ (Outstanding = 0 /\ ~running)
  /\ phase # "ended"
  /\ due' = IF due = 1 THEN Interval ELSE due - 1
  /\ tick' = (tick \/ due = 1)
  /\ left' = IF left > 0 THEN left - 1 ELSE 0
  /\ age' = IF Outstanding > 0 /\ path = "up" THEN age + 1 ELSE age
  /\ quiet' = UpTo(quiet, Spacing)
  /\ silence' = UpTo(silence, DeadAfter + 1)
  /\ UNCHANGED <<phase, misses, mine, stale, open, running, path, lapsing>>

Done ==
  /\ phase = "ended" /\ Outstanding = 0 /\ ~open /\ ~running
  /\ UNCHANGED vars

Loop == SendKeepalive \/ Answered \/ Failed \/ TimedOut \/ Cancelled

Next ==
  \/ Loop \/ Answer \/ RequestFails \/ Disconnect \/ HandleConnReturns
  \/ Shutdown \/ PathLost \/ Lapse \/ Elapse \/ Done

(* Goroutines run and time passes; no client has to answer. *)
Fairness ==
  /\ WF_vars(Loop) /\ WF_vars(RequestFails) /\ WF_vars(HandleConnReturns)
  /\ WF_vars(Elapse)

Spec == Init /\ [][Next]_vars /\ Fairness

-----------------------------------------------------------------------------
TypeOK ==
  /\ phase \in {"select", "sending", "ended"}
  /\ misses \in 0 .. MaxMisses
  /\ tick \in BOOLEAN /\ due \in 1 .. Interval /\ left \in 0 .. Interval
  /\ mine \in {"none", "waiting", "answered", "failed"}
  /\ stale \in Nat /\ age \in Nat
  /\ open \in BOOLEAN /\ running \in BOOLEAN
  /\ path \in {"up", "down"} /\ lapsing \in BOOLEAN
  /\ quiet \in 0 .. Spacing /\ silence \in 0 .. DeadAfter + 1

(* Keepalive goroutines do not pile up over late answers: a request given  *)
(* up on is outstanding only as long as its miss is counted, because an    *)
(* answer to a later request can only follow its own.                      *)
GoroutinesBounded == stale <= misses

(* "closes the connection after three consecutive failures so dead NAT     *)
(* bindings are reaped": a connection is never kept open beyond four       *)
(* intervals of silence, whatever was answered late before.                *)
ReapedInTime == (open /\ phase # "ended") => silence <= DeadAfter

(* Three failures are needed because answers may be late: a client that    *)
(* answers in time but for the odd late answer is never hung up, although  *)
(* one late answer delays the requests behind it.                          *)
HealthyKept ==
  [][(open /\ path = "up" /\ ~open') => misses' < MaxMisses]_vars

(* Once the connection is closed, by whomever, the loop and every          *)
(* goroutine it started end, the ones whose answer came too late included. *)
KeepaliveEnds == ~open ~> (phase = "ended" /\ Outstanding = 0)
=============================================================================

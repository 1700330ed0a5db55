--------------------------- MODULE SettingsProofs ---------------------------
(***************************************************************************)
(* Proofs about Settings, for any width of the integers and any length of  *)
(* a second, the real ones included.                                       *)
(***************************************************************************)
EXTENDS Settings, TLAPS

(* A result that fits is not changed. *)
LEMMA WrapFits ==
  ASSUME NEW x \in Word
  PROVE  Wrap(x) = x
<1>. DEFINE n == 2 * (MaxInt + 1)
            y == x - MinInt
<1>1. n \in Nat /\ n > 0 /\ y \in Nat /\ y < n
  BY WordsAssumption DEF Word, MinInt
<1>2. y % n = y
  <2>. HIDE DEF n, y
  <2>. QED  BY <1>1
<1>3. (y % n) + MinInt = x
  BY <1>2, WordsAssumption DEF Word, MinInt
<1>. QED  BY <1>3 DEF Wrap

(* Wrapping yields a word. *)
LEMMA WrapWord ==
  ASSUME NEW x \in Int
  PROVE  Wrap(x) \in Word
<1>. DEFINE n == 2 * (MaxInt + 1)
            y == x - MinInt
<1>1. n \in Nat /\ n > 0 /\ y \in Int /\ n = MaxInt - MinInt + 1
  BY WordsAssumption DEF MinInt
<1>2. y % n \in 0 .. n - 1
  <2>. HIDE DEF n, y
  <2>. QED  BY <1>1
<1>. QED  BY <1>1, <1>2, WordsAssumption DEF Wrap, Word, MinInt

(* A product of no more than what fits, fits. *)
LEMMA ProductFits ==
  ASSUME NEW s \in Nat, NEW max \in Nat, s <= max, max * Second <= MaxInt
  PROVE  s * Second \in Word
<1>1. Second \in Nat /\ MaxInt \in Nat
  BY WordsAssumption
<1>2. s * Second \in Nat
  BY <1>1
<1>3. max = s + (max - s) /\ max - s \in Nat
  OBVIOUS
<1>4. max * Second = s * Second + (max - s) * Second /\ (max - s) * Second \in Nat
  BY <1>1, <1>3
<1>. QED  BY <1>1, <1>2, <1>4 DEF Word, MinInt

LEMMA DurationWord ==
  ASSUME NEW s \in Word
  PROVE  Duration(s) \in Word
<1>1. s * Second \in Int
  BY WordsAssumption DEF Word, MinInt
<1>. QED  BY <1>1, WrapWord DEF Duration

LEMMA DurationFits ==
  ASSUME NEW s \in Nat, NEW max \in Nat, s <= max, max * Second <= MaxInt
  PROVE  Duration(s) = s * Second
BY ProductFits, WrapFits DEF Duration

(* What Load has checked of a configuration in force. *)
Accepted ==
  /\ tunnel # None =>
       /\ 1 <= tunnel.lo /\ tunnel.lo <= tunnel.hi /\ tunnel.hi <= MaxPort
       /\ 1 <= tunnel.min /\ tunnel.min <= tunnel.max
       /\ tunnel.visitors >= 1 /\ tunnel.attempts >= 1 /\ tunnel.window >= 1
  /\ egress # None =>
       /\ 1 <= egress.default /\ egress.default <= egress.maximum
       /\ egress.request >= 1 /\ egress.response >= 1

(* The checks are made of what is then in force, and that is words. *)
LEMMA TunnelUsable ==
  ASSUME NEW e \in TunnelEnvs, ValidTunnel(TunnelConfig(e)), egress' = None
  PROVE  /\ TunnelConfig(e) \in TunnelConfigs
         /\ tunnel' = TunnelConfig(e) => Accepted'
<1>. DEFINE c == TunnelConfig(e)
<1>1. /\ getenvInt(e.min, DefMin) \in Word /\ getenvInt(e.max, DefMax) \in Word
      /\ getenvInt(e.visitors, DefVisitors) \in Word
      /\ getenvInt(e.attempts, DefAttempts) \in Word
      /\ getenvInt(e.window, DefWindow) \in Word
  BY SettingsAssumption DEF getenvInt
<1>2. Duration(getenvInt(e.window, DefWindow)) \in Word
  BY <1>1, DurationWord
<1>3. c.lo \in Word /\ c.hi \in Word /\ 1 <= c.lo /\ c.lo <= c.hi /\ c.hi <= MaxPort
  <2>1. c.lo = e.lo /\ c.hi = e.hi /\ e.lo \in Int /\ e.hi \in Int
    BY SettingsAssumption DEF TunnelConfig, TunnelEnvs
  <2>2. parsePortRange(c.lo, c.hi)
    BY DEF ValidTunnel
  <2>. HIDE DEF c
  <2>. QED
    BY <2>1, <2>2, SettingsAssumption, WordsAssumption
    DEF parsePortRange, Word, MinInt
<1>4. c \in TunnelConfigs
  BY <1>1, <1>2, <1>3 DEF TunnelConfig, TunnelConfigs
<1>5. /\ c.min > 0 /\ c.max >= c.min /\ c.visitors > 0
      /\ c.attempts > 0 /\ c.window > 0
  BY DEF ValidTunnel
<1>6. tunnel' = c => Accepted'
  <2>. HIDE DEF c
  <2>. QED
    BY <1>3, <1>4, <1>5, WordsAssumption
    DEF Accepted, TunnelConfigs, Word, MinInt
<1>. QED  BY <1>4, <1>6

LEMMA EgressUsable ==
  ASSUME NEW e \in EgressEnvs, ValidEgress(EgressConfig(e)), tunnel' = None
  PROVE  /\ EgressConfig(e) \in EgressConfigs
         /\ egress' = EgressConfig(e) => Accepted'
<1>. DEFINE c == EgressConfig(e)
<1>1. /\ getenvInt(e.default, DefDefault) \in Word
      /\ getenvInt(e.maximum, DefMaximum) \in Word
      /\ getenvInt(e.request, DefBytes) \in Word
      /\ getenvInt(e.response, DefBytes) \in Word
  BY SettingsAssumption DEF getenvInt
<1>2. c \in EgressConfigs
  BY <1>1, DurationWord DEF EgressConfig, EgressConfigs
<1>3. /\ c.request > 0 /\ c.response > 0
      /\ c.maximum > 0 /\ c.default > 0 /\ c.default <= c.maximum
  BY DEF ValidEgress
<1>4. egress' = c => Accepted'
  <2>. HIDE DEF c
  <2>. QED
    BY <1>2, <1>3, WordsAssumption DEF Accepted, EgressConfigs, Word, MinInt
<1>. QED  BY <1>2, <1>4

(* clampDuration of a positive number, if the upper bound is a duration.   *)
LEMMA ClampExact ==
  ASSUME tunnel \in TunnelConfigs, Accepted, tunnel # None,
         NEW s \in Word, s > 0, tunnel.max * Second <= MaxInt
  PROVE  /\ s < tunnel.min => clampDuration(s) = tunnel.min * Second
         /\ s > tunnel.max => clampDuration(s) = tunnel.max * Second
         /\ s \in tunnel.min .. tunnel.max => clampDuration(s) = s * Second
<1>1. /\ s \in Nat /\ tunnel.min \in Nat /\ tunnel.max \in Nat
      /\ tunnel.min <= tunnel.max
  BY WordsAssumption DEF TunnelConfigs, Accepted, Word, MinInt
<1>2. \A t \in Nat : t <= tunnel.max => Duration(t) = t * Second
  BY <1>1, DurationFits
<1>3. CASE s < tunnel.min
  <2>1. clampDuration(s) = Duration(tunnel.min)
    BY <1>1, <1>3 DEF clampDuration
  <2>. QED  BY <1>1, <1>2, <1>3, <2>1
<1>4. CASE s > tunnel.max
  <2>1. clampDuration(s) = Duration(tunnel.max)
    BY <1>1, <1>4 DEF clampDuration
  <2>. QED  BY <1>1, <1>2, <1>4, <2>1
<1>5. CASE s \in tunnel.min .. tunnel.max
  <2>1. clampDuration(s) = Duration(s)
    BY <1>1, <1>5 DEF clampDuration
  <2>. QED  BY <1>1, <1>2, <1>5, <2>1
<1>. QED  BY <1>1, <1>3, <1>4, <1>5

(* What is sold is at least a second, and what is granted is what is sold. *)
LEMMA SaleExact ==
  ASSUME tunnel \in TunnelConfigs, Accepted, tunnel # None, NEW s \in Word, s > 0
  PROVE  /\ Within(s) \in Nat /\ Within(s) >= 1
         /\ MaxIsDuration => clampDuration(s) = Within(s) * Second
<1>1. /\ s \in Nat /\ tunnel.min \in Nat /\ tunnel.max \in Nat
      /\ 1 <= tunnel.min /\ tunnel.min <= tunnel.max
  BY WordsAssumption DEF TunnelConfigs, Accepted, Word, MinInt
<1>2. Within(s) \in Nat /\ Within(s) >= 1
  BY <1>1 DEF Within
<1>3. ASSUME MaxIsDuration PROVE clampDuration(s) = Within(s) * Second
  <2>1. tunnel.max * Second <= MaxInt
    BY <1>3 DEF MaxIsDuration
  <2>2. /\ s < tunnel.min => clampDuration(s) = tunnel.min * Second
        /\ s > tunnel.max => clampDuration(s) = tunnel.max * Second
        /\ s \in tunnel.min .. tunnel.max => clampDuration(s) = s * Second
    BY <2>1, ClampExact
  <2>3. /\ s < tunnel.min => Within(s) = tunnel.min
        /\ s > tunnel.max => Within(s) = tunnel.max
        /\ s \in tunnel.min .. tunnel.max => Within(s) = s
    BY <1>1 DEF Within
  <2>. QED  BY <1>1, <2>2, <2>3
<1>. QED  BY <1>2, <1>3

(* One more sale of a lease, by whatever configuration is in force.        *)
LEMMA LendKeeps ==
  ASSUME tunnel \in TunnelConfigs, Accepted, tunnel # None,
         lease \in Leases \cup {None}, SoldTimeKept, NEW s \in Word, s > 0, Lend(s)
  PROVE  lease' \in Leases /\ SoldTimeKept'
<1>. DEFINE l == IF lease = None THEN Unsold ELSE lease
            d == clampDuration(s)
            w == Within(s)
<1>1. /\ l \in Leases
      /\ l.exact => l.expires = l.sold * Second /\ l.sold >= l.sales
  <2>1. CASE lease = None
    BY <2>1, WordsAssumption DEF Unsold, Leases
  <2>2. CASE lease # None
    BY <2>2 DEF SoldTimeKept
  <2>. QED  BY <2>1, <2>2
<1>2. lease' = [expires |-> l.expires + d, sales |-> l.sales + 1,
                sold |-> l.sold + w, exact |-> l.exact /\ MaxIsDuration]
  BY DEF Lend, Prolonged
<1>3. w \in Nat /\ w >= 1 /\ (MaxIsDuration => d = w * Second)
  BY SaleExact
<1>4. d \in Int
  <2>1. d \in Word
    BY DurationWord DEF clampDuration, TunnelConfigs
  <2>. QED  BY <2>1, WordsAssumption DEF Word, MinInt
<1>. HIDE DEF l, d, w
<1>5. l.expires \in Int /\ l.sales \in Nat /\ l.sold \in Int /\ l.exact \in BOOLEAN
  BY <1>1 DEF Leases
<1>6. lease' \in Leases
  <2>1. l.expires + d \in Int /\ l.sales + 1 \in Nat /\ l.sold + w \in Int
    BY <1>3, <1>4, <1>5
  <2>2. (l.exact /\ MaxIsDuration) \in BOOLEAN
    OBVIOUS
  <2>. HIDE DEF MaxIsDuration
  <2>. QED  BY <1>2, <2>1, <2>2, Zenon DEF Leases
<1>7. ASSUME lease'.exact
      PROVE  lease'.expires = lease'.sold * Second /\ lease'.sold >= lease'.sales
  <2>1. l.exact /\ MaxIsDuration
    BY <1>2, <1>7, Zenon
  <2>2. /\ l.expires = l.sold * Second /\ d = w * Second
        /\ l.sold >= l.sales /\ w >= 1
    BY <1>1, <1>3, <2>1
  <2>3. l.expires + d = (l.sold + w) * Second
    BY <1>3, <1>5, <2>2, WordsAssumption
  <2>4. l.sold + w >= l.sales + 1
    BY <1>3, <1>5, <2>2
  <2>. QED  BY <1>2, <2>3, <2>4
<1>. QED  BY <1>6, <1>7 DEF SoldTimeKept

(* The timeout of a request, whether its product wraps or not.             *)
LEMMA TimeoutExact ==
  ASSUME egress \in EgressConfigs, Accepted, egress # None, NEW s \in Word
  PROVE  /\ timeout(s) <= egress.maximum
         /\ (s > 0 /\ s * Second <= MaxInt) =>
              /\ timeout(s) \in {s * Second, egress.maximum}
              /\ timeout(s) <= s * Second
         /\ s <= 0 => timeout(s) = egress.default
<1>1. /\ egress.default \in Int /\ egress.maximum \in Int /\ s \in Int
      /\ egress.default <= egress.maximum
  BY WordsAssumption DEF EgressConfigs, Accepted, Word, MinInt
<1>2. Duration(s) \in Int
  BY DurationWord, WordsAssumption DEF Word, MinInt
<1>3. timeout(s) <= egress.maximum
  BY <1>1, <1>2 DEF timeout
<1>4. ASSUME s > 0, s * Second <= MaxInt
      PROVE  /\ timeout(s) \in {s * Second, egress.maximum}
             /\ timeout(s) <= s * Second
  <2>1. Duration(s) = s * Second
    BY <1>1, <1>4, DurationFits
  <2>. QED  BY <1>1, <1>2, <1>4, <2>1 DEF timeout
<1>5. ASSUME s <= 0 PROVE timeout(s) = egress.default
  BY <1>1, <1>5 DEF timeout
<1>. QED  BY <1>3, <1>4, <1>5

(* What a limited reader reads, if the limit leaves room for a byte more.  *)
LEMMA ReadExact ==
  ASSUME NEW n \in Nat, NEW limit \in Nat, limit < MaxInt
  PROVE  readLimited(n, limit) = IF n > limit THEN limit + 1 ELSE n
<1>1. limit + 1 \in Word
  BY WordsAssumption DEF Word, MinInt
<1>2. Wrap(limit + 1) = limit + 1
  BY <1>1, WrapFits
<1>. QED  BY <1>2 DEF readLimited

LEMMA DecodeExact ==
  ASSUME NEW n \in Nat, n > 0, egress \in EgressConfigs, Accepted,
         egress # None, Decode(n)
  PROVE  LimitsExact'
<1>1. /\ egress.request \in Nat /\ Overhead \in Nat /\ egress.request >= 1
  BY SettingsAssumption, WordsAssumption DEF EgressConfigs, Accepted, Word, MinInt
<1>2. SUFFICES ASSUME egress.request + Overhead < MaxInt
               PROVE  last'.out <=> n <= egress.request + Overhead
  BY DEF Decode, LimitsExact, Last
<1>. DEFINE limit == egress.request + Overhead
<1>3. limit \in Nat /\ limit \in Word /\ limit < MaxInt
  BY <1>1, <1>2, WordsAssumption DEF Word, MinInt
<1>4. Wrap(limit) = limit
  BY <1>3, WrapFits
<1>5. last'.out <=> (0 < readLimited(n, limit) /\ readLimited(n, limit) <= limit)
  BY <1>4, Zenon DEF Decode
<1>6. readLimited(n, limit) = IF n > limit THEN limit + 1 ELSE n
  BY <1>3, ReadExact
<1>. QED  BY <1>3, <1>5, <1>6

LEMMA BuildExact ==
  ASSUME NEW n \in Nat, egress \in EgressConfigs, Accepted,
         egress # None, Build(n)
  PROVE  LimitsExact'
<1>1. egress.response \in Nat
  BY WordsAssumption DEF EgressConfigs, Accepted, Word, MinInt
<1>2. SUFFICES ASSUME egress.response < MaxInt
               PROVE  /\ last'.truncated <=> n > egress.response
                      /\ last'.out = IF last'.truncated THEN egress.response ELSE n
  BY DEF Build, LimitsExact, Last
<1>3. readLimited(n, egress.response)
        = IF n > egress.response THEN egress.response + 1 ELSE n
  BY <1>1, <1>2, ReadExact
<1>4. last'.truncated <=> readLimited(n, egress.response) > egress.response
  BY Zenon DEF Build
<1>5. last'.out = IF last'.truncated THEN egress.response
                  ELSE readLimited(n, egress.response)
  BY Zenon DEF Build
<1>. QED  BY <1>1, <1>3, <1>4, <1>5

(* The inductive invariant: the properties, of a configuration in force,   *)
(* of the last computation made under it, and of the lease.                *)
SettingsInv ==
  /\ tunnel \in TunnelConfigs \cup {None} /\ egress \in EgressConfigs \cup {None}
  /\ Stopped => last = None
  /\ lease \in Leases \cup {None} /\ SoldTimeKept
  /\ Accepted /\ GrantClamped /\ TimeoutInForce /\ LimitsExact

LEMMA NothingYet ==
  ASSUME last = None
  PROVE  GrantClamped /\ TimeoutInForce /\ LimitsExact
BY DEF GrantClamped, TimeoutInForce, LimitsExact, Last

LEMMA SettingsStep == SettingsInv /\ [Next]_vars => SettingsInv'
<1>. SUFFICES ASSUME SettingsInv, [Next]_vars PROVE SettingsInv'
  OBVIOUS
<1>0. last' = None => GrantClamped' /\ TimeoutInForce' /\ LimitsExact'
  BY DEF GrantClamped, TimeoutInForce, LimitsExact, Last
<1>a. UNCHANGED lease => lease' \in Leases \cup {None} /\ SoldTimeKept'
  BY DEF SettingsInv, SoldTimeKept
<1>1. ASSUME Stopped, NEW e \in TunnelEnvs, LoadTunnel(e) PROVE SettingsInv'
  <2>1. /\ tunnel' = TunnelConfig(e) /\ egress' = None /\ last' = None
        /\ UNCHANGED lease /\ ValidTunnel(TunnelConfig(e))
    BY <1>1 DEF LoadTunnel, Stopped, SettingsInv
  <2>2. TunnelConfig(e) \in TunnelConfigs /\ Accepted'
    BY <2>1, TunnelUsable
  <2>. QED  BY <1>0, <1>a, <2>1, <2>2 DEF SettingsInv, Stopped
<1>2. ASSUME Stopped, NEW e \in EgressEnvs, LoadEgress(e) PROVE SettingsInv'
  <2>1. /\ egress' = EgressConfig(e) /\ tunnel' = None /\ last' = None
        /\ UNCHANGED lease /\ ValidEgress(EgressConfig(e))
    BY <1>2 DEF LoadEgress, Stopped, SettingsInv
  <2>2. EgressConfig(e) \in EgressConfigs /\ Accepted'
    BY <2>1, EgressUsable
  <2>. QED  BY <1>0, <1>a, <2>1, <2>2 DEF SettingsInv, Stopped
<1>3. ASSUME UNCHANGED <<tunnel, egress>>, ~Stopped,
             lease' \in Leases \cup {None}, SoldTimeKept',
             GrantClamped', TimeoutInForce', LimitsExact'
      PROVE  SettingsInv'
  BY <1>3 DEF SettingsInv, Accepted, Stopped
<1>4. ASSUME NEW s \in LeaseGiven, Lend(s) PROVE SettingsInv'
  <2>1. /\ tunnel \in TunnelConfigs /\ tunnel # None /\ Accepted
        /\ s \in Word /\ s > 0 /\ UNCHANGED <<tunnel, egress>> /\ ~Stopped
        /\ last' = [of |-> "lease", in |-> s, out |-> clampDuration(s)]
    BY <1>4 DEF Lend, SettingsInv, Stopped
  <2>2. GrantClamped'
    BY <2>1, ClampExact DEF GrantClamped, MaxIsDuration
  <2>3. TimeoutInForce' /\ LimitsExact'
    BY <2>1 DEF TimeoutInForce, LimitsExact, Last
  <2>4. lease' \in Leases /\ SoldTimeKept'
    BY <1>4, <2>1, LendKeeps DEF SettingsInv
  <2>. QED  BY <1>3, <2>1, <2>2, <2>3, <2>4
<1>5. ASSUME NEW s \in EgressGiven, Timeout(s) PROVE SettingsInv'
  <2>1. /\ egress \in EgressConfigs /\ egress # None /\ Accepted
        /\ s \in Word /\ UNCHANGED <<tunnel, egress, lease>> /\ ~Stopped
        /\ last' = [of |-> "timeout", in |-> s, out |-> timeout(s)]
    BY <1>5 DEF Timeout, SettingsInv, Stopped
  <2>2. TimeoutInForce'
    BY <2>1, TimeoutExact DEF TimeoutInForce
  <2>3. GrantClamped' /\ LimitsExact'
    BY <2>1 DEF GrantClamped, LimitsExact, Last
  <2>. QED  BY <1>3, <1>a, <2>1, <2>2, <2>3
<1>6. ASSUME NEW n \in Lengths, Decode(n) PROVE SettingsInv'
  <2>1. /\ egress \in EgressConfigs /\ egress # None /\ Accepted
        /\ n \in Nat /\ n > 0 /\ UNCHANGED <<tunnel, egress, lease>> /\ ~Stopped
        /\ last'.of = "request"
    BY <1>6, SettingsAssumption DEF Decode, SettingsInv, Stopped
  <2>2. LimitsExact'
    BY <1>6, <2>1, DecodeExact
  <2>3. GrantClamped' /\ TimeoutInForce'
    BY <2>1 DEF GrantClamped, TimeoutInForce, Last
  <2>. QED  BY <1>3, <1>a, <2>1, <2>2, <2>3
<1>7. ASSUME NEW n \in Lengths, Build(n) PROVE SettingsInv'
  <2>1. /\ egress \in EgressConfigs /\ egress # None /\ Accepted
        /\ n \in Nat /\ UNCHANGED <<tunnel, egress, lease>> /\ ~Stopped
        /\ last'.of = "response"
    BY <1>7, SettingsAssumption DEF Build, SettingsInv, Stopped
  <2>2. LimitsExact'
    BY <1>7, <2>1, BuildExact
  <2>3. GrantClamped' /\ TimeoutInForce'
    BY <2>1 DEF GrantClamped, TimeoutInForce, Last
  <2>. QED  BY <1>3, <1>a, <2>1, <2>2, <2>3
<1>8. CASE Stop
  BY <1>0, <1>a, <1>8 DEF Stop, SettingsInv, Accepted
<1>9. CASE Remove
  <2>1. UNCHANGED <<tunnel, egress, last>> /\ ~Stopped /\ lease' = None
    BY <1>9 DEF Remove, Stopped
  <2>2. GrantClamped' /\ TimeoutInForce' /\ LimitsExact'
    BY <2>1 DEF SettingsInv, GrantClamped, TimeoutInForce, LimitsExact, Last,
       MaxIsDuration
  <2>3. SoldTimeKept'
    BY <2>1 DEF SoldTimeKept
  <2>. QED  BY <1>3, <2>1, <2>2, <2>3
<1>10. CASE UNCHANGED vars
  <2>1. UNCHANGED <<tunnel, egress, last, lease>>
    BY <1>10 DEF vars
  <2>2. GrantClamped' /\ TimeoutInForce' /\ LimitsExact'
    BY <2>1 DEF SettingsInv, GrantClamped, TimeoutInForce, LimitsExact, Last,
       MaxIsDuration
  <2>. QED  BY <1>a, <2>1, <2>2 DEF SettingsInv, Accepted, Stopped
<1>. QED  BY <1>1, <1>2, <1>4, <1>5, <1>6, <1>7, <1>8, <1>9, <1>10 DEF Next

LEMMA SettingsInit == Init => SettingsInv
BY NothingYet DEF Init, SettingsInv, Accepted, SoldTimeKept

(* However often a lease is extended, and under whichever configurations,  *)
(* it runs for exactly the seconds sold, and every sale adds to them, if   *)
(* MaxLeaseSeconds was a duration at each sale.                            *)
THEOREM SalesAreKept == Spec => []SoldTimeKept
<1>1. SettingsInv => SoldTimeKept
  BY DEF SettingsInv
<1>. QED  BY <1>1, SettingsInit, SettingsStep, PTL DEF Spec

(* If MaxLeaseSeconds is a duration, no request makes a product wrap, and  *)
(* what is granted is what was asked for, brought within the bounds.       *)
THEOREM GrantsAreClamped == Spec => []GrantClamped
<1>1. SettingsInv => GrantClamped
  BY DEF SettingsInv
<1>. QED  BY <1>1, SettingsInit, SettingsStep, PTL DEF Spec

(* No egress request gets more time than MaxTimeout, although its seconds  *)
(* are compared only after they may have wrapped.                          *)
THEOREM TimeoutsAreInForce == Spec => []TimeoutInForce
<1>1. SettingsInv => TimeoutInForce
  BY DEF SettingsInv
<1>. QED  BY <1>1, SettingsInit, SettingsStep, PTL DEF Spec

(* Requests are refused and responses marked exactly at their limits, as   *)
(* long as a byte more than the limit is a number.                         *)
THEOREM LimitsAreExact == Spec => []LimitsExact
<1>1. SettingsInv => LimitsExact
  BY DEF SettingsInv
<1>. QED  BY <1>1, SettingsInit, SettingsStep, PTL DEF Spec

(* What Load and the computations yield are words, and lengths are natural *)
(* numbers (getenvInt falls back on what does not fit).                    *)
THEOREM SettingsTypes == Spec => []TypeOK
<1>1. Init => TypeOK
  BY DEF Init, TypeOK, Last
<1>2. SettingsInv /\ TypeOK /\ [Next]_vars => (SettingsInv' => TypeOK')
  <2>. SUFFICES ASSUME SettingsInv, TypeOK, [Next]_vars, SettingsInv' PROVE TypeOK'
    OBVIOUS
  <2>1. /\ tunnel' \in TunnelConfigs \cup {None} /\ egress' \in EgressConfigs \cup {None}
        /\ lease' \in Leases \cup {None}
    BY DEF SettingsInv
  <2>2. ASSUME NEW s \in LeaseGiven, Lend(s) PROVE TypeOK'
    <3>1. tunnel \in TunnelConfigs /\ s \in Word
      BY <2>2 DEF Lend, SettingsInv
    <3>2. clampDuration(s) \in Word
      BY <3>1, DurationWord DEF clampDuration, TunnelConfigs
    <3>. QED  BY <2>1, <2>2, <3>2 DEF Lend, TypeOK, Last
  <2>3. ASSUME NEW s \in EgressGiven, Timeout(s) PROVE TypeOK'
    <3>1. egress \in EgressConfigs /\ s \in Word
      BY <2>3 DEF Timeout, SettingsInv
    <3>2. timeout(s) \in Word
      BY <3>1, DurationWord DEF timeout, EgressConfigs
    <3>. QED  BY <2>1, <2>3, <3>2 DEF Timeout, TypeOK, Last
  <2>4. ASSUME NEW n \in Lengths, Decode(n) PROVE TypeOK'
    BY <2>1, <2>4 DEF Decode, TypeOK, Last
  <2>5. ASSUME NEW n \in Lengths, Build(n) PROVE TypeOK'
    <3>1. egress.response \in Nat /\ n \in Nat /\ egress.response + 1 \in Int
      BY <2>5, SettingsAssumption, WordsAssumption
      DEF Build, SettingsInv, EgressConfigs, Accepted, Word, MinInt
    <3>2. readLimited(n, egress.response) \in Nat
      BY <3>1, WrapWord, WordsAssumption DEF readLimited, Word, MinInt
    <3>3. last'.of = "response" /\ last'.out \in Nat
      BY <2>5, <3>1, <3>2 DEF Build
    <3>. QED  BY <2>1, <3>3 DEF TypeOK, Last
  <2>6. CASE last' = last
    BY <2>1, <2>6 DEF TypeOK, Last
  <2>7. CASE last' = None
    BY <2>1, <2>7 DEF TypeOK, Last
  <2>. QED
    BY <2>2, <2>3, <2>4, <2>5, <2>6, <2>7 DEF Next, LoadTunnel, LoadEgress, Remove, Stop, vars
<1>. QED  BY <1>1, <1>2, SettingsInit, SettingsStep, PTL DEF Spec
=============================================================================

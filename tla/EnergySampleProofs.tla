-------------------------- MODULE EnergySampleProofs --------------------------
(***************************************************************************)
(* The time conversion and the energy samples, for every uptime, number of *)
(* samples, duration of the steps and of the operations, and power.        *)
(***************************************************************************)
EXTENDS EnergySample, TLAPS

-----------------------------------------------------------------------------
(* Division of natural numbers. *)

LEMMA DivMod ==
  ASSUME NEW x \in Nat, NEW n \in Nat \ {0}
  PROVE  x \div n \in Nat /\ x % n \in 0 .. n - 1 /\ x = (x \div n) * n + (x % n)
<1>1. x \div n \in Nat /\ x % n \in 0 .. n - 1 /\ x % n = x - n * (x \div n)
  OBVIOUS
<1> DEFINE q == x \div n
           r == x % n
<1>2. q \in Nat /\ r \in 0 .. n - 1 /\ r = x - n * q
  BY <1>1
<1> HIDE DEF q, r
<1>3. n * q = q * n /\ n * q \in Nat
  BY <1>2
<1>4. x = q * n + r
  BY <1>2, <1>3
<1> QED
  BY <1>2, <1>4 DEF q, r

LEMMA QuotientAtLeast ==
  ASSUME NEW x \in Nat, NEW n \in Nat \ {0}, NEW k \in Nat, k * n <= x
  PROVE  k <= x \div n
OBVIOUS

LEMMA QuotientOf ==
  ASSUME NEW n \in Nat \ {0}, NEW k \in Nat, NEW r \in 0 .. n - 1
  PROVE  (k * n + r) \div n = k /\ (k * n + r) % n = r
OBVIOUS

LEMMA Times ==
  ASSUME NEW a \in Nat, NEW b \in Nat, NEW n \in Nat
  PROVE  /\ a * n \in Nat /\ a * n = n * a /\ (a + b) * n = a * n + b * n
         /\ a <= b => a * n <= b * n
OBVIOUS

-----------------------------------------------------------------------------
(* Doubles. *)

LEMMA UlpsNat == Ulps \subseteq Nat \ {0}
BY DEF Ulps

LEMMA UlpOf ==
  ASSUME NEW x \in Nat, NEW u \in Ulps, x < u * Exact
  PROVE  /\ Ulp(x) \in Ulps /\ Ulp(x) <= u /\ x < Ulp(x) * Exact
         /\ Ulp(x) = 1 \/ x >= (Ulp(x) \div 2) * Exact
<1>1. \E v \in Ulps : x < v * Exact /\ (v = 1 \/ x >= (v \div 2) * Exact)
  BY ConversionAssumption DEF Ulps
<1>2. /\ Ulp(x) \in Ulps /\ x < Ulp(x) * Exact
      /\ Ulp(x) = 1 \/ x >= (Ulp(x) \div 2) * Exact
  BY <1>1 DEF Ulp
<1>3. \A v \in Ulps : x < v * Exact /\ (v = 1 \/ x >= (v \div 2) * Exact) => v <= u
  BY ConversionAssumption DEF Ulps
<1> QED
  BY <1>2, <1>3

(* The smaller of two distances divides the greater one. *)
LEMMA UlpsDivide ==
  ASSUME NEW u \in Ulps, NEW v \in Ulps, u <= v
  PROVE  /\ \E k \in Nat \ {0} : v = k * u
         /\ u < v => u <= v \div 2 /\ v = 2 * (v \div 2)
<1>1. v = (v \div u) * u /\ v \div u \in Nat \ {0}
  BY DEF Ulps
<1>2. u < v => u <= v \div 2 /\ v = 2 * (v \div 2)
  BY DEF Ulps
<1> QED
  BY <1>1, <1>2

LEMMA RoundToBounds ==
  ASSUME NEW x \in Nat, NEW u \in Nat \ {0}
  PROVE  /\ RoundTo(x, u) \in Nat
         /\ 2 * RoundTo(x, u) <= 2 * x + u /\ 2 * x <= 2 * RoundTo(x, u) + u
<1> DEFINE q == x \div u
           r == x % u
<1>1. q \in Nat /\ r \in 0 .. u - 1 /\ x = q * u + r
  BY DivMod
<1>2. q * u \in Nat /\ (q + 1) * u = q * u + u
  BY <1>1, Times
<1>3. RoundTo(x, u) = IF 2 * r > u \/ (2 * r = u /\ q % 2 = 1) THEN (q + 1) * u ELSE q * u
  BY DEF RoundTo
<1> HIDE DEF q, r
<1> QED
  BY <1>1, <1>2, <1>3

LEMMA RoundToMultiple ==
  ASSUME NEW k \in Nat, NEW u \in Nat \ {0}
  PROVE  RoundTo(k * u, u) = k * u
<1>1. k * u + 0 = k * u
  BY Times
<1>2. (k * u) \div u = k /\ (k * u) % u = 0
  BY <1>1, QuotientOf
<1> QED
  BY <1>2 DEF RoundTo

LEMMA RoundToMonotone ==
  ASSUME NEW x \in Nat, NEW y \in Nat, NEW u \in Nat \ {0}, x <= y
  PROVE  RoundTo(x, u) <= RoundTo(y, u)
<1> DEFINE p == x \div u
           q == y \div u
<1>1. /\ p \in Nat /\ x % u \in 0 .. u - 1 /\ x = p * u + (x % u)
      /\ q \in Nat /\ y % u \in 0 .. u - 1 /\ y = q * u + (y % u)
  BY DivMod
<1>2. p * u \in Nat /\ (p + 1) * u = p * u + u /\ q * u \in Nat /\ (q + 1) * u = q * u + u
  BY <1>1, Times
<1>3. /\ RoundTo(x, u) \in {p * u, (p + 1) * u} /\ RoundTo(y, u) \in {q * u, (q + 1) * u}
  BY DEF RoundTo
<1>4. p <= q
  BY <1>1, <1>2, QuotientAtLeast
<1>5. CASE p = q
  <2>1. x % u <= y % u
    BY <1>1, <1>2, <1>5
  <2>2. RoundTo(x, u) = (p + 1) * u => RoundTo(y, u) = (q + 1) * u
    BY <1>1, <1>2, <1>5, <2>1 DEF RoundTo
  <2> HIDE DEF p, q
  <2> QED
    BY <1>2, <1>3, <1>5, <2>2
<1>6. CASE p < q
  <2>1. (p + 1) * u <= q * u
    BY <1>1, <1>6, Times
  <2> HIDE DEF p, q
  <2> QED
    BY <1>2, <1>3, <2>1
<1> HIDE DEF p, q
<1> QED
  BY <1>1, <1>4, <1>5, <1>6

(* Rounding keeps the order of the times, also of times that are rounded   *)
(* to different distances.                                                 *)
LEMMA RoundMonotone ==
  ASSUME NEW x \in Nat, NEW y \in Nat, NEW w \in Ulps, x <= y, y < w * Exact
  PROVE  Round(x) <= Round(y) /\ Ulp(x) <= Ulp(y)
<1> DEFINE u == Ulp(x)
           v == Ulp(y)
<1>1. v \in Ulps /\ y < v * Exact /\ (v = 1 \/ y >= (v \div 2) * Exact)
  BY UlpOf
<1> HIDE DEF v
<1>2. v * Exact \in Nat /\ x < v * Exact
  <2>1. v \in Nat /\ Exact \in Nat
    BY <1>1, UlpsNat, ConversionAssumption
  <2>2. v * Exact \in Nat
    BY <2>1, Times
  <2> QED
    BY <1>1, <2>2
<1>3. u \in Ulps /\ u <= v /\ x < u * Exact
  BY <1>1, <1>2, UlpOf
<1> HIDE DEF u
<1>4. u \in Nat \ {0} /\ v \in Nat \ {0}
  BY <1>1, <1>3, UlpsNat
<1>5. Round(x) = RoundTo(x, u) /\ Round(y) = RoundTo(y, v)
  BY DEF Round, u, v
<1>6. CASE u = v
  BY <1>3, <1>4, <1>5, <1>6, RoundToMonotone DEF u, v
<1>7. CASE u < v
  <2>1. u <= v \div 2 /\ v = 2 * (v \div 2) /\ v # 1 /\ v \div 2 \in Nat
    BY <1>1, <1>3, <1>4, <1>7, UlpsDivide
  <2>2. Exact = 2 * (Exact \div 2) /\ Exact \div 2 \in Nat
    BY ConversionAssumption
  <2>3. RoundTo(x, u) <= Exact * u
    <3>1. Exact * u \in Nat /\ x <= Exact * u
      BY <1>3, <1>4, Times, ConversionAssumption
    <3> QED
      BY <3>1, <1>4, RoundToMonotone, RoundToMultiple, ConversionAssumption
  <2>4. (Exact \div 2) * v <= RoundTo(y, v)
    <3>1. (Exact \div 2) * v = (v \div 2) * Exact /\ (Exact \div 2) * v \in Nat
      BY <2>1, <2>2
    <3>2. (Exact \div 2) * v <= y
      BY <3>1, <1>1, <2>1
    <3> QED
      BY <3>1, <3>2, <2>2, <1>4, RoundToMonotone, RoundToMultiple
  <2>5. Exact * u <= (Exact \div 2) * v
    BY <1>4, <2>1, <2>2, Times
  <2>6. /\ Exact * u \in Nat /\ (Exact \div 2) * v \in Nat
        /\ RoundTo(x, u) \in Nat /\ RoundTo(y, v) \in Nat
    BY <1>4, <2>2, Times, RoundToBounds, ConversionAssumption
  <2> QED
    BY <1>3, <1>5, <2>3, <2>4, <2>5, <2>6 DEF u, v
<1> QED
  BY <1>3, <1>4, <1>6, <1>7

-----------------------------------------------------------------------------
(* Times in nanoseconds. *)

(* Up to this uptime the seconds that tv_sec * 1e9 converts are exact:     *)
(* 1e9 is a multiple of 512, the distance of the doubles up to 2^62 ns,    *)
(* which are 146 years.                                                    *)
InRange(t) == \E u \in Ulps : t < u * Exact /\ NsPerSec % u = 0

LEMMA InRangeDownwards ==
  ASSUME NEW t \in Nat, NEW x \in Nat, x <= t, InRange(t)
  PROVE  InRange(x)
<1>1. PICK u \in Ulps : t < u * Exact /\ NsPerSec % u = 0
  BY DEF InRange
<1>2. u \in Nat /\ Exact \in Nat /\ u * Exact \in Nat
  BY UlpsNat, ConversionAssumption, Times
<1>3. x < u * Exact
  BY <1>1, <1>2
<1> QED
  BY <1>1, <1>3 DEF InRange

(* The seconds are exact, and the sum is rounded once. *)
LEMMA ExactSeconds ==
  ASSUME NEW t \in Nat, InRange(t)
  PROVE  timespec_to_ns(t) = Round(t)
<1> DEFINE s == tv_sec(t)
           n == tv_nsec(t)
<1>1. s \in Nat /\ n \in 0 .. NsPerSec - 1 /\ t = s * NsPerSec + n
  BY DivMod, ConversionAssumption DEF tv_sec, tv_nsec
<1> HIDE DEF s, n
<1>2. s * NsPerSec \in Nat /\ s * NsPerSec <= t
  BY <1>1, Times, ConversionAssumption
<1>3. PICK w \in Ulps : t < w * Exact /\ NsPerSec % w = 0
  BY DEF InRange
<1> DEFINE u == Ulp(s * NsPerSec)
<1>4. u \in Ulps /\ u <= w
  <2>1. w \in Nat /\ Exact \in Nat /\ w * Exact \in Nat
    BY UlpsNat, ConversionAssumption, Times
  <2>2. s * NsPerSec < w * Exact
    BY <1>2, <1>3, <2>1
  <2> QED
    BY <1>2, <2>2, UlpOf
<1> HIDE DEF u
<1>5. u \in Nat \ {0} /\ w \in Nat \ {0} /\ NsPerSec \in Nat
  BY <1>4, UlpsNat, ConversionAssumption
<1>6. PICK k \in Nat \ {0} : w = k * u
  BY <1>4, UlpsDivide
<1> DEFINE m == NsPerSec \div w
<1>7. m \in Nat /\ NsPerSec = m * w
  <2>1. m \in Nat /\ NsPerSec = m * w + (NsPerSec % w)
    BY <1>5, DivMod
  <2>2. m * w \in Nat
    BY <1>5, <2>1, Times
  <2> QED
    BY <1>3, <2>1, <2>2
<1> HIDE DEF m
<1>8. s * NsPerSec = (s * m * k) * u /\ s * m * k \in Nat
  BY <1>1, <1>5, <1>6, <1>7
<1>9. Round(s * NsPerSec) = s * NsPerSec
  BY <1>5, <1>8, RoundToMultiple DEF Round, u
<1> QED
  BY <1>1, <1>9 DEF timespec_to_ns, s, n

(* A time is off by half the distance of the doubles next to it. *)
LEMMA RoundBounds ==
  ASSUME NEW t \in Nat, InRange(t)
  PROVE  /\ Round(t) \in Nat /\ Ulp(t) \in Nat \ {0}
         /\ 2 * Round(t) <= 2 * t + Ulp(t) /\ 2 * t <= 2 * Round(t) + Ulp(t)
<1>1. PICK w \in Ulps : t < w * Exact
  BY DEF InRange
<1>2. Ulp(t) \in Nat \ {0}
  BY <1>1, UlpOf, UlpsNat
<1> QED
  BY <1>2, RoundToBounds DEF Round

(* Two times, of which the earlier one is in range if the later one is. *)
LEMMA TimesInOrder ==
  ASSUME NEW x \in Nat, NEW y \in Nat, x <= y, InRange(y)
  PROVE  /\ timespec_to_ns(x) \in Nat /\ timespec_to_ns(y) \in Nat
         /\ timespec_to_ns(x) <= timespec_to_ns(y)
         /\ x + Ulp(y) < y => Later(x, y)
         /\ LET error == time_diff(x, y) - (y - x)
            IN -Ulp(y) <= error /\ error <= Ulp(y)
<1>1. InRange(x)
  BY InRangeDownwards
<1>2. timespec_to_ns(x) = Round(x) /\ timespec_to_ns(y) = Round(y)
  BY <1>1, ExactSeconds
<1>3. PICK w \in Ulps : y < w * Exact
  BY DEF InRange
<1>4. Round(x) <= Round(y) /\ Ulp(x) <= Ulp(y)
  BY <1>3, RoundMonotone
<1>5. /\ Round(x) \in Nat /\ Ulp(x) \in Nat
      /\ 2 * Round(x) <= 2 * x + Ulp(x) /\ 2 * x <= 2 * Round(x) + Ulp(x)
  BY <1>1, RoundBounds
<1>6. /\ Round(y) \in Nat /\ Ulp(y) \in Nat
      /\ 2 * Round(y) <= 2 * y + Ulp(y) /\ 2 * y <= 2 * Round(y) + Ulp(y)
  BY RoundBounds
<1> QED
  BY <1>2, <1>4, <1>5, <1>6 DEF Later, time_diff

-----------------------------------------------------------------------------
(* Types, without the row of output. *)

InSample ==
  { "reset", "start", "wait", "poll", "pkg_begin", "dram_begin", "loop", "op", "pkg_end",
    "dram_end", "end" }

TypeInv ==
  /\ pc \in Labels /\ sample \in 0 .. nr_samples /\ alarm_fired \in BOOLEAN
  /\ clock \in Nat /\ deadline \in Nat /\ iterations \in Nat /\ period \in Nat
  /\ start \in 0 .. clock
  /\ begin \in [Domains -> Nat] /\ end \in [Domains -> Nat] /\ power \in Powers
  /\ pc \in InSample => sample < nr_samples

LEMMA Constants ==
  /\ nr_samples \in Nat /\ NsPerMs \in Nat \ {0} /\ NsPerSec \in Nat \ {0}
  /\ 2 * NsPerMs <= NsPerSec /\ NsPerSec % NsPerMs = 0
  /\ EnergyUnit \in Nat /\ CounterSize \in Nat \ {0} /\ LongSize \in Nat \ {0}
  /\ CounterSize < LongSize
  /\ Uptimes \subseteq Nat /\ Powers \subseteq [Domains -> Nat]
  /\ StepTicks \in SUBSET Nat /\ OpTicks \in SUBSET (Nat \ {0})
BY EnergyAssumption, ConversionAssumption

LEMMA InitType == Init => TypeInv
<1> SUFFICES ASSUME Init PROVE TypeInv
  OBVIOUS
<1>1. clock \in Nat /\ deadline \in Nat /\ start \in 0 .. clock
  BY Constants DEF Init
<1>2. begin \in [Domains -> Nat] /\ end \in [Domains -> Nat]
  BY DEF Init, AtBoot
<1>3. /\ pc \in Labels /\ pc \notin InSample /\ sample \in 0 .. nr_samples
      /\ iterations \in Nat /\ period \in Nat /\ power \in Powers
  BY Constants DEF Init, Labels, InSample
<1>4. alarm_fired \in BOOLEAN
  BY DEF Init
<1> QED
  BY <1>1, <1>2, <1>3, <1>4 DEF TypeInv

LEMMA TimeGoesOn ==
  ASSUME TypeInv, NEW from, NEW to, NEW ticks \in SUBSET Nat, Step(from, to, ticks)
  PROVE  /\ pc = from /\ pc' = to /\ clock' \in Nat /\ clock <= clock' /\ power' = power
         /\ \A longest \in Nat : (\A t \in ticks : t <= longest) => clock' <= clock + longest
BY DEF TypeInv, Step

LEMMA Ticks ==
  /\ StepTicks \in SUBSET Nat /\ OpTicks \in SUBSET Nat /\ {0} \in SUBSET Nat
  /\ {1} \in SUBSET Nat
BY Constants

LEMMA NextType == TypeInv /\ [Next]_vars => TypeInv'
<1> SUFFICES ASSUME TypeInv, [Next]_vars PROVE TypeInv'
  OBVIOUS
<1> USE DEF TypeInv
<1>1. CASE BeginSample
  BY <1>1, TimeGoesOn, Ticks, Constants DEF BeginSample, Labels, AtBoot, Domains
<1>2. CASE EndSamples
  BY <1>2, TimeGoesOn, Ticks DEF EndSamples, Labels, InSample
<1>3. CASE ResetAlarm
  <2>1. /\ pc = "reset" /\ pc' = "start" /\ clock' \in Nat /\ clock <= clock'
        /\ power' = power
    BY <1>3, TimeGoesOn, Ticks DEF ResetAlarm
  <2>2. alarm_fired' \in BOOLEAN
    BY <1>3 DEF ResetAlarm
  <2> QED
    BY <1>3, <2>1, <2>2 DEF ResetAlarm, Labels, InSample
<1>4. CASE TakeStart
  BY <1>4, TimeGoesOn, Ticks DEF TakeStart, Labels, InSample
<1>5. CASE BeginWait
  BY <1>5, TimeGoesOn, Ticks DEF BeginWait, Labels, InSample
<1>6. CASE Poll
  BY <1>6, TimeGoesOn, Ticks DEF Poll, Labels, InSample
<1>7. CASE ReadBegin("pkg", "pkg_begin", "dram_begin")
  BY <1>7, TimeGoesOn, Ticks DEF ReadBegin, Labels, InSample, Domains
<1>8. CASE ReadBegin("dram", "dram_begin", "loop")
  BY <1>8, TimeGoesOn, Ticks DEF ReadBegin, Labels, InSample, Domains
<1>9. CASE TestAlarm
  BY <1>9, TimeGoesOn, Ticks DEF TestAlarm, Labels, InSample
<1>10. CASE Iterate
  BY <1>10, TimeGoesOn, Ticks DEF Iterate, Labels, InSample
<1>11. CASE ReadEnd("pkg", "pkg_end", "dram_end")
  BY <1>11, TimeGoesOn, Ticks DEF ReadEnd, Labels, InSample, Domains
<1>12. CASE ReadEnd("dram", "dram_end", "end")
  BY <1>12, TimeGoesOn, Ticks DEF ReadEnd, Labels, InSample, Domains
<1>13. CASE Report
  <2>1. /\ pc = "end" /\ pc' \in {"alarm", "aborted"} /\ sample' \in {sample, sample + 1}
        /\ clock' \in Nat /\ clock <= clock' /\ power' = power
    BY <1>13, TimeGoesOn, Ticks DEF Report
  <2> QED
    BY <1>13, <2>1, Constants DEF Report, Labels, InSample
<1>14. CASE AlarmFires
  BY <1>14 DEF AlarmFires, Labels, InSample
<1>15. CASE UNCHANGED vars
  BY <1>15 DEF vars
<1> QED
  BY <1>1, <1>2, <1>3, <1>4, <1>5, <1>6, <1>7, <1>8, <1>9, <1>10, <1>11, <1>12, <1>13,
     <1>14, <1>15 DEF Next, Ending

LEMMA AlwaysType == Init /\ [][Next]_vars => []TypeInv
BY InitType, NextType, PTL

(* In range, times are in order: what OrderKept says of every state. *)
LEMMA InOrder == TypeInv /\ InRange(clock) => OrderKept
<1> SUFFICES ASSUME TypeInv, InRange(clock),
                    NEW t \in {start, period} \cup { begin[d] : d \in Domains }
             PROVE  /\ t <= clock => timespec_to_ns(t) <= timespec_to_ns(clock)
                    /\ t + Ulp(clock) < clock => Later(t, clock)
  BY DEF OrderKept
<1>1. t \in Nat /\ clock \in Nat
  BY DEF TypeInv
<1>2. Ulp(clock) \in Nat
  BY <1>1, RoundBounds
<1>3. t <= clock \/ ~ (t + Ulp(clock) < clock)
  BY <1>1, <1>2
<1> QED
  BY <1>1, <1>3, TimesInOrder

(* Times that are read one after the other are in order in nanoseconds,    *)
(* although a double rounds them, and time_diff does not fail for times    *)
(* more than the distance of the doubles apart, for 146 years of uptime.   *)
THEOREM TimesKeepOrder == Spec /\ []InRange(clock) => []OrderKept
<1> DEFINE InTime == InRange(clock)
<1>1. TypeInv /\ InTime => OrderKept
  BY InOrder
<1> HIDE DEF InTime
<1>2. Spec /\ []InTime => []OrderKept
  BY <1>1, AlwaysType, PTL DEF Spec
<1> QED
  BY <1>2 DEF InTime

-----------------------------------------------------------------------------
(* Rows of output. *)

LEMMA OnlyReportCounts ==
  ASSUME TypeInv, [Next]_vars, sample' > sample
  PROVE  Report /\ Later(start, clock)
<1>1. sample' # sample
  BY DEF TypeInv
<1>2. Report
  BY <1>1
     DEF Next, vars, BeginSample, EndSamples, ResetAlarm, TakeStart, BeginWait, Poll, ReadBegin,
         TestAlarm, Iterate, ReadEnd, AlarmFires, Ending
<1> QED
  BY <1>1, <1>2 DEF Report

LEMMA RowAccurate ==
  ASSUME TypeInv, InRange(clock), [Next]_vars, sample' > sample
  PROVE  LET error == report'.duration - (clock - start)
         IN -Ulp(clock) <= error /\ error <= Ulp(clock)
<1>1. report'.duration = time_diff(start, clock)
  BY OnlyReportCounts DEF Report
<1> QED
  BY <1>1, TimesInOrder DEF TypeInv

(* The duration in a row is off by at most the distance of the doubles at  *)
(* that uptime, for 146 years of uptime.                                   *)
THEOREM DurationsAccurate == Spec /\ []InRange(clock) => DurationAccurate
<1> DEFINE InTime == InRange(clock)
           Accurate == sample' > sample =>
                         LET error == report'.duration - (clock - start)
                         IN -Ulp(clock) <= error /\ error <= Ulp(clock)
<1>1. TypeInv /\ InTime /\ [Next]_vars => [Accurate]_vars
  BY RowAccurate
<1> HIDE DEF InTime, Accurate
<1>2. Spec /\ []InTime => [][Accurate]_vars
  BY <1>1, AlwaysType, PTL DEF Spec
<1> QED
  BY <1>2 DEF InTime, Accurate, DurationAccurate

(* The last update of the counters, before t. *)
LEMMA UpdatedType ==
  ASSUME NEW t \in Nat
  PROVE  /\ Updated(t) \in Nat /\ t % NsPerMs \in 0 .. NsPerMs - 1
         /\ t = Updated(t) + (t % NsPerMs)
<1>1. t \div NsPerMs \in Nat /\ t % NsPerMs \in 0 .. NsPerMs - 1
      /\ t = (t \div NsPerMs) * NsPerMs + (t % NsPerMs)
  BY DivMod, Constants
<1>2. (t \div NsPerMs) * NsPerMs \in Nat
  BY <1>1, Times, Constants
<1> QED
  BY <1>1, <1>2 DEF Updated

RowType ==
  report \in [ iterations : Nat, duration : Nat, energy : [Domains -> 0 .. LongSize - 1] ]

LEMMA DifferenceType ==
  ASSUME TypeInv, NEW d \in Domains
  PROVE  Difference(d) \in 0 .. LongSize - 1
<1>1. power[d] \in Nat /\ begin[d] \in Nat /\ end[d] \in Nat
  BY Constants DEF TypeInv
<1>2. Energy(d, begin[d]) \in Nat /\ Energy(d, end[d]) \in Nat
  BY <1>1, UpdatedType, Times DEF Energy
<1>3. read_msr(d, begin[d]) \in Nat /\ read_msr(d, end[d]) \in Nat
  BY <1>2, DivMod, Constants DEF read_msr
<1> QED
  BY <1>3, Constants DEF Difference

LEMMA PerOperationType ==
  ASSUME TypeInv, NEW d \in Domains
  PROVE  PerOperation(d) \subseteq 0 .. LongSize - 1
<1>1. Undefined \subseteq 0 .. LongSize - 1
  BY Constants DEF Undefined
<1>2. CASE iterations = 0 \/ (Difference(d) * EnergyUnit) \div iterations >= LongSize
  BY <1>1, <1>2 DEF PerOperation
<1>3. CASE iterations # 0 /\ ~ (Difference(d) * EnergyUnit) \div iterations >= LongSize
  <2>1. Difference(d) * EnergyUnit \in Nat
    BY DifferenceType, Times, Constants
  <2>2. (Difference(d) * EnergyUnit) \div iterations \in Nat
    BY <1>3, <2>1, DivMod DEF TypeInv
  <2> QED
    BY <1>3, <2>2, Constants DEF PerOperation
<1> QED
  BY <1>2, <1>3

LEMMA InitRowType == Init => RowType
BY Constants DEF Init, RowType, NoReport, AtBoot

LEMMA NextRowType ==
  ASSUME TypeInv, InRange(clock), RowType, [Next]_vars
  PROVE  RowType'
<1>1. CASE BeginSample
  BY <1>1, Constants DEF BeginSample, RowType, NoReport, AtBoot
<1>2. CASE Report
  <2>1. CASE Later(start, clock)
    <3>1. PICK pkg \in PerOperation("pkg"), dram \in PerOperation("dram") :
            report' = [ iterations |-> iterations,
                        duration |-> time_diff(start, clock),
                        energy |-> [d \in Domains |-> IF d = "pkg" THEN pkg ELSE dram] ]
      BY <1>2, <2>1 DEF Report
    <3>2. pkg \in 0 .. LongSize - 1 /\ dram \in 0 .. LongSize - 1
      BY PerOperationType DEF Domains
    <3>3. time_diff(start, clock) \in Nat
      BY <2>1, TimesInOrder DEF TypeInv, Later, time_diff
    <3> QED
      BY <3>1, <3>2, <3>3 DEF RowType, TypeInv
  <2>2. CASE ~ Later(start, clock)
    BY <1>2, <2>2 DEF Report, RowType
  <2> QED
    BY <2>1, <2>2
<1>3. CASE UNCHANGED report
  BY <1>3 DEF RowType
<1> QED
  BY <1>1, <1>2, <1>3
     DEF Next, vars, EndSamples, ResetAlarm, TakeStart, BeginWait, Poll, ReadBegin,
         TestAlarm, Iterate, ReadEnd, AlarmFires, Ending

(* Every value has its type, in the row the numbers that uint64_t holds.   *)
THEOREM TypeCorrect == Spec /\ []InRange(clock) => []TypeOK
<1> DEFINE InTime == InRange(clock)
<1>1. TypeInv /\ InTime /\ RowType /\ [Next]_vars => RowType'
  BY NextRowType
<1>2. TypeInv /\ RowType => TypeOK
  BY DEF TypeInv, RowType, TypeOK
<1> HIDE DEF InTime
<1>3. Spec /\ []InTime => []TypeOK
  BY <1>1, <1>2, InitRowType, AlwaysType, PTL DEF Spec
<1> QED
  BY <1>3 DEF InTime

-----------------------------------------------------------------------------
(* The time before the loop. *)

LEMMA Extremes ==
  /\ Longest(StepTicks) \in Nat /\ \A t \in StepTicks : t <= Longest(StepTicks)
  /\ Longest(OpTicks) \in Nat /\ \A t \in OpTicks : t <= Longest(OpTicks)
  /\ Shortest \in Nat /\ \A t \in OpTicks : Shortest <= t
<1>1. /\ \E t \in StepTicks : \A u \in StepTicks : t >= u
      /\ \E t \in OpTicks : \A u \in OpTicks : t >= u
      /\ \E t \in OpTicks : \A u \in OpTicks : t <= u
  <2>1. \A ticks \in {StepTicks, OpTicks} : \E t \in ticks : \A u \in ticks : u <= t
    BY EnergyAssumption
  <2>2. \E t \in StepTicks : \A u \in StepTicks : u <= t
    BY <2>1
  <2>3. \E t \in OpTicks : \A u \in OpTicks : u <= t
    BY <2>1
  <2>4. \E t \in OpTicks : \A u \in OpTicks : t <= u
    BY EnergyAssumption
  <2> QED
    BY <2>2, <2>3, <2>4, Constants
<1>2. Longest(StepTicks) \in StepTicks /\ \A u \in StepTicks : Longest(StepTicks) >= u
  BY <1>1 DEF Longest
<1>3. Longest(OpTicks) \in OpTicks /\ \A u \in OpTicks : Longest(OpTicks) >= u
  BY <1>1 DEF Longest
<1>4. Shortest \in OpTicks /\ \A u \in OpTicks : Shortest <= u
  BY <1>1 DEF Shortest
<1> QED
  BY <1>2, <1>3, <1>4, Constants

(* The six steps from alarm(1) to the loop and the wait for the next       *)
(* millisecond take less than the second of the alarm.                     *)
SetUpInTime == 6 * Longest(StepTicks) + NsPerMs + 1 < NsPerSec

(* steps and extra ticks of the second have gone by, without an alarm.     *)
Spent(steps, extra) ==
  clock + NsPerSec <= deadline + steps * Longest(StepTicks) + extra
Waited(steps) == ~ alarm_fired /\ Spent(steps, NsPerMs + 1)

SetUpOK ==
  /\ pc = "reset" => Spent(1, 0)
  /\ pc = "start" => ~ alarm_fired /\ Spent(2, 0)
  /\ pc = "wait" => ~ alarm_fired /\ Spent(3, 0)
  /\ pc = "poll" =>
       /\ ~ alarm_fired /\ period <= clock
       /\ period + NsPerSec <= deadline + 3 * Longest(StepTicks)
       /\ clock <= period + Longest(StepTicks) \/ clock <= period + NsPerMs
  /\ pc = "pkg_begin" => Waited(4)
  /\ pc = "dram_begin" => Waited(5)
  /\ pc \in {"loop", "op"} /\ iterations = 0 => Waited(6)

IterationsOK ==
  /\ pc \in InSample \ {"loop", "op", "pkg_end", "dram_end", "end"} => iterations = 0
  /\ pc \in {"pkg_end", "dram_end", "end"} => iterations > 0

-----------------------------------------------------------------------------
(* The time between the reads of a counter. *)

(* Of begin[d] and t, with steps of the harness besides the iterations.    *)
Between(d, t, steps) ==
  /\ begin[d] + iterations * Shortest <= t
  /\ t <= begin[d] + iterations * Longest(OpTicks) + steps * Longest(StepTicks)

(* What the row of output says is computed from the times of the sample.   *)
RowOK ==
  /\ iterations > 0 /\ report.iterations = iterations
  /\ \A d \in Domains : report.energy[d] \in PerOperation(d) /\ Between(d, end[d], 2)

SpansOK ==
  /\ pc = "dram_begin" => Between("pkg", clock, 1)
  /\ pc \in {"loop", "op", "pkg_end"} => Between("pkg", clock, 2) /\ Between("dram", clock, 1)
  /\ pc = "dram_end" => Between("pkg", end["pkg"], 2) /\ Between("dram", clock, 2)
  /\ pc = "end" => \A d \in Domains : Between(d, end[d], 2)
  /\ Reported => RowOK

-----------------------------------------------------------------------------
(* The sampling period. *)

(* The last update is at most that old at t. *)
Fresh(t, steps) == t % NsPerMs <= steps * Longest(StepTicks) + 1

(* What the wait ensures: when it ends, the clock has left the millisecond *)
(* in which it began, at the last poll or in the step before the first.    *)
FreshOK ==
  /\ pc = "poll" =>
       \/ clock <= period + Longest(StepTicks)
       \/ clock > period /\ Ms(clock - 1) = Ms(period)
  /\ pc = "pkg_begin" => Fresh(clock, 1)
  /\ pc = "dram_begin" => Fresh(begin["pkg"], 1) /\ Fresh(clock, 2)
  /\ pc \in {"loop", "op", "pkg_end", "dram_end", "end"} \/ Reported =>
       \A d \in Domains : Fresh(begin[d], 2)

-----------------------------------------------------------------------------
(* Steps. *)

(* Two times of the same millisecond, less than a second apart, are less   *)
(* than a millisecond apart.                                               *)
LEMMA SameMs ==
  ASSUME NEW x \in Nat, NEW y \in Nat, x <= y, y <= x + NsPerSec - NsPerMs, Ms(x) = Ms(y)
  PROVE  y < x + NsPerMs
<1> DEFINE a == tv_sec(x)
           b == tv_sec(y)
           m == tv_nsec(x)
           n == tv_nsec(y)
           S == NsPerSec
<1>1. /\ a \in Nat /\ m \in 0 .. S - 1 /\ x = a * S + m
      /\ b \in Nat /\ n \in 0 .. S - 1 /\ y = b * S + n
  BY DivMod, Constants DEF tv_sec, tv_nsec
<1> HIDE DEF a, b
<1>2. n - m < NsPerMs /\ m - n < NsPerMs
  <2> HIDE DEF m, n
  <2> DEFINE k == m \div NsPerMs
             u == m % NsPerMs
             v == n % NsPerMs
  <2>1. m \in Nat /\ n \in Nat /\ NsPerMs \in Nat \ {0} /\ n \div NsPerMs = k
    BY <1>1, Constants DEF Ms, m, n
  <2>2. k \in Nat /\ u \in 0 .. NsPerMs - 1 /\ m = k * NsPerMs + u
    BY <2>1, DivMod
  <2>3. v \in 0 .. NsPerMs - 1 /\ n = k * NsPerMs + v
    BY <2>1, DivMod
  <2> HIDE DEF k, u, v
  <2>4. k * NsPerMs \in Nat
    BY <2>1, <2>2, Times
  <2> QED
    BY <2>1, <2>2, <2>3, <2>4
<1> HIDE DEF m, n
<1>3. a * S \in Nat /\ b * S \in Nat /\ S \in Nat \ {0} /\ NsPerMs \in Nat
  BY <1>1, Times, Constants
<1>4. CASE a = b
  BY <1>1, <1>2, <1>3, <1>4
<1>5. CASE b + 1 <= a
  <2>1. b * S + S <= a * S
    BY <1>1, <1>3, <1>5, Times
  <2> QED
    BY <1>1, <1>3, <2>1
<1>6. CASE a + 1 <= b
  <2>1. a * S + S <= b * S
    BY <1>1, <1>3, <1>6, Times
  <2> QED
    BY <1>1, <1>2, <1>3, <2>1
<1> QED
  BY <1>1, <1>4, <1>5, <1>6

LEMMA InitSetUp == Init => SetUpOK /\ IterationsOK /\ SpansOK /\ FreshOK
BY DEF Init, SetUpOK, IterationsOK, SpansOK, FreshOK, InSample, Reported

LEMMA AStep ==
  ASSUME TypeInv, NEW from, NEW to, Step(from, to, StepTicks)
  PROVE  /\ pc = from /\ pc' = to /\ clock' \in Nat /\ clock <= clock' /\ power' = power
         /\ clock' <= clock + Longest(StepTicks)
BY TimeGoesOn, Ticks, Extremes

LEMMA PollSetUp ==
  ASSUME SetUpInTime, TypeInv, SetUpOK, Poll
  PROVE  SetUpOK'
<1> DEFINE L == Longest(StepTicks)
<1>1. /\ L \in Nat /\ NsPerSec \in Nat /\ NsPerMs \in Nat \ {0} /\ 6 * L + NsPerMs + 1 < NsPerSec
      /\ 2 * NsPerMs <= NsPerSec
  BY Extremes, Constants DEF SetUpInTime
<1>2. /\ pc = "poll" /\ pc' = IF Ms(period) # Ms(clock) THEN "pkg_begin" ELSE "poll"
      /\ clock' = clock + 1 /\ UNCHANGED <<deadline, alarm_fired, iterations, period>>
  BY DEF Poll, Step
<1>3. /\ clock \in Nat /\ period \in Nat /\ deadline \in Nat
      /\ ~ alarm_fired /\ period <= clock /\ period + NsPerSec <= deadline + 3 * L
      /\ clock <= period + L \/ clock <= period + NsPerMs
  BY <1>2 DEF SetUpOK, TypeInv
<1> HIDE DEF L
<1>4. CASE Ms(period) = Ms(clock)
  <2>1. clock' <= period + NsPerMs
    BY <1>1, <1>2, <1>3, <1>4, SameMs
  <2> QED
    BY <1>2, <1>3, <1>4, <2>1 DEF SetUpOK, L
<1>5. CASE Ms(period) # Ms(clock)
  <2>1. ~ alarm_fired' /\ clock' + NsPerSec <= deadline' + 4 * L + (NsPerMs + 1)
    BY <1>1, <1>2, <1>3
  <2> QED
    BY <1>2, <1>5, <2>1 DEF SetUpOK, Waited, Spent, L
<1> QED
  BY <1>4, <1>5

(* The alarm does not expire before the loop. *)
LEMMA AlarmInLoop ==
  ASSUME SetUpInTime, TypeInv, SetUpOK, clock >= deadline
  PROVE  /\ pc \notin {"reset", "start", "wait", "poll", "pkg_begin", "dram_begin"}
         /\ pc \in {"loop", "op"} => iterations > 0
<1>1. /\ Longest(StepTicks) \in Nat /\ NsPerSec \in Nat /\ NsPerMs \in Nat
      /\ clock \in Nat /\ deadline \in Nat /\ iterations \in Nat
  BY Extremes, Constants DEF TypeInv
<1>2. \A k \in 0 .. 6 : ~ Spent(k, 0) /\ ~ Spent(k, NsPerMs + 1)
  BY <1>1 DEF Spent, SetUpInTime
<1>3. pc # "poll"
  BY <1>1 DEF SetUpOK, SetUpInTime, TypeInv
<1> QED
  BY <1>1, <1>2, <1>3 DEF SetUpOK, Waited

LEMMA NextSetUp ==
  ASSUME SetUpInTime, TypeInv, SetUpOK, IterationsOK, [Next]_vars
  PROVE  SetUpOK' /\ IterationsOK'
<1>0. /\ Longest(StepTicks) \in Nat /\ NsPerSec \in Nat /\ NsPerMs \in Nat
      /\ clock \in Nat /\ deadline \in Nat /\ iterations \in Nat
  BY Extremes, Constants DEF TypeInv
<1>1. CASE BeginSample
  BY <1>0, <1>1, AStep DEF BeginSample, SetUpOK, IterationsOK, InSample, Spent
<1>2. CASE EndSamples
  BY <1>2, AStep DEF EndSamples, SetUpOK, IterationsOK, InSample
<1>3. CASE ResetAlarm
  BY <1>0, <1>3, AStep DEF ResetAlarm, SetUpOK, IterationsOK, InSample, Spent
<1>4. CASE TakeStart
  BY <1>0, <1>4, AStep DEF TakeStart, SetUpOK, IterationsOK, InSample, Spent
<1>5. CASE BeginWait
  BY <1>0, <1>5, AStep DEF BeginWait, SetUpOK, IterationsOK, InSample, Spent
<1>6. CASE Poll
  <2>1. IterationsOK'
    BY <1>6 DEF Poll, Step, IterationsOK, InSample
  <2> QED
    BY <1>6, <2>1, PollSetUp
<1>7. CASE ReadBegin("pkg", "pkg_begin", "dram_begin")
  BY <1>0, <1>7, AStep DEF ReadBegin, SetUpOK, IterationsOK, InSample, Waited, Spent
<1>8. CASE ReadBegin("dram", "dram_begin", "loop")
  BY <1>0, <1>8, AStep DEF ReadBegin, SetUpOK, IterationsOK, InSample, Waited, Spent
<1>9. CASE TestAlarm
  BY <1>0, <1>9 DEF TestAlarm, Step, SetUpOK, IterationsOK, InSample, Waited, Spent
<1>10. CASE Iterate
  BY <1>0, <1>10 DEF Iterate, Step, SetUpOK, IterationsOK, InSample
<1>11. CASE ReadEnd("pkg", "pkg_end", "dram_end")
  BY <1>11, AStep DEF ReadEnd, SetUpOK, IterationsOK, InSample
<1>12. CASE ReadEnd("dram", "dram_end", "end")
  BY <1>12, AStep DEF ReadEnd, SetUpOK, IterationsOK, InSample
<1>13. CASE Report
  BY <1>13 DEF Report, Step, SetUpOK, IterationsOK, InSample
<1>14. CASE AlarmFires
  BY <1>14, AlarmInLoop DEF AlarmFires, SetUpOK, IterationsOK
<1>15. CASE UNCHANGED vars
  BY <1>15 DEF vars, SetUpOK, IterationsOK, Waited, Spent
<1> QED
  BY <1>1, <1>2, <1>3, <1>4, <1>5, <1>6, <1>7, <1>8, <1>9, <1>10, <1>11, <1>12, <1>13,
     <1>14, <1>15 DEF Next, Ending

LEMMA PerOperationKept ==
  ASSUME UNCHANGED <<begin, end, iterations, power>>, NEW d \in Domains
  PROVE  PerOperation(d)' = PerOperation(d)
BY DEF PerOperation, Difference, read_msr, Energy, Updated

LEMMA RowKept ==
  ASSUME RowOK, UNCHANGED <<begin, end, iterations, power, report>>
  PROVE  RowOK'
BY PerOperationKept DEF RowOK, Between

LEMMA RowWritten ==
  ASSUME TypeInv, IterationsOK, SpansOK, Report
  PROVE  SpansOK'
<1>1. /\ pc = "end" /\ pc' = IF Later(start, clock) THEN "alarm" ELSE "aborted"
      /\ UNCHANGED <<iterations, begin, end, power>>
  BY DEF Report, Step
<1>2. CASE Later(start, clock)
  <2>1. PICK pkg \in PerOperation("pkg"), dram \in PerOperation("dram") :
          report' = [ iterations |-> iterations,
                      duration |-> time_diff(start, clock),
                      energy |-> [d \in Domains |-> IF d = "pkg" THEN pkg ELSE dram] ]
    BY <1>2 DEF Report
  <2>2. iterations' > 0 /\ report'.iterations = iterations'
    BY <1>1, <2>1 DEF IterationsOK
  <2>3. \A d \in Domains : report'.energy[d] \in PerOperation(d)'
    BY <1>1, <2>1, PerOperationKept DEF Domains
  <2>4. \A d \in Domains : Between(d, end[d], 2)'
    BY <1>1 DEF SpansOK, Between
  <2> QED
    BY <1>1, <1>2, <2>2, <2>3, <2>4 DEF SpansOK, RowOK
<1>3. CASE ~ Later(start, clock)
  BY <1>1, <1>3 DEF SpansOK, Reported
<1> QED
  BY <1>2, <1>3

LEMMA NextSpans ==
  ASSUME TypeInv, SetUpOK, IterationsOK, SpansOK, [Next]_vars
  PROVE  SpansOK'
<1>0. /\ Longest(StepTicks) \in Nat /\ Longest(OpTicks) \in Nat /\ Shortest \in Nat
      /\ iterations \in Nat /\ clock \in Nat /\ begin \in [Domains -> Nat]
      /\ end \in [Domains -> Nat]
      /\ iterations * Shortest \in Nat /\ iterations * Longest(OpTicks) \in Nat
  BY Extremes, Times DEF TypeInv
<1>1. CASE BeginSample \/ EndSamples \/ ResetAlarm \/ TakeStart \/ BeginWait \/ Poll
  BY <1>1 DEF BeginSample, EndSamples, ResetAlarm, TakeStart, BeginWait, Poll, Step, SpansOK,
              Reported
<1>2. CASE ReadBegin("pkg", "pkg_begin", "dram_begin")
  <2>1. /\ pc = "pkg_begin" /\ pc' = "dram_begin" /\ iterations = 0 /\ iterations' = 0
        /\ begin'["pkg"] = clock /\ clock' \in Nat /\ clock <= clock'
        /\ clock' <= clock + Longest(StepTicks)
    BY <1>2, AStep DEF ReadBegin, IterationsOK, InSample, TypeInv, Domains
  <2>2. Between("pkg", clock, 1)'
    BY <1>0, <2>1 DEF Between
  <2> QED
    BY <2>1, <2>2 DEF SpansOK, Reported
<1>3. CASE ReadBegin("dram", "dram_begin", "loop")
  <2>1. /\ pc = "dram_begin" /\ pc' = "loop" /\ iterations = 0 /\ iterations' = 0
        /\ begin'["dram"] = clock /\ begin'["pkg"] = begin["pkg"]
        /\ clock' \in Nat /\ clock <= clock' /\ clock' <= clock + Longest(StepTicks)
    BY <1>3, AStep DEF ReadBegin, IterationsOK, InSample, TypeInv, Domains
  <2>2. Between("dram", clock, 1)'
    BY <1>0, <2>1 DEF Between
  <2>3. Between("pkg", clock, 2)'
    BY <1>0, <2>1 DEF Between, SpansOK, Domains
  <2> QED
    BY <2>1, <2>2, <2>3 DEF SpansOK, Reported
<1>4. CASE TestAlarm
  <2>1. /\ pc = "loop" /\ pc' \in {"pkg_end", "op"} /\ clock' = clock
        /\ UNCHANGED <<iterations, begin>>
    BY <1>0, <1>4 DEF TestAlarm, Step
  <2>2. Between("pkg", clock, 2)' /\ Between("dram", clock, 1)'
    BY <2>1 DEF SpansOK, Between
  <2> QED
    BY <2>1, <2>2 DEF SpansOK, Reported
<1>5. CASE Iterate
  <2>1. PICK t \in OpTicks : clock' = clock + t
    BY <1>5 DEF Iterate, Step
  <2>2. t \in Nat /\ Shortest <= t /\ t <= Longest(OpTicks)
    BY Extremes, Constants
  <2>3. pc = "op" /\ pc' = "loop" /\ iterations' = iterations + 1 /\ UNCHANGED begin
    BY <1>5 DEF Iterate, Step
  <2>4. /\ iterations' * Shortest = iterations * Shortest + Shortest
        /\ iterations' * Longest(OpTicks) = iterations * Longest(OpTicks) + Longest(OpTicks)
    BY <1>0, <2>3, Times
  <2>5. Between("pkg", clock, 2)' /\ Between("dram", clock, 1)'
    <3>1. Between("pkg", clock, 2) /\ Between("dram", clock, 1)
      BY <2>3 DEF SpansOK
    <3> QED
      BY <1>0, <2>1, <2>2, <2>3, <2>4, <3>1 DEF Between, Domains
  <2> QED
    BY <2>3, <2>5 DEF SpansOK, Reported
<1>6. CASE ReadEnd("pkg", "pkg_end", "dram_end")
  <2>1. /\ pc = "pkg_end" /\ pc' = "dram_end" /\ end'["pkg"] = clock
        /\ clock' \in Nat /\ clock <= clock' /\ clock' <= clock + Longest(StepTicks)
        /\ UNCHANGED <<iterations, begin>>
    BY <1>6, AStep DEF ReadEnd, TypeInv, Domains
  <2>2. Between("pkg", end["pkg"], 2)'
    BY <2>1 DEF SpansOK, Between
  <2>3. Between("dram", clock, 2)'
    BY <1>0, <2>1 DEF SpansOK, Between, Domains
  <2> QED
    BY <2>1, <2>2, <2>3 DEF SpansOK, Reported
<1>7. CASE ReadEnd("dram", "dram_end", "end")
  <2>1. /\ pc = "dram_end" /\ pc' = "end" /\ end'["dram"] = clock /\ end'["pkg"] = end["pkg"]
        /\ UNCHANGED <<iterations, begin>>
    BY <1>7, AStep DEF ReadEnd, TypeInv, Domains
  <2>2. \A d \in Domains : Between(d, end[d], 2)'
    BY <2>1 DEF SpansOK, Between, Domains
  <2> QED
    BY <2>1, <2>2 DEF SpansOK, Reported
<1>8. CASE Report
  BY <1>8, RowWritten
<1>9. CASE AlarmFires \/ UNCHANGED vars
  <2>1. UNCHANGED <<pc, sample, clock, iterations, begin, end, power, report>>
    BY <1>9 DEF AlarmFires, vars
  <2> QED
    BY <2>1, RowKept DEF SpansOK, Between, Reported
<1> QED
  BY <1>1, <1>2, <1>3, <1>4, <1>5, <1>6, <1>7, <1>8, <1>9 DEF Next, Ending

(* A second has a whole number of milliseconds, which Ms counts. *)
LEMMA MsOf ==
  ASSUME NEW x \in Nat
  PROVE  Ms(x) = (x \div NsPerMs) % (NsPerSec \div NsPerMs)
<1> DEFINE M == NsPerMs
           K == NsPerSec \div NsPerMs
           q == x \div NsPerMs
           u == x % NsPerMs
           a == q \div K
           r == q % K
<1>1. M \in Nat \ {0} /\ NsPerSec \in Nat \ {0} /\ q \in Nat /\ u \in 0 .. M - 1
      /\ x = q * M + u
  BY DivMod, Constants
<1>2. K \in Nat /\ NsPerSec = K * M
  <2>1. K \in Nat /\ NsPerSec = K * M + (NsPerSec % M) /\ NsPerSec % M = 0
    BY DivMod, Constants
  <2> HIDE DEF K, M
  <2>2. K * M \in Nat
    BY <1>1, <2>1, Times
  <2> QED
    BY <2>1, <2>2 DEF M
<1> HIDE DEF M, K, q, u
<1>3. K # 0
  BY <1>1, <1>2
<1>4. a \in Nat /\ r \in 0 .. K - 1 /\ q = a * K + r
  BY <1>1, <1>2, <1>3, DivMod
<1> HIDE DEF a, r
<1>5. x = a * NsPerSec + (r * M + u) /\ r * M + u \in 0 .. NsPerSec - 1
  <2>1. (a * K + r) * M = (a * K) * M + r * M /\ (a * K) * M = a * (K * M)
    BY <1>1, <1>2, <1>4
  <2>2. r * M \in Nat /\ (r + 1) * M = r * M + M /\ (r + 1) * M <= K * M
    BY <1>1, <1>2, <1>4, Times
  <2>3. a * NsPerSec \in Nat
    BY <1>1, <1>4, Times
  <2> QED
    BY <1>1, <1>2, <1>4, <2>1, <2>2, <2>3
<1>6. tv_nsec(x) = r * M + u
  <2> DEFINE rest == r * M + u
  <2>1. x = a * NsPerSec + rest /\ rest \in 0 .. NsPerSec - 1
    BY <1>5
  <2> HIDE DEF rest
  <2>2. x % NsPerSec = rest
    BY <1>1, <1>4, <2>1, QuotientOf
  <2> QED
    BY <2>2 DEF tv_nsec, rest
<1>7. Ms(x) = r
  <2>1. (r * M + u) \div M = r
    BY <1>1, <1>4, QuotientOf
  <2> QED
    BY <1>6, <2>1 DEF Ms, M
<1> QED
  BY <1>7 DEF r, q, K

(* From the beginning of a millisecond to its end, Ms does not change. *)
LEMMA InSameMs ==
  ASSUME NEW x \in Nat, NEW y \in Nat, x <= y, y - (y % NsPerMs) <= x
  PROVE  Ms(x) = Ms(y)
<1> DEFINE p == x \div NsPerMs
           q == y \div NsPerMs
           r == x % NsPerMs
           s == y % NsPerMs
<1>1. /\ NsPerMs \in Nat \ {0} /\ p \in Nat /\ r \in Nat /\ x = p * NsPerMs + r
      /\ q \in Nat /\ s \in Nat /\ y = q * NsPerMs + s
  BY DivMod, Constants
<1>2. p * NsPerMs \in Nat /\ q * NsPerMs \in Nat
  BY <1>1, Times
<1>3. q * NsPerMs <= x /\ p * NsPerMs <= y
  <2> HIDE DEF p, q, r
  <2>1. y - s <= x
    OBVIOUS
  <2> HIDE DEF s
  <2> QED
    BY <1>1, <1>2, <2>1
<1>4. p <= q /\ q <= p
  BY <1>1, <1>3, QuotientAtLeast
<1> QED
  BY <1>1, <1>4, MsOf

(* A time later, the last update is older by at most that time. *)
LEMMA UpdateAges ==
  ASSUME NEW x \in Nat, NEW y \in Nat, x <= y
  PROVE  Updated(x) <= Updated(y) /\ y % NsPerMs <= (x % NsPerMs) + (y - x)
<1>1. /\ Updated(x) \in Nat /\ x % NsPerMs \in Nat /\ x = Updated(x) + (x % NsPerMs)
      /\ Updated(y) \in Nat /\ y % NsPerMs \in Nat /\ y = Updated(y) + (y % NsPerMs)
  BY UpdatedType
<1>2. Updated(x) <= Updated(y)
  <2>1. /\ NsPerMs \in Nat \ {0} /\ x \div NsPerMs \in Nat /\ y \div NsPerMs \in Nat
        /\ (x \div NsPerMs) * NsPerMs <= y
    BY <1>1, DivMod, Constants DEF Updated
  <2>2. x \div NsPerMs <= y \div NsPerMs
    BY <2>1, QuotientAtLeast
  <2> QED
    BY <2>1, <2>2, Times DEF Updated
<1> QED
  BY <1>1, <1>2

LEMMA PollFresh ==
  ASSUME TypeInv, SetUpOK, FreshOK, Poll
  PROVE  FreshOK'
<1> DEFINE L == Longest(StepTicks)
           r == clock % NsPerMs
<1>1. /\ pc = "poll" /\ pc' = IF Ms(period) # Ms(clock) THEN "pkg_begin" ELSE "poll"
      /\ clock' = clock + 1 /\ period' = period
  BY DEF Poll, Step
<1>2. clock \in Nat /\ period \in Nat /\ L \in Nat /\ period <= clock /\ r \in Nat
  <2>1. clock \in Nat /\ period \in Nat
    BY DEF TypeInv
  <2>2. period <= clock
    BY <1>1 DEF SetUpOK
  <2>3. L \in Nat
    BY Extremes
  <2>4. r \in Nat
    BY <2>1, UpdatedType
  <2> QED
    BY <2>1, <2>2, <2>3, <2>4
<1>3. clock <= period + L \/ (clock > period /\ Ms(clock - 1) = Ms(period))
  BY <1>1 DEF FreshOK
<1>4. CASE Ms(period) # Ms(clock)
  <2>1. r <= L
    <3>1. CASE clock <= period + L
      <4>1. ~ (clock - r <= period)
        BY <1>2, <1>4, InSameMs
      <4> HIDE DEF L, r
      <4> QED
        BY <1>2, <3>1, <4>1
    <3>2. CASE clock > period /\ Ms(clock - 1) = Ms(period)
      <4>1. clock - 1 \in Nat /\ clock - 1 <= clock
        BY <1>2, <3>2
      <4>2. ~ (clock - r <= clock - 1)
        BY <1>2, <1>4, <3>2, <4>1, InSameMs
      <4> HIDE DEF L, r
      <4> QED
        BY <1>2, <4>2
    <3> QED
      BY <1>3, <3>1, <3>2
  <2>2. clock' % NsPerMs <= r + 1
    <3>1. clock + 1 \in Nat /\ clock <= clock + 1 /\ (clock + 1) - clock = 1
      BY <1>2
    <3>2. (clock + 1) % NsPerMs <= r + ((clock + 1) - clock)
      BY <1>2, <3>1, UpdateAges
    <3> HIDE DEF r
    <3> QED
      BY <1>1, <3>1, <3>2
  <2>3. clock' % NsPerMs \in Nat
    <3>1. clock' \in Nat
      BY <1>1, <1>2
    <3>2. clock' % NsPerMs \in 0 .. NsPerMs - 1
      BY <3>1, UpdatedType
    <3> QED
      BY <3>2, Constants
  <2>4. Fresh(clock, 1)'
    <3>1. Longest(StepTicks)' = L
      OBVIOUS
    <3> HIDE DEF L, r
    <3> QED
      BY <1>2, <2>1, <2>2, <2>3, <3>1 DEF Fresh
  <2> QED
    BY <1>1, <1>4, <2>4 DEF FreshOK, Reported
<1>5. CASE Ms(period) = Ms(clock)
  <2>1. pc' = "poll" /\ clock' > period' /\ Ms(clock' - 1) = Ms(period')
    BY <1>1, <1>2, <1>5
  <2> QED
    BY <2>1 DEF FreshOK, Reported
<1> QED
  BY <1>4, <1>5

(* A step of the harness later, the last update is older by that step.     *)
LEMMA StepAges ==
  ASSUME TypeInv, NEW from, NEW to, Step(from, to, StepTicks), Fresh(clock, 1)
  PROVE  Fresh(clock', 2)
<1> DEFINE L == Longest(StepTicks)
           r == clock % NsPerMs
           s == clock' % NsPerMs
           elapsed == clock' - clock
<1>1. clock \in Nat /\ clock' \in Nat /\ clock <= clock' /\ L \in Nat
  BY AStep, Extremes DEF TypeInv
<1>2. elapsed \in Nat /\ elapsed <= L
  <2>1. \A x, y, z \in Nat : x <= y /\ y <= x + z => y - x \in Nat /\ y - x <= z
    OBVIOUS
  <2>2. clock' <= clock + L
    BY AStep
  <2> HIDE DEF L
  <2> QED
    BY <1>1, <2>1, <2>2
<1>3. r \in Nat /\ s \in Nat /\ s <= r + elapsed
  BY <1>1, UpdatedType, UpdateAges
<1>4. r <= 1 * L + 1
  BY DEF Fresh
<1> HIDE DEF L, r, s, elapsed
<1>5. s <= 2 * L + 1
  BY <1>1, <1>2, <1>3, <1>4
<1> QED
  BY <1>5 DEF Fresh, L, s

LEMMA NextFresh ==
  ASSUME TypeInv, SetUpOK, FreshOK, [Next]_vars
  PROVE  FreshOK'
<1>1. CASE BeginSample \/ EndSamples \/ ResetAlarm \/ TakeStart
  BY <1>1 DEF BeginSample, EndSamples, ResetAlarm, TakeStart, Step, FreshOK, Reported
<1>2. CASE BeginWait
  BY <1>2, AStep DEF BeginWait, FreshOK, Reported
<1>3. CASE Poll
  BY <1>3, PollFresh
<1>4. CASE ReadBegin("pkg", "pkg_begin", "dram_begin")
  <2>1. /\ pc = "pkg_begin" /\ pc' = "dram_begin" /\ begin'["pkg"] = clock
        /\ Step("pkg_begin", "dram_begin", StepTicks)
    BY <1>4 DEF ReadBegin, Step, TypeInv, Domains
  <2>2. Fresh(clock, 1)
    BY <2>1 DEF FreshOK
  <2>3. Fresh(clock', 2)
    BY <2>1, <2>2, StepAges
  <2> QED
    BY <2>1, <2>2, <2>3 DEF FreshOK, Reported, Fresh
<1>5. CASE ReadBegin("dram", "dram_begin", "loop")
  <2>1. /\ pc = "dram_begin" /\ pc' = "loop" /\ begin'["dram"] = clock
        /\ begin'["pkg"] = begin["pkg"] /\ begin["pkg"] \in Nat
    BY <1>5 DEF ReadBegin, Step, TypeInv, Domains
  <2>2. Fresh(begin["pkg"], 1) /\ Fresh(clock, 2)
    BY <2>1 DEF FreshOK
  <2>3. Fresh(begin["pkg"], 2)
    <3> DEFINE L == Longest(StepTicks)
               r == begin["pkg"] % NsPerMs
    <3>1. L \in Nat /\ r \in Nat
      <4>1. L \in Nat
        BY Extremes
      <4>2. r \in Nat
        BY <2>1, UpdatedType
      <4> QED
        BY <4>1, <4>2
    <3>2. r <= 1 * L + 1
      BY <2>2 DEF Fresh
    <3> HIDE DEF L, r
    <3>3. r <= 2 * L + 1
      BY <3>1, <3>2
    <3> QED
      BY <3>3 DEF Fresh, L, r
  <2>4. \A d \in Domains : Fresh(begin[d], 2)'
    BY <2>1, <2>2, <2>3 DEF Fresh, Domains
  <2> QED
    BY <2>1, <2>4 DEF FreshOK, Reported
<1>6. CASE \/ TestAlarm \/ Iterate
           \/ ReadEnd("pkg", "pkg_end", "dram_end") \/ ReadEnd("dram", "dram_end", "end")
           \/ Report
  <2>1. /\ pc \in {"loop", "op", "pkg_end", "dram_end", "end"} /\ begin' = begin
        /\ pc' \in {"loop", "op", "pkg_end", "dram_end", "end", "alarm", "aborted"}
    BY <1>6 DEF TestAlarm, Iterate, ReadEnd, Report, Step
  <2>2. \A d \in Domains : Fresh(begin[d], 2)'
    BY <2>1 DEF FreshOK, Fresh
  <2> QED
    BY <2>1, <2>2 DEF FreshOK, Reported
<1>7. CASE AlarmFires \/ UNCHANGED vars
  <2>1. UNCHANGED <<pc, sample, clock, period, begin>>
    BY <1>7 DEF AlarmFires, vars
  <2> QED
    BY <2>1 DEF FreshOK, Fresh, Reported
<1> QED
  BY <1>1, <1>2, <1>3, <1>4, <1>5, <1>6, <1>7 DEF Next, Ending

(* What holds after every step of the samples. *)
IInv == TypeInv /\ SetUpOK /\ IterationsOK /\ SpansOK /\ FreshOK

LEMMA Inductive ==
  ASSUME SetUpInTime
  PROVE  Init /\ [][Next]_vars => []IInv
<1>1. Init => IInv
  BY InitType, InitSetUp DEF IInv
<1>2. IInv /\ [Next]_vars => IInv'
  BY NextType, NextSetUp, NextSpans, NextFresh DEF IInv
<1> QED
  BY <1>1, <1>2, PTL

(* The loop of every sample runs at least one operation, if the steps      *)
(* before it take less than the second of the alarm: no alarm of an        *)
(* earlier sample ends it.                                                 *)
THEOREM SampleNotEmpty ==
  ASSUME SetUpInTime
  PROVE  Spec => []SomeOperation
<1>1. IInv => SomeOperation
  BY DEF IInv, SpansOK, RowOK, SomeOperation
<1> QED
  BY <1>1, Inductive, PTL DEF Spec

-----------------------------------------------------------------------------
(* Energy. *)

(* The energy that a counter shows before it wraps, times 1e9, fits        *)
(* uint64_t.                                                               *)
CounterFits == CounterSize * EnergyUnit <= LongSize

(* Of a counter that does not wrap, the reads differ by what was used.     *)
LEMMA CounterDifference ==
  ASSUME TypeInv, NEW d \in Domains, ~ Wrapped(d),
         Updated(begin[d]) <= Updated(end[d])
  PROVE  /\ Difference(d) = power[d] * (Updated(end[d]) - Updated(begin[d]))
         /\ Difference(d) < CounterSize
<1> DEFINE b == Updated(begin[d])
           e == Updated(end[d])
           P == power[d]
           q == (P * b) \div CounterSize
<1>1. P \in Nat /\ b \in Nat /\ e \in Nat /\ b <= e
  BY UpdatedType, Constants DEF TypeInv
<1>2. P * b \in Nat /\ P * e \in Nat /\ P * (e - b) = P * e - P * b /\ P * b <= P * e
  <2>1. /\ b * P \in Nat /\ b * P = P * b /\ e * P \in Nat /\ e * P = P * e
        /\ b * P <= e * P
    BY <1>1, Times
  <2>2. e - b \in Nat /\ b + (e - b) = e
    BY <1>1
  <2>3. (b + (e - b)) * P = b * P + (e - b) * P /\ (e - b) * P = P * (e - b)
        /\ (e - b) * P \in Nat
    BY <1>1, <2>2, Times
  <2> HIDE DEF P, b, e
  <2> QED
    BY <2>1, <2>2, <2>3
<1>3. (P * e) \div CounterSize = q
  BY DEF Wrapped, Energy
<1> DEFINE rb == (P * b) % CounterSize
           re == (P * e) % CounterSize
<1>4. q \in Nat /\ rb \in 0 .. CounterSize - 1 /\ P * b = q * CounterSize + rb
  BY <1>2, DivMod, Constants
<1>5. re \in 0 .. CounterSize - 1 /\ P * e = q * CounterSize + re
  BY <1>2, <1>3, DivMod, Constants
<1>6. Difference(d) = (re - rb) % LongSize
  BY DEF Difference, read_msr, Energy
<1> HIDE DEF P, b, e, q, rb, re
<1>7. q * CounterSize \in Nat
  BY <1>4, Times, Constants
<1>8. re - rb = P * (e - b) /\ re - rb \in 0 .. CounterSize - 1
  BY <1>2, <1>4, <1>5, <1>7, Constants
<1>9. (re - rb) % LongSize = re - rb
  <2> DEFINE r == re - rb
  <2>1. r \in 0 .. LongSize - 1 /\ LongSize \in Nat \ {0}
    BY <1>8, Constants
  <2> HIDE DEF r
  <2>2. 0 * LongSize + r = r
    BY <2>1
  <2>3. r % LongSize = r
    BY <2>1, <2>2, QuotientOf
  <2> QED
    BY <2>3 DEF r
<1> QED
  BY <1>6, <1>8, <1>9, Constants DEF P, b, e

(* The quotient of an energy that fits, between the bounds of IsMean.      *)
LEMMA MeanBounds ==
  ASSUME NEW F \in Nat, NEW t \in Nat, NEW n \in Nat \ {0},
         NEW low \in Int, NEW high \in Nat, low < t, t <= high
  PROVE  LET E == (F * t) \div n
         IN E \in Nat /\ (E + 1) * n > F * low /\ E * n <= F * high
<1> DEFINE E == (F * t) \div n
           r == (F * t) % n
<1>1. F * t \in Nat /\ F * high \in Nat /\ F * low \in Int
  OBVIOUS
<1>2. F * t <= F * high /\ F * low <= F * t
  <2>1. t * F <= high * F /\ t * F = F * t /\ high * F = F * high
    BY Times
  <2>2. F * low <= F * t
    <3>1. CASE low \in Nat
      <4>1. low * F <= t * F /\ low * F = F * low
        BY <3>1, Times
      <4> QED
        BY <2>1, <4>1
    <3>2. CASE low \notin Nat
      <4>1. F * low <= 0
        BY <3>2
      <4> QED
        BY <1>1, <4>1
    <3> QED
      BY <3>1, <3>2
  <2> QED
    BY <2>1, <2>2
<1>3. E \in Nat /\ r \in 0 .. n - 1 /\ F * t = E * n + r
  BY <1>1, DivMod
<1> HIDE DEF E, r
<1>4. E * n \in Nat /\ (E + 1) * n = E * n + n
  BY <1>3, Times
<1>5. (E + 1) * n > F * low /\ E * n <= F * high
  <2> DEFINE X == F * t
             Y == F * high
             Z == F * low
             G == E * n
  <2>1. /\ X \in Nat /\ Y \in Nat /\ Z \in Int /\ X <= Y /\ Z <= X /\ G \in Nat
        /\ X = G + r /\ (E + 1) * n = G + n
    BY <1>1, <1>2, <1>3, <1>4
  <2> HIDE DEF X, Y, Z, G
  <2>2. G + n > Z /\ G <= Y
    BY <1>3, <2>1
  <2> QED
    BY <2>1, <2>2 DEF X, Y, Z, G
<1> QED
  BY <1>3, <1>5 DEF E

(* The energy between the reads of a counter is that of the time between   *)
(* two updates: one at most a sampling period before the end, and one at   *)
(* most two steps and a poll before the beginning.                         *)
LEMMA UpdatesBetween ==
  ASSUME TypeInv, RowOK, NEW d \in Domains, Fresh(begin[d], 2)
  PROVE  LET t == Updated(end[d]) - Updated(begin[d])
         IN /\ t \in Nat
            /\ iterations * Shortest - NsPerMs < t
            /\ t <= iterations * Longest(OpTicks) + (4 * Longest(StepTicks) + 1)
<1> DEFINE b == begin[d]
           e == end[d]
           L == Longest(StepTicks)
           short == iterations * Shortest
           long == iterations * Longest(OpTicks)
<1>1. /\ b \in Nat /\ e \in Nat /\ L \in Nat /\ short \in Nat /\ long \in Nat
      /\ NsPerMs \in Nat
  BY Extremes, Times, Constants DEF TypeInv
<1>2. b + short <= e /\ e <= b + long + 2 * L /\ b <= e
  <2>1. b + short <= e /\ e <= b + long + 2 * L
    BY DEF RowOK, Between
  <2> HIDE DEF b, e, short, long, L
  <2> QED
    BY <1>1, <2>1
<1>3. /\ Updated(b) \in Nat /\ b % NsPerMs \in Nat /\ b = Updated(b) + (b % NsPerMs)
      /\ Updated(e) \in Nat /\ e % NsPerMs \in 0 .. NsPerMs - 1
      /\ e = Updated(e) + (e % NsPerMs)
  BY <1>1, UpdatedType
<1>4. Updated(b) <= Updated(e)
  BY <1>1, <1>2, UpdateAges
<1>5. b % NsPerMs <= 2 * L + 1
  BY DEF Fresh
<1> HIDE DEF b, e, short, long, L
<1>6. /\ Updated(e) - Updated(b) \in Nat
      /\ short - NsPerMs < Updated(e) - Updated(b)
      /\ Updated(e) - Updated(b) <= long + (4 * L + 1)
  BY <1>1, <1>2, <1>3, <1>4, <1>5
<1> QED
  BY <1>6 DEF b, e, short, long, L

LEMMA RowIsMean ==
  ASSUME CounterFits, TypeInv, RowOK, NEW d \in Domains, ~ Wrapped(d), Fresh(begin[d], 2)
  PROVE  IsMean(d)
<1> DEFINE n == iterations
           t == Updated(end[d]) - Updated(begin[d])
           P == power[d]
           F == P * EnergyUnit
           low == n * Shortest - NsPerMs
           high == n * Longest(OpTicks) + (4 * Longest(StepTicks) + 1)
<1>1. /\ n \in Nat \ {0} /\ P \in Nat /\ report.iterations = n
      /\ report.energy[d] \in PerOperation(d)
  BY Constants DEF TypeInv, RowOK
<1>2. t \in Nat /\ low < t /\ t <= high
  BY UpdatesBetween
<1>3. low \in Int /\ high \in Nat
  <2>1. /\ Longest(StepTicks) \in Nat /\ n * Shortest \in Nat /\ n * Longest(OpTicks) \in Nat
        /\ NsPerMs \in Nat
    BY <1>1, Extremes, Times, Constants
  <2> QED
    BY <2>1
<1>4. Difference(d) = P * t /\ Difference(d) < CounterSize
  <2>1. Updated(begin[d]) \in Nat /\ Updated(end[d]) \in Nat
    BY UpdatedType DEF TypeInv
  <2>2. Updated(begin[d]) <= Updated(end[d])
    BY <1>2, <2>1
  <2> QED
    BY <2>2, CounterDifference
<1> HIDE DEF n, t, P, low, high
<1>5. F \in Nat /\ P * t * EnergyUnit = F * t
  BY <1>1, <1>2, Constants
<1> DEFINE E == (F * t) \div n
<1> HIDE DEF F
<1>6. E \in Nat /\ (E + 1) * n > F * low /\ E * n <= F * high
  BY <1>1, <1>2, <1>3, <1>5, MeanBounds
<1>7. E < LongSize
  <2> DEFINE D == P * t
  <2>1. D \in Nat /\ D < CounterSize /\ EnergyUnit \in Nat /\ CounterSize \in Nat
    BY <1>1, <1>2, <1>4, Times, Constants
  <2> HIDE DEF D
  <2>2. D * EnergyUnit \in Nat /\ D * EnergyUnit < LongSize
    <3>1. CASE EnergyUnit = 0
      BY <2>1, <3>1, Constants
    <3>2. CASE EnergyUnit # 0
      <4>1. (D + 1) * EnergyUnit = D * EnergyUnit + EnergyUnit
            /\ (D + 1) * EnergyUnit <= CounterSize * EnergyUnit
            /\ D * EnergyUnit \in Nat /\ CounterSize * EnergyUnit \in Nat
        BY <2>1, Times
      <4> QED
        BY <2>1, <3>2, <4>1, Constants DEF CounterFits
    <3> QED
      BY <3>1, <3>2
  <2> DEFINE X == F * t
             r == X % n
  <2>3. X \in Nat /\ X < LongSize
    BY <1>5, <2>2 DEF D
  <2> HIDE DEF E, X
  <2>4. E = X \div n
    BY DEF E, X
  <2>5. r \in 0 .. n - 1 /\ X = E * n + r
    BY <1>1, <2>3, <2>4, DivMod
  <2> HIDE DEF r
  <2>6. 1 * E <= n * E /\ E * n = n * E /\ E * n \in Nat
    BY <1>1, <1>6, Times DEF E
  <2> QED
    BY <1>1, <1>6, <2>3, <2>5, <2>6, Constants DEF E
<1>8. report.energy[d] = E
  <2>1. (Difference(d) * EnergyUnit) \div iterations = E
    BY <1>4, <1>5 DEF n
  <2> QED
    BY <1>1, <1>6, <1>7, <2>1, Constants DEF PerOperation, n
<1> HIDE DEF E
<1> QED
  BY <1>1, <1>6, <1>8 DEF IsMean, low, high, F, P

(* The mean energy per operation of every row lies between the energy of   *)
(* the shortest operation, less a sampling period of all operations, and   *)
(* that of the longest together with the steps around the loop, unless the *)
(* counter wraps in the sample.                                            *)
THEOREM EnergyIsMean ==
  ASSUME SetUpInTime, CounterFits
  PROVE  Spec => []EnergyUnlessWrapped
<1>1. IInv => EnergyUnlessWrapped
  BY RowIsMean DEF IInv, SpansOK, FreshOK, EnergyUnlessWrapped
<1> QED
  BY <1>1, Inductive, PTL DEF Spec

=============================================================================

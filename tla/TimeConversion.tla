---------------------------- MODULE TimeConversion ----------------------------
(***************************************************************************)
(* timespec_to_ns and time_diff of benchmark.h, with the rounding of the   *)
(* double precision they compute in.                                       *)
(***************************************************************************)
EXTENDS Integers

CONSTANTS
  NsPerSec,      \* 1e9
  Exact          \* 2^53: doubles hold all integers below it, and every second one up to twice it

ASSUME ConversionAssumption ==
  NsPerSec \in Nat \ {0} /\ Exact \in Nat \ {0} /\ Exact % 2 = 0

(* The distances of the doubles next to integers of 64 bits. *)
Ulps == {1, 2, 4, 8, 16, 32, 64, 128, 256, 512, 1024, 2048}

(* The distance of the doubles next to an integer x of 64 bits that is too *)
(* large to be exact; 1 for an x that is exact.                            *)
Ulp(x) ==
  CHOOSE u \in Ulps : x < u * Exact /\ (u = 1 \/ x >= (u \div 2) * Exact)

(* To the nearest multiple of u, a tie to the even one. *)
RoundTo(x, u) ==
  IF 2 * (x % u) > u \/ (2 * (x % u) = u /\ (x \div u) % 2 = 1)
  THEN (x \div u + 1) * u
  ELSE (x \div u) * u
Round(x) == RoundTo(x, Ulp(x))

(* Times are in nanoseconds; their struct timespec is derived from them.   *)
tv_sec(t) == t \div NsPerSec
tv_nsec(t) == t % NsPerSec

SecondsInFloat(t) ==               \* mutant: tv_sec * 1e9f
  Round(RoundTo(tv_sec(t) * NsPerSec, 8) + tv_nsec(t))

InFloat(t) ==                      \* mutant: all in single precision
  RoundTo(t, 8)

timespec_to_ns(t) == Round(Round(tv_sec(t) * NsPerSec) + tv_nsec(t))

(* time_diff asserts Later and returns the difference. *)
Later(start, end) == timespec_to_ns(start) < timespec_to_ns(end)
time_diff(start, end) == timespec_to_ns(end) - timespec_to_ns(start)
=============================================================================

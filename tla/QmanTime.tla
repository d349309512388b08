------------------------------ MODULE QmanTime ------------------------------
(***************************************************************************)
(* Wraparound-safe timestamp arithmetic of the TAS queue manager           *)
(* (src/tas/fast/qman.c).  Timestamps are TimestampBits-bit unsigned       *)
(* integers (TIMESTAMP_BITS = 32 in the code; the model shrinks the width  *)
(* so that TLC can reach the wrap point).                                  *)
(***************************************************************************)
EXTENDS Integers

CONSTANT TimestampBits      \* TIMESTAMP_BITS

ASSUME TimestampBits \in Nat \ {0}

TsMod      == 2^TimestampBits            \* TIMESTAMP_MASK + 1
Middle     == 2^(TimestampBits - 1)      \* 1ULL << (TIMESTAMP_BITS - 1)
Timestamps == 0 .. TsMod - 1

\* Unsigned addition of two timestamps, wrapping at the timestamp width.
TsAdd(a, b) == (a + b) % TsMod

\* Unsigned subtraction a - b of two timestamps (uint32_t arithmetic).
TsSub(a, b) == (a - b) % TsMod

\* Bug: the start of the negative interval is not masked to the width.
RelTimeBug(cur, ts) ==
  CASE cur < Middle ->
         LET start == cur - Middle
         IN  IF start <= ts /\ ts < TsMod THEN ts - start - Middle
                                          ELSE ts - cur
    [] cur = Middle -> ts - cur
    [] OTHER ->
         LET end == ((cur + Middle) % TsMod) + 1
         IN  IF 0 <= cur /\ ts < end THEN ts + (TsMod - cur)
                                     ELSE ts - cur

(***************************************************************************)
(* rel_time(cur_ts, ts_in): the signed distance from cur_ts to ts_in.      *)
(* The three branches are the code's: the negative interval split in two  *)
(* when cur_ts is in the lower half, no split at the middle, the positive  *)
(* interval split when cur_ts is in the upper half.  The uint64_t          *)
(* differences are converted to int64_t, which yields their integer value. *)
(***************************************************************************)
RelTime(cur, ts) ==
  CASE cur < Middle ->
         LET start == (cur - Middle) % TsMod
         IN  IF start <= ts /\ ts < TsMod THEN ts - start - Middle
                                          ELSE ts - cur
    [] cur = Middle -> ts - cur
    [] OTHER ->
         LET end == ((cur + Middle) % TsMod) + 1
         IN  IF 0 <= cur /\ ts < end THEN ts + (TsMod - cur)
                                     ELSE ts - cur

\* timestamp_lessthaneq(t, a, b): a <= b relative to the virtual time vts.
TimestampLessThanEq(vts, a, b) == RelTime(vts, a) <= RelTime(vts, b)

=============================================================================

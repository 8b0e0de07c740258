-------------------------------- MODULE Time --------------------------------
(***************************************************************************)
(* Points in time and durations (tendermint/src/types/time): a whole       *)
(* number of seconds and a number of parts of a second, called nanoseconds *)
(* whatever NanosPerSecond is, both of the sign of the duration or, for a  *)
(* point in time, the parts never negative.  An operation that may fail    *)
(* yields a set of at most one value.                                      *)
(***************************************************************************)
EXTENDS Integers

CONSTANTS NanosPerSecond, SecondsPerHour,
          MinSeconds, MaxSeconds,   \* TimestampSeconds: years 1 to 9999
          AbsSeconds                \* ABS_DURATION_SECONDS

ASSUME TimeConstants ==
    /\ NanosPerSecond \in Nat \ {0} /\ SecondsPerHour \in Nat \ {0}
    /\ MinSeconds \in Int /\ MaxSeconds \in Nat /\ MinSeconds < 0
    /\ AbsSeconds \in Nat /\ AbsSeconds > MaxSeconds - MinSeconds

\* Division as the language has it, towards zero, and what it leaves.
Quotient(a, b) == IF a >= 0 THEN a \div b ELSE -((-a) \div b)
Remainder(a, b) == a - b * Quotient(a, b)

-----------------------------------------------------------------------------
(* Durations.                                                              *)

CheckDuration(seconds, nanos) ==
    /\ seconds \in -AbsSeconds .. AbsSeconds
    /\ -NanosPerSecond < nanos /\ nanos < NanosPerSecond
    /\ ~(seconds > 0 /\ nanos < 0) /\ ~(seconds < 0 /\ nanos > 0)

NewDuration(seconds, nanos) ==
    IF CheckDuration(seconds, nanos) THEN {[seconds |-> seconds, nanos |-> nanos]} ELSE {}

Durations ==
    UNION {NewDuration(s, n) : s \in -AbsSeconds .. AbsSeconds, n \in -NanosPerSecond .. NanosPerSecond}

DurationFromNanos(n) == NewDuration(Quotient(n, NanosPerSecond), Remainder(n, NanosPerSecond))
DurationNanos(d) == d.seconds * NanosPerSecond + d.nanos
DurationHours(d) == Quotient(d.seconds, SecondsPerHour)

-----------------------------------------------------------------------------
(* Points in time.                                                         *)

NewTimestamp(seconds, nanos) ==
    IF seconds \in MinSeconds .. MaxSeconds /\ nanos \in 0 .. NanosPerSecond - 1
    THEN {[seconds |-> seconds, nanos |-> nanos]} ELSE {}

Timestamps == [seconds : MinSeconds .. MaxSeconds, nanos : 0 .. NanosPerSecond - 1]

TimestampNanos(t) == t.nanos + t.seconds * NanosPerSecond

\* Whole seconds from the epoch, towards it.
TimestampSeconds(t) == IF t.seconds < 0 /\ t.nanos > 0 THEN t.seconds + 1 ELSE t.seconds

\* Field by field, as the order of the type is derived.
Earlier(t, u) == t.seconds < u.seconds \/ (t.seconds = u.seconds /\ t.nanos < u.nanos)

CheckedAdd(t, d) ==
    LET nanos == t.nanos + d.nanos
        carry == IF nanos >= NanosPerSecond THEN 1 ELSE IF nanos < 0 THEN -1 ELSE 0
    IN  NewTimestamp(t.seconds + d.seconds + carry, nanos - carry * NanosPerSecond)

CheckedSub(t, u) == DurationFromNanos(TimestampNanos(t) - TimestampNanos(u))

\* The key of a point in time, the nearest second, a half one upwards.
FormatRounded(t) == IF 2 * t.nanos >= NanosPerSecond THEN t.seconds + 1 ELSE t.seconds
ParseFormatted(key) == NewTimestamp(key, 0)

-----------------------------------------------------------------------------
(* Checked by evaluation.                                                  *)

\* Sums and differences are exact or refused, at the borders of a second, of
\* the epoch and of the range (checked_add, checked_sub, try_new_from_nanos).
ASSUME TimeIsExact ==
    \A t \in Timestamps :
        /\ \A d \in Durations :
              CheckedAdd(t, d) =
                {u \in Timestamps : TimestampNanos(u) = TimestampNanos(t) + DurationNanos(d)}
        /\ \A u \in Timestamps : \E d \in Durations :
              CheckedSub(u, t) = {d} /\ CheckedAdd(t, d) = {u}

\* A number of nanoseconds is one duration, and hours are whole hours of it
\* although the nanoseconds are not looked at (duration_hours).
ASSUME DurationsAreNanos ==
    \A d \in Durations :
        /\ DurationFromNanos(DurationNanos(d)) = {d}
        /\ DurationHours(d) = Quotient(DurationNanos(d), SecondsPerHour * NanosPerSecond)

\* The derived orders are those of time, for durations because both fields
\* have one sign.
ASSUME OrderIsTime ==
    /\ \A t, u \in Timestamps : Earlier(t, u) <=> TimestampNanos(t) < TimestampNanos(u)
    /\ \A d, e \in Durations : Earlier(d, e) <=> DurationNanos(d) < DurationNanos(e)
    /\ \A t \in Timestamps : TimestampSeconds(t) = Quotient(TimestampNanos(t), NanosPerSecond)

\* The keys of queues are in the order of their times, but a key may be due
\* half a second before its time or stay a fraction behind it, and the key of
\* the last half second of all cannot be read back (format_bytes_rounded,
\* try_from_formatted_bytes).
ASSUME KeysInOrder ==
    /\ \A t, u \in Timestamps : Earlier(t, u) => FormatRounded(t) <= FormatRounded(u)
    /\ \A t \in Timestamps :
          /\ 2 * (FormatRounded(t) * NanosPerSecond - TimestampNanos(t)) \in
                -NanosPerSecond + 1 .. NanosPerSecond
          /\ ParseFormatted(FormatRounded(t)) = {} <=> FormatRounded(t) > MaxSeconds
    /\ \E t, u \in Timestamps : Earlier(t, u) /\ FormatRounded(t) = FormatRounded(u)
=============================================================================

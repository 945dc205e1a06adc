------------------------------ MODULE Arrivals ------------------------------
(***************************************************************************)
(* The arrival schedules of bench/arrivals.py: constant_arrivals, the one  *)
(* that the drivers use, and poisson_arrivals and bursty_arrivals, whose   *)
(* random draws are any of a set of gaps.                                  *)
(*                                                                         *)
(* Time is in whole ticks, and a constant rate is a fraction, so that the  *)
(* arithmetic is exact.  Definitions ending in Bug are seeded faults, see  *)
(* Batcher.                                                                *)
(***************************************************************************)
EXTENDS Naturals, Sequences, FiniteSets, FiniteSetsExt, SequencesExt

(* Positive numbers and sets of them; a gap may also be zero.              *)
CONSTANTS
    Durations,  \* duration_s
    Nums, Dens, \* rate_per_s, as a fraction
    Interval,   \* interval_s
    LowGaps,    \* what expovariate may draw at the low rate
    HighGaps    \* and at the high rate

VARIABLES
    kind,      \* "constant", "poisson" or "bursty"
    duration,
    num, den,  \* the constant rate
    index,     \* of the constant schedule
    start,     \* interval_start
    local,     \* local_offset, of Poisson arrivals offset
    gaps,      \* the rate of the interval, by what it draws
    offsets    \* the result; the constant one in index, not in time

vars == <<kind, duration, num, den, index, start, local, gaps, offsets>>

-----------------------------------------------------------------------------
(* The quotient is rounded down.                                           *)
CountBug == Max({1, (num * duration) \div den})

(* How many indices are tried: rate times duration, rounded up.  The 1e-12 *)
(* that the code takes off first undoes what floats add to a product that  *)
(* is whole; fractions add nothing, and it is left out.                    *)
Count == Max({1, (num * duration + den - 1) \div den})

(* index / rate_per_s < duration_s                                         *)
Before(i) == i * den < duration * num

Init ==
    /\ kind \in {"constant", "poisson", "bursty"}
    /\ duration \in Durations
    /\ num \in Nums /\ den \in Dens
    /\ index = 0 /\ start = 0 /\ local = 0
    /\ gaps \in {LowGaps, HighGaps}
    /\ kind # "bursty" => gaps = LowGaps
    /\ offsets = <<>>

(* One index of the constant schedule.                                     *)
Tick ==
    /\ kind = "constant" /\ index < Count
    /\ index' = index + 1
    /\ offsets' = IF Before(index) THEN Append(offsets, index) ELSE offsets
    /\ UNCHANGED <<kind, duration, num, den, start, local, gaps>>

-----------------------------------------------------------------------------
Least(a, b) == IF a <= b THEN a ELSE b

(* The loop of Poisson arrivals runs over the whole duration, that of      *)
(* bursty ones over an interval, the last of which may be cut short.       *)
End == IF kind = "poisson" THEN duration ELSE Least(duration, start + Interval)

Running == kind # "constant" /\ start < duration

(* The first arrival after an interval is kept.                            *)
DrawBug ==
    /\ Running
    /\ \E gap \in gaps :
        /\ offsets' = Append(offsets, start + local + gap)
        /\ IF start + local + gap < End
           THEN local' = local + gap /\ UNCHANGED <<start, gaps>>
           ELSE /\ start' = End /\ local' = 0
                /\ gaps' \in IF kind = "bursty" THEN {LowGaps, HighGaps}
                             ELSE {gaps}
    /\ UNCHANGED <<kind, duration, num, den, index>>

(* The offset is carried into the next interval.                           *)
CarryBug(gap) == start + local + gap - End

(* The next interval starts from nothing.                                  *)
Carry(gap) == 0

(* One draw: an arrival, or the end of the interval, after which the next  *)
(* one draws its rate.                                                     *)
Draw ==
    /\ Running
    /\ \E gap \in gaps :
        IF start + local + gap < End
        THEN /\ local' = local + gap
             /\ offsets' = Append(offsets, start + local + gap)
             /\ UNCHANGED <<start, gaps>>
        ELSE /\ start' = End /\ local' = Carry(gap)
             /\ gaps' \in IF kind = "bursty" THEN {LowGaps, HighGaps}
                          ELSE {gaps}
             /\ UNCHANGED offsets
    /\ UNCHANGED <<kind, duration, num, den, index>>

Next == Tick \/ Draw

Spec == Init /\ [][Next]_vars

-----------------------------------------------------------------------------
(* The constant schedule has exactly the indices whose time is within the  *)
(* duration, from the first: none is lost by rounding the product, and     *)
(* none is at the end.                                                     *)
ConstantIsExact ==
    kind = "constant" /\ index = Count =>
        ToSet(offsets) = {i \in 0..(duration * num) : Before(i)}

(* A schedule is in the order of time, across the intervals too, and ends  *)
(* before the duration does: run_open_loop measures lateness from it.      *)
InOrder ==
    kind # "constant" =>
        /\ \A k \in 1..Len(offsets) : offsets[k] < duration
        /\ \A k \in 1..(Len(offsets) - 1) : offsets[k] <= offsets[k + 1]

(* An arrival belongs to the rate of its own interval: what the rate of an *)
(* interval draws beyond its end does not thin out the next one.           *)
OwnRate ==
    [][kind = "bursty" /\ offsets' # offsets =>
        LET new == offsets'[Len(offsets')]
            earlier == {offsets[k] : k \in 1..Len(offsets)}
            from == Max({start} \union {o \in earlier : o >= start})
        IN new - from \in gaps /\ new < start + Interval]_vars

(* The schedule that a run is measured against is the one asked for.       *)
ArrivalsExact == [](ConstantIsExact /\ InOrder) /\ OwnRate
=============================================================================

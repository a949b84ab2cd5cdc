------------------------------- MODULE Phases -------------------------------
(***************************************************************************)
(* The Load Emulator's phase sequence (pkg/loademulator/phases.go): the    *)
(* file is read once, then every cycle asks for the multiplier of the      *)
(* nominal request rate at the time that has passed since the first cycle. *)
(*                                                                         *)
(* Ratios and multipliers are fractions <<numerator, denominator>>, time   *)
(* is counted in units; the code computes in floating point.               *)
(***************************************************************************)
EXTENDS Integers, Sequences, FiniteSetsExt

CONSTANTS Files,      \* the phase files: sequences of an integer duration and a ratio
          MaxGap,     \* the longest time between two cycles
          MaxElapsed  \* bound on the time that passes

VARIABLES phases,    \* the sequence loaded
          elapsed,   \* since the clock was started
          reading    \* what GetMultiplier returned: the multiplier and the phase

vars == <<phases, elapsed, reading>>

Times(a, b) == <<a[1] * b[1], a[2] * b[2]>>
Minus(a, b) == <<a[1] * b[2] - b[1] * a[2], a[2] * b[2]>>
AtMost(a, b) == a[1] * b[2] <= b[1] * a[2]
Equal(a, b) == a[1] * b[2] = b[1] * a[2]
Size(a) == IF a[1] < 0 THEN <<-a[1], a[2]>> ELSE a

\* LoadPhasesFromFile rejects what it returns an error for; the emulator then exits
Accepted(f) ==
    /\ f # <<>>
    /\ \A i \in DOMAIN f :
           /\ f[i].duration >= 0
           /\ f[i].duration = 0 => i = Len(f)
           /\ f[i].duration > 0 => f[i].ratio[1] > 0

\* Mutant: the ratios are not chained.
StartUnchained(ps) ==
    LET at[i \in 1..(Len(ps) + 1)] ==
            IF i = 1 THEN [time |-> 0, mult |-> <<1, 1>>]
            ELSE [time |-> at[i - 1].time + ps[i - 1].duration, mult |-> ps[i - 1].ratio]
    IN  at

\* cumTime and cumMult when the loop reaches a phase, and behind the last one
Start(ps) ==
    LET at[i \in 1..(Len(ps) + 1)] ==
            IF i = 1 THEN [time |-> 0, mult |-> <<1, 1>>]
            ELSE [time |-> at[i - 1].time + ps[i - 1].duration,
                  mult |-> Times(at[i - 1].mult, ps[i - 1].ratio)]
    IN  at

\* linear from cumMult to cumMult * ratio
Ramp(ps, i, t) ==
    LET d == ps[i].duration
        r == ps[i].ratio
    IN  Times(Start(ps)[i].mult,
              <<d * r[2] + (t - Start(ps)[i].time) * (r[1] - r[2]), d * r[2]>>)

\* the first phase that is not over, or the value all of them lead to
GetMultiplier(ps, t) ==
    LET open == {i \in DOMAIN ps :
                    ps[i].duration = 0 \/ t < Start(ps)[i].time + ps[i].duration}
    IN  IF open = {} THEN [mult |-> Start(ps)[Len(ps) + 1].mult, phase |-> Len(ps)]
        ELSE LET i == Min(open) IN
             [mult |-> IF ps[i].duration = 0 THEN Start(ps)[i].mult ELSE Ramp(ps, i, t),
              phase |-> i]

Init ==
    /\ phases \in {f \in Files : Accepted(f)}
    /\ elapsed = 0 /\ reading = GetMultiplier(phases, 0)

\* the emulator's next cycle
Cycle(gap) ==
    /\ elapsed' = Min({elapsed + gap, MaxElapsed})
    /\ reading' = GetMultiplier(phases, elapsed')
    /\ UNCHANGED phases

Next == \E gap \in 1..MaxGap : Cycle(gap)

Spec == Init /\ [][Next]_vars

-----------------------------------------------------------------------------
(***************************************************************************)
(* Properties                                                              *)
(***************************************************************************)

\* The ratios of the phases up to the n-th, multiplied
Chained(ps) ==
    LET c[n \in 0..Len(ps)] ==
            IF n = 0 THEN <<1, 1>>
            ELSE Times(c[n - 1], IF ps[n].duration = 0 THEN <<1, 1>> ELSE ps[n].ratio)
    IN  c

\* The rate has no jump between two phases, nor at the end: between two cycles it changes by
\* no more than the steepest of the ramps does in that time, and once every phase is over it
\* stays where the product of the ratios has led it, terminal phase or not.
NoJump ==
    /\ \E i \in DOMAIN phases :
          LET rise == Minus(Chained(phases)[i], Chained(phases)[i - 1])
              d == phases[i].duration
          IN  AtMost(Size(Minus(reading'.mult, reading.mult)),
                     IF d = 0 THEN <<0, 1>> ELSE Times(Size(rise), <<elapsed' - elapsed, d>>))
    /\ elapsed' >= Start(phases)[Len(phases) + 1].time =>
          Equal(reading'.mult, Chained(phases)[Len(phases)])

=============================================================================

-------------------------- MODULE MCMeasureRawdata --------------------------
(* Small instances of MeasureRawdata: four ticks to a second, ints of three bits. *)
EXTENDS MeasureRawdata

\* What a stack slot may hold: a time in the past, one so far in the future that
\* the difference does not fit an int, and fields no clock would return.
MCGarbage == {[sec |-> 0, nsec |-> 0], [sec |-> 6, nsec |-> 3],
              [sec |-> -1, nsec |-> 9]}

\* The clock is set back by less than a second, forwards by more than one, and
\* by more than an int of seconds can tell.
MCJumps == {-3, 5, 17}

\* Intervals no nanosleep() takes, without any sleep, and of half a second.
MCIntervals == {-1, 0, 2}
=============================================================================

------------------------------ MODULE PulseClock ------------------------------
(***************************************************************************)
(* What the pulse scheduler promises its readers, whoever drives it and    *)
(* however often: pulses do not overlap, and the pulse index counts the    *)
(* pulses that have ended.  Everything that stamps a pulse index on an     *)
(* event, a memory or a frame relies on the index being constant while a   *)
(* pulse runs.  PulseScheduler is shown to implement this module.          *)
(***************************************************************************)
EXTENDS Naturals

VARIABLES
    busy,    \* a pulse is executing
    index    \* PulseScheduler.pulseIndex

clockVars == <<busy, index>>

ClockInit == busy = FALSE /\ index = 0

\* A pulse begins; the index it will stamp on its events is already known.
BeginClockPulse == ~busy /\ busy' = TRUE /\ index' = index

\* The one running pulse ends, and only that moves the index.
EndClockPulse == busy /\ busy' = FALSE /\ index' = index + 1

ClockNext == BeginClockPulse \/ EndClockPulse

ClockSpec == ClockInit /\ [][ClockNext]_clockVars
===============================================================================

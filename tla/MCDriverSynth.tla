--------------------------- MODULE MCDriverSynth ----------------------------
EXTENDS DriverSynth

Timing(stale, grace, toFallback, wait, toSynth) ==
    [staleLimit |-> stale, graceHold |-> grace, blendToFallback |-> toFallback,
     stableBeforeSynth |-> wait, blendToSynth |-> toSynth]

Slow == Timing(1, 1, 2, 1, 2)
MCTimings == {Slow, Timing(1, 0, 2, 0, 0)}
=============================================================================

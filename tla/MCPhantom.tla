----------------------------- MODULE MCPhantom -----------------------------
EXTENDS Phantom

\* One configuration has lost_hold below synth_hold and shorter blends, the other
\* takes the defaults.
MCDefaults == [blendOut |-> 2, blendIn |-> 2, reckon |-> 3, synth |-> 3, lost |-> 4]
MCConfigs  == {[blendOut |-> 1, blendIn |-> 1, reckon |-> 0, synth |-> 0, lost |-> 2],
               [f \in Thresholds |-> 0]}
=============================================================================

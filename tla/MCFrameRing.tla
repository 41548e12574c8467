---------------------------- MODULE MCFrameRing ----------------------------
EXTENDS FrameRing
=============================================================================

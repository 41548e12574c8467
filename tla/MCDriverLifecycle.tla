------------------------- MODULE MCDriverLifecycle --------------------------
EXTENDS DriverLifecycle
=============================================================================

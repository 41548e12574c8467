-------------------------- MODULE MCControlMessage --------------------------
EXTENDS ControlMessage
=============================================================================

---------------------------- MODULE MCOscRouter ----------------------------
EXTENDS OscRouter
=============================================================================

-------------------------- MODULE MCHostSupervisor --------------------------
EXTENDS HostSupervisor
=============================================================================

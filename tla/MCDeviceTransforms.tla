------------------------- MODULE MCDeviceTransforms -------------------------
EXTENDS DeviceTransforms
=============================================================================

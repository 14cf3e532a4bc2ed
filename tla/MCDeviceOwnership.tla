------------------------- MODULE MCDeviceOwnership -------------------------
EXTENDS DeviceOwnership
=============================================================================

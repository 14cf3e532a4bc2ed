--------------------------- MODULE MCDeviceHealth ---------------------------
EXTENDS DeviceHealth

\* Clocks that run ahead, late readings on both sides of CronPeriod and one far too
\* old, and messages without timestamp.
AnyStamp == {Null, -2, 0, 1, 5, 6, 20}
=============================================================================

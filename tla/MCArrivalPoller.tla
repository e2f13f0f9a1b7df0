--------------------------- MODULE MCArrivalPoller ---------------------------
\* Small instances of ArrivalPoller for TLC.
EXTENDS ArrivalPoller
=============================================================================

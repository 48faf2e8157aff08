--------------------------- MODULE MCLocalVolume ---------------------------
EXTENDS LocalVolume

CONSTANTS dir, dev
=============================================================================

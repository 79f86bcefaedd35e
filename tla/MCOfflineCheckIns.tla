------------------------- MODULE MCOfflineCheckIns -------------------------
EXTENDS OfflineCheckIns
=============================================================================

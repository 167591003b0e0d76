--------------------------- MODULE MCJobTransfer ---------------------------
EXTENDS JobTransfer
=============================================================================

----------------------------- MODULE MCNmeaLine -----------------------------
EXTENDS NmeaLine
=============================================================================

------------------------------ MODULE MCGpsHal ------------------------------
EXTENDS GpsHal
=============================================================================

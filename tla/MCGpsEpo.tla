------------------------------ MODULE MCGpsEpo ------------------------------
EXTENDS GpsEpo
=============================================================================

--------------------------- MODULE MCFingerprint ---------------------------
EXTENDS Fingerprint
=============================================================================

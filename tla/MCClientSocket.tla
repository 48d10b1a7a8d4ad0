--------------------------- MODULE MCClientSocket ---------------------------
EXTENDS ClientSocket
=============================================================================

------------------------------ MODULE MCAtTest ------------------------------
EXTENDS AtTest
=============================================================================

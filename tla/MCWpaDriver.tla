---------------------------- MODULE MCWpaDriver -----------------------------
EXTENDS WpaDriver
=============================================================================

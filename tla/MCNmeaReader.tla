---------------------------- MODULE MCNmeaReader ----------------------------
EXTENDS NmeaReader, TLC

\* The reader treats all satellites whose number it accepts alike.
SvSymmetry == Permutations(Svs)
=============================================================================

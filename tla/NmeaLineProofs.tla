--------------------------- MODULE NmeaLineProofs ---------------------------
(***************************************************************************)
(* Theorems about NmeaLine, for every size of the buffer and every length  *)
(* of a line.  BufferIsLine is the inductive invariant: what is handed     *)
(* over and what is skipped follow from it at the end of each line.        *)
(***************************************************************************)
EXTENDS NmeaLine, TLAPS

\* Every call of nmea_reader_addc keeps pos inside the buffer.
LEMMA TypeStep ==
    ASSUME TypeOK, [Next]_vars
    PROVE  TypeOK'
<1> USE LineAssumption
<1>1. pos' \in 0..(Size - 1) /\ len' \in Nat /\ line' \in Nat /\ prev' \in Nat
      /\ handed' \in Nat
  BY DEF TypeOK, Next, vars, Character, Newline, nmea_reader_addc, addc_skip,
       addc_overflow, Full, addc_store
<1>2. overflow' \in BOOLEAN
  BY Zenon DEF TypeOK, Next, vars, Character, Newline, nmea_reader_addc,
       addc_skip, addc_overflow, Full, addc_store
<1> QED
  BY <1>1, <1>2 DEF TypeOK

\* No character is ever written outside NmeaReader.in.
THEOREM TypeCorrect == Spec => []TypeOK
<1>1. Init => TypeOK
  <2> SUFFICES ASSUME Init PROVE TypeOK
    OBVIOUS
  <2>1. overflow \in BOOLEAN
    BY Zenon DEF Init
  <2> QED
    BY <2>1, LineAssumption DEF Init, TypeOK
<1>2. TypeOK /\ [Next]_vars => TypeOK'
  BY TypeStep
<1> QED
  BY <1>1, <1>2, PTL DEF Spec

\* Whatever is handed to nmea_reader_parse and nmea_cb is a whole line, and a
\* line that fits is skipped only after one that was a character too long.
THEOREM WholeLines == Spec => []LinesAreHanded
<1> DEFINE IInv == BufferIsLine /\ SentencesAreLines /\ SkippedOnlyIfLong
<1>1. Init => IInv
  BY LineAssumption DEF Init, BufferIsLine, SentencesAreLines, SkippedOnlyIfLong
<1>2. TypeOK /\ IInv /\ [Next]_vars => IInv'
  <2> SUFFICES ASSUME TypeOK, IInv, [Next]_vars PROVE IInv'
    OBVIOUS
  <2> USE LineAssumption DEF TypeOK, BufferIsLine, SentencesAreLines,
          SkippedOnlyIfLong
  <2>1. CASE Character
    BY <2>1 DEF Character, nmea_reader_addc, addc_skip, addc_overflow, Full,
         addc_store
  <2>2. CASE Newline
    <3>1. CASE addc_skip(TRUE)
      <4>1. ~overflow'
        BY <3>1, Zenon DEF addc_skip
      <4> QED
        BY <2>2, <3>1, <4>1 DEF Newline, addc_skip
    <3>2. CASE addc_overflow
      <4>1. overflow'
        BY <3>2, Zenon DEF addc_overflow, Full
      <4> QED
        BY <2>2, <3>2, <4>1 DEF Newline, addc_overflow, Full
    <3>3. CASE addc_store(TRUE)
      <4>1. ~overflow'
        BY <3>3, Zenon DEF addc_store
      <4> QED
        BY <2>2, <3>3, <4>1 DEF Newline, addc_store, Full
    <3> QED
      BY <2>2, <3>1, <3>2, <3>3 DEF Newline, nmea_reader_addc
  <2>3. CASE UNCHANGED vars
    BY <2>3 DEF vars
  <2> QED
    BY <2>1, <2>2, <2>3 DEF Next
<1> QED
  BY <1>1, <1>2, TypeCorrect, PTL DEF Spec, LinesAreHanded
=============================================================================

------------------------------ MODULE NmeaLine ------------------------------
(***************************************************************************)
(* nmea_reader_addc of src/gps/hal/gps_mtk_aosp.c: the characters read     *)
(* from /dev/gps are collected in NmeaReader.in until a newline, and the   *)
(* sentence is handed to nmea_reader_parse and nmea_cb.  A line too long   *)
(* for the buffer is skipped.  Of a character only matters whether it is   *)
(* the newline; the history variables compare what is handed over with the *)
(* lines that were sent.  A read that set_position_mode's interval makes   *)
(* gps_state_thread discard is taken to consist of whole lines.            *)
(***************************************************************************)
EXTENDS Naturals

CONSTANTS
    Size,     \* sizeof(r->in): NMEA_MAX_SIZE + 1
    MaxLine   \* bound on the length of a line, its newline not counted

ASSUME LineAssumption ==
    /\ Size \in Nat /\ Size >= 2
    /\ MaxLine \in Nat

VARIABLES
    pos,       \* NmeaReader.pos
    overflow,  \* NmeaReader.overflow
    len,       \* history: characters of the current line so far
    line,      \* history: length of the last line, its newline included
    prev,      \* history: length of the line before that one
    handed     \* history: length of the sentence handed over at the end of
               \* the last line, 0 if it was skipped

vars == <<pos, overflow, len, line, prev, handed>>

\* (Mutant: any character ends the skipping)
addc_skip_once(newline) ==
    /\ overflow
    /\ overflow' = FALSE
    /\ pos' = pos

\* The character belongs to a sentence being skipped.
addc_skip(newline) ==
    /\ overflow
    /\ overflow' = ~newline
    /\ pos' = pos

\* (Mutant: no place is kept for the terminator)
Full_late == pos >= Size

\* The buffer has no place for another character and the terminator.
Full == pos >= Size - 1

\* There is no room for the character: it is dropped, newline or not, and the
\* sentence is to be skipped.
addc_overflow ==
    /\ ~overflow /\ Full
    /\ overflow' = TRUE
    /\ pos' = 0

\* The character is stored; a newline hands the sentence over.
addc_store(newline) ==
    /\ ~overflow /\ ~Full
    /\ overflow' = overflow
    /\ pos' = IF newline THEN 0 ELSE pos + 1

nmea_reader_addc(newline) ==
    addc_skip(newline) \/ addc_overflow \/ addc_store(newline)

\* The engine sends one more character of the line.
Character ==
    /\ len < MaxLine
    /\ nmea_reader_addc(FALSE)
    /\ len' = len + 1
    /\ UNCHANGED <<line, prev, handed>>

\* The engine ends the line; the parser gets pos + 1 characters unless the
\* line is skipped.
Newline ==
    /\ nmea_reader_addc(TRUE)
    /\ len' = 0
    /\ line' = len + 1
    /\ prev' = line
    /\ handed' = IF overflow \/ overflow' THEN 0 ELSE pos + 1

\* nmea_reader_init.
Init ==
    /\ pos = 0 /\ overflow = FALSE
    /\ len = 0 /\ line = 0 /\ prev = 0 /\ handed = 0

Next == Character \/ Newline

Spec == Init /\ [][Next]_vars

----------------------------------------------------------------------------
(* Properties.                                                             *)

\* Every variable holds a value of its type, and the next character written
\* has its place in the buffer.
TypeOK ==
    /\ pos \in 0..(Size - 1) /\ overflow \in BOOLEAN
    /\ len \in Nat /\ line \in Nat /\ prev \in Nat /\ handed \in Nat

\* What nmea_reader_parse and nmea_cb are given is always one whole line:
\* never the tail of a line that overflowed, never two lines run together.
SentencesAreLines == handed = 0 \/ handed = line

\* A line is skipped only if it does not fit the buffer, or if the line before
\* it filled the buffer to the last place, so that its newline was the
\* character that did not fit.
SkippedOnlyIfLong == line > 0 /\ handed = 0 => line >= Size \/ prev = Size

\* Both: the parser gets every line that fits, and nothing but whole lines.
LinesAreHanded == SentencesAreLines /\ SkippedOnlyIfLong

\* Why: as long as nothing is skipped the buffer holds the line so far, and a
\* line is being skipped only if it is too long already or the last one had
\* exactly one character too many.
BufferIsLine ==
    /\ ~overflow => pos = len
    /\ overflow => pos = 0 /\ (len >= Size \/ line = Size)
=============================================================================

---------------------------- MODULE GpsEpoProofs ----------------------------
(***************************************************************************)
(* Theorems about GpsEpo, for every number of pieces, periods, retry limit *)
(* and last day.  TypeOK is proved part by part.  That a download ends in  *)
(* one whole set needs to know, between the append of a piece and its      *)
(* check, which piece that is and which piece file it is compared with:    *)
(* FileWhole.  It holds unless spoiled: an append failed, or another       *)
(* thread reset the counter or removed EPOHAL.DAT under the fetch of a     *)
(* piece, since the download began with its first piece.                   *)
(***************************************************************************)
EXTENDS GpsEpo, FiniteSetTheorems, TLAPS

----------------------------------------------------------------------------
(* The parts of the type invariant.                                        *)

\* The EPO thread stays in its program, the session and the network in their
\* states.
LEMMA PointsStep ==
    ASSUME PointsOK, [Next]_vars
    PROVE  PointsOK'
<1> USE DEF PointsOK, EpoPoints, Goto
<1>1. CASE EpoThread
  BY <1>1 DEF EpoThread, epo_wake, fetch_fails, fetch_done, append_fails,
       check_changed, check_failed, check_next, check_complete,
       resume_skip, resume, resume_account, wifi_trigger, Checked, envVars
<1>2. CASE Framework
  BY <1>2 DEF Framework, start_epo_check, session_change, network_state,
       envVars
<1>3. CASE retry_alarm_handler \/ mnld_install \/ update_epo_file_done \/
           new_day \/ server_update \/ UNCHANGED vars
  BY <1>3 DEF retry_alarm_handler, mnld_install, update_epo_file_done,
       new_day, server_update, vars, envVars
<1> QED
  BY <1>1, <1>2, <1>3 DEF Next

\* The outcome of a check leaves epo_data_updated a truth value.
LEMMA CheckedOK ==
    ASSUME FlagsOK, NEW STATE outcome, Checked(outcome)
    PROVE  updated' \in BOOLEAN
<1>1. CASE epc = "check"
  <2>1. updated' = (outcome \in {"next", "again"})
    BY <1>1 DEF Checked, Goto
  <2>2. updated' = TRUE \/ updated' = FALSE
    BY <2>1
  <2> QED
    BY <2>2, Zenon
<1>2. CASE epc # "check"
  <2>1. updated' = FALSE \/ updated' = updated
    BY <1>2 DEF Checked, Goto
  <2> QED
    BY <2>1, Zenon DEF FlagsOK
<1> QED
  BY <1>1, <1>2

\* Every assignment to a flag of the EPO thread assigns a truth value.
LEMMA FlagsStep ==
    ASSUME FlagsOK, [Next]_vars
    PROVE  FlagsOK'
<1> USE DEF FlagsOK, mailVars
<1>1. CASE epo_wake
  BY <1>1, Zenon DEF epo_wake
<1>2. CASE fetch_fails
  BY <1>2, Zenon DEF fetch_fails
<1>3. CASE fetch_done
  <2>1. UNCHANGED <<updated, failed, retry, timer, request, answer, spoiled>>
    BY <1>3 DEF fetch_done
  <2> QED
    BY <2>1
<1>21. CASE append_fails
  <2>1. UNCHANGED <<updated, failed, retry, timer, request, answer>>
    BY <1>21 DEF append_fails
  <2>2. spoiled' = TRUE
    BY <1>21 DEF append_fails
  <2> QED
    BY <2>1, <2>2, Zenon
<1>4. CASE check_changed
  <2>1. updated' \in BOOLEAN
    BY <1>4, CheckedOK DEF check_changed
  <2>2. failed' \in BOOLEAN
    BY <1>4, Zenon DEF check_changed, Checked
  <2>3. UNCHANGED <<retry, timer, request, answer, spoiled>>
    BY <1>4 DEF check_changed, mailVars
  <2> QED
    BY <2>1, <2>2, <2>3, Zenon
<1>5. CASE check_failed
  <2>1. updated' \in BOOLEAN
    BY <1>5, CheckedOK DEF check_failed
  <2>2. failed' \in BOOLEAN
    BY <1>5, Zenon DEF check_failed, Checked
  <2>3. UNCHANGED <<retry, timer, request, answer, spoiled>>
    BY <1>5 DEF check_failed, mailVars
  <2> QED
    BY <2>1, <2>2, <2>3, Zenon
<1>6. CASE check_next
  <2>1. updated' \in BOOLEAN
    BY <1>6, CheckedOK DEF check_next
  <2>2. UNCHANGED <<failed, retry, timer, request, answer, spoiled>>
    BY <1>6 DEF check_next, mailVars
  <2> QED
    BY <2>1, <2>2, Zenon
<1>7. CASE check_complete
  <2>1. updated' \in BOOLEAN
    BY <1>7, CheckedOK DEF check_complete
  <2>2. failed' \in BOOLEAN
    BY <1>7, Zenon DEF check_complete, Checked
  <2>3. request' \in BOOLEAN
    BY <1>7, Zenon DEF check_complete, Checked
  <2>4. UNCHANGED <<retry, timer, answer, spoiled>>
    BY <1>7 DEF check_complete, mailVars
  <2> QED
    BY <2>1, <2>2, <2>3, <2>4, Zenon
<1>8. CASE resume_skip
  BY <1>8, Zenon DEF resume_skip
<1>9. CASE resume
  <2>1. updated' \in BOOLEAN
    BY <1>9, Zenon DEF resume
  <2>2. failed' \in BOOLEAN
    BY <1>9, Zenon DEF resume
  <2>3. UNCHANGED <<retry, timer, request, answer>>
    BY <1>9 DEF resume, mailVars
  <2>4. spoiled' \in BOOLEAN
    BY <1>9, Zenon DEF resume
  <2> QED
    BY <2>1, <2>2, <2>3, <2>4, Zenon
<1>10. CASE resume_account
  <2>1. failed' \in BOOLEAN
    BY <1>10, Zenon DEF resume_account
  <2>2. retry' \in BOOLEAN
    BY <1>10, Zenon DEF resume_account
  <2>3. timer' \in BOOLEAN
    BY <1>10, Zenon DEF resume_account
  <2>4. UNCHANGED <<updated, request, answer, spoiled>>
    BY <1>10 DEF resume_account, mailVars
  <2> QED
    BY <2>1, <2>2, <2>3, <2>4, Zenon
<1>11. CASE wifi_trigger
  <2>1. updated' \in BOOLEAN
    BY <1>11, Zenon DEF wifi_trigger, gps_download_epo
  <2>2. UNCHANGED <<failed, retry, timer, request, answer, spoiled>>
    BY <1>11 DEF wifi_trigger, mailVars
  <2> QED
    BY <2>1, <2>2, Zenon
<1>12. CASE start_epo_check
  <2>1. updated' \in BOOLEAN
    BY <1>12, Zenon DEF start_epo_check, gps_download_epo
  <2>2. request' \in BOOLEAN
    BY <1>12, Zenon DEF start_epo_check, gps_download_epo
  <2>3. UNCHANGED <<failed, retry, timer, answer>>
    BY <1>12 DEF start_epo_check, mailVars
  <2>4. spoiled' \in BOOLEAN
    BY <1>12, Zenon DEF start_epo_check
  <2> QED
    BY <2>1, <2>2, <2>3, <2>4, Zenon
<1>13. CASE session_change
  BY <1>13, Zenon DEF session_change
<1>14. CASE network_state
  BY <1>14, Zenon DEF network_state
<1>15. CASE retry_alarm_handler
  BY <1>15, Zenon DEF retry_alarm_handler
<1>16. CASE mnld_install
  BY <1>16, Zenon DEF mnld_install
<1>17. CASE update_epo_file_done
  BY <1>17, Zenon DEF update_epo_file_done
<1>18. CASE new_day
  BY <1>18, Zenon DEF new_day
<1>19. CASE server_update
  BY <1>19, Zenon DEF server_update
<1>20. CASE UNCHANGED vars
  BY <1>20 DEF vars
<1> QED
  BY <1>1, <1>2, <1>3, <1>4, <1>5, <1>6, <1>7, <1>8, <1>9, <1>10, <1>11,
       <1>12, <1>13, <1>14, <1>15, <1>16, <1>17, <1>18, <1>19, <1>20, <1>21
     DEF Next, EpoThread, Framework

\* The counter, the retries and the clock stay within their limits.
LEMMA NumbersStep ==
    ASSUME NumbersOK, [Next]_vars
    PROVE  NumbersOK'
<1> USE EpoAssumption DEF NumbersOK, envVars, loopVars
<1>1. CASE epo_wake
  BY <1>1 DEF epo_wake
<1>2. CASE fetch_fails
  BY <1>2 DEF fetch_fails
<1>3. CASE fetch_done
  BY <1>3 DEF fetch_done
<1>21. CASE append_fails
  BY <1>21 DEF append_fails
<1>4. CASE check_changed
  BY <1>4 DEF check_changed
<1>5. CASE check_failed
  BY <1>5 DEF check_failed
<1>6. CASE check_next
  BY <1>6 DEF check_next
<1>7. CASE check_complete
  BY <1>7 DEF check_complete
<1>8. CASE resume_skip
  BY <1>8 DEF resume_skip
<1>9. CASE resume
  BY <1>9 DEF resume
<1>10. CASE resume_account
  BY <1>10 DEF resume_account
<1>11. CASE wifi_trigger
  <2>1. count' \in {count, 0}
    BY <1>11 DEF wifi_trigger, gps_download_epo
  <2>2. UNCHANGED <<envVars, name, loopVars>>
    BY <1>11 DEF wifi_trigger
  <2> QED
    BY <2>1, <2>2
<1>12. CASE start_epo_check
  <2>1. count' \in {count, 0}
    BY <1>12 DEF start_epo_check, gps_download_epo
  <2>2. UNCHANGED <<envVars, name, loopVars>>
    BY <1>12 DEF start_epo_check
  <2> QED
    BY <2>1, <2>2
<1>13. CASE session_change
  BY <1>13 DEF session_change
<1>14. CASE network_state
  BY <1>14 DEF network_state
<1>15. CASE retry_alarm_handler
  BY <1>15 DEF retry_alarm_handler
<1>16. CASE mnld_install
  BY <1>16 DEF mnld_install
<1>17. CASE update_epo_file_done
  BY <1>17 DEF update_epo_file_done
<1>18. CASE new_day
  BY <1>18 DEF new_day
<1>19. CASE server_update
  BY <1>19 DEF server_update
<1>20. CASE UNCHANGED vars
  BY <1>20 DEF vars
<1> QED
  BY <1>1, <1>2, <1>3, <1>4, <1>5, <1>6, <1>7, <1>8, <1>9, <1>10, <1>11,
       <1>12, <1>13, <1>14, <1>15, <1>16, <1>17, <1>18, <1>19, <1>20, <1>21
     DEF Next, EpoThread, Framework

\* A stored piece, readable or not, is one, and so is what EPOHAL.DAT gets of
\* it.
LEMMA Stored ==
    ASSUME NumbersOK, FilesOK, NEW ok \in BOOLEAN, NEW kept \in BOOLEAN
    PROVE  LET new == [set |-> server, no |-> name, ok |-> ok]
           IN  /\ new \in Piece
               /\ [new EXCEPT !.ok = kept] \in Piece
               /\ [piece EXCEPT ![name] = new]
                    \in [0..(Pieces - 1) -> Piece \cup {NoPiece}]
               /\ Begun \in Seq(Piece)
               /\ Append(Begun, new) \in Seq(Piece)
               /\ Append(Begun, [new EXCEPT !.ok = kept]) \in Seq(Piece)
<1> DEFINE new == [set |-> server, no |-> name, ok |-> ok]
           cut == [new EXCEPT !.ok = kept]
<1>1. new \in Piece /\ cut \in Piece
  BY DEF NumbersOK, Piece
<1>2. Begun \in Seq(Piece)
  BY DEF FilesOK, Begun
<1> HIDE DEF new, cut
<1>3. [piece EXCEPT ![name] = new]
        \in [0..(Pieces - 1) -> Piece \cup {NoPiece}]
  BY <1>1 DEF FilesOK
<1>4. Append(Begun, new) \in Seq(Piece) /\ Append(Begun, cut) \in Seq(Piece)
  BY <1>1, <1>2
<1> QED
  BY <1>1, <1>2, <1>3, <1>4 DEF new, cut

\* The files hold pieces of a set of the server.
LEMMA FilesStep ==
    ASSUME NumbersOK, FilesOK, [Next]_vars
    PROVE  FilesOK'
<1> USE DEF FilesOK, fileVars
<1>1. CASE epo_wake
  BY <1>1 DEF epo_wake
<1>2. CASE fetch_fails
  BY <1>2 DEF fetch_fails
<1>3. CASE fetch_done
  <2>1. PICK ok \in BOOLEAN :
            LET new == [set |-> server, no |-> name, ok |-> ok]
            IN  /\ piece' = [piece EXCEPT ![name] = new]
                /\ hal' = Append(Begun, new)
    BY <1>3, Zenon DEF fetch_done
  <2>2. UNCHANGED dat
    BY <1>3 DEF fetch_done
  <2> QED
    BY <2>1, <2>2, Stored
<1>21. CASE append_fails
  <2>1. LET new == [set |-> server, no |-> name, ok |-> TRUE]
        IN  /\ piece' = [piece EXCEPT ![name] = new]
            /\ hal' \in {Begun, Append(Begun, [new EXCEPT !.ok = FALSE])}
    BY <1>21, Zenon DEF append_fails
  <2>2. UNCHANGED dat
    BY <1>21 DEF append_fails
  <2> QED
    BY <2>1, <2>2, Stored
<1>4. CASE check_changed
  BY <1>4 DEF check_changed
<1>5. CASE check_failed
  BY <1>5 DEF check_failed
<1>6. CASE check_next
  BY <1>6 DEF check_next
<1>7. CASE check_complete
  <2>1. UNCHANGED hal /\ dat' \in {dat, <<>>}
    BY <1>7 DEF check_complete
  <2>2. <<>> \in Seq(Piece)
    OBVIOUS
  <2>3. piece' = [i \in DOMAIN piece |-> NoPiece]
    BY <1>7 DEF check_complete
  <2> QED
    BY <2>1, <2>2, <2>3
<1>8. CASE resume_skip
  BY <1>8 DEF resume_skip
<1>9. CASE resume
  <2>1. hal' \in {hal, <<>>} /\ dat' \in {dat, <<>>} /\ UNCHANGED piece
    BY <1>9 DEF resume
  <2>2. <<>> \in Seq(Piece)
    OBVIOUS
  <2> QED
    BY <2>1, <2>2
<1>10. CASE resume_account
  BY <1>10 DEF resume_account
<1>11. CASE wifi_trigger
  <2>1. hal' \in {hal, <<>>} /\ dat' \in {dat, <<>>} /\ UNCHANGED piece
    BY <1>11 DEF wifi_trigger
  <2>2. <<>> \in Seq(Piece)
    OBVIOUS
  <2> QED
    BY <2>1, <2>2
<1>12. CASE start_epo_check
  <2>1. hal' \in {hal, <<>>} /\ dat' \in {dat, <<>>} /\ UNCHANGED piece
    BY <1>12 DEF start_epo_check
  <2>2. <<>> \in Seq(Piece)
    OBVIOUS
  <2> QED
    BY <2>1, <2>2
<1>13. CASE session_change
  BY <1>13 DEF session_change
<1>14. CASE network_state
  BY <1>14 DEF network_state
<1>15. CASE retry_alarm_handler
  BY <1>15 DEF retry_alarm_handler
<1>16. CASE mnld_install
  BY <1>16 DEF mnld_install
<1>17. CASE update_epo_file_done
  BY <1>17 DEF update_epo_file_done
<1>18. CASE new_day
  BY <1>18 DEF new_day
<1>19. CASE server_update
  BY <1>19 DEF server_update
<1>20. CASE UNCHANGED vars
  BY <1>20 DEF vars
<1> QED
  BY <1>1, <1>2, <1>3, <1>4, <1>5, <1>6, <1>7, <1>8, <1>9, <1>10, <1>11,
       <1>12, <1>13, <1>14, <1>15, <1>16, <1>17, <1>18, <1>19, <1>20, <1>21
     DEF Next, EpoThread, Framework

\* GpsEpo is type correct; in particular gps_epo_file_count never leaves the
\* names that gps_download_epo_file_name knows, and the retries their limit.
THEOREM TypeCorrect == Spec => []TypeOK
<1>1. Init => TypeOK
  <2> SUFFICES ASSUME Init PROVE TypeOK
    OBVIOUS
  <2>1. PointsOK /\ FlagsOK
    BY DEF Init, PointsOK, FlagsOK, EpoPoints
  <2>2. NumbersOK
    BY EpoAssumption DEF Init, NumbersOK
  <2>3. FilesOK
    BY DEF Init, FilesOK
  <2> QED
    BY <2>1, <2>2, <2>3 DEF TypeOK
<1>2. TypeOK /\ [Next]_vars => TypeOK'
  BY PointsStep, FlagsStep, NumbersStep, FilesStep DEF TypeOK
<1> QED
  BY <1>1, <1>2, PTL DEF Spec

----------------------------------------------------------------------------
(* The pieces of EPOHAL.DAT, unless the download is spoiled.               *)

\* The places of the readable pieces among the first m of a file.
ReadableUpTo(file, m) == {i \in 1..m : file[i].ok}

\* The readable ones among the first m pieces are the pieces 0 to n - 1 of the
\* set that starts on day s, in order.
HoldsSet(file, m, n, s) ==
    /\ Cardinality(ReadableUpTo(file, m)) = n
    /\ \A i \in ReadableUpTo(file, m) :
        /\ file[i].no = Cardinality({k \in ReadableUpTo(file, m) : k < i})
        /\ file[i].set = s

\* The piece file before the next one is the last one counted.
LastKept ==
    count > 0 => /\ piece[count - 1].ok
                 /\ piece[count - 1].no = count - 1
                 /\ piece[count - 1].set <= server

\* EPOHAL.DAT holds what was counted, except for the piece being checked.
FileKept ==
    count > 0 => HoldsSet(hal, IF Checking THEN Len(hal) - 1 ELSE Len(hal),
                          count, piece[count - 1].set)

\* The piece being checked is the last one of EPOHAL.DAT, and the only one of
\* a file begun anew.
NewPiece ==
    Checking => /\ hal # <<>>
                /\ hal[Len(hal)] = piece[name]
                /\ piece[name].no = name
                /\ piece[name].set <= server
                /\ count = 0 => Len(hal) = 1
                /\ count > 0 => piece[count - 1].set <= piece[name].set

\* The file is fetched under the number of the counter.
NameIsCount == Fetching => name = count

FileWhole == NameIsCount /\ LastKept /\ FileKept /\ NewPiece

FileInv == ~spoiled => FileWhole

\* A file that is the same in the first m places holds the same there.
LEMMA HoldsPrefix ==
    ASSUME NEW f, NEW g, NEW m, NEW n, NEW s, HoldsSet(f, m, n, s),
           \A i \in 1..m : g[i] = f[i]
    PROVE  HoldsSet(g, m, n, s)
<1>1. ReadableUpTo(g, m) = ReadableUpTo(f, m)
  BY DEF ReadableUpTo
<1>2. \A i \in ReadableUpTo(f, m) : g[i] = f[i]
  BY DEF ReadableUpTo
<1> QED
  BY <1>1, <1>2 DEF HoldsSet

\* One more piece: a readable one of the same set is the next, a broken one
\* does not count.
LEMMA HoldsNext ==
    ASSUME NEW f \in Seq(Piece), NEW m \in Nat, m + 1 <= Len(f),
           NEW n \in Nat, NEW s, HoldsSet(f, m, n, s)
    PROVE  /\ f[m + 1].ok /\ f[m + 1].no = n /\ f[m + 1].set = s
                => HoldsSet(f, m + 1, n + 1, s)
           /\ ~f[m + 1].ok => HoldsSet(f, m + 1, n, s)
<1> DEFINE R == ReadableUpTo(f, m)
           Q == ReadableUpTo(f, m + 1)
<1>1. IsFiniteSet(R) /\ R \subseteq 1..m
  <2>1. R \subseteq 1..m
    BY DEF ReadableUpTo
  <2>2. IsFiniteSet(1..m)
    BY FS_Interval
  <2> QED
    BY <2>1, <2>2, FS_Subset
<1>2. m + 1 \notin R
  BY <1>1
<1>3. ASSUME f[m + 1].ok, f[m + 1].no = n, f[m + 1].set = s
      PROVE  HoldsSet(f, m + 1, n + 1, s)
  <2>1. Q = R \cup {m + 1}
    BY <1>3 DEF ReadableUpTo
  <2>2. Cardinality(Q) = n + 1
    BY <1>1, <1>2, <2>1, FS_AddElement DEF HoldsSet
  <2>3. \A i \in R : {k \in Q : k < i} = {k \in R : k < i}
    BY <1>1, <2>1
  <2>4. {k \in Q : k < m + 1} = R
    BY <1>1, <2>1
  <2>5. ASSUME NEW i \in Q
        PROVE  /\ f[i].no = Cardinality({k \in Q : k < i})
               /\ f[i].set = s
    <3>1. CASE i \in R
      BY <2>3, <3>1 DEF HoldsSet
    <3>2. CASE i = m + 1
      BY <1>3, <2>4, <3>2 DEF HoldsSet
    <3> QED
      BY <2>1, <3>1, <3>2
  <2> QED
    BY <2>2, <2>5 DEF HoldsSet
<1>4. ASSUME ~f[m + 1].ok
      PROVE  HoldsSet(f, m + 1, n, s)
  <2>1. Q = R
    BY <1>4 DEF ReadableUpTo
  <2> QED
    BY <2>1 DEF HoldsSet
<1> QED
  BY <1>3, <1>4

\* A file of one readable piece, the first of its set.
LEMMA HoldsFirst ==
    ASSUME NEW f, NEW s, f[1].ok, f[1].no = 0, f[1].set = s
    PROVE  HoldsSet(f, 1, 1, s)
<1>1. ReadableUpTo(f, 1) = {1}
  BY DEF ReadableUpTo
<1>2. {k \in {1} : k < 1} = {}
  OBVIOUS
<1>3. Cardinality({1}) = 1 /\ Cardinality({}) = 0
  BY FS_Singleton, FS_EmptySet
<1> QED
  BY <1>1, <1>2, <1>3 DEF HoldsSet

\* What HoldsSet says of a whole file is what Holds says.
LEMMA HoldsWhole ==
    ASSUME NEW f, NEW n, NEW s, HoldsSet(f, Len(f), n, s)
    PROVE  Holds(f, n)
<1>1. ReadableUpTo(f, Len(f)) = Readable(f)
  BY DEF ReadableUpTo, Readable
<1> QED
  BY <1>1 DEF HoldsSet, Holds

\* A new piece of a set that has not changed goes on with the set of the
\* pieces before it (mtk_gps_epo_server_data_is_changed).
LEMMA SameSet ==
    ASSUME TypeOK, FileWhole, Checking, ~ServerChanged, ~Unreadable
    PROVE  HoldsSet(hal, Len(hal), count + 1, piece[name].set)
<1>1. /\ hal \in Seq(Piece) /\ Len(hal) \in Nat /\ Len(hal) >= 1
      /\ name = count /\ count \in Nat /\ count \in 0..(Pieces - 1)
      /\ hal[Len(hal)] = piece[name] /\ piece[name].no = count
      /\ piece[name].ok
  BY EpoAssumption DEF TypeOK, FilesOK, NumbersOK, FileWhole, NewPiece,
       NameIsCount, Fetching, Checking, Unreadable
<1>2. CASE count = 0
  <2>1. Len(hal) = 1
    BY <1>2 DEF FileWhole, NewPiece
  <2>2. hal[1].ok /\ hal[1].no = 0 /\ hal[1].set = piece[name].set
    BY <1>1, <1>2, <2>1
  <2>3. HoldsSet(hal, 1, 1, piece[name].set)
    BY <2>2, HoldsFirst
  <2> QED
    BY <1>2, <2>1, <2>3
<1>3. CASE count > 0
  <2>1. /\ piece[count - 1] \in Piece /\ piece[name] \in Piece
    BY <1>1, <1>3, EpoAssumption DEF TypeOK, FilesOK, FileWhole, LastKept,
         NoPiece
  <2>2. /\ piece[count - 1].ok /\ piece[count - 1].no = count - 1
        /\ piece[count - 1].set <= piece[name].set
        /\ piece[count - 1].set \in Nat /\ piece[name].set \in Nat
    BY <1>3, <2>1, EpoAssumption DEF FileWhole, LastKept, NewPiece, Piece
  <2>3. piece[name].set + 3 * count
          - (piece[count - 1].set + 3 * (count - 1) + 3) < 1
    BY <1>1, <1>3, <2>2, SMTT(60) DEF ServerChanged, BeforeEnd, StartOf, EndOf
  <2>4. piece[count - 1].set = piece[name].set
    BY <1>1, <2>2, <2>3
  <2>5. HoldsSet(hal, Len(hal) - 1, count, piece[name].set)
    BY <1>3, <2>4 DEF FileWhole, FileKept
  <2> DEFINE m == Len(hal) - 1
  <2>6. m \in Nat /\ m + 1 = Len(hal) /\ m + 1 <= Len(hal)
    BY <1>1
  <2>7. HoldsSet(hal, m, count, piece[name].set) /\ hal[m + 1] = piece[name]
    BY <1>1, <2>5, <2>6
  <2> HIDE DEF m
  <2>8. HoldsSet(hal, m + 1, count + 1, piece[name].set)
    BY <1>1, <2>6, <2>7, HoldsNext
  <2> QED
    BY <2>6, <2>8
<1> QED
  BY <1>1, <1>2, <1>3

\* What a step does not touch stays true: the counter, the piece files, the
\* numbers and EPOHAL.DAT are as they were, and nothing is being checked.
LEMMA FileStays ==
    ASSUME TypeOK, FileWhole,
           UNCHANGED <<count, piece, name, hal>>, server' >= server,
           Checking' <=> Checking, Fetching' => Fetching, server' \in Nat
    PROVE  FileWhole'
<1>1. NameIsCount'
  BY DEF FileWhole, NameIsCount
<1>2. count \in 0..(Pieces - 1) /\ server \in Nat
      /\ (count > 0 => piece[count - 1] \in Piece \cup {NoPiece})
      /\ piece[name] \in Piece \cup {NoPiece}
  BY EpoAssumption DEF TypeOK, NumbersOK, FilesOK
<1>3. count > 0 => piece[count - 1].set \in Nat
  BY <1>2 DEF Piece, NoPiece
<1>4. piece[name].set \in Nat
  BY <1>2 DEF Piece, NoPiece
<1>5. LastKept'
  BY <1>2, <1>3 DEF FileWhole, LastKept
<1>6. FileKept'
  BY DEF FileWhole, FileKept
<1>7. NewPiece'
  BY <1>2, <1>4 DEF FileWhole, NewPiece
<1> QED
  BY <1>1, <1>5, <1>6, <1>7 DEF FileWhole

\* A download that begins anew has nothing to keep.
LEMMA FileAnew ==
    ASSUME count' = 0, ~Checking', Fetching' => name' = 0
    PROVE  FileWhole'
BY DEF FileWhole, NameIsCount, LastKept, FileKept, NewPiece

\* No step of any thread takes the counter, the piece files and EPOHAL.DAT
\* apart, unless it spoils the download.
LEMMA WholeStep ==
    ASSUME TypeOK, TypeOK', FileWhole, [Next]_vars, ~spoiled'
    PROVE  FileWhole'
<1> USE DEF Goto
<1>1. server' >= server /\ server' \in Nat /\ server \in Nat
  <2>1. CASE server_update
    BY <2>1, EpoAssumption DEF server_update, TypeOK, NumbersOK
  <2>2. CASE ~server_update
    <3>1. UNCHANGED server
      BY <2>2 DEF Next, EpoThread, Framework, epo_wake, fetch_fails,
           fetch_done, append_fails, check_changed, check_failed,
           check_next, check_complete, resume_skip, resume, resume_account,
           wifi_trigger, start_epo_check, session_change, network_state,
           retry_alarm_handler, mnld_install, update_epo_file_done, new_day,
           envVars, vars
    <3> QED
      BY <3>1, EpoAssumption DEF TypeOK, NumbersOK
  <2> QED
    BY <2>1, <2>2
<1>2. CASE epo_wake
  <2>1. /\ UNCHANGED <<count, piece, hal, server>> /\ ~Checking /\ ~Checking'
        /\ Fetching' => name' = count
    BY <1>2 DEF epo_wake, envVars, fileVars, Checking, Fetching
  <2> QED
    BY <2>1 DEF FileWhole, NameIsCount, LastKept, FileKept, NewPiece
<1>3. CASE fetch_fails
  <2>1. /\ UNCHANGED <<count, name, hal, server>> /\ ~Checking /\ ~Checking'
        /\ ~Fetching' /\ name = count
        /\ piece' \in {piece, [piece EXCEPT ![name] = NoPiece]}
    BY <1>3 DEF fetch_fails, envVars, Checking, Fetching, FileWhole,
         NameIsCount
  <2>2. count > 0 => piece'[count - 1] = piece[count - 1]
    BY <2>1, EpoAssumption DEF TypeOK, NumbersOK, FilesOK
  <2> QED
    BY <2>1, <2>2 DEF FileWhole, NameIsCount, LastKept, FileKept, NewPiece
<1>4. CASE fetch_done
  <2>1. PICK ok \in BOOLEAN :
            LET new == [set |-> server, no |-> name, ok |-> ok]
            IN  /\ piece' = [piece EXCEPT ![name] = new]
                /\ hal' = Append(Begun, new)
    BY <1>4, Zenon DEF fetch_done
  <2> DEFINE new == [set |-> server, no |-> name, ok |-> ok]
  <2>2. /\ piece' = [piece EXCEPT ![name] = new]
        /\ hal' = Append(IF count = 0 THEN <<>> ELSE hal, new)
        /\ new.set = server /\ new.no = name
    BY <2>1 DEF Begun
  <2> HIDE DEF new
  <2>3. /\ UNCHANGED <<count, name, server>> /\ ~Checking /\ Checking'
        /\ Fetching' /\ name = count
    BY <1>4 DEF fetch_done, envVars, Checking, Fetching, FileWhole, NameIsCount
  <2>4. /\ hal \in Seq(Piece) /\ Len(hal) \in Nat
        /\ count \in 0..(Pieces - 1) /\ piece'[name] = new
        /\ count > 0 => piece'[count - 1] = piece[count - 1]
    BY <2>2, <2>3, EpoAssumption DEF TypeOK, NumbersOK, FilesOK
  <2>5. CASE count = 0
    <3>1. hal' # <<>> /\ Len(hal') = 1 /\ hal'[Len(hal')] = new
      BY <2>2, <2>5
    <3> QED
      BY <1>1, <2>2, <2>3, <2>4, <2>5, <3>1
         DEF FileWhole, NameIsCount, LastKept, FileKept, NewPiece
  <2>6. CASE count > 0
    <3>1. /\ hal' # <<>> /\ Len(hal') = Len(hal) + 1 /\ hal'[Len(hal')] = new
          /\ \A i \in 1..Len(hal) : hal'[i] = hal[i]
      BY <2>2, <2>4, <2>6
    <3>2. HoldsSet(hal', Len(hal), count, piece[count - 1].set)
      BY <2>3, <2>6, <3>1, HoldsPrefix DEF FileWhole, FileKept
    <3>3. Len(hal') - 1 = Len(hal)
      BY <2>4, <3>1
    <3>4. FileKept'
      BY <2>3, <2>4, <3>2, <3>3 DEF FileKept
    <3>5. LastKept' /\ NameIsCount'
      BY <2>3, <2>4 DEF FileWhole, LastKept, NameIsCount
    <3>6. NewPiece'
      <4>1. piece'[name] = new /\ piece'[name'] = new
        BY <2>3, <2>4
      <4>2. piece'[count' - 1].set <= server
        BY <2>3, <2>4, <2>6 DEF FileWhole, LastKept
      <4>3. new.set <= server'
        BY <1>1, <2>2
      <4>4. count' > 0 /\ count' # 0
        BY <2>3, <2>6
      <4> QED
        BY <2>2, <2>3, <3>1, <4>1, <4>2, <4>3, <4>4 DEF NewPiece
    <3> QED
      BY <3>4, <3>5, <3>6 DEF FileWhole
  <2> QED
    BY <2>4, <2>5, <2>6
<1>15. CASE append_fails
  BY <1>15 DEF append_fails
<1>5. CASE check_changed \/ check_complete
  <2>1. count' = 0 /\ ~Checking' /\ ~Fetching'
    BY <1>5 DEF check_changed, check_complete, Checked, Checking, Fetching
  <2> QED
    BY <2>1, FileAnew
<1>6. CASE check_failed
  <2>1. /\ UNCHANGED <<count, name, server, hal, piece>> /\ Checking
        /\ ~Checking' /\ ~Fetching' /\ name = count /\ Unreadable
    BY <1>6 DEF check_failed, Checked, fileVars, envVars, Checking, Fetching,
         FileWhole, NameIsCount
  <2>2. /\ hal \in Seq(Piece) /\ Len(hal) \in Nat /\ Len(hal) >= 1
        /\ count \in 0..(Pieces - 1) /\ count \in Nat
        /\ hal[Len(hal)] = piece[name]
    BY <2>1, EpoAssumption DEF TypeOK, NumbersOK, FilesOK, FileWhole, NewPiece
  <2>3. ~hal[Len(hal)].ok
    BY <2>1, <2>2 DEF Unreadable, FileWhole, LastKept
  <2>4. count > 0 => HoldsSet(hal, Len(hal), count, piece[count - 1].set)
    <3>1. SUFFICES ASSUME count > 0
                   PROVE  HoldsSet(hal, Len(hal), count, piece[count - 1].set)
      OBVIOUS
    <3>2. HoldsSet(hal, Len(hal) - 1, count, piece[count - 1].set)
      BY <2>1, <3>1 DEF FileWhole, FileKept
    <3> DEFINE m == Len(hal) - 1
    <3>3. m \in Nat /\ m + 1 = Len(hal) /\ m + 1 <= Len(hal)
      BY <2>2
    <3>4. HoldsSet(hal, m, count, piece[count - 1].set) /\ ~hal[m + 1].ok
      BY <2>3, <3>2, <3>3
    <3> HIDE DEF m
    <3>5. HoldsSet(hal, m + 1, count, piece[count - 1].set)
      BY <2>2, <3>3, <3>4, HoldsNext
    <3> QED
      BY <3>3, <3>5
  <2> QED
    BY <2>1, <2>4 DEF FileWhole, NameIsCount, LastKept, FileKept, NewPiece
<1>7. CASE check_next
  <2>1. /\ UNCHANGED <<name, server, hal, piece>> /\ Checking
        /\ ~Checking' /\ ~Fetching' /\ name = count /\ count' = count + 1
        /\ ~ServerChanged /\ ~Unreadable /\ count \in 0..(Pieces - 1)
    BY <1>7 DEF check_next, Checked, fileVars, envVars, Checking, Fetching,
         FileWhole, NameIsCount, TypeOK, NumbersOK
  <2>2. HoldsSet(hal, Len(hal), count + 1, piece[name].set)
    BY <2>1, SameSet
  <2>3. count' - 1 = name
    BY <2>1, EpoAssumption
  <2>4. LastKept'
    BY <2>1, <2>3 DEF FileWhole, NewPiece, LastKept, Unreadable
  <2> QED
    BY <2>1, <2>2, <2>3, <2>4 DEF FileWhole, NameIsCount, FileKept, NewPiece
<1>8. CASE resume
  <2>1. CASE count' = 0 /\ ~Fetching' /\ ~Checking'
    BY <2>1, FileAnew
  <2>2. CASE /\ UNCHANGED <<count, hal, piece>> /\ name' = count
             /\ ~Checking /\ ~Checking'
    BY <1>1, <1>8, <2>2 DEF resume, envVars, FileWhole, NameIsCount, LastKept,
         FileKept, NewPiece
  <2> QED
    BY <1>8, <2>1, <2>2 DEF resume, Checking, Fetching
<1>9. CASE wifi_trigger
  <2>1. /\ ~Fetching' /\ ~Checking /\ ~Checking' /\ UNCHANGED <<piece, name>>
        /\ \/ count' = 0
           \/ UNCHANGED <<count, hal>>
    BY <1>9 DEF wifi_trigger, gps_download_epo, Checking, Fetching
  <2> QED
    BY <1>1, <2>1, FileAnew, FileStays
<1>10. CASE start_epo_check \/ update_epo_file_done
  <2>1. /\ UNCHANGED <<piece, name, epc>> /\ ~Interferes
        /\ count' = 0 \/ UNCHANGED <<count, hal>>
    BY <1>10 DEF start_epo_check, update_epo_file_done, gps_download_epo
  <2>2. Checking' = Checking /\ Fetching' = Fetching
    BY <2>1 DEF Checking, Fetching
  <2>3. CASE UNCHANGED <<count, hal>>
    BY <1>1, <2>1, <2>2, <2>3, FileStays
  <2>4. CASE ~UNCHANGED <<count, hal>>
    <3>1. count' = 0 /\ ~Checking /\ (Fetching => ~(count > 0))
      BY <2>1, <2>4 DEF Interferes
    <3>2. Fetching => name' = 0
      BY <2>1, <3>1, EpoAssumption DEF FileWhole, NameIsCount,
           TypeOK, NumbersOK
    <3> QED
      BY <2>2, <3>1, <3>2, FileAnew
  <2> QED
    BY <2>3, <2>4
<1>12. CASE resume_skip \/ resume_account
  <2>1. /\ UNCHANGED <<count, piece, name, hal>> /\ ~Checking /\ ~Checking'
        /\ ~Fetching'
    BY <1>12 DEF resume_skip, resume_account, fileVars, Checking, Fetching
  <2> QED
    BY <1>1, <2>1, FileStays
<1>13. CASE session_change \/ network_state \/ retry_alarm_handler \/
            mnld_install \/ new_day \/ server_update \/ UNCHANGED vars
  <2>1. UNCHANGED <<count, piece, name, hal, epc>>
    BY <1>13 DEF session_change, network_state, retry_alarm_handler,
         mnld_install, new_day, server_update, vars, fileVars
  <2>2. Checking' = Checking /\ Fetching' = Fetching
    BY <2>1 DEF Checking, Fetching
  <2> QED
    BY <1>1, <2>1, <2>2, FileStays
<1> QED
  BY <1>2, <1>3, <1>4, <1>5, <1>6, <1>7, <1>8, <1>9, <1>10, <1>12, <1>13,
       <1>15 DEF Next, EpoThread, Framework

\* A spoiled download is whole again once it begins with the first piece.
LEMMA FileStep ==
    ASSUME TypeOK, TypeOK', FileInv, [Next]_vars
    PROVE  FileInv'
<1> SUFFICES ASSUME ~spoiled' PROVE FileWhole'
  BY DEF FileInv
<1>1. CASE ~spoiled
  BY <1>1, WholeStep DEF FileInv
<1>2. CASE spoiled
  <2>1. epo_wake \/ resume
    BY <1>2 DEF Next, EpoThread, Framework, fetch_fails, fetch_done,
         append_fails, check_changed, check_failed, check_next,
         check_complete, resume_skip, resume_account, wifi_trigger,
         start_epo_check, session_change, network_state,
         retry_alarm_handler, mnld_install, update_epo_file_done, new_day,
         server_update, vars
  <2>2. count \in Nat /\ count' \in Nat
    BY EpoAssumption DEF TypeOK, NumbersOK
  <2>3. ~(count' > 0) /\ ~Checking' /\ (Fetching' => name' = count')
    BY <1>2, <2>1 DEF epo_wake, resume, Goto, Checking, Fetching
  <2> QED
    BY <2>2, <2>3, FileAnew
<1> QED
  BY <1>1, <1>2

\* Between the threads' steps the counter, the piece files and EPOHAL.DAT are
\* as FileWhole says unless the download is spoiled, for every number of
\* pieces, retries and days.
THEOREM FileHolds == Spec => []FileInv
<1>1. Init => FileInv
  BY DEF Init, FileInv, FileWhole, NameIsCount, LastKept, FileKept, NewPiece,
       Checking, Fetching
<1>2. TypeOK /\ TypeOK' /\ FileInv /\ [Next]_vars => FileInv'
  BY FileStep
<1> QED
  BY <1>1, <1>2, TypeCorrect, PTL DEF Spec

\* A resumed download goes on where EPOHAL.DAT ends: the counter is the number
\* of readable pieces in it, and they are pieces of one set in order, unless
\* an append failed or another thread interfered with the fetch of a piece.
THEOREM CounterHolds == Spec => []CounterMatchesFile
<1>1. FileInv => CounterMatchesFile
  BY HoldsWhole DEF FileInv, FileWhole, FileKept, Fetching, CounterMatchesFile
<1> QED
  BY <1>1, FileHolds, PTL

\* A download that is declared complete has produced every piece of one set,
\* in order, whatever was resumed or changed on the server meanwhile and
\* whenever sessions started and mnld answered, with the same two exceptions.
THEOREM CompleteHolds == Spec => []CompleteFileInOrder
<1>1. TypeOK /\ FileInv => CompleteFileInOrder
  <2> SUFFICES ASSUME TypeOK, FileWhole, Completes
               PROVE  Holds(hal, Pieces)
    BY DEF CompleteFileInOrder, FileInv
  <2>1. HoldsSet(hal, Len(hal), count + 1, piece[name].set)
    BY SameSet DEF Completes, Checking
  <2>2. count + 1 = Pieces
    BY EpoAssumption DEF Completes, TypeOK, NumbersOK
  <2> QED
    BY <2>1, <2>2, HoldsWhole
<1> QED
  BY <1>1, TypeCorrect, FileHolds, PTL
=============================================================================

----------------------------- MODULE NmeaReader -----------------------------
(***************************************************************************)
(* The NMEA reader of src/gps/hal/gps_mtk_aosp.c, sentence by sentence:    *)
(* nmea_reader_parse collects the satellites of GSV groups, the satellites *)
(* used and the fix mode of GSA, and the position of GGA and RMC, and      *)
(* reports them at the last sentence of a read (gps_nmea_end_tag).  The    *)
(* engine lists the satellites in view in groups of numbered sentences; a  *)
(* sentence may be lost (nmea_reader_addc drops an overlong one) and a     *)
(* read may end in the middle of a group.                                  *)
(***************************************************************************)
EXTENDS Naturals, Sequences, FiniteSets

CONSTANTS
    Svs,        \* satellites whose number the reader accepts
    OtherSvs,   \* satellites whose number it ignores (QZSS, SBAS)
    MaxSvs,     \* GNSS_MAX_SVS or GPS_MAX_SVS: entries in the list
    SvInfo,     \* NMEA_MAX_SV_INFO: satellites in a GSV sentence
    MaxGroup,   \* bound on the satellites in view per group
    MaxGroups,  \* bound on the groups in one read
    Faults      \* what may happen to the input: "loss", "split"

ASSUME NmeaAssumption ==
    /\ MaxSvs \in Nat \ {0} /\ SvInfo \in Nat \ {0}
    /\ MaxGroup \in Nat \ {0} /\ MaxGroups \in Nat \ {0}
    /\ 0 \notin Svs \cup OtherSvs
    /\ Svs \cap OtherSvs = {}
    /\ Faults \subseteq {"loss", "split"}

VARIABLES
    gps_mode,   \* 0: GNSS callbacks, 1: GPS callbacks; set from the chip id
    fix_mode,   \* NmeaReader.fix_mode: 0, 1 (no fix), 2 or 3
    flags,      \* NmeaReader.fix.flags # 0
    sv_count,   \* NmeaReader.sv_count
    num_svs,    \* num_svs of the status in use
    list,       \* its list of satellites
    used,       \* sv_used_in_fix (GNSS) or used_in_fix_mask (GPS)
    reading,    \* the native thread is inside a read of /dev/gps
    group,      \* the satellites of the GSV group being sent, <<>> if none
    seq,        \* the number of its last sentence
    groups,     \* groups begun in this read
    since,      \* history: what has happened since the last report
    gsaFix,     \* history: the last GSA since the last restart said 2D or 3D
    svReport,   \* the judgement on the satellite report of the last step
    fixReport   \* FALSE if the last step reported a location without gsaFix

fixVars  == <<fix_mode, flags>>
svVars   == <<sv_count, num_svs, list>>
sendVars == <<group, seq, groups>>
vars == <<gps_mode, fixVars, svVars, used, reading, sendVars, since, gsaFix,
          svReport, fixReport>>

\* The history between two satellite reports: the satellites of whole groups
\* and of all sentences, those GSA named, whether a sentence was lost and
\* whether a read ended inside a group.
Fresh == [complete |-> <<>>, received |-> {}, gsaUsed |-> {}, lost |-> FALSE,
          cut |-> FALSE]

\* An entry of the list; the GNSS reader copies the used flag into it.
Entry(sv) == [sv |-> sv, used |-> gps_mode = 0 /\ sv \in used]

\* An entry that was never written, or was left over by an earlier report: the
\* code does not clear the array, here the mark tells such entries apart.
None == [sv |-> 0, used |-> FALSE]

\* What a satellite report with these entries and used marks is worth, given
\* the history before it.
Judge(svs, inUse, hist) == [
    \* exactly the satellites of the groups received, in order
    exact |-> hist.lost \/ hist.cut \/ svs = hist.complete,
    \* no entry of an earlier report
    current |-> hist.lost \/ \A i \in DOMAIN svs : svs[i] \in hist.received,
    \* no satellite marked as used that GSA has not named
    used |-> (gps_mode = 0 /\ hist.lost) \/ inUse \subseteq hist.gsaUsed]

NoReport == Judge(<<>>, {}, Fresh)

\* As much of a list of satellites as fits the status.
First(svs) == SubSeq(svs, 1, IF Len(svs) < MaxSvs THEN Len(svs) ELSE MaxSvs)

Least(a, b) == IF a < b THEN a ELSE b
LOC_FIXED(mode) == mode \in {2, 3}
IsSv(sv) == sv \in Svs

----------------------------------------------------------------------------
(* The end of nmea_reader_parse: with the end tag, a fix and a satellite   *)
(* list that are there are reported and cleared.                           *)

\* location_cb.
ReportFix(mode, has, fixed, end) ==
    IF LOC_FIXED(mode) /\ has /\ end
    THEN flags' = FALSE /\ fixReport' = fixed
    ELSE flags' = has /\ fixReport' = TRUE

\* The satellites a report marks as used in the fix.
UsedSvs(n, svs, inFix) ==
    IF gps_mode = 0
    THEN { svs[i].sv : i \in { k \in 1..Least(n, MaxSvs) : svs[k].used } }
    ELSE inFix

\* The read ends, inside a group or not.
CutBy(hist, inside) == [hist EXCEPT !.cut = @ \/ inside]

\* (Mutant: the satellites used are not cleared)
UsedLeft_all(inFix) == inFix

\* (Mutant: the number of satellites is not cleared)
CountLeft_all(n) == n

\* What a report leaves of the satellites used and of their number.
UsedLeft(inFix) == {}
CountLeft(n) == 0

\* gnss_sv_status_cb or sv_status_cb, with the first n entries of the list.
ReportSvs(count, n, svs, inFix, hist, inside, end) ==
    IF n # 0 /\ end
    THEN /\ sv_count' = 0 /\ num_svs' = CountLeft(n) /\ used' = UsedLeft(inFix)
         /\ svReport' = Judge([i \in 1..Least(n, MaxSvs) |-> svs[i].sv],
                              UsedSvs(n, svs, inFix), CutBy(hist, inside))
         /\ since' = CutBy(Fresh, inside)
         /\ list' = [i \in DOMAIN list |-> None]
    ELSE /\ sv_count' = count /\ num_svs' = n /\ used' = inFix
         /\ since' = IF end THEN CutBy(hist, inside) ELSE hist
         /\ svReport' = NoReport
         /\ list' = svs

NothingReported == svReport' = NoReport /\ fixReport' = TRUE

\* A read ends at the end of the groups it began, unless it is split.
MayEnd(open) == {FALSE} \cup (IF open => "split" \in Faults THEN {TRUE} ELSE {})
InGroup == group # <<>>
EndsRead(end) == reading' = ~end /\ groups' = IF end THEN 0 ELSE groups

----------------------------------------------------------------------------
(* One action for each kind of sentence nmea_reader_parse knows.           *)

\* A sentence that may give the fix a field (has), and nothing else.
FixSentence(has) ==
    \E end \in MayEnd(InGroup) :
        /\ ReportFix(fix_mode, flags \/ has, gsaFix, end)
        /\ ReportSvs(sv_count, num_svs, list, used, since, InGroup, end)
        /\ EndsRead(end)
        /\ UNCHANGED <<gps_mode, fix_mode, group, seq, gsaFix>>

\* GGA: a position, unless its fields are empty.
gga_sentence == \E has \in BOOLEAN : FixSentence(has)

\* RMC: position, bearing and speed, but only with status A.
rmc_sentence ==
    \E status \in {"A", "V"}, has \in BOOLEAN : FixSentence(status = "A" /\ has)

\* ACCURACY: ignored as long as there is no fix.
accuracy_sentence ==
    \E has \in BOOLEAN : FixSentence(has /\ LOC_FIXED(fix_mode))

\* Any other sentence still reports what has been collected.
unknown_sentence == FixSentence(FALSE)

\* GSA: the fix mode and, with a fix, the satellites used, as far as the list
\* is valid: the GNSS reader keeps what precedes the first unknown number, the
\* GPS reader nothing of such a list.  The GNSS reader adds them to those of
\* earlier sentences, the GPS reader replaces those (2D and 3D are treated
\* alike).
gsa_sentence ==
    \E mode \in {1, 3}, end \in MayEnd(InGroup) :
    \E named \in IF LOC_FIXED(mode) THEN SUBSET Svs ELSE {{}} :
        LET fixed == LOC_FIXED(mode)
            inFix == IF gps_mode = 0 THEN used \cup named ELSE named
        IN  /\ fix_mode' = mode
            /\ gsaFix' = fixed
            /\ ReportFix(mode, flags, fixed, end)
            /\ ReportSvs(sv_count, num_svs, list, inFix,
                         [since EXCEPT !.gsaUsed = @ \cup named], InGroup, end)
            /\ EndsRead(end)
            /\ UNCHANGED <<gps_mode, group, seq>>

\* The engine begins the next group.
begin_group ==
    /\ ~InGroup /\ groups < MaxGroups
    /\ \E n \in 1..MaxGroup : group' \in [1..n -> Svs \cup OtherSvs]
    /\ seq' = 0
    /\ groups' = groups + 1
    /\ reading' = TRUE
    /\ NothingReported
    /\ UNCHANGED <<gps_mode, fixVars, svVars, used, since, gsaFix>>

\* The satellites of sentence number n, and the number of sentences.
Sentence(n) ==
    SubSeq(group, (n - 1) * SvInfo + 1, Least(n * SvInfo, Len(group)))
Sentences == (Len(group) + SvInfo - 1) \div SvInfo

\* The satellites with an accepted number among the first n, as a function of n.
Kept(svs) ==
    LET kept[n \in 0..Len(svs)] ==
            IF n = 0 THEN <<>>
            ELSE IF IsSv(svs[n]) THEN Append(kept[n - 1], svs[n])
            ELSE kept[n - 1]
    IN  kept

\* nmea_reader_update_sv_status_gnss and _gps for the satellites of one
\* sentence: each accepted number takes the next entry, while there is one.
Accepted(svs) == Kept(svs)[Len(svs)]

\* (Mutant: the bound forgets the satellites of earlier groups)
Room_of_group(count) == MaxSvs - count

\* (Mutant: the last entry is never used)
Room_less_one(count) ==
    IF count + num_svs + 1 < MaxSvs THEN MaxSvs - (count + num_svs) - 1 ELSE 0

Room(count) ==
    IF count + num_svs < MaxSvs THEN MaxSvs - (count + num_svs) ELSE 0
Stored(svs, count) ==
    SubSeq(Accepted(svs), 1, Least(Len(Accepted(svs)), Room(count)))

\* GSV: sentence 1 begins a new set; the last one adds it to the status.
gsv_sentence ==
    /\ InGroup
    /\ LET n     == seq + 1
           base  == IF n = 1 THEN 0 ELSE sv_count
           new   == Stored(Sentence(n), base)
           count == base + Len(new)
           svs   == [i \in DOMAIN list |->
                        IF i \in base + num_svs + 1 .. count + num_svs
                        THEN Entry(new[i - base - num_svs]) ELSE list[i]]
           last  == n = Sentences
           fits  == count <= Len(group)
           hist  == [since EXCEPT
                        !.complete = IF last
                                     THEN First(@ \o Accepted(group)) ELSE @,
                        !.received = @ \cup {new[i] : i \in DOMAIN new}]
       IN  \E end \in MayEnd(~last) :
            /\ ReportFix(fix_mode, flags, gsaFix, end)
            /\ ReportSvs(IF last /\ ~fits THEN 0 ELSE count,
                         CASE ~last -> num_svs
                           [] last /\ fits -> num_svs + count
                           [] OTHER -> 0,
                         svs, used, hist, ~last, end)
            /\ IF last THEN group' = <<>> /\ seq' = 0
                       ELSE group' = group /\ seq' = n
            /\ EndsRead(end)
    /\ UNCHANGED <<gps_mode, fix_mode, gsaFix>>

\* A GSV sentence that is too long for the buffer or cut short is dropped.
gsv_lost ==
    /\ "loss" \in Faults
    /\ InGroup
    /\ since' = [since EXCEPT !.lost = TRUE]
    /\ IF seq + 1 = Sentences THEN group' = <<>> /\ seq' = 0
                              ELSE group' = group /\ seq' = seq + 1
    /\ NothingReported
    /\ UNCHANGED <<gps_mode, fixVars, svVars, used, reading, groups, gsaFix>>

----------------------------------------------------------------------------
(* Commands on the control socket, handled between two reads.              *)

\* CMD_START: nmea_reader_set_callback.
cmd_start ==
    /\ ~reading
    /\ flags' = FALSE
    /\ sv_count' = 0 /\ num_svs' = 0
    /\ since' = [Fresh EXCEPT !.gsaUsed = since.gsaUsed, !.cut = InGroup]
    /\ NothingReported
    /\ UNCHANGED <<gps_mode, fix_mode, list, used, reading, sendVars, gsaFix>>

\* (Mutant: the fix mode survives the restart)
cmd_restart_keeps_fix ==
    /\ ~reading
    /\ fix_mode' = fix_mode
    /\ gsaFix' = FALSE
    /\ NothingReported
    /\ UNCHANGED <<gps_mode, flags, svVars, used, reading, sendVars, since>>

\* CMD_RESTART, sent by mtk_gps_delete_aiding_data.
cmd_restart ==
    /\ ~reading
    /\ fix_mode' = 0
    /\ gsaFix' = FALSE
    /\ NothingReported
    /\ UNCHANGED <<gps_mode, flags, svVars, used, reading, sendVars, since>>

----------------------------------------------------------------------------
Init ==
    /\ gps_mode \in {0, 1}
    /\ fix_mode = 0 /\ flags = FALSE
    /\ sv_count = 0 /\ num_svs = 0
    /\ list = [i \in 1..MaxSvs |-> None]
    /\ used = {}
    /\ reading = FALSE /\ group = <<>> /\ seq = 0 /\ groups = 0
    /\ since = Fresh /\ gsaFix = FALSE
    /\ svReport = NoReport /\ fixReport = TRUE

Next ==
    \/ gga_sentence \/ rmc_sentence \/ accuracy_sentence \/ unknown_sentence
    \/ gsa_sentence \/ begin_group \/ gsv_sentence \/ gsv_lost
    \/ cmd_start \/ cmd_restart

Spec == Init /\ [][Next]_vars

----------------------------------------------------------------------------
(* Properties.                                                             *)

\* Every variable holds a value of the type of the field it stands for, and as
\* long as no sentence is lost num_svs never claims more entries than sv_list
\* has, over several groups and reads: what a callback reads is in the array.
TypeOK ==
    /\ gps_mode \in {0, 1} /\ fix_mode \in 0..3 /\ flags \in BOOLEAN
    /\ sv_count \in 0..MaxSvs /\ num_svs \in Nat
    /\ list \in [1..MaxSvs -> [sv : Svs, used : BOOLEAN] \cup {None}]
    /\ used \in SUBSET Svs
    /\ reading \in BOOLEAN /\ group \in Seq(Svs \cup OtherSvs)
    /\ seq \in Nat /\ groups \in 0..MaxGroups
    /\ ~since.lost => num_svs <= MaxSvs

\* A satellite report lists exactly the satellites of the groups received
\* since the last report, in order, up to the size of the list, unless a
\* sentence was lost or a read ended in the middle of a group.
SvReportExact == svReport.exact

\* A satellite report never holds an entry left over from an earlier one,
\* wherever the reads ended (unless a sentence was lost).
SvReportCurrent == svReport.current

\* A satellite is reported as used in the fix only if a GSA sentence has named
\* it since the last report; the GPS reader keeps this even if it loses
\* sentences.
UsedCurrent == svReport.used

\* After a restart (mtk_gps_delete_aiding_data) no location is reported until
\* the engine has said again that it has a fix.
NoFixAfterRestart == fixReport
=============================================================================

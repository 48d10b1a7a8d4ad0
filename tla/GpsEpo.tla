------------------------------- MODULE GpsEpo -------------------------------
(***************************************************************************)
(* The download of the EPO (orbit prediction) file in                      *)
(* src/gps/hal/gps_mtk_aosp.c: the EPO thread fetches the pieces of the    *)
(* server's set one by one and appends each to EPOHAL.DAT, resumes a       *)
(* failed download up to RetryLimit times, and asks mnld to install the    *)
(* file as EPO.DAT; meanwhile mtk_gps_start may check, unlink and request, *)
(* and mnld's answer makes the native thread unlink EPOHAL.DAT.  The       *)
(* globals involved have no lock.  Times are in days.                      *)
(***************************************************************************)
EXTENDS Integers, Sequences, FiniteSets

CONSTANTS
    Pieces,       \* files in a set: gps_epo_download_days / 3, rounded up
    Period,       \* gps_epo_period
    WifiPeriod,   \* wifi_epo_period
    WifiTrigger,  \* gps_epo_wifi_trigger
    RetryLimit,   \* attempts before a resume is given up (10 in the code)
    FirstDay,     \* the day of the first start; the server's set is of day 1
    LastDay,      \* bound on the clock
    Faults        \* what else may go wrong in this model

AllFaults == {"bad", "append"}

ASSUME EpoAssumption ==
    /\ Pieces \in 1..10
    /\ Period \in {3, 15, 30} /\ WifiPeriod \in {1, 3, 15, 30}
    /\ WifiTrigger \in BOOLEAN
    /\ RetryLimit \in Nat \ {0}
    /\ LastDay \in Nat \ {0} /\ FirstDay \in 1..LastDay
    /\ Faults \subseteq AllFaults

VARIABLES
    now,            \* the clock
    server,         \* the day the server's current set starts
    net,            \* nw_connected and nw_type: "down", "data" or "wifi"
    session,        \* "off", "starting" (in mtk_gps_start) or "on" (started)
    count,          \* gps_epo_file_count
    updated,        \* GpsState.epo_data_updated: a download is requested
    failed,         \* epo_download_failed
    retry,          \* epo_download_retry
    timer,          \* the retry timer is armed
    file_retrying,  \* static of thread_epo_file_update, 50 when unset
    retry_time,     \* static of thread_epo_file_update
    hal,            \* EPOHAL.DAT as a sequence of pieces; <<>> if absent
    dat,            \* EPO.DAT, likewise
    piece,          \* the downloaded piece files, by number
    epc,            \* where the EPO thread is
    name,           \* gps_epo_file_name: the number of the file in it
    file_count_temp,\* local of thread_epo_file_update
    request,        \* MNL_CMD_UPDATE_EPO_FILE is on its way to mnld
    answer,         \* mnld's answer is on its way back
    spoiled         \* history: EPOHAL.DAT was damaged since the download began

envVars   == <<now, server, net>>
loopVars  == <<file_retrying, retry_time, file_count_temp>>
fileVars  == <<hal, dat, piece>>
mailVars  == <<request, answer>>
vars == <<envVars, session, count, updated, failed, retry, timer, loopVars,
          fileVars, epc, name, mailVars, spoiled>>

NoPiece == [set |-> 0, no |-> 0, ok |-> FALSE]
Piece == [set : 1..LastDay, no : 0..(Pieces - 1), ok : BOOLEAN]

StartOf(p) == p.set + 3 * p.no
EndOf(p) == StartOf(p) + 3

Goto(from, to) == epc = from /\ epc' = to

----------------------------------------------------------------------------
(* mtk_epo_is_expired and mtk_gps_epo_file_time_hal.                       *)

\* The file whose times are read: EPOHAL.DAT before EPO.DAT.
EpoFile == IF hal # <<>> THEN hal ELSE dat

\* After how many days a file that covers the given number of days counts as
\* expired.
expired_set(days) ==
    CASE days >= Period -> Period
      [] days < 3 -> 0
      [] days \in 3..5 -> 2
      [] days \in 6..8 -> 5
      [] OTHER -> 7

\* The possible results for a request of mtk_gps_start (wifi = FALSE) or of
\* the wifi trigger.  Without a readable first record the start is time 0;
\* the last record of a file that ends in a broken piece may hold anything.
Expired(wifi) ==
    IF EpoFile = <<>> \/ ~EpoFile[1].ok THEN {TRUE}
    ELSE LET first == StartOf(EpoFile[1])
             last  == EpoFile[Len(EpoFile)]
             limits == CASE wifi -> {WifiPeriod}
                         [] ~wifi /\ last.ok ->
                                {expired_set(EndOf(last) - first)}
                         [] OTHER -> {0, 2, 5, 7, Period}
         IN  { now >= first + d : d \in limits }

----------------------------------------------------------------------------
(* mtk_gps_start: the check of the EPO files, and mtk_gps_stop.            *)

\* A piece has been appended to EPOHAL.DAT and is not yet counted.
Checking == epc \in {"check", "recheck"}

\* The EPO thread is fetching a piece or has not yet counted it.
Fetching == Checking \/ epc \in {"fetch", "refetch"}

\* No lock keeps another thread from resetting the counter or removing
\* EPOHAL.DAT while a piece is fetched for it.  It does harm unless the piece
\* being fetched is the first one, before which both are reset anyway.
Interferes ==
    /\ Checking \/ (Fetching /\ count > 0)
    /\ <<hal, count>>' # <<hal, count>>

\* (Mutant: the counter is not reset)
gps_download_epo_keeps_count == updated' = TRUE /\ count' = count

\* gps_download_epo: ask the EPO thread for a download from the first piece.
gps_download_epo == updated' = TRUE /\ count' = 0

start_epo_check ==
    /\ session = "off"
    /\ session' = "starting"
    /\ \E expired \in Expired(FALSE) :
        \/ /\ hal = <<>>
           /\ IF expired THEN gps_download_epo
                         ELSE UNCHANGED <<updated, count>>
           /\ UNCHANGED <<hal, dat, request>>
        \/ /\ hal # <<>> /\ (net = "wifi" => ~failed)
           /\ \/ /\ expired
                 /\ hal' = <<>>
                 /\ gps_download_epo
                 /\ UNCHANGED <<dat, request>>
              \/ /\ ~expired /\ ~request
                 /\ dat' = <<>>
                 /\ request' = TRUE
                 /\ UNCHANGED <<hal, updated, count>>
        \/ /\ hal # <<>> /\ net = "wifi" /\ failed
           /\ UNCHANGED <<hal, dat, request, updated, count>>
    /\ UNCHANGED <<envVars, failed, retry, timer, loopVars, piece, epc, name,
                   answer>>
    /\ spoiled' = (spoiled \/ Interferes)

\* CMD_START and CMD_STOP reach gps_state_thread: started.
session_change ==
    /\ \/ session = "starting" /\ session' = "on"
       \/ session = "on" /\ session' = "off"
    /\ UNCHANGED <<envVars, count, updated, failed, retry, timer, loopVars,
                   fileVars, epc, name, mailVars, spoiled>>

----------------------------------------------------------------------------
(* thread_epo_file_update.                                                 *)

\* After the sleep: a requested download goes on with the file numbered by
\* the counter.
epo_wake ==
    /\ IF updated
       THEN /\ Goto("sleep", "fetch")
            /\ failed' = FALSE
            /\ name' = count
            /\ spoiled' = (spoiled /\ count > 0)
       ELSE Goto("sleep", "retry") /\ UNCHANGED <<failed, name, spoiled>>
    /\ UNCHANGED <<envVars, session, count, updated, retry, timer, loopVars,
                   fileVars, mailVars>>

\* curl_easy_download_epo fails: without a network always, otherwise perhaps.
\* A failure of a requested download withdraws the request.  The piece file is
\* removed, unless it failed before there was a URL (getEpoUrl).
fetch_fails ==
    /\ \/ Goto("fetch", "retry") /\ updated' = FALSE
       \/ Goto("refetch", "account") /\ updated' = updated
    /\ failed' = TRUE
    /\ piece' \in {piece, [piece EXCEPT ![name] = NoPiece]}
    /\ UNCHANGED <<envVars, session, count, retry, timer, loopVars, hal, dat,
                   name, mailVars, spoiled>>

\* EPOHAL.DAT when the next piece is about to be appended.
Begun == IF count = 0 THEN <<>> ELSE hal

\* No file holds a broken piece.
Intact ==
    /\ \A i \in 1..Len(hal) : hal[i].ok
    /\ \A i \in 1..Len(dat) : dat[i].ok

\* curl_easy_download_epo succeeds: the piece is stored and appended to
\* EPOHAL.DAT, which is begun anew if the counter is 0 at this moment.  A
\* piece too short to hold a record is the fault "bad"; as a bound, there is
\* at most one broken piece in the files.
fetch_done ==
    /\ net # "down"
    /\ Goto("fetch", "check") \/ Goto("refetch", "recheck")
    /\ \E ok \in BOOLEAN :
        /\ ok \/ ("bad" \in Faults /\ Intact)
        /\ LET new == [set |-> server, no |-> name, ok |-> ok]
           IN  /\ piece' = [piece EXCEPT ![name] = new]
               /\ hal' = Append(Begun, new)
    /\ UNCHANGED <<envVars, session, count, updated, failed, retry, timer,
                   loopVars, dat, name, mailVars, spoiled>>

\* The same when EPOHAL.DAT or the piece cannot be opened, or not all of it is
\* written (the fault "append"): the code logs it and reports success.  An
\* EPOHAL.DAT that is opened and left empty is taken as absent.
append_fails ==
    /\ "append" \in Faults
    /\ net # "down"
    /\ Goto("fetch", "check") \/ Goto("refetch", "recheck")
    /\ LET new == [set |-> server, no |-> name, ok |-> TRUE]
       IN  /\ piece' = [piece EXCEPT ![name] = new]
           /\ \/ hal' = Begun
              \/ Intact /\ hal' = Append(Begun, [new EXCEPT !.ok = FALSE])
    /\ spoiled' = TRUE
    /\ UNCHANGED <<envVars, session, count, updated, failed, retry, timer,
                   loopVars, dat, name, mailVars>>

\* mtk_gps_epo_server_data_is_changed: the new piece begins a day or more
\* after the end of the one before it (time 0 if that cannot be read).
BeforeEnd == IF piece[count - 1].ok THEN EndOf(piece[count - 1]) ELSE 0
Unreadable == ~piece[name].ok \/ (count > 0 /\ piece[count - 1] # NoPiece
                                            /\ ~piece[count - 1].ok)
\* (Mutant: a new set on the server goes unnoticed)
ServerChanged_never == FALSE

ServerChanged ==
    /\ piece[name].ok /\ count > 0
    /\ StartOf(piece[name]) - BeforeEnd >= 1

\* (Mutant: a completed download is requested again)
Checked_keeps_request(outcome) ==
    \/ Goto("check", "retry") /\ updated' = (outcome # "failed")
    \/ Goto("recheck", "account")
       /\ updated' = IF outcome = "complete" THEN FALSE ELSE updated

Checked(outcome) ==
    \/ Goto("check", "retry") /\ updated' = (outcome \in {"next", "again"})
    \/ Goto("recheck", "account")
       /\ updated' = IF outcome = "complete" THEN FALSE ELSE updated

\* The set has changed: everything fetched so far is dropped.
check_changed ==
    /\ ServerChanged
    /\ Checked(IF Unreadable THEN "failed" ELSE "again")
    /\ piece' = [i \in DOMAIN piece |->
                    IF i <= count THEN NoPiece ELSE piece[i]]
    /\ hal' = <<>>
    /\ count' = 0
    /\ failed' = (failed \/ Unreadable)
    /\ UNCHANGED <<envVars, session, retry, timer, loopVars, dat, name,
                   mailVars, spoiled>>

\* A piece cannot be read: the download has failed, EPOHAL.DAT stays as it is.
check_failed ==
    /\ ~ServerChanged /\ Unreadable
    /\ Checked("failed")
    /\ failed' = TRUE
    /\ UNCHANGED <<envVars, session, count, retry, timer, loopVars, fileVars,
                   name, mailVars, spoiled>>

\* (Mutant: off by one at the last piece)
check_next_one_more ==
    /\ ~ServerChanged /\ ~Unreadable
    /\ count + 1 <= Pieces
    /\ Checked("next")
    /\ count' = count + 1
    /\ UNCHANGED <<envVars, session, failed, retry, timer, loopVars, fileVars,
                   name, mailVars, spoiled>>

\* One more piece is there, and others are to follow.
check_next ==
    /\ ~ServerChanged /\ ~Unreadable
    /\ count + 1 < Pieces
    /\ Checked("next")
    /\ count' = count + 1
    /\ UNCHANGED <<envVars, session, failed, retry, timer, loopVars, fileVars,
                   name, mailVars, spoiled>>

\* The last piece: the piece files are removed and, during a session, mnld is
\* asked to install the file.
check_complete ==
    /\ ~ServerChanged /\ ~Unreadable
    /\ count + 1 >= Pieces
    /\ Checked("complete")
    /\ piece' = [i \in DOMAIN piece |-> NoPiece]
    /\ count' = 0
    /\ failed' = FALSE
    /\ \/ /\ session = "on" /\ ~request
          /\ dat' = <<>>
          /\ request' = TRUE
       \/ session # "on" /\ UNCHANGED <<dat, request>>
    /\ UNCHANGED <<envVars, session, retry, timer, loopVars, hal, name,
                   answer, spoiled>>

\* A failed download is resumed while there is a network and the retry flag
\* is set.
Resumable ==
    /\ session = "on" \/ net = "wifi"
    /\ net # "down" /\ failed /\ retry

resume_skip ==
    /\ ~Resumable
    /\ Goto("retry", "wifi")
    /\ UNCHANGED <<envVars, session, count, updated, failed, retry, timer,
                   loopVars, fileVars, name, mailVars, spoiled>>

\* The data is a day old: begin with the first file.  Otherwise go on with
\* the file that failed.
resume ==
    /\ Resumable
    /\ file_retrying' = IF file_retrying = 50 THEN count ELSE file_retrying
    /\ file_count_temp' = count
    /\ IF EpoFile = <<>> \/ ~EpoFile[1].ok \/ now >= StartOf(EpoFile[1]) + 1
       THEN /\ Goto("retry", "account")
            /\ failed' = FALSE
            /\ count' = 0
            /\ updated' = TRUE
            /\ hal' = <<>>
            /\ UNCHANGED name
       ELSE /\ Goto("retry", "refetch")
            /\ name' = count
            /\ UNCHANGED <<failed, count, updated, hal>>
    /\ spoiled' = (spoiled /\ count' > 0)
    /\ UNCHANGED <<envVars, session, retry, timer, retry_time, dat, piece,
                   mailVars>>

\* A resume that made no progress waits for the timer (taken to be created
\* successfully), or is given up.
resume_account ==
    /\ Goto("account", "wifi")
    /\ LET stuck == file_count_temp = count
           times == IF file_retrying = count THEN retry_time + 1 ELSE 0
       IN  \/ /\ ~stuck
              /\ UNCHANGED <<failed, retry, timer, file_retrying, retry_time>>
           \/ /\ stuck /\ times < RetryLimit
              /\ file_retrying' = count
              /\ retry_time' = times
              /\ retry' = FALSE
              /\ timer' = TRUE
              /\ UNCHANGED failed
           \/ /\ stuck /\ times >= RetryLimit
              /\ failed' = FALSE
              /\ retry_time' = 0
              /\ file_retrying' = 50
              /\ UNCHANGED <<retry, timer>>
    /\ UNCHANGED <<envVars, session, count, updated, file_count_temp,
                   fileVars, name, mailVars, spoiled>>

\* With a wifi connection an expired file is downloaded unasked.
wifi_trigger ==
    /\ Goto("wifi", "sleep")
    /\ \/ /\ ~updated /\ WifiTrigger /\ ~failed /\ net = "wifi"
          /\ TRUE \in Expired(TRUE)
          /\ gps_download_epo
          /\ hal' = <<>>
       \/ /\ \/ updated \/ ~WifiTrigger \/ failed \/ net # "wifi"
             \/ FALSE \in Expired(TRUE)
          /\ UNCHANGED <<updated, count, hal>>
    /\ UNCHANGED <<envVars, session, failed, retry, timer, loopVars, dat,
                   piece, name, mailVars, spoiled>>

\* (Mutant: the timer does not allow the retry)
retry_alarm_handler_idle ==
    /\ timer
    /\ timer' = FALSE
    /\ retry' = retry
    /\ UNCHANGED <<envVars, session, count, updated, failed, loopVars,
                   fileVars, epc, name, mailVars, spoiled>>

\* retry_alarm_handler.
retry_alarm_handler ==
    /\ timer
    /\ timer' = FALSE
    /\ retry' = TRUE
    /\ UNCHANGED <<envVars, session, count, updated, failed, loopVars,
                   fileVars, epc, name, mailVars, spoiled>>

----------------------------------------------------------------------------
(* mnld, the network, the server and the clock.                            *)

\* mnld (external) installs EPOHAL.DAT as EPO.DAT and answers.  Each mailbox
\* holds one datagram: a request waits until the last one was taken, an answer
\* that finds the last one unread is lost.
mnld_install ==
    /\ request
    /\ request' = FALSE
    /\ dat' = IF hal # <<>> THEN hal ELSE dat
    /\ answer' = (answer \/ hal # <<>>)
    /\ UNCHANGED <<envVars, session, count, updated, failed, retry, timer,
                   loopVars, hal, piece, epc, name, spoiled>>

\* HAL_CMD_UPDATE_EPO_FILE_DONE in mnld_to_gps_handler: the installed file is
\* removed, unless the counter says that a download is under way.
update_epo_file_done ==
    /\ answer
    /\ answer' = FALSE
    /\ hal' = IF ~failed /\ count = 0 THEN <<>> ELSE hal
    /\ UNCHANGED <<envVars, session, count, updated, failed, retry, timer,
                   loopVars, dat, piece, epc, name, request>>
    /\ spoiled' = (spoiled \/ Interferes)

\* agps_ril_update_network_state.
network_state ==
    /\ net' \in {"down", "data", "wifi"} \ {net}
    /\ UNCHANGED <<now, server, session, count, updated, failed, retry, timer,
                   loopVars, fileVars, epc, name, mailVars, spoiled>>

\* A day passes; a piece is downloaded within a day.
new_day ==
    /\ now < LastDay /\ ~Fetching
    /\ now' = now + 1
    /\ UNCHANGED <<server, net, session, count, updated, failed, retry, timer,
                   loopVars, fileVars, epc, name, mailVars, spoiled>>

\* The server (external) puts up the set that starts today.
server_update ==
    /\ server < now
    /\ server' = now
    /\ UNCHANGED <<now, net, session, count, updated, failed, retry, timer,
                   loopVars, fileVars, epc, name, mailVars, spoiled>>

----------------------------------------------------------------------------
Init ==
    /\ now = FirstDay /\ server = 1 /\ net = "down" /\ session = "off"
    /\ count = 0 /\ updated = FALSE /\ failed = FALSE
    /\ retry = TRUE /\ timer = FALSE
    /\ file_retrying = 50 /\ retry_time = 0 /\ file_count_temp = 0
    /\ hal = <<>> /\ dat = <<>>
    /\ piece = [i \in 0..(Pieces - 1) |-> NoPiece]
    /\ epc = "sleep" /\ name = 0
    /\ request = FALSE /\ answer = FALSE
    /\ spoiled = FALSE

EpoThread ==
    \/ epo_wake \/ fetch_fails \/ fetch_done \/ append_fails
    \/ check_changed \/ check_failed \/ check_next \/ check_complete
    \/ resume_skip \/ resume \/ resume_account \/ wifi_trigger

Framework == start_epo_check \/ session_change \/ network_state

Next ==
    \/ EpoThread \/ Framework \/ retry_alarm_handler
    \/ mnld_install \/ update_epo_file_done \/ new_day \/ server_update

Spec == Init /\ [][Next]_vars

\* The EPO thread and the timer run; mnld and the native thread answer.
LiveSpec ==
    /\ Spec
    /\ WF_vars(EpoThread) /\ WF_vars(retry_alarm_handler)
    /\ WF_vars(mnld_install) /\ WF_vars(update_epo_file_done)

----------------------------------------------------------------------------
(* Properties.                                                             *)

EpoPoints == {"sleep", "fetch", "check", "retry", "refetch", "recheck",
              "account", "wifi"}

PointsOK ==
    /\ epc \in EpoPoints
    /\ net \in {"down", "data", "wifi"}
    /\ session \in {"off", "starting", "on"}

FlagsOK ==
    /\ updated \in BOOLEAN /\ failed \in BOOLEAN
    /\ retry \in BOOLEAN /\ timer \in BOOLEAN
    /\ request \in BOOLEAN /\ answer \in BOOLEAN
    /\ spoiled \in BOOLEAN

NumbersOK ==
    /\ now \in 1..LastDay /\ server \in 1..LastDay /\ server <= now
    /\ count \in 0..(Pieces - 1) /\ name \in 0..(Pieces - 1)
    /\ file_retrying \in 0..(Pieces - 1) \cup {50}
    /\ retry_time \in 0..(RetryLimit - 1)
    /\ file_count_temp \in 0..(Pieces - 1)

FilesOK ==
    /\ hal \in Seq(Piece) /\ dat \in Seq(Piece)
    /\ piece \in [0..(Pieces - 1) -> Piece \cup {NoPiece}]

\* Every variable holds a value of its C type; the counter stays within the
\* names gps_download_epo_file_name knows, and the server is not ahead of the
\* clock.
TypeOK == PointsOK /\ FlagsOK /\ NumbersOK /\ FilesOK

\* The places of the pieces of a file that can be read.
Readable(file) == {i \in 1..Len(file) : file[i].ok}

\* The readable pieces of a file are the pieces 0 to n - 1 of one set, in this
\* order: none is missing and none is there twice.
Holds(file, n) ==
    /\ Cardinality(Readable(file)) = n
    /\ \A i \in Readable(file) :
        /\ file[i].no = Cardinality({k \in Readable(file) : k < i})
        /\ \A k \in Readable(file) : file[k].set = file[i].set

\* The EPO thread is about to declare the download complete.
Completes ==
    /\ epc \in {"check", "recheck"}
    /\ ~ServerChanged /\ ~Unreadable
    /\ count + 1 >= Pieces

\* When the download is declared complete, the readable pieces of EPOHAL.DAT
\* are all pieces of one set, in order, even though the download failed, was
\* resumed and restarted, the server changed its set and other threads checked
\* and removed the file meanwhile.  The exceptions, and the only ones, are that
\* an append failed or that another thread reset the counter or removed
\* EPOHAL.DAT in the middle of a fetch since this download took its first piece.
CompleteFileInOrder == Completes /\ ~spoiled => Holds(hal, Pieces)

\* The counter is the number of readable pieces in EPOHAL.DAT, and they are the
\* pieces 0, 1, ... of one set in order: a resume appends the piece that
\* follows the last readable one; with the same exceptions.
CounterMatchesFile ==
    count > 0 /\ ~Fetching /\ ~spoiled => Holds(hal, count)

\* Every download that is requested ends: it is completed, or it fails and the
\* request is withdrawn (epo_data_updated is cleared); unless sessions are
\* started for ever, each start finding an expired file and resetting the
\* counter.
DownloadEnds == (updated ~> ~updated) \/ []<>(session = "starting")

\* With a lasting wifi connection a failed download does not stay failed: it
\* is completed, restarted or given up.
FailureIsResolved == <>[](net = "wifi") => []<>(~failed)
=============================================================================

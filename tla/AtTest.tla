------------------------------- MODULE AtTest -------------------------------
(***************************************************************************)
(* The GPS self test of src/gps/hal/gps_mtk_aosp.c (GPS_AT_COMMAND): a     *)
(* tester sends AT commands to a socket of the native thread, which starts *)
(* the engine, counts the GSV groups in which satellite 1 has a signal,    *)
(* and answers with the result.  Everything runs on that one thread; what  *)
(* varies is the order of commands, sentences, control bytes and time.     *)
(*                                                                         *)
(* A signal level is only seen or not (CNo and Success_Num are reset and   *)
(* advanced together, so Avg_CNo is 0 exactly when no sample was taken     *)
(* since it was cleared; the deviation is left out).  MNL_AT_CANCEL_ALARM  *)
(* is never set and alarm_handler never installed, so neither is modelled; *)
(* a running test always has hal_test_data.prn_num = 1.                    *)
(***************************************************************************)
EXTENDS Naturals, Sequences

CONSTANTS
    MaxNum,      \* bound on the n of AT%GPS=n and AT%GNSS=n
    WaitCount,   \* MAX_VALID_STATUS_WAIT_COUNT (20 in the code)
    MaxCount,    \* bound on Success_Num and Failure_Num
    MaxQueue,    \* bound on the bytes in the control socket
    MaxCommands  \* bound on the commands of the tester

ASSUME AtAssumption ==
    /\ MaxNum \in Nat \ {0} /\ WaitCount \in Nat \ {0}
    /\ MaxCount \in Nat /\ MaxQueue \in Nat /\ MaxCommands \in Nat

VARIABLES
    at,            \* the globals of the test, see AtRecord
    init,          \* GpsState.init
    control,       \* GpsState.control: bytes written, not yet read
    test_started,  \* local of gps_state_thread
    ack,           \* the answer the last step sent to the tester, or "none"
    sent_commands, \* commands the tester has sent
    run            \* history: how the last test of n samples went

vars == <<at, init, control, test_started, ack, sent_commands, run>>

Timeout == 32   \* the error bit 1 << 5
NoResult == 1   \* Err_Code and result[0] before a test has one

Results == [err : {0, NoResult, Timeout}, success : Nat, completed : Nat,
            cno : BOOLEAN]

AtRecord ==
    [state : {"UNKNOWN", "INPROGRESS", "DONE", "RESULT_DONE"},
                            \* MNL_AT_TEST_STATE
     flag : BOOLEAN,        \* MNL_AT_TEST_FLAG: a test of n samples
     signal : BOOLEAN,      \* MNL_AT_SIGNAL_MODE
     begin : BOOLEAN,       \* MNL_AT_SIGNAL_TEST_BEGIN
     usb : BOOLEAN,         \* test_mode_flag = 0
     num : Nat,             \* hal_test_data.test_num
     waited : BOOLEAN,      \* at least hal_test_data.time_delay seconds
                            \* have passed since start_time
     success : Nat,         \* Success_Num
     failure : Nat,         \* Failure_Num
     wait : Nat,            \* Wait_Num
     prev : Nat,            \* prev_success_num of nmea_reader_parse
     err : {0, NoResult, Timeout},      \* Err_Code
     avg : BOOLEAN,         \* Avg_CNo # 0
     cn : BOOLEAN,          \* cn # 0
     sig : 0..1,            \* sig_suc_num
     dev : {"null", "live", "freed"},   \* what Dev_CNr points to
     len : Nat,             \* the samples for which it has room
     past : BOOLEAN,        \* history: a sample was stored past its end
     odd : BOOLEAN,         \* history: the test began with counters of an
                            \* earlier one, or a read brought two samples
     result : Results]      \* result[0], [3], [4] and [5]

Init ==
    /\ at = [state |-> "UNKNOWN", flag |-> FALSE, signal |-> FALSE,
             begin |-> FALSE, usb |-> FALSE, num |-> 0, waited |-> TRUE,
             success |-> 0, failure |-> 0, wait |-> 0,
             prev |-> 0, err |-> NoResult, avg |-> FALSE, cn |-> FALSE,
             sig |-> 0, dev |-> "null", len |-> 0, past |-> FALSE, odd |-> FALSE,
             result |-> [err |-> NoResult, success |-> 0, completed |-> 0,
                         cno |-> FALSE]]
    /\ init = FALSE
    /\ control = <<>>
    /\ test_started = FALSE
    /\ ack = "none"
    /\ sent_commands = 0
    /\ run = "none"

----------------------------------------------------------------------------
(* Starting and stopping a test.  sent is whether mtk_daemon_send reaches  *)
(* mnld; each operator gives the globals it leaves behind.                 *)

\* (Mutant: the state is left as it was)
test_stop_keeps_state(t, sent) ==
    IF ~init \/ ~sent THEN [t EXCEPT !.usb = FALSE]
    ELSE [t EXCEPT !.usb = FALSE, !.num = 0, !.waited = TRUE,
                   !.flag = FALSE, !.signal = FALSE, !.begin = FALSE,
                   !.success = 0, !.wait = 0, !.err = NoResult,
                   !.dev = "freed"]

\* mtk_gps_test_stop.  Failure_Num, Avg_CNo, cn and the result stay.
mtk_gps_test_stop(t, sent) ==
    IF ~init \/ ~sent THEN [t EXCEPT !.usb = FALSE]
    ELSE [t EXCEPT !.usb = FALSE, !.num = 0, !.waited = TRUE,
                   !.flag = FALSE, !.signal = FALSE, !.begin = FALSE,
                   !.state = "UNKNOWN", !.success = 0, !.wait = 0,
                   !.err = NoResult, !.dev = "freed"]

\* A counter is not what it was before the first test.
LeftOver(t) == t.success # 0 \/ t.failure # 0 \/ t.prev # 0

\* mtk_gps_test_start up to the check of s->init.  The parsers have set
\* test_mode_flag to 0, so a test that is running is not stopped first: the
\* array is replaced by one of n samples, and Success_Num, Failure_Num and
\* prev_success_num go on from where they are.
test_setup(t, n, mode) ==
    [t EXCEPT !.num = n, !.waited = FALSE, !.avg = FALSE,
              !.dev = "live", !.len = n, !.past = FALSE, !.odd = LeftOver(t),
              !.signal = IF mode = 1 THEN TRUE ELSE @,
              !.flag = IF mode = 1 THEN @ ELSE TRUE]

mtk_gps_test_start(t, n, mode, sent) ==
    LET u == test_setup(t, n, mode)
    IN  CASE ~init -> u
          [] init /\ sent -> [u EXCEPT !.state = "INPROGRESS"]
          [] init /\ ~sent -> [u EXCEPT !.state = "UNKNOWN", !.flag = FALSE]

\* The byte gps_state_test_start or gps_state_test_stop writes.
Written(cmd, sent) == IF init /\ sent THEN <<cmd>> ELSE <<>>

----------------------------------------------------------------------------
(* The commands of the tester.                                             *)

\* mtk_gps_test_inprogress.
mtk_gps_test_inprogress(t) ==
    IF t.state = "RESULT_DONE" THEN "DONE" ELSE t.state

\* (Mutant: a result without error counts as none)
at_command_send_test_result_no_avg(t) ==
    CASE mtk_gps_test_inprogress(t) = "INPROGRESS" -> "in progress"
      [] mtk_gps_test_inprogress(t) = "DONE" -> "result"
      [] OTHER -> IF t.result.err # 0 THEN "result" ELSE "zeros"

at_command_send_test_result(t) ==
    CASE mtk_gps_test_inprogress(t) = "INPROGRESS" -> "in progress"
      [] mtk_gps_test_inprogress(t) = "DONE" -> "result"
      [] OTHER -> IF \/ t.result.err # 0
                     \/ (t.result.cno /\ ~t.signal /\ ~t.begin)
                  THEN "result" ELSE "zeros"

\* at_command_send_cno.
at_command_send_cno(t) ==
    CASE mtk_gps_test_inprogress(t) = "INPROGRESS" -> "in progress"
      [] OTHER -> IF (IF t.signal THEN t.cn ELSE t.avg) THEN "level" ELSE "0, NA"

\* A test started while none is under way and no sample is left over from one
\* that a failed start cut off.
Begun(t) ==
    IF init /\ ~t.flag /\ ~t.signal /\ t.state = "UNKNOWN" /\ t.success = 0
    THEN "clean" ELSE "none"

\* A command is parsed; the parsers of AT%GPS and AT%GNSS first set
\* test_mode_flag to 0.
Parse(t, answer, bytes) ==
    /\ sent_commands < MaxCommands /\ sent_commands' = sent_commands + 1
    /\ Len(control) + Len(bytes) <= MaxQueue
    /\ at' = t
    /\ ack' = answer
    /\ control' = control \o bytes
    /\ UNCHANGED <<init, test_started>>

Usb == [at EXCEPT !.usb = TRUE]

\* AT%GPS=n for a number n.
at_gps_start(n, sent) ==
    /\ Parse(mtk_gps_test_start(Usb, n, 0, sent),
             IF init /\ sent THEN "START OK" ELSE "ERROR",
             Written("TEST_START", sent))
    /\ run' = Begun(at)

\* AT%GPS=n for anything that strtoul does not take as a whole, or 0.
at_gps_invalid ==
    Parse(Usb, "Invalid Test Num", <<>>) /\ UNCHANGED run

\* AT%GPS?
at_gps_query ==
    /\ Parse(Usb, CASE mtk_gps_test_inprogress(at) = "INPROGRESS" -> "in progress"
                    [] mtk_gps_test_inprogress(at) = "DONE" -> "result"
                    [] OTHER -> "ERROR", <<>>)
    /\ UNCHANGED run

\* AT%GPS, AT%GPS=? and AT%GNSS.
at_cno == Parse(Usb, at_command_send_cno(at), <<>>) /\ UNCHANGED run

\* AT%GPS=E and AT%GPS=D only log; no answer is sent.
at_gps_debug == Parse(Usb, "none", <<>>) /\ UNCHANGED run

\* AT%GNSS? and AT%GNSS=?
at_gnss_query ==
    Parse(Usb, at_command_send_test_result(at), <<>>) /\ UNCHANGED run

\* AT%GNSS=S: open the engine in signal mode, or change a running test to it.
at_gnss_signal(sent) ==
    /\ run' = "none"
    /\ IF at.flag
       THEN Parse([Usb EXCEPT !.signal = TRUE, !.flag = FALSE],
                  "START OK", <<>>)
       ELSE Parse(mtk_gps_test_start(Usb, 0, 1, sent),
                  IF init /\ sent THEN "START OK" ELSE "START FAIL",
                  Written("TEST_START", sent))

\* AT%GNSS=E.
at_gnss_end(sent) ==
    /\ run' = IF at.state = "UNKNOWN" THEN run ELSE "none"
    /\ IF at.state = "UNKNOWN"
       THEN Parse(Usb, "Not In Progress", <<>>)
       ELSE Parse(mtk_gps_test_stop(Usb, sent),
                  IF init /\ sent THEN "END OK" ELSE "END FAIL",
                  Written("TEST_STOP", sent))

\* "initialzation of result whenever starting test again" in
\* at_gnss_command_parser.  Failure_Num and Wait_Num are not among it.
gnss_clear(t) ==
    [t EXCEPT !.usb = TRUE, !.avg = FALSE, !.success = 0, !.cn = FALSE,
              !.result = [err |-> NoResult, success |-> 0, completed |-> 0,
                          cno |-> FALSE]]

\* AT%GNSS=n for a number n: begins the measurement of signal mode, or starts
\* a test.
at_gnss_start(n, sent) ==
    /\ run' = Begun(gnss_clear(at))
    /\ IF at.signal
       THEN Parse([gnss_clear(at) EXCEPT !.begin = TRUE, !.waited = FALSE,
                                         !.state = "INPROGRESS"],
                  "START OK", <<>>)
       ELSE Parse(mtk_gps_test_start(gnss_clear(at), n, 0, sent),
                  IF init /\ sent THEN "START OK" ELSE "ERROR",
                  Written("TEST_START", sent))

\* AT%GNSS=n for anything else: in signal mode it ends the test.
at_gnss_invalid(sent) ==
    /\ run' = "none"
    /\ IF at.signal /\ at.state # "UNKNOWN"
       THEN Parse(mtk_gps_test_stop(gnss_clear(at), sent),
                  "Invalid Test Num", Written("TEST_STOP", sent))
       ELSE Parse(gnss_clear(at), "Invalid Test Num", <<>>)

\* What none of the parsers knows.
at_unknown(gps) ==
    Parse(IF gps THEN Usb ELSE at, "ERROR", <<>>) /\ UNCHANGED run

at_command_parser ==
    \/ \E n \in 1..MaxNum, sent \in BOOLEAN :
          at_gps_start(n, sent) \/ at_gnss_start(n, sent)
    \/ \E sent \in BOOLEAN :
          at_gnss_signal(sent) \/ at_gnss_end(sent) \/ at_gnss_invalid(sent)
    \/ at_gps_invalid \/ at_gps_query \/ at_gps_debug
    \/ at_cno \/ at_gnss_query
    \/ \E gps \in BOOLEAN : at_unknown(gps)

----------------------------------------------------------------------------
(* nmea_reader_parse in a test: the account at the last sentence of a read,*)
(* then the search of a complete GSV group for the satellite.              *)

\* The account is kept while a test runs, after the time_delay seconds.
Counting(t) == t.flag \/ t.begin
Static(t) == Counting(t) /\ ~t.waited

\* (Mutant: Wait_Num is not cleared)
end_test_keeps_wait(t, err, completed, sent) ==
    LET u == [t EXCEPT !.state = "DONE", !.err = NoResult,
                       !.result = [err |-> err, success |-> t.success,
                                   completed |-> completed, cno |-> t.avg]]
    IN  IF t.flag
        THEN [mtk_gps_test_stop(u, sent) EXCEPT !.failure = 0, !.prev = 0]
        ELSE u

\* The test is over: the result is stored, and a test of n samples stopped.
end_test(t, err, completed, sent) ==
    LET u == [t EXCEPT !.state = "DONE", !.wait = 0, !.err = NoResult,
                       !.result = [err |-> err, success |-> t.success,
                                   completed |-> completed, cno |-> t.avg]]
    IN  IF t.flag
        THEN [mtk_gps_test_stop(u, sent) EXCEPT !.failure = 0, !.prev = 0]
        ELSE u

\* (Mutant: the wait for a first signal has no end)
account_waits(t, sent) ==
    LET failure == IF t.success > 0 /\ t.prev = t.success THEN t.failure + 1
                   ELSE t.failure
        u == [t EXCEPT !.failure = failure, !.prev = t.success]
    IN  IF t.success > 0 /\ t.success + failure = t.num
        THEN end_test(u, t.err, t.num, sent) ELSE u

\* (Mutant: the test ends one try too late)
account_late(t, sent) ==
    LET failure == IF t.success > 0 /\ t.prev = t.success THEN t.failure + 1
                   ELSE t.failure
        u == [t EXCEPT !.failure = failure, !.prev = t.success,
                       !.wait = IF t.success = 0 THEN t.wait + 1 ELSE @]
    IN  CASE t.success > 0 /\ t.success + failure = t.num + 1 ->
               end_test(u, t.err, t.num, sent)
          [] t.success = 0 /\ u.wait = WaitCount ->
               end_test(u, Timeout, 1, sent)
          [] OTHER -> u

\* gps_nmea_end_tag is set: one more read counts as success, failure or wait.
account(t, sent) ==
    LET failure == IF t.success > 0 /\ t.prev = t.success THEN t.failure + 1
                   ELSE t.failure
        u == [t EXCEPT !.failure = failure, !.prev = t.success,
                       !.wait = IF t.success = 0 THEN t.wait + 1 ELSE @]
    IN  CASE t.success > 0 /\ t.success + failure = t.num ->
               end_test(u, t.err, t.num, sent)
          [] t.success = 0 /\ u.wait = WaitCount ->
               end_test(u, Timeout, 1, sent)
          [] OTHER -> u

\* gps_at_command_search_satellite for a group that lists the satellite with
\* (seen) or without a signal level.
search_satellite(t, seen) ==
    IF ~seen THEN [t EXCEPT !.sig = 0]
    ELSE [t EXCEPT
            !.state = CASE t.signal /\ t.begin -> "RESULT_DONE"
                        [] t.signal /\ ~t.begin -> "INPROGRESS"
                        [] OTHER -> @,
            !.sig = IF t.signal /\ t.begin THEN 1 ELSE @,
            !.err = IF t.flag THEN 0 ELSE @,
            !.past = @ \/ (t.flag /\ t.success >= t.len),
            !.odd = @ \/ (t.flag /\ t.success > t.prev),
            !.success = IF t.flag THEN @ + 1 ELSE @,
            !.avg = @ \/ t.flag,
            !.cn = TRUE]

\* gps_at_command_test_proc: a group is complete; group is "seen" or "weak"
\* when it lists the satellite, "none" when it does not.
test_proc(t, group) ==
    LET found == IF group = "none" THEN t
                 ELSE search_satellite(t, group = "seen")
    IN  CASE t.state = "DONE" \/ (t.signal /\ ~t.begin) -> t
          [] t.state # "DONE" /\ t.signal /\ t.begin ->
               [found EXCEPT !.result = [err |-> 0, success |-> found.sig,
                                         completed |-> 1, cno |-> found.cn]]
          [] OTHER -> found

\* One sentence: it ends the read or not (last), and completes a GSV group or
\* not (group = "no group").
parse_sentence(t, last, group, sent) ==
    LET u == IF Counting(t) /\ last THEN account(t, sent) ELSE t
    IN  CASE Static(t) -> t
          [] ~Static(t) /\ group # "no group" /\ (u.flag \/ u.signal) ->
               test_proc(u, group)
          [] OTHER -> u

nmea_reader_parse(last, group, sent) ==
    LET t == parse_sentence(at, last, group, sent)
        stop == at.dev = "live" /\ t.dev = "freed"   \* the test was stopped
        bytes == IF stop THEN <<"TEST_STOP">> ELSE <<>>
    IN  /\ t.success <= MaxCount /\ t.failure <= MaxCount
        /\ Len(control) + Len(bytes) <= MaxQueue
        /\ at' = t
        /\ control' = control \o bytes
        /\ run' = IF stop /\ run = "clean" THEN "finished" ELSE run
        /\ UNCHANGED <<init, test_started, sent_commands>>
        /\ ack' = "none"

----------------------------------------------------------------------------
(* The rest of gps_state_thread, and the clock.                            *)

\* CMD_TEST_START and CMD_TEST_STOP; what nmea_reader_set_callback resets is
\* in NmeaReader.
gps_state_thread_control ==
    /\ control # <<>>
    /\ control' = Tail(control)
    /\ test_started' = CASE Head(control) = "TEST_STOP" -> FALSE
                         [] OTHER -> test_started \/ ~at.usb
    /\ UNCHANGED <<at, init, sent_commands, run>>
    /\ ack' = "none"

\* mtk_gps_init sets s->init a millisecond after the thread is ready.
mtk_gps_init ==
    /\ ~init
    /\ init' = TRUE
    /\ UNCHANGED <<at, control, test_started, sent_commands, run>>
    /\ ack' = "none"

Wait ==
    /\ ~at.waited
    /\ at' = [at EXCEPT !.waited = TRUE]
    /\ UNCHANGED <<init, control, test_started, sent_commands, run>>
    /\ ack' = "none"

Groups == {"no group", "none", "weak", "seen"}

Next ==
    \/ at_command_parser
    \/ \E last \in BOOLEAN, group \in Groups, sent \in BOOLEAN :
          nmea_reader_parse(last, group, sent)
    \/ gps_state_thread_control
    \/ mtk_gps_init
    \/ Wait

Spec == Init /\ [][Next]_vars

\* The engine keeps sending and the thread reading: every second ends a read.
LiveSpec ==
    /\ Spec
    /\ WF_vars(Wait) /\ WF_vars(gps_state_thread_control)
    /\ WF_vars(\E group \in Groups, sent \in BOOLEAN :
                  nmea_reader_parse(TRUE, group, sent))

----------------------------------------------------------------------------
(* Properties.                                                             *)

Bytes == {"TEST_START", "TEST_STOP"}
Answers == {"none", "START OK", "START FAIL", "END OK", "END FAIL", "ERROR",
            "Invalid Test Num", "Not In Progress", "in progress", "result",
            "zeros", "level", "0, NA"}

\* Every variable holds a value of its type, and the wait for a first signal
\* stays below its limit.
TypeOK ==
    /\ at \in AtRecord /\ at.wait < WaitCount
    /\ init \in BOOLEAN /\ test_started \in BOOLEAN
    /\ run \in {"none", "clean", "finished"}
    /\ control \in Seq(Bytes)
    /\ sent_commands \in 0..MaxCommands
    /\ ack \in Answers

\* The sample array: whenever a GSV group may store a sample or a stop may
\* free the array, Dev_CNr points to an array that has not been freed,
\* whatever the order of commands and the failures of mnld.
SamplesLive ==
    at.flag \/ at.signal \/ at.state # "UNKNOWN" => at.dev = "live"

\* A test that begins with fresh counters, and sees the satellite at most once in
\* a read, stores no sample past the end of its array, whatever commands,
\* failures of mnld and changes to and from signal mode come in between: it is
\* over when the array is full.
SamplesFit == at.past => at.odd

\* A result never claims more successes than tries, and the time-out result is
\* only given for a test without any success.
ResultCoherent ==
    /\ at.result.success <= at.result.completed
    /\ at.result.err = Timeout => at.result.success = 0

\* The result is coherent, and that of a test of n samples that ran to its end
\* is what AT%GNSS? answers until the tester starts something else: never a row
\* of zeros.
FinishedIsAnswered ==
    /\ ResultCoherent
    /\ run = "finished" => at_command_send_test_result(at) # "zeros"

\* Once the tester is silent, a test of n samples that never sees the satellite
\* does not stay in progress: the wait for a first signal is bounded.
NoSignalEnds ==
    <>[][~at_command_parser]_vars =>
        []<>~(at.flag /\ at.state = "INPROGRESS" /\ at.success = 0)
=============================================================================

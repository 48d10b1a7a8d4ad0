---------------------------- MODULE AtTestProofs ----------------------------
(***************************************************************************)
(* Theorems about AtTest, for every number of samples and every limit of   *)
(* the wait.  Sound is inductive: a running test, or one whose result is   *)
(* not fetched, has its sample array, and a measurement is begun only in   *)
(* signal mode.  AnswerInv adds that the result adds up, and that a test   *)
(* which ran to its end left one to answer with; Fits, that the tries      *)
(* counted so far leave room in the array.                                 *)
(***************************************************************************)
EXTENDS AtTest, TLAPS

\* The globals t are those of a test whose array is live if it is used.
Live(t) ==
    /\ t \in AtRecord
    /\ t.flag \/ t.signal \/ t.state # "UNKNOWN" => t.dev = "live"
    /\ t.begin => t.signal

Sound(t) == Live(t) /\ t.wait < WaitCount

\* mtk_gps_test_stop, with or without an answer of mnld, leaves the globals sound.
LEMMA StopSound ==
    ASSUME NEW t, Sound(t), NEW sent
    PROVE  Sound(mtk_gps_test_stop(t, sent))
<1>1. CASE ~init \/ ~sent
  <2>1. mtk_gps_test_stop(t, sent) = [t EXCEPT !.usb = FALSE]
    BY <1>1 DEF mtk_gps_test_stop
  <2>2. Sound([t EXCEPT !.usb = FALSE])
    BY DEF Sound, Live, AtRecord
  <2> QED
    BY <2>1, <2>2
<1>2. CASE ~(~init \/ ~sent)
  <2> DEFINE u == [t EXCEPT !.usb = FALSE, !.num = 0, !.waited = TRUE,
                   !.flag = FALSE, !.signal = FALSE, !.begin = FALSE,
                   !.state = "UNKNOWN", !.success = 0, !.wait = 0,
                   !.err = NoResult, !.dev = "freed"]
  <2>1. mtk_gps_test_stop(t, sent) = u
    BY <1>2 DEF mtk_gps_test_stop
  <2>2. Sound(u)
    <3>1. u \in AtRecord
      BY DEF Sound, Live, AtRecord, NoResult
    <3>2. u.flag = FALSE /\ u.signal = FALSE /\ u.begin = FALSE
      BY DEF Sound, Live, AtRecord
    <3>3. u.state = "UNKNOWN" /\ u.wait = 0
      BY DEF Sound, Live, AtRecord
    <3> HIDE DEF u
    <3> QED
      BY <3>1, <3>2, <3>3, AtAssumption DEF Sound, Live
  <2> QED
    BY <2>1, <2>2
<1> QED
  BY <1>1, <1>2

\* mtk_gps_test_start allocates the array before anything else.
LEMMA StartSound ==
    ASSUME NEW t, Sound(t), NEW n \in Nat, NEW mode \in {0, 1}, NEW sent
    PROVE  Sound(mtk_gps_test_start(t, n, mode, sent))
<1> DEFINE o == LeftOver(t)
           g == IF mode = 1 THEN TRUE ELSE t.signal
           f == IF mode = 1 THEN t.flag ELSE TRUE
           u == [t EXCEPT !.num = n, !.waited = FALSE, !.avg = FALSE,
                          !.dev = "live", !.len = n, !.past = FALSE, !.odd = o,
                          !.signal = g, !.flag = f]
           v == [u EXCEPT !.state = "INPROGRESS"]
           w == [u EXCEPT !.state = "UNKNOWN", !.flag = FALSE]
<1>1. mtk_gps_test_start(t, n, mode, sent) \in {u, v, w}
  <2>1. test_setup(t, n, mode) = u
    BY DEF test_setup, Sound, Live, AtRecord
  <2> HIDE DEF u
  <2> QED
    BY <2>1, Zenon DEF mtk_gps_test_start
<1>2. t \in AtRecord
  BY DEF Sound, Live
<1>3. /\ o \in BOOLEAN /\ g \in BOOLEAN /\ f \in BOOLEAN
      /\ t.begin => g
  BY <1>2 DEF LeftOver, AtRecord, Sound, Live
<1> HIDE DEF o, g, f
<1>4. u \in AtRecord
  BY <1>2, <1>3, ZenonT(60) DEF AtRecord
<1>5. u.dev = "live" /\ u.wait = t.wait /\ u.begin = t.begin /\ u.signal = g
  BY <1>2 DEF AtRecord
<1> HIDE DEF u
<1>6. /\ v \in AtRecord /\ v.dev = u.dev /\ v.wait = u.wait
      /\ v.begin = u.begin /\ v.signal = u.signal
      /\ w \in AtRecord /\ w.dev = u.dev /\ w.wait = u.wait
      /\ w.begin = u.begin /\ w.signal = u.signal
  BY <1>4 DEF AtRecord
<1> HIDE DEF v, w
<1> QED
  BY <1>1, <1>3, <1>4, <1>5, <1>6 DEF Sound, Live

\* Changing the counters of a test does not touch its array.
LEMMA ResetSound ==
    ASSUME NEW t, Sound(t)
    PROVE  Sound([t EXCEPT !.failure = 0, !.prev = 0])
BY DEF Sound, Live, AtRecord

\* The end of a test keeps the array while the state is DONE.
LEMMA EndSound ==
    ASSUME NEW t, Live(t), t.flag \/ t.begin, NEW err \in {0, NoResult, Timeout},
           NEW completed \in Nat, NEW sent
    PROVE  Sound(end_test(t, err, completed, sent))
<1> DEFINE r == [err |-> err, success |-> t.success, completed |-> completed,
                 cno |-> t.avg]
           u == [t EXCEPT !.state = "DONE", !.wait = 0, !.err = NoResult,
                          !.result = r]
<1>1. r \in Results
  BY DEF Live, AtRecord, Results
<1>2. Sound(u)
  <2> HIDE DEF r
  <2>1. u \in AtRecord
    BY <1>1 DEF Live, AtRecord, NoResult
  <2>2. /\ u.wait = 0 /\ u.dev = t.dev /\ u.begin = t.begin
        /\ u.signal = t.signal
    BY DEF Live, AtRecord
  <2>3. t.dev = "live"
    BY DEF Live
  <2> HIDE DEF u
  <2> QED
    BY <2>1, <2>2, <2>3, AtAssumption DEF Sound, Live
<1>3. end_test(t, err, completed, sent) =
        IF t.flag
        THEN [mtk_gps_test_stop(u, sent) EXCEPT !.failure = 0, !.prev = 0] ELSE u
  BY DEF end_test
<1> HIDE DEF u
<1>4. Sound([mtk_gps_test_stop(u, sent) EXCEPT !.failure = 0, !.prev = 0])
  BY <1>2, StopSound, ResetSound
<1> QED
  BY <1>2, <1>3, <1>4

\* The account at the end of a read leaves the globals sound.
LEMMA AccountSound ==
    ASSUME NEW t, Sound(t), t.flag \/ t.begin, NEW sent
    PROVE  Sound(account(t, sent))
<1> DEFINE failure == IF t.success > 0 /\ t.prev = t.success THEN t.failure + 1
                      ELSE t.failure
           wait == IF t.success = 0 THEN t.wait + 1 ELSE t.wait
           u == [t EXCEPT !.failure = failure, !.prev = t.success, !.wait = wait]
<1>1. failure \in Nat /\ wait \in Nat /\ t.success \in Nat /\ t.wait \in Nat
      /\ t.num \in Nat /\ t.err \in {0, NoResult, Timeout}
  BY DEF Sound, Live, AtRecord
<1>2. Live(u) /\ u.wait = wait /\ (u.flag \/ u.begin)
  <2> HIDE DEF failure, wait
  <2>1. u \in AtRecord
    BY <1>1 DEF Sound, Live, AtRecord
  <2>2. /\ u.wait = wait /\ u.flag = t.flag /\ u.begin = t.begin
        /\ u.signal = t.signal /\ u.state = t.state /\ u.dev = t.dev
    BY DEF Sound, Live, AtRecord
  <2> HIDE DEF u
  <2> QED
    BY <2>1, <2>2 DEF Sound, Live
<1> DEFINE full == end_test(u, t.err, t.num, sent)
           late == end_test(u, Timeout, 1, sent)
<1>3. Sound(full) /\ Sound(late)
  <2> HIDE DEF u
  <2> QED
    BY <1>1, <1>2, EndSound
<1>4. \/ account(t, sent) = full
      \/ account(t, sent) = late
      \/ account(t, sent) = u /\ ~(t.success = 0 /\ u.wait = WaitCount)
  <2>1. account(t, sent) =
          CASE t.success > 0 /\ t.success + failure = t.num -> full
            [] t.success = 0 /\ u.wait = WaitCount -> late
            [] OTHER -> u
    BY DEF account
  <2> HIDE DEF u, full, late, failure
  <2> QED
    BY <2>1, <1>1
<1>5. ~(t.success = 0 /\ wait = WaitCount) => wait < WaitCount
  BY <1>1, AtAssumption DEF Sound
<1> HIDE DEF u, full, late, wait
<1> QED
  BY <1>2, <1>3, <1>4, <1>5 DEF Sound

\* A group that lists the satellite: a test in signal mode changes its state.
LEMMA SearchSound ==
    ASSUME NEW t, Sound(t), t.flag \/ t.signal, NEW seen \in BOOLEAN
    PROVE  Sound(search_satellite(t, seen))
<1> DEFINE v == IF t.signal /\ t.begin THEN "RESULT_DONE"
                ELSE IF t.signal THEN "INPROGRESS" ELSE t.state
           g == IF t.signal /\ t.begin THEN 1 ELSE t.sig
           e == IF t.flag THEN 0 ELSE t.err
           n == IF t.flag THEN t.success + 1 ELSE t.success
           a == t.avg \/ t.flag
           p == t.past \/ (t.flag /\ t.success >= t.len)
           o == t.odd \/ (t.flag /\ t.success > t.prev)
           u == IF ~seen THEN [t EXCEPT !.sig = 0]
                ELSE [t EXCEPT !.state = v, !.sig = g, !.err = e, !.past = p,
                               !.odd = o, !.success = n, !.avg = a, !.cn = TRUE]
<1>0. search_satellite(t, seen) = u
  BY DEF search_satellite, Sound, Live, AtRecord
<1>1. u \in AtRecord
  <2>1. /\ v \in {"UNKNOWN", "INPROGRESS", "DONE", "RESULT_DONE"}
        /\ g \in 0..1 /\ e \in {0, NoResult, Timeout} /\ n \in Nat
    BY DEF Sound, Live, AtRecord
  <2>2. a \in BOOLEAN /\ p \in BOOLEAN /\ o \in BOOLEAN
    OBVIOUS
  <2>3. t \in AtRecord
    BY DEF Sound, Live
  <2> HIDE DEF v, g, e, n, a, p, o
  <2>4. [t EXCEPT !.sig = 0] \in AtRecord
    BY <2>3 DEF AtRecord
  <2>5. [t EXCEPT !.state = v, !.sig = g, !.err = e, !.past = p, !.odd = o,
                  !.success = n, !.avg = a, !.cn = TRUE] \in AtRecord
    BY <2>1, <2>2, <2>3, ZenonT(60) DEF AtRecord
  <2> QED
    BY <2>4, <2>5
<1>2. u.dev = t.dev /\ u.begin = t.begin /\ u.signal = t.signal /\ u.wait = t.wait
  <2> HIDE DEF v, g, e, n, a, p, o
  <2> QED
    BY DEF Sound, Live, AtRecord
<1>3. t.dev = "live"
  BY DEF Sound, Live
<1> HIDE DEF u
<1> QED
  BY <1>0, <1>1, <1>2, <1>3 DEF Sound, Live

\* A complete GSV group leaves the globals sound.
LEMMA ProcSound ==
    ASSUME NEW t, Sound(t), t.flag \/ t.signal, NEW group
    PROVE  Sound(test_proc(t, group))
<1> DEFINE found == IF group = "none" THEN t
                    ELSE search_satellite(t, group = "seen")
           r == [err |-> 0, success |-> found.sig, completed |-> 1,
                 cno |-> found.cn]
           u == [found EXCEPT !.result = r]
<1>1. Sound(found)
  BY SearchSound
<1> HIDE DEF found
<1>2. Sound(u)
  <2>1. r \in Results
    BY <1>1 DEF Sound, Live, AtRecord, Results
  <2> HIDE DEF r
  <2>2. u \in AtRecord
    BY <1>1, <2>1 DEF Sound, Live, AtRecord
  <2>3. /\ u.wait = found.wait /\ u.flag = found.flag /\ u.begin = found.begin
        /\ u.signal = found.signal /\ u.state = found.state /\ u.dev = found.dev
    BY <1>1 DEF Sound, Live, AtRecord
  <2> HIDE DEF u
  <2> QED
    BY <1>1, <2>2, <2>3 DEF Sound, Live
<1>3. test_proc(t, group) \in {t, u, found}
  <2>1. test_proc(t, group) =
          CASE t.state = "DONE" \/ (t.signal /\ ~t.begin) -> t
            [] t.state # "DONE" /\ t.signal /\ t.begin -> u
            [] OTHER -> found
    BY DEF test_proc, found
  <2> HIDE DEF u
  <2> QED
    BY <2>1
<1> QED
  BY <1>1, <1>2, <1>3

\* A sentence of nmea_reader_parse leaves the globals sound.
LEMMA SentenceSound ==
    ASSUME NEW t, Sound(t), NEW last, NEW group, NEW sent
    PROVE  Sound(parse_sentence(t, last, group, sent))
<1> DEFINE u == IF Counting(t) /\ last THEN account(t, sent) ELSE t
<1>1. Sound(u)
  BY AccountSound DEF Counting
<1>2. u.flag \/ u.signal => Sound(test_proc(u, group))
  BY <1>1, ProcSound
<1>3. parse_sentence(t, last, group, sent) =
        CASE Static(t) -> t
          [] ~Static(t) /\ group # "no group" /\ (u.flag \/ u.signal) ->
               test_proc(u, group)
          [] OTHER -> u
  BY DEF parse_sentence
<1> HIDE DEF u
<1> QED
  BY <1>1, <1>2, <1>3

\* What the parsers do before they start or stop a test.
LEMMA UsbSound ==
    ASSUME Sound(at)
    PROVE  Sound(Usb) /\ Usb.flag = at.flag /\ Usb.dev = at.dev
<1>1. Usb \in AtRecord
  BY DEF Sound, Live, Usb, AtRecord
<1>2. /\ Usb.wait = at.wait /\ Usb.flag = at.flag /\ Usb.begin = at.begin
      /\ Usb.signal = at.signal /\ Usb.state = at.state /\ Usb.dev = at.dev
  BY DEF Sound, Live, Usb, AtRecord
<1> QED
  BY <1>1, <1>2 DEF Sound, Live

\* The clearing of AT%GNSS=n does not touch what Sound speaks of.
LEMMA ClearSound ==
    ASSUME Sound(at)
    PROVE  Sound(gnss_clear(at)) /\ gnss_clear(at).signal = at.signal
                                 /\ gnss_clear(at).dev = at.dev
<1> DEFINE r == [err |-> NoResult, success |-> 0, completed |-> 0, cno |-> FALSE]
           u == [at EXCEPT !.usb = TRUE, !.avg = FALSE, !.success = 0,
                           !.cn = FALSE, !.result = r]
<1>0. gnss_clear(at) = u
  BY DEF gnss_clear
<1>1. u \in AtRecord
  <2>1. r \in Results
    BY DEF Results, NoResult
  <2> HIDE DEF r
  <2> QED
    BY <2>1 DEF Sound, Live, AtRecord
<1>2. /\ u.wait = at.wait /\ u.flag = at.flag /\ u.begin = at.begin
      /\ u.signal = at.signal /\ u.state = at.state /\ u.dev = at.dev
  <2> HIDE DEF r
  <2> QED
    BY DEF Sound, Live, AtRecord
<1> HIDE DEF u
<1> QED
  BY <1>0, <1>1, <1>2 DEF Sound, Live

\* AT%GNSS=S for a running test, and AT%GNSS=n in signal mode.
LEMMA SignalSound ==
    ASSUME NEW t, Sound(t), t.dev = "live"
    PROVE  /\ Sound([t EXCEPT !.signal = TRUE, !.flag = FALSE])
           /\ t.signal => Sound([t EXCEPT !.begin = TRUE, !.waited = FALSE,
                                          !.state = "INPROGRESS"])
<1> DEFINE u == [t EXCEPT !.signal = TRUE, !.flag = FALSE]
           v == [t EXCEPT !.begin = TRUE, !.waited = FALSE,
                          !.state = "INPROGRESS"]
<1>1. u \in AtRecord /\ v \in AtRecord
  BY DEF Sound, Live, AtRecord
<1>2. u.signal = TRUE /\ u.dev = t.dev /\ u.wait = t.wait
  BY DEF Sound, Live, AtRecord
<1>3. v.signal = t.signal /\ v.dev = t.dev /\ v.wait = t.wait
  BY DEF Sound, Live, AtRecord
<1> HIDE DEF u, v
<1>4. Sound(u)
  BY <1>1, <1>2 DEF Sound, Live
<1>5. t.signal => Sound(v)
  BY <1>1, <1>3 DEF Sound, Live
<1> QED
  BY <1>4, <1>5 DEF u, v

\* Every command of the tester leaves a sound test behind.
LEMMA CommandSound ==
    ASSUME Sound(at), at_command_parser
    PROVE  Sound(at')
<1> USE UsbSound, ClearSound
<1>1. ASSUME NEW n \in 1..MaxNum, NEW sent \in BOOLEAN, at_gps_start(n, sent)
      PROVE  Sound(at')
  <2>1. at' = mtk_gps_test_start(Usb, n, 0, sent)
    BY <1>1 DEF at_gps_start, Parse
  <2>2. n \in Nat
    BY AtAssumption
  <2> QED
    BY <2>1, <2>2, StartSound
<1>2. ASSUME NEW n \in 1..MaxNum, NEW sent \in BOOLEAN, at_gnss_start(n, sent)
      PROVE  Sound(at')
  <2>1. CASE at.signal
    <3>1. at' = [gnss_clear(at) EXCEPT !.begin = TRUE, !.waited = FALSE,
                                       !.state = "INPROGRESS"]
      BY <1>2, <2>1 DEF at_gnss_start, Parse
    <3>2. at.dev = "live"
      BY <2>1 DEF Sound, Live
    <3> QED
      BY <2>1, <3>1, <3>2, SignalSound
  <2>2. CASE ~at.signal
    <3>1. at' = mtk_gps_test_start(gnss_clear(at), n, 0, sent)
      BY <1>2, <2>2 DEF at_gnss_start, Parse
    <3>2. n \in Nat
      BY AtAssumption
    <3> QED
      BY <3>1, <3>2, StartSound
  <2> QED
    BY <2>1, <2>2
<1>3. ASSUME NEW sent \in BOOLEAN, at_gnss_signal(sent) PROVE Sound(at')
  <2>1. CASE at.flag
    <3>1. at' = [Usb EXCEPT !.signal = TRUE, !.flag = FALSE]
      BY <1>3, <2>1 DEF at_gnss_signal, Parse
    <3>2. at.dev = "live"
      BY <2>1 DEF Sound, Live
    <3> QED
      BY <3>1, <3>2, SignalSound
  <2>2. CASE ~at.flag
    <3>1. at' = mtk_gps_test_start(Usb, 0, 1, sent)
      BY <1>3, <2>2 DEF at_gnss_signal, Parse
    <3> QED
      BY <3>1, StartSound
  <2> QED
    BY <2>1, <2>2
<1>4. ASSUME NEW sent \in BOOLEAN, at_gnss_end(sent) PROVE Sound(at')
  <2>1. at' \in {Usb, mtk_gps_test_stop(Usb, sent)}
    BY <1>4 DEF at_gnss_end, Parse
  <2> QED
    BY <2>1, StopSound
<1>5. ASSUME NEW sent \in BOOLEAN, at_gnss_invalid(sent) PROVE Sound(at')
  <2>1. at' \in {gnss_clear(at), mtk_gps_test_stop(gnss_clear(at), sent)}
    BY <1>5 DEF at_gnss_invalid, Parse
  <2> QED
    BY <2>1, StopSound
<1>6. CASE at_gps_invalid \/ at_gps_query \/ at_gps_debug \/ at_cno \/ at_gnss_query
  BY <1>6 DEF at_gps_invalid, at_gps_query, at_gps_debug, at_cno, at_gnss_query,
       Parse
<1>7. ASSUME NEW gps \in BOOLEAN, at_unknown(gps) PROVE Sound(at')
  BY <1>7 DEF at_unknown, Parse
<1> QED
  BY <1>1, <1>2, <1>3, <1>4, <1>5, <1>6, <1>7 DEF at_command_parser

\* Every step of the specification keeps the globals sound.
LEMMA SoundStep ==
    ASSUME Sound(at), [Next]_vars
    PROVE  Sound(at')
<1>1. CASE at_command_parser
  BY <1>1, CommandSound
<1>2. ASSUME NEW last \in BOOLEAN, NEW group \in Groups, NEW sent \in BOOLEAN,
             nmea_reader_parse(last, group, sent)
      PROVE  Sound(at')
  <2>1. at' = parse_sentence(at, last, group, sent)
    BY <1>2 DEF nmea_reader_parse
  <2> QED
    BY <2>1, SentenceSound
<1>3. CASE gps_state_thread_control \/ mtk_gps_init \/ UNCHANGED vars
  BY <1>3 DEF gps_state_thread_control, mtk_gps_init, vars
<1>4. CASE Wait
  <2>1. at' = [at EXCEPT !.waited = TRUE]
    BY <1>4 DEF Wait
  <2>2. at' \in AtRecord
    BY <2>1 DEF Sound, Live, AtRecord
  <2>3. /\ at'.wait = at.wait /\ at'.flag = at.flag /\ at'.begin = at.begin
        /\ at'.signal = at.signal /\ at'.state = at.state /\ at'.dev = at.dev
    BY <2>1 DEF Sound, Live, AtRecord
  <2> QED
    BY <2>2, <2>3 DEF Sound, Live
<1> QED
  BY <1>1, <1>2, <1>3, <1>4 DEF Next

\* The variables besides the globals of the test, in two parts.
Flags ==
    /\ init \in BOOLEAN /\ test_started \in BOOLEAN
    /\ run \in {"none", "clean", "finished"}

Traffic ==
    /\ control \in Seq(Bytes)
    /\ sent_commands \in 0..MaxCommands
    /\ ack \in Answers

\* A parsed command with a known answer and known bytes keeps them typed.
LEMMA ParseTyped ==
    ASSUME Traffic, NEW t, NEW answer \in Answers, NEW bytes \in Seq(Bytes),
           Parse(t, answer, bytes)
    PROVE  Traffic'
<1>1. control' \in Seq(Bytes)
  BY DEF Parse, Traffic
<1>2. sent_commands' \in 0..MaxCommands
  BY AtAssumption DEF Parse, Traffic
<1>3. ack' \in Answers
  BY DEF Parse
<1> QED
  BY <1>1, <1>2, <1>3 DEF Traffic

\* What is written to the control socket is a byte or nothing.
LEMMA WrittenTyped ==
    /\ <<>> \in Seq(Bytes)
    /\ \A cmd \in Bytes, sent \in BOOLEAN : Written(cmd, sent) \in Seq(Bytes)
<1>1. <<>> \in Seq(Bytes)
  OBVIOUS
<1>2. ASSUME NEW cmd \in Bytes, NEW sent \in BOOLEAN
      PROVE  Written(cmd, sent) \in Seq(Bytes)
  <2>1. <<cmd>> \in Seq(Bytes)
    OBVIOUS
  <2>2. Written(cmd, sent) = <<cmd>> \/ Written(cmd, sent) = <<>>
    BY Zenon DEF Written
  <2> QED
    BY <1>1, <2>1, <2>2, Zenon
<1> QED
  BY <1>1, <1>2, Zenon

\* Every command has a known answer and writes known bytes.
LEMMA CommandTyped ==
    ASSUME Traffic, at_command_parser
    PROVE  Traffic'
<1> DEFINE Known == \E t : \E answer \in Answers : \E bytes \in Seq(Bytes) :
                        Parse(t, answer, bytes)
<1>1. Known => Traffic'
  BY ParseTyped, Zenon
<1>2. /\ "TEST_START" \in Bytes /\ "TEST_STOP" \in Bytes
      /\ "START OK" \in Answers /\ "START FAIL" \in Answers
      /\ "END OK" \in Answers /\ "END FAIL" \in Answers
      /\ "ERROR" \in Answers /\ "Invalid Test Num" \in Answers
      /\ "Not In Progress" \in Answers /\ "none" \in Answers
      /\ "in progress" \in Answers /\ "result" \in Answers
      /\ "zeros" \in Answers /\ "level" \in Answers /\ "0, NA" \in Answers
  BY DEF Bytes, Answers
<1>3. ASSUME NEW c PROVE /\ (IF c THEN "START OK" ELSE "ERROR") \in Answers
                         /\ (IF c THEN "START OK" ELSE "START FAIL") \in Answers
                         /\ (IF c THEN "END OK" ELSE "END FAIL") \in Answers
  BY <1>2, Zenon
<1>4. ASSUME NEW n \in 1..MaxNum, NEW sent \in BOOLEAN, at_gps_start(n, sent)
      PROVE  Known
  BY <1>2, <1>3, <1>4, WrittenTyped, Zenon DEF at_gps_start
<1>5. ASSUME NEW n \in 1..MaxNum, NEW sent \in BOOLEAN, at_gnss_start(n, sent)
      PROVE  Known
  BY <1>2, <1>3, <1>5, WrittenTyped, Zenon DEF at_gnss_start
<1>6. ASSUME NEW sent \in BOOLEAN, at_gnss_signal(sent) PROVE Known
  BY <1>2, <1>3, <1>6, WrittenTyped, Zenon DEF at_gnss_signal
<1>7. ASSUME NEW sent \in BOOLEAN, at_gnss_end(sent) PROVE Known
  BY <1>2, <1>3, <1>7, WrittenTyped, Zenon DEF at_gnss_end
<1>8. ASSUME NEW sent \in BOOLEAN, at_gnss_invalid(sent) PROVE Known
  BY <1>2, <1>3, <1>8, WrittenTyped, Zenon DEF at_gnss_invalid
<1>9. CASE at_gps_query
  <2> DEFINE a == CASE mtk_gps_test_inprogress(at) = "INPROGRESS" -> "in progress"
                    [] mtk_gps_test_inprogress(at) = "DONE" -> "result"
                    [] OTHER -> "ERROR"
  <2>1. a \in Answers
    BY DEF Answers
  <2>2. Parse(Usb, a, <<>>)
    BY <1>9, Zenon DEF at_gps_query
  <2> HIDE DEF a
  <2> QED
    BY <1>1, <2>1, <2>2, WrittenTyped, Zenon
<1>10. CASE at_cno
  <2>1. at_command_send_cno(at) \in Answers
    BY DEF at_command_send_cno, Answers
  <2> QED
    BY <1>1, <1>10, <2>1, WrittenTyped, Zenon DEF at_cno
<1>11. CASE at_gnss_query
  <2>1. at_command_send_test_result(at) \in Answers
    BY DEF at_command_send_test_result, Answers
  <2> QED
    BY <1>1, <1>11, <2>1, WrittenTyped, Zenon DEF at_gnss_query
<1>12. CASE at_gps_invalid \/ at_gps_debug
  BY <1>1, <1>2, <1>12, WrittenTyped, Zenon DEF at_gps_invalid, at_gps_debug
<1>13. ASSUME NEW gps \in BOOLEAN, at_unknown(gps) PROVE Known
  BY <1>2, <1>13, WrittenTyped, Zenon DEF at_unknown
<1> HIDE DEF Known
<1> QED
  BY <1>1, <1>4, <1>5, <1>6, <1>7, <1>8, <1>9, <1>10, <1>11, <1>12, <1>13
     DEF at_command_parser

\* Every step keeps the control bytes, the commands and the answer typed.
LEMMA TrafficStep ==
    ASSUME Traffic, [Next]_vars
    PROVE  Traffic'
<1>1. CASE at_command_parser
  BY <1>1, CommandTyped
<1>2. ASSUME NEW last \in BOOLEAN, NEW group \in Groups, NEW sent \in BOOLEAN,
             nmea_reader_parse(last, group, sent)
      PROVE  Traffic'
  <2>1. PICK bytes \in {<<>>, <<"TEST_STOP">>} : control' = control \o bytes
    BY <1>2, Zenon DEF nmea_reader_parse
  <2>2. "TEST_STOP" \in Bytes /\ ack' \in Answers /\ UNCHANGED sent_commands
    BY <1>2 DEF nmea_reader_parse, Bytes, Answers
  <2>3. <<"TEST_STOP">> \in Seq(Bytes) /\ <<>> \in Seq(Bytes)
    BY <2>2
  <2>4. bytes \in Seq(Bytes) /\ control \in Seq(Bytes)
    BY <2>1, <2>3, Zenon DEF Traffic
  <2>5. control' \in Seq(Bytes)
    BY <2>1, <2>4
  <2> QED
    BY <2>2, <2>5 DEF Traffic
<1>3. CASE gps_state_thread_control
  <2>1. control' = Tail(control) /\ control # <<>> /\ UNCHANGED sent_commands
    BY <1>3 DEF gps_state_thread_control
  <2>2. ack' \in Answers
    BY <1>3 DEF gps_state_thread_control, Answers
  <2>3. control' \in Seq(Bytes)
    BY <2>1 DEF Traffic
  <2> QED
    BY <2>1, <2>2, <2>3 DEF Traffic
<1>4. CASE mtk_gps_init \/ Wait \/ UNCHANGED vars
  BY <1>4 DEF mtk_gps_init, Wait, vars, Traffic, Answers
<1> QED
  BY <1>1, <1>2, <1>3, <1>4 DEF Next

\* Every step keeps the flags of the thread and the history typed.
LEMMA FlagsStep ==
    ASSUME Flags, at.usb \in BOOLEAN, [Next]_vars
    PROVE  Flags'
<1>1. CASE at_command_parser
  <2>1. UNCHANGED <<init, test_started>>
    BY <1>1 DEF at_command_parser, at_gps_start, at_gnss_start, at_gnss_signal,
         at_gnss_end, at_gnss_invalid, at_gps_invalid, at_gps_query,
         at_gps_debug, at_cno, at_gnss_query, at_unknown, Parse
  <2>2. run' \in {"none", "clean", "finished"}
    BY <1>1 DEF at_command_parser, at_gps_start, at_gnss_start, at_gnss_signal,
         at_gnss_end, at_gnss_invalid, at_gps_invalid, at_gps_query,
         at_gps_debug, at_cno, at_gnss_query, at_unknown, Begun, Flags
  <2> QED
    BY <2>1, <2>2 DEF Flags
<1>2. ASSUME NEW last \in BOOLEAN, NEW group \in Groups, NEW sent \in BOOLEAN,
             nmea_reader_parse(last, group, sent)
      PROVE  Flags'
  <2>1. UNCHANGED <<init, test_started>> /\ run' \in {"finished", run}
    BY <1>2 DEF nmea_reader_parse
  <2> QED
    BY <2>1 DEF Flags
<1>3. CASE gps_state_thread_control
  <2>1. UNCHANGED <<init, run>> /\ test_started' \in BOOLEAN
    BY <1>3 DEF gps_state_thread_control, Flags
  <2> QED
    BY <2>1 DEF Flags
<1>4. CASE mtk_gps_init \/ Wait \/ UNCHANGED vars
  BY <1>4 DEF mtk_gps_init, Wait, vars, Flags
<1> QED
  BY <1>1, <1>2, <1>3, <1>4 DEF Next

\* Nothing has been started when the library is loaded.
LEMMA SoundInit == Init => Sound(at)
<1> SUFFICES ASSUME Init PROVE Sound(at)
  OBVIOUS
<1>1. at \in AtRecord
  BY DEF Init, AtRecord, Results, NoResult
<1>2. /\ at.flag = FALSE /\ at.signal = FALSE /\ at.begin = FALSE
      /\ at.state = "UNKNOWN" /\ at.wait = 0
  BY DEF Init
<1> QED
  BY <1>1, <1>2, AtAssumption DEF Sound, Live

\* Every reachable state is typed, and Wait_Num stays below its limit: for
\* every number of samples, limit of the wait and number of commands.
THEOREM TypeCorrect == Spec => []TypeOK
<1>1. Init => Sound(at) /\ Flags /\ Traffic
  <2> SUFFICES ASSUME Init PROVE Sound(at) /\ Flags /\ Traffic
    OBVIOUS
  <2>1. Flags
    BY DEF Init, Flags
  <2>2. control = <<>> /\ sent_commands = 0 /\ ack \in Answers
    BY DEF Init, Answers
  <2>3. control \in Seq(Bytes) /\ sent_commands \in 0..MaxCommands
    BY <2>2, AtAssumption
  <2> QED
    BY SoundInit, <2>1, <2>2, <2>3 DEF Traffic
<1>2. Sound(at) => at.usb \in BOOLEAN
  BY DEF Sound, Live, AtRecord
<1>3. Sound(at) /\ [Next]_vars => Sound(at)'
  BY SoundStep DEF Sound, Live
<1>4. Sound(at) /\ Flags /\ [Next]_vars => Flags'
  BY <1>2, FlagsStep
<1>5. Traffic /\ [Next]_vars => Traffic'
  BY TrafficStep
<1>6. Sound(at) /\ Flags /\ Traffic => TypeOK
  BY DEF Sound, Live, Flags, Traffic, TypeOK
<1> QED
  BY <1>1, <1>3, <1>4, <1>5, <1>6, PTL DEF Spec

\* Whenever a GSV group may store a sample, or a stop may free the array, the
\* array is there: for every number of samples, every order of the commands
\* and whatever fails on the way to mnld.
THEOREM ArraySafe == Spec => []SamplesLive
<1>2. Sound(at) /\ [Next]_vars => Sound(at)'
  BY SoundStep DEF Sound, Live
<1>3. Sound(at) => SamplesLive
  BY DEF Sound, Live, SamplesLive
<1> QED
  BY SoundInit, <1>2, <1>3, PTL DEF Spec

----------------------------------------------------------------------------
(* The result of a test.                                                   *)

\* The result claims no more successes than tries, a time-out none at all, and
\* Err_Code itself is never that of a time-out.
Coherent(t) ==
    /\ t.result.success <= t.result.completed
    /\ t.result.err = Timeout => t.result.success = 0
    /\ t.err # Timeout

\* A sample that is counted has left its level.
Sampled(t) == t.success > 0 => t.avg

\* The test is over, and its result is one that AT%GNSS? answers with.
Over(t) ==
    /\ ~t.flag /\ ~t.signal /\ ~t.begin /\ t.state = "UNKNOWN"
    /\ t.result.err # 0 \/ t.result.cno

AnswerInv ==
    /\ Coherent(at)
    /\ run = "clean" => Sampled(at)
    /\ run = "finished" => Over(at)

\* u has the result, the error and the samples of t.
SameResult(t, u) ==
    /\ u.result = t.result /\ u.err = t.err /\ u.success = t.success
    /\ u.avg = t.avg

\* Then it is as coherent as t.
LEMMA SameCoherent ==
    ASSUME NEW t, NEW u, SameResult(t, u)
    PROVE  /\ Coherent(t) => Coherent(u)
           /\ Sampled(t) => Sampled(u)
BY DEF SameResult, Coherent, Sampled

\* mtk_gps_test_stop keeps the result and forgets the samples.
LEMMA StopCoherent ==
    ASSUME NEW t, Sound(t), NEW sent
    PROVE  LET u == mtk_gps_test_stop(t, sent)
           IN  /\ Coherent(t) => Coherent(u)
               /\ Sampled(t) => Sampled(u)
               /\ u.result = t.result
               /\ u.dev # t.dev =>
                     ~u.flag /\ ~u.signal /\ ~u.begin /\ u.state = "UNKNOWN"
<1> DEFINE u == mtk_gps_test_stop(t, sent)
<1>1. t \in AtRecord
  BY DEF Sound, Live
<1>2. CASE ~init \/ ~sent
  <2>1. u = [t EXCEPT !.usb = FALSE]
    BY <1>2 DEF mtk_gps_test_stop
  <2>2. SameResult(t, u) /\ u.dev = t.dev
    BY <1>1, <2>1 DEF SameResult, AtRecord
  <2> QED
    BY <2>2, SameCoherent DEF SameResult
<1>3. CASE ~(~init \/ ~sent)
  <2>1. u = [t EXCEPT !.usb = FALSE, !.num = 0, !.waited = TRUE,
                   !.flag = FALSE, !.signal = FALSE, !.begin = FALSE,
                   !.state = "UNKNOWN", !.success = 0, !.wait = 0,
                   !.err = NoResult, !.dev = "freed"]
    BY <1>3 DEF mtk_gps_test_stop
  <2>2. /\ u.result = t.result /\ u.err = NoResult /\ u.success = 0
        /\ u.flag = FALSE /\ u.signal = FALSE /\ u.begin = FALSE
        /\ u.state = "UNKNOWN"
    BY <1>1, <2>1 DEF AtRecord
  <2> HIDE DEF u
  <2>3. NoResult # Timeout /\ ~(0 > 0)
    BY DEF NoResult, Timeout
  <2>4. Coherent(t) => Coherent(u)
    BY <2>2, <2>3 DEF Coherent
  <2>5. Sampled(u)
    BY <2>2, <2>3 DEF Sampled
  <2> QED
    BY <2>2, <2>4, <2>5 DEF u
<1> QED
  BY <1>2, <1>3

\* mtk_gps_test_start keeps the result, the error and the samples' number.
LEMMA StartCoherent ==
    ASSUME NEW t, Sound(t), NEW n, NEW mode \in {0, 1}, NEW sent
    PROVE  LET u == mtk_gps_test_start(t, n, mode, sent)
           IN  (Coherent(t) => Coherent(u)) /\ u.success = t.success
<1> DEFINE u == mtk_gps_test_start(t, n, mode, sent)
<1>1. t \in AtRecord
  BY DEF Sound, Live
<1>2. u.result = t.result /\ u.err = t.err /\ u.success = t.success
  BY <1>1 DEF mtk_gps_test_start, test_setup, AtRecord
<1> HIDE DEF u
<1>3. Coherent(t) => Coherent(u)
  BY <1>2 DEF Coherent
<1> QED
  BY <1>2, <1>3 DEF u

\* The end of a test stores a coherent result; if that stops the test, and the
\* test has a sample or an error, the result is one to answer with.
LEMMA EndCoherent ==
    ASSUME NEW t, Live(t), t.flag \/ t.begin,
           NEW err \in {0, NoResult, Timeout}, NEW completed \in Nat, NEW sent,
           t.success <= completed, err = Timeout => t.success = 0
    PROVE  LET u == end_test(t, err, completed, sent)
           IN  /\ Coherent(u)
               /\ Sampled(t) => Sampled(u)
               /\ u.dev # t.dev /\ Sampled(t) /\ (err # 0 \/ t.success > 0)
                     => Over(u)
<1> DEFINE r == [err |-> err, success |-> t.success, completed |-> completed,
                 cno |-> t.avg]
           v == [t EXCEPT !.state = "DONE", !.wait = 0, !.err = NoResult,
                          !.result = r]
           s == mtk_gps_test_stop(v, sent)
           w == [s EXCEPT !.failure = 0, !.prev = 0]
           u == end_test(t, err, completed, sent)
<1>1. /\ r \in Results /\ r.err = err /\ r.success = t.success
      /\ r.completed = completed /\ r.cno = t.avg
  BY DEF Live, AtRecord, Results
<1>2. /\ v \in AtRecord /\ v.result = r /\ v.err = NoResult
      /\ v.success = t.success /\ v.avg = t.avg /\ v.wait = 0
      /\ v.dev = t.dev /\ v.begin = t.begin /\ v.signal = t.signal
  <2> HIDE DEF r
  <2> QED
    BY <1>1 DEF Live, AtRecord, NoResult
<1>3. t.dev = "live"
  BY DEF Live
<1>4. u = IF t.flag THEN w ELSE v
  BY DEF end_test
<1> HIDE DEF r, v, u
<1>5. Sound(v)
  BY <1>2, <1>3, AtAssumption DEF Sound, Live
<1>6. Coherent(v) /\ (Sampled(t) => Sampled(v))
  BY <1>1, <1>2 DEF Coherent, Sampled, NoResult, Timeout
<1>7. Sound(s)
  BY <1>5, StopSound
<1>8. /\ Coherent(s) /\ (Sampled(t) => Sampled(s)) /\ s.result = r
      /\ s.dev # t.dev =>
            ~s.flag /\ ~s.signal /\ ~s.begin /\ s.state = "UNKNOWN"
  BY <1>2, <1>5, <1>6, StopCoherent
<1> HIDE DEF s
<1>9. /\ SameResult(s, w) /\ w.dev = s.dev /\ w.flag = s.flag
      /\ w.signal = s.signal /\ w.begin = s.begin /\ w.state = s.state
  BY <1>7 DEF Sound, Live, AtRecord, SameResult
<1> HIDE DEF w
<1>10. Coherent(w) /\ (Sampled(t) => Sampled(w))
  BY <1>8, <1>9, SameCoherent
<1>11. ASSUME w.dev # t.dev, Sampled(t), err # 0 \/ t.success > 0
       PROVE  Over(w)
  <2>1. ~w.flag /\ ~w.signal /\ ~w.begin /\ w.state = "UNKNOWN"
    BY <1>8, <1>9, <1>11
  <2>2. w.result = r
    BY <1>8, <1>9 DEF SameResult
  <2>3. r.err # 0 \/ r.cno
    BY <1>1, <1>11 DEF Sampled
  <2> QED
    BY <2>1, <2>2, <2>3 DEF Over
<1>12. CASE t.flag
  <2>1. u = w
    BY <1>4, <1>12
  <2> QED
    BY <1>10, <1>11, <2>1 DEF u
<1>13. CASE ~t.flag
  <2>1. u = v
    BY <1>4, <1>13
  <2> QED
    BY <1>2, <1>6, <2>1 DEF u
<1> QED
  BY <1>12, <1>13

\* The account at the end of a read.
LEMMA AccountCoherent ==
    ASSUME NEW t, Sound(t), Coherent(t), t.flag \/ t.begin, NEW sent
    PROVE  LET u == account(t, sent)
           IN  /\ Coherent(u)
               /\ Sampled(t) => Sampled(u)
               /\ u.dev # t.dev /\ Sampled(t) => Over(u)
<1> DEFINE failure == IF t.success > 0 /\ t.prev = t.success THEN t.failure + 1
                      ELSE t.failure
           wait == IF t.success = 0 THEN t.wait + 1 ELSE t.wait
           v == [t EXCEPT !.failure = failure, !.prev = t.success, !.wait = wait]
           full == end_test(v, t.err, t.num, sent)
           late == end_test(v, Timeout, 1, sent)
           u == account(t, sent)
<1>1. /\ failure \in Nat /\ wait \in Nat /\ t.success \in Nat
      /\ t.num \in Nat /\ t.err \in {0, NoResult, Timeout}
  BY DEF Sound, Live, AtRecord
<1>2. Live(v) /\ (v.flag \/ v.begin) /\ SameResult(t, v) /\ v.dev = t.dev
      /\ v.wait = wait
  <2> HIDE DEF failure, wait
  <2>1. v \in AtRecord
    BY <1>1 DEF Sound, Live, AtRecord
  <2>2. /\ v.flag = t.flag /\ v.begin = t.begin
        /\ v.signal = t.signal /\ v.state = t.state /\ v.dev = t.dev
        /\ v.wait = wait
    BY DEF Sound, Live, AtRecord
  <2>3. SameResult(t, v)
    BY DEF Sound, Live, AtRecord, SameResult
  <2> HIDE DEF v
  <2> QED
    BY <2>1, <2>2, <2>3 DEF Sound, Live
<1>3. u = CASE t.success > 0 /\ t.success + failure = t.num -> full
            [] t.success = 0 /\ v.wait = WaitCount -> late
            [] OTHER -> v
  BY DEF account
<1> HIDE DEF v, u
<1>4. Coherent(v) /\ (Sampled(t) => Sampled(v)) /\ v.success = t.success
  BY <1>2, SameCoherent DEF SameResult
<1>5. CASE t.success > 0 /\ t.success + failure = t.num
  <2>1. u = full
    BY <1>3, <1>5
  <2>2. v.success <= t.num /\ t.err # Timeout /\ v.success > 0
    <3> HIDE DEF failure
    <3> QED
      BY <1>1, <1>4, <1>5 DEF Coherent
  <2>3. /\ Coherent(full) /\ (Sampled(v) => Sampled(full))
        /\ full.dev # v.dev /\ Sampled(v) => Over(full)
    BY <1>1, <1>2, <2>2, EndCoherent
  <2> QED
    BY <1>2, <1>4, <2>1, <2>3 DEF u
<1>6. CASE ~(t.success > 0 /\ t.success + failure = t.num)
           /\ t.success = 0 /\ v.wait = WaitCount
  <2>1. u = late
    <3> HIDE DEF failure, wait, full, late
    <3> QED
      BY <1>3, <1>6
  <2>2. v.success <= 1 /\ v.success = 0 /\ 1 \in Nat
    BY <1>4, <1>6
  <2>3. /\ Coherent(late) /\ (Sampled(v) => Sampled(late))
        /\ late.dev # v.dev /\ Sampled(v) => Over(late)
    BY <1>2, <2>2, EndCoherent DEF Timeout
  <2> QED
    BY <1>2, <1>4, <2>1, <2>3 DEF u
<1>7. CASE /\ ~(t.success > 0 /\ t.success + failure = t.num)
           /\ ~(t.success = 0 /\ v.wait = WaitCount)
  <2>1. u = v
    <3> HIDE DEF failure, wait, full, late
    <3> QED
      BY <1>3, <1>7
  <2> QED
    BY <1>2, <1>4, <2>1 DEF u
<1> QED
  BY <1>5, <1>6, <1>7

\* A group with the satellite: a sample is counted together with its level.
LEMMA SearchCoherent ==
    ASSUME NEW t, Sound(t), Coherent(t), NEW seen \in BOOLEAN
    PROVE  LET u == search_satellite(t, seen)
           IN  Coherent(u) /\ (Sampled(t) => Sampled(u)) /\ u.dev = t.dev
<1> DEFINE u == search_satellite(t, seen)
<1>1. t \in AtRecord
  BY DEF Sound, Live
<1>2. CASE ~seen
  <2>1. u = [t EXCEPT !.sig = 0]
    BY <1>2 DEF search_satellite
  <2>2. SameResult(t, u) /\ u.dev = t.dev
    BY <1>1, <2>1 DEF SameResult, AtRecord
  <2> QED
    BY <2>2, SameCoherent
<1>3. CASE seen
  <2> DEFINE v == CASE t.signal /\ t.begin -> "RESULT_DONE"
                    [] t.signal /\ ~t.begin -> "INPROGRESS"
                    [] OTHER -> t.state
             g == IF t.signal /\ t.begin THEN 1 ELSE t.sig
             e == IF t.flag THEN 0 ELSE t.err
             n == IF t.flag THEN t.success + 1 ELSE t.success
             a == t.avg \/ t.flag
             p == t.past \/ (t.flag /\ t.success >= t.len)
             o == t.odd \/ (t.flag /\ t.success > t.prev)
  <2>1. u = [t EXCEPT !.state = v, !.sig = g, !.err = e, !.past = p,
                      !.odd = o, !.success = n, !.avg = a, !.cn = TRUE]
    BY <1>1, <1>3 DEF search_satellite, AtRecord
  <2> HIDE DEF v, g, e, n, a, p, o
  <2>2. /\ u.result = t.result /\ u.dev = t.dev /\ u.err = e
        /\ u.success = n /\ u.avg = a
    BY <1>1, <2>1 DEF AtRecord
  <2> HIDE DEF u
  <2>3. Coherent(u)
    BY <2>2 DEF Coherent, e, Timeout
  <2>4. Sampled(t) => Sampled(u)
    <3>1. CASE t.flag
      BY <2>2, <3>1 DEF Sampled, a
    <3>2. CASE ~t.flag
      BY <2>2, <3>2 DEF Sampled, a, n
    <3> QED
      BY <3>1, <3>2
  <2> QED
    BY <2>2, <2>3, <2>4 DEF u
<1> QED
  BY <1>2, <1>3

\* A complete group: signal mode stores a result of at most one success.
LEMMA ProcCoherent ==
    ASSUME NEW t, Sound(t), Coherent(t), t.flag \/ t.signal, NEW group
    PROVE  LET u == test_proc(t, group)
           IN  Coherent(u) /\ (Sampled(t) => Sampled(u)) /\ u.dev = t.dev
<1> DEFINE found == IF group = "none" THEN t
                    ELSE search_satellite(t, group = "seen")
           r == [err |-> 0, success |-> found.sig, completed |-> 1,
                 cno |-> found.cn]
           v == [found EXCEPT !.result = r]
           u == test_proc(t, group)
<1>1. Sound(found)
  BY SearchSound
<1>2. Coherent(found) /\ (Sampled(t) => Sampled(found)) /\ found.dev = t.dev
  <2>1. (group = "seen") \in BOOLEAN
    OBVIOUS
  <2> QED
    BY <2>1, SearchCoherent
<1>3. u \in {t, v, found}
  <2>1. u = CASE t.state = "DONE" \/ (t.signal /\ ~t.begin) -> t
              [] t.state # "DONE" /\ t.signal /\ t.begin -> v
              [] OTHER -> found
    BY DEF test_proc
  <2> HIDE DEF u, v, found
  <2> QED
    BY <2>1
<1> HIDE DEF found, u
<1>4. /\ r.success <= r.completed /\ r.err # Timeout
  BY <1>1 DEF Sound, Live, AtRecord, Timeout
<1>5. /\ v.result = r /\ v.err = found.err /\ v.success = found.success
      /\ v.avg = found.avg /\ v.dev = found.dev
  <2> HIDE DEF r
  <2> QED
    BY <1>1 DEF Sound, Live, AtRecord
<1> HIDE DEF r, v
<1>6. Coherent(v) /\ (Sampled(found) => Sampled(v))
  BY <1>2, <1>4, <1>5 DEF Coherent, Sampled
<1> QED
  BY <1>2, <1>3, <1>5, <1>6 DEF u

\* A sentence: it may end a test, and then leaves one that is over.
LEMMA SentenceCoherent ==
    ASSUME NEW t, Sound(t), Coherent(t), NEW last, NEW group, NEW sent
    PROVE  LET u == parse_sentence(t, last, group, sent)
           IN  /\ Coherent(u) /\ (Sampled(t) => Sampled(u))
               /\ u.dev # t.dev /\ Sampled(t) => Over(u)
               /\ ~t.flag /\ ~t.signal /\ ~t.begin => u = t
<1> DEFINE v == IF Counting(t) /\ last THEN account(t, sent) ELSE t
           u == parse_sentence(t, last, group, sent)
<1>1. Sound(v)
  BY AccountSound DEF Counting
<1>2. /\ Coherent(v) /\ (Sampled(t) => Sampled(v))
      /\ v.dev # t.dev /\ Sampled(t) => Over(v)
  BY AccountCoherent DEF Counting
<1>3. u = CASE Static(t) -> t
            [] ~Static(t) /\ group # "no group" /\ (v.flag \/ v.signal) ->
                 test_proc(v, group)
            [] OTHER -> v
  BY DEF parse_sentence
<1>4. ~t.flag /\ ~t.signal /\ ~t.begin => v = t
  BY DEF Counting
<1> HIDE DEF u, v
<1>5. v.flag \/ v.signal =>
        /\ Coherent(test_proc(v, group))
        /\ Sampled(v) => Sampled(test_proc(v, group))
        /\ test_proc(v, group).dev = v.dev
  BY <1>1, <1>2, ProcCoherent
<1>6. Over(v) => ~v.flag /\ ~v.signal
  BY DEF Over
<1>7. CASE u = t
  BY <1>7 DEF u
<1>8. CASE u = v
  BY <1>2, <1>4, <1>8 DEF u
<1>9. CASE (v.flag \/ v.signal) /\ u = test_proc(v, group)
  <2>1. ~(v.dev # t.dev /\ Sampled(t))
    BY <1>2, <1>6, <1>9
  <2>2. ~(~t.flag /\ ~t.signal /\ ~t.begin)
    BY <1>4, <1>9
  <2> QED
    BY <1>2, <1>5, <1>9, <2>1, <2>2 DEF u
<1> QED
  BY <1>3, <1>7, <1>8, <1>9

\* What the parsers do first changes neither the result nor its state.
LEMMA UsbCoherent ==
    ASSUME Sound(at)
    PROVE  /\ SameResult(at, Usb)
           /\ Over(at) => Over(Usb)
<1>1. at \in AtRecord
  BY DEF Sound, Live
<1>2. /\ Usb.result = at.result /\ Usb.err = at.err
      /\ Usb.success = at.success /\ Usb.avg = at.avg
      /\ Usb.flag = at.flag /\ Usb.signal = at.signal
      /\ Usb.begin = at.begin /\ Usb.state = at.state
  BY <1>1 DEF Usb, AtRecord
<1> QED
  BY <1>2 DEF SameResult, Over

\* AT%GNSS=n clears the result and the samples.
LEMMA ClearCoherent ==
    ASSUME Sound(at), Coherent(at)
    PROVE  Coherent(gnss_clear(at)) /\ gnss_clear(at).success = 0
<1> DEFINE r == [err |-> NoResult, success |-> 0, completed |-> 0, cno |-> FALSE]
           u == gnss_clear(at)
<1>1. u = [at EXCEPT !.usb = TRUE, !.avg = FALSE, !.success = 0,
                     !.cn = FALSE, !.result = r]
  BY DEF gnss_clear
<1>2. r.success <= r.completed /\ r.err # Timeout
  BY DEF NoResult, Timeout
<1> HIDE DEF r
<1>3. u.result = r /\ u.err = at.err /\ u.success = 0
  BY <1>1 DEF Sound, Live, AtRecord
<1> HIDE DEF u
<1>4. Coherent(u)
  BY <1>2, <1>3 DEF Coherent
<1> QED
  BY <1>3, <1>4 DEF u

\* AT%GNSS=S for a running test, and AT%GNSS=n in signal mode.
LEMMA SignalCoherent ==
    ASSUME NEW t, Sound(t), Coherent(t)
    PROVE  /\ Coherent([t EXCEPT !.signal = TRUE, !.flag = FALSE])
           /\ Coherent([t EXCEPT !.begin = TRUE, !.waited = FALSE,
                                 !.state = "INPROGRESS"])
<1> DEFINE u == [t EXCEPT !.signal = TRUE, !.flag = FALSE]
           v == [t EXCEPT !.begin = TRUE, !.waited = FALSE,
                          !.state = "INPROGRESS"]
<1>1. u.result = t.result /\ u.err = t.err /\ v.result = t.result
      /\ v.err = t.err
  BY DEF Sound, Live, AtRecord
<1> HIDE DEF u, v
<1>2. Coherent(u) /\ Coherent(v)
  BY <1>1 DEF Coherent
<1> QED
  BY <1>2 DEF u, v

\* A command that leaves the test alone.
LEMMA QueryAnswered ==
    ASSUME Sound(at), AnswerInv, at' \in {at, Usb}, run' = run
    PROVE  AnswerInv'
BY UsbCoherent, SameCoherent DEF AnswerInv

\* A command that starts a test begins it without samples.
LEMMA StartAnswered ==
    ASSUME NEW t, Sound(t), Coherent(t), Coherent(at)',
           at'.success = t.success \/ run' = "none",
           run' = "none" \/ run' = Begun(t)
    PROVE  AnswerInv'
<1>1. run' \in {"none", "clean"}
  BY DEF Begun
<1>2. run' = "clean" => t.success = 0
  BY DEF Begun
<1>3. run' = "clean" => Sampled(at)'
  BY <1>1, <1>2 DEF Sampled
<1> QED
  BY <1>1, <1>3 DEF AnswerInv

\* Every command of the tester keeps the result coherent.
LEMMA CommandAnswered ==
    ASSUME Sound(at), AnswerInv, at_command_parser
    PROVE  AnswerInv'
<1>1. /\ Coherent(at) /\ Sound(Usb) /\ Sound(gnss_clear(at))
      /\ Coherent(Usb) /\ Coherent(gnss_clear(at))
      /\ Usb.success = at.success
  BY UsbSound, ClearSound, UsbCoherent, ClearCoherent, SameCoherent
     DEF AnswerInv, SameResult
<1>2. ASSUME NEW n \in 1..MaxNum, NEW sent \in BOOLEAN, at_gps_start(n, sent)
      PROVE  AnswerInv'
  <2>1. at' = mtk_gps_test_start(Usb, n, 0, sent) /\ run' = Begun(at)
    BY <1>2 DEF at_gps_start, Parse
  <2>2. Coherent(at') /\ at'.success = at.success
    BY <1>1, <2>1, StartCoherent
  <2>3. Coherent(at)'
    BY <2>2 DEF Coherent
  <2> QED
    BY <1>1, <2>1, <2>2, <2>3, StartAnswered
<1>3. ASSUME NEW n \in 1..MaxNum, NEW sent \in BOOLEAN, at_gnss_start(n, sent)
      PROVE  AnswerInv'
  <2> DEFINE t == gnss_clear(at)
  <2>1. run' = Begun(t)
    BY <1>3 DEF at_gnss_start
  <2>2. CASE at.signal
    <3>1. at' = [t EXCEPT !.begin = TRUE, !.waited = FALSE,
                          !.state = "INPROGRESS"]
      BY <1>3, <2>2 DEF at_gnss_start, Parse
    <3>2. t.signal
      BY <2>2, ClearSound
    <3>3. run' = "none"
      BY <2>1, <3>2 DEF Begun
    <3> HIDE DEF t
    <3>4. Coherent(at')
      BY <1>1, <3>1, SignalCoherent DEF t
    <3>5. Coherent(at)'
      BY <3>4 DEF Coherent
    <3> QED
      BY <1>1, <3>3, <3>5, StartAnswered
  <2>3. CASE ~at.signal
    <3>1. at' = mtk_gps_test_start(t, n, 0, sent)
      BY <1>3, <2>3 DEF at_gnss_start, Parse
    <3>2. Coherent(at') /\ at'.success = t.success
      BY <1>1, <3>1, StartCoherent
    <3>3. Coherent(at)'
      BY <3>2 DEF Coherent
    <3> QED
      BY <1>1, <2>1, <3>2, <3>3, StartAnswered
  <2> QED
    BY <2>2, <2>3
<1>4. ASSUME Coherent(at'), run' = "none" PROVE AnswerInv'
  BY <1>4 DEF AnswerInv, Coherent
<1>5. ASSUME NEW sent \in BOOLEAN, at_gnss_signal(sent) PROVE AnswerInv'
  <2>1. run' = "none" /\ at' \in {[Usb EXCEPT !.signal = TRUE, !.flag = FALSE],
                                  mtk_gps_test_start(Usb, 0, 1, sent)}
    BY <1>5 DEF at_gnss_signal, Parse
  <2>2. Coherent([Usb EXCEPT !.signal = TRUE, !.flag = FALSE])
    BY <1>1, SignalCoherent
  <2>3. Coherent(mtk_gps_test_start(Usb, 0, 1, sent))
    BY <1>1, StartCoherent
  <2>4. Coherent(at')
    BY <2>1, <2>2, <2>3, Zenon
  <2> QED
    BY <1>4, <2>1, <2>4
<1>6. ASSUME NEW sent \in BOOLEAN, at_gnss_end(sent) PROVE AnswerInv'
  <2>1. CASE at.state = "UNKNOWN"
    <3>1. at' = Usb /\ run' = run
      BY <1>6, <2>1 DEF at_gnss_end, Parse
    <3> QED
      BY <3>1, QueryAnswered
  <2>2. CASE at.state # "UNKNOWN"
    <3>1. at' = mtk_gps_test_stop(Usb, sent) /\ run' = "none"
      BY <1>6, <2>2 DEF at_gnss_end, Parse
    <3>2. Coherent(at')
      BY <1>1, <3>1, StopCoherent
    <3> QED
      BY <1>4, <3>1, <3>2
  <2> QED
    BY <2>1, <2>2
<1>7. ASSUME NEW sent \in BOOLEAN, at_gnss_invalid(sent) PROVE AnswerInv'
  <2>1. run' = "none" /\ at' \in {gnss_clear(at),
                                  mtk_gps_test_stop(gnss_clear(at), sent)}
    BY <1>7 DEF at_gnss_invalid, Parse
  <2>2. Coherent(at')
    BY <1>1, <2>1, StopCoherent
  <2> QED
    BY <1>4, <2>1, <2>2
<1>8. CASE at_gps_invalid \/ at_gps_query \/ at_gps_debug \/ at_cno
           \/ at_gnss_query
  <2>1. at' = Usb /\ run' = run
    BY <1>8 DEF at_gps_invalid, at_gps_query, at_gps_debug, at_cno,
         at_gnss_query, Parse
  <2> QED
    BY <2>1, QueryAnswered
<1>9. ASSUME NEW gps \in BOOLEAN, at_unknown(gps) PROVE AnswerInv'
  <2>1. at' \in {at, Usb} /\ run' = run
    BY <1>9 DEF at_unknown, Parse
  <2> QED
    BY <2>1, QueryAnswered
<1> QED
  BY <1>2, <1>3, <1>5, <1>6, <1>7, <1>8, <1>9 DEF at_command_parser

\* AnswerInv is inductive.
LEMMA AnswerStep ==
    ASSUME Sound(at), AnswerInv, [Next]_vars
    PROVE  AnswerInv'
<1>1. CASE at_command_parser
  BY <1>1, CommandAnswered
<1>2. ASSUME NEW last \in BOOLEAN, NEW group \in Groups, NEW sent \in BOOLEAN,
             nmea_reader_parse(last, group, sent)
      PROVE  AnswerInv'
  <2> DEFINE t == parse_sentence(at, last, group, sent)
  <2>1. /\ at' = t
        /\ run' = IF at.dev = "live" /\ t.dev = "freed" /\ run = "clean"
                  THEN "finished" ELSE run
    BY <1>2 DEF nmea_reader_parse
  <2>2. /\ Coherent(t) /\ (Sampled(at) => Sampled(t))
        /\ t.dev # at.dev /\ Sampled(at) => Over(t)
        /\ ~at.flag /\ ~at.signal /\ ~at.begin => t = at
    BY SentenceCoherent DEF AnswerInv
  <2> HIDE DEF t
  <2>3. Over(at) => t = at
    BY <2>2 DEF Over
  <2>4. CASE at.dev = "live" /\ t.dev = "freed" /\ run = "clean"
    <3>1. run' = "finished" /\ Over(t)
      BY <2>1, <2>2, <2>4 DEF AnswerInv
    <3> QED
      BY <2>1, <2>2, <3>1 DEF AnswerInv, Coherent, Over
  <2>5. CASE ~(at.dev = "live" /\ t.dev = "freed" /\ run = "clean")
    <3>1. run' = run
      BY <2>1, <2>5
    <3>2. run = "clean" => Sampled(t)
      BY <2>2 DEF AnswerInv
    <3>3. run = "finished" => Over(t)
      BY <2>3 DEF AnswerInv
    <3> QED
      BY <2>1, <2>2, <3>1, <3>2, <3>3 DEF AnswerInv, Coherent, Over, Sampled
  <2> QED
    BY <2>4, <2>5
<1>3. CASE gps_state_thread_control \/ mtk_gps_init \/ UNCHANGED vars
  BY <1>3 DEF gps_state_thread_control, mtk_gps_init, vars, AnswerInv, Coherent,
       Sampled, Over
<1>4. CASE Wait
  <2>1. at' = [at EXCEPT !.waited = TRUE] /\ run' = run
    BY <1>4 DEF Wait
  <2>2. /\ at'.result = at.result /\ at'.err = at.err
        /\ at'.success = at.success /\ at'.avg = at.avg
        /\ at'.flag = at.flag /\ at'.signal = at.signal
        /\ at'.begin = at.begin /\ at'.state = at.state
    BY <2>1 DEF Sound, Live, AtRecord
  <2> QED
    BY <2>1, <2>2 DEF AnswerInv, Coherent, Sampled, Over
<1> QED
  BY <1>1, <1>2, <1>3, <1>4 DEF Next

\* A result never claims more successes than tries, and that of a test of n
\* samples that ran to its end is what AT%GNSS? answers until the tester
\* starts something else: for every n, every limit of the wait, every order of
\* the commands and whatever fails on the way to mnld.
THEOREM ResultAnswered == Spec => []FinishedIsAnswered
<1>1. Init => AnswerInv
  BY DEF Init, AnswerInv, Coherent, NoResult, Timeout
<1>2. Sound(at) /\ [Next]_vars => Sound(at)'
  BY SoundStep DEF Sound, Live
<1>3. Sound(at) /\ AnswerInv /\ [Next]_vars => AnswerInv'
  BY AnswerStep
<1>4. AnswerInv => FinishedIsAnswered
  <2> SUFFICES ASSUME AnswerInv PROVE FinishedIsAnswered
    OBVIOUS
  <2>1. ResultCoherent
    BY DEF AnswerInv, Coherent, ResultCoherent
  <2>2. Over(at) => at_command_send_test_result(at) # "zeros"
    BY DEF Over, at_command_send_test_result, mtk_gps_test_inprogress
  <2> QED
    BY <2>1, <2>2 DEF AnswerInv, FinishedIsAnswered
<1> QED
  BY SoundInit, <1>1, <1>2, <1>3, <1>4, PTL DEF Spec

----------------------------------------------------------------------------
(* The samples and the room for them.                                      *)

\* While a test that began with fresh counters runs, the tries that are
\* accounted for leave room, and at most one sample is not accounted for; a
\* test that is over, but could not be stopped, has no more than its samples.
Fits(t) ==
    /\ t.past => t.odd
    /\ t.flag /\ ~t.odd =>
          /\ t.num = t.len /\ t.prev + t.failure < t.num
          /\ \/ t.success <= t.prev + 1
             \/ t.state = "DONE" /\ t.failure = 0 /\ t.success <= t.num

\* u has the counters of t, and its array.
SameCounters(t, u) ==
    /\ u.past = t.past /\ u.odd = t.odd /\ u.flag = t.flag /\ u.num = t.num
    /\ u.len = t.len /\ u.prev = t.prev /\ u.failure = t.failure
    /\ u.success = t.success /\ u.state = t.state

\* Then it fits as t does.
LEMMA SameFits ==
    ASSUME NEW t, NEW u, SameCounters(t, u), Fits(t)
    PROVE  Fits(u)
BY DEF SameCounters, Fits

\* The globals without a test of n samples fit.
LEMMA IdleFits ==
    ASSUME NEW t, NEW u, Fits(t), u.past = t.past, u.odd = t.odd,
           u.flag = FALSE
    PROVE  Fits(u)
BY DEF Fits

\* mtk_gps_test_stop ends the test or leaves the counters.
LEMMA StopFits ==
    ASSUME NEW t \in AtRecord, Fits(t), NEW sent
    PROVE  Fits(mtk_gps_test_stop(t, sent))
<1> DEFINE u == mtk_gps_test_stop(t, sent)
<1>1. CASE ~init \/ ~sent
  <2>1. u = [t EXCEPT !.usb = FALSE]
    BY <1>1 DEF mtk_gps_test_stop
  <2>2. SameCounters(t, u)
    BY <2>1 DEF SameCounters, AtRecord
  <2> QED
    BY <2>2, SameFits
<1>2. CASE ~(~init \/ ~sent)
  <2>1. u = [t EXCEPT !.usb = FALSE, !.num = 0, !.waited = TRUE,
                   !.flag = FALSE, !.signal = FALSE, !.begin = FALSE,
                   !.state = "UNKNOWN", !.success = 0, !.wait = 0,
                   !.err = NoResult, !.dev = "freed"]
    BY <1>2 DEF mtk_gps_test_stop
  <2>2. u.past = t.past /\ u.odd = t.odd /\ u.flag = FALSE
    BY <2>1 DEF AtRecord
  <2> QED
    BY <2>2, IdleFits
<1> QED
  BY <1>1, <1>2

\* mtk_gps_test_start allocates what the test asks for, or finds counters that
\* are not fresh.  In signal mode n is 0 and no test of n samples runs.
LEMMA StartFits ==
    ASSUME NEW t \in AtRecord, Fits(t), NEW n \in Nat, NEW mode \in {0, 1},
           NEW sent, n > 0 \/ (mode = 1 /\ ~t.flag)
    PROVE  Fits(mtk_gps_test_start(t, n, mode, sent))
<1> DEFINE o == LeftOver(t)
           g == IF mode = 1 THEN TRUE ELSE t.signal
           f == IF mode = 1 THEN t.flag ELSE TRUE
           u == [t EXCEPT !.num = n, !.waited = FALSE, !.avg = FALSE,
                          !.dev = "live", !.len = n, !.past = FALSE, !.odd = o,
                          !.signal = g, !.flag = f]
           v == [u EXCEPT !.state = "INPROGRESS"]
           w == [u EXCEPT !.state = "UNKNOWN", !.flag = FALSE]
<1>1. mtk_gps_test_start(t, n, mode, sent) \in {u, v, w}
  <2>1. test_setup(t, n, mode) = u
    BY DEF test_setup, AtRecord
  <2> HIDE DEF u
  <2> QED
    BY <2>1, Zenon DEF mtk_gps_test_start
<1>2. /\ o \in BOOLEAN /\ g \in BOOLEAN /\ f \in BOOLEAN
      /\ f => n > 0
  BY DEF LeftOver, AtRecord
<1>3. ~o => t.success = 0 /\ t.failure = 0 /\ t.prev = 0
  BY DEF LeftOver
<1> HIDE DEF o, g, f
<1>4. /\ u.past = FALSE /\ u.odd = o /\ u.flag = f /\ u.num = n /\ u.len = n
      /\ u.success = t.success /\ u.failure = t.failure /\ u.prev = t.prev
  BY <1>2 DEF AtRecord
<1>5. u \in AtRecord
  BY <1>2, ZenonT(60) DEF AtRecord
<1> HIDE DEF u
<1>6. /\ v.past = u.past /\ v.odd = u.odd /\ v.flag = u.flag /\ v.num = u.num
      /\ v.len = u.len /\ v.success = u.success /\ v.failure = u.failure
      /\ v.prev = u.prev
      /\ w.past = u.past /\ w.odd = u.odd /\ w.flag = FALSE
  BY <1>5 DEF AtRecord
<1> HIDE DEF v, w
<1>7. f /\ ~o => t.prev + t.failure < n /\ t.success <= t.prev + 1
  BY <1>2, <1>3
<1>8. Fits(u) /\ Fits(v) /\ Fits(w)
  BY <1>4, <1>6, <1>7 DEF Fits
<1> QED
  BY <1>1, <1>8

\* The end of a test: stopped, or DONE with no more samples than it asked for.
LEMMA EndFits ==
    ASSUME NEW t \in AtRecord, t.past => t.odd,
           t.flag /\ ~t.odd =>
              t.num = t.len /\ t.num > 0 /\ t.success <= t.num,
           NEW err \in {0, NoResult, Timeout}, NEW completed \in Nat, NEW sent
    PROVE  Fits(end_test(t, err, completed, sent))
<1> DEFINE r == [err |-> err, success |-> t.success, completed |-> completed,
                 cno |-> t.avg]
           v == [t EXCEPT !.state = "DONE", !.wait = 0, !.err = NoResult,
                          !.result = r]
           s == mtk_gps_test_stop(v, sent)
           w == [s EXCEPT !.failure = 0, !.prev = 0]
<1>1. r \in Results
  BY DEF AtRecord, Results
<1>2. end_test(t, err, completed, sent) = IF t.flag THEN w ELSE v
  BY DEF end_test
<1> HIDE DEF r
<1>3. /\ v \in AtRecord /\ v.past = t.past /\ v.odd = t.odd /\ v.flag = t.flag
      /\ v.num = t.num /\ v.len = t.len /\ v.success = t.success
      /\ v.state = "DONE"
  BY <1>1 DEF AtRecord, NoResult
<1> HIDE DEF v
<1>4. CASE ~init \/ ~sent
  <2>1. s = [v EXCEPT !.usb = FALSE]
    BY <1>4 DEF mtk_gps_test_stop
  <2>2. /\ w.past = v.past /\ w.odd = v.odd /\ w.flag = v.flag
        /\ w.num = v.num /\ w.len = v.len /\ w.success = v.success
        /\ w.state = "DONE" /\ w.failure = 0 /\ w.prev = 0
    BY <1>3, <2>1 DEF AtRecord
  <2> HIDE DEF w
  <2>3. v.num \in Nat
    BY <1>3 DEF AtRecord
  <2>4. t.flag => Fits(w)
    BY <1>3, <2>2, <2>3 DEF Fits
  <2>5. ~t.flag => Fits(v)
    BY <1>3 DEF Fits
  <2> QED
    BY <1>2, <2>4, <2>5
<1>5. CASE ~(~init \/ ~sent)
  <2>1. s = [v EXCEPT !.usb = FALSE, !.num = 0, !.waited = TRUE,
                   !.flag = FALSE, !.signal = FALSE, !.begin = FALSE,
                   !.state = "UNKNOWN", !.success = 0, !.wait = 0,
                   !.err = NoResult, !.dev = "freed"]
    BY <1>5 DEF mtk_gps_test_stop
  <2>2. w.past = v.past /\ w.odd = v.odd /\ w.flag = FALSE
    BY <1>3, <2>1 DEF AtRecord
  <2> HIDE DEF w
  <2>3. Fits(w)
    BY <1>3, <2>2 DEF Fits
  <2>4. ~t.flag => Fits(v)
    BY <1>3 DEF Fits
  <2> QED
    BY <1>2, <2>3, <2>4
<1> QED
  BY <1>4, <1>5

\* The account at the end of a read ends the test when no room is left.
LEMMA AccountFits ==
    ASSUME NEW t, Sound(t), Fits(t), NEW sent
    PROVE  Fits(account(t, sent))
<1> DEFINE failure == IF t.success > 0 /\ t.prev = t.success THEN t.failure + 1
                      ELSE t.failure
           wait == IF t.success = 0 THEN t.wait + 1 ELSE t.wait
           v == [t EXCEPT !.failure = failure, !.prev = t.success, !.wait = wait]
           full == end_test(v, t.err, t.num, sent)
           late == end_test(v, Timeout, 1, sent)
<1>1. /\ failure \in Nat /\ wait \in Nat /\ t.success \in Nat
      /\ t.prev \in Nat /\ t.failure \in Nat
      /\ t.num \in Nat /\ t.err \in {0, NoResult, Timeout}
  BY DEF Sound, Live, AtRecord
<1>2. /\ v \in AtRecord /\ v.past = t.past /\ v.odd = t.odd
      /\ v.flag = t.flag /\ v.num = t.num /\ v.len = t.len
      /\ v.success = t.success /\ v.failure = failure /\ v.prev = t.success
  <2> HIDE DEF failure, wait
  <2> QED
    BY <1>1 DEF Sound, Live, AtRecord
<1>3. account(t, sent) =
        CASE t.success > 0 /\ t.success + failure = t.num -> full
          [] t.success = 0 /\ v.wait = WaitCount -> late
          [] OTHER -> v
  BY DEF account
<1>4. t.flag /\ ~t.odd =>
        /\ t.num > 0 /\ t.success + failure <= t.num
        /\ t.success = 0 => failure < t.num
  BY <1>1 DEF Fits
<1> HIDE DEF v, failure, wait
<1>5. t.flag /\ ~t.odd => t.num = t.len /\ t.num > 0 /\ t.success <= t.num
  BY <1>1, <1>4 DEF Fits
<1>6. Fits(full) /\ Fits(late)
  <2>1. Timeout \in {0, NoResult, Timeout} /\ 1 \in Nat
    OBVIOUS
  <2> QED
    BY <1>1, <1>2, <1>5, <2>1, EndFits DEF Fits
<1>7. ~(t.success > 0 /\ t.success + failure = t.num) => Fits(v)
  BY <1>1, <1>2, <1>4, <1>5 DEF Fits
<1> HIDE DEF full, late
<1> QED
  BY <1>1, <1>3, <1>6, <1>7

\* A sample is stored within the array, or it is the second of its read.
LEMMA SearchFits ==
    ASSUME NEW t \in AtRecord, Fits(t), NEW seen \in BOOLEAN
    PROVE  Fits(search_satellite(t, seen))
<1> DEFINE u == search_satellite(t, seen)
<1>1. CASE ~seen
  <2>1. u = [t EXCEPT !.sig = 0]
    BY <1>1 DEF search_satellite
  <2>2. SameCounters(t, u)
    BY <2>1 DEF SameCounters, AtRecord
  <2> QED
    BY <2>2, SameFits
<1>2. CASE seen
  <2> DEFINE v == CASE t.signal /\ t.begin -> "RESULT_DONE"
                    [] t.signal /\ ~t.begin -> "INPROGRESS"
                    [] OTHER -> t.state
             g == IF t.signal /\ t.begin THEN 1 ELSE t.sig
             e == IF t.flag THEN 0 ELSE t.err
             n == IF t.flag THEN t.success + 1 ELSE t.success
             a == t.avg \/ t.flag
             p == t.past \/ (t.flag /\ t.success >= t.len)
             o == t.odd \/ (t.flag /\ t.success > t.prev)
  <2>1. u = [t EXCEPT !.state = v, !.sig = g, !.err = e, !.past = p,
                      !.odd = o, !.success = n, !.avg = a, !.cn = TRUE]
    BY <1>2 DEF search_satellite, AtRecord
  <2> HIDE DEF v, g, e, n, a, p, o
  <2>2. /\ u.past = p /\ u.odd = o /\ u.flag = t.flag /\ u.num = t.num
        /\ u.len = t.len /\ u.prev = t.prev /\ u.failure = t.failure
        /\ u.success = n
    BY <2>1 DEF AtRecord
  <2>3. /\ t.success \in Nat /\ t.prev \in Nat /\ t.failure \in Nat
        /\ t.num \in Nat
    BY DEF AtRecord
  <2> SUFFICES Fits(u)
    OBVIOUS
  <2> HIDE DEF u
  <2>4. CASE ~t.flag
    BY <2>2, <2>4 DEF Fits, p, o
  <2>5. CASE t.flag /\ o
    BY <2>2, <2>5 DEF Fits
  <2>6. CASE t.flag /\ ~o
    <3>1. ~t.odd /\ t.success <= t.prev
      BY <2>3, <2>6 DEF o
    <3>2. ~t.past /\ t.num = t.len /\ t.prev + t.failure < t.num
      BY <2>6, <3>1 DEF Fits
    <3>3. ~(t.success >= t.len)
      BY <2>3, <3>1, <3>2
    <3>4. ~p
      BY <3>2, <3>3 DEF p
    <3>5. n <= t.prev + 1
      BY <2>3, <2>6, <3>1 DEF n
    <3> QED
      BY <2>2, <2>6, <3>2, <3>4, <3>5 DEF Fits
  <2> QED
    BY <2>4, <2>5, <2>6
<1> QED
  BY <1>1, <1>2

\* A sentence, with the account and the search it makes.
LEMMA SentenceFits ==
    ASSUME NEW t, Sound(t), Fits(t), NEW last, NEW group, NEW sent
    PROVE  Fits(parse_sentence(t, last, group, sent))
<1> DEFINE v == IF Counting(t) /\ last THEN account(t, sent) ELSE t
           found == IF group = "none" THEN v
                    ELSE search_satellite(v, group = "seen")
           r == [err |-> 0, success |-> found.sig, completed |-> 1,
                 cno |-> found.cn]
           w == [found EXCEPT !.result = r]
<1>1. Sound(v) /\ Fits(v)
  BY AccountSound, AccountFits DEF Counting
<1>2. \/ parse_sentence(t, last, group, sent) \in {t, v}
      \/ /\ v.flag \/ v.signal
         /\ parse_sentence(t, last, group, sent) \in {v, found, w}
  <2>1. parse_sentence(t, last, group, sent) =
          CASE Static(t) -> t
            [] ~Static(t) /\ group # "no group" /\ (v.flag \/ v.signal) ->
                 test_proc(v, group)
            [] OTHER -> v
    BY DEF parse_sentence
  <2>2. test_proc(v, group) =
          CASE v.state = "DONE" \/ (v.signal /\ ~v.begin) -> v
            [] v.state # "DONE" /\ v.signal /\ v.begin -> w
            [] OTHER -> found
    BY DEF test_proc
  <2> HIDE DEF v, found, w
  <2>3. test_proc(v, group) \in {v, found, w}
    BY <2>2
  <2> QED
    BY <2>1, <2>3
<1> HIDE DEF v
<1>3. ASSUME v.flag \/ v.signal PROVE Fits(found) /\ Fits(w)
  <2>1. (group = "seen") \in BOOLEAN /\ v \in AtRecord
    BY <1>1 DEF Sound, Live
  <2>2. Fits(found) /\ Sound(found)
    BY <1>1, <1>3, <2>1, SearchFits, SearchSound
  <2> HIDE DEF found, r
  <2>3. SameCounters(found, w)
    BY <2>2 DEF SameCounters, Sound, Live, AtRecord
  <2> HIDE DEF w
  <2> QED
    BY <2>2, <2>3, SameFits
<1> HIDE DEF found, w
<1> QED
  BY <1>1, <1>2, <1>3

\* What the commands do to the counters besides starting and stopping a test:
\* AT%GNSS=n clears Success_Num, and signal mode ends a test of n samples.
LEMMA ClearFits ==
    ASSUME NEW t \in AtRecord, Fits(t)
    PROVE  /\ Fits([t EXCEPT !.usb = TRUE])
           /\ Fits(gnss_clear(t))
           /\ Fits([gnss_clear(t) EXCEPT !.begin = TRUE, !.waited = FALSE,
                                         !.state = "INPROGRESS"])
           /\ Fits([t EXCEPT !.signal = TRUE, !.flag = FALSE])
           /\ Fits([t EXCEPT !.waited = TRUE])
<1> DEFINE a == [t EXCEPT !.usb = TRUE]
           b == gnss_clear(t)
           c == [b EXCEPT !.begin = TRUE, !.waited = FALSE,
                          !.state = "INPROGRESS"]
           d == [t EXCEPT !.signal = TRUE, !.flag = FALSE]
           e == [t EXCEPT !.waited = TRUE]
           r == [err |-> NoResult, success |-> 0, completed |-> 0, cno |-> FALSE]
<1>1. SameCounters(t, a) /\ SameCounters(t, e)
  BY DEF SameCounters, AtRecord
<1>2. d.past = t.past /\ d.odd = t.odd /\ d.flag = FALSE
  BY DEF AtRecord
<1>3. b = [t EXCEPT !.usb = TRUE, !.avg = FALSE, !.success = 0, !.cn = FALSE,
                    !.result = r]
  BY DEF gnss_clear
<1>4. r \in Results
  BY DEF Results, NoResult
<1> HIDE DEF r, b
<1>5. /\ b \in AtRecord /\ b.past = t.past /\ b.odd = t.odd /\ b.flag = t.flag
      /\ b.num = t.num /\ b.len = t.len /\ b.prev = t.prev
      /\ b.failure = t.failure /\ b.success = 0
  BY <1>3, <1>4 DEF AtRecord
<1>6. /\ c.past = b.past /\ c.odd = b.odd /\ c.flag = b.flag
      /\ c.num = b.num /\ c.len = b.len /\ c.prev = b.prev
      /\ c.failure = b.failure /\ c.success = b.success
  BY <1>5 DEF AtRecord
<1>7. t.prev \in Nat
  BY DEF AtRecord
<1> HIDE DEF a, c, d, e
<1>8. Fits(b) /\ Fits(c)
  BY <1>5, <1>6, <1>7 DEF Fits
<1>9. Fits(a) /\ Fits(e)
  BY <1>1, SameFits
<1>10. Fits(d)
  BY <1>2, IdleFits
<1> QED
  BY <1>8, <1>9, <1>10 DEF a, b, c, d, e

\* Fits is inductive.
LEMMA FitsStep ==
    ASSUME Sound(at), Fits(at), [Next]_vars
    PROVE  Fits(at')
<1>1. /\ at \in AtRecord /\ Sound(Usb) /\ Sound(gnss_clear(at))
      /\ Usb \in AtRecord /\ gnss_clear(at) \in AtRecord
  BY UsbSound, ClearSound DEF Sound, Live
<1>2. Fits(Usb) /\ Fits(gnss_clear(at))
  BY <1>1, ClearFits DEF Usb
<1>3. Usb.flag = at.flag
  BY <1>1 DEF Usb, AtRecord
<1>4. ASSUME NEW n \in 1..MaxNum, NEW sent \in BOOLEAN,
             at_gps_start(n, sent) \/ at_gnss_start(n, sent)
      PROVE  Fits(at')
  <2>1. at' \in {mtk_gps_test_start(Usb, n, 0, sent),
                 mtk_gps_test_start(gnss_clear(at), n, 0, sent),
                 [gnss_clear(at) EXCEPT !.begin = TRUE, !.waited = FALSE,
                                        !.state = "INPROGRESS"]}
    BY <1>4, Zenon DEF at_gps_start, at_gnss_start, Parse
  <2>2. n \in Nat /\ n > 0 /\ 0 \in {0, 1}
    BY AtAssumption
  <2>3. /\ Fits(mtk_gps_test_start(Usb, n, 0, sent))
        /\ Fits(mtk_gps_test_start(gnss_clear(at), n, 0, sent))
    BY <1>1, <1>2, <2>2, StartFits
  <2>4. Fits([gnss_clear(at) EXCEPT !.begin = TRUE, !.waited = FALSE,
                                    !.state = "INPROGRESS"])
    BY <1>1, ClearFits
  <2> QED
    BY <2>1, <2>3, <2>4, Zenon
<1>5. ASSUME NEW sent \in BOOLEAN, at_gnss_signal(sent) PROVE Fits(at')
  <2>1. CASE at.flag
    <3>1. at' = [Usb EXCEPT !.signal = TRUE, !.flag = FALSE]
      BY <1>5, <2>1 DEF at_gnss_signal, Parse
    <3> QED
      BY <1>1, <1>2, <3>1, ClearFits
  <2>2. CASE ~at.flag
    <3>1. at' = mtk_gps_test_start(Usb, 0, 1, sent)
      BY <1>5, <2>2 DEF at_gnss_signal, Parse
    <3>2. ~Usb.flag /\ 0 \in Nat /\ 1 \in {0, 1}
      BY <1>3, <2>2
    <3> QED
      BY <1>1, <1>2, <3>1, <3>2, StartFits
  <2> QED
    BY <2>1, <2>2
<1>6. ASSUME NEW sent \in BOOLEAN, at_gnss_end(sent) \/ at_gnss_invalid(sent)
      PROVE  Fits(at')
  <2>1. at' \in {Usb, gnss_clear(at), mtk_gps_test_stop(Usb, sent),
                 mtk_gps_test_stop(gnss_clear(at), sent)}
    BY <1>6, Zenon DEF at_gnss_end, at_gnss_invalid, Parse
  <2>2. /\ Fits(mtk_gps_test_stop(Usb, sent))
        /\ Fits(mtk_gps_test_stop(gnss_clear(at), sent))
    BY <1>1, <1>2, StopFits
  <2> QED
    BY <1>2, <2>1, <2>2, Zenon
<1>7. CASE at_gps_invalid \/ at_gps_query \/ at_gps_debug \/ at_cno
           \/ at_gnss_query
  <2>1. at' = Usb
    BY <1>7 DEF at_gps_invalid, at_gps_query, at_gps_debug, at_cno,
         at_gnss_query, Parse
  <2> QED
    BY <1>2, <2>1
<1>8. ASSUME NEW gps \in BOOLEAN, at_unknown(gps) PROVE Fits(at')
  <2>1. at' \in {at, Usb}
    BY <1>8 DEF at_unknown, Parse
  <2> QED
    BY <1>2, <2>1
<1>9. ASSUME NEW last \in BOOLEAN, NEW group \in Groups, NEW sent \in BOOLEAN,
             nmea_reader_parse(last, group, sent)
      PROVE  Fits(at')
  <2>1. at' = parse_sentence(at, last, group, sent)
    BY <1>9 DEF nmea_reader_parse
  <2> QED
    BY <2>1, SentenceFits
<1>10. CASE gps_state_thread_control \/ mtk_gps_init \/ UNCHANGED vars
  <2>1. at' = at
    BY <1>10 DEF gps_state_thread_control, mtk_gps_init, vars
  <2> QED
    BY <2>1
<1>11. CASE Wait
  <2>1. at' = [at EXCEPT !.waited = TRUE]
    BY <1>11 DEF Wait
  <2> QED
    BY <1>1, <2>1, ClearFits
<1> QED
  BY <1>4, <1>5, <1>6, <1>7, <1>8, <1>9, <1>10, <1>11
     DEF Next, at_command_parser

\* A test that begins with fresh counters and gets at most one sample a read
\* stores none past the end of its array, for every n and every order of
\* commands, sentences and failures.
THEOREM RoomSuffices == Spec => []SamplesFit
<1>1. Init => Fits(at)
  BY DEF Init, Fits
<1>2. Sound(at) /\ [Next]_vars => Sound(at)'
  BY SoundStep DEF Sound, Live
<1>3. Sound(at) /\ Fits(at) /\ [Next]_vars => Fits(at)'
  BY FitsStep DEF Fits
<1>4. Fits(at) => SamplesFit
  BY DEF Fits, SamplesFit
<1> QED
  BY SoundInit, <1>1, <1>2, <1>3, <1>4, PTL DEF Spec
=============================================================================

------------------------------ MODULE WpaDriver ------------------------------
(***************************************************************************)
(* The driver commands of wpa_supplicant,                                  *)
(* src/wpa_supplicant/mediatek_driver_cmd_nl80211.c, with the CONFIG_MTK_* *)
(* options on.  The supplicant has one thread, its event loop: a command   *)
(* that talks to the kernel driver over netlink (test mode) keeps the loop *)
(* waiting in send_and_recv_msgs until the driver has answered; the other  *)
(* commands are one step.  Test mode commands are told apart by what they  *)
(* make of the answer.  Numbers, addresses and texts are left out where a  *)
(* command only passes them on, and so is how much of a text fits into the *)
(* buffer; one interface stands for the supplicant, and P2P is set up.     *)
(***************************************************************************)
EXTENDS Naturals, Sequences

CONSTANTS
    Attrs,        \* attributes of a test mode answer
    Freqs,        \* frequencies of the station's network
    OtherFreqs,   \* what a command may give as a frequency besides
    Sequential,   \* DRV_NUMBER_SEQUENTIAL_ERRORS
    ScanTimeout,  \* ticks of the time-out of set_scan_loading (10 s)
    MaxCommands   \* bound on the commands

ASSUME WpaAssumption ==
    /\ Freqs \subseteq Nat \ {0} /\ OtherFreqs \subseteq Nat \ {0}
    /\ Sequential \in Nat /\ MaxCommands \in Nat
    /\ ScanTimeout \in Nat \ {0}

VARIABLES
    call,        \* the test mode command the thread waits for, or "none"
    replies,     \* messages on the netlink socket
    asked,       \* the driver has a request to answer
    filled,      \* attributes written to the answer's buffer
    sent,        \* history: attributes of the answer, unless it was lost
    lost,        \* history: the message that ends the wait was lost
    printed,     \* history: what the last statistics were printed from
    answer,      \* what the last command returned
    drv_errors,
    failures,    \* history: private commands that failed in a row
    link,        \* the interface is up; what the framework was told
    shared,      \* wpa_drv_shared_freq, 0 if not connected
    p2p,         \* wpa_s->global->p2p, and where its channel came from
    cache,       \* p2p_scan_res_cache, and whether P2P_CACHE_FILE exists
    timer,       \* ticks until wpa_driver_nl80211_scan_loading_timeout, or 0
    loading,     \* history: a channel list is due since set_scan_loading
    commands     \* commands received

netlink == <<call, replies, asked, filled, sent, lost>>
errors == <<drv_errors, failures>>
rest == <<link, shared, p2p, cache, timer, loading>>
vars == <<netlink, printed, answer, errors, rest, commands>>

----------------------------------------------------------------------------
(* The channels of P2P.                                                    *)

Unknown == <<>>   \* priv_p2p_freq_to_channel returns -1

\* priv_p2p_freq_to_channel: the operating class and the channel.  The ranges
\* of CONFIG_MTK_P2P_5G have no test of the raster.
priv_p2p_freq_to_channel(freq) ==
    LET raster(class) ==
            IF (freq - 5000) % 5 # 0 THEN Unknown
            ELSE <<class, (freq - 5000) \div 5>>
        free(class) == <<class, (freq - 5000) \div 5>>
    IN  CASE freq \in 2412..2472 -> IF (freq - 2407) % 5 # 0 THEN Unknown
                                    ELSE <<81, (freq - 2407) \div 5>>
          [] freq = 2484 -> <<82, 14>>
          [] freq \in 5180..5240 -> raster(115)
          [] freq \in 5260..5320 -> free(118)
          [] freq \in 5500..5700 -> free(121)
          [] freq \in 5745..5805 -> raster(124)
          [] freq \in 5825..5845 -> free(125)
          [] OTHER -> Unknown

\* What an uninitialised op_reg_class and op_channel may hold.
Garbage == {<<0, 0>>, <<81, 6>>}

\* The configured channel, or one of 1, 6 and 11 at random.
Oper(configured) ==
    IF configured THEN {<<115, 36>>} ELSE {<<81, c>> : c \in {1, 6, 11}}

\* The channel in SCC: the result of the conversion is not looked at.
Converted(freq) ==
    IF priv_p2p_freq_to_channel(freq) = Unknown THEN Garbage
    ELSE {priv_p2p_freq_to_channel(freq)}

\* (Mutant: the operating channel stays the one before)
config_scc_keeps_op(p, freq) ==
    IF freq # 0
    THEN {[p EXCEPT !.channels = {op}, !.from = freq] : op \in Converted(freq)}
    ELSE {[p EXCEPT !.op = op, !.channels = {}, !.from = 0] :
             op \in Oper(p.configured)}

\* p2p_wfd_sink_config_scc on the p2p data p: SCC on a frequency, or without
\* one (scc and the frequency are always 0 together, but for a MIRACAST 2
\* whose frequency reads as 0) back to MCC.
p2p_wfd_sink_config_scc(p, freq) ==
    IF freq # 0
    THEN {[p EXCEPT !.op = op, !.channels = {op}, !.from = freq] :
             op \in Converted(freq)}
    ELSE {[p EXCEPT !.op = op, !.channels = {}, !.from = 0] :
             op \in Oper(p.configured)}

----------------------------------------------------------------------------

Init ==
    /\ call = "none" /\ replies = <<>> /\ asked = FALSE /\ filled = {}
    /\ sent = {} /\ lost = FALSE
    /\ printed = "nothing"
    /\ answer = "none"
    /\ drv_errors = 0 /\ failures = 0
    /\ link = [up |-> TRUE, told |-> "none", associated |-> FALSE]
    /\ shared = 0
    /\ \E configured \in BOOLEAN : \E op \in Oper(configured) :
          p2p = [op |-> op, channels |-> {}, from |-> 0,
                 configured |-> configured, use_mcc |-> FALSE, mcc |-> FALSE,
                 dev_capab |-> 0]
    /\ cache = [on |-> FALSE, file |-> FALSE]
    /\ timer = 0 /\ loading = FALSE
    /\ commands = 0

\* A command of the framework reaches wpa_driver_nl80211_driver_cmd: the loop
\* is not waiting in an earlier one.
Receive ==
    /\ call = "none"
    /\ commands < MaxCommands
    /\ commands' = commands + 1

\* A test mode command comes the same way; a set_scan_loading that repeats one
\* whose time-out is pending is not counted, so that it may come for ever.
ReceiveTest(cmd) ==
    \/ Receive
    \/ /\ cmd = "set_scan_loading" /\ loading
       /\ call = "none"
       /\ UNCHANGED commands

\* A command that is over in one step and leaves the netlink socket alone.
Answer(ret) ==
    /\ Receive
    /\ answer' = ret
    /\ UNCHANGED <<netlink, printed>>

----------------------------------------------------------------------------
(* Test mode: a request to the driver and the wait for its answer.         *)

\* The commands whose answer is data of the driver: GET_STA_STATISTICS and
\* GET_STA_LINK_DETECT, and get_beamplus_go_ready.
Queries == {"statistics", "go_ready"}

\* Those that return what wpa_driver_nl80211_testmode returns: the statistics,
\* STA-BLOCK, STA-UNBLOCK and wfd_data_update.
Honest == {"statistics", "block_list"}

\* Those that return 0 whatever it says: rxfilter-*, smt-*, set_band_*,
\* p2p_set_opps, p2p_set_power_save, p2p_set_sleep and set-wapi-key.
Blind == {"sw_cmd"}

\* Those that return -1 whatever it says.
Deaf == {"go_ready", "set_beamplus"}

Testmode == Queries \cup Honest \cup Blind \cup Deaf
                \cup {"set_scan_loading", "SETSUSPENDMODE"}

\* Those that return -1 before they send anything, if their argument is wrong
\* (some of a kind only).
Checked == {"statistics", "block_list", "sw_cmd"}

\* (Mutant: the counter is only reset by a success)
send_hang_msg_no_wrap == drv_errors' = drv_errors + 1

\* wpa_driver_send_hang_msg, which no longer tells the framework.
wpa_driver_send_hang_msg ==
    drv_errors' = IF drv_errors + 1 > Sequential THEN 0 ELSE drv_errors + 1

\* The private ioctl of a command that is not handled.
private_ioctl ==
    \/ /\ answer' = "fail"
       /\ wpa_driver_send_hang_msg
       /\ failures' = failures + 1
    \/ /\ answer' = "ok"
       /\ drv_errors' = 0 /\ failures' = 0

\* (Mutant: the time-out is cancelled after it was registered)
set_scan_loading_cancels == timer' = 0 /\ loading' = TRUE

\* The end of set_scan_loading: a pending time-out is cancelled, and a new one
\* registered.
set_scan_loading == timer' = ScanTimeout /\ loading' = TRUE

\* What a command returns when wpa_driver_nl80211_testmode has returned err.
Returned(cmd, err) ==
    CASE cmd \in Deaf -> "fail"
      [] cmd \in Honest -> err
      [] OTHER -> "ok"

\* send_and_recv_msgs has returned err; the rest of the command.
Finish(cmd, err) ==
    /\ call' = "none"
    /\ printed' = IF cmd \notin Queries \ Deaf \/ err # "ok" THEN printed
                  ELSE IF filled = sent THEN "answer" ELSE "other"
    /\ IF cmd = "SETSUSPENDMODE" THEN private_ioctl
       ELSE answer' = Returned(cmd, err) /\ UNCHANGED errors
    /\ IF cmd = "set_scan_loading" THEN set_scan_loading
       ELSE UNCHANGED <<timer, loading>>
    /\ UNCHANGED <<link, shared, p2p, cache>>

\* The argument does not parse: nothing is sent.
invalid_argument(cmd) ==
    /\ cmd \in Checked
    /\ Answer("fail")
    /\ UNCHANGED <<errors, rest>>

\* wpa_driver_nl80211_testmode: no memory, or the socket refuses the request.
testmode_fails(cmd) ==
    /\ ReceiveTest(cmd)
    /\ Finish(cmd, "fail")
    /\ UNCHANGED <<replies, asked, filled, sent, lost>>

\* wpa_driver_nl80211_testmode: the request is on its way.  The buffer for the
\* answer is a local that nobody has initialised.
testmode(cmd) ==
    /\ ReceiveTest(cmd)
    /\ call' = cmd
    /\ asked' = TRUE
    /\ filled' = {} /\ sent' = {}
    /\ UNCHANGED <<replies, lost, printed, answer, errors, rest>>

\* The driver answers: data for a query, with the attributes it has, then an
\* acknowledgement; or an error.
driver_answers ==
    /\ asked
    /\ asked' = FALSE
    /\ \/ /\ replies' = Append(replies, [type |-> "error", attrs |-> {}])
          /\ UNCHANGED sent
       \/ /\ call \notin Queries
          /\ replies' = Append(replies, [type |-> "ack", attrs |-> {}])
          /\ UNCHANGED sent
       \/ /\ call \in Queries
          /\ \E attrs \in SUBSET Attrs :
                /\ replies' = replies \o <<[type |-> "valid", attrs |-> attrs],
                                           [type |-> "ack", attrs |-> {}]>>
                /\ sent' = attrs
    /\ UNCHANGED <<call, filled, lost, printed, answer, errors, rest,
                   commands>>

\* (Mutant: the loop misses the last attribute)
valid_handler_last(attrs) ==
    filled' = filled \cup (attrs \ {CHOOSE a \in Attrs : TRUE})

\* testmode_sta_statistics_handler, testmode_sta_link_detect_handler and
\* testmode_beamplus_go_ready_handler copy the attributes that are there.
valid_handler(attrs) == filled' = filled \cup attrs

\* nl_recvmsgs hands a message to its handler; data leaves err at 1, and the
\* loop of send_and_recv_msgs waits for the next.
recv_valid ==
    /\ call # "none" /\ replies # <<>>
    /\ Head(replies).type = "valid"
    /\ valid_handler(Head(replies).attrs)
    /\ replies' = Tail(replies)
    /\ UNCHANGED <<call, asked, sent, lost, printed, answer, errors, rest,
                   commands>>

\* (Mutant: an error leaves err at 1)
ends_the_wait_ack == {"ack"}

\* ack_handler, finish_handler and error_handler set err to 0 or below.
ends_the_wait == {"ack", "error"}

recv_end ==
    /\ call # "none" /\ replies # <<>>
    /\ Head(replies).type # "valid"
    /\ replies' = Tail(replies)
    /\ IF Head(replies).type \in ends_the_wait
       THEN Finish(call, IF Head(replies).type = "ack" THEN "ok" ELSE "fail")
       ELSE UNCHANGED <<call, printed, answer, errors, rest>>
    /\ UNCHANGED <<asked, filled, sent, lost, commands>>

\* nl_recvmsgs fails on a message: that is only logged, err is what it was, and
\* the loop waits for the next message, which may never come.
recv_fails ==
    /\ call # "none" /\ replies # <<>>
    /\ replies' = Tail(replies)
    /\ IF Head(replies).type = "valid" THEN sent' = {} /\ UNCHANGED lost
       ELSE lost' = TRUE /\ UNCHANGED sent
    /\ UNCHANGED <<call, asked, filled, printed, answer, errors, rest,
                   commands>>

send_and_recv_msgs == recv_valid \/ recv_end \/ recv_fails

----------------------------------------------------------------------------
(* The commands that do not use test mode.                                 *)

\* POWERMODE, getpower, get-rts-threshold and set-rts-threshold: ret stays -1;
\* so it is for an mcc without a value.
cmd_ignored == Answer("fail") /\ UNCHANGED <<errors, rest>>

\* btcoexscan-*, btcoexmode, MACADDR and a wapi-msg-send of at most 1024 bytes.
cmd_accepted == Answer("ok") /\ UNCHANGED <<errors, rest>>

\* COUNTRY: wpa_driver_mediatek_set_country, through a socket of its own.
cmd_country ==
    /\ \E ret \in {"ok", "fail"} : Answer(ret)
    /\ UNCHANGED <<errors, rest>>

\* start, and stop with the deauthentication of an associated interface
\* (which may fail); the framework is told if the flags could be set.
cmd_start_stop(up) ==
    \E set \in BOOLEAN, deauthenticated \in BOOLEAN :
       /\ Answer(IF set THEN "ok" ELSE "fail")
       /\ link' = [up |-> IF set THEN up ELSE link.up,
                   told |-> CASE ~set -> link.told
                              [] set /\ up -> "STARTED"
                              [] set /\ ~up -> "STOPPED",
                   associated |-> link.associated /\ (up \/ ~deauthenticated)]
       /\ UNCHANGED <<errors, shared, p2p, cache, timer, loading>>

\* (Mutant: the capability is not masked)
cmd_set_cap_unmasked(cap) ==
    /\ Answer("ok")
    /\ p2p' = [p2p EXCEPT !.dev_capab = cap]
    /\ UNCHANGED <<errors, link, shared, cache, timer, loading>>

\* p2p_get_cap: the device's capability; the group's is not implemented.
cmd_get_cap ==
    \E ret \in {"ok", "fail"} : Answer(ret) /\ UNCHANGED <<errors, rest>>

\* p2p_set_cap: the device's capability is kept to a byte, the group's is not
\* implemented, and another one is ignored.
cmd_set_cap(cap) ==
    /\ \/ Answer("ok") /\ p2p' = [p2p EXCEPT !.dev_capab = cap % 256]
       \/ \E ret \in {"ok", "fail"} : Answer(ret) /\ UNCHANGED p2p
    /\ UNCHANGED <<errors, link, shared, cache, timer, loading>>

\* MIRACAST 0 and 1, and 2 with or without a frequency, then the private ioctl;
\* another value is only passed on.
cmd_miracast ==
    /\ Receive
    /\ private_ioctl
    /\ \/ \E freq \in {shared, 0} \cup Freqs \cup OtherFreqs :
             p2p' \in p2p_wfd_sink_config_scc(p2p, freq)
       \/ UNCHANGED p2p
    /\ UNCHANGED <<netlink, printed, link, shared, cache, timer, loading>>

\* p2p_use_mcc=n: MCC, or the channel of the station, if any.  ret stays -1.
cmd_use_mcc(use) ==
    /\ Answer("fail")
    /\ p2p' \in p2p_wfd_sink_config_scc([p2p EXCEPT !.use_mcc = use],
                                        IF use THEN 0 ELSE shared)
    /\ UNCHANGED <<errors, link, shared, cache, timer, loading>>

\* mcc n, on every interface and in the configuration of P2P.
cmd_mcc(on) ==
    /\ Answer("ok")
    /\ p2p' = [p2p EXCEPT !.mcc = on]
    /\ UNCHANGED <<errors, link, shared, cache, timer, loading>>

\* set_p2p_scan_cache n: the file is created or removed, or that fails.
cmd_scan_cache(on) ==
    \E done \in BOOLEAN :
       /\ Answer("ok")
       /\ cache' = CASE on /\ done -> [on |-> TRUE, file |-> TRUE]
                     [] on /\ ~done -> cache
                     [] OTHER -> [on |-> FALSE, file |-> cache.file /\ ~done]
       /\ UNCHANGED <<errors, link, shared, p2p, timer, loading>>

\* Everything else, an unknown command included.
cmd_private ==
    /\ Receive
    /\ private_ioctl
    /\ UNCHANGED <<netlink, printed, rest>>

driver_cmd ==
    \/ \E cmd \in Testmode :
          testmode(cmd) \/ testmode_fails(cmd) \/ invalid_argument(cmd)
    \/ cmd_ignored \/ cmd_accepted \/ cmd_country
    \/ \E on \in BOOLEAN :
          \/ cmd_start_stop(on) \/ cmd_use_mcc(on)
          \/ cmd_mcc(on) \/ cmd_scan_cache(on)
    \/ cmd_get_cap \/ \E cap \in {1, 257} : cmd_set_cap(cap)
    \/ cmd_miracast \/ cmd_private

----------------------------------------------------------------------------
(* The event loop and the network.                                         *)

\* Time passes, also while a command waits.
Tick ==
    /\ timer > 1
    /\ timer' = timer - 1
    /\ UNCHANGED <<netlink, printed, answer, errors, link, shared, p2p, cache,
                   loading, commands>>

\* wpa_driver_nl80211_scan_loading_timeout, in the event loop:
\* EVENT_CHANNEL_LIST_CHANGED.
scan_loading_timeout ==
    /\ call = "none"
    /\ timer = 1
    /\ timer' = 0 /\ loading' = FALSE
    /\ UNCHANGED <<netlink, printed, answer, errors, link, shared, p2p, cache,
                   commands>>

\* The station joins or leaves a network.
Station ==
    /\ call = "none"
    /\ \E freq \in Freqs \cup {0} :
          /\ shared' = freq
          /\ link' = [link EXCEPT !.associated = (freq # 0)]
    /\ UNCHANGED <<netlink, printed, answer, errors, p2p, cache, timer, loading,
                   commands>>

Next ==
    \/ driver_cmd
    \/ send_and_recv_msgs
    \/ driver_answers
    \/ Tick
    \/ scan_loading_timeout
    \/ Station

Spec == Init /\ [][Next]_vars

\* The driver answers what it is asked, the loop reads what is there (or fails
\* to), time passes, and a time-out that is due is handled by the event loop.
LiveSpec ==
    /\ Spec
    /\ WF_vars(send_and_recv_msgs) /\ WF_vars(driver_answers)
    /\ WF_vars(Tick) /\ WF_vars(scan_loading_timeout)

----------------------------------------------------------------------------
(* Properties.                                                             *)

Messages == [type : {"valid", "ack", "error"}, attrs : SUBSET Attrs]

P2pData == [op : Nat \X Nat, channels : SUBSET (Nat \X Nat), from : Nat,
            configured : BOOLEAN, use_mcc : BOOLEAN, mcc : BOOLEAN,
            dev_capab : 0..255]

NetlinkOK ==
    /\ call \in Testmode \cup {"none"}
    /\ replies \in Seq(Messages)
    /\ asked \in BOOLEAN
    /\ filled \subseteq Attrs /\ sent \subseteq Attrs
    /\ lost \in BOOLEAN

AnswersOK ==
    /\ printed \in {"nothing", "answer", "other"}
    /\ answer \in {"none", "ok", "fail"}
    /\ drv_errors \in 0..Sequential /\ failures \in Nat
    /\ commands \in 0..MaxCommands

LinkOK ==
    /\ link \in [up : BOOLEAN, told : {"none", "STARTED", "STOPPED"},
                 associated : BOOLEAN]
    /\ shared \in Freqs \cup {0}
    /\ cache \in [on : BOOLEAN, file : BOOLEAN]
    /\ timer \in 0..ScanTimeout /\ loading \in BOOLEAN

\* Every variable holds a value of its type: the capability is a byte, and the
\* count of errors stays within its limit.
TypeOK == NetlinkOK /\ AnswersOK /\ LinkOK /\ p2p \in P2pData

\* drv_errors counts the private commands that failed in a row, modulo the
\* limit: test mode commands, handled ones and time-outs in between neither
\* count nor reset it, and it never passes the limit.
ErrorsInSequence == drv_errors = failures % (Sequential + 1)

\* The channels of the operating classes of 2.4 and 5 GHz.
ClassChannels ==
    [c \in {81, 82, 115, 118, 121, 124, 125} |->
        CASE c = 81 -> 1..13
          [] c = 82 -> {14}
          [] c = 115 -> {36, 40, 44, 48}
          [] c = 118 -> {52, 56, 60, 64}
          [] c = 121 -> {100 + 4 * k : k \in 0..10}
          [] c = 124 -> {149, 153, 157, 161}
          [] c = 125 -> {165, 169}]

\* Their centre frequencies, in MHz.
ChannelFreqs ==
    {2407 + 5 * c : c \in 1..13} \cup {2484}
    \cup {5000 + 5 * c : c \in {36, 40, 44, 48} \cup {52, 56, 60, 64}
                           \cup {100 + 4 * k : k \in 0..10}
                           \cup {149, 153, 157, 161} \cup {165, 169}}

\* After any sequence of commands the P2P channel is a channel of its class,
\* and in SCC the only one offered, unless the last command that set it took it
\* from a frequency of no such channel (one that a command gives, or that of a
\* station on channel 144): the next command with a good frequency, or the
\* return to MCC, brings it back.
ChannelOfClass ==
    /\ p2p.from \in ChannelFreqs \cup {0} =>
          /\ p2p.op[1] \in DOMAIN ClassChannels
          /\ p2p.op[2] \in ClassChannels[p2p.op[1]]
    /\ p2p.channels \subseteq {p2p.op}

\* Statistics are printed only after a request that the driver acknowledged,
\* and from a buffer that holds the attributes of the answer to this request:
\* all that were received, and none of an earlier answer.  Attributes that the
\* driver leaves out, or that are lost, are printed as they are in the buffer.
StatisticsFromDriver == printed # "other"

\* A command that waits for the driver comes to its end, and with it the event
\* loop goes on, whether the driver acknowledges or refuses and also when the
\* data of an answer is lost; only the loss of the message that ends the wait
\* stops it.
CommandEnds == call # "none" ~> (call = "none" \/ lost)

\* After set_scan_loading the channel list is updated, whatever commands come
\* before the time-out, unless set_scan_loading starts the time anew again and
\* again, or the event loop stands still after a lost message.
ListIsUpdated ==
    (loading ~> (~loading \/ lost)) \/ []<>(timer = ScanTimeout)
=============================================================================

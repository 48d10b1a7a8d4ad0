------------------------------- MODULE GpsHal -------------------------------
(***************************************************************************)
(* The life cycle of the MediaTek GPS HAL (src/gps/hal/gps_mtk_aosp.c):    *)
(* the framework thread that calls mtk_gps_init, mtk_gps_start,            *)
(* mtk_gps_stop and mtk_gps_cleanup, the native thread gps_state_thread,   *)
(* the start and the end of the EPO thread, and the mnld daemon they talk  *)
(* to.  The threads share unprotected globals (start_flag, started,        *)
(* flag_unlock, sta) and synchronise through lock_for_sync[], so each      *)
(* access to shared state is a step of its own.                            *)
(***************************************************************************)
EXTENDS Naturals, Sequences

CONSTANTS
    Faults,     \* the failures the environment may produce in this model
    MaxQueue    \* capacity of each socket, in messages

AllFaults == {"init", "thread", "slow", "send", "crash", "epoll", "ni"}

ASSUME ConstantsAssumption ==
    /\ Faults \subseteq AllFaults
    /\ MaxQueue \in Nat \ {0}

VARIABLES
    fpc,          \* where the framework thread is
    up,           \* framework: init has returned and cleanup has not
    fwStarted,    \* framework: it has called start and not stop since
    init,         \* GpsState.init
    fdsOpen,      \* the descriptors of GpsState are open
    start_flag,   \* GpsState.start_flag
    started,      \* the global started, written by gps_state_thread
    flag_unlock,  \* the global flag_unlock
    sta,          \* the global GpsStatus handed to status_cb
    condtion,     \* lock_for_sync[].condtion
    ctl,          \* commands in the control socket pair
    hpc,          \* where gps_state_thread is
    epc,          \* where thread_epo_file_update is
    epo_exit,     \* GpsState.thread_epo_exit_flag
    mnl,          \* mnld: the GPS engine is running
    ni,           \* mnld: a network-initiated session is on
    toMnld,       \* datagrams in the hal2mnld socket
    fromMnld,     \* datagrams in the mnld2hal socket
    nmea,         \* there is unread data in /dev/gps
    engineOn,     \* framework: the engine state status_cb reported last
    navigating,   \* framework: the session state status_cb reported last
    wakelock      \* the GPS wakelock is held

fwkVars  == <<up, fwStarted, engineOn, navigating, wakelock>>
halVars  == <<init, fdsOpen, start_flag, epo_exit>>
thrVars  == <<started, flag_unlock>>
mnldVars == <<mnl, ni, toMnld>>
vars == <<fpc, hpc, epc, fwkVars, halVars, thrVars, mnldVars, sta, condtion,
          ctl, fromMnld, nmea>>

Locks == {"M_START", "M_STOP", "M_CLEANUP", "M_INIT", "M_THREAD_EXIT"}

Status == {"NONE", "SESSION_BEGIN", "SESSION_END", "ENGINE_ON", "ENGINE_OFF"}

----------------------------------------------------------------------------
(* Building blocks.                                                        *)

\* A thread moves from one program point to the next.
FGoto(from, to) == fpc = from /\ fpc' = to
HGoto(from, to) == hpc = from /\ hpc' = to

\* release_condition: set the condition under its mutex and signal it.
Release(l) == condtion' = [condtion EXCEPT ![l] = TRUE]

\* The status_cb of the framework, reading the global sta through the pointer
\* it is given (GnssLocationProvider.reportStatus).
StatusCb ==
    /\ engineOn' = CASE sta \in {"ENGINE_ON", "SESSION_BEGIN"} -> TRUE
                     [] sta = "ENGINE_OFF" -> FALSE
                     [] OTHER -> engineOn
    /\ navigating' = CASE sta = "SESSION_BEGIN" -> TRUE
                       [] sta \in {"SESSION_END", "ENGINE_OFF"} -> FALSE
                       [] OTHER -> navigating

\* mtk_daemon_send: a datagram to mnld.  The caller blocks while the socket
\* is full; a failed send is the fault "send".
Send(m) == Len(toMnld) < MaxQueue /\ toMnld' = Append(toMnld, m)
SendFails == "send" \in Faults

\* (Mutant: the control socket is written without blocking)
Control_unbounded(c) == ctl' = Append(ctl, c)

\* A write to the control socket pair; the caller blocks while it is full.
Control(c) == Len(ctl) < MaxQueue /\ ctl' = Append(ctl, c)

----------------------------------------------------------------------------
(* get_condition: where the framework thread waits, for what, and where it *)
(* goes on.                                                                *)

Waits == {
    [at |-> "in_wait",     for |-> "M_INIT",        then |-> "in_done"],
    [at |-> "in_failwait", for |-> "M_CLEANUP",     then |-> "in_wait"],
    [at |-> "st_wait",     for |-> "M_START",       then |-> "st_ctl"],
    [at |-> "cl_wait",     for |-> "M_STOP",        then |-> "cl_clear"],
    [at |-> "dn_wait",     for |-> "M_CLEANUP",     then |-> "dn_close"],
    [at |-> "cl_epowait",  for |-> "M_THREAD_EXIT", then |-> "cl_return"] }

get_condition ==
    /\ \E w \in Waits :
        /\ FGoto(w.at, w.then)
        /\ condtion[w.for]
        /\ condtion' = [condtion EXCEPT ![w.for] = FALSE]
    /\ UNCHANGED <<hpc, epc, fwkVars, halVars, thrVars, mnldVars, sta, ctl,
                   fromMnld, nmea>>

----------------------------------------------------------------------------
(* mtk_gps_init, and the Xtra init that the framework's JNI calls next.    *)

\* gps_state_init: the descriptors are opened, INIT goes to mnld and the
\* native thread is created.
gps_state_init ==
    /\ ~up /\ ~init
    /\ FGoto("idle", "in_wait")
    /\ Send("INIT")
    /\ fdsOpen' = TRUE
    /\ ctl' = <<>>
    /\ hpc' = "boot"
    /\ UNCHANGED <<epc, fwkVars, init, start_flag, epo_exit, thrVars, mnl, ni,
                   sta, condtion, fromMnld, nmea>>

\* The early exits of gps_state_init: without /dev/gps it returns at once and
\* mtk_gps_init still waits for M_INIT; after any later error gps_state_done
\* waits for M_CLEANUP of a thread that was never created.
gps_state_init_fails ==
    /\ "init" \in Faults
    /\ ~up /\ ~init
    /\ \/ FGoto("idle", "in_wait") /\ UNCHANGED <<fdsOpen, toMnld>>
       \/ /\ FGoto("idle", "in_failwait")
          /\ fdsOpen' = TRUE
          /\ Send("INIT") \/ UNCHANGED toMnld
    /\ UNCHANGED <<hpc, epc, fwkVars, init, start_flag, epo_exit, thrVars, mnl,
                   ni, sta, condtion, ctl, fromMnld, nmea>>

\* The rest of mtk_gps_init once the native thread is in its loop.
mtk_gps_init_done ==
    /\ FGoto("in_done", "ep_create")
    /\ init' = TRUE
    /\ UNCHANGED <<hpc, epc, fwkVars, fdsOpen, start_flag, epo_exit, thrVars,
                   mnldVars, sta, condtion, ctl, fromMnld, nmea>>

\* mtk_gps_epo_interface_init, first half: pthread_create.
epo_interface_create ==
    /\ \/ /\ FGoto("ep_create", "ep_flag")
          /\ epc' = "first"
          /\ up' = up
       \/ /\ "thread" \in Faults
          /\ FGoto("ep_create", "idle")
          /\ epc' = epc
          /\ up' = TRUE
    /\ UNCHANGED <<hpc, fwStarted, engineOn, navigating, wakelock, halVars,
                   thrVars, mnldVars, sta, condtion, ctl, fromMnld, nmea>>

\* mtk_gps_epo_interface_init, second half: the exit flag is cleared only
\* after the thread exists.
epo_interface_flag ==
    /\ FGoto("ep_flag", "idle")
    /\ epo_exit' = FALSE
    /\ up' = TRUE
    /\ UNCHANGED <<hpc, epc, fwStarted, engineOn, navigating, wakelock, init,
                   fdsOpen, start_flag, thrVars, mnldVars, sta, condtion, ctl,
                   fromMnld, nmea>>

----------------------------------------------------------------------------
(* mtk_gps_start.                                                          *)

\* The framework asks for a session; start spins until start_flag is clear.
start_call ==
    /\ up /\ ~fwStarted
    /\ FGoto("idle", "st_spin")
    /\ fwStarted' = TRUE
    /\ UNCHANGED <<hpc, epc, up, engineOn, navigating, wakelock, halVars,
                   thrVars, mnldVars, sta, condtion, ctl, fromMnld, nmea>>

\* (Mutant: start does not wait for the last stop)
start_spin_at_once ==
    /\ FGoto("st_spin", "st_send")
    /\ UNCHANGED <<hpc, epc, fwkVars, halVars, thrVars, mnldVars, sta,
                   condtion, ctl, fromMnld, nmea>>

start_spin ==
    /\ ~start_flag
    /\ FGoto("st_spin", "st_send")
    /\ UNCHANGED <<hpc, epc, fwkVars, halVars, thrVars, mnldVars, sta,
                   condtion, ctl, fromMnld, nmea>>

\* mtk_start; when the send fails start returns -1 and the framework forgets
\* the session.
mtk_start ==
    /\ \/ /\ FGoto("st_send", "st_wait")
          /\ Send("START")
          /\ fwStarted' = fwStarted
       \/ /\ SendFails
          /\ FGoto("st_send", "idle")
          /\ fwStarted' = FALSE
          /\ UNCHANGED toMnld
    /\ UNCHANGED <<hpc, epc, up, engineOn, navigating, wakelock, halVars,
                   thrVars, mnl, ni, sta, condtion, ctl, fromMnld, nmea>>

\* gps_state_start: CMD_START to the native thread.
gps_state_start ==
    /\ FGoto("st_ctl", "st_on")
    /\ Control("CMD_START")
    /\ UNCHANGED <<hpc, epc, fwkVars, halVars, thrVars, mnldVars, sta,
                   condtion, fromMnld, nmea>>

\* The two assignments of mtk_gps_start to the shared sta.
start_status ==
    /\ \/ FGoto("st_on", "st_oncb") /\ sta' = "ENGINE_ON"
       \/ FGoto("st_begin", "st_begincb") /\ sta' = "SESSION_BEGIN"
    /\ UNCHANGED <<hpc, epc, fwkVars, halVars, thrVars, mnldVars, condtion,
                   ctl, fromMnld, nmea>>

\* The two status_cb calls of mtk_gps_start.
start_status_cb ==
    /\ \/ FGoto("st_oncb", "st_begin")
       \/ FGoto("st_begincb", "st_wake")
    /\ StatusCb
    /\ UNCHANGED <<hpc, epc, up, fwStarted, wakelock, halVars, thrVars,
                   mnldVars, sta, condtion, ctl, fromMnld, nmea>>

\* acquire_wakelock_cb.
start_wakelock ==
    /\ FGoto("st_wake", "st_clear")
    /\ wakelock' = TRUE
    /\ UNCHANGED <<hpc, epc, up, fwStarted, engineOn, navigating, halVars,
                   thrVars, mnldVars, sta, condtion, ctl, fromMnld, nmea>>

\* A left-over M_STOP is dropped, without its mutex.
start_clear_stop ==
    /\ FGoto("st_clear", "st_flag")
    /\ condtion' = [condtion EXCEPT !["M_STOP"] = FALSE]
    /\ UNCHANGED <<hpc, epc, fwkVars, halVars, thrVars, mnldVars, sta, ctl,
                   fromMnld, nmea>>

start_return ==
    /\ FGoto("st_flag", "idle")
    /\ start_flag' = TRUE
    /\ UNCHANGED <<hpc, epc, fwkVars, init, fdsOpen, epo_exit, thrVars,
                   mnldVars, sta, condtion, ctl, fromMnld, nmea>>

----------------------------------------------------------------------------
(* mtk_gps_stop.                                                           *)

stop_call ==
    /\ up /\ fwStarted
    /\ FGoto("idle", "sp_spin")
    /\ fwStarted' = FALSE
    /\ UNCHANGED <<hpc, epc, up, engineOn, navigating, wakelock, halVars,
                   thrVars, mnldVars, sta, condtion, ctl, fromMnld, nmea>>

\* stop spins until start_flag is set.
stop_spin ==
    /\ start_flag
    /\ FGoto("sp_spin", "sp_send")
    /\ UNCHANGED <<hpc, epc, fwkVars, halVars, thrVars, mnldVars, sta,
                   condtion, ctl, fromMnld, nmea>>

\* mtk_stop; when the send fails stop returns -1 and leaves start_flag set.
mtk_stop ==
    /\ \/ FGoto("sp_send", "sp_ctl") /\ Send("STOP")
       \/ SendFails /\ FGoto("sp_send", "idle") /\ UNCHANGED toMnld
    /\ UNCHANGED <<hpc, epc, fwkVars, halVars, thrVars, mnl, ni, sta,
                   condtion, ctl, fromMnld, nmea>>

\* gps_state_stop: CMD_STOP to the native thread.
gps_state_stop ==
    /\ FGoto("sp_ctl", "idle")
    /\ Control("CMD_STOP")
    /\ UNCHANGED <<hpc, epc, fwkVars, halVars, thrVars, mnldVars, sta,
                   condtion, fromMnld, nmea>>

----------------------------------------------------------------------------
(* mtk_gps_cleanup and gps_state_done.                                     *)

\* mtk_cleanup ignores the result of its send.
mtk_cleanup ==
    /\ up /\ ~fwStarted
    /\ FGoto("idle", "cl_check")
    /\ \/ Send("CLEANUP")
       \/ SendFails /\ UNCHANGED toMnld
    /\ UNCHANGED <<hpc, epc, fwkVars, halVars, thrVars, mnl, ni, sta,
                   condtion, ctl, fromMnld, nmea>>

\* Wait for the engine to be off, if a session is still on.
cleanup_check ==
    /\ IF start_flag THEN FGoto("cl_check", "cl_wait")
                     ELSE FGoto("cl_check", "cl_clear")
    /\ UNCHANGED <<hpc, epc, fwkVars, halVars, thrVars, mnldVars, sta,
                   condtion, ctl, fromMnld, nmea>>

\* (Mutant: a left-over M_STOP stays)
cleanup_clear_none ==
    /\ FGoto("cl_clear", "dn_quit")
    /\ condtion' = condtion
    /\ UNCHANGED <<hpc, epc, fwkVars, halVars, thrVars, mnldVars, sta, ctl,
                   fromMnld, nmea>>

cleanup_clear ==
    /\ FGoto("cl_clear", "dn_quit")
    /\ condtion' = [condtion EXCEPT !["M_STOP"] = FALSE]
    /\ UNCHANGED <<hpc, epc, fwkVars, halVars, thrVars, mnldVars, sta, ctl,
                   fromMnld, nmea>>

\* (Mutant: the wait for M_CLEANUP is left out)
gps_state_done_no_wait ==
    /\ init
    /\ FGoto("dn_quit", "dn_close")
    /\ Control("CMD_QUIT")
    /\ UNCHANGED <<hpc, epc, fwkVars, halVars, thrVars, mnldVars, sta,
                   condtion, fromMnld, nmea>>

\* gps_state_done: CMD_QUIT, then the wait for M_CLEANUP.
gps_state_done ==
    /\ init
    /\ FGoto("dn_quit", "dn_wait")
    /\ Control("CMD_QUIT")
    /\ UNCHANGED <<hpc, epc, fwkVars, halVars, thrVars, mnldVars, sta,
                   condtion, fromMnld, nmea>>

\* gps_state_done: every descriptor is closed.
gps_state_close ==
    /\ FGoto("dn_close", "cl_epo")
    /\ fdsOpen' = FALSE
    /\ init' = FALSE
    /\ ctl' = <<>>
    /\ UNCHANGED <<hpc, epc, fwkVars, start_flag, epo_exit, thrVars, mnldVars,
                   sta, condtion, fromMnld, nmea>>

\* (Mutant: the wait for M_THREAD_EXIT is left out)
cleanup_epo_no_wait ==
    /\ FGoto("cl_epo", "cl_return")
    /\ epo_exit' = TRUE
    /\ UNCHANGED <<hpc, epc, fwkVars, init, fdsOpen, start_flag, thrVars,
                   mnldVars, sta, condtion, ctl, fromMnld, nmea>>

\* The EPO thread is told to leave and is waited for.
cleanup_epo ==
    /\ FGoto("cl_epo", "cl_epowait")
    /\ epo_exit' = TRUE
    /\ UNCHANGED <<hpc, epc, fwkVars, init, fdsOpen, start_flag, thrVars,
                   mnldVars, sta, condtion, ctl, fromMnld, nmea>>

cleanup_return ==
    /\ FGoto("cl_return", "idle")
    /\ up' = FALSE
    /\ UNCHANGED <<hpc, epc, fwStarted, engineOn, navigating, wakelock,
                   halVars, thrVars, mnldVars, sta, condtion, ctl, fromMnld,
                   nmea>>

----------------------------------------------------------------------------
(* gps_state_thread.                                                       *)

\* The sockets are bound and registered, then M_INIT is released; an error on
\* the codec socket makes the thread return without releasing anything.
thread_boot ==
    /\ \/ /\ HGoto("boot", "poll")
          /\ Release("M_INIT")
          /\ fromMnld' = <<>>
       \/ /\ "init" \in Faults
          /\ HGoto("boot", "none")
          /\ UNCHANGED <<condtion, fromMnld>>
    /\ UNCHANGED <<fpc, epc, fwkVars, halVars, thrVars, mnldVars, sta, ctl,
                   nmea>>

\* A command on the control socket.
thread_control ==
    /\ ctl # <<>>
    /\ ctl' = Tail(ctl)
    /\ \/ /\ Head(ctl) = "CMD_QUIT"
          /\ HGoto("poll", "exit")
          /\ started' = started
       \/ /\ Head(ctl) \in {"CMD_START", "CMD_STOP"}
          /\ HGoto("poll", "poll")
          /\ started' = (Head(ctl) = "CMD_START")
    /\ UNCHANGED <<fpc, epc, fwkVars, halVars, flag_unlock, mnldVars, sta,
                   condtion, fromMnld, nmea>>

\* Data on /dev/gps: the first read after flag_unlock was cleared releases
\* M_START, whoever produced the data.
thread_nmea ==
    /\ nmea
    /\ HGoto("poll", "poll")
    /\ nmea' = FALSE
    /\ IF flag_unlock
       THEN UNCHANGED <<condtion, flag_unlock>>
       ELSE /\ Release("M_START")
            /\ flag_unlock' = TRUE
    /\ UNCHANGED <<fpc, epc, fwkVars, halVars, started, mnldVars, sta, ctl,
                   fromMnld>>

\* mnld_to_gps_handler reads one datagram; the icon of a network-initiated
\* session is ignored while a session of the framework is on.
thread_mnld ==
    /\ fromMnld # <<>>
    /\ fromMnld' = Tail(fromMnld)
    /\ \/ /\ Head(fromMnld) = "MNL_DIE"
          /\ HGoto("poll", "die_endcb")
          /\ flag_unlock' = FALSE
          /\ sta' = "SESSION_END"
       \/ /\ Head(fromMnld) = "ICON_ON"
          /\ IF started THEN HGoto("poll", "poll") /\ UNCHANGED sta
             ELSE HGoto("poll", "on_cb") /\ sta' = "ENGINE_ON"
          /\ UNCHANGED flag_unlock
       \/ /\ Head(fromMnld) = "ICON_OFF"
          /\ IF started THEN HGoto("poll", "poll") /\ UNCHANGED sta
             ELSE HGoto("poll", "off_cb") /\ sta' = "ENGINE_OFF"
          /\ UNCHANGED flag_unlock
    /\ UNCHANGED <<fpc, epc, fwkVars, halVars, started, mnldVars, condtion,
                   ctl, nmea>>

\* The status_cb calls of the MNL_DIE and GPS_ICON cases.
thread_status_cb ==
    /\ \/ HGoto("die_endcb", "die_off")
       \/ HGoto("die_offcb", "die_stop")
       \/ HGoto("on_cb", "on_begin")
       \/ HGoto("on_begincb", "poll")
       \/ HGoto("off_cb", "off_end")
       \/ HGoto("off_endcb", "poll")
    /\ StatusCb
    /\ UNCHANGED <<fpc, epc, up, fwStarted, wakelock, halVars, thrVars,
                   mnldVars, sta, condtion, ctl, fromMnld, nmea>>

\* The second assignment to sta of each case.
thread_status ==
    /\ \/ HGoto("die_off", "die_offcb") /\ sta' = "ENGINE_OFF"
       \/ HGoto("on_begin", "on_begincb") /\ sta' = "SESSION_BEGIN"
       \/ HGoto("off_end", "off_endcb") /\ sta' = "SESSION_END"
    /\ UNCHANGED <<fpc, epc, fwkVars, halVars, thrVars, mnldVars, condtion,
                   ctl, fromMnld, nmea>>

\* MNL_DIE: M_STOP is released before the wakelock and start_flag are.
die_release_stop ==
    /\ HGoto("die_stop", "die_wake")
    /\ Release("M_STOP")
    /\ UNCHANGED <<fpc, epc, fwkVars, halVars, thrVars, mnldVars, sta, ctl,
                   fromMnld, nmea>>

\* (Mutant: the wakelock is not released)
die_wakelock_kept ==
    /\ HGoto("die_wake", "die_flag")
    /\ wakelock' = wakelock
    /\ UNCHANGED <<fpc, epc, up, fwStarted, engineOn, navigating, halVars,
                   thrVars, mnldVars, sta, condtion, ctl, fromMnld, nmea>>

\* (Mutant: the wakelock is released before ENGINE_OFF is reported)
die_wakelock_early ==
    /\ HGoto("die_off", "die_flag")
    /\ wakelock' = FALSE
    /\ UNCHANGED <<fpc, epc, up, fwStarted, engineOn, navigating, halVars,
                   thrVars, mnldVars, sta, condtion, ctl, fromMnld, nmea>>

die_wakelock ==
    /\ HGoto("die_wake", "die_flag")
    /\ wakelock' = FALSE
    /\ UNCHANGED <<fpc, epc, up, fwStarted, engineOn, navigating, halVars,
                   thrVars, mnldVars, sta, condtion, ctl, fromMnld, nmea>>

\* (Mutant: start_flag is not reset)
die_start_flag_kept ==
    /\ HGoto("die_flag", "poll")
    /\ start_flag' = start_flag
    /\ UNCHANGED <<fpc, epc, fwkVars, init, fdsOpen, epo_exit, thrVars,
                   mnldVars, sta, condtion, ctl, fromMnld, nmea>>

die_start_flag ==
    /\ HGoto("die_flag", "poll")
    /\ start_flag' = FALSE
    /\ UNCHANGED <<fpc, epc, fwkVars, init, fdsOpen, epo_exit, thrVars,
                   mnldVars, sta, condtion, ctl, fromMnld, nmea>>

\* EPOLLERR or EPOLLHUP on a descriptor ends the thread.
thread_epoll_error ==
    /\ "epoll" \in Faults
    /\ HGoto("poll", "exit")
    /\ UNCHANGED <<fpc, epc, fwkVars, halVars, thrVars, mnldVars, sta,
                   condtion, ctl, fromMnld, nmea>>

\* Exit: the mnld socket is closed, with what is queued in it, and M_CLEANUP
\* is released.
thread_exit ==
    /\ HGoto("exit", "none")
    /\ fromMnld' = <<>>
    /\ Release("M_CLEANUP")
    /\ UNCHANGED <<fpc, epc, fwkVars, halVars, thrVars, mnldVars, sta, ctl,
                   nmea>>

----------------------------------------------------------------------------
(* thread_epo_file_update, as far as its life cycle goes: after each sleep *)
(* it looks at the exit flag.  The first sleep is over before the creator  *)
(* has cleared the flag only if the creator is delayed by more than 100 ms *)
(* (the fault "slow").                                                     *)

epo_thread ==
    /\ epc # "none"
    /\ epc = "first" => fpc # "ep_flag" \/ "slow" \in Faults
    /\ IF epo_exit THEN epc' = "none" /\ Release("M_THREAD_EXIT")
                   ELSE epc' = "loop" /\ UNCHANGED condtion
    /\ UNCHANGED <<fpc, hpc, fwkVars, halVars, thrVars, mnldVars, sta, ctl,
                   fromMnld, nmea>>

----------------------------------------------------------------------------
(* mnld (external), as the HAL uses it.                                    *)

\* A datagram to the HAL is lost when gps_state_thread has not bound its
\* socket.
Bound == hpc \notin {"none", "boot"}
ToHal(m) ==
    /\ Len(fromMnld) < MaxQueue
    /\ fromMnld' = IF Bound THEN Append(fromMnld, m) ELSE fromMnld

\* mnld handles one command; stopping a running engine makes it report
\* MNL_DIE.
mnld_command ==
    /\ toMnld # <<>>
    /\ toMnld' = Tail(toMnld)
    /\ \/ /\ Head(toMnld) \in {"STOP", "CLEANUP"} /\ mnl
          /\ mnl' = FALSE
          /\ ToHal("MNL_DIE")
       \/ /\ Head(toMnld) = "START"
          /\ mnl' = TRUE
          /\ UNCHANGED fromMnld
       \/ /\ Head(toMnld) = "INIT" \/ (Head(toMnld) # "START" /\ ~mnl)
          /\ UNCHANGED <<mnl, fromMnld>>
    /\ UNCHANGED <<fpc, hpc, epc, fwkVars, halVars, thrVars, ni, sta,
                   condtion, ctl, nmea>>

\* The running engine writes sentences to /dev/gps.
mnld_nmea ==
    /\ mnl
    /\ ~nmea
    /\ nmea' = TRUE
    /\ UNCHANGED <<fpc, hpc, epc, fwkVars, halVars, thrVars, mnldVars, sta,
                   condtion, ctl, fromMnld>>

\* The engine dies by itself and mnld reports it.
mnld_crash ==
    /\ "crash" \in Faults /\ mnl
    /\ mnl' = FALSE
    /\ ToHal("MNL_DIE")
    /\ UNCHANGED <<fpc, hpc, epc, fwkVars, halVars, thrVars, ni, toMnld, sta,
                   condtion, ctl, nmea>>

\* A network-initiated session begins or ends.
mnld_icon ==
    /\ "ni" \in Faults
    /\ ni' = ~ni
    /\ ToHal(IF ni THEN "ICON_OFF" ELSE "ICON_ON")
    /\ UNCHANGED <<fpc, hpc, epc, fwkVars, halVars, thrVars, mnl, toMnld, sta,
                   condtion, ctl, nmea>>

----------------------------------------------------------------------------
Init ==
    /\ fpc = "idle" /\ hpc = "none" /\ epc = "none"
    /\ up = FALSE /\ fwStarted = FALSE
    /\ engineOn = FALSE /\ navigating = FALSE /\ wakelock = FALSE
    /\ init = FALSE /\ fdsOpen = FALSE /\ start_flag = FALSE
    /\ epo_exit = FALSE
    /\ started = FALSE /\ flag_unlock = FALSE
    /\ mnl = FALSE /\ ni = FALSE /\ toMnld = <<>>
    /\ sta = "NONE"
    /\ condtion = [l \in Locks |-> FALSE]
    /\ ctl = <<>> /\ fromMnld = <<>>
    /\ nmea = FALSE

\* What the framework thread does once it is inside a call.
FrameworkStep ==
    \/ get_condition
    \/ mtk_gps_init_done \/ epo_interface_create \/ epo_interface_flag
    \/ start_spin \/ mtk_start \/ gps_state_start \/ start_status
    \/ start_status_cb \/ start_wakelock \/ start_clear_stop \/ start_return
    \/ stop_spin \/ mtk_stop \/ gps_state_stop
    \/ cleanup_check \/ cleanup_clear \/ gps_state_done \/ gps_state_close
    \/ cleanup_epo \/ cleanup_return

\* The calls the framework chooses to make.
FrameworkCall ==
    \/ gps_state_init \/ gps_state_init_fails
    \/ start_call \/ stop_call \/ mtk_cleanup

HalThread ==
    \/ thread_boot \/ thread_control \/ thread_nmea \/ thread_mnld
    \/ thread_status_cb \/ thread_status \/ die_release_stop \/ die_wakelock
    \/ die_start_flag \/ thread_exit

Mnld == mnld_command \/ mnld_nmea \/ mnld_crash \/ mnld_icon

Next == FrameworkStep \/ FrameworkCall \/ HalThread \/ thread_epoll_error
        \/ epo_thread \/ Mnld

Spec == Init /\ [][Next]_vars

\* Every thread is scheduled; epoll reports each ready descriptor in turn, so
\* none is passed over for ever; a reliable mnld answers commands and its
\* engine produces sentences.
Fairness ==
    /\ WF_vars(FrameworkStep)
    /\ WF_vars(HalThread)
    /\ SF_vars(thread_control) /\ SF_vars(thread_nmea) /\ SF_vars(thread_mnld)
    /\ WF_vars(epo_thread)
    /\ WF_vars(mnld_command) /\ WF_vars(mnld_nmea)

LiveSpec == Spec /\ Fairness

----------------------------------------------------------------------------
(* Properties.                                                             *)

FrameworkPoints == {
    "idle", "in_wait", "in_failwait", "in_done", "ep_create", "ep_flag",
    "st_spin", "st_send", "st_wait", "st_ctl", "st_on", "st_oncb",
    "st_begin", "st_begincb", "st_wake", "st_clear", "st_flag",
    "sp_spin", "sp_send", "sp_ctl", "cl_check", "cl_wait", "cl_clear",
    "dn_quit", "dn_wait", "dn_close", "cl_epo", "cl_epowait", "cl_return" }

ThreadPoints == {
    "none", "boot", "poll", "die_endcb", "die_off", "die_offcb", "die_stop",
    "die_wake", "die_flag", "on_cb", "on_begin", "on_begincb", "off_cb",
    "off_end", "off_endcb", "exit" }

PointsOK ==
    /\ fpc \in FrameworkPoints /\ hpc \in ThreadPoints
    /\ epc \in {"none", "first", "loop"}
    /\ sta \in Status
    /\ nmea \in BOOLEAN

FlagsOK ==
    /\ up \in BOOLEAN /\ fwStarted \in BOOLEAN
    /\ engineOn \in BOOLEAN /\ navigating \in BOOLEAN /\ wakelock \in BOOLEAN
    /\ init \in BOOLEAN /\ fdsOpen \in BOOLEAN /\ start_flag \in BOOLEAN
    /\ epo_exit \in BOOLEAN
    /\ started \in BOOLEAN /\ flag_unlock \in BOOLEAN
    /\ mnl \in BOOLEAN /\ ni \in BOOLEAN

Commands == {"CMD_START", "CMD_STOP", "CMD_QUIT"}
ToMnld   == {"INIT", "START", "STOP", "CLEANUP"}
FromMnld == {"MNL_DIE", "ICON_ON", "ICON_OFF"}

QueuesOK ==
    /\ ctl \in Seq(Commands) /\ Len(ctl) <= MaxQueue
    /\ toMnld \in Seq(ToMnld) /\ Len(toMnld) <= MaxQueue
    /\ fromMnld \in Seq(FromMnld) /\ Len(fromMnld) <= MaxQueue

SignalsOK == condtion \in [Locks -> BOOLEAN]

\* Every variable holds a value of the C type or enumeration it stands for,
\* and no socket holds more than its capacity.
TypeOK == PointsOK /\ FlagsOK /\ QueuesOK /\ SignalsOK

\* gps_state_done closes the descriptors only once gps_state_thread has left
\* its loop: the thread never polls, reads or writes a closed (and perhaps
\* reused) descriptor, whatever fails.
ThreadGoneBeforeClose == ~fdsOpen => hpc = "none"

\* When mtk_gps_cleanup has returned, neither gps_state_thread nor the EPO
\* thread is running, so the next mtk_gps_init never meets a thread of the
\* previous one.
NoThreadOutlivesCleanup ==
    fpc = "idle" /\ ~up => hpc = "none" /\ epc = "none"

\* Why: M_CLEANUP and M_THREAD_EXIT are pending only when their thread has
\* gone, no thread exists where none was created, and once its signal has been
\* consumed by gps_state_done or mtk_gps_cleanup there is no other.
ThreadHandshake ==
    /\ condtion["M_CLEANUP"] => hpc = "none"
    /\ condtion["M_THREAD_EXIT"] => epc = "none"
    /\ \/ fpc = "idle" /\ ~up
       \/ fpc \in {"in_failwait", "dn_close", "cl_epo", "cl_epowait",
                   "cl_return"}
       => hpc = "none" /\ ~condtion["M_CLEANUP"]
    /\ \/ fpc = "idle" /\ ~up
       \/ fpc \in {"in_wait", "in_failwait", "in_done", "ep_create",
                   "cl_return"}
       => epc = "none" /\ ~condtion["M_THREAD_EXIT"]
    /\ fpc \notin {"idle", "in_wait", "in_failwait", "in_done", "ep_create",
                   "ep_flag"} => up

\* Nobody is in the middle of anything: no call, no message, no handler.
Quiescent ==
    /\ fpc = "idle" /\ hpc = "poll"
    /\ ctl = <<>> /\ toMnld = <<>> /\ fromMnld = <<>>

\* At rest, the threads, mnld and the framework agree on whether a session is
\* on: start_flag, started, the engine, the reported status and the wakelock;
\* and the EPO thread is there, which a stale thread_epo_exit_flag of the last
\* cleanup has not ended.
SessionAgreement ==
    Quiescent =>
        /\ start_flag = fwStarted /\ started = fwStarted /\ mnl = fwStarted
        /\ engineOn = fwStarted /\ navigating = fwStarted
        /\ wakelock = fwStarted
        /\ epc # "none"

\* mtk_gps_cleanup leaves no trace of a session that a following init would
\* inherit: the statics are cleared, no signal is pending (M_START excepted,
\* which late data of the engine may release), the engine is off and the wakelock released.
CleanupLeavesNothing ==
    fpc = "idle" /\ ~up =>
        /\ ~start_flag /\ ~started /\ ~mnl /\ ~wakelock
        /\ ~engineOn /\ ~navigating
        /\ \A l \in Locks \ {"M_START"} : ~condtion[l]
        /\ fromMnld = <<>>

\* The wakelock is released only after status_cb has reported the end of the
\* session and of the engine (HAL_CMD_MNL_DIE).
WakelockCoversSession ==
    [][wakelock /\ ~wakelock' => ~engineOn /\ ~navigating]_vars

\* Every call of the framework returns: no spin loop and no get_condition
\* waits for something that never happens.
CallsReturn == fpc # "idle" ~> fpc = "idle"

\* Seen through the framework's eyes, the HAL is GpsContract: each session is
\* reported in order, ends only after stop was called for it, and begins only
\* when the last one is over; under LiveSpec each one also makes progress.
\* A stop is pending from the call until MNL_DIE has cleared start_flag; start
\* may be called meanwhile and spins.
stopPending == start_flag /\ (~fwStarted \/ fpc = "st_spin")

Contract == INSTANCE GpsContract WITH asked <- fwStarted,
                                      stopping <- stopPending
KeepsContract == Contract!FairCSpec

\* "HAL_CMD_MNL_DIE has been receiving from MNLD, release lock let stop done":
\* a call of mtk_gps_stop ends.
StopIsDone == fpc = "sp_spin" ~> fpc = "idle"
=============================================================================

---------------------------- MODULE GpsHalProofs ----------------------------
(***************************************************************************)
(* Theorems about GpsHal, for every socket capacity.                       *)
(*                                                                         *)
(* For every set of faults: the type invariant, proved part by part,       *)
(* because the provers treat program points, Boolean flags and sequences   *)
(* best on their own; and what the threads promise each other, from        *)
(* ThreadHandshake, which is inductive with the type of the signals.       *)
(*                                                                         *)
(* Without faults: what a session leaves behind and what the framework     *)
(* sees of it (SessionAgreement, CleanupLeavesNothing,                     *)
(* WakelockCoversSession and GpsContract), from SessionInv.                *)
(***************************************************************************)
EXTENDS GpsHal, SequenceTheorems, TLAPS

----------------------------------------------------------------------------
(* Sockets: what a send, a receive and a close do to a bounded queue.      *)

\* A datagram written to a socket that is not full leaves it within its
\* capacity (mtk_daemon_send, and write on the control socket pair).
LEMMA AppendOK ==
    ASSUME NEW S, NEW q \in Seq(S), NEW m \in S, Len(q) < MaxQueue
    PROVE  Append(q, m) \in Seq(S) /\ Len(Append(q, m)) <= MaxQueue
BY ConstantsAssumption

\* Reading the oldest datagram keeps the queue within its capacity (the read
\* of gps_state_thread).
LEMMA TailOK ==
    ASSUME NEW S, NEW q \in Seq(S), q # <<>>, Len(q) <= MaxQueue
    PROVE  Tail(q) \in Seq(S) /\ Len(Tail(q)) <= MaxQueue
BY ConstantsAssumption

\* A socket that was just created or closed is within its capacity
\* (gps_state_init, gps_state_done).
LEMMA EmptyOK ==
    ASSUME NEW S
    PROVE  << >> \in Seq(S) /\ Len(<< >>) <= MaxQueue
BY ConstantsAssumption

----------------------------------------------------------------------------
(* The parts of the type invariant, step by step.                          *)

\* No step of a thread leaves its program, and sta and nmea
\* keep to their types.
LEMMA PointsStep ==
    ASSUME PointsOK, [Next]_vars
    PROVE  PointsOK'
<1> USE DEF PointsOK, FrameworkPoints, ThreadPoints, Status, FGoto, HGoto
<1>1. CASE get_condition
  BY <1>1 DEF get_condition, Waits, fwkVars, halVars, thrVars, mnldVars
<1>2. CASE mtk_gps_init_done \/ epo_interface_create \/ epo_interface_flag \/
           gps_state_init \/ gps_state_init_fails
  BY <1>2 DEF mtk_gps_init_done, fwkVars, thrVars, mnldVars,
       epo_interface_create, halVars, epo_interface_flag, gps_state_init,
       Send, gps_state_init_fails
<1>3. CASE start_call \/ start_spin \/ mtk_start \/ gps_state_start \/
           start_status \/ start_status_cb \/ start_wakelock \/
           start_clear_stop \/ start_return
  BY <1>3 DEF start_call, halVars, thrVars, mnldVars, start_spin, fwkVars,
       mtk_start, Send, SendFails, gps_state_start, Control, start_status,
       start_status_cb, StatusCb, start_wakelock, start_clear_stop,
       start_return
<1>4. CASE stop_call \/ stop_spin \/ mtk_stop \/ gps_state_stop
  BY <1>4 DEF stop_call, halVars, thrVars, mnldVars, stop_spin, fwkVars,
       mtk_stop, Send, SendFails, gps_state_stop, Control
<1>5. CASE mtk_cleanup \/ cleanup_check \/ cleanup_clear \/ gps_state_done \/
           gps_state_close \/ cleanup_epo \/ cleanup_return
  BY <1>5 DEF mtk_cleanup, Send, SendFails, fwkVars, halVars, thrVars,
       cleanup_check, mnldVars, cleanup_clear, gps_state_done, Control,
       gps_state_close, cleanup_epo, cleanup_return
<1>6. CASE thread_boot \/ thread_control \/ thread_nmea \/ thread_mnld \/
           thread_epoll_error \/ thread_exit
  BY <1>6 DEF thread_boot, fwkVars, halVars, thrVars, mnldVars,
       thread_control, thread_nmea, thread_mnld, thread_epoll_error,
       thread_exit
<1>7. CASE thread_status_cb \/ thread_status \/ die_release_stop \/
           die_wakelock \/ die_start_flag
  BY <1>7 DEF thread_status_cb, StatusCb, halVars, thrVars, mnldVars,
       thread_status, fwkVars, die_release_stop, die_wakelock, die_start_flag
<1>8. CASE epo_thread
  BY <1>8 DEF epo_thread, fwkVars, halVars, thrVars, mnldVars
<1>9. CASE mnld_command \/ mnld_nmea \/ mnld_crash \/ mnld_icon
  BY <1>9 DEF mnld_command, ToHal, fwkVars, halVars, thrVars, Bound,
       mnld_nmea, mnldVars, mnld_crash, mnld_icon
<1>10. CASE UNCHANGED vars
  BY <1>10 DEF vars, fwkVars, halVars, thrVars, mnldVars
<1> QED
  BY <1>1, <1>2, <1>3, <1>4, <1>5, <1>6, <1>7, <1>8, <1>9, <1>10 DEF Next,
       FrameworkStep, FrameworkCall, HalThread, Mnld

\* Every assignment to a flag assigns a Boolean.
LEMMA FlagsStep ==
    ASSUME FlagsOK, [Next]_vars
    PROVE  FlagsOK'
<1> USE DEF FlagsOK
<1>1. CASE mtk_gps_init_done
  BY <1>1, ZenonT(60) DEF mtk_gps_init_done, fwkVars, thrVars, mnldVars
<1>2. CASE epo_interface_create
  <2>1. up' \in BOOLEAN
    BY <1>2, Zenon DEF epo_interface_create
  <2> QED
    BY <1>2, <2>1 DEF epo_interface_create, halVars, thrVars, mnldVars
<1>3. CASE epo_interface_flag
  BY <1>3, Zenon DEF epo_interface_flag, thrVars, mnldVars
<1>4. CASE mtk_start
  <2>1. fwStarted' \in BOOLEAN
    BY <1>4, Zenon DEF mtk_start
  <2> QED
    BY <1>4, <2>1 DEF mtk_start, halVars, thrVars
<1>5. CASE start_status_cb
  BY <1>5, Zenon DEF start_status_cb, StatusCb, halVars, thrVars, mnldVars
<1>6. CASE start_wakelock
  BY <1>6, ZenonT(60) DEF start_wakelock, halVars, thrVars, mnldVars
<1>7. CASE start_return
  BY <1>7, ZenonT(60) DEF start_return, fwkVars, thrVars, mnldVars
<1>8. CASE gps_state_close
  BY <1>8, Zenon DEF gps_state_close, fwkVars, thrVars, mnldVars
<1>9. CASE cleanup_epo
  BY <1>9, ZenonT(60) DEF cleanup_epo, fwkVars, thrVars, mnldVars
<1>10. CASE cleanup_return
  BY <1>10, ZenonT(60) DEF cleanup_return, halVars, thrVars, mnldVars
<1>11. CASE gps_state_init
  BY <1>11, Zenon DEF gps_state_init, fwkVars, thrVars
<1>12. CASE gps_state_init_fails
  <2>1. fdsOpen' \in BOOLEAN
    BY <1>12, Zenon DEF gps_state_init_fails
  <2> QED
    BY <1>12, <2>1 DEF gps_state_init_fails, fwkVars, thrVars
<1>13. CASE start_call
  BY <1>13, Zenon DEF start_call, halVars, thrVars, mnldVars
<1>14. CASE stop_call
  BY <1>14, Zenon DEF stop_call, halVars, thrVars, mnldVars
<1>15. CASE thread_control
  <2>1. started' \in BOOLEAN
    BY <1>15, Zenon DEF thread_control
  <2> QED
    BY <1>15, <2>1 DEF thread_control, fwkVars, halVars, mnldVars
<1>16. CASE thread_nmea
  <2>1. flag_unlock' \in BOOLEAN
    <3>1. CASE flag_unlock
      BY <1>16, <3>1, Zenon DEF thread_nmea
    <3>2. CASE ~flag_unlock
      BY <1>16, <3>2, Zenon DEF thread_nmea
    <3> QED
      BY <3>1, <3>2
  <2> QED
    BY <1>16, <2>1, ZenonT(60) DEF thread_nmea, fwkVars, halVars, mnldVars
<1>17. CASE thread_mnld
  <2>1. flag_unlock' \in BOOLEAN
    BY <1>17, Zenon DEF thread_mnld
  <2> QED
    BY <1>17, <2>1 DEF thread_mnld, fwkVars, halVars, mnldVars
<1>18. CASE thread_status_cb
  BY <1>18, Zenon DEF thread_status_cb, StatusCb, halVars, thrVars, mnldVars
<1>19. CASE die_wakelock
  BY <1>19, ZenonT(60) DEF die_wakelock, halVars, thrVars, mnldVars
<1>20. CASE die_start_flag
  BY <1>20, ZenonT(60) DEF die_start_flag, fwkVars, thrVars, mnldVars
<1>21. CASE mnld_command
  <2>1. mnl' \in BOOLEAN
    BY <1>21, Zenon DEF mnld_command
  <2> QED
    BY <1>21, <2>1 DEF mnld_command, fwkVars, halVars, thrVars
<1>22. CASE mnld_crash
  BY <1>22, ZenonT(60) DEF mnld_crash, fwkVars, halVars, thrVars
<1>23. CASE mnld_icon
  BY <1>23, ZenonT(60) DEF mnld_icon, fwkVars, halVars, thrVars
<1>24. CASE get_condition \/ start_spin \/ gps_state_start \/ start_status \/
           start_clear_stop \/ stop_spin \/ mtk_stop \/ gps_state_stop \/
           cleanup_check \/ cleanup_clear \/ gps_state_done \/ mtk_cleanup \/
           thread_boot \/ thread_status \/ die_release_stop \/ thread_exit \/
           thread_epoll_error \/ epo_thread \/ mnld_nmea \/ UNCHANGED vars
  <2> UNCHANGED <<fwkVars, halVars, thrVars, mnl, ni>>
    BY <1>24 DEF get_condition, fwkVars, halVars, thrVars, mnldVars,
         start_spin, gps_state_start, start_status, start_clear_stop,
         stop_spin, mtk_stop, gps_state_stop, cleanup_check, cleanup_clear,
         gps_state_done, mtk_cleanup, thread_boot, thread_status,
         die_release_stop, thread_exit, thread_epoll_error, epo_thread,
         mnld_nmea, vars
  <2> QED
    BY DEF fwkVars, halVars, thrVars
<1> QED
  BY <1>1, <1>2, <1>3, <1>4, <1>5, <1>6, <1>7, <1>8, <1>9, <1>10, <1>11,
       <1>12, <1>13, <1>14, <1>15, <1>16, <1>17, <1>18, <1>19, <1>20, <1>21,
       <1>22, <1>23, <1>24 DEF Next, FrameworkStep, FrameworkCall, HalThread,
       Mnld

\* No socket ever holds more than its capacity or a message of another socket.
LEMMA QueuesStep ==
    ASSUME QueuesOK, [Next]_vars
    PROVE  QueuesOK'
<1> USE DEF QueuesOK
<1>1. CASE mtk_start
  BY <1>1, AppendOK, TailOK, EmptyOK DEF Commands, ToMnld, FromMnld,
       mtk_start, Send, SendFails, halVars, thrVars
<1>2. CASE gps_state_start
  BY <1>2, AppendOK, TailOK, EmptyOK DEF Commands, ToMnld, FromMnld,
       gps_state_start, Control, fwkVars, halVars, thrVars, mnldVars
<1>3. CASE mtk_stop
  BY <1>3, AppendOK, TailOK, EmptyOK DEF Commands, ToMnld, FromMnld,
       mtk_stop, Send, SendFails, fwkVars, halVars, thrVars
<1>4. CASE gps_state_stop
  BY <1>4, AppendOK, TailOK, EmptyOK DEF Commands, ToMnld, FromMnld,
       gps_state_stop, Control, fwkVars, halVars, thrVars, mnldVars
<1>5. CASE gps_state_done
  BY <1>5, AppendOK, TailOK, EmptyOK DEF Commands, ToMnld, FromMnld,
       gps_state_done, Control, fwkVars, halVars, thrVars, mnldVars
<1>6. CASE gps_state_close
  BY <1>6, AppendOK, TailOK, EmptyOK DEF Commands, ToMnld, FromMnld,
       gps_state_close, fwkVars, thrVars, mnldVars
<1>7. CASE gps_state_init
  BY <1>7, AppendOK, TailOK, EmptyOK DEF Commands, ToMnld, FromMnld,
       gps_state_init, Send, fwkVars, thrVars
<1>8. CASE gps_state_init_fails
  BY <1>8, AppendOK, TailOK, EmptyOK DEF Commands, ToMnld, FromMnld,
       gps_state_init_fails, Send, fwkVars, thrVars
<1>9. CASE mtk_cleanup
  BY <1>9, AppendOK, TailOK, EmptyOK DEF Commands, ToMnld, FromMnld,
       mtk_cleanup, Send, SendFails, fwkVars, halVars, thrVars
<1>10. CASE thread_boot
  BY <1>10, AppendOK, TailOK, EmptyOK DEF Commands, ToMnld, FromMnld,
       thread_boot, fwkVars, halVars, thrVars, mnldVars
<1>11. CASE thread_control
  BY <1>11, AppendOK, TailOK, EmptyOK DEF Commands, ToMnld, FromMnld,
       thread_control, fwkVars, halVars, mnldVars
<1>12. CASE thread_mnld
  BY <1>12, AppendOK, TailOK, EmptyOK DEF Commands, ToMnld, FromMnld,
       thread_mnld, fwkVars, halVars, mnldVars
<1>13. CASE thread_exit
  BY <1>13, AppendOK, TailOK, EmptyOK DEF Commands, ToMnld, FromMnld,
       thread_exit, fwkVars, halVars, thrVars, mnldVars
<1>14. CASE mnld_command
  BY <1>14, AppendOK, TailOK, EmptyOK DEF Commands, ToMnld, FromMnld,
       mnld_command, ToHal, fwkVars, halVars, thrVars, Bound
<1>15. CASE mnld_crash
  BY <1>15, AppendOK, TailOK, EmptyOK DEF Commands, ToMnld, FromMnld,
       mnld_crash, ToHal, fwkVars, halVars, thrVars, Bound
<1>16. CASE mnld_icon
  BY <1>16, AppendOK, TailOK, EmptyOK DEF Commands, ToMnld, FromMnld,
       mnld_icon, ToHal, fwkVars, halVars, thrVars, Bound
<1>17. CASE get_condition \/ mtk_gps_init_done \/ epo_interface_create \/
           epo_interface_flag \/ start_spin \/ start_status \/
           start_status_cb \/ start_wakelock \/ start_clear_stop \/
           start_return \/ stop_spin \/ cleanup_check \/ cleanup_clear \/
           cleanup_epo \/ cleanup_return \/ start_call \/ stop_call \/
           thread_nmea \/ thread_status_cb \/ thread_status \/
           die_release_stop \/ die_wakelock \/ die_start_flag \/
           thread_epoll_error \/ epo_thread \/ mnld_nmea \/ UNCHANGED vars
  <2> UNCHANGED <<ctl, toMnld, fromMnld>>
    BY <1>17 DEF get_condition, Waits, fwkVars, halVars, thrVars, mnldVars,
         mtk_gps_init_done, epo_interface_create, epo_interface_flag,
         start_spin, start_status, start_status_cb, start_wakelock,
         start_clear_stop, start_return, stop_spin, cleanup_check,
         cleanup_clear, cleanup_epo, cleanup_return, start_call, stop_call,
         thread_nmea, thread_status_cb, thread_status, die_release_stop,
         die_wakelock, die_start_flag, thread_epoll_error, epo_thread,
         mnld_nmea, vars
  <2> QED
    OBVIOUS
<1> QED
  BY <1>1, <1>2, <1>3, <1>4, <1>5, <1>6, <1>7, <1>8, <1>9, <1>10, <1>11,
       <1>12, <1>13, <1>14, <1>15, <1>16, <1>17 DEF Next, FrameworkStep,
       FrameworkCall, HalThread, Mnld

\* get_condition and release_condition set conditions to truth values only.
LEMMA SignalsStep ==
    ASSUME SignalsOK, [Next]_vars
    PROVE  SignalsOK'
<1> USE DEF SignalsOK, Locks, Release
<1>1. CASE get_condition
  BY <1>1 DEF get_condition, Waits, fwkVars, halVars, thrVars, mnldVars
<1>2. CASE mtk_gps_init_done \/ epo_interface_create \/ epo_interface_flag \/
           gps_state_init \/ gps_state_init_fails
  BY <1>2 DEF mtk_gps_init_done, fwkVars, thrVars, mnldVars,
       epo_interface_create, halVars, epo_interface_flag, gps_state_init,
       Send, gps_state_init_fails
<1>3. CASE start_call \/ start_spin \/ mtk_start \/ gps_state_start \/
           start_status \/ start_status_cb \/ start_wakelock \/
           start_clear_stop \/ start_return
  BY <1>3 DEF start_call, halVars, thrVars, mnldVars, start_spin, fwkVars,
       mtk_start, Send, SendFails, gps_state_start, Control, start_status,
       start_status_cb, StatusCb, start_wakelock, start_clear_stop,
       start_return
<1>4. CASE stop_call \/ stop_spin \/ mtk_stop \/ gps_state_stop
  BY <1>4 DEF stop_call, halVars, thrVars, mnldVars, stop_spin, fwkVars,
       mtk_stop, Send, SendFails, gps_state_stop, Control
<1>5. CASE mtk_cleanup \/ cleanup_check \/ cleanup_clear \/ gps_state_done \/
           gps_state_close \/ cleanup_epo \/ cleanup_return
  BY <1>5 DEF mtk_cleanup, Send, SendFails, fwkVars, halVars, thrVars,
       cleanup_check, mnldVars, cleanup_clear, gps_state_done, Control,
       gps_state_close, cleanup_epo, cleanup_return
<1>6. CASE thread_boot \/ thread_control \/ thread_nmea \/ thread_mnld \/
           thread_epoll_error \/ thread_exit
  BY <1>6 DEF thread_boot, fwkVars, halVars, thrVars, mnldVars,
       thread_control, thread_nmea, thread_mnld, thread_epoll_error,
       thread_exit
<1>7. CASE thread_status_cb \/ thread_status \/ die_release_stop \/
           die_wakelock \/ die_start_flag
  BY <1>7 DEF thread_status_cb, StatusCb, halVars, thrVars, mnldVars,
       thread_status, fwkVars, die_release_stop, die_wakelock, die_start_flag
<1>8. CASE epo_thread
  BY <1>8 DEF epo_thread, fwkVars, halVars, thrVars, mnldVars
<1>9. CASE mnld_command \/ mnld_nmea \/ mnld_crash \/ mnld_icon
  BY <1>9 DEF mnld_command, ToHal, fwkVars, halVars, thrVars, Bound,
       mnld_nmea, mnldVars, mnld_crash, mnld_icon
<1>10. CASE UNCHANGED vars
  BY <1>10 DEF vars, fwkVars, halVars, thrVars, mnldVars
<1> QED
  BY <1>1, <1>2, <1>3, <1>4, <1>5, <1>6, <1>7, <1>8, <1>9, <1>10 DEF Next,
       FrameworkStep, FrameworkCall, HalThread, Mnld

\* GpsHal is type correct: in every reachable state every variable of the HAL
\* holds a value of its C type, and the sockets are within their capacity.
THEOREM TypeCorrect == Spec => []TypeOK
<1>1. Init => TypeOK
  <2> SUFFICES ASSUME Init PROVE TypeOK
    OBVIOUS
  <2>1. PointsOK
    BY DEF Init, PointsOK, FrameworkPoints, ThreadPoints, Status
  <2>2. FlagsOK
    BY Zenon DEF Init, FlagsOK
  <2>3. QueuesOK
    BY EmptyOK DEF Init, QueuesOK
  <2>4. SignalsOK
    BY Zenon DEF Init, SignalsOK
  <2> QED
    BY <2>1, <2>2, <2>3, <2>4 DEF TypeOK
<1>2. TypeOK /\ [Next]_vars => TypeOK'
  BY PointsStep, FlagsStep, QueuesStep, SignalsStep DEF TypeOK
<1> QED
  BY <1>1, <1>2, PTL DEF Spec

----------------------------------------------------------------------------
(* The threads and the signals that announce their end.                    *)

\* Every step preserves the handshake between the framework thread and the two
\* threads it creates and waits for (gps_state_done, mtk_gps_cleanup).
LEMMA HandshakeStep ==
    ASSUME SignalsOK, ThreadHandshake, [Next]_vars
    PROVE  ThreadHandshake'
<1> USE DEF SignalsOK, ThreadHandshake, Locks, Release, FGoto, HGoto
<1>1. CASE get_condition
  BY <1>1 DEF get_condition, Waits, fwkVars, halVars, thrVars, mnldVars
<1>2. CASE mtk_gps_init_done \/ epo_interface_create \/ epo_interface_flag \/
           gps_state_init \/ gps_state_init_fails
  BY <1>2 DEF mtk_gps_init_done, fwkVars, thrVars, mnldVars,
       epo_interface_create, halVars, epo_interface_flag, gps_state_init,
       Send, gps_state_init_fails
<1>3. CASE start_call \/ start_spin \/ mtk_start \/ gps_state_start \/
           start_status \/ start_status_cb \/ start_wakelock \/
           start_clear_stop \/ start_return
  BY <1>3 DEF start_call, halVars, thrVars, mnldVars, start_spin, fwkVars,
       mtk_start, Send, SendFails, gps_state_start, Control, start_status,
       start_status_cb, StatusCb, start_wakelock, start_clear_stop,
       start_return
<1>4. CASE stop_call \/ stop_spin \/ mtk_stop \/ gps_state_stop
  BY <1>4 DEF stop_call, halVars, thrVars, mnldVars, stop_spin, fwkVars,
       mtk_stop, Send, SendFails, gps_state_stop, Control
<1>5. CASE mtk_cleanup \/ cleanup_check \/ cleanup_clear \/ gps_state_done \/
           gps_state_close \/ cleanup_epo \/ cleanup_return
  BY <1>5 DEF mtk_cleanup, Send, SendFails, fwkVars, halVars, thrVars,
       cleanup_check, mnldVars, cleanup_clear, gps_state_done, Control,
       gps_state_close, cleanup_epo, cleanup_return
<1>6. CASE thread_boot \/ thread_control \/ thread_nmea \/ thread_mnld \/
           thread_epoll_error \/ thread_exit
  BY <1>6 DEF thread_boot, fwkVars, halVars, thrVars, mnldVars,
       thread_control, thread_nmea, thread_mnld, thread_epoll_error,
       thread_exit
<1>7. CASE thread_status_cb \/ thread_status \/ die_release_stop \/
           die_wakelock \/ die_start_flag
  BY <1>7 DEF thread_status_cb, StatusCb, halVars, thrVars, mnldVars,
       thread_status, fwkVars, die_release_stop, die_wakelock, die_start_flag
<1>8. CASE epo_thread
  BY <1>8 DEF epo_thread, fwkVars, halVars, thrVars, mnldVars
<1>9. CASE mnld_command \/ mnld_nmea \/ mnld_crash \/ mnld_icon
  BY <1>9 DEF mnld_command, ToHal, fwkVars, halVars, thrVars, Bound,
       mnld_nmea, mnldVars, mnld_crash, mnld_icon
<1>10. CASE UNCHANGED vars
  BY <1>10 DEF vars, fwkVars, halVars, thrVars, mnldVars
<1> QED
  BY <1>1, <1>2, <1>3, <1>4, <1>5, <1>6, <1>7, <1>8, <1>9, <1>10 DEF Next,
       FrameworkStep, FrameworkCall, HalThread, Mnld

\* Given the handshake, no step closes the descriptors under the native
\* thread (gps_state_done) or starts the thread without them.
LEMMA CloseStep ==
    ASSUME ThreadGoneBeforeClose, ThreadHandshake, [Next]_vars
    PROVE  ThreadGoneBeforeClose'
<1> USE DEF ThreadGoneBeforeClose, ThreadHandshake, FGoto, HGoto
<1>1. CASE get_condition
  BY <1>1 DEF get_condition, Waits, fwkVars, halVars, thrVars, mnldVars
<1>2. CASE mtk_gps_init_done \/ epo_interface_create \/ epo_interface_flag \/
           gps_state_init \/ gps_state_init_fails
  BY <1>2 DEF mtk_gps_init_done, fwkVars, thrVars, mnldVars,
       epo_interface_create, halVars, epo_interface_flag, gps_state_init,
       Send, gps_state_init_fails
<1>3. CASE start_call \/ start_spin \/ mtk_start \/ gps_state_start \/
           start_status \/ start_status_cb \/ start_wakelock \/
           start_clear_stop \/ start_return
  BY <1>3 DEF start_call, halVars, thrVars, mnldVars, start_spin, fwkVars,
       mtk_start, Send, SendFails, gps_state_start, Control, start_status,
       start_status_cb, StatusCb, start_wakelock, start_clear_stop,
       start_return
<1>4. CASE stop_call \/ stop_spin \/ mtk_stop \/ gps_state_stop
  BY <1>4 DEF stop_call, halVars, thrVars, mnldVars, stop_spin, fwkVars,
       mtk_stop, Send, SendFails, gps_state_stop, Control
<1>5. CASE mtk_cleanup \/ cleanup_check \/ cleanup_clear \/ gps_state_done \/
           gps_state_close \/ cleanup_epo \/ cleanup_return
  BY <1>5 DEF mtk_cleanup, Send, SendFails, fwkVars, halVars, thrVars,
       cleanup_check, mnldVars, cleanup_clear, gps_state_done, Control,
       gps_state_close, cleanup_epo, cleanup_return
<1>6. CASE thread_boot \/ thread_control \/ thread_nmea \/ thread_mnld \/
           thread_epoll_error \/ thread_exit
  BY <1>6 DEF thread_boot, fwkVars, halVars, thrVars, mnldVars,
       thread_control, thread_nmea, thread_mnld, thread_epoll_error,
       thread_exit
<1>7. CASE thread_status_cb \/ thread_status \/ die_release_stop \/
           die_wakelock \/ die_start_flag
  BY <1>7 DEF thread_status_cb, StatusCb, halVars, thrVars, mnldVars,
       thread_status, fwkVars, die_release_stop, die_wakelock, die_start_flag
<1>8. CASE epo_thread
  BY <1>8 DEF epo_thread, fwkVars, halVars, thrVars, mnldVars
<1>9. CASE mnld_command \/ mnld_nmea \/ mnld_crash \/ mnld_icon
  BY <1>9 DEF mnld_command, ToHal, fwkVars, halVars, thrVars, Bound,
       mnld_nmea, mnldVars, mnld_crash, mnld_icon
<1>10. CASE UNCHANGED vars
  BY <1>10 DEF vars, fwkVars, halVars, thrVars, mnldVars
<1> QED
  BY <1>1, <1>2, <1>3, <1>4, <1>5, <1>6, <1>7, <1>8, <1>9, <1>10 DEF Next,
       FrameworkStep, FrameworkCall, HalThread, Mnld

\* M_CLEANUP and M_THREAD_EXIT announce the end of their threads, and neither
\* is pending when a new thread is created.
THEOREM HandshakeHolds == Spec => []ThreadHandshake
<1>1. Init => ThreadHandshake
  BY DEF Init, ThreadHandshake, Locks
<1>2. TypeOK /\ ThreadHandshake /\ [Next]_vars => ThreadHandshake'
  BY HandshakeStep DEF TypeOK
<1> QED
  BY <1>1, <1>2, TypeCorrect, PTL DEF Spec

\* gps_state_done never closes a descriptor that gps_state_thread still uses,
\* whatever fails on the way.
THEOREM DescriptorsSafe == Spec => []ThreadGoneBeforeClose
<1>1. Init => ThreadGoneBeforeClose
  BY DEF Init, ThreadGoneBeforeClose
<1>2. ThreadHandshake /\ ThreadGoneBeforeClose /\ [Next]_vars
      => ThreadGoneBeforeClose'
  BY CloseStep
<1> QED
  BY <1>1, <1>2, HandshakeHolds, PTL DEF Spec

\* When mtk_gps_cleanup has returned both threads have ended, whatever fails
\* on the way.
THEOREM CleanupEndsThreads == Spec => []NoThreadOutlivesCleanup
<1>1. ThreadHandshake => NoThreadOutlivesCleanup
  BY DEF ThreadHandshake, NoThreadOutlivesCleanup
<1> QED
  BY <1>1, HandshakeHolds, PTL
----------------------------------------------------------------------------
(* Sessions, when nothing fails.  SessionInv says how far the framework's  *)
(* call, the traffic with mnld, the native thread and the reports to the   *)
(* framework are from each other; its parts are inductive together.        *)

\* A session is being started (START has been sent), or is on.
Starting == fpc \in {"st_wait", "st_ctl", "st_on", "st_oncb", "st_begin",
                     "st_begincb", "st_wake", "st_clear", "st_flag"}
On == fpc \in {"sp_spin", "sp_send"} \/ (fpc = "idle" /\ fwStarted)
Running == Starting \/ On

\* The points of the native thread in the MNL_DIE case.
DiePoints == {"die_endcb", "die_off", "die_offcb", "die_stop", "die_wake",
              "die_flag"}

\* The last part of mtk_gps_cleanup, after gps_state_thread has ended.
Closing == {"dn_close", "cl_epo", "cl_epowait", "cl_return"}

\* What may be on its way to mnld: nothing that matters for a session, a START
\* that came last, a START and the STOP that followed it, a STOP first of all.
Session == {"START", "STOP"}
Plain(q) == \A i \in 1..Len(q) : q[i] \notin Session
StartLast(q) ==
    /\ q # <<>> /\ q[Len(q)] = "START"
    /\ \A i \in 1..(Len(q) - 1) : q[i] \notin Session
StartStop(q) ==
    \E k \in 1..(Len(q) - 1) :
        /\ q[k] = "START" /\ q[k + 1] = "STOP"
        /\ \A i \in 1..Len(q) : i # k /\ i # k + 1 => q[i] \notin Session
StopFirst(q) ==
    /\ q # <<>> /\ q[1] = "STOP"
    /\ \A i \in 2..Len(q) : q[i] \notin Session

\* A stop on its way: requested of mnld, announced by mnld, or handled by the
\* native thread.
Quiet == ~mnl /\ Plain(toMnld)
Requested ==
    /\ IF mnl THEN StopFirst(toMnld) ELSE StartStop(toMnld)
    /\ fromMnld = <<>> /\ hpc = "poll"
Announced == Quiet /\ fromMnld = <<"MNL_DIE">> /\ hpc = "poll"
Handled == Quiet /\ fromMnld = <<>> /\ hpc \in DiePoints

\* While a session runs mnld's engine is on or will be; a stop is in exactly
\* one place until start_flag is cleared; otherwise nothing is under way.
TrafficInv ==
    /\ Running => /\ IF mnl THEN toMnld = <<>> ELSE StartLast(toMnld)
                  /\ fromMnld = <<>> /\ hpc = "poll"
    /\ ~Running /\ start_flag => Requested \/ Announced \/ Handled
    /\ ~Running /\ ~start_flag =>
          /\ Quiet /\ fromMnld = <<>>
          /\ hpc \in {"none", "boot", "poll", "exit"}

\* Where a call can be, given what the framework has asked for, start_flag and
\* the native thread.
CallsInv ==
    /\ Starting \/ fpc \in {"st_spin", "st_send"} => fwStarted
    /\ fwStarted => up /\ (Starting \/ fpc \in {"idle", "st_spin", "st_send"})
    /\ On => start_flag
    /\ Starting \/ fpc = "st_send" => ~start_flag
    /\ \/ up /\ fpc \notin {"dn_wait"} \cup Closing
       \/ fpc \in {"in_done", "ep_create", "ep_flag"}
       => hpc \in {"poll"} \cup DiePoints
    /\ ~up \/ fpc \in Closing => ~start_flag /\ ctl = <<>>
    /\ ~up => fpc \in {"idle", "in_wait", "in_done", "ep_create", "ep_flag"}
    /\ up => fpc \notin {"in_wait", "in_failwait", "in_done", "ep_create",
                         "ep_flag"}
    /\ (~up /\ fpc = "idle") \/ fpc \in Closing => hpc = "none"
    /\ hpc = "boot" => fpc = "in_wait"
    /\ fpc = "dn_wait" /\ hpc \in {"exit", "none"} => ctl = <<>> /\ ~start_flag
    /\ hpc \in {"none", "exit"} => fpc \in {"idle", "dn_wait"} \cup Closing

\* What the framework has been told, point by point.
AllOn == engineOn /\ navigating /\ wakelock
AllOff == ~engineOn /\ ~navigating /\ ~wakelock
ReportsInv ==
    /\ fpc \in {"st_wait", "st_ctl", "st_on", "st_oncb"} => AllOff
    /\ fpc \in {"st_begin", "st_begincb"} =>
          engineOn /\ ~navigating /\ ~wakelock
    /\ fpc = "st_wake" => engineOn /\ navigating /\ ~wakelock
    /\ fpc \in {"st_clear", "st_flag"} => AllOn
    /\ On => AllOn
    /\ ~Running /\ start_flag /\ hpc \in {"poll", "die_endcb"} => AllOn
    /\ hpc \in {"die_off", "die_offcb"} => engineOn /\ ~navigating /\ wakelock
    /\ hpc \in {"die_stop", "die_wake"} =>
          ~engineOn /\ ~navigating /\ wakelock
    /\ hpc = "die_flag" => AllOff
    /\ ~Running /\ ~start_flag => AllOff
    /\ fpc = "st_oncb" => sta = "ENGINE_ON"
    /\ fpc = "st_begincb" => sta = "SESSION_BEGIN"
    /\ hpc = "die_endcb" => sta = "SESSION_END"
    /\ hpc = "die_offcb" => sta = "ENGINE_OFF"

\* The command that was written last to the control socket is the one that
\* started will follow; CMD_QUIT is the last of all.
Sent ==
    \/ fpc \in {"st_on", "st_oncb", "st_begin", "st_begincb", "st_wake",
                "st_clear", "st_flag", "sp_spin", "sp_send", "sp_ctl"}
    \/ fpc = "idle" /\ fwStarted
OrdersInv ==
    /\ ctl = <<>> => (started <=> Sent)
    /\ fpc # "dn_wait" /\ ctl # <<>> =>
          /\ ctl[Len(ctl)] = IF Sent THEN "CMD_START" ELSE "CMD_STOP"
          /\ \A i \in 1..Len(ctl) : ctl[i] # "CMD_QUIT"
    /\ fpc = "dn_wait" /\ ctl # <<>> =>
          /\ ctl[Len(ctl)] = "CMD_QUIT"
          /\ \A i \in 1..(Len(ctl) - 1) : ctl[i] # "CMD_QUIT"
          /\ IF Len(ctl) = 1 THEN ~started ELSE ctl[Len(ctl) - 1] = "CMD_STOP"

\* M_STOP is pending only after MNL_DIE has released it for the session that
\* is being stopped, so that mtk_gps_cleanup never goes on with an old one.
Stopped == ~start_flag \/ hpc \in {"die_wake", "die_flag"}
SignalsInv ==
    /\ condtion["M_INIT"] => fpc = "in_wait" /\ hpc = "poll"
    /\ fpc = "st_flag" \/ On => ~condtion["M_STOP"]
    /\ ~Running /\ ~Stopped => ~condtion["M_STOP"]
    /\ hpc \in {"die_wake", "die_flag"}
         /\ fpc \notin {"cl_clear", "dn_quit", "dn_wait"} => condtion["M_STOP"]
    /\ fpc = "cl_wait" /\ Stopped => condtion["M_STOP"]
    /\ fpc \in {"cl_clear", "dn_quit", "dn_wait"} => Stopped
    /\ fpc \in {"dn_quit", "dn_wait"} \cup Closing \/ ~up
         => ~condtion["M_STOP"]

\* The EPO thread does not see the exit flag of the last cleanup.
EpoInv ==
    /\ fpc = "ep_flag" => epc = "first"
    /\ up /\ fpc \notin {"cl_epowait", "cl_return"} => epc # "none" /\ ~epo_exit

SessionInv == CallsInv /\ TrafficInv /\ ReportsInv /\ OrdersInv /\ SignalsInv
              /\ EpoInv

\* The elements of a queue that is not empty before and after its first is
\* taken.
LEMMA TailElements ==
    ASSUME NEW S, NEW q \in Seq(S), q # <<>>
    PROVE  /\ Len(q) \in Nat /\ Len(q) >= 1
           /\ Tail(q) \in Seq(S) /\ Len(Tail(q)) = Len(q) - 1
           /\ Head(q) = q[1] /\ Head(q) \in S
           /\ \A i \in 1..Len(Tail(q)) : Tail(q)[i] = q[i + 1]
           /\ Tail(q) = <<>> <=> Len(q) = 1
<1>1. Len(q) \in Nat /\ Len(q) >= 1
  OBVIOUS
<1>2. Tail(q) \in Seq(S) /\ Len(Tail(q)) = Len(q) - 1
  BY <1>1
<1>3. Head(q) = q[1] /\ Head(q) \in S
  BY <1>1
<1>4. \A i \in 1..Len(Tail(q)) : Tail(q)[i] = q[i + 1]
  BY <1>1
<1>5. Tail(q) = <<>> <=> Len(q) = 1
  <2>1. /\ Len(<<>>) = 0
        /\ \A t \in Seq(S) : t # <<>> => Len(t) \in Nat \ {0}
    BY EmptySeq
  <2>2. Len(Tail(q)) = 0 <=> Len(q) = 1
    BY <1>1, <1>2
  <2> QED
    BY <1>2, <2>1, <2>2
<1> QED
  BY <1>1, <1>2, <1>3, <1>4, <1>5

\* The elements of a queue after one is added.
LEMMA AppendElements ==
    ASSUME NEW q \in Seq(ToMnld), NEW m \in ToMnld
    PROVE  /\ Len(q) \in Nat
           /\ Append(q, m) \in Seq(ToMnld) /\ Len(Append(q, m)) = Len(q) + 1
           /\ Append(q, m)[Len(q) + 1] = m
           /\ \A i \in 1..Len(q) : Append(q, m)[i] = q[i]
           /\ Append(q, m) # <<>>
OBVIOUS

\* A queue without START and STOP: what a send and a receive make of it.
LEMMA PlainMoves ==
    ASSUME NEW q \in Seq(ToMnld), Plain(q)
    PROVE  /\ \A m \in ToMnld \ Session : Plain(Append(q, m))
           /\ StartLast(Append(q, "START"))
           /\ q # <<>> => Plain(Tail(q)) /\ Head(q) \notin Session
<1>1. ASSUME NEW m \in ToMnld \ Session PROVE Plain(Append(q, m))
  BY AppendElements DEF Plain, Session
<1>2. StartLast(Append(q, "START"))
  <2>1. "START" \in ToMnld
    BY DEF ToMnld, Session
  <2> QED
    BY <2>1, AppendElements DEF Plain, StartLast, Session
<1>3. q # <<>> => Plain(Tail(q)) /\ Head(q) \notin Session
  BY TailElements DEF Plain, Session
<1> QED
  BY <1>1, <1>2, <1>3

\* A queue that ends in START: STOP follows it, or mnld takes it, the last one.
LEMMA StartMoves ==
    ASSUME NEW q \in Seq(ToMnld), StartLast(q)
    PROVE  /\ StartStop(Append(q, "STOP"))
           /\ q # <<>>
           /\ Head(q) = "START" => Tail(q) = <<>>
           /\ Head(q) # "START" => StartLast(Tail(q)) /\ Head(q) # "STOP"
<1>1. StartStop(Append(q, "STOP"))
  <2> DEFINE a == Append(q, "STOP")
  <2>1. "STOP" \in ToMnld
    BY DEF ToMnld, Session
  <2>2. Len(q) >= 1 /\ q[Len(q)] = "START"
    BY TailElements DEF StartLast, Session
  <2>3. /\ Len(q) \in 1..(Len(a) - 1)
        /\ a[Len(q)] = "START" /\ a[Len(q) + 1] = "STOP"
    BY <2>1, <2>2, AppendElements
  <2>4. \A i \in 1..Len(a) : i # Len(q) /\ i # Len(q) + 1
                              => a[i] \notin Session
    BY <2>1, <2>2, AppendElements DEF StartLast, Session
  <2> HIDE DEF a
  <2>5. StartStop(a)
    BY <2>3, <2>4 DEF StartStop, Session
  <2> QED
    BY <2>5 DEF a
<1>2. q # <<>>
  BY DEF StartLast, Session
<1>3. Head(q) = "START" => Tail(q) = <<>>
  <2>1. Len(q) > 1 => q[1] \notin Session
    BY <1>2, TailElements DEF StartLast, Session
  <2> QED
    BY <1>2, <2>1, TailElements DEF Session
<1>4. ASSUME Head(q) # "START"
      PROVE  StartLast(Tail(q)) /\ Head(q) # "STOP"
  <2>1. Len(q) > 1
    BY <1>2, <1>4, TailElements DEF StartLast, Session
  <2>2. Tail(q) # <<>>
    <3>1. Tail(q) = <<>> <=> Len(q) = 1
      BY <1>2, TailElements
    <3> QED
      BY <2>1, <3>1
  <2>3. Tail(q)[Len(Tail(q))] = "START"
    BY <1>2, <2>1, TailElements DEF StartLast, Session
  <2>4. \A i \in 1..(Len(Tail(q)) - 1) : Tail(q)[i] \notin Session
    BY <1>2, <2>1, TailElements DEF StartLast, Session
  <2>5. Head(q) # "STOP"
    BY <1>2, <2>1, TailElements DEF StartLast, Session
  <2> QED
    BY <2>2, <2>3, <2>4, <2>5 DEF StartLast, Session
<1> QED
  BY <1>1, <1>2, <1>3, <1>4

\* A queue with START and STOP: mnld takes START, and STOP is first.
LEMMA StartStopMoves ==
    ASSUME NEW q \in Seq(ToMnld), StartStop(q), NEW m \in ToMnld \ Session
    PROVE  /\ StartStop(Append(q, m))
           /\ q # <<>>
           /\ Head(q) = "START" => StopFirst(Tail(q))
           /\ Head(q) # "START" => StartStop(Tail(q)) /\ Head(q) # "STOP"
<1> PICK k \in 1..(Len(q) - 1) :
                  /\ q[k] = "START" /\ q[k + 1] = "STOP"
                  /\ \A i \in 1..Len(q) : i # k /\ i # k + 1
                                          => q[i] \notin Session
  BY DEF StartStop, Session
<1>1. StartStop(Append(q, m))
  <2>1. k \in 1..(Len(Append(q, m)) - 1)
    OBVIOUS
  <2> QED
    BY <2>1 DEF StartStop, ToMnld, Session
<1>2. q # <<>> /\ Head(q) = q[1]
  OBVIOUS
<1>3. Head(q) = "START" => StopFirst(Tail(q))
  <2>1. Head(q) = "START" => k = 1
    BY <1>2 DEF Session
  <2>2. ASSUME k = 1 PROVE StopFirst(Tail(q))
    <3>1. Tail(q) # <<>> /\ Tail(q)[1] = "STOP"
      BY <1>2, <2>2, TailElements
    <3>2. \A i \in 2..Len(Tail(q)) : Tail(q)[i] \notin Session
      BY <1>2, <2>2, TailElements
    <3> QED
      BY <3>1, <3>2 DEF StopFirst, Session
  <2> QED
    BY <2>1, <2>2
<1>4. ASSUME Head(q) # "START" PROVE StartStop(Tail(q)) /\ Head(q) # "STOP"
  <2>1. k # 1 
    BY <1>2, <1>4
  <2>2. k - 1 \in 1..(Len(Tail(q)) - 1)
    BY <1>2, <2>1
  <2>3. Tail(q)[k - 1] = "START" /\ Tail(q)[(k - 1) + 1] = "STOP"
    BY <1>2, <2>1
  <2>4. \A i \in 1..Len(Tail(q)) : i # k - 1 /\ i # (k - 1) + 1
                                          => Tail(q)[i] \notin Session
    BY <1>2, <2>1
  <2>5. Head(q) # "STOP"
    BY <1>2, <2>1 DEF Session
  <2> QED
    BY <2>2, <2>3, <2>4, <2>5 DEF StartStop, Session
<1> QED
  BY <1>1, <1>2, <1>3, <1>4

\* A queue that begins with STOP: nothing that matters is left after it.
LEMMA StopMoves ==
    ASSUME NEW q \in Seq(ToMnld), NEW m \in ToMnld \ Session
    PROVE  /\ StopFirst(q) => /\ StopFirst(Append(q, m))
                              /\ q # <<>> /\ Head(q) = "STOP" /\ Plain(Tail(q))
           /\ StopFirst(Append(<<>>, "STOP"))
BY DEF StopFirst, Plain, ToMnld, Session
\* No step takes a call where start_flag and the native thread do not allow it.
LEMMA CallsStep ==
    ASSUME Faults = {}, TypeOK, ThreadHandshake, SessionInv, [Next]_vars
    PROVE  CallsInv'
<1> USE DEF TypeOK, SignalsOK, ThreadHandshake, SessionInv, Locks, Release,
     FGoto, HGoto, Starting, On, Running, DiePoints, Closing, CallsInv,
     TrafficInv, Requested, Announced, Handled, SignalsInv, Stopped
<1>1. CASE get_condition
  BY <1>1 DEF get_condition, Waits, fwkVars, halVars, thrVars, mnldVars
<1>2. CASE mtk_gps_init_done \/ epo_interface_create \/ epo_interface_flag
  BY <1>2 DEF mtk_gps_init_done, epo_interface_create, epo_interface_flag,
       fwkVars, halVars, thrVars, mnldVars
<1>3. CASE gps_state_init
  BY <1>3 DEF gps_state_init, Send, fwkVars, halVars, thrVars, mnldVars
<1>4. CASE gps_state_init_fails
  BY <1>4 DEF gps_state_init_fails, Send, fwkVars, halVars, thrVars, mnldVars
<1>5. CASE start_call \/ start_spin \/ mtk_start
  BY <1>5 DEF start_call, start_spin, mtk_start, Send, SendFails, fwkVars,
       halVars, thrVars, mnldVars
<1>6. CASE gps_state_start
  BY <1>6 DEF gps_state_start, Control, fwkVars, halVars, thrVars, mnldVars
<1>7. CASE start_status
  BY <1>7 DEF start_status, fwkVars, halVars, thrVars, mnldVars
<1>8. CASE start_status_cb
  BY <1>8 DEF start_status_cb, fwkVars, halVars, thrVars, mnldVars
<1>9. CASE start_wakelock \/ start_clear_stop \/ start_return
  BY <1>9 DEF start_wakelock, start_clear_stop, start_return, fwkVars,
       halVars, thrVars, mnldVars
<1>10. CASE stop_call \/ stop_spin
  BY <1>10 DEF stop_call, stop_spin, fwkVars, halVars, thrVars, mnldVars
<1>11. CASE mtk_stop
  BY <1>11 DEF mtk_stop, Send, SendFails, fwkVars, halVars, thrVars, mnldVars
<1>12. CASE gps_state_stop
  BY <1>12 DEF gps_state_stop, Control, fwkVars, halVars, thrVars, mnldVars
<1>13. CASE mtk_cleanup \/ cleanup_check \/ cleanup_clear
  BY <1>13 DEF mtk_cleanup, Send, SendFails, cleanup_check, cleanup_clear,
       fwkVars, halVars, thrVars, mnldVars
<1>14. CASE gps_state_done
  BY <1>14 DEF gps_state_done, Control, fwkVars, halVars, thrVars, mnldVars
<1>15. CASE gps_state_close \/ cleanup_epo \/ cleanup_return
  BY <1>15 DEF gps_state_close, cleanup_epo, cleanup_return, fwkVars, halVars,
       thrVars, mnldVars
<1>16. CASE thread_boot \/ thread_exit
  BY <1>16 DEF thread_boot, thread_exit, fwkVars, halVars, thrVars, mnldVars
<1>17. CASE thread_nmea \/ thread_epoll_error
  BY <1>17 DEF thread_nmea, thread_epoll_error, fwkVars, halVars, thrVars,
       mnldVars
<1>18. CASE thread_mnld
  BY <1>18 DEF thread_mnld, fwkVars, halVars, thrVars, mnldVars
<1>19. CASE thread_status_cb
  BY <1>19 DEF thread_status_cb, fwkVars, halVars, thrVars, mnldVars
<1>20. CASE thread_status \/ die_release_stop \/ die_wakelock \/
     die_start_flag
  BY <1>20 DEF thread_status, die_release_stop, die_wakelock, die_start_flag,
       fwkVars, halVars, thrVars, mnldVars
<1>21. CASE epo_thread
  BY <1>21 DEF epo_thread, fwkVars, halVars, thrVars, mnldVars
<1>22. CASE mnld_command
  BY <1>22 DEF mnld_command, ToHal, Bound, fwkVars, halVars, thrVars, mnldVars
<1>23. CASE mnld_nmea \/ mnld_crash \/ mnld_icon
  BY <1>23 DEF mnld_nmea, mnld_crash, ToHal, Bound, mnld_icon, fwkVars,
       halVars, thrVars, mnldVars
<1>24. CASE thread_control
  BY <1>24 DEF thread_control, OrdersInv, QueuesOK, fwkVars, halVars, thrVars,
       mnldVars
<1>25. CASE UNCHANGED vars
  BY <1>25 DEF vars, fwkVars, halVars, thrVars, mnldVars
<1> QED
  BY <1>1, <1>2, <1>3, <1>4, <1>5, <1>6, <1>7, <1>8, <1>9, <1>10, <1>11,
       <1>12, <1>13, <1>14, <1>15, <1>16, <1>17, <1>18, <1>19, <1>20, <1>21,
       <1>22, <1>23, <1>24, <1>25 DEF Next, FrameworkStep, FrameworkCall,
       HalThread, Mnld

\* Every START and STOP is in one place only, from mtk_daemon_send to the
\* reset of start_flag.
LEMMA TrafficStep ==
    ASSUME Faults = {}, TypeOK, ThreadHandshake, SessionInv, [Next]_vars
    PROVE  TrafficInv'
<1> USE DEF TypeOK, SignalsOK, ThreadHandshake, SessionInv, Locks, Release,
     FGoto, HGoto, Starting, On, Running, DiePoints, Closing, CallsInv,
     TrafficInv, Requested, Announced, Handled, Quiet, Session
<1> /\ toMnld \in Seq(ToMnld)
    /\ "INIT" \in ToMnld \ Session /\ "CLEANUP" \in ToMnld \ Session
  BY DEF QueuesOK, ToMnld, Session
<1>1. CASE get_condition
  BY <1>1 DEF get_condition, Waits, fwkVars, halVars, thrVars, mnldVars
<1>2. CASE mtk_gps_init_done \/ epo_interface_create \/ epo_interface_flag
  BY <1>2 DEF mtk_gps_init_done, epo_interface_create, epo_interface_flag,
       fwkVars, halVars, thrVars, mnldVars
<1>3. CASE gps_state_init_fails
  BY <1>3 DEF gps_state_init_fails, Send, fwkVars, halVars, thrVars, mnldVars
<1>4. CASE start_call \/ start_spin
  BY <1>4 DEF start_call, start_spin, fwkVars, halVars, thrVars, mnldVars
<1>5. CASE gps_state_start
  BY <1>5 DEF gps_state_start, Control, fwkVars, halVars, thrVars, mnldVars
<1>6. CASE start_status
  BY <1>6 DEF start_status, fwkVars, halVars, thrVars, mnldVars
<1>7. CASE start_status_cb
  BY <1>7 DEF start_status_cb, fwkVars, halVars, thrVars, mnldVars
<1>8. CASE start_wakelock \/ start_clear_stop \/ start_return
  BY <1>8 DEF start_wakelock, start_clear_stop, start_return, fwkVars,
       halVars, thrVars, mnldVars
<1>9. CASE stop_call \/ stop_spin
  BY <1>9 DEF stop_call, stop_spin, fwkVars, halVars, thrVars, mnldVars
<1>10. CASE gps_state_stop
  BY <1>10 DEF gps_state_stop, Control, fwkVars, halVars, thrVars, mnldVars
<1>11. CASE cleanup_check \/ cleanup_clear
  BY <1>11 DEF cleanup_check, cleanup_clear, fwkVars, halVars, thrVars,
       mnldVars
<1>12. CASE gps_state_done
  BY <1>12 DEF gps_state_done, Control, fwkVars, halVars, thrVars, mnldVars
<1>13. CASE gps_state_close \/ cleanup_epo \/ cleanup_return
  BY <1>13 DEF gps_state_close, cleanup_epo, cleanup_return, fwkVars, halVars,
       thrVars, mnldVars
<1>14. CASE thread_boot \/ thread_exit
  BY <1>14 DEF thread_boot, thread_exit, fwkVars, halVars, thrVars, mnldVars
<1>15. CASE thread_nmea \/ thread_epoll_error
  BY <1>15 DEF thread_nmea, thread_epoll_error, fwkVars, halVars, thrVars,
       mnldVars
<1>16. CASE thread_mnld
  BY <1>16, SMTT(60) DEF thread_mnld, fwkVars, halVars, thrVars, mnldVars
<1>17. CASE thread_status_cb
  BY <1>17 DEF thread_status_cb, fwkVars, halVars, thrVars, mnldVars
<1>18. CASE thread_status \/ die_release_stop \/ die_wakelock \/
     die_start_flag
  BY <1>18 DEF thread_status, die_release_stop, die_wakelock, die_start_flag,
       fwkVars, halVars, thrVars, mnldVars
<1>19. CASE epo_thread
  BY <1>19 DEF epo_thread, fwkVars, halVars, thrVars, mnldVars
<1>20. CASE mnld_nmea \/ mnld_crash \/ mnld_icon
  BY <1>20 DEF mnld_nmea, mnld_crash, ToHal, Bound, mnld_icon, fwkVars,
       halVars, thrVars, mnldVars
<1>21. CASE mtk_start
  BY <1>21, PlainMoves DEF mtk_start, Send, SendFails, fwkVars, halVars,
       thrVars, mnldVars
<1>22. CASE mtk_stop
  BY <1>22, StartMoves, StopMoves DEF mtk_stop, Send, SendFails, fwkVars,
       halVars, thrVars, mnldVars
<1>23. CASE gps_state_init
  BY <1>23, PlainMoves DEF gps_state_init, Send, fwkVars, halVars, thrVars,
       mnldVars
<1>24. CASE mtk_cleanup
  <2>1. /\ toMnld' = Append(toMnld, "CLEANUP") /\ "CLEANUP" \in ToMnld \ Session
        /\ UNCHANGED <<mnl, fromMnld, hpc, start_flag>>
        /\ ~Running /\ ~Running'
    BY <1>24 DEF mtk_cleanup, Send, SendFails, fwkVars, halVars
  <2>2. ASSUME Plain(toMnld) PROVE Plain(toMnld')
    BY <2>1, <2>2, PlainMoves
  <2>3. ASSUME StartStop(toMnld) PROVE StartStop(toMnld')
    BY <2>1, <2>3, StartStopMoves
  <2>4. ASSUME StopFirst(toMnld) PROVE StopFirst(toMnld')
    BY <2>1, <2>4, StopMoves
  <2> QED
    BY <2>1, <2>2, <2>3, <2>4
<1>25. CASE thread_control
  BY <1>25 DEF thread_control, OrdersInv, SignalsInv, Stopped, QueuesOK,
       fwkVars, halVars, thrVars, mnldVars
<1>26. CASE mnld_command
  <2>1. /\ toMnld # <<>> /\ toMnld' = Tail(toMnld)
        /\ UNCHANGED <<fpc, hpc, up, fwStarted, start_flag, ctl>>
    BY <1>26 DEF mnld_command, fwkVars, halVars
  <2>2. CASE Running
    BY <1>26, <2>1, <2>2, StartMoves DEF mnld_command
  <2>3. CASE ~Running /\ start_flag /\ Requested /\ mnl
    <3>1. Head(toMnld) = "STOP" /\ Plain(Tail(toMnld))
      BY <2>3, StopMoves
    <3>2. mnl' = FALSE /\ fromMnld' = Append(fromMnld, "MNL_DIE")
      BY <1>26, <2>3, <3>1 DEF mnld_command, ToHal, Bound
    <3>3. Append(<<>>, "MNL_DIE") = <<"MNL_DIE">>
      OBVIOUS
    <3> QED
      BY <2>1, <2>3, <3>1, <3>2, <3>3
  <2>4. CASE ~Running /\ start_flag /\ Requested /\ ~mnl
    BY <1>26, <2>1, <2>4, StartStopMoves DEF mnld_command
  <2>5. CASE ~Running /\ Quiet
    <3>1. Plain(Tail(toMnld)) /\ Head(toMnld) \notin Session
      BY <2>1, <2>5, PlainMoves
    <3>2. UNCHANGED <<mnl, fromMnld>>
      BY <1>26, <2>5, <3>1 DEF mnld_command
    <3>3. ~StartStop(toMnld)
      BY <2>5 DEF Plain, StartStop
    <3> QED
      BY <2>1, <2>5, <3>1, <3>2, <3>3
  <2>6. \/ Running \/ (~Running /\ start_flag /\ Requested)
        \/ (~Running /\ Quiet)
    OBVIOUS
  <2> QED
    BY <2>2, <2>3, <2>4, <2>5, <2>6
<1>27. CASE UNCHANGED vars
  BY <1>27 DEF vars, fwkVars, halVars, thrVars, mnldVars
<1> QED
  BY <1>1, <1>2, <1>3, <1>4, <1>5, <1>6, <1>7, <1>8, <1>9, <1>10, <1>11,
       <1>12, <1>13, <1>14, <1>15, <1>16, <1>17, <1>18, <1>19, <1>20, <1>21,
       <1>22, <1>23, <1>24, <1>25, <1>26, <1>27 DEF Next, FrameworkStep,
       FrameworkCall, HalThread, Mnld

\* Every status_cb and every change of the wakelock is the next one in order.
LEMMA ReportsStep ==
    ASSUME Faults = {}, TypeOK, ThreadHandshake, SessionInv, [Next]_vars
    PROVE  ReportsInv'
<1> USE DEF TypeOK, SignalsOK, ThreadHandshake, SessionInv, Locks, Release,
     FGoto, HGoto, Starting, On, Running, DiePoints, Closing, CallsInv,
     TrafficInv, Requested, Announced, Handled, ReportsInv, AllOn, AllOff
<1>1. CASE get_condition
  BY <1>1 DEF get_condition, Waits, fwkVars, halVars, thrVars, mnldVars
<1>2. CASE mtk_gps_init_done \/ epo_interface_create \/ epo_interface_flag
  BY <1>2 DEF mtk_gps_init_done, epo_interface_create, epo_interface_flag,
       fwkVars, halVars, thrVars, mnldVars
<1>3. CASE gps_state_init
  BY <1>3 DEF gps_state_init, Send, fwkVars, halVars, thrVars, mnldVars
<1>4. CASE gps_state_init_fails
  BY <1>4 DEF gps_state_init_fails, Send, fwkVars, halVars, thrVars, mnldVars
<1>5. CASE start_call \/ start_spin \/ mtk_start
  BY <1>5 DEF start_call, start_spin, mtk_start, Send, SendFails, fwkVars,
       halVars, thrVars, mnldVars
<1>6. CASE gps_state_start
  BY <1>6 DEF gps_state_start, Control, fwkVars, halVars, thrVars, mnldVars
<1>7. CASE start_status
  BY <1>7 DEF start_status, fwkVars, halVars, thrVars, mnldVars
<1>8. CASE start_status_cb
  BY <1>8 DEF start_status_cb, StatusCb, fwkVars, halVars, thrVars, mnldVars
<1>9. CASE start_wakelock \/ start_clear_stop \/ start_return
  BY <1>9 DEF start_wakelock, start_clear_stop, start_return, fwkVars,
       halVars, thrVars, mnldVars
<1>10. CASE stop_call \/ stop_spin
  BY <1>10 DEF stop_call, stop_spin, fwkVars, halVars, thrVars, mnldVars
<1>11. CASE mtk_stop
  BY <1>11 DEF mtk_stop, Send, SendFails, fwkVars, halVars, thrVars, mnldVars
<1>12. CASE gps_state_stop
  BY <1>12 DEF gps_state_stop, Control, fwkVars, halVars, thrVars, mnldVars
<1>13. CASE mtk_cleanup \/ cleanup_check \/ cleanup_clear
  BY <1>13 DEF mtk_cleanup, Send, SendFails, cleanup_check, cleanup_clear,
       fwkVars, halVars, thrVars, mnldVars
<1>14. CASE gps_state_done
  BY <1>14 DEF gps_state_done, Control, fwkVars, halVars, thrVars, mnldVars
<1>15. CASE gps_state_close \/ cleanup_epo \/ cleanup_return
  BY <1>15 DEF gps_state_close, cleanup_epo, cleanup_return, fwkVars, halVars,
       thrVars, mnldVars
<1>16. CASE thread_boot \/ thread_exit
  BY <1>16 DEF thread_boot, thread_exit, fwkVars, halVars, thrVars, mnldVars
<1>17. CASE thread_nmea \/ thread_epoll_error
  BY <1>17 DEF thread_nmea, thread_epoll_error, fwkVars, halVars, thrVars,
       mnldVars
<1>18. CASE thread_control
  BY <1>18 DEF thread_control, fwkVars, halVars, thrVars, mnldVars
<1>19. CASE thread_mnld
  BY <1>19 DEF thread_mnld, fwkVars, halVars, thrVars, mnldVars
<1>20. CASE thread_status_cb
  BY <1>20 DEF thread_status_cb, StatusCb, fwkVars, halVars, thrVars, mnldVars
<1>21. CASE thread_status \/ die_release_stop \/ die_wakelock \/
     die_start_flag
  BY <1>21 DEF thread_status, die_release_stop, die_wakelock, die_start_flag,
       fwkVars, halVars, thrVars, mnldVars
<1>22. CASE epo_thread
  BY <1>22 DEF epo_thread, fwkVars, halVars, thrVars, mnldVars
<1>23. CASE mnld_command
  BY <1>23 DEF mnld_command, ToHal, Bound, fwkVars, halVars, thrVars, mnldVars
<1>24. CASE mnld_nmea \/ mnld_crash \/ mnld_icon
  BY <1>24 DEF mnld_nmea, mnld_crash, ToHal, Bound, mnld_icon, fwkVars,
       halVars, thrVars, mnldVars
<1>25. CASE UNCHANGED vars
  BY <1>25 DEF vars, fwkVars, halVars, thrVars, mnldVars
<1> QED
  BY <1>1, <1>2, <1>3, <1>4, <1>5, <1>6, <1>7, <1>8, <1>9, <1>10, <1>11,
       <1>12, <1>13, <1>14, <1>15, <1>16, <1>17, <1>18, <1>19, <1>20, <1>21,
       <1>22, <1>23, <1>24, <1>25 DEF Next, FrameworkStep, FrameworkCall,
       HalThread, Mnld

\* The commands in the control socket agree with the last call, in every
\* order in which the native thread reads its descriptors.
LEMMA OrdersStep ==
    ASSUME Faults = {}, TypeOK, ThreadHandshake, SessionInv, [Next]_vars
    PROVE  OrdersInv'
<1> USE DEF TypeOK, SignalsOK, ThreadHandshake, SessionInv, Locks, Release,
     FGoto, HGoto, Starting, On, Running, DiePoints, Closing, CallsInv,
     TrafficInv, Requested, Announced, Handled, OrdersInv, Sent, QueuesOK,
     Commands
<1>1. CASE get_condition
  BY <1>1 DEF get_condition, Waits, fwkVars, halVars, thrVars, mnldVars
<1>2. CASE mtk_gps_init_done \/ epo_interface_create \/ epo_interface_flag
  BY <1>2 DEF mtk_gps_init_done, epo_interface_create, epo_interface_flag,
       fwkVars, halVars, thrVars, mnldVars
<1>3. CASE gps_state_init
  BY <1>3 DEF gps_state_init, Send, fwkVars, halVars, thrVars, mnldVars
<1>4. CASE gps_state_init_fails
  BY <1>4 DEF gps_state_init_fails, Send, fwkVars, halVars, thrVars, mnldVars
<1>5. CASE start_call \/ start_spin \/ mtk_start
  BY <1>5 DEF start_call, start_spin, mtk_start, Send, SendFails, fwkVars,
       halVars, thrVars, mnldVars
<1>6. CASE gps_state_start
  BY <1>6 DEF gps_state_start, Control, fwkVars, halVars, thrVars, mnldVars
<1>7. CASE start_status
  BY <1>7 DEF start_status, fwkVars, halVars, thrVars, mnldVars
<1>8. CASE start_status_cb
  BY <1>8 DEF start_status_cb, fwkVars, halVars, thrVars, mnldVars
<1>9. CASE start_wakelock \/ start_clear_stop \/ start_return
  BY <1>9 DEF start_wakelock, start_clear_stop, start_return, fwkVars,
       halVars, thrVars, mnldVars
<1>10. CASE stop_call \/ stop_spin
  BY <1>10 DEF stop_call, stop_spin, fwkVars, halVars, thrVars, mnldVars
<1>11. CASE mtk_stop
  BY <1>11 DEF mtk_stop, Send, SendFails, fwkVars, halVars, thrVars, mnldVars
<1>12. CASE gps_state_stop
  BY <1>12 DEF gps_state_stop, Control, fwkVars, halVars, thrVars, mnldVars
<1>13. CASE mtk_cleanup \/ cleanup_check \/ cleanup_clear
  BY <1>13 DEF mtk_cleanup, Send, SendFails, cleanup_check, cleanup_clear,
       fwkVars, halVars, thrVars, mnldVars
<1>14. CASE gps_state_done
  BY <1>14 DEF gps_state_done, Control, fwkVars, halVars, thrVars, mnldVars
<1>15. CASE gps_state_close \/ cleanup_epo \/ cleanup_return
  BY <1>15 DEF gps_state_close, cleanup_epo, cleanup_return, fwkVars, halVars,
       thrVars, mnldVars
<1>16. CASE thread_boot \/ thread_exit
  BY <1>16 DEF thread_boot, thread_exit, fwkVars, halVars, thrVars, mnldVars
<1>17. CASE thread_nmea \/ thread_epoll_error
  BY <1>17 DEF thread_nmea, thread_epoll_error, fwkVars, halVars, thrVars,
       mnldVars
<1>18. CASE thread_mnld
  BY <1>18 DEF thread_mnld, fwkVars, halVars, thrVars, mnldVars
<1>19. CASE thread_status_cb
  BY <1>19 DEF thread_status_cb, fwkVars, halVars, thrVars, mnldVars
<1>20. CASE thread_status \/ die_release_stop \/ die_wakelock \/
     die_start_flag
  BY <1>20 DEF thread_status, die_release_stop, die_wakelock, die_start_flag,
       fwkVars, halVars, thrVars, mnldVars
<1>21. CASE epo_thread
  BY <1>21 DEF epo_thread, fwkVars, halVars, thrVars, mnldVars
<1>22. CASE mnld_command
  BY <1>22 DEF mnld_command, ToHal, Bound, fwkVars, halVars, thrVars, mnldVars
<1>23. CASE mnld_nmea \/ mnld_crash \/ mnld_icon
  BY <1>23 DEF mnld_nmea, mnld_crash, ToHal, Bound, mnld_icon, fwkVars,
       halVars, thrVars, mnldVars
<1>24. CASE thread_control
  <2>1. /\ ctl \in Seq(Commands) /\ ctl # <<>> /\ ctl' = Tail(ctl)
        /\ UNCHANGED <<fpc, fwStarted>>
    BY <1>24 DEF thread_control, QueuesOK, fwkVars
  <2>2. /\ Len(ctl) \in Nat /\ Len(ctl) >= 1 /\ Head(ctl) = ctl[1]
        /\ Len(ctl') = Len(ctl) - 1
        /\ \A i \in 1..Len(ctl') : ctl'[i] = ctl[i + 1]
        /\ (ctl' = <<>> <=> Len(ctl) = 1)
    BY <2>1, TailElements
  <2>3. CASE fpc = "dn_wait" /\ Len(ctl) = 1
    BY <1>24, <2>1, <2>2, <2>3 DEF thread_control
  <2>4. CASE fpc = "dn_wait" /\ Len(ctl) = 2
    BY <1>24, <2>1, <2>2, <2>4, SMTT(60) DEF thread_control
  <2>5. CASE fpc = "dn_wait" /\ Len(ctl) > 2
    <3>1. ctl'[Len(ctl')] = ctl[Len(ctl)]
      BY <2>2, <2>5
    <3>2. ctl'[Len(ctl') - 1] = ctl[Len(ctl) - 1]
      BY <2>2, <2>5
    <3>3. \A i \in 1..(Len(ctl') - 1) : ctl'[i] # "CMD_QUIT"
      BY <2>1, <2>2, <2>5
    <3>4. ctl' # <<>> /\ ctl # <<>> /\ Len(ctl') # 1 /\ Len(ctl) # 1
      BY <2>2, <2>5
    <3> QED
      BY <2>1, <2>5, <3>1, <3>2, <3>3, <3>4
  <2>6. CASE fpc # "dn_wait" /\ Len(ctl) = 1
    BY <1>24, <2>1, <2>2, <2>6 DEF thread_control
  <2>7. CASE fpc # "dn_wait" /\ Len(ctl) > 1
    BY <1>24, <2>1, <2>2, <2>7 DEF thread_control
  <2> QED
    BY <2>2, <2>3, <2>4, <2>5, <2>6, <2>7, SMTT(60)
<1>25. CASE UNCHANGED vars
  BY <1>25 DEF vars, fwkVars, halVars, thrVars, mnldVars
<1> QED
  BY <1>1, <1>2, <1>3, <1>4, <1>5, <1>6, <1>7, <1>8, <1>9, <1>10, <1>11,
       <1>12, <1>13, <1>14, <1>15, <1>16, <1>17, <1>18, <1>19, <1>20, <1>21,
       <1>22, <1>23, <1>24, <1>25 DEF Next, FrameworkStep, FrameworkCall,
       HalThread, Mnld

\* M_STOP is released and dropped in step with the sessions.
LEMMA SignalsInvStep ==
    ASSUME Faults = {}, TypeOK, ThreadHandshake, SessionInv, [Next]_vars
    PROVE  SignalsInv'
<1> USE DEF TypeOK, SignalsOK, ThreadHandshake, SessionInv, Locks, Release,
     FGoto, HGoto, Starting, On, Running, DiePoints, Closing, CallsInv,
     TrafficInv, Requested, Announced, Handled, SignalsInv, Stopped
<1>1. CASE get_condition
  BY <1>1 DEF get_condition, Waits, fwkVars, halVars, thrVars, mnldVars
<1>2. CASE mtk_gps_init_done \/ epo_interface_create \/ epo_interface_flag
  BY <1>2 DEF mtk_gps_init_done, epo_interface_create, epo_interface_flag,
       fwkVars, halVars, thrVars, mnldVars
<1>3. CASE gps_state_init
  BY <1>3 DEF gps_state_init, Send, fwkVars, halVars, thrVars, mnldVars
<1>4. CASE gps_state_init_fails
  BY <1>4 DEF gps_state_init_fails, Send, fwkVars, halVars, thrVars, mnldVars
<1>5. CASE start_call \/ start_spin \/ mtk_start
  BY <1>5 DEF start_call, start_spin, mtk_start, Send, SendFails, fwkVars,
       halVars, thrVars, mnldVars
<1>6. CASE gps_state_start
  BY <1>6 DEF gps_state_start, Control, fwkVars, halVars, thrVars, mnldVars
<1>7. CASE start_status
  BY <1>7 DEF start_status, fwkVars, halVars, thrVars, mnldVars
<1>8. CASE start_status_cb
  BY <1>8 DEF start_status_cb, fwkVars, halVars, thrVars, mnldVars
<1>9. CASE start_wakelock \/ start_clear_stop \/ start_return
  BY <1>9 DEF start_wakelock, start_clear_stop, start_return, fwkVars,
       halVars, thrVars, mnldVars
<1>10. CASE stop_call \/ stop_spin
  BY <1>10 DEF stop_call, stop_spin, fwkVars, halVars, thrVars, mnldVars
<1>11. CASE mtk_stop
  BY <1>11 DEF mtk_stop, Send, SendFails, fwkVars, halVars, thrVars, mnldVars
<1>12. CASE gps_state_stop
  BY <1>12 DEF gps_state_stop, Control, fwkVars, halVars, thrVars, mnldVars
<1>13. CASE mtk_cleanup \/ cleanup_check \/ cleanup_clear
  BY <1>13 DEF mtk_cleanup, Send, SendFails, cleanup_check, cleanup_clear,
       fwkVars, halVars, thrVars, mnldVars
<1>14. CASE gps_state_done
  BY <1>14 DEF gps_state_done, Control, fwkVars, halVars, thrVars, mnldVars
<1>15. CASE gps_state_close \/ cleanup_epo \/ cleanup_return
  BY <1>15 DEF gps_state_close, cleanup_epo, cleanup_return, fwkVars, halVars,
       thrVars, mnldVars
<1>16. CASE thread_boot \/ thread_exit
  BY <1>16 DEF thread_boot, thread_exit, fwkVars, halVars, thrVars, mnldVars
<1>17. CASE thread_nmea \/ thread_epoll_error
  BY <1>17 DEF thread_nmea, thread_epoll_error, fwkVars, halVars, thrVars,
       mnldVars
<1>18. CASE thread_control
  BY <1>18 DEF thread_control, fwkVars, halVars, thrVars, mnldVars
<1>19. CASE thread_mnld
  BY <1>19 DEF thread_mnld, fwkVars, halVars, thrVars, mnldVars
<1>20. CASE thread_status_cb
  BY <1>20 DEF thread_status_cb, fwkVars, halVars, thrVars, mnldVars
<1>21. CASE thread_status \/ die_release_stop \/ die_wakelock \/
     die_start_flag
  BY <1>21 DEF thread_status, die_release_stop, die_wakelock, die_start_flag,
       fwkVars, halVars, thrVars, mnldVars
<1>22. CASE epo_thread
  BY <1>22 DEF epo_thread, fwkVars, halVars, thrVars, mnldVars
<1>23. CASE mnld_command
  BY <1>23 DEF mnld_command, ToHal, Bound, fwkVars, halVars, thrVars, mnldVars
<1>24. CASE mnld_nmea \/ mnld_crash \/ mnld_icon
  BY <1>24 DEF mnld_nmea, mnld_crash, ToHal, Bound, mnld_icon, fwkVars,
       halVars, thrVars, mnldVars
<1>25. CASE UNCHANGED vars
  BY <1>25 DEF vars, fwkVars, halVars, thrVars, mnldVars
<1> QED
  BY <1>1, <1>2, <1>3, <1>4, <1>5, <1>6, <1>7, <1>8, <1>9, <1>10, <1>11,
       <1>12, <1>13, <1>14, <1>15, <1>16, <1>17, <1>18, <1>19, <1>20, <1>21,
       <1>22, <1>23, <1>24, <1>25 DEF Next, FrameworkStep, FrameworkCall,
       HalThread, Mnld

\* The EPO thread lives from its creation to the end of cleanup.
LEMMA EpoStep ==
    ASSUME Faults = {}, TypeOK, ThreadHandshake, SessionInv, [Next]_vars
    PROVE  EpoInv'
<1> USE DEF TypeOK, SignalsOK, ThreadHandshake, SessionInv, Locks, Release,
     FGoto, HGoto, Starting, On, Running, DiePoints, Closing, CallsInv,
     TrafficInv, Requested, Announced, Handled, EpoInv
<1>1. CASE get_condition
  BY <1>1 DEF get_condition, Waits, fwkVars, halVars, thrVars, mnldVars
<1>2. CASE mtk_gps_init_done \/ epo_interface_create \/ epo_interface_flag
  BY <1>2 DEF mtk_gps_init_done, epo_interface_create, epo_interface_flag,
       fwkVars, halVars, thrVars, mnldVars
<1>3. CASE gps_state_init
  BY <1>3 DEF gps_state_init, Send, fwkVars, halVars, thrVars, mnldVars
<1>4. CASE gps_state_init_fails
  BY <1>4 DEF gps_state_init_fails, Send, fwkVars, halVars, thrVars, mnldVars
<1>5. CASE start_call \/ start_spin \/ mtk_start
  BY <1>5 DEF start_call, start_spin, mtk_start, Send, SendFails, fwkVars,
       halVars, thrVars, mnldVars
<1>6. CASE gps_state_start
  BY <1>6 DEF gps_state_start, Control, fwkVars, halVars, thrVars, mnldVars
<1>7. CASE start_status
  BY <1>7 DEF start_status, fwkVars, halVars, thrVars, mnldVars
<1>8. CASE start_status_cb
  BY <1>8 DEF start_status_cb, fwkVars, halVars, thrVars, mnldVars
<1>9. CASE start_wakelock \/ start_clear_stop \/ start_return
  BY <1>9 DEF start_wakelock, start_clear_stop, start_return, fwkVars,
       halVars, thrVars, mnldVars
<1>10. CASE stop_call \/ stop_spin
  BY <1>10 DEF stop_call, stop_spin, fwkVars, halVars, thrVars, mnldVars
<1>11. CASE mtk_stop
  BY <1>11 DEF mtk_stop, Send, SendFails, fwkVars, halVars, thrVars, mnldVars
<1>12. CASE gps_state_stop
  BY <1>12 DEF gps_state_stop, Control, fwkVars, halVars, thrVars, mnldVars
<1>13. CASE mtk_cleanup \/ cleanup_check \/ cleanup_clear
  BY <1>13 DEF mtk_cleanup, Send, SendFails, cleanup_check, cleanup_clear,
       fwkVars, halVars, thrVars, mnldVars
<1>14. CASE gps_state_done
  BY <1>14 DEF gps_state_done, Control, fwkVars, halVars, thrVars, mnldVars
<1>15. CASE gps_state_close \/ cleanup_epo \/ cleanup_return
  BY <1>15 DEF gps_state_close, cleanup_epo, cleanup_return, fwkVars, halVars,
       thrVars, mnldVars
<1>16. CASE thread_boot \/ thread_exit
  BY <1>16 DEF thread_boot, thread_exit, fwkVars, halVars, thrVars, mnldVars
<1>17. CASE thread_nmea \/ thread_epoll_error
  BY <1>17 DEF thread_nmea, thread_epoll_error, fwkVars, halVars, thrVars,
       mnldVars
<1>18. CASE thread_control
  BY <1>18 DEF thread_control, fwkVars, halVars, thrVars, mnldVars
<1>19. CASE thread_mnld
  BY <1>19 DEF thread_mnld, fwkVars, halVars, thrVars, mnldVars
<1>20. CASE thread_status_cb
  BY <1>20 DEF thread_status_cb, fwkVars, halVars, thrVars, mnldVars
<1>21. CASE thread_status \/ die_release_stop \/ die_wakelock \/
     die_start_flag
  BY <1>21 DEF thread_status, die_release_stop, die_wakelock, die_start_flag,
       fwkVars, halVars, thrVars, mnldVars
<1>22. CASE epo_thread
  BY <1>22 DEF epo_thread, fwkVars, halVars, thrVars, mnldVars
<1>23. CASE mnld_command
  BY <1>23 DEF mnld_command, ToHal, Bound, fwkVars, halVars, thrVars, mnldVars
<1>24. CASE mnld_nmea \/ mnld_crash \/ mnld_icon
  BY <1>24 DEF mnld_nmea, mnld_crash, ToHal, Bound, mnld_icon, fwkVars,
       halVars, thrVars, mnldVars
<1>25. CASE UNCHANGED vars
  BY <1>25 DEF vars, fwkVars, halVars, thrVars, mnldVars
<1> QED
  BY <1>1, <1>2, <1>3, <1>4, <1>5, <1>6, <1>7, <1>8, <1>9, <1>10, <1>11,
       <1>12, <1>13, <1>14, <1>15, <1>16, <1>17, <1>18, <1>19, <1>20, <1>21,
       <1>22, <1>23, <1>24, <1>25 DEF Next, FrameworkStep, FrameworkCall,
       HalThread, Mnld

\* The session invariant is inductive when nothing fails.
LEMMA SessionStep ==
    ASSUME Faults = {}, TypeOK, ThreadHandshake, SessionInv, [Next]_vars
    PROVE  SessionInv'
BY CallsStep, TrafficStep, ReportsStep, OrdersStep, SignalsInvStep, EpoStep
   DEF SessionInv

\* Without failures the framework's call, the traffic with mnld, the commands
\* to the native thread, the signals and the reports to the framework are
\* never further apart than SessionInv says, for every capacity of the sockets.
THEOREM SessionHolds ==
    ASSUME Faults = {}
    PROVE  Spec => []SessionInv
<1>1. Init => SessionInv
  <2> SUFFICES ASSUME Init PROVE SessionInv
    OBVIOUS
  <2>1. Plain(toMnld)
    BY DEF Init, Plain
  <2>2. \A l \in Locks : ~condtion[l]
    BY DEF Init
  <2>3. CallsInv /\ EpoInv /\ SignalsInv
    BY <2>2 DEF Init, CallsInv, EpoInv, SignalsInv, Locks, Starting, On,
         Running, DiePoints, Closing, Stopped
  <2>4. TrafficInv /\ ReportsInv /\ OrdersInv
    BY <2>1 DEF Init, TrafficInv, ReportsInv, OrdersInv, Starting, On,
         Running, DiePoints, Quiet, AllOff, Sent
  <2> QED
    BY <2>3, <2>4 DEF SessionInv
<1>2. TypeOK /\ ThreadHandshake /\ SessionInv /\ [Next]_vars => SessionInv'
  BY SessionStep
<1> QED
  BY <1>1, <1>2, TypeCorrect, HandshakeHolds, PTL DEF Spec

\* At rest everybody agrees on whether a session is on, whatever the order in
\* which the calls, the daemon and the native thread got there.
THEOREM AgreementHolds ==
    ASSUME Faults = {}
    PROVE  Spec => []SessionAgreement
<1>1. TypeOK /\ ThreadHandshake /\ SessionInv => SessionAgreement
  <2> SUFFICES ASSUME TypeOK, ThreadHandshake, SessionInv, Quiescent
               PROVE  /\ start_flag = fwStarted /\ started = fwStarted
                      /\ mnl = fwStarted /\ engineOn = fwStarted
                      /\ navigating = fwStarted /\ wakelock = fwStarted
                      /\ epc # "none"
    BY DEF SessionAgreement
  <2>1. up
    BY DEF Quiescent, SessionInv, CallsInv
  <2>2. /\ start_flag <=> fwStarted
        /\ mnl <=> fwStarted
    BY DEF Quiescent, SessionInv, CallsInv, TrafficInv, Requested, Announced,
         Handled, StartLast, StartStop, StopFirst, Quiet, On, Running,
         Starting, DiePoints
  <2>3. started <=> fwStarted
    BY DEF Quiescent, SessionInv, OrdersInv, Sent
  <2>4. /\ engineOn <=> fwStarted
        /\ navigating <=> fwStarted
        /\ wakelock <=> fwStarted
    BY <2>2 DEF Quiescent, SessionInv, ReportsInv, AllOn, AllOff, On, Running,
         Starting
  <2>5. epc # "none"
    BY <2>1 DEF Quiescent, SessionInv, EpoInv
  <2> QED
    BY <2>2, <2>3, <2>4, <2>5, Zenon DEF TypeOK, FlagsOK
<1> QED
  BY <1>1, TypeCorrect, HandshakeHolds, SessionHolds, PTL

\* mtk_gps_cleanup leaves nothing of a session to the next mtk_gps_init.
THEOREM CleanupHolds ==
    ASSUME Faults = {}
    PROVE  Spec => []CleanupLeavesNothing
<1>1. ThreadHandshake /\ SessionInv => CleanupLeavesNothing
  <2> SUFFICES ASSUME ThreadHandshake, SessionInv, fpc = "idle", ~up
               PROVE  /\ ~start_flag /\ ~started /\ ~mnl /\ ~wakelock
                      /\ ~engineOn /\ ~navigating
                      /\ \A l \in Locks \ {"M_START"} : ~condtion[l]
                      /\ fromMnld = <<>>
    BY DEF CleanupLeavesNothing
  <2>1. ~start_flag /\ ~fwStarted /\ ctl = <<>> /\ ~Running
    BY DEF SessionInv, CallsInv, Starting, On, Running
  <2>2. ~started /\ ~mnl /\ fromMnld = <<>>
    BY <2>1 DEF SessionInv, OrdersInv, TrafficInv, Sent, Quiet
  <2>3. ~wakelock /\ ~engineOn /\ ~navigating
    BY <2>1 DEF SessionInv, ReportsInv, AllOff
  <2>4. \A l \in Locks \ {"M_START"} : ~condtion[l]
    BY DEF SessionInv, SignalsInv, ThreadHandshake, Locks
  <2> QED
    BY <2>1, <2>2, <2>3, <2>4
<1> QED
  BY <1>1, HandshakeHolds, SessionHolds, PTL

----------------------------------------------------------------------------
(* The HAL implements GpsContract.                                         *)

\* Every step is the step of the contract that its effect on the framework
\* calls for, or leaves asked (fwStarted), stopping (stopPending) and what was
\* reported alone.
LEMMA ContractStep ==
    ASSUME Faults = {}, TypeOK, ThreadHandshake, SessionInv, [Next]_vars
    PROVE  [Contract!CNext]_(Contract!cvars)
<1> USE DEF SessionInv, FGoto, HGoto, Contract!cvars, Contract!reported,
     stopPending
<1>1. CASE epo_interface_create \/ epo_interface_flag
  <2>1. CASE fpc = "ep_create"
    BY <1>1, <2>1 DEF epo_interface_create, epo_interface_flag, halVars
  <2>2. CASE fpc = "ep_flag"
    <3>1. Contract!InitCall
      BY <1>1, <2>2 DEF epo_interface_create, epo_interface_flag,
           Contract!InitCall, CallsInv
    <3> QED
      BY <3>1 DEF Contract!CNext
  <2> QED
    BY <1>1, <2>1, <2>2 DEF epo_interface_create, epo_interface_flag
<1>2. CASE start_call
  <2>1. Contract!StartCall
    BY <1>2 DEF start_call, halVars, Contract!StartCall
  <2> QED
    BY <2>1 DEF Contract!CNext
<1>3. CASE start_spin \/ mtk_start
  BY <1>3 DEF start_spin, mtk_start, SendFails, CallsInv, Starting, fwkVars,
       halVars
<1>4. CASE start_status_cb
  <2>1. CASE fpc = "st_oncb"
    <3>1. Contract!EngineOn
      BY <1>4, <2>1 DEF start_status_cb, StatusCb, halVars, CallsInv,
           Starting, ReportsInv, AllOff, Contract!EngineOn, Contract!Off
    <3> QED
      BY <3>1 DEF Contract!CNext, Contract!Progress
  <2>2. CASE fpc = "st_begincb"
    <3>1. Contract!SessionBegin
      BY <1>4, <2>2 DEF start_status_cb, StatusCb, halVars, CallsInv,
           Starting, ReportsInv, Contract!SessionBegin
    <3> QED
      BY <3>1 DEF Contract!CNext, Contract!Progress
  <2> QED
    BY <1>4, <2>1, <2>2 DEF start_status_cb
<1>5. CASE start_wakelock
  <2>1. Contract!AcquireWakelock
    BY <1>5 DEF start_wakelock, halVars, CallsInv, Starting, ReportsInv,
         Contract!AcquireWakelock
  <2> QED
    BY <2>1 DEF Contract!CNext, Contract!Progress
<1>6. CASE start_return
  BY <1>6 DEF start_return, fwkVars, CallsInv, Starting
<1>7. CASE stop_call
  <2>1. Contract!StopCall
    BY <1>7 DEF stop_call, halVars, CallsInv, On, ReportsInv, AllOn,
         Contract!StopCall, Contract!Held
  <2> QED
    BY <2>1 DEF Contract!CNext
<1>8. CASE cleanup_return
  <2>1. Contract!CleanupCall
    BY <1>8 DEF cleanup_return, halVars, CallsInv, Closing, Starting, On,
         Running, ReportsInv, AllOff, Contract!CleanupCall, Contract!Off
  <2> QED
    BY <2>1 DEF Contract!CNext
<1>9. CASE thread_status_cb
  <2>1. hpc \in DiePoints /\ start_flag /\ ~Running
    BY <1>9 DEF thread_status_cb, TrafficInv, Requested, Announced, Handled,
         DiePoints
  <2>2. stopPending
    BY <2>1 DEF CallsInv, Running, On
  <2>3. CASE hpc = "die_endcb"
    <3>1. Contract!SessionEnd
      BY <1>9, <2>1, <2>2, <2>3 DEF thread_status_cb, StatusCb, halVars,
           ReportsInv, AllOn, Contract!SessionEnd, Contract!Held
    <3> QED
      BY <3>1 DEF Contract!CNext, Contract!Progress
  <2>4. CASE hpc = "die_offcb"
    <3>1. engineOn' = FALSE /\ navigating' = FALSE
      BY <1>9, <2>4 DEF thread_status_cb, StatusCb, ReportsInv
    <3>2. navigating = FALSE
      BY <2>4, Zenon DEF ReportsInv, TypeOK, FlagsOK
    <3>3. Contract!EngineOff
      BY <1>9, <2>4, <3>1, <3>2 DEF thread_status_cb, halVars, ReportsInv,
           Contract!EngineOff
    <3> QED
      BY <3>3 DEF Contract!CNext, Contract!Progress
  <2> QED
    BY <1>9, <2>1, <2>3, <2>4 DEF thread_status_cb, DiePoints
<1>10. CASE die_wakelock
  <2>1. Contract!ReleaseWakelock
    BY <1>10 DEF die_wakelock, halVars, ReportsInv, Contract!ReleaseWakelock
  <2> QED
    BY <2>1 DEF Contract!CNext, Contract!Progress
<1>11. CASE die_start_flag
  <2>1. start_flag /\ ~Running
    BY <1>11 DEF die_start_flag, TrafficInv
  <2>2. stopPending
    BY <2>1 DEF CallsInv, Running, On
  <2>3. Contract!StopDone
    BY <1>11, <2>2 DEF die_start_flag, fwkVars, ReportsInv, AllOff,
         Contract!StopDone, Contract!Off
  <2> QED
    BY <2>3 DEF Contract!CNext, Contract!Progress
<1>12. CASE get_condition \/ mtk_gps_init_done \/ gps_state_start \/
     start_status \/ start_clear_stop \/ stop_spin \/ mtk_stop \/
     gps_state_stop \/ cleanup_check \/ cleanup_clear \/ gps_state_done \/
     gps_state_close \/ cleanup_epo \/ gps_state_init \/ gps_state_init_fails
     \/ mtk_cleanup \/ thread_boot \/ thread_control \/ thread_nmea \/
     thread_mnld \/ thread_status \/ die_release_stop \/ thread_exit \/
     thread_epoll_error \/ epo_thread \/ mnld_command \/ mnld_nmea \/
     mnld_crash \/ mnld_icon \/ UNCHANGED vars
  <2>1. UNCHANGED <<fwkVars, start_flag>>
    BY <1>12 DEF get_condition, mtk_gps_init_done, gps_state_start,
         start_status, start_clear_stop, stop_spin, mtk_stop, gps_state_stop,
         cleanup_check, cleanup_clear, gps_state_done, gps_state_close,
         cleanup_epo, gps_state_init, gps_state_init_fails, mtk_cleanup,
         thread_boot, thread_control, thread_nmea, thread_mnld, thread_status,
         die_release_stop, thread_exit, thread_epoll_error, epo_thread,
         mnld_command, mnld_nmea, mnld_crash, mnld_icon, fwkVars, halVars,
         vars
  <2>2. fpc = "st_spin" <=> fpc' = "st_spin"
    BY <1>12 DEF get_condition, mtk_gps_init_done, gps_state_start,
         start_status, start_clear_stop, stop_spin, mtk_stop, gps_state_stop,
         cleanup_check, cleanup_clear, gps_state_done, gps_state_close,
         cleanup_epo, gps_state_init, gps_state_init_fails, mtk_cleanup,
         thread_boot, thread_control, thread_nmea, thread_mnld, thread_status,
         die_release_stop, thread_exit, thread_epoll_error, epo_thread,
         mnld_command, mnld_nmea, mnld_crash, mnld_icon, Waits, vars
  <2> QED
    BY <2>1, <2>2 DEF fwkVars
<1> QED
  BY <1>1, <1>2, <1>3, <1>4, <1>5, <1>6, <1>7, <1>8, <1>9, <1>10, <1>11,
       <1>12 DEF Next, FrameworkStep, FrameworkCall, HalThread, Mnld

\* Without failures the HAL implements the safety part of the contract that
\* KeepsContract states: its first state is one of CInit, and every step of a
\* thread or of mnld is a step of the contract or changes nothing of it.
THEOREM ImplementsContract ==
    ASSUME Faults = {}
    PROVE  Spec => Contract!CSpec
<1>1. Init => Contract!CInit
  BY DEF Init, Contract!CInit, stopPending
<1>2. TypeOK /\ ThreadHandshake /\ SessionInv /\ [Next]_vars
        => [Contract!CNext]_(Contract!cvars)
  BY ContractStep
<1> QED
  BY <1>1, <1>2, TypeCorrect, HandshakeHolds, SessionHolds, PTL
     DEF Spec, Contract!CSpec

\* The wakelock is held until the framework has been told that the session and
\* the engine are over: only the MNL_DIE case releases it.
THEOREM WakelockHolds ==
    ASSUME Faults = {}
    PROVE  Spec => WakelockCoversSession
<1>1. TypeOK /\ ThreadHandshake /\ SessionInv /\ [Next]_vars
        => [wakelock /\ ~wakelock' => ~engineOn /\ ~navigating]_vars
  <2> SUFFICES ASSUME SessionInv, Next, wakelock, ~wakelock'
               PROVE  ~engineOn /\ ~navigating
    OBVIOUS
  <2>1. CASE die_wakelock
    BY <2>1 DEF die_wakelock, HGoto, SessionInv, ReportsInv
  <2>2. CASE ~die_wakelock
    <3>1. CASE FrameworkStep \/ FrameworkCall
      BY <2>2, <3>1 DEF FrameworkStep, FrameworkCall, get_condition,
           mtk_gps_init_done, epo_interface_create, epo_interface_flag,
           start_spin, mtk_start, gps_state_start, start_status,
           start_status_cb, start_wakelock, start_clear_stop, start_return,
           stop_spin, mtk_stop, gps_state_stop, cleanup_check, cleanup_clear,
           gps_state_done, gps_state_close, cleanup_epo, cleanup_return,
           gps_state_init, gps_state_init_fails, start_call, stop_call,
           mtk_cleanup, fwkVars
    <3>2. CASE HalThread \/ thread_epoll_error \/ epo_thread \/ Mnld
      BY <2>2, <3>2 DEF HalThread, Mnld, thread_boot, thread_control,
           thread_nmea, thread_mnld, thread_status_cb, thread_status,
           die_release_stop, die_wakelock, die_start_flag, thread_exit,
           thread_epoll_error, epo_thread, mnld_command, mnld_nmea,
           mnld_crash, mnld_icon, fwkVars
    <3> QED
      BY <3>1, <3>2 DEF Next
  <2> QED
    BY <2>1, <2>2
<1> QED
  BY <1>1, TypeCorrect, HandshakeHolds, SessionHolds, PTL
     DEF Spec, WakelockCoversSession
=============================================================================

----------------------------- MODULE GpsContract -----------------------------
(***************************************************************************)
(* What the GPS HAL promises the framework (the GpsInterface comments and  *)
(* the GPS_STATUS_* comments of src/include/hardware/gps.h.bak), without   *)
(* threads, sockets or mnld: every session the framework asks for goes     *)
(* through engine on, session begin, wakelock taken, and, once stop has    *)
(* been called, session end, engine off, wakelock released, in this order. *)
(***************************************************************************)
VARIABLES
    up,          \* the interface is initialised
    asked,       \* the framework has called start and not stop since
    stopping,    \* stop was called for the session that is on
    engineOn,    \* GPS_STATUS_ENGINE_ON reported, and not OFF since
    navigating,  \* GPS_STATUS_SESSION_BEGIN reported, and not END since
    wakelock     \* the wakelock is held

reported == <<engineOn, navigating, wakelock>>
cvars == <<up, asked, stopping, reported>>

Off  == ~engineOn /\ ~navigating /\ ~wakelock
Held == engineOn /\ navigating /\ wakelock

CInit == up = FALSE /\ asked = FALSE /\ stopping = FALSE
         /\ engineOn = FALSE /\ navigating = FALSE /\ wakelock = FALSE

InitCall ==
    /\ ~up /\ up' = TRUE
    /\ UNCHANGED <<asked, stopping, reported>>

CleanupCall ==
    /\ up /\ ~asked /\ ~stopping /\ Off
    /\ up' = FALSE
    /\ UNCHANGED <<asked, stopping, reported>>

StartCall ==
    /\ up /\ ~asked /\ asked' = TRUE
    /\ UNCHANGED <<up, stopping, reported>>

\* Stop is called on a session that is on.
StopCall ==
    /\ asked /\ ~stopping /\ Held
    /\ asked' = FALSE /\ stopping' = TRUE
    /\ UNCHANGED <<up, reported>>

\* A session begins only when it was asked for and the last one is over.
EngineOn ==
    /\ asked /\ ~stopping /\ Off
    /\ engineOn' = TRUE
    /\ UNCHANGED <<up, asked, stopping, navigating, wakelock>>

SessionBegin ==
    /\ engineOn /\ ~navigating /\ ~wakelock
    /\ navigating' = TRUE
    /\ UNCHANGED <<up, asked, stopping, engineOn, wakelock>>

AcquireWakelock ==
    /\ navigating /\ ~wakelock
    /\ wakelock' = TRUE
    /\ UNCHANGED <<up, asked, stopping, engineOn, navigating>>

\* A session ends only after stop was called for it.
SessionEnd ==
    /\ stopping /\ Held
    /\ navigating' = FALSE
    /\ UNCHANGED <<up, asked, stopping, engineOn, wakelock>>

EngineOff ==
    /\ engineOn /\ ~navigating /\ wakelock
    /\ engineOn' = FALSE
    /\ UNCHANGED <<up, asked, stopping, navigating, wakelock>>

ReleaseWakelock ==
    /\ ~engineOn /\ wakelock
    /\ wakelock' = FALSE
    /\ UNCHANGED <<up, asked, stopping, engineOn, navigating>>

StopDone ==
    /\ stopping /\ Off
    /\ stopping' = FALSE
    /\ UNCHANGED <<up, asked, reported>>

\* What the HAL owes the framework; the calls are the framework's choice.
Progress ==
    \/ EngineOn \/ SessionBegin \/ AcquireWakelock
    \/ SessionEnd \/ EngineOff \/ ReleaseWakelock \/ StopDone

CNext == InitCall \/ CleanupCall \/ StartCall \/ StopCall \/ Progress

CSpec == CInit /\ [][CNext]_cvars
FairCSpec == CSpec /\ WF_cvars(Progress)
=============================================================================

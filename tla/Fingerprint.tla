---------------------------- MODULE Fingerprint ----------------------------
(***************************************************************************)
(* The MicroArray fingerprint HAL (ma_fingerprint/ma_fprint.c).  Three     *)
(* parties share struct mafprint and the work word of the driver without a *)
(* lock: the framework's thread (ma_open ... ma_close), the sensor thread  *)
(* (thread_run) and the SIGALRM handler.                                   *)
(*                                                                         *)
(* Grain.  A party is interleaved where the code can take long: in poll(), *)
(* in fp_getImage(), in the searches of enroll() and match() (the sleep    *)
(* after a duplicate finger included), before a finished template is       *)
(* written, in fp_calibrate() and in every msleep(), and between a look at *)
(* the work word and the store that follows from it.  The instructions     *)
(* between two such places are one step.                                   *)
(***************************************************************************)
EXTENDS Naturals, FiniteSets

CONSTANTS
    Groups,         \* the groups (users) the framework makes active
    MaxFinger,      \* MAXF, the number of finger slots of a group
    FullGrade,      \* the grade, in samples, at which a template is complete
    Tries,          \* looks at smaf.busy before a call goes on regardless
    SysChecks,      \* checks of one enroll or match event
    AppChecks,      \* checks of one idle event
    EmptyChecks     \* checks without a finger that end an event

ASSUME GroupsNamed == "none" \notin Groups

ASSUME BoundsPositive ==
    \A n \in {MaxFinger, FullGrade, Tries, SysChecks, AppChecks, EmptyChecks} :
        n \in Nat \ {0}

VARIABLES
    work,       \* the driver's work word (fp_setWork, fp_getWork)
    events,     \* the poll events the driver holds: "in" a touch, "pri" a wake-up
    smaf,       \* struct mafprint: the part that is not text or identifiers
    mem,        \* the finger slots with a template in the library's memory
    disk,       \* the finger slots of each group in its database
    loaded,     \* the group whose templates are in memory
    sensor,     \* where thread_run is, and its local variables
    alarm,      \* the SIGALRM handler has found a waiting match and will store DETECT
    client,     \* the call the framework is in
    request,    \* history: what the last call that returned has asked for
    results     \* history: what was wrong with enrolled and matched fingers

vars == <<work, events, smaf, mem, disk, loaded, sensor, alarm, client, request, results>>

None == "none"
Fingers == 1..MaxFinger
NoFid == 0              \* FP_NEWF_FAIL
BadGrade == FullGrade + 1    \* the error code fp_enroll returns for NoFid

-----------------------------------------------------------------------------
(* fp_setWork(w).  The driver wakes the poller for DETECT and FACTORY, which *)
(* only wakeup_event handles; the code works whether or not it does so for   *)
(* the others.                                                               *)
fp_setWork(w, pending) ==
    /\ work' = w
    /\ \/ events' = pending \cup {"pri"}
       \/ w \notin {"DETECT", "FACTORY"} /\ events' = pending

IdleClient == [call |-> None, try |-> 0, gid |-> None]
NoRequest == [what |-> None, raced |-> FALSE]
Polling == [at |-> "poll", what |-> None, i |-> 0, j |-> 0, down |-> FALSE, pressed |-> FALSE]

(* The static initialiser of smaf and the state before ma_open. *)
Init ==
    /\ work = "IDLE" /\ events = {}
    /\ smaf = [fdev |-> FALSE, fdb |-> FALSE, gid |-> None, fid |-> NoFid, grade |-> 0,
               stop |-> FALSE, wait |-> FALSE, first |-> TRUE, busy |-> FALSE]
    /\ mem = {} /\ disk = [g \in Groups |-> {}] /\ loaded = None
    /\ sensor = [Polling EXCEPT !.at = "off"]
    /\ alarm = FALSE
    /\ client = IdleClient
    /\ request = NoRequest
    /\ results = [overwritten |-> FALSE, foreign |-> FALSE]

-----------------------------------------------------------------------------
(* The framework's calls. *)

Idle == client = IdleClient

(* ma_open: fp_open succeeds, and the sensor thread is created; its first    *)
(* handler(60) finds wait cleared.                                           *)
ma_open ==
    /\ Idle /\ ~smaf.fdev
    /\ smaf' = [smaf EXCEPT !.fdev = TRUE, !.wait = TRUE]
    /\ sensor' = Polling
    /\ UNCHANGED <<alarm, work, events, mem, disk, loaded, client, request, results>>

(* new_fid(): the first slot without a template. *)
new_fid == IF Fingers \subseteq mem THEN NoFid
           ELSE CHOOSE f \in Fingers \ mem : \A g \in Fingers \ mem : f <= g

(* The common first part of enroll, verify, cancel and dbClose: ask the      *)
(* sensor thread to stop, and wait.                                          *)
BeginWait(call, gid) ==
    /\ Idle /\ smaf.fdev /\ smaf.fdb
    /\ client' = [call |-> call, try |-> 0, gid |-> gid]
    /\ request' = NoRequest
    /\ UNCHANGED <<alarm, work, events, mem, disk, loaded, sensor, results>>

(* The framework enrolls and verifies for the group it made active last. *)
ma_enroll_begin == BeginWait("enroll", smaf.gid) /\ smaf' = [smaf EXCEPT !.stop = TRUE]

ma_verify_begin == BeginWait("verify", smaf.gid) /\ smaf' = [smaf EXCEPT !.stop = TRUE]

ma_cancel_begin == BeginWait("cancel", None) /\ smaf' = [smaf EXCEPT !.stop = TRUE]

(* ma_set_active_group with an open database: gid is the new group from here *)
(* on, although the database of the old one is still open.                   *)
ma_set_active_group_begin(g) ==
    BeginWait("group", g) /\ smaf' = [smaf EXCEPT !.gid = g, !.stop = TRUE]

(* One turn of the loop that sleeps 50 ms and looks at busy. *)
wait_again ==
    /\ client.call \in {"enroll", "verify", "cancel", "group"}
    /\ smaf.busy /\ client.try + 1 < Tries
    /\ client' = [client EXCEPT !.try = @ + 1]
    /\ UNCHANGED <<alarm, work, events, smaf, mem, disk, loaded, sensor, request, results>>

(* The loop ends: the sensor thread is outside check(), or time is up. *)
WaitOver_patient(call) == client.call = call /\ ~smaf.busy

WaitOver(call) ==
    client.call = call /\ (~smaf.busy \/ client.try + 1 = Tries)

(* The word a wake-up leads to: a DETECT arms the match, a FACTORY ends in   *)
(* an idle word.                                                             *)
WakeWord(what) == IF what = "DETECT" THEN "MATCH" ELSE "IDLE"

(* What the handler and the sensor thread are about to store, from an        *)
(* earlier look at the work word.                                            *)
PendingStores ==
    (IF alarm THEN {"DETECT"} ELSE {})
        \cup (IF sensor.at = "wake" THEN {WakeWord(sensor.what)} ELSE {})

(* The words that serve a request. *)
Serves(what) == CASE what = "ENROLL" -> {"ENROLL"}
                  [] what = "MATCH" -> {"MATCH", "DETECT"}
                  [] OTHER -> {"IDLE"}

(* The request is raced if a pending store is going to overwrite its word. *)
Requested(what) == [what |-> what, raced |-> ~(PendingStores \subseteq Serves(what))]

ma_enroll_go_on ==
    /\ WaitOver("enroll")
    /\ smaf' = [smaf EXCEPT !.stop = FALSE, !.gid = client.gid, !.fid = new_fid, !.grade = 0]
    /\ fp_setWork("ENROLL", events)
    /\ client' = IdleClient /\ request' = Requested("ENROLL")
    /\ UNCHANGED <<alarm, mem, disk, loaded, sensor, results>>

ma_verify_go_on ==
    /\ WaitOver("verify")
    /\ smaf' = [smaf EXCEPT !.stop = FALSE, !.gid = client.gid, !.first = FALSE]
    /\ fp_setWork("MATCH", events)
    /\ client' = IdleClient /\ request' = Requested("MATCH")
    /\ UNCHANGED <<alarm, mem, disk, loaded, sensor, results>>

ma_cancel_go_on ==
    /\ WaitOver("cancel")
    /\ fp_setWork("IDLE", events)
    /\ client' = IdleClient /\ request' = Requested("cancelled")
    /\ UNCHANGED <<alarm, smaf, mem, disk, loaded, sensor, results>>

(* dbOpen after fp_dbClose: the templates of the group are loaded.  A sensor *)
(* that fp_initBoot finds not calibrated is calibrated by the sensor thread  *)
(* while the call waits; otherwise a group with a finger is matched at once. *)
dbOpen(g) ==
    /\ mem' = disk[g] /\ loaded' = g
    /\ smaf' = [smaf EXCEPT !.fdb = TRUE, !.gid = g]
    /\ \/ /\ fp_setWork("FACTORY", events)
          /\ client' = [call |-> "calibration", try |-> 0, gid |-> None]
       \/ /\ fp_setWork(IF disk[g] # {} THEN "MATCH" ELSE "IDLE", events)
          /\ client' = IdleClient
    /\ UNCHANGED <<alarm, disk, sensor, results>>

ma_set_active_group_first(g) ==
    Idle /\ smaf.fdev /\ ~smaf.fdb /\ dbOpen(g) /\ request' = NoRequest

ma_set_active_group_go_on ==
    WaitOver("group") /\ dbOpen(client.gid) /\ UNCHANGED request

(* The wait for fpok ends: with the calibration, or after sixteen seconds    *)
(* whether or not the thread has begun or finished it.                       *)
dbOpen_calibrated ==
    /\ client.call = "calibration"
    /\ client' = IdleClient
    /\ UNCHANGED <<alarm, work, events, smaf, mem, disk, loaded, sensor, request, results>>

(* ma_remove of one finger, or of all: fp_clearEnrollment and fp_dbUpdate;   *)
(* without an open database there is none to update.                         *)
ma_remove(fs) ==
    /\ Idle /\ smaf.fdev
    /\ mem' = mem \ fs
    /\ disk' = [g \in Groups |-> IF g = loaded THEN disk[g] \ fs ELSE disk[g]]
    /\ UNCHANGED <<alarm, work, events, smaf, loaded, sensor, client, request, results>>

(* ma_close: pthread_join of a thread that never ends. *)
ma_close ==
    /\ Idle /\ smaf.fdev
    /\ client' = [IdleClient EXCEPT !.call = "join"]
    /\ UNCHANGED <<alarm, work, events, smaf, mem, disk, loaded, sensor, request, results>>

-----------------------------------------------------------------------------
(* The sensor thread.  s is smaf as the step has left it so far. *)

EventOver(s) == sensor' = Polling /\ smaf' = [s EXCEPT !.wait = TRUE, !.busy = FALSE]

(* CANCEL or UP in the event loop. *)
EventCancelled(s) == EventOver([s EXCEPT !.stop = FALSE])

(* check() begins: it looks at stop before it takes an image. *)
check_begin(s, t) ==
    IF s.stop THEN EventCancelled(s)
    ELSE /\ sensor' = [t EXCEPT !.at = "image", !.down = FALSE, !.pressed = FALSE]
         /\ smaf' = [s EXCEPT !.busy = TRUE]

Checks(what) == IF what = "IDLE" THEN AppChecks ELSE SysChecks

(* The for loop over the checks of an event. *)
NextCheck_uncounted(s, t) == check_begin(s, t)
NextCheck_unlimited(s, t) == check_begin(s, [t EXCEPT !.i = @ + 1])

NextCheck(s, t) ==
    IF t.i + 1 < Checks(t.what) THEN check_begin(s, [t EXCEPT !.i = @ + 1])
    ELSE EventOver(s)

(* interrupt_event(what), up to its first image. *)
interrupt_event(s, what) ==
    LET t == [Polling EXCEPT !.what = what]
    IN  CASE what = "IDLE" -> check_begin([s EXCEPT !.stop = FALSE], t)
          [] what \in {"ENROLL", "MATCH"} -> check_begin(s, t)
          [] OTHER -> EventOver(s)

(* wakeup_event(what), up to fp_setWork for DETECT and FACTORY; otherwise     *)
(* fp_pressed() decides whether it is also a touch.                          *)
wakeup_event(s, what) ==
    IF what \in {"DETECT", "FACTORY"}
    THEN sensor' = [Polling EXCEPT !.at = "wake", !.what = what] /\ smaf' = s
    ELSE interrupt_event(s, what) \/ EventOver(s)

(* poll() returns with some of the pending events, and the thread looks at   *)
(* the work word; a touch goes first.                                        *)
thread_run ==
    /\ sensor.at = "poll"
    /\ \E revents \in SUBSET events \ {{}} :
        LET s == [smaf EXCEPT !.wait = FALSE]
        IN  /\ IF "in" \in revents THEN interrupt_event(s, work)
                                  ELSE wakeup_event(s, work)
            /\ events' = events \ revents
    /\ UNCHANGED <<alarm, work, mem, disk, loaded, client, request, results>>

(* wakeup_event stores the word, after the WAKE_LOCK ioctl or, for FACTORY,  *)
(* when fp_calibrate() returns.  A touch is nothing to it then.  fpok, which *)
(* only ends the wait of dbOpen earlier, is left out.                        *)
wakeup_store ==
    /\ sensor.at = "wake"
    /\ fp_setWork(WakeWord(sensor.what), events)
    /\ EventOver(smaf)
    /\ UNCHANGED <<alarm, mem, disk, loaded, client, request, results>>

(* enroll() takes no sample once the template is complete. *)
EnrollComplete_never == FALSE

EnrollComplete == smaf.grade = FullGrade

(* What the event loop does with the result of check(). *)
CheckResult(ret, t) ==
    LET s == [smaf EXCEPT !.busy = FALSE]
        capture == t.what \in {"ENROLL", "MATCH"}
        searches == \/ ret \in {"FULL", "PART"} /\ t.what = "MATCH"
                    \/ ret = "FULL" /\ t.what = "ENROLL" /\ ~EnrollComplete
                    \/ ret = "PRESSED" /\ ~smaf.first /\ t.what = "MATCH"
    IN  CASE ret \in {"CANCEL", "UP"} -> EventCancelled(s)
          [] ret = "OK" -> IF t.j + 1 = EmptyChecks THEN EventOver(s)
                           ELSE NextCheck(s, [t EXCEPT !.j = @ + 1])
          [] searches -> /\ sensor' = [t EXCEPT !.at = "search", !.down = FALSE,
                                                 !.pressed = (ret = "PRESSED")]
                      /\ smaf' = s
          [] ret = "PRESSED" /\ capture -> NextCheck([s EXCEPT !.first = TRUE], t)
          [] OTHER -> NextCheck(s, t)

(* A quick tap: the finger went down and is gone. *)
QuickTap(ret, down) == IF down /\ ret \in {"UP", "OK"} THEN "PART" ELSE ret

(* fp_getImage and fp_check give ret.  Some results end check(); the others  *)
(* end it when the time is up, and before the next image stop is looked at.  *)
check(ret) ==
    /\ sensor.at = "image"
    /\ LET down == sensor.down \/ ret = "DOWN"
           t == [sensor EXCEPT !.down = down]
       IN  \/ CheckResult(QuickTap(ret, down), t)
           \/ /\ ret \in {"DOWN", "PRESSED", "OK"}
              /\ IF smaf.stop THEN CheckResult("CANCEL", t)
                 ELSE sensor' = t /\ UNCHANGED smaf
    /\ UNCHANGED <<alarm, work, events, mem, disk, loaded, client, request, results>>

Searched(what) == sensor.at = "search" /\ sensor.what = what

(* enroll(): the search finds the finger in another slot. *)
enroll_duplicate ==
    /\ Searched("ENROLL") /\ mem # {}
    /\ NextCheck(smaf, sensor)
    /\ UNCHANGED <<alarm, work, events, mem, disk, loaded, client, request, results>>

(* fp_enroll(fid) adds the sample or finds nothing new in it. *)
fp_enroll(fid) ==
    IF fid = NoFid THEN {BadGrade}
    ELSE {smaf.grade, smaf.grade + 1} \cap (0..FullGrade)

(* enroll(): the finger is in no other slot and the sample is used. *)
enroll(grade) ==
    /\ Searched("ENROLL") /\ grade \in fp_enroll(smaf.fid)
    /\ LET s == [smaf EXCEPT !.grade = grade]
       IN  IF grade = FullGrade
           THEN /\ mem' = mem \cup {smaf.fid}
                /\ sensor' = [sensor EXCEPT !.at = "store"] /\ smaf' = s
           ELSE NextCheck(s, sensor) /\ UNCHANGED mem
    /\ results' = [results EXCEPT !.overwritten = @ \/ smaf.fid \in mem]
    /\ UNCHANGED <<alarm, work, events, disk, loaded, client, request>>

(* fp_dbUpdate(fid): the slot in the database becomes the slot in memory. *)
fp_dbUpdate(f) ==
    disk' = [disk EXCEPT ![loaded] = (@ \ {f}) \cup (mem \cap {f})]

(* enroll(): the complete template is written, with its token. *)
enroll_store ==
    /\ sensor.at = "store"
    /\ fp_dbUpdate(smaf.fid)
    /\ NextCheck(smaf, sensor)
    /\ UNCHANGED <<alarm, work, events, mem, loaded, client, request, results>>

MatchEnd == NextCheck([smaf EXCEPT !.first = @ \/ sensor.pressed], sensor)

(* match() finds finger f: notify_match(smaf.gid, f), and the template is    *)
(* updated.                                                                  *)
match(f) ==
    /\ Searched("MATCH") /\ f \in mem
    /\ results' = [results EXCEPT !.foreign = @ \/ smaf.gid # loaded]
    /\ fp_dbUpdate(f)
    /\ MatchEnd
    /\ UNCHANGED <<alarm, work, events, mem, loaded, client, request>>

(* match() finds none. *)
match_fails ==
    /\ Searched("MATCH")
    /\ MatchEnd
    /\ UNCHANGED <<alarm, work, events, mem, disk, loaded, client, request, results>>

-----------------------------------------------------------------------------
(* SIGALRM every three minutes: a match that waits for a touch is set up     *)
(* anew.                                                                     *)
WaitingMatch_unread == smaf.wait

WaitingMatch == work = "MATCH" /\ smaf.wait

handler_look ==
    /\ sensor.at # "off" /\ ~alarm
    /\ WaitingMatch
    /\ alarm' = TRUE
    /\ UNCHANGED <<work, events, smaf, mem, disk, loaded, sensor, client, request, results>>

handler_store ==
    /\ alarm /\ alarm' = FALSE
    /\ fp_setWork("DETECT", events)
    /\ UNCHANGED <<smaf, mem, disk, loaded, sensor, client, request, results>>

(* A finger touches the sensor. *)
Touch ==
    /\ sensor.at # "off" /\ "in" \notin events
    /\ events' = events \cup {"in"}
    /\ UNCHANGED <<alarm, work, smaf, mem, disk, loaded, sensor, client, request, results>>

ClientStep ==
    \/ wait_again \/ ma_enroll_go_on \/ ma_verify_go_on \/ ma_cancel_go_on
    \/ ma_set_active_group_go_on \/ dbOpen_calibrated

ClientCall ==
    \/ ma_open \/ ma_enroll_begin \/ ma_verify_begin \/ ma_cancel_begin \/ ma_close
    \/ \E g \in Groups : ma_set_active_group_first(g) \/ ma_set_active_group_begin(g)
    \/ \E fs \in {{f} : f \in Fingers} \cup {Fingers} : ma_remove(fs)

SensorStep ==
    \/ thread_run \/ wakeup_store \/ enroll_duplicate \/ enroll_store \/ match_fails
    \/ \E ret \in {"COMM_FAIL", "UP", "FULL", "PART", "DOWN", "PRESSED", "OK"} : check(ret)
    \/ \E grade \in 0..BadGrade : enroll(grade)
    \/ \E f \in Fingers : match(f)

Alarm == handler_look \/ handler_store

Next == ClientStep \/ ClientCall \/ SensorStep \/ Alarm \/ Touch

Spec == Init /\ [][Next]_vars

(* Both threads keep running; the framework need not call, fingers need not  *)
(* touch and the alarm need not ring.                                        *)
LiveSpec == Spec /\ WF_vars(ClientStep) /\ WF_vars(SensorStep)

-----------------------------------------------------------------------------
Works == {"IDLE", "ENROLL", "MATCH", "FACTORY", "DETECT"}

Mafprint == [
    fdev : BOOLEAN, fdb : BOOLEAN, gid : Groups \cup {None},
    fid : Fingers \cup {NoFid}, grade : 0..BadGrade,
    stop : BOOLEAN, wait : BOOLEAN, first : BOOLEAN, busy : BOOLEAN]

SensorState == [
    at : {"off", "poll", "image", "search", "store", "wake"},
    what : Works \cup {None},
    i : 0..(SysChecks + AppChecks - 1), j : 0..(EmptyChecks - 1),
    down : BOOLEAN, pressed : BOOLEAN]

ClientState == [
    call : {None, "enroll", "verify", "cancel", "group", "calibration", "join"},
    try : 0..(Tries - 1), gid : Groups \cup {None}]

ThreadsOK == smaf \in Mafprint /\ sensor \in SensorState /\ client \in ClientState

DriverOK == work \in Works /\ events \subseteq {"in", "pri"} /\ alarm \in BOOLEAN

TemplatesOK ==
    /\ mem \subseteq Fingers /\ disk \in [Groups -> SUBSET Fingers]
    /\ loaded \in Groups \cup {None}
    /\ request \in [what : {None, "ENROLL", "MATCH", "cancelled"}, raced : BOOLEAN]
    /\ results \in [overwritten : BOOLEAN, foreign : BOOLEAN]

FlagsAgree ==
    /\ smaf.busy <=> sensor.at = "image"
    /\ smaf.wait <=> sensor.at = "poll"

(* The variables have their types, the check counters stay below their       *)
(* limits, busy is set exactly while an image is taken and wait exactly      *)
(* while the thread polls: the two flags the other parties decide by.        *)
TypeOK == ThreadsOK /\ DriverOK /\ TemplatesOK /\ FlagsAgree

(* As long as one group is in use, a slot that holds a complete template is  *)
(* never enrolled into again, however calls, touches and a loop that         *)
(* survived a cancel interleave: new_fid and the reset of the grade keep     *)
(* enroll() off it.  (A change of the group under a running enroll() loads   *)
(* other templates and leaves smaf.fid as it is; see GroupRestricted.)       *)
TemplateNotOverwritten == ~results.overwritten

(* After ma_enroll, ma_verify or ma_cancel has returned, and until the next  *)
(* request, the driver works for that request, or is idle after a cancel,    *)
(* and no stop flag of an earlier call is left that would cancel the first   *)
(* touch.  The one exception: when the call stored its word, the handler or  *)
(* the sensor thread was between its own look at the word and its store.     *)
RequestArmed ==
    request.what # None =>
        /\ ~request.raced => work \in Serves(request.what)
        /\ request.what # "cancelled" => ~smaf.stop

(* Every call but ma_close returns, even if touch follows touch: the wait    *)
(* for busy is limited.                                                      *)
CallsReturn == (client.call \notin {None, "join"}) ~> Idle

(* The sensor thread comes back to poll() from every event, whatever the     *)
(* sensor and the framework do.                                              *)
EventsEnd == (sensor.at \notin {"off", "poll"}) ~> (sensor.at = "poll")

(* ma_set_active_group "Restricts the HAL operation to a set of fingerprints *)
(* belonging to a group provided": a finger that is reported as              *)
(* authenticated for a group is a finger of that group.                      *)
GroupRestricted == ~results.foreign

=============================================================================

-------------------------- MODULE FingerprintProofs --------------------------
(***************************************************************************)
(* Theorems about the fingerprint HAL, for every number of finger slots,   *)
(* samples, tries and checks.                                              *)
(*                                                                         *)
(* The sensor thread leaves an event at many places, all through EventOver *)
(* or check_begin.  Left says what they have in common, and each step of   *)
(* the thread is first reduced to it.  On that rest type correctness with  *)
(* the meaning of busy and wait (TypeCorrect), that the driver works for   *)
(* the last request unless a pending store raced with it (ArmedInv:        *)
(* RequestHolds), and that a complete template is not enrolled into again  *)
(* (TemplateInv: TemplatesHold, for one group).                            *)
(***************************************************************************)
EXTENDS Fingerprint, WellFoundedInduction, TLAPS

----------------------------------------------------------------------------
(* The sensor thread between two checks.                                   *)

\* How a step of the thread that ends in poll() or with the next image leaves
\* smaf: only stop may be cleared, first may change, and the two flags agree
\* with where the thread is.
Left(s) ==
    /\ smaf' \in Mafprint /\ sensor' \in SensorState /\ FlagsAgree'
    /\ smaf'.fdev = s.fdev /\ smaf'.fdb = s.fdb /\ smaf'.gid = s.gid
    /\ smaf'.fid = s.fid /\ smaf'.grade = s.grade
    /\ smaf'.stop => s.stop
    /\ sensor'.at \in {"poll", "image"}

\* The thread can be at the beginning of poll().
LEMMA PollingOK == Polling \in SensorState /\ Polling.at = "poll"
BY BoundsPositive DEF Polling, SensorState

\* The end of an event: wait is set and busy cleared.
LEMMA EventOverLeft ==
    ASSUME NEW s \in Mafprint, EventOver(s)
    PROVE  Left(s)
BY PollingOK DEF EventOver, Left, Mafprint, FlagsAgree

\* CANCEL and UP clear stop.
LEMMA EventCancelledLeft ==
    ASSUME NEW s \in Mafprint, EventCancelled(s)
    PROVE  Left(s)
BY PollingOK DEF EventCancelled, EventOver, Left, Mafprint, FlagsAgree

\* check() takes an image with busy set, or finds stop.
LEMMA CheckBeginLeft ==
    ASSUME NEW s \in Mafprint, ~s.wait, NEW t \in SensorState,
           check_begin(s, t)
    PROVE  Left(s)
<1>1. CASE s.stop
  BY <1>1, EventCancelledLeft DEF check_begin
<1>2. CASE ~s.stop
  <2>1. /\ sensor' = [t EXCEPT !.at = "image", !.down = FALSE,
                               !.pressed = FALSE]
        /\ smaf' = [s EXCEPT !.busy = TRUE]
    BY <1>2 DEF check_begin
  <2>2. sensor' \in SensorState /\ sensor'.at = "image"
    BY <2>1 DEF SensorState
  <2> QED
    BY <2>1, <2>2 DEF Left, Mafprint, FlagsAgree
<1> QED
  BY <1>1, <1>2

\* The loop goes on with the next check, counted, or is over.
LEMMA NextCheckLeft ==
    ASSUME NEW s \in Mafprint, ~s.wait, NEW t \in SensorState,
           NextCheck(s, t)
    PROVE  Left(s)
<1>1. CASE t.i + 1 < Checks(t.what)
  <2>1. check_begin(s, [t EXCEPT !.i = @ + 1])
    BY <1>1 DEF NextCheck
  <2>2. Checks(t.what) <= SysChecks + AppChecks /\ Checks(t.what) \in Nat
    BY BoundsPositive DEF Checks
  <2>3. t.i + 1 \in 0..(SysChecks + AppChecks - 1)
    BY <1>1, <2>2, BoundsPositive DEF SensorState
  <2>4. [t EXCEPT !.i = @ + 1] \in SensorState
    BY <2>3 DEF SensorState
  <2> QED
    BY <2>1, <2>4, CheckBeginLeft
<1>2. CASE ~(t.i + 1 < Checks(t.what))
  BY <1>2, EventOverLeft DEF NextCheck
<1> QED
  BY <1>1, <1>2

\* interrupt_event begins a check, or the event is over.
LEMMA InterruptLeft ==
    ASSUME NEW s \in Mafprint, ~s.wait, NEW what \in Works,
           interrupt_event(s, what)
    PROVE  Left(s)
<1> DEFINE t == [Polling EXCEPT !.what = what]
           r == [s EXCEPT !.stop = FALSE]
<1>1. t \in SensorState
  BY PollingOK DEF SensorState
<1>2. r \in Mafprint /\ ~r.wait
  BY DEF Mafprint
<1>3. CASE what = "IDLE"
  <2>1. check_begin(r, t)
    BY <1>3 DEF interrupt_event
  <2>2. Left(r)
    BY <1>1, <1>2, <2>1, CheckBeginLeft
  <2>3. /\ r.fdev = s.fdev /\ r.fdb = s.fdb /\ r.gid = s.gid
        /\ r.fid = s.fid /\ r.grade = s.grade /\ ~r.stop
    BY DEF Mafprint
  <2> QED
    BY <2>2, <2>3 DEF Left
<1>4. CASE what \in {"ENROLL", "MATCH"}
  <2>1. check_begin(s, t)
    BY <1>4 DEF interrupt_event
  <2> QED
    BY <1>1, <2>1, CheckBeginLeft
<1>5. CASE what \notin {"IDLE", "ENROLL", "MATCH"}
  <2>1. EventOver(s)
    BY <1>5 DEF interrupt_event
  <2> QED
    BY <2>1, EventOverLeft
<1> QED
  BY <1>3, <1>4, <1>5

\* smaf after fp_getImage: busy is cleared.
Imaged == [smaf EXCEPT !.busy = FALSE]

\* The search of enroll() or match() begins; enroll() only with a template
\* that is not complete.
SearchBegins(what) ==
    /\ smaf' = Imaged
    /\ sensor' \in SensorState /\ sensor'.at = "search"
    /\ sensor'.what = what
    /\ what = "ENROLL" => smaf.grade # FullGrade

\* The event loop goes on, or the search begins.
LEMMA CheckResultLeft ==
    ASSUME ThreadsOK, ~smaf.wait, NEW ret, NEW t \in SensorState,
           CheckResult(ret, t)
    PROVE  Left(Imaged) \/ SearchBegins(t.what)
<1> DEFINE s == Imaged
           capture == t.what \in {"ENROLL", "MATCH"}
           searches == \/ ret \in {"FULL", "PART"} /\ t.what = "MATCH"
                       \/ ret = "FULL" /\ t.what = "ENROLL" /\ ~EnrollComplete
                       \/ ret = "PRESSED" /\ ~smaf.first /\ t.what = "MATCH"
<1>1. s \in Mafprint /\ ~s.wait
  BY DEF Imaged, ThreadsOK, Mafprint
<1>2. CASE EventCancelled(s) \/ EventOver(s)
  BY <1>1, <1>2, EventCancelledLeft, EventOverLeft
<1>3. CASE NextCheck(s, t)
  BY <1>1, <1>3, NextCheckLeft
<1>4. CASE /\ t.j + 1 # EmptyChecks
           /\ NextCheck(s, [t EXCEPT !.j = @ + 1])
  <2>1. t.j + 1 \in 0..(EmptyChecks - 1)
    BY <1>4, BoundsPositive DEF SensorState
  <2>2. [t EXCEPT !.j = @ + 1] \in SensorState
    BY <2>1 DEF SensorState
  <2> QED
    BY <1>1, <1>4, <2>2, NextCheckLeft
<1>5. CASE NextCheck([s EXCEPT !.first = TRUE], t)
  <2> DEFINE r == [s EXCEPT !.first = TRUE]
  <2>1. r \in Mafprint /\ ~r.wait
    BY <1>1 DEF Mafprint
  <2>2. Left(r)
    BY <1>5, <2>1, NextCheckLeft
  <2>3. /\ r.fdev = s.fdev /\ r.fdb = s.fdb /\ r.gid = s.gid
        /\ r.fid = s.fid /\ r.grade = s.grade /\ r.stop = s.stop
    BY <1>1 DEF Mafprint
  <2> QED
    BY <2>2, <2>3 DEF Left
<1>6. CASE /\ searches
           /\ sensor' = [t EXCEPT !.at = "search", !.down = FALSE,
                                  !.pressed = (ret = "PRESSED")]
           /\ smaf' = s
  <2>1. (ret = "PRESSED") \in BOOLEAN
    OBVIOUS
  <2>2. sensor' \in SensorState /\ sensor'.at = "search"
        /\ sensor'.what = t.what
    BY <1>6, <2>1 DEF SensorState
  <2> QED
    BY <1>6, <2>2 DEF SearchBegins, EnrollComplete
<1>7. \/ EventCancelled(s) \/ EventOver(s) \/ NextCheck(s, t)
      \/ t.j + 1 # EmptyChecks /\ NextCheck(s, [t EXCEPT !.j = @ + 1])
      \/ NextCheck([s EXCEPT !.first = TRUE], t)
      \/ /\ searches
         /\ sensor' = [t EXCEPT !.at = "search", !.down = FALSE,
                                !.pressed = (ret = "PRESSED")]
         /\ smaf' = s
  BY Zenon DEF CheckResult, Imaged
<1> QED
  BY <1>2, <1>3, <1>4, <1>5, <1>6, <1>7

----------------------------------------------------------------------------
(* The steps of the sensor thread, by what they leave.                     *)

\* The driver's word and events as the sensor thread may leave them: only the
\* store of a wake-up changes the word.
DriverStep ==
    /\ DriverOK'
    /\ \/ work' = work
       \/ sensor.at = "wake" /\ work' = WakeWord(sensor.what)

\* fp_setWork leaves a word and a set of events.
LEMMA SetWorkOK ==
    ASSUME NEW w \in Works, NEW pending \in SUBSET {"in", "pri"},
           fp_setWork(w, pending), alarm' \in BOOLEAN
    PROVE  DriverOK' /\ work' = w
BY DEF fp_setWork, DriverOK

\* The words a wake-up stores are words.
LEMMA WakeWordOK == \A what : WakeWord(what) \in Works
BY DEF WakeWord, Works

\* poll() returns: the event is over, an image is taken, or a wake-up is going
\* to store a word, after a look that found DETECT or FACTORY.
LEMMA ThreadRunLeft ==
    ASSUME TypeOK, thread_run
    PROVE  /\ DriverStep /\ work' = work
           /\ \/ Left(smaf)
              \/ /\ work \in {"DETECT", "FACTORY"}
                 /\ sensor'.at = "wake" /\ sensor'.what = work
                 /\ sensor' \in SensorState
                 /\ smaf' = [smaf EXCEPT !.wait = FALSE]
<1> DEFINE s == [smaf EXCEPT !.wait = FALSE]
<1>1. /\ s \in Mafprint /\ ~s.wait
      /\ s.fdev = smaf.fdev /\ s.fdb = smaf.fdb /\ s.gid = smaf.gid
      /\ s.fid = smaf.fid /\ s.grade = smaf.grade /\ s.stop = smaf.stop
  BY DEF TypeOK, ThreadsOK, Mafprint
<1>2. Left(s) => Left(smaf)
  BY <1>1 DEF Left
<1>3. PICK revents \in SUBSET events \ {{}} :
          /\ IF "in" \in revents THEN interrupt_event(s, work)
                                 ELSE wakeup_event(s, work)
          /\ events' = events \ revents
  BY DEF thread_run
<1>4. work \in Works /\ work' = work
  BY DEF TypeOK, DriverOK, thread_run
<1>5. DriverStep
  BY <1>3, <1>4 DEF DriverStep, DriverOK, TypeOK, thread_run
<1>6. CASE interrupt_event(s, work) \/ EventOver(s)
  <2>1. Left(s)
    BY <1>1, <1>4, <1>6, InterruptLeft, EventOverLeft
  <2> QED
    BY <1>2, <1>4, <1>5, <2>1
<1>7. CASE /\ work \in {"DETECT", "FACTORY"} /\ smaf' = s
           /\ sensor' = [Polling EXCEPT !.at = "wake", !.what = work]
  <2>1. /\ sensor' \in SensorState
        /\ sensor'.at = "wake" /\ sensor'.what = work
    BY <1>4, <1>7, PollingOK DEF SensorState
  <2> QED
    BY <1>4, <1>5, <1>7, <2>1
<1> QED
  BY <1>3, <1>6, <1>7 DEF wakeup_event

\* The store of a wake-up ends the event.
LEMMA WakeupStoreLeft ==
    ASSUME TypeOK, wakeup_store
    PROVE  DriverStep /\ Left(smaf)
<1>1. /\ sensor.at = "wake" /\ EventOver(smaf) /\ alarm' = alarm
      /\ fp_setWork(WakeWord(sensor.what), events)
  BY DEF wakeup_store
<1>2. DriverOK' /\ work' = WakeWord(sensor.what)
  BY <1>1, SetWorkOK, WakeWordOK DEF TypeOK, DriverOK
<1> QED
  BY <1>1, <1>2, EventOverLeft DEF DriverStep, TypeOK, ThreadsOK

\* One image: the thread goes on taking images, the loop goes on, or the
\* search begins.
LEMMA CheckLeft ==
    ASSUME TypeOK, NEW ret, check(ret)
    PROVE  \/ Left(smaf)
           \/ SearchBegins(sensor.what)
<1> DEFINE down == sensor.down \/ ret = "DOWN"
           t == [sensor EXCEPT !.down = down]
<1>1. sensor.at = "image" /\ sensor \in SensorState /\ smaf \in Mafprint
  BY DEF TypeOK, ThreadsOK, check
<1>2. ~smaf.wait /\ smaf.busy
  BY <1>1 DEF TypeOK, FlagsAgree
<1>3. down \in BOOLEAN
  OBVIOUS
<1>4. t \in SensorState /\ t.at = "image" /\ t.what = sensor.what
  <2> HIDE DEF down
  <2> QED
    BY <1>1, <1>3 DEF SensorState
<1>5. Left(Imaged) => Left(smaf)
  <2>1. /\ Imaged.fdev = smaf.fdev /\ Imaged.fdb = smaf.fdb
        /\ Imaged.gid = smaf.gid /\ Imaged.fid = smaf.fid
        /\ Imaged.grade = smaf.grade /\ Imaged.stop = smaf.stop
    BY <1>1 DEF Imaged, Mafprint
  <2> QED
    BY <2>1 DEF Left
<1>6. ASSUME NEW r, CheckResult(r, t)
      PROVE  Left(smaf) \/ SearchBegins(sensor.what)
  <2>1. Left(Imaged) \/ SearchBegins(t.what)
    BY <1>2, <1>4, <1>6, CheckResultLeft DEF TypeOK
  <2> QED
    BY <1>4, <1>5, <2>1
<1>7. CASE sensor' = t /\ UNCHANGED smaf
  BY <1>1, <1>2, <1>4, <1>7 DEF Left, FlagsAgree
<1>8. \/ CheckResult(QuickTap(ret, down), t)
      \/ CheckResult("CANCEL", t)
      \/ sensor' = t /\ UNCHANGED smaf
  BY Zenon DEF check
<1> QED
  BY <1>6, <1>7, <1>8

\* The end of a search or of a store.
LEMMA NextLeft ==
    ASSUME TypeOK, sensor.at # "poll", NextCheck(smaf, sensor)
    PROVE  Left(smaf)
BY NextCheckLeft DEF TypeOK, ThreadsOK, FlagsAgree

\* The end of a match, which may set first.
LEMMA MatchEndLeft ==
    ASSUME TypeOK, sensor.at # "poll", MatchEnd
    PROVE  Left(smaf)
<1> DEFINE b == smaf.first \/ sensor.pressed
           s == [smaf EXCEPT !.first = b]
<1>1. b \in BOOLEAN
  OBVIOUS
<1>2. /\ s \in Mafprint /\ ~s.wait
      /\ s.fdev = smaf.fdev /\ s.fdb = smaf.fdb /\ s.gid = smaf.gid
      /\ s.fid = smaf.fid /\ s.grade = smaf.grade /\ s.stop = smaf.stop
  <2> HIDE DEF b
  <2> QED
    BY <1>1 DEF TypeOK, ThreadsOK, FlagsAgree, Mafprint
<1>3. NextCheck(s, sensor)
  BY Zenon DEF MatchEnd
<1>4. Left(s)
  BY <1>2, <1>3, NextCheckLeft DEF TypeOK, ThreadsOK
<1> QED
  BY <1>2, <1>4 DEF Left

\* A sample of enroll(): the template is complete and stored next, or the loop
\* goes on.
LEMMA EnrollLeft ==
    ASSUME TypeOK, NEW grade \in 0..BadGrade, enroll(grade)
    PROVE  LET s == [smaf EXCEPT !.grade = grade]
           IN  \/ /\ grade # FullGrade /\ mem' = mem
                  /\ Left(s)
               \/ /\ grade = FullGrade /\ mem' = mem \cup {smaf.fid}
                  /\ smaf.fid \in Fingers
                  /\ smaf' = s /\ sensor' = [sensor EXCEPT !.at = "store"]
<1> DEFINE s == [smaf EXCEPT !.grade = grade]
<1>1. s \in Mafprint /\ ~s.wait
  BY DEF TypeOK, ThreadsOK, FlagsAgree, Mafprint, enroll, Searched
<1>2. CASE grade = FullGrade
  <2>1. smaf.fid # NoFid
    BY <1>2, BoundsPositive DEF enroll, fp_enroll, BadGrade
  <2>2. smaf.fid \in Fingers
    BY <2>1 DEF TypeOK, ThreadsOK, Mafprint
  <2> QED
    BY <1>2, <2>2 DEF enroll
<1>3. CASE grade # FullGrade
  <2>1. NextCheck(s, sensor) /\ mem' = mem
    BY <1>3 DEF enroll
  <2>2. Left(s)
    BY <1>1, <2>1, NextCheckLeft DEF TypeOK, ThreadsOK
  <2> QED
    BY <1>3, <2>1, <2>2
<1> QED
  BY <1>2, <1>3

----------------------------------------------------------------------------
(* Type correctness.                                                       *)

\* A set of numbers that is not empty has a smallest one.
LEMMA SmallestNat ==
    ASSUME NEW T, T \subseteq Nat, T # {}
    PROVE  \E x \in T : \A y \in T : x <= y
<1> DEFINE R == {ss \in Nat \X Nat : ss[1] < ss[2]}
<1>1. IsWellFoundedOn(R, Nat)
  BY NatLessThanWellFounded, Zenon DEF OpToRel
<1> HIDE DEF R
<1>2. PICK x \in T : \A y \in T : ~(<<y, x>> \in R)
  BY <1>1, WFMin
<1>3. ASSUME NEW y \in T, y < x
      PROVE  <<y, x>> \in R
  <2>1. <<y, x>> \in Nat \X Nat /\ <<y, x>>[1] < <<y, x>>[2]
    BY <1>3
  <2> QED
    BY <2>1, Zenon DEF R
<1>4. \A y \in T : ~(y < x)
  BY <1>2, <1>3
<1>5. \A y \in T : x <= y
  BY <1>4
<1> QED
  BY <1>5

\* new_fid gives a slot without a template, or none.
LEMMA NewFid ==
    ASSUME mem \subseteq Fingers
    PROVE  new_fid \in Fingers \cup {NoFid} /\ new_fid \notin mem
<1>1. NoFid \notin Fingers
  BY BoundsPositive DEF Fingers, NoFid
<1>2. CASE Fingers \subseteq mem
  BY <1>1, <1>2 DEF new_fid
<1>3. CASE ~(Fingers \subseteq mem)
  <2>1. Fingers \ mem \subseteq Nat /\ Fingers \ mem # {}
    BY <1>3, BoundsPositive DEF Fingers
  <2>2. \E f \in Fingers \ mem : \A g \in Fingers \ mem : f <= g
    BY <2>1, SmallestNat
  <2>3. new_fid \in Fingers \ mem
    BY <1>3, <2>2 DEF new_fid
  <2> QED
    BY <2>3
<1> QED
  BY <1>2, <1>3

\* Waiting calls.
LEMMA ClientOK ==
    /\ IdleClient \in ClientState
    /\ [IdleClient EXCEPT !.call = "join"] \in ClientState
    /\ \A c \in {"enroll", "verify", "cancel", "group", "calibration"},
          g \in Groups \cup {None} :
          [call |-> c, try |-> 0, gid |-> g] \in ClientState
BY BoundsPositive DEF IdleClient, ClientState, None

\* dbOpen loads the templates of a group and sets the word to work on.
LEMMA DbOpenLeft ==
    ASSUME TypeOK, NEW g \in Groups, dbOpen(g)
    PROVE  /\ smaf' = [smaf EXCEPT !.fdb = TRUE, !.gid = g]
           /\ smaf' \in Mafprint /\ FlagsAgree'
           /\ sensor' = sensor /\ DriverOK' /\ mem' = disk[g]
           /\ client' \in {IdleClient,
                           [call |-> "calibration", try |-> 0, gid |-> None]}
           /\ client' \in ClientState
           /\ loaded' = g /\ UNCHANGED <<disk, results>>
<1>1. events \in SUBSET {"in", "pri"} /\ "FACTORY" \in Works
      /\ "MATCH" \in Works /\ "IDLE" \in Works
  BY DEF TypeOK, DriverOK, Works
<1>2. DriverOK'
  BY <1>1, SetWorkOK DEF dbOpen, TypeOK, DriverOK
<1>3. /\ smaf' = [smaf EXCEPT !.fdb = TRUE, !.gid = g]
      /\ sensor' = sensor /\ mem' = disk[g] /\ loaded' = g
      /\ UNCHANGED <<disk, results>>
      /\ client' \in {IdleClient,
                      [call |-> "calibration", try |-> 0, gid |-> None]}
  BY DEF dbOpen
<1>4. smaf' \in Mafprint /\ FlagsAgree'
  BY <1>3 DEF TypeOK, ThreadsOK, FlagsAgree, Mafprint
<1>5. client' \in ClientState
  BY <1>3, ClientOK
<1> QED
  BY <1>2, <1>3, <1>4, <1>5

\* fp_dbUpdate writes fingers.
LEMMA DbUpdateOK ==
    ASSUME TypeOK, NEW f, fp_dbUpdate(f)
    PROVE  disk' \in [Groups -> SUBSET Fingers]
<1>1. /\ disk \in [Groups -> SUBSET Fingers] /\ mem \subseteq Fingers
      /\ disk' = [disk EXCEPT ![loaded] = (@ \ {f}) \cup (mem \cap {f})]
  BY DEF TypeOK, TemplatesOK, fp_dbUpdate
<1> QED
  BY <1>1

\* The sensor thread exists exactly while the device is open.
Opened == smaf.fdev <=> sensor.at # "off"

\* A call of ma_set_active_group waits for a group.
Grouped == client.call = "group" => client.gid \in Groups

\* The steps that leave the templates, the group and the history alone.
LEMMA TemplatesStay ==
    ASSUME TemplatesOK, UNCHANGED <<mem, disk, loaded, request, results>>
    PROVE  TemplatesOK'
BY DEF TemplatesOK

\* The history of a request is typed, raced or not.
LEMMA RequestOK ==
    ASSUME NEW what \in {"ENROLL", "MATCH", "cancelled"}
    PROVE  /\ Requested(what) \in [what : {None, "ENROLL", "MATCH", "cancelled"},
                                   raced : BOOLEAN]
           /\ Requested(what).what = what
           /\ Requested(what).raced <=> ~(PendingStores \subseteq Serves(what))
<1> DEFINE r == ~(PendingStores \subseteq Serves(what))
<1>1. r \in BOOLEAN
  OBVIOUS
<1>2. Requested(what) = [what |-> what, raced |-> r]
  BY Zenon DEF Requested
<1> HIDE DEF r
<1>3. /\ Requested(what) \in [what : {None, "ENROLL", "MATCH", "cancelled"},
                               raced : BOOLEAN]
      /\ Requested(what).what = what /\ Requested(what).raced = r
  BY <1>1, <1>2
<1> QED
  BY <1>3 DEF r

\* Before a request there is none.
LEMMA NoRequestOK ==
    /\ NoRequest \in [what : {None, "ENROLL", "MATCH", "cancelled"},
                       raced : BOOLEAN]
    /\ NoRequest.what = None
BY DEF NoRequest

\* Every step of the framework, the sensor thread and the alarm keeps the
\* types, and busy and wait as they are meant.
LEMMA TypeStep ==
    ASSUME TypeOK, Opened, Grouped, [Next]_vars
    PROVE  TypeOK' /\ Opened'
<1>1. /\ smaf \in Mafprint /\ sensor \in SensorState /\ client \in ClientState
      /\ work \in Works /\ events \in SUBSET {"in", "pri"}
      /\ alarm \in BOOLEAN
  BY DEF TypeOK, ThreadsOK, DriverOK
<1>2. CASE ma_open
  <2>1. /\ smaf' = [smaf EXCEPT !.fdev = TRUE, !.wait = TRUE]
        /\ sensor' = Polling /\ client' = client
    BY <1>2 DEF ma_open
  <2>2. ~smaf.busy
    BY <1>2 DEF ma_open, TypeOK, Opened, FlagsAgree
  <2>3. ThreadsOK' /\ FlagsAgree' /\ Opened'
    BY <1>1, <2>1, <2>2, PollingOK DEF ThreadsOK, FlagsAgree, Opened, Mafprint
  <2>4. DriverOK' /\ TemplatesOK'
    BY <1>2, TemplatesStay DEF ma_open, TypeOK, DriverOK
  <2> QED
    BY <2>3, <2>4 DEF TypeOK
<1>3. CASE ma_enroll_begin \/ ma_verify_begin \/ ma_cancel_begin
  <2>1. smaf' = [smaf EXCEPT !.stop = TRUE] /\ sensor' = sensor
    BY <1>3 DEF ma_enroll_begin, ma_verify_begin, ma_cancel_begin, BeginWait
  <2>2. client' \in ClientState
    <3>1. smaf.gid \in Groups \cup {None} /\ None \in Groups \cup {None}
      BY <1>1 DEF Mafprint
    <3> QED
      BY <1>3, <3>1, ClientOK
         DEF ma_enroll_begin, ma_verify_begin, ma_cancel_begin, BeginWait
  <2>3. ThreadsOK' /\ FlagsAgree' /\ Opened'
    BY <1>1, <2>1, <2>2
       DEF ThreadsOK, FlagsAgree, Opened, Mafprint, TypeOK
  <2>4. DriverOK' /\ TemplatesOK'
    BY <1>3, NoRequestOK
       DEF ma_enroll_begin, ma_verify_begin, ma_cancel_begin, BeginWait,
         TypeOK, DriverOK, TemplatesOK
  <2> QED
    BY <2>3, <2>4 DEF TypeOK
<1>4. ASSUME NEW g \in Groups, ma_set_active_group_begin(g)
      PROVE  TypeOK' /\ Opened'
  <2>1. /\ smaf' = [smaf EXCEPT !.gid = g, !.stop = TRUE] /\ sensor' = sensor
        /\ client' \in ClientState
    BY <1>4, ClientOK DEF ma_set_active_group_begin, BeginWait
  <2>2. ThreadsOK' /\ FlagsAgree' /\ Opened'
    BY <1>1, <2>1 DEF ThreadsOK, FlagsAgree, Opened, Mafprint, TypeOK
  <2>3. DriverOK' /\ TemplatesOK'
    BY <1>4, NoRequestOK
       DEF ma_set_active_group_begin, BeginWait, TypeOK, DriverOK,
         TemplatesOK
  <2> QED
    BY <2>2, <2>3 DEF TypeOK
<1>5. CASE wait_again
  <2>1. client' = [client EXCEPT !.try = @ + 1] /\ client.try + 1 < Tries
    BY <1>5 DEF wait_again
  <2>2. client.try + 1 \in 0..(Tries - 1)
    BY <1>1, <2>1, BoundsPositive DEF ClientState
  <2>3. client' \in ClientState
    BY <1>1, <2>1, <2>2 DEF ClientState
  <2>4. UNCHANGED <<smaf, sensor, work, events, alarm>>
    BY <1>5 DEF wait_again
  <2>5. TemplatesOK'
    BY <1>5, TemplatesStay DEF wait_again, TypeOK
  <2> QED
    BY <2>3, <2>4, <2>5
       DEF TypeOK, ThreadsOK, DriverOK, FlagsAgree, Opened
<1>6. CASE ma_enroll_go_on
  <2>1. /\ smaf' = [smaf EXCEPT !.stop = FALSE, !.gid = client.gid,
                                !.fid = new_fid, !.grade = 0]
        /\ sensor' = sensor /\ client' = IdleClient
        /\ fp_setWork("ENROLL", events) /\ alarm' = alarm
        /\ request' = Requested("ENROLL")
    BY <1>6 DEF ma_enroll_go_on
  <2>2. /\ client.gid \in Groups \cup {None} /\ 0 \in 0..BadGrade
        /\ new_fid \in Fingers \cup {NoFid}
    BY <1>1, NewFid, BoundsPositive
       DEF ClientState, BadGrade, TypeOK, TemplatesOK
  <2>3. ThreadsOK' /\ FlagsAgree' /\ Opened'
    BY <1>1, <2>1, <2>2, ClientOK
       DEF ThreadsOK, FlagsAgree, Opened, Mafprint, TypeOK
  <2>4. DriverOK'
    BY <1>1, <2>1, SetWorkOK DEF Works
  <2>5. TemplatesOK'
    BY <1>6, <2>1, RequestOK DEF ma_enroll_go_on, TypeOK, TemplatesOK
  <2> QED
    BY <2>3, <2>4, <2>5 DEF TypeOK
<1>7. CASE ma_verify_go_on
  <2>1. /\ smaf' = [smaf EXCEPT !.stop = FALSE, !.gid = client.gid,
                                !.first = FALSE]
        /\ sensor' = sensor /\ client' = IdleClient
        /\ fp_setWork("MATCH", events) /\ alarm' = alarm
        /\ request' = Requested("MATCH")
    BY <1>7 DEF ma_verify_go_on
  <2>2. client.gid \in Groups \cup {None}
    BY <1>1 DEF ClientState
  <2>3. ThreadsOK' /\ FlagsAgree' /\ Opened'
    BY <1>1, <2>1, <2>2, ClientOK
       DEF ThreadsOK, FlagsAgree, Opened, Mafprint, TypeOK
  <2>4. DriverOK'
    BY <1>1, <2>1, SetWorkOK DEF Works
  <2>5. TemplatesOK'
    BY <1>7, <2>1, RequestOK DEF ma_verify_go_on, TypeOK, TemplatesOK
  <2> QED
    BY <2>3, <2>4, <2>5 DEF TypeOK
<1>8. CASE ma_cancel_go_on
  <2>1. /\ UNCHANGED <<smaf, sensor>> /\ client' = IdleClient
        /\ fp_setWork("IDLE", events) /\ alarm' = alarm
        /\ request' = Requested("cancelled")
    BY <1>8 DEF ma_cancel_go_on
  <2>2. DriverOK'
    BY <1>1, <2>1, SetWorkOK DEF Works
  <2>3. TemplatesOK'
    BY <1>8, <2>1, RequestOK DEF ma_cancel_go_on, TypeOK, TemplatesOK
  <2> QED
    BY <2>1, <2>2, <2>3, ClientOK DEF TypeOK, ThreadsOK, FlagsAgree, Opened
<1>9. ASSUME NEW g \in Groups, dbOpen(g), request' \in {NoRequest, request}
      PROVE  TypeOK' /\ Opened'
  <2>1. /\ smaf' = [smaf EXCEPT !.fdb = TRUE, !.gid = g]
        /\ smaf' \in Mafprint /\ FlagsAgree' /\ sensor' = sensor /\ DriverOK'
        /\ mem' = disk[g] /\ client' \in ClientState /\ loaded' = g
        /\ UNCHANGED <<disk, results>>
    BY <1>9, DbOpenLeft
  <2>2. ThreadsOK' /\ Opened'
    BY <1>1, <2>1 DEF ThreadsOK, Opened, Mafprint
  <2>3. TemplatesOK'
    BY <1>9, <2>1, NoRequestOK DEF TypeOK, TemplatesOK
  <2> QED
    BY <2>1, <2>2, <2>3 DEF TypeOK
<1>10. CASE ma_set_active_group_go_on
  <2>1. client.gid \in Groups /\ dbOpen(client.gid) /\ request' = request
    BY <1>10 DEF ma_set_active_group_go_on, WaitOver, Grouped
  <2> QED
    BY <1>9, <2>1
<1>11. ASSUME NEW g \in Groups, ma_set_active_group_first(g)
       PROVE  TypeOK' /\ Opened'
  BY <1>9, <1>11 DEF ma_set_active_group_first
<1>12. CASE dbOpen_calibrated \/ ma_close
  <2>1. /\ UNCHANGED <<smaf, sensor, alarm, work, events, mem, disk, loaded,
                       request, results>>
        /\ client' \in ClientState
    BY <1>12, ClientOK DEF dbOpen_calibrated, ma_close
  <2> QED
    BY <2>1
       DEF TypeOK, ThreadsOK, DriverOK, TemplatesOK, FlagsAgree, Opened
<1>13. ASSUME NEW fs, ma_remove(fs)
       PROVE  TypeOK' /\ Opened'
  <2>1. /\ UNCHANGED <<smaf, sensor, client, alarm, work, events, loaded,
                       request, results>>
        /\ mem' = mem \ fs
        /\ disk' = [g \in Groups |->
                       IF g = loaded THEN disk[g] \ fs ELSE disk[g]]
    BY <1>13 DEF ma_remove
  <2>2. disk' \in [Groups -> SUBSET Fingers] /\ mem' \subseteq Fingers
    BY <2>1 DEF TypeOK, TemplatesOK
  <2> QED
    BY <2>1, <2>2
       DEF TypeOK, ThreadsOK, DriverOK, TemplatesOK, FlagsAgree, Opened
<1>14. ASSUME Left(smaf), sensor.at # "off", DriverOK', TemplatesOK',
              client' = client
       PROVE  TypeOK' /\ Opened'
  BY <1>1, <1>14 DEF Left, TypeOK, ThreadsOK, Opened
<1>15. CASE thread_run
  <2>1. DriverOK' /\ TemplatesOK' /\ client' = client /\ sensor.at = "poll"
    BY <1>15, ThreadRunLeft, TemplatesStay DEF thread_run, TypeOK, DriverStep
  <2>2. CASE Left(smaf)
    BY <1>14, <2>1, <2>2
  <2>3. CASE /\ sensor' \in SensorState /\ sensor'.at = "wake"
             /\ smaf' = [smaf EXCEPT !.wait = FALSE]
    <3>1. ThreadsOK' /\ FlagsAgree' /\ Opened'
      BY <1>1, <2>1, <2>3
         DEF ThreadsOK, TypeOK, FlagsAgree, Opened, Mafprint
    <3> QED
      BY <2>1, <3>1 DEF TypeOK
  <2> QED
    BY <1>15, <2>2, <2>3, ThreadRunLeft
<1>16. CASE wakeup_store
  <2>1. client' = client /\ sensor.at = "wake" /\ DriverOK' /\ Left(smaf)
    BY <1>16, WakeupStoreLeft DEF wakeup_store, DriverStep
  <2>2. TemplatesOK'
    BY <1>16, TemplatesStay DEF wakeup_store, TypeOK
  <2> QED
    BY <1>14, <2>1, <2>2
<1>17. ASSUME NEW ret, check(ret)
       PROVE  TypeOK' /\ Opened'
  <2>1. /\ DriverOK' /\ TemplatesOK' /\ client' = client
        /\ sensor.at = "image"
    BY <1>17, TemplatesStay DEF check, TypeOK, DriverOK
  <2>2. CASE Left(smaf)
    BY <1>14, <2>1, <2>2
  <2>3. CASE SearchBegins(sensor.what)
    <3>1. ThreadsOK' /\ FlagsAgree' /\ Opened'
      BY <1>1, <2>1, <2>3 DEF SearchBegins, Imaged, ThreadsOK, TypeOK,
           FlagsAgree, Opened, Mafprint
    <3> QED
      BY <2>1, <3>1 DEF TypeOK
  <2> QED
    BY <1>17, <2>2, <2>3, CheckLeft
<1>18. CASE enroll_duplicate \/ match_fails
  <2>1. sensor.at = "search" /\ client' = client /\ DriverOK' /\ TemplatesOK'
    BY <1>18, TemplatesStay
       DEF enroll_duplicate, match_fails, Searched, TypeOK, DriverOK
  <2>2. Left(smaf)
    BY <1>18, <2>1, NextLeft, MatchEndLeft DEF enroll_duplicate, match_fails
  <2> QED
    BY <1>14, <2>1, <2>2
<1>19. CASE enroll_store
  <2>1. /\ sensor.at = "store" /\ client' = client /\ DriverOK'
        /\ fp_dbUpdate(smaf.fid) /\ NextCheck(smaf, sensor)
    BY <1>19 DEF enroll_store, TypeOK, DriverOK
  <2>2. TemplatesOK'
    BY <1>19, <2>1, DbUpdateOK DEF enroll_store, TypeOK, TemplatesOK
  <2> QED
    BY <1>14, <2>1, <2>2, NextLeft
<1>20. ASSUME NEW f, match(f)
       PROVE  TypeOK' /\ Opened'
  <2>1. /\ sensor.at = "search" /\ client' = client /\ DriverOK'
        /\ fp_dbUpdate(f) /\ MatchEnd
    BY <1>20 DEF match, Searched, TypeOK, DriverOK
  <2>2. results' \in [overwritten : BOOLEAN, foreign : BOOLEAN]
    <3> DEFINE b == results.foreign \/ smaf.gid # loaded
    <3>1. b \in BOOLEAN /\ results' = [results EXCEPT !.foreign = b]
      BY <1>20, Zenon DEF match
    <3> HIDE DEF b
    <3> QED
      BY <3>1 DEF TypeOK, TemplatesOK
  <2>3. TemplatesOK'
    BY <1>20, <2>1, <2>2, DbUpdateOK DEF match, TypeOK, TemplatesOK
  <2> QED
    BY <1>14, <2>1, <2>3, MatchEndLeft
<1>21. ASSUME NEW grade \in 0..BadGrade, enroll(grade)
       PROVE  TypeOK' /\ Opened'
  <2> DEFINE s == [smaf EXCEPT !.grade = grade]
  <2>1. sensor.at = "search" /\ client' = client /\ DriverOK'
    BY <1>21 DEF enroll, Searched, TypeOK, DriverOK
  <2>2. results' \in [overwritten : BOOLEAN, foreign : BOOLEAN]
    <3> DEFINE b == results.overwritten \/ smaf.fid \in mem
    <3>1. b \in BOOLEAN /\ results' = [results EXCEPT !.overwritten = b]
      BY <1>21, Zenon DEF enroll
    <3> HIDE DEF b
    <3> QED
      BY <3>1 DEF TypeOK, TemplatesOK
  <2>3. mem' \subseteq Fingers /\ UNCHANGED <<disk, loaded, request>>
    BY <1>21, EnrollLeft DEF TypeOK, TemplatesOK, enroll
  <2>4. TemplatesOK'
    BY <2>2, <2>3 DEF TypeOK, TemplatesOK
  <2>5. s \in Mafprint /\ s.fdev = smaf.fdev /\ s.busy = smaf.busy
        /\ s.wait = smaf.wait
    BY <1>1 DEF Mafprint
  <2>6. CASE Left(s)
    BY <1>1, <2>1, <2>4, <2>5, <2>6 DEF Left, TypeOK, ThreadsOK, Opened
  <2>7. CASE smaf' = s /\ sensor' = [sensor EXCEPT !.at = "store"]
    <3>1. sensor' \in SensorState /\ sensor'.at = "store"
      BY <1>1, <2>7 DEF SensorState
    <3>2. FlagsAgree' /\ Opened'
      BY <2>1, <2>5, <2>7, <3>1 DEF TypeOK, FlagsAgree, Opened
    <3> QED
      BY <1>1, <2>1, <2>4, <2>5, <2>7, <3>1, <3>2 DEF TypeOK, ThreadsOK
  <2> QED
    BY <1>21, <2>6, <2>7, EnrollLeft
<1>22. CASE handler_look \/ handler_store \/ Touch \/ UNCHANGED vars
  <2>1. /\ UNCHANGED <<smaf, sensor, client, mem, disk, loaded, request,
                       results>>
    BY <1>22 DEF handler_look, handler_store, Touch, vars
  <2>2. DriverOK'
    <3>1. CASE handler_store
      <4>1. fp_setWork("DETECT", events) /\ alarm' = FALSE
        BY <3>1 DEF handler_store
      <4> QED
        BY <1>1, <4>1, SetWorkOK DEF Works
    <3>2. CASE handler_look
      BY <1>1, <3>2 DEF handler_look, DriverOK
    <3>3. CASE Touch \/ UNCHANGED vars
      BY <1>1, <3>3 DEF Touch, vars, DriverOK
    <3> QED
      BY <1>22, <3>1, <3>2, <3>3
  <2> QED
    BY <2>1, <2>2 DEF TypeOK, ThreadsOK, TemplatesOK, FlagsAgree, Opened
<1> QED
  BY <1>2, <1>3, <1>4, <1>5, <1>6, <1>7, <1>8, <1>10, <1>11, <1>12, <1>13,
       <1>15, <1>16, <1>17, <1>18, <1>19, <1>20, <1>21, <1>22
     DEF Next, ClientStep, ClientCall, SensorStep, Alarm

\* The group a call waits for stays the one it was called with.
LEMMA GroupedStep ==
    ASSUME TypeOK, Grouped, [Next]_vars
    PROVE  Grouped'
<1> USE DEF Grouped, IdleClient, None
<1>1. CASE wait_again
  BY <1>1 DEF wait_again, TypeOK, ThreadsOK, ClientState
<1>2. CASE \/ ma_enroll_begin \/ ma_verify_begin \/ ma_cancel_begin
           \/ ma_close \/ dbOpen_calibrated
           \/ ma_enroll_go_on \/ ma_verify_go_on \/ ma_cancel_go_on
  BY <1>2 DEF ma_enroll_begin, ma_verify_begin, ma_cancel_begin, BeginWait,
       ma_close, dbOpen_calibrated, ma_enroll_go_on, ma_verify_go_on,
       ma_cancel_go_on
<1>3. ASSUME NEW g \in Groups, ma_set_active_group_begin(g)
      PROVE  Grouped'
  BY <1>3 DEF ma_set_active_group_begin, BeginWait
<1>4. ASSUME NEW g, dbOpen(g)
      PROVE  Grouped'
  BY <1>4 DEF dbOpen
<1>5. CASE client' = client
  BY <1>5
<1>6. CASE ma_open \/ (\E fs : ma_remove(fs)) \/ SensorStep \/ Alarm
           \/ Touch \/ UNCHANGED vars
  <2>1. client' = client
    BY <1>6 DEF ma_open, ma_remove, SensorStep, thread_run, wakeup_store,
         enroll_duplicate, enroll_store, match_fails, check, enroll, match,
         Alarm, handler_look, handler_store, Touch, vars
  <2> QED
    BY <1>5, <2>1
<1> QED
  BY <1>1, <1>2, <1>3, <1>4, <1>6 DEF Next, ClientStep, ClientCall,
       ma_set_active_group_first, ma_set_active_group_go_on

\* The state before ma_open.
LEMMA InitBase == Init => TypeOK /\ Opened /\ Grouped
<1> SUFFICES ASSUME Init PROVE TypeOK /\ Opened /\ Grouped
  OBVIOUS
<1>1. ThreadsOK
  <2>1. smaf \in Mafprint
    BY BoundsPositive DEF Init, Mafprint, BadGrade, NoFid
  <2>2. sensor \in SensorState
    BY PollingOK DEF Init, SensorState
  <2> QED
    BY <2>1, <2>2, ClientOK DEF Init, ThreadsOK
<1>2. sensor.at = "off"
  BY PollingOK DEF Init, SensorState
<1>3. FlagsAgree /\ Opened /\ Grouped
  BY <1>2 DEF Init, FlagsAgree, Opened, Grouped, IdleClient, None
<1>4. DriverOK /\ TemplatesOK
  BY NoRequestOK DEF Init, DriverOK, TemplatesOK, Works
<1> QED
  BY <1>1, <1>3, <1>4 DEF TypeOK

\* The facts every later proof starts from.
BaseInv == TypeOK /\ Opened /\ Grouped

\* BaseInv is an invariant.
LEMMA BaseHolds == Spec => []BaseInv
<1>1. Init => BaseInv
  BY InitBase DEF BaseInv
<1>2. BaseInv /\ [Next]_vars => BaseInv'
  BY TypeStep, GroupedStep DEF BaseInv
<1> QED
  BY <1>1, <1>2, PTL DEF Spec

\* Fingerprint is type correct for every number of groups, slots, samples and
\* checks; busy is set exactly while an image is taken and wait exactly while
\* the thread polls, whatever the calls and the sensor do.
THEOREM TypeCorrect == Spec => [](TypeOK /\ Opened)
<1>1. BaseInv => TypeOK /\ Opened
  BY DEF BaseInv
<1> QED
  BY <1>1, BaseHolds, PTL

----------------------------------------------------------------------------
(* Requests: what the last call asked for is what the driver works on.     *)

\* The last request, once its call has set the work word, is the word's unless
\* a pending store raced with it, and the stop flag, which would cancel its
\* first touch, is clear.  No pending store is going to change that.
Armed ==
    request.what # None =>
        /\ ~request.raced =>
               {work} \cup PendingStores \subseteq Serves(request.what)
        /\ request.what # "cancelled" => ~smaf.stop

\* A call that waits for the sensor thread or for a calibration has withdrawn
\* the request before it.
Waiting ==
    client.call \in {"enroll", "verify", "cancel", "group", "calibration"}
        => request.what = None

ArmedInv == Armed /\ Waiting

\* No step of the sensor thread raises stop, and it stores a word only when it
\* has looked before; a look it will store after found DETECT or FACTORY.
LEMMA SensorLeft ==
    ASSUME TypeOK, SensorStep
    PROVE  /\ smaf'.stop => smaf.stop
           /\ \/ work' = work
              \/ sensor.at = "wake" /\ work' = WakeWord(sensor.what)
           /\ sensor'.at = "wake" =>
                  /\ work \in {"DETECT", "FACTORY"} /\ work' = work
                  /\ sensor'.what = work
           /\ request' = request /\ client' = client /\ alarm' = alarm
<1>1. smaf \in Mafprint /\ sensor \in SensorState
  BY DEF TypeOK, ThreadsOK
<1>2. CASE thread_run
  <2>1. request' = request /\ client' = client /\ alarm' = alarm
    BY <1>2 DEF thread_run
  <2>2. CASE Left(smaf)
    BY <1>2, <2>1, <2>2, ThreadRunLeft DEF Left
  <2>3. CASE /\ work \in {"DETECT", "FACTORY"} /\ sensor'.what = work
             /\ smaf' = [smaf EXCEPT !.wait = FALSE]
    BY <1>1, <1>2, <2>1, <2>3, ThreadRunLeft DEF Mafprint
  <2> QED
    BY <1>2, <2>2, <2>3, ThreadRunLeft
<1>3. CASE wakeup_store
  <2>1. request' = request /\ client' = client /\ alarm' = alarm
    BY <1>3 DEF wakeup_store
  <2> QED
    BY <1>3, <2>1, WakeupStoreLeft DEF DriverStep, Left
<1>4. ASSUME NEW ret, check(ret)
      PROVE  /\ UNCHANGED <<work, request, client, alarm>>
             /\ smaf'.stop => smaf.stop
             /\ sensor'.at # "wake"
  <2>1. UNCHANGED <<work, request, client, alarm>>
    BY <1>4 DEF check
  <2>2. CASE Left(smaf)
    BY <2>1, <2>2 DEF Left
  <2>3. CASE SearchBegins(sensor.what)
    BY <1>1, <2>1, <2>3 DEF SearchBegins, Imaged, Mafprint
  <2> QED
    BY <1>4, <2>2, <2>3, CheckLeft
<1>5. CASE enroll_duplicate \/ match_fails \/ enroll_store
           \/ \E f \in Fingers : match(f)
  <2>1. UNCHANGED <<work, request, client, alarm>>
    BY <1>5 DEF enroll_duplicate, match_fails, enroll_store, match
  <2>2. sensor.at # "poll" /\ (NextCheck(smaf, sensor) \/ MatchEnd)
    BY <1>5 DEF enroll_duplicate, match_fails, enroll_store, match, Searched
  <2>3. Left(smaf)
    BY <2>2, NextLeft, MatchEndLeft
  <2> QED
    BY <2>1, <2>3 DEF Left
<1>6. ASSUME NEW grade \in 0..BadGrade, enroll(grade)
      PROVE  /\ UNCHANGED <<work, request, client, alarm>>
             /\ smaf'.stop => smaf.stop
             /\ sensor'.at # "wake"
  <2> DEFINE s == [smaf EXCEPT !.grade = grade]
  <2>1. UNCHANGED <<work, request, client, alarm>>
    BY <1>6 DEF enroll
  <2>2. s.stop = smaf.stop
    BY <1>1 DEF Mafprint
  <2>3. CASE Left(s)
    BY <2>1, <2>2, <2>3 DEF Left
  <2>4. CASE smaf' = s /\ sensor' = [sensor EXCEPT !.at = "store"]
    BY <1>1, <2>1, <2>2, <2>4 DEF SensorState
  <2> QED
    BY <1>6, <2>3, <2>4, EnrollLeft
<1> QED
  BY <1>2, <1>3, <1>4, <1>5, <1>6 DEF SensorStep

\* A step that leaves no request behind.
LEMMA ArmedNone ==
    ASSUME request'.what = None
    PROVE  ArmedInv'
BY DEF ArmedInv, Armed, Waiting

\* A step that changes neither the word nor what is pending, nor the request;
\* a call that begins to wait withdraws its request otherwise.
LEMMA ArmedStay ==
    ASSUME ArmedInv, UNCHANGED <<work, request, alarm, sensor>>,
           smaf'.stop = smaf.stop,
           \/ client'.call = client.call
           \/ client'.call \in {None, "join"}
    PROVE  ArmedInv'
BY DEF ArmedInv, Armed, Waiting, PendingStores, None

\* A call sets its word: that is the request's, and so is every store that is
\* pending unless it is raced.
LEMMA ArmedRequest ==
    ASSUME NEW what \in {"ENROLL", "MATCH", "cancelled"},
           request' = Requested(what), UNCHANGED <<sensor, alarm>>,
           work' \in Serves(what), what # "cancelled" => ~smaf'.stop,
           client' = IdleClient
    PROVE  ArmedInv'
<1>1. /\ request'.what = what
      /\ request'.raced <=> ~(PendingStores \subseteq Serves(what))
  BY RequestOK
<1>2. PendingStores' = PendingStores
  BY DEF PendingStores
<1>3. Armed'
  BY <1>1, <1>2 DEF Armed
<1>4. client'.call = None
  BY DEF IdleClient
<1> QED
  BY <1>3, <1>4 DEF ArmedInv, Waiting, None

\* ArmedInv is inductive.
LEMMA ArmedStep ==
    ASSUME TypeOK, Grouped, Opened, ArmedInv, [Next]_vars
    PROVE  ArmedInv'
<1>1. /\ smaf \in Mafprint /\ sensor \in SensorState /\ client \in ClientState
  BY DEF TypeOK, ThreadsOK
<1>2. CASE ma_open
  <2>1. /\ smaf' = [smaf EXCEPT !.fdev = TRUE, !.wait = TRUE]
        /\ sensor' = Polling /\ UNCHANGED <<work, client, request, alarm>>
    BY <1>2 DEF ma_open
  <2>2. smaf'.stop = smaf.stop
    BY <1>1, <2>1 DEF Mafprint
  <2>3. PendingStores' \subseteq PendingStores
    BY <2>1, PollingOK DEF PendingStores
  <2> QED
    BY <2>1, <2>2, <2>3 DEF ArmedInv, Armed, Waiting
<1>3. ASSUME NEW c, NEW g, BeginWait(c, g)
      PROVE  ArmedInv'
  BY <1>3, ArmedNone, NoRequestOK DEF BeginWait
<1>4. CASE wait_again
  <2>1. client'.call = client.call
    BY <1>1, <1>4 DEF wait_again, ClientState
  <2> QED
    BY <1>4, <2>1, ArmedStay DEF wait_again
<1>5. CASE ma_enroll_go_on
  <2>1. /\ smaf' = [smaf EXCEPT !.stop = FALSE, !.gid = client.gid,
                                !.fid = new_fid, !.grade = 0]
        /\ work' = "ENROLL" /\ request' = Requested("ENROLL")
        /\ client' = IdleClient /\ UNCHANGED <<sensor, alarm>>
    BY <1>5 DEF ma_enroll_go_on, fp_setWork
  <2>2. ~smaf'.stop
    BY <1>1, <2>1 DEF Mafprint
  <2>3. work' \in Serves("ENROLL")
    BY <2>1 DEF Serves
  <2> QED
    BY <2>1, <2>2, <2>3, ArmedRequest
<1>6. CASE ma_verify_go_on
  <2>1. /\ smaf' = [smaf EXCEPT !.stop = FALSE, !.gid = client.gid,
                                !.first = FALSE]
        /\ work' = "MATCH" /\ request' = Requested("MATCH")
        /\ client' = IdleClient /\ UNCHANGED <<sensor, alarm>>
    BY <1>6 DEF ma_verify_go_on, fp_setWork
  <2>2. ~smaf'.stop
    BY <1>1, <2>1 DEF Mafprint
  <2>3. work' \in Serves("MATCH")
    BY <2>1 DEF Serves
  <2> QED
    BY <2>1, <2>2, <2>3, ArmedRequest
<1>7. CASE ma_cancel_go_on
  <2>1. /\ work' = "IDLE" /\ request' = Requested("cancelled")
        /\ client' = IdleClient /\ UNCHANGED <<sensor, alarm>>
    BY <1>7 DEF ma_cancel_go_on, fp_setWork
  <2>2. work' \in Serves("cancelled")
    BY <2>1 DEF Serves
  <2> QED
    BY <2>1, <2>2, ArmedRequest
<1>8. CASE ma_set_active_group_go_on
  <2>1. client.call = "group" /\ request' = request
    BY <1>8 DEF ma_set_active_group_go_on, WaitOver
  <2> QED
    BY <2>1, ArmedNone DEF ArmedInv, Waiting
<1>9. ASSUME NEW g \in Groups, ma_set_active_group_first(g)
      PROVE  ArmedInv'
  BY <1>9, ArmedNone, NoRequestOK DEF ma_set_active_group_first
<1>10. CASE dbOpen_calibrated \/ ma_close
  <2>1. client'.call \in {None, "join"}
    BY <1>10 DEF dbOpen_calibrated, ma_close, IdleClient
  <2> QED
    BY <1>10, <2>1, ArmedStay DEF dbOpen_calibrated, ma_close
<1>11. ASSUME NEW fs, ma_remove(fs)
       PROVE  ArmedInv'
  BY <1>11, ArmedStay DEF ma_remove
<1>12. CASE SensorStep
  <2>1. /\ smaf'.stop => smaf.stop
        /\ \/ work' = work
           \/ sensor.at = "wake" /\ work' = WakeWord(sensor.what)
        /\ sensor'.at = "wake" =>
               /\ work \in {"DETECT", "FACTORY"} /\ work' = work
               /\ sensor'.what = work
        /\ request' = request /\ client' = client /\ alarm' = alarm
    BY <1>12, SensorLeft
  <2>2. Waiting'
    BY <2>1 DEF ArmedInv, Waiting
  <2>3. ASSUME request.what # None, ~request.raced
        PROVE  {work'} \cup PendingStores' \subseteq Serves(request.what)
    <3>1. {work} \cup PendingStores \subseteq Serves(request.what)
      BY <2>3 DEF ArmedInv, Armed
    <3>2. work' \in {work} \cup PendingStores
      BY <2>1 DEF PendingStores
    <3>3. CASE sensor'.at # "wake"
      BY <2>1, <3>1, <3>2, <3>3 DEF PendingStores
    <3>4. CASE sensor'.at = "wake"
      <4>1. work = "DETECT" /\ request.what = "MATCH"
        BY <2>1, <2>3, <3>1, <3>4 DEF Serves
      <4>2. WakeWord(sensor'.what) \in Serves(request.what)
        BY <2>1, <3>4, <4>1 DEF Serves, WakeWord
      <4> QED
        BY <2>1, <3>1, <3>2, <4>2 DEF PendingStores
    <3> QED
      BY <3>3, <3>4
  <2>4. Armed'
    BY <2>1, <2>3 DEF ArmedInv, Armed
  <2> QED
    BY <2>2, <2>4 DEF ArmedInv
<1>13. CASE handler_look
  <2>1. /\ work = "MATCH"
        /\ UNCHANGED <<work, request, client, sensor, smaf>>
    BY <1>13 DEF handler_look, WaitingMatch
  <2>2. PendingStores' \subseteq {"DETECT"} \cup PendingStores
    BY <2>1 DEF PendingStores
  <2>3. work \in Serves(request.what) => "DETECT" \in Serves(request.what)
    BY <2>1 DEF Serves
  <2> QED
    BY <2>1, <2>2, <2>3 DEF ArmedInv, Armed, Waiting
<1>14. CASE handler_store
  <2>1. /\ alarm /\ ~alarm' /\ work' = "DETECT"
        /\ UNCHANGED <<request, client, sensor, smaf>>
    BY <1>14 DEF handler_store, fp_setWork
  <2>2. work' \in PendingStores /\ PendingStores' \subseteq PendingStores
    BY <2>1 DEF PendingStores
  <2> QED
    BY <2>1, <2>2 DEF ArmedInv, Armed, Waiting
<1>15. CASE Touch \/ UNCHANGED vars
  BY <1>15, ArmedStay DEF Touch, vars
<1> QED
  BY <1>2, <1>3, <1>4, <1>5, <1>6, <1>7, <1>8, <1>9, <1>10, <1>11, <1>12,
       <1>13, <1>14, <1>15
     DEF Next, ClientStep, ClientCall, Alarm, ma_enroll_begin,
         ma_verify_begin, ma_cancel_begin, ma_set_active_group_begin

\* ArmedInv is an invariant; initially there is no request.
LEMMA ArmedHolds == Spec => []ArmedInv
<1>1. Init => ArmedInv
  BY NoRequestOK DEF Init, ArmedInv, Armed, Waiting
<1>2. BaseInv /\ ArmedInv /\ [Next]_vars => ArmedInv'
  BY ArmedStep DEF BaseInv
<1> QED
  BY <1>1, <1>2, BaseHolds, PTL DEF Spec

\* After ma_enroll, ma_verify or ma_cancel has returned, the driver works for
\* that request, or is idle, and no stop flag is left that would cancel its
\* first touch: neither the wait that gave up on busy, nor a later alarm or
\* wake-up, nor an event of the request before, undoes it.  Only a store that
\* was pending when the call set its word can.
THEOREM RequestHolds == Spec => []RequestArmed
<1>1. ArmedInv => RequestArmed
  BY DEF ArmedInv, Armed, RequestArmed
<1> QED
  BY <1>1, ArmedHolds, PTL

----------------------------------------------------------------------------
(* Templates: enroll() leaves a complete one alone.                        *)

\* One group is in use: a phone with one user.
OneGroup == \A g, h \in Groups : g = h

\* The slot being enrolled holds a template only if it is the one just
\* completed.
SlotFree == smaf.fid \in mem => smaf.grade = FullGrade

\* enroll() searches only for a template that is not complete.
SampleWanted == Searched("ENROLL") => smaf.grade # FullGrade

\* The database holds no template that memory does not, so that opening it
\* again brings none into the slot being enrolled; before it is opened there
\* is none.
Stored ==
    /\ \A g \in Groups : disk[g] \subseteq mem
    /\ smaf.fdb => loaded \in Groups
    /\ loaded \notin Groups => \A g \in Groups : disk[g] = {}

TemplateInv == SlotFree /\ SampleWanted /\ Stored /\ TemplateNotOverwritten

\* fp_dbUpdate writes a template that is in memory.
LEMMA DbUpdateStored ==
    ASSUME TypeOK, Stored, NEW f, fp_dbUpdate(f)
    PROVE  /\ \A g \in Groups : disk'[g] \subseteq mem
           /\ loaded \notin Groups => disk' = disk
<1>1. /\ disk \in [Groups -> SUBSET Fingers]
      /\ disk' = [disk EXCEPT ![loaded] = (@ \ {f}) \cup (mem \cap {f})]
  BY DEF TypeOK, TemplatesOK, fp_dbUpdate
<1> QED
  BY <1>1 DEF Stored

\* A step of the sensor thread to poll() or to the next image, with the
\* templates in memory unchanged.
LEMMA TemplateLeft ==
    ASSUME TypeOK, TemplateInv, Left(smaf), UNCHANGED <<mem, loaded>>,
           results'.overwritten = results.overwritten,
           \A g \in Groups : disk'[g] \subseteq mem,
           loaded \notin Groups => disk' = disk
    PROVE  TemplateInv'
<1>1. /\ smaf'.fid = smaf.fid /\ smaf'.grade = smaf.grade
      /\ smaf'.fdb = smaf.fdb /\ sensor'.at # "search"
  BY DEF Left
<1>2. SlotFree' /\ SampleWanted'
  BY <1>1 DEF TemplateInv, SlotFree, SampleWanted, Searched
<1>3. Stored'
  BY <1>1 DEF TemplateInv, Stored
<1> QED
  BY <1>2, <1>3 DEF TemplateInv, TemplateNotOverwritten

\* A step that leaves the template being enrolled and the thread alone.
LEMMA TemplateStay ==
    ASSUME TypeOK, TemplateInv,
           smaf'.fid = smaf.fid, smaf'.grade = smaf.grade,
           smaf'.fdb = smaf.fdb,
           sensor' = sensor \/ sensor'.at # "search",
           UNCHANGED <<mem, disk, loaded, results>>
    PROVE  TemplateInv'
BY DEF TemplateInv, SlotFree, SampleWanted, Searched, Stored,
     TemplateNotOverwritten

\* With one group, opening its database again leaves the slot being enrolled
\* as free as it was.
LEMMA TemplateDbOpen ==
    ASSUME TypeOK, OneGroup, TemplateInv, NEW g \in Groups, dbOpen(g)
    PROVE  TemplateInv'
<1>1. /\ smaf' = [smaf EXCEPT !.fdb = TRUE, !.gid = g]
      /\ sensor' = sensor /\ mem' = disk[g] /\ loaded' = g
      /\ UNCHANGED <<disk, results>>
  BY DbOpenLeft
<1>2. smaf'.fid = smaf.fid /\ smaf'.grade = smaf.grade
  BY <1>1 DEF TypeOK, ThreadsOK, Mafprint
<1>3. mem' \subseteq mem
  BY <1>1 DEF TemplateInv, Stored
<1>4. SlotFree' /\ SampleWanted'
  BY <1>1, <1>2, <1>3 DEF TemplateInv, SlotFree, SampleWanted, Searched
<1>5. Stored'
  BY <1>1 DEF Stored, OneGroup
<1> QED
  BY <1>1, <1>4, <1>5 DEF TemplateInv, TemplateNotOverwritten

\* TemplateInv is inductive.
LEMMA TemplateStep ==
    ASSUME TypeOK, Grouped, OneGroup, TemplateInv, [Next]_vars
    PROVE  TemplateInv'
<1>1. /\ smaf \in Mafprint /\ sensor \in SensorState
      /\ disk \in [Groups -> SUBSET Fingers] /\ mem \subseteq Fingers
      /\ results \in [overwritten : BOOLEAN, foreign : BOOLEAN]
  BY DEF TypeOK, ThreadsOK, TemplatesOK
<1>2. CASE ma_open
  <2>1. /\ smaf' = [smaf EXCEPT !.fdev = TRUE, !.wait = TRUE]
        /\ sensor' = Polling /\ UNCHANGED <<mem, disk, loaded, results>>
    BY <1>2 DEF ma_open
  <2>2. /\ smaf'.fid = smaf.fid /\ smaf'.grade = smaf.grade
        /\ smaf'.fdb = smaf.fdb /\ sensor'.at # "search"
    BY <1>1, <2>1, PollingOK DEF Mafprint
  <2> QED
    BY <2>1, <2>2, TemplateStay
<1>3. CASE \/ ma_enroll_begin \/ ma_verify_begin \/ ma_cancel_begin
           \/ \E g \in Groups : ma_set_active_group_begin(g)
  <2>1. /\ sensor' = sensor /\ UNCHANGED <<mem, disk, loaded, results>>
        /\ \/ smaf' = [smaf EXCEPT !.stop = TRUE]
           \/ \E g \in Groups : smaf' = [smaf EXCEPT !.gid = g, !.stop = TRUE]
    BY <1>3 DEF ma_enroll_begin, ma_verify_begin, ma_cancel_begin,
         ma_set_active_group_begin, BeginWait
  <2>2. /\ smaf'.fid = smaf.fid /\ smaf'.grade = smaf.grade
        /\ smaf'.fdb = smaf.fdb
    BY <1>1, <2>1 DEF Mafprint
  <2> QED
    BY <2>1, <2>2, TemplateStay
<1>4. CASE \/ wait_again \/ ma_cancel_go_on \/ dbOpen_calibrated \/ ma_close
           \/ Alarm \/ Touch \/ UNCHANGED vars
  <2>1. UNCHANGED <<smaf, sensor, mem, disk, loaded, results>>
    BY <1>4 DEF wait_again, ma_cancel_go_on, dbOpen_calibrated, ma_close,
         Alarm, handler_look, handler_store, Touch, vars
  <2> QED
    BY <2>1, TemplateStay
<1>5. CASE ma_enroll_go_on
  <2>1. /\ smaf' = [smaf EXCEPT !.stop = FALSE, !.gid = client.gid,
                                !.fid = new_fid, !.grade = 0]
        /\ UNCHANGED <<mem, disk, loaded, sensor, results>>
    BY <1>5 DEF ma_enroll_go_on
  <2>2. smaf'.fid = new_fid /\ smaf'.grade = 0 /\ smaf'.fdb = smaf.fdb
    BY <1>1, <2>1 DEF Mafprint
  <2>3. smaf'.fid \notin mem'
    BY <1>1, <2>1, <2>2, NewFid
  <2>4. smaf'.grade # FullGrade
    BY <2>2, BoundsPositive
  <2>5. SlotFree' /\ SampleWanted'
    BY <2>3, <2>4 DEF SlotFree, SampleWanted
  <2>6. Stored' /\ TemplateNotOverwritten'
    BY <2>1, <2>2 DEF TemplateInv, Stored, TemplateNotOverwritten
  <2> QED
    BY <2>5, <2>6 DEF TemplateInv
<1>6. CASE ma_verify_go_on
  <2>1. /\ smaf' = [smaf EXCEPT !.stop = FALSE, !.gid = client.gid,
                                !.first = FALSE]
        /\ UNCHANGED <<mem, disk, loaded, sensor, results>>
    BY <1>6 DEF ma_verify_go_on
  <2>2. /\ smaf'.fid = smaf.fid /\ smaf'.grade = smaf.grade
        /\ smaf'.fdb = smaf.fdb
    BY <1>1, <2>1 DEF Mafprint
  <2> QED
    BY <2>1, <2>2, TemplateStay
<1>7. CASE ma_set_active_group_go_on
  <2>1. client.gid \in Groups /\ dbOpen(client.gid)
    BY <1>7 DEF ma_set_active_group_go_on, WaitOver, Grouped
  <2> QED
    BY <2>1, TemplateDbOpen
<1>8. ASSUME NEW g \in Groups, ma_set_active_group_first(g)
      PROVE  TemplateInv'
  BY <1>8, TemplateDbOpen DEF ma_set_active_group_first
<1>9. ASSUME NEW fs, ma_remove(fs)
      PROVE  TemplateInv'
  <2>1. /\ mem' = mem \ fs
        /\ disk' = [g \in Groups |->
                       IF g = loaded THEN disk[g] \ fs ELSE disk[g]]
        /\ UNCHANGED <<smaf, sensor, loaded, results>>
    BY <1>9 DEF ma_remove
  <2>2. ASSUME NEW g \in Groups
        PROVE  disk'[g] \subseteq mem'
    <3>1. CASE loaded \in Groups
      <4>1. disk'[g] = disk[g] \ fs
        BY <2>1, <3>1 DEF OneGroup
      <4> QED
        BY <2>1, <4>1 DEF TemplateInv, Stored
    <3>2. CASE loaded \notin Groups
      BY <2>1, <3>2 DEF TemplateInv, Stored
    <3> QED
      BY <3>1, <3>2
  <2>4. Stored'
    BY <2>1, <2>2 DEF TemplateInv, Stored
  <2>5. SlotFree' /\ SampleWanted'
    BY <2>1 DEF TemplateInv, SlotFree, SampleWanted, Searched
  <2> QED
    BY <2>1, <2>4, <2>5 DEF TemplateInv, TemplateNotOverwritten
<1>10. CASE thread_run
  <2>1. UNCHANGED <<mem, disk, loaded, results>>
    BY <1>10 DEF thread_run
  <2>2. CASE Left(smaf)
    BY <2>1, <2>2, TemplateLeft DEF TemplateInv, Stored
  <2>3. CASE /\ sensor'.at = "wake"
             /\ smaf' = [smaf EXCEPT !.wait = FALSE]
    <3>1. /\ smaf'.fid = smaf.fid /\ smaf'.grade = smaf.grade
          /\ smaf'.fdb = smaf.fdb
      BY <1>1, <2>3 DEF Mafprint
    <3> QED
      BY <2>1, <2>3, <3>1, TemplateStay
  <2> QED
    BY <1>10, <2>2, <2>3, ThreadRunLeft
<1>11. CASE wakeup_store \/ enroll_duplicate \/ match_fails
  <2>1. UNCHANGED <<mem, disk, loaded, results>> /\ sensor.at # "poll"
    BY <1>11 DEF wakeup_store, enroll_duplicate, match_fails, Searched
  <2>2. Left(smaf)
    BY <1>11, <2>1, WakeupStoreLeft, NextLeft, MatchEndLeft
       DEF enroll_duplicate, match_fails
  <2> QED
    BY <2>1, <2>2, TemplateLeft DEF TemplateInv, Stored
<1>12. ASSUME NEW ret, check(ret)
       PROVE  TemplateInv'
  <2>1. UNCHANGED <<mem, disk, loaded, results>>
    BY <1>12 DEF check
  <2>2. CASE Left(smaf)
    BY <2>1, <2>2, TemplateLeft DEF TemplateInv, Stored
  <2>3. CASE SearchBegins(sensor.what)
    <3>1. /\ smaf'.fid = smaf.fid /\ smaf'.grade = smaf.grade
          /\ smaf'.fdb = smaf.fdb
      BY <1>1, <2>3 DEF SearchBegins, Imaged, Mafprint
    <3>2. SampleWanted'
      BY <2>3, <3>1 DEF SearchBegins, SampleWanted, Searched
    <3>3. SlotFree' /\ Stored' /\ TemplateNotOverwritten'
      BY <2>1, <3>1
         DEF TemplateInv, SlotFree, Stored, TemplateNotOverwritten
    <3> QED
      BY <3>2, <3>3 DEF TemplateInv
  <2> QED
    BY <1>12, <2>2, <2>3, CheckLeft
<1>13. CASE enroll_store
  <2>1. /\ sensor.at = "store" /\ NextCheck(smaf, sensor)
        /\ fp_dbUpdate(smaf.fid) /\ UNCHANGED <<mem, loaded, results>>
    BY <1>13 DEF enroll_store
  <2> QED
    BY <2>1, NextLeft, DbUpdateStored, TemplateLeft DEF TemplateInv
<1>14. ASSUME NEW f, match(f)
       PROVE  TemplateInv'
  <2>1. /\ sensor.at = "search" /\ MatchEnd /\ fp_dbUpdate(f)
        /\ UNCHANGED <<mem, loaded>>
    BY <1>14 DEF match, Searched
  <2>2. results'.overwritten = results.overwritten
    BY <1>1, <1>14 DEF match
  <2> QED
    BY <2>1, <2>2, MatchEndLeft, DbUpdateStored, TemplateLeft DEF TemplateInv
<1>15. ASSUME NEW grade \in 0..BadGrade, enroll(grade)
       PROVE  TemplateInv'
  <2> DEFINE s == [smaf EXCEPT !.grade = grade]
             b == results.overwritten \/ smaf.fid \in mem
  <2>1. smaf.grade # FullGrade /\ smaf.fid \notin mem
    BY <1>15 DEF enroll, TemplateInv, SampleWanted, SlotFree
  <2>2. results' = [results EXCEPT !.overwritten = b]
    BY <1>15, Zenon DEF enroll
  <2>3. b = FALSE
    BY <2>1 DEF TemplateInv, TemplateNotOverwritten
  <2>4. TemplateNotOverwritten'
    <3> HIDE DEF b
    <3> QED
      BY <1>1, <2>2, <2>3 DEF TemplateNotOverwritten
  <2>5. UNCHANGED <<disk, loaded>>
    BY <1>15 DEF enroll
  <2>6. s.fid = smaf.fid /\ s.grade = grade /\ s.fdb = smaf.fdb
    BY <1>1 DEF Mafprint
  <2>7. CASE mem' = mem /\ Left(s)
    <3>1. /\ smaf'.fid = smaf.fid /\ smaf'.fdb = smaf.fdb
          /\ sensor'.at # "search"
      BY <2>6, <2>7 DEF Left
    <3>2. SlotFree' /\ SampleWanted'
      BY <2>1, <2>7, <3>1 DEF SlotFree, SampleWanted, Searched
    <3>3. Stored'
      BY <2>5, <2>7, <3>1 DEF TemplateInv, Stored
    <3> QED
      BY <2>4, <3>2, <3>3 DEF TemplateInv
  <2>8. CASE /\ grade = FullGrade /\ mem' = mem \cup {smaf.fid}
             /\ smaf' = s /\ sensor' = [sensor EXCEPT !.at = "store"]
    <3>1. sensor'.at # "search"
      BY <1>1, <2>8 DEF SensorState
    <3>2. SlotFree' /\ SampleWanted'
      BY <2>6, <2>8, <3>1 DEF SlotFree, SampleWanted, Searched
    <3>3. Stored'
      BY <2>5, <2>6, <2>8 DEF TemplateInv, Stored
    <3> QED
      BY <2>4, <3>2, <3>3 DEF TemplateInv
  <2> QED
    BY <1>15, <2>7, <2>8, EnrollLeft
<1> QED
  BY <1>2, <1>3, <1>4, <1>5, <1>6, <1>7, <1>8, <1>9, <1>10, <1>11, <1>12,
       <1>13, <1>14, <1>15
     DEF Next, ClientStep, ClientCall, SensorStep

\* As long as one group is in use, no sample is added to a slot that already
\* holds a complete template, for any number of slots, samples and checks and
\* however cancelled loops, new requests and removals interleave.
THEOREM TemplatesHold ==
    ASSUME OneGroup
    PROVE  Spec => []TemplateNotOverwritten
<1>1. Init => TemplateInv
  <2> SUFFICES ASSUME Init PROVE TemplateInv
    OBVIOUS
  <2>1. /\ mem = {} /\ sensor.at = "off" /\ ~smaf.fdb
        /\ \A g \in Groups : disk[g] = {}
        /\ ~results.overwritten
    BY PollingOK DEF Init, SensorState
  <2> QED
    BY <2>1 DEF TemplateInv, SlotFree, SampleWanted, Searched, Stored,
         TemplateNotOverwritten
<1>2. BaseInv /\ TemplateInv /\ [Next]_vars => TemplateInv'
  BY TemplateStep DEF BaseInv
<1>3. TemplateInv => TemplateNotOverwritten
  BY DEF TemplateInv
<1> QED
  BY <1>1, <1>2, <1>3, BaseHolds, PTL DEF Spec

=============================================================================

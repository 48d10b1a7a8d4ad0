# TLA+ verification of the Doogee X5 Max Pro device tree

The repository is an Android device tree. Most of it is configuration; the parts
with logic of their own are native HALs and small services. This directory holds
TLA+ modules of those parts, TLC configurations that check them on small
instances, and TLAPS proofs of the facts that hold for every instance.
`PROJECT.json` lists the components, runs, mutants, the lines each definition
stands for, the findings, the hazards and the theorems.

    tlc -workers 2 -config GpsHal_reliable.cfg MCGpsHal     # one run
    tlapm GpsHalProofs.tla                                  # one proof module

## 1. Inventory

| Part | Source | State | Operations | What is hard | What makes it correct |
|---|---|---|---|---|---|
| GPS HAL life cycle | `gps/hal/gps_mtk_aosp.c` | `GpsState`, `start_flag`, `flag_unlock`, `started`, five condition flags (`lock_for_sync`), three sockets, wakelock | init, start, stop, cleanup; the native thread; messages of mnld | three threads and a daemon with unlocked globals, spin waits, condition flags that stay set | calls return; reports, wakelock and engine agree; threads are gone before descriptors are closed and before cleanup returns |
| EPO download | same file | `gps_epo_file_count`, `epo_data_updated`, `epo_download_failed`, `epo_download_retry`, files `EPOHAL.DAT`, `EPO.DAT`, the piece files | the EPO thread (fetch, check, resume, wifi trigger), the checks of start, mnld's answer, the retry timer | failing network, a set that changes on the server, retries, unlinking by other threads | a file declared complete is one set in order; every download ends |
| NMEA reader | same file | `NmeaReader`: fix, fix mode, satellite list and counters | one operation per sentence, report at the end tag, start and restart commands | groups that span reads, lost sentences, bounds of the list | a report is what was received since the last one |
| NMEA line buffer | same file | `in`, `pos`, `overflow` | `nmea_reader_addc` | boundary of the buffer | only whole lines are handed over |
| Fingerprint HAL | `ma_fingerprint/ma_fprint.c`, `fingerprint.c` | `struct mafprint`, the driver's work word, templates in memory and in the database | open, set_active_group, enroll, verify, cancel, remove, close; the sensor thread; the SIGALRM handler | no lock at all, waits that give up after half a second, a work word written by three parties | requests are armed and not stopped by earlier ones, a cancel is final, templates are not enrolled over, results belong to the right group |
| AGPS, NI, SUPL relays | `gps_mtk_aosp.c` | almost none | pack and unpack datagrams | - | the right callback per message |
| Measurements, navigation messages | `gps_mtk_aosp.c` | two flags | init, close, report | - | no report after close |
| AT-command self test | `gps_mtk_aosp.c` (`GPS_AT_COMMAND`) | `MNL_AT_*` flags, `Success_Num`, `Failure_Num`, `Wait_Num`, `result`, `Dev_CNr` | the AT%GPS and AT%GNSS commands, the account of a read, the search of a GSV group | commands in any order over a dozen globals that different commands reset differently | samples go into a live array; a finished test is answered; a test without signal ends |
| Time conversion | `gps_mtk_aosp.c` | none | calendar arithmetic | leap years, rollover | agrees with the calendar |
| YGPS client socket | `gps/YGPS/.../ClientSocket.java` | command queue, socket, two streams, last response, callback | sendCommand, endClient, send thread | closing while the thread reads, stale response | every command has its turn, and an answer is of its own command |
| YGPS parser and user interface | `gps/YGPS` | what is on the screen | - | - | - |
| wpa driver commands | `wpa_supplicant/mediatek_driver_cmd_nl80211.c` | `drv_errors`, the P2P channel and capability, the scan cache, one time-out, a buffer for the driver's answer | some forty commands, by ioctl or by netlink test mode | the event loop waits for the driver inside a command; buffers nobody initialises; counters reset on some paths only | commands end; the counter counts errors in a row; what is printed comes from the driver |
| mrdump, Bluetooth, audio, RIL, ROM statistics, build files | several | little | see `PROJECT.json` | - | - |

Interactions. The framework calls the GPS HAL (`GpsInterface`); the HAL sends
datagrams to the daemon mnld and reads its answers and `/dev/gps` in
`gps_state_thread`; the EPO thread fetches files and asks mnld to install them;
the callbacks go back to the framework. The fingerprint HAL shares
`struct mafprint` with its sensor thread and talks to the driver through
`fp_setWork`/`fp_getWork`, whose library is closed. The YGPS application talks to
mnld over a local socket, and a tester to the native thread of the HAL; the
supplicant's driver commands come from the Wi-Fi framework.

## 2. Modules

| Module | Models | Used by |
|---|---|---|
| `GpsHal` | life cycle: framework thread, native thread, EPO thread's start and end, mnld (external) | `MCGpsHal`, `GpsHalProofs` |
| `GpsContract` | abstract specification: what a session looks like to the framework | `GpsHal` (INSTANCE, property `KeepsContract`) |
| `GpsEpo` | EPO download | `MCGpsEpo`, `GpsEpoProofs` |
| `NmeaReader` | sentences to reports | `MCNmeaReader`, `NmeaReaderProofs` |
| `NmeaLine` | characters to sentences | `MCNmeaLine`, `NmeaLineProofs` |
| `Fingerprint` | fingerprint HAL | `MCFingerprint`, `FingerprintProofs` |
| `AtTest` | self test by AT commands | `MCAtTest`, `AtTestProofs` |
| `ClientSocket` | YGPS client of mnld | `MCClientSocket`, `ClientSocketProofs` |
| `WpaDriver` | driver commands of wpa_supplicant | `MCWpaDriver`, `WpaDriverProofs` |
| `GpsHalProofs`, `GpsEpoProofs`, `NmeaReaderProofs`, `NmeaLineProofs`, `FingerprintProofs`, `AtTestProofs`, `ClientSocketProofs`, `WpaDriverProofs` | theorems | - |

**GpsHal.** One variable per flag of the code. `fpc`, `hpc` and `epc` say where
the framework's call, `gps_state_thread` and `thread_epo_file_update` are; an
action is the code between two accesses to shared state, so assignments of `sta`,
`status_cb`, the wakelock and `start_flag` are separate steps. The condition
flags are those of `get_condition`/`release_condition`: a release stays set
until somebody waits for it. Sockets are sequences of at most `MaxQueue`
datagrams (a bound; a sender waits when it is reached). mnld takes a command at a
time, its engine writes to `/dev/gps` while it runs. `Faults` says what may fail:
`init` and `thread` (gps_state_init, pthread_create), `slow` (a new thread runs
late), `send`, `crash` (the engine dies by itself), `epoll` and `ni`
(network-initiated sessions and their icon).

**GpsContract.** Engine on, session begin, wakelock, then, after a stop, session
end, engine off, wakelock released; nothing begins before the last session is
over, and whatever was asked for makes progress. The refinement maps the
framework's request to `asked` and "`start_flag` is set and a stop has been
called" to `stopping`; the reported state maps to itself.

**GpsEpo.** Files are sequences of pieces (set, number, readable or not); times
are in days and a piece covers three. The EPO thread's loop is followed from
point to point, with the fetch (seconds to minutes) and the check after it as
separate steps, because other threads act in between: `mtk_gps_start` and mnld's
DONE answer may unlink `EPOHAL.DAT` and reset the counter at any of these points.
The check of one piece is a single step, and a piece is fetched within a day. `Faults`: `bad` - a piece that cannot be
read; `append` - `EPOHAL.DAT` or the piece file cannot be opened or is written
short, which the code only logs before it counts the piece. The history `spoiled`
records that an append of this download failed, or that another thread reset the
counter or removed the file while a later piece was being fetched; a download
that begins again with piece 0 clears it. A fetch that finds no URL leaves the old
piece file, one that fails removes it. `gps_epo_enable` is 1, the retry timer is
taken to be created, and an `EPOHAL.DAT` that was opened and left empty counts as
absent.

**NmeaReader.** The engine sends groups of GSV sentences; other sentences come at
any time between them. A read may end inside a group (`split`), a sentence may be
lost (`loss`). The position's numbers are abstracted to "there is one", a
satellite to its identity. A report is judged when it is made (`Judge`) against a
history of what was received since the last one, so that the properties are plain
invariants. The reader for GNSS callbacks and the one for GPS callbacks are the
same module (`gps_mode`), both explored. What a sentence is accepted for is a
recursive function of the place in it (`Kept`), as in the loop of the code.

**NmeaLine.** The buffer holds no characters, only how many; `Size` is
`NMEA_MAX_SIZE + 1`. Lines of every length up to `MaxLine` follow each other.

**Fingerprint.** The framework's call, the sensor thread and the alarm handler
are interleaved where the code can take long: `poll`, `fp_getImage`, the searches
of `enroll()` and `match()`, the write of a finished template, `fp_calibrate` and
each `msleep`; and between a look at the work word and the store that follows from
it, in `handler` (862-863) and from `thread_run` to `wakeup_event` (1005 to 959).
What lies between is one step; races inside such short sections are not in the
model (`new_fid()` and the reset of the grade in `ma_enroll` among them).
`request.raced` records that a store was pending when a call set its own word.
Results of the sensor are arbitrary. The driver wakes the poller for DETECT and
FACTORY, and may or may not for the other work words. The framework enrolls and
verifies for the group it made active last, and calls in any order: it need not
cancel first. Left out: the gesture mode, which nothing in the repository selects,
the authentication tokens, DEBUG and RESTORE, which only a test tool sets, and
failing opens.

**AtTest.** Everything happens on the native thread, so an action is a whole
command, a whole sentence or a control byte. The globals are the record `at`.
`CNo`, `Avg_CNo` and `Success_Num` move together, so a level is only zero or not.
The clock is one bit: whether the `time_delay` seconds since the start are over.
Every request to mnld may fail. The array of samples is null, live or freed and
has a length. Histories: `run` is how the last test went, `past` that a sample was
stored past the array's end, `odd` that the test found counters of an earlier one
or that one read brought two samples.

**ClientSocket.** Every read and write of a field that both threads use is a step
of its own: `closeClient` reads a field for its null test and again for its use,
so the other thread may clear it in between; the exception this raises ends the
process (`Running`). A close may throw, which skips the fields that are left and
only clears them; whether the connection is then open is up to the library
(`stuck` records it). Connections are numbered, `open` is the set of open ones. The
daemon may answer, send something else, stay silent, or close the connection at
any time. mResponse is the number of the turn that assigned it, which is what
freshness is about.

**WpaDriver.** One thread. A command without test mode is one action; one with
test mode is a request, the driver's answer on the netlink socket (external), a
step per received message, and the rest of the command (`Finish`). The commands
are grouped by what they do with the result of `wpa_driver_nl80211_testmode`
(return it, ignore it, print the answer). The driver may leave any attributes out
of an answer, or refuse; a failing `nl_recvmsgs` loses a message and the loop goes
on, for ever if it was the last one (`lost`). The scan-loading time-out counts
`ScanTimeout` ticks, and a repeated set_scan_loading starts them anew; that
repetition does not count against `MaxCommands`. A P2P channel is a pair of
operating class and channel, computed by `priv_p2p_freq_to_channel` as in the
code; an uninitialised pair is an arbitrary choice (`Garbage`), and `p2p.from` is
the frequency it was last set from.

## 3. Runs

| Run | Constants | Shows |
|---|---|---|
| `GpsHal_reliable` | no faults, `MaxQueue` 2 | `SessionAgreement`, `CleanupLeavesNothing`, `WakelockCoversSession`, `CallsReturn`, `KeepsContract` |
| `GpsHal_faults` | all seven faults | `ThreadGoneBeforeClose`, `NoThreadOutlivesCleanup` |
| `GpsHal_crash` | `crash` | violation of `StopIsDone` |
| `GpsEpo` | 2 pieces, from day 3 to day 4, `bad`, `append` | `CompleteFileInOrder`, `CounterMatchesFile` |
| `GpsEpo_live` | 2 pieces, day 4, the server's set expired or renewed | `DownloadEnds`, `FailureIsResolved` |
| `NmeaReader` | 2 + 1 satellites, list of 2, `split`, `loss` | `SvReportExact`, `SvReportCurrent`, `UsedCurrent`, `NoFixAfterRestart` |
| `NmeaLine` | buffer of 4, lines up to 7 with the newline | `LinesAreHanded` |
| `Fingerprint` | 1 group, 2 fingers, 2 samples, 2 looks, 2 checks | `TemplateNotOverwritten`, `RequestArmed`, `CallsReturn`, `EventsEnd` |
| `Fingerprint_group` | 2 groups, 1 finger | violation of `GroupRestricted` |
| `AtTest` | n up to 2, 2 waits, 4 commands, 1 control byte | `SamplesLive`, `SamplesFit`, `FinishedIsAnswered`, `NoSignalEnds` |
| `ClientSocket` | 2 commands, one timed, sent 3 times; 2 lines | `FreshUnlessEof`, `AliveUntilEnd`, `TurnsEnd` |
| `WpaDriver` | 3 commands, 2 attributes, 3 frequencies (one unknown to the conversion) and one off the raster, 1 error allowed, time-out of 2 ticks | `ErrorsInSequence`, `ChannelOfClass`, `StatisticsFromDriver`, `CommandEnds`, `ListIsUpdated` |

Every module's `TypeOK` is checked by one of its passing runs, and every property
of a passing run has a mutant: a plausible error in the code under which TLC finds
it violated.

Bounds. The HAL's control is finite apart from its queues; two datagrams are
enough for a STOP to wait behind a START. Two pieces make a first, a last and a
resumed piece, and in two days the set can change under a download, a file can
expire (`WifiPeriod` 1, `Period` 3; the first set expires on day 4) and a resume can
find data older than a day. The liveness run stays on one day, on which a set of
day 1 has expired: a server that keeps it makes every start ask anew. The server
changes its set finitely often there, as the clock is bounded.
A list of two entries with two groups of up to two satellites overflows. A buffer
of four has lines that are shorter, equal, one longer and much longer. Two
fingers leave a free slot or none, and two checks of an event, samples and looks
make a first and a last one; one check without a finger ends an event there. Satellites are interchangeable, hence the symmetry. Four AT
commands are enough to start a test, change it to signal mode, begin the
measurement and end it, or to start twice. Three sends with two commands fill the
queue behind a turn and drop a repeated command; two lines make a first, a last
and one too many. Two failures in a row pass a limit of one error. The frequencies
are one of 2.4 GHz, one of 5 GHz, channel 144 (5720 MHz), which
`priv_p2p_freq_to_channel` does not know, and one between two channels; every
range of the conversion is in the proof. Two ticks let a command come between the
start and the end of the time-out.

Deadlock checking is off in `GpsHal_faults` and `GpsHal_crash`, where after a
failed thread creation every party may really wait for ever, in `ClientSocket`,
which stops for good once the client is ended, and in `WpaDriver`, where the event
loop stands still once the last message of an answer is lost.

Fairness. `GpsHal!Fairness`: threads that can run do run (the scheduler);
`epoll_wait` reports every ready descriptor and the thread handles all reported
ones, hence strong fairness for the three kinds of input; mnld answers and its
engine produces sentences (assumed of mnld; `GpsHal_crash` drops nothing of this
and only lets the engine die). The framework is not obliged to call. `GpsEpo`:
the EPO thread, the timer, mnld and the native thread run; the network, the clock
and the server owe nothing. `Fingerprint`: a call that has begun and the sensor
thread go on; touches, alarms and calls need not come. An image that changes
nothing is a stuttering step: `check()` is limited by time, so it does not go on
for ever. `AtTest`: the engine goes on sending, so that reads keep ending, and
the clock runs. `ClientSocket`: the send thread is scheduled, a read returns
(`setSoTimeout` limits it), the clock runs and an `endClient` that has begun goes
on; the daemon owes nothing. `WpaDriver`: the driver answers each request with an
acknowledgement or an error (the kernel always does), the loop reads what is
there, time passes and eloop time-outs come; that nl_recvmsgs does not fail is not
assumed.

## 4. What was found

* `mtk_gps_stop` waits for `start_flag`; the MNL_DIE of an engine that died by
  itself has cleared it, and the call never returns (`GpsHal_crash`).
* `ma_set_active_group` publishes the new group id before the old group's
  templates are gone; a match that is under way is reported for the wrong group
  (`Fingerprint_group`). With two groups the same window also lets an enrolment
  write into a slot of the new group, so `TemplateNotOverwritten` is stated for
  one group.

Observations without a run of their own; the models contain the behaviour, and
the properties are stated so that they exclude just it:

* A resumed EPO download appends the failed piece again although its unreadable
  version is in the file; the readable pieces are still one set in order, which
  `CompleteFileInOrder` states.
* mnld's DONE answer, or a start that finds an expired file, unlinks `EPOHAL.DAT`
  and resets the counter while a later piece is fetched: the "completed" file then
  lacks its first pieces. A failed append does the same, since the piece is counted
  all the same. Both set `spoiled`, which `CompleteFileInOrder` and
  `CounterMatchesFile` except.
* While the server keeps an expired set, every start of a session requests the
  download again and resets the counter, so a download need not end if starts
  never cease. `DownloadEnds` excepts just that.
* `ma_cancel` stores the idle word, but the alarm handler may have found a waiting
  match before and store DETECT after it, and a wake-up in the sensor thread may
  store MATCH in the same way: the cancelled match is armed again, although a
  comment (`fingerprint.c:81-82`) has the cancel switch "the HAL state machine back
  to the idle state". The same window can swallow a new request. `RequestArmed`
  says that nothing else can.
* A GSV group of which a sentence was lost is reported, not ignored; the test
  only catches groups with too many satellites. `SvReportCurrent` speaks of reads
  without loss.
* `AT%GPS=n` during a test does not stop it first, because the parsers clear
  `test_mode_flag`: the samples counted so far go into the new test, whose array
  may be shorter, so that the next sample is stored past its end (`SamplesFit`
  excepts counters that were left over).
  `AT%GNSS=E` does not reset `Failure_Num`. `FinishedIsAnswered` speaks of a test
  that began with nothing left over.
* The end of a test is the equality of tries and `test_num`; two groups counted in
  one read can step over it, and over the end of the array. In signal mode
  `Success_Num` never advances, so the wait's time-out replaces the measurement.
  `NoSignalEnds` speaks of tests of n samples without a signal.
* When the daemon closes the connection without an answer, YGPS reports the
  answer of the command before (`FreshUnlessEof`). An `endClient` while the send
  thread opens a connection leaves that connection open, or ends the process by a
  null reference; `TurnsEnd` allows both.
* An IOException of the first close in `closeClient` skips the others and drops the
  references; `AliveUntilEnd` excepts a connection whose close has failed.
* Statistics print what the driver did not send, or `nl_recvmsgs` lost, from an
  uninitialised buffer; `StatisticsFromDriver` says that what is printed of the
  answer is of this request. A frequency that is not a channel, or one of channel
  144, sets the P2P channel to whatever was on the stack (`ChannelOfClass` excepts
  it until the next good one).
* A lost last message of an answer stops the event loop (`CommandEnds` excepts it),
  and set_scan_loading repeated within the ten seconds postpones the channel list
  for ever (`ListIsUpdated` excepts it).
* The scan-loading time-out is logged as 1 second and registered for 10.

## 5. Proofs

Every safety property that a run checks is also a theorem, for every value of the
constants that the hypotheses named below allow. The exceptions are the two
properties that runs refute. None of the invariants is inductive as it stands;
for each component the module of its proofs defines the strengthening.

**`GpsHalProofs`**, for every `MaxQueue`. With every set of faults:

* `TypeCorrect`. `TypeOK` is a conjunction of four parts (program points, flags,
  queues, signals), each inductive on its own: the provers handle Booleans, sets
  of strings and sequences well separately and badly together. Three lemmas say
  what a send, a receive and a close do to a bounded queue.
* `HandshakeHolds`: M_CLEANUP is set only when the native thread is gone,
  M_THREAD_EXIT only when the EPO thread is, and the points of cleanup after each
  wait are reached only in such states (`ThreadHandshake`).
* `DescriptorsSafe` (`ThreadGoneBeforeClose`) and `CleanupEndsThreads`
  (`NoThreadOutlivesCleanup`) follow with `ThreadHandshake`, which says what a
  pending signal means.

With no faults (`Faults = {}`, as in the run `GpsHal_reliable`). The hypothesis is
needed: each fault by itself makes `SessionAgreement` or `CleanupLeavesNothing`
false, except `init`, after which `mtk_gps_init` never returns:

* `SessionHolds`: the inductive invariant `SessionInv`. Its parts say where a
  call can be given `start_flag` and the native thread (`CallsInv`); that a stop
  is in exactly one place, on its way to mnld, on its way back, or being handled,
  until `start_flag` is cleared (`TrafficInv`); what the framework has been told
  at each point (`ReportsInv`); that the last command on the control socket is
  the one `started` will follow, and CMD_QUIT the last of all (`OrdersInv`); that
  M_STOP is pending only for the session being stopped (`SignalsInv`); and that
  the EPO thread does not see an old exit flag (`EpoInv`). `OrdersInv` is what
  makes the capacity of the sockets irrelevant: any number of commands may wait.
* `AgreementHolds` (`SessionAgreement`), `CleanupHolds` (`CleanupLeavesNothing`)
  and `WakelockHolds` (`WakelockCoversSession`, an action property) follow.
* `ImplementsContract`: `Spec => Contract!CSpec`, the safety part of
  `KeepsContract`. Each action of `GpsHal` is a step of `GpsContract` or leaves
  its variables alone, under `SessionInv`.

**`GpsEpoProofs`**, for every number of pieces, retries and days and with every
fault: `TypeCorrect`, and `FileHolds`, the invariant `FileInv`. Unless the download
is spoiled, `EPOHAL.DAT` holds the readable pieces of one set in order up to the
counter, the piece that was appended last is number `count`, of a set no older
than the piece before, the last piece file is kept for the comparison with the
server, and a file is fetched under the number of the counter (`FileWhole`).
From it `CounterHolds` (`CounterMatchesFile`) and `CompleteHolds`
(`CompleteFileInOrder`). The steps that need the argument are the comparison of
two piece files, by which a piece that begins where the one before it ends is of
the same set (`SameSet`), and the first piece, which makes a spoiled file whole
again.

**`NmeaReaderProofs`**, for every size of the list, of the groups and of a
sentence, with both faults: `RestartForgetsFix` (`NoFixAfterRestart`), with the
strengthening `FixFromGsa`; `TypeCorrect`, `ReportsExact` (`SvReportExact`),
`ReportsCurrent` and `UsedHolds` (`UsedCurrent`), with `ReaderInv`. The properties
judge a report when it is made; `ReaderInv` says the same of what has been
collected, sentence by sentence: how many entries are written and that they fit
(`Bounded`), that they are of satellites received since the last report
(`Current`), that only satellites GSA named are marked (`Named`), and that the
entries are the satellites of the whole groups and then those accepted so far of
the group under way, as far as there is room (`Exact`). The lemmas under it:
`Kept` exists and satisfies its equations, what it keeps of a list is what it
keeps of the parts of the list one after the other (`KeptPart`), and the number
of sentences is right for every size (`LastSentence`, a rounded-up division).

**`NmeaLineProofs`**, for every `Size` and `MaxLine`: `TypeCorrect` (no character is
written outside the buffer) and `WholeLines`, by the invariant `BufferIsLine`
(the buffer holds the line so far unless the line is being skipped).

**`FingerprintProofs`**, for every number of groups, fingers, samples, looks and
checks: `TypeCorrect`, with the fact that busy and wait follow the sensor
thread's point. `RequestHolds` (`RequestArmed`) by `ArmedInv`: a call that waits has
withdrawn the request before it, and every store that is still pending serves the
request, unless it was pending when the request was made.
`TemplatesHold` (`TemplateNotOverwritten`) for one group in use (`OneGroup`; with
two it is false, section 4) by `TemplateInv`: the slot being enrolled is free until
its template is complete (`SlotFree`), a search in enrolment goes with an
incomplete grade (`SampleWanted`), and the database holds nothing that memory does
not (`Stored`).

**`AtTestProofs`**, for every number of samples and limit of the wait:

* `ArraySafe` (`SamplesLive`): `Sound` adds that a measurement is begun only in
  signal mode, and is proved for each operator on the record of globals (stop,
  start, account, search, clear) before the actions that use them.
* `TypeCorrect` takes `Sound` and two more inductive parts: the flags, and the
  control bytes and answers on their way.
* `ResultAnswered` (`FinishedIsAnswered`) by `AnswerInv`: the result claims no
  more successes than tries and a time-out none, in a test begun with nothing left
  over a counted sample has left its level, and a finished test has cleared its
  flags and left an answer.
* `RoomSuffices` (`SamplesFit`) by `Fits`: while a test that began with fresh
  counters runs, the tries accounted for are fewer than the samples it asked for,
  and at most one sample is not yet accounted for; a test that is over but could
  not be stopped has no more samples than it asked for.

**`ClientSocketProofs`**, for all commands and every `LineOut`:

* `TypeCorrect`, in three inductive parts (program points, flags and the queue,
  numbers).
* `SendThreadAlive` (`AliveUntilEnd`): the strengthening says why the send
  thread's second read of a field finds what its first did. While the UI thread
  is idle the callback is set and the thread is not interrupted, each field the
  thread is about to use is not null, the streams are those of `mClientSocket`, and
  the open connections are at most the one it holds and those whose close failed.
* `AnswersFresh` (`FreshUnlessEof`): at the callback points mResponse is of this
  turn or the stream has ended; no step of the UI thread touches either.

**`WpaDriverProofs`**, for every limit, set of frequencies and of attributes:

* `ErrorsCounted` (`ErrorsInSequence`): the counter is the number of failures in a
  row modulo `Sequential + 1`. The provers know little of `%` by a variable, so
  four lemmas first derive the remainder of a successor from the uniqueness of a
  division.
* `TypeCorrect` and `StatisticsHold` (`StatisticsFromDriver`), by `Exchange`: what
  can be on the netlink socket while a command waits is at most the answer to its
  own request, and the buffer holds what was received of it when the
  acknowledgement is read; whatever is left out, refused or lost.
* `ChannelHolds` (`ChannelOfClass`), for all frequencies of the station and the
  commands: a case for each range of `priv_p2p_freq_to_channel`, which knows every
  frequency of a channel in the classes.

Assumptions: the named `ASSUME`s of the modules (capacities and sizes are
positive, faults are among those listed) and the hypotheses above. Only
model-checked, because liveness is out of the prover's reach: `CallsReturn`, the
fairness of `KeepsContract`, `DownloadEnds`, `FailureIsResolved`, `EventsEnd`,
`NoSignalEnds`, `TurnsEnd`, `CommandEnds`, `ListIsUpdated`.

## 6. Plan

Done: the nine modules of section 2 and the theorems of section 5. Next, in this
order:

1. proofs: what of `SessionInv` survives a slow thread or a network-initiated
   session, and a contract with failures that it implies;
2. lines and reads together (`NmeaReader` over `NmeaLine`), for discarded reads;
3. the calendar conversions and the mrdump status block as operators checked
   against reference definitions.

Abstract specifications worth stating besides `GpsContract`: a download that
atomically replaces the file by a set, and a fingerprint service with one request
at a time.

Not modelled, besides what `PROJECT.json` notes per component: the AGPS,
network-initiated, SUPL and measurement relays (a datagram packed or unpacked and
one callback: no order of steps to go wrong); the satellite list of YGPS, a second
parser of the same sentences for the screen; in `WpaDriver` the `ap0` interface,
a supplicant without P2P, the channel query of LTE_COEX, code in `#if 0` and the
stubs at the end of the file; user interface code, scripts, init files, policies, overlays,
patches of other trees, shims around closed libraries (`libxlog`,
`libbt-vendor-mtk`, `libmtk_symbols`): they keep no state, or it is on the
other side of a closed library.

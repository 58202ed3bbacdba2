# Verification of the ANDOR2K daemon

ANDOR2K drives an ANDOR iKon camera at the Aristarchos telescope. One process, the
daemon `andor2kd`, owns the camera: it cools the detector, waits for a client on TCP
port 8080, performs the commands the client types (`settemp`, `setparam`, `image`,
`status`, `abort`, `shutdown`) and warms the detector up before it ends. While an image
is being taken three threads and the camera run beside each other, and a second client
may connect to port 8081 to abort the exposure.

This directory holds TLA+ models of that program, the TLC configurations that check
them, and TLAPS proofs about them. Paths below are relative to the repository, its
library being in `src/` and its programs in `bin/`.

## 1. The system

### Components, their state, their operations

| Component | Source | State | Operations | Model |
|---|---|---|---|---|
| Daemon | `bin/andor2kd.cpp`, `src/andor2kd.hpp` | place in `main`/`chat`, current command, child socket | start-up, `chat`, `resolve_command`, `set_temperature`, `get_image`, `set_param_value`, signal handlers | `Daemon`; what `setparam` sets, `ImageParameters` |
| Cooling and shutdown | `src/cooling.cpp`, `src/sys_shutdown.cpp` | status and temperature read last, time spent | `cool_to_temperature`, `system_shutdown` | `Daemon`, `Detector` |
| Client | `bin/andor2k_client.cpp` | typing or waiting | send a command, wait for one message | `CommandSocket` |
| Sockets | `src/cpp_socket.*`, `src/socket_sprintf.cpp` | descriptors, streams | bind, listen, accept, recv, send, close | `CommandSocket`, `AbortListener` |
| Run-till-abort series | `src/get_rta_scan.cpp` | loop index, `cur_img_in_series`, `g_mtx`, image buffer | `get_rta_scan` | `RtaScan` |
| Series reporter | `src/acquisition_series_reporter.*` | its own image number | `report` in a thread | `RtaScan` |
| Single scan and its reporter | `src/get_single_scan.cpp`, `src/acquisition_reporter.*` | `g_mtx`, image buffer | `get_single_scan`, `report` in a thread | `SingleScan` |
| Kinetic series | `src/get_acquisition.cpp`, `src/coarse_image_time.cpp` | acquired count, `stop_reporting_thread` | `get_kinetic_scan`, a reporter thread per image | `KineticScan` |
| Abort channel | `src/abort_listener.cpp` | `abort_set`, `abort_socket_fd`, `g_mtx_abort`, condition variable | `abort_listener` in a thread on port 8081 | `AbortListener` |
| Camera and detector | the SDK, `atmcdLXd.h` (external) | acquisition, circular buffer, cooler, temperature | start, abort, wait, cancel, poll, copy; cooler and thermometer | `AndorCamera`, `Detector` |
| Image parameters | `src/resolve_image_parameters.cpp`, `src/set_acquisition_mode.cpp`, `src/set_readout_mode.cpp` | the one `AndorParameters` instance | option parsing, `set_param_value`, mode set-up | `ImageParameters` |
| Acquisition set-up | `src/set_acquisition.cpp`, `src/vhsspeed.cpp`, `src/set_preampgain.cpp` | SDK settings, buffer size | `setup_acquisition` and what it calls | `ImageParameters`; its headers, `FitsHeaders` |
| FITS headers, file names | `src/fits_header.*`, `src/fits_filenames.cpp` | a list of headers; the directory | update, merge; next free index | `FitsHeaders` |
| FITS output | `src/save_as_fits.cpp`, `src/cppfits.hpp` | the file | `save_as_fits`, `apply_headers` | `FitsHeaders`; its answer to the client, the scans |
| Aristarchos headers | `src/aristarchos.*`, `src/cbase64.*` | a connection, a reply buffer, two counters of tries | request, retry, decode, extract | `Aristarchos`, inside `FitsHeaders` |
| Times; command line and tables; superseded code and tests | see `PROJECT.json` | none to check | | not modelled |

### How they interact

* `get_image` calls one of the three scans in the daemon's main thread. A single scan or
  a run-till-abort series spawns `abort_listener`, waits for it to publish its
  descriptor (mutex and condition variable), locks `g_mtx`, spawns a reporter, and
  sleeps in `WaitForAcquisition`. The reporter polls `g_mtx` with `try_lock` and sends
  progress to the client until it gets the mutex. A message on the abort socket sets
  `abort_set` and calls `CancelWait`. Every way out unlocks, shuts the abort socket
  down by its descriptor, and joins both threads.
* The scans share globals across commands: `cur_img_in_series`, `abort_set`,
  `abort_socket_fd`, `stop_reporting_thread`. What one command leaves there is what the
  next starts from.
* A signal handler runs `system_shutdown` on top of whatever the main thread is doing,
  while the other threads run on, and calls `exit`.
* Client and daemon speak over one byte stream each way, without message boundaries.
* One `AndorParameters` instance, set to its defaults once, serves all commands. `image`
  writes its options into it while reading them, `setparam` its tokens; what a command
  does not mention, or wrote before it was rejected, is what the next one starts from.
* `setup_acquisition` programs the camera from those parameters, call by call, and sizes
  the image buffer; `get_acquisition` chooses the scan by the mode.
* `setup_acquisition` also collects the FITS headers of the command: those of the
  telescope first, asked for at the control computer (FCC) of Aristarchos in a TCP
  conversation of four commands, then its own. Every image of the command is saved with
  that list, in a file whose index is counted in the directory each time.

### What is hard here

Interleavings of three threads and the camera; hand-written clean-up on many ways out;
flags shared by consecutive commands; a camera that runs ahead of the program; signals
in the middle of anything; a driver any of whose calls may fail; a client that leaves,
or sends ahead of the daemon. `PROJECT.json` lists the hazards one by one with the line
where each bites and the properties that would catch it.

What makes each component correct, in a sentence:

* *a scan*: each command is answered once, "ok" means every image asked for is saved
  under its number, an abort is reported as such, and nothing is left for the next command;
* *a reporter*: it runs as long as the acquisition and no longer than the command;
* *the abort channel*: it never keeps a command from ending, and an abort is effective;
* *the daemon*: whoever tells it to end, the detector is neither acquiring nor cooled
  afterwards, its loops end, and every client gets its answer;
* *the parameters and the set-up*: a scan is the one, of the size, exposure and shutter,
  that the command asked for, whatever earlier commands left in the parameters and the
  camera;
* *headers and files*: a file tells what its own command was taken with, its name is free
  and the highest of its base;
* *the request to the telescope*: it ends, tries as often as it was told to, and takes
  nothing but whole blocks for headers.

## 2. The modules

```
AndorCamera          Detector   CommandSocket       ImageCommand
   |      \               \       /                 (abstract)
AbortListener  \           Daemon                      ^
   |     \    KineticScan     |                        | refinement
   |      \        \      DaemonProofs       RtaScan, SingleScan
RtaScan  SingleScan \
   |  \      |    KineticScanProofs
   |   \ SingleScanProofs
   | RtaScanHistory
RtaScanProofs

ImageParameters                     Aristarchos      ImageFiles
   |         \                           |           (abstract)
   |     MCImageParameters          FitsHeaders ---------^
ImageParametersProofs               /         \
                         MCFitsHeaders    FitsHeadersLemmas ---- FoldLemmas
                                               |
                                          FitsHeadersProofs
```

The scans, the daemon, the parameters and the headers are composed through what one hands
to the other and not in one state space: `Daemon` takes an image command as a step, the
scans take `num_images` and the mode from nowhere, `ImageParameters` ends where the scan is
called and `FitsHeaders` begins where an image is there to be saved.

A module that EXTENDS another adds its state to it, and its `Next` composes the actions
of both with explicit UNCHANGED parts. The places of a thread (`mpc`, `rpc`, `lpc`,
`dpc`) are named for what the thread is about to do. An action is a stretch of
code with at most one access to something another thread can see; locals that die in
that stretch do not appear. Definitions whose comment begins with "Mutated" are not
part of any `Next`: each is the form an action would have with a plausible slip in the
code, and is used to confirm that a property can tell the difference.

**`AndorCamera`** – the SDK's acquisition calls. A frame is the number of the exposure it
holds. An exposure may have ended before its data reached the circular buffer; a wait
may be satisfied, cancelled or fail; `CancelWait` with nobody asleep does nothing, and
loses against an exposure that has ended already.

**`AbortListener`** – `abort_listener()` step by step (reset, lock, bind, publish, accept,
recv, set the flag, cancel, close) with its ways out, what the scans do with it (spawn,
handshake, shutdown, join), the peer, and the TIME_WAIT state of the port. The
handshake `cv.wait(lk, []{ return abort_socket_fd; })` follows the code: its predicate
is true for the -100 the scan itself has stored, so it waits only while the listener
holds the mutex.

**`RtaScan`** – `get_rta_scan()` (17 places, eight clean-up sequences folded into one
with a reason) with `AcquisitionSeriesReporter::report()`, the listener and the camera.
Commands repeat for ever on the same globals. `saved` records which frame each file
holds, `dones` and `result` what the client has been told, `outcome` how the acquisition
ended. `num_images = 0` is reachable in the program: a rejected `--nimages` leaves it (or
a negative number, for which the loop does the same). **`RtaScanHistory`** adds a history
variable, `cancelledAt`: where the main thread was when the listener called `CancelWait`. No
action reads it; it lets a property tell an abort between two waits from one before the first.

**`SingleScan`** – the same for `get_single_scan()`: the data is fetched between telling
the threads to stop and joining them, the error looked at afterwards; a bias image
(exposure 0) has a reporter that ends at once.

**`KineticScan`** – `get_kinetic_scan()`: a reporter per image, stopped by a global flag;
the count that ends the loop is the camera's (of the image before, if asking for it fails,
which the code does not look at), the image saved is the most recent one.

**`ImageCommand`** – the abstract promise: images saved first to last, none twice and none
left out, then one answer, "ok" only if all are there and "aborted" only if somebody
asked. `RtaScan` and `SingleScan` implement it; their mapping takes `phase` from the place
and `dones`, `files` from `saved`, `asked` from the peer, `answer` from `result`.

**`Detector`** – the SDK's temperature side: it refuses the cooler while an acquisition runs or
when not initialised; the temperature drifts toward the set point or the room.

**`CommandSocket`** – the connection and the client. `recv` returns everything that has
arrived, of which the daemon looks at the first word. The first send to a peer that has
left succeeds, the second raises SIGPIPE.

**`Daemon`** – `main`, `chat`, `resolve_command`, `cool_to_temperature`,
`system_shutdown` and the signal handlers. An image command is one step that answers or
does not, since the scan modules have its inside; its reporter thread stays, because it
sends to the same client at any moment and goes on under a signal handler. Signals
nest: each is blocked in its own handler only.

**`ImageParameters`** – `resolve_image_parameters()`, `set_param_value()`,
`setup_acquisition()` with `setup_read_out_mode()`, `setup_acquisition_mode()` and
`set_preampgain()`, and the choice in `get_acquisition()`. One action per option: it
writes `params` first and rejects the command afterwards, as the code does, so that a
wrong value stays. `camera` is what the SDK has been told; each call of the set-up may fail,
and what was told before it stays. `asked`, `wrote`, `leftover` and `gainRefused` are
history variables: what this command gave, what it has written, what rejected commands left.

**`Aristarchos`** – `get_aristarchos_headers()` and `send_request_header_sequence()`:
connect, the four commands with their replies (none, needed, optional), the two loops, the
block and its base64 lengths. The FCC may answer late or unasked, in pieces, with an error,
hang up or say nothing; `wire` keeps what has arrived and one `recv` takes all of it.

**`FitsHeaders`** – a command from the collection of its headers to its last file:
`FitsHeaders::merge()` and `update()`, `make_fits_filename()`, `save_as_fits()` with
`apply_headers()`. A header is its key, its type, whether it is padded with blanks, and who
gave it. `dir` survives the death of the process, which can happen at any moment; files are
also moved away by users. `Update` is one call of `update()`, a function on lists;
`UpdateAll` is the loop over it, as a fold, and so is the scan of the directory in
`NextIndex`.

**`ImageFiles`** – the abstract promise to whoever reads the files: the telescope is asked
before the first file and its lines are taken from one answer; a file appears with an index
above that of every file of its base *at that moment*, though the code has read the
directory some steps before; it tells what its command was taken with before the next one
is begun; no command has more files than it asked for, and one that ends early leaves the
directory as it is. `FitsHeaders` implements it: the mapping takes `phase` from the place,
`left` from `images`, the lines and the keywords from `extracted` and `file`.

**`RtaScanProofs`**, **`SingleScanProofs`**, **`KineticScanProofs`**, **`DaemonProofs`**,
**`ImageParametersProofs`**, **`FitsHeadersLemmas`** and **`FitsHeadersProofs`** – section 5.
**`FoldLemmas`** – induction and folds in a form the provers can use, also there.
**`MCImageParameters`**, **`MCFitsHeaders`** – values of the constants a configuration file
cannot hold.

## 3. What is checked

| Run | Config | Distinct states | What it shows |
|---|---|---|---|
| `rta` | `MCRtaScan` | 604,779 | All safety of the run-till-abort series over any number of commands: `TypeOK`, `OkMeansComplete`, `IdleIsClean`, `ReporterOutlastsSeries`, `OneAnswer`, `DoneIsLast`, and that it implements `ImageCommand` |
| `rta_live` | `MCRtaScanLive` | 93,957 | An abort that reaches the sleeping main thread is answered as one; a command whose handshake did wait ends unless a peer stays connected and silent for ever |
| `single` | `MCSingleScan` | 6,473 | The same questions, safety and liveness, of the single scan |
| `kinetic` | `MCKineticScan` | 5,336 | Files in order, the last image among them, reporters alive while their image is awaited and joined afterwards, a clean idle state |
| `daemon` | `MCDaemon` | 325,735 | Told to end, the daemon leaves the detector safe; commands are answered once; client and daemon can only be stuck after a command that is never answered; cooling and shutdown end |
| `parameters` | `MCImageParameters` | 1,862,664 | Whatever options were given, rejected or set before, and whatever SDK call failed: buffer and camera agree on the size of the image, the scan is the one the command and the camera are set for, an invalid number or exposure can only be a leftover, the GAIN header is wrong only after a refused gain |
| `headers` | `MCFitsHeaders` | 43,600 | Commands, conversations, files and deaths implement `ImageFiles`: a closed file has the daemon's headers with its own values and the telescope's lines, and appears with the highest index of its base; when it is created no file is in its way (`NamesCountUp`), over restarts, removals and changes of day; tries do not multiply; a command ends whatever the FCC does |
| `rta_returns` | `RtaReturns` | | violated: see findings |
| `rta_lost_abort` | `RtaLostAbort` | | violated, in a series of two images |
| `daemon_obeys` | `DaemonObeys` | | violated |
| `parameters_leak` | `ParametersLeak` | | violated |
| `headers_lost` | `HeadersLost` | | violated |

### Bounds, and why they are enough

* *Images.* `MaxImages` is 2 in `rta`: with two images there is a first, a last, a step
  from one to the next, and a previous command with another count. The liveness run has
  one image, since the handshake, the wait and the joins are the same for each. The
  kinetic runs have three, so that the camera can be ahead by one and by two.
* *Buffer.* `BufSize` is 1, the smallest circular buffer, in which overwriting comes
  soonest. In a run-till-abort series exposures go on for ever; they are counted up to
  `FrameCap = MaxImages + BufSize`, at which point every image a command may ask for has
  been overwritten and counting on would change nothing.
* *Errors.* Every driver call that the code checks may fail, at every place and in every
  round. `OtherSocketErrors` lets the abort port fail to bind for reasons other than
  TIME_WAIT, and its `accept` fail before the scan shuts it down.
* *Time limits.* The 10 s of polling for data may be over at any poll (there is no clock
  in the scan modules). In `Daemon`, `MaxPolls = 2` rounds fit in the limit of the cooling and of
  the warming loop: one round that goes on, one that ends in time, one that does not.
* *Temperature.* Three levels: cold, warm enough to be switched off, and the room's.
* *Connection.* `MaxPending = 2` commands sent ahead are the fewest that one `recv` runs
  together. One client at a time, as `chat` serves them; a new one may come when the last
  has gone.
* *Commands.* `abort` stands in `daemon` for the silent ones, which take the same step
  (`setparam`, `unknown`).
* *Signals.* Two, so that the second can interrupt the handler of the first. The three the
  code catches are treated alike (a fourth, SIGSEGV, has a handler of the same form and
  is not modelled).
* *Options.* The detector has `MAX_PIXELS_IN_DIM = 4` pixels each way and a client may write
  -1, 0, 1, 2, 3 or 5: below and at zero, one (the number of images that goes back from a
  series to a single scan, the smallest bin and corner), inside, where a bin does not divide
  the area, and above the detector. `OptionCap = 3` options over *all* commands of a behaviour: one to
  leave something behind, one to have a command rejected, one for the command that runs;
  commands without options are not counted. `ImageParametersProofs` has no bound.
* *Headers.* `FccHeaders` has four lines: a key that is also the daemon's and fills its
  eight characters (it compares equal), one that does not, and one of the telescope's own,
  twice. `Capacity = 3` is below their number, so that `merge` takes its other branch as well; the
  code's 100 (`fits_header.hpp:63`, which `get_image` leaves at its default) is above it.
* *Files.* Two bases (a change of the day, or another type of image), `IndexCap = 2` files
  of each, `ImageCap = 2` images of a command.
* *Tries.* `TriesCap = 2`: with two the loops can multiply, to four.

`CHECK_DEADLOCK FALSE` stands in the configurations of `Daemon` alone: the process exits,
and then nothing is left to happen. In the scan modules deadlock is checked.

### Fairness

* *Threads*: a thread that can go on does (weak fairness of each thread's steps). The main
  thread's fair steps exclude those that need a driver error, which nobody owes, and
  include the failing wait once it has been cancelled, and the failing copy once the
  image is gone from the buffer.
* *Camera*: an acquiring camera ends its exposures and delivers their data.
* *Abort peer*: nothing. Nobody is obliged to connect, to say something or to hang up. A
  peer that connects and stays silent keeps the listener in `recv` and the scan in its join
  (`abort_listener.cpp:91`); `PublishedHandshakeReturns` says that this is the only thing that
  can keep a command, whose handshake did wait, from its end. Only `rta_returns` assumes
  that a peer talks (`PeerFairness`), so that what it shows is not that but the handshake.
  Nor is the failure of an `accept` owed (`ListenerOwed`).
* *Daemon*: the main thread runs, which includes that an image command returns.
  `PublishedHandshakeReturns` and `CommandReturns` say when that is so. A client that
  waits reads what arrives. Nobody owes a connection, a command, a signal, a
  hang-up or an error.
* *Headers*: weak fairness of the main thread's steps, in the conversation and after it.
  Nothing is owed by the FCC: `recv` on that socket has a time limit (`SO_RCVTIMEO`, two
  seconds), so that `TimesOut` is a step of the daemon. `ImageParameters` states no fairness:
  nothing in it waits, and no liveness property is claimed of it.

## 4. Findings

Each is a run in which TLC finds the violation of what a comment or a test of the
repository says; `PROJECT.json` quotes the lines.

1. **The handshake does not wait** (`get_rta_scan.cpp:55`, run `rta_returns`). The
   predicate is true for the -100 stored just before. If the listener has not published
   its descriptor 100 ms after it was spawned and the command ends early, the shutdown
   hits no socket and the join waits for a listener in `accept`. The single scan has the
   same lines.
2. **An abort between two waits is lost** (`get_rta_scan.cpp:118`, `rta_lost_abort`):
   `CancelWait` finds nobody asleep, `abort_set` is only read after a failed wait, and the
   listener is gone after it. The run shows it in a series of two images: the abort is dealt
   with while the first image is polled for, copied or saved, and the series goes to sleep
   for the second. One that comes before the first wait is lost the same way.
3. **A shutdown is swallowed** (`bin/andor2kd.cpp:269`, `daemon_obeys`): commands sent
   while the daemon is busy come out of one `recv`, of which the first word counts.
4. **A rejected value is used** (`resolve_image_parameters.cpp:79`, `parameters_leak`): a
   `--nimages` that is refused stays in the parameters, and the final tests of the next
   command do not look at it. The exposure has the same leak, for a NaN only: its sign is
   tested again.
5. **Headers after TIMECORR are in no file** (`cppfits.hpp:179`, `headers_lost`):
   `apply_headers` has no case for the type `long` and leaves there, so CCDTEMP is never
   written.

Noticed while translating, in the models, without a run of their own:

* *Threads.* After an abort the port is in TIME_WAIT and bound without `SO_REUSEADDR`
  (`abort_listener.cpp:52`): the next command has no abort channel and does not say so.
  `cur_img_in_series` keeps the last series' count, so that an image may be announced
  before it is exposed (`acquisition_series_reporter.cpp:129`). The closing message of both
  reporters is formatted and never sent. Kinetic images are skipped, and counted as saved,
  when the camera is ahead of the loop (`get_acquisition.cpp:280`); the reporter of a
  kinetic bias image divides by its milliseconds (`get_acquisition.cpp:91`).
* *Daemon.* `abort`, `setparam`, unknown commands, rejected image commands and failed
  kinetic series are answered with nothing (`bin/andor2kd.cpp:252`). `cooling.cpp:78` ends
  in a constant that is always true. The temperature that decides whether
  `system_shutdown` waits is read before the cooler is switched off
  (`sys_shutdown.cpp:107`). SIGPIPE has no handler; an FCC that hangs up between its
  first two commands raises it as well (`aristarchos.cpp:96`). After a failed `accept` or
  first cooling `main` returns without `system_shutdown`.
* *Parameters.* A rejected area or bin stays too, and every later command that does not
  give the same option is rejected for it (`resolve_image_parameters.cpp:361-390`). After a
  failed `set_preampgain` the GAIN header names the gain that was asked for
  (`set_acquisition.cpp:83`). `cppfits.hpp:106` declares the axes as height, then width.
* *Headers.* When a file cannot be created the constructor goes on with a null pointer
  (`cppfits.hpp:98`). `merge` drops the list when its capacity does not suffice
  (`fits_header.cpp:93`), which is harmless only because it is empty by then.
* *Aristarchos.* The error of a conversation that broke is set back to 0 on the way to the
  loop's condition (`aristarchos.cpp:187`): the inner retry never happens. A base64
  block whose payload is no multiple of three bytes counts as undecodable
  (`aristarchos.cpp:385`). A conversation that broke is not ended at the FCC: it keeps what
  the commands so far asked of it.

## 5. What is proved

### `RtaScan`, for every number of images and every buffer size

Assumed: `CameraAssumption`, `ListenerAssumption` and `MaxImagesAssumption` (the counts
are positive naturals, a descriptor is positive, `FrameCap = MaxImages + BufSize`).

None of the safety properties is inductive: that a complete series has saved every image
says nothing of an incomplete one. `IInv` is the conjunction of `TypeOK` and

* `LoopInv` – the loop has saved images 1 to `curimg`, and inside its body the image under
  way is the next one;
* `ThreadInv` – at each place of the main thread, which threads are alive, who holds which
  mutex, and when the abort socket is closed;
* `CameraInv` – the camera runs only between start and abort, and the waiter is the main
  thread;
* `AnswerInv` – how the outcome and the number of answers go with each place;
* `AbortInv` – `abort_set` is one only after the peer of *this* command has sent;
* `DoneInv` – what is still to come once "done" is out.

One lemma per conjunct shows it preserved by every action. From `Spec => []IInv` follow
`TypeCorrect`, `OkIsComplete`, `CleanAtIdle`, `ReporterStays`, `AnsweredOnce` and the action
property `NothingAfterDone`. `Implementation` proves that every step of the series is a
step of `ImageCommand` or a stutter; it needs `LoopInv` (the file saved is the next one)
and `AbortInv` (nobody is told "aborted" who was not).

Two theorems carry what the liveness property rests on. `SeriesIsBounded`: every step of the
main thread makes `StepsLeft` smaller, nothing but the next command makes it larger, and a
command of n images starts with at most 6n + 11. So the main thread can fail to end only by
waiting, and `WaitsEnd` says for what: at each place where a thread waits for another
(`WaitsAreServed`) the mutex is free or held by a listener about to give it back, the thread
to be joined exists, and a listener in `recv` has a peer; and (`ThreadsAreReleased`) a
descriptor that was published stays so until the shutdown, the shutdown releases the listener
from `accept`, nobody puts him back, and each step of a reporter that is being joined brings
its end nearer. It needs `SocketInv`, beside `IInv`: where descriptor, abort socket and peer
are at each place of the listener. What it does *not* say is that an unpublished descriptor
is shut down: that is finding 1.

`CancelledIsAborted` does the same for an abort. `CancelInv`: whoever cancels the wait has set
the flag before. `AbortIsKept`: a cancelled wait returns nothing but its failure, and from
there on (`Aborting`) nobody lowers the flag, and the way through the joins is not left, until
the client has been told "aborted". That the flag may be set with nobody cancelled is finding 2.

### `SingleScan`, for any number of commands

Assumed: `CameraAssumption` and `ListenerAssumption`. The single scan unlocks and closes the
abort channel before it fetches its data, and looks at the error of the fetch after two
joins; what makes that harmless has to be carried from the wait to the save. `IInv` is
`TypeOK` with

* `ThreadInv` – who is alive at each place, who holds which mutex, and that the abort socket
  is closed once its thread has ended;
* `ExposureInv` – an event in the wait means that the one exposure has ended; nothing starts
  it again; after the fetch the buffer holds its frame;
* `AnswerInv` – how the outcome and the number of answers go with each place: a failed start
  is answered before the joins, everything else after them;
* `AbortInv` – as for the series;
* `DoneInv` – once "done" is out no reporter is left.

From `Invariance` follow `TypeCorrect`, `OnlyExposedIsSaved`, `CleanAtIdle`, `AnsweredOnce`, the
action property `NothingAfterDone`, and `Implementation`, the refinement of `ImageCommand`
for one image: all safety properties of the run `single`. `WaitsEnd` is as for the series;
a single scan has no loop whose steps would have to be counted. So is `CancelledIsAborted`.

### `KineticScan`, for every number of images

Assumed: `CameraAssumption` and `KineticAssumption` (a positive number of images; the
exposures of a series are counted up to it). The loop counts what the camera has taken and saves what came
last, so that neither the number of files nor the image in the last of them can be seen
from the loop. `IInv` is `TypeOK` with

* `ThreadInv`, `CameraInv`, `AnswerInv` – the reporter and its flag, where the camera runs, and
  what has been answered, at each place;
* `CountInv` – no more waits have been satisfied than exposures have ended, and an event
  that has not been used up is one exposure more. This bounds the number of files;
* `OrderInv` – the files are in order and none is newer than the data that has arrived;
* `LastInv` – the last file is as new as the count read before it.

From `Invariance` follow `TypeCorrect`, `FilesAreOrdered`, `OkHasLast`, `CleanAtIdle` and
`ReporterStays`: all safety properties of the run `kinetic`. `SeriesIsBounded` says that a
series of n images takes at most 8n + 10 steps of the main thread whatever the camera does,
that a reporter is joined only after it was told to end, and that from then on each of its
steps brings its end nearer: what `ReporterIsJoined` rests on.

### `Daemon`, for every set of commands and signals, every temperature and time limit

Assumed: `DetectorAssumption`, `SocketAssumption`, `DaemonAssumption` (among them that there
are finitely many signals). `IInv` is `TypeOK` with

* `SwitchInv` – before a shutdown the SDK is initialised; at each place of
  `system_shutdown` the acquisition, then the cooler, is off unless the SDK refused;
  with the SDK closed neither is on. The last part is what lets a signal start the
  shutdown over at any place, even after `ShutDown()`;
* `AnswerInv` – at each place of `chat`, whether there is a client, which command is being
  performed, and what it has been answered.

`TypeCorrect`, `DetectorLeftSafe` and `CommandsAnsweredOnce` follow. That `dones` stays at
most one is part of `TypeOK` and needs `AnswerInv`. `StuckAfterSilence` shows
`StuckOnSilentOnly` inductive relative to `IInv`: each way back to `recv` sends to the
client, or follows a silent command; a client that sends again is not stuck.

`CoolingIsBounded` and `ShutdownIsBounded` give the loops a measure. `cool_to_temperature`
has three steps to a round and at most `MaxPolls` rounds and two; its temperature may do what
it likes. A signal may start the shutdown over, so the measure of the end is one of two
parts: the signals still to come, each worth more than a whole shutdown (`MaxPolls` + 8), and
the steps left of the one under way. A daemon that has begun to end goes on with nothing
else (`Ending` stays), and each step of it and each signal makes `EndLeft` smaller.

### `ImageParameters`, for every detector size, all numbers and any number of options

Assumed: `ParametersAssumption` (the detector has at least two pixels each way, the numbers
are integers). The properties speak of the moment a scan runs, and what makes them true
happened up to eight calls before. `IInv` is `TypeOK` with

* `CommandInv` – what the options read so far have written, and that an invalid value is a
  leftover of a rejected command or about to become one;
* `ToldInv` – at each place of the set-up, which settings of the camera are already this
  command's. Without it a camera told half of an earlier command would be possible;
* `SizeInv` – from the test of the size on, the area of the parameters is a valid one, and
  buffer, scan and GAIN header are computed from them.

From `Invariance` follow `TypeCorrect`, `BufferFits`, `CameraObeys`, `NumberDecides`,
`OnlyLeftoversInvalid` and `GainTold`: all properties of the run `parameters`. The lemma
`ToldAll` says what the calls of `setup_acquisition_mode()` together tell the camera.

### `FitsHeaders`, for every FCC, every list of lines, all numbers of tries, images and files

Assumed: `AristarchosAssumption` and `FitsAssumption` (tries, images and indices have a
positive cap, the capacity of a list is a natural number, the lines are a sequence of names).

`HeadersInv` is the conjunction of

* `TriesInv` – in a conversation the connections are as many as the tries of the outer loop,
  because no way through it leaves `error` set, so that the inner loop is run through once.
  (A repair of the inner retry, section 4, would break this.)
* `TryTypes`, `TalkTypes`, `FileTypes` – the types, the bounds of the two counters among them;
* `ExtractedInv` – what was extracted are lines the FCC would send, and no more than it has;
* `ListInv` – what the list is when: empty until the lines are merged; then `AfterOwn`, which
  says that its headers are lines or the daemon's own, no two of them with the same key, and
  that each line has its keyword in it; from the daemon's updates on `Complete`: each header
  of the daemon before TIMECORR is the last of its keyword, and no header of type long comes
  before it or before the line;
* `FileTellsCommand` and `NamesCountUp`, which the directory and the file then keep.

From `HeadersInvariance` follow `TypeCorrect`, `FilesTellCommands`, `NamesAlwaysCountUp` and,
from `TriesInv` alone, `TriesDoNotMultiply`. `Implementation` proves that every step is a
step of `ImageFiles` or a stutter. It needs, beside `HeadersInv`, `LinesInv` (no line is
known before the conversation that asks for it has ended). The index is looked for in one
step and taken in another: that it is still the highest is `NamesCountUp`, which removals
cannot spoil. `CommandsRunOut` is the measure of a command: 11 steps of the main thread to a
try, five to a file and two more, whatever the FCC does beside it.

What the list and the index *are* is a fold over data of any length. The induction theorems of
the prover's library take an operator as parameter, which its backends cannot instantiate;
`FoldLemmas` has the same in first-order form. `LeastNatural` (every non-empty set of numbers
has a least element, from well-foundedness) gives `SetInduction` over *sets* of numbers, and
a fold is a function on 0..n whose values go from one to the next by the folded step
(`FoldExists`, `FoldValues`). `FitsHeadersLemmas` uses them: `NextIndexIsAbove` (the
counter ends above every entry, in whatever order the directory lists them), `UpdateInduction`
(what every update of a list preserves, all of them do), `MergedList`, `OwnComplete`, and
`WrittenTells` (of what `apply_headers` reaches, the last value of a keyword stays).

### Only model-checked

The liveness properties themselves: `DeliveredAbortIsAnswered`, `PublishedHandshakeReturns`,
`ReporterIsJoined`, `CoolingEnds`, `ShutdownEnds`, `CommandReturns`. They need fairness and
ENABLED, which the prover does not reach. What is left to TLC is little more than that: the
measures that make a loop end, the facts about who waits for whom, and that nothing leaves the
way to the answer are the theorems `SeriesIsBounded`, `WaitsEnd`, `CancelledIsAborted`,
`CoolingIsBounded`, `ShutdownIsBounded` and `CommandsRunOut`. Every other property of a passing run is proved.

## 6. What is left out

* Texts of messages, percentages, elapsed times, logging, the debug timings.
* The byte level of the sockets: a command is not split over two `recv` calls (they are
  short, the buffer has 1024 bytes), and two commands that arrive together are looked at as
  the code does, by the first word.
* What the code does wrong and a property therefore does not demand: that no image of a
  kinetic series is skipped (`FilesInOrder` and `OkHasLastImage` speak of the files there
  are); that the cooler is off after SIGPIPE, a failed `accept` or a failed first cooling
  (`LeavesDetectorSafe` speaks of a daemon that was told to end); that the GAIN header is
  right after a refused gain (`GainIsTold` shows it is wrong in no other way); that a
  header from TIMECORR on is in the file (`ImageFiles` has those before it).
* What the SDK does with the event of the last series when it refuses to start the next one:
  `StartRefused` takes it as cleared. `get_kinetic_scan` ignores the refusal
  (`get_acquisition.cpp:240`), so if the event were kept, its wait would succeed and a frame
  of the last series be saved.
* SIGSEGV; a second daemon; a restart after a death (the detector may then still be cooled
  by the hardware; the new process starts as `Init` does, at any temperature).
* Values and comments of the headers, the pixels, the texts of lines and blocks; of a
  block of Aristarchos, what bzip2 makes of it. A base name that is a prefix of another one
  (the directory scan compares prefixes) is not among `Bases`.
* What the speeds and the timings of the camera are: `set_fastest_recomended_vh_speeds` and
  `GetAcquisitionTimings` succeed or fail. Options no later step reads (`--filename`,
  `--object`, `--filter`, `kineticcycletime=`, ...) keep their ways out only.
* Times (`andor_time_utils`, `get_exposure.hpp`, `coarse_image_time.cpp`): clock
  arithmetic and formatting without a state. The command line of the tools, usage texts and
  tables of error texts. The superseded socket code, tests and examples.

## 7. Plan

Done: the scans with their threads and the camera, their abstract promise, the daemon with
its clients, signals and cooling, the parameters and the set-up, the headers, files and the
telescope's conversation, and their abstract promise; proofs about all of them. Left:

1. The stale temperature of `sys_shutdown.cpp:107`: a run of `Daemon` that shows a detector shut
   down cold because it was still being cooled when its temperature was read.
2. The promise of a kinetic series: it is not `ImageCommand`'s, since images are skipped, and
   a weaker one (files in order, one answer) could be stated for it and proved from `IInv`.

# dHome in TLA+

dHome is a home-automation daemon written as one C++ object, `app`, that is put
together from mixins (`src/src/main.cpp:34-49`), plus two Python services it
launches. The repository has no tests and no documents; what the code promises
is said by its comments, the unit file and the start script. This directory
holds TLA+ modules for the parts with state and concurrency, the TLC
configurations that check them, and proofs that TLAPS checks.

Paths below are relative to the repository; the C++ and Python code is in
`src/src/`, so `tui.h:198` means `src/src/util/tui.h`, line 198.

## 1. Inventory

| Component | State it keeps | Operations | Interacts with | What is hard | What makes it correct |
|---|---|---|---|---|---|
| text UI `util/tui.h` | `windows_`, `buffers_`, `mutex_`, `running_`, `dirty_`, a render thread | constructor, destructor, `log` (through `info`, `warn`, `error`), `renderLoop_` | every other component logs through it; the TCP handler does so from its own thread | flags read without the mutex, shutdown while drawing | no lost update, bounded logs, windows alive while drawn, destructor ends, screen catches up |
| TCP client `net/tcp.h:36-88, 131-157` | `connections_`: name to descriptor, ip, port | `connect`, `breakConnection*`, `trySend` (two), `~tcp` | the kernel's descriptors, shared with the whole process; peers | retries, descriptors reused after a close, peers that fail, names against addresses | an entry owns an open socket to where it says, what a call answers is what happened, no socket is lost, bounded retries |
| TCP listener `net/tcp.h:91-128, 159-169` | a listening socket in a detached thread | `listenOnPort`, `portInUse` | calls back into the device, which logs; other instances that want the port; the clients, among them the TCP client of another program | probe and claim are separate binds, sockets of earlier runs linger, one receive per connection, no timeout, outlives the object | somebody serves the port, nobody is refused in vain, one message per connection, who speaks is heard, clients served in turn |
| voice sessions `device/dragonPad.h:21-103`, `util/systemCmd.h`, `net/unixSocket.h`, `audio/wakeWord.h`, `audio/stt.h`, `audio/*.py` | child process, socket file, socket, service | `listenForWakeWord`, `listenForStt`, `connectStt`, `launch`, `kill`, `connectSocket`, `read`, both `listen`s | two Python services over Unix sockets, signals, the service manager | slow or dying services, socket files left behind, partial failure, SIGTERM | nothing is left running, a session talks to its own service, sessions end |
| X window `gui/xlibWindow.h` | queued boxes, open boxes, selection, scroll lines, X resources | `addTextBox`, `addGridTextBox`, `openWindow`, the event loop | the X server's event queue | events in any order, exposure bursts, reopening | one box selected, screen current, resources returned, closes on request |
| text wrapping `xlibWindow.h:247-272` | none between calls | `wrapText_` | the font's metrics | bisection and break positions at the boundaries | nothing lost, lines fit but for a space, words whole |
| application `main.cpp`, `util/fsm.h`, `util/yaml.h`, `util/util.h`, `dragonPad.h:105-151` | `currentState_`, `systemName_`, `ipAddr_` | `main`, `run`, the state functions, `readConfig`, `getValFromMap`, `onMessage` | all of the above; the service manager starts and restarts the process; somebody edits the file | states without a function, a local that is set only on success, exit status, a detached thread that outlives the object | the device that the file named runs, no life ends silently |
| speech and Claude `audio/tts.h`, `ai/claude.h` | none | `say`, `ask` | a shell | quoting | the shell sees one argument |
| `net/ip.h` | none | `getIps`, `getPrimaryIp` | the kernel | - | first address that is not loopback |
| `systemCmd::run`, `capture`, `killHard` | none | one blocking call each | a shell | - | - |
| `terminalInput`, `log`, `mic`, `scan`, `rest`, `udp`, `intentAnalysis`, `sttDebug.py`, mixins, tags, build and unit files | none, or unused | - | - | - | - |

`dragonPad::run` at this commit probes and opens its port, looks up its address,
adds one box and opens the window; its voice loop and its first `trySend` are
commented out (`dragonPad.h:125-145`). The voice sessions and the TCP client are
therefore modelled with an arbitrary single-threaded caller of their public
operations, not with one fixed caller.

## 2. Modules

| Module | Stands for | Kind |
|---|---|---|
| `LogLines` | the newest-n-lines arithmetic of `drawPanel_` (`tui.h:172-177`) | operators |
| `LogBoard` | what the text UI promises, without threads, lock or flags | abstract specification |
| `Tui` | `util/tui.h` step by step | specification, refines `LogBoard` |
| `TuiProofs` | | proofs |
| `Tcp` | the client side of `net/tcp.h` | specification |
| `TcpProofs` | | proofs |
| `Voice` | both voice sessions and both services | specification |
| `VoiceProofs` | | proofs |
| `PortClaim` | `portInUse`, the front of `listenOnPort`, several instances on a host | specification |
| `PortClaimProofs` | | proofs |
| `TcpListener` | the detached handler of `listenOnPort` and its clients | specification |
| `TcpLink` | `Tcp` in one program against `TcpListener` in another | composition of the two |
| `TcpLinkProofs` | about `TcpListener` and about the composition | proofs |
| `App` | `main.cpp`, `util/fsm.h`, `util/yaml.h`, `dragonPad::run`, `dhome.service` | specification |
| `AppProofs` | | proofs |
| `XlibWindow` | `gui/xlibWindow.h` without the wrapping | specification |
| `XlibWindowProofs` | | proofs |
| `WrapText` | `wrapText_` | specification of an algorithm |
| `WrapTextProofs` | | proofs |
| `MC*` | values for the constants | instances for TLC |

A definition that begins with the comment `Fault:` is a wrong version of the
definition that follows it, of the same shape. No specification uses it: it is
there so that each property can be shown to fail when the code is wrong in that
way (`PROJECT.json`, "mutants").

### Tui

`buffers`, `windows`, `running`, `dirty`, `mutex` are the members of the same
name; `screen` is what the terminal shows. `at[t]` is the program counter of
caller t inside `log()`, `render` that of the render thread, `owner` that of the
thread that runs the constructor and destructor. Each line of `log()` and of
`renderLoop_()` that touches shared state is an action: `Lock`, `Push`, `Trim`,
`MarkDirty`, `Unlock`; `TestRunning`, `TestDirty`, `RenderLock`, `DrawPanel`
(one panel), `ClearDirty`, `RenderUnlock`, `Wake`. `running_` and `dirty_` are
`std::atomic` and are read outside the mutex, exactly as at `tui.h:197-198`. The
owner may log too (`Owner`), the detached handlers may go on while the
destructor runs (`MayCall`), and the model stops with the object's lifetime.
`Newest(s, n)` for n <= 0 is the empty sequence, as in a terminal with fewer than
three rows per panel.

### Tcp

`connections` is `connections_`, `mine` and `theirs` the descriptors of this
object and of the rest of the process, out of the finite set `Fds`; `line[f]` is
the connected socket f: where it really goes (`to`) and whether the peer has
closed or reset it. `call`, `i`, `fd`, `sleeps` are the arguments and locals of
the running call. An address key stands for the string `ip:port`; a caller's own
name may read like one, and then it is that key (`tcp.h:60`). `inet_pton` of a
host that is not dotted leaves the address at 0.0.0.0 (`Dest`). A send may fail
for any reason and the next attempt succeed. `took` is a history variable: whom
the last call's message was given to, attempt by attempt. The loops are the actions
`SocketFails`, `SocketOpens`, `DialFails`, `DialConnects`, `SendSucceeds`,
`SendFails`, `GiveUp`; the environment opens and closes descriptors and breaks
lines between any two of them.

### Voice

One thread: `at` is where it is in a session of `kind` "wake" or "stt". `child`
is the pid it launched, `peer`/`turn` the service its socket is connected to and
the place of this connection among that service's. A service p is its process
group; `proc[p]` is where its program is: the test, unlink, bind, listen and
accept of `wakeWord.py:18-24` and `stt.py:16-22` one by one, then serving. `path`
is the file system: who bound which socket file. A service may die at any point
and leave its file. `Terminate` is the service manager's SIGTERM, ignored while
`kill()` waits (`systemCmd.h:48-51`). `abandoned` is a history variable: some
wake-word session took one of the two paths that do not kill its service.

### PortClaim

Each instance of the program probes the port, closes the probe, binds again and
listens (`Probe`, `CloseProbe`, `Bind`, `Listen`), one action per system call,
since other instances may come between any two. `sock[p]` is what its socket on
the port is. `BindFails` is Linux's rule: two sockets share a port only if both
have `SO_REUSEADDR` and neither listens, and `lingering` connections of an
earlier listener (TIME_WAIT) stop only a socket without it, which the probe is
and the listening socket is not (`tcp.h:97-98`, `159-166`). `listen()` fails
next to a listener, and the code does not look (`tcp.h:107`): the handler then
finds out at `accept()`. `broke` is a history variable. `ClaimInv`, the inductive
invariant, is `SomebodyServes` with the socket that each place calls for.

### TcpListener

The handler is a sequential program: `at` is where it is, `accepted` its
connection. The clients' ends are `peer` and `sent`; connections are numbered in
the order of the kernel's queue. `heard[k]` is what the callback got: sizes only.
The callback (`onMessage`) logs and returns; its step is part of `Recv`. What a
client sent before it aborted may still be delivered to `recv`, or be lost
(`HasData`, `HasEnded`).

### TcpLink

`TcpLink` extends `TcpListener` and has `T`, an instance of `Tcp` whose `at` is
`caller` here, and `conn`, which says of which connection a socket of the sender
is the end. A dial is `T!DialConnects` and `Arrive` in one step, a send
`T!SendSucceeds` and `Send` of the units that the call took, closing sockets
`Leave`. What is about both carries
`Link` in its name (`LinkInit`, `LinkNext`, `LinkSpec`), since the plain names
are the listener's. The handler does not block on the sender, nor the sender on
the handler, so all other steps are of one half alone. A line fails for the
sender only after the handler has closed its end. `Strangers` are clients that
are not this sender. By its form each action is a step of one half, or of
both: the proofs use that (`HalvesGoOn`), it is no result. What relates the two
is `SocketsAreEnds`: which socket is the end of which connection.

### App

`at` is where `main` is, from its start by the service manager to its exit;
`currentState` and `systemName` are the members. One action per state function;
`readConfig_` contains `readConfig` and `getValFromMap`, whose output parameters
keep their old value on failure. What `dragonPad::run` does with port and window
is `ListenOnPort`, `OpenWindow`, `NoDisplay`, `WindowCrashes`, `CloseWindow`;
each stands for a whole component, modelled elsewhere. `~app()` leaves the
handler's thread behind (`Destroy`): until the process has ended a callback may
use the destroyed object, which is undefined; the model lets the process die of
it (`Exit`). `told` and `ran` are history variables: what was logged ("error" for
an error, "noPort" for the line that there is no listener), and that the device
ran.

### XlibWindow

`queue` is the server's event queue, `screen[i]` what box i displays, or `Blank`
after the server has cleared it. One action per event taken from the queue and
per kind of key; `XClearArea(..., True)` blanks the window and queues an
exposure, in one or in two rectangles. `resources` counts what the window and its
boxes hold on the server: open fonts and Xft colours, which the program gives back
one by one (`freeTextBox_`, `cleanup_`), and the three pixels that `XAllocColor`
takes for each box, which it never frees and which go with `XCloseDisplay`.

### WrapText

`used` is how much of the text is in `lines`, `lines` holds the last glyph of
each line, `lo`, `hi`, `best` are the locals of the bisection. A font is the pen
position after each glyph of a text: nondecreasing, and below 2^15, the range of
`XGlyphInfo.xOff` (`WrapAssumption`, `XOffAssumption`).

## 3. Runs

| Run | States | What it shows |
|---|---|---|
| `tui` | 397,640 | `CleanMeansCurrent`: mutex free and flag down mean an up-to-date screen, so the unlocked read at `tui.h:198` loses nothing. `DrawsIntoLiveWindows`. `TuiInv`: the inductive invariant of the proofs; part of it is that only the caller about to trim sees entry 201 (`OverfullIsPrivate`). `ImplementsBoard`: refinement of `LogBoard`. `CatchesUp`, `DestructorReturns` |
| `tcp` | 506,886 | `TcpInv`, `EntriesOwnTheirSockets`; `AnswersAreTrue`: an error means that nothing was sent, success that the message went once to the peer of the entry; as step properties `OnlyReconnectingLosesSockets` and `SendsKeepEntries` |
| `tcp_comment` | violated | the comment at `tcp.h:130` against the code: `trySend` may sleep 2 * tryCnt - 1 times |
| `voice` | 328,218 | `VoiceInv`, `SttLeavesNothing`, `SttTalksToItsOwn`, `WakeSoundUntilAbandoned`, `OneConnectionPerService`, `SttReturns` |
| `port_claim` | 4,679 | `ClaimInv`, that is `SomebodyServes` (however the binds of several instances interleave, nobody is turned away while nobody serves) and the socket each place calls for. `OnlyOthersRefuse`: never because of an earlier run. `ClaimsSettle` |
| `tcp_listener` | 67,616 | `ListenerInv`: one message per connection, one client with `ListenOnce`. `UnheardHadLeft`: who speaks is heard. `OnlySilenceBlocks`: what can hold the handler up for ever |
| `tcp_link` | 764,672 | `LinkInv`: each socket is one end of a connection of its own. `FirstWordIsHeard`, `FirstWordArrives`: what a send is good for. `SilenceCanBeBroken`: the sender that blocks the handler has the means to free it, unless it lost the socket |
| `app` | 1,310 | `PadsOnly`: the device that runs is the one that was read. `NoSilentEnd`: no life ends in silence, and no pad runs without its port in silence. `AppInv`. No deadlock |
| `app_unit` | violated | the unit file's `Restart=on-failure` against the exit status |
| `xlib_window` | 240,390 | `WindowInv`: one box selected, all resources returned (`OneBoxSelected`, `ResourcesAreReturned`). `ScreenIsCurrent`, `ClosesOnRequest` |
| `wrap_text` | 32,448 | `LinesAreTheText`, `LinesFitButForASpace`, `WordsAreCutOnlyWhenTheyMust`, `LinesAreFilled`, `WrapInv`, `Terminates` |
| `wrap_text_comment` | violated | the comment at `xlibWindow.h:247` against the code: a line may overrun by its trailing space |

Each run checks a component's inductive invariant and the properties it serves,
and its liveness where the code has any. The invariants contain the type
invariant and smaller facts that have theorems of their own.

All runs but those of `App` say `CHECK_DEADLOCK FALSE`: an object is destroyed, a
program ends, a text is wrapped, the handler ends, or (Voice, XlibWindow,
TcpListener) a named bound is used up.

### Bounds

* Tui: two panels, one with more rows than entries are kept and one with fewer;
  two callers, the owner and a handler; `MaxEntries` 2 instead of 200, so that
  trimming happens at once; two entries. Nothing counts steps: the run covers
  every behaviour of that instance, of any length.
* Tcp: three descriptors (two in `tcp_comment`), enough for two entries and a
  dial, or a stranger and two of ours; one dotted and one undotted host; two own
  names, one of which reads like the address of the dotted host; `tryCnt` 0 and
  2, so that loops are skipped, retried and exhausted. One descriptor is as good
  as another (`SYMMETRY`; the run `tcp` checks no liveness).
* Voice: three services (`Pids`), so a session, an abandoned predecessor and a
  successor meet; two attempts to connect instead of ten.
* PortClaim: three instances: two that collide and a third that serves, probes or
  leaves meanwhile. Nothing counts steps.
* TcpListener: three connections, so that one is served, one waits and one
  comes; up to three units each and a buffer of two, so that a message is taken
  in part; a queue of two, so that it is full.
* TcpLink: two connections and two sockets: a socket that is lost or refused and
  another one, or one of ours and a stranger's; an address key and a name for
  it; two units in all per connection, in one send or in two, taken whole or in
  part; one attempt per call (retries are the subject of `Tcp`).
* App: a device that runs a window, one that ends at once, one without a
  function, a name that is no device, and an unreadable file; any number of lives.
* XlibWindow: two boxes, one that scrolls; `MaxScroll` 3, one past the end of
  the text and one more; three queued events before the outside waits, which
  the handlers' own exposures may exceed.
* WrapText: every text of up to five glyphs over a space, a narrow and a wide
  letter, and every width from -1 (paddings wider than the box) to 5.

### Fairness

* Tui: weak fairness of the render thread, of each call of `log()` once begun
  and of the owner's steps except the decision to destroy. The mutex is a
  `std::mutex`, which promises no order, so `RenderLock` has no strong fairness:
  `CatchesUp` speaks of pauses between calls.
* Voice: a session once begun and each launched service go on. Nobody has to
  speak the wake word, so only the transcription session is shown to end.
* PortClaim: an instance that was started goes through its claim. Nobody ends,
  and no client comes, by obligation.
* TcpListener, TcpLink: the handler goes on. Clients and senders never have to
  do anything; where that matters the property says so in its premise
  (`[]<>~WaitsForSilence`: no client is silent for ever).
* XlibWindow: `openWindow` goes on and takes the events there are. No event has
  to come.
* WrapText: the loops go on.

## 4. Proofs

For all values of the constants that satisfy the named assumptions, `TLAPS`
checks the following; each theorem that names a property of a run lifts it from
the instance to every instance.

* `TuiProofs`. `TuiInv` is inductive: besides types it says that each critical
  section has the occupant that `mutex` names, that the panels drawn so far in a
  pass are current (`DrawnAreCurrent`), that a stale panel under a lowered flag
  is about to be flagged by a caller still in its section (`StaleIsFlagged`),
  and that the windows exist while the render thread may run. The last two are
  what `CleanMeansCurrent` and `DrawsIntoLiveWindows` lack to be inductive.
  Refinement: `Push` maps to `Post` because a log that is over its bound has the
  same newest entries before and after `Trim`; `DrawPanel` maps to `Show` because
  `OverfullIsPrivate` makes the drawn log equal to the kept one; every other step
  stutters. Assumption: `TuiAssumption`.
* `TcpProofs`. `TcpInv` adds to the safety properties where the loops stand
  (`LoopsKeepCount`): a socket being dialled is ours, unconnected and in no
  entry, what a loop sends on is an entry, nothing was sent before its last
  attempt, and sleeps count failures. From the first three follows what a call
  answers (`AnswersHold`), for every set of names, those that read like addresses
  included. The step properties `SocketsAreNotLost` and `SendsOnlyAddEntries`
  follow from the invariant. Assumption: `TcpAssumption`.
* `VoiceProofs`. `VoiceInv` says that the only transcription service not reaped
  is the child of the running session, and that a socket file is bound by a
  service of its kind; hence a transcript is one's own. `WakeInv`, inductive
  relative to it, says the same of wake-word services until a session fails,
  and that a file a session tries is bound by a service without a connection
  yet, because no service binds twice; hence `OneConnectionPerService`.
  Assumption: `VoiceAssumption`.
* `PortClaimProofs`. `ClaimInv`: a refusal has a cause that stays (a listener, or
  a probe that goes on to claim), and a claim that is bound either becomes the
  listener or leaves one. `SomebodyServes` is not inductive without the sockets
  that the type invariant ties to the places. No assumption.
* `TcpLinkProofs`, first part: the handler among arbitrary clients, theorems of
  `Spec` of `TcpListener`. `ListenerInv` needs beside the properties only where
  the handler stands with `ListenOnce`; the work is in `RecvKeepsInv`: a
  connection is dealt with by exactly one receive. Assumption:
  `ListenerAssumption`.
* `TcpLinkProofs`, second part: the composition. `LinkInv` is the invariants of
  both halves, the types of what lies between, and `SocketsAreEnds`: a connection
  of the sender is open exactly as long as one of its sockets, and a socket has
  an entry until a `connect()` replaces one. Each action of `TcpLink` is shown to be
  a step of the sender or a stutter, and of the listener or a stutter (`StepOfSender`,
  `StepOfListener`), which lets the halves' own invariants be cited instead of
  proved again: the theorems of `TcpProofs` come
  in by `P == INSTANCE TcpProofs WITH ...`, those of the handler by the first
  part. What a send is good for (`FirstWord`) then is `UnheardHadLeft` of the
  listener read through `SocketsAreEnds`: a sender never aborts, so something of
  what it said first is heard. `LinkLosesNoSocket` carries a step property of `Tcp` over to the
  composition. Assumptions: `ListenerAssumption`, and `LinkAssumption`, which is
  `TcpAssumption` for one host and port (`SenderAssumption`).
* `AppProofs`. `AppInv` adds that the state after `readConfig_` is the one of the
  name that was read (`StateOfName`), from the lemma `Tables` about the two maps.
  Assumption: `AppAssumption` (an unreadable file is no device name).
  `EndsAreTold` needs besides that the state machine reaches `END` only by way of
  a device or of an error, and that a window opens only after the port was tried.
* `XlibWindowProofs`. `WindowInv` adds which resources are open where
  (`OpenGoesWithPlace`). The lemmas `TailContains` and `JoinContains` carry the
  expose event that is waited for through the queue; `ClearingKeepsInv` is why
  handlers that change boxes may leave the window stale, `PassingOverKeepsInv`
  why the others may not draw. No assumption is needed on `MaxScroll` and the
  other bounds.
* `WrapTextProofs`. `WrapInv`: the bisection's bounds and what the lines so far
  are. The lemma `BestIsLongest` is the correctness of the bisection, `CutIsGood`
  that of the break, `EndLineInv` carries both to the lines. Assumption:
  `WrapAssumption`.

### Progress

Liveness under fairness is out of the prover's reach, but what a liveness
argument rests on is not: that the steps a loop takes lead somewhere. Each of
these theorems gives a measure of what is left to do that the component's own
steps lower, and that nobody else's raise, until the next call, session, claim or
life begins; the rows marked (an invariant) say what a wait is for. What stays with TLC is
that a step that can be taken is taken (fairness), and that one can be taken
(ENABLED).

| Theorem | The measure, and what follows from it |
|---|---|
| `TuiProofs`: `JoinWaitsForOnePass` | the place in a pass and the panels yet to draw: once `~tui()` has lowered `running_` it waits for the rest of one pass, whatever is logged meanwhile |
| `TcpProofs`: `TriesRunOut` | tries left in both loops: `connect` and `trySend` come back after a bounded number of steps, whatever the network does |
| `VoiceProofs`: `SessionsGoForward`, `KillReturns` | attempts and places left: a session never starts over; its last wait finds a child that is dead, or none (an invariant) |
| `XlibWindowProofs`: `EventsComeInOrder` | the place in the queue: a request to close moves up with each event handled, nothing overtakes it, and at the front it ends the loop |
| `WrapTextProofs`: `WrappingRunsOut` | glyphs left, then prefixes left to try (lexicographic): the loops end for every width, also if no glyph fits |
| `AppProofs`: `LivesGoForward` | states left in a life: at most ten steps from start to exit |
| `PortClaimProofs`: `ClaimsRunOut` | system calls left of a claim: other instances may refuse it and never set it back |
| `TcpLinkProofs`: `HandlerNeverGoesBack` | the connections yet to come and the place within one: no connection is accepted twice |

### Only model-checked

The liveness properties themselves: `CatchesUp`, `DestructorReturns`,
`SttReturns`, `ClosesOnRequest`, `Terminates`, `ClaimsSettle`, `OnlySilenceBlocks`,
`FirstWordArrives`. `CatchesUp` and `FirstWordArrives` have no measure of their
own above: the first speaks of pauses between calls, the second follows from
`FirstWord` and the handler's progress only under fairness. Every invariant and
every step property of a passing run is a theorem.

The theorems without a run's property speak of conjuncts or consequences of the
invariants the runs check (`BoundHolds`, `SleepsAreFew`, `SelectionIsOne`,
`ResourcesGoBack`, `HeardOnce`, `OnceMeansOnce`, `NobodyRefusedInVain`, the types), or
of the measures above; `WakeInv` is a proof's strengthening of
`OneConnectionPerService` and `WakeSoundUntilAbandoned`. No module needs a
RECURSIVE operator; what the sums of advances in `MCWrapText` come to is replaced
in the proofs by the assumption that they do not decrease.

## 5. What the checks found

* `tcp.h:130`: "blocks up to tryCnt * sleep(1) on retry". A send by address that
  has to connect runs two loops with the same count (run `tcp_comment`); the
  true bound, 2 * tryCnt - 1, is proved (`SleepsAreFew`).
* `xlibWindow.h:247`: "Splits text into lines that fit". The space at which a
  line is broken is kept at its end and may lie beyond the width (run
  `wrap_text_comment`); what holds instead is proved (`OverrunsByASpace`).
* `dhome.service:9`: "Restart=on-failure". `main` returns 0 however `run` ended
  (`main.cpp:131-134`): a program that logged an error and ran no device is no
  failure to the service manager and stays down (run `app_unit`). That a life
  without a device logs an error or ends as a failure is proved (`EndsAreTold`),
  but the log is a screen that `~tui()` takes away.

Things a reader of the code should know that contradict nothing written, and so
appear as properties that say exactly how far the code goes:
`OnlyReconnectingLosesSockets` (connecting under a used name leaks its socket),
`SendsKeepEntries` (a connection whose peer has gone is never dialled again by
sending), `AnswersAreTrue` (what is sent by address goes to another peer if
`inet_pton` makes nothing of the host, or if a caller connected elsewhere under a
name that reads like that address), `WakeSoundUntilAbandoned` (a failed wake-word session leaves its
service running, and what it leaves can be what a later one talks to),
`SttReturns` (a service that died can take the program with it, by SIGPIPE),
`FirstWordIsHeard` (the rest of a first message, and any later one on the same
connection, may be lost and still be reported as sent), `OnlySilenceBlocks` (one silent client holds up all others,
one failed `accept()` ends the service) and `SilenceCanBeBroken` (a socket lost
by connecting twice under a key blocks the other program until this one ends).

## 6. Not modelled

* The last entries before shutdown: the render thread tests `running_` first and
  draws no last time. Nothing promises that it does.
* Contents: audio, transcripts, prompts, log texts, timestamps, colours, pixels.
* A short or empty reply of the transcription service is the same as a good one
  (`Reply`).
* Descriptors that sessions leak (`unixSocket.h:19`, `dragonPad.h:101`).
* What a callback does with the destroyed object after `~app()` beyond ending the
  process: the behaviour is undefined.
* A system call of `connect` or `trySend` that blocks: `TriesRunOut` bounds the
  number of calls they make, not how long one of them takes.
* `tts::say` and `claude::ask`: a blocking call of the shell each, without state of
  this program; the loop that quotes their text is a replacement letter by letter.
* `scrollLine` at the end of its range, glyph extents beyond 16 bits: the user
  would press a key 2^31 times, and the only caller shows two words.
* The components marked `not_modelled` in `PROJECT.json`, with the reasons.

## 7. Plan

Done, in this order: `Tui` with `LogBoard` and their proofs (the one component
every other runs through, and the only lock), `Tcp` and proofs, `Voice` and
proofs, `XlibWindow`, `WrapText` and proofs; then `PortClaim`, `TcpListener` and
their composition with `Tcp` in `TcpLink`, `App`, and their proofs; then the
measures of progress.

Left:

1. What follows from two measures together: the number of connections the
   handler serves against what `TcpLink`'s sender reports as sent, as a bound
   on the messages that can be lost per connection.
2. The voice loop of `dragonPad::run`, when it is no longer commented out: it
   composes `Voice`, `Tcp` and `systemCmd::capture`.
3. The last lines before shutdown (`tui.h:197`), once the code says what it
   wants there.

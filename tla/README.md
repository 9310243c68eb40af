# A verification of viewport-rds

TLA+ modules, TLC runs and TLAPS proofs for the remote-desktop server in this
repository: one Go process that captures the screen, encodes it, captures the
sound, and sends both over WebSockets to browsers, one of which controls
keyboard and mouse.

## The system

| Component (source) | State | Operations | Talks to |
|---|---|---|---|
| Hub (`internal/server/server.go`) | registry (`sync.Map`), `count`, `controller`, `lastIDR` | `handleWS` per connection, `Broadcast`, `BroadcastAudio`, `/status` | clients' channels; `onNewClient` calls the encoder and the capturer; `onInput` the input device |
| Client (`client.go`) | `send` (16 messages), `onText`, the connection | `Send`, `ReadLoop`, `writePump` | the peer |
| Screen capturer (`capture/x11grab.go`) | `c.cmd`, its process and pipe, the context | `NextFrame`, `Restart`, `Close` | a capture process; called by three kinds of goroutine without a lock |
| Audio capturer (`audio/capture.go`) | `c.cmd`, `c.stdout`, the channel of 32 chunks | `readLoop`, `reconnect`, `Close` | pw-cat; main's broadcast goroutine |
| ffmpeg encoder (`encode/ffmpeg.go`) | `cmd`, `stdin`, `writeCh`, `nalCh`, `running`, `firstFrame` | `Encode`, `restart`, `kill`, `Close`, `writeLoop`, `readNALs` | ffmpeg; its goroutines of earlier processes |
| OpenH264, VP8, converter (`encode/`) | a C handle, `idr` | `Encode`, `ForceKeyframe`, `Close` | C libraries; VP8 is not wired |
| Pipeline (`cmd/server/main.go`) | the context, the wait group, `stats` | capture loop, audio loop, signal, shutdown | all of the above |
| KMS capturer, cursor, DRM, EGL (`capture/`) | dma-buf descriptors, last framebuffer, textures | `NextFrame`, `Capture`, `Close` | the kernel; not wired into main |
| Input (`input/`) | the uinput descriptor | `HandleMessage` and the injections | the kernel |
| Browser client (`cmd/server/client/compositor.js`) | socket, decoder, audio queue | `connect`, `decodeFrame`, `playAudio` | hub |
| Header, logger, VA-API probe | none | format, log, probe | |

What is hard here is concurrency without locks (handlers against broadcasters;
restart, respawn and close of one `exec.Cmd`; goroutines that outlive the process
they serve), queues that drop at their limit, and the ends of processes and
connections in the middle of everything. What makes each component correct:

- hub: input comes from one connection at a time, the slot and the registry are
  always given back, the count is right, a joining client gets the key frame;
- capturers: one process at a time, a dead one is replaced, none is left behind,
  shutdown ends; sound is recent, in order, and never blocks its source;
- ffmpeg encoder: as for the capturers, and nothing of an old process reaches the
  new stream;
- KMS capturer: no descriptor or blit object is left behind, the blended cursor is
  the one on its plane;
- input: what was pressed is released, events are whole;
- browser: a decoder that failed is replaced, a lost connection is made again.

`PROJECT.json` lists the hazards line by line with the properties that cover them.

## Modules

| Module | Models | Used by |
|---|---|---|
| `ControlLease` | abstract: an exclusive lease on input, given and taken back through the vacant state | refined by `Hub`, and as theorems by `InputInjection` and `BrowserClient` |
| `SupervisedProcess` | abstract: processes that succeed each other, the next made when the last is dead and reaped or never ran, and none begun after a stop but one whose start was under way | refined by `ScreenGrab`, `AudioCapture`, `FFmpegEncoder` |
| `Hub` | `server.go`, `client.go`, the broadcasters of `main.go` | `MCHub`, `HubProofs` |
| `ExecCmd` | `exec.Cmd.Wait` with several callers (external) | `ScreenGrab`, `AudioCapture` |
| `ScreenGrab` | `x11grab.go`, the capture loop, shutdown | `Shutdown`, `MCScreenGrab`, `ScreenGrabProofs` |
| `Shutdown` | `ScreenGrab` composed with the server goroutine (`Server.Start`) and main's joins | `MCCapture`, `ScreenGrabProofs` |
| `KmsCapture` | `kms.go`, `cursor.go`, `drm.go`, `egl.go`; the compositor is external | `MCCapture`, `KmsCaptureProofs` |
| `AudioCapture` | `audio/capture.go`, the audio loop, shutdown | `MCAudioCapture`, `AudioCaptureProofs` |
| `FFmpegEncoder` | `ffmpeg.go` | `MCFFmpegEncoder`, `FFmpegEncoderProofs` |
| `StreamStart` | `openh264.go`, the capture loop from its first frame to Broadcast, `onNewClient` | `MCStreamStart`, `StreamStartProofs` |
| `InputInjection` | `internal/input`, the listeners of `compositor.js`, the slot of `Hub` in one step | `MCInputInjection`, `InputInjectionProofs` |
| `BrowserClient` | sockets, reconnection and decoder of `compositor.js`, against the handlers of `server.go` in few steps | `MCBrowserClient`, `BrowserClientProofs` |

**SupervisedProcess.** `cur` is the process made last, `life` where each one is, `stopped`
whether the supervisor was told to stop, `cleared` whether a start has looked at that
before and is still under way: one process may still begin by it (`Clear`, `Abandon`).
`Replace` and `Begin` are the supervisor's, `Begin` perhaps in the same step as `Replace`
(`ScreenGrab`, where `c.cmd` is assigned once the process runs) or never (a start that
fails); `End` and `Reap` may be anybody's. The three components map their `forked` or
`cmd`, `proc`, and `ctxDone` or `closing` to it; `cleared` is "between the checks of
`cmd.Start` and its fork" in the capturers, and never in the encoder, whose `Close` is
called by the goroutine that starts.

**Granularity.** An action is one access to shared state with the local work
around it, so that every interleaving the Go code allows is a behaviour. A
variable `pc` names the access that comes next. Where a function reads a field
twice (`Restart`, `Close`, `reconnect` on `c.cmd`), the model reads it twice.
Accesses without a lock (`c.cmd`, `c.stdout`, `e.stdin`) are taken to be atomic:
tearing of an interface value is not modelled.

**Hub.** `Check` is the capacity test; `Accept` the upgrade, the start of the pump
and the compare-and-swap of the slot (with the callback that goes with it: nobody
reads `onText` before this handler's `ReadLoop`); `Store`, `CountIn`, `LoadIDR`,
`ReplayIDR`, `NotifyReturns` the registration; `ReadText`, `ReadFails` the read
loop; `Delete`, `CountOut`, `Release` the clean-up. A video message is the position
of its NAL in the broadcast stream; audio is one value. Encoders return parameter
sets and slices as separate NALs, and `Frames` keeps that. `sync.Map.Range` is
modelled by its documentation: a key that stays is visited once, one stored or
deleted meanwhile may or may not be. `handed`, `lost`, `stream` and `injectedBy` are
history variables.

**ExecCmd.** `Wait` returns if `ProcessState` is set; else it reaps, assigns
`ProcessState`, and receives the one result of the command's context watcher. A
second caller that is past the check reaps nothing and may wait for a result that
the first one took.

**ScreenGrab.** One process per command. The capture loop reads; on an error it
waits, sleeps, checks the context and starts: `cmd.Start` looks at the context
(`StartChecks`) and then forks (`Fork`), so that a cancel may come between. Joining clients
call `Restart`, main cancels and calls `Close`. When main has ended nothing of the program
runs any more (`Alive`): no other goroutine, and no watcher of a context; only the
processes it leaves do. With `Screencast` the process is `screencast.py`, which ends by the
signal while its own child may go on writing frames to the pipe. Frames have no content.

**Shutdown.** `ScreenGrab` with one more goroutine: `Listen`, `StartFails` (no
certificate, no address: log and cancel), `ServeFails` (the listener gives up later: the
same) and `ServeReturns` (after Shutdown). The steps of `ScreenGrab`
are its own actions; two gain a guard, `RestartKills` (a handler needs a server that
has listened) and `JoinAll` (main waits for this goroutine too). Shutdown of the HTTP
server does not wait for the handlers of `/ws`, as their connections are hijacked, so
that a handler blocked in `onNewClient` holds up nobody but itself.

**KmsCapture.** `BeginFrame` to `Blend` are the calls of one `NextFrame`, with every way
each can fail; `KmsClose` and `Reopen` the ends of a capturer. What is kept between
frames is there: dma-buf descriptors, the cursor's last framebuffer id, textures, the
size of the pixel buffers, and the blit objects that `egl.go` keeps in static variables,
shared by two contexts which each have names of their own. Descriptors are the lowest
free number, as are GL names (in Mesa). Between any two calls the compositor changes
mode, cursor, or the buffer behind a framebuffer id.

**AudioCapture.** The same shape with three differences of the code: `c.cmd` and
`c.stdout` are replaced before the new command runs (`StartChecks` and `Start` are the two
steps of `cmd.Start`), reconnect kills, and the chunks pass through a bounded channel. A
panic in one goroutine stops every action.

**FFmpegEncoder.** Everything is numbered by generation, the processes made so far.
`writeLoop` reads `e.writeCh` once and `e.stdin` at each write, as in the code, so
that one of an earlier generation can write to a later process. The variable
`prompt` is an assumption about time, see below. Frames have no identity; a NAL is
the generation that made it. `Close` is only called by the goroutine that calls
`Encode`, when it ends, so that the mutex of `Encode` is never contended and
`ctx.Done` never ends the wait for the first NAL.

**StreamStart.** A joining handler: `Store`, `ReadCallback`, `ForceKeyframe`, `Leave`. The
capture loop: `Grab`, `Open` and `Publish` at the first frame, `EncodeBegins` (the flag is
taken), `EncodeFrame` or its failure, and Broadcast NAL by NAL with a Range for each. Of
the library the model has what the code relies on: the first frame and a forced one are
IDRs, with SPS and PPS as NALs of their own before it; whether a failed frame keeps the
force is left open. A channel is the number of its messages. `heard` and `spoiled` are
history variables (a failed frame spoils the client whose request it consumed, not one
whose own is still to come). Only the software branch is modelled.

**InputInjection.** A page's listeners (`KeyDown` to `MoveOrWheel`) put messages on the
wire, `ReadText` of the controlling connection makes the events of one message
(`Events`: `ParseMessage`, `HandleMessage`, the table of codes and the `Inject`
functions), and each `Write` gives the kernel one event. The browser reports the
first mouse button that goes down and the last that comes up, and a pointermove for
the others; it reports no key while the page lacks the focus (`KeyUpElsewhere`), and no
button if the pointer is taken from the page (`ButtonsUpElsewhere`). A viewer's page sends anything. Coordinates and amounts are left out, except that a
fractional `deltaY` does not parse as an int and voids its message. `adrift` is a
history variable: the codes whose last change the page did not report or the
connection lost. The kernel takes every event while the device exists.

**BrowserClient.** A page has a timer that calls `Connect`, a socket per connection
(`OnOpen`, `OnMessage`, `Breaks`, `OnClose`) and a decoder (`InitDecoder`, `DecodeFrame`,
`DecoderFails`): `decode` may throw, or the error callback may run later and leave it
closed, and `close` on a closed decoder throws. The server's end is `Refuse`, `Accept`,
`NotifyReturns` and `Leave`, which may come long after the page has left. A message holds
an IDR or does not. The first `init()`, which tests for WebCodecs, is replaced by the
second of that name before it could run, and is not modelled.

## Runs

| Run | Question | Result |
|---|---|---|
| `hub` | do handlers racing for the slot keep input exclusive, release it, keep the count, and implement the lease? does registration racing with Broadcast miss a key frame or disturb the order by more than one replay; are broken connections reclaimed and queues served? | holds, but a handler that stays in `onNewClient` keeps its place and the slot when its connection breaks |
| `hub_capacity` | does the count stay within the limit (README: "Up to 25 concurrent")? | violated: check and increment are apart |
| `hub_checkpoint` | is a client's first video message the checkpoint? | violated: a broadcast can come between `Store` and the replay |
| `capture` | X11: are capture processes supervised, is none left after a cancel, and does a signal or a listener that fails end the program? KMS: are descriptors and blit objects kept account of, is the cursor the current one, and what makes the capturer panic? | holds, but a process forked after `Close` read `c.cmd` may outlive the program, shutdown may be left in `Wait` when `Close` and `NextFrame` both wait, and two causes of a panic exist |
| `screen_recovers` | is a killed process replaced? | violated: `Restart` and `NextFrame` in `Wait` together |
| `audio_safe` | order, recency and arrival of sound, supervision of pw-cat, how shutdown may end | holds |
| `audio_crash` | can the audio goroutines panic? | violated: nil reader after a failed restart |
| `ffmpeg` | ffmpegs supervised, everything ends after `Close`; if the 50 ms are enough: needed restarts only, recovery, no panic, stream in order | holds |
| `stream_start` | does every client that joins, at any moment, get parameter sets and an IDR after them? | holds, unless its channel or a failed frame loses them |
| `input` | does the device get whole messages, of the controller only, and do its keys and buttons follow the controller's hand? | holds, except for codes whose last change was not reported or was lost |
| `input_blur` | are keys released when the page loses the focus (input spec, criterion 5)? | violated: nothing reports or releases them |
| `browser` | does a page ever compete with itself for the slot, leak a decoder, or fail to connect again; when is control refused? | holds, except that a decoder error before `onclose` ends the reconnecting |

Every property of a passing run has a mutant in the modules, a plausible slip in the
code (a callback kept, a wait or a reset forgotten), that makes it fail.

**Bounds.** They are CONSTANTS, named in each module. Two handlers are enough for a
race over the slot and for a release during a claim; three against a limit of two
overshoot it. `hub` checks two scenarios (`MCHub`): both handlers with the slot, the count
and the sound, and no video; or one viewer and the video, because the properties of
the stream are per client and clients meet only in the slot and the count. The channel
has two places, so that it is full, empty and in between; five NALs hold two key
frames and a slice around a registration. `capture` chooses one of the two backends
(`MCCapture`). X11 has two joiners, one crash and main, at any time: two and three
callers of `Wait`. `Screencast` is TRUE there, which only adds behaviours, and FALSE in
`screen_recovers`, whose counterexample thus needs none of them. KMS has three sizes,
two framebuffer ids of which one may be recycled, and one kind of fault in a life: the
faults are told apart in the properties, and each alone is enough for what it causes.
The steps that these scenarios hold back (to connect, to capture) are not fair,
so that fairness loses nothing by it. `browser` has two pages with two connections each:
a page that competes with its own earlier connection, and another that takes the slot
in between. `audio_safe` has a channel of two and five
chunks (drops, then drops again), two crashes and a failing restart. `ffmpeg`
has a crash and a failing start in three generations, with channels of one place: a
generation can be replaced for a good reason and the next for a bad one. `stream_start` has two
joiners, so that a request falls into every step of another's, and a channel of three: the
NALs of an IDR fit or not, as the pump is fast or slow; frames are not counted. `input` has two
pages, one message under way on each and one being written (handlers of two
controllers in turn, a viewer beside a controller), a known and an unknown key, and
two mouse buttons that the device takes for the same one.
The bounds on crashes, failures and commands are such that a command is never
lacking after a crash, so that they do not cause or hide a liveness result.
`CHECK_DEADLOCK FALSE`: every model ends, when the clients are gone, the program has
stopped, or the bounded input is used up.

**Fairness.** Runnable goroutines run (weak fairness per goroutine). In `Hub` a broken
connection makes reads and pings fail, and a write ends at the latest by its 5 s
deadline; `onNewClient` need not return, as its `Restart` may block in `Wait`, and
connecting, typing, encoding and breaking are not fair. In the capturers a
cancelled context kills its processes, as `exec.CommandContext` promises, as long as
main has not ended;
`screen_recovers` also assumes that respawning does not fail for ever (strong
fairness of `Fork`), so that its counterexample is not about that. In `FFmpegEncoder`
frames keep coming until `Close`; ffmpeg itself owes nothing: it need not read, write
or end, and a write to it may block until `kill`. In `StreamStart`
frames keep coming, so the capture loop is assumed not to be left in `Wait`
(`screen_recovers`), and do not fail for ever (strong fairness of `EncodeFrame`). In
`InputInjection` only the handlers
are fair, as in `Hub`: nobody need connect, type, come back or close the device. In
`Shutdown` the server goroutine is fair, though `Serve` need not fail by itself, and the
rest is as in `ScreenGrab`, but respawning may fail for ever. In
`BrowserClient` only the page's event loop is: a timer that is due (`Connect`) and a
queued close event (`OnClose`); neither the network nor the server owes anything.
`KmsCapture` has no liveness and no fairness.

**The 50 ms.** `restart` sleeps so that the goroutines of the killed process end
before the next starts, and a `writeLoop` is assumed to have begun its range before
the next `Encode`. `prompt`, chosen once per behaviour, assumes just that when it is TRUE;
when it is FALSE they run at any time. Without it a late `readNALs` can clear `running` or push an old NAL, and a
late `writeLoop` can write to the new pipe, which is why the properties about these
(`NoNeedlessRestart`, `EncoderNeverPanics`, `EncoderRecovers`, `StreamsInOrder`) only
speak of behaviours with it.

## Proofs

TLAPS proves, for all values of the constants that the named ASSUMEs allow:

| Theorem (module) | Property |
|---|---|
| `TypeCorrect`, `InputIsExclusive`, `SlotHolderIsServed`, `CountIsExact` (`HubProofs`) | `TypeOK`, `InputExclusive`, `ControllerServed`, `CountExact` |
| `HubImplementsLease` (`HubProofs`) | `Hub` refines `ControlLease` |
| `CheckpointNeverMissed`, `ReplayedOnce` (`HubProofs`) | `NoMissedCheckpoint`, `AtMostOneReplay` |
| `StartTypeCorrect`, `RequestNeverForgotten` (`StreamStartProofs`) | `TypeOK`, `StartPending` |
| `ScreenTypeCorrect`, `OneProcessAtATime` (`ScreenGrabProofs`) | `TypeOK`, `OneProcess` |
| `GrabImplementsSupervised` (`ScreenGrabProofs`) | `ScreenGrab` refines `SupervisedProcess` |
| `ServerImplementsGrab`, `OneProcessWithServer`, `SupervisedWithServer` (`ScreenGrabProofs`) | `Shutdown` refines `ScreenGrab`; `OneProcess` and `SupervisedProcess` there |
| `OnlyOthersHoldUpTheLoop` (`ScreenGrabProofs`) | `LoopStuckByOthers` |
| `AudioTypeCorrect`, `AudioOneProcess`, `LatestIsKept`, `ReaderNeverBlocks` (`AudioCaptureProofs`) | `TypeOK`, `OneProcess`, `LatestKept`, `NeverBlocks` |
| `AudioImplementsSupervised` (`AudioCaptureProofs`) | `AudioCapture` refines `SupervisedProcess` |
| `PanicsOnlyForCause`, `OnlyCloseHoldsUpTheReader` (`AudioCaptureProofs`) | `PanicsForCause`, `ReaderStuckByClose` |
| `EncoderTypeCorrect`, `EncoderOneProcess`, `NeverDoubleClose`, `RestartsNeeded`, `NeverPanics`, `StreamsKeepOrder` (`FFmpegEncoderProofs`) | `TypeOK`, `OneProcess`, `NoDoubleClose`, `NoNeedlessRestart`, `EncoderNeverPanics`, `StreamsInOrder` |
| `EncoderImplementsSupervised`, `PanicsOnlyForCause` (`FFmpegEncoderProofs`) | `FFmpegEncoder` refines `SupervisedProcess`; `PanicsForCause` |
| `KmsTypeCorrect`, `KmsLeaksNothing`, `KmsCursorIsCurrent`, `KmsPanicsAfterFault` (`KmsCaptureProofs`) | `KmsTypeOK`, `NothingLeaks`, `CursorOfPlane`, `PanicNeedsFault` |
| `InputTypeCorrect`, `InputReportsWhole`, `HostFollowsHand` (`InputInjectionProofs`) | `TypeOK`, `ReportsWhole`, `HostFollows` |
| `BrowserTypeCorrect`, `PageCompetesWithNobody`, `ControlRefusedForCause` (`BrowserClientProofs`) | `TypeOK`, `OneOfEach`, `RefusedForCause` |
| `HandsShareLease` (`InputInjectionProofs`), `ClientsShareLease` (`BrowserClientProofs`) | the slot of `InputInjection` and of `BrowserClient` refines `ControlLease` |

With these every safety and action property of a passing run is proved. Proved and in no
run are:

- `ControllerServed`, which the refinement of the lease needs, and `NoDoubleClose`,
  which follows from `SafeInv`;
- `OneProcess` of the three components, which each refinement of `SupervisedProcess`
  rests on; the runs check the refinement;
- three properties that say where a finding ends. `LoopStuckByOthers`: the capture loop is
  left in `Wait` only if a `Restart` or a `Close` waited for the same command, so that
  crashes and failing forks alone never stop the capture. `ReaderStuckByClose`: the same
  of readLoop, where the other can only be `Close`. `PanicsForCause`: the audio panics only
  after a pw-cat ended by itself, and then only if a start failed or the server is being
  stopped; the ffmpeg encoder panics only after a restart that failed and goroutines that
  outlived the 50 ms;
- the lease of `InputInjection` and `BrowserClient`, which claim and release the slot in one
  step: it is the lease that `Hub` implements step by step, so that these modules assume no
  more of the slot than its handlers provide.

Assumed are only the capacities (positive), the bounds (naturals) and that the
values standing for nil are not clients or connections. The arguments:

- *Types* need one more fact, `TypeInv`: a broadcaster in its Range has a message.
- *Exclusive input*: `InputExclusive` alone is not inductive, as a release by a
  non-holder or a claim by a handler that already had a callback would break it.
  `ControlInv` adds that a handler that has not settled its role has no callback,
  and that the holder is served. The refinement follows from it: `Accept` is
  `Acquire` or a stutter, `ReadText` is `Inject`, `Release` is `Release` or `Leave`.
- *Count*: `CountInv` adds that the counted handlers are a finite set, so that one
  joining or leaving changes the cardinality by one, even if `Client` is infinite.
- *Checkpoint*: `CacheInv` (the cache is the latest IDR; inside Broadcast the message
  is the newest) and `CheckpointInv`: already between the load and the replay either
  what was loaded is the latest IDR or the Broadcast that overtook it has given it,
  or will.
- *No forgotten request*: `EarlyInv` (no frame was coded before the callback was published)
  serves the client that read no callback; `CastInv` (nothing of an earlier frame is due
  once its broadcast is over) makes who still waits wait for an encoder that owes an IDR.
- *One capture process*: `GrabInv` says that the capture loop forks only after its own
  wait on the current command has seen it reaped, by whichever goroutine.
  `PwInv` says the same of readLoop and pw-cat, where `Close` is the other waiter and a
  command may never have started. The server goroutine adds nothing: a listener that
  fails, at once or later, is a cancel, the rest of `Start` a stutter.
- *Supervision*: the same invariants carry each step to a step of `SupervisedProcess`. Of
  the processes only the last can be running or not yet reaped, so that whatever is killed,
  crashes or is reaped is `cur`. In the capturers the steps into and out of "exec" are
  `Clear` and `Abandon`, and the start itself is allowed by the check before it. The encoder also needs `CloseInv`: after `Close` the
  capture goroutine is in `kill` or at its end, and never in `restart`.
- *Held up in Wait*: `SoloInv` follows a command for which nobody but the capture loop has
  waited: the loop reaps it before it assigns `ProcessState`, and receives the result only
  after, so that it finds the result still there. `OwnInv` is its counterpart for readLoop.
- *Panics*: `stdin` and `stdout` are nil only after a start that failed (`FailInv`). Until a
  pw-cat ends by itself, the first one is the only one and only a cancel ends it
  (`CalmInv`), so that `Close` finds its process.
- *Recent sound*: `ChannelInv` puts the type, the run of chunks and the room after a
  drop together; the run survives the broadcast goroutine taking the head because
  both it and the drop take the head.
- *Replay*: `ReplayInv` says that a client whose replay is to come has nothing out of
  order, and that one which Broadcast has still to visit has only older NALs or has
  just been replayed the newest one, so that only one step back, to an IDR, ever occurs.
- *ffmpeg*: `SafeInv` is five parts: `TypeInv`; `ProcInv` (generations are reaped in order,
  the one thing `OneProcess` needs, with or without the 50 ms); `ChanInv` (which channels
  are closed); `WriterInv` and `RunInv`, under `prompt`: goroutines of the last
  generation are over when the next starts, and `running` is true while the process
  runs. `OrderInv` on top of it: `nalCh` is sorted, begins where Encode's last NAL ended,
  and ends no later than the readNALs at work.
- *KMS*: `KmsInv` ties the place in `NextFrame` to the context and the descriptors
  (`FdInv`, `PlaceInv`), gives every blit object the one name that the static may hold
  (`BlitInv`), and says what a cached id stands for until one is recycled (`CacheInv`).
- *Whole reports*: `InjectInv` says that only the controller's handler is in the middle
  of a message, and that what it has written and what it has still to write make it whole.
- *The hand*: what the host will hold is said message by message, without a fold: a code is
  down if the last message under way that names it presses it, or if none names it and it
  is down once the message being written is (`Settled`). Each step then changes one end:
  a listener appends a message, which decides the codes it names; `ReadText` moves the head
  from the wire to `todo`, and `Write` from there to the kernel, which changes no answer, as
  one message says one thing of a code. `HostInv` adds `InjectInv` and that a page that is not
  yet connected has sent nothing.
- *The lease in one step*: accepting is `Acquire` or a stutter, leaving is `Release` or
  `Leave`; that only a served connection holds the slot makes a refusal a `Leave`.
- *Page*: `SocketInv` (sockets are used in order, one at a time, with no timer beside it),
  `DecoderInv` (a decoder is open only between a socket's opening and its `onclose`)
  and `SlotInv` (the slot's connection is served) are inductive together, as `PageInv`.

Only model-checked: the liveness properties (`Reclaimed`, `QueueServed`,
`CancelEndsProcesses`, `ServerStops`, `SoundArrives`, `StopsOrStuck`, `CloseEndsAll`,
`EncoderRecovers`, `StreamStarts`, `KeysComeUp`, `Reconnects`). They rest on weak and strong
fairness, hence on ENABLED, which the prover cannot expand.

## Findings

Five runs violate what the repository's documents say; `PROJECT.json` quotes the lines.
(1) `handleWS` admits more clients than the limit. (2) A new client may get a live
slice before the checkpoint. (3) A `Restart` can leave the capture loop in `Wait` for
ever. `Close` can meet the capture loop in the same way, so that shutdown does not end
(`StopsOrStuck`). (4) A failed restart of pw-cat, or `Close` at that moment, can panic.
(5) Keys held when the page loses the focus stay pressed on the host.

`Reclaimed` names what (3) means for the server: a handler whose `Restart` is left in `Wait`
keeps its registration and the slot after its connection breaks, so that nobody else gets
control.

Met while modelling and stated in no violated property, as a property of a passing run
names the exception or the matter is outside the models:

- A page whose decoder was closed by an error never connects again once its socket
  closes, although the KMS spec asks for "Auto-reconnect on disconnect": `decoder.close()`
  throws in `onclose` before the timer is set (`Reconnects` names the case).
- A capture process that the loop forks after `Close` has read `c.cmd` is not waited for by
  main, and the watcher that kills it ends with main: it may survive the program, until
  it writes to the broken pipe (`CancelEndsProcesses` names the case).
- The KMS capturer panics on the frame after a cursor's first import failed, as the id
  was noted and no buffer exists, and when the mode becomes smaller than the card's
  (`PanicNeedsFault`). After an incomplete framebuffer, or when a capturer is opened again
  in the same process, the static blit names may not exist in the context
  (`NothingLeaks`). The result of `MakeCurrent` is ignored, and nothing pins the goroutine to
  the thread that the EGL context is bound to. The GEM handles that `drmModeGetFB2`
  returns (`drm.go:150`) are never closed.
- `ForceKeyframe` of the ffmpeg encoder sets a flag that nothing reads (`ffmpeg.go:241`): on
  the hardware path a new client waits for the next key frame of the stream.
- The uinput device is made for 2560x1440 (`main.go:158`), whatever the screen's size.
- The README calls KMS the primary path (line 38) and says that the page decodes VP8
  (line 59); main wires neither, the stream is H.264.

## Not modelled

- VP8 and the colour converter: sequential calls into C libraries that hold the state.
- The choice of encoder and the VA-API probe: one file test and one command, before any
  other goroutine exists.
- The header and the logger: formatting; the header is a prefix of fixed size, round-tripped by its
  unit test.
- TLS and the JSON of `/status`: what `/status` reads is `Hub`'s count and slot.
- The scan for start codes in `readNALs`: a NAL arrives whole. It is a sequential
  function on a buffer; the hazards of the encoder are between its goroutines.
- `screencast.py` beyond a process that delivers frames, may end, and leaves a child that
  writes on for a while. That child is not waited for or supervised by anything, here as
  in the code.
- Mouse buttons pressed on the page outside the canvas; touch.
- The second signal, which exits the process at once.
- Playback of sound, drawing and the status line of the page.
- Opening the card, the search for planes, EGL's set-up: they fail as a whole.

## Plan

Done, in this order: `ControlLease`, `Hub`, `ExecCmd`, `ScreenGrab`, `AudioCapture`,
`FFmpegEncoder`, `InputInjection`, `StreamStart`, `Shutdown`, `KmsCapture`,
`BrowserClient`, `SupervisedProcess`, and the proofs above. Next:

1. The Annex B scan of `readNALs` against a reference definition over short buffers.
2. Playback of sound in the page: the queue of chunks against the audio clock.
3. Theorems that say where the two findings of `Hub` end, like `LoopStuckByOthers`: by how
   much the count may pass the limit, and which slices may come before the checkpoint.

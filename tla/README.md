# talk2text: specification and verification

talk2text is a push-to-talk transcription daemon. A client starts and stops
recordings over a Unix socket; the daemon captures the microphone, hands each
finished clip to a Whisper server, writes the text to a file and runs an output
command on it. Remote clients may submit recorded audio over HTTP instead.

This directory holds TLA+ modules translated from the Go source and from the C
source of the AMR-WB decoder it uses for them, TLC
configurations that check them on small instances, and TLAPS proofs of their
safety properties for every value of the constants. `PROJECT.json` maps every
definition to source lines and lists runs, mutants, theorems, findings and
hazards.

Paths below are relative to the repository; `daemon/x.go` is short for
`internal/daemon/x.go`, and a C file is one of `internal/amrwb/native/`.

## 1. Inventory

| Component | Source | State | Operations | Model |
|---|---|---|---|---|
| Recording sessions | `daemon/daemon.go`, `daemon/session/` | `active`, `nextClip`, `pendingStopClip` (under `muCapture`) | `start`, `stop`, `onAudio`, `shutdown` | `Recording` |
| Timers | `util/timer/`, `daemon/daemon.go` | `stopTimer`, `warmTimer` | start, stop, expire; immediate when the duration is zero | `Recording` |
| Stream manager | `daemon/stream.go` | `desiredStreamState`, signal channel, `stream`, its own copy of the desired state | open, start, stop and close the device; react to its failures | `Recording` |
| Dispatch and serving | `daemon/serveraux.go` | context, results of the listeners | `Request`, `status`, `serve` | `IPC`, `Recording` |
| HTTP admission | `daemon/http.go` | `httpAdmitted`, `nextClip` | `handleHTTP`, `transcribeHTTP`, wait for local clips; limits of a body | `Transcription`, `Recording`, `AmrFrame` |
| Transcription | `daemon/transcribe.go` | `ongoingTranscriptions`, `transcriptionIdle` | Whisper request, wake-up, transcript, command | `Transcription`, `Retention` |
| Retention | `daemon/retention.go`, `runtimedir/transcripts.go` | protected set, watermark (under `muTranscripts`), files | protect, write, release, list, remove | `Retention` |
| Runtime directory, socket | `runtimedir/runtimedir.go`, `sock.go` | directory, socket file | clean, take over a stale socket, remove it | `Startup` |
| IPC server, client | `server/`, `client/` | connections, deadlines | listen, accept, read, answer, remove the socket; connect, wait | `IPC`, `Startup` |
| AMR-WB bodies and frames | `amrwb/decoder.go`, `cgo.go`, `mime_io.c`, `get_amr_wb_bits.c`, `homing_amr_wb_dec.c` | offset, count; bits of the frame | validate, unpack, read parameters | `AmrFrame`, `AmrTables` |
| AMR-WB decoder state | `wrapper.c`, `pvamrwbdecoder.c`, `dtx_decoder_amr_wb.c` | homing, concealment, DTX, memories | one call per frame; resets | `AmrDecoder` |
| AMR-WB parameters | `lagconceal.c`, `pred_lt4.c`, `dec_gain2_amr_wb.c`, `phase_dispersion.c`, `dec_a*.c`, `qpisf_2s.c`, `qisf_ns.c` | lags, gains, spectra of the past | decode or conceal | `AmrPitch`, `AmrGains`, `AmrCodebook`, `AmrSpectrum` |
| AMR-WB synthesis | `synthesis_amr_wb.c` and the filters it calls | nine filter memories, scratch area | one call per subframe | `AmrSynthesis` |
| AMR-WB arithmetic | `pvamrwbdecoder_basic_op*.h`, `pvamrwb_math_op.c`, `isp_az.c`, `isf_extrapolation.c` and others | none | saturating operations, table functions, polynomials | `AmrArithmetic`, `AmrMath`, `AmrFilter` |
| Request environment | `requestenv/` | none | validate, allow, decode | outcomes in `IPC` and `Recording` |
| Configuration | `daemon/config/` | none | defaults, validate | assumptions on constants |
| Whisper client, WAV | `whisper/`, `runtimedir/prompt.go` | none | one request | its end, in `Transcription` |
| Capture device | `audiocapture/` | device | open, start, stop, close | by its use, in `Recording` |
| Notifications, command line | `daemon/notifier/`, `cmd/` | none | start a process; parse | not modelled |

**How they interact.** The IPC server handles one connection at a time. A start
or stop runs in its own goroutine, takes `muCapture`, acknowledges inside the
critical section and goes on. Sessions tell the stream manager what they want
through `desiredStreamState` and a channel of capacity one. The device calls
`onAudio` on its own thread, timers call back on theirs; both take `muCapture`.
A detached session goes to `transcribe`; an HTTP submission takes an ID from the
same counter and goes to `transcribeHTTP`, after its AMR-WB body was validated and
decoded frame by frame. Both end in `processTranscript`,
which protects, writes, runs the command and releases under `muTranscripts`.
Cancellation of the context ends the listeners, the manager and the waiters.

**What is hard.** Callbacks that expired before they were cancelled and run after
the state has changed; signals that coalesce; state copied under a lock and used
after device calls; three ways to end a clip (stop, limit, failure) with two
timers to keep consistent; atomics without a lock whose pairs of operations
interleave; files listed under a lock and removed outside of it; shutdown
against all of them. In the decoder, which is sequential: state that is written in
one frame and read in another, after losses, silence or a change of rate that a
test hardly combines, and 16-bit arithmetic at its limits. `PROJECT.json` lists each at its line under `hazards`.

**What makes each component correct.** Recording: every clip ID has exactly one
fate; a clip that was stopped is never discarded and one that was not is never
finalized; only its owner ends it; no late callback touches a successor; the
device follows the desired state; an idle microphone is released. Transcription:
the counters count; at most two admitted; HTTP one at a time and after local
clips; no waiter forgotten. Retention: no file in use is removed; the window
stays; what is older leaves. Startup: one daemon owns the socket path; a stale
socket never blocks a start, a live one never disappears. IPC: commands take
effect in order and as answered; nobody is held up. AMR-WB: a body is decoded
whole or refused for a reason; every bit reaches its parameter; resets leave
nothing behind; concealment uses what was received and ends; lags, reads and
scales of the excitation stay in the buffer; the filters go on from subframe to
subframe; spectra stay ordered; arithmetic saturates.

## 2. Plan

1. `Recording` with its abstract specification `ClipLifecycle` — done, proved.
2. `Transcription` — done, proved except for liveness.
3. `Retention` — done, proved.
4. `Startup` — done, proved except for liveness.
5. `IPC`, server and client with their deadlines, and `serve` — done, proved except
   for liveness.
6. The AMR-WB decoder: `AmrFrame` and `AmrTables` for bodies and bits, `AmrDecoder`
   for the state between frames, `AmrPitch`, `AmrGains`, `AmrCodebook` and
   `AmrSpectrum` for the parameters, `AmrSynthesis` for the filters, `AmrArithmetic`,
   `AmrMath` and `AmrFilter` for the numbers — done; proved for all of them but the
   tables of `AmrMath`, the polynomials and the high band of `AmrFilter`, the bits of
   `AmrFrame` and the vectors of `AmrCodebook`.
7. Left: `ClipPipeline`, an abstract specification of a clip from detachment to
   command, implemented by `Transcription` and `Retention` composed with
   `Recording`'s `handed` and `submitted`.

Theorems still worth proving: that `Serial_parm` never reads beyond the frame, for any
body. That `table_isqrt` and the other tables make `FunctionsHold` true for all
operands is a question about their contents.

## 3. Modules

### Recording

One action is one critical section of `muCapture`, or one step of the stream
manager between two of them. A critical section is atomic because nothing inside
blocks and what it uses is reached only under the lock. The device is touched
only by the manager and has its own steps.

| Code | Model |
|---|---|
| `d.active` | `active`, a record with ID, origin and duration in buffers; `NoSession` for nil |
| `d.nextClip`, `d.pendingStopClip` | same names |
| `d.stopTimer` and the clip its closure captured | `stopTimer` |
| a running `CallbackTimer` | `stopArmed` (set of clips), `warmArmed` |
| a callback goroutine waiting for the lock | `stopExpired`, `warmExpired` |
| `desiredStreamState`, its channel | `desired`, `signal` |
| `d.stream` | `stream`: closed (nil), stopped, started |
| where `streamManager` is | `mgrPC`, `mgrDesired` |
| the goroutine of the request being served | `request`; one at most, because the server waits for the acknowledgement |
| `d.ctx`, progress of `Run` | `ctxDone`, `phase` |

`handed`, `replaced`, `failed`, `submitted`, `asked` and `limited` are history
and occur in no guard. `start` is `RejectStart` or `Start`; `stop` is
`StopIgnored`, `StopDelayed` or `StopNow`; `onAudio` is `AudioAppended`,
`AudioReachesLimit` or `AudioFails`. An expiry (`StopTimerExpires`,
`WarmTimerExpires`) is separate from the callback (`StopTimerFires`,
`WarmTimerFires`): between the two, `Stop` no longer prevents it. Zero warm
retention makes the timer immediate and its effect part of `StopActiveSession`.

Abstracted: PCM data (a clip is its number of buffers), notifications and the
environment kept for them. A device error is possible where the library documents
one: opening, starting a stopped device, stopping a started one
(`audiocapture/malgo.go:82-90`).

### ClipLifecycle

What a client can see: sequential recording, one ID per start or submission,
ownership, and that a clip being stopped is finalized rather than replaced and
comes to an end. `Recording` implements it with `active.id`, `active.origin`,
`pendingStopClip # 0` and `handed` as its variables.

### Transcription

One action is one atomic operation of one goroutine: `httpAdmitted` and
`ongoingTranscriptions` are atomics, and no lock protects them together. `local`
and `http` say where the goroutine of a local clip, or the handler and later the
goroutine of a request, is. `Admit` and `Refuse` are the two additions of a
refused request; between the handler's checks of the context and what it does
next, cancellation may happen (`Arrive`, `Decode`). A request turned away before
the counter is touched stays `"new"`, since nothing distinguishes it. Headers,
body, audio and session errors are outcomes of `Reject`. The Whisper request is
external and always returns.

### Retention

One action is one critical section of `muTranscripts`, one write, one command or
one removal. `stage` is where `processTranscript` is for a clip, `doomed[c]` the
names that the goroutine of clip `c` has listed and not removed. Listing and
removal may fail (`MaxErrors`), a failed write may leave a partial file, and a
command may remove its own transcript. Names are removed in any order, which
includes the directory order the code uses. Listing the directory is atomic: a
file that appears meanwhile belongs to a protected clip. The directory begins with
the files of `Leftovers`, those that `cleanTranscriptDir` could not remove; `PrepareDir`
reports them and goes on, and a file whose name is the ID of a clip to come is
taken for that clip's.

### Startup

Each member of `Daemons` is one process, which runs once; a restart is another
member. A step is one system call of `Run` on the directory: clean, inspect, dial,
remove, bind, listen, chmod, close, remove. `pc` says which is next.

| Code | Model |
|---|---|
| `daemon.sock` | `socket`, the process that bound the file at the path |
| whether a dial succeeds | `Answers`: its process listens |
| `transcripts/1` | `file`, the process whose text it holds |
| the output command of a first clip | `command` |

`Serve` may fail at bind and at chmod. `Close` of a Unix listener removes its path
before it closes, as Go's `net` does; `RemoveSocket` is the deferred `os.Remove`.
`Crash` is possible at every step and leaves the files. `Overlaps` says how careful
the users of the directory may be, and a behaviour picks one member: what other
processes may be doing when one starts or stops. The empty set is the "exactly one
daemon" of `README.md:106`, `{"serving"}` adds a start that is not needed. Cleaning
is one step, as its result is what matters; cancellation before the listener is
up takes effect when it is, as in `Serve`. Not modelled: a path that is no socket,
and a dial that fails although the daemon lives (a full backlog, a timeout).

Transcripts are kept only while their daemon lives. A command that outlives it
(`docs/spec.md:162`) may find its file removed, or written anew for another clip,
by the next daemon, whose IDs begin at 1 again: `PrepareDir` and `WriteTranscript`
have these outcomes, and `TextKept` speaks only of a daemon that serves.

### IPC

Clients are numbered in the order of their connections. `client[i]` and `patience`
are its `Do`, with the deadline of one second; `late` are those that connect and do
not write at once. One action is one step of `Serve` or `handleConn`, of a command's
goroutine, of a listener or of `serve`. `executed` is the order in which commands
took the lock. `Tick` is 250 ms, the server's read deadline; in a behaviour with
`prompt`, time passes only when nothing else can happen.

| Code | Model |
|---|---|
| the accept loop and `handleConn` | `serverPC`, `accepted`, `open` |
| `errChan`, the response | `reply` |
| goroutines of `start` and `stop` before the lock | `running` |
| `serve`'s channel of results | `result`, `received`, `serveErr` |

Abstracted: what `start` and `stop` do (`Recording`), contents of requests (a
command, a status request or garbage), and a blocked write.

### AMR-WB

`AmrFrame` follows one HTTP body: the limits, `validateFrames`, and the second
walk in which `mime_unsorting` and `Serial_parm` take a frame apart. A body is a
sequence of frame types; its last frame may be cut. The sorting tables of
`mime_io.c` and the widths of all parameters are in `AmrTables`.

`AmrDecoder` has one action per call of `D_IF_decode`. Signals are left out; a
memory is *dirty* when a frame may have changed it since it was last reset, which
is all that a reset can get wrong. A frame is its type and whether its bits agree
with the homing frame at the head, in the first subframe and in the rest.

`AmrPitch` has one action per subframe: the lag from its index or from
`lagconceal`, the reads of `Pred_lt4` and the scale of the excitation. `AmrGains`
does the same for the gains and the dispersion. A frame of comfort noise is one
action there: it clears the memory of the dispersion (`disp_mem`), leaves that of the
gains, and makes the next frame start from state 5, as after a loss if the noise was
muted; which frames are noise is decided in `AmrDecoder`, and here only the outcomes it
allows are chosen from. A homing frame resets all of it. `AmrCodebook` decodes an index
track by track; a small number of positions replaces 16 where all vectors are
compared. `AmrSpectrum` compares a receiver with a twin that loses no
frame, over four ISFs.

`AmrSynthesis` is symbolic: a sample is the name of the signal it belongs to, its
position and its age in subframes, or `Wrong` when it was computed from other
samples than the filter needs. Memory layout is kept: `synth_hi`, `HF` and the
others lie in one scratch area as in the code, so one that is used again too early
becomes `Wrong`.

`AmrArithmetic` states each operation for words of `Width` bits instead of 16, so
that all operands are checked against exact integers; `AmrMath` and `AmrFilter` have
the real widths and choose operands at the edges. `MCAmr` checks one part at a
time: the initial state picks the subject.

## 4. Runs

| Run | Instance | Shows |
|---|---|---|
| `recording_safety` | 2 origins (symmetric), 3 clips, limit 2 buffers, delay, with and without retention, HTTP, PCM errors, 2 waiting warm callbacks | types, consistent sessions, a settled stream, fates, ownership |
| `recording_liveness` | 2 origins, 2 clips, no limit, with and without delay and retention | delayed stops end, an idle microphone is released, shutdown completes, and `Recording` implements `ClipLifecycle` |
| `recording_limit` | 1 origin, 1 clip, limit 1 | expected violation, finding 1 |
| `transcription_waiters` | 2 local clips, 3 requests | counters exact, bounds, exclusion, wake-ups; every waiter proceeds or is dropped |
| `transcription_refusal` | 1 local clip, 4 requests | expected violation, finding 2 |
| `retention_window` | 4 clips, window 1, one error, one leftover | files in use and in the window stay, older ones leave, a leftover with the name of clip 1 included |
| `startup_shared` | 3 processes, crashes; needless starts only, or any overlap | one claimant of the path, its socket stays, only crashes leave one, a start alone succeeds |
| `startup_second` | 2 processes, needless starts | expected violation, finding 3 |
| `startup_handover` | 2 processes, start while another stops | expected violation, finding 4 |
| `ipc_deadlines` | 2 clients, client deadline twice the server's, both listeners | order, answers, patience, errors of listeners; nobody is held up |
| `amr_parts` | every AMR-WB module | see below |
| `amr_gains` | `AmrGains` | expected violation, finding 5 |

Of `amr_parts`: `BodyIsParsed` and `ParametersAreWhole` are about `AmrFrame` (the
latter about the indices of `AmrCodebook` and `AmrSpectrum` too), `ResetsAreComplete`,
`ConcealmentFollowsLosses` and `MutedAfterSilence` about `AmrDecoder`, `LagInRange`,
`PredictionReadsThePast` and `ExcitationHasOneScale` about `AmrPitch`,
`ConcealmentIsFounded` about `AmrGains`, `AmrPitch` and `AmrSpectrum`,
`SynthesisIsContinuous` about `AmrSynthesis`, `NumbersHold` about `AmrArithmetic`, and
`FunctionsHold` about `AmrMath`, `AmrFilter` and the cosines of `AmrSpectrum`.

**Why the bounds suffice.** Recording's hazards need a clip, its successor, and a
stale callback of the first: two clips; the third lets the successor be replaced
while that callback still waits. Two origins let one interfere with the other. A
limit of two buffers lets a clip be empty, non-empty and complete. Two waiting
warm callbacks let one expire while an older one still waits. `MaxBuffered`
replaces the limit where none is configured; at one it tells empty from non-empty,
which is all the code tells apart. Transcription needs two admitted requests and
one more, which is also the least for two waiters and their successor, and a local
clip whose end races theirs with another that begins. The refusal of finding 2
takes a fourth request. Retention needs a clip in use, a newer one that outdates
it and one that releases in between: three; the fourth lets two lists be removed
at the same time. One leftover is enough, for the clips do not meet in a file.
Startup needs one process that leaves something behind, one that
takes over and one that interferes: three. IPC needs a client and the one it
delays; the server's deadline is one unit and the client's two (four in the code)
so that few units make a client impatient.

For AMR-WB: the counters of DTX are compared with their thresholds only, so that 3,
2 and 1 replace 50, 30 and 7, and a maximal count of 4 the largest `int16`; the
proofs are for all. Bodies are empty, one frame of each of the 16 types, pairs with
either lost, and four frames; cuts leave nothing, a byte or more of the last frame
off. Lag indices are those at the borders of each resolution; the random numbers
are the extremes; scales are the least and the largest. Two gains with two energies
make every difference a shift can confuse visible within the buffers' lengths.
Operands of the table functions are powers of two, their neighbours and numbers
between; spectra are the mean, equal distances, three with formants close
together.

Symmetry is used only in runs without liveness. The deadlock check is on, with
`Terminated` as the place where a model stops, except in the AMR-WB runs: those
parts are walks over an input, which end.

Every property of a passing run has a mutant in the module, an operator marked
`Mutant:` beside the definition it replaces, under which the run must fail.

**Fairness.** `Recording!Fairness` assumes that Go runs every runnable goroutine,
that device calls return, and that a running timer expires. It assumes nothing of
clients, audio, cancellation or the shutdown timeout, so `ShutdownCompletes` does
not rest on the latter. `MgrExit` has no fairness of its own: the manager's
`select` may prefer the signal, but signals stop after shutdown.
`Transcription!Fairness` assumes that goroutines run and that Whisper requests
end, by answer, timeout or cancellation; with a request timeout of zero this is
up to the server. Arrivals are not assumed. `Startup!Fairness` assumes that a
process runs; nobody need start or stop one. `IPC!Fairness` assumes that the server,
the goroutines, the listeners' ends and time go on; clients need not write.
Weak fairness suffices throughout. AMR-WB has no liveness: `Decode` returns after its
loops.

## 5. Proofs

All of it is checked by TLAPS for arbitrary sets of origins, clips, requests and processes,
and every configuration the `ASSUME`s allow. The assumptions are types, the
finiteness of the sets counted in `Transcription`, that `NoOrigin` is no origin,
that HTTP input needs a maximum duration (enforced by `ValidateConfig`), that
`NoDaemon` is no process, that the thresholds of DTX are below the largest
count, that a word has two bits at least, and how large the entries of the codebooks are: means and initial spectra are
frequencies, in `0..16384`, and no two entries that are added make more than
4095 (in the tables the sums are between -1961 and 2934). Where a run checks a group (`SessionsConsistent`, `ClipFates`,
`CountersExact`, `FilesKept`, `OneServer`, `AnswersAgree`, `ResetsAreComplete`), the
theorem about the group follows from one about each member.

`RecordingProofs` builds invariants one on another. Types are not inductive: a
start in flight must find an ID left and a capture failure must find a session,
so `TypeCorrect` is proved with `RecordingHasSession`. Then the pending stop and
its timer (`DelayedStopLives`), the phases of shutdown (`ShutdownIsFinal`), and
the stream manager (`StreamSettles`). For the last the invariant must say, for
each place the manager is at, what a missing signal means: the copy it took is
still the desired state, or the failure it is about to handle is recognised as
stale. The history invariants follow: `EveryClipHasOneFate`,
`ClipsFinalizedInOrder`, `OnlyAskedClipsFinalized`, `StoppedClipsKept`.
`OwnersOnly` is an action property. `RefinesLifecycle` shows that every step is a
step of `ClipLifecycle` or a stutter.

`TranscriptionProofs` first shows that moving one goroutine changes the number of
those in a set of states by at most one (`Moves`), and from it that both counters
are exact. Types need this too: a counter that is decreased must be positive.
The bounds then follow by comparing counters: an admission needs fewer than two
holders, and the admitted are among the holders; `CompareAndSwap` from zero finds
no transcription at all. `WakeupsAreKept` is inductive by itself once the counter
is a natural number.

`RetentionProofs` has one invariant: a clip is protected exactly from before its
file exists until its release; the watermark is the newest released clip; names
on any list are outdated, and belong to clips that are over or to leftovers. The
last part is what makes the removals outside the lock safe: a listed clip that is
over has no later step that needs its file, and being outdated is permanent. For a
leftover it is not enough (section 6); so `FilesInUseStay` excepts its name,
and `NoneNeededGoes` states the promise of the documentation for an empty directory.

`StartupProofs` shows `NoSocketLeft` for every `Overlaps`. The exclusive claim holds in
behaviours whose `overlap` is within `{"serving"}`, which `OneAtATime` says. Its invariant adds that
at most one process is starting or stopping, and that the path leads to the
process that bound it: so a dial that fails proves that nobody serves, and this
stays true until the process that dialled has bound the path itself. Where starts
or stops overlap the claim is not exclusive, as finding 4 shows.

`IPCProofs` needs for the order of commands that a connection's goroutine is
acknowledged before the next connection is accepted, which `ConnInv` says of each
place the server may be at; the answers need that the client of the connection
being handled still waits or has given up. `FailureReported` follows from what
`serve` has received. `PatienceIsEnough` counts: while `prompt` holds, time passes
only when the server can do nothing but wait for the client it reads from, so every
unit of time on a client's clock belongs to a late one before it, and none of them
has more units than the server's deadline.

`AmrDecoderProofs` has one invariant. For the resets: after comfort noise only
memories outside `SpeechMems` are dirty, and a homed decoder is a new one. For the
concealment: one to four good frames leave its state at 5, 2, 1 and 0 at most, and
frames lost in a row bring it to their number at least. For muting: the counter that
the code resets in several branches never exceeds the frames without data.
`EveryBodyIsParsed` is about the walk of `AmrFrame`, for bodies of any frames and any
length: the ends of the frames grow, so an offset that is one of them leaves no other
frame across it, and the two walks take the same steps.

`SubframesJoin` is about `AmrSynthesis` and has its own invariant, with one part for
each kind of memory. A memory holds the samples before the subframe until the block
that replaces it, and the newest ones after it (`Memory`, `MemoryOfTwo`). What one
block leaves in the scratch area for the next is listed block by block (`ScratchInv`),
so that every filter finds its input where it reads it. The hard part is the past that
not every rate keeps: of `mem_syn_hf` only the lowest rate reads and writes the first
four cells, and only the highest runs the low-pass filter with `mem_hf3`. When a rate
returns to them they may be those of a subframe before other rates, and the code
accepts that; the invariant says that they are then zero or samples of the right signal
at the right place of an earlier subframe (`Was`), and the latest ones when the rate
has not changed.

`AmrArithmeticProofs` is first about words of every width. It starts with powers of two,
quotients and products, and shows of each operation that the value it gives is the
exact one, or the largest or smallest word where that is exceeded. The numbers in
double precision are off by what the low halves leave out, and the proof is where the
bound comes from: `mpy_dpf_32` may be 7 too small, which words of 8 bits and more reach
and narrower ones, on which TLC can try all operands, do not.

Two theorems of that module are about parts of `FunctionsHold`, for all operands where
the run has a few. `FunctionsExact`: each octal digit of `div_16by16` keeps quotient and
remainder together those of eight times the dividend (`DigitIs`), so five digits are
the quotient; `normalize_amr_wb` first shifts by digits, which leaves the first bit
among the highest four (`CoarseIs`). `NoiseAlwaysBetween`: the weights of the two
descriptions of comfort noise are shares of one whole, although the period between
them is a quotient that is cut (`FactorIs`), and each ISF is the mean, cut twice
(`MixedIs`); after the dithering, in which each ISF is pushed by the one before it,
none exceeds 26284 + 448 · 14, so the sums the code does not saturate do not overflow
(`DitheringIs`). It assumes of the descriptions (`FilterAssumption`) that no ISF is
beyond 26000: with the tables of the code the largest is 15442 in a description that is
received (`qisf_ns_tab.c`) and 16717 in the mean of speech that stands for one
(`qpisf_2s_tab.c`, the prediction and losses included).

`AmrProofs` is about the parts that remember. For `AmrPitch` it first shows the
arithmetic of the lags: each decoding branch gives a lag of the buffer, a sorted
history stays within it, and the clamp of a concealed lag is between two of the
history. The invariant adds that the lag a relative index starts from leaves room for
all of them, and that the samples with the old scale are before all that will be read.
For `AmrGains` the invariant keeps beside the buffers what was received: the energies
since the last loss are the newest that the prediction has, comfort noise between them
or not, and the dispersion has the gains of the last six subframes, with zeros for those
before comfort noise. For `AmrSpectrum` there are two invariants. One relates the receiver to the twin
that has lost nothing: as many good frames as there were since the last loss, as many
entries of `isf_buf` agree, and the residual with the first. The other bounds each
vector: a decoded ISF is at most 25940, and `Reorder_isf` moves the i-th at most to
26000 + 128 i; so none of its additions saturates and the distance it makes is that of
the numbers. For `AmrCodebook` each
decoder of `n` pulses is shown to put them within the `2^N` positions from where its
half of the track starts (`PulsesInSet`), so none reaches into the sign; the decoders of a whole track
follow from those of the halves. The invariant adds that tracks not yet decoded
are empty in the code vector, which bounds its entries by the pulses of one track.
`PartsStandAlone` shows that a step of `AmrSpec` is a step of one part and
a stutter of the others (so the two theorems about parts of `FunctionsHold` are true of
the run), and `PartsInv` that for the two parts whose variables are small while they
are not the subject the invariant is one of the whole. `AmrTypesHold`,
`ConcealmentHolds`, `SynthesisHolds` and `NumbersAlwaysHold` are the properties of the
run.

Where a proof needs induction over a number (that a recursive function exists, that
every prefix of a vector is in order), it is induction on membership of a set, from the
well-foundedness of the naturals: `UpFromZero`. The folds of the community modules, over
the widths of a frame's parameters or the vectors with one pulse more, are not reached by
it.

**Only model-checked.** Liveness (`StopEventuallyEnds`, `MicrophoneReleased`,
`ShutdownCompletes`, `WaitersProceed`, `AloneStarts`, `NobodyIsHeldUp`) and the
fairness part of the refinement `ImplementsLifecycle`, which need `ENABLED`. Of AMR-WB,
`ParametersAreWhole` and `FunctionsHold`. The first has a part that is proved
(`IndicesStayWhole`); the others are folds over the widths of the parameters, the contents
of sorting tables of up to 477 entries, and sets of vectors whose instance is the whole:
the run goes through every mode and every index. Of the second, `FunctionsExact` and `NoiseAlwaysBetween` are
proved; the rest depends on the values in the tables (logarithms, powers, roots,
cosines) or is made of folds (polynomials, the high band), and is checked on chosen
operands. That comfort noise is `ISF_GAP` apart before the dithering is not claimed:
the interpolation does not see to it.

## 6. Findings

1. **A clip that ends at the duration limit keeps the microphone open.** `onAudio`
   (`daemon/daemon.go:240-245`, and `:234` for a PCM error) sets the stream warm
   without starting `warmTimer`; the stream stays open until another recording is
   stopped. `docs/spec.md:100` and `daemon/config/config.go:39` promise that it
   closes after the retention window. Run `recording_limit`.
2. **A request can be refused with a slot free.** `handleHTTP` counts a request
   before it compares (`daemon/http.go:83`), so one that is being refused holds a
   third place for a moment, and another is refused although only one request is
   admitted. `README.md:178` and `docs/spec/http-transcription.md:45` describe
   refusal only when two are admitted. The bound itself holds. Run
   `transcription_refusal`.
3. **A needless second start removes the running daemon's transcripts.** `Run`
   cleans the directory (`daemon/daemon.go:61`) before it looks at the socket
   (`:64`). The second daemon fails as it should, but the first one's commands lose
   their files. `docs/spec/transcript-retention.md:5` promises protection and
   `docs/spec.md:53` the removal of stale files only. Run `startup_second`.
4. **A daemon that stops may remove its successor's socket.** Closing the listener
   removes the path already; the deferred `os.Remove` (`server/server.go:46`)
   removes it again, whoever has bound it since. `docs/spec.md:162` says that a
   daemon removes *its* socket. Run `startup_handover`.

5. **Gains kept for concealment are lost.** In a good subframe the loop that shifts
   the buffers of past gains (`dec_gain2_amr_wb.c:351-362`) starts from entry 1 and
   writes before it reads, so the newest gain of the subframe before is replaced by
   an older one: the buffer becomes `<<b1, b1, b2, b3, new>>` instead of
   `<<b1, b2, b3, b4, new>>`. A lost frame is concealed with their median. The
   comment at `:345` says that they are kept, and the loop for lost subframes
   (`:273`) keeps them. Run `amr_gains`.

One more has no run of its own, since `FilesKept` excepts it by name
(`MistakenForLeftover`), and without the exception `retention_window` finds it. A clip
is protected when its text is about to be written (`daemon/transcribe.go:66`), not from
its start. If startup could not remove a file of that name
(`runtimedir/transcripts.go:40`; `PrepareDir` goes on), the release of a newer clip
lists it while the older clip is transcribing, and removes it outside the lock, when
the clip may have written its own text to it and started the output command. It takes
a removal that fails at startup and succeeds later.

Other places where the decoder's code and its comments disagree, or where the code
leaves what C defines. The models follow the code; no run is about them.

- `shl_int32` (`pvamrwbdecoder_basic_op.h:152`) masks a negative amount with 15
  although its comment promises a right shift. `synthesis_amr_wb.c:257` can pass −18
  when the excitation is silent: the gain of the noise is then far too large.
- `agc2_amr_wb.c` shifts left by −1 for energies of 2^30 and more; `voice_factor.c` may
  shift right by more than 31.
- `amr_wb_round` and `amr_wb_shl1_round` are documented "with saturation" and wrap just
  below the largest number.
- The homing mask of the highest mode (`homing_amr_wb_dec.c:297`) leaves out one bit
  that is not of the high band, against the comment at `:286`.
- The energies of a lost subframe (`dec_gain2_amr_wb.c:249-260`) leave the oldest entry
  in place and halve the mean, so that the floor of −14 dB below is never reached.
- A frame without data after a homing frame is compared with the bits of the frame
  before (`wrapper.c:120-123`); the bits are not initialised at first (`:53`).
- The last clamp of `CN_dithering` may break the distance it has just made. An ISF of
  exactly 16384 reads one entry past the table of cosines, multiplied by zero.
- `lagconceal`'s branch for bad frames and the tables of usable frames are never reached;
  `aver_isf_history`, `find_frame_indices` and `dithering_control` are never called.

## 7. Not modelled

Contents (PCM, transcripts, notifications, environments), the audio library,
command-line parsing and the notifier, which change no state the properties are
about. Request environment and configuration are filters without state, of which
the other modules use the result. The Whisper client is one request. Memory limits
and clip IDs beyond the range of an integer are left out.

Of AMR-WB: the values of samples, and with them the enhancers of noise and pitch
(`pvamrwbdecoder.c:986-1063`) and the filter that smooths the prediction (`:689-702`);
the codebooks' contents (`*_tab.c`), which are arbitrary vectors here; the functions
of the encoder that nobody calls (`dtx_decoder_amr_wb.c:661-907`). Fixed-point
functions beyond the operations of `AmrArithmetic` are checked on chosen operands, not
proved: they are tables and loops over data.

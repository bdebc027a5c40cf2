------------------------------ MODULE Recording ------------------------------
(***************************************************************************)
(* Local recording in the talk2text daemon: the sessions that `start` and  *)
(* `stop` create and end under muCapture, the stop-delay and warm-retention*)
(* timers, the audio callback, the goroutine that drives the capture       *)
(* device (streamManager), HTTP submissions as far as they share the clip  *)
(* counter, and shutdown.                                                  *)
(*                                                                         *)
(* One action is one critical section of muCapture, or one step of the     *)
(* stream manager between two of them.  A critical section is atomic here  *)
(* because nothing inside one blocks and every variable it reads or writes *)
(* is reached only under the lock, except the device, which only the       *)
(* stream manager touches.                                                 *)
(***************************************************************************)
EXTENDS Naturals, Sequences

CONSTANTS
    Origins,        \* session identifiers of the clients
    NoOrigin,       \* the origin of a request that carries no identifier
    MaxDuration,    \* cfg.MaxDuration, in audio buffers; 0 disables the limit
    StopDelays,     \* values of cfg.StopDelay; only whether it is 0 matters
    WarmRetentions, \* values of cfg.WarmRetention; as above
    HTTPInput,      \* cfg.HTTPListen is set
    PCMErrors,      \* whether Session.OnPCM may fail
    MaxClips,       \* bound: clip IDs handed out in a behaviour
    MaxBuffered,    \* bound: buffers of a clip when MaxDuration = 0
    MaxExpired      \* bound: expired warm callbacks waiting for the lock

ASSUME OriginsAssumption == NoOrigin \notin Origins
ASSUME ConfigAssumption ==
    /\ MaxDuration \in Nat /\ StopDelays \subseteq Nat /\ WarmRetentions \subseteq Nat
    /\ HTTPInput \in BOOLEAN /\ PCMErrors \in BOOLEAN
    /\ HTTPInput => MaxDuration > 0
ASSUME BoundsAssumption ==
    MaxClips \in Nat /\ MaxBuffered \in Nat /\ MaxExpired \in Nat

VARIABLES
    stopDelay,       \* d.cfg.StopDelay
    warmRetention,   \* d.cfg.WarmRetention
    ctxDone,         \* d.ctx is cancelled
    phase,           \* of Run: "serving"; "stopping", from the unlock in
                     \* shutdown; "exited"
    request,         \* the start or stop goroutine that has not locked yet
    active,          \* d.active
    nextClip,        \* d.nextClip
    pendingStopClip, \* d.pendingStopClip
    stopTimer,       \* clip captured by d.stopTimer's callback; 0: nil
    stopArmed,       \* clips whose stop timer is running
    stopExpired,     \* clips whose stop callback waits for muCapture
    warmArmed,       \* d.warmTimer is running
    warmExpired,     \* number of warm callbacks that wait for muCapture
    desired,         \* d.desiredStreamState
    signal,          \* a value is in d.desiredStreamStateSignal
    stream,          \* d.stream: "closed" (nil), "stopped" or "started"
    mgrPC,           \* where the stream manager is
    mgrDesired,      \* streamManager's local `desired`
    handed,          \* history: clips detached for transcription, in order
    replaced,        \* history: clips discarded by their owner's new start
    failed,          \* history: clips dropped with an audio-capture error
    submitted,       \* history: clips of HTTP submissions
    asked,           \* history: clips whose owner sent a stop while active
    limited          \* history: clips stopped at the maximum duration

cfgVars     == <<stopDelay, warmRetention>>
lifeVars    == <<stopDelay, warmRetention, ctxDone, phase>>
sessionVars == <<active, nextClip>>
stopVars    == <<pendingStopClip, stopTimer, stopArmed, stopExpired>>
warmVars    == <<warmArmed, warmExpired>>
desireVars  == <<desired, signal>>
mgrVars     == <<stream, mgrPC, mgrDesired>>
histVars    == <<handed, replaced, failed, submitted, asked, limited>>
vars == <<lifeVars, request, sessionVars, stopVars, warmVars, desireVars,
          mgrVars, histVars>>

ClipIDs   == 1..MaxClips
Callers   == Origins \cup {NoOrigin}
States    == {"off", "warm", "recording"}
NoSession == [id |-> 0, origin |-> NoOrigin, duration |-> 0]
NoRequest == [cmd |-> "none", origin |-> NoOrigin]

(* A session never keeps a duration that reached the limit. *)
DurationBound == IF MaxDuration > 0 THEN MaxDuration - 1 ELSE MaxBuffered
Session  == [id : ClipIDs, origin : Origins, duration : 0..DurationBound]
Requests == [cmd : {"start", "stop"}, origin : Callers] \cup {NoRequest}

TypeOK ==
    /\ stopDelay \in StopDelays /\ warmRetention \in WarmRetentions
    /\ ctxDone \in BOOLEAN
    /\ phase \in {"serving", "stopping", "exited"}
    /\ request \in Requests
    /\ active \in Session \cup {NoSession}
    /\ nextClip \in 1..(MaxClips + 1)
    /\ pendingStopClip \in 0..MaxClips
    /\ stopTimer \in 0..MaxClips
    /\ stopArmed \in SUBSET ClipIDs
    /\ stopExpired \in SUBSET ClipIDs
    /\ warmArmed \in BOOLEAN
    /\ warmExpired \in 0..MaxExpired
    /\ desired \in States
    /\ signal \in BOOLEAN
    /\ stream \in {"closed", "stopped", "started"}
    /\ mgrPC \in {"wait", "read", "apply", "failed", "abandon", "done"}
    /\ mgrDesired \in States
    /\ handed \in Seq(ClipIDs)
    /\ replaced \in SUBSET ClipIDs
    /\ failed \in SUBSET ClipIDs
    /\ submitted \in SUBSET ClipIDs
    /\ asked \in SUBSET ClipIDs
    /\ limited \in SUBSET ClipIDs

Init ==
    /\ stopDelay \in StopDelays /\ warmRetention \in WarmRetentions
    /\ ctxDone = FALSE /\ phase = "serving" /\ request = NoRequest
    /\ active = NoSession /\ nextClip = 1
    /\ pendingStopClip = 0 /\ stopTimer = 0
    /\ stopArmed = {} /\ stopExpired = {}
    /\ warmArmed = FALSE /\ warmExpired = 0
    /\ desired = "off" /\ signal = FALSE
    /\ stream = "closed" /\ mgrPC = "wait" /\ mgrDesired = "off"
    /\ handed = <<>> /\ replaced = {} /\ failed = {} /\ submitted = {}
    /\ asked = {} /\ limited = {}

-----------------------------------------------------------------------------
(* What the critical sections are made of. *)

(* The end of the process ends every goroutine. *)
Alive == phase # "exited"

DesireStream(s) == desired' = s /\ signal' = TRUE

CancelPendingStop ==
    /\ stopArmed' = stopArmed \ {stopTimer}
    /\ stopTimer' = 0
    /\ pendingStopClip' = 0

(* Detach the active session, hand it to transcription and leave the       *)
(* recording state.  With no warm retention warmTimer is an ImmediateTimer:*)
(* its Start replaces the desired state "warm" by "off" before the unlock. *)
StopActiveSession ==
    /\ active' = NoSession
    /\ CancelPendingStop
    /\ DesireStream(IF warmRetention > 0 THEN "warm" ELSE "off")
    /\ warmArmed' = (warmRetention > 0)
    /\ handed' = Append(handed, active.id)

ClipsLeft ==
    MaxClips + 1 - nextClip - (IF request.cmd = "start" THEN 1 ELSE 0)

(* Clips whose owner sends the stop that is being served.                  *)
AskedBy(o) == IF active # NoSession /\ active.origin = o
              THEN {active.id} ELSE {}

-----------------------------------------------------------------------------
(* Requests.  The IPC server handles one connection at a time and waits    *)
(* for the acknowledgement, which start and stop send inside the critical  *)
(* section; so at most one of their goroutines has not locked yet.         *)

Request(cmd, o) ==
    /\ Alive /\ ~ctxDone /\ request = NoRequest
    /\ cmd = "start" => ClipsLeft > 0
    /\ request' = [cmd |-> cmd, origin |-> o]
    /\ UNCHANGED <<lifeVars, sessionVars, stopVars, warmVars, desireVars,
                   mgrVars, histVars>>

(* Mutant: a start from another origin is not refused. *)
MayStartAlways(o) == o # NoOrigin

MayStart(o) ==
    /\ o # NoOrigin
    /\ active # NoSession => active.origin = o

(* start: no session identifier, or "recording busy". *)
RejectStart ==
    /\ Alive /\ request.cmd = "start" /\ ~MayStart(request.origin)
    /\ request' = NoRequest
    /\ UNCHANGED <<lifeVars, sessionVars, stopVars, warmVars, desireVars,
                   mgrVars, histVars>>

(* Mutant: the pending stop is cancelled before it is looked at, so the    *)
(* clip is discarded.                                                      *)
EndPreviousAfterCancel ==
    /\ replaced' = IF active = NoSession THEN replaced
                   ELSE replaced \cup {active.id}
    /\ UNCHANGED handed

(* What becomes of the session a start finds: one with a pending stop is   *)
(* handed to transcription, another is discarded.                          *)
EndPrevious ==
    IF active # NoSession /\ active.id = pendingStopClip
    THEN handed' = Append(handed, active.id) /\ UNCHANGED replaced
    ELSE /\ replaced' = IF active = NoSession THEN replaced
                        ELSE replaced \cup {active.id}
         /\ UNCHANGED handed

Start ==
    /\ Alive /\ request.cmd = "start" /\ MayStart(request.origin)
    /\ request' = NoRequest
    /\ EndPrevious
    /\ CancelPendingStop
    /\ warmArmed' = FALSE
    /\ active' = [id |-> nextClip, origin |-> request.origin, duration |-> 0]
    /\ nextClip' = nextClip + 1
    /\ DesireStream("recording")
    /\ UNCHANGED <<lifeVars, stopExpired, warmExpired, mgrVars, failed,
                   submitted, asked, limited>>

(* A stop from the owner of the active session, and the one that repeats a *)
(* pending one.                                                            *)
MayStop(o) == o # NoOrigin /\ active # NoSession /\ active.origin = o
Repeated   == stopDelay > 0 /\ pendingStopClip = active.id

StopIgnored ==
    /\ Alive /\ request.cmd = "stop"
    /\ ~MayStop(request.origin) \/ Repeated
    /\ request' = NoRequest
    /\ asked' = asked \cup AskedBy(request.origin)
    /\ UNCHANGED <<lifeVars, sessionVars, stopVars, warmVars, desireVars,
                   mgrVars, handed, replaced, failed, submitted, limited>>

(* Mutant: the timer is made but not started. *)
StopDelayedUnstarted ==
    /\ Alive /\ request.cmd = "stop" /\ MayStop(request.origin)
    /\ stopDelay > 0 /\ pendingStopClip = 0
    /\ request' = NoRequest
    /\ pendingStopClip' = active.id
    /\ stopTimer' = active.id
    /\ asked' = asked \cup AskedBy(request.origin)
    /\ UNCHANGED <<lifeVars, sessionVars, stopArmed, stopExpired, warmVars,
                   desireVars, mgrVars, handed, replaced, failed, submitted,
                   limited>>

StopDelayed ==
    /\ Alive /\ request.cmd = "stop" /\ MayStop(request.origin)
    /\ stopDelay > 0 /\ pendingStopClip = 0
    /\ request' = NoRequest
    /\ pendingStopClip' = active.id
    /\ stopTimer' = active.id
    /\ stopArmed' = stopArmed \cup {active.id}
    /\ asked' = asked \cup AskedBy(request.origin)
    /\ UNCHANGED <<lifeVars, sessionVars, stopExpired, warmVars, desireVars,
                   mgrVars, handed, replaced, failed, submitted, limited>>

StopNow ==
    /\ Alive /\ request.cmd = "stop" /\ MayStop(request.origin)
    /\ stopDelay > 0 => pendingStopClip \notin {0, active.id}
    /\ request' = NoRequest
    /\ StopActiveSession
    /\ asked' = asked \cup AskedBy(request.origin)
    /\ UNCHANGED <<lifeVars, nextClip, stopExpired, warmExpired, mgrVars,
                   replaced, failed, submitted, limited>>

(* handleHTTP takes its clip ID from the same counter, at any time before  *)
(* the process ends: closing the HTTP server does not wait for handlers.   *)
AcceptHTTP ==
    /\ Alive /\ HTTPInput /\ ClipsLeft > 0
    /\ submitted' = submitted \cup {nextClip}
    /\ nextClip' = nextClip + 1
    /\ UNCHANGED <<lifeVars, request, active, stopVars, warmVars, desireVars,
                   mgrVars, handed, replaced, failed, asked, limited>>

-----------------------------------------------------------------------------
(* Timers.  time.AfterFunc runs the callback in a goroutine of its own;    *)
(* Stop and Reset do nothing about one that is already running.            *)

StopTimerExpires(c) ==
    /\ Alive /\ c \in stopArmed
    /\ stopArmed' = stopArmed \ {c}
    /\ stopExpired' = stopExpired \cup {c}
    /\ UNCHANGED <<lifeVars, request, sessionVars, pendingStopClip, stopTimer,
                   warmVars, desireVars, mgrVars, histVars>>

(* Mutant: the callback stops whatever is active. *)
StopAnyActive(c) == c \in ClipIDs /\ active # NoSession

(* Both identities must still match when the callback has the lock. *)
StopStillMeant(c) == active.id = c /\ pendingStopClip = c

StopTimerFires(c) ==
    /\ Alive /\ c \in stopExpired
    /\ stopExpired' = stopExpired \ {c}
    /\ IF StopStillMeant(c)
       THEN StopActiveSession
       ELSE UNCHANGED <<active, pendingStopClip, stopTimer, stopArmed,
                        warmArmed, desireVars, handed>>
    /\ UNCHANGED <<lifeVars, request, nextClip, warmExpired, mgrVars,
                   replaced, failed, submitted, asked, limited>>

WarmTimerExpires ==
    /\ Alive /\ warmArmed /\ warmExpired < MaxExpired
    /\ warmArmed' = FALSE
    /\ warmExpired' = warmExpired + 1
    /\ UNCHANGED <<lifeVars, request, sessionVars, stopVars, desireVars,
                   mgrVars, histVars>>

(* Mutant: the callback changes the desired state without a signal. *)
WarmCallbackSilent ==
    /\ desired' = IF active = NoSession THEN "off" ELSE desired
    /\ UNCHANGED signal

WarmCallback == IF active = NoSession THEN DesireStream("off")
                ELSE UNCHANGED desireVars

WarmTimerFires ==
    /\ Alive /\ warmExpired > 0
    /\ warmExpired' = warmExpired - 1
    /\ WarmCallback
    /\ UNCHANGED <<lifeVars, request, sessionVars, stopVars, warmArmed,
                   mgrVars, histVars>>

-----------------------------------------------------------------------------
(* onAudio, called on the device's thread while the device runs.  A buffer *)
(* that finds no active session changes nothing and is not a step.         *)

Capturing == Alive /\ stream = "started" /\ active # NoSession

(* Mutant: the limit is exclusive. *)
LimitPassed(duration) == MaxDuration > 0 /\ duration > MaxDuration

(* Session.OnPCM succeeds and the limit is not reached. *)
LimitReached(duration) == MaxDuration > 0 /\ duration >= MaxDuration

AudioAppended ==
    /\ Capturing /\ ~LimitReached(active.duration + 1)
    /\ MaxDuration = 0 => active.duration < MaxBuffered
    /\ active' = [active EXCEPT !.duration = @ + 1]
    /\ UNCHANGED <<lifeVars, request, nextClip, stopVars, warmVars, desireVars,
                   mgrVars, histVars>>

(* Mutant: the pending stop is not cancelled. *)
EndSessionKeepsStop ==
    /\ UNCHANGED <<stopArmed, stopTimer, pendingStopClip, warmArmed>>
    /\ active' = NoSession
    /\ DesireStream("warm")

(* The two paths that end the session here; neither starts the warm timer. *)
EndSessionInCallback ==
    /\ CancelPendingStop
    /\ active' = NoSession
    /\ DesireStream("warm")
    /\ UNCHANGED warmArmed

AudioReachesLimit ==
    /\ Capturing /\ LimitReached(active.duration + 1)
    /\ EndSessionInCallback
    /\ handed' = Append(handed, active.id)
    /\ limited' = limited \cup {active.id}
    /\ UNCHANGED <<lifeVars, request, nextClip, stopExpired, warmExpired,
                   mgrVars, replaced, failed, submitted, asked>>

AudioFails ==
    /\ Capturing /\ PCMErrors
    /\ EndSessionInCallback
    /\ failed' = failed \cup {active.id}
    /\ UNCHANGED <<lifeVars, request, nextClip, stopExpired, warmExpired,
                   mgrVars, handed, replaced, submitted, asked, limited>>

-----------------------------------------------------------------------------
(* streamManager.  "wait" is the select, "read" the lock that copies the   *)
(* desired state, "apply" the device calls for that copy, "failed" the     *)
(* lock that follows a device error, "abandon" closeStream after it.       *)

(* The select picks either ready case, so a cancelled context may be seen  *)
(* late.                                                                   *)
MgrWake ==
    /\ Alive /\ mgrPC = "wait" /\ signal
    /\ signal' = FALSE
    /\ mgrPC' = "read"
    /\ UNCHANGED <<lifeVars, request, sessionVars, stopVars, warmVars, desired,
                   stream, mgrDesired, histVars>>

MgrExit ==
    /\ Alive /\ mgrPC = "wait" /\ ctxDone
    /\ stream' = "closed"
    /\ mgrPC' = "done"
    /\ UNCHANGED <<lifeVars, request, sessionVars, stopVars, warmVars,
                   desireVars, mgrDesired, histVars>>

MgrRead ==
    /\ Alive /\ mgrPC = "read"
    /\ mgrDesired' = desired
    /\ mgrPC' = "apply"
    /\ UNCHANGED <<lifeVars, request, sessionVars, stopVars, warmVars,
                   desireVars, stream, histVars>>

(* `desired` is local to an iteration of the loop. *)
GoTo(pc) ==
    /\ mgrPC' = pc
    /\ mgrDesired' = IF pc = "wait" THEN "off" ELSE mgrDesired

(* A device step touches neither the lock nor what it guards. *)
DeviceStep(pc, s) ==
    /\ Alive /\ GoTo(pc) /\ stream' = s
    /\ UNCHANGED <<lifeVars, request, sessionVars, stopVars, warmVars,
                   desireVars, histVars>>

MgrClose ==
    /\ mgrPC = "apply" /\ mgrDesired = "off"
    /\ DeviceStep("wait", "closed")

(* openStream, which succeeds at once when the stream is open. *)
MgrOpen ==
    /\ mgrPC = "apply" /\ mgrDesired # "off" /\ stream = "closed"
    /\ \/ DeviceStep("apply", "stopped")
       \/ DeviceStep("failed", "closed")

(* Stream.Stop; stopping a stopped device returns no error. *)
MgrStop ==
    /\ mgrPC = "apply" /\ mgrDesired = "warm" /\ stream # "closed"
    /\ \/ DeviceStep("wait", "stopped")
       \/ stream = "started" /\ DeviceStep("failed", stream)

(* Stream.Start; starting a started device returns no error. *)
MgrStart ==
    /\ mgrPC = "apply" /\ mgrDesired = "recording" /\ stream # "closed"
    /\ \/ DeviceStep("wait", "started")
       \/ stream = "stopped" /\ DeviceStep("failed", stream)

(* A failure of a state that is no longer desired is ignored. *)
MgrFailureStale ==
    /\ mgrPC = "failed" /\ desired # mgrDesired
    /\ DeviceStep("wait", stream)

(* Mutant: the failure leaves the desired state. *)
WarmFailedStaysWarm ==
    /\ Alive /\ mgrPC = "failed" /\ mgrDesired = "warm" /\ desired = "warm"
    /\ GoTo(IF stream = "closed" THEN "wait" ELSE "abandon")
    /\ UNCHANGED <<lifeVars, request, sessionVars, stopVars, warmVars,
                   desireVars, stream, histVars>>

WarmFailed ==
    /\ Alive /\ mgrPC = "failed" /\ mgrDesired = "warm" /\ desired = "warm"
    /\ desired' = "off"
    /\ GoTo(IF stream = "closed" THEN "wait" ELSE "abandon")
    /\ UNCHANGED <<lifeVars, request, sessionVars, stopVars, warmVars, signal,
                   stream, histVars>>

(* Drops whatever session is active now; it reads s.Environment() later,   *)
(* so a nil session would crash the daemon.                                *)
RecordingFailed ==
    /\ Alive /\ mgrPC = "failed"
    /\ mgrDesired = "recording" /\ desired = "recording"
    /\ CancelPendingStop
    /\ active' = NoSession
    /\ desired' = "off"
    /\ failed' = failed \cup {active.id}
    /\ GoTo(IF stream = "closed" THEN "wait" ELSE "abandon")
    /\ UNCHANGED <<lifeVars, request, nextClip, stopExpired, warmVars, signal,
                   stream, handed, replaced, submitted, asked, limited>>

MgrAbandon ==
    /\ mgrPC = "abandon"
    /\ DeviceStep("wait", "closed")

Manager ==
    \/ MgrWake \/ MgrExit \/ MgrRead \/ MgrClose \/ MgrOpen \/ MgrStop
    \/ MgrStart \/ MgrFailureStale \/ WarmFailed \/ RecordingFailed
    \/ MgrAbandon

-----------------------------------------------------------------------------
(* Shutdown. *)

Cancel ==
    /\ Alive /\ ~ctxDone
    /\ ctxDone' = TRUE
    /\ UNCHANGED <<cfgVars, phase, request, sessionVars, stopVars, warmVars,
                   desireVars, mgrVars, histVars>>

(* Mutant: shutdown waits for the recording to end. *)
ServeReturnsWhenIdle == ctxDone /\ request = NoRequest /\ active = NoSession

(* serve returns when the IPC server does, which is after the request it   *)
(* was waiting for is acknowledged.                                        *)
ServeReturns == ctxDone /\ request = NoRequest

Shutdown ==
    /\ phase = "serving" /\ ServeReturns
    /\ phase' = "stopping"
    /\ warmArmed' = FALSE
    /\ CancelPendingStop
    /\ active' = NoSession
    /\ DesireStream("off")
    /\ UNCHANGED <<cfgVars, ctxDone, request, nextClip, stopExpired,
                   warmExpired, mgrVars, histVars>>

EndProcess ==
    /\ phase' = "exited"
    /\ UNCHANGED <<cfgVars, ctxDone, request, sessionVars, stopVars, warmVars,
                   desireVars, mgrVars, histVars>>

Exit            == phase = "stopping" /\ mgrPC = "done" /\ EndProcess
ShutdownTimeout == phase = "stopping" /\ mgrPC # "done" /\ EndProcess

-----------------------------------------------------------------------------
Handler == RejectStart \/ Start \/ StopIgnored \/ StopDelayed \/ StopNow
Audio   == AudioAppended \/ AudioReachesLimit \/ AudioFails

Step ==
    \/ \E cmd \in {"start", "stop"}, o \in Callers : Request(cmd, o)
    \/ Handler
    \/ AcceptHTTP
    \/ \E c \in ClipIDs : StopTimerExpires(c) \/ StopTimerFires(c)
    \/ WarmTimerExpires \/ WarmTimerFires
    \/ Audio
    \/ Manager
    \/ Cancel \/ Shutdown \/ Exit \/ ShutdownTimeout

Terminated == phase = "exited" /\ UNCHANGED vars

Next == Step \/ Terminated

Spec == Init /\ [][Next]_vars

(* Go schedules every runnable goroutine, device calls return, and a       *)
(* running timer expires.  Nothing is assumed of clients, audio buffers,   *)
(* cancellation or the one-second shutdown timeout.                        *)
Fairness ==
    /\ WF_vars(Handler)
    /\ WF_vars(Manager)
    /\ \A c \in ClipIDs :
          WF_vars(StopTimerExpires(c)) /\ WF_vars(StopTimerFires(c))
    /\ WF_vars(WarmTimerExpires)
    /\ WF_vars(WarmTimerFires)
    /\ WF_vars(Shutdown)
    /\ WF_vars(Exit)

FairSpec == Spec /\ Fairness

-----------------------------------------------------------------------------
(* What status reports of the recording. *)
StatusState ==
    IF active # NoSession THEN "active"
    ELSE IF desired = "warm" THEN "warm" ELSE "off"

-----------------------------------------------------------------------------
(* Safety. *)

(* The stream is wanted in the recording state exactly while a session is  *)
(* active.  The failure paths of streamManager check the first and then    *)
(* use the second without a nil check.                                     *)
RecordingHasSession == desired = "recording" <=> active # NoSession

(* A pending stop names the active clip and its timer, which is running or *)
(* has a callback waiting for the lock: no order of starts, stops, limits  *)
(* and stale callbacks leaves a stop that nothing will carry out.          *)
PendingStopIsLive ==
    /\ stopTimer = pendingStopClip
    /\ pendingStopClip # 0 =>
          /\ active.id = pendingStopClip
          /\ pendingStopClip \in stopArmed \cup stopExpired

(* "Signals may coalesce; the stored desired state is authoritative": with *)
(* no signal left and the manager back at its select, the device is in the *)
(* state that status reports.                                              *)
DeviceOf == [active |-> "started", warm |-> "stopped", off |-> "closed"]
StreamSettled ==
    mgrPC = "wait" /\ ~signal => stream = DeviceOf[StatusState]

(* Clips are finalized at most once and in the order of their IDs, and     *)
(* never while they can still receive audio (Session.PCM is then read      *)
(* without the lock).                                                      *)
FinalizedInOrder ==
    /\ \A i, j \in DOMAIN handed : i < j => handed[i] < handed[j]
    /\ \A i \in DOMAIN handed : handed[i] # active.id

HandedSet == {handed[i] : i \in DOMAIN handed}

(* A clip goes to transcription only because its owner sent a stop while   *)
(* it was active or because it reached the limit: a stale stop timer never *)
(* stops a replacement.                                                    *)
FinalizedOnlyWhenAsked == HandedSet \subseteq asked \cup limited

(* A clip whose owner has asked to stop it is never discarded by that      *)
(* owner's next start.                                                     *)
StoppedIsNotDiscarded == asked \cap replaced = {}

(* While the daemon serves, every clip ID it gave out has exactly one      *)
(* fate, so no accepted clip is lost without an error and none is counted  *)
(* twice.                                                                  *)
Fates == <<{active.id}, HandedSet, replaced, failed, submitted>>
OneFate ==
    phase = "serving" =>
      \A c \in 1..(nextClip - 1) :
        \E i \in DOMAIN Fates :
          /\ c \in Fates[i]
          /\ \A j \in DOMAIN Fates : c \in Fates[j] => j = i

(* Once shutdown has released the lock nothing records again: neither a    *)
(* start that was in flight nor a late timer turns the microphone back on. *)
NothingAfterShutdown ==
    phase # "serving" => active = NoSession /\ desired = "off"

(* What active, desired, pendingStopClip and the timers say of one another *)
(* holds in every interleaving, so no handler, callback or failure path    *)
(* finds a session, a stop or a shutdown that is not there.                *)
SessionsConsistent == RecordingHasSession /\ PendingStopIsLive /\ NothingAfterShutdown

(* Where the clips go: no clip is lost, sent twice, sent without its owner *)
(* asking, or discarded although its owner asked.                          *)
ClipFates == OneFate /\ FinalizedInOrder /\ FinalizedOnlyWhenAsked /\ StoppedIsNotDiscarded

(* A request ends or replaces only a session of its own origin. *)
OwnRequest ==
    request # NoRequest /\ request' = NoRequest /\ active # NoSession
      /\ active'.id # active.id
    => request.origin = active.origin
OwnershipRespected == [][OwnRequest]_vars

-----------------------------------------------------------------------------
(* Liveness. *)

(* An accepted delayed stop ends its clip. *)
StopEventuallyEnds ==
    \A c \in ClipIDs : pendingStopClip = c ~> active.id # c

(* "After recording, it remains open for the warm-retention window [...],  *)
(* then closes while idle": an idle daemon releases the microphone unless  *)
(* it records again.  A process that ended holds no device.                *)
MicrophoneReleased ==
    active = NoSession
      ~> (stream = "closed" \/ active # NoSession \/ phase = "exited")

(* Cancellation ends the daemon, without help from the shutdown timeout.   *)
ShutdownCompletes == ctxDone ~> phase = "exited"

-----------------------------------------------------------------------------
(* Refinement: d.active and d.pendingStopClip are the clip and whether it  *)
(* is being stopped.  The locks, the timers, the device and the callbacks  *)
(* implement the lifecycle the documentation describes.                    *)
Clips == INSTANCE ClipLifecycle WITH
    nextId    <- nextClip,
    current   <- active.id,
    holder    <- active.origin,
    stopping  <- pendingStopClip # 0,
    finalized <- handed

(* Every step is a step of the lifecycle or leaves it alone, and stopping  *)
(* comes to an end.                                                        *)
ImplementsLifecycle == Clips!FairLifecycle
=============================================================================

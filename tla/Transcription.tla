---------------------------- MODULE Transcription ----------------------------
(***************************************************************************)
(* How finished clips reach the Whisper server: local clips at once, HTTP  *)
(* submissions through the two admission slots (httpAdmitted) and then one *)
(* at a time, when no transcription runs (ongoingTranscriptions and the    *)
(* transcriptionIdle channel).  Both counters are atomics and no lock      *)
(* protects them: one action is one atomic operation of one goroutine.     *)
(***************************************************************************)
EXTENDS Naturals, FiniteSets

CONSTANTS
    Locals,      \* clips recorded by the daemon
    Submissions  \* HTTP requests

ASSUME ClipsAssumption ==
    IsFiniteSet(Locals) /\ IsFiniteSet(Submissions)

VARIABLES
    ctxDone,       \* d.ctx is cancelled
    local,         \* where the goroutine of each local clip is
    http,          \* where the handler, later the goroutine, of a request is
    httpAdmitted,  \* d.httpAdmitted
    ongoing,       \* d.ongoingTranscriptions
    idle           \* a value is in d.transcriptionIdle

vars == <<ctxDone, local, http, httpAdmitted, ongoing, idle>>

MaxHTTPAdmitted == 2

LocalStates == {"recording", "whisper", "signal", "left"}
HTTPStates  == {"new", "arrived", "refusing", "refused", "admitted",
                "decoded", "rejected", "accepted", "trying", "waiting",
                "reserved", "whisper", "signal", "dropping", "dropped",
                "left"}

In(states) == {h \in Submissions : http[h] \in states}

(* A request between its two additions to httpAdmitted. *)
Holding == {"refusing", "admitted", "decoded", "accepted", "trying",
            "waiting", "reserved", "dropping"}
Holders == In(Holding)

(* Requests that are admitted but not yet transcribing. *)
Queued   == {"admitted", "decoded", "accepted", "trying", "waiting"}
Admitted == In(Queued)

Counted == {"reserved", "whisper"}
HTTPTranscribing  == In(Counted)
LocalTranscribing == {c \in Locals : local[c] = "whisper"}
Signalling == \/ \E c \in Locals : local[c] = "signal"
              \/ In({"signal"}) # {}

TypeOK ==
    /\ ctxDone \in BOOLEAN
    /\ local \in [Locals -> LocalStates]
    /\ http \in [Submissions -> HTTPStates]
    /\ httpAdmitted \in Nat
    /\ ongoing \in Nat
    /\ idle \in BOOLEAN

Init ==
    /\ ctxDone = FALSE
    /\ local = [c \in Locals |-> "recording"]
    /\ http = [h \in Submissions |-> "new"]
    /\ httpAdmitted = 0 /\ ongoing = 0 /\ idle = FALSE

LocalGoes(c, from, to) == local[c] = from /\ local' = [local EXCEPT ![c] = to]
HTTPGoes(h, from, to)  == http[h] = from /\ http' = [http EXCEPT ![h] = to]

-----------------------------------------------------------------------------
(* Local clips. *)

(* transcribe: a short clip has no Whisper request. *)
LocalShort(c) ==
    /\ LocalGoes(c, "recording", "left")
    /\ UNCHANGED <<ctxDone, http, httpAdmitted, ongoing, idle>>

LocalLong(c) ==
    /\ LocalGoes(c, "recording", "whisper")
    /\ ongoing' = ongoing + 1
    /\ UNCHANGED <<ctxDone, http, httpAdmitted, idle>>

(* Add(-1) when Whisper has answered or failed; the last transcription     *)
(* goes on to announce that none is running.                               *)
LocalWhisperReturns(c) ==
    /\ LocalGoes(c, "whisper", IF ongoing = 1 THEN "signal" ELSE "left")
    /\ ongoing' = ongoing - 1
    /\ UNCHANGED <<ctxDone, http, httpAdmitted, idle>>

LocalSignals(c) ==
    /\ LocalGoes(c, "signal", "left")
    /\ idle' = TRUE
    /\ UNCHANGED <<ctxDone, http, httpAdmitted, ongoing>>

-----------------------------------------------------------------------------
(* HTTP submissions. *)

(* handleHTTP up to the check of the context.  A request it turns away     *)
(* there, or for its path, method or environment, changes nothing and      *)
(* stays "new".                                                            *)
Arrive(h) ==
    /\ ~ctxDone
    /\ HTTPGoes(h, "new", "arrived")
    /\ UNCHANGED <<ctxDone, local, httpAdmitted, ongoing, idle>>

(* Add(1), which takes a slot even when it refuses. *)
Admit(h) ==
    /\ HTTPGoes(h, "arrived",
                IF httpAdmitted + 1 > MaxHTTPAdmitted THEN "refusing"
                ELSE "admitted")
    /\ httpAdmitted' = httpAdmitted + 1
    /\ UNCHANGED <<ctxDone, local, ongoing, idle>>

(* Add(-1), after which the request is only answered. *)
Refuse(h) ==
    /\ HTTPGoes(h, "refusing", "refused")
    /\ httpAdmitted' = httpAdmitted - 1
    /\ UNCHANGED <<ctxDone, local, ongoing, idle>>

(* The body is read and decoded, and the context is checked again. *)
Decode(h) ==
    /\ ~ctxDone
    /\ HTTPGoes(h, "admitted", "decoded")
    /\ UNCHANGED <<ctxDone, local, httpAdmitted, ongoing, idle>>

(* Mutant: the handler answers and keeps the slot. *)
RejectKeepsSlot(h) ==
    /\ HTTPGoes(h, "admitted", "rejected")
    /\ UNCHANGED <<ctxDone, local, httpAdmitted, ongoing, idle>>

(* The deferred release: the content type, the body or the audio was       *)
(* refused, the daemon is shutting down, or the session was not made.      *)
Reject(h) ==
    /\ \E stage \in {"admitted", "decoded"} : HTTPGoes(h, stage, "rejected")
    /\ httpAdmitted' = httpAdmitted - 1
    /\ UNCHANGED <<ctxDone, local, ongoing, idle>>

(* Mutant: the deferred release also runs for an accepted clip. *)
AcceptReleasesSlot(h) ==
    /\ HTTPGoes(h, "decoded", "accepted")
    /\ httpAdmitted' = httpAdmitted - 1
    /\ UNCHANGED <<ctxDone, local, ongoing, idle>>

(* The clip has its ID; its slot now belongs to the goroutine. *)
Accept(h) ==
    /\ HTTPGoes(h, "decoded", "accepted")
    /\ UNCHANGED <<ctxDone, local, httpAdmitted, ongoing, idle>>

HTTPShort(h) ==
    /\ HTTPGoes(h, "accepted", "left")
    /\ httpAdmitted' = httpAdmitted - 1
    /\ UNCHANGED <<ctxDone, local, ongoing, idle>>

HTTPLong(h) ==
    /\ HTTPGoes(h, "accepted", "trying")
    /\ UNCHANGED <<ctxDone, local, httpAdmitted, ongoing, idle>>

(* Mutant: the counter is increased whatever it is. *)
ReserveAlways(h) ==
    /\ HTTPGoes(h, "trying", "reserved")
    /\ ongoing' = ongoing + 1
    /\ UNCHANGED <<ctxDone, local, httpAdmitted, idle>>

(* CompareAndSwap(0, 1). *)
Reserve(h) ==
    /\ ongoing = 0
    /\ HTTPGoes(h, "trying", "reserved")
    /\ ongoing' = 1
    /\ UNCHANGED <<ctxDone, local, httpAdmitted, idle>>

MustWait(h) ==
    /\ ongoing # 0
    /\ HTTPGoes(h, "trying", "waiting")
    /\ UNCHANGED <<ctxDone, local, httpAdmitted, ongoing, idle>>

(* The select: the idle value, or the cancelled context. *)
WakeUp(h) ==
    /\ idle
    /\ HTTPGoes(h, "waiting", "trying")
    /\ idle' = FALSE
    /\ UNCHANGED <<ctxDone, local, httpAdmitted, ongoing>>

GiveUp(h) ==
    /\ ctxDone
    /\ HTTPGoes(h, "waiting", "dropping")
    /\ UNCHANGED <<ctxDone, local, httpAdmitted, ongoing, idle>>

ReleaseAndDrop(h) ==
    /\ HTTPGoes(h, "dropping", "dropped")
    /\ httpAdmitted' = httpAdmitted - 1
    /\ UNCHANGED <<ctxDone, local, ongoing, idle>>

ReleaseAndTranscribe(h) ==
    /\ HTTPGoes(h, "reserved", "whisper")
    /\ httpAdmitted' = httpAdmitted - 1
    /\ UNCHANGED <<ctxDone, local, ongoing, idle>>

(* Mutant: an HTTP transcription ends without announcing it. *)
HTTPWhisperReturnsSilently(h) ==
    /\ HTTPGoes(h, "whisper", "left")
    /\ ongoing' = ongoing - 1
    /\ UNCHANGED <<ctxDone, local, httpAdmitted, idle>>

HTTPWhisperReturns(h) ==
    /\ HTTPGoes(h, "whisper", IF ongoing = 1 THEN "signal" ELSE "left")
    /\ ongoing' = ongoing - 1
    /\ UNCHANGED <<ctxDone, local, httpAdmitted, idle>>

HTTPSignals(h) ==
    /\ HTTPGoes(h, "signal", "left")
    /\ idle' = TRUE
    /\ UNCHANGED <<ctxDone, local, httpAdmitted, ongoing>>

-----------------------------------------------------------------------------
Cancel ==
    /\ ~ctxDone /\ ctxDone' = TRUE
    /\ UNCHANGED <<local, http, httpAdmitted, ongoing, idle>>

(* Steps of a goroutine once its clip is there; arrivals are not.          *)
LocalRuns(c) == LocalWhisperReturns(c) \/ LocalSignals(c)

Answers(h) == Admit(h) \/ Refuse(h) \/ Decode(h) \/ Reject(h) \/ Accept(h)

Queues(h) == Reserve(h) \/ MustWait(h) \/ WakeUp(h) \/ GiveUp(h)

HTTPRuns(h) ==
    \/ Answers(h) \/ HTTPShort(h) \/ HTTPLong(h) \/ Queues(h)
    \/ ReleaseAndDrop(h) \/ ReleaseAndTranscribe(h)
    \/ HTTPWhisperReturns(h) \/ HTTPSignals(h)

(* Every clip and request has come to its end, or a request never came.    *)
Terminated ==
    /\ \A c \in Locals : local[c] = "left"
    /\ In({"new", "refused", "rejected", "dropped", "left"}) = Submissions
    /\ UNCHANGED vars

Next ==
    \/ \E c \in Locals : LocalShort(c) \/ LocalLong(c) \/ LocalRuns(c)
    \/ \E h \in Submissions : Arrive(h) \/ HTTPRuns(h)
    \/ Cancel
    \/ Terminated

Spec == Init /\ [][Next]_vars

(* Goroutines run and Whisper requests end (they have a timeout, or the    *)
(* server answers).  Nothing is assumed of arrivals.                       *)
Fairness ==
    /\ \A c \in Locals : WF_vars(LocalRuns(c))
    /\ \A h \in Submissions : WF_vars(HTTPRuns(h))

FairSpec == Spec /\ Fairness

-----------------------------------------------------------------------------
(* Properties. *)

(* The counter equals the requests that hold a slot: no path of the        *)
(* handler or of its goroutine leaks a slot or releases it twice.          *)
SlotsCounted == httpAdmitted = Cardinality(Holders)

(* "At most two HTTP requests may be admitted but not yet transcribing".   *)
AdmissionBound == Cardinality(Admitted) <= MaxHTTPAdmitted

(* The counter that status reports and that waiters compare with zero is   *)
(* the number of transcriptions, whoever started them.                     *)
OngoingCounted ==
    ongoing = Cardinality(LocalTranscribing) + Cardinality(HTTPTranscribing)

(* "HTTP Whisper requests run one at a time."                              *)
OneHTTPTranscription ==
    \A g, h \in HTTPTranscribing : g = h

(* The atomics are exact, and what is decided by them keeps to its bounds. *)
CountersExact == SlotsCounted /\ OngoingCounted /\ AdmissionBound /\ OneHTTPTranscription

(* A waiter that could go on has a wake-up in the channel or on its way:   *)
(* the channel holds one value and is sent to without blocking, so no      *)
(* order of endings and new transcriptions strands it.                     *)
NoLostWakeup ==
    ongoing = 0 /\ In({"waiting"}) # {} =>
        idle \/ Signalling \/ In({"trying"}) # {}

(* "An HTTP transcription waits for local transcriptions already in        *)
(* flight."                                                                *)
StartsAlone ==
    \A h \in Submissions :
        http[h] = "trying" /\ http'[h] = "reserved" => LocalTranscribing = {}
HTTPWaitsForLocal == [][StartsAlone]_vars

(* A waiting clip is transcribed or, at shutdown, dropped: two waiters do  *)
(* not starve each other, and no ending is missed.  Locals is finite here; *)
(* local transcriptions that overlap without end would starve a waiter.    *)
WaitersProceed ==
    \A h \in Submissions :
        http[h] = "waiting" ~> http[h] \in {"reserved", "dropping"}

(* "additional requests receive `503 Service Unavailable`": a request is   *)
(* refused only when two others are admitted.                              *)
RefusedOnlyWhenFull ==
    [][ \A h \in Submissions :
          http[h] = "arrived" /\ http'[h] = "refusing"
            => Cardinality(Admitted) >= MaxHTTPAdmitted ]_vars
=============================================================================

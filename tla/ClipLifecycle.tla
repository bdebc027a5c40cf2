--------------------------- MODULE ClipLifecycle ---------------------------
(***************************************************************************)
(* What the daemon promises about clips, as its clients can see it:        *)
(* recording is sequential, every accepted start and HTTP submission takes *)
(* the next clip ID, a clip belongs to the origin that started it, a clip  *)
(* that is being stopped is finalized rather than replaced, and stopping   *)
(* comes to an end.  Nothing is said of locks, timers or the microphone.   *)
(***************************************************************************)
EXTENDS Naturals, Sequences

CONSTANTS Origins, NoOrigin, MaxClips

VARIABLES
    nextId,    \* the ID the next clip takes
    current,   \* the clip being recorded; 0: none
    holder,    \* the origin that started it
    stopping,  \* its owner has asked to stop it
    finalized  \* clips given to transcription, in order

lifecycle == <<nextId, current, holder, stopping, finalized>>

Idle == current = 0 /\ holder = NoOrigin /\ stopping = FALSE
LifecycleInit == Idle /\ nextId = 1 /\ finalized = <<>>

Record(o) ==
    /\ nextId <= MaxClips /\ nextId' = nextId + 1
    /\ current' = nextId /\ holder' = o /\ stopping' = FALSE

GoIdle == current' = 0 /\ holder' = NoOrigin /\ stopping' = FALSE

(* A start begins the next clip.                                           *)
Begin(o) == current = 0 /\ Record(o) /\ UNCHANGED finalized

(* The owner's next start; a clip that is being stopped is kept.           *)
Replace(o) ==
    /\ current # 0 /\ holder = o
    /\ Record(o)
    /\ finalized' = IF stopping THEN Append(finalized, current) ELSE finalized

AskStop ==
    /\ current # 0 /\ ~stopping /\ stopping' = TRUE
    /\ UNCHANGED <<nextId, current, holder, finalized>>

(* The clip is complete: stopped, or as long as it may get.                *)
Complete ==
    /\ current # 0
    /\ finalized' = Append(finalized, current)
    /\ GoIdle /\ UNCHANGED nextId

(* The clip is lost: capture failed, or the daemon shuts down.             *)
Abandon == current # 0 /\ GoIdle /\ UNCHANGED <<nextId, finalized>>

(* An HTTP submission takes an ID of its own.                              *)
Reserve ==
    /\ nextId <= MaxClips /\ nextId' = nextId + 1
    /\ UNCHANGED <<current, holder, stopping, finalized>>

LifecycleNext ==
    \/ \E o \in Origins : Begin(o) \/ Replace(o)
    \/ AskStop \/ Complete \/ Abandon \/ Reserve

Lifecycle == LifecycleInit /\ [][LifecycleNext]_lifecycle

(* A clip that is being stopped does not stay so.                          *)
FairLifecycle == Lifecycle /\ WF_lifecycle(stopping /\ (Complete \/ Abandon))
=============================================================================

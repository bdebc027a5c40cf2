-------------------------- MODULE RecordingProofs --------------------------
(***************************************************************************)
(* Proofs about Recording, for every set of origins, every configuration   *)
(* and every bound.  The invariants are proved one on top of another:      *)
(* types first, then what relates the lock's variables to each other, then *)
(* the stream manager, then the history of the clips.                      *)
(***************************************************************************)
EXTENDS Recording, TLAPS

(* Every goroutine leaves most of the state alone.                         *)
USE DEF vars, cfgVars, lifeVars, sessionVars, stopVars, warmVars, desireVars, mgrVars,
        histVars

-----------------------------------------------------------------------------
(* Type correctness.  Types alone are not inductive.  A start in flight    *)
(* must find a clip ID left (Request and AcceptHTTP leave it one), and a   *)
(* capture failure must find a session to drop.                            *)
StartHasClip == request.cmd = "start" => nextClip <= MaxClips

TypeInv == TypeOK /\ StartHasClip /\ RecordingHasSession

LEMMA TypeInit == Init => TypeInv
<1> SUFFICES ASSUME Init PROVE TypeInv
  OBVIOUS
<1>1. NoRequest \in Requests /\ NoRequest.cmd # "start"
  BY DEF NoRequest, Requests
<1>2. <<>> \in Seq(ClipIDs)
  OBVIOUS
<1>3. 1 \in 1..(MaxClips + 1) /\ 0 \in 0..MaxClips /\ 0 \in 0..MaxExpired
  BY BoundsAssumption
<1> QED
  BY <1>1, <1>2, <1>3
  DEF Init, TypeInv, TypeOK, StartHasClip, RecordingHasSession, States

(* What the critical sections share.                                       *)
LEMMA CancelTypes ==
    ASSUME TypeInv, CancelPendingStop
    PROVE  /\ pendingStopClip' \in 0..MaxClips /\ stopTimer' \in 0..MaxClips
           /\ stopArmed' \in SUBSET ClipIDs
  BY BoundsAssumption DEF TypeInv, TypeOK, CancelPendingStop

LEMMA HandOverTypes ==
    ASSUME TypeInv, active # NoSession
    PROVE  /\ active \in Session /\ active.id \in ClipIDs
           /\ Append(handed, active.id) \in Seq(ClipIDs)
  BY DEF TypeInv, TypeOK, Session

LEMMA StopActiveTypes ==
    ASSUME TypeInv, StopActiveSession, active # NoSession,
           UNCHANGED <<lifeVars, nextClip, warmExpired, mgrVars, replaced,
                       failed, submitted, limited>>,
           request' \in Requests, request'.cmd # "start" \/ request' = request,
           stopExpired' \in SUBSET ClipIDs, asked' \in SUBSET ClipIDs
    PROVE  TypeInv'
  BY CancelTypes, HandOverTypes
  DEF TypeInv, TypeOK, StartHasClip, RecordingHasSession, StopActiveSession,
      DesireStream, States

LEMMA TypeStep ==
    ASSUME TypeInv, [Next]_vars
    PROVE  TypeInv'
<1> USE DEF TypeInv, TypeOK, StartHasClip, RecordingHasSession
<1>1. ASSUME NEW cmd \in {"start", "stop"}, NEW o \in Callers, Request(cmd, o)
      PROVE  TypeInv'
  BY <1>1, BoundsAssumption DEF Request, Requests, NoRequest, ClipsLeft
<1>2. CASE RejectStart
  BY <1>2 DEF RejectStart, Requests, NoRequest
<1>3. CASE Start
  <2>1. active' \in Session /\ nextClip' \in 1..(MaxClips + 1)
    BY <1>3, ConfigAssumption, BoundsAssumption
    DEF Start, MayStart, Session, ClipIDs, DurationBound, Requests, NoRequest,
        Callers
  <2>2. handed' \in Seq(ClipIDs) /\ replaced' \in SUBSET ClipIDs
    BY <1>3, HandOverTypes DEF Start, EndPrevious
  <2>3. active' # NoSession
    BY <1>3, BoundsAssumption DEF Start, NoSession
  <2> QED
    BY <1>3, <2>1, <2>2, <2>3, CancelTypes
    DEF Start, DesireStream, Requests, NoRequest, States
<1>4. CASE StopIgnored
  <2>1. asked' \in SUBSET ClipIDs
    BY <1>4, HandOverTypes DEF StopIgnored, AskedBy
  <2> QED
    BY <1>4, <2>1 DEF StopIgnored, Requests, NoRequest
<1>5. CASE StopDelayed
  <2>1. asked' \in SUBSET ClipIDs /\ active.id \in ClipIDs
    BY <1>5, HandOverTypes DEF StopDelayed, AskedBy, MayStop
  <2>2. active.id \in 0..MaxClips
    BY <2>1, BoundsAssumption DEF ClipIDs
  <2>3. stopArmed \cup {active.id} \in SUBSET ClipIDs
    BY <2>1
  <2> QED
    BY <1>5, <2>1, <2>2, <2>3 DEF StopDelayed, Requests, NoRequest
<1>6. CASE StopNow
  <2>1. asked' \in SUBSET ClipIDs
    BY <1>6, HandOverTypes DEF StopNow, AskedBy
  <2> QED
    BY <1>6, <2>1, StopActiveTypes
    DEF StopNow, MayStop, Requests, NoRequest
<1>7. CASE AcceptHTTP
  BY <1>7, BoundsAssumption DEF AcceptHTTP, ClipsLeft, ClipIDs
<1>8. ASSUME NEW c \in ClipIDs, StopTimerExpires(c)
      PROVE  TypeInv'
  BY <1>8 DEF StopTimerExpires
<1>9. ASSUME NEW c \in ClipIDs, StopTimerFires(c)
      PROVE  TypeInv'
  <2>1. CASE StopStillMeant(c)
    <3>1. active # NoSession
      BY <2>1, BoundsAssumption DEF StopStillMeant, NoSession, ClipIDs
    <3> QED
      BY <1>9, <2>1, <3>1, StopActiveTypes DEF StopTimerFires
  <2>2. CASE ~StopStillMeant(c)
    BY <1>9, <2>2 DEF StopTimerFires
  <2> QED
    BY <2>1, <2>2
<1>10. CASE WarmTimerExpires
  <2>1. warmExpired' \in 0..MaxExpired
    BY <1>10, BoundsAssumption DEF WarmTimerExpires
  <2> QED
    BY <1>10, <2>1 DEF WarmTimerExpires
<1>11. CASE WarmTimerFires
  <2>1. warmExpired' \in 0..MaxExpired
    BY <1>11, BoundsAssumption DEF WarmTimerFires
  <2>2. CASE active = NoSession
    BY <1>11, <2>1, <2>2
    DEF WarmTimerFires, WarmCallback, DesireStream, States
  <2>3. CASE active # NoSession
    BY <1>11, <2>1, <2>3 DEF WarmTimerFires, WarmCallback
  <2> QED
    BY <2>2, <2>3
<1>12. CASE AudioAppended
  <2> DEFINE longer == active.duration + 1
  <2>1. active \in Session
    BY <1>12, HandOverTypes DEF AudioAppended, Capturing
  <2>2. longer \in 0..DurationBound
    BY <1>12, <2>1, ConfigAssumption, BoundsAssumption
    DEF AudioAppended, LimitReached, Session, DurationBound
  <2>3. active' = [id |-> active.id, origin |-> active.origin, duration |-> longer]
    BY <1>12, <2>1 DEF AudioAppended, Session
  <2> HIDE DEF longer
  <2>4. active' \in Session
    BY <2>1, <2>2, <2>3 DEF Session
  <2>5. active' # NoSession
    BY <2>1, <2>3, BoundsAssumption DEF Session, NoSession, ClipIDs
  <2> QED
    BY <1>12, <2>4, <2>5 DEF AudioAppended, Capturing
<1>13. CASE AudioReachesLimit
  BY <1>13, HandOverTypes, CancelTypes
  DEF AudioReachesLimit, Capturing, EndSessionInCallback, DesireStream, States
<1>14. CASE AudioFails
  BY <1>14, HandOverTypes, CancelTypes
  DEF AudioFails, Capturing, EndSessionInCallback, DesireStream, States
<1>15. CASE MgrWake
  BY <1>15 DEF MgrWake
<1>16. CASE MgrExit
  BY <1>16 DEF MgrExit
<1>17. CASE MgrRead
  BY <1>17 DEF MgrRead
<1>18. CASE MgrClose \/ MgrOpen \/ MgrStop \/ MgrStart \/ MgrFailureStale
            \/ MgrAbandon
  BY <1>18 DEF MgrClose, MgrOpen, MgrStop, MgrStart, MgrFailureStale,
               MgrAbandon, DeviceStep, GoTo, States
<1>19. CASE WarmFailed
  BY <1>19 DEF WarmFailed, GoTo, States
<1>20. CASE RecordingFailed
  BY <1>20, CancelTypes, HandOverTypes DEF RecordingFailed, GoTo, States
<1>21. CASE Cancel
  BY <1>21 DEF Cancel
<1>22. CASE Shutdown
  BY <1>22, CancelTypes DEF Shutdown, DesireStream, States
<1>23. CASE EndProcess
  BY <1>23 DEF EndProcess
<1>24. CASE UNCHANGED vars
  BY <1>24
<1> QED
  BY <1>1, <1>2, <1>3, <1>4, <1>5, <1>6, <1>7, <1>8, <1>9, <1>10, <1>11,
     <1>12, <1>13, <1>14, <1>15, <1>16, <1>17, <1>18, <1>19, <1>20, <1>21,
     <1>22, <1>23, <1>24
  DEF Next, Step, Handler, Audio, Manager, Exit, ShutdownTimeout, Terminated

THEOREM TypeInvariant == Spec => []TypeInv
  BY TypeInit, TypeStep, PTL DEF Spec

(* Every behaviour is well typed.                                          *)
THEOREM TypeCorrect == Spec => []TypeOK
  BY TypeInvariant, PTL DEF TypeInv

(* The stream is wanted for recording exactly while a session is active, so*)
(* the failure paths of streamManager never dereference a nil session.     *)
THEOREM NoNilSession == Spec => []RecordingHasSession
  BY TypeInvariant, PTL DEF TypeInv

-----------------------------------------------------------------------------
(* The pending stop.  A callback that finds its clip pending finds it      *)
(* active too, so the test that makes stale callbacks harmless never       *)
(* drops the stop it was meant for.                                        *)

LEMMA PendingStopStep ==
    ASSUME TypeInv, PendingStopIsLive, [Next]_vars
    PROVE  PendingStopIsLive'
<1> USE DEF PendingStopIsLive
<1> DEFINE Untouched == UNCHANGED <<active, pendingStopClip, stopTimer>>
                        /\ UNCHANGED <<stopArmed, stopExpired>>
<1>1. CASE Untouched
  BY <1>1
<1>2. CASE CancelPendingStop
  BY <1>2 DEF CancelPendingStop
<1>3. CASE StopDelayed
  BY <1>3 DEF StopDelayed
<1>4. ASSUME NEW c \in ClipIDs, StopTimerExpires(c)
      PROVE  PendingStopIsLive'
  BY <1>4 DEF StopTimerExpires
<1>5. ASSUME NEW c \in ClipIDs, StopTimerFires(c)
      PROVE  PendingStopIsLive'
  <2>1. CASE StopStillMeant(c)
    BY <1>5, <2>1, <1>2 DEF StopTimerFires, StopActiveSession
  <2>2. CASE ~StopStillMeant(c)
    <3>1. pendingStopClip # 0 => pendingStopClip # c
      BY <2>2 DEF StopStillMeant
    <3> QED
      BY <1>5, <2>2, <3>1 DEF StopTimerFires
  <2> QED
    BY <2>1, <2>2
<1>6. CASE AudioAppended
  <2>1. active'.id = active.id
    BY <1>6, HandOverTypes DEF AudioAppended, Capturing, Session
  <2> QED
    BY <1>6, <2>1 DEF AudioAppended
<1>7. CASE Start \/ StopNow \/ AudioReachesLimit \/ AudioFails
           \/ RecordingFailed \/ Shutdown
  BY <1>7, <1>2
  DEF Start, StopNow, StopActiveSession, AudioReachesLimit, AudioFails,
      EndSessionInCallback, RecordingFailed, Shutdown
<1>8. ASSUME NEW cmd \in {"start", "stop"}, NEW o \in Callers, Request(cmd, o)
      PROVE  Untouched
  BY <1>8 DEF Request
<1>9. CASE RejectStart \/ StopIgnored \/ AcceptHTTP \/ WarmTimerExpires
           \/ WarmTimerFires \/ Cancel \/ EndProcess \/ UNCHANGED vars
  <2>1. Untouched
    BY <1>9 DEF RejectStart, StopIgnored, AcceptHTTP, WarmTimerExpires,
                WarmTimerFires, Cancel, EndProcess
  <2> QED
    BY <1>1, <2>1
<1>10. CASE Manager /\ ~RecordingFailed
  <2>1. Untouched
    BY <1>10 DEF Manager, MgrWake, MgrExit, MgrRead, MgrClose, MgrOpen,
                 MgrStop, MgrStart, MgrFailureStale, WarmFailed, MgrAbandon,
                 DeviceStep
  <2> QED
    BY <1>1, <2>1
<1> HIDE DEF Untouched, PendingStopIsLive
<1> QED
  BY <1>1, <1>3, <1>4, <1>5, <1>6, <1>7, <1>8, <1>9, <1>10
  DEF Next, Step, Handler, Audio, Manager, Exit, ShutdownTimeout, Terminated

(* A delayed stop always has its timer running or its callback waiting.    *)
THEOREM DelayedStopLives == Spec => []PendingStopIsLive
<1>1. Init => PendingStopIsLive
  BY DEF Init, PendingStopIsLive
<1> QED
  BY <1>1, TypeInvariant, PendingStopStep, PTL DEF Spec

-----------------------------------------------------------------------------
(* Shutdown.  No request is in flight once it has run, because serve waits *)
(* for the acknowledgement; and every callback finds no session.           *)

ShutdownInv ==
    phase # "serving" =>
        /\ ctxDone /\ request = NoRequest
        /\ active = NoSession /\ desired = "off"

LEMMA ShutdownStep ==
    ASSUME TypeInv, ShutdownInv, [Next]_vars
    PROVE  ShutdownInv'
<1> USE DEF ShutdownInv
<1>0. NoSession.id = 0 /\ NoRequest.cmd = "none"
  BY DEF NoSession, NoRequest
<1>1. ASSUME NEW cmd \in {"start", "stop"}, NEW o \in Callers, Request(cmd, o)
      PROVE  ShutdownInv'
  BY <1>1 DEF Request
<1>2. CASE Handler
  BY <1>0, <1>2 DEF Handler, RejectStart, Start, StopIgnored, StopDelayed, StopNow
<1>3. CASE AcceptHTTP \/ WarmTimerExpires \/ Cancel \/ UNCHANGED vars
  BY <1>3 DEF AcceptHTTP, WarmTimerExpires, Cancel
<1>4. ASSUME NEW c \in ClipIDs, StopTimerExpires(c) \/ StopTimerFires(c)
      PROVE  ShutdownInv'
  <2>1. c # 0
    BY BoundsAssumption DEF ClipIDs
  <2> QED
    BY <1>0, <1>4, <2>1 DEF StopTimerExpires, StopTimerFires, StopStillMeant
<1>5. CASE WarmTimerFires
  BY <1>5 DEF WarmTimerFires, WarmCallback, DesireStream
<1>6. CASE Audio
  BY <1>6 DEF Audio, AudioAppended, AudioReachesLimit, AudioFails, Capturing
<1>7. CASE Manager
  BY <1>7 DEF Manager, MgrWake, MgrExit, MgrRead, MgrClose, MgrOpen, MgrStop,
              MgrStart, MgrFailureStale, WarmFailed, RecordingFailed,
              MgrAbandon, DeviceStep
<1>8. CASE Shutdown
  BY <1>8 DEF Shutdown, ServeReturns, DesireStream
<1>9. CASE Exit \/ ShutdownTimeout
  BY <1>9 DEF Exit, ShutdownTimeout, EndProcess
<1> QED
  BY <1>1, <1>2, <1>3, <1>4, <1>5, <1>6, <1>7, <1>8, <1>9
  DEF Next, Step, Terminated

(* After shutdown has released the lock nothing records again.             *)
THEOREM ShutdownIsFinal == Spec => []NothingAfterShutdown
<1>1. Init => ShutdownInv
  BY DEF Init, ShutdownInv
<1>2. ShutdownInv => NothingAfterShutdown
  BY DEF ShutdownInv, NothingAfterShutdown
<1> QED
  BY <1>1, <1>2, TypeInvariant, ShutdownStep, PTL DEF Spec

-----------------------------------------------------------------------------
(* The stream manager.  While it works on a copy of the desired state, the *)
(* copy is current or a signal tells it to look again.                     *)

Wanted == [off |-> "closed", warm |-> "stopped", recording |-> "started"]

ManagerInv ==
    /\ mgrPC = "wait" => signal \/ stream = Wanted[desired]
    /\ mgrPC \in {"apply", "failed"} => signal \/ desired = mgrDesired
    /\ mgrPC = "abandon" => signal \/ desired = "off"

LEMMA ManagerStep ==
    ASSUME TypeInv, ManagerInv, [Next]_vars
    PROVE  ManagerInv'
<1> USE DEF ManagerInv
<1>0. /\ Wanted["off"] = "closed" /\ Wanted["warm"] = "stopped"
      /\ Wanted["recording"] = "started"
  BY DEF Wanted
<1>1. CASE UNCHANGED <<mgrVars, desireVars>>
  BY <1>1
<1>2. CASE \E s \in States : DesireStream(s) /\ UNCHANGED mgrVars
  BY <1>2 DEF DesireStream
<1>3. CASE MgrWake \/ MgrExit \/ MgrRead
  BY <1>3 DEF MgrWake, MgrExit, MgrRead
<1>4. CASE MgrClose \/ MgrOpen \/ MgrStop \/ MgrStart
  BY <1>0, <1>4 DEF MgrClose, MgrOpen, MgrStop, MgrStart, DeviceStep, GoTo
<1>5. CASE MgrFailureStale \/ MgrAbandon
  BY <1>0, <1>5 DEF MgrFailureStale, MgrAbandon, DeviceStep, GoTo
<1>6. CASE WarmFailed \/ RecordingFailed
  BY <1>0, <1>6 DEF WarmFailed, RecordingFailed, GoTo
<1> DEFINE Quiet   == UNCHANGED <<mgrVars, desireVars>>
           Desires == \E s \in States : DesireStream(s) /\ UNCHANGED mgrVars
<1>7. ASSUME NEW cmd \in {"start", "stop"}, NEW o \in Callers, Request(cmd, o)
      PROVE  Quiet
  BY <1>7 DEF Request
<1>8. CASE Handler
  <2>1. Quiet \/ Desires
    BY <1>8 DEF Handler, RejectStart, Start, StopIgnored, StopDelayed, StopNow,
                StopActiveSession, States
  <2> QED
    BY <1>1, <1>2, <2>1
<1>9. ASSUME NEW c \in ClipIDs, StopTimerExpires(c) \/ StopTimerFires(c)
      PROVE  Quiet \/ Desires
  BY <1>9 DEF StopTimerExpires, StopTimerFires, StopActiveSession, States
<1>10. CASE WarmTimerExpires \/ WarmTimerFires
  <2>1. Quiet \/ Desires
    BY <1>10 DEF WarmTimerExpires, WarmTimerFires, WarmCallback, States
  <2> QED
    BY <1>1, <1>2, <2>1
<1>11. CASE Audio \/ AcceptHTTP \/ Cancel \/ Shutdown \/ EndProcess
            \/ UNCHANGED vars
  <2>1. Quiet \/ Desires
    BY <1>11 DEF Audio, AudioAppended, AudioReachesLimit, AudioFails,
                 EndSessionInCallback, AcceptHTTP, Cancel, Shutdown,
                 EndProcess, States
  <2> QED
    BY <1>1, <1>2, <2>1
<1> HIDE DEF Quiet, Desires, ManagerInv
<1>12. ASSUME Quiet \/ Desires PROVE ManagerInv'
  BY <1>1, <1>2, <1>12 DEF Quiet, Desires
<1> QED
  BY <1>3, <1>4, <1>5, <1>6, <1>7, <1>8, <1>9, <1>10, <1>11, <1>12
  DEF Next, Step, Manager, Exit, ShutdownTimeout, Terminated

(* With the manager back at its select and no signal left, the device is   *)
(* in the state that status reports, whatever was coalesced on the way.    *)
THEOREM StreamSettles == Spec => []StreamSettled
<1>1. Init => ManagerInv
  BY DEF Init, ManagerInv, Wanted
<1>2. TypeInv /\ ManagerInv => StreamSettled
  BY DEF TypeInv, TypeOK, States, RecordingHasSession, ManagerInv, Wanted,
         StreamSettled, StatusState, DeviceOf
<1> QED
  BY <1>1, <1>2, TypeInvariant, ManagerStep, PTL DEF Spec

-----------------------------------------------------------------------------
(* The history of the clips: what start, the stop timer, the limit, the    *)
(* failure paths and HTTP do to the clip they find, over all interleavings.*)

Elements(seq) == {seq[i] : i \in DOMAIN seq}

LEMMA AppendedElements ==
    ASSUME NEW S, NEW seq \in Seq(S), NEW e \in S
    PROVE  Elements(Append(seq, e)) = Elements(seq) \cup {e}
<1>1. DOMAIN Append(seq, e) = 1..(Len(seq) + 1) /\ DOMAIN seq = 1..Len(seq)
  OBVIOUS
<1>2. \A i \in 1..Len(seq) : Append(seq, e)[i] = seq[i]
  OBVIOUS
<1>3. Append(seq, e)[Len(seq) + 1] = e
  OBVIOUS
<1>4. 1..(Len(seq) + 1) = 1..Len(seq) \cup {Len(seq) + 1}
  OBVIOUS
<1> QED
  BY <1>1, <1>2, <1>3, <1>4, Zenon DEF Elements

Increasing(seq) == \A i, j \in DOMAIN seq : i < j => seq[i] < seq[j]

LEMMA AppendedIncreasing ==
    ASSUME NEW S, NEW seq \in Seq(S), NEW e \in S, Increasing(seq),
           \A x \in Elements(seq) : x < e
    PROVE  Increasing(Append(seq, e))
<1>1. \A i \in 1..Len(seq) : seq[i] < e
  BY DEF Elements
<1> QED
  BY <1>1 DEF Increasing

Known   == 1..(nextClip - 1)
Settled == HandedSet \cup replaced \cup failed \cup submitted

(* Every ID belongs to one clip and every clip has one fate; a clip whose  *)
(* owner asked to stop it is pending, finalized or lost with an error.     *)
FatesInv ==
    /\ Settled \subseteq Known
    /\ active # NoSession => active.id \in Known /\ active.id \notin Settled
    /\ HandedSet \cap (replaced \cup failed \cup submitted) = {}
    /\ replaced \cap (failed \cup submitted) = {}
    /\ failed \cap submitted = {}
    /\ phase = "serving" => Known \subseteq Settled \cup {active.id}

OrderInv ==
    /\ Increasing(handed)
    /\ active # NoSession => \A x \in HandedSet : x < active.id

AskedInv ==
    /\ asked \subseteq Known
    /\ HandedSet \subseteq asked \cup limited
    /\ asked \cap replaced = {}
    /\ pendingStopClip # 0 => pendingStopClip \in asked
    /\ active # NoSession /\ active.id \in asked => pendingStopClip = active.id

(* The five things a step can do to the clips. *)
HandOver ==   \* the active clip goes to transcription, and none is active
    /\ active # NoSession /\ active' = NoSession
    /\ handed' = Append(handed, active.id)
    /\ UNCHANGED <<nextClip, phase, replaced, failed, submitted>>
Drop ==       \* capture of the active clip failed
    /\ active # NoSession /\ active' = NoSession
    /\ failed' = failed \cup {active.id}
    /\ UNCHANGED <<nextClip, phase, handed, replaced, submitted>>
Keep ==       \* the same clips, with the same fates
    /\ active'.id = active.id
    /\ active' = NoSession <=> active = NoSession
    /\ UNCHANGED <<nextClip, phase, handed, replaced, failed, submitted>>
Discard ==    \* shutdown
    /\ active' = NoSession /\ phase' # "serving"
    /\ UNCHANGED <<nextClip, handed, replaced, failed, submitted>>

LEMMA ClipSteps ==
    ASSUME TypeInv, [Next]_vars
    PROVE  HandOver \/ Drop \/ Keep \/ Discard \/ Start \/ AcceptHTTP
             \/ EndProcess
<1>1. ASSUME NEW cmd \in {"start", "stop"}, NEW o \in Callers, Request(cmd, o)
      PROVE  Keep
  BY <1>1 DEF Request, Keep
<1>2. CASE RejectStart \/ StopIgnored \/ StopDelayed
  BY <1>2 DEF RejectStart, StopIgnored, StopDelayed, Keep
<1>3. CASE StopNow
  BY <1>3 DEF StopNow, MayStop, StopActiveSession, HandOver
<1>4. ASSUME NEW c \in ClipIDs, StopTimerExpires(c) \/ StopTimerFires(c)
      PROVE  HandOver \/ Keep
  <2>1. CASE StopTimerExpires(c)
    BY <2>1 DEF StopTimerExpires, Keep
  <2>2. CASE StopTimerFires(c) /\ StopStillMeant(c)
    <3>1. active # NoSession
      BY <2>2, BoundsAssumption DEF StopStillMeant, NoSession, ClipIDs
    <3> QED
      BY <2>2, <3>1 DEF StopTimerFires, StopActiveSession, HandOver
  <2>3. CASE StopTimerFires(c) /\ ~StopStillMeant(c)
    BY <2>3 DEF StopTimerFires, Keep
  <2> QED
    BY <1>4, <2>1, <2>2, <2>3
<1>5. CASE WarmTimerExpires \/ WarmTimerFires \/ Cancel \/ UNCHANGED vars
  BY <1>5 DEF WarmTimerExpires, WarmTimerFires, Cancel, Keep
<1>6. CASE AudioAppended
  <2>1. active \in Session /\ active.id \in ClipIDs
    BY <1>6, HandOverTypes DEF AudioAppended, Capturing
  <2>2. active'.id = active.id
    BY <1>6, <2>1 DEF AudioAppended, Session
  <2>3. active' # NoSession
    BY <2>1, <2>2, BoundsAssumption DEF NoSession, ClipIDs
  <2> QED
    BY <1>6, <2>2, <2>3 DEF AudioAppended, Capturing, Keep
<1>7. CASE AudioReachesLimit
  BY <1>7 DEF AudioReachesLimit, Capturing, EndSessionInCallback, HandOver
<1>8. CASE AudioFails
  BY <1>8 DEF AudioFails, Capturing, EndSessionInCallback, Drop
<1>9. CASE RecordingFailed
  BY <1>9 DEF RecordingFailed, TypeInv, RecordingHasSession, Drop
<1>10. CASE Manager /\ ~RecordingFailed
  BY <1>10 DEF Manager, MgrWake, MgrExit, MgrRead, MgrClose, MgrOpen, MgrStop,
               MgrStart, MgrFailureStale, WarmFailed, MgrAbandon, DeviceStep,
               Keep
<1>11. CASE Shutdown
  BY <1>11 DEF Shutdown, Discard
<1> QED
  BY <1>1, <1>2, <1>3, <1>4, <1>5, <1>6, <1>7, <1>8, <1>9, <1>10, <1>11
  DEF Next, Step, Handler, Audio, Exit, ShutdownTimeout, Terminated

(* The set of finalized clips after each of them.                          *)
LEMMA HandedAfter ==
    ASSUME TypeInv
    PROVE  /\ handed' = handed => HandedSet' = HandedSet
           /\ handed' = Append(handed, active.id) /\ active # NoSession
                => HandedSet' = HandedSet \cup {active.id}
<1>1. CASE handed' = handed
  BY <1>1 DEF HandedSet
<1>2. CASE handed' = Append(handed, active.id) /\ active # NoSession
  <2>1. handed \in Seq(ClipIDs) /\ active.id \in ClipIDs
    BY <1>2, HandOverTypes DEF TypeInv, TypeOK
  <2>2. Elements(handed') = Elements(handed) \cup {active.id}
    BY <1>2, <2>1, AppendedElements
  <2> QED
    BY <1>2, <2>2 DEF Elements, HandedSet
<1> QED
  BY <1>1, <1>2

(* A start takes a fresh ID, which is larger than any before it.           *)
LEMMA StartTakesFreshID ==
    ASSUME TypeInv, Start
    PROVE  /\ nextClip \in Nat /\ nextClip' = nextClip + 1
           /\ active'.id = nextClip /\ active' # NoSession
           /\ nextClip \notin Known /\ Known' = Known \cup {nextClip}
<1>1. nextClip \in Nat /\ nextClip >= 1
  BY BoundsAssumption DEF TypeInv, TypeOK
<1>2. active'.id = nextClip /\ nextClip' = nextClip + 1
  BY DEF Start
<1>3. active' # NoSession
  BY <1>1, <1>2 DEF NoSession
<1> QED
  BY <1>1, <1>2, <1>3 DEF Known

LEMMA FatesStep ==
    ASSUME TypeInv, FatesInv, [Next]_vars
    PROVE  FatesInv'
<1> USE DEF FatesInv
<1>1. CASE HandOver
  <2>1. HandedSet' = HandedSet \cup {active.id}
    BY <1>1, HandedAfter DEF HandOver
  <2>2. Known' = Known /\ Settled' = Settled \cup {active.id}
    BY <1>1, <2>1 DEF HandOver, Known, Settled
  <2>3. active.id \notin HandedSet \cup replaced \cup failed \cup submitted
    BY <1>1 DEF HandOver, Settled
  <2> QED
    BY <1>1, <2>1, <2>2, <2>3 DEF HandOver
<1>2. CASE Drop
  <2>1. HandedSet' = HandedSet
    BY <1>2, HandedAfter DEF Drop
  <2>2. Known' = Known /\ Settled' = Settled \cup {active.id}
    BY <1>2, <2>1 DEF Drop, Known, Settled
  <2>3. active.id \notin HandedSet \cup replaced \cup failed \cup submitted
    BY <1>2 DEF Drop, Settled
  <2> QED
    BY <1>2, <2>1, <2>2, <2>3 DEF Drop
<1>3. CASE Keep \/ Discard \/ EndProcess
  <2>1. HandedSet' = HandedSet
    BY <1>3, HandedAfter DEF Keep, Discard, EndProcess
  <2>2. Known' = Known /\ Settled' = Settled
    BY <1>3, <2>1 DEF Keep, Discard, EndProcess, Known, Settled
  <2> QED
    BY <1>3, <2>1, <2>2 DEF Keep, Discard, EndProcess
<1>4. CASE AcceptHTTP
  <2>1. HandedSet' = HandedSet
    BY <1>4, HandedAfter DEF AcceptHTTP
  <2>2. nextClip \in Nat /\ nextClip >= 1
    BY BoundsAssumption DEF TypeInv, TypeOK
  <2>3. nextClip \notin Known /\ Known' = Known \cup {nextClip}
    BY <1>4, <2>2 DEF AcceptHTTP, Known
  <2>4. Settled' = Settled \cup {nextClip}
    BY <1>4, <2>1 DEF AcceptHTTP, Settled
  <2>5. nextClip \notin HandedSet \cup replaced \cup failed \cup submitted
    BY <2>3 DEF Settled
  <2>6. active # NoSession => active.id # nextClip
    BY <2>3
  <2> QED
    BY <1>4, <2>1, <2>3, <2>4, <2>5, <2>6 DEF AcceptHTTP
<1>5. CASE Start
  <2>1. nextClip \notin Known /\ Known' = Known \cup {nextClip}
    BY <1>5, StartTakesFreshID
  <2>2. active'.id = nextClip /\ active' # NoSession
    BY <1>5, StartTakesFreshID
  <2>3. nextClip \notin Settled
    BY <2>1
  <2>4. CASE active = NoSession
    <3>1. UNCHANGED <<handed, replaced, failed, submitted, phase>>
      BY <1>5, <2>4 DEF Start, EndPrevious
    <3>2. HandedSet' = HandedSet /\ Settled' = Settled
      BY <3>1, HandedAfter DEF Settled
    <3>3. active.id = 0 /\ 0 \notin Known
      BY <2>4, BoundsAssumption DEF NoSession, Known, TypeInv, TypeOK
    <3> QED
      BY <2>1, <2>2, <2>3, <3>1, <3>2, <3>3
  <2>5. CASE active # NoSession /\ active.id = pendingStopClip
    <3>1. /\ handed' = Append(handed, active.id)
          /\ UNCHANGED <<replaced, failed, submitted, phase>>
      BY <1>5, <2>5 DEF Start, EndPrevious
    <3>2. HandedSet' = HandedSet \cup {active.id}
      BY <2>5, <3>1, HandedAfter
    <3>3. Settled' = Settled \cup {active.id}
      BY <3>1, <3>2 DEF Settled
    <3>4. active.id \notin HandedSet \cup replaced \cup failed \cup submitted
      BY <2>5 DEF Settled
    <3> QED
      BY <2>1, <2>2, <2>3, <2>5, <3>1, <3>2, <3>3, <3>4
  <2>6. CASE active # NoSession /\ active.id # pendingStopClip
    <3>1. /\ replaced' = replaced \cup {active.id}
          /\ UNCHANGED <<handed, failed, submitted, phase>>
      BY <1>5, <2>6 DEF Start, EndPrevious
    <3>2. HandedSet' = HandedSet
      BY <3>1, HandedAfter
    <3>3. Settled' = Settled \cup {active.id}
      BY <3>1, <3>2 DEF Settled
    <3>4. active.id \notin HandedSet \cup replaced \cup failed \cup submitted
      BY <2>6 DEF Settled
    <3> QED
      BY <2>1, <2>2, <2>3, <2>6, <3>1, <3>2, <3>3, <3>4
  <2> QED
    BY <2>4, <2>5, <2>6
<1> QED
  BY ClipSteps, <1>1, <1>2, <1>3, <1>4, <1>5

(* While the daemon serves, every clip it gave out has exactly one fate.   *)
THEOREM EveryClipHasOneFate == Spec => []OneFate
<1>1. Init => FatesInv
  <2> SUFFICES ASSUME Init PROVE FatesInv
    OBVIOUS
  <2>1. HandedSet = {} /\ Known = {}
    BY DEF Init, HandedSet, Known
  <2> QED
    BY <2>1 DEF Init, FatesInv, Settled
<1>2. TypeInv /\ FatesInv => OneFate
  <2> SUFFICES ASSUME TypeInv, FatesInv, phase = "serving",
                      NEW c \in 1..(nextClip - 1)
               PROVE  \E i \in DOMAIN Fates :
                        /\ c \in Fates[i]
                        /\ \A j \in DOMAIN Fates : c \in Fates[j] => j = i
    BY DEF OneFate
  <2>1. /\ DOMAIN Fates = 1..5
        /\ Fates[1] = {active.id} /\ Fates[2] = HandedSet
        /\ Fates[3] = replaced /\ Fates[4] = failed /\ Fates[5] = submitted
    BY DEF Fates
  <2>2. c \in Settled \cup {active.id} /\ c # 0 /\ c \in Known
    BY DEF FatesInv, Known, TypeInv, TypeOK
  <2>3. active.id = c => c \notin Settled
    BY <2>2 DEF FatesInv, NoSession
  <2>4. CASE c = active.id
    BY <2>1, <2>3, <2>4 DEF Settled
  <2>5. CASE c # active.id /\ c \in HandedSet
    BY <2>1, <2>5 DEF FatesInv
  <2>6. CASE c # active.id /\ c \in replaced
    BY <2>1, <2>6 DEF FatesInv
  <2>7. CASE c # active.id /\ c \in failed
    BY <2>1, <2>7 DEF FatesInv
  <2>8. CASE c # active.id /\ c \in submitted
    BY <2>1, <2>8 DEF FatesInv
  <2> QED
    BY <2>2, <2>4, <2>5, <2>6, <2>7, <2>8 DEF Settled
<1> QED
  BY <1>1, <1>2, TypeInvariant, FatesStep, PTL DEF Spec

LEMMA OrderStep ==
    ASSUME TypeInv, FatesInv, OrderInv, [Next]_vars
    PROVE  OrderInv'
<1> USE DEF OrderInv
<1>0. ASSUME active # NoSession, handed' = Append(handed, active.id)
      PROVE  Increasing(handed') /\ HandedSet' = HandedSet \cup {active.id}
  <2>1. handed \in Seq(ClipIDs) /\ active.id \in ClipIDs
    BY <1>0, HandOverTypes DEF TypeInv, TypeOK
  <2>2. \A x \in Elements(handed) : x < active.id
    BY <1>0 DEF HandedSet, Elements
  <2>3. Increasing(handed')
    BY <1>0, <2>1, <2>2, AppendedIncreasing
  <2> QED
    BY <1>0, <2>3, HandedAfter
<1>1. CASE HandOver
  BY <1>0, <1>1 DEF HandOver
<1>2. CASE Drop \/ Keep \/ Discard \/ AcceptHTTP \/ EndProcess
  <2>1. handed' = handed /\ (active' # NoSession =>
                               active # NoSession /\ active'.id = active.id)
    BY <1>2 DEF Drop, Keep, Discard, AcceptHTTP, EndProcess
  <2>2. HandedSet' = HandedSet /\ Increasing(handed')
    BY <2>1, HandedAfter
  <2> QED
    BY <2>1, <2>2
<1>3. CASE Start
  <2>1. active'.id = nextClip /\ nextClip \in Nat
    BY <1>3, StartTakesFreshID
  <2>2. HandedSet \subseteq Known /\ (active # NoSession => active.id \in Known)
    BY DEF FatesInv, Settled
  <2>3. \A x \in Known : x < nextClip
    BY <2>1 DEF Known
  <2>4. Increasing(handed') /\ HandedSet' \subseteq Known
    BY <1>0, <1>3, <2>2, HandedAfter DEF Start, EndPrevious
  <2> QED
    BY <2>1, <2>3, <2>4
<1> QED
  BY ClipSteps, <1>1, <1>2, <1>3

(* Clips are finalized at most once, in the order of their IDs, and never  *)
(* while they can still receive audio.                                     *)
THEOREM ClipsFinalizedInOrder == Spec => []FinalizedInOrder
<1>1. Init => FatesInv /\ OrderInv
  <2> SUFFICES ASSUME Init PROVE FatesInv /\ OrderInv
    OBVIOUS
  <2>1. HandedSet = {} /\ Known = {} /\ DOMAIN handed = {}
    BY DEF Init, HandedSet, Known
  <2> QED
    BY <2>1 DEF Init, FatesInv, OrderInv, Settled, Increasing
<1>2. TypeInv /\ FatesInv /\ OrderInv => FinalizedInOrder
  <2> SUFFICES ASSUME TypeInv, FatesInv, OrderInv PROVE FinalizedInOrder
    OBVIOUS
  <2>1. \A i \in DOMAIN handed : handed[i] \in HandedSet /\ handed[i] # 0
    BY BoundsAssumption DEF HandedSet, TypeInv, TypeOK, ClipIDs
  <2>2. active = NoSession => active.id = 0
    BY DEF NoSession
  <2>3. \A i \in DOMAIN handed : handed[i] # active.id
    BY <2>1, <2>2 DEF FatesInv, Settled
  <2> QED
    BY <2>3 DEF OrderInv, Increasing, FinalizedInOrder
<1> QED
  BY <1>1, <1>2, TypeInvariant, FatesStep, OrderStep, PTL DEF Spec

-----------------------------------------------------------------------------
(* Who asked for what.                                                     *)

(* A stop of the owner leaves its clip pending or ends it. *)
LEMMA AskedStep ==
    ASSUME TypeInv, PendingStopIsLive, FatesInv, AskedInv, [Next]_vars
    PROVE  AskedInv'
<1> USE DEF AskedInv
<1>0. /\ NoSession.id = 0 /\ NoSession.origin = NoOrigin
      /\ NoRequest.cmd = "none" /\ 0 \notin ClipIDs
      /\ nextClip \in Nat /\ nextClip >= 1
  BY BoundsAssumption DEF NoSession, NoRequest, ClipIDs, TypeInv, TypeOK
<1>a. active # NoSession =>
        /\ active.id \in Known /\ active.id \notin replaced
        /\ active.id # 0
  BY <1>0 DEF FatesInv, Settled, Known
<1>b. pendingStopClip # 0 => active # NoSession /\ active.id = pendingStopClip
  BY <1>0 DEF PendingStopIsLive
<1>1. ASSUME UNCHANGED <<nextClip, pendingStopClip, handed, replaced, asked,
                         limited>>,
             active'.id = active.id, active' = NoSession <=> active = NoSession
      PROVE  AskedInv'
  <2>1. HandedSet' = HandedSet /\ Known' = Known
    BY <1>1, HandedAfter DEF Known
  <2> QED
    BY <1>1, <2>1
<1>2. ASSUME active # NoSession, active' = NoSession, pendingStopClip' = 0,
             handed' = Append(handed, active.id),
             active.id \in asked' \cup limited',
             asked \subseteq asked', asked' \subseteq asked \cup {active.id},
             limited \subseteq limited',
             UNCHANGED <<nextClip, replaced>>
      PROVE  AskedInv'
  <2>1. HandedSet' = HandedSet \cup {active.id} /\ Known' = Known
    BY <1>2, HandedAfter DEF Known
  <2> QED
    BY <1>2, <1>a, <2>1
<1>3. ASSUME active' = NoSession, pendingStopClip' = 0,
             UNCHANGED <<nextClip, handed, replaced, asked, limited>>
      PROVE  AskedInv'
  <2>1. HandedSet' = HandedSet /\ Known' = Known
    BY <1>3, HandedAfter DEF Known
  <2> QED
    BY <1>3, <2>1
<1>4. ASSUME NEW cmd \in {"start", "stop"}, NEW o \in Callers, Request(cmd, o)
      PROVE  AskedInv'
  BY <1>1, <1>4 DEF Request
<1>5. CASE RejectStart
  BY <1>1, <1>5 DEF RejectStart
<1>6. CASE Start
  <2>1. /\ active'.id = nextClip /\ active' # NoSession
        /\ nextClip \notin Known /\ Known' = Known \cup {nextClip}
    BY <1>6, StartTakesFreshID
  <2>2. pendingStopClip' = 0 /\ UNCHANGED <<asked, limited>>
    BY <1>6 DEF Start, CancelPendingStop
  <2>3. asked \cap replaced' = {}
    BY <1>6 DEF Start, EndPrevious
  <2>4. HandedSet' \subseteq asked \cup limited
    BY <1>0, <1>6, <1>a, HandedAfter DEF Start, EndPrevious
  <2> QED
    BY <2>1, <2>2, <2>3, <2>4
<1>7. CASE StopIgnored
  <2>1. asked' = asked
    <3>1. request.origin # NoOrigin \/ AskedBy(request.origin) = {}
      <4>1. active # NoSession => active.origin # NoOrigin
        BY OriginsAssumption DEF TypeInv, TypeOK, Session
      <4> QED
        BY <4>1 DEF AskedBy
    <3>2. CASE ~MayStop(request.origin)
      BY <1>7, <3>1, <3>2 DEF StopIgnored, MayStop, AskedBy
    <3>3. CASE MayStop(request.origin) /\ Repeated
      <4>1. active # NoSession /\ pendingStopClip = active.id
        BY <3>3 DEF MayStop, Repeated
      <4> QED
        BY <1>7, <1>a, <4>1 DEF StopIgnored, AskedBy
    <3> QED
      BY <1>7, <3>2, <3>3 DEF StopIgnored
  <2> QED
    BY <1>1, <1>7, <2>1 DEF StopIgnored
<1>8. CASE StopDelayed
  <2>1. /\ active # NoSession /\ asked' = asked \cup {active.id}
        /\ pendingStopClip' = active.id
        /\ UNCHANGED <<active, nextClip, handed, replaced, limited>>
    BY <1>8 DEF StopDelayed, MayStop, AskedBy
  <2>2. HandedSet' = HandedSet /\ Known' = Known
    BY <2>1, HandedAfter DEF Known
  <2> QED
    BY <1>a, <2>1, <2>2
<1>9. CASE StopNow
  <2>1. active # NoSession /\ asked' = asked \cup {active.id}
    BY <1>9 DEF StopNow, MayStop, AskedBy
  <2> QED
    BY <1>2, <1>9, <2>1 DEF StopNow, StopActiveSession, CancelPendingStop
<1>10. CASE AcceptHTTP
  <2>1. UNCHANGED <<active, pendingStopClip, handed, replaced, asked, limited>>
    BY <1>10 DEF AcceptHTTP
  <2>2. HandedSet' = HandedSet /\ Known \subseteq Known'
    BY <1>0, <1>10, HandedAfter DEF AcceptHTTP, Known
  <2> QED
    BY <2>1, <2>2
<1>11. ASSUME NEW c \in ClipIDs, StopTimerExpires(c)
      PROVE  AskedInv'
  BY <1>1, <1>11 DEF StopTimerExpires
<1>12. ASSUME NEW c \in ClipIDs, StopTimerFires(c)
      PROVE  AskedInv'
  <2>1. CASE StopStillMeant(c)
    <3>1. active # NoSession /\ active.id \in asked
      BY <1>0, <2>1 DEF StopStillMeant
    <3> QED
      BY <1>2, <1>12, <2>1, <3>1
      DEF StopTimerFires, StopActiveSession, CancelPendingStop
  <2>2. CASE ~StopStillMeant(c)
    BY <1>1, <1>12, <2>2 DEF StopTimerFires
  <2> QED
    BY <2>1, <2>2
<1>13. CASE WarmTimerExpires \/ WarmTimerFires \/ Cancel \/ EndProcess
            \/ UNCHANGED vars
  BY <1>1, <1>13 DEF WarmTimerExpires, WarmTimerFires, Cancel, EndProcess
<1>14. CASE AudioAppended
  <2>1. active' = NoSession <=> active = NoSession
    BY <1>14, HandOverTypes, TypeStep
    DEF AudioAppended, Capturing, TypeInv, RecordingHasSession
  <2>2. active'.id = active.id
    BY <1>14, HandOverTypes DEF AudioAppended, Capturing, Session
  <2> QED
    BY <1>1, <1>14, <2>1, <2>2 DEF AudioAppended
<1>15. CASE AudioReachesLimit
  BY <1>2, <1>15 DEF AudioReachesLimit, Capturing, EndSessionInCallback,
                     CancelPendingStop
<1>16. CASE AudioFails \/ RecordingFailed \/ Shutdown
  BY <1>3, <1>16 DEF AudioFails, EndSessionInCallback, RecordingFailed,
                     Shutdown, CancelPendingStop
<1>17. CASE Manager /\ ~RecordingFailed
  BY <1>1, <1>17
  DEF Manager, MgrWake, MgrExit, MgrRead, MgrClose, MgrOpen, MgrStop, MgrStart,
      MgrFailureStale, WarmFailed, MgrAbandon, DeviceStep
<1> HIDE DEF AskedInv
<1> QED
  BY <1>4, <1>5, <1>6, <1>7, <1>8, <1>9, <1>10, <1>11, <1>12, <1>13, <1>14,
     <1>15, <1>16, <1>17
  DEF Next, Step, Handler, Audio, Exit, ShutdownTimeout, Terminated

LEMMA AskedInvariant ==
    Spec => [](TypeInv /\ PendingStopIsLive /\ FatesInv /\ AskedInv)
<1>1. Init => PendingStopIsLive /\ FatesInv /\ AskedInv
  <2> SUFFICES ASSUME Init PROVE PendingStopIsLive /\ FatesInv /\ AskedInv
    OBVIOUS
  <2>1. HandedSet = {} /\ Known = {}
    BY DEF Init, HandedSet, Known
  <2> QED
    BY <2>1 DEF Init, PendingStopIsLive, FatesInv, AskedInv, Settled
<1> QED
  BY <1>1, TypeInvariant, PendingStopStep, FatesStep, AskedStep, PTL DEF Spec

(* A clip is finalized only because its owner sent a stop while it was     *)
(* active, or at the limit: no stale timer ends a replacement.             *)
THEOREM OnlyAskedClipsFinalized == Spec => []FinalizedOnlyWhenAsked
  BY AskedInvariant, PTL DEF AskedInv, FinalizedOnlyWhenAsked

(* A clip that its owner asked to stop is never discarded by a new start.  *)
THEOREM StoppedClipsKept == Spec => []StoppedIsNotDiscarded
  BY AskedInvariant, PTL DEF AskedInv, StoppedIsNotDiscarded

(* A request ends or replaces only a session of its own origin.            *)
THEOREM OwnersOnly == Spec => OwnershipRespected
<1>1. ASSUME TypeInv, [Next]_vars PROVE [OwnRequest]_vars
  <2> SUFFICES ASSUME request # NoRequest, request' = NoRequest,
                      active # NoSession, active'.id # active.id
               PROVE  request.origin = active.origin
    BY DEF OwnRequest
  <2>1. CASE Start \/ StopNow
    BY <2>1 DEF Start, MayStart, StopNow, MayStop
  <2>2. CASE RejectStart \/ StopIgnored \/ StopDelayed
    BY <2>2 DEF RejectStart, StopIgnored, StopDelayed
  <2>3. request' # request
    OBVIOUS
  <2>4. ASSUME NEW cmd \in {"start", "stop"}, NEW o \in Callers, Request(cmd, o)
        PROVE  FALSE
    BY <2>4 DEF Request
  <2>5. ASSUME NEW c \in ClipIDs, StopTimerExpires(c) \/ StopTimerFires(c)
        PROVE  FALSE
    BY <2>3, <2>5 DEF StopTimerExpires, StopTimerFires
  <2>6. CASE AcceptHTTP \/ WarmTimerExpires \/ WarmTimerFires \/ Audio
    BY <2>3, <2>6 DEF AcceptHTTP, WarmTimerExpires, WarmTimerFires, Audio,
       AudioAppended, AudioReachesLimit, AudioFails
  <2>7. CASE Manager \/ Cancel \/ Shutdown \/ Exit \/ ShutdownTimeout
             \/ UNCHANGED vars
    BY <2>3, <2>7 DEF Manager, MgrWake, MgrExit, MgrRead, MgrClose, MgrOpen,
       MgrStop, MgrStart, MgrFailureStale, WarmFailed, RecordingFailed,
       MgrAbandon, DeviceStep, Cancel, Shutdown, Exit, ShutdownTimeout,
       EndProcess
  <2> QED
    BY <1>1, <2>1, <2>2, <2>4, <2>5, <2>6, <2>7
    DEF Next, Step, Handler, Terminated
<1> QED
  BY <1>1, TypeInvariant, PTL DEF Spec, OwnershipRespected

-----------------------------------------------------------------------------
(* The refinement: locks, timers, device and callbacks implement the       *)
(* lifecycle of ClipLifecycle.                                             *)

LEMMA LifecycleStep ==
    ASSUME TypeInv, PendingStopIsLive, [Next]_vars
    PROVE  [Clips!LifecycleNext]_(Clips!lifecycle)
<1> DEFINE Same == UNCHANGED <<nextClip, active.id, active.origin,
                               pendingStopClip, handed>>
<1>0. /\ NoSession.id = 0 /\ NoSession.origin = NoOrigin
      /\ active # NoSession => active.id # 0 /\ active \in Session
      /\ active = NoSession => pendingStopClip = 0
  BY BoundsAssumption
  DEF NoSession, TypeInv, TypeOK, Session, ClipIDs, PendingStopIsLive
<1>1. ASSUME Same PROVE UNCHANGED Clips!lifecycle
  BY <1>1 DEF Clips!lifecycle
<1>2. ASSUME active # NoSession, active' = NoSession, pendingStopClip' = 0,
             handed' = Append(handed, active.id), UNCHANGED nextClip
      PROVE  Clips!Complete
  BY <1>0, <1>2 DEF Clips!Complete, Clips!GoIdle
<1>3. ASSUME active # NoSession, active' = NoSession, pendingStopClip' = 0,
             UNCHANGED <<nextClip, handed>>
      PROVE  Clips!Abandon
  BY <1>0, <1>3 DEF Clips!Abandon, Clips!GoIdle
<1>4. ASSUME NEW cmd \in {"start", "stop"}, NEW o \in Callers, Request(cmd, o)
      PROVE  Same
  BY <1>4 DEF Request
<1>5. CASE RejectStart \/ StopIgnored
  BY <1>1, <1>5 DEF RejectStart, StopIgnored
<1>6. CASE Start
  <2> DEFINE o == request.origin
  <2>1. /\ o \in Origins /\ o # NoOrigin
        /\ active # NoSession => active.origin = o
    BY <1>6 DEF Start, MayStart, TypeInv, TypeOK, Requests, NoRequest, Callers
  <2>2. nextClip <= MaxClips
    BY <1>6 DEF Start, TypeInv, StartHasClip
  <2>3. /\ active'.id = nextClip /\ active'.origin = o
        /\ nextClip' = nextClip + 1 /\ pendingStopClip' = 0
    BY <1>6 DEF Start, CancelPendingStop
  <2>4. Clips!Record(o)
    BY <2>2, <2>3 DEF Clips!Record
  <2>5. CASE active = NoSession
    <3>1. Clips!Begin(o)
      BY <1>0, <1>6, <2>4, <2>5 DEF Start, EndPrevious, Clips!Begin
    <3> QED
      BY <2>1, <3>1 DEF Clips!LifecycleNext
  <2>6. CASE active # NoSession
    <3>1. pendingStopClip # 0 <=> active.id = pendingStopClip
      BY <1>0, <2>6 DEF PendingStopIsLive
    <3>2. Clips!Replace(o)
      BY <1>0, <1>6, <2>1, <2>4, <2>6, <3>1
      DEF Start, EndPrevious, Clips!Replace
    <3> QED
      BY <2>1, <3>2 DEF Clips!LifecycleNext
  <2> QED
    BY <2>5, <2>6
<1>7. CASE StopDelayed
  <2>1. Clips!AskStop
    BY <1>0, <1>7 DEF StopDelayed, MayStop, Clips!AskStop
  <2> QED
    BY <2>1 DEF Clips!LifecycleNext
<1>8. CASE StopNow
  <2>1. Clips!Complete
    BY <1>2, <1>8 DEF StopNow, MayStop, StopActiveSession, CancelPendingStop
  <2> QED
    BY <2>1 DEF Clips!LifecycleNext
<1>9. CASE AcceptHTTP
  <2>1. nextClip <= MaxClips
    BY <1>9, BoundsAssumption DEF AcceptHTTP, ClipsLeft, TypeInv, TypeOK
  <2>2. Clips!Reserve
    BY <1>9, <2>1 DEF AcceptHTTP, Clips!Reserve
  <2> QED
    BY <2>2 DEF Clips!LifecycleNext
<1>10. ASSUME NEW c \in ClipIDs, StopTimerExpires(c) \/ StopTimerFires(c)
       PROVE  Same \/ Clips!Complete
  <2>1. CASE StopTimerFires(c) /\ StopStillMeant(c)
    <3>1. active # NoSession
      BY <1>0, <2>1, BoundsAssumption DEF StopStillMeant, ClipIDs
    <3> QED
      BY <1>2, <2>1, <3>1
      DEF StopTimerFires, StopActiveSession, CancelPendingStop
  <2>2. CASE StopTimerExpires(c) \/ (StopTimerFires(c) /\ ~StopStillMeant(c))
    BY <2>2 DEF StopTimerExpires, StopTimerFires
  <2> QED
    BY <1>10, <2>1, <2>2
<1>11. CASE WarmTimerExpires \/ WarmTimerFires \/ Cancel \/ UNCHANGED vars
  BY <1>1, <1>11 DEF WarmTimerExpires, WarmTimerFires, Cancel
<1>12. CASE AudioAppended
  <2>1. active'.id = active.id /\ active'.origin = active.origin
    BY <1>0, <1>12 DEF AudioAppended, Capturing, Session
  <2> QED
    BY <1>1, <1>12, <2>1 DEF AudioAppended
<1>13. CASE AudioReachesLimit
  <2>1. Clips!Complete
    BY <1>2, <1>13
    DEF AudioReachesLimit, Capturing, EndSessionInCallback, CancelPendingStop
  <2> QED
    BY <2>1 DEF Clips!LifecycleNext
<1>14. CASE AudioFails \/ RecordingFailed
  <2>1. Clips!Abandon
    BY <1>3, <1>14
    DEF AudioFails, Capturing, EndSessionInCallback, CancelPendingStop,
        RecordingFailed, TypeInv, RecordingHasSession
  <2> QED
    BY <2>1 DEF Clips!LifecycleNext
<1>15. CASE Manager /\ ~RecordingFailed
  BY <1>1, <1>15
  DEF Manager, MgrWake, MgrExit, MgrRead, MgrClose, MgrOpen, MgrStop, MgrStart,
      MgrFailureStale, WarmFailed, MgrAbandon, DeviceStep
<1>16. CASE Shutdown
  <2>1. CASE active = NoSession
    BY <1>0, <1>1, <1>16, <2>1 DEF Shutdown, CancelPendingStop
  <2>2. CASE active # NoSession
    <3>1. Clips!Abandon
      BY <1>3, <1>16, <2>2 DEF Shutdown, CancelPendingStop
    <3> QED
      BY <3>1 DEF Clips!LifecycleNext
  <2> QED
    BY <2>1, <2>2
<1>17. CASE Exit \/ ShutdownTimeout
  BY <1>1, <1>17 DEF Exit, ShutdownTimeout, EndProcess
<1> HIDE DEF Same
<1>18. ASSUME Same \/ Clips!Complete
       PROVE  [Clips!LifecycleNext]_(Clips!lifecycle)
  BY <1>1, <1>18 DEF Clips!LifecycleNext
<1> QED
  BY <1>4, <1>5, <1>6, <1>7, <1>8, <1>9, <1>10, <1>11, <1>12, <1>13, <1>14,
     <1>15, <1>16, <1>17, <1>18
  DEF Next, Step, Handler, Audio, Terminated

(* The daemon implements the clip lifecycle (its safety part).             *)
THEOREM RefinesLifecycle == Spec => Clips!Lifecycle
<1>1. Init => Clips!LifecycleInit
  BY DEF Init, NoSession, Clips!LifecycleInit, Clips!Idle
<1> QED
  BY <1>1, TypeInvariant, DelayedStopLives, LifecycleStep, PTL
  DEF Spec, Clips!Lifecycle
-----------------------------------------------------------------------------
(* What d.active, d.desired and the pending stop say of one another holds  *)
(* in every reachable state.                                               *)
THEOREM SessionsStayConsistent == Spec => []SessionsConsistent
  BY NoNilSession, DelayedStopLives, ShutdownIsFinal, PTL DEF SessionsConsistent

(* Every clip has the one fate its owner asked for, in order.              *)
THEOREM ClipsMeetTheirFates == Spec => []ClipFates
  BY EveryClipHasOneFate, ClipsFinalizedInOrder, OnlyAskedClipsFinalized, StoppedClipsKept, PTL DEF ClipFates
=============================================================================

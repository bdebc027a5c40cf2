--------------------------- MODULE StartupProofs ---------------------------
(***************************************************************************)
(* Theorems about Startup, for any number of processes.                    *)
(***************************************************************************)
EXTENDS Startup, TLAPS

(* Processes are where Run can be, and only those that have a socket path  *)
(* have begun to transcribe.                                               *)
THEOREM TypeCorrect == Spec => []TypeOK
<1>1. Init => TypeOK
  BY DEF Init, TypeOK, Commands
<1>2. TypeOK /\ [Next]_vars => TypeOK'
  <2> SUFFICES ASSUME TypeOK, [Next]_vars PROVE TypeOK'
    OBVIOUS
  <2>0. UNCHANGED overlap
    BY DEF Next, vars
  <2> USE <2>0
  <2> USE DEF TypeOK, Goes, Becomes, Ends, Commands, Live, Starting, Stopping, Ended
  <2>1. CASE UNCHANGED vars
    BY <2>1 DEF vars
  <2>2. ASSUME NEW d \in Daemons, PrepareDir(d) \/ PrepareDirFails(d) PROVE TypeOK'
    BY <2>2 DEF PrepareDir, PrepareDirFails
  <2>3. ASSUME NEW d \in Daemons, Runs(d) PROVE TypeOK'
    <3>1. CASE Inspect(d)
      BY <3>1 DEF Inspect
    <3>2. CASE Dial(d)
      BY <3>2 DEF Dial
    <3>3. CASE RemoveStale(d)
      BY <3>3 DEF RemoveStale
    <3>4. CASE Bind(d)
      BY <3>4 DEF Bind
    <3>5. CASE Listen(d) \/ Chmod(d) \/ CloseListener(d) \/ RemoveSocket(d)
      BY <3>5 DEF Listen, Chmod, CloseListener, RemoveSocket
    <3>6. CASE Exit(d)
      BY <3>6 DEF Exit
    <3> QED BY <2>3, <3>1, <3>2, <3>3, <3>4, <3>5, <3>6 DEF Runs
  <2>4. ASSUME NEW d \in Daemons, Stop(d) PROVE TypeOK'
    BY <2>4 DEF Stop
  <2>5. ASSUME NEW d \in Daemons, Crash(d) PROVE TypeOK'
    BY <2>5 DEF Crash
  <2>6. ASSUME NEW d \in Daemons, Transcribes(d) PROVE TypeOK'
    BY <2>6 DEF Transcribes, WriteTranscript, StartCommand, NoCommand, CommandExits, Working
  <2>7. CASE Terminated
    BY <2>7 DEF Terminated, vars
  <2> QED BY <2>1, <2>2, <2>3, <2>4, <2>5, <2>6, <2>7 DEF Next
<1> QED BY <1>1, <1>2, PTL DEF Spec

-----------------------------------------------------------------------------
(* Shutdown removes the daemon socket: at any moment, and under any        *)
(* interleaving of starts, stops and failures, a socket file belongs to a  *)
(* process that still listens or has crashed.                              *)
THEOREM OnlyCrashesLeaveSockets == Spec => []NoSocketLeft
<1>1. Init => NoSocketLeft
  BY DEF Init, NoSocketLeft
<1>2. TypeOK /\ NoSocketLeft /\ [Next]_vars => NoSocketLeft'
  <2> SUFFICES ASSUME TypeOK, NoSocketLeft, [Next]_vars PROVE NoSocketLeft'
    OBVIOUS
  <2> USE StartupAssumption DEF TypeOK, NoSocketLeft, Goes, Listening
  <2>1. CASE UNCHANGED vars
    BY <2>1 DEF vars
  <2>2. ASSUME NEW d \in Daemons, PrepareDir(d) \/ PrepareDirFails(d) PROVE NoSocketLeft'
    BY <2>2 DEF PrepareDir, PrepareDirFails
  <2>3. ASSUME NEW d \in Daemons, Runs(d) PROVE NoSocketLeft'
    <3>1. CASE Inspect(d) \/ Dial(d) \/ RemoveStale(d)
      BY <3>1 DEF Inspect, Dial, RemoveStale
    <3>2. CASE Bind(d)
      BY <3>2 DEF Bind
    <3>3. CASE Listen(d) \/ Chmod(d)
      BY <3>3 DEF Listen, Chmod
    <3>4. CASE CloseListener(d) \/ RemoveSocket(d)
      BY <3>4 DEF CloseListener, RemoveSocket
    <3>5. CASE Exit(d)
      BY <3>5 DEF Exit
    <3> QED BY <2>3, <3>1, <3>2, <3>3, <3>4, <3>5 DEF Runs
  <2>4. ASSUME NEW d \in Daemons, Stop(d) \/ Crash(d) PROVE NoSocketLeft'
    BY <2>4 DEF Stop, Crash
  <2>5. ASSUME NEW d \in Daemons, Transcribes(d) PROVE NoSocketLeft'
    BY <2>5 DEF Transcribes, WriteTranscript, StartCommand, NoCommand, CommandExits
  <2>6. CASE Terminated
    BY <2>6 DEF Terminated, vars
  <2> QED BY <2>1, <2>2, <2>3, <2>4, <2>5, <2>6 DEF Next
<1> QED BY <1>1, <1>2, TypeCorrect, PTL DEF Spec

-----------------------------------------------------------------------------
(* With careful users, at most one process is starting or stopping, ... *)
OneBusy ==
    OneAtATime => \A d, e \in Daemons :
        pc[d] \in Starting \cup Stopping /\ pc[e] \in Starting \cup Stopping => d = e

(* ... and the path leads to the process that has bound it, which is how a *)
(* later one learns of it.                                                 *)
BoundIsAtPath ==
    OneAtATime => \A d \in Daemons : pc[d] \in {"bound", "listening", "serving"} => socket = d

ClaimInv == TypeOK /\ OneBusy /\ BoundIsAtPath /\ ExclusiveClaim

LEMMA ClaimInductive ==
    ASSUME ClaimInv, [Next]_vars, TypeOK'
    PROVE  ClaimInv'
<1> USE DEF ClaimInv, TypeOK, Goes, OneAtATime
<1>0. UNCHANGED overlap
  BY DEF Next, vars
<1> USE <1>0
<1>1. CASE UNCHANGED vars
  BY <1>1 DEF vars, OneBusy, BoundIsAtPath, ExclusiveClaim, Claims
<1>2. ASSUME NEW d \in Daemons, PrepareDir(d) \/ PrepareDirFails(d) PROVE ClaimInv'
  BY <1>2 DEF PrepareDir, PrepareDirFails, Quiet, OneBusy, BoundIsAtPath,
    ExclusiveClaim, Claims, Starting, Stopping
<1>3. ASSUME NEW d \in Daemons, Runs(d) PROVE ClaimInv'
  <2>1. CASE Inspect(d)
    BY <2>1, StartupAssumption DEF Inspect, OneBusy, BoundIsAtPath, ExclusiveClaim,
      Claims, Starting, Stopping
  <2>2. CASE Dial(d)
    BY <2>2 DEF Dial, Answers, Listening, OneBusy, BoundIsAtPath, ExclusiveClaim,
      Claims, Starting, Stopping
  <2>3. CASE RemoveStale(d)
    BY <2>3 DEF RemoveStale, OneBusy, BoundIsAtPath, ExclusiveClaim, Claims,
      Starting, Stopping
  <2>4. CASE Bind(d)
    BY <2>4 DEF Bind, OneBusy, BoundIsAtPath, ExclusiveClaim, Claims, Starting, Stopping
  <2>5. CASE Listen(d)
    BY <2>5 DEF Listen, OneBusy, BoundIsAtPath, ExclusiveClaim, Claims, Starting, Stopping
  <2>6. CASE Chmod(d)
    BY <2>6 DEF Chmod, OneBusy, BoundIsAtPath, ExclusiveClaim, Claims, Starting, Stopping
  <2>7. CASE CloseListener(d)
    BY <2>7 DEF CloseListener, OneBusy, BoundIsAtPath, ExclusiveClaim, Claims,
      Starting, Stopping
  <2>8. CASE RemoveSocket(d)
    BY <2>8 DEF RemoveSocket, OneBusy, BoundIsAtPath, ExclusiveClaim, Claims,
      Starting, Stopping
  <2>9. CASE Exit(d)
    BY <2>9 DEF Exit, OneBusy, BoundIsAtPath, ExclusiveClaim, Claims, Starting, Stopping
  <2> QED BY <1>3, <2>1, <2>2, <2>3, <2>4, <2>5, <2>6, <2>7, <2>8, <2>9 DEF Runs
<1>4. ASSUME NEW d \in Daemons, Stop(d) PROVE ClaimInv'
  BY <1>4 DEF Stop, Quiet, OneBusy, BoundIsAtPath, ExclusiveClaim,
    Claims, Starting, Stopping
<1>5. ASSUME NEW d \in Daemons, Crash(d) PROVE ClaimInv'
  BY <1>5 DEF Crash, OneBusy, BoundIsAtPath, ExclusiveClaim, Claims, Starting, Stopping
<1>6. ASSUME NEW d \in Daemons, Transcribes(d) PROVE ClaimInv'
  BY <1>6 DEF Transcribes, WriteTranscript, StartCommand, NoCommand, CommandExits,
    OneBusy, BoundIsAtPath, ExclusiveClaim, Claims
<1>7. CASE Terminated
  BY <1>7 DEF Terminated, vars, OneBusy, BoundIsAtPath, ExclusiveClaim, Claims
<1> QED BY <1>1, <1>2, <1>3, <1>4, <1>5, <1>6, <1>7 DEF Next

LEMMA ClaimInvariant == Spec => []ClaimInv
<1>1. Init => ClaimInv
  <2> SUFFICES ASSUME Init PROVE ClaimInv
    OBVIOUS
  <2> QED BY DEF Init, ClaimInv, TypeOK, OneBusy, BoundIsAtPath, ExclusiveClaim, Claims,
        Starting, Stopping, Commands
<1>2. ClaimInv /\ TypeOK' /\ [Next]_vars => ClaimInv'
  BY ClaimInductive
<1> QED BY <1>1, <1>2, TypeCorrect, PTL DEF Spec

(* One process at most claims the socket path, although a start inspects,  *)
(* dials, removes and binds in separate steps and any process may crash.   *)
THEOREM OneClaimant == Spec => []ExclusiveClaim
<1>1. ClaimInv => ExclusiveClaim
  BY DEF ClaimInv
<1> QED BY <1>1, ClaimInvariant, PTL

(* The socket of a daemon that serves is at the path: neither a mistaken   *)
(* start nor the recovery from a crash takes it away.                      *)
THEOREM ServersAreReachable == Spec => []ServerOwnsSocket
<1>1. ClaimInv => ServerOwnsSocket
  BY DEF ClaimInv, BoundIsAtPath, ServerOwnsSocket, SocketKept
<1> QED BY <1>1, ClaimInvariant, PTL

(* If starts and stops do not overlap, the socket path has one owner.      *)
THEOREM OneOwner == Spec => []OneServer
  BY OneClaimant, ServersAreReachable, PTL DEF OneServer
=============================================================================

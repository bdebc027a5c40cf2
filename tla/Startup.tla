------------------------------ MODULE Startup ------------------------------
(***************************************************************************)
(* Processes that run Run on one runtime directory: each cleans the        *)
(* transcripts, takes the socket path or gives up, serves, and removes the *)
(* socket, or crashes on the way.  The directory is all they share, and a  *)
(* step here is one system call on it.                                     *)
(*                                                                         *)
(* Clip IDs begin at 1 in every process, so the transcripts of their first *)
(* clips share one file name; that is the one file modelled.               *)
(***************************************************************************)
EXTENDS FiniteSets

CONSTANTS
    Daemons,    \* processes; each runs once
    NoDaemon,   \* for a file that does not exist
    Overlaps    \* what others may be doing when a daemon starts or is stopped:
                \* how careful the users of the directory may be

ASSUME StartupAssumption ==
    /\ NoDaemon \notin Daemons
    /\ Overlaps \subseteq SUBSET {"starting", "serving", "stopping"}

VARIABLES
    pc,       \* where Run is, in each process
    socket,   \* the process whose listener daemon.sock leads to
    file,     \* the process whose text the transcript file holds
    command,  \* the output command for the first clip of each process
    overlap   \* the member of Overlaps these users keep to

vars == <<pc, socket, file, command, overlap>>

Starting == {"cleaned", "found", "stale", "free", "bound", "listening"}
Stopping == {"closing", "closed", "ending"}
Ended    == {"failed", "exited", "crashed"}
Live     == Starting \cup {"serving"} \cup Stopping

(* A connection is accepted from listen on, before Accept is called. *)
Listening == {"listening", "serving", "closing"}

(* Mutant: HTTP input is served before the socket path is claimed. *)
WorkingFromStart == Live

(* Between PrepareSocket and the end of Run: clips may be transcribed.     *)
Working == {"free", "bound", "listening", "serving"} \cup Stopping

Commands == {"none", "waiting", "running", "over"}

TypeOK ==
    /\ pc \in [Daemons -> {"new"} \cup Live \cup Ended]
    /\ socket \in Daemons \cup {NoDaemon}
    /\ file \in Daemons \cup {NoDaemon}
    /\ command \in [Daemons -> Commands]
    /\ overlap \in Overlaps
    /\ \A d \in Daemons : pc[d] \in {"new", "cleaned", "found", "stale"} => command[d] = "none"

Init ==
    /\ pc = [d \in Daemons |-> "new"]
    /\ socket = NoDaemon /\ file = NoDaemon
    /\ command = [d \in Daemons |-> "none"]
    /\ overlap \in Overlaps

Goes(d, from, to) == pc[d] = from /\ pc' = [pc EXCEPT ![d] = to]

(* Users start a daemon, and a daemon stops, only while the others do what *)
(* overlap allows; with an empty overlap, "exactly one daemon" runs.       *)
Quiet(d) ==
    \A e \in Daemons \ {d} :
        /\ pc[e] \in Starting => "starting" \in overlap
        /\ pc[e] = "serving"  => "serving" \in overlap
        /\ pc[e] \in Stopping => "stopping" \in overlap

-----------------------------------------------------------------------------
(* PrepareDir, which goes first.  A file that cannot be removed is only    *)
(* reported.                                                               *)
PrepareDir(d) ==
    /\ Quiet(d)
    /\ Goes(d, "new", "cleaned")
    /\ file' \in {file, NoDaemon}
    /\ UNCHANGED <<socket, command>>

(* The directory is not usable: Run returns before it touches anything. *)
PrepareDirFails(d) ==
    /\ Quiet(d)
    /\ Goes(d, "new", "failed")
    /\ UNCHANGED <<socket, file, command>>

(* Mutant: any socket file is left to Listen, unexamined. *)
InspectNothing(d) ==
    /\ Goes(d, "cleaned", "free")
    /\ UNCHANGED <<socket, file, command>>

(* PrepareSocket: Lstat. *)
Inspect(d) ==
    /\ Goes(d, "cleaned", IF socket = NoDaemon THEN "free" ELSE "found")
    /\ UNCHANGED <<socket, file, command>>

Answers(e) == e \in Daemons /\ pc[e] \in Listening

(* PrepareSocket: DialTimeout.  An answer means that the socket is in use. *)
Dial(d) ==
    /\ Goes(d, "found", IF Answers(socket) THEN "failed" ELSE "stale")
    /\ UNCHANGED <<socket, file, command>>

(* Mutant: the stale socket stays. *)
LeaveStale(d) ==
    /\ Goes(d, "stale", "free")
    /\ UNCHANGED <<socket, file, command>>

(* PrepareSocket: Remove, of whatever is at the path by now. *)
RemoveStale(d) ==
    /\ Goes(d, "stale", IF socket = NoDaemon THEN "failed" ELSE "free")
    /\ socket' = NoDaemon
    /\ UNCHANGED <<file, command>>

-----------------------------------------------------------------------------
(* Serve: net.Listen binds, and fails if the path exists, ... *)
Bind(d) ==
    /\ \/ socket = NoDaemon /\ Goes(d, "free", "bound") /\ socket' = d
       \/ socket # NoDaemon /\ Goes(d, "free", "ending") /\ UNCHANGED socket
    /\ UNCHANGED <<file, command>>

(* ... and then listens. *)
Listen(d) ==
    /\ Goes(d, "bound", "listening")
    /\ UNCHANGED <<socket, file, command>>

(* Serve fails if the path is gone. *)
Chmod(d) ==
    /\ Goes(d, "listening", IF socket = NoDaemon THEN "closing" ELSE "serving")
    /\ UNCHANGED <<socket, file, command>>

(* A signal, an HTTP listener that ended, or an error of Accept. *)
Stop(d) ==
    /\ Quiet(d)
    /\ Goes(d, "serving", "closing")
    /\ UNCHANGED <<socket, file, command>>

(* Mutant: the listener is closed and its file left behind. *)
CloseListenerOnly(d) ==
    /\ Goes(d, "closing", "closed")
    /\ UNCHANGED <<socket, file, command>>

(* Close of a Unix listener first removes its path. *)
CloseListener(d) ==
    /\ Goes(d, "closing", "closed")
    /\ socket' = NoDaemon
    /\ UNCHANGED <<file, command>>

(* Serve's deferred Remove. *)
RemoveSocket(d) ==
    /\ Goes(d, "closed", "ending")
    /\ socket' = NoDaemon
    /\ UNCHANGED <<file, command>>

(* A command that has not been started by now never will be. *)
Ends(d) == command' = [command EXCEPT ![d] = IF @ = "running" THEN @ ELSE "over"]

(* shutdown, and the end of the process. *)
Exit(d) ==
    /\ Goes(d, "ending", "exited")
    /\ Ends(d)
    /\ UNCHANGED <<socket, file>>

Crash(d) ==
    /\ pc[d] \in Live
    /\ pc' = [pc EXCEPT ![d] = "crashed"]
    /\ Ends(d)
    /\ UNCHANGED <<socket, file>>

-----------------------------------------------------------------------------
Becomes(d, from, to) == command[d] = from /\ command' = [command EXCEPT ![d] = to]

WriteTranscript(d) ==
    /\ pc[d] \in Working
    /\ Becomes(d, "none", "waiting")
    /\ file' = d
    /\ UNCHANGED <<pc, socket>>

(* Not once the context is done, which closes the listener as well. *)
StartCommand(d) ==
    /\ pc[d] \in Working \ Stopping
    /\ Becomes(d, "waiting", "running")
    /\ UNCHANGED <<pc, socket, file>>

(* The daemon is shutting down, or the command could not be started. *)
NoCommand(d) ==
    /\ pc[d] \in Working
    /\ Becomes(d, "waiting", "over")
    /\ UNCHANGED <<pc, socket, file>>

(* The command outlives its daemon.  It may remove the file of its path.   *)
CommandExits(d) ==
    /\ Becomes(d, "running", "over")
    /\ file' \in {file, NoDaemon}
    /\ UNCHANGED <<pc, socket>>

-----------------------------------------------------------------------------
Runs(d) ==
    \/ Inspect(d) \/ Dial(d) \/ RemoveStale(d) \/ Bind(d) \/ Listen(d)
    \/ Chmod(d) \/ CloseListener(d) \/ RemoveSocket(d) \/ Exit(d)

Transcribes(d) ==
    WriteTranscript(d) \/ StartCommand(d) \/ NoCommand(d) \/ CommandExits(d)

Terminated ==
    /\ \A d \in Daemons : pc[d] \in Ended /\ command[d] # "running"
    /\ UNCHANGED vars

Next ==
    /\ \/ \E d \in Daemons :
            \/ PrepareDir(d) \/ PrepareDirFails(d)
            \/ Runs(d) \/ Stop(d) \/ Crash(d) \/ Transcribes(d)
       \/ Terminated
    /\ UNCHANGED overlap

Spec == Init /\ [][Next]_vars

(* Go runs the main goroutine of a process.  Nobody need start a daemon,   *)
(* stop one, or speak to it.                                               *)
Fairness == \A d \in Daemons : WF_vars(Runs(d) /\ UNCHANGED overlap)

FairSpec == Spec /\ Fairness

-----------------------------------------------------------------------------
(* Properties. *)

(* Users who start or stop one daemon at a time.  They may still start one *)
(* that is not needed.                                                     *)
OneAtATime == overlap \subseteq {"serving"}

(* A process that acts as if the path were its own: it will bind it, serve *)
(* on it or remove it.                                                     *)
Claims(d) == pc[d] \in {"stale", "free", "bound", "listening", "serving", "closing", "closed"}

(* The check, the removal and the binding are separate system calls; as    *)
(* long as no other daemon is starting or stopping meanwhile, one process  *)
(* at most claims the path, in spite of crashes and of needless starts.    *)
ExclusiveClaim == OneAtATime => \A d, e \in Daemons : Claims(d) /\ Claims(e) => d = e

(* Clients can reach a daemon that serves: its socket is at the path.      *)
(* "On SIGINT or SIGTERM, the daemon ... removes its socket", no other.    *)
SocketKept == \A d \in Daemons : pc[d] = "serving" => socket = d

(* Neither a needless start nor the recovery from a crash takes the socket *)
(* of a daemon that serves, if starts and stops do not overlap.            *)
ServerOwnsSocket == OneAtATime => SocketKept

(* The socket path has one owner, the daemon that serves. *)
OneServer == ExclusiveClaim /\ ServerOwnsSocket

(* "Shutdown removes the daemon socket": only a crash leaves one behind,   *)
(* however starts and stops interleave and wherever Serve fails.           *)
NoSocketLeft ==
    socket # NoDaemon => pc[socket] \in Listening \cup {"bound", "crashed"}

(* "A transcript is protected while its output command may still need it": *)
(* no other process takes away what a daemon that serves has written.      *)
TextKept ==
    \A d \in Daemons :
        pc[d] = "serving" /\ command[d] \in {"waiting", "running"} => file = d

(* "A stale socket is removed": a daemon that starts when no other is      *)
(* alive comes to serve, whatever a crash has left.                        *)
AloneStarts ==
    \A d \in Daemons :
        (OneAtATime /\ pc[d] = "cleaned" /\ \A e \in Daemons \ {d} : pc[e] \notin Live)
            ~> pc[d] \in {"serving", "crashed"}
=============================================================================

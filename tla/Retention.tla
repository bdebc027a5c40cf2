------------------------------ MODULE Retention ------------------------------
(***************************************************************************)
(* The transcript files of one daemon: processTranscript writes a clip's   *)
(* text and runs the output command on the file, and the release that      *)
(* follows removes the files that fell out of the retention window.        *)
(*                                                                         *)
(* Clips come here in any order and at the same time.  muTranscripts       *)
(* protects the two variables below it; files are written and removed      *)
(* outside of it, so each of these is a step of its own.                   *)
(***************************************************************************)
EXTENDS Naturals, FiniteSets

CONSTANTS
    MaxClip,    \* bound: clip IDs are 1..MaxClip
    Window,     \* TranscriptRetentionWindow; 0 disables retention
    HasOutCmd,  \* an output command is configured
    MaxErrors,  \* bound: failures of listing or removing files
    Leftovers   \* IDs of files that PrepareDir could not remove

ClipIDs == 1..MaxClip

ASSUME RetentionAssumption ==
    /\ MaxClip \in Nat \ {0} /\ Window \in Nat /\ MaxErrors \in Nat
    /\ HasOutCmd \in BOOLEAN /\ Leftovers \subseteq ClipIDs

VARIABLES
    stage,       \* how far processTranscript is, for each clip
    protected,   \* protectedTranscripts
    watermark,   \* transcriptRetentionHighWatermark
    files,       \* clip IDs with a transcript file
    doomed,      \* names a releasing goroutine has listed and not yet removed
    errors,      \* failures that may still happen
    consumed,    \* history: files removed by their own output command
    missed       \* history: files that an error kept from removal

vars == <<stage, protected, watermark, files, doomed, errors, consumed, missed>>

Stages  == {"transcribing", "protected", "written", "running", "failed",
            "finished", "released", "dropped"}
Enabled == Window > 0

Released == {c \in ClipIDs : stage[c] = "released"}

(* A clip whose file a command may be about to read, or is reading. *)
InUse(c) == stage[c] \in {"written", "running"}

(* The clip has fallen out of the window of the released clips. *)
Outdated(c) == \E d \in Released : c + Window <= d

TypeOK ==
    /\ stage \in [ClipIDs -> Stages]
    /\ protected \in SUBSET ClipIDs
    /\ watermark \in 0..MaxClip
    /\ files \in SUBSET ClipIDs
    /\ doomed \in [ClipIDs -> SUBSET ClipIDs]
    /\ errors \in 0..MaxErrors
    /\ consumed \in SUBSET ClipIDs
    /\ missed \in SUBSET ClipIDs

(* PrepareDir empties the directory, and goes on if it cannot.  The files  *)
(* it leaves have the IDs of clips to come.                                *)
Init ==
    /\ stage = [c \in ClipIDs |-> "transcribing"]
    /\ protected = {} /\ watermark = 0
    /\ files = Leftovers
    /\ doomed = [c \in ClipIDs |-> {}]
    /\ errors = MaxErrors
    /\ consumed = {} /\ missed = {}

Goes(c, from, to) == stage[c] = from /\ stage' = [stage EXCEPT ![c] = to]

-----------------------------------------------------------------------------
(* No file for this clip: Whisper failed, or there is neither text nor     *)
(* output command.                                                         *)
NoTranscript(c) ==
    /\ Goes(c, "transcribing", "dropped")
    /\ UNCHANGED <<protected, watermark, files, doomed, errors, consumed, missed>>

(* Mutants: the clip is not protected before its file exists, or the next  *)
(* one is in its place.                                                    *)
ProtectNothing(c) ==
    /\ Goes(c, "transcribing", "protected")
    /\ UNCHANGED <<protected, watermark, files, doomed, errors, consumed, missed>>

ProtectNextClip(c) ==
    /\ Goes(c, "transcribing", "protected")
    /\ protected' = IF Enabled THEN protected \cup {c + 1} ELSE protected
    /\ UNCHANGED <<watermark, files, doomed, errors, consumed, missed>>

Protect(c) ==
    /\ Goes(c, "transcribing", "protected")
    /\ protected' = IF Enabled THEN protected \cup {c} ELSE protected
    /\ UNCHANGED <<watermark, files, doomed, errors, consumed, missed>>

Write(c) ==
    /\ Goes(c, "protected", "written")
    /\ files' = files \cup {c}
    /\ UNCHANGED <<protected, watermark, doomed, errors, consumed, missed>>

(* A failed write may leave the file, in part. *)
WriteFails(c) ==
    /\ Goes(c, "protected", "failed")
    /\ files' \in {files, files \cup {c}}
    /\ UNCHANGED <<protected, watermark, doomed, errors, consumed, missed>>

Unprotect(c) ==
    /\ Goes(c, "failed", "dropped")
    /\ protected' = protected \ {c}
    /\ UNCHANGED <<watermark, files, doomed, errors, consumed, missed>>

RunCommand(c) ==
    /\ HasOutCmd
    /\ Goes(c, "written", "running")
    /\ UNCHANGED <<protected, watermark, files, doomed, errors, consumed, missed>>

(* There is no command, the daemon is shutting down, or it did not start. *)
NoCommand(c) ==
    /\ Goes(c, "written", "finished")
    /\ UNCHANGED <<protected, watermark, files, doomed, errors, consumed, missed>>

(* Wait returns; the command may have removed its transcript. *)
CommandExits(c) ==
    /\ Goes(c, "running", "finished")
    /\ \/ UNCHANGED <<files, consumed>>
       \/ files' = files \ {c} /\ consumed' = consumed \cup {c}
    /\ UNCHANGED <<protected, watermark, doomed, errors, missed>>

(* getTranscriptNamesToPrune, with the watermark and the protected clips   *)
(* of the release that calls it.                                           *)
Listed(mark, held) == {n \in files : n + Window <= mark /\ n \notin held}

(* Listing stops at an error, with the names it has found by then. *)
ListFiles(c, names) ==
    \/ /\ doomed' = [doomed EXCEPT ![c] = names]
       /\ UNCHANGED <<errors, missed>>
    \/ /\ errors > 0 /\ errors' = errors - 1
       /\ \E found \in SUBSET names :
            /\ doomed' = [doomed EXCEPT ![c] = found]
            /\ missed' = missed \cup (names \ found)

(* Mutant: the watermark follows the latest release. *)
ReleaseMovesBack(c) ==
    /\ Goes(c, "finished", "released")
    /\ protected' = protected \ {c}
    /\ watermark' = c
    /\ ListFiles(c, Listed(watermark', protected'))
    /\ UNCHANGED <<files, consumed>>

(* releaseTranscript up to its unlock. *)
Release(c) ==
    /\ Goes(c, "finished", "released")
    /\ IF Enabled
       THEN /\ protected' = protected \ {c}
            /\ watermark' = IF c > watermark THEN c ELSE watermark
            /\ ListFiles(c, Listed(watermark', protected'))
       ELSE UNCHANGED <<protected, watermark, doomed, errors, missed>>
    /\ UNCHANGED <<files, consumed>>

(* One os.Remove after the unlock.  A file that is gone is no error.       *)
Remove(c, n) ==
    /\ n \in doomed[c]
    /\ doomed' = [doomed EXCEPT ![c] = @ \ {n}]
    /\ \/ files' = files \ {n} /\ UNCHANGED <<errors, missed>>
       \/ /\ n \in files
          /\ errors > 0 /\ errors' = errors - 1
          /\ missed' = missed \cup {n}
          /\ UNCHANGED files
    /\ UNCHANGED <<stage, protected, watermark, consumed>>

Transcript(c) ==
    \/ NoTranscript(c) \/ Protect(c) \/ Write(c) \/ WriteFails(c)
    \/ Unprotect(c) \/ RunCommand(c) \/ NoCommand(c) \/ CommandExits(c)
    \/ Release(c)

Terminated ==
    /\ \A c \in ClipIDs : stage[c] \in {"released", "dropped"}
    /\ \A c \in ClipIDs : doomed[c] = {}
    /\ UNCHANGED vars

Next ==
    \/ \E c \in ClipIDs : Transcript(c)
    \/ \E c, n \in ClipIDs : Remove(c, n)
    \/ Terminated

Spec == Init /\ [][Next]_vars

-----------------------------------------------------------------------------
(* Properties. *)

(* "A transcript is protected while its output command may still need it": *)
(* no release of another clip, however late it removes the names it        *)
(* listed, takes away a file that is in use.  It holds where startup did   *)
(* empty the directory.                                                    *)
NeededKept == \A c \in ClipIDs : InUse(c) => c \in files

(* As much of it as holds: a leftover of the same name, which was listed   *)
(* before the clip was protected, may take its file with it.               *)
MistakenForLeftover(c) == c \in Leftovers /\ Outdated(c)
NeededKeptButLeftovers == \A c \in ClipIDs : InUse(c) => c \in files \/ MistakenForLeftover(c)

(* The files of the window stay: only the command of a clip, or its own    *)
(* release or a later one with a full window of newer clips, removes them. *)
RecentKept ==
    \A c \in Released :
        Outdated(c) \/ c \in files \/ c \in consumed

(* No file leaves that is needed or recent.                                *)
FilesKept == NeededKeptButLeftovers /\ RecentKept

(* "never move the retention window backward": whatever the order of the   *)
(* releases, an outdated file, a leftover whose clip has not come to its   *)
(* own included, is gone, is about to be removed, or could not be removed. *)
OutdatedLeave ==
    Enabled =>
        \A c \in files :
            stage[c] \in {"transcribing", "released"} /\ Outdated(c)
                => c \in missed \/ \E d \in ClipIDs : c \in doomed[d]
=============================================================================

-------------------------- MODULE RetentionProofs --------------------------
(***************************************************************************)
(* Proofs about Retention, for every number of clips, window and number of *)
(* errors, with and without an output command, and whatever files the      *)
(* startup left in the directory.                                          *)
(***************************************************************************)
EXTENDS Retention, TLAPS

USE RetentionAssumption

HeldStages == {"protected", "written", "running", "failed", "finished"}

(* A clip is protected from before its file exists until its release.      *)
HeldWhileWorking ==
    protected = IF Enabled THEN {c \in ClipIDs : stage[c] \in HeldStages}
                ELSE {}

(* The watermark is the newest released clip.                              *)
WatermarkIsNewest ==
    /\ Enabled => \A d \in Released : d <= watermark
    /\ watermark = 0 \/ watermark \in Released

(* Only outdated files are listed, and of a clip that is not over only a   *)
(* leftover; so but for the leftovers no later step of a clip can need the *)
(* file a goroutine is about to remove.                                    *)
DoomedAreOutdated ==
    \A c \in ClipIDs :
        /\ stage[c] # "released" => doomed[c] = {}
        /\ \A n \in doomed[c] :
             /\ Outdated(n)
             /\ stage[n] \in {"released", "dropped"} \/ n \in Leftovers

(* Files begin with Write, or are leftovers, and are there until the clip  *)
(* is finished.                                                            *)
FilesAreWritten ==
    /\ \A c \in files :
         stage[c] \in {"transcribing", "protected"} => c \in Leftovers
    /\ \A c \in ClipIDs :
         stage[c] = "finished"
             => c \in files \/ c \in consumed \/ MistakenForLeftover(c)

Inv ==
    /\ TypeOK
    /\ HeldWhileWorking /\ WatermarkIsNewest /\ DoomedAreOutdated
    /\ FilesAreWritten
    /\ NeededKeptButLeftovers /\ RecentKept /\ OutdatedLeave

LEMMA InvInit == Init => Inv
  BY DEF Init, Inv, TypeOK, ClipIDs, Stages, HeldWhileWorking, HeldStages,
         WatermarkIsNewest, DoomedAreOutdated, FilesAreWritten,
         NeededKeptButLeftovers, InUse, RecentKept, OutdatedLeave, Outdated,
         Released, Enabled

-----------------------------------------------------------------------------
(* A step of one clip that is not its release leaves Released as it is, so *)
(* what is outdated stays so.                                              *)
LEMMA SameWindow ==
    ASSUME Inv, NEW c \in ClipIDs, NEW from \in Stages, NEW to \in Stages,
           Goes(c, from, to), from # "released", to # "released"
    PROVE  /\ Released' = Released
           /\ \A n : Outdated(n)' <=> Outdated(n)
           /\ stage' \in [ClipIDs -> Stages]
           /\ \A n \in ClipIDs : stage'[n] = IF n = c THEN to ELSE stage[n]
<1>1. stage \in [ClipIDs -> Stages]
  BY DEF Inv, TypeOK
<1>2. /\ stage' \in [ClipIDs -> Stages]
      /\ \A n \in ClipIDs : stage'[n] = IF n = c THEN to ELSE stage[n]
  BY <1>1 DEF Goes
<1>3. Released' = Released
  BY <1>1, <1>2 DEF Released, Goes
<1> QED
  BY <1>2, <1>3 DEF Outdated

(* A clip at work is not among the names that are about to be removed,     *)
(* unless it was listed for a leftover of its name.                        *)
LEMMA WorkStep ==
    ASSUME Inv, NEW c \in ClipIDs, NEW from \in Stages, NEW to \in Stages,
           Goes(c, from, to), from # "released", to # "released",
           from # "dropped",
           protected' = IF Enabled /\ to \in HeldStages THEN protected \cup {c}
                        ELSE protected \ {c},
           watermark' = watermark, doomed' = doomed, errors' = errors,
           missed' = missed,
           files' \in {files, files \cup {c}, files \ {c}},
           consumed' \in {consumed, consumed \cup {c}},
           to \in {"transcribing", "protected"} => from = "transcribing" /\ files' = files,
           to \in {"written", "running"} => c \in files' \/ MistakenForLeftover(c),
           to = "finished" => c \in files' \/ c \in consumed' \/ MistakenForLeftover(c)
    PROVE  Inv'
<1>1. /\ Released' = Released
      /\ \A n : Outdated(n)' <=> Outdated(n)
      /\ stage' \in [ClipIDs -> Stages]
      /\ \A n \in ClipIDs : stage'[n] = IF n = c THEN to ELSE stage[n]
  BY SameWindow
<1>2. TypeOK'
  BY <1>1 DEF Inv, TypeOK
<1>3. HeldWhileWorking'
  BY <1>1 DEF Inv, HeldWhileWorking, HeldStages, TypeOK
<1>4. WatermarkIsNewest'
  BY <1>1 DEF Inv, WatermarkIsNewest
<1>5. \A d \in ClipIDs : c \in doomed[d] => c \in Leftovers
  BY DEF Inv, DoomedAreOutdated, Goes
<1>6. DoomedAreOutdated'
  BY <1>1, <1>5 DEF Inv, DoomedAreOutdated, Goes, TypeOK
<1>7. FilesAreWritten'
  BY <1>1 DEF Inv, FilesAreWritten, MistakenForLeftover, Goes, TypeOK
<1>8. NeededKeptButLeftovers'
  BY <1>1 DEF Inv, NeededKeptButLeftovers, MistakenForLeftover, InUse
<1>9. c \notin Released
  BY DEF Released, Goes
<1>10. RecentKept'
  BY <1>1, <1>9 DEF Inv, RecentKept
<1>11. OutdatedLeave'
  BY <1>1, <1>9 DEF Inv, OutdatedLeave, Goes
<1> QED
  BY <1>2, <1>3, <1>4, <1>6, <1>7, <1>8, <1>10, <1>11 DEF Inv

-----------------------------------------------------------------------------
(* The release lists every file that it makes outdated.                    *)
LEMMA Listing ==
    ASSUME Inv, NEW c \in ClipIDs, NEW names \in SUBSET ClipIDs,
           doomed[c] = {}, ListFiles(c, names)
    PROVE  /\ doomed' \in [ClipIDs -> SUBSET ClipIDs]
           /\ errors' \in 0..MaxErrors
           /\ missed' \in SUBSET ClipIDs /\ missed \subseteq missed'
           /\ doomed'[c] \subseteq names
           /\ \A d \in ClipIDs : d # c => doomed'[d] = doomed[d]
           /\ \A n \in names : n \in missed' \/ n \in doomed'[c]
<1>1. /\ doomed \in [ClipIDs -> SUBSET ClipIDs] /\ errors \in 0..MaxErrors
      /\ missed \in SUBSET ClipIDs
  BY DEF Inv, TypeOK
<1>2. PICK found \in SUBSET names : doomed' = [doomed EXCEPT ![c] = found]
                                  /\ missed \subseteq missed'
                                  /\ names \ found \subseteq missed'
  BY DEF ListFiles
<1>3. errors' \in 0..MaxErrors /\ missed' \in SUBSET ClipIDs
  BY <1>1 DEF ListFiles
<1> QED
  BY <1>1, <1>2, <1>3

LEMMA ReleaseStep ==
    ASSUME Inv, NEW c \in ClipIDs, Release(c)
    PROVE  Inv'
<1>1. /\ stage \in [ClipIDs -> Stages] /\ files \in SUBSET ClipIDs
      /\ protected \in SUBSET ClipIDs /\ watermark \in 0..MaxClip
      /\ doomed \in [ClipIDs -> SUBSET ClipIDs]
      /\ errors \in 0..MaxErrors /\ missed \in SUBSET ClipIDs
      /\ consumed \in SUBSET ClipIDs
      /\ stage[c] = "finished" /\ files' = files /\ consumed' = consumed
  BY DEF Inv, TypeOK, Release, Goes
<1>2. /\ stage' \in [ClipIDs -> Stages]
      /\ \A n \in ClipIDs : stage'[n] = IF n = c THEN "released" ELSE stage[n]
  BY <1>1 DEF Release, Goes, Stages
<1>3. Released' = Released \cup {c} /\ c \notin Released
  BY <1>1, <1>2 DEF Released
<1>4. \A n \in ClipIDs : Outdated(n) => Outdated(n)'
  BY <1>3 DEF Outdated
<1>5. doomed[c] = {}
  BY <1>1 DEF Inv, DoomedAreOutdated
<1>6. FilesAreWritten' /\ NeededKeptButLeftovers'
  BY <1>1, <1>2, <1>4
  DEF Inv, FilesAreWritten, NeededKeptButLeftovers, MistakenForLeftover, InUse
<1>7. RecentKept'
  BY <1>1, <1>3, <1>4
  DEF Inv, RecentKept, FilesAreWritten, MistakenForLeftover, Released
<1>8. CASE ~Enabled
  <2>1. UNCHANGED <<protected, watermark, doomed, errors, missed>>
    BY <1>8 DEF Release
  <2>2. watermark = 0 \/ watermark \in Released'
    BY <1>3 DEF Inv, WatermarkIsNewest
  <2>3. TypeOK'
    BY <1>1, <1>2, <2>1 DEF TypeOK
  <2>4. DoomedAreOutdated'
    BY <1>1, <1>2, <1>4, <1>5, <2>1 DEF Inv, DoomedAreOutdated
  <2>5. HeldWhileWorking' /\ WatermarkIsNewest' /\ OutdatedLeave'
    BY <1>8, <2>1, <2>2
    DEF Inv, HeldWhileWorking, WatermarkIsNewest, OutdatedLeave, Enabled
  <2> QED
    BY <1>6, <1>7, <2>3, <2>4, <2>5 DEF Inv
<1>9. CASE Enabled
  <2> DEFINE names == Listed(watermark', protected')
  <2>1. /\ protected' = protected \ {c}
        /\ watermark' = IF c > watermark THEN c ELSE watermark
        /\ ListFiles(c, names)
    BY <1>9 DEF Release
  <2>2. names \in SUBSET ClipIDs
    BY <1>1 DEF Listed
  <2> HIDE DEF names
  <2>3. /\ doomed' \in [ClipIDs -> SUBSET ClipIDs] /\ errors' \in 0..MaxErrors
        /\ missed' \in SUBSET ClipIDs /\ missed \subseteq missed'
        /\ doomed'[c] \subseteq names
        /\ \A d \in ClipIDs : d # c => doomed'[d] = doomed[d]
        /\ \A n \in names : n \in missed' \/ n \in doomed'[c]
    BY <1>5, <2>1, <2>2, Listing
  <2>4. TypeOK'
    BY <1>1, <1>2, <2>1, <2>3 DEF TypeOK, ClipIDs
  <2>5. protected' = {n \in ClipIDs : stage'[n] \in HeldStages}
    BY <1>1, <1>2, <1>9, <2>1 DEF Inv, HeldWhileWorking, HeldStages
  <2>6. WatermarkIsNewest'
    BY <1>1, <1>3, <1>9, <2>1 DEF Inv, WatermarkIsNewest, ClipIDs, Released
  <2>7. watermark' \in Released'
    BY <1>1, <1>3, <2>1, <2>6 DEF WatermarkIsNewest, ClipIDs
  <2>8. \A n \in names : /\ Outdated(n)'
                         /\ stage'[n] \in {"released", "dropped"} \/ n \in Leftovers
    <3> TAKE n \in names
    <3>1. n \in files /\ n + Window <= watermark' /\ n \notin protected'
      BY DEF names, Listed
    <3>2. stage'[n] \in {"released", "dropped"} \/ n \in Leftovers
      BY <1>1, <1>2, <2>5, <3>1 DEF Inv, FilesAreWritten, HeldStages, Stages
    <3> QED
      BY <2>7, <3>1, <3>2 DEF Outdated
  <2>9. DoomedAreOutdated'
    BY <1>1, <1>2, <1>4, <2>3, <2>8 DEF Inv, DoomedAreOutdated
  <2>10. OutdatedLeave'
    <3> SUFFICES ASSUME NEW n \in files', Outdated(n)',
                        stage'[n] \in {"transcribing", "released"}
                 PROVE  n \in missed' \/ \E d \in ClipIDs : n \in doomed'[d]
      BY DEF OutdatedLeave
    <3>1. PICK d \in Released' : n + Window <= d
      BY DEF Outdated
    <3>2. n \in ClipIDs /\ d \in ClipIDs /\ d <= watermark'
      BY <1>1, <1>9, <2>6, <3>1 DEF WatermarkIsNewest, Released, Enabled
    <3>3. n \notin protected'
      BY <2>5, <3>2 DEF HeldStages
    <3>4. n + Window <= watermark'
      BY <2>4, <3>1, <3>2 DEF TypeOK, ClipIDs
    <3>5. n \in names
      BY <1>1, <3>3, <3>4 DEF names, Listed
    <3> QED
      BY <2>3, <3>5
  <2>11. HeldWhileWorking'
    BY <1>9, <2>5 DEF HeldWhileWorking, Enabled
  <2> QED
    BY <1>6, <1>7, <2>4, <2>6, <2>9, <2>10, <2>11 DEF Inv
<1> QED
  BY <1>8, <1>9

LEMMA RemoveStep ==
    ASSUME Inv, NEW c \in ClipIDs, NEW n \in ClipIDs, Remove(c, n)
    PROVE  Inv'
<1>1. /\ doomed \in [ClipIDs -> SUBSET ClipIDs] /\ n \in doomed[c]
      /\ Outdated(n)
      /\ stage[n] \in {"released", "dropped"} \/ n \in Leftovers
  BY DEF Inv, TypeOK, Remove, DoomedAreOutdated
<1>2. /\ UNCHANGED <<stage, protected, watermark, consumed>>
      /\ doomed' = [doomed EXCEPT ![c] = @ \ {n}]
      /\ files' = files \ {n} \/ (files' = files /\ n \in missed')
      /\ missed \subseteq missed'
  BY DEF Remove
<1>3. Released' = Released /\ \A d : Outdated(d)' <=> Outdated(d)
  BY <1>2 DEF Released, Outdated
<1>4. TypeOK'
  BY <1>1 DEF Inv, TypeOK, Remove
<1>5. HeldWhileWorking' /\ WatermarkIsNewest'
  BY <1>2, <1>3 DEF Inv, HeldWhileWorking, WatermarkIsNewest
<1>6. DoomedAreOutdated'
  BY <1>1, <1>2, <1>3 DEF Inv, DoomedAreOutdated
<1>7. FilesAreWritten' /\ NeededKeptButLeftovers'
  BY <1>1, <1>2, <1>3
  DEF Inv, FilesAreWritten, NeededKeptButLeftovers, MistakenForLeftover, InUse
<1>8. RecentKept'
  BY <1>1, <1>2, <1>3 DEF Inv, RecentKept
<1>9. OutdatedLeave'
  BY <1>1, <1>2, <1>3 DEF Inv, OutdatedLeave
<1> QED
  BY <1>4, <1>5, <1>6, <1>7, <1>8, <1>9 DEF Inv

-----------------------------------------------------------------------------
LEMMA InvStep ==
    ASSUME Inv, [Next]_vars
    PROVE  Inv'
<1>0. protected \in SUBSET ClipIDs /\ files \in SUBSET ClipIDs
      /\ consumed \in SUBSET ClipIDs
  BY DEF Inv, TypeOK
<1>1. ASSUME NEW c \in ClipIDs, NoTranscript(c) PROVE Inv'
  <2>1. Goes(c, "transcribing", "dropped")
    BY <1>1 DEF NoTranscript
  <2>2. protected' = IF Enabled /\ "dropped" \in HeldStages THEN protected \cup {c}
                     ELSE protected \ {c}
    BY <1>0, <1>1, <2>1
    DEF NoTranscript, Inv, HeldWhileWorking, HeldStages, Goes
  <2>3. "transcribing" \in Stages /\ "dropped" \in Stages
    BY DEF Stages
  <2> QED
    BY <1>0, <1>1, <2>1, <2>2, <2>3, WorkStep DEF NoTranscript
<1>2. ASSUME NEW c \in ClipIDs, Protect(c) PROVE Inv'
  <2>1. Goes(c, "transcribing", "protected")
    BY <1>2 DEF Protect
  <2>2. protected' = IF Enabled /\ "protected" \in HeldStages THEN protected \cup {c}
                     ELSE protected \ {c}
    BY <1>0, <1>2, <2>1
    DEF Protect, Inv, HeldWhileWorking, HeldStages, Goes
  <2>3. "transcribing" \in Stages /\ "protected" \in Stages
    BY DEF Stages
  <2> QED
    BY <1>0, <1>2, <2>1, <2>2, <2>3, WorkStep DEF Protect
<1>3. ASSUME NEW c \in ClipIDs, Write(c) PROVE Inv'
  <2>1. Goes(c, "protected", "written")
    BY <1>3 DEF Write
  <2>2. protected' = IF Enabled /\ "written" \in HeldStages THEN protected \cup {c}
                     ELSE protected \ {c}
    BY <1>0, <1>3, <2>1
    DEF Write, Inv, HeldWhileWorking, HeldStages, Goes
  <2>3. "protected" \in Stages /\ "written" \in Stages
    BY DEF Stages
  <2> QED
    BY <1>0, <1>3, <2>1, <2>2, <2>3, WorkStep DEF Write
<1>4. ASSUME NEW c \in ClipIDs, WriteFails(c) PROVE Inv'
  <2>1. Goes(c, "protected", "failed")
    BY <1>4 DEF WriteFails
  <2>2. protected' = IF Enabled /\ "failed" \in HeldStages THEN protected \cup {c}
                     ELSE protected \ {c}
    BY <1>0, <1>4, <2>1
    DEF WriteFails, Inv, HeldWhileWorking, HeldStages, Goes
  <2>3. "protected" \in Stages /\ "failed" \in Stages
    BY DEF Stages
  <2> QED
    BY <1>0, <1>4, <2>1, <2>2, <2>3, WorkStep DEF WriteFails
<1>5. ASSUME NEW c \in ClipIDs, Unprotect(c) PROVE Inv'
  <2>1. Goes(c, "failed", "dropped")
    BY <1>5 DEF Unprotect
  <2>2. protected' = IF Enabled /\ "dropped" \in HeldStages THEN protected \cup {c}
                     ELSE protected \ {c}
    BY <1>0, <1>5, <2>1
    DEF Unprotect, Inv, HeldWhileWorking, HeldStages, Goes
  <2>3. "failed" \in Stages /\ "dropped" \in Stages
    BY DEF Stages
  <2> QED
    BY <1>0, <1>5, <2>1, <2>2, <2>3, WorkStep DEF Unprotect
<1>6. ASSUME NEW c \in ClipIDs, RunCommand(c) PROVE Inv'
  <2>1. Goes(c, "written", "running")
    BY <1>6 DEF RunCommand
  <2>2. protected' = IF Enabled /\ "running" \in HeldStages THEN protected \cup {c}
                     ELSE protected \ {c}
    BY <1>0, <1>6, <2>1
    DEF RunCommand, Inv, HeldWhileWorking, HeldStages, Goes
  <2>3. "written" \in Stages /\ "running" \in Stages
    BY DEF Stages
  <2>4. c \in files \/ MistakenForLeftover(c)
    BY <2>1 DEF Inv, NeededKeptButLeftovers, InUse, Goes
  <2> QED
    BY <1>0, <1>6, <2>1, <2>2, <2>3, <2>4, WorkStep DEF RunCommand
<1>7. ASSUME NEW c \in ClipIDs, NoCommand(c) PROVE Inv'
  <2>1. Goes(c, "written", "finished")
    BY <1>7 DEF NoCommand
  <2>2. protected' = IF Enabled /\ "finished" \in HeldStages THEN protected \cup {c}
                     ELSE protected \ {c}
    BY <1>0, <1>7, <2>1
    DEF NoCommand, Inv, HeldWhileWorking, HeldStages, Goes
  <2>3. "written" \in Stages /\ "finished" \in Stages
    BY DEF Stages
  <2>4. c \in files \/ MistakenForLeftover(c)
    BY <2>1 DEF Inv, NeededKeptButLeftovers, InUse, Goes
  <2> QED
    BY <1>0, <1>7, <2>1, <2>2, <2>3, <2>4, WorkStep DEF NoCommand
<1>8. ASSUME NEW c \in ClipIDs, CommandExits(c) PROVE Inv'
  <2>1. Goes(c, "running", "finished")
    BY <1>8 DEF CommandExits
  <2>2. protected' = IF Enabled /\ "finished" \in HeldStages THEN protected \cup {c}
                     ELSE protected \ {c}
    BY <1>0, <1>8, <2>1
    DEF CommandExits, Inv, HeldWhileWorking, HeldStages, Goes
  <2>3. "running" \in Stages /\ "finished" \in Stages
    BY DEF Stages
  <2>4. c \in files \/ MistakenForLeftover(c)
    BY <2>1 DEF Inv, NeededKeptButLeftovers, InUse, Goes
  <2> QED
    BY <1>0, <1>8, <2>1, <2>2, <2>3, <2>4, WorkStep DEF CommandExits
<1>9. CASE UNCHANGED vars
  BY <1>9 DEF vars, Inv, TypeOK, HeldWhileWorking, WatermarkIsNewest,
            DoomedAreOutdated, FilesAreWritten, NeededKeptButLeftovers,
            MistakenForLeftover, InUse, RecentKept, OutdatedLeave, Released,
            Outdated
<1> QED
  BY <1>1, <1>2, <1>3, <1>4, <1>5, <1>6, <1>7, <1>8, <1>9, ReleaseStep, RemoveStep
  DEF Next, Transcript, Terminated

LEMMA Invariant == Spec => []Inv
<1>1. Inv /\ [Next]_vars => Inv'
  BY InvStep
<1> QED
  BY InvInit, <1>1, PTL DEF Spec

(* Every reachable state is well typed. *)
THEOREM TypeCorrect == Spec => []TypeOK
<1>1. Inv => TypeOK
  BY DEF Inv
<1> QED
  BY Invariant, <1>1, PTL

(* No file is removed while its command may need it, unless a leftover had *)
(* its name.                                                               *)
THEOREM FilesInUseStay == Spec => []NeededKeptButLeftovers
<1>1. Inv => NeededKeptButLeftovers
  BY DEF Inv
<1> QED
  BY Invariant, <1>1, PTL

(* Where startup did empty the directory, that is what the documentation   *)
(* says: no file is removed while its command may need it.                 *)
THEOREM NoneNeededGoes ==
    ASSUME Leftovers = {}
    PROVE  Spec => []NeededKept
<1>1. Inv => NeededKept
  BY DEF Inv, NeededKeptButLeftovers, MistakenForLeftover, NeededKept
<1> QED
  BY Invariant, <1>1, PTL

(* The files of the window stay. *)
THEOREM WindowStays == Spec => []RecentKept
<1>1. Inv => RecentKept
  BY DEF Inv
<1> QED
  BY Invariant, <1>1, PTL

(* The files before the window leave. *)
THEOREM WindowLimits == Spec => []OutdatedLeave
<1>1. Inv => OutdatedLeave
  BY DEF Inv
<1> QED
  BY Invariant, <1>1, PTL

(* No prune takes away a file that is in use, unless for a leftover of its *)
(* name, or in the window.                                                 *)
THEOREM FilesStay == Spec => []FilesKept
  BY FilesInUseStay, WindowStays, PTL DEF FilesKept
=============================================================================

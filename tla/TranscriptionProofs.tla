------------------------ MODULE TranscriptionProofs ------------------------
(***************************************************************************)
(* Proofs about Transcription, for any number of local clips and requests. *)
(* The two counters are first shown to count: everything else follows from *)
(* comparing them with their bounds.                                       *)
(***************************************************************************)
EXTENDS Transcription, FiniteSetTheorems, TLAPS

-----------------------------------------------------------------------------
(* Moving one goroutine changes the number of those in a set of states by  *)
(* at most one.                                                            *)
One(b) == IF b THEN 1 ELSE 0

LEMMA Moves ==
    ASSUME NEW D, IsFiniteSet(D), NEW T, NEW f \in [D -> T],
           NEW x \in D, NEW to \in T, NEW S
    PROVE  LET A == {d \in D : f[d] \in S}
               B == {d \in D : [f EXCEPT ![x] = to][d] \in S}
           IN  /\ Cardinality(A) \in Nat
               /\ Cardinality(B) \in Nat
               /\ Cardinality(B) = Cardinality(A) + One(to \in S) - One(f[x] \in S)
<1> DEFINE A == {d \in D : f[d] \in S}
           B == {d \in D : [f EXCEPT ![x] = to][d] \in S}
<1>1. IsFiniteSet(A) /\ IsFiniteSet(B)
  BY FS_Subset
<1>2. Cardinality(A) \in Nat /\ Cardinality(B) \in Nat
  BY <1>1, FS_CardinalityType
<1>3. CASE to \in S /\ f[x] \notin S
  <2>1. B = A \cup {x} /\ x \notin A
    BY <1>3
  <2> QED
    BY <1>1, <1>2, <1>3, <2>1, FS_AddElement DEF One
<1>4. CASE to \notin S /\ f[x] \in S
  <2>1. B = A \ {x} /\ x \in A
    BY <1>4
  <2>2. Cardinality(A \ {x}) = Cardinality(A) - 1
    BY <1>1, <2>1, FS_RemoveElement
  <2>3. One(to \in S) = 0 /\ One(f[x] \in S) = 1
    BY <1>4 DEF One
  <2> QED
    BY <1>2, <2>1, <2>2, <2>3
<1>5. CASE to \in S <=> f[x] \in S
  <2>1. B = A
    BY <1>5
  <2> QED
    BY <1>2, <1>5, <2>1 DEF One
<1> QED
  BY <1>3, <1>4, <1>5

-----------------------------------------------------------------------------
(* The counters.  That they never go below zero is part of their type and  *)
(* holds because they count.                                               *)
CountInv == TypeOK /\ SlotsCounted /\ OngoingCounted

LEMMA Counts ==
    ASSUME CountInv
    PROVE  /\ IsFiniteSet(Holders) /\ IsFiniteSet(HTTPTranscribing)
           /\ IsFiniteSet(LocalTranscribing)
           /\ Cardinality(Holders) \in Nat
           /\ Cardinality(HTTPTranscribing) \in Nat
           /\ Cardinality(LocalTranscribing) \in Nat
<1>1. /\ IsFiniteSet(Holders) /\ IsFiniteSet(HTTPTranscribing)
      /\ IsFiniteSet(LocalTranscribing)
  BY ClipsAssumption, FS_Subset DEF Holders, HTTPTranscribing, In, LocalTranscribing
<1> QED
  BY <1>1, FS_CardinalityType

(* Every step of a request that keeps both accounts is correct.            *)
LEMMA HTTPStep ==
    ASSUME CountInv, NEW h \in Submissions,
           NEW from \in HTTPStates, NEW to \in HTTPStates,
           HTTPGoes(h, from, to),
           httpAdmitted' = httpAdmitted + One(to \in Holding) - One(from \in Holding),
           ongoing' = ongoing + One(to \in Counted) - One(from \in Counted),
           ctxDone' \in BOOLEAN, local' = local, idle' \in BOOLEAN
    PROVE  CountInv'
<1>1. http \in [Submissions -> HTTPStates] /\ http' = [http EXCEPT ![h] = to]
      /\ http[h] = from
  BY DEF CountInv, TypeOK, HTTPGoes
<1>2. http' \in [Submissions -> HTTPStates]
  BY <1>1
<1>3. /\ Cardinality(Holders)' \in Nat
      /\ Cardinality(Holders)' = Cardinality(Holders)
                                 + One(to \in Holding) - One(from \in Holding)
  BY <1>1, ClipsAssumption, Moves DEF Holders, In
<1>4. /\ Cardinality(HTTPTranscribing)' \in Nat
      /\ Cardinality(HTTPTranscribing)' = Cardinality(HTTPTranscribing)
                                 + One(to \in Counted) - One(from \in Counted)
  BY <1>1, ClipsAssumption, Moves DEF HTTPTranscribing, In
<1>5. LocalTranscribing' = LocalTranscribing
  BY DEF LocalTranscribing
<1>6. One(to \in Holding) \in {0, 1} /\ One(from \in Holding) \in {0, 1}
      /\ One(to \in Counted) \in {0, 1} /\ One(from \in Counted) \in {0, 1}
  BY DEF One
<1>7. SlotsCounted' /\ httpAdmitted' \in Nat
  BY <1>3 DEF CountInv, SlotsCounted
<1>8. OngoingCounted' /\ ongoing' \in Nat
  BY <1>4, <1>5, <1>6, Counts DEF CountInv, OngoingCounted
<1> QED
  BY <1>2, <1>7, <1>8 DEF CountInv, TypeOK

LEMMA LocalStep ==
    ASSUME CountInv, NEW c \in Locals,
           NEW from \in LocalStates, NEW to \in LocalStates,
           LocalGoes(c, from, to),
           ongoing' = ongoing + One(to = "whisper") - One(from = "whisper"),
           UNCHANGED <<ctxDone, http, httpAdmitted>>, idle' \in BOOLEAN
    PROVE  CountInv'
<1>1. local \in [Locals -> LocalStates] /\ local' = [local EXCEPT ![c] = to]
      /\ local[c] = from
  BY DEF CountInv, TypeOK, LocalGoes
<1>2. local' \in [Locals -> LocalStates]
  BY <1>1
<1>3. /\ Cardinality(LocalTranscribing)' \in Nat
      /\ Cardinality(LocalTranscribing)' = Cardinality(LocalTranscribing)
                                   + One(to = "whisper") - One(from = "whisper")
  <2>1. /\ LocalTranscribing = {d \in Locals : local[d] \in {"whisper"}}
        /\ LocalTranscribing' = {d \in Locals : [local EXCEPT ![c] = to][d] \in {"whisper"}}
    BY <1>1 DEF LocalTranscribing
  <2>2. /\ (to = "whisper") <=> (to \in {"whisper"})
        /\ (from = "whisper") <=> (from \in {"whisper"})
    OBVIOUS
  <2>3. /\ One(to = "whisper") = One(to \in {"whisper"})
        /\ One(from = "whisper") = One(from \in {"whisper"})
    BY DEF One
  <2>4. \A S : LET A == {d \in Locals : local[d] \in S}
                   B == {d \in Locals : [local EXCEPT ![c] = to][d] \in S}
               IN  /\ Cardinality(B) \in Nat
                   /\ Cardinality(B) = Cardinality(A) + One(to \in S)
                                       - One(local[c] \in S)
    BY <1>1, ClipsAssumption, Moves
  <2> QED
    BY <1>1, <2>1, <2>3, <2>4
<1>4. Holders' = Holders /\ HTTPTranscribing' = HTTPTranscribing
  BY DEF Holders, HTTPTranscribing, In
<1>5. One(to = "whisper") \in {0, 1} /\ One(from = "whisper") \in {0, 1}
  BY DEF One
<1>6. OngoingCounted' /\ ongoing' \in Nat
  BY <1>3, <1>4, <1>5, Counts DEF CountInv, OngoingCounted
<1> QED
  BY <1>2, <1>4, <1>6 DEF CountInv, TypeOK, SlotsCounted

-----------------------------------------------------------------------------
LEMMA CountInit == Init => CountInv
<1> SUFFICES ASSUME Init PROVE CountInv
  OBVIOUS
<1>1. Holders = {} /\ HTTPTranscribing = {} /\ LocalTranscribing = {}
  BY DEF Init, Holders, HTTPTranscribing, In, Holding, Counted, LocalTranscribing
<1>2. Cardinality(Holders) = 0 /\ Cardinality(HTTPTranscribing) = 0
      /\ Cardinality(LocalTranscribing) = 0
  BY <1>1, FS_EmptySet
<1>3. SlotsCounted /\ OngoingCounted
  BY <1>2 DEF Init, SlotsCounted, OngoingCounted
<1>4. TypeOK
  BY DEF Init, TypeOK, LocalStates, HTTPStates
<1> QED
  BY <1>3, <1>4 DEF CountInv

LEMMA CountStep ==
    ASSUME CountInv, [Next]_vars
    PROVE  CountInv'
<1>0. httpAdmitted \in Nat /\ ongoing \in Nat /\ ctxDone \in BOOLEAN
      /\ idle \in BOOLEAN
  BY DEF CountInv, TypeOK
<1>1. ASSUME NEW h \in Submissions, Arrive(h) PROVE CountInv'
  <2>1. HTTPGoes(h, "new", "arrived")
    BY <1>1 DEF Arrive
  <2> QED
    BY <1>0, <1>1, <2>1, HTTPStep
    DEF Arrive, HTTPStates, Holding, Counted, One
<1>2. ASSUME NEW h \in Submissions, Refuse(h) PROVE CountInv'
  <2>1. HTTPGoes(h, "refusing", "refused")
    BY <1>2 DEF Refuse
  <2> QED
    BY <1>0, <1>2, <2>1, HTTPStep
    DEF Refuse, HTTPStates, Holding, Counted, One
<1>3. ASSUME NEW h \in Submissions, Decode(h) PROVE CountInv'
  <2>1. HTTPGoes(h, "admitted", "decoded")
    BY <1>3 DEF Decode
  <2> QED
    BY <1>0, <1>3, <2>1, HTTPStep
    DEF Decode, HTTPStates, Holding, Counted, One
<1>4. ASSUME NEW h \in Submissions, Accept(h) PROVE CountInv'
  <2>1. HTTPGoes(h, "decoded", "accepted")
    BY <1>4 DEF Accept
  <2> QED
    BY <1>0, <1>4, <2>1, HTTPStep
    DEF Accept, HTTPStates, Holding, Counted, One
<1>5. ASSUME NEW h \in Submissions, HTTPShort(h) PROVE CountInv'
  <2>1. HTTPGoes(h, "accepted", "left")
    BY <1>5 DEF HTTPShort
  <2> QED
    BY <1>0, <1>5, <2>1, HTTPStep
    DEF HTTPShort, HTTPStates, Holding, Counted, One
<1>6. ASSUME NEW h \in Submissions, HTTPLong(h) PROVE CountInv'
  <2>1. HTTPGoes(h, "accepted", "trying")
    BY <1>6 DEF HTTPLong
  <2> QED
    BY <1>0, <1>6, <2>1, HTTPStep
    DEF HTTPLong, HTTPStates, Holding, Counted, One
<1>7. ASSUME NEW h \in Submissions, Reserve(h) PROVE CountInv'
  <2>1. HTTPGoes(h, "trying", "reserved")
    BY <1>7 DEF Reserve
  <2> QED
    BY <1>0, <1>7, <2>1, HTTPStep
    DEF Reserve, HTTPStates, Holding, Counted, One
<1>8. ASSUME NEW h \in Submissions, MustWait(h) PROVE CountInv'
  <2>1. HTTPGoes(h, "trying", "waiting")
    BY <1>8 DEF MustWait
  <2> QED
    BY <1>0, <1>8, <2>1, HTTPStep
    DEF MustWait, HTTPStates, Holding, Counted, One
<1>9. ASSUME NEW h \in Submissions, WakeUp(h) PROVE CountInv'
  <2>1. HTTPGoes(h, "waiting", "trying")
    BY <1>9 DEF WakeUp
  <2>2. /\ idle' \in BOOLEAN
        /\ UNCHANGED <<ctxDone, local, httpAdmitted, ongoing>>
    BY <1>9 DEF WakeUp
  <2> QED
    BY <1>0, <2>1, <2>2, HTTPStep DEF HTTPStates, Holding, Counted, One
<1>10. ASSUME NEW h \in Submissions, GiveUp(h) PROVE CountInv'
  <2>1. HTTPGoes(h, "waiting", "dropping")
    BY <1>10 DEF GiveUp
  <2> QED
    BY <1>0, <1>10, <2>1, HTTPStep
    DEF GiveUp, HTTPStates, Holding, Counted, One
<1>11. ASSUME NEW h \in Submissions, ReleaseAndDrop(h) PROVE CountInv'
  <2>1. HTTPGoes(h, "dropping", "dropped")
    BY <1>11 DEF ReleaseAndDrop
  <2> QED
    BY <1>0, <1>11, <2>1, HTTPStep
    DEF ReleaseAndDrop, HTTPStates, Holding, Counted, One
<1>12. ASSUME NEW h \in Submissions, ReleaseAndTranscribe(h) PROVE CountInv'
  <2>1. HTTPGoes(h, "reserved", "whisper")
    BY <1>12 DEF ReleaseAndTranscribe
  <2> QED
    BY <1>0, <1>12, <2>1, HTTPStep
    DEF ReleaseAndTranscribe, HTTPStates, Holding, Counted, One
<1>13. ASSUME NEW h \in Submissions, HTTPSignals(h) PROVE CountInv'
  <2>1. HTTPGoes(h, "signal", "left")
    BY <1>13 DEF HTTPSignals
  <2> QED
    BY <1>0, <1>13, <2>1, HTTPStep
    DEF HTTPSignals, HTTPStates, Holding, Counted, One
<1>14. ASSUME NEW h \in Submissions, Admit(h) PROVE CountInv'
  <2> PICK to \in {"refusing", "admitted"} : HTTPGoes(h, "arrived", to)
    BY <1>14 DEF Admit
  <2> QED
    BY <1>0, <1>14, HTTPStep
    DEF Admit, HTTPStates, Holding, Counted, One
<1>15. ASSUME NEW h \in Submissions, Reject(h) PROVE CountInv'
  <2> PICK stage \in {"admitted", "decoded"} : HTTPGoes(h, stage, "rejected")
    BY <1>15 DEF Reject
  <2> QED
    BY <1>0, <1>15, HTTPStep
    DEF Reject, HTTPStates, Holding, Counted, One
<1>16. ASSUME NEW h \in Submissions, HTTPWhisperReturns(h) PROVE CountInv'
  <2> PICK to \in {"signal", "left"} : HTTPGoes(h, "whisper", to)
    BY <1>16 DEF HTTPWhisperReturns
  <2> QED
    BY <1>0, <1>16, HTTPStep
    DEF HTTPWhisperReturns, HTTPStates, Holding, Counted, One
<1>17. ASSUME NEW c \in Locals, LocalShort(c) PROVE CountInv'
  <2>1. LocalGoes(c, "recording", "left")
    BY <1>17 DEF LocalShort
  <2> QED
    BY <1>0, <1>17, <2>1, LocalStep DEF LocalShort, LocalStates, One
<1>18. ASSUME NEW c \in Locals, LocalLong(c) PROVE CountInv'
  <2>1. LocalGoes(c, "recording", "whisper")
    BY <1>18 DEF LocalLong
  <2> QED
    BY <1>0, <1>18, <2>1, LocalStep DEF LocalLong, LocalStates, One
<1>19. ASSUME NEW c \in Locals, LocalSignals(c) PROVE CountInv'
  <2>1. LocalGoes(c, "signal", "left")
    BY <1>19 DEF LocalSignals
  <2> QED
    BY <1>0, <1>19, <2>1, LocalStep DEF LocalSignals, LocalStates, One
<1>20. ASSUME NEW c \in Locals, LocalWhisperReturns(c) PROVE CountInv'
  <2> PICK to \in {"signal", "left"} : LocalGoes(c, "whisper", to)
    BY <1>20 DEF LocalWhisperReturns
  <2> QED
    BY <1>0, <1>20, LocalStep DEF LocalWhisperReturns, LocalStates, One
<1>21. ASSUME Cancel \/ UNCHANGED vars PROVE CountInv'
  BY <1>21 DEF Cancel, vars, CountInv, TypeOK, SlotsCounted, OngoingCounted,
            Holders, HTTPTranscribing, LocalTranscribing, In
<1> QED
  BY <1>1, <1>2, <1>3, <1>4, <1>5, <1>6, <1>7, <1>8, <1>9, <1>10, <1>11, <1>12, <1>13, <1>14, <1>15, <1>16, <1>17, <1>18, <1>19, <1>20, <1>21
  DEF Next, LocalRuns, HTTPRuns, Answers, Queues, Terminated

(* Every reachable state is well typed, and both counters are exact.       *)
LEMMA CountInvariant == Spec => []CountInv
<1>1. CountInv /\ [Next]_vars => CountInv'
  BY CountStep
<1> QED
  BY CountInit, <1>1, PTL DEF Spec

(* The atomics and the channel stay in their types. *)
THEOREM TypeCorrect == Spec => []TypeOK
<1>1. CountInv => TypeOK
  BY DEF CountInv
<1> QED
  BY CountInvariant, <1>1, PTL

(* No path of a handler or of its goroutine leaks an admission slot or     *)
(* releases one twice.                                                     *)
THEOREM SlotsAreExact == Spec => []SlotsCounted
<1>1. CountInv => SlotsCounted
  BY DEF CountInv
<1> QED
  BY CountInvariant, <1>1, PTL

(* No transcription is forgotten or counted twice.                         *)
THEOREM OngoingIsExact == Spec => []OngoingCounted
<1>1. CountInv => OngoingCounted
  BY DEF CountInv
<1> QED
  BY CountInvariant, <1>1, PTL

-----------------------------------------------------------------------------
(* What the counters are compared with.                                    *)
LEMMA NoneOngoing ==
    ASSUME CountInv, ongoing = 0
    PROVE  HTTPTranscribing = {} /\ LocalTranscribing = {}
<1>1. Cardinality(HTTPTranscribing) = 0 /\ Cardinality(LocalTranscribing) = 0
  BY Counts DEF CountInv, OngoingCounted
<1> QED
  BY <1>1, Counts, FS_EmptySet

LEMMA QueuedHold ==
    ASSUME CountInv
    PROVE  /\ IsFiniteSet(Admitted) /\ Cardinality(Admitted) \in Nat
           /\ Cardinality(Admitted) <= httpAdmitted
<1>1. Admitted \subseteq Holders
  BY DEF Admitted, Holders, In, Queued, Holding
<1>2. IsFiniteSet(Admitted) /\ Cardinality(Admitted) <= Cardinality(Holders)
  BY <1>1, Counts, FS_Subset
<1> QED
  BY <1>2, FS_CardinalityType DEF CountInv, SlotsCounted

LEMMA AdmitsWithinBound ==
    ASSUME CountInv, NEW h \in Submissions, Admit(h), AdmissionBound
    PROVE  AdmissionBound'
<1>1. http \in [Submissions -> HTTPStates] /\ httpAdmitted \in Nat
  BY DEF CountInv, TypeOK
<1>2. CASE httpAdmitted + 1 > MaxHTTPAdmitted
  <2>1. Admitted' \subseteq Admitted
    BY <1>1, <1>2 DEF Admit, HTTPGoes, Admitted, In, Queued
  <2> QED
    BY <2>1, QueuedHold, FS_Subset, FS_CardinalityType
    DEF AdmissionBound, MaxHTTPAdmitted
<1>3. CASE ~(httpAdmitted + 1 > MaxHTTPAdmitted)
  <2>1. Admitted' \subseteq Admitted \cup {h}
    BY <1>1, <1>3 DEF Admit, HTTPGoes, Admitted, In, Queued
  <2>2. /\ IsFiniteSet(Admitted \cup {h})
        /\ Cardinality(Admitted \cup {h}) \in Nat
        /\ Cardinality(Admitted \cup {h}) <= Cardinality(Admitted) + 1
    BY QueuedHold, FS_AddElement, FS_CardinalityType
  <2>3. /\ Cardinality(Admitted') \in Nat
        /\ Cardinality(Admitted') <= Cardinality(Admitted \cup {h})
    BY <2>1, <2>2, FS_Subset, FS_CardinalityType
  <2> QED
    BY <1>1, <1>3, <2>2, <2>3, QueuedHold DEF AdmissionBound, MaxHTTPAdmitted
<1> QED
  BY <1>2, <1>3

LEMMA BoundStep ==
    ASSUME CountInv, AdmissionBound, [Next]_vars
    PROVE  AdmissionBound'
<1>1. CASE \E h \in Submissions : Admit(h)
  BY <1>1, AdmitsWithinBound
<1>2. CASE ~\E h \in Submissions : Admit(h)
  <2>1. http \in [Submissions -> HTTPStates]
    BY DEF CountInv, TypeOK
  <2>2. Admitted' \subseteq Admitted
    BY <1>2, <2>1
    DEF Next, vars, Admitted, In, Queued, HTTPGoes, LocalShort, LocalLong,
        LocalRuns, LocalWhisperReturns, LocalSignals, Arrive, HTTPRuns,
        Answers, Refuse, Decode, Reject, Accept, HTTPShort, HTTPLong, Queues,
        Reserve, MustWait, WakeUp, GiveUp, ReleaseAndDrop,
        ReleaseAndTranscribe, HTTPWhisperReturns, HTTPSignals, Cancel,
        Terminated
  <2> QED
    BY <2>2, QueuedHold, FS_Subset, FS_CardinalityType
    DEF AdmissionBound, MaxHTTPAdmitted
<1> QED
  BY <1>1, <1>2

(* Never more than two requests are admitted and not yet transcribing.     *)
THEOREM AtMostTwoAdmitted == Spec => []AdmissionBound
<1>1. Init => AdmissionBound
  <2> SUFFICES ASSUME Init PROVE AdmissionBound
    OBVIOUS
  <2>1. Admitted = {}
    BY DEF Init, Admitted, In, Queued
  <2> QED
    BY <2>1, FS_EmptySet DEF AdmissionBound, MaxHTTPAdmitted
<1>2. CountInv /\ AdmissionBound /\ [Next]_vars => AdmissionBound'
  BY BoundStep
<1> QED
  BY CountInvariant, <1>1, <1>2, PTL DEF Spec

-----------------------------------------------------------------------------
(* HTTP transcriptions.                                                    *)
LEMMA OneStep ==
    ASSUME CountInv, OneHTTPTranscription, [Next]_vars
    PROVE  OneHTTPTranscription'
<1>1. http \in [Submissions -> HTTPStates]
  BY DEF CountInv, TypeOK
<1>2. ASSUME NEW h \in Submissions, Reserve(h)
      PROVE  OneHTTPTranscription'
  <2>1. HTTPTranscribing = {}
    BY <1>2, NoneOngoing DEF Reserve
  <2>2. HTTPTranscribing' \subseteq {h}
    BY <1>1, <1>2, <2>1 DEF Reserve, HTTPGoes, HTTPTranscribing, In
  <2> QED
    BY <2>2 DEF OneHTTPTranscription
<1>3. CASE ~\E h \in Submissions : Reserve(h)
  <2>1. HTTPTranscribing' \subseteq HTTPTranscribing
    BY <1>1, <1>3
    DEF Next, vars, HTTPTranscribing, In, Counted, HTTPGoes, LocalShort,
        LocalLong, LocalRuns, LocalWhisperReturns, LocalSignals, Arrive,
        HTTPRuns, Answers, Admit, Refuse, Decode, Reject, Accept, HTTPShort,
        HTTPLong, Queues, MustWait, WakeUp, GiveUp, ReleaseAndDrop,
        ReleaseAndTranscribe, HTTPWhisperReturns, HTTPSignals, Cancel,
        Terminated
  <2> QED
    BY <2>1 DEF OneHTTPTranscription
<1> QED
  BY <1>2, <1>3

(* HTTP requests are transcribed one at a time.                            *)
THEOREM HTTPOneAtATime == Spec => []OneHTTPTranscription
<1>1. Init => OneHTTPTranscription
  BY DEF Init, OneHTTPTranscription, HTTPTranscribing, In, Counted
<1>2. CountInv /\ OneHTTPTranscription /\ [Next]_vars => OneHTTPTranscription'
  BY OneStep
<1> QED
  BY CountInvariant, <1>1, <1>2, PTL DEF Spec

(* An HTTP transcription starts only when no local one is in flight.       *)
THEOREM HTTPStartsAlone == Spec => HTTPWaitsForLocal
<1>1. ASSUME CountInv, [Next]_vars
      PROVE  StartsAlone
  <2> SUFFICES ASSUME NEW h \in Submissions, http[h] = "trying",
                      http'[h] = "reserved"
               PROVE  LocalTranscribing = {}
    BY DEF StartsAlone
  <2>1. http \in [Submissions -> HTTPStates]
    BY <1>1 DEF CountInv, TypeOK
  <2>2. ongoing = 0
    BY <1>1, <2>1
    DEF Next, vars, HTTPGoes, LocalShort, LocalLong, LocalRuns,
        LocalWhisperReturns, LocalSignals, Arrive, HTTPRuns, Answers, Admit,
        Refuse, Decode, Reject, Accept, HTTPShort, HTTPLong, Queues, Reserve,
        MustWait, WakeUp, GiveUp, ReleaseAndDrop, ReleaseAndTranscribe,
        HTTPWhisperReturns, HTTPSignals, Cancel, Terminated
  <2> QED
    BY <1>1, <2>2, NoneOngoing
<1>2. CountInv /\ [Next]_vars => [StartsAlone]_vars
  BY <1>1
<1> QED
  BY CountInvariant, <1>2, PTL DEF Spec, HTTPWaitsForLocal

-----------------------------------------------------------------------------
(* Wake-ups.                                                               *)
LEMMA WakeupStep ==
    ASSUME CountInv, NoLostWakeup, [Next]_vars
    PROVE  NoLostWakeup'
<1>1. /\ http \in [Submissions -> HTTPStates]
      /\ local \in [Locals -> LocalStates]
      /\ ongoing \in Nat
  BY DEF CountInv, TypeOK
<1> USE <1>1 DEF NoLostWakeup, Signalling, In, HTTPGoes, LocalGoes
<1>2. ASSUME NEW c \in Locals, LocalShort(c) \/ LocalLong(c) \/ LocalRuns(c)
      PROVE  NoLostWakeup'
  BY <1>2 DEF LocalShort, LocalLong, LocalRuns, LocalWhisperReturns, LocalSignals
<1>3. ASSUME NEW h \in Submissions, Arrive(h) \/ Answers(h)
      PROVE  NoLostWakeup'
  BY <1>3 DEF Arrive, Answers, Admit, Refuse, Decode, Reject, Accept
<1>4. ASSUME NEW h \in Submissions, HTTPShort(h) \/ HTTPLong(h) \/ Queues(h)
      PROVE  NoLostWakeup'
  BY <1>4 DEF HTTPShort, HTTPLong, Queues, Reserve, MustWait, WakeUp, GiveUp
<1>5. ASSUME NEW h \in Submissions,
             \/ ReleaseAndDrop(h) \/ ReleaseAndTranscribe(h)
             \/ HTTPWhisperReturns(h) \/ HTTPSignals(h)
      PROVE  NoLostWakeup'
  BY <1>5 DEF ReleaseAndDrop, ReleaseAndTranscribe, HTTPWhisperReturns, HTTPSignals
<1>6. CASE Cancel \/ UNCHANGED vars
  BY <1>6 DEF Cancel, vars
<1> QED
  BY <1>2, <1>3, <1>4, <1>5, <1>6 DEF Next, HTTPRuns, Terminated

(* No waiter that could go on is left without a wake-up.                   *)
THEOREM WakeupsAreKept == Spec => []NoLostWakeup
<1>1. Init => NoLostWakeup
  BY DEF Init, NoLostWakeup, In
<1>2. CountInv /\ NoLostWakeup /\ [Next]_vars => NoLostWakeup'
  BY WakeupStep
<1> QED
  BY CountInvariant, <1>1, <1>2, PTL DEF Spec

(* The two counters are exact and the two bounds hold, whatever the order  *)
(* of the atomic operations of handlers and goroutines.                    *)
THEOREM CountersAreExact == Spec => []CountersExact
  BY SlotsAreExact, OngoingIsExact, AtMostTwoAdmitted, HTTPOneAtATime, PTL DEF CountersExact
=============================================================================

--------------------------- MODULE SessionAlignment ---------------------------
(* From the bundle of a session to its aligned session: the inspection of the  *)
(* streams (ingestion/readiness.py with the adapters), its report, the         *)
(* synchronization that follows (synchronization/service.py) and its report,   *)
(* each report being refused by its contract when the parts disagree           *)
(* (contracts/ingestion.py, contracts/synchronization.py).                     *)
(*                                                                             *)
(* The streams are worked off in the order of the code, over a manifest that   *)
(* the loader has accepted; what the files of a stream hold is found when it   *)
(* is inspected. Checksums, fingerprints, values of samples and the texts of   *)
(* issues are left out; an issue is its code. A constructor that refuses its   *)
(* values in the middle of the synchronization ends it like one at its end.    *)
EXTENDS SessionAnnotations

CONSTANTS
  CoreOrder,     \* the modalities, X first
  Manifests,
  Contents(_),   \* tables the files of a stream may hold
  Documents,     \* annotation documents a bundle may hold
  None

Core == ToSet(CoreOrder)
Ref == "task_reference"

VARIABLES
  manifest,
  pc,
  todo,        \* streams not worked off yet
  readiness,   \* of the streams inspected
  found,       \* tables of the ready streams
  window,      \* the end of the session, or None
  aligned,     \* aligned tables, the works of the service
  results,
  documents,
  outcome
inputVars == <<manifest, readiness, found>>
vars == <<inputVars, pc, todo, window, aligned, results, documents, outcome>>

-----------------------------------------------------------------------------
(* The manifest: the descriptors [status, required, known, clockId, clock] of the core *)
(* streams and of a bundle reference (one of the model bundle is put off and takes no  *)
(* part); whether X and U share their file; the master clock, the origin of session    *)
(* time, the phases expected and the revision of the annotations.                      *)

Described == DOMAIN manifest.streams
Descriptor(m) == manifest.streams[m]
Ready == DOMAIN found

SharedXU == manifest.shared /\ Descriptor("X").status = "present" /\ Descriptor("U").status = "present"

Declared(status) ==
  CASE status = "not_applicable" -> "not_applicable"
    [] status = "invalid"        -> "invalid"
    [] OTHER                     -> "unavailable"

-----------------------------------------------------------------------------
(* The adapters. *)

Increasing(rows) == Len(rows) >= 1 /\ \A i \in 2..Len(rows) : rows[i - 1].t < rows[i].t

\* A table of a fixed rate has two rows, and no gap of more than 1.5 median intervals.
Sampled(rows) ==
  LET deltas == [i \in 1..(Len(rows) - 1) |-> rows[i + 1].t - rows[i].t]
  IN  /\ Increasing(rows) /\ Len(rows) >= 2
      /\ \A i \in DOMAIN deltas : 4 * deltas[i] <= 3 * Median2(Periods([j \in Positions(rows) |-> rows[j].t]))

\* A fixation may last no time at all.
FixationsAccepted(fixations, samples) ==
  /\ Len(fixations) >= 1 /\ \A i \in 2..Len(fixations) : fixations[i - 1].start < fixations[i].start
  /\ \A i \in Positions(fixations) :
       /\ fixations[i].start <= fixations[i].end
       /\ samples[1].t <= fixations[i].start /\ fixations[i].end <= samples[Len(samples)].t

AoisAccepted(aois, frames) ==
  /\ Len(aois) >= 1 /\ Unique(aois, ChildKey)
  /\ \A i \in 2..Len(aois) : aois[i - 1].frame <= aois[i].frame
  /\ \A i \in Positions(aois) : \E j \in Positions(frames) : frames[j].key = aois[i].frame

\* The simulator's file is read for X and U together, or not at all.
AdapterAccepts(group, tables) ==
  CASE "X" \in group \/ "U" \in group ->
         group = {"X", "U"} /\ Sampled(tables.samples) /\ tables.samples[1].t >= 0
    [] group = {"I"}   -> Sampled(tables.frame_index) /\ AoisAccepted(tables.aoi_instances, tables.frame_index)
    [] group = {"G"}   -> Sampled(tables.gaze_samples) /\ FixationsAccepted(tables.fixations, tables.gaze_samples)
    [] group = {"EEG"} -> Sampled(tables.samples)
    [] group = {"ECG"} -> /\ Sampled(tables.samples) /\ Increasing(tables.r_peaks)
                          /\ tables.samples[1].t <= tables.r_peaks[1].t
                          /\ tables.r_peaks[Len(tables.r_peaks)].t <= tables.samples[Len(tables.samples)].t
    [] group = {"pilot_camera"} -> Sampled(tables.frame_index)
    [] group = {Ref}   -> Sampled(tables.commanded_path)

-----------------------------------------------------------------------------
(* The inspection. *)

Init ==
  /\ manifest \in Manifests
  /\ pc = "inspect" /\ todo = CoreOrder \o (IF Ref \in Described THEN <<Ref>> ELSE <<>>)
  /\ readiness = [m \in {} |-> None] /\ found = [m \in {} |-> None] /\ aligned = [m \in {} |-> None]
  /\ window = None /\ results = [m \in {} |-> None] /\ documents = None /\ outcome = None

Group == IF Head(todo) = "X" /\ SharedXU THEN {"X", "U"} ELSE {Head(todo)}

Inspected(verdict) ==
  /\ pc = "inspect" /\ todo # <<>>
  /\ todo' = SelectSeq(todo, LAMBDA m : m \notin Group)
  /\ readiness' = [m \in Group |-> verdict] @@ readiness
  /\ UNCHANGED <<manifest, pc, window, aligned, results, documents, outcome>>

InspectDeclared ==
  LET d == Descriptor(Head(todo))
  IN  /\ Inspected(IF d.status = "present" THEN "unsupported" ELSE Declared(d.status))
      /\ ~(d.status = "present" /\ d.known)
      /\ UNCHANGED found

InspectPresent ==
  /\ todo # <<>> /\ Descriptor(Head(todo)).status = "present" /\ Descriptor(Head(todo)).known
  /\ \E tables \in Contents(Head(todo)) :
       /\ Inspected(IF AdapterAccepts(Group, tables) THEN "ready" ELSE "invalid")
       /\ found' = IF AdapterAccepts(Group, tables) THEN [m \in Group |-> tables] @@ found ELSE found

\* Gaze samples name frames there are, and areas of interest of those frames.
RelationshipBroken ==
  /\ {"I", "G"} \subseteq Ready
  /\ \E s \in ToSet(found["G"].gaze_samples) :
       \/ \A f \in ToSet(found["I"].frame_index) : f.key # s.frame
       \/ /\ s.aoi # None
          /\ \A a \in ToSet(found["I"].aoi_instances) : ChildKey(a) # <<s.frame, s.aoi>>

Without(f, m) == [k \in DOMAIN f \ {m} |-> f[k]]

Blocking(verdicts) == \E m \in DOMAIN verdicts : Descriptor(m).required /\ verdicts[m] # "ready"
Lacking == {"unavailable", "invalid", "unsupported"}

\* _disposition of the inspection.
ReadinessDisposition(verdicts) ==
  CASE Blocking(verdicts)                                -> "blocked"
    [] \E m \in DOMAIN verdicts : verdicts[m] \in Lacking -> "ready_partial"
    [] OTHER                                             -> "ready"

\* What the contract of the report expects. It asks more of the task reference.
ExpectedReadiness(verdicts) ==
  CASE Blocking(verdicts) -> "blocked"
    [] \/ \E m \in DOMAIN verdicts \ {Ref} : verdicts[m] \in Lacking
       \/ Ref \in DOMAIN verdicts /\ verdicts[Ref] # "ready" -> "ready_partial"
    [] OTHER -> "ready"

ReportReadiness ==
  LET verdicts == IF RelationshipBroken THEN [readiness EXCEPT !["G"] = "invalid"] ELSE readiness
  IN  /\ pc = "inspect" /\ todo = <<>>
      /\ readiness' = verdicts
      /\ found' = IF RelationshipBroken THEN Without(found, "G") ELSE found
      /\ pc' = CASE ReadinessDisposition(verdicts) # ExpectedReadiness(verdicts) -> "raised"
                 [] ReadinessDisposition(verdicts) = "blocked"                   -> "blocked"
                 [] OTHER                                                        -> "clocks"
      /\ UNCHANGED <<manifest, todo, window, aligned, results, documents, outcome>>

-----------------------------------------------------------------------------
(* Results: [status, clock, metrics, gaze]. *)

NoMetrics == [role \in {} |-> None]

Unattempted(m) ==
  [status |-> IF readiness[m] = "ready" THEN "not_attempted" ELSE readiness[m],
   clock |-> "none", metrics |-> NoMetrics, gaze |-> None]

Failed(code) ==
  [status |-> "invalid",
   clock |-> IF code = "CLOCK_DECLARATION_INCONSISTENT" THEN "inconsistent" ELSE "consistent",
   metrics |-> NoMetrics, gaze |-> None]

Aligned(m, tables) ==
  [status |-> "aligned", clock |-> "consistent", metrics |-> MetricsOf(m, tables, window), gaze |-> None]

\* Two mappings of one clock make every ready stream of that clock inconsistent.
SameClock(m, n) == Descriptor(m).clockId = Descriptor(n).clockId
Contradicts(m, n) == SameClock(m, n) /\ Mapping(Descriptor(m).clock) # Mapping(Descriptor(n).clock)

\* A bug to detect: the reference is not in the inventory of clocks.
CoreClockIssues ==
  {m \in Ready : \/ ~DeclarationConsistent(Descriptor(m).clock)
                 \/ \E i, j \in Ready \ {Ref} : SameClock(m, i) /\ Contradicts(i, j)}

ClockIssues ==
  {m \in Ready : \/ ~DeclarationConsistent(Descriptor(m).clock)
                 \/ \E i, j \in Ready : SameClock(m, i) /\ Contradicts(i, j)}

\* Why X cannot give the session its window, if it cannot.
MappedX == {SessionNs(row.t, Descriptor("X").clock) : row \in ToSet(found["X"].samples)}
XProblem ==
  CASE "X" \in ClockIssues -> "CLOCK_DECLARATION_INCONSISTENT"
    [] PointProblem(found["X"].samples, Descriptor("X").clock) # "none" ->
         PointProblem(found["X"].samples, Descriptor("X").clock)
    [] \/ manifest.origin # "session_start" \/ Descriptor("X").clockId # manifest.master
       \/ Max(MappedX) \notin 1..MaxSessionEnd -> "SESSION_WINDOW_UNAVAILABLE"
    [] OTHER -> "none"

HasWindow == "X" \in Ready /\ XProblem = "none"

\* Without a window nothing is attempted, but what is wrong with the clocks is told.
WithoutWindow(m) ==
  CASE m = "X" /\ m \in Ready -> Failed(XProblem)
    [] m \in ClockIssues      -> Failed("CLOCK_DECLARATION_INCONSISTENT")
    [] OTHER                  -> Unattempted(m)

OpenWindow ==
  /\ pc = "clocks"
  /\ \/ /\ HasWindow
        /\ window' = Max(MappedX)
        /\ todo' = SelectSeq(CoreOrder, LAMBDA m : m \in Ready)
        /\ results' = [m \in Described \ Ready |-> Unattempted(m)]
        /\ pc' = "align"
     \/ /\ ~HasWindow
        /\ results' = [m \in Described |-> WithoutWindow(m)]
        /\ pc' = "finalize" /\ UNCHANGED <<window, todo>>
  /\ UNCHANGED <<inputVars, aligned, documents, outcome>>

-----------------------------------------------------------------------------
(* With a window, each stream by itself. *)

AlignmentProblem(m) ==
  IF m \in ClockIssues THEN "CLOCK_DECLARATION_INCONSISTENT"
  ELSE StreamProblem(m, found[m], Descriptor(m).clock)

TablesAligned(m) == AlignedTables(m, found[m], Descriptor(m).clock, window)

Record(m, result) == results' = (m :> result) @@ results
Keep(m, tables) == aligned' = (m :> tables) @@ aligned

AlignStream ==
  LET m == Head(todo)
  IN  /\ pc = "align" /\ todo # <<>> /\ todo' = Tail(todo)
      /\ \/ AlignmentProblem(m) # "none" /\ Record(m, Failed(AlignmentProblem(m))) /\ UNCHANGED aligned
         \/ /\ AlignmentProblem(m) = "none" /\ Keep(m, TablesAligned(m))
            /\ IF m = "G" THEN UNCHANGED results ELSE Record(m, Aligned(m, TablesAligned(m)))
      /\ UNCHANGED <<inputVars, pc, window, documents, outcome>>

\* Without a scene no gaze sample has a frame.
SceneFrames == IF "I" \in DOMAIN aligned THEN aligned["I"].frame_index ELSE <<>>

Judged(association) ==
  IF association.invalid > 0 THEN [Failed("SCENE_GAZE_TIME_MISMATCH") EXCEPT !.gaze = association]
  ELSE [Aligned("G", aligned["G"]) EXCEPT !.gaze = association]

\* A bug to detect: the tables of a failed gaze stream stay.
FinishGazeKeepingTables ==
  /\ pc = "align" /\ todo = <<>> /\ pc' = "reference"
  /\ \/ "G" \notin DOMAIN aligned /\ UNCHANGED <<results, aligned>>
     \/ /\ "G" \in DOMAIN aligned
        /\ Record("G", Judged(SceneGaze(SceneFrames, aligned["G"].gaze_samples, window)))
        /\ UNCHANGED aligned
  /\ UNCHANGED <<inputVars, todo, window, documents, outcome>>

FinishGaze ==
  /\ pc = "align" /\ todo = <<>> /\ pc' = "reference"
  /\ \/ "G" \notin DOMAIN aligned /\ UNCHANGED <<results, aligned>>
     \/ /\ "G" \in DOMAIN aligned
        /\ LET association == SceneGaze(SceneFrames, aligned["G"].gaze_samples, window)
           IN  /\ Record("G", Judged(association))
               /\ aligned' = IF association.invalid > 0 THEN Without(aligned, "G") ELSE aligned
  /\ UNCHANGED <<inputVars, todo, window, documents, outcome>>

Covers(path) == \E i \in Positions(path) : path[i].in

ReferenceProblem ==
  IF AlignmentProblem(Ref) # "none" THEN AlignmentProblem(Ref)
  ELSE IF Covers(TablesAligned(Ref).commanded_path) THEN "none" ELSE "REFERENCE_ALIGNMENT_FAILED"

AlignReference ==
  /\ pc = "reference" /\ pc' = "annotations"
  /\ \/ Ref \notin Ready /\ UNCHANGED <<results, aligned>>
     \/ Ref \in Ready /\ ReferenceProblem # "none" /\ Record(Ref, Failed(ReferenceProblem)) /\ UNCHANGED aligned
     \/ /\ Ref \in Ready /\ ReferenceProblem = "none"
        /\ Keep(Ref, TablesAligned(Ref)) /\ Record(Ref, Aligned(Ref, TablesAligned(Ref)))
  /\ UNCHANGED <<inputVars, todo, window, documents, outcome>>

AlignAnnotations ==
  /\ pc = "annotations" /\ pc' = "finalize"
  /\ documents' \in Documents
  /\ UNCHANGED <<inputVars, todo, window, aligned, results, outcome>>

-----------------------------------------------------------------------------
(* The reports. *)

\* The status of the annotations.
AnnotationStatus ==
  IF window = None THEN "not_attempted"
  ELSE LET problem == AnnotationProblem(documents, manifest.phases, manifest.revision, window)
       IN  CASE problem = "none"                          -> "aligned"
             [] problem = "ANNOTATION_SCHEMA_UNSUPPORTED" -> "unsupported"
             [] OTHER                                     -> "invalid"

RequiredFailed(rs) == \E m \in DOMAIN rs : Descriptor(m).required /\ rs[m].status # "aligned"
OptionalFailed(rs) ==
  \E m \in DOMAIN rs : ~Descriptor(m).required /\ rs[m].status \notin {"aligned", "not_applicable"}

\* A bug to detect: an optional stream counts as failed only if something was wrong with it.
DispositionOfInvalid(end, rs, annotation) ==
  CASE end = None \/ RequiredFailed(rs) \/ annotation # "aligned"                          -> "blocked"
    [] \E m \in DOMAIN rs : ~Descriptor(m).required /\ rs[m].status = "invalid" -> "ready_partial"
    [] OTHER                                                                                -> "ready"

\* _derive_disposition.
Disposition(end, rs, annotation) ==
  CASE end = None \/ RequiredFailed(rs) \/ annotation # "aligned" -> "blocked"
    [] OptionalFailed(rs)                                         -> "ready_partial"
    [] OTHER                                                      -> "ready"

\* What the contract of the report expects, over the statuses as it names them.
ExpectedDisposition(end, rs, annotation) ==
  LET degraded == {"not_attempted", "unavailable", "invalid", "unsupported"}
      lacking(m) == ~Descriptor(m).required /\ rs[m].status \in degraded
      reference == Ref \in DOMAIN rs /\ ~Descriptor(Ref).required /\ rs[Ref].status # "aligned"
                   /\ rs[Ref].status # "not_applicable"
  IN  CASE end = None \/ RequiredFailed(rs) \/ annotation # "aligned"       -> "blocked"
        [] (\E m \in DOMAIN rs \ {Ref} : lacking(m)) \/ reference          -> "ready_partial"
        [] OTHER                                                            -> "ready"

\* The contract of one result.
ResultAccepted(m, r) ==
  IF r.status = "aligned"
  THEN /\ Descriptor(m).status = "present" /\ readiness[m] = "ready" /\ r.clock = "consistent"
       /\ r.metrics # NoMetrics /\ MetricsAccepted(m, r.metrics) /\ (m = "G") = (r.gaze # None)
  ELSE r.metrics = NoMetrics /\ (r.gaze # None => m = "G" /\ r.status = "invalid")

ReportAccepted ==
  /\ DOMAIN results = Described
  /\ \A m \in Described : ResultAccepted(m, results[m])
  /\ Disposition(window, results, AnnotationStatus) = ExpectedDisposition(window, results, AnnotationStatus)

Blocked(rs, internal) ==
  [disposition |-> "blocked", results |-> rs, session |-> None, internal |-> internal]

Session ==
  [end |-> window, streams |-> [m \in DOMAIN aligned |-> aligned[m]],
   annotations |-> AlignedAnnotations(documents, window)]

FinalizeBlocked ==
  /\ pc = "blocked" /\ pc' = "done"
  /\ outcome' = Blocked([m \in Described |-> Unattempted(m)], FALSE)
  /\ UNCHANGED <<inputVars, todo, window, aligned, results, documents>>

Finalize ==
  LET disposition == Disposition(window, results, AnnotationStatus)
  IN  /\ pc = "finalize" /\ pc' = "done"
      /\ outcome' = CASE ~ReportAccepted           -> Blocked([m \in Described |-> Unattempted(m)], TRUE)
                      [] disposition = "blocked" -> Blocked(results, FALSE)
                      [] OTHER -> [disposition |-> disposition, results |-> results, session |-> Session,
                                   internal |-> FALSE]
      /\ UNCHANGED <<inputVars, todo, window, aligned, results, documents>>

Next ==
  \/ InspectDeclared \/ InspectPresent \/ ReportReadiness
  \/ OpenWindow \/ AlignStream \/ FinishGaze \/ AlignReference \/ AlignAnnotations
  \/ FinalizeBlocked \/ Finalize

Spec == Init /\ [][Next]_vars

-----------------------------------------------------------------------------
\* The report of the inspection passes its own contract: "disposition must match stream readiness".
InspectionReports == pc # "raised"

\* The synchronization never ends in an internal error: every part of the report it puts
\* together passes the contract that part has, whatever the session looks like.
SynchronizationReports == outcome # None => ~outcome.internal

HasSession == outcome # None /\ outcome.session # None
SessionStreams == outcome.session.streams

\* Who goes on gets exactly the streams the report calls aligned, with every row they had, and
\* gaze samples of the session lie where the frame they name is the last one shown.
SessionIsAsReported ==
  /\ outcome # None => (outcome.session = None) = (outcome.disposition = "blocked")
  /\ HasSession =>
       /\ DOMAIN SessionStreams = {m \in Described : outcome.results[m].status = "aligned"}
       /\ \A m \in DOMAIN SessionStreams : \A role \in RolesOf(m) :
            Len(SessionStreams[m][role]) = Len(found[m][role])
       /\ "G" \in DOMAIN SessionStreams =>
            \A s \in ToSet(SessionStreams["G"].gaze_samples) : s.in =>
              LET frames == SessionStreams["I"].frame_index
              IN  \E i \in Positions(frames) :
                    /\ frames[i].key = s.frame /\ frames[i].ns <= s.ns
                    /\ \A j \in (i + 1)..Len(frames) : s.ns < frames[j].ns

PrimaryRole(m) == Bindings(m)[1].role

\* Streams of one clock are aligned to one time: what one of them recorded no later than
\* another, the aligned session shows no later, and what they recorded at once, at once.
OneClockOneTime ==
  HasSession =>
    \A m, n \in DOMAIN SessionStreams : SameClock(m, n) =>
      \A a \in ToSet(SessionStreams[m][PrimaryRole(m)]), b \in ToSet(SessionStreams[n][PrimaryRole(n)]) :
        a.t <= b.t => a.ns <= b.ns

\* Every moment of the session belongs to one phase or to one gap between phases, and no
\* phase, gap or baseline reaches beyond the session.
PhasesAndGapsTileTheSession ==
  HasSession =>
    LET notes == outcome.session.annotations
        Spans == ToSet(notes.phases) \cup {[id |-> None, start |-> g.start, end |-> g.end] : g \in ToSet(notes.gaps)}
    IN  /\ \A moment \in 0..(outcome.session.end - 1) :
             Cardinality({x \in Spans : x.start <= moment /\ moment < x.end}) = 1
        /\ \A x \in Spans \cup ToSet(notes.baselines) : 0 <= x.start /\ x.end <= outcome.session.end

===============================================================================

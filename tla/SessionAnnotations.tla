-------------------------- MODULE SessionAnnotations --------------------------
(* The annotations of a session (synchronization/annotations.py): three        *)
(* documents, of phases, of events and of baseline intervals, each in the      *)
(* synthetic schema, with times in seconds, or in the canonical one, with      *)
(* session nanoseconds. A document is read again when it is needed.            *)
EXTENDS SessionTime

\* A document as its file is read: [bytes, kind, origin, records]. The origin is the generator
\* and seed of a synthetic document and the revision of a canonical one.
DocumentProblem(doc) ==
  CASE doc.bytes = "changed"     -> "SOURCE_CHANGED_DURING_SYNCHRONIZATION"
    [] doc.bytes = "malformed"   -> "ANNOTATION_SEMANTICS_INVALID"
    [] doc.bytes = "unsupported" -> "ANNOTATION_SCHEMA_UNSUPPORTED"
    [] OTHER                     -> "none"

NanosecondsOf(doc, t) == IF doc.kind = "synthetic" THEN SessionNs(t, TrueClock) ELSE t

\* Phases and baselines: [id, start, end]. Events: [id, t, duration], with {} for no duration.
Intervals(doc) ==
  [i \in Positions(doc.records) |->
     [id |-> doc.records[i].id, start |-> NanosecondsOf(doc, doc.records[i].start),
      end |-> NanosecondsOf(doc, doc.records[i].end)]]

Markers(doc) ==
  [i \in Positions(doc.records) |->
     [doc.records[i] EXCEPT !.t = NanosecondsOf(doc, @)]]

IsInterval(x) == 0 <= x.start /\ x.start < x.end /\ x.end <= MaxInt64
IdOf(x) == x.id

PhasesAccepted(phases, expected, window) ==
  /\ \A i \in Positions(phases) : IsInterval(phases[i]) /\ phases[i].end <= window
  /\ [i \in Positions(phases) |-> phases[i].id] = expected /\ Unique(phases, IdOf)
  /\ \A i \in 2..Len(phases) : phases[i - 1].end <= phases[i].start

\* A bug to detect: the walk does not move on.
CursorLeftBehind(phases, i) == 0

\* Where the walk over the phases stands before phase i: what lies between is a gap.
Cursor(phases, i) == IF i = 1 THEN 0 ELSE phases[i - 1].end

Gaps(phases, window) ==
  SelectSeq([i \in 1..(Len(phases) + 1) |->
               [start |-> Cursor(phases, i), end |-> IF i > Len(phases) THEN window ELSE phases[i].start]],
            LAMBDA g : g.start < g.end)

EventAccepted(e, window) ==
  /\ 0 <= e.t /\ e.t <= MaxInt64
  /\ \/ e.duration = {} /\ Inside(e.t, window)
     \/ \E d \in e.duration : 0 < d /\ e.t + d <= MaxInt64 /\ e.t <= window

EventsAccepted(events, window) ==
  Unique(events, IdOf) /\ \A i \in Positions(events) : EventAccepted(events[i], window)

BaselinesAccepted(baselines, window) ==
  /\ Unique(baselines, IdOf)
  /\ \A i \in Positions(baselines) : IsInterval(baselines[i]) /\ baselines[i].end <= window

ProvenanceAccepted(docs, revision) ==
  /\ \A a, b \in {x \in docs : x.kind = "synthetic"} : a.origin = b.origin
  /\ \A a \in {x \in docs : x.kind = "canonical"} : a.origin = revision

\* AlignAnnotations: the problem, or "none".
AnnotationProblem(docs, expected, revision, window) ==
  LET problems == SelectSeq(<<DocumentProblem(docs.phases), DocumentProblem(docs.events),
                              DocumentProblem(docs.baselines)>>, LAMBDA p : p # "none")
  IN  CASE problems # <<>> -> Head(problems)
        [] ~ProvenanceAccepted({docs.phases, docs.events, docs.baselines}, revision)
           \/ ~PhasesAccepted(Intervals(docs.phases), expected, window)
           \/ ~EventsAccepted(Markers(docs.events), window)
           \/ ~BaselinesAccepted(Intervals(docs.baselines), window) -> "ANNOTATION_SEMANTICS_INVALID"
        [] OTHER -> "none"

AlignedAnnotations(docs, window) ==
  [phases |-> Intervals(docs.phases), events |-> Markers(docs.events),
   baselines |-> Intervals(docs.baselines), gaps |-> Gaps(Intervals(docs.phases), window)]

===============================================================================

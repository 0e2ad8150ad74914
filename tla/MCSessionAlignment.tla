-------------------------- MODULE MCSessionAlignment --------------------------
(* Instances of SessionAlignment for TLC: a session of a few half nanoseconds  *)
(* with the streams X, U, I and G, an optional ECG and a reference.            *)
EXTENDS SessionAlignment, TLC

MCCoreOrder == <<"X", "U", "I", "G", "ECG">>

Drifting == [TrueClock EXCEPT !.method = "affine", !.scale = 2, !.drift = 1]
Shifted == [TrueClock EXCEPT !.method = "offset", !.offset = 1]
Garbled == [TrueClock EXCEPT !.scale = 2]

-----------------------------------------------------------------------------
(* Contents. A table is given by the times of its rows, numbered in order. *)

Table(times) == [i \in DOMAIN times |-> [t |-> times[i], key |-> i]]
AoiOf(frames) == [i \in DOMAIN frames |-> [frame |-> frames[i], key |-> "a"]]
Seen(times, frames, aoi) ==
  [i \in DOMAIN times |-> [t |-> times[i], key |-> i, frame |-> frames[i], aoi |-> aoi]]
Fixation(start, end) == <<[start |-> start, end |-> end, key |-> 1]>>

\* Of five half nanoseconds at most, without drift: rounded to the even one, late, and too short.
Simulated == {<<0, 4, 8>>, <<1, 5, 9>>, <<0, 1, 2>>, <<0, 1>>, <<0, 12, 24>>, <<4, 2, 0>>}

Scenes ==
  {[frame_index |-> Table(times), aoi_instances |-> AoiOf(<<1, 3>>)] : times \in {<<0, 4, 8>>, <<-4, 1, 6>>, <<0, 6, 12>>}}
  \cup {[frame_index |-> Table(<<0, 4>>), aoi_instances |-> AoiOf(<<2, 1>>)]}

Gazes ==
  {[gaze_samples |-> samples, fixations |-> Fixation(0, 4)] :
     samples \in {Seen(<<0, 4, 8>>, <<1, 2, 3>>, None), Seen(<<0, 4, 8>>, <<1, 1, 2>>, None), Seen(<<0, 3, 6>>, <<1, 1, 2>>, None),
                  Seen(<<-2, 5, 12>>, <<1, 1, 1>>, "a"), Seen(<<0, 4>>, <<1, 9>>, None)}}
  \cup {[gaze_samples |-> Seen(<<0, 8, 16>>, <<1, 3, 3>>, "a"), fixations |-> fixation] :
          fixation \in {Fixation(2, 10), Fixation(2, 2), Fixation(2, 20)}}

Hearts ==
  {[samples |-> Table(<<0, 4, 8>>), r_peaks |-> peaks] :
     peaks \in {Table(<<1, 6>>), <<[t |-> 0, key |-> 2], [t |-> 1, key |-> 1]>>, Table(<<2, 9>>)}}

Paths == {Table(<<0, 4, 8>>), Table(<<20, 24, 28>>), Table(<<0, 4, 20>>)}

MCContents(m) ==
  CASE m \in {"X", "U"}    -> {[samples |-> Table(times)] : times \in Simulated}
    [] m = "I"             -> Scenes
    [] m = "G"             -> Gazes
    [] m = "ECG"           -> Hearts
    [] m = Ref             -> {[commanded_path |-> path] : path \in Paths}

-----------------------------------------------------------------------------
(* Documents, one departing from the usual ones at a time. *)

Phase(id, start, end) == [id |-> id, start |-> start, end |-> end]
Event(id, t, duration) == [id |-> id, t |-> t, duration |-> duration]
Synthetic(records) == [bytes |-> "same", kind |-> "synthetic", origin |-> "g1", records |-> records]
Canonical(records) == [Synthetic(records) EXCEPT !.kind = "canonical", !.origin = "v1"]

\* Of the seconds of the source, and of session nanoseconds.
Usual ==
  [phases |-> Synthetic(<<Phase("p", 0, 3), Phase("q", 5, 7)>>),
   events |-> Synthetic(<<Event("e", 4, {}), Event("f", 8, {2})>>),
   baselines |-> Canonical(<<Phase("b", 1, 3)>>)]

MCDocuments ==
  {Usual,
   [Usual EXCEPT !.phases = Canonical(<<Phase("p", 1, 2), Phase("q", 2, 4)>>)],
   [Usual EXCEPT !.phases = Canonical(<<Phase("p", 0, 3), Phase("q", 2, 4)>>)],
   [Usual EXCEPT !.phases = Canonical(<<Phase("q", 0, 3)>>)],
   [Usual EXCEPT !.phases.bytes = "changed"],
   [Usual EXCEPT !.events.bytes = "unsupported"],
   [Usual EXCEPT !.events.origin = "g2"],
   [Usual EXCEPT !.events.records = <<>>, !.baselines.records = <<Phase("b", 1, 9)>>],
   [phases |-> Canonical(<<Phase("p", 0, 1)>>), events |-> Canonical(<<Event("e", 1, {1})>>),
    baselines |-> Canonical(<<>>)]}

-----------------------------------------------------------------------------
(* Manifests, with the reference of the bundle or without. *)

Stream(status, required, clockId, clock) ==
  [status |-> status, required |-> required, known |-> TRUE, clockId |-> clockId, clock |-> clock]
Needed == Stream("present", TRUE, "sim", TrueClock)
Spare == Stream("present", FALSE, "lab", Drifting)

Base ==
  [streams |-> [X |-> Needed, U |-> Needed, I |-> Needed, G |-> Needed, ECG |-> Spare],
   shared |-> TRUE, master |-> "sim", origin |-> "session_start",
   phases |-> <<"p", "q">>, revision |-> "v1"]

WithReference(m, d) == [m EXCEPT !.streams = (Ref :> d) @@ @]

Plain ==
  {Base,
   [Base EXCEPT !.phases = <<"p">>],
   [Base EXCEPT !.shared = FALSE, !.streams["U"].required = FALSE, !.streams["X"].required = FALSE],
   [Base EXCEPT !.streams["I"].required = FALSE, !.streams["G"].required = FALSE],
   [Base EXCEPT !.streams["I"] = Stream("missing", FALSE, "sim", TrueClock), !.streams["G"].required = FALSE],
   [Base EXCEPT !.streams["ECG"].clock = Garbled],
   [Base EXCEPT !.streams["ECG"].clock = TrueClock],
   [Base EXCEPT !.streams["ECG"].clockId = "sim"],
   [Base EXCEPT !.streams["ECG"].known = FALSE],
   [Base EXCEPT !.streams["ECG"].status = "not_applicable"],
   [Base EXCEPT !.streams["X"].clock = Drifting, !.streams["U"].clock = Drifting, !.streams["I"].clockId = "cam",
                !.streams["G"].clockId = "cam"],
   [Base EXCEPT !.master = "lab"]}

Referring ==
  {WithReference(Base, d) :
     d \in {Stream("present", required, clockId, clock) :
              required \in BOOLEAN, clockId \in {"sim", "lab"}, clock \in {Shifted, Drifting, TrueClock}}
           \cup {Stream("missing", FALSE, "lab", TrueClock)}}

MCManifests == Plain \cup Referring

\* The contract of the manifest lets a bundle reference be not applicable.
MCReferenceNotApplicable == {WithReference(Base, Stream("not_applicable", FALSE, "lab", TrueClock))}

===============================================================================

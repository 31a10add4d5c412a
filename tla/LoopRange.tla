----------------------------- MODULE LoopRange -----------------------------
(***************************************************************************)
(* The region a video is looped over, edited with two knobs on one track   *)
(* and, in the inspector, two fields (LoopRangeParameterEditor of          *)
(* ui/parameter_editors.py).  A loop end of 0 is the end of the video.     *)
(*                                                                         *)
(* Times are whole numbers of a unit that divides a step of the track; a   *)
(* field holds its time to a multiple of Grain (format_timestamp rounds to *)
(* hundredths of a second).                                                *)
(***************************************************************************)
EXTENDS Integers

CONSTANTS
  TrackSteps,  \* _STEPS, the positions of the track after 0
  Durations,   \* of the videos, multiples of TrackSteps
  Grain,
  MaxTime,     \* bound on the times that are typed or loaded
  MaxEdits     \* bound on the gestures, entries and changes from elsewhere

ASSUME LoopAssumption ==
  /\ TrackSteps \in Nat \ {0} /\ Grain \in Nat \ {0} /\ MaxTime \in Nat
  /\ \A duration \in Durations : duration \in Nat \ {0} /\ duration % TrackSteps = 0

Knobs == {"start", "end"}
NoKnob == "none"
Unknown == 0                 \* the duration before the engine has told it

VARIABLES
  doc,         \* loop_start_s, loop_end_s and the duration of the file
  displayed,   \* _start_s, _end_s and _maximum of the editor
  connected,   \* the parameters that an edge drives
  dragged,     \* _dragged_knob
  edits

loopVars == <<doc, displayed, connected, dragged, edits>>

Times == 0 .. MaxTime
Least(a, b) == IF a < b THEN a ELSE b
Most(a, b) == IF a < b THEN b ELSE a

\* Python's round: to the nearest, halves to the even.
RoundQuotient(a, b) ==
  LET q == a \div b
      twice == 2 * (a % b)
  IN IF twice > b \/ (twice = b /\ q % 2 = 1) THEN q + 1 ELSE q

-----------------------------------------------------------------------------
(* Positions on the track and times, of a region r.                         *)

StartPosition(r) == RoundQuotient(Least(TrackSteps * r.duration, r.start * TrackSteps), r.duration)
EndPosition(r) ==
  IF r.end = 0 THEN TrackSteps
  ELSE RoundQuotient(Least(TrackSteps * r.duration, r.end * TrackSteps), r.duration)

TimeAt(r, position) == (r.duration \div TrackSteps) * position
EndTimeAt(r, position) == IF position >= TrackSteps THEN 0 ELSE TimeAt(r, position)

\* _min_positive_end_value: 0 when no position is left.
LeastEnd(r) == IF StartPosition(r) + 1 >= TrackSteps THEN 0 ELSE TimeAt(r, StartPosition(r) + 1)

\* Mutant of WithStart: a typed start may reach the step of the end.
WithStartUpToEnd(r, time) ==
  LET inside == Least(r.duration, time)
  IN [r EXCEPT !.start = IF r.end > 0 THEN Least(inside, TimeAt(r, EndPosition(r))) ELSE inside]

\* set_start and set_end, of a typed time.
WithStart(r, time) ==
  LET inside == Least(r.duration, time)
  IN [r EXCEPT !.start = IF r.end > 0 THEN Least(inside, TimeAt(r, Most(0, EndPosition(r) - 1)))
                         ELSE inside]
WithEnd(r, time) ==
  LET inside == Least(r.duration, time)
  IN [r EXCEPT !.end = IF inside > 0 THEN Most(inside, LeastEnd(r)) ELSE 0]

\* _apply_start_position and _apply_end_position, of a knob.
StartAt(r, position) ==
  LET limit == IF r.end > 0 THEN EndPosition(r) - 1 ELSE TrackSteps
  IN [r EXCEPT !.start = TimeAt(r, Most(0, Least(position, limit)))]
EndAt(r, position) ==
  LET floor == IF position < TrackSteps /\ r.start > 0 THEN StartPosition(r) + 1 ELSE 0
  IN [r EXCEPT !.end = EndTimeAt(r, Least(Most(position, floor), TrackSteps))]

KnobAt(r, knob, position) == IF knob = "start" THEN StartAt(r, position) ELSE EndAt(r, position)

\* What a field reads back of what it shows.
Written(time) == RoundQuotient(time, Grain) * Grain

-----------------------------------------------------------------------------
LoopInit ==
  /\ doc \in [start : Times, end : Times, duration : Durations \cup {Unknown}]
  /\ displayed = doc
  /\ connected \in SUBSET Knobs
  /\ dragged = NoKnob
  /\ edits = 0

\* The commit of one side leaves the other to the document: a start within the
\* duration (sanitize_value), an end too.  The editor is rebuilt from the
\* document when no gesture is in flight.
Commit(knob, r) ==
  LET time == Least(r.duration, r[knob])
  IN /\ doc' = [doc EXCEPT ![knob] = time]
     /\ displayed' = doc'

\* While the duration is unknown the track and the fields are inert.
Usable == displayed.duration # Unknown

Edit == edits < MaxEdits /\ edits' = edits + 1

\* A press takes the knob of its lane, unless an edge drives it, to the pointer.
PressKnob ==
  \E knob \in Knobs \ connected, position \in 0 .. TrackSteps :
    /\ Usable /\ dragged = NoKnob
    /\ dragged' = knob
    /\ displayed' = KnobAt(displayed, knob, position)
    /\ Edit /\ UNCHANGED <<doc, connected>>

MoveKnob ==
  \E position \in 0 .. TrackSteps :
    /\ dragged # NoKnob
    /\ displayed' = KnobAt(displayed, dragged, position)
    /\ UNCHANGED <<doc, connected, dragged, edits>>

ReleaseKnob ==
  /\ dragged # NoKnob
  /\ dragged' = NoKnob
  /\ Commit(dragged, displayed)
  /\ UNCHANGED <<connected, edits>>

\* A field commits what it holds when it is left: a typed time, or what it showed.
LeaveStart ==
  \E time \in Times \cup {Written(displayed.start)} :
    /\ Usable /\ dragged = NoKnob
    /\ Commit("start", WithStart(displayed, Written(time)))
    /\ Edit /\ UNCHANGED <<connected, dragged>>

DisplayedEnd == IF displayed.end = 0 THEN displayed.duration ELSE displayed.end

\* The end of the video, shown for 0, is not committed as a time.
LeaveEnd ==
  \E time \in Times \cup {Written(DisplayedEnd)} :
    /\ Usable /\ dragged = NoKnob
    /\ ~(displayed.end = 0 /\ Written(time) = DisplayedEnd)
    /\ Commit("end", WithEnd(displayed, Written(time)))
    /\ Edit /\ UNCHANGED <<connected, dragged>>

\* Undo and redo, another file and what the engine tells of it: the editor follows
\* when no knob is dragged.
ChangeElsewhere ==
  /\ \/ \E side \in Knobs, time \in Times : doc' = [doc EXCEPT ![side] = time]
     \/ \E duration \in Durations \cup {Unknown} : doc' = [doc EXCEPT !.duration = duration]
  /\ displayed' = IF dragged = NoKnob THEN doc' ELSE displayed
  /\ Edit /\ UNCHANGED <<connected, dragged>>

LoopNext == PressKnob \/ MoveKnob \/ ReleaseKnob \/ LeaveStart \/ LeaveEnd \/ ChangeElsewhere

LoopSpec == LoopInit /\ [][LoopNext]_loopVars

-----------------------------------------------------------------------------
\* The compiler refuses a region whose start is not before its end.
Sound(r) == r.end > 0 => r.start < r.end

\* The other side has changed since the knob was pressed.
Overtaken == dragged # NoKnob /\ \E side \in DOMAIN doc \ {dragged} : displayed[side] # doc[side]

\* "The start must stay strictly before it (the validator rejects start >= end)":
\* whatever the document held, a knob that is released and a field that is left
\* commit a region that the compiler does not refuse, but for a drag during which
\* the other side was changed, and for a typed end while the start is in the last
\* step of the track.  What changes elsewhere, by no commit of this editor, is
\* not its promise; the next commit is.
RegionStaysSoundStep ==
  /\ ReleaseKnob => Sound(doc') \/ Overtaken
  /\ LeaveStart => Sound(doc')
  /\ LeaveEnd => Sound(doc') \/ StartPosition(displayed) + 1 >= TrackSteps

RegionStaysSound == [][RegionStaysSoundStep]_loopVars
=============================================================================

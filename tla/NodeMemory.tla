------------------------------ MODULE NodeMemory ------------------------------
(***************************************************************************)
(* The runtimes that remember frames: Hold Image and Posterize Time         *)
(* (nodes/image/temporal.py), Modulo Accumulator and Buffer                 *)
(* (nodes/utility/temporal.py) and the position of Scanline                 *)
(* (nodes/synesthesia/scanline.py).                                         *)
(*                                                                          *)
(* A frame is a number, for what is in it, and a shape, for all that its    *)
(* signature compares.  The delay, the capacity and the limit belong to a   *)
(* runtime for life, as a change of them recompiles; the others are live.   *)
(***************************************************************************)
EXTENDS Integers, Sequences, SequencesExt, FiniteSetsExt

CONSTANTS Shapes,     \* shape -> its size: bytes of a frame, rows of a channel
          Nodes,      \* [kind, length, limit]: delay or capacity, limit in bytes
          Lives,      \* kind -> live parameters [step, whole, direction], the
                      \* step being a modulo, an interval or the rows to advance
          MaxFrames   \* bound on frames and resets

VARIABLES
  node,
  memory,     \* what the runtime holds
  output,     \* its last answer
  taken,      \* history: the frames since the last reset
  frames

vars == <<node, memory, output, taken, frames>>

NoFrame == [number |-> 0, shape |-> "none"]
NoData == [is |-> "no_data", frames |-> <<>>, row |-> 0]
Refusal == [NoData EXCEPT !.is = "error"]
Given(values) == [NoData EXCEPT !.is = "value", !.frames = values]
Row(row) == [NoData EXCEPT !.is = "row", !.row = row]

\* Where a runtime starts and a reset leaves it.
Cleared == [history |-> <<>>, signature |-> "none", held |-> NoFrame, phase |-> 0,
            row |-> 0, height |-> 0, direction |-> "none", sense |-> 1]

Does(new, answer) == memory' = new /\ output' = answer

\* A deque of this length.
Pushed(sequence, frame, length) ==
  IF Len(sequence) = length THEN Append(Tail(sequence), frame) ELSE Append(sequence, frame)

\* What is kept when a frame of this shape comes.
Kept(shape) == IF memory.signature = shape THEN memory.history ELSE <<>>
TooLarge(shape) == Shapes[shape] * node.length > node.limit

-----------------------------------------------------------------------------
(* The runtimes: what process does with a frame.                            *)

\* The frame that came so many frames before.
HoldImage(f) ==
  IF TooLarge(f.shape) THEN Does(Cleared, Refusal)
  ELSE Does([memory EXCEPT !.signature = f.shape, !.history = Pushed(Kept(f.shape), f, node.length)],
            IF Len(Kept(f.shape)) = node.length THEN Given(<<Head(Kept(f.shape))>>) ELSE NoData)

\* The last frames, as many as there is room for.
Buffer(f) ==
  LET values == Pushed(Kept(f.shape), f, node.length)
  IN IF TooLarge(f.shape) THEN Does(Cleared, Refusal)
     ELSE Does([memory EXCEPT !.signature = f.shape, !.history = values], Given(values))

\* A frame of every so many; sooner when the images change.
PosterizeTime(f, live) ==
  LET sampled == memory.phase = 0 \/ memory.held.shape # f.shape
      held == IF sampled THEN f ELSE memory.held
  IN Does([memory EXCEPT !.held = held, !.phase = (@ + 1) % live.step], Given(<<held>>))

\* An integer is not taken modulo a fraction.
ModuloAccumulator(f, live) ==
  LET before == IF memory.held.shape = f.shape THEN memory.held.number ELSE 0
      total == [f EXCEPT !.number = (before + f.number) % live.step]
  IN IF f.shape = "int" /\ ~live.whole THEN Does(memory, Refusal)
     ELSE Does([memory EXCEPT !.held = total], Given(<<total>>))

\* _initialize
Placed(m, height, direction) ==
  IF m.height = height /\ m.direction = direction THEN m
  ELSE [m EXCEPT !.height = height, !.direction = direction, !.sense = 1,
                 !.row = IF direction = "BOTTOM_TO_TOP" THEN height - 1 ELSE 0]

\* Mutant of Bounced: the line turns on the row it was on.
BouncedTwice(m) ==
  LET candidate == m.row + m.sense
  IN CASE candidate >= m.height -> [m EXCEPT !.sense = -1]
       [] candidate < 0 -> [m EXCEPT !.sense = 1]
       [] OTHER -> [m EXCEPT !.row = candidate]

\* One row of a line that goes up and down.
Bounced(m) ==
  LET candidate == m.row + m.sense
  IN CASE candidate >= m.height -> [m EXCEPT !.sense = -1, !.row = m.height - 2]
       [] candidate < 0 -> [m EXCEPT !.sense = 1, !.row = 1]
       [] OTHER -> [m EXCEPT !.row = candidate]

\* _advance
Advanced(m, rows) ==
  CASE m.direction = "TOP_TO_BOTTOM" -> [m EXCEPT !.row = (@ + rows) % m.height]
    [] m.direction = "BOTTOM_TO_TOP" -> [m EXCEPT !.row = (@ - rows) % m.height]
    [] m.height = 1 -> [m EXCEPT !.row = 0]
    [] OTHER -> FoldLeft(LAMBDA before, i : Bounced(before), m, [i \in 1 .. rows |-> i])

\* The line is read where it is and moves on if that did not fail.
Scanline(f, live, fails) ==
  LET placed == Placed(memory, Shapes[f.shape], live.direction)
  IN IF fails THEN Does(placed, Refusal) ELSE Does(Advanced(placed, live.step), Row(placed.row))

-----------------------------------------------------------------------------
Init ==
  /\ node \in Nodes /\ memory = Cleared /\ output = NoData
  /\ taken = <<>> /\ frames = 0

Counted == frames < MaxFrames /\ frames' = frames + 1

Process(shape, live, fails) ==
  LET f == [number |-> frames + 1, shape |-> shape]
  IN /\ Counted
     /\ fails => node.kind = "scanline"
     /\ CASE node.kind = "hold" -> HoldImage(f)
          [] node.kind = "buffer" -> Buffer(f)
          [] node.kind = "posterize" -> PosterizeTime(f, live)
          [] node.kind = "modulo" -> ModuloAccumulator(f, live)
          [] node.kind = "scanline" -> Scanline(f, live, fails)
     /\ taken' = Append(taken, [frame |-> f, live |-> live, done |-> output'.is # "error"])
     /\ UNCHANGED node

\* reset, whatever the reason.
Reset ==
  /\ Counted /\ taken # <<>>
  /\ memory' = Cleared /\ taken' = <<>> /\ output' = NoData
  /\ UNCHANGED node

Next ==
  \/ \E shape \in DOMAIN Shapes, live \in Lives[node.kind], fails \in BOOLEAN : Process(shape, live, fails)
  \/ Reset

Spec == Init /\ [][Next]_vars

-----------------------------------------------------------------------------
(* Properties.                                                              *)

\* The frames at the end of the history on which the last one agrees.
Stretch(history, Same(_, _)) ==
  LET n == Len(history)
      start == Max({0} \cup {i \in DOMAIN history : ~Same(history[i], history[n])})
  IN SubSeq(history, start + 1, n)

SameShape(a, b) == a.frame.shape = b.frame.shape
SameScan(a, b) ==
  Shapes[a.frame.shape] = Shapes[b.frame.shape] /\ a.live.direction = b.live.direction

\* Where a line is that started at one end and moved so many rows.
Position(rows, height, direction) ==
  LET period == 2 * (height - 1)
  IN CASE direction = "TOP_TO_BOTTOM" -> rows % height
       [] direction = "BOTTOM_TO_TOP" -> (height - 1 - rows) % height
       [] height = 1 -> 0
       [] rows % period < height -> rows % period
       [] OTHER -> period - (rows % period)

FramesOf(history) == [i \in DOMAIN history |-> history[i].frame]
TotalOf(history, Of(_)) == FoldLeft(LAMBDA total, t : total + Of(t), 0, history)

\* Whatever frames, changes of shape, live parameters, refusals and resets a
\* runtime goes through, it answers with what its node promises of the frames
\* since: the frame of exactly that delay, the last frames in order, one frame
\* of every interval, the wrapped total, the row the line has swept to.  It
\* never holds more than its limit, nor mixes frames of two shapes.
MemoryIsExact ==
  /\ node.kind \in {"hold", "buffer"} =>
       \A i \in DOMAIN memory.history :
         /\ Len(memory.history) * Shapes[memory.history[i].shape] <= node.limit
         /\ memory.history[i].shape = memory.signature
  /\ taken # <<>> =>
       LET n == Len(taken)
           now == taken[n]
           same == FramesOf(Stretch(taken, SameShape))
           done == Stretch(SelectSeq(taken, LAMBDA t : t.done), SameShape)
           scan == Stretch(taken, SameScan)
           steady == \A t \in ToSet(taken) : t.live.step = now.live.step
       IN CASE node.kind = "scanline" ->
                 now.done => output = Row(Position(TotalOf(SubSeq(scan, 1, Len(scan) - 1),
                                                           LAMBDA t : IF t.done THEN t.live.step ELSE 0),
                                                   Shapes[now.frame.shape], now.live.direction))
            [] ~now.done -> TRUE
            [] node.kind = "hold" ->
                 output = IF Len(same) > node.length THEN Given(<<same[Len(same) - node.length]>>) ELSE NoData
            [] node.kind = "buffer" ->
                 output = Given(SubSeq(same, Max({1, Len(same) - node.length + 1}), Len(same)))
            [] node.kind = "posterize" ->
                 steady => output = Given(<<taken[Max({n - ((n - 1) % now.live.step), n - Len(same) + 1})].frame>>)
            [] node.kind = "modulo" ->
                 steady => output.frames[1].number = TotalOf(done, LAMBDA t : t.frame.number) % now.live.step

=============================================================================

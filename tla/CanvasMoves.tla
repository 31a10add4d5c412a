---------------------------- MODULE CanvasMoves ----------------------------
(***************************************************************************)
(* Nodes and groups dragged on the canvas: GraphScene of ui/canvas.py with *)
(* the items of ui/graphics.py, along one axis.  An item has a place on    *)
(* the canvas and a position in the document; a drag moves the places, its *)
(* release the positions, and an item whose model changed is replaced by a *)
(* new one at the position of its model.                                   *)
(***************************************************************************)
EXTENDS Integers, Sequences, FiniteSets, FiniteSetsExt

CONSTANTS
  Nodes, Groups,
  Size,          \* of the items, [Nodes \cup Groups -> Nat]
  Extent,        \* of the graph area, from 0
  Spacing,       \* grid_spacing
  Documents,     \* that are opened, [Items -> position], also outside the area
  MaxEdits,      \* bound on drags, undos and other changes
  Gone           \* the position of what is not in the document

Items == Nodes \cup Groups
NoDrag == [items |-> {}]

VARIABLES
  position,      \* in the document, [Items -> position or Gone]
  place,         \* of the item on the canvas
  selected,
  snaps,         \* grid_snap_enabled
  drag,          \* the drag of the pressed item
  undone,        \* the commands that undo takes back, as the positions before
  edits

vars == <<position, place, selected, snaps, drag, undone, edits>>

-----------------------------------------------------------------------------
\* clamp_position_to_scene, by which every move of an item goes.
Clamped(i, x) ==
  IF Size[i] >= Extent THEN 0
  ELSE IF x < 0 THEN 0
  ELSE IF x > Extent - Size[i] THEN Extent - Size[i]
  ELSE x

\* _bounded_translation_axis.
BoundedBy(i, start, delta) ==
  LET low == 0 - start
      high == Extent - Size[i] - start
  IN IF high < low \/ delta < low THEN low ELSE IF delta > high THEN high ELSE delta

\* Mutant of Translation: every item is kept inside on its own.
Unbounded(d, delta) == delta

\* The translation of the pointer, bounded for one dragged item after the other.
Translation(d, delta) ==
  FoldSet(LAMBDA i, t : BoundedBy(i, d.start[i], t), delta, d.items)

Nearest(x) ==
  LET q == x \div Spacing
      twice == 2 * (x % Spacing)
  IN IF twice > Spacing \/ (twice = Spacing /\ q % 2 = 1) THEN (q + 1) * Spacing ELSE q * Spacing

\* Where an item is put by the end of a drag.
Settled(i) == Clamped(i, IF snaps THEN Nearest(place[i]) ELSE place[i])

PlaceOf(model) == [i \in Items |-> IF model[i] = Gone THEN Gone ELSE Clamped(i, model[i])]
Placed == {i \in Items : place[i] # Gone}

Overlaps(g, n) == place[g] < place[n] + Size[n] /\ place[n] < place[g] + Size[g]

-----------------------------------------------------------------------------
Init ==
  /\ position \in Documents
  /\ place = PlaceOf(position)
  /\ selected = {} /\ drag = NoDrag
  /\ snaps \in BOOLEAN
  /\ undone = <<>> /\ edits = 0

Edit == edits < MaxEdits /\ edits' = edits + 1

\* The items whose models change are new ones: those leave the drag, and with the
\* pressed item it ends without a release.
Project(model) ==
  LET rebuilt == {i \in Items : model[i] # position[i]}
  IN /\ position' = model
     /\ place' = [i \in Items |-> IF i \in rebuilt THEN PlaceOf(model)[i] ELSE place[i]]
     /\ drag' = IF drag = NoDrag \/ drag.pressed \in rebuilt THEN NoDrag
                ELSE [drag EXCEPT !.stale = @ \cup rebuilt]

\* A press selects the item alone, unless it was selected or the press has Ctrl;
\* the origins are of what is selected, so not of an item pressed with Ctrl.
Press ==
  \E i \in Placed, ctrl, shift \in BOOLEAN :
    LET chosen == IF ctrl \/ i \in selected THEN selected ELSE {i}
        peers == chosen \cap (IF i \in Nodes THEN Nodes ELSE Groups)
        moved == IF i \in chosen THEN peers ELSE {i}
        stuck == IF i \in Groups /\ ~shift THEN {n \in Placed \cap Nodes : Overlaps(i, n)} ELSE {}
    IN /\ drag = NoDrag
       /\ selected' = chosen
       /\ drag' = [items |-> moved, pressed |-> i, ctrl |-> ctrl, still |-> TRUE,
                   stuck |-> stuck, origins |-> peers, start |-> place, stale |-> {}]
       /\ Edit /\ UNCHANGED <<position, place, snaps, undone>>

\* select_all_nodes, by its key also while the pointer is pressed: it changes
\* nothing of the drag.
SelectAll ==
  /\ selected # Nodes \cap Placed
  /\ selected' = Nodes \cap Placed
  /\ UNCHANGED <<position, place, snaps, drag, undone, edits>>

\* The items move together within the area, and with a group what it sticks to.
Move ==
  \E delta \in -Extent .. Extent :
    LET t == Translation(drag, delta)
    IN /\ drag # NoDrag
       /\ place' = [i \in Items |->
                      IF i \in (drag.items \cup drag.stuck) \ drag.stale
                      THEN Clamped(i, drag.start[i] + t) ELSE place[i]]
       /\ drag' = [drag EXCEPT !.still = delta = 0]
       /\ UNCHANGED <<position, selected, snaps, undone, edits>>

\* A release where the press was is a click: with Ctrl it toggles the item.
Clicked ==
  IF ~drag.still THEN selected
  ELSE IF ~drag.ctrl THEN {drag.pressed}
  ELSE IF drag.pressed \in selected THEN selected \ {drag.pressed}
  ELSE selected \cup {drag.pressed}

\* The moved nodes are one command, that joins one before of the same nodes; with
\* a group they are a macro, that is there also when nothing moved.
Command(old, joins) == [old |-> old, joins |-> joins]

Release ==
  LET items == {i \in drag.origins \cup drag.stuck : place[i] # Gone}
      old == [i \in items |-> drag.start[i]]
      new == [i \in items |-> Settled(i)]
      joins == drag.stuck = {}
      last == undone[Len(undone)]
      command == Command(old, joins)
  IN /\ drag # NoDrag
     /\ selected' = Clicked
     /\ IF old = new
        THEN /\ undone' = IF joins THEN undone ELSE Append(undone, command)
             /\ drag' = NoDrag
             /\ UNCHANGED <<position, place>>
        ELSE LET model == [i \in Items |-> IF i \in items THEN new[i] ELSE position[i]]
             IN /\ undone' = IF joins /\ undone # <<>> /\ last.joins /\ DOMAIN last.old = items
                             THEN undone ELSE Append(undone, command)
                /\ position' = model
                /\ place' = [i \in Items |-> IF model[i] # position[i] THEN PlaceOf(model)[i]
                                             ELSE place[i]]
                /\ drag' = NoDrag
     /\ UNCHANGED <<snaps, edits>>

Undo ==
  LET last == undone[Len(undone)]
  IN /\ undone # <<>>
     /\ undone' = SubSeq(undone, 1, Len(undone) - 1)
     /\ Project([i \in Items |-> IF i \in DOMAIN last.old THEN last.old[i] ELSE position[i]])
     /\ selected' = selected \cap {i \in Items : position'[i] # Gone}
     /\ Edit /\ UNCHANGED snaps

\* delete_selection, also while the pointer is pressed.
Delete ==
  LET removed == selected \cap Placed
  IN /\ removed # {}
     /\ undone' = Append(undone, Command([i \in removed |-> position[i]], FALSE))
     /\ Project([i \in Items |-> IF i \in removed THEN Gone ELSE position[i]])
     /\ selected' = {}
     /\ Edit /\ UNCHANGED snaps

\* A node is projected anew without another position: a parameter, a diagnostic,
\* the facts of a video.
Reproject ==
  \E n \in Nodes \cap Placed :
    /\ place' = [place EXCEPT ![n] = PlaceOf(position)[n]]
    /\ drag' = IF drag = NoDrag \/ drag.pressed = n THEN NoDrag
               ELSE [drag EXCEPT !.stale = @ \cup {n}]
    /\ Edit /\ UNCHANGED <<position, selected, snaps, undone>>

Next == Press \/ SelectAll \/ Move \/ Release \/ Undo \/ Delete \/ Reproject

Spec == Init /\ [][Next]_vars

-----------------------------------------------------------------------------
\* The nodes that a drag without the grid moves keep their arrangement, up to the
\* edge of the area and through what happens meanwhile: those that were not
\* replaced during the drag all have moved by one vector, the others not at all.
DragKeepsArrangement ==
  [][position' # position /\ Release /\ drag.stuck = {} /\ ~snaps =>
       LET together == drag.origins \ drag.stale
       IN /\ \A i, j \in together :
               position'[i] - drag.start[i] = position'[j] - drag.start[j]
          /\ \A i \in Items \ drag.origins : position'[i] = position[i]]_vars
=============================================================================

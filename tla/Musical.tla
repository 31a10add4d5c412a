------------------------------- MODULE Musical -------------------------------
(***************************************************************************)
(* From measurements to notes: the scales and the ranking of candidates     *)
(* (midi/scales.py), and the nodes that turn the pixels of a channel, the   *)
(* cells of a grid, contours, bands of frequencies and motion into          *)
(* candidates (nodes/synesthesia).                                          *)
(*                                                                          *)
(* A measurement is a whole number of 1/Unit between 0 and 1; a strength is *)
(* the fraction <<numerator, denominator>>.  How images are measured, and   *)
(* the curves that strengths may be bent by, are left out.                  *)
(***************************************************************************)
EXTENDS Naturals, Sequences, SequencesExt, FiniteSets, FiniteSetsExt

CONSTANTS Unit,       \* steps between 0 and 1
          Settings,   \* settings of the node
          Frames,     \* what is measured in a frame
          MaxFrames   \* bound on frames

VARIABLES settings, measured, notes, count

vars == <<settings, measured, notes, count>>

-----------------------------------------------------------------------------
(* Scales.                                                                  *)

\* BUILTIN_SCALE_REGISTRY: the pitch classes above the root.
Scale(id) ==
  CASE id = "chromatic" -> 0 .. 11
    [] id = "major" -> {0, 2, 4, 5, 7, 9, 11}
    [] id = "natural_minor" -> {0, 2, 3, 5, 7, 8, 10}
    [] id = "harmonic_minor" -> {0, 2, 3, 5, 7, 8, 11}
    [] id = "melodic_minor" -> {0, 2, 3, 5, 7, 9, 11}
    [] id = "dorian" -> {0, 2, 3, 5, 7, 9, 10}
    [] id = "phrygian" -> {0, 1, 3, 5, 7, 8, 10}
    [] id = "lydian" -> {0, 2, 4, 6, 7, 9, 11}
    [] id = "mixolydian" -> {0, 2, 4, 5, 7, 9, 10}
    [] id = "locrian" -> {0, 1, 3, 5, 6, 8, 10}
    [] id = "major_pentatonic" -> {0, 2, 4, 7, 9}
    [] id = "minor_pentatonic" -> {0, 3, 5, 7, 10}
    [] id = "whole_tone" -> {0, 2, 4, 6, 8, 10}
    [] id = "diminished" -> {0, 2, 3, 5, 6, 8, 9, 11}

\* A custom scale brings its own pitch classes.
PitchClasses(s) == IF s.scale = "custom" THEN s.custom ELSE Scale(s.scale)

\* allowed_notes, in ascending order.
AllowedNotes(s) ==
  SetToSortSeq({n \in s.low .. s.high : (n + 12 - s.root) % 12 \in PitchClasses(s)},
               LAMBDA a, b : a < b)

\* resolve_common_musical_settings refuses what would allow no note.
IsValid(s) ==
  /\ s.low <= s.high /\ s.softest <= s.loudest /\ s.polyphony >= 1
  /\ AllowedNotes(s) # <<>>

-----------------------------------------------------------------------------
(* select_midi_notes.                                                       *)

Weaker(a, b) == a[1] * b[2] < b[1] * a[2]

\* The greatest strength of each note.
Strengths(candidates) ==
  [n \in {c.note : c \in candidates} |->
     (CHOOSE c \in candidates : /\ c.note = n
                                /\ \A d \in candidates : d.note = n => ~Weaker(c.strength, d.strength)).strength]

\* Mutant of Ranked: of equal strengths the highest note comes first, and the
\* weakest of all.
RankedBackwards(strengths) ==
  SetToSortSeq(DOMAIN strengths, LAMBDA a, b : Weaker(strengths[a], strengths[b])
                                               \/ (~Weaker(strengths[b], strengths[a]) /\ a > b))

\* The strongest first, of equal ones the lowest.
Ranked(strengths) ==
  SetToSortSeq(DOMAIN strengths, LAMBDA a, b : Weaker(strengths[b], strengths[a])
                                               \/ (~Weaker(strengths[a], strengths[b]) /\ a < b))

\* floor(strength * span + 1/2) above the softest.
Velocity(strength, s) ==
  LET lifted == s.softest + (2 * strength[1] * (s.loudest - s.softest) + strength[2]) \div (2 * strength[2])
  IN IF lifted > s.loudest THEN s.loudest ELSE lifted

SelectMidiNotes(candidates, s) ==
  LET strengths == Strengths(candidates)
      ranked == Ranked(strengths)
      kept == {ranked[i] : i \in {j \in DOMAIN ranked : j <= s.polyphony}}
  IN [n \in kept |-> Velocity(strengths[n], s)]

-----------------------------------------------------------------------------
(* Candidates.                                                              *)

Candidate(note, strength) == [note |-> note, strength |-> strength]

\* _occupancy_strength and _sample_strength: nothing up to the threshold, and
\* what is above it stretched to the whole range.
AboveThreshold(value, whole, threshold) ==
  IF threshold = Unit THEN (IF value = whole THEN {<<1, 1>>} ELSE {})
  ELSE IF value * Unit <= threshold * whole THEN {}
  ELSE {<<value * Unit - threshold * whole, whole * (Unit - threshold)>>}

\* channel_histogram_to_midi_state: a bin for each note; the top of the range
\* belongs to the last.
Histogram(pixels, s) ==
  LET allowed == AllowedNotes(s)
      last == Len(allowed) - 1
      bin(p) == IF (p * Len(allowed)) \div Unit > last THEN last ELSE (p * Len(allowed)) \div Unit
      occupancy(k) == Cardinality({i \in DOMAIN pixels : bin(pixels[i]) = k})
  IN UNION {{Candidate(allowed[k + 1], x) : x \in AboveThreshold(occupancy(k), Len(pixels), s.threshold)}
              : k \in 0 .. last}

\* Halves round up.
Rounded(numerator, denominator) == (2 * numerator + denominator) \div (2 * denominator)

\* region_grid_to_midi_state: the cells spread over the notes.
Grid(cells, s) ==
  LET allowed == AllowedNotes(s)
      index(i) == IF Len(cells) = 1 THEN 0
                  ELSE Rounded((i - 1) * (Len(allowed) - 1), Len(cells) - 1)
  IN UNION {{Candidate(allowed[index(i) + 1], x) : x \in AboveThreshold(cells[i], Unit, s.threshold)}
              : i \in {j \in DOMAIN cells : cells[j] > s.threshold}}

\* edges_to_midi_state: a contour has a pitch and a velocity.
Contours(contours, s) ==
  LET allowed == AllowedNotes(s)
      index(p) == Rounded(p * (Len(allowed) - 1), Unit)
  IN {Candidate(allowed[index(contours[i]) + 1], <<contours[Len(contours) + 1 - i], Unit>>)
        : i \in DOMAIN contours}

\* fourier_to_midi_state and scanline_to_midi_state: a measurement for every
\* note.
Bands(samples, s) ==
  LET allowed == AllowedNotes(s)
      sample(k) == samples[((k - 1) % Len(samples)) + 1]
  IN UNION {{Candidate(allowed[k], x) : x \in AboveThreshold(sample(k), Unit, s.threshold)}
              : k \in DOMAIN allowed}

\* _histogram_candidates of Optical Flow: pixels that move, by where they are
\* or go, and the share of them that has a note.
Motion(pixels, s) ==
  LET allowed == AllowedNotes(s)
      moving == {i \in DOMAIN pixels : pixels[Len(pixels) + 1 - i] > s.threshold}
      note(i) == allowed[Rounded(pixels[i] * (Len(allowed) - 1), Unit) + 1]
  IN {Candidate(note(i), <<Cardinality({j \in moving : note(j) = note(i)}), Len(pixels)>>) : i \in moving}

Candidates(s, values) ==
  CASE values = <<>> -> {}
    [] s.node = "histogram" -> Histogram(values, s)
    [] s.node = "grid" -> Grid(values, s)
    [] s.node = "contours" -> Contours(values, s)
    [] s.node = "bands" -> Bands(values, s)
    [] s.node = "motion" -> Motion(values, s)

-----------------------------------------------------------------------------
Init ==
  /\ settings \in Settings
  /\ measured = <<>> /\ notes = <<>> /\ count = 0

\* midi_state_from_candidates.  Settings may come from other nodes, so that
\* only now they may be found to contradict each other: the node fails.
Frame(values) ==
  /\ count < MaxFrames /\ count' = count + 1
  /\ measured' = values
  /\ notes' = IF IsValid(settings) THEN SelectMidiNotes(Candidates(settings, values), settings) ELSE <<>>
  /\ UNCHANGED settings

Next == \E values \in Frames : Frame(values)

Spec == Init /\ [][Next]_vars

-----------------------------------------------------------------------------
(* Properties.                                                              *)

Better(c, d) == Weaker(d.strength, c.strength) \/ (~Weaker(c.strength, d.strength) /\ c.note < d.note)

\* The notes that sound are of the scale and within range, as many as the
\* polyphony allows, and no candidate is silent that is stronger than one that
\* sounds (select_midi_notes); a stronger note is never softer.  Settings that
\* contradict each other sound nothing.
NotesAreStrongest ==
  LET candidates == IF IsValid(settings) THEN Candidates(settings, measured) ELSE {}
      sounding == DOMAIN notes
      best(n) == CHOOSE c \in candidates : c.note = n /\ \A d \in candidates : d.note = n => ~Better(d, c)
  IN /\ sounding \subseteq ToSet(AllowedNotes(settings))
     /\ \A n \in sounding : notes[n] \in settings.softest .. settings.loudest
     /\ Cardinality(sounding) = Min({settings.polyphony, Cardinality({c.note : c \in candidates})})
     /\ \A n \in sounding : \A c \in candidates : c.note \notin sounding => ~Better(c, best(n))
     /\ \A m, n \in sounding : Weaker(best(m).strength, best(n).strength) => notes[m] <= notes[n]

=============================================================================

----------------------------- MODULE PreviewSlot -----------------------------
(***************************************************************************)
(* One preview slot (runtime/preview_channel.py): a block of memory shared *)
(* by the engine process, which writes frames into it                      *)
(* (AttachedPreviewSlot.write), and the UI process, which polls it         *)
(* (SharedMemoryPreviewReader.poll_images). Nothing is locked between the  *)
(* two: an odd write version marks a write in progress, and the reader     *)
(* keeps a copy only when the header did not change while it copied.       *)
(*                                                                         *)
(* Neither the header nor the payload is written or read in one step. The  *)
(* header is its write version and its sequence number, in this order (the *)
(* tick index is written with the sequence; the format never changes in    *)
(* one slot). A frame is named by its sequence number, and a payload cell  *)
(* holds the number of the frame it was last written from.                 *)
(***************************************************************************)
EXTENDS Integers

CONSTANTS
    Cells,         \* the parts of the payload
    ReadAttempts,  \* _READ_ATTEMPTS
    MaxSequence    \* bound: the greatest sequence number published

ASSUME AttemptsAssumption == ReadAttempts \in Nat \ {0}
ASSUME BoundAssumption == MaxSequence \in Nat

VARIABLES
    version,     \* header: write version
    sequence,    \* header: sequence number, 0 in a new block
    payload,     \* the payload cells, 0 in a new block
    writing,     \* where the writer is: idle, header, payload or trailer
    frame,       \* the frame written last, or being written
    unwritten,   \* the cells still to write
    stage,       \* what the reader does: idle, peek or read
    step,        \* how far the attempt is
    attempt,     \* the number of the attempt
    before,      \* the header unpacked before the copy
    after,       \* the header unpacked after it
    copy,        \* the copied cells
    uncopied,    \* the cells still to copy
    shown        \* the image polled last

memory == <<version, sequence, payload>>
writer == <<writing, frame, unwritten>>
reader == <<stage, step, attempt, before, after, copy, uncopied, shown>>
vars == <<version, sequence, payload, writing, frame, unwritten, stage, step,
          attempt, before, after, copy, uncopied, shown>>

Sequences == 0..MaxSequence
Blank == [c \in Cells |-> 0]
Header == [version : Nat, sequence : Sequences]
Image == [sequence : Sequences, data : [Cells -> Sequences]]
Steps == {"before", "sequence", "copy", "after", "compare"}

MemoryType ==
    /\ version \in Nat
    /\ sequence \in Sequences
    /\ payload \in [Cells -> Sequences]

WriterType ==
    /\ writing \in {"idle", "header", "payload", "trailer"}
    /\ frame \in Sequences
    /\ unwritten \in SUBSET Cells

ReaderType ==
    /\ stage \in {"idle", "peek", "read"}
    /\ step \in Steps
    /\ attempt \in 1..ReadAttempts
    /\ before \in Header
    /\ after \in Header
    /\ copy \in [Cells -> Sequences]
    /\ uncopied \in SUBSET Cells
    /\ shown \in Image

\* Every variable has its type: no attempt past the last, no frame past the bound.
TypeOK == MemoryType /\ WriterType /\ ReaderType

Init ==
    /\ version = 0 /\ sequence = 0 /\ payload = Blank
    /\ writing = "idle" /\ frame = 0 /\ unwritten = {}
    /\ stage = "idle" /\ step = "before" /\ attempt = 1
    /\ before = [version |-> 0, sequence |-> 0]
    /\ after = [version |-> 0, sequence |-> 0]
    /\ copy = Blank /\ uncopied = {}
    /\ shown = [sequence |-> 0, data |-> Blank]

-----------------------------------------------------------------------------
(* The writer: AttachedPreviewSlot.write *)

\* The odd version goes out before anything else of frame s.
WriteBegin(s) ==
    /\ writing = "idle"
    /\ s > frame
    /\ frame' = s
    /\ version' = version + 1
    /\ writing' = "header"
    /\ UNCHANGED <<sequence, payload, unwritten, reader>>

WriteSequence ==
    /\ writing = "header"
    /\ sequence' = frame
    /\ unwritten' = Cells
    /\ writing' = "payload"
    /\ UNCHANGED <<version, payload, frame, reader>>

WriteCell(c) ==
    /\ writing = "payload"
    /\ c \in unwritten
    /\ payload' = [payload EXCEPT ![c] = frame]
    /\ unwritten' = unwritten \ {c}
    /\ UNCHANGED <<version, sequence, writing, frame, reader>>

\* The even version follows the whole payload.
WriteCommit ==
    /\ writing = "payload"
    /\ unwritten = {}
    /\ version' = version + 1
    /\ writing' = "trailer"
    /\ UNCHANGED <<sequence, payload, frame, unwritten, reader>>

WriteEnd ==
    /\ writing = "trailer"
    /\ sequence' = frame
    /\ writing' = "idle"
    /\ UNCHANGED <<version, payload, frame, unwritten, reader>>

WriteStep ==
    \/ WriteSequence
    \/ \E c \in Cells : WriteCell(c)
    \/ WriteCommit
    \/ WriteEnd

-----------------------------------------------------------------------------
(* The reader: poll_images, peek_sequence and read *)

\* The thresholds of a poll are the sequence numbers already shown.
Newer(s) == s > shown.sequence

Committed(header) == header.version # 0 /\ header.version % 2 = 0

Poll ==
    /\ stage = "idle"
    /\ stage' = "peek" /\ step' = "before" /\ attempt' = 1
    /\ UNCHANGED <<memory, writer, before, after, copy, uncopied, shown>>

\* An attempt failed: the next one, or nothing (None, or a peeked 0).
Retry ==
    IF attempt < ReadAttempts
    THEN attempt' = attempt + 1 /\ UNCHANGED stage /\ step' = "before"
    ELSE stage' = "idle" /\ UNCHANGED <<attempt, step>>

UnpackVersion ==
    /\ stage # "idle" /\ step = "before"
    /\ before' = [before EXCEPT !.version = version]
    /\ step' = "sequence"
    /\ UNCHANGED <<memory, writer, stage, attempt, after, copy, uncopied, shown>>

\* A header still empty or being written ends the attempt. A peek goes on to
\* unpack the header again, a read to copy.
UnpackSequence ==
    LET header == [before EXCEPT !.sequence = sequence]
    IN  /\ stage # "idle" /\ step = "sequence"
        /\ before' = header
        /\ \/ /\ Committed(header)
              /\ stage = "peek"
              /\ step' = "after"
              /\ UNCHANGED <<stage, attempt, uncopied>>
           \/ /\ Committed(header) /\ header.sequence # 0
              /\ stage = "read"
              /\ step' = "copy"
              /\ uncopied' = Cells
              /\ UNCHANGED <<stage, attempt>>
           \/ /\ \/ ~Committed(header)
                 \/ stage = "read" /\ header.sequence = 0
              /\ Retry
              /\ UNCHANGED uncopied
        /\ UNCHANGED <<memory, writer, after, copy, shown>>

CopyCell(c) ==
    /\ stage = "read" /\ step = "copy"
    /\ c \in uncopied
    /\ copy' = [copy EXCEPT ![c] = payload[c]]
    /\ uncopied' = uncopied \ {c}
    /\ UNCHANGED <<memory, writer, stage, step, attempt, before, after, shown>>

CopyEnd ==
    /\ stage = "read" /\ step = "copy"
    /\ uncopied = {}
    /\ step' = "after"
    /\ UNCHANGED <<memory, writer, stage, attempt, before, after, copy, uncopied, shown>>

UnpackVersionAgain ==
    /\ stage # "idle" /\ step = "after"
    /\ after' = [after EXCEPT !.version = version]
    /\ step' = "compare"
    /\ UNCHANGED <<memory, writer, stage, attempt, before, copy, uncopied, shown>>

\* peek_sequence returns: a newer frame is read, any other ends the poll.
PeekCompare ==
    LET header == [after EXCEPT !.sequence = sequence]
    IN  /\ stage = "peek" /\ step = "compare"
        /\ after' = header
        /\ \/ /\ before = header
              /\ Newer(before.sequence)
              /\ stage' = "read" /\ step' = "before" /\ attempt' = 1
           \/ /\ before = header
              /\ ~Newer(before.sequence)
              /\ stage' = "idle"
              /\ UNCHANGED <<step, attempt>>
           \/ /\ before # header
              /\ Retry
        /\ UNCHANGED <<memory, writer, before, copy, uncopied, shown>>

\* Mutant: a copy is kept when the header is committed, changed or not.
ReadCompareParity ==
    LET header == [after EXCEPT !.sequence = sequence]
    IN  /\ stage = "read" /\ step = "compare"
        /\ after' = header
        /\ \/ /\ Committed(header)
              /\ stage' = "idle"
              /\ shown' = IF Newer(before.sequence)
                          THEN [sequence |-> before.sequence, data |-> copy]
                          ELSE shown
              /\ UNCHANGED <<step, attempt>>
           \/ /\ ~Committed(header)
              /\ Retry
              /\ UNCHANGED shown
        /\ UNCHANGED <<memory, writer, before, copy, uncopied>>

\* read returns: the image is taken when the header stayed the same.
ReadCompare ==
    LET header == [after EXCEPT !.sequence = sequence]
    IN  /\ stage = "read" /\ step = "compare"
        /\ after' = header
        /\ \/ /\ before = header
              /\ stage' = "idle"
              /\ shown' = IF Newer(before.sequence)
                          THEN [sequence |-> before.sequence, data |-> copy]
                          ELSE shown
              /\ UNCHANGED <<step, attempt>>
           \/ /\ before # header
              /\ Retry
              /\ UNCHANGED shown
        /\ UNCHANGED <<memory, writer, before, copy, uncopied>>

ReadStep ==
    \/ UnpackVersion
    \/ UnpackSequence
    \/ \E c \in Cells : CopyCell(c)
    \/ CopyEnd
    \/ UnpackVersionAgain
    \/ PeekCompare
    \/ ReadCompare

Next ==
    \/ \E s \in Sequences : WriteBegin(s)
    \/ WriteStep
    \/ Poll
    \/ ReadStep

Spec == Init /\ [][Next]_vars

\* A write that began ends, and the UI's timer polls again and again.
Fairness == WF_vars(WriteStep) /\ WF_vars(Poll) /\ WF_vars(ReadStep)
FairSpec == Spec /\ Fairness

-----------------------------------------------------------------------------
(* Properties *)

\* An image the UI shows is whole: every cell is of the frame that its header
\* names, whatever the writer did during the copy.
ImageIsWhole == \A c \in Cells : shown.data[c] = shown.sequence

=============================================================================

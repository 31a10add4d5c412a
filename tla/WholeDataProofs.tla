-------------------------- MODULE WholeDataProofs --------------------------
(***************************************************************************)
(* Proofs that a reader meets whole data, although it is written in steps  *)
(* and nothing is locked.                                                  *)
(*                                                                         *)
(* The first part is about PreviewSlot, for every set of payload cells,    *)
(* every number of read attempts and every number of frames: the image     *)
(* that is polled is one frame.  The second part is about                  *)
(* write_text_atomically: whatever fails, crashes or loses power, any      *)
(* number of times, the graph and its backup stay whole and a reported     *)
(* save is not reverted.  The third part is about Recovery, for every      *)
(* finite set of documents, every set of paths and every bound: reported   *)
(* work is kept and a clean exit leaves no recovery file.                  *)
(***************************************************************************)
EXTENDS PreviewSlot, AtomicFile, Recovery, FiniteSetTheorems, SequenceTheorems, TLAPS


USE AttemptsAssumption, BoundAssumption

\* While the version is even the memory holds one frame; while a payload is
\* written the header and the cells already written are of the new one.
WriterInv ==
    /\ writing \in {"idle", "trailer"} =>
           /\ version % 2 = 0
           /\ sequence = frame
           /\ \A c \in Cells : payload[c] = frame
    /\ writing \in {"header", "payload"} => version % 2 = 1
    /\ writing = "payload" =>
           /\ sequence = frame
           /\ \A c \in Cells \ unwritten : payload[c] = frame

\* As long as the version is the one unpacked, so are the other header fields
\* and the cells copied; once it was unpacked again unchanged, the copy is whole.
ReaderInv ==
    stage # "idle" =>
        /\ step # "before" => before.version <= version
        /\ step \in {"copy", "after", "compare"} =>
               /\ Committed(before)
               /\ before.version = version => before.sequence = sequence
        /\ stage = "read" /\ step = "copy" /\ before.version = version =>
               \A c \in Cells \ uncopied : copy[c] = before.sequence
        /\ stage = "read" /\ step = "after" /\ before.version = version =>
               \A c \in Cells : copy[c] = before.sequence
        /\ stage = "read" /\ step = "compare" /\ before.version = after.version =>
               \A c \in Cells : copy[c] = before.sequence

Inv == TypeOK /\ WriterInv /\ ReaderInv /\ ImageIsWhole

LEMMA InitInv == Init => Inv
BY DEF Init, Inv, TypeOK, MemoryType, WriterType, ReaderType, WriterInv, ReaderInv,
       ImageIsWhole, Sequences, Blank, Header, Image, Steps

-----------------------------------------------------------------------------
(* Types *)

\* A write keeps the types; the reader's variables are not its own.
LEMMA WriteTypes ==
    ASSUME TypeOK, (\E s \in Sequences : WriteBegin(s)) \/ WriteStep
    PROVE  TypeOK'
<1>1. ReaderType'
  BY DEF TypeOK, ReaderType, WriteBegin, WriteStep, WriteSequence, WriteCell,
         WriteCommit, WriteEnd, reader
<1>2. MemoryType' /\ WriterType'
  BY DEF TypeOK, MemoryType, WriterType, WriteBegin, WriteStep, WriteSequence,
         WriteCell, WriteCommit, WriteEnd, Sequences
<1> QED
  BY <1>1, <1>2 DEF TypeOK

\* The reader's steps keep the types; they change nothing of the memory.
LEMMA ReadTypes ==
    ASSUME TypeOK, Poll \/ ReadStep
    PROVE  TypeOK'
<1> USE DEF TypeOK, ReaderType, MemoryType, Header, Steps
<1>1. MemoryType' /\ WriterType'
  BY DEF Poll, ReadStep, UnpackVersion, UnpackSequence, CopyCell, CopyEnd,
         UnpackVersionAgain, PeekCompare, ReadCompare, memory, writer, WriterType
<1>2. ASSUME Retry
      PROVE  attempt' \in 1..ReadAttempts /\ step' \in Steps
             /\ stage' \in {"idle", "peek", "read"}
  BY <1>2 DEF Retry
<1>3. CASE Poll
  BY <1>1, <1>3 DEF Poll
<1>4. CASE UnpackVersion
  BY <1>1, <1>4 DEF UnpackVersion
<1>5. CASE UnpackSequence
  BY <1>1, <1>2, <1>5 DEF UnpackSequence
<1>6. CASE \E c \in Cells : CopyCell(c)
  BY <1>1, <1>6 DEF CopyCell
<1>7. CASE CopyEnd
  BY <1>1, <1>7 DEF CopyEnd
<1>8. CASE UnpackVersionAgain
  BY <1>1, <1>8 DEF UnpackVersionAgain
<1>9. CASE PeekCompare
  BY <1>1, <1>2, <1>9 DEF PeekCompare
<1>10. CASE ReadCompare
  BY <1>1, <1>2, <1>10 DEF ReadCompare, Image
<1> QED
  BY <1>3, <1>4, <1>5, <1>6, <1>7, <1>8, <1>9, <1>10 DEF ReadStep

-----------------------------------------------------------------------------
(* The steps *)

\* A write raises the version or, when the version is odd, changes what no
\* reader has taken for committed.
LEMMA WriteKeepsInv ==
    ASSUME Inv, (\E s \in Sequences : WriteBegin(s)) \/ WriteStep
    PROVE  Inv'
<1> USE DEF Inv
<1>1. TypeOK'
  BY WriteTypes
<1>2. UNCHANGED reader
  BY DEF WriteBegin, WriteStep, WriteSequence, WriteCell, WriteCommit, WriteEnd
<1>3. ImageIsWhole'
  BY <1>2 DEF ImageIsWhole, reader
<1>4. WriterInv'
  BY DEF WriterInv, TypeOK, MemoryType, WriterType, WriteBegin, WriteStep,
         WriteSequence, WriteCell, WriteCommit, WriteEnd
<1>5. \/ version' = version + 1
      \/ version' = version /\ sequence' = sequence
      \/ version' = version /\ version % 2 = 1
  BY DEF WriterInv, WriteBegin, WriteStep, WriteSequence, WriteCell, WriteCommit, WriteEnd
<1>6. version \in Nat /\ before.version \in Nat
  BY DEF TypeOK, MemoryType, ReaderType, Header
<1>7. ReaderInv'
  BY <1>2, <1>5, <1>6 DEF ReaderInv, Committed, reader
<1> QED
  BY <1>1, <1>3, <1>4, <1>7

\* The reader's steps leave the memory alone.
LEMMA ReadKeepsInv ==
    ASSUME Inv, Poll \/ ReadStep
    PROVE  Inv'
<1> USE DEF Inv
<1>1. TypeOK'
  BY ReadTypes
<1>2. UNCHANGED <<memory, writer>>
  BY DEF Poll, ReadStep, UnpackVersion, UnpackSequence, CopyCell, CopyEnd,
         UnpackVersionAgain, PeekCompare, ReadCompare
<1>3. WriterInv'
  BY <1>2 DEF WriterInv, memory, writer
<1>4. version \in Nat /\ before \in Header /\ after \in Header
  BY DEF TypeOK, MemoryType, ReaderType
<1>5. ASSUME Retry
      PROVE  stage' = "idle" \/ step' = "before"
  BY <1>5 DEF Retry
<1>6. CASE Poll
  <2>1. stage' = "peek" /\ step' = "before" /\ UNCHANGED shown
    BY <1>6 DEF Poll
  <2> QED
    BY <1>1, <1>3, <2>1 DEF ReaderInv, ImageIsWhole
<1>7. CASE UnpackVersion
  <2>1. before'.version = version' /\ step' = "sequence" /\ UNCHANGED shown
    BY <1>2, <1>4, <1>7 DEF UnpackVersion, Header, memory
  <2> QED
    BY <1>1, <1>2, <1>3, <1>4, <2>1 DEF ReaderInv, ImageIsWhole, memory, Header
<1>8. CASE UnpackSequence
  <2>1. before'.version = before.version /\ before'.sequence = sequence
        /\ UNCHANGED shown
    BY <1>4, <1>8 DEF UnpackSequence, Header
  <2>2. before.version <= version
    BY <1>8 DEF UnpackSequence, ReaderInv
  <2>3. \/ stage' = "idle" \/ step' = "before"
        \/ stage' = "peek" /\ step' = "after" /\ Committed(before')
        \/ stage' = "read" /\ step' = "copy" /\ uncopied' = Cells /\ Committed(before')
    BY <1>5, <1>8 DEF UnpackSequence
  <2> QED
    BY <1>1, <1>2, <1>3, <2>1, <2>2, <2>3 DEF ReaderInv, ImageIsWhole, memory
<1>9. CASE \E c \in Cells : CopyCell(c)
  <2>1. PICK c \in Cells : CopyCell(c)
    BY <1>9
  <2>2. before.version = version =>
            /\ before.version % 2 = 0 /\ before.sequence = sequence
    BY <2>1 DEF CopyCell, ReaderInv, Committed
  <2>3. before.version = version => payload[c] = before.sequence
    BY <1>4, <2>2 DEF WriterInv, TypeOK, WriterType
  <2>4. copy' = [copy EXCEPT ![c] = payload[c]] /\ copy \in [Cells -> Sequences]
    BY <2>1 DEF CopyCell, TypeOK, ReaderType
  <2> QED
    BY <1>1, <1>2, <1>3, <2>1, <2>3, <2>4 DEF CopyCell, ReaderInv, ImageIsWhole, memory
<1>10. CASE CopyEnd
  BY <1>1, <1>2, <1>3, <1>10 DEF CopyEnd, ReaderInv, ImageIsWhole, memory
<1>11. CASE UnpackVersionAgain
  <2>1. after'.version = version
    BY <1>4, <1>11 DEF UnpackVersionAgain, Header
  <2> QED
    BY <1>1, <1>2, <1>3, <1>11, <2>1
    DEF UnpackVersionAgain, ReaderInv, ImageIsWhole, memory
<1>12. CASE PeekCompare
  <2>1. (stage' = "idle" \/ step' = "before") /\ UNCHANGED shown
    BY <1>5, <1>12 DEF PeekCompare
  <2> QED
    BY <1>1, <1>3, <2>1 DEF ReaderInv, ImageIsWhole
<1>13. CASE ReadCompare
  <2>1. stage' = "idle" \/ step' = "before"
    BY <1>5, <1>13 DEF ReadCompare
  <2>2. before = [after EXCEPT !.sequence = sequence] => before.version = after.version
    BY <1>4 DEF Header
  <2>3. ASSUME shown' # shown
        PROVE  shown' = [sequence |-> before.sequence, data |-> copy]
               /\ \A c \in Cells : copy[c] = before.sequence
    BY <1>13, <2>2, <2>3 DEF ReadCompare, ReaderInv
  <2>4. ImageIsWhole'
    BY <2>3 DEF ImageIsWhole
  <2> QED
    BY <1>1, <1>3, <2>1, <2>4 DEF ReaderInv
<1> QED
  BY <1>6, <1>7, <1>8, <1>9, <1>10, <1>11, <1>12, <1>13 DEF ReadStep

\* The inductive step.
LEMMA NextInv == Inv /\ [Next]_vars => Inv'
<1>1. ASSUME Inv, UNCHANGED vars
      PROVE  Inv'
  BY <1>1 DEF Inv, TypeOK, MemoryType, WriterType, ReaderType, WriterInv, ReaderInv,
              ImageIsWhole, vars
<1> QED
  BY <1>1, WriteKeepsInv, ReadKeepsInv DEF Next

-----------------------------------------------------------------------------
\* The slot's variables keep their types: no read attempt past the last.
THEOREM TypeCorrect == Spec => []TypeOK
<1>1. Inv => TypeOK
  BY DEF Inv
<1> QED
  BY <1>1, InitInv, NextInv, PTL DEF Spec

\* No torn image: whatever AttachedPreviewSlot.write does while
\* OwnedPreviewSlot.read copies, the image returned is one whole frame.
THEOREM NoTornImage == Spec => []ImageIsWhole
<1>1. Inv => ImageIsWhole
  BY DEF Inv
<1> QED
  BY <1>1, InitInv, NextInv, PTL DEF Spec

-----------------------------------------------------------------------------
(* The atomic save.                                                         *)


File == [data : Int, synced : BOOLEAN]

\* The two names a reader opens.
Kept == {"graph", "backup"}

SaveTypeOK ==
  /\ posix \in BOOLEAN /\ retain \in BOOLEAN
  /\ pc \in {"none", "sync", "copy", "replace_backup", "sync_backup", "replace", "sync_graph"}
  /\ directory \in [Names -> File] /\ durable \in [Names -> File]
  /\ saving \in Nat /\ reportedSave \in Nat

\* A directory that may be found again: what a reader opens is on the disk, the
\* backup is no newer than the graph, and the graph is none of the future.
Sound(dir) ==
  /\ \A n \in Kept : dir[n].synced /\ dir[n].data \in Nat
  /\ dir["backup"].data <= dir["graph"].data
  /\ dir["graph"].data <= saving
  /\ posix => reportedSave <= dir["graph"].data

\* What a step has prepared for the next: the temporary file is whole and
\* synced before it is renamed, and so is the copy for the backup.
Prepared ==
  /\ pc \in {"copy", "replace_backup", "sync_backup", "replace"} =>
       directory["temporary"] = [data |-> saving, synced |-> TRUE]
  /\ pc = "replace_backup" =>
       directory["backup_temporary"] = [data |-> directory["graph"].data, synced |-> TRUE]
  /\ pc = "sync_graph" => directory["graph"].data = saving

\* The inductive invariant.  A loss of power may bring back the directory as it
\* was last made durable, so that one has to be sound as well.
SaveInv ==
  /\ SaveTypeOK
  /\ reportedSave <= saving
  /\ Sound(directory) /\ Sound(durable)
  /\ Prepared

-----------------------------------------------------------------------------
(* Writing and renaming.                                                    *)

LEMMA SaveInitInv == SaveInit => SaveInv
  BY DEF SaveInit, SaveInv, SaveTypeOK, Sound, Prepared, File, Kept, NoFile, Names

-----------------------------------------------------------------------------
(* The steps of a save.                                                     *)

LEMMA NamesFacts ==
  /\ Kept \subseteq Names
  /\ "temporary" \in Names \ Kept /\ "backup_temporary" \in Names \ Kept
  /\ "graph" \in Kept /\ "backup" \in Kept
  BY DEF Names, Kept

\* A directory in which the graph and its backup are the same is as sound.
LEMMA SoundSame ==
  ASSUME NEW dir, NEW new, Sound(dir), \A n \in Kept : new[n] = dir[n]
  PROVE  Sound(new)
  BY DEF Sound, Kept

LEMMA BeginInv == SaveInv /\ Begin => SaveInv'
<1> SUFFICES ASSUME SaveInv, Begin PROVE SaveInv'
  OBVIOUS
<1> USE NamesFacts
<1>1. /\ directory' \in [Names -> File]
      /\ \A n \in Kept : directory'[n] = directory[n]
  BY DEF SaveInv, SaveTypeOK, Begin, Put, File, Names, Kept
<1>2. SaveTypeOK'
  BY <1>1 DEF SaveInv, SaveTypeOK, Begin, Put
<1>3. Sound(directory)' /\ Sound(durable)'
  BY <1>1 DEF SaveInv, SaveTypeOK, Begin, Put, Sound, Kept
<1> QED
  BY <1>2, <1>3 DEF SaveInv, SaveTypeOK, Begin, Put, Prepared

LEMMA SyncTemporaryInv == SaveInv /\ SyncTemporary => SaveInv'
<1> SUFFICES ASSUME SaveInv, SyncTemporary PROVE SaveInv'
  OBVIOUS
<1> USE NamesFacts
<1>1. /\ directory' \in [Names -> File]
      /\ \A n \in Kept : directory'[n] = directory[n]
      /\ directory'["temporary"] = [data |-> saving, synced |-> TRUE]
  BY DEF SaveInv, SaveTypeOK, SyncTemporary, Put, File, Names, Kept
<1>2. SaveTypeOK'
  BY <1>1 DEF SaveInv, SaveTypeOK, SyncTemporary, Put
<1>3. Sound(directory)' /\ Sound(durable)'
  BY <1>1 DEF SaveInv, SaveTypeOK, SyncTemporary, Put, Sound, Kept
<1> QED
  BY <1>1, <1>2, <1>3 DEF SaveInv, SaveTypeOK, SyncTemporary, Put, Prepared

LEMMA CopyToBackupInv == SaveInv /\ CopyToBackup => SaveInv'
<1> SUFFICES ASSUME SaveInv, CopyToBackup PROVE SaveInv'
  OBVIOUS
<1> USE NamesFacts
<1>1. /\ directory' \in [Names -> File]
      /\ \A n \in Kept : directory'[n] = directory[n]
      /\ directory'["temporary"] = directory["temporary"]
      /\ directory'["backup_temporary"] = [data |-> directory["graph"].data, synced |-> TRUE]
  <2>1. directory["graph"].data \in Int
    BY DEF SaveInv, Sound
  <2> QED
    BY <2>1 DEF SaveInv, SaveTypeOK, CopyToBackup, Put, File, Names, Kept
<1>2. SaveTypeOK'
  BY <1>1 DEF SaveInv, SaveTypeOK, CopyToBackup, Put
<1>3. Sound(directory)' /\ Sound(durable)'
  BY <1>1 DEF SaveInv, SaveTypeOK, CopyToBackup, Put, Sound, Kept
<1> QED
  BY <1>1, <1>2, <1>3 DEF SaveInv, SaveTypeOK, CopyToBackup, Put, Prepared

LEMMA ReplaceBackupInv == SaveInv /\ ReplaceBackup => SaveInv'
<1> SUFFICES ASSUME SaveInv, ReplaceBackup PROVE SaveInv'
  OBVIOUS
<1> USE NamesFacts
<1>1. /\ directory' \in [Names -> File]
      /\ directory'["backup"] = [data |-> directory["graph"].data, synced |-> TRUE]
      /\ directory'["graph"] = directory["graph"]
      /\ directory'["temporary"] = directory["temporary"]
  <2>1. NoFile \in File
    BY DEF NoFile, File
  <2>2. directory' = [directory EXCEPT !["backup"] = directory["backup_temporary"],
                                       !["backup_temporary"] = NoFile]
    BY DEF ReplaceBackup, Rename
  <2> QED
    BY <2>1, <2>2 DEF SaveInv, SaveTypeOK, Prepared, ReplaceBackup, Names
<1>2. SaveTypeOK'
  BY <1>1 DEF SaveInv, SaveTypeOK, ReplaceBackup, Rename
<1>3. Sound(directory)' /\ Sound(durable)'
  BY <1>1 DEF SaveInv, SaveTypeOK, ReplaceBackup, Rename, Sound, Kept
<1> QED
  BY <1>1, <1>2, <1>3 DEF SaveInv, SaveTypeOK, ReplaceBackup, Rename, Prepared

LEMMA SyncBackupInv == SaveInv /\ SyncBackup => SaveInv'
  BY DEF SaveInv, SaveTypeOK, SyncBackup, SyncDirectory, Sound, Prepared

LEMMA ReplaceGraphInv == SaveInv /\ ReplaceGraph => SaveInv'
<1> SUFFICES ASSUME SaveInv, ReplaceGraph PROVE SaveInv'
  OBVIOUS
<1> USE NamesFacts
<1>1. /\ directory' \in [Names -> File]
      /\ directory'["graph"] = [data |-> saving, synced |-> TRUE]
      /\ directory'["backup"] = directory["backup"]
  <2>1. NoFile \in File
    BY DEF NoFile, File
  <2>2. directory' = [directory EXCEPT !["graph"] = directory["temporary"],
                                       !["temporary"] = NoFile]
    BY DEF ReplaceGraph, Rename
  <2> QED
    BY <2>1, <2>2 DEF SaveInv, SaveTypeOK, Prepared, ReplaceGraph, Names
<1>2. SaveTypeOK'
  BY <1>1 DEF SaveInv, SaveTypeOK, ReplaceGraph, Rename
<1>3. Sound(directory)' /\ Sound(durable)'
  BY <1>1 DEF SaveInv, SaveTypeOK, ReplaceGraph, Rename, Sound, Kept
<1> QED
  BY <1>1, <1>2, <1>3 DEF SaveInv, SaveTypeOK, ReplaceGraph, Rename, Prepared

LEMMA SaveDoneInv == SaveInv /\ SaveDone => SaveInv'
  BY DEF SaveInv, SaveTypeOK, SaveDone, SyncDirectory, Sound, Prepared

-----------------------------------------------------------------------------
(* What goes wrong.                                                         *)

LEMMA FailsInv == SaveInv /\ Fails => SaveInv'
<1> SUFFICES ASSUME SaveInv, Fails PROVE SaveInv'
  OBVIOUS
<1> USE NamesFacts
<1>1. /\ directory' \in [Names -> File]
      /\ \A n \in Kept : directory'[n] = directory[n]
  <2>1. CASE pc = "sync"
    BY <2>1 DEF SaveInv, SaveTypeOK, Fails, Put
  <2>2. CASE pc = "copy"
    BY <2>2 DEF SaveInv, SaveTypeOK, Fails, Put, File, Names, Kept
  <2>3. CASE pc \notin {"sync", "copy"}
    <3> DEFINE cleared == Put(directory, "temporary", 0, TRUE)
    <3>1. /\ cleared \in [Names -> File]
          /\ \A n \in Kept : cleared[n] = directory[n]
      BY DEF SaveInv, SaveTypeOK, Put, File, Names, Kept
    <3>2. directory' = Put(cleared, "backup_temporary", 0, TRUE)
      BY <2>3 DEF Fails, Put
    <3> HIDE DEF cleared
    <3> QED
      BY <3>1, <3>2 DEF Put, File, Names, Kept
  <2> QED
    BY <2>1, <2>2, <2>3
<1>2. SaveTypeOK'
  BY <1>1 DEF SaveInv, SaveTypeOK, Fails, Put
<1>3. Sound(directory)' /\ Sound(durable)'
  BY <1>1 DEF SaveInv, SaveTypeOK, Fails, Put, Sound, Kept
<1> QED
  BY <1>2, <1>3 DEF SaveInv, SaveTypeOK, Fails, Put, Prepared

LEMMA SaverDiesInv == SaveInv /\ SaverDies => SaveInv'
  BY DEF SaveInv, SaveTypeOK, SaverDies, Sound, Prepared

LEMMA WriteBackInv == SaveInv /\ WriteBack => SaveInv'
  BY DEF SaveInv, SaveTypeOK, WriteBack, Sound, Prepared

\* A file that was synced survives as it is.
LEMMA SurvivesFacts ==
  ASSUME NEW f \in File
  PROVE  /\ Survives(f) \subseteq File
         /\ f.synced => Survives(f) = {f}
<1>1. [f EXCEPT !.synced = TRUE] \in File
  BY DEF File
<1>2. /\ [data |-> f.data, synced |-> TRUE] \in File
      /\ [data |-> Torn, synced |-> TRUE] \in File
  BY DEF File, Torn
<1> QED
  BY <1>1, <1>2 DEF Survives

LEMMA PowerLossInv == SaveInv /\ PowerLoss => SaveInv'
<1> SUFFICES ASSUME SaveInv, PowerLoss PROVE SaveInv'
  OBVIOUS
<1> USE NamesFacts
<1>1. PICK dir \in {directory, durable} :
        \E left \in [Names -> UNION {Survives(dir[n]) : n \in Names}] :
          /\ \A n \in Names : left[n] \in Survives(dir[n])
          /\ directory' = left /\ durable' = left
  BY DEF PowerLoss
<1>2. PICK left \in [Names -> UNION {Survives(dir[n]) : n \in Names}] :
        /\ \A n \in Names : left[n] \in Survives(dir[n])
        /\ directory' = left /\ durable' = left
  BY <1>1
<1>3. dir \in [Names -> File] /\ Sound(dir)
  BY <1>1 DEF SaveInv, SaveTypeOK
<1>4. left \in [Names -> File]
  BY <1>2, <1>3, SurvivesFacts
<1>5. \A n \in Kept : left[n] = dir[n]
  BY <1>2, <1>3, SurvivesFacts DEF Sound
<1>6. Sound(left)
  BY <1>3, <1>5, SoundSame
<1>7. SaveTypeOK'
  BY <1>2, <1>4 DEF SaveInv, SaveTypeOK, PowerLoss
<1>8. Sound(directory)' /\ Sound(durable)'
  BY <1>2, <1>6 DEF Sound, PowerLoss
<1> QED
  BY <1>7, <1>8 DEF SaveInv, SaveTypeOK, PowerLoss, Prepared

-----------------------------------------------------------------------------

LEMMA StepInv == SaveInv /\ [SaveNext]_fileVars => SaveInv'
<1>1. SaveInv /\ UNCHANGED fileVars => SaveInv'
  BY DEF SaveInv, SaveTypeOK, Sound, Prepared, fileVars
<1> QED
  BY <1>1, BeginInv, SyncTemporaryInv, CopyToBackupInv, ReplaceBackupInv, SyncBackupInv,
     ReplaceGraphInv, SaveDoneInv, FailsInv, SaverDiesInv, WriteBackInv, PowerLossInv DEF SaveNext

\* For any number of saves, failures, crashes and losses of power: the graph
\* and its backup are whole, the backup is no newer than the graph, and on a
\* system that can sync directories no reportedSave save is reverted
\* (write_text_atomically).
THEOREM SavesAreAtomic == SaveSpec => []SaveIsAtomic
<1>1. SaveInv => SaveIsAtomic
  BY DEF SaveInv, SaveTypeOK, Sound, SaveIsAtomic, Kept, Torn
<1> QED
  BY <1>1, SaveInitInv, StepInv, PTL DEF SaveSpec

-----------------------------------------------------------------------------
(* Autosave and recovery.                                                   *)
(*                                                                          *)
(* What a run leaves behind is its own only while the controller will still *)
(* discard it: a recovery file that is there, or that a job is going to     *)
(* write, is of a tracked document or has a discard queued behind its last  *)
(* write.  close discards all that is tracked.                              *)

\* A sequence, of whatever it holds.
IsSeq(q) == q \in Seq(Range(q))

\* A DocumentSession whose undo stack has a position.
IsSession(s) ==
    /\ s = [doc |-> s.doc, object |-> s.object, path |-> s.path, history |-> s.history,
            index |-> s.index, clean |-> s.clean]
    /\ s.doc \in Docs /\ s.object \in Nat \ {0} /\ IsSeq(s.history)
    /\ s.index \in 1..Len(s.history) /\ s.clean \in Nat

\* A job of the worker, for some document.
IsJob(j) == j = [kind |-> j.kind, request |-> j.request] /\ j.request.doc \in Docs

\* An AutosaveController: what it tracks, puts off and queues are documents.
IsController(a) ==
    /\ a = [timer |-> a.timer, current |-> a.current, pending |-> a.pending,
            tracked |-> a.tracked, deferred |-> a.deferred, jobs |-> a.jobs]
    /\ a.tracked \in [Docs -> Nat] /\ a.deferred \subseteq Docs
    /\ IsSeq(a.jobs) /\ \A i \in DOMAIN a.jobs : IsJob(a.jobs[i])
    /\ a.pending # Nil => a.pending.doc \in Docs

\* Where the UI thread is.
IsUi == ui = [phase |-> ui.phase, purpose |-> ui.purpose, path |-> ui.path, offers |-> ui.offers]
        /\ ui.offers \subseteq Docs

\* The files hold documents.
KnownFiles(f) == \A p \in Paths : f[p] # Nil => f[p].doc \in Docs

\* The types that the proof needs; the bounds of the model are none of them.
Types ==
    /\ IsSession(session) /\ IsController(auto) /\ IsUi
    /\ file = [p \in Paths |-> file[p]] /\ KnownFiles(file)
    /\ backup = [p \in Paths |-> backup[p]] /\ reported = [p \in Paths |-> reported[p]]
    /\ record = [d \in Docs |-> record[d]]
    /\ touched \subseteq Docs /\ loads \in Nat

\* Job i writes the recovery file of d; after the last one that does, a job discards it.
Writes(a, d, i) == a.jobs[i].kind = "graph" /\ a.jobs[i].request.doc = d
Rewritten(a, d) == \E i \in DOMAIN a.jobs : Writes(a, d, i)
Cleared(a, d) ==
    \E i \in DOMAIN a.jobs :
        /\ a.jobs[i].kind = "discard" /\ a.jobs[i].request.doc = d
        /\ \A j \in DOMAIN a.jobs : j > i => ~Writes(a, d, j)
\* The controller will discard the record of d, or has queued that it is.
Held(a, d) == a.tracked[d] # 0 \/ Cleared(a, d)

\* The recovery file of d is there of this run, or is going to be.
Left(d) == Rewritten(auto, d) \/ (d \in touched /\ record[d] # Nil)
\* The open document was never clean: as recovered or generated.
Unsaved(d) == session.doc = d /\ session.clean = 0

\* The process runs, or has ended with an exit.
Running == ui.phase # "down" \/ ui = At("down")
\* The window is closed.
Ended == ui.phase = "closed" \/ ui = At("down")

\* What is left is held, unless an undo reached the saved state behind a queued autosave.
Attended == Running => \A d \in Docs \ stale : Left(d) => Held(auto, d) \/ Unsaved(d)

\* A queued autosave is of the dirty document that is open.
Queued(a, s, excused) ==
    a.pending # Nil =>
        \/ a.pending.doc \in excused
        \/ a.pending.doc = s.doc /\ Dirty(s) /\ a.tracked[s.doc] # 0

\* A closed window tracks nothing of a clean document; a process that ended has no jobs.
Settling ==
    /\ Ended => Dirty(session) \/ \A d \in Docs : auto.tracked[d] = 0
    /\ ui.phase = "offering" => ~Dirty(session)
    /\ ui.phase = "down" => auto.jobs = <<>> /\ (ui # At("down") => auto.pending = Nil)

\* The file at a path is what was last reported saved to it.
OnDisk == \A p \in Paths : reported[p] # Nil => reported[p] = file[p]

\* The inductive invariant.
RecoveryInv == Types /\ Attended /\ Queued(auto, session, stale) /\ Settling /\ OnDisk
-----------------------------------------------------------------------------
(* Sequences, and a set put in an order.                                    *)

\* A sequence over any set is one.
LEMMA SeqIsSeq ==
    ASSUME NEW S, NEW q \in Seq(S)
    PROVE  IsSeq(q) /\ DOMAIN q = 1..Len(q) /\ Len(q) \in Nat
  <1>1. DOMAIN q = 1..Len(q) /\ Len(q) \in Nat
    OBVIOUS
  <1>2. q \in [1..Len(q) -> Range(q)]
    BY <1>1 DEF Range
  <1> QED
    BY <1>1, <1>2 DEF IsSeq

\* Its domain.
LEMMA SeqFacts ==
    ASSUME NEW q, IsSeq(q)
    PROVE  DOMAIN q = 1..Len(q) /\ Len(q) \in Nat
  BY DEF IsSeq

\* A sequence with one more at its end.
LEMMA AppendFacts ==
    ASSUME NEW q, IsSeq(q), NEW x
    PROVE  /\ IsSeq(Append(q, x)) /\ Len(Append(q, x)) = Len(q) + 1
           /\ DOMAIN Append(q, x) = 1..(Len(q) + 1) /\ DOMAIN q = 1..Len(q) /\ Len(q) \in Nat
           /\ \A i \in 1..Len(q) : Append(q, x)[i] = q[i]
           /\ Append(q, x)[Len(q) + 1] = x
  <1> DEFINE S == Range(q) \cup {x}
  <1>1. q \in Seq(S) /\ x \in S
    BY DEF IsSeq
  <1> HIDE DEF S
  <1>2. IsSeq(Append(q, x))
    BY <1>1, SeqIsSeq, Append(q, x) \in Seq(S)
  <1> QED
    BY <1>1, <1>2

\* A sequence behind another.
LEMMA ConcatFacts ==
    ASSUME NEW q, IsSeq(q), NEW r, IsSeq(r)
    PROVE  /\ IsSeq(q \o r) /\ Len(q \o r) = Len(q) + Len(r)
           /\ DOMAIN (q \o r) = 1..(Len(q) + Len(r)) /\ DOMAIN q = 1..Len(q) /\ DOMAIN r = 1..Len(r)
           /\ Len(q) \in Nat /\ Len(r) \in Nat
           /\ \A i \in 1..Len(q) : (q \o r)[i] = q[i]
           /\ \A i \in 1..Len(r) : (q \o r)[Len(q) + i] = r[i]
  <1> DEFINE S == Range(q) \cup Range(r)
  <1>1. q \in Seq(S) /\ r \in Seq(S)
    BY DEF IsSeq
  <1> HIDE DEF S
  <1>2. IsSeq(q \o r)
    BY <1>1, SeqIsSeq, q \o r \in Seq(S)
  <1> QED
    BY <1>1, <1>2

\* A sequence without its first.
LEMMA TailFacts ==
    ASSUME NEW q, IsSeq(q), q # <<>>
    PROVE  /\ IsSeq(Tail(q)) /\ Len(Tail(q)) = Len(q) - 1 /\ Len(q) \in Nat \ {0}
           /\ DOMAIN Tail(q) = 1..(Len(q) - 1) /\ DOMAIN q = 1..Len(q)
           /\ \A i \in DOMAIN Tail(q) : Tail(q)[i] = q[i + 1]
           /\ Head(q) = q[1] /\ 1 \in DOMAIN q
  <1>1. q \in Seq(Range(q))
    BY DEF IsSeq
  <1>2. IsSeq(Tail(q))
    BY <1>1, SeqIsSeq, Tail(q) \in Seq(Range(q))
  <1> QED
    BY <1>1, <1>2

\* A sequence whose first has changed.
LEMMA ChangedHead ==
    ASSUME NEW q, IsSeq(q), q # <<>>, NEW x
    PROVE  LET r == [q EXCEPT ![1] = x] IN
           /\ IsSeq(r) /\ DOMAIN r = DOMAIN q /\ 1 \in DOMAIN q /\ r[1] = x
           /\ \A i \in DOMAIN q : i # 1 => r[i] = q[i]
  <1> DEFINE S == Range(q) \cup {x}
             r == [q EXCEPT ![1] = x]
  <1>1. q \in [1..Len(q) -> Range(q)] /\ Len(q) \in Nat /\ 1 \in DOMAIN q
    BY TailFacts DEF IsSeq
  <1>2. r \in [1..Len(q) -> S]
    BY <1>1
  <1>3. r \in Seq(S)
    BY <1>1, <1>2
  <1> QED
    BY <1>1, <1>3, SeqIsSeq

\* A finite set in some order: every member is somewhere in it.
LEMMA SetInOrder ==
    ASSUME NEW S, IsFiniteSet(S)
    PROVE  LET q == SetToSeq(S) IN
           q \in Seq(S) /\ \A x \in S : \E i \in DOMAIN q : q[i] = x
  <1> DEFINE n == Cardinality(S)
             q == SetToSeq(S)
  <1>1. n \in Nat /\ Bijection(1..n, S) # {}
    BY FS_CardinalityType DEF ExistsBijection
  <1>2. PICK f : f \in [1..n -> S] /\ IsInjective(f)
    BY <1>1 DEF Bijection, Injection
  <1>3. q \in [1..n -> S] /\ IsInjective(q)
    BY <1>2 DEF SetToSeq
  <1>4. q \in Injection(1..n, S)
    BY <1>3 DEF Injection
  <1>5. IsFiniteSet(1..n) /\ Cardinality(1..n) = n
    BY <1>1, FS_Interval
  <1>6. q \in Surjection(1..n, S)
    BY <1>4, <1>5, FS_Injection
  <1> QED
    BY <1>1, <1>3, <1>6 DEF Surjection

-----------------------------------------------------------------------------
(* What the operations of the controller keep: a document that is, or is    *)
(* about to be, written is one that will be discarded.                      *)

\* b follows a: nothing is queued to be written that is not held, and what was held still is.
Keeps(a, b, excused) ==
    /\ IsController(b)
    /\ \A d \in Docs \ excused :
           /\ Rewritten(b, d) => Rewritten(a, d) \/ Held(b, d)
           /\ Held(a, d) => Held(b, d)

\* Two operations after each other keep what each keeps.
LEMMA KeepsTwice ==
    ASSUME NEW a, NEW b, NEW c, NEW excused, Keeps(a, b, excused), Keeps(b, c, excused)
    PROVE  Keeps(a, c, excused)
  BY DEF Keeps

\* The jobs stay, and no document ceases to be tracked.
LEMMA KeepsJobs ==
    ASSUME NEW a, NEW b, NEW excused, IsController(b), b.jobs = a.jobs,
           \A d \in Docs : a.tracked[d] # 0 => b.tracked[d] # 0
    PROVE  Keeps(a, b, excused)
  BY DEF Keeps, Rewritten, Held, Cleared, Writes

\* The fields of the controller are set one at a time.
LEMMA Setting ==
    ASSUME NEW a, IsController(a), NEW timer, NEW pending,
           pending # Nil => pending.doc \in Docs, NEW current, NEW D \in SUBSET Docs
    PROVE  /\ IsController([a EXCEPT !.timer = timer])
           /\ IsController([a EXCEPT !.pending = pending])
           /\ IsController([a EXCEPT !.current = current])
           /\ IsController([a EXCEPT !.deferred = D])
  BY DEF IsController

\* A document is tracked, or no longer.
LEMMA Tracking ==
    ASSUME NEW a, IsController(a), NEW d \in Docs, NEW n \in Nat
    PROVE  LET b == [a EXCEPT !.tracked[d] = n] IN
           /\ IsController(b) /\ b.jobs = a.jobs /\ b.tracked[d] = n
           /\ \A e \in Docs : e # d => b.tracked[e] = a.tracked[e]
           /\ b.pending = a.pending /\ b.current = a.current /\ b.deferred = a.deferred
  BY DEF IsController

\* _discard_record: a document that is no longer tracked has its discard behind every write of it.
LEMMA DiscardRecordsKeeps ==
    ASSUME NEW a, IsController(a), NEW ds \in SUBSET Docs, Bounded
    PROVE  LET b == DiscardRecords(a, ds) IN
           /\ Keeps(a, b, {}) /\ b.pending = a.pending /\ b.current = a.current
           /\ \A d \in ds : b.tracked[d] = 0 /\ Cleared(b, d)
           /\ \A d \in Docs \ ds : b.tracked[d] = a.tracked[d]
  <1> DEFINE order == SetToSeq(ds)
             discards == [i \in DOMAIN order |-> Discard(order[i])]
             jobs == a.jobs \o discards
             n == Len(a.jobs)
             b == DiscardRecords(a, ds)
  <1>1. order \in Seq(ds) /\ \A d \in ds : \E i \in DOMAIN order : order[i] = d
    BY SetInOrder, FS_Subset DEF Bounded
  <1>2. \A d : /\ Discard(d) = [kind |-> Discard(d).kind, request |-> Discard(d).request]
               /\ Discard(d).kind = "discard" /\ Discard(d).request.doc = d
    BY DEF Discard
  <1> HIDE DEF order
  <1>3. /\ IsSeq(discards) /\ DOMAIN discards = DOMAIN order
        /\ \A i \in DOMAIN discards : discards[i] = Discard(order[i]) /\ order[i] \in ds
    <2>1. discards \in Seq({Discard(d) : d \in ds})
      BY <1>1
    <2> QED
      BY <1>1, <2>1, SeqIsSeq
  <1> HIDE DEF discards
  <1>a. /\ IsSeq(a.jobs) /\ a.tracked \in [Docs -> Nat] /\ a.deferred \subseteq Docs
        /\ \A i \in DOMAIN a.jobs : IsJob(a.jobs[i])
        /\ a.pending # Nil => a.pending.doc \in Docs
    BY DEF IsController
  <1>4. /\ IsSeq(jobs) /\ DOMAIN jobs = 1..(n + Len(discards)) /\ n \in Nat /\ Len(discards) \in Nat
        /\ DOMAIN a.jobs = 1..n /\ DOMAIN discards = 1..Len(discards)
        /\ \A i \in 1..n : jobs[i] = a.jobs[i]
        /\ \A i \in 1..Len(discards) : jobs[n + i] = discards[i]
    <2> DEFINE q == a.jobs
    <2>1. IsSeq(q) /\ IsSeq(discards) /\ jobs = q \o discards /\ n = Len(q)
      BY <1>3, <1>a
    <2> HIDE DEF q, jobs, n, b
    <2>2. /\ IsSeq(jobs) /\ DOMAIN jobs = 1..(n + Len(discards)) /\ n \in Nat /\ Len(discards) \in Nat
          /\ DOMAIN q = 1..n /\ DOMAIN discards = 1..Len(discards)
          /\ \A i \in 1..n : jobs[i] = q[i]
          /\ \A i \in 1..Len(discards) : jobs[n + i] = discards[i]
      BY <2>1, ConcatFacts
    <2> QED
      BY <2>2 DEF q
  <1>5. /\ b = [timer |-> a.timer, current |-> a.current, pending |-> a.pending,
                tracked |-> [d \in Docs |-> IF d \in ds THEN 0 ELSE a.tracked[d]],
                deferred |-> a.deferred \ ds, jobs |-> jobs]
    <2>1. PICK t, c, p, k, f, q : a = [timer |-> t, current |-> c, pending |-> p,
                                       tracked |-> k, deferred |-> f, jobs |-> q]
      BY DEF IsController
    <2>2. b = [a EXCEPT !.tracked = [d \in Docs |-> IF d \in ds THEN 0 ELSE @[d]],
                        !.deferred = @ \ ds, !.jobs = @ \o discards]
      BY DEF DiscardRecords, order, discards
    <2> HIDE DEF b, jobs
    <2> QED
      BY <2>1, <2>2 DEF jobs
  <1> HIDE DEF jobs, n, b
  <1>6. \A i \in DOMAIN jobs : i \notin DOMAIN a.jobs =>
            \E k \in DOMAIN discards : i = n + k /\ jobs[i] = discards[k]
    <2> SUFFICES ASSUME NEW i \in DOMAIN jobs, i \notin DOMAIN a.jobs
                 PROVE  \E k \in DOMAIN discards : i = n + k /\ jobs[i] = discards[k]
      OBVIOUS
    <2>1. i - n \in DOMAIN discards /\ i = n + (i - n)
      BY <1>4
    <2> QED
      BY <1>4, <2>1
  <1>7. IsController(b)
    <2>1. \A i \in DOMAIN jobs : IsJob(jobs[i])
      <3> SUFFICES ASSUME NEW i \in DOMAIN jobs
                   PROVE  IsJob(jobs[i])
        OBVIOUS
      <3>1. CASE i \in DOMAIN a.jobs
        BY <1>a, <1>4, <3>1
      <3>2. CASE i \notin DOMAIN a.jobs
        <4>1. PICK k \in DOMAIN discards : jobs[i] = discards[k]
          BY <1>6, <3>2
        <4> QED
          BY <1>2, <1>3, <4>1 DEF IsJob
      <3> QED
        BY <3>1, <3>2
    <2> QED
      BY <1>a, <1>4, <1>5, <2>1 DEF IsController
  <1>8. \A i \in DOMAIN jobs : \A d : jobs[i].kind = "graph" =>
            i \in DOMAIN a.jobs /\ jobs[i] = a.jobs[i]
    BY <1>2, <1>3, <1>4, <1>6
  <1>9. \A d : Rewritten(b, d) => Rewritten(a, d)
    BY <1>5, <1>8 DEF Rewritten, Writes
  <1>10. ASSUME NEW d \in ds
         PROVE  Cleared(b, d)
    <2>1. PICK k \in DOMAIN discards : discards[k] = Discard(d)
      BY <1>1, <1>3
    <2>2. n + k \in DOMAIN jobs /\ jobs[n + k].kind = "discard" /\ jobs[n + k].request.doc = d
      BY <1>2, <1>4, <2>1
    <2>3. \A j \in DOMAIN jobs : j > n + k => jobs[j].kind # "graph"
      BY <1>4, <1>8
    <2> QED
      BY <1>5, <2>2, <2>3 DEF Cleared, Writes
  <1>11. \A d : Cleared(a, d) => Cleared(b, d)
    <2> SUFFICES ASSUME NEW d, Cleared(a, d)
                 PROVE  Cleared(b, d)
      OBVIOUS
    <2>1. PICK i \in DOMAIN a.jobs :
              /\ a.jobs[i].kind = "discard" /\ a.jobs[i].request.doc = d
              /\ \A j \in DOMAIN a.jobs : j > i => ~Writes(a, d, j)
      BY DEF Cleared
    <2>2. i \in DOMAIN jobs /\ jobs[i] = a.jobs[i]
      BY <1>4
    <2>3. \A j \in DOMAIN jobs : j > i => ~Writes(b, d, j)
      BY <1>5, <1>8, <2>1 DEF Writes
    <2> QED
      BY <1>5, <2>1, <2>2, <2>3 DEF Cleared
  <1>12. /\ \A d \in ds : b.tracked[d] = 0
         /\ \A d \in Docs \ ds : b.tracked[d] = a.tracked[d]
    BY <1>5
  <1> QED
    BY <1>5, <1>7, <1>9, <1>10, <1>11, <1>12 DEF Keeps, Held, b
\* A controller that stays keeps everything.
LEMMA KeepsSelf ==
    ASSUME NEW a, IsController(a), NEW excused
    PROVE  Keeps(a, a, excused)
  BY DEF Keeps

\* Where nothing is excused, more may be.
LEMMA KeepsMore ==
    ASSUME NEW a, NEW b, NEW excused, Keeps(a, b, {})
    PROVE  Keeps(a, b, excused)
  BY DEF Keeps

\* The debounce timer is nothing of what is written.
LEMMA TimerKeeps ==
    ASSUME NEW a, IsController(a), NEW timer
    PROVE  LET b == [a EXCEPT !.timer = timer] IN
           /\ Keeps(a, b, {}) /\ b.pending = a.pending /\ b.tracked = a.tracked
           /\ b.current = a.current
  <1> DEFINE b == [a EXCEPT !.timer = timer]
  <1>1. /\ IsController(b) /\ b.jobs = a.jobs /\ b.pending = a.pending /\ b.tracked = a.tracked
        /\ b.current = a.current
    BY DEF IsController
  <1> HIDE DEF b
  <1>2. Keeps(a, b, {})
    BY <1>1, KeepsJobs
  <1> QED
    BY <1>1, <1>2 DEF b

\* The queued request is dropped.
LEMMA NoPendingKeeps ==
    ASSUME NEW a, IsController(a)
    PROVE  LET b == [a EXCEPT !.pending = Nil] IN
           /\ Keeps(a, b, {}) /\ b.pending = Nil /\ b.tracked = a.tracked /\ b.current = a.current
  <1> DEFINE b == [a EXCEPT !.pending = Nil]
  <1>1. /\ IsController(b) /\ b.jobs = a.jobs /\ b.pending = Nil /\ b.tracked = a.tracked
        /\ b.current = a.current
    BY DEF IsController
  <1> HIDE DEF b
  <1>2. Keeps(a, b, {})
    BY <1>1, KeepsJobs
  <1> QED
    BY <1>1, <1>2 DEF b

\* A flush spares the document of a queued request, unless it is the clean one of the session.
Spares(a, b, s) ==
    a.pending # Nil /\ (Dirty(s) \/ a.pending.doc # s.doc) =>
        b.tracked[a.pending.doc] = a.tracked[a.pending.doc]

\* _flush_settled_discards keeps what is to be discarded, and leaves the queued request tracked.
LEMMA FlushKeeps ==
    ASSUME NEW a, IsController(a), NEW s, s.doc \in Docs, Bounded
    PROVE  LET b == FlushSettledDiscards(a, s) IN
           Keeps(a, b, {}) /\ b.pending = a.pending /\ Spares(a, b, s)
  <1> DEFINE own == IF ~Dirty(s) /\ a.tracked[s.doc] # 0 THEN DiscardRecord(a, s.doc) ELSE a
             settled == {d \in own.deferred : ~AutosaveActiveFor(own, d)}
             b == DiscardRecords(own, settled)
  <1>1. /\ Keeps(a, own, {}) /\ own.pending = a.pending
        /\ \A d \in Docs : Dirty(s) \/ d # s.doc => own.tracked[d] = a.tracked[d]
    <2>1. CASE ~Dirty(s) /\ a.tracked[s.doc] # 0
      <3>1. {s.doc} \in SUBSET Docs
        OBVIOUS
      <3> QED
        BY <2>1, <3>1, DiscardRecordsKeeps DEF DiscardRecord
    <2>2. CASE ~(~Dirty(s) /\ a.tracked[s.doc] # 0)
      BY <2>2, KeepsSelf
    <2> QED
      BY <2>1, <2>2
  <1> HIDE DEF own
  <1>2. IsController(own) /\ settled \in SUBSET Docs
    BY <1>1 DEF Keeps, IsController
  <1>3. own.pending # Nil => own.pending.doc \notin settled /\ own.pending.doc \in Docs
    BY <1>2 DEF AutosaveActiveFor, IsController
  <1> HIDE DEF settled
  <1>4. /\ Keeps(own, b, {}) /\ b.pending = own.pending
        /\ \A d \in Docs \ settled : b.tracked[d] = own.tracked[d]
    BY <1>2, DiscardRecordsKeeps
  <1>5. FlushSettledDiscards(a, s) = b
    BY DEF FlushSettledDiscards, own, settled
  <1> HIDE DEF b
  <1>6. Keeps(a, b, {})
    BY <1>1, <1>4, KeepsTwice
  <1> QED
    BY <1>1, <1>3, <1>4, <1>5, <1>6 DEF Spares

\* _on_document_dirty_changed.
LEMMA DirtyChangedKeeps ==
    ASSUME NEW a, IsController(a), NEW s, s.doc \in Docs, Bounded
    PROVE  LET b == DirtyChanged(a, s) IN
           Keeps(a, b, {}) /\ b.pending = a.pending /\ Spares(a, b, s)
  <1> DEFINE unarmed == [a EXCEPT !.timer = FALSE]
  <1>1. CASE Dirty(s)
    BY <1>1, TimerKeeps DEF DirtyChanged, Schedule, Spares
  <1>2. CASE ~Dirty(s)
    <2> DEFINE b == FlushSettledDiscards(unarmed, s)
    <2>1. DirtyChanged(a, s) = b
      BY <1>2 DEF DirtyChanged
    <2>2. Keeps(a, unarmed, {}) /\ unarmed.pending = a.pending /\ unarmed.tracked = a.tracked
      BY TimerKeeps
    <2> HIDE DEF unarmed
    <2>3. Keeps(unarmed, b, {}) /\ b.pending = unarmed.pending /\ Spares(unarmed, b, s)
      BY <2>2, FlushKeeps DEF Keeps
    <2> HIDE DEF b
    <2>4. Keeps(a, b, {})
      BY <2>2, <2>3, KeepsTwice
    <2> QED
      BY <2>1, <2>2, <2>3, <2>4 DEF Spares
  <1> QED
    BY <1>1, <1>2

\* schedule.
LEMMA ScheduleKeeps ==
    ASSUME NEW a, IsController(a), NEW s
    PROVE  LET b == Schedule(a, s) IN
           /\ Keeps(a, b, {}) /\ b.pending = a.pending /\ b.tracked = a.tracked
  BY TimerKeeps, KeepsSelf DEF Schedule

\* What a command, an undo or a redo tells the controller.
LEMMA NotifyKeeps ==
    ASSUME NEW a, IsController(a), NEW s, NEW t, t.doc \in Docs, Bounded
    PROVE  LET b == Notify(a, s, t) IN
           Keeps(a, b, {}) /\ b.pending = a.pending /\ Spares(a, b, t)
  <1> DEFINE c == IF Dirty(s) # Dirty(t) THEN DirtyChanged(a, t) ELSE a
             b == Schedule(c, t)
  <1>1. Keeps(a, c, {}) /\ c.pending = a.pending /\ Spares(a, c, t)
    BY DirtyChangedKeeps, KeepsSelf DEF Spares
  <1>2. Notify(a, s, t) = b
    BY DEF Notify
  <1> HIDE DEF c
  <1>3. Keeps(c, b, {}) /\ b.pending = c.pending /\ b.tracked = c.tracked
    BY <1>1, ScheduleKeeps DEF Keeps
  <1> HIDE DEF b
  <1>4. Keeps(a, b, {})
    BY <1>1, <1>3, KeepsTwice
  <1> QED
    BY <1>1, <1>2, <1>3, <1>4 DEF Spares

\* What a replaced document tells the controller.
LEMMA ReplaceKeeps ==
    ASSUME NEW a, IsController(a), NEW s, NEW t, IsSession(t), Bounded
    PROVE  LET b == Replace(a, s, t) IN Keeps(a, b, {}) /\ b.pending = a.pending
  <1> DEFINE c == IF Dirty(s) /\ (Commands(s) > 0 \/ ~Dirty(t))
                  THEN DirtyChanged(a, SetClean(t)) ELSE a
             e == IF Dirty(t) THEN Schedule(c, t) ELSE c
             b == Schedule(e, t)
  <1>1. SetClean(t).doc \in Docs
    BY DEF SetClean, IsSession
  <1>2. Keeps(a, c, {}) /\ c.pending = a.pending
    BY <1>1, DirtyChangedKeeps, KeepsSelf
  <1>3. Replace(a, s, t) = b
    BY DEF Replace
  <1> HIDE DEF c
  <1>4. Keeps(c, e, {}) /\ e.pending = c.pending
    BY <1>2, ScheduleKeeps, KeepsSelf DEF Keeps
  <1> HIDE DEF e
  <1>5. Keeps(e, b, {}) /\ b.pending = e.pending
    BY <1>4, ScheduleKeeps DEF Keeps
  <1> HIDE DEF b
  <1>6. Keeps(a, e, {})
    BY <1>2, <1>4, KeepsTwice
  <1>7. Keeps(a, b, {})
    BY <1>6, <1>5, KeepsTwice
  <1> QED
    BY <1>2, <1>3, <1>4, <1>5, <1>7

\* discard() withdraws what is queued of the document, and discards it now or later.
LEMMA DiscardOfKeeps ==
    ASSUME NEW a, IsController(a), NEW d \in Docs, NEW object \in Nat, Bounded
    PROVE  LET b == DiscardOf(a, d, object) IN
           /\ Keeps(a, b, {}) /\ b.pending \in {a.pending, Nil}
           /\ a.pending # Nil /\ a.pending.doc = d => b.pending = Nil
           /\ object # 0 => Held(b, d)
           /\ \A e \in Docs \ {d} : b.tracked[e] = a.tracked[e]
  <1> DEFINE dropped == IF a.pending # Nil /\ a.pending.doc = d THEN [a EXCEPT !.pending = Nil] ELSE a
             later == [dropped EXCEPT !.tracked[d] = IF @ = 0 THEN object ELSE @,
                                      !.deferred = @ \cup {d}]
             now == DiscardRecord(dropped, d)
             b == DiscardOf(a, d, object)
  <1>1. /\ Keeps(a, dropped, {}) /\ dropped.tracked = a.tracked
        /\ dropped.pending \in {a.pending, Nil}
        /\ a.pending # Nil /\ a.pending.doc = d => dropped.pending = Nil
    BY NoPendingKeeps, KeepsSelf
  <1>2. b = IF AutosaveActiveFor(dropped, d) THEN later ELSE now
    BY DEF DiscardOf
  <1> HIDE DEF dropped
  <1>3. IsController(dropped) /\ dropped.tracked \in [Docs -> Nat] /\ dropped.deferred \subseteq Docs
    BY <1>1 DEF Keeps, IsController
  <1>4. /\ Keeps(dropped, later, {}) /\ later.pending = dropped.pending
        /\ object # 0 => Held(later, d)
        /\ \A e \in Docs \ {d} : later.tracked[e] = dropped.tracked[e]
    <2> DEFINE n == IF dropped.tracked[d] = 0 THEN object ELSE dropped.tracked[d]
    <2>1. n \in Nat /\ (dropped.tracked[d] # 0 => n # 0) /\ (object # 0 => n # 0)
      BY <1>3
    <2>2. later = [timer |-> dropped.timer, current |-> dropped.current,
                   pending |-> dropped.pending, tracked |-> [dropped.tracked EXCEPT ![d] = n],
                   deferred |-> dropped.deferred \cup {d}, jobs |-> dropped.jobs]
      <3>1. PICK t, c, p, k, f, r : dropped = [timer |-> t, current |-> c, pending |-> p,
                                               tracked |-> k, deferred |-> f, jobs |-> r]
        BY <1>3 DEF IsController
      <3>2. later = [dropped EXCEPT !.tracked = [@ EXCEPT ![d] = n], !.deferred = @ \cup {d}]
        BY <3>1
      <3> HIDE DEF later, n
      <3> QED
        BY <3>1, <3>2
    <2> HIDE DEF later, n
    <2>3. IsController(later)
      BY <1>3, <2>1, <2>2 DEF IsController
    <2>4. /\ later.tracked[d] = n
          /\ \A e \in Docs \ {d} : later.tracked[e] = dropped.tracked[e]
      BY <1>3, <2>2
    <2>5. Keeps(dropped, later, {})
      BY <2>1, <2>2, <2>3, <2>4, KeepsJobs
    <2> QED
      BY <2>1, <2>2, <2>4, <2>5 DEF Held
  <1>5. /\ Keeps(dropped, now, {}) /\ now.pending = dropped.pending /\ Held(now, d)
        /\ \A e \in Docs \ {d} : now.tracked[e] = dropped.tracked[e]
    <2>1. {d} \in SUBSET Docs
      OBVIOUS
    <2> QED
      BY <1>3, <2>1, DiscardRecordsKeeps DEF DiscardRecord, Held
  <1> HIDE DEF later, now, b
  <1>6. /\ Keeps(dropped, b, {}) /\ b.pending = dropped.pending
        /\ object # 0 => Held(b, d)
        /\ \A e \in Docs \ {d} : b.tracked[e] = dropped.tracked[e]
    BY <1>2, <1>4, <1>5
  <1>7. Keeps(a, b, {})
    BY <1>1, <1>6, KeepsTwice
  <1> QED
    BY <1>1, <1>6, <1>7 DEF b

\* A save that starts is of a tracked document, or of one that is excused.
LEMMA StartKeeps ==
    ASSUME NEW a, IsController(a), NEW q, q.doc \in Docs, NEW excused,
           q.doc \in excused \/ a.tracked[q.doc] # 0
    PROVE  LET b == Start(a, q) IN
           Keeps(a, b, excused) /\ b.pending = a.pending /\ b.tracked = a.tracked
  <1> DEFINE job == [kind |-> "graph", request |-> q]
             jobs == Append(a.jobs, job)
             n == Len(a.jobs)
             b == Start(a, q)
  <1>1. IsSeq(a.jobs) /\ \A i \in DOMAIN a.jobs : IsJob(a.jobs[i])
    BY DEF IsController
  <1>2. IsJob(job) /\ job.kind = "graph" /\ job.request = q
    BY DEF IsJob
  <1>3. b = [timer |-> a.timer, current |-> q, pending |-> a.pending, tracked |-> a.tracked,
             deferred |-> a.deferred, jobs |-> jobs]
    <2>1. PICK t, c, p, k, f, r : a = [timer |-> t, current |-> c, pending |-> p,
                                       tracked |-> k, deferred |-> f, jobs |-> r]
      BY DEF IsController
    <2>2. b = [[a EXCEPT !.jobs = jobs] EXCEPT !.current = q]
      BY DEF Start, Submit
    <2> HIDE DEF b, jobs
    <2> QED
      BY <2>1, <2>2
  <1> HIDE DEF job, b
  <1>4. /\ IsSeq(jobs) /\ DOMAIN jobs = 1..(n + 1) /\ n \in Nat /\ DOMAIN a.jobs = 1..n
        /\ \A i \in 1..n : jobs[i] = a.jobs[i]
        /\ jobs[n + 1] = job
    <2> DEFINE r == a.jobs
    <2>1. IsSeq(r) /\ jobs = Append(r, job) /\ n = Len(r)
      BY <1>1
    <2> HIDE DEF r, jobs, n
    <2>2. /\ IsSeq(jobs) /\ DOMAIN jobs = 1..(n + 1) /\ n \in Nat /\ DOMAIN r = 1..n
          /\ \A i \in 1..n : jobs[i] = r[i]
          /\ jobs[n + 1] = job
      BY <2>1, AppendFacts
    <2> QED
      BY <2>2 DEF r
  <1> HIDE DEF jobs, n
  <1>5. \A i \in DOMAIN jobs : IsJob(jobs[i])
    BY <1>1, <1>2, <1>4
  <1>6. IsController(b)
    BY <1>3, <1>4, <1>5 DEF IsController
  <1>7. ASSUME NEW d \in Docs \ excused
        PROVE  (Rewritten(b, d) => Rewritten(a, d) \/ Held(b, d)) /\ (Held(a, d) => Held(b, d))
    <2>1. CASE q.doc = d
      BY <1>3, <2>1 DEF Held
    <2>2. CASE q.doc # d
      <3>1. \A i \in DOMAIN jobs : Writes(b, d, i) => i \in DOMAIN a.jobs /\ Writes(a, d, i)
        BY <1>2, <1>3, <1>4, <2>2 DEF Writes
      <3>2. Rewritten(b, d) => Rewritten(a, d)
        BY <1>3, <3>1 DEF Rewritten
      <3>3. ASSUME Cleared(a, d) PROVE Cleared(b, d)
        <4>1. PICK i \in DOMAIN a.jobs :
                  /\ a.jobs[i].kind = "discard" /\ a.jobs[i].request.doc = d
                  /\ \A j \in DOMAIN a.jobs : j > i => ~Writes(a, d, j)
          BY <3>3 DEF Cleared
        <4>2. i \in DOMAIN jobs /\ jobs[i] = a.jobs[i]
          BY <1>4
        <4> QED
          BY <1>3, <3>1, <4>1, <4>2 DEF Cleared
      <3> QED
        BY <1>3, <3>2, <3>3 DEF Held
    <2> QED
      BY <2>1, <2>2
  <1> QED
    BY <1>3, <1>6, <1>7 DEF Keeps, b

\* autosave_now and request.
LEMMA AutosaveNowKeeps ==
    ASSUME NEW a, IsController(a), NEW s, IsSession(s), Bounded, NEW excused, Queued(a, s, excused)
    PROVE  LET b == AutosaveNow(a, s) IN
           /\ Keeps(a, b, {}) /\ Queued(b, s, excused)
           /\ b.pending = a.pending \/ Dirty(s)
  <1>1. CASE ~Dirty(s)
    BY <1>1, KeepsSelf DEF AutosaveNow
  <1>2. CASE Dirty(s)
    <2> DEFINE q == RequestOf(s)
               n == IF a.tracked[q.doc] = 0 THEN q.object ELSE a.tracked[q.doc]
               tracking == [a EXCEPT !.tracked[q.doc] = n]
               waiting == [tracking EXCEPT !.pending = q]
               b == IF a.current # Nil THEN waiting ELSE Start(tracking, q)
    <2>1. q.doc = s.doc /\ q.doc \in Docs /\ q.object \in Nat \ {0}
      BY DEF RequestOf, IsSession
    <2>2. AutosaveNow(a, s) = b
      <3>1. PICK t, c, p, k, f, r : a = [timer |-> t, current |-> c, pending |-> p,
                                         tracked |-> k, deferred |-> f, jobs |-> r]
        BY DEF IsController
      <3>2. tracking = [a EXCEPT !.tracked[q.doc] = IF @ = 0 THEN q.object ELSE @]
        BY <3>1
      <3> HIDE DEF n, tracking, q
      <3> QED
        BY <1>2, <3>2 DEF AutosaveNow, RequestAutosave, q
    <2> HIDE DEF q
    <2>3. n \in Nat \ {0}
      BY <2>1 DEF IsController
    <2> HIDE DEF n
    <2>4. /\ IsController(tracking) /\ tracking.jobs = a.jobs /\ tracking.tracked[q.doc] = n
          /\ \A e \in Docs : e # q.doc => tracking.tracked[e] = a.tracked[e]
          /\ tracking.pending = a.pending
      BY <2>1, <2>3, Tracking
    <2> HIDE DEF tracking
    <2>5. Keeps(a, tracking, {})
      BY <2>3, <2>4, KeepsJobs
    <2>6. Keeps(tracking, waiting, {}) /\ waiting.pending = q /\ waiting.tracked = tracking.tracked
      <3>1. /\ IsController(waiting) /\ waiting.jobs = tracking.jobs /\ waiting.pending = q
            /\ waiting.tracked = tracking.tracked
        BY <2>1, <2>4 DEF IsController
      <3> HIDE DEF waiting
      <3> QED
        BY <3>1, KeepsJobs
    <2>7. LET c == Start(tracking, q) IN
          Keeps(tracking, c, {}) /\ c.pending = tracking.pending /\ c.tracked = tracking.tracked
      BY <2>1, <2>3, <2>4, StartKeeps
    <2> HIDE DEF waiting
    <2>8. /\ Keeps(tracking, b, {}) /\ b.pending \in {q, a.pending} /\ b.tracked = tracking.tracked
      BY <2>4, <2>6, <2>7
    <2> HIDE DEF b
    <2>9. Keeps(a, b, {})
      BY <2>5, <2>8, KeepsTwice
    <2>10. Queued(b, s, excused)
      BY <1>2, <2>1, <2>3, <2>4, <2>8 DEF Queued
    <2> QED
      BY <1>2, <2>2, <2>9, <2>10
  <1> QED
    BY <1>1, <1>2

\* close: behind the last save, everything tracked is discarded but a dirty document.
LEMMA CloseKeeps ==
    ASSUME NEW a, IsController(a), NEW s, IsSession(s), Bounded, NEW excused, Queued(a, s, excused)
    PROVE  LET b == CloseAutosave(a, s) IN
           /\ Keeps(a, b, excused) /\ b.pending = Nil
           /\ Dirty(s) \/ \A d \in Docs : b.tracked[d] = 0
  <1> DEFINE empty == [a EXCEPT !.pending = Nil]
             started == IF a.pending # Nil THEN Start(empty, a.pending) ELSE a
             protected == IF Dirty(s) THEN s.object ELSE Nil
             dropped == {d \in Docs : a.tracked[d] # 0 /\ ~(d = s.doc /\ a.tracked[d] = protected)}
             c == DiscardRecords(started, dropped)
             b == [c EXCEPT !.timer = FALSE]
  <1>1. CloseAutosave(a, s) = b
    BY DEF CloseAutosave
  <1>2. Keeps(a, empty, excused) /\ empty.pending = Nil /\ empty.tracked = a.tracked
    BY NoPendingKeeps, KeepsMore
  <1>3. a.pending # Nil => a.pending.doc \in Docs
    BY DEF IsController
  <1> HIDE DEF empty
  <1>4. Keeps(a, started, excused) /\ started.pending = Nil /\ started.tracked = a.tracked
    <2>1. CASE a.pending = Nil
      BY <2>1, KeepsSelf
    <2>2. CASE a.pending # Nil
      <3>1. a.pending.doc \in excused \/ empty.tracked[a.pending.doc] # 0
        BY <1>2, <2>2 DEF Queued
      <3>2. /\ Keeps(empty, started, excused) /\ started.pending = empty.pending
            /\ started.tracked = empty.tracked
        BY <1>2, <1>3, <2>2, <3>1, StartKeeps DEF Keeps
      <3> QED
        BY <1>2, <3>2, KeepsTwice
    <2> QED
      BY <2>1, <2>2
  <1>5. dropped \in SUBSET Docs
    OBVIOUS
  <1>6. Dirty(s) \/ \A d \in Docs \ dropped : a.tracked[d] = 0
    BY DEF IsController, Bounded
  <1> HIDE DEF started, dropped
  <1>7. /\ Keeps(started, c, {}) /\ c.pending = started.pending
        /\ \A d \in dropped : c.tracked[d] = 0
        /\ \A d \in Docs \ dropped : c.tracked[d] = started.tracked[d]
    BY <1>4, <1>5, DiscardRecordsKeeps DEF Keeps
  <1> HIDE DEF c
  <1>8. Keeps(c, b, {}) /\ b.pending = c.pending /\ b.tracked = c.tracked
    BY <1>7, TimerKeeps DEF Keeps
  <1> HIDE DEF b
  <1>9. Keeps(started, b, {})
    BY <1>7, <1>8, KeepsTwice
  <1>10. Keeps(a, b, excused)
    BY <1>4, <1>9, KeepsMore, KeepsTwice
  <1> QED
    BY <1>1, <1>4, <1>6, <1>7, <1>8, <1>10

-----------------------------------------------------------------------------
(* The session and its undo stack.                                          *)

\* A new document.
LEMMA DocumentFacts ==
    ASSUME NEW d \in Docs, NEW object \in Nat \ {0}, NEW path, NEW v, NEW dirty \in BOOLEAN
    PROVE  LET s == Document(d, object, path, v, dirty) IN
           IsSession(s) /\ s.doc = d /\ (Dirty(s) <=> dirty) /\ (dirty => s.clean = 0)
  <1> DEFINE s == Document(d, object, path, v, dirty)
             history == <<v>>
  <1>1. IsSeq(history) /\ Len(history) = 1
    <2>1. history \in Seq({v}) /\ Len(history) = 1
      OBVIOUS
    <2> QED
      BY <2>1, SeqIsSeq
  <1> HIDE DEF history
  <1>2. s = [doc |-> d, object |-> object, path |-> path, history |-> history, index |-> 1,
             clean |-> IF dirty THEN 0 ELSE 1]
    BY DEF Document, history
  <1> HIDE DEF s
  <1> QED
    BY <1>1, <1>2 DEF IsSession, Dirty, s

\* A clean and a dirty new document.
LEMMA DocumentOf ==
    ASSUME NEW d \in Docs, NEW object \in Nat \ {0}, NEW path, NEW v
    PROVE  /\ LET s == Document(d, object, path, v, FALSE) IN
              IsSession(s) /\ s.doc = d /\ ~Dirty(s)
           /\ LET s == Document(d, object, path, v, TRUE) IN
              IsSession(s) /\ s.doc = d /\ s.clean = 0
  <1>1. ASSUME NEW dirty \in BOOLEAN
        PROVE  LET s == Document(d, object, path, v, dirty) IN
               IsSession(s) /\ s.doc = d /\ (Dirty(s) <=> dirty) /\ (dirty => s.clean = 0)
    BY DocumentFacts
  <1> DEFINE yes == TRUE
             no == FALSE
  <1>2. yes \in BOOLEAN /\ no \in BOOLEAN /\ yes /\ ~no
    OBVIOUS
  <1> HIDE DEF yes, no
  <1>3. LET s == Document(d, object, path, v, no) IN IsSession(s) /\ s.doc = d /\ ~Dirty(s)
    BY <1>1, <1>2
  <1>4. LET s == Document(d, object, path, v, yes) IN IsSession(s) /\ s.doc = d /\ s.clean = 0
    BY <1>1, <1>2
  <1> QED
    BY <1>3, <1>4 DEF yes, no

\* A command leaves the document dirty.
LEMMA PushFacts ==
    ASSUME NEW s, IsSession(s), NEW v
    PROVE  LET t == PushCommand(s, v) IN
           IsSession(t) /\ t.doc = s.doc /\ Dirty(t) /\ (s.clean = 0 => t.clean = 0)
  <1> DEFINE h == s.history
             kept == SubSeq(h, 1, s.index)
             history == Append(kept, v)
             t == PushCommand(s, v)
  <1>1. IsSeq(h) /\ s.index \in 1..Len(h) /\ Len(h) \in Nat /\ s.clean \in Nat
    BY SeqFacts DEF IsSession
  <1>2. t = [doc |-> s.doc, object |-> s.object, path |-> s.path, history |-> history,
             index |-> s.index + 1, clean |-> IF s.clean > s.index THEN 0 ELSE s.clean]
    <2>1. PICK d, o, p, q, i, c : s = [doc |-> d, object |-> o, path |-> p, history |-> q,
                                       index |-> i, clean |-> c]
      BY DEF IsSession
    <2>2. t = [s EXCEPT !.history = history, !.index = @ + 1,
                        !.clean = IF @ > s.index THEN 0 ELSE @]
      BY DEF PushCommand
    <2> HIDE DEF t, history
    <2> QED
      BY <2>1, <2>2
  <1> HIDE DEF h, t
  <1>3. IsSeq(kept) /\ Len(kept) = s.index
    <2>1. kept \in Seq(Range(h)) /\ Len(kept) = s.index
      BY <1>1 DEF IsSeq
    <2> QED
      BY <2>1, SeqIsSeq
  <1> HIDE DEF kept
  <1>4. IsSeq(history) /\ Len(history) = s.index + 1
    BY <1>3, AppendFacts
  <1> HIDE DEF history
  <1> QED
    BY <1>1, <1>2, <1>4 DEF IsSession, Dirty, t

\* Undo and redo move the index of the stack only.
LEMMA SeekFacts ==
    ASSUME NEW s, IsSession(s), NEW i \in DOMAIN s.history
    PROVE  LET t == Seek(s, i) IN IsSession(t) /\ t.doc = s.doc /\ t.clean = s.clean
  <1>1. i \in 1..Len(s.history)
    BY SeqFacts DEF IsSession
  <1> QED
    BY <1>1 DEF IsSession, Seek

\* A saved document is clean.
LEMMA SetCleanFacts ==
    ASSUME NEW s, IsSession(s), NEW p
    PROVE  LET t == SetClean([s EXCEPT !.path = p]) IN
           IsSession(t) /\ t.doc = s.doc /\ ~Dirty(t)
  <1> DEFINE t == SetClean([s EXCEPT !.path = p])
  <1>1. s.index \in Nat
    BY SeqFacts DEF IsSession
  <1>2. t = [doc |-> s.doc, object |-> s.object, path |-> p, history |-> s.history,
             index |-> s.index, clean |-> s.index]
    <2>1. PICK d, o, q, h, i, c : s = [doc |-> d, object |-> o, path |-> q, history |-> h,
                                       index |-> i, clean |-> c]
      BY DEF IsSession
    <2> DEFINE x == [s EXCEPT !.path = p]
    <2>2. x = [doc |-> d, object |-> o, path |-> p, history |-> h, index |-> i, clean |-> c]
      BY <2>1
    <2>3. t = [x EXCEPT !.clean = x.index]
      BY DEF SetClean
    <2> HIDE DEF x, t
    <2> QED
      BY <2>1, <2>2, <2>3
  <1> HIDE DEF t
  <1> QED
    BY <1>1, <1>2 DEF IsSession, Dirty, t

\* A clean document has a clean position.
LEMMA CleanFacts ==
    ASSUME NEW s, IsSession(s), ~Dirty(s)
    PROVE  s.clean # 0
  BY SeqFacts DEF IsSession, Dirty

\* A document that is left: discarded, or clean.
LEMMA LeavingKeeps ==
    ASSUME NEW a, IsController(a), NEW s, IsSession(s), NEW discard \in BOOLEAN,
           Queued(a, s, stale), discard \/ ~Dirty(s), Bounded
    PROVE  LET b == IF discard THEN DiscardOf(a, s.doc, s.object) ELSE a IN
           /\ Keeps(a, b, {})
           /\ b.pending # Nil => b.pending.doc \in stale
           /\ discard => Held(b, s.doc)
  <1>1. s.doc \in Docs /\ s.object \in Nat /\ s.object # 0
    BY DEF IsSession
  <1>2. CASE discard
    BY <1>1, <1>2, DiscardOfKeeps DEF Queued
  <1>3. CASE ~discard
    BY <1>3, KeepsSelf DEF Queued
  <1> QED
    BY <1>2, <1>3

\* The old document is left as another is opened.
LEMMA ReplacedKeeps ==
    ASSUME NEW a, IsController(a), NEW s, IsSession(s), NEW discard \in BOOLEAN,
           Queued(a, s, stale), discard \/ ~Dirty(s), Bounded, NEW t, IsSession(t)
    PROVE  LET c == Replace(a, s, t)
               b == IF discard THEN DiscardOf(c, s.doc, s.object) ELSE c
           IN  /\ Keeps(a, b, {}) /\ Queued(b, t, stale)
               /\ discard => Held(b, s.doc)
  <1> DEFINE c == Replace(a, s, t)
             b == IF discard THEN DiscardOf(c, s.doc, s.object) ELSE c
  <1>1. Keeps(a, c, {}) /\ c.pending = a.pending
    BY ReplaceKeeps
  <1>2. s.doc \in Docs /\ s.object \in Nat /\ s.object # 0
    BY DEF IsSession
  <1> HIDE DEF c
  <1>3. /\ Keeps(c, b, {})
        /\ b.pending # Nil => b.pending.doc \in stale
        /\ discard => Held(b, s.doc)
    <2>1. IsController(c)
      BY <1>1 DEF Keeps
    <2>2. CASE discard
      BY <1>1, <1>2, <2>1, <2>2, DiscardOfKeeps DEF Queued
    <2>3. CASE ~discard
      BY <1>1, <2>1, <2>3, KeepsSelf DEF Queued
    <2> QED
      BY <2>2, <2>3
  <1> HIDE DEF b
  <1>4. Keeps(a, b, {})
    BY <1>1, <1>3, KeepsTwice
  <1> QED
    BY <1>3, <1>4 DEF Queued, b, c

\* The document is replaced, or the window closes.
LEMMA CompleteKeeps ==
    ASSUME NEW purpose, NEW discard \in BOOLEAN, NEW a, IsController(a), NEW s, IsSession(s),
           NEW f, KnownFiles(f), NEW r, Queued(a, s, stale), discard \/ ~Dirty(s),
           loads \in Nat, Bounded, Complete(purpose, discard, a, s, f, r)
    PROVE  /\ IsSession(session') /\ Keeps(a, auto', stale) /\ Queued(auto', session', stale)
           /\ loads' \in Nat
           /\ \/ ui' = At("ready")
              \/ ui' = At("closed") /\ (Dirty(session') \/ \A d \in Docs : auto'.tracked[d] = 0)
           /\ s.clean = 0 => session' = s \/ Held(auto', s.doc)
  <1> DEFINE left(b) == IF discard THEN DiscardOf(b, s.doc, s.object) ELSE b
  <1>0. s.clean = 0 => discard
    BY CleanFacts
  <1>1. ASSUME NEW t, IsSession(t), session' = t, auto' = left(Replace(a, s, t)),
               loads' = loads + 1, ui' = At("ready")
        PROVE  /\ IsSession(session') /\ Keeps(a, auto', stale) /\ Queued(auto', session', stale)
               /\ loads' \in Nat /\ ui' = At("ready")
               /\ s.clean = 0 => Held(auto', s.doc)
    <2>1. /\ Keeps(a, auto', {}) /\ Queued(auto', t, stale)
          /\ discard => Held(auto', s.doc)
      BY <1>1, ReplacedKeeps
    <2>2. Keeps(a, auto', stale)
      BY <2>1, KeepsMore
    <2> QED
      BY <1>0, <1>1, <2>1, <2>2
  <1>2. CASE /\ \E d \in Docs : Fresh(d) /\ session' = Document(d, loads + 2, Nil, 0, purpose = "generate")
             /\ auto' = left(Replace(a, s, session')) /\ loads' = loads + 1 /\ ui' = At("ready")
    <2>1. IsSession(session')
      <3> DEFINE n == loads + 2
                 dirty == purpose = "generate"
      <3>1. n \in Nat \ {0} /\ dirty \in BOOLEAN
        OBVIOUS
      <3>2. PICK d \in Docs : session' = Document(d, n, Nil, 0, dirty)
        BY <1>2
      <3> HIDE DEF n, dirty
      <3>3. LET t == Document(d, n, Nil, 0, dirty) IN IsSession(t)
        BY <3>1, DocumentFacts
      <3> QED
        BY <3>2, <3>3
    <2> QED
      BY <1>1, <1>2, <2>1
  <1>3. CASE /\ purpose \in Paths /\ f[purpose] # Nil
             /\ session' = Document(f[purpose].doc, loads + 2, purpose, f[purpose].version, FALSE)
             /\ auto' = left(Replace(a, s, session')) /\ loads' = loads + 1 /\ ui' = At("ready")
    <2>1. f[purpose].doc \in Docs
      BY <1>3 DEF KnownFiles
    <2>2. IsSession(session')
      <3>1. loads + 2 \in Nat \ {0} /\ FALSE \in BOOLEAN
        OBVIOUS
      <3> QED
        BY <1>3, <2>1, <3>1, DocumentFacts
    <2> QED
      BY <1>1, <1>3, <2>2
  <1>4. CASE /\ session' = s /\ auto' = CloseAutosave(left(a), s)
             /\ ui' = At("closed") /\ loads' = loads
    <2> DEFINE b == left(a)
    <2>1. /\ Keeps(a, b, {})
          /\ b.pending # Nil => b.pending.doc \in stale
      BY LeavingKeeps
    <2>2. auto' = CloseAutosave(b, s)
      BY <1>4
    <2> HIDE DEF b
    <2>3. IsController(b) /\ Queued(b, s, stale)
      BY <2>1 DEF Keeps, Queued
    <2>4. /\ Keeps(b, auto', stale) /\ auto'.pending = Nil
          /\ Dirty(s) \/ \A d \in Docs : auto'.tracked[d] = 0
      BY <2>2, <2>3, CloseKeeps
    <2>5. Keeps(a, auto', stale)
      BY <2>1, <2>4, KeepsMore, KeepsTwice
    <2> QED
      BY <1>4, <2>4, <2>5 DEF Queued
  <1>5. CASE session' = s /\ auto' = a /\ ui' = At("ready") /\ loads' = loads
    BY <1>5, KeepsSelf
  <1> QED
    BY <1>2, <1>3, <1>4, <1>5 DEF Complete

-----------------------------------------------------------------------------
(* The steps.                                                               *)

\* The UI thread in a phase, with nothing else under way.
LEMMA AtFacts ==
    ASSUME NEW phase
    PROVE  LET u == At(phase) IN
           /\ u = [phase |-> u.phase, purpose |-> u.purpose, path |-> u.path, offers |-> u.offers]
           /\ u.phase = phase /\ u.purpose = Nil /\ u.offers = {}
  BY DEF At

\* A step of the window: the disk and what was autosaved stay.
LEMMA AttendedKept ==
    ASSUME RecoveryInv, Running, UNCHANGED <<record, touched>>, stale \subseteq stale',
           Keeps(auto, auto', stale'),
           \A d \in Docs \ stale' : Unsaved(d) => Unsaved(d)' \/ Held(auto', d)
    PROVE  Attended'
  <1> SUFFICES ASSUME NEW d \in Docs \ stale', Left(d)'
               PROVE  Held(auto', d) \/ Unsaved(d)'
    BY DEF Attended
  <1>1. Left(d) \/ Held(auto', d)
    BY DEF Left, Keeps
  <1>2. Left(d) => Held(auto, d) \/ Unsaved(d)
    BY DEF RecoveryInv, Attended
  <1> QED
    BY <1>1, <1>2 DEF Keeps

\* A step of the window keeps the invariant where it keeps what is held.
LEMMA WindowStep ==
    ASSUME RecoveryInv, Running, UNCHANGED <<file, backup, record, reported, touched>>, stale \subseteq stale',
           IsSession(session'), Keeps(auto, auto', stale'), Queued(auto', session', stale'),
           \A d \in Docs \ stale' : Unsaved(d) => Unsaved(d)' \/ Held(auto', d),
           loads' \in Nat, IsUi', Settling'
    PROVE  RecoveryInv'
  <1>1. Attended'
    BY AttendedKept
  <1>2. IsController(auto')
    BY DEF Keeps
  <1>3. Types'
    BY <1>2 DEF RecoveryInv, Types, KnownFiles
  <1>4. OnDisk'
    BY DEF RecoveryInv, OnDisk
  <1> QED
    BY <1>1, <1>3, <1>4 DEF RecoveryInv

\* No phase in which a user, a timer or a dialog acts is special.
Plain(phase) == phase \notin {"offering", "closed", "down"}

\* There Settling asks for nothing.
LEMMA PlainStep ==
    ASSUME RecoveryInv, Plain(ui'.phase)
    PROVE  Settling'
  BY AtFacts DEF Settling, Plain, Ended

\* What the steps use of the invariant.
LEMMA InvFacts ==
    ASSUME RecoveryInv
    PROVE  /\ IsSession(session) /\ IsController(auto) /\ IsUi /\ KnownFiles(file)
           /\ Queued(auto, session, stale) /\ loads \in Nat /\ loads + 1 \in Nat
           /\ ui.phase # "down" => Running
  BY DEF RecoveryInv, Types, Running

\* A pushed command leaves a dirty document, of which a queued autosave stays.
LEMMA EditStep ==
    ASSUME RecoveryInv, Bounded, Edit
    PROVE  RecoveryInv'
  <1>1. /\ session' = PushCommand(session, edits + 1) /\ auto' = Notify(auto, session, session')
        /\ UNCHANGED <<file, backup, record, reported, touched, stale, loads, ui>> /\ ui.phase = "ready"
    BY DEF Edit, disk
  <1>2. /\ IsSession(session') /\ session'.doc = session.doc /\ Dirty(session')
        /\ (session.clean = 0 => session'.clean = 0)
    BY <1>1, InvFacts, PushFacts
  <1>3. Keeps(auto, auto', {}) /\ auto'.pending = auto.pending /\ Spares(auto, auto', session')
    BY <1>1, <1>2, InvFacts, NotifyKeeps DEF IsSession
  <1>4. Keeps(auto, auto', stale')
    BY <1>3, KeepsMore
  <1>5. Queued(auto', session', stale')
    BY <1>1, <1>2, <1>3, InvFacts DEF Queued, Spares
  <1>6. Running /\ IsUi' /\ loads' \in Nat
    BY <1>1, InvFacts DEF IsUi
  <1>7. \A d \in Docs \ stale' : Unsaved(d) => Unsaved(d)'
    BY <1>1, <1>2 DEF Unsaved
  <1>8. Settling'
    BY <1>1, PlainStep DEF Plain
  <1> QED
    BY <1>1, <1>2, <1>4, <1>5, <1>6, <1>7, <1>8, WindowStep

\* An undo to the saved state excuses the document that has an autosave queued.
LEMMA UndoOrRedoStep ==
    ASSUME RecoveryInv, Bounded, UndoOrRedo
    PROVE  RecoveryInv'
  <1>1. /\ \E i \in {session.index - 1, session.index + 1} \cap DOMAIN session.history :
               session' = Seek(session, i)
        /\ auto' = Notify(auto, session, session')
        /\ stale' = IF ~Dirty(session') /\ auto.pending # Nil /\ auto.pending.doc = session.doc
                    THEN stale \cup {session.doc} ELSE stale
        /\ UNCHANGED <<file, backup, record, reported, touched, loads, ui>> /\ ui.phase = "ready"
    BY DEF UndoOrRedo, disk
  <1>2. IsSession(session') /\ session'.doc = session.doc /\ session'.clean = session.clean
    BY <1>1, InvFacts, SeekFacts
  <1>3. Keeps(auto, auto', {}) /\ auto'.pending = auto.pending /\ Spares(auto, auto', session')
    BY <1>1, <1>2, InvFacts, NotifyKeeps DEF IsSession
  <1>4. Keeps(auto, auto', stale') /\ stale \subseteq stale'
    BY <1>1, <1>3, KeepsMore
  <1>5. Queued(auto', session', stale')
    BY <1>1, <1>2, <1>3, InvFacts DEF Queued, Spares
  <1>6. Running /\ IsUi' /\ loads' \in Nat
    BY <1>1, InvFacts DEF IsUi
  <1>7. \A d \in Docs \ stale' : Unsaved(d) => Unsaved(d)'
    BY <1>1, <1>2 DEF Unsaved
  <1>8. Settling'
    BY <1>1, PlainStep DEF Plain
  <1> QED
    BY <1>1, <1>2, <1>4, <1>5, <1>6, <1>7, <1>8, WindowStep

\* The debounce timer.
LEMMA AutosaveDueStep ==
    ASSUME RecoveryInv, Bounded, AutosaveDue
    PROVE  RecoveryInv'
  <1> DEFINE unarmed == [auto EXCEPT !.timer = FALSE]
  <1>1. /\ auto' = AutosaveNow(unarmed, session)
        /\ UNCHANGED <<file, backup, record, reported, touched, stale, loads, ui, session>>
        /\ ui.phase \in {"offering", "ready", "asking"}
    BY DEF AutosaveDue, disk, bounds, Loops
  <1>2. /\ Keeps(auto, unarmed, {}) /\ unarmed.pending = auto.pending
        /\ unarmed.tracked = auto.tracked
    BY InvFacts, TimerKeeps
  <1> HIDE DEF unarmed
  <1>3. IsController(unarmed) /\ Queued(unarmed, session, stale)
    BY <1>2, InvFacts DEF Keeps, Queued
  <1>4. Keeps(unarmed, auto', {}) /\ Queued(auto', session, stale)
    BY <1>1, <1>3, InvFacts, AutosaveNowKeeps
  <1>5. Keeps(auto, auto', stale')
    BY <1>2, <1>4, KeepsMore, KeepsTwice
  <1>6. Running /\ IsUi' /\ loads' \in Nat /\ IsSession(session') /\ Queued(auto', session', stale')
    BY <1>1, <1>4, InvFacts DEF IsUi
  <1>7. \A d \in Docs \ stale' : Unsaved(d) => Unsaved(d)'
    BY <1>1 DEF Unsaved
  <1>8. Settling'
    BY <1>1, AtFacts DEF RecoveryInv, Settling, Ended
  <1> QED
    BY <1>1, <1>5, <1>6, <1>7, <1>8, WindowStep

\* The flush runs while the queued request is still seen, and leaves it tracked.
LEMMA OnFinishedStep ==
    ASSUME RecoveryInv, Bounded, OnFinished
    PROVE  RecoveryInv'
  <1> DEFINE free == [auto EXCEPT !.current = Nil]
             settled == FlushSettledDiscards(free, session)
             empty == [settled EXCEPT !.pending = Nil]
  <1>1. /\ auto' = IF settled.pending = Nil THEN settled ELSE Start(empty, settled.pending)
        /\ UNCHANGED <<file, backup, record, reported, touched, stale, loads, ui, session>>
        /\ ui.phase \in {"offering", "ready", "asking"}
    BY DEF OnFinished, disk, bounds, Loops
  <1>2. Keeps(auto, free, {}) /\ free.pending = auto.pending /\ free.tracked = auto.tracked
    <2>1. /\ IsController(free) /\ free.jobs = auto.jobs /\ free.pending = auto.pending
          /\ free.tracked = auto.tracked
      BY InvFacts DEF IsController
    <2> HIDE DEF free
    <2> QED
      BY <2>1, KeepsJobs
  <1> HIDE DEF free
  <1>3. /\ Keeps(free, settled, {}) /\ settled.pending = free.pending /\ Spares(free, settled, session)
    BY <1>2, InvFacts, FlushKeeps DEF Keeps, IsSession
  <1> HIDE DEF settled
  <1>4. Keeps(auto, settled, stale) /\ Queued(settled, session, stale)
    <2>1. Keeps(auto, settled, {})
      BY <1>2, <1>3, KeepsTwice
    <2>2. Queued(settled, session, stale)
      BY <1>2, <1>3, InvFacts DEF Queued, Spares
    <2> QED
      BY <2>1, <2>2, KeepsMore
  <1>6. /\ Keeps(settled, empty, stale) /\ empty.pending = Nil /\ empty.tracked = settled.tracked
    BY <1>4, NoPendingKeeps, KeepsMore DEF Keeps
  <1> HIDE DEF empty
  <1>7. Keeps(auto, auto', stale) /\ Queued(auto', session, stale)
    <2>1. CASE settled.pending = Nil
      BY <1>1, <1>4, <2>1
    <2>2. CASE settled.pending # Nil
      <3>1. settled.pending.doc \in Docs /\
            (settled.pending.doc \in stale \/ empty.tracked[settled.pending.doc] # 0)
        BY <1>4, <1>6, <2>2 DEF Queued, Keeps, IsController
      <3>2. Keeps(empty, auto', stale) /\ auto'.pending = Nil
        BY <1>1, <1>6, <2>2, <3>1, StartKeeps DEF Keeps
      <3>3. Keeps(settled, auto', stale)
        BY <1>6, <3>2, KeepsTwice
      <3> QED
        BY <1>4, <3>2, <3>3, KeepsTwice DEF Queued
    <2> QED
      BY <2>1, <2>2
  <1>8. Running /\ IsUi' /\ loads' \in Nat /\ IsSession(session') /\ Queued(auto', session', stale')
    BY <1>1, <1>7, InvFacts DEF IsUi
  <1>9. \A d \in Docs \ stale' : Unsaved(d) => Unsaved(d)'
    BY <1>1 DEF Unsaved
  <1>10. Settling'
    BY <1>1, AtFacts DEF RecoveryInv, Settling, Ended
  <1> QED
    BY <1>1, <1>7, <1>8, <1>9, <1>10, WindowStep

\* A replacement or the close of the window.
LEMMA CompleteStep ==
    ASSUME RecoveryInv, Bounded, NEW discard \in BOOLEAN, discard \/ ~Dirty(session), NEW purpose,
           Complete(purpose, discard, auto, session, file, recent), ui.phase # "down",
           UNCHANGED <<file, backup, record, reported, touched, stale>>
    PROVE  RecoveryInv'
  <1>1. /\ IsSession(session') /\ Keeps(auto, auto', stale) /\ Queued(auto', session', stale)
        /\ loads' \in Nat
        /\ \/ ui' = At("ready")
           \/ ui' = At("closed") /\ (Dirty(session') \/ \A d \in Docs : auto'.tracked[d] = 0)
        /\ session.clean = 0 => session' = session \/ Held(auto', session.doc)
    BY InvFacts, CompleteKeeps
  <1>2. \A d \in Docs \ stale' : Unsaved(d) => Unsaved(d)' \/ Held(auto', d)
    BY <1>1 DEF Unsaved
  <1>3. IsUi'
    BY <1>1, AtFacts DEF IsUi
  <1>4. Settling'
    <2>1. CASE ui' = At("ready")
      BY <2>1, AtFacts, PlainStep DEF Plain
    <2>2. CASE ui' = At("closed") /\ (Dirty(session') \/ \A d \in Docs : auto'.tracked[d] = 0)
      BY <2>2, AtFacts DEF Settling
    <2> QED
      BY <1>1, <2>1, <2>2
  <1>5. Running
    BY InvFacts
  <1> QED
    BY <1>1, <1>2, <1>3, <1>4, <1>5, WindowStep

\* A clean document goes at once, of a dirty one an autosave is asked for first.
LEMMA AskStep ==
    ASSUME RecoveryInv, Bounded, NEW purpose, Ask(purpose)
    PROVE  RecoveryInv'
  <1>1. /\ UNCHANGED <<file, backup, record, reported, touched, stale>> /\ ui.phase = "ready"
    BY DEF Ask
  <1>2. CASE ~Dirty(session) /\ Complete(purpose, FALSE, auto, session, file, recent)
    <2>1. FALSE \in BOOLEAN
      OBVIOUS
    <2> QED
      BY <1>1, <1>2, <2>1, CompleteStep
  <1>3. CASE /\ auto' = AutosaveNow(auto, session)
             /\ ui' = [At("asking") EXCEPT !.purpose = purpose]
             /\ UNCHANGED <<session, recent, loads>>
    <2>1. Keeps(auto, auto', {}) /\ Queued(auto', session, stale)
      BY <1>3, InvFacts, AutosaveNowKeeps
    <2>2. Keeps(auto, auto', stale')
      BY <2>1, KeepsMore
    <2>3. IsUi' /\ ui'.phase = "asking"
      BY <1>3 DEF IsUi, At
    <2>4. Settling'
      BY <2>3, PlainStep DEF Plain
    <2>5. Running /\ IsSession(session') /\ Queued(auto', session', stale') /\ loads' \in Nat
      BY <1>1, <1>3, <2>1, InvFacts
    <2>6. \A d \in Docs \ stale' : Unsaved(d) => Unsaved(d)'
      BY <1>3 DEF Unsaved
    <2> QED
      BY <1>1, <2>2, <2>3, <2>4, <2>5, <2>6, WindowStep
  <1> QED
    BY <1>2, <1>3 DEF Ask

\* A step that leaves the session and the controller alone.
LEMMA DialogStep ==
    ASSUME RecoveryInv, Bounded, ui.phase # "down", IsUi', Settling',
           UNCHANGED <<file, backup, record, reported, touched, stale, session, auto>>, loads' \in Nat
    PROVE  RecoveryInv'
  <1>1. Keeps(auto, auto', stale') /\ Queued(auto', session', stale')
    BY InvFacts, KeepsSelf
  <1>2. Running /\ IsSession(session')
    BY InvFacts
  <1>3. \A d \in Docs \ stale' : Unsaved(d) => Unsaved(d)'
    BY DEF Unsaved
  <1> QED
    BY <1>1, <1>2, <1>3, WindowStep

\* Discard, or cancel.
LEMMA AnswerStep ==
    ASSUME RecoveryInv, Bounded, Answer
    PROVE  RecoveryInv'
  <1>1. UNCHANGED <<file, backup, record, reported, touched, stale>> /\ ui.phase = "asking"
    BY DEF Answer
  <1>2. CASE Complete(ui.purpose, TRUE, auto, session, file, recent)
    <2>1. TRUE \in BOOLEAN
      OBVIOUS
    <2> QED
      BY <1>1, <1>2, <2>1, CompleteStep
  <1>3. CASE ui' = At("ready") /\ UNCHANGED <<auto, session, recent, loads>>
    <2>1. IsUi' /\ ui'.phase = "ready"
      BY <1>3, AtFacts DEF IsUi
    <2> QED
      BY <1>1, <1>3, <2>1, DialogStep, PlainStep, InvFacts DEF Plain
  <1> QED
    BY <1>2, <1>3 DEF Answer

\* A save begins.
LEMMA SaveStep ==
    ASSUME RecoveryInv, Bounded, BeginSave
    PROVE  RecoveryInv'
  <1>1. UNCHANGED <<file, backup, record, reported, touched, stale, session, auto, loads>>
        /\ ui.phase \in {"ready", "asking"} /\ \E p : ui' = [ui EXCEPT !.phase = "backup", !.path = p]
    BY DEF BeginSave, disk
  <1>2. IsUi' /\ ui'.phase = "backup"
    BY <1>1, InvFacts DEF IsUi
  <1> QED
    BY <1>1, <1>2, DialogStep, PlainStep, InvFacts DEF Plain

\* A save fails: the file and its backup stay.
LEMMA SaveFailsStep ==
    ASSUME RecoveryInv, Bounded, SaveFails
    PROVE  RecoveryInv'
  <1>1. UNCHANGED <<file, backup, record, reported, touched, stale, session, auto, loads>>
        /\ ui.phase \in {"backup", "destination"} /\ ui' = At("ready")
    BY DEF SaveFails, disk
  <1>2. IsUi' /\ ui'.phase = "ready"
    BY <1>1, AtFacts DEF IsUi
  <1> QED
    BY <1>1, <1>2, DialogStep, PlainStep, InvFacts DEF Plain

\* The backup is the content that was last reported.
LEMMA CopyBackupStep ==
    ASSUME RecoveryInv, Bounded, CopyBackup
    PROVE  RecoveryInv'
  <1>1. /\ UNCHANGED <<file, record, reported, touched, stale, session, auto, loads>>
        /\ ui.phase = "backup" /\ ui' = [ui EXCEPT !.phase = "destination"]
        /\ backup' = IF file[ui.path] = Nil THEN backup ELSE [backup EXCEPT ![ui.path] = file[ui.path]]
    BY DEF CopyBackup, bounds
  <1>2. IsUi' /\ ui'.phase = "destination"
    BY <1>1, InvFacts DEF IsUi
  <1>3. Settling'
    BY <1>2, PlainStep DEF Plain
  <1>4. Attended'
    <2>1. Keeps(auto, auto', stale') /\ Running
      BY <1>1, InvFacts, KeepsSelf
    <2>2. \A d \in Docs \ stale' : Unsaved(d) => Unsaved(d)'
      BY <1>1 DEF Unsaved
    <2> QED
      BY <1>1, <2>1, <2>2, AttendedKept
  <1>5. backup' = [p \in Paths |-> backup'[p]]
    BY <1>1 DEF RecoveryInv, Types
  <1>6. Types'
    BY <1>1, <1>2, <1>5 DEF RecoveryInv, Types, KnownFiles
  <1>7. OnDisk' /\ Queued(auto', session', stale')
    BY <1>1, InvFacts DEF RecoveryInv, OnDisk
  <1> QED
    BY <1>3, <1>4, <1>6, <1>7 DEF RecoveryInv

\* The destination is replaced and reported, the document clean and its record discarded.
LEMMA ReplaceDestinationStep ==
    ASSUME RecoveryInv, Bounded, ReplaceDestination
    PROVE  RecoveryInv'
  <1> DEFINE p == ui.path
             saved == SetClean([session EXCEPT !.path = p])
             clean == IF Dirty(session) THEN DirtyChanged(auto, saved) ELSE auto
             discarded == DiscardOf(clean, session.doc, session.object)
             r == Remembered(recent, p)
  <1>1. /\ UNCHANGED <<backup, record, touched, stale>> /\ ui.phase = "destination"
        /\ file' = [file EXCEPT ![p] = Snapshot(session)]
        /\ reported' = [reported EXCEPT ![p] = Snapshot(session)]
        /\ \/ session' = saved /\ auto' = discarded /\ ui' = At("ready") /\ loads' = loads
           \/ Complete(ui.purpose, FALSE, discarded, saved, file', r)
    BY DEF ReplaceDestination
  <1>2. IsSession(saved) /\ saved.doc = session.doc /\ ~Dirty(saved)
    BY InvFacts, SetCleanFacts
  <1>3. session.doc \in Docs /\ session.object \in Nat /\ session.object # 0
    BY InvFacts DEF IsSession
  <1> HIDE DEF p, saved, r
  <1>4. Keeps(auto, clean, {}) /\ clean.pending = auto.pending
    BY <1>2, <1>3, InvFacts, DirtyChangedKeeps, KeepsSelf
  <1> HIDE DEF clean
  <1>5. /\ Keeps(clean, discarded, {}) /\ discarded.pending \in {clean.pending, Nil}
        /\ clean.pending # Nil /\ clean.pending.doc = session.doc => discarded.pending = Nil
        /\ Held(discarded, session.doc)
    BY <1>3, <1>4, DiscardOfKeeps DEF Keeps
  <1> HIDE DEF discarded
  <1>6. Keeps(auto, discarded, stale)
    BY <1>4, <1>5, KeepsTwice, KeepsMore
  <1>7. IsController(discarded) /\ Queued(discarded, saved, stale)
    BY <1>4, <1>5, InvFacts DEF Keeps, Queued
  <1>8. file' = [q \in Paths |-> file'[q]] /\ reported' = [q \in Paths |-> reported'[q]]
    BY <1>1 DEF RecoveryInv, Types
  <1>9. KnownFiles(file')
    BY <1>1, <1>3, InvFacts DEF RecoveryInv, Types, KnownFiles, Snapshot
  <1>10. OnDisk'
    BY <1>1 DEF RecoveryInv, Types, OnDisk
  <1>11. /\ IsSession(session') /\ Keeps(discarded, auto', stale)
         /\ Queued(auto', session', stale) /\ loads' \in Nat
         /\ \/ ui' = At("ready")
            \/ ui' = At("closed") /\ (Dirty(session') \/ \A d \in Docs : auto'.tracked[d] = 0)
    <2>1. CASE session' = saved /\ auto' = discarded /\ ui' = At("ready") /\ loads' = loads
      BY <1>2, <1>7, <2>1, InvFacts, KeepsSelf
    <2>2. CASE Complete(ui.purpose, FALSE, discarded, saved, file', r)
      <3>1. FALSE \in BOOLEAN
        OBVIOUS
      <3> QED
        BY <1>2, <1>7, <1>9, <2>2, <3>1, InvFacts, CompleteKeeps
    <2> QED
      BY <1>1, <2>1, <2>2
  <1>12. Keeps(auto, auto', stale')
    BY <1>1, <1>6, <1>11, KeepsTwice
  <1>13. \A d \in Docs \ stale' : Unsaved(d) => Held(auto', d)
    BY <1>1, <1>5, <1>11 DEF Unsaved, Keeps
  <1>14. Attended'
    BY <1>1, <1>12, <1>13, InvFacts, AttendedKept
  <1>15. IsUi' /\ Settling'
    <2>1. CASE ui' = At("ready")
      BY <2>1, AtFacts, PlainStep DEF Plain, IsUi
    <2>2. CASE ui' = At("closed") /\ (Dirty(session') \/ \A d \in Docs : auto'.tracked[d] = 0)
      BY <2>2, AtFacts DEF Settling, IsUi
    <2> QED
      BY <1>11, <2>1, <2>2
  <1>16. Types'
    BY <1>1, <1>8, <1>9, <1>11, <1>15 DEF RecoveryInv, Types, Keeps
  <1> QED
    BY <1>1, <1>10, <1>11, <1>14, <1>15, <1>16 DEF RecoveryInv

\* The records that a crash left are offered.
LEMMA OfferStep ==
    ASSUME RecoveryInv, Bounded, Offer
    PROVE  RecoveryInv'
  <1>1. /\ UNCHANGED <<file, backup, record, reported, stale>>
        /\ ui.phase = "offering" /\ ~Dirty(session)
    BY DEF Offer, RecoveryInv, Settling, disk
  <1>2. session.clean # 0
    BY <1>1, InvFacts, CleanFacts
  <1>3. CASE UNCHANGED <<session, auto, loads, touched>> /\ ui' = At("ready")
    <2>1. IsUi' /\ ui'.phase = "ready"
      BY <1>3, AtFacts DEF IsUi
    <2> QED
      BY <1>1, <1>3, <2>1, DialogStep, PlainStep, InvFacts DEF Plain
  <1>4. CASE UNCHANGED <<session, auto, loads, touched>> /\ \E d : ui' = [ui EXCEPT !.offers = @ \ {d}]
    <2>1. IsUi' /\ ui'.phase = "offering"
      BY <1>1, <1>4, InvFacts DEF IsUi
    <2>2. Settling'
      BY <1>1, <1>4, <2>1, AtFacts DEF Settling, Ended, Dirty
    <2> QED
      BY <1>1, <1>4, <2>1, <2>2, DialogStep, InvFacts
  <1>5. ASSUME NEW d \in ui.offers, ui' = [ui EXCEPT !.offers = @ \ {d}],
               auto' = DiscardOf(auto, d, 0), UNCHANGED <<session, loads, touched>>
        PROVE  RecoveryInv'
    <2>1. d \in Docs
      BY InvFacts DEF IsUi
    <2>2. Keeps(auto, auto', {}) /\ auto'.pending \in {auto.pending, Nil}
      BY <1>5, <2>1, InvFacts, DiscardOfKeeps
    <2>3. Keeps(auto, auto', stale') /\ Queued(auto', session', stale')
      BY <1>1, <1>5, <2>2, InvFacts, KeepsMore DEF Queued
    <2>4. IsUi' /\ ui'.phase = "offering"
      BY <1>1, <1>5, InvFacts DEF IsUi
    <2>5. Settling'
      BY <1>1, <1>5, <2>4, AtFacts DEF Settling, Ended, Dirty
    <2>6. \A e \in Docs \ stale' : Unsaved(e) => Unsaved(e)'
      BY <1>5 DEF Unsaved
    <2> QED
      BY <1>1, <1>5, <2>3, <2>4, <2>5, <2>6, WindowStep, InvFacts
  <1>6. ASSUME NEW d \in ui.offers, ui' = At("ready"), record[d] # Nil,
               session' = Document(d, loads + 2, ExplicitPath(d), record[d], TRUE),
               auto' = Replace(auto, session, session'),
               touched' = touched \cup {d}, loads' = loads + 1
        PROVE  RecoveryInv'
    <2>1. d \in Docs /\ loads + 2 \in Nat \ {0} /\ TRUE \in BOOLEAN /\ loads' \in Nat
      BY <1>6, InvFacts DEF IsUi
    <2>2. IsSession(session') /\ session'.doc = d /\ session'.clean = 0
      <3> DEFINE n == loads + 2
                 path == ExplicitPath(d)
                 v == record[d]
                 t == Document(d, n, path, v, TRUE)
      <3>1. session' = t /\ n \in Nat \ {0}
        BY <1>6, <2>1
      <3> HIDE DEF n, path, v
      <3>2. IsSession(t) /\ t.doc = d /\ t.clean = 0
        BY <2>1, <3>1, DocumentOf, ZenonT(30)
      <3> QED
        BY <3>1, <3>2
    <2>3. Keeps(auto, auto', {}) /\ auto'.pending = auto.pending
      BY <1>6, <2>2, InvFacts, ReplaceKeeps
    <2>4. Keeps(auto, auto', stale) /\ Queued(auto', session', stale)
      BY <1>1, <2>3, InvFacts, KeepsMore DEF Queued
    <2>5. IsUi' /\ ui'.phase = "ready"
      BY <1>6, AtFacts DEF IsUi
    <2>6. Settling'
      BY <2>5, PlainStep DEF Plain
    <2>7. Attended'
      <3> SUFFICES ASSUME NEW e \in Docs \ stale', Left(e)', ~Unsaved(e)'
                   PROVE  Held(auto', e)
        BY DEF Attended
      <3>1. e # d
        BY <2>2 DEF Unsaved
      <3>2. Left(e) \/ Held(auto', e)
        BY <1>1, <1>6, <2>4, <3>1 DEF Left, Keeps
      <3>3. Running /\ ~Unsaved(e)
        BY <1>1, <1>2, InvFacts DEF Unsaved
      <3>4. Left(e) => Held(auto, e)
        BY <1>1, <3>3 DEF RecoveryInv, Attended
      <3> QED
        BY <1>1, <2>4, <3>2, <3>4 DEF Keeps
    <2>8. Types'
      BY <1>1, <1>6, <2>1, <2>2, <2>4, <2>5 DEF RecoveryInv, Types, Keeps, KnownFiles
    <2>9. OnDisk' /\ Queued(auto', session', stale')
      BY <1>1, <2>4 DEF RecoveryInv, OnDisk
    <2> QED
      BY <2>6, <2>7, <2>8, <2>9 DEF RecoveryInv
  <1> QED
    BY <1>3, <1>4, <1>5, <1>6 DEF Offer

\* A new controller.
LEMMA NoAutosaveFacts ==
    /\ IsController(NoAutosave) /\ NoAutosave.jobs = <<>> /\ NoAutosave.pending = Nil
    /\ \A d \in Docs : NoAutosave.tracked[d] = 0
  <1>1. IsSeq(<<>>) /\ DOMAIN <<>> = {}
    BY DEF IsSeq
  <1> QED
    BY <1>1 DEF NoAutosave, IsController

\* A crash leaves the disk as it is.
LEMMA CrashStep ==
    ASSUME RecoveryInv, Bounded, Crash
    PROVE  RecoveryInv'
  <1>1. /\ UNCHANGED <<file, backup, record, reported, touched, stale, session, loads>>
        /\ auto' = NoAutosave /\ ui' = [At("down") EXCEPT !.purpose = "new"]
    BY DEF Crash, disk
  <1>2. "new" # Nil
    BY DEF Bounded, Purposes
  <1>3. IsUi' /\ ui'.phase = "down" /\ ui' # At("down")
    BY <1>1, <1>2 DEF IsUi, At
  <1>4. Types'
    BY <1>1, <1>3, NoAutosaveFacts DEF RecoveryInv, Types, KnownFiles
  <1>5. Attended' /\ Settling' /\ Queued(auto', session', stale')
    BY <1>1, <1>3, NoAutosaveFacts DEF Attended, Running, Settling, Ended, Queued
  <1>6. OnDisk'
    BY <1>1 DEF RecoveryInv, OnDisk
  <1> QED
    BY <1>4, <1>5, <1>6 DEF RecoveryInv

\* The process ends once the worker's queue is empty.
LEMMA ExitStep ==
    ASSUME RecoveryInv, Bounded, Exit
    PROVE  RecoveryInv'
  <1>1. /\ UNCHANGED <<file, backup, record, reported, touched, stale, session, auto, loads>>
        /\ ui.phase = "closed" /\ auto.jobs = <<>> /\ ui' = At("down")
    BY DEF Exit, disk, bounds
  <1>2. IsUi' /\ ui'.phase = "down"
    BY <1>1, AtFacts DEF IsUi
  <1>3. Settling'
    BY <1>1, <1>2 DEF RecoveryInv, Settling, Ended, Dirty
  <1> QED
    BY <1>1, <1>2, <1>3, DialogStep, InvFacts

\* The next run has autosaved nothing yet.
LEMMA RestartStep ==
    ASSUME RecoveryInv, Bounded, Restart
    PROVE  RecoveryInv'
  <1>1. /\ UNCHANGED <<file, backup, record, reported, auto>>
        /\ ui = [At("down") EXCEPT !.purpose = "new"]
        /\ \E d \in Docs : session' = Document(d, 1, Nil, 0, FALSE)
        /\ loads' = 0 /\ touched' = {}
        /\ ui' = [At("offering") EXCEPT !.offers = {d \in Docs : record[d] # Nil}]
    BY DEF Restart, disk
  <1>2. ui.phase = "down" /\ ui # At("down")
    <2>1. "new" # Nil
      BY DEF Bounded, Purposes
    <2> QED
      BY <1>1, <2>1 DEF At
  <1>3. auto.jobs = <<>> /\ auto.pending = Nil
    BY <1>2 DEF RecoveryInv, Settling
  <1>4. IsSession(session') /\ ~Dirty(session')
    <2> DEFINE n == 1
    <2>1. n \in Nat \ {0}
      OBVIOUS
    <2>2. PICK d \in Docs : session' = Document(d, n, Nil, 0, FALSE)
      BY <1>1
    <2> HIDE DEF n
    <2>3. LET t == Document(d, n, Nil, 0, FALSE) IN IsSession(t) /\ ~Dirty(t)
      BY <2>1, DocumentOf, ZenonT(30)
    <2> QED
      BY <2>2, <2>3
  <1>5. IsUi' /\ ui'.phase = "offering"
    BY <1>1 DEF IsUi, At
  <1>6. Types'
    BY <1>1, <1>4, <1>5 DEF RecoveryInv, Types, KnownFiles
  <1>7. Attended'
    BY <1>1, <1>3 DEF Attended, Left, Rewritten
  <1>8. Queued(auto', session', stale') /\ OnDisk'
    BY <1>1, <1>3 DEF Queued, RecoveryInv, OnDisk
  <1>9. Settling'
    <2>1. ui' # At("down")
      BY <1>5, AtFacts
    <2> QED
      BY <1>4, <1>5, <2>1 DEF Settling, Ended
  <1> QED
    BY <1>6, <1>7, <1>8, <1>9 DEF RecoveryInv

-----------------------------------------------------------------------------
(* The worker.                                                              *)

\* b is the controller a after the first of its jobs has become one of the given kind.
HeadTurned(a, b, kind) ==
    /\ IsController(b) /\ b.pending = a.pending /\ b.tracked = a.tracked
    /\ DOMAIN b.jobs = DOMAIN a.jobs /\ DOMAIN a.jobs = 1..Len(a.jobs) /\ Len(a.jobs) \in Nat
    /\ 1 \in DOMAIN a.jobs /\ Head(a.jobs) = a.jobs[1] /\ a.jobs[1].request.doc \in Docs
    /\ b.jobs[1].kind = kind /\ b.jobs[1].request = a.jobs[1].request
    /\ \A i \in DOMAIN a.jobs : i # 1 => b.jobs[i] = a.jobs[i]

\* The worker has written the first file of its job, and the job is of the second.
LEMMA HeadChanged ==
    ASSUME NEW a, IsController(a), a.jobs # <<>>, NEW kind
    PROVE  HeadTurned(a, [a EXCEPT !.jobs[1].kind = kind], kind)
  <1> DEFINE q == a.jobs
             x == [q[1] EXCEPT !.kind = kind]
             r == [q EXCEPT ![1] = x]
             b == [a EXCEPT !.jobs[1].kind = kind]
  <1>1. IsSeq(q) /\ q # <<>> /\ \A i \in DOMAIN q : IsJob(q[i])
    BY DEF IsController
  <1>2. b = [timer |-> a.timer, current |-> a.current, pending |-> a.pending,
             tracked |-> a.tracked, deferred |-> a.deferred, jobs |-> r]
    <2>1. PICK t, c, p, k, f, j : a = [timer |-> t, current |-> c, pending |-> p,
                                       tracked |-> k, deferred |-> f, jobs |-> j]
      BY DEF IsController
    <2> QED
      BY <2>1
  <1> HIDE DEF b
  <1>3. 1 \in DOMAIN q /\ Head(q) = q[1] /\ DOMAIN q = 1..Len(q) /\ Len(q) \in Nat
    BY <1>1, TailFacts
  <1>4. IsJob(x) /\ x.kind = kind /\ x.request = q[1].request
    <2>1. PICK k, o : q[1] = [kind |-> k, request |-> o] /\ o.doc \in Docs
      BY <1>1, <1>3 DEF IsJob
    <2> QED
      BY <2>1 DEF IsJob
  <1> HIDE DEF x, q
  <1>5. /\ IsSeq(r) /\ DOMAIN r = DOMAIN q /\ r[1] = x
        /\ \A i \in DOMAIN q : i # 1 => r[i] = q[i]
    BY <1>1, ChangedHead
  <1> HIDE DEF r
  <1>6. \A i \in DOMAIN r : IsJob(r[i])
    BY <1>1, <1>4, <1>5
  <1>7. IsController(b)
    BY <1>2, <1>5, <1>6 DEF IsController
  <1> QED
    BY <1>1, <1>2, <1>3, <1>4, <1>5, <1>7 DEF q, b, IsJob, HeadTurned

\* The first job is done: a discard behind the last write is still behind it.
LEMMA HeadTaken ==
    ASSUME NEW a, IsController(a), a.jobs # <<>>
    PROVE  LET b == [a EXCEPT !.jobs = Tail(@)] IN
           /\ IsController(b) /\ b.pending = a.pending /\ b.tracked = a.tracked
           /\ \A d : Rewritten(b, d) => Rewritten(a, d)
           /\ Head(a.jobs).kind # "discard" => \A d : Cleared(a, d) => Cleared(b, d)
  <1> DEFINE q == a.jobs
             r == Tail(q)
             b == [a EXCEPT !.jobs = Tail(@)]
  <1>1. IsSeq(q) /\ q # <<>> /\ \A i \in DOMAIN q : IsJob(q[i])
    BY DEF IsController
  <1>2. b = [timer |-> a.timer, current |-> a.current, pending |-> a.pending,
             tracked |-> a.tracked, deferred |-> a.deferred, jobs |-> r]
    <2>1. PICK t, c, p, k, f, j : a = [timer |-> t, current |-> c, pending |-> p,
                                       tracked |-> k, deferred |-> f, jobs |-> j]
      BY DEF IsController
    <2>2. b = [a EXCEPT !.jobs = r]
      OBVIOUS
    <2> HIDE DEF b, r
    <2> QED
      BY <2>1, <2>2
  <1> HIDE DEF b, q
  <1>3. /\ IsSeq(r) /\ Len(q) \in Nat \ {0}
        /\ DOMAIN r = 1..(Len(q) - 1) /\ DOMAIN q = 1..Len(q)
        /\ \A i \in DOMAIN r : r[i] = q[i + 1]
        /\ Head(q) = q[1]
    BY <1>1, TailFacts
  <1> HIDE DEF r
  <1>4. \A i \in DOMAIN r : IsJob(r[i]) /\ i + 1 \in DOMAIN q
    BY <1>1, <1>3
  <1>5. IsController(b)
    BY <1>2, <1>3, <1>4 DEF IsController
  <1>6. \A d : \A i \in DOMAIN r : Writes(b, d, i) => i + 1 \in DOMAIN q /\ Writes(a, d, i + 1)
    BY <1>2, <1>3, <1>4 DEF Writes, q
  <1>7. \A d : Rewritten(b, d) => Rewritten(a, d)
    BY <1>2, <1>6 DEF Rewritten, q
  <1>8. ASSUME Head(q).kind # "discard", NEW d, Cleared(a, d)
        PROVE  Cleared(b, d)
    <2>1. PICK i \in DOMAIN q :
              /\ q[i].kind = "discard" /\ q[i].request.doc = d
              /\ \A j \in DOMAIN q : j > i => ~Writes(a, d, j)
      BY <1>8 DEF Cleared, q
    <2>2. i - 1 \in DOMAIN r /\ r[i - 1] = q[i]
      BY <1>3, <1>8, <2>1
    <2>3. \A j \in DOMAIN r : j > i - 1 => ~Writes(b, d, j)
      BY <1>3, <1>6, <2>1
    <2> QED
      BY <1>2, <2>1, <2>2, <2>3 DEF Cleared
  <1> QED
    BY <1>2, <1>5, <1>7, <1>8 DEF b, q

\* A step of the worker; what it leaves is attended.
LEMMA WorkerAttends ==
    ASSUME RecoveryInv, UNCHANGED <<file, backup, reported, session, ui, stale, loads>>, auto.jobs # <<>>,
           IsController(auto'), auto'.pending = auto.pending, auto'.tracked = auto.tracked,
           record' = [d \in Docs |-> record'[d]], touched' \subseteq Docs,
           \A d \in Docs : Left(d)' => Left(d) /\ (Cleared(auto, d) => Cleared(auto', d))
    PROVE  RecoveryInv'
  <1>1. Running /\ ui.phase # "down"
    BY InvFacts DEF RecoveryInv, Settling
  <1>2. Attended'
    BY <1>1 DEF RecoveryInv, Attended, Held, Unsaved
  <1>3. Types'
    BY DEF RecoveryInv, Types, IsUi, KnownFiles
  <1>4. Queued(auto', session', stale') /\ OnDisk'
    BY DEF RecoveryInv, Queued, OnDisk
  <1>5. Settling'
    BY <1>1, AtFacts DEF RecoveryInv, Settling, Ended, Dirty
  <1> QED
    BY <1>2, <1>3, <1>4, <1>5 DEF RecoveryInv

\* The recovery file is written.
LEMMA WriteRecoveryStep ==
    ASSUME RecoveryInv, Bounded, WriteRecovery
    PROVE  RecoveryInv'
  <1> DEFINE h == FirstJob.request.doc
  <1>1. /\ UNCHANGED <<file, backup, reported, session, ui, stale, loads>>
        /\ auto.jobs # <<>> /\ FirstJob.kind = "graph"
        /\ record' = [record EXCEPT ![h] = FirstJob.request.version]
        /\ auto' = [auto EXCEPT !.jobs[1].kind = "manifest"]
        /\ touched' = touched \cup {h}
    BY DEF WriteRecovery, bounds
  <1>2. /\ IsController(auto') /\ auto'.pending = auto.pending /\ auto'.tracked = auto.tracked
        /\ DOMAIN auto'.jobs = DOMAIN auto.jobs
        /\ 1 \in DOMAIN auto.jobs /\ FirstJob = auto.jobs[1] /\ h \in Docs
        /\ auto'.jobs[1].kind = "manifest"
        /\ \A i \in DOMAIN auto.jobs : i # 1 => auto'.jobs[i] = auto.jobs[i]
    <2>1. HeadTurned(auto, [auto EXCEPT !.jobs[1].kind = "manifest"], "manifest")
      BY <1>1, InvFacts, HeadChanged
    <2>2. HeadTurned(auto, auto', "manifest")
      BY <1>1, <2>1, Zenon
    <2> QED
      BY <2>2 DEF HeadTurned, FirstJob
  <1>3. record' = [d \in Docs |-> record'[d]] /\ \A d \in Docs : d # h => record'[d] = record[d]
    BY <1>1 DEF RecoveryInv, Types
  <1>4. touched' \subseteq Docs
    BY <1>1, <1>2 DEF RecoveryInv, Types
  <1>5. Rewritten(auto, h)
    BY <1>1, <1>2 DEF Rewritten, Writes
  <1> HIDE DEF h
  <1>6. \A d : \A i \in DOMAIN auto.jobs : Writes(auto', d, i) => Writes(auto, d, i)
    BY <1>2 DEF Writes
  <1>7. \A d \in Docs : Left(d)' => Left(d)
    BY <1>1, <1>2, <1>3, <1>5, <1>6 DEF Left, Rewritten
  <1>8. ASSUME NEW d, Cleared(auto, d)
        PROVE  Cleared(auto', d)
    <2>1. PICK i \in DOMAIN auto.jobs :
              /\ auto.jobs[i].kind = "discard" /\ auto.jobs[i].request.doc = d
              /\ \A j \in DOMAIN auto.jobs : j > i => ~Writes(auto, d, j)
      BY <1>8 DEF Cleared
    <2>2. auto'.jobs[i] = auto.jobs[i]
      BY <1>1, <1>2, <2>1
    <2> QED
      BY <1>2, <1>6, <2>1, <2>2 DEF Cleared
  <1> QED
    BY <1>1, <1>2, <1>3, <1>4, <1>7, <1>8, WorkerAttends

\* A job that ends without having cleared anything.
LEMMA JobDone ==
    ASSUME RecoveryInv, UNCHANGED <<file, backup, reported, session, ui, stale, loads, record, touched>>,
           auto.jobs # <<>>, auto' = [auto EXCEPT !.jobs = Tail(@)], FirstJob.kind # "discard"
    PROVE  RecoveryInv'
  <1>1. /\ IsController(auto') /\ auto'.pending = auto.pending /\ auto'.tracked = auto.tracked
        /\ \A d : Rewritten(auto', d) => Rewritten(auto, d)
        /\ \A d : Cleared(auto, d) => Cleared(auto', d)
    BY InvFacts, HeadTaken DEF FirstJob
  <1>2. \A d \in Docs : Left(d)' => Left(d)
    BY <1>1 DEF Left
  <1>3. record' = [d \in Docs |-> record'[d]] /\ touched' \subseteq Docs
    BY DEF RecoveryInv, Types
  <1> QED
    BY <1>1, <1>2, <1>3, WorkerAttends

\* The manifest is written.
LEMMA WriteManifestStep ==
    ASSUME RecoveryInv, Bounded, WriteManifest
    PROVE  RecoveryInv'
  BY JobDone DEF WriteManifest, Done, bounds

\* An autosave fails: an older record may stay, and stays tracked.
LEMMA WriteFailsStep ==
    ASSUME RecoveryInv, Bounded, WriteFails
    PROVE  RecoveryInv'
  BY JobDone DEF WriteFails, Done, disk

\* A discard removes the record, which nothing behind it writes.
LEMMA UnlinkStep ==
    ASSUME RecoveryInv, Bounded, Unlink
    PROVE  RecoveryInv'
  <1> DEFINE h == FirstJob.request.doc
  <1>1. CASE /\ FirstJob.kind = "discard" /\ auto.jobs # <<>>
             /\ UNCHANGED <<file, backup, reported, session, ui, stale, loads, touched>>
             /\ record' = [record EXCEPT ![h] = Nil]
             /\ auto' = [auto EXCEPT !.jobs[1].kind = "forget"]
    <2>1. /\ IsController(auto') /\ auto'.pending = auto.pending /\ auto'.tracked = auto.tracked
          /\ DOMAIN auto'.jobs = DOMAIN auto.jobs
          /\ DOMAIN auto.jobs = 1..Len(auto.jobs) /\ Len(auto.jobs) \in Nat
          /\ 1 \in DOMAIN auto.jobs /\ FirstJob = auto.jobs[1] /\ h \in Docs
          /\ auto'.jobs[1].kind = "forget"
          /\ \A i \in DOMAIN auto.jobs : i # 1 => auto'.jobs[i] = auto.jobs[i]
      <3>1. HeadTurned(auto, [auto EXCEPT !.jobs[1].kind = "forget"], "forget")
        BY <1>1, InvFacts, HeadChanged
      <3>2. HeadTurned(auto, auto', "forget")
        BY <1>1, <3>1, Zenon
      <3> QED
        BY <3>2 DEF HeadTurned, FirstJob
    <2>2. /\ record' = [d \in Docs |-> record'[d]] /\ record'[h] = Nil
          /\ \A d \in Docs : d # h => record'[d] = record[d]
      BY <1>1, <2>1 DEF RecoveryInv, Types
    <2>3. touched' \subseteq Docs
      BY <1>1 DEF RecoveryInv, Types
    <2>4. \A d : \A i \in DOMAIN auto.jobs : Writes(auto', d, i) => i # 1 /\ Writes(auto, d, i)
      BY <2>1 DEF Writes
    <2>5. \A d \in Docs : Left(d)' => Left(d)
      BY <1>1, <2>1, <2>2, <2>4 DEF Left, Rewritten
    <2>6. ASSUME NEW d \in Docs, Left(d)', Cleared(auto, d)
          PROVE  Cleared(auto', d)
      <3>1. PICK i \in DOMAIN auto.jobs :
                /\ auto.jobs[i].kind = "discard" /\ auto.jobs[i].request.doc = d
                /\ \A j \in DOMAIN auto.jobs : j > i => ~Writes(auto, d, j)
        BY <2>6 DEF Cleared
      <3>2. i # 1
        <4> SUFFICES ASSUME i = 1
                     PROVE  ~Left(d)'
          BY <2>6
        <4>1. d = h
          BY <2>1, <3>1
        <4>2. \A j \in DOMAIN auto.jobs : ~Writes(auto', d, j)
          BY <2>1, <2>4, <3>1
        <4> QED
          BY <2>1, <2>2, <4>1, <4>2 DEF Left, Rewritten
      <3> QED
        BY <2>1, <2>4, <3>1, <3>2 DEF Cleared
    <2> QED
      BY <1>1, <2>1, <2>2, <2>3, <2>5, <2>6, WorkerAttends
  <1>2. CASE FirstJob.kind = "forget"
    BY <1>2, JobDone DEF Unlink, Done, bounds
  <1> QED
    BY <1>1, <1>2 DEF Unlink, bounds

-----------------------------------------------------------------------------
(* Theorems.                                                                *)

\* The first run starts with no file and nothing tracked.
LEMMA RecoveryInitInv ==
    ASSUME Bounded, RecoveryInit
    PROVE  RecoveryInv
  <1>1. IsSession(session) /\ ~Dirty(session)
    <2> DEFINE n == 1
    <2>1. n \in Nat \ {0}
      OBVIOUS
    <2>2. PICK d \in Docs : session = Document(d, n, Nil, 0, FALSE)
      BY DEF RecoveryInit
    <2> HIDE DEF n
    <2>3. LET t == Document(d, n, Nil, 0, FALSE) IN IsSession(t) /\ ~Dirty(t)
      BY <2>1, DocumentOf, ZenonT(30)
    <2> QED
      BY <2>2, <2>3
  <1>2. IsUi /\ ui.phase = "ready" /\ ui # At("down")
    BY AtFacts DEF RecoveryInit, IsUi
  <1>3. Types
    BY <1>1, <1>2, NoAutosaveFacts DEF RecoveryInit, Types, KnownFiles
  <1>4. Attended /\ Queued(auto, session, stale)
    BY NoAutosaveFacts DEF RecoveryInit, Attended, Left, Rewritten, Queued
  <1>5. Settling /\ OnDisk
    BY <1>1, <1>2, NoAutosaveFacts DEF RecoveryInit, Settling, Ended, OnDisk
  <1> QED
    BY <1>3, <1>4, <1>5 DEF RecoveryInv

\* Every step of the window, the worker, a crash and a restart.
LEMMA RecoveryStepInv ==
    ASSUME Bounded, RecoveryInv, [RecoveryNext]_recoveryVars
    PROVE  RecoveryInv'
  <1>1. ASSUME UNCHANGED recoveryVars
        PROVE  RecoveryInv'
    BY <1>1 DEF recoveryVars, disk, bounds, RecoveryInv, Types, IsUi, KnownFiles, Attended, Running, Left, Unsaved,
                Settling, Ended, OnDisk
  <1>2. ASSUME User PROVE RecoveryInv'
    BY <1>2, EditStep, UndoOrRedoStep, AskStep, AnswerStep, SaveStep DEF User
  <1>3. ASSUME Writing PROVE RecoveryInv'
    BY <1>3, CopyBackupStep, ReplaceDestinationStep, SaveFailsStep DEF Writing
  <1>4. ASSUME EventLoop PROVE RecoveryInv'
    BY <1>4, OnFinishedStep, AutosaveDueStep DEF EventLoop
  <1>5. ASSUME Worker PROVE RecoveryInv'
    BY <1>5, WriteRecoveryStep, WriteManifestStep, WriteFailsStep, UnlinkStep DEF Worker
  <1>6. ASSUME Offer \/ Crash \/ Exit \/ Restart PROVE RecoveryInv'
    BY <1>6, OfferStep, CrashStep, ExitStep, RestartStep
  <1>7. ASSUME Idle PROVE RecoveryInv'
    BY <1>1, <1>7 DEF Idle
  <1> QED
    BY <1>1, <1>2, <1>3, <1>4, <1>5, <1>6, <1>7 DEF RecoveryNext

\* After an exit nothing is tracked and no job is left, so nothing of the run is.
LEMMA RecoveryInvHolds ==
    ASSUME RecoveryInv
    PROVE  NothingLostNothingLeft
  <1>1. SavedWorkSurvives
    BY DEF RecoveryInv, OnDisk, SavedWorkSurvives
  <1>2. ASSUME ui = At("down"), ~Dirty(session), NEW d \in touched \ stale
        PROVE  record[d] = Nil
    <2>1. d \in Docs \ stale
      BY DEF RecoveryInv, Types
    <2>2. Running /\ Ended /\ ui.phase = "down"
      BY <1>2, AtFacts DEF Running, Ended
    <2>3. auto.jobs = <<>> /\ auto.tracked[d] = 0
      BY <1>2, <2>1, <2>2 DEF RecoveryInv, Settling
    <2>4. ~Held(auto, d)
      BY <2>3 DEF Held, Cleared
    <2>5. ~Unsaved(d)
      BY <1>2, InvFacts, CleanFacts DEF Unsaved
    <2>6. ~Left(d)
      BY <2>1, <2>2, <2>4, <2>5 DEF RecoveryInv, Attended
    <2> QED
      BY <2>6 DEF Left
  <1> QED
    BY <1>1, <1>2 DEF NothingLostNothingLeft, CleanExitLeavesNothing

\* Whatever is edited, saved, replaced, recovered or closed while autosaves run, fail and are put
\* off, and wherever the process dies: what was last reported saved to a path is in its file or its
\* backup (write_text_atomically, graph_io.py:200), and an exit with a clean document leaves no
\* recovery file of this run (AutosaveController.close, autosave_controller.py:165).
THEOREM RecoveryKeepsAndClears == RecoverySpec => []NothingLostNothingLeft
  <1>1. RecoveryInit => RecoveryInv
    BY RecoveryInitInv, RecoveryAssumption
  <1>2. RecoveryInv /\ [RecoveryNext]_recoveryVars => RecoveryInv'
    BY RecoveryStepInv, RecoveryAssumption
  <1>3. RecoveryInv => NothingLostNothingLeft
    BY RecoveryInvHolds
  <1> QED
    BY <1>1, <1>2, <1>3, PTL DEF RecoverySpec
=============================================================================

----------------------------- MODULE AtomicFile -----------------------------
(***************************************************************************)
(* write_text_atomically (persistence/graph_io.py): a temporary file, a     *)
(* backup of the file that is there, and two renames, against failures of   *)
(* any step, the end of the process and the loss of power.                  *)
(*                                                                          *)
(* A file is [data, synced]: which save it holds and whether it is on the   *)
(* disk.  The directory maps names to files; what a loss of power leaves of *)
(* it is the directory now or as it was last made durable.                  *)
(***************************************************************************)
EXTENDS Integers

CONSTANTS MaxSaves,   \* bound on saves
          MaxFaults   \* bound on failures and crashes

VARIABLES
  posix,      \* the directory itself can be made durable, never changed
  pc,         \* the next step of the save in progress, "none" outside
  directory,  \* name -> file
  durable,    \* the directory a loss of power is sure to leave
  saving,     \* number of the save in progress or of the last one
  reportedSave,   \* the last save that was reportedSave as done
  retain,     \* retain_backup
  faults

fileVars == <<posix, pc, directory, durable, saving, reportedSave, retain, faults>>

Names == {"graph", "backup", "temporary", "backup_temporary"}
NoFile == [data |-> 0, synced |-> TRUE]
Torn == -1      \* content of a file of which a part was written

SaveInit ==
  /\ pc = "none" /\ directory = [n \in Names |-> NoFile] /\ durable = directory
  /\ saving = 0 /\ reportedSave = 0 /\ faults = 0
  /\ retain \in BOOLEAN /\ posix \in BOOLEAN

Put(dir, name, data, synced) == [dir EXCEPT ![name] = [data |-> data, synced |-> synced]]
Rename(dir, from, to) == [dir EXCEPT ![to] = dir[from], ![from] = NoFile]

\* A new temporary file; one that an earlier process left has another name.
Begin ==
  /\ pc = "none" /\ saving < MaxSaves
  /\ saving' = saving + 1
  /\ directory' = Put(directory, "temporary", saving + 1, FALSE)
  /\ pc' = "sync"
  /\ UNCHANGED <<durable, reportedSave, retain, posix, faults>>

\* Mutant of SyncTemporary: the content is left to the operating system.
FlushTemporary ==
  /\ pc = "sync"
  /\ pc' = IF retain /\ directory["graph"] # NoFile THEN "copy" ELSE "replace"
  /\ UNCHANGED <<directory, durable, saving, reportedSave, retain, posix, faults>>

SyncTemporary ==
  /\ pc = "sync"
  /\ directory' = Put(directory, "temporary", saving, TRUE)
  /\ pc' = IF retain /\ directory["graph"] # NoFile THEN "copy" ELSE "replace"
  /\ UNCHANGED <<durable, saving, reportedSave, retain, posix, faults>>

CopyToBackup ==
  /\ pc = "copy"
  /\ directory' = Put(directory, "backup_temporary", directory["graph"].data, TRUE)
  /\ pc' = "replace_backup"
  /\ UNCHANGED <<durable, saving, reportedSave, retain, posix, faults>>

ReplaceBackup ==
  /\ pc = "replace_backup"
  /\ directory' = Rename(directory, "backup_temporary", "backup")
  /\ pc' = "sync_backup"
  /\ UNCHANGED <<durable, saving, reportedSave, retain, posix, faults>>

\* _fsync_directory: what it cannot do it leaves.
SyncDirectory(from, to) ==
  /\ pc = from /\ pc' = to
  /\ durable' = IF posix THEN directory ELSE durable
  /\ UNCHANGED <<directory, saving, retain, posix, faults>>

SyncBackup == SyncDirectory("sync_backup", "replace") /\ UNCHANGED reportedSave

ReplaceGraph ==
  /\ pc = "replace"
  /\ directory' = Rename(directory, "temporary", "graph")
  /\ pc' = "sync_graph"
  /\ UNCHANGED <<durable, saving, reportedSave, retain, posix, faults>>

SaveDone == SyncDirectory("sync_graph", "none") /\ reportedSave' = saving

\* A step raises: the temporary files that are known by name go.
Fails ==
  /\ pc \in {"sync", "copy", "replace_backup", "replace"} /\ faults < MaxFaults
  /\ faults' = faults + 1 /\ pc' = "none"
  /\ directory' = CASE pc = "sync" -> directory
                    [] pc = "copy" -> Put(directory, "temporary", 0, TRUE)
                    [] OTHER -> Put(Put(directory, "temporary", 0, TRUE), "backup_temporary", 0, TRUE)
  /\ UNCHANGED <<durable, saving, reportedSave, retain, posix>>

\* The process ends.
SaverDies ==
  /\ pc # "none" /\ faults < MaxFaults
  /\ faults' = faults + 1 /\ pc' = "none"
  /\ UNCHANGED <<directory, durable, saving, reportedSave, retain, posix>>

\* The operating system writes the directory back when it likes.
WriteBack ==
  /\ durable # directory
  /\ durable' = directory
  /\ UNCHANGED <<pc, directory, saving, reportedSave, retain, posix, faults>>

\* What is not on the disk may be gone, or there in part.
Survives(f) == IF f.synced THEN {f} ELSE {[f EXCEPT !.synced = TRUE], [data |-> Torn, synced |-> TRUE]}

PowerLoss ==
  /\ faults < MaxFaults /\ faults' = faults + 1 /\ pc' = "none"
  /\ \E dir \in {directory, durable} :
       \E left \in [Names -> UNION {Survives(dir[n]) : n \in Names}] :
         /\ \A n \in Names : left[n] \in Survives(dir[n])
         /\ directory' = left /\ durable' = left
  /\ UNCHANGED <<saving, reportedSave, retain, posix>>

SaveNext ==
  \/ Begin \/ SyncTemporary \/ CopyToBackup \/ ReplaceBackup \/ SyncBackup \/ ReplaceGraph \/ SaveDone
  \/ Fails \/ SaverDies \/ WriteBack \/ PowerLoss

SaveSpec == SaveInit /\ [][SaveNext]_fileVars

-----------------------------------------------------------------------------
(* Properties.                                                              *)

\* The graph and its backup are always whole (write_text_atomically), and
\* where the directory can be made durable a loss of power cannot revert the
\* graph to a save before the last that was reportedSave as done, nor take the
\* only copy of it.
SaveIsAtomic ==
  /\ \A n \in {"graph", "backup"} : directory[n].data # Torn
  /\ posix => directory["graph"].data >= reportedSave /\ durable["graph"].data >= reportedSave
  /\ directory["backup"].data <= directory["graph"].data

=============================================================================

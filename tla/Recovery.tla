------------------------------ MODULE Recovery ------------------------------
(***************************************************************************)
(* A document and its files: DocumentSession's lifecycle (ui/session.py),  *)
(* DocumentLifecycleController (ui/document_lifecycle.py),                 *)
(* AutosaveController (ui/autosave_controller.py) with its single worker,  *)
(* AutosaveStore (persistence/autosave.py), the atomic writes of           *)
(* persistence/graph_io.py and the recent files of                         *)
(* ui/application_settings.py.                                             *)
(*                                                                         *)
(* The content of a document is a version; every edit makes a new one. A   *)
(* crash may come between any two steps and leaves the disk, on which a    *)
(* replaced file is always whole. A dialog runs a nested event loop:       *)
(* timers and signals go on, edits do not.                                 *)
(***************************************************************************)
EXTENDS Naturals, Sequences, FiniteSets, SequencesExt

CONSTANTS
    Docs,           \* document identifiers
    Paths,          \* files the user saves to
    RecentLimit,    \* recent_file_limit
    MaxEdits,       \* bound: edits, over all runs of the program
    MaxLoads,       \* bound: documents made or loaded in a run
    MaxClicks,      \* bound: edits, undos, saves and replacements, over all runs
    MaxCrashes,     \* bound: crashes
    MaxFailures,    \* bound: writes that fail
    Nil

\* Nil is no version, object or purpose.
Bounded ==
    /\ IsFiniteSet(Docs)
    /\ Nil \notin Nat /\ Nil \notin {"new", "generate", "close"} \cup Paths
ASSUME RecoveryAssumption == Bounded

VARIABLES
    file, backup,       \* content of each path and of its .bak
    record, manifest,   \* recovery file and manifest of each document
    fresher,            \* the paths each recovery file is newer than
    recent,             \* recentFiles of the settings
    session,            \* DocumentSession
    auto,               \* AutosaveController and the queue of its executor
    signals,            \* _finished, posted to the UI thread
    ui,                 \* where the UI thread is
    told,               \* last autosave reported, and how it ended
    reported,           \* content last reported saved to each path
    touched,            \* documents autosaved or recovered in this run
    stale,              \* documents undone to clean while an autosave of them was queued
    edits, loads, clicks, crashes, failures

disk == <<file, backup, record, manifest, fresher, recent>>
bounds == <<edits, loads, clicks, crashes, failures>>
recoveryVars == <<disk, session, auto, signals, ui, told, reported, touched, stale, bounds>>

SavedContent == [doc : Docs, version : 0..MaxEdits]
Request == [doc : Docs, object : 0..(MaxLoads + 1), version : 0..MaxEdits, path : Paths \cup {Nil}]
Job == [kind : {"graph", "manifest", "discard", "forget"}, request : Request]
Purposes == {"new", "generate", "close"} \cup Paths
UiPhases == {"offering", "ready", "asking", "backup", "destination", "closed", "down"}

RecoveryTypeOK ==
    /\ file \in [Paths -> SavedContent \cup {Nil}] /\ backup \in [Paths -> SavedContent \cup {Nil}]
    /\ record \in [Docs -> 0..MaxEdits \cup {Nil}] /\ manifest \in [Docs -> Paths \cup {Nil}]
    /\ fresher \in [Docs -> SUBSET Paths]
    /\ recent \in Seq(Paths) /\ Len(recent) <= RecentLimit
    /\ session.doc \in Docs /\ session.object \in 1..(MaxLoads + 1) /\ session.path \in Paths \cup {Nil}
    /\ session.history \in Seq(0..MaxEdits) /\ session.index \in DOMAIN session.history
    /\ session.clean \in 0..Len(session.history)
    /\ auto.timer \in BOOLEAN
    /\ auto.current \in Request \cup {Nil} /\ auto.pending \in Request \cup {Nil}
    /\ auto.tracked \in [Docs -> 0..(MaxLoads + 1)] /\ auto.deferred \subseteq Docs
    /\ auto.jobs \in Seq(Job)
    /\ signals \in Seq([request : Request, outcome : {"saved", "failed"}])
    /\ ui.phase \in UiPhases /\ ui.purpose \in Purposes \cup {Nil} /\ ui.path \in Paths \cup {Nil}
    /\ ui.offers \subseteq Docs
    /\ told \in [doc : Docs \cup {Nil}, version : 0..MaxEdits, outcome : {"saved", "failed", Nil}]
    /\ reported \in [Paths -> SavedContent \cup {Nil}] /\ touched \subseteq Docs /\ stale \subseteq Docs

-----------------------------------------------------------------------------
\* DocumentSession and its QUndoStack. `clean` is 0 where no position of the stack is clean.

Dirty(s) == s.index # s.clean
Version(s) == s.history[s.index]
Snapshot(s) == [doc |-> s.doc, version |-> Version(s)]
Commands(s) == Len(s.history) - 1

\* A document as GraphDocument() or from_snapshot makes it, clean or dirty.
Document(d, object, path, v, dirty) ==
    [doc |-> d, object |-> object, path |-> path, history |-> <<v>>, index |-> 1,
     clean |-> IF dirty THEN 0 ELSE 1]

\* QUndoStack.push, undo, redo and setClean.
PushCommand(s, v) ==
    [s EXCEPT !.history = Append(SubSeq(@, 1, s.index), v), !.index = @ + 1,
              !.clean = IF @ > s.index THEN 0 ELSE @]
Seek(s, i) == [s EXCEPT !.index = i]
SetClean(s) == [s EXCEPT !.clean = s.index]

\* uuid4: an identifier that no file, record, job or open document has; which one is immaterial.
Unused == {d \in Docs :
    /\ d # session.doc /\ record[d] = Nil /\ manifest[d] = Nil
    /\ \A p \in Paths : (file[p] # Nil => file[p].doc # d) /\ (backup[p] # Nil => backup[p].doc # d)
    /\ auto.tracked[d] = 0 /\ \A i \in DOMAIN auto.jobs : auto.jobs[i].request.doc # d}
Fresh(d) == d \in Unused /\ \A e \in Unused : d <= e

-----------------------------------------------------------------------------
\* AutosaveController. Its operations take the controller a and give the controller after them.

RequestOf(s) == [doc |-> s.doc, object |-> s.object, version |-> Version(s), path |-> s.path]
Submit(a, kind, request) == [a EXCEPT !.jobs = Append(@, [kind |-> kind, request |-> request])]
Start(a, request) == [Submit(a, "graph", request) EXCEPT !.current = request]

\* request(): a set keeps the identifier object it already has.
RequestAutosave(a, request) ==
    LET tracking == [a EXCEPT !.tracked[request.doc] = IF @ = 0 THEN request.object ELSE @] IN
    IF a.current # Nil THEN [tracking EXCEPT !.pending = request] ELSE Start(tracking, request)

AutosaveNow(a, s) == IF Dirty(s) THEN RequestAutosave(a, RequestOf(s)) ELSE a
Schedule(a, s) == IF Dirty(s) THEN [a EXCEPT !.timer = TRUE] ELSE a

AutosaveActiveFor(a, d) ==
    \/ a.current # Nil /\ a.current.doc = d
    \/ a.pending # Nil /\ a.pending.doc = d

\* _discard_record, of some documents in an order that is left open.
Discard(d) == [kind |-> "discard", request |-> [doc |-> d, object |-> 0, version |-> 0, path |-> Nil]]
DiscardRecords(a, ds) ==
    LET order == SetToSeq(ds) IN
    [a EXCEPT !.tracked = [d \in Docs |-> IF d \in ds THEN 0 ELSE @[d]],
              !.deferred = @ \ ds,
              !.jobs = @ \o [i \in DOMAIN order |-> Discard(order[i])]]
DiscardRecord(a, d) == DiscardRecords(a, {d})

\* discard(): behind a running save of the same document the discard is put off.
DiscardOf(a, d, object) ==
    LET dropped == IF a.pending # Nil /\ a.pending.doc = d THEN [a EXCEPT !.pending = Nil] ELSE a IN
    IF AutosaveActiveFor(dropped, d)
    THEN [dropped EXCEPT !.tracked[d] = IF @ = 0 THEN object ELSE @, !.deferred = @ \cup {d}]
    ELSE DiscardRecord(dropped, d)

\* _flush_settled_discards: the record of a clean document first, then what was put off.
FlushSettledDiscards(a, s) ==
    LET own == IF ~Dirty(s) /\ a.tracked[s.doc] # 0 THEN DiscardRecord(a, s.doc) ELSE a
        settled == {d \in own.deferred : ~AutosaveActiveFor(own, d)}
    IN  DiscardRecords(own, settled)

\* _on_document_dirty_changed.
DirtyChanged(a, s) ==
    IF Dirty(s) THEN Schedule(a, s) ELSE FlushSettledDiscards([a EXCEPT !.timer = FALSE], s)

\* cleanChanged, where the step from s to t changes it, then `changed`.
Notify(a, s, t) == Schedule(IF Dirty(s) # Dirty(t) THEN DirtyChanged(a, t) ELSE a, t)

\* The document s is replaced by t. clear() tells of a clean stack only where it has commands;
\* setClean tells where the stack is still not clean, resetClean where it is.
Replace(a, s, t) ==
    LET cleared == IF Dirty(s) /\ (Commands(s) > 0 \/ ~Dirty(t))
                   THEN DirtyChanged(a, SetClean(t)) ELSE a
    IN  Schedule(IF Dirty(t) THEN Schedule(cleared, t) ELSE cleared, t)

\* close(): the record of a dirty document stays, what else this run tracked is discarded.
CloseAutosave(a, s) ==
    LET started == IF a.pending # Nil THEN Start([a EXCEPT !.pending = Nil], a.pending) ELSE a
        protected == IF Dirty(s) THEN s.object ELSE Nil
        dropped == {d \in Docs : a.tracked[d] # 0 /\ ~(d = s.doc /\ a.tracked[d] = protected)}
    IN  [DiscardRecords(started, dropped) EXCEPT !.timer = FALSE]

-----------------------------------------------------------------------------
\* The worker of the executor: AutosaveStore.save and discard, a file at a time.

FirstJob == Head(auto.jobs)
Done == [auto EXCEPT !.jobs = Tail(@)]
Post(outcome) == signals' = Append(signals, [request |-> FirstJob.request, outcome |-> outcome])

WriteRecovery ==
    /\ auto.jobs # <<>> /\ FirstJob.kind = "graph"
    /\ record' = [record EXCEPT ![FirstJob.request.doc] = FirstJob.request.version]
    /\ fresher' = [fresher EXCEPT ![FirstJob.request.doc] = Paths]
    /\ auto' = [auto EXCEPT !.jobs[1].kind = "manifest"]
    /\ touched' = touched \cup {FirstJob.request.doc}
    /\ UNCHANGED <<file, backup, manifest, recent, session, signals, ui, told, reported, stale, bounds>>

WriteManifest ==
    /\ auto.jobs # <<>> /\ FirstJob.kind = "manifest"
    /\ manifest' = [manifest EXCEPT ![FirstJob.request.doc] = FirstJob.request.path]
    /\ auto' = Done /\ Post("saved")
    /\ UNCHANGED <<file, backup, record, fresher, recent, session, ui, told, reported, touched, stale, bounds>>

WriteFails ==
    /\ auto.jobs # <<>> /\ FirstJob.kind \in {"graph", "manifest"} /\ failures < MaxFailures
    /\ failures' = failures + 1
    /\ auto' = Done /\ Post("failed")
    /\ UNCHANGED <<disk, session, ui, told, reported, touched, stale, edits, loads, clicks, crashes>>

Unlink ==
    /\ auto.jobs # <<>>
    /\ \/ /\ FirstJob.kind = "discard"
          /\ record' = [record EXCEPT ![FirstJob.request.doc] = Nil]
          /\ auto' = [auto EXCEPT !.jobs[1].kind = "forget"] /\ UNCHANGED manifest
       \/ /\ FirstJob.kind = "forget"
          /\ manifest' = [manifest EXCEPT ![FirstJob.request.doc] = Nil]
          /\ auto' = Done /\ UNCHANGED record
    /\ UNCHANGED <<file, backup, fresher, recent, session, signals, ui, told, reported, touched, stale, bounds>>

Worker == WriteRecovery \/ WriteManifest \/ WriteFails \/ Unlink

-----------------------------------------------------------------------------
\* The event loop of the UI thread, nested or not.

Loops == ui.phase \in {"offering", "ready", "asking"}
At(phase) == [phase |-> phase, purpose |-> Nil, path |-> Nil, offers |-> {}]

\* Mutant of OnFinished: the queued request is dropped.
OnFinishedOnce ==
    /\ Loops /\ signals # <<>>
    /\ auto' = [FlushSettledDiscards([auto EXCEPT !.current = Nil], session) EXCEPT !.pending = Nil]
    /\ told' = [doc |-> Head(signals).request.doc, version |-> Head(signals).request.version,
                outcome |-> Head(signals).outcome]
    /\ signals' = Tail(signals)
    /\ UNCHANGED <<disk, session, ui, reported, touched, stale, bounds>>

\* _on_finished: what was put off is flushed before the queued request starts.
OnFinished ==
    /\ Loops /\ signals # <<>>
    /\ LET settled == FlushSettledDiscards([auto EXCEPT !.current = Nil], session) IN
       auto' = IF settled.pending = Nil THEN settled
               ELSE Start([settled EXCEPT !.pending = Nil], settled.pending)
    /\ told' = [doc |-> Head(signals).request.doc, version |-> Head(signals).request.version,
                outcome |-> Head(signals).outcome]
    /\ signals' = Tail(signals)
    /\ UNCHANGED <<disk, session, ui, reported, touched, stale, bounds>>

AutosaveDue ==
    /\ Loops /\ auto.timer
    /\ auto' = AutosaveNow([auto EXCEPT !.timer = FALSE], session)
    /\ UNCHANGED <<disk, session, signals, ui, told, reported, touched, stale, bounds>>

\* A command is pushed on the undo stack, undone or redone.
Edit ==
    /\ ui.phase = "ready" /\ edits < MaxEdits /\ clicks < MaxClicks
    /\ edits' = edits + 1 /\ clicks' = clicks + 1
    /\ session' = PushCommand(session, edits + 1)
    /\ auto' = Notify(auto, session, session')
    /\ UNCHANGED <<disk, signals, ui, told, reported, touched, stale, loads, crashes, failures>>

UndoOrRedo ==
    /\ ui.phase = "ready" /\ clicks < MaxClicks
    /\ clicks' = clicks + 1
    /\ \E i \in {session.index - 1, session.index + 1} \cap DOMAIN session.history :
          session' = Seek(session, i)
    /\ auto' = Notify(auto, session, session')
    /\ stale' = IF ~Dirty(session') /\ auto.pending # Nil /\ auto.pending.doc = session.doc
                THEN stale \cup {session.doc} ELSE stale
    /\ UNCHANGED <<disk, signals, ui, told, reported, touched, edits, loads, crashes, failures>>

\* remember_recent: the path in front, once, and no more than the limit.
Remembered(r, p) ==
    LET listed == <<p>> \o SelectSeq(r, LAMBDA q : q # p)
    IN  SubSeq(listed, 1, IF Len(listed) < RecentLimit THEN Len(listed) ELSE RecentLimit)

\* The replacement the user asked for, once the old document may go. `discard` is the answer
\* Discard; a, s, f and r are the controller, the session, the files and the recent list before it.
Complete(purpose, discard, a, s, f, r) ==
    LET left(b) == IF discard THEN DiscardOf(b, s.doc, s.object) ELSE b IN
    \/ /\ purpose \in {"new", "generate"}
       /\ \E d \in Docs : Fresh(d) /\ session' = Document(d, loads + 2, Nil, 0, purpose = "generate")
       /\ auto' = left(Replace(a, s, session'))
       /\ loads' = loads + 1 /\ ui' = At("ready") /\ recent' = r
    \/ /\ purpose \in Paths
       /\ f[purpose] # Nil
       /\ session' = Document(f[purpose].doc, loads + 2, purpose, f[purpose].version, FALSE)
       /\ auto' = left(Replace(a, s, session'))
       /\ recent' = Remembered(r, purpose)
       /\ loads' = loads + 1 /\ ui' = At("ready")
    \/ /\ purpose = "close"
       /\ session' = s /\ auto' = CloseAutosave(left(a), s)
       /\ ui' = At("closed") /\ recent' = r /\ UNCHANGED loads
    \/ /\ purpose = "generate" \/ (purpose \in Paths /\ f[purpose] = Nil)
       /\ session' = s /\ auto' = a /\ ui' = At("ready") /\ recent' = r /\ UNCHANGED loads

\* confirm_replacement: a clean document goes at once, for a dirty one the user is asked.
Ask(purpose) ==
    /\ ui.phase = "ready" /\ (purpose = "close" \/ (loads < MaxLoads /\ clicks < MaxClicks))
    /\ clicks' = IF purpose = "close" THEN clicks ELSE clicks + 1
    /\ \/ /\ ~Dirty(session)
          /\ Complete(purpose, FALSE, auto, session, file, recent)
       \/ /\ Dirty(session)
          /\ auto' = AutosaveNow(auto, session)
          /\ ui' = [At("asking") EXCEPT !.purpose = purpose]
          /\ UNCHANGED <<session, recent, loads>>
    /\ UNCHANGED <<file, backup, record, manifest, fresher, signals, told, reported, touched, stale, edits, crashes, failures>>

Answer ==
    /\ ui.phase = "asking"
    /\ \/ Complete(ui.purpose, TRUE, auto, session, file, recent)
       \/ ui' = At("ready") /\ UNCHANGED <<auto, session, recent, loads>>
    /\ UNCHANGED <<file, backup, record, manifest, fresher, signals, told, reported, touched, stale, edits, clicks, crashes, failures>>

\* save and save_as, of the menu or of the dialog.
BeginSave ==
    /\ ui.phase \in {"ready", "asking"} /\ clicks < MaxClicks
    /\ \E p \in IF session.path = Nil \/ ui.phase = "ready" THEN Paths ELSE {session.path} :
          ui' = [ui EXCEPT !.phase = "backup", !.path = p]
    /\ clicks' = clicks + 1
    /\ UNCHANGED <<disk, session, auto, signals, told, reported, touched, stale, edits, loads, crashes, failures>>

\* Mutant of CopyBackup: the destination is opened for writing and no backup is kept.
TruncateDestination ==
    /\ ui.phase = "backup"
    /\ file' = [file EXCEPT ![ui.path] = Nil] /\ ui' = [ui EXCEPT !.phase = "destination"]
    /\ UNCHANGED <<backup, record, manifest, fresher, recent, session, auto, signals, told, reported, touched, stale, bounds>>

\* write_text_atomically: the temporary is whole, the old content becomes the backup.
CopyBackup ==
    /\ ui.phase = "backup"
    /\ backup' = IF file[ui.path] = Nil THEN backup ELSE [backup EXCEPT ![ui.path] = file[ui.path]]
    /\ ui' = [ui EXCEPT !.phase = "destination"]
    /\ UNCHANGED <<file, record, manifest, fresher, recent, session, auto, signals, told, reported, touched, stale, bounds>>

\* The document is clean, its record goes, and the replacement it was saved for goes on.
ReplaceDestination ==
    LET p == ui.path
        saved == SetClean([session EXCEPT !.path = p])
        clean == IF Dirty(session) THEN DirtyChanged(auto, saved) ELSE auto
        discarded == DiscardOf(clean, session.doc, session.object)
    IN
    /\ ui.phase = "destination"
    /\ file' = [file EXCEPT ![p] = Snapshot(session)]
    /\ fresher' = [d \in Docs |-> fresher[d] \ {p}]
    /\ reported' = [reported EXCEPT ![p] = Snapshot(session)]
    /\ IF ui.purpose = Nil
       THEN /\ session' = saved /\ auto' = discarded /\ recent' = Remembered(recent, p)
            /\ ui' = At("ready") /\ UNCHANGED loads
       ELSE Complete(ui.purpose, FALSE, discarded, saved, file', Remembered(recent, p))
    /\ UNCHANGED <<backup, record, manifest, signals, told, touched, stale, edits, clicks, crashes, failures>>

SaveFails ==
    /\ ui.phase \in {"backup", "destination"} /\ failures < MaxFailures
    /\ failures' = failures + 1 /\ ui' = At("ready")
    /\ UNCHANGED <<disk, session, auto, signals, told, reported, touched, stale, edits, loads, clicks, crashes>>

-----------------------------------------------------------------------------
\* Start, crash and exit.

\* explicit_path_for: the manifest's path, or else the first recent file of that document.
ExplicitPath(d) ==
    LET mine == SelectSeq(recent, LAMBDA p : file[p] # Nil /\ file[p].doc = d) IN
    IF manifest[d] # Nil THEN manifest[d] ELSE IF mine = <<>> THEN Nil ELSE Head(mine)

IsNewer(d) == LET p == ExplicitPath(d) IN p # Nil => (file[p] # Nil => p \in fresher[d])

\* offer_recovery, one record at a time; their order by age is left open.
Offer ==
    /\ ui.phase = "offering"
    /\ \/ /\ ui.offers = {} /\ ui' = At("ready") /\ UNCHANGED <<session, auto, loads, touched>>
       \/ \E d \in ui.offers :
             \/ /\ ~IsNewer(d)
                /\ ui' = [ui EXCEPT !.offers = @ \ {d}] /\ UNCHANGED <<session, auto, loads, touched>>
             \/ /\ IsNewer(d)
                /\ ui' = [ui EXCEPT !.offers = @ \ {d}]
                /\ auto' = DiscardOf(auto, d, 0) /\ UNCHANGED <<session, loads, touched>>
             \/ /\ IsNewer(d) /\ ui' = At("ready") /\ UNCHANGED <<session, auto, loads, touched>>
             \/ /\ IsNewer(d) /\ record[d] # Nil /\ loads < MaxLoads
                /\ session' = Document(d, loads + 2, ExplicitPath(d), record[d], TRUE)
                /\ auto' = Replace(auto, session, session')
                /\ touched' = touched \cup {d} /\ loads' = loads + 1 /\ ui' = At("ready")
    /\ UNCHANGED <<disk, signals, told, reported, stale, edits, clicks, crashes, failures>>

NoAutosave == [timer |-> FALSE, current |-> Nil, pending |-> Nil, tracked |-> [d \in Docs |-> 0],
               deferred |-> {}, jobs |-> <<>>]
Untold == [doc |-> Nil, version |-> 0, outcome |-> Nil]

\* The process dies; the jobs of its worker die with it.
Crash ==
    /\ ui.phase # "down" /\ crashes < MaxCrashes
    /\ crashes' = crashes + 1
    /\ ui' = [At("down") EXCEPT !.purpose = "new"]
    /\ auto' = NoAutosave /\ signals' = <<>> /\ told' = Untold
    /\ UNCHANGED <<disk, session, reported, touched, stale, edits, loads, clicks, failures>>

\* After close() the interpreter joins the worker: the process ends when the queue is empty.
Exit ==
    /\ ui.phase = "closed" /\ auto.jobs = <<>>
    /\ ui' = At("down")
    /\ UNCHANGED <<disk, session, auto, signals, told, reported, touched, stale, bounds>>

\* The program starts again after a crash.
Restart ==
    /\ ui = [At("down") EXCEPT !.purpose = "new"]
    /\ \E d \in Docs : Fresh(d) /\ session' = Document(d, 1, Nil, 0, FALSE)
    /\ loads' = 0 /\ touched' = {} /\ stale' = {}
    /\ ui' = [At("offering") EXCEPT !.offers = {d \in Docs : record[d] # Nil}]
    /\ UNCHANGED <<disk, auto, signals, told, reported, edits, clicks, crashes, failures>>

RecoveryInit ==
    /\ file = [p \in Paths |-> Nil] /\ backup = [p \in Paths |-> Nil]
    /\ record = [d \in Docs |-> Nil] /\ manifest = [d \in Docs |-> Nil]
    /\ fresher = [d \in Docs |-> {}] /\ recent = <<>>
    /\ \E d \in Docs : (\A e \in Docs : d <= e) /\ session = Document(d, 1, Nil, 0, FALSE)
    /\ auto = NoAutosave /\ signals = <<>> /\ ui = At("ready") /\ told = Untold
    /\ reported = [p \in Paths |-> Nil] /\ touched = {} /\ stale = {}
    /\ edits = 0 /\ loads = 0 /\ clicks = 0 /\ crashes = 0 /\ failures = 0

User == Edit \/ UndoOrRedo \/ (\E purpose \in Purposes : Ask(purpose)) \/ Answer \/ BeginSave
Writing == CopyBackup \/ ReplaceDestination \/ SaveFails
EventLoop == OnFinished \/ AutosaveDue
\* The user does nothing, or has left.
Idle == (ui.phase \in {"ready", "asking"} \/ ui = At("down")) /\ UNCHANGED recoveryVars

RecoveryNext == User \/ Writing \/ EventLoop \/ Worker \/ Offer \/ Crash \/ Exit \/ Restart \/ Idle

\* The worker, the event loop and a save that has begun go on; the user need not.
Progress == Worker \/ EventLoop \/ Writing \/ Exit
RecoverySpec == RecoveryInit /\ [][RecoveryNext]_recoveryVars /\ WF_recoveryVars(Progress)

-----------------------------------------------------------------------------
\* Properties.

\* An exit with a clean document leaves no recovery file of a document this run autosaved, whatever
\* was running, queued or put off when the window closed (autosave_controller.py:165): the next
\* start has nothing to offer of this run. The exception is an autosave that was queued behind
\* another when an undo or a redo reached the saved state: it is still written, and then no
\* longer tracked (autosave_controller.py:246).
CleanExitLeavesNothing ==
    (ui = At("down") /\ ~Dirty(session)) => \A d \in touched \ stale : record[d] = Nil

\* What was last reported saved to a path is in the file or in its backup at every moment, a crash
\* or a failure inside a later save included (graph_io.py:200).
SavedWorkSurvives ==
    \A p \in Paths : reported[p] # Nil => reported[p] \in {file[p], backup[p]}

\* Neither is work lost that was reported as saved nor is a recovery file left that the next start
\* would offer for nothing.
NothingLostNothingLeft == SavedWorkSurvives /\ CleanExitLeavesNothing

\* A dirty document is autosaved, or the failure to is reported, unless it is edited further, saved
\* or left, or the program ends (autosave_controller.py:113, 225).
DirtyIsAutosaved ==
    []<>(\/ ~Dirty(session)
         \/ told.doc = session.doc /\ told.version = Version(session)
         \/ ui.phase \in {"offering", "closed", "down"})

\* Recovery "must protect unsaved edits" (docs/architecture/master.md): once the autosave of the
\* dirty document was reported and nothing is on its way, its recovery file holds it.
AutosavedWorkIsKept ==
    (/\ ui.phase = "ready" /\ Dirty(session) /\ auto.jobs = <<>> /\ signals = <<>> /\ ~auto.timer
     /\ told = [doc |-> session.doc, version |-> Version(session), outcome |-> "saved"])
    => record[session.doc] = Version(session)
=============================================================================

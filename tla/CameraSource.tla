---------------------------- MODULE CameraSource ----------------------------
(***************************************************************************)
(* CameraSourceService (media/camera_source.py): the capture thread, with  *)
(* its device, its reconnections and its two events, against the calls of  *)
(* the engine body.  The body makes one call at a time; a call that waits  *)
(* for the thread gives up after five seconds.                             *)
(***************************************************************************)
EXTENDS Naturals

CONSTANTS MaxCameraCalls,    \* bound on calls
          MaxLosses          \* bound on opens and reads that fail

VARIABLES
  reconnects,   \* reconnect_automatically, never changed
  cameraState,  \* SourceState
  stopping, wake,  \* _stop_event, _wake_event
  pc,           \* where the capture thread is, "none" when there is none
  goal,         \* what _wait_until_active was called for: "open" or "read"
  device,       \* the capture is open
  capture,      \* _capture is set
  again,        \* connected_once or _reconnect_attempts > 0
  request,      \* the call in progress
  sink,         \* the graph worker accepts frames and resets
  published,    \* the last thing that was sent to it
  stuck,        \* a call gave up waiting for the thread
  requests, losses

cameraVars == <<reconnects, cameraState, stopping, wake, pc, goal, device, capture, again,
                request, sink, published, stuck, requests, losses>>

Family == {"PLAYING", "RECONNECTING"}

CameraInit ==
  /\ reconnects \in BOOLEAN
  /\ cameraState = "READY" /\ stopping = FALSE /\ wake = FALSE /\ pc = "none" /\ goal = "open"
  /\ device = FALSE /\ capture = FALSE /\ again = FALSE
  /\ request = "none" /\ sink = TRUE /\ published = "none" /\ stuck = FALSE
  /\ requests = 0 /\ losses = 0

-----------------------------------------------------------------------------
(* The calls.                                                               *)

\* A source whose graph worker is closed is only closed itself.
Enter(op) ==
  /\ request = "none" /\ requests < MaxCameraCalls /\ requests' = requests + 1
  /\ cameraState # "CLOSED" /\ (sink \/ op = "close")

PlayCamera ==
  /\ Enter("play")
  /\ IF cameraState = "PAUSED"
       THEN /\ cameraState' = "PLAYING" /\ wake' = TRUE
            /\ UNCHANGED <<stopping, pc, goal, again>>
     ELSE IF pc # "none" THEN UNCHANGED <<cameraState, stopping, wake, pc, goal, again>>
     ELSE /\ cameraState' = "PLAYING" /\ stopping' = FALSE /\ wake' = FALSE
          /\ pc' = "clear" /\ goal' = "open" /\ again' = FALSE
  /\ UNCHANGED <<reconnects, device, capture, request, sink, published, stuck, losses>>

\* pause and resume set the event after the lock.
SetState(from, to) ==
  /\ Enter("pause")
  /\ cameraState' = IF cameraState \in from THEN to ELSE cameraState
  /\ request' = "wake"
  /\ UNCHANGED <<reconnects, stopping, wake, pc, goal, device, capture, again, sink, published,
                 stuck, losses>>

PauseCamera == SetState(Family, "PAUSED")
ResumeCamera == SetState({"PAUSED"}, "PLAYING")

\* Mutant of Wake: the event is forgotten.
WakeForgotten ==
  /\ request = "wake"
  /\ request' = "none"
  /\ UNCHANGED <<reconnects, cameraState, stopping, wake, pc, goal, device, capture, again, sink,
                 published, stuck, requests, losses>>

Wake ==
  /\ request = "wake"
  /\ wake' = TRUE /\ request' = "none"
  /\ UNCHANGED <<reconnects, cameraState, stopping, pc, goal, device, capture, again, sink,
                 published, stuck, requests, losses>>

\* stop, reload and close up to the join in _halt.
Halt(op) ==
  /\ Enter(op)
  /\ stopping' = TRUE /\ wake' = TRUE
  /\ device' = (device /\ ~capture)
  /\ request' = op
  /\ UNCHANGED <<reconnects, cameraState, pc, goal, capture, again, sink, published, stuck, losses>>

Target(op) == CASE op = "stop" -> "STOPPED" [] op = "reload" -> "READY" [] op = "close" -> "CLOSED"

\* Mutant of CameraHalted: the thread is not waited for.
HaltedUnjoined ==
  /\ request \in {"stop", "reload", "close"}
  /\ capture' = FALSE /\ cameraState' = Target(request)
  /\ published' = IF request # "close" /\ sink THEN "reset" ELSE published
  /\ request' = "none"
  /\ UNCHANGED <<reconnects, stopping, wake, pc, goal, device, again, sink, stuck, requests,
                 losses>>

\* The thread has ended: the rest of _halt, and the reset.
CameraHalted ==
  /\ request \in {"stop", "reload", "close"} /\ pc = "none"
  /\ capture' = FALSE /\ cameraState' = Target(request)
  /\ published' = IF request # "close" /\ sink THEN "reset" ELSE published
  /\ request' = "none"
  /\ UNCHANGED <<reconnects, stopping, wake, pc, goal, device, again, sink, stuck, requests,
                 losses>>

\* The join timed out: the call raises and leaves everything as it is.
HaltRaises ==
  /\ request \in {"stop", "reload", "close"} /\ pc # "none"
  /\ request' = "none" /\ stuck' = TRUE
  /\ UNCHANGED <<reconnects, cameraState, stopping, wake, pc, goal, device, capture, again, sink,
                 published, requests, losses>>

\* The body closes the graph worker when it has stopped or closed the source,
\* or failed to.
CloseSink ==
  /\ sink /\ request = "none" /\ (cameraState \in {"STOPPED", "CLOSED"} \/ stuck)
  /\ sink' = FALSE
  /\ UNCHANGED <<reconnects, cameraState, stopping, wake, pc, goal, device, capture, again,
                 request, published, stuck, requests, losses>>

-----------------------------------------------------------------------------
(* The capture thread.                                                      *)

Stays == UNCHANGED <<reconnects, request, sink, stuck, requests>>

\* _wait_until_active; FALSE ends the thread, after the release of the device.
WaitClear ==
  /\ pc = "clear"
  /\ IF stopping THEN pc' = (IF goal = "read" THEN "release" ELSE "none") /\ UNCHANGED wake
             ELSE pc' = "check" /\ wake' = FALSE
  /\ Stays /\ UNCHANGED <<cameraState, stopping, goal, device, capture, again, published, losses>>

WaitCheck ==
  /\ pc = "check"
  /\ pc' = CASE ~stopping /\ cameraState \in Family -> goal
             [] ~stopping /\ cameraState = "PAUSED" -> "wait"
             [] OTHER -> IF goal = "read" THEN "release" ELSE "none"
  /\ Stays /\ UNCHANGED <<cameraState, stopping, wake, goal, device, capture, again, published,
                          losses>>

WaitWoken ==
  /\ pc = "wait" /\ wake
  /\ pc' = "clear"
  /\ Stays /\ UNCHANGED <<cameraState, stopping, wake, goal, device, capture, again, published,
                          losses>>

\* open_camera, over the backends in order; those that fail are released.
OpenCamera ==
  /\ pc = "open"
  /\ \/ device' = TRUE /\ pc' = "opened" /\ UNCHANGED losses
     \/ losses < MaxLosses /\ losses' = losses + 1 /\ pc' = "lost" /\ UNCHANGED device
  /\ Stays /\ UNCHANGED <<cameraState, stopping, wake, goal, capture, again, published>>

\* The camera plays, whatever the state was.
Opened ==
  /\ pc = "opened"
  /\ capture' = TRUE /\ cameraState' = "PLAYING" /\ pc' = "reset"
  /\ Stays /\ UNCHANGED <<stopping, wake, goal, device, again, published, losses>>

\* A camera that is back resets its clock.  A worker that is closed raises, and
\* the thread ends there.
PublishReset ==
  /\ pc = "reset"
  /\ IF again /\ ~sink THEN pc' = "none" /\ UNCHANGED <<goal, published, again>>
     ELSE /\ published' = IF again THEN "reset" ELSE published
          /\ again' = TRUE /\ goal' = "read" /\ pc' = IF stopping THEN "release" ELSE "clear"
  /\ Stays /\ UNCHANGED <<cameraState, stopping, wake, device, capture, losses>>

\* capture.read, which fails on a device that _halt released, and the frames
\* that selection skips.
Read ==
  /\ pc = "read"
  /\ \/ device /\ pc' \in {"frame", "clear"} /\ UNCHANGED <<losses, goal>>
     \/ device /\ losses < MaxLosses /\ losses' = losses + 1 /\ pc' = "release" /\ goal' = "open"
     \/ ~device /\ pc' = "release" /\ goal' = "open" /\ UNCHANGED losses
  /\ Stays /\ UNCHANGED <<cameraState, stopping, wake, device, capture, again, published>>

\* _publish: a worker that does not take it makes the source fail.
Published(what, next) ==
  IF sink THEN published' = what /\ pc' = next /\ UNCHANGED <<cameraState, stopping, wake>>
  ELSE /\ cameraState' = "ERROR" /\ stopping' = TRUE /\ wake' = TRUE
       /\ pc' = (IF goal = "read" THEN "release" ELSE "none") /\ UNCHANGED published

PublishCameraFrame ==
  /\ pc = "frame"
  /\ Published("frame", "clear")
  /\ Stays /\ UNCHANGED <<goal, device, capture, again, losses>>

\* After the capture loop: goal is still "read" unless the device was lost.
Release ==
  /\ pc = "release"
  /\ device' = FALSE /\ capture' = FALSE
  /\ pc' = IF goal = "read" \/ stopping THEN "none" ELSE "lost"
  /\ Stays /\ UNCHANGED <<cameraState, stopping, wake, goal, again, published, losses>>

HandleDisconnect ==
  /\ pc = "lost"
  /\ again' = TRUE /\ cameraState' = IF reconnects THEN "RECONNECTING" ELSE "UNAVAILABLE"
  /\ pc' = "outage"
  /\ Stays /\ UNCHANGED <<stopping, wake, goal, device, capture, published, losses>>

PublishOutage ==
  /\ pc = "outage"
  /\ Published("outage", IF reconnects /\ ~stopping THEN "backoff" ELSE "none")
  /\ Stays /\ UNCHANGED <<goal, device, capture, again, losses>>

\* The wait of the back-off, which the stop event cuts short.
BackOff ==
  /\ pc = "backoff"
  /\ goal' = "open" /\ pc' = IF stopping THEN "none" ELSE "clear"
  /\ Stays /\ UNCHANGED <<cameraState, stopping, wake, device, capture, again, published, losses>>

Thread == \/ WaitClear \/ WaitCheck \/ WaitWoken \/ OpenCamera \/ Opened \/ PublishReset
          \/ Read \/ PublishCameraFrame \/ Release \/ HandleDisconnect \/ PublishOutage \/ BackOff

CameraNext ==
  \/ PlayCamera \/ PauseCamera \/ ResumeCamera \/ Wake
  \/ \E op \in {"stop", "reload", "close"} : Halt(op)
  \/ CameraHalted \/ HaltRaises \/ CloseSink \/ Thread

CameraSpec == CameraInit /\ [][CameraNext]_cameraVars

-----------------------------------------------------------------------------
(* Properties.                                                              *)

\* A camera that is shown as playing, reconnecting or paused has a thread that
\* serves it, so that play and resume cannot be lost on it; a call that gave up
\* on the thread is the exception.
ThreadIsThere ==
  request = "none" /\ ~stuck /\ cameraState \in Family \cup {"PAUSED"} => pc # "none"

\* The thread that waits while paused is woken by whatever ends the pause: it
\* never sleeps through a resume, a play or a stop.
NoWakeIsLost ==
  request = "none" /\ pc = "wait" /\ ~wake => cameraState = "PAUSED" /\ ~stopping

\* What is shown as running is served: by a thread, and one that is awake.
CameraIsAttended == ThreadIsThere /\ NoWakeIsLost

\* After a stop the reset is the last thing the graph sees, no thread runs and
\* the device is free, also when the stop came while it was being opened.  A
\* call that gave up on the thread is the exception.
StopIsFinal ==
  request = "none" /\ ~stuck /\ cameraState \in {"STOPPED", "CLOSED"} =>
    ~device /\ pc = "none" /\ (cameraState = "STOPPED" => published \in {"reset", "none"})

=============================================================================

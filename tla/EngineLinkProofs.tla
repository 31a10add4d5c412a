-------------------------- MODULE EngineLinkProofs --------------------------
(***************************************************************************)
(* Proofs about the editor's link to the engine process, for any number of *)
(* edits, commands of the user, crashes, hangs and time-outs: the editor   *)
(* and the child take different graphs for the active one only where the   *)
(* user was told that something failed.                                    *)
(***************************************************************************)
EXTENDS EngineLink, SequenceTheorems, TLAPS

\* The document is counted by its edits, which bounds its revisions.
Types == TypeOK /\ document = edits

Restarting == {"shutdown", "stop", "spawn", "greet", "connected", "rebuilt"}

\* Where the runner is says which operation it runs, and where it has a request out.
Stages ==
    /\ step # "idle" => queue # <<>>
    /\ step = "answer" => Head(queue).kind # "restart"
    /\ step = "lookup" => Running("transport")
    /\ step = "metrics" => Running("refresh")
    /\ step \in Restarting => Running("restart")
    /\ step \in {"idle", "shutdown", "spawn", "connected"} => ~Waiting("runner")

\* The child has been told to activate nothing else, and runs graph r.
Settled(r) == active = r /\ \A i \in DOMAIN inbox : inbox[i].command # "activate"

\* A child that is gone has no messages, and a new one starts without a graph.
Fresh ==
    /\ process = "none" => inbox = <<>> /\ outbox = <<>> /\ active = 0
    /\ process = "dead" => inbox = <<>>
    /\ step = "spawn" => process = "none"
    /\ step \in {"greet", "connected"} /\ process = "alive" => Settled(0)
    /\ revision = snapshot

\* The one message of the runner's request is on its way to the child or back.
Matched ==
    process = "alive" =>
        /\ \A i \in DOMAIN inbox : inbox[i].by = "runner" =>
               /\ Waiting("runner")
               /\ \A j \in DOMAIN inbox : inbox[j].by = "runner" => j = i
               /\ \A k \in DOMAIN outbox : outbox[k].by # "runner"
        /\ \A k \in DOMAIN outbox : outbox[k].by = "runner" =>
               /\ Waiting("runner")
               /\ \A l \in DOMAIN outbox : outbox[l].by = "runner" => l = k

\* The runner waits for the answer of an activation.
Activating == (step = "answer" /\ Running("activation")) \/ step = "rebuilt"
Target == IF step = "rebuilt" THEN snapshot ELSE Head(queue).revision

\* It asks for the last activation the child will see; once that is acknowledged
\* the child runs its graph.
Obeyed ==
    process = "alive" /\ Activating =>
        /\ \A i \in DOMAIN inbox : inbox[i].by = "runner" =>
               /\ inbox[i].command = "activate" /\ inbox[i].revision = Target
               /\ \A j \in DOMAIN inbox : j > i => inbox[j].command # "activate"
        /\ \A k \in DOMAIN outbox :
               outbox[k].by = "runner" /\ outbox[k].answer = "ack" => Settled(Target)
        /\ call["runner"] # Nil /\ call["runner"].answer = "ack" => Settled(Target)

\* What the user is, or is about to be, told last of the graph is bad.
Decisive(callback) == callback.kind \in {"activation", "restart"}
Bad == {"failed", "rejected"}
BadNews ==
    \/ told.outcome \in Bad /\ \A i \in DOMAIN callbacks : ~Decisive(callbacks[i])
    \/ \E i \in DOMAIN callbacks :
           /\ Decisive(callbacks[i]) /\ callbacks[i].outcome \in Bad
           /\ \A j \in DOMAIN callbacks : j > i => ~Decisive(callbacks[j])

Working == step # "idle" /\ (Running("activation") \/ Running("restart"))

Reported == process = "alive" => BadNews \/ Settled(revision) \/ Working

Inv == Types /\ Stages /\ Fresh /\ Matched /\ Obeyed /\ Reported

-----------------------------------------------------------------------------
(* Sequences, requests and what becomes of them.                            *)

LEMMA AppendFacts ==
    ASSUME NEW S, NEW q \in Seq(S), NEW x \in S
    PROVE  /\ Append(q, x) \in Seq(S) /\ Append(q, x) # <<>> /\ Len(q) \in Nat
           /\ \A i \in 1..Len(q) : Append(q, x)[i] = q[i]
           /\ Append(q, x)[Len(q) + 1] = x
           /\ DOMAIN Append(q, x) = 1..(Len(q) + 1) /\ DOMAIN q = 1..Len(q)
           /\ q # <<>> => Head(Append(q, x)) = Head(q)
           /\ q = <<>> => Head(Append(q, x)) = x
  OBVIOUS

LEMMA TailFacts ==
    ASSUME NEW S, NEW q \in Seq(S), q # <<>>
    PROVE  /\ Tail(q) \in Seq(S) /\ Len(q) \in Nat \ {0}
           /\ \A i \in 1..(Len(q) - 1) : Tail(q)[i] = q[i + 1]
           /\ Head(q) = q[1] /\ Head(q) \in S
           /\ DOMAIN Tail(q) = 1..(Len(q) - 1) /\ DOMAIN q = 1..Len(q)
<1>1. Len(q) \in Nat \ {0}
  BY EmptySeq
<1>2. Tail(q) \in Seq(S) /\ Len(Tail(q)) = Len(q) - 1 /\ Head(q) \in S
  BY HeadTailProperties
<1>3. \A i \in 1..(Len(q) - 1) : Tail(q)[i] = q[i + 1]
  BY <1>2, HeadTailProperties
<1>4. Head(q) = q[1]
  BY <1>1
<1>5. DOMAIN Tail(q) = 1..(Len(q) - 1) /\ DOMAIN q = 1..Len(q)
  BY <1>2, LenProperties
<1> QED
  BY <1>1, <1>2, <1>3, <1>4, <1>5

LEMMA SameLength ==
    ASSUME NEW S, NEW T, NEW q \in Seq(S), NEW f, DOMAIN f = DOMAIN q,
           f = [i \in DOMAIN q |-> f[i]], \A i \in DOMAIN q : f[i] \in T
    PROVE  f \in Seq(T)
<1>1. Len(q) \in Nat /\ DOMAIN q = 1..Len(q)
  BY LenProperties
<1>2. f \in [1..Len(q) -> T]
  BY <1>1
<1> QED
  BY <1>1, <1>2, SeqDef

LEMMA ForgetNothing == \A t : Forget(t, <<>>) = <<>>
BY DEF Forget

\* A thread has a request whenever its call is not Nil.
LEMMA CallIsNotNil == \A c \in Call : c # Nil
BY NilAssumption

LEMMA LostFacts ==
    ASSUME NEW calls \in [Threads -> Call \cup {Nil}]
    PROVE  /\ Lost(calls) \in [Threads -> Call \cup {Nil}]
           /\ \A t \in Threads :
                 /\ Lost(calls)[t] = calls[t] \/ (Lost(calls)[t] # Nil /\ Lost(calls)[t].answer = "lost")
                 /\ Lost(calls)[t] # Nil => Lost(calls)[t].answer # "waiting"
                 /\ Lost(calls)[t] # Nil /\ Lost(calls)[t].answer = "ack" => Lost(calls)[t] = calls[t]
<1> DEFINE lost(c) == [c EXCEPT !.answer = "lost"]
<1>1. \A c \in Call : lost(c) \in Call /\ lost(c).answer = "lost" /\ lost(c) # Nil
  <2> TAKE c \in Call
  <2>1. lost(c) \in Call /\ lost(c).answer = "lost"
    BY DEF Call, NoAnswer
  <2> QED
    BY <2>1, CallIsNotNil, Zenon
<1>2. \A t \in Threads : Lost(calls)[t] =
        IF calls[t] # Nil /\ calls[t].answer = "waiting" THEN lost(calls[t]) ELSE calls[t]
  BY DEF Lost
<1>3. \A t \in Threads : Lost(calls)[t] \in Call \cup {Nil}
  BY <1>1, <1>2
<1>4. Lost(calls) \in [Threads -> Call \cup {Nil}]
  BY <1>3 DEF Lost
<1> QED
  BY <1>1, <1>2, <1>4

\* A request of a thread that waits for nothing is on its way, alone, or refused at once.
Sends(t, command, r) ==
    /\ process = "alive"
    /\ inbox' = Append(inbox, [command |-> command, revision |-> r, by |-> t])
    /\ call' = [call EXCEPT ![t] = [command |-> command, answer |-> "waiting", revision |-> r]]
Refused(t) ==
    /\ inbox' = inbox
    /\ call'[t] # Nil /\ call'[t].answer = "lost"
    /\ \A s \in Threads \ {t} : call'[s] = call[s] \/ (call'[s] # Nil /\ call'[s].answer = "lost")
    /\ process = "alive" => \A s \in Threads \ {t} : call'[s] = call[s]

LEMMA RequestFacts ==
    ASSUME Types, NEW t \in Threads, NEW c \in Commands, NEW r \in Revisions, Request(t, c, r)
    PROVE  /\ connection' \in Connections /\ inbox' \in Seq(Command)
           /\ call' \in [Threads -> Call \cup {Nil}]
           /\ Sends(t, c, r) \/ Refused(t)
<1> DEFINE made(answer) == [command |-> c, answer |-> answer, revision |-> r]
           message == [command |-> c, revision |-> r, by |-> t]
<1>1. \A a \in {"waiting", "lost"} : made(a) \in Call /\ made(a) # Nil /\ made(a).answer = a
  <2>1. \A a \in {"waiting", "lost"} : made(a) \in Call /\ made(a).answer = a
    BY DEF Call, NoAnswer
  <2> QED
    BY <2>1, CallIsNotNil, Zenon
<1>2. message \in Command /\ inbox \in Seq(Command)
  BY DEF Command, Types, TypeOK
<1>3. Append(inbox, message) \in Seq(Command)
  BY <1>2, AppendFacts, Zenon
<1>4. connection \in Connections /\ call \in [Threads -> Call \cup {Nil}]
  BY DEF Types, TypeOK
<1>5. Liveness \in Connections
  BY <1>4 DEF Liveness, Connections
<1>6. \A a \in {"waiting", "lost"} : [call EXCEPT ![t] = made(a)] \in [Threads -> Call \cup {Nil}]
  BY <1>1, <1>4
<1> DEFINE with(a) == [call EXCEPT ![t] = made(a)]
<1>7. \A a \in {"waiting", "lost"} : with(a)[t] = made(a) /\ \A s \in Threads \ {t} : with(a)[s] = call[s]
  BY <1>4
<1>8. \/ connection' = Liveness /\ call' = with("lost") /\ inbox' = inbox
      \/ connection' = "CRASHED" /\ call' = Lost(with("lost")) /\ inbox' = inbox /\ process = "dead"
      \/ connection' = Liveness /\ call' = with("waiting") /\ inbox' = Append(inbox, message)
         /\ process = "alive"
  BY DEF Request
<1> HIDE DEF made, message
<1>9. CASE connection' = Liveness /\ call' = with("lost") /\ inbox' = inbox
  BY <1>9, <1>1, <1>2, <1>5, <1>6, <1>7 DEF Refused
<1>10. CASE connection' = "CRASHED" /\ call' = Lost(with("lost")) /\ inbox' = inbox /\ process = "dead"
  <2> HIDE DEF with
  <2>1. /\ Lost(with("lost")) \in [Threads -> Call \cup {Nil}]
        /\ \A s \in Threads : Lost(with("lost"))[s] = with("lost")[s]
               \/ (Lost(with("lost"))[s] # Nil /\ Lost(with("lost"))[s].answer = "lost")
    BY <1>6, LostFacts DEF with
  <2>2. Refused(t)
    BY <1>10, <2>1, <1>1, <1>7 DEF Refused
  <2> QED
    BY <1>10, <2>1, <2>2, <1>2 DEF Connections
<1>11. CASE connection' = Liveness /\ call' = with("waiting") /\ inbox' = Append(inbox, message)
            /\ process = "alive"
  BY <1>11, <1>3, <1>5, <1>6 DEF Sends, made, message
<1> QED
  BY <1>8, <1>9, <1>10, <1>11

LEMMA ForgetFacts ==
    ASSUME NEW S, NEW q \in Seq(S), NEW t \in Threads,
           \A m \in S : [m EXCEPT !.by = Nil] \in S
    PROVE  /\ Forget(t, q) \in Seq(S) /\ DOMAIN Forget(t, q) = DOMAIN q
           /\ \A i \in DOMAIN q :
                 Forget(t, q)[i] = IF q[i].by = t THEN [q[i] EXCEPT !.by = Nil] ELSE q[i]
<1>1. /\ DOMAIN Forget(t, q) = DOMAIN q
      /\ Forget(t, q) = [i \in DOMAIN q |-> Forget(t, q)[i]]
      /\ \A i \in DOMAIN q :
            Forget(t, q)[i] = IF q[i].by = t THEN [q[i] EXCEPT !.by = Nil] ELSE q[i]
  BY DEF Forget
<1>2. \A i \in DOMAIN q : q[i] \in S
  BY LenProperties, ElementOfSeq
<1>3. \A i \in DOMAIN q : Forget(t, q)[i] \in S
  BY <1>1, <1>2
<1>4. Forget(t, q) \in Seq(S)
  BY <1>1, <1>3, SameLength
<1> QED
  BY <1>1, <1>4

-----------------------------------------------------------------------------
(* Tasks and what is told of them.                                          *)

LEMMA FlushFacts ==
    ASSUME Types, NEW kinds \in SUBSET Kinds, NEW tasks \in Seq(Task), FlushActivation(kinds, tasks)
    PROVE  /\ pending' \in Revisions /\ inflight' \in SUBSET Kinds /\ queue' \in Seq(Task)
           /\ tasks # <<>> => queue' # <<>> /\ Head(queue') = Head(tasks)
<1> DEFINE task == [kind |-> "activation", revision |-> pending]
<1>1. task \in Task /\ pending \in Revisions /\ 0 \in Revisions /\ "activation" \in Kinds
  BY BoundsAssumption DEF Types, TypeOK, Task, Kinds, Revisions
<1> HIDE DEF task
<1>2. /\ Append(tasks, task) \in Seq(Task) /\ Append(tasks, task) # <<>>
      /\ tasks # <<>> => Head(Append(tasks, task)) = Head(tasks)
  BY <1>1, AppendFacts
<1> QED
  BY <1>1, <1>2 DEF FlushActivation, Submitted, task

Callback == [kind : Kinds, revision : Revisions, outcome : Outcomes]

LEMMA FinishFacts ==
    ASSUME Types, queue # <<>>, NEW outcome \in Outcomes, Finish(outcome)
    PROVE  /\ callbacks' \in Seq(Callback) /\ queue' \in Seq(Task) /\ step' = "idle"
           /\ told' = told /\ ~Decisive(Head(queue)) => (BadNews' <=> BadNews)
           /\ Decisive(Head(queue)) => (BadNews' <=> outcome \in Bad)
<1> DEFINE news == [kind |-> Head(queue).kind, revision |-> Head(queue).revision, outcome |-> outcome]
<1>1. /\ queue \in Seq(Task) /\ callbacks \in Seq(Callback) /\ news \in Callback
      /\ queue' = Tail(queue) /\ queue' \in Seq(Task)
  <2>1. queue \in Seq(Task) /\ callbacks \in Seq(Callback)
    BY DEF Types, TypeOK, Callback
  <2>2. Head(queue) \in Task /\ Tail(queue) \in Seq(Task)
    BY <2>1, TailFacts
  <2> QED
    BY <2>1, <2>2 DEF Finish, Task, Callback
<1>2. callbacks' = Append(callbacks, news)
  BY DEF Finish
<1> DEFINE n == Len(callbacks)
<1>3. /\ callbacks' \in Seq(Callback) /\ n \in Nat
      /\ \A i \in 1..n : callbacks'[i] = callbacks[i]
      /\ callbacks'[n + 1] = news /\ DOMAIN callbacks' = 1..(n + 1) /\ DOMAIN callbacks = 1..n
  BY <1>1, <1>2, AppendFacts
<1>4. news.outcome = outcome /\ (Decisive(news) <=> Decisive(Head(queue)))
  BY DEF Decisive
<1> HIDE DEF n, news
<1>5. ASSUME Decisive(Head(queue))
      PROVE  BadNews' <=> outcome \in Bad
  BY <1>3, <1>4, <1>5 DEF BadNews, Decisive
<1>6. ASSUME told' = told, ~Decisive(Head(queue))
      PROVE  BadNews' <=> BadNews
  <2> DEFINE D(i) == Decisive(callbacks[i])
             Dn(i) == Decisive(callbacks'[i])
  <2>1. \A i \in 1..n : Dn(i) <=> D(i)
    BY <1>3
  <2>2. ~Dn(n + 1)
    BY <1>3, <1>4, <1>6
  <2> HIDE DEF D, Dn
  <2>3. (\A i \in DOMAIN callbacks : ~D(i)) <=> (\A i \in DOMAIN callbacks' : ~Dn(i))
    BY <1>3, <2>1, <2>2
  <2>4. ASSUME NEW i \in 1..n
        PROVE  (\A j \in DOMAIN callbacks : j > i => ~D(j))
                 <=> (\A j \in DOMAIN callbacks' : j > i => ~Dn(j))
    BY <1>3, <2>1, <2>2
  <2>5. (\E i \in DOMAIN callbacks : D(i) /\ callbacks[i].outcome \in Bad
                /\ \A j \in DOMAIN callbacks : j > i => ~D(j))
          <=> (\E i \in DOMAIN callbacks' : Dn(i) /\ callbacks'[i].outcome \in Bad
                /\ \A j \in DOMAIN callbacks' : j > i => ~Dn(j))
    BY <1>3, <2>1, <2>2, <2>4
  <2> QED
    BY <1>6, <2>3, <2>5 DEF BadNews, D, Dn
<1> QED
  BY <1>1, <1>3, <1>5, <1>6 DEF Finish

\* What is told last is what was told, or the last decisive news.
LEMMA NewsTaken ==
    ASSUME Types, TaskDone, BadNews
    PROVE  BadNews'
<1> DEFINE n == Len(callbacks)
           news == Head(callbacks)
<1>1. /\ callbacks' = Tail(callbacks) /\ n \in Nat \ {0} /\ news = callbacks[1]
      /\ \A i \in 1..(n - 1) : callbacks'[i] = callbacks[i + 1]
      /\ DOMAIN callbacks' = 1..(n - 1) /\ DOMAIN callbacks = 1..n
  <2>1. callbacks \in Seq(Callback) /\ callbacks # <<>> /\ callbacks' = Tail(callbacks)
    BY DEF Types, TypeOK, Callback, TaskDone
  <2> QED
    BY <2>1, TailFacts
<1>2. /\ Decisive(news) => told'.outcome = news.outcome
      /\ ~Decisive(news) => told' = told
  BY DEF TaskDone, Decisive, Types, TypeOK
<1> DEFINE D(i) == Decisive(callbacks[i])
           Dn(i) == Decisive(callbacks'[i])
<1>3. \A i \in 1..(n - 1) : Dn(i) <=> D(i + 1)
  BY <1>1
<1>4. Decisive(news) <=> D(1)
  BY <1>1
<1> HIDE DEF n, news
<1>5. CASE told.outcome \in Bad /\ \A i \in DOMAIN callbacks : ~D(i)
  <2>1. \A i \in DOMAIN callbacks' : ~Dn(i)
    BY <1>1, <1>3, <1>5
  <2>2. ~Decisive(news)
    BY <1>1, <1>4, <1>5
  <2> QED
    BY <2>1, <2>2, <1>2, <1>5 DEF BadNews
<1>6. ASSUME NEW i \in DOMAIN callbacks, D(i), callbacks[i].outcome \in Bad,
             \A j \in DOMAIN callbacks : j > i => ~D(j)
      PROVE  BadNews'
  <2> HIDE DEF D, Dn
  <2>1. CASE i = 1
    <3>1. \A k \in DOMAIN callbacks' : ~Dn(k)
      BY <1>1, <1>3, <1>6, <2>1
    <3>2. told'.outcome \in Bad
      BY <1>1, <1>2, <1>4, <1>6, <2>1
    <3> QED
      BY <3>1, <3>2 DEF BadNews, Dn
  <2>2. CASE i > 1
    <3>1. i - 1 \in DOMAIN callbacks' /\ Dn(i - 1) /\ callbacks'[i - 1] = callbacks[i]
      BY <1>1, <1>3, <1>6, <2>2
    <3>2. \A k \in DOMAIN callbacks' : k > i - 1 => ~Dn(k)
      BY <1>1, <1>3, <1>6, <2>2
    <3> QED
      BY <3>1, <3>2, <1>6 DEF BadNews, Dn
  <2> QED
    BY <1>1, <2>1, <2>2
<1> QED
  BY <1>5, <1>6 DEF BadNews

-----------------------------------------------------------------------------
(* Types, by the part of the state.                                         *)

BridgeTypes ==
    /\ document = edits /\ document \in Revisions /\ pending \in Revisions /\ timer \in BOOLEAN
    /\ inflight \subseteq Kinds /\ told \in [about : Revisions, outcome : Outcomes \cup {Nil}]
    /\ shown \in Connections
    /\ ui \in {"ready", "diagnosing", "draining", "stopping", "closed"}
RunnerTypes ==
    /\ queue \in Seq(Task) /\ callbacks \in Seq(Callback)
    /\ step \in {"idle", "answer", "lookup", "metrics"} \cup Restarting
LinkTypes ==
    /\ knownStopped \in BOOLEAN /\ connection \in Connections
    /\ call \in [Threads -> Call \cup {Nil}]
ClientTypes == revision \in Revisions /\ snapshot \in Revisions /\ beat \in {"none", "fresh", "old"}
ChildTypes ==
    /\ process \in {"none", "alive", "dead"} /\ hung \in BOOLEAN
    /\ active \in Revisions /\ playing \in BOOLEAN
PipeTypes == inbox \in Seq(Command) /\ outbox \in Seq(Answer)
BoundTypes ==
    /\ edits \in 0..MaxEdits /\ clicks \in 0..MaxClicks
    /\ faults \in 0..MaxFaults /\ timeouts \in 0..MaxTimeouts

LEMMA TypeParts ==
    Types <=> /\ BridgeTypes /\ RunnerTypes /\ LinkTypes /\ ClientTypes /\ ChildTypes
              /\ PipeTypes /\ BoundTypes
BY DEF Types, TypeOK, BridgeTypes, RunnerTypes, LinkTypes, ClientTypes, ChildTypes, PipeTypes,
       BoundTypes, Callback, Restarting

LEMMA TypePartsPrime == Types' => ChildTypes'
BY DEF Types, TypeOK, ChildTypes

LEMMA ClosedChangesNothing == Closed => UNCHANGED vars
<1>1. "runner" \in Threads
  BY DEF Threads
<1> QED
  BY <1>1 DEF Closed

LEMMA ZeroIsRevision == 0 \in Revisions
BY BoundsAssumption DEF Revisions

LEMMA TypePartsNext ==
    ASSUME BridgeTypes', RunnerTypes', LinkTypes', ClientTypes', ChildTypes', PipeTypes', BoundTypes'
    PROVE  Types'
BY DEF Types, TypeOK, BridgeTypes, RunnerTypes, LinkTypes, ClientTypes, ChildTypes, PipeTypes,
       BoundTypes, Callback, Restarting

\* What a step leaves alone keeps its type.
LEMMA TypesKept ==
    ASSUME Types
    PROVE  /\ UNCHANGED <<bridge, ui, edits>> => BridgeTypes'
           /\ UNCHANGED runner => RunnerTypes'
           /\ UNCHANGED client => ClientTypes'
           /\ UNCHANGED <<knownStopped, connection, call>> => LinkTypes'
           /\ UNCHANGED child => ChildTypes'
           /\ UNCHANGED <<inbox, outbox>> => PipeTypes'
           /\ UNCHANGED bounds => BoundTypes'
<1> USE TypeParts
<1> QED
  BY DEF BridgeTypes, RunnerTypes, LinkTypes, ClientTypes, ChildTypes, PipeTypes, BoundTypes,
         bridge, runner, client, child, bounds

LEMMA EditTypes ==
    ASSUME Types, Stages, Edit PROVE Types'
<1> USE DEF Edit
<1>1. RunnerTypes' /\ LinkTypes' /\ ClientTypes' /\ ChildTypes' /\ PipeTypes'
  BY TypesKept DEF bridge, runner, client, child, bounds
<1>2. BridgeTypes'
  BY BoundsAssumption, TypeParts DEF BridgeTypes, BoundTypes, Revisions
<1>3. BoundTypes'
  BY BoundsAssumption, TypeParts DEF BoundTypes, bounds
<1> QED
  BY <1>1, <1>2, <1>3, TypePartsNext

LEMMA TimerFiresTypes ==
    ASSUME Types, Stages, TimerFires PROVE Types'
<1> USE DEF TimerFires
<1>1. inflight \in SUBSET Kinds /\ queue \in Seq(Task)
  BY TypeParts DEF BridgeTypes, RunnerTypes
<1>2. pending' \in Revisions /\ inflight' \in SUBSET Kinds /\ queue' \in Seq(Task)
  BY <1>1, FlushFacts
<1>3. LinkTypes' /\ ClientTypes' /\ ChildTypes' /\ PipeTypes' /\ BoundTypes'
  BY TypesKept DEF bridge, runner, client, child, bounds
<1>4. BridgeTypes'
  BY <1>1, <1>2, TypeParts DEF BridgeTypes, bounds
<1>5. RunnerTypes'
  BY <1>1, <1>2, TypeParts DEF RunnerTypes
<1> QED
  BY <1>1, <1>2, <1>3, <1>4, <1>5, TypePartsNext

LEMMA SubmitTypes ==
    ASSUME Types, Stages, NEW kind \in Kinds, Submit(kind) PROVE Types'
<1> USE DEF Submit
<1>1. [kind |-> kind, revision |-> 0] \in Task
  BY BoundsAssumption DEF Task, Revisions
<1>2. queue' \in Seq(Task)
  BY <1>1, AppendFacts, TypeParts DEF RunnerTypes, Submitted
<1>3. LinkTypes' /\ ClientTypes' /\ ChildTypes' /\ PipeTypes'
  BY TypesKept DEF bridge, runner, client, child, bounds
<1>4. BridgeTypes'
  BY TypeParts DEF BridgeTypes, bridge, Submitted
<1>5. RunnerTypes'
  BY <1>1, <1>2, TypeParts DEF RunnerTypes
<1>6. BoundTypes'
  BY BoundsAssumption, TypeParts DEF BoundTypes, bounds
<1> QED
  BY <1>1, <1>2, <1>3, <1>4, <1>5, <1>6, TypePartsNext

LEMMA RefreshStatusTypes ==
    ASSUME Types, Stages, RefreshStatus PROVE Types'
<1> USE DEF RefreshStatus
<1>1. Liveness \in Connections
  BY TypeParts DEF LinkTypes, Liveness, Connections
<1>2. RunnerTypes' /\ ClientTypes' /\ ChildTypes' /\ PipeTypes' /\ BoundTypes'
  BY TypesKept DEF bridge, runner, client, child, bounds
<1>3. BridgeTypes'
  BY <1>1, TypeParts DEF BridgeTypes, bounds
<1>4. LinkTypes'
  BY <1>1, TypeParts DEF LinkTypes
<1> QED
  BY <1>1, <1>2, <1>3, <1>4, TypePartsNext

LEMMA TaskDoneTypes ==
    ASSUME Types, Stages, TaskDone PROVE Types'
<1> USE DEF TaskDone
<1>1. callbacks' \in Seq(Callback) /\ Head(callbacks) \in Callback
  BY TailFacts, TypeParts DEF RunnerTypes
<1>2. told' \in [about : Revisions, outcome : Outcomes \cup {Nil}]
  BY <1>1, TypeParts DEF BridgeTypes, Callback
<1>3. inflight \ {Head(callbacks).kind} \in SUBSET Kinds /\ queue \in Seq(Task)
  BY TypeParts DEF BridgeTypes, RunnerTypes
<1>4. pending' \in Revisions /\ inflight' \in SUBSET Kinds /\ queue' \in Seq(Task)
  BY <1>3, FlushFacts, TypeParts DEF BridgeTypes
<1>5. LinkTypes' /\ ClientTypes' /\ ChildTypes' /\ PipeTypes' /\ BoundTypes'
  BY TypesKept DEF bridge, runner, client, child, bounds
<1>6. BridgeTypes'
  BY <1>1, <1>2, <1>3, <1>4, TypeParts DEF BridgeTypes, bounds
<1>7. RunnerTypes'
  BY <1>1, <1>2, <1>3, <1>4, TypeParts DEF RunnerTypes
<1> QED
  BY <1>1, <1>2, <1>3, <1>4, <1>5, <1>6, <1>7, TypePartsNext

LEMMA ReadDiagnosticsTypes ==
    ASSUME Types, Stages, ReadDiagnostics PROVE Types'
<1> USE DEF ReadDiagnostics
<1>1. "ui" \in Threads /\ "metrics" \in Commands /\ revision \in Revisions
  BY BoundsAssumption, TypeParts DEF Threads, Commands, ClientTypes, Revisions
<1>2. RunnerTypes' /\ ClientTypes' /\ ChildTypes'
  BY TypesKept DEF bridge, runner, client, child, bounds
<1>3. BridgeTypes'
  BY TypeParts DEF BridgeTypes, bridge
<1>4. LinkTypes'
  BY <1>1, RequestFacts, TypeParts DEF LinkTypes
<1>5. PipeTypes'
  BY <1>1, RequestFacts, TypeParts DEF PipeTypes
<1>6. BoundTypes'
  BY BoundsAssumption, TypeParts DEF BoundTypes, bounds
<1> QED
  BY <1>1, <1>2, <1>3, <1>4, <1>5, <1>6, TypePartsNext

LEMMA DiagnosticsReadTypes ==
    ASSUME Types, Stages, DiagnosticsRead PROVE Types'
<1> USE DEF DiagnosticsRead
<1>1. "ui" \in Threads /\ "profiles" \in Commands /\ revision \in Revisions
  BY BoundsAssumption, TypeParts DEF Threads, Commands, ClientTypes, Revisions
<1>2. RunnerTypes' /\ ClientTypes' /\ ChildTypes' /\ BoundTypes'
  BY TypesKept DEF bridge, runner, client, child, bounds
<1>3. BridgeTypes'
  BY TypeParts DEF BridgeTypes, bridge, bounds
<1>4. LinkTypes'
  BY <1>1, RequestFacts, TypeParts DEF LinkTypes
<1>5. PipeTypes'
  BY <1>1, RequestFacts, TypeParts DEF PipeTypes
<1> QED
  BY <1>1, <1>2, <1>3, <1>4, <1>5, TypePartsNext

LEMMA CloseRunnerTypes ==
    ASSUME Types, Stages, CloseRunner PROVE Types'
<1> USE DEF CloseRunner
<1>1. queue' \in Seq(Task)
  BY TailFacts, EmptySeq, TypeParts DEF RunnerTypes, Stages
<1>2. LinkTypes' /\ ClientTypes' /\ ChildTypes' /\ PipeTypes' /\ BoundTypes'
  BY TypesKept DEF bridge, runner, client, child, bounds
<1>3. BridgeTypes'
  BY TypeParts DEF BridgeTypes, bridge, bounds
<1>4. RunnerTypes'
  BY <1>1, TypeParts DEF RunnerTypes
<1> QED
  BY <1>1, <1>2, <1>3, <1>4, TypePartsNext

LEMMA CloseBridgeTypes ==
    ASSUME Types, Stages, CloseBridge PROVE Types'
<1> USE DEF CloseBridge
<1>1. "ui" \in Threads /\ "shutdown" \in Commands /\ revision \in Revisions
  BY BoundsAssumption, TypeParts DEF Threads, Commands, ClientTypes, Revisions
<1>2. RunnerTypes' /\ ClientTypes' /\ ChildTypes' /\ BoundTypes'
  BY TypesKept DEF bridge, runner, client, child, bounds
<1>3. BridgeTypes'
  BY BoundsAssumption, TypeParts DEF BridgeTypes, bounds, Revisions
<1>4. LinkTypes'
  BY <1>1, RequestFacts, TypeParts DEF LinkTypes
<1>5. PipeTypes'
  BY <1>1, RequestFacts, TypeParts DEF PipeTypes
<1> QED
  BY <1>1, <1>2, <1>3, <1>4, <1>5, TypePartsNext

LEMMA CloseClientTypes ==
    ASSUME Types, Stages, CloseClient PROVE Types'
<1> USE DEF CloseClient
<1>1. [call EXCEPT !["ui"] = Nil] \in [Threads -> Call \cup {Nil}]
  BY TypeParts DEF LinkTypes, Threads
<1>2. call' \in [Threads -> Call \cup {Nil}]
  BY <1>1, LostFacts
<1>3. RunnerTypes' /\ ClientTypes' /\ BoundTypes'
  BY TypesKept DEF bridge, runner, client, child, bounds
<1>4. BridgeTypes'
  BY TypeParts DEF BridgeTypes, bridge, bounds
<1>5. LinkTypes'
  BY <1>1, <1>2, TypeParts DEF LinkTypes, Connections
<1>6. ChildTypes'
  BY ZeroIsRevision DEF ChildTypes, StopCurrentProcess
<1>7. PipeTypes'
  BY EmptySeq, TypeParts DEF PipeTypes, StopCurrentProcess
<1> QED
  BY <1>1, <1>2, <1>3, <1>4, <1>5, <1>6, <1>7, TypePartsNext

LEMMA DeliverTypes ==
    ASSUME Types, Stages, Deliver PROVE Types'
<1> USE DEF Deliver
<1>1. outbox' \in Seq(Answer) /\ Head(outbox) \in Answer
  BY TailFacts, TypeParts DEF PipeTypes
<1>2. call' \in [Threads -> Call \cup {Nil}]
  BY <1>1, TypeParts DEF LinkTypes, Answer, Call, Waiting
<1>3. BridgeTypes' /\ RunnerTypes' /\ ClientTypes' /\ ChildTypes' /\ BoundTypes'
  BY TypesKept DEF bridge, runner, client, child, bounds
<1>4. LinkTypes'
  BY <1>1, <1>2, TypeParts DEF LinkTypes, Connections
<1>5. PipeTypes'
  BY <1>1, <1>2, TypeParts DEF PipeTypes
<1> QED
  BY <1>1, <1>2, <1>3, <1>4, <1>5, TypePartsNext

LEMMA DisconnectTypes ==
    ASSUME Types, Stages, Disconnect PROVE Types'
<1> USE DEF Disconnect
<1>1. call' \in [Threads -> Call \cup {Nil}]
  BY LostFacts, TypeParts DEF LinkTypes
<1>2. BridgeTypes' /\ RunnerTypes' /\ ClientTypes' /\ ChildTypes' /\ PipeTypes' /\ BoundTypes'
  BY TypesKept DEF bridge, runner, client, child, bounds
<1>3. LinkTypes'
  BY <1>1, TypeParts DEF LinkTypes, Connections
<1> QED
  BY <1>1, <1>2, <1>3, TypePartsNext

LEMMA TimeOutTypes ==
    ASSUME Types, Stages, NEW t \in Threads, TimeOut(t) PROVE Types'
<1> USE DEF TimeOut
<1>1. \A m \in Command : [m EXCEPT !.by = Nil] \in Command
  BY DEF Command
<1>2. \A m \in Answer : [m EXCEPT !.by = Nil] \in Answer
  BY DEF Answer
<1>3. inbox' \in Seq(Command) /\ outbox' \in Seq(Answer)
  BY <1>1, <1>2, ForgetFacts, TypeParts DEF PipeTypes
<1>4. call' \in [Threads -> Call \cup {Nil}]
  BY TypeParts DEF LinkTypes, Waiting, Call, NoAnswer
<1>5. BridgeTypes' /\ RunnerTypes' /\ ClientTypes' /\ ChildTypes'
  BY TypesKept DEF bridge, runner, client, child, bounds
<1>6. LinkTypes'
  BY <1>1, <1>2, <1>3, <1>4, TypeParts DEF LinkTypes, Connections
<1>7. PipeTypes'
  BY <1>1, <1>2, <1>3, <1>4, TypeParts DEF PipeTypes
<1>8. BoundTypes'
  BY BoundsAssumption, TypeParts DEF BoundTypes, bounds
<1> QED
  BY <1>1, <1>2, <1>3, <1>4, <1>5, <1>6, <1>7, <1>8, TypePartsNext

LEMMA ServeTypes ==
    ASSUME Types, Stages, Serve PROVE Types'
<1> USE DEF Serve
<1>1. inbox # <<>> /\ inbox \in Seq(Command)
  BY TypeParts DEF PipeTypes
<1>2. Tail(inbox) \in Seq(Command) /\ Head(inbox) \in Command
  BY <1>1, TailFacts
<1>3. ChildTypes'
  BY <1>2, TypeParts DEF ChildTypes, Handle, Raise, Command, child
<1>4. PICK a \in Answers : outbox' = Append(outbox, [by |-> Head(inbox).by, answer |-> a, revision |-> active'])
  BY DEF Handle, Raise, Reply, Answers
<1>5. outbox' \in Seq(Answer)
  BY <1>2, <1>3, <1>4, AppendFacts, TypeParts DEF PipeTypes, ChildTypes, Answer, Command
<1>6. BridgeTypes' /\ RunnerTypes' /\ LinkTypes' /\ ClientTypes'
  BY TypesKept DEF bridge, runner, client, child, bounds
<1>7. ChildTypes'
  BY <1>3
<1>8. PipeTypes'
  BY <1>1, <1>2, <1>3, <1>4, <1>5, EmptySeq DEF PipeTypes
<1>9. BoundTypes'
  BY BoundsAssumption, TypeParts DEF BoundTypes, Raise
<1> QED
  BY <1>6, <1>7, <1>8, <1>9, TypePartsNext

LEMMA CrashTypes ==
    ASSUME Types, Stages, Crash PROVE Types'
<1> USE DEF Crash
<1>1. BridgeTypes' /\ RunnerTypes' /\ LinkTypes' /\ ClientTypes'
  BY TypesKept DEF bridge, runner, client, child, bounds
<1>2. ChildTypes'
  BY TypeParts DEF ChildTypes
<1>3. PipeTypes'
  BY EmptySeq, TypeParts DEF PipeTypes
<1>4. BoundTypes'
  BY BoundsAssumption, TypeParts DEF BoundTypes, bounds
<1> QED
  BY <1>1, <1>2, <1>3, <1>4, TypePartsNext

LEMMA HangTypes ==
    ASSUME Types, Stages, Hang PROVE Types'
<1> USE DEF Hang
<1>1. BridgeTypes' /\ RunnerTypes' /\ LinkTypes' /\ ClientTypes' /\ PipeTypes'
  BY TypesKept DEF bridge, runner, client, child, bounds
<1>2. ChildTypes'
  BY TypeParts DEF ChildTypes
<1>3. BoundTypes'
  BY BoundsAssumption, TypeParts DEF BoundTypes, bounds
<1> QED
  BY <1>1, <1>2, <1>3, TypePartsNext

LEMMA HandleHeartbeatTypes ==
    ASSUME Types, Stages, HandleHeartbeat PROVE Types'
<1> USE DEF HandleHeartbeat
<1>1. BridgeTypes' /\ RunnerTypes' /\ ChildTypes' /\ PipeTypes' /\ BoundTypes'
  BY TypesKept DEF bridge, runner, client, child, bounds
<1>2. LinkTypes'
  BY TypeParts DEF LinkTypes, Connections
<1>3. ClientTypes'
  BY TypeParts DEF ClientTypes
<1> QED
  BY <1>1, <1>2, <1>3, TypePartsNext

LEMMA HeartbeatAgesTypes ==
    ASSUME Types, Stages, HeartbeatAges PROVE Types'
<1> USE DEF HeartbeatAges
<1>1. BridgeTypes' /\ RunnerTypes' /\ LinkTypes' /\ ChildTypes' /\ PipeTypes' /\ BoundTypes'
  BY TypesKept DEF bridge, runner, client, child, bounds
<1>2. ClientTypes'
  BY TypeParts DEF ClientTypes
<1> QED
  BY <1>1, <1>2, TypePartsNext

LEMMA ConfigurePreviewSlotTypes ==
    ASSUME Types, Stages, ConfigurePreviewSlot PROVE Types'
<1> USE DEF ConfigurePreviewSlot
<1>1. "events" \in Threads /\ "configure" \in Commands /\ revision \in Revisions
  BY BoundsAssumption, TypeParts DEF Threads, Commands, ClientTypes, Revisions
<1>2. BridgeTypes' /\ RunnerTypes' /\ ClientTypes' /\ ChildTypes'
  BY TypesKept DEF bridge, runner, client, child, bounds
<1>3. LinkTypes'
  BY <1>1, RequestFacts, TypeParts DEF LinkTypes
<1>4. PipeTypes'
  BY <1>1, RequestFacts, TypeParts DEF PipeTypes
<1>5. BoundTypes'
  BY BoundsAssumption, TypeParts DEF BoundTypes, bounds
<1> QED
  BY <1>1, <1>2, <1>3, <1>4, <1>5, TypePartsNext

LEMMA SlotConfiguredTypes ==
    ASSUME Types, Stages, SlotConfigured PROVE Types'
<1> USE DEF SlotConfigured
<1>1. BridgeTypes' /\ RunnerTypes' /\ ClientTypes' /\ ChildTypes' /\ PipeTypes' /\ BoundTypes'
  BY TypesKept DEF bridge, runner, client, child, bounds
<1>2. LinkTypes'
  BY TypeParts DEF LinkTypes, Threads
<1> QED
  BY <1>1, <1>2, TypePartsNext

LEMMA BeginActivateTypes ==
    ASSUME Types, Stages, BeginActivate PROVE Types'
<1> USE DEF BeginActivate
<1>1. queue # <<>> /\ queue \in Seq(Task)
  BY TypeParts DEF RunnerTypes, Stages, Running
<1>2. Head(queue) \in Task
  BY <1>1, TailFacts
<1>3. Head(queue).revision \in Revisions
  BY <1>2 DEF Task
<1>4. "runner" \in Threads /\ "activate" \in Commands /\ revision \in Revisions
  BY BoundsAssumption, TypeParts DEF Threads, Commands, ClientTypes, Revisions
<1>5. BridgeTypes' /\ ClientTypes' /\ ChildTypes' /\ BoundTypes'
  BY TypesKept DEF bridge, runner, client, child, bounds
<1>6. RunnerTypes'
  BY TypeParts DEF RunnerTypes, runner, Go, Restarting
<1>7. LinkTypes'
  BY <1>1, <1>2, <1>3, <1>4, RequestFacts, TypeParts DEF LinkTypes
<1>8. PipeTypes'
  BY <1>1, <1>2, <1>3, <1>4, RequestFacts, TypeParts DEF PipeTypes
<1> QED
  BY <1>1, <1>2, <1>3, <1>4, <1>5, <1>6, <1>7, <1>8, TypePartsNext

LEMMA BeginPanicTypes ==
    ASSUME Types, Stages, BeginPanic PROVE Types'
<1> USE DEF BeginPanic
<1>1. "runner" \in Threads /\ "panic" \in Commands /\ revision \in Revisions
  BY BoundsAssumption, TypeParts DEF Threads, Commands, ClientTypes, Revisions
<1>2. BridgeTypes' /\ ClientTypes' /\ ChildTypes' /\ BoundTypes'
  BY TypesKept DEF bridge, runner, client, child, bounds
<1>3. RunnerTypes'
  BY TypeParts DEF RunnerTypes, runner, Go, Restarting
<1>4. LinkTypes'
  BY <1>1, RequestFacts, TypeParts DEF LinkTypes
<1>5. PipeTypes'
  BY <1>1, RequestFacts, TypeParts DEF PipeTypes
<1> QED
  BY <1>1, <1>2, <1>3, <1>4, <1>5, TypePartsNext

LEMMA BeginToggleTypes ==
    ASSUME Types, Stages, BeginToggle PROVE Types'
<1> USE DEF BeginToggle
<1>1. "runner" \in Threads /\ "status" \in Commands /\ revision \in Revisions
  BY BoundsAssumption, TypeParts DEF Threads, Commands, ClientTypes, Revisions
<1>2. BridgeTypes' /\ ClientTypes' /\ ChildTypes' /\ BoundTypes'
  BY TypesKept DEF bridge, runner, client, child, bounds
<1>3. RunnerTypes'
  BY TypeParts DEF RunnerTypes, runner, Go, Restarting
<1>4. LinkTypes'
  BY <1>1, RequestFacts, TypeParts DEF LinkTypes
<1>5. PipeTypes'
  BY <1>1, RequestFacts, TypeParts DEF PipeTypes
<1> QED
  BY <1>1, <1>2, <1>3, <1>4, <1>5, TypePartsNext

LEMMA ToggleTypes ==
    ASSUME Types, Stages, Toggle PROVE Types'
<1> USE DEF Toggle
<1>1. "runner" \in Threads /\ "pause" \in Commands /\ "play" \in Commands /\ revision \in Revisions
  BY TypeParts DEF Threads, Commands, ClientTypes
<1>2. [call EXCEPT !["runner"] = Nil] \in [Threads -> Call \cup {Nil}]
  BY TypeParts DEF LinkTypes, Threads
<1>3. "failed" \in Outcomes
  BY DEF Outcomes
<1>4. BridgeTypes' /\ ClientTypes' /\ ChildTypes' /\ BoundTypes'
  BY TypesKept DEF bridge, runner, client, child, bounds
<1>5. RunnerTypes'
  BY <1>1, <1>2, <1>3, FinishFacts, TypeParts DEF RunnerTypes, Stages, Go, Restarting
<1>6. LinkTypes'
  BY <1>1, <1>2, <1>3, RequestFacts, TypeParts DEF LinkTypes
<1>7. PipeTypes'
  BY <1>1, <1>2, <1>3, RequestFacts, TypeParts DEF PipeTypes
<1> QED
  BY <1>1, <1>2, <1>3, <1>4, <1>5, <1>6, <1>7, TypePartsNext

LEMMA BeginRefreshTypes ==
    ASSUME Types, Stages, BeginRefresh PROVE Types'
<1> USE DEF BeginRefresh
<1>1. "runner" \in Threads /\ "status" \in Commands /\ "metrics" \in Commands /\ revision \in Revisions
  BY TypeParts DEF Threads, Commands, ClientTypes
<1>2. [call EXCEPT !["runner"] = Nil] \in [Threads -> Call \cup {Nil}]
  BY TypeParts DEF LinkTypes, Threads
<1>3. "failed" \in Outcomes
  BY DEF Outcomes
<1>4. BridgeTypes' /\ ClientTypes' /\ ChildTypes' /\ BoundTypes'
  BY TypesKept DEF bridge, runner, client, child, bounds
<1>5. RunnerTypes'
  BY TypeParts DEF RunnerTypes, runner, Go, Restarting
<1>6. LinkTypes'
  BY <1>1, <1>2, <1>3, RequestFacts, TypeParts DEF LinkTypes
<1>7. PipeTypes'
  BY <1>1, <1>2, <1>3, RequestFacts, TypeParts DEF PipeTypes
<1> QED
  BY <1>1, <1>2, <1>3, <1>4, <1>5, <1>6, <1>7, TypePartsNext

LEMMA MetricsTypes ==
    ASSUME Types, Stages, Metrics PROVE Types'
<1> USE DEF Metrics
<1>1. "runner" \in Threads /\ "status" \in Commands /\ "metrics" \in Commands /\ revision \in Revisions
  BY TypeParts DEF Threads, Commands, ClientTypes
<1>2. [call EXCEPT !["runner"] = Nil] \in [Threads -> Call \cup {Nil}]
  BY TypeParts DEF LinkTypes, Threads
<1>3. "failed" \in Outcomes
  BY DEF Outcomes
<1>4. BridgeTypes' /\ ClientTypes' /\ ChildTypes' /\ BoundTypes'
  BY TypesKept DEF bridge, runner, client, child, bounds
<1>5. RunnerTypes'
  BY <1>1, <1>2, <1>3, FinishFacts, TypeParts DEF RunnerTypes, Stages, Go, Restarting
<1>6. LinkTypes'
  BY <1>1, <1>2, <1>3, RequestFacts, TypeParts DEF LinkTypes
<1>7. PipeTypes'
  BY <1>1, <1>2, <1>3, RequestFacts, TypeParts DEF PipeTypes
<1> QED
  BY <1>1, <1>2, <1>3, <1>4, <1>5, <1>6, <1>7, TypePartsNext

LEMMA ReturnTypes ==
    ASSUME Types, Stages, Return PROVE Types'
<1> USE DEF Return
<1>1. queue # <<>> /\ queue \in Seq(Task)
  BY TypeParts DEF RunnerTypes, Stages, Running
<1>2. Head(queue) \in Task
  BY <1>1, TailFacts
<1>3. Head(queue).revision \in Revisions
  BY <1>2 DEF Task
<1>4. {"ok", "rejected", "failed"} = Outcomes
  BY DEF Outcomes
<1>5. [call EXCEPT !["runner"] = Nil] \in [Threads -> Call \cup {Nil}]
  BY TypeParts DEF LinkTypes, Threads
<1>6. BridgeTypes' /\ ChildTypes' /\ PipeTypes' /\ BoundTypes'
  BY TypesKept DEF bridge, runner, client, child, bounds
<1>7. RunnerTypes'
  BY <1>1, <1>2, <1>3, <1>4, <1>5, FinishFacts, TypeParts DEF RunnerTypes, Stages, Go, Restarting
<1>8. LinkTypes'
  BY <1>1, <1>2, <1>3, <1>4, <1>5, TypeParts DEF LinkTypes
<1>9. ClientTypes'
  BY <1>1, <1>2, <1>3, <1>4, <1>5, TypeParts DEF ClientTypes, Keep, client
<1> QED
  BY <1>1, <1>2, <1>3, <1>4, <1>5, <1>6, <1>7, <1>8, <1>9, TypePartsNext

LEMMA BeginRestartTypes ==
    ASSUME Types, Stages, BeginRestart PROVE Types'
<1> USE DEF BeginRestart
<1>1. BridgeTypes' /\ ClientTypes' /\ ChildTypes' /\ PipeTypes' /\ BoundTypes'
  BY TypesKept DEF bridge, runner, client, child, bounds
<1>2. RunnerTypes'
  BY TypeParts DEF RunnerTypes, runner, Go, Restarting
<1>3. LinkTypes'
  BY TypeParts DEF LinkTypes, Connections
<1> QED
  BY <1>1, <1>2, <1>3, TypePartsNext

LEMMA ShutdownTypes ==
    ASSUME Types, Stages, Shutdown PROVE Types'
<1> USE DEF Shutdown
<1>1. "runner" \in Threads /\ "shutdown" \in Commands /\ revision \in Revisions
  BY BoundsAssumption, TypeParts DEF Threads, Commands, ClientTypes, Revisions
<1>2. BridgeTypes' /\ ClientTypes' /\ ChildTypes' /\ BoundTypes'
  BY TypesKept DEF bridge, runner, client, child, bounds
<1>3. RunnerTypes'
  BY TypeParts DEF RunnerTypes, runner, Go, Restarting
<1>4. LinkTypes'
  BY <1>1, RequestFacts, TypeParts DEF LinkTypes
<1>5. PipeTypes'
  BY <1>1, RequestFacts, TypeParts DEF PipeTypes
<1> QED
  BY <1>1, <1>2, <1>3, <1>4, <1>5, TypePartsNext

LEMMA ReplaceTypes ==
    ASSUME Types, Stages, Replace PROVE Types'
<1> USE DEF Replace
<1>1. [call EXCEPT !["runner"] = Nil] \in [Threads -> Call \cup {Nil}]
  BY TypeParts DEF LinkTypes, Threads
<1>2. call' \in [Threads -> Call \cup {Nil}]
  BY <1>1, LostFacts
<1>3. BridgeTypes' /\ ClientTypes' /\ BoundTypes'
  BY TypesKept DEF bridge, runner, client, child, bounds
<1>4. RunnerTypes'
  BY TypeParts DEF RunnerTypes, runner, Go, Restarting
<1>5. LinkTypes'
  BY <1>1, <1>2, TypeParts DEF LinkTypes, Connections
<1>6. ChildTypes'
  BY ZeroIsRevision DEF ChildTypes, StopCurrentProcess
<1>7. PipeTypes'
  BY EmptySeq, TypeParts DEF PipeTypes, StopCurrentProcess
<1> QED
  BY <1>1, <1>2, <1>3, <1>4, <1>5, <1>6, <1>7, TypePartsNext

LEMMA SpawnTypes ==
    ASSUME Types, Stages, Spawn PROVE Types'
<1> USE DEF Spawn
<1>1. 0 \in Revisions
  BY BoundsAssumption DEF Revisions
<1>2. [command |-> "handshake", revision |-> 0, by |-> "runner"] \in Command
  BY <1>1 DEF Command, Commands, Threads
<1>3. [command |-> "handshake", answer |-> "waiting", revision |-> 0] \in Call
  BY <1>1 DEF Call, Commands, NoAnswer
<1>4. inbox' \in Seq(Command)
  BY <1>2
<1>5. BridgeTypes' /\ BoundTypes'
  BY TypesKept DEF bridge, runner, client, child, bounds
<1>6. RunnerTypes'
  BY TypeParts DEF RunnerTypes, runner, Go, Restarting
<1>7. LinkTypes'
  BY <1>1, <1>2, <1>3, <1>4, TypeParts DEF LinkTypes, Connections
<1>8. ClientTypes'
  BY TypeParts DEF ClientTypes
<1>9. ChildTypes'
  BY TypeParts DEF ChildTypes
<1>10. PipeTypes'
  BY <1>1, <1>2, <1>3, <1>4, TypeParts DEF PipeTypes
<1> QED
  BY <1>1, <1>2, <1>3, <1>4, <1>5, <1>6, <1>7, <1>8, <1>9, <1>10, TypePartsNext

LEMMA SpawnFailsTypes ==
    ASSUME Types, Stages, SpawnFails PROVE Types'
<1> USE DEF SpawnFails
<1>1. {"ok", "rejected", "failed"} = Outcomes
  BY DEF Outcomes
<1>2. BridgeTypes' /\ ChildTypes' /\ PipeTypes'
  BY TypesKept DEF bridge, runner, client, child, bounds
<1>3. RunnerTypes'
  BY <1>1, FinishFacts, TypeParts DEF RunnerTypes, Stages, Go, Restarting
<1>4. LinkTypes'
  BY TypeParts DEF LinkTypes, Connections
<1>5. ClientTypes'
  BY TypeParts DEF ClientTypes
<1>6. BoundTypes'
  BY BoundsAssumption, TypeParts DEF BoundTypes, bounds
<1> QED
  BY <1>1, <1>2, <1>3, <1>4, <1>5, <1>6, TypePartsNext

LEMMA GreetedTypes ==
    ASSUME Types, Stages, Greeted PROVE Types'
<1> USE DEF Greeted
<1>1. {"ok", "rejected", "failed"} = Outcomes
  BY DEF Outcomes
<1>2. [call EXCEPT !["runner"] = Nil] \in [Threads -> Call \cup {Nil}]
  BY TypeParts DEF LinkTypes, Threads
<1>3. BridgeTypes' /\ ClientTypes' /\ ChildTypes' /\ PipeTypes' /\ BoundTypes'
  BY TypesKept DEF bridge, runner, client, child, bounds
<1>4. RunnerTypes'
  BY <1>1, <1>2, FinishFacts, TypeParts DEF RunnerTypes, Stages, Go, Restarting
<1>5. LinkTypes'
  BY <1>1, <1>2, TypeParts DEF LinkTypes, Connections
<1> QED
  BY <1>1, <1>2, <1>3, <1>4, <1>5, TypePartsNext

LEMMA NotGreetedTypes ==
    ASSUME Types, Stages, NotGreeted PROVE Types'
<1> USE DEF NotGreeted
<1>1. [call EXCEPT !["runner"] = Nil] \in [Threads -> Call \cup {Nil}]
  BY TypeParts DEF LinkTypes, Threads
<1>2. call' \in [Threads -> Call \cup {Nil}]
  BY <1>1, LostFacts
<1>3. {"ok", "rejected", "failed"} = Outcomes
  BY DEF Outcomes
<1>4. BridgeTypes' /\ ClientTypes' /\ BoundTypes'
  BY TypesKept DEF bridge, runner, client, child, bounds
<1>5. RunnerTypes'
  BY <1>1, <1>2, <1>3, FinishFacts, TypeParts DEF RunnerTypes, Stages, Go, Restarting
<1>6. LinkTypes'
  BY <1>1, <1>2, <1>3, TypeParts DEF LinkTypes, Connections
<1>7. ChildTypes'
  BY ZeroIsRevision DEF ChildTypes, StopCurrentProcess
<1>8. PipeTypes'
  BY EmptySeq, TypeParts DEF PipeTypes, StopCurrentProcess
<1> QED
  BY <1>1, <1>2, <1>3, <1>4, <1>5, <1>6, <1>7, <1>8, TypePartsNext

LEMMA RebuildTypes ==
    ASSUME Types, Stages, Rebuild PROVE Types'
<1> USE DEF Rebuild
<1>1. "runner" \in Threads /\ "activate" \in Commands /\ snapshot \in Revisions
  BY TypeParts DEF Threads, Commands, ClientTypes
<1>2. BridgeTypes' /\ ClientTypes' /\ ChildTypes' /\ BoundTypes'
  BY TypesKept DEF bridge, runner, client, child, bounds
<1>3. RunnerTypes'
  BY TypeParts DEF RunnerTypes, runner, Go, Restarting
<1>4. LinkTypes'
  BY <1>1, RequestFacts, TypeParts DEF LinkTypes
<1>5. PipeTypes'
  BY <1>1, RequestFacts, TypeParts DEF PipeTypes
<1> QED
  BY <1>1, <1>2, <1>3, <1>4, <1>5, TypePartsNext

LEMMA RebuiltTypes ==
    ASSUME Types, Stages, Rebuilt PROVE Types'
<1> USE DEF Rebuilt
<1>1. {"ok", "rejected", "failed"} = Outcomes
  BY DEF Outcomes
<1>2. [call EXCEPT !["runner"] = Nil] \in [Threads -> Call \cup {Nil}]
  BY TypeParts DEF LinkTypes, Threads
<1>3. BridgeTypes' /\ ChildTypes' /\ PipeTypes' /\ BoundTypes'
  BY TypesKept DEF bridge, runner, client, child, bounds
<1>4. RunnerTypes'
  BY <1>1, <1>2, FinishFacts, TypeParts DEF RunnerTypes, Stages, Go, Restarting
<1>5. LinkTypes'
  BY <1>1, <1>2, TypeParts DEF LinkTypes
<1>6. ClientTypes'
  BY <1>1, <1>2, TypeParts DEF ClientTypes, Keep, client
<1> QED
  BY <1>1, <1>2, <1>3, <1>4, <1>5, <1>6, TypePartsNext

LEMMA TypesNext ==
    ASSUME Types, Stages, Next PROVE Types'
<1>1. ASSUME Closed PROVE Types'
  BY <1>1, ClosedChangesNothing DEF vars, Types, TypeOK, bridge, runner, client, child, bounds
<1> QED
  BY <1>1, EditTypes, TimerFiresTypes, SubmitTypes, RefreshStatusTypes, TaskDoneTypes, ReadDiagnosticsTypes, DiagnosticsReadTypes, CloseRunnerTypes, CloseBridgeTypes, CloseClientTypes, DeliverTypes, DisconnectTypes, TimeOutTypes, ServeTypes, CrashTypes, HangTypes, HandleHeartbeatTypes, HeartbeatAgesTypes, ConfigurePreviewSlotTypes, SlotConfiguredTypes, BeginActivateTypes, BeginPanicTypes, BeginToggleTypes, ToggleTypes, BeginRefreshTypes, MetricsTypes, ReturnTypes, BeginRestartTypes, ShutdownTypes, ReplaceTypes, SpawnTypes, SpawnFailsTypes, GreetedTypes, NotGreetedTypes, RebuildTypes, RebuiltTypes
     DEF Next, Window, Events, Faults, Operation

-----------------------------------------------------------------------------
(* What steps do to the messages and to what is reported.                   *)

Core == Stages /\ Fresh /\ Matched /\ Obeyed /\ Reported

\* The runner's operation goes on unless the step ends it.
Kept == <<process, active, revision, snapshot, outbox>>
SameOperation == step # "idle" => queue' # <<>> /\ Head(queue') = Head(queue)

\* A step that touches neither the messages nor the runner's request.
LEMMA QuietStep ==
    ASSUME Inv, UNCHANGED <<Kept, step, inbox>>, SameOperation, BadNews => BadNews',
           \/ call'["runner"] = call["runner"]
           \/ process # "alive" /\ call'["runner"] # Nil /\ call'["runner"].answer = "lost"
    PROVE  Core'
<1>1. Waiting("runner")' => Waiting("runner")
  BY DEF Waiting
<1>2. process = "alive" => call'["runner"] = call["runner"] /\ (Waiting("runner") <=> Waiting("runner")')
  BY DEF Waiting
<1>3. Stages'
  BY <1>1 DEF Inv, Stages, SameOperation, Running, Restarting
<1>4. Fresh'
  BY DEF Inv, Fresh, Settled, Kept
<1>5. Matched'
  BY <1>2 DEF Inv, Matched, Kept
<1>6. Activating' => Activating /\ Target' = Target
  BY DEF Inv, Stages, Activating, Target, SameOperation, Running, Kept
<1>7. Obeyed'
  BY <1>2, <1>6 DEF Inv, Obeyed, Settled, Kept
<1>8. Working => Working'
  BY DEF Inv, Stages, Working, Running, SameOperation
<1>9. Reported'
  BY <1>8 DEF Inv, Reported, Settled, Kept
<1> QED
  BY <1>3, <1>4, <1>5, <1>7, <1>9 DEF Core

\* A request of another thread, which activates nothing.
LEMMA OtherRequest ==
    ASSUME Inv, NEW t \in {"ui", "events"}, NEW c \in Commands \ {"activate"}, Request(t, c, revision),
           UNCHANGED <<Kept, step, queue, callbacks, told>>
    PROVE  Core'
<1>1. /\ t \in Threads /\ c \in Commands /\ revision \in Revisions /\ Types /\ "runner" \in Threads
      /\ t # "runner" /\ "runner" \in Threads \ {t} /\ call \in [Threads -> Call \cup {Nil}]
  BY TypeParts DEF Inv, ClientTypes, LinkTypes, Threads
<1>2. Sends(t, c, revision) \/ Refused(t)
  BY <1>1, RequestFacts
<1>3. BadNews => BadNews' /\ SameOperation
  BY DEF BadNews, SameOperation, Inv, Stages
<1>4. CASE Refused(t)
  <2>1. SameOperation
    BY DEF SameOperation, Inv, Stages
  <2>2. \/ call'["runner"] = call["runner"]
        \/ process # "alive" /\ call'["runner"] # Nil /\ call'["runner"].answer = "lost"
    BY <1>1, <1>4 DEF Refused
  <2> QED
    BY <1>3, <1>4, <2>1, <2>2, QuietStep DEF Refused
<1>5. CASE Sends(t, c, revision)
  <2> DEFINE m == [command |-> c, revision |-> revision, by |-> t]
             n == Len(inbox)
  <2>1. m \in Command /\ inbox \in Seq(Command) /\ m.by = t /\ m.command = c
    BY <1>1, TypeParts DEF Command, PipeTypes
  <2>2. inbox' = Append(inbox, m) /\ process = "alive" /\ call'["runner"] = call["runner"]
    BY <1>1, <1>5 DEF Sends
  <2>3. /\ n \in Nat /\ \A i \in 1..n : inbox'[i] = inbox[i]
        /\ inbox'[n + 1] = m /\ DOMAIN inbox' = 1..(n + 1) /\ DOMAIN inbox = 1..n
    BY <2>1, <2>2, AppendFacts
  <2> HIDE DEF m, n
  <2>4. /\ \A i \in DOMAIN inbox' : inbox'[i].by = "runner" => i \in DOMAIN inbox /\ inbox'[i] = inbox[i]
        /\ \A i \in DOMAIN inbox' : inbox'[i].command = "activate" => i \in DOMAIN inbox /\ inbox'[i] = inbox[i]
        /\ Waiting("runner") <=> Waiting("runner")'
    BY <1>1, <2>1, <2>2, <2>3 DEF Waiting
  <2>5. \A r : Settled(r) => Settled(r)'
    BY <2>4 DEF Settled, Kept
  <2>6. Stages'
    BY <2>4 DEF Inv, Stages, Running
  <2>7. Fresh'
    BY <2>2, <2>5 DEF Inv, Fresh, Kept, Settled
  <2>8. Matched'
    BY <2>4 DEF Inv, Matched, Kept
  <2>9. Obeyed'
    <3>1. Activating' => Activating /\ Target' = Target
      BY DEF Activating, Target, Running, Kept
    <3>2. Settled(Target) /\ Activating' => Settled(Target)'
      BY <2>4, <3>1 DEF Settled, Kept
    <3> QED
      BY <2>2, <2>4, <3>1, <3>2 DEF Inv, Obeyed, Kept
  <2>10. Reported'
    BY <1>3, <2>4 DEF Inv, Reported, Working, Running, Kept, Settled
  <2> QED
    BY <2>6, <2>7, <2>8, <2>9, <2>10 DEF Core
<1> QED
  BY <1>2, <1>4, <1>5

\* The stages in which the runner waits for an answer.
Sent == {"answer", "lookup", "metrics", "stop", "rebuilt"}

\* A request of the runner: it has none out, so that its message is the only one,
\* and an activation is the last the child will see.
LEMMA RunnerRequest ==
    ASSUME Inv, NEW c \in Commands, NEW r \in Revisions, Request("runner", c, r), ~Waiting("runner"),
           UNCHANGED <<Kept, queue, callbacks, told>>, step' \in Sent, Stages',
           Activating' => c = "activate" /\ r = Target', c = "activate" => Activating',
           Working => Working'
    PROVE  Core'
<1>1. "runner" \in Threads /\ call \in [Threads -> Call \cup {Nil}] /\ Types
  BY TypeParts DEF Inv, LinkTypes, Threads
<1>2. Sends("runner", c, r) \/ Refused("runner")
  BY <1>1, RequestFacts
<1>3. process = "alive" =>
        /\ \A i \in DOMAIN inbox : inbox[i].by # "runner"
        /\ \A k \in DOMAIN outbox : outbox[k].by # "runner"
  BY DEF Inv, Matched
<1>4. (BadNews <=> BadNews')
  BY DEF BadNews
<1>5. CASE Refused("runner")
  <2>1. inbox' = inbox /\ call'["runner"] # Nil /\ call'["runner"].answer = "lost"
    BY <1>5 DEF Refused
  <2>2. Fresh'
    BY <2>1 DEF Inv, Fresh, Kept, Settled, Sent
  <2>3. Matched'
    BY <2>1, <1>3 DEF Matched, Kept
  <2>4. Obeyed'
    BY <2>1, <1>3 DEF Obeyed, Kept
  <2>5. Reported'
    BY <2>1, <1>4 DEF Inv, Reported, Kept, Settled
  <2> QED
    BY <2>2, <2>3, <2>4, <2>5 DEF Core
<1>6. CASE Sends("runner", c, r)
  <2> DEFINE m == [command |-> c, revision |-> r, by |-> "runner"]
             n == Len(inbox)
  <2>1. /\ m \in Command /\ inbox \in Seq(Command)
        /\ m.by = "runner" /\ m.command = c /\ m.revision = r
    BY <1>1, TypeParts DEF Command, PipeTypes
  <2>2. /\ inbox' = Append(inbox, m) /\ process = "alive" /\ outbox' = outbox
        /\ call'["runner"] = [command |-> c, answer |-> "waiting", revision |-> r]
    BY <1>1, <1>6 DEF Sends, Kept
  <2>3. /\ n \in Nat /\ \A i \in 1..n : inbox'[i] = inbox[i]
        /\ inbox'[n + 1] = m /\ DOMAIN inbox' = 1..(n + 1) /\ DOMAIN inbox = 1..n
    BY <2>1, <2>2, AppendFacts
  <2>4. call'["runner"] # Nil /\ call'["runner"].answer = "waiting"
    <3>1. call'["runner"] \in Call
      BY <1>1, <2>2 DEF Call, NoAnswer
    <3> QED
      BY <3>1, <2>2, CallIsNotNil
  <2> HIDE DEF m, n
  <2>5. \A i \in DOMAIN inbox' : inbox'[i].by = "runner" <=> i = n + 1
    BY <1>3, <2>1, <2>2, <2>3
  <2>6. Fresh'
    BY <2>2 DEF Inv, Fresh, Kept, Sent
  <2>7. Matched'
    BY <1>3, <2>2, <2>4, <2>5 DEF Matched, Waiting
  <2>8. Obeyed'
    <3>1. Activating' => inbox'[n + 1].command = "activate" /\ inbox'[n + 1].revision = Target'
      BY <2>1, <2>3
    <3>2. \A j \in DOMAIN inbox' : ~(j > n + 1)
      BY <2>3
    <3> QED
      BY <1>3, <2>2, <2>4, <2>5, <3>1, <3>2 DEF Obeyed
  <2>9. Reported'
    <3>1. CASE c = "activate"
      BY <3>1 DEF Reported, Activating, Working, Stages, Restarting, Running
    <3>2. CASE c # "activate"
      <4>1. \A i \in DOMAIN inbox' : inbox'[i].command = "activate" => i \in DOMAIN inbox /\ inbox'[i] = inbox[i]
        BY <2>1, <2>3, <3>2
      <4> QED
        BY <1>4, <4>1, <2>2 DEF Inv, Reported, Settled, Kept
    <3> QED
      BY <3>1, <3>2
  <2> QED
    BY <2>6, <2>7, <2>8, <2>9 DEF Core
<1> QED
  BY <1>2, <1>5, <1>6

\* The runner's operation ends: what it was told of the graph is true, or it is bad
\* news.
LEMMA OperationEnds ==
    ASSUME Inv, step # "idle", NEW outcome \in Outcomes, Finish(outcome),
           UNCHANGED <<process, active, inbox, outbox, told>>, ~Waiting("runner"),
           call'["runner"] = call["runner"] \/ call'["runner"] = Nil, revision' = snapshot',
           Decisive(Head(queue)) /\ outcome \notin Bad /\ process = "alive" => Settled(revision'),
           ~Decisive(Head(queue)) => revision' = revision
    PROVE  Core'
<1>1. queue # <<>> /\ Types
  BY DEF Inv, Stages
<1>2. /\ step' = "idle" /\ Decisive(Head(queue)) => (BadNews' <=> outcome \in Bad)
      /\ ~Decisive(Head(queue)) => (BadNews' <=> BadNews)
  BY <1>1, FinishFacts
<1>3. ~Waiting("runner")'
  BY DEF Waiting
<1>4. process = "alive" =>
        /\ \A i \in DOMAIN inbox : inbox[i].by # "runner"
        /\ \A k \in DOMAIN outbox : outbox[k].by # "runner"
  BY DEF Inv, Matched
<1>5. step' = "idle"
  BY DEF Finish
<1>6. Stages'
  BY <1>3, <1>5 DEF Stages, Restarting
<1>7. Fresh'
  BY <1>5 DEF Inv, Fresh
<1>8. Matched'
  BY <1>4 DEF Matched
<1>9. Obeyed'
  BY <1>5 DEF Obeyed, Activating
<1>10. ASSUME process = "alive"
       PROVE  BadNews' \/ Settled(revision)'
  <2>1. CASE Decisive(Head(queue))
    BY <1>1, <1>10, <2>1, FinishFacts DEF Settled
  <2>2. CASE ~Decisive(Head(queue))
    <3>1. ~Working
      BY <2>2 DEF Working, Running, Decisive
    <3> QED
      BY <1>1, <1>10, <2>2, <3>1, FinishFacts DEF Inv, Reported, Settled
  <2> QED
    BY <2>1, <2>2
<1>11. Reported'
  BY <1>10 DEF Reported
<1> QED
  BY <1>6, <1>7, <1>8, <1>9, <1>11 DEF Core

\* Without a child nothing has to agree.
LEMMA NoChild ==
    ASSUME Stages', Fresh', process' # "alive"
    PROVE  Core'
BY DEF Core, Matched, Obeyed, Reported

\* The child ends, of itself or for the editor.
LEMMA ChildStopped ==
    ASSUME Inv, StopCurrentProcess, UNCHANGED <<revision, snapshot>>, Stages'
    PROVE  Core'
<1>1. Fresh'
  BY DEF Inv, Fresh, StopCurrentProcess
<1> QED
  BY <1>1, NoChild DEF StopCurrentProcess

-----------------------------------------------------------------------------
(* The messages on their way.                                               *)

LEMMA DeliverCore ==
    ASSUME Inv, Deliver
    PROVE  Core'
<1> DEFINE to == Head(outbox).by
           n == Len(outbox)
<1>1. /\ Types /\ outbox # <<>> /\ outbox' = Tail(outbox) /\ outbox \in Seq(Answer)
      /\ call \in [Threads -> Call \cup {Nil}] /\ "runner" \in Threads /\ "runner" # Nil
  BY TypeParts, NilAssumption DEF Inv, Deliver, PipeTypes, LinkTypes, Threads
<1>2. /\ n \in Nat \ {0} /\ Head(outbox) = outbox[1] /\ Head(outbox) \in Answer
      /\ \A k \in 1..(n - 1) : outbox'[k] = outbox[k + 1]
      /\ DOMAIN outbox' = 1..(n - 1) /\ DOMAIN outbox = 1..n
  BY <1>1, TailFacts
<1>3. \A k \in DOMAIN outbox' : k + 1 \in DOMAIN outbox /\ outbox'[k] = outbox[k + 1] /\ k + 1 # 1
  BY <1>2
<1>4. UNCHANGED <<step, queue, callbacks, told, process, active, revision, snapshot, inbox>>
  BY DEF Deliver, bridge, runner, client, child
<1>5. CASE to = "runner" /\ Waiting("runner")
  <2> DEFINE answer == Head(outbox).answer
  <2>1. call' = [call EXCEPT !["runner"].answer = answer, !["runner"].revision = Head(outbox).revision]
    BY <1>1, <1>5 DEF Deliver
  <2>2. call["runner"] \in Call
    BY <1>1, <1>5 DEF Waiting
  <2>3. call'["runner"] = [call["runner"] EXCEPT !.answer = answer, !.revision = Head(outbox).revision]
    BY <1>1, <2>1
  <2>4. call'["runner"].answer = answer /\ answer # "waiting"
    BY <1>2, <2>2, <2>3 DEF Call, Answer, Answers
  <2>5. ~Waiting("runner")'
    BY <2>4 DEF Waiting
  <2>6. process = "alive" =>
          /\ \A i \in DOMAIN inbox : inbox[i].by # "runner"
          /\ \A k \in DOMAIN outbox' : outbox'[k].by # "runner"
    BY <1>2, <1>3, <1>5 DEF Inv, Matched
  <2>7. Stages'
    BY <1>4, <2>5 DEF Inv, Stages, Running
  <2>8. Fresh'
    BY <1>1, <1>4 DEF Inv, Fresh, Settled
  <2>9. Matched'
    BY <1>4, <2>6 DEF Matched
  <2>10. Obeyed'
    <3>1. Activating' => Activating /\ Target' = Target
      BY <1>4 DEF Activating, Target, Running
    <3>2. process = "alive" /\ Activating /\ answer = "ack" => Settled(Target)
      BY <1>2, <1>5 DEF Inv, Obeyed
    <3>3. Activating' /\ Settled(Target) => Settled(Target)'
      BY <1>4, <3>1 DEF Settled
    <3> QED
      BY <1>4, <2>4, <2>6, <3>1, <3>2, <3>3 DEF Obeyed
  <2>11. Reported'
    BY <1>4 DEF Inv, Reported, BadNews, Settled, Working, Running
  <2> QED
    BY <2>7, <2>8, <2>9, <2>10, <2>11 DEF Core
<1>6. CASE ~(to = "runner" /\ Waiting("runner"))
  <2>1. call'["runner"] = call["runner"]
    <3>1. \/ call' = call
          \/ to # "runner" /\ call' = [call EXCEPT ![to].answer = Head(outbox).answer,
                                                  ![to].revision = Head(outbox).revision]
      BY <1>6 DEF Deliver
    <3> QED
      BY <1>1, <3>1
  <2>2. Waiting("runner")' <=> Waiting("runner")
    BY <2>1 DEF Waiting
  <2>3. Stages'
    BY <1>4, <2>2 DEF Inv, Stages, Running
  <2>4. Fresh'
    BY <1>1, <1>4 DEF Inv, Fresh, Settled
  <2>5. Matched'
    <3>1. process = "alive" => \A i \in DOMAIN inbox : inbox[i].by = "runner" =>
             \A k \in DOMAIN outbox' : outbox'[k].by # "runner"
      BY <1>3 DEF Inv, Matched
    <3>2. ASSUME process = "alive", NEW k \in DOMAIN outbox', outbox'[k].by = "runner"
          PROVE  /\ Waiting("runner")
                 /\ \A l \in DOMAIN outbox' : outbox'[l].by = "runner" => l = k
      <4>1. \A l \in DOMAIN outbox' : outbox'[l].by = "runner" => l + 1 = k + 1
        BY <1>3, <3>2 DEF Inv, Matched
      <4>2. \A l \in DOMAIN outbox' : l + 1 = k + 1 => l = k
        BY <1>2
      <4> QED
        BY <1>3, <3>2, <4>1, <4>2 DEF Inv, Matched
    <3> QED
      BY <1>4, <2>2, <3>1, <3>2 DEF Inv, Matched
  <2>6. Obeyed'
    <3>1. Activating' => Activating /\ Target' = Target
      BY <1>4 DEF Activating, Target, Running
    <3>2. Activating' /\ Settled(Target) => Settled(Target)'
      BY <1>4, <3>1 DEF Settled
    <3>3. process = "alive" /\ Activating => \A k \in DOMAIN outbox' :
             outbox'[k].by = "runner" /\ outbox'[k].answer = "ack" => Settled(Target)
      BY <1>3 DEF Inv, Obeyed
    <3> QED
      BY <1>4, <2>1, <3>1, <3>2, <3>3 DEF Inv, Obeyed
  <2>7. Reported'
    BY <1>4 DEF Inv, Reported, BadNews, Settled, Working, Running
  <2> QED
    BY <2>3, <2>4, <2>5, <2>6, <2>7 DEF Core
<1> QED
  BY <1>5, <1>6

LEMMA TimeOutCore ==
    ASSUME Inv, NEW t \in Threads, TimeOut(t)
    PROVE  Core'
<1>1. /\ Types /\ inbox \in Seq(Command) /\ outbox \in Seq(Answer) /\ "runner" \in Threads
      /\ call \in [Threads -> Call \cup {Nil}] /\ "runner" # Nil
  BY TypeParts, NilAssumption DEF Inv, PipeTypes, LinkTypes, Threads
<1>2. UNCHANGED <<step, queue, callbacks, told, process, active, revision, snapshot>>
  BY DEF TimeOut, bridge, runner, client, child
<1>3. /\ \A m \in Command : /\ [m EXCEPT !.by = Nil] \in Command /\ [m EXCEPT !.by = Nil].by = Nil
                            /\ [m EXCEPT !.by = Nil].command = m.command
                            /\ [m EXCEPT !.by = Nil].revision = m.revision
      /\ \A m \in Answer : /\ [m EXCEPT !.by = Nil] \in Answer /\ [m EXCEPT !.by = Nil].by = Nil
                           /\ [m EXCEPT !.by = Nil].answer = m.answer
  BY DEF Command, Answer
<1>4. /\ \A i \in DOMAIN inbox : inbox[i] \in Command
      /\ \A k \in DOMAIN outbox : outbox[k] \in Answer
  BY <1>1, LenProperties, ElementOfSeq
<1>5. /\ inbox' = Forget(t, inbox) /\ outbox' = Forget(t, outbox)
      /\ DOMAIN inbox' = DOMAIN inbox /\ DOMAIN outbox' = DOMAIN outbox
      /\ \A i \in DOMAIN inbox : inbox'[i] = IF inbox[i].by = t THEN [inbox[i] EXCEPT !.by = Nil] ELSE inbox[i]
      /\ \A k \in DOMAIN outbox : outbox'[k] = IF outbox[k].by = t THEN [outbox[k] EXCEPT !.by = Nil] ELSE outbox[k]
  <2>1. inbox' = Forget(t, inbox) /\ outbox' = Forget(t, outbox)
    BY DEF TimeOut
  <2>2. (\A m \in Command : [m EXCEPT !.by = Nil] \in Command) /\ (\A m \in Answer : [m EXCEPT !.by = Nil] \in Answer)
    BY <1>3
  <2>3. /\ DOMAIN Forget(t, inbox) = DOMAIN inbox
        /\ \A i \in DOMAIN inbox :
              Forget(t, inbox)[i] = IF inbox[i].by = t THEN [inbox[i] EXCEPT !.by = Nil] ELSE inbox[i]
    BY <1>1, <2>2, ForgetFacts
  <2>4. /\ DOMAIN Forget(t, outbox) = DOMAIN outbox
        /\ \A k \in DOMAIN outbox :
              Forget(t, outbox)[k] = IF outbox[k].by = t THEN [outbox[k] EXCEPT !.by = Nil] ELSE outbox[k]
    BY <1>1, <2>2, ForgetFacts
  <2> QED
    BY <2>1, <2>3, <2>4
<1>6. /\ \A i \in DOMAIN inbox' : /\ inbox'[i].command = inbox[i].command
                                  /\ inbox'[i].revision = inbox[i].revision
                                  /\ inbox'[i].by = "runner" => t # "runner" /\ inbox[i].by = "runner"
      /\ \A k \in DOMAIN outbox' : /\ outbox'[k].answer = outbox[k].answer
                                   /\ outbox'[k].by = "runner" => t # "runner" /\ outbox[k].by = "runner"
  <2>1. ASSUME NEW i \in DOMAIN inbox'
        PROVE  /\ inbox'[i].command = inbox[i].command /\ inbox'[i].revision = inbox[i].revision
               /\ inbox'[i].by = "runner" => t # "runner" /\ inbox[i].by = "runner"
    <3>1. inbox[i] \in Command
      BY <1>4, <1>5
    <3>2. CASE inbox[i].by = t
      <4>1. inbox'[i] = [inbox[i] EXCEPT !.by = Nil]
        BY <1>5, <3>2
      <4> QED
        BY <1>1, <1>3, <3>1, <4>1
    <3>3. CASE inbox[i].by # t
      BY <1>5, <3>3
    <3> QED
      BY <3>2, <3>3
  <2>2. ASSUME NEW k \in DOMAIN outbox'
        PROVE  /\ outbox'[k].answer = outbox[k].answer
               /\ outbox'[k].by = "runner" => t # "runner" /\ outbox[k].by = "runner"
    <3>1. outbox[k] \in Answer
      BY <1>4, <1>5
    <3>2. CASE outbox[k].by = t
      <4>1. outbox'[k] = [outbox[k] EXCEPT !.by = Nil]
        BY <1>5, <3>2
      <4> QED
        BY <1>1, <1>3, <3>1, <4>1
    <3>3. CASE outbox[k].by # t
      BY <1>5, <3>3
    <3> QED
      BY <3>2, <3>3
  <2> QED
    BY <2>1, <2>2
<1>7. /\ t # "runner" => call'["runner"] = call["runner"]
      /\ t = "runner" => call'["runner"].answer = "timeout"
      /\ Waiting("runner")' => Waiting("runner")
      /\ t # "runner" => (Waiting("runner")' <=> Waiting("runner"))
  <2>1. call[t] \in Call /\ call' = [call EXCEPT ![t].answer = "timeout"]
    BY <1>1 DEF TimeOut, Waiting
  <2>2. call'[t] = [call[t] EXCEPT !.answer = "timeout"]
    BY <1>1, <2>1
  <2>3. call'[t].answer = "timeout"
    BY <2>1, <2>2 DEF Call
  <2>4. t # "runner" => call'["runner"] = call["runner"]
    BY <1>1, <2>1
  <2> QED
    BY <2>3, <2>4 DEF Waiting
<1>8. Stages'
  BY <1>2, <1>7 DEF Inv, Stages, Running
<1>9. (inbox = <<>> => inbox' = <<>>) /\ (outbox = <<>> => outbox' = <<>>)
  BY <1>1, <1>5, EmptySeq, LenProperties, ForgetNothing
<1>10. Fresh'
  BY <1>2, <1>5, <1>6, <1>9 DEF Inv, Fresh, Settled
<1>11. Matched'
  BY <1>2, <1>5, <1>6, <1>7 DEF Inv, Matched
<1>12. Obeyed'
  <2>1. Activating' => Activating /\ Target' = Target
    BY <1>2 DEF Activating, Target, Running
  <2>2. Activating' /\ Settled(Target) => Settled(Target)'
    BY <1>2, <1>5, <1>6, <2>1 DEF Settled
  <2> QED
    BY <1>2, <1>5, <1>6, <1>7, <2>1, <2>2 DEF Inv, Obeyed
<1>13. Reported'
  BY <1>2, <1>5, <1>6 DEF Inv, Reported, BadNews, Settled, Working, Running
<1> QED
  BY <1>8, <1>10, <1>11, <1>12, <1>13 DEF Core

LEMMA ServeCore ==
    ASSUME Inv, Serve
    PROVE  Core'
<1> DEFINE m == Head(inbox)
           n == Len(inbox)
           o == Len(outbox)
<1>1. /\ Types /\ inbox # <<>> /\ inbox \in Seq(Command) /\ outbox \in Seq(Answer)
      /\ process = "alive" /\ active \in Revisions /\ Types'
  BY TypeParts, ServeTypes DEF Inv, Serve, PipeTypes, ChildTypes
<1>2. UNCHANGED <<step, queue, callbacks, told, call, revision, snapshot>>
  BY DEF Serve, bridge, runner, client
<1>3. /\ n \in Nat \ {0} /\ m = inbox[1] /\ m \in Command
      /\ \A i \in 1..(n - 1) : Tail(inbox)[i] = inbox[i + 1]
      /\ DOMAIN Tail(inbox) = 1..(n - 1) /\ DOMAIN inbox = 1..n
  BY <1>1, TailFacts
<1>4. PICK a \in Answers :
        /\ outbox' = Append(outbox, [by |-> m.by, answer |-> a, revision |-> active'])
        /\ m.command # "activate" => active' = active
        /\ m.command = "activate" => (a = "ack" /\ active' = m.revision) \/ a \in Bad
  <2> DEFINE R(a) ==
        /\ outbox' = Append(outbox, [by |-> m.by, answer |-> a, revision |-> active'])
        /\ m.command # "activate" => active' = active
        /\ m.command = "activate" => (a = "ack" /\ active' = m.revision) \/ a \in Bad
  <2>1. R("failed") \/ R("ack") \/ R("rejected") \/ R("running") \/ R("stopped")
    BY DEF Serve, Handle, Raise, Reply, Stale, RevisionExempt, Bad, child
  <2> HIDE DEF R
  <2>2. \E a \in Answers : R(a)
    BY <2>1 DEF Answers
  <2> QED
    BY <2>2 DEF R
<1>5. active' \in Revisions /\ process' \in {"none", "alive", "dead"}
  BY <1>1, TypePartsPrime DEF ChildTypes
<1> DEFINE reply == [by |-> m.by, answer |-> a, revision |-> active']
<1>6. /\ o \in Nat /\ \A k \in 1..o : outbox'[k] = outbox[k]
      /\ outbox'[o + 1] = reply /\ DOMAIN outbox' = 1..(o + 1) /\ DOMAIN outbox = 1..o
  <2>1. reply \in Answer
    BY <1>3, <1>5 DEF Answer, Command
  <2> QED
    BY <1>1, <1>4, <2>1, AppendFacts
<1>7. reply.by = m.by /\ reply.answer = a
  OBVIOUS
<1>8. Stages'
  BY <1>2 DEF Inv, Stages, Running, Waiting
<1> HIDE DEF m, n, o, reply
<1>9. CASE process' # "alive"
  <2>1. inbox' = <<>> /\ process' = "dead"
    BY <1>1, <1>9 DEF Serve, Handle, Raise, child
  <2>2. Fresh'
    BY <1>1, <1>2, <2>1 DEF Inv, Fresh
  <2> QED
    BY <1>8, <1>9, <2>2, NoChild
<1>10. CASE process' = "alive"
  <2>1. inbox' = Tail(inbox)
    BY <1>10 DEF Serve
  <2>2. \A i \in DOMAIN inbox' : i + 1 \in DOMAIN inbox /\ inbox'[i] = inbox[i + 1] /\ i + 1 > 1
    BY <1>3, <2>1
  <2>3. 1 \in DOMAIN inbox /\ inbox[1] = m
    BY <1>3
  <2>4. \A r : Settled(r) => active' = r /\ \A i \in DOMAIN inbox' : inbox'[i].command # "activate"
    BY <1>4, <2>2, <2>3 DEF Settled
  <2>5. Fresh'
    BY <1>1, <1>2, <1>10, <2>4 DEF Inv, Fresh, Settled
  <2>6. Matched'
    <3>1. ASSUME NEW i \in DOMAIN inbox', inbox'[i].by = "runner"
          PROVE  /\ Waiting("runner")'
                 /\ \A j \in DOMAIN inbox' : inbox'[j].by = "runner" => j = i
                 /\ \A k \in DOMAIN outbox' : outbox'[k].by # "runner"
      <4>1. inbox[i + 1].by = "runner" /\ i + 1 \in DOMAIN inbox /\ 1 # i + 1 /\ i \in Int
        BY <1>3, <2>1, <2>2, <3>1
      <4>2. /\ Waiting("runner") /\ m.by # "runner"
            /\ \A k \in DOMAIN outbox : outbox[k].by # "runner"
            /\ \A j \in DOMAIN inbox' : inbox'[j].by = "runner" => j + 1 = i + 1
        BY <1>1, <2>2, <2>3, <4>1 DEF Inv, Matched
      <4>3. \A j \in DOMAIN inbox' : j + 1 = i + 1 => j = i
        BY <1>3, <2>1, <4>1
      <4>4. \A k \in DOMAIN outbox' : outbox'[k].by # "runner"
        BY <1>6, <1>7, <4>2
      <4> QED
        BY <1>2, <4>2, <4>3, <4>4 DEF Waiting
    <3>2. ASSUME NEW k \in DOMAIN outbox', outbox'[k].by = "runner"
          PROVE  /\ Waiting("runner")'
                 /\ \A l \in DOMAIN outbox' : outbox'[l].by = "runner" => l = k
      <4>1. CASE m.by = "runner"
        <5>1. Waiting("runner") /\ \A l \in DOMAIN outbox : outbox[l].by # "runner"
          BY <1>1, <2>3, <4>1 DEF Inv, Matched
        <5>2. \A l \in DOMAIN outbox' : outbox'[l].by = "runner" => l = o + 1
          BY <1>6, <5>1
        <5> QED
          BY <1>2, <3>2, <5>1, <5>2 DEF Waiting
      <4>2. CASE m.by # "runner"
        <5>1. \A l \in DOMAIN outbox' : outbox'[l].by = "runner" => l \in DOMAIN outbox /\ outbox'[l] = outbox[l]
          BY <1>6, <1>7, <4>2
        <5> QED
          BY <1>1, <1>2, <3>2, <5>1 DEF Inv, Matched, Waiting
      <4> QED
        BY <4>1, <4>2
    <3> QED
      BY <3>1, <3>2 DEF Matched
  <2>7. Obeyed'
    <3> SUFFICES ASSUME Activating'
                 PROVE  Obeyed'
      BY DEF Obeyed
    <3>1. Activating /\ Target' = Target
      BY <1>2 DEF Activating, Target, Running
    <3>2. Settled(Target) => Settled(Target)'
      BY <2>4, <3>1 DEF Settled
    <3>3. \A i \in DOMAIN inbox' : inbox'[i].by = "runner" =>
             /\ inbox'[i].command = "activate" /\ inbox'[i].revision = Target
             /\ \A j \in DOMAIN inbox' : j > i => inbox'[j].command # "activate"
      <4> TAKE i \in DOMAIN inbox'
      <4> HAVE inbox'[i].by = "runner"
      <4>1. \A j \in DOMAIN inbox' : j > i => j + 1 > i + 1
        BY <1>3, <2>1
      <4> QED
        BY <1>1, <2>2, <3>1, <4>1 DEF Inv, Obeyed
    <3>4. ASSUME m.by = "runner", a = "ack"
          PROVE  Settled(Target)'
      <4>1. /\ m.command = "activate" /\ m.revision = Target
            /\ \A j \in DOMAIN inbox : j > 1 => inbox[j].command # "activate"
        BY <1>1, <2>3, <3>1, <3>4 DEF Inv, Obeyed
      <4> QED
        BY <1>4, <2>2, <3>1, <3>4, <4>1 DEF Settled, Bad
    <3>5. \A k \in DOMAIN outbox' : outbox'[k].by = "runner" /\ outbox'[k].answer = "ack" => Settled(Target)'
      <4> TAKE k \in DOMAIN outbox'
      <4>1. CASE k = o + 1
        BY <1>6, <1>7, <3>4, <4>1
      <4>2. CASE k # o + 1
        <5>1. k \in DOMAIN outbox /\ outbox'[k] = outbox[k]
          BY <1>6, <4>2
        <5> QED
          BY <1>1, <3>1, <3>2, <5>1 DEF Inv, Obeyed
      <4> QED
        BY <4>1, <4>2
    <3> QED
      BY <1>1, <1>2, <3>1, <3>2, <3>3, <3>5 DEF Inv, Obeyed
  <2>8. Reported'
    BY <1>1, <1>2, <2>4 DEF Inv, Reported, BadNews, Settled, Working, Running
  <2> QED
    BY <1>8, <2>5, <2>6, <2>7, <2>8 DEF Core
<1> QED
  BY <1>9, <1>10

\* A new child knows no graph, and its handshake is its only message.
LEMMA SpawnCore ==
    ASSUME Inv, Spawn
    PROVE  Core'
<1> DEFINE m == [command |-> "handshake", revision |-> 0, by |-> "runner"]
           c == [command |-> "handshake", answer |-> "waiting", revision |-> 0]
<1>1. /\ inbox = <<>> /\ outbox = <<>> /\ active = 0 /\ step = "spawn" /\ Running("restart") /\ revision = snapshot
  BY DEF Inv, Fresh, Stages, Spawn, Restarting
<1>2. /\ inbox' = <<m>> /\ outbox' = <<>> /\ active' = 0 /\ step' = "greet"
      /\ process' = "alive" /\ revision' = snapshot' /\ queue' = queue
  BY <1>1 DEF Spawn, Go
<1>3. Waiting("runner")'
  <2>1. c \in Call /\ call \in [Threads -> Call \cup {Nil}] /\ "runner" \in Threads
    BY TypeParts, ZeroIsRevision DEF Inv, LinkTypes, Call, Commands, NoAnswer, Threads
  <2>2. call'["runner"] = c /\ c.answer = "waiting"
    BY <2>1 DEF Spawn
  <2> HIDE DEF c
  <2> QED
    BY <2>1, <2>2, CallIsNotNil DEF Waiting
<1>4. DOMAIN inbox' = {1} /\ inbox'[1] = m /\ DOMAIN outbox' = {}
  BY <1>2
<1>5. m.command = "handshake"
  OBVIOUS
<1> HIDE DEF m
<1>6. Stages'
  BY <1>1, <1>2 DEF Inv, Stages, Restarting, Running
<1>7. Settled(0)'
  BY <1>2, <1>4, <1>5 DEF Settled
<1>8. Fresh'
  BY <1>2, <1>7 DEF Fresh, Settled
<1>9. Matched'
  BY <1>3, <1>4 DEF Matched
<1>10. Obeyed' /\ Reported'
  BY <1>1, <1>2 DEF Obeyed, Activating, Reported, Working, Running
<1> QED
  BY <1>6, <1>8, <1>9, <1>10 DEF Core

-----------------------------------------------------------------------------
(* The window and the event reader.                                         *)

LEMMA WindowCore ==
    ASSUME Inv, \/ Edit \/ TimerFires \/ (\E kind \in Kinds \ {"activation"} : Submit(kind)) \/ RefreshStatus
                \/ TaskDone \/ CloseRunner
    PROVE  Core'
<1>1. UNCHANGED <<Kept, step, inbox, call>>
  BY DEF Kept, Edit, TimerFires, Submit, RefreshStatus, TaskDone, CloseRunner, bridge, runner, client, child
<1>2. Types /\ queue \in Seq(Task) /\ callbacks \in Seq(Callback) /\ inflight \in SUBSET Kinds
  BY TypeParts DEF Inv, RunnerTypes, BridgeTypes
<1>3. step # "idle" => queue # <<>>
  BY DEF Inv, Stages
<1>4. CASE Edit \/ RefreshStatus
  <2>1. SameOperation /\ BadNews => BadNews'
    BY <1>4 DEF SameOperation, BadNews, Edit, RefreshStatus, runner, bridge
  <2>2. UNCHANGED <<queue, told, callbacks>>
    BY <1>4 DEF Edit, RefreshStatus, runner, bridge
  <2> QED
    BY <1>1, <1>3, <2>2, QuietStep DEF SameOperation, BadNews
<1>5. CASE TimerFires
  <2>1. queue # <<>> => queue' # <<>> /\ Head(queue') = Head(queue)
    BY <1>2, <1>5, FlushFacts DEF TimerFires
  <2>2. UNCHANGED <<told, callbacks>>
    BY <1>5 DEF TimerFires
  <2> QED
    BY <1>1, <1>3, <2>1, <2>2, QuietStep DEF SameOperation, BadNews
<1>6. CASE \E kind \in Kinds \ {"activation"} : Submit(kind)
  <2>1. PICK kind \in Kinds : Submit(kind)
    BY <1>6
  <2>2. [kind |-> kind, revision |-> 0] \in Task
    BY ZeroIsRevision DEF Task
  <2>3. queue' = Append(queue, [kind |-> kind, revision |-> 0]) /\ UNCHANGED <<told, callbacks>>
    BY <2>1 DEF Submit, Submitted
  <2>4. queue # <<>> => queue' # <<>> /\ Head(queue') = Head(queue)
    BY <1>2, <2>2, <2>3, AppendFacts
  <2> QED
    BY <1>1, <1>3, <2>3, <2>4, QuietStep DEF SameOperation, BadNews
<1>7. CASE TaskDone
  <2>1. inflight \ {Head(callbacks).kind} \in SUBSET Kinds
    BY <1>2
  <2>2. queue # <<>> => queue' # <<>> /\ Head(queue') = Head(queue)
    BY <1>2, <1>7, <2>1, FlushFacts DEF TaskDone
  <2>3. BadNews => BadNews'
    BY <1>2, <1>7, NewsTaken
  <2> QED
    BY <1>1, <1>3, <2>2, <2>3, QuietStep DEF SameOperation
<1>8. CASE CloseRunner
  <2>1. UNCHANGED <<told, callbacks>>
    BY <1>8 DEF CloseRunner
  <2>2. SameOperation
    BY <1>3, <1>8 DEF CloseRunner, SameOperation
  <2> QED
    BY <1>1, <2>1, <2>2, QuietStep DEF BadNews
<1> QED
  BY <1>4, <1>5, <1>6, <1>7, <1>8

LEMMA EventsCore ==
    ASSUME Inv, HandleHeartbeat \/ HeartbeatAges \/ SlotConfigured \/ Disconnect \/ Hang \/ Closed
    PROVE  Core'
<1>1. UNCHANGED <<Kept, step, inbox, queue, told, callbacks>>
  BY ClosedChangesNothing DEF Kept, HandleHeartbeat, HeartbeatAges, SlotConfigured, Disconnect, Hang, vars, bridge,
     runner, client, child
<1>2. SameOperation /\ (BadNews => BadNews')
  BY <1>1 DEF Inv, Stages, SameOperation, BadNews
<1>3. /\ call \in [Threads -> Call \cup {Nil}] /\ "runner" \in Threads
      /\ process \in {"none", "alive", "dead"}
  BY TypeParts DEF Inv, LinkTypes, ChildTypes, Threads
<1>4. CASE Disconnect
  <2>1. \/ call'["runner"] = call["runner"]
        \/ process # "alive" /\ call'["runner"] # Nil /\ call'["runner"].answer = "lost"
    BY <1>3, <1>4, LostFacts DEF Disconnect
  <2> QED
    BY <1>1, <1>2, <2>1, QuietStep
<1>5. CASE HandleHeartbeat \/ HeartbeatAges \/ SlotConfigured \/ Hang \/ Closed
  <2>1. call'["runner"] = call["runner"]
    BY <1>3, <1>5, ClosedChangesNothing DEF HandleHeartbeat, HeartbeatAges, SlotConfigured, Hang, vars
  <2> QED
    BY <1>1, <1>2, <2>1, QuietStep
<1> QED
  BY <1>4, <1>5

LEMMA OtherThreadsCore ==
    ASSUME Inv, ConfigurePreviewSlot \/ ReadDiagnostics \/ DiagnosticsRead \/ CloseBridge
    PROVE  Core'
<1>1. UNCHANGED <<Kept, step, queue, told, callbacks>>
  BY DEF Kept, ConfigurePreviewSlot, ReadDiagnostics, DiagnosticsRead, CloseBridge, bridge, runner, client, child
<1>2. SameOperation /\ (BadNews => BadNews')
  BY <1>1 DEF Inv, Stages, SameOperation, BadNews
<1>3. call \in [Threads -> Call \cup {Nil}] /\ "runner" \in Threads
  BY TypeParts DEF Inv, LinkTypes, Threads
<1>4. {"configure", "metrics", "profiles", "shutdown"} \subseteq Commands \ {"activate"}
  BY DEF Commands
<1>5. \/ \E t \in {"ui", "events"}, c \in Commands \ {"activate"} : Request(t, c, revision)
      \/ UNCHANGED <<call, inbox>>
      \/ call' = [call EXCEPT !["ui"] = Nil] /\ UNCHANGED inbox
  BY <1>4 DEF ConfigurePreviewSlot, ReadDiagnostics, DiagnosticsRead, CloseBridge
<1>6. ASSUME \E t \in {"ui", "events"}, c \in Commands \ {"activate"} : Request(t, c, revision)
      PROVE  Core'
  BY <1>1, <1>6, OtherRequest
<1>7. ASSUME UNCHANGED inbox, UNCHANGED call \/ call' = [call EXCEPT !["ui"] = Nil]
      PROVE  Core'
  <2>1. call'["runner"] = call["runner"]
    BY <1>3, <1>7
  <2> QED
    BY <1>1, <1>2, <1>7, <2>1, QuietStep
<1> QED
  BY <1>5, <1>6, <1>7

LEMMA StoppedCore ==
    ASSUME Inv, Crash \/ Replace \/ NotGreeted \/ CloseClient
    PROVE  Core'
<1>1. call \in [Threads -> Call \cup {Nil}] /\ "runner" \in Threads /\ Types
  BY TypeParts DEF Inv, LinkTypes, Threads
<1>2. CASE Crash
  <2>1. UNCHANGED <<step, queue, call, active, revision, snapshot>> /\ inbox' = <<>> /\ process' = "dead"
    BY <1>2 DEF Crash, bridge, runner, client
  <2>2. Stages'
    BY <2>1 DEF Inv, Stages, Running, Waiting
  <2>3. Fresh'
    BY <1>2, <2>1 DEF Inv, Fresh, Crash
  <2> QED
    BY <2>1, <2>2, <2>3, NoChild
<1>3. CASE Replace
  <2>1. [call EXCEPT !["runner"] = Nil] \in [Threads -> Call \cup {Nil}]
    BY <1>1
  <2>2. ~Waiting("runner")'
    BY <1>1, <1>3, <2>1, LostFacts DEF Replace, Waiting
  <2>3. Stages'
    BY <1>3, <2>2 DEF Inv, Stages, Replace, Go, Restarting, Running
  <2> QED
    BY <1>3, <2>3, ChildStopped DEF Replace, client
<1>4. CASE NotGreeted
  <2>1. [call EXCEPT !["runner"] = Nil] \in [Threads -> Call \cup {Nil}]
    BY <1>1
  <2>2. ~Waiting("runner")'
    BY <1>1, <1>4, <2>1, LostFacts DEF NotGreeted, Waiting
  <2>3. Stages'
    BY <1>4, <2>2 DEF Stages, NotGreeted, Finish, Restarting
  <2> QED
    BY <1>4, <2>3, ChildStopped DEF NotGreeted, client
<1>5. CASE CloseClient
  <2>1. /\ [call EXCEPT !["ui"] = Nil] \in [Threads -> Call \cup {Nil}]
        /\ [call EXCEPT !["ui"] = Nil]["runner"] = call["runner"]
    BY <1>1
  <2>2. Waiting("runner")' => Waiting("runner")
    BY <1>1, <1>5, <2>1, LostFacts DEF CloseClient, Waiting
  <2>3. Stages'
    BY <1>5, <2>2 DEF Inv, Stages, CloseClient, runner, Running
  <2> QED
    BY <1>5, <2>3, ChildStopped DEF CloseClient, client
<1> QED
  BY <1>2, <1>3, <1>4, <1>5

-----------------------------------------------------------------------------
(* The operations of the runner.                                            *)

LEMMA BeginsCore ==
    ASSUME Inv, BeginActivate \/ BeginPanic \/ BeginToggle \/ BeginRefresh
    PROVE  Core'
<1>1. /\ Types /\ UNCHANGED <<Kept, queue, callbacks, told>> /\ step = "idle" /\ queue # <<>>
      /\ ~Waiting("runner") /\ ~Working
  BY DEF Inv, Stages, Working, Kept, BeginActivate, BeginPanic, BeginToggle, BeginRefresh, Go, Running, bridge,
         client, child
<1>2. /\ {"activate", "panic", "status", "metrics"} \subseteq Commands /\ revision \in Revisions
      /\ Head(queue).revision \in Revisions
  <2>1. queue \in Seq(Task) /\ revision \in Revisions
    BY <1>1, TypeParts DEF RunnerTypes, ClientTypes
  <2>2. Head(queue) \in Task
    BY <1>1, <2>1, TailFacts
  <2> QED
    BY <2>1, <2>2 DEF Task, Commands
<1>3. CASE BeginActivate
  <2>1. Running("activation") /\ step' = "answer" /\ Request("runner", "activate", Head(queue).revision)
    BY <1>3 DEF BeginActivate, Go
  <2>2. Stages'
    BY <1>1, <2>1 DEF Stages, Restarting, Running
  <2>3. Activating' /\ Target' = Head(queue).revision
    BY <1>1, <2>1 DEF Activating, Target, Running
  <2> QED
    BY <1>1, <1>2, <2>1, <2>2, <2>3, RunnerRequest DEF Sent
<1>4. CASE BeginPanic \/ BeginToggle \/ BeginRefresh
  <2>1. PICK c \in {"panic", "status", "metrics"} :
          /\ Request("runner", c, revision)
          /\ \/ step' = "answer" /\ (Running("panic") \/ Running("refresh"))
             \/ step' = "lookup" /\ Running("transport")
             \/ step' = "metrics" /\ Running("refresh")
    BY <1>4 DEF BeginPanic, BeginToggle, BeginRefresh, Go
  <2>2. Stages'
    BY <1>1, <2>1 DEF Stages, Restarting, Running
  <2>3. ~Activating' /\ c # "activate" /\ c \in Commands /\ step' \in Sent
    BY <1>1, <1>2, <2>1 DEF Activating, Running, Sent
  <2> QED
    BY <1>1, <1>2, <2>1, <2>2, <2>3, RunnerRequest
<1> QED
  BY <1>3, <1>4

\* The second request of a toggle or a refresh, or its end.
LEMMA SecondRequestCore ==
    ASSUME Inv, Toggle \/ Metrics
    PROVE  Core'
<1>1. /\ Types /\ UNCHANGED <<process, active, outbox, told, revision, snapshot>> /\ queue # <<>>
      /\ ~Waiting("runner") /\ revision \in Revisions /\ revision = snapshot
      /\ call \in [Threads -> Call \cup {Nil}] /\ "runner" \in Threads /\ step # "idle"
      /\ {"pause", "play", "status"} \subseteq Commands
  BY TypeParts DEF Inv, Stages, Fresh, Kept, Toggle, Metrics, Answered, Waiting, bridge, client, child, ClientTypes,
         LinkTypes, Threads, Commands
<1>2. (Running("transport") \/ Running("refresh")) /\ ~Working /\ ~Decisive(Head(queue))
  BY DEF Inv, Stages, Toggle, Metrics, Working, Running, Decisive
<1>3. \/ /\ \E c \in {"pause", "play", "status"} : Request("runner", c, revision)
         /\ step' = "answer" /\ UNCHANGED <<queue, callbacks>>
      \/ Finish("failed") /\ call' = [call EXCEPT !["runner"] = Nil] /\ UNCHANGED inbox
  BY DEF Toggle, Metrics, Go
<1>4. CASE /\ \E c \in {"pause", "play", "status"} : Request("runner", c, revision)
           /\ step' = "answer" /\ UNCHANGED <<queue, callbacks>>
  <2>1. PICK c \in {"pause", "play", "status"} : Request("runner", c, revision)
    BY <1>4
  <2>2. Stages'
    BY <1>1, <1>2, <1>4 DEF Stages, Restarting, Running
  <2>3. ~Activating' /\ c # "activate" /\ c \in Commands /\ step' \in Sent
    BY <1>1, <1>2, <1>4 DEF Activating, Running, Sent
  <2> QED
    BY <1>1, <1>2, <1>4, <2>1, <2>2, <2>3, RunnerRequest DEF Kept
<1>5. CASE Finish("failed") /\ call' = [call EXCEPT !["runner"] = Nil] /\ UNCHANGED inbox
  <2>1. call'["runner"] = Nil /\ "failed" \in Outcomes
    BY <1>1, <1>5 DEF Outcomes
  <2> QED
    BY <1>1, <1>2, <1>5, <2>1, OperationEnds
<1> QED
  BY <1>3, <1>4, <1>5

LEMMA ReturnCore ==
    ASSUME Inv, Return
    PROVE  Core'
<1>1. /\ Types /\ UNCHANGED <<process, active, inbox, outbox, told>> /\ queue # <<>> /\ step = "answer"
      /\ ~Waiting("runner") /\ revision = snapshot /\ call["runner"] # Nil /\ Head(queue).kind # "restart"
      /\ call \in [Threads -> Call \cup {Nil}] /\ "runner" \in Threads
  BY TypeParts DEF Inv, Stages, Fresh, Return, Answered, Waiting, bridge, child, LinkTypes, Threads
<1>2. call'["runner"] = Nil /\ {"ok", "rejected", "failed"} = Outcomes
  BY <1>1 DEF Return, Outcomes
<1>3. CASE Running("activation") /\ call["runner"].answer = "ack"
  <2>1. /\ Finish("ok") /\ revision' = Head(queue).revision /\ snapshot' = revision'
        /\ Decisive(Head(queue))
    BY <1>1, <1>3 DEF Return, Keep, Running, Decisive
  <2>2. process = "alive" => Settled(Head(queue).revision)
    BY <1>1, <1>3 DEF Inv, Obeyed, Activating, Target
  <2>3. process = "alive" => Settled(revision')
    BY <2>1, <2>2 DEF Settled
  <2> QED
    BY <1>1, <1>2, <2>1, <2>3, OperationEnds
<1>4. CASE ~(Running("activation") /\ call["runner"].answer = "ack")
  <2>1. PICK outcome \in Outcomes :
          /\ Finish(outcome) /\ UNCHANGED <<revision, snapshot>>
          /\ Running("activation") => outcome \in Bad
    <3> DEFINE R(outcome) == /\ Finish(outcome) /\ UNCHANGED <<revision, snapshot>>
                             /\ Running("activation") => outcome \in Bad
    <3>1. R("ok") \/ R("rejected") \/ R("failed")
      BY <1>1, <1>4 DEF Return, client, Bad
    <3> HIDE DEF R
    <3>2. \E outcome \in Outcomes : R(outcome)
      BY <1>2, <3>1
    <3> QED
      BY <3>2 DEF R
  <2>2. Decisive(Head(queue)) => outcome \in Bad
    BY <1>1, <2>1 DEF Decisive, Running
  <2> QED
    BY <1>1, <1>2, <2>1, <2>2, OperationEnds
<1> QED
  BY <1>3, <1>4

LEMMA RestartsCore ==
    ASSUME Inv, BeginRestart \/ Shutdown \/ SpawnFails \/ Greeted \/ Rebuild \/ Rebuilt
    PROVE  Core'
<1>1. /\ Types /\ queue # <<>> /\ revision = snapshot /\ Running("restart") /\ Decisive(Head(queue))
      /\ UNCHANGED <<process, active, outbox, told>> /\ ~Waiting("runner")
      /\ revision \in Revisions /\ snapshot \in Revisions
      /\ call \in [Threads -> Call \cup {Nil}] /\ "runner" \in Threads
  BY TypeParts DEF Inv, Stages, Fresh, BeginRestart, Shutdown, SpawnFails, Greeted, Rebuild, Rebuilt, Restarting,
         Answered, Waiting, Running, Decisive, bridge, child, LinkTypes, ClientTypes, Threads
<1>2. {"ok", "rejected", "failed"} = Outcomes /\ {"shutdown", "activate"} \subseteq Commands /\ "failed" \in Bad
  BY DEF Outcomes, Commands, Bad
<1>3. CASE BeginRestart
  <2>1. UNCHANGED <<queue, callbacks, call, inbox, revision, snapshot>> /\ step' = "shutdown"
    BY <1>3 DEF BeginRestart, Go, client
  <2>2. Stages'
    BY <1>1, <2>1 DEF Stages, Restarting, Running, Waiting
  <2>3. Fresh'
    BY <1>1, <2>1 DEF Inv, Fresh
  <2>4. Matched'
    BY <1>1, <2>1 DEF Inv, Matched, Waiting
  <2>5. Obeyed' /\ Reported'
    BY <1>1, <2>1 DEF Obeyed, Activating, Reported, Working, Running
  <2> QED
    BY <2>2, <2>3, <2>4, <2>5 DEF Core
<1>4. CASE Shutdown
  <2>1. step' = "stop" /\ UNCHANGED <<queue, callbacks, revision, snapshot>>
    BY <1>4 DEF Shutdown, Go, client
  <2>2. Stages'
    BY <1>1, <2>1 DEF Stages, Restarting, Running
  <2>3. CASE Request("runner", "shutdown", revision)
    <3>1. ~Activating' /\ step' \in Sent /\ Working'
      BY <1>1, <2>1 DEF Activating, Sent, Working, Running
    <3> QED
      BY <1>1, <1>2, <2>1, <2>2, <2>3, <3>1, RunnerRequest DEF Kept
  <2>4. CASE process # "alive" /\ UNCHANGED <<connection, call, inbox>>
    <3>1. Fresh'
      BY <1>1, <2>1, <2>4 DEF Inv, Fresh
    <3> QED
      BY <1>1, <2>2, <2>4, <3>1, NoChild
  <2> QED
    BY <1>4, <2>3, <2>4 DEF Shutdown
<1>5. CASE SpawnFails
  <2>1. Finish("failed") /\ UNCHANGED <<call, inbox, revision, snapshot>> /\ step = "spawn"
    BY <1>5 DEF SpawnFails, child
  <2> QED
    BY <1>1, <1>2, <2>1, OperationEnds
<1>6. CASE Greeted
  <2>1. call'["runner"] = Nil /\ UNCHANGED <<inbox, revision, snapshot>> /\ step = "greet"
    BY <1>1, <1>6 DEF Greeted, client
  <2>2. process = "alive" => Settled(0)
    BY <2>1 DEF Inv, Fresh
  <2>3. CASE snapshot = 0
    <3>1. Finish("ok")
      BY <1>6, <2>3 DEF Greeted
    <3>2. process = "alive" => Settled(revision')
      BY <1>1, <2>1, <2>2, <2>3
    <3> QED
      BY <1>1, <1>2, <2>1, <3>1, <3>2, OperationEnds
  <2>4. CASE snapshot # 0
    <3>1. step' = "connected" /\ UNCHANGED <<queue, callbacks>>
      BY <1>6, <2>4 DEF Greeted, Go
    <3>2. Stages' /\ ~Waiting("runner")'
      BY <1>1, <2>1, <3>1 DEF Stages, Restarting, Running, Waiting
    <3>3. Fresh'
      BY <1>1, <2>1, <2>2, <3>1 DEF Inv, Fresh, Settled
    <3>4. Matched'
      BY <1>1, <2>1 DEF Inv, Matched
    <3>5. Obeyed' /\ Reported'
      BY <1>1, <3>1 DEF Obeyed, Activating, Reported, Working, Running
    <3> QED
      BY <3>2, <3>3, <3>4, <3>5 DEF Core
  <2> QED
    BY <2>3, <2>4
<1>7. CASE Rebuild
  <2>1. step' = "rebuilt" /\ UNCHANGED <<queue, callbacks, revision, snapshot>> /\ Request("runner", "activate", snapshot)
    BY <1>7 DEF Rebuild, Go, client
  <2>2. Stages'
    BY <1>1, <2>1 DEF Stages, Restarting, Running
  <2>3. Activating' /\ Target' = snapshot /\ step' \in Sent /\ Working'
    BY <1>1, <2>1 DEF Activating, Target, Sent, Working, Running
  <2> QED
    BY <1>1, <1>2, <2>1, <2>2, <2>3, RunnerRequest DEF Kept
<1>8. CASE Rebuilt
  <2>1. call'["runner"] = Nil /\ UNCHANGED inbox /\ step = "rebuilt" /\ call["runner"] # Nil
    BY <1>1, <1>8 DEF Rebuilt, Answered
  <2>2. revision' = snapshot /\ snapshot' = snapshot
    BY <1>1, <1>8 DEF Rebuilt, Keep, client
  <2>3. CASE call["runner"].answer = "ack"
    <3>1. process = "alive" => Settled(snapshot)
      BY <2>1, <2>3 DEF Inv, Obeyed, Activating, Target
    <3>2. Finish("ok")
      BY <1>8, <2>3 DEF Rebuilt
    <3> QED
      BY <1>1, <1>2, <2>1, <2>2, <3>1, <3>2, OperationEnds
  <2>4. CASE call["runner"].answer # "ack"
    <3>1. Finish("failed")
      BY <1>8, <2>4 DEF Rebuilt
    <3> QED
      BY <1>1, <1>2, <2>1, <2>2, <3>1, OperationEnds
  <2> QED
    BY <2>3, <2>4
<1> QED
  BY <1>3, <1>4, <1>5, <1>6, <1>7, <1>8

-----------------------------------------------------------------------------
(* The invariant and what follows from it.                                  *)

LEMMA InitInv == Init => Inv
<1> SUFFICES ASSUME Init PROVE Inv
  OBVIOUS
<1>1. Types
  <2>1. BridgeTypes /\ ClientTypes /\ ChildTypes
    BY ZeroIsRevision DEF Init, BridgeTypes, ClientTypes, ChildTypes, Connections
  <2>2. RunnerTypes /\ LinkTypes /\ PipeTypes
    BY EmptySeq DEF Init, RunnerTypes, LinkTypes, PipeTypes, Connections
  <2>3. BoundTypes
    BY BoundsAssumption DEF Init, BoundTypes
  <2> QED
    BY <2>1, <2>2, <2>3, TypeParts
<1>2. ~Waiting("runner") /\ Settled(0)
  BY DEF Init, Waiting, Settled, Threads
<1>3. Core
  BY <1>2 DEF Init, Core, Stages, Fresh, Matched, Obeyed, Activating, Reported, Restarting, Settled
<1> QED
  BY <1>1, <1>3 DEF Core, Inv

LEMMA NextInv ==
    ASSUME Inv, [Next]_vars
    PROVE  Inv'
<1>1. CASE Next
  <2>1. Types'
    <3>1. Types /\ Stages
      BY DEF Inv
    <3> QED
      BY <1>1, <3>1, TypesNext
  <2>2. Core'
    BY <1>1, WindowCore, EventsCore, OtherThreadsCore, StoppedCore, BeginsCore, SecondRequestCore, ReturnCore,
       RestartsCore, SpawnCore, DeliverCore, TimeOutCore, ServeCore
       DEF Next, Window, Events, Faults, Operation
  <2> QED
    BY <2>1, <2>2 DEF Core, Inv
<1>2. CASE UNCHANGED vars
  <2>1. UNCHANGED <<bridge, ui, runner, knownStopped, connection, client, call, child, inbox, outbox, bounds>>
    BY <1>2 DEF vars
  <2>2. Types'
    BY <1>2 DEF Inv, Types, TypeOK, vars, bridge, runner, client, child, bounds
  <2>3. UNCHANGED <<Kept, step, inbox, call, queue, told, callbacks>>
    BY <2>1 DEF Kept, bridge, runner, client, child
  <2>4. SameOperation /\ (BadNews => BadNews')
    BY <2>3 DEF Inv, Stages, SameOperation, BadNews
  <2>5. Core'
    BY <2>3, <2>4, QuietStep
  <2> QED
    BY <2>2, <2>5 DEF Core, Inv
<1> QED
  BY <1>1, <1>2

LEMMA InvHolds == Spec => []Inv
BY InitInv, NextInv, PTL DEF Spec

\* Every variable keeps its type, whatever the bounds on edits, commands, faults
\* and time-outs.
THEOREM LinkTypeCorrect == Spec => []TypeOK
<1>1. Inv => TypeOK
  BY DEF Inv, Types
<1> QED
  BY <1>1, InvHolds, PTL

\* What the editor and the child take for the active graph differs only while an
\* activation or a restart is under way, or after the user was told that the last
\* one did not succeed: for any number of edits, commands, crashes, hangs and
\* answers that come late.
THEOREM DivergenceIsTold == Spec => []DivergenceIsReported
<1>1. Inv => DivergenceIsReported
  BY DEF Inv, Stages, Reported, BadNews, Bad, Settled, Working, Running, DivergenceIsReported
<1> QED
  BY <1>1, InvHolds, PTL
=============================================================================

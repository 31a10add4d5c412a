------------------------------ MODULE MCEngine ------------------------------
(***************************************************************************)
(* The engine process: its body with a video and a camera; the worker that *)
(* queues frames, with two sources so that one may be overtaken; and the   *)
(* scheduler and its runtimes with four plans.  A behaviour is of one of   *)
(* the three.                                                              *)
(***************************************************************************)
EXTENDS EngineBody, GraphWorker, Scheduler, TLC

CONSTANTS s1, s2

\* Plans of the body, by the configuration of a source and of the output it
\* drives: both sources, the video with another file, another output for the
\* video, and each source alone.
Driven(source, output) == [source |-> source, output |-> output]
MCSourcePlans == {<<Driven(1, 1), Driven(1, 1)>>, <<Driven(2, 1), Driven(1, 1)>>,
                  <<Driven(1, 2)>>, <<Driven(1, 1)>>}

K == INSTANCE Catalogue
C == INSTANCE RandomGraph WITH Registry <- K!BuiltinRegistry, Issues <- <<>>

\* A graph of built-in nodes, compiled; an edge is <<source, output, destination,
\* input>>.
Graph(types, literals, edges) ==
  [nodes |-> [n \in DOMAIN types |-> C!Node(types[n], literals[n])],
   conns |-> [c \in DOMAIN edges |->
                C!Connection(edges[c][1], <<edges[c][2], 0>>, edges[c][3], <<edges[c][4], 0>>)]]
Plain(types) == [n \in DOMAIN types |-> <<>>]
\* A plan as the scheduler reads it.
OfScheduler(p) ==
  LET definition(n) == K!BuiltinRegistry[p.nodes[n].type]
  IN [order |-> p.order,
      nodes |-> [n \in DOMAIN p.nodes |->
        [kind |-> definition(n).kind, noData |-> definition(n).noData,
         clock |-> p.nodes[n].clock, demanded |-> p.nodes[n].demanded,
         static |-> p.nodes[n].static, key |-> C!RetentionKey(p.nodes[n]),
         inputs |-> {b.src : b \in C!Range(p.nodes[n].bindings)},
         outputs |-> DOMAIN definition(n).outputs # {}]]]
Scheduled(types, literals, edges) ==
  OfScheduler(C!Compile(Graph(types, literals, edges), C!NoRequest))

\* A video with a delayed image, with another start of its loop, with an image
\* that a number brightens in between, and two videos that drive a MIDI output
\* each.
Delayed == <<"load_video", "hold_image", "display_image_data">>
Chained == <<<<1, "image", 2, "image">>, <<2, "image", 3, "image">>>>
Compiled ==
  <<Scheduled(Delayed, Plain(Delayed), Chained),
    Scheduled(Delayed, [Plain(Delayed) EXCEPT ![1] = "loop_start_s" :> K!Value("FLOAT", 500)], Chained),
    Scheduled(Delayed \o <<"brightness", "number">>, Plain(<<1, 2, 3, 4, 5>>),
      <<<<1, "image", 4, "image">>, <<5, "value", 4, "offset">>, <<4, "image", 2, "image">>,
        <<2, "image", 3, "image">>>>),
    LET voice == <<"load_video", "to_luminance", "edges_to_pitch", "send_midi">>
        wired(n) == <<<<n, "image", n + 1, "image">>, <<n + 1, "channel", n + 2, "edges">>,
                      <<n + 2, "midi", n + 3, "midi">>>>
    IN Scheduled(voice \o voice, Plain(voice \o voice), wired(1) \o wired(5))>>

\* The same plans with a number for each retention key of a node.
Part(kind, clock, key, inputs) ==
  [kind |-> kind, noData |-> kind = "SINK", clock |-> clock, demanded |-> TRUE,
   static |-> clock = 0, key |-> key, inputs |-> inputs,
   outputs |-> kind \notin {"SINK", "VISUALIZER"}]
Looped(key) ==
  [order |-> <<1, 2, 3>>,
   nodes |-> <<Part("SOURCE", 1, key, {}), Part("STATEFUL", 1, 1, {1}), Part("VISUALIZER", 1, 1, {2})>>]
MCPlans ==
  <<Looped(1), Looped(2),
    [order |-> <<1, 5, 4, 2, 3>>,
     nodes |-> <<Part("SOURCE", 1, 1, {}), Part("STATEFUL", 1, 2, {4}), Part("VISUALIZER", 1, 1, {2}),
                 Part("STATELESS", 1, 1, {1, 5}), Part("STATELESS", 0, 1, {})>>],
    [order |-> <<1, 2, 3, 4, 5, 6, 7, 8>>,
     nodes |-> <<Part("SOURCE", 1, 1, {}), Part("STATELESS", 1, 3, {1}), Part("STATELESS", 1, 2, {2}),
                 Part("SINK", 1, 2, {3}), Part("SOURCE", 5, 2, {}), Part("STATELESS", 5, 1, {5}),
                 Part("STATELESS", 5, 1, {6}), Part("SINK", 5, 1, {7})>>]>>

\* They are what the compiler makes of the graphs, and the numbers differ where
\* the keys do.
ASSUME PlansAreCompiled ==
  LET plans == Compiled
      keyless(node) == [node EXCEPT !.key = 0]
  IN /\ DOMAIN plans = DOMAIN MCPlans
     /\ \A i \in DOMAIN plans :
          /\ plans[i].order = MCPlans[i].order
          /\ [n \in DOMAIN plans[i].nodes |-> keyless(plans[i].nodes[n])]
               = [n \in DOMAIN MCPlans[i].nodes |-> keyless(MCPlans[i].nodes[n])]
     /\ \A i, j \in DOMAIN plans : \A n \in DOMAIN plans[i].nodes \cap DOMAIN plans[j].nodes :
          plans[i].nodes[n].key = plans[j].nodes[n].key
            <=> MCPlans[i].nodes[n].key = MCPlans[j].nodes[n].key

\* Graphs of the generator: one transform of each kind, and the difference and
\* the statistics with or without.
Draws ==
  [source : {"load_video", "load_camera"}, images : {<<t>> : t \in C!ImageTransforms},
   channels : {<<>>}, difference : BOOLEAN, statistics : {FALSE},
   musical : {"channel_to_pitch"}, sink : {"send_midi"}]
    \cup
  [source : {"load_video"}, images : {<<<<"flip", "image">>>>},
   channels : {<<t>> : t \in C!ChannelTransforms}, difference : {FALSE}, statistics : BOOLEAN,
   musical : {"channel_to_pitch", "edges_to_pitch"}, sink : {"generate_audio"}]

\* What the generator puts together compiles whole: no part is in error, left
\* out of the plan or without effect.
ASSUME GeneratedIsWhole ==
  \A d \in Draws : \E g \in {C!GenerateRandomGraph(d)} :
    /\ C!Validate(g) = {}
    /\ \E p \in {C!Compile(g, C!NoRequest)} :
         /\ DOMAIN p.nodes = DOMAIN g.nodes
         /\ \A n \in DOMAIN p.nodes : p.nodes[n].demanded

VARIABLE part     \* the component that this behaviour is of

\* The mark for no command in hand is not a command.
ASSUME NoneIsNoCommand == None \notin Command

\* What the compiler makes of the graphs is what the scheduler relies on.
ASSUME KeysAreWhole == KeysIdentify

parts == <<part, vars, workerVars, schedulerVars>>

PartsInit ==
  /\ part \in {"body", "worker", "scheduler"}
  /\ Init
  /\ WorkerInit
  /\ SchedulerInit

PartsNext ==
  \/ part = "body" /\ Next /\ UNCHANGED <<part, workerVars, schedulerVars>>
  \/ part = "worker" /\ WorkerNext /\ UNCHANGED <<part, vars, schedulerVars>>
  \/ part = "scheduler" /\ SchedulerNext /\ UNCHANGED <<part, vars, workerVars>>

PartsSpec == PartsInit /\ [][PartsNext]_parts
=============================================================================

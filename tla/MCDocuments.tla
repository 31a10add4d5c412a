---------------------------- MODULE MCDocuments -----------------------------
(***************************************************************************)
(* A document: two commands that edit a video with its display and a       *)
(* group, a sound document of two clocks, or one opened with a node on     *)
(* both; autosave and recovery with one crash and one failure; the steps   *)
(* of an atomic save, three with two faults; and what files of every       *)
(* schema are loaded as, with their media.  A behaviour is of one of the   *)
(* four.                                                                   *)
(***************************************************************************)
EXTENDS Editor, Catalogue, AtomicFile, Recovery

\* The definitions the editor uses, and validate as a function that TLC
\* evaluates where it is applied.
MCRegistry ==
  [load_video |-> LoadVideoNode, load_camera |-> LoadCameraNode, to_luminance |-> ToLuminanceNode,
   display_image_data |-> DisplayImageDataNode, channel_display |-> ChannelDisplayNode,
   difference |-> DifferenceNode, add_scalar |-> AddScalarNode]
MCIssues == [g \in Any |-> Validate(g)]

NodeOf(type) == NodeModel(type, <<>>, 0)
ImageTo(src, dst, in) == ConnectionModel(src, <<"image", 0>>, dst, <<in, 0>>)

Chain ==
  [EmptyDocument EXCEPT
     !.nodes = 1 :> NodeOf("load_video") @@ 2 :> NodeOf("display_image_data"),
     !.conns = 1 :> ImageTo(1, 2, "image"),
     !.groups = 1 :> [position |-> 0, title |-> 0]]

\* One edge more, of an image or of a number, and it would run on two clocks.
Sound ==
  [EmptyDocument EXCEPT
     !.nodes = 1 :> NodeOf("load_video") @@ 2 :> NodeOf("load_camera") @@ 3 :> NodeOf("add_scalar"),
     !.conns = 1 :> ImageTo(1, 3, "image")]

\* Opened with a difference that runs on two clocks, and one behind it.
Broken ==
  [EmptyDocument EXCEPT
     !.nodes = 1 :> NodeOf("load_video") @@ 2 :> NodeOf("load_camera")
                 @@ 3 :> NodeOf("difference") @@ 4 :> NodeOf("difference"),
     !.conns = 1 :> ImageTo(1, 3, "a") @@ 2 :> ImageTo(2, 3, "b") @@ 3 :> ImageTo(3, 4, "a")]

MCGraphs == {Chain, Sound, Broken, EmptyDocument}
MCReplacements == {Chain, EmptyDocument}

MCFragments ==
  {[nodes |-> 1 :> NodeModel("to_luminance", <<>>, 0) @@ 2 :> NodeModel("channel_display", <<>>, 0),
    conns |-> 1 :> ConnectionModel(1, <<"channel", 0>>, 2, <<"channel", 0>>)]}
\* ClipboardFragment takes no other.
ASSUME FragmentsAreSound == \A f \in MCFragments : FragmentIsSound(f)

MCLiterals ==
  {[parameter |-> "loop_end_s", value |-> Value("FLOAT", v)] : v \in {-5, 7}}

Shape(version, migrations, inputs, outputs) ==
  [version |-> version, migrations |-> migrations, inputs |-> inputs, outputs |-> outputs]
FileRegistry ==
  "load_video" :> Shape(1, {}, {}, {"image"}) @@ "statistics" :> Shape(1, {}, {"values_1"}, {"value"})
    @@ "separate_channels" :> Shape(2, {1}, {"image"}, {"channel_1"})
    @@ "combine_channels" :> Shape(2, {1}, {"channel_1"}, {"image"})
MCRetired == "opacity" :> Shape(1, {}, {"image"}, {"image"})

\* Files of every schema, some of which the program of its day wrote.
MediaParameters(name) ==
  [file_path |-> [json |-> "string", path |-> <<".", name>>],
   tint |-> [json |-> "tagged_color", path |-> <<>>]]
NodeObject(schema, id, type, version, name) ==
  LET parameters == IF type = "load_video" THEN MediaParameters(name) ELSE <<>>
  IN IF schema = 0 THEN [id |-> id, type_id |-> type, version |-> version, parameters |-> parameters]
     ELSE [id |-> id, type_id |-> type, implementation_version |-> version,
           parameters |-> parameters, ui_state |-> <<>>]
ConnectionObject(schema, output, input, to) ==
  [id |-> 1, source |-> 1, output |-> output, destination |-> to, input |-> input]
    @@ (IF schema < 2 THEN <<>> ELSE [ui_state |-> <<>>])
FileObject(schema, nodes, connections) ==
  [schema_version |-> schema, nodes |-> nodes, connections |-> connections]
    @@ (IF schema = 0 THEN <<>>
        ELSE [groups |-> <<>>, document_settings |-> <<>>, ui_state |-> <<>>])
MCFiles ==
  {FileObject(s, <<NodeObject(s, 1, t, v, name), NodeObject(s, 2, u, v, name)>>,
              <<ConnectionObject(s, o, i, to)>>)
     : s \in 0 .. 5, t \in {"load_video", "opacity", "separate_channels"},
       u \in {"statistics", "opacity", "combine_channels"}, v \in {1, 2}, name \in {"clip"},
       o \in {"image", "channel_4"}, i \in {"image", "values", "channel_4"}, to \in {2, 3}}
    \cup {FileObject(s, <<NodeObject(s, 1, "load_video", 1, name)>>, <<>>)
            : s \in {0, 4}, name \in {"clip", "gone"}}

VARIABLE part     \* the component that this behaviour is of

VARIABLES
  g_file, g_at, g_document, g_media, g_meant, g_strayed, g_steps

g_vars == <<
  g_file, g_at, g_document, g_media, g_meant, g_strayed, g_steps>>

G == INSTANCE GraphFile WITH
  Registry <- FileRegistry, Retired <- MCRetired, Files <- MCFiles,
  Folders <- {"home", "usb"}, MaxNodes <- 2, MaxConnections <- 1, MaxSteps <- 5,
  file <- g_file, at <- g_at, document <- g_document, media <- g_media,
  meant <- g_meant, strayed <- g_strayed, steps <- g_steps

parts == <<part, vars, recoveryVars, fileVars, g_vars>>

PartsInit ==
  /\ part \in {"editor", "recovery", "file", "graph"}
  /\ Init /\ (part # "editor" => doc = EmptyDocument)
  /\ RecoveryInit
  /\ SaveInit /\ (part # "file" => ~posix /\ ~retain)
  /\ G!Init
     /\ (part # "graph" => g_at = "home" /\ g_file = CHOOSE f \in MCFiles : TRUE)

PartsNext ==
  \/ part = "editor" /\ Next /\ UNCHANGED <<part, recoveryVars, fileVars, g_vars>>
  \/ part = "recovery" /\ RecoveryNext /\ UNCHANGED <<part, vars, fileVars, g_vars>>
  \/ part = "file" /\ SaveNext /\ UNCHANGED <<part, vars, recoveryVars, g_vars>>
  \/ part = "graph" /\ G!Next /\ UNCHANGED <<part, vars, recoveryVars, fileVars>>

PartsSpec ==
  /\ PartsInit /\ [][PartsNext]_parts
  /\ WF_recoveryVars(part = "recovery" /\ Progress)

-----------------------------------------------------------------------------
(* Property of a component, under its name.                                 *)

\* Every file that a version of the program has written loads, all it connects are
\* ports of today's catalogue, and what is loaded is sound; and however a graph is
\* saved, moved with its folder, saved elsewhere and loaded again, its media nodes
\* name the content they were meant for.
FilesKeepTheirMeaning == G!OldFilesLoad /\ G!MediaIsKept
=============================================================================

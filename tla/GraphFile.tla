------------------------------ MODULE GraphFile ------------------------------
(***************************************************************************)
(* What a graph file holds and what loading it makes of it                  *)
(* (persistence/graph_io.py, schemas.py, literals.py): the migrations of    *)
(* older files, the checks in their order, and the paths of media, which    *)
(* are stored relative to the folder of the graph where they can be         *)
(* (media_relink.py).                                                       *)
(*                                                                          *)
(* A JSON object is a function of its fields.  A parameter is [json, path]: *)
(* the kind of its value and, for media, the path.  A path is               *)
(* <<folder, name>>, the folder "." when it is relative.                    *)
(***************************************************************************)
EXTENDS Naturals, Sequences, SequencesExt, FiniteSets, TLC

CONSTANTS Registry,        \* type -> [version, migrations, inputs, outputs]
          Retired,         \* the same for types that are gone
          Files,           \* the files there are to begin with
          Folders,         \* where a file may be
          MaxNodes, MaxConnections,    \* limits of a file
          MaxSteps         \* bound on what the user does

VARIABLES
  file,      \* the JSON data of the graph file
  at,        \* the folder it is in
  document,  \* what was loaded: [error, nodes, connections]
  media,     \* path of each media file that exists -> its content
  meant,     \* the content of the media that the file and the document mean
  strayed,   \* media was moved without the graph
  steps

vars == <<file, at, document, media, meant, strayed, steps>>

SchemaVersion == 4
MediaType == "load_video"
Has(object, field) == field \in DOMAIN object
Without(object, field) == [f \in DOMAIN object \ {field} |-> object[f]]

-----------------------------------------------------------------------------
(* Literals.                                                                *)

LiteralKinds == {"null", "string", "bool", "int", "float", "matrix", "color"}

\* literal_value: a list must be a matrix, an object a colour with its tag.
LiteralValue(json) ==
  CASE json \in {"null", "string", "bool", "int", "float"} -> json
    [] json = "rows" -> "matrix"
    [] json = "tagged_color" -> "color"
    [] OTHER -> "invalid_literal"

LiteralToData(kind) ==
  CASE kind = "color" -> "tagged_color" [] kind = "matrix" -> "rows" [] OTHER -> kind

-----------------------------------------------------------------------------
(* Migrations of the file.                                                  *)

OnAll(objects, Op(_)) == [i \in DOMAIN objects |-> Op(objects[i])]
IdsOf(nodes, type) == {nodes[i].id : i \in {j \in DOMAIN nodes : nodes[j].type_id = type}}
Default(object, defaults) == object @@ defaults

\* The prototype called the version of a node something else and left out what
\* was not set.
MigrateV0(data) ==
  LET renamed(n) == IF Has(n, "version") /\ ~Has(n, "implementation_version")
                    THEN Without(n, "version") @@ ("implementation_version" :> n["version"]) ELSE n
      filled(n) == Default(renamed(n), [parameters |-> <<>>, ui_state |-> <<>>])
  IN Default([data EXCEPT !.schema_version = 1, !.nodes = OnAll(@, filled)],
             [groups |-> <<>>, document_settings |-> <<>>, ui_state |-> <<>>])

MigrateV1(data) ==
  [data EXCEPT !.schema_version = 2,
               !.connections = OnAll(@, LAMBDA c : Default(c, [ui_state |-> <<>>]))]

\* The only input of Statistics became the first of several.
MigrateV2(data) ==
  LET statistics == IdsOf(data.nodes, "statistics")
      moved(c) == IF c.destination \in statistics /\ c.input = "values"
                  THEN [c EXCEPT !.input = "values_1"] ELSE c
  IN [data EXCEPT !.schema_version = 3, !.connections = OnAll(@, moved)]

\* Mutant of MigrateV3: the retired outputs of Separate Channels are forgotten.
MigrateV3Inputs(data) ==
  LET opacity == IdsOf(data.nodes, "opacity")
      combine == IdsOf(data.nodes, "combine_channels")
      kept(c) == /\ {c.source, c.destination} \cap opacity = {}
                 /\ ~(c.destination \in combine /\ c.input = "channel_4")
  IN [data EXCEPT !.schema_version = 4, !.nodes = SelectSeq(@, LAMBDA n : n.id \notin opacity),
                  !.connections = SelectSeq(@, kept)]

\* Sources have no alpha: Opacity nodes go, and what is connected to them or
\* to a fourth channel.
MigrateV3(data) ==
  LET opacity == IdsOf(data.nodes, "opacity")
      separate == IdsOf(data.nodes, "separate_channels")
      combine == IdsOf(data.nodes, "combine_channels")
      kept(c) == /\ {c.source, c.destination} \cap opacity = {}
                 /\ ~(c.destination \in combine /\ c.input = "channel_4")
                 /\ ~(c.source \in separate /\ c.output = "channel_4")
  IN [data EXCEPT !.schema_version = 4, !.nodes = SelectSeq(@, LAMBDA n : n.id \notin opacity),
                  !.connections = SelectSeq(@, kept)]

\* migrate_graph_data; a newer file is refused.
MigrateGraphData(data) ==
  LET v1 == IF data.schema_version = 0 THEN MigrateV0(data) ELSE data
      v2 == IF v1.schema_version = 1 THEN MigrateV1(v1) ELSE v1
      v3 == IF v2.schema_version = 2 THEN MigrateV2(v2) ELSE v2
  IN IF v3.schema_version = 3 THEN MigrateV3(v3) ELSE v3

-----------------------------------------------------------------------------
(* Loading.                                                                 *)

NodeFields == {"id", "type_id", "implementation_version", "parameters", "ui_state"}
ConnectionFields == {"id", "source", "output", "destination", "input", "ui_state"}
GraphFields == {"schema_version", "nodes", "connections", "groups", "document_settings", "ui_state"}

FieldProblem(object, fields) ==
  CASE fields \ DOMAIN object # {} -> "missing_field"
    [] DOMAIN object \ fields # {} -> "unknown_field"
    [] OTHER -> "none"

\* migrate_node_data: one registered step for every version on the way.
NodeMigrates(type, version) ==
  \A v \in version .. Registry[type].version - 1 : v \in Registry[type].migrations

\* _node_from_data.  Migrated nodes have the version of their type.
NodeProblem(n) ==
  CASE n.type_id \notin DOMAIN Registry -> "unknown_node_type"
    [] ~Has(n, "implementation_version") -> "invalid_type"
    [] ~NodeMigrates(n.type_id, n.implementation_version) -> "node_migration_failed"
    [] FieldProblem(n, NodeFields) # "none" -> FieldProblem(n, NodeFields)
    [] n.implementation_version > Registry[n.type_id].version -> "unsupported_node_version"
    [] \E p \in DOMAIN n.parameters : LiteralValue(n.parameters[p].json) \notin LiteralKinds -> "invalid_literal"
    [] OTHER -> "none"

Decoded(parameter) == [kind |-> LiteralValue(parameter.json), path |-> parameter.path]

NodeFromData(n) ==
  [id |-> n.id, type_id |-> n.type_id,
   parameters |-> [p \in DOMAIN n.parameters |-> Decoded(n.parameters[p])],
   ui_state |-> n.ui_state]

ConnectionProblem(c) == FieldProblem(c, ConnectionFields)

Unique(objects) == \A i, j \in DOMAIN objects : objects[i].id = objects[j].id => i = j
Dangling(connections, nodes) ==
  \E i \in DOMAIN connections :
    {connections[i].source, connections[i].destination} \ {nodes[j].id : j \in DOMAIN nodes} # {}

TooMany(data) == Len(data.nodes) > MaxNodes \/ Len(data.connections) > MaxConnections

\* The first of them in the order of the list, "none" if there is none.
FirstProblem(problems) ==
  LET found == SelectSeq(problems, LAMBDA p : p # "none")
  IN IF found = <<>> THEN "none" ELSE Head(found)

Found(condition, code) == IF condition THEN code ELSE "none"

\* graph_from_data, in the order of its checks.
GraphProblem(data) ==
  LET new == MigrateGraphData(data)
  IN IF TooMany(data) THEN "too_many_items"
     ELSE IF data.schema_version > SchemaVersion THEN "migration_failed"
     ELSE FirstProblem(<<FieldProblem(new, GraphFields), Found(new.ui_state # <<>>, "unsupported_content")>>
            \o OnAll(new.nodes, NodeProblem)
            \o <<Found(~Unique(new.nodes), "duplicate_id")>>
            \o OnAll(new.connections, ConnectionProblem)
            \o <<Found(~Unique(new.connections), "duplicate_id"),
                 Found(Dangling(new.connections, new.nodes), "dangling_connection")>>)

Failed(code) == [error |-> code, nodes |-> {}, connections |-> {}]

GraphFromData(data) ==
  IF GraphProblem(data) # "none" THEN Failed(GraphProblem(data))
  ELSE LET new == MigrateGraphData(data)
       IN [error |-> "none", nodes |-> ToSet(OnAll(new.nodes, NodeFromData)),
           connections |-> ToSet(new.connections)]

-----------------------------------------------------------------------------
(* Media.                                                                   *)

IsMedia(n) == n.type_id = MediaType /\ "file_path" \in DOMAIN n.parameters
OnMedia(nodes, Op(_)) == {IF IsMedia(n) THEN Op(n) ELSE n : n \in nodes}

\* _resolve_media_path
Resolved(n, folder) ==
  [n EXCEPT !.parameters["file_path"].path = IF @[1] = "." THEN <<folder, @[2]>> ELSE @]

LoadGraph(data, folder) ==
  LET graph == GraphFromData(data)
  IN [graph EXCEPT !.nodes = OnMedia(@, LAMBDA n : Resolved(n, folder))]

\* _persisted_media_path: relative for a file in the folder of the graph.
RelativePath(path, folder) == IF path[1] = folder THEN <<".", path[2]>> ELSE path

\* media_fingerprint; 0 is no fingerprint.
Fingerprint(path) == IF path \in DOMAIN media THEN media[path] ELSE 0

\* What identifies the file; kept when the file is not there.
Identity(path, known) ==
  IF path \notin DOMAIN media /\ known # <<>> THEN known
  ELSE [fallback |-> path, fingerprint |-> Fingerprint(path)]

\* _with_persisted_media_identity
Persisted(n, folder) ==
  LET path == n.parameters["file_path"].path
  IN [n EXCEPT !.parameters["file_path"].path = RelativePath(path, folder),
               !.ui_state = Identity(path, @)]

NodeToData(n) ==
  [id |-> n.id, type_id |-> n.type_id, implementation_version |-> Registry[n.type_id].version,
   parameters |-> [p \in DOMAIN n.parameters |->
                     [json |-> LiteralToData(n.parameters[p].kind), path |-> n.parameters[p].path]],
   ui_state |-> n.ui_state]

ById(a, b) == a.id < b.id

\* graph_to_data
GraphToData(graph) ==
  [schema_version |-> SchemaVersion,
   nodes |-> OnAll(SetToSortSeq(graph.nodes, ById), NodeToData),
   connections |-> SetToSortSeq(graph.connections, ById),
   groups |-> <<>>, document_settings |-> <<>>, ui_state |-> <<>>]

\* find_missing_media
Missing == {n \in document.nodes : IsMedia(n) /\ n.parameters["file_path"].path \notin DOMAIN media}

\* verify_relink_candidate
Matches(n, candidate) ==
  CASE n.ui_state = <<>> -> "UNVERIFIED"
    [] n.ui_state.fingerprint = 0 -> "UNVERIFIED"
    [] Fingerprint(candidate) # n.ui_state.fingerprint -> "MISMATCH"
    [] OTHER -> "EXACT"

Relinked(n, candidate) ==
  [n EXCEPT !.parameters["file_path"].path = candidate,
            !.ui_state = [fallback |-> candidate, fingerprint |-> Fingerprint(candidate)]]

-----------------------------------------------------------------------------
(* What the user does.                                                      *)

NoDocument == Failed("closed")
Step == steps < MaxSteps /\ steps' = steps + 1
Opened == document.error = "none"

\* Contents of the media a document names, node by node.
Meant(graph) ==
  {<<n.id, media[n.parameters["file_path"].path]>> :
     n \in {m \in graph.nodes : IsMedia(m) /\ m.parameters["file_path"].path \in DOMAIN media}}

Init ==
  /\ file \in Files /\ at \in Folders
  /\ media = ((<<at, "clip">> :> 1) @@ [f \in (Folders \ {at}) \X {"other"} |-> 2])
  /\ document = NoDocument /\ meant = [file |-> {}, document |-> {}] /\ strayed = FALSE /\ steps = 0

Load ==
  /\ document = NoDocument /\ Step
  /\ document' = LoadGraph(file, at)
  /\ LET means == IF meant.file = {} THEN Meant(document') ELSE meant.file
     IN meant' = [file |-> means, document |-> means]
  /\ UNCHANGED <<file, at, media, strayed>>

Close ==
  /\ document # NoDocument /\ Step
  /\ document' = NoDocument
  /\ UNCHANGED <<file, at, media, meant, strayed>>

\* save_graph, here or in another folder.
Save(folder) ==
  /\ Opened /\ Step
  /\ file' = GraphToData([document EXCEPT !.nodes = OnMedia(@, LAMBDA n : Persisted(n, folder))])
  /\ at' = folder /\ meant' = [meant EXCEPT !.file = meant.document]
  /\ UNCHANGED <<document, media, strayed>>

\* The folder with everything in it is moved while no document is open.
MoveFolder(from, to) ==
  /\ document = NoDocument /\ Step /\ from # to
  /\ LET target(p) == IF p[1] = from THEN <<to, p[2]>> ELSE p
     IN media' = [q \in {target(p) : p \in DOMAIN media} |->
                    IF q[1] = to /\ <<from, q[2]>> \in DOMAIN media THEN media[<<from, q[2]>>] ELSE media[q]]
  /\ at' = IF at = from THEN to ELSE at
  /\ strayed' = (strayed \/ (at # from /\ \E p \in DOMAIN media : p[1] = from)
                         \/ \E p \in DOMAIN media : p[1] = to /\ <<from, p[2]>> \in DOMAIN media)
  /\ UNCHANGED <<file, document, meant>>

\* locate_missing_media: a file that differs is used if the user insists.
Relink(candidate, insists) ==
  /\ Opened /\ Step /\ candidate \in DOMAIN media
  /\ \E n \in Missing :
       /\ Matches(n, candidate) = "MISMATCH" => insists
       /\ document' = [document EXCEPT !.nodes = (@ \ {n}) \cup {Relinked(n, candidate)}]
       /\ meant' = [meant EXCEPT !.document = {m \in @ : m[1] # n.id} \cup {<<n.id, media[candidate]>>}]
  /\ UNCHANGED <<file, at, media, strayed>>

Next ==
  \/ Load \/ Close
  \/ \E f \in Folders : Save(f) \/ \E g \in Folders : MoveFolder(f, g)
  \/ \E c \in DOMAIN media, insists \in BOOLEAN : Relink(c, insists)

Spec == Init /\ [][Next]_vars

-----------------------------------------------------------------------------
(* Properties.                                                              *)

\* The ports a type had when files had a version.
InputsAt(type, schema) ==
  CASE type = "statistics" /\ schema <= 2 -> {"values"}
    [] type = "combine_channels" /\ schema <= 3 -> Registry[type].inputs \cup {"channel_4"}
    [] type \in DOMAIN Registry -> Registry[type].inputs
    [] OTHER -> Retired[type].inputs
OutputsAt(type, schema) ==
  CASE type = "separate_channels" /\ schema <= 3 -> Registry[type].outputs \cup {"channel_4"}
    [] type \in DOMAIN Registry -> Registry[type].outputs
    [] OTHER -> Retired[type].outputs

NodeOf(nodes, id) == CHOOSE n \in nodes : n.id = id

\* A file that the program of its day could have written.
Authentic(data) ==
  /\ data.schema_version <= SchemaVersion /\ ~TooMany(data)
  /\ Unique(data.nodes) /\ Unique(data.connections) /\ ~Dangling(data.connections, data.nodes)
  /\ \A i \in DOMAIN data.nodes :
       LET n == data.nodes[i]
       IN /\ n.type_id \in DOMAIN Registry \/ (n.type_id \in DOMAIN Retired /\ data.schema_version <= 3)
          /\ Has(n, IF data.schema_version = 0 THEN "version" ELSE "implementation_version")
          /\ n.type_id \in DOMAIN Registry =>
               (IF data.schema_version = 0 THEN n["version"] ELSE n.implementation_version)
                 \in Registry[n.type_id].migrations \cup {Registry[n.type_id].version}
  /\ \A i \in DOMAIN data.connections :
       LET c == data.connections[i]
       IN /\ c.input \in InputsAt(NodeOf(ToSet(data.nodes), c.destination).type_id, data.schema_version)
          /\ c.output \in OutputsAt(NodeOf(ToSet(data.nodes), c.source).type_id, data.schema_version)

\* Every file that a version of the program has written loads, and all it
\* connects are ports of today's catalogue (migrate_graph_data): "so saved
\* graphs stay valid".  What is loaded from any file is sound: its nodes and
\* connections are unique and nothing dangles.
OldFilesLoad ==
  document # NoDocument =>
    /\ Authentic(file) => Opened
    /\ Opened =>
         /\ \A c \in document.connections :
              {c.source, c.destination} \subseteq {n.id : n \in document.nodes}
         /\ \A a, b \in document.nodes : a.id = b.id => a = b
         /\ Authentic(file) =>
              \A c \in document.connections :
                /\ c.input \in Registry[NodeOf(document.nodes, c.destination).type_id].inputs
                /\ c.output \in Registry[NodeOf(document.nodes, c.source).type_id].outputs

\* However a graph is saved, moved with its folder, saved elsewhere and loaded
\* again, its media nodes name the content they were meant for, as long as no
\* media was moved without it.
MediaIsKept ==
  Opened /\ ~strayed => meant.document \subseteq Meant(document)

=============================================================================

------------------------------- MODULE Editor -------------------------------
(***************************************************************************)
(* DocumentSession (ui/session.py) with the commands of                    *)
(* ui/commands/graph_commands.py on Qt's undo stack.                       *)
(*                                                                         *)
(* A command is the two lists of document operations its redo() and undo() *)
(* perform, each with the refresh it ends in.  A refresh compiles the      *)
(* document unless the command is of presentation only; "compiled" is the  *)
(* graph the last compilation, and so the engine, knows.                   *)
(***************************************************************************)
EXTENDS RandomGraph

CONSTANTS
  Types,        \* the node types the user adds
  Documents,    \* the documents that files hold
  Replacements, \* those opened, recovered or generated in another's place
  Fragments,    \* what the clipboard may hold
  Literals,     \* the [parameter, value] pairs the user enters
  Files,        \* media files, positive numbers
  MaxNodes, MaxCommands, MaxSelected

VARIABLES
  doc,       \* the document
  compiled,  \* GraphOf the document at the last compilation
  stack, index, clean,   \* QUndoStack: commands, index, clean index (-1: none)
  saved      \* the content at the clean index, as last written or read

vars == <<doc, compiled, stack, index, clean, saved>>

Content(d) == <<d.nodes, d.conns, d.groups>>

\* No history leads back to what the file holds.
Nowhere == <<>>

-----------------------------------------------------------------------------
(* Commands.                                                                *)

NoMerge == <<"none", {}>>

\* "runtime" is whether _on_changed is _command_change_callback.
Command(redo, undo, runtime, merge) ==
  [redo |-> redo, undo |-> undo, runtime |-> runtime, merge |-> merge]

\* visualizer_replacement_type_ids: a display takes its dock for itself.
Replaces(type) ==
  CASE type \in {"display_image_data", "channel_display"} ->
         {"display_image_data", "channel_display"}
    [] type = "note_visualizer" -> {type}
    [] OTHER -> {}

\* Mutant of AddNodeCommand: undo brings the replaced display back without its
\* connections.
AddNodeForgetting(d, id, node) ==
  LET replaced == Restrict(d.nodes, {n \in DOMAIN d.nodes : d.nodes[n].type \in Replaces(node.type)})
  IN Command(Operations("remove_node", replaced, TRUE)
               \o Operations("restore_node", id :> node, FALSE),
             Operations("remove_node", id :> node, FALSE)
               \o Operations("restore_node", replaced, FALSE),
             TRUE, NoMerge)

AddNodeCommand(d, id, node) ==
  LET ids == {n \in DOMAIN d.nodes : d.nodes[n].type \in Replaces(node.type)}
      replaced == Restrict(d.nodes, ids)
  IN Command(Operations("remove_node", replaced, TRUE)
               \o Operations("restore_node", id :> node, FALSE),
             Operations("remove_node", id :> node, FALSE)
               \o Operations("restore_node", replaced, FALSE)
               \o Operations("restore_connection", Incident(d, ids), FALSE),
             TRUE, NoMerge)

AddGroupCommand(id, group) ==
  Command(Operations("restore_group", id :> group, FALSE),
          Operations("remove_group", id :> group, FALSE), FALSE, NoMerge)

DeleteGroupsCommand(d, ids) ==
  LET groups == Restrict(d.groups, ids)
  IN Command(Operations("remove_group", groups, TRUE),
             Operations("restore_group", groups, FALSE), FALSE, NoMerge)

\* MoveGroupsCommand and EditGroupCommand; moves of the same groups merge.
MoveGroupsCommand(d, moved) ==
  Command(Operations("restore_group", moved, TRUE),
          Operations("restore_group", Restrict(d.groups, DOMAIN moved), TRUE),
          FALSE, <<"groups", DOMAIN moved>>)

EditGroupCommand(d, id, group) ==
  [MoveGroupsCommand(d, id :> group) EXCEPT !.merge = NoMerge]

DeleteNodesCommand(d, ids) ==
  LET nodes == Restrict(d.nodes, ids \cap DOMAIN d.nodes)
  IN Command(Operations("remove_node", nodes, TRUE),
             Operations("restore_node", nodes, FALSE)
               \o Operations("restore_connection", Incident(d, DOMAIN nodes), FALSE),
             TRUE, NoMerge)

MoveNodesCommand(d, positions) ==
  LET places(p) == [n \in DOMAIN p |-> [position |-> p[n]]]
  IN Command(Operations("set_position", places(positions), TRUE),
             Operations("set_position",
                places([n \in DOMAIN positions |-> d.nodes[n].position]), TRUE),
             FALSE, <<"nodes", DOMAIN positions>>)

\* restore_node(replace_existing): whole nodes, new and old.
ReplaceNodesCommand(d, nodes, merge) ==
  Command(Operations("restore_node", nodes, TRUE),
          Operations("restore_node", Restrict(d.nodes, DOMAIN nodes), TRUE), TRUE, merge)

SetParameterCommand(d, n, p, value) ==
  ReplaceNodesCommand(d, n :> [d.nodes[n] EXCEPT !.literals = (p :> value) @@ @],
                      <<"parameter", {<<n, p>>}>>)

RandomizeParametersCommand(d, nodes) == ReplaceNodesCommand(d, nodes, NoMerge)

RelinkMediaCommand(d, n, file) ==
  ReplaceNodesCommand(d, n :> RelinkedMediaNode(d.nodes[n], file), NoMerge)

SetConnectionPreviewCommand(d, c, raw) ==
  Command(Operations("set_preview", c :> [preview |-> raw], TRUE),
          Operations("set_preview", c :> [preview |-> d.conns[c].preview], TRUE),
          TRUE, NoMerge)

\* RandomizeNodesCommand: _swap of the selected nodes for their replacement.
RandomizeNodesCommand(d, selected, result) ==
  LET oldNodes == Restrict(d.nodes, selected)
      oldConns == Incident(d, selected)
      newNodes == Restrict(result.doc.nodes, result.ids)
      newConns == Restrict(result.doc.conns,
                    {c \in DOMAIN result.doc.conns :
                       c \notin DOMAIN d.conns \/ d.conns[c] # result.doc.conns[c]})
      swap(nodes, conns, byNodes, byConns) ==
        Operations("remove_connection", conns, TRUE) \o Operations("remove_node", nodes, TRUE)
          \o Operations("restore_node", byNodes, FALSE)
          \o Operations("restore_connection", byConns, FALSE)
  IN Command(swap(oldNodes, oldConns, newNodes, newConns),
             swap(newNodes, newConns, oldNodes, oldConns), TRUE, NoMerge)

\* AddConnectionCommand and ReplaceConnectionCommand.
ConnectCommand(d, id, conn) ==
  LET replaced == Restrict(d.conns, Incoming(d, conn.dst, conn.in))
  IN Command(Operations("restore_connection", id :> conn, replaced # <<>>),
             Operations("remove_connection", id :> conn, FALSE)
               \o Operations("restore_connection", replaced, FALSE), TRUE, NoMerge)

RemoveConnectionCommand(d, c) ==
  Command(Operations("remove_connection", Restrict(d.conns, {c}), FALSE),
          Operations("restore_connection", Restrict(d.conns, {c}), FALSE), TRUE, NoMerge)

PasteCommand(f) ==
  Command(Operations("restore_node", f.nodes, FALSE)
            \o Operations("restore_connection", f.conns, FALSE),
          Operations("remove_node", f.nodes, TRUE), TRUE, NoMerge)

DuplicateCommand(f) == PasteCommand(f)

-----------------------------------------------------------------------------
(* The undo stack.                                                          *)

\* The operations one after the other.  (The bound variable makes TLC
\* evaluate each intermediate document once.)
Run(d, operations) ==
  LET after[i \in 0 .. Len(operations)] ==
        IF i = 0 THEN d
        ELSE CHOOSE r \in {Perform(before, operations[i]) : before \in {after[i - 1]}} : TRUE
  IN after[Len(operations)]

\* beginMacro .. endMacro around the pushes of some commands.
Macro(first, second) ==
  Command(first.redo \o second.redo, second.undo \o first.undo,
          first.runtime \/ second.runtime, NoMerge)

\* Room for a command that does not merge.
Room == Len(stack) < MaxCommands

\* _refresh.
Refresh(runtime) ==
  compiled' = IF runtime THEN GraphOf(doc') ELSE compiled

\* Mutant of Push: a command merges into the one that was saved.
PushMergingSaved(pushed) ==
 \E command \in {pushed} :
  LET kept == SubSeq(stack, 1, index)
      cleanLeft == IF clean > index THEN -1 ELSE clean
      merges == /\ index > 0
                /\ command.merge # NoMerge /\ kept[index].merge = command.merge
  IN /\ merges \/ Room
     /\ doc' = Run(doc, command.redo)
     /\ Refresh(command.runtime)
     /\ stack' = IF merges THEN [kept EXCEPT ![index].redo = command.redo]
                 ELSE Append(kept, command)
     /\ index' = IF merges THEN index ELSE index + 1
     /\ clean' = cleanLeft
     /\ saved' = IF cleanLeft = -1 THEN Nowhere ELSE saved

Push(pushed) ==
 \E command \in {pushed} :
  LET kept == SubSeq(stack, 1, index)
      cleanLeft == IF clean > index THEN -1 ELSE clean
      merges == /\ index > 0 /\ index # cleanLeft
                /\ command.merge # NoMerge /\ kept[index].merge = command.merge
  IN /\ merges \/ Room
     /\ doc' = Run(doc, command.redo)
     /\ Refresh(command.runtime)
     /\ stack' = IF merges THEN [kept EXCEPT ![index].redo = command.redo]
                 ELSE Append(kept, command)
     /\ index' = IF merges THEN index ELSE index + 1
     /\ clean' = cleanLeft
     /\ saved' = IF cleanLeft = -1 THEN Nowhere ELSE saved

Undo ==
  /\ index > 0
  /\ doc' = Run(doc, stack[index].undo)
  /\ Refresh(stack[index].runtime)
  /\ index' = index - 1
  /\ UNCHANGED <<stack, clean, saved>>

Redo ==
  /\ index < Len(stack)
  /\ doc' = Run(doc, stack[index + 1].redo)
  /\ Refresh(stack[index + 1].runtime)
  /\ index' = index + 1
  /\ UNCHANGED <<stack, clean, saved>>

-----------------------------------------------------------------------------
(* The session's edits.                                                     *)

\* uuid4: identifiers neither the document nor a command that a push leaves
\* on the stack knows.
Issued(operation) ==
  {o.id : o \in {x \in UNION {ToSet(stack[i].redo) \cup ToSet(stack[i].undo) :
                               i \in 1 .. index} : x.op = operation}}

FreshNode == Max(DOMAIN doc.nodes \cup Issued("restore_node") \cup {0}) + 1
FreshConn == Max(DOMAIN doc.conns \cup Issued("restore_connection") \cup {0}) + 1

AddNode ==
  \E t \in Types :
    /\ Cardinality(DOMAIN doc.nodes) < MaxNodes
    /\ Push(AddNodeCommand(doc, FreshNode, NodeModel(t, <<>>, 0)))

AddGroup == doc.groups = <<>> /\ Push(AddGroupCommand(1, [position |-> 0, title |-> 0]))

MoveGroups ==
  \E g \in DOMAIN doc.groups :
    Push(MoveGroupsCommand(doc, g :> [doc.groups[g] EXCEPT !.position = 1 - @]))

UpdateGroup ==
  \E g \in DOMAIN doc.groups :
    Push(EditGroupCommand(doc, g, [doc.groups[g] EXCEPT !.title = 1 - @]))

\* delete_selection: the connections that no selected node takes along, the
\* nodes, the groups.
DeleteSelection ==
  \E ns \in SUBSET DOMAIN doc.nodes, cs \in SUBSET DOMAIN doc.conns,
     gs \in SUBSET DOMAIN doc.groups :
    LET independent == cs \ DOMAIN Incident(doc, ns)
        conns == Command(Operations("remove_connection", Restrict(doc.conns, independent), FALSE),
                         Operations("restore_connection", Restrict(doc.conns, independent), FALSE),
                         independent # {}, NoMerge)
        nodes == IF ns = {} THEN Command(<<>>, <<>>, FALSE, NoMerge)
                 ELSE DeleteNodesCommand(Run(doc, conns.redo), ns)
        groups == IF gs = {} THEN Command(<<>>, <<>>, FALSE, NoMerge)
                  ELSE DeleteGroupsCommand(doc, gs)
    IN /\ Cardinality(ns) + Cardinality(cs) + Cardinality(gs) \in 1 .. MaxSelected
       /\ Push(Macro(Macro(conns, nodes), groups))

MoveNodes ==
  \E ns \in SUBSET DOMAIN doc.nodes :
    /\ Cardinality(ns) \in 1 .. MaxSelected
    /\ Push(MoveNodesCommand(doc, [n \in ns |-> 1 - doc.nodes[n].position]))

SetParameter ==
  \E n \in DOMAIN doc.nodes, l \in Literals :
    LET sanitized == SanitizeValue(Def(doc, n).parameters[l.parameter], l.value)
    IN /\ l.parameter \in DOMAIN Def(doc, n).parameters
       /\ sanitized # Refused
       /\ ~(l.parameter \in DOMAIN doc.nodes[n].literals
              /\ doc.nodes[n].literals[l.parameter] = sanitized)
       /\ Push(SetParameterCommand(doc, n, l.parameter, sanitized))

\* set_connection_preview_visible flips what the view model shows.
SetPreviewVisible ==
  \E c \in DOMAIN doc.conns :
    Push(SetConnectionPreviewCommand(doc, c,
           IF doc.conns[c].preview = "hidden" THEN "shown" ELSE "hidden"))

RandomizeParameters ==
  \E ns \in SUBSET DOMAIN doc.nodes :
    /\ Room /\ Cardinality(ns) \in 1 .. MaxSelected
    /\ \E nodes \in RandomizedParameters(doc, ns, {l.parameter :> l.value : l \in Literals}) :
         LET changed == {n \in ns : nodes[n] # doc.nodes[n]}
         IN Push(RandomizeParametersCommand(doc, Restrict(nodes, changed)))

RandomizeNodes ==
  /\ Room
  /\ IsValid(GraphOf(doc))
  /\ \E ns \in SUBSET DOMAIN doc.nodes :
       /\ Cardinality(ns) \in 1 .. MaxSelected
       /\ \E r \in RandomizeGraphNodes(doc, ns, Types, FreshNode, FreshConn) :
            /\ Cardinality(DOMAIN r.doc.nodes) <= MaxNodes
            /\ Push(RandomizeNodesCommand(doc, ns, r))

RelinkMedia ==
  \E n \in DOMAIN doc.nodes, f \in Files :
    /\ doc.nodes[n].type = "load_video"
    /\ Push(RelinkMediaCommand(doc, n, f))

\* The sockets of a node that the canvas offers, and its outputs.
InSockets(d, n) ==
  LET def == Def(d, n)
      connected == {d.conns[c].in : c \in {k \in DOMAIN d.conns : d.conns[k].dst = n}}
  IN InputPorts(def, connected) \cup NextSocket(def, connected)
       \cup {<<p, 0>> : p \in Sockets(def)}

OutSockets(d, n) == {<<p, 0>> : p \in DOMAIN Def(d, n).outputs}

Compatible(d, c) == Accepts(GraphOf(d), c.src, c.out, c.dst, c.in)

\* add_connection; a refused one raises before anything changes.
AddConnection ==
  \E src \in DOMAIN doc.nodes, dst \in DOMAIN doc.nodes :
    /\ Room
    /\ \E out \in OutSockets(doc, src), in \in InSockets(doc, dst) :
         /\ Compatible(doc, ConnectionModel(src, out, dst, in))
         /\ Push(ConnectCommand(doc, FreshConn, ConnectionModel(src, out, dst, in)))

DisconnectOne ==
  \E c \in DOMAIN doc.conns : Push(RemoveConnectionCommand(doc, c))

\* Room for the nodes of a fragment.
Fits(fragment) == Cardinality(DOMAIN doc.nodes) + Cardinality(DOMAIN fragment.nodes) <= MaxNodes

Paste ==
  \E f \in Fragments :
    Fits(f) /\ Push(PasteCommand(RemapFragment(f, FreshNode, FreshConn)))

Duplicate ==
  \E ns \in SUBSET DOMAIN doc.nodes :
    /\ Cardinality(ns) \in 1 .. MaxSelected
    /\ Fits(CopyFragment(doc, ns))
    /\ Push(DuplicateCommand(RemapFragment(CopyFragment(doc, ns), FreshNode, FreshConn)))

\* The connection between an existing port and one of a new node.
Joining(n, port, isOutput, id, p) ==
  IF isOutput THEN ConnectionModel(n, port, id, p) ELSE ConnectionModel(id, p, n, port)

\* compatible_definitions: what may be inserted at a port, by type and port.
CompatibleDefinitions(n, port, isOutput, id) ==
  LET with(t) == [doc EXCEPT !.nodes = @ @@ (id :> NodeModel(t, <<>>, 0))]
      ports(t) == IF isOutput THEN InSockets(with(t), id) ELSE OutSockets(with(t), id)
  IN {<<t, p>> \in UNION {{<<u, q>> : q \in ports(u)} :
                          u \in {v \in Types : Registry[v].family.minimum <= 1}} :
        Compatible(with(t), Joining(n, port, isOutput, id, p))}

\* insert_and_connect: the node, then the connection; where that is refused
\* after all the exception leaves the macro with the node alone.
InsertAndConnect ==
  \E n \in DOMAIN doc.nodes, isOutput \in BOOLEAN, id \in {FreshNode} :
    /\ Room /\ Cardinality(DOMAIN doc.nodes) < MaxNodes
    /\ \E port \in IF isOutput THEN OutSockets(doc, n) ELSE InSockets(doc, n) :
         \E choice \in CompatibleDefinitions(n, port, isOutput, id) :
           LET add == AddNodeCommand(doc, id, NodeModel(choice[1], <<>>, 0))
               with == Run(doc, add.redo)
               conn == Joining(n, port, isOutput, id, choice[2])
           IN Push(Macro(add, IF Compatible(with, conn)
                                THEN ConnectCommand(with, FreshConn, conn)
                                ELSE Command(<<>>, <<>>, FALSE, NoMerge)))

-----------------------------------------------------------------------------
(* Documents.                                                               *)

\* open_document and new_document (an empty one): clear, setClean;
\* recover_document and replace_with_snapshot: clear, resetClean.
ReplaceDocument ==
  \E d \in Replacements, kept \in BOOLEAN :
    /\ doc' = d
    /\ Refresh(TRUE)
    /\ stack' = <<>> /\ index' = 0
    /\ clean' = IF kept THEN 0 ELSE -1
    /\ saved' = IF kept THEN Content(d) ELSE Nowhere

Save ==
  /\ clean' = index
  /\ saved' = Content(doc)
  /\ UNCHANGED <<doc, compiled, stack, index>>

Init ==
  /\ doc \in Documents
  /\ compiled = GraphOf(doc)
  /\ stack = <<>> /\ index = 0 /\ clean = 0
  /\ saved = Content(doc)

Next ==
  \/ AddNode \/ AddGroup \/ MoveGroups \/ UpdateGroup \/ DeleteSelection \/ MoveNodes
  \/ SetParameter \/ SetPreviewVisible \/ RandomizeParameters \/ RandomizeNodes
  \/ RelinkMedia \/ AddConnection \/ DisconnectOne \/ Paste \/ Duplicate
  \/ InsertAndConnect \/ Undo \/ Redo \/ ReplaceDocument \/ Save

Spec == Init /\ [][Next]_vars

-----------------------------------------------------------------------------
(* Properties.                                                              *)

\* A document that is not dirty is the one in its file: no undo, merge or
\* forgotten branch leaves another content at the clean index.
CleanMeansSaved == clean = index => saved = Content(doc)

\* The errors editing must not bring about; what is left (a required input not
\* connected, a generic type not settled yet) is work in progress.
Structural(g) == {i \in Issues[g] : i.code \notin
                    {"required_input_missing", "unresolved_generic_type", "invalid_parameter"}}
Faulty(g) == {i.node : i \in Structural(g)}

\* What lies behind the faulty nodes: in there a fault may hide another.
Shadow(g) ==
  LET behind(i, nodes) == nodes \cup {g.conns[c].dst : c \in {k \in DOMAIN g.conns :
                                                             g.conns[k].src \in nodes}}
  IN FoldSet(behind, Faulty(g), DOMAIN g.nodes)

\* The document before the last command, and what that brought.
Before == Run(doc, stack[index].undo)
Brought == CopyFragment(doc, DOMAIN doc.nodes \ DOMAIN Before.nodes) @@ EmptyDocument

\* No command makes a cycle, a clock mismatch, a doubly fed input or an edge
\* between incompatible types where the document was sound: connections are
\* accepted one by one, and nodes deleted, pasted, replaced or inserted in between.
\* A document that is sound stays sound; in one that was opened broken, a fault
\* comes to light only behind the faults it has, where it may have been hidden from
\* the comparison with the issues that were there, and a paste brings the faults
\* of what was copied.  And the compilation that the view, the engine and the
\* demand roots are made from is the one of the document, although moves and
\* groups do not recompile.
EditingStaysSound ==
  /\ compiled = GraphOf(doc)
  /\ index > 0 => \A n \in Faulty(compiled) :
                    n \in Shadow(GraphOf(Before)) \/ n \in Faulty(GraphOf(Brought))

\* The contents before and after the present one, by undoing and redoing.
Past == [i \in 1 .. index |->
           Content(Run(doc, FlattenSeq([k \in 1 .. index - i + 1 |-> stack[index - k + 1].undo])))]
Future == [i \in 1 .. Len(stack) - index |->
             Content(Run(doc, FlattenSeq([k \in 1 .. i |-> stack[index + k].redo])))]

Abstract == INSTANCE History WITH content <- Content(doc), past <- Past, future <- Future

\* The session with its commands implements History: undo and redo give back
\* the whole content, through merged moves and parameters, macros, replaced
\* visualizers and randomized nodes.
UndoIsExact == Abstract!Spec
=============================================================================

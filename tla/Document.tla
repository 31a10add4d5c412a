------------------------------ MODULE Document ------------------------------
(***************************************************************************)
(* GraphDocument (graph/model.py) and the operations the commands perform  *)
(* on it.  A node adds to what the compiler reads a position and the media *)
(* file its ui_state identifies (0 for none); a connection adds the        *)
(* preview flag of its ui_state.  The revision only counts the operations  *)
(* that changed something and is left out.  "raised" records that an       *)
(* operation raised: its document did not allow it.                        *)
(***************************************************************************)
EXTENDS Compiler

\* The compiler the session was given: graph -> the issues it reports
\* (Validate of module Compiler).
CONSTANT Issues

IsValid(g) == Issues[g] = {}

(* connection_compatibility: the edge brings no error the graph without the *)
(* occupant of its input did not have.                                      *)

QueryId == -1

Occupants(g, dst, in) == {c \in DOMAIN g.conns : g.conns[c].dst = dst /\ g.conns[c].in = in}

\* Mutant of Accepts: a fault of a kind that is there already goes unseen.
AcceptsKnownKinds(g, src, out, dst, in) ==
  LET retained == Restrict(g.conns, DOMAIN g.conns \ Occupants(g, dst, in))
      base == [g EXCEPT !.conns = retained]
      with == [g EXCEPT !.conns = retained @@ (QueryId :> Connection(src, out, dst, in))]
  IN \A i \in Issues[with] : \E k \in Issues[base] : k.code = i.code

Accepts(g, src, out, dst, in) ==
  LET retained == Restrict(g.conns, DOMAIN g.conns \ Occupants(g, dst, in))
      base == [g EXCEPT !.conns = retained]
      with == [g EXCEPT !.conns = retained @@ (QueryId :> Connection(src, out, dst, in))]
  IN Issues[with] \subseteq Issues[base]

-----------------------------------------------------------------------------
(* The document.                                                            *)

NodeModel(type, literals, position) ==
  [type |-> type, version |-> Registry[type].version, literals |-> literals,
   position |-> position, media |-> 0]

\* PREVIEW_VISIBLE_KEY of a connection's ui_state, absent at first.
ConnectionModel(src, out, dst, in) ==
  [src |-> src, out |-> out, dst |-> dst, in |-> in, preview |-> "unset"]

EmptyDocument == [nodes |-> <<>>, conns |-> <<>>, groups |-> <<>>, raised |-> FALSE]

Raise(doc) == [doc EXCEPT !.raised = TRUE]

Incident(doc, ids) ==
  Restrict(doc.conns, {c \in DOMAIN doc.conns : {doc.conns[c].src, doc.conns[c].dst} \cap ids # {}})

\* incoming_connection: the occupants of an input.
Incoming(doc, dst, in) == Occupants(doc, dst, in)

\* What to_payload and the compiler see of a document.
GraphOf(doc) ==
  [nodes |-> [n \in DOMAIN doc.nodes |->
                [type |-> doc.nodes[n].type, version |-> doc.nodes[n].version,
                 literals |-> doc.nodes[n].literals]],
   conns |-> [c \in DOMAIN doc.conns |->
                Connection(doc.conns[c].src, doc.conns[c].out, doc.conns[c].dst,
                           doc.conns[c].in)]]

-----------------------------------------------------------------------------

RestoreNode(doc, id, node, replace) ==
  IF id \in DOMAIN doc.nodes /\ ~replace THEN Raise(doc)
  ELSE [doc EXCEPT !.nodes = (id :> node) @@ @]

RemoveNode(doc, id) ==
  IF id \notin DOMAIN doc.nodes THEN Raise(doc)
  ELSE [doc EXCEPT !.nodes = Restrict(@, DOMAIN @ \ {id}),
                   !.conns = Restrict(@, DOMAIN @ \ DOMAIN Incident(doc, {id}))]

SetPosition(doc, id, position) ==
  IF id \notin DOMAIN doc.nodes THEN Raise(doc)
  ELSE [doc EXCEPT !.nodes[id].position = position]

RestoreConnection(doc, id, conn, replaceInput) ==
  LET known == id \in DOMAIN doc.conns
      sameInput == known /\ doc.conns[id].dst = conn.dst /\ doc.conns[id].in = conn.in
      freed == IF replaceInput THEN Incoming(doc, conn.dst, conn.in) ELSE {}
  IN IF \/ ~({conn.src, conn.dst} \subseteq DOMAIN doc.nodes)
        \/ known /\ doc.conns[id] # conn /\ ~(replaceInput /\ sameInput)
       THEN Raise(doc)
     ELSE IF known /\ doc.conns[id] = conn THEN doc
     ELSE [doc EXCEPT !.conns = (id :> conn) @@ Restrict(@, DOMAIN @ \ freed)]

RemoveConnection(doc, id) ==
  IF id \notin DOMAIN doc.conns THEN Raise(doc)
  ELSE [doc EXCEPT !.conns = Restrict(@, DOMAIN @ \ {id})]

\* set_connection_ui_state and remove_connection_ui_state_key.
SetConnectionPreview(doc, id, raw) ==
  IF id \notin DOMAIN doc.conns THEN Raise(doc)
  ELSE [doc EXCEPT !.conns[id].preview = raw]

RestoreGroup(doc, id, group, replace) ==
  IF id \in DOMAIN doc.groups /\ ~replace THEN Raise(doc)
  ELSE [doc EXCEPT !.groups = (id :> group) @@ @]

RemoveGroup(doc, id) ==
  IF id \notin DOMAIN doc.groups THEN Raise(doc)
  ELSE [doc EXCEPT !.groups = Restrict(@, DOMAIN @ \ {id})]

-----------------------------------------------------------------------------
(* An operation is [op, id, model, force]; "force" is replace_existing,     *)
(* replace_existing_input, or that a removal first looks.                   *)

Operations(op, models, force) ==
  LET ids == SetToSortSeq(DOMAIN models, LAMBDA a, b : a < b)
  IN [i \in DOMAIN ids |->
        [op |-> op, id |-> ids[i], model |-> models[ids[i]], force |-> force]]

Perform(doc, o) ==
  CASE o.op = "restore_node" -> RestoreNode(doc, o.id, o.model, o.force)
    [] o.op = "remove_node" ->
         IF o.force /\ o.id \notin DOMAIN doc.nodes THEN doc ELSE RemoveNode(doc, o.id)
    [] o.op = "set_position" -> SetPosition(doc, o.id, o.model.position)
    [] o.op = "restore_connection" -> RestoreConnection(doc, o.id, o.model, o.force)
    [] o.op = "remove_connection" ->
         IF o.force /\ o.id \notin DOMAIN doc.conns THEN doc ELSE RemoveConnection(doc, o.id)
    [] o.op = "set_preview" -> SetConnectionPreview(doc, o.id, o.model.preview)
    [] o.op = "restore_group" -> RestoreGroup(doc, o.id, o.model, o.force)
    [] o.op = "remove_group" ->
         IF o.force /\ o.id \notin DOMAIN doc.groups THEN doc ELSE RemoveGroup(doc, o.id)

-----------------------------------------------------------------------------
(* The clipboard (persistence/clipboard.py).                                *)

\* ClipboardFragment.__post_init__: connections stay inside the fragment.
FragmentIsSound(f) ==
  \A c \in DOMAIN f.conns : {f.conns[c].src, f.conns[c].dst} \subseteq DOMAIN f.nodes

\* copy_fragment.
CopyFragment(doc, selected) ==
  LET present == selected \cap DOMAIN doc.nodes
  IN [nodes |-> Restrict(doc.nodes, present),
      conns |-> Restrict(doc.conns, {c \in DOMAIN doc.conns :
                  {doc.conns[c].src, doc.conns[c].dst} \subseteq present})]

\* remap_fragment: new identifiers, from the given ones on, and another
\* place (positions are told apart only as equal or not).
RemapFragment(f, firstNode, firstConn) ==
  LET nth(s, x) == Cardinality({y \in s : y < x})
      node(n) == firstNode + nth(DOMAIN f.nodes, n)
      conn(c) == firstConn + nth(DOMAIN f.conns, c)
  IN [nodes |-> [m \in {node(n) : n \in DOMAIN f.nodes} |->
        LET n == CHOOSE x \in DOMAIN f.nodes : node(x) = m
        IN [f.nodes[n] EXCEPT !.position = 1 - @]],
      conns |-> [k \in {conn(c) : c \in DOMAIN f.conns} |->
        LET c == CHOOSE x \in DOMAIN f.conns : conn(x) = k
        IN [f.conns[c] EXCEPT !.src = node(@), !.dst = node(@)]]]

\* relinked_media_node: the new file, and its identity.
RelinkedMediaNode(node, file) ==
  [node EXCEPT !.literals = ("file_path" :> Value("STRING", file)) @@ @, !.media = file]
=============================================================================

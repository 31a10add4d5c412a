------------------------------ MODULE History ------------------------------
(***************************************************************************)
(* What undo and redo promise: a present content, the contents before it,  *)
(* the contents undone.  Undo and redo give back exactly what was there;   *)
(* a new edit forgets what was undone; an edit may be joined to the one    *)
(* before it; another document has no history.                             *)
(***************************************************************************)
EXTENDS Naturals, Sequences

VARIABLES content, past, future

Init == past = <<>> /\ future = <<>>

Edit ==
  /\ past' = Append(past, content)
  /\ future' = <<>>

\* The edit continues the last one: its intermediate result is forgotten.
Continue ==
  /\ past # <<>>
  /\ past' = past
  /\ future' = <<>>

Undo ==
  /\ past # <<>>
  /\ content' = past[Len(past)]
  /\ past' = SubSeq(past, 1, Len(past) - 1)
  /\ future' = <<content>> \o future

Redo ==
  /\ future # <<>>
  /\ content' = Head(future)
  /\ past' = Append(past, content)
  /\ future' = Tail(future)

Replace == past' = <<>> /\ future' = <<>>

Next == Replace \/ Edit \/ Continue \/ Undo \/ Redo

Spec == Init /\ [][Next]_<<content, past, future>>
=============================================================================

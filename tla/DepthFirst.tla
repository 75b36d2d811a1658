----------------------------- MODULE DepthFirst -----------------------------
(***************************************************************************)
(* "Walk will walk the dag in order (depth first)" (w3s/car.go:125): the   *)
(* order in which a walk meets the nodes.  What is to be met stands in one *)
(* list; a node that is met puts its links at the front, before its later  *)
(* siblings; a node that was met before is passed by.                      *)
(***************************************************************************)
EXTENDS Sequences, Naturals

CONSTANTS
  Root,         \* where the walk starts
  Links,        \* Links[c]: the sequence of links of c
  Calls         \* what a walk may be called with

VARIABLES
  call,         \* before, skipRoot and lenient, as in GraphWalk
  todo,         \* the nodes to be met, in order
  open,         \* the node that was met and whose links are not listed yet
  order,        \* the nodes visited so far, in order
  result        \* "none" until the walk is decided, then "nil" or "err"

vars == <<call, todo, open, order, result>>

Init ==
  /\ call \in Calls
  /\ todo = <<Root>>
  /\ open = {}
  /\ order = <<>>
  /\ result = "none"

Met(c) == c \in call.before \/ \E i \in 1..Len(order) : order[i] = c

Unvisited(c) == call.skipRoot /\ c = Root

(* The next node is met.                                                   *)
Meet ==
  /\ result = "none" /\ open = {} /\ todo # <<>>
  /\ \/ Unvisited(Head(todo)) /\ order' = order
     \/ /\ ~Unvisited(Head(todo)) /\ ~Met(Head(todo))
        /\ order' = Append(order, Head(todo))
  /\ open' = {Head(todo)}
  /\ todo' = Tail(todo)
  /\ UNCHANGED <<call, result>>

(* The next node has been met; with the last one the walk may end.         *)
PassBy ==
  /\ result = "none" /\ open = {} /\ todo # <<>>
  /\ ~Unvisited(Head(todo)) /\ Met(Head(todo))
  /\ todo' = Tail(todo)
  /\ \/ UNCHANGED result
     \/ todo' = <<>> /\ result' = "nil"
  /\ UNCHANGED <<call, open, order>>

(* The links of the open node go to the front of the list ...              *)
Follow(c) ==
  /\ result = "none" /\ c \in open
  /\ open' = {}
  /\ todo' = Links[c] \o todo
  /\ UNCHANGED <<call, order, result>>

(* ... or it leads nowhere, since it cannot be read ...                    *)
Forgo ==
  /\ result = "none" /\ open # {}
  /\ call.lenient
  /\ open' = {}
  /\ UNCHANGED <<call, todo, order, result>>

(* ... and it may end the walk.                                            *)
Abandon ==
  /\ result = "none" /\ open # {}
  /\ result' = "err"
  /\ open' = {} /\ todo' = <<>>
  /\ UNCHANGED <<call, order>>

Finish ==
  /\ result = "none" /\ open = {} /\ todo = <<>>
  /\ result' = "nil"
  /\ UNCHANGED <<call, todo, open, order>>

Next ==
  \/ Meet \/ PassBy \/ Forgo \/ Abandon \/ Finish
  \/ \E c \in open : Follow(c)
=============================================================================

----------------------------- MODULE GraphWalk -----------------------------
(***************************************************************************)
(* What a walk over a DAG promises (w3s/car.go:125-293), whichever way it  *)
(* is scheduled: a node is entered once, only when the root or a node that *)
(* has been expanded leads to it, and expanded once; the walk reports      *)
(* success only when nothing it reached is left and nothing has failed;    *)
(* and it does nothing any more after it has returned.                     *)
(***************************************************************************)
CONSTANTS
  Cids,         \* the nodes of the DAG
  Root,         \* where the walk starts
  Children,     \* Children[c]: the nodes that c links to
  Calls         \* what a walk may be called with

VARIABLES
  call,         \* before: the nodes the visit function has seen already;
                \* skipRoot: the root is expanded without being visited;
                \* lenient: the walk may go on after a failure
  entered,      \* nodes the walk has decided to expand
  expanded,     \* nodes whose links it has read
  skipped,      \* nodes it could not read and goes on without
  failed,       \* nodes it could not read and must report
  cancelled,    \* the caller has cancelled the walk
  result        \* "none" until the walk returns, then "nil" or "err"

vars == <<call, entered, expanded, skipped, failed, cancelled, result>>

Init ==
  /\ call \in Calls
  /\ entered = {}
  /\ expanded = {}
  /\ skipped = {}
  /\ failed = {}
  /\ cancelled = FALSE
  /\ result = "none"

Reached(c) == c = Root \/ \E p \in expanded : c \in Children[p]

Entering(c) == c \notin call.before \/ (call.skipRoot /\ c = Root)

Pending == entered \ (expanded \cup skipped \cup failed)

Enter(c) ==
  /\ result = "none"
  /\ c \notin entered /\ Reached(c) /\ Entering(c)
  /\ entered' = entered \cup {c}
  /\ UNCHANGED <<call, expanded, skipped, failed, cancelled, result>>

Expand(c) ==
  /\ result = "none"
  /\ c \in Pending
  /\ expanded' = expanded \cup {c}
  /\ UNCHANGED <<call, entered, skipped, failed, cancelled, result>>

Skip(c) ==
  /\ result = "none"
  /\ call.lenient
  /\ c \in Pending
  /\ skipped' = skipped \cup {c}
  /\ UNCHANGED <<call, entered, expanded, failed, cancelled, result>>

Fail(c) ==
  /\ result = "none"
  /\ c \in Pending
  /\ failed' = failed \cup {c}
  /\ UNCHANGED <<call, entered, expanded, skipped, cancelled, result>>

Cancel ==
  /\ cancelled' = TRUE
  /\ UNCHANGED <<call, entered, expanded, skipped, failed, result>>

(* Nothing is left to enter and nothing to expand.                         *)
Closed ==
  /\ \A c \in Cids : Reached(c) /\ Entering(c) => c \in entered
  /\ Pending = {} /\ failed = {}

Return ==
  /\ result = "none"
  /\ \/ Closed /\ result' = "nil"
     \/ (failed # {} \/ cancelled) /\ result' = "err"
  /\ UNCHANGED <<call, entered, expanded, skipped, failed, cancelled>>

Next ==
  \/ \E c \in Cids : Enter(c) \/ Expand(c) \/ Skip(c) \/ Fail(c)
  \/ Cancel
  \/ Return

Spec == Init /\ [][Next]_vars
=============================================================================

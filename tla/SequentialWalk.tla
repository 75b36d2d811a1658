--------------------------- MODULE SequentialWalk ---------------------------
(***************************************************************************)
(* sequentialWalkDepth (w3s/car.go:150-171): the recursion as a stack of   *)
(* calls, each with its node, its depth and the links it has not followed  *)
(* yet.                                                                    *)
(***************************************************************************)
EXTENDS WalkOptions

VARIABLES
  stack,        \* the active calls, the innermost last
  at,           \* where the innermost one is: "visit", "fetch", "links"
                \* or "error"; "returned" or "crashed" when there is none
  result,       \* "none" until the outermost call returns "nil" or "err"
  seen,         \* the set inside the visit function
  cancelled,    \* ctx is cancelled
  order,        \* history: the nodes visit returned true for
  entered, expanded, skipped, failed,  \* history, as in GraphWalk
  missing,      \* history: nodes whose getLinks returned NotFound
  reported      \* history: nodes the OnMissing callback was called with

histVars == <<order, entered, expanded, skipped, failed, missing, reported>>
callVars == <<options, cancelled>>
vars == <<stack, at, result, seen, callVars, histVars>>

Call(c, depth) == [cid |-> c, depth |-> depth, links |-> <<>>]

Top == stack[Len(stack)]

Pop == SubSeq(stack, 1, Len(stack) - 1)

Skips(call) == SkipRoot /\ call.depth = 0

Init ==
  /\ options \in Options /\ ~Parallel
  /\ stack = <<Call(Root, 0)>>
  /\ at = "visit"
  /\ result = "none"
  /\ seen = Before
  /\ cancelled = FALSE
  /\ order = <<>>
  /\ entered = {} /\ expanded = {} /\ skipped = {} /\ failed = {}
  /\ missing = {} /\ reported = {}
-----------------------------------------------------------------------------
(* The innermost call returns nil, and its caller goes on with its links;  *)
(* the outermost one ends the walk.                                        *)
ReturnNil ==
  /\ stack' = Pop
  /\ IF Len(stack) = 1 THEN at' = "returned" /\ result' = "nil"
                       ELSE at' = "links" /\ UNCHANGED result

SeenAfter == seen \cup {Top.cid}

Visit ==
  /\ at = "visit"
  /\ \/ /\ Skips(Top)
        /\ at' = "fetch"
        /\ entered' = entered \cup {Top.cid}
        /\ UNCHANGED <<stack, result, seen, order>>
     \/ /\ ~Skips(Top) /\ Top.cid \notin seen
        /\ seen' = SeenAfter
        /\ order' = Append(order, Top.cid)
        /\ at' = "fetch"
        /\ entered' = entered \cup {Top.cid}
        /\ UNCHANGED <<stack, result>>
     \/ /\ ~Skips(Top) /\ Top.cid \in seen
        /\ ReturnNil
        /\ UNCHANGED <<seen, order, entered>>
  /\ UNCHANGED <<callVars, expanded, skipped, failed, missing, reported>>

FetchLinks ==
  /\ at = "fetch"
  /\ stack' = [stack EXCEPT ![Len(stack)].links = Links[Top.cid]]
  /\ at' = "links"
  /\ expanded' = expanded \cup {Top.cid}
  /\ UNCHANGED <<result, seen, callVars, order, entered, skipped, failed,
                 missing, reported>>

(* The node the handler is called with.                                    *)
FailedNode == Top.cid

(* getLinks fails.  The handler's nil makes the node a leaf; its error is  *)
(* returned.                                                               *)
FetchFails ==
  /\ at = "fetch"
  /\ \E error \in Outcomes \ {"links"} :
       /\ missing' = IF error = "missing" THEN missing \cup {Top.cid}
                                          ELSE missing
       /\ reported' = reported \cup Reported(FailedNode, error)
       /\ \/ /\ MaySuppress(error)
             /\ at' = "links"
             /\ skipped' = skipped \cup {Top.cid}
             /\ UNCHANGED <<stack, result, failed>>
          \/ /\ MayReturn(error)
             /\ at' = "error"
             /\ failed' = failed \cup {Top.cid}
             /\ UNCHANGED <<stack, result, skipped>>
          \/ /\ CallsItself
             /\ at' = "crashed"
             /\ UNCHANGED <<stack, result, skipped, failed>>
  /\ UNCHANGED <<seen, callVars, order, entered, expanded>>

(* FAULT: the links are followed from the last to the first.               *)
PickLast(links) ==
  <<links[Len(links)], SubSeq(links, 1, Len(links) - 1)>>

(* The link to follow next and those that remain.                          *)
Pick(links) == <<Head(links), Tail(links)>>

FollowLink ==
  /\ at = "links" /\ Top.links # <<>>
  /\ stack' = [stack EXCEPT ![Len(stack)].links = Pick(Top.links)[2]]
                \o <<Call(Pick(Top.links)[1], Top.depth + 1)>>
  /\ at' = "visit"
  /\ UNCHANGED <<result, seen, callVars, histVars>>

NoLinkLeft ==
  /\ at = "links" /\ Top.links = <<>>
  /\ ReturnNil
  /\ UNCHANGED <<seen, callVars, histVars>>

(* An error is returned by every call on the stack.                        *)
ReturnError ==
  /\ at = "error"
  /\ stack' = Pop
  /\ IF Len(stack) = 1 THEN at' = "returned" /\ result' = "err"
                       ELSE UNCHANGED <<at, result>>
  /\ UNCHANGED <<seen, callVars, histVars>>

(* The caller cancels ctx, which only getLinks looks at.                   *)
Cancel ==
  /\ ~cancelled
  /\ cancelled' = TRUE
  /\ UNCHANGED <<options, stack, at, result, seen, histVars>>

Ended == at \in {"returned", "crashed"}

Step ==
  \/ Visit \/ FetchLinks \/ FetchFails
  \/ FollowLink \/ NoLinkLeft \/ ReturnError

Terminated == Ended /\ UNCHANGED vars

Next ==
  \/ Step
  \/ ~Ended /\ Cancel
  \/ Terminated

(* The calls of getLinks return.                                           *)
Fairness == WF_vars(Step)
=============================================================================

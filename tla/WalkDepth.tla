----------------------------- MODULE WalkDepth -----------------------------
(***************************************************************************)
(* WalkDepth (w3s/car.go:138-148): the options decide whether the walk is  *)
(* sequential or parallel, and its caller need not know which.  The two    *)
(* keep their results and histories in the same variables, so the          *)
(* properties of ParallelWalk that are not about its goroutines speak of   *)
(* both.                                                                   *)
(***************************************************************************)
EXTENDS ParallelWalk

VARIABLES stack, at, order  \* the sequential walk's, see SequentialWalk

Sequential == INSTANCE SequentialWalk

seqVars   == <<stack, at, order>>
parVars   == <<main, queue, inProgress, workerVars, lk>>
depthVars == <<vars, seqVars>>

(* The walk that is not called has its variables as if it had returned.    *)
DepthInit ==
  \/ /\ Init
     /\ stack = <<>> /\ at = "returned" /\ order = <<>>
  \/ /\ Sequential!Init
     /\ main = "returned" /\ queue = <<>> /\ inProgress = 0 /\ lk = Nil
     /\ pc = [w \in Workers |-> "ended"]
     /\ item = [w \in Workers |-> [cid |-> Root, depth |-> 0]]
     /\ links = [w \in Workers |-> <<>>]
     /\ fresh = [w \in Workers |-> FALSE]

DepthNext ==
  \/ Parallel /\ Next /\ UNCHANGED seqVars
  \/ ~Parallel /\ Sequential!Next /\ UNCHANGED parVars

(* Of the two walks' fairness conditions, that of the one that is not      *)
(* called asks for nothing.                                                *)
DepthSpec ==
  DepthInit /\ [][DepthNext]_depthVars /\ Fairness /\ Sequential!Fairness
-----------------------------------------------------------------------------
Returned == IF Parallel THEN Ended ELSE Sequential!Ended

(* The walk returns: no worker and no send is left waiting on a channel    *)
(* that nobody serves, and the recursion is bounded (w3s/car.go:138-293).  *)
WalkReturns == <>Returned
-----------------------------------------------------------------------------
(* What a stack of calls has still to follow, the innermost first.         *)
ToFollow(calls) ==
  LET after[n \in 0..Len(calls)] ==
        IF n = 0 THEN <<>> ELSE calls[n].links \o after[n - 1]
  IN after[Len(calls)]

GivesUp == at \in {"error", "crashed"}

Depth == INSTANCE DepthFirst WITH
  Calls  <- {AsCall(o) : o \in Options},
  call   <- AsCall(options),
  todo   <- IF GivesUp THEN <<>>
            ELSE (IF at = "visit" THEN <<Sequential!Top.cid>> ELSE <<>>)
                   \o ToFollow(stack),
  open   <- IF at = "fetch" THEN {Sequential!Top.cid} ELSE {},
  result <- IF GivesUp THEN "err" ELSE result

(* The sequential walk visits the nodes depth first, whatever fails on the *)
(* way (w3s/car.go:125-170): a node before its links, its links before its *)
(* later siblings, and none of them is left when it returns nil.           *)
WalksDepthFirst ==
  /\ ~Parallel => Depth!Init
  /\ [][~Parallel => Depth!Next]_(Depth!vars)
=============================================================================

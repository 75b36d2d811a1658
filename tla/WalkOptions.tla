---------------------------- MODULE WalkOptions ----------------------------
(***************************************************************************)
(* The parameters of Walk and WalkDepth (w3s/car.go:34-148) that the       *)
(* sequential and the parallel walk share: the DAG, the visit function,    *)
(* the options, and what an error handler makes of a failed getLinks.  A   *)
(* walk is called with any of a given set of options.                      *)
(*                                                                         *)
(* The visit function is the one WriteCar passes, seen.Visit: it returns   *)
(* true the first time it is called with a node.                           *)
(***************************************************************************)
EXTENDS Naturals, Sequences, FiniteSets

CONSTANTS
  Cids,         \* the nodes of the DAG
  Root,         \* where the walk starts
  Links,        \* Links[c]: the sequence of links of c
  Options       \* the options a walk may be called with

HandlerOptions == {"ignoreErrors", "ignoreMissing", "onMissing", "onError"}

ASSUME WalkAssumption ==
  /\ Root \in Cids
  /\ Links \in [Cids -> Seq(Cids)]
  /\ \A c \in Cids : \A i \in 1..Len(Links[c]) : Links[c][i] # Root
  /\ \A o \in Options :
       o \in [before : SUBSET Cids, skipRoot : BOOLEAN,
              handlers : Seq(HandlerOptions), concurrency : Nat]

VARIABLE options  \* the options of this walk

(* What seen holds when the walk starts, the option SkipRoot(), and the    *)
(* error handler options in the order they were given.                     *)
Before   == options.before
SkipRoot == options.skipRoot
Handlers == options.handlers

(* WalkDepth runs parallelWalkDepth for a Concurrency above one.           *)
Parallel == options.concurrency > 1

(* What getLinks returns: links, a NotFound error, or another error.  Once *)
(* the context is cancelled it may return the context's error.             *)
Outcomes == {"links", "missing", "other"}

(* addHandler wraps a handler that is already set in a closure that calls  *)
(* options.ErrorHandler, which by then is the closure itself.              *)
CallsItself == Len(Handlers) >= 2

(* The one handler there is may turn the error into nil ...                *)
MaySuppress(error) ==
  /\ Len(Handlers) = 1
  /\ \/ Handlers[1] \in {"ignoreErrors", "onError"}
     \/ Handlers[1] = "ignoreMissing" /\ error = "missing"

(* ... or return it, which IgnoreErrors never does.                        *)
MayReturn(error) ==
  \/ Len(Handlers) = 0
  \/ /\ Len(Handlers) = 1
     /\ \/ Handlers[1] \in {"onMissing", "onError"}
        \/ Handlers[1] = "ignoreMissing" /\ error # "missing"

(* The nodes the callback of OnMissing is called with, when the handler is *)
(* called with c and that error.                                           *)
Reported(c, error) ==
  IF Handlers = <<"onMissing">> /\ error = "missing" THEN {c} ELSE {}

(* The options as the walk a caller asks for.                              *)
AsCall(o) ==
  [before |-> o.before, skipRoot |-> o.skipRoot, lenient |-> o.handlers # <<>>]

Children == [c \in Cids |-> {Links[c][i] : i \in 1..Len(Links[c])}]
=============================================================================

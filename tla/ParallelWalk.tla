---------------------------- MODULE ParallelWalk ----------------------------
(***************************************************************************)
(* parallelWalkDepth (w3s/car.go:173-293): a main loop hands nodes to a    *)
(* fixed set of worker goroutines over the unbuffered channel feed, and    *)
(* they answer over out, done and errChan.  Main and a worker meet on an   *)
(* unbuffered channel, so a send and its receive are one step.             *)
(*                                                                         *)
(* queue is the variable next followed by todoQueue: the code keeps        *)
(* todoQueue empty whenever next is undefined.                             *)
(***************************************************************************)
EXTENDS WalkOptions

CONSTANTS
  Workers,      \* options.Concurrency goroutines
  Nil           \* no worker

ASSUME ParallelAssumption ==
  /\ IsFiniteSet(Workers)
  /\ Nil \notin Workers

VARIABLES
  main,         \* "loop", "drain" (the deferred calls), "returned", "crashed"
  result,       \* what main returns: "none" yet, "nil" or "err"
  queue,        \* next and todoQueue, as items
  inProgress,   \* items handed out and not known to be done
  pc,           \* where each worker is
  item,         \* the item it works on
  links,        \* the links it has fetched and not sent yet
  fresh,        \* what its call of visit will return
  lk,           \* the holder of visitlk
  seen,         \* the set inside the visit function
  cancelled,    \* ctx is cancelled
  entered, expanded, skipped, failed,  \* history, as in GraphWalk
  missing,      \* history: nodes whose getLinks returned NotFound
  reported      \* history: nodes the OnMissing callback was called with

mainVars   == <<main, result, queue, inProgress>>
workerVars == <<pc, item, links, fresh>>
visitVars  == <<lk, seen>>
histVars   == <<entered, expanded, skipped, failed, missing, reported>>
callVars   == <<options, cancelled>>
vars == <<mainVars, workerVars, visitVars, callVars, histVars>>

Item == [cid : Cids, depth : Nat]

Places ==
  {"idle", "lock", "visit", "fetch", "out", "fail", "done", "ended"}

Busy == {w \in Workers : pc[w] \notin {"idle", "ended"}}

Settled == expanded \cup skipped \cup failed

(* fetchersCtx: derived from ctx, and cancelled when main leaves its loop. *)
FetchersDone == cancelled \/ main # "loop"

Skips(it) == SkipRoot /\ it.depth = 0
-----------------------------------------------------------------------------
Init ==
  /\ options \in Options /\ Parallel
  /\ main = "loop"
  /\ result = "none"
  /\ queue = <<[cid |-> Root, depth |-> 0]>>
  /\ inProgress = 0
  /\ pc = [w \in Workers |-> "idle"]
  /\ item = [w \in Workers |-> [cid |-> Root, depth |-> 0]]
  /\ links = [w \in Workers |-> <<>>]
  /\ fresh = [w \in Workers |-> FALSE]
  /\ lk = Nil
  /\ seen = Before
  /\ cancelled = FALSE
  /\ entered = {}
  /\ expanded = {}
  /\ skipped = {}
  /\ failed = {}
  /\ missing = {}
  /\ reported = {}
-----------------------------------------------------------------------------
(* The main loop; w is the worker at the other end of the channel.         *)

(* case send <- next                                                       *)
Send(w) ==
  /\ main = "loop" /\ queue # <<>>
  /\ pc[w] = "idle"
  /\ item' = [item EXCEPT ![w] = Head(queue)]
  /\ queue' = Tail(queue)
  /\ inProgress' = inProgress + 1
  /\ pc' = [pc EXCEPT ![w] = IF Skips(Head(queue)) THEN "fetch" ELSE "lock"]
  /\ entered' = IF Skips(Head(queue)) THEN entered \cup {Head(queue).cid}
                                      ELSE entered
  /\ UNCHANGED <<main, result, links, fresh, visitVars, callVars,
                 expanded, skipped, failed, missing, reported>>

(* The queue followed by the links a worker has sent.                      *)
WithLinks(w) ==
  queue \o [i \in 1..Len(links[w]) |->
              [cid |-> links[w][i], depth |-> item[w].depth + 1]]

(* FAULT: an item counts as done when its links arrive and once more when  *)
(* the worker says so.                                                     *)
CountAfterLinksLess == inProgress - 1

CountAfterLinks == inProgress

(* case linksDepth := <-out                                                *)
ReceiveLinks(w) ==
  /\ main = "loop"
  /\ pc[w] = "out"
  /\ queue' = WithLinks(w)
  /\ inProgress' = CountAfterLinks
  /\ links' = [links EXCEPT ![w] = <<>>]
  /\ pc' = [pc EXCEPT ![w] = "done"]
  /\ UNCHANGED <<main, result, item, fresh, visitVars, callVars,
                 histVars>>

(* FAULT: the walk is over when the queue is empty, whoever still works.   *)
OverWhenQueueEmpty == queue = <<>>

(* The walk is over when the last item in progress is done.                *)
Over == inProgress = 1 /\ queue = <<>>

(* case <-done                                                             *)
ReceiveDone(w) ==
  /\ main = "loop"
  /\ pc[w] = "done"
  /\ pc' = [pc EXCEPT ![w] = "idle"]
  /\ inProgress' = inProgress - 1
  /\ IF Over THEN main' = "drain" /\ result' = "nil"
             ELSE UNCHANGED <<main, result>>
  /\ UNCHANGED <<queue, item, links, fresh, visitVars, callVars, histVars>>

(* case err := <-errChan; the worker returns.                              *)
ReceiveErr(w) ==
  /\ main = "loop"
  /\ pc[w] = "fail"
  /\ pc' = [pc EXCEPT ![w] = "ended"]
  /\ main' = "drain" /\ result' = "err"
  /\ UNCHANGED <<queue, inProgress, item, links, fresh, visitVars, callVars,
                 histVars>>

(* case <-ctx.Done()                                                       *)
SeeCancel ==
  /\ main = "loop" /\ cancelled
  /\ main' = "drain" /\ result' = "err"
  /\ UNCHANGED <<queue, inProgress, workerVars, visitVars, callVars, histVars>>

(* The deferred calls close feed, cancel fetchersCtx and wait for everyone.*)
MainReturn ==
  /\ main = "drain"
  /\ \A w \in Workers : pc[w] = "ended"
  /\ main' = "returned"
  /\ UNCHANGED <<result, queue, inProgress, workerVars, visitVars, callVars,
                 histVars>>
-----------------------------------------------------------------------------
(* The workers.                                                            *)

(* FAULT: visit is called without taking visitlk.                          *)
LockIsFreeAlways == lk = lk

LockIsFree == lk = Nil

(* visitlk.Lock(), and the first half of seen.Visit: is the node in seen?  *)
Lock(w) ==
  /\ pc[w] = "lock" /\ LockIsFree
  /\ lk' = w
  /\ fresh' = [fresh EXCEPT ![w] = item[w].cid \notin seen]
  /\ pc' = [pc EXCEPT ![w] = "visit"]
  /\ UNCHANGED <<mainVars, item, links, seen, callVars, histVars>>

(* The second half of seen.Visit, and visitlk.Unlock().                    *)
Visit(w) ==
  /\ pc[w] = "visit"
  /\ seen' = seen \cup {item[w].cid}
  /\ lk' = Nil
  /\ pc' = [pc EXCEPT ![w] = IF fresh[w] THEN "fetch" ELSE "done"]
  /\ entered' = IF fresh[w] THEN entered \cup {item[w].cid} ELSE entered
  /\ UNCHANGED <<mainVars, item, links, fresh, callVars, expanded, skipped,
                 failed, missing, reported>>

(* getLinks returns the links of the node.                                 *)
FetchLinks(w) ==
  /\ pc[w] = "fetch"
  /\ links' = [links EXCEPT ![w] = Links[item[w].cid]]
  /\ pc' = [pc EXCEPT ![w] = "out"]
  /\ expanded' = expanded \cup {item[w].cid}
  /\ UNCHANGED <<mainVars, item, fresh, visitVars, callVars, entered,
                 skipped, failed, missing, reported>>

(* getLinks fails, and the handler is called with the root of the walk in  *)
(* the place of the node.                                                  *)
FetchFails(w) ==
  /\ pc[w] = "fetch"
  /\ \E error \in Outcomes \ {"links"} :
       /\ missing' = IF error = "missing" THEN missing \cup {item[w].cid}
                                          ELSE missing
       /\ reported' = reported \cup Reported(Root, error)
       /\ \/ /\ MaySuppress(error)
             /\ pc' = [pc EXCEPT ![w] = "out"]
             /\ skipped' = skipped \cup {item[w].cid}
             /\ UNCHANGED <<main, failed>>
          \/ /\ MayReturn(error)
             /\ pc' = [pc EXCEPT ![w] = "fail"]
             /\ failed' = failed \cup {item[w].cid}
             /\ UNCHANGED <<main, skipped>>
          \/ /\ CallsItself
             /\ main' = "crashed"
             /\ UNCHANGED <<pc, skipped, failed>>
  /\ UNCHANGED <<result, queue, inProgress, item, links, fresh, visitVars,
                 callVars, entered, expanded>>

(* FAULT: a worker that cannot say that it is done tries again.            *)
GiveUpUnlessDone(w) ==
  /\ FetchersDone
  /\ \/ /\ pc[w] \in {"out", "fail"}
        /\ pc' = [pc EXCEPT ![w] = "ended"]
     \/ /\ pc[w] = "done"
        /\ pc' = [pc EXCEPT ![w] = "done"]
  /\ UNCHANGED <<mainVars, item, links, fresh, visitVars, callVars, histVars>>

(* case <-fetchersCtx.Done(): the worker returns, or, when it had only to  *)
(* say that it is done, takes the next item.                               *)
GiveUp(w) ==
  /\ FetchersDone
  /\ \/ /\ pc[w] \in {"out", "fail"}
        /\ pc' = [pc EXCEPT ![w] = "ended"]
     \/ /\ pc[w] = "done"
        /\ pc' = [pc EXCEPT ![w] = "idle"]
  /\ UNCHANGED <<mainVars, item, links, fresh, visitVars, callVars, histVars>>

(* feed is closed: the range loop of the worker ends.                      *)
End(w) ==
  /\ main # "loop"
  /\ pc[w] = "idle"
  /\ pc' = [pc EXCEPT ![w] = "ended"]
  /\ UNCHANGED <<mainVars, item, links, fresh, visitVars, callVars, histVars>>

(* The caller cancels ctx.                                                 *)
Cancel ==
  /\ ~cancelled
  /\ cancelled' = TRUE
  /\ UNCHANGED <<options, mainVars, workerVars, visitVars, histVars>>
-----------------------------------------------------------------------------
Ended == main \in {"returned", "crashed"}

Receive(w) == Send(w) \/ ReceiveLinks(w) \/ ReceiveDone(w) \/ ReceiveErr(w)

Work(w) ==
  \/ Lock(w) \/ Visit(w) \/ FetchLinks(w) \/ FetchFails(w)
  \/ GiveUp(w) \/ End(w)

Main == SeeCancel \/ MainReturn \/ \E w \in Workers : Receive(w)

Running ==
  /\ ~Ended
  /\ \/ Main
     \/ \E w \in Workers : Work(w)
     \/ Cancel

Terminated == Ended /\ UNCHANGED vars

Next == Running \/ Terminated

Spec == Init /\ [][Next]_vars

(* Main and the workers are scheduled, and the calls of getLinks return.   *)
Fairness ==
  /\ WF_vars(~Ended /\ Main)
  /\ \A w \in Workers : WF_vars(~Ended /\ Work(w))
-----------------------------------------------------------------------------
(* Every variable has its type.                                            *)
TypeOK ==
  /\ main \in {"loop", "drain", "returned", "crashed"}
  /\ result \in {"none", "nil", "err"}
  /\ queue \in Seq(Item)
  /\ inProgress \in Nat
  /\ pc \in [Workers -> Places]
  /\ item \in [Workers -> Item]
  /\ links \in [Workers -> Seq(Cids)]
  /\ fresh \in [Workers -> BOOLEAN]
  /\ lk \in Workers \cup {Nil}
  /\ seen \subseteq Cids
  /\ cancelled \in BOOLEAN
  /\ entered \subseteq Cids /\ expanded \subseteq Cids
  /\ skipped \subseteq Cids /\ failed \subseteq Cids
  /\ missing \subseteq Cids /\ reported \subseteq Cids

(* "It does not make multiple concurrent calls to the passed visit         *)
(* function", and so no two workers fetch a node, nor does one fetch what  *)
(* has been fetched (w3s/car.go:64, 208-212).                              *)
FetchedOnce ==
  /\ \A v, w \in Workers : pc[v] = "visit" /\ pc[w] = "visit" => v = w
  /\ \A w \in Workers : pc[w] = "fetch" =>
       /\ item[w].cid \notin Settled
       /\ \A v \in Workers \ {w} :
            pc[v] = "fetch" => item[v].cid # item[w].cid

(* The count that decides when the walk is over never falls short of the   *)
(* workers that are busy, and without a cancellation it is exact           *)
(* (w3s/car.go:259-271).                                                   *)
CountIsRight ==
  main = "loop" =>
    /\ inProgress >= Cardinality(Busy)
    /\ ~cancelled => inProgress = Cardinality(Busy)

(* The state invariant of the walk: the types, and the count on which its  *)
(* end depends (w3s/car.go:174-271).                                       *)
WalkInv == TypeOK /\ CountIsRight

(* The callback of OnMissing "will be triggered on a missing node": the    *)
(* nodes it is called with are missing (w3s/car.go:104-105).               *)
ReportsMissing == reported \subseteq missing

(* "The walk should continue when a node is missing" under IgnoreMissing,  *)
(* whatever other option is given (w3s/car.go:91-92).                      *)
MissingTolerated ==
  (\E i \in 1..Len(Handlers) : Handlers[i] = "ignoreMissing")
    => (main = "crashed" => failed # {} \/ missing = {})

Walk == INSTANCE GraphWalk WITH
  Calls <- {AsCall(o) : o \in Options},
  call <- AsCall(options),
  result <- IF main = "returned" THEN result ELSE "none"

(* Whatever the schedule, and whichever Concurrency WalkDepth is given,    *)
(* the call is a graph walk, and nothing happens after it has returned     *)
(* (w3s/car.go:138-293).                                                   *)
ImplementsWalk == Walk!Spec
=============================================================================

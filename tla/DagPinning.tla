----------------------------- MODULE DagPinning -----------------------------
(***************************************************************************)
(* What IPFSCore.Put promises its callers (ipfs/ipfs.go:126-156): a node   *)
(* becomes durable together with everything it links to, at one moment     *)
(* after the call, and for good.  Success says that it has; an error does  *)
(* not say that it has not, and not that it will not.                      *)
(***************************************************************************)
CONSTANTS
  Nodes,
  Puts,         \* the calls
  Dag,          \* by node: a node and all that it leads to
  Nil

VARIABLES
  durable,      \* the nodes that are stored for good
  status,       \* "idle", "running", "ok" or "failed", by call
  item          \* the node a call is about

vars == <<durable, status, item>>

Init ==
  /\ durable = {}
  /\ status = [p \in Puts |-> "idle"]
  /\ item = [p \in Puts |-> Nil]

Call(p) ==
  /\ status[p] = "idle"
  /\ \E n \in Nodes : item' = [item EXCEPT ![p] = n]
  /\ \E place \in {"running", "failed"} : status' = [status EXCEPT ![p] = place]
  /\ UNCHANGED durable

TakeEffect(p) ==
  /\ status[p] \in {"running", "failed"}
  /\ durable' = durable \cup Dag[item[p]]
  /\ UNCHANGED <<status, item>>

ReturnOk(p) ==
  /\ status[p] = "running"
  /\ Dag[item[p]] \subseteq durable
  /\ status' = [status EXCEPT ![p] = "ok"]
  /\ UNCHANGED <<durable, item>>

(* Also the calls that a process takes down with it.                       *)
Fail(Failing) ==
  /\ status' = [p \in Puts |-> IF p \in Failing /\ status[p] # "ok"
                               THEN "failed" ELSE status[p]]
  /\ UNCHANGED <<durable, item>>

Next ==
  \/ \E p \in Puts : Call(p) \/ TakeEffect(p) \/ ReturnOk(p)
  \/ \E Failing \in SUBSET Puts : Fail(Failing)

Spec == Init /\ [][Next]_vars
=============================================================================

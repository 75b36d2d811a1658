------------------------------ MODULE DagNames ------------------------------
(***************************************************************************)
(* DAGs under names: the two uses of Web3.Storage together.  A program     *)
(* puts a node with IPFSCore.Put and, once that has succeeded, publishes   *)
(* its CID; another looks the name up and gets the node it finds.  That    *)
(* order is the program's, which is not in the repository; everything else *)
(* is DagStore and IpnsPublish.  The token and the process are shared.     *)
(***************************************************************************)
EXTENDS DagStore

CONSTANT MaxTime

ASSUME ClockAssumption == MaxTime \in Nat

VARIABLES record, step, made, found, changed, known
              \* see IpnsPublish; step is its pc

Names == INSTANCE IpnsPublish WITH
  Cids <- Nodes, Publishers <- Puts, Lookups <- Gets, pc <- step

nameVars == <<record, step, made, found, changed, known>>
allVars  == <<vars, nameVars>>

NamesInit == Init /\ Names!Init

(* Steps that change the DAG store, or the names, and not the other.       *)
StoreNext ==
  \/ \E p \in Puts :
       PutStep(p) \/ TakeCar(p) \/ Cancel(p) \/ \E n \in Nodes : Put(p, n)
  \/ \E g \in Gets : GetStep(g)

(* The reader gets what it has found, or what another IPFS node offers.    *)
GetNode(g) ==
  \/ step[g] = "found" /\ Get(g, found[g].cid)
  \/ step[g] = "idle" /\ \E n \in Foreign : Get(g, n)

PublishStored(p) == pc[p] = "ok" /\ Names!Publish(p, node[p])

NameStep ==
  \/ \E p \in Puts : PublishStored(p) \/ Names!PutName(p)
  \/ \E g \in Gets : pc[g] = "idle" /\ (Names!Lookup(g) \/ Names!GetName(g))

RestartBoth == Restart /\ Names!Restart

NamesNext ==
  \/ (StoreNext \/ \E g \in Gets : GetNode(g)) /\ UNCHANGED nameVars
  \/ NameStep /\ UNCHANGED vars
  \/ RestartBoth

NamesSpec == NamesInit /\ [][NamesNext]_allVars /\ Fairness
-----------------------------------------------------------------------------
(* A name that resolves to what was published leads to a DAG that          *)
(* Web3.Storage has in full, also when the publication has failed, when    *)
(* the record came with an error, or when the node has been restarted      *)
(* since (ipfs/ipfs.go:140-155, 478-544).  A value that was damaged on its *)
(* way is taken for a name's too, and leads anywhere.                      *)
ResolvedIsStored ==
  \A g \in Gets :
    step[g] = "found" /\ g \notin changed => Dag[found[g].cid] \subseteq remote

(* What IpnsPublish says of the names holds for a program that publishes   *)
(* what it has stored, too (ipfs/ipfs.go:478-544).                         *)
NamesInv == Names!PublishInv
LookupIsCurrent == Names!LookupIsCurrent
=============================================================================

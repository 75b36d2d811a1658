------------------------------ MODULE DagStore ------------------------------
(***************************************************************************)
(* IPLD nodes of one Flubber node (IPFSCore.Put, Get and OpenRead, and     *)
(* PinIPLDBlockToW3S, ipfs/ipfs.go:110-203, 455-476).  Put adds a node to  *)
(* the IPFS repository with a recursive pin, which fetches nothing; then   *)
(* WriteCar walks the DAG below it through the node's DAG service, and     *)
(* PutCar uploads what it has written to Web3.Storage.  A read through the *)
(* DAG service takes the block from the repository or from the network,    *)
(* and waits while neither has it.                                         *)
(*                                                                         *)
(* The repository is in memory.  Web3.Storage keeps what it has taken and  *)
(* serves it to the IPFS network; it takes a CAR whole or not at all, only *)
(* under a valid token, and perhaps when the Put that has sent it does not *)
(* wait for the answer any more.                                           *)
(***************************************************************************)
EXTENDS Naturals, FiniteSets

CONSTANTS
  Nodes,        \* IPLD nodes and their CIDs
  Links,        \* Links[n]: the nodes that n links to
  Foreign,      \* those that other IPFS nodes may offer
  Puts, Gets,   \* the calls
  MaxStops,     \* bound: the times the process stops
  Nil

ASSUME DagAssumption ==
  /\ Links \in [Nodes -> SUBSET Nodes]
  /\ Foreign \subseteq Nodes
  /\ Puts \cap Gets = {} /\ Nil \notin Nodes
  /\ MaxStops \in Nat

VARIABLES
  token,        \* the API token: "none" until SetAuthToken, "" or "key"
  elsewhere,    \* the blocks other IPFS nodes offer
  garbled,      \* the nodes whose data does not decode
  blocks,       \* the blocks in the repository
  pinned,       \* the recursive pins of the repository
  remote,       \* what Web3.Storage keeps
  pc, node,     \* where a call is, and its argument
  car,          \* the nodes a Put has written to its CAR
  sent,         \* the CAR of a Put that Web3.Storage may yet take, or {}
  cancelled,    \* the Puts whose context is done
  stops

storeVars == <<token, elsewhere, garbled, pinned, remote>>
vars == <<storeVars, blocks, pc, node, car, sent, cancelled, stops>>

Calls == Puts \cup Gets

Waiting == {"add", "write", "upload", "read"}

Closed(S) == \A n \in S : Links[n] \subseteq S

(* A node and all that it leads to.                                        *)
Dag == [n \in Nodes |->
  {m \in Nodes : \A S \in SUBSET Nodes : n \in S /\ Closed(S) => m \in S}]

Available == blocks \cup elsewhere \cup remote

(* Run has called SetAuthToken with the W3SSecretKey of the configuration, *)
(* which may be empty; a program that calls StartIPFSNode itself may not.  *)
Init ==
  /\ token \in {"none", "", "key"}
  /\ elsewhere \in SUBSET Foreign /\ garbled \in SUBSET Foreign
  /\ blocks = {} /\ pinned = {} /\ remote = {}
  /\ pc = [r \in Calls |-> "idle"]
  /\ node = [r \in Calls |-> Nil]
  /\ car = [p \in Puts |-> {}]
  /\ sent = [p \in Puts |-> {}]
  /\ cancelled = {}
  /\ stops = 0

Goto(r, place) == pc' = [pc EXCEPT ![r] = place]

(* What the buffer of a Put holds is gone when it returns.                 *)
Drop(p) == car' = [car EXCEPT ![p] = {}]
-----------------------------------------------------------------------------
(* FAULT: the error of DecodeNode is ignored.                              *)
DecodesAnyway(n) == n = n

Decodes(n) == n \notin garbled

(* Put up to DecodeNode; the key may be no CID.                            *)
Put(p, n) ==
  /\ pc[p] = "idle"
  /\ node' = [node EXCEPT ![p] = n]
  /\ Goto(p, "error") \/ (Decodes(n) /\ Goto(p, "add"))
  /\ UNCHANGED <<storeVars, blocks, car, sent, cancelled, stops>>

(* Dag().Pinning().Add, which may fail with the block stored already, and  *)
(* NewClient, which asks for a token.                                      *)
AddAndPin(p) ==
  /\ pc[p] = "add"
  /\ \/ /\ blocks' = blocks \cup {node[p]}
        /\ pinned' = pinned \cup {node[p]}
        /\ Goto(p, IF token = "" THEN "error" ELSE "write")
     \/ /\ blocks' \in {blocks, blocks \cup {node[p]}}
        /\ UNCHANGED pinned
        /\ Goto(p, "error")
  /\ UNCHANGED <<token, elsewhere, garbled, remote, node, car, sent, cancelled,
                 stops>>

(* FAULT: only the block that was put is written.                          *)
WantedBlockOnly(p) == {node[p]} \ car[p]

(* What the walk of WriteCar has still to read.                            *)
Wanted(p) == ({node[p]} \cup UNION {Links[n] : n \in car[p]}) \ car[p]

(* The walk reads a node, which the repository then has, and writes it.    *)
WriteNode(p) ==
  /\ pc[p] = "write"
  /\ \E n \in (Wanted(p) \cap Available) \ garbled :
       /\ car' = [car EXCEPT ![p] = @ \cup {n}]
       /\ blocks' = blocks \cup {n}
  /\ UNCHANGED <<storeVars, pc, node, sent, cancelled, stops>>

(* FAULT: the walk does not look at the context of the call.               *)
WriteFailsUncancelled(p) ==
  /\ pc[p] = "write" /\ Wanted(p) # {} /\ p \notin cancelled
  /\ Goto(p, "error")
  /\ Drop(p)
  /\ UNCHANGED <<storeVars, blocks, node, sent, cancelled, stops>>

(* The read of a node fails: it does not decode, or the context is done.   *)
WriteFails(p) ==
  /\ pc[p] = "write" /\ Wanted(p) # {}
  /\ Goto(p, "error")
  /\ Drop(p)
  /\ UNCHANGED <<storeVars, blocks, node, sent, cancelled, stops>>

(* PutCar posts the CAR.                                                   *)
SendCar(p) ==
  /\ pc[p] = "write" /\ Wanted(p) = {}
  /\ Goto(p, "upload")
  /\ sent' = [sent EXCEPT ![p] = car[p]]
  /\ Drop(p)
  /\ UNCHANGED <<storeVars, blocks, node, cancelled, stops>>

(* Web3.Storage takes a CAR, while the Put waits for the answer or later:  *)
(* the context of the request ends the wait, and does not take back what   *)
(* is on its way.                                                          *)
TakeCar(p) ==
  /\ sent[p] # {} /\ token = "key"
  /\ remote' = remote \cup sent[p]
  /\ sent' = [sent EXCEPT ![p] = {}]
  /\ UNCHANGED <<token, elsewhere, garbled, pinned, blocks, pc, node, car,
                 cancelled, stops>>

(* FAULT: the status of the answer is not looked at.                       *)
UploadOkUnchecked(p) ==
  /\ pc[p] = "upload"
  /\ Goto(p, "ok")
  /\ UNCHANGED <<storeVars, blocks, node, car, sent, cancelled, stops>>

(* The answer is 200, and the CID in it parses.                            *)
UploadOk(p) ==
  /\ pc[p] = "upload" /\ sent[p] = {}
  /\ Goto(p, "ok")
  /\ UNCHANGED <<storeVars, blocks, node, car, sent, cancelled, stops>>

(* Without an answer, or with one that is not 200 or does not parse, Put   *)
(* returns an error, although the service may have taken the CAR, or may   *)
(* take it yet.                                                            *)
UploadFails(p) ==
  /\ pc[p] = "upload"
  /\ Goto(p, "error")
  /\ UNCHANGED <<storeVars, blocks, node, car, sent, cancelled, stops>>
-----------------------------------------------------------------------------
(* Get and OpenRead: a block that cannot be decoded leaves them with a nil *)
(* node, whose RawData they call.                                          *)
Get(g, n) ==
  /\ pc[g] = "idle"
  /\ node' = [node EXCEPT ![g] = n]
  /\ Goto(g, "error") \/ Goto(g, "read")
  /\ UNCHANGED <<storeVars, blocks, car, sent, cancelled, stops>>

ReadBlock(g) ==
  /\ pc[g] = "read"
  /\ node[g] \in Available
  /\ blocks' = blocks \cup {node[g]}
  /\ Goto(g, IF node[g] \in garbled THEN "panic" ELSE "ok")
  /\ UNCHANGED <<storeVars, node, car, sent, cancelled, stops>>

ReadFails(g) ==
  /\ pc[g] = "read"
  /\ Goto(g, "error")
  /\ UNCHANGED <<storeVars, blocks, node, car, sent, cancelled, stops>>
-----------------------------------------------------------------------------
(* The caller's context is cancelled, or its deadline passes.              *)
Cancel(p) ==
  /\ pc[p] \in Waiting /\ p \notin cancelled
  /\ cancelled' = cancelled \cup {p}
  /\ UNCHANGED <<storeVars, blocks, pc, node, car, sent, stops>>

(* The process ends and is started again; a CAR that is on its way stays.  *)
Restart ==
  /\ stops < MaxStops
  /\ stops' = stops + 1
  /\ pc' = [r \in Calls |-> IF pc[r] \in Waiting THEN "gone" ELSE pc[r]]
  /\ blocks' = {} /\ pinned' = {}
  /\ car' = [p \in Puts |-> {}]
  /\ UNCHANGED <<token, elsewhere, garbled, remote, node, sent, cancelled>>
-----------------------------------------------------------------------------
PutStep(p) ==
  \/ AddAndPin(p) \/ WriteNode(p) \/ WriteFails(p)
  \/ SendCar(p) \/ UploadOk(p) \/ UploadFails(p)
GetStep(g) == ReadBlock(g) \/ ReadFails(g)

Next ==
  \/ \E p \in Puts :
       PutStep(p) \/ TakeCar(p) \/ Cancel(p) \/ \E n \in Nodes : Put(p, n)
  \/ \E g \in Gets : GetStep(g) \/ \E n \in Nodes : Get(g, n)
  \/ Restart

Spec == Init /\ [][Next]_vars

(* A read returns an error when its context is done, or when the block it  *)
(* has found does not decode.                                              *)
MustFail(p) == p \in cancelled \/ Wanted(p) \cap Available \cap garbled # {}

(* Goroutines run, and Web3.Storage answers or the connection breaks.      *)
Fairness ==
  \A p \in Puts :
    /\ WF_vars(AddAndPin(p) \/ WriteNode(p) \/ SendCar(p))
    /\ WF_vars(UploadOk(p) \/ UploadFails(p))
    /\ WF_vars(MustFail(p) /\ WriteFails(p))

FairSpec == Spec /\ Fairness
-----------------------------------------------------------------------------
(* Every variable has its type.                                            *)
TypeOK ==
  /\ token \in {"none", "", "key"}
  /\ elsewhere \subseteq Nodes /\ blocks \subseteq Nodes
  /\ garbled \subseteq Nodes
  /\ pinned \subseteq Nodes /\ remote \subseteq Nodes
  /\ pc \in [Calls -> Waiting \cup {"idle", "ok", "error", "panic", "gone"}]
  /\ node \in [Calls -> Nodes \cup {Nil}]
  /\ car \in [Puts -> SUBSET Nodes] /\ sent \in [Puts -> SUBSET Nodes]
  /\ cancelled \subseteq Puts
  /\ stops \in 0..MaxStops

(* Web3.Storage never keeps a node without what it links to, whichever     *)
(* Puts fail, however they interleave and however late what they have sent *)
(* is taken (ipfs/ipfs.go:462-468).                                        *)
RemoteIsClosed == Closed(remote)

(* The state invariant of the store: the types, and what Web3.Storage has  *)
(* (ipfs/ipfs.go:126-156, 455-476).                                        *)
StoreInv == TypeOK /\ RemoteIsClosed

(* The panic of a read never concerns a node that a Put has pinned or      *)
(* uploaded (ipfs/ipfs.go:134-138, 119-123).                               *)
PanicIsForeign ==
  \A g \in Gets : pc[g] = "panic" => node[g] \notin pinned \cup remote

(* The refinement mapping.                                                 *)
StatusAt(place) ==
  CASE place \in Waiting -> "running"
    [] place \in {"error", "gone"} -> "failed"
    [] OTHER -> place

Status == [p \in Puts |-> StatusAt(pc[p])]
Item   == [p \in Puts |-> node[p]]

Pinning == INSTANCE DagPinning WITH
  durable <- remote, status <- Status, item <- Item

(* Put keeps its promise, whatever becomes of requests whose answer nobody *)
(* waits for (ipfs/ipfs.go:126-156, w3s/put.go:21-37).                     *)
ImplementsPinning == Pinning!Spec

(* A Put ends once what its node leads to is at hand, which another Put or *)
(* another node may bring about, or once its context is done               *)
(* (ipfs/ipfs.go:149, 463).                                                *)
PutsEnd ==
  \A p \in Puts :
    pc[p] \in Waiting
      /\ (p \in cancelled \/ Dag[node[p]] \subseteq Available \cup {node[p]})
    ~> pc[p] \notin Waiting
=============================================================================

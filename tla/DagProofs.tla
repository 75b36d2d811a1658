----------------------------- MODULE DagProofs -----------------------------
(***************************************************************************)
(* DagStore keeps the promise of DagPinning, for any DAG, even a cyclic or *)
(* an infinite graph, and any number of calls.  A CAR never holds a node   *)
(* that the DAG of its Put does not have; when nothing is wanted it is     *)
(* closed, and therefore holds all of that DAG.  Nothing that was put,     *)
(* written or uploaded is garbled, since all of it has been decoded.       *)
(***************************************************************************)
EXTENDS DagNames, TLAPS, WellFoundedInduction

(* A DAG holds its top and is closed, and every closed set with that top   *)
(* holds the DAG.                                                          *)
LEMMA DagIsLeast ==
  ASSUME NEW n \in Nodes
  PROVE  /\ Dag[n] \subseteq Nodes /\ n \in Dag[n] /\ Closed(Dag[n])
         /\ \A S \in SUBSET Nodes : n \in S /\ Closed(S) => Dag[n] \subseteq S
<1>1. Dag[n] = {m \in Nodes : \A S \in SUBSET Nodes : n \in S /\ Closed(S) => m \in S}
  BY DEF Dag
<1>2. Closed(Dag[n])
  <2>1. ASSUME NEW m \in Dag[n], NEW k \in Links[m]
        PROVE  k \in Dag[n]
    <3>1. m \in Nodes /\ Links[m] \subseteq Nodes
      BY <1>1, DagAssumption
    <3>2. ASSUME NEW S \in SUBSET Nodes, n \in S, Closed(S)
          PROVE  k \in S
      <4>1. m \in S
        BY <1>1, <3>2
      <4> QED
        BY <4>1, <3>2 DEF Closed
    <3>3. k \in Nodes
      BY <3>1
    <3> QED
      BY <1>1, <3>2, <3>3
  <2> QED
    BY <2>1 DEF Closed
<1> QED
  BY <1>1, <1>2

(* What a Put has written belongs to its DAG, and what it was given, wrote *)
(* or brought to Web3.Storage has been decoded.                            *)
CarInv ==
  \A p \in Puts :
    /\ pc[p] \in {"add", "write", "upload", "ok"} => node[p] \in Nodes
    /\ pc[p] \in {"add", "write"} => node[p] \notin garbled
    /\ car[p] # {} => pc[p] = "write"
    /\ pc[p] = "write" => car[p] \subseteq Dag[node[p]] \ garbled

(* What is on its way is the whole DAG of its Put, which fails or waits;   *)
(* and it has arrived when it is on its way no longer.                     *)
SentInv ==
  \A p \in Puts :
    /\ sent[p] # {} =>
         /\ pc[p] \in {"upload", "error", "gone"} /\ node[p] \in Nodes
         /\ sent[p] = Dag[node[p]] /\ sent[p] \cap garbled = {}
    /\ pc[p] = "upload" /\ sent[p] = {} => Dag[node[p]] \subseteq remote

(* What has succeeded is uploaded with all that it leads to.               *)
RemoteInv ==
  /\ RemoteIsClosed
  /\ (pinned \cup remote) \cap garbled = {}
  /\ \A p \in Puts : pc[p] = "ok" => Dag[node[p]] \subseteq remote

GetInv ==
  \A g \in Gets : pc[g] = "panic" => node[g] \in garbled

IInv == TypeOK /\ CarInv /\ SentInv /\ RemoteInv /\ GetInv

Places == Waiting \cup {"idle", "ok", "error", "panic", "gone"}
-----------------------------------------------------------------------------
LEMMA InitIInv == Init => IInv
<1> SUFFICES ASSUME Init PROVE IInv
  OBVIOUS
<1>1. stops \in 0..MaxStops
  <2>1. stops = 0
    BY DEF Init
  <2>2. MaxStops \in Nat
    BY DagAssumption
  <2> QED
    BY <2>1, <2>2
<1> USE DagAssumption DEF Init
<1>2. /\ token \in {"none", "", "key"} /\ elsewhere \subseteq Nodes
      /\ garbled \subseteq Nodes /\ blocks \subseteq Nodes
      /\ pinned \subseteq Nodes /\ remote \subseteq Nodes
      /\ cancelled \subseteq Puts
  OBVIOUS
<1>3. \A x \in Calls : pc[x] = "idle"
  OBVIOUS
<1>4. pc \in [Calls -> Waiting \cup {"idle", "ok", "error", "panic", "gone"}]
  <2>1. "idle" \in Waiting \cup {"idle", "ok", "error", "panic", "gone"}
    BY Zenon
  <2>2. pc = [x \in Calls |-> "idle"]
    BY Zenon
  <2> QED
    BY <2>1, <2>2, Zenon
<1>5. node \in [Calls -> Nodes \cup {Nil}]
  OBVIOUS
<1>6. /\ car \in [Puts -> SUBSET Nodes] /\ \A p \in Puts : car[p] = {}
      /\ sent \in [Puts -> SUBSET Nodes] /\ \A p \in Puts : sent[p] = {}
  OBVIOUS
<1>7. TypeOK
  BY <1>2, <1>1, <1>4, <1>5, <1>6 DEF TypeOK
<1>8. CarInv /\ SentInv /\ GetInv
  BY <1>3, <1>6 DEF CarInv, SentInv, GetInv, Calls
<1>9. RemoteInv
  BY <1>3 DEF RemoteInv, RemoteIsClosed, Closed, Calls
<1> QED
  BY <1>7, <1>8, <1>9 DEF IInv

(* A step of one call moves it alone.                                      *)
LEMMA GotoFacts ==
  ASSUME TypeOK, NEW r \in Calls, NEW place \in Places, Goto(r, place)
  PROVE  /\ pc' \in [Calls -> Places]
         /\ \A x \in Calls : pc'[x] = IF x = r THEN place ELSE pc[x]
BY DEF Goto, TypeOK, Places

LEMMA DropFacts ==
  ASSUME TypeOK, NEW p \in Puts, Drop(p)
  PROVE  /\ car' \in [Puts -> SUBSET Nodes]
         /\ \A q \in Puts : car'[q] = IF q = p THEN {} ELSE car[q]
BY DEF Drop, TypeOK

LEMMA PutKeepsIInv ==
  ASSUME IInv, NEW p \in Puts, NEW n \in Nodes, Put(p, n)
  PROVE  IInv'
<1> USE DagAssumption DEF IInv
<1>1. /\ UNCHANGED <<storeVars, blocks, car, sent, cancelled, stops>>
      /\ pc[p] = "idle"
      /\ \A x \in Calls : node'[x] = IF x = p THEN n ELSE node[x]
      /\ node' \in [Calls -> Nodes \cup {Nil}]
  BY DEF Put, TypeOK, Calls
<1>2. /\ pc' \in [Calls -> Places]
      /\ \A x \in Calls : x # p => pc'[x] = pc[x]
      /\ pc'[p] = "error" \/ (pc'[p] = "add" /\ n \notin garbled)
  BY GotoFacts DEF Put, Places, Waiting, Calls, Decodes
<1>3. TypeOK'
  BY <1>1, <1>2 DEF TypeOK, storeVars, Places
<1>4. CarInv'
  BY <1>1, <1>2 DEF CarInv, storeVars, Calls
<1>5. RemoteInv'
  BY <1>1, <1>2 DEF RemoteInv, RemoteIsClosed, storeVars, Calls
<1>6. GetInv'
  BY <1>1, <1>2 DEF GetInv, storeVars, Calls
<1>7. SentInv'
  BY <1>1, <1>2 DEF SentInv, storeVars, Calls
<1> QED
  BY <1>3, <1>4, <1>5, <1>6, <1>7

LEMMA AddAndPinKeepsIInv ==
  ASSUME IInv, NEW p \in Puts, AddAndPin(p)
  PROVE  IInv'
<1> USE DagAssumption DEF IInv
<1>1. /\ UNCHANGED <<token, elsewhere, garbled, remote, node, car, sent, cancelled,
                 stops>>
      /\ pc[p] = "add" /\ node[p] \in Nodes
      /\ blocks' \subseteq blocks \cup {node[p]}
      /\ pinned' \subseteq pinned \cup {node[p]}
  BY DEF AddAndPin, CarInv
<1>2. /\ pc' \in [Calls -> Places]
      /\ \A x \in Calls : x # p => pc'[x] = pc[x]
      /\ pc'[p] \in {"error", "write"}
  BY GotoFacts DEF AddAndPin, Places, Waiting, Calls
<1>3. TypeOK'
  BY <1>1, <1>2 DEF TypeOK, Places
<1>4. CarInv'
  BY <1>1, <1>2 DEF CarInv, Calls
<1>5. RemoteInv'
  BY <1>1, <1>2 DEF RemoteInv, RemoteIsClosed, CarInv, Calls
<1>6. GetInv'
  BY <1>1, <1>2 DEF GetInv, Calls
<1>7. SentInv'
  BY <1>1, <1>2 DEF SentInv, Calls
<1> QED
  BY <1>3, <1>4, <1>5, <1>6, <1>7

(* A node that is wanted belongs to the DAG of the Put.                    *)
LEMMA WriteKeepsIInv ==
  ASSUME IInv, NEW p \in Puts, WriteNode(p)
  PROVE  IInv'
<1> USE DEF IInv
<1>1. PICK n \in (Wanted(p) \cap Available) \ garbled :
        /\ car' = [car EXCEPT ![p] = @ \cup {n}]
        /\ blocks' = blocks \cup {n}
  BY DEF WriteNode
<1>2. UNCHANGED <<storeVars, pc, node, sent, cancelled, stops>> /\ pc[p] = "write"
  BY DEF WriteNode
<1>3. node[p] \in Nodes /\ car[p] \subseteq Dag[node[p]]
  BY <1>2 DEF CarInv
<1>4. n \in Dag[node[p]]
  BY <1>3, DagIsLeast DEF Wanted, Closed
<1>5. n \in Nodes
  BY <1>3, <1>4, DagIsLeast
<1>6. TypeOK'
  BY <1>1, <1>2, <1>5 DEF TypeOK, storeVars
<1>7. CarInv'
  <2>1. /\ \A q \in Puts : car'[q] = IF q = p THEN car[q] \cup {n} ELSE car[q]
        /\ garbled' = garbled /\ pc' = pc /\ node' = node
    BY <1>1, <1>2 DEF storeVars, TypeOK
  <2>2. car[p] \cup {n} \subseteq Dag[node[p]] \ garbled
    BY <1>1, <1>2, <1>4 DEF CarInv
  <2>3. ASSUME NEW q \in Puts, q # p
        PROVE  car'[q] = car[q] /\ pc'[q] = pc[q] /\ node'[q] = node[q]
    BY <2>1, <2>3
  <2>4. pc'[p] = "write" /\ node'[p] = node[p] /\ car'[p] = car[p] \cup {n}
    BY <1>2, <2>1
  <2>5. node[p] \in Nodes /\ node[p] \notin garbled
    BY <1>2 DEF CarInv
  <2> QED
    BY <2>1, <2>2, <2>3, <2>4, <2>5 DEF CarInv
<1>8. SentInv' /\ RemoteInv' /\ GetInv'
  BY <1>2 DEF SentInv, RemoteInv, RemoteIsClosed, GetInv, storeVars
<1> QED
  BY <1>6, <1>7, <1>8

LEMMA WriteFailsKeepsIInv ==
  ASSUME IInv, NEW p \in Puts, WriteFails(p)
  PROVE  IInv'
<1> USE DagAssumption DEF IInv
<1>1. UNCHANGED <<storeVars, blocks, node, sent, cancelled, stops>>
  BY DEF WriteFails
<1>2. /\ pc' \in [Calls -> Places]
      /\ \A x \in Calls : pc'[x] = IF x = p THEN "error" ELSE pc[x]
  BY GotoFacts DEF WriteFails, Places, Calls
<1>3. /\ car' \in [Puts -> SUBSET Nodes]
      /\ \A q \in Puts : car'[q] = IF q = p THEN {} ELSE car[q]
  BY DropFacts DEF WriteFails
<1>4. TypeOK'
  BY <1>1, <1>2, <1>3 DEF TypeOK, storeVars, Places
<1>5. CarInv'
  BY <1>1, <1>2, <1>3 DEF CarInv, storeVars, Calls
<1>6. RemoteInv' /\ GetInv'
  BY <1>1, <1>2 DEF RemoteInv, RemoteIsClosed, GetInv, storeVars, Calls
<1>7. SentInv'
  BY <1>1, <1>2 DEF SentInv, storeVars, Calls
<1> QED
  BY <1>4, <1>5, <1>6, <1>7

(* When nothing is wanted, the CAR is the DAG.                             *)
LEMMA CarIsComplete ==
  ASSUME IInv, NEW p \in Puts, pc[p] = "write", Wanted(p) = {}
  PROVE  /\ car[p] = Dag[node[p]] /\ car[p] \subseteq Nodes
         /\ Closed(car[p]) /\ car[p] \cap garbled = {}
<1>1. node[p] \in Nodes /\ car[p] \subseteq Dag[node[p]] \ garbled
  BY DEF IInv, CarInv
<1>2. car[p] \in SUBSET Nodes
  BY <1>1, DagIsLeast
<1>3. node[p] \in car[p] /\ Closed(car[p])
  BY DEF Wanted, Closed
<1> QED
  BY <1>1, <1>2, <1>3, DagIsLeast

LEMMA SendCarKeepsIInv ==
  ASSUME IInv, NEW p \in Puts, SendCar(p)
  PROVE  IInv'
<1> USE DagAssumption DEF IInv
<1>1. /\ UNCHANGED <<storeVars, blocks, node, cancelled, stops>>
      /\ pc[p] = "write" /\ Wanted(p) = {} /\ node[p] \in Nodes
  BY DEF SendCar, CarInv
<1>2. /\ pc' \in [Calls -> Places]
      /\ \A x \in Calls : pc'[x] = IF x = p THEN "upload" ELSE pc[x]
  BY GotoFacts DEF SendCar, Places, Waiting, Calls
<1>3. /\ car' \in [Puts -> SUBSET Nodes]
      /\ \A q \in Puts : car'[q] = IF q = p THEN {} ELSE car[q]
  BY DropFacts DEF SendCar
<1>4. /\ car[p] = Dag[node[p]] /\ car[p] \subseteq Nodes
      /\ car[p] \cap garbled = {} /\ car[p] # {}
  BY <1>1, CarIsComplete, DagIsLeast
<1>5. /\ sent' \in [Puts -> SUBSET Nodes]
      /\ \A q \in Puts : sent'[q] = IF q = p THEN car[p] ELSE sent[q]
  BY <1>4 DEF SendCar, TypeOK
<1>6. TypeOK'
  BY <1>1, <1>2, <1>3, <1>5 DEF TypeOK, storeVars, Places
<1>7. CarInv'
  BY <1>1, <1>2, <1>3 DEF CarInv, storeVars, Calls
<1>8. SentInv'
  BY <1>1, <1>2, <1>4, <1>5 DEF SentInv, storeVars, Calls
<1>9. RemoteInv' /\ GetInv'
  BY <1>1, <1>2 DEF RemoteInv, RemoteIsClosed, GetInv, storeVars, Calls
<1> QED
  BY <1>6, <1>7, <1>8, <1>9

(* Whether the Put still waits or not, all of its DAG arrives at once.     *)
LEMMA TakeCarKeepsIInv ==
  ASSUME IInv, NEW p \in Puts, TakeCar(p)
  PROVE  IInv'
<1> USE DEF IInv
<1>1. /\ UNCHANGED <<token, elsewhere, garbled, pinned, blocks, pc, node, car,
                     cancelled, stops>>
      /\ remote' = remote \cup sent[p]
      /\ sent[p] = Dag[node[p]] /\ sent[p] \cap garbled = {} /\ node[p] \in Nodes
  BY DEF TakeCar, SentInv
<1>2. sent[p] \subseteq Nodes /\ Closed(sent[p])
  BY <1>1, DagIsLeast
<1>3. /\ sent' \in [Puts -> SUBSET Nodes]
      /\ \A q \in Puts : sent'[q] = IF q = p THEN {} ELSE sent[q]
  BY DEF TakeCar, TypeOK
<1>4. TypeOK'
  BY <1>1, <1>2, <1>3 DEF TypeOK
<1>5. SentInv'
  BY <1>1, <1>3 DEF SentInv
<1>6. RemoteInv'
  BY <1>1, <1>2 DEF RemoteInv, RemoteIsClosed, Closed
<1>7. CarInv' /\ GetInv'
  BY <1>1 DEF CarInv, GetInv
<1> QED
  BY <1>4, <1>5, <1>6, <1>7

LEMMA UploadEndsKeepsIInv ==
  ASSUME IInv, NEW p \in Puts, UploadOk(p) \/ UploadFails(p)
  PROVE  IInv'
<1> USE DagAssumption DEF IInv
<1>1. /\ UNCHANGED <<storeVars, blocks, node, car, sent, cancelled, stops>>
      /\ pc[p] = "upload"
  BY DEF UploadOk, UploadFails
<1>2. PICK place \in {"ok", "error"} :
        /\ pc' \in [Calls -> Places]
        /\ \A x \in Calls : pc'[x] = IF x = p THEN place ELSE pc[x]
        /\ place = "ok" => sent[p] = {}
  BY GotoFacts DEF UploadOk, UploadFails, Places, Calls
<1>3. place = "ok" => Dag[node[p]] \subseteq remote
  BY <1>1, <1>2 DEF SentInv
<1>4. TypeOK'
  BY <1>1, <1>2 DEF TypeOK, storeVars, Places
<1>5. CarInv'
  BY <1>1, <1>2 DEF CarInv, storeVars, Calls
<1>6. SentInv'
  BY <1>1, <1>2 DEF SentInv, storeVars, Calls
<1>7. RemoteInv' /\ GetInv'
  BY <1>1, <1>2, <1>3 DEF RemoteInv, RemoteIsClosed, GetInv, storeVars, Calls
<1> QED
  BY <1>4, <1>5, <1>6, <1>7

LEMMA GetKeepsIInv ==
  ASSUME IInv, NEW g \in Gets, GetStep(g) \/ \E n \in Nodes : Get(g, n)
  PROVE  IInv'
<1> USE DagAssumption DEF IInv
<1>1. UNCHANGED <<storeVars, car, sent, cancelled, stops>>
  BY DEF GetStep, Get, ReadBlock, ReadFails
<1>2. /\ pc' \in [Calls -> Places]
      /\ \A x \in Calls : x # g => pc'[x] = pc[x]
  BY GotoFacts
  DEF GetStep, Get, ReadBlock, ReadFails, Places, Waiting, Calls
<1>3. /\ node' \in [Calls -> Nodes \cup {Nil}]
      /\ \A x \in Calls : x # g => node'[x] = node[x]
  BY DEF GetStep, Get, ReadBlock, ReadFails, TypeOK, Calls
<1>4. pc'[g] = "panic" => node'[g] \in garbled
  BY GotoFacts
  DEF GetStep, Get, ReadBlock, ReadFails, Places, Waiting, Calls
<1>5. blocks' \subseteq Nodes
  BY DEF GetStep, Get, ReadBlock, ReadFails, Available, TypeOK
<1>6. TypeOK'
  BY <1>1, <1>2, <1>3, <1>5 DEF TypeOK, storeVars, Places
<1>7. CarInv'
  BY <1>1, <1>2, <1>3 DEF CarInv, storeVars, Calls
<1>8. RemoteInv'
  BY <1>1, <1>2, <1>3 DEF RemoteInv, RemoteIsClosed, storeVars, Calls
<1>9. GetInv'
  BY <1>1, <1>2, <1>3, <1>4 DEF GetInv, storeVars, Calls
<1>10. SentInv'
  BY <1>1, <1>2, <1>3 DEF SentInv, storeVars, Calls
<1> QED
  BY <1>6, <1>7, <1>8, <1>9, <1>10

LEMMA RestartKeepsIInv ==
  ASSUME IInv, Restart
  PROVE  IInv'
<1> USE DagAssumption DEF IInv
<1>1. /\ UNCHANGED <<token, elsewhere, garbled, remote, node, sent, cancelled>>
      /\ blocks' = {} /\ pinned' = {} /\ car' = [p \in Puts |-> {}]
      /\ stops' \in 0..MaxStops
  <2>1. stops \in 0..MaxStops
    BY DEF TypeOK
  <2> QED
    BY <2>1 DEF Restart
<1>2. \A x \in Calls : pc'[x] = IF pc[x] \in Waiting THEN "gone" ELSE pc[x]
  BY DEF Restart
<1>3. pc' \in [Calls -> Places]
  <2>1. \A x \in Calls : pc'[x] \in Places
    BY <1>2 DEF TypeOK, Places
  <2>2. pc' = [x \in Calls |-> pc'[x]]
    BY DEF Restart
  <2> QED
    BY <2>1, <2>2
<1>4. TypeOK'
  BY <1>1, <1>3 DEF TypeOK, Places
<1>5. CarInv' /\ SentInv' /\ RemoteInv' /\ GetInv'
  BY <1>1, <1>2
  DEF CarInv, SentInv, RemoteInv, RemoteIsClosed, GetInv, Calls, Waiting
<1> QED
  BY <1>4, <1>5

(* Every step keeps IInv; so does a step of a system that DagStore is a    *)
(* part of.                                                                *)
LEMMA StepKeepsIInv ==
  ASSUME IInv, [Next]_vars
  PROVE  IInv'
<1>1. ASSUME NEW p \in Puts, NEW n \in Nodes, Put(p, n) PROVE IInv'
  BY <1>1, PutKeepsIInv
<1>2. ASSUME NEW p \in Puts, PutStep(p) PROVE IInv'
  BY <1>2, AddAndPinKeepsIInv, WriteKeepsIInv, WriteFailsKeepsIInv,
     SendCarKeepsIInv, UploadEndsKeepsIInv
  DEF PutStep
<1>3. ASSUME NEW p \in Puts, Cancel(p) PROVE IInv'
  BY <1>3
  DEF Cancel, storeVars, IInv, TypeOK, CarInv, SentInv, RemoteInv,
      RemoteIsClosed, GetInv
<1>4. ASSUME NEW g \in Gets, GetStep(g) \/ \E n \in Nodes : Get(g, n)
      PROVE  IInv'
  BY <1>4, GetKeepsIInv
<1>5. CASE UNCHANGED vars
  BY <1>5
  DEF vars, storeVars, IInv, TypeOK, CarInv, SentInv, RemoteInv,
      RemoteIsClosed, GetInv, Closed
<1> QED
  BY <1>1, <1>2, <1>3, <1>4, <1>5, RestartKeepsIInv, TakeCarKeepsIInv DEF Next

(* IInv is an invariant of every instance.                                 *)
THEOREM IInvInvariant == Spec => []IInv
BY InitIInv, StepKeepsIInv, PTL DEF Spec

(* Web3.Storage never keeps a part of a DAG (ipfs/ipfs.go:462-468), in     *)
(* every instance.                                                         *)
THEOREM NothingIsPartial == Spec => []StoreInv
<1>1. IInv => StoreInv
  BY DEF IInv, RemoteInv, StoreInv
<1> QED
  BY <1>1, IInvInvariant, PTL

(* A read panics only over what no Put has pinned or uploaded              *)
(* (ipfs/ipfs.go:119-123, 134-138), in every instance.                     *)
THEOREM PanicsAreForeign == Spec => []PanicIsForeign
<1>1. IInv => PanicIsForeign
  BY DEF IInv, RemoteInv, GetInv, PanicIsForeign
<1> QED
  BY <1>1, IInvInvariant, PTL
-----------------------------------------------------------------------------
(* How the refinement mapping sees a step that moves the call r alone.     *)
LEMMA StatusFacts ==
  /\ StatusAt("idle") = "idle" /\ StatusAt("ok") = "ok"
  /\ StatusAt("error") = "failed" /\ StatusAt("gone") = "failed"
  /\ StatusAt("add") = "running" /\ StatusAt("write") = "running"
  /\ StatusAt("upload") = "running"
  /\ \A place \in Waiting : StatusAt(place) = "running"
<1>1. /\ "idle" \notin Waiting /\ "ok" \notin Waiting /\ "error" \notin Waiting
      /\ "gone" \notin Waiting /\ "add" \in Waiting /\ "write" \in Waiting
      /\ "upload" \in Waiting
  BY DEF Waiting
<1> QED
  BY <1>1 DEF StatusAt

LEMMA StatusMoves ==
  ASSUME NEW p \in Puts, NEW place, IInv,
         pc'[p] = place, \A q \in Puts : q # p => pc'[q] = pc[q]
  PROVE  Status' = [Status EXCEPT ![p] = StatusAt(place)]
BY DEF Status

(* Put fails, or has called.                                               *)
LEMMA PutIsCall ==
  ASSUME IInv, NEW p \in Puts, NEW n \in Nodes, Put(p, n)
  PROVE  Pinning!Call(p)
<1>1. /\ pc[p] = "idle" /\ UNCHANGED remote
      /\ Status[p] = "idle"
  BY StatusFacts DEF Put, storeVars, Status
<1>2. Item' = [Item EXCEPT ![p] = n]
  BY DEF Put, Item, IInv, TypeOK, Calls
<1>3. PICK place \in {"error", "add"} :
        /\ pc'[p] = place
        /\ \A q \in Puts : q # p => pc'[q] = pc[q]
  BY GotoFacts DEF Put, Places, Waiting, Calls, IInv
<1>4. Status' = [Status EXCEPT ![p] = StatusAt(place)]
  BY <1>3, StatusMoves
<1>5. StatusAt(place) \in {"running", "failed"}
  BY StatusFacts
<1> QED
  BY <1>1, <1>2, <1>4, <1>5 DEF Pinning!Call

(* A step that moves a waiting Put to an error.                            *)
LEMMA ErrorIsFail ==
  ASSUME IInv, NEW p \in Puts, pc[p] \in Waiting, Goto(p, "error"),
         UNCHANGED <<remote, node>>
  PROVE  Pinning!Fail({p})
<1>1. Status[p] = "running"
  BY StatusFacts DEF Status
<1>2. Status' = [Status EXCEPT ![p] = "failed"]
  <2>1. pc'[p] = "error" /\ \A q \in Puts : q # p => pc'[q] = pc[q]
    BY GotoFacts DEF Places, Calls, IInv
  <2> QED
    BY <2>1, StatusMoves, StatusFacts
<1>3. Status' = [q \in Puts |-> IF q \in {p} /\ Status[q] # "ok"
                                THEN "failed" ELSE Status[q]]
  BY <1>1, <1>2 DEF Status
<1>4. Item' = Item
  BY DEF Item
<1> QED
  BY <1>3, <1>4 DEF Pinning!Fail

(* A step that leaves what the promise is about.                           *)
LEMMA OthersStutter ==
  ASSUME UNCHANGED remote,
         \A p \in Puts : node'[p] = node[p] /\ StatusAt(pc'[p]) = StatusAt(pc[p])
  PROVE  UNCHANGED Pinning!vars
BY DEF Pinning!vars, Status, Item

(* The CAR arrives: the Put that has sent it waits, or has failed.         *)
LEMMA TakeCarIsEffect ==
  ASSUME IInv, NEW p \in Puts, TakeCar(p)
  PROVE  Pinning!TakeEffect(p)
<1>1. /\ UNCHANGED <<pc, node>> /\ remote' = remote \cup Dag[node[p]]
      /\ pc[p] \in {"upload", "error", "gone"}
  BY DEF TakeCar, IInv, SentInv
<1>2. Status[p] \in {"running", "failed"} /\ Item[p] = node[p]
  BY <1>1, StatusFacts DEF Status, Item
<1>3. Status' = Status /\ Item' = Item
  BY <1>1 DEF Status, Item
<1> QED
  BY <1>1, <1>2, <1>3 DEF Pinning!TakeEffect

LEMMA UploadOkIsReturn ==
  ASSUME IInv, NEW p \in Puts, UploadOk(p)
  PROVE  Pinning!ReturnOk(p)
<1>1. pc[p] = "upload" /\ UNCHANGED <<remote, node>>
  BY DEF UploadOk, storeVars
<1>2. Dag[node[p]] \subseteq remote
  BY DEF UploadOk, IInv, SentInv
<1>3. pc'[p] = "ok" /\ \A q \in Puts : q # p => pc'[q] = pc[q]
  BY GotoFacts DEF UploadOk, Places, Calls, IInv
<1>4. Status' = [Status EXCEPT ![p] = "ok"]
  BY <1>3, StatusMoves, StatusFacts
<1>5. Status[p] = "running" /\ Item[p] = node[p] /\ Item' = Item
  BY <1>1, StatusFacts DEF Status, Item
<1> QED
  BY <1>1, <1>2, <1>4, <1>5 DEF Pinning!ReturnOk

LEMMA PutStepRefines ==
  ASSUME IInv, NEW p \in Puts, PutStep(p)
  PROVE  [Pinning!Next]_Pinning!vars
<1>1. CASE AddAndPin(p)
  <2>1. pc[p] = "add" /\ UNCHANGED <<remote, node>>
    BY <1>1 DEF AddAndPin
  <2>2. CASE Goto(p, "error")
    BY <2>1, <2>2, ErrorIsFail DEF Waiting, Pinning!Next
  <2>3. CASE Goto(p, "write")
    <3>1. pc'[p] = "write" /\ \A q \in Puts : q # p => pc'[q] = pc[q]
      BY <2>3, GotoFacts DEF Places, Waiting, Calls, IInv
    <3>2. \A q \in Puts : StatusAt(pc'[q]) = StatusAt(pc[q])
      BY <2>1, <3>1, StatusFacts
    <3> QED
      BY <2>1, <3>2, OthersStutter
  <2> QED
    BY <1>1, <2>2, <2>3 DEF AddAndPin
<1>2. CASE WriteNode(p)
  BY <1>2, OthersStutter DEF WriteNode, storeVars
<1>3. CASE WriteFails(p)
  <2>1. pc[p] = "write" /\ Goto(p, "error") /\ UNCHANGED <<remote, node>>
    BY <1>3 DEF WriteFails, storeVars
  <2> QED
    BY <2>1, ErrorIsFail DEF Waiting, Pinning!Next
<1>4. CASE SendCar(p)
  <2>1. pc[p] = "write" /\ UNCHANGED <<remote, node>>
    BY <1>4 DEF SendCar, storeVars
  <2>2. pc'[p] = "upload" /\ \A q \in Puts : q # p => pc'[q] = pc[q]
    BY <1>4, GotoFacts DEF SendCar, Places, Waiting, Calls, IInv
  <2>3. \A q \in Puts : StatusAt(pc'[q]) = StatusAt(pc[q])
    BY <2>1, <2>2, StatusFacts
  <2> QED
    BY <2>1, <2>3, OthersStutter
<1>5. CASE UploadOk(p)
  BY <1>5, UploadOkIsReturn DEF Pinning!Next
<1>6. CASE UploadFails(p)
  <2>1. pc[p] = "upload" /\ Goto(p, "error") /\ UNCHANGED <<remote, node>>
    BY <1>6 DEF UploadFails, storeVars
  <2> QED
    BY <2>1, ErrorIsFail DEF Waiting, Pinning!Next
<1> QED
  BY <1>1, <1>2, <1>3, <1>4, <1>5, <1>6 DEF PutStep

(* A read is no part of the promise.                                       *)
LEMMA GetStutters ==
  ASSUME IInv, NEW g \in Gets, GetStep(g) \/ \E n \in Nodes : Get(g, n)
  PROVE  UNCHANGED Pinning!vars
<1>1. UNCHANGED remote
  BY DEF GetStep, Get, ReadBlock, ReadFails, storeVars
<1>2. \A p \in Puts : p # g /\ p \in Calls
  BY DagAssumption DEF Calls
<1>3. \A p \in Puts : node'[p] = node[p]
  BY <1>2 DEF GetStep, Get, ReadBlock, ReadFails, IInv, TypeOK
<1>4. \A p \in Puts : pc'[p] = pc[p]
  BY <1>2, GotoFacts
  DEF GetStep, Get, ReadBlock, ReadFails, Places, Waiting, Calls, IInv
<1> QED
  BY <1>1, <1>3, <1>4, OthersStutter

LEMMA RestartIsFail ==
  ASSUME IInv, Restart
  PROVE  Pinning!Fail({p \in Puts : pc[p] \in Waiting})
<1>1. UNCHANGED <<remote, node>>
  BY DEF Restart
<1>2. \A p \in Puts : pc'[p] = IF pc[p] \in Waiting THEN "gone" ELSE pc[p]
  BY DEF Restart, Calls
<1>3. \A p \in Puts : pc[p] \in Waiting =>
        Status[p] = "running" /\ StatusAt(pc'[p]) = "failed"
  BY <1>2, StatusFacts DEF Status
<1>4. \A p \in Puts : pc[p] \notin Waiting => StatusAt(pc'[p]) = Status[p]
  BY <1>2 DEF Status
<1>5. Status' = [p \in Puts |->
        IF p \in {q \in Puts : pc[q] \in Waiting} /\ Status[p] # "ok"
        THEN "failed" ELSE Status[p]]
  BY <1>3, <1>4 DEF Status
<1> QED
  BY <1>1, <1>5 DEF Pinning!Fail, Item

LEMMA StepRefines ==
  ASSUME IInv, [Next]_vars
  PROVE  [Pinning!Next]_Pinning!vars
<1>1. ASSUME NEW p \in Puts, NEW n \in Nodes, Put(p, n)
      PROVE  [Pinning!Next]_Pinning!vars
  BY <1>1, PutIsCall DEF Pinning!Next
<1>2. ASSUME NEW p \in Puts, PutStep(p)
      PROVE  [Pinning!Next]_Pinning!vars
  BY <1>2, PutStepRefines
<1>3. ASSUME NEW p \in Puts, TakeCar(p) \/ Cancel(p)
      PROVE  [Pinning!Next]_Pinning!vars
  BY <1>3, TakeCarIsEffect, OthersStutter DEF Cancel, storeVars, Pinning!Next
<1>4. ASSUME NEW g \in Gets, GetStep(g) \/ \E n \in Nodes : Get(g, n)
      PROVE  [Pinning!Next]_Pinning!vars
  BY <1>4, GetStutters
<1>5. CASE Restart
  BY <1>5, RestartIsFail DEF Pinning!Next
<1>6. CASE UNCHANGED vars
  BY <1>6, OthersStutter DEF vars, storeVars
<1> QED
  BY <1>1, <1>2, <1>3, <1>4, <1>5, <1>6 DEF Next

(* Put keeps its promise (ipfs/ipfs.go:126-156, w3s/put.go:21-37): a node  *)
(* becomes durable at one moment with everything it leads to, which may be *)
(* after a Put that has failed, in every instance.                         *)
THEOREM PutKeepsItsPromise == Spec => ImplementsPinning
<1>1. Init => Pinning!Init
  BY StatusFacts DEF Init, Pinning!Init, Status, Item, Calls
<1> QED
  BY <1>1, StepRefines, IInvInvariant, PTL
  DEF Spec, ImplementsPinning, Pinning!Spec
-----------------------------------------------------------------------------
(***************************************************************************)
(* What a name resolves to, for any DAG, any number of calls and any       *)
(* clocks.  Every record has sequence number 1, because the lookup of a    *)
(* publication never finds one; so the end of validity alone orders the    *)
(* records, and the one at the service only moves forward in that order.   *)
(***************************************************************************)

FirstRecord == {r \in Names!Record : r.seq = 1}

MaybeRecord == FirstRecord \cup {Names!NoRecord}

StepPlaces == {"idle", "put", "get", "ok", "error", "found", "absent",
               "panic", "gone"}

(* The end of validity orders the records, and none has the least.         *)
LEMMA OrderFacts ==
  /\ Names!NoRecord.validity = 0
  /\ \A r \in FirstRecord : r.validity \in 1..MaxTime /\ r.cid \in Nodes
  /\ \A r \in MaybeRecord : r.validity \in Nat
  /\ \A r, s \in MaybeRecord : Names!Newer(r, s) <=> r.validity > s.validity
  /\ Names!NoRecord \notin FirstRecord
<1> USE ClockAssumption
<1>1. Names!NoRecord.validity = 0 /\ Names!NoRecord.seq = 0
  BY DEF Names!NoRecord
<1>2. \A r \in FirstRecord :
        r.validity \in 1..MaxTime /\ r.cid \in Nodes /\ r.seq = 1
  BY DEF FirstRecord, Names!Record
<1>3. \A r \in MaybeRecord :
        /\ r.validity \in Nat /\ r.seq \in {0, 1}
        /\ r.seq = 0 <=> r.validity = 0
  BY <1>1, <1>2 DEF MaybeRecord
<1>4. \A r, s \in MaybeRecord : Names!Newer(r, s) <=> r.validity > s.validity
  <2> SUFFICES ASSUME NEW r \in MaybeRecord, NEW s \in MaybeRecord
               PROVE  Names!Newer(r, s) <=> r.validity > s.validity
    OBVIOUS
  <2>1. /\ r.validity \in Nat /\ s.validity \in Nat
        /\ r.seq \in {0, 1} /\ s.seq \in {0, 1}
        /\ r.seq = 0 <=> r.validity = 0
        /\ s.seq = 0 <=> s.validity = 0
    BY <1>3
  <2> QED
    BY <2>1 DEF Names!Newer
<1> QED
  BY <1>1, <1>2, <1>3, <1>4

(* Among records there is a newest.                                        *)
LEMMA NewestExists ==
  ASSUME NEW R \in SUBSET FirstRecord
  PROVE  \E r \in R \cup {Names!NoRecord} : \A s \in R : ~Names!Newer(s, r)
<1> USE ClockAssumption
<1> DEFINE Bounds == {k \in Nat : \A s \in R : s.validity <= k}
           Below  == OpToRel(<, Nat)
<1>1. MaxTime \in Bounds
  BY OrderFacts
<1>2. PICK k \in Bounds : \A j \in Bounds : ~(<<j, k>> \in Below)
  <2> HIDE DEF Below
  <2>1. IsWellFoundedOn(Below, Nat)
    BY NatLessThanWellFounded DEF Below
  <2> QED
    BY <1>1, <2>1, WFMin
<1>3. \A j \in Bounds : ~(j < k)
  BY <1>2 DEF OpToRel
<1>4. CASE k = 0
  BY <1>4, OrderFacts DEF MaybeRecord
<1>5. CASE k # 0
  <2>1. k - 1 \in Nat /\ k - 1 \notin Bounds
    BY <1>3, <1>5
  <2>2. PICK r \in R : ~(r.validity <= k - 1)
    BY <2>1
  <2>3. r.validity = k
    BY <2>2, OrderFacts
  <2> QED
    BY <2>3, OrderFacts DEF MaybeRecord
<1> QED
  BY <1>4, <1>5
-----------------------------------------------------------------------------
(* The types, and who has a record for certain.                            *)
RecordInv ==
  /\ record \in MaybeRecord
  /\ step \in [Calls -> StepPlaces]
  /\ made \in [Puts -> MaybeRecord]
  /\ found \in [Gets -> MaybeRecord] /\ changed \subseteq Gets
  /\ known \in [Gets -> MaybeRecord]
  /\ \A p \in Puts : step[p] \in {"put", "ok"} => made[p] \in FirstRecord
  /\ \A g \in Gets : step[g] = "found" => found[g] \in FirstRecord

(* What was acknowledged, or known to a lookup that is on its way, is not  *)
(* newer than the record at the service.                                   *)
OrderInv ==
  /\ \A p \in Puts : step[p] = "ok" => made[p].validity <= record.validity
  /\ \A g \in Gets :
       /\ step[g] = "get" => known[g].validity <= record.validity
       /\ step[g] = "found" => known[g].validity <= found[g].validity
       /\ step[g] = "absent" => known[g] = Names!NoRecord

(* A record is made of what Web3.Storage has.                              *)
Stored(r) == r \in FirstRecord => Dag[r.cid] \subseteq remote

StoredInv ==
  /\ Stored(record)
  /\ \A p \in Puts : Stored(made[p])
  /\ \A g \in Gets : g \notin changed => Stored(found[g])

NInv == IInv /\ RecordInv /\ OrderInv /\ StoredInv
-----------------------------------------------------------------------------
LEMMA InitNInv == NamesInit => NInv
<1> SUFFICES ASSUME NamesInit PROVE NInv
  OBVIOUS
<1>1. IInv
  BY InitIInv DEF NamesInit
<1>2. /\ record = Names!NoRecord
      /\ step = [x \in Calls |-> "idle"]
      /\ made = [p \in Puts |-> Names!NoRecord]
      /\ found = [g \in Gets |-> Names!NoRecord] /\ changed = {}
      /\ known = [g \in Gets |-> Names!NoRecord]
  BY DEF NamesInit, Names!Init, Names!Calls, Calls
<1>3. Names!NoRecord \in MaybeRecord /\ Names!NoRecord \notin FirstRecord
  BY OrderFacts DEF MaybeRecord
<1>4. step \in [Calls -> StepPlaces]
  <2>1. "idle" \in StepPlaces
    BY DEF StepPlaces
  <2> QED
    BY <1>2, <2>1
<1>5. \A x \in Puts \cup Gets : step[x] = "idle"
  BY <1>2 DEF Calls
<1>6. RecordInv
  BY <1>2, <1>3, <1>4, <1>5 DEF RecordInv
<1>7. OrderInv
  BY <1>5 DEF OrderInv
<1>8. StoredInv
  BY <1>2, <1>3 DEF StoredInv, Stored
<1> QED
  BY <1>1, <1>6, <1>7, <1>8 DEF NInv

(* Web3.Storage keeps what it has.                                         *)
LEMMA RemoteGrows ==
  ASSUME [Next]_vars
  PROVE  remote \subseteq remote'
BY DEF Next, PutStep, GetStep, Put, AddAndPin, WriteNode, WriteFails, SendCar,
       TakeCar, UploadOk, UploadFails, Get, ReadBlock, ReadFails, Cancel,
       Restart, vars, storeVars

(* A step of the DAG store leaves what is said of the names.               *)
LEMMA StoreStepKeepsNInv ==
  ASSUME NInv, [Next]_vars, UNCHANGED nameVars
  PROVE  NInv'
<1>1. IInv' /\ remote \subseteq remote'
  BY StepKeepsIInv, RemoteGrows DEF NInv
<1>2. /\ record' = record /\ step' = step /\ made' = made
      /\ found' = found /\ known' = known
      /\ changed' = changed
  BY DEF nameVars
<1>3. RecordInv' /\ OrderInv'
  BY <1>2 DEF NInv, RecordInv, OrderInv
<1>4. StoredInv'
  BY <1>1, <1>2 DEF NInv, StoredInv, Stored
<1> QED
  BY <1>1, <1>3, <1>4 DEF NInv

(* A step of one call at the name service moves it alone.                  *)
LEMMA StepFacts ==
  ASSUME RecordInv, NEW x \in Calls, NEW place \in StepPlaces,
         Names!Goto(x, place)
  PROVE  /\ step' \in [Calls -> StepPlaces]
         /\ \A y \in Calls : step'[y] = IF y = x THEN place ELSE step[y]
BY DEF Names!Goto, RecordInv

(* With the DAG store at rest, what is left to say of a step.              *)
LEMMA RestKeepsIInv ==
  ASSUME NInv, UNCHANGED vars
  PROVE  IInv' /\ remote' = remote
BY StepKeepsIInv DEF NInv, vars, storeVars

(* The record that a publication makes: its lookup finds none, so that it  *)
(* has sequence number 1, and the DAG of its CID is stored.                *)
LEMMA PublishKeepsNInv ==
  ASSUME NInv, NEW p \in Puts, PublishStored(p), UNCHANGED vars
  PROVE  NInv'
<1> USE DEF NInv
<1>1. IInv' /\ remote' = remote
  BY RestKeepsIInv
<1>2. /\ record' = record /\ found' = found /\ known' = known
      /\ changed' = changed
      /\ step[p] = "idle" /\ pc[p] = "ok"
  BY DEF PublishStored, Names!Publish
<1>3. node[p] \in Nodes /\ Dag[node[p]] \subseteq remote
  BY <1>2 DEF IInv, CarInv, RemoteInv
<1>4. Names!Sequence = 1
  BY DEF Names!Sequence, Names!RecordUnder, Names!NoRecord
<1>5. CASE Names!Goto(p, "error") /\ UNCHANGED made
  <2>1. /\ step' \in [Calls -> StepPlaces]
        /\ \A y \in Calls : step'[y] = IF y = p THEN "error" ELSE step[y]
    BY <1>5, StepFacts DEF StepPlaces, Calls
  <2>2. RecordInv'
    BY <1>2, <1>5, <2>1 DEF RecordInv, Calls
  <2>3. OrderInv'
    BY <1>2, <1>5, <2>1 DEF OrderInv, Calls
  <2>4. StoredInv'
    BY <1>1, <1>2, <1>5 DEF StoredInv, Stored
  <2> QED
    BY <1>1, <2>2, <2>3, <2>4
<1>6. CASE /\ Names!Goto(p, "put")
           /\ \E now \in 1..MaxTime, seq \in {1, Names!Sequence} :
                made' = [made EXCEPT ![p] =
                           [cid |-> node[p], seq |-> seq, validity |-> now]]
  <2>1. PICK now \in 1..MaxTime :
          made' = [made EXCEPT ![p] =
                     [cid |-> node[p], seq |-> 1, validity |-> now]]
    BY <1>4, <1>6
  <2> DEFINE r == [cid |-> node[p], seq |-> 1, validity |-> now]
  <2>2. r \in FirstRecord /\ r.cid = node[p]
    BY <1>3 DEF FirstRecord, Names!Record
  <2> HIDE DEF r
  <2>3. /\ made' \in [Puts -> MaybeRecord]
        /\ \A q \in Puts : made'[q] = IF q = p THEN r ELSE made[q]
    BY <2>1, <2>2 DEF RecordInv, MaybeRecord, r
  <2>4. /\ step' \in [Calls -> StepPlaces]
        /\ \A y \in Calls : step'[y] = IF y = p THEN "put" ELSE step[y]
    BY <1>6, StepFacts DEF StepPlaces, Calls
  <2>5. p \notin Gets
    BY DagAssumption
  <2>6. RecordInv'
    BY <1>2, <2>2, <2>3, <2>4, <2>5 DEF RecordInv, Calls
  <2>7. OrderInv'
    BY <1>2, <2>3, <2>4, <2>5 DEF OrderInv, Calls
  <2>8. StoredInv'
    BY <1>1, <1>2, <1>3, <2>2, <2>3 DEF StoredInv, Stored
  <2> QED
    BY <1>1, <2>6, <2>7, <2>8
<1> QED
  BY <1>5, <1>6 DEF PublishStored, Names!Publish

(* The record at the service moves forward only.                           *)
LEMMA PutNameKeepsNInv ==
  ASSUME NInv, NEW p \in Puts, Names!PutName(p), UNCHANGED vars
  PROVE  NInv'
<1> USE DEF NInv
<1>1. IInv' /\ remote' = remote
  BY RestKeepsIInv
<1>2. /\ made' = made /\ found' = found /\ known' = known
      /\ changed' = changed
      /\ step[p] = "put" /\ made[p] \in FirstRecord /\ p \notin Gets
  BY DagAssumption DEF Names!PutName, RecordInv
<1>3. /\ step' \in [Calls -> StepPlaces]
      /\ \A y \in Calls : y # p => step'[y] = step[y]
      /\ \/ step'[p] = "error" /\ record' = record
         \/ /\ step'[p] \in {"ok", "error"} /\ record' = made[p]
            /\ Names!Newer(made[p], record)
  BY StepFacts DEF Names!PutName, StepPlaces, Calls
<1>4. /\ record' \in MaybeRecord
      /\ record.validity <= record'.validity
      /\ step'[p] = "ok" => record' = made[p]
  BY <1>2, <1>3, OrderFacts DEF RecordInv, MaybeRecord
<1>5. RecordInv'
  BY <1>2, <1>3, <1>4 DEF RecordInv, Calls
<1>6. OrderInv'
  <2>1. /\ record.validity \in Nat /\ record'.validity \in Nat
        /\ \A q \in Puts : made[q].validity \in Nat
        /\ \A g \in Gets : known[g].validity \in Nat
    BY <1>4, OrderFacts DEF RecordInv
  <2>2. \A q \in Puts : step'[q] = "ok" => made[q].validity <= record'.validity
    BY <1>3, <1>4, <2>1 DEF OrderInv, Calls
  <2>3. \A g \in Gets : step'[g] = step[g]
    BY <1>2, <1>3 DEF Calls
  <2> QED
    BY <1>2, <1>4, <2>1, <2>2, <2>3 DEF OrderInv
<1>7. StoredInv'
  BY <1>1, <1>2, <1>3 DEF StoredInv, Stored
<1> QED
  BY <1>1, <1>5, <1>6, <1>7

(* What a lookup knows when it begins is not newer than the record.        *)
LEMMA LookupKeepsNInv ==
  ASSUME NInv, NEW g \in Gets, Names!Lookup(g), UNCHANGED vars
  PROVE  NInv'
<1> USE DEF NInv
<1>1. IInv' /\ remote' = remote
  BY RestKeepsIInv
<1>2. /\ record' = record /\ made' = made /\ found' = found /\ g \notin Puts
      /\ changed' = changed
  BY DagAssumption DEF Names!Lookup
<1>3. PICK place \in {"error", "get"} :
        /\ step' \in [Calls -> StepPlaces]
        /\ \A y \in Calls : step'[y] = IF y = g THEN place ELSE step[y]
  BY StepFacts DEF Names!Lookup, StepPlaces, Calls
<1> DEFINE Known == Names!Acknowledged \cup {Names!NoRecord}
           newest == CHOOSE r \in Known :
                       \A s \in Names!Acknowledged : ~Names!Newer(s, r)
<1>4. Names!Acknowledged \in SUBSET FirstRecord
  BY DEF Names!Acknowledged, RecordInv
<1>5. newest \in Known
  BY <1>4, NewestExists
<1>6. \A r \in Known : r \in MaybeRecord /\ r.validity <= record.validity
  <2>1. record.validity \in Nat
    BY OrderFacts DEF RecordInv
  <2>2. \A r \in Names!Acknowledged : r.validity <= record.validity
    BY DEF Names!Acknowledged, OrderInv
  <2> QED
    BY <1>4, <2>1, <2>2, OrderFacts DEF MaybeRecord
<1>7. /\ known' \in [Gets -> MaybeRecord]
      /\ \A h \in Gets : known'[h] = IF h = g THEN newest ELSE known[h]
  <2>1. known' = [known EXCEPT ![g] = newest]
    BY DEF Names!Lookup
  <2> HIDE DEF newest
  <2> QED
    BY <1>5, <1>6, <2>1 DEF RecordInv
<1> HIDE DEF newest, Known
<1>8. RecordInv'
  BY <1>2, <1>3, <1>7 DEF RecordInv, Calls
<1>9. OrderInv'
  BY <1>2, <1>3, <1>5, <1>6, <1>7 DEF OrderInv, Calls
<1>10. StoredInv'
  BY <1>1, <1>2 DEF StoredInv, Stored
<1> QED
  BY <1>1, <1>8, <1>9, <1>10

LEMMA GetNameKeepsNInv ==
  ASSUME NInv, NEW g \in Gets, Names!GetName(g), UNCHANGED vars
  PROVE  NInv'
<1> USE DEF NInv
<1>1. IInv' /\ remote' = remote
  BY RestKeepsIInv
<1>2. /\ record' = record /\ made' = made /\ known' = known
      /\ step[g] = "get" /\ g \notin Puts
  BY DagAssumption DEF Names!GetName
<1>3. /\ step' \in [Calls -> StepPlaces]
      /\ \A y \in Calls : y # g => step'[y] = step[y]
      /\ \/ /\ step'[g] \in {"error", "panic"} /\ UNCHANGED <<found, changed>>
         \/ /\ step'[g] = "absent" /\ UNCHANGED <<found, changed>>
            /\ record = Names!NoRecord
         \/ /\ step'[g] = "found" /\ record # Names!NoRecord
            /\ \E c \in Nodes :
                 /\ found' = [found EXCEPT ![g] = [record EXCEPT !.cid = c]]
                 /\ changed' = IF c = record.cid THEN changed
                               ELSE changed \cup {g}
  <2> USE StepFacts DEF StepPlaces, Calls
  <2>1. CASE /\ \E place \in Names!Returned(g) : Names!Goto(g, place)
             /\ UNCHANGED <<found, changed>>
    BY <2>1 DEF Names!Returned
  <2>2. CASE /\ record # Names!NoRecord /\ Names!Goto(g, "found")
             /\ \E c \in Nodes :
                  /\ found' = [found EXCEPT ![g] = [record EXCEPT !.cid = c]]
                  /\ changed' = IF c = record.cid THEN changed
                                ELSE changed \cup {g}
    <3>1. /\ step' \in [Calls -> StepPlaces]
          /\ \A y \in Calls : step'[y] = IF y = g THEN "found" ELSE step[y]
      BY <2>2
    <3> QED
      BY <2>2, <3>1, Zenon
  <2>3. CASE Names!Goto(g, "panic") /\ UNCHANGED <<found, changed>>
    BY <2>3
  <2> QED
    BY <2>1, <2>2, <2>3 DEF Names!GetName
<1>4. /\ found' \in [Gets -> MaybeRecord] /\ changed' \subseteq Gets
      /\ \A h \in Gets : h # g =>
           found'[h] = found[h] /\ (h \in changed' <=> h \in changed)
      /\ g \notin changed' => g \notin changed /\ found'[g] \in {record, found[g]}
      /\ step'[g] = "found" => /\ found'[g] \in FirstRecord
                               /\ found'[g].validity = record.validity
  <2>1. CASE UNCHANGED <<found, changed>> /\ step'[g] # "found"
    BY <2>1 DEF RecordInv
  <2>2. CASE step'[g] = "found"
    <3>1. PICK c \in Nodes :
            /\ found' = [found EXCEPT ![g] = [record EXCEPT !.cid = c]]
            /\ changed' = IF c = record.cid THEN changed ELSE changed \cup {g}
      BY <1>3, <2>2
    <3> DEFINE r == [record EXCEPT !.cid = c]
    <3>2. record \in FirstRecord
      BY <1>3, <2>2 DEF RecordInv, MaybeRecord
    <3>3. r \in FirstRecord /\ r.validity = record.validity
      BY <3>2 DEF FirstRecord, Names!Record
    <3>4. c = record.cid => r = record
      BY <3>2 DEF FirstRecord, Names!Record
    <3> HIDE DEF r
    <3>5. /\ found' \in [Gets -> MaybeRecord] /\ found'[g] = r
          /\ \A h \in Gets : h # g => found'[h] = found[h]
      BY <3>1, <3>3 DEF RecordInv, MaybeRecord, r
    <3> QED
      BY <2>2, <3>1, <3>3, <3>4, <3>5 DEF RecordInv
  <2> QED
    BY <1>3, <2>1, <2>2
<1>5. step'[g] = "absent" => known[g] = Names!NoRecord
  <2>1. known[g].validity <= record.validity /\ known[g] \in MaybeRecord
    BY <1>2 DEF OrderInv, RecordInv
  <2> QED
    BY <1>3, <2>1, OrderFacts DEF MaybeRecord
<1>6. RecordInv'
  BY <1>2, <1>3, <1>4 DEF RecordInv, Calls
<1>7. OrderInv'
  BY <1>2, <1>3, <1>4, <1>5 DEF OrderInv, Calls
<1>8. StoredInv'
  BY <1>1, <1>2, <1>4 DEF StoredInv, Stored
<1> QED
  BY <1>1, <1>6, <1>7, <1>8

LEMMA RestartKeepsNInv ==
  ASSUME NInv, RestartBoth
  PROVE  NInv'
<1> USE DEF NInv
<1>1. IInv' /\ remote' = remote
  BY StepKeepsIInv DEF RestartBoth, Next, Restart
<1>2. /\ record' = record /\ made' = made /\ found' = found /\ known' = known
      /\ changed' = changed
      /\ step' = [x \in Calls |-> IF step[x] \in {"put", "get"} THEN "gone"
                                                               ELSE step[x]]
  BY DEF RestartBoth, Names!Restart, Names!Calls, Calls
<1>3. \A x \in Calls : step'[x] = "gone" \/ step'[x] = step[x]
  BY <1>2
<1>4. step' \in [Calls -> StepPlaces]
  <2>1. \A x \in Calls : step'[x] \in StepPlaces
    BY <1>3 DEF RecordInv, StepPlaces
  <2> QED
    BY <1>2, <2>1
<1>5. RecordInv'
  BY <1>2, <1>3, <1>4 DEF RecordInv, Calls
<1>6. OrderInv'
  BY <1>2, <1>3 DEF OrderInv, Calls
<1>7. StoredInv'
  BY <1>1, <1>2 DEF StoredInv, Stored
<1> QED
  BY <1>1, <1>5, <1>6, <1>7

(* What a program does with the DAG store is a step of it.                 *)
LEMMA NamesStepIsStoreStep ==
  ASSUME NInv, [NamesNext]_allVars
  PROVE  [Next]_vars
<1>1. ASSUME NEW g \in Gets, GetNode(g) PROVE \E n \in Nodes : Get(g, n)
  <2>1. step[g] = "found" => found[g].cid \in Nodes
    BY OrderFacts DEF NInv, RecordInv
  <2>2. Foreign \subseteq Nodes
    BY DagAssumption
  <2> QED
    BY <1>1, <2>1, <2>2 DEF GetNode
<1> QED
  BY <1>1 DEF NamesNext, StoreNext, RestartBoth, Next, allVars

LEMMA StepKeepsNInv ==
  ASSUME NInv, [NamesNext]_allVars
  PROVE  NInv'
<1>1. CASE UNCHANGED nameVars
  BY <1>1, NamesStepIsStoreStep, StoreStepKeepsNInv
<1>2. CASE NameStep /\ UNCHANGED vars
  BY <1>2, PublishKeepsNInv, PutNameKeepsNInv, LookupKeepsNInv,
     GetNameKeepsNInv
  DEF NameStep
<1> QED
  BY <1>1, <1>2, RestartKeepsNInv DEF NamesNext, allVars

(* NInv is an invariant of every instance.                                 *)
THEOREM NInvInvariant == NamesSpec => []NInv
BY InitNInv, StepKeepsNInv, PTL DEF NamesSpec

(* A name that resolves to what was published leads to a DAG that          *)
(* Web3.Storage has in full (ipfs/ipfs.go:140-155, 478-544), in every      *)
(* instance.                                                               *)
THEOREM NamesLeadToWholeDags == NamesSpec => []ResolvedIsStored
<1>1. NInv => ResolvedIsStored
  BY DEF NInv, RecordInv, StoredInv, Stored, ResolvedIsStored
<1> QED
  BY <1>1, NInvInvariant, PTL

(* What was published stays, or gives way to a newer record                *)
(* (ipfs/ipfs.go:498-544), in every instance.                              *)
THEOREM PublishedIsKeptOrReplaced == NamesSpec => []NamesInv
<1>1. NInv => Names!TypeOK
  <2> SUFFICES ASSUME NInv PROVE Names!TypeOK
    OBVIOUS
  <2>1. \A r \in MaybeRecord : r \in Names!Record \cup {Names!NoRecord}
    BY DEF MaybeRecord, FirstRecord
  <2>2. step \in [Names!Calls -> StepPlaces]
    BY DEF NInv, RecordInv, Names!Calls, Calls
  <2> QED
    BY <2>1, <2>2 DEF NInv, RecordInv, Names!TypeOK, StepPlaces
<1>2. NInv => Names!PublishedIsKept
  <2> SUFFICES ASSUME NInv, NEW p \in Puts, step[p] = "ok"
               PROVE  ~Names!Newer(made[p], record)
    BY DEF Names!PublishedIsKept, Names!Acknowledged
  <2>1. made[p] \in MaybeRecord /\ record \in MaybeRecord
    BY DEF NInv, RecordInv
  <2>2. made[p].validity <= record.validity
    BY DEF NInv, OrderInv
  <2> QED
    BY <2>1, <2>2, OrderFacts
<1> QED
  BY <1>1, <1>2, NInvInvariant, PTL DEF NamesInv, Names!PublishInv

(* A lookup returns nothing older than what had been published when it     *)
(* began (ipfs/ipfs.go:478-496, w3s/name.go:27-31), in every instance.     *)
THEOREM LookupsAreCurrent == NamesSpec => []LookupIsCurrent
<1>1. NInv => LookupIsCurrent
  <2> SUFFICES ASSUME NInv, NEW g \in Gets
               PROVE  /\ step[g] = "found" => ~Names!Newer(known[g], found[g])
                      /\ step[g] = "absent" => known[g] = Names!NoRecord
    BY DEF LookupIsCurrent, Names!LookupIsCurrent
  <2>1. known[g] \in MaybeRecord /\ found[g] \in MaybeRecord
    BY DEF NInv, RecordInv
  <2> QED
    BY <2>1, OrderFacts DEF NInv, OrderInv
<1> QED
  BY <1>1, NInvInvariant, PTL

(* The store keeps its invariants under names, too                         *)
(* (ipfs/ipfs.go:119-138, 455-476), in every instance.                     *)
THEOREM StoreUnderNames == NamesSpec => [](StoreInv /\ PanicIsForeign)
<1>1. NInv => StoreInv /\ PanicIsForeign
  BY DEF NInv, IInv, RemoteInv, GetInv, StoreInv, PanicIsForeign
<1> QED
  BY <1>1, NInvInvariant, PTL

(* And Put its promise (ipfs/ipfs.go:126-156).                             *)
THEOREM PromiseUnderNames == NamesSpec => ImplementsPinning
<1>1. NamesSpec => Spec
  <2>1. NamesInit => Init
    BY DEF NamesInit
  <2> QED
    BY <2>1, NamesStepIsStoreStep, NInvInvariant, PTL DEF NamesSpec, Spec
<1> QED
  BY <1>1, PutKeepsItsPromise, PTL
=============================================================================

------------------------ MODULE DirectMessagesProofs ------------------------
(***************************************************************************)
(* Proofs that IInv is an inductive invariant of DirectMessages, for any   *)
(* nodes, DIDs, requests and ENS records, and of what follows from it.     *)
(***************************************************************************)
EXTENDS DirectMessages, GoSliceProofs, TLAPS

USE DMAssumption, SliceAssumption
-----------------------------------------------------------------------------
(* IInv holds initially.                                                  *)
LEMMA InitIInv == Init => IInv
<1> SUFFICES ASSUME Init PROVE IInv
  OBVIOUS
<1>1. TypeOK
  BY DEF Init, TypeOK, Senders, Handlers, NilSlice
<1>2. StageInv /\ BoundInv
  BY DEF Init, StageInv, BoundInv
<1>3. ArrayInv /\ PlaceInv
  BY DEF Init, ArrayInv, PlaceInv, Holds
<1>4. HeaderInv /\ TargetInv
  BY DEF Init, HeaderInv, TargetInv, NilSlice
<1> QED
  BY <1>1, <1>2, <1>3, <1>4 DEF IInv

(* The fields of an array name appends.                                    *)
LEMMA FieldValues ==
  ASSUME TypeOK
  PROVE  \A a \in Requests : \A i \in 1..Len(arr[a]), f \in Fields :
           arr[a][i][f] \in Requests \cup {Nil}
<1> SUFFICES ASSUME NEW a \in Requests, NEW i \in 1..Len(arr[a]), NEW f \in Fields
             PROVE  arr[a][i][f] \in Requests \cup {Nil}
  OBVIOUS
<1>1. arr[a] \in Seq([Fields -> Requests \cup {Nil}])
  BY DEF TypeOK
<1>2. arr[a][i] \in [Fields -> Requests \cup {Nil}]
  BY <1>1
<1> QED
  BY <1>2

(* The slices stay well-formed while no append makes a step.               *)
LEMMA SlicesKept ==
  ASSUME IInv, UNCHANGED <<arr, hdr, target, todo>>,
         \A q \in Requests :
           /\ hpc'[q] \in {"store", "done"} <=> hpc[q] \in {"store", "done"}
           /\ hpc'[q] = "store" => hpc[q] = "store"
           /\ Holds(q) => peer'[q] = peer[q]
  PROVE  ArrayInv' /\ HeaderInv' /\ TargetInv' /\ PlaceInv'
<1> USE DEF IInv, Holds
<1>1. \A a \in Requests : \A i \in 1..Len(arr[a]), f \in Fields :
        arr[a][i][f] \in Requests \cup {Nil}
  BY FieldValues
<1>2. ArrayInv'
  BY <1>1 DEF ArrayInv
<1>3. HeaderInv'
  BY DEF HeaderInv, TypeOK
<1>4. TargetInv'
  BY DEF TargetInv
<1>5. PlaceInv'
  BY DEF PlaceInv
<1> QED
  BY <1>2, <1>3, <1>4, <1>5

(* The steps of the sending goroutine.                                     *)
LEMMA SendKeepsIInv ==
  ASSUME IInv, NEW r \in Requests, PutDM(r) \/ SendStep(r)
  PROVE  IInv'
<1> USE DEF IInv, Claim, sendVars, handleVars, histVars, envVars
<1>1. CASE PutDM(r)
  <2> USE <1>1 DEF PutDM
  <2>1. TypeOK'
    BY DEF TypeOK, Senders
  <2>2. StageInv'
    BY DEF StageInv, TypeOK
  <2>3. BoundInv'
    BY DEF BoundInv, StageInv, TypeOK, IsValid
  <2>4. ArrayInv' /\ HeaderInv' /\ TargetInv' /\ PlaceInv'
    BY SlicesKept
  <2> QED
    BY <2>1, <2>2, <2>3, <2>4
<1>2. CASE ResolveRecipient(r)
  <2> USE <1>2 DEF ResolveRecipient, RecipientKey, Usable
  <2>0. ens[to[r]] \in Nodes \cup {NoKey}
    BY DEF TypeOK, StageInv
  <2>1. TypeOK'
    BY <2>0 DEF TypeOK, Senders
  <2>2. StageInv'
    BY DEF StageInv, TypeOK
  <2>3. BoundInv'
    <3>1. hpc[r] = "none" /\ peer[r] = Nil /\ ens[to[r]] \in toBound[r]
      BY DEF StageInv, BoundInv
    <3>2. pc'[r] # "resolve" /\ (peer'[r] = Nil \/ peer'[r] \in toBound[r])
      BY <3>1 DEF TypeOK
    <3>3. \A q \in Requests : q # r => pc'[q] = pc[q] /\ peer'[q] = peer[q]
      BY DEF TypeOK
    <3> QED
      BY <3>1, <3>2, <3>3 DEF BoundInv, IsValid
  <2>4. ArrayInv' /\ HeaderInv' /\ TargetInv' /\ PlaceInv'
    BY SlicesKept DEF StageInv, Holds, TypeOK
  <2> QED
    BY <2>1, <2>2, <2>3, <2>4
<1>3. CASE FindPeer(r)
  <2> USE <1>3 DEF FindPeer
  <2>1. TypeOK'
    BY DEF TypeOK, Senders
  <2>2. StageInv'
    BY DEF StageInv, TypeOK
  <2>3. BoundInv'
    BY DEF BoundInv, TypeOK, IsValid
  <2>4. ArrayInv' /\ HeaderInv' /\ TargetInv' /\ PlaceInv'
    BY SlicesKept
  <2> QED
    BY <2>1, <2>2, <2>3, <2>4
<1>4. CASE OpenStream(r)
  <2> USE <1>4 DEF OpenStream
  <2>0. from[r] \in Nodes
    BY DEF StageInv
  <2>0a. ens[ConfigDid[from[r]]] \in Nodes \cup {NoKey}
    BY <2>0 DEF TypeOK
  <2>0b. claimBound' \in [Requests -> SUBSET (Nodes \cup {NoKey})]
    <3>1. {ens[ConfigDid[from[r]]]} \in SUBSET (Nodes \cup {NoKey})
      BY <2>0a
    <3>2. \/ claimBound' = claimBound
          \/ claimBound' = [claimBound EXCEPT ![r] = {ens[ConfigDid[from[r]]]}]
      OBVIOUS
    <3>3. claimBound \in [Requests -> SUBSET (Nodes \cup {NoKey})]
      BY DEF TypeOK
    <3> QED
      BY ONLY <3>1, <3>2, <3>3
  <2>1. TypeOK'
    BY <2>0b DEF TypeOK, Senders, Handlers
  <2>2. StageInv'
    BY DEF StageInv, TypeOK
  <2>3. BoundInv'
    <3>0. hpc[r] = "none"
      BY DEF StageInv
    <3>1. /\ pc'[r] # "resolve"
          /\ \/ hpc'[r] = "none"
             \/ hpc'[r] = "read" /\ ens[ConfigDid[from[r]]] \in claimBound'[r]
      BY <3>0 DEF TypeOK
    <3>2. \A q \in Requests : q # r =>
            pc'[q] = pc[q] /\ hpc'[q] = hpc[q] /\ claimBound'[q] = claimBound[q]
      BY DEF TypeOK
    <3> QED
      BY <3>0, <3>1, <3>2 DEF BoundInv, IsValid
  <2>4. ArrayInv' /\ HeaderInv' /\ TargetInv' /\ PlaceInv'
    BY SlicesKept DEF StageInv, Holds, TypeOK
  <2> QED
    BY <2>1, <2>2, <2>3, <2>4
<1>5. CASE WriteDM(r)
  <2> USE <1>5 DEF WriteDM
  <2>1. TypeOK'
    BY DEF TypeOK, Senders
  <2>2. StageInv'
    BY DEF StageInv, TypeOK
  <2>3. BoundInv'
    BY DEF BoundInv, TypeOK, IsValid
  <2>4. ArrayInv' /\ HeaderInv' /\ TargetInv' /\ PlaceInv'
    BY SlicesKept
  <2> QED
    BY <2>1, <2>2, <2>3, <2>4
<1> QED
  BY <1>1, <1>2, <1>3, <1>4, <1>5 DEF SendStep

(* The handler's steps up to the check of the sender.                      *)
LEMMA CheckKeepsIInv ==
  ASSUME IInv, NEW r \in Requests, ReadDM(r) \/ ResolveSender(r)
  PROVE  IInv'
<1> USE DEF IInv, Claim, sendVars, handleVars, histVars, envVars
<1>1. CASE ReadDM(r)
  <2> USE <1>1 DEF ReadDM
  <2>1. TypeOK'
    BY DEF TypeOK, Handlers
  <2>2. StageInv'
    BY DEF StageInv, TypeOK
  <2>3. BoundInv'
    BY DEF BoundInv, TypeOK, IsValid
  <2>4. ArrayInv' /\ HeaderInv' /\ TargetInv' /\ PlaceInv'
    BY SlicesKept DEF TypeOK
  <2> QED
    BY <2>1, <2>2, <2>3, <2>4
<1>2. CASE ResolveSender(r)
  <2> USE <1>2 DEF ResolveSender, SenderKeys, SenderMatches, Usable
  <2>1. TypeOK'
    BY DEF TypeOK, Handlers
  <2>2. StageInv'
    BY DEF StageInv, TypeOK
  <2>3. BoundInv'
    BY DEF BoundInv, TypeOK, IsValid
  <2>4. ArrayInv' /\ HeaderInv' /\ TargetInv' /\ PlaceInv'
    BY SlicesKept DEF TypeOK
  <2> QED
    BY <2>1, <2>2, <2>3, <2>4
<1> QED
  BY <1>1, <1>2

(* The steps of the environment that end no process.                       *)
LEMMA WorldKeepsIInv ==
  ASSUME IInv,
         \/ \E d \in EnsDids : Rebind(d)
         \/ \E r \in Requests : LoseStream(r)
         \/ \E n \in Nodes : Start(n)
  PROVE  IInv'
<1> USE DEF IInv, Claim, sendVars, handleVars, histVars, envVars
<1>1. ASSUME NEW d \in EnsDids, Rebind(d) PROVE IInv'
  <2> USE <1>1 DEF Rebind
  <2>1. TypeOK'
    BY DEF TypeOK
  <2>2. StageInv'
    BY DEF StageInv, TypeOK
  <2>3. BoundInv'
    BY DEF BoundInv, StageInv, TypeOK, IsValid
  <2>4. ArrayInv' /\ HeaderInv' /\ TargetInv' /\ PlaceInv'
    BY SlicesKept
  <2> QED
    BY <2>1, <2>2, <2>3, <2>4
<1>2. ASSUME NEW r \in Requests, LoseStream(r) PROVE IInv'
  <2> USE <1>2 DEF LoseStream
  <2>1. TypeOK'
    BY DEF TypeOK
  <2>2. StageInv' /\ BoundInv'
    BY DEF StageInv, BoundInv, IsValid
  <2>3. ArrayInv' /\ HeaderInv' /\ TargetInv' /\ PlaceInv'
    BY SlicesKept
  <2> QED
    BY <2>1, <2>2, <2>3
<1>3. ASSUME NEW n \in Nodes, Start(n) PROVE IInv'
  <2> USE <1>3 DEF Start
  <2>1. TypeOK'
    BY DEF TypeOK
  <2>2. StageInv' /\ BoundInv'
    BY DEF StageInv, BoundInv, IsValid
  <2>3. ArrayInv' /\ HeaderInv' /\ TargetInv' /\ PlaceInv'
    BY SlicesKept
  <2> QED
    BY <2>1, <2>2, <2>3
<1> QED
  BY <1>1, <1>2, <1>3

(* append makes room: the new array belongs to r, holds copies of elements *)
(* of an array of the same node, and nothing else names it yet.            *)
LEMMA LoadKeepsIInv ==
  ASSUME IInv, NEW r \in Requests, AppendLoad(r)
  PROVE  IInv'
<1> USE DEF IInv
<1> DEFINE n == peer[r]
           h == hdr[n]
           HoldsNext(q) == hpc'[q] \in {"store", "done"}
<1>1. /\ n \in Nodes /\ ~Holds(r) /\ arr[r] = <<>>
      /\ h \in [arr : Requests \cup {Nil}, len : Nat]
      /\ h.len <= Len(arr[h.arr])
      /\ h.arr # Nil => h.arr # r /\ Holds(h.arr) /\ peer[h.arr] = n
  BY DEF AppendLoad, StageInv, ArrayInv, HeaderInv, Holds, TypeOK
<1>2. /\ arr' = WithRoom(arr, h, r)
      /\ target' = [target EXCEPT ![r] = NextHeader(arr, h, r)]
      /\ hpc' = [hpc EXCEPT ![r] = "store"]
      /\ todo' = [todo EXCEPT ![r] = Stores]
      /\ hdr' = hdr /\ UNCHANGED sendVars /\ UNCHANGED histVars
      /\ UNCHANGED envVars /\ wire' = wire
  BY DEF AppendLoad
<1>3. /\ arr' \in [Requests \cup {Nil} -> Seq([Fields -> Requests \cup {Nil}])]
      /\ \A a \in Requests \cup {Nil} : a # r => arr'[a] = arr[a]
      /\ \/ arr'[r] = <<>>
         \/ \A i \in 1..Len(arr'[r]) :
              arr'[r][i] = IF i <= h.len THEN arr[h.arr][i] ELSE Zero
      /\ NextHeader(arr, h, r) \in [arr : Requests, len : Nat]
      /\ NextHeader(arr, h, r).arr \in {r, h.arr}
      /\ NextHeader(arr, h, r).len \in 1..Len(arr'[NextHeader(arr, h, r).arr])
  <2>1. arr \in [Requests \cup {Nil} -> Seq([Fields -> Requests \cup {Nil}])] /\ arr[Nil] = <<>>
    BY DEF TypeOK, ArrayInv
  <2> QED
    <3> DEFINE V == [Fields -> Requests \cup {Nil}]
    <3>0. Zero \in V
      BY DEF Zero
    <3>1. SliceFits(Requests \cup {Nil}, V, arr, h, r)
      BY <1>1, <2>1, <3>0 DEF SliceFits
    <3>2. RoomMade(Requests \cup {Nil}, V, arr, h, r)
      BY <3>1, RoomFacts
    <3> HIDE DEF n, h
    <3> QED
      BY <1>1, <1>2, <3>2 DEF RoomMade
<1>4. \A q \in Requests :
        /\ q # r => hpc'[q] = hpc[q] /\ todo'[q] = todo[q] /\ target'[q] = target[q]
        /\ Holds(q) => HoldsNext(q) /\ q # r
        /\ peer'[q] = peer[q]
  BY <1>1, <1>2 DEF Holds, TypeOK, sendVars
<1>5. hpc'[r] = "store" /\ HoldsNext(r) /\ target'[r] = NextHeader(arr, h, r)
  BY <1>2 DEF Holds, TypeOK
<1> HIDE DEF n, h, HoldsNext
<1>6. TypeOK'
  <2>1. clashed' \subseteq Requests
    BY DEF AppendLoad, TypeOK, Appending
  <2>2. target' \in [Requests -> [arr : Requests \cup {Nil}, len : Nat]]
    BY <1>2, <1>3 DEF TypeOK
  <2>3. todo' \in [Requests -> SUBSET Stores]
    BY <1>2 DEF TypeOK
  <2> QED
    BY <1>2, <1>3, <2>1, <2>2, <2>3
    DEF TypeOK, Handlers, sendVars, histVars, envVars
<1>7. StageInv' /\ BoundInv'
  <2>1. hpc[r] = "accept"
    BY DEF AppendLoad
  <2>2. StageInv'
    BY <1>2, <1>4, <1>5, <2>1 DEF StageInv, sendVars, envVars
  <2>3. BoundInv'
    BY <1>2, <1>4, <1>5, <2>1
    DEF BoundInv, Claim, IsValid, sendVars, histVars, envVars
  <2> QED
    BY <2>2, <2>3
<1>8. \A i \in 1..Len(arr'[r]), f \in Fields : arr'[r][i][f] # Nil =>
        /\ arr'[r][i][f] = arr[h.arr][i][f]
        /\ h.arr \in Requests /\ i \in 1..Len(arr[h.arr])
  <2> SUFFICES ASSUME NEW i \in 1..Len(arr'[r]), NEW f \in Fields,
                      arr'[r][i][f] # Nil
               PROVE  /\ arr'[r][i][f] = arr[h.arr][i][f]
                      /\ h.arr \in Requests /\ i \in 1..Len(arr[h.arr])
    OBVIOUS
  <2>1. i <= h.len /\ arr'[r][i] = arr[h.arr][i]
    BY <1>3 DEF Zero
  <2>2. i \in 1..Len(arr[h.arr])
    BY <1>1, <2>1 DEF TypeOK
  <2>3. h.arr # Nil
    BY <2>2 DEF ArrayInv
  <2> QED
    BY <1>1, <2>1, <2>2, <2>3
<1>9. ArrayInv'
  <2>1. arr'[Nil] = <<>>
    BY <1>3 DEF ArrayInv
  <2>2. ASSUME NEW a \in Requests, a # r
        PROVE  /\ ~HoldsNext(a) => arr'[a] = <<>>
               /\ \A i \in 1..Len(arr'[a]), f \in Fields : arr'[a][i][f] # Nil =>
                    /\ HoldsNext(arr'[a][i][f])
                    /\ f \notin todo'[arr'[a][i][f]]
                    /\ peer'[arr'[a][i][f]] = peer'[a]
    <3>1. \A i \in 1..Len(arr[a]), f \in Fields :
            arr[a][i][f] \in Requests \cup {Nil}
      BY FieldValues
    <3>2. arr'[a] = arr[a]
      BY <1>3, <2>2
    <3>3. ~HoldsNext(a) => arr'[a] = <<>>
      BY <1>4, <3>2 DEF ArrayInv
    <3>4. ASSUME NEW i \in 1..Len(arr[a]), NEW f \in Fields, arr[a][i][f] # Nil
          PROVE  /\ HoldsNext(arr[a][i][f])
                 /\ f \notin todo'[arr[a][i][f]]
                 /\ peer'[arr[a][i][f]] = peer'[a]
      <4>1. /\ arr[a][i][f] \in Requests /\ Holds(arr[a][i][f])
            /\ f \notin todo[arr[a][i][f]]
            /\ peer[arr[a][i][f]] = peer[a]
        BY <3>1, <3>4 DEF ArrayInv
      <4> QED
        BY <1>4, <4>1
    <3> QED
      BY <3>2, <3>3, <3>4
  <2>3. \A i \in 1..Len(arr'[r]), f \in Fields : arr'[r][i][f] # Nil =>
          /\ HoldsNext(arr'[r][i][f])
          /\ f \notin todo'[arr'[r][i][f]]
          /\ peer'[arr'[r][i][f]] = peer'[r]
    <3> SUFFICES ASSUME NEW i \in 1..Len(arr'[r]), NEW f \in Fields,
                        arr'[r][i][f] # Nil
                 PROVE  /\ HoldsNext(arr'[r][i][f])
                        /\ f \notin todo'[arr'[r][i][f]]
                        /\ peer'[arr'[r][i][f]] = peer'[r]
      OBVIOUS
    <3>1. arr[h.arr][i][f] \in Requests \cup {Nil}
      BY <1>8, FieldValues
    <3>2. /\ Holds(arr[h.arr][i][f])
          /\ f \notin todo[arr[h.arr][i][f]]
          /\ peer[arr[h.arr][i][f]] = peer[h.arr]
      BY <1>8 DEF ArrayInv
    <3>3. peer[h.arr] = peer[r]
      BY <1>1, <1>8 DEF n
    <3> QED
      BY <1>4, <1>8, <3>1, <3>2, <3>3
  <2> QED
    BY <1>5, <2>1, <2>2, <2>3 DEF ArrayInv, Holds, HoldsNext
<1>10. HeaderInv'
  <2>1. \A m \in Nodes : hdr[m].arr \in Requests \cup {Nil} /\ hdr[m].arr # r
    BY <1>1 DEF HeaderInv, TypeOK
  <2> QED
    <3>1. \A m \in Nodes : arr'[hdr[m].arr] = arr[hdr[m].arr]
      BY <1>3, <2>1
    <3>2. \A m \in Nodes : hdr[m].arr # Nil =>
            peer'[hdr[m].arr] = m /\ HoldsNext(hdr[m].arr)
      BY <1>4, <2>1 DEF HeaderInv
    <3> QED
      BY <1>2, <3>1, <3>2 DEF HeaderInv, Holds, HoldsNext
<1>11. TargetInv'
  <2>1. ASSUME NEW q \in Requests, q # r, hpc'[q] = "store"
        PROVE  /\ target'[q].arr \in Requests
               /\ peer'[target'[q].arr] = peer'[q] /\ HoldsNext(target'[q].arr)
               /\ target'[q].len \in 1..Len(arr'[target'[q].arr])
    <3>1. /\ target[q].arr \in Requests
          /\ peer[target[q].arr] = peer[q] /\ Holds(target[q].arr)
          /\ target[q].len \in 1..Len(arr[target[q].arr])
      BY <1>4, <2>1 DEF TargetInv
    <3>2. target[q].arr # r
      BY <1>1, <3>1
    <3> QED
      BY <1>3, <1>4, <2>1, <3>1, <3>2
  <2>2. /\ target'[r].arr \in Requests
        /\ peer'[target'[r].arr] = peer'[r] /\ HoldsNext(target'[r].arr)
        /\ target'[r].len \in 1..Len(arr'[target'[r].arr])
    BY <1>1, <1>3, <1>4, <1>5 DEF n
  <2> QED
    BY <2>1, <2>2 DEF TargetInv, Holds, HoldsNext
<1>12. PlaceInv'
  <2>1. ASSUME NEW a \in Requests, a # r,
               NEW i \in 1..Len(arr'[a]), NEW f \in Fields, arr'[a][i][f] # Nil
        PROVE  i = target'[arr'[a][i][f]].len
    <3>1. arr'[a] = arr[a] /\ i \in 1..Len(arr[a])
      BY <1>3, <2>1
    <3>2. /\ arr[a][i][f] \in Requests /\ Holds(arr[a][i][f])
          /\ i = target[arr[a][i][f]].len
      BY <2>1, <3>1, FieldValues DEF ArrayInv, PlaceInv
    <3> QED
      BY <1>4, <3>1, <3>2
  <2>2. ASSUME NEW i \in 1..Len(arr'[r]), NEW f \in Fields, arr'[r][i][f] # Nil
        PROVE  i = target'[arr'[r][i][f]].len
    <3>1. /\ arr'[r][i][f] = arr[h.arr][i][f]
          /\ h.arr \in Requests /\ i \in 1..Len(arr[h.arr])
      BY <1>8, <2>2
    <3>2. /\ arr[h.arr][i][f] \in Requests /\ Holds(arr[h.arr][i][f])
          /\ i = target[arr[h.arr][i][f]].len
      BY <2>2, <3>1, FieldValues DEF ArrayInv, PlaceInv
    <3> QED
      BY <1>4, <3>1, <3>2
  <2> QED
    BY <2>1, <2>2 DEF PlaceInv
<1> QED
  BY <1>6, <1>7, <1>9, <1>10, <1>11, <1>12

(* Storing the header publishes an array of the same node.                 *)
LEMMA HeaderKeepsIInv ==
  ASSUME IInv, NEW r \in Requests, AppendHeader(r)
  PROVE  IInv'
<1> USE DEF IInv
<1>1. /\ hpc[r] = "store" /\ peer[r] \in Nodes
      /\ hdr' = [hdr EXCEPT ![peer[r]] = target[r]]
      /\ arr' = arr /\ target' = target /\ peer' = peer
      /\ target[r].arr \in Requests /\ peer[target[r].arr] = peer[r]
      /\ Holds(target[r].arr)
      /\ target[r].len \in 1..Len(arr[target[r].arr])
  BY DEF AppendHeader, sendVars, StageInv, TargetInv
<1>2. \A q \in Requests :
        /\ hpc'[q] \in {"store", "done"} <=> hpc[q] \in {"store", "done"}
        /\ hpc'[q] = "store" => hpc[q] = "store"
        /\ \A f \in Fields : f \notin todo[q] => f \notin todo'[q]
        /\ q # r => hpc'[q] = hpc[q]
  BY <1>1 DEF AppendHeader, Stored, TypeOK
<1>3. TypeOK'
  BY DEF AppendHeader, Stored, TypeOK, Handlers, sendVars, histVars, envVars
<1>4. StageInv'
  BY <1>1, <1>2 DEF AppendHeader, StageInv, sendVars
<1>5. BoundInv'
  BY <1>1, <1>2
  DEF AppendHeader, BoundInv, Claim, IsValid, sendVars, histVars, envVars
<1>6. ArrayInv'
  <2>1. \A a \in Requests : \A i \in 1..Len(arr[a]), f \in Fields :
          arr[a][i][f] \in Requests \cup {Nil}
    BY FieldValues
  <2> QED
    BY <1>1, <1>2, <2>1 DEF ArrayInv, Holds
<1>7. HeaderInv'
  <2>1. \A m \in Nodes : hdr[m].arr \in Requests \cup {Nil}
    BY DEF TypeOK
  <2>2. \A m \in Nodes : hdr'[m] = IF m = peer[r] THEN target[r] ELSE hdr[m]
    BY <1>1 DEF TypeOK
  <2>3. target[r].len <= Len(arr[target[r].arr])
    BY <1>1
  <2> QED
    BY <1>1, <1>2, <2>1, <2>2, <2>3 DEF HeaderInv, Holds
<1>8. TargetInv'
  BY <1>1, <1>2 DEF TargetInv, Holds
<1>9. PlaceInv'
  BY <1>1 DEF PlaceInv
<1> QED
  BY <1>3, <1>4, <1>5, <1>6, <1>7, <1>8, <1>9

(* Storing a field: every array has the fields of r at this place.         *)
LEMMA FieldKeepsIInv ==
  ASSUME IInv, NEW r \in Requests, AppendField(r)
  PROVE  IInv'
<1> USE DEF IInv
<1> DEFINE t == target[r].arr
           k == target[r].len
           N == Requests \cup {Nil}
<1>0. PICK f \in Fields :
        /\ f \in todo[r]
        /\ arr' = [arr EXCEPT ![t][k][f] = r]
        /\ Stored(r, f)
  BY DEF AppendField
<1>1. /\ hpc[r] = "store"
      /\ hdr' = hdr /\ target' = target /\ peer' = peer
      /\ t \in Requests /\ peer[t] = peer[r] /\ Holds(t)
      /\ k \in 1..Len(arr[t])
  BY DEF AppendField, sendVars, TargetInv
<1>2. \A q \in Requests :
        /\ hpc'[q] \in {"store", "done"} <=> hpc[q] \in {"store", "done"}
        /\ hpc'[q] = "store" => hpc[q] = "store"
        /\ \A g \in Fields : g \notin todo[q] => g \notin todo'[q]
        /\ q # r => hpc'[q] = hpc[q]
  BY <1>0, <1>1 DEF Stored, TypeOK
<1>3. f \notin todo'[r] /\ hpc'[r] \in {"store", "done"}
  BY <1>0 DEF Stored, TypeOK
<1> HIDE DEF t, k
<1>4. FieldStored(N, N, arr, arr', t, k, f, r)
  <2>1. /\ arr \in [N -> Seq([Fields -> N])]
        /\ t \in N /\ k \in 1..Len(arr[t]) /\ r \in N
    BY <1>1 DEF TypeOK
  <2> HIDE DEF N
  <2> QED
    BY <1>0, <2>1, StoreFacts
<1>5. /\ arr' \in [N -> Seq([Fields -> N])]
      /\ \A a \in N : Len(arr'[a]) = Len(arr[a])
  BY <1>4 DEF FieldStored
<1>6. \A a \in N : \A i \in 1..Len(arr[a]), g \in Fields :
        \/ arr'[a][i][g] = arr[a][i][g]
        \/ a = t /\ i = k /\ g = f /\ arr'[a][i][g] = r
  BY <1>4 DEF FieldStored
<1>7. TypeOK'
  <2>1. /\ hpc' \in [Requests -> Handlers]
        /\ todo' \in [Requests -> SUBSET Stores]
    BY <1>0 DEF Stored, TypeOK, Handlers
  <2> QED
    BY <1>5, <2>1 DEF AppendField, TypeOK, sendVars, histVars, envVars
<1>8. StageInv'
  BY <1>1, <1>2 DEF AppendField, StageInv, sendVars
<1>9. BoundInv'
  BY <1>1, <1>2
  DEF AppendField, BoundInv, Claim, IsValid, sendVars, histVars, envVars
<1>10. ArrayInv'
  <2>1. arr'[Nil] = <<>>
    BY <1>1, <1>4 DEF ArrayInv, FieldStored
  <2>2. \A a \in Requests : hpc'[a] \notin {"store", "done"} => arr'[a] = <<>>
    <3> SUFFICES ASSUME NEW a \in Requests, hpc'[a] \notin {"store", "done"}
                 PROVE  arr'[a] = <<>>
      OBVIOUS
    <3>1. ~Holds(a)
      BY <1>2 DEF Holds
    <3>2. a # t /\ a \in N
      BY <1>1, <3>1
    <3> QED
      BY <1>4, <3>1, <3>2 DEF ArrayInv, FieldStored
  <2>3. ASSUME NEW a \in Requests, NEW i \in 1..Len(arr[a]), NEW g \in Fields,
               arr'[a][i][g] # Nil
        PROVE  /\ hpc'[arr'[a][i][g]] \in {"store", "done"}
               /\ g \notin todo'[arr'[a][i][g]]
               /\ peer[arr'[a][i][g]] = peer[a]
    <3>1. CASE a = t /\ i = k /\ g = f /\ arr'[a][i][g] = r
      BY <1>1, <1>3, <3>1
    <3>2. CASE arr'[a][i][g] = arr[a][i][g]
      <4>1. arr[a][i][g] \in Requests
        BY <2>3, <3>2, FieldValues
      <4>2. /\ hpc[arr[a][i][g]] \in {"store", "done"}
            /\ g \notin todo[arr[a][i][g]]
            /\ peer[arr[a][i][g]] = peer[a]
        BY <2>3, <3>2 DEF ArrayInv, Holds
      <4> QED
        BY <1>2, <3>2, <4>1, <4>2
    <3> QED
      BY <1>6, <3>1, <3>2
  <2>4. peer' = peer /\ \A a \in Requests : Len(arr'[a]) = Len(arr[a])
    BY <1>1, <1>5
  <2> HIDE DEF N
  <2> QED
    BY ONLY <2>1, <2>2, <2>3, <2>4 DEF ArrayInv, Holds
<1>11. HeaderInv'
  <2>1. \A m \in Nodes : hdr[m].arr \in Requests \cup {Nil}
    BY DEF TypeOK
  <2> QED
    BY <1>1, <1>2, <1>5, <2>1 DEF HeaderInv, Holds
<1>12. TargetInv'
  BY <1>1, <1>2, <1>5 DEF TargetInv, Holds
<1>13. PlaceInv'
  <2>1. ASSUME NEW a \in Requests, NEW i \in 1..Len(arr[a]), NEW g \in Fields,
               arr'[a][i][g] # Nil
        PROVE  i = target[arr'[a][i][g]].len
    <3>1. \/ arr'[a][i][g] = arr[a][i][g]
          \/ i = k /\ arr'[a][i][g] = r
      BY <1>6
    <3> QED
      BY <2>1, <3>1 DEF PlaceInv, k
  <2>2. target' = target /\ \A a \in Requests : Len(arr'[a]) = Len(arr[a])
    BY <1>1, <1>5
  <2> QED
    BY ONLY <2>1, <2>2 DEF PlaceInv
<1> QED
  BY <1>7, <1>8, <1>9, <1>10, <1>11, <1>12, <1>13

(* A process that ends takes all its arrays and its header with it.        *)
LEMMA StopKeepsIInv ==
  ASSUME IInv, NEW n \in Nodes, Stop(n)
  PROVE  IInv'
<1> USE DEF IInv
<1>1. /\ UNCHANGED <<from, to, peer, target, todo, toBound, claimBound, ens>>
      /\ \A q \in Requests :
           /\ peer[q] = n => hpc'[q] \in {"none", "dropped", "lost"}
           /\ peer[q] # n => hpc'[q] = hpc[q]
           /\ hpc[q] = "none" <=> hpc'[q] = "none"
           /\ pc'[q] = pc[q] \/ (pc'[q] = "gone" /\ from[q] = n)
  <2>1. \A q \in Requests :
          hpc'[q] = IF peer[q] # n \/ hpc[q] \in {"none", "dropped", "lost"}
                    THEN hpc[q]
                    ELSE IF hpc[q] = "done" THEN "lost" ELSE "dropped"
    BY DEF Stop
  <2>2. \A q \in Requests : pc'[q] = pc[q] \/ (pc'[q] = "gone" /\ from[q] = n)
    BY DEF Stop
  <2>3. UNCHANGED <<from, to, peer, target, todo, toBound, claimBound, ens>>
    BY DEF Stop, histVars
  <2> QED
    BY <2>1, <2>2, <2>3
<1>2. \A a \in Requests :
        arr'[a] = IF peer[a] = n THEN <<>> ELSE arr[a]
  BY DEF Stop, TypeOK
<1>3. arr'[Nil] = arr[Nil]
  BY DEF Stop, TypeOK
<1>4. \A m \in Nodes : hdr'[m] = IF m = n THEN NilSlice ELSE hdr[m]
  BY DEF Stop, TypeOK
<1>5. TypeOK'
  <2>1. arr' \in [Requests \cup {Nil} -> Seq([Fields -> Requests \cup {Nil}])]
    BY DEF Stop, TypeOK
  <2>2. hdr' \in [Nodes -> [arr : Requests \cup {Nil}, len : Nat]]
    BY DEF Stop, TypeOK, NilSlice
  <2>3. pc' \in [Requests -> Senders] /\ hpc' \in [Requests -> Handlers]
    BY DEF Stop, TypeOK, Senders, Handlers
  <2> QED
    BY <2>1, <2>2, <2>3 DEF Stop, TypeOK, histVars
<1>6. StageInv'
  BY <1>1 DEF StageInv
<1>7. BoundInv'
  BY <1>1 DEF BoundInv, Claim, IsValid, StageInv
<1>8. \A a \in Requests : \A i \in 1..Len(arr[a]), f \in Fields :
        arr[a][i][f] \in Requests \cup {Nil}
  BY FieldValues
<1>9. ArrayInv'
  BY <1>1, <1>2, <1>3, <1>8 DEF ArrayInv, Holds
<1>10. HeaderInv'
  <2>1. \A m \in Nodes : hdr[m].arr \in Requests \cup {Nil}
    BY DEF TypeOK
  <2>2. NilSlice.arr = Nil /\ NilSlice.len = 0 /\ Len(arr'[Nil]) = 0
    BY <1>3 DEF NilSlice, ArrayInv
  <2> QED
    BY <1>1, <1>2, <1>3, <1>4, <2>1, <2>2 DEF HeaderInv, Holds
<1>11. TargetInv'
  BY <1>1, <1>2 DEF TargetInv, Holds, StageInv
<1>12. PlaceInv'
  BY <1>1, <1>2 DEF PlaceInv
<1> QED
  BY <1>5, <1>6, <1>7, <1>9, <1>10, <1>11, <1>12
-----------------------------------------------------------------------------
(* IInv is an invariant of every instance of the system.                   *)
THEOREM IInvInvariant == Spec => []IInv
<1>1. IInv /\ [Next]_vars => IInv'
  <2> SUFFICES ASSUME IInv, [Next]_vars PROVE IInv'
    OBVIOUS
  <2>1. ASSUME NEW r \in Requests, PutDM(r) \/ SendStep(r) PROVE IInv'
    BY <2>1, SendKeepsIInv
  <2>2. ASSUME NEW r \in Requests, HandleStep(r) PROVE IInv'
    BY <2>2, CheckKeepsIInv, LoadKeepsIInv, HeaderKeepsIInv, FieldKeepsIInv
    DEF HandleStep
  <2>3. ASSUME Environment PROVE IInv'
    BY <2>3, WorldKeepsIInv, StopKeepsIInv DEF Environment
  <2>4. CASE UNCHANGED vars
    BY <2>4
    DEF vars, sendVars, handleVars, histVars, envVars, IInv, TypeOK, StageInv,
        BoundInv, ArrayInv, HeaderInv, TargetInv, PlaceInv, Holds, Claim, IsValid
  <2> QED
    BY <2>1, <2>2, <2>3, <2>4 DEF Next
<1> QED
  BY <1>1, InitIInv, PTL DEF Spec

(* Every field a node shows is of a DM that its handler has accepted there.*)
LEMMA ShownWasAccepted ==
  ASSUME IInv, NEW n \in Nodes, NEW i \in 1..hdr[n].len, NEW f \in Fields,
         arr[hdr[n].arr][i][f] # Nil
  PROVE  LET r == arr[hdr[n].arr][i][f]
         IN /\ hdr[n].arr \in Requests
            /\ i \in 1..Len(arr[hdr[n].arr])
            /\ r \in Requests /\ Holds(r) /\ peer[r] = n
<1>1. hdr[n].arr \in Requests \cup {Nil} /\ hdr[n].len \in Nat
  BY DEF IInv, TypeOK
<1>2. arr[hdr[n].arr] \in Seq([Fields -> Requests \cup {Nil}])
  BY <1>1 DEF IInv, TypeOK
<1>3. i \in 1..Len(arr[hdr[n].arr])
  BY <1>1, <1>2 DEF IInv, HeaderInv
<1>4. hdr[n].arr # Nil
  BY <1>3 DEF IInv, ArrayInv
<1>5. arr[hdr[n].arr][i] \in [Fields -> Requests \cup {Nil}]
  BY <1>2, <1>3
<1>6. arr[hdr[n].arr][i][f] \in Requests
  BY <1>5
<1> QED
  BY <1>1, <1>3, <1>4, <1>6 DEF IInv, ArrayInv, HeaderInv

(* The requests that a node shows a field of are its own.                  *)
LEMMA ShownAtNode ==
  ASSUME IInv, NEW n \in Nodes, NEW r \in ShownAt(n)
  PROVE  r \in Requests /\ Holds(r) /\ peer[r] = n
<1>1. PICK i \in 1..hdr[n].len, f \in Fields : r = arr[hdr[n].arr][i][f] /\ r # Nil
  BY DEF ShownAt, Inbox, Visible
<1> QED
  BY <1>1, ShownWasAccepted

(* A field that GET /DM shows is of a DM from the peer its DID named while *)
(* the handler ran (p2p/p2p.go:51-68), in every instance.                  *)
THEOREM MailIsAuthentic == Spec => []Authentic
<1>1. IInv => Authentic
  BY ShownAtNode DEF Authentic, IInv, BoundInv, Holds
<1> QED
  BY <1>1, IInvInvariant, PTL

(* A DM is shown only where the DID it was sent to pointed while SendDM    *)
(* resolved it (p2p/p2p.go:87-92, 114), in every instance.                 *)
THEOREM MailIsForRecipient == Spec => []RightRecipient
<1>1. IInv => RightRecipient
  BY ShownAtNode DEF RightRecipient, IInv, BoundInv
<1> QED
  BY <1>1, IInvInvariant, PTL

(* No DM is shown in two entries, whole or in part, whatever appends race  *)
(* (p2p/p2p.go:71), in every instance.                                     *)
THEOREM MailIsShownOnce == Spec => []AtMostOnce
<1>1. IInv => AtMostOnce
  <2> SUFFICES ASSUME IInv, NEW n \in Nodes, NEW m \in Nodes,
                      NEW i \in 1..hdr[n].len, NEW j \in 1..hdr[m].len,
                      NEW f \in Fields, NEW g \in Fields,
                      arr[hdr[n].arr][i][f] # Nil,
                      arr[hdr[n].arr][i][f] = arr[hdr[m].arr][j][g]
               PROVE  n = m /\ i = j
    BY DEF AtMostOnce
  <2>1. n = m
    BY ShownWasAccepted
  <2>2. /\ hdr[n].arr \in Requests /\ hdr[m].arr \in Requests
        /\ i \in 1..Len(arr[hdr[n].arr]) /\ j \in 1..Len(arr[hdr[m].arr])
    BY ShownWasAccepted
  <2>3. /\ i = target[arr[hdr[n].arr][i][f]].len
        /\ j = target[arr[hdr[m].arr][j][g]].len
    BY <2>2 DEF IInv, PlaceInv
  <2> QED
    BY <2>1, <2>3
<1> QED
  BY <1>1, IInvInvariant, PTL
-----------------------------------------------------------------------------
(* The appends that one node completes.                                    *)

(* The handlers of node n that have returned after their append.           *)
Done(n) == {r \in Requests : hpc[r] = "done" /\ peer[r] = n}

(* The appends of one node and the slice they extend.                      *)
ListingAt(n) ==
  Listing(Requests, arr, hdr[n], target, todo, Appending(n), Done(n), clashed)

(* What LossNeedsOverlap rests on: the element of an append that overlaps  *)
(* no other stays where it was stored (p2p/p2p.go:71).                     *)
LossInv == \A n \in Nodes : ListingAt(n)

(* The slices of a node lie within its arrays.                             *)
LEMMA NodeFits ==
  ASSUME IInv, NEW n \in Nodes
  PROVE  ListFits(Requests, arr, hdr[n], target, todo, Appending(n), Done(n))
<1>1. /\ arr \in [Requests \cup {Nil} -> Seq([Fields -> Requests \cup {Nil}])]
      /\ hdr[n] \in [arr : Requests \cup {Nil}, len : Nat]
      /\ target \in [Requests -> [arr : Requests \cup {Nil}, len : Nat]]
      /\ todo \in [Requests -> SUBSET Stores]
  BY DEF IInv, TypeOK
<1>2. arr[Nil] = <<>> /\ hdr[n].len <= Len(arr[hdr[n].arr])
  BY DEF IInv, ArrayInv, HeaderInv
<1>3. \A q \in Appending(n) : /\ target[q].arr \in Requests
                              /\ target[q].len \in 1..Len(arr[target[q].arr])
  BY DEF IInv, TargetInv, Appending
<1>4. Appending(n) \subseteq Requests /\ Done(n) \subseteq Requests
  BY DEF Appending, Done
<1> QED
  BY <1>1, <1>2, <1>3, <1>4 DEF ListFits

(* A node whose slice and appends a step leaves alone keeps its part.      *)
LEMMA NodeKept ==
  ASSUME NEW m \in Nodes, ListingAt(m),
         hdr'[m] = hdr[m], arr'[hdr[m].arr] = arr[hdr[m].arr],
         \A q \in Requests :
           /\ hpc'[q] = "store" /\ peer'[q] = m <=> hpc[q] = "store" /\ peer[q] = m
           /\ hpc'[q] = "done" /\ peer'[q] = m <=> hpc[q] = "done" /\ peer[q] = m,
         \A q \in Appending(m) :
           arr'[target[q].arr] = arr[target[q].arr] /\ todo'[q] = todo[q],
         \A q \in Appending(m) \cup Done(m) :
           target'[q] = target[q] /\ (q \in clashed' <=> q \in clashed)
  PROVE  ListingAt(m)'
<1>1. Appending(m)' = Appending(m)
  BY DEF Appending
<1>2. Done(m)' = Done(m)
  BY DEF Done
<1>3. Listing(Requests, arr', hdr[m], target', todo', Appending(m), Done(m), clashed')
  BY ListingSame DEF ListingAt
<1> QED
  BY <1>1, <1>2, <1>3 DEF ListingAt

(* The slices of the other nodes are in arrays of their own.               *)
LEMMA OtherArrays ==
  ASSUME IInv, NEW m \in Nodes
  PROVE  /\ hdr[m].arr \in Requests \cup {Nil}
         /\ hdr[m].arr = Nil \/ (peer[hdr[m].arr] = m /\ Holds(hdr[m].arr))
         /\ \A q \in Appending(m) :
              /\ target[q].arr \in Requests
              /\ peer[target[q].arr] = m /\ Holds(target[q].arr)
BY DEF IInv, TypeOK, HeaderInv, TargetInv, Appending

(* No append makes a step.                                                 *)
LEMMA NothingAppended ==
  ASSUME LossInv, UNCHANGED <<arr, hdr, target, todo, clashed>>,
         \A q \in Requests :
           /\ hpc'[q] = "store" <=> hpc[q] = "store"
           /\ hpc'[q] = "done" <=> hpc[q] = "done"
           /\ hpc[q] \in {"store", "done"} => peer'[q] = peer[q]
  PROVE  LossInv'
<1>1. ASSUME NEW m \in Nodes PROVE ListingAt(m)'
  <2>1. ListingAt(m)
    BY DEF LossInv
  <2>2. \A q \in Requests :
          /\ hpc'[q] = "store" /\ peer'[q] = m <=> hpc[q] = "store" /\ peer[q] = m
          /\ hpc'[q] = "done" /\ peer'[q] = m <=> hpc[q] = "done" /\ peer[q] = m
    OBVIOUS
  <2> QED
    BY <2>1, <2>2, NodeKept
<1> QED
  BY <1>1 DEF LossInv

(* The steps outside append.                                               *)
LEMMA OthersKeepLossInv ==
  ASSUME IInv, LossInv,
         \/ \E r \in Requests : PutDM(r) \/ SendStep(r)
         \/ \E r \in Requests : ReadDM(r) \/ ResolveSender(r)
         \/ \E d \in EnsDids : Rebind(d)
         \/ \E r \in Requests : LoseStream(r)
         \/ \E n \in Nodes : Start(n)
  PROVE  LossInv'
<1>1. ASSUME NEW r \in Requests, PutDM(r) PROVE LossInv'
  BY <1>1, NothingAppended DEF PutDM, handleVars
<1>2. ASSUME NEW r \in Requests, ResolveRecipient(r) PROVE LossInv'
  <2>1. hpc[r] = "none"
    BY <1>2 DEF ResolveRecipient, IInv, StageInv
  <2>2. \A q \in Requests : q # r => peer'[q] = peer[q]
    BY <1>2 DEF ResolveRecipient, IInv, TypeOK
  <2> QED
    BY <1>2, <2>1, <2>2, NothingAppended DEF ResolveRecipient, handleVars
<1>3. ASSUME NEW r \in Requests, FindPeer(r) \/ WriteDM(r) PROVE LossInv'
  BY <1>3, NothingAppended DEF FindPeer, WriteDM, handleVars
<1>4. ASSUME NEW r \in Requests, OpenStream(r) PROVE LossInv'
  <2>1. hpc[r] = "none"
    BY <1>4 DEF OpenStream, IInv, StageInv
  <2>2. /\ \A q \in Requests : q # r => hpc'[q] = hpc[q]
        /\ hpc'[r] \in {"none", "read"}
    BY <1>4, <2>1 DEF OpenStream, IInv, TypeOK
  <2> QED
    BY <1>4, <2>1, <2>2, NothingAppended DEF OpenStream
<1>5. ASSUME NEW r \in Requests, ReadDM(r) PROVE LossInv'
  <2>1. /\ \A q \in Requests : q # r => hpc'[q] = hpc[q]
        /\ hpc[r] = "read" /\ hpc'[r] \in {"resolve", "dropped"}
    BY <1>5 DEF ReadDM, IInv, TypeOK
  <2> QED
    BY <1>5, <2>1, NothingAppended DEF ReadDM, sendVars
<1>6. ASSUME NEW r \in Requests, ResolveSender(r) PROVE LossInv'
  <2>1. /\ \A q \in Requests : q # r => hpc'[q] = hpc[q]
        /\ hpc[r] = "resolve" /\ hpc'[r] \in {"accept", "dropped"}
    BY <1>6 DEF ResolveSender, IInv, TypeOK
  <2> QED
    BY <1>6, <2>1, NothingAppended DEF ResolveSender, sendVars
<1>7. ASSUME NEW d \in EnsDids, Rebind(d) PROVE LossInv'
  BY <1>7, NothingAppended DEF Rebind, sendVars, handleVars
<1>8. ASSUME NEW r \in Requests, LoseStream(r) PROVE LossInv'
  BY <1>8, NothingAppended DEF LoseStream, sendVars, handleVars
<1>9. ASSUME NEW n \in Nodes, Start(n) PROVE LossInv'
  BY <1>9, NothingAppended DEF Start, sendVars, handleVars
<1> QED
  BY <1>1, <1>2, <1>3, <1>4, <1>5, <1>6, <1>7, <1>8, <1>9 DEF SendStep

(* An append begins on a node.                                             *)
LEMMA LoadKeepsLossInv ==
  ASSUME IInv, LossInv, NEW r \in Requests, AppendLoad(r)
  PROVE  LossInv'
<1>0. PICK n \in Nodes : n = peer[r]
  BY DEF AppendLoad, IInv, StageInv
<1>1. /\ hpc[r] = "accept" /\ ~Holds(r)
      /\ r \notin Appending(n) /\ r \notin Done(n)
  BY DEF AppendLoad, Holds, Appending, Done
<1>2. /\ hdr[n].arr # r /\ \A q \in Appending(n) : target[q].arr # r
      /\ r # Nil
  BY <1>1, OtherArrays
<1>3. /\ arr' = WithRoom(arr, hdr[n], r) /\ hdr' = hdr /\ peer' = peer
      /\ target' = [target EXCEPT ![r] = NextHeader(arr, hdr[n], r)]
      /\ todo' = [todo EXCEPT ![r] = Stores]
      /\ hpc' = [hpc EXCEPT ![r] = "store"]
      /\ clashed' = IF Appending(n) = {} THEN clashed
                    ELSE clashed \cup Appending(n) \cup {r}
  BY <1>0 DEF AppendLoad, sendVars
<1>4. \A a \in Requests \cup {Nil} : a # r => arr'[a] = arr[a]
  BY <1>3 DEF WithRoom, IInv, TypeOK
<1>5. /\ \A q \in Requests : q # r =>
           hpc'[q] = hpc[q] /\ target'[q] = target[q] /\ todo'[q] = todo[q]
      /\ hpc'[r] = "store"
  BY <1>3 DEF IInv, TypeOK
<1>6. ListingAt(n)'
  <2>1. Listing(Requests, WithRoom(arr, hdr[n], r), hdr[n],
                [target EXCEPT ![r] = NextHeader(arr, hdr[n], r)],
                [todo EXCEPT ![r] = Stores], Appending(n) \cup {r}, Done(n),
                IF Appending(n) = {} THEN clashed
                ELSE clashed \cup Appending(n) \cup {r})
    <3>1. ListFits(Requests, arr, hdr[n], target, todo, Appending(n), Done(n))
      BY NodeFits
    <3>2. Listing(Requests, arr, hdr[n], target, todo, Appending(n), Done(n), clashed)
      BY DEF LossInv, ListingAt
    <3> QED
      BY <1>1, <1>2, <3>1, <3>2, ListingLoad
  <2>2. Appending(n)' = Appending(n) \cup {r}
    BY <1>0, <1>3, <1>5 DEF Appending
  <2>3. Done(n)' = Done(n)
    BY <1>1, <1>3, <1>5 DEF Done
  <2>4. hdr'[n] = hdr[n]
    BY <1>3
  <2> QED
    BY <1>3, <2>1, <2>2, <2>3, <2>4 DEF ListingAt
<1>7. ASSUME NEW m \in Nodes, m # n PROVE ListingAt(m)'
  <2>1. ListingAt(m)
    BY DEF LossInv
  <2>2. \A q \in Requests :
          /\ hpc'[q] = "store" /\ peer'[q] = m <=> hpc[q] = "store" /\ peer[q] = m
          /\ hpc'[q] = "done" /\ peer'[q] = m <=> hpc[q] = "done" /\ peer[q] = m
    BY <1>0, <1>1, <1>3, <1>5, <1>7
  <2>3. arr'[hdr[m].arr] = arr[hdr[m].arr]
    BY <1>1, <1>4, OtherArrays
  <2>4. \A q \in Appending(m) :
          q # r /\ q \in Requests /\ arr'[target[q].arr] = arr[target[q].arr]
    BY <1>1, <1>4, OtherArrays DEF Appending
  <2>5. \A q \in Appending(m) \cup Done(m) :
          q # r /\ q \in Requests /\ (q \in clashed' <=> q \in clashed)
    BY <1>0, <1>3, <1>7 DEF Appending, Done
  <2> QED
    BY <1>3, <1>5, <2>1, <2>2, <2>3, <2>4, <2>5, NodeKept
<1> QED
  BY <1>6, <1>7 DEF LossInv

(* Where a store of r leaves the appends of its node.                      *)
LEMMA StoredMoves ==
  ASSUME IInv, NEW n \in Nodes, NEW r \in Appending(n), NEW what,
         what \in todo[r], Stored(r, what), peer' = peer
  PROVE  /\ todo' = [todo EXCEPT ![r] = @ \ {what}]
         /\ Moves(todo, r, what, Appending(n), Done(n), Appending(n)', Done(n)')
         /\ \A q \in Requests : q # r => hpc'[q] = hpc[q] /\ todo'[q] = todo[q]
<1>1. r \in Requests /\ hpc[r] = "store" /\ peer[r] = n
  BY DEF Appending
<1>2. /\ todo' = [todo EXCEPT ![r] = @ \ {what}]
      /\ hpc'[r] = IF todo[r] = {what} THEN "done" ELSE "store"
      /\ \A q \in Requests : q # r => hpc'[q] = hpc[q] /\ todo'[q] = todo[q]
  BY <1>1 DEF Stored, IInv, TypeOK
<1>3. todo[r] = {what} =>
        Appending(n)' = Appending(n) \ {r} /\ Done(n)' = Done(n) \cup {r}
  BY <1>1, <1>2 DEF Appending, Done
<1>4. todo[r] # {what} => Appending(n)' = Appending(n) /\ Done(n)' = Done(n)
  BY <1>1, <1>2 DEF Appending, Done
<1> QED
  BY <1>2, <1>3, <1>4 DEF Moves

(* The header may be stored before, between or after the fields.           *)
LEMMA HeaderKeepsLossInv ==
  ASSUME IInv, LossInv, NEW r \in Requests, AppendHeader(r)
  PROVE  LossInv'
<1>0. PICK n \in Nodes : n = peer[r]
  BY DEF AppendHeader, IInv, StageInv
<1>1. /\ r \in Appending(n) /\ "hdr" \in todo[r] /\ Stored(r, "hdr")
      /\ arr' = arr /\ target' = target /\ peer' = peer /\ clashed' = clashed
  BY <1>0 DEF AppendHeader, Appending, sendVars
<1>2. /\ hdr'[n] = target[r]
      /\ \A m \in Nodes : m # n => hdr'[m] = hdr[m]
  BY <1>0 DEF AppendHeader, IInv, TypeOK
<1>3. /\ todo' = [todo EXCEPT ![r] = @ \ {"hdr"}]
      /\ Moves(todo, r, "hdr", Appending(n), Done(n), Appending(n)', Done(n)')
      /\ \A q \in Requests : q # r => hpc'[q] = hpc[q] /\ todo'[q] = todo[q]
  BY <1>1, StoredMoves
<1>4. ListingAt(n)'
  <2>1. ListFits(Requests, arr, hdr[n], target, todo, Appending(n), Done(n))
    BY NodeFits
  <2>2. Listing(Requests, arr, hdr[n], target, todo, Appending(n), Done(n), clashed)
    BY DEF LossInv, ListingAt
  <2>3. Listing(Requests, arr, target[r], target, [todo EXCEPT ![r] = @ \ {"hdr"}],
                Appending(n)', Done(n)', clashed)
    BY <1>1, <1>3, <2>1, <2>2, ListingHeader
  <2> QED
    BY <1>1, <1>2, <1>3, <2>3 DEF ListingAt
<1>5. ASSUME NEW m \in Nodes, m # n PROVE ListingAt(m)'
  <2>1. ListingAt(m)
    BY DEF LossInv
  <2>2. \A q \in Requests :
          /\ hpc'[q] = "store" /\ peer'[q] = m <=> hpc[q] = "store" /\ peer[q] = m
          /\ hpc'[q] = "done" /\ peer'[q] = m <=> hpc[q] = "done" /\ peer[q] = m
    BY <1>0, <1>1, <1>3, <1>5
  <2>3. \A q \in Appending(m) : q # r /\ q \in Requests
    BY <1>0, <1>5 DEF Appending
  <2> QED
    BY <1>1, <1>2, <1>3, <1>5, <2>1, <2>2, <2>3, NodeKept
<1> QED
  BY <1>4, <1>5 DEF LossInv

(* The fields go to the slot after the elements of the header.             *)
LEMMA FieldKeepsLossInv ==
  ASSUME IInv, LossInv, NEW r \in Requests, AppendField(r)
  PROVE  LossInv'
<1>0. PICK n \in Nodes : n = peer[r]
  BY DEF AppendField, IInv, StageInv
<1> DEFINE t == target[r].arr
           k == target[r].len
<1>1. PICK f \in Fields : f \in todo[r] /\ arr' = [arr EXCEPT ![t][k][f] = r]
                                        /\ Stored(r, f)
  BY DEF AppendField
<1>2. /\ r \in Appending(n)
      /\ hdr' = hdr /\ target' = target /\ peer' = peer /\ clashed' = clashed
  BY <1>0 DEF AppendField, Appending, sendVars
<1>3. /\ todo' = [todo EXCEPT ![r] = @ \ {f}]
      /\ Moves(todo, r, f, Appending(n), Done(n), Appending(n)', Done(n)')
      /\ \A q \in Requests : q # r => hpc'[q] = hpc[q] /\ todo'[q] = todo[q]
  BY <1>1, <1>2, StoredMoves
<1>4. ListingAt(n)'
  <2>1. ListFits(Requests, arr, hdr[n], target, todo, Appending(n), Done(n))
    BY NodeFits
  <2>2. Listing(Requests, arr, hdr[n], target, todo, Appending(n), Done(n), clashed)
    BY DEF LossInv, ListingAt
  <2>3. Listing(Requests, [arr EXCEPT ![t][k][f] = r], hdr[n], target,
                [todo EXCEPT ![r] = @ \ {f}], Appending(n)', Done(n)', clashed)
    BY <1>1, <1>2, <1>3, <2>1, <2>2, ListingField
  <2>4. hdr'[n] = hdr[n]
    BY <1>2
  <2> QED
    BY <1>1, <1>2, <1>3, <2>3, <2>4 DEF ListingAt
<1>5. ASSUME NEW m \in Nodes, m # n PROVE ListingAt(m)'
  <2>1. ListingAt(m)
    BY DEF LossInv
  <2>2. \A q \in Requests :
          /\ hpc'[q] = "store" /\ peer'[q] = m <=> hpc[q] = "store" /\ peer[q] = m
          /\ hpc'[q] = "done" /\ peer'[q] = m <=> hpc[q] = "done" /\ peer[q] = m
    BY <1>0, <1>2, <1>3, <1>5
  <2>3. \A q \in Appending(m) : q # r /\ q \in Requests
    BY <1>0, <1>5 DEF Appending
  <2>4. t \in Requests /\ peer[t] = n
    BY <1>2, OtherArrays
  <2>5. \A a \in Requests \cup {Nil} : a # t => arr'[a] = arr[a]
    BY <1>1 DEF IInv, TypeOK
  <2>6. hdr[m].arr # t /\ hdr[m].arr \in Requests \cup {Nil}
    BY <1>5, <2>4, OtherArrays
  <2>7. \A q \in Appending(m) : target[q].arr # t /\ target[q].arr \in Requests
    BY <1>5, <2>4, OtherArrays
  <2> HIDE DEF t, k
  <2>8. arr'[hdr[m].arr] = arr[hdr[m].arr]
    BY <2>5, <2>6
  <2>9. \A q \in Appending(m) : arr'[target[q].arr] = arr[target[q].arr]
    BY <2>5, <2>7
  <2> QED
    BY <1>2, <1>3, <2>1, <2>2, <2>3, <2>8, <2>9, NodeKept
<1> QED
  BY <1>4, <1>5 DEF LossInv

(* A node that has stopped has nothing to lose.                            *)
LEMMA StopKeepsLossInv ==
  ASSUME IInv, LossInv, NEW n \in Nodes, Stop(n)
  PROVE  LossInv'
<1>1. /\ peer' = peer /\ target' = target /\ todo' = todo
      /\ clashed' = {q \in clashed : peer[q] # n}
      /\ \A q \in Requests :
           /\ peer[q] = n => hpc'[q] \in {"none", "dropped", "lost"}
           /\ peer[q] # n => hpc'[q] = hpc[q]
  BY DEF Stop
<1>2. /\ hdr'[n] = NilSlice /\ arr'[Nil] = arr[Nil]
      /\ \A m \in Nodes : m # n => hdr'[m] = hdr[m]
      /\ \A a \in Requests : peer[a] # n => arr'[a] = arr[a]
  BY DEF Stop, IInv, TypeOK
<1>3. ListingAt(n)'
  <2>1. Appending(n)' = {} /\ Done(n)' = {}
    BY <1>1 DEF Appending, Done
  <2>2. Listing(Requests, arr', NilSlice, target', todo', {}, {}, clashed')
    BY DEF Listing, KeptIn, PendingIn, CleanIn, WholeUpTo, NilSlice
  <2> QED
    BY <1>2, <2>1, <2>2 DEF ListingAt
<1>4. ASSUME NEW m \in Nodes, m # n PROVE ListingAt(m)'
  <2>1. ListingAt(m)
    BY DEF LossInv
  <2>2. \A q \in Requests :
          /\ hpc'[q] = "store" /\ peer'[q] = m <=> hpc[q] = "store" /\ peer[q] = m
          /\ hpc'[q] = "done" /\ peer'[q] = m <=> hpc[q] = "done" /\ peer[q] = m
    BY <1>1, <1>4
  <2>3. \A q \in Appending(m) : arr'[target[q].arr] = arr[target[q].arr]
    BY <1>2, <1>4, OtherArrays
  <2>4. arr'[hdr[m].arr] = arr[hdr[m].arr]
    BY <1>2, <1>4, OtherArrays
  <2>5. \A q \in Appending(m) \cup Done(m) : q \in clashed' <=> q \in clashed
    BY <1>1, <1>4 DEF Appending, Done
  <2> QED
    BY <1>1, <1>2, <1>4, <2>1, <2>2, <2>3, <2>4, <2>5, NodeKept
<1> QED
  BY <1>3, <1>4 DEF LossInv

(* LossInv is an invariant of every instance of the system.                *)
THEOREM LossInvInvariant == Spec => []LossInv
<1>1. Init => LossInv
  <2> SUFFICES ASSUME Init, NEW n \in Nodes PROVE ListingAt(n)
    BY DEF LossInv
  <2>1. Appending(n) = {} /\ Done(n) = {} /\ hdr[n] = NilSlice
    BY DEF Init, Appending, Done
  <2>2. Listing(Requests, arr, NilSlice, target, todo, {}, {}, clashed)
    BY DEF Listing, KeptIn, PendingIn, CleanIn, WholeUpTo, NilSlice
  <2> QED
    BY <2>1, <2>2 DEF ListingAt
<1>2. IInv /\ LossInv /\ [Next]_vars => LossInv'
  <2> SUFFICES ASSUME IInv, LossInv, [Next]_vars PROVE LossInv'
    OBVIOUS
  <2>1. ASSUME NEW r \in Requests, PutDM(r) \/ SendStep(r) \/ HandleStep(r)
        PROVE  LossInv'
    BY <2>1, OthersKeepLossInv, LoadKeepsLossInv, HeaderKeepsLossInv,
       FieldKeepsLossInv DEF HandleStep
  <2>2. ASSUME Environment PROVE LossInv'
    BY <2>2, OthersKeepLossInv, StopKeepsLossInv DEF Environment
  <2>3. CASE UNCHANGED vars
    BY <2>3, NothingAppended DEF vars, sendVars, handleVars
  <2> QED
    BY <2>1, <2>2, <2>3 DEF Next
<1> QED
  BY <1>1, <1>2, IInvInvariant, PTL DEF Spec

(* The handler's append loses a DM, or leaves a zero or mixed one, only    *)
(* where two appends have overlapped (p2p/p2p.go:71), in every instance.   *)
THEOREM OnlyOverlapsLoseMail == Spec => []LossNeedsOverlap
<1>1. IInv /\ LossInv => LossNeedsOverlap
  <2> SUFFICES ASSUME IInv, LossInv PROVE LossNeedsOverlap
    OBVIOUS
  <2>1. ASSUME NEW n \in Nodes
        PROVE  /\ \A x \in Done(n) \ clashed : Whole(x) \in Inbox(n)
               /\ Appending(n) = {} /\ Done(n) \cap clashed = {} =>
                    Inbox(n) \subseteq {Whole(x) : x \in Requests}
    <3>1. Listing(Requests, arr, hdr[n], target, todo, Appending(n), Done(n), clashed)
      BY DEF LossInv, ListingAt
    <3> QED
      BY <3>1, ListingShows DEF Inbox
  <2>2. ASSUME NEW r \in Requests \ clashed, hpc[r] = "done"
        PROVE  Whole(r) \in Inbox(peer[r])
    <3>1. peer[r] \in Nodes
      BY <2>2 DEF IInv, StageInv
    <3> QED
      BY <2>1, <2>2, <3>1 DEF Done
  <2>3. ASSUME NEW n \in Nodes, Appending(n) = {}, \A r \in clashed : peer[r] # n
        PROVE  Inbox(n) \subseteq {Whole(x) : x \in Requests}
    BY <2>1, <2>3 DEF Done
  <2> QED
    BY <2>2, <2>3 DEF LossNeedsOverlap
<1> QED
  BY <1>1, IInvInvariant, LossInvInvariant, PTL
-----------------------------------------------------------------------------
(* Direct messages implement authenticated mail.                           *)

(* The status of a mail, read off the goroutines of its request.           *)
StatusInv ==
  \A r \in Requests :
    /\ hpc[r] \in {"accept", "store", "done"} => MailStatus(r) = "accepted"
    /\ hpc[r] \in {"dropped", "lost"} => MailStatus(r) = "over"
    /\ hpc[r] \in {"none", "read", "resolve"} =>
         MailStatus(r) = IF peer[r] # Nil THEN "routed"
                         ELSE IF from[r] # Nil THEN "posted" ELSE "new"

LEMMA StatusHolds == IInv => StatusInv
<1> SUFFICES ASSUME IInv, NEW r \in Requests
    PROVE  /\ hpc[r] \in {"accept", "store", "done"} => MailStatus(r) = "accepted"
           /\ hpc[r] \in {"dropped", "lost"} => MailStatus(r) = "over"
           /\ hpc[r] \in {"none", "read", "resolve"} =>
                MailStatus(r) = IF peer[r] # Nil THEN "routed"
                                ELSE IF from[r] # Nil THEN "posted" ELSE "new"
  BY DEF StatusInv
<1>1. hpc[r] # "none" => peer[r] # Nil
  BY DEF IInv, StageInv
<1>2. CASE hpc[r] \in {"accept", "store", "done"}
  BY <1>1, <1>2 DEF MailStatus
<1>3. CASE hpc[r] \in {"dropped", "lost"}
  BY <1>1, <1>3 DEF MailStatus
<1>4. CASE hpc[r] \in {"none", "read", "resolve"}
  <2>1. CASE peer[r] # Nil
    BY <1>4, <2>1 DEF MailStatus
  <2>2. CASE peer[r] = Nil /\ from[r] # Nil
    BY <1>4, <2>2 DEF MailStatus
  <2>3. CASE peer[r] = Nil /\ from[r] = Nil
    BY <1>4, <2>3 DEF MailStatus
  <2> QED
    BY <1>4, <2>1, <2>2, <2>3
<1> QED
  BY <1>2, <1>3, <1>4

(* A node shows mail it has accepted.                                      *)
BoxInv ==
  \A n \in Nodes : \A r \in Box[n] : r \in Requests /\ Holds(r) /\ peer[r] = n

LEMMA BoxHolds == IInv => BoxInv
BY ShownAtNode DEF BoxInv, Box

(* A step of one request moves only its own mail.                          *)
LEMMA StatusStep ==
  ASSUME NEW r \in Requests,
         \A q \in Requests : q # r =>
           hpc'[q] = hpc[q] /\ peer'[q] = peer[q] /\ from'[q] = from[q]
  PROVE  Status' = [Status EXCEPT ![r] = MailStatus(r)']
<1>1. \A q \in Requests : q # r => MailStatus(q)' = MailStatus(q)
  BY DEF MailStatus
<1>2. Status' = [q \in Requests |-> IF q = r THEN MailStatus(r)' ELSE Status[q]]
  BY <1>1 DEF Status
<1> QED
  BY <1>2 DEF Status

(* The mail of a request whose status is the same does not move.           *)
LEMMA StatusSame ==
  ASSUME \A q \in Requests : MailStatus(q)' = MailStatus(q)
  PROVE  Status' = Status
BY DEF Status

(* Boxes are what the slices show.                                         *)
LEMMA BoxSame ==
  ASSUME UNCHANGED hdr, \A n \in Nodes : arr'[hdr[n].arr] = arr[hdr[n].arr]
  PROVE  Box' = Box
<1>1. \A n \in Nodes : ShownAt(n)' = ShownAt(n)
  BY DEF ShownAt, Inbox, Visible
<1> QED
  BY <1>1 DEF Box

(* PUT /DM posts a mail, and resolving its recipient routes it.            *)
LEMMA SendIsMail ==
  ASSUME IInv, StatusInv, StatusInv', NEW r \in Requests, PutDM(r) \/ SendStep(r)
  PROVE  Mail!Next \/ UNCHANGED Mail!vars
<1>1. CASE PutDM(r)
  <2>1. PICK n \in Nodes, d \in Dids :
          from' = [from EXCEPT ![r] = n] /\ to' = [to EXCEPT ![r] = d]
    BY <1>1 DEF PutDM, IInv, TypeOK
  <2>2. ens' = ens /\ peer' = peer /\ hpc' = hpc /\ hdr' = hdr /\ arr' = arr
    BY <1>1 DEF PutDM, handleVars, envVars
  <2>3. hpc[r] = "none" /\ peer[r] = Nil /\ from[r] = Nil
    BY <1>1 DEF PutDM, IInv, StageInv
  <2>4. from'[r] = n /\ \A q \in Requests : q # r => from'[q] = from[q]
    BY <2>1 DEF IInv, TypeOK
  <2>5. MailStatus(r) = "new" /\ MailStatus(r)' = "posted"
    BY <2>2, <2>3, <2>4 DEF StatusInv
  <2>6. Status' = [Status EXCEPT ![r] = "posted"] /\ Status[r] = "new"
    BY <2>2, <2>4, <2>5, StatusStep DEF Status
  <2>7. Box' = Box
    BY <2>2, BoxSame
  <2>8. Mail!Post(r)
    BY <2>1, <2>2, <2>6, <2>7 DEF Mail!Post
  <2> QED
    BY <2>8 DEF Mail!Next
<1>2. CASE ResolveRecipient(r)
  <2>1. /\ ens' = ens /\ from' = from /\ to' = to /\ hpc' = hpc
        /\ hdr' = hdr /\ arr' = arr
    BY <1>2 DEF ResolveRecipient, handleVars, envVars
  <2>2. Box' = Box
    BY <2>1, BoxSame
  <2>3. CASE peer' = peer
    <3>1. \A q \in Requests : MailStatus(q)' = MailStatus(q)
      BY <2>1, <2>3 DEF MailStatus
    <3>2. Status' = Status
      BY <3>1, StatusSame
    <3> QED
      BY <2>1, <2>2, <2>3, <3>2 DEF Mail!vars
  <2>4. CASE ens[to[r]] # NoKey /\ peer' = [peer EXCEPT ![r] = ens[to[r]]]
    <3>1. /\ hpc[r] = "none" /\ peer[r] = Nil
          /\ from[r] \in Nodes /\ to[r] \in Dids
      BY <1>2 DEF ResolveRecipient, IInv, StageInv
    <3>2. ens[to[r]] \in Nodes
      BY <2>4, <3>1 DEF IInv, TypeOK
    <3>3. /\ peer'[r] = ens[to[r]] /\ ens[to[r]] # Nil /\ from[r] # Nil
          /\ \A q \in Requests : q # r => peer'[q] = peer[q]
      BY <2>4, <3>1, <3>2 DEF IInv, TypeOK
    <3>4. MailStatus(r) = "posted" /\ MailStatus(r)' = "routed"
      BY <2>1, <3>1, <3>3 DEF StatusInv
    <3>5. Status' = [Status EXCEPT ![r] = "routed"] /\ Status[r] = "posted"
      BY <2>1, <3>3, <3>4, StatusStep DEF Status
    <3>6. Mail!Route(r)
      BY <2>1, <2>2, <2>4, <3>2, <3>5 DEF Mail!Route
    <3> QED
      BY <3>6 DEF Mail!Next
  <2> QED
    BY <1>2, <2>3, <2>4 DEF ResolveRecipient, RecipientKey, Usable
<1>3. CASE FindPeer(r) \/ OpenStream(r) \/ WriteDM(r)
  <2>1. /\ ens' = ens /\ from' = from /\ to' = to /\ peer' = peer
        /\ hdr' = hdr /\ arr' = arr
    BY <1>3 DEF FindPeer, OpenStream, WriteDM, handleVars, envVars
  <2>2. Box' = Box
    BY <2>1, BoxSame
  <2>3. /\ \A q \in Requests : q # r => hpc'[q] = hpc[q]
        /\ \/ hpc'[r] = hpc[r]
           \/ hpc[r] = "none" /\ hpc'[r] = "read"
    <3>1. CASE FindPeer(r) \/ WriteDM(r)
      BY <3>1 DEF FindPeer, WriteDM, handleVars
    <3>2. CASE OpenStream(r)
      <4>1. hpc[r] = "none"
        BY <3>2 DEF OpenStream, IInv, StageInv
      <4> QED
        BY <3>2, <4>1 DEF OpenStream, IInv, TypeOK
    <3> QED
      BY <1>3, <3>1, <3>2
  <2>4. \A q \in Requests : MailStatus(q)' = MailStatus(q)
    <3>1. \A q \in Requests : q # r => MailStatus(q)' = MailStatus(q)
      BY <2>1, <2>3 DEF MailStatus
    <3>2. MailStatus(r)' = MailStatus(r)
      BY <2>1, <2>3 DEF MailStatus
    <3> QED
      BY <3>1, <3>2
  <2>5. Status' = Status
    BY <2>4, StatusSame
  <2> QED
    BY <2>1, <2>2, <2>5 DEF Mail!vars
<1> QED
  BY <1>1, <1>2, <1>3 DEF SendStep

(* The handler refuses a mail or accepts it while the DID it claims names  *)
(* the peer at the other end.                                              *)
LEMMA CheckIsMail ==
  ASSUME IInv, StatusInv, StatusInv', NEW r \in Requests, ReadDM(r) \/ ResolveSender(r)
  PROVE  Mail!Next \/ UNCHANGED Mail!vars
<1>1. /\ ens' = ens /\ from' = from /\ to' = to /\ peer' = peer
      /\ hdr' = hdr /\ arr' = arr
  BY DEF ReadDM, ResolveSender, sendVars, envVars
<1>2. Box' = Box
  BY <1>1, BoxSame
<1>3. /\ \A q \in Requests : q # r => hpc'[q] = hpc[q]
      /\ hpc[r] \in {"read", "resolve"}
      /\ \/ hpc'[r] \in {"resolve", "dropped"}
         \/ hpc'[r] = "accept" /\ ens[Claim(r)] = from[r]
  <2>1. CASE ReadDM(r)
    BY <2>1 DEF ReadDM, IInv, TypeOK
  <2>2. CASE ResolveSender(r)
    BY <2>2
    DEF ResolveSender, SenderKeys, SenderMatches, Usable, IInv, TypeOK
  <2> QED
    BY <2>1, <2>2
<1>4. peer[r] \in Nodes /\ peer[r] # Nil
  BY <1>3 DEF IInv, StageInv
<1>5. MailStatus(r) = "routed" /\ Status[r] = "routed"
  BY <1>3, <1>4 DEF StatusInv, Status
<1>6. Status' = [Status EXCEPT ![r] = MailStatus(r)']
  BY <1>1, <1>3, StatusStep
<1>7. CASE hpc'[r] = "resolve"
  <2>1. MailStatus(r)' = "routed"
    BY <1>1, <1>4, <1>7 DEF StatusInv
  <2>2. Status' = Status
    BY <1>5, <1>6, <2>1 DEF Status
  <2> QED
    BY <1>1, <1>2, <2>2 DEF Mail!vars
<1>8. CASE hpc'[r] = "dropped"
  <2>1. MailStatus(r)' = "over"
    BY <1>8 DEF StatusInv
  <2>2. Mail!Refuse(r)
    BY <1>1, <1>2, <1>5, <1>6, <2>1 DEF Mail!Refuse
  <2> QED
    BY <2>2 DEF Mail!Next
<1>9. CASE hpc'[r] = "accept" /\ ens[Claim(r)] = from[r]
  <2>1. MailStatus(r)' = "accepted"
    BY <1>9 DEF StatusInv
  <2>2. Mail!Accept(r)
    BY <1>1, <1>2, <1>5, <1>6, <1>9, <2>1 DEF Mail!Accept, Claim
  <2> QED
    BY <2>2 DEF Mail!Next
<1> QED
  BY <1>3, <1>7, <1>8, <1>9

(* append shows nothing but mail that was accepted.                        *)
LEMMA AppendIsMail ==
  ASSUME IInv, StatusInv, StatusInv', BoxInv', NEW r \in Requests,
         AppendLoad(r) \/ AppendHeader(r) \/ AppendField(r)
  PROVE  Mail!Next \/ UNCHANGED Mail!vars
<1>1. ens' = ens /\ from' = from /\ to' = to /\ peer' = peer
  BY DEF AppendLoad, AppendHeader, AppendField, sendVars, envVars
<1>2. /\ \A q \in Requests : q # r => hpc'[q] = hpc[q]
      /\ hpc[r] \in {"accept", "store"} /\ hpc'[r] \in {"store", "done"}
  BY DEF AppendLoad, AppendHeader, AppendField, Stored, IInv, TypeOK
<1>3. \A q \in Requests : MailStatus(q)' = MailStatus(q)
  <2>1. \A q \in Requests : q # r => MailStatus(q)' = MailStatus(q)
    BY <1>1, <1>2 DEF MailStatus
  <2>2. MailStatus(r) = "accepted" /\ MailStatus(r)' = "accepted"
    BY <1>2 DEF StatusInv
  <2> QED
    BY <2>1, <2>2
<1>4. Status' = Status
  BY <1>3, StatusSame
<1>5. PICK n \in Nodes : n = peer[r]
  BY <1>2 DEF IInv, StageInv
<1>6. \A m \in Nodes : m # n => hdr'[m] = hdr[m] /\ arr'[hdr[m].arr] = arr[hdr[m].arr]
  <2>1. \A m \in Nodes : /\ hdr[m].arr \in Requests \cup {Nil}
                         /\ hdr[m].arr = Nil \/ peer[hdr[m].arr] = m
    BY DEF IInv, TypeOK, HeaderInv
  <2>2. CASE AppendLoad(r)
    BY <1>5, <2>1, <2>2 DEF AppendLoad, WithRoom, IInv, TypeOK
  <2>3. CASE AppendHeader(r)
    BY <1>5, <2>3 DEF AppendHeader, IInv, TypeOK
  <2>4. CASE AppendField(r)
    <3>1. target[r].arr \in Requests /\ peer[target[r].arr] = n
      BY <1>5, <2>4 DEF AppendField, IInv, TargetInv
    <3>2. \A a \in Requests \cup {Nil} : a # target[r].arr => arr'[a] = arr[a]
      BY <2>4 DEF AppendField, IInv, TypeOK
    <3> QED
      BY <2>1, <2>4, <3>1, <3>2 DEF AppendField
  <2> QED
    BY <2>2, <2>3, <2>4
<1>7. \A m \in Nodes : m # n => Box'[m] = Box[m]
  <2>1. \A m \in Nodes : m # n => ShownAt(m)' = ShownAt(m)
    BY <1>6 DEF ShownAt, Inbox, Visible
  <2> QED
    BY <2>1 DEF Box
<1>8. Box'[n] \in SUBSET Mail!Accepted(n)
  <2> SUFFICES ASSUME NEW q \in Box'[n] PROVE q \in Mail!Accepted(n)
    OBVIOUS
  <2>1. q \in Requests /\ hpc'[q] \in {"store", "done"} /\ peer'[q] = n
    BY DEF BoxInv, Holds
  <2>2. Status[q] = "accepted"
    BY <1>3, <2>1 DEF StatusInv, Status
  <2> QED
    BY <1>1, <2>1, <2>2 DEF Mail!Accepted
<1>9. Box' = [Box EXCEPT ![n] = Box'[n]]
  <2>1. Box' = [m \in Nodes |-> Box'[m]] /\ Box = [m \in Nodes |-> Box[m]]
    BY DEF Box
  <2> QED
    BY <1>7, <2>1
<1>10. Mail!Show(n)
  BY <1>1, <1>4, <1>8, <1>9 DEF Mail!Show
<1> QED
  BY <1>10 DEF Mail!Next

(* The world moves a name, or nothing that mail depends on.                *)
LEMMA WorldIsMail ==
  ASSUME IInv,
         \/ \E d \in EnsDids : Rebind(d)
         \/ \E r \in Requests : LoseStream(r)
         \/ \E n \in Nodes : Start(n)
         \/ UNCHANGED vars
  PROVE  Mail!Next \/ UNCHANGED Mail!vars
<1>1. /\ from' = from /\ to' = to /\ peer' = peer /\ hpc' = hpc
      /\ hdr' = hdr /\ arr' = arr
  BY DEF Rebind, LoseStream, Start, vars, sendVars, handleVars
<1>2. Box' = Box
  BY <1>1, BoxSame
<1>3. \A q \in Requests : MailStatus(q)' = MailStatus(q)
  BY <1>1 DEF MailStatus
<1>4. Status' = Status
  BY <1>3, StatusSame
<1>5. ASSUME NEW d \in EnsDids, Rebind(d) PROVE Mail!Next
  <2>1. d \in Dids /\ \E k \in Nodes \cup {NoKey} : ens' = [ens EXCEPT ![d] = k]
    BY <1>5 DEF Rebind
  <2>2. Mail!Rebind(d)
    BY <1>1, <1>2, <1>4, <2>1 DEF Mail!Rebind
  <2> QED
    BY <2>1, <2>2 DEF Mail!Next
<1>6. CASE ens' = ens
  BY <1>1, <1>2, <1>4, <1>6 DEF Mail!vars
<1> QED
  BY <1>5, <1>6 DEF LoseStream, Start, vars, envVars

(* A process that ends forgets its mail.                                   *)
LEMMA StopIsMail ==
  ASSUME IInv, StatusInv, StatusInv', NEW n \in Nodes, Stop(n)
  PROVE  Mail!Forget(n)
<1> DEFINE onTheWay == {m \in Requests : /\ hpc[m] \in {"read", "resolve"}
                                         /\ peer[m] = n}
<1>1. ens' = ens /\ from' = from /\ to' = to /\ peer' = peer
  BY DEF Stop
<1>2. /\ hdr'[n] = NilSlice
      /\ \A m \in Nodes : m # n => hdr'[m] = hdr[m]
      /\ arr'[Nil] = arr[Nil]
      /\ \A a \in Requests : peer[a] # n => arr'[a] = arr[a]
  BY DEF Stop, IInv, TypeOK
<1>3. \A q \in Requests :
        hpc'[q] = IF peer[q] # n \/ hpc[q] \in {"none", "dropped", "lost"}
                  THEN hpc[q]
                  ELSE IF hpc[q] = "done" THEN "lost" ELSE "dropped"
  BY DEF Stop
<1>4. n # Nil
  OBVIOUS
<1>5. ASSUME NEW q \in Requests
      PROVE  MailStatus(q)' = IF q \in onTheWay \cup Mail!Accepted(n)
                              THEN "over" ELSE Status[q]
  <2>1. hpc[q] \in Handlers /\ Status[q] = MailStatus(q)
    BY DEF Status, IInv, TypeOK
  <2>2. CASE peer[q] # n \/ hpc[q] \in {"none", "dropped", "lost"}
    <3>1. MailStatus(q)' = MailStatus(q)
      BY <1>1, <1>3, <2>2 DEF MailStatus
    <3>2. q \notin onTheWay /\ q \notin Mail!Accepted(n)
      <4>1. hpc[q] \in {"none", "dropped", "lost"} => MailStatus(q) # "accepted"
        BY DEF StatusInv
      <4> QED
        BY <2>1, <2>2, <4>1 DEF Mail!Accepted
    <3> QED
      BY <2>1, <3>1, <3>2
  <2>3. CASE peer[q] = n /\ hpc[q] \in {"read", "resolve"}
    <3>1. hpc'[q] = "dropped"
      BY <1>3, <2>3
    <3> QED
      BY <2>3, <3>1 DEF StatusInv
  <2>4. CASE peer[q] = n /\ hpc[q] \in {"accept", "store", "done"}
    <3>1. hpc'[q] \in {"dropped", "lost"}
      BY <1>3, <2>4
    <3>2. q \in Mail!Accepted(n) /\ MailStatus(q)' = "over"
      BY <2>1, <2>4, <3>1 DEF StatusInv, Mail!Accepted
    <3> QED
      BY <3>2
  <2> QED
    BY <2>1, <2>2, <2>3, <2>4 DEF Handlers
<1>6. onTheWay \in SUBSET {m \in Requests : Status[m] = "routed" /\ peer[m] = n}
  BY <1>4 DEF StatusInv, Status
<1> HIDE DEF onTheWay
<1>7. Status' = [q \in Requests |-> IF q \in onTheWay \cup Mail!Accepted(n)
                                    THEN "over" ELSE Status[q]]
  BY <1>5 DEF Status
<1>8. Box' = [Box EXCEPT ![n] = {}]
  <2>1. ShownAt(n)' = {}
    BY <1>2 DEF ShownAt, Inbox, Visible, NilSlice
  <2>2. \A m \in Nodes : m # n => ShownAt(m)' = ShownAt(m)
    <3>1. \A m \in Nodes : /\ hdr[m].arr \in Requests \cup {Nil}
                           /\ hdr[m].arr = Nil \/ peer[hdr[m].arr] = m
      BY DEF IInv, TypeOK, HeaderInv
    <3>2. \A m \in Nodes : m # n => arr'[hdr[m].arr] = arr[hdr[m].arr]
      BY <1>2, <3>1
    <3> QED
      BY <1>2, <3>2 DEF ShownAt, Inbox, Visible
  <2> QED
    BY <2>1, <2>2 DEF Box
<1> QED
  BY <1>1, <1>6, <1>7, <1>8 DEF Mail!Forget

(* Nothing is posted when the system starts.                               *)
LEMMA InitIsMail == Init => Mail!Init
<1> SUFFICES ASSUME Init PROVE Mail!Init
  OBVIOUS
<1>1. \A r \in Requests : MailStatus(r) = "new"
  BY DEF Init, MailStatus
<1>2. Status = [m \in Requests |-> "new"]
  BY <1>1 DEF Status
<1>3. Box = [n \in Nodes |-> {}]
  BY DEF Init, Box, ShownAt, Inbox, Visible, NilSlice
<1> QED
  BY <1>2, <1>3 DEF Init, Mail!Init

(* Every behaviour of the senders and handlers is one of authenticated     *)
(* mail (p2p/p2p.go:37-149), in every instance.                            *)
THEOREM MessagesAreMail == Spec => ImplementsMail
<1>1. IInv /\ StatusInv /\ StatusInv' /\ BoxInv' /\ [Next]_vars => [Mail!Next]_(Mail!vars)
  <2> SUFFICES ASSUME IInv, StatusInv, StatusInv', BoxInv', [Next]_vars
               PROVE  Mail!Next \/ UNCHANGED Mail!vars
    OBVIOUS
  <2>1. ASSUME NEW r \in Requests, PutDM(r) \/ SendStep(r) \/ HandleStep(r)
        PROVE  Mail!Next \/ UNCHANGED Mail!vars
    BY <2>1, SendIsMail, CheckIsMail, AppendIsMail DEF HandleStep
  <2>2. ASSUME NEW n \in Nodes, Stop(n) PROVE Mail!Next
    BY <2>2, StopIsMail DEF Mail!Next
  <2> QED
    BY <2>1, <2>2, WorldIsMail DEF Next, Environment
<1>2. IInv => BoxInv /\ StatusInv
  BY BoxHolds, StatusHolds
<1> QED
  BY <1>1, <1>2, InitIsMail, IInvInvariant, PTL
  DEF Spec, ImplementsMail, Mail!Spec
=============================================================================

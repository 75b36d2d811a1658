-------------------------- MODULE DirectMessages --------------------------
(***************************************************************************)
(* Authenticated direct messages between Flubber nodes (p2p/p2p.go, the    *)
(* /DM handlers of node/node.go, did/did.go, blockchain/blockchain.go).    *)
(*                                                                         *)
(* A PUT /DM request r runs SendDM in a goroutine of the sending node: it  *)
(* resolves the recipient's DID with ENS, looks the peer up, opens a       *)
(* stream and writes one DM.  The stream runs the DM handler in a          *)
(* goroutine of the receiving node: it reads the DM, resolves the DID the  *)
(* DM claims to come from, compares the key it finds with the peer at the  *)
(* other end of the stream, and appends the DM to the node's DMs slice.    *)
(*                                                                         *)
(* A node is identified with its libp2p peer ID, and a request with the    *)
(* DM and the stream it creates.                                           *)
(***************************************************************************)
EXTENDS GoSlice, FiniteSets

CONSTANTS
  Nodes,        \* Flubber nodes, named by their peer IDs
  Dids,         \* the DID strings in use
  EnsDids,      \* those that parse and have the method "ens"
  Requests,     \* PUT /DM requests, each with the stream it may open
  ConfigDid,    \* ConfigDid[n]: the Did field of the configuration of n
  InitEns,      \* the ipfsKey records when the system starts
  NoKey,        \* an ipfsKey record that is missing or does not decode
  MaxRebinds,   \* bound: changes of ipfsKey records
  MaxStops      \* bound: node processes that stop

ASSUME DMAssumption ==
  /\ EnsDids \subseteq Dids
  /\ ConfigDid \in [Nodes -> Dids]
  /\ NoKey \notin Nodes
  /\ InitEns \in [Dids -> Nodes \cup {NoKey}]
  /\ Nil \notin Requests
  /\ Nil \notin Nodes
  /\ MaxRebinds \in Nat
  /\ MaxStops \in Nat

VARIABLES
  ens,          \* the ipfsKey record of each DID, decoded to a peer
  online,       \* the nodes whose process runs
  pc,           \* where the sending goroutine of a request is
  from, to,     \* the sending node of a request and the DID it is sent to
  peer,         \* the peer the sender resolved the DID to
  wire,         \* the content of the stream of a request
  hpc,          \* where the handler goroutine of a stream is
  arr,          \* the backing arrays of the DMs slices
  hdr,          \* hdr[n]: the slice header DMs of node n
  target,       \* the header the append of a handler will store
  todo,         \* the stores that append has still to make
  rebinds, stops,
  toBound,      \* history: the peers the recipient's DID named since PUT
  claimBound,   \* history: the peers the claimed DID named since reading
  clashed       \* history: the requests whose append overlapped another one

sendVars   == <<pc, from, to, peer>>
handleVars == <<hpc, arr, hdr, target, todo, clashed>>
histVars   == <<toBound, claimBound>>
envVars    == <<ens, online, rebinds, stops>>
vars == <<sendVars, wire, handleVars, histVars, envVars>>

Senders  == {"idle", "resolve", "find", "open", "write", "sent", "error", "gone"}
Handlers ==
  {"none", "read", "resolve", "accept", "store", "done", "dropped", "lost"}

(* The DID a DM carries: the sender's configured one.                      *)
Claim(r) == ConfigDid[from[r]]

(* did.IsValid: the string parses as a DID of method "ens".                *)
IsValid(d) == d \in EnsDids

(* FAULT: the error of GetIPFSNodeIdentityFromPublicKeyName is ignored.    *)
UsableUnchecked(key) == key = key

(* The decoded key of an ENS record; the record may be unusable.           *)
Usable(key) == key # NoKey
-----------------------------------------------------------------------------
Init ==
  /\ ens = InitEns
  /\ online = Nodes
  /\ pc = [r \in Requests |-> "idle"]
  /\ from = [r \in Requests |-> Nil]
  /\ to = [r \in Requests |-> Nil]
  /\ peer = [r \in Requests |-> Nil]
  /\ wire = [r \in Requests |-> "none"]
  /\ hpc = [r \in Requests |-> "none"]
  /\ arr = [a \in Requests \cup {Nil} |-> <<>>]
  /\ hdr = [n \in Nodes |-> NilSlice]
  /\ target = [r \in Requests |-> NilSlice]
  /\ todo = [r \in Requests |-> {}]
  /\ rebinds = 0
  /\ stops = 0
  /\ toBound = [r \in Requests |-> {}]
  /\ claimBound = [r \in Requests |-> {}]
  /\ clashed = {}
-----------------------------------------------------------------------------
(* The sending goroutine: putDM and SendDM.                                *)

(* PUT /DM: an unusable recipient is refused before anything is resolved.  *)
PutDM(r) ==
  /\ pc[r] = "idle"
  /\ \E n \in online, d \in Dids :
       /\ from' = [from EXCEPT ![r] = n]
       /\ to' = [to EXCEPT ![r] = d]
       /\ pc' = [pc EXCEPT ![r] = IF IsValid(d) THEN "resolve" ELSE "error"]
       /\ toBound' = [toBound EXCEPT ![r] = {ens[d]}]
  /\ UNCHANGED <<peer, wire, handleVars, claimBound, envVars>>

(* FAULT: the key of the DID the node is configured with is used instead.  *)
RecipientKeyOfSender(r) == ens[Claim(r)]

(* ResolveENS of the recipient either fails or returns the current record. *)
RecipientKey(r) == ens[to[r]]

ResolveRecipient(r) ==
  /\ pc[r] = "resolve"
  /\ \/ pc' = [pc EXCEPT ![r] = "error"] /\ UNCHANGED peer
     \/ /\ Usable(RecipientKey(r))
        /\ peer' = [peer EXCEPT ![r] = RecipientKey(r)]
        /\ pc' = [pc EXCEPT ![r] = "find"]
  /\ UNCHANGED <<from, to, wire, handleVars, histVars, envVars>>

(* FAULT: an unknown peer is searched for until it shows up.               *)
FindPeerWaits(r) ==
  /\ pc[r] = "find"
  /\ peer[r] \in online
  /\ pc' = [pc EXCEPT ![r] = "open"]
  /\ UNCHANGED <<from, to, peer, wire, handleVars, histVars, envVars>>

(* The DHT may or may not know the peer; when it does not, the peers of    *)
(* the "flubber" topic, some of the running nodes, are searched instead.   *)
FindPeer(r) ==
  /\ pc[r] = "find"
  /\ \E inDHT \in BOOLEAN, topicPeers \in SUBSET online :
       pc' = [pc EXCEPT ![r] =
                IF inDHT \/ peer[r] \in topicPeers THEN "open" ELSE "error"]
  /\ UNCHANGED <<from, to, peer, wire, handleVars, histVars, envVars>>

(* NewStream authenticates the remote end: it reaches the process that     *)
(* holds the key of peer[r], another running node, or it fails.  Success   *)
(* starts the stream handler there.                                        *)
OpenStream(r) ==
  /\ pc[r] = "open"
  /\ \/ /\ pc' = [pc EXCEPT ![r] = "error"]
        /\ UNCHANGED <<wire, hpc, claimBound>>
     \/ /\ peer[r] \in online \ {from[r]}
        /\ pc' = [pc EXCEPT ![r] = "write"]
        /\ wire' = [wire EXCEPT ![r] = "open"]
        /\ hpc' = [hpc EXCEPT ![r] = "read"]
        /\ claimBound' = [claimBound EXCEPT ![r] = {ens[Claim(r)]}]
  /\ UNCHANGED <<from, to, peer, arr, hdr, target, todo, clashed,
                 toBound, envVars>>

(* Write and Flush of the DM and its terminating zero byte.  The stream is *)
(* not closed or reset by the sender on either outcome, and the reply      *)
(* "Sent" does not wait for the handler: a write into a stream whose reset *)
(* has not been noticed yet succeeds as well.                              *)
WriteDM(r) ==
  /\ pc[r] = "write"
  /\ \/ /\ wire' = [wire EXCEPT ![r] = IF @ = "open" THEN "data" ELSE @]
        /\ pc' = [pc EXCEPT ![r] = "sent"]
     \/ /\ pc' = [pc EXCEPT ![r] = "error"]
        /\ UNCHANGED wire
  /\ UNCHANGED <<from, to, peer, handleVars, histVars, envVars>>
-----------------------------------------------------------------------------
(* The handler goroutine of the stream, on node peer[r].                   *)

(* FAULT: an error of ReadBytes is retried.                                *)
ReadDMRetries(r) ==
  /\ hpc[r] = "read" /\ wire[r] = "data"
  /\ hpc' = [hpc EXCEPT ![r] =
               IF IsValid(Claim(r)) THEN "resolve" ELSE "dropped"]
  /\ UNCHANGED <<sendVars, wire, arr, hdr, target, todo, clashed, histVars,
                 envVars>>

(* ReadBytes returns the DM or the error of a reset stream; a DM whose DID *)
(* is not valid is dropped.                                                *)
ReadDM(r) ==
  /\ hpc[r] = "read"
  /\ \/ /\ wire[r] = "data"
        /\ hpc' = [hpc EXCEPT ![r] =
                     IF IsValid(Claim(r)) THEN "resolve" ELSE "dropped"]
     \/ /\ wire[r] = "reset"
        /\ hpc' = [hpc EXCEPT ![r] = "dropped"]
  /\ UNCHANGED <<sendVars, wire, arr, hdr, target, todo, clashed, histVars,
                 envVars>>

(* FAULT: the remote peer is not compared with the DID's peer.             *)
SenderUnchecked(r, key) == from[r] \in Nodes

(* The check of the remote peer against the peer the DID names.            *)
SenderMatches(r, key) == from[r] = key

(* FAULT: a record that was read earlier is used again.                    *)
SenderKeysCached(r) == claimBound[r] \cup {NoKey}

(* ResolveENS of the claimed DID.  When it fails the handler goes on with  *)
(* an empty record, whose key does not decode, so the DM is dropped.       *)
SenderKeys(r) == {ens[Claim(r)], NoKey}

ResolveSender(r) ==
  /\ hpc[r] = "resolve"
  /\ \E key \in SenderKeys(r) :
       hpc' = [hpc EXCEPT ![r] =
                 IF Usable(key) /\ SenderMatches(r, key)
                 THEN "accept" ELSE "dropped"]
  /\ UNCHANGED <<sendVars, wire, arr, hdr, target, todo, clashed, histVars,
                 envVars>>

(* The handlers of node n inside append.                                   *)
Appending(n) == {r \in Requests : hpc[r] = "store" /\ peer[r] = n}

(* DMs = append(DMs, dm), first half: load the header and make room.       *)
AppendLoad(r) ==
  /\ hpc[r] = "accept"
  /\ LET n == peer[r]
     IN /\ arr' = WithRoom(arr, hdr[n], r)
        /\ target' = [target EXCEPT ![r] = NextHeader(arr, hdr[n], r)]
        /\ clashed' = IF Appending(n) = {} THEN clashed
                      ELSE clashed \cup Appending(n) \cup {r}
  /\ todo' = [todo EXCEPT ![r] = Stores]
  /\ hpc' = [hpc EXCEPT ![r] = "store"]
  /\ UNCHANGED <<sendVars, wire, hdr, histVars, envVars>>

(* FAULT: the handler goes round again instead of returning.               *)
StoredTwice(r, what) ==
  /\ todo' = [todo EXCEPT ![r] = @ \ {what}]
  /\ hpc' = [hpc EXCEPT ![r] = IF todo[r] = {what} THEN "accept" ELSE "store"]

(* The handler returns after the last store of its append.                 *)
Stored(r, what) ==
  /\ todo' = [todo EXCEPT ![r] = @ \ {what}]
  /\ hpc' = [hpc EXCEPT ![r] = IF todo[r] = {what} THEN "done" ELSE "store"]

AppendHeader(r) ==
  /\ hpc[r] = "store" /\ "hdr" \in todo[r]
  /\ hdr' = [hdr EXCEPT ![peer[r]] = target[r]]
  /\ Stored(r, "hdr")
  /\ UNCHANGED <<sendVars, wire, arr, target, clashed, histVars, envVars>>

(* The element of DMs is a DM, stored field by field.                      *)
AppendField(r) ==
  /\ hpc[r] = "store"
  /\ \E f \in todo[r] \cap Fields :
       /\ arr' = [arr EXCEPT ![target[r].arr][target[r].len][f] = r]
       /\ Stored(r, f)
  /\ UNCHANGED <<sendVars, wire, hdr, target, clashed, histVars, envVars>>

(* GET /DM answers with the DMs slice.                                     *)
Inbox(n) == Visible(arr, hdr[n])
-----------------------------------------------------------------------------
(* The environment: ENS owners, the network, processes that stop.          *)

(* The owner of d changes its ipfsKey record.                              *)
Rebind(d) ==
  /\ rebinds < MaxRebinds
  /\ \E k \in (Nodes \cup {NoKey}) \ {ens[d]} :
       /\ ens' = [ens EXCEPT ![d] = k]
       /\ toBound' = [r \in Requests |->
            IF pc[r] = "resolve" /\ to[r] = d
            THEN toBound[r] \cup {k} ELSE toBound[r]]
       /\ claimBound' = [r \in Requests |->
            IF hpc[r] \in {"read", "resolve"} /\ Claim(r) = d
            THEN claimBound[r] \cup {k} ELSE claimBound[r]]
  /\ rebinds' = rebinds + 1
  /\ UNCHANGED <<sendVars, wire, handleVars, online, stops>>

(* The connection under a stream breaks, with whatever was in transit.     *)
LoseStream(r) ==
  /\ wire[r] \in {"open", "data"}
  /\ hpc[r] = "read"
  /\ wire' = [wire EXCEPT ![r] = "reset"]
  /\ UNCHANGED <<sendVars, handleVars, histVars, envVars>>

(* The process of n ends: its goroutines, its DMs and the streams it had   *)
(* not written to are gone.                                                *)
Stop(n) ==
  /\ n \in online
  /\ stops < MaxStops
  /\ online' = online \ {n}
  /\ stops' = stops + 1
  /\ pc' = [r \in Requests |->
       IF from[r] = n /\ pc[r] \notin {"sent", "error"} THEN "gone" ELSE pc[r]]
  /\ hpc' = [r \in Requests |->
       IF peer[r] # n \/ hpc[r] \in {"none", "dropped", "lost"} THEN hpc[r]
       ELSE IF hpc[r] = "done" THEN "lost" ELSE "dropped"]
  /\ wire' = [r \in Requests |->
       IF \/ peer[r] = n /\ wire[r] \in {"open", "data"}
          \/ from[r] = n /\ wire[r] = "open"
       THEN "reset" ELSE wire[r]]
  /\ arr' = [a \in DOMAIN arr |->
       IF a # Nil /\ peer[a] = n THEN <<>> ELSE arr[a]]
  /\ hdr' = [hdr EXCEPT ![n] = NilSlice]
  /\ clashed' = {r \in clashed : peer[r] # n}
  /\ UNCHANGED <<from, to, peer, target, todo, histVars, ens, rebinds>>

(* `flubber node run` starts the node again, with an empty DMs slice.      *)
Start(n) ==
  /\ n \notin online
  /\ online' = online \cup {n}
  /\ UNCHANGED <<sendVars, wire, handleVars, histVars, ens, rebinds, stops>>
-----------------------------------------------------------------------------
SendStep(r) ==
  \/ ResolveRecipient(r) \/ FindPeer(r) \/ OpenStream(r) \/ WriteDM(r)

HandleStep(r) ==
  \/ ReadDM(r) \/ ResolveSender(r)
  \/ AppendLoad(r) \/ AppendHeader(r) \/ AppendField(r)

Environment ==
  \/ \E d \in EnsDids : Rebind(d)
  \/ \E r \in Requests : LoseStream(r)
  \/ \E n \in Nodes : Stop(n) \/ Start(n)

Next ==
  \/ \E r \in Requests : PutDM(r) \/ SendStep(r) \/ HandleStep(r)
  \/ Environment

Spec == Init /\ [][Next]_vars

(* Goroutines are scheduled, and the calls they wait for return.           *)
Fairness ==
  \A r \in Requests : WF_vars(SendStep(r)) /\ WF_vars(HandleStep(r))

FairSpec == Spec /\ Fairness
-----------------------------------------------------------------------------
(* Every variable has its type.                                            *)
TypeOK ==
  /\ ens \in [Dids -> Nodes \cup {NoKey}]
  /\ online \subseteq Nodes
  /\ pc \in [Requests -> Senders]
  /\ from \in [Requests -> Nodes \cup {Nil}]
  /\ to \in [Requests -> Dids \cup {Nil}]
  /\ peer \in [Requests -> Nodes \cup {Nil}]
  /\ wire \in [Requests -> {"none", "open", "data", "reset"}]
  /\ hpc \in [Requests -> Handlers]
  /\ arr \in [Requests \cup {Nil} -> Seq([Fields -> Requests \cup {Nil}])]
  /\ hdr \in [Nodes -> [arr : Requests \cup {Nil}, len : Nat]]
  /\ target \in [Requests -> [arr : Requests \cup {Nil}, len : Nat]]
  /\ todo \in [Requests -> SUBSET Stores]
  /\ rebinds \in 0..MaxRebinds
  /\ stops \in 0..MaxStops
  /\ toBound \in [Requests -> SUBSET (Nodes \cup {NoKey})]
  /\ claimBound \in [Requests -> SUBSET (Nodes \cup {NoKey})]
  /\ clashed \subseteq Requests

(* The requests whose DMs GET /DM of n shows a field of.                   *)
ShownAt(n) == {dm[f] : dm \in Inbox(n), f \in Fields} \ {Nil}

(* Every field that GET /DM shows is of a DM that came from the peer that  *)
(* the DID it claims named at some moment while its handler ran            *)
(* (p2p/p2p.go:51-68), whatever the record said before or says now, and    *)
(* however appends raced.                                                  *)
Authentic ==
  \A n \in Nodes : \A r \in ShownAt(n) :
    IsValid(Claim(r)) /\ from[r] \in claimBound[r]

(* Nothing of a DM is shown but by a node that the DID it was sent to      *)
(* named while SendDM was resolving it (p2p/p2p.go:87-92, 114).            *)
RightRecipient ==
  \A n \in Nodes : \A r \in ShownAt(n) : n \in toBound[r]

(* The fields of a DM are never shown in two entries: racing appends,      *)
(* growing arrays and restarts neither repeat it nor spread it over two    *)
(* places (p2p/p2p.go:71).                                                 *)
AtMostOnce ==
  \A n, m \in Nodes : \A i \in 1..hdr[n].len, j \in 1..hdr[m].len :
    \A f, g \in Fields :
      /\ arr[hdr[n].arr][i][f] # Nil
      /\ arr[hdr[n].arr][i][f] = arr[hdr[m].arr][j][g]
      => n = m /\ i = j

(* Only a DM whose own append overlapped another one is ever missing from  *)
(* DMs, or there in part, once its handler has returned; and zero or mixed *)
(* entries are left only where appends overlapped (p2p/p2p.go:71).         *)
LossNeedsOverlap ==
  /\ \A r \in Requests \ clashed :
       hpc[r] = "done" => Whole(r) \in Inbox(peer[r])
  /\ \A n \in Nodes :
       Appending(n) = {} /\ (\A r \in clashed : peer[r] # n)
         => Inbox(n) \subseteq {Whole(r) : r \in Requests}

(* Direct messages implement authenticated mail.                           *)
MailStatus(r) ==
  CASE hpc[r] \in {"accept", "store", "done"} -> "accepted"
    [] hpc[r] \in {"dropped", "lost"} -> "over"
    [] peer[r] # Nil /\ hpc[r] \in {"none", "read", "resolve"} -> "routed"
    [] from[r] # Nil /\ peer[r] = Nil -> "posted"
    [] OTHER -> "new"

Status == [r \in Requests |-> MailStatus(r)]
Box == [n \in Nodes |-> ShownAt(n)]

Mail == INSTANCE AuthenticatedMail WITH
  Mails <- Requests, InitNames <- InitEns,
  names <- ens, status <- Status,
  src <- from, dest <- to, route <- peer,
  box <- Box

(* Every behaviour of the senders and handlers is one of authenticated     *)
(* mail: routed and accepted by the records of that moment, shown only if  *)
(* accepted (p2p/p2p.go:37-149).                                           *)
ImplementsMail == Mail!Spec

-----------------------------------------------------------------------------
(* The inductive invariant behind Authentic, RightRecipient and AtMostOnce.*)

(* A goroutine whose append has made room: its array and element exist.    *)
Holds(r) == hpc[r] \in {"store", "done"}

(* The handler starts after the sender has resolved and opened.            *)
StageInv ==
  \A r \in Requests :
    /\ pc[r] \in {"idle", "resolve", "find", "open"} => hpc[r] = "none"
    /\ IF pc[r] = "idle" THEN from[r] = Nil
                         ELSE from[r] \in Nodes /\ to[r] \in Dids
    /\ pc[r] \in {"idle", "resolve"} => peer[r] = Nil
    /\ pc[r] \in {"find", "open"} => peer[r] \in Nodes
    /\ hpc[r] # "none" => from[r] \in Nodes /\ peer[r] \in Nodes

(* The histories hold what the records named when it mattered.             *)
BoundInv ==
  \A r \in Requests :
    /\ pc[r] = "resolve" => ens[to[r]] \in toBound[r]
    /\ peer[r] # Nil => peer[r] \in toBound[r]
    /\ hpc[r] \in {"read", "resolve"} => ens[Claim(r)] \in claimBound[r]
    /\ hpc[r] \in {"resolve", "accept", "store", "done"} => IsValid(Claim(r))
    /\ hpc[r] \in {"accept", "store", "done"} => from[r] \in claimBound[r]

(* An array belongs to the handler that allocated it, and its fields are   *)
(* from DMs of handlers of the same node that have stored that field.      *)
ArrayInv ==
  /\ arr[Nil] = <<>>
  /\ \A a \in Requests :
       /\ ~Holds(a) => arr[a] = <<>>
       /\ \A i \in 1..Len(arr[a]), f \in Fields :
            arr[a][i][f] # Nil =>
              /\ Holds(arr[a][i][f])
              /\ f \notin todo[arr[a][i][f]]
              /\ peer[arr[a][i][f]] = peer[a]

(* A header names the nil array or one of its own node's arrays.           *)
HeaderInv ==
  \A n \in Nodes :
    /\ hdr[n].len <= Len(arr[hdr[n].arr])
    /\ hdr[n].arr # Nil => peer[hdr[n].arr] = n /\ Holds(hdr[n].arr)

(* So does the header an append is about to store.                         *)
TargetInv ==
  \A r \in Requests : hpc[r] = "store" =>
    /\ target[r].arr \in Requests
    /\ peer[target[r].arr] = peer[r] /\ Holds(target[r].arr)
    /\ target[r].len \in 1..Len(arr[target[r].arr])

(* Every array has the fields of a DM at the place its append chose.       *)
PlaceInv ==
  \A a \in Requests : \A i \in 1..Len(arr[a]), f \in Fields :
    arr[a][i][f] # Nil => i = target[arr[a][i][f]].len

(* How the goroutines, histories, arrays and headers fit together at every *)
(* step of append (p2p/p2p.go:37-149).                                     *)
IInv ==
  /\ TypeOK
  /\ StageInv
  /\ BoundInv
  /\ ArrayInv
  /\ HeaderInv
  /\ TargetInv
  /\ PlaceInv
-----------------------------------------------------------------------------
(* Every PUT /DM is answered, unless the node stops (node/node.go:214).    *)
Answered ==
  \A r \in Requests :
    pc[r] # "idle" ~> pc[r] \in {"sent", "error", "gone"}

(* A handler whose stream carries a DM, or was reset, comes to an end: it  *)
(* stores the DM, drops it, or ends with its process (p2p/p2p.go:38-73).   *)
HandlerEnds ==
  \A r \in Requests :
    wire[r] \in {"data", "reset"} ~> hpc[r] \in {"done", "dropped", "lost"}
=============================================================================

------------------------- MODULE AuthenticatedMail -------------------------
(***************************************************************************)
(* What Flubber's direct messages promise: a mail goes to the node that    *)
(* the recipient's DID names when it is routed, it is accepted only while  *)
(* the DID it claims names the node it came from, and a node shows nothing *)
(* but mail it has accepted.  Nothing promises that a mail arrives or that *)
(* accepted mail stays visible.                                            *)
(***************************************************************************)
CONSTANTS
  Nodes,        \* the nodes, which are the keys that names are bound to
  Dids,         \* the names
  Mails,
  ConfigDid,    \* the name each node claims
  InitNames,    \* the node, or NoKey, each name is bound to at first
  NoKey,        \* an unbound name
  Nil

VARIABLES
  names,        \* the node each name is bound to now
  status,       \* "new", "posted", "routed", "accepted" or "over"
  src, dest,    \* the node a mail comes from, the name it goes to
  route,        \* the node it goes to
  box           \* box[n]: the mails that node n shows

vars == <<names, status, src, dest, route, box>>

Init ==
  /\ names = InitNames
  /\ status = [m \in Mails |-> "new"]
  /\ src = [m \in Mails |-> Nil]
  /\ dest = [m \in Mails |-> Nil]
  /\ route = [m \in Mails |-> Nil]
  /\ box = [n \in Nodes |-> {}]

Rebind(d) ==
  /\ \E k \in Nodes \cup {NoKey} : names' = [names EXCEPT ![d] = k]
  /\ UNCHANGED <<status, src, dest, route, box>>

Post(m) ==
  /\ status[m] = "new"
  /\ status' = [status EXCEPT ![m] = "posted"]
  /\ \E n \in Nodes, d \in Dids :
       src' = [src EXCEPT ![m] = n] /\ dest' = [dest EXCEPT ![m] = d]
  /\ UNCHANGED <<names, route, box>>

Route(m) ==
  /\ status[m] = "posted"
  /\ names[dest[m]] \in Nodes
  /\ status' = [status EXCEPT ![m] = "routed"]
  /\ route' = [route EXCEPT ![m] = names[dest[m]]]
  /\ UNCHANGED <<names, src, dest, box>>

Accept(m) ==
  /\ status[m] = "routed"
  /\ names[ConfigDid[src[m]]] = src[m]
  /\ status' = [status EXCEPT ![m] = "accepted"]
  /\ UNCHANGED <<names, src, dest, route, box>>

Refuse(m) ==
  /\ status[m] = "routed"
  /\ status' = [status EXCEPT ![m] = "over"]
  /\ UNCHANGED <<names, src, dest, route, box>>

Accepted(n) == {m \in Mails : status[m] = "accepted" /\ route[m] = n}

(* Accepted mail may become visible, or be lost from view.                 *)
Show(n) ==
  /\ \E shown \in SUBSET Accepted(n) : box' = [box EXCEPT ![n] = shown]
  /\ UNCHANGED <<names, status, src, dest, route>>

(* A process that ends takes its mail with it for good, and whatever is on *)
(* its way to it may be over as well.                                      *)
Forget(n) ==
  /\ box' = [box EXCEPT ![n] = {}]
  /\ \E onTheWay \in SUBSET {m \in Mails : status[m] = "routed" /\ route[m] = n} :
       status' = [m \in Mails |->
                    IF m \in onTheWay \cup Accepted(n) THEN "over" ELSE status[m]]
  /\ UNCHANGED <<names, src, dest, route>>

Next ==
  \/ \E d \in Dids : Rebind(d)
  \/ \E m \in Mails : Post(m) \/ Route(m) \/ Accept(m) \/ Refuse(m)
  \/ \E n \in Nodes : Show(n) \/ Forget(n)

Spec == Init /\ [][Next]_vars
=============================================================================

--------------------------- MODULE Subscriptions ---------------------------
(***************************************************************************)
(* The topic subscriptions of one Flubber node: the process-wide map       *)
(* Subscriptions of ipfs/ipfs.go and the handlers of node/node.go that use *)
(* it: GET and PUT /messages, PUT /subscriptions, GET /stream/messages.    *)
(*                                                                         *)
(* A subscription handle is named after the request that opened it, and    *)
(* those opened by StartIPFSNode after their topic.  A message is named    *)
(* after the PUT /messages request that publishes it; the messages of      *)
(* other nodes arrive on their own.  The pubsub service behind the handles *)
(* is external: it hands each message that arrives to every open handle of *)
(* its topic, and drops it where the handle's buffer is full.              *)
(***************************************************************************)
EXTENDS Naturals, Sequences, FiniteSets

CONSTANTS
  Topics,
  BootTopics,   \* the topics StartIPFSNode subscribes to
  Gets,         \* GET /messages requests
  Puts,         \* PUT /subscriptions requests
  Streams,      \* GET /stream/messages requests
  Own,          \* PUT /messages requests and the messages they publish
  Remote,       \* messages of other nodes
  BufSize,      \* BufSize[h]: the buffer of a handle in pubsub
  Nil

(* Requests, messages and handles have names of their own.                 *)
ASSUME SubscriptionsAssumption ==
  /\ BootTopics \subseteq Topics
  /\ Nil \notin Topics \cup Puts \cup Streams
  /\ LET kinds == <<BootTopics, Gets, Puts, Streams, Own, Remote>>
     IN \A i, j \in 1..6 : i # j => kinds[i] \cap kinds[j] = {}
  /\ "waiting" \notin Gets \cup Streams
  /\ BufSize \in [BootTopics \cup Puts \cup Streams -> Nat \ {0}]

Handles  == BootTopics \cup Puts \cup Streams
Requests == Gets \cup Puts \cup Streams \cup Own
Msgs     == Own \cup Remote

VARIABLES
  node,         \* "run", "cancelled" after Ctrl-C, "down" when the process ends
  table,        \* the map Subscriptions
  pc,           \* where the goroutine of a request is
  topic,        \* the topic of a request, handle or remote message
  open,         \* the handles pubsub delivers to
  queue,        \* queue[h]: the buffer of a handle
  sub,          \* the handle a GET /messages found, a PUT /messages saw
  got,          \* what a GET has collected, a stream has begun to write
  expired,      \* the GETs whose deadline has passed
  bad,          \* the remote messages that are not gob-encoded
  gone,         \* the streams whose client has disconnected
  due,          \* history: what has arrived since a handle was opened
  full          \* history: what a handle's full buffer has dropped

envVars == <<node, bad, expired, gone>>
subVars == <<table, open, queue, due, full>>
vars == <<subVars, pc, topic, sub, got, envVars>>

Elements(s) == {s[i] : i \in 1..Len(s)}

Alive == node # "down"

(* The requests with a step inside the Go map while p is writing to it.    *)
Storing == {p \in Puts : pc[p] = "storing"}
Looking == {r \in Gets \cup Own : pc[r] = "lookup"}
-----------------------------------------------------------------------------
Init ==
  /\ node = "run"
  /\ table = [t \in Topics |-> IF t \in BootTopics THEN t ELSE Nil]
  /\ pc = [r \in Requests \cup Remote |-> "idle"]
  /\ topic = [x \in Requests \cup Remote \cup BootTopics |->
                IF x \in BootTopics THEN x ELSE Nil]
  /\ open = BootTopics
  /\ queue = [h \in Handles |-> <<>>]
  /\ sub = [r \in Gets \cup Own |-> Nil]
  /\ got = [r \in Gets \cup Streams |-> <<>>]
  /\ expired = {}
  /\ bad \in SUBSET Remote
  /\ gone = {}
  /\ due = [h \in Handles |-> <<>>]
  /\ full = [h \in Handles |-> {}]

(* A request arrives with its Topic argument.                              *)
Begin(r, next) ==
  /\ Alive
  /\ pc[r] = "idle"
  /\ \E t \in Topics : topic' = [topic EXCEPT ![r] = t]
  /\ pc' = [pc EXCEPT ![r] = next]

Goto(r, next) == pc' = [pc EXCEPT ![r] = next]
-----------------------------------------------------------------------------
(* PUT /subscriptions: SubscribeToTopic.                                   *)

(* Pubsub opens a new handle, whatever the map holds for the topic.        *)
Subscribe(p) ==
  /\ \/ /\ Begin(p, "store")
        /\ open' = open \cup {p}
     \/ /\ Begin(p, "error")
        /\ UNCHANGED open
  /\ UNCHANGED <<table, queue, sub, got, due, full, envVars>>

(* Subscriptions[topic] = s, in two steps because nothing locks the map.   *)
StoreBegins(p) ==
  /\ Alive /\ pc[p] = "store"
  /\ Goto(p, "storing")
  /\ UNCHANGED <<subVars, topic, sub, got, envVars>>

(* FAULT: the subscription that is replaced is closed.                     *)
StoreClosing(p) ==
  /\ Alive /\ pc[p] = "storing"
  /\ table' = [table EXCEPT ![topic[p]] = p]
  /\ open' = open \ {table[topic[p]]}
  /\ Goto(p, "done")
  /\ UNCHANGED <<topic, queue, due, full, sub, got, envVars>>

(* The handle that is replaced stays open, with its buffer.                *)
StoreEnds(p) ==
  /\ Alive /\ pc[p] = "storing"
  /\ table' = [table EXCEPT ![topic[p]] = p]
  /\ Goto(p, "done")
  /\ UNCHANGED <<topic, open, queue, due, full, sub, got, envVars>>

(* The Go runtime may notice an access to the map during a write, and ends *)
(* the process.                                                            *)
MapFault ==
  /\ Alive
  /\ Storing # {}
  /\ Looking # {} \/ Cardinality(Storing) > 1
  /\ node' = "down"
  /\ UNCHANGED <<subVars, pc, topic, sub, got, bad, expired, gone>>
-----------------------------------------------------------------------------
(* GET /messages: GetSubscriptionMessages.                                 *)

GetMessages(g) ==
  /\ Begin(g, "lookup")
  /\ UNCHANGED <<subVars, sub, got, envVars>>

Lookup(g) ==
  /\ Alive /\ pc[g] = "lookup"
  /\ sub' = [sub EXCEPT ![g] = table[topic[g]]]
  /\ Goto(g, IF table[topic[g]] = Nil THEN "error" ELSE "read")
  /\ UNCHANGED <<subVars, topic, got, envVars>>

(* FAULT: the decoding error is ignored.                                   *)
CollectUndecoded(r, h) ==
  /\ queue[h] # <<>>
  /\ queue' = [queue EXCEPT ![h] = Tail(@)]
  /\ got' = [got EXCEPT ![r] = Append(@, Head(queue[h]))]

(* FAULT: the context is looked at after the message has been taken.       *)
CollectLate(r, h) ==
  /\ queue[h] # <<>>
  /\ queue' = [queue EXCEPT ![h] = Tail(@)]
  /\ got' = [got EXCEPT ![r] =
               IF Head(queue[h]) \in bad \/ node = "cancelled" \/ r \in expired
               THEN @ ELSE Append(@, Head(queue[h]))]

(* FAULT: the answer is built from its end.                                *)
CollectInFront(r, h) ==
  /\ queue[h] # <<>>
  /\ queue' = [queue EXCEPT ![h] = Tail(@)]
  /\ got' = [got EXCEPT ![r] = IF Head(queue[h]) \in bad THEN @
                               ELSE <<Head(queue[h])>> \o @]

(* s.Next returned a message: it leaves the buffer, and is collected when  *)
(* it decodes.                                                             *)
Collect(r, h) ==
  /\ queue[h] # <<>>
  /\ queue' = [queue EXCEPT ![h] = Tail(@)]
  /\ got' = [got EXCEPT ![r] =
               IF Head(queue[h]) \in bad THEN @ ELSE Append(@, Head(queue[h]))]

(* The context is done when the deadline has passed or Ctrl-C was pressed. *)
(* With a message in the buffer as well, s.Next returns either.            *)
ReadNext(g) ==
  /\ Alive /\ pc[g] = "read"
  /\ Collect(g, sub[g])
  /\ UNCHANGED <<pc, topic, table, open, due, full, sub, envVars>>

(* FAULT: only the node's context ends the loop, not the deadline.         *)
AnswerAtShutdown(g) ==
  /\ Alive /\ pc[g] = "read"
  /\ node = "cancelled"
  /\ Goto(g, "answered")
  /\ UNCHANGED <<subVars, topic, sub, got, envVars>>

Answer(g) ==
  /\ Alive /\ pc[g] = "read"
  /\ g \in expired \/ node = "cancelled"
  /\ Goto(g, "answered")
  /\ UNCHANGED <<subVars, topic, sub, got, envVars>>
-----------------------------------------------------------------------------
(* PUT /messages: PublishSubscriptionMessage.                              *)

PutMessage(m) ==
  /\ Begin(m, "lookup")
  /\ UNCHANGED <<subVars, sub, got, envVars>>

(* Only the presence of the topic in the map matters; pubsub may refuse.   *)
Publish(m) ==
  /\ Alive /\ pc[m] = "lookup"
  /\ sub' = [sub EXCEPT ![m] = table[topic[m]]]
  /\ \/ Goto(m, "error")
     \/ table[topic[m]] # Nil /\ Goto(m, "published")
  /\ UNCHANGED <<subVars, topic, got, envVars>>

(* Pubsub hands m to the open handles of its topic.                        *)
Receivers(t) == {h \in open : topic[h] = t}

Hand(m, t) ==
  /\ due' = [h \in Handles |->
       IF h \in Receivers(t) THEN Append(due[h], m) ELSE due[h]]
  /\ queue' = [h \in Handles |->
       IF h \in Receivers(t) /\ Len(queue[h]) < BufSize[h]
       THEN Append(queue[h], m) ELSE queue[h]]
  /\ full' = [h \in Handles |->
       IF h \in Receivers(t) /\ Len(queue[h]) >= BufSize[h]
       THEN full[h] \cup {m} ELSE full[h]]

(* A published message reaches the publishing node's own handles too.      *)
ArriveOwn(m) ==
  /\ Alive /\ pc[m] = "published"
  /\ Hand(m, topic[m])
  /\ Goto(m, "arrived")
  /\ UNCHANGED <<topic, table, open, sub, got, envVars>>

ArriveRemote(m) ==
  /\ \E t \in Topics : Hand(m, t)
  /\ Begin(m, "arrived")
  /\ UNCHANGED <<table, open, sub, got, envVars>>
-----------------------------------------------------------------------------
(* GET /stream/messages: wsMessages, which has a handle of its own.        *)

StreamOpen(w) ==
  /\ \/ Begin(w, "read") /\ open' = open \cup {w}
     \/ Begin(w, "error") /\ UNCHANGED open
  /\ UNCHANGED <<table, queue, sub, got, due, full, envVars>>

(* s.Next returned a message, and WriteJSON is called when it decodes; of  *)
(* what is written after the client has gone nothing is left.              *)
StreamNext(w) ==
  /\ Alive /\ pc[w] = "read"
  /\ \/ w \notin gone /\ Collect(w, w)
     \/ /\ w \in gone /\ queue[w] # <<>>
        /\ queue' = [queue EXCEPT ![w] = Tail(@)]
        /\ UNCHANGED got
  /\ Goto(w, IF Head(queue[w]) \in bad THEN "read" ELSE "write")
  /\ UNCHANGED <<topic, table, open, due, full, sub, envVars>>

(* WriteJSON returns, and its error is ignored.  It has no deadline, and   *)
(* need not return while a client that has not gone does not read.         *)
StreamWritten(w) ==
  /\ Alive /\ pc[w] = "write"
  /\ Goto(w, "read")
  /\ UNCHANGED <<subVars, topic, sub, got, envVars>>

(* Only s.Next looks at the context, and ends the loop when it is          *)
(* cancelled; s and conn are closed.                                       *)
StreamEnd(w) ==
  /\ Alive /\ pc[w] = "read"
  /\ node = "cancelled"
  /\ open' = open \ {w}
  /\ Goto(w, "closed")
  /\ UNCHANGED <<topic, table, queue, due, full, sub, got, envVars>>
-----------------------------------------------------------------------------
(* Timers, clients and the process.                                        *)

Expire(g) ==
  /\ Alive /\ pc[g] = "read" /\ g \notin expired
  /\ expired' = expired \cup {g}
  /\ UNCHANGED <<subVars, pc, topic, sub, got, bad, node, gone>>

Disconnect(w) ==
  /\ pc[w] \in {"read", "write"} /\ w \notin gone
  /\ gone' = gone \cup {w}
  /\ UNCHANGED <<subVars, pc, topic, sub, got, bad, node, expired>>

(* Ctrl-C cancels the node's context; some time later Run returns, without *)
(* waiting for the handlers, and the process ends.                         *)
Cancel ==
  /\ node = "run"
  /\ node' = "cancelled"
  /\ UNCHANGED <<subVars, pc, topic, sub, got, bad, expired, gone>>

Exit ==
  /\ node = "cancelled"
  /\ node' = "down"
  /\ UNCHANGED <<subVars, pc, topic, sub, got, bad, expired, gone>>
-----------------------------------------------------------------------------
PutStep(p) == Subscribe(p) \/ StoreBegins(p) \/ StoreEnds(p)
GetStep(g) == Lookup(g) \/ ReadNext(g) \/ Answer(g)
StreamStep(w) == StreamNext(w) \/ StreamWritten(w) \/ StreamEnd(w)

Next ==
  \/ \E p \in Puts : PutStep(p)
  \/ \E g \in Gets : GetMessages(g) \/ GetStep(g) \/ Expire(g)
  \/ \E m \in Own : PutMessage(m) \/ Publish(m) \/ ArriveOwn(m)
  \/ \E m \in Remote : ArriveRemote(m)
  \/ \E w \in Streams : StreamOpen(w) \/ StreamStep(w) \/ Disconnect(w)
  \/ MapFault \/ Cancel \/ Exit

Spec == Init /\ [][Next]_vars

(* The goroutines of GETs run, timers fire, and a select whose context is  *)
(* done does not choose the other branch for ever.  A stream need not go   *)
(* on: its client may never read.                                          *)
Fairness ==
  \A g \in Gets : WF_vars(Lookup(g)) /\ WF_vars(Expire(g)) /\ WF_vars(Answer(g))

FairSpec == Spec /\ Fairness
-----------------------------------------------------------------------------
(* Every variable has its type.                                            *)
TypeOK ==
  /\ node \in {"run", "cancelled", "down"}
  /\ table \in [Topics -> BootTopics \cup Puts \cup {Nil}]
  /\ pc \in [Requests \cup Remote ->
       {"idle", "store", "storing", "done", "lookup", "read", "write",
        "published", "arrived", "answered", "closed", "error"}]
  /\ topic \in [Requests \cup Remote \cup BootTopics -> Topics \cup {Nil}]
  /\ open \subseteq Handles
  /\ queue \in [Handles -> Seq(Msgs)]
  /\ sub \in [Gets \cup Own -> BootTopics \cup Puts \cup {Nil}]
  /\ got \in [Gets \cup Streams -> Seq(Msgs \ bad)]
  /\ expired \subseteq Gets
  /\ bad \subseteq Remote
  /\ gone \subseteq Streams
  /\ due \in [Handles -> Seq(Msgs)]
  /\ full \in [Handles -> SUBSET Msgs]

(* The readers of a handle: the GETs that found it in the map.             *)
ReadersOf(h) == {g \in Gets : sub[g] = h} \cup ({h} \cap Streams)

(* A message that arrived at a handle is in exactly one place: its buffer, *)
(* one reader's answer, or among those a full buffer dropped; only what    *)
(* does not decode, or was written to a client that had gone, is in none   *)
(* (ipfs/ipfs.go:569-598, node/node.go:354-379).                           *)
InOnePlace ==
  \A h \in Handles : \A m \in Elements(due[h]) :
    LET takers == {r \in ReadersOf(h) : m \in Elements(got[r])}
        places == Cardinality(takers)
                    + (IF m \in Elements(queue[h]) THEN 1 ELSE 0)
                    + (IF m \in full[h] THEN 1 ELSE 0)
    IN IF m \in bad \/ h \in gone THEN places <= 1 ELSE places = 1

(* The state invariant: every variable has its type and every message its  *)
(* place (ipfs/ipfs.go:569-598, node/node.go:354-379).                     *)
DeliveryInv == TypeOK /\ InOnePlace

(* Where a message stands in the arrivals of a handle.                     *)
Position(h, m) == CHOOSE i \in 1..Len(due[h]) : due[h][i] = m

Increasing(s, h) ==
  \A i, j \in 1..Len(s) : i < j => Position(h, s[i]) < Position(h, s[j])

(* However the GETs of a topic interleave, each answer is in the order of  *)
(* arrival, and older than all that is left in the buffer                  *)
(* (ipfs/ipfs.go:575-596).                                                 *)
InOrder ==
  \A h \in Handles : \A r \in ReadersOf(h) :
    Increasing(got[r] \o queue[h], h)

(* What has become of a handle, and of each message that arrived at it.    *)
Phase ==
  [h \in Handles |-> IF h \in open THEN "open"
                     ELSE IF h \in Streams /\ pc[h] = "closed" THEN "closed"
                     ELSE "none"]

FateOf(h, m) ==
  CASE m \in full[h] -> "dropped"
    [] m \in Elements(queue[h]) -> "waiting"
    [] \E r \in ReadersOf(h) : m \in Elements(got[r]) ->
         CHOOSE r \in ReadersOf(h) : m \in Elements(got[r])
    [] OTHER -> "lost"

Fate == [h \in Handles |-> [i \in 1..Len(due[h]) |-> FateOf(h, due[h][i])]]

Delivery == INSTANCE TopicDelivery WITH
  Readers <- Gets \cup Streams,
  phase <- Phase,
  log <- due,
  fate <- Fate,
  unreadable <- bad,
  left <- gone

(* Each subscription keeps the promise of TopicDelivery, whatever GETs,    *)
(* streams, subscriptions of the same topic and shutdown do to each other  *)
(* (ipfs/ipfs.go:556-598, node/node.go:333-380).                           *)
ImplementsDelivery == Delivery!Spec

(* A message that PUT /messages published while the node was subscribed    *)
(* reaches, on arrival, the handle that was subscribed then, also when the *)
(* topic was subscribed to again meanwhile (ipfs/ipfs.go:556-563, 600-612).*)
ReachesSubscriber ==
  \A m \in Own : pc[m] = "arrived" => m \in Elements(due[sub[m]])

(* GET /messages answers by its deadline or at shutdown, unless the        *)
(* process ends first (node/node.go:205, ipfs/ipfs.go:575-579).            *)
GetsAnswered ==
  \A g \in Gets :
    pc[g] = "lookup" ~> pc[g] \in {"answered", "error"} \/ ~Alive
=============================================================================

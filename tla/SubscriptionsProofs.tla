------------------------ MODULE SubscriptionsProofs ------------------------
(***************************************************************************)
(* Proofs about the topic subscriptions of one node, for any requests,     *)
(* topics, messages and buffers: that IInv is an inductive invariant of    *)
(* Subscriptions, that the invariants TLC checks follow from it, and that  *)
(* every step is one of TopicDelivery or changes nothing there.            *)
(***************************************************************************)
EXTENDS Subscriptions, FiniteSetTheorems, TLAPS

Places == {"idle", "store", "storing", "done", "lookup", "read", "write", "published",
           "arrived", "answered", "closed", "error"}

(* Which handles are open, and that a handle in the map is open and of its *)
(* topic; a request knows a handle after it has looked.                    *)
StageInv ==
  /\ BootTopics \subseteq open
  /\ \A t \in BootTopics : topic[t] = t
  /\ \A p \in Puts : p \in open <=> pc[p] \in {"store", "storing", "done"}
  /\ \A w \in Streams : w \in open <=> pc[w] \in {"read", "write"}
  /\ \A h \in open : topic[h] \in Topics
  /\ \A t \in Topics : table[t] # Nil =>
       table[t] \in open /\ topic[table[t]] = t
  /\ \A g \in Gets :
       /\ pc[g] \in {"idle", "lookup", "error"} => sub[g] = Nil
       /\ pc[g] = "read" => sub[g] # Nil
       /\ sub[g] # Nil => sub[g] \in open
       /\ sub[g] = Nil => got[g] = <<>>
  /\ \A m \in Own :
       /\ pc[m] \in {"published", "arrived"} =>
            /\ sub[m] # Nil /\ sub[m] \in open
            /\ topic[sub[m]] = topic[m]
       /\ pc[m] = "arrived" => m \in Elements(due[sub[m]])

(* A request that has begun has a topic.                                   *)
TopicInv ==
  \A r \in Requests : pc[r] # "idle" => topic[r] \in Topics

(* Every message arrives once.                                             *)
DueInv ==
  \A h \in Handles :
    /\ \A i \in 1..Len(due[h]) : pc[due[h][i]] = "arrived"
    /\ \A i, j \in 1..Len(due[h]) : due[h][i] = due[h][j] => i = j

(* No message has two places, and those without one are accounted for.     *)
PlaceInv ==
  \A h \in Handles :
    /\ Elements(queue[h]) \subseteq Elements(due[h])
    /\ full[h] \subseteq Elements(due[h]) \ Elements(queue[h])
    /\ \A r \in ReadersOf(h) :
         /\ Elements(got[r]) \subseteq Elements(due[h])
         /\ Elements(got[r]) \cap (Elements(queue[h]) \cup full[h]) = {}
         /\ \A q \in ReadersOf(h) \ {r} :
              Elements(got[r]) \cap Elements(got[q]) = {}
    /\ h \notin gone =>
         \A m \in Elements(due[h]) \ bad :
           \/ m \in Elements(queue[h]) \cup full[h]
           \/ \E r \in ReadersOf(h) : m \in Elements(got[r])

(* x arrived before y, in the arrivals s.                                  *)
Before(s, x, y) ==
  \A i, j \in 1..Len(s) : s[i] = x /\ s[j] = y => i < j

Ordered(s, t) == \A i, j \in 1..Len(t) : i < j => Before(s, t[i], t[j])

(* Buffers and answers are in the order of arrival, answers older than     *)
(* buffers.                                                                *)
OrderInv ==
  \A h \in Handles :
    /\ Ordered(due[h], queue[h])
    /\ \A r \in ReadersOf(h) :
         /\ Ordered(due[h], got[r])
         /\ \A x \in Elements(got[r]), y \in Elements(queue[h]) :
              Before(due[h], x, y)

IInv ==
  /\ TypeOK
  /\ StageInv
  /\ TopicInv
  /\ DueInv
  /\ PlaceInv
  /\ OrderInv
-----------------------------------------------------------------------------
(* The kinds of names do not mix.                                          *)
LEMMA NameFacts ==
  /\ BootTopics \subseteq Topics
  /\ Nil \notin Topics /\ Nil \notin BootTopics
  /\ Nil \notin Puts /\ Nil \notin Streams
  /\ BootTopics \cap Gets = {} /\ BootTopics \cap Puts = {}
  /\ BootTopics \cap Streams = {} /\ BootTopics \cap Own = {}
  /\ BootTopics \cap Remote = {}
  /\ Gets \cap Puts = {} /\ Gets \cap Streams = {} /\ Gets \cap Own = {}
  /\ Gets \cap Remote = {}
  /\ Puts \cap Streams = {} /\ Puts \cap Own = {} /\ Puts \cap Remote = {}
  /\ Streams \cap Own = {} /\ Streams \cap Remote = {}
  /\ Own \cap Remote = {}
<1> DEFINE kinds == <<BootTopics, Gets, Puts, Streams, Own, Remote>>
<1>1. \A i, j \in 1..6 : i # j => kinds[i] \cap kinds[j] = {}
  BY SubscriptionsAssumption
<1>2. /\ kinds[1] = BootTopics /\ kinds[2] = Gets /\ kinds[3] = Puts
      /\ kinds[4] = Streams /\ kinds[5] = Own /\ kinds[6] = Remote
  OBVIOUS
<1> HIDE DEF kinds
<1>3. /\ kinds[1] \cap kinds[2] = {} /\ kinds[1] \cap kinds[3] = {}
      /\ kinds[1] \cap kinds[4] = {} /\ kinds[1] \cap kinds[5] = {}
      /\ kinds[1] \cap kinds[6] = {}
  BY <1>1
<1>4. /\ kinds[2] \cap kinds[3] = {} /\ kinds[2] \cap kinds[4] = {}
      /\ kinds[2] \cap kinds[5] = {} /\ kinds[2] \cap kinds[6] = {}
  BY <1>1
<1>5. /\ kinds[3] \cap kinds[4] = {} /\ kinds[3] \cap kinds[5] = {}
      /\ kinds[3] \cap kinds[6] = {}
  BY <1>1
<1>6. /\ kinds[4] \cap kinds[5] = {} /\ kinds[4] \cap kinds[6] = {}
      /\ kinds[5] \cap kinds[6] = {}
  BY <1>1
<1> QED
  BY <1>2, <1>3, <1>4, <1>5, <1>6, SubscriptionsAssumption

(* The elements of a sequence are those at its indices.                    *)
LEMMA ElementsDef ==
  \A s, x : x \in Elements(s) <=> \E i \in 1..Len(s) : s[i] = x
BY DEF Elements

LEMMA ElementsAppend ==
  ASSUME NEW S, NEW s \in Seq(S), NEW e \in S
  PROVE  /\ Elements(Append(s, e)) = Elements(s) \cup {e}
         /\ Elements(s) \subseteq S
<1>1. /\ Append(s, e) \in Seq(S) /\ Len(s) \in Nat
      /\ Len(Append(s, e)) = Len(s) + 1
      /\ \A i \in 1..Len(s) : Append(s, e)[i] = s[i]
      /\ Append(s, e)[Len(s) + 1] = e
  OBVIOUS
<1>2. \A i \in 1..(Len(s) + 1) : i \in 1..Len(s) \/ i = Len(s) + 1
  BY <1>1
<1>3. \A i \in 1..Len(s) : i \in 1..(Len(s) + 1)
  BY <1>1
<1>4. Len(s) + 1 \in 1..(Len(s) + 1)
  BY <1>1
<1>5. \A i \in 1..Len(s) : s[i] \in S
  OBVIOUS
<1> QED
  BY <1>1, <1>2, <1>3, <1>4, <1>5 DEF Elements

(* Taking the first element of a sequence.                                 *)
LEMMA TailFacts ==
  ASSUME NEW S, NEW s \in Seq(S), s # <<>>
  PROVE  /\ Tail(s) \in Seq(S) /\ Head(s) \in S /\ Head(s) = s[1]
         /\ Len(s) \in Nat /\ 1 \in 1..Len(s)
         /\ Len(Tail(s)) \in Nat /\ Len(Tail(s)) = Len(s) - 1
         /\ \A i \in 1..Len(Tail(s)) :
              i + 1 \in 1..Len(s) /\ Tail(s)[i] = s[i + 1]
         /\ Elements(s) = Elements(Tail(s)) \cup {Head(s)}
<1>1. /\ Tail(s) \in Seq(S) /\ Head(s) \in S /\ Head(s) = s[1]
      /\ Len(s) \in Nat /\ Len(s) # 0
      /\ Len(Tail(s)) \in Nat /\ Len(Tail(s)) = Len(s) - 1
  OBVIOUS
<1>2. 1 \in 1..Len(s)
  BY <1>1
<1>3. \A i \in 1..Len(Tail(s)) : Tail(s)[i] = s[i + 1]
  OBVIOUS
<1>4. \A i \in 1..Len(Tail(s)) : i + 1 \in 1..Len(s)
  BY <1>1
<1>5. \A i \in 1..Len(s) : i = 1 \/ (i - 1 \in 1..Len(Tail(s)) /\ i - 1 + 1 = i)
  BY <1>1
<1>6. Elements(s) = Elements(Tail(s)) \cup {Head(s)}
  <2>1. ASSUME NEW x \in Elements(s)
        PROVE  x \in Elements(Tail(s)) \cup {Head(s)}
    <3>1. PICK i \in 1..Len(s) : s[i] = x
      BY ElementsDef
    <3>2. CASE i = 1
      BY <1>1, <3>1, <3>2
    <3>3. CASE i # 1
      <4>1. i - 1 \in 1..Len(Tail(s)) /\ i - 1 + 1 = i
        BY <1>5, <3>3
      <4>2. Tail(s)[i - 1] = x
        BY <1>3, <3>1, <4>1
      <4> QED
        BY <4>1, <4>2, ElementsDef
    <3> QED
      BY <3>2, <3>3
  <2>2. ASSUME NEW x \in Elements(Tail(s))
        PROVE  x \in Elements(s)
    <3>1. PICK i \in 1..Len(Tail(s)) : Tail(s)[i] = x
      BY ElementsDef
    <3> QED
      BY <1>3, <1>4, <3>1, ElementsDef
  <2>3. Head(s) \in Elements(s)
    BY <1>1, <1>2, ElementsDef
  <2> QED
    BY <2>1, <2>2, <2>3
<1> QED
  BY <1>1, <1>2, <1>3, <1>4, <1>6

(* A message that had not arrived comes after all that had.                *)
LEMMA BeforeAppend ==
  ASSUME NEW S, NEW s \in Seq(S), NEW e \in S, e \notin Elements(s)
  PROVE  /\ \A x \in Elements(s), y \in Elements(s) :
              Before(s, x, y) => Before(Append(s, e), x, y)
         /\ \A x \in Elements(s) : Before(Append(s, e), x, e)
<1>1. /\ Append(s, e) \in Seq(S) /\ Len(s) \in Nat
      /\ Len(Append(s, e)) = Len(s) + 1
      /\ \A i \in 1..Len(s) : Append(s, e)[i] = s[i]
      /\ Append(s, e)[Len(s) + 1] = e
  OBVIOUS
<1>2. \A i \in 1..(Len(s) + 1) : i \in 1..Len(s) \/ i = Len(s) + 1
  BY <1>1
<1>3. \A i \in 1..(Len(s) + 1) : Append(s, e)[i] \in Elements(s) =>
        i \in 1..Len(s) /\ s[i] = Append(s, e)[i]
  BY <1>1, <1>2
<1>4. \A i \in 1..(Len(s) + 1) : Append(s, e)[i] = e => i = Len(s) + 1
  BY <1>1, <1>2, ElementsDef
<1>5. \A x \in Elements(s), y \in Elements(s) :
        Before(s, x, y) => Before(Append(s, e), x, y)
  BY <1>1, <1>3 DEF Before
<1>6. ASSUME NEW x \in Elements(s) PROVE Before(Append(s, e), x, e)
  <2> SUFFICES ASSUME NEW i \in 1..(Len(s) + 1), NEW j \in 1..(Len(s) + 1),
                      Append(s, e)[i] = x, Append(s, e)[j] = e
               PROVE  i < j
    BY <1>1 DEF Before
  <2>1. i \in 1..Len(s) /\ j = Len(s) + 1
    BY <1>3, <1>4
  <2> QED
    BY <1>1, <2>1
<1> QED
  BY <1>5, <1>6

(* Ordered sequences: appending the youngest, and taking the first.        *)
LEMMA OrderedAppend ==
  ASSUME NEW S, NEW t \in Seq(S), NEW e \in S, NEW s, Ordered(s, t),
         \A x \in Elements(t) : Before(s, x, e)
  PROVE  Ordered(s, Append(t, e))
<1>1. /\ Len(t) \in Nat /\ Len(Append(t, e)) = Len(t) + 1
      /\ \A i \in 1..Len(t) : Append(t, e)[i] = t[i]
      /\ Append(t, e)[Len(t) + 1] = e
  OBVIOUS
<1> SUFFICES ASSUME NEW i \in 1..(Len(t) + 1), NEW j \in 1..(Len(t) + 1), i < j
             PROVE  Before(s, Append(t, e)[i], Append(t, e)[j])
  BY <1>1 DEF Ordered
<1>2. i \in 1..Len(t)
  BY <1>1
<1>3. CASE j = Len(t) + 1
  <2>1. t[i] \in Elements(t)
    BY <1>2, ElementsDef
  <2> QED
    BY <1>1, <1>2, <1>3, <2>1
<1>4. CASE j # Len(t) + 1
  <2>1. j \in 1..Len(t)
    BY <1>1, <1>4
  <2> QED
    BY <1>1, <1>2, <2>1 DEF Ordered
<1> QED
  BY <1>3, <1>4

LEMMA OrderedTail ==
  ASSUME NEW S, NEW t \in Seq(S), t # <<>>, NEW s, Ordered(s, t)
  PROVE  /\ Ordered(s, Tail(t))
         /\ \A y \in Elements(Tail(t)) : Before(s, Head(t), y)
<1>1. /\ Len(t) \in Nat /\ 1 \in 1..Len(t) /\ Head(t) = t[1]
      /\ \A i \in 1..Len(Tail(t)) :
           i + 1 \in 1..Len(t) /\ Tail(t)[i] = t[i + 1]
      /\ Len(Tail(t)) \in Nat
  BY TailFacts
<1>2. ASSUME NEW i \in 1..Len(Tail(t)), NEW j \in 1..Len(Tail(t)), i < j
      PROVE  Before(s, Tail(t)[i], Tail(t)[j])
  <2>1. i + 1 < j + 1
    BY <1>1, <1>2
  <2>2. i + 1 \in 1..Len(t) /\ j + 1 \in 1..Len(t)
    BY <1>1
  <2> QED
    BY <1>1, <2>1, <2>2 DEF Ordered
<1>3. ASSUME NEW y \in Elements(Tail(t)) PROVE Before(s, Head(t), y)
  <2>1. PICK i \in 1..Len(Tail(t)) : Tail(t)[i] = y
    BY ElementsDef
  <2>2. 1 < i + 1 /\ i + 1 \in 1..Len(t)
    BY <1>1
  <2> QED
    BY <1>1, <2>1, <2>2 DEF Ordered
<1> QED
  BY <1>2, <1>3 DEF Ordered

(* Two of the elements that have arrived are the same or ordered.          *)
LEMMA NotBeforeItself ==
  ASSUME NEW s, NEW x \in Elements(s), Len(s) \in Nat
  PROVE  ~Before(s, x, x)
<1>1. PICK i \in 1..Len(s) : s[i] = x
  BY ElementsDef
<1> QED
  BY <1>1 DEF Before

-----------------------------------------------------------------------------
(* Who reads a handle reads no other.                                      *)
LEMMA ReadersFacts ==
  /\ \A h : ReadersOf(h) \subseteq Gets \cup Streams
  /\ \A h, k, r : r \in ReadersOf(h) /\ r \in ReadersOf(k) => h = k
BY NameFacts DEF ReadersOf

(* IInv holds initially.                                                   *)
LEMMA InitIInv == Init => IInv
<1> SUFFICES ASSUME Init PROVE IInv
  OBVIOUS
<1> USE DEF Init
<1>1. /\ \A h \in Handles : due[h] = <<>> /\ queue[h] = <<>> /\ full[h] = {}
      /\ \A r \in Gets \cup Streams : got[r] = <<>>
      /\ \A r \in Gets \cup Own : sub[r] = Nil
      /\ \A r \in Requests \cup Remote : pc[r] = "idle"
      /\ open = BootTopics
  OBVIOUS
<1>2. \A x : x \notin Elements(<<>>)
  BY DEF Elements
<1>3. TypeOK
  <2>1. table \in [Topics -> BootTopics \cup Puts \cup {Nil}]
    OBVIOUS
  <2>2. pc \in [Requests \cup Remote ->
          {"idle", "store", "storing", "done", "lookup", "read", "write", "published",
           "arrived", "answered", "closed", "error"}]
    OBVIOUS
  <2>3. topic \in [Requests \cup Remote \cup BootTopics -> Topics \cup {Nil}]
    BY NameFacts
  <2>4. /\ queue \in [Handles -> Seq(Msgs)] /\ due \in [Handles -> Seq(Msgs)]
        /\ full \in [Handles -> SUBSET Msgs]
        /\ sub \in [Gets \cup Own -> BootTopics \cup Puts \cup {Nil}]
        /\ got \in [Gets \cup Streams -> Seq(Msgs \ bad)]
    OBVIOUS
  <2>5. /\ open \subseteq Handles /\ expired \subseteq Gets
        /\ bad \subseteq Remote /\ gone \subseteq Streams
        /\ node \in {"run", "cancelled", "down"}
    BY DEF Handles
  <2> QED
    BY <2>1, <2>2, <2>3, <2>4, <2>5 DEF TypeOK
<1>4. StageInv
  <2>1. \A t \in BootTopics : topic[t] = t
    OBVIOUS
  <2>2. \A t \in Topics : table[t] # Nil => table[t] = t /\ t \in BootTopics
    OBVIOUS
  <2>3. /\ \A p \in Puts : pc[p] = "idle" /\ p \notin open
        /\ \A w \in Streams : pc[w] = "idle" /\ w \notin open
        /\ \A g \in Gets : sub[g] = Nil /\ pc[g] = "idle" /\ got[g] = <<>>
        /\ \A m \in Own : pc[m] = "idle"
    BY <1>1, NameFacts DEF Requests
  <2> QED
    BY <1>1, <2>1, <2>2, <2>3, NameFacts DEF StageInv
<1>5. DueInv
  BY <1>1 DEF DueInv
<1>6. \A h \in Handles : \A r \in ReadersOf(h) : got[r] = <<>>
  BY <1>1, ReadersFacts
<1>7. PlaceInv
  BY <1>1, <1>2, <1>6 DEF PlaceInv
<1>8. OrderInv
  BY <1>1, <1>2, <1>6 DEF OrderInv, Ordered
<1>9. TopicInv
  BY <1>1 DEF TopicInv
<1> QED
  BY <1>3, <1>4, <1>5, <1>7, <1>8, <1>9 DEF IInv

(* A step that moves no message keeps every message in its place.  Only    *)
(* readers that have read nothing may join.                                *)
LEMMA MessagesStay ==
  ASSUME IInv,
         due' = due, queue' = queue, full' = full, got' = got, bad' = bad,
         gone \subseteq gone',
         \A m \in Msgs : pc[m] = "arrived" => pc'[m] = "arrived",
         \A h \in Handles : ReadersOf(h) \subseteq ReadersOf(h)',
         \A h \in Handles : \A r \in ReadersOf(h)' :
           r \in ReadersOf(h) \/ got[r] = <<>>
  PROVE  DueInv' /\ PlaceInv' /\ OrderInv'
<1>1. \A h \in Handles : \A i \in 1..Len(due[h]) : due[h][i] \in Msgs
  BY DEF IInv, TypeOK
<1>2. \A x : x \notin Elements(<<>>)
  BY DEF Elements
<1>3. DueInv'
  BY <1>1 DEF IInv, DueInv
<1>4. PlaceInv'
  <2> SUFFICES ASSUME NEW h \in Handles
               PROVE  /\ Elements(queue[h]) \subseteq Elements(due[h])
                      /\ full[h] \subseteq Elements(due[h]) \ Elements(queue[h])
                      /\ \A r \in ReadersOf(h)' :
                           /\ Elements(got[r]) \subseteq Elements(due[h])
                           /\ Elements(got[r])
                                \cap (Elements(queue[h]) \cup full[h]) = {}
                           /\ \A q \in ReadersOf(h)' \ {r} :
                                Elements(got[r]) \cap Elements(got[q]) = {}
                      /\ h \notin gone' =>
                           \A m \in Elements(due[h]) \ bad :
                             \/ m \in Elements(queue[h]) \cup full[h]
                             \/ \E r \in ReadersOf(h)' : m \in Elements(got[r])
    BY DEF PlaceInv
  <2>1. /\ Elements(queue[h]) \subseteq Elements(due[h])
        /\ full[h] \subseteq Elements(due[h]) \ Elements(queue[h])
        /\ \A r \in ReadersOf(h) :
             /\ Elements(got[r]) \subseteq Elements(due[h])
             /\ Elements(got[r]) \cap (Elements(queue[h]) \cup full[h]) = {}
             /\ \A q \in ReadersOf(h) \ {r} :
                  Elements(got[r]) \cap Elements(got[q]) = {}
        /\ h \notin gone =>
             \A m \in Elements(due[h]) \ bad :
               \/ m \in Elements(queue[h]) \cup full[h]
               \/ \E r \in ReadersOf(h) : m \in Elements(got[r])
    BY DEF IInv, PlaceInv
  <2>2. \A r \in ReadersOf(h)' : r \in ReadersOf(h) \/ Elements(got[r]) = {}
    BY <1>2
  <2> QED
    BY <2>1, <2>2
<1>5. OrderInv'
  <2> SUFFICES ASSUME NEW h \in Handles
               PROVE  /\ Ordered(due[h], queue[h])
                      /\ \A r \in ReadersOf(h)' :
                           /\ Ordered(due[h], got[r])
                           /\ \A x \in Elements(got[r]), y \in Elements(queue[h]) :
                                Before(due[h], x, y)
    BY DEF OrderInv
  <2>1. \A r \in ReadersOf(h)' :
          r \in ReadersOf(h) \/ (Elements(got[r]) = {} /\ got[r] = <<>>)
    BY <1>2
  <2>2. \A s : Ordered(s, <<>>)
    BY DEF Ordered
  <2> QED
    BY <2>1, <2>2 DEF IInv, OrderInv
<1> QED
  BY <1>3, <1>4, <1>5

(* A request begins.                                                       *)
LEMMA BeginFacts ==
  ASSUME TypeOK, NEW r \in Requests \cup Remote, NEW next \in Places,
         Begin(r, next)
  PROVE  /\ pc[r] = "idle"
         /\ pc' \in [Requests \cup Remote -> Places]
         /\ \A q \in Requests \cup Remote : pc'[q] = IF q = r THEN next ELSE pc[q]
         /\ topic' \in [Requests \cup Remote \cup BootTopics -> Topics \cup {Nil}]
         /\ topic'[r] \in Topics
         /\ \A x \in Requests \cup Remote \cup BootTopics :
              x # r => topic'[x] = topic[x]
BY DEF TypeOK, Begin, Places

LEMMA GotoFacts ==
  ASSUME TypeOK, NEW r \in Requests \cup Remote, NEW next \in Places,
         Goto(r, next)
  PROVE  /\ pc' \in [Requests \cup Remote -> Places]
         /\ \A q \in Requests \cup Remote : pc'[q] = IF q = r THEN next ELSE pc[q]
BY DEF TypeOK, Goto, Places

(* The names that pc, topic, sub and got are functions of.                 *)
LEMMA DomainFacts ==
  /\ \A p \in Puts : p \in Requests /\ p \in Handles
  /\ \A g \in Gets : g \in Requests
  /\ \A w \in Streams : w \in Requests /\ w \in Handles
  /\ \A m \in Own : m \in Requests /\ m \in Msgs
  /\ \A m \in Remote : m \in Msgs
  /\ \A t \in BootTopics : t \in Handles
  /\ \A h \in Handles : h \in Requests \cup Remote \cup BootTopics
  /\ Msgs \subseteq Requests \cup Remote
BY DEF Requests, Handles, Msgs

(* The steps of PUT /subscriptions.                                        *)
LEMMA PutKeepsIInv ==
  ASSUME IInv, NEW p \in Puts, PutStep(p)
  PROVE  IInv'
<1>1. /\ due' = due /\ queue' = queue /\ full' = full /\ got' = got
      /\ sub' = sub /\ node' = node /\ bad' = bad /\ expired' = expired
      /\ gone' = gone
  BY DEF PutStep, Subscribe, StoreBegins, StoreEnds, subVars, envVars
<1>2. p \in Requests \cup Remote /\ p \in Handles /\ p # Nil
  BY DomainFacts, NameFacts
<1>3. \A h : ReadersOf(h)' = ReadersOf(h)
  BY <1>1 DEF ReadersOf
<1>4. \A m \in Own \cup Gets \cup Streams : m # p
  BY NameFacts
<1>5. p \notin BootTopics /\ p \notin Msgs
  BY NameFacts DEF Msgs
<1>6. /\ pc \in [Requests \cup Remote -> Places]
      /\ topic \in [Requests \cup Remote \cup BootTopics -> Topics \cup {Nil}]
      /\ table \in [Topics -> BootTopics \cup Puts \cup {Nil}]
      /\ open \subseteq Handles
  BY DEF IInv, TypeOK, Places
<1>7. CASE Subscribe(p)
  <2>1. PICK next \in {"store", "error"} :
          /\ Begin(p, next)
          /\ open' = IF next = "store" THEN open \cup {p} ELSE open
    BY <1>7 DEF Subscribe
  <2>2. /\ pc[p] = "idle"
        /\ pc' \in [Requests \cup Remote -> Places]
        /\ \A q \in Requests \cup Remote : pc'[q] = IF q = p THEN next ELSE pc[q]
        /\ topic' \in [Requests \cup Remote \cup BootTopics -> Topics \cup {Nil}]
        /\ topic'[p] \in Topics
        /\ \A x \in Requests \cup Remote \cup BootTopics :
             x # p => topic'[x] = topic[x]
    <3>1. next \in Places
      BY DEF Places
    <3> QED
      BY <1>2, <2>1, <3>1, BeginFacts DEF IInv
  <2>3. table' = table
    BY <1>7 DEF Subscribe
  <2>4. p \notin open
    BY <2>2 DEF IInv, StageInv
  <2>5. open' \subseteq Handles /\ open \subseteq open'
    BY <1>2, <1>6, <2>1
  <2>6. TypeOK'
    BY <1>1, <2>2, <2>3, <2>5 DEF IInv, TypeOK, Places
  <2>7. \A h \in open : topic'[h] = topic[h] /\ h \in Handles
    BY <1>6, <2>2, <2>4, DomainFacts
  <2>8. StageInv'
    <3>1. BootTopics \subseteq open' /\ \A t \in BootTopics : topic'[t] = t
      BY <2>5, <2>7 DEF IInv, StageInv
    <3>2. \A q \in Puts : q \in open' <=> pc'[q] \in {"store", "storing", "done"}
      BY <2>1, <2>2, DomainFacts DEF IInv, StageInv
    <3>3. \A w \in Streams : w \in open' <=> pc'[w] \in {"read", "write"}
      BY <1>4, <2>1, <2>2, DomainFacts DEF IInv, StageInv
    <3>4. \A h \in open' : topic'[h] \in Topics
      BY <2>1, <2>2, <2>7 DEF IInv, StageInv
    <3>5. \A t \in Topics : table[t] # Nil =>
            table[t] \in open' /\ topic'[table[t]] = t
      BY <2>5, <2>7 DEF IInv, StageInv
    <3>6. /\ \A g \in Gets : pc'[g] = pc[g]
          /\ \A m \in Own : pc'[m] = pc[m] /\ topic'[m] = topic[m]
      BY <1>4, <2>2, DomainFacts
    <3>7. \A g \in Gets :
            /\ pc'[g] \in {"idle", "lookup", "error"} => sub[g] = Nil
            /\ pc'[g] = "read" => sub[g] # Nil
            /\ sub[g] # Nil => sub[g] \in open'
            /\ sub[g] = Nil => got[g] = <<>>
      BY <2>5, <3>6 DEF IInv, StageInv
    <3>8. \A m \in Own :
            /\ pc'[m] \in {"published", "arrived"} =>
                 /\ sub[m] # Nil /\ sub[m] \in open'
                 /\ topic'[sub[m]] = topic'[m]
            /\ pc'[m] = "arrived" => m \in Elements(due[sub[m]])
      BY <2>5, <2>7, <3>6 DEF IInv, StageInv
    <3> QED
      BY <1>1, <2>3, <3>1, <3>2, <3>3, <3>4, <3>5, <3>7, <3>8 DEF StageInv
  <2>9. \A m \in Msgs : pc[m] = "arrived" => pc'[m] = "arrived"
    BY <1>5, <2>2, DomainFacts
  <2>10. DueInv' /\ PlaceInv' /\ OrderInv'
    BY <1>1, <1>3, <2>9, MessagesStay
  <2>11. TopicInv'
    BY <2>2, DomainFacts DEF IInv, TopicInv
  <2> QED
    BY <2>6, <2>8, <2>10, <2>11 DEF IInv
<1>8. CASE StoreBegins(p) \/ StoreEnds(p)
  <2>1. PICK next \in {"storing", "done"} :
          /\ Goto(p, next) /\ pc[p] \in {"store", "storing"}
          /\ open' = open /\ topic' = topic
          /\ table' = IF next = "done" THEN [table EXCEPT ![topic[p]] = p]
                                       ELSE table
    BY <1>8 DEF StoreBegins, StoreEnds, subVars
  <2>2. /\ pc' \in [Requests \cup Remote -> Places]
        /\ \A q \in Requests \cup Remote : pc'[q] = IF q = p THEN next ELSE pc[q]
    <3>1. next \in Places
      BY DEF Places
    <3> QED
      BY <1>2, <2>1, <3>1, GotoFacts DEF IInv
  <2>3. p \in open /\ topic[p] \in Topics
    BY <2>1 DEF IInv, StageInv
  <2>4. /\ table' \in [Topics -> BootTopics \cup Puts \cup {Nil}]
        /\ \A t \in Topics : table'[t] = table[t] \/ (table'[t] = p /\ t = topic[p])
    BY <1>6, <2>1, <2>3
  <2>5. TypeOK'
    BY <1>1, <2>1, <2>2, <2>4 DEF IInv, TypeOK, Places
  <2>6. StageInv'
    <3>1. \A q \in Puts : q \in open <=> pc'[q] \in {"store", "storing", "done"}
      BY <2>1, <2>2, <2>3, DomainFacts DEF IInv, StageInv
    <3>2. \A w \in Streams : w \in open <=> pc'[w] \in {"read", "write"}
      BY <1>4, <2>2, DomainFacts DEF IInv, StageInv
    <3>3. \A t \in Topics : table'[t] # Nil =>
            table'[t] \in open /\ topic[table'[t]] = t
      BY <2>3, <2>4 DEF IInv, StageInv
    <3>4. /\ \A g \in Gets : pc'[g] = pc[g]
          /\ \A m \in Own : pc'[m] = pc[m]
      BY <1>4, <2>2, DomainFacts
    <3> QED
      BY <1>1, <2>1, <3>1, <3>2, <3>3, <3>4 DEF IInv, StageInv
  <2>7. \A m \in Msgs : pc[m] = "arrived" => pc'[m] = "arrived"
    BY <1>5, <2>2, DomainFacts
  <2>8. DueInv' /\ PlaceInv' /\ OrderInv'
    BY <1>1, <1>3, <2>7, MessagesStay
  <2>9. TopicInv'
    BY <2>1, <2>2 DEF IInv, TopicInv
  <2> QED
    BY <2>5, <2>6, <2>8, <2>9 DEF IInv
<1> QED
  BY <1>7, <1>8 DEF PutStep

(* The steps of a stream that begin and end it.                            *)
LEMMA StreamOpensAndCloses ==
  ASSUME IInv, NEW w \in Streams, StreamOpen(w) \/ StreamEnd(w)
  PROVE  IInv'
<1>1. /\ due' = due /\ queue' = queue /\ full' = full /\ got' = got
      /\ sub' = sub /\ node' = node /\ bad' = bad /\ expired' = expired
      /\ gone' = gone /\ table' = table
  BY DEF StreamOpen, StreamEnd, envVars
<1>2. w \in Requests \cup Remote /\ w \in Handles /\ w # Nil
  BY DomainFacts, NameFacts
<1>3. \A h : ReadersOf(h)' = ReadersOf(h)
  BY <1>1 DEF ReadersOf
<1>4. \A m \in Own \cup Gets \cup Puts \cup BootTopics : m # w
  BY NameFacts
<1>5. w \notin Msgs
  BY NameFacts DEF Msgs
<1>6. /\ pc \in [Requests \cup Remote -> Places]
      /\ topic \in [Requests \cup Remote \cup BootTopics -> Topics \cup {Nil}]
      /\ table \in [Topics -> BootTopics \cup Puts \cup {Nil}]
      /\ sub \in [Gets \cup Own -> BootTopics \cup Puts \cup {Nil}]
      /\ open \subseteq Handles
  BY DEF IInv, TypeOK, Places
<1>7. PICK next \in {"read", "error", "closed"} :
        /\ pc' \in [Requests \cup Remote -> Places]
        /\ \A q \in Requests \cup Remote : pc'[q] = IF q = w THEN next ELSE pc[q]
        /\ topic' \in [Requests \cup Remote \cup BootTopics -> Topics \cup {Nil}]
        /\ topic'[w] \in Topics
        /\ \A x \in Requests \cup Remote \cup BootTopics :
             x # w => topic'[x] = topic[x]
        /\ open' = IF next = "read" THEN open \cup {w} ELSE open \ {w}
  <2>1. CASE StreamOpen(w)
    <3>1. PICK next \in {"read", "error"} :
            /\ Begin(w, next)
            /\ open' = IF next = "read" THEN open \cup {w} ELSE open
      BY <2>1 DEF StreamOpen
    <3>2. next \in Places
      BY DEF Places
    <3>3. /\ pc[w] = "idle"
          /\ pc' \in [Requests \cup Remote -> Places]
          /\ \A q \in Requests \cup Remote : pc'[q] = IF q = w THEN next ELSE pc[q]
          /\ topic' \in [Requests \cup Remote \cup BootTopics -> Topics \cup {Nil}]
          /\ topic'[w] \in Topics
          /\ \A x \in Requests \cup Remote \cup BootTopics :
               x # w => topic'[x] = topic[x]
      BY <1>2, <3>1, <3>2, BeginFacts DEF IInv
    <3>4. w \notin open
      BY <3>3 DEF IInv, StageInv
    <3> QED
      BY <3>1, <3>3, <3>4
  <2>2. CASE StreamEnd(w)
    <3>1. /\ Goto(w, "closed") /\ open' = open \ {w} /\ topic' = topic
          /\ pc[w] = "read"
      BY <2>2 DEF StreamEnd
    <3>2. "closed" \in Places
      BY DEF Places
    <3>3. /\ pc' \in [Requests \cup Remote -> Places]
          /\ \A q \in Requests \cup Remote :
               pc'[q] = IF q = w THEN "closed" ELSE pc[q]
      BY <1>2, <3>1, <3>2, GotoFacts DEF IInv
    <3>4. topic[w] \in Topics
      BY <3>1, DomainFacts DEF IInv, TopicInv
    <3> QED
      BY <1>6, <3>1, <3>3, <3>4
  <2> QED
    BY <2>1, <2>2
<1>8. TypeOK'
  <2>1. open' \subseteq Handles
    BY <1>2, <1>6, <1>7
  <2> QED
    BY <1>1, <1>7, <2>1 DEF IInv, TypeOK, Places
<1>9. \A h \in open \ {w} : h \in open' /\ topic'[h] = topic[h]
  BY <1>6, <1>7, DomainFacts
<1>10. \A h \in BootTopics \cup Puts : h # w
  BY <1>4
<1>11. StageInv'
  <2>1. BootTopics \subseteq open' /\ \A t \in BootTopics : topic'[t] = t
    BY <1>9, <1>10 DEF IInv, StageInv
  <2>2. \A p \in Puts : p \in open' <=> pc'[p] \in {"store", "storing", "done"}
    BY <1>7, <1>10, DomainFacts DEF IInv, StageInv
  <2>3. \A v \in Streams : v \in open' <=> pc'[v] \in {"read", "write"}
    BY <1>7, DomainFacts DEF IInv, StageInv
  <2>4. \A h \in open' : topic'[h] \in Topics
    BY <1>7, <1>9 DEF IInv, StageInv
  <2>5. \A t \in Topics : table[t] # Nil =>
          table[t] \in open' /\ topic'[table[t]] = t
    BY <1>6, <1>9, <1>10 DEF IInv, StageInv
  <2>6. /\ \A g \in Gets : pc'[g] = pc[g]
        /\ \A m \in Own : pc'[m] = pc[m] /\ topic'[m] = topic[m]
    BY <1>4, <1>7, DomainFacts
  <2>7. \A q \in Gets \cup Own : sub[q] # Nil => sub[q] \in BootTopics \cup Puts
    BY <1>6
  <2>8. \A g \in Gets :
          /\ pc'[g] \in {"idle", "lookup", "error"} => sub[g] = Nil
          /\ pc'[g] = "read" => sub[g] # Nil
          /\ sub[g] # Nil => sub[g] \in open'
          /\ sub[g] = Nil => got[g] = <<>>
    BY <1>9, <1>10, <2>6, <2>7 DEF IInv, StageInv
  <2>9. \A m \in Own :
          /\ pc'[m] \in {"published", "arrived"} =>
               /\ sub[m] # Nil /\ sub[m] \in open'
               /\ topic'[sub[m]] = topic'[m]
          /\ pc'[m] = "arrived" => m \in Elements(due[sub[m]])
    BY <1>9, <1>10, <2>6, <2>7 DEF IInv, StageInv
  <2> QED
    BY <1>1, <2>1, <2>2, <2>3, <2>4, <2>5, <2>8, <2>9 DEF StageInv
<1>12. \A m \in Msgs : pc[m] = "arrived" => pc'[m] = "arrived"
  BY <1>5, <1>7, DomainFacts
<1>13. DueInv' /\ PlaceInv' /\ OrderInv'
  BY <1>1, <1>3, <1>12, MessagesStay
<1>14. TopicInv'
  BY <1>7, DomainFacts DEF IInv, TopicInv
<1> QED
  BY <1>8, <1>11, <1>13, <1>14 DEF IInv

(* A request begins or ends: only its own place and topic change.          *)
LEMMA AskKeepsIInv ==
  ASSUME IInv,
         \/ \E g \in Gets : GetMessages(g) \/ Answer(g)
         \/ \E m \in Own : PutMessage(m)
  PROVE  IInv'
<1>1. /\ table' = table /\ open' = open /\ due' = due /\ queue' = queue
      /\ full' = full /\ got' = got /\ sub' = sub /\ node' = node
      /\ bad' = bad /\ expired' = expired /\ gone' = gone
  BY DEF GetMessages, Answer, PutMessage, subVars, envVars
<1>2. PICK r \in Gets \cup Own :
        \E next \in {"lookup", "answered"} :
          /\ pc' \in [Requests \cup Remote -> Places]
          /\ \A q \in Requests \cup Remote :
               pc'[q] = IF q = r THEN next ELSE pc[q]
          /\ topic' \in [Requests \cup Remote \cup BootTopics -> Topics \cup {Nil}]
          /\ topic'[r] \in Topics
          /\ \A x \in Requests \cup Remote \cup BootTopics :
               x # r => topic'[x] = topic[x]
          /\ pc[r] # "arrived"
          /\ next = "lookup" => pc[r] = "idle"
          /\ next = "answered" => r \in Gets /\ pc[r] = "read"
  <2>1. ASSUME NEW r \in Gets \cup Own, Begin(r, "lookup")
        PROVE  /\ pc[r] = "idle"
               /\ pc' \in [Requests \cup Remote -> Places]
               /\ \A q \in Requests \cup Remote :
                    pc'[q] = IF q = r THEN "lookup" ELSE pc[q]
               /\ topic' \in [Requests \cup Remote \cup BootTopics
                                -> Topics \cup {Nil}]
               /\ topic'[r] \in Topics
               /\ \A x \in Requests \cup Remote \cup BootTopics :
                    x # r => topic'[x] = topic[x]
    <3>1. r \in Requests \cup Remote /\ "lookup" \in Places
      BY DomainFacts DEF Places
    <3> QED
      BY <2>1, <3>1, BeginFacts DEF IInv
  <2>2. CASE \E g \in Gets : GetMessages(g)
    BY <2>1, <2>2 DEF GetMessages
  <2>3. CASE \E m \in Own : PutMessage(m)
    BY <2>1, <2>3 DEF PutMessage
  <2>4. CASE \E g \in Gets : Answer(g)
    <3>1. PICK g \in Gets : pc[g] = "read" /\ Goto(g, "answered") /\ topic' = topic
      BY <2>4 DEF Answer
    <3>2. g \in Requests \cup Remote /\ "answered" \in Places
      BY DomainFacts DEF Places
    <3>3. /\ pc' \in [Requests \cup Remote -> Places]
          /\ \A q \in Requests \cup Remote :
               pc'[q] = IF q = g THEN "answered" ELSE pc[q]
      BY <3>1, <3>2, GotoFacts DEF IInv
    <3>4. /\ topic \in [Requests \cup Remote \cup BootTopics -> Topics \cup {Nil}]
          /\ topic[g] \in Topics
      BY <3>1, DomainFacts DEF IInv, TypeOK, TopicInv
    <3> QED
      BY <3>1, <3>3, <3>4
  <2> QED
    BY <2>2, <2>3, <2>4
<1>3. PICK next \in {"lookup", "answered"} :
          /\ pc' \in [Requests \cup Remote -> Places]
          /\ \A q \in Requests \cup Remote :
               pc'[q] = IF q = r THEN next ELSE pc[q]
          /\ topic' \in [Requests \cup Remote \cup BootTopics -> Topics \cup {Nil}]
          /\ topic'[r] \in Topics
          /\ \A x \in Requests \cup Remote \cup BootTopics :
               x # r => topic'[x] = topic[x]
          /\ pc[r] # "arrived"
          /\ next = "lookup" => pc[r] = "idle"
          /\ next = "answered" => r \in Gets /\ pc[r] = "read"
  BY <1>2
<1>4. \A h \in Handles : h # r
  BY NameFacts DEF Handles
<1>5. \A h \in Handles : topic'[h] = topic[h]
  BY <1>3, <1>4, DomainFacts
<1>6. /\ open \subseteq Handles
      /\ table \in [Topics -> BootTopics \cup Puts \cup {Nil}]
      /\ sub \in [Gets \cup Own -> BootTopics \cup Puts \cup {Nil}]
  BY DEF IInv, TypeOK
<1>7. TypeOK'
  BY <1>1, <1>3 DEF IInv, TypeOK, Places
<1>8. StageInv'
  <2>1. \A t \in BootTopics : topic'[t] = t
    BY <1>5, DomainFacts DEF IInv, StageInv
  <2>2. /\ \A p \in Puts : pc'[p] = pc[p]
        /\ \A w \in Streams : pc'[w] = pc[w]
    BY <1>3, <1>4, DomainFacts
  <2>3. \A h \in open : topic'[h] \in Topics
    BY <1>5, <1>6 DEF IInv, StageInv
  <2>4. \A t \in Topics : table[t] # Nil =>
          table[t] \in open /\ topic'[table[t]] = t
    BY <1>5, <1>6 DEF IInv, StageInv
  <2>5. \A g \in Gets :
          /\ pc'[g] \in {"idle", "lookup", "error"} => sub[g] = Nil
          /\ pc'[g] = "read" => sub[g] # Nil
          /\ sub[g] # Nil => sub[g] \in open
          /\ sub[g] = Nil => got[g] = <<>>
    BY <1>3, DomainFacts DEF IInv, StageInv
  <2>6. \A m \in Own : pc'[m] \in {"published", "arrived"} =>
          pc'[m] = pc[m] /\ topic'[m] = topic[m]
    BY <1>3, DomainFacts
  <2>7. \A m \in Own :
          /\ pc'[m] \in {"published", "arrived"} =>
               /\ sub[m] # Nil /\ sub[m] \in open
               /\ topic'[sub[m]] = topic'[m]
          /\ pc'[m] = "arrived" => m \in Elements(due[sub[m]])
    BY <1>5, <1>6, <2>6 DEF IInv, StageInv
  <2> QED
    BY <1>1, <2>1, <2>2, <2>3, <2>4, <2>5, <2>7 DEF IInv, StageInv
<1>9. TopicInv'
  BY <1>3, DomainFacts DEF IInv, TopicInv, Requests
<1>10. \A m \in Msgs : pc[m] = "arrived" => pc'[m] = "arrived"
  BY <1>3, DomainFacts
<1>11. \A h : ReadersOf(h)' = ReadersOf(h)
  BY <1>1 DEF ReadersOf
<1>12. DueInv' /\ PlaceInv' /\ OrderInv'
  BY <1>1, <1>10, <1>11, MessagesStay
<1> QED
  BY <1>7, <1>8, <1>9, <1>12 DEF IInv

(* A request looks into the map: it sees an open handle of its topic.      *)
LEMMA LookKeepsIInv ==
  ASSUME IInv,
         (\E g \in Gets : Lookup(g)) \/ (\E m \in Own : Publish(m))
  PROVE  IInv'
<1>1. /\ table' = table /\ open' = open /\ due' = due /\ queue' = queue
      /\ full' = full /\ got' = got /\ topic' = topic /\ node' = node
      /\ bad' = bad /\ expired' = expired /\ gone' = gone
  BY DEF Lookup, Publish, subVars, envVars
<1>2. PICK r \in Gets \cup Own :
        /\ pc[r] = "lookup"
        /\ sub' = [sub EXCEPT ![r] = table[topic[r]]]
        /\ \E next \in {"error", "read", "published"} :
             /\ Goto(r, next)
             /\ next = "read" => r \in Gets /\ table[topic[r]] # Nil
             /\ next = "published" => r \in Own /\ table[topic[r]] # Nil
             /\ next = "error" => r \in Own \/ table[topic[r]] = Nil
  BY DEF Lookup, Publish
<1>3. PICK next \in {"error", "read", "published"} :
        /\ Goto(r, next)
        /\ next = "read" => r \in Gets /\ table[topic[r]] # Nil
        /\ next = "published" => r \in Own /\ table[topic[r]] # Nil
        /\ next = "error" => r \in Own \/ table[topic[r]] = Nil
  BY <1>2
<1>4. r \in Requests /\ next \in Places
  BY DomainFacts DEF Places
<1>5. /\ pc' \in [Requests \cup Remote -> Places]
      /\ \A q \in Requests \cup Remote : pc'[q] = IF q = r THEN next ELSE pc[q]
  BY <1>3, <1>4, GotoFacts DEF IInv
<1>6. /\ open \subseteq Handles
      /\ table \in [Topics -> BootTopics \cup Puts \cup {Nil}]
      /\ sub \in [Gets \cup Own -> BootTopics \cup Puts \cup {Nil}]
      /\ got \in [Gets \cup Streams -> Seq(Msgs \ bad)]
  BY DEF IInv, TypeOK
<1>7. topic[r] \in Topics
  BY <1>2, <1>4 DEF IInv, TopicInv
<1>8. /\ sub' \in [Gets \cup Own -> BootTopics \cup Puts \cup {Nil}]
      /\ sub'[r] = table[topic[r]]
      /\ \A q \in Gets \cup Own : q # r => sub'[q] = sub[q]
  BY <1>2, <1>6, <1>7
<1>9. sub'[r] # Nil => sub'[r] \in open /\ topic[sub'[r]] = topic[r]
  BY <1>7, <1>8 DEF IInv, StageInv
<1>10. r \in Gets => sub[r] = Nil /\ got[r] = <<>>
  BY <1>2 DEF IInv, StageInv
<1>11. TypeOK'
  BY <1>1, <1>5, <1>8 DEF IInv, TypeOK, Places
<1>12. StageInv'
  <2>1. /\ \A p \in Puts : pc'[p] = pc[p]
        /\ \A w \in Streams : pc'[w] = pc[w]
    BY <1>5, DomainFacts, NameFacts
  <2>2. \A g \in Gets :
          /\ pc'[g] \in {"idle", "lookup", "error"} => sub'[g] = Nil
          /\ pc'[g] = "read" => sub'[g] # Nil
          /\ sub'[g] # Nil => sub'[g] \in open
          /\ sub'[g] = Nil => got[g] = <<>>
    <3> SUFFICES ASSUME NEW g \in Gets
                 PROVE  /\ pc'[g] \in {"idle", "lookup", "error"} => sub'[g] = Nil
                        /\ pc'[g] = "read" => sub'[g] # Nil
                        /\ sub'[g] # Nil => sub'[g] \in open
                        /\ sub'[g] = Nil => got[g] = <<>>
      OBVIOUS
    <3>1. CASE g = r
      <4>1. g \notin Own
        BY NameFacts
      <4> QED
        BY <1>3, <1>4, <1>5, <1>8, <1>9, <1>10, <3>1, <4>1
    <3>2. CASE g # r
      BY <1>5, <1>8, <3>2, DomainFacts DEF IInv, StageInv
    <3> QED
      BY <3>1, <3>2
  <2>3. \A m \in Own :
          /\ pc'[m] \in {"published", "arrived"} =>
               /\ sub'[m] # Nil /\ sub'[m] \in open
               /\ topic[sub'[m]] = topic[m]
          /\ pc'[m] = "arrived" => m \in Elements(due[sub'[m]])
    <3> SUFFICES ASSUME NEW m \in Own
                 PROVE  /\ pc'[m] \in {"published", "arrived"} =>
                             /\ sub'[m] # Nil /\ sub'[m] \in open
                             /\ topic[sub'[m]] = topic[m]
                        /\ pc'[m] = "arrived" => m \in Elements(due[sub'[m]])
      OBVIOUS
    <3>1. CASE m = r
      BY <1>3, <1>4, <1>5, <1>8, <1>9, <3>1
    <3>2. CASE m # r
      BY <1>5, <1>8, <3>2, DomainFacts DEF IInv, StageInv
    <3> QED
      BY <3>1, <3>2
  <2> QED
    BY <1>1, <2>1, <2>2, <2>3 DEF IInv, StageInv
<1>13. TopicInv'
  BY <1>1, <1>2, <1>5 DEF IInv, TopicInv
<1>14. \A m \in Msgs : pc[m] = "arrived" => pc'[m] = "arrived"
  BY <1>2, <1>5, DomainFacts
<1>15. \A h \in Handles : ReadersOf(h) \subseteq ReadersOf(h)'
  <2> SUFFICES ASSUME NEW h \in Handles, NEW g \in Gets, sub[g] = h
               PROVE  sub'[g] = h
    BY DEF ReadersOf
  <2>1. h # Nil
    BY NameFacts DEF Handles
  <2> QED
    BY <1>8, <1>10, <2>1
<1>16. \A h \in Handles : \A q \in ReadersOf(h)' :
         q \in ReadersOf(h) \/ got[q] = <<>>
  <2> SUFFICES ASSUME NEW h \in Handles, NEW g \in Gets, sub'[g] = h
               PROVE  sub[g] = h \/ got[g] = <<>>
    BY DEF ReadersOf
  <2> QED
    BY <1>8, <1>10
<1>17. DueInv' /\ PlaceInv' /\ OrderInv'
  BY <1>1, <1>14, <1>15, <1>16, MessagesStay
<1> QED
  BY <1>11, <1>12, <1>13, <1>17 DEF IInv

(* Timers, clients, Ctrl-C and the end of the process.                     *)
LEMMA EnvironmentKeepsIInv ==
  ASSUME IInv,
         \/ \E g \in Gets : Expire(g)
         \/ \E w \in Streams : Disconnect(w)
         \/ MapFault \/ Cancel \/ Exit
         \/ UNCHANGED vars
  PROVE  IInv'
<1>1. /\ table' = table /\ open' = open /\ due' = due /\ queue' = queue
      /\ full' = full /\ got' = got /\ topic' = topic /\ sub' = sub
      /\ pc' = pc /\ bad' = bad
  BY DEF Expire, Disconnect, MapFault, Cancel, Exit, subVars, envVars, vars
<1>2. /\ node' \in {"run", "cancelled", "down"} /\ expired' \subseteq Gets
      /\ gone' \subseteq Streams /\ gone \subseteq gone'
  BY DEF Expire, Disconnect, MapFault, Cancel, Exit, envVars, vars, IInv, TypeOK
<1>3. TypeOK'
  BY <1>1, <1>2 DEF IInv, TypeOK
<1>4. StageInv' /\ TopicInv'
  BY <1>1 DEF IInv, StageInv, TopicInv
<1>5. \A h : ReadersOf(h)' = ReadersOf(h)
  BY <1>1 DEF ReadersOf
<1>6. DueInv' /\ PlaceInv' /\ OrderInv'
  BY <1>1, <1>2, <1>5, MessagesStay
<1> QED
  BY <1>3, <1>4, <1>6 DEF IInv

(* r takes the oldest message of the buffer of h: into its answer, or, if  *)
(* it does not decode or nobody is left to read it, to nowhere.            *)
Takes(r, h) ==
  /\ queue[h] # <<>>
  /\ queue' = [queue EXCEPT ![h] = Tail(queue[h])]
  /\ \/ /\ Head(queue[h]) \notin bad
        /\ got' = [got EXCEPT ![r] = Append(got[r], Head(queue[h]))]
     \/ /\ Head(queue[h]) \in bad \/ h \in gone
        /\ got' = got
  /\ due' = due /\ full' = full /\ sub' = sub /\ bad' = bad /\ gone' = gone

(* What taking a message does to the buffers and the answers.              *)
LEMMA TakeFacts ==
  ASSUME IInv, NEW h \in Handles, NEW r \in ReadersOf(h), Takes(r, h)
  PROVE  /\ queue' \in [Handles -> Seq(Msgs)]
         /\ got' \in [Gets \cup Streams -> Seq(Msgs \ bad)]
         /\ queue'[h] = Tail(queue[h])
         /\ \A k \in Handles : k # h => queue'[k] = queue[k]
         /\ \A q \in Gets \cup Streams : q # r => got'[q] = got[q]
         /\ \A k \in Handles : k # h => r \notin ReadersOf(k)
         /\ Head(queue[h]) \in Msgs
         /\ Elements(queue[h]) = Elements(queue'[h]) \cup {Head(queue[h])}
         /\ Head(queue[h]) \notin Elements(queue'[h])
         /\ \/ /\ Head(queue[h]) \notin bad
               /\ got'[r] = Append(got[r], Head(queue[h]))
               /\ Elements(got'[r]) = Elements(got[r]) \cup {Head(queue[h])}
            \/ /\ Head(queue[h]) \in bad \/ h \in gone
               /\ got'[r] = got[r]
<1>1. /\ queue \in [Handles -> Seq(Msgs)]
      /\ got \in [Gets \cup Streams -> Seq(Msgs \ bad)]
      /\ due \in [Handles -> Seq(Msgs)]
      /\ r \in Gets \cup Streams
  BY ReadersFacts DEF IInv, TypeOK
<1> DEFINE x == Head(queue[h])
<1>2. /\ queue[h] # <<>> /\ queue[h] \in Seq(Msgs)
      /\ Tail(queue[h]) \in Seq(Msgs) /\ x \in Msgs
      /\ Elements(queue[h]) = Elements(Tail(queue[h])) \cup {x}
  BY <1>1, TailFacts DEF Takes
<1>3. /\ queue' \in [Handles -> Seq(Msgs)]
      /\ queue'[h] = Tail(queue[h])
      /\ \A k \in Handles : k # h => queue'[k] = queue[k]
  BY <1>1, <1>2 DEF Takes
<1>4. x \notin Elements(Tail(queue[h]))
  <2>1. Ordered(due[h], queue[h]) /\ x \in Elements(due[h])
    BY <1>2 DEF IInv, OrderInv, PlaceInv
  <2>2. \A y \in Elements(Tail(queue[h])) : Before(due[h], x, y)
    BY <1>2, <2>1, OrderedTail
  <2>3. Len(due[h]) \in Nat
    BY <1>1
  <2> QED
    BY <2>1, <2>2, <2>3, NotBeforeItself
<1>5. \A k \in Handles : k # h => r \notin ReadersOf(k)
  BY ReadersFacts
<1> HIDE DEF x
<1>6. CASE x \notin bad /\ got' = [got EXCEPT ![r] = Append(got[r], x)]
  <2>1. got[r] \in Seq(Msgs \ bad) /\ x \in Msgs \ bad
    BY <1>1, <1>2, <1>6
  <2>2. /\ Append(got[r], x) \in Seq(Msgs \ bad)
        /\ Elements(Append(got[r], x)) = Elements(got[r]) \cup {x}
    BY <2>1, ElementsAppend
  <2>3. /\ got' \in [Gets \cup Streams -> Seq(Msgs \ bad)]
        /\ got'[r] = Append(got[r], x)
        /\ \A q \in Gets \cup Streams : q # r => got'[q] = got[q]
    BY <1>1, <1>6, <2>2
  <2> QED
    BY <1>2, <1>3, <1>4, <1>5, <1>6, <2>2, <2>3 DEF x
<1>7. CASE (x \in bad \/ h \in gone) /\ got' = got
  BY <1>1, <1>2, <1>3, <1>4, <1>5, <1>7 DEF x
<1> QED
  BY <1>6, <1>7 DEF Takes, x

(* Taking a message keeps every message in one place, and in order.        *)
LEMMA TakeKeeps ==
  ASSUME IInv, NEW h \in Handles, NEW r \in ReadersOf(h), Takes(r, h),
         \A m \in Msgs : pc[m] = "arrived" => pc'[m] = "arrived"
  PROVE  DueInv' /\ PlaceInv' /\ OrderInv'
<1> DEFINE x == Head(queue[h])
<1>1. /\ due' = due /\ full' = full /\ sub' = sub /\ bad' = bad
      /\ gone' = gone
  BY DEF Takes
<1>2. \A k : ReadersOf(k)' = ReadersOf(k)
  BY <1>1 DEF ReadersOf
<1>3. /\ queue \in [Handles -> Seq(Msgs)]
      /\ got \in [Gets \cup Streams -> Seq(Msgs \ bad)]
      /\ r \in Gets \cup Streams
      /\ \A k \in Handles : ReadersOf(k) \subseteq Gets \cup Streams
  BY ReadersFacts DEF IInv, TypeOK
<1>4. /\ queue'[h] = Tail(queue[h])
      /\ \A k \in Handles : k # h => queue'[k] = queue[k]
      /\ \A q \in Gets \cup Streams : q # r => got'[q] = got[q]
      /\ \A k \in Handles : k # h => r \notin ReadersOf(k)
      /\ x \in Msgs
      /\ Elements(queue[h]) = Elements(queue'[h]) \cup {x}
      /\ x \notin Elements(queue'[h])
      /\ \/ /\ x \notin bad
            /\ got'[r] = Append(got[r], x)
            /\ Elements(got'[r]) = Elements(got[r]) \cup {x}
         \/ (x \in bad \/ h \in gone) /\ got'[r] = got[r]
  BY TakeFacts
<1>5. \A k \in Handles : k # h => \A q \in ReadersOf(k) : got'[q] = got[q]
  BY <1>3, <1>4
<1>6. DueInv'
  <2>1. \A k \in Handles : \A i \in 1..Len(due[k]) : due[k][i] \in Msgs
    BY DEF IInv, TypeOK
  <2> QED
    BY <1>1, <2>1 DEF IInv, DueInv
<1> HIDE DEF x
<1>7. PlaceInv'
  <2> SUFFICES ASSUME NEW k \in Handles
               PROVE  /\ Elements(queue'[k]) \subseteq Elements(due[k])
                      /\ full[k] \subseteq Elements(due[k]) \ Elements(queue'[k])
                      /\ \A q \in ReadersOf(k) :
                           /\ Elements(got'[q]) \subseteq Elements(due[k])
                           /\ Elements(got'[q])
                                \cap (Elements(queue'[k]) \cup full[k]) = {}
                           /\ \A p \in ReadersOf(k) \ {q} :
                                Elements(got'[q]) \cap Elements(got'[p]) = {}
                      /\ k \notin gone =>
                           \A m \in Elements(due[k]) \ bad :
                             \/ m \in Elements(queue'[k]) \cup full[k]
                             \/ \E q \in ReadersOf(k) : m \in Elements(got'[q])
    BY <1>1, <1>2 DEF PlaceInv
  <2>1. CASE k # h
    <3>1. /\ queue'[k] = queue[k]
          /\ \A q \in ReadersOf(k) : got'[q] = got[q]
      BY <1>4, <1>5, <2>1
    <3>2. /\ Elements(queue[k]) \subseteq Elements(due[k])
          /\ full[k] \subseteq Elements(due[k]) \ Elements(queue[k])
          /\ \A q \in ReadersOf(k) :
               /\ Elements(got[q]) \subseteq Elements(due[k])
               /\ Elements(got[q]) \cap (Elements(queue[k]) \cup full[k]) = {}
               /\ \A p \in ReadersOf(k) \ {q} :
                    Elements(got[q]) \cap Elements(got[p]) = {}
          /\ k \notin gone =>
               \A m \in Elements(due[k]) \ bad :
                 \/ m \in Elements(queue[k]) \cup full[k]
                 \/ \E q \in ReadersOf(k) : m \in Elements(got[q])
      BY DEF IInv, PlaceInv
    <3>3. \A q \in ReadersOf(k) :
            /\ Elements(got'[q]) \subseteq Elements(due[k])
            /\ Elements(got'[q]) \cap (Elements(queue'[k]) \cup full[k]) = {}
            /\ \A p \in ReadersOf(k) \ {q} :
                 Elements(got'[q]) \cap Elements(got'[p]) = {}
      BY <3>1, <3>2
    <3> QED
      BY <3>1, <3>2, <3>3
  <2>2. CASE k = h
    <3>1. /\ Elements(queue[h]) \subseteq Elements(due[h])
          /\ full[h] \subseteq Elements(due[h]) \ Elements(queue[h])
          /\ \A q \in ReadersOf(h) :
               /\ Elements(got[q]) \subseteq Elements(due[h])
               /\ Elements(got[q]) \cap (Elements(queue[h]) \cup full[h]) = {}
               /\ \A p \in ReadersOf(h) \ {q} :
                    Elements(got[q]) \cap Elements(got[p]) = {}
          /\ h \notin gone =>
               \A m \in Elements(due[h]) \ bad :
                 \/ m \in Elements(queue[h]) \cup full[h]
                 \/ \E q \in ReadersOf(h) : m \in Elements(got[q])
      BY DEF IInv, PlaceInv
    <3>2. x \in Elements(due[h]) /\ x \notin full[h]
      BY <1>4, <3>1
    <3>3. \A q \in ReadersOf(h) : x \notin Elements(got[q])
      BY <1>4, <3>1
    <3>4. \A q \in ReadersOf(h) :
            /\ q # r => Elements(got'[q]) = Elements(got[q])
            /\ Elements(got'[q]) \subseteq Elements(got[q]) \cup {x}
            /\ Elements(got[q]) \subseteq Elements(got'[q])
      BY <1>3, <1>4
    <3>5. \A q \in ReadersOf(h) :
            /\ Elements(got'[q]) \subseteq Elements(due[h])
            /\ Elements(got'[q]) \cap (Elements(queue'[h]) \cup full[h]) = {}
      BY <1>4, <3>1, <3>2, <3>4
    <3>6. \A q \in ReadersOf(h) : \A p \in ReadersOf(h) \ {q} :
            Elements(got'[q]) \cap Elements(got'[p]) = {}
      <4> SUFFICES ASSUME NEW q \in ReadersOf(h), NEW p \in ReadersOf(h) \ {q},
                          NEW y \in Elements(got'[q]) \cap Elements(got'[p])
                   PROVE  FALSE
        OBVIOUS
      <4>1. CASE y = x
        <5>1. q = r /\ p = r
          BY <3>3, <3>4, <4>1
        <5> QED
          BY <5>1
      <4>2. CASE y # x
        BY <3>1, <3>4, <4>2
      <4> QED
        BY <4>1, <4>2
    <3>7. ASSUME h \notin gone, NEW m \in Elements(due[h]) \ bad
          PROVE  \/ m \in Elements(queue'[h]) \cup full[h]
                 \/ \E q \in ReadersOf(h) : m \in Elements(got'[q])
      <4>1. CASE m = x
        BY <1>4, <3>7, <4>1
      <4>2. CASE m # x
        BY <1>4, <3>1, <3>4, <3>7, <4>2
      <4> QED
        BY <4>1, <4>2
    <3> QED
      BY <1>4, <2>2, <3>1, <3>5, <3>6, <3>7
  <2> QED
    BY <2>1, <2>2
<1>8. OrderInv'
  <2> SUFFICES ASSUME NEW k \in Handles
               PROVE  /\ Ordered(due[k], queue'[k])
                      /\ \A q \in ReadersOf(k) :
                           /\ Ordered(due[k], got'[q])
                           /\ \A y \in Elements(got'[q]), z \in Elements(queue'[k]) :
                                Before(due[k], y, z)
    BY <1>1, <1>2 DEF OrderInv
  <2>1. CASE k # h
    BY <1>4, <1>5, <2>1 DEF IInv, OrderInv
  <2>2. CASE k = h
    <3>1. /\ Ordered(due[h], queue[h])
          /\ \A q \in ReadersOf(h) :
               /\ Ordered(due[h], got[q])
               /\ \A y \in Elements(got[q]), z \in Elements(queue[h]) :
                    Before(due[h], y, z)
      BY DEF IInv, OrderInv
    <3>2. queue[h] \in Seq(Msgs) /\ queue[h] # <<>>
      BY <1>3 DEF Takes
    <3>3. /\ Ordered(due[h], queue'[h])
          /\ \A z \in Elements(queue'[h]) : Before(due[h], x, z)
      BY <1>4, <3>1, <3>2, OrderedTail DEF x
    <3>4. ASSUME NEW q \in ReadersOf(h) PROVE Ordered(due[h], got'[q])
      <4>1. CASE got'[q] = got[q]
        BY <3>1, <4>1
      <4>2. CASE q = r /\ x \notin bad /\ got'[r] = Append(got[r], x)
        <5>1. got[r] \in Seq(Msgs \ bad) /\ x \in Msgs \ bad
          BY <1>3, <1>4, <4>2
        <5>2. \A y \in Elements(got[r]) : Before(due[h], y, x)
          BY <1>4, <3>1
        <5> QED
          BY <3>1, <4>2, <5>1, <5>2, OrderedAppend
      <4> QED
        BY <1>3, <1>4, <4>1, <4>2
    <3>5. ASSUME NEW q \in ReadersOf(h), NEW y \in Elements(got'[q]),
                 NEW z \in Elements(queue'[h])
          PROVE  Before(due[h], y, z)
      <4>1. y \in Elements(got[q]) \/ y = x
        BY <1>3, <1>4
      <4> QED
        BY <1>4, <3>1, <3>3, <4>1
    <3> QED
      BY <2>2, <3>3, <3>4, <3>5
  <2> QED
    BY <2>1, <2>2
<1> QED
  BY <1>6, <1>7, <1>8

(* A GET or a stream reads.                                                *)
LEMMA ReadTakes ==
  ASSUME IInv,
         \/ \E g \in Gets : ReadNext(g)
         \/ \E w \in Streams : StreamNext(w)
  PROVE  \E h \in open \cap Handles : \E r \in ReadersOf(h) : Takes(r, h)
<1>1. CASE \E g \in Gets : ReadNext(g)
  <2>1. PICK g \in Gets : ReadNext(g)
    BY <1>1
  <2>2. /\ pc[g] = "read" /\ Collect(g, sub[g])
        /\ due' = due /\ full' = full /\ sub' = sub /\ bad' = bad
        /\ gone' = gone
    BY <2>1 DEF ReadNext, envVars
  <2>3. sub[g] \in open /\ open \subseteq Handles
    BY <2>2 DEF IInv, StageInv, TypeOK
  <2>4. g \in ReadersOf(sub[g])
    BY DEF ReadersOf
  <2>5. queue \in [Handles -> Seq(Msgs)] /\ got \in [Gets \cup Streams -> Seq(Msgs \ bad)]
    BY DEF IInv, TypeOK
  <2>6. Takes(g, sub[g])
    <3>1. CASE Head(queue[sub[g]]) \in bad
      <4>1. got' = [got EXCEPT ![g] = got[g]]
        BY <2>2, <3>1 DEF Collect
      <4>2. got' = got
        BY <2>5, <4>1
      <4> QED
        BY <2>2, <3>1, <4>2 DEF Collect, Takes
    <3>2. CASE Head(queue[sub[g]]) \notin bad
      BY <2>2, <3>2 DEF Collect, Takes
    <3> QED
      BY <3>1, <3>2
  <2> QED
    BY <2>3, <2>4, <2>6
<1>2. CASE \E w \in Streams : StreamNext(w)
  <2>1. PICK w \in Streams : StreamNext(w)
    BY <1>2
  <2>2. /\ pc[w] = "read"
        /\ due' = due /\ full' = full /\ sub' = sub /\ bad' = bad
        /\ gone' = gone
    BY <2>1 DEF StreamNext, envVars
  <2>3. w \in open /\ open \subseteq Handles
    BY <2>2 DEF IInv, StageInv, TypeOK
  <2>4. w \in ReadersOf(w)
    BY DEF ReadersOf
  <2>5. queue \in [Handles -> Seq(Msgs)] /\ got \in [Gets \cup Streams -> Seq(Msgs \ bad)]
    BY DEF IInv, TypeOK
  <2>6. Takes(w, w)
    <3>1. CASE w \notin gone /\ Collect(w, w) /\ Head(queue[w]) \in bad
      <4>1. got' = [got EXCEPT ![w] = got[w]]
        BY <3>1 DEF Collect
      <4>2. got' = got
        BY <2>5, <4>1
      <4> QED
        BY <2>2, <3>1, <4>2 DEF Collect, Takes
    <3>2. CASE w \notin gone /\ Collect(w, w) /\ Head(queue[w]) \notin bad
      BY <2>2, <3>2 DEF Collect, Takes
    <3>3. CASE w \in gone /\ queue[w] # <<>>
                 /\ queue' = [queue EXCEPT ![w] = Tail(@)] /\ got' = got
      BY <2>2, <3>3 DEF Takes
    <3> QED
      BY <2>1, <3>1, <3>2, <3>3 DEF StreamNext
  <2> QED
    BY <2>3, <2>4, <2>6
<1> QED
  BY <1>1, <1>2

(* A request moves only when it is a stream, from reading or writing to    *)
(* reading or writing.                                                     *)
StreamsTurn ==
  /\ pc' \in [Requests \cup Remote -> Places]
  /\ \A q \in Requests \cup Remote :
       \/ pc'[q] = pc[q]
       \/ /\ q \in Streams
          /\ pc[q] \in {"read", "write"} /\ pc'[q] \in {"read", "write"}

LEMMA TurnFacts ==
  ASSUME TypeOK,
         \/ \E g \in Gets : ReadNext(g)
         \/ \E w \in Streams : StreamNext(w) \/ StreamWritten(w)
  PROVE  StreamsTurn
<1>1. CASE \E g \in Gets : ReadNext(g)
  <2>1. pc' = pc /\ pc \in [Requests \cup Remote -> Places]
    BY <1>1 DEF ReadNext, TypeOK, Places
  <2> QED
    BY <2>1 DEF StreamsTurn
<1>2. CASE \E w \in Streams : StreamNext(w) \/ StreamWritten(w)
  <2>1. PICK w \in Streams, next \in {"read", "write"} :
          Goto(w, next) /\ pc[w] \in {"read", "write"}
    BY <1>2 DEF StreamNext, StreamWritten
  <2>2. w \in Requests \cup Remote /\ next \in Places
    BY DomainFacts DEF Places
  <2>3. /\ pc' \in [Requests \cup Remote -> Places]
        /\ \A q \in Requests \cup Remote :
             pc'[q] = IF q = w THEN next ELSE pc[q]
    BY <2>1, <2>2, GotoFacts
  <2> QED
    BY <2>1, <2>3 DEF StreamsTurn
<1> QED
  BY <1>1, <1>2

(* What a turn of a stream leaves as it was.                               *)
LEMMA TurnKeeps ==
  ASSUME IInv, StreamsTurn
  PROVE  /\ \A q \in Gets \cup Puts \cup Own : pc'[q] = pc[q]
         /\ \A w \in Streams : w \in open <=> pc'[w] \in {"read", "write"}
         /\ \A w \in Streams : pc'[w] = "closed" <=> pc[w] = "closed"
         /\ \A q \in Requests : pc'[q] # "idle" => pc[q] # "idle"
         /\ \A m \in Msgs : pc[m] = "arrived" => pc'[m] = "arrived"
<1>1. \A q \in Gets \cup Puts \cup Own \cup Msgs :
        q \in Requests \cup Remote /\ q \notin Streams
  BY DomainFacts, NameFacts DEF Msgs
<1>2. \A w \in Streams :
        /\ w \in Requests \cup Remote
        /\ w \in open <=> pc[w] \in {"read", "write"}
  BY DomainFacts DEF IInv, StageInv
<1> QED
  BY <1>1, <1>2 DEF StreamsTurn

LEMMA ReadKeepsIInv ==
  ASSUME IInv,
         \/ \E g \in Gets : ReadNext(g)
         \/ \E w \in Streams : StreamNext(w)
  PROVE  IInv'
<1>1. /\ StreamsTurn /\ topic' = topic /\ table' = table /\ open' = open
      /\ due' = due /\ full' = full /\ sub' = sub /\ node' = node
      /\ bad' = bad /\ expired' = expired /\ gone' = gone
  BY TurnFacts DEF IInv, ReadNext, StreamNext, envVars
<1>2. PICK h \in Handles : \E r \in ReadersOf(h) : Takes(r, h)
  BY ReadTakes
<1>3. PICK r \in ReadersOf(h) : Takes(r, h)
  BY <1>2
<1>4. /\ queue' \in [Handles -> Seq(Msgs)]
      /\ got' \in [Gets \cup Streams -> Seq(Msgs \ bad)]
      /\ \A q \in Gets \cup Streams : q # r => got'[q] = got[q]
  BY <1>3, TakeFacts
<1>5. TypeOK'
  BY <1>1, <1>4 DEF IInv, TypeOK, StreamsTurn, Places
<1>6. r \in Gets => sub[r] # Nil
  <2>1. r \in Gets => sub[r] = h
    BY <1>3, NameFacts DEF ReadersOf
  <2>2. h # Nil
    BY NameFacts DEF Handles
  <2> QED
    BY <2>1, <2>2
<1>7. \A g \in Gets : sub[g] = Nil => got'[g] = <<>>
  BY <1>4, <1>6 DEF IInv, StageInv
<1>8. StageInv' /\ TopicInv'
  BY <1>1, <1>7, TurnKeeps DEF IInv, StageInv, TopicInv
<1>9. DueInv' /\ PlaceInv' /\ OrderInv'
  BY <1>1, <1>3, TakeKeeps, TurnKeeps
<1> QED
  BY <1>5, <1>8, <1>9 DEF IInv

(* A write of a stream returns.                                            *)
LEMMA WrittenKeepsIInv ==
  ASSUME IInv, \E w \in Streams : StreamWritten(w)
  PROVE  IInv'
<1>1. /\ StreamsTurn /\ topic' = topic /\ table' = table /\ open' = open
      /\ due' = due /\ full' = full /\ sub' = sub /\ node' = node
      /\ bad' = bad /\ expired' = expired /\ gone' = gone
      /\ queue' = queue /\ got' = got
  BY TurnFacts DEF IInv, StreamWritten, subVars, envVars
<1>2. TypeOK'
  BY <1>1 DEF IInv, TypeOK, StreamsTurn, Places
<1>3. StageInv' /\ TopicInv'
  BY <1>1, TurnKeeps DEF IInv, StageInv, TopicInv
<1>4. \A h : ReadersOf(h)' = ReadersOf(h)
  BY <1>1 DEF ReadersOf
<1>5. DueInv' /\ PlaceInv' /\ OrderInv'
  BY <1>1, <1>4, TurnKeeps, MessagesStay
<1> QED
  BY <1>2, <1>3, <1>5 DEF IInv

(* m reaches the open handles of a topic.                                  *)
LEMMA HandFacts ==
  ASSUME IInv, NEW m \in Msgs, NEW t, Hand(m, t), pc[m] # "arrived"
  PROVE  /\ due' \in [Handles -> Seq(Msgs)]
         /\ queue' \in [Handles -> Seq(Msgs)]
         /\ full' \in [Handles -> SUBSET Msgs]
         /\ \A h \in Handles :
              /\ m \notin Elements(due[h])
              /\ h \in Receivers(t) =>
                   /\ due'[h] = Append(due[h], m)
                   /\ Elements(due'[h]) = Elements(due[h]) \cup {m}
                   /\ \/ /\ queue'[h] = Append(queue[h], m)
                         /\ Elements(queue'[h]) = Elements(queue[h]) \cup {m}
                         /\ full'[h] = full[h]
                      \/ queue'[h] = queue[h] /\ full'[h] = full[h] \cup {m}
              /\ h \notin Receivers(t) =>
                   /\ due'[h] = due[h] /\ queue'[h] = queue[h]
                   /\ full'[h] = full[h]
<1>1. /\ due \in [Handles -> Seq(Msgs)] /\ queue \in [Handles -> Seq(Msgs)]
      /\ full \in [Handles -> SUBSET Msgs]
      /\ BufSize \in [Handles -> Nat \ {0}]
  BY SubscriptionsAssumption DEF IInv, TypeOK, Handles
<1>2. /\ due' = [h \in Handles |->
                   IF h \in Receivers(t) THEN Append(due[h], m) ELSE due[h]]
      /\ queue' = [h \in Handles |->
                     IF h \in Receivers(t) /\ Len(queue[h]) < BufSize[h]
                     THEN Append(queue[h], m) ELSE queue[h]]
      /\ full' = [h \in Handles |->
                    IF h \in Receivers(t) /\ Len(queue[h]) >= BufSize[h]
                    THEN full[h] \cup {m} ELSE full[h]]
  BY DEF Hand
<1>3. \A h \in Handles : /\ Append(due[h], m) \in Seq(Msgs)
                         /\ Append(queue[h], m) \in Seq(Msgs)
  BY <1>1
<1>4. /\ due' \in [Handles -> Seq(Msgs)]
      /\ queue' \in [Handles -> Seq(Msgs)]
      /\ full' \in [Handles -> SUBSET Msgs]
  BY <1>1, <1>2, <1>3
<1>5. ASSUME NEW h \in Handles PROVE m \notin Elements(due[h])
  <2>1. \A i \in 1..Len(due[h]) : pc[due[h][i]] = "arrived"
    BY DEF IInv, DueInv
  <2> QED
    BY <2>1, ElementsDef
<1>6. ASSUME NEW h \in Handles, h \in Receivers(t)
      PROVE  /\ due'[h] = Append(due[h], m)
             /\ Elements(due'[h]) = Elements(due[h]) \cup {m}
             /\ \/ /\ queue'[h] = Append(queue[h], m)
                   /\ Elements(queue'[h]) = Elements(queue[h]) \cup {m}
                   /\ full'[h] = full[h]
                \/ queue'[h] = queue[h] /\ full'[h] = full[h] \cup {m}
  <2>1. due'[h] = Append(due[h], m) /\ due[h] \in Seq(Msgs) /\ queue[h] \in Seq(Msgs)
    BY <1>1, <1>2, <1>6
  <2>2. /\ Elements(Append(due[h], m)) = Elements(due[h]) \cup {m}
        /\ Elements(Append(queue[h], m)) = Elements(queue[h]) \cup {m}
    BY <2>1, ElementsAppend
  <2>3. Len(queue[h]) \in Nat /\ BufSize[h] \in Nat
    BY <1>1, <2>1
  <2>4. CASE Len(queue[h]) < BufSize[h]
    <3>1. ~(Len(queue[h]) >= BufSize[h])
      BY <2>3, <2>4
    <3>2. queue'[h] = Append(queue[h], m) /\ full'[h] = full[h]
      BY <1>2, <1>6, <2>4, <3>1
    <3> QED
      BY <2>1, <2>2, <3>2
  <2>5. CASE ~(Len(queue[h]) < BufSize[h])
    <3>1. Len(queue[h]) >= BufSize[h]
      BY <2>3, <2>5
    <3>2. queue'[h] = queue[h] /\ full'[h] = full[h] \cup {m}
      BY <1>2, <1>6, <2>5, <3>1
    <3> QED
      BY <2>1, <2>2, <3>2
  <2> QED
    BY <2>4, <2>5
<1>7. ASSUME NEW h \in Handles, h \notin Receivers(t)
      PROVE  /\ due'[h] = due[h] /\ queue'[h] = queue[h]
             /\ full'[h] = full[h]
  BY <1>2, <1>7
<1> QED
  BY <1>4, <1>5, <1>6, <1>7

(* An arrival finds one place at every handle it reaches, behind the rest. *)
LEMMA HandKeeps ==
  ASSUME IInv, NEW m \in Msgs, NEW t, Hand(m, t), pc[m] # "arrived",
         pc'[m] = "arrived",
         \A q \in Msgs : pc[q] = "arrived" => pc'[q] = "arrived",
         got' = got, sub' = sub, bad' = bad, gone' = gone
  PROVE  DueInv' /\ PlaceInv' /\ OrderInv'
<1>1. \A h \in Handles :
        /\ m \notin Elements(due[h])
        /\ h \in Receivers(t) =>
             /\ due'[h] = Append(due[h], m)
             /\ Elements(due'[h]) = Elements(due[h]) \cup {m}
             /\ \/ /\ queue'[h] = Append(queue[h], m)
                   /\ Elements(queue'[h]) = Elements(queue[h]) \cup {m}
                   /\ full'[h] = full[h]
                \/ queue'[h] = queue[h] /\ full'[h] = full[h] \cup {m}
        /\ h \notin Receivers(t) =>
             /\ due'[h] = due[h] /\ queue'[h] = queue[h]
             /\ full'[h] = full[h]
  BY HandFacts
<1>2. \A h : ReadersOf(h)' = ReadersOf(h)
  BY DEF ReadersOf
<1>3. \A h \in Handles : due[h] \in Seq(Msgs) /\ queue[h] \in Seq(Msgs)
  BY DEF IInv, TypeOK
<1>4. ASSUME NEW h \in Handles
      PROVE  /\ \A i \in 1..Len(due'[h]) : pc'[due'[h][i]] = "arrived"
             /\ \A i, j \in 1..Len(due'[h]) : due'[h][i] = due'[h][j] => i = j
  <2>1. /\ \A i \in 1..Len(due[h]) : pc[due[h][i]] = "arrived"
        /\ \A i, j \in 1..Len(due[h]) : due[h][i] = due[h][j] => i = j
    BY DEF IInv, DueInv
  <2>2. \A i \in 1..Len(due[h]) : due[h][i] \in Msgs /\ due[h][i] # m
    BY <1>1, <1>3, ElementsDef
  <2>3. \A i \in 1..Len(due[h]) : pc'[due[h][i]] = "arrived"
    BY <2>1, <2>2
  <2>4. CASE h \notin Receivers(t)
    BY <1>1, <2>1, <2>3, <2>4
  <2>5. CASE h \in Receivers(t)
    <3> DEFINE n == Len(due[h])
    <3>1. /\ n \in Nat /\ Len(due'[h]) = n + 1
          /\ \A i \in 1..n : due'[h][i] = due[h][i]
          /\ due'[h][n + 1] = m
      BY <1>1, <1>3, <2>5
    <3> HIDE DEF n
    <3>2. \A i \in 1..(n + 1) : i \in 1..n \/ i = n + 1
      BY <3>1
    <3> QED
      <4>1. \A i \in 1..(n + 1) : pc'[due'[h][i]] = "arrived"
        BY <2>3, <3>1, <3>2 DEF n
      <4>2. ASSUME NEW i \in 1..(n + 1), NEW j \in 1..(n + 1),
                   due'[h][i] = due'[h][j]
            PROVE  i = j
        BY <2>1, <2>2, <3>1, <3>2, <4>2 DEF n
      <4> QED
        BY <3>1, <4>1, <4>2
  <2> QED
    BY <2>4, <2>5
<1>5. DueInv'
  BY <1>4 DEF DueInv
<1>6. PlaceInv'
  <2> SUFFICES ASSUME NEW h \in Handles
               PROVE  /\ Elements(queue'[h]) \subseteq Elements(due'[h])
                      /\ full'[h] \subseteq Elements(due'[h]) \ Elements(queue'[h])
                      /\ \A r \in ReadersOf(h) :
                           /\ Elements(got[r]) \subseteq Elements(due'[h])
                           /\ Elements(got[r])
                                \cap (Elements(queue'[h]) \cup full'[h]) = {}
                           /\ \A q \in ReadersOf(h) \ {r} :
                                Elements(got[r]) \cap Elements(got[q]) = {}
                      /\ h \notin gone =>
                           \A y \in Elements(due'[h]) \ bad :
                             \/ y \in Elements(queue'[h]) \cup full'[h]
                             \/ \E r \in ReadersOf(h) : y \in Elements(got[r])
    BY <1>2 DEF PlaceInv
  <2>1. /\ Elements(queue[h]) \subseteq Elements(due[h])
        /\ full[h] \subseteq Elements(due[h]) \ Elements(queue[h])
        /\ \A r \in ReadersOf(h) :
             /\ Elements(got[r]) \subseteq Elements(due[h])
             /\ Elements(got[r]) \cap (Elements(queue[h]) \cup full[h]) = {}
             /\ \A q \in ReadersOf(h) \ {r} :
                  Elements(got[r]) \cap Elements(got[q]) = {}
        /\ h \notin gone =>
             \A y \in Elements(due[h]) \ bad :
               \/ y \in Elements(queue[h]) \cup full[h]
               \/ \E r \in ReadersOf(h) : y \in Elements(got[r])
    BY DEF IInv, PlaceInv
  <2>2. CASE h \notin Receivers(t)
    BY <1>1, <2>1, <2>2
  <2>3. CASE h \in Receivers(t)
    <3>1. /\ m \notin Elements(due[h])
          /\ Elements(due'[h]) = Elements(due[h]) \cup {m}
          /\ \/ /\ Elements(queue'[h]) = Elements(queue[h]) \cup {m}
                /\ full'[h] = full[h]
             \/ queue'[h] = queue[h] /\ full'[h] = full[h] \cup {m}
      BY <1>1, <2>3
    <3>2. /\ m \notin Elements(queue[h]) /\ m \notin full[h]
          /\ \A r \in ReadersOf(h) : m \notin Elements(got[r])
      BY <2>1, <3>1
    <3>3. /\ Elements(queue'[h]) \cup full'[h]
               = Elements(queue[h]) \cup full[h] \cup {m}
      BY <3>1
    <3>4. full'[h] \cap Elements(queue'[h]) = {}
      BY <2>1, <3>1, <3>2
    <3>5. /\ Elements(queue'[h]) \subseteq Elements(due'[h])
          /\ full'[h] \subseteq Elements(due'[h]) \ Elements(queue'[h])
      BY <2>1, <3>1, <3>3, <3>4
    <3>6. \A r \in ReadersOf(h) :
            /\ Elements(got[r]) \subseteq Elements(due'[h])
            /\ Elements(got[r]) \cap (Elements(queue'[h]) \cup full'[h]) = {}
      BY <2>1, <3>1, <3>2, <3>3
    <3>7. h \notin gone =>
            \A y \in Elements(due'[h]) \ bad :
              \/ y \in Elements(queue'[h]) \cup full'[h]
              \/ \E r \in ReadersOf(h) : y \in Elements(got[r])
      BY <2>1, <3>1, <3>3
    <3> QED
      BY <2>1, <3>5, <3>6, <3>7
  <2> QED
    BY <2>2, <2>3
<1>7. OrderInv'
  <2> SUFFICES ASSUME NEW h \in Handles
               PROVE  /\ Ordered(due'[h], queue'[h])
                      /\ \A r \in ReadersOf(h) :
                           /\ Ordered(due'[h], got[r])
                           /\ \A x \in Elements(got[r]), y \in Elements(queue'[h]) :
                                Before(due'[h], x, y)
    BY <1>2 DEF OrderInv
  <2>1. /\ Ordered(due[h], queue[h])
        /\ \A r \in ReadersOf(h) :
             /\ Ordered(due[h], got[r])
             /\ \A x \in Elements(got[r]), y \in Elements(queue[h]) :
                  Before(due[h], x, y)
    BY DEF IInv, OrderInv
  <2>2. CASE h \notin Receivers(t)
    BY <1>1, <2>1, <2>2
  <2>3. CASE h \in Receivers(t)
    <3>1. /\ m \notin Elements(due[h]) /\ due'[h] = Append(due[h], m)
          /\ \/ /\ queue'[h] = Append(queue[h], m)
                /\ Elements(queue'[h]) = Elements(queue[h]) \cup {m}
             \/ queue'[h] = queue[h]
      BY <1>1, <2>3
    <3>2. /\ \A x \in Elements(due[h]), y \in Elements(due[h]) :
                Before(due[h], x, y) => Before(due'[h], x, y)
          /\ \A x \in Elements(due[h]) : Before(due'[h], x, m)
      BY <1>3, <3>1, BeforeAppend
    <3>3. /\ Elements(queue[h]) \subseteq Elements(due[h])
          /\ \A r \in ReadersOf(h) : Elements(got[r]) \subseteq Elements(due[h])
      BY DEF IInv, PlaceInv
    <3>4. \A s : Elements(s) \subseteq Elements(due[h]) /\ Ordered(due[h], s) =>
            Ordered(due'[h], s)
      <4> SUFFICES ASSUME NEW s, Elements(s) \subseteq Elements(due[h]),
                          Ordered(due[h], s), NEW i \in 1..Len(s),
                          NEW j \in 1..Len(s), i < j
                   PROVE  Before(due'[h], s[i], s[j])
        BY DEF Ordered
      <4>1. s[i] \in Elements(due[h]) /\ s[j] \in Elements(due[h])
        BY ElementsDef
      <4>2. Before(due[h], s[i], s[j])
        BY DEF Ordered
      <4> QED
        BY <3>2, <4>1, <4>2
    <3>5. Ordered(due'[h], queue'[h])
      <4>1. Ordered(due'[h], queue[h])
        BY <2>1, <3>3, <3>4
      <4>2. \A x \in Elements(queue[h]) : Before(due'[h], x, m)
        BY <3>2, <3>3
      <4>3. Ordered(due'[h], Append(queue[h], m))
        <5>1. queue[h] \in Seq(Msgs)
          BY <1>3
        <5> QED
          BY <4>1, <4>2, <5>1, OrderedAppend
      <4> QED
        BY <3>1, <4>1, <4>3
    <3>6. \A r \in ReadersOf(h) : Ordered(due'[h], got[r])
      BY <2>1, <3>3, <3>4
    <3>7. ASSUME NEW r \in ReadersOf(h), NEW x \in Elements(got[r]),
                 NEW y \in Elements(queue'[h])
          PROVE  Before(due'[h], x, y)
      <4>1. x \in Elements(due[h])
        BY <3>3
      <4>2. y \in Elements(queue[h]) \/ y = m
        BY <3>1
      <4> QED
        BY <2>1, <3>2, <3>3, <4>1, <4>2
    <3> QED
      BY <3>5, <3>6, <3>7
  <2> QED
    BY <2>2, <2>3
<1> QED
  BY <1>5, <1>6, <1>7

LEMMA ArriveHands ==
  ASSUME IInv,
         (\E m \in Own : ArriveOwn(m)) \/ (\E m \in Remote : ArriveRemote(m))
  PROVE  \E m \in Msgs : \E t :
           /\ Hand(m, t) /\ pc[m] # "arrived"
           /\ m \in Own => pc[m] = "published" /\ t = topic[m]
           /\ pc' \in [Requests \cup Remote -> Places]
           /\ \A q \in Requests \cup Remote :
                pc'[q] = IF q = m THEN "arrived" ELSE pc[q]
           /\ topic' \in [Requests \cup Remote \cup BootTopics -> Topics \cup {Nil}]
           /\ \A x \in Requests \cup BootTopics : topic'[x] = topic[x]
<1>1. "arrived" \in Places
  BY DEF Places
<1>2. topic \in [Requests \cup Remote \cup BootTopics -> Topics \cup {Nil}]
  BY DEF IInv, TypeOK
<1>3. CASE \E m \in Own : ArriveOwn(m)
  <2>1. PICK m \in Own : /\ pc[m] = "published" /\ Hand(m, topic[m])
                         /\ Goto(m, "arrived") /\ topic' = topic
    BY <1>3 DEF ArriveOwn
  <2>2. m \in Msgs /\ m \in Requests \cup Remote
    BY DomainFacts
  <2>3. /\ pc' \in [Requests \cup Remote -> Places]
        /\ \A q \in Requests \cup Remote :
             pc'[q] = IF q = m THEN "arrived" ELSE pc[q]
    BY <1>1, <2>1, <2>2, GotoFacts DEF IInv
  <2> QED
    BY <1>2, <2>1, <2>2, <2>3
<1>4. CASE \E m \in Remote : ArriveRemote(m)
  <2>1. PICK m \in Remote : Begin(m, "arrived") /\ \E t \in Topics : Hand(m, t)
    BY <1>4 DEF ArriveRemote
  <2>2. m \in Msgs /\ m \in Requests \cup Remote /\ m \notin Own
    BY DomainFacts, NameFacts
  <2>3. /\ pc[m] = "idle"
        /\ pc' \in [Requests \cup Remote -> Places]
        /\ \A q \in Requests \cup Remote :
             pc'[q] = IF q = m THEN "arrived" ELSE pc[q]
        /\ topic' \in [Requests \cup Remote \cup BootTopics -> Topics \cup {Nil}]
        /\ \A x \in Requests \cup Remote \cup BootTopics :
             x # m => topic'[x] = topic[x]
    BY <1>1, <2>1, <2>2, BeginFacts DEF IInv
  <2>4. m \notin Requests \cup BootTopics
    BY NameFacts DEF Requests
  <2> QED
    BY <2>1, <2>2, <2>3, <2>4
<1> QED
  BY <1>3, <1>4

(* A message arrives: one of this node at the handle it was published by.  *)
LEMMA ArriveKeepsIInv ==
  ASSUME IInv,
         (\E m \in Own : ArriveOwn(m)) \/ (\E m \in Remote : ArriveRemote(m))
  PROVE  IInv'
<1>1. /\ table' = table /\ open' = open /\ got' = got /\ sub' = sub
      /\ node' = node /\ bad' = bad /\ expired' = expired /\ gone' = gone
  BY DEF ArriveOwn, ArriveRemote, envVars
<1>2. PICK m \in Msgs : \E t :
        /\ Hand(m, t) /\ pc[m] # "arrived"
        /\ m \in Own => pc[m] = "published" /\ t = topic[m]
        /\ pc' \in [Requests \cup Remote -> Places]
        /\ \A q \in Requests \cup Remote :
             pc'[q] = IF q = m THEN "arrived" ELSE pc[q]
        /\ topic' \in [Requests \cup Remote \cup BootTopics -> Topics \cup {Nil}]
        /\ \A x \in Requests \cup BootTopics : topic'[x] = topic[x]
  BY ArriveHands
<1>3. PICK t :
        /\ Hand(m, t) /\ pc[m] # "arrived"
        /\ m \in Own => pc[m] = "published" /\ t = topic[m]
        /\ pc' \in [Requests \cup Remote -> Places]
        /\ \A q \in Requests \cup Remote :
             pc'[q] = IF q = m THEN "arrived" ELSE pc[q]
        /\ topic' \in [Requests \cup Remote \cup BootTopics -> Topics \cup {Nil}]
        /\ \A x \in Requests \cup BootTopics : topic'[x] = topic[x]
  BY <1>2
<1>4. /\ due' \in [Handles -> Seq(Msgs)]
      /\ queue' \in [Handles -> Seq(Msgs)]
      /\ full' \in [Handles -> SUBSET Msgs]
      /\ \A h \in Handles :
           Elements(due[h]) \subseteq Elements(due'[h])
      /\ \A h \in Receivers(t) : h \in Handles => m \in Elements(due'[h])
  <2>1. /\ due' \in [Handles -> Seq(Msgs)]
        /\ queue' \in [Handles -> Seq(Msgs)]
        /\ full' \in [Handles -> SUBSET Msgs]
        /\ \A h \in Handles :
             /\ h \in Receivers(t) =>
                  Elements(due'[h]) = Elements(due[h]) \cup {m}
             /\ h \notin Receivers(t) => due'[h] = due[h]
    <3>1. Hand(m, t) /\ pc[m] # "arrived"
      BY <1>3
    <3> QED
      BY <3>1, HandFacts
  <2> QED
    BY <2>1
<1>5. TypeOK'
  BY <1>1, <1>3, <1>4 DEF IInv, TypeOK, Places
<1>6. /\ open \subseteq Handles
      /\ table \in [Topics -> BootTopics \cup Puts \cup {Nil}]
      /\ \A h \in Handles : topic'[h] = topic[h]
  BY <1>3, DomainFacts DEF IInv, TypeOK, Requests, Handles
<1>7. \A r \in Gets \cup Puts \cup Streams : r # m
  BY NameFacts DEF Msgs
<1>8. StageInv'
  <2>1. \A r \in Gets \cup Puts \cup Streams : pc'[r] = pc[r]
    BY <1>3, <1>7, DomainFacts
  <2>2. ASSUME NEW q \in Own
        PROVE  /\ pc'[q] \in {"published", "arrived"} =>
                    /\ sub[q] # Nil /\ sub[q] \in open
                    /\ topic'[sub[q]] = topic'[q]
               /\ pc'[q] = "arrived" => q \in Elements(due'[sub[q]])
    <3>1. topic'[q] = topic[q] /\ q \in Requests \cup Remote
      BY <1>3, DomainFacts
    <3>2. CASE q = m
      <4>1. /\ sub[m] # Nil /\ sub[m] \in open /\ topic[sub[m]] = topic[m]
            /\ t = topic[m]
        BY <1>3, <3>2 DEF IInv, StageInv
      <4>2. sub[m] \in Handles /\ sub[m] \in Receivers(t)
        BY <1>6, <4>1 DEF Receivers
      <4>3. topic'[sub[m]] = topic[sub[m]]
        BY <1>6, <4>2
      <4>4. m \in Elements(due'[sub[m]])
        BY <1>4, <4>2
      <4> QED
        BY <3>1, <3>2, <4>1, <4>3, <4>4
    <3>3. CASE q # m
      <4>1. pc'[q] = pc[q]
        BY <1>3, <3>1, <3>3
      <4> QED
        BY <1>4, <1>6, <3>1, <4>1 DEF IInv, StageInv
    <3> QED
      BY <3>2, <3>3
  <2>3. /\ BootTopics \subseteq open
        /\ \A b \in BootTopics : topic'[b] = b
        /\ \A p \in Puts : p \in open <=> pc'[p] \in {"store", "storing", "done"}
        /\ \A w \in Streams : w \in open <=> pc'[w] \in {"read", "write"}
        /\ \A h \in open : topic'[h] \in Topics
    BY <1>6, <2>1, DomainFacts DEF IInv, StageInv
  <2>4. \A b \in Topics : table[b] # Nil =>
          table[b] \in open /\ topic'[table[b]] = b
    BY <1>6 DEF IInv, StageInv
  <2>5. \A g \in Gets :
          /\ pc'[g] \in {"idle", "lookup", "error"} => sub[g] = Nil
          /\ pc'[g] = "read" => sub[g] # Nil
          /\ sub[g] # Nil => sub[g] \in open
          /\ sub[g] = Nil => got[g] = <<>>
    BY <2>1 DEF IInv, StageInv
  <2> QED
    BY <1>1, <2>2, <2>3, <2>4, <2>5 DEF StageInv
<1>9. TopicInv'
  <2>1. m \in Requests => m \in Own
    BY NameFacts DEF Msgs, Requests
  <2> QED
    BY <1>3, <2>1 DEF IInv, TopicInv
<1>10. /\ pc'[m] = "arrived"
       /\ \A q \in Msgs : pc[q] = "arrived" => pc'[q] = "arrived"
  BY <1>3, DomainFacts
<1>11. DueInv' /\ PlaceInv' /\ OrderInv'
  BY <1>1, <1>3, <1>10, HandKeeps
<1> QED
  BY <1>5, <1>8, <1>9, <1>11 DEF IInv

(* IInv is an invariant of every instance.                                 *)
THEOREM IInvInvariant == Spec => []IInv
<1>1. IInv /\ [Next]_vars => IInv'
  <2> SUFFICES ASSUME IInv, [Next]_vars PROVE IInv'
    OBVIOUS
  <2>1. CASE Next
    BY <2>1, PutKeepsIInv, StreamOpensAndCloses, AskKeepsIInv, LookKeepsIInv,
       ReadKeepsIInv, WrittenKeepsIInv, ArriveKeepsIInv, EnvironmentKeepsIInv
    DEF Next, GetStep, StreamStep
  <2>2. CASE UNCHANGED vars
    BY <2>2, EnvironmentKeepsIInv
  <2> QED
    BY <2>1, <2>2
<1> QED
  BY InitIInv, <1>1, PTL DEF Spec
-----------------------------------------------------------------------------
(* A message that PUT /messages published while the node was subscribed    *)
(* reaches the handle it was subscribed with (ipfs/ipfs.go:556-563,        *)
(* 600-612), in every instance.                                            *)
THEOREM OwnMessagesArrive == Spec => []ReachesSubscriber
<1>1. IInv => ReachesSubscriber
  BY DEF IInv, StageInv, ReachesSubscriber
<1> QED
  BY IInvInvariant, <1>1, PTL

(* A message that has arrived is in one place, whatever reads, drops or    *)
(* ends (ipfs/ipfs.go:569-598, node/node.go:354-379), in every instance.   *)
THEOREM MessagesHaveOnePlace == Spec => []DeliveryInv
<1>1. IInv => DeliveryInv
  <2> SUFFICES ASSUME IInv, NEW h \in Handles, NEW m \in Elements(due[h])
               PROVE  LET takers == {r \in ReadersOf(h) : m \in Elements(got[r])}
                          places == Cardinality(takers)
                            + (IF m \in Elements(queue[h]) THEN 1 ELSE 0)
                            + (IF m \in full[h] THEN 1 ELSE 0)
                      IN IF m \in bad \/ h \in gone THEN places <= 1
                                                    ELSE places = 1
    BY DEF DeliveryInv, InOnePlace, IInv
  <2> DEFINE takers == {r \in ReadersOf(h) : m \in Elements(got[r])}
             waits  == m \in Elements(queue[h])
             lost   == m \in full[h]
  <2>1. /\ ~(waits /\ lost)
        /\ (waits \/ lost) => takers = {}
        /\ \A r, q \in takers : r = q
        /\ m \notin bad /\ h \notin gone => waits \/ lost \/ takers # {}
    BY DEF IInv, PlaceInv
  <2>2. takers = {} \/ \E r : takers = {r}
    BY <2>1
  <2>3. Cardinality(takers) = IF takers = {} THEN 0 ELSE 1
    BY <2>2, FS_EmptySet, FS_Singleton
  <2> HIDE DEF takers, waits, lost
  <2>4. IF m \in bad \/ h \in gone
          THEN Cardinality(takers) + (IF waits THEN 1 ELSE 0)
                 + (IF lost THEN 1 ELSE 0) <= 1
          ELSE Cardinality(takers) + (IF waits THEN 1 ELSE 0)
                 + (IF lost THEN 1 ELSE 0) = 1
    BY <2>1, <2>3
  <2> QED
    BY <2>4 DEF takers, waits, lost
<1> QED
  BY IInvInvariant, <1>1, PTL

(* Where a message stands in the arrivals.                                 *)
LEMMA PositionFacts ==
  ASSUME IInv, NEW h \in Handles, NEW m \in Elements(due[h])
  PROVE  /\ Position(h, m) \in 1..Len(due[h])
         /\ due[h][Position(h, m)] = m
BY ElementsDef DEF Position

(* However GETs and streams interleave, answers and buffers together are   *)
(* in the order of arrival (ipfs/ipfs.go:575-596), in every instance.      *)
THEOREM AnswersAreInOrder == Spec => []InOrder
<1>1. IInv => InOrder
  <2> SUFFICES ASSUME IInv, NEW h \in Handles, NEW r \in ReadersOf(h)
               PROVE  Increasing(got[r] \o queue[h], h)
    BY DEF InOrder
  <2> DEFINE s == got[r]
             t == queue[h]
  <2>1. s \in Seq(Msgs) /\ t \in Seq(Msgs)
    <3>1. r \in Gets \cup Streams
      BY ReadersFacts
    <3>2. s \in Seq(Msgs \ bad) /\ t \in Seq(Msgs)
      BY <3>1 DEF IInv, TypeOK
    <3> QED
      BY <3>2
  <2>2. /\ Ordered(due[h], s) /\ Ordered(due[h], t)
        /\ \A x \in Elements(s), y \in Elements(t) : Before(due[h], x, y)
        /\ Elements(s) \subseteq Elements(due[h])
        /\ Elements(t) \subseteq Elements(due[h])
    BY DEF IInv, OrderInv, PlaceInv
  <2> HIDE DEF s, t
  <2>3. /\ Len(s) \in Nat /\ Len(t) \in Nat /\ Len(s \o t) = Len(s) + Len(t)
        /\ \A i \in 1..Len(s) : (s \o t)[i] = s[i]
        /\ \A i \in 1..Len(t) : (s \o t)[Len(s) + i] = t[i]
    BY <2>1
  <2>4. ASSUME NEW i \in 1..(Len(s) + Len(t))
        PROVE  \/ i \in 1..Len(s)
               \/ i - Len(s) \in 1..Len(t) /\ Len(s) + (i - Len(s)) = i
    BY <2>3
  <2>5. ASSUME NEW i \in 1..(Len(s) + Len(t)), NEW j \in 1..(Len(s) + Len(t)),
               i < j
        PROVE  /\ (s \o t)[i] \in Elements(due[h])
               /\ (s \o t)[j] \in Elements(due[h])
               /\ Before(due[h], (s \o t)[i], (s \o t)[j])
    <3>1. CASE i \in 1..Len(s) /\ j \in 1..Len(s)
      <4>1. s[i] \in Elements(s) /\ s[j] \in Elements(s)
        BY <3>1, ElementsDef
      <4> QED
        BY <2>2, <2>3, <2>5, <3>1, <4>1 DEF Ordered
    <3>2. CASE i \in 1..Len(s) /\ j \notin 1..Len(s)
      <4> DEFINE l == j - Len(s)
      <4>1. l \in 1..Len(t) /\ Len(s) + l = j
        BY <2>4, <3>2
      <4>2. (s \o t)[i] = s[i] /\ (s \o t)[j] = t[l]
        BY <2>3, <3>2, <4>1
      <4>3. s[i] \in Elements(s) /\ t[l] \in Elements(t)
        BY <3>2, <4>1, ElementsDef
      <4> QED
        BY <2>2, <4>2, <4>3
    <3>3. CASE i \notin 1..Len(s)
      <4> DEFINE k == i - Len(s)
                 l == j - Len(s)
      <4>1. k \in 1..Len(t) /\ Len(s) + k = i
        BY <2>4, <3>3
      <4>2. l \in 1..Len(t) /\ Len(s) + l = j /\ k < l
        BY <2>3, <2>5, <4>1
      <4>3. (s \o t)[i] = t[k] /\ (s \o t)[j] = t[l]
        BY <2>3, <4>1, <4>2
      <4>4. t[k] \in Elements(t) /\ t[l] \in Elements(t)
        BY <4>1, <4>2, ElementsDef
      <4>5. Before(due[h], t[k], t[l])
        BY <2>2, <4>1, <4>2 DEF Ordered
      <4> QED
        BY <2>2, <4>3, <4>4, <4>5
    <3> QED
      BY <3>1, <3>2, <3>3
  <2>6. ASSUME NEW i \in 1..(Len(s) + Len(t)), NEW j \in 1..(Len(s) + Len(t)),
               i < j
        PROVE  Position(h, (s \o t)[i]) < Position(h, (s \o t)[j])
    <3>1. /\ (s \o t)[i] \in Elements(due[h])
          /\ (s \o t)[j] \in Elements(due[h])
          /\ Before(due[h], (s \o t)[i], (s \o t)[j])
      BY <2>5, <2>6
    <3> QED
      BY <3>1, PositionFacts DEF Before
  <2>7. Increasing(s \o t, h)
    BY <2>3, <2>6 DEF Increasing
  <2> QED
    BY <2>7 DEF s, t
<1> QED
  BY IInvInvariant, <1>1, PTL
-----------------------------------------------------------------------------
(* Every message has one fate, the one of its place.                       *)
FateInv ==
  /\ Fate = [h \in Handles |-> [i \in 1..Len(due[h]) |-> Fate[h][i]]]
  /\ \A h \in Handles : \A i \in 1..Len(due[h]) :
       /\ due[h][i] \in full[h] => Fate[h][i] = "dropped"
       /\ due[h][i] \in Elements(queue[h]) => Fate[h][i] = "waiting"
       /\ \A r \in ReadersOf(h) :
            due[h][i] \in Elements(got[r]) => Fate[h][i] = r
       /\ \/ due[h][i] \in full[h] \cup Elements(queue[h])
          \/ \E r \in ReadersOf(h) : due[h][i] \in Elements(got[r])
          \/ Fate[h][i] = "lost"

LEMMA FatesAreDecided == IInv => FateInv
<1> SUFFICES ASSUME IInv PROVE FateInv
  OBVIOUS
<1>1. Fate = [h \in Handles |-> [i \in 1..Len(due[h]) |-> Fate[h][i]]]
  BY DEF Fate
<1>2. \A h \in Handles : \A i \in 1..Len(due[h]) :
        Fate[h][i] = FateOf(h, due[h][i])
  BY DEF Fate
<1>3. ASSUME NEW h \in Handles, NEW m
      PROVE  /\ m \in full[h] => FateOf(h, m) = "dropped"
             /\ m \in Elements(queue[h]) => FateOf(h, m) = "waiting"
             /\ \A r \in ReadersOf(h) :
                  m \in Elements(got[r]) => FateOf(h, m) = r
             /\ \/ m \in full[h] \cup Elements(queue[h])
                \/ \E r \in ReadersOf(h) : m \in Elements(got[r])
                \/ FateOf(h, m) = "lost"
  <2>1. /\ full[h] \cap Elements(queue[h]) = {}
        /\ \A r \in ReadersOf(h) :
             /\ Elements(got[r]) \cap (Elements(queue[h]) \cup full[h]) = {}
             /\ \A q \in ReadersOf(h) \ {r} :
                  Elements(got[r]) \cap Elements(got[q]) = {}
    BY DEF IInv, PlaceInv
  <2>2. CASE m \in full[h]
    <3>1. /\ FateOf(h, m) = "dropped" /\ m \notin Elements(queue[h])
          /\ \A r \in ReadersOf(h) : m \notin Elements(got[r])
      BY <2>1, <2>2 DEF FateOf
    <3> QED
      BY <2>2, <3>1
  <2>3. CASE m \in Elements(queue[h])
    <3>1. /\ m \notin full[h]
          /\ \A r \in ReadersOf(h) : m \notin Elements(got[r])
      BY <2>1, <2>3
    <3>2. FateOf(h, m) = "waiting"
      BY <2>3, <3>1 DEF FateOf
    <3> QED
      BY <2>3, <3>1, <3>2
  <2>4. CASE m \notin full[h] /\ m \notin Elements(queue[h])
    <3>1. ASSUME NEW r \in ReadersOf(h), m \in Elements(got[r])
          PROVE  FateOf(h, m) = r
      <4>1. FateOf(h, m) = CHOOSE q \in ReadersOf(h) : m \in Elements(got[q])
        BY <2>4, <3>1 DEF FateOf
      <4>2. \A q \in ReadersOf(h) : m \in Elements(got[q]) => q = r
        BY <2>1, <3>1
      <4> QED
        BY <3>1, <4>1, <4>2
    <3>2. (\A r \in ReadersOf(h) : m \notin Elements(got[r])) =>
            FateOf(h, m) = "lost"
      BY <2>4 DEF FateOf
    <3> QED
      BY <2>4, <3>1, <3>2
  <2> QED
    BY <2>2, <2>3, <2>4
<1>4. ASSUME NEW h \in Handles, NEW i \in 1..Len(due[h])
      PROVE  /\ due[h][i] \in full[h] => Fate[h][i] = "dropped"
             /\ due[h][i] \in Elements(queue[h]) => Fate[h][i] = "waiting"
             /\ \A r \in ReadersOf(h) :
                  due[h][i] \in Elements(got[r]) => Fate[h][i] = r
             /\ \/ due[h][i] \in full[h] \cup Elements(queue[h])
                \/ \E r \in ReadersOf(h) : due[h][i] \in Elements(got[r])
                \/ Fate[h][i] = "lost"
  <2> DEFINE m == due[h][i]
  <2>1. Fate[h][i] = FateOf(h, m)
    BY <1>2
  <2> HIDE DEF m
  <2>2. /\ m \in full[h] => Fate[h][i] = "dropped"
        /\ m \in Elements(queue[h]) => Fate[h][i] = "waiting"
        /\ \A r \in ReadersOf(h) : m \in Elements(got[r]) => Fate[h][i] = r
        /\ \/ m \in full[h] \cup Elements(queue[h])
           \/ \E r \in ReadersOf(h) : m \in Elements(got[r])
           \/ Fate[h][i] = "lost"
    BY <1>3, <2>1
  <2> QED
    BY <2>2 DEF m
<1> QED
  BY <1>1, <1>4 DEF FateInv

(* A step that moves no message changes no fate.                           *)
LEMMA FatesStay ==
  ASSUME IInv, FateInv, FateInv',
         due' = due, queue' = queue, full' = full, got' = got,
         \A h \in Handles : ReadersOf(h) \subseteq ReadersOf(h)',
         \A h \in Handles : \A r \in ReadersOf(h)' :
           r \in ReadersOf(h) \/ got[r] = <<>>
  PROVE  Fate' = Fate
<1>1. /\ Fate = [h \in Handles |-> [i \in 1..Len(due[h]) |-> Fate[h][i]]]
      /\ Fate' = [h \in Handles |-> [i \in 1..Len(due[h]) |-> Fate'[h][i]]]
  BY DEF FateInv
<1>2. \A x : x \notin Elements(<<>>)
  BY DEF Elements
<1>3. ASSUME NEW h \in Handles, NEW i \in 1..Len(due[h])
      PROVE  Fate'[h][i] = Fate[h][i]
  <2>1. /\ due[h][i] \in full[h] => Fate[h][i] = "dropped"
        /\ due[h][i] \in Elements(queue[h]) => Fate[h][i] = "waiting"
        /\ \A r \in ReadersOf(h) :
             due[h][i] \in Elements(got[r]) => Fate[h][i] = r
        /\ \/ due[h][i] \in full[h] \cup Elements(queue[h])
           \/ \E r \in ReadersOf(h) : due[h][i] \in Elements(got[r])
           \/ Fate[h][i] = "lost"
    BY DEF FateInv
  <2>2. /\ due[h][i] \in full[h] => Fate'[h][i] = "dropped"
        /\ due[h][i] \in Elements(queue[h]) => Fate'[h][i] = "waiting"
        /\ \A r \in ReadersOf(h)' :
             due[h][i] \in Elements(got[r]) => Fate'[h][i] = r
        /\ \/ due[h][i] \in full[h] \cup Elements(queue[h])
           \/ \E r \in ReadersOf(h)' : due[h][i] \in Elements(got[r])
           \/ Fate'[h][i] = "lost"
    BY DEF FateInv
  <2>3. /\ ReadersOf(h) \subseteq ReadersOf(h)'
        /\ \A r \in ReadersOf(h)' : due[h][i] \in Elements(got[r]) =>
             r \in ReadersOf(h)
    BY <1>2
  <2> QED
    BY <2>1, <2>2, <2>3
<1> QED
  BY <1>1, <1>3

(* What Phase says, and that it follows open and the streams that closed.  *)
LEMMA PhaseFacts ==
  /\ Phase = [h \in Handles |-> Phase[h]]
  /\ \A h \in Handles :
       /\ h \in open => Phase[h] = "open"
       /\ h \notin open =>
            Phase[h] = IF h \in Streams /\ pc[h] = "closed" THEN "closed"
                                                          ELSE "none"
BY DEF Phase

LEMMA PhaseStays ==
  ASSUME open' = open,
         \A w \in Streams : pc'[w] = "closed" <=> pc[w] = "closed"
  PROVE  Phase' = Phase
BY DEF Phase

(* The steps that move no message: they open or close a handle, let a      *)
(* client go, or change nothing that is promised.                          *)
LEMMA QuietStepIsDelivery ==
  ASSUME IInv, FateInv, FateInv',
         \/ \E p \in Puts : PutStep(p)
         \/ \E w \in Streams : StreamOpen(w) \/ StreamEnd(w) \/ Disconnect(w)
         \/ \E g \in Gets : GetMessages(g) \/ Answer(g) \/ Expire(g)
         \/ \E m \in Own : PutMessage(m)
         \/ MapFault \/ Cancel \/ Exit
         \/ UNCHANGED vars
  PROVE  [Delivery!Next]_(Delivery!vars)
<1>1. /\ due' = due /\ queue' = queue /\ full' = full /\ got' = got
      /\ sub' = sub /\ bad' = bad
  BY DEF PutStep, Subscribe, StoreBegins, StoreEnds, StreamOpen, StreamEnd,
         Disconnect, GetMessages, Answer, Expire, PutMessage, MapFault, Cancel,
         Exit, subVars, envVars, vars
<1>2. \A h : ReadersOf(h)' = ReadersOf(h)
  BY <1>1 DEF ReadersOf
<1>3. Fate' = Fate
  BY <1>1, <1>2, FatesStay
<1>4. /\ pc \in [Requests \cup Remote -> Places]
      /\ open \subseteq Handles
  BY DEF IInv, TypeOK, Places
<1>5. /\ Phase = [h \in Handles |-> Phase[h]]
      /\ \A h \in Handles :
           /\ h \in open => Phase[h] = "open"
           /\ h \notin open =>
                Phase[h] = IF h \in Streams /\ pc[h] = "closed" THEN "closed"
                                                              ELSE "none"
  BY PhaseFacts
<1>6. /\ Phase' = [h \in Handles |-> Phase'[h]]
      /\ \A h \in Handles :
           /\ h \in open' => Phase'[h] = "open"
           /\ h \notin open' =>
                Phase'[h] = IF h \in Streams /\ pc'[h] = "closed" THEN "closed"
                                                                ELSE "none"
  BY DEF Phase
<1>7. CASE \E p \in Puts : PutStep(p)
  <2>1. PICK p \in Puts : PutStep(p)
    BY <1>7
  <2>2. p \in Requests /\ p \in Handles /\ p \notin Streams
    BY DomainFacts, NameFacts
  <2>3. gone' = gone
    BY <2>1 DEF PutStep, Subscribe, StoreBegins, StoreEnds, envVars
  <2>4. \A q \in Streams : pc'[q] = pc[q]
    <3>1. \A q \in Requests \cup Remote : q # p => pc'[q] = pc[q]
      BY <1>4, <2>1 DEF PutStep, Subscribe, StoreBegins, StoreEnds, Begin, Goto
    <3> QED
      BY <2>2, <3>1, DomainFacts
  <2>5. CASE open' = open
    <3>1. Phase' = Phase
      BY <2>4, <2>5, PhaseStays
    <3> QED
      BY <1>1, <1>3, <2>3, <3>1 DEF Delivery!vars
  <2>6. CASE open' # open
    <3>1. Begin(p, "store") /\ open' = open \cup {p}
      BY <2>1, <2>6 DEF PutStep, Subscribe, StoreBegins, StoreEnds, subVars
    <3>2. p \notin open
      BY <2>6, <3>1
    <3>3. Phase[p] = "none"
      BY <1>5, <2>2, <3>2
    <3>4. \A h \in Handles : Phase'[h] = IF h = p THEN "open" ELSE Phase[h]
      BY <1>5, <1>6, <2>2, <2>4, <3>1
    <3>5. Phase' = [Phase EXCEPT ![p] = "open"]
      BY <1>5, <1>6, <3>4
    <3>6. Delivery!Open(p)
      BY <1>1, <1>3, <2>3, <3>3, <3>5 DEF Delivery!Open
    <3> QED
      BY <2>2, <3>6 DEF Delivery!Next
  <2> QED
    BY <2>5, <2>6
<1>8. CASE \E w \in Streams : StreamOpen(w) \/ StreamEnd(w)
  <2>1. PICK w \in Streams : StreamOpen(w) \/ StreamEnd(w)
    BY <1>8
  <2>2. w \in Requests /\ w \in Handles
    BY DomainFacts
  <2>3. gone' = gone
    BY <2>1 DEF StreamOpen, StreamEnd, envVars
  <2>4. /\ \A q \in Requests \cup Remote : q # w => pc'[q] = pc[q]
        /\ \/ /\ StreamOpen(w) /\ pc[w] = "idle"
              /\ \/ pc'[w] = "read" /\ open' = open \cup {w}
                 \/ pc'[w] = "error" /\ open' = open
           \/ /\ StreamEnd(w) /\ pc[w] = "read"
              /\ pc'[w] = "closed" /\ open' = open \ {w}
    BY <1>4, <2>1, <2>2 DEF StreamOpen, StreamEnd, Begin, Goto
  <2>5. \A q \in Streams : q # w => pc'[q] = pc[q]
    BY <2>4, DomainFacts
  <2>6. w \in open <=> pc[w] \in {"read", "write"}
    BY DEF IInv, StageInv
  <2>7. CASE pc'[w] = "read" /\ open' = open \cup {w} /\ pc[w] = "idle"
    <3>1. Phase[w] = "none"
      BY <1>5, <2>2, <2>6, <2>7
    <3>2. \A h \in Handles : Phase'[h] = IF h = w THEN "open" ELSE Phase[h]
      BY <1>5, <1>6, <2>2, <2>5, <2>7
    <3>3. Phase' = [Phase EXCEPT ![w] = "open"]
      BY <1>5, <1>6, <3>2
    <3>4. Delivery!Open(w)
      BY <1>1, <1>3, <2>3, <3>1, <3>3 DEF Delivery!Open
    <3> QED
      BY <2>2, <3>4 DEF Delivery!Next
  <2>8. CASE pc'[w] = "error" /\ open' = open /\ pc[w] = "idle"
    <3>1. Phase' = Phase
      BY <2>5, <2>8, PhaseStays
    <3> QED
      BY <1>1, <1>3, <2>3, <3>1 DEF Delivery!vars
  <2>9. CASE pc'[w] = "closed" /\ open' = open \ {w} /\ pc[w] = "read"
    <3>1. Phase[w] = "open"
      BY <1>5, <2>2, <2>6, <2>9
    <3>2. \A h \in Handles : Phase'[h] = IF h = w THEN "closed" ELSE Phase[h]
      BY <1>5, <1>6, <2>2, <2>5, <2>9
    <3>3. Phase' = [Phase EXCEPT ![w] = "closed"]
      BY <1>5, <1>6, <3>2
    <3>4. Delivery!Close(w)
      BY <1>1, <1>3, <2>3, <3>1, <3>3 DEF Delivery!Close
    <3> QED
      BY <2>2, <3>4 DEF Delivery!Next
  <2> QED
    BY <2>4, <2>7, <2>8, <2>9
<1>9. CASE \E w \in Streams : Disconnect(w)
  <2>1. PICK w \in Streams : gone' = gone \cup {w} /\ pc' = pc /\ open' = open
    BY <1>9 DEF Disconnect, subVars
  <2>2. Phase' = Phase
    BY <2>1, PhaseStays
  <2>3. Delivery!Leave(w)
    BY <1>1, <1>3, <2>1, <2>2 DEF Delivery!Leave
  <2> QED
    BY <2>3, DomainFacts DEF Delivery!Next
<1>10. CASE \/ \E g \in Gets : GetMessages(g) \/ Answer(g) \/ Expire(g)
            \/ \E m \in Own : PutMessage(m)
            \/ MapFault \/ Cancel \/ Exit
            \/ UNCHANGED vars
  <2>1. open' = open /\ gone' = gone
    BY <1>10 DEF GetMessages, Answer, Expire, PutMessage, MapFault, Cancel,
                 Exit, subVars, envVars, vars
  <2>2. \A w \in Streams : pc'[w] = pc[w]
    <3>1. \A w \in Streams : w \in Requests \cup Remote /\ w \notin Gets /\ w \notin Own
      BY DomainFacts, NameFacts
    <3>2. CASE \E g \in Gets : GetMessages(g) \/ Answer(g)
      BY <1>4, <3>1, <3>2 DEF GetMessages, Answer, Begin, Goto
    <3>3. CASE \E m \in Own : PutMessage(m)
      BY <1>4, <3>1, <3>3 DEF PutMessage, Begin
    <3>4. CASE (\E g \in Gets : Expire(g)) \/ MapFault \/ Cancel \/ Exit
                 \/ UNCHANGED vars
      BY <3>4 DEF Expire, MapFault, Cancel, Exit, vars
    <3> QED
      BY <1>10, <3>2, <3>3, <3>4
  <2>3. Phase' = Phase
    BY <2>1, <2>2, PhaseStays
  <2> QED
    BY <1>1, <1>3, <2>1, <2>3 DEF Delivery!vars
<1> QED
  BY <1>7, <1>8, <1>9, <1>10

(* A write that returns changes nothing that is promised.                  *)
LEMMA WrittenIsDelivery ==
  ASSUME IInv, FateInv, FateInv', \E w \in Streams : StreamWritten(w)
  PROVE  UNCHANGED Delivery!vars
<1>1. /\ StreamsTurn /\ open' = open /\ due' = due /\ queue' = queue
      /\ full' = full /\ got' = got /\ sub' = sub /\ bad' = bad /\ gone' = gone
  BY TurnFacts DEF IInv, StreamWritten, subVars, envVars
<1>2. \A h : ReadersOf(h)' = ReadersOf(h)
  BY <1>1 DEF ReadersOf
<1>3. Fate' = Fate
  BY <1>1, <1>2, FatesStay
<1>4. Phase' = Phase
  BY <1>1, TurnKeeps, PhaseStays
<1> QED
  BY <1>1, <1>3, <1>4 DEF Delivery!vars

(* Looking into the map changes nothing that is promised.                  *)
LEMMA LookIsDelivery ==
  ASSUME IInv, FateInv, FateInv',
         (\E g \in Gets : Lookup(g)) \/ (\E m \in Own : Publish(m))
  PROVE  UNCHANGED Delivery!vars
<1>1. /\ open' = open /\ due' = due /\ queue' = queue /\ full' = full
      /\ got' = got /\ bad' = bad /\ gone' = gone
  BY DEF Lookup, Publish, subVars, envVars
<1>2. PICK r \in Gets \cup Own :
        /\ pc[r] = "lookup"
        /\ sub' = [sub EXCEPT ![r] = table[topic[r]]]
        /\ \E next : pc' = [pc EXCEPT ![r] = next]
  BY DEF Lookup, Publish, Goto
<1>3. /\ sub \in [Gets \cup Own -> BootTopics \cup Puts \cup {Nil}]
      /\ pc \in [Requests \cup Remote -> Places]
  BY DEF IInv, TypeOK, Places
<1>4. r \in Gets => sub[r] = Nil /\ got[r] = <<>>
  BY <1>2 DEF IInv, StageInv
<1>5. \A q \in Gets \cup Own : q # r => sub'[q] = sub[q]
  BY <1>2, <1>3
<1>6. \A h \in Handles : ReadersOf(h) \subseteq ReadersOf(h)'
  <2> SUFFICES ASSUME NEW h \in Handles, NEW g \in Gets, sub[g] = h
               PROVE  sub'[g] = h
    BY DEF ReadersOf
  <2>1. h # Nil
    BY NameFacts DEF Handles
  <2> QED
    BY <1>4, <1>5, <2>1
<1>7. \A h \in Handles : \A q \in ReadersOf(h)' :
        q \in ReadersOf(h) \/ got[q] = <<>>
  <2> SUFFICES ASSUME NEW h \in Handles, NEW g \in Gets, sub'[g] = h
               PROVE  sub[g] = h \/ got[g] = <<>>
    BY DEF ReadersOf
  <2> QED
    BY <1>4, <1>5
<1>8. Fate' = Fate
  BY <1>1, <1>6, <1>7, FatesStay
<1>9. \A w \in Streams : pc'[w] = pc[w]
  <2>1. \A w \in Streams : w \in Requests /\ w # r
    BY DomainFacts, NameFacts
  <2> QED
    BY <1>2, <1>3, <2>1
<1>10. Phase' = Phase
  BY <1>1, <1>9, PhaseStays
<1> QED
  BY <1>1, <1>8, <1>10 DEF Delivery!vars

(* Who reads gets the oldest message that waits, or it is lost.            *)
LEMMA ReadIsDelivery ==
  ASSUME IInv, FateInv, FateInv',
         \/ \E g \in Gets : ReadNext(g)
         \/ \E w \in Streams : StreamNext(w)
  PROVE  Delivery!Next
<1>1. PICK h \in open \cap Handles : \E r \in ReadersOf(h) : Takes(r, h)
  BY ReadTakes
<1>2. PICK r \in ReadersOf(h) : Takes(r, h)
  BY <1>1
<1> DEFINE x == Head(queue[h])
<1>3. /\ queue'[h] = Tail(queue[h])
      /\ \A k \in Handles : k # h => queue'[k] = queue[k]
      /\ \A q \in Gets \cup Streams : q # r => got'[q] = got[q]
      /\ \A k \in Handles : k # h => r \notin ReadersOf(k)
      /\ x \in Msgs
      /\ Elements(queue[h]) = Elements(queue'[h]) \cup {x}
      /\ x \notin Elements(queue'[h])
      /\ \/ x \notin bad /\ Elements(got'[r]) = Elements(got[r]) \cup {x}
         \/ (x \in bad \/ h \in gone) /\ got'[r] = got[r]
  BY <1>2, TakeFacts
<1>4. /\ open' = open /\ StreamsTurn /\ due' = due /\ full' = full
      /\ sub' = sub /\ bad' = bad /\ gone' = gone
  BY <1>2, TurnFacts DEF IInv, Takes, ReadNext, StreamNext
<1>5. \A k : ReadersOf(k)' = ReadersOf(k) /\ ReadersOf(k) \subseteq Gets \cup Streams
  BY <1>4, ReadersFacts DEF ReadersOf
<1>6. Phase' = Phase /\ Phase[h] = "open"
  BY <1>4, TurnKeeps, PhaseStays, PhaseFacts
<1>7. /\ Ordered(due[h], queue[h]) /\ queue[h] \in Seq(Msgs) /\ queue[h] # <<>>
      /\ \A y \in Elements(queue'[h]) : Before(due[h], x, y)
  <2>1. Ordered(due[h], queue[h]) /\ queue[h] \in Seq(Msgs) /\ queue[h] # <<>>
    BY <1>2 DEF IInv, OrderInv, TypeOK, Takes
  <2> QED
    BY <1>3, <2>1, OrderedTail
<1>8. /\ \A i, j \in 1..Len(due[h]) : due[h][i] = due[h][j] => i = j
      /\ x \in Elements(due[h]) /\ x \notin full[h]
      /\ \A q \in ReadersOf(h) : x \notin Elements(got[q])
  BY <1>3 DEF IInv, DueInv, PlaceInv
<1>9. PICK i \in 1..Len(due[h]) : due[h][i] = x
  BY <1>8, ElementsDef
<1> HIDE DEF x
<1>10. /\ Fate = [k \in Handles |-> [j \in 1..Len(due[k]) |-> Fate[k][j]]]
       /\ Fate' = [k \in Handles |-> [j \in 1..Len(due[k]) |-> Fate'[k][j]]]
  BY <1>4 DEF FateInv
<1>11. \A k \in Handles : \A j \in 1..Len(due[k]) :
         /\ due[k][j] \in full[k] => Fate[k][j] = "dropped"
         /\ due[k][j] \in Elements(queue[k]) => Fate[k][j] = "waiting"
         /\ \A q \in ReadersOf(k) :
              due[k][j] \in Elements(got[q]) => Fate[k][j] = q
         /\ \/ due[k][j] \in full[k] \cup Elements(queue[k])
            \/ \E q \in ReadersOf(k) : due[k][j] \in Elements(got[q])
            \/ Fate[k][j] = "lost"
  BY DEF FateInv
<1>12. \A k \in Handles : \A j \in 1..Len(due[k]) :
         /\ due[k][j] \in full[k] => Fate'[k][j] = "dropped"
         /\ due[k][j] \in Elements(queue'[k]) => Fate'[k][j] = "waiting"
         /\ \A q \in ReadersOf(k) :
              due[k][j] \in Elements(got'[q]) => Fate'[k][j] = q
         /\ \/ due[k][j] \in full[k] \cup Elements(queue'[k])
            \/ \E q \in ReadersOf(k) : due[k][j] \in Elements(got'[q])
            \/ Fate'[k][j] = "lost"
  BY <1>4, <1>5 DEF FateInv
<1>13. Delivery!IsOldest(h, i)
  <2>1. Fate[h][i] = "waiting"
    BY <1>3, <1>9, <1>11
  <2>2. ASSUME NEW j \in 1..(i - 1) PROVE Fate[h][j] # "waiting"
    <3>1. j \in 1..Len(due[h]) /\ j < i
      <4>1. due[h] \in Seq(Msgs)
        BY DEF IInv, TypeOK
      <4>2. Len(due[h]) \in Nat
        BY <4>1
      <4> QED
        BY <4>2
    <3>2. due[h][j] \notin Elements(queue[h])
      <4>1. due[h][j] # x
        BY <1>8, <1>9, <3>1
      <4>2. due[h][j] \notin Elements(queue'[h])
        <5> SUFFICES ASSUME due[h][j] \in Elements(queue'[h]) PROVE FALSE
          OBVIOUS
        <5>1. Before(due[h], x, due[h][j])
          BY <1>7
        <5>2. i < j
          BY <1>9, <3>1, <5>1 DEF Before
        <5> QED
          BY <3>1, <5>2
      <4> QED
        BY <1>3, <4>1, <4>2
    <3>3. \A q \in ReadersOf(h) : q # "waiting"
      BY <1>5, SubscriptionsAssumption
    <3> QED
      BY <1>11, <3>1, <3>2, <3>3
  <2> QED
    BY <2>1, <2>2 DEF Delivery!IsOldest
<1>14. \A k \in Handles : k # h => \A q \in ReadersOf(k) : got'[q] = got[q]
  BY <1>3, <1>5
<1>15. ASSUME NEW k \in Handles, NEW j \in 1..Len(due[k]), k # h \/ j # i
       PROVE  Fate'[k][j] = Fate[k][j]
  <2> DEFINE y == due[k][j]
  <2>1. k = h => y # x
    BY <1>8, <1>9, <1>15
  <2>2. y \in Elements(queue'[k]) <=> y \in Elements(queue[k])
    BY <1>3, <2>1
  <2>3. \A q \in ReadersOf(k) :
          y \in Elements(got'[q]) <=> y \in Elements(got[q])
    <3>1. CASE k # h
      BY <1>14, <3>1
    <3>2. CASE k = h
      BY <1>3, <1>5, <2>1, <3>2
    <3> QED
      BY <3>1, <3>2
  <2>4. /\ y \in full[k] => Fate[k][j] = "dropped"
        /\ y \in Elements(queue[k]) => Fate[k][j] = "waiting"
        /\ \A q \in ReadersOf(k) : y \in Elements(got[q]) => Fate[k][j] = q
        /\ \/ y \in full[k] \cup Elements(queue[k])
           \/ \E q \in ReadersOf(k) : y \in Elements(got[q])
           \/ Fate[k][j] = "lost"
    BY <1>11
  <2>5. /\ y \in full[k] => Fate'[k][j] = "dropped"
        /\ y \in Elements(queue'[k]) => Fate'[k][j] = "waiting"
        /\ \A q \in ReadersOf(k) : y \in Elements(got'[q]) => Fate'[k][j] = q
        /\ \/ y \in full[k] \cup Elements(queue'[k])
           \/ \E q \in ReadersOf(k) : y \in Elements(got'[q])
           \/ Fate'[k][j] = "lost"
    BY <1>12
  <2> HIDE DEF y
  <2> QED
    BY <2>2, <2>3, <2>4, <2>5
<1>16. Fate' = [Fate EXCEPT ![h][i] = Fate'[h][i]]
  <2> DEFINE F == Fate
             G == Fate'
  <2>1. /\ \A k \in Handles : F[k] = [j \in 1..Len(due[k]) |-> F[k][j]]
        /\ \A k \in Handles : G[k] = [j \in 1..Len(due[k]) |-> G[k][j]]
        /\ F = [k \in Handles |-> F[k]] /\ G = [k \in Handles |-> G[k]]
    <3> HIDE DEF F, G
    <3>1. /\ F = [k \in Handles |-> [j \in 1..Len(due[k]) |-> F[k][j]]]
          /\ G = [k \in Handles |-> [j \in 1..Len(due[k]) |-> G[k][j]]]
      BY <1>10 DEF F, G
    <3> QED
      BY <3>1
  <2>2. \A k \in Handles : \A j \in 1..Len(due[k]) :
          k # h \/ j # i => G[k][j] = F[k][j]
    BY <1>15
  <2> HIDE DEF F, G
  <2>3. \A k \in Handles : k # h => G[k] = F[k]
    BY <2>1, <2>2
  <2>4. G[h] = [F[h] EXCEPT ![i] = G[h][i]]
    BY <2>1, <2>2
  <2>5. G = [F EXCEPT ![h] = G[h]]
    BY <2>1, <2>3
  <2>6. G = [F EXCEPT ![h][i] = G[h][i]]
    BY <2>4, <2>5
  <2> QED
    BY <2>6 DEF F, G
<1>17. CASE x \notin bad /\ Elements(got'[r]) = Elements(got[r]) \cup {x}
  <2>1. Fate'[h][i] = r /\ r \in Gets \cup Streams
    BY <1>5, <1>9, <1>12, <1>17
  <2>2. Delivery!Read(h, i)
    BY <1>4, <1>6, <1>9, <1>13, <1>16, <1>17, <2>1 DEF Delivery!Read
  <2> QED
    BY <2>2 DEF Delivery!Next
<1>18. CASE (x \in bad \/ h \in gone) /\ got'[r] = got[r]
  <2>1. \A q \in ReadersOf(h) : x \notin Elements(got'[q])
    BY <1>3, <1>5, <1>8, <1>18
  <2>2. Fate'[h][i] = "lost"
    BY <1>3, <1>8, <1>9, <1>12, <2>1
  <2>3. Delivery!Read(h, i)
    BY <1>4, <1>6, <1>9, <1>13, <1>16, <1>18, <2>2 DEF Delivery!Read
  <2> QED
    BY <2>3 DEF Delivery!Next
<1> QED
  BY <1>3, <1>17, <1>18

(* f is a function on 1..n.                                                *)
IsList(f, n) == f = [i \in 1..n |-> f[i]]

(* A sequence given by its elements that is one element longer.            *)
LEMMA AppendIs ==
  ASSUME NEW n \in Nat, NEW F, NEW G, NEW e,
         IsList(F, n), IsList(G, n + 1),
         \A i \in 1..n : G[i] = F[i], G[n + 1] = e
  PROVE  G = Append(F, e)
<1> DEFINE S == {F[i] : i \in 1..n} \cup {e}
<1>1. F \in [1..n -> S] /\ G = [i \in 1..(n + 1) |-> G[i]]
  BY DEF IsList
<1>2. F \in Seq(S) /\ Len(F) = n /\ e \in S
  <2>1. ASSUME NEW T, NEW f \in [1..n -> T] PROVE f \in Seq(T) /\ Len(f) = n
    OBVIOUS
  <2>2. e \in S
    OBVIOUS
  <2> HIDE DEF S
  <2> QED
    BY <1>1, <2>1, <2>2
<1> HIDE DEF S
<1>3. /\ Append(F, e) \in Seq(S) /\ Len(Append(F, e)) = n + 1
      /\ \A i \in 1..n : Append(F, e)[i] = F[i]
      /\ Append(F, e)[n + 1] = e
  BY <1>2
<1>4. Append(F, e) = [i \in 1..(n + 1) |-> Append(F, e)[i]]
  <2>1. \A s \in Seq(S) : s = [i \in 1..Len(s) |-> s[i]]
    OBVIOUS
  <2> QED
    BY <1>3, <2>1
<1>5. \A i \in 1..(n + 1) : i \in 1..n \/ i = n + 1
  OBVIOUS
<1>6. \A i \in 1..(n + 1) : Append(F, e)[i] = G[i]
  BY <1>3, <1>5
<1> QED
  BY <1>1, <1>4, <1>6

(* A message that arrives waits or is dropped, and the others keep their   *)
(* fates.                                                                  *)
LEMMA ArriveIsDelivery ==
  ASSUME IInv, FateInv, FateInv',
         (\E m \in Own : ArriveOwn(m)) \/ (\E m \in Remote : ArriveRemote(m))
  PROVE  Delivery!Next
<1>1. PICK m \in Msgs : \E t :
        /\ Hand(m, t) /\ pc[m] # "arrived"
        /\ \A q \in Requests \cup Remote :
             pc'[q] = IF q = m THEN "arrived" ELSE pc[q]
  BY ArriveHands
<1>2. PICK t :
        /\ Hand(m, t) /\ pc[m] # "arrived"
        /\ \A q \in Requests \cup Remote :
             pc'[q] = IF q = m THEN "arrived" ELSE pc[q]
  BY <1>1
<1>3. /\ open' = open /\ got' = got /\ sub' = sub /\ bad' = bad /\ gone' = gone
  BY DEF ArriveOwn, ArriveRemote, envVars
<1>4. /\ due' \in [Handles -> Seq(Msgs)]
      /\ \A h \in Handles :
           /\ m \notin Elements(due[h])
           /\ h \in Receivers(t) =>
                /\ due'[h] = Append(due[h], m)
                /\ \/ /\ Elements(queue'[h]) = Elements(queue[h]) \cup {m}
                      /\ full'[h] = full[h]
                   \/ queue'[h] = queue[h] /\ full'[h] = full[h] \cup {m}
           /\ h \notin Receivers(t) =>
                /\ due'[h] = due[h] /\ queue'[h] = queue[h]
                /\ full'[h] = full[h]
  BY <1>2, HandFacts
<1>5. \A k : ReadersOf(k)' = ReadersOf(k)
  BY <1>3 DEF ReadersOf
<1>6. Phase' = Phase
  <2>1. \A w \in Streams : pc'[w] = pc[w]
    BY <1>2, DomainFacts, NameFacts DEF Msgs
  <2> QED
    BY <1>3, <2>1, PhaseStays
<1>7. \A k \in Handles : \A j \in 1..Len(due[k]) :
        /\ due[k][j] \in full[k] => Fate[k][j] = "dropped"
        /\ due[k][j] \in Elements(queue[k]) => Fate[k][j] = "waiting"
        /\ \A q \in ReadersOf(k) :
             due[k][j] \in Elements(got[q]) => Fate[k][j] = q
        /\ \/ due[k][j] \in full[k] \cup Elements(queue[k])
           \/ \E q \in ReadersOf(k) : due[k][j] \in Elements(got[q])
           \/ Fate[k][j] = "lost"
  BY DEF FateInv
<1>8. \A k \in Handles : \A j \in 1..Len(due'[k]) :
        /\ due'[k][j] \in full'[k] => Fate'[k][j] = "dropped"
        /\ due'[k][j] \in Elements(queue'[k]) => Fate'[k][j] = "waiting"
        /\ \A q \in ReadersOf(k) :
             due'[k][j] \in Elements(got[q]) => Fate'[k][j] = q
        /\ \/ due'[k][j] \in full'[k] \cup Elements(queue'[k])
           \/ \E q \in ReadersOf(k) : due'[k][j] \in Elements(got[q])
           \/ Fate'[k][j] = "lost"
  BY <1>3, <1>5 DEF FateInv
<1>9. /\ \A k \in Handles : Fate[k] = [j \in 1..Len(due[k]) |-> Fate[k][j]]
      /\ \A k \in Handles : Fate'[k] = [j \in 1..Len(due'[k]) |-> Fate'[k][j]]
      /\ DOMAIN Fate' = Handles
  BY DEF Fate
<1>10. ASSUME NEW h \in Handles
       PROVE  \/ due'[h] = due[h] /\ Fate'[h] = Fate[h]
              \/ /\ Phase[h] = "open"
                 /\ due'[h] = Append(due[h], m)
                 /\ \E f \in {"waiting", "dropped"} : Fate'[h] = Append(Fate[h], f)
  <2> DEFINE n == Len(due[h])
  <2>1. due[h] \in Seq(Msgs) /\ n \in Nat
    <3>1. due[h] \in Seq(Msgs)
      BY DEF IInv, TypeOK
    <3> QED
      BY <3>1
  <2>2. \A j \in 1..n : due[h][j] # m
    BY <1>4, ElementsDef
  <2>3. CASE h \notin Receivers(t)
    <3>1. due'[h] = due[h] /\ queue'[h] = queue[h] /\ full'[h] = full[h]
      BY <1>4, <2>3
    <3>2. ASSUME NEW j \in 1..n PROVE Fate'[h][j] = Fate[h][j]
      BY <1>7, <1>8, <3>1
    <3>3. Fate'[h] = Fate[h]
      <4> DEFINE F == Fate[h]
                 G == Fate'[h]
      <4>1. F = [j \in 1..n |-> F[j]] /\ G = [j \in 1..n |-> G[j]]
        BY <1>9, <3>1
      <4>2. \A j \in 1..n : G[j] = F[j]
        BY <3>2
      <4> HIDE DEF F, G
      <4>3. F = G
        BY <4>1, <4>2
      <4> QED
        BY <4>3 DEF F, G
    <3> QED
      BY <3>1, <3>3
  <2>4. CASE h \in Receivers(t)
    <3>1. h \in open
      BY <2>4 DEF Receivers
    <3>2. due'[h] = Append(due[h], m)
      BY <1>4, <2>4
    <3>3. /\ Len(due'[h]) = n + 1
          /\ \A j \in 1..n : due'[h][j] = due[h][j]
          /\ due'[h][n + 1] = m
      BY <2>1, <3>2
    <3>4. /\ \A j \in 1..n : j \in 1..(n + 1)
          /\ n + 1 \in 1..(n + 1)
      BY <2>1
    <3> HIDE DEF n
    <3>5. ASSUME NEW j \in 1..n PROVE Fate'[h][j] = Fate[h][j]
      <4> DEFINE y == due[h][j]
      <4>1. /\ y \in full[h] => Fate[h][j] = "dropped"
            /\ y \in Elements(queue[h]) => Fate[h][j] = "waiting"
            /\ \A q \in ReadersOf(h) : y \in Elements(got[q]) => Fate[h][j] = q
            /\ \/ y \in full[h] \cup Elements(queue[h])
               \/ \E q \in ReadersOf(h) : y \in Elements(got[q])
               \/ Fate[h][j] = "lost"
        BY <1>7 DEF n
      <4>2. /\ y \in full'[h] => Fate'[h][j] = "dropped"
            /\ y \in Elements(queue'[h]) => Fate'[h][j] = "waiting"
            /\ \A q \in ReadersOf(h) : y \in Elements(got[q]) => Fate'[h][j] = q
            /\ \/ y \in full'[h] \cup Elements(queue'[h])
               \/ \E q \in ReadersOf(h) : y \in Elements(got[q])
               \/ Fate'[h][j] = "lost"
        <5>1. j \in 1..Len(due'[h]) /\ due'[h][j] = y
          BY <3>3, <3>4
        <5> HIDE DEF y
        <5> QED
          BY <1>8, <5>1
      <4>3. /\ y \in full'[h] <=> y \in full[h]
            /\ y \in Elements(queue'[h]) <=> y \in Elements(queue[h])
        BY <1>4, <2>2, <2>4
      <4> HIDE DEF y
      <4> QED
        BY <4>1, <4>2, <4>3
    <3>6. Fate'[h][n + 1] \in {"waiting", "dropped"}
      <4>1. n + 1 \in 1..Len(due'[h]) /\ due'[h][n + 1] = m
        BY <3>3, <3>4
      <4>2. m \in Elements(queue'[h]) \/ m \in full'[h]
        BY <1>4, <2>4
      <4> QED
        BY <1>8, <4>1, <4>2
    <3>7. Fate'[h] = Append(Fate[h], Fate'[h][n + 1])
      <4> DEFINE F == Fate[h]
                 G == Fate'[h]
      <4>1. IsList(F, n) /\ IsList(G, n + 1)
        <5>1. F = [j \in 1..n |-> F[j]] /\ G = [j \in 1..(n + 1) |-> G[j]]
          BY <1>9, <3>3 DEF n
        <5> HIDE DEF F, G, n
        <5> QED
          BY <5>1 DEF IsList
      <4>2. \A j \in 1..n : G[j] = F[j]
        BY <3>5
      <4>3. n \in Nat
        BY <2>1
      <4> HIDE DEF F, G
      <4>4. ASSUME NEW e, G[n + 1] = e
            PROVE  G = Append(F, e)
        BY ONLY <4>1, <4>2, <4>3, <4>4, AppendIs
      <4>5. G = Append(F, G[n + 1])
        BY <4>4
      <4> QED
        BY <4>5 DEF F, G
    <3>8. Phase[h] = "open"
      BY <3>1, PhaseFacts
    <3> QED
      BY <3>2, <3>6, <3>7, <3>8
  <2> QED
    BY <2>3, <2>4
<1>11. Delivery!Arrive(m)
  BY <1>3, <1>4, <1>6, <1>9, <1>10 DEF Delivery!Arrive
<1> QED
  BY <1>11 DEF Delivery!Next

(* Nothing has arrived when the node starts.                               *)
LEMMA InitIsDelivery == Init => Delivery!Init
<1> SUFFICES ASSUME Init PROVE Delivery!Init
  OBVIOUS
<1>1. /\ due = [h \in Handles |-> <<>>] /\ gone = {} /\ bad \in SUBSET Msgs
      /\ \A w \in Streams : pc[w] = "idle"
  BY DomainFacts DEF Init, Msgs
<1>2. Phase \in [Handles -> {"none", "open"}]
  BY <1>1 DEF Phase
<1>3. Fate = [h \in Handles |-> <<>>]
  <2>1. \A h \in Handles : Len(due[h]) = 0
    BY <1>1
  <2>2. ASSUME NEW h \in Handles PROVE Fate[h] = <<>>
    <3>1. Fate[h] = [i \in 1..0 |-> FateOf(h, due[h][i])]
      BY <2>1 DEF Fate
    <3>2. 1..0 = {}
      OBVIOUS
    <3> QED
      BY <3>1, <3>2
  <2>3. Fate = [h \in Handles |-> Fate[h]]
    BY DEF Fate
  <2> HIDE DEF Fate
  <2> QED
    BY <2>2, <2>3
<1> QED
  BY <1>1, <1>2, <1>3 DEF Delivery!Init

(* Every step of the node is a step of TopicDelivery or none               *)
(* (ipfs/ipfs.go:556-598, node/node.go:333-380), in every instance.        *)
THEOREM SubscriptionsDeliver == Spec => ImplementsDelivery
<1>1. IInv /\ FateInv /\ FateInv' /\ [Next]_vars
        => [Delivery!Next]_(Delivery!vars)
  <2> SUFFICES ASSUME IInv, FateInv, FateInv', [Next]_vars
               PROVE  [Delivery!Next]_(Delivery!vars)
    OBVIOUS
  <2>1. CASE \/ \E p \in Puts : PutStep(p)
             \/ \E w \in Streams : StreamOpen(w) \/ StreamEnd(w) \/ Disconnect(w)
             \/ \E g \in Gets : GetMessages(g) \/ Answer(g) \/ Expire(g)
             \/ \E m \in Own : PutMessage(m)
             \/ MapFault \/ Cancel \/ Exit
             \/ UNCHANGED vars
    BY <2>1, QuietStepIsDelivery
  <2>2. CASE (\E g \in Gets : Lookup(g)) \/ (\E m \in Own : Publish(m))
    BY <2>2, LookIsDelivery
  <2>3. CASE (\E g \in Gets : ReadNext(g)) \/ (\E w \in Streams : StreamNext(w))
    BY <2>3, ReadIsDelivery
  <2>4. CASE (\E m \in Own : ArriveOwn(m)) \/ (\E m \in Remote : ArriveRemote(m))
    BY <2>4, ArriveIsDelivery
  <2>5. CASE \E w \in Streams : StreamWritten(w)
    BY <2>5, WrittenIsDelivery
  <2> QED
    BY <2>1, <2>2, <2>3, <2>4, <2>5 DEF Next, GetStep, StreamStep
<1> QED
  BY IInvInvariant, FatesAreDecided, InitIsDelivery, <1>1, PTL
  DEF Spec, ImplementsDelivery, Delivery!Spec
=============================================================================

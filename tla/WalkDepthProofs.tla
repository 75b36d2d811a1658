-------------------------- MODULE WalkDepthProofs --------------------------
(***************************************************************************)
(* WalkDepth for any DAG, any options and any finite number of workers.    *)
(* In the parallel walk the lock makes the two halves of visit one step,   *)
(* so that what a worker is about to enter has not been entered; main's    *)
(* count exceeds the busy workers once one of them has given up and never  *)
(* falls back, so that a walk that reports success has lost nothing.  In   *)
(* the sequential walk what can be reached and has not been entered waits  *)
(* in the links of a call on the stack; and those links, the innermost     *)
(* call's first, are the list that a depth-first walk would keep.          *)
(***************************************************************************)
EXTENDS WalkDepth, FiniteSetTheorems, SequenceTheorems,
        WellFoundedInduction, TLAPS

Start == [cid |-> Root, depth |-> 0]

(* What an item is about: the root at depth 0, or a node that a node which *)
(* has been expanded links to.                                             *)
Reached(c) == c = Root \/ \E p \in expanded : c \in Children[p]

Sound(it) == Reached(it.cid) /\ (it.depth = 0 <=> it.cid = Root)

ItemInv ==
  /\ options \in Options
  /\ \A i \in 1..Len(queue) : Sound(queue[i])
  /\ \A w \in Workers :
       /\ Sound(item[w])
       /\ pc[w] \notin {"out", "ended"} => links[w] = <<>>
       /\ pc[w] = "out" /\ links[w] # <<>> =>
            item[w].cid \in expanded /\ links[w] = Links[item[w].cid]

(* The root is queued once, before anything else.                          *)
RootInv ==
  \A i \in 1..Len(queue) : queue[i].depth = 0 =>
    /\ queue = <<Start>> /\ entered = {}
    /\ \A w \in Workers : pc[w] \in {"idle", "ended"}

(* What the lock protects.                                                 *)
VisitInv ==
  /\ \A w \in Workers :
       /\ pc[w] = "visit" <=> lk = w
       /\ pc[w] = "visit" => (fresh[w] <=> item[w].cid \notin seen)
       /\ pc[w] \in {"lock", "visit"} => ~Skips(item[w])
  /\ Before \subseteq seen /\ seen \subseteq Before \cup entered
  /\ \A c \in entered : c \in seen \/ (SkipRoot /\ c = Root)

(* What is entered and not settled is in the hands of one worker.          *)
FetchInv ==
  /\ Settled \subseteq entered
  /\ \A c \in entered \ Settled :
       \E w \in Workers : pc[w] = "fetch" /\ item[w].cid = c
  /\ \A w \in Workers : pc[w] = "fetch" =>
       /\ item[w].cid \in entered \ Settled
       /\ \A v \in Workers \ {w} :
            pc[v] = "fetch" => item[v].cid # item[w].cid

(* What is still on its way to the visit function.                         *)
Waits(c) ==
  \/ \E i \in 1..Len(queue) : queue[i].cid = c
  \/ \E w \in Workers : pc[w] \in {"lock", "visit"} /\ item[w].cid = c
  \/ \E w \in Workers : pc[w] = "out" /\ \E i \in 1..Len(links[w]) : links[w][i] = c

Entering(c) == c \notin Before \/ (SkipRoot /\ c = Root)

(* As long as the count is exact, nothing has been lost.                   *)
AccountInv ==
  main = "loop" /\ inProgress = Cardinality(Busy) =>
    /\ \A c \in Cids : Reached(c) /\ Entering(c) => c \in entered \/ Waits(c)
    /\ failed # {} => \E w \in Workers : pc[w] = "fail"

(* Why main returns what it returns.                                       *)
ResultInv ==
  /\ main = "loop" => result = "none"
  /\ main = "drain" => result # "none"
  /\ \A w \in Workers : pc[w] = "fail" => failed # {}
  /\ result = "err" => failed # {} \/ cancelled
  /\ result = "nil" =>
       /\ \A w \in Workers : pc[w] \in {"idle", "ended"}
       /\ \A c \in Cids : Reached(c) /\ Entering(c) => c \in entered
       /\ failed = {}

IInv ==
  /\ TypeOK /\ CountIsRight /\ ItemInv /\ RootInv /\ VisitInv /\ FetchInv
  /\ AccountInv /\ ResultInv
-----------------------------------------------------------------------------
LEMMA LinkFacts ==
  ASSUME NEW c \in Cids
  PROVE  /\ Links[c] \in Seq(Cids)
         /\ \A i \in 1..Len(Links[c]) :
              Links[c][i] \in Cids \ {Root} /\ Links[c][i] \in Children[c]
         /\ \A d \in Children[c] : \E i \in 1..Len(Links[c]) : Links[c][i] = d
BY WalkAssumption DEF Children

LEMMA OptionFacts ==
  ASSUME options \in Options
  PROVE  /\ Before \subseteq Cids /\ SkipRoot \in BOOLEAN
         /\ Handlers \in Seq(HandlerOptions)
BY WalkAssumption DEF Before, SkipRoot, Handlers

LEMMA ConcatFacts ==
  ASSUME NEW S, NEW s \in Seq(S), NEW t \in Seq(S)
  PROVE  /\ s \o t \in Seq(S) /\ Len(s \o t) = Len(s) + Len(t)
         /\ \A i \in 1..Len(s) : i \in 1..Len(s \o t) /\ (s \o t)[i] = s[i]
         /\ \A i \in 1..Len(t) : /\ Len(s) + i \in 1..Len(s \o t)
                                /\ (s \o t)[Len(s) + i] = t[i]
         /\ \A i \in 1..Len(s \o t) :
              \/ i \in 1..Len(s)
              \/ i - Len(s) \in 1..Len(t) /\ (s \o t)[i] = t[i - Len(s)]
OBVIOUS

LEMMA BusyFacts ==
  /\ IsFiniteSet(Busy) /\ Cardinality(Busy) \in Nat
  /\ \A w \in Busy : Cardinality(Busy) >= 1
<1>1. Busy \subseteq Workers
  BY DEF Busy
<1>2. IsFiniteSet(Busy) /\ Cardinality(Busy) \in Nat
  BY <1>1, ParallelAssumption, FS_Subset, FS_CardinalityType
<1>3. ASSUME NEW w \in Busy PROVE Cardinality(Busy) >= 1
  BY <1>2, FS_EmptySet
<1> QED
  BY <1>2, <1>3

(* How the step of one worker changes the number of the busy ones.         *)
Moves(w, place) == pc' = [pc EXCEPT ![w] = place]

LEMMA MoveFacts ==
  ASSUME TypeOK, NEW w \in Workers, NEW place \in Places, Moves(w, place)
  PROVE  /\ pc' \in [Workers -> Places]
         /\ \A v \in Workers : pc'[v] = IF v = w THEN place ELSE pc[v]
         /\ w \notin Busy /\ place \notin {"idle", "ended"} =>
              Cardinality(Busy') = Cardinality(Busy) + 1
         /\ w \in Busy /\ place \in {"idle", "ended"} =>
              Cardinality(Busy') = Cardinality(Busy) - 1
         /\ w \in Busy /\ place \notin {"idle", "ended"} =>
              Cardinality(Busy') = Cardinality(Busy)
         /\ w \notin Busy /\ place \in {"idle", "ended"} =>
              Cardinality(Busy') = Cardinality(Busy)
<1>1. /\ pc' \in [Workers -> Places]
      /\ \A v \in Workers : pc'[v] = IF v = w THEN place ELSE pc[v]
  BY DEF Moves, TypeOK
<1>2. Busy' = IF place \in {"idle", "ended"} THEN Busy \ {w} ELSE Busy \cup {w}
  BY <1>1 DEF Busy
<1>3. CASE w \notin Busy /\ place \notin {"idle", "ended"}
  BY <1>1, <1>2, <1>3, BusyFacts, FS_AddElement
<1>4. CASE w \in Busy /\ place \in {"idle", "ended"}
  BY <1>1, <1>2, <1>4, BusyFacts, FS_RemoveElement
<1>5. CASE w \in Busy /\ place \notin {"idle", "ended"}
  <2>1. Busy' = Busy
    BY <1>2, <1>5
  <2> QED
    BY <1>1, <1>5, <2>1
<1>6. CASE w \notin Busy /\ place \in {"idle", "ended"}
  <2>1. Busy' = Busy
    BY <1>2, <1>6
  <2> QED
    BY <1>1, <1>6, <2>1
<1> QED
  BY <1>1, <1>3, <1>4, <1>5, <1>6
-----------------------------------------------------------------------------
LEMMA InitIInv == Init => IInv
<1> SUFFICES ASSUME Init PROVE IInv
  OBVIOUS
<1> USE DEF Init
<1>1. Start \in Item
  BY WalkAssumption DEF Start, Item
<1>2. \A w \in Workers : /\ pc[w] = "idle" /\ item[w] = Start
                         /\ links[w] = <<>> /\ fresh[w] = FALSE
  BY DEF Start
<1>3. queue = <<Start>> /\ Len(queue) = 1 /\ queue[1] = Start
  BY DEF Start
<1>4. Busy = {}
  BY <1>2 DEF Busy
<1>5. Cardinality(Busy) = 0
  BY <1>4, FS_EmptySet
<1>6. TypeOK
  <2>1. queue \in Seq(Item)
    BY <1>1, <1>3
  <2>2. pc \in [Workers -> Places]
    BY DEF Places
  <2>3. item \in [Workers -> Item] /\ links \in [Workers -> Seq(Cids)]
    BY <1>1 DEF Start
  <2>4. fresh \in [Workers -> BOOLEAN]
    OBVIOUS
  <2>5. seen \subseteq Cids
    BY OptionFacts
  <2> QED
    BY <2>1, <2>2, <2>3, <2>4, <2>5 DEF TypeOK
<1>7. CountIsRight
  BY <1>5 DEF CountIsRight
<1>8. ItemInv
  <2>1. Sound(Start)
    BY DEF Sound, Start, Reached
  <2> QED
    BY <1>2, <1>3, <2>1 DEF ItemInv
<1>9. RootInv
  BY <1>2, <1>3 DEF RootInv
<1>10. VisitInv
  BY <1>2, ParallelAssumption DEF VisitInv
<1>11. FetchInv
  BY <1>2 DEF FetchInv, Settled
<1>12. AccountInv
  <2>1. \A c \in Cids : Reached(c) => Waits(c)
    BY <1>3 DEF Reached, Waits, Start
  <2> QED
    BY <2>1 DEF AccountInv
<1>13. ResultInv
  BY <1>2 DEF ResultInv
<1> QED
  BY <1>6, <1>7, <1>8, <1>9, <1>10, <1>11, <1>12, <1>13 DEF IInv
-----------------------------------------------------------------------------
(* Handing out an item: only the root is at depth 0, and it goes alone.    *)
LEMMA SendKeepsIInv ==
  ASSUME IInv, NEW w \in Workers, Send(w)
  PROVE  IInv'
<1> USE DEF IInv
<1> DEFINE it == Head(queue)
           place == IF Skips(it) THEN "fetch" ELSE "lock"
<1>1. /\ main = "loop" /\ queue # <<>> /\ pc[w] = "idle"
      /\ inProgress' = inProgress + 1
      /\ main' = main /\ result' = result /\ links' = links /\ fresh' = fresh
      /\ lk' = lk /\ seen' = seen /\ options' = options
      /\ cancelled' = cancelled /\ expanded' = expanded /\ skipped' = skipped
      /\ failed' = failed /\ missing' = missing /\ reported' = reported
  BY DEF Send, visitVars, callVars
<1>2. SkipRoot' = SkipRoot /\ Before' = Before /\ Settled' = Settled
  BY <1>1 DEF SkipRoot, Before, Settled
<1>3. /\ queue' \in Seq(Item) /\ Len(queue) >= 1
      /\ it = queue[1] /\ it \in Item
      /\ Len(queue') = Len(queue) - 1
      /\ \A i \in 1..Len(queue') :
           i + 1 \in 1..Len(queue) /\ queue'[i] = queue[i + 1]
  BY <1>1 DEF Send, TypeOK
<1>4. Sound(it)
  BY <1>3 DEF ItemInv
<1>5. /\ item' \in [Workers -> Item]
      /\ \A v \in Workers : item'[v] = IF v = w THEN it ELSE item[v]
  BY <1>3 DEF Send, TypeOK
<1>6. /\ pc' \in [Workers -> Places]
      /\ \A v \in Workers : pc'[v] = IF v = w THEN place ELSE pc[v]
      /\ Cardinality(Busy') = Cardinality(Busy) + 1
  <2>1. Moves(w, place) /\ place \in Places \ {"idle", "ended"} /\ w \notin Busy
    BY <1>1 DEF Send, Moves, Places, Busy
  <2> QED
    BY <2>1, MoveFacts
<1>7. entered' = IF Skips(it) THEN entered \cup {it.cid} ELSE entered
  BY DEF Send
<1>8. it.cid \in Cids
  BY <1>3 DEF Item
<1>9. Skips(it) => SkipRoot /\ it.cid = Root /\ it.depth = 0
  BY <1>4 DEF Skips, Sound
<1>10. it.depth = 0 =>
         /\ queue = <<Start>> /\ entered = {} /\ Len(queue') = 0
         /\ \A v \in Workers : pc[v] \in {"idle", "ended"}
  BY <1>3 DEF RootInv
<1> HIDE DEF it
<1>11. TypeOK'
  BY <1>1, <1>3, <1>5, <1>6, <1>7, <1>8 DEF TypeOK
<1>12. CountIsRight'
  BY <1>1, <1>6, BusyFacts DEF CountIsRight, TypeOK
<1>13. ItemInv'
  <2>1. \A x : Sound(x)' <=> Sound(x)
    BY <1>1 DEF Sound, Reached
  <2> QED
    BY <1>1, <1>3, <1>4, <1>5, <1>6, <2>1 DEF ItemInv
<1>14. RootInv'
  BY <1>3, <1>10 DEF RootInv
<1>15. VisitInv'
  BY <1>1, <1>2, <1>5, <1>6, <1>7, <1>9 DEF VisitInv, Skips
<1>16. FetchInv'
  <2>1. CASE ~Skips(it)
    BY <1>1, <1>2, <1>5, <1>6, <1>7, <2>1 DEF FetchInv
  <2>2. CASE Skips(it)
    BY <1>1, <1>2, <1>5, <1>6, <1>7, <1>9, <1>10, <2>2 DEF FetchInv
  <2> QED
    BY <2>1, <2>2
<1>17. AccountInv'
  <2>2. inProgress' = Cardinality(Busy') => inProgress = Cardinality(Busy)
    BY <1>1, <1>6, BusyFacts DEF TypeOK
  <2>3. \A c : Reached(c)' = Reached(c) /\ Entering(c)' = Entering(c)
    BY <1>1, <1>2 DEF Reached, Entering
  <2> SUFFICES ASSUME inProgress = Cardinality(Busy)
               PROVE  /\ \A c \in Cids : Reached(c) /\ Entering(c) =>
                            c \in entered' \/ Waits(c)'
                      /\ failed # {} => \E v \in Workers : pc'[v] = "fail"
    BY <1>1, <2>2, <2>3 DEF AccountInv
  <2>1. ASSUME NEW c \in Cids, Waits(c) PROVE c \in entered' \/ Waits(c)'
    <3>1. CASE \E i \in 1..Len(queue) : queue[i].cid = c
      <4>1. PICK i \in 1..Len(queue) : queue[i].cid = c
        BY <3>1
      <4>2. CASE i = 1
        BY <1>3, <1>5, <1>6, <1>7, <4>1, <4>2 DEF Waits
      <4>3. CASE i # 1
        <5>1. i - 1 \in 1..Len(queue') /\ queue'[i - 1] = queue[i]
          BY <1>3, <4>3 DEF TypeOK
        <5> QED
          BY <4>1, <5>1 DEF Waits
      <4> QED
        BY <4>2, <4>3
    <3>2. CASE \E v \in Workers : pc[v] \in {"lock", "visit"} /\ item[v].cid = c
      BY <1>1, <1>5, <1>6, <3>2 DEF Waits
    <3>3. CASE \E v \in Workers : pc[v] = "out"
                 /\ \E i \in 1..Len(links[v]) : links[v][i] = c
      BY <1>1, <1>6, <3>3 DEF Waits
    <3> QED
      BY <2>1, <3>1, <3>2, <3>3 DEF Waits
  <2> QED
    BY <1>1, <1>6, <1>7, <2>1 DEF AccountInv
<1>18. ResultInv'
  BY <1>1, <1>6 DEF ResultInv
<1> QED
  BY <1>11, <1>12, <1>13, <1>14, <1>15, <1>16, <1>17, <1>18

(* The links a worker sends join the queue: none is the root.              *)
LEMMA ReceiveLinksKeepsIInv ==
  ASSUME IInv, NEW w \in Workers, ReceiveLinks(w)
  PROVE  IInv'
<1> USE DEF IInv
<1> DEFINE n == Len(queue)
           new == [i \in 1..Len(links[w]) |->
                     [cid |-> links[w][i], depth |-> item[w].depth + 1]]
<1>1. /\ main = "loop" /\ pc[w] = "out"
      /\ inProgress' = inProgress /\ queue' = queue \o new
      /\ main' = main /\ result' = result /\ item' = item /\ fresh' = fresh
      /\ lk' = lk /\ seen' = seen /\ options' = options
      /\ cancelled' = cancelled /\ entered' = entered /\ expanded' = expanded
      /\ skipped' = skipped /\ failed' = failed /\ missing' = missing
      /\ reported' = reported
  BY DEF ReceiveLinks, WithLinks, CountAfterLinks, visitVars, callVars, histVars
<1>2. /\ SkipRoot' = SkipRoot /\ Before' = Before /\ Settled' = Settled
      /\ \A x : Reached(x)' = Reached(x) /\ Entering(x)' = Entering(x)
      /\ \A x : Sound(x)' = Sound(x)
  BY <1>1 DEF SkipRoot, Before, Settled, Reached, Entering, Sound
<1>3. links[w] \in Seq(Cids) /\ item[w] \in Item /\ queue \in Seq(Item)
  BY DEF TypeOK
<1>4. \A i \in 1..Len(links[w]) :
        /\ links[w][i] \in Cids
        /\ new[i] \in Item /\ new[i].cid = links[w][i] /\ new[i].depth # 0
        /\ Sound(new[i])
  <2> SUFFICES ASSUME NEW i \in 1..Len(links[w])
               PROVE  /\ links[w][i] \in Cids
                      /\ new[i] \in Item /\ new[i].cid = links[w][i]
                      /\ new[i].depth # 0 /\ Sound(new[i])
    OBVIOUS
  <2>1. links[w][i] \in Cids /\ item[w].depth \in Nat /\ item[w].cid \in Cids
    BY <1>3 DEF Item
  <2>2. new[i] = [cid |-> links[w][i], depth |-> item[w].depth + 1]
    OBVIOUS
  <2>3. item[w].cid \in expanded /\ links[w] = Links[item[w].cid]
    BY <1>1, <1>3 DEF ItemInv
  <2>4. links[w][i] \in Children[item[w].cid] /\ links[w][i] # Root
    BY <2>1, <2>3, LinkFacts
  <2> HIDE DEF new
  <2> QED
    BY <2>1, <2>2, <2>3, <2>4 DEF Item, Sound, Reached
<1>5. new \in Seq(Item) /\ Len(new) = Len(links[w])
  <2> DEFINE m == Len(links[w])
  <2>1. m \in Nat /\ new = [i \in 1..m |-> new[i]]
    BY <1>3
  <2>2. \A i \in 1..m : new[i] \in Item
    BY <1>4
  <2> HIDE DEF new, m
  <2> SUFFICES new \in Seq(Item) /\ Len(new) = m
    BY DEF m
  <2> QED
    BY <2>1, <2>2
<1> HIDE DEF new
<1>6. /\ queue' \in Seq(Item) /\ Len(queue') = n + Len(links[w])
      /\ \A i \in 1..n : i \in 1..Len(queue') /\ queue'[i] = queue[i]
      /\ \A i \in 1..Len(links[w]) :
           n + i \in 1..Len(queue') /\ queue'[n + i] = new[i]
      /\ \A i \in 1..Len(queue') :
           i \in 1..n \/ (i - n \in 1..Len(links[w]) /\ queue'[i] = new[i - n])
  <2>1. queue' = queue \o new /\ queue \in Seq(Item) /\ new \in Seq(Item)
    BY <1>1, <1>3, <1>5
  <2>2. /\ queue' \in Seq(Item) /\ Len(queue') = Len(queue) + Len(new)
        /\ \A i \in 1..Len(queue) :
             i \in 1..Len(queue') /\ queue'[i] = queue[i]
        /\ \A i \in 1..Len(new) : /\ Len(queue) + i \in 1..Len(queue')
                                 /\ queue'[Len(queue) + i] = new[i]
        /\ \A i \in 1..Len(queue') :
             \/ i \in 1..Len(queue)
             \/ /\ i - Len(queue) \in 1..Len(new)
                /\ queue'[i] = new[i - Len(queue)]
    BY <2>1, ConcatFacts
  <2> QED
    BY <2>2, <1>5
<1>7. /\ links' \in [Workers -> Seq(Cids)]
      /\ \A v \in Workers : links'[v] = IF v = w THEN <<>> ELSE links[v]
  BY DEF ReceiveLinks, TypeOK
<1>8. /\ pc' \in [Workers -> Places]
      /\ \A v \in Workers : pc'[v] = IF v = w THEN "done" ELSE pc[v]
      /\ Cardinality(Busy') = Cardinality(Busy)
  <2>1. Moves(w, "done") /\ "done" \in Places \ {"idle", "ended"} /\ w \in Busy
    BY <1>1 DEF ReceiveLinks, Moves, Places, Busy
  <2> QED
    BY <2>1, MoveFacts
<1>9. TypeOK'
  BY <1>1, <1>6, <1>7, <1>8 DEF TypeOK
<1>10. CountIsRight'
  BY <1>1, <1>8 DEF CountIsRight
<1>11. ItemInv'
  <2>1. \A i \in 1..Len(queue') : Sound(queue'[i])
    BY <1>4, <1>6 DEF ItemInv
  <2> QED
    BY <1>1, <1>2, <1>7, <1>8, <2>1 DEF ItemInv
<1>12. RootInv'
  <2>1. \A i \in 1..Len(queue) : queue[i].depth # 0
    BY <1>1 DEF RootInv
  <2>2. \A i \in 1..Len(queue') : queue'[i].depth # 0
    <3> SUFFICES ASSUME NEW i \in 1..Len(queue') PROVE queue'[i].depth # 0
      OBVIOUS
    <3>1. CASE i \in 1..n
      BY <1>6, <2>1, <3>1
    <3>2. CASE i - n \in 1..Len(links[w]) /\ queue'[i] = new[i - n]
      BY <1>4, <3>2
    <3> QED
      BY <1>6, <3>1, <3>2
  <2> QED
    BY <2>2 DEF RootInv
<1>13. VisitInv'
  BY <1>1, <1>2, <1>8 DEF VisitInv, Skips
<1>16. FetchInv'
  BY <1>1, <1>2, <1>8 DEF FetchInv
<1>14. AccountInv'
  <2>1. ASSUME NEW c \in Cids, Waits(c) PROVE Waits(c)'
    <3>1. CASE \E i \in 1..Len(queue) : queue[i].cid = c
      BY <1>6, <3>1 DEF Waits
    <3>2. CASE \E v \in Workers : pc[v] \in {"lock", "visit"} /\ item[v].cid = c
      BY <1>1, <1>8, <3>2 DEF Waits
    <3>3. CASE \E i \in 1..Len(links[w]) : links[w][i] = c
      BY <1>4, <1>6, <3>3 DEF Waits
    <3>4. CASE \E v \in Workers \ {w} : pc[v] = "out"
                 /\ \E i \in 1..Len(links[v]) : links[v][i] = c
      BY <1>7, <1>8, <3>4 DEF Waits
    <3> QED
      BY <2>1, <3>1, <3>2, <3>3, <3>4 DEF Waits
  <2> QED
    BY <1>1, <1>2, <1>8, <2>1 DEF AccountInv
<1>15. ResultInv'
  BY <1>1, <1>8 DEF ResultInv
<1> QED
  BY <1>9, <1>10, <1>11, <1>12, <1>13, <1>14, <1>15, <1>16

(* The last item is done only when nobody else is busy, and when the count *)
(* was exact all along.                                                    *)
LEMMA ReceiveDoneKeepsIInv ==
  ASSUME IInv, NEW w \in Workers, ReceiveDone(w)
  PROVE  IInv'
<1> USE DEF IInv
<1>1. /\ main = "loop" /\ pc[w] = "done"
      /\ inProgress' = inProgress - 1
      /\ queue' = queue /\ item' = item /\ links' = links /\ fresh' = fresh
      /\ lk' = lk /\ seen' = seen /\ options' = options
      /\ cancelled' = cancelled /\ entered' = entered /\ expanded' = expanded
      /\ skipped' = skipped /\ failed' = failed /\ missing' = missing
      /\ reported' = reported
  BY DEF ReceiveDone, visitVars, callVars, histVars
<1>2. \/ Over /\ main' = "drain" /\ result' = "nil"
      \/ main' = main /\ result' = result
  BY DEF ReceiveDone
<1>3. /\ SkipRoot' = SkipRoot /\ Before' = Before /\ Settled' = Settled
      /\ \A x : Reached(x)' = Reached(x) /\ Entering(x)' = Entering(x)
      /\ \A x : Sound(x)' = Sound(x)
  BY <1>1 DEF SkipRoot, Before, Settled, Reached, Entering, Sound
<1>4. w \in Busy
  BY <1>1 DEF Busy
<1>5. /\ pc' \in [Workers -> Places]
      /\ \A v \in Workers : pc'[v] = IF v = w THEN "idle" ELSE pc[v]
      /\ Cardinality(Busy') = Cardinality(Busy) - 1
  <2>1. Moves(w, "idle") /\ "idle" \in Places \cap {"idle", "ended"}
    BY <1>1 DEF ReceiveDone, Moves, Places
  <2> QED
    BY <1>4, <2>1, MoveFacts
<1>6. links[w] = <<>> /\ inProgress >= 1 /\ inProgress \in Nat
  BY <1>1, <1>4, BusyFacts DEF CountIsRight, TypeOK, ItemInv
<1>7. TypeOK'
  BY <1>1, <1>2, <1>5, <1>6 DEF TypeOK
<1>8. CountIsRight'
  BY <1>1, <1>2, <1>5, <1>6, BusyFacts DEF CountIsRight
<1>9. ItemInv'
  BY <1>1, <1>3, <1>5, <1>6 DEF ItemInv
<1>10. RootInv'
  BY <1>1, <1>5 DEF RootInv
<1>11. VisitInv' /\ FetchInv'
  BY <1>1, <1>3, <1>5 DEF VisitInv, FetchInv, Skips
<1>12. \A c : Waits(c)' = Waits(c)
  BY <1>1, <1>5 DEF Waits
<1>13. AccountInv'
  <2>1. main' = "loop" => main = "loop"
    BY <1>1
  <2>2. inProgress' = Cardinality(Busy') => inProgress = Cardinality(Busy)
    BY <1>1, <1>5, <1>6, BusyFacts
  <2> QED
    BY <1>1, <1>3, <1>5, <1>12, <2>1, <2>2 DEF AccountInv
<1>14. ResultInv'
  <2>1. CASE Over /\ main' = "drain" /\ result' = "nil"
    <3>1. Cardinality(Busy) = 1 /\ inProgress = Cardinality(Busy)
      BY <1>1, <1>4, <2>1, BusyFacts DEF CountIsRight, Over
    <3>2. Busy = {w}
      <4>1. PICK x : Busy = {x}
        BY <3>1, BusyFacts, FS_Singleton
      <4> QED
        BY <1>4, <4>1
    <3>3. \A v \in Workers : v # w => pc[v] \in {"idle", "ended"}
      BY <3>2 DEF Busy
    <3>4. \A c : ~Waits(c)
      BY <1>1, <2>1, <3>3 DEF Waits, Over
    <3>5. /\ \A c \in Cids : Reached(c) /\ Entering(c) => c \in entered
          /\ failed = {}
      BY <1>1, <3>1, <3>3, <3>4 DEF AccountInv
    <3> QED
      BY <1>1, <1>3, <1>5, <2>1, <3>3, <3>5 DEF ResultInv
  <2>2. CASE main' = main /\ result' = result
    BY <1>1, <1>3, <1>5, <2>2 DEF ResultInv
  <2> QED
    BY <1>2, <2>1, <2>2
<1> QED
  BY <1>7, <1>8, <1>9, <1>10, <1>11, <1>13, <1>14

(* Taking the lock: nobody else is inside.                                 *)
LEMMA LockKeepsIInv ==
  ASSUME IInv, NEW w \in Workers, Lock(w)
  PROVE  IInv'
<1> USE DEF IInv
<1>1. /\ pc[w] = "lock" /\ lk = Nil /\ lk' = w
      /\ main' = main /\ result' = result /\ queue' = queue
      /\ inProgress' = inProgress /\ item' = item /\ links' = links
      /\ seen' = seen /\ options' = options
      /\ cancelled' = cancelled /\ entered' = entered /\ expanded' = expanded
      /\ skipped' = skipped /\ failed' = failed /\ missing' = missing
      /\ reported' = reported
  BY DEF Lock, LockIsFree, mainVars, callVars, histVars
<1>2. /\ SkipRoot' = SkipRoot /\ Before' = Before /\ Settled' = Settled
      /\ \A x : Reached(x)' = Reached(x) /\ Entering(x)' = Entering(x)
      /\ \A x : Sound(x)' = Sound(x)
  BY <1>1 DEF SkipRoot, Before, Settled, Reached, Entering, Sound
<1>3. /\ fresh' \in [Workers -> BOOLEAN]
      /\ \A v \in Workers : v # w => fresh'[v] = fresh[v]
      /\ fresh'[w] <=> item[w].cid \notin seen
  BY DEF Lock, TypeOK
<1>4. /\ pc' \in [Workers -> Places]
      /\ \A v \in Workers : pc'[v] = IF v = w THEN "visit" ELSE pc[v]
      /\ Cardinality(Busy') = Cardinality(Busy)
  <2>1. Moves(w, "visit") /\ "visit" \in Places \ {"idle", "ended"} /\ w \in Busy
    BY <1>1 DEF Lock, Moves, Places, Busy
  <2> QED
    BY <2>1, MoveFacts
<1>5. TypeOK'
  BY <1>1, <1>3, <1>4 DEF TypeOK
<1>6. CountIsRight'
  BY <1>1, <1>4 DEF CountIsRight
<1>7. ItemInv'
  BY <1>1, <1>2, <1>4 DEF ItemInv
<1>8. RootInv'
  BY <1>1, <1>4 DEF RootInv
<1>9. VisitInv'
  <2>1. \A v \in Workers : pc[v] # "visit"
    BY <1>1, ParallelAssumption DEF VisitInv
  <2> QED
    BY <1>1, <1>2, <1>3, <1>4, <2>1 DEF VisitInv, Skips
<1>10. FetchInv'
  BY <1>1, <1>2, <1>4 DEF FetchInv
<1>11. \A c : Waits(c)' = Waits(c)
  BY <1>1, <1>4 DEF Waits
<1>12. AccountInv'
  BY <1>1, <1>2, <1>4, <1>11 DEF AccountInv
<1>13. ResultInv'
  BY <1>1, <1>4 DEF ResultInv
<1> QED
  BY <1>5, <1>6, <1>7, <1>8, <1>9, <1>10, <1>12, <1>13

(* A node that is fresh has not been entered; one that is not was entered  *)
(* or seen before the walk.                                                *)
LEMMA VisitKeepsIInv ==
  ASSUME IInv, NEW w \in Workers, Visit(w)
  PROVE  IInv'
<1> USE DEF IInv
<1> DEFINE place == IF fresh[w] THEN "fetch" ELSE "done"
<1>1. /\ pc[w] = "visit" /\ lk' = Nil /\ seen' = seen \cup {item[w].cid}
      /\ main' = main /\ result' = result /\ queue' = queue
      /\ inProgress' = inProgress /\ item' = item /\ links' = links
      /\ fresh' = fresh /\ options' = options
      /\ cancelled' = cancelled /\ expanded' = expanded
      /\ skipped' = skipped /\ failed' = failed /\ missing' = missing
      /\ reported' = reported
  BY DEF Visit, mainVars, callVars
<1>2. entered' = IF fresh[w] THEN entered \cup {item[w].cid} ELSE entered
  BY DEF Visit
<1>3. /\ SkipRoot' = SkipRoot /\ Before' = Before /\ Settled' = Settled
      /\ \A x : Reached(x)' = Reached(x) /\ Entering(x)' = Entering(x)
      /\ \A x : Sound(x)' = Sound(x)
  BY <1>1 DEF SkipRoot, Before, Settled, Reached, Entering, Sound
<1>4. /\ pc' \in [Workers -> Places]
      /\ \A v \in Workers : pc'[v] = IF v = w THEN place ELSE pc[v]
      /\ Cardinality(Busy') = Cardinality(Busy)
  <2>1. Moves(w, place) /\ place \in Places \ {"idle", "ended"} /\ w \in Busy
    BY <1>1 DEF Visit, Moves, Places, Busy
  <2> QED
    BY <2>1, MoveFacts
<1>5. /\ item[w].cid \in Cids
      /\ item[w].cid = Root => ~SkipRoot
      /\ fresh[w] <=> item[w].cid \notin seen
      /\ \A v \in Workers : v # w => pc[v] # "visit"
  BY <1>1 DEF VisitInv, Skips, ItemInv, Sound, TypeOK, Item
<1>6. fresh[w] => item[w].cid \notin entered
  BY <1>5 DEF VisitInv
<1>7. TypeOK'
  BY <1>1, <1>2, <1>4, <1>5 DEF TypeOK
<1>8. CountIsRight'
  BY <1>1, <1>4 DEF CountIsRight
<1>9. ItemInv'
  BY <1>1, <1>3, <1>4 DEF ItemInv
<1>10. RootInv'
  BY <1>1, <1>4 DEF RootInv
<1>11. VisitInv'
  BY <1>1, <1>2, <1>3, <1>4, <1>5, ParallelAssumption DEF VisitInv, Skips
<1>12. FetchInv'
  <2>1. CASE fresh[w]
    BY <1>1, <1>2, <1>3, <1>4, <1>6, <2>1 DEF FetchInv
  <2>2. CASE ~fresh[w]
    BY <1>1, <1>2, <1>3, <1>4, <2>2 DEF FetchInv
  <2> QED
    BY <2>1, <2>2
<1>13. AccountInv'
  <2>1. ASSUME NEW c \in Cids, Waits(c), Entering(c)
        PROVE  c \in entered' \/ Waits(c)'
    <3>1. CASE c = item[w].cid
      BY <1>2, <1>5, <2>1, <3>1 DEF VisitInv, Entering
    <3>2. CASE c # item[w].cid
      BY <1>1, <1>4, <2>1, <3>2 DEF Waits
    <3> QED
      BY <3>1, <3>2
  <2>2. failed # {} /\ (\E v \in Workers : pc[v] = "fail")
          => \E v \in Workers : pc'[v] = "fail"
    BY <1>1, <1>4
  <2> QED
    BY <1>1, <1>2, <1>3, <1>4, <2>1, <2>2 DEF AccountInv
<1>14. ResultInv'
  BY <1>1, <1>2, <1>3, <1>4 DEF ResultInv
<1> QED
  BY <1>7, <1>8, <1>9, <1>10, <1>11, <1>12, <1>13, <1>14

(* The links of a node wait with the worker that has fetched them.         *)
LEMMA FetchLinksKeepsIInv ==
  ASSUME IInv, NEW w \in Workers, FetchLinks(w)
  PROVE  IInv'
<1> USE DEF IInv
<1> DEFINE c0 == item[w].cid
<1>1. /\ pc[w] = "fetch" /\ expanded' = expanded \cup {c0}
      /\ main' = main /\ result' = result /\ queue' = queue
      /\ inProgress' = inProgress /\ item' = item
      /\ fresh' = fresh /\ lk' = lk /\ seen' = seen /\ options' = options
      /\ cancelled' = cancelled /\ entered' = entered
      /\ skipped' = skipped /\ failed' = failed /\ missing' = missing
      /\ reported' = reported
  BY DEF FetchLinks, mainVars, visitVars, callVars
<1>2. /\ SkipRoot' = SkipRoot /\ Before' = Before
      /\ Settled' = Settled \cup {c0}
      /\ \A x : Entering(x)' = Entering(x)
      /\ \A x : Reached(x)' <=> Reached(x) \/ x \in Children[c0]
      /\ \A x : Sound(x) => Sound(x)'
  BY <1>1 DEF SkipRoot, Before, Settled, Reached, Entering, Sound
<1>3. c0 \in Cids /\ c0 \in entered \ Settled
  BY <1>1 DEF TypeOK, Item, FetchInv
<1>4. /\ links' \in [Workers -> Seq(Cids)]
      /\ \A v \in Workers : links'[v] = IF v = w THEN Links[c0] ELSE links[v]
  BY <1>3, LinkFacts DEF FetchLinks, TypeOK
<1>5. /\ pc' \in [Workers -> Places]
      /\ \A v \in Workers : pc'[v] = IF v = w THEN "out" ELSE pc[v]
      /\ Cardinality(Busy') = Cardinality(Busy)
  <2>1. Moves(w, "out") /\ "out" \in Places \ {"idle", "ended"} /\ w \in Busy
    BY <1>1 DEF FetchLinks, Moves, Places, Busy
  <2> QED
    BY <2>1, MoveFacts
<1> HIDE DEF c0
<1>6. item[w].cid = c0
  BY DEF c0
<1>7. TypeOK'
  BY <1>1, <1>3, <1>4, <1>5 DEF TypeOK
<1>8. CountIsRight'
  BY <1>1, <1>5 DEF CountIsRight
<1>9. ItemInv'
  BY <1>1, <1>2, <1>4, <1>5, <1>6 DEF ItemInv
<1>10. RootInv'
  BY <1>1, <1>5 DEF RootInv
<1>11. VisitInv'
  BY <1>1, <1>2, <1>5 DEF VisitInv, Skips
<1>12. FetchInv'
  BY <1>1, <1>2, <1>3, <1>5, <1>6 DEF FetchInv
<1>13. AccountInv'
  <2>1. ASSUME NEW c \in Cids, Waits(c) PROVE Waits(c)'
    BY <1>1, <1>4, <1>5, <2>1 DEF Waits
  <2>2. ASSUME NEW c \in Children[c0] PROVE Waits(c)'
    BY <1>3, <1>4, <1>5, LinkFacts DEF Waits
  <2>3. failed # {} /\ (\E v \in Workers : pc[v] = "fail")
          => \E v \in Workers : pc'[v] = "fail"
    BY <1>1, <1>5
  <2> QED
    BY <1>1, <1>2, <1>5, <2>1, <2>2, <2>3 DEF AccountInv
<1>14. ResultInv'
  BY <1>1, <1>5 DEF ResultInv
<1> QED
  BY <1>7, <1>8, <1>9, <1>10, <1>11, <1>12, <1>13, <1>14

(* A failure is skipped, kept by its worker, or the end of the program.    *)
LEMMA FetchFailsKeepsIInv ==
  ASSUME IInv, NEW w \in Workers, FetchFails(w)
  PROVE  IInv'
<1> USE DEF IInv
<1> DEFINE c0 == item[w].cid
<1>1. /\ pc[w] = "fetch"
      /\ result' = result /\ queue' = queue
      /\ inProgress' = inProgress /\ item' = item /\ links' = links
      /\ fresh' = fresh /\ lk' = lk /\ seen' = seen /\ options' = options
      /\ cancelled' = cancelled /\ entered' = entered
      /\ expanded' = expanded
  BY DEF FetchFails, visitVars, callVars
<1>2. /\ SkipRoot' = SkipRoot /\ Before' = Before
      /\ \A x : Reached(x)' = Reached(x) /\ Entering(x)' = Entering(x)
      /\ \A x : Sound(x)' = Sound(x)
  BY <1>1 DEF SkipRoot, Before, Reached, Entering, Sound
<1>3. c0 \in Cids /\ c0 \in entered \ Settled
  BY <1>1 DEF TypeOK, Item, FetchInv
<1>4. missing' \subseteq Cids /\ reported' \subseteq Cids
  BY <1>3, WalkAssumption DEF FetchFails, Reported, TypeOK
<1>5. \/ /\ Moves(w, "out") /\ skipped' = skipped \cup {c0}
         /\ main' = main /\ failed' = failed
      \/ /\ Moves(w, "fail") /\ failed' = failed \cup {c0}
         /\ main' = main /\ skipped' = skipped
      \/ /\ main' = "crashed"
         /\ pc' = pc /\ skipped' = skipped /\ failed' = failed
  BY DEF FetchFails, Moves
<1> HIDE DEF c0
<1>6. item[w].cid = c0
  BY DEF c0
<1>7. w \in Busy /\ links[w] = <<>>
  BY <1>1 DEF Busy, ItemInv
<1>8. CASE main' = "crashed" /\ pc' = pc /\ skipped' = skipped /\ failed' = failed
  <2>1. TypeOK'
    BY <1>1, <1>4, <1>8 DEF TypeOK
  <2>2. CountIsRight' /\ AccountInv'
    BY <1>8 DEF CountIsRight, AccountInv
  <2>3. ItemInv' /\ RootInv'
    BY <1>1, <1>2, <1>8 DEF ItemInv, RootInv
  <2>4. VisitInv' /\ FetchInv'
    BY <1>1, <1>2, <1>8 DEF VisitInv, FetchInv, Settled, Skips
  <2>5. ResultInv'
    BY <1>1, <1>2, <1>8 DEF ResultInv
  <2> QED
    BY <2>1, <2>2, <2>3, <2>4, <2>5
<1>9. ASSUME NEW place \in {"out", "fail"}, Moves(w, place), main' = main,
             skipped' \subseteq Cids, failed' \subseteq Cids,
             Settled' = Settled \cup {c0},
             failed' = IF place = "fail" THEN failed \cup {c0} ELSE failed
      PROVE  IInv'
  <2>1. /\ pc' \in [Workers -> Places]
        /\ \A v \in Workers : pc'[v] = IF v = w THEN place ELSE pc[v]
        /\ Cardinality(Busy') = Cardinality(Busy)
    BY <1>7, <1>9, MoveFacts DEF Places
  <2>2. TypeOK'
    BY <1>1, <1>4, <1>9, <2>1 DEF TypeOK
  <2>3. CountIsRight'
    BY <1>1, <1>9, <2>1 DEF CountIsRight
  <2>4. ItemInv'
    BY <1>1, <1>2, <1>7, <2>1 DEF ItemInv
  <2>5. RootInv'
    BY <1>1, <2>1 DEF RootInv
  <2>6. VisitInv'
    BY <1>1, <1>2, <2>1 DEF VisitInv, Skips
  <2>7. FetchInv'
    BY <1>1, <1>3, <1>6, <1>9, <2>1 DEF FetchInv
  <2>8. \A c : Waits(c) => Waits(c)'
    BY <1>1, <2>1 DEF Waits
  <2>9. AccountInv'
    BY <1>1, <1>2, <1>9, <2>1, <2>8 DEF AccountInv
  <2>10. ResultInv'
    BY <1>1, <1>9, <2>1 DEF ResultInv
  <2> QED
    BY <2>2, <2>3, <2>4, <2>5, <2>6, <2>7, <2>9, <2>10
<1>10. CASE /\ Moves(w, "out") /\ skipped' = skipped \cup {c0}
            /\ main' = main /\ failed' = failed
  BY <1>1, <1>3, <1>9, <1>10 DEF Settled, TypeOK
<1>11. CASE /\ Moves(w, "fail") /\ failed' = failed \cup {c0}
            /\ main' = main /\ skipped' = skipped
  BY <1>1, <1>3, <1>9, <1>11 DEF Settled, TypeOK
<1> QED
  BY <1>5, <1>8, <1>10, <1>11

(* A worker that gives up is not counted off, so that the count is not     *)
(* exact any more; when it is main that has left, nobody looks at it.      *)
LEMMA GiveUpKeepsIInv ==
  ASSUME IInv, NEW w \in Workers, GiveUp(w)
  PROVE  IInv'
<1> USE DEF IInv
<1>1. /\ cancelled \/ main # "loop"
      /\ main' = main /\ result' = result /\ queue' = queue
      /\ inProgress' = inProgress /\ item' = item /\ links' = links
      /\ fresh' = fresh /\ lk' = lk /\ seen' = seen /\ options' = options
      /\ cancelled' = cancelled /\ entered' = entered /\ expanded' = expanded
      /\ skipped' = skipped /\ failed' = failed /\ missing' = missing
      /\ reported' = reported
  BY DEF GiveUp, FetchersDone, mainVars, visitVars, callVars, histVars
<1>2. PICK place \in {"idle", "ended"} :
        /\ pc[w] \in {"out", "fail", "done"} /\ Moves(w, place)
        /\ place = "idle" => pc[w] = "done"
  BY DEF GiveUp, Moves
<1>3. /\ SkipRoot' = SkipRoot /\ Before' = Before /\ Settled' = Settled
      /\ \A x : Reached(x)' = Reached(x) /\ Entering(x)' = Entering(x)
      /\ \A x : Sound(x)' = Sound(x)
  BY <1>1 DEF SkipRoot, Before, Settled, Reached, Entering, Sound
<1>4. w \in Busy
  BY <1>2 DEF Busy
<1>5. /\ pc' \in [Workers -> Places]
      /\ \A v \in Workers : pc'[v] = IF v = w THEN place ELSE pc[v]
      /\ Cardinality(Busy') = Cardinality(Busy) - 1
  BY <1>2, <1>4, MoveFacts DEF Places
<1>6. TypeOK'
  BY <1>1, <1>5 DEF TypeOK
<1>7. CountIsRight' /\ AccountInv'
  <2>1. main = "loop" => inProgress > Cardinality(Busy')
    BY <1>5, BusyFacts DEF CountIsRight, TypeOK
  <2> QED
    BY <1>1, <1>5, <2>1, BusyFacts DEF CountIsRight, AccountInv, TypeOK
<1>8. ItemInv'
  BY <1>1, <1>2, <1>3, <1>5 DEF ItemInv
<1>9. RootInv'
  BY <1>1, <1>5 DEF RootInv
<1>10. VisitInv'
  BY <1>1, <1>2, <1>3, <1>5 DEF VisitInv, Skips
<1>11. FetchInv'
  BY <1>1, <1>2, <1>3, <1>5 DEF FetchInv
<1>12. ResultInv'
  BY <1>1, <1>2, <1>3, <1>5 DEF ResultInv
<1> QED
  BY <1>6, <1>7, <1>8, <1>9, <1>10, <1>11, <1>12

(* Steps after which main is not in its loop, and the caller's.            *)
LEMMA LeaveKeepsIInv ==
  ASSUME IInv, \/ SeeCancel \/ MainReturn \/ Cancel
               \/ \E w \in Workers : ReceiveErr(w) \/ End(w)
  PROVE  IInv'
<1> USE DEF IInv
<1>1. /\ queue' = queue /\ inProgress' = inProgress
      /\ item' = item /\ links' = links /\ fresh' = fresh
      /\ lk' = lk /\ seen' = seen /\ options' = options
      /\ entered' = entered /\ expanded' = expanded
      /\ skipped' = skipped /\ failed' = failed /\ missing' = missing
      /\ reported' = reported
  BY DEF SeeCancel, MainReturn, Cancel, ReceiveErr, End, mainVars, workerVars,
         visitVars, callVars, histVars
<1>2. /\ SkipRoot' = SkipRoot /\ Before' = Before /\ Settled' = Settled
      /\ \A x : Reached(x)' = Reached(x) /\ Entering(x)' = Entering(x)
      /\ \A x : Sound(x)' = Sound(x)
  BY <1>1 DEF SkipRoot, Before, Settled, Reached, Entering, Sound
<1>3. /\ cancelled' = cancelled \/ cancelled' = TRUE
      /\ main' \in {"loop", "drain", "returned", "crashed"}
      /\ result' \in {"none", "nil", "err"}
      /\ main' = "loop" => main = "loop" /\ pc' = pc /\ result' = result
  BY DEF SeeCancel, MainReturn, Cancel, ReceiveErr, End, mainVars, workerVars,
         visitVars, callVars, histVars, TypeOK
<1>4. /\ pc' \in [Workers -> Places]
      /\ \A w \in Workers :
           \/ pc'[w] = pc[w]
           \/ pc'[w] = "ended" /\ pc[w] \in {"idle", "fail"}
  <2>1. ASSUME NEW w \in Workers, ReceiveErr(w) \/ End(w)
        PROVE  Moves(w, "ended") /\ pc[w] \in {"idle", "fail"}
    BY <2>1 DEF ReceiveErr, End, Moves
  <2>2. pc' = pc \/ \E w \in Workers : Moves(w, "ended") /\ pc[w] \in {"idle", "fail"}
    BY <2>1 DEF SeeCancel, MainReturn, Cancel, workerVars
  <2> QED
    BY <2>2, MoveFacts DEF TypeOK, Places
<1>5. TypeOK'
  BY <1>1, <1>3, <1>4 DEF TypeOK
<1>6. CountIsRight'
  <2>1. pc' = pc => Busy' = Busy
    BY DEF Busy
  <2> QED
    BY <1>1, <1>3, <2>1 DEF CountIsRight
<1>7. ItemInv'
  BY <1>1, <1>2, <1>4 DEF ItemInv
<1>8. RootInv'
  BY <1>1, <1>4 DEF RootInv
<1>9. VisitInv'
  BY <1>1, <1>2, <1>4 DEF VisitInv, Skips
<1>10. FetchInv'
  BY <1>1, <1>2, <1>4 DEF FetchInv
<1>11. AccountInv'
  <2>1. pc' = pc => Busy' = Busy /\ \A c : Waits(c)' = Waits(c)
    BY <1>1 DEF Busy, Waits
  <2> QED
    BY <1>1, <1>2, <1>3, <2>1 DEF AccountInv
<1>12. ResultInv'
  <2>1. \/ result' = result
        \/ main' = "drain" /\ result' = "err" /\ (failed # {} \/ cancelled)
    BY DEF SeeCancel, MainReturn, Cancel, ReceiveErr, End, mainVars, ResultInv
  <2>2. main' = "drain" => result' # "none"
    BY DEF SeeCancel, MainReturn, Cancel, ReceiveErr, End, mainVars, ResultInv
  <2>3. \A w \in Workers : pc'[w] = "fail" => pc[w] = "fail"
    BY <1>4
  <2>4. result' = "nil" =>
          /\ \A w \in Workers : pc'[w] \in {"idle", "ended"}
          /\ \A c \in Cids : Reached(c) /\ Entering(c) => c \in entered
          /\ failed = {}
    BY <1>4, <2>1 DEF ResultInv
  <2> QED
    BY <1>1, <1>2, <1>3, <2>1, <2>2, <2>3, <2>4 DEF ResultInv
<1> QED
  BY <1>5, <1>6, <1>7, <1>8, <1>9, <1>10, <1>11, <1>12

LEMMA StepKeepsIInv ==
  ASSUME IInv, [Next]_vars
  PROVE  IInv'
<1>1. ASSUME NEW w \in Workers, Receive(w) PROVE IInv'
  BY <1>1, SendKeepsIInv, ReceiveLinksKeepsIInv, ReceiveDoneKeepsIInv,
     LeaveKeepsIInv
  DEF Receive
<1>2. ASSUME NEW w \in Workers, Work(w) PROVE IInv'
  BY <1>2, LockKeepsIInv, VisitKeepsIInv, FetchLinksKeepsIInv,
     FetchFailsKeepsIInv, GiveUpKeepsIInv, LeaveKeepsIInv
  DEF Work
<1>3. CASE UNCHANGED vars
  <2>1. /\ UNCHANGED <<main, result, queue, inProgress, pc, item, links, fresh>>
        /\ UNCHANGED <<lk, seen, options, cancelled>>
        /\ UNCHANGED <<entered, expanded, skipped, failed, missing, reported>>
    BY <1>3 DEF vars, mainVars, workerVars, visitVars, callVars, histVars
  <2>2. TypeOK'
    BY <2>1 DEF IInv, TypeOK
  <2>3. CountIsRight' /\ AccountInv'
    BY <2>1 DEF IInv, CountIsRight, Busy, AccountInv, Reached, Entering, Waits,
                Before, SkipRoot
  <2>4. ItemInv' /\ RootInv'
    BY <2>1 DEF IInv, ItemInv, RootInv, Sound, Reached
  <2>5. VisitInv' /\ FetchInv'
    BY <2>1 DEF IInv, VisitInv, FetchInv, Settled, Skips, Before, SkipRoot
  <2>6. ResultInv'
    BY <2>1 DEF IInv, ResultInv, Reached, Entering, Before, SkipRoot
  <2> QED
    BY <2>2, <2>3, <2>4, <2>5, <2>6 DEF IInv
<1> QED
  BY <1>1, <1>2, <1>3, LeaveKeepsIInv DEF Next, Running, Main, Terminated
-----------------------------------------------------------------------------
(* The refinement mapping of ParallelWalk.                                 *)
LEMMA MappingFacts ==
  /\ \A c : Walk!Reached(c) <=> Reached(c)
  /\ \A c : Walk!Entering(c) <=> Entering(c)
  /\ Walk!Pending = entered \ Settled
  /\ AsCall(options).lenient = (Handlers # <<>>)
BY DEF Walk!Reached, Reached, Walk!Entering, Entering, Walk!Pending, Settled,
       AsCall, Before, SkipRoot, Handlers

(* While main has not returned, a step that does nothing to the sets that  *)
(* a walk is about is no step of the walk.                                 *)
LEMMA QuietIsStutter ==
  ASSUME main # "returned", main' # "returned",
         UNCHANGED <<options, entered, expanded, skipped, failed, cancelled>>
  PROVE  UNCHANGED Walk!vars
BY DEF Walk!vars, AsCall

LEMMA SendRefines ==
  ASSUME IInv, main # "returned", NEW w \in Workers, Send(w)
  PROVE  [Walk!Next]_Walk!vars
<1>1. /\ main' = main /\ queue # <<>> /\ options' = options
      /\ UNCHANGED <<expanded, skipped, failed, cancelled>>
  BY DEF Send, callVars
<1>2. CASE ~Skips(Head(queue))
  BY <1>1, <1>2, QuietIsStutter DEF Send
<1>3. CASE Skips(Head(queue))
  <2>1. Head(queue) = queue[1] /\ 1 \in 1..Len(queue)
    BY <1>1 DEF IInv, TypeOK
  <2>2. queue[1].depth = 0 /\ SkipRoot /\ queue[1].cid = Root
    BY <1>3, <2>1 DEF Skips, IInv, ItemInv, Sound
  <2>3. entered = {} /\ entered' = {Root}
    BY <1>3, <2>1, <2>2 DEF IInv, RootInv, Send
  <2>4. Walk!Enter(Root)
    BY <1>1, <2>2, <2>3, MappingFacts
    DEF Walk!Enter, Reached, Entering, AsCall
  <2> QED
    BY <2>4, WalkAssumption DEF Walk!Next
<1> QED
  BY <1>2, <1>3

LEMMA VisitRefines ==
  ASSUME IInv, main # "returned", NEW w \in Workers, Visit(w)
  PROVE  [Walk!Next]_Walk!vars
<1>1. /\ main' = main /\ options' = options /\ pc[w] = "visit"
      /\ UNCHANGED <<expanded, skipped, failed, cancelled>>
  BY DEF Visit, mainVars, callVars
<1>2. CASE ~fresh[w]
  BY <1>1, <1>2, QuietIsStutter DEF Visit
<1>3. CASE fresh[w]
  <2>1. /\ item[w].cid \in Cids /\ Reached(item[w].cid)
        /\ item[w].cid = Root => ~SkipRoot
        /\ item[w].cid \notin seen
    BY <1>1, <1>3
    DEF IInv, TypeOK, Item, VisitInv, Skips, ItemInv, Sound
  <2>2. item[w].cid \notin entered /\ Entering(item[w].cid)
    BY <2>1 DEF IInv, VisitInv, Entering
  <2>3. entered' = entered \cup {item[w].cid}
    BY <1>3 DEF Visit
  <2>4. Walk!Enter(item[w].cid)
    BY <1>1, <2>1, <2>2, <2>3, MappingFacts DEF Walk!Enter, AsCall
  <2> QED
    BY <2>1, <2>4 DEF Walk!Next
<1> QED
  BY <1>2, <1>3

LEMMA FetchRefines ==
  ASSUME IInv, main # "returned", NEW w \in Workers,
         FetchLinks(w) \/ FetchFails(w)
  PROVE  [Walk!Next]_Walk!vars
<1> DEFINE c == item[w].cid
<1>1. /\ options' = options /\ pc[w] = "fetch"
      /\ entered' = entered /\ cancelled' = cancelled
  BY DEF FetchLinks, FetchFails, callVars
<1>2. c \in Cids /\ c \in Walk!Pending
  BY <1>1, MappingFacts DEF IInv, TypeOK, Item, FetchInv
<1> HIDE DEF c
<1>3. CASE FetchLinks(w)
  <2>1. /\ main' = main /\ expanded' = expanded \cup {c}
        /\ skipped' = skipped /\ failed' = failed
    BY <1>3 DEF FetchLinks, mainVars, c
  <2> QED
    BY <1>1, <1>2, <2>1 DEF Walk!Next, Walk!Expand, AsCall
<1>4. CASE FetchFails(w)
  <2>1. /\ expanded' = expanded
        /\ \/ /\ Handlers # <<>> /\ skipped' = skipped \cup {c}
              /\ main' = main /\ failed' = failed
           \/ /\ failed' = failed \cup {c}
              /\ main' = main /\ skipped' = skipped
           \/ main' = "crashed" /\ skipped' = skipped /\ failed' = failed
    BY <1>4 DEF FetchFails, MaySuppress, c
  <2>2. CASE /\ Handlers # <<>> /\ skipped' = skipped \cup {c}
             /\ main' = main /\ failed' = failed
    BY <1>1, <1>2, <2>1, <2>2, MappingFacts DEF Walk!Next, Walk!Skip, AsCall
  <2>3. CASE /\ failed' = failed \cup {c}
             /\ main' = main /\ skipped' = skipped
    BY <1>1, <1>2, <2>1, <2>3 DEF Walk!Next, Walk!Fail, AsCall
  <2>4. CASE main' = "crashed" /\ skipped' = skipped /\ failed' = failed
    BY <1>1, <2>1, <2>4, QuietIsStutter
  <2> QED
    BY <2>1, <2>2, <2>3, <2>4
<1> QED
  BY <1>3, <1>4

(* When main returns nil, nothing is left; an error has a reason.          *)
LEMMA ReturnRefines ==
  ASSUME IInv, MainReturn
  PROVE  Walk!Return
<1>1. /\ main = "drain" /\ main' = "returned" /\ result' = result
      /\ UNCHANGED <<options, entered, expanded, skipped, failed, cancelled>>
      /\ \A w \in Workers : pc[w] = "ended"
  BY DEF MainReturn, workerVars, callVars, histVars
<1>2. Walk!Pending = {}
  BY <1>1, MappingFacts DEF IInv, FetchInv
<1>3. result = "nil" \/ (result = "err" /\ (failed # {} \/ cancelled))
  BY <1>1 DEF IInv, ResultInv, TypeOK
<1>4. result = "nil" => Walk!Closed
  BY <1>2, MappingFacts DEF IInv, ResultInv, Walk!Closed
<1> QED
  BY <1>1, <1>3, <1>4 DEF Walk!Return, AsCall

LEMMA StepRefines ==
  ASSUME IInv, [Next]_vars
  PROVE  [Walk!Next]_Walk!vars
<1>1. CASE UNCHANGED vars
  BY <1>1
  DEF vars, mainVars, callVars, histVars, Walk!vars, AsCall
<1>2. ASSUME main # "returned", NEW w \in Workers, Receive(w)
      PROVE  [Walk!Next]_Walk!vars
  <2>1. CASE Send(w)
    BY <1>2, <2>1, SendRefines
  <2>2. CASE ReceiveLinks(w) \/ ReceiveDone(w) \/ ReceiveErr(w)
    BY <1>2, <2>2, QuietIsStutter
    DEF ReceiveLinks, ReceiveDone, ReceiveErr, callVars, histVars
  <2> QED
    BY <1>2, <2>1, <2>2 DEF Receive
<1>3. ASSUME main # "returned", NEW w \in Workers, Work(w)
      PROVE  [Walk!Next]_Walk!vars
  <2>1. CASE Lock(w) \/ GiveUp(w) \/ End(w)
    BY <1>3, <2>1, QuietIsStutter DEF Lock, GiveUp, End, mainVars, callVars, histVars
  <2> QED
    BY <1>3, <2>1, VisitRefines, FetchRefines DEF Work
<1>4. ASSUME main # "returned", SeeCancel
      PROVE  [Walk!Next]_Walk!vars
  BY <1>4, QuietIsStutter DEF SeeCancel, callVars, histVars
<1>5. ASSUME main # "returned", Cancel
      PROVE  [Walk!Next]_Walk!vars
  BY <1>5 DEF Cancel, mainVars, histVars, Walk!Next, Walk!Cancel, AsCall
<1>6. CASE MainReturn
  BY <1>6, ReturnRefines DEF Walk!Next
<1> QED
  BY <1>1, <1>2, <1>3, <1>4, <1>5, <1>6
  DEF Next, Running, Main, Terminated, Ended
-----------------------------------------------------------------------------
(* The sequential walk (w3s/car.go:150-171): the calls on the stack, and   *)
(* the shared variables as a walk without workers leaves them.             *)

CallRecord == [cid : Cids, depth : Nat, links : Seq(Cids)]

Walking == at \in {"visit", "fetch", "links"}

StackInv ==
  /\ options \in Options
  /\ main = "returned" /\ \A w \in Workers : pc[w] = "ended"
  /\ stack \in Seq(CallRecord)
  /\ at \in {"visit", "fetch", "links", "error", "returned", "crashed"}
  /\ at # "returned" => stack # <<>> /\ result = "none"

(* A call is for the root, or for a node that its caller links to; what it *)
(* has still to follow are links of its own.                               *)
CallInv ==
  /\ \A i \in 1..Len(stack) :
       /\ Sound(stack[i])
       /\ stack[i].cid = Root <=> i = 1
       /\ \A j \in 1..Len(stack[i].links) :
            /\ stack[i].cid \in expanded
            /\ stack[i].links[j] \in Children[stack[i].cid]
  /\ at \in {"visit", "fetch"} => Sequential!Top.links = <<>>

(* What visit has seen and what the walk has entered differ by what was    *)
(* seen before and by a root that is not visited.                          *)
SeenInv ==
  /\ Before \subseteq seen /\ seen \subseteq Before \cup entered
  /\ \A c \in entered : c \in seen \/ (SkipRoot /\ c = Root)
  /\ at = "visit" /\ Len(stack) = 1 => entered = {}

(* One node is pending while its links are fetched, none otherwise.        *)
OneInv ==
  /\ Settled \subseteq entered
  /\ at \in {"visit", "links"} => entered \subseteq Settled
  /\ at = "fetch" => entered \ Settled = {Sequential!Top.cid}
  /\ Walking => failed = {}
  /\ at = "error" => failed # {}

Follows(c, i) == \E j \in 1..Len(stack[i].links) : stack[i].links[j] = c

(* What can be reached and has not been entered will be, by a call that is *)
(* on the stack.                                                           *)
OpenInv ==
  Walking =>
    \A c \in Cids : Reached(c) /\ Entering(c) =>
      \/ c \in entered
      \/ at = "visit" /\ c = Sequential!Top.cid
      \/ \E i \in 1..Len(stack) : Follows(c, i)

SeqInv == TypeOK /\ StackInv /\ CallInv /\ SeenInv /\ OneInv /\ OpenInv

(* Whichever walk is called has its invariant.                             *)
DepthInv == IF Parallel THEN IInv ELSE SeqInv

(* The call that runs is on top of the stack.                              *)
LEMMA TopFacts ==
  ASSUME SeqInv, at # "returned"
  PROVE  /\ Len(stack) \in Nat /\ Len(stack) >= 1
         /\ Len(stack) \in 1..Len(stack)
         /\ Sequential!Top = stack[Len(stack)]
         /\ Sequential!Top \in CallRecord
         /\ Sequential!Top.cid \in Cids /\ Sequential!Top.depth \in Nat
         /\ Sequential!Top.links \in Seq(Cids)
         /\ Sound(Sequential!Top)
         /\ Sequential!Top.cid = Root <=> Len(stack) = 1
<1>1. stack \in Seq(CallRecord) /\ stack # <<>>
  BY DEF SeqInv, StackInv
<1>2. Len(stack) \in Nat /\ Len(stack) >= 1 /\ Len(stack) \in 1..Len(stack)
  BY <1>1
<1>3. stack[Len(stack)] \in CallRecord
  BY <1>1, <1>2
<1>4. Sound(stack[Len(stack)]) /\ (stack[Len(stack)].cid = Root <=> Len(stack) = 1)
  BY <1>2 DEF SeqInv, CallInv
<1> QED
  BY <1>2, <1>3, <1>4 DEF Sequential!Top, CallRecord

(* Giving the call on top other links to follow.                           *)
LEMMA RelinkFacts ==
  ASSUME NEW s \in Seq(CallRecord), s # <<>>, NEW rest \in Seq(Cids),
         NEW t, t = [s EXCEPT ![Len(s)].links = rest]
  PROVE  /\ t \in Seq(CallRecord) /\ Len(t) = Len(s)
         /\ \A i \in 1..Len(s) :
              /\ t[i].cid = s[i].cid /\ t[i].depth = s[i].depth
              /\ t[i].links = IF i = Len(s) THEN rest ELSE s[i].links
<1>1. Len(s) \in Nat /\ Len(s) \in 1..Len(s)
  OBVIOUS
<1>2. s[Len(s)] \in CallRecord
  BY <1>1
<1> DEFINE new == [s[Len(s)] EXCEPT !.links = rest]
<1>3. /\ new \in CallRecord /\ new.links = rest
      /\ new.cid = s[Len(s)].cid /\ new.depth = s[Len(s)].depth
  BY <1>2 DEF CallRecord
<1>4. t = [s EXCEPT ![Len(s)] = new]
  OBVIOUS
<1> HIDE DEF new
<1>5. t \in Seq(CallRecord) /\ Len(t) = Len(s)
  BY <1>1, <1>3, <1>4
<1>6. \A i \in 1..Len(s) : t[i] = IF i = Len(s) THEN new ELSE s[i]
  BY <1>4
<1> QED
  BY <1>3, <1>5, <1>6

(* A new call on top of the others.                                        *)
LEMMA PushFacts ==
  ASSUME NEW s \in Seq(CallRecord), NEW call \in CallRecord,
         NEW t, t = s \o <<call>>
  PROVE  /\ t \in Seq(CallRecord) /\ Len(t) = Len(s) + 1 /\ t # <<>>
         /\ t[Len(s) + 1] = call
         /\ \A i \in 1..Len(s) : t[i] = s[i]
OBVIOUS

(* The call on top returns.                                                *)
LEMMA PopFacts ==
  ASSUME NEW s \in Seq(CallRecord), s # <<>>,
         NEW t, t = SubSeq(s, 1, Len(s) - 1)
  PROVE  /\ t \in Seq(CallRecord) /\ Len(t) = Len(s) - 1
         /\ t = <<>> <=> Len(s) = 1
         /\ \A i \in 1..Len(t) : t[i] = s[i]
         /\ 1..Len(t) \subseteq 1..Len(s)
<1> DEFINE n == Len(s) - 1
<1>1. n \in Nat /\ Len(s) = n + 1
  OBVIOUS
<1>2. \A i \in 1..n : i \in 1..Len(s) /\ s[i] \in CallRecord
  BY <1>1
<1>3. t = [i \in 1..n |-> s[i]]
  BY <1>1
<1> HIDE DEF n
<1>4. t \in Seq(CallRecord) /\ Len(t) = n
  BY <1>1, <1>2, <1>3
<1>5. \A i \in 1..n : t[i] = s[i]
  BY <1>3
<1>6. t = <<>> <=> n = 0
  BY <1>1, <1>4
<1> QED
  BY <1>1, <1>2, <1>4, <1>5, <1>6

(* The two walks read the same options.                                    *)
LEMMA SameOptions ==
  /\ Sequential!SkipRoot = SkipRoot /\ Sequential!Before = Before
  /\ Sequential!Parallel <=> Parallel
  /\ Sequential!Outcomes = Outcomes
  /\ \A error : /\ Sequential!MaySuppress(error) => Handlers # <<>>
                /\ \A c : Sequential!Reported(c, error) \subseteq {c}
BY DEF Sequential!SkipRoot, SkipRoot, Sequential!Before, Before,
       Sequential!Parallel, Parallel, Sequential!Outcomes, Outcomes,
       Sequential!MaySuppress, Sequential!Handlers, Handlers,
       Sequential!Reported

(* What the sequential walk leaves alone.                                  *)
Alone ==
  UNCHANGED <<main, queue, inProgress, pc, item, links, fresh, lk, options>>

LEMMA AloneFacts ==
  ASSUME Alone
  PROVE  /\ SkipRoot' = SkipRoot /\ Before' = Before
         /\ Handlers' = Handlers /\ (Parallel' <=> Parallel)
         /\ \A c : Entering(c)' <=> Entering(c)
         /\ expanded' = expanded => \A c : Reached(c)' <=> Reached(c)
BY DEF Alone, SkipRoot, Before, Handlers, Parallel, Entering, Reached

LEMMA SeqTypes ==
  ASSUME SeqInv, Alone, UNCHANGED <<cancelled, missing, reported>>,
         result' \in {"none", "nil", "err"}, seen' \subseteq Cids,
         entered' \subseteq Cids, expanded' \subseteq Cids,
         skipped' \subseteq Cids, failed' \subseteq Cids
  PROVE  TypeOK'
BY DEF SeqInv, TypeOK, Alone

(* The walk enters the node of the call on top.                            *)
LEMMA EnterKeepsSeq ==
  ASSUME SeqInv, Alone, at = "visit", at' = "fetch",
         entered' = entered \cup {Sequential!Top.cid},
         \/ Sequential!Skips(Sequential!Top) /\ seen' = seen
         \/ /\ ~Sequential!Skips(Sequential!Top)
            /\ Sequential!Top.cid \notin seen
            /\ seen' = seen \cup {Sequential!Top.cid},
         UNCHANGED <<stack, result, cancelled, expanded, skipped, failed,
                     missing, reported>>
  PROVE  SeqInv' /\ Sequential!Top.cid \notin entered
<1> DEFINE t == Sequential!Top.cid
           skips == Sequential!Skips(Sequential!Top)
<1>1. /\ t \in Cids /\ (t = Root <=> Len(stack) = 1)
      /\ skips => SkipRoot /\ t = Root
      /\ t = Root /\ ~skips => ~SkipRoot
  BY TopFacts, SameOptions DEF Sequential!Skips, Sound
<1>2. Sequential!Top' = Sequential!Top
  BY DEF Sequential!Top
<1>3. t \notin entered
  <2>1. CASE t = Root
    BY <1>1, <2>1 DEF SeqInv, SeenInv
  <2>2. CASE t # Root
    BY <1>1, <2>2 DEF SeqInv, SeenInv
  <2> QED
    BY <2>1, <2>2
<1>4. Settled' = Settled
  BY DEF Settled
<1>5. TypeOK'
  <2>1. seen' \subseteq Cids /\ entered' \subseteq Cids
    BY <1>1 DEF SeqInv, TypeOK
  <2> QED
    BY <2>1, SeqTypes DEF SeqInv, TypeOK
<1>6. StackInv'
  BY DEF SeqInv, StackInv, Alone
<1>7. CallInv'
  BY <1>2, AloneFacts DEF SeqInv, CallInv, Sound
<1> HIDE DEF t, skips
<1>8. seen' = seen \/ (seen' = seen \cup {t} /\ t \notin seen)
  BY DEF t
<1>9. entered' = entered \cup {t} /\ (seen' = seen => SkipRoot /\ t = Root)
  BY <1>1 DEF t, skips
<1>10. SeenInv'
  BY <1>8, <1>9, AloneFacts DEF SeqInv, SeenInv
<1>11. OneInv'
  <2>1. entered \subseteq Settled /\ Settled \subseteq entered
    BY DEF SeqInv, OneInv
  <2>2. entered' \ Settled' = {t}
    BY <1>3, <1>4, <1>9, <2>1
  <2>3. failed' = {}
    BY DEF SeqInv, OneInv, Walking
  <2> QED
    BY <1>2, <1>4, <1>9, <2>1, <2>2, <2>3 DEF OneInv, t
<1>12. OpenInv'
  <2> SUFFICES ASSUME NEW c \in Cids, Reached(c), Entering(c), c \notin entered'
               PROVE  \E i \in 1..Len(stack) : Follows(c, i)
    BY AloneFacts DEF OpenInv, Follows
  <2> QED
    BY <1>9 DEF SeqInv, OpenInv, Walking, t
<1> QED
  BY <1>3, <1>5, <1>6, <1>7, <1>10, <1>11, <1>12 DEF SeqInv, t

(* The call on top, which has nothing left to follow, returns nil.         *)
LEMMA ReturnKeepsSeq ==
  ASSUME SeqInv, Alone, at \in {"visit", "links"}, Sequential!ReturnNil,
         Sequential!Top.links = <<>>,
         at = "visit" => /\ ~Sequential!Skips(Sequential!Top)
                         /\ Sequential!Top.cid \in seen,
         UNCHANGED <<seen, cancelled, entered, expanded, skipped, failed,
                     missing, reported>>
  PROVE  /\ SeqInv'
         /\ at' = "returned" =>
              /\ result' = "nil"
              /\ entered \subseteq Settled /\ failed = {}
              /\ \A c \in Cids : Reached(c) /\ Entering(c) => c \in entered
<1> DEFINE n == Len(stack)
<1>1. /\ n \in Nat /\ n >= 1 /\ Sequential!Top = stack[n]
      /\ stack \in Seq(CallRecord) /\ stack # <<>>
  BY TopFacts DEF SeqInv, StackInv
<1>2. /\ stack' \in Seq(CallRecord) /\ Len(stack') = n - 1
      /\ stack' = <<>> <=> n = 1
      /\ \A i \in 1..Len(stack') : stack'[i] = stack[i] /\ i \in 1..n /\ i # n
  <2>1. stack' = SubSeq(stack, 1, Len(stack) - 1)
    BY DEF Sequential!ReturnNil, Sequential!Pop
  <2> QED
    BY <1>1, <2>1, PopFacts
<1>3. /\ n = 1 => at' = "returned" /\ result' = "nil"
      /\ n # 1 => at' = "links" /\ result' = result
  BY DEF Sequential!ReturnNil
<1>4. Settled' = Settled
  BY DEF Settled
<1>5. \A c \in Cids : Reached(c) /\ Entering(c) =>
        c \in entered \/ \E i \in 1..n : i # n /\ Follows(c, i)
  <2> SUFFICES ASSUME NEW c \in Cids, Reached(c), Entering(c), c \notin entered
               PROVE  \E i \in 1..n : i # n /\ Follows(c, i)
    OBVIOUS
  <2>1. ~Follows(c, n)
    BY <1>1 DEF Follows
  <2>2. at = "visit" => c # Sequential!Top.cid
    <3> SUFFICES ASSUME at = "visit", c = Sequential!Top.cid PROVE FALSE
      OBVIOUS
    <3>1. c \in Before
      BY DEF SeqInv, SeenInv
    <3>2. SkipRoot /\ c = Root
      BY <3>1 DEF Entering
    <3>3. Sequential!Skips(Sequential!Top)
      BY <3>2, TopFacts, SameOptions DEF Sequential!Skips, Sound
    <3> QED
      BY <3>3
  <2>3. \E i \in 1..n : Follows(c, i)
    BY <2>2 DEF SeqInv, OpenInv, Walking
  <2> QED
    BY <2>1, <2>3
<1>6. TypeOK'
  <2>1. result' \in {"none", "nil", "err"}
    BY <1>3 DEF SeqInv, TypeOK
  <2> QED
    BY <2>1, SeqTypes DEF SeqInv, TypeOK
<1>7. StackInv'
  BY <1>1, <1>2, <1>3 DEF SeqInv, StackInv, Alone
<1>8. CallInv'
  <2>1. \A i \in 1..Len(stack') :
          /\ Sound(stack[i])' /\ (stack'[i].cid = Root <=> i = 1)
          /\ \A j \in 1..Len(stack'[i].links) :
               /\ stack'[i].cid \in expanded'
               /\ stack'[i].links[j] \in Children[stack'[i].cid]
    <3> SUFFICES ASSUME NEW i \in 1..Len(stack')
        PROVE  /\ Sound(stack[i])' /\ (stack'[i].cid = Root <=> i = 1)
               /\ \A j \in 1..Len(stack'[i].links) :
                    /\ stack'[i].cid \in expanded'
                    /\ stack'[i].links[j] \in Children[stack'[i].cid]
      OBVIOUS
    <3>1. stack'[i] = stack[i] /\ i \in 1..Len(stack)
      BY <1>2
    <3>2. /\ Sound(stack[i]) /\ (stack[i].cid = Root <=> i = 1)
          /\ \A j \in 1..Len(stack[i].links) :
               /\ stack[i].cid \in expanded
               /\ stack[i].links[j] \in Children[stack[i].cid]
      BY <3>1 DEF SeqInv, CallInv
    <3>3. Sound(stack[i])'
      BY <3>1, <3>2 DEF Sound, Reached
    <3> QED
      BY <3>1, <3>2, <3>3
  <2> QED
    BY <1>3, <2>1 DEF CallInv
<1>9. SeenInv'
  BY <1>3, AloneFacts DEF SeqInv, SeenInv
<1>10. OneInv'
  BY <1>3, <1>4 DEF SeqInv, OneInv, Walking
<1>11. OpenInv'
  <2> SUFFICES ASSUME at' = "links", NEW c \in Cids, Reached(c), Entering(c),
                      c \notin entered
               PROVE  \E i \in 1..Len(stack') : Follows(c, i)'
    BY <1>3, AloneFacts DEF OpenInv, Walking
  <2>1. PICK i \in 1..n : i # n /\ Follows(c, i)
    BY <1>5
  <2>2. i \in 1..Len(stack')
    BY <1>1, <1>2, <2>1
  <2>3. stack'[i] = stack[i]
    BY <1>2, <2>2
  <2> QED
    BY <2>1, <2>2, <2>3 DEF Follows
<1>12. at' = "returned" =>
         /\ entered \subseteq Settled /\ failed = {}
         /\ \A c \in Cids : Reached(c) /\ Entering(c) => c \in entered
  <2> SUFFICES ASSUME n = 1
               PROVE  /\ entered \subseteq Settled /\ failed = {}
                      /\ \A c \in Cids : Reached(c) /\ Entering(c) => c \in entered
    BY <1>3
  <2>1. \A i \in 1..n : i = n
    OBVIOUS
  <2> QED
    BY <1>5, <2>1 DEF SeqInv, OneInv, Walking
<1> QED
  BY <1>3, <1>6, <1>7, <1>8, <1>9, <1>10, <1>11, <1>12 DEF SeqInv

(* The links of the node are there to follow.                              *)
LEMMA FetchKeepsSeq ==
  ASSUME SeqInv, Alone, Sequential!FetchLinks
  PROVE  /\ SeqInv'
         /\ at' # "returned" /\ at # "returned" /\ result' = result
         /\ Sequential!Top.cid \in Cids
         /\ Sequential!Top.cid \in entered \ Settled
<1> DEFINE n == Len(stack)
           t == Sequential!Top.cid
           new == Links[t]
<1>1. /\ at = "fetch" /\ at' = "links"
      /\ stack' = [stack EXCEPT ![n].links = new]
      /\ expanded' = expanded \cup {t}
      /\ UNCHANGED <<result, seen, cancelled, entered, skipped, failed,
                     missing, reported>>
  BY DEF Sequential!FetchLinks, Sequential!callVars
<1>2. /\ n \in Nat /\ n >= 1 /\ n \in 1..n /\ Sequential!Top = stack[n]
      /\ stack \in Seq(CallRecord) /\ stack # <<>>
      /\ t \in Cids /\ stack[n].links = <<>>
  BY <1>1, TopFacts DEF SeqInv, StackInv, CallInv
<1>3. /\ new \in Seq(Cids)
      /\ \A j \in 1..Len(new) : new[j] \in Children[t]
      /\ \A c \in Children[t] : \E j \in 1..Len(new) : new[j] = c
  BY <1>2, LinkFacts
<1>4. t \in entered \ Settled /\ entered \ Settled = {t}
  BY <1>1 DEF SeqInv, OneInv
<1> HIDE DEF new
<1>5. /\ stack' \in Seq(CallRecord) /\ Len(stack') = n
      /\ \A i \in 1..n :
           /\ stack'[i].cid = stack[i].cid /\ stack'[i].depth = stack[i].depth
           /\ stack'[i].links = IF i = n THEN new ELSE stack[i].links
  <2>1. stack' = [stack EXCEPT ![Len(stack)].links = new]
    BY <1>1
  <2>2. stack \in Seq(CallRecord) /\ stack # <<>> /\ new \in Seq(Cids)
    BY <1>2, <1>3
  <2> HIDE DEF t
  <2> QED
    BY <2>1, <2>2, RelinkFacts
<1>6. \A c : Reached(c)' <=> Reached(c) \/ c \in Children[t]
  BY <1>1 DEF Reached
<1>7. Settled' = Settled \cup {t}
  BY <1>1 DEF Settled
<1>8. TypeOK'
  BY <1>1, <1>2, SeqTypes DEF SeqInv, TypeOK
<1>9. StackInv'
  <2>1. stack' # <<>>
    BY <1>2, <1>5
  <2> QED
    BY <1>1, <1>5, <2>1 DEF SeqInv, StackInv, Alone
<1>10. CallInv'
  <2>1. ASSUME NEW i \in 1..Len(stack')
        PROVE  /\ Reached(stack[i].cid)'
               /\ stack'[i].depth = 0 <=> stack'[i].cid = Root
               /\ stack'[i].cid = Root <=> i = 1
               /\ \A j \in 1..Len(stack'[i].links) :
                    /\ stack'[i].cid \in expanded'
                    /\ stack'[i].links[j] \in Children[stack'[i].cid]
    <3>1. i \in 1..n /\ stack'[i].cid = stack[i].cid
          /\ stack'[i].depth = stack[i].depth
      BY <1>5
    <3>2. /\ Reached(stack[i].cid)
          /\ stack[i].depth = 0 <=> stack[i].cid = Root
          /\ stack[i].cid = Root <=> i = 1
          /\ \A j \in 1..Len(stack[i].links) :
               /\ stack[i].cid \in expanded
               /\ stack[i].links[j] \in Children[stack[i].cid]
      BY <3>1 DEF SeqInv, CallInv, Sound
    <3>3. Reached(stack[i].cid)'
      BY <1>1, <3>1, <3>2 DEF Reached
    <3>4. CASE i = n
      BY <1>1, <1>2, <1>3, <1>5, <3>1, <3>2, <3>3, <3>4
    <3>5. CASE i # n
      BY <1>1, <1>5, <3>1, <3>2, <3>3, <3>5
    <3> QED
      BY <3>4, <3>5
  <2> QED
    BY <1>1, <2>1 DEF CallInv, Sound, Reached
<1>11. SeenInv'
  BY <1>1, AloneFacts DEF SeqInv, SeenInv
<1>12. OneInv'
  <2>1. Settled \subseteq entered /\ failed = {}
    BY <1>1 DEF SeqInv, OneInv, Walking
  <2> QED
    BY <1>1, <1>4, <1>7, <2>1 DEF OneInv
<1>13. OpenInv'
  <2> SUFFICES ASSUME NEW c \in Cids, Reached(c)', Entering(c), c \notin entered
               PROVE  \E i \in 1..Len(stack') : Follows(c, i)'
    BY <1>1, AloneFacts DEF OpenInv
  <2>1. CASE c \in Children[t]
    <3>1. PICK j \in 1..Len(new) : new[j] = c
      BY <1>3, <2>1
    <3>2. n \in 1..Len(stack') /\ stack'[n].links = new
      BY <1>2, <1>5
    <3> QED
      BY <3>1, <3>2 DEF Follows
  <2>2. CASE Reached(c)
    <3>1. PICK i \in 1..n : Follows(c, i)
      BY <1>1, <2>2 DEF SeqInv, OpenInv, Walking
    <3>2. i # n
      BY <1>2, <3>1 DEF Follows
    <3>3. stack'[i].links = stack[i].links /\ i \in 1..Len(stack')
      BY <1>5, <3>2
    <3> QED
      BY <3>1, <3>3 DEF Follows
  <2> QED
    BY <1>6, <2>1, <2>2
<1> QED
  BY <1>1, <1>2, <1>4, <1>8, <1>9, <1>10, <1>11, <1>12, <1>13 DEF SeqInv

(* getLinks fails: the node becomes a leaf, the walk fails, or the handler *)
(* that calls itself ends the process.                                     *)
LEMMA FailKeepsSeq ==
  ASSUME SeqInv, Alone, Sequential!FetchFails
  PROVE  /\ SeqInv'
         /\ at' # "returned" /\ at # "returned" /\ result' = result
         /\ UNCHANGED <<cancelled, entered, expanded>>
         /\ Sequential!Top.cid \in Cids
         /\ Sequential!Top.cid \in entered \ Settled
         /\ \/ /\ Handlers # <<>> /\ failed' = failed
               /\ skipped' = skipped \cup {Sequential!Top.cid}
            \/ /\ skipped' = skipped
               /\ failed' = failed \cup {Sequential!Top.cid}
            \/ UNCHANGED <<skipped, failed>>
<1> DEFINE t == Sequential!Top.cid
<1>1. /\ at = "fetch"
      /\ UNCHANGED <<stack, result, seen, cancelled, entered, expanded>>
  BY DEF Sequential!FetchFails, Sequential!callVars
<1>2. \/ /\ at' = "links" /\ Handlers # <<>>
         /\ skipped' = skipped \cup {t} /\ failed' = failed
      \/ /\ at' = "error"
         /\ skipped' = skipped /\ failed' = failed \cup {t}
      \/ /\ at' = "crashed"
         /\ skipped' = skipped /\ failed' = failed
  BY SameOptions DEF Sequential!FetchFails
<1>3. missing' \subseteq missing \cup {t} /\ reported' \subseteq reported \cup {t}
  BY SameOptions DEF Sequential!FetchFails, Sequential!FailedNode
<1>4. t \in Cids /\ Sequential!Top' = Sequential!Top
  BY <1>1, TopFacts DEF Sequential!Top
<1>5. t \in entered \ Settled /\ entered \ Settled = {t}
  BY <1>1 DEF SeqInv, OneInv
<1>6. failed = {} /\ Settled \subseteq entered
  BY <1>1 DEF SeqInv, OneInv, Walking
<1> HIDE DEF t
<1>7. TypeOK'
  <2>1. missing' \subseteq Cids /\ reported' \subseteq Cids
    BY <1>3, <1>4 DEF SeqInv, TypeOK
  <2>2. skipped' \subseteq Cids /\ failed' \subseteq Cids
    BY <1>2, <1>4 DEF SeqInv, TypeOK
  <2> QED
    BY <1>1, <2>1, <2>2 DEF SeqInv, TypeOK, Alone
<1>8. StackInv'
  BY <1>1, <1>2 DEF SeqInv, StackInv, Alone
<1>9. CallInv'
  BY <1>1, <1>2, AloneFacts DEF SeqInv, CallInv, Sound
<1>10. SeenInv'
  BY <1>1, <1>2, AloneFacts DEF SeqInv, SeenInv
<1>11. OneInv'
  <2>1. CASE at' = "links" /\ skipped' = skipped \cup {t} /\ failed' = failed
    <3>1. Settled' = Settled \cup {t}
      BY <1>1, <2>1 DEF Settled
    <3> QED
      BY <1>1, <1>5, <1>6, <2>1, <3>1 DEF OneInv
  <2>2. CASE at' = "error" /\ skipped' = skipped /\ failed' = failed \cup {t}
    <3>1. Settled' = Settled \cup {t}
      BY <1>1, <2>2 DEF Settled
    <3> QED
      BY <1>1, <1>5, <1>6, <2>2, <3>1 DEF OneInv, Walking
  <2>3. CASE at' = "crashed" /\ skipped' = skipped /\ failed' = failed
    <3>1. Settled' = Settled
      BY <1>1, <2>3 DEF Settled
    <3> QED
      BY <1>1, <1>5, <1>6, <2>3, <3>1 DEF OneInv, Walking
  <2> QED
    BY <1>2, <2>1, <2>2, <2>3
<1>12. OpenInv'
  <2> SUFFICES ASSUME NEW c \in Cids, Reached(c), Entering(c), c \notin entered
               PROVE  \E i \in 1..Len(stack) : Follows(c, i)
    BY <1>1, AloneFacts DEF OpenInv, Follows
  <2> QED
    BY <1>1 DEF SeqInv, OpenInv, Walking
<1> QED
  BY <1>1, <1>2, <1>4, <1>5, <1>7, <1>8, <1>9, <1>10, <1>11, <1>12
  DEF SeqInv, t

(* The next link is followed by a new call.                                *)
LEMMA FollowKeepsSeq ==
  ASSUME SeqInv, Alone, Sequential!FollowLink
  PROVE  /\ SeqInv'
         /\ at' # "returned" /\ at # "returned"
         /\ UNCHANGED <<result, cancelled, entered, expanded, skipped, failed>>
<1> DEFINE n == Len(stack)
           old == Sequential!Top.links
           rest == Tail(old)
           mid == [stack EXCEPT ![n].links = rest]
           new == Sequential!Call(Head(old), Sequential!Top.depth + 1)
<1>1. /\ at = "links" /\ at' = "visit" /\ old # <<>>
      /\ UNCHANGED <<result, seen, cancelled, entered, expanded, skipped,
                     failed, missing, reported>>
  BY DEF Sequential!FollowLink, Sequential!callVars, Sequential!histVars
<1>2. stack' = mid \o <<new>>
  BY DEF Sequential!FollowLink, Sequential!Pick
<1>3. /\ n \in Nat /\ n >= 1 /\ n \in 1..n /\ Sequential!Top = stack[n]
      /\ stack \in Seq(CallRecord) /\ stack # <<>>
      /\ old \in Seq(Cids) /\ Sequential!Top.depth \in Nat
      /\ Sequential!Top.cid \in Cids
  BY <1>1, TopFacts DEF SeqInv, StackInv
<1>4. /\ rest \in Seq(Cids) /\ Head(old) = old[1] /\ 1 \in 1..Len(old)
      /\ old[1] \in Cids
      /\ Len(rest) = Len(old) - 1 /\ Len(old) \in Nat
      /\ \A j \in 1..Len(rest) : rest[j] = old[j + 1] /\ j + 1 \in 1..Len(old)
      /\ \A j \in 1..Len(old) :
           j = 1 \/ (j - 1 \in 1..Len(rest) /\ rest[j - 1] = old[j])
  <2> HIDE DEF old
  <2>1. Len(old) \in Nat /\ Len(old) >= 1 /\ Len(rest) = Len(old) - 1
    BY <1>1, <1>3
  <2>2. \A j \in 1..Len(rest) : rest[j] = old[j + 1]
    BY <1>1, <1>3, <2>1
  <2> QED
    BY <1>1, <1>3, <2>1, <2>2
<1>5. /\ Sequential!Top.cid \in expanded
      /\ \A j \in 1..Len(old) : old[j] \in Children[Sequential!Top.cid]
  BY <1>3, <1>4 DEF SeqInv, CallInv
<1>6. /\ new \in CallRecord /\ new.cid = old[1] /\ new.links = <<>>
      /\ new.depth = Sequential!Top.depth + 1
  BY <1>3, <1>4 DEF Sequential!Call, CallRecord
<1>7. Reached(new.cid) /\ new.cid # Root /\ new.depth # 0
  <2>1. Reached(new.cid)
    BY <1>4, <1>5, <1>6 DEF Reached
  <2>2. new.cid # Root
    <3>1. new.cid \in Children[Sequential!Top.cid]
      BY <1>4, <1>5, <1>6
    <3> QED
      BY <1>3, <3>1, LinkFacts DEF Children
  <2> QED
    BY <1>3, <1>6, <2>1, <2>2
<1> HIDE DEF new, rest
<1>8. /\ mid \in Seq(CallRecord) /\ Len(mid) = n
      /\ \A i \in 1..n :
           /\ mid[i].cid = stack[i].cid /\ mid[i].depth = stack[i].depth
           /\ mid[i].links = IF i = n THEN rest ELSE stack[i].links
  <2>1. mid = [stack EXCEPT ![Len(stack)].links = rest]
    OBVIOUS
  <2>2. stack \in Seq(CallRecord) /\ stack # <<>> /\ rest \in Seq(Cids)
    BY <1>3, <1>4
  <2> HIDE DEF mid, old
  <2> QED
    BY <2>1, <2>2, RelinkFacts
<1> HIDE DEF mid
<1>9. /\ stack' \in Seq(CallRecord) /\ Len(stack') = n + 1 /\ stack' # <<>>
      /\ stack'[n + 1] = new
      /\ \A i \in 1..n : stack'[i] = mid[i]
  BY <1>2, <1>6, <1>8, PushFacts
<1>10. Sequential!Top' = new
  BY <1>9 DEF Sequential!Top
<1>11. \A i \in 1..(n + 1) : i \in 1..n \/ i = n + 1
  BY <1>3
<1>12. Settled' = Settled
  BY <1>1 DEF Settled
<1>13. TypeOK'
  BY <1>1, SeqTypes DEF SeqInv, TypeOK
<1>14. StackInv'
  BY <1>1, <1>9 DEF SeqInv, StackInv, Alone
<1>15. CallInv'
  <2>1. ASSUME NEW i \in 1..n
        PROVE  /\ Reached(stack[i].cid)
               /\ stack'[i].cid = stack[i].cid
               /\ stack'[i].depth = 0 <=> stack'[i].cid = Root
               /\ stack'[i].cid = Root <=> i = 1
               /\ \A j \in 1..Len(stack'[i].links) :
                    /\ stack'[i].cid \in expanded
                    /\ stack'[i].links[j] \in Children[stack'[i].cid]
    <3>1. /\ stack'[i].cid = stack[i].cid /\ stack'[i].depth = stack[i].depth
          /\ stack'[i].links = IF i = n THEN rest ELSE stack[i].links
      BY <1>8, <1>9
    <3>2. /\ Reached(stack[i].cid)
          /\ stack[i].depth = 0 <=> stack[i].cid = Root
          /\ stack[i].cid = Root <=> i = 1
          /\ \A j \in 1..Len(stack[i].links) :
               /\ stack[i].cid \in expanded
               /\ stack[i].links[j] \in Children[stack[i].cid]
      BY DEF SeqInv, CallInv, Sound
    <3>3. CASE i = n
      <4>1. stack'[i].links = rest /\ stack[i].cid = Sequential!Top.cid
        BY <1>3, <3>1, <3>3
      <4>2. stack'[i].cid \in expanded
        BY <1>5, <3>1, <4>1
      <4>3. ASSUME NEW j \in 1..Len(rest)
            PROVE  rest[j] \in Children[stack[i].cid]
        <5>1. j + 1 \in 1..Len(old) /\ rest[j] = old[j + 1]
          BY <1>4
        <5> QED
          BY <1>5, <4>1, <5>1
      <4> QED
        BY <3>1, <3>2, <4>1, <4>2, <4>3
    <3>4. CASE i # n
      BY <3>1, <3>2, <3>4
    <3> QED
      BY <3>3, <3>4
  <2>2. n + 1 # 1
    BY <1>3
  <2>3. \A i \in 1..Len(stack') :
          /\ Reached(stack'[i].cid)
          /\ stack'[i].depth = 0 <=> stack'[i].cid = Root
          /\ stack'[i].cid = Root <=> i = 1
          /\ \A j \in 1..Len(stack'[i].links) :
               /\ stack'[i].cid \in expanded
               /\ stack'[i].links[j] \in Children[stack'[i].cid]
    BY <1>6, <1>7, <1>9, <1>11, <2>1, <2>2
  <2> QED
    BY <1>1, <1>6, <1>10, <2>3 DEF CallInv, Sound, Reached
<1>16. SeenInv'
  BY <1>1, <1>3, <1>9, AloneFacts DEF SeqInv, SeenInv
<1>17. OneInv'
  BY <1>1, <1>12 DEF SeqInv, OneInv, Walking
<1>18. OpenInv'
  <2> SUFFICES ASSUME NEW c \in Cids, Reached(c), Entering(c), c \notin entered,
                      c # new.cid
               PROVE  \E i \in 1..Len(stack') : Follows(c, i)'
    BY <1>1, <1>10, AloneFacts DEF OpenInv
  <2>1. PICK i \in 1..n : Follows(c, i)
    BY <1>1 DEF SeqInv, OpenInv, Walking
  <2>2. i \in 1..Len(stack') /\ stack'[i] = mid[i]
    BY <1>3, <1>9
  <2>3. PICK j \in 1..Len(stack[i].links) : stack[i].links[j] = c
    BY <2>1 DEF Follows
  <2>4. CASE i # n
    BY <1>8, <2>2, <2>3, <2>4 DEF Follows
  <2>5. CASE i = n
    <3>1. j \in 1..Len(old) /\ old[j] = c
      BY <1>3, <2>3, <2>5
    <3>2. j # 1
      BY <1>6, <3>1
    <3>3. j - 1 \in 1..Len(rest) /\ rest[j - 1] = c
      BY <1>4, <3>1, <3>2
    <3>4. stack'[i].links = rest
      BY <1>3, <1>8, <2>2, <2>5
    <3> QED
      BY <2>2, <3>3, <3>4 DEF Follows
  <2> QED
    BY <2>4, <2>5
<1> QED
  BY <1>1, <1>13, <1>14, <1>15, <1>16, <1>17, <1>18 DEF SeqInv

(* An error goes up the stack.                                             *)
LEMMA ErrorKeepsSeq ==
  ASSUME SeqInv, Alone, Sequential!ReturnError
  PROVE  /\ SeqInv'
         /\ at # "returned" /\ failed # {}
         /\ at' = "returned" => result' = "err"
         /\ at' # "returned" => result' = result
         /\ UNCHANGED <<cancelled, entered, expanded, skipped, failed>>
<1> DEFINE n == Len(stack)
<1>1. /\ at = "error" /\ stack' = SubSeq(stack, 1, n - 1)
      /\ n = 1 => at' = "returned" /\ result' = "err"
      /\ n # 1 => at' = "error" /\ result' = result
      /\ UNCHANGED <<seen, cancelled, entered, expanded, skipped, failed,
                     missing, reported>>
  BY DEF Sequential!ReturnError, Sequential!Pop, Sequential!callVars,
         Sequential!histVars
<1>2. stack \in Seq(CallRecord) /\ stack # <<>>
  BY <1>1 DEF SeqInv, StackInv
<1>3. /\ stack' \in Seq(CallRecord)
      /\ stack' = <<>> <=> n = 1
      /\ \A i \in 1..Len(stack') : stack'[i] = stack[i] /\ i \in 1..n
  BY <1>1, <1>2, PopFacts
<1>4. Settled' = Settled
  BY <1>1 DEF Settled
<1>5. result = "none"
  BY <1>1 DEF SeqInv, StackInv
<1>6. TypeOK'
  <2>1. result' \in {"none", "nil", "err"}
    BY <1>1, <1>5
  <2> QED
    BY <1>1, <2>1, SeqTypes DEF SeqInv, TypeOK
<1>7. StackInv'
  BY <1>1, <1>3, <1>5 DEF SeqInv, StackInv, Alone
<1>8. CallInv'
  <2>1. ASSUME NEW i \in 1..Len(stack')
        PROVE  /\ Reached(stack'[i].cid)
               /\ stack'[i].depth = 0 <=> stack'[i].cid = Root
               /\ stack'[i].cid = Root <=> i = 1
               /\ \A j \in 1..Len(stack'[i].links) :
                    /\ stack'[i].cid \in expanded
                    /\ stack'[i].links[j] \in Children[stack'[i].cid]
    <3>1. stack'[i] = stack[i] /\ i \in 1..Len(stack)
      BY <1>3
    <3> QED
      BY <3>1 DEF SeqInv, CallInv, Sound
  <2> QED
    BY <1>1, <2>1 DEF CallInv, Sound, Reached
<1>9. SeenInv'
  BY <1>1, AloneFacts DEF SeqInv, SeenInv
<1>10. OneInv' /\ failed # {}
  BY <1>1, <1>4 DEF SeqInv, OneInv, Walking
<1>11. OpenInv'
  BY <1>1 DEF OpenInv, Walking
<1> QED
  BY <1>1, <1>6, <1>7, <1>8, <1>9, <1>10, <1>11 DEF SeqInv

(* Nothing but the caller's cancellation happens.                          *)
LEMMA IdleKeepsSeq ==
  ASSUME SeqInv, Alone, cancelled' \in BOOLEAN,
         UNCHANGED <<stack, at, result, seen, entered, expanded, skipped,
                     failed, missing, reported>>
  PROVE  SeqInv'
<1>1. Settled' = Settled /\ Sequential!Top' = Sequential!Top
  BY DEF Settled, Sequential!Top
<1>2. TypeOK'
  BY DEF SeqInv, TypeOK, Alone
<1>3. StackInv' /\ SeenInv'
  BY AloneFacts DEF SeqInv, StackInv, SeenInv, Alone
<1>4. CallInv'
  BY <1>1, AloneFacts DEF SeqInv, CallInv, Sound
<1>5. OneInv'
  BY <1>1 DEF SeqInv, OneInv, Walking
<1>6. OpenInv'
  BY <1>1, AloneFacts DEF SeqInv, OpenInv, Walking, Follows
<1> QED
  BY <1>2, <1>3, <1>4, <1>5, <1>6 DEF SeqInv

(* A step of the sequential walk, and what it is of a graph walk.          *)
SeqStep == (Sequential!Next /\ UNCHANGED parVars) \/ UNCHANGED depthVars

LEMMA StepIsAlone ==
  ASSUME ~Parallel, SeqStep
  PROVE  Alone
<1>1. ASSUME UNCHANGED parVars PROVE Alone \/ options' # options
  BY <1>1 DEF parVars, workerVars, Alone
<1>2. ASSUME Sequential!Next PROVE options' = options
  BY <1>2 DEF Sequential!Next, Sequential!Step, Sequential!Visit,
              Sequential!FetchLinks, Sequential!FetchFails,
              Sequential!FollowLink, Sequential!NoLinkLeft,
              Sequential!ReturnError, Sequential!Cancel,
              Sequential!Terminated, Sequential!vars, Sequential!callVars
<1>3. ASSUME UNCHANGED depthVars PROVE Alone
  BY <1>3 DEF depthVars, vars, mainVars, workerVars, visitVars, callVars, Alone
<1> QED
  BY <1>1, <1>2, <1>3 DEF SeqStep

(* The walk returns nil when the outermost call does.                      *)
LEMMA NilIsReturn ==
  ASSUME main = "returned", main' = "returned", result = "none",
         UNCHANGED <<options, cancelled, entered, expanded, skipped, failed>>,
         at' = "returned" =>
           /\ result' = "nil"
           /\ entered \subseteq Settled /\ failed = {}
           /\ \A c \in Cids : Reached(c) /\ Entering(c) => c \in entered,
         at' # "returned" => result' = result
  PROVE  [Walk!Next]_Walk!vars
<1>1. CASE at' = "returned"
  <2>1. Walk!Pending = {}
    BY <1>1, MappingFacts
  <2>2. Walk!Closed
    BY <1>1, <2>1, MappingFacts DEF Walk!Closed
  <2>3. Walk!Return
    BY <1>1, <2>2 DEF Walk!Return, AsCall
  <2> QED
    BY <2>3 DEF Walk!Next
<1>2. CASE at' # "returned"
  BY <1>2 DEF Walk!vars, AsCall
<1> QED
  BY <1>1, <1>2

(* visit is called: the node is entered, or the call returns.              *)
LEMMA VisitSteps ==
  ASSUME SeqInv, Alone, Sequential!Visit
  PROVE  SeqInv' /\ [Walk!Next]_Walk!vars
<1> DEFINE t == Sequential!Top.cid
<1>1. at = "visit" /\ at # "returned"
      /\ UNCHANGED <<cancelled, expanded, skipped, failed, missing, reported>>
  BY DEF Sequential!Visit, Sequential!callVars
<1>2. t \in Cids /\ Sequential!Top.links = <<>>
  BY <1>1, TopFacts DEF SeqInv, CallInv
<1>3. main = "returned" /\ main' = "returned" /\ options' = options
      /\ result = "none"
  BY <1>1 DEF SeqInv, StackInv, Alone
<1>4. CASE Sequential!Visit /\ at' = "fetch" /\ entered' = entered \cup {t}
  <2>1. /\ UNCHANGED <<stack, result>>
        /\ \/ Sequential!Skips(Sequential!Top) /\ seen' = seen
           \/ /\ ~Sequential!Skips(Sequential!Top)
              /\ t \notin seen
              /\ seen' = seen \cup {t}
    BY <1>4 DEF Sequential!Visit, Sequential!ReturnNil, Sequential!SeenAfter
  <2>2. SeqInv' /\ t \notin entered
    BY <1>1, <1>4, <2>1, EnterKeepsSeq
  <2>3. Reached(t)
    BY <1>1, TopFacts DEF Sound
  <2>4. Entering(t)
    <3>1. CASE Sequential!Skips(Sequential!Top)
      <4>1. SkipRoot /\ t = Root
        BY <1>1, <3>1, TopFacts, SameOptions DEF Sequential!Skips, Sound
      <4> QED
        BY <4>1 DEF Entering
    <3>2. CASE t \notin seen
      BY <3>2 DEF SeqInv, SeenInv, Entering
    <3> QED
      BY <2>1, <3>1, <3>2
  <2> HIDE DEF t
  <2>5. Walk!Enter(t)
    BY <1>1, <1>3, <1>4, <2>1, <2>2, <2>3, <2>4, MappingFacts
    DEF Walk!Enter, AsCall
  <2> QED
    BY <1>2, <2>2, <2>5 DEF Walk!Next, t
<1>5. CASE /\ ~Sequential!Skips(Sequential!Top) /\ t \in seen
           /\ Sequential!ReturnNil
           /\ UNCHANGED <<seen, order, entered>>
  <2>1. /\ SeqInv'
        /\ at' = "returned" =>
             /\ result' = "nil"
             /\ entered \subseteq Settled /\ failed = {}
             /\ \A c \in Cids : Reached(c) /\ Entering(c) => c \in entered
    BY <1>1, <1>2, <1>5, ReturnKeepsSeq
  <2>2. at' # "returned" => result' = result
    BY <1>5 DEF Sequential!ReturnNil
  <2> QED
    BY <1>1, <1>3, <1>5, <2>1, <2>2, NilIsReturn
<1> QED
  BY <1>1, <1>4, <1>5 DEF Sequential!Visit

LEMMA FetchSteps ==
  ASSUME SeqInv, Alone, Sequential!FetchLinks \/ Sequential!FetchFails
  PROVE  SeqInv' /\ [Walk!Next]_Walk!vars
<1> DEFINE t == Sequential!Top.cid
<1>1. CASE Sequential!FetchLinks
  <2>1. /\ SeqInv' /\ at # "returned" /\ result' = result
        /\ t \in Cids /\ t \in entered \ Settled
    BY <1>1, FetchKeepsSeq
  <2>2. /\ expanded' = expanded \cup {t}
        /\ UNCHANGED <<cancelled, entered, skipped, failed>>
    BY <1>1 DEF Sequential!FetchLinks, Sequential!callVars
  <2>3. main = "returned" /\ main' = "returned" /\ options' = options
        /\ result = "none"
    BY <2>1 DEF SeqInv, StackInv, Alone
  <2> HIDE DEF t
  <2>4. Walk!Expand(t)
    BY <2>1, <2>2, <2>3, MappingFacts DEF Walk!Expand, AsCall
  <2> QED
    BY <2>1, <2>4 DEF Walk!Next
<1>2. CASE Sequential!FetchFails
  <2>1. /\ SeqInv' /\ at # "returned" /\ result' = result
        /\ UNCHANGED <<cancelled, entered, expanded>>
        /\ t \in Cids /\ t \in entered \ Settled
    BY <1>2, FailKeepsSeq
  <2>2. \/ /\ Handlers # <<>> /\ failed' = failed
           /\ skipped' = skipped \cup {t}
        \/ skipped' = skipped /\ failed' = failed \cup {t}
        \/ skipped' = skipped /\ failed' = failed
    BY <1>2, FailKeepsSeq
  <2>3. main = "returned" /\ main' = "returned" /\ options' = options
        /\ result = "none"
    BY <2>1 DEF SeqInv, StackInv, Alone
  <2> HIDE DEF t
  <2>4. CASE /\ Handlers # <<>> /\ failed' = failed
             /\ skipped' = skipped \cup {t}
    <3>1. Walk!Skip(t)
      BY <2>1, <2>3, <2>4, MappingFacts DEF Walk!Skip, AsCall
    <3> QED
      BY <2>1, <3>1 DEF Walk!Next
  <2>5. CASE skipped' = skipped /\ failed' = failed \cup {t}
    <3>1. Walk!Fail(t)
      BY <2>1, <2>3, <2>5, MappingFacts DEF Walk!Fail, AsCall
    <3> QED
      BY <2>1, <3>1 DEF Walk!Next
  <2>6. CASE skipped' = skipped /\ failed' = failed
    BY <2>1, <2>3, <2>6 DEF Walk!vars, AsCall
  <2> QED
    BY <2>1, <2>2, <2>4, <2>5, <2>6
<1> QED
  BY <1>1, <1>2

(* A node has no link left: its call returns.                              *)
LEMMA NoLinkSteps ==
  ASSUME SeqInv, Alone, Sequential!NoLinkLeft
  PROVE  SeqInv' /\ [Walk!Next]_Walk!vars
<1>1. /\ at = "links" /\ Sequential!Top.links = <<>> /\ Sequential!ReturnNil
      /\ UNCHANGED <<seen, cancelled, entered, expanded, skipped, failed,
                     missing, reported>>
  BY DEF Sequential!NoLinkLeft, Sequential!callVars, Sequential!histVars
<1>2. main = "returned" /\ main' = "returned" /\ options' = options
      /\ result = "none"
  BY <1>1 DEF SeqInv, StackInv, Alone
<1>3. /\ SeqInv'
      /\ at' = "returned" =>
           /\ result' = "nil"
           /\ entered \subseteq Settled /\ failed = {}
           /\ \A c \in Cids : Reached(c) /\ Entering(c) => c \in entered
  BY <1>1, ReturnKeepsSeq
<1>4. at' # "returned" => result' = result
  BY <1>1 DEF Sequential!ReturnNil
<1> QED
  BY <1>1, <1>2, <1>3, <1>4, NilIsReturn

LEMMA FollowSteps ==
  ASSUME SeqInv, Alone, Sequential!FollowLink
  PROVE  SeqInv' /\ [Walk!Next]_Walk!vars
<1>1. /\ SeqInv'
      /\ UNCHANGED <<result, cancelled, entered, expanded, skipped, failed>>
  BY FollowKeepsSeq
<1>2. main' = main /\ options' = options
  BY DEF Alone
<1> QED
  BY <1>1, <1>2 DEF Walk!vars, AsCall

(* An error that has gone up the whole stack has a failed node behind it.  *)
LEMMA ErrorSteps ==
  ASSUME SeqInv, Alone, Sequential!ReturnError
  PROVE  SeqInv' /\ [Walk!Next]_Walk!vars
<1>1. /\ SeqInv' /\ at # "returned" /\ failed # {}
      /\ at' = "returned" => result' = "err"
      /\ at' # "returned" => result' = result
      /\ UNCHANGED <<cancelled, entered, expanded, skipped, failed>>
  BY ErrorKeepsSeq
<1>2. main = "returned" /\ main' = "returned" /\ options' = options
      /\ result = "none"
  BY <1>1 DEF SeqInv, StackInv, Alone
<1>3. CASE at' = "returned"
  <2>1. Walk!Return
    BY <1>1, <1>2, <1>3 DEF Walk!Return, AsCall
  <2> QED
    BY <1>1, <2>1 DEF Walk!Next
<1>4. CASE at' # "returned"
  BY <1>1, <1>2, <1>4 DEF Walk!vars, AsCall
<1> QED
  BY <1>3, <1>4

LEMMA SequentialSteps ==
  ASSUME SeqInv, ~Parallel, SeqStep
  PROVE  SeqInv' /\ ~Parallel' /\ [Walk!Next]_Walk!vars
<1>1. Alone
  BY StepIsAlone
<1>2. ~Parallel' /\ main' = main /\ options' = options
  BY <1>1, AloneFacts DEF Alone
<1>3. CASE Sequential!Step
  <2>1. CASE Sequential!Visit
    BY <1>1, <1>2, <2>1, VisitSteps
  <2>2. CASE Sequential!FetchLinks \/ Sequential!FetchFails
    BY <1>1, <1>2, <2>2, FetchSteps
  <2>3. CASE Sequential!FollowLink
    BY <1>1, <1>2, <2>3, FollowSteps
  <2>4. CASE Sequential!NoLinkLeft
    BY <1>1, <1>2, <2>4, NoLinkSteps
  <2>5. CASE Sequential!ReturnError
    BY <1>1, <1>2, <2>5, ErrorSteps
  <2> QED
    BY <1>3, <2>1, <2>2, <2>3, <2>4, <2>5 DEF Sequential!Step
<1>4. CASE Sequential!Cancel
  <2>1. /\ cancelled' = TRUE
        /\ UNCHANGED <<stack, at, result, seen, entered, expanded, skipped,
                       failed, missing, reported>>
    BY <1>4 DEF Sequential!Cancel, Sequential!histVars
  <2>2. SeqInv'
    BY <1>1, <2>1, IdleKeepsSeq
  <2>3. Walk!Cancel
    BY <1>2, <2>1 DEF Walk!Cancel, AsCall
  <2>4. Walk!Next
    BY <2>3 DEF Walk!Next
  <2> QED
    BY <1>2, <2>2, <2>4
<1>5. CASE Sequential!Terminated \/ UNCHANGED depthVars
  <2>1. UNCHANGED <<stack, at, result, seen, cancelled, entered, expanded,
                    skipped, failed, missing, reported>>
    BY <1>5 DEF Sequential!Terminated, Sequential!vars, Sequential!callVars,
                Sequential!histVars, depthVars, vars, mainVars, visitVars,
                callVars, histVars, seqVars
  <2>2. cancelled' \in BOOLEAN
    BY <2>1 DEF SeqInv, TypeOK
  <2>3. SeqInv'
    BY <1>1, <2>1, <2>2, IdleKeepsSeq
  <2> QED
    BY <1>2, <2>1, <2>3 DEF Walk!vars, AsCall
<1> QED
  BY <1>2, <1>3, <1>4, <1>5 DEF SeqStep, Sequential!Next
-----------------------------------------------------------------------------
(* WalkDepth, whichever walk it calls.                                     *)
LEMMA InitDepthInv == DepthInit => DepthInv /\ Walk!Init
<1>1. ASSUME Init PROVE IInv /\ Parallel /\ Walk!Init
  <2>1. Parallel /\ Walk!Init
    BY <1>1 DEF Init, Walk!Init
  <2> QED
    BY <1>1, <2>1, InitIInv
<1>2. ASSUME /\ Sequential!Init
             /\ main = "returned" /\ queue = <<>> /\ inProgress = 0 /\ lk = Nil
             /\ pc = [w \in Workers |-> "ended"]
             /\ item = [w \in Workers |-> [cid |-> Root, depth |-> 0]]
             /\ links = [w \in Workers |-> <<>>]
             /\ fresh = [w \in Workers |-> FALSE]
      PROVE  SeqInv /\ ~Parallel /\ Walk!Init
  <2> DEFINE call == Sequential!Call(Root, 0)
  <2>1. /\ options \in Options /\ ~Parallel
        /\ stack = <<call>> /\ at = "visit" /\ result = "none"
        /\ seen = Before /\ cancelled = FALSE
        /\ entered = {} /\ expanded = {} /\ skipped = {} /\ failed = {}
        /\ missing = {} /\ reported = {}
    BY <1>2, SameOptions DEF Sequential!Init
  <2>2. /\ call \in CallRecord /\ call.cid = Root /\ call.depth = 0
        /\ call.links = <<>>
    BY WalkAssumption DEF Sequential!Call, CallRecord
  <2> HIDE DEF call
  <2>3. /\ stack \in Seq(CallRecord) /\ Len(stack) = 1 /\ stack[1] = call
        /\ stack # <<>> /\ Sequential!Top = call
    BY <2>1, <2>2 DEF Sequential!Top
  <2>4. TypeOK
    <3>1. Before \subseteq Cids
      BY <2>1, OptionFacts
    <3>2. queue \in Seq(Item) /\ inProgress \in Nat
      BY <1>2
    <3>3. pc \in [Workers -> Places] /\ fresh \in [Workers -> BOOLEAN]
      BY <1>2 DEF Places
    <3>4. item \in [Workers -> Item] /\ links \in [Workers -> Seq(Cids)]
      BY <1>2, WalkAssumption DEF Item
    <3> QED
      BY <1>2, <2>1, <3>1, <3>2, <3>3, <3>4 DEF TypeOK
  <2>5. StackInv
    BY <1>2, <2>1, <2>3 DEF StackInv
  <2>6. CallInv
    <3>1. ASSUME NEW i \in 1..Len(stack)
          PROVE  i = 1 /\ Len(stack[i].links) = 0
      BY <2>2, <2>3
    <3> QED
      BY <2>2, <2>3, <3>1 DEF CallInv, Sound, Reached
  <2>7. SeenInv /\ OneInv
    BY <2>1 DEF SeenInv, OneInv, Settled, Walking
  <2>8. OpenInv
    BY <2>1, <2>2, <2>3 DEF OpenInv, Reached
  <2>9. Walk!Init
    BY <1>2, <2>1 DEF Walk!Init
  <2> QED
    BY <2>1, <2>4, <2>5, <2>6, <2>7, <2>8, <2>9 DEF SeqInv
<1> QED
  BY <1>1, <1>2 DEF DepthInit, DepthInv

LEMMA OptionsStay ==
  ASSUME Next
  PROVE  options' = options
BY DEF Next, Running, Main, Receive, Work, Terminated, Send, ReceiveLinks,
       ReceiveDone, ReceiveErr, SeeCancel, MainReturn, Lock, Visit, FetchLinks,
       FetchFails, GiveUp, End, Cancel, vars, callVars

LEMMA StepKeepsDepthInv ==
  ASSUME DepthInv, [DepthNext]_depthVars
  PROVE  DepthInv' /\ [Walk!Next]_Walk!vars
<1>1. CASE Parallel
  <2>1. Next \/ UNCHANGED vars
    BY <1>1 DEF DepthNext, depthVars
  <2>2. options' = options
    BY <2>1, OptionsStay DEF vars, callVars
  <2>3. IInv' /\ [Walk!Next]_Walk!vars
    BY <1>1, <2>1, StepKeepsIInv, StepRefines DEF DepthInv
  <2>4. Parallel'
    BY <1>1, <2>2 DEF Parallel
  <2> QED
    BY <2>3, <2>4 DEF DepthInv
<1>2. CASE ~Parallel
  <2>1. SeqStep
    BY <1>2 DEF DepthNext, SeqStep
  <2>2. SeqInv' /\ ~Parallel' /\ [Walk!Next]_Walk!vars
    BY <1>2, <2>1, SequentialSteps DEF DepthInv
  <2> QED
    BY <2>2 DEF DepthInv
<1> QED
  BY <1>1, <1>2

(* DepthInv is an invariant of every instance.                             *)
THEOREM DepthInvInvariant == DepthSpec => []DepthInv
<1>1. DepthInit => DepthInv
  BY InitDepthInv
<1>2. DepthInv /\ [DepthNext]_depthVars => DepthInv'
  BY StepKeepsDepthInv
<1> QED
  BY <1>1, <1>2, PTL DEF DepthSpec

(* No node is fetched twice, nor visit called by two workers at a time     *)
(* (w3s/car.go:64, 208-212), in every instance.                            *)
THEOREM NodesAreFetchedOnce == DepthSpec => []FetchedOnce
<1>1. IInv => FetchedOnce
  BY DEF IInv, VisitInv, FetchInv, FetchedOnce
<1>2. SeqInv => FetchedOnce
  BY DEF SeqInv, StackInv, FetchedOnce
<1>3. DepthInv => FetchedOnce
  BY <1>1, <1>2 DEF DepthInv
<1> QED
  BY <1>3, DepthInvInvariant, PTL

(* The count of main is right (w3s/car.go:174-271), in every instance.     *)
THEOREM CountIsKept == DepthSpec => []WalkInv
<1>1. IInv => WalkInv
  BY DEF IInv, WalkInv
<1>2. SeqInv => WalkInv
  BY DEF SeqInv, StackInv, WalkInv, CountIsRight
<1>3. DepthInv => WalkInv
  BY <1>1, <1>2 DEF DepthInv
<1> QED
  BY <1>3, DepthInvInvariant, PTL

(* Whichever Concurrency WalkDepth is given, its walk is a graph walk      *)
(* (w3s/car.go:138-293), in every instance: it enters a node once and only *)
(* where it has been led, reports success only when it has reached         *)
(* everything, and does nothing more after it has returned.                *)
THEOREM WalksAreGraphWalks == DepthSpec => ImplementsWalk
<1>1. DepthInit => Walk!Init
  BY InitDepthInv
<1>2. DepthInv /\ [DepthNext]_depthVars => [Walk!Next]_Walk!vars
  BY StepKeepsDepthInv
<1> QED
  BY <1>1, <1>2, DepthInvInvariant, PTL
  DEF DepthSpec, ImplementsWalk, Walk!Spec
-----------------------------------------------------------------------------
(* The order of the sequential walk (w3s/car.go:125-170).  First, that the *)
(* recursion of ToFollow has the solution it defines.                      *)

(* A nonempty set of naturals has a least element.                         *)
LEMMA NatHasLeast ==
  ASSUME NEW T \in SUBSET Nat, T # {}
  PROVE  \E m \in T : \A k \in T : m <= k
<1>1. PICK m \in T : \A k \in T : ~(<<k, m>> \in OpToRel(<, Nat))
  <2>1. IsWellFoundedOn(OpToRel(<, Nat), Nat)
    BY NatLessThanWellFounded
  <2> QED
    BY <2>1, WFMin
<1>2. \A k \in T : ~(k < m)
  BY <1>1 DEF OpToRel
<1> QED
  BY <1>2

(* The links of the first n calls, the last of them first, for n up to k.  *)
LinksUpTo(calls, k, f) ==
  f = [n \in 0..k |-> IF n = 0 THEN <<>> ELSE calls[n].links \o f[n - 1]]

LEMMA LinksUpToExist ==
  ASSUME NEW calls
  PROVE  \A k \in Nat : \E f : LinksUpTo(calls, k, f)
<1> DEFINE Fails == {k \in Nat : ~ \E f : LinksUpTo(calls, k, f)}
<1>1. SUFFICES ASSUME Fails # {} PROVE FALSE
  OBVIOUS
<1>2. PICK m \in Fails : \A k \in Fails : m <= k
  BY <1>1, NatHasLeast
<1>3. m # 0
  <2>1. LinksUpTo(calls, 0, [n \in 0..0 |-> <<>>])
    BY DEF LinksUpTo
  <2> QED
    BY <2>1
<1>4. PICK f : LinksUpTo(calls, m - 1, f)
  BY <1>2, <1>3
<1> DEFINE g == [n \in 0..m |-> IF n = m THEN calls[m].links \o f[m - 1]
                                         ELSE f[n]]
<1>5. \A n \in 0..m : g[n] = IF n = 0 THEN <<>>
                                      ELSE calls[n].links \o g[n - 1]
  <2> SUFFICES ASSUME NEW n \in 0..m
               PROVE  g[n] = IF n = 0 THEN <<>>
                                      ELSE calls[n].links \o g[n - 1]
    OBVIOUS
  <2>1. CASE n = m
    <3>1. n - 1 \in 0..m /\ n - 1 # m /\ n # 0
      BY <1>3, <2>1
    <3>2. g[n - 1] = f[m - 1]
      BY <3>1, <2>1
    <3> QED
      BY <3>1, <3>2, <2>1
  <2>2. CASE n # m
    <3>1. n \in 0..(m - 1)
      BY <2>2
    <3>2. g[n] = f[n]
      BY <2>2
    <3>3. f[n] = IF n = 0 THEN <<>> ELSE calls[n].links \o f[n - 1]
      BY <1>4, <3>1 DEF LinksUpTo
    <3>4. n # 0 => g[n - 1] = f[n - 1]
      BY <3>1
    <3> QED
      BY <3>2, <3>3, <3>4
  <2> QED
    BY <2>1, <2>2
<1>6. LinksUpTo(calls, m, g)
  <2>1. g = [n \in 0..m |-> g[n]]
    OBVIOUS
  <2> HIDE DEF g
  <2> QED
    BY <2>1, <1>5 DEF LinksUpTo
<1> QED
  BY <1>6

LEMMA ToFollowDef ==
  ASSUME NEW s \in Seq(CallRecord)
  PROVE  \E f : LinksUpTo(s, Len(s), f) /\ ToFollow(s) = f[Len(s)]
<1>1. Len(s) \in Nat
  OBVIOUS
<1> DEFINE after[n \in 0..Len(s)] ==
             IF n = 0 THEN <<>> ELSE s[n].links \o after[n - 1]
<1>2. PICK f : LinksUpTo(s, Len(s), f)
  BY <1>1, LinksUpToExist
<1>3. LinksUpTo(s, Len(s), after)
  BY <1>2 DEF LinksUpTo
<1>4. ToFollow(s) = after[Len(s)]
  BY DEF ToFollow
<1> HIDE DEF after
<1> QED
  BY <1>3, <1>4

(* The first m calls of two stacks have the same links to follow.          *)
SameLinks(s, t, m) == \A i \in 1..m : s[i].links = t[i].links

(* What it means: the links of the innermost call come first, then those   *)
(* of the calls below it.                                                  *)
LEMMA ToFollowTop ==
  ASSUME NEW s \in Seq(CallRecord), NEW t \in Seq(CallRecord),
         Len(s) = Len(t) + 1, SameLinks(s, t, Len(t))
  PROVE  ToFollow(s) = s[Len(s)].links \o ToFollow(t)
<1> DEFINE k == Len(s)
           m == Len(t)
<1>1. k \in Nat /\ m \in Nat /\ k = m + 1
  OBVIOUS
<1>2. PICK f : LinksUpTo(s, k, f) /\ ToFollow(s) = f[k]
  BY ToFollowDef
<1>3. PICK g : LinksUpTo(t, m, g) /\ ToFollow(t) = g[m]
  BY ToFollowDef
<1>4. SameLinks(s, t, m)
  OBVIOUS
<1>5. /\ \A n \in 0..k :
           f[n] = IF n = 0 THEN <<>> ELSE s[n].links \o f[n - 1]
      /\ \A n \in 0..m :
           g[n] = IF n = 0 THEN <<>> ELSE t[n].links \o g[n - 1]
  BY <1>2, <1>3 DEF LinksUpTo
<1> HIDE DEF k, m
<1>6. m <= k /\ k \in 0..k /\ k # 0 /\ k - 1 = m /\ m \in 0..m
  BY <1>1
<1>7. \A n \in 0..m : f[n] = g[n]
  <2> DEFINE Fails == {n \in 0..m : f[n] # g[n]}
  <2>1. SUFFICES ASSUME Fails # {} PROVE FALSE
    OBVIOUS
  <2>2. PICK n \in Fails : \A j \in Fails : n <= j
    <3>1. Fails \in SUBSET Nat
      BY <1>1
    <3> QED
      BY <2>1, <3>1, NatHasLeast
  <2>3. n \in 0..m /\ n \in 0..k /\ f[n] # g[n]
    BY <1>1, <2>2
  <2>4. /\ f[n] = IF n = 0 THEN <<>> ELSE s[n].links \o f[n - 1]
        /\ g[n] = IF n = 0 THEN <<>> ELSE t[n].links \o g[n - 1]
    BY <1>5, <2>3
  <2>5. n # 0
    BY <2>3, <2>4
  <2>6. n - 1 \in 0..m /\ n \in 1..m /\ ~(n <= n - 1)
    BY <1>1, <2>3, <2>5
  <2>7. f[n - 1] = g[n - 1]
    BY <2>2, <2>6
  <2>8. s[n].links = t[n].links
    BY <1>4, <2>6 DEF SameLinks
  <2> QED
    BY <2>3, <2>4, <2>5, <2>7, <2>8
<1>8. f[k] = s[k].links \o f[k - 1]
  BY <1>5, <1>6
<1>9. f[k - 1] = g[m]
  BY <1>6, <1>7
<1> QED
  BY <1>2, <1>3, <1>8, <1>9 DEF k

(* An empty stack has nothing to follow.                                   *)
LEMMA ToFollowEmpty == ToFollow(<<>>) = <<>>
<1>1. <<>> \in Seq(CallRecord) /\ Len(<<>>) = 0
  OBVIOUS
<1>2. PICK f : LinksUpTo(<<>>, Len(<<>>), f) /\ ToFollow(<<>>) = f[Len(<<>>)]
  BY <1>1, ToFollowDef
<1>3. f[0] = <<>>
  BY <1>1, <1>2 DEF LinksUpTo
<1> QED
  BY <1>1, <1>2, <1>3

LEMMA ToFollowType ==
  ASSUME NEW s \in Seq(CallRecord)
  PROVE  ToFollow(s) \in Seq(Cids)
<1>1. Len(s) \in Nat
  OBVIOUS
<1>2. PICK f : LinksUpTo(s, Len(s), f) /\ ToFollow(s) = f[Len(s)]
  BY ToFollowDef
<1> DEFINE Fails == {n \in 0..Len(s) : f[n] \notin Seq(Cids)}
<1>3. ASSUME Fails # {} PROVE FALSE
  <2>1. PICK n \in Fails : \A j \in Fails : n <= j
    <3>1. Fails \in SUBSET Nat
      OBVIOUS
    <3> QED
      BY <1>3, <3>1, NatHasLeast
  <2>2. n \in 0..Len(s) /\ f[n] \notin Seq(Cids)
    BY <2>1
  <2>3. f[n] = IF n = 0 THEN <<>> ELSE s[n].links \o f[n - 1]
    BY <1>2, <2>2 DEF LinksUpTo
  <2>4. n # 0
    BY <2>2, <2>3
  <2>5. n - 1 \in 0..Len(s) /\ n \in 1..Len(s) /\ ~(n <= n - 1)
    BY <1>1, <2>2, <2>4
  <2>6. f[n - 1] \in Seq(Cids)
    BY <2>1, <2>5
  <2>7. s[n] \in CallRecord
    BY <2>5
  <2>8. s[n].links \in Seq(Cids)
    BY <2>7 DEF CallRecord
  <2> QED
    BY <2>2, <2>3, <2>4, <2>6, <2>8
<1>4. Len(s) \in 0..Len(s)
  BY <1>1
<1> QED
  BY <1>2, <1>3, <1>4

LEMMA ListFacts ==
  ASSUME NEW c \in Cids, NEW s \in Seq(Cids), NEW l \in Seq(Cids)
  PROVE  /\ <<>> \o s = s
         /\ <<c>> \o s \in Seq(Cids) /\ <<c>> \o s # <<>>
         /\ Head(<<c>> \o s) = c /\ Tail(<<c>> \o s) = s
         /\ s # <<>> => <<Head(s)>> \o (Tail(s) \o l) = s \o l
<1> DEFINE cs == <<c>> \o s
<1>1. /\ <<>> \o s \in Seq(Cids) /\ Len(<<>> \o s) = Len(s)
      /\ \A i \in 1..Len(s) : (<<>> \o s)[i] = s[i]
  OBVIOUS
<1>2. <<>> \o s = s
  BY <1>1, SeqEqual
<1>3. /\ cs \in Seq(Cids) /\ Len(cs) = Len(s) + 1 /\ cs[1] = c
      /\ \A i \in 1..Len(s) : cs[i + 1] = s[i]
  OBVIOUS
<1>4. Len(s) \in Nat
  OBVIOUS
<1>5. cs # <<>> /\ Head(cs) = c
  BY <1>3, <1>4
<1> HIDE DEF cs
<1>6. /\ Tail(cs) \in Seq(Cids) /\ Len(Tail(cs)) = Len(s)
      /\ \A i \in 1..Len(s) : Tail(cs)[i] = s[i]
  BY <1>3, <1>4, <1>5
<1>7. Tail(cs) = s
  BY <1>6, SeqEqual
<1>8. ASSUME s # <<>> PROVE <<Head(s)>> \o (Tail(s) \o l) = s \o l
  <2> DEFINE t == Tail(s) \o l
             a == <<Head(s)>> \o t
             b == s \o l
  <2>1. /\ Head(s) \in Cids /\ Head(s) = s[1] /\ Tail(s) \in Seq(Cids)
        /\ Len(Tail(s)) = Len(s) - 1 /\ Len(l) \in Nat
        /\ \A i \in 1..(Len(s) - 1) : Tail(s)[i] = s[i + 1]
    BY <1>4, <1>8
  <2>2. /\ t \in Seq(Cids) /\ Len(t) = Len(s) - 1 + Len(l)
        /\ \A i \in 1..Len(t) :
             t[i] = IF i < Len(s) THEN s[i + 1] ELSE l[i - (Len(s) - 1)]
    BY <1>4, <2>1
  <2>3. /\ b \in Seq(Cids) /\ Len(b) = Len(s) + Len(l)
        /\ \A i \in 1..Len(b) :
             b[i] = IF i <= Len(s) THEN s[i] ELSE l[i - Len(s)]
    BY <1>4, <2>1
  <2> HIDE DEF t, b
  <2>4. /\ a \in Seq(Cids) /\ Len(a) = Len(t) + 1 /\ a[1] = s[1]
        /\ \A i \in 1..Len(t) : a[i + 1] = t[i]
    BY <2>1, <2>2
  <2> HIDE DEF a
  <2>5. ASSUME NEW i \in 1..Len(a) PROVE a[i] = b[i]
    <3>1. Len(s) >= 1
      BY <1>4, <1>8
    <3>2. CASE i = 1
      BY <1>4, <2>1, <2>2, <2>3, <2>4, <3>1, <3>2
    <3>3. CASE i # 1
      <4>1. /\ i - 1 \in 1..Len(t) /\ i = (i - 1) + 1 /\ i \in 1..Len(b)
            /\ Len(s) \in Nat /\ i \in Nat
        BY <1>4, <2>1, <2>2, <2>3, <2>4, <3>3
      <4>2. a[i] = t[i - 1]
        BY <2>4, <4>1
      <4>3. /\ t[i - 1] = IF i - 1 < Len(s) THEN s[(i - 1) + 1]
                          ELSE l[(i - 1) - (Len(s) - 1)]
            /\ b[i] = IF i <= Len(s) THEN s[i] ELSE l[i - Len(s)]
        BY <2>2, <2>3, <4>1
      <4>4. /\ i - 1 < Len(s) <=> i <= Len(s)
            /\ (i - 1) + 1 = i /\ (i - 1) - (Len(s) - 1) = i - Len(s)
        BY <4>1
      <4> QED
        BY <4>2, <4>3, <4>4
    <3> QED
      BY <3>2, <3>3
  <2>6. Len(a) = Len(b)
    BY <1>4, <2>1, <2>2, <2>3, <2>4
  <2>7. a = b
    BY <2>3, <2>4, <2>5, <2>6, SeqEqual
  <2> QED
    BY <2>7 DEF a, b, t
<1> QED
  BY <1>2, <1>3, <1>5, <1>7, <1>8 DEF cs
-----------------------------------------------------------------------------
(* What DepthFirst sees of the sequential walk.                            *)
TodoNow ==
  IF GivesUp THEN <<>>
  ELSE (IF at = "visit" THEN <<Sequential!Top.cid>> ELSE <<>>)
         \o ToFollow(stack)

OpenNow == IF at = "fetch" THEN {Sequential!Top.cid} ELSE {}

ResultNow == IF GivesUp THEN "err" ELSE result

(* What was visited is what visit has seen since the walk began.           *)
OrderInv ==
  /\ order \in Seq(Cids)
  /\ \A c \in Cids :
       c \in seen <=> c \in Before \/ \E i \in 1..Len(order) : order[i] = c

LEMMA DepthParts ==
  /\ Depth!vars = <<AsCall(options), TodoNow, OpenNow, order, ResultNow>>
  /\ \A c : Depth!Unvisited(c) <=> SkipRoot /\ c = Root
  /\ \A c : Depth!Met(c) <=>
              c \in Before \/ \E i \in 1..Len(order) : order[i] = c
  /\ AsCall(options).lenient <=> Handlers # <<>>
BY DEF Depth!vars, TodoNow, OpenNow, ResultNow, Depth!Unvisited, Depth!Met,
       AsCall, SkipRoot, Before, Handlers

(* The list of the call on top, and of those below it.                     *)
LEMMA TodoFacts ==
  ASSUME SeqInv, at # "returned"
  PROVE  /\ Sequential!Pop \in Seq(CallRecord)
         /\ ToFollow(Sequential!Pop) \in Seq(Cids)
         /\ ToFollow(stack) \in Seq(Cids)
         /\ ToFollow(stack) = Sequential!Top.links \o ToFollow(Sequential!Pop)
         /\ Sequential!Top.links = <<>> =>
              ToFollow(stack) = ToFollow(Sequential!Pop)
         /\ Sequential!Pop = <<>> <=> Len(stack) = 1
         /\ Sequential!Pop = <<>> => ToFollow(Sequential!Pop) = <<>>
<1> DEFINE p == Sequential!Pop
<1>1. stack \in Seq(CallRecord) /\ stack # <<>> /\ Len(stack) \in Nat
      /\ Sequential!Top = stack[Len(stack)] /\ Sequential!Top.cid \in Cids
  BY TopFacts DEF SeqInv, StackInv
<1>2. p = SubSeq(stack, 1, Len(stack) - 1)
  BY DEF Sequential!Pop
<1> HIDE DEF p
<1>3. /\ p \in Seq(CallRecord) /\ Len(p) = Len(stack) - 1
      /\ p = <<>> <=> Len(stack) = 1
      /\ \A i \in 1..Len(p) : p[i] = stack[i]
  <2>1. stack \in Seq(CallRecord) /\ stack # <<>>
    BY <1>1
  <2> QED
    BY <1>2, <2>1, PopFacts
<1>4. ToFollow(p) \in Seq(Cids) /\ ToFollow(stack) \in Seq(Cids)
  BY <1>1, <1>3, ToFollowType
<1>5. ToFollow(stack) = stack[Len(stack)].links \o ToFollow(p)
  <2>1. Len(stack) = Len(p) + 1
    BY <1>1, <1>3
  <2>2. \A i \in 1..Len(p) : stack[i].links = p[i].links
    BY <1>3
  <2> QED
    <3>1. SameLinks(stack, p, Len(p))
      BY <2>2 DEF SameLinks
    <3> QED
      BY <1>1, <1>3, <2>1, <3>1, ToFollowTop
<1>6. <<>> \o ToFollow(p) = ToFollow(p)
  BY <1>1, <1>4, ListFacts
<1>7. p = <<>> => ToFollow(p) = <<>>
  BY ToFollowEmpty
<1> QED
  BY <1>1, <1>3, <1>4, <1>5, <1>6, <1>7 DEF p

(* When it sees no change.                                                 *)
LEMMA SameView ==
  ASSUME AsCall(options)' = AsCall(options), TodoNow' = TodoNow,
         OpenNow' = OpenNow, order' = order, ResultNow' = ResultNow
  PROVE  UNCHANGED Depth!vars
BY DEF Depth!vars, TodoNow, OpenNow, ResultNow

(* visit is called.                                                        *)
LEMMA VisitGoesDeep ==
  ASSUME SeqInv, OrderInv, Alone, Sequential!Visit
  PROVE  OrderInv' /\ [Depth!Next]_Depth!vars
<1> DEFINE t == Sequential!Top.cid
           rest == ToFollow(Sequential!Pop)
           skips == Sequential!Skips(Sequential!Top)
<1>1. at = "visit" /\ at # "returned" /\ result = "none"
  BY DEF Sequential!Visit, SeqInv, StackInv
<1>2. t \in Cids /\ Sequential!Top.links = <<>> /\ rest \in Seq(Cids)
      /\ ToFollow(stack) = rest
  BY <1>1, TopFacts, TodoFacts DEF SeqInv, CallInv
<1>3. skips <=> SkipRoot /\ t = Root
  BY <1>1, TopFacts, SameOptions DEF Sequential!Skips, Sound
<1>4. TodoNow = <<t>> \o rest /\ OpenNow = {} /\ ResultNow = "none"
  BY <1>1, <1>2 DEF TodoNow, OpenNow, ResultNow, GivesUp
<1>5. AsCall(options)' = AsCall(options) /\ Before' = Before
  BY AloneFacts DEF Alone, AsCall
<1>6. t \in seen <=> Depth!Met(t)
  BY <1>2, DepthParts DEF OrderInv
<1>7. Depth!Unvisited(t) <=> skips
  BY <1>3, DepthParts
<1>8. CASE /\ at' = "fetch" /\ UNCHANGED <<stack, result>>
           /\ \/ skips /\ seen' = seen /\ order' = order
              \/ /\ ~skips /\ t \notin seen
                 /\ seen' = seen \cup {t} /\ order' = Append(order, t)
  <2>1. TodoNow' = rest /\ OpenNow' = {t} /\ ResultNow' = "none"
    <3>1. Sequential!Top' = Sequential!Top /\ ToFollow(stack)' = ToFollow(stack)
      BY <1>8 DEF Sequential!Top
    <3>2. <<>> \o rest = rest
      BY <1>2, ListFacts
    <3> HIDE DEF t, rest
    <3>3. ~GivesUp' /\ at' = "fetch" /\ at' # "visit"
      BY <1>8 DEF GivesUp
    <3> QED
      BY <1>1, <1>2, <1>8, <3>1, <3>2, <3>3
      DEF TodoNow, OpenNow, ResultNow, t
  <2>2. OrderInv'
    <3>1. CASE skips /\ seen' = seen /\ order' = order
      BY <1>5, <3>1 DEF OrderInv
    <3>2. CASE /\ ~skips /\ t \notin seen
               /\ seen' = seen \cup {t} /\ order' = Append(order, t)
      <4> HIDE DEF t
      <4>1. /\ order' \in Seq(Cids) /\ Len(order') = Len(order) + 1
            /\ order'[Len(order) + 1] = t
            /\ \A i \in 1..Len(order) : order'[i] = order[i]
            /\ Len(order) \in Nat
        BY <1>2, <3>2 DEF OrderInv
      <4>2. ASSUME NEW c \in Cids
            PROVE  (\E i \in 1..Len(order') : order'[i] = c)
                     <=> c = t \/ \E i \in 1..Len(order) : order[i] = c
        <5>1. \A i \in 1..Len(order') :
                i = Len(order) + 1 \/ i \in 1..Len(order)
          BY <4>1
        <5>2. /\ Len(order) + 1 \in 1..Len(order')
              /\ \A i \in 1..Len(order) : i \in 1..Len(order')
          BY <4>1
        <5> QED
          BY <4>1, <5>1, <5>2
      <4> QED
        BY <1>5, <3>2, <4>1, <4>2 DEF OrderInv
    <3> QED
      BY <1>8, <3>1, <3>2
  <2>3. Head(TodoNow) = t /\ Tail(TodoNow) = rest /\ TodoNow # <<>>
    BY <1>2, <1>4, ListFacts
  <2> HIDE DEF t, rest, skips
  <2>4. Depth!Meet
    BY <1>4, <1>5, <1>6, <1>7, <1>8, <2>1, <2>3
    DEF Depth!Meet, TodoNow, OpenNow, ResultNow
  <2> QED
    BY <2>2, <2>4 DEF Depth!Next
<1>9. CASE /\ ~skips /\ t \in seen
           /\ Sequential!ReturnNil /\ UNCHANGED <<seen, order>>
  <2>1. OrderInv'
    BY <1>5, <1>9 DEF OrderInv
  <2>2. /\ stack' = Sequential!Pop
        /\ \/ /\ Sequential!Pop = <<>>
              /\ at' = "returned" /\ result' = "nil"
           \/ at' = "links" /\ result' = result
    BY <1>1, <1>9, TodoFacts DEF Sequential!ReturnNil
  <2>3. TodoNow' = rest /\ OpenNow' = {}
        /\ \/ ResultNow' = "none"
           \/ rest = <<>> /\ ResultNow' = "nil"
    <3>1. ToFollow(stack)' = rest
      BY <2>2
    <3>2. <<>> \o rest = rest
      BY <1>2, ListFacts
    <3>3. Sequential!Pop = <<>> => rest = <<>>
      BY <1>1, TodoFacts
    <3> HIDE DEF t, rest
    <3>4. ~GivesUp' /\ at' # "visit" /\ at' # "fetch"
      BY <2>2 DEF GivesUp
    <3> QED
      BY <1>1, <2>2, <3>1, <3>2, <3>3, <3>4 DEF TodoNow, OpenNow, ResultNow
  <2>4. Head(TodoNow) = t /\ Tail(TodoNow) = rest /\ TodoNow # <<>>
    BY <1>2, <1>4, ListFacts
  <2> HIDE DEF t, rest, skips
  <2>5. Depth!PassBy
    BY <1>4, <1>5, <1>6, <1>7, <1>9, <2>3, <2>4
    DEF Depth!PassBy, TodoNow, OpenNow, ResultNow
  <2> QED
    BY <2>1, <2>5 DEF Depth!Next
<1> QED
  BY <1>1, <1>8, <1>9 DEF Sequential!Visit, Sequential!SeenAfter

(* getLinks returns.                                                       *)
LEMMA FetchGoesDeep ==
  ASSUME SeqInv, Alone, Sequential!FetchLinks \/ Sequential!FetchFails
  PROVE  [Depth!Next]_Depth!vars
<1> DEFINE t == Sequential!Top.cid
           rest == ToFollow(Sequential!Pop)
           new == Links[t]
<1>1. at = "fetch" /\ at # "returned" /\ result = "none" /\ result' = "none"
      /\ order' = order
  BY DEF Sequential!FetchLinks, Sequential!FetchFails, SeqInv, StackInv
<1>2. t \in Cids /\ Sequential!Top.links = <<>> /\ rest \in Seq(Cids)
      /\ ToFollow(stack) = rest /\ new \in Seq(Cids)
  BY <1>1, TopFacts, TodoFacts, WalkAssumption DEF SeqInv, CallInv
<1>3. <<>> \o rest = rest
  BY <1>2, ListFacts
<1>4. AsCall(options)' = AsCall(options)
  BY DEF Alone, AsCall
<1>5. TodoNow = rest /\ OpenNow = {t} /\ ResultNow = "none"
  <2> HIDE DEF t, rest
  <2> QED
    BY <1>1, <1>2, <1>3 DEF TodoNow, OpenNow, ResultNow, GivesUp, t
<1>6. CASE Sequential!FetchLinks
  <2>1. at' = "links" /\ stack' = [stack EXCEPT ![Len(stack)].links = new]
    BY <1>6 DEF Sequential!FetchLinks
  <2>2. stack \in Seq(CallRecord) /\ stack # <<>> /\ Len(stack) \in Nat
        /\ Len(stack) \in 1..Len(stack)
    BY <1>1, TopFacts DEF SeqInv, StackInv
  <2>3. /\ stack' \in Seq(CallRecord) /\ Len(stack') = Len(stack)
        /\ stack'[Len(stack)].links = new
        /\ \A i \in 1..Len(stack) :
             i # Len(stack) => stack'[i].links = stack[i].links
    <3>1. stack \in Seq(CallRecord) /\ stack # <<>> /\ new \in Seq(Cids)
      BY <1>2, <2>2
    <3>2. stack' = [stack EXCEPT ![Len(stack)].links = new]
      BY <2>1
    <3> HIDE DEF new, t, rest
    <3>3. /\ stack' \in Seq(CallRecord) /\ Len(stack') = Len(stack)
          /\ \A i \in 1..Len(stack) :
               /\ stack'[i].cid = stack[i].cid
               /\ stack'[i].depth = stack[i].depth
               /\ stack'[i].links = IF i = Len(stack) THEN new ELSE stack[i].links
      BY <3>1, <3>2, RelinkFacts
    <3> QED
      BY <2>2, <3>3
  <2>4. ToFollow(stack)' = new \o rest
    <3>1. /\ Sequential!Pop \in Seq(CallRecord)
          /\ Len(Sequential!Pop) = Len(stack) - 1
          /\ \A i \in 1..Len(Sequential!Pop) : Sequential!Pop[i] = stack[i]
      BY <2>2, PopFacts DEF Sequential!Pop
    <3>2. Len(stack') = Len(Sequential!Pop) + 1
      BY <2>2, <2>3, <3>1
    <3>3. \A i \in 1..Len(Sequential!Pop) :
            stack'[i].links = Sequential!Pop[i].links
      <4>1. \A i \in 1..Len(Sequential!Pop) :
              i \in 1..Len(stack) /\ i # Len(stack)
        BY <2>2, <3>1
      <4> QED
        BY <2>3, <3>1, <4>1
    <3>4. ToFollow(stack') = stack'[Len(stack')].links \o rest
      <4>1. SameLinks(stack', Sequential!Pop, Len(Sequential!Pop))
        BY <3>3 DEF SameLinks
      <4> QED
        BY <2>3, <3>1, <3>2, <4>1, ToFollowTop
    <3> QED
      BY <2>3, <3>4
  <2>5. new \o rest \in Seq(Cids)
    BY <1>2
  <2>6. <<>> \o (new \o rest) = new \o rest
    BY <1>2, <2>5, ListFacts
  <2> HIDE DEF rest
  <2>7. ~GivesUp' /\ at' # "visit" /\ at' # "fetch"
    BY <2>1 DEF GivesUp
  <2>8. TodoNow' = new \o rest /\ OpenNow' = {} /\ ResultNow' = "none"
    BY <1>1, <2>4, <2>6, <2>7 DEF TodoNow, OpenNow, ResultNow
  <2>9. Depth!Follow(t)
    BY <1>1, <1>4, <1>5, <2>8
    DEF Depth!Follow, TodoNow, OpenNow, ResultNow
  <2>10. \E c \in OpenNow : Depth!Follow(c)
    BY <1>5, <2>9
  <2> QED
    BY <2>10 DEF Depth!Next, OpenNow
<1>7. CASE Sequential!FetchFails
  <2>1. /\ stack' = stack
        /\ \/ at' = "links" /\ Handlers # <<>>
           \/ at' \in {"error", "crashed"}
    BY <1>7, SameOptions DEF Sequential!FetchFails
  <2>2. ToFollow(stack)' = rest
    BY <1>2, <2>1
  <2> HIDE DEF t, rest
  <2>3. CASE at' = "links" /\ Handlers # <<>>
    <3>1. TodoNow' = rest /\ OpenNow' = {} /\ ResultNow' = "none"
      BY <1>1, <1>3, <2>2, <2>3 DEF TodoNow, OpenNow, ResultNow, GivesUp
    <3>2. Depth!Forgo
      BY <1>1, <1>4, <1>5, <2>3, <3>1, DepthParts
      DEF Depth!Forgo, TodoNow, OpenNow, ResultNow
    <3> QED
      BY <3>2 DEF Depth!Next
  <2>4. CASE at' \in {"error", "crashed"}
    <3>1. TodoNow' = <<>> /\ OpenNow' = {} /\ ResultNow' = "err"
      BY <2>4 DEF TodoNow, OpenNow, ResultNow, GivesUp
    <3>2. Depth!Abandon
      BY <1>1, <1>4, <1>5, <3>1
      DEF Depth!Abandon, TodoNow, OpenNow, ResultNow
    <3> QED
      BY <3>2 DEF Depth!Next
  <2> QED
    BY <2>1, <2>3, <2>4
<1> QED
  BY <1>6, <1>7

(* A node has no link left.                                                *)
LEMMA NoLinkGoesDeep ==
  ASSUME SeqInv, Alone, Sequential!NoLinkLeft
  PROVE  [Depth!Next]_Depth!vars
<1> DEFINE rest == ToFollow(Sequential!Pop)
<1>1. at = "links" /\ at # "returned" /\ result = "none" /\ order' = order
      /\ Sequential!Top.links = <<>> /\ Sequential!ReturnNil
  BY DEF Sequential!NoLinkLeft, Sequential!histVars, SeqInv, StackInv
<1>2. /\ rest \in Seq(Cids) /\ ToFollow(stack) = rest
      /\ Sequential!Pop = <<>> => rest = <<>>
  BY <1>1, TodoFacts
<1>3. <<>> \o rest = rest
  <2>1. Sequential!Top.cid \in Cids
    BY <1>1, TopFacts
  <2> QED
    BY <1>2, <2>1, ListFacts
<1>4. AsCall(options)' = AsCall(options)
  BY DEF Alone, AsCall
<1>5. /\ stack' = Sequential!Pop
      /\ \/ Sequential!Pop = <<>> /\ at' = "returned" /\ result' = "nil"
         \/ at' = "links" /\ result' = result
  BY <1>1, TodoFacts DEF Sequential!ReturnNil
<1>6. ToFollow(stack)' = rest
  BY <1>5
<1> HIDE DEF rest
<1>7. TodoNow = rest /\ OpenNow = {} /\ ResultNow = "none"
  <2>1. ~GivesUp /\ at # "visit" /\ at # "fetch"
    BY <1>1 DEF GivesUp
  <2>2. TodoNow = <<>> \o ToFollow(stack)
    BY <2>1 DEF TodoNow
  <2>3. OpenNow = {}
    BY <2>1 DEF OpenNow
  <2>4. ResultNow = "none"
    BY <1>1, <2>1 DEF ResultNow
  <2> QED
    BY <1>2, <1>3, <2>2, <2>3, <2>4
<1>8. TodoNow' = rest /\ OpenNow' = {} /\ ResultNow' = result'
  <2>1. ~GivesUp' /\ at' # "visit" /\ at' # "fetch"
    BY <1>5 DEF GivesUp
  <2> QED
    BY <1>3, <1>6, <2>1 DEF TodoNow, OpenNow, ResultNow
<1>9. CASE Sequential!Pop = <<>> /\ result' = "nil"
  <2>1. rest = <<>>
    BY <1>2, <1>9
  <2>2. /\ TodoNow = <<>> /\ OpenNow = {} /\ ResultNow = "none"
        /\ TodoNow' = TodoNow /\ OpenNow' = OpenNow /\ ResultNow' = "nil"
    BY <1>7, <1>8, <1>9, <2>1
  <2>3. Depth!Finish
    <3>1. order' = order
      BY <1>1
    <3> QED
      BY <1>4, <2>2, <3>1 DEF Depth!Finish, TodoNow, OpenNow, ResultNow
  <2> QED
    BY <2>3 DEF Depth!Next
<1>10. CASE result' = result
  BY <1>1, <1>4, <1>7, <1>8, <1>10, SameView
<1> QED
  BY <1>5, <1>9, <1>10

(* The next link moves from the links of the call on top to a new call.    *)
LEMMA FollowGoesDeep ==
  ASSUME SeqInv, Alone, Sequential!FollowLink
  PROVE  UNCHANGED Depth!vars
<1> DEFINE old == Sequential!Top.links
           rest == ToFollow(Sequential!Pop)
           mid == [stack EXCEPT ![Len(stack)].links = Tail(old)]
           new == Sequential!Call(Head(old), Sequential!Top.depth + 1)
<1>1. /\ at = "links" /\ at' = "visit" /\ at # "returned" /\ old # <<>>
      /\ stack' = mid \o <<new>>
      /\ order' = order /\ result' = result
  BY DEF Sequential!FollowLink, Sequential!Pick, Sequential!histVars
<1>2. /\ stack \in Seq(CallRecord) /\ stack # <<>> /\ Len(stack) \in Nat
      /\ Len(stack) \in 1..Len(stack)
      /\ old \in Seq(Cids) /\ Sequential!Top.depth \in Nat
      /\ Sequential!Top.cid \in Cids
      /\ rest \in Seq(Cids) /\ ToFollow(stack) = old \o rest
  BY <1>1, TopFacts, TodoFacts DEF SeqInv, StackInv
<1>3. Head(old) \in Cids /\ Tail(old) \in Seq(Cids)
  <2> HIDE DEF old
  <2> QED
    BY <1>1, <1>2
<1>4. new \in CallRecord /\ new.cid = Head(old) /\ new.links = <<>>
  <2> HIDE DEF old
  <2> QED
    BY <1>2, <1>3 DEF Sequential!Call, CallRecord
<1>5. /\ mid \in Seq(CallRecord) /\ Len(mid) = Len(stack)
      /\ mid[Len(stack)].links = Tail(old)
      /\ \A i \in 1..Len(stack) :
           i # Len(stack) => mid[i].links = stack[i].links
  <2> DEFINE tail == Tail(old)
  <2>1. mid = [stack EXCEPT ![Len(stack)].links = tail]
    OBVIOUS
  <2>2. stack \in Seq(CallRecord) /\ stack # <<>> /\ tail \in Seq(Cids)
    BY <1>2, <1>3
  <2> HIDE DEF mid, old, tail
  <2>3. /\ mid \in Seq(CallRecord) /\ Len(mid) = Len(stack)
        /\ \A i \in 1..Len(stack) :
             /\ mid[i].cid = stack[i].cid
             /\ mid[i].depth = stack[i].depth
             /\ mid[i].links = IF i = Len(stack) THEN tail ELSE stack[i].links
    BY <2>1, <2>2, RelinkFacts
  <2> QED
    BY <1>2, <2>3 DEF tail
<1> HIDE DEF mid, new
<1>6. ToFollow(mid) = Tail(old) \o rest
  <2>1. /\ Sequential!Pop \in Seq(CallRecord)
        /\ Len(Sequential!Pop) = Len(stack) - 1
        /\ \A i \in 1..Len(Sequential!Pop) : Sequential!Pop[i] = stack[i]
    BY <1>2, PopFacts DEF Sequential!Pop
  <2>2. Len(mid) = Len(Sequential!Pop) + 1
    BY <1>2, <1>5, <2>1
  <2>3. \A i \in 1..Len(Sequential!Pop) : mid[i].links = Sequential!Pop[i].links
    <3>1. \A i \in 1..Len(Sequential!Pop) :
            i \in 1..Len(stack) /\ i # Len(stack)
      BY <1>2, <2>1
    <3> QED
      BY <1>5, <2>1, <3>1
  <2>4. ToFollow(mid) = mid[Len(mid)].links \o rest
    <3>1. SameLinks(mid, Sequential!Pop, Len(Sequential!Pop))
      BY <2>3 DEF SameLinks
    <3>2. mid \in Seq(CallRecord) /\ Sequential!Pop \in Seq(CallRecord)
      BY <1>5, <2>1
    <3> QED
      BY <2>2, <3>1, <3>2, ToFollowTop
  <2> QED
    BY <1>5, <2>4
<1> HIDE DEF old, rest
<1>7. Tail(old) \o rest \in Seq(Cids)
  BY <1>2, <1>3
<1>8. ToFollow(stack') = Tail(old) \o rest /\ Sequential!Top' = new
  <2>1. /\ stack' \in Seq(CallRecord) /\ Len(stack') = Len(mid) + 1
        /\ stack'[Len(mid) + 1] = new
        /\ \A i \in 1..Len(mid) : stack'[i] = mid[i]
    <3>1. stack' = mid \o <<new>> /\ mid \in Seq(CallRecord)
          /\ new \in CallRecord
      BY <1>1, <1>4, <1>5
    <3> QED
      BY <3>1, PushFacts
  <2>2. \A i \in 1..Len(mid) : stack'[i].links = mid[i].links
    BY <2>1
  <2>3. ToFollow(stack') = <<>> \o ToFollow(mid)
    <3>1. /\ stack' \in Seq(CallRecord) /\ mid \in Seq(CallRecord)
          /\ Len(stack') = Len(mid) + 1
      BY <1>5, <2>1
    <3>2. SameLinks(stack', mid, Len(mid))
      BY <2>2 DEF SameLinks
    <3>3. stack'[Len(stack')].links = <<>>
      BY <1>4, <2>1
    <3>4. ToFollow(stack') = stack'[Len(stack')].links \o ToFollow(mid)
      BY <3>1, <3>2, ToFollowTop
    <3> QED
      BY <3>3, <3>4
  <2>4. <<>> \o ToFollow(mid) = ToFollow(mid)
    BY <1>2, <1>6, <1>7, ListFacts
  <2>5. Sequential!Top' = new
    BY <2>1 DEF Sequential!Top
  <2> QED
    BY <1>6, <2>3, <2>4, <2>5
<1>9. <<Head(old)>> \o (Tail(old) \o rest) = old \o rest
  BY <1>1, <1>2, <1>3, ListFacts
<1>10. TodoNow' = TodoNow
  <2>1. TodoNow = <<>> \o (old \o rest)
    BY <1>1, <1>2 DEF TodoNow, GivesUp
  <2>2. old \o rest \in Seq(Cids)
    BY <1>2
  <2>3. <<>> \o (old \o rest) = old \o rest
    BY <1>2, <2>2, ListFacts
  <2>4. TodoNow' = <<new.cid>> \o ToFollow(stack')
    BY <1>1, <1>8 DEF TodoNow, GivesUp
  <2> QED
    BY <1>4, <1>8, <1>9, <2>1, <2>3, <2>4
<1>11. OpenNow' = OpenNow /\ ResultNow' = ResultNow
  BY <1>1 DEF OpenNow, ResultNow, GivesUp
<1>12. AsCall(options)' = AsCall(options)
  BY DEF Alone, AsCall
<1> QED
  BY <1>1, <1>10, <1>11, <1>12, SameView

(* The error is passed up.                                                 *)
LEMMA ErrorGoesDeep ==
  ASSUME SeqInv, Alone, Sequential!ReturnError
  PROVE  UNCHANGED Depth!vars
<1>1. /\ at = "error" /\ at # "returned" /\ order' = order
      /\ stack' = Sequential!Pop
      /\ \/ Sequential!Pop = <<>> /\ at' = "returned" /\ result' = "err"
         \/ at' = "error" /\ result' = result
  <2>1. at = "error" /\ at # "returned"
    BY DEF Sequential!ReturnError
  <2>2. Sequential!Pop = <<>> <=> Len(stack) = 1
    BY <2>1, TodoFacts
  <2> QED
    BY <2>1, <2>2 DEF Sequential!ReturnError, Sequential!histVars
<1>2. TodoNow' = <<>> /\ OpenNow' = {} /\ ResultNow' = "err"
  <2>1. CASE Sequential!Pop = <<>> /\ at' = "returned" /\ result' = "err"
    <3>1. ToFollow(stack)' = <<>>
      BY <1>1, <2>1, TodoFacts
    <3>2. <<>> \o <<>> = <<>>
      BY <1>1, TopFacts, ListFacts
    <3> QED
      BY <2>1, <3>1, <3>2 DEF TodoNow, OpenNow, ResultNow, GivesUp
  <2>2. CASE at' = "error"
    BY <2>2 DEF TodoNow, OpenNow, ResultNow, GivesUp
  <2> QED
    BY <1>1, <2>1, <2>2
<1>3. TodoNow = <<>> /\ OpenNow = {} /\ ResultNow = "err"
  BY <1>1 DEF TodoNow, OpenNow, ResultNow, GivesUp
<1>4. AsCall(options)' = AsCall(options)
  BY DEF Alone, AsCall
<1> QED
  BY <1>1, <1>2, <1>3, <1>4, SameView

LEMMA DepthSteps ==
  ASSUME SeqInv, OrderInv, ~Parallel, SeqStep
  PROVE  OrderInv' /\ [Depth!Next]_Depth!vars
<1>1. Alone
  BY StepIsAlone
<1>2. Before' = Before /\ AsCall(options)' = AsCall(options)
  BY <1>1, AloneFacts DEF Alone, AsCall
<1>3. CASE Sequential!Visit
  BY <1>1, <1>3, VisitGoesDeep
<1>4. CASE Sequential!FetchLinks \/ Sequential!FetchFails
  <2>1. UNCHANGED <<seen, order>>
    BY <1>4 DEF Sequential!FetchLinks, Sequential!FetchFails
  <2>2. OrderInv'
    BY <1>2, <2>1 DEF OrderInv
  <2> QED
    BY <1>1, <1>4, <2>2, FetchGoesDeep
<1>5. CASE Sequential!FollowLink \/ Sequential!NoLinkLeft
             \/ Sequential!ReturnError
  <2>1. UNCHANGED <<seen, order>>
    BY <1>5 DEF Sequential!FollowLink, Sequential!NoLinkLeft,
                Sequential!ReturnError, Sequential!histVars
  <2>2. OrderInv'
    BY <1>2, <2>1 DEF OrderInv
  <2>3. CASE Sequential!FollowLink
    BY <1>1, <2>2, <2>3, FollowGoesDeep
  <2>4. CASE Sequential!NoLinkLeft
    BY <1>1, <2>2, <2>4, NoLinkGoesDeep
  <2>5. CASE Sequential!ReturnError
    BY <1>1, <2>2, <2>5, ErrorGoesDeep
  <2> QED
    BY <1>5, <2>3, <2>4, <2>5
<1>6. CASE Sequential!Cancel \/ Sequential!Terminated \/ UNCHANGED depthVars
  <2>1. UNCHANGED <<stack, at, result, seen, order>>
    BY <1>6 DEF Sequential!Cancel, Sequential!Terminated, Sequential!vars,
                Sequential!histVars, depthVars, vars, mainVars, visitVars,
                seqVars
  <2>2. OrderInv'
    BY <1>2, <2>1 DEF OrderInv
  <2>3. Sequential!Top' = Sequential!Top /\ ToFollow(stack)' = ToFollow(stack)
    BY <2>1 DEF Sequential!Top
  <2>4. TodoNow' = TodoNow /\ OpenNow' = OpenNow /\ ResultNow' = ResultNow
    BY <2>1, <2>3 DEF TodoNow, OpenNow, ResultNow, GivesUp
  <2> QED
    BY <1>2, <2>1, <2>2, <2>4, SameView
<1> QED
  BY <1>3, <1>4, <1>5, <1>6 DEF SeqStep, Sequential!Next, Sequential!Step

LEMMA InitGoesDeep ==
  ASSUME DepthInit, ~Parallel
  PROVE  OrderInv /\ Depth!Init
<1> DEFINE call == Sequential!Call(Root, 0)
<1>1. /\ options \in Options /\ stack = <<call>> /\ at = "visit"
      /\ result = "none" /\ seen = Before /\ order = <<>>
  <2>1. Sequential!Init
    BY DEF DepthInit, Init
  <2> QED
    BY <2>1, SameOptions DEF Sequential!Init
<1>2. call \in CallRecord /\ call.cid = Root /\ call.links = <<>>
  BY WalkAssumption DEF Sequential!Call, CallRecord
<1> HIDE DEF call
<1>3. stack \in Seq(CallRecord) /\ Len(stack) = 1 /\ stack[1] = call
      /\ Sequential!Top = call
  BY <1>1, <1>2 DEF Sequential!Top
<1>4. ToFollow(stack) = <<>>
  <2>1. <<>> \in Seq(CallRecord) /\ Len(<<>>) = 0
    OBVIOUS
  <2>2. SameLinks(stack, <<>>, Len(<<>>)) /\ Len(stack) = Len(<<>>) + 1
    BY <1>3, <2>1 DEF SameLinks
  <2>3. ToFollow(stack) = stack[Len(stack)].links \o ToFollow(<<>>)
    BY <1>3, <2>1, <2>2, ToFollowTop
  <2>4. stack[Len(stack)].links = <<>>
    BY <1>2, <1>3
  <2>5. ToFollow(stack) = <<>> \o <<>>
    BY <2>3, <2>4, ToFollowEmpty
  <2> QED
    BY <2>5
<1>5. TodoNow = <<Root>> /\ OpenNow = {} /\ ResultNow = "none"
  BY <1>1, <1>2, <1>3, <1>4 DEF TodoNow, OpenNow, ResultNow, GivesUp
<1>6. OrderInv
  BY <1>1 DEF OrderInv
<1>7. AsCall(options) \in {AsCall(o) : o \in Options}
  BY <1>1
<1> QED
  BY <1>1, <1>5, <1>6, <1>7 DEF Depth!Init, TodoNow, OpenNow, ResultNow

(* "Walk will walk the dag in order (depth first)" (w3s/car.go:125-170):   *)
(* so does the sequential walk, in every instance, with any set of nodes   *)
(* seen before, with and without SkipRoot, and past every failure that a   *)
(* handler tolerates.                                                      *)
THEOREM SequentialIsDepthFirst == DepthSpec => WalksDepthFirst
<1> DEFINE Inv == ~Parallel => OrderInv
<1>1. DepthInit => Inv /\ (~Parallel => Depth!Init)
  BY InitGoesDeep
<1>2. DepthInv /\ Inv /\ [DepthNext]_depthVars
        => Inv' /\ [~Parallel => Depth!Next]_Depth!vars
  <2> SUFFICES ASSUME DepthInv, Inv, [DepthNext]_depthVars
               PROVE  Inv' /\ [~Parallel => Depth!Next]_Depth!vars
    OBVIOUS
  <2>1. CASE Parallel
    <3>1. Next \/ UNCHANGED vars
      BY <2>1 DEF DepthNext, depthVars
    <3>2. options' = options
      BY <3>1, OptionsStay DEF vars, callVars
    <3>3. Parallel'
      BY <2>1, <3>2 DEF Parallel
    <3> QED
      BY <2>1, <3>3
  <2>2. CASE ~Parallel
    <3>1. SeqStep
      BY <2>2 DEF DepthNext, SeqStep
    <3>2. SeqInv /\ OrderInv
      BY <2>2 DEF DepthInv
    <3>3. OrderInv' /\ [Depth!Next]_Depth!vars
      BY <2>2, <3>1, <3>2, DepthSteps
    <3> QED
      BY <2>2, <3>3
  <2> QED
    BY <2>1, <2>2
<1> HIDE DEF Inv
<1> QED
  BY <1>1, <1>2, DepthInvInvariant, PTL DEF DepthSpec, WalksDepthFirst
=============================================================================

--------------------------- MODULE CarFileProofs ---------------------------
(***************************************************************************)
(* CAR files of any graph, with any roots, any limit of a batch, and any   *)
(* nodes too big or damaged.  What has been seen is what has been written, *)
(* and what the seen nodes and the roots lead to is seen or has still to   *)
(* be visited; nothing else ever is.  What the store has been given and    *)
(* what is buffered are the sections read, in order.                       *)
(***************************************************************************)
EXTENDS CarFile, FiniteSetTheorems, FunctionTheorems,
        SequenceTheorems, TLAPS

(* What has been written: the header, and the seen nodes once each.        *)
FileInv ==
  /\ wpc = "header" => file = <<>> /\ seen = {}
  /\ wpc \in {"roots", "walk", "written"} =>
       file # <<>> /\ Elements(Blocks) = seen
  /\ file # <<>> =>
       /\ file[1] = Header /\ Blocks \in Seq(Cids)
       /\ \A i, j \in 1..Len(Blocks) : Blocks[i] = Blocks[j] => i = j

(* What is still to be visited.                                            *)
VisitInv ==
  wpc # "failed" =>
    /\ wpc # "walk" => toVisit = <<>>
    /\ wpc = "written" => rootsLeft = <<>>
    /\ Elements(Roots) \subseteq seen \cup Elements(toVisit) \cup Elements(rootsLeft)
    /\ \A c \in seen : Elements(Links[c]) \subseteq seen \cup Elements(toVisit)

(* Only what the roots lead to is visited.                                 *)
LedInv ==
  \A S \in SUBSET Cids : Closed(S) =>
    seen \cup Elements(toVisit) \cup Elements(rootsLeft) \subseteq S

(* s holds the blocks of the sections 2 to n.                              *)
Holds(s, n) == Len(s) = n - 1 /\ \A i \in 1..Len(s) : s[i] = file[i + 1]

LoadInv ==
  /\ wpc # "written" => rpc = "closed" /\ ended = 0 /\ damaged = {} /\ blank = {}
  /\ rpc = "closed" => taken = 0 /\ buf = <<>> /\ stored = <<>> /\ ~storeFailed
  /\ rpc \in {"next", "flush", "returned"} => taken >= 1
  /\ SectionBytes * taken <= ended
  /\ \A i \in 1..taken : file[i] \notin big /\ i \notin damaged \cup blank
  /\ ~fast => buf = <<>>
  /\ rpc \in {"next", "flush"} => Holds(stored \o buf, taken)
  /\ rpc = "returned" => Holds(stored, taken) /\ AtEnd
  /\ stored = <<>> \/ Len(stored) < taken
  /\ WholeCarLoads

IInv == TypeOK /\ FileInv /\ VisitInv /\ LedInv /\ LoadInv
-----------------------------------------------------------------------------
(* Sequences and their elements.                                           *)
LEMMA SeqFacts ==
  ASSUME NEW S, NEW s \in Seq(S)
  PROVE  /\ Len(s) \in Nat /\ \A i \in 1..Len(s) : s[i] \in S
         /\ Elements(s) \subseteq S
         /\ s = <<>> <=> Len(s) = 0
         /\ s = <<>> => Elements(s) = {}
<1>1. Len(s) \in Nat /\ \A i \in 1..Len(s) : s[i] \in S
  OBVIOUS
<1>2. s = <<>> <=> Len(s) = 0
  OBVIOUS
<1> QED
  BY <1>1, <1>2 DEF Elements

LEMMA TailFacts ==
  ASSUME NEW S, NEW s \in Seq(S), s # <<>>
  PROVE  /\ Head(s) \in S /\ Head(s) = s[1]
         /\ Tail(s) \in Seq(S) /\ Len(s) >= 1 /\ Len(Tail(s)) = Len(s) - 1
         /\ \A i \in 1..Len(Tail(s)) : Tail(s)[i] = s[i + 1] /\ i + 1 \in 1..Len(s)
         /\ \A i \in 1..Len(s) :
              i = 1 \/ (i - 1 \in 1..Len(Tail(s)) /\ Tail(s)[i - 1] = s[i])
         /\ Elements(s) = {Head(s)} \cup Elements(Tail(s))
<1>1. /\ Len(s) \in Nat /\ Len(s) >= 1 /\ Head(s) = s[1] /\ 1 \in 1..Len(s)
      /\ Tail(s) \in Seq(S) /\ Len(Tail(s)) = Len(s) - 1
  OBVIOUS
<1>2. \A i \in 1..Len(Tail(s)) : Tail(s)[i] = s[i + 1]
  BY <1>1
<1>3. \A i \in 1..Len(Tail(s)) : i + 1 \in 1..Len(s)
  BY <1>1
<1>4. \A i \in 1..Len(s) : i = 1 \/ i - 1 \in 1..Len(Tail(s))
  BY <1>1
<1>5. \A i \in 1..Len(s) : i - 1 \in 1..Len(Tail(s)) => Tail(s)[i - 1] = s[i]
  BY <1>1, <1>2
<1>6. s[1] \in S
  BY <1>1
<1>7. Elements(s) = {s[1]} \cup Elements(Tail(s))
  <2>1. \A x \in Elements(s) : x = s[1] \/ x \in Elements(Tail(s))
    BY <1>4, <1>5 DEF Elements
  <2>2. \A x \in Elements(Tail(s)) : x \in Elements(s)
    BY <1>2, <1>3 DEF Elements
  <2>3. s[1] \in Elements(s)
    BY <1>1 DEF Elements
  <2> QED
    BY <2>1, <2>2, <2>3
<1> QED
  BY <1>1, <1>2, <1>3, <1>4, <1>5, <1>6, <1>7

LEMMA ConcatFacts ==
  ASSUME NEW S, NEW s \in Seq(S), NEW t \in Seq(S)
  PROVE  /\ s \o t \in Seq(S) /\ Len(s \o t) = Len(s) + Len(t)
         /\ \A i \in 1..Len(s) : (s \o t)[i] = s[i]
         /\ \A i \in 1..Len(t) : (s \o t)[Len(s) + i] = t[i]
         /\ Elements(s \o t) = Elements(s) \cup Elements(t)
         /\ t = <<>> => s \o t = s
<1>1. Len(s) \in Nat /\ Len(t) \in Nat
  OBVIOUS
<1>2. s \o t \in Seq(S) /\ Len(s \o t) = Len(s) + Len(t)
  OBVIOUS
<1>3. \A i \in 1..Len(s) : (s \o t)[i] = s[i] /\ i \in 1..Len(s \o t)
  BY <1>1, <1>2
<1>4. \A i \in 1..Len(t) :
        (s \o t)[Len(s) + i] = t[i] /\ Len(s) + i \in 1..Len(s \o t)
  BY <1>1, <1>2
<1>5. \A i \in 1..Len(s \o t) :
        i \in 1..Len(s) \/ \E j \in 1..Len(t) : i = Len(s) + j
  <2> SUFFICES ASSUME NEW i \in 1..Len(s \o t), i \notin 1..Len(s)
               PROVE  i - Len(s) \in 1..Len(t) /\ i = Len(s) + (i - Len(s))
    BY <1>1, <1>2
  <2> QED
    BY <1>1, <1>2
<1>6. Elements(s \o t) = Elements(s) \cup Elements(t)
  <2>1. \A x \in Elements(s \o t) : x \in Elements(s) \cup Elements(t)
    BY <1>3, <1>4, <1>5 DEF Elements
  <2>2. \A x \in Elements(s) \cup Elements(t) : x \in Elements(s \o t)
    BY <1>3, <1>4 DEF Elements
  <2> QED
    BY <2>1, <2>2
<1> QED
  BY <1>2, <1>3, <1>4, <1>6

LEMMA AppendFacts ==
  ASSUME NEW S, NEW s \in Seq(S), NEW x \in S
  PROVE  /\ Append(s, x) \in Seq(S) /\ Len(Append(s, x)) = Len(s) + 1
         /\ Append(s, x) # <<>>
         /\ \A i \in 1..Len(s) : Append(s, x)[i] = s[i]
         /\ Append(s, x)[Len(s) + 1] = x
         /\ Elements(Append(s, x)) = Elements(s) \cup {x}
         /\ \A t \in Seq(S) : t \o Append(s, x) = Append(t \o s, x)
         /\ s # <<>> => Tail(Append(s, x)) = Append(Tail(s), x)
<1>1. Len(s) \in Nat
  OBVIOUS
<1>2. /\ Append(s, x) \in Seq(S) /\ Len(Append(s, x)) = Len(s) + 1
      /\ Append(s, x) # <<>>
  BY AppendProperties
<1>3. \A i \in 1..Len(s) : Append(s, x)[i] = s[i] /\ i \in 1..(Len(s) + 1)
  BY <1>1
<1>4. Append(s, x)[Len(s) + 1] = x /\ Len(s) + 1 \in 1..(Len(s) + 1)
  BY <1>1
<1>5. \A i \in 1..(Len(s) + 1) : i \in 1..Len(s) \/ i = Len(s) + 1
  BY <1>1
<1>6. Elements(Append(s, x)) = Elements(s) \cup {x}
  <2>1. \A y \in Elements(Append(s, x)) : y \in Elements(s) \cup {x}
    BY <1>2, <1>3, <1>4, <1>5 DEF Elements
  <2>2. \A y \in Elements(s) \cup {x} : y \in Elements(Append(s, x))
    BY <1>2, <1>3, <1>4 DEF Elements
  <2> QED
    BY <2>1, <2>2
<1>7. \A t \in Seq(S) : t \o Append(s, x) = Append(t \o s, x)
  OBVIOUS
<1>8. s # <<>> => Tail(Append(s, x)) = Append(Tail(s), x)
  BY HeadTailAppend
<1> QED
  BY <1>2, <1>3, <1>4, <1>6, <1>7, <1>8

(* The beginning of a sequence.                                            *)
LEMMA PrefixFacts ==
  ASSUME NEW S, NEW s \in Seq(S), NEW n \in 0..Len(s)
  PROVE  /\ SubSeq(s, 1, n) \in Seq(S) /\ Len(SubSeq(s, 1, n)) = n
         /\ \A i \in 1..n : SubSeq(s, 1, n)[i] = s[i]
<1>1. Len(s) \in Nat /\ n \in Nat /\ n <= Len(s)
  OBVIOUS
<1>2. \A i \in 1..n : s[i] \in S
  BY <1>1
<1>3. SubSeq(s, 1, n) = [i \in 1..n |-> s[i]]
  BY <1>1
<1> QED
  BY <1>1, <1>2, <1>3
-----------------------------------------------------------------------------
(* The blocks of a CAR are its sections but the first.                     *)
LEMMA BlockFacts ==
  ASSUME TypeOK, FileInv, file # <<>>
  PROVE  /\ Blocks \in Seq(Cids) /\ Len(Blocks) = Len(file) - 1
         /\ Len(file) \in Nat /\ Len(file) >= 1 /\ file[1] = Header
         /\ \A i \in 1..Len(Blocks) :
              Blocks[i] = file[i + 1] /\ i + 1 \in 1..Len(file)
         /\ \A i \in 2..Len(file) : file[i] \in Cids /\ i - 1 \in 1..Len(Blocks)
<1>1. file \in Seq(Cids \cup {Header})
  BY DEF TypeOK
<1>2. /\ Len(file) \in Nat /\ Len(file) >= 1 /\ Len(Tail(file)) = Len(file) - 1
      /\ \A i \in 1..Len(Tail(file)) :
           Tail(file)[i] = file[i + 1] /\ i + 1 \in 1..Len(file)
  BY <1>1, TailFacts, SeqFacts
<1>3. Tail(file) \in Seq(Cids) /\ file[1] = Header
  BY DEF FileInv, Blocks
<1>4. ASSUME NEW i \in 2..Len(file)
      PROVE  file[i] \in Cids /\ i - 1 \in 1..Len(Tail(file))
  <2>1. i - 1 \in 1..Len(Tail(file)) /\ (i - 1) + 1 = i
    BY <1>2
  <2>2. Tail(file)[i - 1] = file[i]
    BY <1>2, <2>1
  <2> QED
    BY <1>3, <2>1, <2>2
<1> QED
  BY <1>2, <1>3, <1>4 DEF Blocks

(* While WriteCar has not returned, nothing is loaded.                     *)
LEMMA WritingKeepsLoad ==
  ASSUME TypeOK, LoadInv, wpc # "written", wpc' # "written",
         UNCHANGED <<wireVars, dataVars, loadVars>>
  PROVE  LoadInv'
<1>1. /\ rpc' = "closed" /\ ended' = 0 /\ damaged' = {} /\ blank' = {}
      /\ taken' = 0 /\ buf' = <<>> /\ stored' = <<>> /\ ~storeFailed'
  BY DEF LoadInv, wireVars, loadVars, TypeOK
<1>2. \A i \in 1..taken' : FALSE
  BY <1>1
<1> QED
  BY <1>1, <1>2 DEF LoadInv, WholeCarLoads, SectionBytes

(* A longer file leaves the wire's types alone.                            *)
LEMMA WritingKeepsTypes ==
  ASSUME TypeOK, LoadInv, wpc # "written",
         UNCHANGED <<wireVars, dataVars, loadVars>>,
         wpc' \in {"header", "roots", "walk", "failed"},
         rootsLeft' \in Seq(Cids), toVisit' \in Seq(Cids), seen' \subseteq Cids,
         file' \in Seq(Cids \cup {Header})
  PROVE  TypeOK'
<1>1. /\ ended' = 0 /\ damaged' = {} /\ blank' = {} /\ taken' = 0
      /\ UNCHANGED <<big, fast, rpc, buf, stored, kept, storeFailed>>
  BY DEF LoadInv, wireVars, dataVars, loadVars
<1>2. Len(file') \in Nat
  OBVIOUS
<1>3. ended' \in 0..(SectionBytes * Len(file')) /\ taken' \in 0..Len(file')
  BY <1>1, <1>2 DEF SectionBytes
<1>4. damaged' \subseteq 2..Len(file') /\ blank' \subseteq (2..Len(file')) \ damaged'
  BY <1>1
<1> QED
  BY <1>1, <1>3, <1>4 DEF TypeOK

LEMMA HeaderKeepsIInv ==
  ASSUME IInv, WriteHeader
  PROVE  IInv'
<1> USE DEF IInv
<1>1. /\ wpc = "header" /\ wpc' = "roots" /\ file' = <<Header>>
      /\ UNCHANGED <<rootsLeft, toVisit, seen>>
      /\ UNCHANGED <<wireVars, dataVars, loadVars>>
  BY DEF WriteHeader
<1>2. file = <<>> /\ seen = {}
  BY <1>1 DEF FileInv
<1>3. /\ file' \in Seq(Cids \cup {Header}) /\ file' # <<>> /\ file'[1] = Header
      /\ Tail(file') = <<>>
  BY <1>1
<1>4. TypeOK' /\ LoadInv'
  BY <1>1, <1>3, WritingKeepsTypes, WritingKeepsLoad DEF TypeOK
<1>5. FileInv'
  <2> DEFINE s == Tail(file')
  <2>1. s = <<>> /\ Blocks' = s
    BY <1>3 DEF Blocks
  <2> HIDE DEF s
  <2>2. s \in Seq(Cids) /\ Len(s) = 0
    BY <2>1
  <2>3. Elements(s) = {} /\ \A i \in 1..Len(s) : FALSE
    BY <2>2 DEF Elements
  <2> QED
    BY <1>1, <1>2, <1>3, <2>1, <2>2, <2>3 DEF FileInv
<1>6. VisitInv' /\ LedInv'
  BY <1>1 DEF VisitInv, LedInv
<1> QED
  BY <1>4, <1>5, <1>6

(* A step that writes nothing.                                             *)
LEMMA SameFileKeepsInv ==
  ASSUME FileInv, file' = file, seen' = seen, wpc # "header",
         wpc' \in {"roots", "walk", "written"} => wpc \in {"roots", "walk", "written"},
         wpc' # "header"
  PROVE  FileInv'
BY DEF FileInv, Blocks

LEMMA WalkRootKeepsIInv ==
  ASSUME IInv, WalkRoot
  PROVE  IInv'
<1> USE DEF IInv
<1>1. /\ wpc = "roots" /\ wpc' = "walk" /\ rootsLeft # <<>>
      /\ toVisit' = <<Head(rootsLeft)>> /\ rootsLeft' = Tail(rootsLeft)
      /\ UNCHANGED <<seen, file>> /\ UNCHANGED <<wireVars, dataVars, loadVars>>
  BY DEF WalkRoot, SeenBefore
<1>2. /\ Head(rootsLeft) \in Cids /\ Tail(rootsLeft) \in Seq(Cids)
      /\ Elements(rootsLeft) = {Head(rootsLeft)} \cup Elements(Tail(rootsLeft))
  BY <1>1, TailFacts DEF TypeOK
<1>3. /\ toVisit' \in Seq(Cids) /\ Elements(toVisit') = {Head(rootsLeft)}
      /\ toVisit = <<>> /\ Elements(toVisit) = {}
  BY <1>1, <1>2 DEF VisitInv, Elements
<1>4. TypeOK' /\ LoadInv'
  BY <1>1, <1>2, <1>3, WritingKeepsTypes, WritingKeepsLoad DEF TypeOK
<1>5. FileInv'
  BY <1>1, SameFileKeepsInv
<1>6. VisitInv'
  BY <1>1, <1>2, <1>3 DEF VisitInv
<1>7. LedInv'
  BY <1>1, <1>2, <1>3 DEF LedInv
<1> QED
  BY <1>4, <1>5, <1>6, <1>7

LEMMA PassNodeKeepsIInv ==
  ASSUME IInv, PassNode
  PROVE  IInv'
<1> USE DEF IInv
<1>1. /\ wpc = "walk" /\ wpc' = "walk" /\ toVisit # <<>>
      /\ Head(toVisit) \in seen /\ toVisit' = Tail(toVisit)
      /\ UNCHANGED <<rootsLeft, seen, file>>
      /\ UNCHANGED <<wireVars, dataVars, loadVars>>
  BY DEF PassNode
<1>2. /\ Tail(toVisit) \in Seq(Cids)
      /\ Elements(toVisit) = {Head(toVisit)} \cup Elements(Tail(toVisit))
  BY <1>1, TailFacts DEF TypeOK
<1>3. TypeOK' /\ LoadInv'
  BY <1>1, <1>2, WritingKeepsTypes, WritingKeepsLoad DEF TypeOK
<1>4. FileInv'
  BY <1>1, SameFileKeepsInv
<1>5. VisitInv'
  BY <1>1, <1>2 DEF VisitInv
<1>6. LedInv'
  BY <1>1, <1>2 DEF LedInv
<1> QED
  BY <1>3, <1>4, <1>5, <1>6

LEMMA WriteNodeKeepsIInv ==
  ASSUME IInv, WriteNode
  PROVE  IInv'
<1> USE DEF IInv
<1> DEFINE c == Head(toVisit)
           rest == Tail(toVisit)
<1>1. /\ wpc = "walk" /\ wpc' = "walk" /\ toVisit # <<>> /\ c \notin seen
      /\ seen' = seen \cup {c} /\ file' = Append(file, c)
      /\ toVisit' = Links[c] \o rest /\ rootsLeft' = rootsLeft
      /\ UNCHANGED <<wireVars, dataVars, loadVars>>
  BY DEF WriteNode
<1>2. /\ c \in Cids /\ rest \in Seq(Cids)
      /\ Elements(toVisit) = {c} \cup Elements(rest)
  BY <1>1, TailFacts DEF TypeOK
<1>3. Links[c] \in Seq(Cids)
  BY <1>2, CarAssumption
<1> HIDE DEF c, rest
<1>4. /\ toVisit' \in Seq(Cids)
      /\ Elements(toVisit') = Elements(Links[c]) \cup Elements(rest)
  BY <1>1, <1>2, <1>3, ConcatFacts
<1>5. /\ file \in Seq(Cids \cup {Header}) /\ file # <<>>
      /\ file[1] = Header /\ Blocks \in Seq(Cids) /\ Elements(Blocks) = seen
      /\ \A i, j \in 1..Len(Blocks) : Blocks[i] = Blocks[j] => i = j
  BY <1>1 DEF TypeOK, FileInv
<1>6. /\ file' \in Seq(Cids \cup {Header}) /\ file' # <<>> /\ file'[1] = Header
      /\ Tail(file') = Append(Blocks, c)
  <2>1. c \in Cids \cup {Header} /\ 1 \in 1..Len(file)
    BY <1>2, <1>5, SeqFacts
  <2> QED
    BY <1>1, <1>5, <2>1, AppendFacts DEF Blocks
<1> DEFINE new == Append(Blocks, c)
<1>7. /\ new \in Seq(Cids) /\ Elements(new) = seen \cup {c}
      /\ Len(new) = Len(Blocks) + 1 /\ new[Len(Blocks) + 1] = c
      /\ \A i \in 1..Len(Blocks) : new[i] = Blocks[i]
      /\ Len(Blocks) \in Nat
  BY <1>2, <1>5, AppendFacts, SeqFacts
<1> HIDE DEF new
<1>8. \A i, j \in 1..Len(new) : new[i] = new[j] => i = j
  <2>1. \A i \in 1..Len(new) : i \in 1..Len(Blocks) \/ i = Len(Blocks) + 1
    BY <1>7
  <2>2. \A i \in 1..Len(Blocks) : new[i] # c
    BY <1>1, <1>5, <1>7 DEF Elements
  <2> QED
    BY <1>5, <1>7, <2>1, <2>2
<1>9. TypeOK' /\ LoadInv'
  <2>1. seen' \subseteq Cids
    BY <1>1, <1>2 DEF TypeOK
  <2> QED
    BY <1>1, <1>4, <1>6, <2>1, WritingKeepsTypes, WritingKeepsLoad DEF TypeOK
<1>10. FileInv'
  <2>1. Blocks' = new
    BY <1>6 DEF new, Blocks
  <2> QED
    BY <1>1, <1>6, <1>7, <1>8, <2>1 DEF FileInv
<1>11. VisitInv'
  BY <1>1, <1>2, <1>4 DEF VisitInv
<1>12. LedInv'
  <2> SUFFICES ASSUME NEW S \in SUBSET Cids, Closed(S)
               PROVE  seen' \cup Elements(toVisit') \cup Elements(rootsLeft') \subseteq S
    BY DEF LedInv
  <2>1. seen \cup Elements(toVisit) \cup Elements(rootsLeft) \subseteq S
    BY DEF LedInv
  <2>2. Elements(Links[c]) \subseteq S
    BY <1>2, <2>1 DEF Closed
  <2> QED
    BY <1>1, <1>2, <1>4, <2>1, <2>2
<1> QED
  BY <1>9, <1>10, <1>11, <1>12

LEMMA WriteFailsKeepsIInv ==
  ASSUME IInv, WriteFails
  PROVE  IInv'
<1> USE DEF IInv
<1>1. /\ wpc \in {"header", "walk"} /\ wpc' = "failed"
      /\ \/ seen' = seen
         \/ toVisit # <<>> /\ seen' = seen \cup {Head(toVisit)}
      /\ UNCHANGED <<rootsLeft, toVisit, file>>
      /\ UNCHANGED <<wireVars, dataVars, loadVars>>
  BY DEF WriteFails
<1>2. seen' \subseteq seen \cup Elements(toVisit)
  BY <1>1, TailFacts DEF TypeOK
<1>3. TypeOK' /\ LoadInv'
  <2>1. Elements(toVisit) \subseteq Cids
    BY SeqFacts DEF TypeOK
  <2>2. seen' \subseteq Cids
    BY <1>2, <2>1 DEF TypeOK
  <2> QED
    BY <1>1, <2>2, WritingKeepsTypes, WritingKeepsLoad DEF TypeOK
<1>4. FileInv'
  BY <1>1 DEF FileInv, Blocks
<1>5. VisitInv' /\ LedInv'
  BY <1>1, <1>2 DEF VisitInv, LedInv
<1> QED
  BY <1>3, <1>4, <1>5

LEMMA WalkEndsKeepsIInv ==
  ASSUME IInv, WalkEnds
  PROVE  IInv'
<1> USE DEF IInv
<1>1. /\ wpc = "walk" /\ wpc' = "roots" /\ toVisit = <<>>
      /\ UNCHANGED <<rootsLeft, toVisit, seen, file>>
      /\ UNCHANGED <<wireVars, dataVars, loadVars>>
  BY DEF WalkEnds
<1>2. TypeOK' /\ LoadInv'
  BY <1>1, WritingKeepsTypes, WritingKeepsLoad DEF TypeOK
<1>3. FileInv'
  BY <1>1, SameFileKeepsInv
<1>4. VisitInv' /\ LedInv'
  BY <1>1 DEF VisitInv, LedInv
<1> QED
  BY <1>2, <1>3, <1>4

LEMMA WrittenKeepsIInv ==
  ASSUME IInv, Written
  PROVE  IInv'
<1> USE DEF IInv
<1>1. /\ wpc = "roots" /\ wpc' = "written" /\ rootsLeft = <<>>
      /\ ended' \in 0..(SectionBytes * Len(file))
      /\ damaged' \subseteq 2..Len(file)
      /\ blank' \subseteq (2..Len(file)) \ damaged'
      /\ UNCHANGED <<rootsLeft, toVisit, seen, file>>
      /\ UNCHANGED <<big, fast, rpc, taken, buf, stored, kept, storeFailed>>
  BY DEF Written, dataVars, loadVars
<1>2. TypeOK'
  BY <1>1 DEF TypeOK
<1>3. LoadInv'
  <2>1. /\ rpc' = "closed" /\ taken' = 0 /\ buf' = <<>> /\ stored' = <<>>
        /\ ~storeFailed'
    BY <1>1 DEF LoadInv
  <2>2. /\ \A i \in 1..taken' : FALSE
        /\ SectionBytes * taken' <= ended'
    BY <1>1, <2>1 DEF SectionBytes
  <2> QED
    BY <1>1, <2>1, <2>2 DEF LoadInv, WholeCarLoads
<1>4. FileInv'
  BY <1>1, SameFileKeepsInv
<1>5. VisitInv' /\ LedInv'
  BY <1>1 DEF VisitInv, LedInv
<1> QED
  BY <1>2, <1>3, <1>4, <1>5
-----------------------------------------------------------------------------
(* What is read of the next section, by how much of it is left.            *)
LEMMA SectionFacts ==
  ASSUME NEW big1 \in BOOLEAN, NEW left \in Nat, left <= 4
  PROVE  /\ LdRead(left, big1) = "section" <=> left = 4 /\ ~big1
         /\ LdRead(left, big1) = "EOF" => left \in {0, 2}
<1>1. left \in {0, 1, 2, 3, 4}
  OBVIOUS
<1>2. CASE left \in {0, 1}
  BY <1>2 DEF LdRead
<1>3. CASE left \in {2, 3, 4}
  <2>1. CASE big1
    BY <1>3, <2>1 DEF LdRead
  <2>2. CASE ~big1
    <3>0. left # 0 /\ left # 1 /\ left > 1 /\ ~(left > 1 /\ big1)
      BY <1>3, <2>2
    <3>1. LdRead(left, big1) = ReadBody(left)
      BY <2>2, <3>0, Zenon DEF LdRead
    <3>2. left = 2 => ReadBody(left) = "EOF"
      BY DEF ReadBody
    <3>3. left = 3 => ReadBody(left) = "unexpected EOF"
      BY DEF ReadBody
    <3>4. left = 4 => ReadBody(left) = "section"
      BY DEF ReadBody
    <3> QED
      BY <1>3, <2>2, <3>1, <3>2, <3>3, <3>4
  <2> QED
    BY <2>1, <2>2
<1> QED
  BY <1>1, <1>2, <1>3

(* The next section is read when all of it is there, it is not too big and *)
(* its length has not arrived as 0.                                        *)
LEMMA NextSectionFacts ==
  ASSUME TypeOK, LoadInv
  PROVE  /\ NextSection = "section" <=>
              /\ SectionBytes * (taken + 1) <= ended /\ file[taken + 1] \notin big
              /\ taken + 1 \notin blank
         /\ NextSection = "EOF" =>
              \/ ended \in {SectionBytes * taken, SectionBytes * taken + 2}
              \/ taken + 1 \in blank /\ SectionBytes * taken < ended
<1>1. ended \in Nat /\ taken \in Nat /\ 4 * taken <= ended
  <2>1. Len(file) \in Nat
    BY SeqFacts DEF TypeOK
  <2> QED
    BY <2>1 DEF TypeOK, LoadInv, SectionBytes
<1>2. /\ BytesLeft \in Nat /\ BytesLeft <= 4
      /\ BytesLeft = 4 <=> 4 * (taken + 1) <= ended
      /\ BytesLeft # 4 => ended = 4 * taken + BytesLeft
  BY <1>1 DEF BytesLeft, SectionBytes
<1> HIDE DEF BytesLeft
<1>3. (file[taken + 1] \in big) \in BOOLEAN
  OBVIOUS
<1> DEFINE read == LdRead(BytesLeft, file[taken + 1] \in big)
<1>4. /\ read = "section" <=> BytesLeft = 4 /\ file[taken + 1] \notin big
      /\ read = "EOF" => BytesLeft \in {0, 2}
  BY <1>2, <1>3, SectionFacts
<1> HIDE DEF read
<1>5. CASE BlankEnds
  <2>1. NextSection = "EOF" /\ taken + 1 \in blank /\ BytesLeft > 0
    BY <1>5 DEF NextSection, BlankEnds
  <2>2. 4 * taken < ended
    BY <1>1, <1>2, <2>1
  <2> QED
    BY <2>1, <2>2 DEF SectionBytes
<1>6. CASE ~BlankEnds
  <2>1. NextSection = read
    BY <1>6 DEF NextSection, read
  <2>2. taken + 1 \notin blank \/ BytesLeft = 0
    BY <1>2, <1>6 DEF BlankEnds
  <2> QED
    BY <1>1, <1>2, <1>4, <2>1, <2>2 DEF SectionBytes
<1> QED
  BY <1>5, <1>6

(* Loading leaves the file alone.                                          *)
LEMMA ReadingKeepsFile ==
  ASSUME FileInv, VisitInv, LedInv, UNCHANGED writeVars
  PROVE  FileInv' /\ VisitInv' /\ LedInv'
BY DEF writeVars, FileInv, VisitInv, LedInv, Blocks

(* One more block.                                                         *)
LEMMA OneMoreHolds ==
  ASSUME NEW s \in Seq(Cids), taken \in Nat, taken >= 1, Holds(s, taken),
         NEW b \in Cids, b = file[taken + 1]
  PROVE  Holds(Append(s, b), taken + 1)
<1> DEFINE n == Len(s)
           t == Append(s, b)
<1>1. n \in Nat /\ n = taken - 1 /\ \A i \in 1..n : s[i] = file[i + 1]
  BY SeqFacts DEF Holds
<1>2. Len(t) = n + 1 /\ t[n + 1] = b /\ \A i \in 1..n : t[i] = s[i]
  BY AppendFacts
<1> HIDE DEF n, t
<1>3. \A i \in 1..(n + 1) : i \in 1..n \/ i = n + 1
  BY <1>1
<1>4. (n + 1) + 1 = taken + 1 /\ n + 1 = (taken + 1) - 1
  BY <1>1
<1>5. \A i \in 1..Len(t) : t[i] = file[i + 1]
  BY <1>1, <1>2, <1>3, <1>4
<1> QED
  BY <1>2, <1>4, <1>5 DEF Holds, t

(* A store that fails has been given a part of the blocks.                 *)
LEMMA PutFailsFacts ==
  ASSUME stored \in Seq(Cids), NEW blks \in Seq(Cids), PutFails(blks)
  PROVE  /\ stored' \in Seq(Cids) /\ Len(stored') <= Len(stored) + Len(blks)
         /\ Len(stored') \in Nat
         /\ rpc' = "failed" /\ storeFailed' = TRUE
<1>1. PICK n \in 0..Len(blks) : stored' = stored \o SubSeq(blks, 1, n)
  BY DEF PutFails
<1>2. Len(stored) \in Nat /\ Len(blks) \in Nat /\ n \in Nat /\ n <= Len(blks)
  BY SeqFacts
<1>3. SubSeq(blks, 1, n) \in Seq(Cids) /\ Len(SubSeq(blks, 1, n)) = n
  BY PrefixFacts
<1>4. stored' \in Seq(Cids) /\ Len(stored') = Len(stored) + n
  BY <1>1, <1>3, ConcatFacts
<1> QED
  BY <1>2, <1>4 DEF PutFails

(* While sections are read.                                                *)
LEMMA ReadingFacts ==
  ASSUME IInv, rpc \in {"next", "flush"}
  PROVE  /\ wpc = "written" /\ file # <<>>
         /\ taken \in Nat /\ taken >= 1 /\ taken <= Len(file) /\ Len(file) \in Nat
         /\ stored \in Seq(Cids) /\ buf \in Seq(Cids)
         /\ stored \o buf \in Seq(Cids) /\ Holds(stored \o buf, taken)
         /\ Len(stored) \in Nat /\ Len(buf) \in Nat
         /\ Len(stored) + Len(buf) = taken - 1
         /\ taken # Len(file) =>
              taken + 1 \in 1..Len(file) /\ file[taken + 1] \in Cids
         /\ ended \in Nat
<1> USE DEF IInv
<1>1. /\ wpc = "written" /\ file # <<>> /\ taken >= 1
      /\ Holds(stored \o buf, taken)
  BY DEF LoadInv, FileInv
<1>2. stored \in Seq(Cids) /\ buf \in Seq(Cids) /\ taken \in 0..Len(file)
  BY DEF TypeOK
<1>3. Len(file) \in Nat /\ taken \in Nat /\ taken <= Len(file)
  BY <1>1, <1>2, BlockFacts
<1>4. Len(stored) \in Nat /\ Len(buf) \in Nat
  BY <1>2, SeqFacts
<1>5. stored \o buf \in Seq(Cids) /\ Len(stored \o buf) = Len(stored) + Len(buf)
  BY <1>2, ConcatFacts
<1>6. Len(stored) + Len(buf) = taken - 1
  BY <1>1, <1>5 DEF Holds
<1>7. taken # Len(file) => taken + 1 \in 1..Len(file) /\ taken + 1 \in 2..Len(file)
  BY <1>1, <1>3
<1>8. taken # Len(file) => file[taken + 1] \in Cids
  BY <1>1, <1>7, BlockFacts
<1>9. ended \in Nat
  BY <1>3 DEF TypeOK, SectionBytes
<1> QED
  BY <1>1, <1>2, <1>3, <1>4, <1>5, <1>6, <1>7, <1>8, <1>9

(* LoadCar fails before the store has been given any more.                 *)
LEMMA OpenKeepsIInv ==
  ASSUME IInv, OpenCar
  PROVE  IInv'
<1> USE DEF IInv
<1>1. /\ wpc = "written" /\ rpc = "closed"
      /\ UNCHANGED writeVars
      /\ UNCHANGED <<ended, damaged, blank, big, fast>>
      /\ UNCHANGED <<buf, stored, kept, storeFailed>>
      /\ wpc' = wpc /\ file' = file
  BY DEF OpenCar, writeVars, wireVars, dataVars
<1>2. \/ NextSection = "section" /\ Roots # <<>> /\ rpc' = "next" /\ taken' = 1
      \/ /\ NextSection # "section" \/ Roots = <<>>
         /\ rpc' = "failed" /\ taken' = 0
  BY DEF OpenCar, LoadInv
<1>3. /\ taken = 0 /\ buf = <<>> /\ stored = <<>> /\ file # <<>>
      /\ file[1] = Header
  BY <1>1 DEF LoadInv, FileInv
<1>4. /\ Len(file) \in Nat /\ Len(file) >= 1 /\ 1 \in 1..Len(file)
      /\ file[1] \notin big /\ 1 \notin damaged \cup blank
  <2>1. Len(file) \in Nat /\ Len(file) >= 1 /\ 1 \in 1..Len(file) /\ 1 \notin 2..Len(file)
    BY <1>3, BlockFacts
  <2> QED
    BY <1>3, <2>1, CarAssumption DEF TypeOK
<1>5. ended \in Nat /\ (NextSection = "section" <=> 4 <= ended)
  BY <1>3, <1>4, NextSectionFacts DEF SectionBytes, TypeOK
<1>6. FileInv' /\ VisitInv' /\ LedInv'
  BY <1>1, ReadingKeepsFile
<1>7. taken' \in 0..Len(file) /\ rpc' \in {"next", "failed"}
  BY <1>2, <1>4
<1>8. TypeOK'
  <2>1. UNCHANGED <<rootsLeft, toVisit, seen>>
    BY <1>1 DEF writeVars
  <2> QED
    BY <1>1, <1>7, <2>1 DEF TypeOK
<1>9. LoadInv'
  <2>1. SectionBytes * taken' <= ended
    BY <1>2, <1>5 DEF SectionBytes
  <2>2. \A i \in 1..taken' : file[i] \notin big /\ i \notin damaged \cup blank
    <3>1. taken' = 0 => \A i \in 1..taken' : FALSE
      OBVIOUS
    <3>2. taken' = 1 => \A i \in 1..taken' : i = 1
      OBVIOUS
    <3> QED
      BY <1>2, <1>4, <3>1, <3>2
  <2>3. rpc' = "next" => Holds(stored \o buf, 1)
    <3>1. stored \o buf = <<>>
      BY <1>3
    <3> QED
      BY <3>1 DEF Holds
  <2>4. WholeCarLoads'
    <3>1. NextSection # "section" => ended < SectionBytes * Len(file)
      BY <1>4, <1>5 DEF SectionBytes
    <3> QED
      BY <1>1, <1>2, <3>1 DEF WholeCarLoads
  <2> QED
    BY <1>1, <1>2, <1>3, <2>1, <2>2, <2>3, <2>4 DEF LoadInv, Holds
<1> QED
  BY <1>6, <1>8, <1>9

LEMMA NextFailsKeepsIInv ==
  ASSUME IInv, NextFails
  PROVE  IInv'
<1> USE DEF IInv
<1>1. /\ rpc = "next" /\ ~AtEnd /\ rpc' = "failed"
      /\ NextSection # "section" \/ taken + 1 \in damaged
      /\ UNCHANGED writeVars
      /\ UNCHANGED <<ended, damaged, blank, big, fast>>
      /\ UNCHANGED <<taken, buf, stored, kept, storeFailed>>
      /\ wpc' = wpc /\ file' = file
  BY DEF NextFails, writeVars, wireVars, dataVars
<1>2. FileInv' /\ VisitInv' /\ LedInv'
  BY <1>1, ReadingKeepsFile
<1>3. TypeOK'
  <2>1. UNCHANGED <<rootsLeft, toVisit, seen>>
    BY <1>1 DEF writeVars
  <2> QED
    BY <1>1, <2>1 DEF TypeOK
<1>4. WholeCarLoads'
  <2>1. taken # Len(file)
    BY <1>1 DEF AtEnd
  <2>2. CASE taken + 1 \in damaged
    BY <1>1, <2>2 DEF WholeCarLoads
  <2>3. CASE NextSection # "section"
    <3>1. /\ taken \in Nat /\ Len(file) \in Nat /\ taken + 1 <= Len(file)
          /\ ended \in Nat /\ taken + 1 \in 1..Len(file)
      BY <1>1, <2>1, ReadingFacts
    <3>0. taken + 1 \notin blank
      <4> SUFFICES ASSUME taken + 1 \in blank PROVE FALSE
        OBVIOUS
      <4>1. NextSection # "EOF"
        BY <1>1 DEF AtEnd
      <4>2. BytesLeft = 0
        BY <3>1, <4>1 DEF NextSection, BlankEnds, BytesLeft, LoadInv, SectionBytes
      <4>3. NextSection = "EOF"
        BY <4>2 DEF NextSection, BlankEnds, LdRead
      <4> QED
        BY <4>1, <4>3
    <3>2. CASE file[taken + 1] \in big
      BY <1>1, <3>1, <3>2 DEF WholeCarLoads, Elements
    <3>3. CASE ~(4 * (taken + 1) <= ended)
      <4>1. ended < 4 * Len(file)
        BY <3>1, <3>3
      <4> QED
        BY <1>1, <4>1 DEF WholeCarLoads, SectionBytes
    <3> QED
      BY <2>3, <3>0, <3>2, <3>3, NextSectionFacts DEF SectionBytes
  <2> QED
    BY <1>1, <2>2, <2>3
<1>5. LoadInv'
  <2>1. wpc = "written"
    BY <1>1, ReadingFacts
  <2> QED
    BY <1>1, <1>4, <2>1 DEF LoadInv
<1> QED
  BY <1>2, <1>3, <1>5

(* The section that is taken is whole, not too big and not damaged.        *)
LEMMA TakenFacts ==
  ASSUME IInv, NextBlock
  PROVE  /\ rpc = "next" /\ taken' = taken + 1
         /\ taken + 1 \in 1..Len(file) /\ file[taken + 1] \in Cids
         /\ SectionBytes * taken' <= ended
         /\ \A i \in 1..taken' : file[i] \notin big /\ i \notin damaged \cup blank
         /\ Holds(Append(stored \o buf, file[taken + 1]), taken + 1)
<1> USE DEF IInv
<1>1. /\ rpc = "next" /\ taken' = taken + 1 /\ taken # Len(file)
      /\ NextSection = "section" /\ taken + 1 \notin damaged
  BY DEF NextBlock, AtEnd
<1>2. /\ taken \in Nat /\ taken >= 1 /\ Len(file) \in Nat
      /\ taken + 1 \in 1..Len(file) /\ file[taken + 1] \in Cids
      /\ stored \o buf \in Seq(Cids) /\ Holds(stored \o buf, taken)
  BY <1>1, ReadingFacts
<1>3. /\ SectionBytes * (taken + 1) <= ended /\ file[taken + 1] \notin big
      /\ taken + 1 \notin blank
  BY <1>1, NextSectionFacts
<1>4. \A i \in 1..(taken + 1) : i \in 1..taken \/ i = taken + 1
  BY <1>2
<1>5. \A i \in 1..taken' : file[i] \notin big /\ i \notin damaged \cup blank
  BY <1>1, <1>3, <1>4 DEF LoadInv
<1>6. Holds(Append(stored \o buf, file[taken + 1]), taken + 1)
  BY <1>2, OneMoreHolds
<1> QED
  BY <1>1, <1>2, <1>3, <1>5, <1>6

(* A step of the loader: what is to show of it.                            *)
LEMMA ReadStep ==
  ASSUME IInv, rpc \in {"next", "flush"},
         UNCHANGED writeVars, UNCHANGED <<wireVars, dataVars>>,
         taken' \in 1..Len(file), SectionBytes * taken' <= ended,
         \A i \in 1..taken' : file[i] \notin big /\ i \notin damaged \cup blank,
         buf' \in Seq(Cids), stored' \in Seq(Cids), ~fast => buf' = <<>>,
         kept' \in Seq(Seq(Cids)),
         Len(stored') < taken',
         \/ /\ rpc' \in {"next", "flush"} /\ storeFailed' = storeFailed
            /\ Holds(stored' \o buf', taken')
         \/ /\ rpc' = "returned" /\ storeFailed' = storeFailed
            /\ Holds(stored', taken') /\ AtEnd'
         \/ rpc' = "failed" /\ storeFailed' = TRUE
  PROVE  IInv'
<1> USE DEF IInv
<1>1. /\ UNCHANGED <<wpc, rootsLeft, toVisit, seen, file>>
      /\ UNCHANGED <<ended, damaged, blank, big, fast>>
  BY DEF writeVars, wireVars, dataVars
<1>2. FileInv' /\ VisitInv' /\ LedInv'
  BY ReadingKeepsFile
<1>3. wpc = "written" /\ Len(file) \in Nat
  BY ReadingFacts
<1>4. taken' \in 0..Len(file) /\ taken' >= 1
  BY <1>3
<1>5. TypeOK'
  <2>1. rpc' \in {"closed", "next", "flush", "returned", "failed"}
        /\ storeFailed' \in BOOLEAN
    BY DEF TypeOK
  <2> QED
    BY <1>1, <1>4, <2>1 DEF TypeOK
<1>6. WholeCarLoads'
  BY DEF WholeCarLoads
<1>7. LoadInv'
  BY <1>1, <1>3, <1>4, <1>6 DEF LoadInv, Holds
<1> QED
  BY <1>2, <1>5, <1>7

LEMMA LoadSlowKeepsIInv ==
  ASSUME IInv, LoadSlow
  PROVE  IInv'
<1> DEFINE b == file[taken + 1]
<1>1. /\ ~fast /\ NextBlock
      /\ \/ /\ stored' = Append(stored, b)
            /\ rpc' = rpc /\ storeFailed' = storeFailed
         \/ PutFails(<<b>>)
      /\ UNCHANGED writeVars /\ UNCHANGED <<wireVars, dataVars>> /\ buf' = buf
      /\ kept' = kept /\ kept \in Seq(Seq(Cids))
  BY DEF LoadSlow, IInv, TypeOK
<1>2. /\ rpc = "next" /\ taken' = taken + 1
      /\ taken' \in 1..Len(file) /\ b \in Cids
      /\ SectionBytes * taken' <= ended
      /\ \A i \in 1..taken' : file[i] \notin big /\ i \notin damaged \cup blank
      /\ Holds(Append(stored \o buf, b), taken + 1)
  BY <1>1, TakenFacts
<1>3. /\ taken \in Nat /\ taken >= 1
      /\ stored \in Seq(Cids) /\ Len(stored) \in Nat /\ Len(buf) \in Nat
      /\ Len(stored) + Len(buf) = taken - 1
  BY <1>2, ReadingFacts
<1>4. buf = <<>> /\ stored \o buf = stored
  BY <1>1, <1>3 DEF IInv, LoadInv
<1> HIDE DEF b
<1>5. CASE /\ stored' = Append(stored, b)
           /\ rpc' = rpc /\ storeFailed' = storeFailed
  <2>1. /\ stored' \in Seq(Cids) /\ Len(stored') = Len(stored) + 1
        /\ stored' \o buf = stored'
    BY <1>2, <1>3, <1>4, <1>5, AppendFacts
  <2>2. Len(stored') < taken'
    BY <1>2, <1>3, <1>4, <2>1
  <2>3. Holds(stored' \o buf', taken')
    BY <1>1, <1>2, <1>4, <1>5, <2>1
  <2>4. buf' \in Seq(Cids) /\ buf' = <<>>
    BY <1>1, <1>4
  <2> QED
    BY <1>1, <1>2, <1>5, <2>1, <2>2, <2>3, <2>4, ReadStep
<1>6. CASE PutFails(<<b>>)
  <2>1. <<b>> \in Seq(Cids) /\ Len(<<b>>) = 1
    BY <1>2
  <2>2. /\ stored' \in Seq(Cids) /\ Len(stored') <= Len(stored) + 1
        /\ Len(stored') \in Nat /\ rpc' = "failed" /\ storeFailed' = TRUE
    BY <1>3, <1>6, <2>1, PutFailsFacts
  <2>3. Len(stored') < taken'
    BY <1>2, <1>3, <1>4, <2>2
  <2>4. buf' \in Seq(Cids) /\ buf' = <<>>
    BY <1>1, <1>4
  <2> QED
    BY <1>1, <1>2, <2>2, <2>3, <2>4, ReadStep
<1> QED
  BY <1>1, <1>5, <1>6

(* new shows what old does, but x in the place k.                          *)
ShowInstead(new, old, k, x) ==
  /\ Len(new) = Len(old)
  /\ \A n \in 1..Len(old) :
       /\ Len(old[n]) \in Nat /\ Len(new[n]) = Len(old[n])
       /\ \A i \in 1..Len(old[n]) :
            new[n][i] = IF i = k THEN x ELSE old[n][i]

(* What the kept slices show after one more block.                         *)
LEMMA OverwrittenFacts ==
  ASSUME NEW S, NEW slices \in Seq(Seq(S)), NEW k \in Nat, NEW x \in S
  PROVE  /\ Overwritten(slices, k, x) \in Seq(Seq(S))
         /\ ShowInstead(Overwritten(slices, k, x), slices, k, x)
<1> DEFINE new == Overwritten(slices, k, x)
<1>1. Len(slices) \in Nat /\ \A n \in 1..Len(slices) : slices[n] \in Seq(S)
  OBVIOUS
<1>2. ASSUME NEW t \in Seq(S)
      PROVE  /\ [t EXCEPT ![k] = x] \in Seq(S) /\ Len(t) \in Nat
             /\ Len([t EXCEPT ![k] = x]) = Len(t)
             /\ \A i \in 1..Len(t) :
                  [t EXCEPT ![k] = x][i] = IF i = k THEN x ELSE t[i]
  <2>1. /\ Len(t) \in Nat /\ t \in [1..Len(t) -> S]
    OBVIOUS
  <2>2. [t EXCEPT ![k] = x] \in [1..Len(t) -> S]
    BY <2>1
  <2>3. [t EXCEPT ![k] = x] \in Seq(S)
    BY <2>1, <2>2
  <2>4. Len([t EXCEPT ![k] = x]) = Len(t)
    BY <2>1, <2>2, <2>3
  <2>5. \A i \in 1..Len(t) : [t EXCEPT ![k] = x][i] = IF i = k THEN x ELSE t[i]
    BY <2>1
  <2> QED
    BY <2>1, <2>3, <2>4, <2>5
<1>3. new = [n \in 1..Len(slices) |-> [slices[n] EXCEPT ![k] = x]]
  BY DEF Overwritten
<1> HIDE DEF new
<1>4. new \in [1..Len(slices) -> Seq(S)]
  BY <1>1, <1>2, <1>3
<1>5. new \in Seq(Seq(S)) /\ Len(new) = Len(slices)
  <2> DEFINE T == Seq(S)
             m == Len(slices)
  <2>1. new \in [1..m -> T] /\ m \in Nat
    BY <1>1, <1>4
  <2> HIDE DEF T, m
  <2>2. new \in Seq(T) /\ Len(new) = m
    BY <2>1
  <2> QED
    BY <2>2 DEF T, m
<1>6. \A n \in 1..Len(slices) : new[n] = [slices[n] EXCEPT ![k] = x]
  BY <1>3
<1>7. ASSUME NEW n \in 1..Len(slices)
      PROVE  /\ Len(slices[n]) \in Nat /\ Len(new[n]) = Len(slices[n])
             /\ \A i \in 1..Len(slices[n]) :
                  new[n][i] = IF i = k THEN x ELSE slices[n][i]
  <2> DEFINE t == slices[n]
  <2>1. t \in Seq(S) /\ new[n] = [t EXCEPT ![k] = x]
    BY <1>1, <1>6
  <2> HIDE DEF t
  <2>2. /\ Len(t) \in Nat /\ Len(new[n]) = Len(t)
        /\ \A i \in 1..Len(t) : new[n][i] = IF i = k THEN x ELSE t[i]
    BY <1>2, <2>1
  <2> QED
    BY <2>1, <2>2 DEF t
<1> QED
  BY <1>5, <1>7 DEF new, ShowInstead

(* One more slice.                                                         *)
LEMMA OneMoreKept ==
  ASSUME IInv, buf \in Seq(Cids), kept' = Append(kept, buf)
  PROVE  kept' \in Seq(Seq(Cids))
BY AppendFacts DEF IInv, TypeOK

LEMMA LoadFastKeepsIInv ==
  ASSUME IInv, LoadFast
  PROVE  IInv'
<1> DEFINE b == file[taken + 1]
<1>1. /\ fast /\ NextBlock
      /\ buf' = Append(buf, b) /\ rpc' \in {"next", "flush"}
      /\ UNCHANGED writeVars /\ UNCHANGED <<wireVars, dataVars>>
      /\ stored' = stored /\ storeFailed' = storeFailed
      /\ kept' = Overwritten(kept, Len(buf) + 1, b)
  BY DEF LoadFast
<1>2. /\ rpc = "next" /\ taken' = taken + 1
      /\ taken' \in 1..Len(file) /\ b \in Cids
      /\ SectionBytes * taken' <= ended
      /\ \A i \in 1..taken' : file[i] \notin big /\ i \notin damaged \cup blank
      /\ Holds(Append(stored \o buf, b), taken + 1)
  BY <1>1, TakenFacts
<1>3. /\ taken \in Nat /\ stored \in Seq(Cids) /\ buf \in Seq(Cids)
      /\ Len(stored) \in Nat /\ Len(buf) \in Nat
      /\ Len(stored) + Len(buf) = taken - 1
  BY <1>2, ReadingFacts
<1> HIDE DEF b
<1>4. /\ Append(buf, b) \in Seq(Cids)
      /\ stored \o Append(buf, b) = Append(stored \o buf, b)
  BY <1>2, <1>3, AppendFacts
<1>5. Holds(stored' \o buf', taken') /\ buf' \in Seq(Cids)
  BY <1>1, <1>2, <1>4
<1>6. Len(stored') < taken' /\ stored' \in Seq(Cids)
  BY <1>1, <1>2, <1>3
<1>7. kept' \in Seq(Seq(Cids))
  <2>1. kept \in Seq(Seq(Cids)) /\ Len(buf) + 1 \in Nat
    BY <1>3 DEF IInv, TypeOK
  <2> QED
    BY <1>1, <1>2, <2>1, OverwrittenFacts
<1> QED
  BY <1>1, <1>2, <1>5, <1>6, <1>7, ReadStep

LEMMA FlushKeepsIInv ==
  ASSUME IInv, Flush
  PROVE  IInv'
<1>1. /\ rpc = "flush"
      /\ \/ /\ stored' = stored \o buf /\ buf' = <<>>
            /\ rpc' = "next" /\ storeFailed' = storeFailed
         \/ PutFails(buf) /\ buf' = buf
      /\ UNCHANGED writeVars /\ UNCHANGED <<wireVars, dataVars>>
      /\ taken' = taken /\ kept' = Append(kept, buf)
  BY DEF Flush, EmptiedBuf
<1>2. /\ taken \in Nat /\ taken >= 1 /\ taken <= Len(file) /\ Len(file) \in Nat
      /\ stored \in Seq(Cids) /\ buf \in Seq(Cids)
      /\ stored \o buf \in Seq(Cids) /\ Holds(stored \o buf, taken)
      /\ Len(stored) \in Nat /\ Len(buf) \in Nat
      /\ Len(stored) + Len(buf) = taken - 1
  BY <1>1, ReadingFacts
<1>0. kept' \in Seq(Seq(Cids))
  BY <1>1, <1>2, OneMoreKept
<1>3. /\ taken' \in 1..Len(file) /\ SectionBytes * taken' <= ended
      /\ \A i \in 1..taken' : file[i] \notin big /\ i \notin damaged \cup blank
      /\ ~fast => buf = <<>>
  BY <1>1, <1>2 DEF IInv, LoadInv
<1>4. CASE /\ stored' = stored \o buf /\ buf' = <<>>
           /\ rpc' = "next" /\ storeFailed' = storeFailed
  <2>1. stored' \o buf' = stored' /\ stored' \in Seq(Cids) /\ buf' \in Seq(Cids)
    BY <1>2, <1>4
  <2>2. Len(stored') = taken - 1
    BY <1>2, <1>4 DEF Holds
  <2>3. Len(stored') < taken'
    BY <1>1, <1>2, <2>2
  <2>4. Holds(stored' \o buf', taken')
    BY <1>1, <1>2, <1>4, <2>1
  <2> QED
    BY <1>0, <1>1, <1>3, <1>4, <2>1, <2>3, <2>4, ReadStep
<1>5. CASE PutFails(buf) /\ buf' = buf
  <2>1. /\ stored' \in Seq(Cids) /\ Len(stored') <= Len(stored) + Len(buf)
        /\ Len(stored') \in Nat /\ rpc' = "failed" /\ storeFailed' = TRUE
    BY <1>2, <1>5, PutFailsFacts
  <2>2. Len(stored') < taken'
    BY <1>1, <1>2, <2>1
  <2> QED
    BY <1>0, <1>1, <1>2, <1>3, <1>5, <2>1, <2>2, ReadStep
<1> QED
  BY <1>1, <1>4, <1>5

LEMMA LoadEndsKeepsIInv ==
  ASSUME IInv, LoadEnds
  PROVE  IInv'
<1>1. /\ rpc = "next" /\ AtEnd
      /\ \/ /\ stored' = stored \o buf
            /\ rpc' = "returned" /\ storeFailed' = storeFailed
         \/ PutFails(buf)
      /\ UNCHANGED writeVars /\ UNCHANGED <<wireVars, dataVars>>
      /\ taken' = taken /\ buf' = buf
      /\ kept' = kept \/ kept' = Append(kept, buf)
  BY DEF LoadEnds
<1>2. /\ taken \in Nat /\ taken >= 1 /\ taken <= Len(file) /\ Len(file) \in Nat
      /\ stored \in Seq(Cids) /\ buf \in Seq(Cids)
      /\ stored \o buf \in Seq(Cids) /\ Holds(stored \o buf, taken)
      /\ Len(stored) \in Nat /\ Len(buf) \in Nat
      /\ Len(stored) + Len(buf) = taken - 1
  BY <1>1, ReadingFacts
<1>0. kept' \in Seq(Seq(Cids))
  BY <1>1, <1>2, OneMoreKept DEF IInv, TypeOK
<1>3. /\ taken' \in 1..Len(file) /\ SectionBytes * taken' <= ended
      /\ \A i \in 1..taken' : file[i] \notin big /\ i \notin damaged \cup blank
      /\ ~fast => buf = <<>>
  BY <1>1, <1>2 DEF IInv, LoadInv
<1>4. CASE /\ stored' = stored \o buf
           /\ rpc' = "returned" /\ storeFailed' = storeFailed
  <2>1. Len(stored') = taken - 1
    BY <1>2, <1>4 DEF Holds
  <2>2. Len(stored') < taken' /\ stored' \in Seq(Cids)
    BY <1>1, <1>2, <1>4, <2>1
  <2>3. Holds(stored', taken')
    BY <1>1, <1>2, <1>4
  <2>4. AtEnd'
    BY <1>1 DEF AtEnd, NextSection, BlankEnds, BytesLeft,
                writeVars, wireVars, dataVars
  <2> QED
    BY <1>0, <1>1, <1>2, <1>3, <1>4, <2>2, <2>3, <2>4, ReadStep
<1>5. CASE PutFails(buf)
  <2>1. /\ stored' \in Seq(Cids) /\ Len(stored') <= Len(stored) + Len(buf)
        /\ Len(stored') \in Nat /\ rpc' = "failed" /\ storeFailed' = TRUE
    BY <1>2, <1>5, PutFailsFacts
  <2>2. Len(stored') < taken'
    BY <1>1, <1>2, <2>1
  <2> QED
    BY <1>0, <1>1, <1>2, <1>3, <2>1, <2>2, ReadStep
<1> QED
  BY <1>1, <1>4, <1>5
-----------------------------------------------------------------------------
LEMMA InitIInv == Init => IInv
<1> SUFFICES ASSUME Init PROVE IInv
  OBVIOUS
<1>1. /\ wpc = "header" /\ rootsLeft = Roots /\ toVisit = <<>> /\ seen = {}
      /\ file = <<>> /\ ended = 0 /\ damaged = {} /\ blank = {}
      /\ big \subseteq Cids /\ kept = <<>>
      /\ fast \in BOOLEAN /\ rpc = "closed" /\ taken = 0 /\ buf = <<>>
      /\ stored = <<>> /\ storeFailed = FALSE
  BY DEF Init
<1>2. /\ Len(file) = 0 /\ Elements(toVisit) = {} /\ \A i \in 1..taken : FALSE
  BY <1>1 DEF Elements
<1>3. TypeOK
  <2>1. rootsLeft \in Seq(Cids)
    BY <1>1, CarAssumption
  <2>2. /\ toVisit \in Seq(Cids) /\ buf \in Seq(Cids) /\ stored \in Seq(Cids)
        /\ kept \in Seq(Seq(Cids))
    BY <1>1
  <2>3. file \in Seq(Cids \cup {Header})
    BY <1>1
  <2>4. ended \in 0..(SectionBytes * Len(file)) /\ taken \in 0..Len(file)
    BY <1>1, <1>2 DEF SectionBytes
  <2> QED
    BY <1>1, <2>1, <2>2, <2>3, <2>4 DEF TypeOK
<1>4. FileInv
  BY <1>1 DEF FileInv
<1>5. VisitInv
  BY <1>1 DEF VisitInv
<1>6. LedInv
  BY <1>1, <1>2 DEF LedInv, Closed
<1>7. LoadInv
  BY <1>1, <1>2 DEF LoadInv, WholeCarLoads, SectionBytes
<1> QED
  BY <1>3, <1>4, <1>5, <1>6, <1>7 DEF IInv

LEMMA StepKeepsIInv ==
  ASSUME IInv, [Next]_vars
  PROVE  IInv'
<1>1. CASE Next
  BY <1>1, HeaderKeepsIInv, WalkRootKeepsIInv, PassNodeKeepsIInv,
     WriteNodeKeepsIInv, WriteFailsKeepsIInv, WalkEndsKeepsIInv,
     WrittenKeepsIInv, OpenKeepsIInv, NextFailsKeepsIInv, LoadSlowKeepsIInv,
     LoadFastKeepsIInv, FlushKeepsIInv, LoadEndsKeepsIInv
  DEF Next
<1>2. CASE UNCHANGED vars
  <2>1. /\ UNCHANGED writeVars /\ wpc' = wpc /\ file' = file
        /\ UNCHANGED <<rootsLeft, toVisit, seen>>
        /\ UNCHANGED <<ended, damaged, blank, big, fast>>
        /\ UNCHANGED <<rpc, taken, buf, stored, kept, storeFailed>>
    BY <1>2 DEF vars, writeVars, wireVars, dataVars, loadVars
  <2>2. FileInv' /\ VisitInv' /\ LedInv'
    BY <2>1, ReadingKeepsFile DEF IInv
  <2>3. TypeOK'
    BY <2>1 DEF IInv, TypeOK
  <2>4. LoadInv'
    BY <2>1
    DEF IInv, LoadInv, Holds, AtEnd, NextSection, BlankEnds, BytesLeft, WholeCarLoads
  <2> QED
    BY <2>2, <2>3, <2>4 DEF IInv
<1> QED
  BY <1>1, <1>2

(* IInv is an invariant of every instance.                                 *)
THEOREM IInvInvariant == Spec => []IInv
BY InitIInv, StepKeepsIInv, PTL DEF Spec

(* What holds the blocks of the first n sections is a prefix of the blocks.*)
LEMMA HoldsIsPrefix ==
  ASSUME TypeOK, FileInv, file # <<>>, NEW n \in 1..Len(file),
         NEW s \in Seq(Cids), Holds(s, n)
  PROVE  /\ s = SubSeq(Blocks, 1, n - 1)
         /\ n = Len(file) => s = Blocks
<1>1. /\ Blocks \in Seq(Cids) /\ Len(Blocks) = Len(file) - 1
      /\ Len(file) \in Nat
      /\ \A i \in 1..Len(Blocks) : Blocks[i] = file[i + 1]
  BY BlockFacts
<1> DEFINE m == n - 1
           t == SubSeq(Blocks, 1, m)
<1>2. m \in 0..Len(Blocks) /\ \A i \in 1..m : i \in 1..Len(Blocks)
  BY <1>1
<1>3. t \in Seq(Cids) /\ Len(t) = m /\ \A i \in 1..m : t[i] = Blocks[i]
  BY <1>1, <1>2, PrefixFacts
<1>4. Len(s) = m /\ \A i \in 1..m : s[i] = file[i + 1]
  BY DEF Holds
<1>5. \A i \in 1..m : s[i] = Blocks[i]
  BY <1>1, <1>2, <1>4
<1> HIDE DEF t
<1>6. s = t
  <2> HIDE DEF m
  <2>1. \A i \in 1..Len(s) : s[i] = t[i]
    BY <1>3, <1>4, <1>5
  <2> QED
    BY <1>3, <1>4, <2>1, SeqEqual
<1>7. ASSUME n = Len(file) PROVE s = Blocks
  <2>1. m = Len(Blocks)
    BY <1>1, <1>7
  <2> HIDE DEF m
  <2>2. \A i \in 1..Len(s) : s[i] = Blocks[i]
    BY <1>4, <1>5
  <2> QED
    BY <1>1, <1>4, <2>1, <2>2, SeqEqual
<1> QED
  BY <1>6, <1>7 DEF t

(* The state invariant, in every instance: what the store has been given   *)
(* (w3s/car.go:461-515).                                                   *)
THEOREM StoreIsGivenAPrefix == Spec => []CarInv
<1>1. ASSUME IInv PROVE CarInv
  <2>1. ASSUME rpc \in {"next", "flush"}
        PROVE  stored \o buf = SubSeq(Blocks, 1, taken - 1)
    <3>1. /\ file # <<>> /\ stored \o buf \in Seq(Cids)
          /\ Holds(stored \o buf, taken) /\ taken \in 1..Len(file)
      BY <1>1, <2>1, ReadingFacts
    <3> QED
      BY <1>1, <3>1, HoldsIsPrefix DEF IInv
  <2>2. ASSUME NEW i \in damaged \cup blank PROVE Len(stored) < i - 1
    <3>1. i \in 2..Len(file) /\ Len(file) \in Nat /\ taken \in 0..Len(file)
      BY <1>1, SeqFacts DEF IInv, TypeOK
    <3>2. i > taken
      BY <1>1, <3>1 DEF IInv, LoadInv
    <3>3. stored = <<>> => Len(stored) = 0
      OBVIOUS
    <3>4. Len(stored) \in Nat /\ (stored = <<>> \/ Len(stored) < taken)
      BY <1>1, SeqFacts DEF IInv, TypeOK, LoadInv
    <3> QED
      BY <3>1, <3>2, <3>3, <3>4
  <2> QED
    BY <1>1, <2>1, <2>2 DEF CarInv, StoredPrefix, IInv
<1> QED
  BY <1>1, IInvInvariant, PTL

(* What is known when LoadCar has returned without an error.               *)
LEMMA ReturnedFacts ==
  ASSUME IInv, rpc = "returned"
  PROVE  /\ file # <<>> /\ taken \in 1..Len(file) /\ Len(file) \in Nat
         /\ stored \in Seq(Cids) /\ Holds(stored, taken)
         /\ ended \in Nat /\ ended <= 4 * Len(file)
         /\ \/ ended \in {4 * taken, 4 * taken + 2}
            \/ taken + 1 \in blank /\ 4 * taken < ended
<1>1. /\ wpc = "written" /\ taken >= 1 /\ Holds(stored, taken) /\ AtEnd
      /\ file # <<>> /\ 4 * taken <= ended
  BY DEF IInv, LoadInv, FileInv, SectionBytes
<1>2. /\ Len(file) \in Nat /\ taken \in 0..Len(file)
      /\ ended \in 0..(4 * Len(file)) /\ stored \in Seq(Cids)
  BY SeqFacts DEF IInv, TypeOK, SectionBytes
<1>3. CASE taken = Len(file)
  <2>1. ended = 4 * taken
    BY <1>1, <1>2, <1>3
  <2> QED
    BY <1>1, <1>2, <2>1
<1>4. CASE NextSection = "EOF"
  <2>1. \/ ended \in {4 * taken, 4 * taken + 2}
        \/ taken + 1 \in blank /\ 4 * taken < ended
    BY <1>4, NextSectionFacts DEF IInv, SectionBytes
  <2> QED
    BY <1>1, <1>2, <2>1
<1> QED
  BY <1>1, <1>3, <1>4 DEF AtEnd

(* What a load that succeeds has stored, and where it stopped reading      *)
(* (w3s/car.go:574-577, 436, 615-638), in every instance: for any stream,  *)
(* the store has exactly the blocks before that place, and only a length   *)
(* that arrived as 0 lets the load succeed with whole sections left.       *)
THEOREM SuccessStopsForAReason == Spec => []SuccessExplained
<1>1. ASSUME IInv, rpc = "returned"
      PROVE  SuccessExplained
  <2> DEFINE n == Len(stored)
  <2>1. /\ taken \in 1..Len(file) /\ Len(file) \in Nat /\ file # <<>>
        /\ stored \in Seq(Cids) /\ Holds(stored, taken) /\ ended \in Nat
        /\ \/ ended \in {4 * taken, 4 * taken + 2}
           \/ taken + 1 \in blank /\ 4 * taken < ended
    BY <1>1, ReturnedFacts
  <2>2. /\ taken \in Nat /\ n = taken - 1 /\ n + 2 = taken + 1
        /\ (n + 2) - 1 = taken
        /\ \A i \in 1..n : stored[i] = file[i + 1]
    BY <2>1 DEF Holds
  <2>3. stored = SubSeq(Blocks, 1, n)
    BY <1>1, <2>1, <2>2, HoldsIsPrefix DEF IInv
  <2>4. \A i \in 1..taken : file[i] \notin big
    BY <1>1 DEF IInv, LoadInv
  <2>5. Elements(stored) \cap big = {}
    <3>1. \A i \in 1..n : i + 1 \in 1..taken
      BY <2>2
    <3> QED
      BY <2>2, <2>4, <3>1 DEF Elements
  <2>6. CASE ended \in {4 * taken, 4 * taken + 2}
    <3>1. ended % 4 \in {0, 2} /\ ended \div 4 = taken
      BY <2>2, <2>6
    <3>2. ended % SectionBytes \in {0, 2} /\ n = (ended \div SectionBytes) - 1
      BY <2>2, <3>1 DEF SectionBytes
    <3> QED
      BY <2>3, <2>5, <3>2 DEF SuccessExplained
  <2>7. CASE taken + 1 \in blank /\ 4 * taken < ended
    <3>1. n + 2 \in blank /\ SectionBytes * ((n + 2) - 1) < ended
      BY <2>2, <2>7 DEF SectionBytes
    <3> QED
      BY <2>3, <2>5, <3>1 DEF SuccessExplained
  <2> QED
    BY <2>1, <2>6, <2>7
<1>2. IInv => SuccessExplained
  BY <1>1 DEF SuccessExplained
<1> QED
  BY <1>2, IInvInvariant, PTL

(* The slices that PutMany was given, and how long a batch can be.         *)
SlicesInv ==
  /\ wpc # "written" \/ rpc = "closed" \/ ~fast => kept = <<>>
  /\ rpc = "next" => Len(buf) <= BatchLimit
  /\ rpc = "flush" => Len(buf) = BatchLimit + 1
  /\ SlicesAreReused
  /\ rpc \in {"next", "flush"} /\ kept # <<>> => BatchLimit + 1 <= Len(stored)

LEMMA LoadFastKeepsSlices ==
  ASSUME IInv, SlicesInv, LoadFast
  PROVE  SlicesInv'
<1> DEFINE b == file[taken + 1]
           m == Len(buf)
<1>1. /\ fast /\ NextBlock /\ buf' = Append(buf, b)
      /\ rpc' = IF Len(buf') > BatchLimit THEN "flush" ELSE "next"
      /\ UNCHANGED <<wpc, fast, stored>>
      /\ kept' = Overwritten(kept, m + 1, b)
  BY DEF LoadFast, writeVars, dataVars
<1>2. rpc = "next" /\ b \in Cids
  BY <1>1, TakenFacts
<1>3. /\ wpc = "written" /\ buf \in Seq(Cids) /\ m \in Nat
      /\ Len(stored) \in Nat /\ kept \in Seq(Seq(Cids)) /\ BatchLimit \in Nat
  BY <1>2, ReadingFacts, CarAssumption DEF IInv, TypeOK
<1>4. m <= BatchLimit
  BY <1>2 DEF SlicesInv
<1> HIDE DEF b, m
<1>5. Len(buf') = m + 1 /\ buf'[m + 1] = b /\ \A i \in 1..m : buf'[i] = buf[i]
  BY <1>1, <1>2, <1>3, AppendFacts DEF m
<1>6. /\ Len(kept') = Len(kept)
      /\ \A n \in 1..Len(kept) :
           /\ Len(kept[n]) \in Nat /\ Len(kept'[n]) = Len(kept[n])
           /\ \A i \in 1..Len(kept[n]) :
                kept'[n][i] = IF i = m + 1 THEN b ELSE kept[n][i]
  <2> DEFINE k == m + 1
  <2>1. k \in Nat /\ kept' = Overwritten(kept, k, b)
    BY <1>1, <1>3
  <2> HIDE DEF k
  <2>2. /\ Len(kept') = Len(kept)
        /\ \A n \in 1..Len(kept) :
             /\ Len(kept[n]) \in Nat /\ Len(kept'[n]) = Len(kept[n])
             /\ \A i \in 1..Len(kept[n]) :
                  kept'[n][i] = IF i = k THEN b ELSE kept[n][i]
    <3>1. kept \in Seq(Seq(Cids)) /\ b \in Cids
      BY <1>2, <1>3
    <3>2. ShowInstead(kept', kept, k, b)
      BY <2>1, <3>1, OverwrittenFacts
    <3> QED
      BY <3>2 DEF ShowInstead
  <2> QED
    BY <2>2 DEF k
<1>7. /\ rpc' \in {"next", "flush"} /\ rpc' # "closed"
      /\ rpc' = "next" => Len(buf') <= BatchLimit
      /\ rpc' = "flush" => Len(buf') = BatchLimit + 1
  BY <1>1, <1>3, <1>4, <1>5
<1>8. ASSUME NEW n \in 1..Len(kept')
      PROVE  /\ Len(kept'[n]) = BatchLimit + 1
             /\ \A i \in 1..Len(kept'[n]) :
                  kept'[n][i] = IF i <= Len(buf') THEN buf'[i]
                                ELSE stored'[Len(stored') - Len(kept'[n]) + i]
  <2>1. /\ n \in 1..Len(kept) /\ Len(kept'[n]) = Len(kept[n])
        /\ Len(kept[n]) = BatchLimit + 1
        /\ \A i \in 1..Len(kept[n]) :
             kept[n][i] = IF i <= m THEN buf[i]
                          ELSE stored[Len(stored) - Len(kept[n]) + i]
    BY <1>2, <1>6 DEF SlicesInv, SlicesAreReused, m
  <2> SUFFICES ASSUME NEW i \in 1..Len(kept[n])
               PROVE  kept'[n][i] = IF i <= m + 1 THEN buf'[i]
                                    ELSE stored[Len(stored) - Len(kept[n]) + i]
    BY <1>1, <1>5, <2>1
  <2>2. kept'[n][i] = IF i = m + 1 THEN b ELSE kept[n][i]
    BY <1>6, <2>1
  <2>3. CASE i <= m
    BY <1>3, <1>5, <2>1, <2>2, <2>3
  <2>4. CASE i = m + 1
    BY <1>3, <1>5, <2>2, <2>4
  <2>5. CASE i > m + 1
    <3>1. ~(i <= m) /\ ~(i <= m + 1) /\ i # m + 1
      BY <1>3, <2>1, <2>5
    <3> QED
      BY <2>1, <2>2, <3>1
  <2> QED
    BY <1>3, <2>1, <2>3, <2>4, <2>5
<1>9. SlicesAreReused'
  BY <1>8 DEF SlicesAreReused
<1>10. kept' # <<>> => BatchLimit + 1 <= Len(stored')
  <2>1. kept' # <<>> => kept # <<>>
    BY <1>3, <1>6, SeqFacts, OverwrittenFacts, <1>1, <1>2
  <2> QED
    BY <1>1, <1>2, <2>1 DEF SlicesInv
<1> QED
  BY <1>1, <1>3, <1>7, <1>9, <1>10 DEF SlicesInv

LEMMA FlushKeepsSlices ==
  ASSUME IInv, SlicesInv, Flush
  PROVE  SlicesInv'
<1>1. /\ rpc = "flush" /\ UNCHANGED <<wpc, fast>>
      /\ kept' = Append(kept, buf)
      /\ \/ stored' = stored \o buf /\ buf' = <<>> /\ rpc' = "next"
         \/ rpc' = "failed"
  BY DEF Flush, EmptiedBuf, PutFails, writeVars, dataVars
<1>2. /\ wpc = "written" /\ buf \in Seq(Cids) /\ stored \in Seq(Cids)
      /\ Len(buf) = BatchLimit + 1 /\ Len(stored) \in Nat
      /\ kept \in Seq(Seq(Cids)) /\ BatchLimit \in Nat
  BY <1>1, ReadingFacts, CarAssumption DEF IInv, TypeOK, SlicesInv
<1>3. fast
  <2>1. buf # <<>>
    BY <1>2
  <2> QED
    BY <2>1 DEF IInv, LoadInv
<1>4. CASE rpc' = "failed"
  BY <1>1, <1>2, <1>3, <1>4 DEF SlicesInv, SlicesAreReused
<1>5. CASE stored' = stored \o buf /\ buf' = <<>> /\ rpc' = "next"
  <2>1. /\ Len(kept) \in Nat /\ Len(kept') = Len(kept) + 1
        /\ kept'[Len(kept) + 1] = buf
        /\ \A n \in 1..Len(kept) : kept'[n] = kept[n]
    BY <1>1, <1>2, AppendFacts, SeqFacts
  <2>2. /\ Len(stored') = Len(stored) + (BatchLimit + 1) /\ Len(buf') = 0
        /\ \A i \in 1..(BatchLimit + 1) : stored'[Len(stored) + i] = buf[i]
    <3>1. /\ Len(stored \o buf) = Len(stored) + Len(buf)
          /\ \A i \in 1..Len(buf) : (stored \o buf)[Len(stored) + i] = buf[i]
      <4>1. /\ stored \in Seq(Cids) /\ buf \in Seq(Cids)
            /\ Len(stored) \in Nat /\ Len(buf) \in Nat
        BY <1>2
      <4>2. Len(stored \o buf) = Len(stored) + Len(buf)
        BY <4>1
      <4> QED
        BY <4>1, <4>2
    <3>2. Len(buf') = 0
      BY <1>5
    <3> QED
      BY <1>2, <1>5, <3>1, <3>2
  <2>3. \A n \in 1..Len(kept) :
          /\ Len(kept[n]) = BatchLimit + 1
          /\ \A i \in 1..Len(kept[n]) :
               kept[n][i] = IF i <= Len(buf) THEN buf[i]
                            ELSE stored[Len(stored) - Len(kept[n]) + i]
    BY <1>1 DEF SlicesInv, SlicesAreReused
  <2>4. ASSUME NEW n \in 1..Len(kept')
        PROVE  /\ Len(kept'[n]) = BatchLimit + 1
               /\ \A i \in 1..(BatchLimit + 1) : kept'[n][i] = buf[i]
    <3>1. CASE n = Len(kept) + 1
      BY <1>2, <2>1, <3>1
    <3>2. CASE n \in 1..Len(kept)
      <4>1. Len(kept[n]) = BatchLimit + 1 /\ kept'[n] = kept[n]
        BY <2>1, <2>3, <3>2
      <4>2. \A i \in 1..(BatchLimit + 1) : i <= Len(buf) /\ i \in 1..Len(kept[n])
        BY <1>2, <4>1
      <4>3. \A i \in 1..(BatchLimit + 1) : kept[n][i] = buf[i]
        BY <2>3, <3>2, <4>2
      <4> QED
        BY <4>1, <4>3
    <3> QED
      BY <2>1, <3>1, <3>2
  <2>5. SlicesAreReused'
    <3> SUFFICES ASSUME NEW n \in 1..Len(kept')
                 PROVE  /\ Len(kept'[n]) = BatchLimit + 1
                        /\ \A i \in 1..Len(kept'[n]) :
                             kept'[n][i] =
                               IF i <= Len(buf') THEN buf'[i]
                               ELSE stored'[Len(stored') - Len(kept'[n]) + i]
      BY DEF SlicesAreReused
    <3>1. /\ Len(kept'[n]) = BatchLimit + 1
          /\ \A i \in 1..(BatchLimit + 1) : kept'[n][i] = buf[i]
      BY <2>4
    <3>2. Len(stored') - (BatchLimit + 1) = Len(stored)
      BY <1>2, <2>2
    <3>3. \A i \in 1..(BatchLimit + 1) : ~(i <= Len(buf'))
      BY <2>2
    <3> QED
      BY <2>2, <3>1, <3>2, <3>3
  <2>6. BatchLimit + 1 <= Len(stored') /\ Len(buf') <= BatchLimit
    BY <1>2, <2>2
  <2> QED
    BY <1>1, <1>2, <1>3, <1>5, <2>5, <2>6 DEF SlicesInv
<1> QED
  BY <1>1, <1>4, <1>5

LEMMA StepKeepsSlices ==
  ASSUME IInv, SlicesInv, [Next]_vars
  PROVE  SlicesInv'
<1>1. ASSUME wpc # "written", UNCHANGED loadVars PROVE SlicesInv'
  <2>1. rpc = "closed" /\ kept = <<>> /\ UNCHANGED <<rpc, buf, stored, kept>>
    BY <1>1 DEF IInv, LoadInv, SlicesInv, loadVars
  <2> QED
    BY <2>1 DEF SlicesInv, SlicesAreReused
<1>2. CASE OpenCar
  <2>1. rpc = "closed" /\ rpc' \in {"next", "failed"} /\ UNCHANGED <<buf, kept>>
    BY <1>2 DEF OpenCar
  <2>2. kept = <<>> /\ buf = <<>>
    BY <2>1 DEF SlicesInv, IInv, LoadInv
  <2>3. Len(buf') <= BatchLimit /\ kept' = <<>> /\ Len(kept') = 0
    BY <2>1, <2>2, CarAssumption
  <2> QED
    BY <2>1, <2>3 DEF SlicesInv, SlicesAreReused
<1>3. CASE NextFails
  <2>1. /\ rpc = "next" /\ rpc' = "failed" /\ kept' = kept
        /\ UNCHANGED <<wpc, fast>>
    BY <1>3 DEF NextFails, writeVars, dataVars
  <2> QED
    BY <2>1 DEF SlicesInv, SlicesAreReused
<1>4. CASE LoadSlow
  <2>1. /\ ~fast /\ fast' = fast /\ kept' = kept /\ buf' = buf
        /\ rpc = "next" /\ rpc' \in {"next", "failed"}
    BY <1>4, TakenFacts DEF LoadSlow, PutFails, dataVars
  <2>2. kept' = <<>> /\ Len(kept') = 0
    BY <2>1 DEF SlicesInv
  <2> QED
    BY <2>1, <2>2 DEF SlicesInv, SlicesAreReused
<1>5. CASE LoadEnds
  <2>1. /\ rpc = "next" /\ rpc' \in {"returned", "failed"}
        /\ UNCHANGED <<wpc, fast>>
        /\ kept' = IF buf = <<>> THEN kept ELSE Append(kept, buf)
    BY <1>5 DEF LoadEnds, PutFails, writeVars, dataVars
  <2>2. wpc = "written" /\ (~fast => kept' = <<>>)
    BY <2>1, ReadingFacts DEF IInv, LoadInv, SlicesInv
  <2> QED
    BY <2>1, <2>2 DEF SlicesInv, SlicesAreReused
<1>6. CASE UNCHANGED vars
  BY <1>6 DEF vars, writeVars, dataVars, loadVars, SlicesInv, SlicesAreReused
<1>7. CASE WriteHeader
  BY <1>1, <1>7 DEF WriteHeader
<1>8. CASE WalkRoot
  BY <1>1, <1>8 DEF WalkRoot
<1>9. CASE PassNode
  BY <1>1, <1>9 DEF PassNode
<1>10. CASE WriteNode
  BY <1>1, <1>10 DEF WriteNode
<1>11. CASE WriteFails
  BY <1>1, <1>11 DEF WriteFails
<1>12. CASE WalkEnds
  BY <1>1, <1>12 DEF WalkEnds
<1>13. CASE Written
  BY <1>1, <1>13 DEF Written
<1> QED
  BY <1>2, <1>3, <1>4, <1>5, <1>6, <1>7, <1>8, <1>9, <1>10, <1>11, <1>12, <1>13,
     LoadFastKeepsSlices, FlushKeepsSlices
  DEF Next

(* A slice that PutMany keeps is overwritten by the later batches          *)
(* (w3s/car.go:491-496), in every instance and for batches of any length.  *)
THEOREM KeptSlicesAreOverwritten == Spec => []SlicesAreReused
<1>1. Init => SlicesInv
  BY DEF Init, SlicesInv, SlicesAreReused
<1>2. IInv /\ SlicesInv /\ [Next]_vars => SlicesInv'
  BY StepKeepsSlices
<1>3. SlicesInv => SlicesAreReused
  BY DEF SlicesInv
<1> QED
  BY <1>1, <1>2, <1>3, IInvInvariant, PTL DEF Spec

(* A whole CAR loads (w3s/car.go:398-515), in every instance.              *)
THEOREM FailuresHaveAReason == Spec => []WholeCarLoads
<1>1. IInv => WholeCarLoads
  BY DEF IInv, LoadInv
<1> QED
  BY <1>1, IInvInvariant, PTL

(* A sequence without repetitions is as long as the set of its elements.   *)
LEMMA DistinctFacts ==
  ASSUME NEW S, NEW s \in Seq(S),
         \A i, j \in 1..Len(s) : s[i] = s[j] => i = j
  PROVE  Len(s) = Cardinality(Elements(s))
<1> DEFINE n == Len(s)
           f == [i \in 1..n |-> s[i]]
<1>1. n \in Nat
  OBVIOUS
<1>2. f \in [1..n -> Elements(s)]
  BY DEF Elements
<1>3. \A i, j \in 1..n : f[i] = f[j] => i = j
  OBVIOUS
<1>4. \A x \in Elements(s) : \E i \in 1..n : f[i] = x
  BY DEF Elements
<1> HIDE DEF n, f
<1>5. f \in Bijection(1..n, Elements(s))
  BY <1>2, <1>3, <1>4, Fun_IsBij
<1>6. ExistsBijection(1..n, Elements(s))
  BY <1>5, Fun_ExistsBij
<1> QED
  BY <1>1, <1>6, FS_CountingElements DEF n

(* A CAR of several roots holds every node they lead to exactly once, and  *)
(* loads as it was written (w3s/car.go:336-342, 474-515), in every         *)
(* instance.                                                               *)
THEOREM CarsRoundTrip == Spec => []RoundTrip
<1>1. ASSUME IInv, wpc = "written"
      PROVE  /\ Elements(Blocks) = Reachable
             /\ Len(Blocks) = Cardinality(Reachable)
  <2>1. /\ Elements(Blocks) = seen /\ Blocks \in Seq(Cids)
        /\ \A i, j \in 1..Len(Blocks) : Blocks[i] = Blocks[j] => i = j
    BY <1>1 DEF IInv, FileInv
  <2>2. toVisit = <<>> /\ rootsLeft = <<>> /\ seen \subseteq Cids
    BY <1>1 DEF IInv, VisitInv, TypeOK
  <2>3. Elements(toVisit) = {} /\ Elements(rootsLeft) = {}
    BY <2>2 DEF Elements
  <2>4. Closed(seen)
    BY <1>1, <2>3 DEF IInv, VisitInv, Closed
  <2>5. Reachable \subseteq seen
    BY <2>2, <2>4 DEF Reachable
  <2>6. seen \subseteq Reachable
    BY <1>1, <2>2 DEF IInv, LedInv, Reachable
  <2>7. Elements(Blocks) = Reachable
    BY <2>1, <2>5, <2>6
  <2>8. Len(Blocks) = Cardinality(Elements(Blocks))
    <3> DEFINE s == Blocks
    <3>1. s \in Seq(Cids) /\ \A i, j \in 1..Len(s) : s[i] = s[j] => i = j
      BY <2>1
    <3> HIDE DEF s
    <3>2. Len(s) = Cardinality(Elements(s))
      BY <3>1, DistinctFacts
    <3> QED
      BY <3>2 DEF s
  <2> QED
    BY <2>7, <2>8
<1>2. ASSUME IInv, rpc = "returned", ended = SectionBytes * Len(file), blank = {}
      PROVE  stored = Blocks
  <2>1. /\ file # <<>> /\ taken \in 1..Len(file) /\ Len(file) \in Nat
        /\ stored \in Seq(Cids) /\ Holds(stored, taken)
        /\ ended \in {4 * taken, 4 * taken + 2}
    BY <1>2, ReturnedFacts
  <2>2. taken = Len(file)
    BY <1>2, <2>1 DEF SectionBytes
  <2> QED
    BY <1>2, <2>1, <2>2, HoldsIsPrefix DEF IInv
<1>3. IInv => RoundTrip
  BY <1>1, <1>2 DEF RoundTrip
<1> QED
  BY <1>3, IInvInvariant, PTL
=============================================================================

-------------------------- MODULE FileStoreProofs --------------------------
(***************************************************************************)
(* Proofs about the files of one node, for any requests, earlier requests  *)
(* and contents: that IInv is an inductive invariant of FileStore, and     *)
(* that the properties TLC checks follow from it.                          *)
(***************************************************************************)
EXTENDS FileStore, GoSliceProofs, FiniteSetTheorems, WellFoundedInduction,
        TLAPS

Names == Requests \cup {Nil}

(* r has its array: it is in its append, or has appended.                  *)
Holds(r) == pc[r] = "store" \/ r \in appended

(* What a request has read is a content, in the repository once the block  *)
(* is put, and what the pin names is pinned: the same content, unless the  *)
(* file has changed in between.                                            *)
StageInv ==
  \A r \in Requests :
    /\ pc[r] \in {"block", "pin", "append", "store", "publish"} => read[r] \in Contents
    /\ pc[r] \in {"block", "pin"} /\ r \notin stale => read[r] = disk
    /\ pc[r] \in {"pin", "append", "store", "publish"} \/ r \in appended =>
         read[r] \in blocks
    /\ pc[r] \in {"append", "store", "publish"} \/ r \in appended =>
         /\ cid[r] \in pins \cup {Undef}
         /\ cid[r] # Undef /\ r \notin stale => cid[r] = read[r]
    /\ announced[r] \in pins \cup {Nil, Undef}
    /\ pc[r] = "ok" => announced[r] \in pins \cup {Undef}
    /\ r \in appended => pc[r] \in {"publish", "ok", "error"}
    /\ r \in appended /\ pc[r] = "ok" => announced[r] = cid[r]

(* The slice and the slices the appends will store lie within arrays of    *)
(* requests that hold one, and the fields in these arrays are of such      *)
(* requests.                                                               *)
SliceInv ==
  /\ arr[Nil] = <<>>
  /\ hdr.len <= Len(arr[hdr.arr])
  /\ hdr.arr = Nil \/ Holds(hdr.arr)
  /\ \A a \in Names : \A i \in 1..Len(arr[a]), f \in Fields :
       arr[a][i][f] = Nil \/ Holds(arr[a][i][f])
  /\ \A r \in Requests : pc[r] = "store" =>
       /\ target[r].arr \in Requests /\ Holds(target[r].arr)
       /\ target[r].len \in 1..Len(arr[target[r].arr])

(* Every array has the fields of an entry at the place its append chose.   *)
PlaceInv ==
  \A a \in Names : \A i \in 1..Len(arr[a]), f \in Fields :
    arr[a][i][f] # Nil => i = target[arr[a][i][f]].len

(* The slices are no longer than the appends that have begun.              *)
Begun == appended \cup Appending

CountInv ==
  /\ IsFiniteSet(Begun)
  /\ hdr.len <= Cardinality(Begun)
  /\ \A q \in Appending : target[q].len <= Cardinality(Begun)

(* An entry whose append overlapped no other stays where it was stored.    *)
ListInv ==
  Listing(Requests, arr, hdr, target, todo, Appending, appended, clashed)

IInv ==
  /\ TypeOK
  /\ StageInv
  /\ SliceInv
  /\ PlaceInv
  /\ CountInv
  /\ ListInv
-----------------------------------------------------------------------------
(* A nonempty set of naturals has a least element.                         *)
LEMMA NatHasLeast ==
  ASSUME NEW T \in SUBSET Nat, T # {}
  PROVE  \E m \in T : \A k \in T : m <= k
<1>1. PICK m \in T : \A k \in T : ~(<<k, m>> \in OpToRel(<, Nat))
  <2>1. IsWellFoundedOn(OpToRel(<, Nat), Nat)
    BY NatLessThanWellFounded
  <2> QED
    BY <2>1, WFMin
<1>2. \A k \in T : ~(k < m)
  BY <1>1 DEF OpToRel
<1> QED
  BY <1>2

(* A first part of FilesAfter: its values up to k.                         *)
FilesUpTo(k, f) ==
  f = [n \in 0..k |-> IF n = 0 THEN [arr |-> NoArrays, hdr |-> NilSlice]
                               ELSE AfterAppend(f[n - 1], Earlier[n])]

(* The recursion of FilesAfter has a solution up to every k.               *)
LEMMA FilesUpToExists ==
  \A k \in Nat : \E f : FilesUpTo(k, f)
<1> DEFINE Fails == {k \in Nat : ~ \E f : FilesUpTo(k, f)}
           empty == [arr |-> NoArrays, hdr |-> NilSlice]
<1>1. SUFFICES ASSUME Fails # {} PROVE FALSE
  OBVIOUS
<1>2. PICK m \in Fails : \A k \in Fails : m <= k
  BY <1>1, NatHasLeast
<1>3. m # 0
  <2>1. FilesUpTo(0, [n \in 0..0 |-> empty])
    BY DEF FilesUpTo
  <2> QED
    BY <2>1
<1>4. PICK f : FilesUpTo(m - 1, f)
  BY <1>2, <1>3
<1> DEFINE g == [n \in 0..m |-> IF n = m THEN AfterAppend(f[m - 1], Earlier[m])
                                         ELSE f[n]]
<1>5. \A n \in 0..m : g[n] = IF n = 0 THEN empty
                                      ELSE AfterAppend(g[n - 1], Earlier[n])
  <2> SUFFICES ASSUME NEW n \in 0..m
               PROVE  g[n] = IF n = 0 THEN empty
                                      ELSE AfterAppend(g[n - 1], Earlier[n])
    OBVIOUS
  <2>1. CASE n = m
    <3>1. n - 1 \in 0..m /\ n - 1 # m /\ n # 0
      BY <1>3, <2>1
    <3>2. g[n - 1] = f[m - 1]
      BY <3>1, <2>1
    <3> QED
      BY <3>1, <3>2, <2>1
  <2>2. CASE n # m
    <3>1. n \in 0..(m - 1)
      BY <2>2
    <3>2. g[n] = f[n]
      BY <2>2
    <3>3. f[n] = IF n = 0 THEN empty ELSE AfterAppend(f[n - 1], Earlier[n])
      BY <1>4, <3>1 DEF FilesUpTo
    <3>4. n # 0 => g[n - 1] = f[n - 1]
      BY <3>1
    <3> QED
      BY <3>2, <3>3, <3>4
  <2> QED
    BY <2>1, <2>2
<1>6. FilesUpTo(m, g)
  <2>1. g = [n \in 0..m |-> g[n]]
    OBVIOUS
  <2> HIDE DEF g
  <2> QED
    BY <2>1, <1>5 DEF FilesUpTo
<1> QED
  BY <1>6

(* FilesAfter satisfies the equation that defines it.                      *)
LEMMA FilesAfterDef ==
  \A n \in 0..Len(Earlier) :
    FilesAfter[n] = IF n = 0 THEN [arr |-> NoArrays, hdr |-> NilSlice]
                             ELSE AfterAppend(FilesAfter[n - 1], Earlier[n])
<1>1. Len(Earlier) \in Nat
  BY FileAssumption
<1>2. PICK f : FilesUpTo(Len(Earlier), f)
  BY <1>1, FilesUpToExists
<1>3. FilesUpTo(Len(Earlier), FilesAfter)
  BY <1>2 DEF FilesUpTo, FilesAfter
<1> QED
  BY <1>1, <1>3 DEF FilesUpTo

Entries == [Fields -> Names]

(* The store of an element changes one place of one array.                 *)
LEMMA ElementFacts ==
  ASSUME NEW S, NEW V, NEW A \in [S -> Seq(V)], NEW a \in S,
         NEW k \in 1..Len(A[a]), NEW e \in V
  PROVE  LET B == [A EXCEPT ![a][k] = e]
         IN /\ B \in [S -> Seq(V)]
            /\ \A b \in S : Len(B[b]) = Len(A[b])
            /\ \A b \in S : \A i \in 1..Len(A[b]) :
                 B[b][i] = IF b = a /\ i = k THEN e ELSE A[b][i]
<1> DEFINE q == [A[a] EXCEPT ![k] = e]
           B == [A EXCEPT ![a] = q]
<1>1. A[a] \in Seq(V)
  OBVIOUS
<1>2. q \in Seq(V) /\ Len(q) = Len(A[a])
  BY <1>1
<1>3. \A i \in 1..Len(A[a]) : q[i] = IF i = k THEN e ELSE A[a][i]
  BY <1>1
<1> HIDE DEF q
<1>4. /\ B \in [S -> Seq(V)] /\ B[a] = q
      /\ \A b \in S : b # a => B[b] = A[b]
  BY <1>2
<1>5. [A EXCEPT ![a][k] = e] = B
  BY DEF q
<1> HIDE DEF B
<1>6. \A b \in S : Len(B[b]) = Len(A[b])
  BY <1>2, <1>4
<1>7. \A b \in S : \A i \in 1..Len(A[b]) :
        B[b][i] = IF b = a /\ i = k THEN e ELSE A[b][i]
  BY <1>3, <1>4
<1> QED
  BY <1>4, <1>5, <1>6, <1>7

(* The files after n earlier requests: the slice lists them in order, and  *)
(* every array has what it has of them in their places.                    *)
FilesHold(files, n) ==
  /\ files.arr \in [Names -> Seq(Entries)] /\ files.arr[Nil] = <<>>
  /\ files.hdr \in [arr : Names, len : Nat]
  /\ files.hdr.len = n /\ n <= Len(files.arr[files.hdr.arr])
  /\ files.hdr.arr \in Answered \cup {Nil}
  /\ \A i \in 1..n : files.arr[files.hdr.arr][i] = Whole(Earlier[i])
  /\ \A a \in Names : \A i \in 1..Len(files.arr[a]) :
       \/ files.arr[a][i] = Zero
       \/ i <= n /\ files.arr[a][i] = Whole(Earlier[i])

(* One append lists one more request.                                      *)
LEMMA AfterAppendHolds ==
  ASSUME NEW files, NEW n \in Nat, n + 1 \in DOMAIN Earlier,
         FilesHold(files, n)
  PROVE  FilesHold(AfterAppend(files, Earlier[n + 1]), n + 1)
<1> DEFINE A    == files.arr
           h    == files.hdr
           r    == Earlier[n + 1]
           room == WithRoom(A, h, r)
           next == NextHeader(A, h, r)
           B    == [room EXCEPT ![next.arr][next.len] = Whole(r)]
<1>1. /\ r \in Requests /\ r \in Answered /\ r # Nil
      /\ Whole(r) \in Entries /\ Zero \in Entries
  <2>1. r \in Requests /\ r \in Answered /\ r # Nil
    BY FileAssumption DEF Answered
  <2> HIDE DEF r
  <2> QED
    BY <2>1 DEF Whole, Zero, Entries, Names
<1>2. SliceFits(Names, Entries, A, h, r)
  BY <1>1 DEF SliceFits, FilesHold, Names
<1>3. RoomMade(Names, Entries, A, h, r)
  BY <1>2, RoomFacts
<1>4. \A i \in 1..n : room[next.arr][i] = Whole(Earlier[i])
  <2>1. \A i \in 1..h.len : room[next.arr][i] = A[h.arr][i]
    BY <1>2, RoomCopies
  <2>2. h.len = n /\ \A i \in 1..n : A[h.arr][i] = Whole(Earlier[i])
    BY DEF FilesHold
  <2> HIDE DEF room, next, A, h
  <2> QED
    BY <2>1, <2>2
<1>5. \A a \in Names : \A i \in 1..Len(room[a]) :
        \/ room[a][i] = Zero
        \/ i <= n /\ room[a][i] = Whole(Earlier[i])
  <2> SUFFICES ASSUME NEW a \in Names, NEW i \in 1..Len(room[a])
               PROVE  \/ room[a][i] = Zero
                      \/ i <= n /\ room[a][i] = Whole(Earlier[i])
    OBVIOUS
  <2>1. CASE room[a] = A[a]
    BY <2>1 DEF FilesHold
  <2>2. CASE room[a][i] = IF i <= h.len THEN A[h.arr][i] ELSE Zero
    <3>1. h.len = n /\ \A j \in 1..n : A[h.arr][j] = Whole(Earlier[j])
      BY DEF FilesHold
    <3>2. i \in Nat /\ i >= 1
      <4>1. room[a] \in Seq(Entries)
        BY <1>3 DEF RoomMade
      <4> HIDE DEF room
      <4> QED
        BY <4>1
    <3> HIDE DEF room, A, h
    <3> QED
      BY <2>2, <3>1, <3>2
  <2> QED
    BY <1>1, <1>3, <2>1, <2>2 DEF RoomMade
<1>6. /\ room \in [Names -> Seq(Entries)]
      /\ next \in [arr : Names, len : Nat]
      /\ next.arr # Nil /\ next.arr \in {r, h.arr}
      /\ next.len = n + 1 /\ next.len \in 1..Len(room[next.arr])
  BY <1>3 DEF RoomMade, FilesHold
<1>7. room[Nil] = <<>>
  BY <1>1, <1>3 DEF RoomMade, FilesHold, Names
<1>8. AfterAppend(files, r) = [arr |-> B, hdr |-> next]
  BY DEF AfterAppend
<1> HIDE DEF room, next
<1>9. /\ B \in [Names -> Seq(Entries)]
      /\ \A b \in Names : Len(B[b]) = Len(room[b])
      /\ \A b \in Names : \A i \in 1..Len(room[b]) :
           B[b][i] = IF b = next.arr /\ i = next.len THEN Whole(r) ELSE room[b][i]
  <2>1. next.arr \in Names /\ Whole(r) \in Entries
    BY <1>1, <1>6
  <2> HIDE DEF r
  <2> QED
    BY <1>6, <2>1, ElementFacts
<1>10. B[Nil] = <<>>
  BY <1>6, <1>7
<1> HIDE DEF B, r
<1>11. \A i \in 1..(n + 1) : B[next.arr][i] = Whole(Earlier[i])
  <2> SUFFICES ASSUME NEW i \in 1..(n + 1)
               PROVE  B[next.arr][i] = Whole(Earlier[i])
    OBVIOUS
  <2>1. i \in 1..Len(room[next.arr]) /\ next.arr \in Names
    BY <1>6
  <2>2. CASE i = n + 1
    BY <1>6, <1>9, <2>1, <2>2 DEF r
  <2>3. CASE i # n + 1
    BY <1>4, <1>6, <1>9, <2>1, <2>3
  <2> QED
    BY <2>2, <2>3
<1>12. \A a \in Names : \A i \in 1..Len(B[a]) :
         \/ B[a][i] = Zero
         \/ i <= n + 1 /\ B[a][i] = Whole(Earlier[i])
  <2> SUFFICES ASSUME NEW a \in Names, NEW i \in 1..Len(room[a])
               PROVE  \/ B[a][i] = Zero
                      \/ i <= n + 1 /\ B[a][i] = Whole(Earlier[i])
    BY <1>9
  <2>1. CASE a = next.arr /\ i = next.len
    BY <1>6, <1>9, <2>1 DEF r
  <2>2. CASE ~(a = next.arr /\ i = next.len)
    <3>1. B[a][i] = room[a][i]
      BY <1>9, <2>2
    <3>2. i \in Nat
      OBVIOUS
    <3> QED
      BY <1>5, <3>1, <3>2
  <2> QED
    BY <2>1, <2>2
<1>13. next.arr \in Answered \cup {Nil}
  BY <1>1, <1>6 DEF FilesHold
<1>14. next.len = n + 1 /\ n + 1 <= Len(B[next.arr])
  BY <1>6, <1>9
<1> QED
  BY <1>6, <1>8, <1>9, <1>10, <1>11, <1>12, <1>13, <1>14 DEF FilesHold, r

(* What the process starts with: the slice lists the earlier requests.     *)
LEMMA FilesAfterHolds ==
  \A n \in 0..Len(Earlier) : FilesHold(FilesAfter[n], n)
<1>1. Len(Earlier) \in Nat /\ DOMAIN Earlier = 1..Len(Earlier)
  BY FileAssumption
<1> DEFINE Fails == {n \in 0..Len(Earlier) : ~FilesHold(FilesAfter[n], n)}
<1>2. SUFFICES ASSUME Fails # {} PROVE FALSE
  OBVIOUS
<1>3. PICK m \in Fails : \A k \in Fails : m <= k
  <2>1. Fails \in SUBSET Nat
    BY <1>1
  <2> QED
    BY <1>2, <2>1, NatHasLeast
<1>4. m # 0
  <2>1. FilesAfter[0] = [arr |-> NoArrays, hdr |-> NilSlice]
    BY <1>1, FilesAfterDef
  <2>2. FilesHold([arr |-> NoArrays, hdr |-> NilSlice], 0)
    BY DEF FilesHold, NoArrays, NilSlice, Names, Entries
  <2> QED
    BY <2>1, <2>2
<1>5. m - 1 \in 0..Len(Earlier) /\ m - 1 \notin Fails /\ m - 1 \in Nat
  BY <1>1, <1>3, <1>4
<1>6. FilesHold(FilesAfter[m - 1], m - 1)
  BY <1>5
<1>7. FilesAfter[m] = AfterAppend(FilesAfter[m - 1], Earlier[m])
  BY <1>1, <1>4, FilesAfterDef
<1>8. FilesHold(AfterAppend(FilesAfter[m - 1], Earlier[m]), m)
  <2>1. m - 1 + 1 = m /\ m \in DOMAIN Earlier
    BY <1>1, <1>4
  <2>2. m - 1 + 1 \in DOMAIN Earlier
    BY <2>1
  <2>3. FilesHold(AfterAppend(FilesAfter[m - 1], Earlier[m - 1 + 1]), m - 1 + 1)
    BY <1>5, <1>6, <2>2, AfterAppendHolds
  <2> QED
    BY <2>1, <2>3
<1> QED
  BY <1>7, <1>8

(* The earlier requests are as many as their list is long.                 *)
LEMMA AnsweredCount ==
  IsFiniteSet(Answered) /\ Cardinality(Answered) = Len(Earlier)
<1> DEFINE L == Len(Earlier)
<1>1. L \in Nat /\ DOMAIN Earlier = 1..L
  BY FileAssumption
<1>2. IsFiniteSet(1..L) /\ Cardinality(1..L) = L
  <2> HIDE DEF L
  <2>1. 1 \in Int /\ L \in Int
    BY <1>1
  <2>2. /\ IsFiniteSet(1..L)
        /\ Cardinality(1..L) = IF 1 > L THEN 0 ELSE L - 1 + 1
    BY <2>1, FS_Interval
  <2> QED
    BY <1>1, <2>2
<1>3. Earlier \in Bijection(1..L, Answered)
  <2>1. Earlier \in [1..L -> Answered]
    BY <1>1, FileAssumption DEF Answered
  <2>2. \A i, j \in 1..L : Earlier[i] = Earlier[j] => i = j
    BY <1>1, FileAssumption
  <2>3. \A r \in Answered : \E i \in 1..L : Earlier[i] = r
    BY <1>1 DEF Answered
  <2> QED
    BY <2>1, <2>2, <2>3 DEF Bijection, Injection, Surjection,
                            IsInjective
<1>4. ExistsBijection(1..L, Answered)
  BY <1>3 DEF ExistsBijection
<1> QED
  BY <1>2, <1>4, FS_Bijection

(* IInv holds initially.                                                   *)
LEMMA InitIInv == Init => IInv
<1> SUFFICES ASSUME Init PROVE IInv
  OBVIOUS
<1>1. PICK x \in Contents :
        read = [r \in Requests |-> IF r \in Answered \cup Pinned THEN x ELSE Nil]
  BY DEF Init
<1>2. /\ Answered \subseteq Requests /\ Pinned \subseteq Requests
      /\ Answered \cap Pinned = {}
      /\ IsFiniteSet(Answered) /\ Cardinality(Answered) = Len(Earlier)
      /\ Len(Earlier) \in Nat /\ DOMAIN Earlier = 1..Len(Earlier)
      /\ Nil \notin Requests
  BY FileAssumption, AnsweredCount DEF Answered
<1>3. \A i \in 1..Len(Earlier) :
        /\ Earlier[i] \in Answered /\ Earlier[i] \in Requests
        /\ Rank(Earlier[i]) = i
  <2> SUFFICES ASSUME NEW i \in 1..Len(Earlier)
               PROVE  /\ Earlier[i] \in Answered /\ Earlier[i] \in Requests
                      /\ Rank(Earlier[i]) = i
    OBVIOUS
  <2>1. Earlier[i] \in Answered
    BY <1>2 DEF Answered
  <2>2. \E j \in DOMAIN Earlier : Earlier[j] = Earlier[i]
    BY <1>2
  <2>3. /\ Rank(Earlier[i]) \in DOMAIN Earlier
        /\ Earlier[Rank(Earlier[i])] = Earlier[i]
    BY <2>2 DEF Rank
  <2> QED
    BY <1>2, <2>1, <2>3, FileAssumption
<1>4. \A r \in Answered : /\ Rank(r) \in 1..Len(Earlier)
                          /\ Earlier[Rank(r)] = r /\ r \in Requests
  <2> SUFFICES ASSUME NEW r \in Answered
               PROVE  /\ Rank(r) \in 1..Len(Earlier)
                      /\ Earlier[Rank(r)] = r
    BY <1>2
  <2>1. PICK i \in 1..Len(Earlier) : Earlier[i] = r
    BY <1>2 DEF Answered
  <2> QED
    BY <1>3, <2>1
<1>5. blocks \subseteq Contents /\ pins = blocks /\ cid = read
  BY <1>1, <1>2 DEF Init
<1>6. \A r \in Answered \cup Pinned : read[r] = x /\ x \in blocks /\ r \in Requests
  BY <1>1, <1>2 DEF Init
<1>7. /\ \A r \in Requests : pc[r] = IF r \in Answered THEN "ok"
                                     ELSE IF r \in Pinned THEN "append" ELSE "idle"
      /\ \A r \in Requests : announced[r] = IF r \in Answered THEN read[r] ELSE Nil
      /\ appended = Answered /\ clashed = {} /\ stale = {}
  BY DEF Init
<1>8. /\ arr \in [Names -> Seq(Entries)] /\ arr[Nil] = <<>>
      /\ hdr \in [arr : Names, len : Nat]
      /\ hdr.len = Len(Earlier) /\ hdr.len <= Len(arr[hdr.arr])
      /\ hdr.arr \in Answered \cup {Nil}
      /\ \A i \in 1..Len(Earlier) : arr[hdr.arr][i] = Whole(Earlier[i])
      /\ \A a \in Names : \A i \in 1..Len(arr[a]) :
           \/ arr[a][i] = Zero
           \/ i <= Len(Earlier) /\ arr[a][i] = Whole(Earlier[i])
  <2>1. FilesHold(FilesAfter[Len(Earlier)], Len(Earlier))
    BY <1>2, FilesAfterHolds
  <2>2. arr = FilesAfter[Len(Earlier)].arr /\ hdr = FilesAfter[Len(Earlier)].hdr
    BY DEF Init
  <2> QED
    BY <2>1, <2>2 DEF FilesHold
<1>9. \A r \in Answered : /\ FilesAfter[Rank(r)].hdr \in [arr : Names, len : Nat]
                          /\ FilesAfter[Rank(r)].hdr.len = Rank(r)
  <2>1. \A n \in 0..Len(Earlier) : /\ FilesAfter[n].hdr \in [arr : Names, len : Nat]
                                   /\ FilesAfter[n].hdr.len = n
    BY FilesAfterHolds DEF FilesHold
  <2>2. \A n \in 1..Len(Earlier) : n \in 0..Len(Earlier)
    BY <1>2
  <2> QED
    BY <1>4, <2>1, <2>2
<1>10. /\ target \in [Requests -> [arr : Names, len : Nat]]
       /\ \A r \in Answered : target[r].len = Rank(r)
  <2>1. NilSlice \in [arr : Names, len : Nat]
    BY DEF NilSlice, Names
  <2>2. target = [r \in Requests |->
                    IF r \in Answered THEN FilesAfter[Rank(r)].hdr ELSE NilSlice]
    BY DEF Init
  <2> QED
    BY <1>4, <1>9, <2>1, <2>2
<1>11. TypeOK
  <2>1. /\ disk \in Contents \cup {Absent}
        /\ read \in [Requests -> Contents \cup {Nil}]
        /\ announced \in [Requests -> Contents \cup {Nil}]
        /\ pc \in [Requests -> {"idle", "append", "ok"}]
    <3>1. read \in [Requests -> Contents \cup {Nil}]
      BY <1>1
    <3> QED
      BY <3>1 DEF Init
  <2>2. todo \in [Requests -> SUBSET Stores]
    BY DEF Init
  <2>3. edits \in 0..MaxEdits /\ stops \in 0..MaxStops
    <3>1. MaxEdits \in Nat /\ MaxStops \in Nat
      BY FileAssumption
    <3>2. edits = 0 /\ stops = 0
      BY DEF Init
    <3> QED
      BY <3>1, <3>2
  <2> QED
    BY <1>2, <1>5, <1>7, <1>8, <1>10, <2>1, <2>2, <2>3 DEF TypeOK, Names, Entries
<1>12. StageInv
  BY <1>5, <1>6, <1>7 DEF StageInv
<1>13. Appending = {}
  BY <1>7 DEF Appending
<1>14. \A a \in Names : \A i \in 1..Len(arr[a]), f \in Fields :
         arr[a][i][f] # Nil =>
           /\ i \in 1..Len(Earlier) /\ arr[a][i][f] = Earlier[i]
  <2> SUFFICES ASSUME NEW a \in Names, NEW i \in 1..Len(arr[a]), NEW f \in Fields,
                      arr[a][i][f] # Nil
               PROVE  i \in 1..Len(Earlier) /\ arr[a][i][f] = Earlier[i]
    OBVIOUS
  <2>1. arr[a][i] # Zero
    BY DEF Zero
  <2>2. i <= Len(Earlier) /\ arr[a][i] = Whole(Earlier[i])
    BY <1>8, <2>1
  <2>3. i \in Nat /\ i >= 1
    <3>1. arr[a] \in Seq(Entries)
      BY <1>8
    <3> QED
      BY <3>1
  <2> QED
    BY <1>2, <2>2, <2>3 DEF Whole
<1>15. SliceInv
  <2>1. \A a \in Names : \A i \in 1..Len(arr[a]), f \in Fields :
          arr[a][i][f] = Nil \/ Holds(arr[a][i][f])
    BY <1>3, <1>7, <1>14 DEF Holds
  <2>2. \A r \in Requests : pc[r] # "store"
    BY <1>7
  <2> QED
    BY <1>7, <1>8, <2>1, <2>2 DEF SliceInv, Holds
<1>16. PlaceInv
  BY <1>3, <1>10, <1>14 DEF PlaceInv
<1>17. CountInv
  BY <1>2, <1>7, <1>8, <1>13 DEF CountInv, Begun
<1>18. ListInv
  <2>1. KeptIn(arr, hdr, target, {}, Answered, {})
    BY <1>4, <1>8, <1>10 DEF KeptIn
  <2>2. WholeUpTo(Requests, arr[hdr.arr], hdr.len)
    BY <1>3, <1>8 DEF WholeUpTo
  <2>3. Listing(Requests, arr, hdr, target, todo, {}, Answered, {})
    BY <2>1, <2>2 DEF Listing, PendingIn, CleanIn
  <2> QED
    BY <1>7, <1>13, <2>3 DEF ListInv
<1> QED
  BY <1>11, <1>12, <1>15, <1>16, <1>17, <1>18 DEF IInv

-----------------------------------------------------------------------------
(* The fields in the arrays name requests.                                 *)
LEMMA FieldValues ==
  ASSUME TypeOK
  PROVE  \A a \in Names : \A i \in 1..Len(arr[a]), f \in Fields :
           arr[a][i][f] \in Names
<1> SUFFICES ASSUME NEW a \in Names, NEW i \in 1..Len(arr[a]), NEW f \in Fields
             PROVE  arr[a][i][f] \in Names
  OBVIOUS
<1>1. arr[a] \in Seq([Fields -> Names])
  BY DEF TypeOK, Names
<1>2. arr[a][i] \in [Fields -> Names]
  BY <1>1
<1> QED
  BY <1>2

(* The slice, and those the appends will store, lie within the arrays.     *)
LEMMA FilesFit ==
  ASSUME IInv
  PROVE  ListFits(Requests, arr, hdr, target, todo, Appending, appended)
<1>1. /\ arr \in [Requests \cup {Nil} -> Seq([Fields -> Requests \cup {Nil}])]
      /\ hdr \in [arr : Requests \cup {Nil}, len : Nat]
      /\ target \in [Requests -> [arr : Requests \cup {Nil}, len : Nat]]
      /\ todo \in [Requests -> SUBSET Stores]
      /\ appended \subseteq Requests
  BY DEF IInv, TypeOK
<1>2. /\ arr[Nil] = <<>> /\ hdr.len <= Len(arr[hdr.arr])
      /\ \A q \in Appending : /\ target[q].arr \in Requests
                              /\ target[q].len \in 1..Len(arr[target[q].arr])
  BY DEF IInv, SliceInv, Appending
<1>3. Appending \subseteq Requests /\ Nil \notin Requests
  BY FileAssumption DEF Appending
<1> QED
  BY <1>1, <1>2, <1>3 DEF ListFits

(* A step that neither begins, ends nor is part of an append keeps the     *)
(* slices as they are.                                                     *)
LEMMA SlicesKept ==
  ASSUME IInv, UNCHANGED sliceVars,
         \A q \in Requests : pc'[q] = "store" <=> pc[q] = "store"
  PROVE  SliceInv' /\ PlaceInv' /\ CountInv' /\ ListInv'
<1>1. /\ arr' = arr /\ hdr' = hdr /\ target' = target /\ todo' = todo
      /\ clashed' = clashed /\ appended' = appended
  BY DEF sliceVars
<1>2. Appending' = Appending
  BY DEF Appending
<1>3. \A q \in Requests : Holds(q) => pc'[q] = "store" \/ q \in appended'
  BY <1>1 DEF Holds
<1>4. SliceInv'
  <2>1. /\ arr[Nil] = <<>> /\ hdr.len <= Len(arr[hdr.arr])
        /\ hdr.arr = Nil \/ Holds(hdr.arr)
        /\ \A a \in Names : \A i \in 1..Len(arr[a]), f \in Fields :
             arr[a][i][f] = Nil \/ Holds(arr[a][i][f])
        /\ \A r \in Requests : pc[r] = "store" =>
             /\ target[r].arr \in Requests /\ Holds(target[r].arr)
             /\ target[r].len \in 1..Len(arr[target[r].arr])
    BY DEF IInv, SliceInv
  <2>2. hdr.arr \in Names
    BY DEF IInv, TypeOK, Names
  <2>3. \A a \in Names : \A i \in 1..Len(arr[a]), f \in Fields :
          arr[a][i][f] \in Names
    BY FieldValues DEF IInv
  <2>4. \A a \in Names : \A i \in 1..Len(arr[a]), f \in Fields :
          \/ arr[a][i][f] = Nil
          \/ pc'[arr[a][i][f]] = "store" \/ arr[a][i][f] \in appended'
    BY <1>3, <2>1, <2>3 DEF Names
  <2>5. hdr.arr = Nil \/ pc'[hdr.arr] = "store" \/ hdr.arr \in appended'
    BY <1>3, <2>1, <2>2 DEF Names
  <2>6. \A r \in Requests : pc'[r] = "store" =>
          /\ target[r].arr \in Requests
          /\ pc'[target[r].arr] = "store" \/ target[r].arr \in appended'
          /\ target[r].len \in 1..Len(arr[target[r].arr])
    BY <1>3, <2>1
  <2> QED
    BY <1>1, <2>1, <2>4, <2>5, <2>6 DEF SliceInv, Holds
<1>5. PlaceInv'
  BY <1>1 DEF IInv, PlaceInv
<1>6. CountInv'
  BY <1>1, <1>2 DEF IInv, CountInv, Begun
<1>7. ListInv'
  BY <1>1, <1>2 DEF IInv, ListInv
<1> QED
  BY <1>4, <1>5, <1>6, <1>7

(* A goroutine moves alone.                                                *)
LEMMA GotoFacts ==
  ASSUME TypeOK, NEW r \in Requests,
         NEW place \in {"block", "pin", "append", "store", "publish", "ok",
                        "error"},
         Goto(r, place)
  PROVE  /\ pc' \in [Requests -> {"idle", "block", "pin", "append", "store",
                                  "publish", "ok", "error", "gone"}]
         /\ \A q \in Requests : pc'[q] = IF q = r THEN place ELSE pc[q]
BY DEF TypeOK, Goto

(* Reading the file.                                                       *)
LEMMA PutFilesKeepsIInv ==
  ASSUME IInv, NEW r \in Requests, PutFiles(r)
  PROVE  IInv'
<1>1. /\ pc[r] = "idle"
      /\ disk' = disk /\ cid' = cid /\ blocks' = blocks /\ pins' = pins
      /\ announced' = announced /\ edits' = edits /\ stops' = stops
      /\ stale' = stale /\ UNCHANGED sliceVars
  BY DEF PutFiles, boundVars
<1>2. PICK place \in {"error", "block"} :
        /\ Goto(r, place)
        /\ place = "error" => read' = [read EXCEPT ![r] = Nil]
        /\ place = "block" => /\ disk # Absent
                              /\ read' = [read EXCEPT ![r] = disk]
  BY DEF PutFiles, Readable, Fail
<1>3. /\ pc' \in [Requests -> {"idle", "block", "pin", "append", "store",
                               "publish", "ok", "error", "gone"}]
      /\ \A q \in Requests : pc'[q] = IF q = r THEN place ELSE pc[q]
  BY <1>2, GotoFacts DEF IInv
<1>4. /\ read' \in [Requests -> Contents \cup {Nil}]
      /\ \A q \in Requests : q # r => read'[q] = read[q]
      /\ place = "block" => read'[r] = disk /\ disk \in Contents
  <2>1. read \in [Requests -> Contents \cup {Nil}]
    BY DEF IInv, TypeOK
  <2>2. disk # Absent => disk \in Contents
    BY DEF IInv, TypeOK
  <2> QED
    BY <1>2, <2>1, <2>2
<1>5. SliceInv' /\ PlaceInv' /\ CountInv' /\ ListInv'
  BY <1>1, <1>3, SlicesKept
<1>6. arr' = arr /\ hdr' = hdr /\ target' = target /\ todo' = todo
      /\ clashed' = clashed /\ appended' = appended
  BY <1>1 DEF sliceVars
<1>7. TypeOK'
  BY <1>1, <1>3, <1>4, <1>6 DEF IInv, TypeOK
<1>8. StageInv'
  <2>1. r \notin appended
    BY <1>1 DEF IInv, StageInv
  <2> QED
    BY <1>1, <1>3, <1>4, <1>6, <2>1 DEF IInv, StageInv
<1> QED
  BY <1>5, <1>7, <1>8 DEF IInv

(* Storing the block.                                                      *)
LEMMA PutIPFSBlockKeepsIInv ==
  ASSUME IInv, NEW r \in Requests, PutIPFSBlock(r)
  PROVE  IInv'
<1>1. /\ pc[r] = "block"
      /\ disk' = disk /\ cid' = cid /\ pins' = pins
      /\ announced' = announced /\ edits' = edits /\ stops' = stops
      /\ stale' = stale /\ UNCHANGED sliceVars
  BY DEF PutIPFSBlock, boundVars
<1>2. PICK place \in {"error", "pin"} :
        /\ Goto(r, place)
        /\ place = "error" => /\ blocks' = blocks
                              /\ read' = [read EXCEPT ![r] = Nil]
        /\ place = "pin" => /\ blocks' = blocks \cup {read[r]}
                            /\ read' = read
  BY DEF PutIPFSBlock, BlocksAfterPut, Fail
<1>3. /\ pc' \in [Requests -> {"idle", "block", "pin", "append", "store",
                               "publish", "ok", "error", "gone"}]
      /\ \A q \in Requests : pc'[q] = IF q = r THEN place ELSE pc[q]
  BY <1>2, GotoFacts DEF IInv
<1>4. /\ read[r] \in Contents /\ r \notin appended
      /\ r \notin stale => read[r] = disk
  BY <1>1 DEF IInv, StageInv
<1>5. /\ blocks \subseteq blocks' /\ blocks' \subseteq Contents
      /\ place = "pin" => read[r] \in blocks'
  BY <1>2, <1>4 DEF IInv, TypeOK
<1>5a. /\ read' \in [Requests -> Contents \cup {Nil}]
       /\ \A q \in Requests : q # r => read'[q] = read[q]
       /\ place = "pin" => read'[r] = read[r]
  BY <1>2 DEF IInv, TypeOK
<1>6. SliceInv' /\ PlaceInv' /\ CountInv' /\ ListInv'
  BY <1>1, <1>3, SlicesKept
<1>7. arr' = arr /\ hdr' = hdr /\ target' = target /\ todo' = todo
      /\ clashed' = clashed /\ appended' = appended
  BY <1>1 DEF sliceVars
<1>8. TypeOK'
  BY <1>1, <1>3, <1>5, <1>5a, <1>7 DEF IInv, TypeOK
<1>9. StageInv'
  BY <1>1, <1>3, <1>4, <1>5, <1>5a, <1>7 DEF IInv, StageInv
<1> QED
  BY <1>6, <1>8, <1>9 DEF IInv

(* Pinning the file.                                                       *)
LEMMA PinFileKeepsIInv ==
  ASSUME IInv, NEW r \in Requests, PinFile(r)
  PROVE  IInv'
<1>1. /\ pc[r] = "pin"
      /\ disk' = disk /\ blocks' = blocks
      /\ announced' = announced /\ edits' = edits /\ stops' = stops
      /\ stale' = stale /\ UNCHANGED sliceVars
  BY DEF PinFile, boundVars
<1>2. PICK place \in {"error", "append"} :
        /\ Goto(r, place)
        /\ place = "error" =>
             /\ pins' \in {pins, pins \cup ({disk} \ {Absent})} /\ cid' = cid
             /\ read' = [read EXCEPT ![r] = Nil]
        /\ place = "append" =>
             /\ disk # Absent /\ pins' = pins \cup {disk}
             /\ \E answer \in {disk, Undef} : cid' = [cid EXCEPT ![r] = answer]
             /\ read' = read
  BY DEF PinFile, Fail
<1>3. /\ pc' \in [Requests -> {"idle", "block", "pin", "append", "store",
                               "publish", "ok", "error", "gone"}]
      /\ \A q \in Requests : pc'[q] = IF q = r THEN place ELSE pc[q]
  BY <1>2, GotoFacts DEF IInv
<1>4. /\ read[r] \in Contents /\ read[r] \in blocks /\ r \notin appended
      /\ r \notin stale => read[r] = disk
  BY <1>1 DEF IInv, StageInv
<1>5. /\ pins \subseteq pins' /\ pins' \subseteq Contents
      /\ place = "append" => disk \in pins' /\ disk \in Contents
  BY <1>2 DEF IInv, TypeOK
<1>6. /\ cid' \in [Requests -> Contents \cup {Nil, Undef}]
      /\ \A q \in Requests : q # r => cid'[q] = cid[q]
      /\ place = "append" => cid'[r] \in {disk, Undef}
  BY <1>2, <1>5 DEF IInv, TypeOK
<1>6a. /\ read' \in [Requests -> Contents \cup {Nil}]
       /\ \A q \in Requests : q # r => read'[q] = read[q]
       /\ place = "append" => read'[r] = read[r]
  BY <1>2 DEF IInv, TypeOK
<1>7. SliceInv' /\ PlaceInv' /\ CountInv' /\ ListInv'
  BY <1>1, <1>3, SlicesKept
<1>8. arr' = arr /\ hdr' = hdr /\ target' = target /\ todo' = todo
      /\ clashed' = clashed /\ appended' = appended
  BY <1>1 DEF sliceVars
<1>9. TypeOK'
  BY <1>1, <1>3, <1>5, <1>6, <1>6a, <1>8 DEF IInv, TypeOK
<1>10. StageInv'
  BY <1>1, <1>3, <1>4, <1>5, <1>6, <1>6a, <1>8 DEF IInv, StageInv
<1> QED
  BY <1>7, <1>9, <1>10 DEF IInv

(* Announcing the pin and answering.                                       *)
LEMMA PublishKeepsIInv ==
  ASSUME IInv, NEW r \in Requests, Publish(r)
  PROVE  IInv'
<1>1. /\ pc[r] = "publish"
      /\ disk' = disk /\ read' = read /\ cid' = cid /\ blocks' = blocks
      /\ pins' = pins /\ edits' = edits /\ stops' = stops
      /\ stale' = stale /\ UNCHANGED sliceVars
  BY DEF Publish, boundVars
<1>2. PICK place \in {"error", "ok"} :
        /\ Goto(r, place)
        /\ place = "error" => announced' = announced
        /\ place = "ok" => announced' = [announced EXCEPT ![r] = cid[r]]
  BY DEF Publish, AnnouncedCid, AnswerUnpublished
<1>3. /\ pc' \in [Requests -> {"idle", "block", "pin", "append", "store",
                               "publish", "ok", "error", "gone"}]
      /\ \A q \in Requests : pc'[q] = IF q = r THEN place ELSE pc[q]
  BY <1>2, GotoFacts DEF IInv
<1>4. /\ read[r] \in Contents /\ read[r] \in blocks
      /\ cid[r] \in pins \cup {Undef}
      /\ cid[r] # Undef /\ r \notin stale => cid[r] = read[r]
  BY <1>1 DEF IInv, StageInv
<1>5. /\ announced' \in [Requests -> Contents \cup {Nil, Undef}]
      /\ \A q \in Requests : q # r => announced'[q] = announced[q]
      /\ place = "ok" => announced'[r] = cid[r]
      /\ place = "error" => announced'[r] = announced[r]
  BY <1>2 DEF IInv, TypeOK
<1>6. SliceInv' /\ PlaceInv' /\ CountInv' /\ ListInv'
  BY <1>1, <1>3, SlicesKept
<1>7. arr' = arr /\ hdr' = hdr /\ target' = target /\ todo' = todo
      /\ clashed' = clashed /\ appended' = appended
  BY <1>1 DEF sliceVars
<1>8. TypeOK'
  BY <1>1, <1>3, <1>5, <1>7 DEF IInv, TypeOK
<1>9. StageInv'
  BY <1>1, <1>3, <1>4, <1>5, <1>7 DEF IInv, StageInv
<1> QED
  BY <1>6, <1>8, <1>9 DEF IInv

(* The file changes under the requests that have read it once.             *)
LEMMA EditKeepsIInv == IInv /\ Edit => IInv'
<1> SUFFICES ASSUME IInv, Edit PROVE IInv'
  OBVIOUS
<1>1. /\ pc' = pc /\ read' = read /\ cid' = cid /\ blocks' = blocks
      /\ pins' = pins /\ announced' = announced /\ stops' = stops
      /\ UNCHANGED sliceVars
  BY DEF Edit
<1>2. /\ disk' \in Contents \cup {Absent}
      /\ stale' = stale \cup {r \in Requests : pc[r] \in {"block", "pin"}}
  BY DEF Edit
<1>3. edits' \in 0..MaxEdits
  <2>1. MaxEdits \in Nat
    BY FileAssumption
  <2>2. edits \in 0..MaxEdits /\ edits < MaxEdits /\ edits' = edits + 1
    BY DEF Edit, IInv, TypeOK
  <2> QED
    BY <2>1, <2>2
<1>4. SliceInv' /\ PlaceInv' /\ CountInv' /\ ListInv'
  BY <1>1, SlicesKept
<1>5. arr' = arr /\ hdr' = hdr /\ target' = target /\ todo' = todo
      /\ clashed' = clashed /\ appended' = appended
  BY <1>1 DEF sliceVars
<1>6. TypeOK'
  BY <1>1, <1>2, <1>3, <1>5 DEF IInv, TypeOK
<1>7. StageInv'
  BY <1>1, <1>2, <1>5 DEF IInv, StageInv
<1> QED
  BY <1>4, <1>6, <1>7 DEF IInv

(* The process starts again with an empty slice.                           *)
LEMMA RestartKeepsIInv == IInv /\ Restart => IInv'
<1> SUFFICES ASSUME IInv, Restart PROVE IInv'
  OBVIOUS
<1>1. /\ disk' = disk /\ pins' = pins /\ announced' = announced
      /\ edits' = edits /\ stale' = {} /\ clashed' = {}
      /\ blocks' = {} /\ arr' = NoArrays /\ hdr' = NilSlice
      /\ read' = [r \in Requests |-> Nil] /\ cid' = [r \in Requests |-> Nil]
      /\ target' = [r \in Requests |-> NilSlice]
      /\ todo' = [r \in Requests |-> {}] /\ appended' = {}
  BY DEF Restart
<1>2. /\ pc' \in [Requests -> {"idle", "ok", "error", "gone"}]
      /\ \A q \in Requests : pc'[q] = "ok" => pc[q] = "ok"
  <2>1. pc' = [r \in Requests |->
                 IF pc[r] \in {"idle", "ok", "error"} THEN pc[r] ELSE "gone"]
    BY DEF Restart
  <2> QED
    BY <2>1
<1>3. stops' \in 0..MaxStops
  <2>1. MaxStops \in Nat
    BY FileAssumption
  <2>2. stops \in 0..MaxStops /\ stops < MaxStops /\ stops' = stops + 1
    BY DEF Restart, IInv, TypeOK
  <2> QED
    BY <2>1, <2>2
<1>4. /\ arr' \in [Names -> Seq(Entries)] /\ hdr' \in [arr : Names, len : Nat]
      /\ arr'[Nil] = <<>> /\ hdr'.len = 0 /\ hdr'.arr = Nil
      /\ \A a \in Names : arr'[a] = <<>>
      /\ target' \in [Requests -> [arr : Names, len : Nat]]
  BY <1>1 DEF NoArrays, NilSlice, Names, Entries
<1>5. TypeOK'
  BY <1>1, <1>2, <1>3, <1>4 DEF IInv, TypeOK, Names, Entries
<1>6. StageInv'
  BY <1>1, <1>2 DEF IInv, StageInv
<1>7. SliceInv' /\ PlaceInv'
  <2>1. \A a \in Names : arr'[a] = <<>> /\ 1..Len(arr'[a]) = {}
    BY <1>4
  <2>2. \A q \in Requests : pc'[q] # "store"
    BY <1>2
  <2>3. hdr'.len <= Len(arr'[hdr'.arr])
    BY <1>4
  <2>4. SliceInv'
    BY <1>4, <2>1, <2>2, <2>3 DEF SliceInv
  <2>5. PlaceInv'
    BY <2>1 DEF PlaceInv
  <2> QED
    BY <2>4, <2>5
<1>8. Appending' = {}
  BY <1>2 DEF Appending
<1>9. IsFiniteSet({}) /\ Cardinality({}) = 0
  BY FS_EmptySet
<1>10. CountInv'
  BY <1>1, <1>4, <1>8, <1>9 DEF CountInv, Begun
<1>11. ListInv'
  <2>1. Listing(Requests, NoArrays, NilSlice, target', todo', {}, {}, {})
    BY DEF Listing, KeptIn, PendingIn, CleanIn, WholeUpTo, NilSlice
  <2> QED
    BY <1>1, <1>8, <2>1 DEF ListInv
<1> QED
  BY <1>5, <1>6, <1>7, <1>10, <1>11 DEF IInv

(* An append begins: it makes room for its element and keeps the slice.    *)
LEMMA AppendLoadKeepsIInv ==
  ASSUME IInv, NEW r \in Requests, AppendLoad(r)
  PROVE  IInv'
<1> DEFINE room == WithRoom(arr, hdr, r)
           next == NextHeader(arr, hdr, r)
<1>1. /\ pc[r] = "append" /\ Goto(r, "store")
      /\ disk' = disk /\ read' = read /\ cid' = cid /\ blocks' = blocks
      /\ pins' = pins /\ hdr' = hdr /\ appended' = appended
      /\ announced' = announced /\ edits' = edits /\ stops' = stops
      /\ stale' = stale /\ arr' = room
      /\ target' = [target EXCEPT ![r] = next]
      /\ todo' = [todo EXCEPT ![r] = Stores]
      /\ clashed' = IF Appending = {} THEN clashed
                    ELSE clashed \cup Appending \cup {r}
  BY DEF AppendLoad, boundVars
<1>2. /\ pc' \in [Requests -> {"idle", "block", "pin", "append", "store",
                               "publish", "ok", "error", "gone"}]
      /\ \A q \in Requests : pc'[q] = IF q = r THEN "store" ELSE pc[q]
  BY <1>1, GotoFacts DEF IInv
<1>3. SliceFits(Names, Entries, arr, hdr, r)
  <2>1. Zero \in Entries
    BY DEF Zero, Entries, Names
  <2> QED
    BY <2>1, FileAssumption DEF SliceFits, IInv, TypeOK, SliceInv, Names, Entries
<1>4. RoomMade(Names, Entries, arr, hdr, r)
  BY <1>3, RoomFacts
<1>5. /\ room \in [Names -> Seq(Entries)]
      /\ \A a \in Names : a # r => room[a] = arr[a]
      /\ \/ room[r] = arr[r]
         \/ \A i \in 1..Len(room[r]) :
              room[r][i] = IF i <= hdr.len THEN arr[hdr.arr][i] ELSE Zero
      /\ next \in [arr : Names, len : Nat]
      /\ next.arr # Nil /\ next.len = hdr.len + 1
      /\ next.arr \in {r, hdr.arr}
      /\ next.len \in 1..Len(room[next.arr])
  BY <1>4 DEF RoomMade
<1>6. /\ target' \in [Requests -> [arr : Names, len : Nat]]
      /\ target'[r] = next
      /\ \A q \in Requests : q # r => target'[q] = target[q]
  BY <1>1, <1>5 DEF IInv, TypeOK, Names
<1>7. todo' \in [Requests -> SUBSET Stores]
  BY <1>1 DEF IInv, TypeOK
<1>8. clashed' \subseteq Requests
  BY <1>1 DEF IInv, TypeOK, Appending
<1>9. r \notin appended /\ r \notin Appending /\ ~Holds(r)
  BY <1>1 DEF IInv, StageInv, Holds, Appending
<1>10. /\ hdr.len \in Nat /\ hdr.arr \in Names /\ hdr.arr # r
       /\ hdr.len <= Len(arr[hdr.arr]) /\ arr[Nil] = <<>>
       /\ hdr.arr = Nil \/ Holds(hdr.arr)
       /\ arr \in [Names -> Seq(Entries)] /\ Nil # r
       /\ \A a \in Names : \A i \in 1..Len(arr[a]), f \in Fields :
            arr[a][i][f] = Nil \/ Holds(arr[a][i][f])
       /\ \A q \in Requests : pc[q] = "store" =>
            /\ target[q].arr \in Requests /\ Holds(target[q].arr)
            /\ target[q].len \in 1..Len(arr[target[q].arr])
  BY <1>9, FileAssumption DEF IInv, TypeOK, SliceInv, Names, Entries
<1>11. \A q \in Appending : target[q].arr # r
  BY <1>9, <1>10 DEF Appending
<1>12. ListInv'
  <2>1. Appending' = Appending \cup {r}
    BY <1>1, <1>2 DEF Appending
  <2>2. Listing(Requests, room, hdr, [target EXCEPT ![r] = next],
                [todo EXCEPT ![r] = Stores], Appending \cup {r}, appended,
                IF Appending = {} THEN clashed ELSE clashed \cup Appending \cup {r})
    BY <1>9, <1>10, <1>11, FilesFit, ListingLoad DEF IInv, ListInv
  <2> HIDE DEF room, next
  <2> QED
    BY <1>1, <2>1, <2>2 DEF ListInv
<1> HIDE DEF room, next
<1>13. TypeOK'
  BY <1>1, <1>2, <1>5, <1>6, <1>7, <1>8 DEF IInv, TypeOK, Names, Entries
<1>14. StageInv'
  BY <1>1, <1>2, <1>9 DEF IInv, StageInv
<1>15. \A q \in Requests : Holds(q) \/ q = r =>
         pc'[q] = "store" \/ q \in appended'
  BY <1>1, <1>2 DEF Holds
<1>16. \A a \in Names : \A i \in 1..Len(room[a]), f \in Fields :
         room[a][i][f] # Nil =>
           \E b \in Names : /\ i \in 1..Len(arr[b])
                            /\ room[a][i][f] = arr[b][i][f]
  <2> SUFFICES ASSUME NEW a \in Names, NEW i \in 1..Len(room[a]), NEW f \in Fields,
                      room[a][i][f] # Nil
               PROVE  \E b \in Names : /\ i \in 1..Len(arr[b])
                                       /\ room[a][i][f] = arr[b][i][f]
    OBVIOUS
  <2>1. CASE room[a] = arr[a]
    BY <2>1
  <2>2. CASE room[a][i] = IF i <= hdr.len THEN arr[hdr.arr][i] ELSE Zero
    <3>1. i <= hdr.len /\ room[a][i] = arr[hdr.arr][i]
      BY <2>2 DEF Zero
    <3>2. room[a] \in Seq(Entries) /\ arr[hdr.arr] \in Seq(Entries)
      BY <1>5, <1>10
    <3>3. Len(room[a]) \in Nat /\ Len(arr[hdr.arr]) \in Nat
      BY <3>2
    <3>4. i \in 1..Len(arr[hdr.arr])
      BY <1>10, <3>1, <3>3
    <3> QED
      BY <1>10, <3>1, <3>4
  <2> QED
    BY <1>5, <2>1, <2>2
<1>17. \A a \in Names : \A i \in 1..Len(room[a]), f \in Fields :
         room[a][i][f] # Nil =>
           /\ room[a][i][f] \in Requests /\ Holds(room[a][i][f])
           /\ i = target[room[a][i][f]].len
  <2> SUFFICES ASSUME NEW a \in Names, NEW i \in 1..Len(room[a]), NEW f \in Fields,
                      room[a][i][f] # Nil
               PROVE  /\ room[a][i][f] \in Requests /\ Holds(room[a][i][f])
                      /\ i = target[room[a][i][f]].len
    OBVIOUS
  <2>1. PICK b \in Names : /\ i \in 1..Len(arr[b])
                           /\ room[a][i][f] = arr[b][i][f]
    BY <1>16
  <2>2. arr[b][i][f] \in Names
    BY <2>1, FieldValues DEF IInv
  <2> QED
    BY <1>10, <2>1, <2>2 DEF IInv, PlaceInv, Names
<1>18. SliceInv'
  <2>1. arr'[Nil] = <<>> /\ hdr'.len <= Len(arr'[hdr'.arr])
    BY <1>1, <1>5, <1>10 DEF Names
  <2>2. hdr'.arr = Nil \/ pc'[hdr'.arr] = "store" \/ hdr'.arr \in appended'
    BY <1>1, <1>10, <1>15 DEF Names
  <2>3. \A a \in Names : \A i \in 1..Len(arr'[a]), f \in Fields :
          arr'[a][i][f] = Nil \/ pc'[arr'[a][i][f]] = "store"
            \/ arr'[a][i][f] \in appended'
    BY <1>1, <1>15, <1>17
  <2>4. ASSUME NEW q \in Requests, pc'[q] = "store"
        PROVE  /\ target'[q].arr \in Requests
               /\ pc'[target'[q].arr] = "store" \/ target'[q].arr \in appended'
               /\ target'[q].len \in 1..Len(arr'[target'[q].arr])
    <3>1. CASE q = r
      <4>1. next.arr \in Requests /\ (next.arr = r \/ Holds(next.arr))
        BY <1>5, <1>10 DEF Names
      <4> QED
        BY <1>1, <1>5, <1>6, <1>15, <3>1, <4>1
    <3>2. CASE q # r
      <4>1. pc[q] = "store"
        BY <1>2, <2>4, <3>2
      <4>2. target[q].arr # r
        BY <1>9, <1>10, <4>1
      <4>3. arr'[target[q].arr] = arr[target[q].arr]
        BY <1>1, <1>5, <1>10, <4>1, <4>2 DEF Names
      <4> QED
        BY <1>6, <1>10, <1>15, <3>2, <4>1, <4>3
    <3> QED
      BY <3>1, <3>2
  <2> QED
    BY <2>1, <2>2, <2>3, <2>4 DEF SliceInv, Holds
<1>19. PlaceInv'
  <2>1. \A a \in Names : \A i \in 1..Len(room[a]), f \in Fields :
          room[a][i][f] # Nil => i = target'[room[a][i][f]].len
    BY <1>6, <1>9, <1>17
  <2> QED
    BY <1>1, <2>1 DEF PlaceInv
<1>20. CountInv'
  <2>1. /\ IsFiniteSet(Begun) /\ hdr.len <= Cardinality(Begun)
        /\ \A q \in Appending : target[q].len <= Cardinality(Begun)
    BY DEF IInv, CountInv
  <2>2. Begun' = Begun \cup {r} /\ Appending' = Appending \cup {r}
    BY <1>1, <1>2 DEF Begun, Appending
  <2>3. r \notin Begun
    BY <1>9 DEF Begun
  <2>4. /\ IsFiniteSet(Begun \cup {r}) /\ Cardinality(Begun) \in Nat
        /\ Cardinality(Begun \cup {r}) = Cardinality(Begun) + 1
    BY <2>1, <2>3, FS_AddElement, FS_CardinalityType
  <2>5. next.len <= Cardinality(Begun) + 1
    BY <1>5, <1>10, <2>1, <2>4
  <2>6. ASSUME NEW q \in Appending \cup {r}
        PROVE  target'[q].len <= Cardinality(Begun) + 1
    <3>1. CASE q = r
      BY <1>6, <2>5, <3>1
    <3>2. CASE q # r
      <4>1. q \in Appending /\ q \in Requests
        BY <2>6, <3>2 DEF Appending
      <4>2. target'[q].len = target[q].len /\ target[q].len \in Nat
        BY <1>6, <3>2, <4>1 DEF IInv, TypeOK
      <4> QED
        BY <2>1, <2>4, <4>1, <4>2
    <3> QED
      BY <3>1, <3>2
  <2>7. hdr'.len <= Cardinality(Begun) + 1
    BY <1>1, <1>10, <2>1, <2>4
  <2> QED
    BY <2>2, <2>4, <2>6, <2>7 DEF CountInv
<1> QED
  BY <1>12, <1>13, <1>14, <1>18, <1>19, <1>20 DEF IInv

(* A store of an append: it is done when nothing is left to store.         *)
LEMMA StoredFacts ==
  ASSUME IInv, NEW r \in Requests, NEW what,
         pc[r] = "store", what \in todo[r], Stored(r, what)
  PROVE  /\ pc' \in [Requests -> {"idle", "block", "pin", "append", "store",
                                  "publish", "ok", "error", "gone"}]
         /\ todo' \in [Requests -> SUBSET Stores]
         /\ appended' \subseteq Requests
         /\ todo' = [todo EXCEPT ![r] = @ \ {what}]
         /\ \A q \in Requests \ {r} : pc'[q] = pc[q]
         /\ \A q \in Requests :
              pc'[q] = "store" \/ q \in appended' <=> Holds(q)
         /\ \A q \in Requests : pc'[q] = "store" => pc[q] = "store"
         /\ Begun' = Begun
         /\ Moves(todo, r, what, Appending, appended, Appending', appended')
         /\ \/ pc'[r] = "publish" /\ appended' = appended \cup {r}
            \/ pc'[r] = "store" /\ appended' = appended
<1>1. /\ todo \in [Requests -> SUBSET Stores]
      /\ appended \subseteq Requests
      /\ pc \in [Requests -> {"idle", "block", "pin", "append", "store",
                              "publish", "ok", "error", "gone"}]
  BY DEF IInv, TypeOK
<1>2. todo' = [todo EXCEPT ![r] = @ \ {what}]
  BY DEF Stored
<1>3. todo' \in [Requests -> SUBSET Stores]
  BY <1>1, <1>2
<1>4. CASE todo[r] = {what}
  <2>1. Goto(r, "publish") /\ appended' = appended \cup {r}
    BY <1>4 DEF Stored
  <2>2. /\ pc' \in [Requests -> {"idle", "block", "pin", "append", "store",
                                 "publish", "ok", "error", "gone"}]
        /\ \A q \in Requests : pc'[q] = IF q = r THEN "publish" ELSE pc[q]
    BY <2>1, GotoFacts DEF IInv
  <2>3. Appending' = Appending \ {r} /\ r \in Appending
    BY <2>2 DEF Appending
  <2>4. Begun' = Begun
    BY <2>1, <2>3 DEF Begun
  <2>5. Moves(todo, r, what, Appending, appended, Appending', appended')
    BY <1>4, <2>1, <2>3 DEF Moves
  <2> QED
    BY <1>1, <1>2, <1>3, <2>1, <2>2, <2>4, <2>5 DEF Holds
<1>5. CASE todo[r] # {what}
  <2>1. pc' = pc /\ appended' = appended
    BY <1>5 DEF Stored
  <2>2. Appending' = Appending
    BY <2>1 DEF Appending
  <2>3. Begun' = Begun
    BY <2>1, <2>2 DEF Begun
  <2>4. Moves(todo, r, what, Appending, appended, Appending', appended')
    BY <1>5, <2>1, <2>2 DEF Moves
  <2> QED
    BY <1>1, <1>2, <1>3, <2>1, <2>3, <2>4 DEF Holds
<1> QED
  BY <1>4, <1>5

(* An append that completes has kept its promises of the earlier stages.   *)
LEMMA StoredStage ==
  ASSUME IInv, NEW r \in Requests, NEW what,
         pc[r] = "store", what \in todo[r], Stored(r, what),
         UNCHANGED <<disk, read, cid, blocks, pins, announced, stale>>
  PROVE  StageInv'
<1>1. /\ \A q \in Requests \ {r} : pc'[q] = pc[q]
      /\ \/ pc'[r] = "publish" /\ appended' = appended \cup {r}
         \/ pc'[r] = "store" /\ appended' = appended
  BY StoredFacts
<1>2. /\ disk' = disk /\ read' = read /\ cid' = cid /\ blocks' = blocks
      /\ pins' = pins /\ announced' = announced /\ stale' = stale
  OBVIOUS
<1> QED
  BY <1>1, <1>2 DEF IInv, StageInv

(* The header is stored.                                                   *)
LEMMA AppendHeaderKeepsIInv ==
  ASSUME IInv, NEW r \in Requests, AppendHeader(r)
  PROVE  IInv'
<1>1. /\ pc[r] = "store" /\ "hdr" \in todo[r] /\ Stored(r, "hdr")
      /\ hdr' = target[r]
      /\ disk' = disk /\ read' = read /\ cid' = cid /\ blocks' = blocks
      /\ pins' = pins /\ arr' = arr /\ target' = target
      /\ clashed' = clashed /\ announced' = announced
      /\ edits' = edits /\ stops' = stops /\ stale' = stale
  BY DEF AppendHeader, boundVars
<1>2. /\ pc' \in [Requests -> {"idle", "block", "pin", "append", "store",
                               "publish", "ok", "error", "gone"}]
      /\ todo' \in [Requests -> SUBSET Stores]
      /\ appended' \subseteq Requests
      /\ todo' = [todo EXCEPT ![r] = @ \ {"hdr"}]
      /\ \A q \in Requests : pc'[q] = "store" \/ q \in appended' <=> Holds(q)
      /\ \A q \in Requests : pc'[q] = "store" => pc[q] = "store"
      /\ Begun' = Begun
      /\ Moves(todo, r, "hdr", Appending, appended, Appending', appended')
  BY <1>1, StoredFacts
<1>3. /\ arr \in [Names -> Seq(Entries)] /\ arr[Nil] = <<>>
      /\ target \in [Requests -> [arr : Names, len : Nat]]
      /\ \A a \in Names : \A i \in 1..Len(arr[a]), f \in Fields :
           arr[a][i][f] = Nil \/ Holds(arr[a][i][f])
      /\ \A q \in Requests : pc[q] = "store" =>
           /\ target[q].arr \in Requests /\ Holds(target[q].arr)
           /\ target[q].len \in 1..Len(arr[target[q].arr])
  BY DEF IInv, TypeOK, SliceInv, Names, Entries
<1>4. hdr' \in [arr : Names, len : Nat]
  BY <1>1, <1>3
<1>5. TypeOK'
  BY <1>1, <1>2, <1>4 DEF IInv, TypeOK, Names
<1>6. StageInv'
  BY <1>1, StoredStage
<1>7. SliceInv'
  <2>1. \A a \in Names : \A i \in 1..Len(arr[a]), f \in Fields : arr[a][i][f] \in Names
    BY FieldValues DEF IInv
  <2>2. \A a \in Names : \A i \in 1..Len(arr[a]), f \in Fields :
          arr[a][i][f] = Nil \/ pc'[arr[a][i][f]] = "store" \/ arr[a][i][f] \in appended'
    BY <1>2, <1>3, <2>1 DEF Names
  <2>3. hdr'.len <= Len(arr[hdr'.arr]) /\ hdr'.arr \in Requests
    BY <1>1, <1>3
  <2>4. pc'[hdr'.arr] = "store" \/ hdr'.arr \in appended'
    BY <1>1, <1>2, <1>3
  <2>5. \A q \in Requests : pc'[q] = "store" =>
          /\ target[q].arr \in Requests
          /\ pc'[target[q].arr] = "store" \/ target[q].arr \in appended'
          /\ target[q].len \in 1..Len(arr[target[q].arr])
    BY <1>2, <1>3
  <2> QED
    BY <1>1, <1>3, <2>2, <2>3, <2>4, <2>5 DEF SliceInv, Holds
<1>8. PlaceInv'
  BY <1>1 DEF IInv, PlaceInv
<1>9. r \in Appending /\ Appending' \subseteq Appending
  BY <1>1, <1>2 DEF Appending
<1>10. CountInv'
  BY <1>1, <1>2, <1>9 DEF IInv, CountInv
<1>11. ListInv'
  <2>1. Listing(Requests, arr, target[r], target, [todo EXCEPT ![r] = @ \ {"hdr"}],
                Appending', appended', clashed)
    BY <1>1, <1>2, <1>9, FilesFit, ListingHeader DEF IInv, ListInv
  <2> QED
    BY <1>1, <1>2, <2>1 DEF ListInv
<1> QED
  BY <1>5, <1>6, <1>7, <1>8, <1>10, <1>11 DEF IInv

(* A field is stored.                                                      *)
LEMMA AppendFieldKeepsIInv ==
  ASSUME IInv, NEW r \in Requests, AppendField(r)
  PROVE  IInv'
<1> DEFINE t == target[r].arr
           k == target[r].len
<1>0. PICK f \in Fields : /\ f \in todo[r]
                          /\ arr' = [arr EXCEPT ![t][k][f] = r]
                          /\ Stored(r, f)
  BY DEF AppendField
<1>1. /\ pc[r] = "store"
      /\ disk' = disk /\ read' = read /\ cid' = cid /\ blocks' = blocks
      /\ pins' = pins /\ hdr' = hdr /\ target' = target
      /\ clashed' = clashed /\ announced' = announced
      /\ edits' = edits /\ stops' = stops /\ stale' = stale
  BY DEF AppendField, boundVars
<1>2. /\ pc' \in [Requests -> {"idle", "block", "pin", "append", "store",
                               "publish", "ok", "error", "gone"}]
      /\ todo' \in [Requests -> SUBSET Stores]
      /\ appended' \subseteq Requests
      /\ todo' = [todo EXCEPT ![r] = @ \ {f}]
      /\ \A q \in Requests : pc'[q] = "store" \/ q \in appended' <=> Holds(q)
      /\ \A q \in Requests : pc'[q] = "store" => pc[q] = "store"
      /\ Begun' = Begun
      /\ Moves(todo, r, f, Appending, appended, Appending', appended')
  BY <1>0, <1>1, StoredFacts
<1>3. /\ arr \in [Names -> Seq([Fields -> Names])] /\ arr[Nil] = <<>>
      /\ hdr \in [arr : Names, len : Nat] /\ hdr.len <= Len(arr[hdr.arr])
      /\ hdr.arr = Nil \/ Holds(hdr.arr)
      /\ \A a \in Names : \A i \in 1..Len(arr[a]), g \in Fields :
           arr[a][i][g] = Nil \/ Holds(arr[a][i][g])
      /\ \A q \in Requests : pc[q] = "store" =>
           /\ target[q].arr \in Requests /\ Holds(target[q].arr)
           /\ target[q].len \in 1..Len(arr[target[q].arr])
  BY DEF IInv, TypeOK, SliceInv, Names
<1>4. /\ t \in Requests /\ k \in 1..Len(arr[t])
      /\ r \in Names /\ t \in Names /\ t # Nil /\ r # Nil
  BY <1>1, <1>3, FileAssumption DEF Names
<1>5. r \in Appending /\ Appending' \subseteq Appending
  BY <1>1, <1>2 DEF Appending
<1>6. ListInv'
  <2>1. Listing(Requests, [arr EXCEPT ![t][k][f] = r], hdr, target,
                [todo EXCEPT ![r] = @ \ {f}], Appending', appended', clashed)
    BY <1>0, <1>2, <1>5, FilesFit, ListingField DEF IInv, ListInv
  <2> QED
    BY <1>0, <1>1, <1>2, <2>1 DEF ListInv
<1>7. FieldStored(Names, Names, arr, arr', t, k, f, r)
  <2> HIDE DEF t, k
  <2> QED
    BY <1>0, <1>3, <1>4, StoreFacts
<1> HIDE DEF t, k
<1>8. /\ arr' \in [Names -> Seq([Fields -> Names])]
      /\ \A a \in Names : Len(arr'[a]) = Len(arr[a])
  BY <1>7 DEF FieldStored
<1>9. \A a \in Names : \A i \in 1..Len(arr[a]), g \in Fields :
        \/ arr'[a][i][g] = arr[a][i][g]
        \/ a = t /\ i = k /\ g = f /\ arr'[a][i][g] = r
  BY <1>7 DEF FieldStored
<1>10. arr'[Nil] = <<>>
  BY <1>3, <1>4, <1>7 DEF FieldStored, Names
<1>11. TypeOK'
  BY <1>1, <1>2, <1>8 DEF IInv, TypeOK, Names
<1>12. StageInv'
  BY <1>0, <1>1, StoredStage
<1>13. Holds(r)
  BY <1>1 DEF Holds
<1>14. SliceInv'
  <2>1. \A a \in Names : \A i \in 1..Len(arr[a]), g \in Fields :
          \/ arr'[a][i][g] = Nil
          \/ arr'[a][i][g] \in Requests /\ Holds(arr'[a][i][g])
    <3>1. \A a \in Names : \A i \in 1..Len(arr[a]), g \in Fields :
            arr[a][i][g] \in Names
      BY FieldValues DEF IInv
    <3>2. \A a \in Names : \A i \in 1..Len(arr[a]), g \in Fields :
            arr[a][i][g] = Nil \/ Holds(arr[a][i][g])
      BY <1>3
    <3>3. ASSUME NEW a \in Names, NEW i \in 1..Len(arr[a]), NEW g \in Fields
          PROVE  \/ arr'[a][i][g] = Nil
                 \/ arr'[a][i][g] \in Requests /\ Holds(arr'[a][i][g])
      <4>1. CASE arr'[a][i][g] = arr[a][i][g]
        BY <3>1, <3>2, <4>1 DEF Names
      <4>2. CASE arr'[a][i][g] = r
        BY <1>13, <4>2
      <4> QED
        BY <1>9, <4>1, <4>2
    <3> QED
      BY <3>3
  <2>2. \A a \in Names : \A i \in 1..Len(arr'[a]), g \in Fields :
          arr'[a][i][g] = Nil \/ pc'[arr'[a][i][g]] = "store"
            \/ arr'[a][i][g] \in appended'
    BY <1>2, <1>8, <2>1
  <2>3. hdr.arr = Nil \/ pc'[hdr.arr] = "store" \/ hdr.arr \in appended'
    BY <1>2, <1>3 DEF Names
  <2>4. hdr.len <= Len(arr'[hdr.arr])
    BY <1>3, <1>8
  <2>5. \A q \in Requests : pc'[q] = "store" =>
          /\ target[q].arr \in Requests
          /\ pc'[target[q].arr] = "store" \/ target[q].arr \in appended'
          /\ target[q].len \in 1..Len(arr'[target[q].arr])
    BY <1>2, <1>3, <1>8 DEF Names
  <2> QED
    BY <1>1, <1>10, <2>2, <2>3, <2>4, <2>5 DEF SliceInv, Holds
<1>15. PlaceInv'
  <2>1. ASSUME NEW a \in Names, NEW i \in 1..Len(arr[a]), NEW g \in Fields,
               arr'[a][i][g] # Nil
        PROVE  i = target[arr'[a][i][g]].len
    <3>1. \/ arr'[a][i][g] = arr[a][i][g]
          \/ i = k /\ arr'[a][i][g] = r
      BY <1>9
    <3> QED
      BY <2>1, <3>1 DEF IInv, PlaceInv, k
  <2>2. target' = target /\ \A a \in Names : Len(arr'[a]) = Len(arr[a])
    BY <1>1, <1>8
  <2> QED
    BY ONLY <2>1, <2>2 DEF PlaceInv
<1>16. CountInv'
  BY <1>1, <1>2, <1>5 DEF IInv, CountInv
<1> QED
  BY <1>6, <1>11, <1>12, <1>14, <1>15, <1>16 DEF IInv

(* What happens outside the model's variables changes nothing.             *)
LEMMA StutterKeepsIInv == IInv /\ UNCHANGED vars => IInv'
<1> SUFFICES ASSUME IInv, UNCHANGED vars PROVE IInv'
  OBVIOUS
<1>1. /\ disk' = disk /\ pc' = pc /\ read' = read /\ cid' = cid
      /\ blocks' = blocks /\ pins' = pins /\ announced' = announced
      /\ edits' = edits /\ stops' = stops /\ stale' = stale
      /\ UNCHANGED sliceVars
  BY DEF vars, boundVars
<1>2. SliceInv' /\ PlaceInv' /\ CountInv' /\ ListInv'
  BY <1>1, SlicesKept
<1>3. /\ arr' = arr /\ hdr' = hdr /\ target' = target /\ todo' = todo
      /\ clashed' = clashed /\ appended' = appended
  BY <1>1 DEF sliceVars
<1>4. TypeOK'
  BY <1>1, <1>3 DEF IInv, TypeOK
<1>5. StageInv'
  BY <1>1, <1>3 DEF IInv, StageInv
<1> QED
  BY <1>2, <1>4, <1>5 DEF IInv

(* IInv is an invariant of every instance, whatever requests came before.  *)
THEOREM IInvInvariant == Spec => []IInv
<1>1. IInv /\ [Next]_vars => IInv'
  <2> SUFFICES ASSUME IInv, [Next]_vars PROVE IInv'
    OBVIOUS
  <2>1. CASE Next
    BY <2>1, PutFilesKeepsIInv, PutIPFSBlockKeepsIInv, PinFileKeepsIInv,
       AppendLoadKeepsIInv, AppendHeaderKeepsIInv, AppendFieldKeepsIInv,
       PublishKeepsIInv, EditKeepsIInv, RestartKeepsIInv
    DEF Next, RequestStep
  <2>2. CASE UNCHANGED vars
    BY <2>2, StutterKeepsIInv
  <2> QED
    BY <2>1, <2>2
<1> QED
  BY InitIInv, <1>1, PTL DEF Spec
-----------------------------------------------------------------------------
(* The fields that GET /files shows are of appends of this process, in the *)
(* place that each has chosen.                                             *)
LEMMA ShownFields ==
  ASSUME IInv, NEW i \in 1..hdr.len
  PROVE  \A f \in Fields : arr[hdr.arr][i][f] # Nil =>
           /\ arr[hdr.arr][i][f] \in Requests
           /\ Holds(arr[hdr.arr][i][f])
           /\ i = target[arr[hdr.arr][i][f]].len
<1>1. /\ hdr.arr \in Names /\ hdr.len \in Nat
      /\ arr[hdr.arr] \in Seq([Fields -> Names])
      /\ hdr.len <= Len(arr[hdr.arr])
  BY DEF IInv, TypeOK, SliceInv, Names
<1>2. i \in 1..Len(arr[hdr.arr])
  BY <1>1
<1>3. \A f \in Fields : arr[hdr.arr][i][f] \in Names
  BY <1>1, <1>2, FieldValues DEF IInv
<1> QED
  BY <1>1, <1>2, <1>3 DEF IInv, SliceInv, PlaceInv, Names

(* Two undisturbed fields of an entry are from one append.                 *)
LEMMA FieldsOfOne ==
  ASSUME IInv, NEW i \in 1..hdr.len, NEW f \in Fields, NEW g \in Fields,
         {arr[hdr.arr][i][f], arr[hdr.arr][i][g]} \cap (clashed \cup {Nil}) = {}
  PROVE  arr[hdr.arr][i][f] = arr[hdr.arr][i][g]
<1> DEFINE x == arr[hdr.arr][i][f]
           y == arr[hdr.arr][i][g]
<1>1. /\ x \notin clashed /\ y \notin clashed
      /\ x \in Requests /\ y \in Requests /\ Holds(x) /\ Holds(y)
      /\ i = target[x].len /\ i = target[y].len
  BY ShownFields
<1>2. \A z \in appended \ clashed : arr[hdr.arr][target[z].len] = Whole(z)
  BY DEF IInv, ListInv, Listing, KeptIn
<1>3. \A z \in Appending \ clashed : \A q \in Appending : q = z
  BY DEF IInv, ListInv, Listing, PendingIn
<1>4. CASE x \in appended
  <2>1. arr[hdr.arr][i] = Whole(x)
    BY <1>1, <1>2, <1>4
  <2> QED
    BY <2>1 DEF Whole
<1>5. CASE y \in appended
  <2>1. arr[hdr.arr][i] = Whole(y)
    BY <1>1, <1>2, <1>5
  <2> QED
    BY <2>1 DEF Whole
<1>6. CASE x \notin appended /\ y \notin appended
  <2>1. x \in Appending /\ y \in Appending
    BY <1>1, <1>6 DEF Holds, Appending
  <2> QED
    BY <1>1, <1>3, <2>1
<1> QED
  BY <1>4, <1>5, <1>6

(* A field of an entry of the list has its block in the repository and its *)
(* CID at Pinata, however appends raced, and the CID and the size of an    *)
(* undisturbed entry are of one content (node/node.go:382-425), in every   *)
(* instance.                                                               *)
THEOREM ListIsBacked == Spec => []FilesInv
<1>1. IInv => FilesInv
  <2> SUFFICES ASSUME IInv, NEW i \in 1..hdr.len
               PROVE  LET entry == arr[hdr.arr][i]
                      IN /\ \A f \in Fields : entry[f] # Nil =>
                              /\ read[entry[f]] \in blocks
                              /\ cid[entry[f]] \in pins \cup {Undef}
                         /\ Undisturbed(entry) =>
                              cid[entry["Cid"]] \in {read[entry["Size"]], Undef}
    BY DEF FilesInv, ListedIsStored, Listed, Visible, IInv
  <2> DEFINE entry == arr[hdr.arr][i]
  <2>1. \A r \in Requests : Holds(r) =>
          /\ read[r] \in blocks /\ cid[r] \in pins \cup {Undef}
          /\ cid[r] # Undef /\ r \notin stale => cid[r] = read[r]
    BY DEF IInv, StageInv, Holds
  <2>2. \A f \in Fields : entry[f] # Nil =>
          read[entry[f]] \in blocks /\ cid[entry[f]] \in pins \cup {Undef}
    BY <2>1, ShownFields
  <2>3. ASSUME Undisturbed(entry)
        PROVE  cid[entry["Cid"]] \in {read[entry["Size"]], Undef}
    <3>1. "Cid" \in Fields /\ "Size" \in Fields
      BY FileAssumption
    <3>2. entry["Cid"] = entry["Size"] /\ entry["Cid"] # Nil
          /\ entry["Cid"] \notin stale
      BY <2>3, <3>1, FieldsOfOne DEF Undisturbed
    <3> QED
      BY <2>1, <3>1, <3>2, ShownFields
  <2> QED
    BY <2>2, <2>3
<1> QED
  BY IInvInvariant, <1>1, PTL

(* A CID that was announced stays pinned, whatever happens to the file and *)
(* the node (node/node.go:401-418), in every instance.                     *)
THEOREM AnnouncementsLast == Spec => []AnnouncedIsPinned
<1>1. IInv => AnnouncedIsPinned
  BY DEF AnnouncedIsPinned, IInv, StageInv
<1> QED
  BY IInvInvariant, <1>1, PTL

(* What the slice shows of the appends.                                    *)
LEMMA ListedAppends ==
  ASSUME IInv
  PROVE  /\ \A r \in appended \ clashed : Whole(r) \in Listed
         /\ clashed = {} /\ Appending = {} =>
              Listed \subseteq {Whole(r) : r \in appended}
<1>1. /\ \A r \in appended \ clashed : Whole(r) \in Visible(arr, hdr)
      /\ Appending = {} /\ appended \cap clashed = {} =>
           Visible(arr, hdr) \subseteq {Whole(r) : r \in Requests}
  BY ListingShows DEF IInv, ListInv
<1>2. ASSUME clashed = {}, Appending = {}, NEW entry \in Listed
      PROVE  \E r \in appended : entry = Whole(r)
  <2>1. PICK i \in 1..hdr.len : entry = arr[hdr.arr][i]
    BY DEF Listed, Visible
  <2>2. PICK r \in Requests : entry = Whole(r)
    BY <1>1, <1>2 DEF Listed
  <2>3. "Cid" \in Fields /\ r # Nil
    BY FileAssumption
  <2>4. arr[hdr.arr][i]["Cid"] = r
    BY <2>1, <2>2, <2>3 DEF Whole
  <2>5. Holds(r)
    BY <2>3, <2>4, ShownFields
  <2>6. r \in appended
    BY <1>2, <2>5 DEF Holds, Appending
  <2> QED
    BY <2>2, <2>6
<1> QED
  BY <1>1, <1>2 DEF Listed

(* A request answered 200 has announced the CID of its pin and stored its  *)
(* block, and its entry is listed whole for as long as the process lives,  *)
(* whatever other requests do, unless its own append overlapped another    *)
(* one; the CID is undefined only if Pinata's answer did not parse         *)
(* (node/node.go:388-425), in every instance.                              *)
THEOREM OkKeepsItsPromise == Spec => []OkIsComplete
<1>1. IInv => OkIsComplete
  BY ListedAppends DEF OkIsComplete, IInv, StageInv
<1> QED
  BY IInvInvariant, <1>1, PTL

(* Only the entry of an append that overlapped another one is lost or      *)
(* garbled (node/node.go:409), in every instance.                          *)
THEOREM OnlyOverlapsLoseFiles == Spec => []LossNeedsOverlap
<1>1. IInv => LossNeedsOverlap
  BY ListedAppends DEF LossNeedsOverlap, IInv, CountInv, Begun
<1> QED
  BY IInvInvariant, <1>1, PTL
=============================================================================

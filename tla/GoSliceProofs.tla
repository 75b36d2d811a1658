--------------------------- MODULE GoSliceProofs ---------------------------
(* Facts about append that the proofs of its users cite.                   *)
EXTENDS GoSlice, TLAPS

(* The slice h lies within the arrays, which S names and whose elements    *)
(* are in V; p can name a new array.                                       *)
SliceFits(S, V, arr, h, p) ==
  /\ Nil \in S /\ p \in S /\ p # Nil /\ Zero \in V
  /\ arr \in [S -> Seq(V)] /\ arr[Nil] = << >>
  /\ h \in [arr : S, len : Nat] /\ h.len <= Len(arr[h.arr])

(* Growing an array copies the elements of the slice and adds zero values. *)
LEMMA GrownArrayFacts ==
  ASSUME NEW S, NEW V, NEW arr, NEW h, NEW p, SliceFits(S, V, arr, h, p)
  PROVE  /\ GrownArray(arr, h) \in Seq(V)
         /\ Len(GrownArray(arr, h)) \in Nat
         /\ Len(GrownArray(arr, h)) > h.len
         /\ \A i \in 1..Len(GrownArray(arr, h)) :
              GrownArray(arr, h)[i] = IF i <= h.len THEN arr[h.arr][i] ELSE Zero
<1> USE DEF SliceFits
<1> DEFINE n == GrownCap(h.len)
<1>1. n \in Nat /\ n > h.len
  BY DEF GrownCap
<1>2. arr[h.arr] \in Seq(V)
  OBVIOUS
<1>3. \A i \in 1..n : (IF i <= h.len THEN arr[h.arr][i] ELSE Zero) \in V
  <2> SUFFICES ASSUME NEW i \in 1..n, i <= h.len
               PROVE  arr[h.arr][i] \in V
    OBVIOUS
  <2>1. i \in 1..Len(arr[h.arr])
    BY <1>1, <1>2
  <2> QED BY <1>2, <2>1
<1>4. GrownArray(arr, h) \in [1..n -> V]
  BY <1>3 DEF GrownArray
<1>5. GrownArray(arr, h) \in Seq(V) /\ Len(GrownArray(arr, h)) = n
  <2> HIDE DEF n
  <2>1. ASSUME NEW f \in [1..n -> V] PROVE f \in Seq(V) /\ Len(f) = n
    BY <1>1
  <2> QED
    BY <1>4, <2>1
<1> QED
  BY <1>1, <1>5 DEF GrownArray

(* Making room for p leaves the other arrays alone, and gives p a slot     *)
(* behind the slice in a non-nil array whose contents it keeps.            *)
RoomMade(S, V, arr, h, p) ==
  /\ WithRoom(arr, h, p) \in [S -> Seq(V)]
  /\ \A a \in S : a # p => WithRoom(arr, h, p)[a] = arr[a]
  /\ \/ WithRoom(arr, h, p)[p] = arr[p]
     \/ \A i \in 1..Len(WithRoom(arr, h, p)[p]) :
          WithRoom(arr, h, p)[p][i] =
            IF i <= h.len THEN arr[h.arr][i] ELSE Zero
  /\ NextHeader(arr, h, p) \in [arr : S, len : Nat]
  /\ NextHeader(arr, h, p).arr # Nil
  /\ NextHeader(arr, h, p).len = h.len + 1
  /\ NextHeader(arr, h, p).arr \in {p, h.arr}
  /\ NextHeader(arr, h, p).len
       \in 1..Len(WithRoom(arr, h, p)[NextHeader(arr, h, p).arr])

(* append makes room for its element and keeps what the array held.       *)
LEMMA RoomFacts ==
  ASSUME NEW S, NEW V, NEW arr, NEW h, NEW p, SliceFits(S, V, arr, h, p)
  PROVE  RoomMade(S, V, arr, h, p)
<1>0. /\ GrownArray(arr, h) \in Seq(V)
      /\ Len(GrownArray(arr, h)) \in Nat
      /\ Len(GrownArray(arr, h)) > h.len
      /\ \A i \in 1..Len(GrownArray(arr, h)) :
           GrownArray(arr, h)[i] = IF i <= h.len THEN arr[h.arr][i] ELSE Zero
  BY GrownArrayFacts
<1> USE DEF SliceFits
<1>1. CASE Grows(arr, h)
  <2> DEFINE g == GrownArray(arr, h)
             room == WithRoom(arr, h, p)
             next == NextHeader(arr, h, p)
  <2>1. room = [arr EXCEPT ![p] = g]
    BY <1>1 DEF WithRoom
  <2>2. next = [arr |-> p, len |-> h.len + 1]
    BY <1>1 DEF NextHeader
  <2>3. room[p] = g
    BY <2>1
  <2>4. /\ g \in Seq(V)
        /\ Len(g) \in Nat /\ Len(g) > h.len
        /\ \A i \in 1..Len(g) : g[i] = IF i <= h.len THEN arr[h.arr][i] ELSE Zero
    BY <1>0
  <2> HIDE DEF g, room, next
  <2>5. room \in [S -> Seq(V)]
    BY <2>1, <2>4
  <2>6. \A a \in S : a # p => room[a] = arr[a]
    BY <2>1
  <2>7. /\ next \in [arr : S, len : Nat]
        /\ next.len = h.len + 1
        /\ next.arr = p /\ next.arr # Nil
    BY <2>2
  <2>8. next.len \in 1..Len(room[next.arr])
    BY <2>3, <2>4, <2>7
  <2>9. \A i \in 1..Len(room[p]) :
          room[p][i] = IF i <= h.len THEN arr[h.arr][i] ELSE Zero
    BY <2>3, <2>4
  <2> QED
    BY <2>5, <2>6, <2>7, <2>8, <2>9 DEF RoomMade, room, next
<1>2. CASE ~Grows(arr, h)
  <2>1. WithRoom(arr, h, p) = arr
    BY <1>2 DEF WithRoom
  <2>2. NextHeader(arr, h, p) = [arr |-> h.arr, len |-> h.len + 1]
    BY <1>2 DEF NextHeader
  <2>3. Len(arr[h.arr]) \in Nat /\ h.len < Len(arr[h.arr])
    BY <1>2 DEF Grows, Cap
  <2>4. h.arr # Nil
    BY <2>3
  <2> QED
    BY <2>1, <2>2, <2>3, <2>4 DEF RoomMade
<1> QED
  BY <1>1, <1>2

(* The slice append makes begins with the elements of the one it extends.  *)
LEMMA RoomCopies ==
  ASSUME NEW S, NEW V, NEW arr, NEW h, NEW p, SliceFits(S, V, arr, h, p)
  PROVE  \A i \in 1..h.len :
           WithRoom(arr, h, p)[NextHeader(arr, h, p).arr][i] = arr[h.arr][i]
<1> USE DEF SliceFits
<1>1. CASE Grows(arr, h)
  <2>1. WithRoom(arr, h, p) = [arr EXCEPT ![p] = GrownArray(arr, h)]
    BY <1>1 DEF WithRoom
  <2>2. NextHeader(arr, h, p).arr = p
    BY <1>1 DEF NextHeader
  <2>3. WithRoom(arr, h, p)[p] = GrownArray(arr, h)
    BY <2>1
  <2>4. \A i \in 1..h.len : GrownArray(arr, h)[i] = arr[h.arr][i]
    BY DEF GrownArray, GrownCap
  <2> QED
    BY <2>2, <2>3, <2>4
<1>2. CASE ~Grows(arr, h)
  BY <1>2 DEF WithRoom, NextHeader
<1> QED
  BY <1>1, <1>2

(* B is A but for field f of element k of array a, where x is stored.      *)
FieldStored(S, X, A, B, a, k, f, x) ==
  /\ B \in [S -> Seq([Fields -> X])]
  /\ \A b \in S : Len(B[b]) = Len(A[b])
  /\ \A b \in S : b # a => B[b] = A[b]
  /\ \A i \in 1..Len(A[a]) : i # k => B[a][i] = A[a][i]
  /\ \A g \in Fields : B[a][k][g] = IF g = f THEN x ELSE A[a][k][g]

(* The store of a field changes one place of one array, in that field.     *)
LEMMA StoreFacts ==
  ASSUME NEW S, NEW X, NEW A \in [S -> Seq([Fields -> X])], NEW a \in S,
         NEW k \in 1..Len(A[a]), NEW f \in Fields, NEW x \in X
  PROVE  FieldStored(S, X, A, [A EXCEPT ![a][k][f] = x], a, k, f, x)
<1> DEFINE e == [A[a][k] EXCEPT ![f] = x]
           q == [A[a] EXCEPT ![k] = e]
           B == [A EXCEPT ![a] = q]
<1>1. A[a] \in Seq([Fields -> X]) /\ A[a][k] \in [Fields -> X]
  OBVIOUS
<1>2. /\ e \in [Fields -> X]
      /\ \A g \in Fields : e[g] = IF g = f THEN x ELSE A[a][k][g]
  BY <1>1
<1>3. [A EXCEPT ![a][k][f] = x] = B
  OBVIOUS
<1> HIDE DEF e
<1>4. q \in Seq([Fields -> X]) /\ Len(q) = Len(A[a]) /\ q[k] = e
  BY <1>1, <1>2
<1>5. \A i \in 1..Len(A[a]) : i # k => q[i] = A[a][i]
  BY <1>1
<1> HIDE DEF q
<1>6. /\ B \in [S -> Seq([Fields -> X])] /\ B[a] = q
      /\ \A b \in S : b # a => B[b] = A[b]
  BY <1>4
<1> HIDE DEF B
<1>7. \A b \in S : Len(B[b]) = Len(A[b])
  BY <1>4, <1>6
<1> QED
  BY <1>2, <1>3, <1>4, <1>5, <1>6, <1>7 DEF FieldStored
-----------------------------------------------------------------------------
(* One list and the appends made to it.  R are the goroutines, App those   *)
(* inside append, D those whose append is complete, and C those whose      *)
(* append has overlapped another one.                                      *)

(* The slice, and those the appends will store, lie within the arrays.     *)
ListFits(R, arr, h, target, todo, App, D) ==
  /\ Nil \notin R
  /\ arr \in [R \cup {Nil} -> Seq([Fields -> R \cup {Nil}])]
  /\ arr[Nil] = <<>>
  /\ h \in [arr : R \cup {Nil}, len : Nat] /\ h.len <= Len(arr[h.arr])
  /\ target \in [R -> [arr : R \cup {Nil}, len : Nat]]
  /\ todo \in [R -> SUBSET Stores]
  /\ App \subseteq R /\ D \subseteq R
  /\ \A q \in App : /\ target[q].arr \in R
                    /\ target[q].len \in 1..Len(arr[target[q].arr])

(* The first n elements are whole ones.                                    *)
WholeUpTo(R, elems, n) == \A i \in 1..n : \E x \in R : elems[i] = Whole(x)

(* The element of a completed append that overlapped no other is in the    *)
(* slice, and in every slice that an append will store, before its end.    *)
KeptIn(arr, h, target, App, D, C) ==
  \A x \in D \ C :
    /\ target[x].len \in 1..h.len
    /\ arr[h.arr][target[x].len] = Whole(x)
    /\ \A q \in App : /\ target[x].len < target[q].len
                      /\ arr[target[q].arr][target[x].len] = Whole(x)

(* An append that overlaps no other is alone, and what it has stored is    *)
(* still there.                                                            *)
PendingIn(arr, h, target, todo, App, C) ==
  \A r \in App \ C :
    /\ \A q \in App : q = r
    /\ \A f \in Fields \ todo[r] : arr[target[r].arr][target[r].len][f] = r
    /\ "hdr" \notin todo[r] => h = target[r]
    /\ "hdr" \in todo[r] => h.len < target[r].len

(* Where no appends have overlapped, all elements are whole but the one an *)
(* append is storing.                                                      *)
CleanIn(R, arr, h, target, todo, App, D, C) ==
  (App \cup D) \cap C = {} =>
    /\ \A q \in App : WholeUpTo(R, arr[target[q].arr], target[q].len - 1)
    /\ (\A q \in App : "hdr" \in todo[q]) => WholeUpTo(R, arr[h.arr], h.len)

Listing(R, arr, h, target, todo, App, D, C) ==
  /\ KeptIn(arr, h, target, App, D, C)
  /\ PendingIn(arr, h, target, todo, App, C)
  /\ CleanIn(R, arr, h, target, todo, App, D, C)

(* An append begins.                                                       *)
LEMMA ListingLoad ==
  ASSUME NEW R, NEW arr, NEW h, NEW target, NEW todo, NEW App, NEW D, NEW C,
         ListFits(R, arr, h, target, todo, App, D),
         Listing(R, arr, h, target, todo, App, D, C),
         NEW p \in R, p \notin App, p \notin D, h.arr # p,
         \A q \in App : target[q].arr # p
  PROVE  Listing(R, WithRoom(arr, h, p), h,
                 [target EXCEPT ![p] = NextHeader(arr, h, p)],
                 [todo EXCEPT ![p] = Stores],
                 App \cup {p}, D, IF App = {} THEN C ELSE C \cup App \cup {p})
<1> DEFINE room == WithRoom(arr, h, p)
           next == NextHeader(arr, h, p)
           T == [target EXCEPT ![p] = next]
           U == [todo EXCEPT ![p] = Stores]
           App2 == App \cup {p}
           C2 == IF App = {} THEN C ELSE C \cup App \cup {p}
           N == R \cup {Nil}
           V == [Fields -> N]
<1>1. /\ h.arr \in N /\ h.len \in Nat /\ App \subseteq R /\ D \subseteq R
      /\ \A q \in App : target[q].arr \in N
      /\ target \in [R -> [arr : N, len : Nat]] /\ todo \in [R -> SUBSET Stores]
  BY DEF ListFits
<1>2. SliceFits(N, V, arr, h, p)
  <2>1. Zero \in V
    BY DEF Zero
  <2> QED
    BY <2>1 DEF SliceFits, ListFits
<1>3. RoomMade(N, V, arr, h, p)
  BY <1>2, RoomFacts
<1>4. /\ \A a \in N : a # p => room[a] = arr[a]
      /\ next.len = h.len + 1
  BY <1>3 DEF RoomMade
<1>5. \A i \in 1..h.len : room[next.arr][i] = arr[h.arr][i]
  BY <1>2, RoomCopies
<1> HIDE DEF room, next, V
<1>6. /\ T[p] = next /\ \A q \in R : q # p => T[q] = target[q]
      /\ U[p] = Stores /\ \A q \in R : q # p => U[q] = todo[q]
  BY <1>1
<1>7. room[h.arr] = arr[h.arr] /\ \A q \in App : room[target[q].arr] = arr[target[q].arr]
  BY <1>1, <1>4
<1> HIDE DEF T, U, N
<1>8. KeptIn(room, h, T, App2, D, C2)
  <2> SUFFICES ASSUME NEW x \in D \ C2
               PROVE  /\ T[x].len \in 1..h.len
                      /\ room[h.arr][T[x].len] = Whole(x)
                      /\ \A q \in App2 : /\ T[x].len < T[q].len
                                         /\ room[T[q].arr][T[x].len] = Whole(x)
    BY DEF KeptIn
  <2>1. /\ target[x].len \in 1..h.len
        /\ arr[h.arr][target[x].len] = Whole(x)
        /\ \A q \in App : /\ target[x].len < target[q].len
                          /\ arr[target[q].arr][target[x].len] = Whole(x)
    BY DEF Listing, KeptIn
  <2>2. T[x] = target[x]
    BY <1>1, <1>6
  <2>3. room[next.arr][target[x].len] = Whole(x) /\ target[x].len < next.len
    BY <1>1, <1>4, <1>5, <2>1
  <2> QED
    BY <1>1, <1>6, <1>7, <2>1, <2>2, <2>3
<1>9. PendingIn(room, h, T, U, App2, C2)
  <2> SUFFICES ASSUME NEW r \in App2 \ C2
               PROVE  /\ \A q \in App2 : q = r
                      /\ \A f \in Fields \ U[r] : room[T[r].arr][T[r].len][f] = r
                      /\ "hdr" \notin U[r] => h = T[r]
                      /\ "hdr" \in U[r] => h.len < T[r].len
    BY DEF PendingIn
  <2>1. App = {} /\ r = p
    OBVIOUS
  <2> QED
    BY <1>1, <1>4, <1>6, <2>1 DEF Stores
<1>10. CleanIn(R, room, h, T, U, App2, D, C2)
  <2> SUFFICES ASSUME (App2 \cup D) \cap C2 = {}
               PROVE  /\ \A q \in App2 : WholeUpTo(R, room[T[q].arr], T[q].len - 1)
                      /\ WholeUpTo(R, room[h.arr], h.len)
    BY DEF CleanIn
  <2>1. App = {} /\ D \cap C = {}
    OBVIOUS
  <2>2. WholeUpTo(R, arr[h.arr], h.len)
    BY <2>1 DEF Listing, CleanIn
  <2>3. WholeUpTo(R, room[next.arr], h.len)
    BY <1>5, <2>2 DEF WholeUpTo
  <2>4. T[p].len - 1 = h.len
    BY <1>1, <1>4, <1>6
  <2> QED
    BY <1>6, <1>7, <2>1, <2>2, <2>3, <2>4
<1> QED
  BY <1>8, <1>9, <1>10 DEF Listing, room, next, T, U

(* A goroutine leaves append with its last store.                          *)
Moves(todo, r, what, App, D, App2, D2) ==
  IF todo[r] = {what} THEN App2 = App \ {r} /\ D2 = D \cup {r}
                      ELSE App2 = App /\ D2 = D

(* An element all of whose fields are from r.                              *)
LEMMA WholeElement ==
  ASSUME NEW X, NEW e \in [Fields -> X], NEW r, \A f \in Fields : e[f] = r
  PROVE  e = Whole(r)
BY DEF Whole

(* The header is stored.                                                   *)
LEMMA ListingHeader ==
  ASSUME NEW R, NEW arr, NEW h, NEW target, NEW todo, NEW App, NEW D, NEW C,
         ListFits(R, arr, h, target, todo, App, D),
         Listing(R, arr, h, target, todo, App, D, C),
         NEW r \in App, "hdr" \in todo[r], NEW App2, NEW D2,
         Moves(todo, r, "hdr", App, D, App2, D2)
  PROVE  Listing(R, arr, target[r], target, [todo EXCEPT ![r] = @ \ {"hdr"}],
                 App2, D2, C)
<1> DEFINE U == [todo EXCEPT ![r] = @ \ {"hdr"}]
           t == target[r].arr
           k == target[r].len
<1>1. /\ r \in R /\ todo \in [R -> SUBSET Stores] /\ k \in Nat /\ k >= 1
      /\ App \subseteq R
  <2>1. r \in R /\ todo \in [R -> SUBSET Stores] /\ App \subseteq R
    BY DEF ListFits
  <2>2. k \in 1..Len(arr[t]) /\ k \in Nat
    BY <2>1 DEF ListFits
  <2> QED
    BY <2>1, <2>2
<1>2. arr[t][k] \in [Fields -> R \cup {Nil}]
  <2>1. t \in R /\ k \in 1..Len(arr[t])
    BY DEF ListFits
  <2>2. arr[t] \in Seq([Fields -> R \cup {Nil}])
    BY <2>1 DEF ListFits
  <2> QED
    BY <2>1, <2>2
<1>3. App2 \subseteq App /\ App2 \cup D2 = App \cup D /\ D2 \subseteq D \cup {r}
  BY DEF Moves
<1>4. U[r] = todo[r] \ {"hdr"} /\ \A q \in R : q # r => U[q] = todo[q]
  BY <1>1
<1>5. r \notin C =>
        /\ \A q \in App : q = r
        /\ \A f \in Fields \ todo[r] : arr[t][k][f] = r
  BY DEF Listing, PendingIn
<1>6. r \notin C /\ todo[r] = {"hdr"} => arr[t][k] = Whole(r) /\ App2 = {}
  <2> SUFFICES ASSUME r \notin C, todo[r] = {"hdr"}
               PROVE  arr[t][k] = Whole(r) /\ App2 = {}
    OBVIOUS
  <2>1. \A f \in Fields : arr[t][k][f] = r
    BY <1>5, SliceAssumption
  <2>2. App2 = {}
    BY <1>5 DEF Moves
  <2> QED
    BY <1>2, <2>1, <2>2, WholeElement
<1> HIDE DEF U
<1>7. KeptIn(arr, target[r], target, App2, D2, C)
  <2> SUFFICES ASSUME NEW x \in D2 \ C
               PROVE  /\ target[x].len \in 1..k
                      /\ arr[t][target[x].len] = Whole(x)
                      /\ \A q \in App2 : /\ target[x].len < target[q].len
                                         /\ arr[target[q].arr][target[x].len] = Whole(x)
    BY DEF KeptIn
  <2>1. CASE x \in D
    <3>1. /\ target[x].len \in 1..h.len
          /\ \A q \in App : /\ target[x].len < target[q].len
                            /\ arr[target[q].arr][target[x].len] = Whole(x)
      BY <2>1 DEF Listing, KeptIn
    <3>2. target[x].len \in Nat /\ target[x].len >= 1 /\ target[x].len < k
      BY <3>1 DEF ListFits
    <3> HIDE DEF k
    <3>3. target[x].len \in 1..k
      BY <1>1, <3>2
    <3> QED
      BY <1>3, <3>1, <3>3
  <2>2. CASE x = r /\ x \notin D
    <3>1. todo[r] = {"hdr"}
      BY <2>2 DEF Moves
    <3>2. target[x].len \in 1..k
      BY <1>1, <2>2
    <3> QED
      BY <1>6, <2>2, <3>1, <3>2
  <2> QED
    BY <1>3, <2>1, <2>2
<1>8. PendingIn(arr, target[r], target, U, App2, C)
  <2> SUFFICES ASSUME NEW x \in App2 \ C
               PROVE  /\ \A q \in App2 : q = x
                      /\ \A f \in Fields \ U[x] :
                           arr[target[x].arr][target[x].len][f] = x
                      /\ "hdr" \notin U[x] => target[r] = target[x]
                      /\ "hdr" \in U[x] => k < target[x].len
    BY DEF PendingIn
  <2>1. \A q \in App : q = x
    BY <1>3 DEF Listing, PendingIn
  <2>2. x = r
    BY <2>1
  <2> QED
    BY <1>3, <1>4, <1>5, <2>1, <2>2, SliceAssumption
<1>9. CleanIn(R, arr, target[r], target, U, App2, D2, C)
  <2> SUFFICES ASSUME (App2 \cup D2) \cap C = {}
               PROVE  /\ \A q \in App2 :
                           WholeUpTo(R, arr[target[q].arr], target[q].len - 1)
                      /\ (\A q \in App2 : "hdr" \in U[q]) => WholeUpTo(R, arr[t], k)
    BY DEF CleanIn
  <2>1. r \notin C
    BY <1>3
  <2>2. \A q \in App : WholeUpTo(R, arr[target[q].arr], target[q].len - 1)
    BY <1>3 DEF Listing, CleanIn
  <2>3. ASSUME \A q \in App2 : "hdr" \in U[q]
        PROVE  WholeUpTo(R, arr[t], k)
    <3>1. r \notin App2
      BY <1>4, <2>3
    <3>2. todo[r] = {"hdr"}
      BY <3>1 DEF Moves
    <3>3. arr[t][k] = Whole(r)
      BY <1>6, <2>1, <3>2
    <3>4. WholeUpTo(R, arr[t], k - 1)
      BY <2>2
    <3> HIDE DEF t, k
    <3>5. \A i \in 1..k : i = k \/ i \in 1..(k - 1)
      BY <1>1
    <3> QED
      BY <1>1, <3>3, <3>4, <3>5 DEF WholeUpTo
  <2> QED
    BY <1>3, <2>2, <2>3
<1> QED
  BY <1>7, <1>8, <1>9 DEF Listing, U

(* A field is stored.                                                      *)
LEMMA ListingField ==
  ASSUME NEW R, NEW arr, NEW h, NEW target, NEW todo, NEW App, NEW D, NEW C,
         ListFits(R, arr, h, target, todo, App, D),
         Listing(R, arr, h, target, todo, App, D, C),
         NEW r \in App, NEW f \in Fields, f \in todo[r], NEW App2, NEW D2,
         Moves(todo, r, f, App, D, App2, D2)
  PROVE  Listing(R, [arr EXCEPT ![target[r].arr][target[r].len][f] = r], h,
                 target, [todo EXCEPT ![r] = @ \ {f}], App2, D2, C)
<1> DEFINE U == [todo EXCEPT ![r] = @ \ {f}]
           t == target[r].arr
           k == target[r].len
           B == [arr EXCEPT ![t][k][f] = r]
           N == R \cup {Nil}
<1>1. /\ r \in R /\ r \in N /\ App \subseteq R /\ D \subseteq R
      /\ todo \in [R -> SUBSET Stores] /\ t \in N /\ k \in 1..Len(arr[t])
      /\ arr \in [N -> Seq([Fields -> N])]
      /\ h.arr \in N /\ h.len \in Nat /\ h.len <= Len(arr[h.arr])
      /\ \A q \in App : target[q].arr \in N
                       /\ target[q].len \in 1..Len(arr[target[q].arr])
  BY DEF ListFits
<1>2. /\ B \in [N -> Seq([Fields -> N])]
      /\ \A b \in N : b # t => B[b] = arr[b]
      /\ \A i \in 1..Len(arr[t]) : i # k => B[t][i] = arr[t][i]
      /\ \A g \in Fields : B[t][k][g] = IF g = f THEN r ELSE arr[t][k][g]
      /\ Len(B[t]) = Len(arr[t])
  <2>1. /\ r \in N /\ t \in N /\ k \in 1..Len(arr[t])
        /\ arr \in [N -> Seq([Fields -> N])]
    BY <1>1
  <2> HIDE DEF t, k, N
  <2> QED
    <3>1. FieldStored(N, N, arr, B, t, k, f, r)
      BY <2>1, StoreFacts
    <3> HIDE DEF B
    <3> QED
      BY <2>1, <3>1 DEF FieldStored
<1>3. B[t][k] \in [Fields -> N]
  BY <1>1, <1>2
<1>4. \A a \in N : Len(arr[a]) \in Nat
  BY <1>1
<1>5. App2 \subseteq App /\ App2 \cup D2 = App \cup D /\ D2 \subseteq D \cup {r}
  BY DEF Moves
<1>6. U[r] = todo[r] \ {f} /\ \A q \in R : q # r => U[q] = todo[q]
  BY <1>1
<1> HIDE DEF B, t, k, U, N
<1>7. \A a \in N : \A i \in 1..Len(arr[a]) : i # k => B[a][i] = arr[a][i]
  BY <1>2
<1>8. r \notin C =>
        /\ \A q \in App : q = r
        /\ \A g \in Fields \ todo[r] : arr[t][k][g] = r
        /\ "hdr" \notin todo[r] => h = target[r]
        /\ "hdr" \in todo[r] => h.len < k
  BY DEF Listing, PendingIn, t, k
<1>9. r \notin C => \A g \in Fields \ U[r] : B[t][k][g] = r
  BY <1>2, <1>6, <1>8
<1>10. r \notin C /\ todo[r] = {f} =>
         B[t][k] = Whole(r) /\ App2 = {} /\ h = target[r]
  <2> SUFFICES ASSUME r \notin C, todo[r] = {f}
               PROVE  B[t][k] = Whole(r) /\ App2 = {} /\ h = target[r]
    OBVIOUS
  <2>1. \A g \in Fields : B[t][k][g] = r
    BY <1>6, <1>9
  <2>2. App2 = {} /\ h = target[r]
    BY <1>8, SliceAssumption DEF Moves
  <2> QED
    BY <1>3, <2>1, <2>2, WholeElement
<1>11. KeptIn(B, h, target, App2, D2, C)
  <2> SUFFICES ASSUME NEW x \in D2 \ C
               PROVE  /\ target[x].len \in 1..h.len
                      /\ B[h.arr][target[x].len] = Whole(x)
                      /\ \A q \in App2 : /\ target[x].len < target[q].len
                                         /\ B[target[q].arr][target[x].len] = Whole(x)
    BY DEF KeptIn
  <2>1. CASE x \in D
    <3>1. /\ target[x].len \in 1..h.len
          /\ arr[h.arr][target[x].len] = Whole(x)
          /\ \A q \in App : /\ target[x].len < target[q].len
                            /\ arr[target[q].arr][target[x].len] = Whole(x)
      BY <2>1 DEF Listing, KeptIn
    <3>2. target[x].len # k
      BY <1>1, <1>4, <3>1 DEF k
    <3>3. target[x].len \in 1..Len(arr[h.arr])
      BY <1>1, <1>4, <3>1
    <3>4. B[h.arr][target[x].len] = Whole(x)
      BY <1>1, <1>7, <3>1, <3>2, <3>3
    <3>5. ASSUME NEW q \in App2
          PROVE  /\ target[x].len < target[q].len
                 /\ B[target[q].arr][target[x].len] = Whole(x)
      <4>1. /\ target[x].len < target[q].len
            /\ arr[target[q].arr][target[x].len] = Whole(x)
        BY <1>5, <3>1
      <4>2. /\ target[q].arr \in N /\ Len(arr[target[q].arr]) \in Nat
            /\ target[q].len \in 1..Len(arr[target[q].arr])
        BY <1>1, <1>4, <1>5
      <4>3. target[x].len \in 1..Len(arr[target[q].arr])
        <5>1. target[x].len \in Nat /\ target[x].len >= 1
          BY <1>1, <3>1
        <5> QED
          BY <4>1, <4>2, <5>1
      <4> QED
        BY <1>7, <3>2, <4>1, <4>2, <4>3
    <3> QED
      BY <3>1, <3>4, <3>5
  <2>2. CASE x = r /\ x \notin D
    <3>1. todo[r] = {f}
      BY <2>2 DEF Moves
    <3>2. B[t][k] = Whole(r) /\ App2 = {} /\ h = target[r]
      BY <1>10, <2>2, <3>1
    <3>3. k \in 1..k
      BY <1>1, <1>4
    <3> QED
      BY <2>2, <3>2, <3>3 DEF t, k
  <2> QED
    BY <1>5, <2>1, <2>2
<1>12. PendingIn(B, h, target, U, App2, C)
  <2> SUFFICES ASSUME NEW x \in App2 \ C
               PROVE  /\ \A q \in App2 : q = x
                      /\ \A g \in Fields \ U[x] :
                           B[target[x].arr][target[x].len][g] = x
                      /\ "hdr" \notin U[x] => h = target[x]
                      /\ "hdr" \in U[x] => h.len < target[x].len
    BY DEF PendingIn
  <2>1. \A q \in App : q = x
    BY <1>5 DEF Listing, PendingIn
  <2>2. x = r
    BY <2>1
  <2>3. "hdr" \in U[r] <=> "hdr" \in todo[r]
    BY <1>6, SliceAssumption
  <2> QED
    BY <1>5, <1>8, <1>9, <2>1, <2>2, <2>3 DEF t, k
<1>13. CleanIn(R, B, h, target, U, App2, D2, C)
  <2> SUFFICES ASSUME (App2 \cup D2) \cap C = {}
               PROVE  /\ \A q \in App2 :
                           WholeUpTo(R, B[target[q].arr], target[q].len - 1)
                      /\ (\A q \in App2 : "hdr" \in U[q]) =>
                           WholeUpTo(R, B[h.arr], h.len)
    BY DEF CleanIn
  <2>1. r \notin C /\ \A q \in App : q = r
    BY <1>5, <1>8
  <2>2. /\ WholeUpTo(R, arr[t], k - 1)
        /\ (\A q \in App : "hdr" \in todo[q]) => WholeUpTo(R, arr[h.arr], h.len)
    BY <1>5 DEF Listing, CleanIn, t, k
  <2>3. WholeUpTo(R, B[t], k - 1)
    <3>1. \A i \in 1..(k - 1) : B[t][i] = arr[t][i]
      BY <1>1, <1>4, <1>7
    <3> QED
      BY <2>2, <3>1 DEF WholeUpTo
  <2>4. ASSUME \A q \in App2 : "hdr" \in U[q]
        PROVE  WholeUpTo(R, B[h.arr], h.len)
    <3>1. CASE todo[r] = {f}
      <4>1. B[t][k] = Whole(r) /\ h.arr = t /\ h.len = k
        BY <1>10, <2>1, <3>1 DEF t, k
      <4>2. \A i \in 1..k : i = k \/ i \in 1..(k - 1)
        BY <1>1, <1>4
      <4> QED
        BY <1>1, <2>3, <4>1, <4>2 DEF WholeUpTo
    <3>2. CASE todo[r] # {f}
      <4>1. r \in App2 /\ "hdr" \in todo[r]
        BY <1>6, <2>4, <3>2 DEF Moves
      <4>2. WholeUpTo(R, arr[h.arr], h.len) /\ h.len < k
        BY <1>8, <2>1, <2>2, <4>1
      <4>3. \A i \in 1..h.len : B[h.arr][i] = arr[h.arr][i]
        <5> SUFFICES ASSUME NEW i \in 1..h.len
                     PROVE  B[h.arr][i] = arr[h.arr][i]
          OBVIOUS
        <5>1. i \in 1..Len(arr[h.arr])
          BY <1>1, <1>4
        <5>2. k \in Nat /\ i # k
          BY <1>1, <1>4, <4>2
        <5> QED
          BY <1>1, <1>7, <5>1, <5>2
      <4> QED
        BY <4>2, <4>3 DEF WholeUpTo
    <3> QED
      BY <3>1, <3>2
  <2> QED
    BY <1>5, <2>1, <2>3, <2>4 DEF t, k
<1> QED
  BY <1>11, <1>12, <1>13 DEF Listing, B, t, k, U

(* What a list depends on: the arrays its slices name.                     *)
LEMMA ListingSame ==
  ASSUME NEW R, NEW h, NEW App, NEW D,
         NEW arr, NEW target, NEW todo, NEW C,
         NEW arr2, NEW target2, NEW todo2, NEW C2,
         Listing(R, arr, h, target, todo, App, D, C),
         arr2[h.arr] = arr[h.arr],
         \A q \in App : /\ arr2[target[q].arr] = arr[target[q].arr]
                       /\ todo2[q] = todo[q],
         \A q \in App \cup D : target2[q] = target[q] /\ (q \in C2 <=> q \in C)
  PROVE  Listing(R, arr2, h, target2, todo2, App, D, C2)
<1>1. KeptIn(arr2, h, target2, App, D, C2)
  BY DEF Listing, KeptIn
<1>2. PendingIn(arr2, h, target2, todo2, App, C2)
  BY DEF Listing, PendingIn
<1>3. CleanIn(R, arr2, h, target2, todo2, App, D, C2)
  BY DEF Listing, CleanIn
<1> QED
  BY <1>1, <1>2, <1>3 DEF Listing

(* A list shows the elements of the completed appends that overlapped no   *)
(* other; all it shows is whole when none have overlapped and none is      *)
(* under way.                                                              *)
LEMMA ListingShows ==
  ASSUME NEW R, NEW arr, NEW h, NEW target, NEW todo, NEW App, NEW D, NEW C,
         Listing(R, arr, h, target, todo, App, D, C)
  PROVE  /\ \A x \in D \ C : Whole(x) \in Visible(arr, h)
         /\ App = {} /\ D \cap C = {} =>
              Visible(arr, h) \subseteq {Whole(x) : x \in R}
<1>1. \A x \in D \ C : Whole(x) \in Visible(arr, h)
  BY DEF Listing, KeptIn, Visible
<1>2. ASSUME App = {}, D \cap C = {}
      PROVE  Visible(arr, h) \subseteq {Whole(x) : x \in R}
  <2>1. WholeUpTo(R, arr[h.arr], h.len)
    BY <1>2 DEF Listing, CleanIn
  <2> QED
    BY <2>1 DEF WholeUpTo, Visible
<1> QED
  BY <1>1, <1>2
=============================================================================

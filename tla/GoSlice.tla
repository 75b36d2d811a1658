------------------------------ MODULE GoSlice ------------------------------
(***************************************************************************)
(* A Go slice variable and the built-in append, as the node uses them for  *)
(* its two process-wide lists: p2p.DMs (p2p/p2p.go:71) and ipfs.Files      *)
(* (node/node.go:409).  Both lists are package variables without a lock.   *)
(*                                                                         *)
(* A slice header names a backing array and a length.  append loads the    *)
(* header, picks the slot after the last element (in the same array when   *)
(* there is spare capacity, in a new array of twice the size when there is *)
(* none), and then stores the new header and the fields of the new element *)
(* one by one.  Nothing orders these stores between two goroutines, so the *)
(* modules that use these operators make them separate steps.              *)
(*                                                                         *)
(* Backing arrays are named after the append that allocated them, and Nil  *)
(* names the array of the nil slice.  The value of a field is named after  *)
(* the append that stores it; Nil is the zero value.                       *)
(***************************************************************************)
EXTENDS Naturals, Sequences

CONSTANTS
  Nil,
  Fields        \* the fields of an element

(* "hdr" stands for the slice header among the stores of an append.        *)
ASSUME SliceAssumption == "hdr" \notin Fields

(* What an append has to store.                                            *)
Stores == {"hdr"} \cup Fields

Zero == [f \in Fields |-> Nil]

(* An element whose fields are all from the append p.                      *)
Whole(p) == [f \in Fields |-> p]

NilSlice == [arr |-> Nil, len |-> 0]

Cap(arr, h) == Len(arr[h.arr])

(* append reallocates exactly when the length has reached the capacity.    *)
Grows(arr, h) == h.len >= Cap(arr, h)

GrownCap(n) == IF n = 0 THEN 1 ELSE 2 * n

(* FAULT: the copy misses the last element.                                *)
GrownArrayShort(arr, h) ==
  [i \in 1..GrownCap(h.len) |-> IF i < h.len THEN arr[h.arr][i] ELSE Zero]

(* The array of the grown slice: a copy of the elements, then zero values. *)
GrownArray(arr, h) ==
  [i \in 1..GrownCap(h.len) |-> IF i <= h.len THEN arr[h.arr][i] ELSE Zero]

(* The header append will store, when p is the goroutine that appends.     *)
NextHeader(arr, h, p) ==
  [arr |-> IF Grows(arr, h) THEN p ELSE h.arr, len |-> h.len + 1]

(* The arrays after p has made room for its element.                       *)
WithRoom(arr, h, p) ==
  IF Grows(arr, h) THEN [arr EXCEPT ![p] = GrownArray(arr, h)] ELSE arr

(* What a reader of the slice sees: its first len elements.                *)
Visible(arr, h) == {arr[h.arr][i] : i \in 1..h.len}
=============================================================================

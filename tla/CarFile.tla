------------------------------ MODULE CarFile ------------------------------
(***************************************************************************)
(* CAR files (w3s/car.go:324-515, 568-638): WriteCar writes a header and   *)
(* one section per node of a DAG, a stream carries the bytes and may end   *)
(* early, and LoadCar reads sections and puts their blocks into a store,   *)
(* one by one or in batches.                                               *)
(*                                                                         *)
(* A section is its length, two bytes of varint, and a body of two bytes;  *)
(* these are the places where the end of a stream makes a difference.      *)
(* The walk of WriteCar is the sequential one, and so a depth-first one    *)
(* (see WalkDepth), with one set of seen nodes for all the roots.          *)
(*                                                                         *)
(* A section after the header may arrive damaged.  Two kinds of damage end *)
(* differently: one that changes the CID or the data is an error, but a    *)
(* length that arrives as 0 leaves an empty section, in which the CID      *)
(* parser finds nothing and answers io.EOF, the sign of a clean end.       *)
(***************************************************************************)
EXTENDS Naturals, Sequences, FiniteSets

CONSTANTS
  Cids,         \* the nodes
  Links,        \* Links[c]: the sequence of links of c
  Roots,        \* the roots of the CAR, a sequence
  BatchLimit,   \* 1000 in loadCarFast
  Header        \* the header section

ASSUME CarAssumption ==
  /\ Links \in [Cids -> Seq(Cids)]
  /\ Roots \in Seq(Cids)
  /\ BatchLimit \in Nat
  /\ Header \notin Cids

VARIABLES
  wpc,          \* WriteCar: "header", "roots", "walk", "written", "failed"
  rootsLeft,    \* the roots it has still to walk
  toVisit,      \* what the calls of this walk have still to visit, in order
  seen,         \* the set that seen.Visit keeps
  file,         \* the sections written
  ended,        \* the number of bytes after which the stream ends
  damaged,      \* the sections that arrive with another CID or other data
  blank,        \* the sections that arrive with 0 for their length
  big,          \* the nodes larger than MaxAllowedSectionSize
  fast,         \* the store has PutMany
  rpc,          \* LoadCar: "closed", "next", "flush", "returned", "failed"
  taken,        \* the sections it has read
  buf,          \* blocks waiting for PutMany
  stored,       \* what the store has been given, in order
  kept,         \* what the slices that PutMany was given show now
  storeFailed   \* history: Put or PutMany has returned an error

writeVars == <<wpc, rootsLeft, toVisit, seen, file>>
wireVars  == <<ended, damaged, blank>>
loadVars  == <<rpc, taken, buf, stored, kept, storeFailed>>
dataVars  == <<big, fast>>
vars == <<writeVars, wireVars, dataVars, loadVars>>

SectionBytes == 4

Init ==
  /\ wpc = "header"
  /\ rootsLeft = Roots
  /\ toVisit = <<>>
  /\ seen = {}
  /\ file = <<>>
  /\ ended = 0
  /\ damaged = {}
  /\ blank = {}
  /\ big \in SUBSET Cids
  /\ fast \in BOOLEAN
  /\ rpc = "closed"
  /\ taken = 0
  /\ buf = <<>>
  /\ stored = <<>>
  /\ kept = <<>>
  /\ storeFailed = FALSE
-----------------------------------------------------------------------------
(* WriteCar.                                                               *)

WriteHeader ==
  /\ wpc = "header"
  /\ file' = <<Header>>
  /\ wpc' = "roots"
  /\ UNCHANGED <<rootsLeft, toVisit, seen, wireVars, dataVars, loadVars>>

(* FAULT: every root is walked with a set of its own.                      *)
SeenByRoot == {}

(* What the walk of a root takes for seen: what the earlier ones have.     *)
SeenBefore == seen

WalkRoot ==
  /\ wpc = "roots" /\ rootsLeft # <<>>
  /\ wpc' = "walk"
  /\ toVisit' = <<Head(rootsLeft)>>
  /\ rootsLeft' = Tail(rootsLeft)
  /\ seen' = SeenBefore
  /\ UNCHANGED <<file, wireVars, dataVars, loadVars>>

(* seen.Visit is false for a node it has been called with.                 *)
PassNode ==
  /\ wpc = "walk" /\ toVisit # <<>>
  /\ Head(toVisit) \in seen
  /\ toVisit' = Tail(toVisit)
  /\ UNCHANGED <<wpc, rootsLeft, seen, file, wireVars, dataVars, loadVars>>

(* A node is written when its links are fetched, before they are followed. *)
WriteNode ==
  /\ wpc = "walk" /\ toVisit # <<>>
  /\ Head(toVisit) \notin seen
  /\ seen' = seen \cup {Head(toVisit)}
  /\ file' = Append(file, Head(toVisit))
  /\ toVisit' = Links[Head(toVisit)] \o Tail(toVisit)
  /\ UNCHANGED <<wpc, rootsLeft, wireVars, dataVars, loadVars>>

(* The writer fails, or the store of nodes does: WriteCar returns an error.*)
WriteFails ==
  /\ \/ wpc = "header" /\ UNCHANGED seen
     \/ /\ wpc = "walk" /\ toVisit # <<>>
        /\ Head(toVisit) \notin seen
        /\ seen' = seen \cup {Head(toVisit)}
  /\ wpc' = "failed"
  /\ UNCHANGED <<rootsLeft, toVisit, file, wireVars, dataVars, loadVars>>

WalkEnds ==
  /\ wpc = "walk" /\ toVisit = <<>>
  /\ wpc' = "roots"
  /\ UNCHANGED <<rootsLeft, toVisit, seen, file, wireVars, dataVars, loadVars>>

(* WriteCar returns nil, and the stream starts.                            *)
Written ==
  /\ wpc = "roots" /\ rootsLeft = <<>>
  /\ wpc' = "written"
  /\ ended' \in 0..(SectionBytes * Len(file))
  /\ damaged' \in SUBSET (2..Len(file))
  /\ blank' \in SUBSET ((2..Len(file)) \ damaged')
  /\ UNCHANGED <<rootsLeft, toVisit, seen, file, dataVars, loadVars>>
-----------------------------------------------------------------------------
(* LoadCar.                                                                *)

(* FAULT: the end of the stream is not told from a missing body.           *)
ReadBodyAnyLength(bytes) == IF bytes < 4 THEN "EOF" ELSE "section"

(* FAULT: the last byte of a body is not read.                             *)
ReadBodyShort(bytes) == IF bytes = 2 THEN "EOF" ELSE "unexpected EOF"

(* io.ReadFull of the body: io.EOF when there is not a byte of it.         *)
ReadBody(bytes) ==
  CASE bytes = 2 -> "EOF"
    [] bytes = 3 -> "unexpected EOF"
    [] OTHER -> "section"

(* LdRead of a section that may be too big, with bytes left of it.         *)
LdRead(bytes, tooBig) ==
  CASE bytes = 0 -> "EOF"
    [] bytes = 1 -> "unexpected EOF"
    [] bytes > 1 /\ tooBig -> "too big"
    [] bytes > 1 /\ ~tooBig -> ReadBody(bytes)

BytesLeft ==
  LET left == ended - SectionBytes * taken
  IN IF left > SectionBytes THEN SectionBytes ELSE left

(* ReadNode of an empty section: io.EOF from the parser of CIDs.           *)
BlankEnds == BytesLeft > 0 /\ taken + 1 \in blank

(* ReadNode, the CID and the data aside.                                   *)
NextSection ==
  IF BlankEnds THEN "EOF" ELSE LdRead(BytesLeft, file[taken + 1] \in big)

AtEnd == taken = Len(file) \/ NextSection = "EOF"

(* NewCarReader: an error of any kind is returned, and a CAR has a root.   *)
OpenCar ==
  /\ wpc = "written" /\ rpc = "closed"
  /\ IF NextSection = "section" /\ Roots # <<>>
     THEN rpc' = "next" /\ taken' = 1
     ELSE rpc' = "failed" /\ UNCHANGED taken
  /\ UNCHANGED <<writeVars, wireVars, dataVars, buf, stored, kept, storeFailed>>

(* CarReader.Next fails: a bad section, or one that does not match its CID *)
(* (an empty one does not come so far, see BlankEnds).                     *)
NextFails ==
  /\ rpc = "next" /\ ~AtEnd
  /\ NextSection # "section" \/ taken + 1 \in damaged
  /\ rpc' = "failed"
  /\ UNCHANGED <<writeVars, wireVars, dataVars, taken, buf, stored, kept,
                 storeFailed>>

NextBlock ==
  /\ rpc = "next" /\ ~AtEnd
  /\ NextSection = "section" /\ taken + 1 \notin damaged
  /\ taken' = taken + 1

(* The store's Put or PutMany fails; it may have stored some of them.      *)
PutFails(blks) ==
  /\ \E n \in 0..Len(blks) : stored' = stored \o SubSeq(blks, 1, n)
  /\ rpc' = "failed"
  /\ storeFailed' = TRUE

(* One turn of loadCarSlow.                                                *)
LoadSlow ==
  /\ ~fast
  /\ NextBlock
  /\ \/ /\ stored' = Append(stored, file[taken + 1])
        /\ UNCHANGED <<rpc, storeFailed>>
     \/ PutFails(<<file[taken + 1]>>)
  /\ UNCHANGED <<writeVars, wireVars, dataVars, buf, kept>>

(* FAULT: every batch has an array of its own.                             *)
NotOverwritten(slices, i, blk) == slices

(* buf[:0] keeps the array of the first full batch, which is large enough  *)
(* for all the later ones: the i-th block of a batch takes the i-th place  *)
(* of every slice that PutMany was given before.                           *)
Overwritten(slices, i, blk) ==
  [n \in 1..Len(slices) |-> [slices[n] EXCEPT ![i] = blk]]

(* One turn of loadCarFast.                                                *)
LoadFast ==
  /\ fast
  /\ NextBlock
  /\ buf' = Append(buf, file[taken + 1])
  /\ kept' = Overwritten(kept, Len(buf) + 1, file[taken + 1])
  /\ rpc' = IF Len(buf') > BatchLimit THEN "flush" ELSE "next"
  /\ UNCHANGED <<writeVars, wireVars, dataVars, stored, storeFailed>>

(* FAULT: the buffer is not emptied after PutMany.                         *)
EmptiedBufKept == buf

EmptiedBuf == <<>>

(* PutMany of a full buffer.                                               *)
Flush ==
  /\ rpc = "flush"
  /\ \/ /\ stored' = stored \o buf
        /\ buf' = EmptiedBuf
        /\ rpc' = "next"
        /\ UNCHANGED storeFailed
     \/ PutFails(buf) /\ UNCHANGED buf
  /\ kept' = Append(kept, buf)
  /\ UNCHANGED <<writeVars, wireVars, dataVars, taken>>

(* io.EOF: loadCarFast puts what it has buffered, and the header returns.  *)
LoadEnds ==
  /\ rpc = "next" /\ AtEnd
  /\ \/ stored' = stored \o buf /\ rpc' = "returned" /\ UNCHANGED storeFailed
     \/ buf # <<>> /\ PutFails(buf)
  /\ kept' = IF buf = <<>> THEN kept ELSE Append(kept, buf)
  /\ UNCHANGED <<writeVars, wireVars, dataVars, taken, buf>>
-----------------------------------------------------------------------------
Next ==
  \/ WriteHeader \/ WalkRoot \/ PassNode \/ WriteNode \/ WriteFails
  \/ WalkEnds \/ Written
  \/ OpenCar \/ NextFails \/ LoadSlow \/ LoadFast \/ Flush \/ LoadEnds

Spec == Init /\ [][Next]_vars
-----------------------------------------------------------------------------
Elements(s) == {s[i] : i \in 1..Len(s)}

Blocks == Tail(file)

Closed(S) ==
  /\ Elements(Roots) \subseteq S
  /\ \A c \in S : Elements(Links[c]) \subseteq S

(* The nodes the roots lead to.                                            *)
Reachable == {c \in Cids : \A S \in SUBSET Cids : Closed(S) => c \in S}

(* Every variable has its type.                                            *)
TypeOK ==
  /\ wpc \in {"header", "roots", "walk", "written", "failed"}
  /\ rootsLeft \in Seq(Cids) /\ toVisit \in Seq(Cids)
  /\ seen \subseteq Cids
  /\ file \in Seq(Cids \cup {Header})
  /\ ended \in 0..(SectionBytes * Len(file))
  /\ damaged \subseteq 2..Len(file)
  /\ blank \subseteq (2..Len(file)) \ damaged
  /\ big \subseteq Cids
  /\ fast \in BOOLEAN
  /\ rpc \in {"closed", "next", "flush", "returned", "failed"}
  /\ taken \in 0..Len(file)
  /\ buf \in Seq(Cids) /\ stored \in Seq(Cids)
  /\ kept \in Seq(Seq(Cids))
  /\ storeFailed \in BOOLEAN

(* A CAR of several roots holds every node they lead to exactly once, and  *)
(* when its stream is whole and no length arrives as 0, a LoadCar that     *)
(* succeeds has given all of them to the store in the same order,          *)
(* whichever kind of store it is (w3s/car.go:336-342, 474-515).            *)
RoundTrip ==
  /\ wpc = "written" =>
       /\ Elements(Blocks) = Reachable
       /\ Len(Blocks) = Cardinality(Reachable)
  /\ rpc = "returned" /\ ended = SectionBytes * Len(file) /\ blank = {}
       => stored = Blocks

(* Batching neither drops, repeats nor reorders blocks, and no block that  *)
(* does not match its CID, nor one behind a section whose length arrived   *)
(* as 0, is stored (w3s/car.go:452, 474-499).                              *)
StoredPrefix ==
  /\ rpc \in {"next", "flush"} => stored \o buf = SubSeq(Blocks, 1, taken - 1)
  /\ \A i \in damaged \cup blank : Len(stored) < i - 1

(* The state invariant: the types, and what the store has been given       *)
(* (w3s/car.go:461-515).                                                   *)
CarInv == TypeOK /\ StoredPrefix

(* A slice given to PutMany shows its batch only until PutMany has         *)
(* returned: from then on it shows the blocks that have been read since,   *)
(* and behind them those of the batch before (w3s/car.go:491-496).  A      *)
(* store that keeps the slice and reads it later stores the wrong blocks.  *)
SlicesAreReused ==
  rpc \in {"next", "flush"} =>
    \A n \in 1..Len(kept) :
      /\ Len(kept[n]) = BatchLimit + 1
      /\ \A i \in 1..Len(kept[n]) :
           kept[n][i] = IF i <= Len(buf) THEN buf[i]
                        ELSE stored[Len(stored) - Len(kept[n]) + i]

(* When LoadCar returns nil, the store has every block before the place    *)
(* where the reading stopped and none behind it.  It stopped between two   *)
(* sections or right after a length where the stream ended, or at a        *)
(* section whose length arrived as 0: that and everything behind it is     *)
(* dropped and nothing says so (w3s/car.go:574-577, 436, 615-638).  No     *)
(* stored block is bigger than the limit, although WriteCar writes any     *)
(* size.                                                                   *)
SuccessExplained ==
  rpc = "returned" =>
    LET next == Len(stored) + 2
    IN /\ stored = SubSeq(Blocks, 1, Len(stored))
       /\ \/ /\ ended % SectionBytes \in {0, 2}
             /\ Len(stored) = (ended \div SectionBytes) - 1
          \/ next \in blank /\ SectionBytes * (next - 1) < ended
       /\ Elements(stored) \cap big = {}

(* An undamaged, whole CAR without big nodes loads unless the store fails  *)
(* (w3s/car.go:398-515).                                                   *)
WholeCarLoads ==
  rpc = "failed" =>
    \/ storeFailed \/ damaged # {} \/ Roots = <<>>
    \/ ended < SectionBytes * Len(file)
    \/ Elements(file) \cap big # {}

(* "Don't silently pretend this is a clean EOF": a stream that ends inside *)
(* a section, all of whose sections are as they were written, is not       *)
(* loaded successfully (w3s/car.go:620-625).                               *)
TruncationReported ==
  rpc = "returned" /\ damaged = {} /\ blank = {} => ended % SectionBytes = 0
=============================================================================

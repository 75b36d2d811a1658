----------------------------- MODULE FileStore -----------------------------
(***************************************************************************)
(* The files of one Flubber node (putFiles and getFiles, node/node.go:     *)
(* 382-430; PutIPFSBlock, ipfs/ipfs.go:158-179).  A PUT /files request     *)
(* reads a file, stores it as a block of the node's IPFS repository, has   *)
(* Pinata pin it (the client reads the file again), appends an entry to    *)
(* the slice Files, and announces the pinned CID on the topic "files".     *)
(* Every request runs in its own goroutine; Files has no lock; the         *)
(* repository and Files are in memory, the pins are Pinata's.              *)
(*                                                                         *)
(* A content stands for its CID and its size.                              *)
(***************************************************************************)
EXTENDS GoSlice, FiniteSets

CONSTANTS
  Requests,     \* PUT /files requests, which name their entry of Files
  Earlier,      \* those answered before the model starts, in their order
  Pinned,       \* those whose file is pinned then, and which append next
  Contents,     \* what the file may contain
  Absent,       \* the file does not exist
  Undef,        \* the CID of a Pinata answer that does not parse
  MaxEdits,     \* bound: changes of the file
  MaxStops      \* bound: the times the node's process stops

ASSUME FileAssumption ==
  /\ {"Cid", "Size"} \subseteq Fields
  /\ Nil \notin Requests
  /\ Earlier \in Seq(Requests)
  /\ \A i, j \in DOMAIN Earlier : Earlier[i] = Earlier[j] => i = j
  /\ Pinned \subseteq Requests \ {Earlier[i] : i \in DOMAIN Earlier}
  /\ {Absent, Undef} \cap Contents = {}
  /\ MaxEdits \in Nat /\ MaxStops \in Nat

VARIABLES
  disk,         \* the content of the file
  pc,           \* where the goroutine of a request is
  read,         \* what a request has read and takes the size of
  cid,          \* the CID of the pin, for the entry and the announcement
  blocks,       \* the blocks in the node's repository
  pins,         \* what Pinata has pinned
  arr, hdr,     \* the arrays and the header of the slice Files
  target, todo, \* the header an append will store, and what it has to store
  announced,    \* the CIDs announced on "files", by request
  edits, stops,
  stale,        \* history: requests whose file changed between its two reads
  clashed,      \* history: requests whose append overlapped another one
  appended      \* history: the requests whose append this process completed

sliceVars == <<arr, hdr, target, todo, clashed, appended>>
boundVars == <<edits, stops>>
vars == <<disk, pc, read, cid, blocks, pins, sliceVars, announced, boundVars,
          stale>>

NoArrays == [a \in Requests \cup {Nil} |-> <<>>]

(* One append without interruption.                                        *)
AfterAppend(files, r) ==
  LET next == NextHeader(files.arr, files.hdr, r)
  IN [arr |-> [WithRoom(files.arr, files.hdr, r)
                 EXCEPT ![next.arr][next.len] = Whole(r)],
      hdr |-> next]

(* Files after the appends of the first n earlier requests, one by one.    *)
FilesAfter[n \in 0..Len(Earlier)] ==
  IF n = 0 THEN [arr |-> NoArrays, hdr |-> NilSlice]
           ELSE AfterAppend(FilesAfter[n - 1], Earlier[n])

Answered == {Earlier[i] : i \in DOMAIN Earlier}

(* Which of the earlier requests r is.                                     *)
Rank(r) == CHOOSE i \in DOMAIN Earlier : Earlier[i] = r

(* The node has answered the earlier requests, and had the file of the     *)
(* pinned ones pinned, when the file was x.                                *)
Init ==
  /\ disk \in Contents \cup {Absent}
  /\ \E x \in Contents :
       read = [r \in Requests |-> IF r \in Answered \cup Pinned THEN x ELSE Nil]
  /\ pc = [r \in Requests |-> IF r \in Answered THEN "ok"
                              ELSE IF r \in Pinned THEN "append" ELSE "idle"]
  /\ cid = read
  /\ announced = [r \in Requests |-> IF r \in Answered THEN read[r] ELSE Nil]
  /\ blocks = {read[r] : r \in Answered \cup Pinned} /\ pins = blocks
  /\ arr = FilesAfter[Len(Earlier)].arr
  /\ hdr = FilesAfter[Len(Earlier)].hdr
  /\ target = [r \in Requests |->
                 IF r \in Answered THEN FilesAfter[Rank(r)].hdr ELSE NilSlice]
  /\ todo = [r \in Requests |-> {}]
  /\ edits = 0 /\ stops = 0
  /\ stale = {}
  /\ clashed = {}
  /\ appended = Answered

Goto(r, place) == pc' = [pc EXCEPT ![r] = place]

(* A request that ends before append leaves nothing of what it has read.   *)
Fail(r) == Goto(r, "error") /\ read' = [read EXCEPT ![r] = Nil]
-----------------------------------------------------------------------------
Readable == disk # Absent

(* putFiles up to os.ReadFile: the query may have no path, and the file    *)
(* may be unreadable.                                                      *)
PutFiles(r) ==
  /\ pc[r] = "idle"
  /\ \/ Fail(r)
     \/ /\ Readable
        /\ read' = [read EXCEPT ![r] = disk]
        /\ Goto(r, "block")
  /\ UNCHANGED <<disk, cid, blocks, pins, sliceVars, announced, boundVars,
                 stale>>

(* FAULT: the block is hashed and not stored.                              *)
BlocksHashedOnly(r) == blocks

BlocksAfterPut(r) == blocks \cup {read[r]}

PutIPFSBlock(r) ==
  /\ pc[r] = "block"
  /\ \/ Fail(r) /\ UNCHANGED blocks
     \/ /\ blocks' = BlocksAfterPut(r)
        /\ Goto(r, "pin") /\ UNCHANGED read
  /\ UNCHANGED <<disk, cid, pins, sliceVars, announced, boundVars, stale>>

(* PinFile opens the file again and uploads it.  It fails before or after  *)
(* the file is pinned, or returns an answer, which need not parse.         *)
PinFile(r) ==
  /\ pc[r] = "pin"
  /\ \/ /\ Fail(r)
        /\ pins' \in {pins, pins \cup ({disk} \ {Absent})}
        /\ UNCHANGED cid
     \/ /\ disk # Absent
        /\ pins' = pins \cup {disk}
        /\ \E answer \in {disk, Undef} : cid' = [cid EXCEPT ![r] = answer]
        /\ Goto(r, "append") /\ UNCHANGED read
  /\ UNCHANGED <<disk, blocks, sliceVars, announced, boundVars, stale>>

Appending == {r \in Requests : pc[r] = "store"}

(* Files = append(Files, ...), first half: load the header and make room.  *)
AppendLoad(r) ==
  /\ pc[r] = "append"
  /\ arr' = WithRoom(arr, hdr, r)
  /\ target' = [target EXCEPT ![r] = NextHeader(arr, hdr, r)]
  /\ todo' = [todo EXCEPT ![r] = Stores]
  /\ clashed' = IF Appending = {} THEN clashed
                ELSE clashed \cup Appending \cup {r}
  /\ Goto(r, "store")
  /\ UNCHANGED <<disk, read, cid, blocks, pins, hdr, appended, announced,
                 boundVars, stale>>

Stored(r, what) ==
  /\ todo' = [todo EXCEPT ![r] = @ \ {what}]
  /\ IF todo[r] = {what}
       THEN Goto(r, "publish") /\ appended' = appended \cup {r}
       ELSE UNCHANGED <<pc, appended>>

AppendHeader(r) ==
  /\ pc[r] = "store" /\ "hdr" \in todo[r]
  /\ hdr' = target[r]
  /\ Stored(r, "hdr")
  /\ UNCHANGED <<disk, read, cid, blocks, pins, arr, target, clashed,
                 announced, boundVars, stale>>

(* The element of Files is a File, stored field by field.                  *)
AppendField(r) ==
  /\ pc[r] = "store"
  /\ \E f \in todo[r] \cap Fields :
       /\ arr' = [arr EXCEPT ![target[r].arr][target[r].len][f] = r]
       /\ Stored(r, f)
  /\ UNCHANGED <<disk, read, cid, blocks, pins, hdr, target, clashed,
                 announced, boundVars, stale>>

(* FAULT: a failed publication is answered like a successful one.          *)
AnswerUnpublishedOk == "ok"

AnswerUnpublished == "error"

(* FAULT: the CID of the block is announced, not that of the pin.          *)
AnnouncedCidOfBlock(r) == read[r]

AnnouncedCid(r) == cid[r]

(* PublishSubscriptionMessage and the answer.                              *)
Publish(r) ==
  /\ pc[r] = "publish"
  /\ \/ Goto(r, AnswerUnpublished) /\ UNCHANGED announced
     \/ /\ announced' = [announced EXCEPT ![r] = AnnouncedCid(r)]
        /\ Goto(r, "ok")
  /\ UNCHANGED <<disk, read, cid, blocks, pins, sliceVars, boundVars, stale>>

(* GET /files answers with the slice.                                      *)
Listed == Visible(arr, hdr)
-----------------------------------------------------------------------------
(* The file is written or removed by its owner.                            *)
Edit ==
  /\ edits < MaxEdits
  /\ edits' = edits + 1
  /\ \E content \in (Contents \cup {Absent}) \ {disk} : disk' = content
  /\ stale' = stale \cup {r \in Requests : pc[r] \in {"block", "pin"}}
  /\ UNCHANGED <<pc, read, cid, blocks, pins, sliceVars, announced, stops>>

(* The process ends and is started again: its requests, its repository and *)
(* Files are gone.                                                         *)
Restart ==
  /\ stops < MaxStops
  /\ stops' = stops + 1
  /\ pc' = [r \in Requests |->
              IF pc[r] \in {"idle", "ok", "error"} THEN pc[r] ELSE "gone"]
  /\ read' = [r \in Requests |-> Nil]
  /\ cid' = [r \in Requests |-> Nil]
  /\ blocks' = {}
  /\ arr' = NoArrays
  /\ hdr' = NilSlice
  /\ target' = [r \in Requests |-> NilSlice]
  /\ todo' = [r \in Requests |-> {}]
  /\ stale' = {} /\ clashed' = {} /\ appended' = {}
  /\ UNCHANGED <<disk, pins, announced, edits>>
-----------------------------------------------------------------------------
RequestStep(r) ==
  \/ PutIPFSBlock(r) \/ PinFile(r)
  \/ AppendLoad(r) \/ AppendHeader(r) \/ AppendField(r)
  \/ Publish(r)

Next ==
  \/ \E r \in Requests : PutFiles(r) \/ RequestStep(r)
  \/ Edit
  \/ Restart

Spec == Init /\ [][Next]_vars
-----------------------------------------------------------------------------
(* Every variable has its type.                                            *)
TypeOK ==
  /\ disk \in Contents \cup {Absent}
  /\ pc \in [Requests -> {"idle", "block", "pin", "append", "store",
                          "publish", "ok", "error", "gone"}]
  /\ read \in [Requests -> Contents \cup {Nil}]
  /\ cid \in [Requests -> Contents \cup {Nil, Undef}]
  /\ blocks \subseteq Contents /\ pins \subseteq Contents
  /\ arr \in [Requests \cup {Nil} -> Seq([Fields -> Requests \cup {Nil}])]
  /\ hdr \in [arr : Requests \cup {Nil}, len : Nat]
  /\ target \in [Requests -> [arr : Requests \cup {Nil}, len : Nat]]
  /\ todo \in [Requests -> SUBSET Stores]
  /\ announced \in [Requests -> Contents \cup {Nil, Undef}]
  /\ edits \in 0..MaxEdits /\ stops \in 0..MaxStops
  /\ stale \subseteq Requests /\ clashed \subseteq Requests
  /\ appended \subseteq Requests

(* An entry whose size is of the content its CID names: one whose fields   *)
(* come from requests that neither raced another append nor, for the CID,  *)
(* saw the file change between its two reads.                              *)
Undisturbed(entry) ==
  /\ {entry["Cid"], entry["Size"]} \cap (clashed \cup {Nil}) = {}
  /\ entry["Cid"] \notin stale

(* Every field that GET /files lists is of a file that this process has    *)
(* stored and Pinata has pinned, however appends raced; and a CID and a    *)
(* size that were not disturbed are of one content (node/node.go:388, 401, *)
(* 409).                                                                   *)
ListedIsStored ==
  \A entry \in Listed :
    /\ \A f \in Fields : entry[f] # Nil =>
         read[entry[f]] \in blocks /\ cid[entry[f]] \in pins \cup {Undef}
    /\ Undisturbed(entry) =>
         cid[entry["Cid"]] \in {read[entry["Size"]], Undef}

(* The state invariant: the types, and what is behind the list             *)
(* (node/node.go:382-425).                                                 *)
FilesInv == TypeOK /\ ListedIsStored

(* A CID announced to the other nodes stays available from Pinata, even if *)
(* the file changes or the node stops (node/node.go:401-418).              *)
AnnouncedIsPinned ==
  \A r \in Requests : announced[r] \in pins \cup {Nil, Undef}

(* A request answered 200 has announced the CID of its pin, which Pinata   *)
(* has unless its answer did not parse; while the process lives its block  *)
(* is stored, and its whole entry is listed unless its own append          *)
(* overlapped another one.  What other requests do before or afterwards    *)
(* takes none of it away (node/node.go:388-425).                           *)
OkIsComplete ==
  \A r \in Requests : pc[r] = "ok" =>
    /\ announced[r] \in pins \cup {Undef}
    /\ r \in appended => announced[r] = cid[r] /\ read[r] \in blocks
    /\ r \in appended \ clashed => Whole(r) \in Listed

(* Only a request whose own append overlapped another one is ever missing  *)
(* from Files, or there in part, after its append; Files is never longer   *)
(* than the appends made; and it holds nothing but whole entries when none *)
(* overlapped (node/node.go:409).                                          *)
LossNeedsOverlap ==
  /\ \A r \in appended \ clashed : Whole(r) \in Listed
  /\ hdr.len <= Cardinality(appended \cup Appending)
  /\ clashed = {} /\ Appending = {} =>
       Listed \subseteq {Whole(r) : r \in appended}
=============================================================================

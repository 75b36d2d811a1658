---------------------------- MODULE IpnsPublish ----------------------------
(***************************************************************************)
(* The IPNS name of one key pair at Web3.Storage: its publication and its  *)
(* lookup (PublishIPNSRecordForDAGNodeToW3S and GetIPNSRecordFromW3S,      *)
(* ipfs/ipfs.go:478-544; GetName and PutName, w3s/name.go).                *)
(*                                                                         *)
(* The name service is external.  It keeps one record per name, and takes  *)
(* a new one only when that has a greater sequence number, or the same and *)
(* a later end of validity, as IPNS asks.  A publication looks the current *)
(* record up, makes a record that is valid for 48 hours from its clock,    *)
(* and posts it.                                                           *)
(***************************************************************************)
EXTENDS Naturals

CONSTANTS
  Cids,
  Publishers, Lookups,  \* the calls
  MaxTime       \* bound: the clocks of the publishers, which may differ

VARIABLES
  token,        \* the API token, "" when the configuration has none
  record,       \* the record of the name at the service
  pc,           \* where a call is
  made,         \* made[p]: the record that publication p has made
  found,        \* found[l]: the record that lookup l was given
  changed,      \* history: the lookups that were given another value
  known         \* known[l], history: the newest record whose publication
                \* had been reported as successful when l began

vars == <<token, record, pc, made, found, changed, known>>

Calls == Publishers \cup Lookups

NoRecord == [cid |-> "none", seq |-> 0, validity |-> 0]
Record   == [cid : Cids, seq : Nat \ {0}, validity : 1..MaxTime]

Newer(r, s) == r.seq > s.seq \/ (r.seq = s.seq /\ r.validity > s.validity)

Init ==
  /\ token \in {"none", "", "key"}
  /\ record = NoRecord
  /\ pc = [x \in Calls |-> "idle"]
  /\ made = [p \in Publishers |-> NoRecord]
  /\ found = [l \in Lookups |-> NoRecord]
  /\ changed = {}
  /\ known = [l \in Lookups |-> NoRecord]

Goto(x, place) == pc' = [pc EXCEPT ![x] = place]
-----------------------------------------------------------------------------
(* What the service has under the last part of a name URL.                 *)
RecordUnder(key) == IF key = "name" THEN record ELSE NoRecord

(* The record is asked for under the path that is going to be published,   *)
(* where the service has none.                                             *)
Sequence == RecordUnder("path").seq + 1

(* Up to ipns.Create: the token, the keys or the record may be refused; an *)
(* error of GetName is passed over.                                        *)
Publish(p, c) ==
  /\ pc[p] = "idle"
  /\ \/ Goto(p, "error") /\ UNCHANGED made
     \/ /\ token # ""
        /\ \E now \in 1..MaxTime, seq \in {1, Sequence} :
             made' = [made EXCEPT ![p] =
                        [cid |-> c, seq |-> seq, validity |-> now]]
        /\ Goto(p, "put")
  /\ UNCHANGED <<token, record, found, changed, known>>

(* FAULT: the status of the answer is not looked at.                       *)
PutNameUnchecked(p) ==
  /\ pc[p] = "put"
  /\ \/ Goto(p, "error") /\ UNCHANGED record
     \/ Goto(p, "ok") /\ UNCHANGED record
     \/ Goto(p, "ok") /\ Newer(made[p], record) /\ record' = made[p]
  /\ UNCHANGED <<token, made, found, changed, known>>

(* PutName returns an error without an answer, with one that is not 200,   *)
(* and with one that does not parse; the service may have taken the record *)
(* all the same.                                                           *)
PutName(p) ==
  /\ pc[p] = "put"
  /\ \/ Goto(p, "error") /\ UNCHANGED record
     \/ /\ Newer(made[p], record)
        /\ record' = made[p]
        /\ \E place \in {"ok", "error"} : Goto(p, place)
  /\ UNCHANGED <<token, made, found, changed, known>>
-----------------------------------------------------------------------------
Acknowledged == {made[p] : p \in {q \in Publishers : pc[q] = "ok"}}

Lookup(l) ==
  /\ pc[l] = "idle"
  /\ known' = [known EXCEPT ![l] =
       CHOOSE r \in Acknowledged \cup {NoRecord} :
         \A s \in Acknowledged : ~Newer(s, r)]
  /\ Goto(l, IF token = "" THEN "error" ELSE "get")
  /\ UNCHANGED <<token, record, made, found, changed>>

(* FAULT: every answer that is not 200 counts as 404.                      *)
ReturnedWithout(l) == {"error", "absent"}

(* What the lookup returns without a record: the error of GetName, or, for *)
(* an answer of 400 or 404, an undefined CID and no error.                 *)
Returned(l) == IF record = NoRecord THEN {"error", "absent"} ELSE {"error"}

(* Nobody verifies the record: the lookup takes what is in its value, also *)
(* when GetName has returned an error beside a record that it has decoded  *)
(* in part.  A value that is damaged is no CID, has no path, over which    *)
(* the lookup panics, or is the CID of something else.                     *)
GetName(l) ==
  /\ pc[l] = "get"
  /\ \/ /\ \E place \in Returned(l) : Goto(l, place)
        /\ UNCHANGED <<found, changed>>
     \/ /\ record # NoRecord
        /\ \E c \in Cids :
             /\ found' = [found EXCEPT ![l] = [record EXCEPT !.cid = c]]
             /\ changed' = IF c = record.cid THEN changed ELSE changed \cup {l}
        /\ Goto(l, "found")
     \/ record # NoRecord /\ Goto(l, "panic") /\ UNCHANGED <<found, changed>>
  /\ UNCHANGED <<token, record, made, known>>
-----------------------------------------------------------------------------
(* The process ends and is started again.                                  *)
Restart ==
  /\ pc' = [x \in Calls |-> IF pc[x] \in {"put", "get"} THEN "gone" ELSE pc[x]]
  /\ UNCHANGED <<token, record, made, found, changed, known>>

Next ==
  \/ Restart
  \/ \E p \in Publishers : PutName(p) \/ \E c \in Cids : Publish(p, c)
  \/ \E l \in Lookups : Lookup(l) \/ GetName(l)

Spec == Init /\ [][Next]_vars
-----------------------------------------------------------------------------
(* Every variable has its type.                                            *)
TypeOK ==
  /\ record \in Record \cup {NoRecord}
  /\ pc \in [Calls -> {"idle", "put", "get", "ok", "error", "found",
                       "absent", "panic", "gone"}]
  /\ made \in [Publishers -> Record \cup {NoRecord}]
  /\ found \in [Lookups -> Record \cup {NoRecord}]
  /\ changed \subseteq Lookups
  /\ known \in [Lookups -> Record \cup {NoRecord}]

(* A publication that returned nil is what the name points to, or has been *)
(* replaced by a newer one, although all of them have sequence number 1    *)
(* (ipfs/ipfs.go:516-543).                                                 *)
PublishedIsKept ==
  \A r \in Acknowledged : ~Newer(r, record)

(* The state invariant: the types, and what has been published             *)
(* (ipfs/ipfs.go:498-544).                                                 *)
PublishInv == TypeOK /\ PublishedIsKept

(* Unless its value was damaged, a lookup returns no record older than one *)
(* whose publication had returned nil before; and it says that the name is *)
(* free only if none had (ipfs/ipfs.go:478-496, w3s/name.go:27-31).        *)
LookupIsCurrent ==
  \A l \in Lookups :
    /\ pc[l] = "found" /\ l \notin changed => ~Newer(known[l], found[l])
    /\ pc[l] = "absent" => known[l] = NoRecord
=============================================================================

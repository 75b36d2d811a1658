--------------------------- MODULE TopicDelivery ---------------------------
(***************************************************************************)
(* What a topic subscription promises (ipfs/ipfs.go:556-598,               *)
(* node/node.go:333-380).  Every message that reaches an open handle has a *)
(* fate: it waits, or is dropped at once.  Whoever reads next has the      *)
(* oldest one that waits.  A fate is final, and a reader loses what it has *)
(* taken only when it does not decode or when nobody is left to read it.   *)
(***************************************************************************)
EXTENDS Naturals, Sequences

CONSTANTS Handles, Readers, Msgs

VARIABLES
  phase,        \* of a handle: "none", "open" or "closed"
  log,          \* log[h]: the messages that have reached h
  fate,         \* fate[h][i]: what has become of log[h][i]
  unreadable,   \* the messages that do not decode
  left          \* the handles whose client has gone

vars == <<phase, log, fate, unreadable, left>>

Init ==
  /\ phase \in [Handles -> {"none", "open"}]
  /\ log = [h \in Handles |-> <<>>]
  /\ fate = [h \in Handles |-> <<>>]
  /\ unreadable \in SUBSET Msgs
  /\ left = {}

Open(h) ==
  /\ phase[h] = "none" /\ phase' = [phase EXCEPT ![h] = "open"]
  /\ UNCHANGED <<log, fate, unreadable, left>>

Close(h) ==
  /\ phase[h] = "open" /\ phase' = [phase EXCEPT ![h] = "closed"]
  /\ UNCHANGED <<log, fate, unreadable, left>>

(* A message reaches some of the open handles.                             *)
Arrive(m) ==
  /\ log' \in [Handles -> Seq(Msgs)] /\ DOMAIN fate' = Handles
  /\ \A h \in Handles :
       \/ log'[h] = log[h] /\ fate'[h] = fate[h]
       \/ /\ phase[h] = "open"
          /\ log'[h] = Append(log[h], m)
          /\ \E f \in {"waiting", "dropped"} : fate'[h] = Append(fate[h], f)
  /\ UNCHANGED <<phase, unreadable, left>>

IsOldest(h, i) ==
  fate[h][i] = "waiting" /\ \A j \in 1..(i - 1) : fate[h][j] # "waiting"

Read(h, i) ==
  /\ phase[h] = "open" /\ IsOldest(h, i)
  /\ \/ /\ log[h][i] \in unreadable \/ h \in left
        /\ fate' = [fate EXCEPT ![h][i] = "lost"]
     \/ /\ log[h][i] \notin unreadable
        /\ \E r \in Readers : fate' = [fate EXCEPT ![h][i] = r]
  /\ UNCHANGED <<phase, log, unreadable, left>>

Leave(h) ==
  /\ left' = left \cup {h}
  /\ UNCHANGED <<phase, log, fate, unreadable>>

Next ==
  \/ \E h \in Handles : Open(h) \/ Close(h) \/ Leave(h)
  \/ \E m \in Msgs : Arrive(m)
  \/ \E h \in Handles : \E i \in 1..Len(log[h]) : Read(h, i)

Spec == Init /\ [][Next]_vars
=============================================================================

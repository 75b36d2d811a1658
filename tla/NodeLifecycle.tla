--------------------------- MODULE NodeLifecycle ---------------------------
(***************************************************************************)
(* `flubber node init` and `flubber node run` (main.go:72-125,             *)
(* node/node.go:82-190): processes of one user that create, read and       *)
(* overwrite node.json; and the life of a running node, whose REST server  *)
(* is started in a goroutine before nodeRun is assigned, and is shut down  *)
(* after the context is cancelled and the IPFS node closed.                *)
(*                                                                         *)
(* An identity is named after the init process that generated its key.     *)
(***************************************************************************)
EXTENDS Naturals, FiniteSets

CONSTANTS
  Inits,        \* `flubber node init` processes
  Runs,         \* `flubber node run` processes
  Peers,        \* the bootstrap peers
  Requests,     \* REST requests whose handler uses nodeRun
  Other,        \* a program that listens on :4242 already
  Nil,
  MaxKills      \* bound: processes that are killed

ASSUME LifecycleAssumption ==
  /\ Inits \cap Runs = {} /\ Other \notin Inits \cup Runs
  /\ Nil \notin Inits \cup Runs \cup Peers
  /\ MaxKills \in Nat

VARIABLES
  dir,          \* $HOME/.flubber exists
  file,         \* node.json: see Files
  pc,           \* where a process is
  why,          \* why it failed
  config,       \* the configuration a run has loaded
  dialing,      \* the peers a run is connecting to, a goroutine for each
  port,         \* who listens on :4242
  rest,         \* where the server goroutine of a run is
  assigned,     \* nodeRun of a run is assigned
  ipfs,         \* the IPFS node of a run: "none", "up", "closed"
  live,         \* the context of a run is not cancelled
  req, at,      \* where a request is, and on which run
  early,        \* history: it came before that run had said it had started
  kills,
  raced         \* history: two inits were past the check of the file at once

fileVars == <<dir, file, raced>>
runVars  == <<config, dialing, port, rest, assigned, ipfs, live>>
reqVars  == <<req, at, early>>
vars == <<fileVars, pc, why, runVars, reqVars, kills>>

(* The Did field: a DID, the bare ENS name the README asks for, or none.   *)
DidFields == {"did", "name", "none"}

(* os.WriteFile truncates the file before it writes to it; two writers can *)
(* leave a mixture.                                                        *)
Files ==
  [state : {"absent", "empty", "garbled", "json"},
   key : Inits \cup {Nil}, did : DidFields, secrets : BOOLEAN]

NoFile(state) == [state |-> state, key |-> Nil, did |-> "none", secrets |-> FALSE]

Init ==
  /\ dir = FALSE
  /\ file = NoFile("absent")
  /\ pc = [p \in Inits \cup Runs |-> "idle"]
  /\ why = [p \in Inits \cup Runs |-> "none"]
  /\ config = [n \in Runs |-> NoFile("absent")]
  /\ dialing = [n \in Runs |-> {}]
  /\ port \in {Nil, Other}
  /\ rest = [n \in Runs |-> "none"]
  /\ assigned = [n \in Runs |-> FALSE]
  /\ ipfs = [n \in Runs |-> "none"]
  /\ live = [n \in Runs |-> TRUE]
  /\ req = [q \in Requests |-> "idle"]
  /\ at = [q \in Requests |-> Nil]
  /\ early = [q \in Requests |-> FALSE]
  /\ kills = 0
  /\ raced = FALSE

Step(p, from, to) == pc[p] = from /\ pc' = [pc EXCEPT ![p] = to]

Fails(p, from, reason) ==
  /\ Step(p, from, "failed")
  /\ why' = [why EXCEPT ![p] = reason]
-----------------------------------------------------------------------------
(* flubber node init.                                                      *)

(* The arguments, and os.Stat of the directory.                            *)
StartInit(i) ==
  /\ \/ Fails(i, "idle", "no did")
     \/ Fails(i, "idle", "invalid did")
     \/ Step(i, "idle", IF dir THEN "check" ELSE "mkdir") /\ UNCHANGED why
  /\ UNCHANGED <<fileVars, runVars, reqVars, kills>>

(* os.Mkdir, which refuses a directory that exists by now.                 *)
MakeDir(i) ==
  /\ \/ ~dir /\ Step(i, "mkdir", "check") /\ dir' = TRUE /\ UNCHANGED why
     \/ dir /\ Fails(i, "mkdir", "mkdir") /\ UNCHANGED dir
  /\ UNCHANGED <<file, raced, runVars, reqVars, kills>>

Writing == {i \in Inits : pc[i] \in {"open", "write"}}

(* FAULT: an existing configuration is not looked for.                     *)
FileExistsIgnored == FALSE

FileExists == file.state # "absent"

(* os.Stat of the file: an existing one is kept and the command succeeds.  *)
(* Otherwise a key pair is generated and the public key is logged.         *)
CheckFile(i) ==
  /\ Step(i, "check", IF FileExists THEN "exists" ELSE "open")
  /\ raced' = (raced \/ (~FileExists /\ Writing # {}))
  /\ UNCHANGED <<dir, file, why, runVars, reqVars, kills>>

(* os.WriteFile, first half: the file is created, or truncated.            *)
OpenFile(i) ==
  /\ Step(i, "open", "write")
  /\ file' = NoFile("empty")
  /\ UNCHANGED <<dir, raced, why, runVars, reqVars, kills>>

(* FAULT: the configuration does not marshal, and the error is ignored.    *)
NewConfigUnmarshalled(i) == NoFile("empty")

NewConfig(i) == [state |-> "json", key |-> i, did |-> "did", secrets |-> FALSE]

(* os.WriteFile, second half: over what another writer may have left.      *)
WriteConfig(i) ==
  /\ \/ /\ Step(i, "write", "done")
        /\ file' \in IF file.state = "empty" THEN {NewConfig(i)}
                     ELSE {NewConfig(i), NoFile("garbled")}
        /\ UNCHANGED why
     \/ Fails(i, "write", "write") /\ UNCHANGED file
  /\ UNCHANGED <<dir, raced, runVars, reqVars, kills>>

(* The user adds the API secrets, and may set the Did field to the ENS     *)
(* name, as the README says.                                               *)
EditConfig ==
  /\ file.state = "json" /\ ~file.secrets
  /\ \E d \in {"did", "name"} :
       file' = [file EXCEPT !.did = d, !.secrets = TRUE]
  /\ UNCHANGED <<dir, raced, pc, why, runVars, reqVars, kills>>
-----------------------------------------------------------------------------
(* flubber node run.                                                       *)

(* LoadConfig.                                                             *)
LoadConfig(n) ==
  /\ IF file.state = "json" /\ file.secrets
     THEN Step(n, "idle", "resolve") /\ config' = [config EXCEPT ![n] = file]
                                     /\ UNCHANGED why
     ELSE Fails(n, "idle", "config") /\ UNCHANGED config
  /\ UNCHANGED <<fileVars, dialing, port, rest, assigned, ipfs, live, reqVars,
                 kills>>

(* ResolveENS of the configured DID; a Did that does not parse leaves the  *)
(* empty name to resolve, because the error of Parse is ignored.           *)
ResolveOwnDid(n) ==
  /\ IF config[n].did = "did"
     THEN \/ Step(n, "resolve", "start") /\ UNCHANGED why
          \/ Fails(n, "resolve", "ens")
     ELSE Fails(n, "resolve", "name")
  /\ UNCHANGED <<fileVars, runVars, reqVars, kills>>

(* StartIPFSNode up to connectToPeers, which starts its goroutines.        *)
StartIPFS(n) ==
  /\ \/ /\ Step(n, "start", "connect")
        /\ ipfs' = [ipfs EXCEPT ![n] = "up"]
        /\ dialing' = [dialing EXCEPT ![n] = Peers]
        /\ UNCHANGED why
     \/ Fails(n, "start", "ipfs") /\ UNCHANGED <<ipfs, dialing>>
  /\ UNCHANGED <<fileVars, config, port, rest, assigned, live, reqVars, kills>>

(* FAULT: a goroutine that has not connected does not call Done.           *)
ConnectUndone(n, b) ==
  /\ b \in dialing[n]
  /\ \E left \in {{}, {Nil}} :
       dialing' = [dialing EXCEPT ![n] = (@ \ {b}) \cup left]
  /\ UNCHANGED <<fileVars, pc, why, config, port, rest, assigned, ipfs, live,
                 reqVars, kills>>

(* Swarm().Connect returns; its error is only logged.                      *)
Connect(n, b) ==
  /\ b \in dialing[n]
  /\ dialing' = [dialing EXCEPT ![n] = @ \ {b}]
  /\ UNCHANGED <<fileVars, pc, why, config, port, rest, assigned, ipfs, live,
                 reqVars, kills>>

(* wg.Wait, and SetDMStreamHandler.                                        *)
AllConnected(n) ==
  /\ dialing[n] = {}
  /\ Step(n, "connect", "serve")
  /\ UNCHANGED <<fileVars, why, runVars, reqVars, kills>>

(* FAULT: nodeRun is assigned after the node has reported that it runs.    *)
GoServeLast(n) ==
  /\ Step(n, "serve", "running")
  /\ rest' = [rest EXCEPT ![n] = "starting"]
  /\ UNCHANGED <<fileVars, why, config, dialing, port, assigned, ipfs, live,
                 reqVars, kills>>

(* The server goroutine is started.                                        *)
GoServe(n) ==
  /\ Step(n, "serve", "assign")
  /\ rest' = [rest EXCEPT ![n] = "starting"]
  /\ UNCHANGED <<fileVars, why, config, dialing, port, assigned, ipfs, live,
                 reqVars, kills>>

(* ListenAndServe; an error is logged and the node goes on without.        *)
Listen(n) ==
  /\ rest[n] = "starting"
  /\ IF port = Nil
     THEN port' = n /\ rest' = [rest EXCEPT ![n] = "up"]
     ELSE rest' = [rest EXCEPT ![n] = "refused"] /\ UNCHANGED port
  /\ UNCHANGED <<fileVars, pc, why, config, dialing, assigned, ipfs, live,
                 reqVars, kills>>

AssignNodeRun(n) ==
  /\ Step(n, "assign", "running")
  /\ assigned' = [assigned EXCEPT ![n] = TRUE]
  /\ UNCHANGED <<fileVars, why, config, dialing, port, rest, ipfs, live,
                 reqVars, kills>>

(* Ctrl-C: the context is cancelled.                                       *)
Interrupt(n) ==
  /\ Step(n, "running", "close")
  /\ live' = [live EXCEPT ![n] = FALSE]
  /\ UNCHANGED <<fileVars, why, config, dialing, port, rest, assigned, ipfs,
                 reqVars, kills>>

(* FAULT: nodeRun is cleared when the node is closed, before the server is *)
(* shut down.                                                              *)
CloseNodeClears(n) ==
  /\ Step(n, "close", "shutdown")
  /\ ipfs' = [ipfs EXCEPT ![n] = "closed"]
  /\ assigned' = [assigned EXCEPT ![n] = FALSE]
  /\ UNCHANGED <<fileVars, why, config, dialing, port, rest, live, reqVars, kills>>

(* ipfs.Shutdown.                                                          *)
CloseNode(n) ==
  /\ Step(n, "close", "shutdown")
  /\ ipfs' = [ipfs EXCEPT ![n] = "closed"]
  /\ UNCHANGED <<fileVars, why, config, dialing, port, rest, assigned, live,
                 reqVars, kills>>

(* FAULT: Shutdown waits for a server that has started.                    *)
ShutdownStarted(n) == rest[n] = "up"

(* Shutdown with a cancelled context closes the listener and returns.      *)
ShutdownReturns(n) == ~live[n]

ShutdownServer(n) ==
  /\ ShutdownReturns(n)
  /\ Step(n, "shutdown", "exit")
  /\ rest' = [rest EXCEPT ![n] = "down"]
  /\ port' = IF port = n THEN Nil ELSE port
  /\ UNCHANGED <<fileVars, why, config, dialing, assigned, ipfs, live, reqVars,
                 kills>>

(* The requests of a process that ends are cut off.                        *)
EndProcess(p) ==
  /\ dialing' = IF p \in Runs THEN [dialing EXCEPT ![p] = {}] ELSE dialing
  /\ port' = IF port = p THEN Nil ELSE port
  /\ rest' = IF p \in Runs THEN [rest EXCEPT ![p] = "down"] ELSE rest
  /\ req' = [q \in Requests |->
               IF at[q] = p /\ req[q] \in {"call", "stream", "open"}
               THEN "aborted" ELSE req[q]]

Exit(n) ==
  /\ Step(n, "exit", "done")
  /\ EndProcess(n)
  /\ UNCHANGED <<fileVars, why, config, assigned, ipfs, live, at, early, kills>>

(* A process is killed; before signal.Notify, Ctrl-C does that too.        *)
Kill(p) ==
  /\ kills < MaxKills
  /\ kills' = kills + 1
  /\ pc[p] \notin {"idle", "exists", "done", "failed", "killed"}
  /\ pc' = [pc EXCEPT ![p] = "killed"]
  /\ EndProcess(p)
  /\ UNCHANGED <<fileVars, why, config, assigned, ipfs, live, at, early>>
-----------------------------------------------------------------------------
(* A REST request reaches the run that listens: GET /stream/messages, or   *)
(* one that gets a single answer.                                          *)
Accept(q) ==
  /\ req[q] = "idle" /\ port \in Runs
  /\ \E kind \in {"call", "stream"} : req' = [req EXCEPT ![q] = kind]
  /\ at' = [at EXCEPT ![q] = port]
  /\ early' = [early EXCEPT ![q] = pc[port] = "assign"]
  /\ UNCHANGED <<fileVars, pc, why, runVars, kills>>

Becomes(q, stage) ==
  /\ req' = [req EXCEPT ![q] = stage]
  /\ UNCHANGED <<fileVars, pc, why, runVars, at, early, kills>>

(* The query string is refused, the file to put cannot be read, or the     *)
(* connection cannot be upgraded: an answer without a use of nodeRun.      *)
Refuse(q) == req[q] \in {"call", "stream"} /\ Becomes(q, "answered")

(* The handler uses nodeRun.  Its nil context or nil API makes it panic,   *)
(* and Recovery answers 500; with a nodeRun it answers, whether a call     *)
(* into a cancelled or closed node, or any other, fails or not.            *)
Respond(q) ==
  /\ req[q] = "call"
  /\ Becomes(q, IF assigned[at[q]] THEN "answered" ELSE "panic")

(* A stream subscribes after its connection has been upgraded: neither a   *)
(* panic nor an error can be answered any more, the connection is closed.  *)
Stream(q) ==
  /\ req[q] = "stream"
  /\ \/ assigned[at[q]] /\ (Becomes(q, "open") \/ Becomes(q, "closed"))
     \/ ~assigned[at[q]] /\ Becomes(q, "cut")

(* An open stream looks at the context between two messages; while it      *)
(* writes to a client that does not read, it looks at nothing.             *)
CloseStream(q) ==
  /\ req[q] = "open" /\ ~live[at[q]]
  /\ Becomes(q, "closed")
-----------------------------------------------------------------------------
InitStep(i) ==
  \/ StartInit(i) \/ MakeDir(i) \/ CheckFile(i) \/ OpenFile(i) \/ WriteConfig(i)

StartStep(n) ==
  \/ LoadConfig(n) \/ ResolveOwnDid(n) \/ StartIPFS(n) \/ AllConnected(n)
  \/ GoServe(n) \/ AssignNodeRun(n)

RequestStep(q) == Refuse(q) \/ Respond(q) \/ Stream(q) \/ CloseStream(q)

StopStep(n) == CloseNode(n) \/ ShutdownServer(n) \/ Exit(n)

Next ==
  \/ \E i \in Inits : InitStep(i)
  \/ \E n \in Runs : StartStep(n) \/ Listen(n) \/ Interrupt(n) \/ StopStep(n)
  \/ \E n \in Runs, b \in Peers : Connect(n, b)
  \/ \E p \in Inits \cup Runs : Kill(p)
  \/ EditConfig
  \/ \E q \in Requests : Accept(q) \/ RequestStep(q)

Spec == Init /\ [][Next]_vars

(* A process that starts or shuts down goes on: ResolveENS, NewNode and    *)
(* node.Close return, and an attempt to connect succeeds or times out.     *)
(* Handlers need not return: a stream does not, and the calls out of the   *)
(* others have no deadline of their own.                                   *)
Fairness ==
  /\ \A n \in Runs :
       WF_vars(StopStep(n)) /\ WF_vars(pc[n] # "idle" /\ StartStep(n))
  /\ \A n \in Runs, b \in Peers : WF_vars(Connect(n, b))

FairSpec == Spec /\ Fairness
-----------------------------------------------------------------------------
Places ==
  {"idle", "mkdir", "check", "open", "write", "exists", "done", "failed",
   "killed", "resolve", "start", "connect", "serve", "assign", "running",
   "close", "shutdown", "exit"}

(* Of a request.                                                           *)
Stages ==
  {"idle", "call", "stream", "answered", "panic", "open", "closed", "cut",
   "aborted"}

Reasons ==
  {"none", "no did", "invalid did", "mkdir", "write", "config", "ens", "name",
   "ipfs"}

(* Every variable has its type.                                            *)
TypeOK ==
  /\ dir \in BOOLEAN
  /\ file \in Files
  /\ pc \in [Inits \cup Runs -> Places]
  /\ why \in [Inits \cup Runs -> Reasons]
  /\ config \in [Runs -> Files]
  /\ dialing \in [Runs -> SUBSET Peers]
  /\ port \in Runs \cup {Nil, Other}
  /\ rest \in [Runs -> {"none", "starting", "up", "refused", "down"}]
  /\ assigned \in [Runs -> BOOLEAN]
  /\ ipfs \in [Runs -> {"none", "up", "closed"}]
  /\ live \in [Runs -> BOOLEAN]
  /\ req \in [Requests -> Stages]
  /\ at \in [Requests -> Runs \cup {Nil}]
  /\ early \in [Requests -> BOOLEAN]
  /\ kills \in 0..MaxKills
  /\ raced \in BOOLEAN

(* Unless two inits ran past the check of the file together, the identity  *)
(* an init has reported stays the one in node.json, no other init reports  *)
(* one, and every node runs under it (main.go:89-118).                     *)
IdentityIsKept ==
  ~raced =>
    \A i \in Inits : pc[i] = "done" =>
      /\ file.state = "json" /\ file.key = i
      /\ \A n \in Runs : config[n].key \in {i, Nil}

(* node.json is left unusable only by an init that is still writing it,    *)
(* was killed or failed while writing it, or raced another                 *)
(* (main.go:90-110).                                                       *)
BrokenFileHasCause ==
  file.state \in {"empty", "garbled"} =>
    \/ raced
    \/ \E i \in Inits : pc[i] \in {"write", "killed"} \/ why[i] = "write"

(* The state invariant: the types, and the cause of a broken file          *)
(* (main.go:72-116).                                                       *)
LifecycleInv == TypeOK /\ BrokenFileHasCause

(* Between its start message and Ctrl-C a node has all that the handlers   *)
(* use, and what a request finds missing it finds before or after          *)
(* (node/node.go:169-187).                                                 *)
RunningIsUsable ==
  /\ \A n \in Runs : pc[n] = "running" =>
       assigned[n] /\ live[n] /\ ipfs[n] = "up"
  /\ \A n \in Runs : rest[n] = "up" =>
       /\ port = n
       /\ pc[n] \in {"assign", "running", "close", "shutdown"}

(* A run that has got through its configuration serves or ends, also when  *)
(* no bootstrap peer can be reached and when :4242 is taken                *)
(* (node/node.go:129-182, ipfs/ipfs.go:642-653).                           *)
StartEnds ==
  \A n \in Runs :
    pc[n] = "resolve" ~> pc[n] \notin {"resolve", "start", "connect", "serve",
                                      "assign"}

(* After Ctrl-C the process ends, whatever its requests do: also when none *)
(* of its handlers returns (node/node.go:184-189).                         *)
StopsWhenAsked ==
  \A n \in Runs : pc[n] = "close" ~> pc[n] \in {"done", "killed"}

(* A handler finds no nodeRun, and panics, only for a request that came    *)
(* before the node had said that it had started: not for one that came     *)
(* later, however long it waits, and not while the node shuts down         *)
(* (node/node.go:148-187).                                                 *)
PanicIsEarly ==
  \A q \in Requests : req[q] \in {"panic", "cut"} => early[q]
=============================================================================

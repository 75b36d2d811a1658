------------------------ MODULE NodeLifecycleProofs ------------------------
(***************************************************************************)
(* What NodeLifecycle says of node.json and of a running node holds for    *)
(* any number of processes.  Unless two inits have passed the check of the *)
(* file together, at most one is about to write, and what it finds there   *)
(* is what it left (FileInv, ConfigInv); a process in a given place has    *)
(* done all that comes before (StageInv), and so a request that came after *)
(* the start message has a nodeRun to use (EarlyInv).                      *)
(***************************************************************************)
EXTENDS NodeLifecycle, TLAPS

Serving == {"assign", "running", "close", "shutdown"}

(* Who may be about to write node.json, and what it holds meanwhile.       *)
FileInv ==
  ~raced =>
    /\ \A i, j \in Writing : i = j
    /\ \A i \in Inits :
         /\ pc[i] = "open" => file.state = "absent"
         /\ pc[i] = "write" => file = NoFile("empty")
         /\ pc[i] = "done" => file.state = "json" /\ file.key = i

(* A run has loaded what is still the identity in node.json.               *)
ConfigInv ==
  \A n \in Runs :
    IF config[n].state = "json"
    THEN ~raced => file.state = "json" /\ config[n].key = file.key
    ELSE config[n].key = Nil

(* What a process has done on its way to where it is.                      *)
StageInv ==
  /\ \A p \in Inits \cup Runs : why[p] # "none" => pc[p] = "failed"
  /\ \A n \in Runs :
       /\ pc[n] \in {"idle", "resolve", "start", "connect", "serve", "assign",
                     "running"} => live[n]
       /\ pc[n] \in {"connect", "serve", "assign", "running"} => ipfs[n] = "up"
       /\ pc[n] \in {"running", "close", "shutdown"} => assigned[n]
       /\ rest[n] \in {"starting", "up"} => pc[n] \in Serving
       /\ rest[n] = "up" <=> port = n

(* What the handler of a request finds.                                    *)
EarlyInv ==
  \A q \in Requests :
    /\ req[q] # "idle" => at[q] \in Runs
    /\ req[q] \in {"call", "stream"} /\ ~early[q] => assigned[at[q]]
    /\ req[q] \in {"panic", "cut"} => early[q]

IInv ==
  TypeOK /\ BrokenFileHasCause /\ FileInv /\ ConfigInv /\ StageInv /\ EarlyInv
-----------------------------------------------------------------------------
LEMMA InitIInv == Init => IInv
<1> SUFFICES ASSUME Init PROVE IInv
  OBVIOUS
<1>1. TypeOK
  <2>1. file \in Files /\ NoFile("absent") \in Files
    BY DEF Init, Files, NoFile, DidFields
  <2>2. pc \in [Inits \cup Runs -> Places] /\ why \in [Inits \cup Runs -> Reasons]
    BY DEF Init, Places, Reasons
  <2>3. config \in [Runs -> Files]
    BY <2>1 DEF Init
  <2>4. /\ dialing \in [Runs -> SUBSET Peers]
        /\ assigned \in [Runs -> BOOLEAN] /\ live \in [Runs -> BOOLEAN]
        /\ dir \in BOOLEAN /\ raced \in BOOLEAN
    BY DEF Init
  <2>5. kills \in 0..MaxKills
    BY LifecycleAssumption DEF Init
  <2>6. /\ rest \in [Runs -> {"none", "starting", "up", "refused", "down"}]
        /\ ipfs \in [Runs -> {"none", "up", "closed"}]
        /\ req \in [Requests -> Stages] /\ early \in [Requests -> BOOLEAN]
        /\ at \in [Requests -> Runs \cup {Nil}]
        /\ port \in Runs \cup {Nil, Other}
    BY DEF Init, Stages
  <2> QED
    BY <2>1, <2>2, <2>3, <2>4, <2>5, <2>6 DEF TypeOK
<1>2. BrokenFileHasCause /\ FileInv /\ ConfigInv
  BY DEF Init, BrokenFileHasCause, FileInv, ConfigInv, Writing, NoFile
<1>3. StageInv
  BY LifecycleAssumption DEF Init, StageInv
<1>4. EarlyInv
  BY DEF Init, EarlyInv
<1> QED
  BY <1>1, <1>2, <1>3, <1>4 DEF IInv
-----------------------------------------------------------------------------
(* The types.                                                              *)

Processes == Inits \cup Runs

PcType  == pc' \in [Inits \cup Runs -> Places]
WhyType == why' \in [Inits \cup Runs -> Reasons]

LEMMA StepType ==
  ASSUME TypeOK, NEW p \in Processes, NEW from, NEW to \in Places,
         Step(p, from, to)
  PROVE  PcType
BY DEF TypeOK, Processes, Step, PcType

LEMMA FailsType ==
  ASSUME TypeOK, NEW p \in Processes, NEW from, NEW reason \in Reasons,
         Fails(p, from, reason)
  PROVE  PcType /\ WhyType
BY DEF TypeOK, Processes, Step, Fails, PcType, WhyType, Places

LEMMA InitKeepsType ==
  ASSUME TypeOK, NEW i \in Inits, InitStep(i)
  PROVE  TypeOK'
<1>1. PcType /\ WhyType
  <2> USE StepType, FailsType DEF Processes, Places, Reasons, WhyType, TypeOK
  <2>1. CASE StartInit(i)
    BY <2>1 DEF StartInit
  <2>2. CASE MakeDir(i)
    BY <2>2 DEF MakeDir
  <2>3. CASE CheckFile(i)
    BY <2>3 DEF CheckFile
  <2>4. CASE OpenFile(i)
    BY <2>4 DEF OpenFile
  <2>5. CASE WriteConfig(i)
    BY <2>5 DEF WriteConfig
  <2> QED
    BY <2>1, <2>2, <2>3, <2>4, <2>5 DEF InitStep
<1>2. file' \in Files
  <2>1. /\ NewConfig(i) \in Files
        /\ NoFile("empty") \in Files /\ NoFile("garbled") \in Files
    BY DEF Files, NewConfig, NoFile, DidFields
  <2> QED
    BY <2>1 DEF InitStep, StartInit, MakeDir, CheckFile, OpenFile, WriteConfig,
                fileVars, TypeOK
<1>3. dir' \in BOOLEAN /\ raced' \in BOOLEAN
  BY DEF InitStep, StartInit, MakeDir, CheckFile, OpenFile, WriteConfig,
         fileVars, TypeOK
<1>4. UNCHANGED <<runVars, reqVars, kills>>
  BY DEF InitStep, StartInit, MakeDir, CheckFile, OpenFile, WriteConfig
<1> QED
  BY <1>1, <1>2, <1>3, <1>4 DEF TypeOK, PcType, WhyType, runVars, reqVars

LEMMA StartKeepsType ==
  ASSUME TypeOK, NEW n \in Runs, StartStep(n)
  PROVE  TypeOK'
<1>1. PcType /\ WhyType
  <2> USE StepType, FailsType DEF Processes, Places, Reasons, WhyType, TypeOK
  <2>1. CASE LoadConfig(n)
    BY <2>1 DEF LoadConfig
  <2>2. CASE ResolveOwnDid(n)
    BY <2>2 DEF ResolveOwnDid
  <2>3. CASE StartIPFS(n)
    BY <2>3 DEF StartIPFS
  <2>4. CASE AllConnected(n)
    BY <2>4 DEF AllConnected
  <2>5. CASE GoServe(n)
    BY <2>5 DEF GoServe
  <2>6. CASE AssignNodeRun(n)
    BY <2>6 DEF AssignNodeRun
  <2> QED
    BY <2>1, <2>2, <2>3, <2>4, <2>5, <2>6 DEF StartStep
<1> USE DEF StartStep, LoadConfig, ResolveOwnDid, StartIPFS, AllConnected,
            GoServe, AssignNodeRun, runVars
<1>2. config' \in [Runs -> Files]
  BY DEF TypeOK
<1>3. dialing' \in [Runs -> SUBSET Peers]
  BY DEF TypeOK
<1>4. ipfs' \in [Runs -> {"none", "up", "closed"}]
  BY DEF TypeOK
<1>5. rest' \in [Runs -> {"none", "starting", "up", "refused", "down"}]
  BY DEF TypeOK
<1>6. assigned' \in [Runs -> BOOLEAN]
  BY DEF TypeOK
<1>7. UNCHANGED <<fileVars, port, live, reqVars, kills>>
  OBVIOUS
<1> HIDE DEF StartStep, LoadConfig, ResolveOwnDid, StartIPFS, AllConnected,
             GoServe, AssignNodeRun
<1> QED
  BY <1>1, <1>2, <1>3, <1>4, <1>5, <1>6, <1>7
  DEF TypeOK, PcType, WhyType, fileVars, reqVars

(* The end of a process, whoever ends it.                                  *)
LEMMA EndType ==
  ASSUME TypeOK, NEW p \in Processes, EndProcess(p)
  PROVE  /\ dialing' \in [Runs -> SUBSET Peers]
         /\ port' \in Runs \cup {Nil, Other}
         /\ rest' \in [Runs -> {"none", "starting", "up", "refused", "down"}]
         /\ req' \in [Requests -> Stages]
<1>1. dialing' \in [Runs -> SUBSET Peers]
  BY DEF EndProcess, TypeOK
<1>2. port' \in Runs \cup {Nil, Other}
  BY DEF EndProcess, TypeOK
<1>3. rest' \in [Runs -> {"none", "starting", "up", "refused", "down"}]
  BY DEF EndProcess, TypeOK
<1>4. req' \in [Requests -> Stages]
  BY DEF EndProcess, TypeOK, Stages
<1> QED
  BY <1>1, <1>2, <1>3, <1>4

LEMMA LaterKeepsType ==
  ASSUME TypeOK, NEW n \in Runs,
         Listen(n) \/ Interrupt(n) \/ StopStep(n) \/ (\E b \in Peers : Connect(n, b))
  PROVE  TypeOK'
<1>1. CASE Listen(n)
  <2>1. /\ rest' \in [Runs -> {"none", "starting", "up", "refused", "down"}]
        /\ port' \in Runs \cup {Nil, Other}
    BY <1>1 DEF Listen, TypeOK
  <2>2. UNCHANGED <<fileVars, pc, why, config, dialing, assigned, ipfs, live,
                    reqVars, kills>>
    BY <1>1 DEF Listen
  <2> QED
    BY <2>1, <2>2 DEF TypeOK, fileVars, reqVars
<1>2. CASE Interrupt(n)
  <2>1. PcType
    BY <1>2, StepType DEF Interrupt, Processes, Places
  <2> QED
    BY <1>2, <2>1 DEF Interrupt, TypeOK, PcType, fileVars, reqVars
<1>3. CASE CloseNode(n)
  <2>1. PcType
    BY <1>3, StepType DEF CloseNode, Processes, Places
  <2> QED
    BY <1>3, <2>1 DEF CloseNode, TypeOK, PcType, fileVars, reqVars
<1>4. CASE ShutdownServer(n)
  <2>1. PcType
    BY <1>4, StepType DEF ShutdownServer, Processes, Places
  <2> QED
    BY <1>4, <2>1 DEF ShutdownServer, TypeOK, PcType, fileVars, reqVars
<1>5. CASE Exit(n)
  <2>1. PcType
    BY <1>5, StepType DEF Exit, Processes, Places
  <2> QED
    BY <1>5, <2>1, EndType DEF Exit, TypeOK, PcType, Processes, fileVars
<1>6. CASE \E b \in Peers : Connect(n, b)
  BY <1>6 DEF Connect, TypeOK, fileVars, reqVars
<1> QED
  BY <1>1, <1>2, <1>3, <1>4, <1>5, <1>6 DEF StopStep

(* The step of a handler changes the stage of its request alone.           *)
LEMMA RequestFacts ==
  ASSUME NEW q \in Requests, RequestStep(q)
  PROVE  /\ UNCHANGED <<fileVars, pc, why, runVars, at, early, kills>>
         /\ req[q] \in {"call", "stream", "open"}
         /\ \E stage \in Stages \ {"idle", "call", "stream"} :
              /\ req' = [req EXCEPT ![q] = stage]
              /\ stage \in {"panic", "cut"} =>
                   req[q] \in {"call", "stream"} /\ ~assigned[at[q]]
<1>1. CASE Refuse(q)
  <2>1. Becomes(q, "answered") /\ req[q] \in {"call", "stream", "open"}
    BY <1>1 DEF Refuse
  <2>2. req' = [req EXCEPT ![q] = "answered"]
    BY <2>1 DEF Becomes
  <2>3. "answered" \in Stages \ {"idle", "call", "stream"}
    BY DEF Stages
  <2>4. UNCHANGED <<fileVars, pc, why, runVars, at, early, kills>>
    BY <2>1 DEF Becomes
  <2>5. "answered" \notin {"panic", "cut"}
    OBVIOUS
  <2> QED
    BY <2>1, <2>2, <2>3, <2>4, <2>5
<1>2. CASE Respond(q)
  <2>1. /\ req[q] = "call"
        /\ Becomes(q, "answered") \/ (~assigned[at[q]] /\ Becomes(q, "panic"))
    BY <1>2 DEF Respond
  <2>2. CASE Becomes(q, "answered")
    BY <2>1, <2>2 DEF Becomes, Stages
  <2>3. CASE ~assigned[at[q]] /\ Becomes(q, "panic")
    BY <2>1, <2>3 DEF Becomes, Stages
  <2> QED
    BY <2>1, <2>2, <2>3
<1>3. CASE Stream(q)
  BY <1>3 DEF Stream, Becomes, Stages
<1>4. CASE CloseStream(q)
  <2>1. Becomes(q, "closed") /\ req[q] \in {"call", "stream", "open"}
    BY <1>4 DEF CloseStream
  <2>2. req' = [req EXCEPT ![q] = "closed"]
    BY <2>1 DEF Becomes
  <2>3. "closed" \in Stages \ {"idle", "call", "stream"}
    BY DEF Stages
  <2>4. UNCHANGED <<fileVars, pc, why, runVars, at, early, kills>>
    BY <2>1 DEF Becomes
  <2>5. "closed" \notin {"panic", "cut"}
    OBVIOUS
  <2> QED
    BY <2>1, <2>2, <2>3, <2>4, <2>5
<1> QED
  BY <1>1, <1>2, <1>3, <1>4 DEF RequestStep

LEMMA OthersKeepType ==
  ASSUME TypeOK,
         \/ \E p \in Processes : Kill(p)
         \/ EditConfig
         \/ \E q \in Requests : Accept(q) \/ RequestStep(q)
  PROVE  TypeOK'
<1>1. ASSUME NEW p \in Processes, Kill(p) PROVE TypeOK'
  <2>1. PcType
    BY <1>1 DEF Kill, TypeOK, PcType, Places
  <2>2. kills' \in 0..MaxKills
    BY <1>1, LifecycleAssumption DEF Kill, TypeOK
  <2> QED
    BY <1>1, <2>1, <2>2, EndType DEF Kill, TypeOK, PcType, fileVars
<1>2. CASE EditConfig
  <2>1. file' \in Files
    BY <1>2 DEF EditConfig, TypeOK, Files, DidFields
  <2> QED
    BY <1>2, <2>1 DEF EditConfig, TypeOK, runVars, reqVars
<1>3. ASSUME NEW q \in Requests, Accept(q) PROVE TypeOK'
  <2>1. /\ req' \in [Requests -> Stages] /\ early' \in [Requests -> BOOLEAN]
        /\ at' \in [Requests -> Runs \cup {Nil}]
    BY <1>3 DEF Accept, TypeOK, Stages
  <2> QED
    BY <1>3, <2>1 DEF Accept, TypeOK, fileVars, runVars
<1>4. ASSUME NEW q \in Requests, RequestStep(q) PROVE TypeOK'
  <2>1. req' \in [Requests -> Stages]
    BY <1>4, RequestFacts DEF TypeOK
  <2> QED
    BY <1>4, <2>1, RequestFacts DEF TypeOK, fileVars, runVars
<1> QED
  BY <1>1, <1>2, <1>3, <1>4
-----------------------------------------------------------------------------
(* node.json and what has been read from it.                               *)

(* A step of one process changes its place alone.                          *)
LEMMA StepFacts ==
  ASSUME TypeOK, NEW p \in Processes, NEW from, NEW to, Step(p, from, to)
  PROVE  /\ pc[p] = from /\ pc'[p] = to
         /\ \A q \in Processes : q # p => pc'[q] = pc[q]
BY DEF Step, TypeOK, Processes

LEMMA FailsFacts ==
  ASSUME TypeOK, NEW p \in Processes, NEW from, NEW reason,
         Fails(p, from, reason)
  PROVE  /\ pc[p] = from /\ pc'[p] = "failed" /\ why'[p] = reason
         /\ \A q \in Processes : q # p => pc'[q] = pc[q] /\ why'[q] = why[q]
BY StepFacts DEF Fails, TypeOK, Processes

LEMMA InitKeepsFile ==
  ASSUME IInv, NEW i \in Inits, InitStep(i)
  PROVE  FileInv' /\ ConfigInv' /\ BrokenFileHasCause'
<1> USE StepFacts, FailsFacts DEF Processes, IInv
<1>1. \A j \in Inits : j # i => pc'[j] = pc[j] /\ why'[j] = why[j]
  BY DEF InitStep, StartInit, MakeDir, CheckFile, OpenFile, WriteConfig
<1>2. config' = config
  BY DEF InitStep, StartInit, MakeDir, CheckFile, OpenFile, WriteConfig, runVars
<1>3. CASE StartInit(i) \/ MakeDir(i)
  <2>1. file' = file /\ raced' = raced
    BY <1>3 DEF StartInit, MakeDir, fileVars
  <2>3. pc[i] \in {"idle", "mkdir"} /\ pc'[i] \in {"failed", "check", "mkdir"}
    <3>1. CASE StartInit(i)
      BY <3>1 DEF StartInit, Fails
    <3>2. CASE MakeDir(i)
      BY <3>2 DEF MakeDir
    <3> QED
      BY <1>3, <3>1, <3>2
  <2>2. why[i] = "none"
    BY <2>3 DEF StageInv
  <2> QED
    BY <1>1, <1>2, <2>1, <2>2, <2>3
    DEF FileInv, ConfigInv, BrokenFileHasCause, Writing
<1>4. CASE CheckFile(i)
  <2>1. /\ file' = file /\ why' = why /\ pc[i] = "check"
        /\ IF FileExists THEN pc'[i] = "exists" ELSE pc'[i] = "open"
        /\ raced' <=> raced \/ (~FileExists /\ Writing # {})
    BY <1>4 DEF CheckFile
  <2> QED
    BY <1>1, <1>2, <2>1
    DEF FileInv, ConfigInv, BrokenFileHasCause, Writing, FileExists
<1>5. CASE OpenFile(i)
  <2>1. /\ file' = NoFile("empty") /\ file'.state = "empty"
        /\ why' = why /\ raced' = raced
        /\ pc[i] = "open" /\ pc'[i] = "write"
    BY <1>5 DEF OpenFile, NoFile
  <2> QED
    BY <1>1, <1>2, <2>1 DEF FileInv, ConfigInv, BrokenFileHasCause, Writing
<1>6. CASE WriteConfig(i)
  <2>1. raced' = raced /\ pc[i] = "write" /\ pc'[i] \in {"done", "failed"}
    BY <1>6 DEF WriteConfig
  <2>2. raced \/ file = NoFile("empty")
    BY <2>1 DEF FileInv
  <2>3. \/ raced
        \/ pc'[i] = "done" /\ file' = NewConfig(i)
        \/ pc'[i] = "failed" /\ file' = file /\ why'[i] = "write"
    BY <1>6, <2>2 DEF WriteConfig, NoFile
  <2>4. NewConfig(i).state = "json" /\ NewConfig(i).key = i
    BY DEF NewConfig
  <2>5. NoFile("empty").state = "empty"
    BY DEF NoFile
  <2> QED
    BY <1>1, <1>2, <2>1, <2>2, <2>3, <2>4, <2>5
    DEF FileInv, ConfigInv, BrokenFileHasCause, Writing
<1> QED
  BY <1>3, <1>4, <1>5, <1>6 DEF InitStep

(* A run leaves node.json and the inits alone.                             *)
RunStep(n) ==
  \/ StartStep(n) \/ Listen(n) \/ Interrupt(n) \/ StopStep(n)
  \/ \E b \in Peers : Connect(n, b)

LEMMA RunFrame ==
  ASSUME TypeOK, NEW n \in Runs, RunStep(n)
  PROVE  /\ file' = file /\ raced' = raced
         /\ \A p \in Processes : p # n => pc'[p] = pc[p] /\ why'[p] = why[p]
<1> USE StepFacts, FailsFacts DEF Processes
<1>1. CASE StartStep(n)
  BY <1>1
  DEF StartStep, LoadConfig, ResolveOwnDid, StartIPFS, AllConnected, GoServe,
      AssignNodeRun, fileVars, runVars
<1>2. CASE Listen(n)
  BY <1>2 DEF Listen, fileVars
<1>3. CASE Interrupt(n) \/ StopStep(n)
  BY <1>3
  DEF Interrupt, StopStep, CloseNode, ShutdownServer, Exit, fileVars
<1>4. CASE \E b \in Peers : Connect(n, b)
  BY <1>4 DEF Connect, fileVars
<1> QED
  BY <1>1, <1>2, <1>3, <1>4 DEF RunStep

LEMMA RunKeepsFile ==
  ASSUME IInv, NEW n \in Runs, RunStep(n)
  PROVE  FileInv' /\ ConfigInv' /\ BrokenFileHasCause'
<1>1. /\ file' = file /\ raced' = raced
      /\ \A i \in Inits : pc'[i] = pc[i] /\ why'[i] = why[i]
  BY RunFrame, LifecycleAssumption DEF Processes, IInv
<1>2. ConfigInv'
  <2>1. CASE LoadConfig(n)
    <3>1. \A m \in Runs : config'[m] = config[m] \/ config'[m] = file
      BY <2>1 DEF LoadConfig, IInv, TypeOK
    <3>2. \A m \in Runs : config'[m] # config[m] => file.state = "json"
      BY <2>1 DEF LoadConfig
    <3> QED
      BY <1>1, <3>1, <3>2 DEF IInv, ConfigInv
  <2>2. CASE ~LoadConfig(n)
    <3>1. config' = config
      BY <2>2
      DEF RunStep, StartStep, ResolveOwnDid, StartIPFS, AllConnected, GoServe,
          AssignNodeRun, Listen, Interrupt, StopStep, CloseNode,
          ShutdownServer, Exit, Connect, runVars
    <3> QED
      BY <1>1, <3>1 DEF IInv, ConfigInv
  <2> QED
    BY <2>1, <2>2
<1> QED
  BY <1>1, <1>2 DEF IInv, FileInv, BrokenFileHasCause, Writing

LEMMA OthersKeepFile ==
  ASSUME IInv,
         \/ \E p \in Processes : Kill(p)
         \/ EditConfig
         \/ \E q \in Requests : Accept(q) \/ RequestStep(q)
  PROVE  FileInv' /\ ConfigInv' /\ BrokenFileHasCause'
<1>1. ASSUME NEW p \in Processes, Kill(p)
      PROVE  FileInv' /\ ConfigInv' /\ BrokenFileHasCause'
  <2>1. /\ file' = file /\ raced' = raced /\ why' = why /\ config' = config
        /\ \A i \in Processes : pc'[i] = IF i = p THEN "killed" ELSE pc[i]
        /\ pc[p] \notin {"idle", "exists", "done", "failed", "killed"}
    BY <1>1 DEF Kill, fileVars, IInv, TypeOK, Processes
  <2> QED
    BY <2>1
    DEF IInv, FileInv, ConfigInv, BrokenFileHasCause, Writing, Processes
<1>2. CASE EditConfig
  <2>1. /\ file.state = "json" /\ file'.state = "json" /\ file'.key = file.key
        /\ raced' = raced /\ why' = why /\ config' = config /\ pc' = pc
    BY <1>2 DEF EditConfig, runVars, IInv, TypeOK, Files
  <2>2. ~raced => \A i \in Inits : pc[i] # "write"
    BY <2>1 DEF IInv, FileInv, NoFile
  <2> QED
    BY <2>1, <2>2
    DEF IInv, FileInv, ConfigInv, BrokenFileHasCause, Writing
<1>3. ASSUME NEW q \in Requests, Accept(q) \/ RequestStep(q)
      PROVE  FileInv' /\ ConfigInv' /\ BrokenFileHasCause'
  BY <1>3, RequestFacts
  DEF Accept, fileVars, runVars, IInv, FileInv, ConfigInv,
      BrokenFileHasCause, Writing
<1> QED
  BY <1>1, <1>2, <1>3
-----------------------------------------------------------------------------
(* How far a process has come.                                             *)

LEMMA InitKeepsStage ==
  ASSUME IInv, NEW i \in Inits, InitStep(i)
  PROVE  StageInv'
<1> USE StepFacts, FailsFacts, LifecycleAssumption DEF Processes, IInv
<1>1. UNCHANGED runVars
  BY DEF InitStep, StartInit, MakeDir, CheckFile, OpenFile, WriteConfig
<1>2. \A p \in Processes : p # i => pc'[p] = pc[p] /\ why'[p] = why[p]
  BY DEF InitStep, StartInit, MakeDir, CheckFile, OpenFile, WriteConfig
<1>3. why'[i] = why[i] \/ pc'[i] = "failed"
  BY DEF InitStep, StartInit, MakeDir, CheckFile, OpenFile, WriteConfig
<1>4. pc[i] # "failed"
  BY DEF Step, Fails, InitStep, StartInit, MakeDir, CheckFile, OpenFile, WriteConfig
<1> QED
  BY <1>1, <1>2, <1>3, <1>4 DEF StageInv, runVars

LEMMA StartKeepsStage ==
  ASSUME IInv, NEW n \in Runs, StartStep(n)
  PROVE  StageInv'
<1> USE StepFacts, FailsFacts, LifecycleAssumption DEF Processes, IInv
<1>1. \A p \in Processes : p # n => pc'[p] = pc[p] /\ why'[p] = why[p]
  BY RunFrame DEF RunStep
<1>2. port' = port /\ live' = live
  BY DEF StartStep, LoadConfig, ResolveOwnDid, StartIPFS, AllConnected,
         GoServe, AssignNodeRun, runVars
<1>3. CASE LoadConfig(n) \/ ResolveOwnDid(n) \/ AllConnected(n)
  <2>1. /\ UNCHANGED <<rest, assigned, ipfs>>
        /\ <<pc[n], pc'[n]>> \in {<<"idle", "resolve">>, <<"idle", "failed">>,
             <<"resolve", "start">>, <<"resolve", "failed">>,
             <<"connect", "serve">>}
        /\ why'[n] = why[n] \/ pc'[n] = "failed"
    BY <1>3 DEF LoadConfig, ResolveOwnDid, AllConnected, runVars
  <2> QED
    BY <1>1, <1>2, <2>1 DEF StageInv, Serving
<1>4. CASE StartIPFS(n)
  <2>1. /\ rest' = rest /\ assigned' = assigned /\ pc[n] = "start"
        /\ \A m \in Runs : m # n => ipfs'[m] = ipfs[m]
        /\ \/ pc'[n] = "failed"
           \/ pc'[n] = "connect" /\ why' = why /\ ipfs'[n] = "up"
    BY <1>4 DEF StartIPFS, TypeOK
  <2> QED
    BY <1>1, <1>2, <2>1 DEF StageInv, Serving
<1>5. CASE GoServe(n)
  <2>1. /\ assigned' = assigned /\ ipfs' = ipfs /\ why' = why
        /\ pc[n] = "serve" /\ pc'[n] = "assign"
        /\ \A m \in Runs : rest'[m] = IF m = n THEN "starting" ELSE rest[m]
    BY <1>5 DEF GoServe, TypeOK
  <2> QED
    BY <1>1, <1>2, <2>1 DEF StageInv, Serving
<1>6. CASE AssignNodeRun(n)
  <2>1. /\ rest' = rest /\ ipfs' = ipfs /\ why' = why
        /\ pc[n] = "assign" /\ pc'[n] = "running" /\ assigned'[n]
        /\ \A m \in Runs : m # n => assigned'[m] = assigned[m]
    BY <1>6 DEF AssignNodeRun, TypeOK
  <2> QED
    BY <1>1, <1>2, <2>1 DEF StageInv, Serving
<1> QED
  BY <1>3, <1>4, <1>5, <1>6 DEF StartStep

LEMMA LaterKeepsStage ==
  ASSUME IInv, NEW n \in Runs,
         Listen(n) \/ Interrupt(n) \/ StopStep(n) \/ (\E b \in Peers : Connect(n, b))
  PROVE  StageInv'
<1> USE StepFacts, LifecycleAssumption DEF Processes, IInv
<1>1. \A p \in Processes : p # n => pc'[p] = pc[p]
  BY RunFrame DEF RunStep
<1>2. assigned' = assigned /\ why' = why
  BY DEF Listen, Interrupt, StopStep, CloseNode, ShutdownServer, Exit, Connect
<1>3. CASE Listen(n)
  <2>1. UNCHANGED <<pc, live, ipfs>> /\ rest[n] = "starting"
    BY <1>3 DEF Listen
  <2>2. \A m \in Runs : m # n => rest'[m] = rest[m]
    BY <1>3 DEF Listen, TypeOK
  <2>3. \/ port = Nil /\ port' = n /\ rest'[n] = "up"
        \/ port' = port /\ rest'[n] = "refused"
    BY <1>3 DEF Listen, TypeOK
  <2> QED
    BY <1>2, <2>1, <2>2, <2>3 DEF StageInv
<1>4. CASE Interrupt(n)
  <2>1. /\ UNCHANGED <<rest, port, ipfs>>
        /\ pc[n] = "running" /\ pc'[n] = "close"
        /\ \A m \in Runs : m # n => live'[m] = live[m]
    BY <1>4 DEF Interrupt, TypeOK
  <2> QED
    BY <1>1, <1>2, <2>1 DEF StageInv, Serving
<1>5. CASE CloseNode(n)
  <2>1. /\ UNCHANGED <<rest, port, live>>
        /\ pc[n] = "close" /\ pc'[n] = "shutdown"
        /\ \A m \in Runs : m # n => ipfs'[m] = ipfs[m]
    BY <1>5 DEF CloseNode, TypeOK
  <2> QED
    BY <1>1, <1>2, <2>1 DEF StageInv, Serving
<1>6. CASE ShutdownServer(n)
  <2>1. UNCHANGED <<ipfs, live>> /\ pc[n] = "shutdown" /\ pc'[n] = "exit"
    BY <1>6 DEF ShutdownServer
  <2>2. \A m \in Runs : rest'[m] = IF m = n THEN "down" ELSE rest[m]
    BY <1>6 DEF ShutdownServer, TypeOK
  <2>3. port' = IF port = n THEN Nil ELSE port
    BY <1>6 DEF ShutdownServer
  <2> QED
    BY <1>1, <1>2, <2>1, <2>2, <2>3 DEF StageInv, Serving
<1>7. CASE Exit(n)
  <2>1. UNCHANGED <<ipfs, live>> /\ pc[n] = "exit" /\ pc'[n] = "done"
    BY <1>7 DEF Exit
  <2>2. \A m \in Runs : rest'[m] = IF m = n THEN "down" ELSE rest[m]
    BY <1>7 DEF Exit, EndProcess, TypeOK
  <2>3. port' = IF port = n THEN Nil ELSE port
    BY <1>7 DEF Exit, EndProcess
  <2> QED
    BY <1>1, <1>2, <2>1, <2>2, <2>3 DEF StageInv, Serving
<1>8. CASE \E b \in Peers : Connect(n, b)
  BY <1>8 DEF Connect, StageInv
<1> QED
  BY <1>3, <1>4, <1>5, <1>6, <1>7, <1>8 DEF StopStep

LEMMA OthersKeepStage ==
  ASSUME IInv,
         \/ \E p \in Processes : Kill(p)
         \/ EditConfig
         \/ \E q \in Requests : Accept(q) \/ RequestStep(q)
  PROVE  StageInv'
<1>1. ASSUME NEW p \in Processes, Kill(p) PROVE StageInv'
  <2>1. /\ UNCHANGED <<why, assigned, ipfs, live>>
        /\ \A q \in Processes : pc'[q] = IF q = p THEN "killed" ELSE pc[q]
        /\ pc[p] # "failed"
    BY <1>1 DEF Kill, IInv, TypeOK, Processes
  <2>2. \A m \in Runs : rest'[m] = IF m = p THEN "down" ELSE rest[m]
    BY <1>1 DEF Kill, EndProcess, IInv, TypeOK, Processes
  <2>3. port' = IF port = p THEN Nil ELSE port
    BY <1>1 DEF Kill, EndProcess
  <2>4. \A q \in Processes : why[q] # "none" => q # p
    BY <2>1 DEF IInv, StageInv, Processes
  <2> QED
    BY <2>1, <2>2, <2>3, <2>4, LifecycleAssumption
    DEF IInv, StageInv, Serving, Processes
<1>2. CASE EditConfig
  BY <1>2 DEF EditConfig, runVars, IInv, StageInv
<1>3. ASSUME NEW q \in Requests, Accept(q) \/ RequestStep(q) PROVE StageInv'
  BY <1>3, RequestFacts DEF Accept, runVars, IInv, StageInv
<1> QED
  BY <1>1, <1>2, <1>3
-----------------------------------------------------------------------------
(* What the handlers find.                                                 *)

(* Whoever is not a request leaves nodeRun, and the requests but for       *)
(* cutting them off.                                                       *)
LEMMA CutKeepsEarly ==
  ASSUME EarlyInv, UNCHANGED <<at, early>>,
         \A n \in Runs : assigned[n] => assigned'[n],
         \A q \in Requests :
           req'[q] = req[q] \/ (req[q] # "idle" /\ req'[q] = "aborted")
  PROVE  EarlyInv'
BY DEF EarlyInv

LEMMA ProcessKeepsEarly ==
  ASSUME IInv,
         \/ \E i \in Inits : InitStep(i)
         \/ \E n \in Runs : RunStep(n)
         \/ \E p \in Processes : Kill(p)
         \/ EditConfig
  PROVE  EarlyInv'
<1> USE CutKeepsEarly DEF IInv
<1>1. ASSUME NEW i \in Inits, InitStep(i) PROVE EarlyInv'
  BY <1>1
  DEF InitStep, StartInit, MakeDir, CheckFile, OpenFile, WriteConfig, runVars,
      reqVars
<1>2. ASSUME NEW p, EndProcess(p)
      PROVE  \A q \in Requests :
               req'[q] = req[q] \/ (req[q] # "idle" /\ req'[q] = "aborted")
  BY <1>2 DEF EndProcess
<1>3. ASSUME NEW p \in Processes, Kill(p) PROVE EarlyInv'
  BY <1>2, <1>3 DEF Kill
<1>4. CASE EditConfig
  BY <1>4 DEF EditConfig, runVars, reqVars
<1>5. ASSUME NEW n \in Runs, RunStep(n) PROVE EarlyInv'
  <2>1. CASE StartStep(n)
    <3>1. UNCHANGED reqVars
      BY <2>1
      DEF StartStep, LoadConfig, ResolveOwnDid, StartIPFS, AllConnected, GoServe,
          AssignNodeRun
    <3>2. \A m \in Runs : assigned[m] => assigned'[m]
      BY <2>1
      DEF StartStep, LoadConfig, ResolveOwnDid, StartIPFS, AllConnected, GoServe,
          AssignNodeRun, runVars, TypeOK
    <3> QED
      BY <3>1, <3>2 DEF reqVars
  <2>2. CASE Exit(n)
    BY <1>2, <2>2 DEF Exit
  <2>3. CASE \/ Listen(n) \/ Interrupt(n) \/ CloseNode(n) \/ ShutdownServer(n)
             \/ \E b \in Peers : Connect(n, b)
    BY <2>3 DEF Listen, Interrupt, CloseNode, ShutdownServer, Connect, reqVars
  <2> QED
    BY <1>5, <2>1, <2>2, <2>3 DEF RunStep, StopStep
<1> QED
  BY <1>1, <1>3, <1>4, <1>5

LEMMA RequestsKeepEarly ==
  ASSUME IInv, NEW q \in Requests, Accept(q) \/ RequestStep(q)
  PROVE  EarlyInv'
<1> USE DEF IInv
<1>1. CASE Accept(q)
  <2>1. /\ port \in Runs /\ req[q] = "idle"
        /\ req'[q] \in {"call", "stream"} /\ at'[q] = port
        /\ early'[q] <=> pc[port] = "assign"
        /\ \A r \in Requests : r # q =>
             req'[r] = req[r] /\ at'[r] = at[r] /\ early'[r] = early[r]
        /\ assigned' = assigned
    BY <1>1 DEF Accept, TypeOK, runVars
  <2>2. pc[port] = "assign" \/ assigned[port]
    BY <2>1 DEF StageInv, Serving
  <2> QED
    BY <2>1, <2>2 DEF EarlyInv
<1>2. CASE RequestStep(q)
  <2>1. PICK stage \in Stages \ {"idle", "call", "stream"} :
          /\ req' = [req EXCEPT ![q] = stage]
          /\ stage \in {"panic", "cut"} =>
               req[q] \in {"call", "stream"} /\ ~assigned[at[q]]
    BY <1>2, RequestFacts
  <2>2. /\ UNCHANGED <<at, early, assigned>>
        /\ req[q] # "idle" /\ req'[q] = stage
        /\ \A r \in Requests : r # q => req'[r] = req[r]
    BY <1>2, <2>1, RequestFacts DEF runVars, TypeOK
  <2> QED
    BY <2>1, <2>2 DEF EarlyInv
<1> QED
  BY <1>1, <1>2
-----------------------------------------------------------------------------
(* IInv is an invariant, however many inits, runs, peers and requests      *)
(* there are.                                                              *)
THEOREM IInvInvariant == Spec => []IInv
<1>1. IInv /\ [Next]_vars => IInv'
  <2> SUFFICES ASSUME IInv, [Next]_vars PROVE IInv'
    OBVIOUS
  <2>1. ASSUME NEW i \in Inits, InitStep(i) PROVE IInv'
    BY <2>1, InitKeepsType, InitKeepsFile, InitKeepsStage, ProcessKeepsEarly
    DEF IInv
  <2>2. ASSUME NEW n \in Runs, StartStep(n) PROVE IInv'
    BY <2>2, StartKeepsType, RunKeepsFile, StartKeepsStage, ProcessKeepsEarly
    DEF IInv, RunStep
  <2>3. ASSUME NEW n \in Runs,
               \/ Listen(n) \/ Interrupt(n) \/ StopStep(n)
               \/ \E b \in Peers : Connect(n, b)
        PROVE  IInv'
    BY <2>3, LaterKeepsType, RunKeepsFile, LaterKeepsStage, ProcessKeepsEarly
    DEF IInv, RunStep
  <2>4. ASSUME \/ \E p \in Processes : Kill(p)
               \/ EditConfig
               \/ \E q \in Requests : Accept(q) \/ RequestStep(q)
        PROVE  IInv'
    BY <2>4, OthersKeepType, OthersKeepFile, OthersKeepStage, ProcessKeepsEarly,
       RequestsKeepEarly
    DEF IInv
  <2>5. CASE UNCHANGED vars
    BY <2>5
    DEF vars, fileVars, runVars, reqVars, IInv, TypeOK, BrokenFileHasCause,
        FileInv, ConfigInv, StageInv, EarlyInv, Writing
  <2> QED
    BY <2>1, <2>2, <2>3, <2>4, <2>5 DEF Next, Processes
<1> QED
  BY <1>1, InitIInv, PTL DEF Spec

(* A node.json that cannot be used has been left so by an init that was    *)
(* interrupted or raced another (main.go:90-110), in every instance.       *)
THEOREM FileIsExplained == Spec => []LifecycleInv
<1>1. IInv => LifecycleInv
  BY DEF IInv, LifecycleInv
<1> QED
  BY <1>1, IInvInvariant, PTL

(* Without such a race the identity that an init has reported is the one   *)
(* in node.json and the one every node runs under (main.go:89-118), in     *)
(* every instance.                                                         *)
THEOREM OneIdentity == Spec => []IdentityIsKept
<1>1. IInv => IdentityIsKept
  BY DEF IInv, FileInv, ConfigInv, IdentityIsKept
<1> QED
  BY <1>1, IInvInvariant, PTL

(* A node that says it runs has all that its handlers use, and the port is *)
(* its own when its server is up (node/node.go:169-187), in every instance.*)
THEOREM NodeIsUsable == Spec => []RunningIsUsable
<1>1. IInv => RunningIsUsable
  BY DEF IInv, StageInv, Serving, RunningIsUsable
<1> QED
  BY <1>1, IInvInvariant, PTL

(* Only a request that came before the start message makes a handler panic *)
(* (node/node.go:148-187), in every instance.                              *)
THEOREM PanicsAreEarly == Spec => []PanicIsEarly
<1>1. IInv => PanicIsEarly
  BY DEF IInv, EarlyInv, PanicIsEarly
<1> QED
  BY <1>1, IInvInvariant, PTL
=============================================================================

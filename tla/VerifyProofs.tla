---------------------------- MODULE VerifyProofs ----------------------------
(***************************************************************************)
(* What holds of every sequence of commands, every mesh and every capacity *)
(* of the channel: the safety properties of Verify, from one inductive     *)
(* invariant. Its parts say, in this order, what the values are, how far   *)
(* the goroutine is when it knows its outcome, what is in the channels and *)
(* who has read it, what it was allowed to do to the namespace, whose the  *)
(* namespace is, and whose the objects in it are.                          *)
(***************************************************************************)
EXTENDS Verify, SequenceTheorems, TLAPS

Before  == {"connect", "detect", "namespace", "patch", "delete", "gone", "create"}
Probing == {"deploy", "ready-a", "ready-b", "route", "accept", "leftover", "spawn", "finish",
            "logs", "cleanup"}
Ends    == {"report", "close", "close-steps", "over"}

Runs == [pc : Before \cup Probing \cup Ends, labels : SUBSET (MeshLabels \cup {Managed}),
         todo : Seq(Variants), fresh : BOOLEAN, outcome : Outcomes \cup {"none"},
         cases : {NoObject} \cup Cases, deleteFailed : BOOLEAN, cancelled : BOOLEAN]

Running == run # Idle

States == {"new", "ready", "accepted", "rejected", "passed", "failed"}

Stored == [by : 1..Len(Commands), images : SUBSET {"old", "new"}, state : States,
           going : BOOLEAN]

Screens == {"picking", "inspecting", "modePicking", "nsConsent", "running", "done", "exiting",
            "exit"}

Typed ==
    /\ mesh \in Mesh /\ mesh \in Meshes /\ moves \in 0..MaxMoves
    /\ ns \in [phase : {"absent", "active", "terminating"}, by : 0..Len(Commands),
               labels : SUBSET (MeshLabels \cup {Managed})]
    /\ objects \in [Names -> {NoObject} \cup Stored]
    /\ cmd \in [n : 1..Len(Commands), tui : BOOLEAN, keep : BOOLEAN, policy : Policies,
                override : Modes \cup {NoMode}, image : {"old", "new"}]
    /\ ui \in [state : Screens, policy : Policies, override : Modes \cup {NoMode}, mesh : Mesh,
               exists : BOOLEAN, labels : SUBSET (MeshLabels \cup {Managed}),
               result : Results \cup {NoResult}]
    /\ run \in Runs \cup {Idle}
    /\ chan \in [steps : 0..StepBuffer, result : Results \cup {NoResult},
                 resultClosed : BOOLEAN, stepsClosed : BOOLEAN]

\* An object stands in a namespace, and has the states of its kind.
Standing ==
    \A name \in Names : objects[name] # NoObject =>
        /\ Exists
        /\ objects[name].going => name = "client"
        /\ objects[name].state \in
              {"new"} \cup (IF name \in Variants THEN {"ready"}
                            ELSE IF name = "route" THEN {"accepted", "rejected"}
                            ELSE {"passed", "failed"})

\* The outcome is known when the clean-up begins; the client is let in after "accepted" only.
Flow ==
    Running =>
        /\ run.pc \in {"cleanup"} \cup Ends => run.outcome \in Outcomes
        /\ run.pc \in {"leftover", "spawn", "finish", "logs"} => run.outcome = "accepted"
        /\ run.cases # NoObject => run.outcome = "accepted" /\ run.pc \in {"cleanup"} \cup Ends

Verdict == [outcome |-> run.outcome, cases |-> run.cases]

\* A channel is closed at its place, and the result is where it belongs: with the goroutine,
\* in the channel, or on the screen.
Channels ==
    /\ ~Running => chan = Open
    /\ Running => /\ chan.resultClosed <=> run.pc \in {"close-steps", "over"}
                  /\ chan.stepsClosed <=> run.pc = "over"
    /\ ui.state = "running" =>
          /\ Running
          /\ chan.result = IF run.pc \in Ends \ {"report"} THEN Verdict ELSE NoResult
    /\ ui.state = "done" =>
          /\ ui.result # NoResult
          /\ Running => run.pc \in Ends \ {"report"} /\ ui.result = Verdict
    /\ ui.state \in {"picking", "inspecting", "modePicking", "nsConsent", "exit"} => ~Running

\* What the policy must have allowed before the call that does it.
Allowed ==
    Running =>
        /\ run.pc = "patch" /\ run.labels \cap MeshLabels # {} => ui.policy = "patch"
        /\ run.pc = "delete" => ui.policy = "delete"

\* A namespace is not of this command before its run has created one, nor once it has cleaned
\* up, unless it was told to keep it or could not delete it.
Owned ==
    /\ ns.by <= cmd.n
    /\ ui.state # "exit" /\ (Running => run.pc \in Before) => ns.by < cmd.n
    /\ Running /\ run.pc \in Ends /\ ~cmd.keep /\ ~run.deleteFailed =>
          ~(ns.phase = "active" /\ ns.by = cmd.n)

\* In a namespace made afresh all is of this command, from the moment it is about to be made.
OfThisCommand ==
    /\ \A name \in Names : objects[name] # NoObject => objects[name].by = cmd.n
    /\ \A v \in Variants : objects[v] # NoObject => objects[v].images = {cmd.image}
    /\ objects["client"] # NoObject /\ objects["client"].state = "passed" =>
          objects["client"].images = {cmd.image}

Fresh ==
    Running =>
        /\ run.pc = "create" \/ run.fresh => OfThisCommand
        /\ run.fresh /\ run.cases # NoObject =>
              /\ run.cases.by = cmd.n
              /\ run.cases.state = "passed" => run.cases.images = {cmd.image}

Inv == Typed /\ Standing /\ Flow /\ Channels /\ Allowed /\ Owned /\ Fresh

-----------------------------------------------------------------------------
(* What the actions leave alone. *)

LEMMA RunningPc == ASSUME Typed PROVE /\ Running <=> run \in Runs
                                      /\ Running <=> run.pc # "none"
BY DEF Typed, Running, Runs, Idle, Before, Probing, Ends

\* The goroutine leaves the interface alone and writes to the namespace in four places only,
\* to its objects in four others.
LEMMA GoroutineFrame ==
    ASSUME Goroutine
    PROVE  /\ UNCHANGED <<mesh, cmd, ui, moves>>
           /\ \/ UNCHANGED ns
              \/ PatchLabels \/ DeleteExisting \/ CreateNamespace \/ Cleanup
           /\ \/ UNCHANGED objects
              \/ DeployNext \/ CreateHTTPRoute \/ DeleteLeftover \/ CreateClient
BY DEF Goroutine, cluster, Go, Put, Connect, Detect, ReadNamespace, PatchLabels, DeleteExisting,
       NamespaceGone, CreateNamespace, EarlyReturn, DeployNext, DeploymentReady,
       CreateHTTPRoute, ReadAccepted, DeleteLeftover, CreateClient, ClientEnded, ReadLogs,
       ProbeError, NoController, TrafficError, Cleanup, Report, CloseResult, CloseSteps

\* It says what it does as progress, or says how it ended.
LEMMA GoroutineSends ==
    ASSUME Goroutine
    PROVE  Send \/ Report \/ CloseResult \/ CloseSteps
BY DEF Goroutine, Go, Connect, Detect, ReadNamespace, PatchLabels, DeleteExisting,
       NamespaceGone, CreateNamespace, EarlyReturn, DeployNext, DeploymentReady,
       CreateHTTPRoute, ReadAccepted, DeleteLeftover, CreateClient, ClientEnded, ReadLogs,
       ProbeError, NoController, TrafficError, Cleanup

Interface ==
    \/ NextCommand \/ PickContext \/ Inspected \/ InspectionFailed
    \/ \E mode \in Modes \cup {NoMode} : PickMode(mode)
    \/ \E policy \in {"delete", "patch"} : Consent(policy)
    \/ Quit \/ ReadStep \/ ReadResult \/ ProcessExits

Cluster ==
    \/ DeploymentStarts \/ MeshJudges
    \/ \E state \in {"passed", "failed"} : ClientEnds(state)
    \/ \E names \in {Variants, {"route"}, {"client"}} : Collect(names)
    \/ NamespaceEnds
    \/ \E labels \in Labelings : UserCreates(labels) \/ UserLabels(labels)

LEMMA NextIsOneOf == Next => Goroutine \/ Interface \/ Cluster
BY DEF Next, Interface, Cluster

LEMMA InterfaceFrame == ASSUME Interface PROVE UNCHANGED <<cluster, moves>>
BY DEF Interface, cluster, NextCommand, PickContext, Inspected, InspectionFailed, PickMode,
       Consent, Quit, ReadStep, ReadResult, ProcessExits

LEMMA ClusterFrame == ASSUME Cluster PROVE UNCHANGED <<mesh, cmd, ui, run, chan>>
BY DEF Cluster, DeploymentStarts, MeshJudges, Becomes, ClientEnds, Collect, NamespaceEnds,
       UserCreates, UserLabels

-----------------------------------------------------------------------------
(* Typing. *)

LEMMA DetectedMesh == ASSUME Typed, NEW m \in DetectMesh PROVE m \in Mesh
<1>1. mesh \in Mesh BY DEF Typed
<1>2. [istio |-> FALSE, mode |-> NoMode] \in Mesh BY DEF Mesh
<1>3. mesh.istio => [mesh EXCEPT !.mode = "sidecar"] \in Mesh BY <1>1 DEF Mesh, Modes
<1> QED BY <1>1, <1>2, <1>3 DEF DetectMesh

LEMMA MeshAsked ==
    ASSUME NEW m \in Mesh, NEW mode \in Modes \cup {NoMode}
    PROVE  /\ Override(m, mode) \in Mesh
           /\ NamespaceLabels(m) \subseteq MeshLabels
BY DEF Mesh, Override, NamespaceLabels, MeshLabels

LEMMA ObjectTyped ==
    ASSUME Typed, NEW name \in Names, objects[name] # NoObject
    PROVE  objects[name] \in Stored
BY DEF Typed

\* Where the goroutine goes on from, and what it has to hand over there.
LEMMA GoroutineRunTyped ==
    ASSUME Typed, Standing, Goroutine
    PROVE  run' \in Runs
<1> USE DEF Runs, Before, Probing, Ends
<1>0. run \in Runs
  BY RunningPc DEF Goroutine, Call, Go, Connect, Detect, ReadNamespace, PatchLabels,
     DeleteExisting, NamespaceGone, CreateNamespace, EarlyReturn, DeployNext, DeploymentReady,
     CreateHTTPRoute, ReadAccepted, DeleteLeftover, CreateClient, ClientEnded, ReadLogs,
     ProbeError, NoController, TrafficError, Cleanup, Report, CloseResult, CloseSteps, Idle,
     Running
<1>1. CASE Connect BY <1>0, <1>1 DEF Connect, Go
<1>2. CASE Detect
  <2>1. PICK m \in DetectMesh :
           run' = [run EXCEPT !.pc = "namespace",
                              !.labels = NamespaceLabels(Override(m, ui.override))]
    BY <1>2 DEF Detect
  <2>2. NamespaceLabels(Override(m, ui.override)) \subseteq MeshLabels
    BY DetectedMesh, MeshAsked DEF Typed
  <2> QED BY <1>0, <2>1, <2>2
<1>3. CASE ReadNamespace
  <2>1. PICK next \in {"create", "deploy", "patch", "delete", "report"},
             labels \in SUBSET (MeshLabels \cup {Managed}), outcome \in {"error", "none"} :
           run' = [run EXCEPT !.pc = next, !.labels = labels, !.outcome = outcome]
    <3> DEFINE missing == run.labels \ ns.labels
               add     == missing \cup ({Managed} \ ns.labels)
               next    == IF ~Exists THEN "create"
                          ELSE IF add = {} THEN "deploy"
                          ELSE IF missing = {} \/ ui.policy = "patch" THEN "patch"
                          ELSE IF ui.policy = "delete" THEN "delete"
                          ELSE "report"
               labels  == IF next = "patch" THEN add
                          ELSE IF next \in {"create", "delete"} THEN run.labels ELSE {}
               outcome == IF next = "report" THEN "error" ELSE "none"
    <3>1. run' = [run EXCEPT !.pc = next, !.labels = labels, !.outcome = outcome]
      BY <1>3 DEF ReadNamespace
    <3>2. labels \in SUBSET (MeshLabels \cup {Managed}) BY <1>0
    <3> QED BY <3>1, <3>2
  <2> QED BY <1>0, <2>1 DEF Outcomes
<1>4. CASE PatchLabels BY <1>0, <1>4 DEF PatchLabels
<1>5. CASE DeleteExisting \/ NamespaceGone
  BY <1>0, <1>5 DEF DeleteExisting, NamespaceGone, Go
<1>6. CASE CreateNamespace BY <1>0, <1>6 DEF CreateNamespace
<1>7. CASE EarlyReturn BY <1>0, <1>7 DEF EarlyReturn, Outcomes
<1>8. CASE DeployNext
  <2> DEFINE todo == IF run.todo = <<>> THEN Backends ELSE run.todo
  <2>1. todo \in Seq(Variants) /\ todo # <<>>
    <3>1. Backends \in Seq(Variants) /\ Backends # <<>> BY DEF Backends, Variants
    <3> QED BY <1>0, <3>1
  <2>2. Tail(todo) \in Seq(Variants)
    BY <2>1, HeadTailProperties
  <2>3. run' = [run EXCEPT !.todo = Tail(todo),
                           !.pc   = IF Len(todo) = 1 THEN "ready-a" ELSE "deploy"]
    BY <1>8 DEF DeployNext
  <2> QED BY <1>0, <2>2, <2>3
<1>9. CASE DeploymentReady \/ CreateHTTPRoute
  BY <1>0, <1>9 DEF DeploymentReady, CreateHTTPRoute, Go
<1>10. CASE ReadAccepted
  <2>1. objects["route"].state \in Outcomes
    BY <1>10 DEF ReadAccepted, Standing, Names, Variants, Outcomes
  <2> QED BY <1>0, <1>10, <2>1 DEF ReadAccepted
<1>11. CASE DeleteLeftover \/ CreateClient \/ ClientEnded
  BY <1>0, <1>11 DEF DeleteLeftover, CreateClient, ClientEnded, Go
<1>12. CASE ReadLogs
  <2>1. objects["client"] \in Cases
    BY <1>12 DEF ReadLogs, Typed, Standing, Stored, Names, Variants, Cases
  <2> QED BY <1>0, <1>12, <2>1 DEF ReadLogs
<1>13. CASE ProbeError \/ NoController
  <2>1. \E o \in Outcomes : run' = [run EXCEPT !.pc = "cleanup", !.outcome = o]
    BY <1>13 DEF ProbeError, NoController, Outcomes
  <2> QED BY <1>0, <2>1
<1>14. CASE TrafficError BY <1>0, <1>14 DEF TrafficError, Go
<1>15. CASE Cleanup
  <2>1. \/ run' = [run EXCEPT !.pc = "report"]
        \/ run' = [run EXCEPT !.pc = "report", !.deleteFailed = TRUE]
    BY <1>15 DEF Cleanup
  <2> QED BY <1>0, <2>1
<1>16. CASE Report \/ CloseResult \/ CloseSteps
  <2>1. \E pc \in Ends : run' = [run EXCEPT !.pc = pc]
    BY <1>16 DEF Report, CloseResult, CloseSteps
  <2> QED BY <1>0, <2>1
<1> QED
  BY <1>1, <1>2, <1>3, <1>4, <1>5, <1>6, <1>7, <1>8, <1>9, <1>10, <1>11, <1>12, <1>13, <1>14,
     <1>15, <1>16 DEF Goroutine

\* What is put in the namespace is an object of the command's.
LEMMA PutTyped ==
    ASSUME Typed, NEW name \in Names, Put(name)
    PROVE  /\ objects' \in [Names -> {NoObject} \cup Stored]
           /\ objects' = objects \/ objects' = [objects EXCEPT ![name] = Object(cmd.n, {cmd.image})]
           /\ objects[name] = NoObject => ns.phase = "active"
           /\ UNCHANGED ns
BY DEF Put, Typed, Object, Stored, States

LEMMA HeadIsVariant ==
    ASSUME Typed, DeployNext
    PROVE  \E v \in Variants : Put(v)
<1> DEFINE todo == IF run.todo = <<>> THEN Backends ELSE run.todo
<1>1. run.pc = "deploy" /\ Put(Head(todo))
  BY DEF DeployNext, Call
<1>2. run \in Runs
  BY <1>1, RunningPc
<1>3. Backends \in Seq(Variants) /\ Backends # <<>> BY DEF Backends, Variants
<1>4. todo \in Seq(Variants) /\ todo # <<>> BY <1>2, <1>3 DEF Runs
<1>5. Head(todo) \in Variants BY <1>4, HeadTailProperties
<1> QED BY <1>1, <1>5

LEMMA GoroutineTyped ==
    ASSUME Typed, Standing, Flow, Goroutine
    PROVE  Typed'
<1>1. UNCHANGED <<mesh, cmd, ui, moves>>
  BY GoroutineFrame
<1>2. run' \in Runs
  BY GoroutineRunTyped
<1>3. chan' \in [steps : 0..StepBuffer, result : Results \cup {NoResult},
                 resultClosed : BOOLEAN, stepsClosed : BOOLEAN]
  <2>1. CASE Send BY <2>1, VerifyAssumption DEF Send, Typed, VerifyAssumption
  <2>2. CASE Report
    <3>1. [outcome |-> run.outcome, cases |-> run.cases] \in Results
      BY <2>2, RunningPc DEF Report, Flow, Runs, Results, Ends
    <3> QED BY <2>2, <3>1 DEF Report, Typed
  <2>3. CASE CloseResult \/ CloseSteps BY <2>3 DEF CloseResult, CloseSteps, Typed
  <2> QED BY <2>1, <2>2, <2>3, GoroutineSends
<1>4. ns' \in [phase : {"absent", "active", "terminating"}, by : 0..Len(Commands),
               labels : SUBSET (MeshLabels \cup {Managed})]
  <2>1. run \in Runs \/ UNCHANGED ns
    BY GoroutineFrame, RunningPc
       DEF PatchLabels, DeleteExisting, CreateNamespace, Cleanup, Call
  <2>2. CASE PatchLabels BY <2>2, <2>1 DEF PatchLabels, Typed, Runs
  <2>3. CASE DeleteExisting \/ Cleanup
    <3>1. UNCHANGED ns \/ ns' = [ns EXCEPT !.phase = "terminating"]
      BY <2>3 DEF DeleteExisting, Cleanup, Terminate
    <3> QED BY <3>1 DEF Typed
  <2>4. CASE CreateNamespace
    <3>1. \/ UNCHANGED ns
          \/ ns' = [phase |-> "active", by |-> cmd.n, labels |-> {Managed} \cup run.labels]
      BY <2>4 DEF CreateNamespace
    <3>2. CASE UNCHANGED ns BY <3>2 DEF Typed
    <3> QED BY <3>1, <3>2, <2>1 DEF Typed, Runs
  <2> QED BY <2>2, <2>3, <2>4, GoroutineFrame DEF Typed
<1>5. objects' \in [Names -> {NoObject} \cup Stored]
  <2>1. CASE UNCHANGED objects BY <2>1 DEF Typed
  <2>2. CASE DeployNext \/ CreateHTTPRoute \/ CreateClient
    <3>1. \E name \in Names : Put(name)
      BY <2>2, HeadIsVariant DEF CreateHTTPRoute, CreateClient, Names
    <3> QED BY <3>1, PutTyped
  <2>3. CASE DeleteLeftover
    <3>1. \/ objects' = objects
          \/ /\ objects["client"] # NoObject
             /\ \/ objects' = [objects EXCEPT !["client"] = [@ EXCEPT !.going = TRUE]]
                \/ objects' = [objects EXCEPT !["client"] = NoObject]
      BY <2>3 DEF DeleteLeftover
    <3>2. objects["client"] # NoObject =>
             [objects["client"] EXCEPT !.going = TRUE] \in Stored
      BY ObjectTyped DEF Stored, Names
    <3> QED BY <3>1, <3>2 DEF Typed
  <2> QED BY <2>1, <2>2, <2>3, GoroutineFrame
<1> QED BY <1>1, <1>2, <1>3, <1>4, <1>5 DEF Typed

UI == [state : Screens, policy : Policies, override : Modes \cup {NoMode}, mesh : Mesh,
       exists : BOOLEAN, labels : SUBSET (MeshLabels \cup {Managed}),
       result : Results \cup {NoResult}]

Cmd == [n : 1..Len(Commands), tui : BOOLEAN, keep : BOOLEAN, policy : Policies,
        override : Modes \cup {NoMode}, image : {"old", "new"}]

LEMMA WindowTyped ==
    ASSUME NEW c, c.policy \in Policies, c.override \in Modes \cup {NoMode}
    PROVE  Window(c) \in UI
BY DEF Window, UI, Screens, Mesh

LEMMA StartTyped == Start \in Runs /\ Start.pc = "connect" /\ Start # Idle
BY DEF Start, Runs, Before, Idle

LEMMA OpenTyped == Open \in [steps : 0..StepBuffer, result : Results \cup {NoResult},
                             resultClosed : BOOLEAN, stepsClosed : BOOLEAN]
BY VerifyAssumption DEF Open, VerifyAssumption

\* A command line becomes the command, its interface, and the run of a plain one.
LEMMA InvokeTyped ==
    ASSUME NEW n \in 1..Len(Commands), NEW c \in Commands[n]
    PROVE  c \in Command /\ Number(c, n) \in Cmd /\ Window(c) \in UI
<1>1. Commands[n] \subseteq Command
  BY VerifyAssumption DEF VerifyAssumption
<1>2. c \in Command
  BY <1>1
<1> QED BY <1>2, WindowTyped DEF Command, Number, Cmd

LEMMA InterfaceTyped ==
    ASSUME Typed, Standing, Channels, Interface
    PROVE  Typed'
<1>1. UNCHANGED <<mesh, ns, objects, moves>>
  BY InterfaceFrame DEF cluster
<1>2. ui \in UI /\ cmd \in Cmd /\ run \in Runs \cup {Idle}
  BY DEF Typed, UI, Cmd
<1> DEFINE Chan == [steps : 0..StepBuffer, result : Results \cup {NoResult},
                    resultClosed : BOOLEAN, stepsClosed : BOOLEAN]
<1>3. SUFFICES ui' \in UI /\ cmd' \in Cmd /\ run' \in Runs \cup {Idle} /\ chan' \in Chan
  BY <1>1 DEF Typed, UI, Cmd
<1>4. chan \in Chan /\ StepBuffer \in Nat
  BY VerifyAssumption DEF Typed, VerifyAssumption
<1>5. Window(cmd) \in UI
  BY <1>2, WindowTyped DEF Cmd
<1>6. CASE NextCommand
  <2>1. PICK n \in 1..Len(Commands) : \E c \in Commands[n] : Invoke(c, n)
    <3>1. Len(Commands) \in Nat
      BY VerifyAssumption DEF VerifyAssumption
    <3> QED BY <1>2, <1>6, <3>1 DEF NextCommand, Cmd
  <2> QED BY <2>1, InvokeTyped, StartTyped, OpenTyped DEF Invoke
<1>7. CASE PickContext BY <1>2, <1>4, <1>7 DEF PickContext, Show, UI, Screens
<1>8. ASSUME NEW override \in Modes \cup {NoMode}, NEW policy \in Policies,
             StartVerification(override, policy)
      PROVE  ui' \in UI /\ run' \in Runs \cup {Idle}
  BY <1>5, <1>8, StartTyped DEF StartVerification, UI, Screens
<1>9. ASSUME NEW next \in UI, Advance(next)
      PROVE  ui' \in UI /\ run' \in Runs \cup {Idle}
  BY <1>2, <1>8, <1>9 DEF Advance, UI, Screens
<1>10. CASE Inspected
  <2>1. PICK m \in DetectMesh :
           LET seen == [ui EXCEPT !.mesh = Override(m, cmd.override), !.exists = Exists,
                                  !.labels = ns.labels]
           IN  IF m.istio THEN ui' = [seen EXCEPT !.state = "modePicking"] /\ UNCHANGED run
               ELSE Advance(seen)
    BY <1>10 DEF Inspected
  <2> DEFINE seen == [ui EXCEPT !.mesh = Override(m, cmd.override), !.exists = Exists,
                                !.labels = ns.labels]
  <2>2. Override(m, cmd.override) \in Mesh
    BY <1>2, DetectedMesh, MeshAsked DEF Cmd
  <2>3. seen \in UI
    BY <1>2, <2>2 DEF UI, Exists, Typed
  <2>4. ASSUME m.istio PROVE ui' \in UI /\ run' \in Runs \cup {Idle}
    <3>1. ui' = [seen EXCEPT !.state = "modePicking"] /\ UNCHANGED run
      BY <2>1, <2>4
    <3> HIDE DEF seen
    <3> QED BY <1>2, <2>3, <3>1 DEF UI, Screens
  <2>5. UNCHANGED <<cmd, chan>>
    BY <1>10 DEF Inspected
  <2> QED BY <1>2, <1>4, <1>9, <2>1, <2>3, <2>4, <2>5
<1>11. CASE InspectionFailed
  <2>1. [outcome |-> "error", cases |-> NoObject] \in Results
    BY DEF Results, Outcomes
  <2> QED BY <1>2, <1>4, <1>11, <2>1 DEF InspectionFailed, UI, Screens
<1>12. CASE \E mode \in Modes \cup {NoMode} : PickMode(mode)
  <2>1. PICK mode \in Modes \cup {NoMode} : PickMode(mode)
    BY <1>12
  <2>2. Override(ui.mesh, mode) \in Mesh
    BY <1>2, MeshAsked DEF UI
  <2>3. [ui EXCEPT !.override = mode, !.mesh = Override(@, mode)] \in UI
    BY <1>2, <2>2 DEF UI
  <2> QED BY <1>2, <1>4, <1>9, <2>1, <2>3 DEF PickMode
<1>13. CASE \E policy \in {"delete", "patch"} : Consent(policy)
  BY <1>2, <1>4, <1>8, <1>13 DEF Consent, Policies, UI
<1>14. CASE Quit
  <2>1. run' \in Runs \cup {Idle}
    BY <1>2, <1>14, RunningPc DEF Quit, Channels, Runs
  <2> QED BY <1>2, <1>4, <1>14, <2>1 DEF Quit, Show, UI, Screens
<1>15. CASE ReadStep BY <1>2, <1>4, <1>15 DEF ReadStep
<1>16. CASE ReadResult BY <1>2, <1>4, <1>16 DEF ReadResult, UI, Screens
<1>17. CASE ProcessExits
  BY <1>2, <1>5, <1>17, OpenTyped DEF ProcessExits, UI, Screens
<1> QED
  BY <1>6, <1>7, <1>10, <1>11, <1>12, <1>13, <1>14, <1>15, <1>16, <1>17 DEF Interface

LEMMA ClusterTyped ==
    ASSUME Typed, Standing, Cluster
    PROVE  Typed'
<1>1. UNCHANGED <<mesh, cmd, ui, run, chan>>
  BY ClusterFrame
<1>2. Labelings \subseteq SUBSET MeshLabels /\ MaxMoves \in Nat /\ Len(Commands) \in Nat
  BY VerifyAssumption DEF VerifyAssumption, MeshLabels
<1>3. CASE DeploymentStarts \/ MeshJudges
  <2>1. PICK name \in Names, state \in States : Becomes(name, state)
    BY <1>3 DEF DeploymentStarts, MeshJudges, Names, States
  <2>2. [objects[name] EXCEPT !.state = state] \in Stored
    BY <2>1 DEF Becomes, Typed, Stored
  <2> QED BY <1>1, <2>1, <2>2 DEF Becomes, Typed
<1>4. CASE \E state \in {"passed", "failed"} : ClientEnds(state)
  <2>1. PICK state \in {"passed", "failed"} : ClientEnds(state)
    BY <1>4
  <2> DEFINE images == UNION {objects[v].images : v \in {w \in Variants : objects[w] # NoObject}}
  <2>2. images \subseteq {"old", "new"}
    BY DEF Typed, Stored, Names
  <2>3. [objects["client"] EXCEPT !.state = state, !.images = images] \in Stored
    <3>1. objects["client"] \in Stored
      BY <2>1, ObjectTyped DEF ClientEnds, Names
    <3> HIDE DEF images
    <3> QED BY <2>2, <3>1 DEF Stored, States
  <2>4. objects' = [objects EXCEPT !["client"] =
                       [objects["client"] EXCEPT !.state = state, !.images = images]]
    BY <2>1 DEF ClientEnds, Typed, Names
  <2>5. UNCHANGED <<mesh, ns, cmd, ui, run, chan, moves>>
    BY <2>1 DEF ClientEnds
  <2>6. objects' \in [Names -> {NoObject} \cup Stored]
    <3>1. PICK pod \in Stored : objects' = [objects EXCEPT !["client"] = pod]
      BY <2>3, <2>4
    <3> QED BY <3>1 DEF Typed
  <2> QED BY <2>5, <2>6 DEF Typed
<1>5. CASE \E names \in {Variants, {"route"}, {"client"}} : Collect(names)
  BY <1>1, <1>5 DEF Collect, Typed
<1>6. CASE NamespaceEnds
  BY <1>1, <1>2, <1>6 DEF NamespaceEnds, Absent, Typed
<1>7. CASE \E labels \in Labelings : UserCreates(labels) \/ UserLabels(labels)
  <2>1. PICK labels \in SUBSET MeshLabels : UserCreates(labels) \/ UserLabels(labels)
    BY <1>2, <1>7
  <2> QED BY <1>1, <1>2, <2>1 DEF UserCreates, UserLabels, Typed
<1> QED BY <1>3, <1>4, <1>5, <1>6, <1>7 DEF Cluster

-----------------------------------------------------------------------------
(* The parts of the invariant. *)

\* The goroutine never makes a namespace go at once.
LEMMA NamespaceStays == ASSUME Typed, Goroutine, Exists PROVE Exists'
<1>1. CASE PatchLabels BY <1>1 DEF PatchLabels, Exists, Typed
<1>2. CASE DeleteExisting \/ Cleanup
  BY <1>2 DEF DeleteExisting, Cleanup, Terminate, Exists, Typed
<1>3. CASE CreateNamespace BY <1>3 DEF CreateNamespace, Exists
<1> QED BY <1>1, <1>2, <1>3, GoroutineFrame DEF Exists

LEMMA GoroutineStanding == ASSUME Typed, Standing, Goroutine PROVE Standing'
<1>1. CASE UNCHANGED objects
  BY <1>1, NamespaceStays DEF Standing
<1>2. CASE DeployNext \/ CreateHTTPRoute \/ CreateClient
  <2>1. PICK name \in Names : Put(name)
    BY <1>2, HeadIsVariant DEF CreateHTTPRoute, CreateClient, Names
  <2>2. /\ objects' = objects \/ objects' = [objects EXCEPT ![name] = Object(cmd.n, {cmd.image})]
        /\ objects[name] = NoObject => ns.phase = "active"
        /\ UNCHANGED ns
    BY <2>1, PutTyped
  <2>3. objects[name] = NoObject => Exists
    BY <2>2 DEF Exists
  <2>4. Exists' <=> Exists
    BY <2>2 DEF Exists
  <2>5. CASE objects' = objects BY <2>4, <2>5 DEF Standing
  <2>6. CASE objects' = [objects EXCEPT ![name] = Object(cmd.n, {cmd.image})]
    <3>1. ASSUME NEW m \in Names, m # name PROVE objects'[m] = objects[m]
      BY <2>6, <3>1 DEF Typed
    <3>2. objects'[name] = Object(cmd.n, {cmd.image})
      BY <2>6 DEF Typed
    <3>3. objects'[name].going = FALSE /\ objects'[name].state = "new"
      BY <3>2 DEF Object
    <3>4. Exists
      BY <2>3 DEF Standing
    <3> QED BY <2>4, <3>1, <3>3, <3>4 DEF Standing
  <2> QED BY <2>2, <2>5, <2>6
<1>3. CASE DeleteLeftover
  <2>1. \/ objects' = objects
        \/ /\ objects["client"] # NoObject
           /\ \/ objects' = [objects EXCEPT !["client"] = [@ EXCEPT !.going = TRUE]]
              \/ objects' = [objects EXCEPT !["client"] = NoObject]
    BY <1>3 DEF DeleteLeftover
  <2>2. UNCHANGED ns
    BY <1>3 DEF DeleteLeftover
  <2>3. CASE objects' = [objects EXCEPT !["client"] = [@ EXCEPT !.going = TRUE]]
             /\ objects["client"] # NoObject
    <3>1. objects'["client"].state = objects["client"].state
      BY <2>3, ObjectTyped DEF Typed, Stored, Names
    <3> QED BY <2>2, <2>3, <3>1 DEF Standing, Exists, Typed, Names
  <2> QED BY <2>1, <2>2, <2>3 DEF Standing, Exists, Typed
<1> QED BY <1>1, <1>2, <1>3, GoroutineFrame

LEMMA InterfaceStanding == ASSUME Standing, Interface PROVE Standing'
BY InterfaceFrame DEF cluster, Standing, Exists

LEMMA ClusterStanding == ASSUME Typed, Standing, Cluster PROVE Standing'
<1>1. CASE DeploymentStarts
  <2>1. PICK v \in Variants : Becomes(v, "ready") BY <1>1 DEF DeploymentStarts
  <2>2. v \in Names BY DEF Names
  <2>3. objects[v] \in Stored BY <2>1, <2>2, ObjectTyped DEF Becomes
  <2>4. /\ objects'[v].going = objects[v].going /\ objects'[v].state = "ready"
        /\ \A name \in Names \ {v} : objects'[name] = objects[name]
    BY <2>1, <2>2, <2>3 DEF Becomes, Typed, Stored
  <2> QED BY <2>1, <2>4 DEF Becomes, Standing, Exists
<1>2. CASE MeshJudges
  <2>1. PICK state \in {"accepted", "rejected"} : Becomes("route", state) BY <1>2 DEF MeshJudges
  <2>2. "route" \in Names BY DEF Names
  <2>3. objects["route"] \in Stored BY <2>1, <2>2, ObjectTyped DEF Becomes
  <2>4. /\ objects'["route"].going = objects["route"].going /\ objects'["route"].state = state
        /\ \A name \in Names \ {"route"} : objects'[name] = objects[name]
    BY <2>1, <2>2, <2>3 DEF Becomes, Typed, Stored
  <2> QED BY <2>1, <2>4 DEF Becomes, Standing, Exists, Variants
<1>3. CASE \E state \in {"passed", "failed"} : ClientEnds(state)
  <2>1. PICK state \in {"passed", "failed"} : ClientEnds(state) BY <1>3
  <2>2. "client" \in Names BY DEF Names
  <2>3. objects["client"] \in Stored BY <2>1, <2>2, ObjectTyped DEF ClientEnds
  <2>4. /\ objects'["client"].state = state
        /\ \A name \in Names \ {"client"} : objects'[name] = objects[name]
    BY <2>1, <2>2, <2>3 DEF ClientEnds, Typed, Stored
  <2>5. objects["client"] # NoObject /\ UNCHANGED ns
    BY <2>1 DEF ClientEnds
  <2> QED BY <2>2, <2>4, <2>5 DEF Standing, Exists, Variants
<1>4. CASE \E names \in {Variants, {"route"}, {"client"}} : Collect(names)
  BY <1>4 DEF Collect, Standing, Exists
<1>5. CASE NamespaceEnds
  BY <1>5 DEF NamespaceEnds, Standing
<1>6. CASE \E labels \in Labelings : UserCreates(labels) \/ UserLabels(labels)
  <2>1. UNCHANGED objects /\ Exists'
    BY <1>6 DEF UserCreates, UserLabels, Exists, Typed
  <2> QED BY <2>1 DEF Standing
<1> QED BY <1>1, <1>2, <1>3, <1>4, <1>5, <1>6 DEF Cluster

\* The interface starts a goroutine, cancels it, or ends the process that it lives in.
LEMMA InterfaceRun ==
    ASSUME Channels, Interface
    PROVE  \/ UNCHANGED run
           \/ run' = Idle
           \/ run' = Start
           \/ Running /\ run' = [run EXCEPT !.cancelled = TRUE] /\ Quit
BY DEF Interface, NextCommand, Invoke, PickContext, Inspected, Advance, StartVerification,
       InspectionFailed, PickMode, Consent, Quit, ReadStep, ReadResult, ProcessExits, Channels

LEMMA InterfaceFlow == ASSUME Typed, Flow, Channels, Interface PROVE Flow'
<1>1. CASE UNCHANGED run BY <1>1 DEF Flow, Running
<1>2. CASE run' = Idle BY <1>2 DEF Flow, Running
<1>3. CASE run' = Start BY <1>3 DEF Flow, Start, Ends
<1>4. CASE Running /\ run' = [run EXCEPT !.cancelled = TRUE]
  <2>1. run \in Runs BY <1>4, RunningPc
  <2> QED BY <1>4, <2>1 DEF Flow, Runs
<1> QED BY <1>1, <1>2, <1>3, <1>4, InterfaceRun

LEMMA GoroutineRuns == ASSUME Typed, Goroutine PROVE Running /\ run \in Runs
BY RunningPc DEF Goroutine, Call, Go, Connect, Detect, ReadNamespace, PatchLabels,
   DeleteExisting, NamespaceGone, CreateNamespace, EarlyReturn, DeployNext, DeploymentReady,
   CreateHTTPRoute, ReadAccepted, DeleteLeftover, CreateClient, ClientEnded, ReadLogs,
   ProbeError, NoController, TrafficError, Cleanup, Report, CloseResult, CloseSteps

LEMMA GoroutineFlow == ASSUME Typed, Standing, Flow, Goroutine PROVE Flow'
<1>1. Running /\ run \in Runs
  BY GoroutineRuns
<1>2. CASE run'.pc \in (Before \cup Probing) \ {"cleanup", "leftover", "spawn", "finish", "logs"}
  <2>1. run'.cases = NoObject
    BY <1>1, <1>2 DEF Runs, Flow, Before, Probing, Ends, Goroutine, Call, Go, Connect, Detect,
       ReadNamespace, PatchLabels, DeleteExisting, NamespaceGone, CreateNamespace, EarlyReturn,
       DeployNext, DeploymentReady, CreateHTTPRoute, ReadAccepted, DeleteLeftover,
       CreateClient, ClientEnded, ReadLogs, ProbeError, NoController, TrafficError, Cleanup,
       Report, CloseResult, CloseSteps
  <2> QED BY <1>2, <2>1 DEF Flow, Before, Probing, Ends
<1>3. CASE ReadNamespace \/ EarlyReturn
  <2>1. /\ run'.cases = run.cases
        /\ run'.pc \in Ends => run'.outcome = "error"
        /\ run'.pc \notin {"leftover", "spawn", "finish", "logs", "cleanup"}
        /\ run.pc \in Before
    BY <1>1, <1>3 DEF ReadNamespace, EarlyReturn, Call, Runs, Before, Ends
  <2> QED BY <1>1, <2>1 DEF Flow, Outcomes, Before, Probing, Ends
<1>4. CASE ReadAccepted
  <2>1. /\ run'.cases = run.cases /\ run.pc = "accept"
        /\ run'.outcome = objects["route"].state
        /\ run'.pc = IF objects["route"].state = "accepted" THEN "leftover" ELSE "cleanup"
    BY <1>1, <1>4 DEF ReadAccepted, Call, Runs
  <2>2. objects["route"].state \in {"accepted", "rejected"}
    BY <1>4 DEF ReadAccepted, Standing, Names, Variants
  <2> QED BY <1>1, <2>1, <2>2 DEF Flow, Outcomes, Ends
<1>5. CASE DeleteLeftover \/ CreateClient \/ ClientEnded \/ TrafficError
  <2>1. /\ run'.cases = run.cases /\ run'.outcome = run.outcome
        /\ run.pc \in {"leftover", "spawn", "finish", "logs"}
        /\ run'.pc \in {"spawn", "finish", "logs", "cleanup"}
    BY <1>1, <1>5
       DEF DeleteLeftover, CreateClient, ClientEnded, TrafficError, Call, Go, Runs
  <2> QED BY <1>1, <2>1 DEF Flow, Outcomes, Ends
<1>6. CASE ReadLogs
  <2>1. run'.outcome = run.outcome /\ run.pc = "logs" /\ run'.pc = "cleanup"
    BY <1>1, <1>6 DEF ReadLogs, Call, Runs
  <2> QED BY <1>1, <2>1 DEF Flow, Outcomes, Ends
<1>7. CASE ProbeError \/ NoController
  <2>1. /\ run'.cases = run.cases /\ run'.outcome \in Outcomes
        /\ run.pc \in {"deploy", "ready-a", "ready-b", "route", "accept"} /\ run'.pc = "cleanup"
    BY <1>1, <1>7 DEF ProbeError, NoController, Runs, Outcomes
  <2> QED BY <1>1, <2>1 DEF Flow, Ends
<1>8. CASE Cleanup \/ Report \/ CloseResult \/ CloseSteps
  <2>1. /\ run'.cases = run.cases /\ run'.outcome = run.outcome
        /\ run.pc \in {"cleanup"} \cup Ends /\ run'.pc \in Ends
    BY <1>1, <1>8 DEF Cleanup, Report, CloseResult, CloseSteps, Runs, Ends
  <2> QED BY <1>1, <2>1 DEF Flow, Ends
<1>9. CASE \/ Connect \/ Detect \/ PatchLabels \/ DeleteExisting \/ NamespaceGone
           \/ CreateNamespace \/ DeployNext \/ DeploymentReady \/ CreateHTTPRoute
  BY <1>1, <1>2, <1>9 DEF Connect, Detect, PatchLabels, DeleteExisting, NamespaceGone,
     CreateNamespace, DeployNext, DeploymentReady, CreateHTTPRoute, Go, Runs, Before, Probing
<1> QED BY <1>3, <1>4, <1>5, <1>6, <1>7, <1>8, <1>9 DEF Goroutine

LEMMA ClusterFlow == ASSUME Flow, Cluster PROVE Flow'
BY ClusterFrame DEF Flow, Running

-----------------------------------------------------------------------------
(* The channels. *)

LEMMA GoroutineChannels ==
    ASSUME Typed, Standing, Flow, Channels, Goroutine
    PROVE  Channels'
<1>1. Running /\ run \in Runs /\ UNCHANGED ui
  BY GoroutineRuns, GoroutineFrame
<1>2. run' \in Runs /\ Running'
  <2>1. run' \in Runs BY GoroutineRunTyped
  <2> QED BY <2>1 DEF Runs, Running, Idle
<1>3. CASE Report
  <2>1. /\ run.pc = "report" /\ run'.pc = "close"
        /\ run'.outcome = run.outcome /\ run'.cases = run.cases
        /\ chan'.result = Verdict
        /\ chan'.resultClosed = chan.resultClosed /\ chan'.stepsClosed = chan.stepsClosed
    BY <1>1, <1>3 DEF Report, Runs, Typed, Verdict
  <2> QED BY <1>1, <1>2, <2>1 DEF Channels, Verdict, Ends
<1>4. CASE CloseResult
  <2>1. /\ run.pc = "close" /\ run'.pc = "close-steps"
        /\ run'.outcome = run.outcome /\ run'.cases = run.cases
        /\ chan'.result = chan.result /\ chan'.resultClosed /\ chan'.stepsClosed = chan.stepsClosed
    BY <1>1, <1>4 DEF CloseResult, Runs, Typed
  <2> QED BY <1>1, <1>2, <2>1 DEF Channels, Verdict, Ends
<1>5. CASE CloseSteps
  <2>1. /\ run.pc = "close-steps" /\ run'.pc = "over"
        /\ run'.outcome = run.outcome /\ run'.cases = run.cases
        /\ chan'.result = chan.result /\ chan'.stepsClosed /\ chan'.resultClosed = chan.resultClosed
    BY <1>1, <1>5 DEF CloseSteps, Runs, Typed
  <2> QED BY <1>1, <1>2, <2>1 DEF Channels, Verdict, Ends
<1>6. CASE ~(Report \/ CloseResult \/ CloseSteps)
  <2>1. Send
    BY <1>6, GoroutineSends
  <2>2. /\ chan'.result = chan.result
        /\ chan'.resultClosed = chan.resultClosed /\ chan'.stepsClosed = chan.stepsClosed
    BY <2>1 DEF Send, Typed
  <2>3. run.pc \notin Ends \ {"report"} /\ run'.pc \notin Ends \ {"report"}
    BY <1>1, <1>6 DEF Goroutine, Call, Go, Connect, Detect, ReadNamespace, PatchLabels,
       DeleteExisting, NamespaceGone, CreateNamespace, EarlyReturn, DeployNext, DeploymentReady,
       CreateHTTPRoute, ReadAccepted, DeleteLeftover, CreateClient, ClientEnded, ReadLogs,
       ProbeError, NoController, TrafficError, Cleanup, Ends, Runs
  <2> QED BY <1>1, <1>2, <2>2, <2>3 DEF Channels, Ends
<1> QED BY <1>3, <1>4, <1>5, <1>6

LEMMA InterfaceChannels ==
    ASSUME Typed, Flow, Channels, Interface
    PROVE  Channels'
<1>1. Running <=> run \in Runs
  BY RunningPc
<1>2. NoResult \notin Results
  BY NullAssumption DEF NullAssumption
<1>3. run \in Runs /\ run.pc \in Ends => Verdict \in Results
  BY <1>1 DEF Flow, Verdict, Results, Runs
<1>4. ASSUME run' = Start, UNCHANGED chan, ~Running, ui'.state = "running"
      PROVE  Channels'
  BY <1>4, StartTyped DEF Channels, Open, Running, Start, Ends
<1>5. Window(cmd).state \in {"picking", "running"}
  BY DEF Window
<1>6. CASE NextCommand
  <2>1. PICK c : Invoke(c, cmd.n + 1)
    BY <1>6 DEF NextCommand
  <2>2. CASE c.tui
    <3>1. ui'.state = "picking" /\ run' = Idle /\ chan' = Open
      BY <2>1, <2>2 DEF Invoke, Window
    <3> QED BY <3>1 DEF Channels, Running
  <2>3. CASE ~c.tui
    <3>1. ui'.state = "running" /\ run' = Start /\ chan' = Open
      BY <2>1, <2>3 DEF Invoke, Window
    <3> QED BY <3>1, StartTyped DEF Channels, Open, Running, Start, Ends
  <2> QED BY <2>2, <2>3
<1>7. CASE PickContext
  <2>1. ui.state = "picking" /\ ui'.state = "inspecting" /\ UNCHANGED <<run, chan>>
    BY <1>7 DEF PickContext, Show, Typed
  <2> QED BY <2>1 DEF Channels, Running
<1>8. ASSUME NEW override, NEW policy, ~Running, UNCHANGED chan,
             StartVerification(override, policy)
      PROVE  Channels'
  <2>1. run' = Start /\ ui'.state = "running"
    BY <1>8 DEF StartVerification, Window
  <2> QED BY <1>4, <1>8, <2>1
<1>9. ASSUME NEW next \in UI, ~Running, UNCHANGED chan, Advance(next)
      PROVE  Channels'
  <2>1. CASE ui' = [next EXCEPT !.state = "nsConsent"] /\ UNCHANGED run
    BY <1>9, <2>1 DEF UI, Channels, Running
  <2> QED BY <1>8, <1>9, <2>1 DEF Advance
<1>10. CASE Inspected
  <2>1. ui.state = "inspecting" /\ UNCHANGED <<cmd, chan>> /\ ~Running
    BY <1>10 DEF Inspected, Channels
  <2>2. PICK m \in DetectMesh :
           LET seen == [ui EXCEPT !.mesh = Override(m, cmd.override), !.exists = Exists,
                                  !.labels = ns.labels]
           IN  IF m.istio THEN ui' = [seen EXCEPT !.state = "modePicking"] /\ UNCHANGED run
               ELSE Advance(seen)
    BY <1>10 DEF Inspected
  <2> DEFINE seen == [ui EXCEPT !.mesh = Override(m, cmd.override), !.exists = Exists,
                                !.labels = ns.labels]
  <2>3. Override(m, cmd.override) \in Mesh
    BY DetectedMesh, MeshAsked DEF Typed
  <2>4. seen \in UI
    BY <2>3 DEF UI, Exists, Typed
  <2>5. CASE m.istio
    <3>1. ui'.state = "modePicking" /\ UNCHANGED run
      BY <2>2, <2>4, <2>5 DEF UI
    <3> QED BY <2>1, <3>1 DEF Channels, Running
  <2> QED BY <1>9, <2>1, <2>2, <2>4, <2>5
<1>11. CASE InspectionFailed
  <2>1. /\ ui.state = "inspecting" /\ UNCHANGED <<run, chan>>
        /\ ui'.state = "done" /\ ui'.result = [outcome |-> "error", cases |-> NoObject]
    BY <1>11 DEF InspectionFailed, Typed
  <2>2. [outcome |-> "error", cases |-> NoObject] \in Results
    BY DEF Results, Outcomes
  <2> QED BY <1>2, <2>1, <2>2 DEF Channels, Running
<1>12. CASE \E mode \in Modes \cup {NoMode} : PickMode(mode)
  <2>1. PICK mode \in Modes \cup {NoMode} : PickMode(mode)
    BY <1>12
  <2>2. Override(ui.mesh, mode) \in Mesh
    BY MeshAsked DEF Typed
  <2>3. [ui EXCEPT !.override = mode, !.mesh = Override(@, mode)] \in UI
    BY <2>2 DEF UI, Typed
  <2> QED BY <1>9, <2>1, <2>3 DEF PickMode, Channels
<1>13. CASE \E policy \in {"delete", "patch"} : Consent(policy)
  BY <1>8, <1>13 DEF Consent, Channels
<1>14. CASE Quit
  <2>1. ui'.state = "exiting" /\ ui.state # "exit" /\ UNCHANGED chan
    BY <1>14 DEF Quit, Show, Typed
  <2>2. CASE UNCHANGED run BY <2>1, <2>2 DEF Channels, Running
  <2>3. CASE Running /\ run' = [run EXCEPT !.cancelled = TRUE]
    <3>1. run'.pc = run.pc /\ Running'
      BY <1>1, <2>3 DEF Runs, Running, Idle
    <3> QED BY <2>1, <2>3, <3>1 DEF Channels
  <2> QED BY <1>14, <2>2, <2>3 DEF Quit, Channels
<1>15. CASE ReadStep
  <2>1. /\ UNCHANGED <<ui, run>> /\ ui.state = "running" /\ chan'.result = chan.result
        /\ chan'.resultClosed = chan.resultClosed /\ chan'.stepsClosed = chan.stepsClosed
    BY <1>15 DEF ReadStep, Typed
  <2> QED BY <2>1 DEF Channels, Running, Verdict
<1>16. CASE ReadResult
  <2>1. /\ UNCHANGED run /\ ui.state = "running" /\ ui'.state = "done"
        /\ ui'.result = chan.result
        /\ chan'.resultClosed = chan.resultClosed /\ chan'.stepsClosed = chan.stepsClosed
    BY <1>16 DEF ReadResult, Typed
  <2>2. chan.result # NoResult \/ run.pc \in {"close-steps", "over"}
    BY <1>16 DEF ReadResult, Channels
  <2>3. Running /\ run.pc \in Ends \ {"report"} /\ chan.result = Verdict
    BY <2>1, <2>2 DEF Channels, Ends
  <2>4. Verdict # NoResult
    BY <1>1, <1>2, <1>3, <2>3
  <2> QED BY <2>1, <2>3, <2>4 DEF Channels, Running, Verdict
<1>17. CASE ProcessExits
  <2>1. ui'.state = "exit" /\ run' = Idle /\ chan' = Open
    BY <1>17 DEF ProcessExits, Window
  <2> QED BY <2>1 DEF Channels, Running
<1> QED
  BY <1>6, <1>7, <1>10, <1>11, <1>12, <1>13, <1>14, <1>15, <1>16, <1>17 DEF Interface

LEMMA ClusterChannels == ASSUME Channels, Cluster PROVE Channels'
BY ClusterFrame DEF Channels, Running, Verdict

-----------------------------------------------------------------------------
(* Consent. *)

\* A policy is chosen before there is a run.
LEMMA PolicyStays ==
    ASSUME Typed, Channels, Interface, Running, Running'
    PROVE  ui'.policy = ui.policy \/ run' = Start
BY DEF Interface, NextCommand, Invoke, PickContext, Show, Inspected, InspectionFailed, PickMode,
       Consent, Quit, ReadStep, ReadResult, ProcessExits, Channels, Typed, Running

LEMMA InterfaceAllowed == ASSUME Typed, Channels, Allowed, Interface PROVE Allowed'
<1>1. CASE run' = Start BY <1>1 DEF Allowed, Start
<1>2. CASE Running /\ Running' /\ run' # Start
  <2>1. run' = run \/ run' = [run EXCEPT !.cancelled = TRUE]
    BY <1>2, InterfaceRun DEF Running
  <2>2. run'.pc = run.pc /\ run'.labels = run.labels
    BY <1>2, <2>1, RunningPc DEF Runs
  <2> QED BY <1>2, <2>2, PolicyStays DEF Allowed
<1>3. CASE ~Running'
  BY <1>3 DEF Allowed
<1> QED BY <1>1, <1>2, <1>3, InterfaceRun DEF Running

LEMMA GoroutineAllowed == ASSUME Typed, Allowed, Goroutine PROVE Allowed'
<1>1. Running /\ run \in Runs /\ UNCHANGED ui
  BY GoroutineRuns, GoroutineFrame
<1>2. CASE ReadNamespace
  <2> DEFINE missing == run.labels \ ns.labels
             add     == missing \cup ({Managed} \ ns.labels)
             next    == IF ~Exists THEN "create"
                        ELSE IF add = {} THEN "deploy"
                        ELSE IF missing = {} \/ ui.policy = "patch" THEN "patch"
                        ELSE IF ui.policy = "delete" THEN "delete"
                        ELSE "report"
  <2>1. run'.pc = next /\ (next = "patch" => run'.labels = add)
    BY <1>1, <1>2 DEF ReadNamespace, Runs
  <2>2. missing = {} => add \cap MeshLabels = {}
    BY DEF Managed, MeshLabels, Modes
  <2>3. next = "patch" => missing = {} \/ ui.policy = "patch"
    OBVIOUS
  <2>4. next = "delete" => ui.policy = "delete"
    OBVIOUS
  <2> QED BY <1>1, <2>1, <2>2, <2>3, <2>4 DEF Allowed
<1>3. CASE ~ReadNamespace
  <2>1. run'.pc \notin {"patch", "delete"}
    BY <1>1, <1>3 DEF Goroutine, Go, Connect, Detect, PatchLabels,
       DeleteExisting, NamespaceGone, CreateNamespace, EarlyReturn, DeployNext, DeploymentReady,
       CreateHTTPRoute, ReadAccepted, DeleteLeftover, CreateClient, ClientEnded, ReadLogs,
       ProbeError, NoController, TrafficError, Cleanup, Report, CloseResult, CloseSteps, Runs
  <2> QED BY <2>1 DEF Allowed
<1> QED BY <1>2, <1>3

LEMMA ClusterAllowed == ASSUME Allowed, Cluster PROVE Allowed'
BY ClusterFrame DEF Allowed, Running

-----------------------------------------------------------------------------
(* Whose the namespace is. *)

LEMMA GoroutineOwned == ASSUME Typed, Standing, Channels, Owned, Goroutine PROVE Owned'
<1>1. Running /\ run \in Runs /\ UNCHANGED <<ui, cmd>>
  BY GoroutineRuns, GoroutineFrame
<1>2. Running' /\ run' \in Runs
  <2>1. run' \in Runs BY GoroutineRunTyped
  <2> QED BY <2>1 DEF Runs, Running, Idle
<1>3. ui.state # "exit" /\ cmd.n \in Nat /\ ns.by \in Nat
  BY <1>1 DEF Channels, Typed
<1>4. CASE CreateNamespace
  <2>1. run.pc = "create" /\ run'.pc = "deploy" /\ (ns' = ns \/ ns'.by = cmd.n)
    BY <1>1, <1>4 DEF CreateNamespace, Call, Runs
  <2> QED BY <1>1, <1>2, <1>3, <2>1 DEF Owned, Before, Ends
<1>5. CASE Cleanup
  <2>1. run.pc = "cleanup" /\ run'.pc = "report"
    BY <1>1, <1>5 DEF Cleanup, Runs
  <2>2. ns' = ns \/ ns' = [ns EXCEPT !.phase = "terminating"]
    BY <1>5 DEF Cleanup, Terminate
  <2>3. ns'.by = ns.by
    BY <2>2 DEF Typed
  <2>4. ~cmd.keep => run'.deleteFailed \/ ns'.phase # "active"
    BY <1>1, <1>5 DEF Cleanup, Terminate, Runs, Typed
  <2> QED BY <1>1, <1>2, <1>3, <2>1, <2>3, <2>4 DEF Owned, Before
<1>6. CASE PatchLabels \/ DeleteExisting
  <2>1. /\ run.pc \in Before /\ run'.pc \in {"deploy", "gone"} /\ ns'.by = ns.by
    BY <1>1, <1>6 DEF PatchLabels, DeleteExisting, Terminate, Go, Call, Runs, Typed, Before
  <2> QED BY <1>1, <1>2, <1>3, <2>1 DEF Owned, Ends
<1>7. CASE EarlyReturn
  <2>1. run.pc \in Before /\ run'.pc = "report" /\ UNCHANGED ns
    BY <1>1, <1>7 DEF EarlyReturn, cluster, Runs, Before
  <2> QED BY <1>1, <1>2, <1>3, <2>1 DEF Owned, Before
<1>8. CASE Report \/ CloseResult \/ CloseSteps
  <2>1. /\ run.pc \in Ends /\ run'.pc \in Ends /\ UNCHANGED ns
        /\ run'.deleteFailed = run.deleteFailed
    BY <1>1, <1>8 DEF Report, CloseResult, CloseSteps, cluster, Runs, Ends
  <2> QED BY <1>1, <1>2, <1>3, <2>1 DEF Owned, Before, Ends
<1>9. CASE Connect \/ Detect \/ ReadNamespace \/ NamespaceGone
  <2>1. run.pc \in Before /\ UNCHANGED ns
    BY <1>9 DEF Connect, Detect, ReadNamespace, NamespaceGone, Go, Call, cluster, Before
  <2>2. run'.pc = "report" => ns.by < cmd.n
    BY <1>1, <1>3, <2>1 DEF Owned
  <2>3. run'.pc \notin Ends \ {"report"}
    BY <1>1, <1>9 DEF Connect, Detect, ReadNamespace, NamespaceGone, Go, Runs, Ends
  <2> QED BY <1>1, <1>2, <1>3, <2>1, <2>2, <2>3 DEF Owned
<1>10. CASE \/ DeployNext \/ DeploymentReady \/ CreateHTTPRoute \/ ReadAccepted
            \/ DeleteLeftover \/ CreateClient \/ ClientEnded \/ ReadLogs \/ ProbeError
            \/ NoController \/ TrafficError
  <2>1. run'.pc \in Probing
    BY <1>1, <1>10 DEF DeployNext, DeploymentReady, CreateHTTPRoute, ReadAccepted,
       DeleteLeftover, CreateClient, ClientEnded, ReadLogs, ProbeError, NoController,
       TrafficError, Go, Runs, Probing
  <2>2. UNCHANGED ns
    BY <1>10, GoroutineFrame DEF DeployNext, DeploymentReady, CreateHTTPRoute, ReadAccepted,
       DeleteLeftover, CreateClient, ClientEnded, ReadLogs, ProbeError, NoController,
       TrafficError, Put, cluster
  <2> QED BY <1>1, <1>2, <1>3, <2>1, <2>2 DEF Owned, Probing, Before, Ends
<1> QED BY <1>4, <1>5, <1>6, <1>7, <1>8, <1>9, <1>10 DEF Goroutine

LEMMA InterfaceOwned == ASSUME Typed, Channels, Owned, Interface PROVE Owned'
<1>1. UNCHANGED ns /\ cmd.n \in Nat /\ ns.by \in Nat
  BY InterfaceFrame DEF cluster, Typed
<1>2. CASE NextCommand
  <2>1. ui.state = "exit" /\ cmd'.n = cmd.n + 1
    BY <1>2 DEF NextCommand, Invoke, Number
  <2>2. run'.pc \in {"none", "connect"}
    BY <1>2 DEF NextCommand, Invoke, Idle, Start
  <2> QED BY <1>1, <2>1, <2>2 DEF Owned, Ends
<1>3. CASE ~NextCommand
  <2>1. UNCHANGED cmd
    BY <1>3 DEF Interface, PickContext, Inspected, InspectionFailed, PickMode, Consent, Quit,
       ReadStep, ReadResult, ProcessExits
  <2>2. CASE UNCHANGED run
    <3>1. ui'.state # "exit" /\ ~Running => ui.state # "exit"
      BY <1>3, <2>2 DEF Interface, PickContext, Inspected, InspectionFailed, PickMode, Consent,
         Quit, ReadStep, ReadResult, ProcessExits
    <3>2. Running => ui.state # "exit"
      BY DEF Channels
    <3> QED BY <1>1, <2>1, <2>2, <3>1, <3>2 DEF Owned, Running
  <2>3. CASE ProcessExits
    <3>1. ui'.state = "exit" /\ ~Running'
      BY <2>3 DEF ProcessExits, Window, Running
    <3> QED BY <1>1, <2>1, <3>1 DEF Owned
  <2>4. CASE run' = Start /\ ~Running /\ ui.state # "exit"
    <3>1. run'.pc = "connect"
      BY <2>4, StartTyped
    <3> QED BY <1>1, <2>1, <2>4, <3>1 DEF Owned, Ends
  <2>5. CASE Running /\ run' = [run EXCEPT !.cancelled = TRUE]
    <3>1. /\ run'.pc = run.pc /\ run'.deleteFailed = run.deleteFailed /\ Running'
      BY <2>5, RunningPc DEF Runs, Running, Idle
    <3>2. ui.state # "exit"
      BY <2>5 DEF Channels
    <3> QED BY <1>1, <2>1, <2>5, <3>1, <3>2 DEF Owned
  <2>6. CASE Quit
    BY <2>2, <2>5, <2>6 DEF Quit, Channels
  <2>7. CASE PickContext \/ InspectionFailed \/ ReadStep \/ ReadResult
    BY <2>2, <2>7 DEF PickContext, InspectionFailed, ReadStep, ReadResult
  <2>8. CASE Inspected
    <3>1. ~Running /\ ui.state # "exit"
      BY <2>8 DEF Inspected, Channels
    <3>2. UNCHANGED run \/ run' = Start
      BY <2>8 DEF Inspected, Advance, StartVerification
    <3> QED BY <2>2, <2>4, <3>1, <3>2
  <2>9. CASE \E mode \in Modes \cup {NoMode} : PickMode(mode)
    <3>1. ~Running /\ ui.state # "exit"
      BY <2>9 DEF PickMode, Channels
    <3>2. UNCHANGED run \/ run' = Start
      BY <2>9 DEF PickMode, Advance, StartVerification
    <3> QED BY <2>2, <2>4, <3>1, <3>2
  <2>10. CASE \E policy \in {"delete", "patch"} : Consent(policy)
    BY <2>4, <2>10 DEF Consent, StartVerification, Channels
  <2> QED BY <1>3, <2>3, <2>6, <2>7, <2>8, <2>9, <2>10 DEF Interface
<1> QED BY <1>2, <1>3

LEMMA ClusterOwned == ASSUME Typed, Owned, Cluster PROVE Owned'
<1>1. UNCHANGED <<cmd, ui, run>> /\ cmd.n \in 1..Len(Commands)
  BY ClusterFrame DEF Typed
<1>2. /\ ns'.by = ns.by \/ ns'.by = 0
      /\ ns'.by = ns.by /\ ns'.phase = "active" /\ ns.by # 0 => ns.phase = "active"
  BY DEF Cluster, DeploymentStarts, MeshJudges, Becomes, ClientEnds, Collect, NamespaceEnds,
         UserCreates, UserLabels, Absent, Typed
<1> QED BY <1>1, <1>2 DEF Owned, Running, Typed

-----------------------------------------------------------------------------
(* Whose the objects are. *)

\* What Put leaves under each name.
LEMMA PutEffect ==
    ASSUME Typed, NEW name \in Names, Put(name), NEW m \in Names
    PROVE  \/ objects'[m] = objects[m]
           \/ objects[m] = NoObject /\ objects'[m] = Object(cmd.n, {cmd.image})
BY DEF Put, Typed

LEMMA PutOfThisCommand ==
    ASSUME Typed, OfThisCommand, NEW name \in Names, Put(name), UNCHANGED cmd
    PROVE  OfThisCommand'
<1>1. ASSUME NEW m \in Names
      PROVE  \/ objects'[m] = objects[m]
             \/ /\ objects'[m].by = cmd.n /\ objects'[m].images = {cmd.image}
                /\ objects'[m].state = "new"
  BY PutEffect DEF Object
<1> QED BY <1>1 DEF OfThisCommand, Names

LEMMA GoroutineOfThisCommand ==
    ASSUME Typed, OfThisCommand, Goroutine
    PROVE  OfThisCommand'
<1>1. UNCHANGED cmd
  BY GoroutineFrame
<1>2. CASE UNCHANGED objects
  BY <1>1, <1>2 DEF OfThisCommand
<1>3. CASE DeployNext \/ CreateHTTPRoute \/ CreateClient
  <2>1. PICK name \in Names : Put(name)
    BY <1>3, HeadIsVariant DEF CreateHTTPRoute, CreateClient, Names
  <2> QED BY <1>1, <2>1, PutOfThisCommand
<1>4. CASE DeleteLeftover
  <2>1. \/ objects' = objects
        \/ /\ objects["client"] # NoObject
           /\ \/ objects' = [objects EXCEPT !["client"] = [@ EXCEPT !.going = TRUE]]
              \/ objects' = [objects EXCEPT !["client"] = NoObject]
    BY <1>4 DEF DeleteLeftover
  <2>2. \A m \in Names \ {"client"} : objects'[m] = objects[m]
    BY <2>1 DEF Typed
  <2>3. objects'["client"] # NoObject =>
           /\ objects["client"] # NoObject
           /\ objects'["client"].by = objects["client"].by
           /\ objects'["client"].images = objects["client"].images
           /\ objects'["client"].state = objects["client"].state
    BY <2>1, ObjectTyped DEF Typed, Stored, Names
  <2> QED BY <1>1, <2>2, <2>3 DEF OfThisCommand, Names, Variants
<1> QED BY <1>2, <1>3, <1>4, GoroutineFrame

\* Two backends that are there, each with the image of this command, answer with it.
LEMMA ClusterOfThisCommand ==
    ASSUME Typed, OfThisCommand, Cluster
    PROVE  OfThisCommand'
<1>1. UNCHANGED cmd
  BY ClusterFrame
<1>2. CASE DeploymentStarts \/ MeshJudges
  <2>1. PICK name \in Names \ {"client"}, state \in States : Becomes(name, state)
    BY <1>2 DEF DeploymentStarts, MeshJudges, Names, Variants, States
  <2>2. /\ objects[name] # NoObject
        /\ objects'[name].by = objects[name].by /\ objects'[name].images = objects[name].images
        /\ \A m \in Names \ {name} : objects'[m] = objects[m]
    BY <2>1, ObjectTyped DEF Becomes, Typed, Stored
  <2> QED BY <1>1, <2>1, <2>2 DEF OfThisCommand, Names, Variants
<1>3. CASE \E state \in {"passed", "failed"} : ClientEnds(state)
  <2>1. PICK state \in {"passed", "failed"} : ClientEnds(state)
    BY <1>3
  <2> DEFINE images == UNION {objects[v].images : v \in {w \in Variants : objects[w] # NoObject}}
  <2>2. "client" \in Names /\ objects["client"] \in Stored
    BY <2>1, ObjectTyped DEF ClientEnds, Names
  <2>3. objects' = [objects EXCEPT !["client"] =
                       [objects["client"] EXCEPT !.state = state, !.images = images]]
    BY <2>1 DEF ClientEnds, Typed, Names
  <2>4. state = "passed" => images = {cmd.image}
    <3>1. state = "passed" => \A v \in Variants : objects[v] # NoObject
      BY <2>1 DEF ClientEnds, IsReady, Variants
    <3>2. \A v \in Variants : objects[v] # NoObject => objects[v].images = {cmd.image}
      BY DEF OfThisCommand
    <3>3. \E v \in Variants : TRUE
      BY DEF Variants
    <3> QED BY <3>1, <3>2, <3>3
  <2> HIDE DEF images
  <2>5. /\ objects'["client"].by = objects["client"].by
        /\ objects'["client"].images = images /\ objects'["client"].state = state
        /\ \A m \in Names \ {"client"} : objects'[m] = objects[m]
    BY <2>2, <2>3 DEF Typed, Stored
  <2>6. objects["client"] # NoObject
    BY <2>1 DEF ClientEnds
  <2> QED BY <1>1, <2>2, <2>4, <2>5, <2>6 DEF OfThisCommand, Names, Variants
<1>4. CASE \E names \in {Variants, {"route"}, {"client"}} : Collect(names)
  BY <1>1, <1>4 DEF Collect, OfThisCommand, Names
<1>5. CASE NamespaceEnds \/ \E labels \in Labelings : UserCreates(labels) \/ UserLabels(labels)
  BY <1>1, <1>5 DEF NamespaceEnds, UserCreates, UserLabels, OfThisCommand
<1> QED BY <1>2, <1>3, <1>4, <1>5 DEF Cluster

LEMMA GoroutineFresh == ASSUME Typed, Standing, Flow, Fresh, Goroutine PROVE Fresh'
<1>1. Running /\ run \in Runs /\ UNCHANGED cmd
  BY GoroutineRuns, GoroutineFrame
<1>2. CASE ReadNamespace
  <2>1. /\ run'.fresh = run.fresh /\ run'.cases = run.cases /\ UNCHANGED objects
        /\ run'.pc = "create" => ~Exists
    BY <1>1, <1>2 DEF ReadNamespace, cluster, Runs
  <2>2. ~Exists => OfThisCommand
    BY DEF Standing, OfThisCommand, Names
  <2>3. OfThisCommand' <=> OfThisCommand
    BY <1>1, <2>1 DEF OfThisCommand
  <2> QED BY <1>1, <2>1, <2>2, <2>3 DEF Fresh
<1>3. CASE NamespaceGone
  <2>1. /\ run'.fresh = run.fresh /\ run'.cases = run.cases /\ UNCHANGED objects /\ ~Exists
    BY <1>1, <1>3 DEF NamespaceGone, Go, Runs
  <2>2. OfThisCommand'
    BY <1>1, <2>1 DEF Standing, OfThisCommand, Names
  <2> QED BY <1>1, <2>1, <2>2 DEF Fresh
<1>4. CASE CreateNamespace
  <2>1. run.pc = "create" /\ run'.cases = run.cases /\ UNCHANGED objects /\ run'.pc = "deploy"
    BY <1>1, <1>4 DEF CreateNamespace, Call, Runs
  <2>2. OfThisCommand'
    BY <1>1, <2>1, GoroutineOfThisCommand DEF Fresh
  <2>3. run.cases = NoObject
    BY <1>1, <2>1 DEF Flow, Ends
  <2> QED BY <1>1, <2>1, <2>2, <2>3 DEF Fresh
<1>5. CASE ReadLogs
  <2>1. /\ run'.fresh = run.fresh /\ run'.cases = objects["client"] /\ run'.pc = "cleanup"
        /\ objects["client"] # NoObject
    BY <1>1, <1>5 DEF ReadLogs, Runs
  <2>2. run.fresh => OfThisCommand /\ OfThisCommand'
    BY <1>1, GoroutineOfThisCommand DEF Fresh
  <2>3. run.fresh => /\ objects["client"].by = cmd.n
                     /\ objects["client"].state = "passed" => objects["client"].images = {cmd.image}
    BY <2>1, <2>2 DEF OfThisCommand, Names
  <2> QED BY <1>1, <2>1, <2>2, <2>3 DEF Fresh
<1>6. CASE ~(ReadNamespace \/ NamespaceGone \/ CreateNamespace \/ ReadLogs)
  <2>1. run'.fresh = run.fresh /\ run'.cases = run.cases /\ run'.pc # "create"
    BY <1>1, <1>6 DEF Goroutine, Go, Connect, Detect, PatchLabels,
       DeleteExisting, EarlyReturn, DeployNext, DeploymentReady,
       CreateHTTPRoute, ReadAccepted, DeleteLeftover, CreateClient, ClientEnded,
       ProbeError, NoController, TrafficError, Cleanup, Report, CloseResult, CloseSteps, Runs
  <2>2. run.fresh => OfThisCommand'
    BY <1>1, GoroutineOfThisCommand DEF Fresh
  <2> QED BY <1>1, <2>1, <2>2 DEF Fresh
<1> QED BY <1>2, <1>3, <1>4, <1>5, <1>6

LEMMA InterfaceFresh == ASSUME Typed, Channels, Fresh, Interface PROVE Fresh'
<1>1. UNCHANGED objects
  BY InterfaceFrame DEF cluster
<1>2. Running /\ Running' => UNCHANGED cmd
  BY DEF Interface, NextCommand, PickContext, Inspected, InspectionFailed, PickMode, Consent,
     Quit, ReadStep, ReadResult, ProcessExits, Channels
<1>3. CASE run' = Start
  <2>1. run'.pc # "create" /\ ~run'.fresh
    BY <1>3 DEF Start
  <2> QED BY <2>1 DEF Fresh
<1>4. CASE Running /\ Running' /\ run' # Start
  <2>1. run' = run \/ run' = [run EXCEPT !.cancelled = TRUE]
    BY <1>4, InterfaceRun DEF Running
  <2>2. run'.pc = run.pc /\ run'.fresh = run.fresh /\ run'.cases = run.cases
    BY <1>4, <2>1, RunningPc DEF Runs
  <2> QED BY <1>1, <1>2, <1>4, <2>2 DEF Fresh, OfThisCommand
<1>5. CASE ~Running'
  BY <1>5 DEF Fresh
<1> QED BY <1>3, <1>4, <1>5, InterfaceRun DEF Running

LEMMA ClusterFresh == ASSUME Typed, Fresh, Cluster PROVE Fresh'
<1>1. UNCHANGED <<cmd, run>>
  BY ClusterFrame
<1> QED BY <1>1, ClusterOfThisCommand DEF Fresh, Running

-----------------------------------------------------------------------------
(* The invariant, and what follows. *)

LEMMA InitInv == Init => Inv
<1> SUFFICES ASSUME Init PROVE Inv
  OBVIOUS
<1>1. Len(Commands) \in Nat /\ 1 \in 1..Len(Commands)
  <2>1. Commands \in Seq(SUBSET Command) /\ Commands # <<>>
    BY VerifyAssumption DEF VerifyAssumption
  <2> QED BY <2>1, EmptySeq
<1>2. PICK c \in Commands[1] :
         /\ cmd = Number(c, 1) /\ ui = Window(c) /\ chan = Open
         /\ run = IF c.tui THEN Idle ELSE Start
  BY DEF Init
<1>3. c \in Command /\ cmd \in Cmd /\ ui \in UI
  BY <1>1, <1>2, InvokeTyped
<1>4. /\ run \in Runs \cup {Idle} /\ (Running <=> run = Start) /\ (Running <=> ~c.tui)
      /\ Start.pc = "connect" /\ ~Start.fresh /\ Start.cases = NoObject
      /\ ui.state = IF c.tui THEN "picking" ELSE "running"
      /\ cmd.n = 1
  BY <1>2, <1>3, StartTyped DEF Running, Command, Window, Start, Number
<1>5. /\ mesh \in Mesh /\ mesh \in Meshes /\ moves = 0
      /\ ns.phase \in {"absent", "active"} /\ ns.by = 0
      /\ ns \in [phase : {"absent", "active", "terminating"}, by : 0..Len(Commands),
                 labels : SUBSET (MeshLabels \cup {Managed})]
      /\ objects = [name \in Names |-> NoObject]
  <2>1. Labelings \subseteq SUBSET MeshLabels
    BY VerifyAssumption DEF VerifyAssumption, MeshLabels
  <2> QED BY <1>1, <2>1, VerifyAssumption DEF Init, VerifyAssumption, Absent
<1>6. Typed
  BY <1>2, <1>3, <1>4, <1>5, OpenTyped, VerifyAssumption DEF Typed, Cmd, UI, VerifyAssumption
<1>7. Standing
  BY <1>5 DEF Standing
<1>8. Flow /\ Allowed /\ Fresh
  BY <1>4 DEF Flow, Allowed, Fresh, Ends
<1>9. Channels
  BY <1>2, <1>3, <1>4 DEF Channels, Open, Ends, Command
<1>10. Owned
  BY <1>4, <1>5 DEF Owned, Ends
<1> QED BY <1>6, <1>7, <1>8, <1>9, <1>10 DEF Inv

LEMMA NextInv == Inv /\ [Next]_vars => Inv'
<1> SUFFICES ASSUME Inv, [Next]_vars PROVE Inv'
  OBVIOUS
<1>1. Typed /\ Standing /\ Flow /\ Channels /\ Allowed /\ Owned /\ Fresh
  BY DEF Inv
<1>2. CASE Goroutine
  BY <1>1, <1>2, GoroutineTyped, GoroutineStanding, GoroutineFlow, GoroutineChannels,
     GoroutineAllowed, GoroutineOwned, GoroutineFresh DEF Inv
<1>3. CASE Interface
  BY <1>1, <1>3, InterfaceTyped, InterfaceStanding, InterfaceFlow, InterfaceChannels,
     InterfaceAllowed, InterfaceOwned, InterfaceFresh DEF Inv
<1>4. CASE Cluster
  BY <1>1, <1>4, ClusterTyped, ClusterStanding, ClusterFlow, ClusterChannels, ClusterAllowed,
     ClusterOwned, ClusterFresh DEF Inv
<1>5. CASE UNCHANGED vars
  BY <1>1, <1>5 DEF vars, Inv, Typed, Standing, Flow, Channels, Allowed, Owned, Fresh,
     OfThisCommand, Exists, Running, Verdict
<1> QED BY <1>2, <1>3, <1>4, <1>5, NextIsOneOf

\* The invariant holds of every behaviour.
THEOREM InvHolds == Spec => []Inv
<1>1. Init => Inv BY InitInv
<1>2. Inv /\ [Next]_vars => Inv' BY NextInv
<1> QED BY <1>1, <1>2, PTL DEF Spec

\* Values stay what they are, objects stand in a namespace only, and the channel of the
\* steps is closed after the other (runner.go, verify.go, tui.go).
THEOREM TypesHold == Spec => []TypeOK
<1>1. Inv => TypeOK
  <2> SUFFICES ASSUME Inv PROVE TypeOK
    OBVIOUS
  <2>1. Typed /\ Standing /\ Channels
    BY DEF Inv
  <2>2. \A name \in Names : objects[name] # NoObject =>
          /\ Exists /\ objects[name].by \in 1..Len(Commands)
          /\ objects[name].images \subseteq {"old", "new"}
          /\ objects[name].going => name = "client"
    BY <2>1, ObjectTyped DEF Standing, Stored
  <2>3. chan.stepsClosed => chan.resultClosed
    BY <2>1 DEF Channels, Open
  <2>4. run.pc = "none" => ui.state # "running"
    BY <2>1, RunningPc DEF Channels
  <2> QED BY <2>1, <2>2, <2>3, <2>4 DEF TypeOK, Typed
<1> QED BY <1>1, InvHolds, PTL

\* Wherever a run fails, it ends with its namespace gone or going, or said to be kept.
THEOREM NothingIsLeftBehind == Spec => []NothingLeftBehind
<1>1. Inv => NothingLeftBehind
  BY RunningPc DEF Inv, Owned, NothingLeftBehind, Ends
<1> QED BY <1>1, InvHolds, PTL

\* Whichever of the two channels the interface hears of first, it shows the result of the
\* run, whatever the capacity of the channel of the steps.
THEOREM ResultIsAlwaysShown == Spec => []ResultIsShown
<1>1. Inv => ResultIsShown
  BY RunningPc DEF Inv, Channels, ResultIsShown, Verdict
<1> QED BY <1>1, InvHolds, PTL

\* A run that came to create its namespace judges its own backends, however many commands and
\* users were there before it. Nothing is said of a run that found its namespace.
THEOREM CreatorsJudgeTheirOwn == Spec => []VerdictIsFresh
<1>1. Inv => VerdictIsFresh
  BY RunningPc DEF Inv, Flow, Fresh, VerdictIsFresh
<1> QED BY <1>1, InvHolds, PTL

\* A user's namespace gets mesh labels, and is wiped before the probe, as the policy says
\* only. Nothing is said of the probe's own objects and of the clean-up after it.
THEOREM LabelsAndWipesNeedPolicy == Spec => ConsentGiven
<1> DEFINE Given ==
       ns.by = 0 /\ ns.phase = "active" /\ moves' = moves =>
          /\ (ns'.labels \ ns.labels) \cap MeshLabels # {} => ui.policy = "patch"
          /\ ns'.phase # "active" /\ run.pc # "cleanup" => ui.policy = "delete"
<1>1. Inv /\ [Next]_vars => [Given]_vars
  <2> SUFFICES ASSUME Inv, Next, ns.by = 0, ns.phase = "active", moves' = moves
               PROVE  /\ (ns'.labels \ ns.labels) \cap MeshLabels # {} => ui.policy = "patch"
                      /\ ns'.phase # "active" /\ run.pc # "cleanup" => ui.policy = "delete"
    OBVIOUS
  <2>1. Typed /\ Allowed
    BY DEF Inv
  <2>2. CASE UNCHANGED ns BY <2>2
  <2>3. CASE PatchLabels
    <3>1. /\ run.pc = "patch" /\ ns'.phase = ns.phase
          /\ ns'.labels = ns.labels \cup run.labels
      BY <2>1, <2>3 DEF PatchLabels, Call, Typed
    <3>2. Running
      BY <2>1, <3>1, RunningPc
    <3> QED BY <2>1, <3>1, <3>2 DEF Allowed
  <2>4. CASE DeleteExisting
    <3>1. run.pc = "delete" /\ ns'.labels = ns.labels
      BY <2>1, <2>4 DEF DeleteExisting, Call, Terminate, Typed
    <3>2. Running
      BY <2>1, <3>1, RunningPc
    <3> QED BY <2>1, <3>1, <3>2 DEF Allowed
  <2>5. CASE CreateNamespace
    BY <2>5 DEF CreateNamespace, Exists
  <2>6. CASE Cleanup
    BY <2>1, <2>6 DEF Cleanup, Terminate, Typed
  <2>7. CASE Interface
    BY <2>2, <2>7, InterfaceFrame DEF cluster
  <2>8. CASE Cluster
    <3>1. UNCHANGED ns
      BY <2>1, <2>8 DEF Cluster, DeploymentStarts, MeshJudges, Becomes, ClientEnds, Collect,
         NamespaceEnds, UserCreates, UserLabels, Typed
    <3> QED BY <2>2, <3>1
  <2> QED BY <2>2, <2>3, <2>4, <2>5, <2>6, <2>7, <2>8, GoroutineFrame, NextIsOneOf
<1> QED BY <1>1, InvHolds, PTL DEF Spec, ConsentGiven
=============================================================================

------------------------------- MODULE Verify -------------------------------
(***************************************************************************)
(* `route-prism verify` (internal/verify, internal/cmd/verify.go): the     *)
(* goroutine of Run with DeepProbe, the interface that starts it and       *)
(* listens to it, interactive or plain, and the namespace of the cluster   *)
(* both look at, through one command after another. Users label and create *)
(* the namespace meanwhile; the cluster runs what a probe deploys.         *)
(***************************************************************************)
EXTENDS Naturals, Sequences, FiniteSets

CONSTANTS
    Commands,   \* the command lines, records of options, there may be first, second, ...
    Meshes,     \* what mesh the cluster may have
    Labelings,  \* how users label a namespace
    NoMode,     \* no mesh mode: none detected, or none forced
    NoObject,
    NoResult,
    StepBuffer, \* capacity of the channel of progress events, 16 in the code
    MaxMoves    \* bound: what users do to the namespace

VARIABLES
    mesh,       \* what DetectMesh finds when every read works
    ns,         \* the namespace; by is the run that created it, 0 is a user
    objects,    \* what the probe deploys in it, by name
    cmd,        \* the options of the command
    ui,         \* the interface
    run,        \* the goroutine
    chan,       \* its two channels
    moves

vars    == <<mesh, ns, objects, cmd, ui, run, chan, moves>>
cluster == <<mesh, ns, objects>>

Modes    == {"ambient", "sidecar"}
Policies == {"abort", "delete", "patch"}
Mesh     == [istio : BOOLEAN, mode : Modes \cup {NoMode}]
Command  == [tui : BOOLEAN, keep : BOOLEAN, policy : Policies, override : Modes \cup {NoMode},
             image : {"old", "new"}]

ASSUME VerifyAssumption ==
    /\ Commands \in Seq(SUBSET Command) \ {<<>>}
    /\ Meshes \subseteq Mesh /\ Labelings \subseteq SUBSET Modes
    /\ StepBuffer \in Nat \ {0} /\ MaxMoves \in Nat

Variants == {"variant-a", "variant-b"}
Names    == Variants \cup {"route", "client"}

\* A variant is a Deployment and its Service; the target Service, and the waypoint where
\* the mesh wants one, stand with the second. state says what became of it: a Deployment is
\* ready, a route accepted or rejected, the client has passed or failed. images are those
\* of the backends it is or has talked to; going is a Pod within its grace period.
Object(n, images) == [by |-> n, images |-> images, state |-> "new", going |-> FALSE]

\* What a run reports: how it ended, and the client whose cases it read.
Outcomes == {"error", "probe-error", "crd-missing", "no-controller", "accepted", "rejected"}
Cases    == [by : 1..Len(Commands), images : SUBSET {"old", "new"},
             state : {"passed", "failed"}, going : BOOLEAN]
Results  == [outcome : Outcomes, cases : {NoObject} \cup Cases]

ASSUME NullAssumption == NoMode \notin Modes /\ NoResult \notin Results

Absent    == [phase |-> "absent", by |-> 0, labels |-> {}]
Exists    == ns.phase # "absent"
MeshLabels == Modes
Managed    == "managed-by"

-----------------------------------------------------------------------------
(* Detection. *)

\* The labels that the mesh asks of a namespace, each named for its mode.
NamespaceLabels(m) == IF m.istio THEN {m.mode} \ {NoMode} ELSE {}

\* A read that fails counts as nothing found.
DetectMesh == {mesh, [istio |-> FALSE, mode |-> NoMode]}
                 \cup (IF mesh.istio THEN {[mesh EXCEPT !.mode = "sidecar"]} ELSE {})

Override(m, mode) == IF m.istio /\ mode # NoMode THEN [m EXCEPT !.mode = mode] ELSE m

-----------------------------------------------------------------------------
(* The goroutine. Its calls fail once the context is cancelled, all but the clean-up. An *)
(* action sends its progress, and waits for room unless the context is cancelled.        *)

Send ==
    IF chan.steps < StepBuffer
    THEN \/ chan' = [chan EXCEPT !.steps = @ + 1]
         \/ run.cancelled /\ UNCHANGED chan
    ELSE run.cancelled /\ UNCHANGED chan

\* One action of the goroutine that ends at another place.
Go(from, to) ==
    /\ run.pc = from /\ run' = [run EXCEPT !.pc = to]
    /\ Send /\ UNCHANGED <<mesh, cmd, ui, moves>>

Call(from) == run.pc = from /\ ~run.cancelled

\* labels are those the mesh wants, then those to add; todo is left to deploy; fresh says
\* that it has made the namespace, or found it just made.
Start == [pc |-> "connect", labels |-> {}, todo |-> <<>>, fresh |-> FALSE, outcome |-> "none",
          cases |-> NoObject, deleteFailed |-> FALSE, cancelled |-> FALSE]

Connect == Call("connect") /\ Go("connect", "detect") /\ UNCHANGED <<ns, objects>>

Detect ==
    /\ run.pc = "detect" /\ Send
    /\ \E m \in DetectMesh :
          run' = [run EXCEPT !.pc = "namespace",
                              !.labels = NamespaceLabels(Override(m, ui.override))]
    /\ UNCHANGED <<cluster, cmd, ui, moves>>

\* Mutant: without a policy the labels are patched.
ReadNamespacePatching ==
    /\ Call("namespace") /\ Send
    /\ LET missing == run.labels \ ns.labels
           add     == missing \cup ({Managed} \ ns.labels)
           next    == IF ~Exists THEN "create"
                      ELSE IF add = {} THEN "deploy"
                      ELSE IF missing # {} /\ ui.policy = "delete" THEN "delete"
                      ELSE "patch"
       IN  run' = [run EXCEPT !.pc = next, !.labels = IF next = "patch" THEN add ELSE @]
    /\ UNCHANGED <<cluster, cmd, ui, moves>>

\* What reconcileNamespace makes of the namespace it reads.
ReadNamespace ==
    /\ Call("namespace") /\ Send
    /\ LET missing == run.labels \ ns.labels
           add     == missing \cup ({Managed} \ ns.labels)
           next    == IF ~Exists THEN "create"
                      ELSE IF add = {} THEN "deploy"
                      ELSE IF missing = {} \/ ui.policy = "patch" THEN "patch"
                      ELSE IF ui.policy = "delete" THEN "delete"
                      ELSE "report"
       IN  run' = [run EXCEPT
                      !.pc      = next,
                      !.labels  = IF next = "patch" THEN add
                                  ELSE IF next \in {"create", "delete"} THEN @ ELSE {},
                      !.outcome = IF next = "report" THEN "error" ELSE "none"]
    /\ UNCHANGED <<cluster, cmd, ui, moves>>

PatchLabels ==
    /\ Call("patch") /\ Exists /\ Send
    /\ run' = [run EXCEPT !.pc = "deploy", !.labels = {}]
    /\ ns' = [ns EXCEPT !.labels = @ \cup run.labels]
    /\ UNCHANGED <<mesh, objects, cmd, ui, moves>>

Terminate == ns' = IF ns.phase = "active" THEN [ns EXCEPT !.phase = "terminating"] ELSE ns

DeleteExisting == Call("delete") /\ Go("delete", "gone") /\ Terminate /\ UNCHANGED objects

\* Mutant: nobody waits.
NamespaceGoneAtOnce == Call("gone") /\ Go("gone", "create") /\ UNCHANGED <<ns, objects>>

NamespaceGone ==
    /\ Call("gone") /\ ~Exists /\ Go("gone", "create")
    /\ UNCHANGED <<ns, objects>>

\* A namespace that somebody else has created since is as good.
CreateNamespace ==
    /\ Call("create") /\ Send
    /\ run' = [run EXCEPT !.pc = "deploy", !.labels = {}, !.fresh = TRUE]
    /\ ns' = IF Exists THEN ns
             ELSE [phase |-> "active", by |-> cmd.n,
                   labels |-> {Managed} \cup run.labels]
    /\ UNCHANGED <<mesh, objects, cmd, ui, moves>>

\* Mutant: an error is sent as progress only.
EarlyReturnSilently ==
    /\ run.pc \in {"connect", "namespace", "patch", "delete", "gone", "create"} /\ Send
    /\ run' = [run EXCEPT !.pc = "close", !.labels = {}, !.outcome = "error"]
    /\ UNCHANGED <<cluster, cmd, ui, moves>>

\* No connection, no consent, a call that fails, or a wait that is over.
EarlyReturn ==
    /\ run.pc \in {"connect", "namespace", "patch", "delete", "gone", "create"} /\ Send
    /\ run' = [run EXCEPT !.pc = "report", !.labels = {}, !.outcome = "error"]
    /\ UNCHANGED <<cluster, cmd, ui, moves>>

-----------------------------------------------------------------------------
(* DeepProbe. *)

\* What there already is under a name is taken as it is.
Put(name) ==
    /\ ns.phase = "active" \/ objects[name] # NoObject
    /\ objects' = IF objects[name] # NoObject THEN objects
                  ELSE [objects EXCEPT ![name] = Object(cmd.n, {cmd.image})]
    /\ UNCHANGED ns

Backends == <<"variant-a", "variant-b">>

DeployNext ==
    /\ Call("deploy") /\ Send
    /\ LET todo == IF run.todo = <<>> THEN Backends ELSE run.todo
       IN  /\ Put(Head(todo))
           /\ run' = [run EXCEPT !.todo = Tail(todo),
                                 !.pc   = IF Len(todo) = 1 THEN "ready-a" ELSE "deploy"]
    /\ UNCHANGED <<mesh, cmd, ui, moves>>

IsReady(v) == objects[v] # NoObject /\ objects[v].state = "ready"

DeploymentReady ==
    \/ Call("ready-a") /\ IsReady("variant-a") /\ Go("ready-a", "ready-b") /\ UNCHANGED <<ns, objects>>
    \/ Call("ready-b") /\ IsReady("variant-b") /\ Go("ready-b", "route") /\ UNCHANGED <<ns, objects>>

CreateHTTPRoute == Call("route") /\ Go("route", "accept") /\ Put("route")

\* The first Accepted condition decides.
ReadAccepted ==
    /\ Call("accept") /\ Send
    /\ objects["route"] # NoObject /\ objects["route"].state # "new"
    /\ run' = [run EXCEPT
                  !.outcome = objects["route"].state,
                  !.pc = IF objects["route"].state = "accepted" THEN "leftover" ELSE "cleanup"]
    /\ UNCHANGED <<cluster, cmd, ui, moves>>

\* The client of an earlier run goes: at once if it has ended, else after its grace period.
\* Whether the call works is not looked at.
DeleteLeftover ==
    /\ run.pc = "leftover" /\ Go("leftover", "spawn") /\ UNCHANGED ns
    /\ LET pod == objects["client"]
       IN  \/ UNCHANGED objects
           \/ /\ ~run.cancelled /\ pod # NoObject
              /\ objects' = [objects EXCEPT !["client"] =
                                IF pod.state = "new" THEN [pod EXCEPT !.going = TRUE]
                                ELSE NoObject]

CreateClient == Call("spawn") /\ Go("spawn", "finish") /\ Put("client")

ClientEnded ==
    /\ Call("finish") /\ objects["client"] # NoObject /\ objects["client"].state # "new"
    /\ Go("finish", "logs")
    /\ UNCHANGED <<ns, objects>>

ReadLogs ==
    /\ Call("logs") /\ objects["client"] # NoObject /\ objects["client"].state # "new" /\ Send
    /\ run' = [run EXCEPT !.pc = "cleanup", !.cases = objects["client"]]
    /\ UNCHANGED <<cluster, cmd, ui, moves>>

\* Mutant: an error leaves nothing to clean up.
ProbeErrorReturns ==
    /\ run.pc \in {"deploy", "ready-a", "ready-b", "route"} /\ Send
    /\ run' = [run EXCEPT !.pc = "report", !.outcome = "probe-error"]
    /\ UNCHANGED <<cluster, cmd, ui, moves>>

\* A call fails, or a wait is over.
ProbeError ==
    /\ run.pc \in {"deploy", "ready-a", "ready-b", "route"} /\ Send
    /\ \E o \in {"probe-error"} \cup (IF run.pc = "route" THEN {"crd-missing"} ELSE {}) :
          run' = [run EXCEPT !.pc = "cleanup", !.outcome = o]
    /\ UNCHANGED <<cluster, cmd, ui, moves>>

NoController ==
    /\ run.pc = "accept" /\ Send
    /\ run' = [run EXCEPT !.pc = "cleanup", !.outcome = "no-controller"]
    /\ UNCHANGED <<cluster, cmd, ui, moves>>

\* The outcome stays what it is, without a case that has passed.
TrafficError ==
    /\ run.pc \in {"spawn", "finish", "logs"} /\ Go(run.pc, "cleanup")
    /\ UNCHANGED <<ns, objects>>

-----------------------------------------------------------------------------
(* The end of Run: the result, then the channels are closed, the result's first. *)

Cleanup ==
    /\ run.pc = "cleanup" /\ Send
    /\ \/ run' = [run EXCEPT !.pc = "report"]
          /\ IF cmd.keep THEN UNCHANGED ns ELSE Terminate
       \/ ~cmd.keep /\ run' = [run EXCEPT !.pc = "report", !.deleteFailed = TRUE]
          /\ UNCHANGED ns
    /\ UNCHANGED <<mesh, objects, cmd, ui, moves>>

Report ==
    /\ run.pc = "report" /\ run' = [run EXCEPT !.pc = "close"]
    /\ chan' = [chan EXCEPT !.result = [outcome |-> run.outcome, cases |-> run.cases]]
    /\ UNCHANGED <<cluster, cmd, ui, moves>>

\* Mutant: the channels are closed in the other order.
CloseStepsFirst ==
    /\ run.pc = "close" /\ run' = [run EXCEPT !.pc = "close-steps"]
    /\ chan' = [chan EXCEPT !.stepsClosed = TRUE]
    /\ UNCHANGED <<cluster, cmd, ui, moves>>

CloseResult ==
    /\ run.pc = "close" /\ run' = [run EXCEPT !.pc = "close-steps"]
    /\ chan' = [chan EXCEPT !.resultClosed = TRUE]
    /\ UNCHANGED <<cluster, cmd, ui, moves>>

\* Mutant: the channel of the steps stays open.
CloseNothing ==
    /\ run.pc = "close-steps" /\ run' = [run EXCEPT !.pc = "over"]
    /\ UNCHANGED <<cluster, cmd, ui, chan, moves>>

CloseSteps ==
    /\ run.pc = "close-steps" /\ run' = [run EXCEPT !.pc = "over"]
    /\ chan' = [chan EXCEPT !.stepsClosed = TRUE]
    /\ UNCHANGED <<cluster, cmd, ui, moves>>

Goroutine ==
    \/ Connect \/ Detect \/ ReadNamespace \/ PatchLabels \/ DeleteExisting \/ NamespaceGone
    \/ CreateNamespace \/ EarlyReturn
    \/ DeployNext \/ DeploymentReady \/ CreateHTTPRoute \/ ReadAccepted \/ DeleteLeftover
    \/ CreateClient \/ ClientEnded \/ ReadLogs \/ ProbeError \/ NoController \/ TrafficError
    \/ Cleanup \/ Report \/ CloseResult \/ CloseSteps

-----------------------------------------------------------------------------
(* The interface. policy and override are the options as the user has changed them. *)

Show(state) == ui' = [ui EXCEPT !.state = state]

Idle == [pc |-> "none", cancelled |-> FALSE]
Open == [steps |-> 0, result |-> NoResult, resultClosed |-> FALSE, stepsClosed |-> FALSE]

Window(c) ==
    [state |-> IF c.tui THEN "picking" ELSE "running", policy |-> c.policy,
     override |-> c.override, mesh |-> [istio |-> FALSE, mode |-> NoMode],
     exists |-> FALSE, labels |-> {}, result |-> NoResult]

Number(c, n) == [n |-> n, tui |-> c.tui, keep |-> c.keep, policy |-> c.policy,
                 override |-> c.override, image |-> c.image]

\* The plain interface runs at once.
Invoke(c, n) ==
    /\ cmd' = Number(c, n) /\ ui' = Window(c) /\ chan' = Open
    /\ run' = IF c.tui THEN Idle ELSE Start

NextCommand ==
    /\ ui.state = "exit" /\ cmd.n < Len(Commands)
    /\ \E c \in Commands[cmd.n + 1] : Invoke(c, cmd.n + 1)
    /\ UNCHANGED <<cluster, moves>>

PickContext ==
    /\ ui.state = "picking" /\ Show("inspecting")
    /\ UNCHANGED <<cluster, cmd, run, chan, moves>>

\* What was inspected is not looked at any more.
StartVerification(override, policy) ==
    /\ ui'  = [Window(cmd) EXCEPT !.state = "running", !.override = override, !.policy = policy]
    /\ run' = Start

\* advanceFromMode: to the prompt, if the namespace lacks a label of this mesh, or on.
Advance(next) ==
    IF next.exists /\ ~(NamespaceLabels(next.mesh) \subseteq next.labels)
    THEN ui' = [next EXCEPT !.state = "nsConsent"] /\ UNCHANGED run
    ELSE StartVerification(next.override, next.policy)

Inspected ==
    /\ ui.state = "inspecting"
    /\ \E m \in DetectMesh :
          LET seen == [ui EXCEPT !.mesh = Override(m, cmd.override), !.exists = Exists,
                                 !.labels = ns.labels]
          IN  IF m.istio THEN ui' = [seen EXCEPT !.state = "modePicking"] /\ UNCHANGED run
              ELSE Advance(seen)
    /\ UNCHANGED <<cluster, cmd, chan, moves>>

InspectionFailed ==
    /\ ui.state = "inspecting"
    /\ ui' = [ui EXCEPT !.state = "done", !.result = [outcome |-> "error", cases |-> NoObject]]
    /\ UNCHANGED <<cluster, cmd, run, chan, moves>>

\* The first mode to pick is "Auto", that is none.
PickMode(mode) ==
    /\ ui.state = "modePicking"
    /\ Advance([ui EXCEPT !.override = mode, !.mesh = Override(@, mode)])
    /\ UNCHANGED <<cluster, cmd, chan, moves>>

Consent(policy) ==
    /\ ui.state = "nsConsent" /\ StartVerification(ui.override, policy)
    /\ UNCHANGED <<cluster, cmd, chan, moves>>

\* A key that quits, also to abort at the prompt. A goroutine is cancelled, if the window
\* that is left has the function to do so: after the prompt Go may copy the window before
\* the call that sets it. The goroutine lives on until the process has ended.
Quit ==
    /\ cmd.tui /\ ui.state \notin {"exiting", "exit"} /\ Show("exiting")
    /\ run' \in {run} \cup (IF ui.state = "running" THEN {[run EXCEPT !.cancelled = TRUE]} ELSE {})
    /\ UNCHANGED <<cluster, cmd, chan, moves>>

\* waitStep: a step or the result, whichever the select takes; the plain interface reads
\* all steps first.
ReadStep ==
    /\ ui.state = "running" /\ chan.steps > 0
    /\ chan' = [chan EXCEPT !.steps = @ - 1]
    /\ UNCHANGED <<cluster, cmd, ui, run, moves>>

ReadResult ==
    /\ ui.state = "running" /\ (chan.result # NoResult \/ chan.resultClosed)
    /\ cmd.tui \/ (chan.stepsClosed /\ chan.steps = 0)
    /\ ui'   = [ui EXCEPT !.state = "done", !.result = chan.result]
    /\ chan' = [chan EXCEPT !.result = NoResult]
    /\ UNCHANGED <<cluster, cmd, run, moves>>

\* The process ends, and the goroutine with it: after the interface, or by a signal while
\* the plain one runs.
ProcessExits ==
    /\ ui.state = "exiting" \/ (~cmd.tui /\ ui.state \in {"running", "done"})
    /\ ui' = [Window(cmd) EXCEPT !.state = "exit"] /\ run' = Idle /\ chan' = Open
    /\ UNCHANGED <<cluster, cmd, moves>>

-----------------------------------------------------------------------------
(* The cluster: its controllers, and its users. *)

Becomes(name, state) ==
    /\ objects[name] # NoObject /\ objects[name].state = "new"
    /\ objects' = [objects EXCEPT ![name].state = state]
    /\ UNCHANGED <<mesh, ns, cmd, ui, run, chan, moves>>

DeploymentStarts == \E v \in Variants : Becomes(v, "ready")

MeshJudges == \E state \in {"accepted", "rejected"} : Becomes("route", state)

\* The three requests answered, or not, by the backends there are.
ClientEnds(state) ==
    /\ objects["client"] # NoObject /\ objects["client"].state = "new"
    /\ state = "passed" =>
          /\ IsReady("variant-a") /\ IsReady("variant-b")
          /\ objects["route"] # NoObject /\ objects["route"].state = "accepted"
    /\ objects' = [objects EXCEPT !["client"].state = state,
          !["client"].images = UNION {objects[v].images : v \in {w \in Variants : objects[w] # NoObject}}]
    /\ UNCHANGED <<mesh, ns, cmd, ui, run, chan, moves>>

\* The namespace controller deletes what is of one kind together; a Pod whose grace period
\* is over goes by itself.
Collect(names) ==
    /\ \E name \in names : objects[name] # NoObject
    /\ ns.phase = "terminating" \/ \A name \in names : objects[name] # NoObject /\ objects[name].going
    /\ objects' = [name \in Names |-> IF name \in names THEN NoObject ELSE objects[name]]
    /\ UNCHANGED <<mesh, ns, cmd, ui, run, chan, moves>>

NamespaceEnds ==
    /\ ns.phase = "terminating" /\ \A name \in Names : objects[name] = NoObject
    /\ ns' = Absent
    /\ UNCHANGED <<mesh, objects, cmd, ui, run, chan, moves>>

\* Somebody creates a namespace of that name, or labels it.
UserCreates(labels) ==
    /\ moves < MaxMoves /\ moves' = moves + 1
    /\ ~Exists /\ ns' = [phase |-> "active", by |-> 0, labels |-> labels]
    /\ UNCHANGED <<mesh, objects, cmd, ui, run, chan>>

UserLabels(labels) ==
    /\ moves < MaxMoves /\ moves' = moves + 1
    /\ ns.phase = "active" /\ labels # ns.labels /\ ns' = [ns EXCEPT !.labels = labels]
    /\ UNCHANGED <<mesh, objects, cmd, ui, run, chan>>

-----------------------------------------------------------------------------
Init ==
    /\ mesh \in Meshes
    /\ ns \in {Absent} \cup {[phase |-> "active", by |-> 0, labels |-> l] : l \in Labelings}
    /\ objects = [name \in Names |-> NoObject]
    /\ \E c \in Commands[1] : /\ cmd = Number(c, 1) /\ ui = Window(c) /\ chan = Open
                            /\ run = IF c.tui THEN Idle ELSE Start
    /\ moves = 0

Next ==
    \/ Goroutine
    \/ NextCommand
    \/ PickContext \/ Inspected \/ InspectionFailed
    \/ \E mode \in Modes \cup {NoMode} : PickMode(mode)
    \/ \E policy \in {"delete", "patch"} : Consent(policy)
    \/ Quit \/ ReadStep \/ ReadResult \/ ProcessExits
    \/ DeploymentStarts \/ MeshJudges
    \/ \E state \in {"passed", "failed"} : ClientEnds(state)
    \/ \E names \in {Variants, {"route"}, {"client"}} : Collect(names)
    \/ NamespaceEnds
    \/ \E labels \in Labelings : UserCreates(labels) \/ UserLabels(labels)

Spec == Init /\ [][Next]_vars

\* The goroutine is scheduled and its waits have a timeout, and the interface listens.
Fairness == WF_vars(Goroutine) /\ WF_vars(ReadStep \/ ReadResult)

-----------------------------------------------------------------------------
(* Properties. *)

TypeOK ==
    /\ mesh \in Meshes /\ moves \in 0..MaxMoves
    /\ ns \in [phase : {"absent", "active", "terminating"}, by : 0..Len(Commands),
               labels : SUBSET (MeshLabels \cup {Managed})]
    /\ \A name \in Names : objects[name] # NoObject =>
          /\ Exists /\ objects[name].by \in 1..Len(Commands) /\ objects[name].images \subseteq {"old", "new"}
          /\ objects[name].going => name = "client"
    /\ chan.steps \in 0..StepBuffer /\ chan.result \in Results \cup {NoResult}
    /\ ui.result \in Results \cup {NoResult}
    /\ chan.stepsClosed => chan.resultClosed
    /\ run.pc = "none" => ui.state # "running"

\* A namespace that its users have made gets a label that changes the traffic of their Pods,
\* or is wiped before the probe, only if the flag or the answer to the prompt says so,
\* whatever happened to it between the inspection, the answer and the run. Which label was
\* agreed to is not kept; what the probe deploys and the clean-up after it need no consent.
ConsentGiven ==
    [][ns.by = 0 /\ ns.phase = "active" /\ moves' = moves =>
          /\ (ns'.labels \ ns.labels) \cap MeshLabels # {} => ui.policy = "patch"
          /\ ns'.phase # "active" /\ run.pc # "cleanup" => ui.policy = "delete"]_vars

\* A run that came to create its namespace, because there was none or it had wiped it, passes
\* judgement on its own backends: if it reports that all cases passed, its client asked them,
\* and they run the image it was given. A run that found its namespace takes what is
\* there for its own, with whatever image it runs, and is left out here.
VerdictIsFresh ==
    run.pc \in {"report", "close", "close-steps", "over"} /\ run.fresh /\ run.cases # NoObject =>
        /\ run.outcome = "accepted"
        /\ run.cases.by = cmd.n
        /\ run.cases.state = "passed" => run.cases.images = {cmd.image}

\* A run that comes to its end leaves no namespace of its making behind, unless it was told
\* to or could not delete it, wherever it failed.
NothingLeftBehind ==
    run.pc = "over" /\ ~cmd.keep /\ ~run.deleteFailed => ~(ns.phase = "active" /\ ns.by = cmd.n)

\* The interface never ends without a result, although it may listen to either channel
\* while both are being closed; and it shows the one of this run.
ResultIsShown ==
    ui.state = "done" =>
        /\ ui.result # NoResult
        /\ run.pc # "none" => ui.result = [outcome |-> run.outcome, cases |-> run.cases]

\* A run comes to an end, with a full channel, a cluster that does nothing and calls that
\* fail.
RunEnds == (ui.state = "running") ~> (ui.state # "running")

\* "OnExistingPatch keeps the namespace" (runner.go:69): a user who asked for the labels to
\* be patched in keeps the namespace they had.
PatchKeepsNamespace ==
    [][ns.by = 0 /\ ns.phase = "active" /\ ui.policy = "patch" => ns'.phase = "active"]_vars
=============================================================================

--------------------------- MODULE InPlaceUpdate ---------------------------
(***************************************************************************)
(* The OS version of one box: wanted on the ElementalMachine, forwarded to *)
(* the ElementalHost by the association and by the host reconciler, and    *)
(* applied by the agent before the bootstrap, or afterwards when the       *)
(* in-place-update label asks for it.  The agent's turn acts on the host   *)
(* that its first request returned; the plugin decides from the snapshots  *)
(* whether there is anything to do.                                        *)
(*                                                                         *)
(* A version stands for a whole osVersionManagement, which is what the     *)
(* correlation ID is the hash of; NoVersion for one without an image URI.  *)
(* Abstracted: conditions and phases; reset and registration (module       *)
(* HostAgent), with bootstrap configs that fail; the choice of the host    *)
(* (module HostAssociation).                                               *)
(***************************************************************************)
EXTENDS Naturals

CONSTANTS
    Versions,    \* OS versions
    NoVersion,   \* none wanted; the OS the box was installed with
    Unbootable,  \* versions whose snapshot does not boot
    MaxChanges,  \* bound: how often a user changes the wanted version
    MaxRequests, \* bound: how often a user asks for an in-place update
    MaxFaults    \* bound: failing upgrades, lost answers and power cycles

Wanted == Versions \cup {NoVersion}

ASSUME ConstantsAssumption ==
    /\ NoVersion \notin Versions
    /\ Unbootable \subseteq Versions
    /\ MaxChanges \in Nat
    /\ MaxRequests \in Nat
    /\ MaxFaults \in Nat

VARIABLES
    machine,  \* the version wanted by the ElementalMachine
    host,     \* the ElementalHost
    box,      \* what the box keeps over a reboot
    agent,    \* the agent's process
    wanted,   \* history: versions wanted since the host was linked
    changes, requests, faults

vars == <<machine, host, box, agent, wanted, changes, requests, faults>>

HostObject ==
    [version: Wanted, linked: BOOLEAN, bootstrapped: BOOLEAN,
     update: {"none", "pending", "done"}]

Box ==
    [active: Wanted, passive: SUBSET Wanted, bootstrap: BOOLEAN]

\* The last host the agent was sent, and where its turn is.
Agent ==
    [phase: {"off", "turn", "version", "answer", "bootstrap"},
     seen: HostObject, sentinel: BOOLEAN]
-----------------------------------------------------------------------------
Fine == UNCHANGED faults

Fault == faults < MaxFaults /\ faults' = faults + 1

At(phase) == agent.phase = phase

GoTo(phase) == agent' = [agent EXCEPT !.phase = phase]

Users == UNCHANGED <<machine, wanted, changes, requests>>
-----------------------------------------------------------------------------
(* The users and the controllers.                                          *)

ChangeVersion(v) ==
    /\ changes < MaxChanges
    /\ changes' = changes + 1
    /\ wanted' = IF host.linked THEN wanted \cup {v} ELSE wanted
    /\ UNCHANGED <<box, agent, requests, faults>>

ChangeMachine(v) ==
    /\ v # machine
    /\ machine' = v
    /\ ChangeVersion(v)
    /\ UNCHANGED host

\* A single host is upgraded; on a linked one the reconciler takes it back.
ChangeHost(v) ==
    /\ v # host.version
    /\ host' = [host EXCEPT !.version = v]
    /\ ChangeVersion(v)
    /\ UNCHANGED machine

RequestUpdate ==
    /\ requests < MaxRequests
    /\ host.update # "pending"
    /\ requests' = requests + 1
    /\ host' = [host EXCEPT !.update = "pending"]
    /\ UNCHANGED <<machine, box, agent, wanted, changes, faults>>

\* Broken variant: the version is left to the host reconciler.
LinkWithoutVersion ==
    /\ ~host.linked
    /\ host' = [host EXCEPT !.linked = TRUE]
    /\ wanted' = {machine}
    /\ UNCHANGED <<machine, box, agent, changes, requests, faults>>

\* One patch brings the link, the bootstrap secret and the version.
LinkHost ==
    /\ ~host.linked
    /\ host' = [host EXCEPT !.linked = TRUE, !.version = machine]
    /\ wanted' = {machine}
    /\ UNCHANGED <<machine, box, agent, changes, requests, faults>>

\* Whether or not the host is bootstrapped, and whatever its label says.
ReconcileOSVersionManagement ==
    /\ host.linked
    /\ host.version # machine
    /\ host' = [host EXCEPT !.version = machine]
    /\ UNCHANGED <<machine, box, agent, wanted, changes, requests, faults>>
-----------------------------------------------------------------------------
(* A turn of the agent's loop.                                             *)

PatchPhase ==
    /\ At("turn")
    /\ agent' = [agent EXCEPT !.phase = "version", !.seen = host]
    /\ Fine /\ Users
    /\ UNCHANGED <<host, box>>

NeedsInplaceUpdate == agent.seen.update = "pending"

\* Broken variant: bootstrapped hosts follow every change.
AlwaysReconcile == TRUE

NeedsReconcile == ~agent.seen.bootstrapped \/ NeedsInplaceUpdate

\* Broken variant: a passive snapshot is not looked at.
FoundActive(v) == box.active = v

IsCorrelationIDFound(v) == v \in {box.active} \cup box.passive

SkipOSVersion ==
    /\ At("version")
    /\ ~NeedsReconcile
    /\ GoTo("bootstrap")
    /\ Fine /\ Users
    /\ UNCHANGED <<host, box>>

NothingToUpgrade ==
    /\ At("version")
    /\ NeedsReconcile
    /\ \/ agent.seen.version = NoVersion
       \/ IsCorrelationIDFound(agent.seen.version)
    /\ GoTo("answer")
    /\ Fine /\ Users
    /\ UNCHANGED <<host, box>>

\* Broken variant: a failure is taken for nothing to do.
UpgradeHidingErrors ==
    /\ At("version")
    /\ NeedsReconcile
    /\ agent.seen.version # NoVersion
    /\ ~IsCorrelationIDFound(agent.seen.version)
    /\ \/ /\ Fine
          /\ \E kept \in SUBSET box.passive :
               box' = [box EXCEPT !.active = agent.seen.version, !.passive = kept \cup {box.active}]
          /\ GoTo("off")
       \/ Fault /\ GoTo("answer") /\ UNCHANGED box
    /\ Users
    /\ UNCHANGED host

\* The snapshotter makes a new active snapshot and may drop old passive ones;
\* then the box reboots.  A failure ends the turn.
Upgrade ==
    /\ At("version")
    /\ NeedsReconcile
    /\ agent.seen.version # NoVersion
    /\ ~IsCorrelationIDFound(agent.seen.version)
    /\ \/ /\ Fine
          /\ \E kept \in SUBSET box.passive :
               box' = [box EXCEPT !.active = agent.seen.version, !.passive = kept \cup {box.active}]
          /\ GoTo("off")
       \/ Fault /\ GoTo("turn") /\ UNCHANGED box
    /\ Users
    /\ UNCHANGED host

\* Broken variant: the label says which version was applied.
AnswerWithVersion ==
    /\ At("answer")
    /\ host' = IF NeedsInplaceUpdate THEN [host EXCEPT !.update = agent.seen.version] ELSE host
    /\ GoTo("bootstrap")
    /\ Fine /\ Users
    /\ UNCHANGED box

\* The condition, then the label if it was pending.  The turn ends if either
\* request is not answered.
AnswerOSVersion ==
    /\ At("answer")
    /\ LET answered == IF NeedsInplaceUpdate THEN [host EXCEPT !.update = "done"] ELSE host IN
         \/ Fine /\ host' = answered /\ GoTo("bootstrap")
         \/ Fault /\ host' \in {host, answered} /\ GoTo("turn")
    /\ Users
    /\ UNCHANGED box

SkipBootstrap ==
    /\ At("bootstrap")
    /\ ~agent.seen.linked \/ agent.seen.bootstrapped
    /\ GoTo("turn")
    /\ Fine /\ Users
    /\ UNCHANGED <<host, box>>

ApplyBootstrap ==
    /\ At("bootstrap")
    /\ agent.seen.linked /\ ~agent.seen.bootstrapped
    /\ ~agent.sentinel
    /\ box' = [box EXCEPT !.bootstrap = TRUE]
    /\ GoTo("off")
    /\ Fine /\ Users
    /\ UNCHANGED host

ReportBootstrapped ==
    /\ At("bootstrap")
    /\ agent.seen.linked /\ ~agent.seen.bootstrapped
    /\ agent.sentinel
    /\ host' = [host EXCEPT !.bootstrapped = TRUE]
    /\ GoTo("turn")
    /\ Fine /\ Users
    /\ UNCHANGED box

\* Boot assessment falls back to a passive snapshot if the active one does not
\* boot.  A bootstrap config is run, leaves its sentinel and removes itself.
Boot ==
    /\ At("off")
    /\ box.active \in Unbootable => box.passive \ Unbootable # {}
    /\ \E v \in IF box.active \in Unbootable THEN box.passive \ Unbootable ELSE {box.active} :
         box' = [active |-> v, passive |-> (box.passive \cup {box.active}) \ {v}, bootstrap |-> FALSE]
    /\ agent' = [agent EXCEPT !.phase = "turn", !.sentinel = box.bootstrap]
    /\ Fine /\ Users
    /\ UNCHANGED host

PowerCycle ==
    /\ ~At("off")
    /\ Fault
    /\ GoTo("off")
    /\ Users
    /\ UNCHANGED <<host, box>>
-----------------------------------------------------------------------------
NewHost == [version |-> NoVersion, linked |-> FALSE, bootstrapped |-> FALSE, update |-> "none"]

\* A host that was just installed.
Init ==
    /\ machine = NoVersion
    /\ host = NewHost
    /\ box = [active |-> NoVersion, passive |-> {}, bootstrap |-> FALSE]
    /\ agent = [phase |-> "off", seen |-> NewHost, sentinel |-> FALSE]
    /\ wanted = {}
    /\ changes = 0 /\ requests = 0 /\ faults = 0

Step ==
    \/ PatchPhase
    \/ SkipOSVersion
    \/ NothingToUpgrade
    \/ Upgrade
    \/ AnswerOSVersion
    \/ SkipBootstrap
    \/ ApplyBootstrap
    \/ ReportBootstrapped
    \/ Boot

Next ==
    \/ Step
    \/ PowerCycle
    \/ LinkHost
    \/ ReconcileOSVersionManagement
    \/ RequestUpdate
    \/ \E v \in Wanted : ChangeMachine(v) \/ ChangeHost(v)

Spec == Init /\ [][Next]_vars

\* The agent's loop and the host reconciler go on; users may stop.
Fairness == WF_vars(Step) /\ WF_vars(ReconcileOSVersionManagement)

FairSpec == Spec /\ Fairness
-----------------------------------------------------------------------------
\* Every variable has its type.
TypeOK ==
    /\ machine \in Wanted
    /\ host \in HostObject
    /\ box \in Box
    /\ agent \in Agent
    /\ wanted \subseteq Wanted
    /\ changes \in 0..MaxChanges /\ requests \in 0..MaxRequests /\ faults \in 0..MaxFaults

Snapshots == {box.active} \cup box.passive

\* The association brings the version along and the run loop reconciles it
\* first: the box gets a bootstrap config only when one of the versions wanted
\* since the link has a snapshot, active or fallen back from.
VersionBeforeBootstrap ==
    [][(box'.bootstrap /\ ~box.bootstrap)
        => (NoVersion \in wanted \/ wanted \cap Snapshots # {})]_vars

\* The run loop does not touch the OS of a bootstrapped host unless the label
\* asks for it: snapshots appear only then, whatever became of the version.
UpgradedOnlyOnRequest ==
    [][(host.bootstrapped /\ Snapshots' \ Snapshots # {}) => host.update = "pending"]_vars

\* osVersionHandler.Reconcile answers "done" only for a version that the plugin
\* has applied at some time, or when none was wanted.
DoneWasApplied ==
    [][(host.update = "pending" /\ host'.update = "done")
        => agent.seen.version \in {NoVersion} \cup Snapshots]_vars

\* A pending update gets its answer, even if the version does not boot: the
\* passive snapshot it leaves keeps the plugin from upgrading again and again.
PendingAnswered == host.update = "pending" ~> host.update = "done"

\* A host that was given its bootstrap config is bootstrapped in the end,
\* whatever becomes of the version it was linked with.
LinkedBootstraps == host.linked ~> host.bootstrapped

\* While the label of a bootstrapped host asks for an update and the machine
\* wants a version, the update is under way: the box gets to run that version.
PendingIsApplied ==
    (host.bootstrapped /\ host.update = "pending" /\ machine # NoVersion)
        ~> (box.active = machine \/ machine = NoVersion)
=============================================================================

-------------------------- MODULE HostAssociation --------------------------
(***************************************************************************)
(* How an ElementalMachine is tied to an ElementalHost, and how the tie is *)
(* undone.  Four parties share two kinds of API objects:                   *)
(*   - the ElementalMachine reconciler, one worker, whose Reconcile makes  *)
(*     up to three API calls (a patch of the host, a patch of the machine's*)
(*     spec and metadata, a patch of the machine's status);                *)
(*   - the ElementalHost reconciler, one worker, one API call;             *)
(*   - the Elemental API, whose handlers the agent on each host calls;     *)
(*   - users and the CAPI controllers, which delete machines and hosts and *)
(*     make a machine provisionable.                                       *)
(* Every read goes through the informer cache of the object's kind, every  *)
(* write is a JSON merge patch of the fields that differ from the copy the *)
(* writer read, with no resource version: it lands on whatever object has  *)
(* that name by then.                                                      *)
(*                                                                         *)
(* Abstracted: conditions and phases (no handler branches on them), the    *)
(* OS version (module InPlaceUpdate), names and namespaces.                *)
(***************************************************************************)
EXTENDS Naturals, FiniteSets

CONSTANTS
    Machines,         \* names of the ElementalMachines
    Hosts,            \* names of the ElementalHosts, and of the boxes behind them
    Selector,         \* Selector[m]: the hosts whose labels spec.selector of m matches
    LaggingKinds,     \* the kinds whose informer cache may lag: "machine", "host"
    Faults,           \* whether API calls fail and the manager crashes
    MaxRegistrations, \* bound: how often one box registers
    None,             \* nil reference
    Absent            \* no object of that name

HostObject ==
    [pubKey: 1..MaxRegistrations, deleting: BOOLEAN, finalizer: BOOLEAN,
     installed: BOOLEAN, bootstrapped: BOOLEAN, needsReset: BOOLEAN,
     reset: BOOLEAN, machineRef: Machines \cup {None}]

MachineObject ==
    [deleting: BOOLEAN, finalizer: BOOLEAN, ready: BOOLEAN,
     hostRef: Hosts \cup {None}, providerID: Hosts \cup {None}]

ASSUME ConstantsAssumption ==
    /\ None \notin Machines \cup Hosts
    /\ Absent \notin HostObject \cup MachineObject
    /\ Selector \in [Machines -> SUBSET Hosts]
    /\ LaggingKinds \subseteq {"machine", "host"}
    /\ Faults \in BOOLEAN
    /\ MaxRegistrations \in Nat \ {0}

VARIABLES
    machine,       \* the ElementalMachines in the API server
    host,          \* the ElementalHosts in the API server
    machineCache,  \* the informer's copy of machine
    hostCache,     \* the informer's copy of host
    gate,          \* how far the owner Machine and the Cluster have come
    controlPlane,  \* the Cluster's ControlPlaneInitialized condition
    node,          \* the downstream cluster's nodes
    pc,            \* the ElementalMachine worker's next API call
    job,           \* what the worker is doing, None when idle
    box            \* the machines the agents run on

apiVars   == <<machine, machineCache, host, hostCache>>
clusterVars == <<gate, controlPlane, node>>
worker    == <<pc, job>>
vars == <<machine, host, machineCache, hostCache, gate, controlPlane, node, pc, job, box>>
-----------------------------------------------------------------------------
(* The API server and the informer caches.                                 *)

\* One field of a merge patch: written only if it differs from the copy read.
Merged(current, before, after) == IF after = before THEN current ELSE after

\* An object marked for deletion goes away with its last finalizer.
Settled(object) ==
    IF object.deleting /\ ~object.finalizer THEN Absent ELSE object

\* Delete: a finalizer turns it into a deletion timestamp.
Deleted(object) == Settled([object EXCEPT !.deleting = TRUE])

WriteMachine(m, object) ==
    /\ machine' = [machine EXCEPT ![m] = object]
    /\ machineCache' = IF "machine" \in LaggingKinds THEN machineCache ELSE machine'
    /\ UNCHANGED <<host, hostCache>>

WriteHost(h, object) ==
    /\ host' = [host EXCEPT ![h] = object]
    /\ hostCache' = IF "host" \in LaggingKinds THEN hostCache ELSE host'
    /\ UNCHANGED <<machine, machineCache>>

\* The watch delivers what has happened to the objects of one kind.
SyncMachines ==
    /\ machineCache # machine
    /\ machineCache' = machine
    /\ UNCHANGED <<machine, host, hostCache, worker, clusterVars, box>>

SyncHosts ==
    /\ hostCache # host
    /\ hostCache' = host
    /\ UNCHANGED <<machine, host, machineCache, worker, clusterVars, box>>
-----------------------------------------------------------------------------
(* The ElementalMachine reconciler.                                        *)

\* What a Reconcile of m read, and what its deferred patch is to persist.
\* "dirty" tells whether the host to patch differs from the copy read.
Job ==
    [m: Machines, h: Hosts \cup {None}, dirty: BOOLEAN,
     before: MachineObject, after: MachineObject]

\* Broken variant: the job outlives its reconcile.
IdleKeepingJob == pc' = "idle" /\ job' = job

Idle == pc' = "idle" /\ job' = None

\* Reconcile m up to its first API call.  One that would write nothing is
\* left out: it changes no state.
Begin(m, call, h, dirty, after) ==
    /\ call = "patchSpec" => after # machineCache[m]
    /\ pc' = call
    /\ job' = [m |-> m, h |-> h, dirty |-> dirty,
               before |-> machineCache[m], after |-> after]
    /\ UNCHANGED <<apiVars, clusterVars, box>>

Reconcilable(m) == pc = "idle" /\ machineCache[m] # Absent

WithFinalizer(object) == [object EXCEPT !.finalizer = TRUE]

\* Not provisionable yet: only the finalizer is added.
ReconcileEarly(m) ==
    /\ Reconcilable(m)
    /\ ~machineCache[m].deleting
    /\ gate[m] = "owned"
    /\ Begin(m, "patchSpec", None, FALSE, WithFinalizer(machineCache[m]))

\* reconcileNormal runs, and assumes Ready false.
Provisionable(m) ==
    /\ Reconcilable(m)
    /\ ~machineCache[m].deleting
    /\ gate[m] = "provisionable"

\* Broken variant: Ready is assumed, not disproved.
AssumeReady(m) == [WithFinalizer(machineCache[m]) EXCEPT !.ready = TRUE]

NotReady(m) == [WithFinalizer(machineCache[m]) EXCEPT !.ready = FALSE]

AlreadyLinked(m) ==
    {h \in Hosts : /\ hostCache[h] # Absent
                   /\ hostCache[h].machineRef = m
                   /\ ~hostCache[h].needsReset}

\* Broken variant: the host may have been associated already.
NewUnfiltered(m) ==
    {h \in Selector[m] : /\ hostCache[h] # Absent
                         /\ hostCache[h].installed
                         /\ ~hostCache[h].needsReset}

NewAvailable(m) ==
    {h \in Selector[m] : /\ hostCache[h] # Absent
                         /\ hostCache[h].installed
                         /\ ~hostCache[h].needsReset
                         /\ hostCache[h].machineRef = None}

\* Broken variant: a half-made association is not looked for.
NewCandidates(m) == NewAvailable(m)

\* The cache lists in no particular order, and the first one is taken.
Candidates(m) ==
    IF AlreadyLinked(m) # {} THEN AlreadyLinked(m) ELSE NewAvailable(m)

AssociateElementalHost(m) ==
    /\ Provisionable(m)
    /\ machineCache[m].hostRef = None
    /\ \/ \E h \in Candidates(m) :
            Begin(m, "linkHost", h, hostCache[h].machineRef # m, NotReady(m))
       \/ /\ Candidates(m) = {}
          /\ Begin(m, "patchSpec", None, FALSE, NotReady(m))

HostIsGone(m) ==
    /\ Provisionable(m)
    /\ \E h \in Hosts :
         /\ machineCache[m].hostRef = h
         /\ hostCache[h] = Absent

\* Broken variants: one of the two references is kept.
DropHostRefOnly(m) ==
    /\ HostIsGone(m)
    /\ Begin(m, "patchSpec", None, FALSE, [NotReady(m) EXCEPT !.hostRef = None])

DropProviderIDOnly(m) ==
    /\ HostIsGone(m)
    /\ Begin(m, "patchSpec", None, FALSE, [NotReady(m) EXCEPT !.providerID = None])

DropHostRef(m) ==
    /\ HostIsGone(m)
    /\ Begin(m, "patchSpec", None, FALSE,
             [NotReady(m) EXCEPT !.hostRef = None, !.providerID = None])

\* Listing or getting hosts fails: the deferred patch persists Ready false.
ReadError(m) ==
    /\ Faults
    /\ Provisionable(m)
    /\ Begin(m, "patchSpec", None, FALSE, NotReady(m))

\* The host has been found: wait for it, or go on to the provider ID.
AwaitElementalHost(m) ==
    /\ Provisionable(m)
    /\ \E h \in Hosts :
         /\ machineCache[m].hostRef = h
         /\ hostCache[h] # Absent
         /\ IF hostCache[h].installed /\ hostCache[h].bootstrapped /\ controlPlane
            THEN IF machineCache[m].providerID = h
                 THEN Begin(m, "patchSpec", None, FALSE,
                            [NotReady(m) EXCEPT !.ready = TRUE])
                 ELSE Begin(m, "setProviderID", h, FALSE, NotReady(m))
            ELSE Begin(m, "patchSpec", None, FALSE, NotReady(m))

Deletable(m) ==
    /\ Reconcilable(m)
    /\ machineCache[m].deleting
    /\ machineCache[m].finalizer
    /\ gate[m] # "unowned"

Released(m) == [machineCache[m] EXCEPT !.finalizer = FALSE]

\* Broken variant: the finalizer is let go without a word to the host.
ReleaseMachine(m) ==
    /\ Deletable(m)
    /\ Begin(m, "patchSpec", None, FALSE, Released(m))

\* A host that is not found ends the reconcile with the finalizer in place.
ReconcileDelete(m) ==
    /\ Deletable(m)
    /\ \/ /\ machineCache[m].hostRef = None
          /\ Begin(m, "patchSpec", None, FALSE, Released(m))
       \/ \E h \in Hosts :
            /\ machineCache[m].hostRef = h
            /\ hostCache[h] # Absent
            /\ Begin(m, "markReset", h, ~hostCache[h].needsReset, Released(m))
-----------------------------------------------------------------------------
(* The API calls of a Reconcile in progress.                               *)

\* linkElementalHostToElementalMachine.  When it fails, or succeeds without
\* the answer arriving, the deferred patch persists the finalizer only.
LinkHost ==
    /\ pc = "linkHost"
    /\ pc' = "patchSpec"
    /\ LET linked == [host[job.h] EXCEPT !.machineRef = job.m]
           done == [job EXCEPT !.after.hostRef = job.h]
       IN \/ /\ ~job.dirty
             /\ job' = done
             /\ UNCHANGED apiVars
          \/ /\ job.dirty
             /\ host[job.h] # Absent
             /\ WriteHost(job.h, linked)
             /\ job' \in {done} \cup (IF Faults THEN {job} ELSE {})
          \/ /\ job.dirty
             /\ host[job.h] = Absent \/ Faults
             /\ UNCHANGED <<job, apiVars>>
    /\ UNCHANGED <<clusterVars, box>>

\* The needs-reset label, set before the finalizer is let go.
MarkReset ==
    /\ pc = "markReset"
    /\ \/ /\ ~job.dirty
          /\ pc' = "patchSpec"
          /\ UNCHANGED <<job, apiVars>>
       \/ /\ job.dirty
          /\ host[job.h] # Absent
          /\ WriteHost(job.h, [host[job.h] EXCEPT !.needsReset = TRUE])
          /\ \/ pc' = "patchSpec" /\ job' = job
             \/ Faults /\ Idle
       \/ /\ job.dirty
          /\ host[job.h] = Absent \/ Faults
          /\ Idle
          /\ UNCHANGED apiVars
    /\ UNCHANGED <<clusterVars, box>>

\* The remote tracker patches the node before the machine learns of it.
SetProviderID ==
    /\ pc = "setProviderID"
    /\ pc' = "patchSpec"
    /\ \/ /\ node[job.h] # "none"
          /\ node' = [node EXCEPT ![job.h] = "identified"]
          /\ job' = [job EXCEPT !.after.providerID = job.h, !.after.ready = TRUE]
       \/ /\ node[job.h] = "none" \/ Faults
          /\ UNCHANGED <<node, job>>
    /\ UNCHANGED <<apiVars, gate, controlPlane, box>>

\* The deferred patch, first call: metadata and spec.  The helper goes on to
\* the status whether or not this call succeeds.
PatchSpec ==
    /\ pc = "patchSpec"
    /\ \/ /\ machine[job.m] # Absent
          /\ WriteMachine(job.m, Settled([machine[job.m] EXCEPT
                !.finalizer  = Merged(@, job.before.finalizer, job.after.finalizer),
                !.hostRef    = Merged(@, job.before.hostRef, job.after.hostRef),
                !.providerID = Merged(@, job.before.providerID, job.after.providerID)]))
       \/ /\ machine[job.m] = Absent \/ Faults
          /\ UNCHANGED apiVars
    /\ IF job.before.ready = job.after.ready
       THEN Idle
       ELSE pc' = "patchStatus" /\ job' = job
    /\ UNCHANGED <<clusterVars, box>>

\* The deferred patch, second call: status.
PatchStatus ==
    /\ pc = "patchStatus"
    /\ \/ /\ machine[job.m] # Absent
          /\ WriteMachine(job.m, [machine[job.m] EXCEPT !.ready = job.after.ready])
       \/ /\ machine[job.m] = Absent \/ Faults
          /\ UNCHANGED apiVars
    /\ Idle
    /\ UNCHANGED <<clusterVars, box>>

\* The manager stops and starts again: nothing of the job survives, and the
\* informers list both kinds anew.
Crash ==
    /\ Faults
    /\ pc # "idle"
    /\ Idle
    /\ machineCache' = machine
    /\ hostCache' = host
    /\ UNCHANGED <<machine, host, clusterVars, box>>

Reconcile(m) ==
    \/ ReconcileEarly(m)
    \/ AssociateElementalHost(m)
    \/ DropHostRef(m)
    \/ ReadError(m)
    \/ AwaitElementalHost(m)
    \/ ReconcileDelete(m)

Work == LinkHost \/ MarkReset \/ SetProviderID \/ PatchSpec \/ PatchStatus
-----------------------------------------------------------------------------
(* The ElementalHost reconciler.                                           *)

\* Broken variant: the finalizer goes as soon as the host is to be reset.
HostReconciledEarly(object) ==
    IF ~object.deleting
    THEN [object EXCEPT !.finalizer = TRUE]
    ELSE IF object.needsReset THEN [object EXCEPT !.finalizer = FALSE]
    ELSE [object EXCEPT !.needsReset = TRUE]

HostReconciled(object) ==
    IF ~object.deleting
    THEN [object EXCEPT !.finalizer = TRUE]
    ELSE IF ~object.finalizer THEN object
    ELSE IF object.reset THEN [object EXCEPT !.finalizer = FALSE]
    ELSE [object EXCEPT !.needsReset = TRUE]

ReconcileHost(h) ==
    /\ hostCache[h] # Absent
    /\ host[h] # Absent
    /\ LET before == hostCache[h]
           after  == HostReconciled(before)
       IN /\ after # before
          /\ WriteHost(h, Settled([host[h] EXCEPT
                !.finalizer  = Merged(@, before.finalizer, after.finalizer),
                !.needsReset = Merged(@, before.needsReset, after.needsReset)]))
    /\ UNCHANGED <<worker, clusterVars, box>>
-----------------------------------------------------------------------------
(* The agent of each box, through the handlers of the Elemental API.       *)

\* A handler reads the cached host and authenticates the agent's key.
Known(h) == /\ hostCache[h] # Absent
            /\ hostCache[h].pubKey = box[h].identity

NewHost(key) ==
    [pubKey |-> key, deleting |-> FALSE, finalizer |-> FALSE, installed |-> FALSE,
     bootstrapped |-> FALSE, needsReset |-> FALSE, reset |-> FALSE, machineRef |-> None]

\* POST; an object of that name is a conflict, and the agent tries again.
Register(h) ==
    /\ box[h].stage = "unregistered"
    /\ box[h].identity < MaxRegistrations
    /\ host[h] = Absent
    /\ WriteHost(h, NewHost(box[h].identity + 1))
    /\ box' = [box EXCEPT ![h].stage = "registered", ![h].identity = @ + 1]
    /\ UNCHANGED <<worker, clusterVars>>

\* PATCH of one label by the handler: the label is set if the copy read lacks it.
Install(h) ==
    /\ box[h].stage = "registered"
    /\ Known(h)
    /\ host[h] # Absent
    /\ WriteHost(h, [host[h] EXCEPT !.installed = TRUE])
    /\ box' = [box EXCEPT ![h].stage = "installed"]
    /\ UNCHANGED <<worker, clusterVars>>

\* The run loop, on the host that its PATCH of the phase answers with.
Running(h) == box[h].stage = "installed" /\ Known(h) /\ host[h] # Absent

Bootstrap(h) ==
    /\ Running(h)
    /\ ~hostCache[h].needsReset
    /\ ~hostCache[h].bootstrapped
    /\ hostCache[h].machineRef # None
    /\ box[h].joined = None
    /\ box' = [box EXCEPT ![h].joined = hostCache[h].machineRef]
    /\ node' = [node EXCEPT ![h] = IF @ = "none" THEN "joined" ELSE @]
    /\ UNCHANGED <<apiVars, worker, gate, controlPlane>>

CanReport(h) ==
    /\ Running(h)
    /\ ~hostCache[h].needsReset
    /\ ~hostCache[h].bootstrapped
    /\ hostCache[h].machineRef # None
    /\ box[h].joined # None

\* Broken variant: the host waits for the node, which waits for the host.
ReportIdentified(h) ==
    /\ CanReport(h)
    /\ node[h] = "identified"
    /\ WriteHost(h, [host[h] EXCEPT !.bootstrapped = TRUE])
    /\ UNCHANGED <<worker, clusterVars, box>>

\* PATCH bootstrapped: refused while the host has no bootstrap secret.
ReportBootstrapped(h) ==
    /\ CanReport(h)
    /\ WriteHost(h, [host[h] EXCEPT !.bootstrapped = TRUE])
    /\ UNCHANGED <<worker, clusterVars, box>>

\* Broken variant: reset waits until the bootstrap is through.
TriggerResetLate(h) ==
    /\ Running(h)
    /\ hostCache[h].needsReset
    /\ hostCache[h].machineRef = None \/ hostCache[h].bootstrapped
    /\ box' = [box EXCEPT ![h].stage = "triggered"]
    /\ UNCHANGED <<apiVars, worker, clusterVars>>

\* Reset comes first in the loop, before updates and bootstrap.
TriggerReset(h) ==
    /\ Running(h)
    /\ hostCache[h].needsReset
    /\ box' = [box EXCEPT ![h].stage = "triggered"]
    /\ UNCHANGED <<apiVars, worker, clusterVars>>

\* "elemental-agent reset" after the reboot: DELETE, accepted again and again.
DeleteElementalHost(h) ==
    /\ box[h].stage = "triggered"
    /\ Known(h)
    /\ \/ hostCache[h].deleting /\ UNCHANGED apiVars
       \/ /\ ~hostCache[h].deleting
          /\ host[h] # Absent
          /\ WriteHost(h, Deleted(host[h]))
    /\ box' = [box EXCEPT ![h].stage = "deleting"]
    /\ UNCHANGED <<worker, clusterVars>>

\* Wipe the box, PATCH the reset label, and start over.
Reset(h) ==
    /\ box[h].stage = "deleting"
    /\ Known(h)
    /\ host[h] # Absent
    /\ WriteHost(h, [host[h] EXCEPT !.reset = TRUE])
    /\ box' = [box EXCEPT ![h].stage = "unregistered", ![h].joined = None]
    /\ UNCHANGED <<worker, clusterVars>>
-----------------------------------------------------------------------------
(* Users, and the CAPI controllers.                                        *)

SetOwner(m) ==
    /\ gate[m] = "unowned"
    /\ gate' = [gate EXCEPT ![m] = "owned"]
    /\ UNCHANGED <<apiVars, worker, controlPlane, node, box>>

Provision(m) ==
    /\ gate[m] = "owned"
    /\ gate' = [gate EXCEPT ![m] = "provisionable"]
    /\ UNCHANGED <<apiVars, worker, controlPlane, node, box>>

\* The control plane needs a node to run on.
InitializeControlPlane ==
    /\ ~controlPlane
    /\ \E h \in Hosts : node[h] # "none"
    /\ controlPlane' = TRUE
    /\ UNCHANGED <<apiVars, worker, gate, node, box>>

DeleteMachine(m) ==
    /\ machine[m] # Absent
    /\ ~machine[m].deleting
    /\ WriteMachine(m, Deleted(machine[m]))
    /\ UNCHANGED <<worker, clusterVars, box>>

DeleteHost(h) ==
    /\ host[h] # Absent
    /\ ~host[h].deleting
    /\ WriteHost(h, Deleted(host[h]))
    /\ UNCHANGED <<worker, clusterVars, box>>
-----------------------------------------------------------------------------
NewMachine ==
    [deleting |-> FALSE, finalizer |-> FALSE, ready |-> FALSE,
     hostRef |-> None, providerID |-> None]

\* CAPI has cloned the machines from their template; no box has registered.
Init ==
    /\ machine = [m \in Machines |-> NewMachine]
    /\ host = [h \in Hosts |-> Absent]
    /\ machineCache = machine
    /\ hostCache = host
    /\ gate = [m \in Machines |-> "unowned"]
    /\ controlPlane = FALSE
    /\ node = [h \in Hosts |-> "none"]
    /\ pc = "idle"
    /\ job = None
    /\ box = [h \in Hosts |-> [stage |-> "unregistered", identity |-> 0, joined |-> None]]

Agent(h) ==
    \/ Register(h)
    \/ Install(h)
    \/ Bootstrap(h)
    \/ ReportBootstrapped(h)
    \/ TriggerReset(h)
    \/ DeleteElementalHost(h)
    \/ Reset(h)

Next ==
    \/ SyncMachines
    \/ SyncHosts
    \/ \E m \in Machines : Reconcile(m)
    \/ Work
    \/ Crash
    \/ \E h \in Hosts : ReconcileHost(h) \/ Agent(h) \/ DeleteHost(h)
    \/ \E m \in Machines : SetOwner(m) \/ Provision(m) \/ DeleteMachine(m)
    \/ InitializeControlPlane

Spec == Init /\ [][Next]_vars

\* The work queue serves every machine and host again and again (at the
\* latest at the informers' resync), the watches deliver, the agents retry.
Fairness ==
    /\ WF_vars(SyncMachines)
    /\ WF_vars(SyncHosts)
    /\ WF_vars(Work)
    /\ \A m \in Machines : WF_vars(Reconcile(m))
    /\ \A h \in Hosts : WF_vars(ReconcileHost(h)) /\ WF_vars(Agent(h))

FairSpec == Spec /\ Fairness
-----------------------------------------------------------------------------
\* Every variable has its type, and a busy worker knows its job.
TypeOK ==
    /\ machine \in [Machines -> MachineObject \cup {Absent}]
    /\ machineCache \in [Machines -> MachineObject \cup {Absent}]
    /\ host \in [Hosts -> HostObject \cup {Absent}]
    /\ hostCache \in [Hosts -> HostObject \cup {Absent}]
    /\ gate \in [Machines -> {"unowned", "owned", "provisionable"}]
    /\ controlPlane \in BOOLEAN
    /\ node \in [Hosts -> {"none", "joined", "identified"}]
    /\ \/ pc = "idle" /\ job = None
       \/ pc \in {"patchSpec", "patchStatus"} /\ job \in Job
       \/ pc \in {"linkHost", "markReset", "setProviderID"} /\ job \in Job /\ job.h \in Hosts
    /\ box \in [Hosts ->
         [stage: {"unregistered", "registered", "installed", "triggered", "deleting"},
          identity: 0..MaxRegistrations, joined: Machines \cup {None}]]

\* A machine holds at most one host: an association that stopped halfway is
\* found again by lookUpAlreadyLinkedHost instead of taking a second host.
OneHostPerMachine ==
    \A m \in Machines : \A h1, h2 \in Hosts :
        (/\ host[h1] # Absent /\ host[h1].machineRef = m /\ ~host[h1].needsReset
         /\ host[h2] # Absent /\ host[h2].machineRef = m /\ ~host[h2].needsReset)
            => h1 = h2

\* The reference of a machine to an existing host is answered by the host's
\* reference to the machine: the host patch precedes the machine patch.
LinkedBothWays ==
    \A m \in Machines, h \in Hosts :
        (machine[m] # Absent /\ host[h] # Absent /\ machine[m].hostRef = h)
            => host[h].machineRef = m

\* The provider ID is that of the host the machine refers to, across every
\* re-association: reconcileNormal drops the two together.
ProviderIDMatchesHostRef ==
    \A m \in Machines :
        machine[m] # Absent => machine[m].providerID \in {None, machine[m].hostRef}

\* A host reported as bootstrapped runs the bootstrap config of the machine
\* it is linked to, not that of a machine which held it before.
JoinedItsMachine ==
    \A h \in Hosts :
        (host[h] # Absent /\ host[h].bootstrapped /\ box[h].stage = "installed")
            => box[h].joined = host[h].machineRef

\* A machine that leaves through its finalizer leaves no host behind that is
\* linked to it and not on its way to a reset.
FinalizerResetsHosts ==
    [][\A m \in Machines, h \in Hosts :
        (/\ machine[m] # Absent /\ machine[m].finalizer /\ machine'[m] = Absent
         /\ host[h] # Absent /\ host[h].machineRef = m)
            => host[h].needsReset]_vars

\* A host that got its finalizer goes away only after the agent has reported
\* the reset, even if the reconciler acts on a copy of an earlier host of
\* that name.
GoneOnlyAfterReset ==
    [][\A h \in Hosts :
        (host[h] # Absent /\ host[h].finalizer /\ host'[h] = Absent)
            => host[h].reset]_vars

BecomesReady(m) ==
    /\ machine[m] # Absent /\ ~machine[m].ready
    /\ machine'[m] # Absent /\ machine'[m].ready

\* A machine becomes ready on a box that runs its own bootstrap config, or
\* whose host is already on its way out.
ReadyOnOwnBootstrap ==
    [][\A m \in Machines : BecomesReady(m) =>
         \E h \in Hosts :
            /\ machine[m].hostRef = h
            /\ \/ box[h].joined = m
               \/ host[h] = Absent
               \/ host[h].deleting
               \/ host[h].needsReset]_vars

\* A machine is marked ready after its provider ID has been set.
ReadyAfterProviderID ==
    [][\A m \in Machines : BecomesReady(m) => machine[m].providerID # None]_vars

\* A deleted machine goes away.
MachineDeletionCompletes ==
    \A m \in Machines :
        (machine[m] # Absent /\ machine[m].deleting) ~> (machine[m] = Absent)

\* A host that is to be reset, because its machine or itself was deleted, is
\* reset and goes away.
HostResetCompletes ==
    \A h \in Hosts : (host[h] # Absent /\ host[h].needsReset) ~> (host[h] = Absent)

\* A machine whose host is gone lets go of it, so that another can be picked.
BrokenAssociationDropped ==
    \A m \in Machines, h \in Hosts :
        (machine[m] # Absent /\ machine[m].hostRef = h /\ host[h] = Absent)
            ~> (machine[m] = Absent \/ machine[m].deleting \/ machine[m].hostRef # h)

\* A linked machine becomes ready once the control plane is up, unless it or
\* its host is on its way out.
LinkedBecomesReady ==
    \A m \in Machines, h \in Hosts :
        (controlPlane /\ machine[m] # Absent /\ machine[m].hostRef = h)
            ~> (machine[m] = Absent \/ machine[m].deleting \/ machine[m].ready
                \/ host[h] = Absent \/ host[h].needsReset \/ machine[m].hostRef # h)
-----------------------------------------------------------------------------
(* The pool of hosts that this specification implements.                   *)

PoolStage(object) ==
    IF object = Absent THEN "absent"
    ELSE IF object.reset THEN "reset"
    ELSE IF object.needsReset THEN "resetting"
    ELSE IF object.installed THEN "available"
    ELSE "registered"

PoolHolder(object) == IF object = Absent THEN None ELSE object.machineRef

PoolGuarded(object) == object # Absent /\ object.finalizer

poolStage == [h \in Hosts |-> PoolStage(host[h])]
poolHolder == [h \in Hosts |-> PoolHolder(host[h])]
poolGuarded == [h \in Hosts |-> PoolGuarded(host[h])]
poolChoice == IF pc = "linkHost" /\ job.dirty THEN <<job.m, job.h>> ELSE None

Pool == INSTANCE HostPool WITH
    stage <- poolStage, holder <- poolHolder, guarded <- poolGuarded, choice <- poolChoice

\* Whatever the reconcilers, the agents and the users do between the calls of
\* a reconcile, the hosts behave as the pool: from taken to gone a host has one
\* holder, which has no other, and it goes after its reset.
PoolImplemented == Pool!Spec
=============================================================================

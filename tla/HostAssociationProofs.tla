----------------------- MODULE HostAssociationProofs -----------------------
(* Theorems about HostAssociation, for every value of its constants.       *)
EXTENDS HostAssociation, TLAPS

MachineOrAbsent == MachineObject \cup {Absent}
HostOrAbsent == HostObject \cup {Absent}

\* The pairs of worker variables that occur.
WorkerOK ==
    \/ pc = "idle" /\ job = None
    \/ pc \in {"patchSpec", "patchStatus"} /\ job \in Job
    \/ pc \in {"linkHost", "markReset", "setProviderID"} /\ job \in Job /\ job.h \in Hosts

ObjectsOK ==
    /\ machine \in [Machines -> MachineOrAbsent]
    /\ machineCache \in [Machines -> MachineOrAbsent]
    /\ host \in [Hosts -> HostOrAbsent]
    /\ hostCache \in [Hosts -> HostOrAbsent]

ClusterOK ==
    /\ gate \in [Machines -> {"unowned", "owned", "provisionable"}]
    /\ controlPlane \in BOOLEAN
    /\ node \in [Hosts -> {"none", "joined", "identified"}]

Box == [stage: {"unregistered", "registered", "installed", "triggered", "deleting"},
        identity: 0..MaxRegistrations, joined: Machines \cup {None}]

BoxOK == box \in [Hosts -> Box]

\* The type invariant is the conjunction of its four parts.
LEMMA TypeParts == TypeOK <=> ObjectsOK /\ ClusterOK /\ WorkerOK /\ BoxOK
BY DEF TypeOK, ObjectsOK, ClusterOK, WorkerOK, BoxOK, Box, MachineOrAbsent, HostOrAbsent

\* A write keeps both kinds of objects typed.
LEMMA WriteMachineOK ==
    ASSUME ObjectsOK, NEW m \in Machines, NEW object \in MachineOrAbsent,
           WriteMachine(m, object)
    PROVE  ObjectsOK'
BY DEF ObjectsOK, WriteMachine

\* The same for a write of a host.
LEMMA WriteHostOK ==
    ASSUME ObjectsOK, NEW h \in Hosts, NEW object \in HostOrAbsent,
           WriteHost(h, object)
    PROVE  ObjectsOK'
BY DEF ObjectsOK, WriteHost

\* What the API server makes of an object stays an object, or nothing.
LEMMA HostSettled ==
    ASSUME NEW object \in HostObject
    PROVE  /\ Settled(object) \in HostOrAbsent
           /\ Deleted(object) \in HostOrAbsent
<1>1. [object EXCEPT !.deleting = TRUE] \in HostObject
  BY DEF HostObject
<1> QED
  BY <1>1 DEF Settled, Deleted, HostOrAbsent

\* The same for a machine.
LEMMA MachineSettled ==
    ASSUME NEW object \in MachineObject
    PROVE  /\ Settled(object) \in MachineOrAbsent
           /\ Deleted(object) \in MachineOrAbsent
<1>1. [object EXCEPT !.deleting = TRUE] \in MachineObject
  BY DEF MachineObject
<1> QED
  BY <1>1 DEF Settled, Deleted, MachineOrAbsent

\* Begin puts a typed job to the worker.
LEMMA BeginOK ==
    ASSUME TypeOK, NEW m \in Machines, machineCache[m] # Absent,
           NEW call, NEW h, NEW dirty \in BOOLEAN, NEW after \in MachineObject,
           \/ call = "patchSpec" /\ h \in Hosts \cup {None}
           \/ call \in {"linkHost", "markReset", "setProviderID"} /\ h \in Hosts,
           Begin(m, call, h, dirty, after)
    PROVE  TypeOK'
<1>1. ObjectsOK' /\ ClusterOK' /\ BoxOK'
  BY TypeParts DEF Begin, apiVars, clusterVars, ObjectsOK, ClusterOK, BoxOK
<1>2. machineCache[m] \in MachineObject
  BY DEF TypeOK
<1>3. WorkerOK'
  <2>1. h \in Hosts \cup {None}
    OBVIOUS
  <2>2. job' \in Job /\ job'.h = h
    BY <1>2, <2>1 DEF Begin, Job
  <2> QED
    BY <2>2 DEF Begin, WorkerOK
<1>4. TypeOK' <=> ObjectsOK' /\ ClusterOK' /\ WorkerOK' /\ BoxOK'
  BY TypeParts, PTL
<1> QED
  BY <1>1, <1>3, <1>4
-----------------------------------------------------------------------------
(* Type correctness, one lemma per actor.                                  *)

\* The parts of the type invariant, after a step.
LEMMA TypePrimed == TypeOK' <=> ObjectsOK' /\ ClusterOK' /\ WorkerOK' /\ BoxOK'
BY TypeParts, PTL

\* A reconcile that begins keeps the types: its job is typed.
LEMMA ReconcileType ==
    ASSUME TypeOK, NEW m \in Machines, Reconcile(m)
    PROVE  TypeOK'
<1> DEFINE o == machineCache[m]
<1>1. Reconcilable(m)
  BY DEF Reconcile, ReconcileEarly, AssociateElementalHost, DropHostRef, HostIsGone,
         ReadError, AwaitElementalHost, ReconcileDelete, Deletable, Provisionable
<1>2. o \in MachineObject /\ o # Absent
  BY <1>1 DEF Reconcilable, TypeOK
<1>3. /\ WithFinalizer(o) \in MachineObject
      /\ NotReady(m) \in MachineObject
      /\ Released(m) \in MachineObject
      /\ [NotReady(m) EXCEPT !.hostRef = None, !.providerID = None] \in MachineObject
      /\ [NotReady(m) EXCEPT !.ready = TRUE] \in MachineObject
  BY <1>2 DEF WithFinalizer, NotReady, Released, MachineObject
<1> HIDE DEF o
<1>4. CASE ReconcileEarly(m)
  BY <1>2, <1>3, <1>4, BeginOK DEF ReconcileEarly, o
<1>5. CASE AssociateElementalHost(m)
  <2>1. CASE \E h \in Candidates(m) :
               Begin(m, "linkHost", h, hostCache[h].machineRef # m, NotReady(m))
    <3>1. PICK h \in Candidates(m) :
            Begin(m, "linkHost", h, hostCache[h].machineRef # m, NotReady(m))
      BY <2>1
    <3>2. h \in Hosts
      BY ConstantsAssumption DEF Candidates, AlreadyLinked, NewAvailable
    <3> QED
      BY <1>2, <1>3, <3>1, <3>2, BeginOK DEF o
  <2>2. CASE Begin(m, "patchSpec", None, FALSE, NotReady(m))
    BY <1>2, <1>3, <2>2, BeginOK DEF o
  <2> QED
    BY <1>5, <2>1, <2>2 DEF AssociateElementalHost
<1>6. CASE DropHostRef(m)
  BY <1>2, <1>3, <1>6, BeginOK DEF DropHostRef, o
<1>7. CASE ReadError(m)
  BY <1>2, <1>3, <1>7, BeginOK DEF ReadError, o
<1>8. CASE AwaitElementalHost(m)
  <2>1. PICK h \in Hosts :
          \/ Begin(m, "patchSpec", None, FALSE, [NotReady(m) EXCEPT !.ready = TRUE])
          \/ Begin(m, "setProviderID", h, FALSE, NotReady(m))
          \/ Begin(m, "patchSpec", None, FALSE, NotReady(m))
    BY <1>8 DEF AwaitElementalHost
  <2> QED
    BY <1>2, <1>3, <2>1, BeginOK DEF o
<1>9. CASE ReconcileDelete(m)
  <2>1. CASE Begin(m, "patchSpec", None, FALSE, Released(m))
    BY <1>2, <1>3, <2>1, BeginOK DEF o
  <2>2. ASSUME NEW h \in Hosts,
               Begin(m, "markReset", h, ~hostCache[h].needsReset, Released(m))
        PROVE  TypeOK'
    BY <1>2, <1>3, <2>2, BeginOK DEF o
  <2> QED
    BY <1>9, <2>1, <2>2 DEF ReconcileDelete
<1> QED
  BY <1>4, <1>5, <1>6, <1>7, <1>8, <1>9 DEF Reconcile

\* A job whose outcome has been noted is still a job.
LEMMA JobNoted ==
    ASSUME job \in Job, job.h \in Hosts
    PROVE  LET linked == [job EXCEPT !.after.hostRef = job.h]
               identified == [job EXCEPT !.after.providerID = job.h, !.after.ready = TRUE]
           IN linked \in Job /\ identified \in Job
BY DEF Job, MachineObject

\* The patch that links the host, done or failed.
LEMMA LinkHostType ==
    ASSUME TypeOK, LinkHost
    PROVE  TypeOK'
<1> DEFINE linked == [host[job.h] EXCEPT !.machineRef = job.m]
           done == [job EXCEPT !.after.hostRef = job.h]
<1>1. job \in Job /\ job.h \in Hosts /\ job.m \in Machines
  BY DEF TypeOK, LinkHost, Job
<1>2. done \in Job
  BY <1>1, JobNoted
<1>3. WorkerOK'
  BY <1>1, <1>2 DEF LinkHost, WorkerOK, WriteHost
<1>4. ObjectsOK'
  <2>1. CASE UNCHANGED apiVars
    BY <2>1, TypeParts DEF apiVars, ObjectsOK
  <2>2. CASE host[job.h] # Absent /\ WriteHost(job.h, linked)
    <3>1. host[job.h] \in HostObject
      BY <1>1, <2>2 DEF TypeOK
    <3>2. linked \in HostOrAbsent
      BY <1>1, <3>1 DEF HostOrAbsent, HostObject
    <3> QED
      BY <1>1, <2>2, <3>2, TypeParts, WriteHostOK
  <2> QED
    BY <2>1, <2>2 DEF LinkHost
<1>5. ClusterOK' /\ BoxOK'
  BY TypeParts DEF LinkHost, clusterVars, ClusterOK, BoxOK
<1> QED
  BY <1>3, <1>4, <1>5, TypePrimed

\* The patch that sets the needs-reset label, done or failed.
LEMMA MarkResetType ==
    ASSUME TypeOK, MarkReset
    PROVE  TypeOK'
<1> DEFINE marked == [host[job.h] EXCEPT !.needsReset = TRUE]
<1>1. job \in Job /\ job.h \in Hosts
  BY DEF TypeOK, MarkReset
<1>2. WorkerOK'
  BY <1>1 DEF MarkReset, WorkerOK, Idle
<1>3. ObjectsOK'
  <2>1. CASE UNCHANGED apiVars
    BY <2>1, TypeParts DEF apiVars, ObjectsOK
  <2>2. CASE host[job.h] # Absent /\ WriteHost(job.h, marked)
    <3>1. host[job.h] \in HostObject
      BY <1>1, <2>2 DEF TypeOK
    <3>2. marked \in HostOrAbsent
      BY <3>1 DEF HostOrAbsent, HostObject
    <3> QED
      BY <1>1, <2>2, <3>2, TypeParts, WriteHostOK
  <2> QED
    BY <2>1, <2>2 DEF MarkReset
<1>4. ClusterOK' /\ BoxOK'
  BY TypeParts DEF MarkReset, clusterVars, ClusterOK, BoxOK
<1> QED
  BY <1>2, <1>3, <1>4, TypePrimed

\* The patch of the downstream node, done or failed.
LEMMA SetProviderIDType ==
    ASSUME TypeOK, SetProviderID
    PROVE  TypeOK'
<1>1. job \in Job /\ job.h \in Hosts
  BY DEF TypeOK, SetProviderID
<1>2. WorkerOK'
  BY <1>1, JobNoted DEF SetProviderID, WorkerOK
<1>3. ClusterOK'
  BY TypeParts DEF SetProviderID, ClusterOK
<1>4. ObjectsOK' /\ BoxOK'
  BY TypeParts DEF SetProviderID, apiVars, ObjectsOK, BoxOK
<1> QED
  BY <1>2, <1>3, <1>4, TypePrimed

\* The deferred patch of metadata and spec, done or failed.
LEMMA PatchSpecType ==
    ASSUME TypeOK, PatchSpec
    PROVE  TypeOK'
<1> DEFINE old == machine[job.m]
           merged == [old EXCEPT
                !.finalizer  = Merged(@, job.before.finalizer, job.after.finalizer),
                !.hostRef    = Merged(@, job.before.hostRef, job.after.hostRef),
                !.providerID = Merged(@, job.before.providerID, job.after.providerID)]
<1>1. job \in Job /\ job.m \in Machines
  BY DEF TypeOK, PatchSpec, Job
<1>2. WorkerOK'
  BY <1>1 DEF PatchSpec, WorkerOK, Idle
<1>3. ObjectsOK'
  <2>1. CASE UNCHANGED apiVars
    BY <2>1, TypeParts DEF apiVars, ObjectsOK
  <2>2. CASE old # Absent /\ WriteMachine(job.m, Settled(merged))
    <3>1. old \in MachineObject
      BY <1>1, <2>2 DEF TypeOK
    <3>2. job.before \in MachineObject /\ job.after \in MachineObject
      BY <1>1 DEF Job
    <3>3. merged \in MachineObject
      BY <3>1, <3>2 DEF MachineObject, Merged
    <3> QED
      BY <1>1, <2>2, <3>3, TypeParts, MachineSettled, WriteMachineOK
  <2> QED
    BY <2>1, <2>2 DEF PatchSpec
<1>4. ClusterOK' /\ BoxOK'
  BY TypeParts DEF PatchSpec, clusterVars, ClusterOK, BoxOK
<1> QED
  BY <1>2, <1>3, <1>4, TypePrimed

\* The deferred patch of the status, done or failed.
LEMMA PatchStatusType ==
    ASSUME TypeOK, PatchStatus
    PROVE  TypeOK'
<1> DEFINE patched == [machine[job.m] EXCEPT !.ready = job.after.ready]
<1>1. job \in Job /\ job.m \in Machines
  BY DEF TypeOK, PatchStatus, Job
<1>2. WorkerOK'
  BY DEF PatchStatus, WorkerOK, Idle
<1>3. ObjectsOK'
  <2>1. CASE UNCHANGED apiVars
    BY <2>1, TypeParts DEF apiVars, ObjectsOK
  <2>2. CASE machine[job.m] # Absent /\ WriteMachine(job.m, patched)
    <3>1. machine[job.m] \in MachineObject /\ job.after \in MachineObject
      BY <1>1, <2>2 DEF TypeOK, Job
    <3>2. patched \in MachineOrAbsent
      BY <3>1 DEF MachineOrAbsent, MachineObject
    <3> QED
      BY <1>1, <2>2, <3>2, TypeParts, WriteMachineOK
  <2> QED
    BY <2>1, <2>2 DEF PatchStatus
<1>4. ClusterOK' /\ BoxOK'
  BY TypeParts DEF PatchStatus, clusterVars, ClusterOK, BoxOK
<1> QED
  BY <1>2, <1>3, <1>4, TypePrimed

\* A restart of the manager, and the deliveries of the watches.
LEMMA CrashOrSyncType ==
    ASSUME TypeOK, Crash \/ SyncMachines \/ SyncHosts
    PROVE  TypeOK'
<1>1. ObjectsOK' /\ WorkerOK'
  BY TypeParts DEF Crash, SyncMachines, SyncHosts, Idle, worker, ObjectsOK, WorkerOK
<1>2. ClusterOK' /\ BoxOK'
  BY TypeParts DEF Crash, SyncMachines, SyncHosts, clusterVars, ClusterOK, BoxOK
<1> QED
  BY <1>1, <1>2, TypePrimed

\* What the host reconciler makes of the copy it read is a host.
LEMMA HostReconciledOK ==
    ASSUME NEW object \in HostObject
    PROVE  HostReconciled(object) \in HostObject
BY DEF HostReconciled, HostObject

\* A reconcile of a host.
LEMMA ReconcileHostType ==
    ASSUME TypeOK, NEW h \in Hosts, ReconcileHost(h)
    PROVE  TypeOK'
<1> DEFINE before == hostCache[h]
           after == HostReconciled(before)
           merged == [host[h] EXCEPT
                !.finalizer  = Merged(@, before.finalizer, after.finalizer),
                !.needsReset = Merged(@, before.needsReset, after.needsReset)]
<1>1. host[h] \in HostObject /\ before \in HostObject
  BY DEF TypeOK, ReconcileHost
<1>2. after \in HostObject
  BY <1>1, HostReconciledOK
<1>3. merged \in HostObject
  <2> HIDE DEF before, after
  <2> QED
    BY <1>1, <1>2 DEF HostObject, Merged
<1>4. WriteHost(h, Settled(merged))
  BY DEF ReconcileHost
<1>5. ObjectsOK'
  BY <1>3, <1>4, TypeParts, HostSettled, WriteHostOK
<1>6. WorkerOK' /\ ClusterOK' /\ BoxOK'
  BY TypeParts DEF ReconcileHost, worker, clusterVars, WorkerOK, ClusterOK, BoxOK
<1> QED
  BY <1>5, <1>6, TypePrimed

\* What a registration creates is a host.
LEMMA NewHostOK ==
    ASSUME NEW key \in 1..MaxRegistrations
    PROVE  NewHost(key) \in HostObject
BY DEF NewHost, HostObject

\* The requests and the own steps of an agent.
LEMMA AgentType ==
    ASSUME TypeOK, NEW h \in Hosts, Agent(h)
    PROVE  TypeOK'
<1>1. box[h] \in Box /\ hostCache[h] \in HostOrAbsent /\ host[h] \in HostOrAbsent
  BY TypeParts DEF BoxOK, ObjectsOK
<1>2. ObjectsOK'
  <2>1. CASE UNCHANGED apiVars
    BY <2>1, TypeParts DEF apiVars, ObjectsOK
  <2>2. CASE Register(h)
    <3>1. box[h].identity + 1 \in 1..MaxRegistrations
      BY <1>1, <2>2, ConstantsAssumption DEF Register, Box
    <3>2. NewHost(box[h].identity + 1) \in HostOrAbsent
      BY <3>1, NewHostOK DEF HostOrAbsent
    <3> QED
      BY <2>2, <3>2, TypeParts, WriteHostOK DEF Register
  <2>3. CASE \/ Install(h)
             \/ ReportBootstrapped(h)
             \/ DeleteElementalHost(h) /\ ~UNCHANGED apiVars
             \/ Reset(h)
    <3>1. host[h] # Absent
      BY <2>3 DEF Install, ReportBootstrapped, CanReport, Running, DeleteElementalHost, Reset
    <3>2. host[h] \in HostObject
      BY <1>1, <3>1 DEF HostOrAbsent
    <3>3. /\ [host[h] EXCEPT !.installed = TRUE] \in HostOrAbsent
          /\ [host[h] EXCEPT !.bootstrapped = TRUE] \in HostOrAbsent
          /\ [host[h] EXCEPT !.reset = TRUE] \in HostOrAbsent
          /\ Deleted(host[h]) \in HostOrAbsent
      BY <3>2, HostSettled DEF HostOrAbsent, HostObject
    <3> QED
      BY <2>3, <3>3, TypeParts, WriteHostOK
         DEF Install, ReportBootstrapped, DeleteElementalHost, Reset
  <2> QED
    BY <2>1, <2>2, <2>3 DEF Agent, Bootstrap, TriggerReset
<1>3. ClusterOK'
  BY TypeParts DEF Agent, Register, Install, Bootstrap, ReportBootstrapped, TriggerReset,
                   DeleteElementalHost, Reset, clusterVars, ClusterOK
<1>4. BoxOK'
  <2>1. hostCache[h] # Absent => hostCache[h].machineRef \in Machines \cup {None}
    BY <1>1 DEF HostOrAbsent, HostObject
  <2>2. CASE Register(h)
    BY <1>1, <2>2, TypeParts, ConstantsAssumption DEF Register, BoxOK, Box
  <2>3. CASE Bootstrap(h)
    BY <1>1, <2>1, <2>3, TypeParts DEF Bootstrap, Running, Known, BoxOK, Box
  <2>4. CASE Install(h) \/ TriggerReset(h) \/ DeleteElementalHost(h) \/ Reset(h)
    BY <1>1, <2>4, TypeParts DEF Install, TriggerReset, DeleteElementalHost, Reset, BoxOK, Box
  <2>5. CASE ReportBootstrapped(h)
    BY <2>5, TypeParts DEF ReportBootstrapped, BoxOK
  <2> QED
    BY <2>2, <2>3, <2>4, <2>5 DEF Agent
<1>5. WorkerOK'
  BY TypeParts DEF Agent, Register, Install, Bootstrap, ReportBootstrapped, TriggerReset,
                   DeleteElementalHost, Reset, worker, WorkerOK
<1> QED
  BY <1>2, <1>3, <1>4, <1>5, TypePrimed

\* Users and the CAPI controllers.
User(m) == SetOwner(m) \/ Provision(m) \/ DeleteMachine(m)

\* A machine gets its owner, becomes provisionable or is deleted.
LEMMA UserType ==
    ASSUME TypeOK, NEW m \in Machines, User(m)
    PROVE  TypeOK'
<1>1. ObjectsOK'
  <2>1. CASE UNCHANGED apiVars
    BY <2>1, TypeParts DEF apiVars, ObjectsOK
  <2>2. CASE DeleteMachine(m)
    BY <2>2, TypeParts, MachineSettled, WriteMachineOK DEF DeleteMachine, TypeOK
  <2> QED
    BY <2>1, <2>2 DEF User, SetOwner, Provision
<1>2. ClusterOK'
  BY TypeParts DEF User, SetOwner, Provision, DeleteMachine, clusterVars, ClusterOK
<1>3. WorkerOK' /\ BoxOK'
  BY TypeParts DEF User, SetOwner, Provision, DeleteMachine, worker, WorkerOK, BoxOK
<1> QED
  BY <1>1, <1>2, <1>3, TypePrimed

\* A user deletes a host.
LEMMA DeleteHostType ==
    ASSUME TypeOK, NEW h \in Hosts, DeleteHost(h)
    PROVE  TypeOK'
<1>1. ObjectsOK'
  BY TypeParts, HostSettled, WriteHostOK DEF DeleteHost, TypeOK
<1>2. WorkerOK' /\ ClusterOK' /\ BoxOK'
  BY TypeParts DEF DeleteHost, worker, clusterVars, WorkerOK, ClusterOK, BoxOK
<1> QED
  BY <1>1, <1>2, TypePrimed

\* The control plane comes up.
LEMMA InitializeControlPlaneType ==
    ASSUME TypeOK, InitializeControlPlane
    PROVE  TypeOK'
<1>1. ObjectsOK' /\ WorkerOK'
  BY TypeParts DEF InitializeControlPlane, apiVars, worker, ObjectsOK, WorkerOK
<1>2. ClusterOK' /\ BoxOK'
  BY TypeParts DEF InitializeControlPlane, ClusterOK, BoxOK
<1> QED
  BY <1>1, <1>2, TypePrimed

\* The variables keep their types, whatever fails, lags or crashes.
THEOREM TypeCorrect == Spec => []TypeOK
<1>1. Init => TypeOK
  <2> SUFFICES ASSUME Init PROVE TypeOK
    OBVIOUS
  <2>1. NewMachine \in MachineOrAbsent
    BY DEF NewMachine, MachineObject, MachineOrAbsent
  <2>2. ObjectsOK
    BY <2>1 DEF Init, ObjectsOK, HostOrAbsent
  <2>3. ClusterOK /\ WorkerOK
    BY DEF Init, ClusterOK, WorkerOK
  <2>4. BoxOK
    BY ConstantsAssumption DEF Init, BoxOK, Box
  <2> QED
    BY <2>2, <2>3, <2>4, TypeParts
<1>2. TypeOK /\ [Next]_vars => TypeOK'
  <2> SUFFICES ASSUME TypeOK, [Next]_vars PROVE TypeOK'
    OBVIOUS
  <2>1. CASE UNCHANGED vars
    <3>1. ObjectsOK' /\ ClusterOK' /\ WorkerOK' /\ BoxOK'
      BY <2>1, TypeParts DEF vars, ObjectsOK, ClusterOK, WorkerOK, BoxOK
    <3> QED
      BY <3>1, TypePrimed
  <2>2. CASE Next
    BY <2>2, ReconcileType, LinkHostType, MarkResetType, SetProviderIDType, PatchSpecType,
       PatchStatusType, CrashOrSyncType, ReconcileHostType, AgentType, UserType,
       DeleteHostType, InitializeControlPlaneType DEF Next, Work, User
  <2> QED
    BY <2>1, <2>2
<1> QED
  BY <1>1, <1>2, PTL DEF Spec
-----------------------------------------------------------------------------
(* A host is not released before its reset.  The reconciler acts on a copy *)
(* that may be old, even of an earlier host of the same name: the copy has *)
(* seen no reset that the host has not, or else the host has no finalizer  *)
(* yet that the copy could take away.                                      *)

Fresh(copy, object) ==
    (copy # Absent /\ object # Absent) =>
        IF copy.pubKey = object.pubKey
        THEN copy.reset => object.reset
        ELSE copy.deleting => ~object.finalizer

FreshCopies ==
    \A h \in Hosts :
        /\ host[h] # Absent => host[h].pubKey <= box[h].identity
        /\ hostCache[h] # Absent => hostCache[h].pubKey <= box[h].identity
        /\ Fresh(hostCache[h], host[h])

SameIdentities == \A h \in Hosts : box'[h].identity = box[h].identity

\* A write that keeps the key, forgets no reset and gives a finalizer only to
\* a host whose copy is not being deleted.
LEMMA WriteFresh ==
    ASSUME TypeOK, FreshCopies, SameIdentities,
           NEW h \in Hosts, NEW object \in HostOrAbsent, WriteHost(h, object),
           host[h] # Absent,
           object # Absent =>
              /\ object.pubKey = host[h].pubKey
              /\ host[h].reset => object.reset
              /\ object.finalizer => \/ host[h].finalizer
                                     \/ hostCache[h] = Absent
                                     \/ ~hostCache[h].deleting
    PROVE  FreshCopies'
<1> SUFFICES ASSUME NEW k \in Hosts
             PROVE  /\ host'[k] # Absent => host'[k].pubKey <= box'[k].identity
                    /\ hostCache'[k] # Absent => hostCache'[k].pubKey <= box'[k].identity
                    /\ Fresh(hostCache'[k], host'[k])
  BY DEF FreshCopies, Fresh
<1>1. host'[k] = IF k = h THEN object ELSE host[k]
  BY DEF WriteHost, TypeOK
<1>2. hostCache'[k] = hostCache[k] \/ hostCache'[k] = host'[k]
  BY DEF WriteHost
<1>3. host'[k] # Absent => host'[k].pubKey <= box'[k].identity
  BY <1>1 DEF FreshCopies, SameIdentities
<1>4. hostCache'[k] # Absent => hostCache'[k].pubKey <= box'[k].identity
  BY <1>2, <1>3 DEF FreshCopies, SameIdentities
<1>5. Fresh(hostCache'[k], host'[k])
  <2>1. CASE hostCache'[k] = host'[k]
    BY <2>1 DEF Fresh
  <2>2. CASE hostCache'[k] = hostCache[k] /\ k # h
    BY <1>1, <2>2 DEF FreshCopies
  <2>3. CASE hostCache'[k] = hostCache[k] /\ k = h
    BY <1>1, <2>3 DEF FreshCopies, Fresh
  <2> QED
    BY <1>2, <2>1, <2>2, <2>3
<1> QED
  BY <1>3, <1>4, <1>5

\* Steps that leave the hosts and their copies alone.
LEMMA UntouchedFresh ==
    ASSUME FreshCopies, UNCHANGED <<host, hostCache>>, SameIdentities
    PROVE  FreshCopies'
BY DEF FreshCopies, SameIdentities, Fresh

\* What may become of a host in a step.
HostStep(h) ==
    \/ host'[h] = host[h]
    \/ host[h] = Absent
    \/ host'[h] # Absent
    \/ ~host[h].finalizer
    \/ host[h].reset

\* A write that takes no finalized host away before its reset.
LEMMA WriteStep ==
    ASSUME TypeOK, NEW h \in Hosts, NEW object, WriteHost(h, object),
           \/ object # Absent
           \/ host[h] = Absent
           \/ ~host[h].finalizer
           \/ host[h].reset
    PROVE  \A k \in Hosts : HostStep(k)
BY DEF WriteHost, HostStep, TypeOK

\* Deleting a host takes it away only without a finalizer, and changes
\* nothing else of it.
LEMMA DeletedHost ==
    ASSUME NEW object \in HostObject
    PROVE  /\ Deleted(object) = Absent => ~object.finalizer
           /\ Deleted(object) # Absent =>
                /\ Deleted(object).pubKey = object.pubKey
                /\ Deleted(object).reset = object.reset
                /\ Deleted(object).finalizer = object.finalizer
<1>1. [object EXCEPT !.deleting = TRUE] \in HostObject
  BY DEF HostObject
<1>2. [object EXCEPT !.deleting = TRUE] # Absent
  BY <1>1, ConstantsAssumption
<1> QED
  BY <1>1, <1>2 DEF Deleted, Settled, HostObject
\* What every step has to do.
Safe == FreshCopies' /\ \A k \in Hosts : HostStep(k)

\* A write of a label, and the deletion of a host, are safe.
LEMMA WriteSafe ==
    ASSUME TypeOK, FreshCopies, SameIdentities,
           NEW h \in Hosts, host[h] # Absent,
           NEW object \in HostObject,
           object.pubKey = host[h].pubKey,
           host[h].reset => object.reset,
           object.finalizer = host[h].finalizer,
           WriteHost(h, object)
    PROVE  Safe
<1>1. object # Absent /\ object \in HostOrAbsent
  BY ConstantsAssumption DEF HostOrAbsent
<1> QED
  BY <1>1, WriteFresh, WriteStep DEF Safe

LEMMA DeleteSafe ==
    ASSUME TypeOK, FreshCopies, SameIdentities,
           NEW h \in Hosts, host[h] # Absent, WriteHost(h, Deleted(host[h]))
    PROVE  Safe
<1>1. host[h] \in HostObject
  BY DEF TypeOK
<1>2. /\ Deleted(host[h]) \in HostOrAbsent
      /\ Deleted(host[h]) = Absent => ~host[h].finalizer
      /\ Deleted(host[h]) # Absent =>
           /\ Deleted(host[h]).pubKey = host[h].pubKey
           /\ Deleted(host[h]).reset = host[h].reset
           /\ Deleted(host[h]).finalizer = host[h].finalizer
  BY <1>1, HostSettled, DeletedHost
<1> QED
  BY <1>2, WriteFresh, WriteStep DEF Safe

\* So are the steps that leave the hosts and their copies alone.
LEMMA UntouchedSafe ==
    ASSUME FreshCopies, UNCHANGED <<host, hostCache>>, SameIdentities
    PROVE  Safe
BY UntouchedFresh DEF Safe, HostStep

\* A copy read anew is the host itself.
LEMMA ResyncSafe ==
    ASSUME FreshCopies, SameIdentities, host' = host, hostCache' = host
    PROVE  Safe
BY DEF Safe, FreshCopies, SameIdentities, Fresh, HostStep

\* A registration comes with a key of its own, later than that of every copy,
\* and without a finalizer.
LEMMA RegisterSafe ==
    ASSUME TypeOK, FreshCopies, NEW h \in Hosts, Register(h)
    PROVE  Safe
<1> DEFINE key == box[h].identity + 1
<1>1. box \in [Hosts -> Box] /\ \A k \in Hosts : box[k].identity \in Nat
  BY TypeParts, ConstantsAssumption DEF BoxOK, Box
<1>2. \A k \in Hosts : /\ host[k] # Absent => host[k].pubKey \in Nat
                       /\ hostCache[k] # Absent => hostCache[k].pubKey \in Nat
  BY ConstantsAssumption DEF TypeOK, HostObject
<1>3. host[h] = Absent /\ WriteHost(h, NewHost(key))
  BY DEF Register
<1>4. \A k \in Hosts : host'[k] = IF k = h THEN NewHost(key) ELSE host[k]
  BY <1>3 DEF WriteHost, TypeOK
<1>5. \A k \in Hosts : box'[k].identity = IF k = h THEN key ELSE box[k].identity
  BY <1>1 DEF Register, Box
<1>6. \A k \in Hosts : hostCache'[k] = hostCache[k] \/ hostCache'[k] = host'[k]
  BY <1>3 DEF WriteHost
<1>7. NewHost(key).pubKey = key /\ ~NewHost(key).finalizer
  BY DEF NewHost
<1>8. ASSUME NEW k \in Hosts
      PROVE  /\ host'[k] # Absent => host'[k].pubKey <= box'[k].identity
             /\ hostCache'[k] # Absent => hostCache'[k].pubKey <= box'[k].identity
             /\ Fresh(hostCache'[k], host'[k])
  <2> HIDE DEF key
  <2>1. key \in Nat /\ key = box[h].identity + 1
    BY <1>1 DEF key
  <2>2. host'[k] # Absent => host'[k].pubKey <= box'[k].identity
    BY <1>1, <1>4, <1>5, <1>7, <2>1 DEF FreshCopies
  <2>3. hostCache'[k] # Absent => hostCache'[k].pubKey <= box'[k].identity
    BY <1>1, <1>2, <1>5, <1>6, <2>1, <2>2 DEF FreshCopies
  <2>4. Fresh(hostCache'[k], host'[k])
    <3>1. CASE hostCache'[k] = host'[k]
      BY <3>1 DEF Fresh
    <3>2. CASE hostCache'[k] = hostCache[k] /\ k # h
      BY <1>4, <3>2 DEF FreshCopies
    <3>3. CASE hostCache'[k] = hostCache[k] /\ k = h
      <4>1. hostCache[k] # Absent => hostCache[k].pubKey # key
        BY <1>1, <1>2, <2>1, <3>3 DEF FreshCopies
      <4> QED
        BY <1>4, <1>7, <3>3, <4>1 DEF Fresh
    <3> QED
      BY <1>6, <3>1, <3>2, <3>3
  <2> QED
    BY <2>2, <2>3, <2>4
<1>9. \A k \in Hosts : HostStep(k)
  BY <1>3, <1>4 DEF HostStep
<1> QED
  BY <1>8, <1>9 DEF Safe, FreshCopies, Fresh

\* The reconciler takes a finalizer away only on a copy that has seen the
\* reset of the very host it writes to.
LEMMA ReconcileHostSafe ==
    ASSUME TypeOK, FreshCopies, NEW h \in Hosts, ReconcileHost(h)
    PROVE  Safe
<1> DEFINE before == hostCache[h]
           after == HostReconciled(before)
           merged == [host[h] EXCEPT
                !.finalizer  = Merged(@, before.finalizer, after.finalizer),
                !.needsReset = Merged(@, before.needsReset, after.needsReset)]
<1>1. /\ host[h] \in HostObject /\ host[h] # Absent
      /\ before \in HostObject /\ before # Absent
  BY DEF TypeOK, ReconcileHost
<1>2. after \in HostObject
  BY <1>1, HostReconciledOK
<1>3. SameIdentities
  BY DEF ReconcileHost, SameIdentities
<1>4. /\ (before.finalizer /\ ~after.finalizer) => before.deleting /\ before.reset
      /\ (~before.finalizer /\ after.finalizer) => ~before.deleting
  BY <1>1 DEF HostReconciled, HostObject
<1>5. WriteHost(h, Settled(merged))
  BY DEF ReconcileHost
<1>6. Fresh(before, host[h])
  BY DEF FreshCopies
<1> HIDE DEF before, after
<1>7. /\ merged \in HostObject
      /\ merged.pubKey = host[h].pubKey
      /\ merged.reset = host[h].reset
      /\ merged.finalizer = Merged(host[h].finalizer, before.finalizer, after.finalizer)
  BY <1>1, <1>2 DEF HostObject, Merged
<1>8. (host[h].finalizer /\ ~merged.finalizer) => host[h].reset
  BY <1>1, <1>2, <1>4, <1>6, <1>7 DEF Merged, Fresh, HostObject
<1>9. merged.finalizer => host[h].finalizer \/ ~before.deleting
  BY <1>1, <1>2, <1>4, <1>7 DEF Merged, HostObject
<1> HIDE DEF merged
<1>10. /\ Settled(merged) \in HostOrAbsent
       /\ Settled(merged) = Absent => ~host[h].finalizer \/ host[h].reset
       /\ Settled(merged) # Absent => Settled(merged) = merged
  BY <1>7, <1>8, HostSettled, ConstantsAssumption DEF Settled
<1>11. FreshCopies'
  BY <1>1, <1>3, <1>5, <1>7, <1>9, <1>10, WriteFresh DEF before
<1>12. \A k \in Hosts : HostStep(k)
  BY <1>5, <1>10, WriteStep
<1> QED
  BY <1>11, <1>12 DEF Safe

\* The worker's patches of a host set one field each.
LEMMA WorkSafe ==
    ASSUME TypeOK, FreshCopies, Work
    PROVE  Safe
<1>1. SameIdentities
  BY DEF Work, LinkHost, MarkReset, SetProviderID, PatchSpec, PatchStatus, SameIdentities
<1>2. CASE UNCHANGED apiVars
  BY <1>1, <1>2, UntouchedSafe DEF apiVars
<1>3. ASSUME NEW m, NEW object, WriteMachine(m, object)
      PROVE  Safe
  BY <1>1, <1>3, UntouchedSafe DEF WriteMachine
<1>4. CASE LinkHost /\ ~UNCHANGED apiVars
  <2>1. job.h \in Hosts /\ job.m \in Machines /\ host[job.h] \in HostObject
    BY <1>4 DEF TypeOK, LinkHost, Job
  <2>2. /\ host[job.h] # Absent
        /\ WriteHost(job.h, [host[job.h] EXCEPT !.machineRef = job.m])
    BY <1>4 DEF LinkHost
  <2> DEFINE linked == [host[job.h] EXCEPT !.machineRef = job.m]
  <2>3. /\ linked \in HostObject
        /\ linked.pubKey = host[job.h].pubKey
        /\ linked.reset = host[job.h].reset
        /\ linked.finalizer = host[job.h].finalizer
    BY <2>1 DEF HostObject
  <2> QED
    BY <1>1, <2>1, <2>2, <2>3, WriteSafe
<1>5. CASE MarkReset /\ ~UNCHANGED apiVars
  <2> DEFINE marked == [host[job.h] EXCEPT !.needsReset = TRUE]
  <2>1. job.h \in Hosts /\ host[job.h] # Absent /\ WriteHost(job.h, marked)
    BY <1>5 DEF TypeOK, MarkReset
  <2>2. host[job.h] \in HostObject
    BY <2>1 DEF TypeOK
  <2>3. /\ marked \in HostObject
        /\ marked.pubKey = host[job.h].pubKey
        /\ marked.reset = host[job.h].reset
        /\ marked.finalizer = host[job.h].finalizer
    BY <2>2 DEF HostObject
  <2> QED
    BY <1>1, <2>1, <2>3, WriteSafe
<1> QED
  BY <1>2, <1>3, <1>4, <1>5 DEF Work, SetProviderID, PatchSpec, PatchStatus

\* The agent sets a label at a time; only a registration changes its key.
LEMMA AgentSafe ==
    ASSUME TypeOK, FreshCopies, NEW h \in Hosts, Agent(h)
    PROVE  Safe
<1>1. CASE Register(h)
  BY <1>1, RegisterSafe
<1>2. ~Register(h) => SameIdentities
  BY TypeParts DEF Agent, Install, Bootstrap, ReportBootstrapped, TriggerReset,
         DeleteElementalHost, Reset, SameIdentities, BoxOK, Box
<1>3. CASE UNCHANGED apiVars
  BY <1>1, <1>2, <1>3, UntouchedSafe DEF apiVars
<1>4. CASE DeleteElementalHost(h) /\ ~UNCHANGED apiVars
  BY <1>1, <1>2, <1>4, DeleteSafe DEF DeleteElementalHost
<1>5. CASE Install(h) \/ ReportBootstrapped(h) \/ Reset(h)
  <2>1. host[h] # Absent /\ host[h] \in HostObject
    BY <1>5 DEF Install, ReportBootstrapped, CanReport, Running, Reset, TypeOK
  <2>2. ASSUME NEW object \in {[host[h] EXCEPT !.installed = TRUE],
                               [host[h] EXCEPT !.bootstrapped = TRUE],
                               [host[h] EXCEPT !.reset = TRUE]}
        PROVE  /\ object \in HostObject
               /\ object.pubKey = host[h].pubKey
               /\ host[h].reset => object.reset
               /\ object.finalizer = host[h].finalizer
    BY <2>1 DEF HostObject
  <2>3. PICK object \in {[host[h] EXCEPT !.installed = TRUE],
                         [host[h] EXCEPT !.bootstrapped = TRUE],
                         [host[h] EXCEPT !.reset = TRUE]} : WriteHost(h, object)
    BY <1>5 DEF Install, ReportBootstrapped, Reset
  <2> QED
    BY <1>1, <1>2, <2>1, <2>2, <2>3, WriteSafe
<1> QED
  BY <1>1, <1>3, <1>4, <1>5 DEF Agent, Bootstrap, TriggerReset

\* A host that got its finalizer goes away only after its agent reported the
\* reset, however old the copies are that the reconcilers and handlers read,
\* and whatever fails.
THEOREM HostGoneOnlyAfterReset == Spec => GoneOnlyAfterReset
<1>1. Init => FreshCopies
  BY DEF Init, FreshCopies, Fresh
<1>2. TypeOK /\ FreshCopies /\ Next => Safe
  <2> SUFFICES ASSUME TypeOK, FreshCopies, Next PROVE Safe
    OBVIOUS
  <2>1. CASE SyncMachines
    BY <2>1, UntouchedSafe DEF SyncMachines, SameIdentities
  <2>2. CASE SyncHosts \/ Crash
    BY <2>2, ResyncSafe DEF SyncHosts, Crash, SameIdentities
  <2>3. CASE \E m \in Machines : Reconcile(m)
    <3>1. UNCHANGED <<apiVars, clusterVars, box>>
      BY <2>3 DEF Reconcile, ReconcileEarly, AssociateElementalHost, DropHostRef,
             ReadError, AwaitElementalHost, ReconcileDelete, Begin
    <3> QED
      BY <3>1, UntouchedSafe DEF apiVars, SameIdentities
  <2>4. CASE Work
    BY <2>4, WorkSafe
  <2>5. ASSUME NEW h \in Hosts, ReconcileHost(h) \/ Agent(h) \/ DeleteHost(h)
        PROVE  Safe
    BY <2>5, ReconcileHostSafe, AgentSafe, DeleteSafe DEF DeleteHost, SameIdentities
  <2>6. ASSUME NEW m \in Machines, SetOwner(m) \/ Provision(m) \/ DeleteMachine(m)
        PROVE  Safe
    BY <2>6, UntouchedSafe
       DEF SetOwner, Provision, DeleteMachine, WriteMachine, apiVars, SameIdentities
  <2>7. CASE InitializeControlPlane
    BY <2>7, UntouchedSafe DEF InitializeControlPlane, apiVars, SameIdentities
  <2> QED
    BY <2>1, <2>2, <2>3, <2>4, <2>5, <2>6, <2>7 DEF Next
<1>3. TypeOK /\ FreshCopies /\ [Next]_vars => FreshCopies'
  <2>1. TypeOK /\ FreshCopies /\ UNCHANGED vars => FreshCopies'
    BY UntouchedFresh DEF vars, SameIdentities
  <2> QED
    BY <1>2, <2>1 DEF Safe
<1>4. TypeOK /\ FreshCopies /\ [Next]_vars =>
        [\A h \in Hosts : (host[h] # Absent /\ host[h].finalizer /\ host'[h] = Absent)
                              => host[h].reset]_vars
  BY <1>2 DEF Safe, HostStep
<1>5. Spec => []TypeOK
  BY TypeCorrect
<1> QED
  BY <1>1, <1>3, <1>4, <1>5, PTL DEF Spec, GoneOnlyAfterReset
-----------------------------------------------------------------------------
(* A host reported as bootstrapped runs the bootstrap config of the machine*)
(* it is linked to, provided that hosts are read up to date.  What keeps   *)
(* it: a link is only ever made on a host that has none, and a box that    *)
(* has joined a machine is linked to that very machine until it is wiped.  *)

BoxInStep(h) ==
    /\ (host[h] # Absent /\ box[h].stage = "installed") =>
         /\ box[h].joined # None => box[h].joined = host[h].machineRef
         /\ host[h].bootstrapped => box[h].joined # None
    /\ box[h].stage \in {"unregistered", "registered"} => box[h].joined = None
    /\ (host[h] # Absent /\ box[h].stage = "registered") => ~host[h].bootstrapped

LinkPending ==
    (pc = "linkHost" /\ job.dirty /\ host[job.h] # Absent)
        => host[job.h].machineRef = None

Joined ==
    /\ hostCache = host
    /\ LinkPending
    /\ \A h \in Hosts : BoxInStep(h)

\* What the steps that do not concern the bootstrap do to a host.
Kept(h) ==
    host'[h] # Absent =>
        /\ host[h] # Absent
        /\ host'[h].machineRef = host[h].machineRef
        /\ host'[h].bootstrapped = host[h].bootstrapped

\* Such a step keeps the invariant, unless it is the worker's to link a host.
LEMMA KeptJoined ==
    ASSUME TypeOK, Joined, \A h \in Hosts : Kept(h), UNCHANGED box, hostCache' = host',
           UNCHANGED worker \/ pc' # "linkHost"
    PROVE  Joined'
<1>1. LinkPending'
  <2>1. CASE pc' # "linkHost"
    BY <2>1 DEF LinkPending
  <2>2. CASE UNCHANGED worker
    BY <2>2 DEF LinkPending, Joined, worker, Kept, TypeOK
  <2> QED
    BY <2>1, <2>2
<1>2. ASSUME NEW h \in Hosts PROVE BoxInStep(h)'
  BY DEF Joined, BoxInStep, Kept
<1> QED
  BY <1>1, <1>2 DEF Joined

\* Writing a host, when hosts are read up to date.
LEMMA WriteKept ==
    ASSUME "host" \notin LaggingKinds, TypeOK,
           NEW h \in Hosts, NEW object, WriteHost(h, object)
    PROVE  /\ hostCache' = host'
           /\ \A k \in Hosts : host'[k] = IF k = h THEN object ELSE host[k]
BY DEF WriteHost, TypeOK

\* A reconcile that begins chooses a host that is linked to its machine, and
\* then has nothing to write, or a host without a link.
LEMMA ReconcileJoined ==
    ASSUME "host" \notin LaggingKinds, TypeOK, Joined, NEW m \in Machines, Reconcile(m)
    PROVE  Joined'
<1>1. UNCHANGED <<apiVars, clusterVars, box>>
  BY DEF Reconcile, ReconcileEarly, AssociateElementalHost, DropHostRef,
         ReadError, AwaitElementalHost, ReconcileDelete, Begin
<1>2. LinkPending'
  <2>1. CASE \E h \in Candidates(m) :
               Begin(m, "linkHost", h, hostCache[h].machineRef # m, NotReady(m))
    <3>1. PICK h \in Candidates(m) :
            Begin(m, "linkHost", h, hostCache[h].machineRef # m, NotReady(m))
      BY <2>1
    <3>2. hostCache[h].machineRef = m \/ hostCache[h].machineRef = None
      BY DEF Candidates, AlreadyLinked, NewAvailable
    <3>3. job'.h = h /\ job'.dirty = (hostCache[h].machineRef # m)
      BY <3>1 DEF Begin
    <3> QED
      BY <1>1, <3>2, <3>3 DEF LinkPending, Joined, apiVars
  <2>2. CASE pc' # "linkHost"
    BY <2>2 DEF LinkPending
  <2> QED
    BY <2>1, <2>2 DEF Reconcile, ReconcileEarly, AssociateElementalHost, DropHostRef,
         ReadError, AwaitElementalHost, ReconcileDelete, Begin
<1>3. \A h \in Hosts : BoxInStep(h)'
  BY <1>1 DEF Joined, BoxInStep, apiVars
<1> QED
  BY <1>1, <1>2, <1>3 DEF Joined, apiVars

\* The worker links a host that has no link, hence a box that has not joined.
LEMMA WorkJoined ==
    ASSUME "host" \notin LaggingKinds, TypeOK, Joined, Work
    PROVE  Joined'
<1>1. pc' # "linkHost" /\ UNCHANGED box
  BY DEF Work, LinkHost, MarkReset, SetProviderID, PatchSpec, PatchStatus, Idle
<1>2. CASE UNCHANGED <<host, hostCache>>
  BY <1>1, <1>2, KeptJoined DEF Joined, Kept
<1>3. CASE LinkHost /\ job.dirty /\ host[job.h] # Absent /\
           WriteHost(job.h, [host[job.h] EXCEPT !.machineRef = job.m])
  <2>1. job.h \in Hosts /\ job.m \in Machines /\ host[job.h] \in HostObject
    BY <1>3 DEF TypeOK, LinkHost, Job
  <2>2. host[job.h].machineRef = None
    BY <1>3 DEF Joined, LinkPending, LinkHost
  <2> DEFINE linked == [host[job.h] EXCEPT !.machineRef = job.m]
  <2>3. linked.bootstrapped = host[job.h].bootstrapped
    BY <2>1 DEF HostObject
  <2>4. /\ hostCache' = host'
        /\ \A k \in Hosts : host'[k] = IF k = job.h THEN linked ELSE host[k]
    BY <1>3, <2>1, WriteKept
  <2>5. ASSUME NEW k \in Hosts PROVE BoxInStep(k)'
    BY <1>1, <1>3, <2>2, <2>3, <2>4, ConstantsAssumption DEF Joined, BoxInStep
  <2> QED
    BY <1>1, <2>4, <2>5 DEF Joined, LinkPending
<1>4. CASE MarkReset /\ host[job.h] # Absent /\
           WriteHost(job.h, [host[job.h] EXCEPT !.needsReset = TRUE])
  <2>1. job.h \in Hosts /\ host[job.h] \in HostObject
    BY <1>4 DEF TypeOK, MarkReset
  <2> DEFINE marked == [host[job.h] EXCEPT !.needsReset = TRUE]
  <2>2. /\ hostCache' = host'
        /\ \A k \in Hosts : host'[k] = IF k = job.h THEN marked ELSE host[k]
    BY <1>4, <2>1, WriteKept
  <2>3. \A k \in Hosts : Kept(k)
    BY <1>4, <2>1, <2>2 DEF Kept, HostObject
  <2> QED
    BY <1>1, <2>2, <2>3, KeptJoined
<1> QED
  BY <1>2, <1>3, <1>4
     DEF Work, LinkHost, MarkReset, SetProviderID, PatchSpec, PatchStatus, apiVars, WriteMachine

\* The host reconciler touches neither the link nor the bootstrap.
LEMMA ReconcileHostJoined ==
    ASSUME "host" \notin LaggingKinds, TypeOK, Joined, NEW h \in Hosts, ReconcileHost(h)
    PROVE  Joined'
<1> DEFINE before == hostCache[h]
           after == HostReconciled(before)
           merged == [host[h] EXCEPT
                !.finalizer  = Merged(@, before.finalizer, after.finalizer),
                !.needsReset = Merged(@, before.needsReset, after.needsReset)]
<1>1. host[h] # Absent /\ host[h] \in HostObject /\ WriteHost(h, Settled(merged))
  BY DEF TypeOK, ReconcileHost
<1> HIDE DEF before, after
<1>2. /\ merged.machineRef = host[h].machineRef
      /\ merged.bootstrapped = host[h].bootstrapped
  BY <1>1 DEF HostObject
<1> HIDE DEF merged
<1>3. /\ hostCache' = host'
      /\ \A k \in Hosts : host'[k] = IF k = h THEN Settled(merged) ELSE host[k]
  BY <1>1, WriteKept
<1>4. \A k \in Hosts : Kept(k)
  BY <1>1, <1>2, <1>3 DEF Kept, Settled
<1> QED
  BY <1>3, <1>4, KeptJoined DEF ReconcileHost

\* Nor does a deletion.
LEMMA DeleteKept ==
    ASSUME "host" \notin LaggingKinds, TypeOK,
           NEW h \in Hosts, host[h] # Absent, WriteHost(h, Deleted(host[h]))
    PROVE  hostCache' = host' /\ \A k \in Hosts : Kept(k)
<1>1. host[h] \in HostObject
  BY DEF TypeOK
<1>2. /\ hostCache' = host'
      /\ \A k \in Hosts : host'[k] = IF k = h THEN Deleted(host[h]) ELSE host[k]
  BY WriteKept
<1> QED
  BY <1>1, <1>2 DEF Kept, Deleted, Settled, HostObject

\* A box joins the machine its host is linked to, and reports it after that;
\* it forgets the machine in a reset, and registers again on a new host.
LEMMA AgentJoined ==
    ASSUME "host" \notin LaggingKinds, TypeOK, Joined, NEW h \in Hosts, Agent(h)
    PROVE  Joined'
<1>1. UNCHANGED worker /\ box \in [Hosts -> Box]
  BY TypeParts DEF Agent, Register, Install, Bootstrap, ReportBootstrapped, TriggerReset,
         DeleteElementalHost, Reset, BoxOK
<1>2. hostCache' = host'
  BY WriteKept DEF Agent, Register, Install, Bootstrap, ReportBootstrapped, TriggerReset,
         DeleteElementalHost, Reset, Joined, apiVars, WriteHost
<1>3. ASSUME NEW k \in Hosts
      PROVE  \/ UNCHANGED <<host[k], box[k]>>
             \/ k = h
  BY <1>1 DEF Agent, Register, Install, Bootstrap, ReportBootstrapped, TriggerReset,
         DeleteElementalHost, Reset, WriteHost, TypeOK, apiVars
<1>4. host'[h] # Absent /\ host[h] # Absent => host'[h].machineRef = host[h].machineRef
  BY DEF Agent, Register, Install, Bootstrap, ReportBootstrapped, TriggerReset, Deleted,
         DeleteElementalHost, Reset, WriteHost, TypeOK, apiVars, HostObject, Settled
<1>5. host[h] = Absent /\ host'[h] # Absent => host'[h].machineRef = None
  BY DEF Agent, Register, Install, Bootstrap, ReportBootstrapped, CanReport, Running,
         TriggerReset, DeleteElementalHost, Reset, WriteHost, TypeOK, apiVars, NewHost
<1>6. LinkPending'
  <2>1. pc = "linkHost" => job.h \in Hosts
    BY DEF TypeOK
  <2> QED
    BY <1>1, <1>3, <1>4, <1>5, <2>1 DEF LinkPending, Joined, worker
<1>7. BoxInStep(h)'
  <2>1. BoxInStep(h) /\ hostCache[h] = host[h] /\ box[h] \in Box
    BY <1>1 DEF Joined
  <2>2. CASE Register(h)
    <3>1. host'[h] = NewHost(box[h].identity + 1)
      BY <2>2, WriteKept DEF Register
    <3>2. box'[h].stage = "registered" /\ box'[h].joined = box[h].joined
      BY <1>1, <2>1, <2>2 DEF Register, Box
    <3> QED
      BY <2>1, <2>2, <3>1, <3>2 DEF Register, BoxInStep, NewHost
  <2>3. CASE Install(h)
    <3>1. /\ host'[h].bootstrapped = host[h].bootstrapped
          /\ box'[h].stage = "installed" /\ box'[h].joined = box[h].joined
      BY <1>1, <2>1, <2>3 DEF Install, Box, WriteHost, TypeOK, HostObject
    <3> QED
      BY <2>1, <2>3, <3>1 DEF Install, BoxInStep
  <2>4. CASE Bootstrap(h)
    <3>1. /\ host'[h] = host[h] /\ box'[h].stage = "installed"
          /\ box'[h].joined = host[h].machineRef /\ host[h].machineRef # None
      BY <1>1, <2>1, <2>4 DEF Bootstrap, Running, Box, apiVars
    <3> QED
      BY <3>1 DEF BoxInStep
  <2>5. CASE ReportBootstrapped(h)
    <3>1. /\ box' = box /\ box[h].stage = "installed" /\ box[h].joined # None
          /\ host[h] # Absent
      BY <2>5 DEF ReportBootstrapped, CanReport, Running
    <3> QED
      BY <1>4, <2>1, <3>1 DEF BoxInStep
  <2>6. CASE TriggerReset(h) \/ DeleteElementalHost(h)
    <3>1. box'[h].stage \in {"triggered", "deleting"}
      BY <1>1, <2>1, <2>6 DEF TriggerReset, DeleteElementalHost, Box
    <3> QED
      BY <3>1 DEF BoxInStep
  <2>7. CASE Reset(h)
    <3>1. box'[h].stage = "unregistered" /\ box'[h].joined = None
      BY <1>1, <2>1, <2>7 DEF Reset, Box
    <3> QED
      BY <3>1 DEF BoxInStep
  <2> QED
    BY <2>2, <2>3, <2>4, <2>5, <2>6, <2>7 DEF Agent
<1>8. \A k \in Hosts : BoxInStep(k)'
  BY <1>3, <1>7 DEF Joined, BoxInStep
<1> QED
  BY <1>2, <1>6, <1>8 DEF Joined

\* With hosts read up to date, links and boxes stay in step.
LEMMA JoinedAlways ==
    ASSUME "host" \notin LaggingKinds
    PROVE  Spec => []Joined
<1>1. Init => Joined
  BY DEF Init, Joined, LinkPending, BoxInStep
<1>2. TypeOK /\ Joined /\ [Next]_vars => Joined'
  <2> SUFFICES ASSUME TypeOK, Joined, [Next]_vars PROVE Joined'
    OBVIOUS
  <2>1. CASE UNCHANGED vars
    BY <2>1, KeptJoined DEF vars, worker, Joined, Kept
  <2>2. CASE SyncMachines \/ SyncHosts \/ Crash
    BY <2>2, KeptJoined DEF SyncMachines, SyncHosts, Crash, Idle, Joined, Kept
  <2>3. CASE \E m \in Machines : Reconcile(m)
    BY <2>3, ReconcileJoined
  <2>4. CASE Work
    BY <2>4, WorkJoined
  <2>5. ASSUME NEW h \in Hosts, ReconcileHost(h) \/ Agent(h) \/ DeleteHost(h)
        PROVE  Joined'
    BY <2>5, ReconcileHostJoined, AgentJoined, DeleteKept, KeptJoined DEF DeleteHost
  <2>6. ASSUME NEW m \in Machines, SetOwner(m) \/ Provision(m) \/ DeleteMachine(m)
        PROVE  Joined'
    BY <2>6, KeptJoined
       DEF SetOwner, Provision, DeleteMachine, WriteMachine, apiVars, Joined, Kept
  <2>7. CASE InitializeControlPlane
    BY <2>7, KeptJoined DEF InitializeControlPlane, apiVars, Joined, Kept
  <2> QED
    BY <2>1, <2>2, <2>3, <2>4, <2>5, <2>6, <2>7 DEF Next
<1>3. Spec => []TypeOK
  BY TypeCorrect
<1> QED
  BY <1>1, <1>2, <1>3, PTL DEF Spec

\* With hosts read up to date, a host reported as bootstrapped runs the config
\* of the machine it is linked to, for any number of machines, hosts, crashes
\* and registrations.
THEOREM BootstrappedJoinedItsMachine ==
    ASSUME "host" \notin LaggingKinds
    PROVE  Spec => []JoinedItsMachine
<1>1. Spec => []Joined
  BY JoinedAlways
<1>2. Joined => JoinedItsMachine
  BY DEF Joined, BoxInStep, JoinedItsMachine
<1> QED
  BY <1>1, <1>2, PTL
-----------------------------------------------------------------------------
(* The provider ID is that of the host referred to, provided that machines *)
(* are read up to date.  Only the worker writes the two fields, hence what *)
(* its job has read is still true when it patches them.                    *)

InStep(object) == object.providerID \in {None, object.hostRef}

JobInStep ==
    (pc \notin {"idle", "patchStatus"} /\ machine[job.m] # Absent) =>
        /\ job.before.hostRef = machine[job.m].hostRef
        /\ job.before.providerID = machine[job.m].providerID
        /\ InStep(job.after)
        /\ pc = "linkHost" => job.after.hostRef = None
        /\ pc = "setProviderID" => job.after.hostRef = job.h

Referring ==
    /\ machineCache = machine
    /\ ProviderIDMatchesHostRef
    /\ JobInStep

\* What the steps that touch neither field do to a machine.
SameReferences(m) ==
    machine'[m] # Absent =>
        /\ machine[m] # Absent
        /\ machine'[m].hostRef = machine[m].hostRef
        /\ machine'[m].providerID = machine[m].providerID

\* Such a step keeps the invariant, unless it begins a reconcile.
LEMMA SameReferring ==
    ASSUME TypeOK, Referring, machineCache' = machine', \A m \in Machines : SameReferences(m),
           UNCHANGED worker \/ pc' \in {"idle", "patchStatus"}
    PROVE  Referring'
<1>1. ProviderIDMatchesHostRef'
  BY DEF Referring, ProviderIDMatchesHostRef, SameReferences
<1>2. JobInStep'
  <2>1. CASE pc' \in {"idle", "patchStatus"}
    BY <2>1 DEF JobInStep
  <2>2. CASE UNCHANGED worker /\ pc \notin {"idle", "patchStatus"}
    <3>1. job \in Job /\ job.m \in Machines
      BY <2>2 DEF TypeOK, Job
    <3> QED
      BY <2>2, <3>1 DEF Referring, JobInStep, SameReferences, worker
  <2> QED
    BY <2>1, <2>2 DEF worker
<1> QED
  BY <1>1, <1>2 DEF Referring

\* Writing a machine, when machines are read up to date.
LEMMA WriteMachineKept ==
    ASSUME "machine" \notin LaggingKinds, TypeOK,
           NEW m \in Machines, NEW object, WriteMachine(m, object)
    PROVE  /\ machineCache' = machine'
           /\ \A k \in Machines : machine'[k] = IF k = m THEN object ELSE machine[k]
BY DEF WriteMachine, TypeOK

\* A reconcile begins with the references it reads, or without both.
LEMMA ReconcileReferring ==
    ASSUME TypeOK, Referring, NEW m \in Machines, Reconcile(m)
    PROVE  Referring'
<1> DEFINE o == machine[m]
<1>1. UNCHANGED <<apiVars, clusterVars, box>> /\ Reconcilable(m) /\ machineCache = machine
  BY DEF Referring, Reconcile, ReconcileEarly, AssociateElementalHost, DropHostRef, HostIsGone,
         ReadError, AwaitElementalHost, ReconcileDelete, Deletable, Provisionable, Begin
<1>2. o \in MachineObject /\ o # Absent /\ InStep(o)
  BY <1>1 DEF Reconcilable, TypeOK, Referring, ProviderIDMatchesHostRef, InStep
<1>3. ASSUME NEW call, NEW h, NEW dirty, NEW after,
             Begin(m, call, h, dirty, after), InStep(after),
             call = "linkHost" => after.hostRef = None,
             call = "setProviderID" => after.hostRef = h
      PROVE  JobInStep'
  <2>1. /\ pc' = call /\ job'.m = m /\ job'.h = h
        /\ job'.before = o /\ job'.after = after /\ machine' = machine
    BY <1>1, <1>3 DEF Begin, apiVars
  <2> QED
    BY <1>3, <2>1 DEF JobInStep
<1>4. /\ InStep(WithFinalizer(o)) /\ InStep(NotReady(m)) /\ InStep(Released(m))
      /\ InStep([NotReady(m) EXCEPT !.hostRef = None, !.providerID = None])
      /\ InStep([NotReady(m) EXCEPT !.ready = TRUE])
      /\ NotReady(m).hostRef = o.hostRef
  BY <1>1, <1>2 DEF InStep, WithFinalizer, NotReady, Released, MachineObject
<1> HIDE DEF o
<1>5. JobInStep'
  <2>1. CASE ReconcileEarly(m) \/ DropHostRef(m) \/ ReadError(m)
    BY <1>1, <1>3, <1>4, <2>1 DEF ReconcileEarly, DropHostRef, ReadError, o
  <2>2. CASE AssociateElementalHost(m)
    <3>1. o.hostRef = None
      BY <1>1, <2>2 DEF AssociateElementalHost, o
    <3>2. ASSUME NEW h, Begin(m, "linkHost", h, hostCache[h].machineRef # m, NotReady(m))
          PROVE  JobInStep'
      BY <1>3, <1>4, <3>1, <3>2
    <3> QED
      BY <1>3, <1>4, <2>2, <3>2 DEF AssociateElementalHost
  <2>3. CASE AwaitElementalHost(m)
    <3>1. PICK h \in Hosts :
            /\ o.hostRef = h
            /\ \/ Begin(m, "patchSpec", None, FALSE, [NotReady(m) EXCEPT !.ready = TRUE])
               \/ Begin(m, "setProviderID", h, FALSE, NotReady(m))
               \/ Begin(m, "patchSpec", None, FALSE, NotReady(m))
      BY <1>1, <2>3 DEF AwaitElementalHost, o
    <3> QED
      BY <1>3, <1>4, <3>1
  <2>4. CASE ReconcileDelete(m)
    <3>1. ASSUME NEW h, Begin(m, "markReset", h, ~hostCache[h].needsReset, Released(m))
          PROVE  JobInStep'
      BY <1>3, <1>4, <3>1
    <3> QED
      BY <1>3, <1>4, <2>4, <3>1 DEF ReconcileDelete
  <2> QED
    BY <2>1, <2>2, <2>3, <2>4 DEF Reconcile
<1> QED
  BY <1>1, <1>5 DEF Referring, ProviderIDMatchesHostRef, apiVars

\* The calls of a reconcile note the host in both fields, and the patch of the
\* spec writes both.
LEMMA WorkReferring ==
    ASSUME "machine" \notin LaggingKinds, TypeOK, Referring, Work
    PROVE  Referring'
<1>1. CASE LinkHost
  <2>1. job \in Job /\ pc = "linkHost" /\ pc' = "patchSpec" /\ UNCHANGED <<machine, machineCache>>
    BY <1>1 DEF TypeOK, LinkHost, WriteHost, apiVars
  <2>2. /\ job'.m = job.m /\ job'.before = job.before
        /\ job'.after.providerID = job.after.providerID
        /\ job'.after.hostRef \in {job.h, job.after.hostRef}
    BY <1>1, <2>1 DEF LinkHost, Job, MachineObject
  <2>3. JobInStep'
    BY <2>1, <2>2 DEF Referring, JobInStep, InStep
  <2> QED
    BY <2>1, <2>3 DEF Referring, ProviderIDMatchesHostRef
<1>2. CASE MarkReset
  <2>1. UNCHANGED <<machine, machineCache>>
    BY <1>2 DEF MarkReset, WriteHost, apiVars
  <2>2. CASE pc' = "idle"
    BY <2>1, <2>2, SameReferring DEF Referring, SameReferences
  <2>3. CASE pc = "markReset" /\ pc' = "patchSpec" /\ job' = job
    <3>1. JobInStep'
      BY <2>1, <2>3 DEF Referring, JobInStep
    <3> QED
      BY <2>1, <3>1 DEF Referring, ProviderIDMatchesHostRef
  <2> QED
    BY <1>2, <2>2, <2>3 DEF MarkReset, Idle
<1>3. CASE SetProviderID
  <2>1. /\ job \in Job /\ pc = "setProviderID" /\ pc' = "patchSpec"
        /\ UNCHANGED <<machine, machineCache>>
    BY <1>3 DEF TypeOK, SetProviderID, apiVars
  <2>2. /\ job'.m = job.m /\ job'.before = job.before
        /\ job'.after.hostRef = job.after.hostRef
        /\ job'.after.providerID \in {job.h, job.after.providerID}
    <3>1. CASE job' = job
      BY <3>1
    <3>2. CASE job' = [job EXCEPT !.after.providerID = job.h, !.after.ready = TRUE]
      <4>1. job.after \in MachineObject
        BY <2>1 DEF Job
      <4>2. /\ job'.m = job.m /\ job'.before = job.before
            /\ job'.after = [job.after EXCEPT !.providerID = job.h, !.ready = TRUE]
        BY <2>1, <3>2 DEF Job
      <4> QED
        BY <4>1, <4>2 DEF MachineObject
    <3> QED
      BY <1>3, <3>1, <3>2 DEF SetProviderID
  <2>3. JobInStep'
    BY <2>1, <2>2 DEF Referring, JobInStep, InStep
  <2> QED
    BY <2>1, <2>3 DEF Referring, ProviderIDMatchesHostRef
<1>4. CASE PatchSpec
  <2> DEFINE old == machine[job.m]
             merged == [old EXCEPT
                  !.finalizer  = Merged(@, job.before.finalizer, job.after.finalizer),
                  !.hostRef    = Merged(@, job.before.hostRef, job.after.hostRef),
                  !.providerID = Merged(@, job.before.providerID, job.after.providerID)]
  <2>1. pc' \in {"idle", "patchStatus"} /\ pc = "patchSpec" /\ job.m \in Machines
    BY <1>4 DEF PatchSpec, Idle, TypeOK, Job
  <2>2. CASE UNCHANGED apiVars
    BY <2>1, <2>2, SameReferring DEF Referring, SameReferences, apiVars
  <2>3. CASE old # Absent /\ WriteMachine(job.m, Settled(merged))
    <3>1. old \in MachineObject
      BY <2>1, <2>3 DEF TypeOK
    <3>2. InStep(merged)
      BY <2>1, <2>3, <3>1 DEF Referring, JobInStep, InStep, Merged, MachineObject
    <3> HIDE DEF merged
    <3>3. /\ machineCache' = machine'
          /\ \A k \in Machines : machine'[k] = IF k = job.m THEN Settled(merged) ELSE machine[k]
      BY <2>1, <2>3, WriteMachineKept
    <3>4. ProviderIDMatchesHostRef'
      BY <3>2, <3>3 DEF Referring, ProviderIDMatchesHostRef, InStep, Settled
    <3>5. JobInStep'
      BY <2>1 DEF JobInStep
    <3> QED
      BY <3>3, <3>4, <3>5 DEF Referring
  <2> QED
    BY <1>4, <2>2, <2>3 DEF PatchSpec
<1>5. CASE PatchStatus
  <2>1. pc' = "idle" /\ job.m \in Machines
    BY <1>5 DEF PatchStatus, Idle, TypeOK, Job
  <2>2. CASE UNCHANGED apiVars
    BY <2>1, <2>2, SameReferring DEF Referring, SameReferences, apiVars
  <2>3. CASE machine[job.m] # Absent /\
             WriteMachine(job.m, [machine[job.m] EXCEPT !.ready = job.after.ready])
    <3>1. machine[job.m] \in MachineObject
      BY <2>1, <2>3 DEF TypeOK
    <3>2. /\ machineCache' = machine'
          /\ \A k \in Machines : machine'[k] =
                IF k = job.m THEN [machine[job.m] EXCEPT !.ready = job.after.ready] ELSE machine[k]
      BY <2>1, <2>3, WriteMachineKept
    <3>3. \A k \in Machines : SameReferences(k)
      BY <2>3, <3>1, <3>2 DEF SameReferences, MachineObject
    <3> QED
      BY <2>1, <3>2, <3>3, SameReferring
  <2> QED
    BY <1>5, <2>2, <2>3 DEF PatchStatus
<1> QED
  BY <1>1, <1>2, <1>3, <1>4, <1>5 DEF Work

\* A user deletes a machine.
LEMMA DeleteMachineReferring ==
    ASSUME "machine" \notin LaggingKinds, TypeOK, Referring, NEW m \in Machines, DeleteMachine(m)
    PROVE  Referring'
<1>1. machine[m] \in MachineObject /\ machine[m] # Absent /\ UNCHANGED worker
  BY DEF TypeOK, DeleteMachine
<1>2. /\ machineCache' = machine'
      /\ \A k \in Machines : machine'[k] = IF k = m THEN Deleted(machine[m]) ELSE machine[k]
  BY WriteMachineKept DEF DeleteMachine
<1>3. \A k \in Machines : SameReferences(k)
  BY <1>1, <1>2 DEF SameReferences, Deleted, Settled, MachineObject
<1> QED
  BY <1>1, <1>2, <1>3, SameReferring

\* With machines read up to date, references and jobs stay in step.
LEMMA ReferringAlways ==
    ASSUME "machine" \notin LaggingKinds
    PROVE  Spec => []Referring
<1>1. Init => Referring
  BY DEF Init, Referring, ProviderIDMatchesHostRef, JobInStep, NewMachine
<1>2. TypeOK /\ Referring /\ [Next]_vars => Referring'
  <2> SUFFICES ASSUME TypeOK, Referring, [Next]_vars PROVE Referring'
    OBVIOUS
  <2>1. CASE UNCHANGED <<machine, machineCache, worker>>
    BY <2>1, SameReferring DEF Referring, SameReferences
  <2>2. CASE SyncMachines \/ Crash
    BY <2>2, SameReferring DEF SyncMachines, Crash, Idle, Referring, SameReferences
  <2>3. CASE \E m \in Machines : Reconcile(m)
    BY <2>3, ReconcileReferring
  <2>4. CASE Work
    BY <2>4, WorkReferring
  <2>5. ASSUME NEW m \in Machines, DeleteMachine(m)
        PROVE  Referring'
    BY <2>5, DeleteMachineReferring
  <2>6. ASSUME NEW h \in Hosts, ReconcileHost(h) \/ Agent(h) \/ DeleteHost(h)
        PROVE  UNCHANGED <<machine, machineCache, worker>>
    BY <2>6 DEF ReconcileHost, DeleteHost, Agent, Register, Install, Bootstrap,
         ReportBootstrapped, TriggerReset, DeleteElementalHost, Reset, WriteHost, apiVars, worker
  <2>7. ASSUME NEW m \in Machines, SetOwner(m) \/ Provision(m)
        PROVE  UNCHANGED <<machine, machineCache, worker>>
    BY <2>7 DEF SetOwner, Provision, apiVars, worker
  <2>8. CASE SyncHosts \/ InitializeControlPlane \/ UNCHANGED vars
    BY <2>1, <2>8 DEF SyncHosts, InitializeControlPlane, apiVars, worker, vars
  <2> QED
    BY <2>1, <2>2, <2>3, <2>4, <2>5, <2>6, <2>7, <2>8 DEF Next
<1>3. Spec => []TypeOK
  BY TypeCorrect
<1> QED
  BY <1>1, <1>2, <1>3, PTL DEF Spec

\* With machines read up to date, the provider ID of a machine is that of the
\* host it refers to, through every re-association, failed call and crash.
THEOREM ProviderIDFollowsHostRef ==
    ASSUME "machine" \notin LaggingKinds
    PROVE  Spec => []ProviderIDMatchesHostRef
<1>1. Spec => []Referring
  BY ReferringAlways
<1>2. Referring => ProviderIDMatchesHostRef
  BY DEF Referring
<1> QED
  BY <1>1, <1>2, PTL
=============================================================================

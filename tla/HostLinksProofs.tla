-------------------------- MODULE HostLinksProofs --------------------------
(* What the two references of an association promise each other, and what  *)
(* a machine's readiness and its deletion promise about its host.          *)
EXTENDS HostPoolProofs

\* What a step may do to a host that it does not link: it registers a host of
\* its own, or leaves the link as it is and takes back neither a deletion nor
\* a reset.
Tracked(h) ==
    host'[h] # Absent =>
        \/ /\ host[h] = Absent
           /\ host'[h].machineRef = None
           /\ box[h].identity < MaxRegistrations
           /\ box'[h].identity # 0
           /\ box'[h].stage # "unregistered"
        \/ /\ host[h] # Absent
           /\ host'[h].machineRef = host[h].machineRef
           /\ host[h].deleting => host'[h].deleting
           /\ host[h].needsReset => host'[h].needsReset

\* What a step may do to a box: it keeps having registered, and it forgets the
\* machine it joined, and starts over, only in a reset.
BoxTracked(h) ==
    /\ box[h].identity # 0 => box'[h].identity # 0
    /\ box'[h].joined = box[h].joined \/ box[h].joined = None
         \/ (host[h] # Absent /\ host[h].needsReset)
    /\ box'[h].stage = "unregistered" =>
         box[h].stage = "unregistered" \/ (host[h] # Absent /\ host[h].needsReset)

\* The worker's patch of a host that had no link.
LinksHost ==
    /\ LinkHost
    /\ job.dirty
    /\ host[job.h] # Absent
    /\ WriteHost(job.h, [host[job.h] EXCEPT !.machineRef = job.m])

\* What it does to the hosts.
Linking ==
    /\ job.h \in Hosts /\ job.m \in Machines
    /\ host[job.h] # Absent /\ host[job.h].machineRef = None
    /\ host'[job.h] # Absent
    /\ host'[job.h].machineRef = job.m
    /\ host'[job.h].deleting = host[job.h].deleting
    /\ host'[job.h].needsReset = host[job.h].needsReset
    /\ \A k \in Hosts \ {job.h} : host'[k] = host[k]
    /\ UNCHANGED box

LEMMA LinksHostLinking ==
    ASSUME "host" \notin LaggingKinds, TypeOK, Joined, LinksHost
    PROVE  Linking
<1> DEFINE linked == [host[job.h] EXCEPT !.machineRef = job.m]
<1>1. /\ job.h \in Hosts /\ job.m \in Machines /\ host[job.h] \in HostObject
      /\ UNCHANGED box /\ host[job.h] # Absent /\ host[job.h].machineRef = None
  BY DEF TypeOK, LinksHost, LinkHost, Job, Joined, LinkPending
<1>2. /\ linked \in HostObject
      /\ linked.machineRef = job.m
      /\ linked.deleting = host[job.h].deleting
      /\ linked.needsReset = host[job.h].needsReset
  BY <1>1 DEF HostObject
<1>3. \A k \in Hosts : host'[k] = IF k = job.h THEN linked ELSE host[k]
  BY <1>1, WriteKept DEF LinksHost
<1> HIDE DEF linked
<1> QED
  BY <1>1, <1>2, <1>3, ConstantsAssumption DEF Linking

\* Writing one field of a host keeps its link.
LEMMA WriteTracked ==
    ASSUME "host" \notin LaggingKinds, TypeOK, NEW h \in Hosts, host[h] # Absent,
           NEW object, WriteHost(h, object),
           object # Absent =>
               /\ object.machineRef = host[h].machineRef
               /\ host[h].deleting => object.deleting
               /\ host[h].needsReset => object.needsReset
    PROVE  \A k \in Hosts : Tracked(k)
BY WriteKept DEF Tracked

LEMMA DeleteTracked ==
    ASSUME "host" \notin LaggingKinds, TypeOK, NEW h \in Hosts, host[h] # Absent,
           WriteHost(h, Deleted(host[h]))
    PROVE  \A k \in Hosts : Tracked(k)
<1>1. host[h] \in HostObject
  BY DEF TypeOK
<1>2. Deleted(host[h]) # Absent =>
        /\ Deleted(host[h]).machineRef = host[h].machineRef
        /\ host[h].deleting => Deleted(host[h]).deleting
        /\ host[h].needsReset => Deleted(host[h]).needsReset
  BY <1>1 DEF Deleted, Settled, HostObject
<1> QED
  BY <1>2, WriteTracked

LEMMA ReconcileHostTracked ==
    ASSUME "host" \notin LaggingKinds, TypeOK, Joined, NEW h \in Hosts, ReconcileHost(h)
    PROVE  \A k \in Hosts : Tracked(k)
<1> DEFINE old == host[h]
           new == HostReconciled(old)
           merged == [old EXCEPT
                !.finalizer  = Merged(@, old.finalizer, new.finalizer),
                !.needsReset = Merged(@, old.needsReset, new.needsReset)]
<1>1. /\ old \in HostObject /\ old # Absent
      /\ WriteHost(h, Settled(merged))
  BY DEF TypeOK, ReconcileHost, Joined
<1>2. old.needsReset => new.needsReset
  BY <1>1 DEF HostReconciled, HostObject
<1> HIDE DEF new
<1>3. /\ merged.machineRef = old.machineRef
      /\ merged.deleting = old.deleting
      /\ old.needsReset => merged.needsReset
  BY <1>1, <1>2 DEF Merged, HostObject
<1> HIDE DEF merged
<1>4. Settled(merged) # Absent => Settled(merged) = merged
  BY DEF Settled
<1> QED
  BY <1>1, <1>3, <1>4, WriteTracked

LEMMA AgentTracked ==
    ASSUME "host" \notin LaggingKinds, TypeOK, Joined, PoolInv, NEW h \in Hosts, Agent(h)
    PROVE  \A k \in Hosts : Tracked(k) /\ BoxTracked(k)
<1>1. /\ box \in [Hosts -> Box] /\ box[h] \in Box /\ hostCache = host
      /\ box[h].identity \in 0..MaxRegistrations
  BY TypeParts DEF BoxOK, Joined, Box
<1>2. \A k \in Hosts \ {h} : box'[k] = box[k]
  BY <1>1 DEF Agent, Register, Install, Bootstrap, ReportBootstrapped, TriggerReset,
         DeleteElementalHost, Reset
<1>3. CASE Register(h)
  <2>1. /\ host[h] = Absent /\ box[h].identity < MaxRegistrations
        /\ WriteHost(h, NewHost(box[h].identity + 1))
    BY <1>3 DEF Register
  <2>2. /\ box'[h].identity = box[h].identity + 1 /\ box'[h].joined = box[h].joined
        /\ box'[h].stage = "registered"
    BY <1>1, <1>3 DEF Register, Box
  <2>3. box'[h].identity # 0
    BY <1>1, <2>2, ConstantsAssumption
  <2>4. \A k \in Hosts : host'[k] = IF k = h THEN NewHost(box[h].identity + 1) ELSE host[k]
    BY <2>1, WriteKept
  <2> QED
    BY <1>2, <2>1, <2>2, <2>3, <2>4 DEF Tracked, BoxTracked, NewHost
<1>4. CASE Install(h) \/ ReportBootstrapped(h) \/ Reset(h)
  <2>1. host[h] # Absent /\ host[h] \in HostObject
    BY <1>4 DEF Install, ReportBootstrapped, CanReport, Running, Reset, TypeOK
  <2>2. PICK new :
          /\ WriteHost(h, new)
          /\ \/ new = [host[h] EXCEPT !.installed = TRUE]
             \/ new = [host[h] EXCEPT !.bootstrapped = TRUE]
             \/ new = [host[h] EXCEPT !.reset = TRUE]
    BY <1>4 DEF Install, ReportBootstrapped, Reset
  <2>3. /\ new.machineRef = host[h].machineRef
        /\ new.deleting = host[h].deleting
        /\ new.needsReset = host[h].needsReset
    BY <2>1, <2>2 DEF HostObject
  <2>4. \A k \in Hosts : Tracked(k)
    BY <2>1, <2>2, <2>3, WriteTracked
  <2>5. box'[h].identity = box[h].identity
    BY <1>1, <1>4 DEF Install, ReportBootstrapped, Reset, Box
  <2>6. \/ box'[h].joined = box[h].joined /\ box'[h].stage # "unregistered"
        \/ host[h].needsReset
    <3>1. CASE Install(h) \/ ReportBootstrapped(h)
      BY <1>1, <3>1 DEF Install, ReportBootstrapped, CanReport, Running, Box
    <3>2. CASE Reset(h)
      BY <2>1, <3>2 DEF Reset, PoolInv, ResetInOrder, Leaving
    <3> QED
      BY <1>4, <3>1, <3>2
  <2> QED
    BY <1>2, <2>1, <2>4, <2>5, <2>6 DEF BoxTracked
<1>5. CASE Bootstrap(h) \/ TriggerReset(h) \/ DeleteElementalHost(h)
  <2>1. \A k \in Hosts : Tracked(k)
    <3>1. CASE UNCHANGED apiVars
      BY <3>1 DEF Tracked, apiVars
    <3>2. CASE ~UNCHANGED apiVars
      BY <1>5, <3>2, DeleteTracked DEF Bootstrap, TriggerReset, DeleteElementalHost
    <3> QED
      BY <3>1, <3>2
  <2>2. /\ box'[h].identity = box[h].identity
        /\ box'[h].joined = box[h].joined \/ box[h].joined = None
        /\ box'[h].stage # "unregistered"
    BY <1>1, <1>5 DEF Bootstrap, Running, TriggerReset, DeleteElementalHost, Box
  <2> QED
    BY <1>2, <2>1, <2>2 DEF BoxTracked
<1> QED
  BY <1>3, <1>4, <1>5 DEF Agent

\* Every step but the worker's link keeps the links as they are.
LEMMA StepTracked ==
    ASSUME "host" \notin LaggingKinds, TypeOK, Joined, PoolInv, [Next]_vars
    PROVE  /\ \A h \in Hosts : BoxTracked(h)
           /\ LinksHost \/ \A h \in Hosts : Tracked(h)
<1>1. CASE UNCHANGED <<host, box>>
  BY <1>1 DEF Tracked, BoxTracked
<1>2. CASE LinkHost
  <2>1. UNCHANGED box
    BY <1>2 DEF LinkHost
  <2>2. LinksHost \/ UNCHANGED host
    BY <1>2 DEF LinkHost, LinksHost, apiVars
  <2> QED
    BY <2>1, <2>2 DEF Tracked, BoxTracked
<1>3. CASE MarkReset
  <2> DEFINE marked == [host[job.h] EXCEPT !.needsReset = TRUE]
  <2>1. UNCHANGED box /\ job.h \in Hosts
    BY <1>3 DEF MarkReset, TypeOK
  <2>2. CASE host[job.h] # Absent /\ WriteHost(job.h, marked)
    <3>1. host[job.h] \in HostObject
      BY <2>1, <2>2 DEF TypeOK
    <3>2. /\ marked.machineRef = host[job.h].machineRef
          /\ marked.deleting = host[job.h].deleting
          /\ marked.needsReset
      BY <3>1 DEF HostObject
    <3> HIDE DEF marked
    <3> QED
      BY <2>1, <2>2, <3>2, WriteTracked DEF BoxTracked
  <2> QED
    BY <1>1, <1>3, <2>1, <2>2 DEF MarkReset, apiVars
<1>4. ASSUME NEW h \in Hosts, ReconcileHost(h) \/ DeleteHost(h)
      PROVE  \A k \in Hosts : Tracked(k) /\ BoxTracked(k)
  <2>1. UNCHANGED box
    BY <1>4 DEF ReconcileHost, DeleteHost
  <2> QED
    BY <1>4, <2>1, ReconcileHostTracked, DeleteTracked DEF DeleteHost, BoxTracked
<1>5. ASSUME NEW h \in Hosts, Agent(h)
      PROVE  \A k \in Hosts : Tracked(k) /\ BoxTracked(k)
  BY <1>5, AgentTracked
<1>6. ASSUME NEW m \in Machines, Reconcile(m) \/ SetOwner(m) \/ Provision(m) \/ DeleteMachine(m)
      PROVE  UNCHANGED <<host, box>>
  BY <1>6 DEF Reconcile, ReconcileEarly, AssociateElementalHost, DropHostRef,
         ReadError, AwaitElementalHost, ReconcileDelete, Begin,
         SetOwner, Provision, DeleteMachine, WriteMachine, apiVars
<1>7. CASE \/ SyncMachines \/ SyncHosts \/ Crash \/ InitializeControlPlane
           \/ SetProviderID \/ PatchSpec \/ PatchStatus \/ UNCHANGED vars
  <2>1. UNCHANGED <<host, box>>
    BY <1>7 DEF SyncMachines, SyncHosts, Crash, InitializeControlPlane, SetProviderID,
         PatchSpec, PatchStatus, WriteMachine, apiVars, vars
  <2> QED
    BY <1>1, <2>1
<1> QED
  BY <1>1, <1>2, <1>3, <1>4, <1>5, <1>6, <1>7 DEF Next, Work
-----------------------------------------------------------------------------
(* What a step does to the machines and to the worker.                     *)

\* The worker's patch of a machine's spec and metadata.
PatchesSpec ==
    /\ PatchSpec
    /\ machine[job.m] # Absent
    /\ WriteMachine(job.m, Settled([machine[job.m] EXCEPT
          !.finalizer  = Merged(@, job.before.finalizer, job.after.finalizer),
          !.hostRef    = Merged(@, job.before.hostRef, job.after.hostRef),
          !.providerID = Merged(@, job.before.providerID, job.after.providerID)]))

\* What it does to the machines.
Patching ==
    /\ pc = "patchSpec" /\ pc' \in {"idle", "patchStatus"}
    /\ job.m \in Machines /\ machine[job.m] # Absent
    /\ machine'[job.m] # Absent =>
         /\ machine'[job.m].ready = machine[job.m].ready
         /\ machine'[job.m].hostRef =
              Merged(machine[job.m].hostRef, job.before.hostRef, job.after.hostRef)
         /\ machine'[job.m].providerID =
              Merged(machine[job.m].providerID, job.before.providerID, job.after.providerID)
    /\ (machine'[job.m] = Absent /\ machine[job.m].finalizer) =>
         job.before.finalizer /\ ~job.after.finalizer
    /\ \A k \in Machines \ {job.m} : machine'[k] = machine[k]

LEMMA PatchesSpecPatching ==
    ASSUME TypeOK, PatchesSpec
    PROVE  Patching
<1> DEFINE old == machine[job.m]
           merged == [old EXCEPT
                !.finalizer  = Merged(@, job.before.finalizer, job.after.finalizer),
                !.hostRef    = Merged(@, job.before.hostRef, job.after.hostRef),
                !.providerID = Merged(@, job.before.providerID, job.after.providerID)]
<1>1. /\ pc = "patchSpec" /\ pc' \in {"idle", "patchStatus"}
      /\ job \in Job /\ job.m \in Machines /\ old # Absent
  BY DEF PatchesSpec, PatchSpec, Idle, TypeOK, Job
<1>2. old \in MachineObject /\ job.before \in MachineObject /\ job.after \in MachineObject
  BY <1>1 DEF TypeOK, Job
<1>3. machine' = [machine EXCEPT ![job.m] = Settled(merged)] /\ machine \in [Machines -> MachineOrAbsent]
  BY TypeParts DEF PatchesSpec, WriteMachine, ObjectsOK
<1>4. /\ merged.ready = old.ready
      /\ merged.finalizer = Merged(old.finalizer, job.before.finalizer, job.after.finalizer)
      /\ merged.hostRef = Merged(old.hostRef, job.before.hostRef, job.after.hostRef)
      /\ merged.providerID = Merged(old.providerID, job.before.providerID, job.after.providerID)
      /\ merged \in MachineObject
  BY <1>2 DEF MachineObject, Merged
<1> HIDE DEF old, merged
<1>5. \A k \in Machines : machine'[k] = IF k = job.m THEN Settled(merged) ELSE machine[k]
  BY <1>1, <1>3
<1>6. /\ Settled(merged) # Absent => Settled(merged) = merged
      /\ Settled(merged) = Absent => ~merged.finalizer
  BY <1>4, ConstantsAssumption DEF Settled
<1>7. (old.finalizer /\ ~merged.finalizer) => job.before.finalizer /\ ~job.after.finalizer
  BY <1>2, <1>4 DEF Merged, MachineObject
<1> QED
  BY <1>1, <1>4, <1>5, <1>6, <1>7 DEF Patching, old

\* The worker's patch of a machine's status.
PatchesStatus ==
    /\ PatchStatus
    /\ machine[job.m] # Absent
    /\ WriteMachine(job.m, [machine[job.m] EXCEPT !.ready = job.after.ready])

\* What every other step does to a machine.
MachineKept(m) ==
    /\ machine'[m] # Absent =>
         /\ machine[m] # Absent
         /\ machine'[m].ready = machine[m].ready
         /\ machine'[m].hostRef = machine[m].hostRef
         /\ machine'[m].providerID = machine[m].providerID
    /\ (machine[m] # Absent /\ machine'[m] = Absent) => ~machine[m].finalizer

\* What that patch does to the machines.
Publishing ==
    /\ pc = "patchStatus" /\ pc' = "idle"
    /\ job.m \in Machines
    /\ machine[job.m] # Absent /\ machine'[job.m] # Absent
    /\ machine'[job.m].ready = job.after.ready
    /\ machine'[job.m].hostRef = machine[job.m].hostRef
    /\ machine'[job.m].providerID = machine[job.m].providerID
    /\ \A k \in Machines \ {job.m} : machine'[k] = machine[k]

LEMMA PatchesStatusPublishing ==
    ASSUME TypeOK, PatchesStatus
    PROVE  Publishing
<1> DEFINE patched == [machine[job.m] EXCEPT !.ready = job.after.ready]
<1>1. /\ pc = "patchStatus" /\ pc' = "idle"
      /\ job \in Job /\ job.m \in Machines /\ machine[job.m] # Absent
  BY DEF PatchesStatus, PatchStatus, Idle, TypeOK, Job
<1>2. machine[job.m] \in MachineObject /\ job.after \in MachineObject
  BY <1>1 DEF TypeOK, Job
<1>3. machine' = [machine EXCEPT ![job.m] = patched] /\ machine \in [Machines -> MachineOrAbsent]
  BY TypeParts DEF PatchesStatus, WriteMachine, ObjectsOK
<1>4. /\ patched \in MachineObject
      /\ patched.ready = job.after.ready
      /\ patched.hostRef = machine[job.m].hostRef
      /\ patched.providerID = machine[job.m].providerID
  BY <1>2 DEF MachineObject
<1> HIDE DEF patched
<1>5. \A k \in Machines : machine'[k] = IF k = job.m THEN patched ELSE machine[k]
  BY <1>1, <1>3
<1> QED
  BY <1>1, <1>4, <1>5, ConstantsAssumption DEF Publishing

\* Every step patches a machine's spec, or its status, or keeps the machines.
LEMMA StepMachines ==
    ASSUME TypeOK, [Next]_vars
    PROVE  Patching \/ Publishing \/ \A m \in Machines : MachineKept(m)
<1>1. CASE UNCHANGED machine
  BY <1>1 DEF MachineKept
<1>2. CASE PatchSpec \/ PatchStatus
  <2>1. PatchesSpec \/ PatchesStatus \/ UNCHANGED machine
    BY <1>2 DEF PatchSpec, PatchStatus, PatchesSpec, PatchesStatus, apiVars
  <2> QED
    BY <1>1, <2>1, PatchesSpecPatching, PatchesStatusPublishing
<1>3. ASSUME NEW m \in Machines, DeleteMachine(m)
      PROVE  \A k \in Machines : MachineKept(k)
  <2>1. machine[m] \in MachineObject /\ machine[m] # Absent
    BY <1>3 DEF TypeOK, DeleteMachine
  <2>2. \A k \in Machines : machine'[k] = IF k = m THEN Deleted(machine[m]) ELSE machine[k]
    BY <1>3, TypeParts DEF DeleteMachine, WriteMachine, ObjectsOK
  <2> DEFINE marked == [machine[m] EXCEPT !.deleting = TRUE]
  <2>3. /\ marked.ready = machine[m].ready /\ marked.finalizer = machine[m].finalizer
        /\ marked.hostRef = machine[m].hostRef /\ marked.providerID = machine[m].providerID
        /\ marked \in MachineObject
    BY <2>1 DEF MachineObject
  <2>4. Deleted(machine[m]) = Settled(marked)
    BY DEF Deleted
  <2> HIDE DEF marked
  <2>5. \/ Deleted(machine[m]) = marked
        \/ Deleted(machine[m]) = Absent /\ ~machine[m].finalizer
    BY <2>3, <2>4 DEF Settled
  <2> QED
    BY <2>1, <2>2, <2>3, <2>5, ConstantsAssumption DEF MachineKept
<1>4. ASSUME NEW m \in Machines, Reconcile(m) \/ SetOwner(m) \/ Provision(m)
      PROVE  UNCHANGED machine
  BY <1>4 DEF Reconcile, ReconcileEarly, AssociateElementalHost, DropHostRef, ReadError,
         AwaitElementalHost, ReconcileDelete, Begin, SetOwner, Provision, apiVars
<1>5. ASSUME NEW h \in Hosts, ReconcileHost(h) \/ Agent(h) \/ DeleteHost(h)
      PROVE  UNCHANGED machine
  BY <1>5 DEF ReconcileHost, DeleteHost, Agent, Register, Install, Bootstrap,
         ReportBootstrapped, TriggerReset, DeleteElementalHost, Reset, WriteHost, apiVars
<1>6. CASE \/ SyncMachines \/ SyncHosts \/ Crash \/ InitializeControlPlane
           \/ LinkHost \/ MarkReset \/ SetProviderID \/ UNCHANGED vars
  <2>1. UNCHANGED machine
    BY <1>6 DEF SyncMachines, SyncHosts, Crash, InitializeControlPlane, LinkHost, MarkReset,
         SetProviderID, WriteHost, apiVars, vars
  <2> QED
    BY <1>1, <2>1
<1> QED
  BY <1>1, <1>2, <1>3, <1>4, <1>5, <1>6 DEF Next, Work
-----------------------------------------------------------------------------
(* What a reconcile of m begins with, by what it is about to do.           *)

\* It has found a host to link, of its own or nobody's.
BeginsLink(m) ==
    /\ pc' = "linkHost"
    /\ job'.h \in Hosts /\ hostCache[job'.h] # Absent
    /\ hostCache[job'.h].machineRef \in {m, None}
    /\ job'.dirty = (hostCache[job'.h].machineRef # m)
    /\ job'.before.hostRef = None /\ job'.after.hostRef = None
    /\ ~job'.after.ready /\ job'.after.finalizer

\* It has missed the host that the machine refers to.
BeginsDrop ==
    /\ pc' = "patchSpec"
    /\ job'.before.hostRef \in Hosts /\ hostCache[job'.before.hostRef] = Absent
    /\ job'.after.hostRef = None
    /\ ~job'.after.ready /\ job'.after.finalizer

\* It has to wait, for the owner, a host, or the bootstrap.
BeginsWait ==
    /\ pc' = "patchSpec"
    /\ job'.after.hostRef = job'.before.hostRef
    /\ job'.after.ready => job'.before.ready
    /\ job'.after.finalizer

\* It has found the host bootstrapped, and the provider ID set or not.
Bootstrapped(h) == hostCache[h] # Absent /\ hostCache[h].bootstrapped

BeginsIdentify ==
    /\ pc' = "setProviderID"
    /\ job'.before.hostRef \in Hosts /\ Bootstrapped(job'.before.hostRef)
    /\ job'.after.hostRef = job'.before.hostRef
    /\ job'.h = job'.before.hostRef
    /\ ~job'.after.ready /\ job'.after.finalizer

BeginsReady ==
    /\ pc' = "patchSpec"
    /\ job'.before.hostRef \in Hosts /\ Bootstrapped(job'.before.hostRef)
    /\ job'.after.hostRef = job'.before.hostRef
    /\ job'.after.providerID = job'.before.hostRef
    /\ job'.after.finalizer

\* The machine is being deleted, and has no host, or a host to reset.
BeginsRelease ==
    /\ pc' = "patchSpec"
    /\ job'.before.hostRef = None /\ job'.after.hostRef = None
    /\ job'.after.ready = job'.before.ready

BeginsReset ==
    /\ pc' = "markReset"
    /\ job'.h \in Hosts /\ hostCache[job'.h] # Absent
    /\ job'.before.hostRef = job'.h /\ job'.after.hostRef = job'.h
    /\ job'.dirty = ~hostCache[job'.h].needsReset
    /\ job'.after.ready = job'.before.ready

Begun(m) ==
    /\ pc = "idle" /\ machineCache[m] # Absent
    /\ UNCHANGED <<machine, machineCache, host, hostCache, box>>
    /\ job'.m = m /\ job'.before = machineCache[m]
    /\ \/ BeginsLink(m) \/ BeginsDrop \/ BeginsWait \/ BeginsIdentify
       \/ BeginsReady \/ BeginsRelease \/ BeginsReset

LEMMA ReconcileBegun ==
    ASSUME TypeOK, NEW m \in Machines, Reconcile(m)
    PROVE  Begun(m)
<1> DEFINE o == machineCache[m]
<1>1. /\ UNCHANGED <<machine, machineCache, host, hostCache, box>>
      /\ pc = "idle" /\ o # Absent
  BY DEF Reconcile, ReconcileEarly, AssociateElementalHost, DropHostRef, HostIsGone,
         ReadError, AwaitElementalHost, ReconcileDelete, Deletable, Provisionable,
         Reconcilable, Begin, apiVars
<1>2. o \in MachineObject
  BY <1>1 DEF TypeOK
<1>3. ASSUME NEW call, NEW h, NEW dirty, NEW after, Begin(m, call, h, dirty, after)
      PROVE  /\ pc' = call /\ job'.m = m /\ job'.h = h /\ job'.dirty = dirty
             /\ job'.before = o /\ job'.after = after
  BY <1>3 DEF Begin
<1>4. /\ WithFinalizer(o).hostRef = o.hostRef /\ WithFinalizer(o).ready = o.ready
      /\ WithFinalizer(o).finalizer /\ WithFinalizer(o) \in MachineObject
  BY <1>2 DEF WithFinalizer, MachineObject
<1>5. /\ NotReady(m).hostRef = o.hostRef /\ NotReady(m).providerID = o.providerID
      /\ ~NotReady(m).ready /\ NotReady(m).finalizer /\ NotReady(m) \in MachineObject
  BY <1>2 DEF NotReady, WithFinalizer, MachineObject
<1>6. Released(m).hostRef = o.hostRef /\ Released(m).ready = o.ready
  BY <1>2 DEF Released, MachineObject
<1>7. CASE ReconcileEarly(m) \/ ReadError(m)
  <2>1. BeginsWait
    BY <1>3, <1>4, <1>5, <1>7 DEF ReconcileEarly, ReadError, BeginsWait
  <2> QED
    BY <1>1, <1>3, <1>7, <2>1 DEF Begun, ReconcileEarly, ReadError
<1>8. CASE AssociateElementalHost(m)
  <2>1. o.hostRef = None
    BY <1>8 DEF AssociateElementalHost
  <2>2. CASE Begin(m, "patchSpec", None, FALSE, NotReady(m))
    BY <1>1, <1>3, <1>5, <2>2 DEF Begun, BeginsWait
  <2>3. ASSUME NEW h \in Candidates(m),
               Begin(m, "linkHost", h, hostCache[h].machineRef # m, NotReady(m))
        PROVE  Begun(m)
    <3>1. /\ h \in Hosts /\ hostCache[h] # Absent
          /\ hostCache[h].machineRef \in {m, None}
      BY ConstantsAssumption DEF Candidates, AlreadyLinked, NewAvailable
    <3>2. /\ pc' = "linkHost" /\ job'.m = m /\ job'.h = h
          /\ job'.dirty = (hostCache[h].machineRef # m)
          /\ job'.before = o /\ job'.after = NotReady(m)
      BY <1>3, <2>3
    <3>3. BeginsLink(m)
      BY <1>5, <2>1, <3>1, <3>2 DEF BeginsLink
    <3> QED
      BY <1>1, <3>2, <3>3 DEF Begun
  <2> QED
    BY <1>8, <2>2, <2>3 DEF AssociateElementalHost
<1>9. CASE DropHostRef(m)
  <2> DEFINE after == [NotReady(m) EXCEPT !.hostRef = None, !.providerID = None]
  <2>1. after.hostRef = None /\ ~after.ready /\ after.finalizer
    BY <1>5 DEF MachineObject
  <2>2. Begin(m, "patchSpec", None, FALSE, after)
    BY <1>9 DEF DropHostRef
  <2>3. o.hostRef \in Hosts /\ hostCache[o.hostRef] = Absent
    BY <1>9 DEF DropHostRef, HostIsGone
  <2> HIDE DEF after
  <2>4. pc' = "patchSpec" /\ job'.m = m /\ job'.before = o /\ job'.after = after
    BY <1>3, <2>2
  <2>5. BeginsDrop
    BY <2>1, <2>3, <2>4 DEF BeginsDrop
  <2> QED
    BY <1>1, <2>4, <2>5 DEF Begun
<1>10. CASE AwaitElementalHost(m)
  <2> DEFINE after == [NotReady(m) EXCEPT !.ready = TRUE]
  <2>1. PICK h \in Hosts :
          /\ o.hostRef = h /\ hostCache[h] # Absent
          /\ \/ /\ hostCache[h].bootstrapped /\ o.providerID = h
                /\ Begin(m, "patchSpec", None, FALSE, after)
             \/ /\ hostCache[h].bootstrapped
                /\ Begin(m, "setProviderID", h, FALSE, NotReady(m))
             \/ Begin(m, "patchSpec", None, FALSE, NotReady(m))
    BY <1>10 DEF AwaitElementalHost
  <2>2. after.hostRef = o.hostRef /\ after.providerID = o.providerID /\ after.finalizer
    BY <1>5 DEF MachineObject
  <2> HIDE DEF after, o
  <2>3. CASE o.providerID = h /\ hostCache[h].bootstrapped
             /\ Begin(m, "patchSpec", None, FALSE, after)
    <3>1. BeginsReady
      BY <1>3, <2>1, <2>2, <2>3 DEF BeginsReady, Bootstrapped
    <3> QED
      BY <1>1, <1>3, <2>3, <3>1 DEF Begun, o
  <2>4. CASE hostCache[h].bootstrapped /\ Begin(m, "setProviderID", h, FALSE, NotReady(m))
    <3>1. /\ pc' = "setProviderID" /\ job'.m = m /\ job'.h = h
          /\ job'.before = o /\ job'.after = NotReady(m)
      BY <1>3, <2>4
    <3>2. BeginsIdentify
      BY <1>5, <2>1, <2>4, <3>1 DEF BeginsIdentify, Bootstrapped
    <3> QED
      BY <1>1, <3>1, <3>2 DEF Begun, o
  <2>5. CASE Begin(m, "patchSpec", None, FALSE, NotReady(m))
    <3>1. BeginsWait
      BY <1>3, <1>5, <2>5 DEF BeginsWait
    <3> QED
      BY <1>1, <1>3, <2>5, <3>1 DEF Begun, o
  <2> QED
    BY <2>1, <2>3, <2>4, <2>5
<1>11. CASE ReconcileDelete(m)
  <2>1. CASE o.hostRef = None /\ Begin(m, "patchSpec", None, FALSE, Released(m))
    <3>1. BeginsRelease
      BY <1>3, <1>6, <2>1 DEF BeginsRelease
    <3> QED
      BY <1>1, <1>3, <2>1, <3>1 DEF Begun
  <2>2. ASSUME NEW h \in Hosts, o.hostRef = h, hostCache[h] # Absent,
               Begin(m, "markReset", h, ~hostCache[h].needsReset, Released(m))
        PROVE  Begun(m)
    <3>1. /\ pc' = "markReset" /\ job'.m = m /\ job'.h = h
          /\ job'.dirty = ~hostCache[h].needsReset
          /\ job'.before = o /\ job'.after = Released(m)
      BY <1>3, <2>2
    <3>2. BeginsReset
      BY <1>6, <2>2, <3>1 DEF BeginsReset
    <3> QED
      BY <1>1, <3>1, <3>2 DEF Begun
  <2> QED
    BY <1>11, <2>1, <2>2 DEF ReconcileDelete
<1> QED
  BY <1>7, <1>8, <1>9, <1>10, <1>11 DEF Reconcile

\* What the calls of a reconcile make of its job, up to the patch of the spec.
NotesLink ==
    /\ pc = "linkHost" /\ pc' = "patchSpec"
    /\ job'.m = job.m /\ job'.before = job.before
    /\ job'.after.ready = job.after.ready
    /\ job'.after.finalizer = job.after.finalizer
    /\ \/ /\ LinksHost
          /\ \/ job'.after.hostRef = job.h
             \/ Faults /\ job'.after.hostRef = job.after.hostRef
       \/ /\ UNCHANGED <<host, hostCache>>
          /\ \/ job'.after.hostRef = job.after.hostRef
             \/ ~job.dirty /\ job'.after.hostRef = job.h
    /\ UNCHANGED <<machine, box>>

NotesReset ==
    /\ pc = "markReset" /\ pc' = "patchSpec" /\ job' = job
    /\ UNCHANGED <<machine, box>>
    /\ ~job.dirty \/ (host'[job.h] # Absent /\ host'[job.h].needsReset)

NotesIdentity ==
    /\ pc = "setProviderID" /\ pc' = "patchSpec"
    /\ job'.m = job.m /\ job'.before = job.before
    /\ job'.after.hostRef = job.after.hostRef
    /\ job'.after.finalizer = job.after.finalizer
    /\ \/ job'.after.ready = job.after.ready
       \/ job'.after.providerID = job.h
    /\ UNCHANGED <<machine, host, hostCache, box>>

\* The patch of the spec, when the status is to be patched next.
NotesStatus ==
    /\ pc = "patchSpec" /\ pc' = "patchStatus" /\ job' = job
    /\ job.before.ready # job.after.ready
    /\ UNCHANGED <<host, hostCache, box>>
    /\ Patching \/ (UNCHANGED machine /\ (machine[job.m] = Absent \/ Faults))

\* What a step does to the worker.
LEMMA StepWorker ==
    ASSUME TypeOK, [Next]_vars
    PROVE  \/ UNCHANGED worker
           \/ pc' = "idle"
           \/ \E m \in Machines : Begun(m)
           \/ NotesLink \/ NotesReset \/ NotesIdentity \/ NotesStatus
<1>1. CASE LinkHost
  <2>1. /\ job \in Job /\ job.after \in MachineObject
        /\ pc = "linkHost" /\ pc' = "patchSpec" /\ UNCHANGED <<machine, box>>
    BY <1>1 DEF TypeOK, LinkHost, Job, WriteHost, apiVars
  <2> DEFINE done == [job EXCEPT !.after.hostRef = job.h]
  <2>2. /\ done.m = job.m /\ done.before = job.before
        /\ done.after = [job.after EXCEPT !.hostRef = job.h]
    BY <2>1 DEF Job
  <2>3. /\ done.after.ready = job.after.ready
        /\ done.after.finalizer = job.after.finalizer
        /\ done.after.hostRef = job.h
    BY <2>1, <2>2 DEF MachineObject
  <2>4. \/ ~job.dirty /\ job' = done /\ UNCHANGED apiVars
        \/ LinksHost /\ (job' = done \/ (Faults /\ job' = job))
        \/ UNCHANGED <<job, apiVars>>
    BY <1>1 DEF LinkHost, LinksHost
  <2> HIDE DEF done
  <2>5. NotesLink
    <3>1. CASE job' = done /\ (LinksHost \/ (~job.dirty /\ UNCHANGED apiVars))
      BY <2>1, <2>2, <2>3, <3>1 DEF NotesLink, apiVars
    <3>2. CASE job' = job /\ ((LinksHost /\ Faults) \/ UNCHANGED apiVars)
      BY <2>1, <3>2 DEF NotesLink, apiVars
    <3> QED
      BY <2>4, <3>1, <3>2
  <2> QED
    BY <2>5
<1>2. CASE MarkReset
  <2>1. CASE pc' = "patchSpec" /\ job' = job
    <3>1. /\ job.h \in Hosts /\ pc = "markReset" /\ UNCHANGED <<machine, box>>
          /\ host \in [Hosts -> HostOrAbsent]
      BY <1>2, TypeParts DEF TypeOK, MarkReset, WriteHost, apiVars, ObjectsOK
    <3> DEFINE marked == [host[job.h] EXCEPT !.needsReset = TRUE]
    <3>2. CASE host[job.h] # Absent /\ WriteHost(job.h, marked)
      <4>1. host[job.h] \in HostObject
        BY <3>1, <3>2 DEF HostOrAbsent
      <4>2. marked.needsReset /\ marked \in HostObject
        BY <4>1 DEF HostObject
      <4> HIDE DEF marked
      <4>3. host'[job.h] = marked
        BY <3>1, <3>2 DEF WriteHost
      <4> QED
        BY <2>1, <3>1, <4>2, <4>3, ConstantsAssumption DEF NotesReset
    <3> QED
      BY <1>2, <2>1, <3>1, <3>2 DEF MarkReset, NotesReset, Idle
  <2> QED
    BY <1>2, <2>1 DEF MarkReset, Idle
<1>3. CASE SetProviderID
  <2>1. /\ job \in Job /\ job.after \in MachineObject
        /\ pc = "setProviderID" /\ pc' = "patchSpec"
        /\ UNCHANGED <<machine, host, hostCache, box>>
    BY <1>3 DEF TypeOK, SetProviderID, Job, apiVars
  <2> DEFINE done == [job EXCEPT !.after.providerID = job.h, !.after.ready = TRUE]
  <2>2. /\ done.m = job.m /\ done.before = job.before
        /\ done.after = [job.after EXCEPT !.providerID = job.h, !.ready = TRUE]
    BY <2>1 DEF Job
  <2>3. /\ done.after.providerID = job.h
        /\ done.after.finalizer = job.after.finalizer
        /\ done.after.hostRef = job.after.hostRef
    BY <2>1, <2>2 DEF MachineObject
  <2>4. job' = done \/ job' = job
    BY <1>3 DEF SetProviderID
  <2> HIDE DEF done
  <2>5. NotesIdentity
    BY <2>1, <2>2, <2>3, <2>4 DEF NotesIdentity
  <2> QED
    BY <2>5
<1>4. CASE PatchSpec
  <2>1. CASE pc' = "patchStatus"
    <3>1. /\ pc = "patchSpec" /\ job' = job /\ job.before.ready # job.after.ready
          /\ UNCHANGED <<host, hostCache, box>>
      BY <1>4, <2>1 DEF PatchSpec, Idle, WriteMachine, apiVars
    <3>2. PatchesSpec \/ (UNCHANGED machine /\ (machine[job.m] = Absent \/ Faults))
      BY <1>4 DEF PatchSpec, PatchesSpec, apiVars
    <3>3. NotesStatus
      BY <2>1, <3>1, <3>2, PatchesSpecPatching DEF NotesStatus
    <3> QED
      BY <3>3
  <2> QED
    BY <1>4, <2>1 DEF PatchSpec, Idle
<1>5. CASE PatchStatus \/ Crash
  BY <1>5 DEF PatchStatus, Crash, Idle
<1>6. ASSUME NEW m \in Machines, Reconcile(m)
      PROVE  Begun(m)
  BY <1>6, ReconcileBegun
<1>7. ASSUME NEW m \in Machines, SetOwner(m) \/ Provision(m) \/ DeleteMachine(m)
      PROVE  UNCHANGED worker
  BY <1>7 DEF SetOwner, Provision, DeleteMachine, worker
<1>8. ASSUME NEW h \in Hosts, ReconcileHost(h) \/ Agent(h) \/ DeleteHost(h)
      PROVE  UNCHANGED worker
  BY <1>8 DEF ReconcileHost, DeleteHost, Agent, Register, Install, Bootstrap,
         ReportBootstrapped, TriggerReset, DeleteElementalHost, Reset, worker
<1>9. CASE SyncMachines \/ SyncHosts \/ InitializeControlPlane \/ UNCHANGED vars
  BY <1>9 DEF SyncMachines, SyncHosts, InitializeControlPlane, worker, vars
<1> QED
  BY <1>1, <1>2, <1>3, <1>4, <1>5, <1>6, <1>7, <1>8, <1>9 DEF Next, Work
-----------------------------------------------------------------------------
(* The references answer each other.  The host that a machine refers to is *)
(* one that the machine has linked, and is either gone for good or linked  *)
(* to it still: a box that registers once does not come back under its     *)
(* name, and a link is only ever made on a host that has none.             *)

Answered(m, h) ==
    box[h].identity # 0 /\ (host[h] # Absent => host[h].machineRef = m)

\* The same of the next state, for the machine and the host named now.
StillAnswered(m, h) ==
    box'[h].identity # 0 /\ (host'[h] # Absent => host'[h].machineRef = m)

Enrolled == \A h \in Hosts : host[h] # Absent => box[h].identity # 0

RefAnswered ==
    \A m \in Machines, h \in Hosts :
        (machine[m] # Absent /\ machine[m].hostRef = h) => Answered(m, h)

\* The reference that a job is about to write is answered by then.
JobAnswered ==
    pc # "idle" =>
        /\ \A h \in Hosts :
             job.after.hostRef = h => job.before.hostRef = h \/ Answered(job.m, h)
        /\ pc = "linkHost" =>
             /\ box[job.h].identity # 0
             /\ ~job.dirty => Answered(job.m, job.h)

LinkInv == Enrolled /\ RefAnswered /\ JobAnswered

\* What the proofs of this section assume of a step.
HostsInStep == "host" \notin LaggingKinds /\ TypeOK /\ Joined /\ PoolInv /\ [Next]_vars

\* A busy worker has a machine, and a host where it needs one.
LEMMA WorkerBusy ==
    ASSUME TypeOK, pc # "idle"
    PROVE  /\ job.m \in Machines
           /\ pc \in {"linkHost", "markReset", "setProviderID"} => job.h \in Hosts
BY DEF TypeOK, Job

\* A host that has answered a machine never answers another.
LEMMA AnsweredKept ==
    ASSUME HostsInStep, MaxRegistrations = 1, NEW m \in Machines, NEW h \in Hosts, Answered(m, h)
    PROVE  StillAnswered(m, h)
<1>1. box[h].identity \in 0..MaxRegistrations
  BY TypeParts DEF HostsInStep, BoxOK, Box
<1>2. box'[h].identity # 0
  BY StepTracked DEF HostsInStep, BoxTracked, Answered
<1>3. CASE Tracked(h)
  BY <1>1, <1>2, <1>3 DEF Tracked, Answered, StillAnswered
<1>4. CASE LinksHost
  <2>1. Linking
    BY <1>4, LinksHostLinking DEF HostsInStep
  <2> QED
    BY <1>2, <2>1, ConstantsAssumption DEF Linking, Answered, StillAnswered
<1> QED
  BY <1>3, <1>4, StepTracked DEF HostsInStep

LEMMA EnrolledKept ==
    ASSUME HostsInStep, Enrolled
    PROVE  Enrolled'
<1> SUFFICES ASSUME NEW h \in Hosts, host'[h] # Absent
             PROVE  box'[h].identity # 0
  BY DEF Enrolled
<1>1. CASE Tracked(h)
  BY <1>1, StepTracked DEF HostsInStep, Tracked, BoxTracked, Enrolled
<1>2. CASE LinksHost
  <2>1. Linking
    BY <1>2, LinksHostLinking DEF HostsInStep
  <2> QED
    BY <2>1 DEF Linking, Enrolled
<1> QED
  BY <1>1, <1>2, StepTracked DEF HostsInStep

LEMMA RefAnsweredKept ==
    ASSUME HostsInStep, MaxRegistrations = 1, LinkInv
    PROVE  RefAnswered'
<1> SUFFICES ASSUME NEW m \in Machines, NEW h \in Hosts, machine'[m] # Absent, machine'[m].hostRef = h
             PROVE  StillAnswered(m, h)
  BY DEF RefAnswered, Answered, StillAnswered
<1>1. CASE machine[m] # Absent /\ machine[m].hostRef = h
  BY <1>1, AnsweredKept DEF LinkInv, RefAnswered
<1>2. CASE Patching /\ m = job.m /\ machine[m].hostRef # h
  <2>1. job.after.hostRef = h /\ job.before.hostRef # h
    BY <1>2 DEF Patching, Merged
  <2> QED
    BY <1>2, <2>1, AnsweredKept DEF Patching, LinkInv, JobAnswered
<1> QED
  BY <1>1, <1>2, StepMachines DEF HostsInStep, Patching, Publishing, MachineKept

LEMMA JobAnsweredKept ==
    ASSUME HostsInStep, MaxRegistrations = 1, LinkInv
    PROVE  JobAnswered'
<1>1. CASE pc' = "idle"
  BY <1>1 DEF JobAnswered
<1>2. ASSUME pc # "idle", pc' # "idle", job'.m = job.m, job'.before = job.before,
             \/ job'.after.hostRef = job.after.hostRef
             \/ StillAnswered(job.m, job.h) /\ job.h \in Hosts /\ job'.after.hostRef = job.h,
             pc' = "linkHost" => UNCHANGED worker
      PROVE  JobAnswered'
  <2>1. job.m \in Machines /\ (pc = "linkHost" => job.h \in Hosts)
    BY <1>2, WorkerBusy DEF HostsInStep
  <2>2. ASSUME NEW h \in Hosts, job'.after.hostRef = h
        PROVE  job'.before.hostRef = h \/ StillAnswered(job.m, h)
    BY <1>2, <2>1, <2>2, AnsweredKept DEF LinkInv, JobAnswered
  <2>3. ASSUME pc' = "linkHost"
        PROVE  /\ box'[job'.h].identity # 0
               /\ ~job'.dirty => StillAnswered(job.m, job.h)
    <3>1. pc = "linkHost" /\ job' = job
      BY <1>2, <2>3 DEF worker
    <3>2. box'[job.h].identity # 0
      BY <2>1, <3>1, StepTracked DEF HostsInStep, BoxTracked, LinkInv, JobAnswered
    <3> QED
      BY <2>1, <3>1, <3>2, AnsweredKept DEF LinkInv, JobAnswered
  <2>4. pc' = "linkHost" => job' = job
    BY <1>2 DEF worker
  <2> QED
    BY <1>2, <2>1, <2>2, <2>3, <2>4 DEF JobAnswered, Answered, StillAnswered
<1>3. CASE UNCHANGED worker
  BY <1>1, <1>2, <1>3 DEF worker
<1>4. CASE NotesReset \/ NotesIdentity \/ NotesStatus
  BY <1>2, <1>4 DEF NotesReset, NotesIdentity, NotesStatus
<1>5. CASE NotesLink
  <2>1. /\ pc = "linkHost" /\ pc' = "patchSpec"
        /\ job'.m = job.m /\ job'.before = job.before
    BY <1>5 DEF NotesLink
  <2>2. job.m \in Machines /\ job.h \in Hosts
    BY <2>1, WorkerBusy DEF HostsInStep
  <2>3. CASE LinksHost
    <3>1. Linking
      BY <2>3, LinksHostLinking DEF HostsInStep
    <3>2. StillAnswered(job.m, job.h)
      BY <2>1, <2>2, <3>1 DEF Linking, StillAnswered, LinkInv, JobAnswered
    <3> QED
      BY <1>2, <1>5, <2>1, <2>2, <3>2 DEF NotesLink
  <2>4. CASE ~job.dirty
    <3>1. StillAnswered(job.m, job.h)
      BY <2>1, <2>2, <2>4, AnsweredKept DEF LinkInv, JobAnswered
    <3> QED
      BY <1>2, <1>5, <2>1, <2>2, <3>1 DEF NotesLink
  <2> QED
    BY <1>2, <1>5, <2>1, <2>3, <2>4 DEF NotesLink
<1>6. ASSUME NEW m \in Machines, Begun(m)
      PROVE  JobAnswered'
  <2>1. UNCHANGED <<host, box>> /\ hostCache = host /\ job'.m = m
    BY <1>6 DEF Begun, HostsInStep, Joined
  <2>2. CASE BeginsLink(m)
    <3>1. /\ job'.h \in Hosts /\ host[job'.h] # Absent
          /\ ~job'.dirty => host[job'.h].machineRef = m
          /\ job'.after.hostRef = None
      BY <2>1, <2>2 DEF BeginsLink
    <3> QED
      BY <2>1, <3>1, ConstantsAssumption DEF JobAnswered, Answered, LinkInv, Enrolled
  <2>3. CASE ~BeginsLink(m)
    <3>1. pc' # "linkHost" /\ (job'.after.hostRef \in {job'.before.hostRef, None})
      BY <1>6, <2>3 DEF Begun, BeginsDrop, BeginsWait, BeginsIdentify, BeginsReady,
           BeginsRelease, BeginsReset
    <3> QED
      BY <3>1, ConstantsAssumption DEF JobAnswered
  <2> QED
    BY <2>2, <2>3
<1> QED
  BY <1>1, <1>3, <1>4, <1>5, <1>6, StepWorker DEF HostsInStep

\* With hosts read up to date, the three keep one another.
LEMMA LinkInvAlways ==
    ASSUME "host" \notin LaggingKinds, MaxRegistrations = 1
    PROVE  Spec => [](TypeOK /\ Joined /\ PoolInv /\ LinkInv)
<1>1. Spec => []TypeOK
  BY TypeCorrect
<1>2. Spec => []Joined
  BY JoinedAlways
<1>3. TypeOK /\ Joined /\ PoolInv /\ [Next]_vars => PoolInv'
  BY NextImplements DEF Implements
<1>4. Init => PoolInv
  BY InitImplements
<1>5. Init => LinkInv
  BY ConstantsAssumption DEF Init, LinkInv, Enrolled, RefAnswered, JobAnswered, NewMachine
<1>6. TypeOK /\ Joined /\ PoolInv /\ LinkInv /\ [Next]_vars => LinkInv'
  BY EnrolledKept, RefAnsweredKept, JobAnsweredKept DEF LinkInv, HostsInStep
<1> QED
  BY <1>1, <1>2, <1>3, <1>4, <1>5, <1>6, PTL DEF Spec

\* With hosts read up to date and boxes that register once, the host that a
\* machine refers to refers to the machine, whatever fails between the patch of
\* the host and that of the machine, and however old the copies of the machines
\* are that the reconciler reads.
THEOREM ReferencesAnswered ==
    ASSUME "host" \notin LaggingKinds, MaxRegistrations = 1
    PROVE  Spec => []LinkedBothWays
<1>1. LinkInv => LinkedBothWays
  BY DEF LinkInv, RefAnswered, Answered, LinkedBothWays
<1> QED
  BY <1>1, LinkInvAlways, PTL
-----------------------------------------------------------------------------
(* Readiness.  Only the patch of the status makes a machine ready, at the  *)
(* end of a reconcile that found it not ready; what such a job has read of *)
(* the machine holds until then, for no one else writes the references.    *)

\* The job is to make its machine ready.
Readies == job.after.ready /\ ~job.before.ready

\* A job learns that its machine is ready from the provider ID only, and
\* patches the status only if it differs.
JobReady ==
    /\ pc \in {"linkHost", "markReset", "setProviderID"} => ~Readies
    /\ pc = "patchStatus" => job.before.ready # job.after.ready

LEMMA JobReadyKept ==
    ASSUME TypeOK, JobReady, [Next]_vars
    PROVE  JobReady'
<1>1. CASE UNCHANGED worker \/ pc' = "idle"
  BY <1>1 DEF JobReady, Readies, worker
<1>2. CASE NotesLink \/ NotesReset \/ NotesIdentity \/ NotesStatus
  BY <1>2 DEF JobReady, NotesLink, NotesReset, NotesIdentity, NotesStatus
<1>3. ASSUME NEW m \in Machines, Begun(m)
      PROVE  JobReady'
  BY <1>3 DEF JobReady, Readies, Begun, BeginsLink, BeginsDrop, BeginsWait, BeginsIdentify,
       BeginsReady, BeginsRelease, BeginsReset
<1> QED
  BY <1>1, <1>2, <1>3, StepWorker

\* A step that makes a machine ready is the patch of the status of a job that
\* is to make it ready.
LEMMA BecomesReadyByJob ==
    ASSUME TypeOK, JobReady, [Next]_vars, NEW m \in Machines, BecomesReady(m)
    PROVE  pc = "patchStatus" /\ job.m = m /\ Readies
<1>1. Publishing /\ job.m = m /\ job.after.ready
  BY StepMachines DEF BecomesReady, Patching, Publishing, MachineKept
<1>2. job.before.ready \in BOOLEAN /\ job.after.ready \in BOOLEAN
  BY <1>1 DEF Publishing, TypeOK, Job, MachineObject
<1> QED
  BY <1>1, <1>2 DEF Publishing, JobReady, Readies

\* The provider ID is there to be patched before the status, and then there.
JobIdentified ==
    /\ (pc = "patchSpec" /\ Readies) => job.after.providerID # None
    /\ (pc = "patchStatus" /\ Readies /\ machine[job.m] # Absent)
         => machine[job.m].providerID # None

LEMMA JobIdentifiedKept ==
    ASSUME ~Faults, TypeOK, Referring, JobReady, JobIdentified, [Next]_vars
    PROVE  JobIdentified'
<1>1. CASE pc' = "idle"
  BY <1>1 DEF JobIdentified
<1>2. CASE UNCHANGED worker /\ pc' # "idle"
  <2>1. job' = job /\ pc' = pc /\ job.m \in Machines
    BY <1>2, WorkerBusy DEF worker
  <2>2. CASE pc = "patchStatus"
    <3>1. MachineKept(job.m)
      BY <2>1, <2>2, StepMachines DEF Patching, Publishing
    <3> QED
      BY <2>1, <2>2, <3>1 DEF JobIdentified, Readies, MachineKept
  <2>3. CASE pc # "patchStatus"
    BY <2>1, <2>3 DEF JobIdentified, Readies
  <2> QED
    BY <2>2, <2>3
<1>3. CASE NotesLink \/ NotesReset
  BY <1>3 DEF JobIdentified, JobReady, Readies, NotesLink, NotesReset
<1>4. CASE NotesIdentity
  <2>1. job.h \in Hosts
    BY <1>4, WorkerBusy DEF NotesIdentity
  <2> QED
    BY <1>4, <2>1, ConstantsAssumption DEF JobIdentified, JobReady, Readies, NotesIdentity
<1>5. CASE NotesStatus
  <2>1. pc = "patchSpec" /\ pc' = "patchStatus" /\ job' = job
    BY <1>5 DEF NotesStatus
  <2>2. CASE Patching
    <3>1. machine[job.m] # Absent => job.before.providerID = machine[job.m].providerID
      BY <2>1 DEF Referring, JobInStep
    <3> QED
      BY <2>1, <2>2, <3>1 DEF Patching, JobIdentified, Readies, Merged
  <2>3. CASE machine' = machine /\ machine[job.m] = Absent
    BY <2>1, <2>3 DEF JobIdentified
  <2> QED
    BY <1>5, <2>2, <2>3 DEF NotesStatus
<1>6. ASSUME NEW m \in Machines, Begun(m)
      PROVE  JobIdentified'
  BY <1>6, ConstantsAssumption
     DEF JobIdentified, Readies, Begun, BeginsLink, BeginsDrop, BeginsWait, BeginsIdentify,
       BeginsReady, BeginsRelease, BeginsReset
<1> QED
  BY <1>1, <1>2, <1>3, <1>4, <1>5, <1>6, StepWorker

\* With machines read up to date and no API call failing, a machine becomes
\* ready after its provider ID has been set: the status is patched after the
\* spec, and the provider ID it rests on stays.
THEOREM ReadyWithProviderID ==
    ASSUME "machine" \notin LaggingKinds, ~Faults
    PROVE  Spec => ReadyAfterProviderID
<1>1. Spec => []TypeOK
  BY TypeCorrect
<1>2. Spec => []Referring
  BY ReferringAlways
<1>3. Init => JobReady /\ JobIdentified
  BY DEF Init, JobReady, JobIdentified
<1>4. TypeOK /\ Referring /\ JobReady /\ JobIdentified /\ [Next]_vars
        => JobReady' /\ JobIdentified'
  BY JobReadyKept, JobIdentifiedKept
<1>5. TypeOK /\ JobReady /\ JobIdentified /\ [Next]_vars
        => \A m \in Machines : BecomesReady(m) => machine[m].providerID # None
  BY BecomesReadyByJob DEF JobIdentified, BecomesReady
<1> QED
  BY <1>1, <1>2, <1>3, <1>4, <1>5, PTL DEF Spec, ReadyAfterProviderID
-----------------------------------------------------------------------------
(* The box behind a machine that becomes ready.  The job saw its host      *)
(* bootstrapped; hosts and boxes in step make that the box's bootstrap for *)
(* this very machine, and from then on it is undone only through a reset.  *)

\* The box runs the machine's config, or the host is on its way out.
Own(m, h) ==
    \/ box[h].joined = m
    \/ host[h] = Absent
    \/ host[h].deleting
    \/ host[h].needsReset

\* The same of the next state, for the machine and the host named now.
StillOwn(m, h) ==
    \/ box'[h].joined = m
    \/ host'[h] = Absent
    \/ host'[h].deleting
    \/ host'[h].needsReset

\* A box that starts over while its host is still there has been reset.
Wiped(h) ==
    (host[h] # Absent /\ box[h].stage = "unregistered") => host[h].needsReset

\* The host of a job that is to make its machine ready.
JobOwned ==
    ((pc = "setProviderID" \/ (pc \in {"patchSpec", "patchStatus"} /\ Readies))
       /\ machine[job.m] # Absent) =>
         /\ machine[job.m].hostRef \in Hosts
         /\ job.after.hostRef = machine[job.m].hostRef
         /\ Own(job.m, machine[job.m].hostRef)

OwnInv == (\A h \in Hosts : Wiped(h)) /\ JobReady /\ JobOwned

LEMMA WipedKept ==
    ASSUME HostsInStep, NEW h \in Hosts, Wiped(h)
    PROVE  Wiped(h)'
<1>1. BoxTracked(h)
  BY StepTracked DEF HostsInStep
<1>2. CASE Tracked(h)
  BY <1>1, <1>2 DEF Tracked, BoxTracked, Wiped
<1>3. CASE LinksHost
  <2>1. Linking
    BY <1>3, LinksHostLinking DEF HostsInStep
  <2> QED
    BY <2>1 DEF Linking, Wiped
<1> QED
  BY <1>2, <1>3, StepTracked DEF HostsInStep

\* What a machine has of a box that registered once, it keeps.
LEMMA OwnKept ==
    ASSUME HostsInStep, MaxRegistrations = 1, NEW m \in Machines, NEW h \in Hosts,
           box[h].identity # 0, Own(m, h)
    PROVE  StillOwn(m, h)
<1>1. BoxTracked(h) /\ box[h].identity \in 0..MaxRegistrations
  BY StepTracked, TypeParts DEF HostsInStep, BoxOK, Box
<1>2. CASE Tracked(h)
  BY <1>1, <1>2, ConstantsAssumption DEF Tracked, BoxTracked, Own, StillOwn
<1>3. CASE LinksHost
  <2>1. Linking
    BY <1>3, LinksHostLinking DEF HostsInStep
  <2> QED
    BY <2>1 DEF Linking, Own, StillOwn
<1> QED
  BY <1>2, <1>3, StepTracked DEF HostsInStep

\* A host that its machine finds bootstrapped is its own.
LEMMA BootstrappedOwn ==
    ASSUME TypeOK, Joined, PoolInv, LinkInv, OwnInv,
           NEW m \in Machines, NEW h \in Hosts, machine[m] # Absent, machine[m].hostRef = h,
           Bootstrapped(h)
    PROVE  Own(m, h)
<1>1. host[h] # Absent /\ host[h].bootstrapped /\ host[h].machineRef = m
  BY DEF Joined, Bootstrapped, LinkInv, RefAnswered, Answered
<1>2. box[h].stage \in {"unregistered", "registered", "installed", "triggered", "deleting"}
  BY TypeParts DEF BoxOK, Box
<1>3. CASE box[h].stage = "installed"
  BY <1>1, <1>3 DEF Joined, BoxInStep, Own
<1>4. CASE box[h].stage = "registered"
  BY <1>1, <1>4 DEF Joined, BoxInStep
<1>5. CASE box[h].stage = "unregistered"
  BY <1>1, <1>5 DEF OwnInv, Wiped, Own
<1>6. CASE box[h].stage \in {"triggered", "deleting"}
  BY <1>1, <1>6 DEF PoolInv, ResetInOrder, Leaving, Own
<1> QED
  BY <1>2, <1>3, <1>4, <1>5, <1>6

LEMMA JobOwnedKept ==
    ASSUME HostsInStep, MaxRegistrations = 1, Referring, LinkInv, OwnInv
    PROVE  JobOwned'
<1>1. CASE pc' = "idle"
  BY <1>1 DEF JobOwned
<1>2. ASSUME NEW m \in Machines, machine[m] # Absent, machine[m].hostRef \in Hosts,
             Own(m, machine[m].hostRef)
      PROVE  StillOwn(m, machine[m].hostRef)
  BY <1>2, OwnKept DEF LinkInv, RefAnswered, Answered
<1>3. CASE UNCHANGED worker /\ pc' # "idle"
  <2>1. job' = job /\ pc' = pc /\ job.m \in Machines
    BY <1>3, WorkerBusy DEF worker, HostsInStep
  <2>2. CASE pc = "setProviderID" \/ (pc \in {"patchSpec", "patchStatus"} /\ Readies)
    <3>1. MachineKept(job.m)
      <4>1. ~Patching /\ ~Publishing
        BY <2>1, <2>2 DEF Patching, Publishing
      <4> QED
        BY <2>1, <4>1, StepMachines DEF HostsInStep
    <3> QED
      BY <1>2, <2>1, <2>2, <3>1 DEF OwnInv, JobOwned, MachineKept, Own, StillOwn
  <2>3. CASE ~(pc = "setProviderID" \/ (pc \in {"patchSpec", "patchStatus"} /\ Readies))
    BY <2>1, <2>3 DEF JobOwned, Readies
  <2> QED
    BY <2>2, <2>3
<1>4. CASE NotesLink \/ NotesReset
  BY <1>4 DEF OwnInv, JobOwned, JobReady, Readies, NotesLink, NotesReset
<1>5. CASE NotesIdentity
  <2>1. /\ pc = "setProviderID" /\ job'.m = job.m /\ machine' = machine
        /\ job'.after.hostRef = job.after.hostRef /\ job.m \in Machines
    BY <1>5, WorkerBusy DEF NotesIdentity, HostsInStep
  <2> QED
    BY <1>2, <2>1 DEF OwnInv, JobOwned, Own, StillOwn
<1>6. CASE NotesStatus
  <2>1. pc = "patchSpec" /\ pc' = "patchStatus" /\ job' = job /\ job.m \in Machines
    BY <1>6, WorkerBusy DEF NotesStatus, HostsInStep
  <2>2. CASE ~Readies
    BY <2>1, <2>2 DEF JobOwned, Readies
  <2>3. CASE Readies /\ machine'[job.m] # Absent
    <3>1. machine[job.m] # Absent /\ machine'[job.m].hostRef \in {machine[job.m].hostRef, job.after.hostRef}
      BY <1>6, <2>1, <2>3 DEF NotesStatus, Patching, Merged
    <3>2. machine'[job.m].hostRef = machine[job.m].hostRef
      BY <2>1, <2>3, <3>1 DEF OwnInv, JobOwned
    <3> QED
      BY <1>2, <2>1, <2>3, <3>1, <3>2 DEF OwnInv, JobOwned, Own, StillOwn
  <2> QED
    BY <2>1, <2>2, <2>3 DEF JobOwned
<1>7. ASSUME NEW m \in Machines, Begun(m)
      PROVE  JobOwned'
  <2>1. /\ UNCHANGED <<machine, host, box>> /\ job'.m = m
        /\ job'.before = machine[m] /\ machine[m] # Absent
    BY <1>7 DEF Begun, Referring
  <2>2. CASE BeginsIdentify \/ BeginsReady
    <3>1. /\ machine[m].hostRef \in Hosts /\ Bootstrapped(machine[m].hostRef)
          /\ job'.after.hostRef = machine[m].hostRef
      BY <2>1, <2>2 DEF BeginsIdentify, BeginsReady
    <3>2. Own(m, machine[m].hostRef)
      BY <2>1, <3>1, BootstrappedOwn DEF HostsInStep
    <3> QED
      BY <2>1, <3>1, <3>2 DEF JobOwned, Own
  <2>3. CASE ~(BeginsIdentify \/ BeginsReady)
    BY <1>7, <2>3 DEF JobOwned, Readies, Begun, BeginsLink, BeginsDrop, BeginsWait,
         BeginsRelease, BeginsReset
  <2> QED
    BY <2>2, <2>3
<1> QED
  BY <1>1, <1>3, <1>4, <1>5, <1>6, <1>7, StepWorker DEF HostsInStep

\* With both kinds read up to date and boxes that register once, a machine
\* becomes ready on a box that runs its own bootstrap config, or whose host is
\* on its way out, whatever call fails and whenever the manager crashes.
THEOREM ReadyOnOwnBox ==
    ASSUME LaggingKinds = {}, MaxRegistrations = 1
    PROVE  Spec => ReadyOnOwnBootstrap
<1>1. Spec => [](TypeOK /\ Joined /\ PoolInv /\ LinkInv)
  BY LinkInvAlways
<1>2. Spec => []Referring
  BY ReferringAlways
<1>3. Init => OwnInv
  BY DEF Init, OwnInv, Wiped, JobReady, JobOwned
<1>4. TypeOK /\ Joined /\ PoolInv /\ LinkInv /\ Referring /\ OwnInv /\ [Next]_vars => OwnInv'
  BY WipedKept, JobReadyKept, JobOwnedKept DEF OwnInv, HostsInStep
<1>5. TypeOK /\ OwnInv /\ [Next]_vars =>
        \A m \in Machines : BecomesReady(m) =>
           \E h \in Hosts :
              /\ machine[m].hostRef = h
              /\ \/ box[h].joined = m
                 \/ host[h] = Absent
                 \/ host[h].deleting
                 \/ host[h].needsReset
  BY BecomesReadyByJob DEF OwnInv, JobOwned, BecomesReady, Own
<1> QED
  BY <1>1, <1>2, <1>3, <1>4, <1>5, PTL DEF Spec, ReadyOnOwnBootstrap
-----------------------------------------------------------------------------
(* Deletion.  As long as no call fails, the reference to a host is patched *)
(* into the machine in the same reconcile that linked the host; hence a    *)
(* machine's reference leads its deletion to the one host that it holds.   *)

\* The machine holds the host: linked to it, and not on its way to a reset.
Holds(m, h) ==
    /\ host[h] # Absent
    /\ host[h].machineRef = m
    /\ ~host[h].needsReset

\* The same of the next state, for the machine and the host named now.
StillHolds(m, h) ==
    /\ host'[h] # Absent
    /\ host'[h].machineRef = m
    /\ ~host'[h].needsReset

\* A host is held by a machine that refers to it, or is about to.
HeldReferred ==
    \A m \in Machines, h \in Hosts :
        (machine[m] # Absent /\ Holds(m, h)) =>
            \/ machine[m].hostRef = h
            \/ /\ pc = "patchSpec" /\ job.m = m
               /\ job.before.hostRef = None /\ job.after.hostRef = h

\* What a job knows of the hosts that its machine holds: the one to link is the
\* first, the one to reset the only one, and neither a reference nor the
\* finalizer is let go of with a host still held.
JobHolds ==
    /\ pc = "linkHost" => job.before.hostRef = None
    /\ pc = "setProviderID" => job.before.hostRef = job.after.hostRef
    /\ pc \in {"linkHost", "setProviderID"} => job.after.finalizer
    /\ pc = "markReset" =>
         /\ job.before.hostRef = job.h
         /\ job.after.hostRef = job.h
         /\ ~job.dirty => ~Holds(job.m, job.h)
    /\ pc = "patchSpec" =>
         /\ \A h \in Hosts :
              (job.before.hostRef = h /\ job.after.hostRef # h) => ~Holds(job.m, h)
         /\ (job.before.finalizer /\ ~job.after.finalizer /\ machine[job.m] # Absent)
              => \A h \in Hosts : ~Holds(job.m, h)

HoldInv == HeldReferred /\ JobHolds

\* A machine comes to hold a host in the worker's link only.
LEMMA HoldsBefore ==
    ASSUME HostsInStep, NEW m \in Machines, NEW h \in Hosts, StillHolds(m, h)
    PROVE  Holds(m, h) \/ (LinksHost /\ m = job.m /\ h = job.h)
<1>1. CASE Tracked(h)
  BY <1>1, ConstantsAssumption DEF Tracked, Holds, StillHolds
<1>2. CASE LinksHost
  <2>1. Linking
    BY <1>2, LinksHostLinking DEF HostsInStep
  <2> QED
    BY <1>2, <2>1 DEF Linking, Holds, StillHolds
<1> QED
  BY <1>1, <1>2, StepTracked DEF HostsInStep

\* The worker's link belongs to a job that notes it.
LEMMA LinkNoted ==
    ASSUME TypeOK, JobHolds, LinksHost, ~Faults
    PROVE  /\ pc' = "patchSpec" /\ job'.m = job.m
           /\ job'.before.hostRef = None /\ job'.after.hostRef = job.h
           /\ UNCHANGED machine
<1>1. job \in Job /\ job.after \in MachineObject /\ pc = "linkHost" /\ pc' = "patchSpec"
  BY DEF TypeOK, LinksHost, LinkHost, Job
<1> DEFINE done == [job EXCEPT !.after.hostRef = job.h]
<1>2. job' = done
  BY DEF LinksHost, LinkHost
<1>3. /\ done.m = job.m /\ done.before = job.before
      /\ done.after = [job.after EXCEPT !.hostRef = job.h]
  BY <1>1 DEF Job
<1>4. done.after.hostRef = job.h
  BY <1>1, <1>3 DEF MachineObject
<1> HIDE DEF done
<1> QED
  BY <1>1, <1>2, <1>3, <1>4 DEF JobHolds, LinksHost, WriteHost

\* Nothing comes between a job and its patch of a machine that is there.
LEMMA SpecPatched ==
    ASSUME TypeOK, ~Faults, [Next]_vars, pc = "patchSpec", machine[job.m] # Absent
    PROVE  UNCHANGED worker \/ Patching
<1>1. CASE Work
  <2>1. PatchSpec
    BY <1>1 DEF Work, LinkHost, MarkReset, SetProviderID, PatchStatus
  <2>2. PatchesSpec
    BY <2>1 DEF PatchSpec, PatchesSpec
  <2> QED
    BY <2>2, PatchesSpecPatching
<1>2. ASSUME NEW m \in Machines, Reconcile(m)
      PROVE  FALSE
  BY <1>2, ReconcileBegun DEF Begun
<1>3. CASE Crash
  BY <1>3 DEF Crash
<1>4. ASSUME NEW m \in Machines, SetOwner(m) \/ Provision(m) \/ DeleteMachine(m)
      PROVE  UNCHANGED worker
  BY <1>4 DEF SetOwner, Provision, DeleteMachine, worker
<1>5. ASSUME NEW h \in Hosts, ReconcileHost(h) \/ Agent(h) \/ DeleteHost(h)
      PROVE  UNCHANGED worker
  BY <1>5 DEF ReconcileHost, DeleteHost, Agent, Register, Install, Bootstrap,
         ReportBootstrapped, TriggerReset, DeleteElementalHost, Reset, worker
<1>6. CASE SyncMachines \/ SyncHosts \/ InitializeControlPlane \/ UNCHANGED vars
  BY <1>6 DEF SyncMachines, SyncHosts, InitializeControlPlane, worker, vars
<1> QED
  BY <1>1, <1>2, <1>3, <1>4, <1>5, <1>6 DEF Next

LEMMA HeldReferredKept ==
    ASSUME HostsInStep, ~Faults, Referring, HoldInv
    PROVE  HeldReferred'
<1> SUFFICES ASSUME NEW m \in Machines, NEW h \in Hosts, machine'[m] # Absent, StillHolds(m, h)
             PROVE  \/ machine'[m].hostRef = h
                    \/ /\ pc' = "patchSpec" /\ job'.m = m
                       /\ job'.before.hostRef = None /\ job'.after.hostRef = h
  BY DEF HeldReferred, Holds, StillHolds
<1>1. CASE LinksHost /\ m = job.m /\ h = job.h
  BY <1>1, LinkNoted DEF HoldInv, HostsInStep
<1>2. machine[m] # Absent
  BY StepMachines DEF HostsInStep, Patching, Publishing, MachineKept
<1>3. CASE Holds(m, h) /\ machine[m].hostRef = h
  <2>1. CASE Patching /\ m = job.m
    <3>1. job.before.hostRef = h
      BY <1>2, <1>3, <2>1 DEF Patching, Referring, JobInStep
    <3>2. job.after.hostRef = h
      BY <1>3, <2>1, <3>1 DEF Patching, HoldInv, JobHolds
    <3> QED
      BY <1>3, <2>1, <3>1, <3>2 DEF Patching, Merged
  <2> QED
    BY <1>3, <2>1, StepMachines DEF HostsInStep, Patching, Publishing, MachineKept
<1>4. CASE /\ pc = "patchSpec" /\ job.m = m
           /\ job.before.hostRef = None /\ job.after.hostRef = h
  <2>1. CASE Patching
    BY <1>4, <2>1, ConstantsAssumption DEF Patching, Merged
  <2>2. CASE UNCHANGED worker
    BY <1>4, <2>2 DEF worker
  <2> QED
    BY <1>2, <1>4, <2>1, <2>2, SpecPatched DEF HostsInStep
<1> QED
  BY <1>1, <1>2, <1>3, <1>4, HoldsBefore DEF HoldInv, HeldReferred

LEMMA JobHoldsKept ==
    ASSUME HostsInStep, ~Faults, Referring, HoldInv
    PROVE  JobHolds'
<1>1. CASE pc' = "idle"
  BY <1>1 DEF JobHolds
<1>2. CASE UNCHANGED worker /\ pc # "idle"
  <2>1. /\ pc' = pc /\ job' = job /\ job.m \in Machines
        /\ pc = "markReset" => job.h \in Hosts
    BY <1>2, WorkerBusy DEF worker, HostsInStep
  <2>2. ~LinksHost
    BY <2>1 DEF LinksHost, LinkHost
  <2>3. \A h \in Hosts : StillHolds(job.m, h) => Holds(job.m, h)
    BY <2>1, <2>2, HoldsBefore
  <2>4. machine'[job.m] # Absent => machine[job.m] # Absent
    BY <2>1, StepMachines DEF HostsInStep, Patching, Publishing, MachineKept
  <2> QED
    BY <2>1, <2>3, <2>4 DEF HoldInv, JobHolds, Holds, StillHolds
<1>3. CASE NotesLink
  BY <1>3, ConstantsAssumption DEF NotesLink, HoldInv, JobHolds
<1>4. CASE NotesReset
  <2>1. /\ pc = "markReset" /\ pc' = "patchSpec" /\ job' = job /\ machine' = machine
        /\ job.m \in Machines /\ job.h \in Hosts
        /\ job.before.hostRef = job.h /\ job.after.hostRef = job.h
    BY <1>4, WorkerBusy DEF NotesReset, HostsInStep, HoldInv, JobHolds
  <2>2. ASSUME machine[job.m] # Absent, NEW h \in Hosts, StillHolds(job.m, h)
        PROVE  FALSE
    <3>1. Holds(job.m, h)
      BY <2>1, <2>2, HoldsBefore DEF LinksHost, LinkHost
    <3>2. h = job.h
      BY <2>1, <2>2, <3>1 DEF HoldInv, HeldReferred, Referring, JobInStep
    <3> QED
      BY <1>4, <2>1, <2>2, <3>1, <3>2 DEF NotesReset, HoldInv, JobHolds, StillHolds
  <2> QED
    BY <2>1, <2>2 DEF JobHolds, Holds, StillHolds
<1>5. CASE NotesIdentity \/ NotesStatus
  BY <1>5 DEF NotesIdentity, NotesStatus, HoldInv, JobHolds
<1>6. ASSUME NEW m \in Machines, Begun(m)
      PROVE  JobHolds'
  <2>1. /\ UNCHANGED <<machine, host>> /\ hostCache = host /\ job'.m = m /\ pc = "idle"
        /\ job'.before = machine[m] /\ machine[m] # Absent
    BY <1>6 DEF Begun, Referring, HostsInStep, Joined
  <2>2. \A h \in Hosts : Holds(m, h) => machine[m].hostRef = h
    BY <2>1 DEF HoldInv, HeldReferred
  <2>3. \A h \in Hosts : StillHolds(m, h) <=> Holds(m, h)
    BY <2>1 DEF Holds, StillHolds
  <2>4. CASE BeginsLink(m) \/ BeginsWait \/ BeginsIdentify \/ BeginsReady
    BY <2>4 DEF JobHolds, BeginsLink, BeginsWait, BeginsIdentify, BeginsReady
  <2>5. CASE BeginsDrop
    BY <2>1, <2>5 DEF JobHolds, BeginsDrop, Holds
  <2>6. CASE BeginsRelease
    <3>1. \A h \in Hosts : ~Holds(m, h)
      BY <2>1, <2>2, <2>6, ConstantsAssumption DEF BeginsRelease
    <3> QED
      BY <2>1, <2>6, <3>1 DEF JobHolds, BeginsRelease, Holds
  <2>7. CASE BeginsReset
    BY <2>1, <2>7 DEF JobHolds, BeginsReset, Holds
  <2> QED
    BY <1>6, <2>4, <2>5, <2>6, <2>7 DEF Begun
<1> QED
  BY <1>1, <1>2, <1>3, <1>4, <1>5, <1>6, StepWorker DEF HostsInStep, worker

\* With both kinds read up to date and no call failing, a machine that goes
\* through its finalizer leaves no host behind that is linked to it and not to
\* be reset, however users delete machines and hosts in between, and however
\* often boxes register.
THEOREM FinalizerLeavesNoHost ==
    ASSUME LaggingKinds = {}, ~Faults
    PROVE  Spec => FinalizerResetsHosts
<1>1. Spec => []TypeOK
  BY TypeCorrect
<1>2. Spec => []Joined
  BY JoinedAlways
<1>3. Spec => []Referring
  BY ReferringAlways
<1>4. Init => PoolInv /\ HoldInv
  BY InitImplements DEF Init, HoldInv, HeldReferred, JobHolds, Holds
<1>5. TypeOK /\ Joined /\ PoolInv /\ [Next]_vars => PoolInv'
  BY NextImplements DEF Implements
<1>6. TypeOK /\ Joined /\ PoolInv /\ Referring /\ HoldInv /\ [Next]_vars => HoldInv'
  BY HeldReferredKept, JobHoldsKept DEF HoldInv, HostsInStep
<1>7. TypeOK /\ HoldInv /\ [Next]_vars =>
        \A m \in Machines, h \in Hosts :
          (/\ machine[m] # Absent /\ machine[m].finalizer /\ machine'[m] = Absent
           /\ host[h] # Absent /\ host[h].machineRef = m)
              => host[h].needsReset
  <2> SUFFICES ASSUME TypeOK, HoldInv, [Next]_vars, NEW m \in Machines, NEW h \in Hosts,
                      machine[m] # Absent, machine[m].finalizer, machine'[m] = Absent,
                      host[h] # Absent, host[h].machineRef = m
               PROVE  host[h].needsReset
    OBVIOUS
  <2>1. Patching /\ m = job.m
    BY StepMachines DEF Patching, Publishing, MachineKept
  <2> QED
    BY <2>1 DEF Patching, HoldInv, JobHolds, Holds
<1> QED
  BY <1>1, <1>2, <1>3, <1>4, <1>5, <1>6, <1>7, PTL DEF Spec, FinalizerResetsHosts
=============================================================================

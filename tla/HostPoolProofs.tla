--------------------------- MODULE HostPoolProofs ---------------------------
(* HostAssociation implements HostPool, for every value of the constants   *)
(* that has hosts read up to date.                                         *)
EXTENDS HostAssociationProofs

\* What a write may do to one host, as the pool sees it.
SamePool(old, new) ==
    /\ PoolStage(new) = PoolStage(old)
    /\ PoolHolder(new) = PoolHolder(old)
    /\ PoolGuarded(new) = PoolGuarded(old)

SameButStage(old, new) ==
    /\ PoolHolder(new) = PoolHolder(old)
    /\ PoolGuarded(new) = PoolGuarded(old)

ObjectStep(old, new) ==
    \/ SamePool(old, new)
    \/ PoolStage(old) = "absent" /\ PoolStage(new) = "registered" /\ SameButStage(old, new)
    \/ PoolStage(old) = "registered" /\ PoolStage(new) = "available" /\ SameButStage(old, new)
    \/ /\ PoolStage(old) \in {"registered", "available"}
       /\ PoolStage(new) = "resetting" /\ SameButStage(old, new)
    \/ PoolStage(old) = "resetting" /\ PoolStage(new) = "reset" /\ SameButStage(old, new)
    \/ /\ PoolStage(old) # "absent" /\ PoolStage(new) = PoolStage(old)
       /\ PoolHolder(new) = PoolHolder(old) /\ PoolGuarded(new) = TRUE
    \/ (PoolGuarded(old) => PoolStage(old) = "reset") /\ new = Absent

\* What a write of one host does to the pool's variables.
LEMMA WritePool ==
    ASSUME TypeOK, NEW h \in Hosts, NEW object, WriteHost(h, object)
    PROVE  /\ poolStage' = [poolStage EXCEPT ![h] = PoolStage(object)]
           /\ poolHolder' = [poolHolder EXCEPT ![h] = PoolHolder(object)]
           /\ poolGuarded' = [poolGuarded EXCEPT ![h] = PoolGuarded(object)]
<1>1. host' = [host EXCEPT ![h] = object] /\ host \in [Hosts -> HostOrAbsent]
  BY TypeParts DEF WriteHost, ObjectsOK
<1>2. \A k \in Hosts : host'[k] = IF k = h THEN object ELSE host[k]
  BY <1>1
<1>3. poolStage' = [poolStage EXCEPT ![h] = PoolStage(object)]
  BY <1>2 DEF poolStage
<1>4. poolHolder' = [poolHolder EXCEPT ![h] = PoolHolder(object)]
  BY <1>2 DEF poolHolder
<1>5. poolGuarded' = [poolGuarded EXCEPT ![h] = PoolGuarded(object)]
  BY <1>2 DEF poolGuarded
<1> QED
  BY <1>3, <1>4, <1>5

\* A write that is such a step of its host is a step of the pool.
LEMMA ObjectStepPool ==
    ASSUME TypeOK, NEW h \in Hosts, NEW object, WriteHost(h, object),
           ObjectStep(host[h], object), poolChoice' = poolChoice
    PROVE  [Pool!Next]_(Pool!vars)
<1>1. /\ poolStage[h] = PoolStage(host[h])
      /\ poolHolder[h] = PoolHolder(host[h])
      /\ poolGuarded[h] = PoolGuarded(host[h])
  BY DEF poolStage, poolHolder, poolGuarded
<1>2. /\ poolStage = [poolStage EXCEPT ![h] = poolStage[h]]
      /\ poolHolder = [poolHolder EXCEPT ![h] = poolHolder[h]]
      /\ poolGuarded = [poolGuarded EXCEPT ![h] = poolGuarded[h]]
  BY DEF poolStage, poolHolder, poolGuarded
<1>3. PoolStage(Absent) = "absent" /\ PoolHolder(Absent) = None /\ PoolGuarded(Absent) = FALSE
  BY DEF PoolStage, PoolHolder, PoolGuarded
<1>4. \/ UNCHANGED <<poolStage, poolHolder, poolGuarded, poolChoice>>
      \/ Pool!Register(h) \/ Pool!Offer(h) \/ Pool!Condemn(h) \/ Pool!Finish(h)
      \/ Pool!Guard(h) \/ Pool!Remove(h)
  BY <1>1, <1>2, <1>3, WritePool
     DEF ObjectStep, SamePool, SameButStage, Pool!Register, Pool!Offer, Pool!Condemn,
         Pool!Finish, Pool!Guard, Pool!Remove
<1> QED
  BY <1>4 DEF Pool!Next, Pool!vars
-----------------------------------------------------------------------------
(* What the refinement rests on: a reset is reported of hosts that are to  *)
(* be reset, and while a machine is about to take a host, every host that  *)
(* it has already is to be reset.                                          *)

Leaving == {"triggered", "deleting"}

ResetInOrder(h) ==
    host[h] # Absent =>
        /\ host[h].reset => host[h].needsReset
        /\ box[h].stage \in Leaving => host[h].needsReset

ChoiceFree ==
    (pc = "linkHost" /\ job.dirty) =>
        \A k \in Hosts : (host[k] # Absent /\ host[k].machineRef = job.m) => host[k].needsReset

PoolInv ==
    /\ OneHostPerMachine
    /\ ChoiceFree
    /\ \A h \in Hosts : ResetInOrder(h)

\* What every step has to do.
Implements == PoolInv' /\ [Pool!Next]_(Pool!vars)

\* What the steps that link no host do to a host.
Unlinked(h) ==
    host'[h] # Absent =>
        \/ /\ host[h] = Absent
           /\ host'[h].machineRef = None
           /\ ~host'[h].reset
           /\ box'[h].stage \notin Leaving
        \/ /\ host[h] # Absent
           /\ host'[h].machineRef = host[h].machineRef
           /\ host[h].needsReset => host'[h].needsReset
           /\ host'[h].reset => host[h].reset \/ host'[h].needsReset
           /\ box'[h].stage \in Leaving => box[h].stage \in Leaving \/ host'[h].needsReset

\* Such steps keep the invariant, unless they are the worker's choice.
LEMMA UnlinkedInv ==
    ASSUME TypeOK, PoolInv, \A h \in Hosts : Unlinked(h),
           UNCHANGED worker \/ pc' # "linkHost"
    PROVE  PoolInv'
<1>1. ASSUME NEW h \in Hosts PROVE ResetInOrder(h)'
  BY DEF PoolInv, ResetInOrder, Unlinked
<1>2. OneHostPerMachine'
  BY ConstantsAssumption DEF PoolInv, OneHostPerMachine, Unlinked
<1>3. ChoiceFree'
  <2>1. CASE pc' # "linkHost"
    BY <2>1 DEF ChoiceFree
  <2>2. CASE UNCHANGED worker
    <3>1. pc = "linkHost" => job.m \in Machines
      BY DEF TypeOK, Job
    <3> QED
      BY <2>2, <3>1, ConstantsAssumption DEF PoolInv, ChoiceFree, Unlinked, worker
  <2> QED
    BY <2>1, <2>2
<1> QED
  BY <1>1, <1>2, <1>3 DEF PoolInv

\* Steps that leave the hosts and boxes alone, and choose nothing.
LEMMA UntouchedImplements ==
    ASSUME TypeOK, PoolInv, UNCHANGED <<host, box>>,
           UNCHANGED worker \/ pc' # "linkHost"
    PROVE  Implements
<1>1. \A h \in Hosts : Unlinked(h)
  BY DEF Unlinked
<1>2. UNCHANGED <<poolStage, poolHolder, poolGuarded>>
  BY DEF poolStage, poolHolder, poolGuarded
<1>3. poolChoice' = poolChoice \/ poolChoice' = None
  BY DEF poolChoice, worker
<1>4. [Pool!Next]_(Pool!vars)
  BY <1>2, <1>3 DEF Pool!Next, Pool!GiveUp, Pool!vars
<1> QED
  BY <1>1, <1>4, UnlinkedInv DEF Implements

\* Writes of one host that link nothing.
LEMMA WriteImplements ==
    ASSUME TypeOK, PoolInv, NEW h \in Hosts, NEW object, WriteHost(h, object),
           ObjectStep(host[h], object), Unlinked(h),
           \A k \in Hosts \ {h} : box'[k] = box[k],
           poolChoice' = poolChoice, UNCHANGED worker \/ pc' # "linkHost"
    PROVE  Implements
<1>1. \A k \in Hosts : k # h => host'[k] = host[k]
  BY DEF WriteHost, TypeOK
<1>2. \A k \in Hosts : Unlinked(k)
  BY <1>1 DEF Unlinked
<1> QED
  BY <1>2, UnlinkedInv, ObjectStepPool DEF Implements

\* A reconcile that begins with the choice of a host has chosen an available
\* one, for a machine that has none.
LEMMA ReconcileImplements ==
    ASSUME "host" \notin LaggingKinds, TypeOK, Joined, PoolInv, NEW m \in Machines, Reconcile(m)
    PROVE  Implements
<1>1. UNCHANGED <<apiVars, clusterVars, box>>
  BY DEF Reconcile, ReconcileEarly, AssociateElementalHost, DropHostRef,
         ReadError, AwaitElementalHost, ReconcileDelete, Begin
<1>2. CASE pc' # "linkHost"
  BY <1>1, <1>2, UntouchedImplements DEF apiVars
<1>3. CASE \E h \in Candidates(m) :
             Begin(m, "linkHost", h, hostCache[h].machineRef # m, NotReady(m))
  <2>1. PICK h \in Candidates(m) :
          Begin(m, "linkHost", h, hostCache[h].machineRef # m, NotReady(m))
    BY <1>3
  <2>2. hostCache = host /\ host' = host /\ pc = "idle"
    BY <1>1, <1>3, <2>1
       DEF Joined, apiVars, Reconcile, ReconcileEarly, AssociateElementalHost, DropHostRef,
           HostIsGone, ReadError, AwaitElementalHost, ReconcileDelete, Deletable,
           Provisionable, Reconcilable
  <2>3. /\ pc' = "linkHost" /\ job'.m = m /\ job'.h = h
        /\ job'.dirty = (host[h].machineRef # m)
    BY <2>1, <2>2 DEF Begin
  <2>4. UNCHANGED <<poolStage, poolHolder, poolGuarded>>
    BY <2>2 DEF poolStage, poolHolder, poolGuarded
  <2>5. poolChoice = None
    BY <2>2 DEF poolChoice
  <2>6. OneHostPerMachine' /\ \A k \in Hosts : ResetInOrder(k)'
    BY <1>1, <2>2 DEF PoolInv, OneHostPerMachine, ResetInOrder
  <2>7. CASE host[h].machineRef = m
    <3>1. UNCHANGED <<poolStage, poolHolder, poolGuarded, poolChoice>> /\ ChoiceFree'
      BY <2>3, <2>4, <2>5, <2>7 DEF poolChoice, ChoiceFree
    <3> QED
      BY <2>6, <3>1 DEF Implements, PoolInv, Pool!vars
  <2>8. CASE host[h].machineRef # m
    <3>1. /\ h \in Hosts /\ host[h] # Absent /\ host[h].installed /\ ~host[h].needsReset
          /\ host[h].machineRef = None
          /\ \A k \in Hosts : (host[k] # Absent /\ host[k].machineRef = m) => host[k].needsReset
      BY <2>1, <2>2, <2>8, ConstantsAssumption DEF Candidates, AlreadyLinked, NewAvailable
    <3>2. ~host[h].reset
      BY <3>1 DEF PoolInv, ResetInOrder
    <3>3. poolStage[h] = "available" /\ poolHolder[h] = None
      BY <3>1, <3>2 DEF poolStage, poolHolder, PoolStage, PoolHolder
    <3>4. Pool!Held(m) = {}
      BY <3>1, ConstantsAssumption
         DEF Pool!Held, poolStage, poolHolder, PoolStage, PoolHolder
    <3>5. poolChoice' = <<m, h>>
      BY <2>3, <2>8 DEF poolChoice
    <3>6. Pool!Choose(m, h)
      BY <2>4, <2>5, <3>3, <3>4, <3>5 DEF Pool!Choose
    <3>7. ChoiceFree'
      BY <2>2, <2>3, <3>1 DEF ChoiceFree
    <3> QED
      BY <2>6, <3>1, <3>6, <3>7 DEF Implements, PoolInv, Pool!Next
  <2> QED
    BY <2>7, <2>8
<1> QED
  BY <1>2, <1>3 DEF Reconcile, ReconcileEarly, AssociateElementalHost, DropHostRef,
         ReadError, AwaitElementalHost, ReconcileDelete, Begin

\* The worker links the host it has chosen, which is still nobody's.
LEMMA LinkImplements ==
    ASSUME "host" \notin LaggingKinds, TypeOK, Joined, PoolInv, LinkHost
    PROVE  Implements
<1> DEFINE linked == [host[job.h] EXCEPT !.machineRef = job.m]
<1>1. /\ pc = "linkHost" /\ pc' = "patchSpec" /\ UNCHANGED box
      /\ job.h \in Hosts /\ job.m \in Machines
  BY DEF TypeOK, LinkHost, Job
<1>2. CASE UNCHANGED apiVars
  BY <1>1, <1>2, UntouchedImplements DEF apiVars
<1>3. CASE job.dirty /\ host[job.h] # Absent /\ WriteHost(job.h, linked)
  <2>1. host[job.h] \in HostObject /\ host[job.h].machineRef = None
    BY <1>1, <1>3 DEF TypeOK, Joined, LinkPending
  <2>2. /\ linked \in HostObject /\ linked # Absent
        /\ linked.machineRef = job.m
        /\ linked.needsReset = host[job.h].needsReset
        /\ linked.reset = host[job.h].reset
        /\ linked.installed = host[job.h].installed
        /\ linked.finalizer = host[job.h].finalizer
    BY <1>1, <2>1, ConstantsAssumption DEF HostObject
  <2> HIDE DEF linked
  <2>3. \A k \in Hosts : host'[k] = IF k = job.h THEN linked ELSE host[k]
    BY <1>1, <1>3, WriteKept
  <2>4. /\ PoolStage(linked) = poolStage[job.h]
        /\ PoolGuarded(linked) = poolGuarded[job.h]
        /\ PoolHolder(linked) = job.m
        /\ poolStage[job.h] # "absent" /\ poolHolder[job.h] = None
    BY <1>1, <1>3, <2>1, <2>2
       DEF poolStage, poolGuarded, poolHolder, PoolStage, PoolGuarded, PoolHolder
  <2>5. /\ poolStage' = poolStage
        /\ poolGuarded' = poolGuarded
        /\ poolHolder' = [poolHolder EXCEPT ![job.h] = job.m]
    <3>1. /\ poolStage = [poolStage EXCEPT ![job.h] = poolStage[job.h]]
          /\ poolGuarded = [poolGuarded EXCEPT ![job.h] = poolGuarded[job.h]]
      BY DEF poolStage, poolGuarded
    <3> QED
      BY <1>1, <1>3, <2>4, <3>1, WritePool
  <2>6. poolChoice = <<job.m, job.h>> /\ poolChoice' = None
    BY <1>1, <1>3 DEF poolChoice
  <2>7. Pool!Take(job.m, job.h)
    BY <2>4, <2>5, <2>6 DEF Pool!Take
  <2>8. OneHostPerMachine'
    BY <1>1, <1>3, <2>2, <2>3 DEF PoolInv, ChoiceFree, OneHostPerMachine
  <2>9. ASSUME NEW k \in Hosts PROVE ResetInOrder(k)'
    BY <1>1, <1>3, <2>2, <2>3 DEF PoolInv, ResetInOrder
  <2>10. ChoiceFree'
    BY <1>1 DEF ChoiceFree
  <2> QED
    BY <1>1, <2>7, <2>8, <2>9, <2>10 DEF Implements, PoolInv, Pool!Next
<1> QED
  BY <1>2, <1>3 DEF LinkHost

\* Setting needs-reset condemns a host, or changes nothing.
LEMMA CondemnStep ==
    ASSUME NEW object \in HostObject, object.reset => object.needsReset
    PROVE  LET marked == [object EXCEPT !.needsReset = TRUE]
           IN /\ ObjectStep(object, marked)
              /\ marked \in HostObject
              /\ marked.machineRef = object.machineRef
              /\ marked.reset = object.reset
              /\ marked.needsReset
<1> DEFINE marked == [object EXCEPT !.needsReset = TRUE]
<1>1. /\ marked \in HostObject
      /\ marked.machineRef = object.machineRef
      /\ marked.reset = object.reset
      /\ marked.finalizer = object.finalizer
      /\ marked.needsReset = TRUE
      /\ object.needsReset \in BOOLEAN /\ object.reset \in BOOLEAN
  BY DEF HostObject
<1>2. object # Absent /\ marked # Absent
  BY <1>1, ConstantsAssumption
<1> HIDE DEF marked
<1>3. SameButStage(object, marked)
  BY <1>1, <1>2 DEF SameButStage, PoolHolder, PoolGuarded
<1>4. ObjectStep(object, marked)
  BY <1>1, <1>2, <1>3 DEF ObjectStep, SamePool, SameButStage, PoolStage
<1> QED
  BY <1>1, <1>4 DEF marked

\* The worker condemns the host of a machine that is deleted.
LEMMA MarkImplements ==
    ASSUME "host" \notin LaggingKinds, TypeOK, PoolInv, MarkReset
    PROVE  Implements
<1> DEFINE marked == [host[job.h] EXCEPT !.needsReset = TRUE]
<1>1. pc = "markReset" /\ pc' # "linkHost" /\ UNCHANGED box /\ job.h \in Hosts
  BY DEF TypeOK, MarkReset, Idle
<1>2. CASE UNCHANGED apiVars
  BY <1>1, <1>2, UntouchedImplements DEF apiVars
<1>3. CASE host[job.h] # Absent /\ WriteHost(job.h, marked)
  <2>1. host[job.h] \in HostObject /\ (host[job.h].reset => host[job.h].needsReset)
    BY <1>1, <1>3 DEF TypeOK, PoolInv, ResetInOrder
  <2>2. /\ ObjectStep(host[job.h], marked)
        /\ marked.machineRef = host[job.h].machineRef
        /\ marked.reset = host[job.h].reset
        /\ marked.needsReset
    BY <2>1, CondemnStep
  <2> HIDE DEF marked
  <2>3. host'[job.h] = marked
    BY <1>1, <1>3, WriteKept
  <2>4. Unlinked(job.h)
    BY <1>1, <1>3, <2>2, <2>3 DEF Unlinked
  <2>5. poolChoice' = poolChoice
    BY <1>1 DEF poolChoice
  <2> QED
    BY <1>1, <1>3, <2>2, <2>4, <2>5, WriteImplements
<1> QED
  BY <1>2, <1>3 DEF MarkReset

\* The host reconciler guards a host, condemns it, or lets go of it when it
\* has been reset.
LEMMA ReconcileHostImplements ==
    ASSUME "host" \notin LaggingKinds, TypeOK, Joined, PoolInv, NEW h \in Hosts, ReconcileHost(h)
    PROVE  Implements
<1> DEFINE old == host[h]
           new == HostReconciled(old)
           merged == [old EXCEPT
                !.finalizer  = Merged(@, old.finalizer, new.finalizer),
                !.needsReset = Merged(@, old.needsReset, new.needsReset)]
<1>1. /\ old \in HostObject /\ old # Absent /\ new # old
      /\ WriteHost(h, Settled(merged))
      /\ UNCHANGED <<worker, box>>
  BY DEF TypeOK, ReconcileHost, Joined
<1>2. old.reset => old.needsReset
  BY <1>1 DEF PoolInv, ResetInOrder
<1>3. host'[h] = Settled(merged)
  BY <1>1, WriteKept
<1>4. ObjectStep(old, Settled(merged)) /\ Unlinked(h)
  <2>1. CASE ~old.deleting
    <3>1. new = [old EXCEPT !.finalizer = TRUE]
      BY <2>1 DEF HostReconciled
    <3>2. /\ merged = new /\ ~merged.deleting /\ merged.finalizer = TRUE
          /\ merged.machineRef = old.machineRef /\ merged.reset = old.reset
          /\ merged.needsReset = old.needsReset /\ merged.installed = old.installed
          /\ merged \in HostObject
      BY <1>1, <2>1, <3>1 DEF Merged, HostObject
    <3> HIDE DEF old, new, merged
    <3>3. Settled(merged) = merged /\ merged # Absent
      BY <3>2, ConstantsAssumption DEF Settled
    <3>4. ObjectStep(old, merged)
      BY <1>1, <3>2, <3>3 DEF ObjectStep, PoolStage, PoolHolder, PoolGuarded
    <3> QED
      BY <1>1, <1>3, <3>2, <3>3, <3>4 DEF Unlinked, old
  <2>2. CASE old.deleting /\ old.finalizer /\ old.reset
    <3>1. new = [old EXCEPT !.finalizer = FALSE]
      BY <2>2 DEF HostReconciled
    <3>2. merged.deleting /\ ~merged.finalizer
      BY <1>1, <2>2, <3>1 DEF Merged, HostObject
    <3>3. Settled(merged) = Absent
      BY <3>2 DEF Settled
    <3>4. ObjectStep(old, Absent)
      BY <1>1, <2>2 DEF ObjectStep, PoolStage
    <3> QED
      BY <1>3, <3>3, <3>4 DEF Unlinked
  <2>3. CASE old.deleting /\ old.finalizer /\ ~old.reset
    <3> DEFINE marked == [old EXCEPT !.needsReset = TRUE]
    <3>1. new = marked
      BY <2>3 DEF HostReconciled
    <3>2. /\ merged = marked /\ merged.finalizer
          /\ ObjectStep(old, marked)
          /\ marked \in HostObject
          /\ marked.machineRef = old.machineRef
          /\ marked.reset = old.reset
          /\ marked.needsReset
      <4>1. merged = marked /\ merged.finalizer
        BY <1>1, <2>3, <3>1 DEF Merged, HostObject
      <4> QED
        BY <1>1, <1>2, <4>1, CondemnStep
    <3> HIDE DEF old, new, merged, marked
    <3>3. Settled(merged) = marked /\ marked # Absent
      BY <3>2, ConstantsAssumption DEF Settled
    <3> QED
      BY <1>1, <1>3, <3>2, <3>3 DEF Unlinked, old
  <2>4. old.deleting => old.finalizer
    BY <1>1 DEF HostReconciled
  <2> QED
    BY <2>1, <2>2, <2>3, <2>4
<1>5. poolChoice' = poolChoice
  BY <1>1 DEF poolChoice, worker
<1> QED
  BY <1>1, <1>4, <1>5, WriteImplements

\* The deletion of a host removes it if it is not guarded, and changes nothing
\* of the pool otherwise.
LEMMA DeleteStep ==
    ASSUME NEW object \in HostObject
    PROVE  /\ ObjectStep(object, Deleted(object))
           /\ Deleted(object) # Absent =>
                /\ Deleted(object).machineRef = object.machineRef
                /\ Deleted(object).needsReset = object.needsReset
                /\ Deleted(object).reset = object.reset
<1> DEFINE marked == [object EXCEPT !.deleting = TRUE]
<1>1. /\ marked \in HostObject /\ marked.deleting
      /\ marked.machineRef = object.machineRef
      /\ marked.needsReset = object.needsReset
      /\ marked.reset = object.reset
      /\ marked.installed = object.installed
      /\ marked.finalizer = object.finalizer
  BY DEF HostObject
<1>2. object # Absent /\ marked # Absent
  BY <1>1, ConstantsAssumption
<1>3. Deleted(object) = IF object.finalizer THEN marked ELSE Absent
  BY <1>1 DEF Deleted, Settled
<1> HIDE DEF marked
<1>4. CASE object.finalizer
  BY <1>1, <1>2, <1>3, <1>4 DEF ObjectStep, SamePool, PoolStage, PoolHolder, PoolGuarded
<1>5. CASE ~object.finalizer
  BY <1>2, <1>3, <1>5 DEF ObjectStep, PoolGuarded
<1> QED
  BY <1>4, <1>5

\* A user deletes a host.
LEMMA DeleteHostImplements ==
    ASSUME "host" \notin LaggingKinds, TypeOK, PoolInv, NEW h \in Hosts, DeleteHost(h)
    PROVE  Implements
<1>1. /\ host[h] \in HostObject /\ host[h] # Absent
      /\ WriteHost(h, Deleted(host[h]))
      /\ UNCHANGED <<worker, box>>
  BY DEF DeleteHost, TypeOK
<1>2. host'[h] = Deleted(host[h])
  BY <1>1, WriteKept
<1>3. ObjectStep(host[h], Deleted(host[h])) /\ Unlinked(h)
  BY <1>1, <1>2, DeleteStep DEF Unlinked
<1>4. poolChoice' = poolChoice
  BY <1>1 DEF poolChoice, worker
<1> QED
  BY <1>1, <1>3, <1>4, WriteImplements

\* Steps of a box that write no host.
LEMMA BoxImplements ==
    ASSUME TypeOK, PoolInv, UNCHANGED <<host, worker>>, \A k \in Hosts : Unlinked(k)
    PROVE  Implements
<1>1. UNCHANGED <<poolStage, poolHolder, poolGuarded, poolChoice>>
  BY DEF poolStage, poolHolder, poolGuarded, poolChoice, worker
<1> QED
  BY <1>1, UnlinkedInv DEF Implements, Pool!vars

\* The labels that an agent has set on its host offer it, or finish its reset,
\* or mean nothing to the pool.
LEMMA LabelStep ==
    ASSUME NEW object \in HostObject, object.reset => object.needsReset,
           NEW new \in HostObject,
           \/ new = [object EXCEPT !.installed = TRUE]
           \/ new = [object EXCEPT !.bootstrapped = TRUE]
           \/ new = [object EXCEPT !.reset = TRUE] /\ object.needsReset
    PROVE  /\ ObjectStep(object, new)
           /\ new.machineRef = object.machineRef
           /\ new.needsReset = object.needsReset
           /\ new.reset => object.reset \/ object.needsReset
<1>1. /\ object # Absent /\ new # Absent
      /\ object.reset \in BOOLEAN /\ object.needsReset \in BOOLEAN
      /\ object.installed \in BOOLEAN /\ new.reset \in BOOLEAN /\ new.installed \in BOOLEAN
  BY ConstantsAssumption DEF HostObject
<1>2. /\ new.machineRef = object.machineRef
      /\ new.needsReset = object.needsReset
      /\ new.finalizer = object.finalizer
      /\ \/ new.reset = object.reset /\ new.installed = TRUE
         \/ new.reset = object.reset /\ new.installed = object.installed
         \/ new.reset = TRUE /\ new.installed = object.installed /\ object.needsReset
  BY DEF HostObject
<1>3. SameButStage(object, new)
  BY <1>1, <1>2 DEF SameButStage, PoolHolder, PoolGuarded
<1>4. ObjectStep(object, new)
  BY <1>1, <1>2, <1>3 DEF ObjectStep, SamePool, SameButStage, PoolStage
<1> QED
  BY <1>2, <1>4

\* A new host is nobody's.
LEMMA RegisterImplements ==
    ASSUME "host" \notin LaggingKinds, TypeOK, PoolInv, NEW h \in Hosts, Register(h)
    PROVE  Implements
<1> DEFINE new == NewHost(box[h].identity + 1)
<1>1. box \in [Hosts -> Box] /\ box[h] \in Box
  BY TypeParts DEF BoxOK
<1>2. host[h] = Absent /\ WriteHost(h, new) /\ UNCHANGED worker
  BY DEF Register
<1>3. box[h].identity + 1 \in 1..MaxRegistrations
  BY <1>1, ConstantsAssumption DEF Register, Box
<1>4. /\ new \in HostObject /\ new # Absent
      /\ new.machineRef = None /\ ~new.reset /\ ~new.needsReset /\ ~new.installed
      /\ new.finalizer = FALSE
  BY <1>3, NewHostOK, ConstantsAssumption DEF NewHost
<1> HIDE DEF new
<1>5. host'[h] = new
  BY <1>2, WriteKept
<1>6. ObjectStep(host[h], new)
  BY <1>2, <1>4 DEF ObjectStep, SameButStage, PoolStage, PoolHolder, PoolGuarded
<1>7. /\ box'[h].stage = "registered"
      /\ \A k \in Hosts \ {h} : box'[k] = box[k]
  BY <1>1 DEF Register, Box
<1>8. Unlinked(h)
  BY <1>2, <1>4, <1>5, <1>7 DEF Unlinked, Leaving
<1>9. poolChoice' = poolChoice
  BY <1>2 DEF poolChoice, worker
<1> QED
  BY <1>2, <1>6, <1>7, <1>8, <1>9, WriteImplements

\* Every step of an agent.
LEMMA AgentImplements ==
    ASSUME "host" \notin LaggingKinds, TypeOK, Joined, PoolInv, NEW h \in Hosts, Agent(h)
    PROVE  Implements
<1>1. box \in [Hosts -> Box] /\ box[h] \in Box /\ hostCache = host
  BY TypeParts DEF BoxOK, Joined
<1>2. UNCHANGED worker /\ poolChoice' = poolChoice
  BY DEF Agent, Register, Install, Bootstrap, ReportBootstrapped, TriggerReset,
         DeleteElementalHost, Reset, worker, poolChoice
<1>3. \A k \in Hosts \ {h} : box'[k] = box[k]
  BY <1>1 DEF Agent, Register, Install, Bootstrap, ReportBootstrapped, TriggerReset,
         DeleteElementalHost, Reset
<1>4. CASE Register(h)
  BY <1>4, RegisterImplements
<1>5. CASE Install(h) \/ ReportBootstrapped(h) \/ Reset(h)
  <2>1. /\ host[h] # Absent /\ host[h] \in HostObject
        /\ host[h].reset => host[h].needsReset
        /\ box[h].stage \in Leaving => host[h].needsReset
    BY <1>5 DEF Install, ReportBootstrapped, CanReport, Running, Reset, TypeOK,
                PoolInv, ResetInOrder
  <2>2. box'[h].stage \in Leaving => box[h].stage \in Leaving
    BY <1>1, <1>5 DEF Install, ReportBootstrapped, Reset, Box, Leaving
  <2>3. PICK new :
          /\ WriteHost(h, new)
          /\ \/ new = [host[h] EXCEPT !.installed = TRUE]
             \/ new = [host[h] EXCEPT !.bootstrapped = TRUE]
             \/ new = [host[h] EXCEPT !.reset = TRUE] /\ host[h].needsReset
    BY <1>5, <2>1 DEF Install, ReportBootstrapped, Reset, Leaving
  <2>4. new \in HostObject
    BY <2>1, <2>3 DEF HostObject
  <2>5. /\ ObjectStep(host[h], new)
        /\ new.machineRef = host[h].machineRef
        /\ new.needsReset = host[h].needsReset
        /\ new.reset => host[h].reset \/ host[h].needsReset
    BY <2>1, <2>3, <2>4, LabelStep
  <2>6. host'[h] = new
    BY <2>3, WriteKept
  <2>7. Unlinked(h)
    BY <2>1, <2>2, <2>5, <2>6 DEF Unlinked
  <2> QED
    BY <1>2, <1>3, <2>3, <2>5, <2>7, WriteImplements
<1>6. CASE Bootstrap(h) \/ TriggerReset(h)
  <2>1. host' = host /\ (box'[h].stage \in Leaving => box[h].stage \in Leaving \/ host[h].needsReset)
    BY <1>1, <1>6 DEF Bootstrap, TriggerReset, apiVars, Box, Leaving
  <2>2. \A k \in Hosts : Unlinked(k)
    BY <1>3, <2>1 DEF Unlinked
  <2> QED
    BY <1>2, <2>1, <2>2, BoxImplements
<1>7. CASE DeleteElementalHost(h)
  <2>1. box[h].stage \in Leaving
    BY <1>7 DEF DeleteElementalHost, Leaving
  <2>2. CASE UNCHANGED apiVars
    <3>1. \A k \in Hosts : Unlinked(k)
      BY <1>3, <2>1, <2>2 DEF Unlinked, apiVars
    <3> QED
      BY <1>2, <2>2, <3>1, BoxImplements DEF apiVars
  <2>3. CASE host[h] # Absent /\ WriteHost(h, Deleted(host[h]))
    <3>1. host[h] \in HostObject
      BY <2>3 DEF TypeOK
    <3>2. host'[h] = Deleted(host[h])
      BY <2>3, WriteKept
    <3>3. ObjectStep(host[h], Deleted(host[h])) /\ Unlinked(h)
      BY <2>1, <2>3, <3>1, <3>2, DeleteStep DEF Unlinked
    <3> QED
      BY <1>2, <1>3, <2>3, <3>3, WriteImplements
  <2> QED
    BY <1>7, <2>2, <2>3 DEF DeleteElementalHost
<1> QED
  BY <1>4, <1>5, <1>6, <1>7 DEF Agent
-----------------------------------------------------------------------------
\* Every step keeps the invariants and is a step of the pool, or none.
LEMMA NextImplements ==
    ASSUME "host" \notin LaggingKinds, TypeOK, Joined, PoolInv, [Next]_vars
    PROVE  Implements
<1>1. CASE UNCHANGED vars
  BY <1>1, UntouchedImplements DEF vars, worker
<1>2. CASE SyncMachines \/ SyncHosts \/ Crash
  BY <1>2, UntouchedImplements DEF SyncMachines, SyncHosts, Crash, Idle
<1>3. CASE \E m \in Machines : Reconcile(m)
  BY <1>3, ReconcileImplements
<1>4. CASE Work
  <2>1. CASE SetProviderID \/ PatchSpec \/ PatchStatus
    <3>1. pc' # "linkHost" /\ UNCHANGED <<host, box>>
      BY <2>1 DEF SetProviderID, PatchSpec, PatchStatus, Idle, apiVars, WriteMachine
    <3> QED
      BY <3>1, UntouchedImplements
  <2> QED
    BY <1>4, <2>1, LinkImplements, MarkImplements DEF Work
<1>5. ASSUME NEW h \in Hosts, ReconcileHost(h) \/ Agent(h) \/ DeleteHost(h)
      PROVE  Implements
  BY <1>5, ReconcileHostImplements, AgentImplements, DeleteHostImplements
<1>6. ASSUME NEW m \in Machines, SetOwner(m) \/ Provision(m) \/ DeleteMachine(m)
      PROVE  Implements
  <2>1. UNCHANGED <<host, box, worker>>
    BY <1>6 DEF SetOwner, Provision, DeleteMachine, WriteMachine, apiVars
  <2> QED
    BY <2>1, UntouchedImplements
<1>7. CASE InitializeControlPlane
  BY <1>7, UntouchedImplements DEF InitializeControlPlane, apiVars
<1> QED
  BY <1>1, <1>2, <1>3, <1>4, <1>5, <1>6, <1>7 DEF Next

\* The initial states satisfy the invariant and are those of the pool.
LEMMA InitImplements == Init => PoolInv /\ Pool!Init
<1> SUFFICES ASSUME Init PROVE PoolInv /\ Pool!Init
  OBVIOUS
<1>1. PoolInv
  BY DEF Init, PoolInv, OneHostPerMachine, ChoiceFree, ResetInOrder
<1>2. poolStage = [h \in Hosts |-> "absent"] /\ poolHolder = [h \in Hosts |-> None]
  BY DEF Init, poolStage, poolHolder, PoolStage, PoolHolder
<1>3. poolGuarded = [h \in Hosts |-> FALSE] /\ poolChoice = None
  BY DEF Init, poolGuarded, poolChoice, PoolGuarded
<1> QED
  BY <1>1, <1>2, <1>3 DEF Pool!Init

\* With hosts read up to date, reconcilers, agents and users together behave as
\* a pool of hosts, whatever fails between the calls of a reconcile.
THEOREM ImplementsPool ==
    ASSUME "host" \notin LaggingKinds
    PROVE  Spec => PoolImplemented
<1>1. Spec => []TypeOK
  BY TypeCorrect
<1>2. Spec => []Joined
  BY JoinedAlways
<1>3. TypeOK /\ Joined /\ PoolInv /\ [Next]_vars => PoolInv' /\ [Pool!Next]_(Pool!vars)
  BY NextImplements DEF Implements
<1>4. Init => PoolInv /\ Pool!Init
  BY InitImplements
<1> QED
  BY <1>1, <1>2, <1>3, <1>4, PTL DEF Spec, PoolImplemented, Pool!Spec

\* With hosts read up to date, no machine takes a second host: a link that was
\* made halfway is found again, whatever fails in between.
THEOREM MachineHoldsOneHost ==
    ASSUME "host" \notin LaggingKinds
    PROVE  Spec => []OneHostPerMachine
<1>1. Spec => []TypeOK
  BY TypeCorrect
<1>2. Spec => []Joined
  BY JoinedAlways
<1>3. TypeOK /\ Joined /\ PoolInv /\ [Next]_vars => PoolInv'
  BY NextImplements DEF Implements
<1>4. Init => PoolInv
  BY InitImplements
<1>5. PoolInv => OneHostPerMachine
  BY DEF PoolInv
<1> QED
  BY <1>1, <1>2, <1>3, <1>4, <1>5, PTL DEF Spec
=============================================================================

------------------------- MODULE RegistrationProofs -------------------------
(* Theorems about Registration, for every value of its constants.          *)
EXTENDS Registration, TLAPS

RegistrationOrAbsent == RegistrationObject \cup {Absent}
SecretOrAbsent == SecretObject \cup {Absent}

ObjectsOK ==
    /\ registration \in RegistrationOrAbsent
    /\ registrationCache \in RegistrationOrAbsent
    /\ secret \in SecretOrAbsent

WorkerOK ==
    \/ pc = "idle" /\ job = None
    \/ pc \in {"create", "sign", "patchReady", "patchSpec"} /\ job \in Job

UsersOK ==
    /\ config \in [Agents -> Tokens]
    /\ rotation \in {"no", "secretDeleted", "refCleared"}
    /\ used \in Counters

\* The type invariant is the conjunction of its three parts, before and after a
\* step.
LEMMA TypeParts == TypeOK <=> ObjectsOK /\ WorkerOK /\ UsersOK
BY DEF TypeOK, ObjectsOK, WorkerOK, UsersOK, RegistrationOrAbsent, SecretOrAbsent

LEMMA TypePrimed == TypeOK' <=> ObjectsOK' /\ WorkerOK' /\ UsersOK'
BY TypeParts, PTL

\* There is a number of keys.
LEMMA KeysCounted == MaxKeys \in Nat
BY ConstantsAssumption DEF MaxKeys

\* What the counters become stays in their bounds.
LEMMA Counted ==
    ASSUME used \in Counters
    PROVE  /\ \A faults \in 0..MaxFaults : [used EXCEPT !.faults = faults] \in Counters
           /\ used.faults < MaxFaults => used.faults + 1 \in 0..MaxFaults
           /\ used.edits < MaxEdits => used.edits + 1 \in 0..MaxEdits
           /\ used.rotations < MaxRotations => used.rotations + 1 \in 0..MaxRotations
           /\ used.registrations < MaxRegistrations
                => used.registrations + 1 \in 1..MaxRegistrations
           /\ used.keys < MaxKeys => used.keys + 1 \in 1..MaxKeys
<1>1. /\ used.faults \in Nat /\ used.edits \in Nat /\ used.rotations \in Nat
      /\ used.registrations \in Nat /\ used.keys \in Nat
  BY ConstantsAssumption, KeysCounted DEF Counters
<1>2. \A faults \in 0..MaxFaults : [used EXCEPT !.faults = faults] \in Counters
  BY DEF Counters
<1> QED
  BY <1>1, <1>2, ConstantsAssumption, KeysCounted

\* Writes keep the objects typed.
LEMMA WriteRegistrationOK ==
    ASSUME ObjectsOK, NEW object \in RegistrationOrAbsent, WriteRegistration(object)
    PROVE  ObjectsOK'
BY DEF ObjectsOK, WriteRegistration

LEMMA WriteSecretOK ==
    ASSUME ObjectsOK, NEW object \in SecretOrAbsent, WriteSecret(object)
    PROVE  ObjectsOK'
BY DEF ObjectsOK, WriteSecret

\* What the reconciler makes of the registration it read.
LEMMA AfterOK ==
    ASSUME NEW object \in RegistrationObject, NEW token \in Tokens
    PROVE  /\ [object EXCEPT !.defaults = TRUE] \in RegistrationObject
           /\ [object EXCEPT !.ref = TRUE] \in RegistrationObject
           /\ [object EXCEPT !.ref = FALSE] \in RegistrationObject
           /\ [object EXCEPT !.ready = TRUE] \in RegistrationObject
           /\ [object EXCEPT !.token = token] \in RegistrationObject
BY DEF RegistrationObject

\* A busy worker goes on with a typed job.
LEMMA ContinueOK ==
    ASSUME job \in Job, NEW call \in {"create", "sign", "patchReady", "patchSpec"},
           NEW after \in RegistrationObject, Continue(call, after)
    PROVE  WorkerOK' /\ job'.before = job.before /\ job'.after = after
BY DEF Continue, WorkerOK, Job
-----------------------------------------------------------------------------
(* Type correctness, one lemma per actor.                                  *)

\* A busy worker has a job.
LEMMA Busy ==
    ASSUME TypeOK, pc # "idle"
    PROVE  job \in Job /\ job.before \in RegistrationObject /\ job.after \in RegistrationObject
BY DEF TypeOK, Job

\* A worker starts with a typed job.
LEMMA StartOK ==
    ASSUME NEW call \in {"create", "sign", "patchReady"}, NEW before \in RegistrationObject,
           NEW after \in RegistrationObject, Start(call, before, after)
    PROVE  WorkerOK' /\ pc' = call /\ job'.before = before /\ job'.after = after
BY DEF Start, WorkerOK, Job

\* A reconcile that begins has a typed job, with the token it read.
LEMMA BeginOK ==
    ASSUME NEW before \in RegistrationObject, Begin(before)
    PROVE  /\ WorkerOK' /\ job'.before = before /\ job'.after.token = before.token
           /\ pc' \in {"create", "sign", "patchReady"}
<1> DEFINE after == [before EXCEPT !.defaults = TRUE]
<1>1. None \in Tokens
  BY DEF Tokens
<1>2. after \in RegistrationObject /\ after.token = before.token
  BY <1>1, AfterOK DEF RegistrationObject
<1>3. \/ Start("create", before, after)
      \/ Start("sign", before, after)
      \/ Start("patchReady", before, [after EXCEPT !.ready = TRUE])
  BY DEF Begin
<1> HIDE DEF after
<1>4. /\ [after EXCEPT !.ready = TRUE] \in RegistrationObject
      /\ [after EXCEPT !.ready = TRUE].token = before.token
  BY <1>1, <1>2, AfterOK DEF RegistrationObject
<1> QED
  BY <1>2, <1>3, <1>4, StartOK

\* Reconcile begins.
LEMMA ReconcileType ==
    ASSUME TypeOK, Reconcile
    PROVE  TypeOK'
<1>1. WorkerOK'
  BY BeginOK DEF TypeOK, Reconcile
<1>2. ObjectsOK' /\ UsersOK'
  BY TypeParts DEF Reconcile, apiVars, ObjectsOK, UsersOK
<1> QED
  BY <1>1, <1>2, TypePrimed

\* What a reconcile does after it has made sure of the secret.
LEMMA AfterCreateOK ==
    ASSUME job \in Job, job.before \in RegistrationObject, job.after \in RegistrationObject,
           AfterCreate
    PROVE  /\ WorkerOK' /\ job'.before = job.before /\ job'.after.token = job.after.token
           /\ pc' \in {"sign", "patchReady"}
<1>1. Referenced \in RegistrationObject /\ Referenced.token = job.after.token
  BY DEF Referenced, RegistrationObject
<1>2. /\ [Referenced EXCEPT !.ready = TRUE] \in RegistrationObject
      /\ [Referenced EXCEPT !.ready = TRUE].token = job.after.token
  BY <1>1 DEF RegistrationObject
<1>3. CASE Continue("sign", Referenced)
  BY <1>1, <1>3, ContinueOK DEF Continue
<1>4. CASE Succeed(Referenced)
  BY <1>2, <1>4, ContinueOK DEF Succeed, Continue
<1> QED
  BY <1>3, <1>4 DEF AfterCreate

\* What it does after an error.
LEMMA FailOK ==
    ASSUME job \in Job, job.after \in RegistrationObject, Fail
    PROVE  WorkerOK' /\ job'.before = job.before /\ job'.after = job.after /\ pc' = "patchSpec"
BY ContinueOK DEF Fail, Continue

\* The secret is created, found or neither.
LEMMA GenerateType ==
    ASSUME TypeOK, GenerateNewIdentity
    PROVE  TypeOK'
<1>1. job \in Job /\ job.before \in RegistrationObject /\ job.after \in RegistrationObject
  BY Busy DEF GenerateNewIdentity
<1>2. WorkerOK'
  BY <1>1, AfterCreateOK, FailOK DEF GenerateNewIdentity
<1>3. ObjectsOK'
  <2>1. CASE UNCHANGED apiVars
    BY <2>1, TypeParts DEF apiVars, ObjectsOK
  <2>2. CASE used.keys < MaxKeys /\ WriteSecret(NewSecret)
    <3>1. used.keys + 1 \in Keys /\ job.before.uid \in 1..MaxRegistrations
      BY <1>1, <2>2, Counted DEF TypeOK, Keys, RegistrationObject
    <3>2. NewSecret \in SecretOrAbsent
      BY <3>1, ConstantsAssumption DEF NewSecret, SecretObject, SecretOrAbsent
    <3> QED
      BY <2>2, <3>2, TypeParts, WriteSecretOK
  <2> QED
    BY <2>1, <2>2 DEF GenerateNewIdentity
<1>4. used' \in Counters
  <2>1. used \in Counters
    BY DEF TypeOK
  <2>2. CASE used' = used \/ Fault
    BY <2>1, <2>2, Counted DEF Fault
  <2>3. CASE used.keys < MaxKeys /\ used' = [used EXCEPT !.keys = @ + 1]
    <3>1. used.keys + 1 \in 0..MaxKeys
      BY <2>1, <2>3, Counted, KeysCounted
    <3> QED
      BY <2>1, <2>3, <3>1 DEF Counters
  <2>4. CASE /\ used.keys < MaxKeys /\ used.faults < MaxFaults
             /\ used' = [used EXCEPT !.keys = @ + 1, !.faults = @ + 1]
    <3>1. used.keys + 1 \in 0..MaxKeys /\ used.faults + 1 \in 0..MaxFaults
      BY <2>1, <2>4, Counted, KeysCounted
    <3> QED
      BY <2>1, <2>4, <3>1 DEF Counters
  <2> QED
    BY <2>2, <2>3, <2>4 DEF GenerateNewIdentity, Fine
<1>5. UsersOK'
  BY <1>4, TypeParts DEF GenerateNewIdentity, UsersOK
<1> QED
  BY <1>2, <1>3, <1>5, TypePrimed

\* The token is signed, or not.
LEMMA SignType ==
    ASSUME TypeOK, SetNewToken
    PROVE  TypeOK'
<1>1. job \in Job /\ job.before \in RegistrationObject /\ job.after \in RegistrationObject
  BY Busy DEF SetNewToken
<1>2. secret # Absent =>
        [[job.after EXCEPT !.token = secret.key] EXCEPT !.ready = TRUE] \in RegistrationObject
  BY <1>1 DEF TypeOK, SecretObject, RegistrationObject, Tokens
<1>3. WorkerOK'
  BY <1>1, <1>2, ContinueOK, FailOK DEF SetNewToken, Succeed
<1>4. ObjectsOK'
  BY TypeParts DEF SetNewToken, apiVars, ObjectsOK
<1>5. used' \in Counters
  BY Counted DEF SetNewToken, Fine, Fault, TypeOK
<1>6. UsersOK'
  BY <1>5, TypeParts DEF SetNewToken, UsersOK
<1> QED
  BY <1>3, <1>4, <1>6, TypePrimed

\* The two calls of the deferred patch.
LEMMA PatchType ==
    ASSUME TypeOK, PatchReady \/ PatchSpec
    PROVE  TypeOK'
<1>1. job \in Job /\ job.before \in RegistrationObject /\ job.after \in RegistrationObject
  BY Busy DEF PatchReady, PatchSpec
<1>2. WorkerOK'
  BY <1>1, ContinueOK DEF PatchReady, PatchSpec, Idle, WorkerOK
<1>3. ObjectsOK'
  <2>1. CASE UNCHANGED apiVars
    BY <2>1, TypeParts DEF apiVars, ObjectsOK
  <2>2. CASE registration # Absent
    <3>1. registration \in RegistrationObject
      BY <2>2 DEF TypeOK
    <3>2. [registration EXCEPT !.ready = Merged(@, job.before.ready, job.after.ready)]
            \in RegistrationOrAbsent
      BY <1>1, <3>1 DEF RegistrationObject, RegistrationOrAbsent, Merged
    <3>3. [registration EXCEPT
                !.defaults = Merged(@, job.before.defaults, job.after.defaults),
                !.ref      = Merged(@, job.before.ref, job.after.ref),
                !.token    = Merged(@, job.before.token, job.after.token)]
            \in RegistrationOrAbsent
      BY <1>1, <3>1 DEF RegistrationObject, RegistrationOrAbsent, Merged
    <3> QED
      BY <2>1, <3>2, <3>3, TypeParts, WriteRegistrationOK DEF PatchReady, PatchSpec
  <2> QED
    BY <2>1, <2>2 DEF PatchReady, PatchSpec
<1>4. used' \in Counters
  BY Counted DEF PatchReady, PatchSpec, Fine, Fault, TypeOK
<1>5. UsersOK'
  BY <1>4, TypeParts DEF PatchReady, PatchSpec, UsersOK
<1> QED
  BY <1>2, <1>3, <1>5, TypePrimed

\* The manager crashes, the informer catches up, the collector runs.
LEMMA EnvironmentType ==
    ASSUME TypeOK, Crash \/ SyncRegistration \/ CollectGarbage
    PROVE  TypeOK'
<1>1. WorkerOK'
  BY TypeParts DEF Crash, SyncRegistration, CollectGarbage, Idle, WorkerOK
<1>2. ObjectsOK'
  BY TypeParts DEF Crash, SyncRegistration, CollectGarbage, WriteSecret, ObjectsOK,
     SecretOrAbsent
<1>3. used' \in Counters
  BY Counted DEF Crash, SyncRegistration, CollectGarbage, Fault, TypeOK
<1>4. UsersOK'
  BY <1>3, TypeParts DEF Crash, SyncRegistration, CollectGarbage, UsersOK
<1> QED
  BY <1>1, <1>2, <1>4, TypePrimed

\* What counts as an edit, a rotation or a registration.
LEMMA CountOK ==
    ASSUME used \in Counters,
           \/ Count("registrations", MaxRegistrations)
           \/ Count("edits", MaxEdits)
           \/ Count("rotations", MaxRotations)
    PROVE  used' \in Counters
<1>1. /\ used.edits < MaxEdits => used.edits + 1 \in 0..MaxEdits
      /\ used.rotations < MaxRotations => used.rotations + 1 \in 0..MaxRotations
      /\ used.registrations < MaxRegistrations
            => used.registrations + 1 \in 0..MaxRegistrations
  BY Counted, ConstantsAssumption
<1>2. CASE Count("registrations", MaxRegistrations)
  BY <1>1, <1>2 DEF Count, Counters
<1>3. CASE Count("edits", MaxEdits)
  BY <1>1, <1>3 DEF Count, Counters
<1>4. CASE Count("rotations", MaxRotations)
  BY <1>1, <1>4 DEF Count, Counters
<1> QED
  BY <1>2, <1>3, <1>4

\* An agent gets a config.
LEMMA AgentType ==
    ASSUME TypeOK, NEW a \in Agents, GetRegistration(a) \/ PrintAgentConfig(a)
    PROVE  TypeOK'
<1>1. config' \in [Agents -> Tokens]
  BY DEF GetRegistration, PrintAgentConfig, TypeOK, RegistrationObject
<1>2. used' \in Counters
  BY CountOK DEF GetRegistration, PrintAgentConfig, TypeOK
<1>3. UsersOK'
  BY <1>1, <1>2, TypeParts DEF GetRegistration, PrintAgentConfig, UsersOK
<1>4. ObjectsOK' /\ WorkerOK'
  BY TypeParts DEF GetRegistration, PrintAgentConfig, apiVars, ObjectsOK, WorkerOK
<1> QED
  BY <1>3, <1>4, TypePrimed

\* Users create, edit and delete.
LEMMA UserType ==
    ASSUME TypeOK,
           \/ CreateRegistration \/ DeleteRegistration \/ CreateSecret \/ EditToken
           \/ RotateKey
    PROVE  TypeOK'
<1> USE DEF RotateKey
<1>1. WorkerOK'
  BY TypeParts DEF CreateRegistration, DeleteRegistration, CreateSecret, EditToken,
     DeleteSecret, ClearPrivateKeyRef, RemoveOldToken, WorkerOK
<1>2. used \in Counters
  BY DEF TypeOK
<1>3. used' \in Counters
  <2>1. CASE CreateSecret
    <3>1. used.edits + 1 \in 0..MaxEdits /\ used.keys + 1 \in 0..MaxKeys
      BY <1>2, <2>1, Counted, KeysCounted DEF CreateSecret
    <3> QED
      BY <1>2, <2>1, <3>1 DEF CreateSecret, Counters
  <2> QED
    BY <1>2, <2>1, CountOK DEF CreateRegistration, DeleteRegistration, EditToken,
       DeleteSecret, ClearPrivateKeyRef, RemoveOldToken
<1>4. UsersOK'
  BY <1>3, TypeParts DEF CreateRegistration, DeleteRegistration, CreateSecret, EditToken,
     DeleteSecret, ClearPrivateKeyRef, RemoveOldToken, UsersOK
<1>5. ObjectsOK'
  <2>1. CASE CreateRegistration
    <3>1. used.registrations + 1 \in 1..MaxRegistrations
      BY <1>2, <2>1, Counted DEF CreateRegistration, Count
    <3>2. NewRegistration(used.registrations + 1) \in RegistrationOrAbsent
      BY <3>1 DEF NewRegistration, RegistrationObject, RegistrationOrAbsent, Tokens
    <3> QED
      BY <2>1, <3>2, TypeParts, WriteRegistrationOK DEF CreateRegistration
  <2>2. CASE DeleteRegistration
    BY <2>2, TypeParts, WriteRegistrationOK DEF DeleteRegistration, RegistrationOrAbsent
  <2>3. CASE CreateSecret
    <3>1. used.keys + 1 \in Keys
      BY <1>2, <2>3, Counted DEF CreateSecret, Keys
    <3>2. [key |-> used.keys + 1, owner |-> 0] \in SecretOrAbsent
      BY <3>1, ConstantsAssumption DEF SecretObject, SecretOrAbsent
    <3> QED
      BY <2>3, <3>2, TypeParts, WriteSecretOK DEF CreateSecret
  <2>4. CASE EditToken
    <3>1. \A token \in {None, Disabled} :
            [registration EXCEPT !.token = token] \in RegistrationOrAbsent
      BY <2>4, AfterOK DEF EditToken, TypeOK, RegistrationOrAbsent, Tokens
    <3> QED
      BY <2>4, <3>1, TypeParts, WriteRegistrationOK DEF EditToken
  <2>5. CASE DeleteSecret
    BY <2>5, TypeParts, WriteSecretOK DEF DeleteSecret, SecretOrAbsent
  <2>6. CASE ClearPrivateKeyRef \/ RemoveOldToken
    <3>1. None \in Tokens
      BY DEF Tokens
    <3>2. /\ [registration EXCEPT !.ref = FALSE] \in RegistrationOrAbsent
          /\ [registration EXCEPT !.token = None] \in RegistrationOrAbsent
      BY <2>6, <3>1, AfterOK
         DEF ClearPrivateKeyRef, RemoveOldToken, TypeOK, RegistrationOrAbsent
    <3> QED
      BY <2>6, <3>2, TypeParts, WriteRegistrationOK DEF ClearPrivateKeyRef, RemoveOldToken
  <2> QED
    BY <2>1, <2>2, <2>3, <2>4, <2>5, <2>6
<1> QED
  BY <1>1, <1>4, <1>5, TypePrimed

\* The initial state is typed.
LEMMA InitType == Init => TypeOK
BY ConstantsAssumption, KeysCounted DEF Init, TypeOK, Counters, Tokens

\* Every step keeps the type invariant.
LEMMA NextType == TypeOK /\ [Next]_vars => TypeOK'
<1> SUFFICES ASSUME TypeOK, [Next]_vars
             PROVE  TypeOK'
  OBVIOUS
<1>1. CASE UNCHANGED vars
  BY <1>1 DEF vars, TypeOK
<1> QED
  BY <1>1, ReconcileType, GenerateType, SignType, PatchType, EnvironmentType, AgentType,
     UserType DEF Next, Work

\* Every variable keeps its type, and a busy reconciler knows its job, for any
\* number of agents and keys, any lag of the informer and any failures.
THEOREM TypeCorrect == Spec => []TypeOK
BY InitType, NextType, PTL DEF Spec
-----------------------------------------------------------------------------
(* The token verifies.  TokenVerifies alone is not inductive: between its  *)
(* signature and the patch, a new token exists in the job of the worker    *)
(* only, where it has to verify too.                                       *)

\* The worker is about to write a token.
Pending == pc # "idle" /\ job.after.token # job.before.token

\* A token about to be written belongs to the secret, or a user has deleted
\* the secret to replace it.
PendingVerifies ==
    (Pending /\ registration # Absent)
        => /\ secret # Absent => secret.key = job.after.token
           /\ rotation = "no" => secret # Absent

\* There is no token to write before it is signed.
PendingIsSigned == Pending => pc \in {"patchReady", "patchSpec"}

\* Nothing happens before the registration is created for the first time.
Fresh ==
    used.registrations = 0 =>
        registration = Absent /\ registrationCache = Absent /\ pc = "idle"

TokenInv == TokenVerifies /\ PendingVerifies /\ PendingIsSigned /\ Fresh

LEMMA TokenReconcile ==
    ASSUME TypeOK, TokenInv, Reconcile
    PROVE  TokenInv'
<1>1. ~Pending' /\ registrationCache # Absent /\ UNCHANGED <<apiVars, rotation, used>>
  BY BeginOK DEF TypeOK, Reconcile, Pending
<1> QED
  BY <1>1 DEF TokenInv, TokenVerifies, Verifies, PendingVerifies, PendingIsSigned, Fresh,
     apiVars

LEMMA TokenGenerate ==
    ASSUME TypeOK, TokenInv, GenerateNewIdentity
    PROVE  TokenInv'
<1>1. job \in Job /\ job.before \in RegistrationObject /\ job.after \in RegistrationObject
  BY Busy DEF GenerateNewIdentity
<1>2. job'.before = job.before /\ job'.after.token = job.after.token
  BY <1>1, AfterCreateOK, FailOK DEF GenerateNewIdentity
<1>3. ~Pending'
  BY <1>2 DEF GenerateNewIdentity, TokenInv, PendingIsSigned, Pending
<1>4. /\ UNCHANGED <<registration, registrationCache, rotation>>
      /\ secret # Absent => secret' = secret
  BY DEF GenerateNewIdentity, WriteSecret, apiVars
<1>5. used'.registrations = used.registrations /\ used.registrations # 0
  BY DEF GenerateNewIdentity, Fine, Fault, TypeOK, Counters, TokenInv, Fresh
<1> QED
  BY <1>3, <1>4, <1>5 DEF TokenInv, TokenVerifies, Verifies, PendingVerifies,
     PendingIsSigned, Fresh

LEMMA TokenSign ==
    ASSUME TypeOK, TokenInv, SetNewToken
    PROVE  TokenInv'
<1>1. job \in Job /\ job.before \in RegistrationObject /\ job.after \in RegistrationObject
  BY Busy DEF SetNewToken
<1>2. UNCHANGED <<registration, registrationCache, secret, rotation>>
  BY DEF SetNewToken, apiVars
<1>3. used'.registrations = used.registrations /\ used.registrations # 0
  BY DEF SetNewToken, Fine, Fault, TypeOK, Counters, TokenInv, Fresh
<1>4. CASE Fail
  <2>1. ~Pending'
    BY <1>1, <1>4, FailOK DEF SetNewToken, TokenInv, PendingIsSigned, Pending
  <2> QED
    BY <1>2, <1>3, <2>1 DEF TokenInv, TokenVerifies, Verifies, PendingVerifies,
       PendingIsSigned, Fresh
<1>5. CASE secret # Absent /\ Succeed([job.after EXCEPT !.token = secret.key])
  <2>1. pc' = "patchReady" /\ job'.after.token = secret.key
    BY <1>1, <1>5 DEF Succeed, Continue, Job, RegistrationObject
  <2> QED
    BY <1>2, <1>3, <1>5, <2>1 DEF TokenInv, TokenVerifies, Verifies, PendingVerifies,
       PendingIsSigned, Fresh, Pending
<1> QED
  BY <1>4, <1>5 DEF SetNewToken

LEMMA TokenPatchReady ==
    ASSUME TypeOK, TokenInv, PatchReady
    PROVE  TokenInv'
<1>1. job \in Job /\ job.before \in RegistrationObject /\ job.after \in RegistrationObject
  BY Busy DEF PatchReady
<1>2. pc' = "patchSpec" /\ job'.before = job.before /\ job'.after = job.after
  BY <1>1 DEF PatchReady, Continue, Job
<1>3. Pending' <=> Pending
  BY <1>2 DEF PatchReady, Pending
<1>4. secret' = secret /\ rotation' = rotation
  BY DEF PatchReady, WriteRegistration, apiVars
<1>5. used'.registrations = used.registrations /\ used.registrations # 0
  BY DEF PatchReady, Fine, Fault, TypeOK, Counters, TokenInv, Fresh
<1>6. \/ registration' = registration
      \/ registration # Absent /\ registration'.token = registration.token
  BY DEF PatchReady, WriteRegistration, apiVars, TypeOK, RegistrationObject
<1> QED
  BY <1>2, <1>3, <1>4, <1>5, <1>6 DEF TokenInv, TokenVerifies, Verifies, PendingVerifies,
     PendingIsSigned, Fresh

LEMMA TokenPatchSpec ==
    ASSUME TypeOK, TokenInv, PatchSpec
    PROVE  TokenInv'
<1>1. job \in Job /\ job.before \in RegistrationObject /\ job.after \in RegistrationObject
  BY Busy DEF PatchSpec
<1>2. ~Pending'
  BY DEF PatchSpec, Idle, Pending
<1>3. secret' = secret /\ rotation' = rotation
  BY DEF PatchSpec, WriteRegistration, apiVars
<1>4. used'.registrations = used.registrations /\ used.registrations # 0
  BY DEF PatchSpec, Fine, Fault, TypeOK, Counters, TokenInv, Fresh
<1>5. \/ registration' = registration
      \/ /\ registration # Absent
         /\ registration'.token
                = Merged(registration.token, job.before.token, job.after.token)
  BY DEF PatchSpec, WriteRegistration, apiVars, TypeOK, RegistrationObject
<1>6. TokenVerifies'
  BY <1>3, <1>5 DEF TokenInv, TokenVerifies, Verifies, PendingVerifies, Pending, Merged,
     PatchSpec
<1> QED
  BY <1>2, <1>4, <1>6 DEF TokenInv, PendingVerifies, PendingIsSigned, Fresh

\* A registration that is created once never owns a secret that is collected.
LEMMA NothingCollected ==
    ASSUME MaxRegistrations = 1, TypeOK, CollectGarbage
    PROVE  registration = Absent
BY DEF TypeOK, CollectGarbage, RegistrationObject, SecretObject

LEMMA TokenEnvironment ==
    ASSUME MaxRegistrations = 1, TypeOK, TokenInv,
           Crash \/ SyncRegistration \/ CollectGarbage
    PROVE  TokenInv'
<1>1. CASE Crash
  BY <1>1 DEF Crash, Idle, Fault, TypeOK, Counters, TokenInv, TokenVerifies, Verifies,
     PendingVerifies, PendingIsSigned, Pending, Fresh
<1>2. CASE SyncRegistration
  BY <1>2 DEF SyncRegistration, TokenInv, TokenVerifies, Verifies, PendingVerifies,
     PendingIsSigned, Pending, Fresh
<1>3. CASE CollectGarbage
  BY <1>3, NothingCollected DEF CollectGarbage, WriteSecret, TokenInv, TokenVerifies,
     PendingVerifies, PendingIsSigned, Pending, Fresh
<1> QED
  BY <1>1, <1>2, <1>3

LEMMA TokenAgent ==
    ASSUME TypeOK, TokenInv, NEW a \in Agents, GetRegistration(a) \/ PrintAgentConfig(a)
    PROVE  TokenInv'
<1>1. /\ UNCHANGED <<registration, registrationCache, secret, pc, job, rotation>>
      /\ used'.registrations = used.registrations
  BY DEF GetRegistration, PrintAgentConfig, Count, apiVars, TypeOK, Counters
<1> QED
  BY <1>1 DEF TokenInv, TokenVerifies, Verifies, PendingVerifies, PendingIsSigned, Pending,
     Fresh

LEMMA TokenUser ==
    ASSUME MaxRegistrations = 1, TypeOK, TokenInv,
           \/ CreateRegistration \/ DeleteRegistration \/ CreateSecret \/ EditToken
           \/ RotateKey
    PROVE  TokenInv'
<1>1. pc' = pc /\ job' = job
  BY DEF CreateRegistration, DeleteRegistration, CreateSecret, EditToken, RotateKey,
     DeleteSecret, ClearPrivateKeyRef, RemoveOldToken
<1>2. PendingIsSigned' /\ (Pending' <=> Pending)
  BY <1>1 DEF TokenInv, PendingIsSigned, Pending
<1>3. CASE CreateRegistration
  <2>1. used.registrations = 0 /\ used'.registrations = 1
    BY <1>3 DEF CreateRegistration, Count, TypeOK, Counters
  <2>2. ~Pending /\ registration'.token = None
    BY <1>3, <2>1 DEF CreateRegistration, WriteRegistration, NewRegistration, TokenInv,
       Fresh, Pending
  <2> QED
    BY <1>2, <2>1, <2>2, ConstantsAssumption
       DEF TokenInv, TokenVerifies, PendingVerifies, Fresh
<1>4. CASE DeleteRegistration \/ CreateSecret
  <2>1. registration' = Absent
    BY <1>4 DEF DeleteRegistration, CreateSecret, WriteRegistration, WriteSecret
  <2>2. CASE DeleteRegistration
    <3>1. used'.registrations = used.registrations /\ used.registrations # 0
      BY <2>2 DEF DeleteRegistration, Count, TypeOK, Counters, TokenInv, Fresh
    <3> QED
      BY <1>2, <2>1, <3>1 DEF TokenInv, TokenVerifies, PendingVerifies, Fresh
  <2>3. CASE CreateSecret
    <3>1. used'.registrations = used.registrations /\ registrationCache' = registrationCache
      BY <2>3 DEF CreateSecret, WriteSecret, TypeOK, Counters
    <3> QED
      BY <1>1, <1>2, <2>1, <3>1 DEF TokenInv, TokenVerifies, PendingVerifies, Fresh
  <2> QED
    BY <1>4, <2>2, <2>3
<1>5. CASE EditToken \/ RotateKey
  <2>1. used'.registrations = used.registrations /\ used.registrations # 0
    BY <1>5 DEF EditToken, RotateKey, DeleteSecret, ClearPrivateKeyRef, RemoveOldToken,
       Count, TypeOK, Counters, TokenInv, Fresh
  <2>2. CASE EditToken
    <3>1. secret' = secret /\ rotation' = rotation /\ registration # Absent
      BY <2>2 DEF EditToken, WriteRegistration
    <3>2. registration'.token \in {None, Disabled}
      BY <2>2 DEF EditToken, WriteRegistration, TypeOK, RegistrationObject
    <3> QED
      BY <1>1, <1>2, <2>1, <3>1, <3>2, ConstantsAssumption
         DEF TokenInv, TokenVerifies, PendingVerifies, Fresh
  <2>3. CASE DeleteSecret
    BY <1>1, <1>2, <2>1, <2>3 DEF DeleteSecret, WriteSecret, TokenInv, TokenVerifies,
       PendingVerifies, Fresh
  <2>4. CASE ClearPrivateKeyRef
    BY <1>1, <1>2, <2>1, <2>4 DEF ClearPrivateKeyRef, WriteRegistration, TokenInv,
       TokenVerifies, PendingVerifies, Fresh
  <2>5. CASE RemoveOldToken
    <3>1. secret' = secret /\ secret # Absent /\ registration # Absent
      BY <2>5 DEF RemoveOldToken, WriteRegistration
    <3>2. registration'.token = None
      BY <2>5 DEF RemoveOldToken, WriteRegistration, TypeOK, RegistrationObject
    <3> QED
      BY <1>1, <1>2, <2>1, <3>1, <3>2, ConstantsAssumption
         DEF TokenInv, TokenVerifies, PendingVerifies, Fresh
  <2> QED
    BY <1>5, <2>2, <2>3, <2>4, <2>5 DEF RotateKey
<1> QED
  BY <1>3, <1>4, <1>5

\* Every step keeps the invariant.
LEMMA TokenNext ==
    ASSUME MaxRegistrations = 1
    PROVE  TypeOK /\ TokenInv /\ [Next]_vars => TokenInv'
<1> SUFFICES ASSUME TypeOK, TokenInv, [Next]_vars
             PROVE  TokenInv'
  OBVIOUS
<1>1. CASE UNCHANGED vars
  BY <1>1 DEF vars, TokenInv, TokenVerifies, Verifies, PendingVerifies, PendingIsSigned,
     Pending, Fresh
<1> QED
  BY <1>1, TokenReconcile, TokenGenerate, TokenSign, TokenPatchReady, TokenPatchSpec,
     TokenEnvironment, TokenAgent, TokenUser DEF Next, Work

\* For a registration that is not created again under its name, whatever calls
\* fail and whenever the manager crashes between the creation of the secret and
\* the two patches, and however late the informer is: unless a user is replacing
\* the key, the token in the registration verifies against the secret.
THEOREM TokensVerify ==
    ASSUME MaxRegistrations = 1
    PROVE  Spec => []TokenVerifies
<1>1. Init => TokenInv
  BY DEF Init, TokenInv, TokenVerifies, PendingVerifies, PendingIsSigned, Pending, Fresh
<1>2. TokenInv => TokenVerifies
  BY DEF TokenInv
<1> QED
  BY <1>1, <1>2, TokenNext, TypeCorrect, PTL DEF Spec
-----------------------------------------------------------------------------
(* Agents keep their tokens: the reconciler writes a secret only where     *)
(* there is none.                                                          *)

\* A step keeps the secret it finds, or removes it.
LEMMA SecretKept ==
    ASSUME [Next]_vars, secret # Absent
    PROVE  secret' = secret \/ secret' = Absent
<1>1. CASE Work
  BY <1>1 DEF Work, GenerateNewIdentity, SetNewToken, PatchReady, PatchSpec,
     WriteRegistration, apiVars
<1>2. CASE SyncRegistration \/ CollectGarbage \/ Reconcile \/ Crash \/ UNCHANGED vars
  BY <1>2 DEF SyncRegistration, CollectGarbage, Reconcile, Crash, WriteSecret, apiVars, vars
<1>3. ASSUME NEW a \in Agents, GetRegistration(a) \/ PrintAgentConfig(a)
      PROVE  secret' = secret
  BY <1>3 DEF GetRegistration, PrintAgentConfig, apiVars
<1>4. CASE CreateRegistration \/ DeleteRegistration \/ CreateSecret \/ EditToken \/ RotateKey
  BY <1>4 DEF CreateRegistration, DeleteRegistration, CreateSecret, EditToken, RotateKey,
     DeleteSecret, ClearPrivateKeyRef, RemoveOldToken, WriteRegistration, WriteSecret
<1> QED
  BY <1>1, <1>2, <1>3, <1>4 DEF Next

\* No agent loses a token that verifies but with the secret, for any number of
\* registrations of the name, users' secrets, failures and late reads.
THEOREM AgentsKeepTokens == Spec => TokensSurvive
<1>1. [Next]_vars =>
        \A a \in Agents : (Verifies(config[a]) /\ config'[a] = config[a])
                              => Verifies(config[a])' \/ secret' = Absent
  BY SecretKept DEF Verifies
<1> QED
  BY <1>1, PTL DEF Spec, TokensSurvive
-----------------------------------------------------------------------------
(* A registration becomes ready with its key.  The condition rests on the  *)
(* reference to the key, in the registration or in a copy of it that was   *)
(* read long ago; what keeps it true is that a reference is set only once  *)
(* there is a key, and that the key of a registration goes only in the     *)
(* course of being replaced.                                               *)

\* Nowhere is the key referred to.
Unreferenced ==
    /\ registration # Absent => ~registration.ref
    /\ registrationCache # Absent => ~registrationCache.ref
    /\ pc # "idle" => ~job.after.ref

KeyReferenced ==
    (secret = Absent /\ registration # Absent /\ rotation = "no") => Unreferenced

\* A reconcile signs a token, and reports Ready, with a reference to a key.
JobReferences == pc \in {"sign", "patchReady"} => job.after.ref

KeyInv == KeyReferenced /\ JobReferences

\* The steps that touch neither a reference nor the key.
LEMMA KeyUntouched ==
    ASSUME KeyInv, UNCHANGED <<registration, secret, pc, job, rotation>>,
           registrationCache' \in {registration, registrationCache}
    PROVE  KeyInv'
BY DEF KeyInv, KeyReferenced, JobReferences, Unreferenced

\* Reconcile goes by the reference it read.
LEMMA KeyReconcile ==
    ASSUME TypeOK, KeyInv, Reconcile
    PROVE  KeyInv'
<1> DEFINE before == registrationCache
           after == [before EXCEPT !.defaults = TRUE]
<1>1. /\ before \in RegistrationObject /\ before # Absent /\ Begin(before) /\ pc = "idle"
      /\ UNCHANGED <<registration, registrationCache, secret, rotation>>
  BY DEF TypeOK, Reconcile, apiVars
<1>2. after \in RegistrationObject /\ after.ref = before.ref
  BY <1>1 DEF RegistrationObject
<1>3. \/ ~before.ref /\ Start("create", before, after)
      \/ before.ref /\ Start("sign", before, after)
      \/ before.ref /\ Start("patchReady", before, [after EXCEPT !.ready = TRUE])
  BY <1>1 DEF Begin
<1> HIDE DEF after
<1>4. [after EXCEPT !.ready = TRUE].ref = before.ref
  BY <1>2 DEF RegistrationObject
<1> HIDE DEF before
<1>5. /\ pc' \in {"create", "sign", "patchReady"}
      /\ pc' # "create" => before.ref
      /\ job'.after.ref = before.ref
  <2>1. CASE ~before.ref /\ Start("create", before, after)
    BY <1>2, <2>1 DEF Start
  <2>2. CASE before.ref /\ Start("sign", before, after)
    BY <1>2, <2>2 DEF Start
  <2>3. CASE before.ref /\ Start("patchReady", before, [after EXCEPT !.ready = TRUE])
    <3>1. pc' = "patchReady" /\ job'.after = [after EXCEPT !.ready = TRUE]
      BY <2>3 DEF Start
    <3> QED
      BY <1>4, <2>3, <3>1
  <2> QED
    BY <1>3, <2>1, <2>2, <2>3
<1> QED
  BY <1>1, <1>5 DEF before, KeyInv, KeyReferenced, JobReferences, Unreferenced

\* The reference is set once the secret is there.
LEMMA KeyGenerate ==
    ASSUME TypeOK, KeyInv, GenerateNewIdentity
    PROVE  KeyInv'
<1>1. job \in Job /\ job.after \in RegistrationObject /\ pc = "create"
  BY Busy DEF GenerateNewIdentity
<1>2. /\ UNCHANGED <<registration, registrationCache, rotation>>
      /\ secret # Absent => secret' = secret
  BY DEF GenerateNewIdentity, WriteSecret, apiVars
<1>3. CASE AfterCreate /\ secret' # Absent
  <2>1. Referenced.ref /\ Referenced \in RegistrationObject
    BY <1>1 DEF Referenced, RegistrationObject
  <2>2. [Referenced EXCEPT !.ready = TRUE].ref
    BY <2>1 DEF RegistrationObject
  <2>3. job'.after.ref
    BY <1>1, <1>3, <2>1, <2>2 DEF AfterCreate, Succeed, Continue, Job
  <2> QED
    BY <1>3, <2>3 DEF KeyInv, KeyReferenced, JobReferences
<1>4. CASE Fail
  <2>1. pc' = "patchSpec" /\ job'.after = job.after
    BY <1>1, <1>4, FailOK DEF Fail, Continue, Job
  <2> QED
    BY <1>1, <1>2, <2>1 DEF KeyInv, KeyReferenced, JobReferences, Unreferenced
<1>5. ASSUME used.keys < MaxKeys
      PROVE  NewSecret # Absent
  <2>1. used.keys + 1 \in Keys /\ job.before.uid \in 0..MaxRegistrations
    BY <1>1, <1>5, Counted, ConstantsAssumption DEF TypeOK, Keys, Job, RegistrationObject
  <2>2. NewSecret \in SecretObject
    BY <2>1 DEF NewSecret, SecretObject
  <2> QED
    BY <2>2, ConstantsAssumption
<1> QED
  BY <1>3, <1>4, <1>5 DEF GenerateNewIdentity, WriteSecret, apiVars

\* Signing leaves the reference alone.
LEMMA KeySign ==
    ASSUME TypeOK, KeyInv, SetNewToken
    PROVE  KeyInv'
<1>1. job \in Job /\ job.after \in RegistrationObject /\ pc = "sign" /\ job.after.ref
  BY Busy DEF SetNewToken, KeyInv, JobReferences
<1>2. UNCHANGED <<registration, registrationCache, secret, rotation>>
  BY DEF SetNewToken, apiVars
<1>3. CASE Fail
  <2>1. pc' = "patchSpec" /\ job'.after = job.after
    BY <1>1, <1>3 DEF Fail, Continue, Job
  <2> QED
    BY <1>1, <1>2, <2>1 DEF KeyInv, KeyReferenced, JobReferences, Unreferenced
<1>4. CASE secret # Absent /\ Succeed([job.after EXCEPT !.token = secret.key])
  <2> DEFINE signed == [job.after EXCEPT !.token = secret.key]
  <2>1. secret.key \in Tokens
    BY <1>4 DEF TypeOK, SecretObject, Tokens
  <2>2. signed \in RegistrationObject /\ signed.ref
    BY <1>1, <2>1, AfterOK DEF RegistrationObject
  <2> HIDE DEF signed
  <2>3. [signed EXCEPT !.ready = TRUE].ref
    BY <2>2 DEF RegistrationObject
  <2>4. pc' = "patchReady" /\ job'.after = [signed EXCEPT !.ready = TRUE]
    BY <1>1, <1>4 DEF Succeed, Continue, Job, signed
  <2> QED
    BY <1>2, <1>4, <2>3, <2>4 DEF KeyInv, KeyReferenced, JobReferences
<1> QED
  BY <1>3, <1>4 DEF SetNewToken

\* The patches write the references of the job, or none.
LEMMA KeyPatch ==
    ASSUME TypeOK, KeyInv, PatchReady \/ PatchSpec
    PROVE  KeyInv'
<1>1. job \in Job /\ job.before \in RegistrationObject /\ job.after \in RegistrationObject
  BY Busy DEF PatchReady, PatchSpec
<1>2. secret' = secret /\ rotation' = rotation
  BY DEF PatchReady, PatchSpec, WriteRegistration, apiVars
<1>3. /\ pc # "idle" /\ pc' \in {"idle", "patchSpec"}
      /\ pc' = "patchSpec" => job'.after = job.after
  BY <1>1 DEF PatchReady, PatchSpec, Idle, Continue, Job
<1>4. \/ registration' = registration
      \/ /\ registration # Absent /\ registration' # Absent
         /\ registration'.ref \in {registration.ref, job.after.ref}
  <2>1. CASE PatchReady /\ registration' # registration
    <3> DEFINE new == [registration EXCEPT !.ready = Merged(@, job.before.ready, job.after.ready)]
    <3>1. registration # Absent /\ registration' = new
      BY <2>1 DEF PatchReady, WriteRegistration, apiVars
    <3>2. registration \in RegistrationObject
      BY <3>1 DEF TypeOK
    <3>3. new \in RegistrationObject /\ new.ref = registration.ref
      BY <1>1, <3>2 DEF RegistrationObject, Merged
    <3> QED
      BY <3>1, <3>3, ConstantsAssumption
  <2>2. CASE PatchSpec /\ registration' # registration
    <3> DEFINE new == [registration EXCEPT
                !.defaults = Merged(@, job.before.defaults, job.after.defaults),
                !.ref      = Merged(@, job.before.ref, job.after.ref),
                !.token    = Merged(@, job.before.token, job.after.token)]
    <3>1. registration # Absent /\ registration' = new
      BY <2>2 DEF PatchSpec, WriteRegistration, apiVars
    <3>2. registration \in RegistrationObject
      BY <3>1 DEF TypeOK
    <3>3. new \in RegistrationObject /\ new.ref \in {registration.ref, job.after.ref}
      BY <1>1, <3>2 DEF RegistrationObject, Merged
    <3> QED
      BY <3>1, <3>3, ConstantsAssumption
  <2> QED
    BY <2>1, <2>2
<1>5. registrationCache' \in {registrationCache, registration'}
  BY DEF PatchReady, PatchSpec, WriteRegistration, apiVars
<1> QED
  BY <1>2, <1>3, <1>4, <1>5 DEF KeyInv, KeyReferenced, JobReferences, Unreferenced

\* Crashes and the informer bring nothing new, and the garbage collector takes
\* no secret of a registration that is there.
LEMMA KeyEnvironment ==
    ASSUME MaxRegistrations = 1, TypeOK, KeyInv, Crash \/ SyncRegistration \/ CollectGarbage
    PROVE  KeyInv'
<1>1. CASE Crash
  BY <1>1 DEF Crash, Idle, KeyInv, KeyReferenced, JobReferences, Unreferenced
<1>2. CASE SyncRegistration
  BY <1>2, KeyUntouched DEF SyncRegistration
<1>3. CASE CollectGarbage
  BY <1>3, NothingCollected DEF CollectGarbage, WriteSecret, KeyInv, KeyReferenced, JobReferences
<1> QED
  BY <1>1, <1>2, <1>3

\* Users remove a secret only to replace it, and say so.
LEMMA KeyUser ==
    ASSUME MaxRegistrations = 1, TypeOK, TokenInv, KeyInv,
           \/ CreateRegistration \/ DeleteRegistration \/ CreateSecret \/ EditToken
           \/ RotateKey
    PROVE  KeyInv'
<1>1. pc' = pc /\ job' = job
  BY DEF CreateRegistration, DeleteRegistration, CreateSecret, EditToken, RotateKey,
     DeleteSecret, ClearPrivateKeyRef, RemoveOldToken
<1>2. JobReferences'
  BY <1>1 DEF KeyInv, JobReferences
<1>3. CASE CreateRegistration
  <2>1. used.registrations = 0
    BY <1>3 DEF CreateRegistration, Count, TypeOK, Counters
  <2>2. pc = "idle" /\ registrationCache = Absent
    BY <2>1 DEF TokenInv, Fresh
  <2>3. ~registration'.ref /\ registrationCache' \in {Absent, registration'}
    BY <1>3, <2>2 DEF CreateRegistration, WriteRegistration, NewRegistration
  <2> QED
    BY <1>1, <1>2, <2>2, <2>3 DEF KeyInv, KeyReferenced, Unreferenced
<1>4. CASE DeleteRegistration \/ CreateSecret
  BY <1>2, <1>4 DEF DeleteRegistration, CreateSecret, WriteRegistration, WriteSecret,
     KeyInv, KeyReferenced
<1>5. CASE EditToken
  <2>1. /\ secret' = secret /\ rotation' = rotation /\ registration # Absent
        /\ registrationCache' \in {registrationCache, registration'}
    BY <1>5 DEF EditToken, WriteRegistration
  <2>2. registration'.ref = registration.ref
    BY <1>5, <2>1 DEF EditToken, WriteRegistration, TypeOK, RegistrationObject
  <2> QED
    BY <1>1, <1>2, <2>1, <2>2 DEF KeyInv, KeyReferenced, Unreferenced
<1>6. CASE DeleteSecret \/ ClearPrivateKeyRef
  BY <1>2, <1>6 DEF DeleteSecret, ClearPrivateKeyRef, KeyInv, KeyReferenced
<1>7. CASE RemoveOldToken
  BY <1>2, <1>7 DEF RemoveOldToken, WriteRegistration, KeyInv, KeyReferenced
<1> QED
  BY <1>3, <1>4, <1>5, <1>6, <1>7 DEF RotateKey

\* Every step keeps the invariant.
LEMMA KeyNext ==
    ASSUME MaxRegistrations = 1, TypeOK, TokenInv, KeyInv, [Next]_vars
    PROVE  KeyInv'
<1>1. ASSUME NEW a \in Agents, GetRegistration(a) \/ PrintAgentConfig(a)
      PROVE  KeyInv'
  BY <1>1, KeyUntouched DEF GetRegistration, PrintAgentConfig, apiVars
<1>2. CASE UNCHANGED vars
  BY <1>2, KeyUntouched DEF vars
<1> QED
  BY <1>1, <1>2, KeyReconcile, KeyGenerate, KeySign, KeyPatch, KeyEnvironment, KeyUser
     DEF Next, Work

\* Only the patch of the conditions makes a registration ready.
LEMMA ReadyByPatch ==
    ASSUME TypeOK, [Next]_vars, registration # Absent, ~registration.ready,
           registration' # Absent, registration'.ready
    PROVE  pc = "patchReady"
<1>1. registration \in RegistrationObject
  BY DEF TypeOK
<1>2. CASE PatchSpec
  <2> DEFINE new == [registration EXCEPT
              !.defaults = Merged(@, job.before.defaults, job.after.defaults),
              !.ref      = Merged(@, job.before.ref, job.after.ref),
              !.token    = Merged(@, job.before.token, job.after.token)]
  <2>1. new.ready = registration.ready
    BY <1>1 DEF RegistrationObject
  <2> HIDE DEF new
  <2>2. registration' = new \/ registration' = registration
    BY <1>2 DEF PatchSpec, WriteRegistration, apiVars, new
  <2> QED
    BY <2>1, <2>2
<1>3. CASE EditToken \/ RotateKey
  <2>1. \/ registration' = registration
        \/ \E token \in {None, Disabled} : registration' = [registration EXCEPT !.token = token]
        \/ registration' = [registration EXCEPT !.ref = FALSE]
    BY <1>3 DEF EditToken, RotateKey, DeleteSecret, ClearPrivateKeyRef, RemoveOldToken,
       WriteRegistration, WriteSecret
  <2> QED
    BY <1>1, <2>1 DEF RegistrationObject
<1>4. CASE PatchReady
  BY <1>4 DEF PatchReady
<1>5. ASSUME NEW a \in Agents, GetRegistration(a) \/ PrintAgentConfig(a)
      PROVE  registration' = registration
  BY <1>5 DEF GetRegistration, PrintAgentConfig, apiVars
<1>6. CASE \/ SyncRegistration \/ CollectGarbage \/ Reconcile \/ Crash \/ GenerateNewIdentity
           \/ SetNewToken \/ CreateRegistration \/ DeleteRegistration \/ CreateSecret
           \/ UNCHANGED vars
  BY <1>6 DEF SyncRegistration, CollectGarbage, Reconcile, Crash, GenerateNewIdentity,
     SetNewToken, CreateRegistration, DeleteRegistration, CreateSecret, WriteRegistration,
     WriteSecret, apiVars, vars
<1> QED
  BY <1>2, <1>3, <1>4, <1>5, <1>6 DEF Next, Work

\* A registration that is not created again under its name becomes ready with
\* its signing key in place, whatever fails between the calls of a reconcile and
\* however late its copy is, unless a user is replacing the key.
THEOREM ReadyHasKey ==
    ASSUME MaxRegistrations = 1
    PROVE  Spec => ReadyWithKey
<1>1. Init => TokenInv /\ KeyInv
  BY DEF Init, TokenInv, TokenVerifies, PendingVerifies, PendingIsSigned, Pending, Fresh,
     KeyInv, KeyReferenced, JobReferences
<1>2. TypeOK /\ TokenInv /\ KeyInv /\ [Next]_vars => KeyInv'
  BY KeyNext
<1>3. TypeOK /\ KeyInv /\ [Next]_vars =>
        ((registration # Absent /\ ~registration.ready
          /\ registration' # Absent /\ registration'.ready /\ rotation = "no")
            => secret # Absent)
  BY ReadyByPatch DEF KeyInv, KeyReferenced, JobReferences, Unreferenced
<1> QED
  BY <1>1, <1>2, <1>3, TokenNext, TypeCorrect, PTL DEF Spec, ReadyWithKey
=============================================================================

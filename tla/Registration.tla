---------------------------- MODULE Registration ----------------------------
(***************************************************************************)
(* One ElementalRegistration and the secret of its name, which holds the   *)
(* key that registration tokens are signed and verified with.  The parties:*)
(*   - the ElementalRegistration reconciler, one worker, whose Reconcile   *)
(*     creates the secret, reads it back, signs a token, and patches the   *)
(*     registration twice: the Ready condition first, then the spec;       *)
(*   - the Elemental API, which lets an agent in if its token verifies     *)
(*     against the secret, and answers with the registration's config;     *)
(*   - users, who edit the registration as doc/AUTH.md describes, and the  *)
(*     garbage collector, which removes a secret whose owner is gone.      *)
(* The registration is read from an informer cache; the spec is patched    *)
(* field by field, with no resource version, on whatever registration has  *)
(* the name.                                                               *)
(*                                                                         *)
(* Abstracted: a token is the number of the key that signed it.  A token   *)
(* that expires is not modelled: it is never renewed, which is documented. *)
(* The URI and the CA certificate are one field, "defaults".  Secrets of   *)
(* users hold a well-formed key.  The cache of secrets may not have a new  *)
(* secret yet, but it holds no key that has been replaced.                 *)
(***************************************************************************)
EXTENDS Naturals

CONSTANTS
    Agents,           \* the agents that are given the registration's config
    Lagging,          \* whether the informer's copy of the registration may be late
    MaxRegistrations, \* bound: how often the registration is created
    MaxRotations,     \* bound: how often its signing key is replaced
    MaxEdits,         \* bound: how often users change anything else
    MaxFaults,        \* bound: how often a call fails or the manager crashes
    None,             \* an empty field
    Disabled,         \* a token that a user has written, which is no JWT
    Absent            \* no object of that name

\* A key for every secret that can be created: two for each registration (one
\* may be made when it is gone already), and one whenever users remove or make
\* the secret.
MaxKeys == 2 * MaxRegistrations + MaxRotations + MaxEdits

Keys == 1..MaxKeys

Tokens == Keys \cup {None, Disabled}

\* ref stands for spec.privateKeyRef, which is never followed: the secret is
\* always looked up by the name of the registration.
RegistrationObject ==
    [uid: 1..MaxRegistrations, defaults: BOOLEAN, ref: BOOLEAN, token: Tokens,
     ready: BOOLEAN]

\* A secret that a user has made has no owner: 0.
SecretObject == [key: Keys, owner: 0..MaxRegistrations]

ASSUME ConstantsAssumption ==
    /\ Lagging \in BOOLEAN
    /\ MaxRegistrations \in Nat \ {0}
    /\ MaxRotations \in Nat
    /\ MaxEdits \in Nat
    /\ MaxFaults \in Nat
    /\ {None, Disabled} \cap Keys = {}
    /\ Absent \notin RegistrationObject \cup SecretObject

VARIABLES
    registration,       \* the ElementalRegistration in the API server
    secret,             \* the secret of that name
    registrationCache,  \* the informer's copy of registration
    pc,                 \* the worker's next call
    job,                \* the registration as read, and as it is to be
    config,             \* the token in the config of each agent
    rotation,           \* how far a user has come with replacing the key
    used                \* what the bounds count

apiVars == <<registration, secret, registrationCache>>
vars == <<registration, secret, registrationCache, pc, job, config,
          rotation, used>>

Counters ==
    [registrations: 0..MaxRegistrations, keys: 0..MaxKeys, rotations: 0..MaxRotations,
     edits: 0..MaxEdits, faults: 0..MaxFaults]
-----------------------------------------------------------------------------
(* The API server and the informer caches.                                 *)

\* One field of a merge patch: written only if it differs from the copy read.
Merged(current, before, after) == IF after = before THEN current ELSE after

WriteRegistration(object) ==
    /\ registration' = object
    /\ registrationCache' = IF Lagging THEN registrationCache ELSE object
    /\ UNCHANGED secret

WriteSecret(object) ==
    /\ secret' = object
    /\ UNCHANGED <<registration, registrationCache>>

SyncRegistration ==
    /\ registrationCache # registration
    /\ registrationCache' = registration
    /\ UNCHANGED <<registration, secret, pc, job, config, rotation, used>>

\* The registration has no finalizer: what it owns is collected after it is gone.
CollectGarbage ==
    /\ secret # Absent
    /\ secret.owner # 0
    /\ registration # Absent => registration.uid # secret.owner
    /\ WriteSecret(Absent)
    /\ UNCHANGED <<pc, job, config, rotation, used>>
-----------------------------------------------------------------------------
(* The ElementalRegistration reconciler.                                   *)

Fine == UNCHANGED used

Fault ==
    /\ used.faults < MaxFaults
    /\ used' = [used EXCEPT !.faults = @ + 1]

Idle == pc' = "idle" /\ job' = None

Continue(call, after) == pc' = call /\ job' = [job EXCEPT !.after = after]

\* Broken variant: the condition is set by the deferred function.
FailReady == Continue("patchReady", [job.after EXCEPT !.ready = TRUE])

\* An error ends Reconcile; the deferred patch persists what has been set.
Fail == Continue("patchSpec", job.after)

\* Nothing left that can fail: the condition is set.
Succeed(after) == Continue("patchReady", [after EXCEPT !.ready = TRUE])

Start(call, before, after) ==
    /\ pc' = call
    /\ job' = [before |-> before, after |-> after]

\* What Reconcile does first: the URI and the CA certificate are set, and the
\* first call depends on the fields that are empty.  The manager does not start
\* without the URL of its API, hence the URI can always be set.
Begin(before) ==
    LET after == [before EXCEPT !.defaults = TRUE]
    IN \/ ~before.ref /\ Start("create", before, after)
       \/ before.ref /\ before.token = None /\ Start("sign", before, after)
       \/ /\ before.ref /\ before.token # None
          /\ Start("patchReady", before, [after EXCEPT !.ready = TRUE])

\* Broken variant: a registration that is ready needs nothing.
ReconcileUnlessReady ==
    /\ pc = "idle"
    /\ registrationCache # Absent
    /\ ~registrationCache.ready
    /\ Begin(registrationCache)
    /\ UNCHANGED <<apiVars, config, rotation, used>>

\* With all fields set and the condition true, Reconcile changes nothing and is
\* left out.
Reconcile ==
    /\ pc = "idle"
    /\ registrationCache # Absent
    /\ \/ ~registrationCache.defaults
       \/ ~registrationCache.ref
       \/ ~registrationCache.ready
       \/ registrationCache.token = None
    /\ Begin(registrationCache)
    /\ UNCHANGED <<apiVars, config, rotation, used>>

NewSecret == [key |-> used.keys + 1, owner |-> job.before.uid]

Referenced == [job.after EXCEPT !.ref = TRUE]

AfterCreate ==
    IF job.after.token = None THEN Continue("sign", Referenced) ELSE Succeed(Referenced)

\* Broken variant: an existing secret gets a new key.
OverwriteIdentity ==
    /\ pc = "create"
    /\ used.keys < MaxKeys
    /\ WriteSecret(NewSecret)
    /\ \/ AfterCreate /\ used' = [used EXCEPT !.keys = @ + 1]
       \/ /\ Fail
          /\ used.faults < MaxFaults
          /\ used' = [used EXCEPT !.keys = @ + 1, !.faults = @ + 1]
    /\ UNCHANGED <<config, rotation>>

\* A secret that exists already is kept, whosever it is.
GenerateNewIdentity ==
    /\ pc = "create"
    /\ \/ /\ secret = Absent
          /\ used.keys < MaxKeys
          /\ WriteSecret(NewSecret)
          /\ \/ AfterCreate /\ used' = [used EXCEPT !.keys = @ + 1]
             \/ /\ Fail
                /\ used.faults < MaxFaults
                /\ used' = [used EXCEPT !.keys = @ + 1, !.faults = @ + 1]
       \/ /\ secret # Absent
          /\ AfterCreate
          /\ Fine
          /\ UNCHANGED apiVars
       \/ /\ Fail
          /\ Fault
          /\ UNCHANGED apiVars
    /\ UNCHANGED <<config, rotation>>

\* Broken variant: a secret with no key is not noticed.
SignAnyway ==
    /\ pc = "sign"
    /\ Succeed([job.after EXCEPT !.token = IF secret = Absent THEN 0 ELSE secret.key])
    /\ Fine
    /\ UNCHANGED <<apiVars, config, rotation>>

\* The secret is read back through its cache.  That the cache does not have it
\* yet, or that the read fails, is a fault.
SetNewToken ==
    /\ pc = "sign"
    /\ \/ /\ secret # Absent
          /\ Succeed([job.after EXCEPT !.token = secret.key])
          /\ Fine
       \/ /\ secret = Absent
          /\ Fail
          /\ Fine
       \/ Fail /\ Fault
    /\ UNCHANGED <<apiVars, config, rotation>>

\* Conditions come first.  They are patched with the resource version of the
\* copy in the cache: one that is late is a conflict.
PatchReady ==
    /\ pc = "patchReady"
    /\ Continue("patchSpec", job.after)
    /\ \/ /\ registration # Absent
          /\ registrationCache = registration
          /\ WriteRegistration([registration EXCEPT
                !.ready = Merged(@, job.before.ready, job.after.ready)])
          /\ Fine
       \/ /\ registration = Absent \/ registrationCache # registration
          /\ Fine
          /\ UNCHANGED apiVars
       \/ Fault /\ UNCHANGED apiVars
    /\ UNCHANGED <<config, rotation>>

\* The spec comes second, whether or not the condition was accepted.
PatchSpec ==
    /\ pc = "patchSpec"
    /\ Idle
    /\ \/ /\ registration # Absent
          /\ WriteRegistration([registration EXCEPT
                !.defaults = Merged(@, job.before.defaults, job.after.defaults),
                !.ref      = Merged(@, job.before.ref, job.after.ref),
                !.token    = Merged(@, job.before.token, job.after.token)])
          /\ Fine
       \/ /\ registration = Absent
          /\ Fine
          /\ UNCHANGED apiVars
       \/ Fault /\ UNCHANGED apiVars
    /\ UNCHANGED <<config, rotation>>

Crash ==
    /\ pc # "idle"
    /\ Idle
    /\ Fault
    /\ registrationCache' = registration
    /\ UNCHANGED <<registration, secret, config, rotation>>

Work == GenerateNewIdentity \/ SetNewToken \/ PatchReady \/ PatchSpec
-----------------------------------------------------------------------------
(* The Elemental API and the agents.                                       *)

\* The secret is looked up by the registration's name, and the signature is
\* verified with its key.
ValidateRegistrationRequest(token) == secret # Absent /\ token = secret.key

\* An agent that registers gets the registration with its token, registers its
\* host with the same token, and keeps the config it was answered with.
GetRegistration(a) ==
    /\ registrationCache # Absent
    /\ ValidateRegistrationRequest(config[a])
    /\ config' = [config EXCEPT ![a] = registrationCache.token]
    /\ UNCHANGED <<apiVars, pc, job, rotation, used>>
-----------------------------------------------------------------------------
(* The users.                                                              *)

Count(what, bound) == used[what] < bound /\ used' = [used EXCEPT ![what] = @ + 1]

NewRegistration(uid) ==
    [uid |-> uid, defaults |-> FALSE, ref |-> FALSE, token |-> None, ready |-> FALSE]

CreateRegistration ==
    /\ registration = Absent
    /\ Count("registrations", MaxRegistrations)
    /\ WriteRegistration(NewRegistration(used.registrations + 1))
    /\ UNCHANGED <<pc, job, config, rotation>>

DeleteRegistration ==
    /\ registration # Absent
    /\ Count("edits", MaxEdits)
    /\ WriteRegistration(Absent)
    /\ rotation' = "no"
    /\ UNCHANGED <<pc, job, config>>

\* A user's own key, made before the registration.
CreateSecret ==
    /\ registration = Absent
    /\ secret = Absent
    /\ used.edits < MaxEdits
    /\ used.keys < MaxKeys
    /\ WriteSecret([key |-> used.keys + 1, owner |-> 0])
    /\ used' = [used EXCEPT !.edits = @ + 1, !.keys = @ + 1]
    /\ UNCHANGED <<pc, job, config, rotation>>

\* The token is removed to get a new one, or replaced to keep new hosts out.
EditToken ==
    /\ registration # Absent
    /\ Count("edits", MaxEdits)
    /\ \E token \in {None, Disabled} : WriteRegistration([registration EXCEPT !.token = token])
    /\ UNCHANGED <<pc, job, config, rotation>>

\* The config, with the token of a registration that has one, is put on an agent.
PrintAgentConfig(a) ==
    /\ registration # Absent
    /\ registration.token \in Keys
    /\ Count("edits", MaxEdits)
    /\ config' = [config EXCEPT ![a] = registration.token]
    /\ UNCHANGED <<apiVars, pc, job, rotation>>

\* The key is replaced in three steps: the secret is deleted; the reference is
\* cleared, again if it comes back; and once there is a new secret, the token is
\* removed.
DeleteSecret ==
    /\ registration # Absent
    /\ secret # Absent
    /\ rotation = "no"
    /\ Count("rotations", MaxRotations)
    /\ WriteSecret(Absent)
    /\ rotation' = "secretDeleted"
    /\ UNCHANGED <<pc, job, config>>

ClearPrivateKeyRef ==
    /\ registration # Absent
    /\ \/ rotation = "secretDeleted"
       \/ rotation = "refCleared" /\ registration.ref /\ secret = Absent
    /\ WriteRegistration([registration EXCEPT !.ref = FALSE])
    /\ rotation' = "refCleared"
    /\ UNCHANGED <<pc, job, config, used>>

RemoveOldToken ==
    /\ registration # Absent
    /\ rotation = "refCleared"
    /\ secret # Absent
    /\ WriteRegistration([registration EXCEPT !.token = None])
    /\ rotation' = "no"
    /\ UNCHANGED <<pc, job, config, used>>

RotateKey == DeleteSecret \/ ClearPrivateKeyRef \/ RemoveOldToken
-----------------------------------------------------------------------------
Init ==
    /\ registration = Absent
    /\ secret = Absent
    /\ registrationCache = Absent
    /\ pc = "idle"
    /\ job = None
    /\ config = [a \in Agents |-> None]
    /\ rotation = "no"
    /\ used = [registrations |-> 0, keys |-> 0, rotations |-> 0, edits |-> 0, faults |-> 0]

Next ==
    \/ SyncRegistration
    \/ CollectGarbage
    \/ Reconcile
    \/ Work
    \/ Crash
    \/ \E a \in Agents : GetRegistration(a) \/ PrintAgentConfig(a)
    \/ CreateRegistration
    \/ DeleteRegistration
    \/ CreateSecret
    \/ EditToken
    \/ RotateKey

Spec == Init /\ [][Next]_vars

\* A registration that needs something is in the work queue: by the event of
\* its last change, or because Reconcile returned an error.
Fairness ==
    /\ WF_vars(SyncRegistration)
    /\ WF_vars(CollectGarbage)
    /\ WF_vars(Reconcile)
    /\ WF_vars(Work)

FairSpec == Spec /\ Fairness
-----------------------------------------------------------------------------
Job == [before: RegistrationObject, after: RegistrationObject]

\* Every variable has its type, and a busy worker knows its job.
TypeOK ==
    /\ registration \in RegistrationObject \cup {Absent}
    /\ registrationCache \in RegistrationObject \cup {Absent}
    /\ secret \in SecretObject \cup {Absent}
    /\ \/ pc = "idle" /\ job = None
       \/ pc \in {"create", "sign", "patchReady", "patchSpec"} /\ job \in Job
    /\ config \in [Agents -> Tokens]
    /\ rotation \in {"no", "secretDeleted", "refCleared"}
    /\ used \in Counters

Verifies(token) == secret # Absent /\ token = secret.key

\* Unless a user is replacing the key, the token that Reconcile has put into
\* the registration verifies: whatever fails between the creation of the secret
\* and the patch, token and secret belong together.
TokenVerifies ==
    (registration # Absent /\ registration.token \in Keys /\ rotation = "no")
        => Verifies(registration.token)

\* The reconciler takes from no agent a token that verifies: generateNewIdentity
\* keeps the key it finds.  A token is lost with its secret only.
TokensSurvive ==
    [][\A a \in Agents :
        (Verifies(config[a]) /\ config'[a] = config[a])
            => Verifies(config[a])' \/ secret' = Absent]_vars

\* A registration becomes ready after its signing key has been created, unless
\* a user removes the key again.
ReadyWithKey ==
    [][(registration # Absent /\ ~registration.ready
        /\ registration' # Absent /\ registration'.ready /\ rotation = "no")
            => secret # Absent]_vars

\* In the end every registration is complete and ready, with a token that
\* verifies or that a user has put there, or a user has yet to go on with
\* replacing its key: neither the two patches, nor the edits in between, nor a
\* key replaced under a running Reconcile leave it in any other state.
Settles ==
    <>[](\/ registration = Absent
         \/ rotation # "no"
         \/ /\ registration.defaults /\ registration.ref /\ registration.ready
            /\ registration.token = Disabled \/ Verifies(registration.token))

\* A registration has a signing key, or gets one.
KeyGenerated == []<>(registration = Absent \/ secret # Absent)
=============================================================================

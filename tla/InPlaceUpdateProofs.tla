------------------------ MODULE InPlaceUpdateProofs ------------------------
(***************************************************************************)
(* The agent acts on the host its turn began with.  Inv says what is still *)
(* true of that copy when it is used, although users and the reconciler    *)
(* have gone on.                                                           *)
(***************************************************************************)
EXTENDS InPlaceUpdate, TLAPS

InTurn == agent.phase \in {"version", "answer", "bootstrap"}

\* Only the agent itself reports the bootstrap and answers the label.
SeenIsCurrent ==
    /\ InTurn => agent.seen.bootstrapped = host.bootstrapped
    /\ (agent.phase = "version" /\ agent.seen.update = "pending") => host.update = "pending"

\* What reaches a linked host has been wanted since it was linked.
WantedSinceLink ==
    /\ host.linked => machine \in wanted /\ host.version \in wanted
    /\ (InTurn /\ agent.seen.linked) => host.linked /\ agent.seen.version \in wanted

\* Past the OS version phase, the plugin has had its say.
Reconciled ==
    \/ agent.phase = "answer"
    \/ agent.phase = "bootstrap" /\ ~agent.seen.bootstrapped

VersionApplied == Reconciled => agent.seen.version \in {NoVersion} \cup Snapshots

Inv == TypeOK /\ SeenIsCurrent /\ WantedSinceLink /\ VersionApplied

LEMMA InitInv == Init => Inv
  BY ConstantsAssumption
  DEF Init, Inv, TypeOK, SeenIsCurrent, WantedSinceLink, VersionApplied, Reconciled, InTurn,
      NewHost, Wanted, HostObject, Box, Agent

\* Users and controllers leave the agent alone; the versions they bring in are
\* added to what is wanted.
LEMMA EnvironmentStep ==
    ASSUME Inv,
           \/ LinkHost \/ ReconcileOSVersionManagement \/ RequestUpdate
           \/ \E v \in Wanted : ChangeMachine(v) \/ ChangeHost(v)
    PROVE  Inv'
<1> USE ConstantsAssumption DEF Inv, TypeOK, Wanted, HostObject, Snapshots
<1>1. CASE LinkHost
  BY <1>1 DEF LinkHost, SeenIsCurrent, WantedSinceLink, VersionApplied, Reconciled, InTurn
<1>2. CASE ReconcileOSVersionManagement
  BY <1>2 DEF ReconcileOSVersionManagement, SeenIsCurrent, WantedSinceLink, VersionApplied, Reconciled, InTurn
<1>3. CASE RequestUpdate
  BY <1>3 DEF RequestUpdate, SeenIsCurrent, WantedSinceLink, VersionApplied, Reconciled, InTurn
<1>4. ASSUME NEW v \in Wanted, ChangeMachine(v) PROVE Inv'
  BY <1>4 DEF ChangeMachine, ChangeVersion, SeenIsCurrent, WantedSinceLink, VersionApplied, Reconciled, InTurn
<1>5. ASSUME NEW v \in Wanted, ChangeHost(v) PROVE Inv'
  BY <1>5 DEF ChangeHost, ChangeVersion, SeenIsCurrent, WantedSinceLink, VersionApplied, Reconciled, InTurn
<1>6. QED BY <1>1, <1>2, <1>3, <1>4, <1>5

\* The agent's turn, the boot and the power cycle.
LEMMA AgentStep == ASSUME Inv, Step \/ PowerCycle PROVE Inv'
<1> USE ConstantsAssumption
    DEF Inv, TypeOK, Wanted, HostObject, Agent, Snapshots,
        SeenIsCurrent, WantedSinceLink, VersionApplied, Reconciled, InTurn,
        At, GoTo, Fine, Users
<1>1. CASE PatchPhase BY <1>1 DEF PatchPhase
<1>2. CASE SkipOSVersion BY <1>2 DEF SkipOSVersion, NeedsReconcile, NeedsInplaceUpdate
<1>3. CASE NothingToUpgrade
  BY <1>3 DEF NothingToUpgrade, IsCorrelationIDFound
<1>4. CASE Upgrade
  <2>0. Users /\ UNCHANGED host BY <1>4 DEF Upgrade
  <2>1. CASE Fault /\ GoTo("turn") /\ UNCHANGED box BY <2>0, <2>1 DEF Fault
  <2>2. ASSUME NEW kept \in SUBSET box.passive,
               box' = [box EXCEPT !.active = agent.seen.version, !.passive = kept \cup {box.active}],
               Fine, GoTo("off")
        PROVE  Inv'
    <3>1. box' \in Box BY <2>2 DEF Box
    <3>2. QED BY <1>4, <2>2, <3>1 DEF Upgrade
  <2>3. QED BY <1>4, <2>1, <2>2 DEF Upgrade
<1>5. CASE AnswerOSVersion
  <2>1. host' \in {host, [host EXCEPT !.update = "done"]} BY <1>5 DEF AnswerOSVersion
  <2>2. faults' \in 0..MaxFaults BY <1>5 DEF AnswerOSVersion, Fault
  <2>3. agent'.phase \in {"bootstrap", "turn"} /\ agent' \in Agent /\ agent'.seen = agent.seen
    BY <1>5 DEF AnswerOSVersion
  <2>4. QED BY <1>5, <2>1, <2>2, <2>3 DEF AnswerOSVersion
<1>6. CASE SkipBootstrap BY <1>6 DEF SkipBootstrap
<1>7. CASE ApplyBootstrap
  <2>1. box' \in Box BY <1>7 DEF ApplyBootstrap, Box
  <2>2. QED BY <1>7, <2>1 DEF ApplyBootstrap
<1>8. CASE ReportBootstrapped BY <1>8 DEF ReportBootstrapped
<1>9. CASE Boot
  <2>1. box' \in Box BY <1>9 DEF Boot, Box
  <2>2. agent' \in Agent /\ agent'.phase = "turn" BY <1>9 DEF Boot, Box
  <2>3. QED BY <1>9, <2>1, <2>2 DEF Boot
<1>10. CASE PowerCycle BY <1>10 DEF PowerCycle, Fault
<1>11. QED BY <1>1, <1>2, <1>3, <1>4, <1>5, <1>6, <1>7, <1>8, <1>9, <1>10 DEF Step

LEMMA NextInv == ASSUME Inv, [Next]_vars PROVE Inv'
<1>1. CASE UNCHANGED vars
  BY <1>1 DEF vars, Inv, TypeOK, SeenIsCurrent, WantedSinceLink, VersionApplied, Reconciled,
              InTurn, Snapshots
<1>2. CASE Next BY <1>2, EnvironmentStep, AgentStep DEF Next
<1>3. QED BY <1>1, <1>2

LEMMA InvHolds == Spec => []Inv
  BY InitInv, NextInv, PTL DEF Spec
-----------------------------------------------------------------------------
\* The type invariant holds for any versions and bounds.
THEOREM TypeCorrect == Spec => []TypeOK
<1>1. Inv => TypeOK BY DEF Inv
<1>2. QED BY <1>1, InvHolds, PTL

\* reconcileOSVersionManagement passes on what it likes, but a bootstrapped box
\* is upgraded only while the label is pending.
THEOREM BootstrappedUpgradedOnlyOnRequest == Spec => UpgradedOnlyOnRequest
<1> DEFINE Allowed == (host.bootstrapped /\ Snapshots' \ Snapshots # {}) => host.update = "pending"
<1>1. ASSUME Inv, [Next]_vars PROVE Allowed
  <2>1. CASE Upgrade
    <3>1. agent.phase = "version" /\ NeedsReconcile BY <2>1 DEF Upgrade, At
    <3>2. QED BY <1>1, <3>1 DEF Inv, SeenIsCurrent, InTurn, NeedsReconcile, NeedsInplaceUpdate
  <2>2. CASE Boot
    BY <1>1, <2>2 DEF Boot, Snapshots, Inv, TypeOK, Box
  <2>3. CASE ApplyBootstrap
    BY <1>1, <2>3 DEF ApplyBootstrap, Snapshots, Inv, TypeOK, Box
  <2>4. CASE UNCHANGED box
    BY <2>4 DEF Snapshots
  <2>5. QED
    BY <1>1, <2>1, <2>2, <2>3, <2>4
    DEF Next, Step, vars, PatchPhase, SkipOSVersion, NothingToUpgrade, AnswerOSVersion, SkipBootstrap,
        ReportBootstrapped, PowerCycle, LinkHost, ReconcileOSVersionManagement, RequestUpdate,
        ChangeMachine, ChangeHost, ChangeVersion
<1>2. QED BY <1>1, InvHolds, PTL DEF Spec, UpgradedOnlyOnRequest

\* The box gets its bootstrap config only after a version wanted since the link
\* has been applied, whatever users change and whatever fails.
THEOREM VersionAppliedBeforeBootstrap == Spec => VersionBeforeBootstrap
<1> DEFINE Allowed == (box'.bootstrap /\ ~box.bootstrap)
                        => (NoVersion \in wanted \/ wanted \cap Snapshots # {})
<1>1. ASSUME Inv, [Next]_vars PROVE Allowed
  <2>1. CASE ApplyBootstrap
    <3>1. agent.phase = "bootstrap" /\ agent.seen.linked /\ ~agent.seen.bootstrapped
      BY <2>1 DEF ApplyBootstrap, At
    <3>2. agent.seen.version \in wanted BY <1>1, <3>1 DEF Inv, WantedSinceLink, InTurn
    <3>3. agent.seen.version \in {NoVersion} \cup Snapshots
      BY <1>1, <3>1 DEF Inv, VersionApplied, Reconciled
    <3>4. QED BY <3>2, <3>3
  <2>2. CASE Boot BY <1>1, <2>2 DEF Boot
  <2>3. CASE Upgrade
    BY <1>1, <2>3 DEF Upgrade, Inv, TypeOK, Box
  <2>4. CASE UNCHANGED box BY <2>4
  <2>5. QED
    BY <1>1, <2>1, <2>2, <2>3, <2>4
    DEF Next, Step, vars, PatchPhase, SkipOSVersion, NothingToUpgrade, AnswerOSVersion, SkipBootstrap,
        ReportBootstrapped, PowerCycle, LinkHost, ReconcileOSVersionManagement, RequestUpdate,
        ChangeMachine, ChangeHost, ChangeVersion
<1>2. QED BY <1>1, InvHolds, PTL DEF Spec, VersionBeforeBootstrap

\* Only osVersionHandler answers the label, in the phase in which the plugin has
\* been asked: whatever users and the reconciler wrote in the meantime, the
\* version the turn began with is on the box or there was none.
THEOREM DoneMeansApplied == Spec => DoneWasApplied
<1> DEFINE Answered == host.update = "pending" /\ host'.update = "done"
<1>1. ASSUME Inv, [Next]_vars, Answered
      PROVE  agent.seen.version \in {NoVersion} \cup Snapshots
  <2>1. host \in HostObject
    BY <1>1 DEF Inv, TypeOK
  <2>2. CASE AnswerOSVersion
    BY <1>1, <2>2 DEF AnswerOSVersion, At, Inv, VersionApplied, Reconciled
  <2>3. CASE LinkHost \/ ReconcileOSVersionManagement \/ RequestUpdate \/ ReportBootstrapped
    BY <1>1, <2>1, <2>3 DEF LinkHost, ReconcileOSVersionManagement, RequestUpdate,
       ReportBootstrapped, HostObject
  <2>4. ASSUME NEW v \in Wanted, ChangeHost(v)
        PROVE  FALSE
    BY <1>1, <2>1, <2>4 DEF ChangeHost, HostObject
  <2>5. CASE UNCHANGED host
    BY <1>1, <2>5
  <2>6. QED
    BY <1>1, <2>2, <2>3, <2>4, <2>5
    DEF Next, Step, vars, PatchPhase, SkipOSVersion, NothingToUpgrade, Upgrade, SkipBootstrap,
        ApplyBootstrap, Boot, PowerCycle, ChangeMachine
<1>2. QED BY <1>1, InvHolds, PTL DEF Spec, DoneWasApplied
=============================================================================

-------------------------- MODULE HostAgentProofs --------------------------
(***************************************************************************)
(* What HostAgent keeps for any number of boxes, failures and              *)
(* registrations.                                                          *)
(***************************************************************************)
EXTENDS HostAgent, TLAPS

Counters ==
    /\ posts \in 0..MaxRegistrations
    /\ faults \in 0..MaxFaults
    /\ deletions \in 0..MaxDeletions

Registering == {"register", "finalize", "confirm", "install", "reportInstalled"}

Resetting == {"reset", "wipe", "reportReset", "awaitReset"}

Acting == {"run", "bootstrap"}

\* Nothing happens to another box.
Local(b) == \A c \in Boxes \ {b} : disk'[c] = disk[c] /\ agent'[c] = agent[c]

\* What a fault or its absence does to the counter.
LEMMA FaultOK ==
    ASSUME TypeOK, Fine \/ \E kind \in AllFaultKinds : Fault(kind)
    PROVE  faults' \in 0..MaxFaults
BY ConstantsAssumption DEF TypeOK, Fine, Fault

\* A new process is an agent, whatever is on the disk.
LEMMA StartOK ==
    ASSUME TypeOK, NEW b \in Boxes, NEW phase \in Phases,
           NEW mode \in {"live", "recovery", "active"}, NEW sentinel \in BOOLEAN
    PROVE  Start(b, phase, mode, sentinel) \in Agent
BY ConstantsAssumption DEF TypeOK, Start, Agent, Disk, Keys

LEMMA OffOK == Off \in Agent
BY ConstantsAssumption DEF Off, Agent, Keys, Phases

\* A box goes to another phase.
LEMMA GoToOK ==
    ASSUME TypeOK, NEW b \in Boxes, NEW phase \in Phases, GoTo(b, phase)
    PROVE  /\ agent' \in [Boxes -> Agent]
           /\ agent' = [agent EXCEPT ![b] = [agent[b] EXCEPT !.phase = phase]]
BY DEF TypeOK, GoTo, Agent

\* An agent takes the place of another.
LEMMA AgentOK ==
    ASSUME TypeOK, NEW b \in Boxes, NEW a \in Agent, agent' = [agent EXCEPT ![b] = a]
    PROVE  agent' \in [Boxes -> Agent]
BY DEF TypeOK

LEMMA DiskOK ==
    ASSUME TypeOK, NEW b \in Boxes, NEW d \in Disk, disk' = [disk EXCEPT ![b] = d]
    PROVE  disk' \in [Boxes -> Disk]
BY DEF TypeOK

LEMMA HostOK ==
    ASSUME TypeOK, NEW n \in Names, NEW h \in HostObject \cup {Absent},
           host' = [host EXCEPT ![n] = h]
    PROVE  host' \in [Names -> HostObject \cup {Absent}]
BY DEF TypeOK

\* How an agent goes on after its process has ended.
Exited(b, a) ==
    \/ agent[b].mode = "live" /\ a = Start(b, "register", "live", FALSE)
    \/ agent[b].mode = "active" /\ a = Start(b, "run", "active", agent[b].sentinel)
    \/ agent[b].mode = "recovery" /\ a = [agent[b] EXCEPT !.phase = "stopped"]
    \/ /\ agent[b].mode = "recovery" /\ agent[b].phase \in Resetting
       /\ a = Start(b, "register", "recovery", agent[b].sentinel)
    \/ agent[b].mode = "recovery" /\ agent[b].phase \notin Resetting /\ a = Off

LEMMA ProcessExitsOK ==
    ASSUME TypeOK, NEW b \in Boxes, ProcessExits(b)
    PROVE  \E a \in Agent : agent' = [agent EXCEPT ![b] = a] /\ Exited(b, a)
<1>1. agent[b] \in Agent
  BY DEF TypeOK
<1>2. agent[b].sentinel \in BOOLEAN /\ agent[b].mode \in {"live", "recovery", "active"}
  BY <1>1 DEF Agent
<1>3. "register" \in Phases /\ "run" \in Phases /\ "stopped" \in Phases
  BY DEF Phases
<1>4. /\ Start(b, "register", "live", FALSE) \in Agent
      /\ Start(b, "run", "active", agent[b].sentinel) \in Agent
      /\ Start(b, "register", "recovery", agent[b].sentinel) \in Agent
  BY <1>2, <1>3, StartOK
<1>5. [agent[b] EXCEPT !.phase = "stopped"] \in Agent
  BY <1>1, <1>3 DEF Agent
<1>6. PICK a : /\ agent' = [agent EXCEPT ![b] = a]
               /\ a \in CASE agent[b].mode = "live" -> {Start(b, "register", "live", FALSE)}
                  [] agent[b].mode = "active" -> {Start(b, "run", "active", agent[b].sentinel)}
                  [] OTHER -> {[agent[b] EXCEPT !.phase = "stopped"],
                               IF agent[b].phase \in {"reset", "wipe", "reportReset", "awaitReset"}
                               THEN Start(b, "register", "recovery", agent[b].sentinel)
                               ELSE Off}
  BY DEF ProcessExits
<1>7. Exited(b, a)
  <2>1. CASE agent[b].mode = "live"
    BY <1>6, <2>1 DEF Exited
  <2>2. CASE agent[b].mode = "active"
    BY <1>6, <2>2 DEF Exited
  <2>3. CASE agent[b].mode = "recovery"
    BY <1>6, <2>3 DEF Exited, Resetting
  <2> QED
    BY <1>2, <2>1, <2>2, <2>3
<1>8. a \in Agent
  BY <1>4, <1>5, <1>7, OffOK DEF Exited
<1> QED
  BY <1>6, <1>7, <1>8
-----------------------------------------------------------------------------
(* What a step of a box makes of its disk (d), its agent (a) and the hosts. *)

\* The disk and the agent of box b, and of no other, are replaced.
Replaces(b, d, a) ==
    /\ d \in Disk
    /\ a \in Agent
    /\ disk' = [disk EXCEPT ![b] = d]
    /\ agent' = [agent EXCEPT ![b] = a]

HostsKept == host' = host /\ posts' = posts

MineChanged(b, object) ==
    /\ Known(b)
    /\ host' = [host EXCEPT ![agent[b].name] = object]
    /\ posts' = posts

Goes(b, a, phase) == a = [agent[b] EXCEPT !.phase = phase]

Posted(b, a) == a = Off \/ (agent[b].mode # "recovery" /\ Goes(b, a, "stopped"))

Found(b, d, a) ==
    /\ At(b, "register")
    /\ d = disk[b]
    /\ \E n \in PickedNames(b) :
         /\ Exists(n)
         /\ host[n].pubKey = agent[b].key
         /\ a = [agent[b] EXCEPT !.phase = "finalize", !.name = n]
    /\ HostsKept

Created(b, d, a) ==
    /\ At(b, "register")
    /\ d = disk[b]
    /\ posts < MaxRegistrations
    /\ posts' = posts + 1
    /\ \E n \in PickedNames(b), key \in 1..MaxRegistrations :
         /\ key = IF agent[b].key = 0 THEN posts + 1 ELSE agent[b].key
         /\ n \in Names
         /\ ~Exists(n)
         /\ host' = [host EXCEPT ![n] = NewHost(key)]
         /\ \/ a = [agent[b] EXCEPT !.phase = "finalize", !.name = n, !.key = key]
            \/ a = [agent[b] EXCEPT !.key = key]

Finalized(b, d, a) ==
    /\ At(b, "finalize")
    /\ \/ /\ d = IF agent[b].mode = "live" THEN disk[b] ELSE Identified(b)
          /\ Goes(b, a, "confirm")
       \/ d = disk[b] /\ Exited(b, a)
    /\ HostsKept

Confirmed(b, d, a) ==
    /\ At(b, "confirm")
    /\ Known(b)
    /\ d = disk[b]
    /\ Goes(b, a, "install")
    /\ HostsKept

Installed(b, d, a) ==
    /\ At(b, "install")
    /\ d = IF agent[b].mode = "live" THEN [Identified(b) EXCEPT !.os = TRUE] ELSE disk[b]
    /\ Goes(b, a, "reportInstalled")
    /\ HostsKept

InstalledReported(b, d, a) ==
    /\ At(b, "reportInstalled")
    /\ d = disk[b]
    /\ Posted(b, a) \/ a = agent[b]
    /\ MineChanged(b, [Mine(b) EXCEPT !.installed = TRUE])

ResetTriggered(b, d, a) ==
    /\ Running(b)
    /\ Mine(b).needsReset
    /\ d = [disk[b] EXCEPT !.recovery = TRUE]
    /\ a = Off \/ a = agent[b]
    /\ HostsKept

Upgraded(b, d, a) ==
    /\ Running(b)
    /\ ~Mine(b).needsReset
    /\ NeedsUpgrade(b)
    /\ d = [disk[b] EXCEPT !.version = Mine(b).version]
    /\ Posted(b, a)
    /\ HostsKept

BootstrapStarted(b, d, a) ==
    /\ Running(b)
    /\ ~Mine(b).needsReset
    /\ ~Mine(b).bootstrapped
    /\ d = disk[b]
    /\ Goes(b, a, "bootstrap")
    /\ HostsKept

BootstrappedReported(b, d, a) ==
    /\ At(b, "bootstrap")
    /\ agent[b].sentinel
    /\ d = disk[b]
    /\ Goes(b, a, "run")
    /\ HostsKept \/ MineChanged(b, [Mine(b) EXCEPT !.bootstrapped = TRUE])

Applied(b, d, a) ==
    /\ At(b, "bootstrap")
    /\ ~agent[b].sentinel
    /\ \/ /\ Known(b)
          /\ disk[b].bootstrap = 0
          /\ d = [disk[b] EXCEPT !.bootstrap = Mine(b).uid]
          /\ Posted(b, a)
       \/ d = disk[b] /\ Goes(b, a, "run")
    /\ HostsKept

DeletedByAgent(b, d, a) ==
    /\ At(b, "reset")
    /\ d = disk[b]
    /\ \/ Goes(b, a, IF agent[b].wiped THEN "reportReset" ELSE "wipe")
       \/ a = agent[b]
    /\ MineChanged(b, Settled([Mine(b) EXCEPT !.deleting = TRUE]))

SystemWiped(b, d, a) ==
    /\ At(b, "wipe")
    /\ \/ d = Wiped(b) /\ a = [agent[b] EXCEPT !.phase = "reportReset", !.wiped = TRUE]
       \/ d = [Wiped(b) EXCEPT !.config = FALSE] /\ Goes(b, a, "reset")
       \/ d = disk[b] /\ Goes(b, a, "reset")
    /\ HostsKept

ResetReported(b, d, a) ==
    /\ At(b, "reportReset")
    /\ d = disk[b]
    /\ \/ Goes(b, a, "awaitReset") /\ MineChanged(b, [Mine(b) EXCEPT !.reset = TRUE])
       \/ Goes(b, a, "reset") /\ HostsKept

ResetAnswered(b, d, a) ==
    /\ At(b, "awaitReset")
    /\ d = disk[b]
    /\ \/ a = Start(b, "register", "recovery", agent[b].sentinel)
       \/ Goes(b, a, "reset")
    /\ HostsKept

Booted(b, d, a) ==
    /\ At(b, "off")
    /\ \E sentinel \in BOOLEAN :
         /\ disk[b].bootstrap = 0 => ~sentinel
         /\ disk[b].bootstrap # 0 /\ "script" \notin FaultKinds => sentinel
         /\ d = [disk[b] EXCEPT !.recovery = FALSE,
                   !.bootstrap = IF sentinel THEN 0 ELSE disk[b].bootstrap,
                   !.ran = IF sentinel THEN disk[b].bootstrap ELSE disk[b].ran]
         /\ \/ ~disk[b].os /\ a = Start(b, "register", "live", FALSE)
            \/ disk[b].os /\ disk[b].recovery /\ a = Start(b, "reset", "recovery", sentinel)
            \/ disk[b].os /\ ~disk[b].recovery /\ a = Start(b, "run", "active", sentinel)
    /\ HostsKept

Interrupted(b, d, a) ==
    /\ At(b, "off")
    /\ "powerCycle" \in FaultKinds
    /\ disk[b].bootstrap # 0
    /\ d = [disk[b] EXCEPT !.recovery = FALSE, !.ran = disk[b].bootstrap]
    /\ a = agent[b]
    /\ HostsKept

Cycled(b, d, a) ==
    /\ "powerCycle" \in FaultKinds
    /\ d = disk[b]
    /\ a = Off
    /\ HostsKept

Restarted(b, d, a) ==
    /\ agent[b].phase \notin {"off", "stopped"}
    /\ IF agent[b].mode = "recovery" THEN "planFails" \in FaultKinds ELSE "restart" \in FaultKinds
    /\ d = disk[b]
    /\ Exited(b, a)
    /\ HostsKept

Move(b, d, a) ==
    \/ Found(b, d, a) \/ Created(b, d, a) \/ Finalized(b, d, a)
    \/ Confirmed(b, d, a) \/ Installed(b, d, a) \/ InstalledReported(b, d, a)
    \/ ResetTriggered(b, d, a) \/ Upgraded(b, d, a) \/ BootstrapStarted(b, d, a)
    \/ BootstrappedReported(b, d, a) \/ Applied(b, d, a) \/ DeletedByAgent(b, d, a)
    \/ SystemWiped(b, d, a) \/ ResetReported(b, d, a) \/ ResetAnswered(b, d, a)
    \/ Booted(b, d, a) \/ Interrupted(b, d, a) \/ Cycled(b, d, a) \/ Restarted(b, d, a)

\* A box that keeps its disk or its agent.
LEMMA SameDisk ==
    ASSUME TypeOK, NEW b \in Boxes, NEW a \in Agent,
           disk' = disk, agent' = [agent EXCEPT ![b] = a]
    PROVE  Replaces(b, disk[b], a)
BY DEF TypeOK, Replaces

LEMMA SameAgent ==
    ASSUME TypeOK, NEW b \in Boxes, NEW d \in Disk,
           agent' = agent, disk' = [disk EXCEPT ![b] = d]
    PROVE  Replaces(b, d, agent[b])
BY DEF TypeOK, Replaces

\* The handlers reach the host of the box only by its name and key.
LEMMA KnownOK ==
    ASSUME TypeOK, NEW b \in Boxes, Known(b)
    PROVE  /\ agent[b].name \in Names
           /\ Mine(b) \in HostObject
           /\ Mine(b) = host[agent[b].name]
           /\ Mine(b).pubKey = agent[b].key
BY DEF TypeOK, Known, Exists, Mine

\* What the box may be told to be called is a name.
LEMMA PickedOK ==
    ASSUME TypeOK, NEW b \in Boxes, posts < MaxRegistrations
    PROVE  PickedNames(b) \subseteq Names
BY ConstantsAssumption DEF TypeOK, PickedNames, Names, RandomNames

LEMMA GoesOK ==
    ASSUME TypeOK, NEW b \in Boxes, NEW phase \in Phases, GoTo(b, phase)
    PROVE  \E a \in Agent : agent' = [agent EXCEPT ![b] = a] /\ Goes(b, a, phase)
<1>1. [agent[b] EXCEPT !.phase = phase] \in Agent
  BY DEF TypeOK, Agent
<1> QED
  BY <1>1, GoToOK DEF Goes

LEMMA PostedOK ==
    ASSUME TypeOK, NEW b \in Boxes, HandlePost(b)
    PROVE  \E a \in Agent : agent' = [agent EXCEPT ![b] = a] /\ Posted(b, a)
<1>1. CASE agent' = [agent EXCEPT ![b] = Off]
  BY <1>1, OffOK DEF Posted
<1>2. CASE agent[b].mode # "recovery" /\ GoTo(b, "stopped")
  BY <1>2, GoesOK DEF Posted, Phases
<1> QED
  BY <1>1, <1>2 DEF HandlePost

LEMMA FoundMoves ==
    ASSUME TypeOK, NEW b \in Boxes, RegisterFound(b)
    PROVE  \E d, a : Replaces(b, d, a) /\ Found(b, d, a)
<1>1. PICK n \in PickedNames(b) :
         /\ Exists(n)
         /\ host[n].pubKey = agent[b].key
         /\ agent' = [agent EXCEPT ![b].phase = "finalize", ![b].name = n]
  BY DEF RegisterFound
<1> DEFINE a == [agent[b] EXCEPT !.phase = "finalize", !.name = n]
<1>2. a \in Agent
  BY <1>1 DEF TypeOK, Agent, Phases, Exists
<1>3. agent' = [agent EXCEPT ![b] = a]
  BY <1>1 DEF TypeOK, Agent
<1>4. Found(b, disk[b], a)
  BY <1>1 DEF Found, RegisterFound, HostsKept
<1>5. Replaces(b, disk[b], a)
  <2> HIDE DEF a
  <2> QED
    BY <1>2, <1>3, SameDisk DEF RegisterFound
<1> QED
  BY <1>4, <1>5

LEMMA CreatedMoves ==
    ASSUME TypeOK, NEW b \in Boxes, RegisterNew(b)
    PROVE  \E d, a : Replaces(b, d, a) /\ Created(b, d, a)
<1> DEFINE key == IF agent[b].key = 0 THEN posts + 1 ELSE agent[b].key
<1>1. PICK n \in PickedNames(b) :
         /\ ~Exists(n)
         /\ host' = [host EXCEPT ![n] = NewHost(key)]
         /\ \/ agent' = [agent EXCEPT ![b].phase = "finalize", ![b].name = n, ![b].key = key]
            \/ agent' = [agent EXCEPT ![b].key = key]
  BY DEF RegisterNew
<1>2. posts < MaxRegistrations /\ posts' = posts + 1 /\ At(b, "register") /\ disk' = disk
  BY DEF RegisterNew
<1>3. n \in Names
  BY <1>1, <1>2, PickedOK
<1>4. key \in 1..MaxRegistrations
  BY <1>2, ConstantsAssumption DEF TypeOK, Agent, Keys
<1> HIDE DEF key
<1>5. agent[b] \in Agent /\ key \in Keys /\ "finalize" \in Phases
  BY <1>4, ConstantsAssumption DEF TypeOK, Keys, Phases
<1>6. \E a \in Agent :
        /\ agent' = [agent EXCEPT ![b] = a]
        /\ \/ a = [agent[b] EXCEPT !.phase = "finalize", !.name = n, !.key = key]
           \/ a = [agent[b] EXCEPT !.key = key]
  <2>1. CASE agent' = [agent EXCEPT ![b].phase = "finalize", ![b].name = n, ![b].key = key]
    <3> DEFINE a == [agent[b] EXCEPT !.phase = "finalize", !.name = n, !.key = key]
    <3>1. a \in Agent
      BY <1>3, <1>5 DEF Agent
    <3>2. agent' = [agent EXCEPT ![b] = a]
      BY <2>1 DEF TypeOK, Agent
    <3> QED
      BY <3>1, <3>2
  <2>2. CASE agent' = [agent EXCEPT ![b].key = key]
    <3> DEFINE a == [agent[b] EXCEPT !.key = key]
    <3>1. a \in Agent
      BY <1>5 DEF Agent
    <3>2. agent' = [agent EXCEPT ![b] = a]
      BY <2>2 DEF TypeOK, Agent
    <3> QED
      BY <3>1, <3>2
  <2> QED
    BY <1>1, <2>1, <2>2
<1>7. PICK a \in Agent :
        /\ agent' = [agent EXCEPT ![b] = a]
        /\ \/ a = [agent[b] EXCEPT !.phase = "finalize", !.name = n, !.key = key]
           \/ a = [agent[b] EXCEPT !.key = key]
  BY <1>6
<1>8. Replaces(b, disk[b], a)
  BY <1>2, <1>7, SameDisk
<1>9. Created(b, disk[b], a)
  BY <1>1, <1>2, <1>3, <1>4, <1>7 DEF Created, key
<1> QED
  BY <1>8, <1>9

\* What finalize and the installation write is a disk.
LEMMA IdentifiedOK ==
    ASSUME TypeOK, NEW b \in Boxes
    PROVE  Identified(b) \in Disk /\ [Identified(b) EXCEPT !.os = TRUE] \in Disk
<1>1. disk[b] \in Disk /\ agent[b].key \in Keys /\ agent[b].name \in Names \cup {None}
  BY DEF TypeOK, Agent
<1>2. Identified(b) \in Disk
  BY <1>1 DEF Identified, Disk
<1> QED
  BY <1>2 DEF Disk

LEMMA FinalizedMoves ==
    ASSUME TypeOK, NEW b \in Boxes, FinalizeRegistration(b)
    PROVE  \E d, a : Replaces(b, d, a) /\ Finalized(b, d, a)
<1>1. At(b, "finalize") /\ HostsKept
  BY DEF FinalizeRegistration, HostsKept
<1>2. CASE /\ disk' = IF agent[b].mode = "live" THEN disk ELSE [disk EXCEPT ![b] = Identified(b)]
           /\ GoTo(b, "confirm")
  <2> DEFINE d == IF agent[b].mode = "live" THEN disk[b] ELSE Identified(b)
  <2>1. d \in Disk /\ disk' = [disk EXCEPT ![b] = d]
    BY <1>2, IdentifiedOK DEF TypeOK
  <2>2. PICK a \in Agent : agent' = [agent EXCEPT ![b] = a] /\ Goes(b, a, "confirm")
    BY <1>2, GoesOK DEF Phases
  <2> QED
    BY <1>1, <2>1, <2>2 DEF Replaces, Finalized
<1>3. CASE ProcessExits(b) /\ disk' = disk
  <2>1. PICK a \in Agent : agent' = [agent EXCEPT ![b] = a] /\ Exited(b, a)
    BY <1>3, ProcessExitsOK
  <2>2. Replaces(b, disk[b], a)
    BY <1>3, <2>1, SameDisk
  <2> QED
    BY <1>1, <2>1, <2>2 DEF Finalized
<1> QED
  BY <1>2, <1>3 DEF FinalizeRegistration

LEMMA ConfirmedMoves ==
    ASSUME TypeOK, NEW b \in Boxes, ConfirmRegistration(b)
    PROVE  \E d, a : Replaces(b, d, a) /\ Confirmed(b, d, a)
<1>1. PICK a \in Agent : agent' = [agent EXCEPT ![b] = a] /\ Goes(b, a, "install")
  BY GoesOK DEF ConfirmRegistration, Phases
<1>2. Replaces(b, disk[b], a)
  BY <1>1, SameDisk DEF ConfirmRegistration
<1> QED
  BY <1>1, <1>2 DEF Confirmed, ConfirmRegistration, HostsKept

LEMMA InstalledMoves ==
    ASSUME TypeOK, NEW b \in Boxes, InstallSystem(b)
    PROVE  \E d, a : Replaces(b, d, a) /\ Installed(b, d, a)
<1>1. PICK a \in Agent : agent' = [agent EXCEPT ![b] = a] /\ Goes(b, a, "reportInstalled")
  BY GoesOK DEF InstallSystem, Phases
<1> DEFINE d == IF agent[b].mode = "live" THEN [Identified(b) EXCEPT !.os = TRUE] ELSE disk[b]
<1>2. d \in Disk /\ disk' = [disk EXCEPT ![b] = d]
  BY IdentifiedOK DEF TypeOK, InstallSystem
<1> QED
  BY <1>1, <1>2 DEF Replaces, Installed, InstallSystem, HostsKept

\* An agent that stays as it is.
LEMMA KeptOK ==
    ASSUME TypeOK, NEW b \in Boxes, agent' = agent
    PROVE  agent[b] \in Agent /\ agent' = [agent EXCEPT ![b] = agent[b]]
BY DEF TypeOK

LEMMA InstalledReportedMoves ==
    ASSUME TypeOK, NEW b \in Boxes, ReportInstalled(b)
    PROVE  \E d, a : Replaces(b, d, a) /\ InstalledReported(b, d, a)
<1>1. \E a \in Agent : agent' = [agent EXCEPT ![b] = a] /\ (Posted(b, a) \/ a = agent[b])
  BY PostedOK, KeptOK DEF ReportInstalled
<1>2. PICK a \in Agent : agent' = [agent EXCEPT ![b] = a] /\ (Posted(b, a) \/ a = agent[b])
  BY <1>1
<1>3. Replaces(b, disk[b], a)
  BY <1>2, SameDisk DEF ReportInstalled
<1> QED
  BY <1>2, <1>3 DEF InstalledReported, ReportInstalled, WriteMine, MineChanged

LEMMA ResetTriggeredMoves ==
    ASSUME TypeOK, NEW b \in Boxes, TriggerReset(b)
    PROVE  \E d, a : Replaces(b, d, a) /\ ResetTriggered(b, d, a)
<1>1. \E a \in Agent : agent' = [agent EXCEPT ![b] = a] /\ (a = Off \/ a = agent[b])
  BY OffOK, KeptOK DEF TriggerReset
<1>2. PICK a \in Agent : agent' = [agent EXCEPT ![b] = a] /\ (a = Off \/ a = agent[b])
  BY <1>1
<1> DEFINE d == [disk[b] EXCEPT !.recovery = TRUE]
<1>3. d \in Disk /\ disk' = [disk EXCEPT ![b] = d]
  BY DEF TypeOK, Disk, TriggerReset
<1> QED
  BY <1>2, <1>3 DEF Replaces, ResetTriggered, TriggerReset, HostsKept

LEMMA UpgradedMoves ==
    ASSUME TypeOK, NEW b \in Boxes, ReconcileOSVersion(b)
    PROVE  \E d, a : Replaces(b, d, a) /\ Upgraded(b, d, a)
<1>1. PICK a \in Agent : agent' = [agent EXCEPT ![b] = a] /\ Posted(b, a)
  BY PostedOK DEF ReconcileOSVersion
<1>2. Mine(b).version \in 0..MaxVersions
  BY KnownOK DEF ReconcileOSVersion, Running, HostObject
<1> DEFINE d == [disk[b] EXCEPT !.version = Mine(b).version]
<1>3. d \in Disk
  BY <1>2 DEF TypeOK, Disk
<1>4. disk' = [disk EXCEPT ![b] = d]
  BY DEF TypeOK, Disk, ReconcileOSVersion
<1> QED
  BY <1>1, <1>3, <1>4 DEF Replaces, Upgraded, ReconcileOSVersion, HostsKept

LEMMA BootstrapStartedMoves ==
    ASSUME TypeOK, NEW b \in Boxes, StartBootstrap(b)
    PROVE  \E d, a : Replaces(b, d, a) /\ BootstrapStarted(b, d, a)
<1>1. PICK a \in Agent : agent' = [agent EXCEPT ![b] = a] /\ Goes(b, a, "bootstrap")
  BY GoesOK DEF StartBootstrap, Phases
<1>2. Replaces(b, disk[b], a)
  BY <1>1, SameDisk DEF StartBootstrap
<1> QED
  BY <1>1, <1>2 DEF BootstrapStarted, StartBootstrap, HostsKept

LEMMA BootstrappedReportedMoves ==
    ASSUME TypeOK, NEW b \in Boxes, ReportBootstrapped(b)
    PROVE  \E d, a : Replaces(b, d, a) /\ BootstrappedReported(b, d, a)
<1>1. PICK a \in Agent : agent' = [agent EXCEPT ![b] = a] /\ Goes(b, a, "run")
  BY GoesOK DEF ReportBootstrapped, Phases
<1>2. Replaces(b, disk[b], a)
  BY <1>1, SameDisk DEF ReportBootstrapped
<1> QED
  BY <1>1, <1>2 DEF BootstrappedReported, ReportBootstrapped, HostsKept, WriteMine, MineChanged

LEMMA AppliedMoves ==
    ASSUME TypeOK, NEW b \in Boxes, ApplyBootstrap(b)
    PROVE  \E d, a : Replaces(b, d, a) /\ Applied(b, d, a)
<1>1. At(b, "bootstrap") /\ ~agent[b].sentinel /\ HostsKept
  BY DEF ApplyBootstrap, HostsKept
<1>2. CASE Known(b) /\ Mine(b).secret /\ disk[b].bootstrap = 0
  <2>1. PICK a \in Agent : agent' = [agent EXCEPT ![b] = a] /\ Posted(b, a)
    BY <1>2, PostedOK DEF ApplyBootstrap
  <2>2. Mine(b).uid \in Configs
    BY <1>2, KnownOK, ConstantsAssumption DEF HostObject, Configs
  <2> DEFINE d == [disk[b] EXCEPT !.bootstrap = Mine(b).uid]
  <2>3. d \in Disk
    BY <2>2 DEF TypeOK, Disk
  <2>4. disk' = [disk EXCEPT ![b] = d]
    BY <1>2 DEF TypeOK, Disk, ApplyBootstrap
  <2> QED
    BY <1>1, <1>2, <2>1, <2>3, <2>4 DEF Replaces, Applied
<1>3. CASE ~(Known(b) /\ Mine(b).secret /\ disk[b].bootstrap = 0)
  <2>1. GoTo(b, "run") /\ disk' = disk
    BY <1>3 DEF ApplyBootstrap
  <2>2. PICK a \in Agent : agent' = [agent EXCEPT ![b] = a] /\ Goes(b, a, "run")
    BY <2>1, GoesOK DEF Phases
  <2>3. Replaces(b, disk[b], a)
    BY <2>1, <2>2, SameDisk
  <2> QED
    BY <1>1, <2>2, <2>3 DEF Applied
<1> QED
  BY <1>2, <1>3

LEMMA DeletedByAgentMoves ==
    ASSUME TypeOK, NEW b \in Boxes, DeleteElementalHost(b)
    PROVE  \E d, a : Replaces(b, d, a) /\ DeletedByAgent(b, d, a)
<1> DEFINE next == IF agent[b].wiped THEN "reportReset" ELSE "wipe"
<1>1. next \in Phases
  BY DEF Phases
<1>2. \E a \in Agent : agent' = [agent EXCEPT ![b] = a] /\ (Goes(b, a, next) \/ a = agent[b])
  <2>1. CASE GoTo(b, next)
    <3> HIDE DEF next
    <3> QED
      BY <1>1, <2>1, GoesOK
  <2>2. CASE agent' = agent
    BY <2>2, KeptOK
  <2> QED
    BY <2>1, <2>2 DEF DeleteElementalHost
<1>3. PICK a \in Agent : agent' = [agent EXCEPT ![b] = a] /\ (Goes(b, a, next) \/ a = agent[b])
  BY <1>2
<1>4. Replaces(b, disk[b], a)
  BY <1>3, SameDisk DEF DeleteElementalHost
<1> QED
  BY <1>3, <1>4 DEF DeletedByAgent, DeleteElementalHost, WriteMine, MineChanged

\* What is left after a wipe is a disk.
LEMMA WipedOK ==
    ASSUME TypeOK, NEW b \in Boxes
    PROVE  Wiped(b) \in Disk /\ [Wiped(b) EXCEPT !.config = FALSE] \in Disk
<1>1. disk[b] \in Disk /\ 0 \in Keys /\ 0 \in Configs /\ 0 \in 0..MaxVersions
  BY ConstantsAssumption DEF TypeOK, Keys, Configs
<1>2. Wiped(b) \in Disk
  BY <1>1 DEF Wiped, Disk
<1> QED
  BY <1>2 DEF Disk

LEMMA SystemWipedMoves ==
    ASSUME TypeOK, NEW b \in Boxes, WipeSystem(b)
    PROVE  \E d, a : Replaces(b, d, a) /\ SystemWiped(b, d, a)
<1>1. At(b, "wipe") /\ HostsKept
  BY DEF WipeSystem, HostsKept
<1>2. CASE /\ disk' = [disk EXCEPT ![b] = Wiped(b)]
           /\ agent' = [agent EXCEPT ![b].phase = "reportReset", ![b].wiped = TRUE]
  <2> DEFINE a == [agent[b] EXCEPT !.phase = "reportReset", !.wiped = TRUE]
  <2>1. a \in Agent
    BY DEF TypeOK, Agent, Phases
  <2>2. agent' = [agent EXCEPT ![b] = a]
    BY <1>2 DEF TypeOK, Agent
  <2>3. SystemWiped(b, Wiped(b), a)
    BY <1>1 DEF SystemWiped
  <2> QED
    BY <1>2, <2>1, <2>2, <2>3, WipedOK DEF Replaces
<1>3. CASE /\ disk' = [disk EXCEPT ![b] = [Wiped(b) EXCEPT !.config = FALSE]]
           /\ GoTo(b, "reset")
  <2>1. PICK a \in Agent : agent' = [agent EXCEPT ![b] = a] /\ Goes(b, a, "reset")
    BY <1>3, GoesOK DEF Phases
  <2>2. SystemWiped(b, [Wiped(b) EXCEPT !.config = FALSE], a)
    BY <1>1, <2>1 DEF SystemWiped
  <2> QED
    BY <1>3, <2>1, <2>2, WipedOK DEF Replaces
<1>4. CASE GoTo(b, "reset") /\ disk' = disk
  <2>1. PICK a \in Agent : agent' = [agent EXCEPT ![b] = a] /\ Goes(b, a, "reset")
    BY <1>4, GoesOK DEF Phases
  <2>2. Replaces(b, disk[b], a)
    BY <1>4, <2>1, SameDisk
  <2> QED
    BY <1>1, <2>1, <2>2 DEF SystemWiped
<1> QED
  BY <1>2, <1>3, <1>4 DEF WipeSystem

LEMMA ResetReportedMoves ==
    ASSUME TypeOK, NEW b \in Boxes, ReportReset(b)
    PROVE  \E d, a : Replaces(b, d, a) /\ ResetReported(b, d, a)
<1>1. At(b, "reportReset") /\ disk' = disk /\ posts' = posts
  BY DEF ReportReset
<1>2. CASE Known(b)
  <2>1. PICK a \in Agent : agent' = [agent EXCEPT ![b] = a] /\ Goes(b, a, "awaitReset")
    BY <1>2, GoesOK DEF ReportReset, Phases
  <2>2. Replaces(b, disk[b], a)
    BY <1>1, <2>1, SameDisk
  <2> QED
    BY <1>1, <1>2, <2>1, <2>2 DEF ResetReported, ReportReset, WriteMine, MineChanged
<1>3. CASE ~Known(b)
  <2>1. PICK a \in Agent : agent' = [agent EXCEPT ![b] = a] /\ Goes(b, a, "reset")
    BY <1>3, GoesOK DEF ReportReset, Phases
  <2>2. Replaces(b, disk[b], a)
    BY <1>1, <2>1, SameDisk
  <2> QED
    BY <1>1, <1>3, <2>1, <2>2 DEF ResetReported, ReportReset, HostsKept
<1> QED
  BY <1>2, <1>3

LEMMA ResetAnsweredMoves ==
    ASSUME TypeOK, NEW b \in Boxes, AwaitReset(b)
    PROVE  \E d, a : Replaces(b, d, a) /\ ResetAnswered(b, d, a)
<1>1. At(b, "awaitReset") /\ disk' = disk /\ HostsKept
  BY DEF AwaitReset, HostsKept
<1>2. CASE agent' = [agent EXCEPT ![b] = Start(b, "register", "recovery", agent[b].sentinel)]
  <2>1. agent[b].sentinel \in BOOLEAN /\ "register" \in Phases
    BY DEF TypeOK, Agent, Phases
  <2>2. Start(b, "register", "recovery", agent[b].sentinel) \in Agent
    BY <2>1, StartOK
  <2> QED
    BY <1>1, <1>2, <2>2, SameDisk DEF ResetAnswered
<1>3. CASE GoTo(b, "reset")
  <2>1. PICK a \in Agent : agent' = [agent EXCEPT ![b] = a] /\ Goes(b, a, "reset")
    BY <1>3, GoesOK DEF Phases
  <2>2. Replaces(b, disk[b], a)
    BY <1>1, <2>1, SameDisk
  <2> QED
    BY <1>1, <2>1, <2>2 DEF ResetAnswered
<1> QED
  BY <1>2, <1>3 DEF AwaitReset

LEMMA BootedMoves ==
    ASSUME TypeOK, NEW b \in Boxes, Boot(b)
    PROVE  \E d, a : Replaces(b, d, a) /\ Booted(b, d, a)
<1>1. PICK sentinel \in BOOLEAN :
         /\ IF disk[b].bootstrap = 0
            THEN ~sentinel /\ Fine
            ELSE (sentinel /\ Fine) \/ (~sentinel /\ Fault("script"))
         /\ disk' = [disk EXCEPT
               ![b].recovery  = FALSE,
               ![b].bootstrap = IF sentinel THEN 0 ELSE @,
               ![b].ran       = IF sentinel THEN disk[b].bootstrap ELSE @]
         /\ agent' = [agent EXCEPT ![b] =
               IF ~disk[b].os THEN Start(b, "register", "live", FALSE)
               ELSE IF disk[b].recovery THEN Start(b, "reset", "recovery", sentinel)
               ELSE Start(b, "run", "active", sentinel)]
  BY DEF Boot
<1> DEFINE d == [disk[b] EXCEPT !.recovery = FALSE,
                   !.bootstrap = IF sentinel THEN 0 ELSE disk[b].bootstrap,
                   !.ran = IF sentinel THEN disk[b].bootstrap ELSE disk[b].ran]
           a == IF ~disk[b].os THEN Start(b, "register", "live", FALSE)
                ELSE IF disk[b].recovery THEN Start(b, "reset", "recovery", sentinel)
                ELSE Start(b, "run", "active", sentinel)
<1>2. disk[b] \in Disk /\ disk[b].bootstrap \in Configs /\ disk[b].ran \in Configs /\ 0 \in Configs
  BY ConstantsAssumption DEF TypeOK, Disk, Configs
<1>3. d \in Disk
  <2>1. CASE sentinel
    BY <1>2, <2>1 DEF Disk
  <2>2. CASE ~sentinel
    BY <1>2, <2>2 DEF Disk
  <2> QED
    BY <2>1, <2>2
<1>4. disk' = [disk EXCEPT ![b] = d]
  BY <1>1, <1>2 DEF TypeOK, Disk
<1>5. "register" \in Phases /\ "reset" \in Phases /\ "run" \in Phases
  BY DEF Phases
<1>6. a \in Agent
  BY <1>5, StartOK
<1>7. agent' = [agent EXCEPT ![b] = a]
  BY <1>1
<1>8. /\ disk[b].bootstrap = 0 => ~sentinel
      /\ disk[b].bootstrap # 0 /\ "script" \notin FaultKinds => sentinel
  BY <1>1 DEF Fault
<1>9. \/ ~disk[b].os /\ a = Start(b, "register", "live", FALSE)
      \/ disk[b].os /\ disk[b].recovery /\ a = Start(b, "reset", "recovery", sentinel)
      \/ disk[b].os /\ ~disk[b].recovery /\ a = Start(b, "run", "active", sentinel)
  OBVIOUS
<1> HIDE DEF a
<1>10. Booted(b, d, a)
  BY <1>8, <1>9 DEF Booted, Boot, HostsKept
<1> HIDE DEF d
<1> QED
  BY <1>3, <1>4, <1>6, <1>7, <1>10 DEF Replaces

LEMMA InterruptedMoves ==
    ASSUME TypeOK, NEW b \in Boxes, BootInterrupted(b)
    PROVE  \E d, a : Replaces(b, d, a) /\ Interrupted(b, d, a)
<1> DEFINE d == [disk[b] EXCEPT !.recovery = FALSE, !.ran = disk[b].bootstrap]
<1>1. d \in Disk
  BY DEF TypeOK, Disk
<1>2. disk' = [disk EXCEPT ![b] = d]
  BY DEF TypeOK, Disk, BootInterrupted
<1>3. Interrupted(b, d, agent[b])
  BY DEF Interrupted, BootInterrupted, HostsKept, Fault
<1> HIDE DEF d
<1> QED
  BY <1>1, <1>2, <1>3, SameAgent DEF BootInterrupted

LEMMA CycledMoves ==
    ASSUME TypeOK, NEW b \in Boxes, PowerCycle(b)
    PROVE  \E d, a : Replaces(b, d, a) /\ Cycled(b, d, a)
BY OffOK, SameDisk DEF PowerCycle, Cycled, HostsKept, Fault

LEMMA RestartedMoves ==
    ASSUME TypeOK, NEW b \in Boxes, RestartAgent(b)
    PROVE  \E d, a : Replaces(b, d, a) /\ Restarted(b, d, a)
<1>1. PICK a \in Agent : agent' = [agent EXCEPT ![b] = a] /\ Exited(b, a)
  BY ProcessExitsOK DEF RestartAgent
<1>2. Replaces(b, disk[b], a)
  BY <1>1, SameDisk DEF RestartAgent
<1> QED
  BY <1>1, <1>2 DEF Restarted, RestartAgent, HostsKept, Fault

\* A step of a box, in whatever it is.
BoxStep(b) == Step(b) \/ BootInterrupted(b) \/ PowerCycle(b) \/ RestartAgent(b)

\* Every step of a box is one of these moves.
LEMMA StepMoves ==
    ASSUME TypeOK, NEW b \in Boxes, BoxStep(b)
    PROVE  \E d, a : Replaces(b, d, a) /\ Move(b, d, a)
<1>1. CASE Register(b)
  BY <1>1, FoundMoves, CreatedMoves DEF Register, Move
<1>2. CASE FinalizeRegistration(b)
  BY <1>2, FinalizedMoves DEF Move
<1>3. CASE ConfirmRegistration(b)
  BY <1>3, ConfirmedMoves DEF Move
<1>4. CASE InstallSystem(b)
  BY <1>4, InstalledMoves DEF Move
<1>5. CASE ReportInstalled(b)
  BY <1>5, InstalledReportedMoves DEF Move
<1>6. CASE TriggerReset(b)
  BY <1>6, ResetTriggeredMoves DEF Move
<1>7. CASE ReconcileOSVersion(b)
  BY <1>7, UpgradedMoves DEF Move
<1>8. CASE StartBootstrap(b)
  BY <1>8, BootstrapStartedMoves DEF Move
<1>9. CASE ReportBootstrapped(b)
  BY <1>9, BootstrappedReportedMoves DEF Move
<1>10. CASE ApplyBootstrap(b)
  BY <1>10, AppliedMoves DEF Move
<1>11. CASE DeleteElementalHost(b)
  BY <1>11, DeletedByAgentMoves DEF Move
<1>12. CASE WipeSystem(b)
  BY <1>12, SystemWipedMoves DEF Move
<1>13. CASE ReportReset(b)
  BY <1>13, ResetReportedMoves DEF Move
<1>14. CASE AwaitReset(b)
  BY <1>14, ResetAnsweredMoves DEF Move
<1>15. CASE Boot(b)
  BY <1>15, BootedMoves DEF Move
<1>16. CASE BootInterrupted(b)
  BY <1>16, InterruptedMoves DEF Move
<1>17. CASE PowerCycle(b)
  BY <1>17, CycledMoves DEF Move
<1>18. CASE RestartAgent(b)
  BY <1>18, RestartedMoves DEF Move
<1> QED
  BY <1>1, <1>2, <1>3, <1>4, <1>5, <1>6, <1>7, <1>8, <1>9, <1>10, <1>11, <1>12,
     <1>13, <1>14, <1>15, <1>16, <1>17, <1>18 DEF BoxStep, Step
-----------------------------------------------------------------------------
(* What controllers and users make of a host.                              *)

\* It stays the host it was, with its key and with what its agent reported; a
\* reset once asked for and a deletion are never taken back.
SameHost(old, new) ==
    /\ new.uid = old.uid
    /\ new.pubKey = old.pubKey
    /\ new.installed = old.installed
    /\ new.bootstrapped = old.bootstrapped
    /\ new.reset = old.reset
    /\ old.needsReset => new.needsReset
    /\ old.deleting => new.deleting

Tended(n, h) ==
    /\ Exists(n)
    /\ h \in HostObject \cup {Absent}
    /\ host' = [host EXCEPT ![n] = h]
    /\ h = Absent => ~host[n].finalizer \/ host[n].reset
    /\ h # Absent => SameHost(host[n], h)

HostStep(n) ==
    ReconcileHost(n) \/ Associate(n) \/ WantVersion(n) \/ DeleteMachine(n) \/ DeleteHost(n)

\* What a finalizer does to a host that is being deleted.
LEMMA SettledOK ==
    ASSUME NEW h \in HostObject
    PROVE  /\ Settled(h) \in HostObject \cup {Absent}
           /\ Settled(h) = Absent <=> (h.deleting /\ ~h.finalizer)
           /\ Settled(h) # Absent => Settled(h) = h
BY ConstantsAssumption DEF Settled

LEMMA HostReconciledOK ==
    ASSUME NEW h \in HostObject
    PROVE  /\ HostReconciled(h) \in HostObject
           /\ SameHost(h, HostReconciled(h))
           /\ (h.deleting /\ ~HostReconciled(h).finalizer) => ~h.finalizer \/ h.reset
           /\ HostReconciled(h).deleting = h.deleting
<1>1. CASE ~h.deleting
  BY <1>1 DEF HostReconciled, HostObject, SameHost
<1>2. CASE h.deleting /\ h.finalizer /\ h.reset
  BY <1>2 DEF HostReconciled, HostObject, SameHost
<1>3. CASE h.deleting /\ ~(h.finalizer /\ h.reset)
  BY <1>3 DEF HostReconciled, HostObject, SameHost
<1> QED
  BY <1>1, <1>2, <1>3

LEMMA HostStepTends ==
    ASSUME TypeOK, NEW n \in Names, HostStep(n)
    PROVE  /\ \E h : Tended(n, h)
           /\ disk' = disk /\ agent' = agent /\ posts' = posts /\ faults' = faults
           /\ deletions' \in 0..MaxDeletions
<1>1. Exists(n)
  BY DEF HostStep, ReconcileHost, Associate, WantVersion, DeleteMachine, DeleteHost
<1>2. host[n] \in HostObject
  BY <1>1 DEF TypeOK, Exists
<1>3. CASE ReconcileHost(n)
  <2> DEFINE r == HostReconciled(host[n])
  <2>1. /\ r \in HostObject
        /\ SameHost(host[n], r)
        /\ (host[n].deleting /\ ~r.finalizer) => ~host[n].finalizer \/ host[n].reset
        /\ r.deleting = host[n].deleting
    BY <1>2, HostReconciledOK
  <2>2. host' = [host EXCEPT ![n] = Settled(r)]
    BY <1>3 DEF ReconcileHost
  <2> HIDE DEF r
  <2>3. Tended(n, Settled(r))
    BY <1>1, <2>1, <2>2, SettledOK DEF Tended
  <2> QED
    BY <1>3, <2>3 DEF ReconcileHost, TypeOK
<1>4. CASE Associate(n)
  <2>1. Tended(n, [host[n] EXCEPT !.secret = TRUE])
    BY <1>1, <1>2, <1>4, ConstantsAssumption DEF Tended, Associate, Change, HostObject, SameHost
  <2> QED
    BY <1>4, <2>1 DEF Associate, Change, TypeOK
<1>5. CASE WantVersion(n)
  <2> DEFINE h == [host[n] EXCEPT !.version = host[n].version + 1]
  <2>1. host[n].version + 1 \in 0..MaxVersions
    BY <1>2, <1>5, ConstantsAssumption DEF WantVersion, HostObject
  <2>2. h \in HostObject /\ SameHost(host[n], h)
    BY <1>2, <2>1 DEF HostObject, SameHost
  <2>3. host' = [host EXCEPT ![n] = h]
    BY <1>5 DEF WantVersion, Change
  <2> HIDE DEF h
  <2>4. Tended(n, h)
    BY <1>1, <2>2, <2>3, ConstantsAssumption DEF Tended
  <2> QED
    BY <1>5, <2>4 DEF WantVersion, Change, TypeOK
<1>6. CASE DeleteMachine(n)
  <2>1. Tended(n, [host[n] EXCEPT !.needsReset = TRUE])
    BY <1>1, <1>2, <1>6, ConstantsAssumption
       DEF Tended, DeleteMachine, Delete, Change, HostObject, SameHost
  <2> QED
    BY <1>6, <2>1, ConstantsAssumption DEF DeleteMachine, Delete, Change, TypeOK
<1>7. CASE DeleteHost(n)
  <2> DEFINE h == [host[n] EXCEPT !.deleting = TRUE]
  <2>1. h \in HostObject /\ SameHost(host[n], h) /\ h.finalizer = host[n].finalizer
    BY <1>2 DEF HostObject, SameHost
  <2>2. host' = [host EXCEPT ![n] = Settled(h)]
    BY <1>7 DEF DeleteHost, Delete, Change
  <2> HIDE DEF h
  <2>3. Tended(n, Settled(h))
    BY <1>1, <2>1, <2>2, SettledOK DEF Tended
  <2> QED
    BY <1>7, <2>3, ConstantsAssumption DEF DeleteHost, Delete, Change, TypeOK
<1> QED
  BY <1>3, <1>4, <1>5, <1>6, <1>7 DEF HostStep
-----------------------------------------------------------------------------
(* Types.                                                                  *)

LEMMA InitType == Init => TypeOK
<1> SUFFICES ASSUME Init PROVE TypeOK
  OBVIOUS
<1>1. BlankDisk \in Disk
  BY ConstantsAssumption DEF BlankDisk, Disk, Keys, Configs
<1> QED
  BY <1>1, OffOK, ConstantsAssumption DEF Init, TypeOK

\* A host is created with a key and a uid of the right range.
LEMMA NewHostOK ==
    ASSUME TypeOK, NEW key \in 1..MaxRegistrations, posts < MaxRegistrations
    PROVE  NewHost(key) \in HostObject
<1>1. posts + 1 \in 1..MaxRegistrations /\ 0 \in 0..MaxVersions
  BY ConstantsAssumption DEF TypeOK
<1> QED
  BY <1>1 DEF NewHost, HostObject

\* What the handlers make of the host of a box is a host, or it is gone.
LEMMA MineChangedOK ==
    ASSUME TypeOK, NEW b \in Boxes, Known(b)
    PROVE  /\ [Mine(b) EXCEPT !.installed = TRUE] \in HostObject
           /\ [Mine(b) EXCEPT !.bootstrapped = TRUE] \in HostObject
           /\ [Mine(b) EXCEPT !.reset = TRUE] \in HostObject
           /\ Settled([Mine(b) EXCEPT !.deleting = TRUE]) \in HostObject \cup {Absent}
<1>1. Mine(b) \in HostObject
  BY KnownOK
<1>2. [Mine(b) EXCEPT !.deleting = TRUE] \in HostObject
  BY <1>1 DEF HostObject
<1> QED
  BY <1>1, <1>2, SettledOK DEF HostObject

\* The hosts and their number after a step of a box.
LEMMA MoveHosts ==
    ASSUME TypeOK, NEW b \in Boxes, NEW d, NEW a, Move(b, d, a)
    PROVE  host' \in [Names -> HostObject \cup {Absent}] /\ posts' \in 0..MaxRegistrations
<1>1. CASE HostsKept
  BY <1>1 DEF HostsKept, TypeOK
<1>2. ASSUME NEW object \in HostObject \cup {Absent}, MineChanged(b, object)
      PROVE  host' \in [Names -> HostObject \cup {Absent}] /\ posts' \in 0..MaxRegistrations
  BY <1>2, KnownOK DEF MineChanged, TypeOK
<1>3. CASE Created(b, d, a)
  <2>1. PICK n \in PickedNames(b), key \in 1..MaxRegistrations :
          n \in Names /\ host' = [host EXCEPT ![n] = NewHost(key)]
    BY <1>3 DEF Created
  <2>2. NewHost(key) \in HostObject
    BY <1>3, NewHostOK DEF Created
  <2>3. posts' \in 0..MaxRegistrations
    BY <1>3, ConstantsAssumption DEF Created, TypeOK
  <2> QED
    BY <2>1, <2>2, <2>3 DEF TypeOK
<1>4. CASE InstalledReported(b, d, a)
  BY <1>4, <1>2, MineChangedOK DEF InstalledReported, MineChanged
<1>5. CASE BootstrappedReported(b, d, a)
  BY <1>1, <1>5, <1>2, MineChangedOK DEF BootstrappedReported, MineChanged
<1>6. CASE DeletedByAgent(b, d, a)
  BY <1>6, <1>2, MineChangedOK DEF DeletedByAgent, MineChanged
<1>7. CASE ResetReported(b, d, a)
  BY <1>1, <1>7, <1>2, MineChangedOK DEF ResetReported, MineChanged
<1> QED
  BY <1>1, <1>3, <1>4, <1>5, <1>6, <1>7
     DEF Move, Found, Finalized, Confirmed, Installed, ResetTriggered, Upgraded,
         BootstrapStarted, Applied, SystemWiped, ResetAnswered, Booted, Interrupted,
         Cycled, Restarted

\* The counters of failures and deletions during a step of a box.
LEMMA BoxStepCounts ==
    ASSUME TypeOK, NEW b \in Boxes, BoxStep(b)
    PROVE  faults' \in 0..MaxFaults /\ deletions' \in 0..MaxDeletions
<1>1. deletions' = deletions
  BY DEF BoxStep, Step, Register, RegisterFound, RegisterNew, FinalizeRegistration,
         ConfirmRegistration, InstallSystem, ReportInstalled, TriggerReset, ReconcileOSVersion,
         StartBootstrap, ReportBootstrapped, ApplyBootstrap, DeleteElementalHost, WipeSystem,
         ReportReset, AwaitReset, Boot, BootInterrupted, PowerCycle, RestartAgent
<1>2. Fine \/ \E kind \in AllFaultKinds : Fault(kind)
  <2>1. \A kind : Fault(kind) => kind \in AllFaultKinds
    BY ConstantsAssumption DEF Fault
  <2>2. HandlePost(b) => Fine \/ \E kind : Fault(kind)
    BY DEF HandlePost
  <2> QED
    BY <2>1, <2>2
       DEF BoxStep, Step, Register, RegisterFound, RegisterNew, FinalizeRegistration,
         ConfirmRegistration, InstallSystem, ReportInstalled, TriggerReset, ReconcileOSVersion,
         StartBootstrap, ReportBootstrapped, ApplyBootstrap, DeleteElementalHost, WipeSystem,
         ReportReset, AwaitReset, Boot, BootInterrupted, PowerCycle, RestartAgent
<1> QED
  BY <1>1, <1>2, FaultOK DEF TypeOK

LEMMA NextType == TypeOK /\ [Next]_vars => TypeOK'
<1> SUFFICES ASSUME TypeOK, [Next]_vars PROVE TypeOK'
  OBVIOUS
<1>1. ASSUME NEW b \in Boxes, BoxStep(b) PROVE TypeOK'
  <2>1. PICK d, a : Replaces(b, d, a) /\ Move(b, d, a)
    BY <1>1, StepMoves
  <2> QED
    BY <1>1, <2>1, MoveHosts, BoxStepCounts DEF Replaces, TypeOK
<1>2. ASSUME NEW n \in Names, HostStep(n) PROVE TypeOK'
  <2>1. PICK h : Tended(n, h)
    BY <1>2, HostStepTends
  <2> QED
    BY <1>2, <2>1, HostStepTends DEF Tended, TypeOK
<1>3. CASE UNCHANGED vars
  BY <1>3 DEF vars, TypeOK
<1> QED
  BY <1>1, <1>2, <1>3 DEF Next, BoxStep, HostStep

\* Every variable keeps its type: what the API stores, what the plugin leaves on
\* a disk and what an agent remembers, with every failure in between.
THEOREM TypeCorrect == Spec => []TypeOK
BY InitType, NextType, PTL DEF Spec
-----------------------------------------------------------------------------
(* Identity: which box may hold which key and which bootstrap config.      *)

Clean(d) == d.bootstrap = 0 /\ d.ran = 0

\* Where an agent is, in which mode, and what it has in common with its disk.
Shape(d, a) ==
    /\ a.phase \in Resetting => a.mode = "recovery"
    /\ a.phase \in Acting => a.mode = "active"
    /\ a.phase \in Registering => a.mode # "active"
    /\ a.phase # "off" /\ a.mode # "live" => d.os
    /\ a.phase \in Registering \ {"register"} => a.name \in Names /\ a.key # 0
    /\ a.wiped => a.phase \in Resetting \cup {"stopped"} /\ d.key = 0
    /\ a.phase \in {"reportReset", "awaitReset"} => a.wiped
    /\ a.phase # "off" /\ a.mode = "active" => a.key = d.key /\ a.name = d.name
    /\ a.phase # "off" /\ a.mode = "recovery" => d.key \in {0, a.key}
    /\ d.key = 0 => Clean(d)
    /\ d.key # 0 => d.name \in Names
    /\ ~d.os => Clean(d)
    /\ a.phase # "off" /\ a.mode = "live" => Clean(d)
    /\ d.recovery => a.phase \in Acting \cup {"off", "stopped"}

LEMMA ShapeKept ==
    ASSUME TypeOK, NEW b \in Boxes, NEW d, NEW a, Replaces(b, d, a), Move(b, d, a),
           Shape(disk[b], agent[b])
    PROVE  Shape(d, a)
<1>1. disk[b] \in Disk /\ agent[b] \in Agent /\ d \in Disk /\ a \in Agent
  BY DEF TypeOK, Replaces
<1> USE DEF Registering, Resetting, Acting
<1>2. CASE Found(b, d, a)
  BY <1>1, <1>2 DEF Found, Exists, TypeOK, HostObject, At, Shape, Clean, Disk, Agent, Keys
<1>3. CASE Created(b, d, a)
  <2>1. PICK n \in PickedNames(b), key \in 1..MaxRegistrations :
          /\ n \in Names
          /\ key = IF agent[b].key = 0 THEN posts + 1 ELSE agent[b].key
          /\ \/ a = [agent[b] EXCEPT !.phase = "finalize", !.name = n, !.key = key]
             \/ a = [agent[b] EXCEPT !.key = key]
    BY <1>3 DEF Created
  <2>2. key # 0 /\ d = disk[b] /\ agent[b].phase = "register"
    BY <1>3, <2>1, ConstantsAssumption DEF Created, At
  <2>3. disk[b].key # 0 /\ agent[b].mode = "recovery" => key = disk[b].key
    BY <2>1, <2>2 DEF Shape
  <2>4. CASE a = [agent[b] EXCEPT !.phase = "finalize", !.name = n, !.key = key]
    BY <1>1, <2>1, <2>2, <2>3, <2>4 DEF Shape, Clean, Agent
  <2>5. CASE a = [agent[b] EXCEPT !.key = key]
    BY <1>1, <2>1, <2>2, <2>3, <2>5 DEF Shape, Clean, Agent
  <2> QED
    BY <2>1, <2>4, <2>5
<1>4. CASE Finalized(b, d, a)
  <2>1. CASE agent[b].mode = "live" /\ d = disk[b] /\ Goes(b, a, "confirm")
    BY <1>1, <1>4, <2>1 DEF Finalized, Goes, At, Shape, Clean, Disk, Agent
  <2>2. CASE agent[b].mode # "live" /\ d = Identified(b) /\ Goes(b, a, "confirm")
    BY <1>1, <1>4, <2>2 DEF Finalized, Goes, Identified, At, Shape, Clean, Disk, Agent
  <2>3. CASE d = disk[b] /\ Exited(b, a)
    BY <1>1, <1>4, <2>3 DEF Finalized, Exited, Start, Off, At, Shape, Clean, Disk, Agent
  <2> QED
    BY <1>4, <2>1, <2>2, <2>3 DEF Finalized
<1>5. CASE Confirmed(b, d, a)
  BY <1>1, <1>5 DEF Confirmed, Goes, At, Shape, Clean, Disk, Agent, Keys
<1>6. CASE Installed(b, d, a)
  BY <1>1, <1>6 DEF Installed, Goes, Identified, At, Shape, Clean, Disk, Agent, Keys
<1>7. CASE InstalledReported(b, d, a)
  BY <1>1, <1>7 DEF InstalledReported, Posted, Goes, Off, At, Shape, Clean, Disk, Agent, Keys
<1>8. CASE ResetTriggered(b, d, a)
  BY <1>1, <1>8 DEF ResetTriggered, Running, Off, At, Shape, Clean, Disk, Agent, Keys
<1>9. CASE Upgraded(b, d, a)
  BY <1>1, <1>9 DEF Upgraded, Posted, Goes, Off, Running, At, Shape, Clean, Disk, Agent, Keys
<1>10. CASE BootstrapStarted(b, d, a)
  BY <1>1, <1>10 DEF BootstrapStarted, Goes, Running, At, Shape, Clean, Disk, Agent, Keys
<1>11. CASE BootstrappedReported(b, d, a)
  BY <1>1, <1>11 DEF BootstrappedReported, Goes, At, Shape, Clean, Disk, Agent, Keys
<1>12. CASE Applied(b, d, a)
  <2>1. Known(b) => agent[b].key # 0
    BY KnownOK, ConstantsAssumption DEF HostObject
  <2> QED
    BY <1>1, <1>12, <2>1 DEF Applied, Posted, Goes, Off, At, Shape, Clean, Disk, Agent, Keys
<1>13. CASE DeletedByAgent(b, d, a)
  BY <1>1, <1>13 DEF DeletedByAgent, Goes, At, Shape, Clean, Disk, Agent, Keys
<1>14. CASE SystemWiped(b, d, a)
  BY <1>1, <1>14 DEF SystemWiped, Goes, Wiped, At, Shape, Clean, Disk, Agent, Keys
<1>15. CASE ResetReported(b, d, a)
  BY <1>1, <1>15 DEF ResetReported, Goes, At, Shape, Clean, Disk, Agent, Keys
<1>16. CASE ResetAnswered(b, d, a)
  BY <1>1, <1>16 DEF ResetAnswered, Goes, Start, At, Shape, Clean, Disk, Agent, Keys
<1>17. CASE Booted(b, d, a)
  BY <1>1, <1>17 DEF Booted, Start, At, Shape, Clean, Disk, Agent, Keys
<1>18. CASE Interrupted(b, d, a)
  BY <1>1, <1>18 DEF Interrupted, At, Shape, Clean, Disk, Agent, Keys
<1>19. CASE Cycled(b, d, a)
  BY <1>1, <1>19 DEF Cycled, Off, At, Shape, Clean, Disk, Agent, Keys
<1>20. CASE Restarted(b, d, a)
  BY <1>1, <1>20 DEF Restarted, Exited, Start, Off, At, Shape, Clean, Disk, Agent, Keys
<1> QED
  BY <1>2, <1>3, <1>4, <1>5, <1>6, <1>7, <1>8, <1>9, <1>10, <1>11, <1>12, <1>13, <1>14, <1>15, <1>16, <1>17, <1>18, <1>19, <1>20 DEF Move

\* The keys and configs a box has after a step, and where they come from.
KeysFrom(b, d, a) ==
    /\ \/ a.key \in {0, agent[b].key, disk[b].key}
       \/ a.key = posts + 1 /\ posts' = posts + 1
    /\ d.key \in {0, agent[b].key, disk[b].key}
    /\ \/ d.bootstrap \in {0, disk[b].bootstrap}
       \/ Known(b) /\ d.bootstrap = Mine(b).uid
    /\ d.ran \in {0, disk[b].bootstrap, disk[b].ran}
    /\ posts' \in {posts, posts + 1}

LEMMA KeysMove ==
    ASSUME TypeOK, NEW b \in Boxes, NEW d, NEW a, Replaces(b, d, a), Move(b, d, a)
    PROVE  KeysFrom(b, d, a)
<1>1. disk[b] \in Disk /\ agent[b] \in Agent
  BY DEF TypeOK
<1>2. CASE Found(b, d, a)
  BY <1>1, <1>2 DEF Found, HostsKept, KeysFrom, Disk, Agent
<1>3. CASE Created(b, d, a)
  <2>1. PICK n \in PickedNames(b), key \in 1..MaxRegistrations :
          /\ key = IF agent[b].key = 0 THEN posts + 1 ELSE agent[b].key
          /\ \/ a = [agent[b] EXCEPT !.phase = "finalize", !.name = n, !.key = key]
             \/ a = [agent[b] EXCEPT !.key = key]
    BY <1>3 DEF Created
  <2>2. a.key = key
    BY <1>1, <2>1 DEF Agent
  <2> QED
    BY <1>3, <2>1, <2>2 DEF Created, KeysFrom
<1>4. CASE Finalized(b, d, a)
  <2>1. CASE Goes(b, a, "confirm") /\ d \in {disk[b], Identified(b)}
    BY <1>1, <1>4, <2>1 DEF Finalized, Goes, Identified, HostsKept, KeysFrom, Disk, Agent
  <2>2. CASE d = disk[b] /\ Exited(b, a)
    BY <1>1, <1>4, <2>2 DEF Finalized, Exited, Start, Off, HostsKept, KeysFrom, Disk, Agent
  <2> QED
    BY <1>4, <2>1, <2>2 DEF Finalized
<1>5. CASE Confirmed(b, d, a)
  BY <1>1, <1>5 DEF Confirmed, Goes, HostsKept, KeysFrom, Disk, Agent
<1>6. CASE Installed(b, d, a)
  BY <1>1, <1>6 DEF Installed, Goes, Identified, HostsKept, KeysFrom, Disk, Agent
<1>7. CASE InstalledReported(b, d, a)
  BY <1>1, <1>7 DEF InstalledReported, MineChanged, Posted, Goes, Off, HostsKept, KeysFrom, Disk, Agent
<1>8. CASE ResetTriggered(b, d, a)
  BY <1>1, <1>8 DEF ResetTriggered, Running, Off, HostsKept, KeysFrom, Disk, Agent
<1>9. CASE Upgraded(b, d, a)
  BY <1>1, <1>9 DEF Upgraded, Posted, Goes, Off, Running, HostsKept, KeysFrom, Disk, Agent
<1>10. CASE BootstrapStarted(b, d, a)
  BY <1>1, <1>10 DEF BootstrapStarted, Goes, Running, HostsKept, KeysFrom, Disk, Agent
<1>11. CASE BootstrappedReported(b, d, a)
  BY <1>1, <1>11 DEF BootstrappedReported, MineChanged, Goes, HostsKept, KeysFrom, Disk, Agent
<1>12. CASE Applied(b, d, a)
  BY <1>1, <1>12 DEF Applied, Posted, Goes, Off, HostsKept, KeysFrom, Disk, Agent
<1>13. CASE DeletedByAgent(b, d, a)
  BY <1>1, <1>13 DEF DeletedByAgent, MineChanged, Goes, HostsKept, KeysFrom, Disk, Agent
<1>14. CASE SystemWiped(b, d, a)
  BY <1>1, <1>14 DEF SystemWiped, Goes, Wiped, HostsKept, KeysFrom, Disk, Agent
<1>15. CASE ResetReported(b, d, a)
  BY <1>1, <1>15 DEF ResetReported, MineChanged, Goes, HostsKept, KeysFrom, Disk, Agent
<1>16. CASE ResetAnswered(b, d, a)
  BY <1>1, <1>16 DEF ResetAnswered, Goes, Start, HostsKept, KeysFrom, Disk, Agent
<1>17. CASE Booted(b, d, a)
  BY <1>1, <1>17 DEF Booted, Start, HostsKept, KeysFrom, Disk, Agent
<1>18. CASE Interrupted(b, d, a)
  BY <1>1, <1>18 DEF Interrupted, HostsKept, KeysFrom, Disk, Agent
<1>19. CASE Cycled(b, d, a)
  BY <1>1, <1>19 DEF Cycled, Off, HostsKept, KeysFrom, Disk, Agent
<1>20. CASE Restarted(b, d, a)
  BY <1>1, <1>20 DEF Restarted, Exited, Start, Off, HostsKept, KeysFrom, Disk, Agent
<1> QED
  BY <1>2, <1>3, <1>4, <1>5, <1>6, <1>7, <1>8, <1>9, <1>10, <1>11, <1>12, <1>13, <1>14, <1>15, <1>16, <1>17, <1>18, <1>19, <1>20 DEF Move

\* A host after a step of box b: what it was, with what b reported, or new.
Kept(b, n) ==
    /\ Exists(n)
    /\ host'[n].uid = host[n].uid
    /\ host'[n].pubKey = host[n].pubKey
    /\ host'[n].needsReset = host[n].needsReset
    /\ host[n].deleting => host'[n].deleting
    /\ \/ host'[n].installed = host[n].installed
       \/ At(b, "reportInstalled") /\ Known(b) /\ n = agent[b].name
    /\ \/ host'[n].bootstrapped = host[n].bootstrapped
       \/ At(b, "bootstrap") /\ agent[b].sentinel /\ Known(b) /\ n = agent[b].name
    /\ \/ host'[n].reset = host[n].reset
       \/ At(b, "reportReset") /\ Known(b) /\ n = agent[b].name

New(b, a, n) ==
    /\ ~Exists(n)
    /\ At(b, "register")
    /\ n \in PickedNames(b)
    /\ posts' = posts + 1
    /\ host'[n].uid = posts + 1
    /\ host'[n].pubKey = a.key
    /\ a.key \in 1..MaxRegistrations
    /\ a.key \in {agent[b].key, posts + 1}
    /\ ~host'[n].installed /\ ~host'[n].bootstrapped /\ ~host'[n].reset /\ ~host'[n].needsReset

LEMMA HostsAfter ==
    ASSUME TypeOK, NEW b \in Boxes, NEW d, NEW a, Replaces(b, d, a), Move(b, d, a),
           NEW n \in Names, host'[n] # Absent
    PROVE  Kept(b, n) \/ New(b, a, n)
<1>1. host \in [Names -> HostObject \cup {Absent}]
  BY DEF TypeOK
<1>2. CASE HostsKept
  BY <1>1, <1>2 DEF HostsKept, Kept, Exists
<1>3. CASE Created(b, d, a)
  <2>1. PICK m \in PickedNames(b), key \in 1..MaxRegistrations :
          /\ key = IF agent[b].key = 0 THEN posts + 1 ELSE agent[b].key
          /\ m \in Names
          /\ ~Exists(m)
          /\ host' = [host EXCEPT ![m] = NewHost(key)]
          /\ \/ a = [agent[b] EXCEPT !.phase = "finalize", !.name = m, !.key = key]
             \/ a = [agent[b] EXCEPT !.key = key]
    BY <1>3 DEF Created
  <2>2. a.key = key
    BY <2>1 DEF TypeOK, Agent
  <2>3. CASE n = m
    BY <1>1, <1>3, <2>1, <2>2, <2>3 DEF Created, New, NewHost
  <2>4. CASE n # m
    BY <1>1, <2>1, <2>4 DEF Kept, Exists
  <2> QED
    BY <2>3, <2>4
<1>4. ASSUME NEW object, MineChanged(b, object), n # agent[b].name
      PROVE  Kept(b, n)
  BY <1>1, <1>4 DEF MineChanged, Kept, Exists
<1>5. ASSUME NEW object, MineChanged(b, object), n = agent[b].name
      PROVE  host'[n] = object /\ Exists(n) /\ host[n] \in HostObject /\ Mine(b) = host[n]
  BY <1>1, <1>5, KnownOK DEF MineChanged, Known
<1>6. CASE InstalledReported(b, d, a)
  <2>1. MineChanged(b, [Mine(b) EXCEPT !.installed = TRUE])
    BY <1>6 DEF InstalledReported
  <2>2. CASE n = agent[b].name
    <3>1. /\ host'[n] = [host[n] EXCEPT !.installed = TRUE]
          /\ Exists(n) /\ host[n] \in HostObject
      BY <1>5, <2>1, <2>2
    <3>2. At(b, "reportInstalled") /\ Known(b)
      BY <1>6, <2>1 DEF InstalledReported, MineChanged
    <3> QED
      BY <2>2, <3>1, <3>2 DEF Kept, HostObject
  <2> QED
    BY <1>4, <2>1, <2>2
<1>7. CASE BootstrappedReported(b, d, a) /\ ~HostsKept
  <2>1. MineChanged(b, [Mine(b) EXCEPT !.bootstrapped = TRUE])
    BY <1>7 DEF BootstrappedReported
  <2>2. CASE n = agent[b].name
    <3>1. /\ host'[n] = [host[n] EXCEPT !.bootstrapped = TRUE]
          /\ Exists(n) /\ host[n] \in HostObject
      BY <1>5, <2>1, <2>2
    <3>2. At(b, "bootstrap") /\ agent[b].sentinel /\ Known(b)
      BY <1>7, <2>1 DEF BootstrappedReported, MineChanged
    <3> QED
      BY <2>2, <3>1, <3>2 DEF Kept, HostObject
  <2> QED
    BY <1>4, <2>1, <2>2
<1>8. CASE DeletedByAgent(b, d, a)
  <2> DEFINE h == [Mine(b) EXCEPT !.deleting = TRUE]
  <2>1. MineChanged(b, Settled(h))
    BY <1>8 DEF DeletedByAgent
  <2>2. CASE n = agent[b].name
    <3>1. host'[n] = Settled(h) /\ Exists(n) /\ host[n] \in HostObject /\ Mine(b) = host[n]
      BY <1>5, <2>1, <2>2
    <3>2. h \in HostObject
      BY <3>1 DEF HostObject
    <3>3. host'[n] = h
      <4> HIDE DEF h
      <4> QED
        BY <3>1, <3>2, SettledOK
    <3> QED
      BY <3>1, <3>3 DEF Kept, HostObject
  <2> QED
    BY <1>4, <2>1, <2>2
<1>9. CASE ResetReported(b, d, a) /\ ~HostsKept
  <2>1. MineChanged(b, [Mine(b) EXCEPT !.reset = TRUE])
    BY <1>9 DEF ResetReported
  <2>2. CASE n = agent[b].name
    <3>1. /\ host'[n] = [host[n] EXCEPT !.reset = TRUE]
          /\ Exists(n) /\ host[n] \in HostObject
      BY <1>5, <2>1, <2>2
    <3>2. At(b, "reportReset") /\ Known(b)
      BY <1>9, <2>1 DEF ResetReported, MineChanged
    <3> QED
      BY <2>2, <3>1, <3>2 DEF Kept, HostObject
  <2> QED
    BY <1>4, <2>1, <2>2
<1> QED
  BY <1>2, <1>3, <1>6, <1>7, <1>8, <1>9
     DEF Move, Found, Finalized, Confirmed, Installed, ResetTriggered, Upgraded,
         BootstrapStarted, Applied, SystemWiped, ResetAnswered, Booted, Interrupted,
         Cycled, Restarted

\* Keys, hosts and configs are numbered as they come up.
HostIssued(n) == host[n].uid <= posts /\ host[n].pubKey <= posts

BoxIssued(b) ==
    /\ agent[b].key <= posts
    /\ disk[b].key <= posts
    /\ disk[b].bootstrap <= posts
    /\ disk[b].ran <= posts

Issued ==
    /\ \A n \in Names : Exists(n) => HostIssued(n)
    /\ \A b \in Boxes : BoxIssued(b)

\* A uid is that of one host.
OneUid == \A n, m \in Names : Exists(n) /\ Exists(m) /\ host[n].uid = host[m].uid => n = m

Holds(b, key) == key # 0 /\ key \in {agent[b].key, disk[b].key}

\* No two boxes have a key in common.
Apart == \A b, c \in Boxes, key \in Keys : Holds(b, key) /\ Holds(c, key) => b = c

\* A config that a box has, or has run, is that of a host it has the key of.
Configured(d, h) == h.uid \in {d.bootstrap, d.ran} => d.key = h.pubKey

\* A host reported as reset: no disk has its key, and an agent that has it still
\* has wiped its box and writes no disk with it.
ResetDone(d, a, h) == h.reset => d.key # h.pubKey /\ (a.key = h.pubKey => a.wiped)

Owned(d, a, h) == Configured(d, h) /\ ResetDone(d, a, h)

IdentityInv ==
    /\ \A b \in Boxes : Shape(disk[b], agent[b])
    /\ Issued
    /\ OneUid
    /\ Apart
    /\ \A b \in Boxes, n \in Names : Exists(n) => Owned(disk[b], agent[b], host[n])

\* A box after its step, and the others.
LEMMA Replaced ==
    ASSUME TypeOK, NEW b \in Boxes, NEW d, NEW a, Replaces(b, d, a)
    PROVE  /\ disk'[b] = d
           /\ agent'[b] = a
           /\ \A c \in Boxes \ {b} : disk'[c] = disk[c] /\ agent'[c] = agent[c]
BY DEF TypeOK, Replaces

\* The numbers in a state are naturals.
LEMMA Numbers ==
    ASSUME TypeOK
    PROVE  /\ posts \in Nat
           /\ \A b \in Boxes : /\ agent[b].key \in Nat
                               /\ disk[b].key \in Nat
                               /\ disk[b].bootstrap \in Nat
                               /\ disk[b].ran \in Nat
           /\ \A n \in Names : Exists(n) => /\ host[n] \in HostObject
                                            /\ host[n].uid \in Nat \ {0}
                                            /\ host[n].pubKey \in Nat \ {0}
BY ConstantsAssumption DEF TypeOK, Agent, Disk, HostObject, Keys, Configs, Exists

LEMMA IssuedKept ==
    ASSUME TypeOK, TypeOK', NEW b \in Boxes, NEW d, NEW a, Replaces(b, d, a), Move(b, d, a), Issued
    PROVE  Issued'
<1>1. KeysFrom(b, d, a)
  BY KeysMove
<1>2. ASSUME NEW n \in Names, Exists(n)' PROVE HostIssued(n)'
  <2>1. Kept(b, n) \/ New(b, a, n)
    BY <1>2, HostsAfter DEF Exists
  <2>2. CASE Kept(b, n)
    BY <1>1, <2>2, Numbers DEF Kept, HostIssued, Issued, KeysFrom
  <2>3. CASE New(b, a, n)
    BY <2>3, Numbers DEF New, HostIssued, Issued, BoxIssued
  <2> QED
    BY <2>1, <2>2, <2>3
<1>3. ASSUME NEW c \in Boxes PROVE BoxIssued(c)'
  <2>1. CASE c # b
    BY <1>1, <2>1, Replaced, Numbers DEF BoxIssued, Issued, KeysFrom
  <2>2. CASE c = b
    <3>1. Known(b) => Mine(b).uid \in Nat /\ Mine(b).uid <= posts
      BY KnownOK, Numbers DEF Issued, HostIssued, Known
    <3>2. BoxIssued(b) /\ posts <= posts'
      BY <1>1, Numbers DEF Issued, KeysFrom
    <3>3. a.key <= posts' /\ d.key <= posts' /\ d.ran <= posts' /\ d.bootstrap <= posts'
      BY <1>1, <3>1, <3>2, Numbers DEF BoxIssued, KeysFrom
    <3> QED
      BY <2>2, <3>3, Replaced DEF BoxIssued
  <2> QED
    BY <2>1, <2>2
<1> QED
  BY <1>2, <1>3 DEF Issued

LEMMA OneUidKept ==
    ASSUME TypeOK, NEW b \in Boxes, NEW d, NEW a, Replaces(b, d, a), Move(b, d, a),
           Issued, OneUid
    PROVE  OneUid'
<1> SUFFICES ASSUME NEW n \in Names, NEW m \in Names,
                    Exists(n)', Exists(m)', host'[n].uid = host'[m].uid
             PROVE  n = m
  BY DEF OneUid
<1>1. (Kept(b, n) \/ New(b, a, n)) /\ (Kept(b, m) \/ New(b, a, m))
  BY HostsAfter DEF Exists
<1>2. CASE Kept(b, n) /\ Kept(b, m)
  BY <1>2 DEF Kept, OneUid
<1>3. CASE Kept(b, n) /\ New(b, a, m)
  <2>1. host[n].uid <= posts /\ host[n].uid \in Nat /\ posts \in Nat
    BY <1>3, Numbers DEF Kept, Issued, HostIssued
  <2>2. host[n].uid = posts + 1
    BY <1>3 DEF Kept, New
  <2> QED
    BY <2>1, <2>2
<1>4. CASE New(b, a, n) /\ Kept(b, m)
  <2>1. host[m].uid <= posts /\ host[m].uid \in Nat /\ posts \in Nat
    BY <1>4, Numbers DEF Kept, Issued, HostIssued
  <2>2. host[m].uid = posts + 1
    BY <1>4 DEF Kept, New
  <2> QED
    BY <2>1, <2>2
<1>5. CASE New(b, a, n) /\ New(b, a, m)
  <2>1. posts' # posts
    BY <1>5, Numbers DEF New
  <2>2. Created(b, d, a)
    BY <2>1 DEF Move, Found, Finalized, Confirmed, Installed, InstalledReported,
           ResetTriggered, Upgraded, BootstrapStarted, BootstrappedReported, Applied,
           DeletedByAgent, SystemWiped, ResetReported, ResetAnswered, Booted, Interrupted,
           Cycled, Restarted, HostsKept, MineChanged
  <2>3. PICK p \in Names, key \in 1..MaxRegistrations : host' = [host EXCEPT ![p] = NewHost(key)]
    BY <2>2 DEF Created
  <2>4. p = n /\ p = m
    BY <1>5, <2>3 DEF New, Exists, TypeOK
  <2> QED
    BY <2>4
<1> QED
  BY <1>1, <1>2, <1>3, <1>4, <1>5

LEMMA ApartKept ==
    ASSUME TypeOK, TypeOK', NEW b \in Boxes, NEW d, NEW a, Replaces(b, d, a), Move(b, d, a),
           Issued, Apart
    PROVE  Apart'
<1>1. KeysFrom(b, d, a)
  BY KeysMove
<1>2. ASSUME NEW c \in Boxes \ {b}, NEW key \in Keys, Holds(c, key)', Holds(b, key)'
      PROVE  FALSE
  <2>1. Holds(c, key)
    BY <1>2, Replaced DEF Holds
  <2>2. key # 0 /\ key \in {a.key, d.key}
    BY <1>2, Replaced DEF Holds
  <2>3. Holds(b, key) \/ key = posts + 1
    BY <1>1, <2>2 DEF KeysFrom, Holds
  <2>4. key <= posts
    BY <2>1 DEF Holds, Issued, BoxIssued
  <2> QED
    BY <2>1, <2>3, <2>4, Numbers DEF Apart
<1>3. ASSUME NEW c \in Boxes \ {b}, NEW e \in Boxes \ {b}, NEW key \in Keys,
             Holds(c, key)', Holds(e, key)'
      PROVE  c = e
  BY <1>3, Replaced DEF Holds, Apart
<1> QED
  BY <1>2, <1>3 DEF Apart

\* A key changes on a disk only where no config is left, and a wiped box writes
\* none; an agent that goes on with the key of a wiped box knows that it is
\* wiped; a config is put on a disk that has the key of its host.
KeysBound(b, d, a) ==
    /\ d.key # disk[b].key => Clean(d)
    /\ d.key \in {0, disk[b].key} \/ (d.key = agent[b].key /\ ~agent[b].wiped)
    /\ \/ a.key \in {0, disk[b].key, posts + 1}
       \/ a.key = agent[b].key /\ (agent[b].wiped => a.wiped)
    /\ d.bootstrap \in {0, disk[b].bootstrap} \/ d.key = agent[b].key

LEMMA KeysBoundMove ==
    ASSUME TypeOK, NEW b \in Boxes, NEW d, NEW a, Replaces(b, d, a), Move(b, d, a),
           Shape(disk[b], agent[b])
    PROVE  KeysBound(b, d, a)
<1>1. disk[b] \in Disk /\ agent[b] \in Agent
  BY DEF TypeOK
<1> USE DEF Registering, Resetting, Acting
<1>2. CASE Found(b, d, a)
  BY <1>1, <1>2 DEF Found, At, KeysBound, Disk, Agent, Shape, Clean
<1>3. CASE Created(b, d, a)
  <2>1. PICK n \in PickedNames(b), key \in 1..MaxRegistrations :
          /\ key = IF agent[b].key = 0 THEN posts + 1 ELSE agent[b].key
          /\ \/ a = [agent[b] EXCEPT !.phase = "finalize", !.name = n, !.key = key]
             \/ a = [agent[b] EXCEPT !.key = key]
    BY <1>3 DEF Created
  <2>2. a.key = key /\ d = disk[b] /\ a.wiped = agent[b].wiped
    BY <1>1, <1>3, <2>1 DEF Created, Agent
  <2> QED
    BY <2>1, <2>2 DEF KeysBound
<1>4. CASE Finalized(b, d, a)
  <2>1. CASE Goes(b, a, "confirm") /\ d = disk[b]
    BY <1>1, <1>4, <2>1 DEF Goes, KeysBound, Agent
  <2>2. CASE Goes(b, a, "confirm") /\ agent[b].mode # "live" /\ d = Identified(b)
    BY <1>1, <1>4, <2>2
       DEF Finalized, At, Goes, Identified, KeysBound, Disk, Agent, Shape, Clean
  <2>3. CASE d = disk[b] /\ Exited(b, a)
    BY <1>1, <1>4, <2>3 DEF Finalized, Exited, Start, Off, KeysBound, Disk, Agent
  <2> QED
    BY <1>4, <2>1, <2>2, <2>3 DEF Finalized
<1>5. CASE Confirmed(b, d, a)
  BY <1>1, <1>5 DEF Confirmed, Goes, At, KeysBound, Disk, Agent, Shape, Clean
<1>6. CASE Installed(b, d, a)
  BY <1>1, <1>6 DEF Installed, Goes, Identified, At, KeysBound, Disk, Agent, Shape, Clean
<1>7. CASE InstalledReported(b, d, a)
  BY <1>1, <1>7 DEF InstalledReported, Posted, Goes, Off, At, KeysBound, Disk, Agent, Shape, Clean
<1>8. CASE ResetTriggered(b, d, a)
  BY <1>1, <1>8 DEF ResetTriggered, Running, Off, At, KeysBound, Disk, Agent, Shape, Clean
<1>9. CASE Upgraded(b, d, a)
  BY <1>1, <1>9 DEF Upgraded, Posted, Goes, Off, Running, At, KeysBound, Disk, Agent, Shape, Clean
<1>10. CASE BootstrapStarted(b, d, a)
  BY <1>1, <1>10 DEF BootstrapStarted, Goes, Running, At, KeysBound, Disk, Agent, Shape, Clean
<1>11. CASE BootstrappedReported(b, d, a)
  BY <1>1, <1>11 DEF BootstrappedReported, Goes, At, KeysBound, Disk, Agent, Shape, Clean
<1>12. CASE Applied(b, d, a)
  BY <1>1, <1>12 DEF Applied, Posted, Goes, Off, At, KeysBound, Disk, Agent, Shape, Clean
<1>13. CASE DeletedByAgent(b, d, a)
  BY <1>1, <1>13 DEF DeletedByAgent, Goes, At, KeysBound, Disk, Agent, Shape, Clean
<1>14. CASE SystemWiped(b, d, a)
  BY <1>1, <1>14 DEF SystemWiped, Goes, Wiped, At, KeysBound, Disk, Agent, Shape, Clean
<1>15. CASE ResetReported(b, d, a)
  BY <1>1, <1>15 DEF ResetReported, Goes, At, KeysBound, Disk, Agent, Shape, Clean
<1>16. CASE ResetAnswered(b, d, a)
  BY <1>1, <1>16 DEF ResetAnswered, Goes, Start, At, KeysBound, Disk, Agent, Shape, Clean
<1>17. CASE Booted(b, d, a)
  BY <1>1, <1>17 DEF Booted, Start, At, KeysBound, Disk, Agent, Shape, Clean
<1>18. CASE Interrupted(b, d, a)
  BY <1>1, <1>18 DEF Interrupted, At, KeysBound, Disk, Agent, Shape, Clean
<1>19. CASE Cycled(b, d, a)
  BY <1>1, <1>19 DEF Cycled, Off, At, KeysBound, Disk, Agent, Shape, Clean
<1>20. CASE Restarted(b, d, a)
  BY <1>1, <1>20 DEF Restarted, Exited, Start, Off, At, KeysBound, Disk, Agent, Shape, Clean
<1> QED
  BY <1>2, <1>3, <1>4, <1>5, <1>6, <1>7, <1>8, <1>9, <1>10, <1>11, <1>12, <1>13, <1>14, <1>15, <1>16, <1>17, <1>18, <1>19, <1>20 DEF Move

\* What box b has reported on or created belongs to no other box.
LEMMA Foreign ==
    ASSUME TypeOK, TypeOK', NEW b \in Boxes, NEW d, NEW a, Replaces(b, d, a), Issued, Apart,
           NEW c \in Boxes \ {b}
    PROVE  /\ Known(b) => Mine(b).pubKey \notin {agent[c].key, disk[c].key}
           /\ \A n \in Names : New(b, a, n) => host'[n].pubKey \notin {agent[c].key, disk[c].key}
<1>1. ASSUME NEW key \in Keys \ {0}, key \in {agent[b].key, posts + 1}
      PROVE  key \notin {agent[c].key, disk[c].key}
  BY <1>1, Numbers DEF Apart, Holds, Issued, BoxIssued
<1>2. Known(b) => Mine(b).pubKey \in Keys \ {0} /\ Mine(b).pubKey = agent[b].key
  BY KnownOK, ConstantsAssumption DEF HostObject, Keys
<1>3. \A n \in Names : New(b, a, n) => /\ host'[n].pubKey \in Keys \ {0}
                                       /\ host'[n].pubKey \in {agent[b].key, posts + 1}
  BY ConstantsAssumption DEF New, Keys
<1> QED
  BY <1>1, <1>2, <1>3

LEMMA OwnedKept ==
    ASSUME TypeOK, TypeOK', NEW b \in Boxes, NEW d, NEW a, Replaces(b, d, a), Move(b, d, a),
           IdentityInv, NEW c \in Boxes, NEW n \in Names, Exists(n)'
    PROVE  Owned(disk'[c], agent'[c], host'[n])
<1>1. Kept(b, n) \/ New(b, a, n)
  BY HostsAfter DEF Exists
<1>2. KeysFrom(b, d, a)
  BY KeysMove
<1>3. KeysBound(b, d, a)
  BY KeysBoundMove DEF IdentityInv
<1>4. CASE New(b, a, n)
  <2>1. Issued'
    BY IssuedKept DEF IdentityInv
  <2>2. host'[n].uid = posts + 1 /\ ~host'[n].reset
    BY <1>4 DEF New
  <2>3. host'[n].uid \notin {disk'[c].bootstrap, disk'[c].ran}
    <3>1. CASE c # b
      BY <2>2, <3>1, Replaced, Numbers DEF IdentityInv, Issued, BoxIssued
    <3>2. CASE c = b
      <4>1. Known(b) => Mine(b).uid <= posts /\ Mine(b).uid \in Nat
        BY KnownOK, Numbers DEF IdentityInv, Issued, HostIssued, Known
      <4>2. BoxIssued(b)
        BY DEF IdentityInv, Issued
      <4> QED
        BY <1>2, <2>2, <3>2, <4>1, <4>2, Replaced, Numbers DEF KeysFrom, BoxIssued
    <3> QED
      BY <3>1, <3>2
  <2> QED
    BY <2>2, <2>3 DEF Owned, Configured, ResetDone
<1>5. CASE Kept(b, n)
  <2>1. Owned(disk[c], agent[c], host[n]) /\ Exists(n)
    BY <1>5 DEF Kept, IdentityInv
  <2>2. CASE c # b
    <3>1. disk'[c] = disk[c] /\ agent'[c] = agent[c]
      BY <2>2, Replaced
    <3>2. host'[n].reset = host[n].reset \/ host[n].pubKey \notin {agent[c].key, disk[c].key}
      BY <1>5, <2>2, Foreign, KnownOK DEF Kept, IdentityInv
    <3> QED
      BY <1>5, <2>1, <3>1, <3>2 DEF Kept, Owned, Configured, ResetDone
  <2>3. CASE c = b
    <3>1. disk'[b] = d /\ agent'[b] = a
      BY Replaced
    <3>2. Owned(disk[b], agent[b], host[n]) /\ Shape(disk[b], agent[b])
      BY <2>1, <2>3 DEF IdentityInv
    <3>3. Configured(d, host'[n])
      <4>1. SUFFICES ASSUME host[n].uid \in {d.bootstrap, d.ran}
                     PROVE  d.key = host[n].pubKey
        BY <1>5 DEF Configured, Kept
      <4>2. host[n].uid # 0
        BY <2>1, Numbers
      <4>3. d.key = disk[b].key
        BY <1>3, <4>1, <4>2 DEF KeysBound, Clean
      <4>4. CASE host[n].uid \in {disk[b].bootstrap, disk[b].ran}
        BY <3>2, <4>3, <4>4 DEF Owned, Configured
      <4>5. CASE host[n].uid \notin {disk[b].bootstrap, disk[b].ran}
        <5>1. Known(b) /\ d.bootstrap = Mine(b).uid /\ host[n].uid = Mine(b).uid
              /\ d.key = agent[b].key
          BY <1>2, <1>3, <4>1, <4>2, <4>5 DEF KeysFrom, KeysBound
        <5>2. n = agent[b].name
          BY <2>1, <5>1, KnownOK DEF IdentityInv, OneUid, Known
        <5> QED
          BY <5>1, <5>2, KnownOK
      <4> QED
        BY <4>4, <4>5
    <3>4. ResetDone(d, a, host'[n])
      <4>1. CASE host[n].reset
        <5>1. /\ host[n].pubKey # 0 /\ host[n].pubKey # posts + 1
              /\ host'[n].pubKey = host[n].pubKey
          BY <1>5, <2>1, Numbers DEF Kept, IdentityInv, Issued, HostIssued
        <5>2. /\ disk[b].key # host[n].pubKey
              /\ agent[b].key = host[n].pubKey => agent[b].wiped
          BY <3>2, <4>1 DEF Owned, ResetDone
        <5> QED
          BY <1>3, <5>1, <5>2 DEF KeysBound, ResetDone
      <4>2. CASE ~host[n].reset /\ host'[n].reset
        <5>1. At(b, "reportReset") /\ Known(b) /\ n = agent[b].name
          BY <1>5, <4>2 DEF Kept
        <5>2. ResetReported(b, d, a)
          BY <4>2, <5>1 DEF At, Move, Found, Created, Finalized, Confirmed, Installed,
               InstalledReported, ResetTriggered, Upgraded, BootstrapStarted, Running,
               BootstrappedReported, Applied, DeletedByAgent, SystemWiped, ResetAnswered,
               Booted, Interrupted, Cycled, Restarted, HostsKept
        <5>3. agent[b].wiped /\ disk[b].key = 0
          BY <3>2, <5>1 DEF Shape, At
        <5>4. d.key = 0 /\ a.wiped
          BY <5>2, <5>3 DEF ResetReported, Goes, TypeOK, Agent
        <5>5. host'[n].pubKey # 0
          BY <1>5, <2>1, Numbers DEF Kept
        <5> QED
          BY <5>4, <5>5 DEF ResetDone
      <4>3. CASE ~host'[n].reset
        BY <4>3 DEF ResetDone
      <4> QED
        BY <4>1, <4>2, <4>3
    <3> QED
      BY <2>3, <3>1, <3>3, <3>4 DEF Owned
  <2> QED
    BY <2>2, <2>3
<1> QED
  BY <1>1, <1>4, <1>5

\* Controllers and users leave keys and configs alone.
LEMMA TendedIdentity ==
    ASSUME TypeOK, TypeOK', NEW n \in Names, HostStep(n), IdentityInv
    PROVE  IdentityInv'
<1>1. PICK h : Tended(n, h)
  BY HostStepTends
<1>2. disk' = disk /\ agent' = agent /\ posts' = posts
  BY HostStepTends
<1>3. ASSUME NEW m \in Names, Exists(m)'
      PROVE  /\ Exists(m)
             /\ host'[m].uid = host[m].uid
             /\ host'[m].pubKey = host[m].pubKey
             /\ host'[m].reset = host[m].reset
  <2>1. CASE m = n
    BY <1>1, <1>3, <2>1 DEF Tended, SameHost, Exists, TypeOK
  <2>2. CASE m # n
    BY <1>1, <1>3, <2>2 DEF Tended, Exists, TypeOK
  <2> QED
    BY <2>1, <2>2
<1>4. \A b \in Boxes : Shape(disk'[b], agent'[b])
  BY <1>2 DEF IdentityInv
<1>5. Issued' /\ OneUid'
  BY <1>2, <1>3 DEF IdentityInv, Issued, OneUid, HostIssued, BoxIssued
<1>6. Apart'
  BY <1>2 DEF IdentityInv, Apart, Holds
<1>7. \A b \in Boxes, m \in Names : Exists(m)' => Owned(disk'[b], agent'[b], host'[m])
  BY <1>2, <1>3 DEF IdentityInv, Owned, Configured, ResetDone
<1> QED
  BY <1>4, <1>5, <1>6, <1>7 DEF IdentityInv

LEMMA InitIdentity == Init => IdentityInv
<1> SUFFICES ASSUME Init PROVE IdentityInv
  OBVIOUS
<1>1. \A n \in Names : ~Exists(n)
  BY DEF Init, Exists
<1>2. \A b \in Boxes : disk[b] = BlankDisk /\ agent[b] = Off
  BY DEF Init
<1>3. /\ BlankDisk.key = 0 /\ BlankDisk.bootstrap = 0 /\ BlankDisk.ran = 0
      /\ ~BlankDisk.recovery
      /\ Off.phase = "off" /\ Off.key = 0 /\ ~Off.wiped
  BY DEF BlankDisk, Off
<1>4. \A b \in Boxes : Shape(disk[b], agent[b])
  BY <1>2, <1>3 DEF Shape, Clean, Registering, Resetting, Acting
<1>5. Issued /\ OneUid
  <2>1. posts = 0
    BY DEF Init
  <2> QED
    BY <1>1, <1>2, <1>3, <2>1 DEF Issued, OneUid, BoxIssued
<1>6. Apart
  BY <1>2, <1>3 DEF Apart, Holds
<1> QED
  BY <1>1, <1>4, <1>5, <1>6 DEF IdentityInv

LEMMA NextIdentity == TypeOK /\ TypeOK' /\ IdentityInv /\ [Next]_vars => IdentityInv'
<1> SUFFICES ASSUME TypeOK, TypeOK', IdentityInv, [Next]_vars PROVE IdentityInv'
  OBVIOUS
<1>1. ASSUME NEW b \in Boxes, BoxStep(b) PROVE IdentityInv'
  <2>1. PICK d, a : Replaces(b, d, a) /\ Move(b, d, a)
    BY <1>1, StepMoves
  <2>2. \A c \in Boxes : Shape(disk'[c], agent'[c])
    BY <2>1, ShapeKept, Replaced DEF IdentityInv
  <2>3. Issued' /\ OneUid' /\ Apart'
    BY <2>1, IssuedKept, OneUidKept, ApartKept DEF IdentityInv
  <2>4. \A c \in Boxes, n \in Names : Exists(n)' => Owned(disk'[c], agent'[c], host'[n])
    BY <2>1, OwnedKept
  <2> QED
    BY <2>2, <2>3, <2>4 DEF IdentityInv
<1>2. ASSUME NEW n \in Names, HostStep(n) PROVE IdentityInv'
  BY <1>2, TendedIdentity
<1>3. CASE UNCHANGED vars
  BY <1>3 DEF vars, IdentityInv, Issued, OneUid, Apart, HostIssued, BoxIssued, Holds, Exists
<1> QED
  BY <1>1, <1>2, <1>3 DEF Next, BoxStep, HostStep

LEMMA IdentityAlways == Spec => [](TypeOK /\ IdentityInv)
<1>1. TypeOK /\ IdentityInv /\ [Next]_vars => (TypeOK /\ IdentityInv)'
  BY NextType, NextIdentity
<1> QED
  BY InitType, InitIdentity, <1>1, PTL DEF Spec

\* An agent's request makes no host with a finalizer go away.
LEMMA FinalizerHolds ==
    ASSUME TypeOK, NEW b \in Boxes, NEW d, NEW a, Move(b, d, a),
           NEW n \in Names, Exists(n), host[n].finalizer
    PROVE  host'[n] # Absent
<1>1. host \in [Names -> HostObject \cup {Absent}] /\ host[n] # Absent /\ host[n] \in HostObject
  BY Numbers DEF TypeOK, Exists
<1>2. CASE HostsKept
  BY <1>1, <1>2 DEF HostsKept
<1>3. CASE Created(b, d, a)
  <2>1. PICK m \in Names, key \in 1..MaxRegistrations :
               ~Exists(m) /\ host' = [host EXCEPT ![m] = NewHost(key)]
    BY <1>3 DEF Created
  <2> QED
    BY <1>1, <2>1 DEF Exists
<1>4. ASSUME NEW object, MineChanged(b, object), n = agent[b].name => object # Absent
      PROVE  host'[n] # Absent
  BY <1>1, <1>4, KnownOK DEF MineChanged
<1>5. CASE InstalledReported(b, d, a)
  BY <1>4, <1>5, MineChangedOK, ConstantsAssumption DEF InstalledReported, MineChanged
<1>6. CASE BootstrappedReported(b, d, a)
  BY <1>2, <1>4, <1>6, MineChangedOK, ConstantsAssumption DEF BootstrappedReported, MineChanged
<1>7. CASE ResetReported(b, d, a)
  BY <1>2, <1>4, <1>7, MineChangedOK, ConstantsAssumption DEF ResetReported, MineChanged
<1>8. CASE DeletedByAgent(b, d, a)
  <2> DEFINE h == [Mine(b) EXCEPT !.deleting = TRUE]
  <2>1. MineChanged(b, Settled(h)) /\ Known(b)
    BY <1>8 DEF DeletedByAgent, MineChanged
  <2>2. h \in HostObject /\ h.finalizer = Mine(b).finalizer
    BY <2>1, KnownOK DEF HostObject
  <2>3. n = agent[b].name => Settled(h) # Absent
    <3> HIDE DEF h
    <3> QED
      BY <2>1, <2>2, KnownOK, SettledOK
  <2> QED
    BY <1>4, <2>1, <2>3
<1> QED
  BY <1>2, <1>3, <1>5, <1>6, <1>7, <1>8
     DEF Move, Found, Finalized, Confirmed, Installed, ResetTriggered, Upgraded,
         BootstrapStarted, Applied, SystemWiped, ResetAnswered, Booted, Interrupted,
         Cycled, Restarted

\* A host that was given its finalizer goes away only when no disk has its key,
\* its bootstrap config or what that config has set up, whatever fails and
\* whichever commands of the reset plan are repeated or die: resetLoop reports
\* the reset after Plugin.Reset, and no other agent has the key to report it.
THEOREM ResetBeforeGone == Spec => GoneOnlyWhenWiped
<1>1. ASSUME TypeOK, IdentityInv, [Next]_vars, NEW n \in Names, NEW b \in Boxes,
             Exists(n), host[n].finalizer, ~Exists(n)'
      PROVE  /\ disk[b].key # host[n].pubKey
             /\ host[n].uid \notin {disk[b].bootstrap, disk[b].ran}
  <2>1. host'[n] = Absent /\ host[n] # Absent
    BY <1>1 DEF Exists
  <2>2. host[n].reset
    <3>1. ASSUME NEW c \in Boxes, BoxStep(c) PROVE FALSE
      BY <1>1, <2>1, <3>1, StepMoves, FinalizerHolds
    <3>2. ASSUME NEW m \in Names, HostStep(m) PROVE host[n].reset
      <4>1. PICK h : Tended(m, h)
        BY <1>1, <3>2, HostStepTends
      <4> QED
        BY <1>1, <2>1, <4>1 DEF Tended, TypeOK
    <3>3. ~UNCHANGED vars
      BY <2>1 DEF vars
    <3> QED
      BY <1>1, <3>1, <3>2, <3>3 DEF Next, BoxStep, HostStep
  <2>3. Owned(disk[b], agent[b], host[n])
    BY <1>1 DEF IdentityInv
  <2> QED
    BY <2>2, <2>3 DEF Owned, Configured, ResetDone
<1>2. TypeOK /\ IdentityInv /\ [Next]_vars
        => \A n \in Names, b \in Boxes :
             (Exists(n) /\ host[n].finalizer /\ ~Exists(n)')
                 => /\ disk[b].key # host[n].pubKey
                    /\ host[n].uid \notin {disk[b].bootstrap, disk[b].ran}
  BY <1>1
<1> QED
  BY <1>2, IdentityAlways, PTL DEF Spec, GoneOnlyWhenWiped
-----------------------------------------------------------------------------
(* Names: which box may have which hostname.                               *)

\* The names a box has are the one that it is told, or random ones.
NamedBox(b, d, a) == Hostname[b] # Random => {d.name, a.name} \subseteq {None, Hostname[b]}

Named ==
    /\ \A b \in Boxes : NamedBox(b, disk[b], agent[b])
    /\ \A n \in RandomNames : n > posts => ~Exists(n)

\* The name a turn of the registration tries.
LEMMA PickedName ==
    ASSUME TypeOK, NEW b \in Boxes, NEW n \in PickedNames(b), n \in Names
    PROVE  \/ Hostname[b] = Random /\ n = posts + 1 /\ n \in RandomNames
           \/ Hostname[b] # Random /\ n = Hostname[b] /\ n \notin 1..(MaxRegistrations + 1)
<1>1. CASE Hostname[b] = Random
  <2>1. n = posts + 1 /\ RandomNames = 1..MaxRegistrations /\ n \in 1..(MaxRegistrations + 1)
    BY <1>1, ConstantsAssumption DEF PickedNames, RandomNames, TypeOK
  <2>2. \A c \in Boxes : Hostname[c] # Random => Hostname[c] # n
    BY <2>1, ConstantsAssumption
  <2> QED
    BY <1>1, <2>1, <2>2 DEF Names
<1>2. CASE Hostname[b] # Random
  BY <1>2, ConstantsAssumption DEF PickedNames
<1> QED
  BY <1>1, <1>2

\* Only a box with a hostname of its own finds its host there already.
LEMMA FoundName ==
    ASSUME TypeOK, Named, NEW b \in Boxes, NEW n \in PickedNames(b), Exists(n)
    PROVE  Hostname[b] # Random /\ n = Hostname[b]
<1>1. n \in Names
  BY DEF Exists
<1> QED
  BY <1>1, PickedName, Numbers DEF Named

LEMMA NamedBoxMove ==
    ASSUME TypeOK, NEW b \in Boxes, NEW d, NEW a, Replaces(b, d, a), Move(b, d, a),
           NamedBox(b, disk[b], agent[b])
    PROVE  NamedBox(b, d, a)
<1>1. disk[b] \in Disk /\ agent[b] \in Agent
  BY DEF TypeOK
<1>2. CASE Found(b, d, a)
  <2>1. PICK m \in PickedNames(b) : a = [agent[b] EXCEPT !.phase = "finalize", !.name = m]
    BY <1>2 DEF Found
  <2>2. Hostname[b] # Random => m = Hostname[b]
    BY DEF PickedNames
  <2>3. a.name = m
    BY <1>1, <2>1 DEF Agent
  <2> QED
    BY <1>2, <2>2, <2>3 DEF Found, NamedBox
<1>3. CASE Created(b, d, a)
  <2>1. PICK m \in PickedNames(b) : a.name \in {m, agent[b].name}
    BY <1>1, <1>3 DEF Created, Agent
  <2>2. Hostname[b] # Random => m = Hostname[b]
    BY DEF PickedNames
  <2> QED
    BY <1>3, <2>1, <2>2 DEF Created, NamedBox
<1>4. CASE Finalized(b, d, a)
  <2>1. CASE agent[b].mode = "live" /\ d = disk[b] /\ Goes(b, a, "confirm")
    BY <1>1, <1>4, <2>1 DEF Finalized, Goes, At, NamedBox, Disk, Agent
  <2>2. CASE agent[b].mode # "live" /\ d = Identified(b) /\ Goes(b, a, "confirm")
    BY <1>1, <1>4, <2>2 DEF Finalized, Goes, Identified, At, NamedBox, Disk, Agent
  <2>3. CASE d = disk[b] /\ Exited(b, a)
    BY <1>1, <1>4, <2>3 DEF Finalized, Exited, Start, Off, At, NamedBox, Disk, Agent
  <2> QED
    BY <1>4, <2>1, <2>2, <2>3 DEF Finalized
<1>5. CASE Confirmed(b, d, a)
  BY <1>1, <1>5 DEF Confirmed, Goes, At, NamedBox, Disk, Agent
<1>6. CASE Installed(b, d, a)
  BY <1>1, <1>6 DEF Installed, Goes, Identified, At, NamedBox, Disk, Agent
<1>7. CASE InstalledReported(b, d, a)
  BY <1>1, <1>7 DEF InstalledReported, Posted, Goes, Off, At, NamedBox, Disk, Agent
<1>8. CASE ResetTriggered(b, d, a)
  BY <1>1, <1>8 DEF ResetTriggered, Running, Off, At, NamedBox, Disk, Agent
<1>9. CASE Upgraded(b, d, a)
  BY <1>1, <1>9 DEF Upgraded, Posted, Goes, Off, Running, At, NamedBox, Disk, Agent
<1>10. CASE BootstrapStarted(b, d, a)
  BY <1>1, <1>10 DEF BootstrapStarted, Goes, Running, At, NamedBox, Disk, Agent
<1>11. CASE BootstrappedReported(b, d, a)
  BY <1>1, <1>11 DEF BootstrappedReported, Goes, At, NamedBox, Disk, Agent
<1>12. CASE Applied(b, d, a)
  BY <1>1, <1>12 DEF Applied, Posted, Goes, Off, At, NamedBox, Disk, Agent
<1>13. CASE DeletedByAgent(b, d, a)
  BY <1>1, <1>13 DEF DeletedByAgent, Goes, At, NamedBox, Disk, Agent
<1>14. CASE SystemWiped(b, d, a)
  BY <1>1, <1>14 DEF SystemWiped, Goes, Wiped, At, NamedBox, Disk, Agent
<1>15. CASE ResetReported(b, d, a)
  BY <1>1, <1>15 DEF ResetReported, Goes, At, NamedBox, Disk, Agent
<1>16. CASE ResetAnswered(b, d, a)
  BY <1>1, <1>16 DEF ResetAnswered, Goes, Start, At, NamedBox, Disk, Agent
<1>17. CASE Booted(b, d, a)
  BY <1>1, <1>17 DEF Booted, Start, At, NamedBox, Disk, Agent
<1>18. CASE Interrupted(b, d, a)
  BY <1>1, <1>18 DEF Interrupted, At, NamedBox, Disk, Agent
<1>19. CASE Cycled(b, d, a)
  BY <1>1, <1>19 DEF Cycled, Off, At, NamedBox, Disk, Agent
<1>20. CASE Restarted(b, d, a)
  BY <1>1, <1>20 DEF Restarted, Exited, Start, Off, At, NamedBox, Disk, Agent
<1> QED
  BY <1>2, <1>3, <1>4, <1>5, <1>6, <1>7, <1>8, <1>9, <1>10,
     <1>11, <1>12, <1>13, <1>14, <1>15, <1>16, <1>17, <1>18, <1>19, <1>20 DEF Move

LEMMA NamedKept ==
    ASSUME TypeOK, TypeOK', NEW b \in Boxes, NEW d, NEW a, Replaces(b, d, a), Move(b, d, a), Named
    PROVE  Named'
<1>1. \A c \in Boxes : NamedBox(c, disk'[c], agent'[c])
  BY NamedBoxMove, Replaced DEF Named
<1>2. ASSUME NEW n \in RandomNames, n > posts', Exists(n)' PROVE FALSE
  <2>1. n \in Names /\ n \in 1..MaxRegistrations
    BY DEF RandomNames, Names
  <2>2. Kept(b, n) \/ New(b, a, n)
    BY <1>2, <2>1, HostsAfter DEF Exists
  <2>3. CASE Kept(b, n)
    <3>1. ~(n > posts)
      BY <1>2, <2>3 DEF Kept, Named
    <3>2. posts' \in {posts, posts + 1}
      BY KeysMove DEF KeysFrom
    <3> QED
      BY <1>2, <2>1, <3>1, <3>2, Numbers
  <2>4. CASE New(b, a, n)
    BY <1>2, <2>1, <2>4, PickedName, Numbers, ConstantsAssumption DEF New
  <2> QED
    BY <2>2, <2>3, <2>4
<1> QED
  BY <1>1, <1>2 DEF Named

\* The disk speaks for host n.
IsHost(d, n, h) == d.name = n /\ d.key = h.pubKey
-----------------------------------------------------------------------------
(* A host on offer has a box that comes back as it.                        *)

\* A box that was not restarted is not installed twice, and one that was has a
\* key that is not on its disk; where the installation is over, the disk has the
\* agent's identity.
Return(d, a) ==
    /\ a.mode = "live" /\ a.phase \in Registering \ {"reportInstalled"} /\ d.os
         => "restart" \in FaultKinds /\ (a.key = 0 \/ a.key # d.key)
    /\ a.phase = "reportInstalled" => d.os /\ d.key = a.key /\ d.name = a.name
    /\ a.mode = "recovery" /\ a.phase \in {"confirm", "install"}
         => d.key = a.key /\ d.name = a.name

LEMMA ReturnKept ==
    ASSUME TypeOK, NEW b \in Boxes, NEW d, NEW a, Replaces(b, d, a), Move(b, d, a),
           Shape(disk[b], agent[b]), Return(disk[b], agent[b]), BoxIssued(b)
    PROVE  Return(d, a)
<1>1. disk[b] \in Disk /\ agent[b] \in Agent
  BY DEF TypeOK
<1>2. agent[b].key = 0 => posts + 1 # disk[b].key
  BY Numbers DEF BoxIssued
<1> USE DEF Registering, Resetting, Acting
<1>3. CASE Found(b, d, a)
  BY <1>1, <1>3 DEF Found, At, Shape, Return, Disk, Agent
<1>4. CASE Created(b, d, a)
  <2>1. PICK m \in PickedNames(b), key \in 1..MaxRegistrations :
          /\ m \in Names
          /\ key = IF agent[b].key = 0 THEN posts + 1 ELSE agent[b].key
          /\ \/ a = [agent[b] EXCEPT !.phase = "finalize", !.name = m, !.key = key]
             \/ a = [agent[b] EXCEPT !.key = key]
    BY <1>4 DEF Created
  <2>2. d = disk[b] /\ At(b, "register")
    BY <1>4 DEF Created
  <2>3. CASE a = [agent[b] EXCEPT !.phase = "finalize", !.name = m, !.key = key]
    BY <1>1, <1>2, <2>1, <2>2, <2>3 DEF At, Shape, Return, Disk, Agent
  <2>4. CASE a = [agent[b] EXCEPT !.key = key]
    BY <1>1, <1>2, <2>1, <2>2, <2>4 DEF At, Shape, Return, Disk, Agent
  <2> QED
    BY <2>1, <2>3, <2>4
<1>5. CASE Finalized(b, d, a)
  <2>1. CASE agent[b].mode = "live" /\ d = disk[b] /\ Goes(b, a, "confirm")
    BY <1>1, <1>5, <2>1 DEF Finalized, Goes, At, Shape, Return, Disk, Agent
  <2>2. CASE agent[b].mode # "live" /\ d = Identified(b) /\ Goes(b, a, "confirm")
    BY <1>1, <1>5, <2>2 DEF Finalized, Goes, Identified, At, Shape, Return, Disk, Agent
  <2>3. CASE d = disk[b] /\ Exited(b, a)
    BY <1>1, <1>5, <2>3 DEF Finalized, Exited, Start, Off, At, Shape, Return, Disk, Agent
  <2> QED
    BY <1>5, <2>1, <2>2, <2>3 DEF Finalized
<1>6. CASE Confirmed(b, d, a)
  BY <1>1, <1>6 DEF Confirmed, Goes, At, Shape, Return, Disk, Agent
<1>7. CASE Installed(b, d, a)
  BY <1>1, <1>7 DEF Installed, Goes, Identified, At, Shape, Return, Disk, Agent
<1>8. CASE InstalledReported(b, d, a)
  BY <1>1, <1>8 DEF InstalledReported, Posted, Goes, Off, At, Shape, Return, Disk, Agent
<1>9. CASE ResetTriggered(b, d, a)
  BY <1>1, <1>9 DEF ResetTriggered, Running, Off, At, Shape, Return, Disk, Agent
<1>10. CASE Upgraded(b, d, a)
  BY <1>1, <1>10 DEF Upgraded, Posted, Goes, Off, Running, At, Shape, Return, Disk, Agent
<1>11. CASE BootstrapStarted(b, d, a)
  BY <1>1, <1>11 DEF BootstrapStarted, Goes, Running, At, Shape, Return, Disk, Agent
<1>12. CASE BootstrappedReported(b, d, a)
  BY <1>1, <1>12 DEF BootstrappedReported, Goes, At, Shape, Return, Disk, Agent
<1>13. CASE Applied(b, d, a)
  BY <1>1, <1>13 DEF Applied, Posted, Goes, Off, At, Shape, Return, Disk, Agent
<1>14. CASE DeletedByAgent(b, d, a)
  BY <1>1, <1>14 DEF DeletedByAgent, Goes, At, Shape, Return, Disk, Agent
<1>15. CASE SystemWiped(b, d, a)
  BY <1>1, <1>15 DEF SystemWiped, Goes, Wiped, At, Shape, Return, Disk, Agent
<1>16. CASE ResetReported(b, d, a)
  BY <1>1, <1>16 DEF ResetReported, Goes, At, Shape, Return, Disk, Agent
<1>17. CASE ResetAnswered(b, d, a)
  BY <1>1, <1>17 DEF ResetAnswered, Goes, Start, At, Shape, Return, Disk, Agent
<1>18. CASE Booted(b, d, a)
  BY <1>1, <1>18 DEF Booted, Start, At, Shape, Return, Disk, Agent
<1>19. CASE Interrupted(b, d, a)
  BY <1>1, <1>19 DEF Interrupted, At, Shape, Return, Disk, Agent
<1>20. CASE Cycled(b, d, a)
  BY <1>1, <1>20 DEF Cycled, Off, At, Shape, Return, Disk, Agent
<1>21. CASE Restarted(b, d, a)
  BY <1>1, <1>21 DEF Restarted, Exited, Start, Off, At, Shape, Return, Disk, Agent
<1> QED
  BY <1>3, <1>4, <1>5, <1>6, <1>7, <1>8, <1>9, <1>10, <1>11,
     <1>12, <1>13, <1>14, <1>15, <1>16, <1>17, <1>18, <1>19, <1>20, <1>21 DEF Move

\* The disk of a box that is going to reset itself, or is about to register again.
Recovering(d, a) ==
    d.recovery \/ (a.mode = "recovery" /\ a.phase \in Resetting \cup {"register", "finalize"})

\* A box gets there only from its run loop, with its host to be reset.
LEMMA RecoveringMove ==
    ASSUME TypeOK, NEW b \in Boxes, NEW d, NEW a, Replaces(b, d, a), Move(b, d, a),
           Shape(disk[b], agent[b]), Recovering(d, a), d.key # 0
    PROVE  /\ d.key = disk[b].key
           /\ d.name = disk[b].name
           /\ ~At(b, "reportInstalled")
           /\ \/ Recovering(disk[b], agent[b])
              \/ /\ Known(b) /\ Mine(b).needsReset
                 /\ agent[b].key = disk[b].key /\ agent[b].name = disk[b].name
<1>1. disk[b] \in Disk /\ agent[b] \in Agent
  BY DEF TypeOK
<1> USE DEF Registering, Resetting, Acting
<1>2. CASE Found(b, d, a)
  BY <1>1, <1>2 DEF Found, At, Shape, Recovering, Disk, Agent
<1>3. CASE Created(b, d, a)
  <2>1. PICK m \in PickedNames(b), key \in 1..MaxRegistrations :
          /\ m \in Names
          /\ key = IF agent[b].key = 0 THEN posts + 1 ELSE agent[b].key
          /\ \/ a = [agent[b] EXCEPT !.phase = "finalize", !.name = m, !.key = key]
             \/ a = [agent[b] EXCEPT !.key = key]
    BY <1>3 DEF Created
  <2>2. d = disk[b] /\ At(b, "register")
    BY <1>3 DEF Created
  <2>3. CASE a = [agent[b] EXCEPT !.phase = "finalize", !.name = m, !.key = key]
    BY <1>1, <2>1, <2>2, <2>3 DEF At, Shape, Recovering, Disk, Agent
  <2>4. CASE a = [agent[b] EXCEPT !.key = key]
    BY <1>1, <2>1, <2>2, <2>4 DEF At, Shape, Recovering, Disk, Agent
  <2> QED
    BY <2>1, <2>3, <2>4
<1>4. CASE Finalized(b, d, a)
  <2>1. CASE agent[b].mode = "live" /\ d = disk[b] /\ Goes(b, a, "confirm")
    BY <1>1, <1>4, <2>1 DEF Finalized, Goes, At, Shape, Recovering, Disk, Agent
  <2>2. CASE agent[b].mode # "live" /\ d = Identified(b) /\ Goes(b, a, "confirm")
    BY <1>1, <1>4, <2>2 DEF Finalized, Goes, Identified, At, Shape, Recovering, Disk, Agent
  <2>3. CASE d = disk[b] /\ Exited(b, a)
    BY <1>1, <1>4, <2>3 DEF Finalized, Exited, Start, Off, At, Shape, Recovering, Disk, Agent
  <2> QED
    BY <1>4, <2>1, <2>2, <2>3 DEF Finalized
<1>5. CASE Confirmed(b, d, a)
  BY <1>1, <1>5 DEF Confirmed, Goes, At, Shape, Recovering, Disk, Agent
<1>6. CASE Installed(b, d, a)
  BY <1>1, <1>6 DEF Installed, Goes, Identified, At, Shape, Recovering, Disk, Agent
<1>7. CASE InstalledReported(b, d, a)
  BY <1>1, <1>7 DEF InstalledReported, Posted, Goes, Off, At, Shape, Recovering, Disk, Agent
<1>8. CASE ResetTriggered(b, d, a)
  BY <1>1, <1>8 DEF ResetTriggered, Running, Off, At, Shape, Recovering, Disk, Agent
<1>9. CASE Upgraded(b, d, a)
  BY <1>1, <1>9 DEF Upgraded, Posted, Goes, Off, Running, At, Shape, Recovering, Disk, Agent
<1>10. CASE BootstrapStarted(b, d, a)
  BY <1>1, <1>10 DEF BootstrapStarted, Goes, Running, At, Shape, Recovering, Disk, Agent
<1>11. CASE BootstrappedReported(b, d, a)
  BY <1>1, <1>11 DEF BootstrappedReported, Goes, At, Shape, Recovering, Disk, Agent
<1>12. CASE Applied(b, d, a)
  BY <1>1, <1>12 DEF Applied, Posted, Goes, Off, At, Shape, Recovering, Disk, Agent
<1>13. CASE DeletedByAgent(b, d, a)
  BY <1>1, <1>13 DEF DeletedByAgent, Goes, At, Shape, Recovering, Disk, Agent
<1>14. CASE SystemWiped(b, d, a)
  BY <1>1, <1>14 DEF SystemWiped, Goes, Wiped, At, Shape, Recovering, Disk, Agent
<1>15. CASE ResetReported(b, d, a)
  BY <1>1, <1>15 DEF ResetReported, Goes, At, Shape, Recovering, Disk, Agent
<1>16. CASE ResetAnswered(b, d, a)
  BY <1>1, <1>16 DEF ResetAnswered, Goes, Start, At, Shape, Recovering, Disk, Agent
<1>17. CASE Booted(b, d, a)
  BY <1>1, <1>17 DEF Booted, Start, At, Shape, Recovering, Disk, Agent
<1>18. CASE Interrupted(b, d, a)
  BY <1>1, <1>18 DEF Interrupted, At, Shape, Recovering, Disk, Agent
<1>19. CASE Cycled(b, d, a)
  BY <1>1, <1>19 DEF Cycled, Off, At, Shape, Recovering, Disk, Agent
<1>20. CASE Restarted(b, d, a)
  BY <1>1, <1>20 DEF Restarted, Exited, Start, Off, At, Shape, Recovering, Disk, Agent
<1> QED
  BY <1>2, <1>3, <1>4, <1>5, <1>6, <1>7, <1>8, <1>9, <1>10,
     <1>11, <1>12, <1>13, <1>14, <1>15, <1>16, <1>17, <1>18, <1>19, <1>20 DEF Move

\* What a step leaves of an installed system's identity.
LEMMA IdentityStays ==
    ASSUME TypeOK, NEW b \in Boxes, NEW d, NEW a, Replaces(b, d, a), Move(b, d, a),
           Shape(disk[b], agent[b]), Return(disk[b], agent[b]), disk[b].os,
           ~(At(b, "install") /\ agent[b].mode = "live")
    PROVE  \/ d.os /\ d.key = disk[b].key /\ d.name = disk[b].name
           \/ Recovering(disk[b], agent[b])
<1>1. disk[b] \in Disk /\ agent[b] \in Agent
  BY DEF TypeOK
<1> USE DEF Registering, Resetting, Acting
<1>2. CASE Found(b, d, a)
  BY <1>1, <1>2 DEF Found, At, Shape, Return, Recovering, Disk, Agent
<1>3. CASE Created(b, d, a)
  <2>1. PICK m \in PickedNames(b), key \in 1..MaxRegistrations :
          /\ m \in Names
          /\ key = IF agent[b].key = 0 THEN posts + 1 ELSE agent[b].key
          /\ \/ a = [agent[b] EXCEPT !.phase = "finalize", !.name = m, !.key = key]
             \/ a = [agent[b] EXCEPT !.key = key]
    BY <1>3 DEF Created
  <2>2. d = disk[b] /\ At(b, "register")
    BY <1>3 DEF Created
  <2>3. CASE a = [agent[b] EXCEPT !.phase = "finalize", !.name = m, !.key = key]
    BY <1>1, <2>1, <2>2, <2>3 DEF At, Shape, Return, Recovering, Disk, Agent
  <2>4. CASE a = [agent[b] EXCEPT !.key = key]
    BY <1>1, <2>1, <2>2, <2>4 DEF At, Shape, Return, Recovering, Disk, Agent
  <2> QED
    BY <2>1, <2>3, <2>4
<1>4. CASE Finalized(b, d, a)
  <2>1. CASE agent[b].mode = "live" /\ d = disk[b] /\ Goes(b, a, "confirm")
    BY <1>1, <1>4, <2>1 DEF Finalized, Goes, At, Shape, Return, Recovering, Disk, Agent
  <2>2. CASE agent[b].mode # "live" /\ d = Identified(b) /\ Goes(b, a, "confirm")
    BY <1>1, <1>4, <2>2 DEF Finalized, Goes, Identified, At, Shape, Return, Recovering, Disk, Agent
  <2>3. CASE d = disk[b] /\ Exited(b, a)
    BY <1>1, <1>4, <2>3 DEF Finalized, Exited, Start, Off, At, Shape, Return, Recovering, Disk, Agent
  <2> QED
    BY <1>4, <2>1, <2>2, <2>3 DEF Finalized
<1>5. CASE Confirmed(b, d, a)
  BY <1>1, <1>5 DEF Confirmed, Goes, At, Shape, Return, Recovering, Disk, Agent
<1>6. CASE Installed(b, d, a)
  BY <1>1, <1>6 DEF Installed, Goes, Identified, At, Shape, Return, Recovering, Disk, Agent
<1>7. CASE InstalledReported(b, d, a)
  BY <1>1, <1>7 DEF InstalledReported, Posted, Goes, Off, At, Shape, Return, Recovering, Disk, Agent
<1>8. CASE ResetTriggered(b, d, a)
  BY <1>1, <1>8 DEF ResetTriggered, Running, Off, At, Shape, Return, Recovering, Disk, Agent
<1>9. CASE Upgraded(b, d, a)
  BY <1>1, <1>9 DEF Upgraded, Posted, Goes, Off, Running, At, Shape, Return, Recovering, Disk, Agent
<1>10. CASE BootstrapStarted(b, d, a)
  BY <1>1, <1>10 DEF BootstrapStarted, Goes, Running, At, Shape, Return, Recovering, Disk, Agent
<1>11. CASE BootstrappedReported(b, d, a)
  BY <1>1, <1>11 DEF BootstrappedReported, Goes, At, Shape, Return, Recovering, Disk, Agent
<1>12. CASE Applied(b, d, a)
  BY <1>1, <1>12 DEF Applied, Posted, Goes, Off, At, Shape, Return, Recovering, Disk, Agent
<1>13. CASE DeletedByAgent(b, d, a)
  BY <1>1, <1>13 DEF DeletedByAgent, Goes, At, Shape, Return, Recovering, Disk, Agent
<1>14. CASE SystemWiped(b, d, a)
  BY <1>1, <1>14 DEF SystemWiped, Goes, Wiped, At, Shape, Return, Recovering, Disk, Agent
<1>15. CASE ResetReported(b, d, a)
  BY <1>1, <1>15 DEF ResetReported, Goes, At, Shape, Return, Recovering, Disk, Agent
<1>16. CASE ResetAnswered(b, d, a)
  BY <1>1, <1>16 DEF ResetAnswered, Goes, Start, At, Shape, Return, Recovering, Disk, Agent
<1>17. CASE Booted(b, d, a)
  BY <1>1, <1>17 DEF Booted, Start, At, Shape, Return, Recovering, Disk, Agent
<1>18. CASE Interrupted(b, d, a)
  BY <1>1, <1>18 DEF Interrupted, At, Shape, Return, Recovering, Disk, Agent
<1>19. CASE Cycled(b, d, a)
  BY <1>1, <1>19 DEF Cycled, Off, At, Shape, Return, Recovering, Disk, Agent
<1>20. CASE Restarted(b, d, a)
  BY <1>1, <1>20 DEF Restarted, Exited, Start, Off, At, Shape, Return, Recovering, Disk, Agent
<1> QED
  BY <1>2, <1>3, <1>4, <1>5, <1>6, <1>7, <1>8, <1>9, <1>10,
     <1>11, <1>12, <1>13, <1>14, <1>15, <1>16, <1>17, <1>18, <1>19, <1>20 DEF Move

\* A host whose box is going to reset itself, or has begun to, is not on offer.
Withdrawn(d, a, n, h) ==
    Recovering(d, a) /\ IsHost(d, n, h) /\ h.installed => h.needsReset

\* Live media about to install a box find no system on it that speaks for a host.
Reinstalling(a) == a.mode = "live" /\ a.phase \in {"finalize", "confirm", "install"}

Replaceable(d, a, n, h) == Reinstalling(a) /\ d.os => ~IsHost(d, n, h)

ReturnInv ==
    /\ Named
    /\ \A b \in Boxes : Return(disk[b], agent[b])
    /\ \A b \in Boxes, n \in Names : Exists(n) => Withdrawn(disk[b], agent[b], n, host[n])
    /\ \A b \in Boxes, n \in Names : Exists(n) => Replaceable(disk[b], agent[b], n, host[n])
    /\ AvailableCanReturn

\* No box is restarted, or none has random hostnames.
NamesOrNoRestarts ==
    "restart" \notin FaultKinds \/ \A b \in Boxes : Hostname[b] # Random

LEMMA ReinstallingMove ==
    ASSUME TypeOK, NEW b \in Boxes, NEW d, NEW a, Replaces(b, d, a), Move(b, d, a),
           Shape(disk[b], agent[b]), Reinstalling(a)
    PROVE  /\ d = disk[b]
           /\ agent[b].mode = "live"
           /\ \/ Reinstalling(agent[b])
              \/ Found(b, d, a)
              \/ Created(b, d, a)
<1>1. disk[b] \in Disk /\ agent[b] \in Agent
  BY DEF TypeOK
<1> USE DEF Registering, Resetting, Acting
<1>2. CASE Found(b, d, a)
  BY <1>1, <1>2 DEF Found, Reinstalling, Agent
<1>3. CASE Created(b, d, a)
  BY <1>1, <1>3 DEF Created, Reinstalling, Agent
<1>4. CASE Finalized(b, d, a)
  <2>1. CASE agent[b].mode = "live" /\ d = disk[b] /\ Goes(b, a, "confirm")
    BY <1>1, <1>4, <2>1 DEF Finalized, At, Reinstalling
  <2>2. CASE agent[b].mode # "live" /\ Goes(b, a, "confirm")
    BY <1>1, <2>2 DEF Goes, Reinstalling, Agent
  <2>3. CASE d = disk[b] /\ Exited(b, a)
    BY <1>1, <1>4, <2>3 DEF Finalized, Exited, Start, Off, At, Reinstalling, Agent
  <2> QED
    BY <1>4, <2>1, <2>2, <2>3 DEF Finalized
<1>5. CASE Confirmed(b, d, a)
  BY <1>1, <1>5 DEF Confirmed, Goes, At, Reinstalling, Agent
<1>6. CASE Installed(b, d, a) \/ InstalledReported(b, d, a)
  BY <1>1, <1>6 DEF Installed, InstalledReported, Posted, Goes, Off, At, Reinstalling, Agent
<1>7. CASE ResetTriggered(b, d, a) \/ Upgraded(b, d, a) \/ BootstrapStarted(b, d, a)
  BY <1>1, <1>7 DEF ResetTriggered, Upgraded, BootstrapStarted, Running, Posted, Goes, Off, At,
     Shape, Reinstalling, Agent
<1>8. CASE BootstrappedReported(b, d, a) \/ Applied(b, d, a)
  BY <1>1, <1>8 DEF BootstrappedReported, Applied, Posted, Goes, Off, At, Shape, Reinstalling,
     Agent
<1>9. CASE DeletedByAgent(b, d, a) \/ SystemWiped(b, d, a) \/ ResetReported(b, d, a)
  BY <1>1, <1>9 DEF DeletedByAgent, SystemWiped, ResetReported, Goes, At, Shape, Reinstalling,
     Agent
<1>10. CASE ResetAnswered(b, d, a) \/ Booted(b, d, a)
  <2>1. CASE ResetAnswered(b, d, a)
    BY <1>1, <2>1 DEF ResetAnswered, Start, Goes, Reinstalling, Agent
  <2>2. CASE Booted(b, d, a)
    BY <2>2 DEF Booted, Start, Reinstalling
  <2> QED
    BY <1>10, <2>1, <2>2
<1>11. CASE Interrupted(b, d, a) \/ Cycled(b, d, a)
  BY <1>1, <1>11 DEF Interrupted, Cycled, Off, At, Reinstalling, Agent
<1>12. CASE Restarted(b, d, a)
  BY <1>1, <1>12 DEF Restarted, Exited, Start, Off, Reinstalling, Agent
<1> QED
  BY <1>2, <1>3, <1>4, <1>5, <1>6, <1>7, <1>8, <1>9, <1>10, <1>11, <1>12 DEF Move

\* A box that was restarted registers under its hostname again, which it gets
\* only once the host it was installed as is gone.
LEMMA ReplaceableKept ==
    ASSUME TypeOK, TypeOK', NEW b \in Boxes, NEW d, NEW a, Replaces(b, d, a), Move(b, d, a),
           IdentityInv, ReturnInv, NamesOrNoRestarts, NEW c \in Boxes, NEW n \in Names, Exists(n)'
    PROVE  Replaceable(disk'[c], agent'[c], n, host'[n])
<1>1. Kept(b, n) \/ New(b, a, n)
  BY HostsAfter DEF Exists
<1>2. CASE c # b
  <2>1. disk'[c] = disk[c] /\ agent'[c] = agent[c]
    BY <1>2, Replaced
  <2>2. CASE Kept(b, n)
    BY <2>1, <2>2 DEF Kept, ReturnInv, Replaceable, IsHost
  <2>3. CASE New(b, a, n)
    BY <1>2, <2>1, <2>3, Foreign DEF IdentityInv, Replaceable, IsHost
  <2> QED
    BY <1>1, <2>2, <2>3
<1>3. CASE c = b
  <2>1. disk'[b] = d /\ agent'[b] = a
    BY Replaced
  <2>2. SUFFICES ASSUME Reinstalling(a), d.os, d.name = n, d.key = host'[n].pubKey
                 PROVE  FALSE
    BY <1>3, <2>1 DEF Replaceable, IsHost
  <2>3. d = disk[b] /\ agent[b].mode = "live"
    BY <2>2, ReinstallingMove DEF IdentityInv
  <2>4. Return(d, a)
    BY ReturnKept DEF IdentityInv, ReturnInv, Issued
  <2>5. CASE New(b, a, n)
    BY <2>2, <2>4, <2>5 DEF New, Return, Reinstalling, Registering
  <2>6. CASE Kept(b, n) /\ Reinstalling(agent[b])
    BY <2>2, <2>3, <2>6 DEF Kept, ReturnInv, Replaceable, IsHost
  <2>7. CASE Kept(b, n) /\ At(b, "register")
    <3>1. "restart" \in FaultKinds /\ (agent[b].key = 0 \/ agent[b].key # disk[b].key)
      BY <2>2, <2>3, <2>7 DEF ReturnInv, Return, At, Registering
    <3>2. n = Hostname[b] /\ PickedNames(b) = {n}
      BY <2>2, <2>3, <3>1, ConstantsAssumption
         DEF NamesOrNoRestarts, ReturnInv, Named, NamedBox, PickedNames
    <3>3. Exists(n) /\ host[n].pubKey = disk[b].key /\ host[n].pubKey # 0
      BY <2>2, <2>3, <2>7, Numbers DEF Kept
    <3>4. ~Found(b, d, a)
      BY <3>1, <3>2, <3>3 DEF Found
    <3>5. ~Created(b, d, a)
      BY <3>2, <3>3 DEF Created
    <3>6. ~Reinstalling(agent[b])
      BY <2>7 DEF Reinstalling, At
    <3> QED
      BY <2>2, <3>4, <3>5, <3>6, ReinstallingMove DEF IdentityInv
  <2>8. Reinstalling(agent[b]) \/ At(b, "register")
    BY <2>2, ReinstallingMove DEF IdentityInv, Found, Created
  <2> QED
    BY <1>1, <2>5, <2>6, <2>7, <2>8
<1> QED
  BY <1>2, <1>3

LEMMA WithdrawnKept ==
    ASSUME TypeOK, TypeOK', NEW b \in Boxes, NEW d, NEW a, Replaces(b, d, a), Move(b, d, a),
           IdentityInv, ReturnInv, NEW c \in Boxes, NEW n \in Names, Exists(n)'
    PROVE  Withdrawn(disk'[c], agent'[c], n, host'[n])
<1>1. Kept(b, n) \/ New(b, a, n)
  BY HostsAfter DEF Exists
<1>2. CASE New(b, a, n)
  BY <1>2 DEF New, Withdrawn
<1>3. CASE Kept(b, n)
  <2>1. Withdrawn(disk[c], agent[c], n, host[n]) /\ Exists(n) /\ host[n].pubKey # 0
    BY <1>3, Numbers DEF Kept, ReturnInv
  <2>2. CASE c # b
    <3>1. disk'[c] = disk[c] /\ agent'[c] = agent[c]
      BY <2>2, Replaced
    <3>2. host'[n].installed = host[n].installed \/ host[n].pubKey # disk[c].key
      BY <1>3, <2>2, Foreign, KnownOK DEF Kept, IdentityInv
    <3> QED
      BY <1>3, <2>1, <3>1, <3>2 DEF Kept, Withdrawn, IsHost
  <2>3. CASE c = b
    <3>1. disk'[b] = d /\ agent'[b] = a
      BY Replaced
    <3>2. SUFFICES ASSUME Recovering(d, a), IsHost(d, n, host[n]), host'[n].installed
                   PROVE  host[n].needsReset
      BY <1>3, <2>3, <3>1 DEF Kept, Withdrawn, IsHost
    <3>3. d.key # 0
      BY <2>1, <3>2 DEF IsHost
    <3>4. /\ d.key = disk[b].key
          /\ d.name = disk[b].name
          /\ ~At(b, "reportInstalled")
          /\ \/ Recovering(disk[b], agent[b])
             \/ /\ Known(b) /\ Mine(b).needsReset
                /\ agent[b].key = disk[b].key /\ agent[b].name = disk[b].name
      BY <3>2, <3>3, RecoveringMove DEF IdentityInv
    <3>5. host[n].installed /\ IsHost(disk[b], n, host[n])
      BY <1>3, <3>2, <3>4 DEF Kept, IsHost
    <3>6. CASE Recovering(disk[b], agent[b])
      BY <2>1, <2>3, <3>5, <3>6 DEF Withdrawn
    <3>7. CASE Known(b) /\ Mine(b).needsReset /\ agent[b].name = disk[b].name
      BY <3>5, <3>7 DEF IsHost, Mine
    <3> QED
      BY <3>4, <3>6, <3>7
  <2> QED
    BY <2>2, <2>3
<1> QED
  BY <1>1, <1>2, <1>3

Available(n) == Exists(n) /\ host[n].installed /\ ~host[n].needsReset /\ ~host[n].deleting

Returns(n, b) == disk[b].os /\ disk[b].key = host[n].pubKey /\ disk[b].name = n

LEMMA AvailableKept ==
    ASSUME TypeOK, TypeOK', NEW b \in Boxes, NEW d, NEW a, Replaces(b, d, a), Move(b, d, a),
           IdentityInv, ReturnInv, NEW n \in Names, Available(n)'
    PROVE  \E c \in Boxes : Returns(n, c)'
<1>1. Kept(b, n)
  <2>1. Kept(b, n) \/ New(b, a, n)
    BY HostsAfter DEF Available, Exists
  <2> QED
    BY <2>1 DEF New, Available
<1>2. CASE Available(n)
  <2>1. PICK c \in Boxes : Returns(n, c)
    BY <1>2 DEF ReturnInv, AvailableCanReturn, Available, Returns
  <2>2. CASE c # b
    BY <1>1, <2>1, <2>2, Replaced DEF Returns, Kept
  <2>3. CASE c = b
    <3>1. ~Recovering(disk[b], agent[b])
      BY <1>2, <2>1, <2>3 DEF Available, Returns, ReturnInv, Withdrawn, IsHost
    <3>2. ~(At(b, "install") /\ agent[b].mode = "live")
      BY <1>2, <2>1, <2>3 DEF Available, Returns, ReturnInv, Replaceable, Reinstalling, IsHost, At
    <3>3. d.os /\ d.key = disk[b].key /\ d.name = disk[b].name
      BY <2>1, <2>3, <3>1, <3>2, IdentityStays DEF Returns, ReturnInv, IdentityInv
    <3> QED
      BY <1>1, <2>1, <2>3, <3>3, Replaced DEF Returns, Kept
  <2> QED
    BY <2>2, <2>3
<1>3. CASE ~Available(n)
  <2>1. At(b, "reportInstalled") /\ Known(b) /\ n = agent[b].name /\ Exists(n)
    BY <1>1, <1>3 DEF Available, Kept
  <2>2. disk[b].os /\ disk[b].key = agent[b].key /\ disk[b].name = agent[b].name
    BY <2>1 DEF ReturnInv, Return, At
  <2>3. ~Recovering(disk[b], agent[b])
    BY <2>1 DEF IdentityInv, Shape, Recovering, At, Acting, Resetting
  <2>4. d.os /\ d.key = disk[b].key /\ d.name = disk[b].name
    BY <2>1, <2>2, <2>3, IdentityStays DEF ReturnInv, IdentityInv, At
  <2> QED
    BY <1>1, <2>1, <2>2, <2>4, Replaced, KnownOK DEF Returns, Kept
<1> QED
  BY <1>2, <1>3

\* Controllers and users put no host on offer and take no reset back.
LEMMA TendedReturn ==
    ASSUME TypeOK, NEW n \in Names, HostStep(n), ReturnInv
    PROVE  ReturnInv'
<1>1. PICK h : Tended(n, h)
  BY HostStepTends
<1>2. disk' = disk /\ agent' = agent
  BY HostStepTends
<1>3. ASSUME NEW m \in Names, Exists(m)'
      PROVE  /\ Exists(m)
             /\ host'[m].pubKey = host[m].pubKey
             /\ host'[m].installed = host[m].installed
             /\ host[m].needsReset => host'[m].needsReset
             /\ host[m].deleting => host'[m].deleting
  <2>1. CASE m = n
    BY <1>1, <1>3, <2>1 DEF Tended, SameHost, Exists, TypeOK
  <2>2. CASE m # n
    BY <1>1, <1>3, <2>2 DEF Tended, Exists, TypeOK
  <2> QED
    BY <2>1, <2>2
<1>4. \A b \in Boxes : Return(disk'[b], agent'[b])
  BY <1>2 DEF ReturnInv
<1>5. \A b \in Boxes, m \in Names : Exists(m)' => Withdrawn(disk'[b], agent'[b], m, host'[m])
  BY <1>2, <1>3 DEF ReturnInv, Withdrawn, IsHost
<1>6. \A b \in Boxes, m \in Names : Exists(m)' => Replaceable(disk'[b], agent'[b], m, host'[m])
  BY <1>2, <1>3 DEF ReturnInv, Replaceable, IsHost
<1>7. AvailableCanReturn'
  BY <1>2, <1>3 DEF ReturnInv, AvailableCanReturn
<1>8. Named'
  BY <1>2, <1>3, HostStepTends DEF ReturnInv, Named, Names
<1> QED
  BY <1>4, <1>5, <1>6, <1>7, <1>8 DEF ReturnInv

\* A host offered to machines always has a box with its key and name on the
\* disk, whatever fails, if the agent is not restarted or boxes are told their
\* hostnames.  (Live media whose agent is restarted after the installation
\* register once more, and with a random hostname they get a second host for the
\* box, which they install over the first.)
THEOREM AvailableHostsReturn ==
    ASSUME "restart" \notin FaultKinds \/ \A b \in Boxes : Hostname[b] # Random
    PROVE  Spec => []AvailableCanReturn
<1>1. NamesOrNoRestarts
  BY DEF NamesOrNoRestarts
<1>2. Init => ReturnInv
  <2> SUFFICES ASSUME Init PROVE ReturnInv
    OBVIOUS
  <2>1. \A n \in Names : ~Exists(n)
    BY DEF Init, Exists
  <2>2. \A b \in Boxes : agent[b] = Off /\ disk[b] = BlankDisk
    BY DEF Init
  <2>3. Off.phase = "off" /\ Off.name = None /\ BlankDisk.name = None
    BY DEF Off, BlankDisk
  <2>4. \A b \in Boxes : Return(disk[b], agent[b])
    BY <2>2, <2>3 DEF Return, Registering
  <2>5. Named
    BY <2>1, <2>2, <2>3 DEF Named, NamedBox, Names
  <2> QED
    BY <2>1, <2>4, <2>5 DEF ReturnInv, AvailableCanReturn
<1>3. TypeOK /\ TypeOK' /\ IdentityInv /\ ReturnInv /\ [Next]_vars => ReturnInv'
  <2> SUFFICES ASSUME TypeOK, TypeOK', IdentityInv, ReturnInv, [Next]_vars PROVE ReturnInv'
    OBVIOUS
  <2>1. ASSUME NEW b \in Boxes, BoxStep(b) PROVE ReturnInv'
    <3>1. PICK d, a : Replaces(b, d, a) /\ Move(b, d, a)
      BY <2>1, StepMoves
    <3>2. \A c \in Boxes : Return(disk'[c], agent'[c])
      BY <3>1, ReturnKept, Replaced DEF IdentityInv, ReturnInv, Issued
    <3>3. \A c \in Boxes, n \in Names : Exists(n)' => Withdrawn(disk'[c], agent'[c], n, host'[n])
      BY <3>1, WithdrawnKept
    <3>4. \A c \in Boxes, n \in Names : Exists(n)' => Replaceable(disk'[c], agent'[c], n, host'[n])
      BY <1>1, <3>1, ReplaceableKept
    <3>5. AvailableCanReturn'
      BY <3>1, AvailableKept DEF AvailableCanReturn, Available, Returns
    <3>6. Named'
      BY <3>1, NamedKept DEF ReturnInv
    <3> QED
      BY <3>2, <3>3, <3>4, <3>5, <3>6 DEF ReturnInv
  <2>2. ASSUME NEW n \in Names, HostStep(n) PROVE ReturnInv'
    BY <2>2, TendedReturn
  <2>3. CASE UNCHANGED vars
    BY <2>3 DEF vars, ReturnInv, AvailableCanReturn, Named, Exists
  <2> QED
    BY <2>1, <2>2, <2>3 DEF Next, BoxStep, HostStep
<1>4. ReturnInv => AvailableCanReturn
  BY DEF ReturnInv
<1> QED
  BY <1>2, <1>3, <1>4, IdentityAlways, PTL DEF Spec
-----------------------------------------------------------------------------
(* A host reported as bootstrapped has run its own config.                 *)

\* No config is left where a box registers.  Either the reset plan does not get
\* there without a wipe, or the config has been run when recovery was booted.
Emptied(d, a) ==
    /\ a.phase \in Registering => d.bootstrap = 0
    /\ "script" \notin FaultKinds /\ a.mode = "recovery" => d.bootstrap = 0

LEMMA EmptiedMove ==
    ASSUME TypeOK, NEW b \in Boxes, NEW d, NEW a, Replaces(b, d, a), Move(b, d, a),
           Shape(disk[b], agent[b]), Emptied(disk[b], agent[b]),
           "script" \notin FaultKinds \/ "planFails" \notin FaultKinds
    PROVE  Emptied(d, a)
<1>1. disk[b] \in Disk /\ agent[b] \in Agent
  BY DEF TypeOK
<1> USE DEF Registering, Resetting, Acting
<1>2. CASE Found(b, d, a)
  BY <1>1, <1>2 DEF Found, At, Shape, Clean, Emptied, Disk, Agent
<1>3. CASE Created(b, d, a)
  <2>1. PICK m \in PickedNames(b), key \in 1..MaxRegistrations :
          /\ m \in Names
          /\ key = IF agent[b].key = 0 THEN posts + 1 ELSE agent[b].key
          /\ \/ a = [agent[b] EXCEPT !.phase = "finalize", !.name = m, !.key = key]
             \/ a = [agent[b] EXCEPT !.key = key]
    BY <1>3 DEF Created
  <2>2. d = disk[b] /\ At(b, "register")
    BY <1>3 DEF Created
  <2>3. CASE a = [agent[b] EXCEPT !.phase = "finalize", !.name = m, !.key = key]
    BY <1>1, <2>1, <2>2, <2>3 DEF At, Shape, Clean, Emptied, Disk, Agent
  <2>4. CASE a = [agent[b] EXCEPT !.key = key]
    BY <1>1, <2>1, <2>2, <2>4 DEF At, Shape, Clean, Emptied, Disk, Agent
  <2> QED
    BY <2>1, <2>3, <2>4
<1>4. CASE Finalized(b, d, a)
  <2>1. CASE agent[b].mode = "live" /\ d = disk[b] /\ Goes(b, a, "confirm")
    BY <1>1, <1>4, <2>1 DEF Finalized, Goes, At, Shape, Clean, Emptied, Disk, Agent
  <2>2. CASE agent[b].mode # "live" /\ d = Identified(b) /\ Goes(b, a, "confirm")
    BY <1>1, <1>4, <2>2 DEF Finalized, Goes, Identified, At, Shape, Clean, Emptied, Disk, Agent
  <2>3. CASE d = disk[b] /\ Exited(b, a)
    BY <1>1, <1>4, <2>3 DEF Finalized, Exited, Start, Off, At, Shape, Clean, Emptied, Disk, Agent
  <2> QED
    BY <1>4, <2>1, <2>2, <2>3 DEF Finalized
<1>5. CASE Confirmed(b, d, a)
  BY <1>1, <1>5 DEF Confirmed, Goes, At, Shape, Clean, Emptied, Disk, Agent
<1>6. CASE Installed(b, d, a)
  BY <1>1, <1>6 DEF Installed, Goes, Identified, At, Shape, Clean, Emptied, Disk, Agent
<1>7. CASE InstalledReported(b, d, a)
  BY <1>1, <1>7 DEF InstalledReported, Posted, Goes, Off, At, Shape, Clean, Emptied, Disk, Agent
<1>8. CASE ResetTriggered(b, d, a)
  BY <1>1, <1>8 DEF ResetTriggered, Running, Off, At, Shape, Clean, Emptied, Disk, Agent
<1>9. CASE Upgraded(b, d, a)
  BY <1>1, <1>9 DEF Upgraded, Posted, Goes, Off, Running, At, Shape, Clean, Emptied, Disk, Agent
<1>10. CASE BootstrapStarted(b, d, a)
  BY <1>1, <1>10 DEF BootstrapStarted, Goes, Running, At, Shape, Clean, Emptied, Disk, Agent
<1>11. CASE BootstrappedReported(b, d, a)
  BY <1>1, <1>11 DEF BootstrappedReported, Goes, At, Shape, Clean, Emptied, Disk, Agent
<1>12. CASE Applied(b, d, a)
  BY <1>1, <1>12 DEF Applied, Posted, Goes, Off, At, Shape, Clean, Emptied, Disk, Agent
<1>13. CASE DeletedByAgent(b, d, a)
  BY <1>1, <1>13 DEF DeletedByAgent, Goes, At, Shape, Clean, Emptied, Disk, Agent
<1>14. CASE SystemWiped(b, d, a)
  BY <1>1, <1>14 DEF SystemWiped, Goes, Wiped, At, Shape, Clean, Emptied, Disk, Agent
<1>15. CASE ResetReported(b, d, a)
  BY <1>1, <1>15 DEF ResetReported, Goes, At, Shape, Clean, Emptied, Disk, Agent
<1>16. CASE ResetAnswered(b, d, a)
  BY <1>1, <1>16 DEF ResetAnswered, Goes, Start, At, Shape, Clean, Emptied, Disk, Agent
<1>17. CASE Booted(b, d, a)
  BY <1>1, <1>17 DEF Booted, Start, At, Shape, Clean, Emptied, Disk, Agent
<1>18. CASE Interrupted(b, d, a)
  BY <1>1, <1>18 DEF Interrupted, At, Shape, Clean, Emptied, Disk, Agent
<1>19. CASE Cycled(b, d, a)
  BY <1>1, <1>19 DEF Cycled, Off, At, Shape, Clean, Emptied, Disk, Agent
<1>20. CASE Restarted(b, d, a)
  BY <1>1, <1>20 DEF Restarted, Exited, Start, Off, At, Shape, Clean, Emptied, Disk, Agent
<1> QED
  BY <1>2, <1>3, <1>4, <1>5, <1>6, <1>7, <1>8, <1>9, <1>10,
     <1>11, <1>12, <1>13, <1>14, <1>15, <1>16, <1>17, <1>18, <1>19, <1>20 DEF Move

\* The config on the disk of host n, and the one it has run in this boot or
\* before it was reported, are its own.  What registers again as a bootstrapped
\* host does so with the key and the name that are on the disk.
OwnConfig(d, a, n, h) ==
    /\ IsHost(d, n, h) /\ d.bootstrap # 0 => d.bootstrap = h.uid
    /\ IsHost(d, n, h) /\ a.mode = "active" /\ a.sentinel => d.ran = h.uid
    /\ IsHost(d, n, h) /\ h.bootstrapped => d.ran = h.uid
    /\ a.phase \in Registering /\ a.key = h.pubKey /\ h.bootstrapped
         => a.mode = "recovery" /\ d.key = a.key
    /\ a.phase = "finalize" /\ a.key = h.pubKey /\ a.name = n /\ h.bootstrapped => d.name = n

ConfigInv ==
    /\ Named
    /\ \A b \in Boxes : Emptied(disk[b], agent[b])
    /\ \A b \in Boxes, n \in Names : Exists(n) => OwnConfig(disk[b], agent[b], n, host[n])

\* A step of a box, seen from a host that stays as it is.
LEMMA OwnConfigMove ==
    ASSUME TypeOK, NEW b \in Boxes, NEW d, NEW a, Replaces(b, d, a), Move(b, d, a),
           IdentityInv, ConfigInv, NEW n \in Names, Exists(n)
    PROVE  OwnConfig(d, a, n, host[n])
<1>1. /\ disk[b] \in Disk /\ agent[b] \in Agent
      /\ Shape(disk[b], agent[b])
      /\ Emptied(disk[b], agent[b])
      /\ OwnConfig(disk[b], agent[b], n, host[n])
      /\ host[n].pubKey # 0 /\ host[n].pubKey # posts + 1
  BY Numbers DEF TypeOK, IdentityInv, ConfigInv, Issued, HostIssued
<1> USE DEF Registering, Resetting, Acting
<1>2. CASE Found(b, d, a)
  <2>1. PICK m \in PickedNames(b) :
          Exists(m) /\ a = [agent[b] EXCEPT !.phase = "finalize", !.name = m]
    BY <1>2 DEF Found
  <2>2. d = disk[b] /\ agent[b].phase = "register"
    BY <1>2 DEF Found, At
  <2>3. Hostname[b] # Random /\ m = Hostname[b]
    BY <2>1, FoundName DEF ConfigInv
  <2>4. disk[b].key # 0 => disk[b].name = m
    BY <1>1, <2>3, ConstantsAssumption DEF ConfigInv, Named, NamedBox, Shape
  <2> QED
    BY <1>1, <2>1, <2>2, <2>4 DEF OwnConfig, IsHost, Agent
<1>3. CASE Created(b, d, a)
  <2>1. PICK m \in PickedNames(b), key \in 1..MaxRegistrations :
          /\ ~Exists(m)
          /\ key = IF agent[b].key = 0 THEN posts + 1 ELSE agent[b].key
          /\ \/ a = [agent[b] EXCEPT !.phase = "finalize", !.name = m, !.key = key]
             \/ a = [agent[b] EXCEPT !.key = key]
    BY <1>3 DEF Created
  <2>2. d = disk[b] /\ agent[b].phase = "register" /\ m # n
    BY <1>3, <2>1 DEF Created, At
  <2>3. CASE a = [agent[b] EXCEPT !.phase = "finalize", !.name = m, !.key = key]
    BY <1>1, <2>1, <2>2, <2>3 DEF OwnConfig, IsHost, Agent
  <2>4. CASE a = [agent[b] EXCEPT !.key = key]
    BY <1>1, <2>1, <2>2, <2>4 DEF OwnConfig, IsHost, Agent
  <2> QED
    BY <2>1, <2>3, <2>4
<1>4. CASE Finalized(b, d, a)
  <2>1. CASE agent[b].mode = "live" /\ d = disk[b] /\ Goes(b, a, "confirm")
    BY <1>1, <1>4, <2>1 DEF Finalized, Goes, At, Shape, Clean, Emptied, OwnConfig, IsHost, Disk, Agent
  <2>2. CASE agent[b].mode # "live" /\ d = Identified(b) /\ Goes(b, a, "confirm")
    BY <1>1, <1>4, <2>2 DEF Finalized, Goes, Identified, At, Shape, Clean, Emptied, OwnConfig, IsHost, Disk, Agent
  <2>3. CASE d = disk[b] /\ Exited(b, a)
    BY <1>1, <1>4, <2>3 DEF Finalized, Exited, Start, Off, At, Shape, Clean, Emptied, OwnConfig, IsHost, Disk, Agent
  <2> QED
    BY <1>4, <2>1, <2>2, <2>3 DEF Finalized
<1>5. CASE Confirmed(b, d, a)
  BY <1>1, <1>5 DEF Confirmed, Goes, At, Shape, Clean, Emptied, OwnConfig, IsHost, Disk, Agent
<1>6. CASE Installed(b, d, a)
  BY <1>1, <1>6 DEF Installed, Goes, Identified, At, Shape, Clean, Emptied, OwnConfig, IsHost, Disk, Agent
<1>7. CASE InstalledReported(b, d, a)
  BY <1>1, <1>7 DEF InstalledReported, Posted, Goes, Off, At, Shape, Clean, Emptied, OwnConfig, IsHost, Disk, Agent
<1>8. CASE ResetTriggered(b, d, a)
  BY <1>1, <1>8 DEF ResetTriggered, Running, Off, At, Shape, Clean, Emptied, OwnConfig, IsHost, Disk, Agent
<1>9. CASE Upgraded(b, d, a)
  BY <1>1, <1>9 DEF Upgraded, Posted, Goes, Off, Running, At, Shape, Clean, Emptied, OwnConfig, IsHost, Disk, Agent
<1>10. CASE BootstrapStarted(b, d, a)
  BY <1>1, <1>10 DEF BootstrapStarted, Goes, Running, At, Shape, Clean, Emptied, OwnConfig, IsHost, Disk, Agent
<1>11. CASE BootstrappedReported(b, d, a)
  BY <1>1, <1>11 DEF BootstrappedReported, Goes, At, Shape, Clean, Emptied, OwnConfig, IsHost, Disk, Agent
<1>12. CASE Applied(b, d, a)
  <2>1. CASE d = disk[b] /\ Goes(b, a, "run")
    BY <1>1, <1>12, <2>1 DEF Applied, At, Goes, Shape, OwnConfig, IsHost, Agent
  <2>2. CASE Known(b) /\ d = [disk[b] EXCEPT !.bootstrap = Mine(b).uid] /\ Posted(b, a)
    <3>1. agent[b].name = disk[b].name /\ agent[b].phase = "bootstrap" /\ agent[b].mode = "active"
      BY <1>1, <1>12 DEF Applied, At, Shape
    <3>2. IsHost(d, n, host[n]) => Mine(b).uid = host[n].uid
      BY <1>1, <2>2, <3>1 DEF IsHost, Mine, Disk
    <3> QED
      BY <1>1, <2>2, <3>1, <3>2 DEF Posted, Goes, Off, OwnConfig, IsHost, Disk, Agent
  <2> QED
    BY <1>12, <2>1, <2>2 DEF Applied
<1>13. CASE DeletedByAgent(b, d, a)
  BY <1>1, <1>13 DEF DeletedByAgent, Goes, At, Shape, Clean, Emptied, OwnConfig, IsHost, Disk, Agent
<1>14. CASE SystemWiped(b, d, a)
  BY <1>1, <1>14 DEF SystemWiped, Goes, Wiped, At, Shape, Clean, Emptied, OwnConfig, IsHost, Disk, Agent
<1>15. CASE ResetReported(b, d, a)
  BY <1>1, <1>15 DEF ResetReported, Goes, At, Shape, Clean, Emptied, OwnConfig, IsHost, Disk, Agent
<1>16. CASE ResetAnswered(b, d, a)
  BY <1>1, <1>16 DEF ResetAnswered, Goes, Start, At, Shape, Clean, Emptied, OwnConfig, IsHost, Disk, Agent
<1>17. CASE Booted(b, d, a)
  BY <1>1, <1>17 DEF Booted, Start, At, Shape, Clean, Emptied, OwnConfig, IsHost, Disk, Agent
<1>18. CASE Interrupted(b, d, a)
  BY <1>1, <1>18 DEF Interrupted, At, Shape, Clean, Emptied, OwnConfig, IsHost, Disk, Agent
<1>19. CASE Cycled(b, d, a)
  BY <1>1, <1>19 DEF Cycled, Off, At, Shape, Clean, Emptied, OwnConfig, IsHost, Disk, Agent
<1>20. CASE Restarted(b, d, a)
  BY <1>1, <1>20 DEF Restarted, Exited, Start, Off, At, Shape, Clean, Emptied, OwnConfig, IsHost, Disk, Agent
<1> QED
  BY <1>2, <1>3, <1>4, <1>5, <1>6, <1>7, <1>8, <1>9, <1>10,
     <1>11, <1>12, <1>13, <1>14, <1>15, <1>16, <1>17, <1>18, <1>19, <1>20 DEF Move

LEMMA OwnConfigKept ==
    ASSUME TypeOK, TypeOK', NEW b \in Boxes, NEW d, NEW a, Replaces(b, d, a), Move(b, d, a),
           IdentityInv, IdentityInv', ConfigInv, NEW c \in Boxes, NEW n \in Names, Exists(n)'
    PROVE  OwnConfig(disk'[c], agent'[c], n, host'[n])
<1>1. Kept(b, n) \/ New(b, a, n)
  BY HostsAfter DEF Exists
<1>2. CASE c # b /\ New(b, a, n)
  <2>1. host'[n].pubKey \notin {agent[c].key, disk[c].key}
    BY <1>2, Foreign DEF IdentityInv
  <2> QED
    BY <1>2, <2>1, Replaced DEF OwnConfig, IsHost
<1>3. CASE c # b /\ Kept(b, n)
  <2>1. disk'[c] = disk[c] /\ agent'[c] = agent[c] /\ OwnConfig(disk[c], agent[c], n, host[n])
    BY <1>3, Replaced DEF Kept, ConfigInv
  <2>2. \/ host'[n].bootstrapped = host[n].bootstrapped
        \/ host[n].pubKey \notin {agent[c].key, disk[c].key}
    BY <1>3, Foreign, KnownOK DEF Kept, IdentityInv
  <2> QED
    BY <1>3, <2>1, <2>2 DEF Kept, OwnConfig, IsHost
<1>4. CASE c = b /\ New(b, a, n)
  <2>1. agent[b].phase = "register" /\ posts' # posts
    BY <1>4, Numbers DEF New, At
  <2>2. Created(b, d, a)
    BY <2>1 DEF Move, Found, Finalized, Confirmed, Installed, InstalledReported,
           ResetTriggered, Upgraded, BootstrapStarted, BootstrappedReported, Applied,
           DeletedByAgent, SystemWiped, ResetReported, ResetAnswered, Booted, Interrupted,
           Cycled, Restarted, HostsKept, MineChanged
  <2>3. d = disk[b] /\ a.mode = agent[b].mode
    BY <2>2 DEF Created, TypeOK, Agent
  <2>4. d.bootstrap = 0 /\ a.mode # "active"
    BY <2>1, <2>3 DEF ConfigInv, Emptied, IdentityInv, Shape, Registering
  <2> QED
    BY <1>4, <2>4, Replaced DEF New, OwnConfig
<1>5. CASE c = b /\ Kept(b, n)
  <2>1. OwnConfig(d, a, n, host[n]) /\ disk'[b] = d /\ agent'[b] = a
    BY <1>5, OwnConfigMove, Replaced DEF Kept
  <2>2. CASE host'[n].bootstrapped = host[n].bootstrapped
    BY <1>5, <2>1, <2>2 DEF Kept, OwnConfig, IsHost
  <2>3. CASE host'[n].bootstrapped # host[n].bootstrapped
    <3>1. At(b, "bootstrap") /\ agent[b].sentinel /\ Known(b) /\ n = agent[b].name
      BY <1>5, <2>3 DEF Kept
    <3>2. agent[b].mode = "active" /\ agent[b].key = disk[b].key /\ agent[b].name = disk[b].name
      BY <3>1 DEF IdentityInv, Shape, At, Acting
    <3>3. disk[b].ran = host[n].uid
      BY <1>5, <3>1, <3>2, KnownOK DEF ConfigInv, OwnConfig, IsHost, Kept
    <3>4. BootstrappedReported(b, d, a)
      BY <2>3, <3>1 DEF At, Move, Found, Created, Finalized, Confirmed, Installed,
           InstalledReported, ResetTriggered, Upgraded, BootstrapStarted, Running, Applied,
           DeletedByAgent, SystemWiped, ResetReported, ResetAnswered, Booted, Interrupted,
           Cycled, Restarted, HostsKept
    <3>5. d = disk[b] /\ a.phase = "run"
      BY <3>4 DEF BootstrappedReported, Goes, TypeOK, Agent
    <3> QED
      BY <1>5, <2>1, <3>3, <3>5 DEF Kept, OwnConfig, IsHost, Registering
  <2> QED
    BY <2>2, <2>3
<1> QED
  BY <1>1, <1>2, <1>3, <1>4, <1>5

\* Controllers and users touch no config of a box.
LEMMA TendedConfig ==
    ASSUME TypeOK, NEW n \in Names, HostStep(n), ConfigInv
    PROVE  ConfigInv'
<1>1. PICK h : Tended(n, h)
  BY HostStepTends
<1>2. disk' = disk /\ agent' = agent /\ posts' = posts
  BY HostStepTends
<1>3. ASSUME NEW m \in Names, Exists(m)'
      PROVE  /\ Exists(m)
             /\ host'[m].uid = host[m].uid
             /\ host'[m].pubKey = host[m].pubKey
             /\ host'[m].bootstrapped = host[m].bootstrapped
  <2>1. CASE m = n
    BY <1>1, <1>3, <2>1 DEF Tended, SameHost, Exists, TypeOK
  <2>2. CASE m # n
    BY <1>1, <1>3, <2>2 DEF Tended, Exists, TypeOK
  <2> QED
    BY <2>1, <2>2
<1>4. Named'
  BY <1>2, <1>3 DEF ConfigInv, Named, Names
<1>5. \A b \in Boxes, m \in Names : Exists(m)' => OwnConfig(disk'[b], agent'[b], m, host'[m])
  BY <1>2, <1>3 DEF ConfigInv, OwnConfig, IsHost
<1> QED
  BY <1>2, <1>4, <1>5 DEF ConfigInv

\* A host that was reported as bootstrapped has run the config meant for it, in
\* every sequence of registrations, resets, power cycles and restarts, if
\* bootstrap configs do not fail or the commands of the reset plan do not die.
\* (When a config fails twice, the plan's first command dies and a new host is
\* registered for the box, the new host is reported for the old one's config.)
THEOREM BootstrappedAfterOwnConfig ==
    ASSUME "script" \notin FaultKinds \/ "planFails" \notin FaultKinds
    PROVE  Spec => []BootstrappedRanItsConfig
<1>1. Init => ConfigInv
  <2> SUFFICES ASSUME Init PROVE ConfigInv
    OBVIOUS
  <2>1. \A n \in Names : ~Exists(n)
    BY DEF Init, Exists
  <2>2. \A b \in Boxes : agent[b] = Off /\ disk[b] = BlankDisk
    BY DEF Init
  <2>3. Off.name = None /\ BlankDisk.name = None /\ BlankDisk.bootstrap = 0
    BY DEF Off, BlankDisk
  <2> QED
    BY <2>1, <2>2, <2>3 DEF ConfigInv, Named, NamedBox, Emptied, Names
<1>2. TypeOK /\ TypeOK' /\ IdentityInv /\ IdentityInv' /\ ConfigInv /\ [Next]_vars => ConfigInv'
  <2> SUFFICES ASSUME TypeOK, TypeOK', IdentityInv, IdentityInv', ConfigInv, [Next]_vars
               PROVE  ConfigInv'
    OBVIOUS
  <2>1. ASSUME NEW b \in Boxes, BoxStep(b) PROVE ConfigInv'
    <3>1. PICK d, a : Replaces(b, d, a) /\ Move(b, d, a)
      BY <2>1, StepMoves
    <3>2. Named'
      BY <3>1, NamedKept DEF ConfigInv
    <3>3. \A c \in Boxes : Emptied(disk'[c], agent'[c])
      BY <3>1, EmptiedMove, Replaced DEF IdentityInv, ConfigInv
    <3>4. \A c \in Boxes, n \in Names : Exists(n)' => OwnConfig(disk'[c], agent'[c], n, host'[n])
      BY <3>1, OwnConfigKept
    <3> QED
      BY <3>2, <3>3, <3>4 DEF ConfigInv
  <2>2. ASSUME NEW n \in Names, HostStep(n) PROVE ConfigInv'
    BY <2>2, TendedConfig
  <2>3. CASE UNCHANGED vars
    BY <2>3 DEF vars, ConfigInv, Named, Exists
  <2> QED
    BY <2>1, <2>2, <2>3 DEF Next, BoxStep, HostStep
<1>3. ConfigInv => BootstrappedRanItsConfig
  BY DEF ConfigInv, OwnConfig, IsHost, BootstrappedRanItsConfig
<1> QED
  BY <1>1, <1>2, <1>3, IdentityAlways, PTL DEF Spec
-----------------------------------------------------------------------------
(* A bootstrap config is not run twice.                                    *)

\* A box reboots into recovery only for a host that is to be reset.  A host that
\* has run its config knows it by the sentinel or is to be reset, and a box
\* registers again as such a host only under the name that is on its disk.
RanOnce(d, a, n, h) ==
    /\ d.recovery /\ IsHost(d, n, h) => h.needsReset
    /\ IsHost(d, n, h) /\ d.ran = h.uid
         => h.needsReset \/ (a.mode = "active" /\ a.sentinel)
    /\ a.phase = "bootstrap" /\ IsHost(d, n, h) /\ d.ran = h.uid => a.sentinel
    /\ a.phase = "finalize" /\ a.key = h.pubKey /\ a.name = n /\ d.ran = h.uid => d.name = n

\* Nothing runs on a box that is off, and no config waits there that has run.
Pending(d, a) ==
    /\ a.phase = "off" => a.mode = "live"
    /\ d.bootstrap # 0 => d.bootstrap # d.ran

OnceInv ==
    /\ Named
    /\ \A b \in Boxes : Pending(disk[b], agent[b])
    /\ \A b \in Boxes, n \in Names : Exists(n) => RanOnce(disk[b], agent[b], n, host[n])

\* A step of a box, seen from a host that stays as it is.
LEMMA RanOnceMove ==
    ASSUME TypeOK, NEW b \in Boxes, NEW d, NEW a, Replaces(b, d, a), Move(b, d, a),
           IdentityInv, OnceInv, NEW n \in Names, Exists(n),
           "powerCycle" \notin FaultKinds, MaxVersions = 0
    PROVE  RanOnce(d, a, n, host[n])
<1>1. /\ disk[b] \in Disk /\ agent[b] \in Agent
      /\ Shape(disk[b], agent[b])
      /\ Pending(disk[b], agent[b])
      /\ RanOnce(disk[b], agent[b], n, host[n])
      /\ Configured(disk[b], host[n])
      /\ host[n].pubKey # 0 /\ host[n].uid # 0
  BY Numbers DEF TypeOK, IdentityInv, OnceInv, Owned
<1> USE DEF Registering, Resetting, Acting
<1>2. CASE Found(b, d, a)
  <2>1. PICK m \in PickedNames(b) :
          Exists(m) /\ a = [agent[b] EXCEPT !.phase = "finalize", !.name = m]
    BY <1>2 DEF Found
  <2>2. d = disk[b] /\ agent[b].phase = "register"
    BY <1>2 DEF Found, At
  <2>3. Hostname[b] # Random /\ m = Hostname[b]
    BY <2>1, FoundName DEF OnceInv
  <2>4. disk[b].key # 0 => disk[b].name = m
    BY <1>1, <2>3, ConstantsAssumption DEF OnceInv, Named, NamedBox, Shape
  <2> QED
    BY <1>1, <2>1, <2>2, <2>4 DEF RanOnce, IsHost, Configured, Agent
<1>3. CASE Created(b, d, a)
  <2>1. PICK m \in PickedNames(b), key \in 1..MaxRegistrations :
          /\ ~Exists(m)
          /\ \/ a = [agent[b] EXCEPT !.phase = "finalize", !.name = m, !.key = key]
             \/ a = [agent[b] EXCEPT !.key = key]
    BY <1>3 DEF Created
  <2>2. d = disk[b] /\ agent[b].phase = "register" /\ m # n
    BY <1>3, <2>1 DEF Created, At
  <2>3. CASE a = [agent[b] EXCEPT !.phase = "finalize", !.name = m, !.key = key]
    BY <1>1, <2>1, <2>2, <2>3 DEF RanOnce, IsHost, Agent
  <2>4. CASE a = [agent[b] EXCEPT !.key = key]
    BY <1>1, <2>1, <2>2, <2>4 DEF RanOnce, IsHost, Agent
  <2> QED
    BY <2>1, <2>3, <2>4
<1>4. CASE Finalized(b, d, a)
  <2>1. CASE agent[b].mode = "live" /\ d = disk[b] /\ Goes(b, a, "confirm")
    BY <1>1, <1>4, <2>1 DEF Finalized, Goes, At, Shape, Clean, Pending, Configured, RanOnce, IsHost, Disk, Agent
  <2>2. CASE agent[b].mode # "live" /\ d = Identified(b) /\ Goes(b, a, "confirm")
    BY <1>1, <1>4, <2>2 DEF Finalized, Goes, Identified, At, Shape, Clean, Pending, Configured, RanOnce, IsHost, Disk, Agent
  <2>3. CASE d = disk[b] /\ Exited(b, a)
    BY <1>1, <1>4, <2>3 DEF Finalized, Exited, Start, Off, At, Shape, Clean, Pending, Configured, RanOnce, IsHost, Disk, Agent
  <2> QED
    BY <1>4, <2>1, <2>2, <2>3 DEF Finalized
<1>5. CASE Confirmed(b, d, a)
  BY <1>1, <1>5 DEF Confirmed, Goes, At, Shape, Clean, Pending, Configured, RanOnce, IsHost, Disk, Agent
<1>6. CASE Installed(b, d, a)
  BY <1>1, <1>6 DEF Installed, Goes, Identified, At, Shape, Clean, Pending, Configured, RanOnce, IsHost, Disk, Agent
<1>7. CASE InstalledReported(b, d, a)
  BY <1>1, <1>7 DEF InstalledReported, Posted, Goes, Off, At, Shape, Clean, Pending, Configured, RanOnce, IsHost, Disk, Agent
<1>8. CASE ResetTriggered(b, d, a)
  <2>1. IsHost(d, n, host[n]) => host[n].needsReset
    BY <1>1, <1>8 DEF ResetTriggered, Running, At, Shape, IsHost, Mine, Disk
  <2> QED
    BY <1>1, <1>8, <2>1 DEF ResetTriggered, Running, At, Off, RanOnce, IsHost, Disk, Agent
<1>9. CASE Upgraded(b, d, a)
  <2>1. Mine(b).version = 0
    BY <1>9, KnownOK DEF Upgraded, Running, HostObject
  <2> QED
    BY <1>9, <2>1 DEF Upgraded, NeedsUpgrade
<1>10. CASE BootstrapStarted(b, d, a)
  <2>1. IsHost(disk[b], n, host[n]) => ~host[n].needsReset
    BY <1>1, <1>10 DEF BootstrapStarted, Running, At, Shape, IsHost, Mine
  <2> QED
    BY <1>1, <1>10, <2>1 DEF BootstrapStarted, Goes, RanOnce, IsHost, Agent
<1>11. CASE BootstrappedReported(b, d, a)
  BY <1>1, <1>11 DEF BootstrappedReported, Goes, At, Shape, Clean, Pending, Configured, RanOnce, IsHost, Disk, Agent
<1>12. CASE Applied(b, d, a)
  BY <1>1, <1>12 DEF Applied, Posted, Goes, Off, At, Shape, Clean, Pending, Configured, RanOnce, IsHost, Disk, Agent
<1>13. CASE DeletedByAgent(b, d, a)
  BY <1>1, <1>13 DEF DeletedByAgent, Goes, At, Shape, Clean, Pending, Configured, RanOnce, IsHost, Disk, Agent
<1>14. CASE SystemWiped(b, d, a)
  BY <1>1, <1>14 DEF SystemWiped, Goes, Wiped, At, Shape, Clean, Pending, Configured, RanOnce, IsHost, Disk, Agent
<1>15. CASE ResetReported(b, d, a)
  BY <1>1, <1>15 DEF ResetReported, Goes, At, Shape, Clean, Pending, Configured, RanOnce, IsHost, Disk, Agent
<1>16. CASE ResetAnswered(b, d, a)
  BY <1>1, <1>16 DEF ResetAnswered, Goes, Start, At, Shape, Clean, Pending, Configured, RanOnce, IsHost, Disk, Agent
<1>17. CASE Booted(b, d, a)
  BY <1>1, <1>17 DEF Booted, Start, At, Shape, Clean, Pending, Configured, RanOnce, IsHost, Disk, Agent
<1>18. CASE Interrupted(b, d, a)
  BY <1>1, <1>18 DEF Interrupted, At, Shape, Clean, Pending, Configured, RanOnce, IsHost, Disk, Agent
<1>19. CASE Cycled(b, d, a)
  BY <1>1, <1>19 DEF Cycled, Off, At, Shape, Clean, Pending, Configured, RanOnce, IsHost, Disk, Agent
<1>20. CASE Restarted(b, d, a)
  BY <1>1, <1>20 DEF Restarted, Exited, Start, Off, At, Shape, Clean, Pending, Configured, RanOnce, IsHost, Disk, Agent
<1> QED
  BY <1>2, <1>3, <1>4, <1>5, <1>6, <1>7, <1>8, <1>9, <1>10,
     <1>11, <1>12, <1>13, <1>14, <1>15, <1>16, <1>17, <1>18, <1>19, <1>20 DEF Move

LEMMA PendingMove ==
    ASSUME TypeOK, NEW b \in Boxes, NEW d, NEW a, Replaces(b, d, a), Move(b, d, a),
           IdentityInv, OnceInv, "powerCycle" \notin FaultKinds
    PROVE  Pending(d, a)
<1>1. /\ disk[b] \in Disk /\ agent[b] \in Agent
      /\ Shape(disk[b], agent[b])
      /\ Pending(disk[b], agent[b])
  BY DEF TypeOK, IdentityInv, OnceInv
<1> USE DEF Registering, Resetting, Acting
<1>2. CASE Found(b, d, a)
  BY <1>1, <1>2 DEF Found, At, Shape, Clean, Pending, Disk, Agent
<1>3. CASE Created(b, d, a)
  <2>1. PICK m \in PickedNames(b), key \in 1..MaxRegistrations :
          /\ m \in Names
          /\ key = IF agent[b].key = 0 THEN posts + 1 ELSE agent[b].key
          /\ \/ a = [agent[b] EXCEPT !.phase = "finalize", !.name = m, !.key = key]
             \/ a = [agent[b] EXCEPT !.key = key]
    BY <1>3 DEF Created
  <2>2. d = disk[b] /\ At(b, "register")
    BY <1>3 DEF Created
  <2>3. CASE a = [agent[b] EXCEPT !.phase = "finalize", !.name = m, !.key = key]
    BY <1>1, <2>1, <2>2, <2>3 DEF At, Shape, Clean, Pending, Disk, Agent
  <2>4. CASE a = [agent[b] EXCEPT !.key = key]
    BY <1>1, <2>1, <2>2, <2>4 DEF At, Shape, Clean, Pending, Disk, Agent
  <2> QED
    BY <2>1, <2>3, <2>4
<1>4. CASE Finalized(b, d, a)
  <2>1. CASE agent[b].mode = "live" /\ d = disk[b] /\ Goes(b, a, "confirm")
    BY <1>1, <1>4, <2>1 DEF Finalized, Goes, At, Shape, Clean, Pending, Disk, Agent
  <2>2. CASE agent[b].mode # "live" /\ d = Identified(b) /\ Goes(b, a, "confirm")
    BY <1>1, <1>4, <2>2 DEF Finalized, Goes, Identified, At, Shape, Clean, Pending, Disk, Agent
  <2>3. CASE d = disk[b] /\ Exited(b, a)
    BY <1>1, <1>4, <2>3 DEF Finalized, Exited, Start, Off, At, Shape, Clean, Pending, Disk, Agent
  <2> QED
    BY <1>4, <2>1, <2>2, <2>3 DEF Finalized
<1>5. CASE Confirmed(b, d, a)
  BY <1>1, <1>5 DEF Confirmed, Goes, At, Shape, Clean, Pending, Disk, Agent
<1>6. CASE Installed(b, d, a)
  BY <1>1, <1>6 DEF Installed, Goes, Identified, At, Shape, Clean, Pending, Disk, Agent
<1>7. CASE InstalledReported(b, d, a)
  BY <1>1, <1>7 DEF InstalledReported, Posted, Goes, Off, At, Shape, Clean, Pending, Disk, Agent
<1>8. CASE ResetTriggered(b, d, a)
  BY <1>1, <1>8 DEF ResetTriggered, Running, Off, At, Shape, Clean, Pending, Disk, Agent
<1>9. CASE Upgraded(b, d, a)
  BY <1>1, <1>9 DEF Upgraded, Posted, Goes, Off, Running, At, Shape, Clean, Pending, Disk, Agent
<1>10. CASE BootstrapStarted(b, d, a)
  BY <1>1, <1>10 DEF BootstrapStarted, Goes, Running, At, Shape, Clean, Pending, Disk, Agent
<1>11. CASE BootstrappedReported(b, d, a)
  BY <1>1, <1>11 DEF BootstrappedReported, Goes, At, Shape, Clean, Pending, Disk, Agent
<1>12. CASE Applied(b, d, a)
  <2>1. CASE d = disk[b] /\ Goes(b, a, "run")
    BY <1>1, <1>12, <2>1 DEF Applied, At, Goes, Pending, Agent
  <2>2. CASE Known(b) /\ d = [disk[b] EXCEPT !.bootstrap = Mine(b).uid] /\ Posted(b, a)
    <3>1. /\ agent[b].name = disk[b].name /\ agent[b].key = disk[b].key
          /\ agent[b].phase = "bootstrap" /\ ~agent[b].sentinel
      BY <1>1, <1>12 DEF Applied, At, Shape
    <3>2. RanOnce(disk[b], agent[b], agent[b].name, Mine(b))
      BY <2>2, KnownOK DEF OnceInv, Known
    <3>3. disk[b].ran # Mine(b).uid
      BY <2>2, <3>1, <3>2, KnownOK DEF RanOnce, IsHost
    <3> QED
      BY <1>1, <2>2, <3>1, <3>3 DEF Posted, Goes, Off, Pending, Disk, Agent
  <2> QED
    BY <1>12, <2>1, <2>2 DEF Applied
<1>13. CASE DeletedByAgent(b, d, a)
  BY <1>1, <1>13 DEF DeletedByAgent, Goes, At, Shape, Clean, Pending, Disk, Agent
<1>14. CASE SystemWiped(b, d, a)
  BY <1>1, <1>14 DEF SystemWiped, Goes, Wiped, At, Shape, Clean, Pending, Disk, Agent
<1>15. CASE ResetReported(b, d, a)
  BY <1>1, <1>15 DEF ResetReported, Goes, At, Shape, Clean, Pending, Disk, Agent
<1>16. CASE ResetAnswered(b, d, a)
  BY <1>1, <1>16 DEF ResetAnswered, Goes, Start, At, Shape, Clean, Pending, Disk, Agent
<1>17. CASE Booted(b, d, a)
  BY <1>1, <1>17 DEF Booted, Start, At, Shape, Clean, Pending, Disk, Agent
<1>18. CASE Interrupted(b, d, a)
  BY <1>1, <1>18 DEF Interrupted, At, Shape, Clean, Pending, Disk, Agent
<1>19. CASE Cycled(b, d, a)
  BY <1>1, <1>19 DEF Cycled, Off, At, Shape, Clean, Pending, Disk, Agent
<1>20. CASE Restarted(b, d, a)
  BY <1>1, <1>20 DEF Restarted, Exited, Start, Off, At, Shape, Clean, Pending, Disk, Agent
<1> QED
  BY <1>2, <1>3, <1>4, <1>5, <1>6, <1>7, <1>8, <1>9, <1>10,
     <1>11, <1>12, <1>13, <1>14, <1>15, <1>16, <1>17, <1>18, <1>19, <1>20 DEF Move

LEMMA RanOnceKept ==
    ASSUME TypeOK, TypeOK', NEW b \in Boxes, NEW d, NEW a, Replaces(b, d, a), Move(b, d, a),
           IdentityInv, IdentityInv', OnceInv, "powerCycle" \notin FaultKinds, MaxVersions = 0,
           NEW c \in Boxes, NEW n \in Names, Exists(n)'
    PROVE  RanOnce(disk'[c], agent'[c], n, host'[n])
<1>1. Kept(b, n) \/ New(b, a, n)
  BY HostsAfter DEF Exists
<1>2. CASE c # b /\ Kept(b, n)
  <2>1. disk'[c] = disk[c] /\ agent'[c] = agent[c] /\ RanOnce(disk[c], agent[c], n, host[n])
    BY <1>2, Replaced DEF Kept, OnceInv
  <2> QED
    BY <1>2, <2>1 DEF Kept, RanOnce, IsHost
<1>3. CASE c = b /\ Kept(b, n)
  <2>1. disk'[b] = d /\ agent'[b] = a /\ RanOnce(d, a, n, host[n])
    BY <1>3, Replaced, RanOnceMove DEF Kept
  <2> QED
    BY <1>3, <2>1 DEF Kept, RanOnce, IsHost
<1>4. CASE New(b, a, n)
  <2>1. posts' # posts /\ agent[b].phase = "register"
    BY <1>4, Numbers DEF New, At
  <2>2. Created(b, d, a)
    BY <2>1 DEF Move, Found, Finalized, Confirmed, Installed, InstalledReported,
           ResetTriggered, Upgraded, BootstrapStarted, BootstrappedReported, Applied,
           DeletedByAgent, SystemWiped, ResetReported, ResetAnswered, Booted, Interrupted,
           Cycled, Restarted, HostsKept, MineChanged
  <2>3. d = disk[b]
    BY <2>2 DEF Created
  <2>4. disk'[c] = disk[c]
    BY <2>3, Replaced
  <2>5. host'[n].uid # disk[c].ran
    BY <1>4, Numbers DEF New, IdentityInv, Issued, BoxIssued
  <2>6. disk[c].recovery => ~IsHost(disk[c], n, host'[n])
    <3>1. CASE c = b
      BY <2>1, <3>1 DEF IdentityInv, Shape, Acting
    <3>2. CASE c # b
      BY <1>4, <3>2, Foreign DEF IdentityInv, IsHost
    <3> QED
      BY <3>1, <3>2
  <2> QED
    BY <2>4, <2>5, <2>6 DEF RanOnce
<1> QED
  BY <1>1, <1>2, <1>3, <1>4

\* Controllers and users take no reset back.
LEMMA TendedOnce ==
    ASSUME TypeOK, NEW n \in Names, HostStep(n), OnceInv
    PROVE  OnceInv'
<1>1. PICK h : Tended(n, h)
  BY HostStepTends
<1>2. disk' = disk /\ agent' = agent /\ posts' = posts
  BY HostStepTends
<1>3. ASSUME NEW m \in Names, Exists(m)'
      PROVE  /\ Exists(m)
             /\ host'[m].uid = host[m].uid
             /\ host'[m].pubKey = host[m].pubKey
             /\ host[m].needsReset => host'[m].needsReset
  <2>1. CASE m = n
    BY <1>1, <1>3, <2>1 DEF Tended, SameHost, Exists, TypeOK
  <2>2. CASE m # n
    BY <1>1, <1>3, <2>2 DEF Tended, Exists, TypeOK
  <2> QED
    BY <2>1, <2>2
<1>4. Named'
  BY <1>2, <1>3 DEF OnceInv, Named, Names
<1>5. \A b \in Boxes, m \in Names : Exists(m)' => RanOnce(disk'[b], agent'[b], m, host'[m])
  BY <1>2, <1>3 DEF OnceInv, RanOnce, IsHost
<1> QED
  BY <1>2, <1>4, <1>5 DEF OnceInv

\* No bootstrap config is left for the next boot that the system has run already,
\* whatever fails but the power, if no OS version is asked for: the sentinel in
\* /run tells the handler, and nothing else reboots a box with the sentinel that
\* is not going to be reset.
THEOREM BootstrapRunsOnce ==
    ASSUME "powerCycle" \notin FaultKinds, MaxVersions = 0
    PROVE  Spec => []BootstrapNotRepeated
<1>1. Init => OnceInv
  <2> SUFFICES ASSUME Init PROVE OnceInv
    OBVIOUS
  <2>1. \A n \in Names : ~Exists(n)
    BY DEF Init, Exists
  <2>2. \A b \in Boxes : agent[b] = Off /\ disk[b] = BlankDisk
    BY DEF Init
  <2>3. /\ Off.name = None /\ Off.mode = "live"
        /\ BlankDisk.name = None /\ BlankDisk.bootstrap = 0
    BY DEF Off, BlankDisk
  <2> QED
    BY <2>1, <2>2, <2>3 DEF OnceInv, Named, NamedBox, Pending, Names
<1>2. TypeOK /\ TypeOK' /\ IdentityInv /\ IdentityInv' /\ OnceInv /\ [Next]_vars => OnceInv'
  <2> SUFFICES ASSUME TypeOK, TypeOK', IdentityInv, IdentityInv', OnceInv, [Next]_vars
               PROVE  OnceInv'
    OBVIOUS
  <2>1. ASSUME NEW b \in Boxes, BoxStep(b) PROVE OnceInv'
    <3>1. PICK d, a : Replaces(b, d, a) /\ Move(b, d, a)
      BY <2>1, StepMoves
    <3>2. Named'
      BY <3>1, NamedKept DEF OnceInv
    <3>3. \A c \in Boxes : Pending(disk'[c], agent'[c])
      BY <3>1, PendingMove, Replaced DEF OnceInv
    <3>4. \A c \in Boxes, n \in Names : Exists(n)' => RanOnce(disk'[c], agent'[c], n, host'[n])
      BY <3>1, RanOnceKept
    <3> QED
      BY <3>2, <3>3, <3>4 DEF OnceInv
  <2>2. ASSUME NEW n \in Names, HostStep(n) PROVE OnceInv'
    BY <2>2, TendedOnce
  <2>3. CASE UNCHANGED vars
    BY <2>3 DEF vars, OnceInv, Named, Exists
  <2> QED
    BY <2>1, <2>2, <2>3 DEF Next, BoxStep, HostStep
<1>3. OnceInv => BootstrapNotRepeated
  BY DEF OnceInv, Pending, BootstrapNotRepeated
<1> QED
  BY <1>1, <1>2, <1>3, IdentityAlways, PTL DEF Spec
=============================================================================

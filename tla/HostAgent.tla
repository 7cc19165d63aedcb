----------------------------- MODULE HostAgent -----------------------------
(***************************************************************************)
(* The life of a box as its elemental-agent drives it: registration and    *)
(* installation from live media, the run loop of the installed system      *)
(* (reset, OS version, bootstrap), and the reset plan run from recovery.   *)
(* Every loop of the agent retries forever, and each turn of a loop asks   *)
(* the Elemental API by name and key; what decides is which part of the    *)
(* box's memory a failure takes away: the process's (identity, flags), the *)
(* running system's (the bootstrap sentinel in /run), or none of the disk. *)
(*                                                                         *)
(* A request that fails before it takes effect leaves the loop where it is *)
(* and is a stuttering step.  One whose answer is lost has taken effect.   *)
(*                                                                         *)
(* Abstracted: conditions and phases shown to the user; the registration,  *)
(* as one that exists, accepts the token and asks for a reboot after the   *)
(* installation, and for a reset of the OEM and persistent partitions; the *)
(* informer caches (module HostAssociation); in-place updates.             *)
(***************************************************************************)
EXTENDS Naturals

CONSTANTS
    Boxes,            \* the machines with an agent
    Hostname,         \* Hostname[b]: the existing hostname, or Random
    Random,           \* registration without useExisting: a random hostname
    FaultKinds,       \* what may go wrong
    MaxFaults,        \* bound: how often something goes wrong
    MaxRegistrations, \* bound: how many hosts are created
    MaxDeletions,     \* bound: how often users delete hosts and machines
    MaxVersions,      \* bound: how often the wanted OS version changes
    None,             \* no hostname
    Absent            \* no host of that name

\* A random hostname is one that no other registration ever picks.
RandomNames == IF \E b \in Boxes : Hostname[b] = Random THEN 1..MaxRegistrations ELSE {}

Names == RandomNames \cup ({Hostname[b] : b \in Boxes} \ {Random})

HostObject ==
    [uid: 1..MaxRegistrations, pubKey: 1..MaxRegistrations,
     deleting: BOOLEAN, finalizer: BOOLEAN, installed: BOOLEAN, secret: BOOLEAN, bootstrapped: BOOLEAN,
     needsReset: BOOLEAN, reset: BOOLEAN, version: 0..MaxVersions]

AllFaultKinds ==
    {"lostAnswer", \* a request takes effect and is not answered
     "restart",    \* the agent's service dies and is started again
     "planFails",  \* a command of the reset plan dies
     "powerCycle", \* the power goes, at any time
     "plugin",     \* the OS plugin fails halfway
     "script",     \* the bootstrap config fails when it is run
     "reboot"}     \* the reboot command fails

ASSUME ConstantsAssumption ==
    /\ MaxFaults \in Nat
    /\ MaxRegistrations \in Nat \ {0}
    /\ MaxDeletions \in Nat
    /\ MaxVersions \in Nat
    /\ FaultKinds \subseteq AllFaultKinds
    /\ \A b \in Boxes : Hostname[b] = Random \/ Hostname[b] \notin 1..(MaxRegistrations + 1)
    /\ None \notin Names
    /\ Absent \notin HostObject

VARIABLES
    host,      \* the ElementalHosts of the API server
    disk,      \* what a box keeps over a reboot
    agent,     \* what it does not: the running system and the agent's process
    posts,     \* hosts created so far
    faults,    \* failures so far
    deletions  \* deletions by users so far

vars == <<host, disk, agent, posts, faults, deletions>>

\* A key is named for the first host that carries it.  A process that finds no
\* key file has made one that no host carries: 0.
Keys == 0..MaxRegistrations

\* The bootstrap config of the host with that uid; 0 is none.
Configs == 0..MaxRegistrations

Disk ==
    [os: BOOLEAN,       \* Elemental is installed
     recovery: BOOLEAN, \* grub's next_entry, for one boot
     key: Keys,         \* private.key
     name: Names \cup {None},
     config: BOOLEAN,   \* the agent's configuration, once installed
     bootstrap: Configs, \* /oem/bootstrap-cloud-config.yaml
     ran: Configs,      \* the bootstrap config this installation has run
     version: 0..MaxVersions]

Phases == {"off", "register", "finalize", "confirm", "install", "reportInstalled",
           "run", "bootstrap",
           "reset", "wipe", "reportReset", "awaitReset", "stopped"}

Agent ==
    [phase: Phases, mode: {"live", "recovery", "active"}, key: Keys,
     name: Names \cup {None}, wiped: BOOLEAN, sentinel: BOOLEAN]
-----------------------------------------------------------------------------
(* Failures.                                                               *)

Fault(kind) ==
    /\ kind \in FaultKinds
    /\ faults < MaxFaults
    /\ faults' = faults + 1

Fine == UNCHANGED faults

Off == [phase |-> "off", mode |-> "live", key |-> 0, name |-> None,
        wiped |-> FALSE, sentinel |-> FALSE]

GoTo(b, phase) == agent' = [agent EXCEPT ![b].phase = phase]

\* A new process: identity and hostname are those found on the system.
Start(b, phase, mode, sentinel) ==
    [phase |-> phase, mode |-> mode, wiped |-> FALSE, sentinel |-> sentinel,
     key  |-> IF mode = "live" THEN 0 ELSE disk[b].key,
     name |-> IF mode = "live" THEN None ELSE disk[b].name]

\* The process ends with an error: systemd starts it again, or the reset plan
\* goes on with its next command or stops.
ProcessExits(b) ==
    \E next \in CASE agent[b].mode = "live" -> {Start(b, "register", "live", FALSE)}
                  [] agent[b].mode = "active" -> {Start(b, "run", "active", agent[b].sentinel)}
                  [] OTHER -> {[agent[b] EXCEPT !.phase = "stopped"],
                               IF agent[b].phase \in {"reset", "wipe", "reportReset", "awaitReset"}
                               THEN Start(b, "register", "recovery", agent[b].sentinel)
                               ELSE Off} :
        agent' = [agent EXCEPT ![b] = next]

\* handlePost: the program ends whether or not the reboot command works, and
\* nobody starts it again.  In recovery the plan has a reboot of its own.
HandlePost(b) ==
    \/ Fine /\ agent' = [agent EXCEPT ![b] = Off]
    \/ Fault("reboot") /\ agent[b].mode # "recovery" /\ GoTo(b, "stopped")
-----------------------------------------------------------------------------
(* The Elemental API, as one box calls it.                                 *)

Exists(n) == n \in Names /\ host[n] # Absent

\* Broken variant: the key is not compared.
KnownByName(b) == Exists(agent[b].name)

\* The host of that name is found, and the agent's token has its key.
Known(b) == Exists(agent[b].name) /\ host[agent[b].name].pubKey = agent[b].key

Mine(b) == host[agent[b].name]

Settled(object) == IF object.deleting /\ ~object.finalizer THEN Absent ELSE object

WriteMine(b, object) == host' = [host EXCEPT ![agent[b].name] = object]

\* Broken variant: the key is lost on the way.
NewHostWithoutKey(key) ==
    [uid |-> posts + 1, pubKey |-> 0,
     deleting |-> FALSE, finalizer |-> FALSE, installed |-> FALSE, secret |-> FALSE,
     bootstrapped |-> FALSE, needsReset |-> FALSE, reset |-> FALSE, version |-> 0]

NewHost(key) ==
    [uid |-> posts + 1, pubKey |-> key,
     deleting |-> FALSE, finalizer |-> FALSE, installed |-> FALSE, secret |-> FALSE, bootstrapped |-> FALSE, needsReset |-> FALSE, reset |-> FALSE,
     version |-> 0]
-----------------------------------------------------------------------------
(* elemental-agent register --install, on live media or in recovery.       *)

At(b, phase) == agent[b].phase = phase

\* A random name is picked anew in every turn.
PickedNames(b) == IF Hostname[b] = Random THEN {posts + 1} ELSE {Hostname[b]}

\* An empty PATCH succeeds: a host of that name with this key exists already.
RegisterFound(b) ==
    /\ At(b, "register")
    /\ \E n \in PickedNames(b) :
         /\ Exists(n)
         /\ host[n].pubKey = agent[b].key
         /\ agent' = [agent EXCEPT ![b].phase = "finalize", ![b].name = n]
    /\ Fine
    /\ UNCHANGED <<host, disk, posts, deletions>>

\* POST; if there is a host of that name already, the turn ends in a conflict.
RegisterNew(b) ==
    /\ At(b, "register")
    /\ posts < MaxRegistrations
    /\ posts' = posts + 1
    /\ \E n \in PickedNames(b), key \in {IF agent[b].key = 0 THEN posts + 1 ELSE agent[b].key} :
         /\ ~Exists(n)
         /\ host' = [host EXCEPT ![n] = NewHost(key)]
         /\ \/ /\ Fine
               /\ agent' = [agent EXCEPT ![b].phase = "finalize", ![b].name = n, ![b].key = key]
            \/ /\ Fault("lostAnswer")
               /\ agent' = [agent EXCEPT ![b].key = key]
    /\ UNCHANGED <<disk, deletions>>

\* Broken variant: an existing host is not looked for.
RegisterBlindly(b) == RegisterNew(b)

Register(b) == RegisterFound(b) \/ RegisterNew(b)

\* Broken variant: the key is not installed.
IdentifiedByName(b) == [disk[b] EXCEPT !.name = agent[b].name, !.config = TRUE]

\* What finalize and the installation leave for the next boot.
Identified(b) ==
    [disk[b] EXCEPT !.key = agent[b].key, !.name = agent[b].name, !.config = TRUE]

\* Hostname, configuration and key are written as files for the next boot: on
\* live media into memory, in recovery onto the disk.  A failure ends the
\* process.
FinalizeRegistration(b) ==
    /\ At(b, "finalize")
    /\ \/ /\ Fine
          /\ disk' = IF agent[b].mode = "live" THEN disk
                     ELSE [disk EXCEPT ![b] = Identified(b)]
          /\ GoTo(b, "confirm")
       \/ /\ Fault("plugin")
          /\ ProcessExits(b)
          /\ UNCHANGED disk
    /\ UNCHANGED <<host, posts, deletions>>

\* The RegistrationReady condition, until it is accepted.
ConfirmRegistration(b) ==
    /\ At(b, "confirm")
    /\ Known(b)
    /\ GoTo(b, "install")
    /\ Fine
    /\ UNCHANGED <<host, disk, posts, deletions>>

\* Plugin.Install takes the files along; it does nothing unless on live media.
InstallSystem(b) ==
    /\ At(b, "install")
    /\ disk' = IF agent[b].mode = "live"
               THEN [disk EXCEPT ![b] = [Identified(b) EXCEPT !.os = TRUE]]
               ELSE disk
    /\ GoTo(b, "reportInstalled")
    /\ Fine
    /\ UNCHANGED <<host, posts, deletions>>

ReportInstalled(b) ==
    /\ At(b, "reportInstalled")
    /\ Known(b)
    /\ WriteMine(b, [Mine(b) EXCEPT !.installed = TRUE])
    /\ \/ HandlePost(b)
       \/ Fault("lostAnswer") /\ UNCHANGED agent
    /\ UNCHANGED <<disk, posts, deletions>>
-----------------------------------------------------------------------------
(* elemental-agent run.                                                    *)

\* Each turn starts with a PATCH of the phase and acts on the host it returns.
Running(b) == At(b, "run") /\ Known(b)

\* Reset comes first.  The reboot is scheduled last, and may fail.
TriggerReset(b) ==
    /\ Running(b)
    /\ Mine(b).needsReset
    /\ disk' = [disk EXCEPT ![b].recovery = TRUE]
    /\ \/ Fine /\ agent' = [agent EXCEPT ![b] = Off]
       \/ Fault("plugin") /\ UNCHANGED agent
    /\ UNCHANGED <<host, posts, deletions>>

NeedsUpgrade(b) == Mine(b).version \notin {0, disk[b].version}

\* A host that is not bootstrapped yet follows the OS version first.
ReconcileOSVersion(b) ==
    /\ Running(b)
    /\ ~Mine(b).needsReset
    /\ ~Mine(b).bootstrapped
    /\ NeedsUpgrade(b)
    /\ disk' = [disk EXCEPT ![b].version = Mine(b).version]
    /\ HandlePost(b)
    /\ UNCHANGED <<host, posts, deletions>>

StartBootstrap(b) ==
    /\ Running(b)
    /\ ~Mine(b).needsReset
    /\ ~Mine(b).bootstrapped
    /\ ~NeedsUpgrade(b)
    /\ Mine(b).secret
    /\ GoTo(b, "bootstrap")
    /\ Fine
    /\ UNCHANGED <<host, disk, posts, deletions>>

\* Broken variant: bootstrapped is reported without the sentinel.
ReportWithoutSentinel(b) ==
    /\ At(b, "bootstrap")
    /\ IF Known(b) /\ Mine(b).secret
       THEN WriteMine(b, [Mine(b) EXCEPT !.bootstrapped = TRUE])
       ELSE UNCHANGED host
    /\ GoTo(b, "run")
    /\ Fine
    /\ UNCHANGED <<disk, posts, deletions>>

\* Broken variant: with the sentinel there, nothing is left to do.
SentinelWithoutReport(b) ==
    /\ At(b, "bootstrap")
    /\ agent[b].sentinel
    /\ GoTo(b, "run")
    /\ Fine
    /\ UNCHANGED <<host, disk, posts, deletions>>

\* The sentinel is there: PATCH bootstrapped.  Whether that works or not, the
\* next turn starts over.
ReportBootstrapped(b) ==
    /\ At(b, "bootstrap")
    /\ agent[b].sentinel
    /\ IF Known(b) /\ Mine(b).secret
       THEN WriteMine(b, [Mine(b) EXCEPT !.bootstrapped = TRUE])
       ELSE UNCHANGED host
    /\ GoTo(b, "run")
    /\ Fine
    /\ UNCHANGED <<disk, posts, deletions>>

\* Broken variant: the sentinel is not looked for.
ApplyWithoutSentinel(b) ==
    /\ At(b, "bootstrap")
    /\ Known(b) /\ Mine(b).secret /\ disk[b].bootstrap = 0
    /\ disk' = [disk EXCEPT ![b].bootstrap = Mine(b).uid]
    /\ HandlePost(b)
    /\ UNCHANGED <<host, posts, deletions>>

\* No sentinel: fetch the config and leave it for the next boot, unless one is
\* still there.
ApplyBootstrap(b) ==
    /\ At(b, "bootstrap")
    /\ ~agent[b].sentinel
    /\ IF Known(b) /\ Mine(b).secret /\ disk[b].bootstrap = 0
       THEN /\ disk' = [disk EXCEPT ![b].bootstrap = Mine(b).uid]
            /\ HandlePost(b)
       ELSE /\ GoTo(b, "run")
            /\ Fine
            /\ UNCHANGED disk
    /\ UNCHANGED <<host, posts, deletions>>
-----------------------------------------------------------------------------
(* elemental-agent reset, the first command of the reset plan.             *)

\* Broken variant: reset is reported at once.
DeleteAndReport(b) ==
    /\ At(b, "reset")
    /\ Known(b)
    /\ WriteMine(b, Settled([Mine(b) EXCEPT !.deleting = TRUE]))
    /\ GoTo(b, "reportReset")
    /\ Fine
    /\ UNCHANGED <<disk, posts, deletions>>

\* Broken variant: a host that is being deleted already is an error.
DeleteOnce(b) ==
    /\ At(b, "reset")
    /\ Known(b)
    /\ ~Mine(b).deleting
    /\ WriteMine(b, Settled([Mine(b) EXCEPT !.deleting = TRUE]))
    /\ GoTo(b, "wipe")
    /\ Fine
    /\ UNCHANGED <<disk, posts, deletions>>

\* Each turn begins with a DELETE, accepted again and again while the host is
\* there.
DeleteElementalHost(b) ==
    /\ At(b, "reset")
    /\ Known(b)
    /\ WriteMine(b, Settled([Mine(b) EXCEPT !.deleting = TRUE]))
    /\ \/ Fine /\ GoTo(b, IF agent[b].wiped THEN "reportReset" ELSE "wipe")
       \/ Fault("lostAnswer") /\ UNCHANGED agent
    /\ UNCHANGED <<disk, posts, deletions>>

Wiped(b) ==
    [disk[b] EXCEPT !.key = 0, !.name = None, !.bootstrap = 0, !.ran = 0, !.version = 0]

\* Plugin.Reset: save the configuration, wipe, mount, restore it.  After a
\* failure between the last three there is nothing left to save.
WipeSystem(b) ==
    /\ At(b, "wipe")
    /\ IF disk[b].config
       THEN \/ /\ Fine
               /\ disk' = [disk EXCEPT ![b] = Wiped(b)]
               /\ agent' = [agent EXCEPT ![b].phase = "reportReset", ![b].wiped = TRUE]
            \/ /\ Fault("plugin")
               /\ disk' = [disk EXCEPT ![b] = [Wiped(b) EXCEPT !.config = FALSE]]
               /\ GoTo(b, "reset")
       ELSE /\ GoTo(b, "reset")
            /\ Fine
            /\ UNCHANGED disk
    /\ UNCHANGED <<host, posts, deletions>>

\* PATCH reset.  The handler then reads the host again to answer with it.
ReportReset(b) ==
    /\ At(b, "reportReset")
    /\ IF Known(b)
       THEN /\ WriteMine(b, [Mine(b) EXCEPT !.reset = TRUE])
            /\ GoTo(b, "awaitReset")
       ELSE /\ GoTo(b, "reset")
            /\ UNCHANGED host
    /\ Fine
    /\ UNCHANGED <<disk, posts, deletions>>

\* Answered, the plan goes on to register again; otherwise the loop starts over.
AwaitReset(b) ==
    /\ At(b, "awaitReset")
    /\ \/ /\ Exists(agent[b].name)
          /\ Fine
          /\ agent' = [agent EXCEPT ![b] = Start(b, "register", "recovery", agent[b].sentinel)]
       \/ /\ \/ ~Exists(agent[b].name) /\ Fine
             \/ Fault("lostAnswer")
          /\ GoTo(b, "reset")
    /\ UNCHANGED <<host, disk, posts, deletions>>
-----------------------------------------------------------------------------
(* The box.                                                                *)

\* Live media start the installation, recovery the reset plan, the installed
\* system the run loop.  A bootstrap config in /oem is run first; it removes
\* itself once it has left its sentinel.
Boot(b) ==
    /\ At(b, "off")
    /\ \E sentinel \in BOOLEAN :
         /\ IF disk[b].bootstrap = 0
            THEN ~sentinel /\ Fine
            ELSE (sentinel /\ Fine) \/ (~sentinel /\ Fault("script"))
         /\ disk' = [disk EXCEPT
               ![b].recovery  = FALSE,
               ![b].bootstrap = IF sentinel THEN 0 ELSE @,
               ![b].ran       = IF sentinel THEN disk[b].bootstrap ELSE @]
         /\ agent' = [agent EXCEPT ![b] =
               IF ~disk[b].os THEN Start(b, "register", "live", FALSE)
               ELSE IF disk[b].recovery THEN Start(b, "reset", "recovery", sentinel)
               ELSE Start(b, "run", "active", sentinel)]
    /\ UNCHANGED <<host, posts, deletions>>

\* The power goes after the config has run and before it has removed itself.
BootInterrupted(b) ==
    /\ At(b, "off")
    /\ disk[b].bootstrap # 0
    /\ Fault("powerCycle")
    /\ disk' = [disk EXCEPT ![b].recovery = FALSE, ![b].ran = disk[b].bootstrap]
    /\ UNCHANGED <<host, agent, posts, deletions>>

PowerCycle(b) ==
    /\ ~At(b, "off")
    /\ Fault("powerCycle")
    /\ agent' = [agent EXCEPT ![b] = Off]
    /\ UNCHANGED <<host, disk, posts, deletions>>

RestartAgent(b) ==
    /\ agent[b].phase \notin {"off", "stopped"}
    /\ Fault(IF agent[b].mode = "recovery" THEN "planFails" ELSE "restart")
    /\ ProcessExits(b)
    /\ UNCHANGED <<host, disk, posts, deletions>>
-----------------------------------------------------------------------------
(* The controllers and the users.                                          *)

HostReconciled(object) ==
    IF ~object.deleting
    THEN [object EXCEPT !.finalizer = TRUE]
    ELSE IF object.finalizer /\ object.reset THEN [object EXCEPT !.finalizer = FALSE]
    ELSE [object EXCEPT !.needsReset = TRUE]

ReconcileHost(n) ==
    /\ Exists(n)
    /\ host' = [host EXCEPT ![n] = Settled(HostReconciled(@))]
    /\ UNCHANGED <<disk, agent, posts, faults, deletions>>

Change(n, object) ==
    /\ Exists(n)
    /\ object # host[n]
    /\ host' = [host EXCEPT ![n] = object]
    /\ UNCHANGED <<disk, agent, posts, faults>>

\* A machine takes an available host.
Associate(n) ==
    /\ Exists(n)
    /\ host[n].installed /\ ~host[n].needsReset
    /\ Change(n, [host[n] EXCEPT !.secret = TRUE])
    /\ UNCHANGED deletions

\* The OS version is changed, on the host or on the machine that has it.
WantVersion(n) ==
    /\ Exists(n)
    /\ ~host[n].deleting
    /\ host[n].version < MaxVersions
    /\ Change(n, [host[n] EXCEPT !.version = @ + 1])
    /\ UNCHANGED deletions

Delete(n, object) ==
    /\ deletions < MaxDeletions
    /\ deletions' = deletions + 1
    /\ Change(n, object)

\* The machine is deleted and marks its host.
DeleteMachine(n) ==
    /\ Exists(n)
    /\ host[n].secret
    /\ Delete(n, [host[n] EXCEPT !.needsReset = TRUE])

DeleteHost(n) ==
    /\ Exists(n)
    /\ ~host[n].deleting
    /\ Delete(n, Settled([host[n] EXCEPT !.deleting = TRUE]))
-----------------------------------------------------------------------------
BlankDisk ==
    [os |-> FALSE, recovery |-> FALSE, key |-> 0, name |-> None, config |-> FALSE,
     bootstrap |-> 0, ran |-> 0, version |-> 0]

\* New boxes with the live media in, and a registration without hosts.
Init ==
    /\ host = [n \in Names |-> Absent]
    /\ disk = [b \in Boxes |-> BlankDisk]
    /\ agent = [b \in Boxes |-> Off]
    /\ posts = 0
    /\ faults = 0
    /\ deletions = 0

Step(b) ==
    \/ Register(b)
    \/ FinalizeRegistration(b)
    \/ ConfirmRegistration(b)
    \/ InstallSystem(b)
    \/ ReportInstalled(b)
    \/ TriggerReset(b)
    \/ ReconcileOSVersion(b)
    \/ StartBootstrap(b)
    \/ ReportBootstrapped(b)
    \/ ApplyBootstrap(b)
    \/ DeleteElementalHost(b)
    \/ WipeSystem(b)
    \/ ReportReset(b)
    \/ AwaitReset(b)
    \/ Boot(b)

Next ==
    \/ \E b \in Boxes : Step(b) \/ BootInterrupted(b) \/ PowerCycle(b) \/ RestartAgent(b)
    \/ \E n \in Names : ReconcileHost(n) \/ Associate(n) \/ WantVersion(n)
                        \/ DeleteMachine(n) \/ DeleteHost(n)

Spec == Init /\ [][Next]_vars

\* The agent's loops retry forever, a box that is off starts, and every host
\* is reconciled again and again.
Fairness ==
    /\ \A b \in Boxes : WF_vars(Step(b))
    /\ \A n \in Names : WF_vars(ReconcileHost(n))

FairSpec == Spec /\ Fairness
-----------------------------------------------------------------------------
\* Every variable has its type: hosts carry a key, and the bounds hold.
TypeOK ==
    /\ host \in [Names -> HostObject \cup {Absent}]
    /\ disk \in [Boxes -> Disk]
    /\ agent \in [Boxes -> Agent]
    /\ posts \in 0..MaxRegistrations
    /\ faults \in 0..MaxFaults
    /\ deletions \in 0..MaxDeletions

\* A host with a finalizer goes away only when no disk holds its key, its
\* bootstrap config or what that config has set up: resetLoop reports the
\* reset after it is done, whichever part of the loop is repeated.
GoneOnlyWhenWiped ==
    [][\A n \in Names, b \in Boxes :
        (Exists(n) /\ host[n].finalizer /\ ~Exists(n)')
            => /\ disk[b].key # host[n].pubKey
               /\ host[n].uid \notin {disk[b].bootstrap, disk[b].ran}]_vars

\* A host offered to machines (installed, not to be reset) has a box that
\* comes back as that host after any reboot: finalize and Plugin.Install have
\* put hostname and key where the next boot finds them.
AvailableCanReturn ==
    \A n \in Names :
        (Exists(n) /\ host[n].installed /\ ~host[n].needsReset /\ ~host[n].deleting)
            => \E b \in Boxes : disk[b].os /\ disk[b].key = host[n].pubKey /\ disk[b].name = n

\* A host that the bootstrap handler reported as bootstrapped has run the
\* config meant for it, not one from before a reset.
BootstrappedRanItsConfig ==
    \A n \in Names, b \in Boxes :
        (/\ Exists(n) /\ host[n].bootstrapped
         /\ disk[b].name = n /\ disk[b].key = host[n].pubKey)
            => disk[b].ran = host[n].uid

\* The bootstrap handler and the plugin do not apply a bootstrap config twice
\* on the system: none is left for the next boot that has run already.
BootstrapNotRepeated ==
    \A b \in Boxes : disk[b].bootstrap # 0 => disk[b].bootstrap # disk[b].ran

\* The key a box goes on with.
KeyInUse(b) == IF At(b, "off") THEN disk[b].key ELSE agent[b].key

\* Nobody will speak for host n any more: no box goes on with its key, or the one
\* that does was not rebooted, or its reset plan has stopped, or it finds nothing
\* to save in every further reset.
Stranded(n) ==
    \A b \in Boxes :
        (Exists(n) /\ host[n].pubKey = KeyInUse(b))
            => \/ At(b, "stopped")
               \/ agent[b].mode = "recovery" /\ ~disk[b].config

PowerMayHaveGone == "powerCycle" \in FaultKinds /\ faults > 0

\* registrationLoop, finalize and installLoop get every box to run its
\* installed system as its host, whatever fails, unless a user deletes a host on
\* the way.  It ends otherwise only where the code has no way back: nobody
\* reboots the box, or its name is taken by a host whose key died with an
\* earlier process of it.  The host is known to be installed, unless the power
\* went before the report.
RegistrationCompletes ==
    \A b \in Boxes :
        <>(\/ Running(b) /\ (Mine(b).installed \/ PowerMayHaveGone)
           \/ At(b, "stopped")
           \/ At(b, "register") /\ \E n \in PickedNames(b) : Exists(n) /\ Stranded(n)
           \/ deletions > 0)

\* A host to be reset goes away, unless it is stranded: run loop, reset plan and
\* resetLoop get there in whatever phase the host is and whatever fails.
ResetCompletes ==
    \A n \in Names : (Exists(n) /\ host[n].needsReset) ~> (~Exists(n) \/ Stranded(n))

\* A box that has reset itself, with its host still there to be told, registers
\* a new host and runs again: resetLoop gets the reset reported and ends.
ResetBoxReturns ==
    \A b \in Boxes :
        (agent[b].wiped /\ Known(b) /\ Mine(b).finalizer) ~> Running(b)

\* The running system was started with a config that did not get through.
BootstrapFailed(b) ==
    agent[b].mode = "active" /\ agent[b].phase \in {"run", "bootstrap"}
        /\ ~agent[b].sentinel /\ disk[b].bootstrap # 0

\* A host that has a bootstrap config gets bootstrapped, unless the config
\* fails, or the host is to be reset or stranded: run loop, bootstrap handler and
\* boot pass the config on and do not wait for each other.
BootstrapCompletes ==
    \A n \in Names :
        (Exists(n) /\ host[n].secret)
            ~> \/ Exists(n) => host[n].bootstrapped \/ host[n].needsReset \/ host[n].deleting
               \/ Stranded(n)
               \/ \E b \in Boxes : BootstrapFailed(b) /\ disk[b].bootstrap = host[n].uid
=============================================================================

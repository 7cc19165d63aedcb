------------------------------ MODULE HostPool ------------------------------
(***************************************************************************)
(* What the provider promises about its hosts, without saying how: a pool  *)
(* of hosts that come and go, each held by at most one machine from the    *)
(* moment it is taken until it is gone, each machine with at most one host *)
(* that it has not condemned.  A machine first chooses among the available *)
(* hosts and then takes its choice, if that is still there.                *)
(*                                                                         *)
(* HostAssociation implements this specification as long as its reads of   *)
(* hosts are up to date.                                                   *)
(***************************************************************************)
CONSTANTS Machines, Hosts, None

VARIABLES
    stage,    \* how far a host has come
    holder,   \* the machine that a host belongs to
    guarded,  \* whether a host goes away only after its reset
    choice    \* the machine that is taking a host, and the host

vars == <<stage, holder, guarded, choice>>

Stages == {"absent", "registered", "available", "resetting", "reset"}

Init ==
    /\ stage = [h \in Hosts |-> "absent"]
    /\ holder = [h \in Hosts |-> None]
    /\ guarded = [h \in Hosts |-> FALSE]
    /\ choice = None

Register(h) ==
    /\ stage[h] = "absent"
    /\ stage' = [stage EXCEPT ![h] = "registered"]
    /\ UNCHANGED <<holder, guarded, choice>>

Guard(h) ==
    /\ stage[h] # "absent"
    /\ guarded' = [guarded EXCEPT ![h] = TRUE]
    /\ UNCHANGED <<stage, holder, choice>>

Offer(h) ==
    /\ stage[h] = "registered"
    /\ stage' = [stage EXCEPT ![h] = "available"]
    /\ UNCHANGED <<holder, guarded, choice>>

\* The hosts a machine holds and has not condemned.
Held(m) == {h \in Hosts : holder[h] = m /\ stage[h] \notin {"resetting", "reset"}}

Choose(m, h) ==
    /\ choice = None
    /\ stage[h] = "available"
    /\ holder[h] = None
    /\ Held(m) = {}
    /\ choice' = <<m, h>>
    /\ UNCHANGED <<stage, holder, guarded>>

\* The host chosen may have been condemned by then, or be a new one of that
\* name, but it is nobody else's.
Take(m, h) ==
    /\ choice = <<m, h>>
    /\ stage[h] # "absent"
    /\ holder[h] = None
    /\ holder' = [holder EXCEPT ![h] = m]
    /\ choice' = None
    /\ UNCHANGED <<stage, guarded>>

GiveUp ==
    /\ choice # None
    /\ choice' = None
    /\ UNCHANGED <<stage, holder, guarded>>

Condemn(h) ==
    /\ stage[h] \in {"registered", "available"}
    /\ stage' = [stage EXCEPT ![h] = "resetting"]
    /\ UNCHANGED <<holder, guarded, choice>>

Finish(h) ==
    /\ stage[h] = "resetting"
    /\ stage' = [stage EXCEPT ![h] = "reset"]
    /\ UNCHANGED <<holder, guarded, choice>>

Remove(h) ==
    /\ guarded[h] => stage[h] = "reset"
    /\ stage' = [stage EXCEPT ![h] = "absent"]
    /\ holder' = [holder EXCEPT ![h] = None]
    /\ guarded' = [guarded EXCEPT ![h] = FALSE]
    /\ UNCHANGED choice

Next ==
    \/ \E h \in Hosts : \/ Register(h) \/ Guard(h) \/ Offer(h)
                        \/ Condemn(h) \/ Finish(h) \/ Remove(h)
    \/ \E m \in Machines, h \in Hosts : Choose(m, h) \/ Take(m, h)
    \/ GiveUp

Spec == Init /\ [][Next]_vars
=============================================================================

------------------------------- MODULE Scaler -------------------------------
(***************************************************************************)
(* The worker autoscaler: modules/scaler.  One loop ticks on the manager.  *)
(* A tick takes a snapshot of the swarm, lists the droplets tagged as      *)
(* workers, adopts those it does not know, advances the state machine of   *)
(* each, removes ghosts, and then lets the policy add or drain one worker. *)
(* It decides from what it read at its start: droplets, the swarm and the  *)
(* operator go on meanwhile, its calls may lose their answers, and it may  *)
(* be restarted between two steps.  The node table survives a restart.     *)
(***************************************************************************)
EXTENDS Naturals, FiniteSets

CONSTANTS
    MinWorkers, MaxWorkers,
    MaxDroplets,   \* bound: droplets ever created
    Address,       \* the private address of each droplet; it may be used again
    MaxTrouble     \* bound: restarts and lost answers (faults), and outages, deletions
                   \* and drains by others, and token rotations (incidents)

Droplets == 1 .. MaxDroplets

ASSUME ScalerAssumption ==
    /\ MinWorkers \in Nat /\ MaxWorkers \in Nat /\ MinWorkers <= MaxWorkers
    /\ MaxDroplets \in Nat /\ MaxTrouble \in Nat

VARIABLES
    droplet,             \* what DigitalOcean has
    swarm,               \* the swarm node that runs on each droplet
    stale,               \* droplets whose join token was rotated away
    node,                \* the nodes table, by droplet
    overdue,             \* rows older than the join timeout they are subject to
    pc, snap, listed, booted, todo,   \* the tick in memory
    faults, incidents

cloud == <<droplet, stale>>
table == <<node, overdue>>
tick  == <<pc, snap, listed, booted, todo>>
vars  == <<cloud, swarm, table, tick, faults, incidents>>

NodeStates == {"provisioning", "joining", "ready", "failed", "draining", "deleting",
               "removing", "destroyed"}
\* Mutant: the policy does not wait for failed workers to be cleaned up.
BusyUnlessFailed == {"provisioning", "joining", "draining", "deleting", "removing"}

Busy  == {"provisioning", "joining", "draining", "deleting", "removing", "failed"}

\* What the policy tells apart: tasks wait or the workers are full, and the last
\* scale-up is long ago; they are idle for long, and so is any change; neither.
Loads == {"high", "low", "between"}

NoMember == [state |-> "absent", avail |-> "active", label |-> FALSE, tasks |-> FALSE]
Member   == [state : {"absent", "ready", "down", "removed"}, avail : {"active", "drain"},
             label : BOOLEAN, tasks : BOOLEAN]
NoRow    == [state |-> "none", id |-> 0, ip |-> FALSE, down |-> FALSE]
Row      == [state : NodeStates \cup {"none"}, id : Droplets \cup {0}, ip : BOOLEAN,
             down : BOOLEAN]
NoSnap   == [d \in Droplets |-> NoMember]

TypeOK ==
    /\ droplet \in [Droplets -> {"none", "new", "active", "gone"}]
    /\ swarm \in [Droplets -> Member]
    /\ stale \subseteq Droplets
    /\ node \in [Droplets -> Row]
    /\ overdue \subseteq Droplets
    /\ pc \in {"snapshot", "list", "advance", "decide"}
    /\ snap \in [Droplets -> Member]
    /\ listed \subseteq Droplets /\ booted \subseteq listed /\ todo \subseteq Droplets
    /\ faults \in 0 .. MaxTrouble /\ incidents \in 0 .. MaxTrouble

\* The seed worker of the infrastructure runs, and no tick has seen it yet; it is
\* in the swarm, or about to join.
Init ==
    /\ droplet = [d \in Droplets |-> IF d = 1 THEN "active" ELSE "none"]
    /\ \E seed \in {"absent", "ready"} :
        swarm = [d \in Droplets |-> IF d = 1 THEN [NoMember EXCEPT !.state = seed]
                                             ELSE NoMember]
    /\ stale = {} /\ overdue = {}
    /\ node = [d \in Droplets |-> NoRow]
    /\ pc = "snapshot" /\ snap = NoSnap
    /\ listed = {} /\ booted = {} /\ todo = {}
    /\ faults = 0 /\ incidents = 0

Exists(d) == droplet[d] \in {"new", "active"}
Joined(member) == member.state \in {"ready", "down"}

\* A call takes effect; its answer may be lost, which costs a fault.
Answer(ok) == IF ok THEN UNCHANGED faults
              ELSE faults + incidents < MaxTrouble /\ faults' = faults + 1
Incident   == faults + incidents < MaxTrouble /\ incidents' = incidents + 1

-----------------------------------------------------------------------------
\* reconcile: what the tick reads, and the droplets it adopts.

Step(from, to) == pc = from /\ pc' = to
EndTick ==
    /\ pc' = "snapshot" /\ snap' = NoSnap
    /\ listed' = {} /\ booted' = {} /\ todo' = {}

TakeSnapshot ==
    /\ Step("snapshot", "list")
    /\ snap' = swarm
    /\ UNCHANGED <<cloud, swarm, table, listed, booted, todo, faults, incidents>>

\* findSwarmNode: the first node of the snapshot with the address of d; the order
\* of the snapshot is not known.
WithAddress(d) == {n \in Droplets : Joined(snap[n]) /\ Address[n] = Address[d]}
FindByAddress(d) == IF WithAddress(d) = {} THEN 0 ELSE CHOOSE n \in WithAddress(d) : TRUE

\* Mutant: only droplets that have joined the swarm are adopted.
AdoptedOnceJoined(d, active) ==
    LET n == IF active THEN FindByAddress(d) ELSE 0 IN
    IF n = 0 THEN NoRow ELSE [state |-> "joining", id |-> n, ip |-> active, down |-> FALSE]

\* The row of a droplet the table does not know; it has an address once it is active.
Adopted(d, active) ==
    LET n == IF active THEN FindByAddress(d) ELSE 0 IN
    [state |-> IF n = 0 THEN "provisioning" ELSE "joining", id |-> n, ip |-> active,
     down |-> FALSE]

ListDroplets ==
    /\ Step("list", "advance")
    /\ listed' = {d \in Droplets : Exists(d)}
    /\ booted' = {d \in Droplets : droplet[d] = "active"}
    /\ node' = [d \in Droplets |->
                  IF Exists(d) /\ node[d].state = "none"
                  THEN Adopted(d, droplet[d] = "active") ELSE node[d]]
    /\ todo' = {d \in Droplets : node'[d].state # "none"}
    /\ UNCHANGED <<cloud, swarm, overdue, snap, faults, incidents>>

-----------------------------------------------------------------------------
\* advance: one step of a row's state machine.

\* findSwarmNodeByID, then findSwarmNode by address; 0 when there is none.
SwarmNode(d) ==
    IF node[d].id # 0 /\ Joined(snap[node[d].id]) THEN node[d].id
    ELSE IF node[d].ip THEN FindByAddress(d) ELSE 0

IsDown(n)  == n = 0 \/ snap[n].state = "down"
IsReady(n) == n # 0 /\ snap[n].state = "ready"

\* Rows are advanced in the order their droplets were created.
Current(d) == pc = "advance" /\ d \in todo /\ \A e \in todo : d <= e
Advancing(d, states) ==
    /\ Current(d) /\ node[d].state \in states
    /\ todo' = todo \ {d}
    /\ UNCHANGED <<pc, snap, listed, booted>>
Present(d, state) == Advancing(d, {state}) /\ d \in listed

\* save: the state and the error are replaced.
Save(d, state) == node' = [node EXCEPT ![d].state = state, ![d].down = FALSE]
SaveIf(ok, d, state) == IF ok THEN Save(d, state) ELSE UNCHANGED node

DeleteDroplet(d) ==
    droplet' = [droplet EXCEPT ![d] = IF Exists(d) THEN "gone" ELSE droplet[d]]

\* docker node rm is refused for a node that is not down.
Removed(n) ==
    IF swarm[n].state = "down" THEN [NoMember EXCEPT !.state = "removed"] ELSE swarm[n]
Remove(n) == swarm' = [swarm EXCEPT ![n] = Removed(n)]

\* A row whose droplet was deleted behind the scaler's back.
Disappear(d) ==
    /\ Advancing(d, NodeStates \ {"deleting", "removing", "failed"})
    /\ d \notin listed
    /\ Save(d, "removing")
    /\ UNCHANGED <<cloud, swarm, overdue, faults, incidents>>

Provision(d) ==
    /\ Present(d, "provisioning")
    /\ IF d \in booted
       THEN node' = [node EXCEPT ![d].state = "joining", ![d].ip = TRUE]
       ELSE SaveIf(d \in overdue, d, "failed")
    /\ UNCHANGED <<cloud, swarm, overdue, faults, incidents>>

\* A node that is ready is labelled, which lets it take app tasks.
JoinPool(d, ok) ==
    LET n == SwarmNode(d) IN
    /\ Present(d, "joining") /\ IsReady(n)
    /\ Answer(ok)
    /\ swarm' = [swarm EXCEPT ![n].label = @ \/ Joined(swarm[n])]
    /\ IF ok /\ Joined(swarm[n])
       THEN /\ node' = [node EXCEPT ![d].state = "ready", ![d].id = n]
            /\ overdue' = overdue \ {d}
       ELSE UNCHANGED table
    /\ UNCHANGED <<cloud, incidents>>

\* Mutant: a droplet may join at any time.
AwaitJoinForever(d) ==
    /\ Present(d, "joining") /\ ~IsReady(SwarmNode(d))
    /\ UNCHANGED <<cloud, swarm, table, faults, incidents>>

AwaitJoin(d) ==
    /\ Present(d, "joining") /\ ~IsReady(SwarmNode(d))
    /\ SaveIf(d \in overdue, d, "failed")
    /\ UNCHANGED <<cloud, swarm, overdue, faults, incidents>>

\* Mutant: "down" is saved as the state, not as the error.
SuperviseState(d) ==
    LET n == SwarmNode(d) IN
    /\ Present(d, "ready")
    /\ node' = [node EXCEPT ![d].state = IF IsDown(n) THEN "down" ELSE "ready"]
    /\ UNCHANGED <<cloud, swarm, overdue, faults, incidents>>

\* A ready worker: drained by someone, down, down for too long, or back.
Supervise(d) ==
    LET n == SwarmNode(d)
        stillDown == node[d].down /\ IsDown(n)
    IN
    /\ Present(d, "ready")
    /\ IF n # 0 /\ snap[n].avail = "drain" THEN Save(d, "draining")
       ELSE IF stillDown THEN SaveIf(d \in overdue, d, "failed")
       ELSE node' = [node EXCEPT ![d].down = IsDown(n)]
    /\ overdue' = IF stillDown THEN overdue ELSE overdue \ {d}
    /\ UNCHANGED <<cloud, swarm, faults, incidents>>

\* Mutant: a drained node is taken for an empty one.
NotDrained(n) == n # 0 /\ snap[n].avail # "drain"

HasTasks(n) == n # 0 /\ snap[n].tasks

DeleteDrained(d, ok) ==
    /\ Present(d, "draining") /\ ~HasTasks(SwarmNode(d))
    /\ Answer(ok)
    /\ DeleteDroplet(d)
    /\ SaveIf(ok, d, "deleting")
    /\ UNCHANGED <<stale, swarm, overdue, incidents>>

AwaitDrain(d) ==
    /\ Present(d, "draining") /\ HasTasks(SwarmNode(d))
    /\ UNCHANGED <<cloud, swarm, table, faults, incidents>>

AwaitDeletion(d) ==
    /\ Advancing(d, {"deleting"})
    /\ SaveIf(d \notin listed /\ IsDown(SwarmNode(d)), d, "removing")
    /\ UNCHANGED <<cloud, swarm, overdue, faults, incidents>>

\* save(NodeDestroyed) and, in reconcile, the deletion of the row.
Forget(d) == node' = [node EXCEPT ![d] = NoRow] /\ overdue' = overdue \ {d}

RemoveMember(d, ok) ==
    LET n == SwarmNode(d) IN
    /\ Advancing(d, {"removing"})
    /\ IF n = 0 THEN ok /\ Forget(d) /\ UNCHANGED <<swarm, faults>>
       ELSE IF ~IsDown(n) THEN ok /\ UNCHANGED <<swarm, table, faults>>
       ELSE /\ Answer(ok)
            /\ Remove(n)
            /\ IF ok /\ swarm[n].state = "down" THEN Forget(d) ELSE UNCHANGED table
    /\ UNCHANGED <<cloud, incidents>>

\* A failed droplet is deleted, once or more, and then forgotten.
DeleteFailed(d, ok) ==
    LET n == SwarmNode(d) IN
    /\ Present(d, "failed")
    /\ Answer(ok)
    /\ DeleteDroplet(d)
    /\ IF ok /\ n # 0 /\ IsDown(n) THEN Remove(n) ELSE UNCHANGED swarm
    /\ UNCHANGED <<stale, table, incidents>>

ForgetFailed(d) ==
    LET n == SwarmNode(d) IN
    /\ Advancing(d, {"failed"}) /\ d \notin listed
    /\ IF n # 0 /\ IsDown(n) THEN Remove(n) ELSE UNCHANGED swarm
    /\ Forget(d)
    /\ UNCHANGED <<cloud, faults, incidents>>

\* The process stops between saving a row as destroyed and deleting it.
StopBeforeForget(d) ==
    /\ Current(d)
    /\ \/ node[d].state = "failed" /\ d \notin listed
       \/ node[d].state = "removing" /\ SwarmNode(d) = 0
    /\ Answer(FALSE)
    /\ Save(d, "destroyed")
    /\ EndTick
    /\ UNCHANGED <<cloud, swarm, overdue, incidents>>

\* Mutant: the nodes added by hand are removed, and those of the scaler are left.
GhostsByHand ==
    {n \in Droplets :
        snap[n].state = "down" /\ ~snap[n].label /\ \A d \in Droplets : node[d].id # n}

\* removeGhostWorkers, once every row was advanced.
Ghosts ==
    {n \in Droplets :
        /\ snap[n].state = "down" /\ snap[n].label
        /\ \A d \in Droplets :
            node[d].state # "none" =>
                node[d].id # n /\ ~(node[d].ip /\ Address[d] = Address[n])}

\* Each removal is a call of its own, and one that fails is only logged.
RemoveGhosts(removed) ==
    /\ todo = {}
    /\ Step("advance", "decide")
    /\ removed \subseteq Ghosts /\ Answer(removed = Ghosts)
    /\ swarm' = [n \in Droplets |-> IF n \in removed THEN Removed(n) ELSE swarm[n]]
    /\ UNCHANGED <<cloud, table, snap, listed, booted, todo, incidents>>

\* rotateToken: droplets that have not joined yet cannot do so any more.
RotateToken ==
    /\ pc = "decide"
    /\ Incident
    /\ stale' = {d \in Droplets : Exists(d) /\ swarm[d].state = "absent"}
    /\ UNCHANGED <<droplet, swarm, table, tick, faults>>

-----------------------------------------------------------------------------
\* Policy.Decide and what the loop does about it.

Workers == {n \in Droplets : snap[n].state = "ready" /\ snap[n].avail = "active"}

\* A node is being added or removed: the policy does not stack changes.
Changing == \E d \in Droplets : node[d].state \in Busy

\* Mutant: off by one at the upper limit.
DecideOverMax(load) ==
    LET count == Cardinality(Workers) IN
    IF Changing THEN "noop"
    ELSE IF count < MinWorkers \/ (load = "high" /\ count <= MaxWorkers) THEN "up"
    ELSE IF count > MinWorkers /\ load = "low" THEN "down"
    ELSE "noop"

Decide(load) ==
    LET count == Cardinality(Workers) IN
    IF Changing THEN "noop"
    ELSE IF count < MinWorkers THEN "up"
    ELSE IF load = "high" /\ count < MaxWorkers THEN "up"
    ELSE IF count > MinWorkers /\ load = "low" THEN "down"
    ELSE "noop"

Idle(load) ==
    /\ pc = "decide" /\ Decide(load) = "noop"
    /\ EndTick
    /\ UNCHANGED <<cloud, swarm, table, faults, incidents>>

\* Droplets are numbered in the order they are created, and DigitalOcean does not
\* give a new one an address that is in use.
NewDroplet(d) ==
    /\ droplet[d] = "none"
    /\ \A e \in Droplets : e < d => droplet[e] # "none"
    /\ \A e \in Droplets : Exists(e) => Address[e] # Address[d]

ScaleUp(load, d, ok) ==
    /\ pc = "decide" /\ Decide(load) = "up"
    /\ NewDroplet(d)
    /\ Answer(ok)
    /\ droplet' = [droplet EXCEPT ![d] = "new"]
    /\ IF ok
       THEN node' = [node EXCEPT ![d] = [NoRow EXCEPT !.state = "provisioning"]]
       ELSE UNCHANGED node
    /\ EndTick
    /\ UNCHANGED <<stale, swarm, overdue, incidents>>

\* There is no join token, or DigitalOcean refuses another droplet.
ScaleUpFails(load) ==
    /\ pc = "decide" /\ Decide(load) = "up"
    /\ EndTick
    /\ UNCHANGED <<cloud, swarm, table, faults, incidents>>

\* The candidates of PickScaleDown, as row and swarm node: fewest tasks, then newest.
Managed == {p \in Droplets \X Workers : node[p[1]].state = "ready" /\ node[p[1]].id = p[2]}
Emptiest == {p \in Managed : ~snap[p[2]].tasks}
PickScaleDown ==
    IF Emptiest = {} THEN Managed
    ELSE {p \in Emptiest : \A q \in Emptiest : q[1] <= p[1]}

ScaleDown(load, p, ok) ==
    /\ pc = "decide" /\ Decide(load) = "down"
    /\ p \in PickScaleDown
    /\ Answer(ok)
    /\ IF Joined(swarm[p[2]])
       THEN swarm' = [swarm EXCEPT ![p[2]].avail = "drain"]
       ELSE UNCHANGED swarm
    /\ IF ok /\ Joined(swarm[p[2]])
       THEN node' = [node EXCEPT ![p[1]].state = "draining"]
       ELSE UNCHANGED node
    /\ EndTick
    /\ UNCHANGED <<cloud, overdue, incidents>>

NothingToDrain(load) ==
    /\ pc = "decide" /\ Decide(load) = "down" /\ PickScaleDown = {}
    /\ EndTick
    /\ UNCHANGED <<cloud, swarm, table, faults, incidents>>

\* The scaler restarts, or a call that a tick cannot do without fails.
Restart ==
    /\ pc # "snapshot"
    /\ Answer(FALSE)
    /\ EndTick
    /\ UNCHANGED <<cloud, swarm, table, incidents>>

-----------------------------------------------------------------------------
\* DigitalOcean, the swarm, its operator, and time.

outsideWorld == <<tick, faults>>

\* It takes a droplet longer to boot than the swarm to notice that the machine
\* which had its address is gone.
Boot(d) ==
    /\ droplet[d] = "new"
    /\ \A n \in Droplets :
        Address[n] = Address[d] => swarm[n].state # "ready" /\ snap[n].state # "ready"
    /\ droplet' = [droplet EXCEPT ![d] = "active"]
    /\ UNCHANGED <<stale, swarm, table, incidents, outsideWorld>>

JoinSwarm(d) ==
    /\ droplet[d] = "active" /\ swarm[d].state = "absent" /\ d \notin stale
    /\ swarm' = [swarm EXCEPT ![d].state = "ready"]
    /\ UNCHANGED <<cloud, table, incidents, outsideWorld>>

PlaceTasks(n) ==
    /\ swarm[n].state = "ready" /\ swarm[n].avail = "active" /\ ~swarm[n].tasks
    /\ swarm' = [swarm EXCEPT ![n].tasks = TRUE]
    /\ UNCHANGED <<cloud, table, incidents, outsideWorld>>

MoveTasks(n) ==
    /\ swarm[n].tasks
    /\ swarm' = [swarm EXCEPT ![n].tasks = FALSE]
    /\ UNCHANGED <<cloud, table, incidents, outsideWorld>>

\* The swarm notices that the machine of a node is gone, or has lost it for a time.
Lose(n) ==
    /\ swarm[n].state = "ready"
    /\ IF Exists(n) THEN Incident ELSE UNCHANGED incidents
    /\ swarm' = [swarm EXCEPT ![n].state = "down", ![n].tasks = FALSE]
    /\ UNCHANGED <<cloud, table, outsideWorld>>

Recover(n) ==
    /\ swarm[n].state = "down" /\ droplet[n] = "active"
    /\ swarm' = [swarm EXCEPT ![n].state = "ready"]
    /\ UNCHANGED <<cloud, table, incidents, outsideWorld>>

OperatorDrains(n) ==
    /\ Joined(swarm[n]) /\ swarm[n].avail = "active"
    /\ Incident
    /\ swarm' = [swarm EXCEPT ![n].avail = "drain"]
    /\ UNCHANGED <<cloud, table, outsideWorld>>

OperatorDeletes(d) ==
    /\ Exists(d)
    /\ Incident
    /\ DeleteDroplet(d)
    /\ UNCHANGED <<stale, swarm, table, outsideWorld>>

\* The join timeout passes since a row was created, or since its node went down.
GrowOverdue(d) ==
    /\ d \notin overdue
    /\ Exists(d)
    /\ \/ node[d].state \in {"none", "provisioning", "joining"}
       \/ node[d].state = "ready" /\ node[d].down
    /\ overdue' = overdue \cup {d}
    /\ UNCHANGED <<cloud, swarm, node, incidents, outsideWorld>>

-----------------------------------------------------------------------------
AdvanceStep(d) ==
    \/ Disappear(d) \/ Provision(d) \/ AwaitJoin(d) \/ Supervise(d)
    \/ AwaitDrain(d) \/ AwaitDeletion(d) \/ ForgetFailed(d) \/ StopBeforeForget(d)
    \/ \E ok \in BOOLEAN :
            JoinPool(d, ok) \/ DeleteDrained(d, ok) \/ RemoveMember(d, ok) \/ DeleteFailed(d, ok)

ScaleStep(load) ==
    \/ Idle(load) \/ NothingToDrain(load) \/ ScaleUpFails(load)
    \/ \E ok \in BOOLEAN :
        \/ \E d \in Droplets : ScaleUp(load, d, ok)
        \/ \E p \in Droplets \X Droplets : ScaleDown(load, p, ok)

Tick ==
    \/ TakeSnapshot \/ ListDroplets
    \/ \E d \in Droplets : AdvanceStep(d)
    \/ \E removed \in SUBSET Droplets : RemoveGhosts(removed)
    \/ \E load \in Loads : ScaleStep(load)

World ==
    \/ \E d \in Droplets :
            \/ Boot(d) \/ JoinSwarm(d) \/ PlaceTasks(d) \/ MoveTasks(d) \/ Lose(d)
            \/ Recover(d) \/ OperatorDrains(d) \/ OperatorDeletes(d) \/ GrowOverdue(d)

Next == Tick \/ RotateToken \/ Restart \/ World

Spec == Init /\ [][Next]_vars
=============================================================================

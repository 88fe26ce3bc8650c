-------------------------- MODULE ScalerProperties --------------------------
(***************************************************************************)
(* What the worker autoscaler has to guarantee.                            *)
(***************************************************************************)
EXTENDS Scaler

\* Droplets the scaler creates, and droplets it deletes, in a step.
Created == {d \in Droplets : droplet[d] = "none" /\ droplet'[d] = "new"}
Deleted == {d \in Droplets : Exists(d) /\ droplet'[d] = "gone"}

\* A worker takes app tasks: its machine runs, and the swarm may place tasks on it.
Serving(n) ==
    /\ droplet[n] = "active"
    /\ swarm[n].state = "ready" /\ swarm[n].avail = "active" /\ swarm[n].label

\* "The policy never stacks changes": a worker is created or drained only while
\* every droplet that is paid for is a worker in the pool, also when the answer
\* to an earlier creation was lost or the scaler restarted in between.
Drained == {n \in Droplets : swarm[n].avail # "drain" /\ swarm'[n].avail = "drain"}
NeverStacks ==
    [][Created \cup Drained # {} /\ pc' # pc =>
            \A d \in Droplets : Exists(d) => node[d].state = "ready"]_vars

\* While nobody but the scaler touches droplets and nodes, there are never more
\* droplets than MAX_WORKERS allows.
MaxRespected ==
    incidents = 0 => Cardinality({d \in Droplets : Exists(d)}) <= MaxWorkers

\* Scaling down never leaves fewer than MIN_WORKERS serving, unless something
\* else takes workers away.
Enough == Cardinality({n \in Droplets : Serving(n)}) >= MinWorkers
KeepsMinimum == [][incidents' = 0 /\ Enough => Enough']_vars

\* "Drains it, deletes the droplet once it is empty": only a machine that was down
\* for too long, or never joined, is deleted without being empty.
DrainedFirst ==
    [][\A d \in Deleted : node[d].state # "failed" /\ pc' = pc /\ incidents' = incidents
            => ~swarm[d].tasks]_vars

\* "A crash mid-provision never leaves orphans": a droplet that is paid for is
\* tracked in the end.
NoOrphan == \A d \in Droplets : Exists(d) ~> ~Exists(d) \/ node[d].state # "none"

\* A change the scaler began ends, so the policy decides again.
NothingStuck == \A d \in Droplets : node[d].state \in Busy ~> node[d].state \notin Busy

\* The swarm does not keep nodes of workers that are gone.
Ghost(n) == droplet[n] = "gone" /\ swarm[n].label
GhostsRemoved == \A n \in Droplets : Ghost(n) ~> ~Ghost(n)

\* The scaler ticks, machines boot or their swarm node goes down with them, tasks
\* leave a drained node, and time passes.  Nobody has to join, recover or operate.
Progress(d) ==
    \/ Boot(d) \/ GrowOverdue(d)
    \/ droplet[d] = "gone" /\ Lose(d)
    \/ swarm[d].avail = "drain" /\ MoveTasks(d)
FairSpec == Spec /\ WF_vars(Tick) /\ \A d \in Droplets : WF_vars(Progress(d))
=============================================================================

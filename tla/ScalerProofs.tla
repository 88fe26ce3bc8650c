---------------------------- MODULE ScalerProofs ----------------------------
(***************************************************************************)
(* Proofs about Scaler for every limit, number of droplets and amount of   *)
(* trouble, and every assignment of addresses.                             *)
(*                                                                         *)
(* NeverStacks needs to know that the policy sees every droplet.  That is  *)
(* not so at all times: an answer may be lost after a droplet was created. *)
(* But a tick lists and adopts before it decides, so from then on every    *)
(* droplet that exists is listed (ListedAll) and has a row (Tracked), which *)
(* holds to the end of the tick because a row is only forgotten once its   *)
(* droplet is gone (DeletedGone).                                          *)
(*                                                                         *)
(* MaxRespected and DrainedFirst, in the second half, rest on what the     *)
(* scaler can conclude from an old snapshot: that a row in the pool has    *)
(* the swarm node of its own droplet (OwnNode), which holds because no two *)
(* machines that run have the same address (Apart, OneReady); that a node  *)
(* which was drained stays so (SnapPast); and, while nobody else touches   *)
(* anything, that every row in the pool was seen as a ready worker once it *)
(* was advanced (CalmSnap).                                                *)
(***************************************************************************)
EXTENDS ScalerProperties, FiniteSetTheorems, TLAPS

USE DEF cloud, table, tick, vars, outsideWorld

Listed == pc \in {"advance", "decide"}

\* From the moment a tick has listed the droplets, it knows all that exist.
ListedAll == Listed => \A d \in Droplets : Exists(d) => d \in listed

\* From then on each of them has a row.
Tracked == Listed => \A d \in Droplets : Exists(d) => node[d].state # "none"

\* A row past draining is that of a droplet that is gone.
DeletedGone ==
    \A d \in Droplets : node[d].state \in {"deleting", "removing", "destroyed"} => ~Exists(d)

\* There are no rows of droplets that were never created.
Rowless == \A d \in Droplets : droplet[d] = "none" => node[d].state = "none"

IInv == TypeOK /\ ListedAll /\ Tracked /\ DeletedGone /\ Rowless

-----------------------------------------------------------------------------
\* Writing a row, or a column of it, keeps the table's type.
LEMMA RowFields ==
    ASSUME TypeOK, NEW d \in Droplets
    PROVE  /\ node[d].id \in Droplets \cup {0} /\ node[d].ip \in BOOLEAN
           /\ node[d].state \in NodeStates \cup {"none"}
           /\ \A row \in Row : [node EXCEPT ![d] = row] \in [Droplets -> Row]
           /\ \A state \in NodeStates :
                /\ [node[d] EXCEPT !.state = state] \in Row
                /\ [node[d] EXCEPT !.state = state, !.down = FALSE] \in Row
                /\ [node[d] EXCEPT !.state = state, !.ip = TRUE] \in Row
                /\ \A n \in Droplets : [node[d] EXCEPT !.state = state, !.id = n] \in Row
           /\ \A down \in BOOLEAN : [node[d] EXCEPT !.down = down] \in Row
           /\ NoRow \in Row
<1>1. node[d] \in Row
  BY DEF TypeOK
<1>2. NoRow \in Row
  BY DEF NoRow, Row
<1>3. \A state \in NodeStates :
        /\ [node[d] EXCEPT !.state = state] \in Row
        /\ [node[d] EXCEPT !.state = state, !.down = FALSE] \in Row
        /\ [node[d] EXCEPT !.state = state, !.ip = TRUE] \in Row
        /\ \A n \in Droplets : [node[d] EXCEPT !.state = state, !.id = n] \in Row
  BY <1>1 DEF Row
<1>4. \A down \in BOOLEAN : [node[d] EXCEPT !.down = down] \in Row
  BY <1>1 DEF Row
<1>5. node[d].id \in Droplets \cup {0} /\ node[d].ip \in BOOLEAN
      /\ node[d].state \in NodeStates \cup {"none"}
  BY <1>1 DEF Row
<1>. QED  BY <1>2, <1>3, <1>4, <1>5 DEF TypeOK

\* Saving and forgetting a row do so.
LEMMA SaveType ==
    ASSUME TypeOK, NEW d \in Droplets
    PROVE  /\ \A state \in NodeStates : Save(d, state) => node' \in [Droplets -> Row]
           /\ UNCHANGED node => node' \in [Droplets -> Row]
           /\ Forget(d) => node' \in [Droplets -> Row] /\ overdue' \subseteq Droplets
<1>1. ASSUME NEW state \in NodeStates, Save(d, state)
      PROVE  node' \in [Droplets -> Row]
  <2>1. [node[d] EXCEPT !.state = state, !.down = FALSE] \in Row
    BY RowFields
  <2>2. node' = [node EXCEPT ![d] = [node[d] EXCEPT !.state = state, !.down = FALSE]]
    BY <1>1 DEF Save, TypeOK
  <2>. QED  BY <2>1, <2>2, RowFields
<1>2. Forget(d) => node' \in [Droplets -> Row]
  BY RowFields DEF Forget
<1>3. Forget(d) => overdue' \subseteq Droplets
  BY DEF Forget, TypeOK
<1>4. UNCHANGED node => node' \in [Droplets -> Row]
  BY DEF TypeOK
<1>. QED  BY <1>1, <1>2, <1>3, <1>4

\* The node a row is matched with is a node of the snapshot, or none.
LEMMA MatchType ==
    ASSUME TypeOK, NEW d \in Droplets
    PROVE  FindByAddress(d) \in Droplets \cup {0} /\ SwarmNode(d) \in Droplets \cup {0}
<1>1. FindByAddress(d) \in Droplets \cup {0}
  BY DEF FindByAddress, WithAddress
<1>. QED  BY <1>1, RowFields DEF SwarmNode

\* Changes of one swarm node keep the swarm's type.
LEMMA MemberFields ==
    ASSUME TypeOK, NEW n \in Droplets
    PROVE  /\ \A v \in BOOLEAN : /\ [swarm EXCEPT ![n].label = v] \in [Droplets -> Member]
                                 /\ [swarm EXCEPT ![n].tasks = v] \in [Droplets -> Member]
           /\ [swarm EXCEPT ![n].avail = "drain"] \in [Droplets -> Member]
           /\ [swarm EXCEPT ![n].state = "ready"] \in [Droplets -> Member]
           /\ [swarm EXCEPT ![n].state = "down", ![n].tasks = FALSE] \in [Droplets -> Member]
           /\ Removed(n) \in Member /\ swarm[n].label \in BOOLEAN
           /\ Remove(n) => swarm' \in [Droplets -> Member]
<1>1. swarm[n] \in Member
  BY DEF TypeOK
<1>2. Removed(n) \in Member
  BY <1>1 DEF Removed, NoMember, Member
<1>. QED  BY <1>1, <1>2 DEF TypeOK, Member, Remove

\* A call, and an incident, stay within the bound on trouble.
LEMMA TroubleFields ==
    ASSUME ScalerAssumption, TypeOK
    PROVE  /\ \A ok \in BOOLEAN : Answer(ok) => faults' \in 0 .. MaxTrouble
           /\ Incident => incidents' \in 0 .. MaxTrouble
BY DEF ScalerAssumption, TypeOK, Answer, Incident

\* DeleteDroplet only turns a droplet that exists into one that is gone.
LEMMA DeleteFields ==
    ASSUME TypeOK, NEW d \in Droplets, DeleteDroplet(d)
    PROVE  /\ droplet' \in [Droplets -> {"none", "new", "active", "gone"}]
           /\ ~Exists(d)' /\ \A e \in Droplets : Exists(e)' => Exists(e)
BY DEF TypeOK, DeleteDroplet, Exists
\* The end of a tick clears its memory.
LEMMA EndTickType ==
    ASSUME TypeOK, EndTick
    PROVE  /\ pc' = "snapshot" /\ snap' \in [Droplets -> Member]
           /\ listed' = {} /\ booted' = {} /\ todo' = {}
BY DEF EndTick, NoSnap, NoMember, Member

-----------------------------------------------------------------------------
\* Every step of the system keeps the types.

LEMMA TypeInit == ScalerAssumption /\ Init => TypeOK
<1>. SUFFICES ASSUME ScalerAssumption, Init PROVE TypeOK
  OBVIOUS
<1>1. NoMember \in Member /\ NoRow \in Row
  BY DEF NoMember, Member, NoRow, Row
<1>2. \A seed \in {"absent", "ready"} : [NoMember EXCEPT !.state = seed] \in Member
  BY DEF NoMember, Member
<1>3. swarm \in [Droplets -> Member]
  BY <1>1, <1>2 DEF Init
<1>. QED  BY <1>1, <1>3 DEF Init, TypeOK, NoSnap, ScalerAssumption

LEMMA TypeReads ==
    ASSUME TypeOK, TakeSnapshot \/ ListDroplets
    PROVE  TypeOK'
<1>1. CASE TakeSnapshot
  BY <1>1 DEF TypeOK, TakeSnapshot, Step
<1>2. CASE ListDroplets
  <2>1. \A d \in Droplets, active \in BOOLEAN : Adopted(d, active) \in Row
    BY MatchType DEF Adopted, Row, NodeStates
  <2>2. node' \in [Droplets -> Row]
    BY <1>2, <2>1 DEF ListDroplets, TypeOK
  <2>3. booted' \subseteq listed' /\ listed' \subseteq Droplets /\ todo' \subseteq Droplets
    BY <1>2 DEF ListDroplets, Exists
  <2>. QED  BY <1>2, <2>2, <2>3 DEF ListDroplets, TypeOK, Step
<1>. QED  BY <1>1, <1>2

LEMMA TypeAdvance ==
    ASSUME ScalerAssumption, TypeOK, NEW d \in Droplets, AdvanceStep(d)
    PROVE  TypeOK'
<1>. USE TroubleFields
<1>1. ASSUME NEW states, Advancing(d, states)
      PROVE  /\ pc' \in {"snapshot", "list", "advance", "decide"}
             /\ snap' \in [Droplets -> Member] /\ listed' \subseteq Droplets
             /\ booted' \subseteq listed' /\ todo' \subseteq Droplets
  BY <1>1 DEF Advancing, TypeOK
<1>2. /\ \A state \in NodeStates : Save(d, state) => node' \in [Droplets -> Row]
      /\ UNCHANGED node => node' \in [Droplets -> Row]
  BY SaveType
<1>3. Forget(d) => node' \in [Droplets -> Row] /\ overdue' \subseteq Droplets
  BY SaveType
<1>4. CASE Disappear(d)
  BY <1>1, <1>2, <1>4 DEF Disappear, TypeOK, NodeStates
<1>5. CASE Provision(d)
  <2>1. [node[d] EXCEPT !.state = "joining", !.ip = TRUE] \in Row
    BY RowFields DEF NodeStates
  <2>2. [node EXCEPT ![d].state = "joining", ![d].ip = TRUE] \in [Droplets -> Row]
    BY <2>1, RowFields DEF TypeOK
  <2>3. node' \in [Droplets -> Row]
    BY <1>2, <1>5, <2>2 DEF Provision, SaveIf, NodeStates
  <2>. QED  BY <1>1, <1>5, <2>3 DEF Provision, Present, TypeOK
<1>6. ASSUME NEW ok \in BOOLEAN, JoinPool(d, ok)
      PROVE  TypeOK'
  <2>1. SwarmNode(d) \in Droplets
    BY <1>6, MatchType DEF JoinPool, IsReady
  <2>a. [node[d] EXCEPT !.state = "ready", !.id = SwarmNode(d)] \in Row
    BY <2>1, RowFields DEF NodeStates
  <2>2. [node EXCEPT ![d].state = "ready", ![d].id = SwarmNode(d)] \in [Droplets -> Row]
    BY <2>a, RowFields DEF TypeOK
  <2>b. (swarm[SwarmNode(d)].label \/ Joined(swarm[SwarmNode(d)])) \in BOOLEAN
    OBVIOUS
  <2>3. swarm' \in [Droplets -> Member]
    BY <1>6, <2>1, <2>b, MemberFields DEF JoinPool
  <2>4. node' \in [Droplets -> Row] /\ overdue' \subseteq Droplets
    BY <1>6, <2>2 DEF JoinPool, TypeOK
  <2>. QED  BY <1>1, <1>6, <2>3, <2>4 DEF JoinPool, Present, TypeOK
<1>7. CASE AwaitJoin(d)
  <2>1. node' \in [Droplets -> Row]
    BY <1>2, <1>7 DEF AwaitJoin, SaveIf, NodeStates
  <2>. QED  BY <1>1, <1>7, <2>1 DEF AwaitJoin, Present, TypeOK
<1>8. CASE Supervise(d)
  <2>a. [node[d] EXCEPT !.down = IsDown(SwarmNode(d))] \in Row
    BY RowFields DEF IsDown
  <2>b. [node EXCEPT ![d].down = IsDown(SwarmNode(d))] \in [Droplets -> Row]
    BY <2>a, RowFields DEF TypeOK
  <2>1. node' \in [Droplets -> Row]
    BY <1>2, <1>8, <2>b DEF Supervise, SaveIf, NodeStates
  <2>2. overdue' \subseteq Droplets
    BY <1>8 DEF Supervise, TypeOK
  <2>. QED  BY <1>1, <1>8, <2>1, <2>2 DEF Supervise, Present, TypeOK
<1>9. ASSUME NEW ok \in BOOLEAN, DeleteDrained(d, ok)
      PROVE  TypeOK'
  <2>1. node' \in [Droplets -> Row]
    BY <1>2, <1>9 DEF DeleteDrained, SaveIf, NodeStates
  <2>2. droplet' \in [Droplets -> {"none", "new", "active", "gone"}]
    BY <1>9, DeleteFields DEF DeleteDrained
  <2>. QED  BY <1>1, <1>9, <2>1, <2>2 DEF DeleteDrained, Present, TypeOK
<1>10. CASE AwaitDrain(d)
  BY <1>1, <1>10 DEF AwaitDrain, Present, TypeOK
<1>11. CASE AwaitDeletion(d)
  <2>1. node' \in [Droplets -> Row]
    BY <1>2, <1>11 DEF AwaitDeletion, SaveIf, NodeStates
  <2>. QED  BY <1>1, <1>11, <2>1 DEF AwaitDeletion, TypeOK
<1>12. ASSUME NEW ok \in BOOLEAN, RemoveMember(d, ok)
       PROVE  TypeOK'
  <2>1. /\ swarm' \in [Droplets -> Member] /\ faults' \in 0 .. MaxTrouble
        /\ node' \in [Droplets -> Row] /\ overdue' \subseteq Droplets
    BY <1>3, <1>12, MatchType, MemberFields DEF RemoveMember, IsDown, TypeOK
  <2>. QED  BY <1>1, <1>12, <2>1 DEF RemoveMember, TypeOK
<1>13. ASSUME NEW ok \in BOOLEAN, DeleteFailed(d, ok)
       PROVE  TypeOK'
  <2>1. swarm' \in [Droplets -> Member]
    BY <1>13, MatchType, MemberFields DEF DeleteFailed, TypeOK
  <2>2. droplet' \in [Droplets -> {"none", "new", "active", "gone"}]
    BY <1>13, DeleteFields DEF DeleteFailed
  <2>. QED  BY <1>1, <1>13, <2>1, <2>2 DEF DeleteFailed, Present, TypeOK
<1>14. CASE ForgetFailed(d)
  <2>1. swarm' \in [Droplets -> Member]
    BY <1>14, MatchType, MemberFields DEF ForgetFailed, TypeOK
  <2>. QED  BY <1>1, <1>3, <1>14, <2>1 DEF ForgetFailed, TypeOK
<1>15. CASE StopBeforeForget(d)
  BY <1>2, <1>15, EndTickType DEF StopBeforeForget, TypeOK, NodeStates
<1>. QED
  BY <1>4, <1>5, <1>6, <1>7, <1>8, <1>9, <1>10, <1>11, <1>12, <1>13, <1>14, <1>15
  DEF AdvanceStep

LEMMA TypeDecides ==
    ASSUME ScalerAssumption, TypeOK,
           \/ \E removed \in SUBSET Droplets : RemoveGhosts(removed)
           \/ \E load \in Loads : ScaleStep(load)
           \/ RotateToken \/ Restart
    PROVE  TypeOK'
<1>. USE MemberFields, TroubleFields, EndTickType
<1>1. ASSUME NEW removed \in SUBSET Droplets, RemoveGhosts(removed)
      PROVE  TypeOK'
  <2>1. swarm' \in [Droplets -> Member]
    BY <1>1 DEF RemoveGhosts, TypeOK
  <2>. QED  BY <1>1, <2>1 DEF RemoveGhosts, Step, TypeOK
<1>2. ASSUME NEW load \in Loads, ScaleStep(load)
      PROVE  TypeOK'
  <2>1. CASE Idle(load) \/ NothingToDrain(load) \/ ScaleUpFails(load)
    BY <2>1 DEF Idle, NothingToDrain, ScaleUpFails, TypeOK
  <2>2. ASSUME NEW ok \in BOOLEAN, NEW d \in Droplets, ScaleUp(load, d, ok)
        PROVE  TypeOK'
    <3>1. [NoRow EXCEPT !.state = "provisioning"] \in Row
      BY DEF NoRow, Row, NodeStates
    <3>a. [node EXCEPT ![d] = [NoRow EXCEPT !.state = "provisioning"]] \in [Droplets -> Row]
      BY <3>1, RowFields
    <3>2. node' \in [Droplets -> Row]
      BY <2>2, <3>a DEF ScaleUp, TypeOK
    <3>3. droplet' \in [Droplets -> {"none", "new", "active", "gone"}]
      BY <2>2 DEF ScaleUp, TypeOK
    <3>. QED  BY <2>2, <3>2, <3>3 DEF ScaleUp, TypeOK
  <2>3. ASSUME NEW ok \in BOOLEAN, NEW p \in Droplets \X Droplets, ScaleDown(load, p, ok)
        PROVE  TypeOK'
    <3>a. PICK d \in Droplets, n \in Droplets : p = <<d, n>>
      BY <2>3
    <3>b. p[1] = d /\ p[2] = n
      BY <3>a
    <3>e. [swarm EXCEPT ![n].avail = "drain"] \in [Droplets -> Member]
      BY MemberFields
    <3>1. swarm' \in [Droplets -> Member]
      BY <2>3, <3>b, <3>e DEF ScaleDown, TypeOK
    <3>c. [node[d] EXCEPT !.state = "draining"] \in Row
      BY RowFields DEF NodeStates
    <3>d. [node EXCEPT ![d].state = "draining"] \in [Droplets -> Row]
      BY <3>c, RowFields DEF TypeOK
    <3>2. node' \in [Droplets -> Row]
      BY <2>3, <3>b, <3>d DEF ScaleDown, TypeOK
    <3>. QED  BY <2>3, <3>1, <3>2 DEF ScaleDown, TypeOK
  <2>. QED  BY <1>2, <2>1, <2>2, <2>3 DEF ScaleStep
<1>3. CASE RotateToken
  BY <1>3 DEF RotateToken, TypeOK
<1>4. CASE Restart
  BY <1>4 DEF Restart, TypeOK
<1>. QED  BY <1>1, <1>2, <1>3, <1>4

LEMMA TypeWorld ==
    ASSUME ScalerAssumption, TypeOK, World
    PROVE  TypeOK'
<1>. USE MemberFields, TroubleFields, DeleteFields
<1>. PICK d \in Droplets :
        \/ Boot(d) \/ JoinSwarm(d) \/ PlaceTasks(d) \/ MoveTasks(d) \/ Lose(d)
        \/ Recover(d) \/ OperatorDrains(d) \/ OperatorDeletes(d) \/ GrowOverdue(d)
  BY DEF World
<1>1. CASE Boot(d)
  BY <1>1 DEF Boot, TypeOK
<1>2. CASE JoinSwarm(d) \/ PlaceTasks(d) \/ MoveTasks(d) \/ Recover(d)
  <2>a. /\ [swarm EXCEPT ![d].state = "ready"] \in [Droplets -> Member]
        /\ [swarm EXCEPT ![d].tasks = TRUE] \in [Droplets -> Member]
        /\ [swarm EXCEPT ![d].tasks = FALSE] \in [Droplets -> Member]
    OBVIOUS
  <2>1. swarm' \in [Droplets -> Member]
    BY <1>2, <2>a DEF JoinSwarm, PlaceTasks, MoveTasks, Recover
  <2>. QED  BY <1>2, <2>1 DEF JoinSwarm, PlaceTasks, MoveTasks, Recover, TypeOK
<1>3. CASE Lose(d) \/ OperatorDrains(d)
  <2>1. swarm' \in [Droplets -> Member]
    BY <1>3 DEF Lose, OperatorDrains
  <2>2. incidents' \in 0 .. MaxTrouble
    BY <1>3 DEF Lose, OperatorDrains, TypeOK
  <2>. QED  BY <1>3, <2>1, <2>2 DEF Lose, OperatorDrains, TypeOK
<1>4. CASE OperatorDeletes(d)
  BY <1>4 DEF OperatorDeletes, TypeOK
<1>5. CASE GrowOverdue(d)
  BY <1>5 DEF GrowOverdue, TypeOK
<1>. QED  BY <1>1, <1>2, <1>3, <1>4, <1>5

LEMMA TypeStep ==
    ASSUME ScalerAssumption, TypeOK, [Next]_vars
    PROVE  TypeOK'
<1>1. CASE UNCHANGED vars
  BY <1>1 DEF TypeOK
<1>2. CASE Next
  BY <1>2, TypeReads, TypeAdvance, TypeDecides, TypeWorld DEF Next, Tick
<1>. QED  BY <1>1, <1>2

-----------------------------------------------------------------------------
\* What a step does to the droplets and to the rows that the invariant is about.

\* Only a row with a state is advanced, once the droplets were listed.
LEMMA AdvancedRow ==
    ASSUME NEW d \in Droplets, AdvanceStep(d)
    PROVE  node[d].state # "none" /\ pc = "advance"
BY DEF AdvanceStep, Disappear, Provision, AwaitJoin, Supervise, AwaitDrain, AwaitDeletion,
       ForgetFailed, StopBeforeForget, JoinPool, DeleteDrained, RemoveMember, DeleteFailed,
       Advancing, Present, Current, NodeStates

\* Between listing and deciding, a step of a row changes only that row, and leaves
\* it without a state, or with one past draining, only if the droplet is gone.
Gone(d) == node[d].state \in {"none", "deleting", "removing", "destroyed"} => ~Exists(d)

LEMMA AdvanceEffect ==
    ASSUME IInv, NEW d \in Droplets, AdvanceStep(d)
    PROVE  /\ \A e \in Droplets : Exists(e)' => Exists(e)
           /\ \A e \in Droplets \ {d} : node'[e].state = node[e].state
           /\ Gone(d)'
           /\ pc' = "snapshot" \/ (pc = "advance" /\ UNCHANGED <<pc, listed>>)
<1>1. node[d].state # "none"
  BY AdvancedRow
<1>2. ASSUME NEW states, Advancing(d, states)
      PROVE  /\ pc = "advance" /\ UNCHANGED <<pc, listed>> /\ node[d].state \in states
             /\ d \notin listed => ~Exists(d)
  BY <1>2 DEF Advancing, Current, IInv, ListedAll, Listed
<1>3. Gone(d)
  BY <1>1 DEF Gone, IInv, DeletedGone
<1>4. ASSUME NEW state, Save(d, state)
      PROVE  /\ \A e \in Droplets \ {d} : node'[e].state = node[e].state
             /\ node'[d].state = state
  BY <1>4 DEF Save, IInv, TypeOK
<1>5. Forget(d) => /\ \A e \in Droplets \ {d} : node'[e].state = node[e].state
                   /\ node'[d].state = "none"
  BY DEF Forget, IInv, TypeOK, NoRow
<1>a. UNCHANGED node => \A e \in Droplets : node'[e].state = node[e].state
  OBVIOUS
<1>6. UNCHANGED droplet => \A e \in Droplets : Exists(e)' <=> Exists(e)
  BY DEF Exists
<1>7. DeleteDroplet(d) => ~Exists(d)' /\ \A e \in Droplets : Exists(e)' => Exists(e)
  BY DeleteFields DEF IInv
<1>8. CASE Disappear(d)
  BY <1>2, <1>4, <1>6, <1>8 DEF Disappear, Gone
<1>9. CASE Provision(d)
  <2>a. node' = [node EXCEPT ![d].state = "joining", ![d].ip = TRUE]
            => /\ \A e \in Droplets \ {d} : node'[e].state = node[e].state
               /\ node'[d].state = "joining"
    BY DEF IInv, TypeOK, Row
  <2>b. node[d].state = "provisioning"
    BY <1>2, <1>9 DEF Provision, Present
  <2>c. \/ node' = [node EXCEPT ![d].state = "joining", ![d].ip = TRUE]
        \/ Save(d, "failed") \/ UNCHANGED node
    BY <1>9 DEF Provision, SaveIf
  <2>1. /\ \A e \in Droplets \ {d} : node'[e].state = node[e].state
        /\ node'[d].state \in {"joining", "failed", "provisioning"}
    BY <1>4, <1>a, <2>a, <2>b, <2>c
  <2>. QED  BY <1>2, <1>6, <1>9, <2>1 DEF Provision, Present, Gone
<1>10. ASSUME NEW ok \in BOOLEAN, JoinPool(d, ok)
       PROVE  /\ \A e \in Droplets : Exists(e)' => Exists(e)
              /\ \A e \in Droplets \ {d} : node'[e].state = node[e].state
              /\ Gone(d)' /\ UNCHANGED <<pc, listed>> /\ pc = "advance"
  <2>a. \A n : node' = [node EXCEPT ![d].state = "ready", ![d].id = n]
            => /\ \A e \in Droplets \ {d} : node'[e].state = node[e].state
               /\ node'[d].state = "ready"
    BY DEF IInv, TypeOK, Row
  <2>b. node[d].state = "joining"
    BY <1>2, <1>10 DEF JoinPool, Present
  <2>c. \/ \E n : node' = [node EXCEPT ![d].state = "ready", ![d].id = n]
        \/ UNCHANGED node
    BY <1>10 DEF JoinPool
  <2>1. /\ \A e \in Droplets \ {d} : node'[e].state = node[e].state
        /\ node'[d].state \in {"ready", "joining"}
    BY <1>a, <2>a, <2>b, <2>c
  <2>. QED  BY <1>2, <1>6, <1>10, <2>1 DEF JoinPool, Present, Gone
<1>11. CASE AwaitJoin(d)
  <2>1. /\ \A e \in Droplets \ {d} : node'[e].state = node[e].state
        /\ node'[d].state \in {"failed", "joining"}
    BY <1>2, <1>4, <1>11 DEF AwaitJoin, Present, SaveIf
  <2>. QED  BY <1>2, <1>6, <1>11, <2>1 DEF AwaitJoin, Present, Gone
<1>12. CASE Supervise(d)
  <2>a. \A down : node' = [node EXCEPT ![d].down = down]
            => \A e \in Droplets : node'[e].state = node[e].state
    BY DEF IInv, TypeOK, Row
  <2>b. node[d].state = "ready"
    BY <1>2, <1>12 DEF Supervise, Present
  <2>c. \/ Save(d, "draining") \/ Save(d, "failed") \/ UNCHANGED node
        \/ \E down : node' = [node EXCEPT ![d].down = down]
    BY <1>12 DEF Supervise, SaveIf
  <2>1. /\ \A e \in Droplets \ {d} : node'[e].state = node[e].state
        /\ node'[d].state \in {"draining", "failed", "ready"}
    BY <1>4, <1>a, <2>a, <2>b, <2>c
  <2>. QED  BY <1>2, <1>6, <1>12, <2>1 DEF Supervise, Present, Gone
<1>13. ASSUME NEW ok \in BOOLEAN, DeleteDrained(d, ok)
       PROVE  /\ \A e \in Droplets : Exists(e)' => Exists(e)
              /\ \A e \in Droplets \ {d} : node'[e].state = node[e].state
              /\ Gone(d)' /\ UNCHANGED <<pc, listed>> /\ pc = "advance"
  <2>1. \A e \in Droplets \ {d} : node'[e].state = node[e].state
    BY <1>4, <1>13 DEF DeleteDrained, SaveIf
  <2>. QED  BY <1>2, <1>7, <1>13, <2>1 DEF DeleteDrained, Present, Gone
<1>14. CASE AwaitDrain(d)
  BY <1>2, <1>3, <1>6, <1>14 DEF AwaitDrain, Present, Gone
<1>15. CASE AwaitDeletion(d)
  <2>1. /\ \A e \in Droplets \ {d} : node'[e].state = node[e].state
        /\ ~Exists(d)
    BY <1>2, <1>3, <1>4, <1>15 DEF AwaitDeletion, SaveIf, Gone
  <2>. QED  BY <1>2, <1>6, <1>15, <2>1 DEF AwaitDeletion, Gone
<1>16. ASSUME NEW ok \in BOOLEAN, RemoveMember(d, ok)
       PROVE  /\ \A e \in Droplets : Exists(e)' => Exists(e)
              /\ \A e \in Droplets \ {d} : node'[e].state = node[e].state
              /\ Gone(d)' /\ UNCHANGED <<pc, listed>> /\ pc = "advance"
  <2>1. /\ \A e \in Droplets \ {d} : node'[e].state = node[e].state
        /\ ~Exists(d)
    BY <1>2, <1>3, <1>5, <1>16 DEF RemoveMember, Gone
  <2>. QED  BY <1>2, <1>6, <1>16, <2>1 DEF RemoveMember, Gone
<1>17. ASSUME NEW ok \in BOOLEAN, DeleteFailed(d, ok)
       PROVE  /\ \A e \in Droplets : Exists(e)' => Exists(e)
              /\ \A e \in Droplets \ {d} : node'[e].state = node[e].state
              /\ Gone(d)' /\ UNCHANGED <<pc, listed>> /\ pc = "advance"
  BY <1>2, <1>7, <1>17 DEF DeleteFailed, Present, Gone
<1>18. CASE ForgetFailed(d)
  BY <1>2, <1>5, <1>6, <1>18 DEF ForgetFailed, Gone
<1>19. CASE StopBeforeForget(d)
  <2>1. ~Exists(d)
    BY <1>3, <1>19 DEF StopBeforeForget, Current, Gone, IInv, ListedAll, Listed
  <2>. QED  BY <1>4, <1>6, <1>19, <2>1 DEF StopBeforeForget, EndTick, Gone
<1>. QED
  BY <1>8, <1>9, <1>10, <1>11, <1>12, <1>13, <1>14, <1>15, <1>16, <1>17, <1>18, <1>19
  DEF AdvanceStep

\* Outside of the tick, droplets only start and end; no row changes.
LEMMA WorldEffect ==
    ASSUME TypeOK, World
    PROVE  /\ \A e \in Droplets : Exists(e)' => Exists(e)
           /\ UNCHANGED <<node, pc, listed>>
<1>. PICK d \in Droplets :
        \/ Boot(d) \/ JoinSwarm(d) \/ PlaceTasks(d) \/ MoveTasks(d) \/ Lose(d)
        \/ Recover(d) \/ OperatorDrains(d) \/ OperatorDeletes(d) \/ GrowOverdue(d)
  BY DEF World
<1>1. CASE OperatorDeletes(d)
  BY <1>1, DeleteFields DEF OperatorDeletes
<1>2. CASE Boot(d)
  BY <1>2 DEF Boot, Exists, TypeOK
<1>3. CASE \/ JoinSwarm(d) \/ PlaceTasks(d) \/ MoveTasks(d) \/ Lose(d)
           \/ Recover(d) \/ OperatorDrains(d) \/ GrowOverdue(d)
  BY <1>3 DEF JoinSwarm, PlaceTasks, MoveTasks, Lose, Recover, OperatorDrains,
              GrowOverdue, Exists
<1>. QED  BY <1>1, <1>2, <1>3

\* The steps that neither list droplets nor advance a row change no droplet, but for
\* a scale-up, and no row, but for a scale-up or a scale-down: both end the tick.
LEMMA DecideEffect ==
    ASSUME IInv,
           \/ TakeSnapshot \/ RotateToken \/ Restart
           \/ \E removed \in SUBSET Droplets : RemoveGhosts(removed)
           \/ \E load \in Loads : ScaleStep(load)
    PROVE  /\ Listed' => Listed /\ UNCHANGED <<droplet, node, listed>>
           /\ DeletedGone' /\ Rowless'
<1>1. CASE TakeSnapshot \/ RotateToken \/ Restart
  BY <1>1 DEF TakeSnapshot, RotateToken, Restart, EndTick, Step, Listed, IInv, DeletedGone, Rowless,
              Exists
<1>2. CASE \E removed \in SUBSET Droplets : RemoveGhosts(removed)
  BY <1>2 DEF RemoveGhosts, Step, Listed, IInv, DeletedGone, Rowless, Exists
<1>3. ASSUME NEW load \in Loads, ScaleStep(load)
      PROVE  ~Listed' /\ DeletedGone' /\ Rowless'
  <2>1. CASE Idle(load) \/ NothingToDrain(load) \/ ScaleUpFails(load)
    BY <2>1 DEF Idle, NothingToDrain, ScaleUpFails, EndTick, Listed, IInv, DeletedGone, Rowless,
                Exists
  <2>2. ASSUME NEW ok \in BOOLEAN, NEW d \in Droplets, ScaleUp(load, d, ok)
        PROVE  ~Listed' /\ DeletedGone' /\ Rowless'
    <3>1. node[d].state \notin Busy
      BY <2>2 DEF ScaleUp, Decide, Changing
    <3>a. /\ \A e \in Droplets \ {d} : node'[e].state = node[e].state
          /\ node'[d].state \in {"provisioning", node[d].state}
      <4>1. [NoRow EXCEPT !.state = "provisioning"].state = "provisioning"
        BY DEF NoRow
      <4>. QED  BY <2>2, <4>1 DEF ScaleUp, IInv, TypeOK
    <3>b. node[d].state = "none" /\ droplet'[d] # "none"
      BY <2>2 DEF ScaleUp, NewDroplet, IInv, Rowless, TypeOK
    <3>c. \A e \in Droplets \ {d} : droplet'[e] = droplet[e]
      BY <2>2 DEF ScaleUp, IInv, TypeOK
    <3>2. node'[d].state \notin {"deleting", "removing", "destroyed"}
      BY <3>1, <3>a, <3>b DEF Busy
    <3>3. \A e \in Droplets \ {d} : Exists(e)' <=> Exists(e)
      BY <2>2 DEF ScaleUp, IInv, TypeOK, Exists
    <3>4. DeletedGone' /\ Rowless'
      BY <3>a, <3>b, <3>c, <3>2, <3>3 DEF IInv, DeletedGone, Rowless
    <3>. QED  BY <2>2, <3>4 DEF ScaleUp, EndTick, Listed
  <2>3. ASSUME NEW ok \in BOOLEAN, NEW p \in Droplets \X Droplets, ScaleDown(load, p, ok)
        PROVE  ~Listed' /\ DeletedGone' /\ Rowless'
    <3>a. PICK d \in Droplets, n \in Droplets : p = <<d, n>>
      BY <2>3
    <3>b. p[1] = d
      BY <3>a
    <3>c. node' = [node EXCEPT ![d].state = "draining"] \/ UNCHANGED node
      BY <2>3, <3>b DEF ScaleDown
    <3>d. node' = [node EXCEPT ![d].state = "draining"]
            => /\ \A e \in Droplets \ {d} : node'[e].state = node[e].state
               /\ node'[d].state = "draining"
      BY DEF IInv, TypeOK, Row
    <3>1. \A e \in Droplets : node'[e].state \in {"deleting", "removing", "destroyed"}
                => node'[e].state = node[e].state
      BY <3>c, <3>d
    <3>2. droplet[d] # "none"
      BY <2>3, <3>b DEF ScaleDown, PickScaleDown, Managed, Emptiest, IInv, Rowless
    <3>3. UNCHANGED droplet
      BY <2>3 DEF ScaleDown
    <3>4. DeletedGone'
      BY <3>1, <3>3 DEF IInv, DeletedGone, Exists
    <3>5. Rowless'
      BY <3>c, <3>d, <3>2, <3>3 DEF IInv, Rowless
    <3>. QED  BY <2>3, <3>4, <3>5 DEF ScaleDown, EndTick, Listed
  <2>. QED  BY <1>3, <2>1, <2>2, <2>3 DEF ScaleStep
<1>. QED  BY <1>1, <1>2, <1>3

\* Listing takes note of every droplet there is, and adopts those without a row.
LEMMA ListEffect ==
    ASSUME IInv, ListDroplets
    PROVE  /\ UNCHANGED droplet
           /\ \A d \in Droplets : Exists(d) => d \in listed' /\ node'[d].state # "none"
           /\ \A d \in Droplets : ~Exists(d) \/ node[d].state # "none" => node'[d] = node[d]
<1>1. \A d \in Droplets, active \in BOOLEAN : Adopted(d, active).state # "none"
  BY DEF Adopted
<1>2. \A d \in Droplets : node'[d] = IF Exists(d) /\ node[d].state = "none"
                                     THEN Adopted(d, droplet[d] = "active") ELSE node[d]
  BY DEF ListDroplets
<1>. QED  BY <1>1, <1>2 DEF ListDroplets

\* Droplets are created once.
LEMMA CreatedOnce ==
    ASSUME TypeOK, [Next]_vars
    PROVE  \A d \in Droplets : droplet'[d] = "none" => droplet[d] = "none"
<1>1. \A d \in Droplets : DeleteDroplet(d) =>
        \A e \in Droplets : droplet'[e] = "none" => droplet[e] = "none"
  BY DEF DeleteDroplet, Exists, TypeOK
<1>2. ASSUME NEW d \in Droplets, AdvanceStep(d)
      PROVE  \A e \in Droplets : droplet'[e] = "none" => droplet[e] = "none"
  BY <1>1, <1>2
  DEF AdvanceStep, Disappear, Provision, AwaitJoin, Supervise, AwaitDrain, AwaitDeletion,
      ForgetFailed, StopBeforeForget, JoinPool, DeleteDrained, RemoveMember, DeleteFailed
<1>3. ASSUME NEW load \in Loads, ScaleStep(load)
      PROVE  \A e \in Droplets : droplet'[e] = "none" => droplet[e] = "none"
  BY <1>3
  DEF ScaleStep, Idle, NothingToDrain, ScaleUpFails, ScaleUp, ScaleDown, TypeOK
<1>4. ASSUME World
      PROVE  \A e \in Droplets : droplet'[e] = "none" => droplet[e] = "none"
  <2>. PICK d \in Droplets :
        \/ Boot(d) \/ JoinSwarm(d) \/ PlaceTasks(d) \/ MoveTasks(d) \/ Lose(d)
        \/ Recover(d) \/ OperatorDrains(d) \/ OperatorDeletes(d) \/ GrowOverdue(d)
    BY <1>4 DEF World
  <2>. QED  BY <1>1 DEF Boot, JoinSwarm, PlaceTasks, MoveTasks, Lose, Recover,
                        OperatorDrains, OperatorDeletes, GrowOverdue, TypeOK
<1>5. CASE \/ TakeSnapshot \/ ListDroplets \/ RotateToken \/ Restart \/ UNCHANGED vars
           \/ \E removed \in SUBSET Droplets : RemoveGhosts(removed)
  BY <1>5 DEF TakeSnapshot, ListDroplets, RotateToken, Restart, RemoveGhosts
<1>. QED  BY <1>2, <1>3, <1>4, <1>5 DEF Next, Tick

-----------------------------------------------------------------------------
\* The invariant is inductive.

LEMMA InvInit == ScalerAssumption /\ Init => IInv
<1>. SUFFICES ASSUME ScalerAssumption, Init PROVE IInv
  OBVIOUS
<1>1. TypeOK
  BY TypeInit
<1>2. \A d \in Droplets : node[d].state = "none"
  BY DEF Init, NoRow
<1>. QED  BY <1>1, <1>2 DEF Init, IInv, ListedAll, Tracked, DeletedGone, Rowless, Listed

LEMMA InvStep ==
    ASSUME ScalerAssumption, IInv, [Next]_vars
    PROVE  IInv'
<1>1. TypeOK'
  BY TypeStep DEF IInv
<1>2. \A d \in Droplets : droplet'[d] = "none" => droplet[d] = "none"
  BY CreatedOnce DEF IInv
<1>3. CASE UNCHANGED vars
  BY <1>1, <1>3 DEF IInv, ListedAll, Tracked, DeletedGone, Rowless, Listed, Exists
<1>4. CASE ListDroplets
  <2>1. \A d \in Droplets : Exists(d)' <=> Exists(d)
    BY <1>4, ListEffect DEF Exists
  <2>2. ListedAll' /\ Tracked'
    BY <1>4, <2>1, ListEffect DEF ListedAll, Tracked
  <2>3. DeletedGone'
    <3>. SUFFICES ASSUME NEW d \in Droplets, Exists(d)
                  PROVE  node'[d].state \notin {"deleting", "removing", "destroyed"}
      BY <2>1 DEF DeletedGone
    <3>1. CASE node[d].state = "none"
      BY <1>4, <3>1 DEF ListDroplets, Adopted
    <3>2. CASE node[d].state # "none"
      BY <1>4, <3>2, ListEffect DEF IInv, DeletedGone
    <3>. QED  BY <3>1, <3>2
  <2>4. Rowless'
    BY <1>2, <1>4, ListEffect DEF IInv, Rowless, Exists
  <2>. QED  BY <1>1, <2>2, <2>3, <2>4 DEF IInv
<1>5. ASSUME NEW d \in Droplets, AdvanceStep(d)
      PROVE  IInv'
  <2>1. Listed' => Listed /\ UNCHANGED listed
    BY <1>5, AdvanceEffect DEF Listed
  <2>2. ListedAll'
    BY <1>5, <2>1, AdvanceEffect DEF IInv, ListedAll
  <2>3. Tracked'
    <3>1. \A e \in Droplets \ {d} : Listed' /\ Exists(e)' => node'[e].state # "none"
      BY <1>5, <2>1, AdvanceEffect DEF IInv, Tracked
    <3>2. Exists(d)' => node'[d].state # "none"
      BY <1>5, AdvanceEffect DEF Gone
    <3>. QED  BY <3>1, <3>2 DEF Tracked
  <2>4. DeletedGone'
    BY <1>5, AdvanceEffect DEF IInv, DeletedGone, Gone
  <2>5. Rowless'
    <3>1. droplet[d] # "none"
      BY <1>5, AdvancedRow DEF IInv, Rowless
    <3>. QED  BY <1>2, <1>5, <3>1, AdvanceEffect DEF IInv, Rowless
  <2>. QED  BY <1>1, <2>2, <2>3, <2>4, <2>5 DEF IInv
<1>6. CASE \/ TakeSnapshot \/ RotateToken \/ Restart
           \/ \E removed \in SUBSET Droplets : RemoveGhosts(removed)
           \/ \E load \in Loads : ScaleStep(load)
  <2>1. ListedAll' /\ Tracked'
    BY <1>6, DecideEffect DEF IInv, ListedAll, Tracked, Exists
  <2>2. DeletedGone' /\ Rowless'
    BY <1>6, DecideEffect DEF IInv
  <2>. QED  BY <1>1, <2>1, <2>2 DEF IInv
<1>7. CASE World
  BY <1>1, <1>2, <1>7, WorldEffect
  DEF IInv, ListedAll, Tracked, DeletedGone, Rowless, Listed
<1>. QED  BY <1>3, <1>4, <1>5, <1>6, <1>7 DEF Next, Tick

-----------------------------------------------------------------------------
\* The inductive invariant: from the moment a tick has listed the droplets until it
\* ends, every droplet that exists is listed and has a row, and a row past draining is
\* that of a droplet that is gone, also after restarts and lost answers.
THEOREM TickKnowsDroplets == Spec => []IInv
<1>1. Init => IInv
  BY InvInit, ScalerAssumption
<1>2. IInv /\ [Next]_vars => IInv'
  BY InvStep, ScalerAssumption
<1>. QED  BY <1>1, <1>2, PTL DEF Spec

\* The node table, the droplets and the tick keep their types, whatever the limits.
THEOREM TypeCorrect == Spec => []TypeOK
<1>1. IInv => TypeOK
  BY DEF IInv
<1>. QED  BY <1>1, TickKnowsDroplets, PTL

\* Only a scale-up creates a droplet, and nothing but a scale-down both drains a node
\* and moves the tick on.
LEMMA ScalingSteps ==
    ASSUME TypeOK, Next, Created \cup Drained # {}, pc' # pc
    PROVE  \E load \in Loads : ScaleStep(load)
<1>1. CASE TakeSnapshot \/ ListDroplets
  BY <1>1 DEF TakeSnapshot, ListDroplets, Created, Drained
<1>2. ASSUME NEW removed \in SUBSET Droplets, RemoveGhosts(removed)
      PROVE  FALSE
  <2>1. \A n \in Droplets : swarm'[n].avail = "drain" => swarm[n].avail = "drain"
    BY <1>2 DEF RemoveGhosts, Removed, NoMember, TypeOK
  <2>. QED  BY <1>2, <2>1 DEF RemoveGhosts, Created, Drained
<1>3. ASSUME NEW d \in Droplets, AdvanceStep(d)
      PROVE  FALSE
  <2>1. StopBeforeForget(d)
    BY <1>3 DEF AdvanceStep, Disappear, Provision, AwaitJoin, Supervise, AwaitDrain,
       AwaitDeletion, ForgetFailed, JoinPool, DeleteDrained, RemoveMember, DeleteFailed,
       Advancing, Present
  <2>. QED  BY <2>1 DEF StopBeforeForget, Created, Drained
<1>4. CASE RotateToken \/ Restart
  BY <1>4 DEF RotateToken, Restart, Created, Drained
<1>5. CASE World
  BY <1>5, WorldEffect
<1>. QED  BY <1>1, <1>2, <1>3, <1>4, <1>5 DEF Next, Tick

\* The policy never stacks changes, for any number of workers and of failures.
THEOREM NeverStacksHolds == Spec => NeverStacks
<1>1. ASSUME IInv, Next, Created \cup Drained # {}, pc' # pc, NEW d \in Droplets, Exists(d)
      PROVE  node[d].state = "ready"
  <2>1. PICK load \in Loads : ScaleStep(load)
    BY <1>1, ScalingSteps DEF IInv
  <2>2. Created \cup Drained # {} => ~Idle(load) /\ ~NothingToDrain(load) /\ ~ScaleUpFails(load)
    BY DEF Idle, NothingToDrain, ScaleUpFails, Created, Drained
  <2>3. pc = "decide" /\ ~Changing
    BY <1>1, <2>1, <2>2 DEF ScaleStep, ScaleUp, ScaleDown, Decide
  <2>4. node[d].state \notin Busy \cup {"none", "destroyed"}
    BY <1>1, <2>3 DEF Changing, IInv, Tracked, DeletedGone, Listed
  <2>5. node[d].state \in NodeStates \cup {"none"}
    BY <1>1, RowFields DEF IInv
  <2>. QED  BY <2>4, <2>5 DEF Busy, NodeStates
<1>2. IInv /\ [Next]_vars
        => [Created \cup Drained # {} /\ pc' # pc =>
                \A d \in Droplets : Exists(d) => node[d].state = "ready"]_vars
  BY <1>1
<1>. QED  BY <1>2, TickKnowsDroplets, PTL DEF Spec, NeverStacks

-----------------------------------------------------------------------------
\* Rows that the tick has still to advance, and those that it has advanced.
Unread(d) == pc = "list" \/ (pc = "advance" /\ d \in todo)
Read(d)   == pc = "decide" \/ (pc = "advance" /\ d \notin todo)
InPool(d) == Exists(d) /\ node[d].state \in {"ready", "draining"}

Apart ==
    \A d, e \in Droplets : Exists(d) /\ Exists(e) /\ Address[d] = Address[e] => d = e

\* A node that is ready under the address of a machine that runs is that machine's.
OneReady ==
    \A d, n \in Droplets :
        /\ droplet[d] = "active" /\ Address[n] = Address[d]
        /\ swarm[n].state = "ready" \/ snap[n].state = "ready"
        => n = d

IdAddress == \A d \in Droplets : node[d].id # 0 => Address[node[d].id] = Address[d]

Booted ==
    \A d \in Droplets :
        /\ d \in booted => droplet[d] \in {"active", "gone"}
        /\ node[d].state \in {"joining", "ready", "draining"} => droplet[d] \in {"active", "gone"}
        /\ droplet[d] \in {"none", "new"} => swarm[d].state = "absent"

Members ==
    \A n \in Droplets :
        /\ swarm[n].state = "absent" => swarm[n].avail = "active"
        /\ swarm[n].state # "ready" => ~swarm[n].tasks

OwnNode == \A d \in Droplets : InPool(d) => node[d].id = d /\ swarm[d].state # "absent"

\* What the snapshot says of a node that does not change back.
SnapPast ==
    pc # "snapshot" =>
        \A n \in Droplets :
            /\ snap[n].state = "removed" => swarm[n].state = "removed"
            /\ snap[n].avail = "drain" => swarm[n].state = "removed" \/ swarm[n].avail = "drain"
            /\ snap[n].avail = "drain" /\ ~snap[n].tasks => ~swarm[n].tasks

Seen == \A d \in Droplets : Unread(d) /\ InPool(d) => snap[d].state # "absent"

\* A worker whose row drains is drained, and was so in the snapshot that judges it.
Drains ==
    \A d \in Droplets :
        Exists(d) /\ node[d].state = "draining" =>
            /\ swarm[d].state = "removed" \/ swarm[d].avail = "drain"
            /\ Unread(d) => snap[d].state = "removed" \/ snap[d].avail = "drain"

\* While nobody but the scaler acts: the rows of droplets that serve or will are those of
\* droplets that exist, no machine is lost, and only the scaler's own workers are drained.
CalmRows ==
    incidents = 0 =>
        \A d \in Droplets :
            /\ node[d].state \in {"provisioning", "joining", "ready"} => Exists(d)
            /\ Exists(d) => swarm[d].state \in {"absent", "ready"}
            /\ Exists(d) /\ swarm[d].avail = "drain" => node[d].state \in {"ready", "draining"}

CalmSnap ==
    incidents = 0 =>
        \A d \in Droplets :
            /\ InPool(d) /\ Unread(d) => snap[d].state = "ready"
            /\ Exists(d) /\ node[d].state = "ready" /\ Read(d)
                   => snap[d].state = "ready" /\ snap[d].avail = "active"

LInv == /\ IInv /\ Apart /\ OneReady /\ IdAddress /\ Booted /\ Members /\ OwnNode
        /\ SnapPast /\ Seen /\ Drains /\ CalmRows /\ CalmSnap

-----------------------------------------------------------------------------
\* What one step may do to a swarm node, a droplet and a row.

\* A node keeps its place in the swarm, gets tasks, comes up, is lost, drained or removed.
MemberStep(n) ==
    \/ /\ swarm'[n].state = swarm[n].state /\ swarm'[n].avail = swarm[n].avail
       /\ swarm'[n].tasks => swarm[n].tasks
    \/ /\ swarm[n].state = "ready" /\ swarm'[n].state = "ready"
       /\ swarm[n].avail = "active" /\ swarm'[n].avail = "active"
    \/ /\ swarm[n].state \in {"absent", "down"} /\ droplet[n] = "active"
       /\ swarm'[n].state = "ready"
       /\ swarm'[n].avail = swarm[n].avail /\ swarm'[n].tasks = swarm[n].tasks
    \/ /\ swarm[n].state = "ready" /\ swarm'[n].state = "down"
       /\ swarm'[n].avail = swarm[n].avail /\ ~swarm'[n].tasks
       /\ Exists(n) => incidents' # 0
    \/ /\ Joined(swarm[n]) /\ swarm'[n].state = swarm[n].state
       /\ swarm'[n].avail = "drain" /\ swarm'[n].tasks = swarm[n].tasks
       /\ \/ incidents' # 0
          \/ pc = "decide" /\ \E d \in Droplets : node[d].state = "ready" /\ node[d].id = n
    \/ /\ swarm[n].state = "down" /\ swarm'[n].state = "removed"
       /\ swarm'[n].avail = "active" /\ ~swarm'[n].tasks

\* The current row of the tick's advance.
Advanced(d) == pc = "advance" /\ d \in todo

\* A droplet stays, is created, boots, or is deleted by its row's step or by somebody else.
DropletStep(d) ==
    \/ droplet'[d] = droplet[d]
    \/ /\ pc = "decide" /\ ~Changing /\ Cardinality(Workers) < MaxWorkers
       /\ droplet[d] = "none" /\ droplet'[d] = "new" /\ pc' = "snapshot"
       /\ \A e \in Droplets : Exists(e) => Address[e] # Address[d]
       /\ \A e \in Droplets : e # d => droplet'[e] = droplet[e]
    \/ /\ droplet[d] = "new" /\ droplet'[d] = "active" /\ UNCHANGED <<swarm, snap>>
       /\ \A n \in Droplets :
            Address[n] = Address[d] => swarm[n].state # "ready" /\ snap[n].state # "ready"
    \/ /\ Exists(d) /\ droplet'[d] = "gone"
       /\ \/ incidents' # 0 /\ incidents' # incidents
          \/ node[d].state = "failed" /\ node'[d].state = "failed"
          \/ /\ Advanced(d) /\ node[d].state = "draining" /\ ~HasTasks(SwarmNode(d))
             /\ node'[d].state \in {"draining", "deleting"}

RowKept(d) == node'[d].state = node[d].state /\ node'[d].id = node[d].id

\* A row stays, is adopted or made, moves towards the pool, drains, or leaves the pool's
\* states: from the pool only when its droplet is gone or its node is down.
RowStep(d) ==
    \/ RowKept(d)
    \/ /\ pc = "list" /\ node[d].state = "none" /\ Exists(d)
       /\ node'[d].state \in {"provisioning", "joining"}
       /\ node'[d].state = "joining" => droplet[d] = "active"
       /\ node'[d].id # 0 => Address[node'[d].id] = Address[d]
    \/ /\ pc = "decide" /\ droplet[d] = "none" /\ droplet'[d] = "new"
       /\ node'[d].state = "provisioning" /\ node'[d].id = 0
    \/ /\ Advanced(d) /\ node[d].state = "provisioning" /\ d \in booted
       /\ node'[d].state = "joining" /\ node'[d].id = node[d].id
    \/ /\ Advanced(d) /\ node[d].state = "joining" /\ IsReady(SwarmNode(d))
       /\ Joined(swarm[SwarmNode(d)])
       /\ node'[d].state = "ready" /\ node'[d].id = SwarmNode(d)
    \/ /\ Advanced(d) /\ node[d].state = "ready"
       /\ SwarmNode(d) # 0 /\ snap[SwarmNode(d)].avail = "drain"
       /\ node'[d].state = "draining" /\ node'[d].id = node[d].id
    \/ /\ pc = "decide" /\ pc' = "snapshot" /\ node[d].state = "ready"
       /\ swarm'[node[d].id].avail = "drain"
       /\ node'[d].state = "draining" /\ node'[d].id = node[d].id
    \/ /\ node'[d].state \notin {"provisioning", "joining", "ready", "draining"}
       /\ node'[d].id \in {node[d].id, 0}
       /\ Advanced(d)
       /\ \/ node[d].state \in {"provisioning", "joining", "failed", "deleting", "removing"}
          \/ ~Exists(d)'
          \/ node[d].state = "ready" /\ IsDown(SwarmNode(d))

\* Where a step takes the tick.
TickStep ==
    \/ /\ pc = "snapshot" /\ pc' = "list" /\ snap' = swarm
       /\ UNCHANGED <<swarm, droplet, node, todo, booted>>
    \/ /\ pc = "list" /\ pc' = "advance" /\ UNCHANGED <<snap, swarm, droplet>>
       /\ \A d \in Droplets : d \in booted' => droplet[d] = "active"
       /\ \A d \in Droplets : d \notin todo' => node'[d].state = "none"
    \/ \E d \in Droplets :
        /\ Advanced(d) /\ pc' = "advance" /\ todo' = todo \ {d} /\ UNCHANGED <<snap, booted>>
        /\ \A e \in Droplets : e # d => node'[e] = node[e]
        /\ node[d].state = "ready" /\ node'[d].state = "ready"
               => SwarmNode(d) = 0 \/ snap[SwarmNode(d)].avail # "drain"
    \/ /\ pc = "advance" /\ pc' = "decide" /\ todo = {} /\ UNCHANGED <<snap, booted, todo, node, droplet>>
    \/ pc' = "snapshot" /\ snap' = NoSnap /\ booted' = {}
    \/ UNCHANGED <<pc, snap, booted, todo, node>>

\* What an edit of a row does to its state and ID, and to no other row.
Edits(d, state, id) ==
    /\ node'[d].state = state /\ node'[d].id = id
    /\ \A e \in Droplets : e # d => node'[e] = node[e]

LEMMA RowEdits ==
    ASSUME TypeOK, NEW d \in Droplets
    PROVE  /\ \A state : Save(d, state) => Edits(d, state, node[d].id)
           /\ \A down : node' = [node EXCEPT ![d].down = down] => Edits(d, node[d].state, node[d].id)
           /\ node' = [node EXCEPT ![d].state = "joining", ![d].ip = TRUE]
                => Edits(d, "joining", node[d].id)
           /\ \A n : node' = [node EXCEPT ![d].state = "ready", ![d].id = n] => Edits(d, "ready", n)
           /\ node' = [node EXCEPT ![d].state = "draining"] => Edits(d, "draining", node[d].id)
           /\ Forget(d) => Edits(d, "none", 0)
           /\ UNCHANGED node => Edits(d, node[d].state, node[d].id)
<1>1. node[d] \in Row /\ node \in [Droplets -> Row]
  BY DEF TypeOK
<1>2. \A state : Save(d, state) => Edits(d, state, node[d].id)
  BY <1>1 DEF Save, Edits, Row
<1>3. \A down : node' = [node EXCEPT ![d].down = down] => Edits(d, node[d].state, node[d].id)
  BY <1>1 DEF Edits, Row
<1>4. node' = [node EXCEPT ![d].state = "joining", ![d].ip = TRUE] => Edits(d, "joining", node[d].id)
  BY <1>1 DEF Edits, Row
<1>5. \A n : node' = [node EXCEPT ![d].state = "ready", ![d].id = n] => Edits(d, "ready", n)
  BY <1>1 DEF Edits, Row
<1>6. node' = [node EXCEPT ![d].state = "draining"] => Edits(d, "draining", node[d].id)
  BY <1>1 DEF Edits, Row
<1>7. Forget(d) => Edits(d, "none", 0)
  BY <1>1 DEF Forget, Edits, NoRow
<1>8. UNCHANGED node => Edits(d, node[d].state, node[d].id)
  BY DEF Edits
<1>. QED  BY <1>2, <1>3, <1>4, <1>5, <1>6, <1>7, <1>8

\* A tick's step on a row: the row itself, and no other.
StaysIfServing(d) ==
    node[d].state = "ready" /\ node'[d].state = "ready"
        => SwarmNode(d) = 0 \/ snap[SwarmNode(d)].avail # "drain"

LEMMA AdvanceRows ==
    ASSUME IInv, NEW d \in Droplets, AdvanceStep(d)
    PROVE  /\ RowStep(d) /\ StaysIfServing(d) /\ Advanced(d)
           /\ \A e \in Droplets : e # d => node'[e] = node[e]
           /\ \/ pc' = "advance" /\ todo' = todo \ {d} /\ UNCHANGED <<snap, booted>>
              \/ pc' = "snapshot" /\ snap' = NoSnap /\ booted' = {}
<1> DEFINE Tick1 == pc' = "advance" /\ todo' = todo \ {d} /\ UNCHANGED <<snap, booted>>
           Goal  == /\ RowStep(d) /\ StaysIfServing(d) /\ Advanced(d)
                    /\ \A e \in Droplets : e # d => node'[e] = node[e]
                    /\ Tick1 \/ (pc' = "snapshot" /\ snap' = NoSnap /\ booted' = {})
<1>. USE RowEdits
<1>0. TypeOK
  BY DEF IInv
<1>1. ASSUME NEW states, Advancing(d, states)
      PROVE  Advanced(d) /\ Tick1 /\ node[d].state \in states
  BY <1>1 DEF Advancing, Current, Advanced
<1>2. d \notin listed /\ Advanced(d) => ~Exists(d)
  BY DEF IInv, ListedAll, Listed, Advanced
<1>3. CASE Disappear(d)
  <2>1. ~Exists(d)'
    BY <1>1, <1>2, <1>3 DEF Disappear, Exists
  <2>2. Edits(d, "removing", node[d].id) /\ Advanced(d) /\ Tick1
    BY <1>0, <1>1, <1>3 DEF Disappear
  <2>. QED  BY <2>1, <2>2 DEF RowStep, StaysIfServing, Edits
<1>4. CASE Provision(d)
  <2>1. Advanced(d) /\ Tick1 /\ node[d].state = "provisioning"
    BY <1>1, <1>4 DEF Provision, Present
  <2>2. CASE d \in booted
    BY <1>0, <1>4, <2>1, <2>2 DEF Provision, RowStep, StaysIfServing, Edits
  <2>3. CASE d \notin booted
    <3>1. Edits(d, "failed", node[d].id) \/ Edits(d, "provisioning", node[d].id)
      BY <1>0, <1>4, <2>1, <2>3 DEF Provision, SaveIf
    <3>. QED  BY <2>1, <3>1 DEF RowStep, RowKept, StaysIfServing, Edits
  <2>. QED  BY <2>2, <2>3
<1>5. ASSUME NEW ok \in BOOLEAN, JoinPool(d, ok)
      PROVE  Goal
  <2>1. Advanced(d) /\ Tick1 /\ node[d].state = "joining"
    BY <1>1, <1>5 DEF JoinPool, Present
  <2>2. IsReady(SwarmNode(d))
    BY <1>5 DEF JoinPool
  <2>3. CASE ok /\ Joined(swarm[SwarmNode(d)])
    <3>1. Edits(d, "ready", SwarmNode(d))
      BY <1>0, <1>5, <2>3 DEF JoinPool
    <3>. QED  BY <2>1, <2>2, <2>3, <3>1 DEF RowStep, StaysIfServing, Edits
  <2>4. CASE ~(ok /\ Joined(swarm[SwarmNode(d)]))
    <3>1. Edits(d, "joining", node[d].id)
      BY <1>0, <1>5, <2>1, <2>4 DEF JoinPool
    <3>. QED  BY <2>1, <3>1 DEF RowStep, RowKept, StaysIfServing, Edits
  <2>. QED  BY <2>3, <2>4
<1>6. CASE AwaitJoin(d)
  <2>1. Advanced(d) /\ Tick1 /\ node[d].state = "joining"
    BY <1>1, <1>6 DEF AwaitJoin, Present
  <2>2. Edits(d, "failed", node[d].id) \/ Edits(d, "joining", node[d].id)
    BY <1>0, <1>6, <2>1 DEF AwaitJoin, SaveIf
  <2>. QED  BY <2>1, <2>2 DEF RowStep, RowKept, StaysIfServing, Edits
<1>7. CASE Supervise(d)
  <2>1. Advanced(d) /\ Tick1 /\ node[d].state = "ready"
    BY <1>1, <1>7 DEF Supervise, Present
  <2>2. CASE SwarmNode(d) # 0 /\ snap[SwarmNode(d)].avail = "drain"
    <3>1. Edits(d, "draining", node[d].id)
      BY <1>0, <1>7, <2>2 DEF Supervise
    <3>. QED  BY <2>1, <2>2, <3>1 DEF RowStep, StaysIfServing, Edits
  <2>3. CASE ~(SwarmNode(d) # 0 /\ snap[SwarmNode(d)].avail = "drain")
    <3>1. \/ Edits(d, "failed", node[d].id) /\ IsDown(SwarmNode(d))
          \/ Edits(d, "ready", node[d].id)
      BY <1>0, <1>7, <2>1, <2>3 DEF Supervise, SaveIf
    <3>. QED  BY <2>1, <2>3, <3>1 DEF RowStep, RowKept, StaysIfServing, Edits
  <2>. QED  BY <2>2, <2>3
<1>8. ASSUME NEW ok \in BOOLEAN, DeleteDrained(d, ok)
      PROVE  Goal
  <2>1. Advanced(d) /\ Tick1 /\ node[d].state = "draining"
    BY <1>1, <1>8 DEF DeleteDrained, Present
  <2>2. ~Exists(d)'
    BY <1>0, <1>8, DeleteFields DEF DeleteDrained
  <2>3. Edits(d, "deleting", node[d].id) \/ Edits(d, "draining", node[d].id)
    BY <1>0, <1>8, <2>1 DEF DeleteDrained, SaveIf
  <2>. QED  BY <2>1, <2>2, <2>3 DEF RowStep, RowKept, StaysIfServing, Edits
<1>9. CASE AwaitDrain(d)
  <2>1. Advanced(d) /\ Tick1 /\ node[d].state = "draining"
    BY <1>1, <1>9 DEF AwaitDrain, Present
  <2>. QED  BY <1>0, <1>9, <2>1 DEF AwaitDrain, RowStep, RowKept, StaysIfServing, Edits
<1>10. CASE AwaitDeletion(d)
  <2>1. Advanced(d) /\ Tick1 /\ node[d].state = "deleting"
    BY <1>1, <1>10 DEF AwaitDeletion
  <2>2. Edits(d, "removing", node[d].id) \/ Edits(d, "deleting", node[d].id)
    BY <1>0, <1>10, <2>1 DEF AwaitDeletion, SaveIf
  <2>. QED  BY <2>1, <2>2 DEF RowStep, RowKept, StaysIfServing, Edits
<1>11. ASSUME NEW ok \in BOOLEAN, RemoveMember(d, ok)
       PROVE  Goal
  <2>1. Advanced(d) /\ Tick1 /\ node[d].state = "removing"
    BY <1>1, <1>11 DEF RemoveMember
  <2>2. Forget(d) \/ UNCHANGED node
    BY <1>11 DEF RemoveMember
  <2>. QED  BY <1>0, <2>1, <2>2 DEF RowStep, RowKept, StaysIfServing, Edits
<1>12. ASSUME NEW ok \in BOOLEAN, DeleteFailed(d, ok)
       PROVE  Goal
  <2>1. Advanced(d) /\ Tick1 /\ node[d].state = "failed" /\ UNCHANGED node
    BY <1>1, <1>12 DEF DeleteFailed, Present
  <2>. QED  BY <1>0, <2>1 DEF RowStep, RowKept, StaysIfServing, Edits
<1>13. CASE ForgetFailed(d)
  <2>1. Advanced(d) /\ Tick1 /\ node[d].state = "failed" /\ Forget(d)
    BY <1>1, <1>13 DEF ForgetFailed
  <2>. QED  BY <1>0, <2>1 DEF RowStep, StaysIfServing, Edits
<1>14. CASE StopBeforeForget(d)
  <2>1. /\ Advanced(d) /\ Save(d, "destroyed") /\ node[d].state \in {"failed", "removing"}
        /\ pc' = "snapshot" /\ snap' = NoSnap /\ booted' = {}
    BY <1>14 DEF StopBeforeForget, Current, Advanced, EndTick
  <2>2. Edits(d, "destroyed", node[d].id)
    BY <1>0, <2>1
  <2>. QED  BY <2>1, <2>2 DEF RowStep, StaysIfServing, Edits
<1>. QED
  BY <1>3, <1>4, <1>5, <1>6, <1>7, <1>8, <1>9, <1>10, <1>11, <1>12, <1>13, <1>14
  DEF AdvanceStep

-----------------------------------------------------------------------------
\* The steps outside of the advance.

LEMMA MatchAddress ==
    ASSUME TypeOK, IdAddress, NEW d \in Droplets
    PROVE  /\ FindByAddress(d) # 0 => /\ Address[FindByAddress(d)] = Address[d]
                                      /\ Joined(snap[FindByAddress(d)])
           /\ SwarmNode(d) # 0 => /\ SwarmNode(d) \in Droplets /\ Joined(snap[SwarmNode(d)])
                                  /\ Address[SwarmNode(d)] = Address[d]
<1>1. FindByAddress(d) # 0 => FindByAddress(d) \in WithAddress(d)
  BY DEF FindByAddress
<1>2. FindByAddress(d) # 0 => /\ Address[FindByAddress(d)] = Address[d]
                              /\ Joined(snap[FindByAddress(d)])
  BY <1>1 DEF WithAddress
<1>. QED  BY <1>2, MatchType DEF SwarmNode, IdAddress

LEMMA ScaleRows ==
    ASSUME IInv, NEW load \in Loads, ScaleStep(load), NEW d \in Droplets
    PROVE  RowStep(d) /\ pc = "decide" /\ pc' = "snapshot" /\ snap' = NoSnap /\ booted' = {}
<1>0. TypeOK
  BY DEF IInv
<1>1. CASE Idle(load) \/ NothingToDrain(load) \/ ScaleUpFails(load)
  BY <1>1 DEF Idle, NothingToDrain, ScaleUpFails, EndTick, RowStep, RowKept
<1>2. ASSUME NEW ok \in BOOLEAN, NEW e \in Droplets, ScaleUp(load, e, ok)
      PROVE  RowStep(d) /\ pc = "decide" /\ EndTick
  <2>1. CASE e = d /\ ok
    <3>1. /\ node'[d] = [NoRow EXCEPT !.state = "provisioning"]
          /\ droplet[d] = "none" /\ droplet'[d] = "new"
      BY <1>0, <1>2, <2>1 DEF ScaleUp, NewDroplet, TypeOK
    <3>2. node'[d].state = "provisioning" /\ node'[d].id = 0
      BY <3>1 DEF NoRow
    <3>. QED  BY <1>2, <3>1, <3>2 DEF ScaleUp, RowStep
  <2>2. CASE ~(e = d /\ ok)
    BY <1>0, <1>2, <2>2 DEF ScaleUp, TypeOK, RowStep, RowKept
  <2>. QED  BY <2>1, <2>2
<1>3. ASSUME NEW ok \in BOOLEAN, NEW p \in Droplets \X Droplets, ScaleDown(load, p, ok)
      PROVE  RowStep(d) /\ pc = "decide" /\ EndTick
  <2>1. /\ p[1] \in Droplets /\ p[2] \in Droplets
        /\ node[p[1]].state = "ready" /\ node[p[1]].id = p[2]
    BY <1>3 DEF ScaleDown, PickScaleDown, Emptiest, Managed
  <2>2. CASE ok /\ Joined(swarm[p[2]]) /\ p[1] = d
    <3>1. Edits(d, "draining", node[d].id)
      BY <1>0, <1>3, <2>2, RowEdits DEF ScaleDown
    <3>2. swarm'[node[d].id].avail = "drain"
      BY <1>0, <1>3, <2>1, <2>2 DEF ScaleDown, TypeOK, Member
    <3>. QED  BY <1>3, <2>1, <2>2, <3>1, <3>2 DEF ScaleDown, RowStep, Edits, EndTick
  <2>3. CASE ~(ok /\ Joined(swarm[p[2]]) /\ p[1] = d)
    <3>1. node'[d] = node[d]
      BY <1>0, <1>3, <2>1, <2>3 DEF ScaleDown, TypeOK
    <3>. QED  BY <1>3, <3>1 DEF ScaleDown, RowStep, RowKept
  <2>. QED  BY <2>2, <2>3
<1>. QED  BY <1>1, <1>2, <1>3 DEF ScaleStep, EndTick

LEMMA RowsEffect ==
    ASSUME IInv, IdAddress, [Next]_vars, NEW d \in Droplets
    PROVE  RowStep(d)
<1>1. CASE ListDroplets
  <2>1. CASE Exists(d) /\ node[d].state = "none"
    <3>1. node'[d] = Adopted(d, droplet[d] = "active")
      BY <1>1, <2>1 DEF ListDroplets
    <3>2. /\ node'[d].state \in {"provisioning", "joining"}
          /\ node'[d].state = "joining" => droplet[d] = "active"
          /\ node'[d].id # 0 => node'[d].id = FindByAddress(d)
      BY <3>1 DEF Adopted
    <3>. QED  BY <1>1, <2>1, <3>2, MatchAddress DEF IInv, ListDroplets, Step, RowStep
  <2>2. CASE ~(Exists(d) /\ node[d].state = "none")
    BY <1>1, <2>2 DEF ListDroplets, RowStep, RowKept
  <2>. QED  BY <2>1, <2>2
<1>2. ASSUME NEW e \in Droplets, AdvanceStep(e)
      PROVE  RowStep(d)
  BY <1>2, AdvanceRows DEF RowStep, RowKept
<1>3. ASSUME NEW load \in Loads, ScaleStep(load)
      PROVE  RowStep(d)
  BY <1>3, ScaleRows
<1>4. CASE \/ TakeSnapshot \/ RotateToken \/ Restart \/ UNCHANGED vars
           \/ \E removed \in SUBSET Droplets : RemoveGhosts(removed)
  BY <1>4 DEF TakeSnapshot, RotateToken, Restart, RemoveGhosts, RowStep, RowKept
<1>5. CASE World
  BY <1>5, WorldEffect DEF IInv, RowStep, RowKept
<1>. QED  BY <1>1, <1>2, <1>3, <1>4, <1>5 DEF Next, Tick

LEMMA TickEffect ==
    ASSUME IInv, [Next]_vars
    PROVE  TickStep
<1>1. CASE TakeSnapshot
  BY <1>1 DEF TakeSnapshot, Step, TickStep
<1>2. CASE ListDroplets
  BY <1>2 DEF ListDroplets, Step, TickStep
<1>3. ASSUME NEW d \in Droplets, AdvanceStep(d)
      PROVE  TickStep
  BY <1>3, AdvanceRows DEF TickStep, StaysIfServing
<1>4. CASE \E removed \in SUBSET Droplets : RemoveGhosts(removed)
  BY <1>4 DEF RemoveGhosts, Step, TickStep
<1>5. ASSUME NEW load \in Loads, ScaleStep(load)
      PROVE  TickStep
  BY <1>5 DEF ScaleStep, Idle, NothingToDrain, ScaleUpFails, ScaleUp, ScaleDown, EndTick, TickStep
<1>6. CASE Restart
  BY <1>6 DEF Restart, EndTick, TickStep
<1>7. CASE RotateToken \/ UNCHANGED vars
  BY <1>7 DEF RotateToken, TickStep
<1>8. CASE World
  BY <1>8 DEF World, Boot, JoinSwarm, PlaceTasks, MoveTasks, Lose, Recover, OperatorDrains,
              OperatorDeletes, GrowOverdue, TickStep
<1>. QED  BY <1>1, <1>2, <1>3, <1>4, <1>5, <1>6, <1>7, <1>8 DEF Next, Tick

\* Nobody's interference is forgotten.
LEMMA IncidentsStay ==
    ASSUME TypeOK, [Next]_vars
    PROVE  incidents' = 0 => incidents = 0
<1>1. Incident => incidents' # 0
  BY DEF Incident, TypeOK
<1>2. ASSUME NEW d \in Droplets, AdvanceStep(d)
      PROVE  UNCHANGED incidents
  BY <1>2
  DEF AdvanceStep, Disappear, Provision, AwaitJoin, Supervise, AwaitDrain, AwaitDeletion,
      ForgetFailed, StopBeforeForget, JoinPool, DeleteDrained, RemoveMember, DeleteFailed
<1>3. ASSUME NEW load \in Loads, ScaleStep(load)
      PROVE  UNCHANGED incidents
  BY <1>3 DEF ScaleStep, Idle, NothingToDrain, ScaleUpFails, ScaleUp, ScaleDown
<1>4. CASE World
  BY <1>1, <1>4 DEF World, Boot, JoinSwarm, PlaceTasks, MoveTasks, Lose, Recover, OperatorDrains,
              OperatorDeletes, GrowOverdue
<1>5. CASE \/ TakeSnapshot \/ ListDroplets \/ RotateToken \/ Restart \/ UNCHANGED vars
           \/ \E removed \in SUBSET Droplets : RemoveGhosts(removed)
  BY <1>1, <1>5 DEF TakeSnapshot, ListDroplets, RotateToken, Restart, RemoveGhosts
<1>. QED  BY <1>2, <1>3, <1>4, <1>5 DEF Next, Tick

\* An incident, and what costs one.
LEMMA IncidentCounts == ASSUME TypeOK, Incident PROVE incidents' # 0 /\ incidents' # incidents
BY DEF Incident, TypeOK

LEMMA WorkersCount ==
    ASSUME ScalerAssumption
    PROVE  IsFiniteSet(Workers) /\ Cardinality(Workers) \in Nat
<1>1. IsFiniteSet(Droplets)
  BY FS_Interval DEF ScalerAssumption, Droplets
<1>2. Workers \in SUBSET Droplets
  BY DEF Workers
<1>. QED  BY <1>1, <1>2, FS_Subset, FS_CardinalityType

LEMMA DropletsEffect ==
    ASSUME IInv, [Next]_vars, NEW d \in Droplets
    PROVE  DropletStep(d)
<1>0. TypeOK
  BY DEF IInv
<1>1. \A e \in Droplets : DeleteDroplet(e) =>
        \/ droplet'[d] = droplet[d]
        \/ e = d /\ Exists(d) /\ droplet'[d] = "gone"
  BY <1>0 DEF DeleteDroplet, TypeOK
<1>2. ASSUME NEW e \in Droplets, AdvanceStep(e)
      PROVE  DropletStep(d)
  <2>1. ASSUME NEW ok \in BOOLEAN, DeleteDrained(e, ok)
        PROVE  DropletStep(d)
    <3>1. Advanced(e) /\ node[e].state = "draining" /\ ~HasTasks(SwarmNode(e))
      BY <2>1 DEF DeleteDrained, Present, Advancing, Current, Advanced
    <3>2. Edits(e, "deleting", node[e].id) \/ Edits(e, "draining", node[e].id)
      BY <1>0, <2>1, <3>1, RowEdits DEF DeleteDrained, SaveIf
    <3>. QED  BY <1>1, <2>1, <3>1, <3>2 DEF DeleteDrained, DropletStep, Edits
  <2>2. ASSUME NEW ok \in BOOLEAN, DeleteFailed(e, ok)
        PROVE  DropletStep(d)
    BY <1>1, <2>2 DEF DeleteFailed, Present, Advancing, DropletStep
  <2>3. CASE \/ Disappear(e) \/ Provision(e) \/ AwaitJoin(e) \/ Supervise(e)
             \/ AwaitDrain(e) \/ AwaitDeletion(e) \/ ForgetFailed(e) \/ StopBeforeForget(e)
             \/ \E ok \in BOOLEAN : JoinPool(e, ok) \/ RemoveMember(e, ok)
    BY <2>3 DEF Disappear, Provision, AwaitJoin, Supervise, AwaitDrain, AwaitDeletion,
                ForgetFailed, StopBeforeForget, JoinPool, RemoveMember, DropletStep
  <2>. QED  BY <1>2, <2>1, <2>2, <2>3 DEF AdvanceStep
<1>3. ASSUME NEW load \in Loads, ScaleStep(load)
      PROVE  DropletStep(d)
  <2>1. ASSUME NEW ok \in BOOLEAN, NEW e \in Droplets, ScaleUp(load, e, ok)
        PROVE  DropletStep(d)
    <3>1. droplet' = [droplet EXCEPT ![e] = "new"] /\ NewDroplet(e) /\ pc' = "snapshot"
      BY <2>1 DEF ScaleUp, EndTick
    <3>2. pc = "decide" /\ ~Changing /\ Cardinality(Workers) < MaxWorkers
      BY <2>1, WorkersCount, ScalerAssumption DEF ScaleUp, Decide, ScalerAssumption
    <3>. QED  BY <1>0, <3>1, <3>2 DEF NewDroplet, DropletStep, TypeOK
  <2>2. CASE \/ Idle(load) \/ NothingToDrain(load) \/ ScaleUpFails(load)
             \/ \E ok \in BOOLEAN, p \in Droplets \X Droplets : ScaleDown(load, p, ok)
    BY <2>2 DEF Idle, NothingToDrain, ScaleUpFails, ScaleDown, DropletStep
  <2>. QED  BY <1>3, <2>1, <2>2 DEF ScaleStep
<1>4. CASE World
  <2>. PICK e \in Droplets :
        \/ Boot(e) \/ JoinSwarm(e) \/ PlaceTasks(e) \/ MoveTasks(e) \/ Lose(e)
        \/ Recover(e) \/ OperatorDrains(e) \/ OperatorDeletes(e) \/ GrowOverdue(e)
    BY <1>4 DEF World
  <2>1. CASE Boot(e)
    BY <1>0, <2>1 DEF Boot, DropletStep, TypeOK
  <2>2. CASE OperatorDeletes(e)
    BY <1>0, <1>1, <2>2, IncidentCounts DEF OperatorDeletes, DropletStep
  <2>3. CASE \/ JoinSwarm(e) \/ PlaceTasks(e) \/ MoveTasks(e) \/ Lose(e)
             \/ Recover(e) \/ OperatorDrains(e) \/ GrowOverdue(e)
    BY <2>3 DEF JoinSwarm, PlaceTasks, MoveTasks, Lose, Recover, OperatorDrains, GrowOverdue,
                DropletStep
  <2>. QED  BY <2>1, <2>2, <2>3
<1>5. CASE \/ TakeSnapshot \/ ListDroplets \/ RotateToken \/ Restart \/ UNCHANGED vars
           \/ \E removed \in SUBSET Droplets : RemoveGhosts(removed)
  BY <1>5 DEF TakeSnapshot, ListDroplets, RotateToken, Restart, RemoveGhosts, DropletStep
<1>. QED  BY <1>2, <1>3, <1>4, <1>5 DEF Next, Tick

LEMMA MembersEffect ==
    ASSUME IInv, [Next]_vars, NEW n \in Droplets
    PROVE  MemberStep(n)
<1>0. TypeOK /\ swarm[n] \in Member
  BY DEF IInv, TypeOK
<1>1. UNCHANGED swarm \/ swarm'[n] = swarm[n] => MemberStep(n)
  BY DEF MemberStep
<1>2. swarm'[n] = Removed(n) => MemberStep(n)
  BY DEF Removed, NoMember, MemberStep
<1>3. \A m \in Droplets : Remove(m) => MemberStep(n)
  BY <1>0, <1>1, <1>2 DEF Remove, TypeOK
<1>4. ASSUME NEW e \in Droplets, AdvanceStep(e)
      PROVE  MemberStep(n)
  <2>1. ASSUME NEW ok \in BOOLEAN, JoinPool(e, ok)
        PROVE  MemberStep(n)
    BY <1>0, <2>1 DEF JoinPool, MemberStep, TypeOK, Member
  <2>2. ASSUME NEW ok \in BOOLEAN, RemoveMember(e, ok) \/ DeleteFailed(e, ok)
        PROVE  MemberStep(n)
    BY <1>0, <1>1, <1>3, <2>2, MatchType DEF RemoveMember, DeleteFailed
  <2>3. CASE ForgetFailed(e)
    BY <1>0, <1>1, <1>3, <2>3, MatchType DEF ForgetFailed
  <2>4. CASE \/ Disappear(e) \/ Provision(e) \/ AwaitJoin(e) \/ Supervise(e)
             \/ AwaitDrain(e) \/ AwaitDeletion(e) \/ StopBeforeForget(e)
             \/ \E ok \in BOOLEAN : DeleteDrained(e, ok)
    BY <1>1, <2>4 DEF Disappear, Provision, AwaitJoin, Supervise, AwaitDrain, AwaitDeletion,
                      StopBeforeForget, DeleteDrained
  <2>. QED  BY <1>4, <2>1, <2>2, <2>3, <2>4 DEF AdvanceStep
<1>5. ASSUME NEW load \in Loads, ScaleStep(load)
      PROVE  MemberStep(n)
  <2>1. ASSUME NEW ok \in BOOLEAN, NEW p \in Droplets \X Droplets, ScaleDown(load, p, ok)
        PROVE  MemberStep(n)
    <3>1. /\ pc = "decide" /\ p[1] \in Droplets /\ p[2] \in Droplets
          /\ node[p[1]].state = "ready" /\ node[p[1]].id = p[2]
      BY <2>1 DEF ScaleDown, PickScaleDown, Emptiest, Managed
    <3>2. CASE Joined(swarm[p[2]]) /\ p[2] = n
      <4>1. swarm' = [swarm EXCEPT ![n].avail = "drain"]
        BY <2>1, <3>2 DEF ScaleDown
      <4>. QED  BY <1>0, <3>1, <3>2, <4>1 DEF MemberStep, TypeOK, Member
    <3>3. CASE ~(Joined(swarm[p[2]]) /\ p[2] = n)
      BY <1>0, <1>1, <2>1, <3>1, <3>3 DEF ScaleDown, TypeOK
    <3>. QED  BY <3>2, <3>3
  <2>2. CASE \/ Idle(load) \/ NothingToDrain(load) \/ ScaleUpFails(load)
             \/ \E ok \in BOOLEAN, d \in Droplets : ScaleUp(load, d, ok)
    BY <1>1, <2>2 DEF Idle, NothingToDrain, ScaleUpFails, ScaleUp
  <2>. QED  BY <1>5, <2>1, <2>2 DEF ScaleStep
<1>6. CASE World
  <2>. PICK e \in Droplets :
        \/ Boot(e) \/ JoinSwarm(e) \/ PlaceTasks(e) \/ MoveTasks(e) \/ Lose(e)
        \/ Recover(e) \/ OperatorDrains(e) \/ OperatorDeletes(e) \/ GrowOverdue(e)
    BY <1>6 DEF World
  <2>1. CASE JoinSwarm(e) \/ PlaceTasks(e) \/ MoveTasks(e) \/ Recover(e)
    <3>1. CASE e = n
      <4>1. CASE JoinSwarm(n) \/ Recover(n)
        BY <1>0, <4>1 DEF JoinSwarm, Recover, MemberStep, TypeOK, Member
      <4>2. CASE PlaceTasks(n)
        BY <1>0, <4>2 DEF PlaceTasks, MemberStep, TypeOK, Member
      <4>3. CASE MoveTasks(n)
        BY <1>0, <4>3 DEF MoveTasks, MemberStep, TypeOK, Member
      <4>. QED  BY <2>1, <3>1, <4>1, <4>2, <4>3
    <3>2. CASE e # n
      BY <1>0, <1>1, <2>1, <3>2 DEF JoinSwarm, PlaceTasks, MoveTasks, Recover, TypeOK
    <3>. QED  BY <3>1, <3>2
  <2>2. CASE Lose(e)
    BY <1>0, <2>2, IncidentCounts DEF Lose, MemberStep, TypeOK, Member
  <2>3. CASE OperatorDrains(e)
    BY <1>0, <2>3, IncidentCounts DEF OperatorDrains, MemberStep, TypeOK, Member
  <2>4. CASE Boot(e) \/ OperatorDeletes(e) \/ GrowOverdue(e)
    BY <1>1, <2>4 DEF Boot, OperatorDeletes, GrowOverdue
  <2>. QED  BY <2>1, <2>2, <2>3, <2>4
<1>7. CASE \E removed \in SUBSET Droplets : RemoveGhosts(removed)
  BY <1>1, <1>2, <1>7 DEF RemoveGhosts
<1>8. CASE TakeSnapshot \/ ListDroplets \/ RotateToken \/ Restart \/ UNCHANGED vars
  BY <1>1, <1>8 DEF TakeSnapshot, ListDroplets, RotateToken, Restart
<1>. QED  BY <1>4, <1>5, <1>6, <1>7, <1>8 DEF Next, Tick

-----------------------------------------------------------------------------
\* The parts of the invariant, each from the effects of a step.

Effects ==
    /\ \A d \in Droplets : RowStep(d) /\ DropletStep(d) /\ MemberStep(d)
    /\ TickStep
    /\ incidents' = 0 => incidents = 0

LEMMA StepEffects ==
    ASSUME LInv, [Next]_vars
    PROVE  Effects
BY RowsEffect, DropletsEffect, MembersEffect, TickEffect, IncidentsStay
DEF Effects, LInv, IInv

\* A droplet that exists did so before, or is created: then it has no row.
LEMMA Existed ==
    ASSUME LInv, Effects, NEW d \in Droplets, Exists(d)'
    PROVE  \/ Exists(d)
           \/ /\ droplet[d] = "none" /\ node[d].state = "none" /\ droplet'[d] = "new"
              /\ pc' = "snapshot" /\ swarm[d].state = "absent"
<1>1. droplet[d] \in {"none", "new", "active", "gone"}
  BY DEF LInv, IInv, TypeOK
<1>2. DropletStep(d)
  BY DEF Effects
<1>. QED  BY <1>1, <1>2 DEF DropletStep, Exists, LInv, Booted, IInv, Rowless

LEMMA ApartStep ==
    ASSUME LInv, Effects
    PROVE  Apart'
<1>. SUFFICES ASSUME NEW d \in Droplets, NEW e \in Droplets, Exists(d)', Exists(e)',
                     Address[d] = Address[e], d # e
              PROVE  FALSE
  BY DEF Apart, Exists
<1>1. DropletStep(d) /\ DropletStep(e)
  BY DEF Effects
<1>. QED  BY <1>1, Existed DEF DropletStep, Exists, LInv, Apart

LEMMA OneReadyStep ==
    ASSUME LInv, Effects
    PROVE  OneReady'
<1>. SUFFICES ASSUME NEW d \in Droplets, NEW n \in Droplets, droplet'[d] = "active",
                     Address[n] = Address[d],
                     swarm'[n].state = "ready" \/ snap'[n].state = "ready"
              PROVE  n = d
  BY DEF OneReady
<1>1. DropletStep(d) /\ MemberStep(n) /\ TickStep
  BY DEF Effects
<1>2. droplet[d] = "active"
  BY <1>1 DEF DropletStep
<1>3. swarm[n].state = "ready" \/ snap[n].state = "ready" => n = d
  BY <1>2 DEF LInv, OneReady
<1>4. CASE swarm'[n].state = "ready"
  BY <1>1, <1>2, <1>3, <1>4 DEF MemberStep, LInv, Apart, Exists
<1>5. CASE snap'[n].state = "ready"
  BY <1>1, <1>3, <1>5 DEF TickStep, NoSnap, NoMember
<1>. QED  BY <1>4, <1>5

LEMMA IdAddressStep ==
    ASSUME LInv, Effects
    PROVE  IdAddress'
<1>. SUFFICES ASSUME NEW d \in Droplets, node'[d].id # 0
              PROVE  Address[node'[d].id] = Address[d]
  BY DEF IdAddress
<1>1. RowStep(d)
  BY DEF Effects
<1>2. node[d].id # 0 => Address[node[d].id] = Address[d]
  BY DEF LInv, IdAddress
<1>3. SwarmNode(d) # 0 => Address[SwarmNode(d)] = Address[d]
  BY MatchAddress DEF LInv, IInv
<1>. QED  BY <1>1, <1>2, <1>3 DEF RowStep, RowKept

LEMMA BootedStep ==
    ASSUME LInv, Effects
    PROVE  Booted'
<1>. SUFFICES ASSUME NEW d \in Droplets
              PROVE  /\ d \in booted' => droplet'[d] \in {"active", "gone"}
                     /\ node'[d].state \in {"joining", "ready", "draining"}
                            => droplet'[d] \in {"active", "gone"}
                     /\ droplet'[d] \in {"none", "new"} => swarm'[d].state = "absent"
  BY DEF Booted
<1>1. RowStep(d) /\ DropletStep(d) /\ MemberStep(d) /\ TickStep
  BY DEF Effects
<1>2. droplet[d] \in {"active", "gone"} => droplet'[d] \in {"active", "gone"}
  BY <1>1 DEF DropletStep
<1>3. /\ d \in booted => droplet[d] \in {"active", "gone"}
      /\ node[d].state \in {"joining", "ready", "draining"} => droplet[d] \in {"active", "gone"}
      /\ droplet[d] \in {"none", "new"} => swarm[d].state = "absent"
      /\ droplet[d] \in {"none", "new", "active", "gone"}
  BY DEF LInv, Booted, IInv, TypeOK
<1>4. d \in booted' => droplet'[d] \in {"active", "gone"}
  BY <1>1, <1>2, <1>3 DEF TickStep
<1>5. node'[d].state \in {"joining", "ready", "draining"} => droplet'[d] \in {"active", "gone"}
  BY <1>1, <1>2, <1>3 DEF RowStep, RowKept
<1>6. droplet'[d] \in {"none", "new"} => swarm'[d].state = "absent"
  BY <1>1, <1>2, <1>3 DEF MemberStep, Joined
<1>. QED  BY <1>4, <1>5, <1>6

LEMMA MembersStep ==
    ASSUME LInv, Effects
    PROVE  Members'
<1>. SUFFICES ASSUME NEW n \in Droplets
              PROVE  /\ swarm'[n].state = "absent" => swarm'[n].avail = "active"
                     /\ swarm'[n].state # "ready" => ~swarm'[n].tasks
  BY DEF Members
<1>1. MemberStep(n)
  BY DEF Effects
<1>. QED  BY <1>1 DEF MemberStep, Joined, LInv, Members

\* The node a row is matched with when its droplet joins, or is judged, is its own.
LEMMA JoinsAsItself ==
    ASSUME LInv, NEW d \in Droplets, Exists(d), node[d].state = "joining", IsReady(SwarmNode(d))
    PROVE  SwarmNode(d) = d
<1>1. droplet[d] = "active"
  BY DEF LInv, Booted, Exists
<1>2. SwarmNode(d) \in Droplets /\ Address[SwarmNode(d)] = Address[d]
  BY MatchAddress DEF IsReady, LInv, IInv
<1>. QED  BY <1>1, <1>2 DEF IsReady, LInv, OneReady

LEMMA OwnNodeStep ==
    ASSUME LInv, Effects
    PROVE  OwnNode'
<1>. SUFFICES ASSUME NEW d \in Droplets, InPool(d)'
              PROVE  node'[d].id = d /\ swarm'[d].state # "absent"
  BY DEF OwnNode
<1>1. RowStep(d) /\ MemberStep(d)
  BY DEF Effects
<1>2. Exists(d)' /\ node'[d].state \in {"ready", "draining"}
  BY DEF InPool
<1>3. swarm[d].state # "absent" => swarm'[d].state # "absent"
  BY <1>1 DEF MemberStep
<1>4. Exists(d)
  BY <1>1, <1>2, Existed DEF RowStep, RowKept
<1>5. CASE node[d].state \in {"ready", "draining"} /\ node'[d].id = node[d].id
  BY <1>3, <1>4, <1>5 DEF LInv, OwnNode, InPool
<1>6. CASE /\ node[d].state = "joining" /\ IsReady(SwarmNode(d)) /\ Joined(swarm[SwarmNode(d)])
           /\ node'[d].id = SwarmNode(d)
  BY <1>3, <1>4, <1>6, JoinsAsItself DEF Joined
<1>. QED  BY <1>1, <1>2, <1>5, <1>6 DEF RowStep, RowKept

LEMMA SnapPastStep ==
    ASSUME LInv, Effects
    PROVE  SnapPast'
<1>. SUFFICES ASSUME pc' # "snapshot", NEW n \in Droplets
              PROVE  /\ snap'[n].state = "removed" => swarm'[n].state = "removed"
                     /\ snap'[n].avail = "drain"
                            => swarm'[n].state = "removed" \/ swarm'[n].avail = "drain"
                     /\ snap'[n].avail = "drain" /\ ~snap'[n].tasks => ~swarm'[n].tasks
  BY DEF SnapPast
<1>1. MemberStep(n) /\ TickStep
  BY DEF Effects
<1>2. /\ snap[n] \in Member /\ swarm[n] \in Member
      /\ swarm[n].state # "ready" => ~swarm[n].tasks
  BY DEF LInv, IInv, TypeOK, Members
<1>3. CASE snap' = swarm /\ UNCHANGED swarm
  BY <1>3
<1>4. CASE pc # "snapshot" /\ UNCHANGED snap
  <2>1. /\ snap[n].state = "removed" => swarm[n].state = "removed"
        /\ snap[n].avail = "drain" => swarm[n].state = "removed" \/ swarm[n].avail = "drain"
        /\ snap[n].avail = "drain" /\ ~snap[n].tasks => ~swarm[n].tasks
    BY <1>4 DEF LInv, SnapPast
  <2>2. swarm[n].state = "removed" => swarm'[n].state = "removed"
    BY <1>1 DEF MemberStep, Joined
  <2>3. swarm[n].avail = "drain" => swarm'[n].state = "removed" \/ swarm'[n].avail = "drain"
    BY <1>1 DEF MemberStep, Joined
  <2>4. /\ swarm[n].state = "removed" \/ swarm[n].avail = "drain"
        /\ ~swarm[n].tasks
        => ~swarm'[n].tasks
    BY <1>1 DEF MemberStep, Joined
  <2>. QED  BY <1>4, <2>1, <2>2, <2>3, <2>4
<1>. QED  BY <1>1, <1>3, <1>4 DEF TickStep, Advanced

\* A row that is still to be advanced after a step, was so before, or is about to be.
LEMMA StillUnread ==
    ASSUME LInv, Effects, NEW d \in Droplets, Exists(d)', Unread(d)'
    PROVE  /\ Exists(d)
           /\ \/ pc = "snapshot" /\ snap' = swarm /\ UNCHANGED <<node, swarm, droplet>>
              \/ Unread(d) /\ UNCHANGED snap
                 /\ (node'[d].state \in {"ready", "draining"} => RowKept(d))
<1>1. RowStep(d) /\ TickStep
  BY DEF Effects
<1>2. Exists(d)
  BY Existed DEF Unread
<1>3. CASE pc = "list"
  BY <1>1, <1>2, <1>3 DEF RowStep, RowKept, Advanced, TickStep, Unread
<1>4. CASE pc # "list"
  BY <1>1, <1>2, <1>4 DEF TickStep, RowKept, Unread, Advanced
<1>. QED  BY <1>3, <1>4

LEMMA SeenStep ==
    ASSUME LInv, Effects
    PROVE  Seen'
<1>. SUFFICES ASSUME NEW d \in Droplets, Unread(d)', InPool(d)'
              PROVE  snap'[d].state # "absent"
  BY DEF Seen
<1>1. CASE snap' = swarm /\ UNCHANGED <<node, swarm, droplet>>
  BY <1>1 DEF InPool, Exists, LInv, OwnNode
<1>2. CASE Exists(d) /\ Unread(d) /\ UNCHANGED snap /\ RowKept(d)
  BY <1>2 DEF InPool, RowKept, LInv, Seen
<1>. QED  BY <1>1, <1>2, StillUnread DEF InPool

\* A worker that is drained by its snapshot is drained, whatever node it was matched with.
LEMMA DrainedAsItself ==
    ASSUME LInv, NEW d \in Droplets, InPool(d), Advanced(d),
           SwarmNode(d) # 0, snap[SwarmNode(d)].avail = "drain"
    PROVE  swarm[d].state = "removed" \/ swarm[d].avail = "drain"
<1>1. node[d].id = d /\ Unread(d) /\ pc # "snapshot"
  BY DEF LInv, OwnNode, Advanced, Unread
<1>2. snap[d] \in Member /\ d # 0
  BY DEF LInv, IInv, TypeOK, Droplets
<1>3. CASE Joined(snap[d])
  <2>1. SwarmNode(d) = d
    BY <1>1, <1>2, <1>3 DEF SwarmNode
  <2>. QED  BY <1>1, <2>1 DEF LInv, SnapPast
<1>4. CASE ~Joined(snap[d])
  <2>1. snap[d].state = "removed"
    BY <1>1, <1>2, <1>4 DEF LInv, Seen, Joined, Member
  <2>. QED  BY <1>1, <2>1 DEF LInv, SnapPast
<1>. QED  BY <1>3, <1>4

LEMMA DrainsStep ==
    ASSUME LInv, Effects
    PROVE  Drains'
<1>. SUFFICES ASSUME NEW d \in Droplets, Exists(d)', node'[d].state = "draining"
              PROVE  /\ swarm'[d].state = "removed" \/ swarm'[d].avail = "drain"
                     /\ Unread(d)' => snap'[d].state = "removed" \/ snap'[d].avail = "drain"
  BY DEF Drains
<1>1. RowStep(d) /\ MemberStep(d) /\ TickStep
  BY DEF Effects
<1>2. Exists(d)
  BY <1>1, Existed DEF RowStep, RowKept
<1>3. swarm[d].state = "removed" \/ swarm[d].avail = "drain"
        => swarm'[d].state = "removed" \/ swarm'[d].avail = "drain"
  BY <1>1 DEF MemberStep, Joined
<1>4. CASE RowKept(d)
  <2>1. /\ swarm[d].state = "removed" \/ swarm[d].avail = "drain"
        /\ Unread(d) => snap[d].state = "removed" \/ snap[d].avail = "drain"
    BY <1>2, <1>4 DEF RowKept, LInv, Drains
  <2>. QED  BY <1>3, <2>1, StillUnread
<1>5. CASE /\ Advanced(d) /\ node[d].state = "ready" /\ ~RowKept(d)
           /\ SwarmNode(d) # 0 /\ snap[SwarmNode(d)].avail = "drain"
  <2>1. swarm[d].state = "removed" \/ swarm[d].avail = "drain"
    BY <1>2, <1>5, DrainedAsItself DEF InPool
  <2>2. ~Unread(d)'
    BY <1>5, StillUnread DEF Advanced
  <2>. QED  BY <1>3, <2>1, <2>2
<1>6. CASE /\ pc' = "snapshot" /\ node[d].state = "ready"
           /\ swarm'[node[d].id].avail = "drain"
  BY <1>2, <1>6 DEF Unread, LInv, OwnNode, InPool
<1>. QED  BY <1>1, <1>4, <1>5, <1>6 DEF RowStep

\* A worker the calm snapshot judges has its own node, and that is up.
LEMMA CalmMatch ==
    ASSUME LInv, incidents = 0, NEW d \in Droplets, InPool(d), Unread(d)
    PROVE  SwarmNode(d) = d /\ snap[d].state = "ready" /\ ~IsDown(d)
<1>1. node[d].id = d /\ snap[d].state = "ready" /\ d # 0
  BY DEF LInv, OwnNode, CalmSnap, Droplets
<1>. QED  BY <1>1 DEF SwarmNode, Joined, IsDown

LEMMA CalmRowsStep ==
    ASSUME LInv, Effects
    PROVE  CalmRows'
<1>. SUFFICES ASSUME incidents' = 0, NEW d \in Droplets
              PROVE  /\ node'[d].state \in {"provisioning", "joining", "ready"} => Exists(d)'
                     /\ Exists(d)' => swarm'[d].state \in {"absent", "ready"}
                     /\ Exists(d)' /\ swarm'[d].avail = "drain"
                            => node'[d].state \in {"ready", "draining"}
  BY DEF CalmRows
<1>1. RowStep(d) /\ DropletStep(d) /\ MemberStep(d) /\ incidents = 0
  BY DEF Effects
<1>2. /\ node[d].state \in {"provisioning", "joining", "ready"} => Exists(d)
      /\ Exists(d) => swarm[d].state \in {"absent", "ready"}
      /\ Exists(d) /\ swarm[d].avail = "drain" => node[d].state \in {"ready", "draining"}
      /\ \A e \in Droplets : node[e].state = "ready" => Exists(e)
  BY <1>1 DEF LInv, CalmRows
<1>3. /\ swarm[d] \in Member
      /\ swarm[d].state = "absent" => swarm[d].avail = "active"
  BY DEF LInv, IInv, TypeOK, Members
<1>4. node'[d].state \in {"provisioning", "joining", "ready"} /\ Exists(d) => Exists(d)'
  BY <1>1 DEF DropletStep, Exists
<1>5. node'[d].state \in {"provisioning", "joining", "ready"} => Exists(d)'
  BY <1>1, <1>2, <1>4 DEF RowStep, RowKept, Exists
<1>6. Exists(d)' => swarm'[d].state \in {"absent", "ready"}
  BY <1>1, <1>2, Existed DEF MemberStep, Joined
<1>7. ASSUME Exists(d)', swarm'[d].avail = "drain"
      PROVE  node'[d].state \in {"ready", "draining"}
  <2>1. Exists(d)
    BY <1>1, <1>3, <1>7, Existed DEF MemberStep, Joined
  <2>2. node[d].state \in {"ready", "draining"}
           /\ (swarm[d].avail # "drain" => pc = "decide")
    <3>1. CASE swarm[d].avail = "drain"
      BY <1>2, <2>1, <3>1
    <3>2. CASE swarm[d].avail # "drain"
      <4>1. PICK e \in Droplets : pc = "decide" /\ node[e].state = "ready" /\ node[e].id = d
        BY <1>1, <1>7, <3>2 DEF MemberStep
      <4>2. e = d
        BY <1>2, <4>1 DEF LInv, OwnNode, InPool
      <4>. QED  BY <4>1, <4>2
    <3>. QED  BY <3>1, <3>2
  <2>3. ~(Advanced(d) /\ node[d].state = "ready" /\ IsDown(SwarmNode(d)))
    BY <1>1, <2>1, CalmMatch DEF Advanced, Unread, InPool
  <2>. QED  BY <1>1, <1>7, <2>1, <2>2, <2>3 DEF RowStep, RowKept, Exists
<1>. QED  BY <1>5, <1>6, <1>7

LEMMA CalmSnapStep ==
    ASSUME LInv, Effects
    PROVE  CalmSnap'
<1>. SUFFICES ASSUME incidents' = 0, NEW d \in Droplets, Exists(d)',
                     node'[d].state \in {"ready", "draining"}
              PROVE  /\ Unread(d)' => snap'[d].state = "ready"
                     /\ node'[d].state = "ready" /\ Read(d)'
                            => snap'[d].state = "ready" /\ snap'[d].avail = "active"
  BY DEF CalmSnap, InPool
<1>1. RowStep(d) /\ TickStep /\ incidents = 0
  BY DEF Effects
<1>2. Exists(d)
  BY <1>1, Existed DEF RowStep, RowKept
<1>3. snap[d] \in Member
  BY DEF LInv, IInv, TypeOK
<1>4. ASSUME Unread(d)'
      PROVE  snap'[d].state = "ready"
  <2>1. CASE snap' = swarm /\ UNCHANGED <<node, swarm, droplet>>
    BY <1>1, <1>2, <2>1 DEF LInv, CalmRows, OwnNode, InPool
  <2>2. CASE Unread(d) /\ UNCHANGED snap /\ RowKept(d)
    BY <1>1, <1>2, <2>2 DEF LInv, CalmSnap, InPool, RowKept
  <2>. QED  BY <1>4, <2>1, <2>2, StillUnread
<1>5. ASSUME node'[d].state = "ready", Read(d)'
      PROVE  snap'[d].state = "ready" /\ snap'[d].avail = "active"
  <2>1. CASE Read(d) /\ UNCHANGED snap /\ node[d].state = "ready"
    BY <1>1, <1>2, <2>1 DEF LInv, CalmSnap
  <2>2. CASE Advanced(d) /\ UNCHANGED snap /\ node[d].state = "ready" /\ StaysIfServing(d)
    <3>1. SwarmNode(d) = d /\ snap[d].state = "ready" /\ d # 0
      BY <1>1, <1>2, <2>2, CalmMatch DEF Advanced, Unread, InPool, Droplets
    <3>. QED  BY <1>3, <1>5, <2>2, <3>1 DEF StaysIfServing, Member
  <2>3. CASE /\ Advanced(d) /\ UNCHANGED snap /\ node[d].state = "joining"
             /\ IsReady(SwarmNode(d)) /\ Joined(swarm[SwarmNode(d)])
    <3>1. SwarmNode(d) = d
      BY <1>2, <2>3, JoinsAsItself
    <3>2. swarm[d].avail # "drain"
      BY <1>1, <1>2, <2>3 DEF LInv, CalmRows
    <3>3. snap[d].avail # "drain"
      BY <2>3, <3>1, <3>2 DEF LInv, SnapPast, Advanced, Joined
    <3>. QED  BY <1>3, <2>3, <3>1, <3>3 DEF IsReady, Member
  <2>4. \/ node[d].state = "ready"
        \/ /\ Advanced(d) /\ node[d].state = "joining"
           /\ IsReady(SwarmNode(d)) /\ Joined(swarm[SwarmNode(d)])
    BY <1>1, <1>5 DEF RowStep, RowKept
  <2>5. \/ Read(d) /\ UNCHANGED snap /\ (node'[d] = node[d])
        \/ Advanced(d) /\ UNCHANGED snap /\ StaysIfServing(d)
    BY <1>1, <1>5 DEF TickStep, Read, StaysIfServing, Advanced
  <2>. QED  BY <1>5, <2>1, <2>2, <2>3, <2>4, <2>5 DEF Advanced, Read
<1>. QED  BY <1>4, <1>5

-----------------------------------------------------------------------------
\* The invariant is inductive.

LEMMA LimitInit == ScalerAssumption /\ Init => LInv
<1>. SUFFICES ASSUME ScalerAssumption, Init PROVE LInv
  OBVIOUS
<1>1. IInv /\ TypeOK
  BY InvInit DEF IInv
<1>2. \A d \in Droplets : node[d].state = "none" /\ node[d].id = 0
  BY DEF Init, NoRow
<1>3. \A d \in Droplets : /\ Exists(d) => d = 1
                          /\ droplet[d] # "active" => swarm[d].state = "absent"
                          /\ droplet[d] \in {"none", "active"}
  BY DEF Init, Exists, NoMember
<1>4. \A n \in Droplets : /\ swarm[n].state \in {"absent", "ready"}
                          /\ swarm[n].avail = "active" /\ ~swarm[n].tasks
                          /\ swarm[n].state = "ready" => n = 1
                          /\ snap[n].state = "absent"
  BY DEF Init, NoMember, NoSnap
<1>5. pc = "snapshot" /\ booted = {}
  BY DEF Init
<1>a. Apart
  BY <1>3 DEF Apart
<1>b. OneReady
  BY <1>3, <1>4 DEF OneReady, Exists
<1>c. IdAddress /\ Booted /\ Members
  BY <1>2, <1>3, <1>4, <1>5 DEF IdAddress, Booted, Members
<1>6. Apart /\ OneReady /\ IdAddress /\ Booted /\ Members
  BY <1>a, <1>b, <1>c
<1>7. OwnNode /\ SnapPast /\ Seen /\ Drains /\ CalmSnap
  BY <1>2, <1>5 DEF OwnNode, SnapPast, Seen, Drains, CalmSnap, InPool
<1>8. CalmRows
  BY <1>2, <1>4 DEF CalmRows
<1>. QED  BY <1>1, <1>6, <1>7, <1>8 DEF LInv

LEMMA LimitStep ==
    ASSUME ScalerAssumption, LInv, [Next]_vars
    PROVE  LInv'
<1>1. Effects
  BY StepEffects
<1>2. IInv'
  BY InvStep DEF LInv
<1>. QED
  BY <1>1, <1>2, ApartStep, OneReadyStep, IdAddressStep, BootedStep, MembersStep, OwnNodeStep,
     SnapPastStep, SeenStep, DrainsStep, CalmRowsStep, CalmSnapStep
  DEF LInv

\* What the scaler can conclude from its snapshot: a row in the pool has the swarm node
\* of its own droplet, a node that was drained still is, and, as long as nobody else
\* interferes, every row in the pool that was advanced is that of a ready worker.
THEOREM SnapshotsHold == Spec => []LInv
<1>1. Init => LInv
  BY LimitInit, ScalerAssumption
<1>2. LInv /\ [Next]_vars => LInv'
  BY LimitStep, ScalerAssumption
<1>. QED  BY <1>1, <1>2, PTL DEF Spec

\* A droplet is deleted once it is empty, unless it failed or somebody else deletes it.
THEOREM DrainedFirstHolds == Spec => DrainedFirst
<1>1. ASSUME LInv, [Next]_vars, NEW d \in Deleted,
             node[d].state # "failed", incidents' = incidents
      PROVE  ~swarm[d].tasks
  <2>1. d \in Droplets /\ Exists(d) /\ droplet'[d] = "gone"
    BY DEF Deleted
  <2>2. Advanced(d) /\ node[d].state = "draining" /\ ~HasTasks(SwarmNode(d))
    BY <1>1, <2>1, StepEffects DEF Effects, DropletStep, Exists
  <2>3. /\ node[d].id = d /\ d # 0
        /\ snap[d].state # "absent"
        /\ snap[d].state = "removed" \/ snap[d].avail = "drain"
    BY <1>1, <2>1, <2>2
    DEF LInv, OwnNode, Seen, Drains, InPool, Advanced, Unread, Droplets
  <2>4. snap[d] \in Member /\ pc # "snapshot"
    BY <1>1, <2>1, <2>2 DEF LInv, IInv, TypeOK, Advanced
  <2>5. CASE Joined(snap[d])
    <3>1. SwarmNode(d) = d
      BY <2>3, <2>5 DEF SwarmNode
    <3>. QED  BY <1>1, <2>1, <2>2, <2>3, <2>4, <2>5, <3>1 DEF HasTasks, LInv, SnapPast, Joined
  <2>6. CASE ~Joined(snap[d])
    <3>1. snap[d].state = "removed"
      BY <2>3, <2>4, <2>6 DEF Joined, Member
    <3>. QED  BY <1>1, <2>1, <2>4, <3>1 DEF LInv, SnapPast, Members
  <2>. QED  BY <2>5, <2>6
<1>2. LInv /\ [Next]_vars
        => [\A d \in Deleted : node[d].state # "failed" /\ pc' = pc /\ incidents' = incidents
                => ~swarm[d].tasks]_vars
  BY <1>1
<1>. QED  BY <1>2, SnapshotsHold, PTL DEF Spec, DrainedFirst

\* When the policy adds a worker, each droplet that exists is one of those it counted.
LEMMA AllCounted ==
    ASSUME LInv, incidents = 0, pc = "decide", ~Changing, NEW d \in Droplets, Exists(d)
    PROVE  d \in Workers
<1>1. node[d].state \notin Busy \cup {"none", "destroyed"}
  BY DEF LInv, IInv, Changing, Tracked, DeletedGone, Listed
<1>2. node[d].state = "ready"
  BY <1>1, RowFields DEF LInv, IInv, Busy, NodeStates
<1>. QED  BY <1>2 DEF LInv, CalmSnap, Read, Workers

\* A step leaves as many droplets as there were, or fewer, or adds one below the limit.
LEMMA LimitKept ==
    ASSUME ScalerAssumption, LInv, Effects, MaxRespected
    PROVE  MaxRespected'
<1> DEFINE E == {d \in Droplets : Exists(d)}
           F == {d \in Droplets : Exists(d)'}
<1>. SUFFICES ASSUME incidents' = 0 PROVE Cardinality(F) <= MaxWorkers
  BY DEF MaxRespected
<1>1. incidents = 0 /\ IsFiniteSet(Droplets) /\ MaxWorkers \in Nat
  BY FS_Interval DEF Effects, Droplets, ScalerAssumption
<1>2. IsFiniteSet(E) /\ Cardinality(E) \in Nat /\ Cardinality(E) <= MaxWorkers
  BY <1>1, FS_Subset, FS_CardinalityType DEF MaxRespected
<1>3. CASE F \subseteq E
  <2>1. Cardinality(F) <= Cardinality(E) /\ Cardinality(F) \in Nat
    BY <1>2, <1>3, FS_Subset, FS_CardinalityType
  <2>. QED  BY <1>1, <1>2, <2>1
<1>4. ASSUME NEW d \in F, d \notin E
      PROVE  Cardinality(F) <= MaxWorkers
  <2>1. /\ pc = "decide" /\ ~Changing /\ Cardinality(Workers) < MaxWorkers
        /\ \A e \in Droplets : e # d => droplet'[e] = droplet[e]
    <3>1. droplet[d] = "none" /\ droplet'[d] = "new"
      BY <1>4, Existed
    <3>2. DropletStep(d)
      BY <1>4 DEF Effects
    <3>. QED  BY <3>1, <3>2 DEF DropletStep, Exists
  <2>2. E \subseteq Workers
    BY <1>1, <2>1, AllCounted
  <2>3. Cardinality(E) <= Cardinality(Workers) /\ Cardinality(Workers) \in Nat
    BY <2>2, WorkersCount, FS_Subset
  <2>4. F = E \cup {d}
    BY <1>4, <2>1 DEF Exists
  <2>5. Cardinality(E \cup {d}) = Cardinality(E) + 1
    BY <1>2, <1>4, FS_AddElement
  <2>. QED  BY <1>1, <1>2, <2>1, <2>3, <2>4, <2>5
<1>. QED  BY <1>3, <1>4

\* Where a worker is allowed at all, the scaler never pays for more than MAX_WORKERS
\* droplets; with none allowed, the seed worker of the infrastructure is already too many.
THEOREM MaxRespectedHolds == 1 <= MaxWorkers => (Spec => []MaxRespected)
<1>. SUFFICES ASSUME 1 <= MaxWorkers PROVE Spec => []MaxRespected
  OBVIOUS
<1>1. Init => MaxRespected
  <2>. SUFFICES ASSUME Init PROVE Cardinality({d \in Droplets : Exists(d)}) <= MaxWorkers
    BY DEF MaxRespected
  <2>1. {d \in Droplets : Exists(d)} \subseteq {1}
    BY DEF Init, Exists
  <2> DEFINE E == {d \in Droplets : Exists(d)}
  <2>a. IsFiniteSet({1}) /\ Cardinality({1}) = 1 /\ E \in SUBSET {1}
    BY <2>1, FS_Singleton
  <2> HIDE DEF E
  <2>b. IsFiniteSet(E) /\ Cardinality(E) <= 1
    BY <2>a, FS_Subset
  <2>2. Cardinality(E) <= 1 /\ Cardinality(E) \in Nat
    BY <2>b, FS_CardinalityType
  <2> USE DEF E
  <2>. QED  BY <2>2, ScalerAssumption DEF ScalerAssumption
<1>2. LInv /\ MaxRespected /\ [Next]_vars => MaxRespected'
  BY LimitKept, StepEffects, ScalerAssumption
<1>. QED  BY <1>1, <1>2, SnapshotsHold, PTL DEF Spec
=============================================================================

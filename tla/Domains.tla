------------------------------ MODULE Domains ------------------------------
(***************************************************************************)
(* Managed hosting: the pool of ready names and the addresses of targets.  *)
(* First deploys take a name from the pool or have one made, users claim   *)
(* the name they want, targets are removed, and a cron task refills the    *)
(* pool.  Each of them reads rows of hosting_domain, calls the DNS         *)
(* provider and Dokploy, and then writes the rows it read.                 *)
(***************************************************************************)
EXTENDS Integers, FiniteSets

CONSTANTS
    Targets,     \* deploy targets
    Names,       \* names under the base domain
    Calls, Cron, \* requests that may be under way at once; the refill task
    NoTarget, NoName,
    PoolSize,    \* names kept ready
    MaxTries,    \* how often a claim on the pool is tried (5 in the code)
    MaxCalls,    \* bound: requests begun
    MaxRows,     \* bound: rows inserted
    MaxFaults    \* bound: failing calls and restarts

ASSUME DomainsAssumption ==
    /\ IsFiniteSet(Targets) /\ IsFiniteSet(Names) /\ Cron \notin Calls
    /\ NoTarget \notin Targets /\ NoName \notin Names
    /\ PoolSize \in Nat /\ MaxTries \in Nat \ {0}
    /\ MaxCalls \in Nat /\ MaxRows \in Nat /\ MaxFaults \in Nat

VARIABLES
    rows, inserted,   \* the rows of hosting_domain by ID; how many were inserted
    routes,           \* Dokploy's domains: a name routed to the app of a target
    live, removed,    \* targets that exist, and that existed
    apps,             \* targets whose row names their Dokploy app
    blind,            \* processes that read the row of their target before it did
    op, begun,        \* what each request and the cron task knows; requests begun
    faults

outside == <<routes, live, removed, apps, blind, begun>>
vars == <<rows, inserted, routes, live, removed, apps, blind, op, begun, faults>>

Processes == Calls \cup {Cron}
Ids == 1 .. MaxRows

\* A row's route is the ID of its Dokploy domain: routes get the ID of their row, as
\* no row is routed twice.
NoRow == [name |-> NoName, status |-> "none", target |-> NoTarget, routed |-> FALSE]
Row == [name : Names \cup {NoName}, status : {"none", "provisioning", "available", "assigned"},
        target : Targets \cup {NoTarget}, routed : BOOLEAN]
Route == [id : Ids, name : Names, target : Targets]

\* "previous" holds copies of rows: those to release, or those stuck in provisioning.
Copy   == [id : Ids, routed : BOOLEAN]
Idle   == [kind |-> "none", pc |-> "idle", target |-> NoTarget, name |-> NoName, id |-> 0,
           tries |-> 0, previous |-> {}, need |-> 0]
Stages == {"idle", "create", "pool", "take", "pick", "insert", "point", "assign", "list", "record", "claim",
           "route", "save", "release", "unrouted", "stuck", "purge", "count", "domains", "target",
           "row"}
Op == [kind : {"none", "first", "claim", "remove", "refill"}, pc : Stages,
       target : Targets \cup {NoTarget}, name : Names \cup {NoName}, id : 0 .. MaxRows,
       tries : 0 .. MaxTries, previous : SUBSET Copy, need : 0 .. PoolSize]

\* Every variable has its type, and the pool never holds more names than asked for:
\* RefillDomainPool counts once and then makes what was missing.
TypeOK ==
    /\ rows \in [Ids -> Row] /\ inserted \in 0 .. MaxRows
    /\ Cardinality({i \in Ids : rows[i].status = "available"}) <= PoolSize
    /\ routes \subseteq Route /\ live \subseteq Targets /\ removed \subseteq Targets
    /\ apps \subseteq Targets /\ blind \subseteq Processes /\ op \in [Processes -> Op]
    /\ begun \in 0 .. MaxCalls /\ faults \in 0 .. MaxFaults

Init ==
    /\ rows = [i \in Ids |-> NoRow] /\ inserted = 0
    /\ routes = {} /\ live = {} /\ removed = {} /\ apps = {} /\ blind = {}
    /\ op = [p \in Processes |-> Idle] /\ begun = 0
    /\ faults = 0

Present       == {i \in Ids : rows[i] # NoRow}
Exists(n)     == \E i \in Present : rows[i].name = n
Rows(status)  == {i \in Ids : rows[i].status = status}
Owned(t)      == {i \in Present : rows[i].target = t}
CopyOf(i)     == [id |-> i, routed |-> rows[i].routed]

Fault       == faults < MaxFaults /\ faults' = faults + 1
At(p, pc)   == op[p].pc = pc
Set(p, new) == op' = [op EXCEPT ![p] = new]
Goto(p, pc) == Set(p, [op[p] EXCEPT !.pc = pc])
End(p)      == Set(p, Idle)

\* A first deploy that fails leaves no target behind; other requests just end.
Fail(p) == IF op[p].kind = "first"
           THEN Set(p, [Idle EXCEPT !.kind = "remove", !.pc = "domains", !.target = op[p].target])
           ELSE End(p)

-----------------------------------------------------------------------------
\* Requests, and the runs of the cron task.

\* EnsureTarget, for a target that does not exist yet, with or without a chosen name: its
\* row is there before its app is.  A target made again after its removal is a new one.
BeginFirst(p, t, n) ==
    /\ op[p] = Idle /\ begun < MaxCalls /\ t \notin live \cup removed
    /\ live' = live \cup {t} /\ begun' = begun + 1 /\ blind' = blind \cup {p}
    /\ Set(p, [Idle EXCEPT !.kind = "first", !.pc = "create", !.target = t, !.name = n])
    /\ UNCHANGED <<rows, inserted, routes, removed, apps, faults>>

\* Other requests read the row of the target, with its app if that is saved by then.
Reads(p, t) == blind' = IF t \in apps THEN blind \ {p} ELSE blind \cup {p}

BeginClaim(p, t, n) ==
    /\ op[p] = Idle /\ begun < MaxCalls /\ t \in live
    /\ begun' = begun + 1 /\ Reads(p, t)
    /\ Set(p, [Idle EXCEPT !.kind = "claim", !.pc = "list", !.target = t, !.name = n])
    /\ UNCHANGED <<rows, inserted, routes, live, removed, apps, faults>>

BeginRemove(p, t) ==
    /\ op[p] = Idle /\ begun < MaxCalls /\ t \in live
    /\ begun' = begun + 1 /\ Reads(p, t)
    /\ Set(p, [Idle EXCEPT !.kind = "remove", !.pc = "domains", !.target = t])
    /\ UNCHANGED <<rows, inserted, routes, live, removed, apps, faults>>

\* provisionTarget: the app of a new target, and its ID on the row.
CreateApp(p, ok) ==
    /\ At(p, "create")
    /\ IF ok THEN /\ apps' = apps \cup {op[p].target} /\ blind' = blind \ {p}
                  /\ Goto(p, IF op[p].name = NoName THEN "pool" ELSE "list")
                  /\ UNCHANGED faults
       ELSE Fault /\ Fail(p) /\ UNCHANGED <<apps, blind>>
    /\ UNCHANGED <<rows, inserted, routes, live, removed, begun>>

\* Every five minutes; a run that would find nothing to do is left out.
BeginRefill ==
    /\ op[Cron] = Idle /\ (Rows("provisioning") # {} \/ Cardinality(Rows("available")) < PoolSize)
    /\ Set(Cron, [Idle EXCEPT !.kind = "refill", !.pc = "stuck"])
    /\ UNCHANGED <<rows, inserted, outside, faults>>

-----------------------------------------------------------------------------
\* ClaimPoolDomain: read the first available row, then take it if it still is.

ReadCandidate(p) ==
    /\ At(p, "pool")
    /\ IF Rows("available") = {} \/ op[p].tries = MaxTries
       THEN Goto(p, "pick")
       ELSE \E first \in Rows("available") :
              /\ \A i \in Rows("available") : first <= i
              /\ Set(p, [op[p] EXCEPT !.pc = "take", !.id = first])
    /\ UNCHANGED <<rows, inserted, outside, faults>>

\* Mutant: the candidate is taken whoever took it meanwhile.
TakenAnyway(i) == rows[i] # NoRow

StillAvailable(i) == rows[i].status = "available"

TakeCandidate(p) ==
    /\ At(p, "take")
    /\ IF StillAvailable(op[p].id)
       THEN /\ rows' = [rows EXCEPT ![op[p].id].status = "assigned", ![op[p].id].target = op[p].target]
            /\ Set(p, [op[p] EXCEPT !.pc = "route", !.name = rows[op[p].id].name])
       ELSE /\ Set(p, [op[p] EXCEPT !.pc = "pool", !.tries = @ + 1])
            /\ UNCHANGED rows
    /\ UNCHANGED <<inserted, outside, faults>>

-----------------------------------------------------------------------------
\* provisionPoolDomain: pick a free name, insert it, create its DNS record, update it.

PickName(p, n) ==
    /\ At(p, "pick") /\ ~Exists(n)
    /\ Set(p, [op[p] EXCEPT !.pc = "insert", !.name = n])
    /\ UNCHANGED <<rows, inserted, outside, faults>>

NoFreeName(p) ==
    /\ At(p, "pick") /\ \A n \in Names : Exists(n)
    /\ Fail(p)
    /\ UNCHANGED <<rows, inserted, outside, faults>>

Insert(p, status, target, next) ==
    IF Exists(op[p].name)
    THEN Fail(p) /\ UNCHANGED <<rows, inserted>>
    ELSE /\ inserted < MaxRows
         /\ inserted' = inserted + 1
         /\ rows' = [rows EXCEPT ![inserted'] =
                       [name |-> op[p].name, status |-> status, target |-> target, routed |-> FALSE]]
         /\ Set(p, [op[p] EXCEPT !.pc = next, !.id = inserted'])

InsertProvisioning(p) ==
    /\ At(p, "insert")
    /\ Insert(p, "provisioning", NoTarget, "point")
    /\ UNCHANGED <<outside, faults>>

\* When there is no record the row is deleted again.
CreateRecord(p, ok) ==
    /\ At(p, "point")
    /\ IF ok THEN Goto(p, "assign") /\ UNCHANGED <<rows, faults>>
       ELSE Fault /\ Fail(p) /\ rows' = [rows EXCEPT ![op[p].id] = NoRow]
    /\ UNCHANGED <<inserted, outside>>

Made(p) == IF op[p].kind = "refill" THEN [rows[op[p].id] EXCEPT !.status = "available"]
           ELSE [rows[op[p].id] EXCEPT !.status = "assigned", !.target = op[p].target]

\* Mutant: the loop that fills the pool runs once too often.
OneMoreNeeded(p) == op[p].need > 0

MoreNeeded(p) == op[p].need > 1

\* The update changes nothing when the row is gone, and nobody looks.
AssignName(p) ==
    /\ At(p, "assign")
    /\ rows' = IF rows[op[p].id] = NoRow THEN rows ELSE [rows EXCEPT ![op[p].id] = Made(p)]
    /\ IF op[p].kind = "first" THEN Goto(p, "route")
       ELSE IF MoreNeeded(p)
            THEN Set(p, [op[p] EXCEPT !.pc = "pick", !.need = @ - 1])
            ELSE End(p)
    /\ UNCHANGED <<inserted, outside, faults>>

-----------------------------------------------------------------------------
\* RefillDomainPool.

ListStuck(p) ==
    /\ At(p, "stuck")
    /\ Set(p, [op[p] EXCEPT !.pc = "purge", !.previous = {CopyOf(i) : i \in Rows("provisioning")}])
    /\ UNCHANGED <<rows, inserted, outside, faults>>

PurgeStuck(p) ==
    /\ At(p, "purge")
    /\ IF op[p].previous = {} THEN Goto(p, "count") /\ UNCHANGED rows
       ELSE \E old \in op[p].previous :
              /\ rows' = [rows EXCEPT ![old.id] = NoRow]
              /\ Set(p, [op[p] EXCEPT !.previous = @ \ {old}])
    /\ UNCHANGED <<inserted, outside, faults>>

Counted == Cardinality(Rows("available"))

CountAvailable(p) ==
    /\ At(p, "count")
    /\ IF Counted >= PoolSize THEN End(p)
       ELSE Set(p, [op[p] EXCEPT !.pc = "pick", !.need = PoolSize - Counted])
    /\ UNCHANGED <<rows, inserted, outside, faults>>

-----------------------------------------------------------------------------
\* ClaimSubdomain.

\* A name of the target itself is its already; one of another target is refused.
ListPrevious(p) ==
    /\ At(p, "list")
    /\ IF \E i \in Owned(op[p].target) : rows[i].name = op[p].name
       THEN End(p)
       ELSE IF Exists(op[p].name)
       THEN Fail(p)
       ELSE Set(p, [op[p] EXCEPT !.pc = "record",
                                 !.previous = {CopyOf(i) : i \in Owned(op[p].target)}])
    /\ UNCHANGED <<rows, inserted, outside, faults>>

CreateClaimRecord(p, ok) ==
    /\ At(p, "record")
    /\ IF ok THEN Goto(p, "claim") /\ UNCHANGED faults ELSE Fault /\ Fail(p)
    /\ UNCHANGED <<rows, inserted, outside>>

InsertClaim(p) ==
    /\ At(p, "claim")
    /\ Insert(p, "assigned", op[p].target, "route")
    /\ UNCHANGED <<outside, faults>>

-----------------------------------------------------------------------------
\* routeDomain: a domain in Dokploy, and its ID on the row if that is still there.  Dokploy
\* refuses a domain for no app.

AddRoute(p, ok) ==
    /\ At(p, "route") /\ (ok => p \notin blind)
    /\ IF ok THEN /\ routes' = routes \cup {[id |-> op[p].id, name |-> op[p].name, target |-> op[p].target]}
                  /\ Goto(p, "save") /\ UNCHANGED faults
       ELSE Fault /\ Fail(p) /\ UNCHANGED routes
    /\ UNCHANGED <<rows, inserted, live, removed, apps, blind, begun>>

\* Mutant: the old addresses are those that the target has by now.
ListedLate(p) == {CopyOf(i) : i \in Owned(op[p].target) \ {op[p].id}}

ToRelease(p) == op[p].previous

SaveRoute(p) ==
    /\ At(p, "save")
    /\ rows' = IF rows[op[p].id] = NoRow THEN rows ELSE [rows EXCEPT ![op[p].id].routed = TRUE]
    /\ IF ToRelease(p) = {} THEN End(p)
       ELSE Set(p, [op[p] EXCEPT !.pc = "release", !.previous = ToRelease(p)])
    /\ UNCHANGED <<inserted, outside, faults>>

-----------------------------------------------------------------------------
\* releaseDomain, of the old addresses of a claim or all those of a removed target.

ListDomains(p) ==
    /\ At(p, "domains")
    /\ LET owned == {CopyOf(i) : i \in Owned(op[p].target)}
       IN  Set(p, [op[p] EXCEPT !.pc = IF owned = {} THEN "target" ELSE "release", !.previous = owned])
    /\ UNCHANGED <<rows, inserted, outside, faults>>

Oldest(p)   == CHOOSE old \in op[p].previous : \A other \in op[p].previous : old.id <= other.id
Rest(p)     == op[p].previous \ {Oldest(p)}
Released(p) == IF Rest(p) # {} THEN Set(p, [op[p] EXCEPT !.pc = "release", !.previous = Rest(p)])
               ELSE IF op[p].kind = "remove" THEN Set(p, [op[p] EXCEPT !.pc = "target", !.previous = {}])
               ELSE End(p)

\* A claim logs what it could not release and goes on; a removal gives up.
ReleaseFails(p) ==
    /\ op[p].pc \in {"release", "unrouted"}
    /\ Fault
    /\ IF op[p].kind = "remove" THEN End(p) ELSE Released(p)
    /\ UNCHANGED <<rows, inserted, outside>>

\* Mutant: the target's routes go, not only the one of the address.
AllUnrouted(p) == {r \in routes : r.target # op[p].target}

Unrouted(p) == {r \in routes : r.id # Oldest(p).id}

RemoveRoute(p) ==
    /\ At(p, "release")
    /\ routes' = IF Oldest(p).routed THEN Unrouted(p) ELSE routes
    /\ Goto(p, "unrouted")
    /\ UNCHANGED <<rows, inserted, live, removed, apps, blind, begun, faults>>

DeleteRow(p) ==
    /\ At(p, "unrouted")
    /\ rows' = [rows EXCEPT ![Oldest(p).id] = NoRow]
    /\ Released(p)
    /\ UNCHANGED <<inserted, outside, faults>>

\* removeTarget deletes the app that it knows of, and Dokploy the routes of that app.
RemoveApp(p, ok) ==
    /\ At(p, "target")
    /\ IF ok THEN /\ routes' = IF p \in blind THEN routes ELSE {r \in routes : r.target # op[p].target}
                  /\ Goto(p, "row") /\ UNCHANGED faults
       ELSE Fault /\ p \notin blind /\ End(p) /\ UNCHANGED routes
    /\ UNCHANGED <<rows, inserted, live, removed, apps, blind, begun>>

DeleteTarget(p) ==
    /\ At(p, "row")
    /\ live' = live \ {op[p].target} /\ removed' = removed \cup {op[p].target}
    /\ End(p)
    /\ UNCHANGED <<rows, inserted, routes, apps, blind, begun, faults>>

\* GitW3 restarts: what was under way stops.
Crash ==
    /\ Fault /\ \E p \in Processes : op[p] # Idle
    /\ op' = [p \in Processes |-> Idle]
    /\ UNCHANGED <<rows, inserted, outside>>

-----------------------------------------------------------------------------
Step(p) ==
    \/ CreateApp(p, TRUE)
    \/ ReadCandidate(p) \/ TakeCandidate(p) \/ NoFreeName(p) \/ \E n \in Names : PickName(p, n)
    \/ InsertProvisioning(p) \/ CreateRecord(p, TRUE) \/ AssignName(p)
    \/ ListStuck(p) \/ PurgeStuck(p) \/ CountAvailable(p)
    \/ ListPrevious(p) \/ CreateClaimRecord(p, TRUE) \/ InsertClaim(p)
    \/ AddRoute(p, TRUE) \/ SaveRoute(p)
    \/ ListDomains(p) \/ RemoveRoute(p) \/ DeleteRow(p)
    \/ RemoveApp(p, TRUE) \/ DeleteTarget(p)

CallFails(p) ==
    \/ CreateApp(p, FALSE) \/ CreateRecord(p, FALSE) \/ CreateClaimRecord(p, FALSE)
    \/ AddRoute(p, FALSE) \/ ReleaseFails(p) \/ RemoveApp(p, FALSE)

Request ==
    \E p \in Calls, t \in Targets :
        \/ \E n \in Names : BeginFirst(p, t, n) \/ BeginClaim(p, t, n)
        \/ BeginFirst(p, t, NoName)
        \/ BeginRemove(p, t)

Next == (\E p \in Processes : Step(p) \/ CallFails(p)) \/ BeginRefill \/ Request \/ Crash

Spec == Init /\ [][Next]_vars
=============================================================================

------------------------ MODULE DomainsAddressProofs ------------------------
(***************************************************************************)
(* The types of the domain pool, and what targets may rely on: a target    *)
(* never loses its last address to a claim, and an address is routed once  *)
(* the requests for its target have ended.                                 *)
(***************************************************************************)
EXTENDS DomainsProofs, WellFoundedInduction

\* The stages on the way to an app and a pool name, to a chosen name, and after either.
PoolPath == {"create", "pool", "take", "pick", "insert", "point", "assign"}
Listing  == {"list", "record", "claim"}
Routing  == {"route", "save", "release", "unrouted"}
IdsOf(p) == {old.id : old \in op[p].previous}

\* What a request knows at each of its stages.
ShapeAt(p) ==
    /\ op[p].tries \in 0 .. MaxTries /\ op[p].need \in 0 .. PoolSize
    /\ op[p].pc \in {"stuck", "purge", "count"} => op[p].kind = "refill"
    /\ op[p].pc \in {"pick", "insert", "point", "assign"} => op[p].kind \in {"first", "refill"}
    /\ op[p].pc \in {"create", "pool", "take"} => op[p].kind = "first"
    /\ op[p].pc \in {"route", "save"} \cup Listing => op[p].kind \in {"first", "claim"}
    /\ op[p].pc \in {"release", "unrouted"} =>
            op[p].kind \in {"first", "claim", "remove"} /\ op[p].previous # {}
    /\ op[p].pc \in {"domains", "target", "row"} => op[p].kind = "remove"
    /\ op[p].kind \in {"first", "claim", "remove"} => op[p].target \in Targets
    /\ op[p].kind = "refill" => p = Cron
    /\ op[p].pc = "take" => op[p].tries < MaxTries /\ op[p].id \in Ids
    /\ op[p].pc \in {"insert", "point", "assign", "route"} \cup Listing => op[p].name \in Names
    /\ op[p].pc \in {"point", "assign", "route", "save"} => op[p].id \in 1 .. inserted
    /\ op[p].kind = "refill" /\ op[p].pc \in PoolPath => op[p].need > 0
    /\ op[p].pc \in PoolPath \cup {"count", "target"} => op[p].previous = {}

Shape == \A p \in Processes : ShapeAt(p)

\* A row that is there has a name, and one that is assigned a target.
RowShape ==
    \A i \in Ids :
        /\ i > inserted => rows[i] = NoRow
        /\ rows[i].status = "none" => rows[i] = NoRow
        /\ rows[i] # NoRow => rows[i].name \in Names
        /\ rows[i].status = "assigned" <=> rows[i].target # NoTarget

\* The names in the pool, and those that the refill still makes, are not more than wanted.
Demand     == IF op[Cron].pc \in PoolPath THEN op[Cron].need ELSE 0
PoolFilled == Cardinality(Rows("available")) + Demand <= PoolSize

\* A row that is being made has the name its maker chose.
Named ==
    \A p \in Processes : Makes(p) =>
        \/ rows[op[p].id] = NoRow
        \/ rows[op[p].id].status = "provisioning" /\ rows[op[p].id].name = op[p].name

\* The rows a request wants to release are gone, or still those of its target.
OwnPrevious ==
    \A p \in Processes : \A old \in op[p].previous :
        /\ old.id \in 1 .. inserted
        /\ op[p].pc # "purge" => rows[old.id] = NoRow \/ Assigned(old.id, op[p].target)

\* Targets, and routes to them.
TargetShape ==
    /\ live \subseteq Targets /\ removed \subseteq Targets /\ live \cap removed = {}
    /\ routes \subseteq Route

AInv == /\ IInv /\ Shape /\ RowShape /\ PoolFilled /\ Named /\ OwnPrevious /\ TargetShape
        /\ begun \in 0 .. MaxCalls /\ faults \in 0 .. MaxFaults
        /\ apps \subseteq Targets /\ blind \subseteq Processes

-----------------------------------------------------------------------------
\* A set of natural numbers has a least element, so a list of copies has an oldest.

LEMMA Least ==
  ASSUME NEW S, S \subseteq Nat, S # {}
  PROVE  \E m \in S : \A k \in S : m <= k
<1> DEFINE R == OpToRel(<, Nat)
<1>1. IsWellFoundedOn(R, Nat)
  BY NatLessThanWellFounded
<1>2. \A x, y \in Nat : x < y => <<x, y>> \in R
  BY DEF OpToRel
<1> HIDE DEF R
<1>3. PICK m \in S : \A y \in S : ~(<<y, m>> \in R)
  BY <1>1, WFMin
<1>4. \A k \in S : ~(k < m)
  BY <1>2, <1>3, Zenon
<1> QED
  BY <1>4, SMT

LEMMA OldestFirst ==
  ASSUME NEW p \in Processes, op[p].previous \in SUBSET Copy, op[p].previous # {}
  PROVE  /\ Oldest(p) \in op[p].previous
         /\ \A other \in op[p].previous : Oldest(p).id <= other.id
<1>1. IdsOf(p) \subseteq Nat /\ IdsOf(p) # {}
  BY DomainsAssumption, SMT DEF IdsOf, Copy, Ids
<1>2. PICK m \in IdsOf(p) : \A k \in IdsOf(p) : m <= k
  BY <1>1, Least
<1>3. \E old \in op[p].previous : \A other \in op[p].previous : old.id <= other.id
  BY <1>2 DEF IdsOf
<1> QED
  BY <1>3, Zenon DEF Oldest

-----------------------------------------------------------------------------
\* What each edit of a request's record leaves in its fields.

Others(p) == \A q \in Processes : q # p => op'[q] = op[q]

\* The record after a step, field by field.
Turns(p, kind, pc, target, name, id, tries, previous, need) ==
    /\ op'[p].kind = kind /\ op'[p].pc = pc /\ op'[p].target = target /\ op'[p].name = name
    /\ op'[p].id = id /\ op'[p].tries = tries /\ op'[p].previous = previous /\ op'[p].need = need
    /\ Others(p)

\* Only the stage, the name, the ID or the list differ.
Moves(p, pc, name, id, previous) ==
    Turns(p, op[p].kind, pc, op[p].target, name, id, op[p].tries, previous, op[p].need)

LEMMA OpEdits ==
  ASSUME op \in [Processes -> LooseOp], NEW p \in Processes
  PROVE  /\ \A s : Goto(p, s) => Moves(p, s, op[p].name, op[p].id, op[p].previous)
         /\ \A s, i : Set(p, [op[p] EXCEPT !.pc = s, !.id = i])
                => Moves(p, s, op[p].name, i, op[p].previous)
         /\ \A s, n : Set(p, [op[p] EXCEPT !.pc = s, !.name = n])
                => Moves(p, s, n, op[p].id, op[p].previous)
         /\ \A s, old : Set(p, [op[p] EXCEPT !.pc = s, !.previous = old])
                => Moves(p, s, op[p].name, op[p].id, old)
         /\ \A old : Set(p, [op[p] EXCEPT !.previous = old])
                => Moves(p, op[p].pc, op[p].name, op[p].id, old)
         /\ \A s, k : Set(p, [op[p] EXCEPT !.pc = s, !.tries = k])
                => Turns(p, op[p].kind, s, op[p].target, op[p].name, op[p].id, k, op[p].previous,
                         op[p].need)
         /\ \A s, k : Set(p, [op[p] EXCEPT !.pc = s, !.need = k])
                => Turns(p, op[p].kind, s, op[p].target, op[p].name, op[p].id, op[p].tries,
                         op[p].previous, k)
<1>. op[p] \in LooseOp
  OBVIOUS
<1>1. \A s : Goto(p, s) => Moves(p, s, op[p].name, op[p].id, op[p].previous)
  BY SMT DEF Goto, Set, Moves, Turns, Others, LooseOp
<1>2. \A s, i : Set(p, [op[p] EXCEPT !.pc = s, !.id = i])
                => Moves(p, s, op[p].name, i, op[p].previous)
  BY SMT DEF Set, Moves, Turns, Others, LooseOp
<1>3. \A s, n : Set(p, [op[p] EXCEPT !.pc = s, !.name = n])
                => Moves(p, s, n, op[p].id, op[p].previous)
  BY SMT DEF Set, Moves, Turns, Others, LooseOp
<1>4. \A s, old : Set(p, [op[p] EXCEPT !.pc = s, !.previous = old])
                => Moves(p, s, op[p].name, op[p].id, old)
  BY SMT DEF Set, Moves, Turns, Others, LooseOp
<1>5. \A old : Set(p, [op[p] EXCEPT !.previous = old])
                => Moves(p, op[p].pc, op[p].name, op[p].id, old)
  BY SMT DEF Set, Moves, Turns, Others, LooseOp
<1>6. \A s, k : Set(p, [op[p] EXCEPT !.pc = s, !.tries = k])
                => Turns(p, op[p].kind, s, op[p].target, op[p].name, op[p].id, k, op[p].previous,
                         op[p].need)
  BY SMT DEF Set, Turns, Others, LooseOp
<1>7. \A s, k : Set(p, [op[p] EXCEPT !.pc = s, !.need = k])
                => Turns(p, op[p].kind, s, op[p].target, op[p].name, op[p].id, op[p].tries,
                         op[p].previous, k)
  BY SMT DEF Set, Turns, Others, LooseOp
<1> QED
  BY <1>1, <1>2, <1>3, <1>4, <1>5, <1>6, <1>7

\* A request that begins, ends or fails knows nothing of what was before.
LEMMA FreshEdits ==
  ASSUME op \in [Processes -> LooseOp], NEW p \in Processes
  PROVE  /\ \A k, s, t, n : Set(p, [Idle EXCEPT !.kind = k, !.pc = s, !.target = t, !.name = n])
                => Turns(p, k, s, t, n, 0, 0, {}, 0)
         /\ \A k, s, t : Set(p, [Idle EXCEPT !.kind = k, !.pc = s, !.target = t])
                => Turns(p, k, s, t, NoName, 0, 0, {}, 0)
         /\ \A k, s : Set(p, [Idle EXCEPT !.kind = k, !.pc = s])
                => Turns(p, k, s, NoTarget, NoName, 0, 0, {}, 0)
         /\ End(p) => Turns(p, "none", "idle", NoTarget, NoName, 0, 0, {}, 0)
         /\ Fail(p) => \/ Turns(p, "none", "idle", NoTarget, NoName, 0, 0, {}, 0)
                       \/ /\ op[p].kind = "first"
                          /\ Turns(p, "remove", "domains", op[p].target, NoName, 0, 0, {}, 0)
<1>1. \A k, s, t, n : Set(p, [Idle EXCEPT !.kind = k, !.pc = s, !.target = t, !.name = n])
                => Turns(p, k, s, t, n, 0, 0, {}, 0)
  BY SMT DEF Idle, Set, Turns, Others
<1>2. \A k, s, t : Set(p, [Idle EXCEPT !.kind = k, !.pc = s, !.target = t])
                => Turns(p, k, s, t, NoName, 0, 0, {}, 0)
  BY SMT DEF Idle, Set, Turns, Others
<1>3. \A k, s : Set(p, [Idle EXCEPT !.kind = k, !.pc = s])
                => Turns(p, k, s, NoTarget, NoName, 0, 0, {}, 0)
  BY SMT DEF Idle, Set, Turns, Others
<1>4. End(p) => Turns(p, "none", "idle", NoTarget, NoName, 0, 0, {}, 0)
  BY SMT DEF End, Idle, Set, Turns, Others
<1> QED
  BY <1>1, <1>2, <1>3, <1>4 DEF Fail
-----------------------------------------------------------------------------
\* The shape of a request's record after each of its steps.

\* Numbers that the stages compare.
LEMMA Numbers ==
  ASSUME AInv, NEW p \in Processes
  PROVE  /\ op \in [Processes -> LooseOp] /\ op[p].previous \in SUBSET Copy
         /\ inserted \in 0 .. MaxRows /\ inserted \in Nat /\ MaxRows \in Nat
         /\ PoolSize \in Nat /\ MaxTries \in Nat \ {0} /\ Counted \in Nat /\ ShapeAt(p)
<1>1. IsFiniteSet(Ids)
  BY FS_Interval, DomainsAssumption DEF Ids
<1>2. Rows("available") \in SUBSET Ids
  BY DEF Rows
<1>3. Counted \in Nat
  BY <1>1, <1>2, FS_Subset, FS_CardinalityType DEF Counted
<1> QED
  BY <1>3, OpTyped, DomainsAssumption, SMT DEF AInv, Shape, IInv, Types

LEMMA ShapeEnds ==
  ASSUME AInv, NEW p \in Processes, End(p) \/ Fail(p)
  PROVE  ShapeAt(p)' /\ Others(p)
<1>1. \/ Turns(p, "none", "idle", NoTarget, NoName, 0, 0, {}, 0)
      \/ /\ op[p].kind = "first"
         /\ Turns(p, "remove", "domains", op[p].target, NoName, 0, 0, {}, 0)
  BY Numbers, FreshEdits
<1> QED
  BY <1>1, Numbers, SMT DEF ShapeAt, Turns, PoolPath, Listing

LEMMA ShapeCreated ==
  ASSUME AInv, NEW p \in Processes, NEW ok \in BOOLEAN, CreateApp(p, ok)
  PROVE  ShapeAt(p)' /\ Others(p)
<1>. USE Numbers
<1>. op[p].pc = "create" /\ UNCHANGED inserted /\ op[p].name \in Names \cup {NoName}
  BY OpTyped DEF CreateApp, At, AInv
<1>1. CASE Goto(p, "pool")
  <2>1. Moves(p, "pool", op[p].name, op[p].id, op[p].previous)
    BY <1>1, OpEdits
  <2> QED
    BY <2>1, SMT DEF ShapeAt, Moves, Turns, PoolPath, Listing
<1>2. CASE Goto(p, "list") /\ op[p].name # NoName
  <2>1. Moves(p, "list", op[p].name, op[p].id, op[p].previous)
    BY <1>2, OpEdits
  <2> QED
    BY <1>2, <2>1, SMT DEF ShapeAt, Moves, Turns, PoolPath, Listing
<1> QED
  BY <1>1, <1>2, ShapeEnds DEF CreateApp

LEMMA ShapeTaken ==
  ASSUME AInv, NEW p \in Processes, ReadCandidate(p) \/ TakeCandidate(p)
  PROVE  ShapeAt(p)' /\ Others(p)
<1>. USE Numbers
<1>1. CASE ReadCandidate(p)
  <2>1. CASE Goto(p, "pick")
    <3>1. Moves(p, "pick", op[p].name, op[p].id, op[p].previous) /\ op[p].pc = "pool"
          /\ UNCHANGED inserted
      BY <1>1, <2>1, OpEdits DEF ReadCandidate, At
    <3>2. op[p].kind = "first"
      BY <3>1 DEF ShapeAt
    <3> QED
      BY <3>1, <3>2, SMT DEF ShapeAt, Moves, Turns, PoolPath, Listing
  <2>2. ASSUME NEW first \in Ids, op[p].tries # MaxTries,
               Set(p, [op[p] EXCEPT !.pc = "take", !.id = first])
        PROVE  ShapeAt(p)' /\ Others(p)
    <3>1. Moves(p, "take", op[p].name, first, op[p].previous) /\ op[p].pc = "pool"
          /\ UNCHANGED inserted
      BY <1>1, <2>2, OpEdits DEF ReadCandidate, At
    <3> QED
      BY <2>2, <3>1, SMT DEF ShapeAt, Moves, Turns, PoolPath, Listing
  <2> QED
    BY <1>1, <2>1, <2>2 DEF ReadCandidate, Rows
<1>2. CASE TakeCandidate(p)
  <2>1. op[p].pc = "take" /\ UNCHANGED inserted
    BY <1>2 DEF TakeCandidate, At
  <2>2. CASE StillAvailable(op[p].id)
    <3>1. Moves(p, "route", rows[op[p].id].name, op[p].id, op[p].previous)
      BY <1>2, <2>2, OpEdits DEF TakeCandidate
    <3>2. op[p].id \in Ids /\ rows[op[p].id] # NoRow
      BY <2>1, <2>2 DEF ShapeAt, StillAvailable, NoRow
    <3>3. rows[op[p].id].name \in Names /\ op[p].id \in 1 .. inserted
      BY <3>2, SMT DEF AInv, RowShape, Ids
    <3> QED
      BY <2>1, <3>1, <3>3, SMT DEF ShapeAt, Moves, Turns, PoolPath, Listing
  <2>3. CASE ~StillAvailable(op[p].id)
    <3>1. Turns(p, op[p].kind, "pool", op[p].target, op[p].name, op[p].id, op[p].tries + 1,
                op[p].previous, op[p].need)
      BY <1>2, <2>3, OpEdits DEF TakeCandidate
    <3> QED
      BY <2>1, <3>1, SMT DEF ShapeAt, Turns, PoolPath, Listing
  <2> QED
    BY <2>2, <2>3
<1> QED
  BY <1>1, <1>2

LEMMA ShapeMade ==
  ASSUME AInv, NEW p \in Processes,
         \/ NoFreeName(p) \/ \E n \in Names : PickName(p, n)
         \/ InsertProvisioning(p) \/ \E ok \in BOOLEAN : CreateRecord(p, ok)
         \/ AssignName(p)
  PROVE  ShapeAt(p)' /\ Others(p)
<1>. USE Numbers
<1>1. ASSUME NEW n \in Names, PickName(p, n)
      PROVE  ShapeAt(p)' /\ Others(p)
  <2>1. Moves(p, "insert", n, op[p].id, op[p].previous) /\ op[p].pc = "pick" /\ UNCHANGED inserted
    BY <1>1, OpEdits DEF PickName, At
  <2> QED
    BY <2>1, SMT DEF ShapeAt, Moves, Turns, PoolPath, Listing
<1>2. CASE InsertProvisioning(p)
  <2>1. CASE ~Fail(p)
    <3>1. /\ Moves(p, "point", op[p].name, inserted', op[p].previous)
          /\ op[p].pc = "insert" /\ inserted' = inserted + 1 /\ inserted < MaxRows
      BY <1>2, <2>1, OpEdits DEF InsertProvisioning, Insert, At
    <3> QED
      BY <3>1, SMT DEF ShapeAt, Moves, Turns, PoolPath, Listing
  <2> QED
    BY <2>1, ShapeEnds
<1>3. ASSUME NEW ok \in BOOLEAN, CreateRecord(p, ok)
      PROVE  ShapeAt(p)' /\ Others(p)
  <2>1. CASE ok
    <3>1. Moves(p, "assign", op[p].name, op[p].id, op[p].previous) /\ op[p].pc = "point"
          /\ UNCHANGED inserted
      BY <1>3, <2>1, OpEdits DEF CreateRecord, At
    <3> QED
      BY <3>1, SMT DEF ShapeAt, Moves, Turns, PoolPath, Listing
  <2> QED
    BY <1>3, <2>1, ShapeEnds DEF CreateRecord
<1>4. CASE AssignName(p)
  <2>1. op[p].pc = "assign" /\ UNCHANGED inserted
    BY <1>4 DEF AssignName, At
  <2>2. CASE op[p].kind = "first"
    <3>1. Moves(p, "route", op[p].name, op[p].id, op[p].previous)
      BY <1>4, <2>2, OpEdits DEF AssignName
    <3> QED
      BY <2>1, <2>2, <3>1, SMT DEF ShapeAt, Moves, Turns, PoolPath, Listing
  <2>3. CASE op[p].kind # "first" /\ MoreNeeded(p)
    <3>1. Turns(p, op[p].kind, "pick", op[p].target, op[p].name, op[p].id, op[p].tries,
                op[p].previous, op[p].need - 1)
      BY <1>4, <2>3, OpEdits DEF AssignName
    <3> QED
      BY <2>1, <2>3, <3>1, SMT DEF ShapeAt, Turns, PoolPath, Listing, MoreNeeded
  <2> QED
    BY <1>4, <2>2, <2>3, ShapeEnds DEF AssignName
<1> QED
  BY <1>1, <1>2, <1>3, <1>4, ShapeEnds DEF NoFreeName

LEMMA ShapeRefilled ==
  ASSUME AInv, NEW p \in Processes, ListStuck(p) \/ PurgeStuck(p) \/ CountAvailable(p)
  PROVE  ShapeAt(p)' /\ Others(p)
<1>. USE Numbers
<1>1. CASE ListStuck(p)
  <2>1. Moves(p, "purge", op[p].name, op[p].id, {CopyOf(i) : i \in Rows("provisioning")})
        /\ op[p].pc = "stuck" /\ UNCHANGED inserted
    BY <1>1, OpEdits DEF ListStuck, At
  <2> QED
    BY <2>1, SMT DEF ShapeAt, Moves, Turns, PoolPath, Listing
<1>2. CASE PurgeStuck(p)
  <2>1. \/ Moves(p, "count", op[p].name, op[p].id, {})
        \/ \E old : Moves(p, "purge", op[p].name, op[p].id, old)
    BY <1>2, OpEdits DEF PurgeStuck, At
  <2>2. op[p].pc = "purge" /\ UNCHANGED inserted
    BY <1>2 DEF PurgeStuck, At
  <2> QED
    BY <2>1, <2>2, SMT DEF ShapeAt, Moves, Turns, PoolPath, Listing
<1>3. CASE CountAvailable(p)
  <2>1. CASE Counted < PoolSize
    <3>1. Turns(p, op[p].kind, "pick", op[p].target, op[p].name, op[p].id, op[p].tries,
                op[p].previous, PoolSize - Counted)
      <4>1. ~(Counted >= PoolSize)
        BY <2>1, SMT
      <4> QED
        BY <1>3, <4>1, OpEdits DEF CountAvailable
    <3>2. op[p].pc = "count" /\ UNCHANGED inserted /\ PoolSize - Counted \in 1 .. PoolSize
      BY <1>3, <2>1, SMT DEF CountAvailable, At
    <3>3. op[p].previous = {}
      BY <3>2 DEF ShapeAt
    <3>4. op[p].kind = "refill"
      BY <3>2 DEF ShapeAt
    <3> QED
      BY <3>1, <3>2, <3>3, <3>4, SMT DEF ShapeAt, Turns, PoolPath, Listing
  <2> QED
    BY <1>3, <2>1, ShapeEnds, SMT DEF CountAvailable
<1> QED
  BY <1>1, <1>2, <1>3

LEMMA ShapeClaimed ==
  ASSUME AInv, NEW p \in Processes,
         \/ ListPrevious(p) \/ InsertClaim(p) \/ SaveRoute(p)
         \/ \E ok \in BOOLEAN : CreateClaimRecord(p, ok) \/ AddRoute(p, ok)
  PROVE  ShapeAt(p)' /\ Others(p)
<1>. USE Numbers
<1>1. CASE ListPrevious(p)
  <2>1. CASE ~End(p) /\ ~Fail(p)
    <3>1. Moves(p, "record", op[p].name, op[p].id, {CopyOf(i) : i \in Owned(op[p].target)})
          /\ op[p].pc = "list" /\ UNCHANGED inserted
      BY <1>1, <2>1, OpEdits DEF ListPrevious, At
    <3> QED
      BY <3>1, SMT DEF ShapeAt, Moves, Turns, PoolPath, Listing
  <2> QED
    BY <2>1, ShapeEnds
<1>2. ASSUME NEW ok \in BOOLEAN, CreateClaimRecord(p, ok)
      PROVE  ShapeAt(p)' /\ Others(p)
  <2>1. CASE ok
    <3>1. Moves(p, "claim", op[p].name, op[p].id, op[p].previous)
          /\ op[p].pc = "record" /\ UNCHANGED inserted
      BY <1>2, <2>1, OpEdits DEF CreateClaimRecord, At
    <3> QED
      BY <3>1, SMT DEF ShapeAt, Moves, Turns, PoolPath, Listing
  <2> QED
    BY <1>2, <2>1, ShapeEnds DEF CreateClaimRecord
<1>3. CASE InsertClaim(p)
  <2>1. CASE ~Fail(p)
    <3>1. /\ Moves(p, "route", op[p].name, inserted', op[p].previous)
          /\ op[p].pc = "claim" /\ inserted' = inserted + 1 /\ inserted < MaxRows
      BY <1>3, <2>1, OpEdits DEF InsertClaim, Insert, At
    <3> QED
      BY <3>1, SMT DEF ShapeAt, Moves, Turns, PoolPath, Listing
  <2> QED
    BY <2>1, ShapeEnds
<1>4. ASSUME NEW ok \in BOOLEAN, AddRoute(p, ok)
      PROVE  ShapeAt(p)' /\ Others(p)
  <2>1. CASE ok
    <3>1. Moves(p, "save", op[p].name, op[p].id, op[p].previous)
          /\ op[p].pc = "route" /\ UNCHANGED inserted
      BY <1>4, <2>1, OpEdits DEF AddRoute, At
    <3> QED
      BY <3>1, SMT DEF ShapeAt, Moves, Turns, PoolPath, Listing
  <2> QED
    BY <1>4, <2>1, ShapeEnds DEF AddRoute
<1>5. CASE SaveRoute(p)
  <2>1. CASE ~End(p)
    <3>1. Moves(p, "release", op[p].name, op[p].id, op[p].previous)
          /\ op[p].pc = "save" /\ UNCHANGED inserted /\ op[p].previous # {}
      BY <1>5, <2>1, OpEdits DEF SaveRoute, At, ToRelease
    <3> QED
      BY <3>1, SMT DEF ShapeAt, Moves, Turns, PoolPath, Listing
  <2> QED
    BY <2>1, ShapeEnds
<1> QED
  BY <1>1, <1>2, <1>3, <1>4, <1>5

LEMMA ShapeReleased ==
  ASSUME AInv, NEW p \in Processes,
         \/ ListDomains(p) \/ ReleaseFails(p) \/ RemoveRoute(p) \/ DeleteRow(p)
         \/ DeleteTarget(p) \/ \E ok \in BOOLEAN : RemoveApp(p, ok)
  PROVE  ShapeAt(p)' /\ Others(p)
<1>. USE Numbers
<1>1. CASE ListDomains(p)
  <2> DEFINE owned == {CopyOf(i) : i \in Owned(op[p].target)}
  <2>1. Moves(p, IF owned = {} THEN "target" ELSE "release", op[p].name, op[p].id, owned)
        /\ op[p].pc = "domains" /\ UNCHANGED inserted
    BY <1>1, OpEdits DEF ListDomains, At
  <2> HIDE DEF owned
  <2> QED
    BY <2>1, SMT DEF ShapeAt, Moves, Turns, PoolPath, Listing
<1>2. CASE RemoveRoute(p)
  <2>1. Moves(p, "unrouted", op[p].name, op[p].id, op[p].previous)
        /\ op[p].pc = "release" /\ UNCHANGED inserted
    BY <1>2, OpEdits DEF RemoveRoute, At
  <2> QED
    BY <2>1, SMT DEF ShapeAt, Moves, Turns, PoolPath, Listing
<1>3. CASE Released(p) /\ UNCHANGED inserted /\ op[p].pc \in {"release", "unrouted"}
  <2>1. CASE Rest(p) # {}
    <3>1. Moves(p, "release", op[p].name, op[p].id, Rest(p))
      BY <1>3, <2>1, OpEdits DEF Released
    <3> QED
      BY <1>3, <2>1, <3>1, SMT DEF ShapeAt, Moves, Turns, PoolPath, Listing
  <2>2. CASE Rest(p) = {} /\ op[p].kind = "remove"
    <3>1. Moves(p, "target", op[p].name, op[p].id, {})
      BY <1>3, <2>2, OpEdits DEF Released
    <3> QED
      BY <1>3, <2>2, <3>1, SMT DEF ShapeAt, Moves, Turns, PoolPath, Listing
  <2> QED
    BY <1>3, <2>1, <2>2, ShapeEnds DEF Released
<1>4. CASE ReleaseFails(p) \/ DeleteRow(p)
  BY <1>3, <1>4, ShapeEnds DEF ReleaseFails, DeleteRow, At
<1>5. ASSUME NEW ok \in BOOLEAN, RemoveApp(p, ok)
      PROVE  ShapeAt(p)' /\ Others(p)
  <2>1. CASE ok
    <3>1. Moves(p, "row", op[p].name, op[p].id, op[p].previous)
          /\ op[p].pc = "target" /\ UNCHANGED inserted
      BY <1>5, <2>1, OpEdits DEF RemoveApp, At
    <3> QED
      BY <3>1, SMT DEF ShapeAt, Moves, Turns, PoolPath, Listing
  <2> QED
    BY <1>5, <2>1, ShapeEnds DEF RemoveApp
<1> QED
  BY <1>1, <1>2, <1>4, <1>5, ShapeEnds DEF DeleteTarget

LEMMA StepShape ==
  ASSUME AInv, NEW p \in Processes, Step(p) \/ CallFails(p)
  PROVE  ShapeAt(p)' /\ Others(p)
BY ShapeCreated, ShapeTaken, ShapeMade, ShapeRefilled, ShapeClaimed, ShapeReleased DEF Step, CallFails

-----------------------------------------------------------------------------
\* What a step of a request does to the rows and the routes.

SameRows    == UNCHANGED <<rows, inserted>>
SameTargets == UNCHANGED <<routes, live, removed>>

OthersAs(i) == \A j \in Ids : j # i => rows'[j] = rows[j]

Vanishes(i) == inserted' = inserted /\ \A j \in Ids : rows'[j] = IF j = i THEN NoRow ELSE rows[j]

\* A row keeps its name, and has this status and target.
Becomes(i, status, target) ==
    /\ i \in Ids /\ rows[i] # NoRow /\ inserted' = inserted /\ OthersAs(i)
    /\ rows'[i].name = rows[i].name /\ rows'[i].status = status /\ rows'[i].target = target

Adds(p, status, target) ==
    /\ inserted' = inserted + 1 /\ inserted' \in Ids /\ OthersAs(inserted')
    /\ rows'[inserted'].name = op[p].name /\ rows'[inserted'].status = status
    /\ rows'[inserted'].target = target

\* The request holds no rows, and is on no way to.
Rests(p) == op'[p].previous = {} /\ op'[p].pc \notin Routing \cup {"point", "assign", "purge"}

Stays(p, pc, previous) == Moves(p, pc, op[p].name, op[p].id, previous)

EndStep(p) ==
    /\ Rests(p)
    /\ \/ SameRows /\ SameTargets
       \/ /\ SameRows /\ UNCHANGED <<routes, removed>>
          /\ \E t \in Targets \ (live \cup removed) : live' = live \cup {t}
       \/ /\ SameRows /\ At(p, "target") /\ Stays(p, "row", {}) /\ UNCHANGED <<live, removed>>
          /\ routes' = {r \in routes : r.target # op[p].target}
       \/ /\ SameRows /\ At(p, "row") /\ UNCHANGED routes
          /\ live' = live \ {op[p].target} /\ removed' = removed \cup {op[p].target}
       \/ SameTargets /\ At(p, "point") /\ Vanishes(op[p].id) /\ faults' # 0

MakeStep(p) ==
    /\ SameTargets
    /\ \/ /\ At(p, "insert") /\ Moves(p, "point", op[p].name, inserted', op[p].previous)
          /\ Adds(p, "provisioning", NoTarget)
       \/ At(p, "point") /\ Stays(p, "assign", op[p].previous) /\ SameRows
       \/ /\ At(p, "assign") /\ op[p].kind = "refill" /\ Rests(p)
          /\ SameRows \/ Becomes(op[p].id, "available", rows[op[p].id].target)
       \/ /\ op[p].previous = {} /\ op[p].kind = "first"
          /\ At(p, "assign") \/ (At(p, "take") /\ rows[op[p].id].status = "available")
          /\ \E name \in Names :
               /\ Moves(p, "route", name, op[p].id, {})
               /\ \/ rows[op[p].id] = NoRow /\ SameRows
                  \/ Becomes(op[p].id, "assigned", op[p].target) /\ rows[op[p].id].name = name

ClaimStep(p) ==
    \/ /\ SameRows /\ SameTargets
       /\ \/ At(p, "list") /\ Stays(p, "record", {CopyOf(i) : i \in Owned(op[p].target)})
          \/ At(p, "record") /\ Stays(p, "claim", op[p].previous)
    \/ /\ At(p, "claim") /\ Moves(p, "route", op[p].name, inserted', op[p].previous)
       /\ Adds(p, "assigned", op[p].target) /\ SameTargets
    \/ /\ At(p, "route") /\ Stays(p, "save", op[p].previous)
       /\ routes' = routes \cup {[id |-> op[p].id, name |-> op[p].name, target |-> op[p].target]}
       /\ SameRows /\ UNCHANGED <<live, removed>>
    \/ /\ At(p, "save") /\ SameTargets
       /\ Rests(p) \/ Stays(p, "release", op[p].previous)
       /\ \/ SameRows
          \/ Becomes(op[p].id, rows[op[p].id].status, rows[op[p].id].target)

ReleasesStep(p) ==
    \/ /\ At(p, "domains") /\ Stays(p, "release", {CopyOf(i) : i \in Owned(op[p].target)})
       /\ SameRows /\ SameTargets
    \/ /\ At(p, "release") /\ Stays(p, "unrouted", op[p].previous)
       /\ SameRows /\ UNCHANGED <<live, removed>> /\ routes' \in {routes, Unrouted(p)}
    \/ /\ op[p].pc \in {"release", "unrouted"} /\ SameTargets
       /\ Stays(p, "release", Rest(p)) \/ (Rests(p) /\ Rest(p) = {})
       /\ \/ At(p, "unrouted") /\ Vanishes(Oldest(p).id)
          \/ SameRows /\ faults' # 0 /\ (Rests(p) \/ op[p].kind # "remove")

PurgesStep(p) ==
    /\ SameTargets
    /\ \/ /\ At(p, "stuck") /\ Stays(p, "purge", {CopyOf(i) : i \in Rows("provisioning")})
          /\ SameRows
       \/ \E old \in op[p].previous :
            /\ At(p, "purge") /\ Stays(p, "purge", op[p].previous \ {old})
            /\ Vanishes(old.id)

Acts(p) == EndStep(p) \/ MakeStep(p) \/ ClaimStep(p) \/ ReleasesStep(p) \/ PurgesStep(p)

\* Without a failing call, what a request was about to do to a route or its row is done.
Completes(p) ==
    /\ At(p, "route") /\ faults' = 0 =>
            [id |-> op[p].id, name |-> op[p].name, target |-> op[p].target] \in routes'
    /\ At(p, "unrouted") /\ faults' = 0 => Vanishes(Oldest(p).id)
    /\ At(p, "row") => op[p].target \in removed'

\* What a step changes, as one of the requests' acts, or as a restart.
Effects ==
    /\ faults' = 0 => faults = 0
    /\ \/ \E p \in Processes : Acts(p) /\ Others(p) /\ ShapeAt(p)' /\ Completes(p)
       \/ /\ \A p \in Processes : op'[p] = Idle
          /\ SameRows /\ SameTargets /\ faults' # 0
       \/ UNCHANGED vars

LEMMA NoRowFields ==
  NoRow.status = "none" /\ NoRow.target = NoTarget /\ NoRow.name = NoName
  BY SMT DEF NoRow

LEMMA EndActs ==
  ASSUME AInv, NEW p \in Processes, End(p) \/ Fail(p)
  PROVE  Rests(p)
<1>1. \/ Turns(p, "none", "idle", NoTarget, NoName, 0, 0, {}, 0)
      \/ Turns(p, "remove", "domains", op[p].target, NoName, 0, 0, {}, 0)
  BY Numbers, FreshEdits
<1> QED
  BY <1>1 DEF Rests, Turns, Routing

LEMMA FaultCounts == ASSUME AInv, Fault PROVE faults' # 0
  BY SMT DEF AInv, Fault

LEMMA RowEdits ==
  ASSUME rows \in [Ids -> Row], NEW i
  PROVE  /\ rows' = [rows EXCEPT ![i] = NoRow] /\ UNCHANGED inserted => Vanishes(i)
         /\ \A status, target : i \in Ids /\ rows[i] # NoRow /\ UNCHANGED inserted
                /\ rows' = [rows EXCEPT ![i].status = status, ![i].target = target]
                => Becomes(i, status, target)
         /\ i \in Ids /\ rows[i] # NoRow /\ UNCHANGED inserted
                /\ rows' = [rows EXCEPT ![i].routed = TRUE]
                => Becomes(i, rows[i].status, rows[i].target)
<1>1. rows' = [rows EXCEPT ![i] = NoRow] /\ UNCHANGED inserted => Vanishes(i)
  BY SMT DEF Vanishes
<1>2. \A status, target : i \in Ids /\ rows[i] # NoRow /\ UNCHANGED inserted
                /\ rows' = [rows EXCEPT ![i].status = status, ![i].target = target]
                => Becomes(i, status, target)
  BY SMT DEF Becomes, OthersAs, Row
<1>3. i \in Ids /\ rows[i] # NoRow /\ UNCHANGED inserted
                /\ rows' = [rows EXCEPT ![i].routed = TRUE]
                => Becomes(i, rows[i].status, rows[i].target)
  BY SMT DEF Becomes, OthersAs, Row
<1> QED
  BY <1>1, <1>2, <1>3

LEMMA CreatedActs ==
  ASSUME AInv, NEW p \in Processes, NEW ok \in BOOLEAN, CreateApp(p, ok)
  PROVE  Acts(p)
<1>. USE Numbers
<1>1. SameRows /\ SameTargets /\ op[p].previous = {}
  BY DEF CreateApp, At, ShapeAt, PoolPath, SameRows, SameTargets
<1>2. Goto(p, "pool") \/ Goto(p, "list") \/ Fail(p)
  BY DEF CreateApp
<1>3. Fail(p) \/ \E s \in {"pool", "list"} : Moves(p, s, op[p].name, op[p].id, {})
  BY <1>1, <1>2, OpEdits
<1>4. Rests(p)
  BY <1>3, EndActs DEF Rests, Moves, Turns, Routing
<1> QED
  BY <1>1, <1>4 DEF Acts, EndStep

LEMMA TakenActs ==
  ASSUME AInv, NEW p \in Processes, ReadCandidate(p) \/ TakeCandidate(p)
  PROVE  Acts(p)
<1>. USE Numbers
<1>1. op[p].previous = {} /\ op[p].kind = "first" /\ SameTargets
  BY DEF ReadCandidate, TakeCandidate, At, ShapeAt, PoolPath, outside, SameTargets
<1>2. CASE ReadCandidate(p)
  <2>1. \E pc \in {"pick", "take"} : \E id : Moves(p, pc, op[p].name, id, op[p].previous)
    BY <1>2, OpEdits DEF ReadCandidate
  <2>2. Rests(p)
    BY <1>1, <2>1 DEF Rests, Moves, Turns, Routing
  <2> QED
    BY <1>1, <1>2, <2>2 DEF ReadCandidate, Acts, EndStep, SameRows
<1>3. CASE TakeCandidate(p) /\ StillAvailable(op[p].id)
  <2>1. /\ rows[op[p].id].status = "available" /\ op[p].id \in Ids /\ At(p, "take")
        /\ rows[op[p].id] # NoRow /\ rows[op[p].id].name \in Names
    BY <1>3, NoRowFields DEF TakeCandidate, StillAvailable, ShapeAt, At, AInv, RowShape
  <2>2. Moves(p, "route", rows[op[p].id].name, op[p].id, {})
    <3>1. Set(p, [op[p] EXCEPT !.pc = "route", !.name = rows[op[p].id].name])
      BY <1>3 DEF TakeCandidate
    <3> QED
      BY <1>1, <3>1, OpEdits
  <2>3. Becomes(op[p].id, "assigned", op[p].target)
    BY <1>3, <2>1, RowEdits, OpTyped DEF TakeCandidate, AInv
  <2> QED
    BY <1>1, <2>1, <2>2, <2>3 DEF Acts, MakeStep
<1>4. CASE TakeCandidate(p) /\ ~StillAvailable(op[p].id)
  <2>1. Turns(p, op[p].kind, "pool", op[p].target, op[p].name, op[p].id, op[p].tries + 1,
              op[p].previous, op[p].need)
    BY <1>4, OpEdits DEF TakeCandidate
  <2>2. Rests(p)
    BY <1>1, <2>1 DEF Rests, Turns, Routing
  <2> QED
    BY <1>1, <1>4, <2>2 DEF TakeCandidate, Acts, EndStep, SameRows
<1> QED
  BY <1>2, <1>3, <1>4

LEMMA InsertActs ==
  ASSUME AInv, NEW p \in Processes, NEW status, NEW target, NEW next, Insert(p, status, target, next)
  PROVE  \/ Rests(p) /\ SameRows
         \/ Moves(p, next, op[p].name, inserted', op[p].previous) /\ Adds(p, status, target)
<1>. USE Numbers
<1>1. CASE Fail(p) /\ UNCHANGED <<rows, inserted>>
  BY <1>1, EndActs DEF SameRows
<1>2. CASE /\ inserted < MaxRows /\ inserted' = inserted + 1
           /\ rows' = [rows EXCEPT ![inserted'] =
                         [name |-> op[p].name, status |-> status, target |-> target, routed |-> FALSE]]
           /\ Set(p, [op[p] EXCEPT !.pc = next, !.id = inserted'])
  <2>1. Moves(p, next, op[p].name, inserted', op[p].previous)
    BY <1>2, OpEdits
  <2>2. inserted' \in Ids
    BY <1>2, SMT DEF Ids
  <2>3. Adds(p, status, target)
    BY <1>2, <2>2, OpTyped, SMT DEF Adds, OthersAs, AInv
  <2> QED
    BY <2>1, <2>3
<1> QED
  BY <1>1, <1>2 DEF Insert

LEMMA MadeActs ==
  ASSUME AInv, NEW p \in Processes,
         \/ NoFreeName(p) \/ \E n \in Names : PickName(p, n)
         \/ InsertProvisioning(p) \/ \E ok \in BOOLEAN : CreateRecord(p, ok)
         \/ AssignName(p)
  PROVE  Acts(p)
<1>. USE Numbers
<1>1. op[p].previous = {} /\ op[p].kind \in {"first", "refill"} /\ SameTargets
  BY DEF NoFreeName, PickName, InsertProvisioning, CreateRecord, AssignName, At, ShapeAt, PoolPath,
         outside, SameTargets
<1>2. CASE NoFreeName(p) \/ \E n \in Names : PickName(p, n)
  <2>1. \A n : PickName(p, n) => Moves(p, "insert", n, op[p].id, op[p].previous)
    BY OpEdits DEF PickName
  <2>2. Rests(p)
    BY <1>1, <1>2, <2>1, EndActs DEF NoFreeName, Rests, Moves, Turns, Routing
  <2> QED
    BY <1>1, <1>2, <2>2 DEF NoFreeName, PickName, Acts, EndStep, SameRows
<1>3. CASE InsertProvisioning(p)
  BY <1>1, <1>3, InsertActs DEF InsertProvisioning, Acts, EndStep, MakeStep
<1>4. ASSUME NEW ok \in BOOLEAN, CreateRecord(p, ok)
      PROVE  Acts(p)
  <2>1. CASE ok
    <3>1. Stays(p, "assign", op[p].previous)
      BY <1>4, <2>1, OpEdits DEF CreateRecord, Stays
    <3> QED
      BY <1>1, <1>4, <2>1, <3>1 DEF CreateRecord, Acts, MakeStep, SameRows
  <2>2. CASE ~ok
    <3>1. Vanishes(op[p].id) /\ Rests(p) /\ faults' # 0
      BY <1>4, <2>2, RowEdits, OpTyped, EndActs, FaultCounts DEF CreateRecord, AInv
    <3> QED
      BY <1>1, <1>4, <3>1 DEF CreateRecord, Acts, EndStep
  <2> QED
    BY <2>1, <2>2
<1>5. CASE AssignName(p)
  <2>1. At(p, "assign") /\ op[p].id \in Ids /\ UNCHANGED inserted
        /\ op[p].name \in Names
    BY <1>5, SMT DEF AssignName, ShapeAt, At, Ids
  <2>2. rows[op[p].id] # NoRow => rows[op[p].id].name = op[p].name
    BY <2>1 DEF AInv, Named, Makes, At
  <2>3. CASE op[p].kind = "first"
    <3>1. Moves(p, "route", op[p].name, op[p].id, {})
      BY <1>1, <1>5, <2>3, OpEdits DEF AssignName
    <3>2. \/ rows[op[p].id] = NoRow /\ SameRows
          \/ Becomes(op[p].id, "assigned", op[p].target)
      <4>1. rows[op[p].id] # NoRow =>
              rows' = [rows EXCEPT ![op[p].id] =
                         [rows[op[p].id] EXCEPT !.status = "assigned", !.target = op[p].target]]
        BY <1>5, <2>3 DEF AssignName, Made
      <4>2. rows[op[p].id] # NoRow => Becomes(op[p].id, "assigned", op[p].target)
        <5> DEFINE new == [rows[op[p].id] EXCEPT !.status = "assigned", !.target = op[p].target]
        <5>1. rows \in [Ids -> Row] /\ rows[op[p].id] \in Row
          BY <2>1, OpTyped DEF AInv
        <5>2. /\ new.name = rows[op[p].id].name /\ new.status = "assigned"
              /\ new.target = op[p].target
          BY <5>1, SMT DEF Row
        <5> HIDE DEF new
        <5>3. rows[op[p].id] # NoRow => rows' = [rows EXCEPT ![op[p].id] = new]
          BY <4>1 DEF new
        <5> QED
          BY <2>1, <5>1, <5>2, <5>3, SMT DEF Becomes, OthersAs
      <4> QED
        BY <1>5, <2>1, <4>2 DEF AssignName, SameRows
    <3> QED
      BY <1>1, <2>1, <2>2, <2>3, <3>1, <3>2 DEF Acts, MakeStep, Becomes
  <2>4. CASE op[p].kind = "refill"
    <3>1. Rests(p)
      <4>1. \/ End(p)
            \/ Turns(p, op[p].kind, "pick", op[p].target, op[p].name, op[p].id, op[p].tries,
                     op[p].previous, op[p].need - 1)
        BY <1>5, <2>4, OpEdits DEF AssignName
      <4> QED
        BY <1>1, <4>1, EndActs DEF Rests, Turns, Routing
    <3>2. \/ SameRows
          \/ Becomes(op[p].id, "available", rows[op[p].id].target)
      <4>1. rows[op[p].id] # NoRow =>
              rows' = [rows EXCEPT ![op[p].id] = [rows[op[p].id] EXCEPT !.status = "available"]]
        BY <1>5, <2>4 DEF AssignName, Made
      <4>2. rows[op[p].id] # NoRow => Becomes(op[p].id, "available", rows[op[p].id].target)
        BY <2>1, <4>1, OpTyped, SMT DEF Becomes, OthersAs, Row, AInv
      <4> QED
        BY <1>5, <2>1, <4>2 DEF AssignName, SameRows
    <3> QED
      BY <1>1, <2>1, <2>4, <3>1, <3>2 DEF Acts, MakeStep
  <2> QED
    BY <1>1, <2>3, <2>4
<1> QED
  BY <1>2, <1>3, <1>4, <1>5

LEMMA RefillActs ==
  ASSUME AInv, NEW p \in Processes, ListStuck(p) \/ PurgeStuck(p) \/ CountAvailable(p)
  PROVE  Acts(p)
<1>. USE Numbers
<1>1. SameTargets /\ UNCHANGED inserted
  BY DEF ListStuck, PurgeStuck, CountAvailable, outside, SameTargets
<1>2. CASE ListStuck(p)
  <2>1. Stays(p, "purge", {CopyOf(i) : i \in Rows("provisioning")})
    BY <1>2, OpEdits DEF ListStuck, Stays
  <2> QED
    BY <1>1, <1>2, <2>1 DEF ListStuck, Acts, PurgesStep, SameRows
<1>3. CASE PurgeStuck(p) /\ op[p].previous = {}
  <2>1. Moves(p, "count", op[p].name, op[p].id, op[p].previous)
    BY <1>3, OpEdits DEF PurgeStuck
  <2>2. Rests(p)
    BY <1>3, <2>1 DEF Rests, Moves, Turns, Routing
  <2> QED
    BY <1>1, <1>3, <2>2 DEF PurgeStuck, Acts, EndStep, SameRows
<1>4. CASE PurgeStuck(p) /\ op[p].previous # {}
  <2>1. PICK old \in op[p].previous :
          /\ rows' = [rows EXCEPT ![old.id] = NoRow] /\ At(p, "purge")
          /\ Set(p, [op[p] EXCEPT !.previous = @ \ {old}])
    BY <1>4 DEF PurgeStuck
  <2>2. Stays(p, "purge", op[p].previous \ {old})
    BY <2>1, OpEdits DEF Stays, At
  <2>3. Vanishes(old.id)
    BY <1>1, <2>1, RowEdits, OpTyped DEF AInv
  <2> QED
    BY <1>1, <2>1, <2>2, <2>3 DEF Acts, PurgesStep
<1>5. CASE CountAvailable(p)
  <2>1. \/ End(p)
        \/ Turns(p, op[p].kind, "pick", op[p].target, op[p].name, op[p].id, op[p].tries,
                 op[p].previous, PoolSize - Counted)
    BY <1>5, OpEdits DEF CountAvailable
  <2>2. op[p].previous = {}
    BY <1>5 DEF CountAvailable, At, ShapeAt
  <2>3. Rests(p)
    BY <2>1, <2>2, EndActs DEF Rests, Turns, Routing
  <2> QED
    BY <1>1, <1>5, <2>3 DEF CountAvailable, Acts, EndStep, SameRows
<1> QED
  BY <1>2, <1>3, <1>4, <1>5

LEMMA ClaimedActs ==
  ASSUME AInv, NEW p \in Processes,
         \/ ListPrevious(p) \/ InsertClaim(p) \/ SaveRoute(p)
         \/ \E ok \in BOOLEAN : CreateClaimRecord(p, ok) \/ AddRoute(p, ok)
  PROVE  Acts(p)
<1>. USE Numbers
<1>1. CASE ListPrevious(p)
  <2>1. SameRows /\ SameTargets /\ At(p, "list")
    BY <1>1 DEF ListPrevious, SameRows, SameTargets, outside
  <2>2. \/ End(p) \/ Fail(p)
        \/ Stays(p, "record", {CopyOf(i) : i \in Owned(op[p].target)})
    BY <1>1, OpEdits DEF ListPrevious, Stays
  <2> QED
    BY <2>1, <2>2, EndActs DEF Acts, EndStep, ClaimStep
<1>2. ASSUME NEW ok \in BOOLEAN, CreateClaimRecord(p, ok)
      PROVE  Acts(p)
  <2>1. SameRows /\ SameTargets /\ At(p, "record")
    BY <1>2 DEF CreateClaimRecord, SameRows, SameTargets, outside
  <2>2. Fail(p) \/ Stays(p, "claim", op[p].previous)
    BY <1>2, OpEdits DEF CreateClaimRecord, Stays
  <2> QED
    BY <2>1, <2>2, EndActs DEF Acts, EndStep, ClaimStep
<1>3. CASE InsertClaim(p)
  <2>1. SameTargets /\ At(p, "claim")
    BY <1>3 DEF InsertClaim, SameTargets, outside
  <2> QED
    BY <1>3, <2>1, InsertActs DEF InsertClaim, Acts, EndStep, ClaimStep
<1>4. ASSUME NEW ok \in BOOLEAN, AddRoute(p, ok)
      PROVE  Acts(p)
  <2>1. SameRows /\ UNCHANGED <<live, removed>> /\ At(p, "route")
    BY <1>4 DEF AddRoute, SameRows
  <2>2. CASE ok
    BY <1>4, <2>1, <2>2, OpEdits DEF AddRoute, Stays, Acts, ClaimStep
  <2>3. CASE ~ok
    BY <1>4, <2>1, <2>3, EndActs DEF AddRoute, Acts, EndStep, SameTargets
  <2> QED
    BY <2>2, <2>3
<1>5. CASE SaveRoute(p)
  <2>1. SameTargets /\ At(p, "save") /\ UNCHANGED inserted /\ op[p].id \in Ids
    BY <1>5, SMT DEF SaveRoute, SameTargets, outside, At, ShapeAt, Ids
  <2>2. \/ SameRows
        \/ Becomes(op[p].id, rows[op[p].id].status, rows[op[p].id].target)
    BY <1>5, <2>1, RowEdits, OpTyped DEF SaveRoute, SameRows, AInv
  <2>3. Rests(p) \/ Stays(p, "release", op[p].previous)
    BY <1>5, OpEdits, EndActs DEF SaveRoute, Stays, ToRelease
  <2> QED
    BY <2>1, <2>2, <2>3 DEF Acts, ClaimStep
<1> QED
  BY <1>1, <1>2, <1>3, <1>4, <1>5

LEMMA ReleaseActs ==
  ASSUME AInv, NEW p \in Processes,
         \/ ListDomains(p) \/ ReleaseFails(p) \/ RemoveRoute(p) \/ DeleteRow(p)
         \/ DeleteTarget(p) \/ \E ok \in BOOLEAN : RemoveApp(p, ok)
  PROVE  Acts(p)
<1>. USE Numbers
<1>1. CASE ListDomains(p)
  <2> DEFINE owned == {CopyOf(i) : i \in Owned(op[p].target)}
  <2>1. SameRows /\ SameTargets /\ At(p, "domains")
    BY <1>1 DEF ListDomains, SameRows, SameTargets, outside
  <2>2. Moves(p, IF owned = {} THEN "target" ELSE "release", op[p].name, op[p].id, owned)
    BY <1>1, OpEdits DEF ListDomains
  <2>3. owned # {} => Stays(p, "release", owned)
    BY <2>2 DEF Stays
  <2>4. owned = {} => Rests(p)
    BY <2>2 DEF Rests, Moves, Turns, Routing
  <2> QED
    BY <2>1, <2>3, <2>4 DEF Acts, EndStep, ReleasesStep
<1>2. CASE RemoveRoute(p)
  BY <1>2, OpEdits DEF RemoveRoute, Stays, Acts, ReleasesStep, SameRows
<1>3. ASSUME Released(p)
      PROVE  Stays(p, "release", Rest(p)) \/ (Rests(p) /\ Rest(p) = {})
  <2>1. CASE Rest(p) # {}
    BY <1>3, <2>1, OpEdits DEF Released, Stays
  <2>2. CASE Rest(p) = {} /\ op[p].kind = "remove"
    <3>1. Moves(p, "target", op[p].name, op[p].id, {})
      BY <1>3, <2>2, OpEdits DEF Released
    <3> QED
      BY <2>2, <3>1 DEF Rests, Moves, Turns, Routing
  <2> QED
    BY <1>3, <2>1, <2>2, EndActs DEF Released
<1>4. CASE ReleaseFails(p)
  <2>1. SameRows /\ SameTargets /\ faults' # 0 /\ op[p].pc \in {"release", "unrouted"}
    BY <1>4, FaultCounts DEF ReleaseFails, SameRows, SameTargets, outside
  <2>2. Rests(p) \/ (Stays(p, "release", Rest(p)) /\ op[p].kind # "remove")
    BY <1>3, <1>4, EndActs DEF ReleaseFails
  <2> QED
    BY <2>1, <2>2 DEF Acts, EndStep, ReleasesStep
<1>5. CASE DeleteRow(p)
  <2>1. SameTargets /\ At(p, "unrouted") /\ Vanishes(Oldest(p).id)
    BY <1>5, RowEdits, OpTyped DEF DeleteRow, SameTargets, outside, AInv
  <2> QED
    BY <1>3, <1>5, <2>1 DEF DeleteRow, At, Acts, ReleasesStep
<1>6. CASE DeleteTarget(p)
  BY <1>6, EndActs DEF DeleteTarget, Acts, EndStep, SameRows
<1>7. ASSUME NEW ok \in BOOLEAN, RemoveApp(p, ok)
      PROVE  Acts(p)
  <2>1. SameRows /\ UNCHANGED <<live, removed>> /\ At(p, "target") /\ op[p].previous = {}
    BY <1>7 DEF RemoveApp, SameRows, ShapeAt, At
  <2>2. CASE ok
    <3>1. Stays(p, "row", {})
      BY <1>7, <2>1, <2>2, OpEdits DEF RemoveApp, Stays
    <3>2. Rests(p)
      BY <3>1 DEF Rests, Stays, Moves, Turns, Routing
    <3> QED
      BY <1>7, <2>1, <2>2, <3>1, <3>2 DEF RemoveApp, Acts, EndStep, SameTargets
  <2>3. CASE ~ok
    BY <1>7, <2>1, <2>3, EndActs DEF RemoveApp, Acts, EndStep, SameTargets
  <2> QED
    BY <2>2, <2>3
<1> QED
  BY <1>1, <1>2, <1>4, <1>5, <1>6, <1>7

LEMMA StepActs ==
  ASSUME AInv, NEW p \in Processes, Step(p) \/ CallFails(p)
  PROVE  Acts(p)
BY CreatedActs, TakenActs, MadeActs, RefillActs, ClaimedActs, ReleaseActs DEF Step, CallFails

LEMMA BeginActs ==
  ASSUME AInv, BeginRefill \/ Request
  PROVE  \E p \in Processes : Acts(p) /\ Others(p) /\ ShapeAt(p)' /\ Completes(p)
<1>. USE Numbers
<1>0. \A p : op[p] = Idle => Completes(p)
  <2>1. Idle.pc = "idle"
    BY SMT DEF Idle
  <2> QED
    BY <2>1 DEF Completes, At
<1>1. CASE BeginRefill
  <2>1. op[Cron] = Idle /\ Cron \in Processes /\ SameRows /\ SameTargets
    BY <1>1 DEF BeginRefill, Processes, SameRows, SameTargets, outside
  <2>2. Turns(Cron, "refill", "stuck", NoTarget, NoName, 0, 0, {}, 0)
    BY <1>1, <2>1, FreshEdits DEF BeginRefill
  <2>3. ShapeAt(Cron)' /\ Rests(Cron) /\ Others(Cron)
    BY <2>1, <2>2, SMT DEF ShapeAt, Turns, PoolPath, Listing, Rests, Routing
  <2> QED
    BY <1>0, <2>1, <2>3 DEF Acts, EndStep
<1>2. CASE Request
  <2>1. PICK p \in Calls, t \in Targets :
          \/ \E n \in Names : BeginFirst(p, t, n) \/ BeginClaim(p, t, n)
          \/ BeginFirst(p, t, NoName) \/ BeginRemove(p, t)
    BY <1>2 DEF Request
  <2>2. op[p] = Idle /\ p \in Processes /\ SameRows /\ UNCHANGED <<routes, removed>>
        /\ (SameTargets \/ (t \notin live \cup removed /\ live' = live \cup {t}))
    BY <2>1 DEF BeginFirst, BeginClaim, BeginRemove, Processes, SameRows, SameTargets
  <2>3. \/ \E n \in Names \cup {NoName} : Turns(p, "first", "create", t, n, 0, 0, {}, 0)
        \/ \E n \in Names : Turns(p, "claim", "list", t, n, 0, 0, {}, 0)
        \/ Turns(p, "remove", "domains", t, NoName, 0, 0, {}, 0)
    <3>1. CASE \E n \in Names : BeginFirst(p, t, n)
      BY <2>2, <3>1, FreshEdits DEF BeginFirst
    <3>2. CASE \E n \in Names : BeginClaim(p, t, n)
      BY <2>2, <3>2, FreshEdits DEF BeginClaim
    <3>3. CASE BeginFirst(p, t, NoName)
      BY <2>2, <3>3, FreshEdits DEF BeginFirst
    <3>4. CASE BeginRemove(p, t)
      BY <2>2, <3>4, FreshEdits DEF BeginRemove
    <3> QED
      BY <2>1, <3>1, <3>2, <3>3, <3>4
  <2>4. ShapeAt(p)' /\ Rests(p) /\ Others(p)
    BY <2>2, <2>3, SMT DEF ShapeAt, Turns, PoolPath, Listing, Rests, Routing
  <2> QED
    BY <1>0, <2>2, <2>4 DEF Acts, EndStep
<1> QED
  BY <1>1, <1>2

\* Faults are not forgotten, and both counters stay within their bounds.
LEMMA CountersStep ==
  ASSUME AInv, [Next]_vars
  PROVE  /\ faults' = 0 => faults = 0
         /\ begun' \in 0 .. MaxCalls /\ faults' \in 0 .. MaxFaults
         /\ apps' \subseteq Targets /\ blind' \subseteq Processes
<1>. MaxCalls \in Nat /\ MaxFaults \in Nat /\ begun \in 0 .. MaxCalls /\ faults \in 0 .. MaxFaults
  BY DomainsAssumption DEF AInv
<1>1. faults' = faults \/ Fault
  BY Zenon DEF Next, Step, CallFails, Request, BeginRefill, BeginFirst, BeginClaim, BeginRemove, Crash, vars,
     ReadCandidate, TakeCandidate, NoFreeName, PickName, InsertProvisioning, CreateRecord,
     AssignName, ListStuck, PurgeStuck, CountAvailable, ListPrevious, CreateClaimRecord,
     InsertClaim, AddRoute, SaveRoute, ListDomains, ReleaseFails, RemoveRoute, DeleteRow,
     CreateApp, RemoveApp, DeleteTarget
<1>2. begun' = begun \/ (begun < MaxCalls /\ begun' = begun + 1)
  BY Zenon DEF Next, Step, CallFails, Request, BeginRefill, BeginFirst, BeginClaim, BeginRemove, Crash, vars, outside,
     ReadCandidate, TakeCandidate, NoFreeName, PickName, InsertProvisioning, CreateRecord,
     AssignName, ListStuck, PurgeStuck, CountAvailable, ListPrevious, CreateClaimRecord,
     InsertClaim, AddRoute, SaveRoute, ListDomains, ReleaseFails, RemoveRoute, DeleteRow,
     CreateApp, RemoveApp, DeleteTarget
<1>3. faults' = faults \/ (faults < MaxFaults /\ faults' = faults + 1)
  BY <1>1 DEF Fault
<1>4. apps' = apps \/ \E p \in Processes : At(p, "create") /\ apps' = apps \cup {op[p].target}
  BY Zenon DEF Next, Step, CallFails, Request, BeginRefill, BeginFirst, BeginClaim, BeginRemove, Crash, vars, outside,
     ReadCandidate, TakeCandidate, NoFreeName, PickName, InsertProvisioning, CreateRecord,
     AssignName, ListStuck, PurgeStuck, CountAvailable, ListPrevious, CreateClaimRecord,
     InsertClaim, AddRoute, SaveRoute, ListDomains, ReleaseFails, RemoveRoute, DeleteRow,
     CreateApp, RemoveApp, DeleteTarget
<1>5. blind' = blind \/ \E p \in Processes : blind' \in {blind \cup {p}, blind \ {p}}
  BY Zenon DEF Next, Step, CallFails, Request, BeginRefill, BeginFirst, BeginClaim, BeginRemove, Crash, vars, outside,
     Reads, Processes,
     ReadCandidate, TakeCandidate, NoFreeName, PickName, InsertProvisioning, CreateRecord,
     AssignName, ListStuck, PurgeStuck, CountAvailable, ListPrevious, CreateClaimRecord,
     InsertClaim, AddRoute, SaveRoute, ListDomains, ReleaseFails, RemoveRoute, DeleteRow,
     CreateApp, RemoveApp, DeleteTarget
<1>6. apps \subseteq Targets /\ blind \subseteq Processes
      /\ \A p \in Processes : At(p, "create") => op[p].target \in Targets
  BY Numbers DEF AInv, ShapeAt, At
<1>7. apps' \subseteq Targets /\ blind' \subseteq Processes
  BY <1>4, <1>5, <1>6
<1> QED
  BY <1>2, <1>3, <1>7, SMT

LEMMA StepCompletes ==
  ASSUME AInv, NEW p \in Processes, Step(p) \/ CallFails(p)
  PROVE  Completes(p)
<1>1. CASE At(p, "route")
  <2>1. \E ok \in BOOLEAN : AddRoute(p, ok)
    BY <1>1, Zenon DEF Step, CallFails, At,
       ReadCandidate, TakeCandidate, NoFreeName, PickName, InsertProvisioning, CreateRecord,
       AssignName, ListStuck, PurgeStuck, CountAvailable, ListPrevious, CreateClaimRecord,
       InsertClaim, SaveRoute, ListDomains, ReleaseFails, RemoveRoute, DeleteRow, CreateApp,
       RemoveApp, DeleteTarget
  <2> QED
    BY <1>1, <2>1, FaultCounts DEF AddRoute, Completes, At
<1>2. CASE At(p, "unrouted")
  <2>1. DeleteRow(p) \/ ReleaseFails(p)
    BY <1>2, Zenon DEF Step, CallFails, At,
       ReadCandidate, TakeCandidate, NoFreeName, PickName, InsertProvisioning, CreateRecord,
       AssignName, ListStuck, PurgeStuck, CountAvailable, ListPrevious, CreateClaimRecord,
       InsertClaim, AddRoute, SaveRoute, ListDomains, RemoveRoute, CreateApp, RemoveApp, DeleteTarget
  <2>2. DeleteRow(p) => Vanishes(Oldest(p).id)
    BY RowEdits, OpTyped DEF DeleteRow, AInv
  <2> QED
    BY <1>2, <2>1, <2>2, FaultCounts DEF ReleaseFails, Completes, At
<1>3. CASE At(p, "row")
  <2>1. DeleteTarget(p)
    BY <1>3, Zenon DEF Step, CallFails, At,
       ReadCandidate, TakeCandidate, NoFreeName, PickName, InsertProvisioning, CreateRecord,
       AssignName, ListStuck, PurgeStuck, CountAvailable, ListPrevious, CreateClaimRecord,
       InsertClaim, AddRoute, SaveRoute, ListDomains, ReleaseFails, RemoveRoute, DeleteRow, CreateApp,
       RemoveApp
  <2> QED
    BY <1>3, <2>1 DEF DeleteTarget, Completes, At
<1> QED
  BY <1>1, <1>2, <1>3 DEF Completes

LEMMA StepEffects ==
  ASSUME AInv, [Next]_vars
  PROVE  Effects
<1>1. ASSUME NEW p \in Processes, Step(p) \/ CallFails(p)
      PROVE  Acts(p) /\ Others(p) /\ ShapeAt(p)' /\ Completes(p)
  BY <1>1, StepActs, StepShape, StepCompletes
<1>2. CASE Crash
  <2>1. faults' # 0
    BY <1>2, FaultCounts DEF Crash
  <2> QED
    BY <1>2, <2>1 DEF Crash, Effects, SameRows, SameTargets, outside
<1> QED
  BY <1>1, <1>2, BeginActs, CountersStep DEF Next, Effects

-----------------------------------------------------------------------------
\* The invariants of rows and requests, from what steps change.

\* What a request's step does to the rows, and at which stage.
RowActs(p) ==
    \/ SameRows
    \/ \E i \in Ids \cup {0} : Vanishes(i)
    \/ At(p, "insert") /\ Adds(p, "provisioning", NoTarget)
    \/ At(p, "claim") /\ Adds(p, "assigned", op[p].target)
    \/ /\ At(p, "assign") /\ op[p].kind = "refill"
       /\ Becomes(op[p].id, "available", rows[op[p].id].target)
    \/ /\ op[p].kind = "first" /\ Becomes(op[p].id, "assigned", op[p].target)
       /\ At(p, "assign") \/ (At(p, "take") /\ rows[op[p].id].status = "available")
    \/ At(p, "save") /\ Becomes(op[p].id, rows[op[p].id].status, rows[op[p].id].target)

LEMMA RowsActed ==
  ASSUME AInv, NEW p \in Processes, Acts(p)
  PROVE  RowActs(p)
<1>. USE Numbers
<1>1. CASE EndStep(p)
  <2>1. op[p].id \in Ids \cup {0}
    BY OpTyped, SMT DEF AInv, Ids
  <2> QED
    BY <1>1, <2>1 DEF EndStep, RowActs
<1>2. CASE MakeStep(p)
  BY <1>2 DEF MakeStep, RowActs
<1>3. CASE ClaimStep(p)
  BY <1>3 DEF ClaimStep, RowActs
<1>4. CASE ReleasesStep(p)
  <2>1. At(p, "unrouted") => Oldest(p).id \in Ids
    <3>1. At(p, "unrouted") => op[p].previous # {}
      BY DEF At, ShapeAt
    <3>2. \A old \in op[p].previous : old.id \in Ids
      BY SMT DEF Copy
    <3> QED
      BY <3>1, <3>2, OldestFirst
  <2> QED
    BY <1>4, <2>1 DEF ReleasesStep, RowActs
<1>5. CASE PurgesStep(p)
  <2>1. \A old \in op[p].previous : old.id \in Ids
    BY SMT DEF Copy
  <2> QED
    BY <1>5, <2>1 DEF PurgesStep, RowActs
<1> QED
  BY <1>1, <1>2, <1>3, <1>4, <1>5 DEF Acts

LEMMA RowsGrow ==
  ASSUME AInv, Effects
  PROVE  inserted' \in Nat /\ inserted <= inserted'
<1>1. ASSUME NEW p \in Processes, Acts(p)
      PROVE  inserted' = inserted \/ inserted' = inserted + 1
  BY <1>1, RowsActed DEF RowActs, SameRows, Vanishes, Adds, Becomes
<1>2. inserted' = inserted \/ inserted' = inserted + 1
  BY <1>1, Zenon DEF Effects, SameRows, vars
<1>3. inserted \in Nat
  BY SMT DEF AInv, IInv, Types
<1> QED
  BY <1>2, <1>3, SMT

LEMMA IdleShape == ASSUME AInv, NEW p \in Processes, op'[p] = Idle PROVE ShapeAt(p)'
<1>1. /\ op'[p].kind = "none" /\ op'[p].pc = "idle" /\ op'[p].tries = 0 /\ op'[p].need = 0
      /\ op'[p].previous = {}
  BY SMT DEF Idle
<1> QED
  BY <1>1, Numbers, SMT DEF ShapeAt, PoolPath, Listing

LEMMA ShapeKept == ASSUME AInv, Effects PROVE Shape'
<1>1. ASSUME NEW p \in Processes, Others(p), ShapeAt(p)'
      PROVE  Shape'
  <2>1. ASSUME NEW q \in Processes, q # p
        PROVE  ShapeAt(q)'
    <3>1. op'[q] = op[q] /\ ShapeAt(q) /\ inserted' \in Nat /\ inserted \in Nat /\ inserted <= inserted'
      BY <1>1, <2>1, RowsGrow, Numbers DEF Others
    <3> QED
      BY <3>1, SMT DEF ShapeAt
  <2> QED
    BY <1>1, <2>1 DEF Shape
<1>2. CASE \A p \in Processes : op'[p] = Idle
  BY <1>2, IdleShape DEF Shape
<1>3. CASE UNCHANGED vars
  BY <1>3 DEF vars, AInv, Shape, ShapeAt
<1> QED
  BY <1>1, <1>2, <1>3 DEF Effects

LEMMA RowsKept == ASSUME AInv, Effects PROVE RowShape'
<1>1. ASSUME NEW p \in Processes, Acts(p)
      PROVE  RowShape'
  <2>0. /\ RowShape /\ inserted \in Nat /\ NoTarget \notin Targets /\ ShapeAt(p)
        /\ NoRow.status = "none" /\ NoRow.target = NoTarget
    BY Numbers, NoRowFields, DomainsAssumption DEF AInv
  <2>1. CASE SameRows
    BY <2>0, <2>1 DEF RowShape, SameRows
  <2>2. CASE \E i \in Ids \cup {0} : Vanishes(i)
    BY <2>0, <2>2 DEF RowShape, Vanishes
  <2>3. ASSUME NEW status \in {"provisioning", "assigned"}, NEW target \in Targets \cup {NoTarget},
               Adds(p, status, target), status = "assigned" <=> target # NoTarget,
               op[p].name \in Names
        PROVE  RowShape'
    BY <2>0, <2>3, SMT DEF RowShape, Adds, OthersAs, Ids
  <2>4. ASSUME NEW i, NEW status, NEW target, Becomes(i, status, target),
               status # "none", status = "assigned" <=> target # NoTarget
        PROVE  RowShape'
    <3>1. i \in Ids /\ rows[i] # NoRow /\ ~(i > inserted) /\ rows[i].name \in Names
      BY <2>0, <2>4 DEF RowShape, Becomes
    <3> QED
      BY <2>0, <2>4, <3>1 DEF RowShape, Becomes, OthersAs
  <2>5. CASE At(p, "insert") /\ Adds(p, "provisioning", NoTarget)
    BY <2>0, <2>3, <2>5 DEF ShapeAt, At
  <2>6. CASE At(p, "claim") /\ Adds(p, "assigned", op[p].target)
    <3>1. op[p].name \in Names /\ op[p].target \in Targets
      BY <2>0, <2>6, Zenon DEF ShapeAt, At, Listing
    <3> QED
      BY <2>0, <2>3, <2>6, <3>1
  <2>7. CASE At(p, "assign") /\ Becomes(op[p].id, "available", rows[op[p].id].target)
    <3>1. rows[op[p].id].status # "assigned" /\ op[p].id \in Ids
      BY <2>7 DEF AInv, IInv, Making, Makes, At, Becomes
    <3> QED
      BY <2>0, <2>4, <2>7, <3>1 DEF RowShape
  <2>8. CASE op[p].kind = "first" /\ Becomes(op[p].id, "assigned", op[p].target)
    BY <2>0, <2>4, <2>8 DEF ShapeAt
  <2>9. CASE Becomes(op[p].id, rows[op[p].id].status, rows[op[p].id].target)
    BY <2>0, <2>4, <2>9 DEF RowShape, Becomes
  <2> QED
    BY <1>1, <2>1, <2>2, <2>5, <2>6, <2>7, <2>8, <2>9, RowsActed DEF RowActs
<1>2. CASE SameRows
  BY <1>2 DEF AInv, RowShape, SameRows
<1> QED
  BY <1>1, <1>2 DEF Effects, vars, SameRows

\* Rows that are gone stay gone, and rows that are assigned go to nobody else.
LEMMA RowsLast ==
  ASSUME AInv, Effects, NEW i \in 1 .. inserted, NEW t
  PROVE  /\ i \in Ids
         /\ rows[i] = NoRow => rows'[i] = NoRow
         /\ Assigned(i, t) => rows'[i] = NoRow \/ Assigned(i, t)'
<1>1. i \in Ids /\ inserted \in Nat /\ i \in Nat /\ i <= inserted
  BY DomainsAssumption, SMT DEF AInv, IInv, Types, Ids
<1>2. ASSUME NEW p \in Processes, Acts(p)
      PROVE  /\ rows[i] = NoRow => rows'[i] = NoRow
             /\ Assigned(i, t) => rows'[i] = NoRow \/ Assigned(i, t)'
  <2>1. CASE \E status, target : Adds(p, status, target)
    <3>1. inserted' # i /\ rows'[i] = rows[i]
      BY <1>1, <2>1, SMT DEF Adds, OthersAs
    <3> QED
      BY <3>1 DEF Assigned
  <2>2. ASSUME NEW j, NEW status, NEW target, Becomes(j, status, target),
               rows[j].status = "assigned" => status = "assigned" /\ target = rows[j].target
        PROVE  /\ rows[i] = NoRow => rows'[i] = NoRow
               /\ Assigned(i, t) => rows'[i] = NoRow \/ Assigned(i, t)'
    BY <1>1, <2>2 DEF Becomes, OthersAs, Assigned
  <2>3. Makes(p) => rows[op[p].id].status # "assigned"
    BY DEF AInv, IInv, Making
  <2>4. CASE \E j \in Ids \cup {0} : Vanishes(j)
    BY <1>1, <2>4 DEF Vanishes, Assigned
  <2>5. CASE SameRows
    BY <2>5 DEF SameRows, Assigned
  <2> QED
    BY <1>2, <2>1, <2>2, <2>3, <2>4, <2>5, RowsActed DEF RowActs, Makes, At
<1>3. CASE SameRows
  BY <1>1, <1>3 DEF SameRows, Assigned
<1> QED
  BY <1>1, <1>2, <1>3 DEF Effects, SameRows, vars

LEMMA NamedKept == ASSUME AInv, Effects PROVE Named'
<1>. /\ inserted \in Nat
     /\ \A q \in Processes : Makes(q) => op[q].id \in 1 .. inserted /\ op[q].id \in Ids
  BY DomainsAssumption, SMT DEF AInv, IInv, Types, Making, Ids
<1>1. ASSUME NEW p \in Processes, Acts(p), Others(p)
      PROVE  Named'
  <2>1. ASSUME NEW q \in Processes, q # p, Makes(q)'
        PROVE  \/ rows'[op'[q].id] = NoRow
               \/ rows'[op'[q].id].status = "provisioning" /\ rows'[op'[q].id].name = op'[q].name
    <3> DEFINE i == op[q].id
    <3>1. op'[q] = op[q] /\ Makes(q) /\ i \in 1 .. inserted /\ i \in Ids
      BY <1>1, <2>1 DEF Others, Makes
    <3>2. rows[i] = NoRow \/ (rows[i].status = "provisioning" /\ rows[i].name = op[q].name)
      BY <3>1 DEF AInv, Named
    <3>3. Makes(p) => op[p].id # i
      BY <2>1, <3>1 DEF AInv, IInv, OneMaker
    <3>4. rows'[i] = NoRow \/ rows'[i] = rows[i]
          \/ (rows'[i].status = rows[i].status /\ rows'[i].name = rows[i].name)
      <4>1. CASE \E status, target : Adds(p, status, target)
        <5>1. inserted' # i
          BY <3>1, <4>1, SMT DEF Adds
        <5> QED
          BY <3>1, <4>1, <5>1 DEF Adds, OthersAs
      <4>2. CASE \E j \in Ids \cup {0} : Vanishes(j)
        BY <3>1, <4>2 DEF Vanishes
      <4>3. ASSUME Makes(p) \/ rows[op[p].id].status = "available",
                   \E status, target : Becomes(op[p].id, status, target)
            PROVE  rows'[i] = rows[i]
        <5>1. op[p].id # i
          BY <3>2, <3>3, <4>3, NoRowFields
        <5> QED
          BY <3>1, <4>3, <5>1 DEF Becomes, OthersAs
      <4>4. CASE Becomes(op[p].id, rows[op[p].id].status, rows[op[p].id].target)
        BY <3>1, <4>4 DEF Becomes, OthersAs
      <4>5. CASE SameRows
        BY <4>5 DEF SameRows
      <4> QED
        BY <1>1, <4>1, <4>2, <4>3, <4>4, <4>5, RowsActed DEF RowActs, Makes, At
    <3> QED
      BY <3>1, <3>2, <3>4, RowsLast
  <2>2. ASSUME Makes(p)'
        PROVE  \/ rows'[op'[p].id] = NoRow
               \/ rows'[op'[p].id].status = "provisioning" /\ rows'[op'[p].id].name = op'[p].name
    <3>1. \/ Moves(p, "point", op[p].name, inserted', op[p].previous) /\ Adds(p, "provisioning", NoTarget)
          \/ At(p, "point") /\ Stays(p, "assign", op[p].previous) /\ SameRows
      BY <1>1, <2>2 DEF Acts, EndStep, MakeStep, ClaimStep, ReleasesStep, PurgesStep, Rests,
                        Makes, Stays, Moves, Turns
    <3>2. CASE Moves(p, "point", op[p].name, inserted', op[p].previous) /\ Adds(p, "provisioning", NoTarget)
      BY <3>2 DEF Moves, Turns, Adds
    <3>3. CASE At(p, "point") /\ Stays(p, "assign", op[p].previous) /\ SameRows
      BY <3>3 DEF Stays, Moves, Turns, SameRows, AInv, Named, Makes, At
    <3> QED
      BY <3>1, <3>2, <3>3
  <2> QED
    BY <2>1, <2>2 DEF Named
<1>2. CASE \A p \in Processes : op'[p] = Idle
  <2>1. Idle.pc = "idle"
    BY SMT DEF Idle
  <2> QED
    BY <1>2, <2>1 DEF Named, Makes
<1>3. CASE UNCHANGED vars
  BY <1>3 DEF vars, AInv, Named, Makes
<1> QED
  BY <1>1, <1>2, <1>3 DEF Effects

\* Where the rows come from that a request wants to release.
LEMMA PreviousActed ==
  ASSUME AInv, NEW p \in Processes, Acts(p)
  PROVE  \/ op'[p].previous = {}
         \/ /\ op'[p].previous \subseteq op[p].previous /\ op'[p].target = op[p].target
            /\ op[p].pc = "purge" => op'[p].pc = "purge"
         \/ /\ op'[p].previous = {CopyOf(i) : i \in Owned(op[p].target)}
            /\ op'[p].target = op[p].target /\ op[p].target \in Targets /\ SameRows
         \/ /\ op'[p].previous = {CopyOf(i) : i \in Rows("provisioning")}
            /\ op'[p].pc = "purge" /\ SameRows
<1>. USE Numbers
<1>1. CASE EndStep(p)
  BY <1>1 DEF EndStep, Rests
<1>2. CASE MakeStep(p)
  BY <1>2 DEF MakeStep, Rests, Stays, Moves, Turns, At
<1>3. CASE ClaimStep(p)
  <2>1. At(p, "list") => op[p].target \in Targets
    BY DEF ShapeAt, At, Listing
  <2> QED
    BY <1>3, <2>1, Zenon DEF ClaimStep, Rests, Stays, Moves, Turns, At
<1>4. CASE ReleasesStep(p)
  <2>1. At(p, "domains") => op[p].target \in Targets
    BY DEF ShapeAt, At
  <2>2. Rest(p) \subseteq op[p].previous
    BY DEF Rest
  <2> QED
    BY <1>4, <2>1, <2>2, Zenon DEF ReleasesStep, Rests, Stays, Moves, Turns, At
<1>5. CASE PurgesStep(p)
  BY <1>5, Zenon DEF PurgesStep, Stays, Moves, Turns, At
<1> QED
  BY <1>1, <1>2, <1>3, <1>4, <1>5 DEF Acts

\* A request that stops wanting rows, or that keeps to those it wanted, wants its own.
LEMMA PreviousKept == ASSUME AInv, Effects PROVE OwnPrevious'
<1>. inserted \in Nat /\ inserted' \in Nat /\ inserted <= inserted'
  BY RowsGrow, Numbers DEF AInv, IInv, Types
<1>1. ASSUME NEW q \in Processes, NEW t, NEW old \in op[q].previous,
             op[q].pc # "purge" => t = op[q].target
      PROVE  /\ old.id \in 1 .. inserted'
             /\ op[q].pc # "purge" => rows'[old.id] = NoRow \/ Assigned(old.id, t)'
  <2>1. old.id \in 1 .. inserted
        /\ (op[q].pc # "purge" => rows[old.id] = NoRow \/ Assigned(old.id, t))
    BY <1>1 DEF AInv, OwnPrevious
  <2>2. old.id \in 1 .. inserted'
    BY <2>1, SMT
  <2> QED
    BY <2>1, <2>2, RowsLast
<1>2. ASSUME NEW p \in Processes, Acts(p), Others(p)
      PROVE  OwnPrevious'
  <2>1. ASSUME NEW q \in Processes, q # p, NEW old \in op'[q].previous
        PROVE  /\ old.id \in 1 .. inserted'
               /\ op'[q].pc # "purge" => rows'[old.id] = NoRow \/ Assigned(old.id, op[q].target)'
    BY <1>1, <1>2, <2>1 DEF Others
  <2>2. ASSUME NEW old \in op'[p].previous
        PROVE  /\ old.id \in 1 .. inserted'
               /\ op'[p].pc # "purge" => rows'[old.id] = NoRow \/ Assigned(old.id, op[p].target)'
    <3>1. CASE /\ op'[p].previous \subseteq op[p].previous /\ op'[p].target = op[p].target
               /\ op[p].pc = "purge" => op'[p].pc = "purge"
      BY <1>1, <2>2, <3>1
    <3>2. CASE /\ op'[p].previous = {CopyOf(i) : i \in Owned(op[p].target)}
               /\ op'[p].target = op[p].target /\ op[p].target \in Targets /\ SameRows
      <4>1. PICK i \in Owned(op[p].target) : old = CopyOf(i)
        BY <2>2, <3>2
      <4>2. old.id = i /\ i \in Ids /\ rows[i] # NoRow /\ rows[i].target = op[p].target
        BY <4>1, SMT DEF CopyOf, Owned, Present
      <4>3. rows[i].status = "assigned" /\ ~(i > inserted)
        BY <3>2, <4>2, DomainsAssumption DEF AInv, RowShape
      <4>4. i \in 1 .. inserted'
        BY <4>2, <4>3, SMT DEF Ids
      <4> QED
        BY <3>2, <4>2, <4>3, <4>4 DEF Assigned, SameRows
    <3>3. CASE /\ op'[p].previous = {CopyOf(i) : i \in Rows("provisioning")}
               /\ op'[p].pc = "purge" /\ SameRows
      <4>1. PICK i \in Rows("provisioning") : old = CopyOf(i)
        BY <2>2, <3>3
      <4>2. old.id = i /\ i \in Ids /\ rows[i].status = "provisioning"
        BY <4>1, SMT DEF CopyOf, Rows
      <4>3. ~(i > inserted)
        BY <4>2, NoRowFields DEF AInv, RowShape
      <4>4. i \in 1 .. inserted'
        BY <4>2, <4>3, SMT DEF Ids
      <4> QED
        BY <3>3, <4>2, <4>4
    <3> QED
      BY <1>2, <2>2, <3>1, <3>2, <3>3, PreviousActed
  <2>3. ASSUME NEW q \in Processes, NEW old \in op'[q].previous
        PROVE  /\ old.id \in 1 .. inserted'
               /\ op'[q].pc # "purge" => rows'[old.id] = NoRow \/ Assigned(old.id, op[q].target)'
    BY <2>1, <2>2, <2>3
  <2> QED
    BY <2>3 DEF OwnPrevious
<1>3. CASE \A p \in Processes : op'[p] = Idle
  <2>1. Idle.previous = {}
    BY SMT DEF Idle
  <2> QED
    BY <1>3, <2>1 DEF OwnPrevious
<1>4. CASE UNCHANGED vars
  BY <1>4 DEF vars, AInv, OwnPrevious, Assigned
<1> QED
  BY <1>2, <1>3, <1>4 DEF Effects

LEMMA TargetsKept == ASSUME AInv, Effects PROVE TargetShape'
<1>. TargetShape
  BY DEF AInv
<1>1. ASSUME NEW p \in Processes, Acts(p)
      PROVE  TargetShape'
  <2>. ShapeAt(p) /\ inserted \in 0 .. MaxRows /\ MaxRows \in Nat
    BY Numbers
  <2>1. CASE SameTargets
    BY <2>1 DEF SameTargets, TargetShape
  <2>2. CASE UNCHANGED <<routes, removed>> /\ \E t \in Targets \ (live \cup removed) : live' = live \cup {t}
    BY <2>2 DEF TargetShape
  <2>3. CASE /\ At(p, "row") /\ UNCHANGED routes
             /\ live' = live \ {op[p].target} /\ removed' = removed \cup {op[p].target}
    <3>1. op[p].target \in Targets
      BY <2>3 DEF ShapeAt, At
    <3> QED
      BY <2>3, <3>1 DEF TargetShape
  <2>4. CASE /\ At(p, "route") /\ UNCHANGED <<live, removed>>
             /\ routes' = routes \cup {[id |-> op[p].id, name |-> op[p].name, target |-> op[p].target]}
    <3>1. op[p].id \in Ids /\ op[p].name \in Names /\ op[p].target \in Targets
      BY <2>4, SMT DEF ShapeAt, At, Ids
    <3>2. [id |-> op[p].id, name |-> op[p].name, target |-> op[p].target] \in Route
      BY <3>1 DEF Route
    <3> QED
      BY <2>4, <3>2 DEF TargetShape
  <2>9. CASE UNCHANGED <<live, removed>> /\ routes' = {r \in routes : r.target # op[p].target}
    BY <2>9 DEF TargetShape
  <2>5. CASE UNCHANGED <<live, removed>> /\ routes' \in {routes, Unrouted(p)}
    BY <2>5 DEF TargetShape, Unrouted
  <2>6. CASE EndStep(p)
    BY <2>1, <2>2, <2>3, <2>6, <2>9 DEF EndStep
  <2>7. CASE ClaimStep(p)
    BY <2>1, <2>4, <2>7 DEF ClaimStep
  <2>8. CASE ReleasesStep(p)
    BY <2>1, <2>5, <2>8 DEF ReleasesStep
  <2> QED
    BY <1>1, <2>1, <2>6, <2>7, <2>8 DEF Acts, MakeStep, PurgesStep
<1> QED
  BY <1>1 DEF Effects, SameTargets, vars, TargetShape

-----------------------------------------------------------------------------
\* The pool never holds more than it should: what the refill still makes, it has counted
\* as missing, and nothing else adds to the pool.

LEMMA NoDemandAfter ==
  ASSUME AInv, NEW p \in Processes, End(p) \/ Fail(p)
  PROVE  op'[p].pc \notin PoolPath
<1>1. \/ Turns(p, "none", "idle", NoTarget, NoName, 0, 0, {}, 0)
      \/ Turns(p, "remove", "domains", op[p].target, NoName, 0, 0, {}, 0)
  BY Numbers, FreshEdits
<1> QED
  BY <1>1 DEF Turns, PoolPath

\* Steps off the way to a pool name do not come back to it.
LEMMA Elsewhere ==
  ASSUME AInv, NEW p \in Processes,
         \/ ListStuck(p) \/ PurgeStuck(p) \/ ListPrevious(p) \/ InsertClaim(p) \/ SaveRoute(p)
         \/ \E ok \in BOOLEAN : CreateClaimRecord(p, ok) \/ AddRoute(p, ok) \/ RemoveApp(p, ok)
         \/ DeleteTarget(p) \/ ListDomains(p) \/ ReleaseFails(p) \/ RemoveRoute(p) \/ DeleteRow(p)
  PROVE  op'[p].pc \notin PoolPath
<1>. USE Numbers
<1> DEFINE away == {"purge", "count", "record", "claim", "route", "save", "release", "unrouted",
                    "target", "row"}
<1>1. ASSUME NEW s \in away, NEW name, NEW id, NEW previous, Moves(p, s, name, id, previous)
      PROVE  op'[p].pc \notin PoolPath
  BY <1>1, Zenon DEF Moves, Turns, PoolPath
<1>2. CASE Released(p)
  <2>1. CASE Rest(p) # {}
    BY <1>1, <1>2, <2>1, OpEdits DEF Released
  <2>2. CASE Rest(p) = {} /\ op[p].kind = "remove"
    <3>1. Moves(p, "target", op[p].name, op[p].id, {})
      BY <1>2, <2>2, OpEdits DEF Released
    <3> QED
      BY <1>1, <3>1
  <2> QED
    BY <1>2, <2>1, <2>2, NoDemandAfter DEF Released
<1>3. CASE ListStuck(p) \/ ListPrevious(p) \/ SaveRoute(p) \/ RemoveRoute(p)
  <2>1. \/ End(p) \/ Fail(p)
        \/ Moves(p, "purge", op[p].name, op[p].id, {CopyOf(i) : i \in Rows("provisioning")})
        \/ Moves(p, "record", op[p].name, op[p].id, {CopyOf(i) : i \in Owned(op[p].target)})
        \/ Moves(p, "release", op[p].name, op[p].id, op[p].previous)
        \/ Moves(p, "unrouted", op[p].name, op[p].id, op[p].previous)
    BY <1>3, OpEdits DEF ListStuck, ListPrevious, SaveRoute, ToRelease, RemoveRoute
  <2> QED
    BY <1>1, <2>1, NoDemandAfter
<1>4. CASE PurgeStuck(p)
  <2>1. \/ Moves(p, "count", op[p].name, op[p].id, op[p].previous)
        \/ \E old : Moves(p, "purge", op[p].name, op[p].id, old)
    BY <1>4, OpEdits DEF PurgeStuck, At
  <2> QED
    BY <1>1, <2>1
<1>5. CASE InsertClaim(p)
  <2>1. Fail(p) \/ Moves(p, "route", op[p].name, inserted', op[p].previous)
    BY <1>5, OpEdits DEF InsertClaim, Insert
  <2> QED
    BY <1>1, <2>1, NoDemandAfter
<1>6. ASSUME NEW ok \in BOOLEAN, CreateClaimRecord(p, ok) \/ AddRoute(p, ok) \/ RemoveApp(p, ok)
      PROVE  op'[p].pc \notin PoolPath
  <2>1. \/ End(p) \/ Fail(p)
        \/ \E s \in {"claim", "save", "row"} : Moves(p, s, op[p].name, op[p].id, op[p].previous)
    BY <1>6, OpEdits DEF CreateClaimRecord, AddRoute, RemoveApp
  <2> QED
    BY <1>1, <2>1, NoDemandAfter
<1>7. CASE ListDomains(p)
  <2>1. \E s \in {"target", "release"} : \E owned : Moves(p, s, op[p].name, op[p].id, owned)
    BY <1>7, OpEdits DEF ListDomains
  <2> QED
    BY <1>1, <2>1
<1> QED
  BY <1>2, <1>3, <1>4, <1>5, <1>6, <1>7, NoDemandAfter DEF ReleaseFails, DeleteRow, DeleteTarget

\* On the way, the refill wants what it wanted, one less once it made a name.
LEMMA DemandStep ==
  ASSUME AInv, NEW p \in Processes, Step(p) \/ CallFails(p)
  PROVE  \/ op'[p].pc \notin PoolPath
         \/ /\ op[p].pc \in PoolPath /\ op'[p].need = op[p].need
            /\ ~(At(p, "assign") /\ op[p].kind = "refill")
         \/ op[p].pc \in PoolPath /\ op'[p].need = op[p].need - 1
         \/ At(p, "count") /\ op'[p].need = PoolSize - Counted /\ SameRows
<1>. USE Numbers
<1>1. CASE ReadCandidate(p)
  <2>1. At(p, "pool") /\ \E s, i : Moves(p, s, op[p].name, i, op[p].previous)
    BY <1>1, OpEdits DEF ReadCandidate
  <2> QED
    BY <2>1 DEF Moves, Turns, At, PoolPath
<1>2. CASE TakeCandidate(p)
  <2>1. CASE StillAvailable(op[p].id)
    <3>1. Moves(p, "route", rows[op[p].id].name, op[p].id, op[p].previous)
      BY <1>2, <2>1, OpEdits DEF TakeCandidate
    <3> QED
      BY <3>1 DEF Moves, Turns, PoolPath
  <2>2. CASE ~StillAvailable(op[p].id)
    <3>1. At(p, "take")
          /\ Turns(p, op[p].kind, "pool", op[p].target, op[p].name, op[p].id, op[p].tries + 1,
                   op[p].previous, op[p].need)
      BY <1>2, <2>2, OpEdits DEF TakeCandidate
    <3> QED
      BY <3>1 DEF Turns, At, PoolPath
  <2> QED
    BY <2>1, <2>2
<1>3. ASSUME NEW n \in Names, PickName(p, n)
      PROVE  op[p].pc \in PoolPath /\ op'[p].need = op[p].need /\ ~At(p, "assign")
  <2>1. At(p, "pick") /\ Moves(p, "insert", n, op[p].id, op[p].previous)
    BY <1>3, OpEdits DEF PickName
  <2> QED
    BY <2>1 DEF Moves, Turns, At, PoolPath
<1>4. CASE InsertProvisioning(p) /\ ~Fail(p)
  <2>1. At(p, "insert") /\ Moves(p, "point", op[p].name, inserted', op[p].previous)
    BY <1>4, OpEdits DEF InsertProvisioning, Insert
  <2> QED
    BY <2>1 DEF Moves, Turns, At, PoolPath
<1>5. CASE CreateRecord(p, TRUE)
  <2>1. At(p, "point") /\ Moves(p, "assign", op[p].name, op[p].id, op[p].previous)
    BY <1>5, OpEdits DEF CreateRecord
  <2> QED
    BY <2>1 DEF Moves, Turns, At, PoolPath
<1>6. CASE AssignName(p) /\ ~End(p)
  <2>1. CASE op[p].kind = "first"
    <3>1. Moves(p, "route", op[p].name, op[p].id, op[p].previous)
      BY <1>6, <2>1, OpEdits DEF AssignName
    <3> QED
      BY <3>1 DEF Moves, Turns, PoolPath
  <2>2. CASE op[p].kind # "first"
    <3>1. At(p, "assign")
          /\ Turns(p, op[p].kind, "pick", op[p].target, op[p].name, op[p].id, op[p].tries,
                   op[p].previous, op[p].need - 1)
      BY <1>6, <2>2, OpEdits DEF AssignName
    <3> QED
      BY <3>1 DEF Turns, At, PoolPath
  <2> QED
    BY <2>1, <2>2
<1>7. CASE CountAvailable(p) /\ ~End(p)
  <2>1. At(p, "count") /\ SameRows
        /\ Turns(p, op[p].kind, "pick", op[p].target, op[p].name, op[p].id, op[p].tries,
                 op[p].previous, PoolSize - Counted)
    BY <1>7, OpEdits DEF CountAvailable, SameRows
  <2> QED
    BY <2>1 DEF Turns
<1>8. CASE NoFreeName(p) \/ CreateRecord(p, FALSE) \/ End(p) \/ Fail(p)
  BY <1>8, NoDemandAfter DEF NoFreeName, CreateRecord
<1>9. ASSUME NEW ok \in BOOLEAN, CreateApp(p, ok), ~Fail(p)
      PROVE  op[p].pc \in PoolPath /\ op'[p].need = op[p].need /\ ~At(p, "assign")
  <2>1. At(p, "create") /\ \E s : Moves(p, s, op[p].name, op[p].id, op[p].previous)
    BY <1>9, OpEdits DEF CreateApp
  <2> QED
    BY <2>1 DEF Moves, Turns, At, PoolPath
<1> QED
  BY <1>1, <1>2, <1>3, <1>4, <1>5, <1>6, <1>7, <1>8, <1>9, Elsewhere DEF Step, CallFails

LEMMA AvailableActs ==
  ASSUME AInv, NEW p \in Processes, Acts(p)
  PROVE  \/ Rows("available")' \subseteq Rows("available")
         \/ /\ At(p, "assign") /\ op[p].kind = "refill"
            /\ Rows("available")' \subseteq Rows("available") \cup {op[p].id}
<1>1. CASE SameRows
  BY <1>1 DEF SameRows, Rows
<1>2. CASE \E i \in Ids \cup {0} : Vanishes(i)
  BY <1>2, NoRowFields DEF Vanishes, Rows
<1>3. CASE \E status \in {"provisioning", "assigned"} : \E target : Adds(p, status, target)
  BY <1>3 DEF Adds, OthersAs, Rows
<1>4. CASE \E i, status, target : Becomes(i, status, target)
                                   /\ (status = "available" => rows[i].status = "available")
  BY <1>4 DEF Becomes, OthersAs, Rows
<1>5. CASE /\ At(p, "assign") /\ op[p].kind = "refill"
           /\ Becomes(op[p].id, "available", rows[op[p].id].target)
  BY <1>5 DEF Becomes, OthersAs, Rows
<1> QED
  BY <1>1, <1>2, <1>3, <1>4, <1>5, RowsActed DEF RowActs

LEMMA AvailableFinite ==
  /\ IsFiniteSet(Rows("available")) /\ Cardinality(Rows("available")) \in Nat
  /\ Rows("available") \subseteq Ids
<1>1. IsFiniteSet(Ids) /\ Rows("available") \subseteq Ids
  BY FS_Interval, DomainsAssumption DEF Ids, Rows
<1> QED
  BY <1>1, FS_Subset, FS_CardinalityType

LEMMA PoolKept == ASSUME AInv, [Next]_vars PROVE PoolFilled'
<1> DEFINE A == Rows("available")
           size == Cardinality(A)
<1>0. IsFiniteSet(A) /\ IsFiniteSet(A') /\ size \in Nat /\ size' \in Nat
  <2>1. IsFiniteSet(Ids) /\ A' \subseteq Ids
    BY FS_Interval, DomainsAssumption DEF Ids, Rows
  <2>2. IsFiniteSet(A') /\ size' \in Nat
    BY <2>1, FS_Subset, FS_CardinalityType
  <2> QED
    BY <2>2, AvailableFinite
<1>1. Cron \in Processes /\ ShapeAt(Cron) /\ PoolSize \in Nat /\ size + Demand <= PoolSize
      /\ Demand \in 0 .. PoolSize /\ op[Cron].need \in 0 .. PoolSize
  <2>1. Cron \in Processes
    BY DEF Processes
  <2> QED
    BY <2>1, Numbers, SMT DEF AInv, PoolFilled, Demand, ShapeAt
<1>2. /\ A' \subseteq A => size' <= size
      /\ \A i : A' \subseteq A \cup {i} => size' <= size + 1
  <2>1. A' \subseteq A => size' <= size
    BY <1>0, FS_Subset
  <2>2. ASSUME NEW i, A' \subseteq A \cup {i}
        PROVE  size' <= size + 1
    <3>1. IsFiniteSet(A \cup {i}) /\ Cardinality(A \cup {i}) \in {size, size + 1}
      BY <1>0, FS_AddElement
    <3>2. size' <= Cardinality(A \cup {i})
      BY <2>2, <3>1, FS_Subset
    <3> QED
      BY <1>0, <3>1, <3>2, SMT
  <2> QED
    BY <2>1, <2>2
<1> HIDE DEF A, size
<1>3. ASSUME size' <= size, Demand' \in 0 .. Demand
      PROVE  size' + Demand' <= PoolSize
  <2>1. \A a, b, c, d \in Nat : a + b <= PoolSize /\ c <= a /\ d \in 0 .. b => c + d <= PoolSize
    BY <1>1, SMT
  <2>2. Demand \in Nat /\ Demand' \in Nat /\ size + Demand <= PoolSize
    BY <1>1, <1>3, SMT
  <2> QED
    BY <1>0, <1>3, <2>1, <2>2
<1>4. CASE UNCHANGED <<rows, op>>
  <2>1. A' = A /\ Demand' = Demand
    BY <1>4 DEF A, Rows, Demand
  <2> QED
    BY <1>1, <2>1 DEF size, A, PoolFilled
<1>5. CASE SameRows /\ \A p \in Processes : op'[p] = Idle
  <2>1. A' = A /\ Demand' = 0
    <3>1. Idle.pc = "idle"
      BY SMT DEF Idle
    <3> QED
      BY <1>1, <1>5, <3>1 DEF A, Rows, Demand, PoolPath, SameRows
  <2> QED
    BY <1>0, <1>1, <2>1, SMT DEF size, A, PoolFilled
<1>6. ASSUME NEW p \in Processes, p # Cron, Acts(p), Others(p)
      PROVE  PoolFilled'
  <2>1. Demand' = Demand
    BY <1>1, <1>6 DEF Others, Demand
  <2>2. op[p].kind # "refill"
    BY <1>6, Numbers DEF ShapeAt
  <2>3. A' \subseteq A
    BY <1>6, <2>2, AvailableActs DEF A
  <2> QED
    BY <1>0, <1>1, <1>2, <2>1, <2>3, SMT DEF size, A, PoolFilled
<1>7. ASSUME Step(Cron) \/ CallFails(Cron)
      PROVE  PoolFilled'
  <2>1. CASE op'[Cron].pc \in PoolPath /\ At(Cron, "count")
    <3>1. op'[Cron].need = PoolSize - Counted /\ SameRows
      BY <1>1, <1>7, <2>1, DemandStep DEF At, PoolPath
    <3>2. A' = A /\ Demand' = PoolSize - size
      BY <2>1, <3>1 DEF A, Rows, Demand, size, Counted, SameRows
    <3> QED
      BY <1>0, <1>1, <3>2, SMT DEF size, A, PoolFilled
  <2>2. CASE At(Cron, "assign") /\ op[Cron].kind = "refill"
    <3>1. op[Cron].pc \in PoolPath /\ op[Cron].need > 0 /\ Demand = op[Cron].need
      BY <1>1, <2>2, SMT DEF At, PoolPath, ShapeAt, Demand
    <3>2. Demand' = 0 \/ Demand' = op[Cron].need - 1
      BY <1>1, <1>7, <2>2, DemandStep DEF Demand, At
    <3>3. size' <= size + 1
      BY <1>1, <1>2, <1>7, AvailableActs, StepActs DEF A
    <3>4. size' + Demand' <= PoolSize
      BY <1>0, <1>1, <3>1, <3>2, <3>3, SMT
    <3> QED
      BY <3>4 DEF size, A, PoolFilled
  <2>3. CASE /\ ~(op'[Cron].pc \in PoolPath /\ At(Cron, "count"))
             /\ ~(At(Cron, "assign") /\ op[Cron].kind = "refill")
    <3>1. Demand' \in 0 .. Demand
      <4>1. \/ op'[Cron].pc \notin PoolPath
            \/ op[Cron].pc \in PoolPath /\ op'[Cron].need = op[Cron].need
            \/ op[Cron].pc \in PoolPath /\ op'[Cron].need = op[Cron].need - 1
        BY <1>1, <1>7, <2>3, DemandStep
      <4>2. op'[Cron].need \in 0 .. PoolSize
        BY <1>1, <1>7, StepShape DEF ShapeAt
      <4> QED
        BY <1>1, <4>1, <4>2, SMT DEF Demand
    <3>2. A' \subseteq A
      BY <1>1, <1>7, <2>3, AvailableActs, StepActs DEF A
    <3> QED
      BY <1>2, <1>3, <3>1, <3>2 DEF size, A, PoolFilled
  <2> QED
    BY <2>1, <2>2, <2>3
<1>8. CASE BeginRefill
  <2>1. Turns(Cron, "refill", "stuck", NoTarget, NoName, 0, 0, {}, 0) /\ SameRows
    BY <1>1, <1>8, Numbers, FreshEdits DEF BeginRefill, SameRows
  <2>2. A' = A /\ Demand' = 0
    BY <2>1 DEF A, Rows, Demand, PoolPath, SameRows, Turns
  <2> QED
    BY <1>0, <1>1, <2>2, SMT DEF size, A, PoolFilled
<1>9. CASE Request
  <2>1. PICK p \in Calls : UNCHANGED rows /\ \E new : Set(p, new)
    BY <1>9, Zenon DEF Request, BeginFirst, BeginClaim, BeginRemove
  <2>2. p # Cron /\ p \in Processes
    BY DomainsAssumption DEF Processes
  <2>3. op'[Cron] = op[Cron]
    BY <1>1, <2>1, <2>2, Numbers, SMT DEF Set
  <2>4. A' = A /\ Demand' = Demand
    BY <2>1, <2>3 DEF A, Rows, Demand
  <2> QED
    BY <1>1, <2>4 DEF size, A, PoolFilled
<1>10. ASSUME NEW p \in Processes, Step(p) \/ CallFails(p)
       PROVE  PoolFilled'
  BY <1>6, <1>7, <1>10, StepActs, StepShape
<1>11. CASE Crash
  BY <1>5, <1>11 DEF Crash, SameRows
<1> QED
  BY <1>4, <1>8, <1>9, <1>10, <1>11 DEF Next, vars

-----------------------------------------------------------------------------
LEMMA AddressInit == ASSUME Init PROVE AInv
<1>. /\ inserted = 0 /\ rows = [i \in Ids |-> NoRow] /\ op = [p \in Processes |-> Idle]
     /\ Cron \in Processes
  BY DEF Init, Processes
<1>1. \A p \in Processes : /\ op[p].pc = "idle" /\ op[p].kind = "none" /\ op[p].tries = 0
                           /\ op[p].need = 0 /\ op[p].previous = {}
  BY SMT DEF Idle
<1>2. \A i \in Ids : rows[i] = NoRow
  OBVIOUS
<1>3. Shape
  BY <1>1, DomainsAssumption, SMT DEF Shape, ShapeAt, PoolPath, Listing
<1>4. RowShape
  BY <1>2, NoRowFields, DomainsAssumption DEF RowShape
<1>5. PoolFilled
  <2>1. Rows("available") = {}
    BY <1>2, NoRowFields DEF Rows
  <2>2. Cardinality(Rows("available")) = 0
    BY <2>1, FS_EmptySet
  <2> QED
    BY <1>1, <2>2, DomainsAssumption, SMT DEF PoolFilled, Demand, PoolPath
<1>6. Named /\ OwnPrevious
  BY <1>1 DEF Named, OwnPrevious, Makes
<1>7. TargetShape
  BY DEF Init, TargetShape
<1>8. /\ begun \in 0 .. MaxCalls /\ faults \in 0 .. MaxFaults
      /\ apps \subseteq Targets /\ blind \subseteq Processes
  BY DomainsAssumption, SMT DEF Init
<1> QED
  BY <1>3, <1>4, <1>5, <1>6, <1>7, <1>8, InitHolds DEF AInv

LEMMA AddressNext == ASSUME AInv, [Next]_vars PROVE AInv'
<1>1. IInv'
  BY NextKeeps DEF AInv
<1> QED
  BY <1>1, StepEffects, ShapeKept, RowsKept, NamedKept, PreviousKept, TargetsKept, PoolKept,
     CountersStep DEF AInv

\* What requests know of rows and of each other, at every stage: they make rows that
\* nobody else makes, want to release rows that are gone or their target's, and fill the
\* pool up to its size.
THEOREM RequestsAgree == Spec => []AInv
<1>1. Init => AInv
  BY AddressInit
<1>2. AInv /\ [Next]_vars => AInv'
  BY AddressNext
<1> QED
  BY <1>1, <1>2, PTL DEF Spec

\* Every variable of the domain model has its type, and the pool is never overfilled.
THEOREM DomainsTyped == Spec => []TypeOK
<1>1. AInv => TypeOK
  <2>. SUFFICES ASSUME AInv PROVE TypeOK
    OBVIOUS
  <2>1. op \in [Processes -> Op]
    <3>1. ASSUME NEW p \in Processes
          PROVE  op[p] \in Op
      <4>1. op[p] \in LooseOp /\ op[p].tries \in 0 .. MaxTries /\ op[p].need \in 0 .. PoolSize
        BY OpTyped DEF AInv, Shape, ShapeAt
      <4> QED
        BY <4>1, Zenon DEF LooseOp, Op, Kinds
    <3>2. op \in [Processes -> LooseOp]
      BY DEF AInv, IInv, Types
    <3> QED
      BY <3>1, <3>2
  <2>2. Cardinality({i \in Ids : rows[i].status = "available"}) <= PoolSize
    <3>1. Cron \in Processes /\ Demand \in Nat
      BY Numbers, SMT DEF Processes, Demand, ShapeAt
    <3>2. Cardinality(Rows("available")) <= PoolSize
      BY <3>1, AvailableFinite, DomainsAssumption, SMT DEF AInv, PoolFilled
    <3> QED
      BY <3>2 DEF Rows
  <2> QED
    BY <2>1, <2>2 DEF TypeOK, AInv, IInv, Types, TargetShape
<1> QED
  BY <1>1, RequestsAgree, PTL

-----------------------------------------------------------------------------
\* Addresses are routed.

RoutedTo(i, t) == \E r \in routes : r.id = i /\ r.name = rows[i].name /\ r.target = t

\* A request is about to route the address, or has unrouted it to delete it or its target.
InHand(p, i, t) ==
    /\ op[p].target = t
    /\ \/ op[p].pc = "route" /\ op[p].id = i /\ op[p].name = rows[i].name
       \/ op[p].pc = "unrouted" /\ Oldest(p).id = i
       \/ op[p].pc = "row"

Routed ==
    faults = 0 =>
        \A t \in Targets \ removed : \A i \in Addresses(t) :
            RoutedTo(i, t) \/ \E p \in Processes : InHand(p, i, t)

LEMMA OldestSame ==
  ASSUME NEW p, op'[p].previous = op[p].previous
  PROVE  Oldest(p)' = Oldest(p)
<1> DEFINE First(S) == CHOOSE old \in S : \A other \in S : old.id <= other.id
<1>1. Oldest(p) = First(op[p].previous)
  BY DEF Oldest
<1>2. Oldest(p)' = First(op'[p].previous)
  BY DEF Oldest
<1> HIDE DEF First
<1> QED
  BY <1>1, <1>2

\* Who assigns a row is about to route it.
LEMMA AssignedByActs ==
  ASSUME AInv, NEW p \in Processes, Acts(p), NEW i \in Ids, NEW t \in Targets,
         ~Assigned(i, t), Assigned(i, t)'
  PROVE  InHand(p, i, t)'
<1>. t # NoTarget
  BY DomainsAssumption
<1>1. ~SameRows
  BY DEF SameRows, Assigned
<1>2. ~\E j : Vanishes(j)
  BY NoRowFields DEF Vanishes, Assigned
<1>3. ~Adds(p, "provisioning", NoTarget)
  BY DEF Adds, OthersAs, Assigned
<1>4. ~(\E j : Becomes(j, "available", rows[j].target) \/ Becomes(j, rows[j].status, rows[j].target))
  BY DEF Becomes, OthersAs, Assigned
<1>5. \/ /\ Moves(p, "route", op[p].name, inserted', op[p].previous)
         /\ Adds(p, "assigned", op[p].target)
      \/ \E name \in Names :
            /\ Moves(p, "route", name, op[p].id, {})
            /\ Becomes(op[p].id, "assigned", op[p].target) /\ rows[op[p].id].name = name
  BY <1>1, <1>2, <1>3, <1>4, Zenon DEF Acts, EndStep, MakeStep, ClaimStep, ReleasesStep, PurgesStep
<1>6. CASE /\ Moves(p, "route", op[p].name, inserted', op[p].previous)
           /\ Adds(p, "assigned", op[p].target)
  <2>1. i = inserted' /\ rows'[i].name = op[p].name /\ t = op[p].target
    BY <1>6 DEF Adds, OthersAs, Assigned
  <2> QED
    BY <1>6, <2>1 DEF Moves, Turns, InHand
<1>7. ASSUME NEW name \in Names, Moves(p, "route", name, op[p].id, {}),
             Becomes(op[p].id, "assigned", op[p].target), rows[op[p].id].name = name
      PROVE  InHand(p, i, t)'
  <2>1. i = op[p].id /\ rows'[i].name = name /\ t = op[p].target
    BY <1>7 DEF Becomes, OthersAs, Assigned
  <2> QED
    BY <1>7, <2>1 DEF Moves, Turns, InHand
<1> QED
  BY <1>5, <1>6, <1>7

\* An address keeps its name.
LEMMA NamesLast ==
  ASSUME AInv, NEW p \in Processes, Acts(p), NEW i \in Ids, NEW t \in Targets,
         Assigned(i, t), Assigned(i, t)'
  PROVE  rows'[i].name = rows[i].name
<1>1. CASE \E status, target : Adds(p, status, target)
  <2>1. ~(i > inserted) /\ inserted \in Nat /\ i \in Nat
    BY NoRowFields, SMT DEF AInv, RowShape, Assigned, IInv, Types, Ids
  <2>2. i # inserted'
    BY <1>1, <2>1, SMT DEF Adds
  <2> QED
    BY <1>1, <2>2 DEF Adds, OthersAs
<1>2. CASE \E j : Vanishes(j)
  BY <1>2, NoRowFields DEF Vanishes, Assigned
<1>3. CASE \E j, status, target : Becomes(j, status, target)
  BY <1>3 DEF Becomes, OthersAs
<1>4. CASE SameRows
  BY <1>4 DEF SameRows
<1> QED
  BY <1>1, <1>2, <1>3, <1>4, RowsActed DEF RowActs

\* Steps that take routes away: those of a target being removed, and one that a request unroutes.
LEMMA RoutesActed ==
  ASSUME AInv, NEW p \in Processes, Acts(p), NEW r \in routes
  PROVE  \/ r \in routes'
         \/ r.target = op[p].target /\ Stays(p, "row", {})
         \/ r.id = Oldest(p).id /\ At(p, "release") /\ Stays(p, "unrouted", op[p].previous)
<1>1. CASE EndStep(p)
  BY <1>1 DEF EndStep, SameTargets
<1>2. CASE ReleasesStep(p)
  BY <1>2 DEF ReleasesStep, SameTargets, Unrouted
<1>3. CASE ClaimStep(p)
  BY <1>3 DEF ClaimStep, SameTargets
<1> QED
  BY <1>1, <1>2, <1>3 DEF Acts, MakeStep, PurgesStep, SameTargets

LEMMA RemovedStays == ASSUME AInv, NEW p \in Processes, Acts(p) PROVE removed \subseteq removed'
  BY DEF Acts, EndStep, MakeStep, ClaimStep, ReleasesStep, PurgesStep, SameTargets

LEMMA RoutedKept == ASSUME AInv, Effects, Routed PROVE Routed'
<1>1. ASSUME NEW p \in Processes, Acts(p), Others(p), Completes(p), faults' = 0,
             NEW t \in Targets \ removed', NEW i \in Addresses(t)'
      PROVE  RoutedTo(i, t)' \/ \E q \in Processes : InHand(q, i, t)'
  <2>1. i \in Ids /\ Assigned(i, t)' /\ t \in Targets \ removed /\ rows'[i] # NoRow
    BY <1>1, RemovedStays, NoRowFields DEF Addresses, Assigned
  <2>2. CASE ~Assigned(i, t)
    BY <1>1, <2>1, <2>2, AssignedByActs
  <2>3. CASE Assigned(i, t)
    <3>1. rows'[i].name = rows[i].name
      BY <1>1, <2>1, <2>3, NamesLast
    <3>2. RoutedTo(i, t) \/ \E q \in Processes : InHand(q, i, t)
      BY <1>1, <2>1, <2>3 DEF Effects, Routed, Addresses
    <3>3. ASSUME NEW r \in routes, r.id = i, r.name = rows[i].name, r.target = t
          PROVE  RoutedTo(i, t)' \/ \E q \in Processes : InHand(q, i, t)'
      <4>1. CASE r \in routes'
        BY <3>1, <3>3, <4>1 DEF RoutedTo
      <4>2. CASE r.target = op[p].target /\ Stays(p, "row", {})
        BY <3>3, <4>2 DEF Stays, Moves, Turns, InHand
      <4>3. CASE r.id = Oldest(p).id /\ At(p, "release") /\ Stays(p, "unrouted", op[p].previous)
        <5>1. Oldest(p) \in op[p].previous
          BY <4>3, Numbers, OldestFirst DEF ShapeAt, At
        <5>2. Assigned(i, op[p].target)
          BY <2>3, <3>3, <4>3, <5>1, NoRowFields DEF AInv, OwnPrevious, At, Assigned
        <5>3. t = op[p].target
          BY <2>3, <5>2 DEF Assigned
        <5>4. Oldest(p)' = Oldest(p)
          BY <4>3, OldestSame DEF Stays, Moves, Turns
        <5>5. InHand(p, i, t)'
          BY <3>3, <4>3, <5>3, <5>4 DEF Stays, Moves, Turns, InHand
        <5> QED
          BY <5>5
      <4> QED
        BY <1>1, <4>1, <4>2, <4>3, RoutesActed
    <3>4. ASSUME NEW q \in Processes, q # p, InHand(q, i, t)
          PROVE  InHand(q, i, t)'
      <4>1. op'[q] = op[q] /\ Oldest(q)' = Oldest(q)
        BY <1>1, <3>4, OldestSame DEF Others
      <4> QED
        BY <3>1, <3>4, <4>1 DEF InHand
    <3>5. ASSUME InHand(p, i, t)
          PROVE  RoutedTo(i, t)'
      <4>1. ~At(p, "unrouted") /\ ~At(p, "row")
        BY <1>1, <2>1, <3>5 DEF Completes, InHand, At, Vanishes
      <4>2. At(p, "route") /\ op[p].target = t /\ op[p].id = i /\ op[p].name = rows[i].name
        BY <3>5, <4>1 DEF InHand, At
      <4> QED
        BY <1>1, <3>1, <4>2 DEF Completes, RoutedTo
    <3> QED
      BY <3>2, <3>3, <3>4, <3>5 DEF RoutedTo
  <2> QED
    BY <2>2, <2>3
<1>2. CASE UNCHANGED vars
  <2>1. \A q : Oldest(q)' = Oldest(q)
    BY <1>2, OldestSame DEF vars
  <2> QED
    BY <1>2, <2>1 DEF vars, Routed, RoutedTo, InHand, Addresses, Assigned
<1> QED
  BY <1>1, <1>2 DEF Effects, Routed

\* Once the requests for a target have ended without a failing call, each of its addresses
\* is routed to it: whoever assigns a row routes it next, and a route goes only with the row
\* of its address or with its target.
THEOREM AddressRoutedHolds == Spec => []AddressRouted
<1>1. Init => AInv /\ Routed
  <2>1. Init => Routed
    <3>1. Init => \A t \in Targets : Addresses(t) = {}
      BY NoRowFields DEF Init, Addresses, Assigned
    <3> QED
      BY <3>1 DEF Routed
  <2> QED
    BY <2>1, AddressInit
<1>2. AInv /\ Routed /\ [Next]_vars => (AInv /\ Routed)'
  BY AddressNext, StepEffects, RoutedKept
<1>3. AInv /\ Routed => AddressRouted
  <2>. SUFFICES ASSUME AInv, Routed, faults = 0, NEW t \in live, ~Handled(t), NEW i \in Addresses(t)
                PROVE  \E r \in routes : r.name = rows[i].name /\ r.target = t
    BY DEF AddressRouted
  <2>1. t \in Targets \ removed
    BY DEF AInv, TargetShape
  <2>2. ~\E p \in Processes : InHand(p, i, t)
    BY DEF Handled, InHand
  <2> QED
    BY <2>1, <2>2 DEF Routed, RoutedTo
<1> QED
  BY <1>1, <1>2, <1>3, PTL DEF Spec

-----------------------------------------------------------------------------
\* Claims leave an address.

\* Requests that give a target an address and then release its old ones, and those that
\* release all it has.
Claimer(q) == op[q].pc \in Routing /\ op[q].kind # "remove"
Remover(q) == op[q].pc \in {"release", "unrouted"} /\ op[q].kind = "remove"

\* The rows that the refill is about to purge.
Purged == IF At(Cron, "purge") THEN IdsOf(Cron) ELSE {}

\* What a claim releases is older than what it made.
Order == \A q \in Processes : Claimer(q) => \A i \in IdsOf(q) : i < op[q].id

\* As long as a claim has an address to release, there is one that it made or a later one.
Kept ==
    \A q \in Processes : Claimer(q) =>
        \A i \in IdsOf(q) : Assigned(i, op[q].target) =>
            \E j \in Ids : Assigned(j, op[q].target) /\ op[q].id <= j /\ j \notin Purged

\* A removal that releases what a claim made releases first what that claim releases.
OldFirst ==
    \A q, r \in Processes : Claimer(q) /\ Remover(r) /\ op[q].target = op[r].target =>
        \A k \in IdsOf(r), i \in IdsOf(q) :
            op[q].id <= k /\ Assigned(i, op[q].target) => i \in IdsOf(r)

KInv == AInv /\ Order /\ Kept /\ OldFirst

\* The IDs that a request lists are of rows once inserted, unassigned only if they are gone.
LEMMA Listed ==
  ASSUME AInv, NEW q \in Processes, NEW i \in IdsOf(q)
  PROVE  /\ i \in 1 .. inserted /\ i \in Ids /\ i \in Nat /\ inserted \in Nat
         /\ op[q].pc # "purge" => rows[i] = NoRow \/ Assigned(i, op[q].target)
<1>1. PICK old \in op[q].previous : i = old.id
  BY DEF IdsOf
<1>2. i \in 1 .. inserted /\ (op[q].pc # "purge" => rows[i] = NoRow \/ Assigned(i, op[q].target))
  BY <1>1 DEF AInv, OwnPrevious
<1>3. inserted \in 0 .. MaxRows /\ MaxRows \in Nat
  BY Numbers
<1> QED
  BY <1>2, <1>3, SMT DEF Ids

\* Who deletes a row that is assigned.
LEMMA VanishedBy ==
  ASSUME AInv, NEW p \in Processes, Acts(p), NEW i \in Ids, NEW t \in Targets,
         Assigned(i, t), ~Assigned(i, t)'
  PROVE  /\ Vanishes(i)
         /\ \/ p = Cron /\ At(Cron, "purge") /\ i \in Purged
            \/ /\ At(p, "unrouted") /\ i = Oldest(p).id /\ op[p].target = t
               /\ Oldest(p) \in op[p].previous /\ (Claimer(p) \/ Remover(p))
<1>. t # NoTarget /\ ShapeAt(p) /\ op[p].previous \in SUBSET Copy
  BY DomainsAssumption, Numbers
<1>1. ~SameRows
  BY DEF SameRows, Assigned
<1>2. ~\E status, target : Adds(p, status, target)
  <2>1. ASSUME NEW status, NEW target, Adds(p, status, target)
        PROVE  FALSE
    <3>1. ~(i > inserted) /\ inserted \in Nat /\ i \in Nat
      BY NoRowFields, SMT DEF AInv, RowShape, Assigned, IInv, Types, Ids
    <3>2. i # inserted'
      BY <2>1, <3>1, SMT DEF Adds
    <3> QED
      BY <2>1, <3>2 DEF Adds, OthersAs, Assigned
  <2> QED
    BY <2>1
<1>3. ASSUME NEW j, NEW status, NEW target, Becomes(j, status, target)
      PROVE  j = i /\ ~(status = "assigned" /\ target = t)
  BY <1>3 DEF Becomes, OthersAs, Assigned
<1>4. Makes(p) => op[p].id # i
  BY DEF AInv, IInv, Making, Assigned
<1>5. CASE At(p, "point") /\ Vanishes(op[p].id)
  BY <1>4, <1>5 DEF Vanishes, Assigned, Makes, At
<1>6. ASSUME NEW old \in op[p].previous, At(p, "purge"), Vanishes(old.id)
      PROVE  Vanishes(i) /\ p = Cron /\ At(Cron, "purge") /\ i \in Purged
  <2>1. i = old.id /\ p = Cron
    BY <1>6 DEF Vanishes, Assigned, ShapeAt, At
  <2> QED
    BY <1>6, <2>1 DEF Purged, IdsOf
<1>7. CASE At(p, "unrouted") /\ Vanishes(Oldest(p).id)
  <2>1. i = Oldest(p).id
    BY <1>7 DEF Vanishes, Assigned
  <2>2. Oldest(p) \in op[p].previous
    BY <1>7, OldestFirst DEF ShapeAt, At
  <2>3. op[p].target = t
    BY <1>7, <2>1, <2>2, NoRowFields DEF AInv, OwnPrevious, At, Assigned
  <2> QED
    BY <1>7, <2>1, <2>2, <2>3 DEF Claimer, Remover, Routing, At
<1>8. ~(op[p].kind = "first" /\ Becomes(op[p].id, "assigned", op[p].target)
        /\ (At(p, "assign") \/ (At(p, "take") /\ rows[op[p].id].status = "available")))
  BY <1>3, <1>4 DEF Assigned, Makes, At
<1>9. ~(At(p, "assign") /\ Becomes(op[p].id, "available", rows[op[p].id].target))
  BY <1>3, <1>4 DEF Makes, At
<1>10. ~Becomes(op[p].id, rows[op[p].id].status, rows[op[p].id].target)
  BY <1>3 DEF Assigned
<1>11. CASE MakeStep(p) \/ ClaimStep(p)
  BY <1>1, <1>2, <1>8, <1>9, <1>10, <1>11 DEF MakeStep, ClaimStep
<1>12. CASE EndStep(p) \/ ReleasesStep(p) \/ PurgesStep(p)
  BY <1>1, <1>5, <1>6, <1>7, <1>12 DEF EndStep, ReleasesStep, PurgesStep
<1> QED
  BY <1>11, <1>12 DEF Acts

\* The refill comes to purge only rows that nobody was assigned.
LEMMA PurgedActs ==
  ASSUME AInv, NEW p \in Processes, Acts(p), Others(p), NEW i \in Purged'
  PROVE  i \in Purged \/ rows[i].status = "provisioning"
<1>1. Cron \in Processes
  BY DEF Processes
<1>2. op'[Cron].pc = "purge" /\ i \in {old.id : old \in op'[Cron].previous}
  BY DEF Purged, At, IdsOf
<1>3. CASE p # Cron
  BY <1>1, <1>2, <1>3 DEF Others, Purged, At, IdsOf
<1>4. CASE p = Cron
  <2>1. PurgesStep(Cron)
    BY <1>2, <1>4 DEF Acts, EndStep, MakeStep, ClaimStep, ReleasesStep, Rests, Stays, Moves, Turns
  <2>2. \/ op'[Cron].previous = {CopyOf(k) : k \in Rows("provisioning")}
        \/ At(Cron, "purge") /\ op'[Cron].previous \subseteq op[Cron].previous
    BY <2>1 DEF PurgesStep, Stays, Moves, Turns
  <2>3. CASE op'[Cron].previous = {CopyOf(k) : k \in Rows("provisioning")}
    <3>1. PICK k \in Rows("provisioning") : i = CopyOf(k).id
      BY <1>2, <2>3
    <3> QED
      BY <3>1 DEF CopyOf, Rows
  <2> QED
    BY <1>2, <2>2, <2>3 DEF Purged, IdsOf
<1> QED
  BY <1>3, <1>4

\* How a request comes to release rows after a claim, or goes on with it.
LEMMA ClaimerActs ==
  ASSUME AInv, NEW p \in Processes, Acts(p), Claimer(p)'
  PROVE  \/ IdsOf(p)' = {}
         \/ /\ Claimer(p) /\ op'[p].previous \subseteq op[p].previous
            /\ op'[p].id = op[p].id /\ op'[p].target = op[p].target
         \/ /\ At(p, "claim") /\ Moves(p, "route", op[p].name, inserted', op[p].previous)
            /\ Adds(p, "assigned", op[p].target) /\ op[p].target \in Targets
<1>. ShapeAt(p) /\ op'[p].pc \in Routing /\ op'[p].kind # "remove" /\ Rest(p) \subseteq op[p].previous
  BY Numbers DEF Claimer, Rest
<1>0. op'[p].previous = {} => IdsOf(p)' = {}
  BY DEF IdsOf
<1>1. CASE EndStep(p)
  BY <1>0, <1>1 DEF EndStep, Rests
<1>2. CASE MakeStep(p)
  BY <1>0, <1>2 DEF MakeStep, Rests, Stays, Moves, Turns, Routing
<1>3. CASE ClaimStep(p)
  <2>1. At(p, "claim") => op[p].target \in Targets
    BY DEF ShapeAt, At, Listing
  <2>2. op[p].pc \in {"route", "save"} /\ op'[p].kind = op[p].kind => Claimer(p)
    BY DEF Claimer, Routing
  <2>3. \/ Rests(p)
        \/ At(p, "claim") /\ Moves(p, "route", op[p].name, inserted', op[p].previous)
           /\ Adds(p, "assigned", op[p].target)
        \/ /\ op[p].pc \in {"route", "save"}
           /\ \E s : Stays(p, s, op[p].previous)
    BY <1>3 DEF ClaimStep, Stays, Moves, Turns, Routing, At
  <2> QED
    BY <2>1, <2>2, <2>3, <1>0 DEF Rests, Stays, Moves, Turns
<1>4. CASE ReleasesStep(p)
  <2>1. ~At(p, "domains") \/ op'[p].kind # op[p].kind
    BY DEF ShapeAt, At
  <2>2. op[p].pc \in {"release", "unrouted"} /\ op'[p].kind = op[p].kind => Claimer(p)
    BY DEF Claimer, Routing
  <2>3. \/ Rests(p)
        \/ /\ op[p].pc \in {"release", "unrouted"}
           /\ \E s, old : Stays(p, s, old) /\ old \subseteq op[p].previous
    BY <1>4, <2>1 DEF ReleasesStep, Stays, Moves, Turns, At
  <2> QED
    BY <1>0, <2>2, <2>3 DEF Rests, Stays, Moves, Turns
<1>5. CASE PurgesStep(p)
  BY <1>5 DEF PurgesStep, Stays, Moves, Turns, Routing
<1> QED
  BY <1>1, <1>2, <1>3, <1>4, <1>5 DEF Acts

\* A removal lists all addresses, and drops one from its list only when it deletes it.
LEMMA RemoverActs ==
  ASSUME AInv, NEW p \in Processes, Acts(p), Remover(p)'
  PROVE  /\ op'[p].target = op[p].target
         /\ \/ op'[p].previous = {CopyOf(i) : i \in Owned(op[p].target)} /\ SameRows
            \/ Remover(p) /\ op'[p].previous = op[p].previous /\ SameRows
            \/ Remover(p) /\ op'[p].previous = Rest(p) /\ Vanishes(Oldest(p).id)
<1>. op'[p].pc \in {"release", "unrouted"} /\ op'[p].kind = "remove" /\ ShapeAt(p)
  BY Numbers DEF Remover
<1>0. ~Rests(p)
  BY DEF Rests, Routing
<1>1. CASE ReleasesStep(p)
  BY <1>0, <1>1 DEF ReleasesStep, Stays, Moves, Turns, Remover, At
<1>2. CASE MakeStep(p)
  BY <1>0, <1>2 DEF MakeStep, Stays, Moves, Turns
<1>3. CASE ClaimStep(p)
  <2>1. At(p, "save") => op[p].kind # "remove"
    BY DEF ShapeAt, At
  <2> QED
    BY <1>0, <1>3, <2>1 DEF ClaimStep, Stays, Moves, Turns
<1>4. CASE PurgesStep(p)
  BY <1>4 DEF PurgesStep, Stays, Moves, Turns
<1> QED
  BY <1>0, <1>1, <1>2, <1>3, <1>4 DEF Acts, EndStep

\* What a claim releases next and still is an address was one before.
LEMMA WasAssigned ==
  ASSUME AInv, Effects, NEW q \in Processes, op[q].pc # "purge", NEW i \in IdsOf(q),
         rows'[i].status = "assigned"
  PROVE  Assigned(i, op[q].target)
BY Listed, RowsLast, NoRowFields DEF Assigned

LEMMA OrderKept == ASSUME AInv, Effects, Order PROVE Order'
<1>1. ASSUME NEW p \in Processes, Acts(p), Others(p), NEW q \in Processes, Claimer(q)',
             NEW i \in IdsOf(q)'
      PROVE  i < op'[q].id
  <2>1. CASE q # p
    BY <1>1, <2>1 DEF Others, Order, Claimer, IdsOf
  <2>2. CASE q = p /\ Claimer(p) /\ op'[p].previous \subseteq op[p].previous /\ op'[p].id = op[p].id
    BY <1>1, <2>2 DEF Order, IdsOf
  <2>3. CASE q = p /\ Moves(p, "route", op[p].name, inserted', op[p].previous)
             /\ Adds(p, "assigned", op[p].target)
    <3>1. i \in IdsOf(p) /\ op'[p].id = inserted + 1
      BY <1>1, <2>3 DEF IdsOf, Moves, Turns, Adds
    <3> QED
      BY <2>3, <3>1, Listed, SMT
  <2> QED
    BY <1>1, <2>1, <2>2, <2>3, ClaimerActs
<1>2. CASE \A p \in Processes : op'[p] = Idle
  <2>1. Idle.pc = "idle"
    BY SMT DEF Idle
  <2> QED
    BY <1>2, <2>1 DEF Order, Claimer, Routing
<1>3. CASE UNCHANGED vars
  BY <1>3 DEF vars, Order, Claimer, IdsOf
<1> QED
  BY <1>1, <1>2, <1>3 DEF Effects, Order

\* The address that outlives what a claim releases is not deleted before that.
LEMMA OneOutlives ==
  ASSUME KInv, NEW p \in Processes, Acts(p), Others(p), Effects,
         NEW q \in Processes, Claimer(q), NEW i \in IdsOf(q),
         NEW t, t = op[q].target, Assigned(i, t)'
  PROVE  \E j \in Ids : Assigned(j, t)' /\ op[q].id <= j /\ j \notin Purged'
<1>. KInv /\ AInv
  BY DEF KInv
<1>1. /\ Assigned(i, t) /\ t \in Targets /\ i \in Nat /\ op[q].id \in Nat /\ i < op[q].id
  <2>1. op[q].pc # "purge" /\ op[q].kind \in {"first", "claim"}
    BY Numbers DEF Claimer, Routing, ShapeAt
  <2>2. t \in Targets
    BY <2>1, Numbers DEF ShapeAt
  <2>3. op[q].id \in Nat
    BY Numbers, OpTyped, SMT DEF AInv
  <2> QED
    BY <2>1, <2>2, <2>3, WasAssigned, Listed DEF KInv, Order, Assigned
<1>2. PICK j \in Ids : Assigned(j, t) /\ op[q].id <= j /\ j \notin Purged
  BY <1>1 DEF KInv, Kept
<1>. j \in Nat
  BY SMT DEF Ids
<1>3. ASSUME NEW k \in Ids, Assigned(k, t), k \notin Purged
      PROVE  k \notin Purged'
  BY <1>3, PurgedActs DEF Assigned
<1>4. CASE Assigned(j, t)'
  BY <1>2, <1>3, <1>4
<1>5. CASE ~Assigned(j, t)'
  <2>1. /\ Vanishes(j) /\ At(p, "unrouted") /\ j = Oldest(p).id /\ op[p].target = t
        /\ Oldest(p) \in op[p].previous /\ (Claimer(p) \/ Remover(p))
    BY <1>1, <1>2, <1>5, VanishedBy
  <2>2. j \in IdsOf(p)
    BY <2>1 DEF IdsOf
  <2>3. CASE Claimer(p)
    <3>1. j < op[p].id
      BY <2>2, <2>3 DEF KInv, Order
    <3>2. PICK k \in Ids : Assigned(k, t) /\ op[p].id <= k /\ k \notin Purged
      BY <1>2, <2>1, <2>2, <2>3 DEF KInv, Kept
    <3>3. op[q].id <= k /\ k # j
      <4>1. op[p].id \in Nat /\ k \in Nat
        BY Numbers, OpTyped, SMT DEF Ids, AInv
      <4> QED
        BY <1>1, <1>2, <3>1, <3>2, <4>1, SMT
    <3>4. Assigned(k, t)'
      BY <2>1, <3>2, <3>3 DEF Vanishes, Assigned
    <3> QED
      BY <1>3, <3>2, <3>3, <3>4
  <2>4. CASE Remover(p)
    <3>1. i \in IdsOf(p)
      BY <1>1, <1>2, <2>1, <2>2, <2>4 DEF KInv, OldFirst
    <3>2. j <= i
      BY <2>1, <3>1, Numbers, OldestFirst DEF IdsOf
    <3> QED
      BY <1>1, <1>2, <3>2, SMT
  <2> QED
    BY <2>1, <2>3, <2>4
<1> QED
  BY <1>4, <1>5

LEMMA KeptKept == ASSUME KInv, Effects PROVE Kept'
<1>. AInv
  BY DEF KInv
<1>1. ASSUME NEW p \in Processes, Acts(p), Others(p), NEW q \in Processes, Claimer(q)',
             NEW i \in IdsOf(q)', Assigned(i, op[q].target)'
      PROVE  \E j \in Ids : Assigned(j, op[q].target)' /\ op'[q].id <= j /\ j \notin Purged'
  <2>1. CASE /\ Claimer(q) /\ op'[q].previous \subseteq op[q].previous
             /\ op'[q].id = op[q].id /\ op'[q].target = op[q].target
    <3>1. i \in IdsOf(q) /\ rows'[i].status = "assigned" /\ rows'[i].target = op[q].target
      BY <1>1, <2>1 DEF IdsOf, Assigned
    <3>2. ASSUME NEW t, t = op[q].target
          PROVE  \E j \in Ids : Assigned(j, t)' /\ op[q].id <= j /\ j \notin Purged'
      BY <1>1, <2>1, <3>1, <3>2, OneOutlives DEF Assigned
    <3>3. \E t : t = op[q].target
      OBVIOUS
    <3> QED
      BY <2>1, <3>2, <3>3 DEF Assigned
  <2>2. CASE q # p
    BY <1>1, <2>1, <2>2 DEF Others, Claimer
  <2>3. CASE q = p /\ At(p, "claim") /\ Moves(p, "route", op[p].name, inserted', op[p].previous)
             /\ Adds(p, "assigned", op[p].target)
    <3>1. /\ inserted' \in Ids /\ inserted' = inserted + 1 /\ op'[p].id = inserted'
          /\ op'[p].target = op[p].target /\ inserted \in Nat
      BY <2>3, Numbers DEF Moves, Turns, Adds
    <3>2. rows'[inserted'].status = "assigned" /\ rows'[inserted'].target = op[p].target
      BY <2>3 DEF Adds
    <3>3. rows[inserted'] = NoRow
      BY <3>1, SMT DEF AInv, RowShape
    <3>4. inserted' \notin Purged
      <4>1. Cron \in Processes
        BY DEF Processes
      <4>2. \A k \in Purged : k \in 1 .. inserted
        BY <4>1, Listed DEF Purged
      <4> QED
        BY <3>1, <4>2, SMT
    <3>5. inserted' \notin Purged'
      BY <1>1, <3>3, <3>4, PurgedActs, NoRowFields
    <3> QED
      BY <2>3, <3>1, <3>2, <3>5, SMT DEF Assigned
  <2> QED
    BY <1>1, <2>1, <2>2, <2>3, ClaimerActs
<1>2. CASE \A p \in Processes : op'[p] = Idle
  <2>1. Idle.pc = "idle"
    BY SMT DEF Idle
  <2> QED
    BY <1>2, <2>1 DEF Kept, Claimer, Routing
<1>3. CASE UNCHANGED vars
  BY <1>3 DEF vars, KInv, Kept, Claimer, IdsOf, Assigned, Purged, At
<1> QED
  BY <1>1, <1>2, <1>3 DEF Effects, Kept

LEMMA OldFirstKept == ASSUME KInv, Effects PROVE OldFirst'
<1>. AInv
  BY DEF KInv
<1>1. ASSUME NEW p \in Processes, Acts(p), Others(p),
             NEW q \in Processes, NEW r \in Processes, Claimer(q)', Remover(r)',
             NEW t, t = op'[q].target, t = op'[r].target,
             NEW k \in IdsOf(r)', NEW i \in IdsOf(q)', op'[q].id <= k, Assigned(i, t)'
      PROVE  i \in IdsOf(r)'
  <2>0. q # r /\ rows'[i].status = "assigned" /\ rows'[i].target = t
    BY <1>1 DEF Claimer, Remover, Assigned
  <2>1. CASE q # p /\ r # p
    <3>1. /\ Claimer(q) /\ Remover(r) /\ t = op[q].target /\ t = op[r].target
          /\ k \in IdsOf(r) /\ i \in IdsOf(q) /\ op[q].id <= k /\ IdsOf(r)' = IdsOf(r)
      BY <1>1, <2>1 DEF Others, Claimer, Remover, IdsOf
    <3>2. Assigned(i, t)
      BY <1>1, <2>0, <3>1, WasAssigned DEF Claimer, Routing
    <3>3. i \in IdsOf(r)
      BY <3>1, <3>2, Zenon DEF KInv, OldFirst
    <3> QED
      BY <3>1, <3>3
  <2>2. CASE q = p
    <3>1. /\ Remover(r) /\ t = op[r].target /\ k \in IdsOf(r) /\ IdsOf(r)' = IdsOf(r)
      BY <1>1, <2>0, <2>2 DEF Others, Remover, IdsOf
    <3>2. CASE /\ Claimer(p) /\ op'[p].previous \subseteq op[p].previous
               /\ op'[p].id = op[p].id /\ op'[p].target = op[p].target
      <4>1. i \in IdsOf(q) /\ op[q].id <= k /\ t = op[q].target
        BY <1>1, <2>2, <3>2 DEF IdsOf
      <4>2. Assigned(i, t)
        BY <1>1, <2>0, <2>2, <3>2, <4>1, WasAssigned DEF Claimer, Routing
      <4>3. i \in IdsOf(r)
        BY <2>2, <3>1, <3>2, <4>1, <4>2, Zenon DEF KInv, OldFirst
      <4> QED
        BY <3>1, <4>3
    <3>3. CASE Moves(p, "route", op[p].name, inserted', op[p].previous)
               /\ Adds(p, "assigned", op[p].target)
      <4>1. op'[p].id = inserted + 1 /\ k \in 1 .. inserted /\ inserted \in Nat
        BY <3>1, <3>3, Listed DEF Moves, Turns, Adds
      <4> QED
        BY <1>1, <2>2, <4>1, SMT
    <3> QED
      BY <1>1, <2>2, <3>2, <3>3, ClaimerActs
  <2>3. CASE r = p
    <3>1. Claimer(q) /\ t = op[q].target /\ i \in IdsOf(q) /\ op[q].id <= k
      BY <1>1, <2>0, <2>3 DEF Others, Claimer, IdsOf
    <3>2. Assigned(i, t) /\ i \in Ids
      BY <1>1, <2>0, <3>1, WasAssigned, Listed DEF Claimer, Routing
    <3>3. t = op[p].target
      BY <1>1, <2>3, RemoverActs
    <3>4. CASE op'[p].previous = {CopyOf(j) : j \in Owned(op[p].target)}
      <4>1. i \in Owned(op[p].target)
        BY <3>2, <3>3, NoRowFields DEF Owned, Present, Assigned
      <4>2. CopyOf(i) \in op'[p].previous /\ CopyOf(i).id = i
        BY <3>4, <4>1, SMT DEF CopyOf
      <4> QED
        BY <2>3, <4>2 DEF IdsOf
    <3>5. ASSUME Remover(p), op'[p].previous \subseteq op[p].previous
          PROVE  i \in IdsOf(p)
      <4>1. k \in IdsOf(p)
        BY <1>1, <2>3, <3>5 DEF IdsOf
      <4> QED
        BY <3>1, <3>2, <3>3, <3>5, <4>1 DEF KInv, OldFirst
    <3>6. CASE Remover(p) /\ op'[p].previous = op[p].previous
      BY <2>3, <3>5, <3>6 DEF IdsOf
    <3>7. CASE Remover(p) /\ op'[p].previous = Rest(p) /\ Vanishes(Oldest(p).id)
      <4>1. PICK old \in op[p].previous : old.id = i
        BY <3>5, <3>7 DEF Rest, IdsOf
      <4>2. i # Oldest(p).id
        BY <2>0, <3>2, <3>7, NoRowFields DEF Vanishes
      <4>3. old \in op'[p].previous
        BY <3>7, <4>1, <4>2 DEF Rest
      <4> QED
        BY <2>3, <4>1, <4>3 DEF IdsOf
    <3> QED
      BY <1>1, <2>3, <3>4, <3>6, <3>7, RemoverActs
  <2> QED
    BY <2>1, <2>2, <2>3
<1>2. CASE \A p \in Processes : op'[p] = Idle
  <2>1. Idle.pc = "idle"
    BY SMT DEF Idle
  <2> QED
    BY <1>2, <2>1 DEF OldFirst, Claimer, Routing
<1>3. CASE UNCHANGED vars
  BY <1>3 DEF vars, KInv, OldFirst, Claimer, Remover, IdsOf, Assigned
<1>4. ASSUME NEW p \in Processes, Acts(p), Others(p)
      PROVE  OldFirst'
  <2>. SUFFICES ASSUME NEW q \in Processes, NEW r \in Processes, Claimer(q)', Remover(r)',
                       op'[q].target = op'[r].target,
                       NEW k \in IdsOf(r)', NEW i \in IdsOf(q)', op'[q].id <= k,
                       Assigned(i, op[q].target)'
                PROVE  i \in IdsOf(r)'
    BY DEF OldFirst
  <2>1. PICK t : t = op'[q].target
    OBVIOUS
  <2>2. Assigned(i, t)'
    BY <2>1 DEF Assigned
  <2> QED
    BY <1>1, <1>4, <2>1, <2>2
<1> QED
  BY <1>2, <1>3, <1>4 DEF Effects

\* The addresses that claims release, and those that outlive them.
THEOREM ClaimsAgree == Spec => []KInv
<1>1. Init => KInv
  <2>1. Init => \A p \in Processes : op[p].pc = "idle"
    BY SMT DEF Init, Idle
  <2> QED
    BY <2>1, AddressInit DEF KInv, Order, Kept, OldFirst, Claimer, Routing
<1>2. KInv /\ [Next]_vars => KInv'
  BY AddressNext, StepEffects, OrderKept, KeptKept, OldFirstKept DEF KInv
<1> QED
  BY <1>1, <1>2, PTL DEF Spec

\* No claim takes a target's last address: the row it deletes is older than the one it
\* made, and a later claim that deletes that one leaves its own.
THEOREM AddressKeptHolds == Spec => AddressKept
<1> DEFINE Keeps == \A t \in Targets :
             Addresses(t) # {} /\ ~Removing(t) /\ ~PurgeStuck(Cron) => Addresses(t)' # {}
<1>1. KInv /\ [Next]_vars => [Keeps]_vars
  <2>. SUFFICES ASSUME KInv, Next, NEW t \in Targets, NEW i \in Ids, Assigned(i, t),
                       ~Removing(t), ~PurgeStuck(Cron)
                PROVE  \E j \in Ids : Assigned(j, t)'
    BY DEF Addresses
  <2>. AInv
    BY DEF KInv
  <2>1. ASSUME NEW p \in Processes, Acts(p), ~Assigned(i, t)', ~(p = Cron /\ At(Cron, "purge"))
        PROVE  \E j \in Ids : Assigned(j, t)'
    <3>1. /\ Vanishes(i) /\ i = Oldest(p).id /\ op[p].target = t
          /\ Oldest(p) \in op[p].previous /\ (Claimer(p) \/ Remover(p))
      BY <2>1, VanishedBy
    <3>2. Claimer(p) /\ i \in IdsOf(p)
      BY <3>1 DEF Removing, Remover, IdsOf
    <3>3. PICK j \in Ids : Assigned(j, t) /\ op[p].id <= j
      BY <3>1, <3>2 DEF KInv, Kept
    <3>4. j # i
      <4>1. i < op[p].id /\ i \in Nat /\ j \in Nat /\ op[p].id \in Nat
        BY <3>2, Numbers, Listed, OpTyped, SMT DEF KInv, AInv, Order, Ids
      <4> QED
        BY <3>3, <4>1, SMT
    <3> QED
      BY <3>1, <3>3, <3>4 DEF Vanishes, Assigned
  <2>2. CASE UNCHANGED rows
    BY <2>2 DEF Assigned
  <2>3. ASSUME NEW p \in Processes, Step(p) \/ CallFails(p)
        PROVE  \E j \in Ids : Assigned(j, t)'
    <3>1. CASE p = Cron /\ At(Cron, "purge")
      <4>1. PurgeStuck(Cron)
        BY <2>3, <3>1, Zenon DEF Step, CallFails, At,
           ReadCandidate, TakeCandidate, NoFreeName, PickName, InsertProvisioning, CreateRecord,
           AssignName, ListStuck, CountAvailable, ListPrevious, CreateClaimRecord, InsertClaim,
           AddRoute, SaveRoute, ListDomains, ReleaseFails, RemoveRoute, DeleteRow, CreateApp,
           RemoveApp, DeleteTarget
      <4> QED
        BY <4>1
    <3>2. CASE ~(p = Cron /\ At(Cron, "purge"))
      BY <2>1, <2>2, <2>3, <3>2, StepActs
    <3> QED
      BY <3>1, <3>2
  <2>4. CASE BeginRefill \/ Request \/ Crash
    BY <2>2, <2>4, Zenon DEF BeginRefill, Request, BeginFirst, BeginClaim, BeginRemove, Crash
  <2> QED
    BY <2>3, <2>4 DEF Next
<1> QED
  BY <1>1, ClaimsAgree, PTL DEF Spec, AddressKept
=============================================================================

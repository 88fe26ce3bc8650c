--------------------------- MODULE DomainsProofs ---------------------------
(***************************************************************************)
(* A name given to one target is never given to another, for any number of *)
(* targets, names, requests, faults and rows.  The claim on the pool is    *)
(* conditional, but AssignName updates its row without a condition: what   *)
(* makes that safe is that no two requests make the same row, and that a   *)
(* row being made is not up for a claim.                                   *)
(***************************************************************************)
EXTENDS DomainsProperties, FiniteSetTheorems, TLAPS

Statuses == {"none", "provisioning", "available", "assigned"}

\* The types that the argument needs: what is counted may be any integer.
Kinds   == {"none", "first", "claim", "remove", "refill"}
LooseOp == [kind : Kinds, pc : Stages,
            target : Targets \cup {NoTarget}, name : Names \cup {NoName}, id : 0 .. MaxRows,
            tries : Int, previous : SUBSET Copy, need : Int]

Types ==
    /\ rows \in [Ids -> Row]
    /\ inserted \in 0 .. MaxRows
    /\ op \in [Processes -> LooseOp]

Makes(p) == op[p].pc \in {"point", "assign"}

\* No row beyond those inserted.
Fresh == \A i \in Ids : i > inserted => rows[i].status = "none"

\* A candidate is a row, and a row that is being made is unassigned, or was purged meanwhile.
Making ==
    /\ \A p \in Processes : At(p, "take") => op[p].id \in Ids
    /\ \A p \in Processes : Makes(p) =>
         /\ op[p].id \in 1 .. inserted
         /\ rows[op[p].id].status \in {"none", "provisioning"}

OneMaker == \A p, q \in Processes : Makes(p) /\ Makes(q) /\ p # q => op[p].id # op[q].id

IInv == Types /\ Fresh /\ Making /\ OneMaker

LEMMA IdleTyped == Idle \in LooseOp /\ NoRow \in Row
  BY DomainsAssumption, SMT DEF Idle, LooseOp, Kinds, NoRow, Row, Stages, Ids

LEMMA CopyTyped == ASSUME rows \in [Ids -> Row], NEW i \in Ids PROVE CopyOf(i) \in Copy
  BY SMT DEF CopyOf, Copy, Row

LEMMA CountedInt == Counted \in Int
<1>1. IsFiniteSet(Ids)
  BY FS_Interval, DomainsAssumption DEF Ids
<1>2. IsFiniteSet(Rows("available"))
  BY <1>1, FS_Subset DEF Rows
<1> QED
  BY <1>2, FS_CardinalityType DEF Counted

\* How a request's knowledge changes: its new record is typed, and nobody else's changes.
LEMMA SetOne ==
  ASSUME op \in [Processes -> LooseOp], NEW p \in Processes, NEW new \in LooseOp, Set(p, new)
  PROVE  /\ op' \in [Processes -> LooseOp] /\ op'[p] = new
         /\ \A q \in Processes : q # p => op'[q] = op[q]
  BY SMT DEF Set

\* The edits that the steps make to a request's record.
LEMMA CronTyped ==
  ASSUME NEW r \in LooseOp, NEW k \in Kinds, NEW s \in Stages
  PROVE  [r EXCEPT !.kind = k, !.pc = s] \in LooseOp
  BY Zenon DEF LooseOp

LEMMA RemoveTyped ==
  ASSUME NEW r \in LooseOp, NEW k \in Kinds, NEW s \in Stages, NEW t \in Targets \cup {NoTarget}
  PROVE  [r EXCEPT !.kind = k, !.pc = s, !.target = t] \in LooseOp
  BY Zenon DEF LooseOp

LEMMA BegunTyped ==
  ASSUME NEW r \in LooseOp, NEW k \in Kinds, NEW s \in Stages, NEW t \in Targets \cup {NoTarget}, NEW n \in Names \cup {NoName}
  PROVE  [r EXCEPT !.kind = k, !.pc = s, !.target = t, !.name = n] \in LooseOp
  BY Zenon DEF LooseOp

LEMMA GotoTyped ==
  ASSUME NEW r \in LooseOp, NEW s \in Stages
  PROVE  [r EXCEPT !.pc = s] \in LooseOp
  BY Zenon DEF LooseOp

LEMMA IdTyped ==
  ASSUME NEW r \in LooseOp, NEW s \in Stages, NEW i \in 0 .. MaxRows
  PROVE  [r EXCEPT !.pc = s, !.id = i] \in LooseOp
  BY Zenon DEF LooseOp

LEMMA NameTyped ==
  ASSUME NEW r \in LooseOp, NEW s \in Stages, NEW n \in Names \cup {NoName}
  PROVE  [r EXCEPT !.pc = s, !.name = n] \in LooseOp
  BY Zenon DEF LooseOp

LEMMA TriesTyped ==
  ASSUME NEW r \in LooseOp, NEW s \in Stages, NEW tries \in Int
  PROVE  [r EXCEPT !.pc = s, !.tries = tries] \in LooseOp
  BY Zenon DEF LooseOp

LEMMA NeedTyped ==
  ASSUME NEW r \in LooseOp, NEW s \in Stages, NEW need \in Int
  PROVE  [r EXCEPT !.pc = s, !.need = need] \in LooseOp
  BY Zenon DEF LooseOp

LEMMA PreviousTyped ==
  ASSUME NEW r \in LooseOp, NEW s \in Stages, NEW old \in SUBSET Copy
  PROVE  [r EXCEPT !.pc = s, !.previous = old] \in LooseOp
  BY Zenon DEF LooseOp

LEMMA RestTyped ==
  ASSUME NEW r \in LooseOp, NEW old \in SUBSET Copy
  PROVE  [r EXCEPT !.previous = old] \in LooseOp
  BY Zenon DEF LooseOp

\* A request that ends or fails makes no row.
LEMMA FailOne ==
  ASSUME op \in [Processes -> LooseOp], NEW p \in Processes, End(p) \/ Fail(p)
  PROVE  /\ op' \in [Processes -> LooseOp] /\ op'[p].pc \in {"idle", "domains"}
         /\ \A q \in Processes : q # p => op'[q] = op[q]
<1> DEFINE cleanup == [Idle EXCEPT !.kind = "remove", !.pc = "domains", !.target = op[p].target]
<1>. op[p].target \in Targets \cup {NoTarget}
  BY SMT DEF LooseOp
<1>0. "remove" \in Kinds /\ "domains" \in Stages
  BY DEF Stages, Kinds
<1>1. cleanup \in LooseOp
  BY <1>0, IdleTyped, RemoveTyped
<1>3. cleanup.pc = "domains" /\ Idle.pc = "idle"
  BY SMT DEF Idle
<1>2. Set(p, cleanup) \/ Set(p, Idle)
  BY DEF End, Fail
<1> QED
  BY <1>1, <1>2, <1>3, SetOne, IdleTyped

-----------------------------------------------------------------------------
\* Steps that only change what the request knows, and that do not start making a row.

LEMMA NotMaking ==
  ASSUME IInv, NEW p \in Processes, op' \in [Processes -> LooseOp],
         op'[p].pc \notin {"point", "assign"}, op'[p].pc = "take" => op'[p].id \in Ids,
         \A q \in Processes : q # p => op'[q] = op[q],
         UNCHANGED <<rows, inserted>>
  PROVE  IInv'
<1>1. Types' /\ Fresh'
  BY DEF IInv, Types, Fresh
<1>2. \A q \in Processes : Makes(q)' => q # p /\ op'[q] = op[q] /\ Makes(q)
  BY DEF Makes
<1>3. Making'
  BY <1>2 DEF IInv, Making, At, Makes
<1>4. OneMaker'
  BY <1>2 DEF IInv, OneMaker
<1> QED
  BY <1>1, <1>3, <1>4 DEF IInv

\* Steps that change one row but make none: whatever is being made keeps its status, or
\* is deleted.
LEMMA OtherRow ==
  ASSUME IInv, NEW p \in Processes, op' \in [Processes -> LooseOp],
         op'[p].pc \notin {"point", "assign"}, op'[p].pc = "take" => op'[p].id \in Ids,
         \A q \in Processes : q # p => op'[q] = op[q],
         UNCHANGED inserted, rows' \in [Ids -> Row],
         \A i \in Ids : rows[i].status = "none" => rows'[i].status = "none",
         \A q \in Processes : q # p /\ Makes(q) =>
            rows'[op[q].id].status \in {rows[op[q].id].status, "none"}
  PROVE  IInv'
<1>1. Types' /\ Fresh'
  BY DEF IInv, Types, Fresh
<1>2. \A q \in Processes : Makes(q)' => q # p /\ op'[q] = op[q] /\ Makes(q)
  BY DEF Makes
<1>3. Making'
  BY <1>2 DEF IInv, Making, At, Makes
<1>4. OneMaker'
  BY <1>2 DEF IInv, OneMaker
<1> QED
  BY <1>1, <1>3, <1>4 DEF IInv

\* A request's step that sets its stage, or ends it.
LEMMA GotoOther ==
  ASSUME IInv, NEW p \in Processes, NEW new \in LooseOp, Set(p, new),
         new.pc \notin {"point", "assign"}, new.pc = "take" => new.id \in Ids, UNCHANGED <<rows, inserted>>
  PROVE  IInv'
<1>1. op \in [Processes -> LooseOp]
  BY DEF IInv, Types
<1> QED
  BY <1>1, SetOne, NotMaking

LEMMA EndOther ==
  ASSUME IInv, NEW p \in Processes, End(p) \/ Fail(p), UNCHANGED <<rows, inserted>>
  PROVE  IInv'
<1>1. op \in [Processes -> LooseOp]
  BY DEF IInv, Types
<1>2. /\ op' \in [Processes -> LooseOp] /\ op'[p].pc \in {"idle", "domains"}
      /\ \A q \in Processes : q # p => op'[q] = op[q]
  BY <1>1, FailOne
<1> QED
  BY <1>2, NotMaking
-----------------------------------------------------------------------------
\* The steps of a request, one lemma for each that needs one.

\* The typed facts about one process's record that the steps use.
LEMMA OpTyped ==
  ASSUME IInv, NEW p \in Processes
  PROVE  /\ op[p] \in LooseOp /\ op[p].pc \in Stages
         /\ op[p].target \in Targets \cup {NoTarget} /\ op[p].name \in Names \cup {NoName}
         /\ op[p].previous \in SUBSET Copy /\ op[p].id \in 0 .. MaxRows
         /\ op[p].tries \in Int /\ op[p].need \in Int
         /\ op \in [Processes -> LooseOp] /\ rows \in [Ids -> Row] /\ inserted \in Nat
  BY DomainsAssumption, SMT DEF IInv, Types, LooseOp

LEMMA BeginStep ==
  ASSUME IInv, NEW p \in Calls, NEW t \in Targets, NEW n \in Names \cup {NoName},
         BeginFirst(p, t, n) \/ (n # NoName /\ BeginClaim(p, t, n)) \/ BeginRemove(p, t)
  PROVE  IInv'
<1>. p \in Processes
  BY DEF Processes
<1>1. CASE BeginFirst(p, t, n)
  <2> DEFINE new == [Idle EXCEPT !.kind = "first", !.pc = "create", !.target = t, !.name = n]
  <2>0. "create" \in Stages /\ "first" \in Kinds
    BY DEF Stages, Kinds
  <2>1. new \in LooseOp
    BY <2>0, IdleTyped, BegunTyped
  <2>3. new.pc = "create"
    BY IdleTyped, OpTyped, SMT DEF LooseOp
  <2>2. Set(p, new) /\ UNCHANGED <<rows, inserted>>
    BY <1>1 DEF BeginFirst
  <2> QED
    BY <2>1, <2>2, <2>3, GotoOther
<1>2. CASE n # NoName /\ BeginClaim(p, t, n)
  <2> DEFINE new == [Idle EXCEPT !.kind = "claim", !.pc = "list", !.target = t, !.name = n]
  <2>0. "claim" \in Kinds /\ "list" \in Stages
    BY DEF Stages, Kinds
  <2>1. new \in LooseOp
    BY <2>0, IdleTyped, BegunTyped
  <2>3. new.pc = "list"
    BY IdleTyped, OpTyped, SMT DEF LooseOp
  <2>2. Set(p, new) /\ UNCHANGED <<rows, inserted>>
    BY <1>2 DEF BeginClaim
  <2> QED
    BY <2>1, <2>2, <2>3, GotoOther
<1>3. CASE BeginRemove(p, t)
  <2> DEFINE new == [Idle EXCEPT !.kind = "remove", !.pc = "domains", !.target = t]
  <2>0. "remove" \in Kinds /\ "domains" \in Stages
    BY DEF Stages, Kinds
  <2>1. new \in LooseOp
    BY <2>0, IdleTyped, RemoveTyped
  <2>3. new.pc = "domains"
    BY IdleTyped, OpTyped, SMT DEF LooseOp
  <2>2. Set(p, new) /\ UNCHANGED <<rows, inserted>>
    BY <1>3 DEF BeginRemove
  <2> QED
    BY <2>1, <2>2, <2>3, GotoOther
<1> QED
  BY <1>1, <1>2, <1>3

LEMMA BeginRefillStep == ASSUME IInv, BeginRefill PROVE IInv'
<1> DEFINE new == [Idle EXCEPT !.kind = "refill", !.pc = "stuck"]
<1>0. "refill" \in Kinds /\ "stuck" \in Stages
  BY DEF Stages, Kinds
<1>1. new \in LooseOp
  BY <1>0, IdleTyped, CronTyped
<1>3. new.pc = "stuck"
  BY IdleTyped, SMT DEF LooseOp
<1>2. Set(Cron, new) /\ UNCHANGED <<rows, inserted>> /\ Cron \in Processes
  BY DEF BeginRefill, outside, Processes
<1> QED
  BY <1>1, <1>2, <1>3, GotoOther

LEMMA ReadStep == ASSUME IInv, NEW p \in Processes, ReadCandidate(p) PROVE IInv'
<1>. UNCHANGED <<rows, inserted>> /\ op[p] \in LooseOp
  BY OpTyped DEF ReadCandidate
<1>1. CASE Goto(p, "pick")
  <2>0. "pick" \in Stages
    BY DEF Stages
  <2>1. [op[p] EXCEPT !.pc = "pick"] \in LooseOp
    BY <2>0, GotoTyped
  <2>3. [op[p] EXCEPT !.pc = "pick"].pc = "pick"
    BY IdleTyped, OpTyped, SMT DEF LooseOp
  <2> QED
    BY <1>1, <2>1, <2>3, GotoOther DEF Goto
<1>2. ASSUME NEW first \in Rows("available"), Set(p, [op[p] EXCEPT !.pc = "take", !.id = first])
      PROVE  IInv'
  <2> DEFINE new == [op[p] EXCEPT !.pc = "take", !.id = first]
  <2>0. first \in 0 .. MaxRows /\ first \in Ids /\ "take" \in Stages
    BY DomainsAssumption, SMT DEF Rows, Ids, Stages
  <2>1. new \in LooseOp
    BY <2>0, IdTyped
  <2>3. new.pc = "take" /\ new.id = first
    BY IdleTyped, OpTyped, SMT DEF LooseOp
  <2> QED
    BY <1>2, <2>0, <2>1, <2>3, GotoOther
<1> QED
  BY <1>1, <1>2 DEF ReadCandidate

LEMMA TakeStep == ASSUME IInv, NEW p \in Processes, TakeCandidate(p) PROVE IInv'
<1>. UNCHANGED inserted /\ op[p] \in LooseOp /\ op \in [Processes -> LooseOp]
     /\ rows \in [Ids -> Row] /\ op[p].target \in Targets \cup {NoTarget}
  BY OpTyped DEF TakeCandidate
<1>1. CASE StillAvailable(op[p].id)
  <2> DEFINE i == op[p].id
             new == [op[p] EXCEPT !.pc = "route", !.name = rows[i].name]
  <2>1. /\ rows' = [rows EXCEPT ![i].status = "assigned", ![i].target = op[p].target]
        /\ Set(p, new)
    BY <1>1 DEF TakeCandidate
  <2>2. i \in Ids
    BY OpTyped DEF TakeCandidate, IInv, Making
  <2>8. new.pc = "route"
    BY SMT DEF LooseOp
  <2>3. new \in LooseOp
    <3>1. rows[i].name \in Names \cup {NoName} /\ "route" \in Stages
      BY <2>2, SMT DEF Row, Stages
    <3> QED
      BY <3>1, NameTyped
  <2>4. /\ op' \in [Processes -> LooseOp] /\ op'[p].pc = "route"
        /\ \A q \in Processes : q # p => op'[q] = op[q]
    BY <2>1, <2>3, <2>8, SetOne
  <2>5. rows' \in [Ids -> Row]
    BY <2>1, <2>2, SMT DEF Row
  <2>6. rows[i].status = "available" /\ \A j \in Ids : j # i => rows'[j] = rows[j]
    BY <1>1, <2>1, SMT DEF StillAvailable
  <2>7. \A q \in Processes : Makes(q) => op[q].id # i /\ op[q].id \in Ids
    BY <2>6, DomainsAssumption, SMT DEF IInv, Making, Types, Ids
  <2> QED
    BY <2>2, <2>4, <2>5, <2>6, <2>7, OtherRow
<1>2. CASE ~StillAvailable(op[p].id)
  <2> DEFINE new == [op[p] EXCEPT !.pc = "pool", !.tries = @ + 1]
  <2>0. op[p].tries + 1 \in Int /\ "pool" \in Stages
    BY OpTyped, SMT DEF Stages
  <2>1. new \in LooseOp
    BY <2>0, TriesTyped
  <2>3. new.pc = "pool"
    BY IdleTyped, OpTyped, SMT DEF LooseOp
  <2> QED
    BY <1>2, <2>1, <2>3, GotoOther DEF TakeCandidate
<1> QED
  BY <1>1, <1>2

LEMMA Goes ==
  ASSUME IInv, NEW p \in Processes, NEW s \in Stages \ {"point", "assign", "take"},
         Goto(p, s), UNCHANGED <<rows, inserted>>
  PROVE  IInv'
<1> DEFINE new == [op[p] EXCEPT !.pc = s]
<1>1. new \in LooseOp
  BY OpTyped, GotoTyped
<1>2. new.pc = s
  BY OpTyped, SMT DEF LooseOp
<1>3. Set(p, new)
  BY DEF Goto
<1> QED
  BY <1>1, <1>2, <1>3, GotoOther

\* Nobody but the row's own maker is disturbed when a row is deleted.
LEMMA Deletes ==
  ASSUME IInv, NEW p \in Processes, op' \in [Processes -> LooseOp],
         op'[p].pc \notin {"point", "assign", "take"},
         \A q \in Processes : q # p => op'[q] = op[q],
         UNCHANGED inserted, NEW i, rows' = [rows EXCEPT ![i] = NoRow]
  PROVE  IInv'
<1>0. rows \in [Ids -> Row] /\ NoRow \in Row
  BY OpTyped, IdleTyped
<1>1. rows' \in [Ids -> Row]
  BY <1>0, Zenon
<1>4. \A j \in Ids : rows'[j] = rows[j] \/ rows'[j] = NoRow
  BY <1>0, Zenon
<1>2. NoRow.status = "none"
  BY SMT DEF NoRow
<1>3. \A q \in Processes : Makes(q) => op[q].id \in Ids
  BY DomainsAssumption, SMT DEF IInv, Making, Types, Ids
<1> QED
  BY <1>1, <1>2, <1>3, <1>4, OtherRow

\* A record whose list of rows is replaced, without a change of stage or with one.
LEMMA ListedStep ==
  ASSUME IInv, NEW p \in Processes, NEW s \in Stages \ {"point", "assign", "take"},
         NEW old \in SUBSET Copy, Set(p, [op[p] EXCEPT !.pc = s, !.previous = old])
  PROVE  /\ op' \in [Processes -> LooseOp] /\ op'[p].pc = s
         /\ \A q \in Processes : q # p => op'[q] = op[q]
<1> DEFINE new == [op[p] EXCEPT !.pc = s, !.previous = old]
<1>1. new \in LooseOp
  BY OpTyped, PreviousTyped
<1>2. new.pc = s
  BY OpTyped, SMT DEF LooseOp
<1> QED
  BY <1>1, <1>2, OpTyped, SetOne

LEMMA PickStep ==
  ASSUME IInv, NEW p \in Processes, NEW n \in Names, PickName(p, n)
  PROVE  IInv'
<1> DEFINE new == [op[p] EXCEPT !.pc = "insert", !.name = n]
<1>1. n \in Names \cup {NoName} /\ "insert" \in Stages
  BY DEF Stages
<1>2. new \in LooseOp
  BY <1>1, OpTyped, NameTyped
<1>3. new.pc = "insert"
  BY OpTyped, SMT DEF LooseOp
<1> QED
  BY <1>2, <1>3, GotoOther DEF PickName

LEMMA NoFreeStep == ASSUME IInv, NEW p \in Processes, NoFreeName(p) PROVE IInv'
  BY EndOther DEF NoFreeName

\* A new row has an ID that no request makes.
LEMMA InsertStep ==
  ASSUME IInv, NEW p \in Processes, InsertProvisioning(p) \/ InsertClaim(p)
  PROVE  IInv'
<1>1. CASE Fail(p) /\ UNCHANGED <<rows, inserted>>
  BY <1>1, EndOther
<1>2. ASSUME NEW status \in {"provisioning", "assigned"}, NEW target \in Targets \cup {NoTarget},
             NEW next \in {"point", "route"}, next = "point" => status = "provisioning",
             inserted < MaxRows, inserted' = inserted + 1,
             rows' = [rows EXCEPT ![inserted'] =
                        [name |-> op[p].name, status |-> status, target |-> target, routed |-> FALSE]],
             Set(p, [op[p] EXCEPT !.pc = next, !.id = inserted'])
      PROVE  IInv'
  <2> DEFINE row == [name |-> op[p].name, status |-> status, target |-> target, routed |-> FALSE]
             new == [op[p] EXCEPT !.pc = next, !.id = inserted']
  <2>1. inserted' \in 1 .. MaxRows /\ inserted' \in Ids /\ inserted' \in 0 .. MaxRows
    BY <1>2, OpTyped, DomainsAssumption, SMT DEF Ids
  <2>2. row \in Row /\ row.status = status
    BY <1>2, OpTyped, SMT DEF Row
  <2>3. next \in Stages
    BY <1>2 DEF Stages
  <2>4. new \in LooseOp
    BY <2>1, <2>3, OpTyped, IdTyped
  <2>5. new.pc = next /\ new.id = inserted'
    BY OpTyped, SMT DEF LooseOp
  <2>6. /\ op' \in [Processes -> LooseOp] /\ op'[p] = new
        /\ \A q \in Processes : q # p => op'[q] = op[q]
    BY <1>2, <2>4, OpTyped, SetOne
  <2>7. /\ rows' \in [Ids -> Row] /\ rows'[inserted'] = row
        /\ \A j \in Ids : j # inserted' => rows'[j] = rows[j]
    BY <1>2, <2>1, <2>2, OpTyped, SMT
  <2> HIDE DEF row, new
  <2>8. Types'
    BY <2>1, <2>6, <2>7, SMT DEF Types
  <2>9. Fresh'
    BY <1>2, <2>7, OpTyped, SMT DEF IInv, Fresh, Ids
  <2>10. \A q \in Processes : q # p => (Makes(q)' <=> Makes(q)) /\ (At(q, "take")' <=> At(q, "take"))
    BY <2>6 DEF Makes, At
  <2>11. \A q \in Processes : Makes(q) => op[q].id \in Ids /\ op[q].id \in 1 .. inserted
    BY OpTyped, DomainsAssumption, SMT DEF IInv, Making, Types, Ids
  <2>12. Making'
    <3>1. ASSUME NEW q \in Processes, Makes(q)'
          PROVE  op'[q].id \in 1 .. inserted' /\ rows'[op'[q].id].status \in {"none", "provisioning"}
      <4>1. CASE q = p
        <5>1. next = "point"
          BY <3>1, <4>1, <2>5, <2>6, <1>2 DEF Makes
        <5> QED
          BY <5>1, <4>1, <2>1, <2>2, <2>5, <2>6, <2>7, <1>2, SMT
      <4>2. CASE q # p
        <5>1. op'[q] = op[q] /\ Makes(q) /\ op[q].id # inserted'
          BY <3>1, <4>2, <2>6, <2>10, <2>11, <1>2, OpTyped, SMT
        <5>2. rows[op[q].id].status \in {"none", "provisioning"}
          BY <5>1 DEF IInv, Making
        <5>3. op[q].id \in 1 .. inserted'
          BY <5>1, <2>11, <1>2, OpTyped, SMT
        <5> QED
          BY <5>1, <5>2, <5>3, <2>7, <2>11
      <4> QED
        BY <4>1, <4>2
    <3>2. \A q \in Processes : At(q, "take")' => op'[q].id \in Ids
      BY <1>2, <2>5, <2>6, <2>10 DEF IInv, Making, At
    <3> QED
      BY <3>1, <3>2 DEF Making
  <2>13. OneMaker'
    <3>1. \A q \in Processes : q # p /\ Makes(q) => op[q].id # inserted'
      BY <2>11, <1>2, OpTyped, SMT
    <3> QED
      BY <3>1, <2>5, <2>6, <2>10 DEF IInv, OneMaker
  <2> QED
    BY <2>8, <2>9, <2>12, <2>13 DEF IInv
<1>3. CASE InsertProvisioning(p)
  <2>1. NoTarget \in Targets \cup {NoTarget}
    OBVIOUS
  <2> QED
    BY <1>1, <1>2, <1>3, <2>1 DEF InsertProvisioning, Insert
<1>4. CASE InsertClaim(p)
  BY <1>1, <1>2, <1>4, OpTyped DEF InsertClaim, Insert
<1> QED
  BY <1>3, <1>4

LEMMA RecordStep ==
  ASSUME IInv, NEW p \in Processes, NEW ok \in BOOLEAN, CreateRecord(p, ok)
  PROVE  IInv'
<1>1. CASE ok
  <2>1. Goto(p, "assign") /\ UNCHANGED <<rows, inserted>> /\ At(p, "point")
    BY <1>1 DEF CreateRecord
  <2> DEFINE new == [op[p] EXCEPT !.pc = "assign"]
  <2>2. "assign" \in Stages
    BY DEF Stages
  <2>3. new \in LooseOp
    BY <2>2, OpTyped, GotoTyped
  <2>4. new.pc = "assign" /\ new.id = op[p].id
    BY OpTyped, SMT DEF LooseOp
  <2>5. /\ op' \in [Processes -> LooseOp] /\ op'[p].pc = "assign" /\ op'[p].id = op[p].id
        /\ \A q \in Processes : q # p => op'[q] = op[q]
    BY <2>1, <2>3, <2>4, OpTyped, SetOne DEF Goto
  <2>6. \A q \in Processes :
          /\ (Makes(q)' <=> Makes(q)) /\ op'[q].id = op[q].id
          /\ At(q, "take")' => At(q, "take")
    BY <2>1, <2>5 DEF Makes, At
  <2>7. Types' /\ Fresh'
    BY <2>1, <2>5 DEF IInv, Types, Fresh
  <2>8. Making' /\ OneMaker'
    BY <2>1, <2>6 DEF IInv, Making, OneMaker
  <2> QED
    BY <2>7, <2>8 DEF IInv
<1>2. CASE ~ok
  <2>1. Fail(p) /\ UNCHANGED inserted /\ rows' = [rows EXCEPT ![op[p].id] = NoRow]
    BY <1>2 DEF CreateRecord
  <2> QED
    BY <2>1, OpTyped, FailOne, Deletes
<1> QED
  BY <1>1, <1>2

\* The update of a made row: its maker lets go of it, and nobody else makes it.
LEMMA AssignStep == ASSUME IInv, NEW p \in Processes, AssignName(p) PROVE IInv'
<1> DEFINE i    == op[p].id
           more == [op[p] EXCEPT !.pc = "pick", !.need = @ - 1]
<1>1. i \in 1 .. inserted /\ i \in Ids /\ Makes(p)
  BY OpTyped, DomainsAssumption, SMT DEF AssignName, At, Makes, IInv, Making, Types, Ids
<1>2. /\ op' \in [Processes -> LooseOp] /\ op'[p].pc \in {"route", "pick", "idle"}
      /\ \A q \in Processes : q # p => op'[q] = op[q]
  <2>1. CASE Goto(p, "route")
    <3>1. [op[p] EXCEPT !.pc = "route"] \in LooseOp
      BY OpTyped, GotoTyped DEF Stages
    <3>2. [op[p] EXCEPT !.pc = "route"].pc = "route"
      BY OpTyped, SMT DEF LooseOp
    <3> QED
      BY <2>1, <3>1, <3>2, OpTyped, SetOne DEF Goto
  <2>2. CASE Set(p, more)
    <3>1. op[p].need - 1 \in Int /\ "pick" \in Stages
      BY OpTyped, SMT DEF Stages
    <3>2. more \in LooseOp
      BY <3>1, OpTyped, NeedTyped
    <3>3. more.pc = "pick"
      BY OpTyped, SMT DEF LooseOp
    <3> QED
      BY <2>2, <3>2, <3>3, OpTyped, SetOne
  <2>3. CASE End(p)
    <3>1. Idle.pc = "idle"
      BY SMT DEF Idle
    <3> QED
      BY <2>3, <3>1, IdleTyped, OpTyped, SetOne DEF End
  <2> QED
    BY <2>1, <2>2, <2>3 DEF AssignName
<1>3. Made(p) \in Row
  <2>0. rows[i] \in Row /\ op[p].target \in Targets \cup {NoTarget}
    BY <1>1, OpTyped
  <2>1. [rows[i] EXCEPT !.status = "available"] \in Row
    BY <2>0, Zenon DEF Row
  <2>2. [rows[i] EXCEPT !.status = "assigned", !.target = op[p].target] \in Row
    BY <2>0, Zenon DEF Row
  <2> QED
    BY <2>1, <2>2 DEF Made
<1>4. /\ rows' \in [Ids -> Row]
      /\ \A j \in Ids : j # i => rows'[j] = rows[j]
      /\ rows[i] = NoRow => rows'[i] = NoRow
  BY <1>1, <1>3, OpTyped, SMT DEF AssignName
<1>5. \A q \in Processes : q # p /\ Makes(q) => op[q].id \in Ids /\ op[q].id # i
  BY <1>1, OpTyped, DomainsAssumption, SMT DEF IInv, OneMaker, Making, Types, Ids
<1>6. \A q \in Processes : Makes(q)' => q # p /\ op'[q] = op[q] /\ Makes(q)
  BY <1>2 DEF Makes
<1>7. UNCHANGED inserted
  BY DEF AssignName
<1>8. Types'
  BY <1>2, <1>4, <1>7 DEF IInv, Types
<1>9. Fresh'
  BY <1>1, <1>4, <1>7, OpTyped, SMT DEF IInv, Fresh, Ids
<1>10. Making'
  <2>1. \A q \in Processes : At(q, "take")' => op'[q].id \in Ids
    BY <1>2 DEF IInv, Making, At
  <2>2. \A q \in Processes : Makes(q)' =>
          op'[q].id \in 1 .. inserted' /\ rows'[op'[q].id].status \in {"none", "provisioning"}
    BY <1>4, <1>5, <1>6, <1>7 DEF IInv, Making
  <2> QED
    BY <2>1, <2>2 DEF Making
<1>11. OneMaker'
  BY <1>6 DEF IInv, OneMaker
<1> QED
  BY <1>8, <1>9, <1>10, <1>11 DEF IInv

LEMMA StuckStep == ASSUME IInv, NEW p \in Processes, ListStuck(p) PROVE IInv'
<1>1. {CopyOf(i) : i \in Rows("provisioning")} \in SUBSET Copy
  BY OpTyped, CopyTyped DEF Rows
<1>2. "purge" \in Stages
  BY DEF Stages
<1> QED
  BY <1>1, <1>2, ListedStep, NotMaking DEF ListStuck

LEMMA PurgeStep == ASSUME IInv, NEW p \in Processes, PurgeStuck(p) PROVE IInv'
<1>1. CASE Goto(p, "count") /\ UNCHANGED rows
  <2>1. "count" \in Stages \ {"point", "assign", "take"} /\ UNCHANGED inserted
    BY DEF Stages, PurgeStuck
  <2> QED
    BY <1>1, <2>1, Goes
<1>2. ASSUME NEW old \in op[p].previous, rows' = [rows EXCEPT ![old.id] = NoRow],
             Set(p, [op[p] EXCEPT !.previous = @ \ {old}]), At(p, "purge")
      PROVE  IInv'
  <2> DEFINE new == [op[p] EXCEPT !.previous = op[p].previous \ {old}]
  <2>1. op[p].previous \ {old} \in SUBSET Copy
    BY OpTyped
  <2>2. new \in LooseOp
    BY <2>1, OpTyped, RestTyped
  <2>3. new.pc = "purge"
    BY <1>2, OpTyped, SMT DEF LooseOp, At
  <2>4. /\ op' \in [Processes -> LooseOp] /\ op'[p].pc = "purge"
        /\ \A q \in Processes : q # p => op'[q] = op[q]
    BY <1>2, <2>2, <2>3, OpTyped, SetOne
  <2>5. UNCHANGED inserted
    BY DEF PurgeStuck
  <2> QED
    BY <1>2, <2>4, <2>5, Deletes
<1> QED
  BY <1>1, <1>2 DEF PurgeStuck

LEMMA CountStep == ASSUME IInv, NEW p \in Processes, CountAvailable(p) PROVE IInv'
<1> DEFINE new == [op[p] EXCEPT !.pc = "pick", !.need = PoolSize - Counted]
<1>1. PoolSize - Counted \in Int /\ "pick" \in Stages
  BY CountedInt, DomainsAssumption, SMT DEF Stages
<1>2. new \in LooseOp
  BY <1>1, OpTyped, NeedTyped
<1>3. new.pc = "pick"
  BY OpTyped, SMT DEF LooseOp
<1> QED
  BY <1>2, <1>3, GotoOther, EndOther DEF CountAvailable

LEMMA ListStep == ASSUME IInv, NEW p \in Processes, ListPrevious(p) PROVE IInv'
<1>1. UNCHANGED <<rows, inserted>>
  BY DEF ListPrevious
<1>2. {CopyOf(i) : i \in Owned(op[p].target)} \in SUBSET Copy
  BY OpTyped, CopyTyped DEF Owned, Present
<1>3. "record" \in Stages \ {"point", "assign", "take"}
  BY DEF Stages
<1>4. CASE Set(p, [op[p] EXCEPT !.pc = "record",
                                !.previous = {CopyOf(i) : i \in Owned(op[p].target)}])
  <2>1. /\ op' \in [Processes -> LooseOp] /\ op'[p].pc = "record"
        /\ \A q \in Processes : q # p => op'[q] = op[q]
    BY <1>2, <1>3, <1>4, ListedStep
  <2> QED
    BY <1>1, <2>1, NotMaking
<1> QED
  BY <1>1, <1>4, EndOther DEF ListPrevious

LEMMA ClaimRecordStep ==
  ASSUME IInv, NEW p \in Processes, NEW ok \in BOOLEAN, CreateClaimRecord(p, ok)
  PROVE  IInv'
<1>1. "claim" \in Stages \ {"point", "assign", "take"}
  BY DEF Stages
<1> QED
  BY <1>1, Goes, EndOther DEF CreateClaimRecord

LEMMA RouteStep ==
  ASSUME IInv, NEW p \in Processes, NEW ok \in BOOLEAN, AddRoute(p, ok)
  PROVE  IInv'
<1>1. "save" \in Stages \ {"point", "assign", "take"}
  BY DEF Stages
<1> QED
  BY <1>1, Goes, EndOther DEF AddRoute

LEMMA SaveStep == ASSUME IInv, NEW p \in Processes, SaveRoute(p) PROVE IInv'
<1>1. /\ op' \in [Processes -> LooseOp] /\ op'[p].pc \in {"idle", "release"}
      /\ \A q \in Processes : q # p => op'[q] = op[q]
  <2>1. CASE End(p)
    <3>1. Idle.pc = "idle"
      BY SMT DEF Idle
    <3> QED
      BY <2>1, <3>1, IdleTyped, OpTyped, SetOne DEF End
  <2>2. CASE Set(p, [op[p] EXCEPT !.pc = "release", !.previous = ToRelease(p)])
    <3>1. "release" \in Stages \ {"point", "assign", "take"} /\ ToRelease(p) \in SUBSET Copy
      BY OpTyped DEF Stages, ToRelease
    <3> QED
      BY <2>2, <3>1, ListedStep
  <2> QED
    BY <2>1, <2>2 DEF SaveRoute
<1>2. CASE UNCHANGED rows
  BY <1>1, <1>2, NotMaking DEF SaveRoute
<1>3. CASE rows' = [rows EXCEPT ![op[p].id].routed = TRUE]
  <2>0. rows \in [Ids -> Row]
    BY OpTyped
  <2>1. \A r \in Row : [r EXCEPT !.routed = TRUE] \in Row
    BY Zenon DEF Row
  <2>2. \A r \in Row : [r EXCEPT !.routed = TRUE].status = r.status
    BY SMT DEF Row
  <2>4. rows' \in [Ids -> Row]
    BY <1>3, <2>0, <2>1, Zenon
  <2>5. \A j \in Ids : rows'[j] = rows[j] \/ rows'[j] = [rows[j] EXCEPT !.routed = TRUE]
    BY <1>3, <2>0, Zenon
  <2>6. \A j \in Ids : rows'[j].status = rows[j].status
    BY <2>0, <2>2, <2>5
  <2>3. \A q \in Processes : Makes(q) => op[q].id \in Ids
    BY OpTyped, DomainsAssumption, SMT DEF IInv, Making, Types, Ids
  <2> QED
    BY <1>1, <2>3, <2>4, <2>6, OtherRow DEF SaveRoute
<1> QED
  BY <1>2, <1>3 DEF SaveRoute

LEMMA ListDomainsStep == ASSUME IInv, NEW p \in Processes, ListDomains(p) PROVE IInv'
<1> DEFINE owned == {CopyOf(i) : i \in Owned(op[p].target)}
           s     == IF owned = {} THEN "target" ELSE "release"
<1>1. owned \in SUBSET Copy
  BY OpTyped, CopyTyped DEF Owned, Present
<1>2. s \in Stages \ {"point", "assign", "take"}
  BY DEF Stages
<1>3. Set(p, [op[p] EXCEPT !.pc = s, !.previous = owned]) /\ UNCHANGED <<rows, inserted>>
  BY DEF ListDomains
<1> HIDE DEF s, owned
<1>4. /\ op' \in [Processes -> LooseOp] /\ op'[p].pc = s
      /\ \A q \in Processes : q # p => op'[q] = op[q]
  BY <1>1, <1>2, <1>3, ListedStep
<1> QED
  BY <1>2, <1>3, <1>4, NotMaking

LEMMA ReleasedTyped ==
  ASSUME IInv, NEW p \in Processes, Released(p) \/ End(p)
  PROVE  /\ op' \in [Processes -> LooseOp] /\ op'[p].pc \in {"idle", "release", "target"}
         /\ \A q \in Processes : q # p => op'[q] = op[q]
<1>1. /\ "release" \in Stages \ {"point", "assign", "take"}
      /\ "target" \in Stages \ {"point", "assign", "take"}
      /\ Rest(p) \in SUBSET Copy /\ {} \in SUBSET Copy
  BY OpTyped DEF Stages, Rest
<1>2. CASE Set(p, [op[p] EXCEPT !.pc = "release", !.previous = Rest(p)])
  BY <1>1, <1>2, ListedStep
<1>3. CASE Set(p, [op[p] EXCEPT !.pc = "target", !.previous = {}])
  BY <1>1, <1>3, ListedStep
<1>4. CASE End(p)
  <2>1. Idle.pc = "idle"
    BY SMT DEF Idle
  <2> QED
    BY <1>4, <2>1, IdleTyped, OpTyped, SetOne DEF End
<1> QED
  BY <1>2, <1>3, <1>4 DEF Released

LEMMA ReleaseStep ==
  ASSUME IInv, NEW p \in Processes,
         ReleaseFails(p) \/ RemoveRoute(p) \/ DeleteRow(p)
  PROVE  IInv'
<1>1. CASE ReleaseFails(p)
  BY <1>1, ReleasedTyped, NotMaking DEF ReleaseFails
<1>2. CASE RemoveRoute(p)
  <2>1. "unrouted" \in Stages \ {"point", "assign", "take"}
    BY DEF Stages
  <2> QED
    BY <1>2, <2>1, Goes DEF RemoveRoute
<1>3. CASE DeleteRow(p)
  BY <1>3, ReleasedTyped, Deletes DEF DeleteRow
<1> QED
  BY <1>1, <1>2, <1>3

LEMMA CreateAppStep ==
  ASSUME IInv, NEW p \in Processes, NEW ok \in BOOLEAN, CreateApp(p, ok)
  PROVE  IInv'
<1>1. {"pool", "list"} \subseteq Stages \ {"point", "assign", "take"} /\ UNCHANGED <<rows, inserted>>
  BY DEF Stages, CreateApp
<1>2. Goto(p, "pool") \/ Goto(p, "list") \/ Fail(p)
  BY DEF CreateApp
<1> QED
  BY <1>1, <1>2, Goes, EndOther

LEMMA TargetStep ==
  ASSUME IInv, NEW p \in Processes, DeleteTarget(p) \/ \E ok \in BOOLEAN : RemoveApp(p, ok)
  PROVE  IInv'
<1>1. "row" \in Stages \ {"point", "assign", "take"} /\ UNCHANGED <<rows, inserted>>
  BY DEF Stages, DeleteTarget, RemoveApp
<1>2. Goto(p, "row") \/ End(p)
  BY DEF DeleteTarget, RemoveApp
<1> QED
  BY <1>1, <1>2, Goes, EndOther

LEMMA CrashStep == ASSUME IInv, Crash PROVE IInv'
<1>1. op' = [p \in Processes |-> Idle] /\ UNCHANGED <<rows, inserted>>
  BY DEF Crash
<1>2. Idle.pc = "idle"
  BY SMT DEF Idle
<1>3. \A p \in Processes : ~Makes(p)' /\ ~At(p, "take")'
  BY <1>1, <1>2 DEF Makes, At
<1>4. Types' /\ Fresh'
  BY <1>1, IdleTyped DEF IInv, Types, Fresh
<1> QED
  BY <1>3, <1>4 DEF IInv, Making, OneMaker

LEMMA NextKeeps == ASSUME IInv, [Next]_vars PROVE IInv'
<1>1. ASSUME NEW p \in Processes, Step(p) \/ CallFails(p) PROVE IInv'
  BY <1>1, ReadStep, TakeStep, NoFreeStep, PickStep, InsertStep, RecordStep, AssignStep, StuckStep,
     PurgeStep, CountStep, ListStep, ClaimRecordStep, RouteStep, SaveStep, ListDomainsStep,
     ReleaseStep, CreateAppStep, TargetStep DEF Step, CallFails
<1>2. ASSUME Request PROVE IInv'
  <2>1. PICK p \in Calls, t \in Targets :
          \/ \E n \in Names : BeginFirst(p, t, n) \/ BeginClaim(p, t, n)
          \/ BeginFirst(p, t, NoName) \/ BeginRemove(p, t)
    BY <1>2 DEF Request
  <2>2. \A n \in Names : n # NoName
    BY DomainsAssumption
  <2> QED
    BY <2>1, <2>2, BeginStep
<1>3. CASE UNCHANGED vars
  BY <1>3, Zenon DEF vars, outside, IInv, Types, Fresh, Making, OneMaker, Makes, At
<1> QED
  BY <1>1, <1>2, <1>3, BeginRefillStep, CrashStep DEF Next

LEMMA InitHolds == ASSUME Init PROVE IInv
<1>1. Idle.pc = "idle" /\ NoRow.status = "none"
  BY SMT DEF Idle, NoRow
<1>2. Types
  BY IdleTyped, DomainsAssumption, SMT DEF Init, Types
<1> QED
  BY <1>1, <1>2 DEF Init, IInv, Fresh, Making, OneMaker, Makes, At

\* No two requests make the same row, and no row being made is assigned or available,
\* however first deploys, claims, removals and the refill overlap, fail or stop.
THEOREM MakersApart == Spec => []IInv
<1>1. Init => IInv
  BY InitHolds
<1>2. IInv /\ [Next]_vars => IInv'
  BY NextKeeps
<1> QED
  BY <1>1, <1>2, PTL DEF Spec

-----------------------------------------------------------------------------
\* An assigned row is deleted or stays with its target.

LEMMA RowKept ==
  ASSUME rows \in [Ids -> Row], NEW i \in Ids, NEW t \in Targets, Assigned(i, t),
         rows'[i] = rows[i] \/ rows'[i] = NoRow
  PROVE  Assigned(i, t)' \/ rows'[i] = NoRow
  BY DEF Assigned

LEMMA StepKeepsAssignments ==
  ASSUME IInv, [Next]_vars, NEW i \in Ids, NEW t \in Targets, Assigned(i, t)
  PROVE  Assigned(i, t)' \/ rows'[i] = NoRow
<1>. rows \in [Ids -> Row]
  BY DEF IInv, Types
<1>0. CASE UNCHANGED rows
  BY <1>0 DEF Assigned
<1>1. ASSUME NEW p \in Processes, TakeCandidate(p)
      PROVE  Assigned(i, t)' \/ rows'[i] = NoRow
  <2>1. CASE rows' = [rows EXCEPT ![op[p].id].status = "assigned", ![op[p].id].target = op[p].target]
             /\ StillAvailable(op[p].id)
    <3>1. op[p].id # i
      BY <2>1 DEF StillAvailable, Assigned
    <3>2. rows'[i] = rows[i]
      BY <2>1, <3>1, SMT
    <3> QED
      BY <3>2, RowKept
  <2> QED
    BY <1>0, <1>1, <2>1 DEF TakeCandidate
<1>2. ASSUME NEW p \in Processes, AssignName(p)
      PROVE  Assigned(i, t)' \/ rows'[i] = NoRow
  <2>1. Makes(p)
    BY <1>2 DEF AssignName, At, Makes
  <2>2. op[p].id # i
    BY <2>1, SMT DEF IInv, Making, Assigned
  <2>3. rows'[i] = rows[i]
    BY <1>2, <2>2, SMT DEF AssignName
  <2> QED
    BY <2>3, RowKept
<1>3. ASSUME NEW p \in Processes, InsertProvisioning(p) \/ InsertClaim(p)
      PROVE  Assigned(i, t)' \/ rows'[i] = NoRow
  <2>1. CASE inserted' = inserted + 1 /\ \E row : rows' = [rows EXCEPT ![inserted'] = row]
    <3>1. i <= inserted
      BY OpTyped, SMT DEF IInv, Fresh, Assigned, Ids
    <3>2. i # inserted'
      BY <2>1, <3>1, OpTyped, <1>3, DomainsAssumption, SMT DEF Ids
    <3>3. rows'[i] = rows[i]
      BY <2>1, <3>2, SMT
    <3> QED
      BY <3>3, RowKept
  <2> QED
    BY <1>0, <1>3, <2>1 DEF InsertProvisioning, InsertClaim, Insert
<1>4. ASSUME NEW id, rows' = [rows EXCEPT ![id] = NoRow]
      PROVE  Assigned(i, t)' \/ rows'[i] = NoRow
  <2>1. rows'[i] = rows[i] \/ rows'[i] = NoRow
    BY <1>4, Zenon
  <2> QED
    BY <2>1, RowKept
<1>5. ASSUME NEW p \in Processes, SaveRoute(p)
      PROVE  Assigned(i, t)' \/ rows'[i] = NoRow
  <2>1. CASE rows' = [rows EXCEPT ![op[p].id].routed = TRUE]
    <3>1. rows'[i] = rows[i] \/ rows'[i] = [rows[i] EXCEPT !.routed = TRUE]
      BY <2>1, Zenon
    <3>2. rows[i] \in Row
      OBVIOUS
    <3>3. /\ [rows[i] EXCEPT !.routed = TRUE].status = rows[i].status
          /\ [rows[i] EXCEPT !.routed = TRUE].target = rows[i].target
      BY <3>2, SMT DEF Row
    <3> QED
      BY <3>1, <3>3 DEF Assigned
  <2> QED
    BY <1>0, <1>5, <2>1 DEF SaveRoute
<1>6. ASSUME NEW p \in Processes, Step(p) \/ CallFails(p)
      PROVE  Assigned(i, t)' \/ rows'[i] = NoRow
  <2>1. CASE ReadCandidate(p) \/ NoFreeName(p) \/ \E n \in Names : PickName(p, n)
    BY <1>0, <2>1 DEF ReadCandidate, NoFreeName, PickName
  <2>2. ASSUME NEW ok \in BOOLEAN, CreateRecord(p, ok)
        PROVE  Assigned(i, t)' \/ rows'[i] = NoRow
    BY <1>0, <1>4, <2>2 DEF CreateRecord
  <2>3. CASE ListStuck(p) \/ CountAvailable(p) \/ ListPrevious(p) \/ ListDomains(p) \/ RemoveRoute(p)
    BY <1>0, <2>3 DEF ListStuck, CountAvailable, ListPrevious, ListDomains, RemoveRoute
  <2>4. CASE PurgeStuck(p) \/ DeleteRow(p)
    BY <1>0, <1>4, <2>4 DEF PurgeStuck, DeleteRow
  <2>5. ASSUME NEW ok \in BOOLEAN,
               \/ CreateApp(p, ok) \/ CreateClaimRecord(p, ok) \/ AddRoute(p, ok)
               \/ RemoveApp(p, ok) \/ DeleteTarget(p)
        PROVE  Assigned(i, t)' \/ rows'[i] = NoRow
    BY <1>0, <2>5 DEF CreateApp, CreateClaimRecord, AddRoute, RemoveApp, DeleteTarget
  <2>6. CASE ReleaseFails(p)
    BY <1>0, <2>6 DEF ReleaseFails
  <2> QED
    BY <1>1, <1>2, <1>3, <1>5, <1>6, <2>1, <2>2, <2>3, <2>4, <2>5, <2>6 DEF Step, CallFails
<1>7. CASE BeginRefill \/ Request \/ Crash \/ UNCHANGED vars
  BY <1>0, <1>7, Zenon DEF BeginRefill, Request, BeginFirst, BeginClaim, BeginRemove, Crash, vars
<1> QED
  BY <1>6, <1>7 DEF Next

\* The property of the runs: a name given to one target is never given to another while
\* its row lives.
THEOREM AssignmentKeptHolds == Spec => AssignmentKept
<1>1. IInv /\ [Next]_vars =>
        [\A i \in Ids, t \in Targets : Assigned(i, t) => Assigned(i, t)' \/ rows'[i] = NoRow]_vars
  BY StepKeepsAssignments
<1> QED
  BY <1>1, MakersApart, PTL DEF Spec, AssignmentKept
=============================================================================

------------------------- MODULE DomainsProperties -------------------------
(***************************************************************************)
(* What the domain pool and the addresses of targets have to guarantee.    *)
(***************************************************************************)
EXTENDS Domains

Assigned(i, t) == rows[i].status = "assigned" /\ rows[i].target = t
Addresses(t)   == {i \in Ids : Assigned(i, t)}
Handled(t)     == \E p \in Processes : op[p].target = t
Removing(t)    == \E p \in Processes : op[p].kind = "remove" /\ op[p].target = t

\* "The conditional update makes concurrent claims safe": a name that one target was
\* given is never given to another while its row lives, however first deploys, claims
\* and the cron task overlap.
AssignmentKept ==
    [][\A i \in Ids, t \in Targets :
         Assigned(i, t) => Assigned(i, t)' \/ rows'[i] = NoRow]_vars

\* No claim leaves a target without an address: concurrent claims release each other's
\* old names, never the last.  Only its removal takes that, or the refill in the step that
\* purges a row which it read as stuck and which was assigned meanwhile (domains.go:146).
AddressKept ==
    [][\A t \in Targets :
         Addresses(t) # {} /\ ~Removing(t) /\ ~PurgeStuck(Cron) => Addresses(t)' # {}]_vars

\* Once the requests for a target have ended without a failing call, each address it has
\* is routed to it.
AddressRouted ==
    faults = 0 =>
        \A t \in live : ~Handled(t) =>
            \A i \in Addresses(t) : \E r \in routes : r.name = rows[i].name /\ r.target = t
=============================================================================

------------------------------ MODULE AccessPlan ------------------------------
(***************************************************************************)
(* The console's rules for who may do what on an item                      *)
(* (api/domain/access-plan, the capability rules of resource-access): what *)
(* an edit asks for, the requests that get an item there, and what the     *)
(* core keeps of them. Users and groups are principals; a principal's      *)
(* capabilities are a set.                                                 *)
(***************************************************************************)
EXTENDS Naturals, Sequences, SequencesExt

CONSTANTS
    People, Groups,   \* the principals
    Capabilities,     \* in the frozen order, VIEW first
    Offered,          \* the capabilities the item's type enforces
    Nobody            \* no crown: none of the principals

Principals == People \cup Groups
Caps == ToSet(Capabilities)
Access == [crown : Principals \cup {Nobody}, owners : SUBSET Principals, grants : [Principals -> SUBSET Caps]]
NoAccess == [crown |-> Nobody, owners |-> {}, grants |-> [p \in Principals |-> {}]]

\* Any capability implies VIEW: the core adds it to every set it is posted.
Closed(caps) == IF caps = {} THEN {} ELSE caps \cup {"VIEW"}

\* What the core answers of an item: the user who holds the crown is never
\* listed as holding a grant, although such rows may exist.
Unlisted(item, p) == p = item.crown /\ p \in People
ViewOf(item) == [item EXCEPT !.grants = [p \in Principals |-> IF Unlisted(item, p) THEN {} ELSE item.grants[p]]]

HoldsAnything(access) == \E p \in Principals : access.grants[p] # {}
\* The item carries access of its own: its owner is gone, or somebody holds
\* a grant.
Overrides(access, known) ==
    (access.crown # Nobody /\ access.crown \notin known) \/ HoldsAnything(access)

\* What a bulk edit asks of one item. Grant and revoke leave whoever is not
\* named alone, replace starts from the owners; owners are only ever added.
BulkTarget(access, draft, mode) ==
    LET named == draft.grants
        Resulting(p) ==
            CASE mode = "grant"   -> access.grants[p] \cup Closed(named[p])
              [] mode = "revoke"  -> IF "VIEW" \in named[p] THEN {} ELSE access.grants[p] \ named[p]
              [] mode = "replace" -> Closed(named[p])
    IN [crown |-> IF draft.crown = Nobody THEN access.crown ELSE draft.crown,
        owners |-> access.owners \cup draft.owners,
        grants |-> [p \in Principals |-> Resulting(p)]]

\* A panel's edit states the whole access; no crown leaves the item's own.
ItemTarget(access, draft) == [draft EXCEPT !.crown = IF @ = Nobody THEN access.crown ELSE @]

Op(kind, who, add) == [kind |-> kind, who |-> who, add |-> add]
Each(kind, set, add) == LET seq == SetToSeq(set) IN [i \in DOMAIN seq |-> Op(kind, seq[i], add)]

\* Mutant: every principal of the item is written again.
PlanOpsAll(from, to) ==
    (IF to.crown # from.crown THEN <<Op("crown", to.crown, TRUE)>> ELSE <<>>) \o Each("grants", Principals, TRUE)
    \o Each("owner", to.owners \ from.owners, TRUE) \o Each("owner", from.owners \ to.owners, FALSE)
\* The requests of one item, in the order they are sent: the crown, the users
\* by capability, the groups, then the owners. A principal's capabilities are
\* always sent as the whole set it ends with.
PlanOps(from, to) ==
    LET Changed(c) == Each("grants", {p \in People : c \in to.grants[p] \ from.grants[p]}, TRUE)
                      \o Each("grants", {p \in People : c \in from.grants[p] \ to.grants[p]}, FALSE)
    IN (IF to.crown # from.crown THEN <<Op("crown", to.crown, TRUE)>> ELSE <<>>)
       \o FlattenSeq([i \in DOMAIN Capabilities |-> Changed(Capabilities[i])])
       \o Each("grants", {g \in Groups : to.grants[g] # from.grants[g]}, TRUE)
       \o Each("owner", (to.owners \ from.owners) \cap People, TRUE) \o Each("owner", (from.owners \ to.owners) \cap People, FALSE)
       \o Each("owner", (to.owners \ from.owners) \cap Groups, TRUE) \o Each("owner", (from.owners \ to.owners) \cap Groups, FALSE)

PlanItem(id, access, to) == [id |-> id, from |-> access, to |-> to, ops |-> PlanOps(access, to)]

\* Whether the core takes a request: it must know the principal it names,
\* but for a user whose rows are taken away.
Takes(op, to, known) ==
    \/ op.who \in known
    \/ op.who \in People /\ (IF op.kind = "grants" THEN to.grants[op.who] = {} ELSE op.kind = "owner" /\ ~op.add)
\* What a request does to the item's rows.
Applied(item, op, to) ==
    CASE op.kind = "crown"  -> [item EXCEPT !.crown = op.who]
      [] op.kind = "grants" -> [item EXCEPT !.grants[op.who] = Closed(to.grants[op.who])]
      [] op.kind = "owner"  -> [item EXCEPT !.owners = IF op.add THEN @ \cup {op.who} ELSE @ \ {op.who}]

-----------------------------------------------------------------------------
(* The draft an editor holds.                                              *)

\* VIEW reads as held by whoever holds anything; a revoke reads the record raw.
Holds(draft, p, c, raw) == c \in draft.grants[p] \/ (~raw /\ c = "VIEW" /\ draft.grants[p] # {})
\* Pressing a capability's chip: on for all the picked principals, or off
\* when they all hold it. Clearing VIEW clears what implies it.
Chip(draft, picked, c, revoking) ==
    LET on == \E p \in picked : ~Holds(draft, p, c, revoking)
        Given(p) == draft.grants[p] \cup {c} \cup (IF revoking THEN {} ELSE {"VIEW"})
        Taken(p) == IF c = "VIEW" THEN {} ELSE draft.grants[p] \ {c}
    IN [draft EXCEPT !.grants = [p \in Principals |-> IF p \notin picked THEN @[p] ELSE IF on THEN Given(p) ELSE Taken(p)]]
\* The chips there are: a capability the type no longer enforces keeps its
\* chip while somebody holds it, so that it can be cleared.
ChipsOf(draft) == Offered \cup {c \in Caps : \E p \in Principals : c \in draft.grants[p]}
\* Owners hold everything, so the catalog of overrides leaves them out (a
\* group that holds the crown stays in it).
Pool(draft, known) == known \ (draft.owners \cup ({draft.crown} \cap People))
==============================================================================

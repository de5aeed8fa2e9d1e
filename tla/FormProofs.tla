----------------------------- MODULE FormProofs -----------------------------
(***************************************************************************)
(* The two forms of the console whose work is redone elsewhere.            *)
(*                                                                         *)
(* The access panels show what a plan of requests will leave; that it ends *)
(* so, for every number of accounts, groups, capabilities and items, while *)
(* other administrators write, requests fail and are tried again, is an    *)
(* invariant of the page.  What a plan holds is shown for the operators    *)
(* that make it.                                                           *)
(*                                                                         *)
(* The chain editor plans the captures that the core plans again from its  *)
(* own words; that both plans agree, for chains of every length, is shown  *)
(* by induction over the chain and by walking the core's recursion along   *)
(* the console's.                                                          *)
(***************************************************************************)
EXTENDS Console, Induction, FiniteSetTheorems

Who == Access!Principals
Requests == [kind : {"crown", "grants", "owner"}, who : Who, add : BOOLEAN]
\* A sequence of requests that are those of a set.
OfSet(s, X) == s \in Seq(Requests) /\ \A x : x \in X <=> \E n \in DOMAIN s : s[n] = x

-----------------------------------------------------------------------------
(* Access panels: the requests of a plan.                                  *)

\* A finite set is listed once each.
LEMMA ListOfSet ==
  ASSUME NEW S, IsFiniteSet(S)
  PROVE  LET s == Access!SetToSeq(S)
         IN  /\ s \in Seq(S) /\ \A x \in S : \E n \in DOMAIN s : s[n] = x
             /\ \A m, n \in DOMAIN s : s[m] = s[n] => m = n
<1> DEFINE N == Cardinality(S)
           s == Access!SetToSeq(S)
<1>1. N \in Nat /\ ExistsBijection(1 .. N, S) BY FS_CardinalityType
<1>2. PICK f \in Bijection(1 .. N, S) : TRUE BY <1>1 DEF ExistsBijection
<1>3. f \in [1 .. N -> S] /\ Access!IsInjective(f)
  BY <1>2 DEF Bijection, Injection, Access!IsInjective, IsInjective
<1>4. s \in [1 .. N -> S] /\ Access!IsInjective(s)
  <2>1. Access!Cardinality(S) = N BY DEF Access!Cardinality, Cardinality
  <2> QED BY <1>3, <2>1 DEF Access!SetToSeq
<1> HIDE DEF s
<1>5. s \in Injection(1 .. N, S)
  BY <1>4 DEF Injection, Access!IsInjective, IsInjective
<1>6. IsFiniteSet(1 .. N) /\ Cardinality(1 .. N) = N
  BY <1>1, FS_Interval
<1>7. s \in Surjection(1 .. N, S)
  BY <1>5, <1>6, FS_Injection
<1>8. \A x \in S : \E n \in 1 .. N : s[n] = x
  BY <1>7 DEF Surjection
<1> HIDE DEF N
<1>9. s \in Seq(S) /\ DOMAIN s = 1 .. N BY <1>1, <1>4
<1> QED BY <1>4, <1>8, <1>9 DEF s, Access!IsInjective

LEMMA ListNone == OfSet(<<>>, {})
BY DEF OfSet

LEMMA ListOne ==
  ASSUME NEW x \in Requests
  PROVE  OfSet(<<x>>, {x})
<1>1. <<x>> \in Seq(Requests) /\ DOMAIN <<x>> = {1} /\ <<x>>[1] = x OBVIOUS
<1> QED BY <1>1 DEF OfSet

LEMMA ListBoth ==
  ASSUME NEW s, NEW t, NEW X, NEW Y, OfSet(s, X), OfSet(t, Y)
  PROVE  OfSet(s \o t, X \cup Y)
<1>1. s \in Seq(Requests) /\ t \in Seq(Requests) BY DEF OfSet
<1>2. /\ s \o t \in Seq(Requests) /\ Len(s \o t) = Len(s) + Len(t)
      /\ \A n \in 1 .. Len(s) + Len(t) : (s \o t)[n] = IF n <= Len(s) THEN s[n] ELSE t[n - Len(s)]
  BY <1>1
<1>3. DOMAIN s = 1 .. Len(s) /\ DOMAIN t = 1 .. Len(t) /\ DOMAIN (s \o t) = 1 .. Len(s) + Len(t) /\ Len(s) \in Nat /\ Len(t) \in Nat
  BY <1>1, <1>2
<1>4. ASSUME NEW n \in DOMAIN s PROVE n \in DOMAIN (s \o t) /\ (s \o t)[n] = s[n]
  BY <1>2, <1>3
<1>5. ASSUME NEW n \in DOMAIN t PROVE n + Len(s) \in DOMAIN (s \o t) /\ (s \o t)[n + Len(s)] = t[n]
  BY <1>2, <1>3
<1>6. ASSUME NEW n \in DOMAIN (s \o t)
      PROVE  (n \in DOMAIN s /\ (s \o t)[n] = s[n]) \/ (n - Len(s) \in DOMAIN t /\ (s \o t)[n] = t[n - Len(s)])
  BY <1>2, <1>3
<1>7. ASSUME NEW x PROVE x \in X \cup Y <=> \E n \in DOMAIN (s \o t) : (s \o t)[n] = x
  <2>1. x \in X => \E n \in DOMAIN (s \o t) : (s \o t)[n] = x BY <1>4 DEF OfSet
  <2>2. x \in Y => \E n \in DOMAIN (s \o t) : (s \o t)[n] = x
    <3> SUFFICES ASSUME x \in Y PROVE \E n \in DOMAIN (s \o t) : (s \o t)[n] = x OBVIOUS
    <3>1. PICK n \in DOMAIN t : t[n] = x BY DEF OfSet
    <3> QED BY <1>5, <3>1
  <2>3. ASSUME NEW n \in DOMAIN (s \o t), (s \o t)[n] = x PROVE x \in X \cup Y
    BY <1>6, <2>3 DEF OfSet
  <2> QED BY <2>1, <2>2, <2>3
<1> QED BY <1>2, <1>7 DEF OfSet

\* What is in the first N of some sets.
First(XX, N) == UNION {XX[n] : n \in 1 .. N}
\* Lists one after the other, in the recursive function of FlattenSeq.
LEMMA ListAll ==
  ASSUME NEW N \in Nat, NEW ss, NEW XX, DOMAIN ss = 1 .. N, ss \in Seq(Seq(Requests)),
         \A n \in 1 .. N : OfSet(ss[n], XX[n])
  PROVE  OfSet(Access!FlattenSeq(ss), First(XX, N))
<1>0. Len(ss) = N OBVIOUS
<1>1. CASE N = 0
  <2>1. ss = <<>> BY <1>0, <1>1
  <2>2. First(XX, N) = {} BY <1>1 DEF First
  <2> QED BY <1>0, <1>1, <2>1, <2>2, ListNone DEF Access!FlattenSeq
<1>2. CASE N # 0
  <2> DEFINE flat == CHOOSE h : h = [i \in 1 .. Len(ss) |-> IF i = 1 THEN ss[i] ELSE h[i - 1] \o ss[i]]
             F == [n \in 1 .. N |-> [s \in Seq(Requests) |-> s \o ss[n]]]
             Good(n) == n + 1 <= N => OfSet(flat[n + 1], First(XX, n + 1))
             T == {n \in Nat : Good(n)}
  <2>1. Access!FlattenSeq(ss) = flat[N] BY <1>0, <1>2 DEF Access!FlattenSeq
  <2>2. \A n \in 1 .. N : ss[n] \in Seq(Requests) BY DEF OfSet
  <2>3. F \in [1 .. N -> [Seq(Requests) -> Seq(Requests)]] BY <2>2
  <2>4. <<>> \in Seq(Requests) OBVIOUS
  <2>5. PICK h \in [0 .. N -> Seq(Requests)] : h[0] = <<>> /\ \A n \in 1 .. N : h[n] = F[n][h[n - 1]]
    <3> HIDE DEF F
    <3>1. Unfolds(Seq(Requests), N) BY Unfolding
    <3> QED BY <2>3, <2>4, <3>1 DEF Unfolds
  <2>6. \A n \in 1 .. N : n - 1 \in 0 .. N /\ h[n - 1] \in Seq(Requests) /\ h[n] = h[n - 1] \o ss[n]
    <3> TAKE n \in 1 .. N
    <3>1. n - 1 \in 0 .. N OBVIOUS
    <3>2. h[n - 1] \in Seq(Requests) BY <2>5, <3>1
    <3> QED BY <2>5, <3>1, <3>2
  <2> HIDE DEF F
  <2> DEFINE g == [n \in 1 .. N |-> h[n]]
  <2>7. g = [i \in 1 .. Len(ss) |-> IF i = 1 THEN ss[i] ELSE g[i - 1] \o ss[i]]
    <3>1. ASSUME NEW i \in 1 .. N PROVE h[i] = IF i = 1 THEN ss[i] ELSE g[i - 1] \o ss[i]
      <4>1. CASE i = 1
        <5>0. 1 \in 1 .. N /\ 1 - 1 = 0 BY <4>1
        <5>1. h[1] = <<>> \o ss[1] BY <2>5, <2>6, <5>0
        <5> QED BY <2>2, <4>1, <5>1
      <4>2. CASE i # 1
        <5>1. i - 1 \in 1 .. N BY <4>2
        <5> QED BY <2>6, <4>2, <5>1
      <4> QED BY <4>1, <4>2
    <3> QED BY <1>0, <3>1
  <2> HIDE DEF g
  <2>8. flat = [i \in 1 .. Len(ss) |-> IF i = 1 THEN ss[i] ELSE flat[i - 1] \o ss[i]] BY <2>7
  <2> HIDE DEF flat
  <2>9. Good(0)
    <3>1. flat[1] = ss[1] BY <1>0, <1>2, <2>8
    <3>2. First(XX, 0 + 1) = XX[1] BY DEF First
    <3>3. OfSet(ss[1], XX[1]) BY <1>2
    <3>4. 0 + 1 = 1 OBVIOUS
    <3> QED BY <3>1, <3>2, <3>3, <3>4
  <2>10. ASSUME NEW n \in Nat, Good(n) PROVE Good(n + 1)
    <3> SUFFICES ASSUME (n + 1) + 1 <= N
                 PROVE  OfSet(flat[(n + 1) + 1], First(XX, (n + 1) + 1))
      OBVIOUS
    <3>1. n + 2 \in 1 .. N /\ n + 2 # 1 /\ (n + 2) - 1 = n + 1 /\ (n + 1) + 1 = n + 2 /\ n + 1 <= N OBVIOUS
    <3>2. flat[n + 2] = flat[n + 1] \o ss[n + 2] BY <1>0, <2>8, <3>1
    <3>3. OfSet(flat[n + 1], First(XX, n + 1)) BY <2>10, <3>1
    <3>4. OfSet(ss[n + 2], XX[n + 2]) BY <3>1
    <3>5. First(XX, n + 2) = First(XX, n + 1) \cup XX[n + 2]
      <4>1. 1 .. n + 2 = (1 .. n + 1) \cup {n + 2} OBVIOUS
      <4> QED BY <4>1 DEF First
    <3>6. OfSet(flat[n + 1] \o ss[n + 2], First(XX, n + 1) \cup XX[n + 2])
      BY <3>3, <3>4, ListBoth
    <3> QED BY <3>1, <3>2, <3>5, <3>6
  <2> HIDE DEF Good
  <2>11. 0 \in T /\ \A n \in Nat : n \in T => n + 1 \in T BY <2>9, <2>10
  <2>12. \A n \in Nat : Good(n)
    <3> HIDE DEF T
    <3>1. Nat \subseteq T BY <2>11, SetInduction
    <3> QED BY <3>1 DEF T
  <2>13. N - 1 \in Nat /\ (N - 1) + 1 = N /\ N <= N BY <1>2
  <2>14. Good(N - 1) BY <2>12, <2>13
  <2> QED BY <2>1, <2>13, <2>14 DEF Good
<1> QED BY <1>1, <1>2

\* The requests for the principals of a set.
LEMMA ListEach ==
  ASSUME NEW kind \in {"grants", "owner"}, NEW S \in SUBSET Who, IsFiniteSet(S), NEW add \in BOOLEAN
  PROVE  OfSet(Access!Each(kind, S, add), {Access!Op(kind, p, add) : p \in S})
<1> DEFINE s == Access!SetToSeq(S)
<1>1. /\ s \in Seq(S) /\ \A x \in S : \E n \in DOMAIN s : s[n] = x
  BY ListOfSet
<1>2. Access!Each(kind, S, add) = [i \in DOMAIN s |-> Access!Op(kind, s[i], add)]
  BY DEF Access!Each
<1> HIDE DEF s
<1>3. DOMAIN s = 1 .. Len(s) /\ Len(s) \in Nat /\ \A n \in DOMAIN s : s[n] \in S BY <1>1
<1>4. \A p \in S : Access!Op(kind, p, add) \in Requests BY DEF Access!Op, Requests
<1>5. [i \in DOMAIN s |-> Access!Op(kind, s[i], add)] \in Seq(Requests) BY <1>3, <1>4
<1> QED BY <1>1, <1>2, <1>3, <1>5 DEF OfSet

Listed(a) == \A p \in Who : a.grants[p] # {} => "VIEW" \in a.grants[p]
\* Access as the core keeps it.
Kept == {a \in Access!Access : Listed(a)}
\* A request that takes an item from one access towards another.
Meant(op, from, to) ==
    /\ op.kind = "crown" => op.who = to.crown /\ to.crown # from.crown
    /\ op.kind = "grants" => to.grants[op.who] # from.grants[op.who]
    /\ op.kind = "owner" => op.who \in (IF op.add THEN to.owners \ from.owners ELSE from.owners \ to.owners)
Crowns(ops) == \E n \in DOMAIN ops : ops[n].kind = "crown"
Writes(ops, p) == \E n \in DOMAIN ops : ops[n].kind = "grants" /\ ops[n].who = p
Owns(ops, p) == \E n \in DOMAIN ops : ops[n].kind = "owner" /\ ops[n].who = p

LEMMA FiniteWho == IsFiniteSet(People) /\ IsFiniteSet(Groups) /\ Who = People \cup Groups
BY AccessAssumption DEF Who, Access!Principals

LEMMA CapsFacts == Access!Caps = {Capabilities[n] : n \in DOMAIN Capabilities} /\ "VIEW" \in Access!Caps
BY AccessAssumption DEF Access!Caps, Access!ToSet

\* A plan asks for every difference and for nothing else.
LEMMA PlanOpsFacts ==
  ASSUME NEW from \in Access!Access, NEW to \in Access!Access, to.crown = from.crown \/ to.crown \in Who
  PROVE  LET ops == Access!PlanOps(from, to)
         IN  /\ ops \in Seq(Requests) /\ \A n \in DOMAIN ops : Meant(ops[n], from, to)
             /\ to.crown # from.crown => Crowns(ops)
             /\ \A p \in Who : to.grants[p] # from.grants[p] => Writes(ops, p)
             /\ \A p \in Who : ~(p \in to.owners <=> p \in from.owners) => Owns(ops, p)
<1> DEFINE crown == IF to.crown # from.crown THEN <<Access!Op("crown", to.crown, TRUE)>> ELSE <<>>
           crowns == IF to.crown # from.crown THEN {Access!Op("crown", to.crown, TRUE)} ELSE {}
           more(c) == {p \in People : c \in to.grants[p] \ from.grants[p]}
           less(c) == {p \in People : c \in from.grants[p] \ to.grants[p]}
           changed(c) == Access!Each("grants", more(c), TRUE) \o Access!Each("grants", less(c), FALSE)
           changes(c) == {Access!Op("grants", p, TRUE) : p \in more(c)} \cup {Access!Op("grants", p, FALSE) : p \in less(c)}
           ss == [i \in DOMAIN Capabilities |-> changed(Capabilities[i])]
           XX == [i \in DOMAIN Capabilities |-> changes(Capabilities[i])]
           people == First(XX, Len(Capabilities))
           teams == {g \in Groups : to.grants[g] # from.grants[g]}
           joining(S) == (to.owners \ from.owners) \cap S
           leaving(S) == (from.owners \ to.owners) \cap S
           ops == Access!PlanOps(from, to)
           N == Len(Capabilities)
<1>1. DOMAIN Capabilities = 1 .. N /\ N \in Nat BY AccessAssumption
<1>2. OfSet(crown, crowns)
  <2>1. CASE to.crown = from.crown BY <2>1, ListNone
  <2>2. CASE to.crown # from.crown
    <3>1. Access!Op("crown", to.crown, TRUE) \in Requests BY <2>2 DEF Access!Op, Requests
    <3> QED BY <2>2, <3>1, ListOne
  <2> QED BY <2>1, <2>2
<1>3. ASSUME NEW kind \in {"grants", "owner"}, NEW S \in SUBSET Who, NEW add \in BOOLEAN
      PROVE  OfSet(Access!Each(kind, S, add), {Access!Op(kind, p, add) : p \in S})
  <2>1. IsFiniteSet(Who) BY FiniteWho, FS_Union
  <2>2. IsFiniteSet(S) BY <2>1, FS_Subset
  <2> QED BY <2>2, ListEach
<1>4. \A c : OfSet(changed(c), changes(c))
  <2> TAKE c
  <2>1. more(c) \in SUBSET Who /\ less(c) \in SUBSET Who BY FiniteWho
  <2> HIDE DEF more, less
  <2>2. OfSet(Access!Each("grants", more(c), TRUE), {Access!Op("grants", p, TRUE) : p \in more(c)}) BY <1>3, <2>1
  <2>3. OfSet(Access!Each("grants", less(c), FALSE), {Access!Op("grants", p, FALSE) : p \in less(c)}) BY <1>3, <2>1
  <2> QED BY <2>2, <2>3, ListBoth
<1>5. OfSet(Access!FlattenSeq(ss), people)
  <2> HIDE DEF changed, changes
  <2>1. DOMAIN ss = 1 .. N /\ \A n \in 1 .. N : OfSet(ss[n], XX[n]) BY <1>1, <1>4
  <2>2. \A n \in 1 .. N : ss[n] \in Seq(Requests) BY <2>1 DEF OfSet
  <2>3. ss \in Seq(Seq(Requests)) BY <1>1, <2>2
  <2> HIDE DEF ss, XX, N
  <2> QED BY <1>1, <2>1, <2>3, ListAll DEF N
<1>6. OfSet(Access!Each("grants", teams, TRUE), {Access!Op("grants", p, TRUE) : p \in teams})
  BY <1>3, FiniteWho
<1>7. ASSUME NEW S \in {People, Groups}
      PROVE  /\ OfSet(Access!Each("owner", joining(S), TRUE), {Access!Op("owner", p, TRUE) : p \in joining(S)})
             /\ OfSet(Access!Each("owner", leaving(S), FALSE), {Access!Op("owner", p, FALSE) : p \in leaving(S)})
  <2>1. joining(S) \in SUBSET Who /\ leaving(S) \in SUBSET Who BY FiniteWho
  <2> HIDE DEF joining, leaving
  <2> QED BY <1>3, <2>1
<1>8. ops = crown \o Access!FlattenSeq(ss) \o Access!Each("grants", teams, TRUE)
            \o Access!Each("owner", joining(People), TRUE) \o Access!Each("owner", leaving(People), FALSE)
            \o Access!Each("owner", joining(Groups), TRUE) \o Access!Each("owner", leaving(Groups), FALSE)
  BY DEF Access!PlanOps
<1> DEFINE all == crowns \cup people \cup {Access!Op("grants", p, TRUE) : p \in teams}
                  \cup {Access!Op("owner", p, TRUE) : p \in joining(People)} \cup {Access!Op("owner", p, FALSE) : p \in leaving(People)}
                  \cup {Access!Op("owner", p, TRUE) : p \in joining(Groups)} \cup {Access!Op("owner", p, FALSE) : p \in leaving(Groups)}
<1>9. OfSet(ops, all)
  <2> HIDE DEF crown, crowns, ss, people, teams, joining, leaving, ops
  <2>1. OfSet(crown \o Access!FlattenSeq(ss), crowns \cup people) BY <1>2, <1>5, ListBoth
  <2>2. OfSet(crown \o Access!FlattenSeq(ss) \o Access!Each("grants", teams, TRUE),
              crowns \cup people \cup {Access!Op("grants", p, TRUE) : p \in teams})
    BY <1>6, <2>1, ListBoth
  <2> QED BY <1>7, <1>8, <2>2, ListBoth
<1>10. /\ \A op \in crowns : op = Access!Op("crown", to.crown, TRUE) /\ to.crown # from.crown
       /\ to.crown # from.crown => \E op \in crowns : op = Access!Op("crown", to.crown, TRUE)
  OBVIOUS
<1>11. /\ \A op \in people : \E p \in People, add \in BOOLEAN : op = Access!Op("grants", p, add) /\ to.grants[p] # from.grants[p]
       /\ \A p \in People : to.grants[p] # from.grants[p] => \E add \in BOOLEAN : Access!Op("grants", p, add) \in people
  <2>1. ASSUME NEW op \in people
        PROVE \E p \in People, add \in BOOLEAN : op = Access!Op("grants", p, add) /\ to.grants[p] # from.grants[p]
    <3>1. PICK n \in 1 .. N : op \in XX[n] BY <2>1 DEF First
    <3>2. op \in changes(Capabilities[n]) BY <1>1, <3>1
    <3>3. CASE \E p \in more(Capabilities[n]) : op = Access!Op("grants", p, TRUE)
      <4>1. PICK p \in more(Capabilities[n]) : op = Access!Op("grants", p, TRUE) BY <3>3
      <4>2. p \in People /\ to.grants[p] # from.grants[p] OBVIOUS
      <4> QED BY <4>1, <4>2
    <3>4. CASE \E p \in less(Capabilities[n]) : op = Access!Op("grants", p, FALSE)
      <4>1. PICK p \in less(Capabilities[n]) : op = Access!Op("grants", p, FALSE) BY <3>4
      <4>2. p \in People /\ to.grants[p] # from.grants[p] OBVIOUS
      <4> QED BY <4>1, <4>2
    <3> QED BY <3>2, <3>3, <3>4
  <2>2. ASSUME NEW p \in People, to.grants[p] # from.grants[p]
        PROVE  \E add \in BOOLEAN : Access!Op("grants", p, add) \in people
    <3>1. to.grants[p] \subseteq Access!Caps /\ from.grants[p] \subseteq Access!Caps
      BY FiniteWho DEF Access!Access, Who
    <3>0. PICK c \in Access!Caps : ~(c \in to.grants[p] <=> c \in from.grants[p]) BY <2>2, <3>1
    <3>2. PICK n \in 1 .. N : ~(Capabilities[n] \in to.grants[p] <=> Capabilities[n] \in from.grants[p])
      BY <1>1, <3>0, CapsFacts
    <3>3. CASE Capabilities[n] \in to.grants[p]
      <4>1. p \in more(Capabilities[n]) BY <3>2, <3>3
      <4>2. Access!Op("grants", p, TRUE) \in XX[n] BY <1>1, <4>1
      <4> QED BY <4>2 DEF First
    <3>4. CASE Capabilities[n] \notin to.grants[p]
      <4>1. p \in less(Capabilities[n]) BY <3>2, <3>4
      <4>2. Access!Op("grants", p, FALSE) \in XX[n] BY <1>1, <4>1
      <4> QED BY <4>2 DEF First
    <3> QED BY <3>3, <3>4
  <2> QED BY <2>1, <2>2
<1> HIDE DEF crowns, people, ops
<1>12. ops \in Seq(Requests) /\ \A x : x \in all <=> \E n \in DOMAIN ops : ops[n] = x
  BY <1>9 DEF OfSet
<1>13. \A kind, p, add : /\ Access!Op(kind, p, add).kind = kind
                        /\ Access!Op(kind, p, add).who = p
                        /\ Access!Op(kind, p, add).add = add
  BY DEF Access!Op
<1>14. ASSUME NEW op \in all PROVE Meant(op, from, to)
  <2>0. \/ op \in crowns \/ op \in people \/ \E p \in teams : op = Access!Op("grants", p, TRUE)
        \/ \E p \in to.owners \ from.owners : op = Access!Op("owner", p, TRUE)
        \/ \E p \in from.owners \ to.owners : op = Access!Op("owner", p, FALSE)
    OBVIOUS
  <2> HIDE DEF all
  <2>1. CASE op \in crowns BY <1>10, <2>1 DEF Meant, Access!Op
  <2>2. CASE op \in people BY <1>11, <2>2 DEF Meant, Access!Op
  <2>3. CASE \E p \in teams : op = Access!Op("grants", p, TRUE) BY <2>3 DEF Meant, Access!Op
  <2>4. CASE \E p \in to.owners \ from.owners : op = Access!Op("owner", p, TRUE) BY <2>4 DEF Meant, Access!Op
  <2>5. CASE \E p \in from.owners \ to.owners : op = Access!Op("owner", p, FALSE) BY <2>5 DEF Meant, Access!Op
  <2> QED BY <2>0, <2>1, <2>2, <2>3, <2>4, <2>5
<1>15. to.crown # from.crown => Crowns(ops)
  <2> SUFFICES ASSUME to.crown # from.crown PROVE Crowns(ops) OBVIOUS
  <2>1. Access!Op("crown", to.crown, TRUE) \in all BY <1>10
  <2> HIDE DEF all
  <2>2. PICK n \in DOMAIN ops : ops[n] = Access!Op("crown", to.crown, TRUE) BY <1>12, <2>1
  <2>3. ops[n].kind = "crown" BY <2>2 DEF Access!Op
  <2> QED BY <2>3 DEF Crowns
<1>16. ASSUME NEW p \in Who, to.grants[p] # from.grants[p] PROVE Writes(ops, p)
  <2>1. \E add \in BOOLEAN : Access!Op("grants", p, add) \in all
    <3>1. CASE p \in People BY <1>11, <1>16, <3>1
    <3>2. CASE p \in Groups BY <1>16, <3>2
    <3> QED BY <3>1, <3>2, FiniteWho
  <2> HIDE DEF all
  <2> QED BY <1>12, <1>13, <2>1 DEF Writes
<1>17. ASSUME NEW p \in Who, ~(p \in to.owners <=> p \in from.owners) PROVE Owns(ops, p)
  <2>1. \E add \in BOOLEAN : Access!Op("owner", p, add) \in all
    <3>1. CASE p \in to.owners BY <1>17, <3>1, FiniteWho
    <3>2. CASE p \notin to.owners BY <1>17, <3>2, FiniteWho
    <3> QED BY <3>1, <3>2
  <2> HIDE DEF all
  <2> QED BY <1>12, <1>13, <2>1 DEF Owns
<1> HIDE DEF all
<1> QED BY <1>12, <1>14, <1>15, <1>16, <1>17 DEF ops

-----------------------------------------------------------------------------
(* Access panels: what an item carries, what was read, what a plan leaves. *)
Ways == {"grant", "revoke", "replace"}

LEMMA AccessFacts ==
  ASSUME NEW a \in Access!Access
  PROVE  /\ a.crown \in Who \cup {Nobody} /\ a.owners \subseteq Who /\ a.grants \in [Who -> SUBSET Access!Caps]
         /\ a = [crown |-> a.crown, owners |-> a.owners, grants |-> a.grants]
BY DEF Access!Access, Who

LEMMA AccessMade ==
  ASSUME NEW crown \in Who \cup {Nobody}, NEW owners \in SUBSET Who, NEW grants \in [Who -> SUBSET Access!Caps]
  PROVE  [crown |-> crown, owners |-> owners, grants |-> grants] \in Access!Access
BY DEF Access!Access, Who

\* Other owners, another crown, other grants.
LEMMA PartFacts ==
  ASSUME NEW a \in Access!Access
  PROVE  /\ \A S \in SUBSET Who : LET b == [a EXCEPT !.owners = S] IN b \in Access!Access /\ (a \in Kept => b \in Kept)
         /\ \A p \in Who \cup {Nobody} : LET b == [a EXCEPT !.crown = p] IN b \in Access!Access /\ (a \in Kept => b \in Kept)
         /\ \A g \in [Who -> SUBSET Access!Caps] :
               LET b == [a EXCEPT !.grants = g] IN b \in Access!Access /\ b.grants = g
<1>1. ASSUME NEW S \in SUBSET Who
      PROVE  LET b == [a EXCEPT !.owners = S] IN b \in Access!Access /\ (a \in Kept => b \in Kept)
  <2> DEFINE b == [a EXCEPT !.owners = S]
  <2>1. b = [crown |-> a.crown, owners |-> S, grants |-> a.grants] BY AccessFacts
  <2> HIDE DEF b
  <2>2. b \in Access!Access BY <2>1, AccessFacts, AccessMade
  <2> QED BY <2>1, <2>2 DEF Kept, Listed, b
<1>2. ASSUME NEW p \in Who \cup {Nobody}
      PROVE  LET b == [a EXCEPT !.crown = p] IN b \in Access!Access /\ (a \in Kept => b \in Kept)
  <2> DEFINE b == [a EXCEPT !.crown = p]
  <2>1. b = [crown |-> p, owners |-> a.owners, grants |-> a.grants] BY AccessFacts
  <2> HIDE DEF b
  <2>2. b \in Access!Access BY <2>1, AccessFacts, AccessMade
  <2> QED BY <2>1, <2>2 DEF Kept, Listed, b
<1>3. ASSUME NEW g \in [Who -> SUBSET Access!Caps]
      PROVE  LET b == [a EXCEPT !.grants = g] IN b \in Access!Access /\ b.grants = g
  <2> DEFINE b == [a EXCEPT !.grants = g]
  <2>1. b = [crown |-> a.crown, owners |-> a.owners, grants |-> g] BY AccessFacts
  <2> HIDE DEF b
  <2>2. b \in Access!Access BY <2>1, AccessFacts, AccessMade
  <2> QED BY <2>1, <2>2 DEF b
<1> QED BY <1>1, <1>2, <1>3

\* A chip never leaves a capability without VIEW, but in a revoke, whose draft
\* names what to take.
LEMMA ChipFacts ==
  ASSUME NEW draft \in Access!Access, NEW picked, NEW c \in Access!Caps, NEW revoking \in BOOLEAN
  PROVE  LET next == Access!Chip(draft, picked, c, revoking)
         IN  next \in Access!Access /\ (draft \in Kept /\ ~revoking => next \in Kept)
<1> DEFINE on == \E p \in picked : ~Access!Holds(draft, p, c, revoking)
           given(p) == draft.grants[p] \cup {c} \cup (IF revoking THEN {} ELSE {"VIEW"})
           taken(p) == IF c = "VIEW" THEN {} ELSE draft.grants[p] \ {c}
           grants == [p \in Who |-> IF p \notin picked THEN draft.grants[p] ELSE IF on THEN given(p) ELSE taken(p)]
           next == [draft EXCEPT !.grants = grants]
<1>1. Access!Chip(draft, picked, c, revoking) = next BY DEF Access!Chip, Who
<1>2. ASSUME NEW p \in Who
      PROVE  /\ draft.grants[p] \in SUBSET Access!Caps /\ given(p) \in SUBSET Access!Caps /\ taken(p) \in SUBSET Access!Caps
             /\ Listed(draft) /\ ~revoking =>
                   /\ draft.grants[p] # {} => "VIEW" \in draft.grants[p]
                   /\ "VIEW" \in given(p)
                   /\ taken(p) # {} => "VIEW" \in taken(p)
  <2>1. draft.grants[p] \in SUBSET Access!Caps BY AccessFacts
  <2> QED BY <2>1, CapsFacts DEF Listed
<1> HIDE DEF on, given, taken
<1>3. grants \in [Who -> SUBSET Access!Caps] BY <1>2
<1>4. Listed(draft) /\ ~revoking => \A p \in Who : grants[p] # {} => "VIEW" \in grants[p] BY <1>2
<1> HIDE DEF grants
<1>5. next \in Access!Access /\ next.grants = grants BY <1>3, PartFacts
<1> HIDE DEF next
<1> QED BY <1>1, <1>4, <1>5 DEF Kept, Listed

LEMMA ClosedFacts ==
  ASSUME NEW caps \in SUBSET Access!Caps
  PROVE  /\ Access!Closed(caps) \in SUBSET Access!Caps
         /\ Access!Closed(caps) # {} => "VIEW" \in Access!Closed(caps)
         /\ (caps # {} => "VIEW" \in caps) => Access!Closed(caps) = caps
BY CapsFacts DEF Access!Closed

LEMMA MarkFacts == Access!NoAccess \in Kept /\ Access!Unread \notin Access!Access /\ \A p \in Who : Access!Unread.grants[p] = {}
<1>1. Access!NoAccess = [crown |-> Nobody, owners |-> {}, grants |-> [p \in Who |-> {}]]
  BY DEF Access!NoAccess, Who
<1>2. Access!NoAccess \in Access!Access BY <1>1, AccessMade
<1>3. Access!Unread.crown = "unread" /\ Access!Unread.grants = Access!NoAccess.grants
  BY <1>1 DEF Access!Unread
<1>4. "unread" \notin Who \cup {Nobody} BY AccessAssumption DEF Who, Access!Principals
<1>5. \A a \in Access!Access : a.crown \in Who \cup {Nobody} BY AccessFacts
<1>6. Listed(Access!NoAccess) /\ \A p \in Who : Access!NoAccess.grants[p] = {} BY <1>1 DEF Listed
<1> QED BY <1>2, <1>3, <1>4, <1>5, <1>6 DEF Kept

LEMMA ViewFacts ==
  ASSUME NEW item \in Kept
  PROVE  LET view == Access!ViewOf(item)
         IN  /\ view \in Kept /\ view.crown = item.crown /\ view.owners = item.owners
             /\ \A p \in Who : view.grants[p] = IF Access!Unlisted(item, p) THEN {} ELSE item.grants[p]
             /\ \A p \in Who : Access!Unlisted(view, p) => view.grants[p] = {}
<1> DEFINE view == Access!ViewOf(item)
           left == [p \in Who |-> IF Access!Unlisted(item, p) THEN {} ELSE item.grants[p]]
<1>1. item \in Access!Access /\ Listed(item) BY DEF Kept
<1>2. view = [crown |-> item.crown, owners |-> item.owners, grants |-> left]
  <2>1. view = [item EXCEPT !.grants = left] BY DEF Access!ViewOf, Who
  <2> HIDE DEF left, view
  <2> QED BY <1>1, <2>1, AccessFacts
<1>3. left \in [Who -> SUBSET Access!Caps] BY <1>1, AccessFacts
<1>4. view \in Access!Access BY <1>1, <1>2, <1>3, AccessFacts, AccessMade
<1>5. Listed(view) BY <1>1, <1>2 DEF Listed
<1>6. \A p : Access!Unlisted(view, p) <=> Access!Unlisted(item, p) BY <1>2 DEF Access!Unlisted
<1> QED BY <1>2, <1>4, <1>5, <1>6 DEF Kept

LEMMA BulkFacts ==
  ASSUME NEW a \in Kept, NEW draft \in Access!Access, NEW mode \in Ways
  PROVE  LET to == Access!BulkTarget(a, draft, mode)
         IN  /\ to \in Kept /\ (to.crown = a.crown \/ to.crown \in Who) /\ a.owners \subseteq to.owners
             /\ draft.owners \subseteq to.owners
             /\ \A p \in Who : to.grants[p] =
                    CASE mode = "grant"   -> a.grants[p] \cup Access!Closed(draft.grants[p])
                      [] mode = "revoke"  -> IF "VIEW" \in draft.grants[p] THEN {} ELSE a.grants[p] \ draft.grants[p]
                      [] mode = "replace" -> Access!Closed(draft.grants[p])
<1> DEFINE end == [p \in Who |->
                     CASE mode = "grant"   -> a.grants[p] \cup Access!Closed(draft.grants[p])
                       [] mode = "revoke"  -> IF "VIEW" \in draft.grants[p] THEN {} ELSE a.grants[p] \ draft.grants[p]
                       [] mode = "replace" -> Access!Closed(draft.grants[p])]
           crown == IF draft.crown = Nobody THEN a.crown ELSE draft.crown
           to == Access!BulkTarget(a, draft, mode)
<1>1. a \in Access!Access /\ Listed(a) BY DEF Kept
<1>2. to = [crown |-> crown, owners |-> a.owners \cup draft.owners, grants |-> end]
  BY DEF Access!BulkTarget, Who
<1>3. ASSUME NEW p \in Who PROVE end[p] \in SUBSET Access!Caps /\ (end[p] # {} => "VIEW" \in end[p])
  <2>1. a.grants[p] \in SUBSET Access!Caps /\ draft.grants[p] \in SUBSET Access!Caps /\ (a.grants[p] # {} => "VIEW" \in a.grants[p])
    BY <1>1, AccessFacts DEF Listed
  <2>2. CASE mode = "grant" BY <2>1, <2>2, ClosedFacts
  <2>3. CASE mode = "revoke" BY <2>1, <2>3
  <2>4. CASE mode = "replace" BY <2>1, <2>4, ClosedFacts
  <2> QED BY <2>2, <2>3, <2>4 DEF Ways
<1>4. end \in [Who -> SUBSET Access!Caps] BY <1>3
<1>5. crown \in Who \cup {Nobody} /\ (crown = a.crown \/ crown \in Who) /\ a.owners \cup draft.owners \in SUBSET Who
  BY <1>1, AccessFacts
<1>6. \A p \in Who : end[p] = CASE mode = "grant"   -> a.grants[p] \cup Access!Closed(draft.grants[p])
                       [] mode = "revoke"  -> IF "VIEW" \in draft.grants[p] THEN {} ELSE a.grants[p] \ draft.grants[p]
                       [] mode = "replace" -> Access!Closed(draft.grants[p])
  OBVIOUS
<1> HIDE DEF end, crown, to
<1>7. to \in Access!Access BY <1>2, <1>4, <1>5, AccessMade
<1>8. Listed(to) BY <1>2, <1>3 DEF Listed
<1>9. to \in Kept BY <1>7, <1>8 DEF Kept
<1>10. to.crown = crown /\ to.owners = a.owners \cup draft.owners /\ to.grants = end BY <1>2
<1>11. a.owners \subseteq to.owners /\ draft.owners \subseteq to.owners BY <1>10
<1>12. to.crown = a.crown \/ to.crown \in Who BY <1>5, <1>10
<1> QED BY <1>6, <1>9, <1>10, <1>11, <1>12, Zenon DEF to

LEMMA ItemFacts ==
  ASSUME NEW a \in Kept, NEW draft \in Kept
  PROVE  LET to == Access!ItemTarget(a, draft)
         IN  to \in Kept /\ (to.crown = a.crown \/ to.crown \in Who)
<1> DEFINE to == Access!ItemTarget(a, draft)
<1>1. a \in Access!Access /\ draft \in Access!Access /\ Listed(draft) BY DEF Kept
<1>2. to = [crown |-> IF draft.crown = Nobody THEN a.crown ELSE draft.crown, owners |-> draft.owners, grants |-> draft.grants]
  BY <1>1, AccessFacts DEF Access!ItemTarget
<1>3. to \in Access!Access BY <1>1, <1>2, AccessFacts, AccessMade
<1>4. Listed(to) BY <1>1, <1>2 DEF Listed
<1> QED BY <1>1, <1>2, <1>3, <1>4, AccessFacts DEF Kept

\* The item carries, of each part, what was read or what is asked for; the
\* grants that are not listed aside.
Between(item, from, to) ==
    /\ item.crown \in {from.crown, to.crown}
    /\ \A p \in Who : (p \in item.owners <=> p \in from.owners) \/ (p \in item.owners <=> p \in to.owners)
    /\ \A p \in Who : item.grants[p] \in {from.grants[p], to.grants[p]} \/ Access!Unlisted(from, p)
\* Every part is as asked for, or a request for it is due.
Due(item, from, to, ops) ==
    /\ to.crown = Nobody \/ item.crown = to.crown \/ Crowns(ops)
    /\ \A p \in Who : (p \in item.owners <=> p \in to.owners) \/ Owns(ops, p)
    /\ \A p \in Who : \/ item.grants[p] = to.grants[p]
                      \/ Writes(ops, p)
                      \/ Access!Unlisted(from, p) /\ from.grants[p] = to.grants[p]

LEMMA FreshIsBetween ==
  ASSUME NEW item \in Kept, NEW to
  PROVE  Between(item, Access!ViewOf(item), to)
BY ViewFacts DEF Between, Access!Unlisted

LEMMA PlanIsDue ==
  ASSUME NEW item, NEW from \in Kept, NEW to \in Kept, to.crown = from.crown \/ to.crown \in Who, Between(item, from, to)
  PROVE  Due(item, from, to, Access!PlanOps(from, to))
<1>1. from \in Access!Access /\ to \in Access!Access BY DEF Kept
<1> DEFINE ops == Access!PlanOps(from, to)
<1>2. /\ to.crown # from.crown => Crowns(ops)
      /\ \A p \in Who : to.grants[p] # from.grants[p] => Writes(ops, p)
      /\ \A p \in Who : ~(p \in to.owners <=> p \in from.owners) => Owns(ops, p)
  BY <1>1, PlanOpsFacts
<1> HIDE DEF ops
<1>3. to.crown = Nobody \/ item.crown = to.crown \/ Crowns(ops) BY <1>2 DEF Between
<1>4. \A p \in Who : (p \in item.owners <=> p \in to.owners) \/ Owns(ops, p) BY <1>2 DEF Between
<1>5. \A p \in Who : \/ item.grants[p] = to.grants[p]
                     \/ Writes(ops, p)
                     \/ Access!Unlisted(from, p) /\ from.grants[p] = to.grants[p]
  <2> TAKE p \in Who
  <2>1. CASE to.grants[p] # from.grants[p] BY <1>2, <2>1
  <2>2. CASE to.grants[p] = from.grants[p]
    <3>1. item.grants[p] \in {from.grants[p], to.grants[p]} \/ Access!Unlisted(from, p) BY DEF Between
    <3> QED BY <2>2, <3>1
  <2> QED BY <2>1, <2>2
<1> QED BY <1>3, <1>4, <1>5 DEF Due, ops

\* One request more.
LEMMA RequestFacts ==
  ASSUME NEW item \in Kept, NEW from \in Kept, NEW to \in Kept, NEW ops \in Seq(Requests), ops # <<>>,
         \A n \in DOMAIN ops : Meant(ops[n], from, to)
  PROVE  LET then == Access!Applied(item, ops[1], to)
         IN  /\ then \in Kept /\ Tail(ops) \in Seq(Requests)
             /\ \A n \in DOMAIN Tail(ops) : Meant(Tail(ops)[n], from, to)
             /\ Due(item, from, to, ops) => Due(then, from, to, Tail(ops))
             /\ Between(item, from, to) => Between(then, from, to)
             /\ \A p \in Who : from.grants[p] = to.grants[p] => then.grants[p] = item.grants[p]
             /\ \A p \in Who : (p \in from.owners <=> p \in to.owners) => (p \in then.owners <=> p \in item.owners)
             /\ from.owners \subseteq to.owners => item.owners \subseteq then.owners
<1> DEFINE op == ops[1]
           then == Access!Applied(item, op, to)
           rest == Tail(ops)
<1>1. op \in Requests /\ Meant(op, from, to) /\ rest \in Seq(Requests) /\ 1 \in DOMAIN ops
  OBVIOUS
<1>2. \A n \in DOMAIN rest : n + 1 \in DOMAIN ops /\ rest[n] = ops[n + 1] OBVIOUS
<1>3. \A n \in DOMAIN ops : n # 1 => n - 1 \in DOMAIN rest /\ rest[n - 1] = ops[n] OBVIOUS
<1>4. item \in Access!Access /\ Listed(item) /\ to \in Access!Access /\ Listed(to) /\ from \in Access!Access BY DEF Kept
<1>5. op.kind \in {"crown", "grants", "owner"} /\ op.who \in Who /\ op.add \in BOOLEAN BY <1>1 DEF Requests
<1> HIDE DEF rest
<1>6. ASSUME NEW p, Writes(ops, p) PROVE Writes(rest, p) \/ (op.kind = "grants" /\ op.who = p)
  BY <1>3, <1>6 DEF Writes
<1>7. ASSUME NEW p, Owns(ops, p) PROVE Owns(rest, p) \/ (op.kind = "owner" /\ op.who = p)
  BY <1>3, <1>7 DEF Owns
<1>8. Crowns(ops) => Crowns(rest) \/ op.kind = "crown"
  BY <1>3 DEF Crowns
<1>9. \A n \in DOMAIN rest : Meant(rest[n], from, to) BY <1>2
<1>10. CASE op.kind = "crown"
  <2>1. then = [crown |-> op.who, owners |-> item.owners, grants |-> item.grants]
    BY <1>4, <1>10, AccessFacts DEF Access!Applied
  <2> HIDE DEF then, op
  <2>2. then \in Kept BY <1>4, <1>5, <2>1, AccessFacts, AccessMade DEF Kept, Listed
  <2>3. op.who = to.crown BY <1>1, <1>10 DEF Meant
  <2>4. Due(item, from, to, ops) => Due(then, from, to, rest)
    BY <1>6, <1>7, <1>10, <2>1, <2>3 DEF Due
  <2>5. Between(item, from, to) => Between(then, from, to) BY <2>1, <2>3 DEF Between
  <2> QED BY <1>1, <1>9, <2>1, <2>2, <2>4, <2>5 DEF then, op, rest
<1>11. CASE op.kind = "grants"
  <2>0. to.grants[op.who] \in SUBSET Access!Caps /\ Access!Closed(to.grants[op.who]) = to.grants[op.who]
    BY <1>4, <1>5, AccessFacts, ClosedFacts DEF Listed
  <2>1. then = [crown |-> item.crown, owners |-> item.owners, grants |-> [item.grants EXCEPT ![op.who] = to.grants[op.who]]]
    BY <1>4, <1>11, <2>0, AccessFacts DEF Access!Applied
  <2> HIDE DEF then, op
  <2>2. \A p \in Who : then.grants[p] = IF p = op.who THEN to.grants[p] ELSE item.grants[p]
    BY <1>4, <1>5, <2>1, AccessFacts
  <2>3. then.grants \in [Who -> SUBSET Access!Caps] BY <1>4, <1>5, <2>0, <2>1, AccessFacts
  <2>4. then \in Access!Access BY <1>4, <2>1, <2>3, AccessFacts, AccessMade
  <2>5. Listed(then) BY <1>4, <2>2 DEF Listed
  <2>6. Due(item, from, to, ops) => Due(then, from, to, rest)
    BY <1>6, <1>7, <1>8, <1>11, <2>1, <2>2 DEF Due
  <2>7. Between(item, from, to) => Between(then, from, to) BY <2>1, <2>2 DEF Between
  <2>8. to.grants[op.who] # from.grants[op.who] BY <1>1, <1>11 DEF Meant
  <2> QED BY <1>1, <1>9, <2>1, <2>2, <2>4, <2>5, <2>6, <2>7, <2>8 DEF then, op, rest, Kept
<1>12. CASE op.kind = "owner"
  <2>1. then = [crown |-> item.crown, owners |-> IF op.add THEN item.owners \cup {op.who} ELSE item.owners \ {op.who}, grants |-> item.grants]
    <3>1. op.kind # "crown" /\ op.kind # "grants" BY <1>12
    <3> HIDE DEF op
    <3> DEFINE left == IF op.add THEN item.owners \cup {op.who} ELSE item.owners \ {op.who}
    <3>2. then = [item EXCEPT !.owners = left]
      BY <1>12, <3>1 DEF Access!Applied
    <3> HIDE DEF then, left
    <3>3. then = [crown |-> item.crown, owners |-> left, grants |-> item.grants] BY <1>4, <3>2, AccessFacts
    <3> QED BY <3>3 DEF left
  <2> HIDE DEF then, op
  <2>2. op.who \in (IF op.add THEN to.owners \ from.owners ELSE from.owners \ to.owners) BY <1>1, <1>12 DEF Meant
  <2>3. \A p : IF p = op.who THEN p \in then.owners <=> p \in to.owners ELSE p \in then.owners <=> p \in item.owners
    BY <1>5, <2>1, <2>2
  <2>4. then \in Access!Access
    <3>1. item.owners \cup {op.who} \in SUBSET Who /\ item.owners \ {op.who} \in SUBSET Who BY <1>4, <1>5, AccessFacts
    <3>2. (IF op.add THEN item.owners \cup {op.who} ELSE item.owners \ {op.who}) \in SUBSET Who BY <3>1
    <3> QED BY <1>4, <2>1, <3>2, AccessFacts, AccessMade
  <2>5. Listed(then) BY <1>4, <2>1 DEF Listed
  <2>6. Due(item, from, to, ops) => Due(then, from, to, rest)
    BY <1>6, <1>7, <1>8, <1>12, <2>1, <2>3 DEF Due
  <2>7. Between(item, from, to) => Between(then, from, to) BY <2>1, <2>3 DEF Between
  <2>8. from.owners \subseteq to.owners => op.add BY <2>2
  <2> QED BY <1>1, <1>9, <2>1, <2>2, <2>3, <2>4, <2>5, <2>6, <2>7, <2>8 DEF then, op, rest, Kept
<1> QED BY <1>5, <1>10, <1>11, <1>12

-----------------------------------------------------------------------------
(* Access panels: the invariant.                                           *)
AllItems == Access!AllItems
Plan == [id : AllItems, from : Kept, to : Kept, ops : Seq(Requests)]
Panel == [kind : {"none", "item", "bulk", "creation"}, items : SUBSET AllItems, draft : Access!Access, mode : Ways, confirming : BOOLEAN]

AccessTyped ==
    /\ c1 \in [AllItems -> Kept] /\ c2 \subseteq Who
    /\ c3 \in [AllItems -> Kept \cup {Access!Unread}]
    /\ \A i \in AllItems, p \in Who : Access!Unlisted(c3[i], p) => c3[i].grants[p] = {}
    /\ c4 \in Panel
    /\ c5 \in [busy : BOOLEAN, mode : Ways, plans : Seq(Plan), failed : SUBSET AllItems]
    /\ c6 \subseteq AllItems
\* What each panel is about. A bulk edit is planned and confirmed on reads of
\* all its items.
AccessPanels ==
    /\ c4.kind = "none" => ~c5.busy
    /\ c4.kind = "item" => c4.draft \in Kept /\ \E i \in Items : c4.items = {i}
    /\ c4.kind = "bulk" => c4.items = Items
    /\ c4.kind = "creation" => c4.draft \in Kept
    /\ c4.confirming \/ (c4.kind = "bulk" /\ c5.busy) => c4.kind = "bulk" /\ Access!Loaded
    /\ c5.plans # <<>> => c5.busy
\* A plan asks for what it needs only; an item nobody else wrote to is where
\* the plan takes it, or a request is due. The bulk dialog's plans are of its
\* draft, and so they stay while they are sent.
AccessPlans ==
    /\ \A m, n \in DOMAIN c5.plans : c5.plans[m].id = c5.plans[n].id => m = n
    /\ \A n \in DOMAIN c5.plans :
          LET plan == c5.plans[n] IN
          /\ \A k \in DOMAIN plan.ops : Meant(plan.ops[k], plan.from, plan.to)
          /\ plan.id \notin c6 => Due(c1[plan.id], plan.from, plan.to, plan.ops)
          /\ c4.kind = "bulk" => /\ plan.id \in Items /\ plan.from = c3[plan.id]
                                 /\ plan.to = Access!BulkTarget(c3[plan.id], c4.draft, c5.mode)
\* What nobody else wrote to is as the item's panel read it, and on the way to
\* what the bulk dialog asks: there, unless it failed or is still to be sent.
OnItsWay(i) ==
    /\ c4.kind = "item" /\ ~c5.busy => c3[i] = Access!ViewOf(c1[i])
    /\ c4.kind = "bulk" =>
          Between(c1[i], c3[i], Access!BulkTarget(c3[i], c4.draft, IF c5.busy THEN c5.mode ELSE c4.mode))
    /\ c4.kind = "bulk" /\ c5.busy /\ i \notin c5.failed /\ (\A n \in DOMAIN c5.plans : c5.plans[n].id # i) =>
          Due(c1[i], c3[i], Access!BulkTarget(c3[i], c4.draft, c5.mode), <<>>)
AccessReads == \A i \in c4.items \ c6 : c3[i] # Access!Unread => OnItsWay(i)
AccessInv == AccessTyped /\ AccessPanels /\ AccessPlans /\ AccessReads

-----------------------------------------------------------------------------
(* Access panels: the steps.                                               *)
LEMMA AccessBegins == Access!AccessInit => AccessInv
<1> SUFFICES ASSUME Access!AccessInit PROVE AccessInv OBVIOUS
<1>1. \A i \in AllItems : c1[i] = IF i \in Items THEN StartAccess[i] ELSE Access!NoAccess
  BY DEF Access!AccessInit, AllItems
<1>2. \A i \in Items : StartAccess[i] \in Kept
  BY AccessAssumption DEF Kept, Listed, Who, Access!Principals
<1>3. c1 \in [AllItems -> Kept]
  <2>1. \A i \in AllItems : c1[i] \in Kept BY <1>1, <1>2, MarkFacts
  <2> QED BY <2>1 DEF Access!AccessInit, AllItems
<1>4. c3 = [i \in AllItems |-> IF i \in Cached THEN Access!ViewOf(c1[i]) ELSE Access!Unread]
  BY DEF Access!AccessInit, AllItems
<1>5. c3 \in [AllItems -> Kept \cup {Access!Unread}]
  <2>1. \A i \in AllItems : Access!ViewOf(c1[i]) \in Kept BY <1>3, ViewFacts
  <2> QED BY <1>4, <2>1
<1>6. ASSUME NEW i \in AllItems, NEW p \in Who, Access!Unlisted(c3[i], p) PROVE c3[i].grants[p] = {}
  <2>1. c1[i] \in Kept BY <1>3
  <2>2. CASE i \in Cached BY <1>4, <1>6, <2>1, <2>2, ViewFacts
  <2>3. CASE i \notin Cached BY <1>4, <2>3, MarkFacts
  <2> QED BY <2>2, <2>3
<1>7. c4 \in Panel /\ c4.kind = "none" /\ c4.confirming = FALSE /\ c4.items = {}
  BY MarkFacts DEF Access!AccessInit, Access!NoPanel, Panel, Ways, Kept
<1>8. /\ c5 \in [busy : BOOLEAN, mode : Ways, plans : Seq(Plan), failed : SUBSET AllItems]
      /\ c5.plans = <<>> /\ ~c5.busy /\ c6 = {} /\ c2 \subseteq Who
  BY DEF Access!AccessInit, Access!Idle, Ways, Who
<1> QED BY <1>3, <1>5, <1>6, <1>7, <1>8 DEF AccessInv, AccessTyped, AccessPanels, AccessPlans, AccessReads

\* What was not marked as old is what the core would answer, or not read.
LEMMA OldReads ==
  ASSUME AccessTyped, Access!FromOldReads
  PROVE  /\ c6' \subseteq AllItems /\ c6 \subseteq c6'
         /\ \A i \in AllItems \ c6' : c3[i] # Access!Unread => c3[i] = Access!ViewOf(c1[i])
BY DEF AccessTyped, Access!FromOldReads, AllItems

\* Between two applications everything that was read anew is as it was read.
LEMMA FreshReads ==
  ASSUME AccessTyped, UNCHANGED <<c1, c2, c3>>, ~c5'.busy, c4'.items \subseteq AllItems,
         NEW S, S \subseteq AllItems, S \subseteq c6',
         \A i \in AllItems \ S : c3[i] # Access!Unread => c3[i] = Access!ViewOf(c1[i])
  PROVE  AccessReads'
<1> SUFFICES ASSUME NEW i \in c4'.items \ c6', c3[i] # Access!Unread PROVE OnItsWay(i)'
  BY DEF AccessReads
<1>1. c1[i] \in Kept /\ c3[i] = Access!ViewOf(c1[i]) BY DEF AccessTyped
<1>2. \A to : Between(c1[i], c3[i], to) BY <1>1, FreshIsBetween
<1> QED BY <1>1, <1>2 DEF OnItsWay

\* With no plan under way the plans are as they should be.
LEMMA NoPlans == ASSUME c5'.plans = <<>> PROVE AccessPlans'
BY DEF AccessPlans

LEMMA OpensKeep ==
  ASSUME AccessInv, Access!OpenBulk \/ Access!OpenCreation \/ \E i \in Items : Access!OpenPanel(i)
  PROVE  AccessInv'
<1>1. c4.kind = "none" /\ Access!FromOldReads /\ UNCHANGED <<c1, c2, c3, c5>>
  BY DEF Access!OpenBulk, Access!OpenCreation, Access!OpenPanel
<1>2. AccessTyped /\ ~c5.busy /\ c5.plans = <<>> BY <1>1 DEF AccessInv, AccessPanels
<1>3. Items \subseteq AllItems /\ NewItem \in AllItems BY DEF AllItems, Access!AllItems
<1>4. /\ c4' \in Panel /\ c4'.confirming = FALSE /\ c4'.kind \in {"item", "bulk", "creation"}
      /\ c4'.kind = "item" => c4'.draft \in Kept /\ \E i \in Items : c4'.items = {i}
      /\ c4'.kind = "bulk" => c4'.items = Items
      /\ c4'.kind = "creation" => c4'.draft \in Kept
  <2>1. CASE Access!OpenBulk
    <3>1. c4' = [kind |-> "bulk", items |-> Items, draft |-> Access!NoAccess, mode |-> "grant", confirming |-> FALSE]
      BY <2>1 DEF Access!OpenBulk, Access!NoPanel
    <3> QED BY <1>3, <3>1, MarkFacts DEF Panel, Ways, Kept
  <2>2. CASE Access!OpenCreation
    <3>1. c4' = [kind |-> "creation", items |-> {NewItem}, draft |-> Access!NoAccess, mode |-> "replace", confirming |-> FALSE]
      BY <2>2 DEF Access!OpenCreation, Access!NoPanel
    <3> QED BY <1>3, <3>1, MarkFacts DEF Panel, Ways, Kept
  <2>3. CASE \E i \in Items : Access!OpenPanel(i)
    <3>1. PICK i \in Items : Access!OpenPanel(i) BY <2>3
    <3> DEFINE draft == IF c3[i] = Access!Unread THEN Access!NoAccess ELSE c3[i]
    <3>2. c4' = [kind |-> "item", items |-> {i}, draft |-> draft, mode |-> "replace", confirming |-> FALSE]
      BY <3>1 DEF Access!OpenPanel, Access!NoPanel
    <3>3. draft \in Kept BY <1>2, <1>3, MarkFacts DEF AccessTyped
    <3> HIDE DEF draft
    <3> QED BY <1>3, <3>2, <3>3 DEF Panel, Ways, Kept
  <2> QED BY <2>1, <2>2, <2>3
<1>5. c6' \subseteq AllItems /\ \A i \in AllItems \ c6' : c3[i] # Access!Unread => c3[i] = Access!ViewOf(c1[i])
  BY <1>1, <1>2, OldReads
<1>6. AccessTyped' BY <1>1, <1>2, <1>4, <1>5 DEF AccessTyped
<1>7. AccessPanels' BY <1>1, <1>2, <1>4 DEF AccessPanels
<1>8. AccessReads' BY <1>1, <1>2, <1>4, <1>5, FreshReads DEF Panel
<1> QED BY <1>1, <1>2, <1>6, <1>7, <1>8, NoPlans DEF AccessInv

LEMMA CloseKeeps == ASSUME AccessInv, Access!ClosePanel PROVE AccessInv'
<1>1. /\ c4' = [kind |-> "none", items |-> {}, draft |-> Access!NoAccess, mode |-> "replace", confirming |-> FALSE]
      /\ c5' = [busy |-> FALSE, mode |-> "replace", plans |-> <<>>, failed |-> {}]
      /\ UNCHANGED <<c1, c2, c3, c6>>
  BY DEF Access!ClosePanel, Access!NoPanel, Access!Idle
<1>2. AccessTyped' BY <1>1, MarkFacts DEF AccessInv, AccessTyped, Panel, Ways, Kept
<1>3. AccessPanels' BY <1>1 DEF AccessPanels
<1>4. AccessReads' BY <1>1 DEF AccessReads
<1> QED BY <1>1, <1>2, <1>3, <1>4, NoPlans DEF AccessInv

\* A read lands, of which the item's panel drafts anew.
LEMMA ReadKeeps == ASSUME AccessInv, NEW i \in Items, Access!ReadAccess(i) PROVE AccessInv'
<1> DEFINE view == Access!ViewOf(c1[i])
           draft == Access!DraftFrom(i, view)
<1>1. /\ i \in c4.items /\ c4.kind \in {"item", "bulk"} /\ (c5.busy => c4.kind = "item" /\ c5.plans = <<>>)
      /\ c3' = [c3 EXCEPT ![i] = view] /\ c6' = c6 \ {i} /\ c4' = [c4 EXCEPT !.draft = draft]
      /\ c5' = [c5 EXCEPT !.busy = FALSE] /\ UNCHANGED <<c1, c2>>
  BY DEF Access!ReadAccess
<1>2. AccessTyped /\ AccessPanels /\ i \in AllItems BY DEF AccessInv, AllItems, Access!AllItems
<1>3. view \in Kept /\ \A p \in Who : Access!Unlisted(view, p) => view.grants[p] = {} BY <1>2, ViewFacts DEF AccessTyped
<1>4. draft \in Access!Access /\ (c4.kind = "item" => draft \in Kept) /\ (c4.kind # "item" => draft = c4.draft)
  BY <1>2, <1>3 DEF Access!DraftFrom, AccessTyped, AccessPanels, Panel, Kept
<1> HIDE DEF view, draft
<1>5. c5.plans = <<>> BY <1>1, <1>2 DEF AccessPanels
<1>6. /\ c4'.kind = c4.kind /\ c4'.items = c4.items /\ c4'.mode = c4.mode /\ c4'.confirming = c4.confirming
      /\ c4'.draft = draft /\ c4' \in Panel
  BY <1>1, <1>2, <1>4 DEF AccessTyped, Panel
<1>7. /\ c5'.busy = FALSE /\ c5'.plans = <<>> /\ c5'.mode = c5.mode
      /\ c5' \in [busy : BOOLEAN, mode : Ways, plans : Seq(Plan), failed : SUBSET AllItems]
  BY <1>1, <1>2, <1>5 DEF AccessTyped
<1>8. /\ c3' \in [AllItems -> Kept \cup {Access!Unread}] /\ c3'[i] = view /\ \A j \in AllItems : j # i => c3'[j] = c3[j]
  BY <1>1, <1>2, <1>3 DEF AccessTyped
<1>9. AccessTyped'
  <2>1. \A j \in AllItems, p \in Who : Access!Unlisted(c3'[j], p) => c3'[j].grants[p] = {}
    BY <1>2, <1>3, <1>8 DEF AccessTyped
  <2> QED BY <1>1, <1>2, <1>6, <1>7, <1>8, <2>1 DEF AccessTyped
<1>10. AccessPanels'
  <2>1. view # Access!Unread BY <1>3, MarkFacts DEF Kept
  <2>2. Access!Loaded => Access!Loaded'
    <3>1. c4.items \subseteq AllItems BY <1>2 DEF AccessTyped, Panel
    <3> QED BY <1>6, <1>8, <2>1, <3>1 DEF Access!Loaded
  <2> QED BY <1>2, <1>4, <1>6, <1>7, <2>2 DEF AccessPanels
<1>11. AccessReads'
  <2> SUFFICES ASSUME NEW j \in c4'.items \ c6', c3'[j] # Access!Unread PROVE OnItsWay(j)'
    BY DEF AccessReads
  <2>1. j \in AllItems /\ j \in c4.items BY <1>2, <1>6 DEF AccessTyped, Panel
  <2>2. CASE j = i
    <3>1. c1[i] \in Kept BY <1>2 DEF AccessTyped
    <3>2. \A to : Between(c1[i], view, to) BY <3>1, FreshIsBetween DEF view
    <3> QED BY <1>1, <1>6, <1>7, <1>8, <2>2, <3>2 DEF OnItsWay, view
  <2>3. CASE j # i
    <3>1. c4.kind = "bulk"
      <4>1. c4.kind # "item" BY <1>1, <1>2, <2>1, <2>3 DEF AccessPanels
      <4> QED BY <1>1, <4>1
    <3>2. ~c5.busy BY <1>1, <3>1
    <3>3. OnItsWay(j) BY <1>1, <1>8, <2>1, <2>3 DEF AccessInv, AccessReads
    <3> QED BY <1>1, <1>4, <1>6, <1>7, <1>8, <2>1, <2>3, <3>1, <3>2, <3>3 DEF OnItsWay
  <2> QED BY <2>2, <2>3
<1> QED BY <1>7, <1>9, <1>10, <1>11, NoPlans DEF AccessInv

\* The draft is changed, of a panel that shows what was read.
LEMMA RedraftKeeps ==
  ASSUME AccessInv, NEW draft \in Access!Access, Access!Redraft(draft), c4.kind \in {"item", "creation"} => draft \in Kept
  PROVE  AccessInv'
<1>1. /\ c4.kind # "none" /\ ~c4.confirming /\ ~c5.busy /\ c4' = [c4 EXCEPT !.draft = draft]
      /\ Access!FromOldReads /\ UNCHANGED <<c1, c2, c3, c5>>
  BY DEF Access!Redraft, Access!Editable
<1>2. AccessTyped /\ AccessPanels BY DEF AccessInv
<1>3. /\ c4'.kind = c4.kind /\ c4'.items = c4.items /\ c4'.mode = c4.mode /\ c4'.confirming = c4.confirming
      /\ c4'.draft = draft /\ c4' \in Panel
  BY <1>1, <1>2 DEF AccessTyped, Panel
<1>4. c6' \subseteq AllItems /\ \A i \in AllItems \ c6' : c3[i] # Access!Unread => c3[i] = Access!ViewOf(c1[i])
  BY <1>1, <1>2, OldReads
<1>5. AccessTyped' BY <1>1, <1>2, <1>3, <1>4 DEF AccessTyped
<1>6. AccessPanels' BY <1>1, <1>2, <1>3 DEF AccessPanels
<1>7. AccessReads' BY <1>1, <1>2, <1>3, <1>4, FreshReads DEF Panel
<1>8. c5'.plans = <<>> BY <1>1, <1>2 DEF AccessPanels
<1> QED BY <1>5, <1>6, <1>7, <1>8, NoPlans DEF AccessInv

LEMMA DraftsKeep ==
  ASSUME AccessInv,
         \/ \E c \in Access!Caps : \E picked : Access!PressChip(c, picked)
         \/ \E p \in Who : Access!AddOwner(p) \/ Access!RemoveOwner(p) \/ Access!HandCrown(p)
         \/ Access!KeepCrown
  PROVE  AccessInv'
<1>1. c4 \in Panel /\ c4.draft \in Access!Access /\ c4.draft.owners \subseteq Who
  BY AccessFacts DEF AccessInv, AccessTyped, Panel
<1>2. c4.kind \in {"item", "creation"} => c4.draft \in Kept BY DEF AccessInv, AccessPanels
<1>3. ASSUME NEW c \in Access!Caps, NEW picked, Access!PressChip(c, picked) PROVE AccessInv'
  <2> DEFINE revoking == c4.kind = "bulk" /\ c4.mode = "revoke"
             draft == Access!Chip(c4.draft, picked, c, revoking)
  <2>1. Access!Redraft(draft) BY <1>3 DEF Access!PressChip
  <2>2. draft \in Access!Access /\ (c4.draft \in Kept /\ ~revoking => draft \in Kept) BY <1>1, ChipFacts
  <2> HIDE DEF draft
  <2> QED BY <1>2, <2>1, <2>2, RedraftKeeps
<1>4. ASSUME NEW p \in Who, Access!AddOwner(p) PROVE AccessInv'
  <2> DEFINE owners == c4.draft.owners \cup {p}
             draft == [c4.draft EXCEPT !.owners = owners]
  <2>1. Access!Redraft(draft) BY <1>4 DEF Access!AddOwner
  <2>2. owners \in SUBSET Who BY <1>1
  <2> HIDE DEF owners
  <2>3. draft \in Access!Access /\ (c4.draft \in Kept => draft \in Kept) BY <1>1, <2>2, PartFacts
  <2> HIDE DEF draft
  <2> QED BY <1>2, <2>1, <2>3, RedraftKeeps
<1>5. ASSUME NEW p \in Who, Access!RemoveOwner(p) PROVE AccessInv'
  <2> DEFINE owners == c4.draft.owners \ {p}
             draft == [c4.draft EXCEPT !.owners = owners]
  <2>1. Access!Redraft(draft) BY <1>5 DEF Access!RemoveOwner
  <2>2. owners \in SUBSET Who BY <1>1
  <2> HIDE DEF owners
  <2>3. draft \in Access!Access /\ (c4.draft \in Kept => draft \in Kept) BY <1>1, <2>2, PartFacts
  <2> HIDE DEF draft
  <2> QED BY <1>2, <2>1, <2>3, RedraftKeeps
<1>6. ASSUME NEW p \in Who \cup {Nobody}, Access!Redraft([c4.draft EXCEPT !.crown = p]) PROVE AccessInv'
  <2> DEFINE draft == [c4.draft EXCEPT !.crown = p]
  <2>1. draft \in Access!Access /\ (c4.draft \in Kept => draft \in Kept) BY <1>1, PartFacts
  <2> HIDE DEF draft
  <2> QED BY <1>2, <1>6, <2>1, RedraftKeeps DEF draft
<1>7. ASSUME NEW p \in Who, Access!HandCrown(p) PROVE AccessInv'
  BY <1>6, <1>7 DEF Access!HandCrown
<1>8. ASSUME Access!KeepCrown PROVE AccessInv'
  BY <1>6, <1>8 DEF Access!KeepCrown
<1> QED BY <1>3, <1>4, <1>5, <1>7, <1>8

\* The mode is changed, before the plans are made or while they are sent.
LEMMA ModeKeeps == ASSUME AccessInv, NEW mode \in Ways, Access!SetMode(mode) PROVE AccessInv'
<1>1. /\ c4.kind = "bulk" /\ ~c4.confirming /\ Access!Loaded /\ c4' = [c4 EXCEPT !.mode = mode]
      /\ Access!FromOldReads /\ UNCHANGED <<c1, c2, c3, c5>>
  BY DEF Access!SetMode
<1>2. AccessTyped /\ AccessPanels /\ AccessPlans /\ AccessReads BY DEF AccessInv
<1>3. /\ c4'.kind = "bulk" /\ c4'.items = c4.items /\ c4'.mode = mode /\ ~c4'.confirming
      /\ c4'.draft = c4.draft /\ c4' \in Panel
  BY <1>1, <1>2 DEF AccessTyped, Panel
<1>4. /\ c6' \subseteq AllItems /\ c6 \subseteq c6'
      /\ \A i \in AllItems \ c6' : c3[i] # Access!Unread => c3[i] = Access!ViewOf(c1[i])
  BY <1>1, <1>2, OldReads
<1>5. AccessTyped' BY <1>1, <1>2, <1>3, <1>4 DEF AccessTyped
<1>6. AccessPanels'
  <2>1. Access!Loaded' BY <1>1, <1>3 DEF Access!Loaded
  <2> QED BY <1>1, <1>2, <1>3, <2>1 DEF AccessPanels
<1>7. CASE ~c5.busy
  <2>1. AccessReads' BY <1>1, <1>2, <1>3, <1>4, <1>7, FreshReads DEF Panel
  <2>2. c5'.plans = <<>> BY <1>1, <1>2, <1>7 DEF AccessPanels
  <2> QED BY <1>5, <1>6, <2>1, <2>2, NoPlans DEF AccessInv
<1>8. CASE c5.busy
  <2>1. AccessPlans' BY <1>1, <1>2, <1>3, <1>4 DEF AccessPlans
  <2>2. AccessReads'
    <3> SUFFICES ASSUME NEW i \in c4'.items \ c6', c3'[i] # Access!Unread PROVE OnItsWay(i)'
      BY DEF AccessReads
    <3>1. OnItsWay(i) BY <1>1, <1>2, <1>3, <1>4 DEF AccessReads
    <3> QED BY <1>1, <1>3, <1>8, <3>1 DEF OnItsWay
  <2> QED BY <1>5, <1>6, <2>1, <2>2 DEF AccessInv
<1> QED BY <1>7, <1>8

\* A plan of the console.
LEMMA PlanMade ==
  ASSUME NEW i \in AllItems, NEW from \in Kept, NEW to \in Kept, to.crown = from.crown \/ to.crown \in Who
  PROVE  LET plan == Access!PlanItem(i, from, to)
         IN  /\ plan \in Plan /\ plan.id = i /\ plan.from = from /\ plan.to = to /\ plan.ops = Access!PlanOps(from, to)
             /\ \A k \in DOMAIN plan.ops : Meant(plan.ops[k], from, to)
<1>1. from \in Access!Access /\ to \in Access!Access BY DEF Kept
<1> DEFINE ops == Access!PlanOps(from, to)
           plan == Access!PlanItem(i, from, to)
<1>2. ops \in Seq(Requests) /\ \A k \in DOMAIN ops : Meant(ops[k], from, to) BY <1>1, PlanOpsFacts
<1>3. plan = [id |-> i, from |-> from, to |-> to, ops |-> ops] BY DEF Access!PlanItem
<1> HIDE DEF ops, plan
<1> QED BY <1>2, <1>3 DEF Plan, plan, ops

\* The plans of the items an edit changes, once each.
LEMMA SendsKeep ==
  ASSUME AccessInv, ~c5.busy, Access!Sends, c4.kind \in {"item", "bulk"}, Access!Loaded, UNCHANGED <<c1, c2, c3, c4, c6>>
  PROVE  AccessInv'
<1> DEFINE changing == Access!Changing
           order == Access!SetToSeq(changing)
           plans == [n \in DOMAIN order |-> Access!PlanFor(order[n])]
<1>1. AccessTyped /\ AccessPanels /\ AccessReads BY DEF AccessInv
<1>2. c4.items \subseteq AllItems /\ c4.mode \in Ways /\ c4.draft \in Access!Access BY <1>1 DEF AccessTyped, Panel
<1>3. IsFiniteSet(changing)
  <2>1. IsFiniteSet(c4.items)
    <3>1. \A i : IsFiniteSet({i}) BY FS_Singleton
    <3>2. c4.items = Items \/ \E i : c4.items = {i} BY <1>1 DEF AccessPanels
    <3> QED BY <3>1, <3>2, AccessAssumption
  <2>2. changing \subseteq c4.items BY DEF Access!Changing
  <2> QED BY <2>1, <2>2, FS_Subset
<1>4. ASSUME NEW i \in c4.items
      PROVE  /\ c3[i] \in Kept /\ c3[i] # Access!Unread /\ Access!TargetOf(i) \in Kept
             /\ Access!TargetOf(i).crown = c3[i].crown \/ Access!TargetOf(i).crown \in Who
             /\ c4.kind = "bulk" => Access!TargetOf(i) = Access!BulkTarget(c3[i], c4.draft, c4.mode)
  <2>1. c3[i] \in Kept /\ c3[i] # Access!Unread BY <1>1, <1>2 DEF AccessTyped, Access!Loaded
  <2>2. CASE c4.kind = "bulk"
    <3>1. Access!TargetOf(i) = Access!BulkTarget(c3[i], c4.draft, c4.mode) BY <2>2 DEF Access!TargetOf
    <3> QED BY <1>2, <2>1, <3>1, BulkFacts
  <2>3. CASE c4.kind = "item"
    <3>1. Access!TargetOf(i) = Access!ItemTarget(c3[i], c4.draft) BY <2>3 DEF Access!TargetOf
    <3>2. c4.draft \in Kept BY <1>1, <2>3 DEF AccessPanels
    <3> QED BY <2>1, <2>3, <3>1, <3>2, ItemFacts
  <2> QED BY <2>2, <2>3
<1>5. ASSUME NEW i \in c4.items
      PROVE  LET plan == Access!PlanFor(i)
             IN  /\ plan \in Plan /\ plan.id = i /\ plan.from = c3[i] /\ plan.to = Access!TargetOf(i)
                 /\ \A k \in DOMAIN plan.ops : Meant(plan.ops[k], plan.from, plan.to)
                 /\ i \notin c6 => Due(c1[i], plan.from, plan.to, plan.ops)
  <2> DEFINE to == Access!TargetOf(i)
             plan == Access!PlanItem(i, c3[i], to)
  <2>1. Access!PlanFor(i) = plan BY DEF Access!PlanFor
  <2>2. c3[i] \in Kept /\ to \in Kept /\ (to.crown = c3[i].crown \/ to.crown \in Who) /\ c3[i] # Access!Unread
    BY <1>4
  <2>3. c4.kind = "bulk" => to = Access!BulkTarget(c3[i], c4.draft, c4.mode) BY <1>4
  <2> HIDE DEF to
  <2>4. /\ plan \in Plan /\ plan.id = i /\ plan.from = c3[i] /\ plan.to = to /\ plan.ops = Access!PlanOps(c3[i], to)
        /\ \A k \in DOMAIN plan.ops : Meant(plan.ops[k], c3[i], to)
    BY <1>2, <2>2, PlanMade
  <2> HIDE DEF plan
  <2>5. i \notin c6 => Due(c1[i], c3[i], to, Access!PlanOps(c3[i], to))
    <3> SUFFICES ASSUME i \notin c6 PROVE Between(c1[i], c3[i], to) BY <2>2, PlanIsDue
    <3>1. OnItsWay(i) BY <1>1, <2>2 DEF AccessReads
    <3>2. CASE c4.kind = "item"
      <4>1. c3[i] = Access!ViewOf(c1[i]) /\ c1[i] \in Kept BY <1>1, <1>2, <3>1, <3>2 DEF OnItsWay, AccessTyped
      <4> QED BY <4>1, FreshIsBetween
    <3>3. CASE c4.kind = "bulk" BY <2>3, <3>1, <3>3 DEF OnItsWay
    <3> QED BY <3>2, <3>3
  <2> QED BY <2>1, <2>4, <2>5 DEF to
<1>6. c5' = [busy |-> TRUE, mode |-> c4.mode, plans |-> plans, failed |-> {}]
  BY DEF Access!Sends
<1>7. /\ order \in Seq(changing) /\ \A i \in changing : \E n \in DOMAIN order : order[n] = i
      /\ \A m, n \in DOMAIN order : order[m] = order[n] => m = n
  BY <1>3, ListOfSet
<1>8. changing \subseteq c4.items /\ \A i \in c4.items \ changing : Access!PlanFor(i).ops = <<>> BY DEF Access!Changing
<1> HIDE DEF changing, order
<1>9. DOMAIN order = 1 .. Len(order) /\ Len(order) \in Nat /\ \A n \in DOMAIN order : order[n] \in c4.items
  BY <1>7, <1>8
<1>10. plans \in Seq(Plan) /\ DOMAIN plans = DOMAIN order /\ \A n \in DOMAIN plans : plans[n] = Access!PlanFor(order[n]) /\ plans[n].id = order[n]
  <2>1. \A n \in DOMAIN order : Access!PlanFor(order[n]) \in Plan /\ Access!PlanFor(order[n]).id = order[n] BY <1>5, <1>9
  <2> QED BY <1>9, <2>1
<1> HIDE DEF plans
<1>11. c5'.busy = TRUE /\ c5'.mode = c4.mode /\ c5'.plans = plans /\ c5'.failed = {} BY <1>6
<1>12. AccessTyped' BY <1>1, <1>2, <1>6, <1>10 DEF AccessTyped
<1>13. AccessPanels'
  <2>1. Access!Loaded' BY DEF Access!Loaded
  <2> QED BY <1>1, <1>11, <2>1 DEF AccessPanels
<1>14. AccessPlans'
  <2>1. \A m, n \in DOMAIN plans : plans[m].id = plans[n].id => m = n BY <1>7, <1>10
  <2>2. ASSUME NEW n \in DOMAIN plans
        PROVE  LET plan == plans[n] IN
               /\ \A k \in DOMAIN plan.ops : Meant(plan.ops[k], plan.from, plan.to)
               /\ plan.id \notin c6 => Due(c1[plan.id], plan.from, plan.to, plan.ops)
               /\ c4.kind = "bulk" => /\ plan.id \in Items /\ plan.from = c3[plan.id]
                                      /\ plan.to = Access!BulkTarget(c3[plan.id], c4.draft, c4.mode)
    <3> DEFINE i == order[n]
    <3>1. i \in c4.items /\ plans[n] = Access!PlanFor(i) BY <1>9, <1>10
    <3>2. c4.kind = "bulk" => i \in Items BY <1>1, <3>1 DEF AccessPanels
    <3> HIDE DEF i
    <3> QED BY <1>4, <1>5, <3>1, <3>2
  <2> QED BY <1>11, <2>1, <2>2 DEF AccessPlans
<1>15. AccessReads'
  <2> SUFFICES ASSUME NEW i \in c4.items \ c6, c3[i] # Access!Unread PROVE OnItsWay(i)'
    BY DEF AccessReads
  <2>1. OnItsWay(i) BY <1>1 DEF AccessReads
  <2>2. CASE c4.kind = "item" BY <1>11, <2>2 DEF OnItsWay
  <2>3. CASE c4.kind = "bulk"
    <3>1. Between(c1[i], c3[i], Access!BulkTarget(c3[i], c4.draft, c4.mode)) BY <2>1, <2>3 DEF OnItsWay
    <3>2. ASSUME \A n \in DOMAIN plans : plans[n].id # i
          PROVE  Due(c1[i], c3[i], Access!BulkTarget(c3[i], c4.draft, c4.mode), <<>>)
      <4>1. i \notin changing BY <1>7, <1>10, <3>2
      <4>2. Access!PlanFor(i).ops = <<>> BY <1>8, <4>1
      <4> QED BY <1>4, <1>5, <2>3, <4>2
    <3> QED BY <1>11, <2>3, <3>1, <3>2 DEF OnItsWay
  <2> QED BY <2>2, <2>3
<1> QED BY <1>12, <1>13, <1>14, <1>15 DEF AccessInv

LEMMA AppliesKeep == ASSUME AccessInv, Access!ApplyPanel \/ Access!ApplyBulk PROVE AccessInv'
<1>1. AccessTyped /\ AccessPanels /\ AccessReads BY DEF AccessInv
<1>2. CASE Access!ApplyPanel
  <2>1. c4.kind = "item" /\ ~c5.busy /\ Access!Loaded /\ Access!Sends /\ UNCHANGED <<c1, c2, c3, c4, c6>>
    BY <1>2 DEF Access!ApplyPanel, Access!Editable
  <2> QED BY <2>1, SendsKeep
<1>3. CASE Access!ApplyBulk
  <2>1. /\ c4.kind = "bulk" /\ ~c5.busy /\ (c4.confirming \/ Access!Loaded) /\ UNCHANGED <<c1, c2, c3, c6>>
        /\ \/ Access!Sends /\ UNCHANGED c4
           \/ c4' = [c4 EXCEPT !.confirming = TRUE] /\ UNCHANGED c5
    BY <1>3 DEF Access!ApplyBulk
  <2>2. Access!Loaded BY <1>1, <2>1 DEF AccessPanels
  <2>3. CASE Access!Sends /\ UNCHANGED c4 BY <2>1, <2>2, <2>3, SendsKeep
  <2>4. CASE c4' = [c4 EXCEPT !.confirming = TRUE] /\ UNCHANGED c5
    <3>1. /\ c4'.kind = "bulk" /\ c4'.items = c4.items /\ c4'.mode = c4.mode /\ c4'.confirming
          /\ c4'.draft = c4.draft /\ c4' \in Panel
      BY <1>1, <2>1, <2>4 DEF AccessTyped, Panel
    <3>2. AccessTyped' BY <1>1, <2>1, <2>4, <3>1 DEF AccessTyped
    <3>3. AccessPanels'
      <4>1. Access!Loaded' BY <2>1, <2>2, <3>1 DEF Access!Loaded
      <4> QED BY <1>1, <2>1, <2>4, <3>1, <4>1 DEF AccessPanels
    <3>4. AccessReads'
      <4> SUFFICES ASSUME NEW i \in c4'.items \ c6', c3'[i] # Access!Unread PROVE OnItsWay(i)'
        BY DEF AccessReads
      <4>1. OnItsWay(i) BY <1>1, <2>1, <3>1 DEF AccessReads
      <4> QED BY <2>1, <2>4, <3>1, <4>1 DEF OnItsWay
    <3>5. c5'.plans = <<>> BY <1>1, <2>1, <2>4 DEF AccessPanels
    <3> QED BY <3>2, <3>3, <3>4, <3>5, NoPlans DEF AccessInv
  <2> QED BY <2>1, <2>3, <2>4
<1> QED BY <1>2, <1>3

LEMMA BackKeeps == ASSUME AccessInv, Access!BackToEditing PROVE AccessInv'
<1>1. /\ c4.confirming /\ ~c5.busy /\ c4' = [c4 EXCEPT !.confirming = FALSE] /\ UNCHANGED <<c1, c2, c3, c5, c6>>
  BY DEF Access!BackToEditing
<1>2. AccessTyped /\ AccessPanels /\ AccessReads BY DEF AccessInv
<1>3. /\ c4'.kind = c4.kind /\ c4'.items = c4.items /\ c4'.mode = c4.mode /\ ~c4'.confirming
      /\ c4'.draft = c4.draft /\ c4' \in Panel
  BY <1>1, <1>2 DEF AccessTyped, Panel
<1>4. AccessTyped' BY <1>1, <1>2, <1>3 DEF AccessTyped
<1>5. AccessPanels' BY <1>1, <1>2, <1>3 DEF AccessPanels
<1>6. AccessReads'
  <2> SUFFICES ASSUME NEW i \in c4'.items \ c6', c3'[i] # Access!Unread PROVE OnItsWay(i)'
    BY DEF AccessReads
  <2>1. OnItsWay(i) BY <1>1, <1>2, <1>3 DEF AccessReads
  <2> QED BY <1>1, <1>3, <2>1 DEF OnItsWay
<1>7. c5'.plans = <<>> BY <1>1, <1>2 DEF AccessPanels
<1> QED BY <1>4, <1>5, <1>6, <1>7, NoPlans DEF AccessInv

\* What the creation form asks is planned for an item that carries nothing, and
\* its creator holds the crown unless the plan hands it on.
LEMMA CreateKeeps == ASSUME AccessInv, Access!Create PROVE AccessInv'
<1> DEFINE new == [Access!NoAccess EXCEPT !.crown = Me]
           to == c4.draft
           plan == Access!PlanItem(NewItem, Access!NoAccess, to)
           ops == Access!PlanOps(Access!NoAccess, to)
<1>1. /\ c4.kind = "creation" /\ ~c5.busy /\ c1' = [c1 EXCEPT ![NewItem] = new]
      /\ c5' = [busy |-> TRUE, mode |-> "replace", plans |-> <<plan>>, failed |-> {}]
      /\ UNCHANGED <<c2, c3, c4, c6>>
  BY DEF Access!Create
<1>2. AccessTyped /\ AccessPanels BY DEF AccessInv
<1>3. Access!NoAccess \in Kept /\ Access!NoAccess.crown = Nobody /\ NewItem \in AllItems
  BY MarkFacts DEF Access!NoAccess, AllItems, Access!AllItems
<1>4. new \in Kept
  <2>1. Me \in Who BY AccessAssumption, FiniteWho
  <2> QED BY <1>3, <2>1, PartFacts DEF Kept
<1>5. new.owners = Access!NoAccess.owners /\ new.grants = Access!NoAccess.grants BY DEF Access!NoAccess
<1>6. to \in Kept /\ to \in Access!Access /\ (to.crown = Nobody \/ to.crown \in Who)
  BY <1>1, <1>2, AccessFacts DEF AccessPanels, Kept
<1> HIDE DEF new, to
<1>7. /\ plan \in Plan /\ plan.id = NewItem /\ plan.from = Access!NoAccess /\ plan.to = to /\ plan.ops = ops
      /\ \A k \in DOMAIN plan.ops : Meant(plan.ops[k], Access!NoAccess, to)
  BY <1>3, <1>6, PlanMade
<1>8. Due(new, Access!NoAccess, to, ops)
  <2>1. Between(Access!NoAccess, Access!NoAccess, to) BY DEF Between
  <2>2. Due(Access!NoAccess, Access!NoAccess, to, ops) BY <1>3, <1>6, <2>1, PlanIsDue
  <2>3. to.crown # Nobody => Crowns(ops) BY <1>3, <1>6, PlanOpsFacts DEF Kept
  <2> HIDE DEF ops
  <2> QED BY <1>5, <2>2, <2>3 DEF Due
<1> HIDE DEF plan, ops
<1>9. c5'.busy = TRUE /\ c5'.plans = <<plan>> /\ DOMAIN <<plan>> = {1} /\ <<plan>>[1] = plan /\ <<plan>> \in Seq(Plan)
  BY <1>1, <1>7
<1>10. c1' \in [AllItems -> Kept] /\ c1'[NewItem] = new BY <1>1, <1>2, <1>3, <1>4 DEF AccessTyped
<1>11. AccessTyped' BY <1>1, <1>2, <1>9, <1>10 DEF AccessTyped, Ways
<1>12. AccessPanels' BY <1>1, <1>2, <1>9 DEF AccessPanels
<1>13. AccessPlans' BY <1>1, <1>7, <1>8, <1>9, <1>10 DEF AccessPlans
<1>14. AccessReads' BY <1>1 DEF AccessReads, OnItsWay
<1> QED BY <1>11, <1>12, <1>13, <1>14 DEF AccessInv

\* The plan under way.
LEMMA CurrentFacts ==
  ASSUME AccessTyped, AccessPlans, c5.plans # <<>>
  PROVE  LET plan == Access!Current
             rest == Tail(c5.plans)
         IN  /\ plan = c5.plans[1] /\ 1 \in DOMAIN c5.plans /\ plan \in Plan
             /\ c1[plan.id] \in Kept
             /\ \A k \in DOMAIN plan.ops : Meant(plan.ops[k], plan.from, plan.to)
             /\ plan.id \notin c6 => Due(c1[plan.id], plan.from, plan.to, plan.ops)
             /\ c4.kind = "bulk" => /\ plan.id \in Items /\ plan.from = c3[plan.id]
                                    /\ plan.to = Access!BulkTarget(c3[plan.id], c4.draft, c5.mode)
             /\ rest \in Seq(Plan) /\ \A n \in DOMAIN rest : n + 1 \in DOMAIN c5.plans /\ rest[n] = c5.plans[n + 1] /\ rest[n].id # plan.id
             /\ \A n \in DOMAIN c5.plans : n # 1 => \E m \in DOMAIN rest : rest[m] = c5.plans[n]
<1> DEFINE plan == Access!Current
           rest == Tail(c5.plans)
<1>1. c5.plans \in Seq(Plan) BY DEF AccessTyped
<1>2. plan = c5.plans[1] /\ 1 \in DOMAIN c5.plans /\ plan \in Plan BY <1>1 DEF Access!Current
<1>3. c1[plan.id] \in Kept BY <1>2 DEF AccessTyped, Plan
<1>4. rest \in Seq(Plan) /\ \A n \in DOMAIN rest : n + 1 \in DOMAIN c5.plans /\ rest[n] = c5.plans[n + 1] /\ n + 1 # 1
  BY <1>1
<1>5. \A n \in DOMAIN c5.plans : n # 1 => n - 1 \in DOMAIN rest /\ rest[n - 1] = c5.plans[n]
  BY <1>1
<1> HIDE DEF plan, rest
<1>6. \A n \in DOMAIN rest : rest[n].id # plan.id BY <1>2, <1>4 DEF AccessPlans
<1> QED BY <1>2, <1>3, <1>4, <1>5, <1>6 DEF AccessPlans, plan, rest

\* A request is taken.
LEMMA SendKeeps == ASSUME AccessInv, Access!SendOp PROVE AccessInv'
<1> DEFINE plan == Access!Current
           op == plan.ops[1]
           then == Access!Applied(c1[plan.id], op, plan.to)
           later == [plan EXCEPT !.ops = Tail(plan.ops)]
           plans == [c5.plans EXCEPT ![1] = later]
<1>1. /\ c5.plans # <<>> /\ plan.ops # <<>> /\ c1' = [c1 EXCEPT ![plan.id] = then]
      /\ c5' = [c5 EXCEPT !.plans[1].ops = Tail(@)] /\ UNCHANGED <<c2, c3, c4, c6>>
  BY DEF Access!SendOp, Access!NextOp
<1>2. AccessTyped /\ AccessPanels /\ AccessPlans /\ AccessReads BY DEF AccessInv
<1>3. /\ plan = c5.plans[1] /\ 1 \in DOMAIN c5.plans /\ plan \in Plan /\ c1[plan.id] \in Kept
      /\ \A k \in DOMAIN plan.ops : Meant(plan.ops[k], plan.from, plan.to)
      /\ plan.id \notin c6 => Due(c1[plan.id], plan.from, plan.to, plan.ops)
      /\ c4.kind = "bulk" => /\ plan.id \in Items /\ plan.from = c3[plan.id]
                             /\ plan.to = Access!BulkTarget(c3[plan.id], c4.draft, c5.mode)
  BY <1>1, <1>2, CurrentFacts
<1>4. plan.from \in Kept /\ plan.to \in Kept /\ plan.ops \in Seq(Requests) /\ plan.id \in AllItems BY <1>3 DEF Plan
<1>5. /\ then \in Kept /\ Tail(plan.ops) \in Seq(Requests)
      /\ \A n \in DOMAIN Tail(plan.ops) : Meant(Tail(plan.ops)[n], plan.from, plan.to)
      /\ Due(c1[plan.id], plan.from, plan.to, plan.ops) => Due(then, plan.from, plan.to, Tail(plan.ops))
      /\ Between(c1[plan.id], plan.from, plan.to) => Between(then, plan.from, plan.to)
  BY <1>1, <1>3, <1>4, RequestFacts
<1>6. c5' = [c5 EXCEPT !.plans = plans]
  <2>1. plans = [c5.plans EXCEPT ![1].ops = Tail(@)] BY <1>3
  <2> QED BY <1>1, <2>1
<1> HIDE DEF plan, then
<1>7. later.id = plan.id /\ later.from = plan.from /\ later.to = plan.to /\ later.ops = Tail(plan.ops) /\ later \in Plan
  BY <1>3, <1>5 DEF Plan
<1> HIDE DEF later
<1>8. /\ plans \in Seq(Plan) /\ DOMAIN plans = DOMAIN c5.plans /\ plans[1] = later /\ plans # <<>>
      /\ \A n \in DOMAIN plans : n # 1 => plans[n] = c5.plans[n]
  <2>1. c5.plans \in Seq(Plan) BY <1>2 DEF AccessTyped
  <2> QED BY <1>1, <1>3, <1>7, <2>1
<1> HIDE DEF plans
<1>9. /\ c5'.plans = plans /\ c5'.busy = c5.busy /\ c5'.mode = c5.mode /\ c5'.failed = c5.failed
      /\ c5' \in [busy : BOOLEAN, mode : Ways, plans : Seq(Plan), failed : SUBSET AllItems]
  BY <1>2, <1>6, <1>8 DEF AccessTyped
<1>10. \A n \in DOMAIN plans : plans[n].id = c5.plans[n].id BY <1>3, <1>7, <1>8
<1>11. c1' \in [AllItems -> Kept] /\ c1'[plan.id] = then /\ \A i \in AllItems : i # plan.id => c1'[i] = c1[i]
  BY <1>1, <1>2, <1>4, <1>5 DEF AccessTyped
<1>12. AccessTyped' BY <1>1, <1>2, <1>9, <1>11 DEF AccessTyped
<1>13. AccessPanels'
  <2>1. Access!Loaded => Access!Loaded' BY <1>1 DEF Access!Loaded
  <2> QED BY <1>1, <1>2, <1>8, <1>9, <2>1 DEF AccessPanels
<1>14. AccessPlans'
  <2>1. \A m, n \in DOMAIN plans : plans[m].id = plans[n].id => m = n BY <1>2, <1>8, <1>10 DEF AccessPlans
  <2>2. ASSUME NEW n \in DOMAIN plans
        PROVE  /\ \A k \in DOMAIN plans[n].ops : Meant(plans[n].ops[k], plans[n].from, plans[n].to)
               /\ plans[n].id \notin c6 => Due(c1'[plans[n].id], plans[n].from, plans[n].to, plans[n].ops)
               /\ c4.kind = "bulk" => /\ plans[n].id \in Items /\ plans[n].from = c3[plans[n].id]
                                      /\ plans[n].to = Access!BulkTarget(c3[plans[n].id], c4.draft, c5.mode)
    <3>1. CASE n = 1 BY <1>3, <1>5, <1>7, <1>8, <1>11, <3>1
    <3>2. CASE n # 1
      <4>1. plans[n] = c5.plans[n] /\ n \in DOMAIN c5.plans /\ plans[n].id # plan.id BY <1>2, <1>3, <1>8, <3>2 DEF AccessPlans
      <4>0. plans[n] \in Plan BY <1>8
      <4>2. plans[n].id \in AllItems BY <4>0 DEF Plan
      <4>3. c1'[plans[n].id] = c1[plans[n].id] BY <1>11, <4>1, <4>2
      <4> QED BY <1>2, <4>1, <4>3 DEF AccessPlans
    <3> QED BY <3>1, <3>2
  <2>3. c5'.plans = plans /\ c5'.mode = c5.mode /\ c4' = c4 /\ c3' = c3 /\ c6' = c6 BY <1>1, <1>9
  <2> QED BY <2>1, <2>2, <2>3 DEF AccessPlans
<1>15. AccessReads'
  <2> SUFFICES ASSUME NEW i \in c4.items \ c6, c3[i] # Access!Unread PROVE OnItsWay(i)'
    BY <1>1 DEF AccessReads
  <2>1. OnItsWay(i) BY <1>2 DEF AccessReads
  <2>2. c5.busy /\ i \in AllItems BY <1>1, <1>2 DEF AccessPanels, AccessTyped, Panel
  <2>3. CASE c4.kind = "bulk"
    <3> DEFINE to == Access!BulkTarget(c3[i], c4.draft, c5.mode)
    <3>1. Between(c1[i], c3[i], to) BY <2>1, <2>2, <2>3 DEF OnItsWay
    <3>2. Between(c1'[i], c3[i], to) BY <1>3, <1>5, <1>11, <2>2, <2>3, <3>1
    <3>3. ASSUME i \notin c5.failed, \A n \in DOMAIN plans : plans[n].id # i PROVE Due(c1'[i], c3[i], to, <<>>)
      <4>1. \A n \in DOMAIN c5.plans : c5.plans[n].id # i BY <1>8, <1>10, <3>3
      <4>2. i # plan.id BY <1>3, <4>1
      <4>3. Due(c1[i], c3[i], to, <<>>) BY <2>1, <2>2, <2>3, <3>3, <4>1 DEF OnItsWay
      <4> QED BY <1>11, <2>2, <4>2, <4>3
    <3> QED BY <1>1, <1>9, <2>2, <2>3, <3>2, <3>3 DEF OnItsWay
  <2>4. CASE c4.kind # "bulk" BY <1>1, <1>9, <2>2, <2>4 DEF OnItsWay
  <2> QED BY <2>3, <2>4
<1> QED BY <1>12, <1>13, <1>14, <1>15 DEF AccessInv

\* The next item, the one before was done or failed.
LEMMA NextKeeps ==
  ASSUME AccessInv, c5.plans # <<>>, NEW failed \in SUBSET AllItems, c5' = [c5 EXCEPT !.plans = Tail(c5.plans), !.failed = failed],
         \/ failed = c5.failed \cup {Access!Current.id}
         \/ failed = c5.failed /\ Access!Current.ops = <<>>,
         UNCHANGED <<c1, c2, c3, c4, c6>>
  PROVE  AccessInv'
<1> DEFINE plan == Access!Current
           rest == Tail(c5.plans)
<1>1. AccessTyped /\ AccessPanels /\ AccessPlans /\ AccessReads BY DEF AccessInv
<1>2. /\ plan = c5.plans[1] /\ 1 \in DOMAIN c5.plans /\ plan \in Plan
      /\ plan.id \notin c6 => Due(c1[plan.id], plan.from, plan.to, plan.ops)
      /\ c4.kind = "bulk" => /\ plan.id \in Items /\ plan.from = c3[plan.id]
                             /\ plan.to = Access!BulkTarget(c3[plan.id], c4.draft, c5.mode)
      /\ rest \in Seq(Plan) /\ \A n \in DOMAIN rest : n + 1 \in DOMAIN c5.plans /\ rest[n] = c5.plans[n + 1] /\ rest[n].id # plan.id
      /\ \A n \in DOMAIN c5.plans : n # 1 => \E m \in DOMAIN rest : rest[m] = c5.plans[n]
  BY <1>1, CurrentFacts
<1>3. \/ failed = c5.failed \cup {plan.id}
      \/ failed = c5.failed /\ plan.ops = <<>>
  OBVIOUS
<1> HIDE DEF plan
<1>4. /\ c5'.plans = rest /\ c5'.busy = c5.busy /\ c5'.mode = c5.mode /\ c5'.failed = failed
      /\ c5' \in [busy : BOOLEAN, mode : Ways, plans : Seq(Plan), failed : SUBSET AllItems]
  BY <1>1, <1>2 DEF AccessTyped
<1> HIDE DEF rest
<1>5. AccessTyped' BY <1>1, <1>4 DEF AccessTyped
<1>6. c5.busy BY <1>1 DEF AccessPanels
<1>7. AccessPanels'
  <2>1. Access!Loaded => Access!Loaded' BY DEF Access!Loaded
  <2> QED BY <1>1, <1>4, <1>6, <2>1 DEF AccessPanels
<1>8. AccessPlans'
  <2>1. ASSUME NEW m \in DOMAIN rest, NEW n \in DOMAIN rest, rest[m].id = rest[n].id PROVE m = n
    <3>1. m + 1 = n + 1 BY <1>1, <1>2, <2>1 DEF AccessPlans
    <3>2. DOMAIN rest = 1 .. Len(rest) /\ Len(rest) \in Nat BY <1>2
    <3> QED BY <3>1, <3>2
  <2>2. \A n \in DOMAIN rest : \E m \in DOMAIN c5.plans : rest[n] = c5.plans[m] BY <1>2
  <2> QED BY <1>1, <1>4, <2>1, <2>2 DEF AccessPlans
<1>9. AccessReads'
  <2> SUFFICES ASSUME NEW i \in c4.items \ c6, c3[i] # Access!Unread PROVE OnItsWay(i)'
    BY DEF AccessReads
  <2>1. OnItsWay(i) BY <1>1 DEF AccessReads
  <2>3. CASE c4.kind = "bulk"
    <3> DEFINE to == Access!BulkTarget(c3[i], c4.draft, c5.mode)
    <3>1. Between(c1[i], c3[i], to) BY <1>6, <2>1, <2>3 DEF OnItsWay
    <3>2. ASSUME i \notin failed, \A n \in DOMAIN rest : rest[n].id # i PROVE Due(c1[i], c3[i], to, <<>>)
      <4>1. CASE i = plan.id BY <1>2, <1>3, <2>3, <3>2, <4>1
      <4>2. CASE i # plan.id
        <5>1. \A n \in DOMAIN c5.plans : c5.plans[n].id # i BY <1>2, <3>2, <4>2
        <5> QED BY <1>3, <1>6, <2>1, <2>3, <3>2, <5>1 DEF OnItsWay
      <4> QED BY <4>1, <4>2
    <3> QED BY <1>4, <1>6, <2>3, <3>1, <3>2 DEF OnItsWay
  <2>4. CASE c4.kind # "bulk" BY <1>4, <1>6, <2>4 DEF OnItsWay
  <2> QED BY <2>3, <2>4
<1> QED BY <1>5, <1>7, <1>8, <1>9 DEF AccessInv

LEMMA DoneKeeps == ASSUME AccessInv, Access!FailOp \/ Access!ItemDone PROVE AccessInv'
<1>1. c5.plans # <<>> /\ UNCHANGED <<c1, c2, c3, c4, c6>> BY DEF Access!FailOp, Access!ItemDone
<1>2. AccessTyped /\ AccessPlans BY DEF AccessInv
<1>3. Access!Current.id \in AllItems BY <1>1, <1>2, CurrentFacts DEF Plan
<1>4. c5.failed \subseteq AllItems BY <1>2 DEF AccessTyped
<1>5. CASE Access!FailOp
  <2> DEFINE failed == c5.failed \cup {Access!Current.id}
  <2>1. c5' = [c5 EXCEPT !.plans = Tail(c5.plans), !.failed = failed] BY <1>5 DEF Access!FailOp
  <2>2. failed \in SUBSET AllItems BY <1>3, <1>4
  <2> QED BY <1>1, <2>1, <2>2, NextKeeps
<1>6. CASE Access!ItemDone
  <2>1. Access!Current.ops = <<>> /\ c5' = [c5 EXCEPT !.plans = Tail(c5.plans)] BY <1>6 DEF Access!ItemDone
  <2>2. c5' = [c5 EXCEPT !.plans = Tail(c5.plans), !.failed = c5.failed] BY <1>2, <2>1 DEF AccessTyped
  <2> QED BY <1>1, <1>4, <2>1, <2>2, NextKeeps
<1> QED BY <1>5, <1>6

\* Everything was sent. What the bulk dialog asks is another thing now if its
\* mode was changed meanwhile.
LEMMA EndsKeep == ASSUME AccessInv, Access!ApplyEnds PROVE AccessInv'
<1>1. /\ c5.busy /\ c4.kind \in {"bulk", "creation"} /\ c5' = Access!Idle
      /\ (c4' = c4 /\ c4.kind = "bulk") \/ c4' = Access!NoPanel
      /\ c6' = IF c4.mode # c5.mode THEN AllItems ELSE c6
      /\ UNCHANGED <<c1, c2, c3>>
  BY DEF Access!ApplyEnds, AllItems
<1>2. AccessTyped /\ AccessPanels /\ AccessReads BY DEF AccessInv
<1>3. /\ c5' = [busy |-> FALSE, mode |-> "replace", plans |-> <<>>, failed |-> {}]
      /\ c5' \in [busy : BOOLEAN, mode : Ways, plans : Seq(Plan), failed : SUBSET AllItems]
  BY <1>1 DEF Access!Idle, Ways
<1>4. c4' \in Panel /\ ((c4' = c4 /\ c4.kind = "bulk") \/ (c4'.kind = "none" /\ c4'.items = {} /\ ~c4'.confirming))
  <2>1. CASE c4' = c4 /\ c4.kind = "bulk" BY <1>2, <2>1 DEF AccessTyped
  <2>2. CASE c4' = Access!NoPanel
    <3>1. c4' = [kind |-> "none", items |-> {}, draft |-> Access!NoAccess, mode |-> "replace", confirming |-> FALSE]
      BY <2>2 DEF Access!NoPanel
    <3> QED BY <3>1, MarkFacts DEF Panel, Ways, Kept
  <2> QED BY <1>1, <2>1, <2>2
<1>5. AccessTyped' BY <1>1, <1>2, <1>3, <1>4 DEF AccessTyped
<1>6. AccessPanels'
  <2>1. c4' = c4 /\ Access!Loaded => Access!Loaded' BY <1>1 DEF Access!Loaded
  <2> QED BY <1>1, <1>2, <1>3, <1>4, <2>1 DEF AccessPanels
<1>7. AccessReads'
  <2> SUFFICES ASSUME NEW i \in c4'.items \ c6', c3'[i] # Access!Unread PROVE OnItsWay(i)'
    BY DEF AccessReads
  <2>1. c4' = c4 /\ c4.kind = "bulk" /\ i \in AllItems BY <1>2, <1>4 DEF AccessTyped, Panel
  <2>2. c4.mode = c5.mode /\ c6' = c6 BY <1>1, <2>1
  <2>3. OnItsWay(i) BY <1>1, <1>2, <2>1, <2>2 DEF AccessReads
  <2> QED BY <1>1, <1>3, <2>1, <2>2, <2>3 DEF OnItsWay
<1>8. c5'.plans = <<>> BY <1>3
<1> QED BY <1>5, <1>6, <1>7, <1>8, NoPlans DEF AccessInv

\* Another administrator's writes are of the same kind and leave the owners
\* alone; whoever goes takes all rows along.
LEMMA OthersWriteFacts ==
  ASSUME AccessTyped, NEW i \in Items, NEW write \in OthersWrite, Access!SomebodyWrites(i, write[1], write[2])
  PROVE  /\ c1' \in [AllItems -> Kept] /\ i \in AllItems /\ \A j \in AllItems : j # i => c1'[j] = c1[j]
         /\ \A j \in AllItems : c1'[j].owners = c1[j].owners
<1> DEFINE p == write[1]
           caps == Access!Closed(write[2])
           grants == [c1[i].grants EXCEPT ![p] = caps]
           then == [c1[i] EXCEPT !.grants = grants]
<1>1. p \in Who /\ write[2] \in SUBSET Access!Caps BY AccessAssumption, FiniteWho
<1>2. caps \in SUBSET Access!Caps /\ (caps # {} => "VIEW" \in caps) BY <1>1, ClosedFacts
<1>3. i \in AllItems BY DEF AllItems, Access!AllItems
<1>4. c1[i] \in Access!Access /\ Listed(c1[i]) BY <1>3 DEF AccessTyped, Kept
<1>5. c1' = [c1 EXCEPT ![i] = then]
  <2>1. c1' = [c1 EXCEPT ![i].grants[p] = caps] BY DEF Access!SomebodyWrites
  <2> HIDE DEF caps, p
  <2> QED BY <2>1
<1> HIDE DEF caps, p
<1>6. grants \in [Who -> SUBSET Access!Caps] /\ \A q \in Who : grants[q] = IF q = p THEN caps ELSE c1[i].grants[q]
  BY <1>1, <1>2, <1>4, AccessFacts
<1> HIDE DEF grants
<1>7. then \in Access!Access /\ then.grants = grants BY <1>4, <1>6, PartFacts
<1>8. then.owners = c1[i].owners OBVIOUS
<1> HIDE DEF then
<1>9. then \in Kept BY <1>2, <1>4, <1>6, <1>7 DEF Kept, Listed
<1> QED BY <1>3, <1>5, <1>8, <1>9 DEF AccessTyped

LEMMA WritesKeep ==
  ASSUME AccessInv, NEW i \in Items, NEW write \in OthersWrite, Access!SomebodyWrites(i, write[1], write[2])
  PROVE  AccessInv'
<1>1. AccessTyped /\ AccessPanels /\ AccessPlans /\ AccessReads BY DEF AccessInv
<1>2. c6' = c6 \cup {i} /\ UNCHANGED <<c2, c3, c4, c5>> BY DEF Access!SomebodyWrites
<1>3. c1' \in [AllItems -> Kept] /\ i \in AllItems /\ \A j \in AllItems : j # i => c1'[j] = c1[j] BY <1>1, OthersWriteFacts
<1>4. AccessTyped' BY <1>1, <1>2, <1>3 DEF AccessTyped
<1>5. AccessPanels'
  <2>1. Access!Loaded => Access!Loaded' BY <1>2 DEF Access!Loaded
  <2> QED BY <1>1, <1>2, <2>1 DEF AccessPanels
<1>6. AccessPlans'
  <2>1. \A n \in DOMAIN c5.plans : c5.plans[n].id \in AllItems
    <3>1. \A n \in DOMAIN c5.plans : c5.plans[n] \in Plan BY <1>1 DEF AccessTyped
    <3> QED BY <3>1 DEF Plan
  <2>2. \A n \in DOMAIN c5.plans : c5.plans[n].id \notin c6' => c5.plans[n].id \notin c6 /\ c1'[c5.plans[n].id] = c1[c5.plans[n].id]
    BY <1>2, <1>3, <2>1
  <2> QED BY <1>1, <1>2, <2>2 DEF AccessPlans
<1>7. AccessReads'
  <2> SUFFICES ASSUME NEW j \in c4.items \ c6', c3[j] # Access!Unread PROVE OnItsWay(j)'
    BY <1>2 DEF AccessReads
  <2>1. j \notin c6 /\ j # i /\ j \in AllItems BY <1>1, <1>2 DEF AccessTyped, Panel
  <2>2. OnItsWay(j) /\ c1'[j] = c1[j] BY <1>1, <1>3, <2>1 DEF AccessReads
  <2> QED BY <1>2, <2>2 DEF OnItsWay
<1> QED BY <1>4, <1>5, <1>6, <1>7 DEF AccessInv

LEMMA GoesKeep == ASSUME AccessInv, NEW p \in Who, Access!SomebodyGoes(p) PROVE AccessInv'
<1> DEFINE left(i) == [c1[i] EXCEPT !.grants[p] = {}, !.owners = @ \ {p}]
<1>1. AccessTyped /\ AccessPanels /\ AccessPlans BY DEF AccessInv
<1>2. /\ c1' = [i \in AllItems |-> left(i)] /\ c2' = c2 \ {p} /\ c6' = AllItems /\ UNCHANGED <<c3, c4, c5>>
  BY DEF Access!SomebodyGoes, AllItems
<1>3. ASSUME NEW i \in AllItems PROVE left(i) \in Kept
  <2> DEFINE grants == [c1[i].grants EXCEPT ![p] = {}]
             owners == c1[i].owners \ {p}
             mid == [c1[i] EXCEPT !.grants = grants]
             end == [mid EXCEPT !.owners = owners]
  <2>1. c1[i] \in Access!Access /\ Listed(c1[i]) BY <1>1 DEF AccessTyped, Kept
  <2>2. left(i) = end BY <2>1, AccessFacts
  <2>3. /\ grants \in [Who -> SUBSET Access!Caps] /\ owners \in SUBSET Who
        /\ \A q \in Who : grants[q] # {} => "VIEW" \in grants[q]
    BY <2>1, AccessFacts DEF Listed
  <2> HIDE DEF grants, owners
  <2>4. mid \in Access!Access /\ mid.grants = grants BY <2>1, <2>3, PartFacts
  <2> HIDE DEF mid
  <2>5. mid \in Kept BY <2>3, <2>4 DEF Kept, Listed
  <2>6. end \in Kept BY <2>3, <2>4, <2>5, PartFacts
  <2> QED BY <2>2, <2>6
<1> HIDE DEF left
<1>4. AccessTyped' BY <1>1, <1>2, <1>3 DEF AccessTyped
<1>5. AccessPanels'
  <2>1. Access!Loaded => Access!Loaded' BY <1>2 DEF Access!Loaded
  <2> QED BY <1>1, <1>2, <2>1 DEF AccessPanels
<1>6. AccessPlans'
  <2>1. \A n \in DOMAIN c5.plans : c5.plans[n].id \in AllItems
    <3>1. \A n \in DOMAIN c5.plans : c5.plans[n] \in Plan BY <1>1 DEF AccessTyped
    <3> QED BY <3>1 DEF Plan
  <2> QED BY <1>1, <1>2, <2>1 DEF AccessPlans
<1>7. AccessReads' BY <1>1, <1>2 DEF AccessReads, AccessTyped, Panel
<1> QED BY <1>4, <1>5, <1>6, <1>7 DEF AccessInv

\* What a step of the page is.
LEMMA AccessCases ==
  ASSUME Access!AccessNext
  PROVE  \/ Access!OpenBulk \/ Access!OpenCreation \/ \E i \in Items : Access!OpenPanel(i)
         \/ Access!ClosePanel \/ \E i \in Items : Access!ReadAccess(i)
         \/ \E c \in Access!Caps : \E picked : Access!PressChip(c, picked)
         \/ \E p \in Who : Access!AddOwner(p) \/ Access!RemoveOwner(p) \/ Access!HandCrown(p)
         \/ Access!KeepCrown \/ \E mode \in Ways : Access!SetMode(mode)
         \/ Access!ApplyPanel \/ Access!ApplyBulk \/ Access!BackToEditing \/ Access!Create
         \/ Access!SendOp \/ Access!FailOp \/ Access!ItemDone \/ Access!ApplyEnds
         \/ \E i \in Items, write \in OthersWrite : Access!SomebodyWrites(i, write[1], write[2])
         \/ \E p \in Who : Access!SomebodyGoes(p)
BY DEF Access!AccessNext, Who, Ways

LEMMA AccessKeeps == ASSUME AccessInv, Access!AccessNext PROVE AccessInv'
<1>1. CASE Access!OpenBulk \/ Access!OpenCreation \/ \E i \in Items : Access!OpenPanel(i) BY <1>1, OpensKeep
<1>2. CASE Access!ClosePanel BY <1>2, CloseKeeps
<1>3. CASE \E i \in Items : Access!ReadAccess(i) BY <1>3, ReadKeeps
<1>4. CASE \/ \E c \in Access!Caps : \E picked : Access!PressChip(c, picked)
           \/ \E p \in Who : Access!AddOwner(p) \/ Access!RemoveOwner(p) \/ Access!HandCrown(p)
           \/ Access!KeepCrown
  BY <1>4, DraftsKeep
<1>5. CASE \E mode \in Ways : Access!SetMode(mode) BY <1>5, ModeKeeps
<1>6. CASE Access!ApplyPanel \/ Access!ApplyBulk BY <1>6, AppliesKeep
<1>7. CASE Access!BackToEditing BY <1>7, BackKeeps
<1>8. CASE Access!Create BY <1>8, CreateKeeps
<1>9. CASE Access!SendOp BY <1>9, SendKeeps
<1>10. CASE Access!FailOp \/ Access!ItemDone BY <1>10, DoneKeeps
<1>11. CASE Access!ApplyEnds BY <1>11, EndsKeep
<1>12. CASE \E i \in Items, write \in OthersWrite : Access!SomebodyWrites(i, write[1], write[2]) BY <1>12, WritesKeep
<1>13. CASE \E p \in Who : Access!SomebodyGoes(p) BY <1>13, GoesKeep
<1> QED BY <1>1, <1>2, <1>3, <1>4, <1>5, <1>6, <1>7, <1>8, <1>9, <1>10, <1>11, <1>12, <1>13, AccessCases

LEMMA AccessStays == ASSUME AccessInv, UNCHANGED <<c1, c2, c3, c4, c5, c6>> PROVE AccessInv'
<1>1. AccessTyped' BY DEF AccessInv, AccessTyped
<1>2. AccessPanels'
  <2>1. Access!Loaded => Access!Loaded' BY DEF Access!Loaded
  <2> QED BY <2>1 DEF AccessInv, AccessPanels
<1>3. AccessPlans' BY DEF AccessInv, AccessPlans
<1>4. AccessReads' BY DEF AccessInv, AccessReads, OnItsWay
<1> QED BY <1>1, <1>2, <1>3, <1>4 DEF AccessInv

-----------------------------------------------------------------------------
(* Access panels: what the invariant shows.                                *)

LEMMA AccessShows == AccessInv => Access!AccessTypeOK /\ Access!PlansEndAsShown
<1> SUFFICES ASSUME AccessInv PROVE Access!AccessTypeOK /\ Access!PlansEndAsShown OBVIOUS
<1>1. AccessTyped /\ AccessPlans BY DEF AccessInv
<1>2. Access!AccessTypeOK
  <2>1. c1 \in [AllItems -> Access!Access] BY <1>1 DEF AccessTyped, Kept
  <2>2. \A i \in AllItems : c3[i] \in Access!Access \cup {Access!Unread} BY <1>1 DEF AccessTyped, Kept
  <2>3. c2 \subseteq Who /\ c6 \subseteq AllItems /\ c5.failed \subseteq AllItems BY <1>1 DEF AccessTyped
  <2>4. c4.items \subseteq AllItems /\ c4.draft \in Access!Access BY <1>1 DEF AccessTyped, Panel
  <2> QED BY <2>1, <2>2, <2>3, <2>4 DEF Access!AccessTypeOK, AllItems, Who
<1>3. Access!PlansEndAsShown
  <2> DEFINE plan == Access!Current
             now == c1[plan.id]
  <2> SUFFICES ASSUME c5.plans # <<>>, plan.ops = <<>>, plan.id \notin c6
               PROVE  /\ now.crown = plan.to.crown \/ plan.to.crown = Nobody
                      /\ now.owners = plan.to.owners
                      /\ \A p \in Who : Access!Unlisted(plan.from, p) \/ now.grants[p] = plan.to.grants[p]
    BY DEF Access!PlansEndAsShown, Who
  <2>1. plan \in Plan /\ now \in Kept /\ Due(now, plan.from, plan.to, plan.ops) BY <1>1, CurrentFacts
  <2> HIDE DEF plan
  <2>2. plan.to \in Kept BY <2>1 DEF Plan
  <2> HIDE DEF now
  <2>3. now.owners \subseteq Who /\ plan.to.owners \subseteq Who BY <2>1, <2>2, AccessFacts DEF Kept
  <2>4. ~Crowns(<<>>) /\ \A p : ~Writes(<<>>, p) /\ ~Owns(<<>>, p) BY DEF Crowns, Writes, Owns
  <2> QED BY <2>1, <2>3, <2>4 DEF Due
<1> QED BY <1>2, <1>3

\* While plans are applied, a step is of one of them, a read of the item's
\* panel, or leaves the plans and the kind of the panel alone.
LEMMA BusySteps ==
  ASSUME AccessInv, Access!AccessNext, c5.busy
  PROVE  \/ Access!SendOp \/ Access!FailOp \/ Access!ItemDone \/ Access!ApplyEnds
         \/ c4.kind = "item" /\ \E i \in Items : Access!ReadAccess(i)
         \/ c5' = c5 /\ c4'.kind = c4.kind
<1>1. c4.kind # "none" /\ c4 \in Panel BY DEF AccessInv, AccessPanels, AccessTyped
<1>2. ~Access!OpenBulk /\ ~Access!OpenCreation /\ ~\E i \in Items : Access!OpenPanel(i)
  BY <1>1 DEF Access!OpenBulk, Access!OpenCreation, Access!OpenPanel
<1>3. ~Access!ClosePanel /\ ~Access!ApplyPanel /\ ~Access!ApplyBulk /\ ~Access!BackToEditing /\ ~Access!Create
  BY DEF Access!ClosePanel, Access!ApplyPanel, Access!ApplyBulk, Access!BackToEditing, Access!Create, Access!Editable
<1>4. \A draft : ~Access!Redraft(draft) BY DEF Access!Redraft, Access!Editable
<1>5. /\ ~\E c \in Access!Caps : \E picked : Access!PressChip(c, picked)
      /\ ~\E p \in Who : Access!AddOwner(p) \/ Access!RemoveOwner(p) \/ Access!HandCrown(p)
      /\ ~Access!KeepCrown
  BY <1>4 DEF Access!PressChip, Access!AddOwner, Access!RemoveOwner, Access!HandCrown, Access!KeepCrown
<1>6. ASSUME NEW mode, Access!SetMode(mode) PROVE c5' = c5 /\ c4'.kind = c4.kind
  <2>1. c4' = [c4 EXCEPT !.mode = mode] /\ c5' = c5 BY <1>6 DEF Access!SetMode
  <2> QED BY <1>1, <2>1 DEF Panel
<1>7. ASSUME NEW i, Access!ReadAccess(i) PROVE c4.kind = "item" BY <1>7 DEF Access!ReadAccess
<1>8. ASSUME NEW i, NEW p, NEW caps, Access!SomebodyWrites(i, p, caps) PROVE c5' = c5 /\ c4' = c4
  BY <1>8 DEF Access!SomebodyWrites
<1>9. ASSUME NEW p, Access!SomebodyGoes(p) PROVE c5' = c5 /\ c4' = c4 BY <1>9 DEF Access!SomebodyGoes
<1> QED BY <1>2, <1>3, <1>5, <1>6, <1>7, <1>8, <1>9, AccessCases

LEMMA OthersSurvive == ASSUME AccessInv, Access!AccessNext PROVE Access!OthersWritesSurviveStep
<1> DEFINE plan == Access!Current
<1> SUFFICES ASSUME c5.plans # <<>>, c5' # c5
             PROVE  \A p \in Who :
                      /\ plan.from.grants[p] = plan.to.grants[p] => c1'[plan.id].grants[p] = c1[plan.id].grants[p]
                      /\ (p \in plan.from.owners) = (p \in plan.to.owners) =>
                             (p \in c1'[plan.id].owners) = (p \in c1[plan.id].owners)
  BY DEF Access!OthersWritesSurviveStep, Who
<1>1. AccessTyped /\ AccessPlans /\ c5.busy BY DEF AccessInv, AccessPanels
<1>2. plan \in Plan /\ c1[plan.id] \in Kept /\ \A k \in DOMAIN plan.ops : Meant(plan.ops[k], plan.from, plan.to)
  BY <1>1, CurrentFacts
<1>3. CASE Access!SendOp
  <2>1. plan.ops # <<>> /\ c1' = [c1 EXCEPT ![plan.id] = Access!Applied(c1[plan.id], plan.ops[1], plan.to)]
    BY <1>3 DEF Access!SendOp, Access!NextOp
  <2> HIDE DEF plan
  <2>2. plan.id \in AllItems /\ plan.from \in Kept /\ plan.to \in Kept /\ plan.ops \in Seq(Requests) BY <1>2 DEF Plan
  <2> DEFINE then == Access!Applied(c1[plan.id], plan.ops[1], plan.to)
  <2>3. c1'[plan.id] = then BY <1>1, <2>1, <2>2 DEF AccessTyped
  <2>4. /\ \A p \in Who : plan.from.grants[p] = plan.to.grants[p] => then.grants[p] = c1[plan.id].grants[p]
        /\ \A p \in Who : (p \in plan.from.owners <=> p \in plan.to.owners) => (p \in then.owners <=> p \in c1[plan.id].owners)
    BY <1>2, <2>1, <2>2, RequestFacts
  <2> HIDE DEF then
  <2> QED BY <2>3, <2>4
<1>4. CASE Access!FailOp \/ Access!ItemDone BY <1>4 DEF Access!FailOp, Access!ItemDone
<1>5. ~Access!ApplyEnds BY DEF Access!ApplyEnds
<1>6. ~\E i \in Items : Access!ReadAccess(i) BY <1>1 DEF Access!ReadAccess
<1> QED BY <1>1, <1>3, <1>4, <1>5, <1>6, BusySteps

LEMMA SuccessIsWhole == ASSUME AccessInv, Access!AccessNext PROVE Access!BulkSuccessIsWholeStep
<1> SUFFICES ASSUME c4.kind = "bulk", c5.busy, c4' = Access!NoPanel, NEW i \in c4.items \ c6
             PROVE  Access!BulkHolds(i) /\ c4.draft.owners \subseteq c1[i].owners
  BY DEF Access!BulkSuccessIsWholeStep
<1>1. AccessTyped /\ AccessPanels /\ AccessReads BY DEF AccessInv
<1>2. c4'.kind = "none" BY DEF Access!NoPanel
<1>3. Access!ApplyEnds
  <2>1. c4'.kind # c4.kind BY <1>2
  <2>2. ~Access!SendOp /\ ~Access!FailOp /\ ~Access!ItemDone
    BY <2>1 DEF Access!SendOp, Access!FailOp, Access!ItemDone
  <2> QED BY <2>1, <2>2, BusySteps
<1>4. c5.plans = <<>> /\ c5.failed = {}
  <2>1. c5.failed = {} \/ c4' = c4 BY <1>3 DEF Access!ApplyEnds
  <2> QED BY <1>2, <1>3, <2>1 DEF Access!ApplyEnds
<1> DEFINE to == Access!BulkTarget(c3[i], c4.draft, c5.mode)
<1>5. c3[i] # Access!Unread /\ i \in AllItems BY <1>1 DEF AccessPanels, Access!Loaded, AccessTyped, Panel
<1>6. Due(c1[i], c3[i], to, <<>>) BY <1>1, <1>4, <1>5 DEF AccessReads, OnItsWay
<1>7. c3[i] \in Kept /\ c4.draft \in Access!Access /\ c5.mode \in Ways /\ c1[i] \in Kept
  BY <1>1, <1>5 DEF AccessTyped, Panel
<1>8. to \in Kept /\ c4.draft.owners \subseteq to.owners
  BY <1>7, BulkFacts
<1> HIDE DEF to
<1>9. ~Crowns(<<>>) /\ \A p : ~Writes(<<>>, p) /\ ~Owns(<<>>, p) BY DEF Crowns, Writes, Owns
<1>10. c4.draft.owners \subseteq c1[i].owners
  <2>1. to.owners \subseteq Who BY <1>8, AccessFacts DEF Kept
  <2> QED BY <1>6, <1>8, <1>9, <2>1 DEF Due
<1>11. ASSUME NEW p \in Who
       PROVE  LET now == c1[i].grants[p] asked == c4.draft.grants[p] IN
              CASE c5.mode = "grant"   -> Access!Closed(asked) \subseteq now
                [] c5.mode = "revoke"  -> (now \cap asked = {} /\ ("VIEW" \in asked => now = {})) \/ Access!Unlisted(c3[i], p)
                [] c5.mode = "replace" -> now = Access!Closed(asked) \/ Access!Unlisted(c3[i], p)
  <2>1. \/ c1[i].grants[p] = to.grants[p]
        \/ Access!Unlisted(c3[i], p) /\ c3[i].grants[p] = to.grants[p] /\ c3[i].grants[p] = {}
    BY <1>1, <1>5, <1>6, <1>9 DEF Due, AccessTyped
  <2>2. CASE c5.mode = "grant"
    <3>1. to.grants[p] = c3[i].grants[p] \cup Access!Closed(c4.draft.grants[p]) BY <2>2 DEF to, Access!BulkTarget, Who
    <3> QED BY <2>1, <2>2, <3>1
  <2>3. CASE c5.mode = "revoke"
    <3>1. to.grants[p] = IF "VIEW" \in c4.draft.grants[p] THEN {} ELSE c3[i].grants[p] \ c4.draft.grants[p]
      BY <2>3 DEF to, Access!BulkTarget, Who
    <3> QED BY <2>1, <2>3, <3>1
  <2>4. CASE c5.mode = "replace"
    <3>1. to.grants[p] = Access!Closed(c4.draft.grants[p]) BY <2>4 DEF to, Access!BulkTarget, Who
    <3> QED BY <2>1, <2>4, <3>1
  <2> QED BY <1>7, <2>2, <2>3, <2>4 DEF Ways
<1> QED BY <1>10, <1>11 DEF Access!BulkHolds, Who

LEMMA OwnersKept == ASSUME AccessInv, Access!AccessNext PROVE Access!BulkKeepsOwnersStep
<1> SUFFICES ASSUME c4.kind = "bulk", c1' # c1, c2' = c2, NEW i \in Items
             PROVE  c1[i].owners \subseteq c1'[i].owners
  BY DEF Access!BulkKeepsOwnersStep
<1>1. AccessTyped /\ AccessPlans /\ i \in AllItems BY DEF AccessInv, AllItems, Access!AllItems
<1>2. \/ Access!SendOp
      \/ \E j \in Items, write \in OthersWrite : Access!SomebodyWrites(j, write[1], write[2])
      \/ \E p \in Who : Access!SomebodyGoes(p)
  <2>1. /\ ~Access!OpenBulk /\ ~Access!OpenCreation /\ ~(\E j \in Items : Access!OpenPanel(j)) /\ ~Access!ClosePanel
        /\ ~(\E j \in Items : Access!ReadAccess(j)) /\ ~(\E mode \in Ways : Access!SetMode(mode))
    BY DEF Access!OpenBulk, Access!OpenCreation, Access!OpenPanel, Access!ClosePanel, Access!ReadAccess, Access!SetMode
  <2>2. \A draft : ~Access!Redraft(draft) BY DEF Access!Redraft
  <2>3. /\ ~(\E c \in Access!Caps : \E picked : Access!PressChip(c, picked))
        /\ ~(\E p \in Who : Access!AddOwner(p) \/ Access!RemoveOwner(p) \/ Access!HandCrown(p)) /\ ~Access!KeepCrown
    BY <2>2 DEF Access!PressChip, Access!AddOwner, Access!RemoveOwner, Access!HandCrown, Access!KeepCrown
  <2>4. ~Access!ApplyPanel /\ ~Access!ApplyBulk /\ ~Access!BackToEditing /\ ~Access!Create
    BY DEF Access!ApplyPanel, Access!ApplyBulk, Access!BackToEditing, Access!Create
  <2>5. ~Access!FailOp /\ ~Access!ItemDone /\ ~Access!ApplyEnds
    BY DEF Access!FailOp, Access!ItemDone, Access!ApplyEnds
  <2> QED BY <2>1, <2>3, <2>4, <2>5, AccessCases
<1>3. CASE Access!SendOp
  <2> DEFINE plan == Access!Current
  <2>1. plan.ops # <<>> /\ c5.plans # <<>> /\ c1' = [c1 EXCEPT ![plan.id] = Access!Applied(c1[plan.id], plan.ops[1], plan.to)]
    BY <1>3 DEF Access!SendOp, Access!NextOp
  <2>2. /\ plan \in Plan /\ c1[plan.id] \in Kept /\ \A k \in DOMAIN plan.ops : Meant(plan.ops[k], plan.from, plan.to)
        /\ plan.from = c3[plan.id] /\ plan.to = Access!BulkTarget(c3[plan.id], c4.draft, c5.mode)
    BY <1>1, <2>1, CurrentFacts
  <2> HIDE DEF plan
  <2>3. plan.id \in AllItems /\ plan.from \in Kept /\ plan.to \in Kept /\ plan.ops \in Seq(Requests) BY <2>2 DEF Plan
  <2>4. plan.from.owners \subseteq plan.to.owners
    <3>1. c4.draft \in Access!Access /\ c5.mode \in Ways BY <1>1 DEF AccessTyped, Panel
    <3> QED BY <2>2, <2>3, <3>1, BulkFacts
  <2> DEFINE then == Access!Applied(c1[plan.id], plan.ops[1], plan.to)
  <2>5. c1[plan.id].owners \subseteq then.owners
    BY <2>1, <2>2, <2>3, <2>4, RequestFacts
  <2> HIDE DEF then
  <2>6. c1'[i] = IF i = plan.id THEN then ELSE c1[i] BY <1>1, <2>1 DEF AccessTyped, then
  <2> QED BY <2>5, <2>6
<1>4. ASSUME NEW j \in Items, NEW write \in OthersWrite, Access!SomebodyWrites(j, write[1], write[2])
      PROVE  c1[i].owners \subseteq c1'[i].owners
  BY <1>1, <1>4, OthersWriteFacts
<1>5. ASSUME NEW p \in Who, Access!SomebodyGoes(p) PROVE FALSE
  BY <1>5 DEF Access!SomebodyGoes
<1> QED BY <1>2, <1>3, <1>4, <1>5

LEMMA OnOwnWrites == ASSUME AccessInv, Access!AccessNext PROVE Access!DraftsOnOwnWritesStep
<1> SUFFICES ASSUME c4.kind = "item", c5.busy, ~c5'.busy, NEW i \in c4.items
             PROVE  c3'[i] = Access!ViewOf(c1'[i])
  BY DEF Access!DraftsOnOwnWritesStep
<1>1. AccessTyped /\ AccessPanels BY DEF AccessInv
<1>2. ~Access!SendOp /\ ~Access!FailOp /\ ~Access!ItemDone /\ ~Access!ApplyEnds
  BY <1>1 DEF Access!SendOp, Access!FailOp, Access!ItemDone, Access!ApplyEnds, AccessTyped
<1>3. PICK j \in Items : Access!ReadAccess(j) BY <1>2, BusySteps
<1>4. j \in c4.items /\ c3' = [c3 EXCEPT ![j] = Access!ViewOf(c1[j])] /\ c1' = c1 BY <1>3 DEF Access!ReadAccess
<1>5. j = i BY <1>1, <1>4 DEF AccessPanels
<1>6. i \in AllItems BY <1>1 DEF AccessTyped, Panel
<1> QED BY <1>1, <1>4, <1>5, <1>6 DEF AccessTyped

-----------------------------------------------------------------------------
LEMMA AccessHolds == ConsoleSpec => [](page = "access" => AccessInv)
<1>1. ConsoleInit => (page = "access" => AccessInv) BY AccessBegins DEF ConsoleInit
<1>2. ASSUME page = "access" => AccessInv, [ConsoleNext]_cells PROVE (page = "access" => AccessInv)'
  <2>0. page' = page BY <1>2 DEF ConsoleNext, cells
  <2>1. CASE ConsoleNext BY <1>2, <2>0, <2>1, AccessKeeps DEF ConsoleNext
  <2>2. CASE UNCHANGED cells
    <3>1. UNCHANGED <<c1, c2, c3, c4, c5, c6>> BY <2>2 DEF cells
    <3> QED BY <1>2, <2>0, <3>1, AccessStays
  <2> QED BY <1>2, <2>1, <2>2
<1> QED BY <1>1, <1>2, PTL DEF ConsoleSpec

\* What an access panel announces is what it does, whatever other
\* administrators write meanwhile and whichever requests fail: a plan that ran to
\* its end left the item as it was shown, and everybody it did not change as
\* somebody else left them; a bulk change that reports success holds on every
\* item and has taken no owner away, in however many attempts; and the panel of
\* an item drafts the next edit from what its own writes left (planAccessOps,
\* resource-access.tsx, permissions_service.py).
THEOREM PanelsKeepTheirWord == ConsoleSpec => AccessAsAsked
<1>1. ASSUME page = "access" => AccessInv, (page = "access" => AccessInv)', [ConsoleNext]_cells
      PROVE [page = "access" => /\ Keeps(Access!AccessTypeOK /\ Access!PlansEndAsShown)
                                /\ Access!OthersWritesSurviveStep
                                /\ Access!BulkSuccessIsWholeStep
                                /\ Access!BulkKeepsOwnersStep
                                /\ Access!DraftsOnOwnWritesStep]_cells
  <2>1. CASE ConsoleNext
    <3>1. AccessInv' => (Access!AccessTypeOK /\ Access!PlansEndAsShown)' BY AccessShows, PTL
    <3>2. page' = page /\ (page = "access" => Access!AccessNext) BY <2>1 DEF ConsoleNext
    <3> QED BY <1>1, <3>1, <3>2, AccessShows, OthersSurvive, SuccessIsWhole, OwnersKept, OnOwnWrites DEF Keeps
  <2>2. CASE UNCHANGED cells BY <2>2
  <2> QED BY <1>1, <2>1, <2>2
<1> QED BY <1>1, AccessHolds, PTL DEF ConsoleSpec, AccessAsAsked

-----------------------------------------------------------------------------
(* Chain editor: sequences built a member at a time.                       *)

\* The first n members of s.
Start(s, n) == [i \in 1 .. n |-> s[i]]
LEMMA StartFacts ==
  ASSUME NEW S, NEW s \in Seq(S)
  PROVE  /\ Start(s, 0) = <<>> /\ Start(s, Len(s)) = s
         /\ \A n \in 0 .. Len(s) : Start(s, n) \in Seq(S) /\ Len(Start(s, n)) = n
         /\ \A n \in 1 .. Len(s) : Start(s, n) = Append(Start(s, n - 1), s[n])
<1>1. Start(s, 0) = <<>> /\ Start(s, Len(s)) = s BY DEF Start
<1>2. ASSUME NEW n \in 0 .. Len(s) PROVE Start(s, n) \in Seq(S) /\ Len(Start(s, n)) = n
  <2>1. Start(s, n) \in [1 .. n -> S] BY DEF Start
  <2> QED BY <2>1 DEF Start
<1>3. ASSUME NEW n \in 1 .. Len(s) PROVE Start(s, n) = Append(Start(s, n - 1), s[n])
  <2>1. n - 1 \in 0 .. Len(s) OBVIOUS
  <2> DEFINE t == Start(s, n - 1)
  <2>2. t \in Seq(S) /\ Len(t) = n - 1 /\ \A i \in 1 .. n - 1 : t[i] = s[i] BY <1>2, <2>1 DEF Start
  <2>3. Start(s, n) \in Seq(S) /\ Len(Start(s, n)) = n /\ \A i \in 1 .. n : Start(s, n)[i] = s[i] BY <1>2 DEF Start
  <2>4. s[n] \in S OBVIOUS
  <2> HIDE DEF t
  <2> QED BY <2>2, <2>3, <2>4 DEF t
<1> QED BY <1>1, <1>2, <1>3

\* A property of sequences that the empty one has, and that a member more keeps.
LEMMA SequencesGrow ==
  ASSUME NEW S, NEW T, <<>> \in T, \A s \in Seq(S), x \in S : s \in T => Append(s, x) \in T
  PROVE  Seq(S) \subseteq T
<1> SUFFICES ASSUME NEW s \in Seq(S) PROVE s \in T OBVIOUS
<1> DEFINE N == Len(s)
           U == {n \in 0 .. N : Start(s, n) \in T}
<1>1. N \in Nat OBVIOUS
<1>2. 0 \in U BY StartFacts
<1>3. ASSUME NEW n \in 1 .. N, n - 1 \in U PROVE n \in U
  <2>1. n - 1 \in 0 .. N /\ n \in 0 .. N /\ n \in 1 .. Len(s) /\ n - 1 \in 0 .. Len(s) OBVIOUS
  <2>2. Start(s, n - 1) \in Seq(S) /\ Start(s, n) = Append(Start(s, n - 1), s[n])
    BY <2>1, StartFacts
  <2>3. s[n] \in S /\ Start(s, n - 1) \in T BY <1>3, <2>1
  <2> QED BY <2>1, <2>2, <2>3
<1> HIDE DEF U
<1>4. \A n \in 0 .. N : n \in U BY <1>1, <1>2, <1>3, Climb
<1> QED BY <1>1, <1>4, StartFacts DEF U

LEMMA Longer ==
  ASSUME NEW S, NEW s \in Seq(S), NEW x \in S
  PROVE  /\ Append(s, x) \in Seq(S) /\ Len(Append(s, x)) = Len(s) + 1 /\ Append(s, x)[Len(s) + 1] = x
         /\ \A n \in 1 .. Len(s) : Append(s, x)[n] = s[n] /\ n # Len(s) + 1
OBVIOUS

-----------------------------------------------------------------------------
(* Chain editor: the members of a sequence at some of its places.          *)
Builds(h, S, s, places) ==
    /\ h \in [0 .. Len(s) -> Seq(S)]
    /\ h[0] = <<>> /\ Chain!At(s, places) = h[Len(s)]
    /\ \A n \in 1 .. Len(s) : h[n] = IF n \in places THEN Append(h[n - 1], s[n]) ELSE h[n - 1]
LEMMA AtUnfolds ==
  ASSUME NEW S, NEW s \in Seq(S), NEW places
  PROVE  \E h : Builds(h, S, s, places)
<1> DEFINE N == Len(s)
           upto == CHOOSE h : h = [n \in 0 .. N |-> IF n = 0 THEN <<>> ELSE IF n \in places THEN Append(h[n - 1], s[n]) ELSE h[n - 1]]
           F == [n \in 1 .. N |-> [t \in Seq(S) |-> IF n \in places THEN Append(t, s[n]) ELSE t]]
<1>1. N \in Nat /\ Chain!At(s, places) = upto[N] BY DEF Chain!At
<1>2. F \in [1 .. N -> [Seq(S) -> Seq(S)]] OBVIOUS
<1>3. PICK h \in [0 .. N -> Seq(S)] : h[0] = <<>> /\ \A n \in 1 .. N : h[n] = F[n][h[n - 1]]
  <2> HIDE DEF F
  <2>1. Unfolds(Seq(S), N) BY <1>1, Unfolding
  <2>2. <<>> \in Seq(S) OBVIOUS
  <2> QED BY <1>2, <2>1, <2>2 DEF Unfolds
<1>4. \A n \in 1 .. N : h[n - 1] \in Seq(S) /\ h[n] = IF n \in places THEN Append(h[n - 1], s[n]) ELSE h[n - 1]
  <2> TAKE n \in 1 .. N
  <2>1. n - 1 \in 0 .. N BY <1>1
  <2>2. h[n - 1] \in Seq(S) BY <1>3, <2>1
  <2> QED BY <1>3, <2>2
<1> HIDE DEF F
<1>5. h = [n \in 0 .. N |-> IF n = 0 THEN <<>> ELSE IF n \in places THEN Append(h[n - 1], s[n]) ELSE h[n - 1]]
  <2>1. \A n \in 0 .. N : n = 0 \/ n \in 1 .. N BY <1>1
  <2> QED BY <1>3, <1>4, <2>1
<1>6. upto = [n \in 0 .. N |-> IF n = 0 THEN <<>> ELSE IF n \in places THEN Append(upto[n - 1], s[n]) ELSE upto[n - 1]]
  BY <1>5
<1> HIDE DEF upto
<1>7. upto[0] = <<>> BY <1>1, <1>6
<1>8. \A n \in 1 .. N : upto[n] = IF n \in places THEN Append(upto[n - 1], s[n]) ELSE upto[n - 1]
  <2> TAKE n \in 1 .. N
  <2>1. n \in 0 .. N /\ n # 0 BY <1>1
  <2> QED BY <1>6, <2>1
<1>9. \A n \in 0 .. N : upto[n] = h[n]
  <2> DEFINE T == {n \in 0 .. N : upto[n] = h[n]}
  <2>1. 0 \in T BY <1>1, <1>3, <1>7
  <2>2. ASSUME NEW n \in 1 .. N, n - 1 \in T PROVE n \in T
    <3>1. n \in 0 .. N BY <1>1
    <3> QED BY <1>4, <1>8, <2>2, <3>1
  <2>3. \A n \in 0 .. N : n \in T
    <3> HIDE DEF T
    <3> QED BY <1>1, <2>1, <2>2, Climb
  <2> QED BY <2>3
<1>10. N \in 0 .. N BY <1>1
<1>11. Builds(h, S, s, places)
  BY <1>1, <1>3, <1>4, <1>9, <1>10 DEF Builds
<1> QED BY <1>11

LEMMA AtGrows ==
  ASSUME NEW S, NEW s \in Seq(S), NEW x \in S, NEW places
  PROVE  Chain!At(Append(s, x), places)
           = IF Len(s) + 1 \in places THEN Append(Chain!At(s, places), x) ELSE Chain!At(s, places)
<1> DEFINE N == Len(s)
           t == Append(s, x)
<1>1. N \in Nat /\ t \in Seq(S) /\ Len(t) = N + 1 /\ t[N + 1] = x /\ \A n \in 1 .. N : t[n] = s[n] BY Longer
<1> HIDE DEF t
<1>2. PICK h : Builds(h, S, s, places) BY AtUnfolds
<1>3. PICK g : Builds(g, S, t, places) BY <1>1, AtUnfolds
<1>a. /\ h[0] = <<>> /\ Chain!At(s, places) = h[N]
      /\ \A n \in 1 .. N : h[n] = IF n \in places THEN Append(h[n - 1], s[n]) ELSE h[n - 1]
  BY <1>2 DEF Builds
<1>b. /\ g[0] = <<>> /\ Chain!At(t, places) = g[N + 1]
      /\ \A n \in 1 .. N + 1 : g[n] = IF n \in places THEN Append(g[n - 1], t[n]) ELSE g[n - 1]
  BY <1>1, <1>3 DEF Builds
<1> DEFINE T == {n \in 0 .. N : g[n] = h[n]}
<1>4. 0 \in T BY <1>1, <1>a, <1>b
<1>5. ASSUME NEW n \in 1 .. N, n - 1 \in T PROVE n \in T
  <2>1. n \in 0 .. N /\ n \in 1 .. N + 1 BY <1>1
  <2> QED BY <1>1, <1>a, <1>b, <1>5, <2>1
<1>6. \A n \in 0 .. N : n \in T
  <2> HIDE DEF T
  <2> QED BY <1>1, <1>4, <1>5, Climb
<1>7. N + 1 \in 1 .. N + 1 /\ (N + 1) - 1 = N /\ N \in 0 .. N BY <1>1
<1>8. g[N] = h[N] BY <1>6, <1>7
<1>9. g[N + 1] = IF N + 1 \in places THEN Append(g[(N + 1) - 1], t[N + 1]) ELSE g[(N + 1) - 1] BY <1>b, <1>7
<1> QED BY <1>1, <1>a, <1>b, <1>7, <1>8, <1>9 DEF t

LEMMA AtNone == ASSUME NEW places PROVE Chain!At(<<>>, places) = <<>>
<1>1. <<>> \in Seq({}) /\ Len(<<>>) = 0 OBVIOUS
<1>2. PICK h : Builds(h, {}, <<>>, places) BY <1>1, AtUnfolds
<1> QED BY <1>1, <1>2 DEF Builds

LEMMA AtFacts ==
  ASSUME NEW S, NEW s \in Seq(S), NEW places
  PROVE  /\ Chain!At(s, places) \in Seq(S) /\ Len(Chain!At(s, places)) <= Len(s)
         /\ DOMAIN s \subseteq places => Chain!At(s, places) = s
<1> DEFINE Good(t) == /\ Chain!At(t, places) \in Seq(S) /\ Len(Chain!At(t, places)) <= Len(t)
                      /\ DOMAIN t \subseteq places => Chain!At(t, places) = t
           T == {t \in Seq(S) : Good(t)}
<1>1. <<>> \in T
  <2>1. <<>> \in Seq(S) /\ Len(<<>>) = 0 OBVIOUS
  <2>2. Chain!At(<<>>, places) = <<>> BY AtNone
  <2>3. Len(<<>>) <= Len(<<>>) BY <2>1
  <2>4. Good(<<>>) BY <2>1, <2>2, <2>3
  <2> QED BY <2>1, <2>4
<1>2. ASSUME NEW t \in Seq(S), NEW x \in S, t \in T PROVE Append(t, x) \in T
  <2> DEFINE u == Append(t, x)
             a == Chain!At(t, places)
             b == Chain!At(u, places)
  <2>1. b = IF Len(t) + 1 \in places THEN Append(a, x) ELSE a BY AtGrows
  <2>2. a \in Seq(S) /\ Len(a) <= Len(t) /\ (DOMAIN t \subseteq places => a = t) BY <1>2
  <2>3. u \in Seq(S) /\ Len(u) = Len(t) + 1 /\ DOMAIN u = DOMAIN t \cup {Len(t) + 1} OBVIOUS
  <2> HIDE DEF a, b
  <2>4. b \in Seq(S) /\ Len(b) <= Len(u) BY <2>1, <2>2, <2>3
  <2>5. DOMAIN u \subseteq places => b = u BY <2>1, <2>2, <2>3
  <2> QED BY <2>3, <2>4, <2>5 DEF b
<1>3. Seq(S) \subseteq T
  <2> HIDE DEF T
  <2> QED BY <1>1, <1>2, SequencesGrow
<1> QED BY <1>3

\* Every member comes from a place named, and they keep their order.
LEMMA AtPlaces ==
  ASSUME NEW S, NEW s \in Seq(S), NEW places
  PROVE  \E at \in [DOMAIN Chain!At(s, places) -> DOMAIN s \cap places] :
            /\ \A j \in DOMAIN at : Chain!At(s, places)[j] = s[at[j]]
            /\ \A i, j \in DOMAIN at : i < j => at[i] < at[j]
<1> DEFINE From(t, a, at) == /\ at \in [DOMAIN a -> DOMAIN t \cap places]
                             /\ \A j \in DOMAIN at : a[j] = t[at[j]]
                             /\ \A i, j \in DOMAIN at : i < j => at[i] < at[j]
           T == {t \in Seq(S) : \E at : From(t, Chain!At(t, places), at)}
<1>1. <<>> \in T
  <2>1. DOMAIN <<>> = {} /\ <<>> \in Seq(S) OBVIOUS
  <2>2. From(<<>>, <<>>, <<>>) BY <2>1
  <2> QED BY <2>1, <2>2, AtNone
<1>2. ASSUME NEW t \in Seq(S), NEW x \in S, t \in T PROVE Append(t, x) \in T
  <2> DEFINE u == Append(t, x)
             a == Chain!At(t, places)
             b == Chain!At(u, places)
  <2>1. b = IF Len(t) + 1 \in places THEN Append(a, x) ELSE a BY AtGrows
  <2>2. a \in Seq(S) BY AtFacts
  <2>3. PICK at : From(t, a, at) BY <1>2
  <2>4. /\ u \in Seq(S) /\ Len(t) \in Nat /\ DOMAIN u = DOMAIN t \cup {Len(t) + 1} /\ u[Len(t) + 1] = x
        /\ \A i \in DOMAIN t : u[i] = t[i] /\ i < Len(t) + 1
    OBVIOUS
  <2> HIDE DEF a, b, u
  <2>5. CASE Len(t) + 1 \notin places
    <3>1. From(u, a, at) BY <2>3, <2>4
    <3> QED BY <2>1, <2>4, <2>5, <3>1 DEF b, u
  <2>6. CASE Len(t) + 1 \in places
    <3> DEFINE c == Append(a, x)
               more == [j \in DOMAIN c |-> IF j = Len(a) + 1 THEN Len(t) + 1 ELSE at[j]]
    <3>1. /\ DOMAIN c = DOMAIN a \cup {Len(a) + 1} /\ c[Len(a) + 1] = x /\ Len(a) \in Nat
          /\ \A j \in DOMAIN a : c[j] = a[j] /\ j \in Nat /\ j < Len(a) + 1
      BY <2>2
    <3> HIDE DEF c
    <3>2. /\ DOMAIN more = DOMAIN c /\ more[Len(a) + 1] = Len(t) + 1
          /\ \A j \in DOMAIN a : more[j] = at[j] /\ at[j] \in DOMAIN t \cap places
      BY <2>3, <3>1
    <3>3. more \in [DOMAIN c -> DOMAIN u \cap places]
      BY <2>3, <2>4, <2>6, <3>1
    <3> HIDE DEF more
    <3>4. \A j \in DOMAIN more : c[j] = u[more[j]] BY <2>3, <2>4, <3>1, <3>2
    <3>5. ASSUME NEW i \in DOMAIN more, NEW j \in DOMAIN more, i < j PROVE more[i] < more[j]
      <4>1. i \in DOMAIN a BY <3>1, <3>2, <3>5
      <4>2. CASE j \in DOMAIN a BY <2>3, <3>2, <3>5, <4>1, <4>2
      <4>3. CASE j = Len(a) + 1 BY <2>4, <3>2, <4>1, <4>3
      <4> QED BY <3>1, <3>2, <4>2, <4>3
    <3>6. From(u, c, more) BY <3>3, <3>4, <3>5
    <3> QED BY <2>1, <2>4, <2>6, <3>6 DEF b, u, c
  <2> QED BY <2>5, <2>6
<1>3. Seq(S) \subseteq T
  <2> HIDE DEF T
  <2> QED BY <1>1, <1>2, SequencesGrow
<1> QED BY <1>3

-----------------------------------------------------------------------------
(* Chain editor: what the core makes of a chain.                           *)
Rows(rows) ==
    /\ DOMAIN rows.profiles \subseteq ChainProfiles /\ rows.engines = Engines /\ rows.resolvers = Resolvers
    /\ \A p \in DOMAIN rows.profiles : rows.profiles[p] \in StoredProfile /\ Len(Chain!ChainOf(rows.profiles[p])) <= MaxRungs
Keys == Engines \X Resolvers \X Configs
Walk == [keys : SUBSET Keys, rungs : Seq(Chain!Rung), captures : Seq(Chain!Capture), refused : BOOLEAN]

LEMMA KeyFacts == ASSUME NEW capture \in Chain!Capture PROVE Chain!CaptureKey(capture) \in Keys
BY DEF Chain!Capture, Chain!CaptureKey, Keys

LEMMA BaseFacts ==
  ASSUME NEW rows, Rows(rows), NEW p \in DOMAIN rows.profiles
  PROVE  Chain!ProfileBase(p, rows.profiles[p]) \in Chain!Capture
<1>1. p \in ChainProfiles /\ rows.profiles[p] \in StoredProfile BY DEF Rows
<1>2. rows.profiles[p].engine \in Engines /\ rows.profiles[p].resolver \in Resolvers /\ rows.profiles[p].config \in Configs
  BY <1>1 DEF StoredProfile
<1> QED BY <1>1, <1>2 DEF Chain!ProfileBase, Chain!Capture, Chain!Named

\* The core and the console make the same capture of a rung, or both none.
LEMMA SpecFacts ==
  ASSUME NEW rows, Rows(rows), NEW own \in Chain!Capture, NEW rung \in Chain!Rung
  PROVE  LET built == Chain!SpecFor(own, rung, rows)
             shown == Chain!ResolveRung(rung, own, rows)
         IN  /\ built.ok \in BOOLEAN /\ (built.ok => built.spec \in Chain!Capture /\ shown.capture = built.spec)
             /\ built.ok <=> shown.kind = "ok"
             /\ shown.kind \in {"ok", "profile-missing", "engine-missing", "resolver-missing"}
<1> DEFINE built == Chain!SpecFor(own, rung, rows)
           shown == Chain!ResolveRung(rung, own, rows)
<1>0. /\ own.engine \in Engines /\ own.resolver \in Resolvers /\ own.config \in Configs
      /\ own.retry \in ChainProfiles \cup {None} /\ rung.profile \in ChainProfiles \cup {None}
      /\ rung.engine \in Engines \cup {None} /\ rung.resolver \in Resolvers \cup {None} /\ rung.config \in Configs \cup {None}
      /\ EmptyConfig \in Configs /\ rows.engines = Engines /\ rows.resolvers = Resolvers
  BY ChainAssumption DEF Chain!Capture, Chain!Rung, Chain!Named, Rows
<1>1. CASE rung.profile = None
  <2> DEFINE engine == Chain!Or(rung.engine, own.engine)
             resolver == Chain!Or(rung.resolver, own.resolver)
             config == IF rung.config # None THEN rung.config ELSE IF resolver # own.resolver THEN EmptyConfig ELSE own.config
             spec == [profile |-> None, engine |-> engine, resolver |-> resolver, config |-> config, retry |-> own.retry]
  <2>1. engine \in Engines /\ resolver \in Resolvers /\ config \in Configs BY <1>0 DEF Chain!Or
  <2>2. built = [ok |-> TRUE, spec |-> spec]
    <3>1. engine \in rows.engines /\ resolver \in rows.resolvers BY <1>0, <2>1
    <3> QED BY <1>1, <3>1 DEF Chain!SpecFor
  <2>3. shown = [kind |-> "ok", capture |-> spec]
    <3>1. engine \in rows.engines /\ resolver \in rows.resolvers BY <1>0, <2>1
    <3>2. Chain!ConfigOf(rung, own, rows) = config BY <1>1 DEF Chain!ConfigOf
    <3> QED BY <1>1, <3>1, <3>2 DEF Chain!ResolveRung
  <2> HIDE DEF engine, resolver, config
  <2>4. spec \in Chain!Capture BY <1>0, <2>1 DEF Chain!Capture, Chain!Named
  <2> QED BY <2>2, <2>3, <2>4
<1>2. CASE rung.profile # None /\ rung.profile \in DOMAIN rows.profiles
  <2> DEFINE row == rows.profiles[rung.profile]
             engine == Chain!Or(rung.engine, row.engine)
             resolver == Chain!Or(rung.resolver, row.resolver)
             config == IF rung.config # None THEN rung.config ELSE row.config
             spec == [profile |-> rung.profile, engine |-> engine, resolver |-> resolver, config |-> config, retry |-> rung.profile]
  <2>0. row.engine \in Engines /\ row.resolver \in Resolvers /\ row.config \in Configs /\ rung.profile \in ChainProfiles
    BY <1>2 DEF Rows, StoredProfile
  <2>1. engine \in Engines /\ resolver \in Resolvers /\ config \in Configs BY <1>0, <2>0 DEF Chain!Or
  <2>2. built = [ok |-> TRUE, spec |-> spec]
    <3>1. engine \in rows.engines /\ resolver \in rows.resolvers BY <1>0, <2>1
    <3> QED BY <1>2, <3>1 DEF Chain!SpecFor
  <2>3. shown = [kind |-> "ok", capture |-> spec]
    <3>1. engine \in rows.engines /\ resolver \in rows.resolvers BY <1>0, <2>1
    <3>2. Chain!ConfigOf(rung, own, rows) = config BY <1>2 DEF Chain!ConfigOf
    <3> DEFINE base == Chain!ProfileBase(rung.profile, row)
    <3>3. base.engine = row.engine /\ base.resolver = row.resolver /\ base.retry = rung.profile BY DEF Chain!ProfileBase
    <3> HIDE DEF base
    <3>4. shown = IF Chain!Or(rung.engine, base.engine) \notin rows.engines THEN Chain!Missing("engine-missing")
                  ELSE IF Chain!Or(rung.resolver, base.resolver) \notin rows.resolvers THEN Chain!Missing("resolver-missing")
                  ELSE [kind |-> "ok",
                        capture |-> [profile |-> rung.profile, engine |-> Chain!Or(rung.engine, base.engine),
                                     resolver |-> Chain!Or(rung.resolver, base.resolver),
                                     config |-> Chain!ConfigOf(rung, own, rows), retry |-> base.retry]]
      BY <1>2 DEF Chain!ResolveRung, base
    <3> QED BY <3>1, <3>2, <3>3, <3>4
  <2> HIDE DEF engine, resolver, config
  <2>4. spec \in Chain!Capture BY <2>0, <2>1 DEF Chain!Capture, Chain!Named
  <2> QED BY <2>2, <2>3, <2>4
<1>3. CASE rung.profile \notin DOMAIN rows.profiles \cup {None}
  <2>1. built = [ok |-> FALSE, spec |-> Chain!NoCapture] BY <1>3 DEF Chain!SpecFor
  <2>2. shown = [kind |-> "profile-missing", capture |-> Chain!NoCapture] BY <1>3 DEF Chain!ResolveRung, Chain!Missing
  <2> QED BY <2>1, <2>2
<1> QED BY <1>1, <1>2, <1>3

LEMMA UnwalkedFacts == ASSUME NEW own \in Chain!Capture PROVE Chain!Unwalked(own) \in Walk
<1>1. Chain!CaptureKey(own) \in Keys BY KeyFacts
<1>2. <<>> \in Seq(Chain!Rung) /\ <<>> \in Seq(Chain!Capture) OBVIOUS
<1> QED BY <1>1, <1>2 DEF Chain!Unwalked, Walk

Drops(walk, rung, own, rows) ==
    LET built == Chain!SpecFor(own, rung, rows)
    IN  ~Chain!RungNames(rung) \/ ~built.ok \/ Chain!CaptureKey(built.spec) \in walk.keys
LEMMA WalkedFacts ==
  ASSUME NEW rows, Rows(rows), NEW own \in Chain!Capture, NEW rung \in Chain!Rung, NEW walk \in Walk, NEW strict \in BOOLEAN
  PROVE  LET next == Chain!Walked(walk, rung, own, rows, strict)
             spec == Chain!SpecFor(own, rung, rows).spec
         IN  /\ next \in Walk
             /\ walk.refused => next = walk
             /\ ~walk.refused /\ Drops(walk, rung, own, rows) =>
                   next = IF strict THEN [walk EXCEPT !.refused = TRUE] ELSE walk
             /\ ~walk.refused /\ ~Drops(walk, rung, own, rows) =>
                   /\ spec \in Chain!Capture /\ ~next.refused
                   /\ next.keys = walk.keys \cup {Chain!CaptureKey(spec)}
                   /\ next.rungs = Append(walk.rungs, rung) /\ next.captures = Append(walk.captures, spec)
<1> DEFINE next == Chain!Walked(walk, rung, own, rows, strict)
           built == Chain!SpecFor(own, rung, rows)
           spec == built.spec
           more == [walk EXCEPT !.keys = @ \cup {Chain!CaptureKey(spec)}, !.rungs = Append(@, rung), !.captures = Append(@, spec)]
<1>1. /\ walk.keys \subseteq Keys /\ walk.rungs \in Seq(Chain!Rung) /\ walk.captures \in Seq(Chain!Capture)
      /\ walk.refused \in BOOLEAN
  BY DEF Walk
<1>2. built.ok \in BOOLEAN /\ (built.ok => spec \in Chain!Capture) BY SpecFacts
<1>3. next = IF walk.refused THEN walk
             ELSE IF Drops(walk, rung, own, rows) THEN IF strict THEN [walk EXCEPT !.refused = TRUE] ELSE walk
             ELSE more
  BY DEF Chain!Walked, Drops
<1>4. CASE walk.refused BY <1>3, <1>4
<1>5. CASE ~walk.refused /\ Drops(walk, rung, own, rows)
  <2>1. [walk EXCEPT !.refused = TRUE] \in Walk BY DEF Walk
  <2> QED BY <1>3, <1>5, <2>1
<1>6. CASE ~walk.refused /\ ~Drops(walk, rung, own, rows)
  <2>1. next = more BY <1>3, <1>6
  <2>2. spec \in Chain!Capture BY <1>2, <1>6 DEF Drops
  <2>3. Chain!CaptureKey(spec) \in Keys BY <2>2, KeyFacts
  <2> HIDE DEF built
  <2>4. Append(walk.rungs, rung) \in Seq(Chain!Rung) /\ Append(walk.captures, spec) \in Seq(Chain!Capture) BY <1>1, <2>2
  <2>5. /\ more.keys = walk.keys \cup {Chain!CaptureKey(spec)} /\ more.refused = walk.refused
        /\ more.rungs = Append(walk.rungs, rung) /\ more.captures = Append(walk.captures, spec)
    BY DEF Walk
  <2>6. more \in Walk BY <1>1, <2>3, <2>4 DEF Walk
  <2> HIDE DEF more
  <2> QED BY <1>6, <2>1, <2>2, <2>5, <2>6 DEF built
<1> QED BY <1>1, <1>4, <1>5, <1>6

Walks(h, rungs, own, rows, strict) ==
    /\ h \in [0 .. Len(rungs) -> Walk]
    /\ h[0] = Chain!Unwalked(own) /\ Chain!Resolve(rungs, own, rows, strict) = h[Len(rungs)]
    /\ \A n \in 1 .. Len(rungs) : h[n] = Chain!Walked(h[n - 1], rungs[n], own, rows, strict)
LEMMA ResolveUnfolds ==
  ASSUME NEW rungs \in Seq(Chain!Rung), NEW rows, Rows(rows), NEW own \in Chain!Capture, NEW strict \in BOOLEAN
  PROVE  \E h : Walks(h, rungs, own, rows, strict)
<1> DEFINE N == Len(rungs)
           Next(w, n) == Chain!Walked(w, rungs[n], own, rows, strict)
           walk == CHOOSE h : h = [n \in 0 .. N |-> IF n = 0 THEN Chain!Unwalked(own) ELSE Next(h[n - 1], n)]
           F == [n \in 1 .. N |-> [w \in Walk |-> Next(w, n)]]
<1>1. N \in Nat /\ Chain!Resolve(rungs, own, rows, strict) = walk[N] BY DEF Chain!Resolve
<1>2. F \in [1 .. N -> [Walk -> Walk]]
  <2>1. ASSUME NEW n \in 1 .. N, NEW w \in Walk PROVE Next(w, n) \in Walk
    <3>1. rungs[n] \in Chain!Rung OBVIOUS
    <3> QED BY <3>1, WalkedFacts
  <2> HIDE DEF Next
  <2> QED BY <2>1
<1> HIDE DEF Next
<1>3. PICK h \in [0 .. N -> Walk] : h[0] = Chain!Unwalked(own) /\ \A n \in 1 .. N : h[n] = F[n][h[n - 1]]
  <2> HIDE DEF F
  <2>1. Unfolds(Walk, N) BY <1>1, Unfolding
  <2> QED BY <1>2, <2>1, UnwalkedFacts DEF Unfolds
<1>4. \A n \in 1 .. N : h[n] = Next(h[n - 1], n)
  <2> TAKE n \in 1 .. N
  <2>1. n - 1 \in 0 .. N BY <1>1
  <2>2. h[n - 1] \in Walk BY <1>3, <2>1
  <2> QED BY <1>3, <2>2
<1> HIDE DEF F
<1>5. h = [n \in 0 .. N |-> IF n = 0 THEN Chain!Unwalked(own) ELSE Next(h[n - 1], n)]
  <2>1. \A n \in 0 .. N : n = 0 \/ n \in 1 .. N BY <1>1
  <2> QED BY <1>3, <1>4, <2>1
<1>6. walk = [n \in 0 .. N |-> IF n = 0 THEN Chain!Unwalked(own) ELSE Next(walk[n - 1], n)]
  BY <1>5
<1> HIDE DEF walk
<1>7. walk[0] = Chain!Unwalked(own) BY <1>1, <1>6
<1>8. \A n \in 1 .. N : walk[n] = Next(walk[n - 1], n)
  <2> TAKE n \in 1 .. N
  <2>1. n \in 0 .. N /\ n # 0 BY <1>1
  <2> QED BY <1>6, <2>1
<1>9. \A n \in 0 .. N : walk[n] = h[n]
  <2> DEFINE T == {n \in 0 .. N : walk[n] = h[n]}
  <2>1. 0 \in T BY <1>1, <1>3, <1>7
  <2>2. ASSUME NEW n \in 1 .. N, n - 1 \in T PROVE n \in T
    <3>1. n \in 0 .. N BY <1>1
    <3> QED BY <1>4, <1>8, <2>2, <3>1
  <2>3. \A n \in 0 .. N : n \in T
    <3> HIDE DEF T
    <3> QED BY <1>1, <2>1, <2>2, Climb
  <2> QED BY <2>3
<1>10. N \in 0 .. N BY <1>1
<1>11. Walks(h, rungs, own, rows, strict)
  BY <1>1, <1>3, <1>4, <1>9, <1>10 DEF Walks, Next
<1> QED BY <1>11

LEMMA ResolveGrows ==
  ASSUME NEW rungs \in Seq(Chain!Rung), NEW x \in Chain!Rung, NEW rows, Rows(rows), NEW own \in Chain!Capture,
         NEW strict \in BOOLEAN
  PROVE  /\ Chain!Resolve(rungs, own, rows, strict) \in Walk
         /\ Chain!Resolve(<<>>, own, rows, strict) = Chain!Unwalked(own)
         /\ Chain!Resolve(Append(rungs, x), own, rows, strict)
              = Chain!Walked(Chain!Resolve(rungs, own, rows, strict), x, own, rows, strict)
<1> DEFINE N == Len(rungs)
           t == Append(rungs, x)
           Next(w, r) == Chain!Walked(w, r, own, rows, strict)
<1>1. N \in Nat /\ t \in Seq(Chain!Rung) /\ Len(t) = N + 1 /\ t[N + 1] = x /\ \A n \in 1 .. N : t[n] = rungs[n] BY Longer
<1> HIDE DEF t
<1>2. PICK h : Walks(h, rungs, own, rows, strict) BY ResolveUnfolds
<1>3. PICK g : Walks(g, t, own, rows, strict) BY <1>1, ResolveUnfolds
<1>a. /\ h[0] = Chain!Unwalked(own) /\ Chain!Resolve(rungs, own, rows, strict) = h[N]
      /\ h \in [0 .. N -> Walk] /\ \A n \in 1 .. N : h[n] = Next(h[n - 1], rungs[n])
  BY <1>2 DEF Walks
<1>b. /\ g[0] = Chain!Unwalked(own) /\ Chain!Resolve(t, own, rows, strict) = g[N + 1]
      /\ \A n \in 1 .. N + 1 : g[n] = Next(g[n - 1], t[n])
  BY <1>1, <1>3 DEF Walks
<1> HIDE DEF Next
<1> DEFINE T == {n \in 0 .. N : g[n] = h[n]}
<1>4. 0 \in T BY <1>1, <1>a, <1>b
<1>5. ASSUME NEW n \in 1 .. N, n - 1 \in T PROVE n \in T
  <2>1. n \in 0 .. N /\ n \in 1 .. N + 1 BY <1>1
  <2> QED BY <1>1, <1>a, <1>b, <1>5, <2>1
<1>6. \A n \in 0 .. N : n \in T
  <2> HIDE DEF T
  <2> QED BY <1>1, <1>4, <1>5, Climb
<1>7. N + 1 \in 1 .. N + 1 /\ (N + 1) - 1 = N /\ N \in 0 .. N BY <1>1
<1>8. g[N] = h[N] BY <1>6, <1>7
<1>9. g[N + 1] = Next(g[(N + 1) - 1], t[N + 1]) BY <1>b, <1>7
<1>10. Chain!Resolve(<<>>, own, rows, strict) = Chain!Unwalked(own)
  <2>1. <<>> \in Seq(Chain!Rung) /\ Len(<<>>) = 0 OBVIOUS
  <2>2. PICK f : Walks(f, <<>>, own, rows, strict) BY <2>1, ResolveUnfolds
  <2> QED BY <2>1, <2>2 DEF Walks
<1> QED BY <1>1, <1>a, <1>b, <1>7, <1>8, <1>9, <1>10 DEF t, Next

-----------------------------------------------------------------------------
(* Chain editor: a chain whose every rung can advance.                     *)
SpecOf(rung, own, rows) == Chain!SpecFor(own, rung, rows).spec
KeyOf(rung, own, rows) == Chain!CaptureKey(SpecOf(rung, own, rows))
Runs(rung, own, rows) == Chain!RungNames(rung) /\ Chain!SpecFor(own, rung, rows).ok
Advances(rungs, i, own, rows) ==
    /\ Runs(rungs[i], own, rows) /\ KeyOf(rungs[i], own, rows) # Chain!CaptureKey(own)
    /\ \A j \in 1 .. i - 1 : Runs(rungs[j], own, rows) => KeyOf(rungs[j], own, rows) # KeyOf(rungs[i], own, rows)
Clean(rungs, own, rows) == \A i \in DOMAIN rungs : Advances(rungs, i, own, rows)
Specs(rungs, own, rows) == [i \in DOMAIN rungs |-> SpecOf(rungs[i], own, rows)]
KeysUpTo(rungs, own, rows) ==
    {Chain!CaptureKey(own)} \cup {KeyOf(rungs[j], own, rows) : j \in {k \in DOMAIN rungs : Runs(rungs[k], own, rows)}}

LEMMA KeysGrow ==
  ASSUME NEW S, NEW rungs \in Seq(S), NEW x \in S, NEW own, NEW rows
  PROVE  KeysUpTo(Append(rungs, x), own, rows)
           = KeysUpTo(rungs, own, rows) \cup (IF Runs(x, own, rows) THEN {KeyOf(x, own, rows)} ELSE {})
<1> DEFINE t == Append(rungs, x)
           N == Len(rungs)
<1>1. /\ N \in Nat /\ DOMAIN rungs = 1 .. N /\ DOMAIN t = 1 .. N + 1 /\ t[N + 1] = x
      /\ \A n \in 1 .. N : t[n] = rungs[n]
  BY Longer
<1> HIDE DEF t
<1>2. DOMAIN t = DOMAIN rungs \cup {N + 1} BY <1>1
<1>3. ASSUME NEW k PROVE k \in KeysUpTo(t, own, rows) <=>
         k \in KeysUpTo(rungs, own, rows) \cup (IF Runs(x, own, rows) THEN {KeyOf(x, own, rows)} ELSE {})
  <2>1. k \in KeysUpTo(t, own, rows) <=>
           k = Chain!CaptureKey(own) \/ \E j \in DOMAIN t : Runs(t[j], own, rows) /\ k = KeyOf(t[j], own, rows)
    BY DEF KeysUpTo
  <2>2. k \in KeysUpTo(rungs, own, rows) <=>
           k = Chain!CaptureKey(own) \/ \E j \in DOMAIN rungs : Runs(rungs[j], own, rows) /\ k = KeyOf(rungs[j], own, rows)
    BY DEF KeysUpTo
  <2> QED BY <1>1, <1>2, <2>1, <2>2
<1> QED BY <1>3 DEF t

LEMMA CleanGrows ==
  ASSUME NEW S, NEW rungs \in Seq(S), NEW x \in S, NEW own, NEW rows
  PROVE  Clean(Append(rungs, x), own, rows) <=>
           Clean(rungs, own, rows) /\ Runs(x, own, rows) /\ KeyOf(x, own, rows) \notin KeysUpTo(rungs, own, rows)
<1> DEFINE t == Append(rungs, x)
           N == Len(rungs)
<1>1. /\ N \in Nat /\ DOMAIN rungs = 1 .. N /\ DOMAIN t = 1 .. N + 1 /\ t[N + 1] = x
      /\ \A n \in 1 .. N : t[n] = rungs[n]
  BY Longer
<1> HIDE DEF t
<1>2. \A i \in 1 .. N : Advances(t, i, own, rows) <=> Advances(rungs, i, own, rows)
  <2> TAKE i \in 1 .. N
  <2>1. \A j \in 1 .. i - 1 : j \in 1 .. N BY <1>1
  <2> QED BY <1>1, <2>1 DEF Advances
<1>3. Advances(t, N + 1, own, rows) <=> Runs(x, own, rows) /\ KeyOf(x, own, rows) \notin KeysUpTo(rungs, own, rows)
  <2>1. \A j : j \in 1 .. (N + 1) - 1 <=> j \in DOMAIN rungs BY <1>1
  <2> QED BY <1>1, <2>1 DEF Advances, KeysUpTo
<1> QED BY <1>1, <1>2, <1>3 DEF Clean, t


\* The walk over a chain: one that drops rungs refuses nothing and has seen the
\* keys of all that run; any takes a clean chain whole; a strict one takes no other.
LEMMA WalkFacts ==
  ASSUME NEW rungs \in Seq(Chain!Rung), NEW rows, Rows(rows), NEW own \in Chain!Capture, NEW strict \in BOOLEAN
  PROVE  LET walk == Chain!Resolve(rungs, own, rows, strict) IN
         /\ walk \in Walk
         /\ ~strict => ~walk.refused
         /\ ~walk.refused => walk.keys = KeysUpTo(rungs, own, rows)
         /\ strict /\ ~walk.refused => Clean(rungs, own, rows)
         /\ Clean(rungs, own, rows) =>
              ~walk.refused /\ walk.rungs = rungs /\ walk.captures = Specs(rungs, own, rows)
<1> DEFINE R(t) == Chain!Resolve(t, own, rows, strict)
           Good(t) == /\ ~strict => ~R(t).refused
                      /\ ~R(t).refused => R(t).keys = KeysUpTo(t, own, rows)
                      /\ strict /\ ~R(t).refused => Clean(t, own, rows)
                      /\ Clean(t, own, rows) => ~R(t).refused /\ R(t).rungs = t /\ R(t).captures = Specs(t, own, rows)
           T == {t \in Seq(Chain!Rung) : Good(t)}
<1>1. <<>> \in T
  <2>0. <<>> \in Seq(Chain!Rung) /\ DOMAIN <<>> = {} OBVIOUS
  <2>1. PICK x \in Chain!Rung : TRUE
    <3>1. Chain!Blank \in Chain!Rung BY DEF Chain!Blank, Chain!Rung, Chain!Named
    <3> QED BY <3>1
  <2>2. R(<<>>) = Chain!Unwalked(own) BY <2>0, <2>1, ResolveGrows
  <2>3. R(<<>>).refused = FALSE /\ R(<<>>).keys = {Chain!CaptureKey(own)} /\ R(<<>>).rungs = <<>> /\ R(<<>>).captures = <<>>
    BY <2>2 DEF Chain!Unwalked
  <2>4. Clean(<<>>, own, rows) /\ KeysUpTo(<<>>, own, rows) = {Chain!CaptureKey(own)} BY <2>0 DEF Clean, KeysUpTo
  <2>5. Specs(<<>>, own, rows) = <<>> BY <2>0 DEF Specs
  <2> HIDE DEF R
  <2> QED BY <2>0, <2>3, <2>4, <2>5
<1>2. ASSUME NEW t \in Seq(Chain!Rung), NEW x \in Chain!Rung, t \in T PROVE Append(t, x) \in T
  <2> DEFINE u == Append(t, x)
             w == R(t)
             v == R(u)
             spec == SpecOf(x, own, rows)
  <2>1. w \in Walk /\ v = Chain!Walked(w, x, own, rows, strict) BY ResolveGrows
  <2>2. Good(t) /\ u \in Seq(Chain!Rung) BY <1>2
  <2>3. Clean(u, own, rows) <=> Clean(t, own, rows) /\ Runs(x, own, rows) /\ KeyOf(x, own, rows) \notin KeysUpTo(t, own, rows)
    BY CleanGrows
  <2>4. KeysUpTo(u, own, rows) = KeysUpTo(t, own, rows) \cup (IF Runs(x, own, rows) THEN {KeyOf(x, own, rows)} ELSE {})
    BY KeysGrow
  <2>5. ~w.refused => (Drops(w, x, own, rows) <=> ~(Runs(x, own, rows) /\ KeyOf(x, own, rows) \notin KeysUpTo(t, own, rows)))
    BY <2>2 DEF Drops, Runs, KeyOf, SpecOf
  <2>6. /\ w.refused => v = w
        /\ ~w.refused /\ Drops(w, x, own, rows) => v = IF strict THEN [w EXCEPT !.refused = TRUE] ELSE w
        /\ ~w.refused /\ ~Drops(w, x, own, rows) =>
              /\ ~v.refused /\ v.keys = w.keys \cup {KeyOf(x, own, rows)}
              /\ v.rungs = Append(w.rungs, x) /\ v.captures = Append(w.captures, spec)
    <3> DEFINE next == Chain!Walked(w, x, own, rows, strict)
               built == Chain!SpecFor(own, x, rows)
    <3>1. /\ w.refused => next = w
          /\ ~w.refused /\ Drops(w, x, own, rows) => next = IF strict THEN [w EXCEPT !.refused = TRUE] ELSE w
          /\ ~w.refused /\ ~Drops(w, x, own, rows) =>
                /\ ~next.refused /\ next.keys = w.keys \cup {Chain!CaptureKey(built.spec)}
                /\ next.rungs = Append(w.rungs, x) /\ next.captures = Append(w.captures, built.spec)
      <4> HIDE DEF w
      <4> QED BY <2>1, WalkedFacts
    <3>2. KeyOf(x, own, rows) = Chain!CaptureKey(built.spec) /\ spec = built.spec BY DEF KeyOf, SpecOf
    <3>3. v = next BY <2>1
    <3> HIDE DEF next, built, v, w, spec
    <3> QED BY <3>1, <3>2, <3>3
  <2>7. Specs(u, own, rows) = Append(Specs(t, own, rows), spec)
    <3>1. Specs(t, own, rows) \in Seq({SpecOf(r, own, rows) : r \in Chain!Rung}) /\ Len(Specs(t, own, rows)) = Len(t)
      BY DEF Specs
    <3>2. /\ Specs(u, own, rows) \in Seq({SpecOf(r, own, rows) : r \in Chain!Rung})
          /\ Len(Specs(u, own, rows)) = Len(t) + 1
      BY <2>2 DEF Specs
    <3>3. \A i \in 1 .. Len(t) : Specs(u, own, rows)[i] = Specs(t, own, rows)[i]
      <4> TAKE i \in 1 .. Len(t)
      <4>1. i \in DOMAIN t /\ i \in DOMAIN u /\ u[i] = t[i] OBVIOUS
      <4> QED BY <4>1 DEF Specs
    <3>4. Specs(u, own, rows)[Len(t) + 1] = spec
      <4>1. Len(t) + 1 \in DOMAIN u /\ u[Len(t) + 1] = x OBVIOUS
      <4> QED BY <4>1 DEF Specs
    <3> DEFINE a == Specs(t, own, rows)
               b == Specs(u, own, rows)
    <3> HIDE DEF a, b, spec
    <3> QED BY <3>1, <3>2, <3>3, <3>4 DEF a, b
  <2>8. w.refused \in BOOLEAN /\ (strict /\ ~w.refused => [w EXCEPT !.refused = TRUE].refused) BY <2>1 DEF Walk
  <2> HIDE DEF u, v, w, spec
  <2>9. CASE w.refused
    <3>1. strict /\ ~Clean(t, own, rows) /\ v = w BY <2>2, <2>6, <2>9 DEF w
    <3> QED BY <2>2, <2>3, <2>9, <3>1 DEF u, v
  <2>10. CASE ~w.refused /\ Drops(w, x, own, rows)
    <3>0. ~Clean(u, own, rows) BY <2>3, <2>5, <2>10
    <3>1. CASE strict
      <4>1. v.refused BY <2>6, <2>8, <2>10, <3>1
      <4> QED BY <2>2, <3>0, <3>1, <4>1 DEF u, v
    <3>2. CASE ~strict
      <4>1. v = w BY <2>6, <2>10, <3>2
      <4>2. w.keys = KeysUpTo(t, own, rows) BY <2>2, <2>10 DEF w
      <4>3. KeysUpTo(u, own, rows) = KeysUpTo(t, own, rows) BY <2>4, <2>5, <2>10
      <4> QED BY <2>2, <2>10, <3>0, <3>2, <4>1, <4>2, <4>3 DEF u, v
    <3> QED BY <3>1, <3>2
  <2>11. CASE ~w.refused /\ ~Drops(w, x, own, rows)
    <3>1. Runs(x, own, rows) /\ KeyOf(x, own, rows) \notin KeysUpTo(t, own, rows) BY <2>5, <2>11
    <3>2. w.keys = KeysUpTo(t, own, rows) /\ (strict => Clean(t, own, rows)) BY <2>2, <2>11 DEF w
    <3>3. v.keys = KeysUpTo(u, own, rows) BY <2>4, <2>6, <2>11, <3>1, <3>2
    <3>4. Clean(t, own, rows) => w.rungs = t /\ w.captures = Specs(t, own, rows) BY <2>2 DEF w
    <3>5. Clean(u, own, rows) => v.rungs = u /\ v.captures = Specs(u, own, rows)
      BY <2>3, <2>6, <2>7, <2>11, <3>4 DEF u
    <3>6. ~v.refused BY <2>6, <2>11
    <3> QED BY <2>2, <2>3, <3>1, <3>2, <3>3, <3>5, <3>6 DEF u, v
  <2> QED BY <2>8, <2>9, <2>10, <2>11
<1>3. Seq(Chain!Rung) \subseteq T
  <2> HIDE DEF T
  <2> QED BY <1>1, <1>2, SequencesGrow
<1>4. Good(rungs) BY <1>3
<1>5. R(rungs) \in Walk
  <2>1. Chain!Blank \in Chain!Rung BY DEF Chain!Blank, Chain!Rung, Chain!Named
  <2> QED BY <2>1, ResolveGrows
<1> QED BY <1>4, <1>5

-----------------------------------------------------------------------------
(* Chain editor: what the console shows of a chain.                        *)
Misses == {"profile-missing", "engine-missing", "resolver-missing"}

LEMMA StepFacts ==
  ASSUME NEW rungs \in Seq(Chain!Rung), NEW rows, Rows(rows), NEW own \in Chain!Capture
  PROVE  LET steps == Chain!ResolveChain(rungs, own, rows) IN
         /\ DOMAIN steps = DOMAIN rungs
         /\ \A i \in DOMAIN rungs :
              /\ steps[i].problem = Chain!NoProblem <=> Advances(rungs, i, own, rows)
              /\ Advances(rungs, i, own, rows) => steps[i].capture = SpecOf(rungs[i], own, rows)
              /\ Chain!Prunable(steps[i]) <=>
                   \/ ~Chain!RungNames(rungs[i])
                   \/ Runs(rungs[i], own, rows) /\ ~Advances(rungs, i, own, rows)
              /\ Chain!RungNames(rungs[i]) /\ ~Runs(rungs[i], own, rows) => steps[i].problem.kind \in Misses
<1> DEFINE built == [i \in DOMAIN rungs |->
                        IF Chain!RungNames(rungs[i]) THEN Chain!ResolveRung(rungs[i], own, rows) ELSE Chain!Missing("empty")]
           Problem(i) ==
               IF built[i].kind # "ok" THEN [kind |-> built[i].kind, first |-> 0]
               ELSE IF Chain!CaptureKey(built[i].capture) = Chain!CaptureKey(own) THEN [kind |-> "primary", first |-> 0]
               ELSE LET earlier == Chain!Repeats(built, i)
                    IN IF earlier = {} THEN Chain!NoProblem
                       ELSE [kind |-> "duplicate", first |-> CHOOSE j \in earlier : \A k \in earlier : j <= k]
           steps == Chain!ResolveChain(rungs, own, rows)
<1>1. steps = [i \in DOMAIN rungs |-> [rung |-> rungs[i], capture |-> built[i].capture, problem |-> Problem(i)]]
  BY DEF Chain!ResolveChain
<1> HIDE DEF Problem, steps
<1>2. ASSUME NEW i \in DOMAIN rungs
      PROVE  /\ Chain!RungNames(rungs[i]) \in BOOLEAN
             /\ Runs(rungs[i], own, rows) => built[i].kind = "ok" /\ built[i].capture = SpecOf(rungs[i], own, rows)
             /\ Chain!RungNames(rungs[i]) /\ ~Runs(rungs[i], own, rows) => built[i].kind \in Misses
             /\ ~Chain!RungNames(rungs[i]) => built[i].kind = "empty"
  <2> DEFINE rung == rungs[i]
             spec == Chain!SpecFor(own, rung, rows)
             shown == Chain!ResolveRung(rung, own, rows)
  <2>1. rung \in Chain!Rung OBVIOUS
  <2>2. /\ spec.ok \in BOOLEAN /\ (spec.ok => shown.capture = spec.spec) /\ (spec.ok <=> shown.kind = "ok")
        /\ shown.kind \in {"ok"} \cup Misses
    BY <2>1, SpecFacts DEF Misses
  <2>3. built[i] = IF Chain!RungNames(rung) THEN shown ELSE Chain!Missing("empty") OBVIOUS
  <2>4. Chain!Missing("empty").kind = "empty" BY DEF Chain!Missing
  <2>5. Runs(rung, own, rows) = (Chain!RungNames(rung) /\ spec.ok) /\ SpecOf(rung, own, rows) = spec.spec
    BY DEF Runs, SpecOf
  <2>6. Chain!RungNames(rung) \in BOOLEAN BY DEF Chain!RungNames
  <2> HIDE DEF rung, spec, shown, built
  <2> QED BY <2>2, <2>3, <2>4, <2>5, <2>6 DEF rung
<1> HIDE DEF built
<1>3. ASSUME NEW i \in DOMAIN rungs
      PROVE  \A j \in 1 .. i - 1 : j \in DOMAIN rungs
  OBVIOUS
<1>4. ASSUME NEW i \in DOMAIN rungs, Runs(rungs[i], own, rows)
      PROVE  /\ Problem(i) = Chain!NoProblem <=> Advances(rungs, i, own, rows)
             /\ ~Advances(rungs, i, own, rows) => Problem(i).kind \in {"primary", "duplicate"}
  <2>1. built[i].kind = "ok" /\ Chain!CaptureKey(built[i].capture) = KeyOf(rungs[i], own, rows)
    BY <1>2, <1>4 DEF KeyOf
  <2>2. Chain!NoProblem.kind = "none" BY DEF Chain!NoProblem
  <2>3. Chain!Repeats(built, i) = {} <=>
           \A j \in 1 .. i - 1 : Runs(rungs[j], own, rows) => KeyOf(rungs[j], own, rows) # KeyOf(rungs[i], own, rows)
    <3>1. ASSUME NEW j \in 1 .. i - 1
          PROVE  /\ built[j].kind = "ok" <=> Runs(rungs[j], own, rows)
                 /\ Runs(rungs[j], own, rows) => Chain!CaptureKey(built[j].capture) = KeyOf(rungs[j], own, rows)
      <4>1. j \in DOMAIN rungs BY <1>3
      <4> QED BY <1>2, <4>1 DEF KeyOf, Misses
    <3>2. Chain!Repeats(built, i) = {j \in 1 .. i - 1 : Runs(rungs[j], own, rows) /\ KeyOf(rungs[j], own, rows) = KeyOf(rungs[i], own, rows)}
      BY <2>1, <3>1 DEF Chain!Repeats
    <3> QED BY <3>2
  <2>4. CASE KeyOf(rungs[i], own, rows) = Chain!CaptureKey(own)
    <3>1. Problem(i) = [kind |-> "primary", first |-> 0] BY <2>1, <2>4 DEF Problem
    <3>2. Problem(i).kind = "primary" /\ Problem(i) # Chain!NoProblem BY <2>2, <3>1
    <3> QED BY <2>4, <3>2 DEF Advances
  <2>5. CASE KeyOf(rungs[i], own, rows) # Chain!CaptureKey(own) /\ Chain!Repeats(built, i) = {}
    <3>1. Problem(i) = Chain!NoProblem BY <2>1, <2>5 DEF Problem
    <3>2. Advances(rungs, i, own, rows) BY <1>4, <2>3, <2>5 DEF Advances
    <3> QED BY <3>1, <3>2
  <2>6. CASE KeyOf(rungs[i], own, rows) # Chain!CaptureKey(own) /\ Chain!Repeats(built, i) # {}
    <3>1. Problem(i).kind = "duplicate" BY <2>1, <2>6 DEF Problem
    <3>2. ~Advances(rungs, i, own, rows) BY <2>3, <2>6 DEF Advances
    <3>3. Problem(i) # Chain!NoProblem BY <2>2, <3>1
    <3> QED BY <3>1, <3>2, <3>3
  <2> QED BY <2>4, <2>5, <2>6
<1>5. ASSUME NEW i \in DOMAIN rungs, ~Runs(rungs[i], own, rows)
      PROVE  /\ Problem(i) # Chain!NoProblem /\ ~Advances(rungs, i, own, rows)
             /\ Problem(i).kind = built[i].kind /\ built[i].kind \in Misses \cup {"empty"}
             /\ built[i].kind = "empty" <=> ~Chain!RungNames(rungs[i])
  <2>1. /\ built[i].kind \in Misses \cup {"empty"}
        /\ built[i].kind = "empty" <=> ~Chain!RungNames(rungs[i])
    BY <1>2, <1>5 DEF Misses
  <2>2. built[i].kind # "ok" BY <2>1 DEF Misses
  <2>3. Problem(i) = [kind |-> built[i].kind, first |-> 0] BY <2>2 DEF Problem
  <2>4. Problem(i).kind = built[i].kind BY <2>3
  <2>5. Chain!NoProblem.kind \notin Misses \cup {"empty"} BY DEF Chain!NoProblem, Misses
  <2> QED BY <1>5, <2>1, <2>4, <2>5 DEF Advances
<1>6. ASSUME NEW i \in DOMAIN rungs
      PROVE  /\ steps[i].problem = Problem(i) /\ steps[i].capture = built[i].capture
             /\ Chain!Prunable(steps[i]) <=> Problem(i).kind \in {"primary", "duplicate", "empty"}
  BY <1>1, <1>6 DEF Chain!Prunable
<1>7. ASSUME NEW i \in DOMAIN rungs
      PROVE  /\ steps[i].problem = Chain!NoProblem <=> Advances(rungs, i, own, rows)
             /\ Advances(rungs, i, own, rows) => steps[i].capture = SpecOf(rungs[i], own, rows)
             /\ Chain!Prunable(steps[i]) <=>
                   \/ ~Chain!RungNames(rungs[i])
                   \/ Runs(rungs[i], own, rows) /\ ~Advances(rungs, i, own, rows)
             /\ Chain!RungNames(rungs[i]) /\ ~Runs(rungs[i], own, rows) => steps[i].problem.kind \in Misses
  <2>1. CASE Runs(rungs[i], own, rows)
    <3>1. Chain!RungNames(rungs[i]) BY <2>1 DEF Runs
    <3>2. Chain!NoProblem.kind \notin {"primary", "duplicate", "empty"} BY DEF Chain!NoProblem
    <3> QED BY <1>2, <1>4, <1>6, <2>1, <3>1, <3>2
  <2>2. CASE ~Runs(rungs[i], own, rows)
    <3>1. "primary" \notin Misses /\ "duplicate" \notin Misses /\ "empty" \notin Misses BY DEF Misses
    <3> QED BY <1>5, <1>6, <2>2, <3>1
  <2> QED BY <2>1, <2>2
<1>8. DOMAIN steps = DOMAIN rungs BY <1>1
<1> QED BY <1>7, <1>8 DEF steps

\* A form without a problem shows a clean chain, and its captures.
LEMMA CleanShown ==
  ASSUME NEW rungs \in Seq(Chain!Rung), NEW rows, Rows(rows), NEW own \in Chain!Capture
  PROVE  LET steps == Chain!ResolveChain(rungs, own, rows) IN
         /\ Chain!Problems(steps) = {} <=> Clean(rungs, own, rows)
         /\ Clean(rungs, own, rows) => Chain!Captures(steps) = Specs(rungs, own, rows)
<1> DEFINE steps == Chain!ResolveChain(rungs, own, rows)
<1>1. DOMAIN steps = DOMAIN rungs /\ \A i \in DOMAIN rungs :
         /\ steps[i].problem = Chain!NoProblem <=> Advances(rungs, i, own, rows)
         /\ Advances(rungs, i, own, rows) => steps[i].capture = SpecOf(rungs[i], own, rows)
  BY StepFacts
<1>2. steps \in Seq({steps[i] : i \in DOMAIN rungs})
  <2>1. DOMAIN rungs = 1 .. Len(rungs) /\ Len(rungs) \in Nat OBVIOUS
  <2>2. steps = [i \in 1 .. Len(rungs) |-> steps[i]] BY <2>1 DEF Chain!ResolveChain
  <2> HIDE DEF steps
  <2>3. steps \in [1 .. Len(rungs) -> {steps[i] : i \in DOMAIN rungs}] BY <2>1, <2>2
  <2> QED BY <2>1, <2>3
<1> HIDE DEF steps
<1>3. Chain!Problems(steps) = {} <=> Clean(rungs, own, rows) BY <1>1 DEF Chain!Problems, Clean
<1>4. ASSUME Clean(rungs, own, rows) PROVE Chain!Captures(steps) = Specs(rungs, own, rows)
  <2>1. DOMAIN steps \subseteq DOMAIN steps \ Chain!Problems(steps) BY <1>3, <1>4
  <2>2. Chain!Standing(steps) = steps BY <1>2, <2>1, AtFacts DEF Chain!Standing
  <2>3. Chain!Captures(steps) = [i \in DOMAIN steps |-> steps[i].capture] BY <2>2 DEF Chain!Captures
  <2> QED BY <1>1, <1>4, <2>3 DEF Clean, Specs
<1> QED BY <1>3, <1>4 DEF steps

-----------------------------------------------------------------------------
(* Chain editor: what pruning leaves.                                      *)
Dropped(rungs, own, rows) ==
    {i \in DOMAIN rungs : ~Chain!RungNames(rungs[i]) \/ (Runs(rungs[i], own, rows) /\ ~Advances(rungs, i, own, rows))}
\* Only a rung that names something that is gone is in the way.
Unblocked(rungs, own, rows) ==
    LET steps == Chain!ResolveChain(rungs, own, rows) IN \A i \in Chain!Problems(steps) : steps[i].problem.kind \in Misses

LEMMA PassFacts ==
  ASSUME NEW rungs \in Seq(Chain!Rung), NEW rows, Rows(rows), NEW own \in Chain!Capture
  PROVE  LET kept == Chain!PruneOnce(rungs, own, rows) IN
         /\ kept = Chain!At(rungs, DOMAIN rungs \ Dropped(rungs, own, rows))
         /\ kept \in Seq(Chain!Rung) /\ Len(kept) <= Len(rungs)
         /\ Unblocked(kept, own, rows)
<1> DEFINE kept == Chain!PruneOnce(rungs, own, rows)
           places == DOMAIN rungs \ Dropped(rungs, own, rows)
           steps == Chain!ResolveChain(rungs, own, rows)
<1>1. kept = Chain!At(rungs, places)
  <2>1. \A i \in DOMAIN rungs : Chain!Prunable(steps[i]) <=> i \in Dropped(rungs, own, rows)
    BY StepFacts DEF Dropped
  <2>2. kept = Chain!At(rungs, {i \in DOMAIN rungs : ~Chain!Prunable(steps[i])}) BY DEF Chain!PruneOnce
  <2>3. {i \in DOMAIN rungs : ~Chain!Prunable(steps[i])} = places
    <3> HIDE DEF steps
    <3> QED BY <2>1
  <2> QED BY <2>2, <2>3
<1>2. kept \in Seq(Chain!Rung) /\ Len(kept) <= Len(rungs) BY <1>1, AtFacts
<1> HIDE DEF kept, steps
<1>3. PICK at \in [DOMAIN kept -> DOMAIN rungs \cap places] :
            /\ \A j \in DOMAIN at : kept[j] = rungs[at[j]]
            /\ \A i, j \in DOMAIN at : i < j => at[i] < at[j]
  <2> HIDE DEF places
  <2> QED BY <1>1, AtPlaces
<1>4. ASSUME NEW j \in DOMAIN kept, Runs(kept[j], own, rows) PROVE Advances(kept, j, own, rows)
  <2>1. at[j] \in DOMAIN rungs /\ at[j] \notin Dropped(rungs, own, rows) /\ kept[j] = rungs[at[j]] BY <1>3
  <2>2. Advances(rungs, at[j], own, rows) BY <1>4, <2>1 DEF Dropped
  <2>3. ASSUME NEW i \in 1 .. j - 1 PROVE at[i] \in 1 .. at[j] - 1 /\ kept[i] = rungs[at[i]]
    <3>1. i \in DOMAIN kept /\ i < j BY <1>2
    <3>2. at[i] \in DOMAIN rungs /\ at[i] < at[j] BY <1>3, <3>1
    <3>3. at[i] \in 1 .. at[j] - 1 BY <2>1, <3>2
    <3> QED BY <1>3, <3>1, <3>3
  <2> QED BY <2>1, <2>2, <2>3 DEF Advances
<1>5. ASSUME NEW j \in DOMAIN kept PROVE Chain!RungNames(kept[j])
  <2>1. at[j] \in DOMAIN rungs /\ at[j] \notin Dropped(rungs, own, rows) /\ kept[j] = rungs[at[j]] BY <1>3
  <2> QED BY <2>1 DEF Dropped
<1> DEFINE now == Chain!ResolveChain(kept, own, rows)
<1>6. DOMAIN now = DOMAIN kept /\ \A i \in DOMAIN kept :
         /\ now[i].problem = Chain!NoProblem <=> Advances(kept, i, own, rows)
         /\ Chain!RungNames(kept[i]) /\ ~Runs(kept[i], own, rows) => now[i].problem.kind \in Misses
  BY <1>2, StepFacts
<1> HIDE DEF now
<1>7. \A i \in Chain!Problems(now) : now[i].problem.kind \in Misses
  BY <1>4, <1>5, <1>6 DEF Chain!Problems
<1>8. Unblocked(kept, own, rows) BY <1>7 DEF Unblocked, now
<1> QED BY <1>1, <1>2, <1>8 DEF kept

\* A walk that drops rungs drops the very rungs a pass drops.
LEMMA PassCostsNothing ==
  ASSUME NEW rungs \in Seq(Chain!Rung), NEW rows, Rows(rows), NEW own \in Chain!Capture
  PROVE  Chain!Resolve(Chain!PruneOnce(rungs, own, rows), own, rows, FALSE) = Chain!Resolve(rungs, own, rows, FALSE)
<1> DEFINE N == Len(rungs)
           R(t) == Chain!Resolve(t, own, rows, FALSE)
           places == DOMAIN rungs \ Dropped(rungs, own, rows)
           pre(n) == Start(rungs, n)
           T == {n \in 0 .. N : R(Chain!At(pre(n), places)) = R(pre(n))}
<1>1. N \in Nat /\ pre(0) = <<>> /\ pre(N) = rungs BY StartFacts
<1>2. 0 \in T
  <2>1. Chain!At(<<>>, places) = <<>> BY AtNone
  <2>2. Chain!At(pre(0), places) = pre(0) BY <1>1, <2>1
  <2>3. 0 \in 0 .. N BY <1>1
  <2> HIDE DEF pre, R, places
  <2> QED BY <2>2, <2>3
<1>3. ASSUME NEW n \in 1 .. N, n - 1 \in T PROVE n \in T
  <2> DEFINE t == pre(n - 1)
             x == rungs[n]
             u == Append(t, x)
             w == R(t)
  <2>1. n - 1 \in 0 .. N /\ n \in 0 .. N /\ n \in DOMAIN rungs /\ x \in Chain!Rung BY <1>1
  <2>2. t \in Seq(Chain!Rung) /\ Len(t) = n - 1 /\ pre(n) = u BY <2>1, StartFacts
  <2>3. \A j \in 1 .. n - 1 : t[j] = rungs[j] BY DEF Start
  <2>4. R(Chain!At(t, places)) = R(t) BY <1>3
  <2> HIDE DEF t, pre
  <2>5. Chain!At(u, places) = IF n \in places THEN Append(Chain!At(t, places), x) ELSE Chain!At(t, places)
    <3>1. Chain!At(u, places) = IF Len(t) + 1 \in places THEN Append(Chain!At(t, places), x) ELSE Chain!At(t, places)
      BY <2>1, <2>2, AtGrows
    <3>2. Len(t) + 1 = n BY <2>1, <2>2
    <3> QED BY <3>1, <3>2
  <2>6. Chain!At(t, places) \in Seq(Chain!Rung) BY <2>2, AtFacts
  <2>7. R(u) = Chain!Walked(w, x, own, rows, FALSE) BY <2>1, <2>2, ResolveGrows
  <2>8. CASE n \in places
    <3>1. R(Append(Chain!At(t, places), x)) = Chain!Walked(R(Chain!At(t, places)), x, own, rows, FALSE)
      BY <2>1, <2>6, ResolveGrows
    <3> QED BY <2>1, <2>2, <2>4, <2>5, <2>7, <2>8, <3>1
  <2>9. CASE n \notin places
    <3>1. n \in Dropped(rungs, own, rows) BY <2>1, <2>9
    <3>2. w \in Walk /\ ~w.refused /\ w.keys = KeysUpTo(t, own, rows) BY <2>2, WalkFacts
    <3>3. Drops(w, x, own, rows)
      <4>1. CASE ~Chain!RungNames(x) BY <4>1 DEF Drops
      <4>2. CASE Runs(x, own, rows) /\ ~Advances(rungs, n, own, rows)
        <5>1. \/ KeyOf(x, own, rows) = Chain!CaptureKey(own)
              \/ \E j \in 1 .. n - 1 : Runs(rungs[j], own, rows) /\ KeyOf(rungs[j], own, rows) = KeyOf(x, own, rows)
          BY <4>2 DEF Advances
        <5>2. DOMAIN t = 1 .. n - 1 BY <2>1, <2>2
        <5>3. KeyOf(x, own, rows) \in KeysUpTo(t, own, rows)
          BY <2>3, <5>1, <5>2 DEF KeysUpTo
        <5> QED BY <3>2, <5>3 DEF Drops, KeyOf, SpecOf
      <4> QED BY <3>1, <4>1, <4>2 DEF Dropped
    <3>4. Chain!Walked(w, x, own, rows, FALSE) = w
      <4> HIDE DEF w, x
      <4> QED BY <3>2, <3>3 DEF Chain!Walked, Drops
    <3> QED BY <2>1, <2>2, <2>4, <2>5, <2>7, <2>9, <3>4
  <2> QED BY <2>8, <2>9
<1>4. \A n \in 0 .. N : n \in T
  <2> HIDE DEF T
  <2> QED BY <1>1, <1>2, <1>3, Climb
<1>5. N \in T
  <2>1. N \in 0 .. N BY <1>1
  <2> HIDE DEF T
  <2> QED BY <1>4, <2>1
<1>6. R(Chain!At(rungs, places)) = R(rungs) BY <1>1, <1>5
<1> HIDE DEF R, places
<1>7. Chain!PruneOnce(rungs, own, rows) = Chain!At(rungs, places) BY PassFacts DEF places
<1> QED BY <1>6, <1>7 DEF R

LEMMA PruneFacts ==
  ASSUME NEW rungs \in Seq(Chain!Rung), NEW rows, Rows(rows), NEW own \in Chain!Capture
  PROVE  LET kept == Chain!PruneChain(rungs, own, rows) IN
         /\ kept \in Seq(Chain!Rung) /\ Len(kept) <= Len(rungs)
         /\ Unblocked(kept, own, rows)
         /\ Chain!Resolve(kept, own, rows, FALSE) = Chain!Resolve(rungs, own, rows, FALSE)
<1> DEFINE N == Len(rungs)
           Pass(r) == Chain!PruneOnce(r, own, rows)
           R(r) == Chain!Resolve(r, own, rows, FALSE)
           S == {r \in Seq(Chain!Rung) : Len(r) <= N /\ R(r) = R(rungs)}
           after == CHOOSE h : h = [n \in 0 .. N |-> IF n = 0 THEN rungs ELSE Pass(h[n - 1])]
           F == [n \in 1 .. N |-> [r \in S |-> Pass(r)]]
<1>1. N \in Nat /\ rungs \in S /\ Chain!PruneChain(rungs, own, rows) = after[N] BY DEF Chain!PruneChain
<1>2. ASSUME NEW r \in S PROVE Pass(r) \in S /\ Unblocked(Pass(r), own, rows)
  <2>1. Pass(r) \in Seq(Chain!Rung) /\ Len(Pass(r)) <= Len(r) /\ Unblocked(Pass(r), own, rows) BY PassFacts
  <2>2. R(Pass(r)) = R(r) BY PassCostsNothing
  <2> HIDE DEF R, Pass
  <2>3. Len(r) <= N /\ R(r) = R(rungs) /\ Len(r) \in Nat OBVIOUS
  <2>4. Len(Pass(r)) <= N BY <2>1, <2>3, <1>1
  <2> QED BY <2>1, <2>2, <2>3, <2>4
<1> HIDE DEF Pass, R
<1>3. F \in [1 .. N -> [S -> S]]
  <2> HIDE DEF S
  <2> QED BY <1>2
<1>4. PICK h \in [0 .. N -> S] : h[0] = rungs /\ \A n \in 1 .. N : h[n] = F[n][h[n - 1]]
  <2> HIDE DEF F, S
  <2>1. Unfolds(S, N) BY <1>1, Unfolding
  <2> QED BY <1>1, <1>3, <2>1 DEF Unfolds
<1> HIDE DEF S
<1>5. \A n \in 1 .. N : h[n - 1] \in S /\ h[n] = Pass(h[n - 1])
  <2> TAKE n \in 1 .. N
  <2>1. n - 1 \in 0 .. N BY <1>1
  <2>2. h[n - 1] \in S BY <1>4, <2>1
  <2> QED BY <1>4, <2>2
<1> HIDE DEF F
<1>6. h = [n \in 0 .. N |-> IF n = 0 THEN rungs ELSE Pass(h[n - 1])]
  <2>1. \A n \in 0 .. N : n = 0 \/ n \in 1 .. N BY <1>1
  <2> QED BY <1>4, <1>5, <2>1
<1>7. after = [n \in 0 .. N |-> IF n = 0 THEN rungs ELSE Pass(after[n - 1])] BY <1>6
<1> HIDE DEF after
<1>8. after[0] = rungs BY <1>1, <1>7
<1>9. \A n \in 1 .. N : after[n] = Pass(after[n - 1])
  <2> TAKE n \in 1 .. N
  <2>1. n \in 0 .. N /\ n # 0 BY <1>1
  <2> QED BY <1>7, <2>1
<1>10. \A n \in 0 .. N : after[n] \in S
  <2> DEFINE T == {n \in 0 .. N : after[n] \in S}
  <2>1. 0 \in T BY <1>1, <1>8
  <2>2. ASSUME NEW n \in 1 .. N, n - 1 \in T PROVE n \in T
    <3>1. n \in 0 .. N BY <1>1
    <3> QED BY <1>2, <1>9, <2>2, <3>1
  <2>3. \A n \in 0 .. N : n \in T
    <3> HIDE DEF T
    <3> QED BY <1>1, <2>1, <2>2, Climb
  <2> QED BY <2>3
<1>11. after[N] \in S
  <2>1. N \in 0 .. N BY <1>1
  <2> QED BY <1>10, <2>1
<1>12. Unblocked(after[N], own, rows)
  <2>1. CASE N = 0
    <3>1. after[N] = rungs /\ DOMAIN rungs = {} BY <1>8, <2>1
    <3>2. DOMAIN Chain!ResolveChain(rungs, own, rows) = {} BY <3>1, StepFacts
    <3> QED BY <3>1, <3>2 DEF Unblocked, Chain!Problems
  <2>2. CASE N # 0
    <3>1. N \in 1 .. N /\ N - 1 \in 0 .. N BY <1>1, <2>2
    <3>2. after[N] = Pass(after[N - 1]) /\ after[N - 1] \in S BY <1>9, <1>10, <3>1
    <3> QED BY <1>2, <3>2
  <2> QED BY <2>1, <2>2
<1> QED BY <1>1, <1>11, <1>12 DEF S, R

-----------------------------------------------------------------------------
(* Chain editor: the rungs that rebuild a plan.                            *)
LEMMA ReducedFacts ==
  ASSUME NEW own \in Chain!Capture, NEW rows, Rows(rows), NEW spec \in Chain!Capture,
         spec.profile \in DOMAIN rows.profiles \cup {None}, Chain!CaptureKey(spec) # Chain!CaptureKey(own)
  PROVE  LET rung == Chain!Reduced(spec, own, rows)
             saved == [own EXCEPT !.profile = None]
         IN  /\ rung \in Chain!Rung /\ Runs(rung, saved, rows) /\ KeyOf(rung, saved, rows) = Chain!CaptureKey(spec)
             /\ saved \in Chain!Capture /\ Chain!CaptureKey(saved) = Chain!CaptureKey(own)
<1> DEFINE rung == Chain!Reduced(spec, own, rows)
           saved == [own EXCEPT !.profile = None]
           built == Chain!SpecFor(saved, rung, rows)
<1>0. /\ own.engine \in Engines /\ own.resolver \in Resolvers /\ own.config \in Configs
      /\ spec.engine \in Engines /\ spec.resolver \in Resolvers /\ spec.config \in Configs
      /\ spec.profile \in ChainProfiles \cup {None} /\ rows.engines = Engines /\ rows.resolvers = Resolvers
      /\ None \notin Engines /\ None \notin Resolvers /\ None \notin Configs
  BY ChainAssumption DEF Chain!Capture, Chain!Named, Rows
<1>1. /\ saved \in Chain!Capture /\ saved.engine = own.engine /\ saved.resolver = own.resolver /\ saved.config = own.config
      /\ Chain!CaptureKey(saved) = Chain!CaptureKey(own)
  BY DEF Chain!Capture, Chain!Named, Chain!CaptureKey
<1>2. <<spec.engine, spec.resolver, spec.config>> # <<own.engine, own.resolver, own.config>> BY DEF Chain!CaptureKey
<1> HIDE DEF saved
<1>3. CASE spec.profile = None
  <2> DEFINE moved == spec.resolver # own.resolver
  <2>1. /\ rung.profile = None
        /\ rung.engine = IF spec.engine # own.engine THEN spec.engine ELSE None
        /\ rung.resolver = IF moved THEN spec.resolver ELSE None
        /\ rung.config = IF moved \/ spec.config # own.config THEN spec.config ELSE None
        /\ DOMAIN rung = {"profile", "engine", "resolver", "config"}
    BY <1>3 DEF Chain!Reduced
  <2>2. rung \in Chain!Rung BY <1>0, <1>3 DEF Chain!Reduced, Chain!Rung, Chain!Named
  <2> HIDE DEF rung
  <2>3. Chain!RungNames(rung)
    <3>1. rung.engine # None \/ rung.resolver # None \/ rung.config # None BY <1>0, <1>2, <2>1
    <3>2. Chain!Blank.engine = None /\ Chain!Blank.resolver = None /\ Chain!Blank.config = None BY DEF Chain!Blank
    <3> QED BY <3>1, <3>2 DEF Chain!RungNames
  <2>4. Chain!Or(rung.engine, saved.engine) = spec.engine /\ Chain!Or(rung.resolver, saved.resolver) = spec.resolver
    BY <1>0, <1>1, <2>1 DEF Chain!Or
  <2>5. (IF rung.config # None THEN rung.config
         ELSE IF spec.resolver # saved.resolver THEN EmptyConfig ELSE saved.config) = spec.config
    BY <1>0, <1>1, <2>1
  <2>6. built = [ok |-> TRUE, spec |-> [profile |-> None, engine |-> spec.engine, resolver |-> spec.resolver,
                                        config |-> spec.config, retry |-> saved.retry]]
    BY <1>0, <2>1, <2>4, <2>5 DEF Chain!SpecFor
  <2>7. built.ok /\ Chain!CaptureKey(built.spec) = Chain!CaptureKey(spec) BY <2>6 DEF Chain!CaptureKey
  <2> HIDE DEF built
  <2> QED BY <1>1, <2>2, <2>3, <2>7 DEF Runs, KeyOf, SpecOf, rung, saved, built
<1>4. CASE spec.profile # None
  <2> DEFINE row == rows.profiles[spec.profile]
             moved == spec.resolver # row.resolver
  <2>0. spec.profile \in DOMAIN rows.profiles BY <1>4
  <2>1. /\ rung.profile = spec.profile
        /\ rung.engine = IF spec.engine # row.engine THEN spec.engine ELSE None
        /\ rung.resolver = IF moved THEN spec.resolver ELSE None
        /\ rung.config = IF moved \/ spec.config # row.config THEN spec.config ELSE None
    BY <1>4 DEF Chain!Reduced
  <2>2. rung \in Chain!Rung BY <1>0, <1>4 DEF Chain!Reduced, Chain!Rung, Chain!Named
  <2> HIDE DEF rung
  <2>3. Chain!RungNames(rung) BY <1>4, <2>1 DEF Chain!RungNames, Chain!Blank
  <2>4. Chain!Or(rung.engine, row.engine) = spec.engine /\ Chain!Or(rung.resolver, row.resolver) = spec.resolver
    BY <1>0, <2>1 DEF Chain!Or
  <2>5. (IF rung.config # None THEN rung.config ELSE row.config) = spec.config BY <1>0, <2>1
  <2>6. built = [ok |-> TRUE, spec |-> [profile |-> spec.profile, engine |-> spec.engine, resolver |-> spec.resolver,
                                        config |-> spec.config, retry |-> spec.profile]]
    BY <1>0, <1>4, <2>0, <2>1, <2>4, <2>5 DEF Chain!SpecFor
  <2>7. built.ok /\ Chain!CaptureKey(built.spec) = Chain!CaptureKey(spec) BY <2>6 DEF Chain!CaptureKey
  <2> HIDE DEF built
  <2> QED BY <1>1, <2>2, <2>3, <2>7 DEF Runs, KeyOf, SpecOf, rung, saved, built
<1> QED BY <1>3, <1>4

\* The captures of a run: no two of one key, none of the run's own.
Distinct(captures, own) ==
    \A i \in DOMAIN captures :
        /\ Chain!CaptureKey(captures[i]) # Chain!CaptureKey(own)
        /\ \A j \in 1 .. i - 1 : Chain!CaptureKey(captures[j]) # Chain!CaptureKey(captures[i])

\* The rungs of a plan, walked over with the profile's own capture, are kept
\* whole and stand for the captures of the plan.
Rebuilds(own, captures, rows) ==
    LET saved == [own EXCEPT !.profile = None]
        reduced == Chain!RungsFromPlan(own, captures, rows)
        again == Chain!Resolve(reduced, saved, rows, FALSE)
    IN  /\ saved \in Chain!Capture /\ reduced \in Seq(Chain!Rung) /\ Len(reduced) = Len(captures)
        /\ again.rungs = reduced
        /\ DOMAIN again.captures = DOMAIN captures
        /\ \A i \in DOMAIN captures : Chain!CaptureKey(again.captures[i]) = Chain!CaptureKey(captures[i])
LEMMA PlanRebuilt ==
  ASSUME NEW own \in Chain!Capture, NEW rows, Rows(rows), NEW captures \in Seq(Chain!Capture), Distinct(captures, own),
         \A i \in DOMAIN captures : captures[i].profile \in DOMAIN rows.profiles \cup {None}
  PROVE  Rebuilds(own, captures, rows)
<1> DEFINE saved == [own EXCEPT !.profile = None]
           whole == [i \in DOMAIN captures |-> Chain!Reduced(captures[i], own, rows)]
           again == Chain!Resolve(whole, saved, rows, FALSE)
<1>0. saved \in Chain!Capture /\ Chain!CaptureKey(saved) = Chain!CaptureKey(own)
  BY DEF Chain!Capture, Chain!Named, Chain!CaptureKey
<1> HIDE DEF saved
<1>1. ASSUME NEW i \in DOMAIN captures
      PROVE  whole[i] \in Chain!Rung /\ Runs(whole[i], saved, rows) /\ KeyOf(whole[i], saved, rows) = Chain!CaptureKey(captures[i])
  <2>1. captures[i] \in Chain!Capture /\ Chain!CaptureKey(captures[i]) # Chain!CaptureKey(own) BY DEF Distinct
  <2>2. captures[i].profile \in DOMAIN rows.profiles \cup {None} OBVIOUS
  <2> QED BY <2>1, <2>2, ReducedFacts DEF saved
<1>2. whole \in Seq(Chain!Rung) /\ Len(whole) = Len(captures) /\ DOMAIN whole = DOMAIN captures
  <2>1. DOMAIN captures = 1 .. Len(captures) /\ Len(captures) \in Nat OBVIOUS
  <2>2. whole \in [1 .. Len(captures) -> Chain!Rung] BY <1>1, <2>1
  <2> QED BY <2>1, <2>2
<1>3. Chain!RungsFromPlan(own, captures, rows) = whole
  <2>1. Chain!RungsFromPlan(own, captures, rows) = Chain!At(whole, {i \in DOMAIN whole : Chain!RungNames(whole[i])})
    BY DEF Chain!RungsFromPlan
  <2>2. DOMAIN whole \subseteq {i \in DOMAIN whole : Chain!RungNames(whole[i])} BY <1>1, <1>2 DEF Runs
  <2> HIDE DEF whole
  <2> QED BY <1>2, <2>1, <2>2, AtFacts
<1> HIDE DEF whole
<1>4. Clean(whole, saved, rows)
  <2> SUFFICES ASSUME NEW i \in DOMAIN whole PROVE Advances(whole, i, saved, rows) BY DEF Clean
  <2>1. i \in DOMAIN captures /\ \A j \in 1 .. i - 1 : j \in DOMAIN captures BY <1>2
  <2>2. \A j \in 1 .. i - 1 : KeyOf(whole[j], saved, rows) = Chain!CaptureKey(captures[j]) BY <1>1, <2>1
  <2> QED BY <1>0, <1>1, <2>1, <2>2 DEF Advances, Distinct
<1>5. again.rungs = whole /\ again.captures = Specs(whole, saved, rows)
  <2>1. \A strict \in BOOLEAN :
           LET walk == Chain!Resolve(whole, saved, rows, strict)
           IN walk.rungs = whole /\ walk.captures = Specs(whole, saved, rows)
    BY <1>0, <1>2, <1>4, WalkFacts
  <2>2. FALSE \in BOOLEAN OBVIOUS
  <2> QED BY <2>1, <2>2
<1> HIDE DEF again
<1>6. ASSUME NEW i \in DOMAIN captures PROVE Chain!CaptureKey(again.captures[i]) = Chain!CaptureKey(captures[i])
  BY <1>1, <1>2, <1>5 DEF Specs, KeyOf
<1>7. DOMAIN again.captures = DOMAIN captures BY <1>2, <1>5 DEF Specs
<1> QED BY <1>0, <1>2, <1>3, <1>5, <1>6, <1>7 DEF saved, again, Rebuilds

-----------------------------------------------------------------------------
(* Chain editor: the invariant and the steps.                              *)
ChainForms ==
    [kind : {"none", "run", "preset", "bulk"}, mode : {"custom", "profile"}, profile : Chain!Named(ChainProfiles),
     engine : Chain!Named(Engines), resolver : Chain!Named(Resolvers), config : Configs, chain : Seq(Chain!Rung)]
Bounded(chain) == chain \in Seq(Chain!Rung) /\ Len(chain) <= MaxRungs

ChainTyped ==
    /\ Rows(c1) /\ Rows(c2)
    /\ c3 \in ChainForms /\ Bounded(c3.chain)
    /\ c4 \in [at : Nat, rung : Chain!Rung, draft : Chain!Rung] /\ c5 \in Chain!Rung
    /\ c6.sent \in BOOLEAN
    /\ c7 \in [stage : {"none", "ran", "saved"}, own : Chain!Capture \cup {Chain!NoCapture}, captures : Seq(Chain!Capture),
               rungs : Seq(Chain!Rung)]
    /\ c8 \in 0 .. MaxEdits /\ c9 \in 0 .. MaxChanges
\* Edits that are not applied are those of the rung at their card's place.
ChainTouched == c4 # Chain!Untouched => c4.at \in DOMAIN c3.chain /\ c3.chain[c4.at] = c4.rung
\* A save in flight was checked, on the lookups of that moment, against the base
\* the form still names.
ChainSent ==
    c6.sent =>
        /\ c3.kind # "none" /\ Rows(c6.lookups) /\ c6.own = Chain!BaseOf(c3, c6.lookups) /\ c6.own # Chain!NoCapture
        /\ Bounded(c6.chain) /\ Clean(c6.chain, c6.own, c6.lookups)
\* A run tries no capture twice.
ChainRan ==
    /\ c7.stage # "none" => c7.own \in Chain!Capture
    /\ c7.stage = "ran" => Len(c7.captures) <= MaxRungs /\ Distinct(c7.captures, c7.own)
    /\ c7.stage = "saved" => Len(c7.rungs) <= MaxRungs
ChainInv == ChainTyped /\ ChainTouched /\ ChainSent /\ ChainRan

LEMMA BlankFacts == /\ Chain!Blank \in Chain!Rung /\ Chain!Untouched \in [at : Nat, rung : Chain!Rung, draft : Chain!Rung]
                    /\ Chain!EmptyDraft \in Chain!Rung /\ Chain!NoCapture \notin Chain!Capture
                    /\ Chain!NoForm \in ChainForms /\ Bounded(Chain!NoForm.chain) /\ Chain!NoForm.kind = "none"
<1>1. Chain!Blank \in Chain!Rung BY DEF Chain!Blank, Chain!Rung, Chain!Named
<1>2. Chain!NoCapture.engine = None BY DEF Chain!NoCapture
<1>3. Chain!NoCapture \notin Chain!Capture BY <1>2, ChainAssumption DEF Chain!Capture
<1>4. Chain!NoForm \in ChainForms /\ Chain!NoForm.chain = <<>> /\ Chain!NoForm.kind = "none"
  BY ChainAssumption DEF Chain!NoForm, ChainForms, Chain!Named
<1>5. <<>> \in Seq(Chain!Rung) /\ Len(<<>>) = 0 /\ MaxRungs \in Nat BY ChainAssumption
<1> QED BY <1>1, <1>3, <1>4, <1>5 DEF Chain!Untouched, Chain!EmptyDraft, Bounded

LEMMA FormBase ==
  ASSUME NEW f \in ChainForms, NEW rows, Rows(rows)
  PROVE  /\ Chain!BaseOf(f, rows) \in Chain!Capture \cup {Chain!NoCapture}
         /\ \A g \in ChainForms :
               /\ g.mode = f.mode /\ g.profile = f.profile /\ g.engine = f.engine /\ g.resolver = f.resolver /\ g.config = f.config
               => Chain!BaseOf(g, rows) = Chain!BaseOf(f, rows)
<1>1. CASE f.mode = "profile"
  <2>1. f.profile \in DOMAIN rows.profiles => Chain!ProfileBase(f.profile, rows.profiles[f.profile]) \in Chain!Capture
    BY BaseFacts
  <2> QED BY <1>1, <2>1 DEF Chain!BaseOf
<1>2. CASE f.mode # "profile"
  <2>1. /\ f.profile \in Chain!Named(ChainProfiles) /\ f.engine \in Engines \cup {None} /\ f.resolver \in Resolvers \cup {None}
        /\ f.config \in Configs
    BY DEF ChainForms, Chain!Named
  <2> QED BY <1>2, <2>1 DEF Chain!BaseOf, Chain!Capture
<1> QED BY <1>1, <1>2

LEMMA StoredFacts ==
  ASSUME NEW rows, Rows(rows), NEW p \in DOMAIN rows.profiles
  PROVE  p \in ChainProfiles /\ Bounded(Chain!ChainOf(rows.profiles[p]))
<1> DEFINE row == rows.profiles[p]
<1>1. p \in ChainProfiles /\ row \in StoredProfile /\ Len(Chain!ChainOf(row)) <= MaxRungs BY DEF Rows
<1> HIDE DEF row
<1>2. row.rungs \in Seq(Chain!Rung) BY <1>1 DEF StoredProfile
<1>3. ASSUME NEW ids \in Seq(ChainProfiles), NEW sources \in Seq(StoredSource)
      PROVE Chain!FoldLegacy(ids, sources) \in Seq(Chain!Rung)
  <2> DEFINE a == [i \in DOMAIN ids |-> [Chain!Blank EXCEPT !.profile = ids[i]]]
             b == [i \in DOMAIN sources |-> [Chain!Blank EXCEPT !.resolver = sources[i].resolver, !.config = sources[i].config]]
  <2>1. Chain!Blank = [profile |-> None, engine |-> None, resolver |-> None, config |-> None] BY DEF Chain!Blank
  <2>2. \A i \in DOMAIN ids : a[i] \in Chain!Rung BY <2>1 DEF Chain!Rung, Chain!Named
  <2>3. \A i \in DOMAIN sources : b[i] \in Chain!Rung
    <3> TAKE i \in DOMAIN sources
    <3>0. sources[i] \in StoredSource OBVIOUS
    <3>1. sources[i].resolver \in Resolvers \cup {None} /\ sources[i].config \in Configs \cup {None}
      BY <3>0 DEF StoredSource, Chain!Named
    <3> QED BY <2>1, <3>1 DEF Chain!Rung, Chain!Named
  <2>4. DOMAIN ids = 1 .. Len(ids) /\ DOMAIN sources = 1 .. Len(sources) /\ Len(ids) \in Nat /\ Len(sources) \in Nat OBVIOUS
  <2>5. a \in [1 .. Len(ids) -> Chain!Rung] /\ b \in [1 .. Len(sources) -> Chain!Rung] BY <2>2, <2>3, <2>4
  <2>6. Chain!FoldLegacy(ids, sources) = a \o b BY DEF Chain!FoldLegacy
  <2> HIDE DEF a, b
  <2>7. a \in Seq(Chain!Rung) /\ b \in Seq(Chain!Rung) BY <2>4, <2>5
  <2> QED BY <2>6, <2>7
<1>4. row.profileIds \in Seq(ChainProfiles) /\ row.sources \in Seq(StoredSource)
  BY <1>1 DEF StoredProfile
<1>5. Chain!ChainOf(row) \in Seq(Chain!Rung) BY <1>2, <1>3, <1>4 DEF Chain!ChainOf
<1> QED BY <1>1, <1>5 DEF Bounded, row

LEMMA DraftFacts == ASSUME NEW draft \in Chain!Rung PROVE Chain!DraftRung(draft) \in Chain!Rung
<1>1. draft.config \in Configs \cup {None} BY DEF Chain!Rung, Chain!Named
<1>2. Chain!Or(draft.config, EmptyConfig) \in Configs BY <1>1, ChainAssumption DEF Chain!Or
<1>3. (IF draft.resolver = None THEN None ELSE Chain!Or(draft.config, EmptyConfig)) \in Chain!Named(Configs)
  BY <1>2 DEF Chain!Named
<1> QED BY <1>3 DEF Chain!DraftRung, Chain!Rung

LEMMA CutFacts ==
  ASSUME NEW chain \in Seq(Chain!Rung), NEW i \in DOMAIN chain
  PROVE  Chain!RemoveAt(chain, i) \in Seq(Chain!Rung) /\ Len(Chain!RemoveAt(chain, i)) = Len(chain) - 1
BY DEF Chain!RemoveAt

LEMMA MoveFacts ==
  ASSUME NEW chain \in Seq(Chain!Rung), NEW i \in DOMAIN chain, NEW j \in DOMAIN chain
  PROVE  Chain!MoveRung(chain, i, j) \in Seq(Chain!Rung) /\ Len(Chain!MoveRung(chain, i, j)) = Len(chain)
<1> DEFINE cut == Chain!RemoveAt(chain, i)
<1>1. cut \in Seq(Chain!Rung) /\ Len(cut) = Len(chain) - 1 BY CutFacts
<1>2. Chain!MoveRung(chain, i, j) = Chain!InsertAt(cut, j, chain[i]) BY DEF Chain!MoveRung
<1>3. chain[i] \in Chain!Rung /\ j \in 1 .. Len(cut) + 1 /\ Len(chain) \in Nat BY <1>1
<1> HIDE DEF cut
<1>4. Chain!InsertAt(cut, j, chain[i]) = SubSeq(cut, 1, j - 1) \o <<chain[i]>> \o SubSeq(cut, j, Len(cut)) BY DEF Chain!InsertAt
<1>5. SubSeq(cut, 1, j - 1) \in Seq(Chain!Rung) /\ Len(SubSeq(cut, 1, j - 1)) = j - 1 BY <1>1, <1>3
<1>6. SubSeq(cut, j, Len(cut)) \in Seq(Chain!Rung) /\ Len(SubSeq(cut, j, Len(cut))) = Len(cut) - j + 1 BY <1>1, <1>3
<1>7. <<chain[i]>> \in Seq(Chain!Rung) /\ Len(<<chain[i]>>) = 1 BY <1>3
<1> QED BY <1>1, <1>2, <1>3, <1>4, <1>5, <1>6, <1>7

LEMMA ChainBegins == Chain!ChainInit => ChainInv
<1> SUFFICES ASSUME Chain!ChainInit PROVE ChainInv OBVIOUS
<1>1. /\ c1 = [profiles |-> ProfileRows, engines |-> Engines, resolvers |-> Resolvers] /\ c2 = c1
      /\ c3 = Chain!NoForm /\ c4 = Chain!Untouched /\ c5 = Chain!EmptyDraft /\ c6 = Chain!NoRequest /\ c7 = Chain!NoRun
      /\ c8 = 0 /\ c9 = 0
  BY DEF Chain!ChainInit
<1>2. Rows(c1)
  <2>1. \A p \in DOMAIN ProfileRows : ProfileRows[p] \in StoredProfile /\ Len(Chain!ChainOf(ProfileRows[p])) <= MaxRungs
    BY ChainAssumption
  <2>2. c1.profiles = ProfileRows /\ c1.engines = Engines /\ c1.resolvers = Resolvers BY <1>1
  <2> QED BY <2>1, <2>2, ChainAssumption DEF Rows
<1>3. c6.sent = FALSE BY <1>1 DEF Chain!NoRequest
<1>4. /\ c7.stage = "none"
      /\ c7 \in [stage : {"none", "ran", "saved"}, own : Chain!Capture \cup {Chain!NoCapture}, captures : Seq(Chain!Capture),
                 rungs : Seq(Chain!Rung)]
  <2>1. <<>> \in Seq(Chain!Capture) /\ <<>> \in Seq(Chain!Rung) OBVIOUS
  <2> QED BY <1>1, <2>1 DEF Chain!NoRun
<1>5. c8 \in 0 .. MaxEdits /\ c9 \in 0 .. MaxChanges BY <1>1, ChainAssumption
<1>6. ChainTyped BY <1>1, <1>2, <1>3, <1>4, <1>5, BlankFacts DEF ChainTyped
<1> QED BY <1>1, <1>3, <1>4, <1>6 DEF ChainInv, ChainTouched, ChainSent, ChainRan

\* A form settled by its effects: its fields are those of the edit, its chain is
\* bounded, and where the base moved only what is gone is in the way.
LEMMA RebasedFacts ==
  ASSUME ChainInv, NEW f \in ChainForms, Bounded(f.chain), NEW rows, Rows(rows)
  PROVE  LET g == Chain!Rebased(f, rows)
             own == Chain!BaseOf(f, rows)
         IN  /\ g \in ChainForms /\ Bounded(g.chain) /\ g.kind = f.kind
             /\ \A any : Rows(any) => Chain!BaseOf(g, any) = Chain!BaseOf(f, any)
             /\ own \notin {Chain!BaseOf(c3, c2), Chain!NoCapture} /\ f.kind # "bulk" => Unblocked(g.chain, own, rows)
<1> DEFINE own == Chain!BaseOf(f, rows)
           kept == Chain!PruneChain(f.chain, own, rows)
           pruned == [f EXCEPT !.chain = kept]
           moved == own # Chain!BaseOf(c3, c2) \/ rows # c2
           g == Chain!Rebased(f, rows)
<1>1. g = IF moved /\ own # Chain!NoCapture /\ f.kind # "bulk" THEN pruned ELSE f BY DEF Chain!Rebased
<1>2. own \in Chain!Capture \cup {Chain!NoCapture} BY FormBase
<1>3. ASSUME own # Chain!NoCapture PROVE Bounded(kept) /\ Unblocked(kept, own, rows)
  <2>1. own \in Chain!Capture /\ f.chain \in Seq(Chain!Rung) /\ Len(f.chain) <= MaxRungs /\ MaxRungs \in Nat
    BY <1>2, <1>3, ChainAssumption DEF Bounded
  <2> HIDE DEF own
  <2>2. kept \in Seq(Chain!Rung) /\ Len(kept) <= Len(f.chain) /\ Unblocked(kept, own, rows) BY <2>1, PruneFacts
  <2> HIDE DEF kept
  <2> QED BY <2>1, <2>2 DEF Bounded
<1> HIDE DEF own, kept, g
<1>4. kept \in Seq(Chain!Rung) => /\ pruned \in ChainForms /\ pruned.chain = kept /\ pruned.kind = f.kind /\ pruned.mode = f.mode
                                  /\ pruned.profile = f.profile /\ pruned.engine = f.engine /\ pruned.resolver = f.resolver
                                  /\ pruned.config = f.config
  BY DEF ChainForms
<1>5. CASE moved /\ own # Chain!NoCapture /\ f.kind # "bulk"
  <2>1. g = pruned /\ Bounded(kept) /\ Unblocked(kept, own, rows) BY <1>1, <1>3, <1>5
  <2>2. pruned \in ChainForms /\ pruned.chain = kept /\ pruned.kind = f.kind BY <1>4, <2>1 DEF Bounded
  <2>3. \A any : Rows(any) => Chain!BaseOf(pruned, any) = Chain!BaseOf(f, any) BY <1>4, <2>1, FormBase DEF Bounded
  <2> QED BY <2>1, <2>2, <2>3 DEF g, own
<1>6. CASE ~(moved /\ own # Chain!NoCapture /\ f.kind # "bulk")
  <2>1. g = f BY <1>1, <1>6
  <2>2. ~(own \notin {Chain!BaseOf(c3, c2), Chain!NoCapture} /\ f.kind # "bulk") BY <1>6
  <2> QED BY <2>1, <2>2 DEF g, own
<1> QED BY <1>5, <1>6

\* A card's draft survives a change of the chain only over the same rung.
LEMMA ReseededFacts ==
  ASSUME ChainInv, NEW chain \in Seq(Chain!Rung)
  PROVE  LET t == Chain!Reseeded(chain) IN
         /\ t \in [at : Nat, rung : Chain!Rung, draft : Chain!Rung]
         /\ t # Chain!Untouched => t.at \in DOMAIN chain /\ chain[t.at] = t.rung
BY BlankFacts DEF ChainInv, ChainTyped, Chain!Reseeded

\* A step that changes the form, its cards and the count of edits alone.
LEMMA FormStep ==
  ASSUME ChainInv, UNCHANGED <<c1, c2, c6, c7, c9>>, ~c6.sent, c3' \in ChainForms, Bounded(c3'.chain),
         c4' \in [at : Nat, rung : Chain!Rung, draft : Chain!Rung],
         c4' # Chain!Untouched => c4'.at \in DOMAIN c3'.chain /\ c3'.chain[c4'.at] = c4'.rung,
         c5' \in Chain!Rung, c8' = c8 \/ (c8 < MaxEdits /\ c8' = c8 + 1)
  PROVE  ChainInv'
<1>1. ChainTyped'
  <2>1. c8' \in 0 .. MaxEdits BY ChainAssumption DEF ChainInv, ChainTyped
  <2>2. Rows(c1)' /\ Rows(c2)' BY DEF ChainInv, ChainTyped, Rows
  <2>3. Bounded(c3.chain)' BY DEF Bounded
  <2> QED BY <2>1, <2>2, <2>3 DEF ChainInv, ChainTyped
<1>2. ChainTouched' BY DEF ChainTouched, Chain!Untouched, Chain!Blank, Chain!EmptyDraft
<1>3. ChainSent' BY DEF ChainSent
<1>4. ChainRan' BY DEF ChainInv, ChainRan, Distinct
<1> QED BY <1>1, <1>2, <1>3, <1>4 DEF ChainInv

LEMMA FormsOpen ==
  ASSUME ChainInv, (\E kind \in {"run", "preset", "bulk"} : Chain!OpenForm(kind)) \/ Chain!OpenSaved
  PROVE  ChainInv'
<1>0. ~c6.sent \/ c3.kind # "none" BY DEF ChainInv, ChainSent
<1>1. CASE \E kind \in {"run", "preset", "bulk"} : Chain!OpenForm(kind)
  <2>1. PICK kind \in {"run", "preset", "bulk"} : Chain!OpenForm(kind) BY <1>1
  <2> DEFINE f == [Chain!NoForm EXCEPT !.kind = kind, !.mode = IF kind = "preset" THEN "custom" ELSE "profile"]
  <2>2. c3.kind = "none" /\ c3' = f /\ c4' = Chain!Untouched /\ c5' = Chain!EmptyDraft /\ UNCHANGED <<c1, c2, c6, c7, c8, c9>>
    BY <2>1 DEF Chain!OpenForm
  <2>3. f \in ChainForms /\ f.chain = Chain!NoForm.chain BY BlankFacts DEF ChainForms
  <2> HIDE DEF f
  <2>4. c3' \in ChainForms /\ Bounded(c3'.chain) BY <2>2, <2>3, BlankFacts
  <2> QED BY <1>0, <2>2, <2>4, BlankFacts, FormStep
<1>2. CASE Chain!OpenSaved
  <2> DEFINE opened == [Chain!NoForm EXCEPT !.kind = "preset", !.engine = c7.own.engine, !.resolver = c7.own.resolver,
                                            !.config = c7.own.config, !.chain = c7.rungs]
             own == Chain!BaseOf(opened, c2)
             kept == Chain!PruneChain(opened.chain, own, c2)
             f == [opened EXCEPT !.chain = kept]
  <2>1. /\ c3.kind = "none" /\ c7.stage = "saved" /\ c3' = f /\ c4' = Chain!Untouched /\ c5' = Chain!EmptyDraft
        /\ UNCHANGED <<c1, c2, c6, c7, c8, c9>>
    BY <1>2 DEF Chain!OpenSaved
  <2>2. /\ c7.own.engine \in Engines /\ c7.own.resolver \in Resolvers /\ c7.own.config \in Configs
        /\ c7.rungs \in Seq(Chain!Rung) /\ Len(c7.rungs) <= MaxRungs
    BY <2>1 DEF ChainInv, ChainTyped, ChainRan, Chain!Capture
  <2>3. opened \in ChainForms /\ opened.chain = c7.rungs /\ opened.mode = "custom" /\ opened.engine # None /\ opened.resolver # None
    <3>1. None \notin Engines /\ None \notin Resolvers BY ChainAssumption
    <3> QED BY <2>2, <3>1 DEF Chain!NoForm, ChainForms, Chain!Named
  <2> HIDE DEF opened
  <2>4. own \in Chain!Capture
    <3>1. own = [profile |-> opened.profile, engine |-> opened.engine, resolver |-> opened.resolver, config |-> opened.config,
                 retry |-> opened.profile]
      BY <2>3 DEF Chain!BaseOf
    <3> HIDE DEF own
    <3> QED BY <2>3, <3>1 DEF ChainForms, Chain!Capture, Chain!Named
  <2> HIDE DEF own
  <2>5. kept \in Seq(Chain!Rung) /\ Len(kept) <= Len(c7.rungs)
    BY <2>2, <2>3, <2>4, PruneFacts DEF ChainInv, ChainTyped
  <2> HIDE DEF kept
  <2>6. f \in ChainForms /\ f.chain = kept BY <2>3, <2>5 DEF ChainForms
  <2> HIDE DEF f
  <2>7. Bounded(c3'.chain) BY <2>1, <2>2, <2>5, <2>6, ChainAssumption DEF Bounded
  <2> QED BY <1>0, <2>1, <2>6, <2>7, BlankFacts, FormStep
<1> QED BY <1>1, <1>2

\* What an edit of the base asks of the form, before its effects.
LEMMA PicksFit ==
  ASSUME ChainInv
  PROVE  /\ \A p \in DOMAIN c2.profiles :
              LET f == [c3 EXCEPT !.mode = "profile", !.profile = p, !.chain = Chain!ChainOf(c2.profiles[p])]
              IN  f \in ChainForms /\ Bounded(f.chain) /\ f.kind = c3.kind
         /\ \A base \in Bases :
              LET f == [c3 EXCEPT !.mode = "custom", !.profile = None, !.engine = base.engine, !.resolver = base.resolver,
                                  !.config = base.config]
              IN  f \in ChainForms /\ Bounded(f.chain) /\ f.kind = c3.kind
<1>0. c3 \in ChainForms /\ Bounded(c3.chain) /\ Rows(c2) BY DEF ChainInv, ChainTyped
<1>1. ASSUME NEW p \in DOMAIN c2.profiles
      PROVE  LET f == [c3 EXCEPT !.mode = "profile", !.profile = p, !.chain = Chain!ChainOf(c2.profiles[p])]
             IN  f \in ChainForms /\ Bounded(f.chain) /\ f.kind = c3.kind
  <2> DEFINE chain == Chain!ChainOf(c2.profiles[p])
  <2>1. p \in ChainProfiles /\ Bounded(chain) BY <1>0, StoredFacts
  <2> HIDE DEF chain
  <2>2. [c3 EXCEPT !.mode = "profile", !.profile = p, !.chain = chain] \in ChainForms
    BY <1>0, <2>1 DEF ChainForms, Chain!Named, Bounded
  <2>3. [c3 EXCEPT !.mode = "profile", !.profile = p, !.chain = chain].chain = chain
        /\ [c3 EXCEPT !.mode = "profile", !.profile = p, !.chain = chain].kind = c3.kind
    BY <1>0 DEF ChainForms
  <2> QED BY <2>1, <2>2, <2>3 DEF chain
<1>2. ASSUME NEW base \in Bases
      PROVE  LET f == [c3 EXCEPT !.mode = "custom", !.profile = None, !.engine = base.engine, !.resolver = base.resolver,
                                 !.config = base.config]
             IN  f \in ChainForms /\ Bounded(f.chain) /\ f.kind = c3.kind
  <2>1. base.engine \in Engines /\ base.resolver \in Resolvers /\ base.config \in Configs
    BY ChainAssumption DEF Chain!Capture
  <2> QED BY <1>0, <2>1 DEF ChainForms, Chain!Named
<1> QED BY <1>1, <1>2

LEMMA PicksKeep ==
  ASSUME ChainInv, (\E p \in ChainProfiles : Chain!PickProfile(p)) \/ (\E base \in Bases : Chain!PickCapture(base))
  PROVE  ChainInv'
<1>1. PICK f : /\ f \in ChainForms /\ Bounded(f.chain) /\ Chain!Shows(f, c2) /\ Chain!Editing
               /\ UNCHANGED <<c1, c2, c5, c6, c7, c9>>
  <2>1. CASE \E p \in ChainProfiles : Chain!PickProfile(p)
    BY <2>1, PicksFit DEF Chain!PickProfile
  <2>2. CASE \E base \in Bases : Chain!PickCapture(base)
    BY <2>2, PicksFit DEF Chain!PickCapture
  <2> QED BY <2>1, <2>2
<1>2. c3' = Chain!Rebased(f, c2) /\ c4' = Chain!Reseeded(c3'.chain) BY <1>1 DEF Chain!Shows
<1>3. ~c6.sent /\ c8 < MaxEdits /\ c8' = c8 + 1 BY <1>1 DEF Chain!Editing
<1>4. Rows(c2) /\ c5 \in Chain!Rung BY DEF ChainInv, ChainTyped
<1>5. c3' \in ChainForms /\ Bounded(c3'.chain) BY <1>1, <1>2, <1>4, RebasedFacts
<1>6. c3'.chain \in Seq(Chain!Rung) BY <1>5 DEF Bounded
<1>7. /\ c4' \in [at : Nat, rung : Chain!Rung, draft : Chain!Rung]
      /\ c4' # Chain!Untouched => c4'.at \in DOMAIN c3'.chain /\ c3'.chain[c4'.at] = c4'.rung
  BY <1>2, <1>6, ReseededFacts
<1>8. UNCHANGED <<c1, c2, c6, c7, c9>> /\ c5' \in Chain!Rung BY <1>1, <1>4
<1> QED BY <1>3, <1>5, <1>7, <1>8, FormStep

LEMMA CardsKeep ==
  ASSUME ChainInv,
         \/ \E at \in 1 .. MaxRungs, draft \in Drafts : at <= Len(c3.chain) + 1 /\ Chain!WriteCard(at, draft)
         \/ Chain!ApplyCard \/ Chain!AddRung \/ Chain!ResetCard
  PROVE  ChainInv'
<1>0. /\ c3 \in ChainForms /\ Bounded(c3.chain) /\ c4 \in [at : Nat, rung : Chain!Rung, draft : Chain!Rung] /\ c5 \in Chain!Rung
      /\ ChainTouched
  BY DEF ChainInv, ChainTyped
<1>1. CASE \E at \in 1 .. MaxRungs, draft \in Drafts : at <= Len(c3.chain) + 1 /\ Chain!WriteCard(at, draft)
  <2>1. PICK at \in 1 .. MaxRungs, draft \in Drafts : Chain!WriteCard(at, draft) BY <1>1
  <2>2. /\ ~c6.sent /\ c8 < MaxEdits /\ c8' = c8 + 1 /\ UNCHANGED <<c1, c2, c3, c6, c7, c9>>
        /\ IF at \in DOMAIN c3.chain
           THEN c4' = [at |-> at, rung |-> c3.chain[at], draft |-> draft] /\ UNCHANGED c5
           ELSE c5' = draft /\ UNCHANGED c4
    BY <2>1 DEF Chain!WriteCard, Chain!Editing
  <2>3. draft \in Chain!Rung /\ at \in Nat BY ChainAssumption
  <2>4. at \in DOMAIN c3.chain => c3.chain[at] \in Chain!Rung BY <1>0 DEF Bounded
  <2>5. c4' \in [at : Nat, rung : Chain!Rung, draft : Chain!Rung] /\ c5' \in Chain!Rung BY <1>0, <2>2, <2>3, <2>4
  <2>6. c4' # Chain!Untouched => c4'.at \in DOMAIN c3'.chain /\ c3'.chain[c4'.at] = c4'.rung
    BY <1>0, <2>2 DEF ChainTouched
  <2>7. UNCHANGED <<c1, c2, c6, c7, c9>> /\ c3' \in ChainForms /\ Bounded(c3'.chain) BY <1>0, <2>2
  <2> QED BY <2>2, <2>5, <2>6, <2>7, FormStep
<1>2. CASE Chain!ApplyCard
  <2> DEFINE chain == Chain!Written(c4.draft, c4.at)
  <2>1. /\ ~c6.sent /\ c4 # Chain!Untouched /\ c3' = [c3 EXCEPT !.chain = chain] /\ c4' = Chain!Untouched
        /\ UNCHANGED <<c1, c2, c5, c6, c7, c8, c9>>
    BY <1>2 DEF Chain!ApplyCard
  <2>2. c4.at \in DOMAIN c3.chain BY <1>0, <2>1 DEF ChainTouched
  <2>3. chain = [c3.chain EXCEPT ![c4.at] = Chain!DraftRung(c4.draft)] BY <2>2 DEF Chain!Written, Chain!ReplaceAt
  <2>4. Chain!DraftRung(c4.draft) \in Chain!Rung BY <1>0, DraftFacts
  <2> HIDE DEF chain
  <2>5. Bounded(chain) BY <1>0, <2>2, <2>3, <2>4 DEF Bounded
  <2>6. c3' \in ChainForms /\ c3'.chain = chain BY <1>0, <2>1, <2>5 DEF ChainForms, Bounded
  <2> QED BY <1>0, <2>1, <2>5, <2>6, BlankFacts, FormStep
<1>3. CASE Chain!AddRung
  <2> DEFINE chain == Append(c3.chain, Chain!DraftRung(c5))
  <2>1. /\ ~c6.sent /\ Len(c3.chain) < MaxRungs /\ c3' = [c3 EXCEPT !.chain = chain] /\ c5' = Chain!EmptyDraft
        /\ UNCHANGED <<c1, c2, c4, c6, c7, c8, c9>>
    BY <1>3 DEF Chain!AddRung
  <2>2. Chain!DraftRung(c5) \in Chain!Rung BY <1>0, DraftFacts
  <2>3. /\ Bounded(chain) /\ \A i \in DOMAIN c3.chain : i \in DOMAIN chain /\ chain[i] = c3.chain[i]
    BY <1>0, <2>1, <2>2, ChainAssumption DEF Bounded
  <2> HIDE DEF chain
  <2>4. c3' \in ChainForms /\ c3'.chain = chain BY <1>0, <2>1, <2>3 DEF ChainForms, Bounded
  <2>5. c4' # Chain!Untouched => c4'.at \in DOMAIN c3'.chain /\ c3'.chain[c4'.at] = c4'.rung
    BY <1>0, <2>1, <2>3, <2>4 DEF ChainTouched
  <2> QED BY <1>0, <2>1, <2>3, <2>4, <2>5, BlankFacts, FormStep
<1>4. CASE Chain!ResetCard
  <2>1. ~c6.sent /\ c8 < MaxEdits /\ c8' = c8 + 1 /\ c4' = Chain!Untouched /\ UNCHANGED <<c1, c2, c3, c5, c6, c7, c9>>
    BY <1>4 DEF Chain!ResetCard, Chain!Editing
  <2> QED BY <1>0, <2>1, BlankFacts, FormStep
<1> QED BY <1>1, <1>2, <1>3, <1>4

LEMMA ArrangeKeeps ==
  ASSUME ChainInv,
         (\E from, to \in DOMAIN c3.chain : Chain!MoveCard(from, to)) \/ (\E at \in DOMAIN c3.chain : Chain!RemoveCard(at))
  PROVE  ChainInv'
<1>0. c3 \in ChainForms /\ c3.chain \in Seq(Chain!Rung) /\ Len(c3.chain) <= MaxRungs /\ c5 \in Chain!Rung /\ MaxRungs \in Nat
  BY ChainAssumption DEF ChainInv, ChainTyped, Bounded
<1>1. PICK chain : Bounded(chain) /\ Chain!Arrange(chain)
  <2>1. ASSUME NEW from \in DOMAIN c3.chain, NEW to \in DOMAIN c3.chain, Chain!MoveCard(from, to)
        PROVE  \E chain : Bounded(chain) /\ Chain!Arrange(chain)
    <3>1. Chain!Arrange(Chain!MoveRung(c3.chain, from, to)) BY <2>1 DEF Chain!MoveCard
    <3>2. Bounded(Chain!MoveRung(c3.chain, from, to)) BY <1>0, MoveFacts DEF Bounded
    <3> QED BY <3>1, <3>2
  <2>2. ASSUME NEW at \in DOMAIN c3.chain, Chain!RemoveCard(at)
        PROVE  \E chain : Bounded(chain) /\ Chain!Arrange(chain)
    <3>1. Chain!Arrange(Chain!RemoveAt(c3.chain, at)) BY <2>2 DEF Chain!RemoveCard
    <3>2. Bounded(Chain!RemoveAt(c3.chain, at))
      <4>1. Chain!RemoveAt(c3.chain, at) \in Seq(Chain!Rung) /\ Len(Chain!RemoveAt(c3.chain, at)) = Len(c3.chain) - 1
        BY <1>0, CutFacts
      <4> QED BY <1>0, <4>1 DEF Bounded
    <3> QED BY <3>1, <3>2
  <2> QED BY <2>1, <2>2
<1>2. /\ ~c6.sent /\ c8 < MaxEdits /\ c8' = c8 + 1 /\ c3' = [c3 EXCEPT !.chain = chain] /\ c4' = Chain!Reseeded(chain)
      /\ UNCHANGED <<c1, c2, c5, c6, c7, c9>>
  BY <1>1 DEF Chain!Arrange, Chain!Editing
<1>3. chain \in Seq(Chain!Rung) BY <1>1 DEF Bounded
<1>4. c3' \in ChainForms /\ c3'.chain = chain BY <1>0, <1>2, <1>3 DEF ChainForms
<1>5. /\ c4' \in [at : Nat, rung : Chain!Rung, draft : Chain!Rung]
      /\ c4' # Chain!Untouched => c4'.at \in DOMAIN c3'.chain /\ c3'.chain[c4'.at] = c4'.rung
  BY <1>2, <1>3, <1>4, ReseededFacts
<1> QED BY <1>0, <1>1, <1>2, <1>4, <1>5, FormStep

LEMMA SubmitKeeps == ASSUME ChainInv, Chain!Submit PROVE ChainInv'
<1> DEFINE own == Chain!BaseOf(c3, c2)
           steps == Chain!ResolveChain(c3.chain, own, c2)
<1>1. /\ c3.kind # "none" /\ own # Chain!NoCapture /\ Chain!Problems(steps) = {}
      /\ c6' = [sent |-> TRUE, own |-> own, chain |-> c3.chain, lookups |-> c2] /\ UNCHANGED <<c1, c2, c3, c4, c5, c7, c8, c9>>
  BY DEF Chain!Submit, Chain!CanSubmit
<1>2. Rows(c2) /\ c3 \in ChainForms /\ Bounded(c3.chain) BY DEF ChainInv, ChainTyped
<1>3. own \in Chain!Capture BY <1>1, <1>2, FormBase
<1>4. Clean(c3.chain, own, c2)
  <2>1. c3.chain \in Seq(Chain!Rung) BY <1>2 DEF Bounded
  <2> HIDE DEF own
  <2> QED BY <1>1, <1>2, <1>3, <2>1, CleanShown
<1> HIDE DEF steps
<1>5. /\ c6'.sent = TRUE /\ c6'.own = own /\ c6'.chain = c3.chain /\ c6'.lookups = c2
  BY <1>1
<1>6. ChainSent'
  <2>1. c3' = c3 BY <1>1
  <2>2. Rows(c6.lookups)' BY <1>2, <1>5 DEF Rows
  <2>3. (c6.own = Chain!BaseOf(c3, c6.lookups))' BY <1>5, <2>1 DEF Chain!BaseOf, Chain!ProfileBase, Chain!NoCapture
  <2>4. (c6.own # Chain!NoCapture)' BY <1>1, <1>5 DEF Chain!NoCapture
  <2>5. Bounded(c6.chain)' BY <1>2, <1>5 DEF Bounded
  <2> HIDE DEF own
  <2>6. Clean(c6.chain, c6.own, c6.lookups)' BY <1>4, <1>5
  <2> QED BY <1>1, <2>1, <2>2, <2>3, <2>4, <2>5, <2>6 DEF ChainSent
<1>7. ChainTyped' BY <1>1, <1>5 DEF ChainInv, ChainTyped
<1>8. ChainTouched' BY <1>1 DEF ChainInv, ChainTouched
<1>9. ChainRan' BY <1>1 DEF ChainInv, ChainRan
<1> QED BY <1>6, <1>7, <1>8, <1>9 DEF ChainInv

LEMMA AnswerFacts ==
  ASSUME ChainInv, c6.sent
  PROVE  /\ Chain!CoreBase \in Chain!Capture \cup {Chain!NoCapture}
         /\ c6.lookups = c1 => Chain!CoreBase = c6.own
         /\ Chain!CoreBase # Chain!NoCapture =>
              /\ Chain!Answer.captures \in Seq(Chain!Capture)
              /\ Chain!Answer.refused <=> ~Clean(c6.chain, Chain!CoreBase, c1)
              /\ ~Chain!Answer.refused =>
                   /\ Chain!Answer.rungs = c6.chain
                   /\ Chain!Answer.captures = Specs(c6.chain, Chain!CoreBase, c1)
<1>1. /\ Rows(c6.lookups) /\ c6.own = Chain!BaseOf(c3, c6.lookups) /\ c6.own # Chain!NoCapture
      /\ c6.chain \in Seq(Chain!Rung) /\ c3 \in ChainForms /\ Rows(c1)
  BY DEF ChainInv, ChainTyped, ChainSent, Bounded
<1>2. Chain!CoreBase = IF c3.mode = "profile" THEN Chain!BaseOf(c3, c1) ELSE c6.own BY DEF Chain!CoreBase
<1>3. Chain!BaseOf(c3, c1) \in Chain!Capture \cup {Chain!NoCapture} /\ c6.own \in Chain!Capture
  BY <1>1, FormBase
<1>4. Chain!CoreBase \in Chain!Capture \cup {Chain!NoCapture} BY <1>2, <1>3
<1>5. c6.lookups = c1 => Chain!CoreBase = c6.own BY <1>1, <1>2
<1>6. ASSUME Chain!CoreBase # Chain!NoCapture
      PROVE  LET walk == Chain!Answer IN
             /\ walk.captures \in Seq(Chain!Capture)
             /\ walk.refused <=> ~Clean(c6.chain, Chain!CoreBase, c1)
             /\ ~walk.refused => walk.rungs = c6.chain /\ walk.captures = Specs(c6.chain, Chain!CoreBase, c1)
  <2> DEFINE own == Chain!CoreBase
  <2>1. own \in Chain!Capture BY <1>4, <1>6
  <2>2. Chain!Answer = Chain!Resolve(c6.chain, own, c1, TRUE) BY DEF Chain!Answer
  <2> HIDE DEF own
  <2>3. \A strict \in BOOLEAN :
           LET walk == Chain!Resolve(c6.chain, own, c1, strict) IN
             /\ walk \in Walk
             /\ strict /\ ~walk.refused => Clean(c6.chain, own, c1)
             /\ Clean(c6.chain, own, c1) => ~walk.refused /\ walk.rungs = c6.chain /\ walk.captures = Specs(c6.chain, own, c1)
    BY <1>1, <2>1, WalkFacts
  <2>4. LET walk == Chain!Answer IN
             /\ walk \in Walk
             /\ ~walk.refused => Clean(c6.chain, own, c1)
             /\ Clean(c6.chain, own, c1) => ~walk.refused /\ walk.rungs = c6.chain /\ walk.captures = Specs(c6.chain, own, c1)
    <3>1. TRUE \in BOOLEAN OBVIOUS
    <3> QED BY <2>2, <2>3, <3>1
  <2>5. Chain!Answer.captures \in Seq(Chain!Capture) BY <2>4 DEF Walk
  <2> QED BY <2>4, <2>5 DEF own
<1> QED BY <1>4, <1>5, <1>6

LEMMA CleanDistinct ==
  ASSUME NEW rungs, NEW own, NEW rows, Clean(rungs, own, rows), \A i \in DOMAIN rungs : \A j \in 1 .. i - 1 : j \in DOMAIN rungs
  PROVE  Distinct(Specs(rungs, own, rows), own)
<1> DEFINE captures == Specs(rungs, own, rows)
<1>1. DOMAIN captures = DOMAIN rungs /\ \A i \in DOMAIN rungs : Chain!CaptureKey(captures[i]) = KeyOf(rungs[i], own, rows)
  BY DEF Specs, KeyOf
<1> HIDE DEF captures
<1>2. \A i \in DOMAIN rungs : \A j \in 1 .. i - 1 : Runs(rungs[j], own, rows) /\ KeyOf(rungs[j], own, rows) # KeyOf(rungs[i], own, rows)
  BY DEF Clean, Advances
<1>3. Distinct(captures, own) BY <1>1, <1>2 DEF Distinct, Clean, Advances
<1> QED BY <1>3 DEF captures

LEMMA AcceptedKeeps == ASSUME ChainInv, Chain!Accepted PROVE ChainInv'
<1> DEFINE own == Chain!CoreBase
           answer == Chain!Answer
<1>1. /\ c6.sent /\ own # Chain!NoCapture /\ ~answer.refused
      /\ c7' = [stage |-> "ran", own |-> own, captures |-> answer.captures, rungs |-> answer.rungs]
      /\ c3' = Chain!NoForm /\ c4' = Chain!Untouched /\ c5' = Chain!EmptyDraft /\ c6' = Chain!NoRequest
      /\ UNCHANGED <<c1, c2, c8, c9>>
  BY DEF Chain!Accepted
<1>2. /\ own \in Chain!Capture /\ answer.captures \in Seq(Chain!Capture) /\ answer.rungs = c6.chain
      /\ answer.captures = Specs(c6.chain, own, c1) /\ Clean(c6.chain, own, c1)
  BY <1>1, AnswerFacts
<1>3. c6.chain \in Seq(Chain!Rung) /\ Len(c6.chain) <= MaxRungs BY <1>1 DEF ChainInv, ChainSent, Bounded
<1> HIDE DEF own, answer
<1>4. Distinct(answer.captures, own)
  <2>1. \A i \in DOMAIN c6.chain : \A j \in 1 .. i - 1 : j \in DOMAIN c6.chain BY <1>3
  <2> QED BY <1>2, <2>1, CleanDistinct
<1>5. Len(answer.captures) = Len(c6.chain) BY <1>2, <1>3 DEF Specs
<1>6. c7'.stage = "ran" /\ c7'.own = own /\ c7'.captures = answer.captures /\ c7'.rungs = c6.chain BY <1>1, <1>2
<1>7. ChainTyped'
  <2>1. c7' \in [stage : {"none", "ran", "saved"}, own : Chain!Capture \cup {Chain!NoCapture}, captures : Seq(Chain!Capture),
                 rungs : Seq(Chain!Rung)]
    BY <1>1, <1>2, <1>3
  <2>2. c6'.sent = FALSE BY <1>1 DEF Chain!NoRequest
  <2>3. Rows(c1)' /\ Rows(c2)' BY <1>1 DEF ChainInv, ChainTyped, Rows
  <2>4. c3' \in ChainForms /\ Bounded(c3.chain)' BY <1>1, BlankFacts DEF Bounded
  <2>5. c4' \in [at : Nat, rung : Chain!Rung, draft : Chain!Rung] /\ c5' \in Chain!Rung BY <1>1, BlankFacts
  <2> QED BY <1>1, <2>1, <2>2, <2>3, <2>4, <2>5 DEF ChainInv, ChainTyped
<1>8. ChainTouched' BY <1>1 DEF ChainTouched, Chain!Untouched, Chain!Blank, Chain!EmptyDraft
<1>9. ChainSent' BY <1>1 DEF ChainSent, Chain!NoRequest
<1>10. ChainRan'
  <2>1. Distinct(c7.captures, c7.own)' BY <1>4, <1>6 DEF Distinct, Chain!CaptureKey
  <2> QED BY <1>2, <1>3, <1>5, <1>6, <2>1 DEF ChainRan
<1> QED BY <1>7, <1>8, <1>9, <1>10 DEF ChainInv

LEMMA RefusedKeeps == ASSUME ChainInv, Chain!Refused PROVE ChainInv'
<1>1. c6' = Chain!NoRequest /\ UNCHANGED <<c1, c2, c3, c4, c5, c7, c8, c9>> BY DEF Chain!Refused
<1>2. c6'.sent = FALSE BY <1>1 DEF Chain!NoRequest
<1>3. ChainTyped' BY <1>1, <1>2 DEF ChainInv, ChainTyped, Rows, Bounded
<1>4. ChainTouched' BY <1>1 DEF ChainInv, ChainTouched, Chain!Untouched, Chain!Blank, Chain!EmptyDraft
<1>5. ChainSent' BY <1>2 DEF ChainSent
<1>6. ChainRan' BY <1>1 DEF ChainInv, ChainRan, Distinct
<1> QED BY <1>3, <1>4, <1>5, <1>6 DEF ChainInv

\* The profile a run is saved as stands for the captures the run was planned with.
LEMMA SaveFacts ==
  ASSUME ChainInv, Chain!SaveAsProfile
  PROVE  LET again == Chain!Resolve(c7'.rungs, c7'.own, c1, FALSE) IN
         /\ c7' \in [stage : {"saved"}, own : Chain!Capture, captures : Seq(Chain!Capture), rungs : Seq(Chain!Rung)]
         /\ Len(c7'.rungs) <= MaxRungs
         /\ DOMAIN again.captures = DOMAIN c7.captures
         /\ \A i \in DOMAIN c7.captures : Chain!CaptureKey(again.captures[i]) = Chain!CaptureKey(c7.captures[i])
<1> DEFINE saved == [c7.own EXCEPT !.profile = None]
           reduced == Chain!RungsFromPlan(c7.own, c7.captures, c1)
           again == Chain!Resolve(reduced, saved, c1, FALSE)
<1>1. /\ c7.stage = "ran" /\ \A i \in DOMAIN c7.captures : c7.captures[i].profile \in DOMAIN c1.profiles \cup {None}
      /\ c7' = [c7 EXCEPT !.stage = "saved", !.own = saved, !.rungs = again.rungs]
  BY DEF Chain!SaveAsProfile
<1>2. /\ c7.own \in Chain!Capture /\ c7.captures \in Seq(Chain!Capture) /\ Len(c7.captures) <= MaxRungs
      /\ Distinct(c7.captures, c7.own) /\ Rows(c1)
      /\ c7 \in [stage : {"none", "ran", "saved"}, own : Chain!Capture \cup {Chain!NoCapture}, captures : Seq(Chain!Capture),
                 rungs : Seq(Chain!Rung)]
  BY <1>1 DEF ChainInv, ChainTyped, ChainRan
<1>3. /\ saved \in Chain!Capture /\ reduced \in Seq(Chain!Rung) /\ Len(reduced) = Len(c7.captures)
      /\ again.rungs = reduced /\ DOMAIN again.captures = DOMAIN c7.captures
      /\ \A i \in DOMAIN c7.captures : Chain!CaptureKey(again.captures[i]) = Chain!CaptureKey(c7.captures[i])
  <2>1. Rebuilds(c7.own, c7.captures, c1) BY <1>1, <1>2, PlanRebuilt
  <2> QED BY <2>1 DEF Rebuilds
<1> HIDE DEF saved, reduced
<1>4. c7'.own = saved /\ c7'.rungs = reduced /\ c7'.captures = c7.captures /\ c7'.stage = "saved"
  <2> HIDE DEF again
  <2> QED BY <1>1, <1>2, <1>3
<1>5. c7' \in [stage : {"saved"}, own : Chain!Capture, captures : Seq(Chain!Capture), rungs : Seq(Chain!Rung)]
  <2> HIDE DEF again
  <2> QED BY <1>1, <1>2, <1>3
<1> QED BY <1>2, <1>3, <1>4, <1>5

LEMMA SaveKeeps == ASSUME ChainInv, Chain!SaveAsProfile PROVE ChainInv'
<1>1. c3.kind = "none" /\ UNCHANGED <<c1, c2, c3, c4, c5, c6, c8, c9>> BY DEF Chain!SaveAsProfile
<1>2. /\ c7' \in [stage : {"saved"}, own : Chain!Capture, captures : Seq(Chain!Capture), rungs : Seq(Chain!Rung)]
      /\ Len(c7'.rungs) <= MaxRungs
  BY SaveFacts
<1>3. ChainTyped' BY <1>1, <1>2 DEF ChainInv, ChainTyped, Rows, Bounded
<1>4. ChainTouched' BY <1>1 DEF ChainInv, ChainTouched, Chain!Untouched, Chain!Blank, Chain!EmptyDraft
<1>5. ChainSent' BY <1>1 DEF ChainInv, ChainSent
<1>6. ChainRan'
  <2>1. c7'.stage = "saved" /\ c7'.own \in Chain!Capture BY <1>2
  <2> QED BY <1>2, <2>1 DEF ChainRan
<1> QED BY <1>3, <1>4, <1>5, <1>6 DEF ChainInv

LEMMA ProfilesKeep == ASSUME ChainInv, NEW p \in ChainProfiles, Chain!ProfileChanges(p) PROVE ChainInv'
<1>1. /\ c9 < MaxChanges /\ c9' = c9 + 1 /\ p \in DOMAIN c1.profiles /\ UNCHANGED <<c2, c3, c4, c5, c6, c7, c8>>
      /\ c1' \in {[c1 EXCEPT !.profiles = [@ EXCEPT ![p] = Edited]],
                  [c1 EXCEPT !.profiles = [q \in DOMAIN @ \ {p} |-> @[q]]]}
  BY DEF Chain!ProfileChanges
<1>0. Rows(c1) /\ Edited \in StoredProfile /\ Len(Chain!ChainOf(Edited)) <= MaxRungs
  BY ChainAssumption DEF ChainInv, ChainTyped
<1>2. Rows(c1')
  <2>1. CASE c1' = [c1 EXCEPT !.profiles = [@ EXCEPT ![p] = Edited]]
    <3>1. DOMAIN c1'.profiles = DOMAIN c1.profiles /\ c1'.engines = c1.engines /\ c1'.resolvers = c1.resolvers
      BY <2>1
    <3>2. \A q \in DOMAIN c1'.profiles : c1'.profiles[q] = IF q = p THEN Edited ELSE c1.profiles[q]
      BY <2>1, <3>1
    <3> QED BY <1>0, <3>1, <3>2 DEF Rows
  <2>2. CASE c1' = [c1 EXCEPT !.profiles = [q \in DOMAIN @ \ {p} |-> @[q]]]
    BY <1>0, <2>2 DEF Rows
  <2> QED BY <1>1, <2>1, <2>2
<1>3. c9' \in 0 .. MaxChanges BY <1>1, ChainAssumption DEF ChainInv, ChainTyped
<1>4. Rows(c1)' /\ Rows(c2)' BY <1>1, <1>2 DEF ChainInv, ChainTyped, Rows
<1>5. ChainTyped' BY <1>1, <1>3, <1>4 DEF ChainInv, ChainTyped, Bounded
<1>6. ChainTouched' BY <1>1 DEF ChainInv, ChainTouched, Chain!Untouched, Chain!Blank, Chain!EmptyDraft
<1>7. ChainSent' BY <1>1 DEF ChainInv, ChainSent
<1>8. ChainRan' BY <1>1 DEF ChainInv, ChainRan, Distinct
<1> QED BY <1>5, <1>6, <1>7, <1>8 DEF ChainInv

LEMMA LookupsKeep == ASSUME ChainInv, Chain!LookupsRead PROVE ChainInv'
<1>0. Rows(c1) /\ c3 \in ChainForms /\ Bounded(c3.chain) BY DEF ChainInv, ChainTyped
<1>1. /\ c2' = c1 /\ UNCHANGED <<c1, c5, c6, c7, c8, c9>>
      /\ IF c3.kind = "none" THEN UNCHANGED <<c3, c4>> ELSE Chain!Shows(c3, c1)
  BY DEF Chain!LookupsRead
<1>2. /\ c3' \in ChainForms /\ Bounded(c3'.chain) /\ c3'.kind = c3.kind
      /\ \A any : Rows(any) => Chain!BaseOf(c3', any) = Chain!BaseOf(c3, any)
      /\ c4' \in [at : Nat, rung : Chain!Rung, draft : Chain!Rung]
      /\ c4' # Chain!Untouched => c4'.at \in DOMAIN c3'.chain /\ c3'.chain[c4'.at] = c4'.rung
  <2>1. CASE c3.kind = "none"
    <3>1. c3' = c3 /\ c4' = c4 BY <1>1, <2>1
    <3> QED BY <1>0, <3>1 DEF ChainInv, ChainTyped, ChainTouched
  <2>2. CASE c3.kind # "none"
    <3>1. c3' = Chain!Rebased(c3, c1) /\ c4' = Chain!Reseeded(c3'.chain) BY <1>1, <2>2 DEF Chain!Shows
    <3>2. /\ c3' \in ChainForms /\ Bounded(c3'.chain) /\ c3'.kind = c3.kind
          /\ \A any : Rows(any) => Chain!BaseOf(c3', any) = Chain!BaseOf(c3, any)
      BY <1>0, <3>1, RebasedFacts
    <3>3. c3'.chain \in Seq(Chain!Rung) BY <3>2 DEF Bounded
    <3> QED BY <3>1, <3>2, <3>3, ReseededFacts
  <2> QED BY <2>1, <2>2
<1>3. Rows(c1)' /\ Rows(c2)' BY <1>0, <1>1 DEF Rows
<1>4. ChainTyped'
  <2>1. Bounded(c3.chain)' BY <1>2 DEF Bounded
  <2> QED BY <1>1, <1>2, <1>3, <2>1 DEF ChainInv, ChainTyped
<1>5. ChainTouched' BY <1>2 DEF ChainTouched, Chain!Untouched, Chain!Blank, Chain!EmptyDraft
<1>6. ChainSent'
  <2>1. ASSUME c6.sent PROVE /\ c3'.kind # "none" /\ Chain!BaseOf(c3', c6.lookups) = c6.own
    BY <1>2, <2>1 DEF ChainInv, ChainSent
  <2>2. (Chain!BaseOf(c3, c6.lookups))' = Chain!BaseOf(c3', c6.lookups)
    BY <1>1 DEF Chain!BaseOf, Chain!ProfileBase, Chain!NoCapture
  <2>3. UNCHANGED c6 BY <1>1
  <2> QED BY <2>1, <2>2, <2>3 DEF ChainInv, ChainSent
<1>7. ChainRan' BY <1>1 DEF ChainInv, ChainRan, Distinct
<1> QED BY <1>4, <1>5, <1>6, <1>7 DEF ChainInv

-----------------------------------------------------------------------------
LEMMA ChainKeeps == ASSUME ChainInv, Chain!ChainNext PROVE ChainInv'
<1>1. \/ (\E kind \in {"run", "preset", "bulk"} : Chain!OpenForm(kind)) \/ Chain!OpenSaved
      \/ (\E p \in ChainProfiles : Chain!PickProfile(p)) \/ (\E base \in Bases : Chain!PickCapture(base))
      \/ \E p \in ChainProfiles : Chain!ProfileChanges(p)
      \/ \E at \in 1 .. MaxRungs, draft \in Drafts : at <= Len(c3.chain) + 1 /\ Chain!WriteCard(at, draft)
      \/ Chain!ApplyCard \/ Chain!AddRung \/ Chain!ResetCard
      \/ (\E from, to \in DOMAIN c3.chain : Chain!MoveCard(from, to)) \/ (\E at \in DOMAIN c3.chain : Chain!RemoveCard(at))
      \/ Chain!Submit \/ Chain!Accepted \/ Chain!Refused \/ Chain!SaveAsProfile \/ Chain!LookupsRead
  BY DEF Chain!ChainNext
<1> QED BY <1>1, FormsOpen, PicksKeep, ProfilesKeep, CardsKeep, ArrangeKeeps, SubmitKeeps, AcceptedKeeps, RefusedKeeps, SaveKeeps,
           LookupsKeep

LEMMA ChainStays == ASSUME ChainInv, UNCHANGED cells PROVE ChainInv'
BY DEF cells, ChainInv, ChainTyped, ChainTouched, ChainSent, ChainRan, Rows, Bounded, Distinct, Chain!Untouched, Chain!Blank,
       Chain!EmptyDraft

LEMMA ChainHolds == ConsoleSpec => [](page = "chain" => ChainInv)
<1>1. ConsoleInit => (page = "chain" => ChainInv) BY ChainBegins DEF ConsoleInit
<1>2. ASSUME page = "chain" => ChainInv, [ConsoleNext]_cells PROVE (page = "chain" => ChainInv)'
  <2>0. page' = page BY <1>2 DEF ConsoleNext, cells
  <2>1. CASE ConsoleNext BY <1>2, <2>0, <2>1, ChainKeeps DEF ConsoleNext
  <2>2. CASE UNCHANGED cells BY <1>2, <2>0, <2>2, ChainStays
  <2> QED BY <1>2, <2>1, <2>2
<1> QED BY <1>1, <1>2, PTL DEF ConsoleSpec

LEMMA ChainShows == ChainInv => Chain!ChainTypeOK /\ Chain!PruningCostsNothing /\ Chain!EditsStayWithTheirRung
<1> SUFFICES ASSUME ChainInv PROVE Chain!ChainTypeOK /\ Chain!PruningCostsNothing /\ Chain!EditsStayWithTheirRung
  OBVIOUS
<1>1. /\ Rows(c2) /\ c3 \in ChainForms /\ Bounded(c3.chain) /\ c4 \in [at : Nat, rung : Chain!Rung, draft : Chain!Rung]
      /\ c5 \in Chain!Rung /\ c8 \in 0 .. MaxEdits /\ c9 \in 0 .. MaxChanges /\ ChainTouched
  BY DEF ChainInv, ChainTyped
<1>2. Chain!ChainTypeOK
  <2>1. c3.chain \in Chain!BoundedSeq(Chain!Rung, MaxRungs)
    <3>1. c3.chain \in Seq(Chain!Rung) /\ Len(c3.chain) <= MaxRungs /\ Len(c3.chain) \in Nat /\ MaxRungs \in Nat
      BY <1>1, ChainAssumption DEF Bounded
    <3>2. c3.chain \in [1 .. Len(c3.chain) -> Chain!Rung] /\ Len(c3.chain) \in 0 .. MaxRungs BY <3>1
    <3>3. Chain!BoundedSeq(Chain!Rung, MaxRungs) = UNION {[1 .. m -> Chain!Rung] : m \in 0 .. MaxRungs}
      BY DEF Chain!BoundedSeq, Chain!SeqOf
    <3> QED BY <3>2, <3>3
  <2>2. Chain!BaseOf(c3, c2) \in Chain!Capture \cup {Chain!NoCapture} BY <1>1, FormBase
  <2>3. c4.at \in DOMAIN c3.chain \cup {0}
    <3>1. Chain!Untouched.at = 0 BY DEF Chain!Untouched
    <3> QED BY <1>1, <3>1 DEF ChainTouched
  <2> QED BY <1>1, <2>1, <2>2, <2>3 DEF Chain!ChainTypeOK
<1>3. Chain!PruningCostsNothing
  <2> SUFFICES ASSUME NEW base \in Bases
               PROVE  LET own == [base EXCEPT !.profile = c3.profile]
                      IN  Chain!Resolve(Chain!PruneChain(c3.chain, own, c2), own, c2, FALSE).captures
                            = Chain!Resolve(c3.chain, own, c2, FALSE).captures
    BY DEF Chain!PruningCostsNothing
  <2> DEFINE own == [base EXCEPT !.profile = c3.profile]
  <2>1. own \in Chain!Capture
    <3>1. base \in Chain!Capture /\ c3.profile \in Chain!Named(ChainProfiles) BY <1>1, ChainAssumption DEF ChainForms
    <3> QED BY <3>1 DEF Chain!Capture
  <2> HIDE DEF own
  <2>2. c3.chain \in Seq(Chain!Rung) BY <1>1 DEF Bounded
  <2>3. Chain!Resolve(Chain!PruneChain(c3.chain, own, c2), own, c2, FALSE) = Chain!Resolve(c3.chain, own, c2, FALSE)
    BY <1>1, <2>1, <2>2, PruneFacts
  <2> QED BY <2>3 DEF own
<1>4. Chain!EditsStayWithTheirRung BY <1>1 DEF ChainTouched, Chain!EditsStayWithTheirRung
<1> QED BY <1>2, <1>3, <1>4

LEMMA Answered ==
  ASSUME ChainInv, Chain!ChainNext, c6.sent, c6' = Chain!NoRequest
  PROVE  Chain!Accepted \/ Chain!Refused
<1>1. c6'.sent = FALSE /\ c6' # c6 BY DEF Chain!NoRequest
<1>2. c3.kind # "none" BY DEF ChainInv, ChainSent
<1>3. /\ ~(\E kind \in {"run", "preset", "bulk"} : Chain!OpenForm(kind)) /\ ~Chain!OpenSaved /\ ~Chain!SaveAsProfile
  BY <1>2 DEF Chain!OpenForm, Chain!OpenSaved, Chain!SaveAsProfile
<1>4. /\ ~(\E p \in ChainProfiles : Chain!PickProfile(p)) /\ ~(\E base \in Bases : Chain!PickCapture(base))
      /\ ~(\E p \in ChainProfiles : Chain!ProfileChanges(p)) /\ ~Chain!LookupsRead
  BY <1>1 DEF Chain!PickProfile, Chain!PickCapture, Chain!ProfileChanges, Chain!LookupsRead
<1>5. /\ ~(\E at \in 1 .. MaxRungs, draft \in Drafts : at <= Len(c3.chain) + 1 /\ Chain!WriteCard(at, draft))
      /\ ~Chain!ApplyCard /\ ~Chain!AddRung /\ ~Chain!ResetCard
  BY DEF Chain!WriteCard, Chain!ApplyCard, Chain!AddRung, Chain!ResetCard, Chain!Editing
<1>6. /\ ~(\E from, to \in DOMAIN c3.chain : Chain!MoveCard(from, to)) /\ ~(\E at \in DOMAIN c3.chain : Chain!RemoveCard(at))
      /\ ~Chain!Submit
  BY DEF Chain!MoveCard, Chain!RemoveCard, Chain!Arrange, Chain!Editing, Chain!Submit
<1> QED BY <1>3, <1>4, <1>5, <1>6 DEF Chain!ChainNext

LEMMA SentFacts ==
  ASSUME ChainInv, c6.sent
  PROVE  /\ c3.kind # "none" /\ Rows(c6.lookups) /\ c6.own \in Chain!Capture /\ c6.own # Chain!NoCapture
         /\ c6.chain \in Seq(Chain!Rung) /\ Clean(c6.chain, c6.own, c6.lookups)
<1>1. /\ c3.kind # "none" /\ Rows(c6.lookups) /\ c6.own = Chain!BaseOf(c3, c6.lookups) /\ c6.own # Chain!NoCapture
      /\ c6.chain \in Seq(Chain!Rung) /\ c3 \in ChainForms /\ Clean(c6.chain, c6.own, c6.lookups)
  BY DEF ChainInv, ChainTyped, ChainSent, Bounded
<1>2. c6.own \in Chain!Capture BY <1>1, FormBase
<1> QED BY <1>1, <1>2

LEMMA RefusedWhenStale == ASSUME ChainInv, Chain!ChainNext PROVE Chain!RefusedOnlyWhenStaleStep
<1> SUFFICES ASSUME c6.sent, c6' = Chain!NoRequest, c3' = c3, c6.lookups = c1 PROVE FALSE
  BY DEF Chain!RefusedOnlyWhenStaleStep
<1>1. Chain!Accepted \/ Chain!Refused BY Answered
<1>2. c3.kind # "none" /\ c6.own # Chain!NoCapture /\ Clean(c6.chain, c6.own, c1) BY SentFacts
<1>3. ~Chain!Accepted BY <1>2, BlankFacts DEF Chain!Accepted
<1>4. Chain!CoreBase = c6.own /\ ~Chain!Answer.refused
  <2>1. Chain!CoreBase = c6.own BY AnswerFacts
  <2>2. Chain!Answer.refused <=> ~Clean(c6.chain, Chain!CoreBase, c1) BY <1>2, <2>1, AnswerFacts
  <2> QED BY <1>2, <2>1, <2>2
<1> QED BY <1>1, <1>2, <1>3, <1>4 DEF Chain!Refused

LEMMA PlannedAsShown == ASSUME ChainInv, Chain!ChainNext PROVE Chain!PlannedAsPreviewedStep
<1> SUFFICES ASSUME c6.sent, c6' = Chain!NoRequest, c3' # c3, c6.lookups = c1
             PROVE  c7'.captures = Chain!Captures(Chain!ResolveChain(c6.chain, c6.own, c6.lookups))
  BY DEF Chain!PlannedAsPreviewedStep
<1>1. Chain!Accepted BY Answered DEF Chain!Refused
<1>2. Chain!CoreBase = c6.own /\ Chain!CoreBase # Chain!NoCapture /\ ~Chain!Answer.refused
  BY <1>1, AnswerFacts DEF Chain!Accepted
<1>3. Chain!Answer.captures = Specs(c6.chain, c6.own, c1)
  <2>1. Chain!Answer.captures = Specs(c6.chain, Chain!CoreBase, c1) BY <1>2, AnswerFacts
  <2> QED BY <1>2, <2>1
<1>4. c7'.captures = Chain!Answer.captures BY <1>1 DEF Chain!Accepted
<1>5. Chain!Captures(Chain!ResolveChain(c6.chain, c6.own, c6.lookups)) = Specs(c6.chain, c6.own, c6.lookups)
  <2> DEFINE chain == c6.chain
             own == c6.own
             rows == c6.lookups
  <2>1. chain \in Seq(Chain!Rung) /\ own \in Chain!Capture /\ Rows(rows) /\ Clean(chain, own, rows) BY SentFacts
  <2> HIDE DEF chain, own, rows
  <2>2. Chain!Captures(Chain!ResolveChain(chain, own, rows)) = Specs(chain, own, rows) BY <2>1, CleanShown
  <2> QED BY <2>2 DEF chain, own, rows
<1> QED BY <1>3, <1>4, <1>5

LEMMA SavedRebuilds == ASSUME ChainInv, Chain!ChainNext PROVE Chain!SavedProfileRebuildsRunStep
<1> SUFFICES ASSUME c7.stage = "ran", c7'.stage = "saved"
             PROVE  LET again == Chain!Resolve(c7'.rungs, c7'.own, c1, FALSE).captures
                    IN [i \in DOMAIN again |-> Chain!CaptureKey(again[i])]
                         = [i \in DOMAIN c7.captures |-> Chain!CaptureKey(c7.captures[i])]
  BY DEF Chain!SavedProfileRebuildsRunStep
<1>1. Chain!SaveAsProfile
  <2>0. c7' # c7 OBVIOUS
  <2>1. /\ ~(\E kind \in {"run", "preset", "bulk"} : Chain!OpenForm(kind)) /\ ~Chain!OpenSaved
        /\ ~(\E p \in ChainProfiles : Chain!PickProfile(p)) /\ ~(\E base \in Bases : Chain!PickCapture(base))
        /\ ~(\E p \in ChainProfiles : Chain!ProfileChanges(p)) /\ ~Chain!LookupsRead
    BY <2>0 DEF Chain!OpenForm, Chain!OpenSaved, Chain!PickProfile, Chain!PickCapture, Chain!ProfileChanges, Chain!LookupsRead
  <2>2. /\ ~(\E at \in 1 .. MaxRungs, draft \in Drafts : at <= Len(c3.chain) + 1 /\ Chain!WriteCard(at, draft))
        /\ ~Chain!ApplyCard /\ ~Chain!AddRung /\ ~Chain!ResetCard
    BY <2>0 DEF Chain!WriteCard, Chain!ApplyCard, Chain!AddRung, Chain!ResetCard
  <2>3. /\ ~(\E from, to \in DOMAIN c3.chain : Chain!MoveCard(from, to)) /\ ~(\E at \in DOMAIN c3.chain : Chain!RemoveCard(at))
        /\ ~Chain!Submit /\ ~Chain!Refused
    BY <2>0 DEF Chain!MoveCard, Chain!RemoveCard, Chain!Arrange, Chain!Submit, Chain!Refused
  <2>4. ~Chain!Accepted BY DEF Chain!Accepted
  <2> QED BY <2>1, <2>2, <2>3, <2>4 DEF Chain!ChainNext
<1> DEFINE again == Chain!Resolve(c7'.rungs, c7'.own, c1, FALSE)
<1>2. /\ DOMAIN again.captures = DOMAIN c7.captures
      /\ \A i \in DOMAIN c7.captures : Chain!CaptureKey(again.captures[i]) = Chain!CaptureKey(c7.captures[i])
  BY <1>1, SaveFacts
<1> HIDE DEF again
<1>3. [i \in DOMAIN again.captures |-> Chain!CaptureKey(again.captures[i])]
        = [i \in DOMAIN c7.captures |-> Chain!CaptureKey(c7.captures[i])]
  BY <1>2
<1> QED BY <1>3 DEF again

LEMMA PruningUnblocks == ASSUME ChainInv, Chain!ChainNext PROVE Chain!PruningUnblocksStep
<1> DEFINE own == Chain!BaseOf(c3', c2')
<1> SUFFICES ASSUME c3.kind # "none", c3'.kind = c3.kind, c3.kind # "bulk", own \notin {Chain!BaseOf(c3, c2), Chain!NoCapture}
             PROVE  Unblocked(c3'.chain, own, c2')
  BY DEF Chain!PruningUnblocksStep, Unblocked, Misses
<1>0. c3 \in ChainForms /\ Bounded(c3.chain) /\ Rows(c1) /\ Rows(c2) BY DEF ChainInv, ChainTyped
<1>1. ASSUME NEW f \in ChainForms, Bounded(f.chain), f.kind = c3.kind, NEW rows, Rows(rows), c3' = Chain!Rebased(f, rows), c2' = rows
      PROVE  Unblocked(c3'.chain, own, c2')
  <2>1. Chain!BaseOf(c3', rows) = Chain!BaseOf(f, rows) BY <1>1, RebasedFacts
  <2>2. own = Chain!BaseOf(f, rows) BY <1>1, <2>1
  <2> HIDE DEF own
  <2>3. Chain!BaseOf(f, rows) \notin {Chain!BaseOf(c3, c2), Chain!NoCapture} /\ f.kind # "bulk" BY <1>1, <2>2
  <2>4. Unblocked(c3'.chain, Chain!BaseOf(f, rows), rows) BY <1>1, <2>3, RebasedFacts
  <2> QED BY <1>1, <2>2, <2>4
<1>2. CASE (\E p \in ChainProfiles : Chain!PickProfile(p)) \/ (\E base \in Bases : Chain!PickCapture(base))
  <2>1. PICK f : f \in ChainForms /\ Bounded(f.chain) /\ f.kind = c3.kind /\ Chain!Shows(f, c2) /\ UNCHANGED c2
    <3>1. CASE \E p \in ChainProfiles : Chain!PickProfile(p)
      BY <3>1, PicksFit DEF Chain!PickProfile
    <3>2. CASE \E base \in Bases : Chain!PickCapture(base)
      BY <3>2, PicksFit DEF Chain!PickCapture
    <3> QED BY <1>2, <3>1, <3>2
  <2>2. c3' = Chain!Rebased(f, c2) /\ c2' = c2 BY <2>1 DEF Chain!Shows
  <2> HIDE DEF own
  <2> QED BY <1>0, <1>1, <2>1, <2>2
<1>3. CASE Chain!LookupsRead
  <2>1. c3' = Chain!Rebased(c3, c1) /\ c2' = c1 BY <1>3 DEF Chain!LookupsRead, Chain!Shows
  <2> HIDE DEF own
  <2> QED BY <1>0, <1>1, <2>1
<1>4. CASE UNCHANGED <<c2, c3>>
  <2>1. own = Chain!BaseOf(c3, c2) BY <1>4
  <2> QED BY <2>1
<1>5. CASE \E chain \in Seq(Chain!Rung) : c3' = [c3 EXCEPT !.chain = chain] /\ c2' = c2
  <2>1. PICK chain \in Seq(Chain!Rung) : c3' = [c3 EXCEPT !.chain = chain] /\ c2' = c2 BY <1>5
  <2>2. /\ c3' \in ChainForms /\ c3'.mode = c3.mode /\ c3'.profile = c3.profile /\ c3'.engine = c3.engine
        /\ c3'.resolver = c3.resolver /\ c3'.config = c3.config
    BY <1>0, <2>1 DEF ChainForms
  <2>3. Chain!BaseOf(c3', c2) = Chain!BaseOf(c3, c2) BY <1>0, <2>2, FormBase
  <2>4. own = Chain!BaseOf(c3, c2) BY <2>1, <2>3
  <2> QED BY <2>4
<1>6. CASE Chain!ApplyCard \/ Chain!AddRung
  <2>1. c3'.chain \in Seq(Chain!Rung) /\ c3'.chain = c3'.chain
    <3>1. ChainInv' BY ChainKeeps
    <3> QED BY <3>1 DEF ChainInv, ChainTyped, Bounded
  <2>2. PICK chain : c3' = [c3 EXCEPT !.chain = chain] /\ c2' = c2 BY <1>6 DEF Chain!ApplyCard, Chain!AddRung
  <2>3. c3'.chain = chain BY <1>0, <2>2 DEF ChainForms
  <2> HIDE DEF own
  <2> QED BY <1>5, <2>1, <2>2, <2>3
<1>7. CASE (\E from, to \in DOMAIN c3.chain : Chain!MoveCard(from, to)) \/ (\E at \in DOMAIN c3.chain : Chain!RemoveCard(at))
  <2>1. c3'.chain \in Seq(Chain!Rung)
    <3>1. ChainInv' BY ChainKeeps
    <3> QED BY <3>1 DEF ChainInv, ChainTyped, Bounded
  <2>2. PICK chain : c3' = [c3 EXCEPT !.chain = chain] /\ c2' = c2
    BY <1>7 DEF Chain!MoveCard, Chain!RemoveCard, Chain!Arrange
  <2>3. c3'.chain = chain BY <1>0, <2>2 DEF ChainForms
  <2> HIDE DEF own
  <2> QED BY <1>5, <2>1, <2>2, <2>3
<1>8. \/ (\E p \in ChainProfiles : Chain!PickProfile(p)) \/ (\E base \in Bases : Chain!PickCapture(base))
      \/ Chain!LookupsRead \/ UNCHANGED <<c2, c3>> \/ Chain!ApplyCard \/ Chain!AddRung
      \/ (\E from, to \in DOMAIN c3.chain : Chain!MoveCard(from, to)) \/ (\E at \in DOMAIN c3.chain : Chain!RemoveCard(at))
  <2> SUFFICES ASSUME ~UNCHANGED <<c2, c3>>, ~Chain!LookupsRead, ~Chain!ApplyCard, ~Chain!AddRung
               PROVE  \/ (\E p \in ChainProfiles : Chain!PickProfile(p)) \/ (\E base \in Bases : Chain!PickCapture(base))
                      \/ (\E from, to \in DOMAIN c3.chain : Chain!MoveCard(from, to))
                      \/ (\E at \in DOMAIN c3.chain : Chain!RemoveCard(at))
    OBVIOUS
  <2>1. /\ ~(\E kind \in {"run", "preset", "bulk"} : Chain!OpenForm(kind)) /\ ~Chain!OpenSaved
    BY DEF Chain!OpenForm, Chain!OpenSaved
  <2>2. /\ ~(\E p \in ChainProfiles : Chain!ProfileChanges(p)) /\ ~Chain!ResetCard /\ ~Chain!Submit /\ ~Chain!Refused
        /\ ~Chain!SaveAsProfile
        /\ ~(\E at \in 1 .. MaxRungs, draft \in Drafts : at <= Len(c3.chain) + 1 /\ Chain!WriteCard(at, draft))
    BY DEF Chain!ProfileChanges, Chain!ResetCard, Chain!Submit, Chain!Refused, Chain!SaveAsProfile, Chain!WriteCard
  <2>3. ~Chain!Accepted BY BlankFacts DEF Chain!Accepted
  <2> QED BY <2>1, <2>2, <2>3 DEF Chain!ChainNext
<1> HIDE DEF own
<1> QED BY <1>2, <1>3, <1>4, <1>6, <1>7, <1>8

\* Editing a chain loses nothing of it: a draft is only ever applied to the rung
\* it was written for, whatever is moved or removed above it, and what is pruned
\* under another base would have run nothing (ChainEditor, pruneChain).
THEOREM ChainEditsStay == ConsoleSpec => []ChainEditsKept
<1>1. (page = "chain" => ChainInv) => ChainEditsKept BY ChainShows DEF ChainEditsKept
<1> QED BY <1>1, ChainHolds, PTL

\* The form, the preview and the core agree on a chain, whoever edits profiles
\* meanwhile: a chain the form let through on fresh lookups is taken and becomes
\* the captures that were listed; the profile a run is saved as plans the captures
\* it ran; and a form whose base moved is blocked only by rungs that name
\* something that is gone (resolveChain, pruneChain, fallback_chain.py,
\* save_session_as_profile).
THEOREM ChainPlansAgree == ConsoleSpec => ChainAgrees
<1>1. ASSUME page = "chain" => ChainInv, [ConsoleNext]_cells
      PROVE [page = "chain" =>
                /\ Chain!RefusedOnlyWhenStaleStep
                /\ Chain!PlannedAsPreviewedStep
                /\ Chain!SavedProfileRebuildsRunStep
                /\ Chain!PruningUnblocksStep]_cells
  <2>1. CASE ConsoleNext
    <3>1. page = "chain" => Chain!ChainNext BY <2>1 DEF ConsoleNext
    <3> QED BY <1>1, <3>1, RefusedWhenStale, PlannedAsShown, SavedRebuilds, PruningUnblocks
  <2>2. CASE UNCHANGED cells BY <2>2
  <2> QED BY <1>1, <2>1, <2>2
<1> QED BY <1>1, ChainHolds, PTL DEF ConsoleSpec, ChainAgrees
=============================================================================

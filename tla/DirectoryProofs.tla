-------------------------- MODULE DirectoryProofs ---------------------------
(***************************************************************************)
(* The operator's data and the rules, for any devices, groups, rules and   *)
(* handlers: what the agents enforce is what the rules say, the group      *)
(* Default has every peer, and enrollment leaves what the operator set.    *)
(*                                                                         *)
(* The rules the server sends are a list of entries in which each entry    *)
(* comes from one rule of the order, in the order of the rules.  The first *)
(* entry that matches a packet therefore comes from the first rule that    *)
(* concerns it.                                                            *)
(***************************************************************************)
EXTENDS Directory, FiniteSetTheorems, WellFoundedInduction, TLAPS

-----------------------------------------------------------------------------
(* Lists of lists *)

(* A set of numbers that is not empty has a least one. *)
LEMMA Least ==
    ASSUME NEW S \in SUBSET Nat, S # {}
    PROVE  \E n \in S : \A m \in S : n <= m
<1>1. PICK n \in S : \A m \in S : ~(<<m, n>> \in OpToRel(<, Nat))
  BY WFMin, NatLessThanWellFounded, Zenon
<1>2. \A m \in S : ~(m < n)
  BY <1>1, Zenon DEF OpToRel
<1> QED
  BY <1>2

(* g[i] is what the sequences 1 .. i make when they are appended. *)
Appended(seqs, n, g) == g = [i \in 0 .. n |-> IF i = 0 THEN <<>> ELSE g[i - 1] \o seqs[i]]

(* Such a g exists: the loop that appends them ends. *)
LEMMA AppendedExists ==
    ASSUME NEW seqs, NEW n \in Nat
    PROVE  \E g : Appended(seqs, n, g)
<1> DEFINE Bad == {m \in Nat : ~\E g : Appended(seqs, m, g)}
<1> SUFFICES ASSUME n \in Bad PROVE FALSE
  OBVIOUS
<1>1. PICK m \in Bad : \A k \in Bad : m <= k
  <2>1. Bad \in SUBSET Nat /\ Bad # {}
    OBVIOUS
  <2> HIDE DEF Bad
  <2> QED
    BY <2>1, Least, Zenon
<1>2. m \in Nat /\ ~\E g : Appended(seqs, m, g)
  OBVIOUS
<1>3. m - 1 \in Nat => \E g : Appended(seqs, m - 1, g)
  BY <1>1
<1> HIDE DEF Bad
<1>4. CASE m = 0
  <2>1. Appended(seqs, 0, [i \in 0 .. 0 |-> <<>>])
    BY DEF Appended
  <2> QED
    BY <1>2, <1>4, <2>1
<1>5. CASE m # 0
  <2>1. PICK g : Appended(seqs, m - 1, g)
    BY <1>2, <1>3, <1>5
  <2> DEFINE h == [i \in 0 .. m |-> IF i = m THEN g[m - 1] \o seqs[m] ELSE g[i]]
  <2>2. ASSUME NEW i \in 0 .. m
        PROVE  h[i] = IF i = 0 THEN <<>> ELSE h[i - 1] \o seqs[i]
    <3>1. CASE i = m
      <4>1. i # 0 /\ i - 1 \in 0 .. m /\ i - 1 # m
        BY <1>2, <1>5, <3>1
      <4> QED
        BY <3>1, <4>1
    <3>2. CASE i # m
      <4>1. i \in 0 .. m - 1 /\ (i # 0 => i - 1 \in 0 .. m /\ i - 1 # m)
        BY <1>2, <3>2
      <4>2. g[i] = IF i = 0 THEN <<>> ELSE g[i - 1] \o seqs[i]
        BY <2>1, <4>1 DEF Appended
      <4> QED
        BY <3>2, <4>1, <4>2
    <3> QED
      BY <3>1, <3>2
  <2>3. h = [i \in 0 .. m |-> h[i]]
    OBVIOUS
  <2> HIDE DEF h
  <2>4. Appended(seqs, m, h)
    BY <2>2, <2>3 DEF Appended
  <2> QED
    BY <1>2, <2>4
<1> QED
  BY <1>4, <1>5

(* list has the elements of the sequences 1 .. n, in their order; from says *)
(* of which of them an element is.                                          *)
Listing(list, from, seqs, n) ==
    /\ \A i \in 1 .. Len(list) :
        from[i] \in 1 .. n /\ \E a \in 1 .. Len(seqs[from[i]]) : list[i] = seqs[from[i]][a]
    /\ \A i, j \in 1 .. Len(list) : i <= j => from[i] <= from[j]
    /\ \A k \in 1 .. n : \A a \in 1 .. Len(seqs[k]) :
            \E i \in 1 .. Len(list) : from[i] = k /\ list[i] = seqs[k][a]

(* Appending the next sequence *)
LEMMA ListingExtends ==
    ASSUME NEW V, NEW n \in Nat, NEW seqs, seqs[n + 1] \in Seq(V),
           NEW list \in Seq(V), NEW from, Listing(list, from, seqs, n)
    PROVE  \E f : Listing(list \o seqs[n + 1], f, seqs, n + 1)
<1> DEFINE s == seqs[n + 1]
           new == list \o s
           f == [i \in 1 .. Len(new) |-> IF i <= Len(list) THEN from[i] ELSE n + 1]
<1>1. s \in Seq(V) /\ Len(s) \in Nat /\ Len(list) \in Nat
  OBVIOUS
<1>2. /\ Len(new) = Len(list) + Len(s)
      /\ \A i \in 1 .. Len(list) : new[i] = list[i]
      /\ \A a \in 1 .. Len(s) : new[Len(list) + a] = s[a]
  BY <1>1
<1> HIDE DEF new
<1>3. /\ \A i \in 1 .. Len(list) : from[i] \in 1 .. n
      /\ \A i, j \in 1 .. Len(list) : i <= j => from[i] <= from[j]
  BY DEF Listing
<1>4. \A i, j \in 1 .. Len(new) : i <= j => f[i] <= f[j]
  BY <1>1, <1>2, <1>3
<1>5. ASSUME NEW i \in 1 .. Len(new)
      PROVE  f[i] \in 1 .. n + 1 /\ \E a \in 1 .. Len(seqs[f[i]]) : new[i] = seqs[f[i]][a]
  <2>1. CASE i <= Len(list)
    <3>1. i \in 1 .. Len(list) /\ f[i] = from[i] /\ new[i] = list[i]
      BY <1>1, <1>2, <2>1
    <3>2. from[i] \in 1 .. n + 1 /\ \E a \in 1 .. Len(seqs[from[i]]) : list[i] = seqs[from[i]][a]
      BY <1>3, <3>1 DEF Listing
    <3> HIDE DEF f
    <3> QED
      BY <3>1, <3>2
  <2>2. CASE ~(i <= Len(list))
    <3>1. i - Len(list) \in 1 .. Len(s) /\ i = Len(list) + (i - Len(list)) /\ f[i] = n + 1
      BY <1>1, <1>2, <2>2
    <3> HIDE DEF f
    <3> QED
      BY <1>2, <3>1
  <2> QED
    BY <2>1, <2>2
<1>6. ASSUME NEW k \in 1 .. n + 1, NEW a \in 1 .. Len(seqs[k])
      PROVE  \E i \in 1 .. Len(new) : f[i] = k /\ new[i] = seqs[k][a]
  <2>1. CASE k = n + 1
    <3>1. Len(list) + a \in 1 .. Len(new) /\ ~(Len(list) + a <= Len(list))
      BY <1>1, <1>2, <2>1
    <3>2. f[Len(list) + a] = k /\ new[Len(list) + a] = seqs[k][a]
      BY <1>2, <2>1, <3>1
    <3> QED
      BY <3>1, <3>2
  <2>2. CASE k # n + 1
    <3>1. k \in 1 .. n
      BY <2>2
    <3>2. PICK i \in 1 .. Len(list) : from[i] = k /\ list[i] = seqs[k][a]
      BY <3>1 DEF Listing
    <3>3. i \in 1 .. Len(new) /\ f[i] = k /\ new[i] = seqs[k][a]
      BY <1>1, <1>2, <3>2
    <3> QED
      BY <3>3
  <2> QED
    BY <2>1, <2>2
<1> HIDE DEF f
<1>7. Listing(new, f, seqs, n + 1)
  BY <1>4, <1>5, <1>6 DEF Listing
<1> QED
  BY <1>7 DEF new

(* The sequences appended one after the other list their elements. *)
LEMMA AppendedLists ==
    ASSUME NEW V, NEW n \in Nat, NEW seqs, \A k \in 1 .. n : seqs[k] \in Seq(V),
           NEW g, Appended(seqs, n, g)
    PROVE  g[n] \in Seq(V) /\ \E f : Listing(g[n], f, seqs, n)
<1> DEFINE Good(m) == g[m] \in Seq(V) /\ \E f : Listing(g[m], f, seqs, m)
           Bad == {m \in 0 .. n : ~Good(m)}
<1> SUFFICES ASSUME ~Good(n) PROVE FALSE
  OBVIOUS
<1>1. \A m \in 0 .. n : g[m] = IF m = 0 THEN <<>> ELSE g[m - 1] \o seqs[m]
  BY DEF Appended
<1>2. PICK m \in 0 .. n : ~Good(m) /\ (m - 1 \in 0 .. n => Good(m - 1))
  <2>1. n \in Bad /\ Bad \in SUBSET Nat
    OBVIOUS
  <2>2. \A m \in 0 .. n : m \in Bad <=> ~Good(m)
    OBVIOUS
  <2>3. Bad \subseteq 0 .. n
    OBVIOUS
  <2> HIDE DEF Bad, Good
  <2>4. PICK m \in Bad : \A k \in Bad : m <= k
    BY <2>1, Least, Zenon
  <2> QED
    BY <2>2, <2>3, <2>4
<1>3. CASE m = 0
  <2>1. g[0] = <<>>
    BY <1>1
  <2>2. Listing(<<>>, <<>>, seqs, 0)
    BY DEF Listing
  <2> QED
    BY <1>2, <1>3, <2>1, <2>2
<1>4. CASE m # 0
  <2>1. m - 1 \in 0 .. n /\ m - 1 \in Nat /\ (m - 1) + 1 = m /\ m \in 1 .. n
    BY <1>2, <1>4
  <2>2. g[m] = g[m - 1] \o seqs[m]
    BY <1>1, <1>4
  <2>3. PICK f : Listing(g[m - 1], f, seqs, m - 1)
    BY <1>2, <2>1
  <2>4. g[m - 1] \in Seq(V) /\ seqs[m] \in Seq(V)
    BY <1>2, <2>1
  <2>5. \E h : Listing(g[m - 1] \o seqs[(m - 1) + 1], h, seqs, (m - 1) + 1)
    BY <2>1, <2>3, <2>4, ListingExtends
  <2>6. Good(m)
    BY <2>1, <2>2, <2>4, <2>5
  <2> QED
    BY <1>2, <2>6
<1> QED
  BY <1>3, <1>4

-----------------------------------------------------------------------------
(* Rules and what is made of them *)

(* from maps 1 .. m into 1 .. n in order, M onto C, and the members of M    *)
(* that are in A to members of B.                                           *)
Carries(from, m, n, M, C, A, B) ==
    /\ \A i \in 1 .. m : from[i] \in 1 .. n
    /\ \A i, j \in 1 .. m : i <= j => from[i] <= from[j]
    /\ M \subseteq 1 .. m /\ C \subseteq 1 .. n
    /\ \A i \in M : from[i] \in C /\ (i \in A <=> from[i] \in B)
    /\ \A k \in C : \E i \in M : from[i] = k

(* A chain on M decides as one on C does: its first match comes from the   *)
(* first member of C.                                                       *)
LEMMA FirstOf ==
    ASSUME NEW m \in Nat, NEW n \in Nat, NEW from, NEW M, NEW C, NEW A, NEW B,
           Carries(from, m, n, M, C, A, B)
    PROVE  FirstMatch(M, A) <=> \E k \in C : k \in B /\ \A j \in 1 .. k - 1 : j \notin C
<1> USE DEF Carries
<1>1. ASSUME FirstMatch(M, A)
      PROVE  \E k \in C : k \in B /\ \A j \in 1 .. k - 1 : j \notin C
  <2>1. PICK i \in M \cap A : \A j \in M : i <= j
    BY <1>1 DEF FirstMatch
  <2>2. from[i] \in C /\ from[i] \in B
    OBVIOUS
  <2>3. ASSUME NEW j \in 1 .. from[i] - 1, j \in C
        PROVE  FALSE
    <3>1. PICK l \in M : from[l] = j
      BY <2>3
    <3>2. i \in 1 .. m /\ l \in 1 .. m /\ i <= l
      BY <2>1
    <3>3. from[i] <= from[l] /\ from[i] \in 1 .. n
      BY <3>2
    <3> QED
      BY <2>3, <3>1, <3>3
  <2> QED
    BY <2>2, <2>3
<1>2. ASSUME NEW k \in C, k \in B, \A j \in 1 .. k - 1 : j \notin C
      PROVE  FirstMatch(M, A)
  <2>1. PICK l \in M : from[l] = k
    OBVIOUS
  <2>2. PICK i \in M : \A j \in M : i <= j
    <3>1. M \in SUBSET Nat /\ M # {}
      OBVIOUS
    <3> QED
      BY <3>1, Least, Zenon
  <2>3. from[i] = k
    <3>1. i \in 1 .. m /\ l \in 1 .. m /\ i <= l
      BY <2>2
    <3>2. from[i] <= k /\ from[i] \in C /\ from[i] \in 1 .. n /\ k \in 1 .. n
      BY <2>1, <3>1
    <3> QED
      BY <1>2, <3>2
  <2>4. i \in A
    BY <1>2, <2>3
  <2> QED
    BY <2>2, <2>4 DEF FirstMatch
<1> QED
  BY <1>1, <1>2

(* What the store has as a rule *)
IsRule(r) == DOMAIN r = RuleFields /\ ValidRule(r)

(* The addresses expandGroupRule puts for an end *)
Ends(e, members) == IF e \in Groups THEN members[e] ELSE {e}

(* The entries of a rule differ from it in the two ends. *)
LEMMA Entries ==
    ASSUME NEW r, IsRule(r), NEW members, NEW e
    PROVE  e \in ExpandGroupRule(r, members) <=>
              \E s \in Ends(r.src, members), d \in Ends(r.dst, members) :
                  e = [f \in RuleFields |-> IF f = "src" THEN s ELSE IF f = "dst" THEN d ELSE r[f]]
<1> DEFINE made(s, d) == [r EXCEPT !.src = s, !.dst = d]
           entry(s, d) == [f \in RuleFields |-> IF f = "src" THEN s ELSE IF f = "dst" THEN d ELSE r[f]]
<1>1. ASSUME NEW s, NEW d
      PROVE  made(s, d) = entry(s, d)
  <2>1. DOMAIN r = RuleFields
    BY DEF IsRule
  <2>2. made(s, d) = [f \in DOMAIN r |-> IF f = "src" THEN s ELSE IF f = "dst" THEN d ELSE r[f]]
    OBVIOUS
  <2> QED
    BY <2>1, <2>2
<1>2. e \in ExpandGroupRule(r, members) <=>
        \E s \in Ends(r.src, members), d \in Ends(r.dst, members) : e = made(s, d)
  BY DEF ExpandGroupRule, Ends
<1>3. e \in ExpandGroupRule(r, members) <=>
        \E s \in Ends(r.src, members), d \in Ends(r.dst, members) : e = entry(s, d)
  <2> HIDE DEF made, entry
  <2> QED
    BY <1>1, <1>2
<1> QED
  BY <1>3

(* What of a rule its entries keep *)
LEMMA EntryFields ==
    ASSUME NEW r, IsRule(r), NEW members, NEW e \in ExpandGroupRule(r, members)
    PROVE  /\ e.src \in Ends(r.src, members) /\ e.dst \in Ends(r.dst, members)
           /\ e.proto = r.proto /\ e.port = r.port /\ e.action = r.action
           /\ e.enabled = r.enabled
<1>1. PICK s \in Ends(r.src, members), d \in Ends(r.dst, members) :
          e = [f \in RuleFields |-> IF f = "src" THEN s ELSE IF f = "dst" THEN d ELSE r[f]]
  BY Entries
<1> QED
  BY <1>1 DEF RuleFields

(* A host belongs to an end if one of the end's addresses matches it: no    *)
(* host is named like a group.                                              *)
LEMMA HostMatches ==
    ASSUME NEW end \in {Star} \cup Groups \cup Hosts, NEW host \in Hosts, NEW members,
           \A g \in Groups : members[g] \subseteq Hosts
    PROVE  Belongs(host, end, members) <=> \E a \in Ends(end, members) : AclHostMatch(a, host)
  BY EndAssumption DEF Belongs, Ends, AclHostMatch

(* The part of AclRuleMatch on the protocol and the port *)
Service(r, pkt) ==
    \/ r.proto = "all"
    \/ /\ r.proto = pkt.proto
       /\ r.port > 0 /\ r.proto \in {"tcp", "udp"} => r.port = pkt.dport

(* A rule concerns a packet exactly when one of its entries matches it. *)
LEMMA Expansion ==
    ASSUME NEW r, IsRule(r), NEW members, \A g \in Groups : members[g] \subseteq Hosts,
           NEW pkt, pkt.src \in Hosts, pkt.dst \in Hosts
    PROVE  Concerns(r, pkt, members) <=> \E e \in ExpandGroupRule(r, members) : AclRuleMatch(e, pkt)
<1>1. Concerns(r, pkt, members) <=>
        /\ r.enabled /\ Service(r, pkt)
        /\ Belongs(pkt.src, r.src, members) /\ Belongs(pkt.dst, r.dst, members)
  BY DEF Concerns, Service, IsRule, ValidRule, Protocols
<1>2. r.src \in {Star} \cup Groups \cup Hosts /\ r.dst \in {Star} \cup Groups \cup Hosts
  BY DEF IsRule, ValidRule
<1>3. ASSUME NEW e \in ExpandGroupRule(r, members), AclRuleMatch(e, pkt)
      PROVE  Concerns(r, pkt, members)
  <2>1. /\ e.src \in Ends(r.src, members) /\ e.dst \in Ends(r.dst, members)
        /\ e.proto = r.proto /\ e.port = r.port /\ e.enabled = r.enabled
    BY EntryFields
  <2>2. r.enabled /\ AclHostMatch(e.src, pkt.src) /\ AclHostMatch(e.dst, pkt.dst)
    BY <1>3, <2>1 DEF AclRuleMatch
  <2>3. Service(r, pkt)
    BY <1>3, <2>1 DEF AclRuleMatch, Service
  <2>4. Belongs(pkt.src, r.src, members) /\ Belongs(pkt.dst, r.dst, members)
    BY <1>2, <2>1, <2>2, HostMatches
  <2> QED
    BY <1>1, <2>2, <2>3, <2>4
<1>4. ASSUME Concerns(r, pkt, members)
      PROVE  \E e \in ExpandGroupRule(r, members) : AclRuleMatch(e, pkt)
  <2>1. PICK s \in Ends(r.src, members) : AclHostMatch(s, pkt.src)
    BY <1>1, <1>2, <1>4, HostMatches
  <2>2. PICK d \in Ends(r.dst, members) : AclHostMatch(d, pkt.dst)
    BY <1>1, <1>2, <1>4, HostMatches
  <2> DEFINE e == [f \in RuleFields |-> IF f = "src" THEN s ELSE IF f = "dst" THEN d ELSE r[f]]
  <2>3. e \in ExpandGroupRule(r, members)
    BY Entries
  <2>4. /\ e.src = s /\ e.dst = d /\ e.proto = r.proto /\ e.port = r.port
        /\ e.enabled = r.enabled
    BY DEF RuleFields
  <2> HIDE DEF e
  <2>5. AclRuleMatch(e, pkt)
    BY <1>1, <1>4, <2>1, <2>2, <2>4 DEF AclRuleMatch, Service
  <2> QED
    BY <2>3, <2>5
<1> QED
  BY <1>3, <1>4

(* A rule has finitely many entries. *)
LEMMA ExpandFinite ==
    ASSUME NEW r, IsRule(r), NEW members, \A g \in Groups : IsFiniteSet(members[g])
    PROVE  IsFiniteSet(ExpandGroupRule(r, members))
<1> DEFINE S == Ends(r.src, members)
           D == Ends(r.dst, members)
           E == ExpandGroupRule(r, members)
           entry(p) == [f \in RuleFields |-> IF f = "src" THEN p[1] ELSE IF f = "dst" THEN p[2] ELSE r[f]]
           h == [p \in S \X D |-> entry(p)]
<1>1. IsFiniteSet(S) /\ IsFiniteSet(D)
  BY FS_Singleton DEF Ends
<1>2. IsFiniteSet(S \X D)
  BY <1>1, FS_Product
<1>3. ASSUME NEW e
      PROVE  e \in E <=> \E p \in S \X D : e = entry(p)
  <2>1. e \in E <=> \E s \in S, d \in D : e = entry(<<s, d>>)
    BY Entries
  <2>2. \A s \in S, d \in D : <<s, d>> \in S \X D
    OBVIOUS
  <2>3. \A p \in S \X D : p[1] \in S /\ p[2] \in D /\ entry(p) = entry(<<p[1], p[2]>>)
    OBVIOUS
  <2> HIDE DEF E, S, D, entry
  <2> QED
    BY <2>1, <2>2, <2>3, Zenon
<1> HIDE DEF E, S, D, entry
<1>4. h \in Surjection(S \X D, E)
  BY <1>3 DEF Surjection
<1>5. IsFiniteSet(E)
  <2> HIDE DEF h
  <2> QED
    BY <1>2, <1>4, FS_Surjection
<1> QED
  BY <1>5 DEF E

(* The entries of a rule, in some order *)
EntriesOf(r, members) ==
    LET E == ExpandGroupRule(r, members)
    IN  CHOOSE s \in [1 .. Cardinality(E) -> E] : IsInjective(s)

(* They are listed completely. *)
LEMMA EntriesListed ==
    ASSUME NEW r, IsRule(r), NEW members, \A g \in Groups : IsFiniteSet(members[g])
    PROVE  /\ EntriesOf(r, members) \in Seq(ExpandGroupRule(r, members))
           /\ \A e \in ExpandGroupRule(r, members) :
                \E i \in 1 .. Len(EntriesOf(r, members)) : EntriesOf(r, members)[i] = e
<1> DEFINE S == ExpandGroupRule(r, members)
           n == Cardinality(S)
           q == EntriesOf(r, members)
<1>0. IsFiniteSet(S)
  BY ExpandFinite
<1> HIDE DEF S
<1>1. n \in Nat /\ ExistsBijection(1 .. n, S)
  BY <1>0, FS_CardinalityType
<1>2. \E f \in [1 .. n -> S] : IsInjective(f)
  BY <1>1, Zenon DEF ExistsBijection, Bijection, Injection
<1>3. q \in [1 .. n -> S] /\ IsInjective(q)
  BY <1>2, Zenon DEF EntriesOf, S
<1> HIDE DEF q
<1>4. q \in Injection(1 .. n, S)
  BY <1>3, Zenon DEF Injection
<1>5. Cardinality(1 .. n) = n
  <2>1. 1 \in Int /\ n \in Int
    BY <1>1
  <2>2. Cardinality(1 .. n) = IF 1 > n THEN 0 ELSE n - 1 + 1
    BY <2>1, FS_Interval
  <2> HIDE DEF n
  <2> QED
    BY <1>1, <2>2
<1>6. q \in Surjection(1 .. n, S)
  BY <1>0, <1>4, <1>5, FS_Injection
<1>7. \A x \in S : \E i \in 1 .. n : q[i] = x
  BY <1>6, Zenon DEF Surjection
<1>8. q \in Seq(S) /\ Len(q) = n
  <2> HIDE DEF n
  <2> QED
    BY <1>1, <1>3
<1>9. q \in Seq(S) /\ \A x \in S : \E i \in 1 .. Len(q) : q[i] = x
  BY <1>7, <1>8, Zenon
<1> QED
  BY <1>9, Zenon DEF q, S

(* list has the entries of the rules of order, and from says of which rule  *)
(* an entry is: entries come in the order of the rules, and none is missing. *)
Compiled(list, m, from, order, n, members) ==
    /\ DOMAIN list = 1 .. m
    /\ \A i \in 1 .. m : from[i] \in 1 .. n /\ list[i] \in ExpandGroupRule(order[from[i]], members)
    /\ \A i, j \in 1 .. m : i <= j => from[i] <= from[j]
    /\ \A k \in 1 .. n : \A e \in ExpandGroupRule(order[k], members) :
            \E i \in 1 .. m : from[i] = k /\ list[i] = e

(* What buildSyncResponse sends is such a list. *)
LEMMA SyncRulesCompile ==
    ASSUME NEW n \in Nat, NEW order, DOMAIN order = 1 .. n, Len(order) = n,
           \A k \in 1 .. n : IsRule(order[k]),
           NEW members, \A g \in Groups : IsFiniteSet(members[g])
    PROVE  \E m \in Nat : \E from : Compiled(SyncRules(order, members), m, from, order, n, members)
<1> DEFINE E(k) == ExpandGroupRule(order[k], members)
           V == UNION {E(k) : k \in 1 .. n}
           seqs == [k \in 1 .. n |-> EntriesOf(order[k], members)]
<1>1. ASSUME NEW k \in 1 .. n
      PROVE  /\ seqs[k] \in Seq(V)
             /\ \A a \in 1 .. Len(seqs[k]) : seqs[k][a] \in E(k)
             /\ \A e \in E(k) : \E a \in 1 .. Len(seqs[k]) : seqs[k][a] = e
  <2>1. E(k) \subseteq V
    OBVIOUS
  <2>2. seqs[k] = EntriesOf(order[k], members)
    OBVIOUS
  <2>3. /\ seqs[k] \in Seq(E(k))
        /\ \A e \in E(k) : \E a \in 1 .. Len(seqs[k]) : seqs[k][a] = e
    BY <2>2, EntriesListed
  <2> HIDE DEF E, V, seqs
  <2> QED
    BY <2>1, <2>3
<1>2. PICK g : Appended(seqs, n, g) /\ SyncRules(order, members) = g[n]
  <2> DEFINE Loop(h) == h = [i \in 0 .. Len(order) |->
                              IF i = 0 THEN <<>> ELSE h[i - 1] \o EntriesOf(order[i], members)]
  <2>1. ASSUME NEW h
        PROVE  Appended(seqs, n, h) <=> Loop(h)
    <3>1. \A i \in 0 .. n : i # 0 => seqs[i] = EntriesOf(order[i], members)
      OBVIOUS
    <3>2. [i \in 0 .. n |-> IF i = 0 THEN <<>> ELSE h[i - 1] \o seqs[i]]
            = [i \in 0 .. n |-> IF i = 0 THEN <<>> ELSE h[i - 1] \o EntriesOf(order[i], members)]
      BY <3>1
    <3> QED
      BY <3>2 DEF Appended
  <2>2. \E h : Loop(h)
    BY <2>1, AppendedExists
  <2>3. PICK h : Loop(h) /\ SyncRules(order, members) = h[Len(order)]
    BY <2>2, Zenon DEF SyncRules, EntriesOf
  <2> QED
    BY <2>1, <2>3
<1> DEFINE list == SyncRules(order, members)
<1> HIDE DEF V, seqs, list
<1>3. PICK from : list \in Seq(V) /\ Listing(list, from, seqs, n)
  <2>1. \A k \in 1 .. n : seqs[k] \in Seq(V)
    BY <1>1
  <2>2. g[n] \in Seq(V) /\ \E f : Listing(g[n], f, seqs, n)
    BY <1>2, <2>1, AppendedLists
  <2> QED
    BY <1>2, <2>2 DEF list
<1>4. Len(list) \in Nat /\ DOMAIN list = 1 .. Len(list)
  BY <1>3
<1>5. Compiled(list, Len(list), from, order, n, members)
  <2>1. ASSUME NEW i \in 1 .. Len(list)
        PROVE  from[i] \in 1 .. n /\ list[i] \in E(from[i])
    <3>1. from[i] \in 1 .. n /\ \E a \in 1 .. Len(seqs[from[i]]) : list[i] = seqs[from[i]][a]
      BY <1>3 DEF Listing
    <3> HIDE DEF E
    <3> QED
      BY <1>1, <3>1
  <2>2. \A i, j \in 1 .. Len(list) : i <= j => from[i] <= from[j]
    BY <1>3 DEF Listing
  <2>3. ASSUME NEW k \in 1 .. n, NEW e \in E(k)
        PROVE  \E i \in 1 .. Len(list) : from[i] = k /\ list[i] = e
    <3>1. PICK a \in 1 .. Len(seqs[k]) : seqs[k][a] = e
      BY <1>1
    <3>2. \A b \in 1 .. Len(seqs[k]) :
            \E i \in 1 .. Len(list) : from[i] = k /\ list[i] = seqs[k][b]
      BY <1>3 DEF Listing
    <3> HIDE DEF E
    <3> QED
      BY <3>1, <3>2
  <2> QED
    BY <1>4, <2>1, <2>2, <2>3 DEF Compiled
<1> QED
  BY <1>4, <1>5 DEF list

(* iptables matches an entry *)
EntryMatches(e, pkt) ==
    /\ e.src \in {Star, pkt.src} /\ e.dst \in {Star, pkt.dst}
    /\ e.proto \in {"", pkt.proto} /\ e.port \in {0, pkt.dport}

(* buildIPTablesArgs says in iptables' terms what aclRuleMatch says. *)
LEMMA EntryDecides ==
    ASSUME NEW e, e.proto \in Protocols, e.port \in 0 .. MaxPort, e.action \in {"allow", "deny"},
           NEW pkt
    PROVE  /\ AclRuleMatch(e, pkt) <=> e.enabled /\ EntryMatches(BuildIPTablesArgs(e), pkt)
           /\ BuildIPTablesArgs(e).target = "ACCEPT" <=> e.action = "allow"
<1>1. AclRuleMatch(e, pkt) <=>
         /\ e.enabled /\ e.src \in {Star, pkt.src} /\ e.dst \in {Star, pkt.dst} /\ Service(e, pkt)
  BY DEF AclRuleMatch, AclHostMatch, Service
<1>2. Service(e, pkt) <=> /\ BuildIPTablesArgs(e).proto \in {"", pkt.proto}
                          /\ BuildIPTablesArgs(e).port \in {0, pkt.dport}
  <2> DEFINE p == BuildIPTablesArgs(e).proto
             t == BuildIPTablesArgs(e).port
  <2>1. /\ p = IF e.proto = "all" THEN "" ELSE e.proto
        /\ t = IF e.proto \in {"tcp", "udp"} THEN e.port ELSE 0
    BY DEF BuildIPTablesArgs
  <2>2. e.port \in Int /\ (e.port > 0 <=> e.port # 0)
    OBVIOUS
  <2> HIDE DEF p, t
  <2>3. Service(e, pkt) <=> p \in {"", pkt.proto} /\ t \in {0, pkt.dport}
    <3>1. CASE e.proto = "all"
      BY <2>1, <3>1 DEF Service
    <3>2. CASE e.proto = "icmp"
      BY <2>1, <3>2 DEF Service
    <3>3. CASE e.proto \in {"tcp", "udp"}
      BY <2>1, <2>2, <3>3 DEF Service
    <3> QED
      BY <3>1, <3>2, <3>3 DEF Protocols
  <2> QED
    BY <2>3 DEF p, t
<1> QED
  BY <1>1, <1>2 DEF EntryMatches, BuildIPTablesArgs

(* Any such list decides as the rules on groups do, interpreted or made     *)
(* into a chain.                                                            *)
LEMMA ListDecides ==
    ASSUME NEW n \in Nat, NEW order, DOMAIN order = 1 .. n, \A k \in 1 .. n : IsRule(order[k]),
           NEW members, \A g \in Groups : members[g] \subseteq Hosts,
           NEW pkt, pkt.src \in Hosts, pkt.dst \in Hosts,
           NEW list, NEW m \in Nat, NEW from, Compiled(list, m, from, order, n, members)
    PROVE  /\ AclAllows(list, pkt) <=> Permits(order, members, pkt)
           /\ ChainAccepts(ApplyRules(list), pkt) <=> Permits(order, members, pkt)
<1> DEFINE M == {i \in 1 .. m : AclRuleMatch(list[i], pkt)}
           C == {k \in 1 .. n : Concerns(order[k], pkt, members)}
           B == {k \in 1 .. n : order[k].action = "allow"}
           Fits(A) == \A i \in M : i \in A <=> list[i].action = "allow"
<1>1. \A i \in 1 .. m : from[i] \in 1 .. n /\ list[i] \in ExpandGroupRule(order[from[i]], members)
  BY DEF Compiled
<1>2. \A i \in M : from[i] \in C
  BY <1>1, Expansion
<1>3. ASSUME NEW k \in C
      PROVE  \E i \in M : from[i] = k
  <2>1. PICK e \in ExpandGroupRule(order[k], members) : AclRuleMatch(e, pkt)
    BY Expansion
  <2> QED
    BY <2>1 DEF Compiled
<1>4. Permits(order, members, pkt) <=> \E k \in C : k \in B /\ \A j \in 1 .. k - 1 : j \notin C
  BY DEF Permits
<1>5. ASSUME NEW i \in 1 .. m
      PROVE  list[i].action = "allow" <=> from[i] \in B
  <2>1. from[i] \in 1 .. n /\ list[i].action = order[from[i]].action
    BY <1>1, EntryFields
  <2> QED
    BY <2>1
<1>6. ASSUME NEW A, Fits(A)
      PROVE  FirstMatch(M, A) <=> Permits(order, members, pkt)
  <2>1. Carries(from, m, n, M, C, A, B)
    <3>1. /\ M \subseteq 1 .. m /\ C \subseteq 1 .. n
          /\ \A i \in M : from[i] \in C /\ (i \in A <=> from[i] \in B)
      BY <1>2, <1>5, <1>6
    <3>2. \A i, j \in 1 .. m : i <= j => from[i] <= from[j]
      BY DEF Compiled
    <3> HIDE DEF M, C, B
    <3> QED
      BY <1>1, <1>3, <3>1, <3>2, Zenon DEF Carries
  <2> HIDE DEF M, C, B
  <2>3. FirstMatch(M, A) <=> \E k \in C : k \in B /\ \A j \in 1 .. k - 1 : j \notin C
    BY <2>1, FirstOf DEF FirstMatch
  <2> QED
    BY <1>4, <2>3, Zenon
<1>7. AclAllows(list, pkt) <=> Permits(order, members, pkt)
  <2>1. {i \in DOMAIN list : AclRuleMatch(list[i], pkt)} = M
    BY DEF Compiled
  <2>2. Fits({i \in DOMAIN list : list[i].action = "allow"})
    BY DEF Compiled
  <2> HIDE DEF M, Fits
  <2> QED
    BY <1>6, <2>1, <2>2 DEF AclAllows
<1>8. ChainAccepts(ApplyRules(list), pkt) <=> Permits(order, members, pkt)
  <2> DEFINE chain == ApplyRules(list)
  <2>1. ASSUME NEW i \in 1 .. m
        PROVE  /\ list[i].proto \in Protocols /\ list[i].port \in 0 .. MaxPort
               /\ list[i].action \in {"allow", "deny"}
    <3> DEFINE r == order[from[i]]
    <3>1. IsRule(r) /\ list[i] \in ExpandGroupRule(r, members)
      BY <1>1
    <3>2. r.proto \in Protocols /\ r.port \in 0 .. MaxPort /\ r.action \in {"allow", "deny"}
      BY <3>1 DEF IsRule, ValidRule
    <3> HIDE DEF r
    <3> QED
      BY <3>1, <3>2, EntryFields
  <2>2. chain = [i \in {j \in 1 .. m : list[j].enabled} |-> BuildIPTablesArgs(list[i])]
    BY DEF ApplyRules, Compiled
  <2> HIDE DEF chain
  <2>3. {i \in DOMAIN chain : EntryMatches(chain[i], pkt)} = M
    BY <2>1, <2>2, EntryDecides
  <2>4. Fits({i \in DOMAIN chain : chain[i].target = "ACCEPT"})
    <3>1. \A i \in M : i \in DOMAIN chain /\ chain[i] = BuildIPTablesArgs(list[i])
      BY <2>2 DEF AclRuleMatch
    <3>2. \A i \in M : chain[i].target = "ACCEPT" <=> list[i].action = "allow"
      BY <2>1, <3>1, EntryDecides
    <3> HIDE DEF M
    <3> QED
      BY <3>1, <3>2
  <2>5. ChainAccepts(chain, pkt) <=>
           FirstMatch({i \in DOMAIN chain : EntryMatches(chain[i], pkt)},
                      {i \in DOMAIN chain : chain[i].target = "ACCEPT"})
    BY DEF ChainAccepts, EntryMatches
  <2> HIDE DEF M, Fits
  <2>6. ChainAccepts(chain, pkt) <=> Permits(order, members, pkt)
    BY <1>6, <2>3, <2>4, <2>5
  <2> QED
    BY <2>6 DEF chain
<1> QED
  BY <1>7, <1>8

(* The property, for any valid rules and any members of the groups *)
LEMMA PolicyFollows ==
    ASSUME IsFiniteSet(DOMAIN rules), \A id \in DOMAIN rules : IsRule(rules[id]),
           IsFiniteSet(DOMAIN peers), DOMAIN peers \subseteq Devices
    PROVE  PolicyEnforced
<1> DEFINE R == {rules[id] : id \in DOMAIN rules}
           n == Cardinality(R)
<1>1. IsFiniteSet(R)
  <2> DEFINE f == [id \in DOMAIN rules |-> rules[id]]
  <2>1. f \in Surjection(DOMAIN rules, R)
    BY DEF Surjection
  <2> HIDE DEF f, R
  <2> QED
    BY <2>1, FS_Surjection
<1>2. n \in Nat
  BY <1>1, FS_CardinalityType
<1>3. \A g \in Groups : IsFiniteSet(Members[g]) /\ Members[g] \subseteq Hosts
  <2>1. \A g \in Groups : Members[g] \in SUBSET DOMAIN peers
    BY DEF Members
  <2> QED
    BY <2>1, FS_Subset, DirectoryAssumption
<1>4. ASSUME NEW order \in PriorityOrders(R), NEW pkt \in Packets
      PROVE  LET list == SyncRules(order, Members)
             IN  /\ AclAllows(list, pkt) <=> Permits(order, Members, pkt)
                 /\ ChainAccepts(ApplyRules(list), pkt) <=> Permits(order, Members, pkt)
  <2>1. order \in [1 .. n -> R]
    BY DEF PriorityOrders, Injection
  <2>2. DOMAIN order = 1 .. n /\ Len(order) = n /\ \A k \in 1 .. n : IsRule(order[k])
    BY <1>2, <2>1
  <2>3. pkt.src \in Hosts /\ pkt.dst \in Hosts
    BY DirectoryAssumption
  <2> HIDE DEF n, R
  <2>4. PICK m \in Nat : \E from :
            Compiled(SyncRules(order, Members), m, from, order, n, Members)
    BY <1>2, <1>3, <2>2, SyncRulesCompile
  <2> QED
    BY <1>2, <1>3, <2>2, <2>3, <2>4, ListDecides
<1>5. ASSUME NEW order \in PriorityOrders(R), NEW pkt \in Packets
      PROVE  LET list == SyncRules(order, Members)
             IN  /\ ChainAccepts(ApplyRules(list), pkt) = Permits(order, Members, pkt)
                 /\ AclAllows(list, pkt) = Permits(order, Members, pkt)
                 /\ AclFilterAllows(list, pkt, {pkt.dst}) = Permits(order, Members, pkt)
  BY <1>4 DEF ChainAccepts, AclAllows, AclFilterAllows, FirstMatch, Permits
<1> QED
  BY <1>5 DEF PolicyEnforced

-----------------------------------------------------------------------------
(* The directory *)

(* The rows of peers, and the calls that carry one *)
PeerRows ==
    [id : 0 .. MaxEdits, groups : SUBSET Groups, named : BOOLEAN, offers : BOOLEAN,
     exit : Devices \cup {NoKey}]

PeerOps == {"peer", "gateway", "login"}

PeersStored == IsMap(peers, Devices, PeerRows) /\ IsFiniteSet(DOMAIN peers)

(* Rules are valid, and there are finitely many rows. *)
RulesStored ==
    /\ DOMAIN rules \subseteq RuleIds /\ IsFiniteSet(DOMAIN rules)
    /\ \A id \in DOMAIN rules : IsRule(rules[id])

GroupsStored == groups \subseteq ((0 .. MaxEdits) \cup {SeedId}) \X Groups

(* A handler is about to save a peer record that is in Default, a group or  *)
(* a rule that was checked, and none survives a stop of the server.         *)
CallsCarry ==
    /\ call = [h \in Handlers |-> call[h]]
    /\ \A h \in Handlers :
        /\ call[h].op \in PeerOps =>
            /\ call[h] = [op |-> call[h].op, key |-> call[h].key, row |-> call[h].row]
            /\ call[h].key \in Devices
            /\ call[h].row \in PeerRows /\ Default \in call[h].row.groups
        /\ call[h].op = "group" => call[h].key \in 0 .. MaxEdits /\ call[h].row \in Groups
        /\ call[h].op = "rule" => call[h].key \in RuleIds /\ IsRule(call[h].row)
    /\ ~up => \A h \in Handlers : call[h] = Idle

(* The inductive invariant: what a handler will save matters as much as     *)
(* what is stored.                                                          *)
DirectoryInv ==
    /\ edits \in 1 .. MaxEdits /\ up \in BOOLEAN
    /\ PeersStored /\ RulesStored /\ GroupsStored
    /\ CallsCarry
    /\ DefaultForAll

(* A fresh database, and one with a device in no group, satisfy it. *)
LEMMA InitOK == Init => DirectoryInv
<1> SUFFICES ASSUME Init PROVE DirectoryInv
  OBVIOUS
<1>1. PeersStored
  <2>1. CASE peers = EmptyMap
    BY <2>1, FS_EmptySet DEF EmptyMap, PeersStored, IsMap
  <2>2. ASSUME NEW k \in Devices,
               peers = [j \in {k} |-> [id |-> 0, groups |-> {}, named |-> FALSE, offers |-> FALSE,
                                       exit |-> NoKey]]
        PROVE  PeersStored
    <3>1. DOMAIN peers = {k} /\ k \in DOMAIN peers
      BY <2>2
    <3>2. peers[k] \in PeerRows
      BY <2>2, <3>1, DirectoryAssumption DEF PeerRows
    <3>3. peers = [j \in DOMAIN peers |-> peers[j]] /\ \A j \in DOMAIN peers : peers[j] = peers[k]
      BY <2>2
    <3>4. IsMap(peers, Devices, PeerRows)
      BY <3>1, <3>2, <3>3 DEF IsMap
    <3> QED
      BY <3>1, <3>4, FS_Singleton DEF PeersStored
  <2> QED
    BY <2>1, <2>2 DEF Init
<1>2. CallsCarry
  BY DEF Init, CallsCarry, Idle, PeerOps
<1>3. RulesStored /\ GroupsStored
  BY FS_EmptySet DEF Init, RulesStored, GroupsStored, EmptyMap
<1>4. edits \in 1 .. MaxEdits /\ up = FALSE
  BY DirectoryAssumption DEF Init
<1> QED
  BY <1>1, <1>2, <1>3, <1>4 DEF DirectoryInv, DefaultForAll

(* A request that begins with what a handler may save keeps the invariant. *)
LEMMA BeginKeeps ==
    ASSUME DirectoryInv, NEW h \in Handlers, NEW op, NEW k, NEW row, Begin(h, op, k, row),
           op \in PeerOps => k \in Devices /\ row \in PeerRows /\ Default \in row.groups,
           op = "group" => k \in 0 .. MaxEdits /\ row \in Groups,
           op = "rule" => k \in RuleIds /\ IsRule(row)
    PROVE  DirectoryInv'
<1>1. /\ up /\ up' = up /\ edits' = edits + 1 /\ edits < MaxEdits
      /\ call' = [call EXCEPT ![h] = [op |-> op, key |-> k, row |-> row]]
      /\ UNCHANGED <<peers, groups, rules>>
  BY DEF Begin, Request
<1>2. CallsCarry'
  BY <1>1 DEF DirectoryInv, CallsCarry
<1>3. edits' \in 1 .. MaxEdits
  <2>1. MaxEdits \in Nat
    BY DirectoryAssumption
  <2>2. edits \in 1 .. MaxEdits
    BY DEF DirectoryInv
  <2>3. edits' = edits + 1 /\ edits < MaxEdits
    BY <1>1
  <2> QED
    BY <2>1, <2>2, <2>3
<1> QED
  BY <1>1, <1>2, <1>3 DEF DirectoryInv, DefaultForAll, PeersStored, RulesStored, GroupsStored

(* The rows that updatePeer, setPeerRoutes, setPeerExitNode and Login       *)
(* prepare are in Default.                                                  *)
LEMMA PeerRequestKeeps ==
    ASSUME DirectoryInv, NEW h \in Handlers, NEW k \in Devices, PeerRequest(h, k)
    PROVE  DirectoryInv'
<1>1. up
  BY DEF PeerRequest, UpdatePeer, SetPeerRoutes, SetPeerExitNode, Login, Begin, Request
<1>2. \A j \in DOMAIN peers : peers[j] \in PeerRows /\ Default \in peers[j].groups
  BY <1>1 DEF DirectoryInv, DefaultForAll, PeersStored, IsMap
<1>3. ASSUME NEW op, NEW row, op \in PeerOps, Begin(h, op, k, row),
             row \in PeerRows, Default \in row.groups
      PROVE  DirectoryInv'
  BY <1>3, BeginKeeps DEF PeerOps
<1>4. ASSUME NEW G \in SUBSET Groups, NEW rename \in BOOLEAN, UpdatePeer(h, k, G, rename)
      PROVE  DirectoryInv'
  <2> DEFINE row == [peers[k] EXCEPT !.groups = EnsureDefaultGroup(G), !.named = @ \/ rename]
  <2>1. Begin(h, "peer", k, row) /\ k \in DOMAIN peers
    BY <1>4 DEF UpdatePeer
  <2>2. row \in PeerRows /\ Default \in row.groups
    BY <1>2, <2>1, DirectoryAssumption DEF PeerRows, EnsureDefaultGroup
  <2> HIDE DEF row
  <2> QED
    BY <1>3, <2>1, <2>2 DEF PeerOps
<1>5. ASSUME NEW offers \in BOOLEAN, SetPeerRoutes(h, k, offers)
      PROVE  DirectoryInv'
  <2> DEFINE row == [peers[k] EXCEPT !.offers = offers]
  <2>1. Begin(h, "peer", k, row) /\ k \in DOMAIN peers
    BY <1>5 DEF SetPeerRoutes
  <2>2. row \in PeerRows /\ Default \in row.groups
    BY <1>2, <2>1 DEF PeerRows
  <2> HIDE DEF row
  <2> QED
    BY <1>3, <2>1, <2>2 DEF PeerOps
<1>6. ASSUME NEW e \in Devices \cup {NoKey}, SetPeerExitNode(h, k, e)
      PROVE  DirectoryInv'
  <2> DEFINE row == [peers[k] EXCEPT !.exit = e]
  <2>1. Begin(h, IF e = NoKey THEN "peer" ELSE "gateway", k, row) /\ k \in DOMAIN peers
    BY <1>6 DEF SetPeerExitNode
  <2>2. row \in PeerRows /\ Default \in row.groups
    BY <1>2, <2>1 DEF PeerRows
  <2> HIDE DEF row
  <2> QED
    BY <1>3, <2>1, <2>2 DEF PeerOps
<1>7. CASE Login(h, k)
  <2>1. LoginRecord(k) \in PeerRows /\ Default \in LoginRecord(k).groups
    <3>1. edits \in 0 .. MaxEdits
      BY DEF DirectoryInv
    <3>2. CASE k \in DOMAIN peers
      BY <1>2, <3>2 DEF LoginRecord, PeerRows
    <3>3. CASE k \notin DOMAIN peers
      BY <3>1, <3>3, DirectoryAssumption DEF LoginRecord, PeerRows
    <3> QED
      BY <3>2, <3>3
  <2> QED
    BY <1>3, <1>7, <2>1 DEF Login, PeerOps
<1> QED
  BY <1>4, <1>5, <1>6, <1>7 DEF PeerRequest

(* So are the rows SavePeer writes. *)
LEMMA SavePeerKeeps ==
    ASSUME DirectoryInv, NEW h \in Handlers, SavePeer(h)
    PROVE  DirectoryInv'
<1> DEFINE k == call[h].key
           row == call[h].row
<1>1. k \in Devices /\ row \in PeerRows /\ Default \in row.groups
  BY DEF SavePeer, DirectoryInv, CallsCarry, PeerOps
<1>2. /\ peers' = peers \/ peers' = Put(peers, k, row)
      /\ call' = [call EXCEPT ![h] = Idle] /\ UNCHANGED <<groups, rules, up, edits>>
  BY DEF SavePeer
<1> HIDE DEF k, row
<1>3. /\ DOMAIN peers' = DOMAIN peers \/ DOMAIN peers' = DOMAIN peers \cup {k}
      /\ \A j \in DOMAIN peers' : peers'[j] = row \/ (j \in DOMAIN peers /\ peers'[j] = peers[j])
  BY <1>2 DEF Put
<1>4. CallsCarry'
  BY <1>2 DEF DirectoryInv, CallsCarry, Idle, PeerOps
<1>5. DefaultForAll'
  BY <1>1, <1>2, <1>3 DEF DirectoryInv, DefaultForAll
<1>6. PeersStored'
  <2>1. IsFiniteSet(DOMAIN peers')
    BY <1>3, FS_AddElement DEF DirectoryInv, PeersStored
  <2>2. IsMap(peers, Devices, PeerRows)'
    BY <1>1, <1>2 DEF DirectoryInv, PeersStored, IsMap, Put
  <2> QED
    BY <2>1, <2>2 DEF PeersStored
<1> QED
  BY <1>2, <1>4, <1>5, <1>6 DEF DirectoryInv, RulesStored, GroupsStored

(* New puts every peer into Default, and Seed creates the group and its     *)
(* rule.                                                                    *)
LEMMA StartKeeps ==
    ASSUME DirectoryInv, Start
    PROVE  DirectoryInv'
<1>1. /\ ~up /\ up' \in BOOLEAN /\ UNCHANGED <<call, edits>>
      /\ peers' = [k \in DOMAIN peers |-> Backfill(k)]
  BY DEF Start
<1>2. \A k \in DOMAIN peers : Backfill(k) \in PeerRows /\ Default \in Backfill(k).groups
  BY DirectoryAssumption DEF DirectoryInv, PeersStored, IsMap, Backfill, PeerRows
<1>3. GroupsStored' /\ \E row \in groups' : row[2] = Default
  <2>1. CASE \E row \in groups : row[2] = Default
    BY <2>1 DEF Start, DirectoryInv, GroupsStored
  <2>2. CASE ~\E row \in groups : row[2] = Default
    <3>1. groups' = groups \cup {<<SeedId, Default>>}
      BY <2>2 DEF Start
    <3>2. <<SeedId, Default>> \in groups' /\ <<SeedId, Default>>[2] = Default
      BY <3>1
    <3>3. GroupsStored'
      BY <3>1, DirectoryAssumption DEF DirectoryInv, GroupsStored
    <3> QED
      BY <3>2, <3>3
  <2> QED
    BY <2>1, <2>2
<1>4. CallsCarry'
  BY <1>1 DEF DirectoryInv, CallsCarry, Idle, PeerOps
<1>5. PeersStored'
  BY <1>1, <1>2 DEF DirectoryInv, PeersStored, IsMap
<1>6. RulesStored'
  <2>1. IsRule(SeedRule)
    <3>1. DOMAIN SeedRule = RuleFields
      BY DEF SeedRule, RuleFields
    <3>2. 0 \in 0 .. MaxPort
      BY DEF MaxPort
    <3>3. ValidRule(SeedRule)
      BY <3>2, DirectoryAssumption DEF ValidRule, SeedRule, Protocols
    <3> QED
      BY <3>1, <3>3 DEF IsRule
  <2>2. rules' = rules \/ rules' = Put(rules, SeedId, SeedRule)
    BY DEF Start
  <2> QED
    BY <2>1, <2>2, FS_AddElement, DirectoryAssumption DEF DirectoryInv, RulesStored, Put
<1> QED
  BY <1>1, <1>2, <1>3, <1>4, <1>5, <1>6 DEF DirectoryInv, DefaultForAll

(* A step that changes no peer record and takes no group Default away *)
LEMMA OthersKeep ==
    ASSUME DirectoryInv, edits' \in 1 .. MaxEdits, up' = up, UNCHANGED peers,
           CallsCarry', RulesStored', GroupsStored',
           \A row \in groups : row[2] = Default => row \in groups'
    PROVE  DirectoryInv'
  BY DEF DirectoryInv, DefaultForAll, PeersStored

(* The steps of a handler *)
LEMMA HandlerKeeps ==
    ASSUME DirectoryInv, NEW h \in Handlers, Handler(h)
    PROVE  DirectoryInv'
<1>1. ASSUME NEW g \in Groups, CreateGroup(h, g)
      PROVE  DirectoryInv'
  <2>1. Begin(h, "group", edits, g) /\ edits \in 0 .. MaxEdits
    BY <1>1, DirectoryAssumption DEF CreateGroup, DirectoryInv
  <2> QED
    BY <2>1, BeginKeeps DEF PeerOps
<1>2. ASSUME NEW id \in RuleIds, NEW fields \in RuleEdits, NEW r \in RuleSpace,
             UpdateRule(h, id, fields, r)
      PROVE  DirectoryInv'
  <2>1. Begin(h, "rule", id, UpdatedRule(id, fields, r)) /\ ValidRule(UpdatedRule(id, fields, r))
    BY <1>2 DEF UpdateRule
  <2>2. DOMAIN UpdatedRule(id, fields, r) = RuleFields
    BY DEF UpdatedRule
  <2> QED
    BY <2>1, <2>2, BeginKeeps DEF PeerOps, IsRule
<1>3. CASE CheckGateway(h)
  <2>1. /\ call[h].op = "gateway" /\ UNCHANGED <<peers, groups, rules, up, edits>>
        /\ \/ call' = [call EXCEPT ![h] = [@ EXCEPT !.op = "peer"]]
           \/ call' = [call EXCEPT ![h] = Idle]
    BY <1>3 DEF CheckGateway
  <2>2. call'[h].op \in PeerOps => call'[h].row = call[h].row /\ call'[h].key = call[h].key
    BY <2>1 DEF DirectoryInv, CallsCarry, Idle, PeerOps
  <2>3. CallsCarry'
    BY <2>1, <2>2 DEF DirectoryInv, CallsCarry, Idle, PeerOps
  <2> QED
    BY <2>1, <2>3, OthersKeep DEF DirectoryInv, RulesStored, GroupsStored
<1>4. ASSUME call' = [call EXCEPT ![h] = Idle], UNCHANGED up
      PROVE  CallsCarry'
  BY <1>4 DEF DirectoryInv, CallsCarry, Idle, PeerOps
<1>5. CASE SaveGroup(h)
  <2>1. GroupsStored' /\ groups \subseteq groups'
    <3>1. call[h].key \in 0 .. MaxEdits /\ call[h].row \in Groups
      BY <1>5 DEF SaveGroup, DirectoryInv, CallsCarry
    <3>2. groups' = groups \cup {<<call[h].key, call[h].row>>}
      BY <1>5 DEF SaveGroup
    <3>3. <<call[h].key, call[h].row>> \in ((0 .. MaxEdits) \cup {SeedId}) \X Groups
      BY <3>1
    <3>4. GroupsStored
      BY DEF DirectoryInv
    <3> QED
      BY <3>2, <3>3, <3>4 DEF GroupsStored
  <2> QED
    BY <1>4, <1>5, <2>1, OthersKeep DEF SaveGroup, DirectoryInv, RulesStored
<1>6. CASE SaveRule(h)
  <2>1. RulesStored'
    <3>1. call[h].key \in RuleIds /\ IsRule(call[h].row)
      BY <1>6 DEF SaveRule, DirectoryInv, CallsCarry
    <3>2. rules' = Put(rules, call[h].key, call[h].row)
      BY <1>6 DEF SaveRule
    <3> QED
      BY <3>1, <3>2, FS_AddElement DEF DirectoryInv, RulesStored, Put
  <2> QED
    BY <1>4, <1>6, <2>1, OthersKeep DEF SaveRule, DirectoryInv, GroupsStored
<1> QED
  BY <1>1, <1>2, <1>3, <1>5, <1>6, PeerRequestKeeps, SavePeerKeeps DEF Handler

(* Every step keeps the invariant. *)
LEMMA StepKeeps ==
    ASSUME DirectoryInv, [Next]_vars
    PROVE  DirectoryInv'
<1>1. ASSUME UNCHANGED <<call, up>>
      PROVE  CallsCarry'
  BY <1>1 DEF DirectoryInv, CallsCarry
<1>2. ASSUME Request
      PROVE  edits' \in 1 .. MaxEdits /\ UNCHANGED up
  <2>1. MaxEdits \in Nat
    BY DirectoryAssumption
  <2>2. edits \in 1 .. MaxEdits
    BY DEF DirectoryInv
  <2> QED
    BY <1>2, <2>1, <2>2 DEF Request
<1>3. ASSUME NEW k \in Devices, DeletePeer(k)
      PROVE  DirectoryInv'
  <2>1. peers' = Drop(peers, k) /\ UNCHANGED <<groups, rules, call>> /\ Request
    BY <1>3 DEF DeletePeer
  <2>2. PeersStored'
    BY <2>1, FS_RemoveElement DEF DirectoryInv, PeersStored, IsMap, Drop
  <2>3. DefaultForAll'
    BY <1>2, <2>1 DEF DirectoryInv, DefaultForAll, Drop
  <2> QED
    BY <1>1, <1>2, <2>1, <2>2, <2>3 DEF DirectoryInv, RulesStored, GroupsStored
<1>4. ASSUME NEW row \in groups, DeleteGroup(row)
      PROVE  DirectoryInv'
  BY <1>1, <1>2, <1>4, OthersKeep DEF DeleteGroup, DirectoryInv, RulesStored, GroupsStored
<1>5. ASSUME NEW id \in RuleIds, NEW r \in RuleSpace, CreateRule(id, r)
      PROVE  DirectoryInv'
  <2>1. rules' = Put(rules, id, r) /\ UNCHANGED <<peers, groups, call>> /\ Request
    BY <1>5 DEF CreateRule
  <2>2. IsRule(r)
    BY <1>5, DirectoryAssumption DEF CreateRule, IsRule
  <2>3. RulesStored'
    BY <2>1, <2>2, FS_AddElement DEF DirectoryInv, RulesStored, Put
  <2> QED
    BY <1>1, <1>2, <2>1, <2>3, OthersKeep DEF DirectoryInv, GroupsStored
<1>6. ASSUME NEW id \in RuleIds, DeleteRule(id)
      PROVE  DirectoryInv'
  <2>1. rules' = Drop(rules, id) /\ UNCHANGED <<peers, groups, call>> /\ Request
    BY <1>6 DEF DeleteRule
  <2>2. RulesStored'
    BY <2>1, FS_RemoveElement DEF DirectoryInv, RulesStored, Drop
  <2> QED
    BY <1>1, <1>2, <2>1, <2>2, OthersKeep DEF DirectoryInv, GroupsStored
<1>7. CASE Stop
  <2>1. CallsCarry'
    BY <1>7 DEF Stop, CallsCarry, Idle, PeerOps
  <2> QED
    BY <1>7, <2>1 DEF Stop, DirectoryInv, DefaultForAll, PeersStored, RulesStored, GroupsStored
<1>8. CASE UNCHANGED vars
  BY <1>1, <1>8, OthersKeep DEF vars, DirectoryInv, RulesStored, GroupsStored
<1> QED
  BY <1>3, <1>4, <1>5, <1>6, <1>7, <1>8, HandlerKeeps, StartKeeps DEF Next

(* The store keeps its types, and a stored rule is valid: updateRule checks *)
(* what it read together with the request, and SaveRule may write it after  *)
(* any other change.                                                        *)
THEOREM DirectoryTyped == Spec => []TypeOK
<1>1. DirectoryInv => TypeOK
  BY DEF DirectoryInv, TypeOK, PeersStored, PeerRows, RulesStored, GroupsStored, IsRule
<1> QED
  BY <1>1, InitOK, StepKeeps, PTL DEF Spec

(* Whatever rules, groups and members the store has and whichever order it  *)
(* lists equal priorities in, iptables, the filter and the netstack router  *)
(* decide about a new flow as the rules on groups say.                      *)
THEOREM PolicyHolds == Spec => []PolicyEnforced
<1>1. DirectoryInv => PolicyEnforced
  BY PolicyFollows DEF DirectoryInv, PeersStored, RulesStored, IsMap
<1> QED
  BY <1>1, InitOK, StepKeeps, PTL DEF Spec

(* Every stored peer is in Default and Default is listed while the server   *)
(* runs: updatePeer, Login and SavePeer may overlap in any way, and New and *)
(* Seed repair a database of an earlier version.                            *)
THEOREM DefaultHolds == Spec => []DefaultForAll
<1>1. DirectoryInv => DefaultForAll
  BY DEF DirectoryInv
<1> QED
  BY <1>1, InitOK, StepKeeps, PTL DEF Spec

(* The record that Login takes for a known device has the ID, the groups,   *)
(* the name and the routes that are stored.                                 *)
THEOREM ReenrollLeaves == Spec => ReenrollKeeps
<1> DEFINE Kept(h, k) ==
      call[h] = Idle /\ call'[h].op = "login" /\ call'[h].key = k =>
            LET row == call'[h].row
            IN  <<row.id, row.groups, row.named, row.offers>>
                    = <<peers[k].id, peers[k].groups, peers[k].named, peers[k].offers>>
<1>1. DirectoryInv /\ [Next]_vars => [\A h \in Handlers, k \in DOMAIN peers : Kept(h, k)]_vars
  <2> SUFFICES ASSUME DirectoryInv, Next, NEW h \in Handlers, NEW k \in DOMAIN peers,
                      call[h] = Idle, call'[h].op = "login", call'[h].key = k
               PROVE  call'[h].row = LoginRecord(k)
    <3>1. ASSUME NEW k \in DOMAIN peers
          PROVE  LET row == LoginRecord(k)
                 IN  <<row.id, row.groups, row.named, row.offers>>
                        = <<peers[k].id, peers[k].groups, peers[k].named, peers[k].offers>>
      BY DEF LoginRecord
    <3> QED
      BY <3>1
  <2>0. call = [j \in Handlers |-> call[j]] /\ call[h].op = "idle"
    <3>1. call = [j \in Handlers |-> call[j]]
      BY DEF DirectoryInv, CallsCarry
    <3> QED
      BY <3>1 DEF Idle
  <2>1. ASSUME NEW j \in Handlers, Handler(j)
        PROVE  call'[h].row = LoginRecord(k)
    <3>1. ASSUME NEW op, NEW d, NEW row, Begin(j, op, d, row)
          PROVE  j = h /\ op = "login" /\ d = k /\ call'[h].row = row
      BY <2>0, <3>1 DEF Begin
    <3>2. ASSUME NEW d \in Devices, Login(j, d)
          PROVE  call'[h].row = LoginRecord(k)
      BY <3>1, <3>2 DEF Login
    <3>3. ~(CheckGateway(j) \/ SavePeer(j) \/ SaveGroup(j) \/ SaveRule(j))
      BY <2>0 DEF CheckGateway, SavePeer, SaveGroup, SaveRule, Idle
    <3>4. ASSUME NEW op, NEW d, NEW row, Begin(j, op, d, row), op # "login"
          PROVE  FALSE
      BY <3>1, <3>4
    <3> QED
      BY <2>1, <3>2, <3>3, <3>4 DEF Handler, PeerRequest, UpdatePeer, SetPeerRoutes,
         SetPeerExitNode, CreateGroup, UpdateRule
  <2>2. ASSUME UNCHANGED call
        PROVE  FALSE
    BY <2>0, <2>2
  <2>3. ASSUME Stop
        PROVE  FALSE
    <3>1. call'[h] = Idle
      BY <2>3 DEF Stop
    <3> QED
      BY <3>1 DEF Idle
  <2> QED
    BY <2>1, <2>2, <2>3 DEF Next, DeletePeer, DeleteGroup, DeleteRule, CreateRule, Start
<1> QED
  BY <1>1, InitOK, StepKeeps, PTL DEF Spec, ReenrollKeeps
=============================================================================

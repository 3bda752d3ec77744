----------------------------- MODULE PortsProofs -----------------------------
(***************************************************************************)
(* Proofs about the host ports: the rows of the ports page (HostPorts), the*)
(* port map (PortMap) and the create-container wizard (CreateWizard), for  *)
(* any containers, ports and addresses, and any limits.                    *)
(***************************************************************************)
EXTENDS PortMap, CreateWizard, SequencePartsProofs

(***************************************************************************)
(* The entries of a list.                                                  *)
(***************************************************************************)
EntrySet == [container : Neighbours, port : Ports, last : Ports, ip : HostIps,
             state : {"inUse", "reservedTaken", "reserved", "declaredNotPublished"}]

\* There are finitely many entries.
LEMMA FiniteEntries == IsFiniteSet(EntrySet) /\ IsFiniteSet(Ports)
<1> DEFINE States == {"inUse", "reservedTaken", "reserved", "declaredNotPublished"}
           A == Neighbours \X Ports
           B == HostIps \X States
           C == A \X B
           D == C \X Ports
           f == [t \in D |-> [container |-> t[1][1][1], port |-> t[1][1][2], last |-> t[2],
                              ip |-> t[1][2][1], state |-> t[1][2][2]]]
<1>1. IsFiniteSet(Ports)
  <2>1. PICK n \in Nat : \A p \in Ports : p \in Nat /\ 1 <= p /\ p <= n
    BY 65535 \in Nat, PortsAssumption
  <2>2. Ports \subseteq 1 .. n /\ IsFiniteSet(1 .. n)
    BY <2>1, FS_Interval
  <2> QED
    BY <2>2, FS_Subset
<1>2. IsFiniteSet(HostIps)
  <2>1. IsFiniteSet(Addresses \cup {""})
    BY AddressesAssumption, FS_AddElement
  <2>2. IsFiniteSet((Addresses \cup {""}) \cup {"::"})
    BY <2>1, FS_AddElement
  <2>3. HostIps = (Addresses \cup {""}) \cup {"::"}
    BY DEF HostIps
  <2> QED
    BY <2>2, <2>3
<1>3. IsFiniteSet(States)
  <2> DEFINE S1 == {"inUse"}
             S2 == S1 \cup {"reservedTaken"}
             S3 == S2 \cup {"reserved"}
             S4 == S3 \cup {"declaredNotPublished"}
  <2>1. IsFiniteSet(S1)
    BY FS_Singleton
  <2>2. IsFiniteSet(S2)
    <3> HIDE DEF S1
    <3> QED
      BY <2>1, FS_AddElement
  <2>3. IsFiniteSet(S3)
    <3> HIDE DEF S2
    <3> QED
      BY <2>2, FS_AddElement
  <2>4. IsFiniteSet(S4)
    <3> HIDE DEF S3
    <3> QED
      BY <2>3, FS_AddElement
  <2>5. States = S4
    OBVIOUS
  <2> HIDE DEF States, S4
  <2> QED
    BY <2>4, <2>5
<1>4. IsFiniteSet(A)
  BY <1>1, NeighboursAssumption, FS_Product
<1>5. IsFiniteSet(B)
  <2> HIDE DEF States
  <2> QED
    BY <1>2, <1>3, FS_Product
<1>6. IsFiniteSet(C)
  <2> HIDE DEF A, B
  <2> QED
    BY <1>4, <1>5, FS_Product
<1>7. IsFiniteSet(D)
  <2> HIDE DEF C
  <2> QED
    BY <1>1, <1>6, FS_Product
<1>8. f \in Surjection(D, EntrySet)
  <2>1. f \in [D -> EntrySet]
    BY DEF EntrySet
  <2>2. ASSUME NEW e \in EntrySet PROVE \E t \in D : f[t] = e
    <3> DEFINE t == <<<<<<e.container, e.port>>, <<e.ip, e.state>>>>, e.last>>
    <3>1. t \in D
      BY <2>2 DEF EntrySet
    <3>2. f[t] = [container |-> e.container, port |-> e.port, last |-> e.last, ip |-> e.ip, state |-> e.state]
      BY <3>1
    <3>3. e = [container |-> e.container, port |-> e.port, last |-> e.last, ip |-> e.ip, state |-> e.state]
      BY <2>2 DEF EntrySet
    <3> HIDE DEF t, f, D
    <3> QED
      BY <3>1, <3>2, <3>3
  <2> HIDE DEF f, D
  <2> QED
    BY <2>1, <2>2 DEF Surjection
<1> HIDE DEF f, D
<1> QED
  BY <1>1, <1>7, <1>8, FS_Surjection

\* What a listed container publishes and declares.
LEMMA ListingFields ==
    ASSUME NEW x \in Listings
    PROVE  /\ x.published \in Publications /\ x.published \subseteq Bindings
           /\ x.declared \in Declarations
           /\ x.state # "running" => x.published = {}
<1>1. {} \in Publications
  <2>1. Cardinality({}) <= 2
    BY FS_EmptySet
  <2> QED
    BY <2>1 DEF Publications, SpecificTwice
<1>2. {} \in Declarations
  BY DEF Declarations
<1>3. x.published \in Publications /\ x.declared \in Declarations /\ (x.state # "running" => x.published = {})
  BY <1>1, <1>2 DEF Listings, Absent
<1> QED
  BY <1>3 DEF Publications

\* A declaration is a range of ports for every address.
LEMMA DeclarationFields ==
    ASSUME NEW D \in Declarations, NEW d \in D
    PROVE  d.port \in Ports /\ d.last \in Ports /\ d.port <= d.last /\ d.ip = "" /\ D = {d}
BY DEF Declarations

\* What is known of the published entries.
LEMMA PublishedFields ==
    ASSUME NEW l \in [Neighbours -> Listings], NEW e \in PublishedEntries(l)
    PROVE  /\ e \in EntrySet /\ e.state = "inUse" /\ e.last = e.port
           /\ e.container \in Holding(l)
           /\ \E b \in l[e.container].published : e = Entry(e.container, b.port, b.port, b.ip, "inUse")
<1>0. PICK c \in Holding(l) : \E b \in l[c].published : e = Entry(c, b.port, b.port, b.ip, "inUse")
  BY DEF PublishedEntries
<1>1. PICK b \in l[c].published : e = Entry(c, b.port, b.port, b.ip, "inUse")
  BY <1>0
<1>2. c \in Neighbours /\ b \in Bindings
  BY <1>1, ListingFields DEF Holding, Existing
<1>3. b.port \in Ports /\ b.ip \in HostIps
  BY <1>2 DEF Bindings
<1>4. e.container = c /\ e.last = b.port /\ e.port = b.port /\ e.state = "inUse"
  BY <1>1 DEF Entry
<1>5. e \in EntrySet
  BY <1>1, <1>2, <1>3 DEF Entry, EntrySet, HostIps
<1> QED
  BY <1>1, <1>4, <1>5

\* What is known of the declared entries.
LEMMA DeclaredFields ==
    ASSUME NEW l \in [Neighbours -> Listings], NEW e \in DeclaredEntries(l)
    PROVE  /\ e \in EntrySet /\ e.state # "inUse" /\ e.port <= e.last
           /\ e.container \in Existing(l)
           /\ \E d \in l[e.container].declared :
                /\ e.port = d.port /\ e.last = d.last
                /\ ~ \E p \in PublishedEntries(l) : p.container = e.container /\ p.port = e.port
<1> DEFINE IsPublished(c, b) == \E p \in PublishedEntries(l) :
                p.container = c /\ p.port = b.port /\ HostBindingsOverlap(p.ip, b.ip)
           State(c, b) == CASE c \in Holding(l) -> "declaredNotPublished"
                         [] c \notin Holding(l) /\ TakenByOther(l, c, b) -> "reservedTaken"
                         [] OTHER -> "reserved"
<1>0. PICK c \in Existing(l) : \E d \in l[c].declared :
         ~ IsPublished(c, d) /\ e = Entry(c, d.port, d.last, d.ip, State(c, d))
  BY DEF DeclaredEntries
<1>1. PICK d \in l[c].declared :
         ~ IsPublished(c, d) /\ e = Entry(c, d.port, d.last, d.ip, State(c, d))
  BY <1>0
<1>2. c \in Neighbours /\ d.port \in Ports /\ d.last \in Ports /\ d.ip = "" /\ d.port <= d.last
  BY <1>1, ListingFields, DeclarationFields DEF Existing
<1>3. State(c, d) \in {"reservedTaken", "reserved", "declaredNotPublished"}
  OBVIOUS
<1>4. ~ \E p \in PublishedEntries(l) : p.container = c /\ p.port = d.port
  BY <1>1, <1>2 DEF HostBindingsOverlap, IsWildcardAddress
<1> HIDE DEF State, IsPublished
<1>5. e.container = c /\ e.last = d.last /\ e.port = d.port /\ e.state = State(c, d)
  BY <1>1 DEF Entry
<1>6. e \in EntrySet
  BY <1>1, <1>2, <1>3 DEF Entry, EntrySet, HostIps
<1> QED
  BY <1>1, <1>2, <1>3, <1>4, <1>5, <1>6

\* The list of the entries holds each entry once.
LEMMA EntriesForElements ==
    ASSUME NEW l \in [Neighbours -> Listings]
    PROVE  /\ EntriesFor(l) \in Seq(EntrySet)
           /\ ToSet(EntriesFor(l)) = PublishedEntries(l) \cup DeclaredEntries(l)
           /\ IsInjective(EntriesFor(l))
<1> DEFINE E == PublishedEntries(l) \cup DeclaredEntries(l)
           V == Seq(E)
           found == SetToSeq(E)
           L == Len(found)
           Before(d, e) == d.port < e.port \/ (d.port = e.port /\ Rank[d.container] < Rank[e.container])
           Put(n, s) == InsertAt(s, 1 + Cardinality({i \in DOMAIN s : ~ Before(found[n], s[i])}), found[n])
           g == [n \in 1 .. L |-> [s \in V |-> Put(n, s)]]
           Def(f) == f = [n \in 0 .. L |-> IF n = 0 THEN <<>> ELSE Put(n, f[n - 1])]
<1>1. E \subseteq EntrySet
  BY PublishedFields, DeclaredFields
<1>2. found \in V /\ ToSet(found) = E /\ IsInjective(found)
  <2>1. IsFiniteSet(E)
    BY <1>1, FiniteEntries, FS_Subset
  <2> HIDE DEF E
  <2> QED
    BY <2>1, SetToSeqElements
<1>3. L \in Nat /\ DOMAIN found = 1 .. L /\ \A n \in 1 .. L : found[n] \in E
  <2> HIDE DEF E, found
  <2> QED
    BY <1>2
<1>4. ASSUME NEW n \in 1 .. L, NEW s \in V
      PROVE  /\ Put(n, s) \in V
             /\ ToSet(Put(n, s)) = ToSet(s) \cup {found[n]}
             /\ IsInjective(s) /\ found[n] \notin ToSet(s) => IsInjective(Put(n, s))
  <2> DEFINE after == {i \in DOMAIN s : ~ Before(found[n], s[i])}
             place == 1 + Cardinality(after)
  <2>1. Len(s) \in Nat /\ DOMAIN s = 1 .. Len(s)
    BY <1>4
  <2>2. after \subseteq 1 .. Len(s) /\ IsFiniteSet(1 .. Len(s)) /\ Cardinality(1 .. Len(s)) = Len(s)
    <3>1. after \subseteq 1 .. Len(s)
      <4> HIDE DEF Before
      <4> QED
        BY <2>1
    <3>2. IsFiniteSet(1 .. Len(s)) /\ Cardinality(1 .. Len(s)) = Len(s)
      <4>1. \A m \in Nat : IsFiniteSet(1 .. m) /\ Cardinality(1 .. m) = m
        BY FS_Interval
      <4> QED
        BY <2>1, <4>1
    <3> QED
      BY <3>1, <3>2
  <2>3. Cardinality(after) \in Nat /\ Cardinality(after) <= Len(s)
    <3> HIDE DEF after
    <3> QED
      BY <2>2, FS_Subset, FS_CardinalityType
  <2>4. place \in 1 .. Len(s) + 1
    <3> HIDE DEF after
    <3> QED
      BY <2>1, <2>3
  <2>5. Put(n, s) = InsertAt(s, place, found[n])
    OBVIOUS
  <2>6. found[n] \in E /\ s \in Seq(E)
    BY <1>3, <1>4
  <2> HIDE DEF place, Put, E, found, L
  <2> QED
    BY <2>4, <2>5, <2>6, InsertAtShape, InsertAtElements
<1> HIDE DEF Before, found, E, Put
<1>5. g \in [1 .. L -> [V -> V]]
  <2> HIDE DEF V, L
  <2> QED
    BY <1>4
<1>6. PICK e \in [0 .. L -> V] : e[0] = <<>> /\ \A n \in 1 .. L : e[n] = g[n][e[n - 1]]
  <2> DEFINE empty == <<>>
  <2>1. empty \in V /\ L \in Nat
    BY <1>3
  <2>2. \E e : Recursion(e, V, empty, L, g)
    <3> HIDE DEF g, V, L, empty
    <3> QED
      BY <1>5, <2>1, RecursionExists
  <2> HIDE DEF g, V, L
  <2> QED
    BY <2>2 DEF Recursion
<1>7. \E h : Def(h)
  <2>1. \A n \in 1 .. L : n - 1 \in 0 .. L /\ n # 0 /\ n \in 0 .. L
    BY <1>3
  <2>2. \A n \in 1 .. L : e[n] = Put(n, e[n - 1])
    <3> HIDE DEF V, L
    <3> QED
      BY <1>6, <2>1
  <2>3. \A n \in 0 .. L : n = 0 \/ n \in 1 .. L
    BY <1>3
  <2>4. ASSUME NEW n \in 0 .. L PROVE e[n] = IF n = 0 THEN <<>> ELSE Put(n, e[n - 1])
    <3> HIDE DEF V, L, g
    <3> QED
      BY <1>6, <2>2, <2>3
  <2> HIDE DEF V, L, g
  <2> QED
    BY <1>6, <2>4
<1> DEFINE f == CHOOSE f : Def(f)
<1>8. Def(f)
  <2> HIDE DEF Def
  <2> QED
    BY <1>7
<1>9. EntriesFor(l) = f[L]
  BY DEF EntriesFor, found, E, Put, Before
<1> HIDE DEF f
<1>10. f[0] = <<>> /\ \A n \in 1 .. L : f[n] = Put(n, f[n - 1])
  <2>1. 0 \in 0 .. L /\ \A n \in 1 .. L : n \in 0 .. L /\ n # 0
    BY <1>3
  <2> HIDE DEF L
  <2> QED
    BY <1>8, <2>1
<1> DEFINE Heads(n) == {found[i] : i \in 1 .. n}
           Sorted(n) == f[n] \in V /\ IsInjective(f[n]) /\ ToSet(f[n]) = Heads(n)
           G == {n \in Nat : n <= L => Sorted(n)}
<1>11. 0 \in G
  <2>1. <<>> \in V /\ IsInjective(<<>>) /\ ToSet(<<>>) = {}
    BY DEF IsInjective, ToSet
  <2>2. Heads(0) = {}
    OBVIOUS
  <2>3. Sorted(0)
    <3> HIDE DEF Heads, V
    <3> QED
      BY <1>10, <2>1, <2>2
  <2> HIDE DEF Sorted, L
  <2> QED
    BY <2>3, Zenon
<1>12. ASSUME NEW n \in Nat, n \in G PROVE n + 1 \in G
  <2> SUFFICES ASSUME n + 1 <= L
               PROVE  f[n + 1] \in V /\ IsInjective(f[n + 1]) /\ ToSet(f[n + 1]) = Heads(n + 1)
    OBVIOUS
  <2>1. n + 1 \in 1 .. L /\ (n + 1) - 1 = n /\ f[n] \in V /\ IsInjective(f[n]) /\ ToSet(f[n]) = Heads(n)
    <3>1. n + 1 \in 1 .. L /\ (n + 1) - 1 = n /\ n <= L
      BY <1>3
    <3>2. Sorted(n)
      <4> HIDE DEF Sorted, L
      <4> QED
        BY <1>12, <3>1
    <3> HIDE DEF V, L, Heads
    <3> QED
      BY <3>1, <3>2
  <2>2. f[n + 1] = Put(n + 1, f[n])
    <3> HIDE DEF L, V, Heads
    <3> QED
      BY <1>10, <2>1
  <2>3. found[n + 1] \notin Heads(n)
    <3>1. ASSUME NEW i \in 1 .. n PROVE found[i] # found[n + 1]
      <4>1. i \in 1 .. L /\ i # n + 1
        BY <1>3, <2>1
      <4> HIDE DEF L
      <4> QED
        BY <1>2, <1>3, <2>1, <4>1 DEF IsInjective
    <3> QED
      BY <3>1
  <2>4. Heads(n + 1) = Heads(n) \cup {found[n + 1]}
    <3>1. 1 .. n + 1 = (1 .. n) \cup {n + 1}
      OBVIOUS
    <3> QED
      BY <3>1
  <2> HIDE DEF L, V, Heads
  <2> QED
    BY <1>4, <2>1, <2>2, <2>3, <2>4
<1>13. L \in G
  <2> HIDE DEF G
  <2> QED
    BY <1>3, <1>11, <1>12, NatSetInduction
<1>14. f[L] \in V /\ IsInjective(f[L]) /\ ToSet(f[L]) = E
  <2>1. Heads(L) = ToSet(found)
    BY <1>3 DEF ToSet
  <2> HIDE DEF Heads, V
  <2> QED
    BY <1>2, <1>3, <1>13, <2>1
<1>15. f[L] \in Seq(EntrySet)
  BY <1>1, <1>14
<1> QED
  BY <1>9, <1>14, <1>15 DEF E

\* No two entries of a list have the same key, if a container publishes a port on one
\* specific address at most.
LEMMA EntriesHaveOwnKeys ==
    ASSUME OneAddress, NEW l \in [Neighbours -> Listings],
           NEW d \in PublishedEntries(l) \cup DeclaredEntries(l),
           NEW e \in PublishedEntries(l) \cup DeclaredEntries(l),
           KeyFor(d) = KeyFor(e)
    PROVE  d = e
<1>1. d.port = e.port /\ d.container = e.container /\ d.last = e.last
  BY DEF KeyFor
<1>2. CASE d \in PublishedEntries(l) /\ e \in PublishedEntries(l)
  <2> DEFINE c == d.container
  <2>1. PICK b \in l[c].published : d = Entry(c, b.port, b.port, b.ip, "inUse")
    BY <1>2, PublishedFields
  <2>2. PICK b2 \in l[c].published : e = Entry(c, b2.port, b2.port, b2.ip, "inUse")
    BY <1>1, <1>2, PublishedFields
  <2>3. l[c] \in Listings
    BY <1>2, PublishedFields DEF Holding, Existing
  <2>4. b.port = b2.port
    <3>1. d.port = b.port
      <4> HIDE DEF c
      <4> QED
        BY <2>1 DEF Entry
    <3>2. e.port = b2.port
      BY <2>2 DEF Entry
    <3> QED
      BY <1>1, <3>1, <3>2
  <2>5. b = b2 \/ {b.ip, b2.ip} = {"", "::"}
    <3>1. l[c].published \in Publications
      BY <2>3, ListingFields
    <3>2. ~ SpecificTwice(l[c].published) /\ (b # b2 => {b.ip, b2.ip} = {"", "::"} \/ SpecificTwice({b, b2}))
      <4> HIDE DEF c
      <4> QED
        BY <2>4, <3>1 DEF Publications
    <3>3. SpecificTwice({b, b2}) => SpecificTwice(l[c].published)
      <4> HIDE DEF c
      <4> QED
        BY DEF SpecificTwice
    <3> QED
      BY <3>2, <3>3
  <2> HIDE DEF c
  <2> QED
    BY <2>1, <2>2, <2>4, <2>5 DEF Entry, IsWildcardAddress
<1>3. CASE d \in DeclaredEntries(l) /\ e \in PublishedEntries(l)
  BY <1>1, <1>3, DeclaredFields
<1>4. CASE d \in PublishedEntries(l) /\ e \in DeclaredEntries(l)
  BY <1>1, <1>4, DeclaredFields
<1>5. CASE d \in DeclaredEntries(l) /\ e \in DeclaredEntries(l)
  <2> DEFINE State(c, b) == CASE c \in Holding(l) -> "declaredNotPublished"
                         [] c \notin Holding(l) /\ TakenByOther(l, c, b) -> "reservedTaken"
                         [] OTHER -> "reserved"
             Shape(x) == \E c \in Existing(l) : \E b \in l[c].declared :
                             x = Entry(c, b.port, b.last, b.ip, State(c, b))
  <2>1. Shape(d) /\ Shape(e)
    BY <1>5 DEF DeclaredEntries
  <2> HIDE DEF State
  <2>2. PICK c \in Existing(l) : \E b \in l[c].declared : d = Entry(c, b.port, b.last, b.ip, State(c, b))
    BY <2>1
  <2>3. PICK b \in l[c].declared : d = Entry(c, b.port, b.last, b.ip, State(c, b))
    BY <2>2
  <2>4. PICK c2 \in Existing(l) : \E x \in l[c2].declared : e = Entry(c2, x.port, x.last, x.ip, State(c2, x))
    BY <2>1
  <2>5. PICK b2 \in l[c2].declared : e = Entry(c2, b2.port, b2.last, b2.ip, State(c2, b2))
    BY <2>4
  <2>6. c = c2
    BY <1>1, <2>3, <2>5 DEF Entry
  <2>7. l[c] \in Listings
    BY DEF Existing
  <2>8. b = b2
    <3>1. l[c].declared \in Declarations
      BY <2>7, ListingFields
    <3>2. l[c].declared = {b}
      BY <3>1, DeclarationFields
    <3> QED
      BY <2>6, <3>2
  <2> QED
    BY <2>3, <2>5, <2>6, <2>8
<1> QED
  BY <1>2, <1>3, <1>4, <1>5

(***************************************************************************)
(* The synchronisation of rows by key.  After position i is placed, the    *)
(* rows up to i have the keys of the incoming ones, and every row has a    *)
(* key of its own which is one of the incoming ones.                       *)
(***************************************************************************)
OwnKeys(s) == \A j, k \in 1 .. Len(s) : KeyFor(s[j]) = KeyFor(s[k]) => j = k
KnownKeys(s, incoming) ==
    \A j \in 1 .. Len(s) : \E k \in 1 .. Len(incoming) : KeyFor(s[j]) = KeyFor(incoming[k])
PlacedUpTo(i, s, incoming) ==
    /\ OwnKeys(s)
    /\ KnownKeys(s, incoming)
    /\ i <= Len(s)
    /\ \A k \in 1 .. i : KeyFor(s[k]) = KeyFor(incoming[k])

\* IndexOf finds the place of a key that is there.
LEMMA IndexOfKey ==
    ASSUME NEW S, NEW s \in Seq(S), NEW key
    PROVE  \/ /\ IndexOf(KeysOf(s), key) = 0
              /\ \A k \in 1 .. Len(s) : KeyFor(s[k]) # key
           \/ /\ IndexOf(KeysOf(s), key) \in 1 .. Len(s)
              /\ KeyFor(s[IndexOf(KeysOf(s), key)]) = key
<1> DEFINE keys == KeysOf(s)
           I == {i \in DOMAIN keys : keys[i] = key}
<1>1. DOMAIN keys = 1 .. Len(s) /\ Len(s) \in Nat /\ \A i \in 1 .. Len(s) : keys[i] = KeyFor(s[i])
  BY DEF KeysOf
<1>2. key \in ToSet(keys) <=> I # {}
  BY DEF ToSet
<1>3. CASE I = {}
  BY <1>1, <1>2, <1>3 DEF IndexOf
<1>4. CASE I # {}
  <2>1. I \in SUBSET Nat
    BY <1>1
  <2>2. Min(I) \in I
    <3> HIDE DEF I
    <3> QED
      BY <1>4, <2>1, FirstPlace
  <2>3. IndexOf(keys, key) = Min(I)
    BY <1>2, <1>4 DEF IndexOf
  <2> QED
    BY <1>1, <2>2, <2>3
<1> QED
  BY <1>3, <1>4

\* A row whose key is missing is inserted.
LEMMA InsertedRow ==
    ASSUME NEW S, NEW s \in Seq(S), NEW incoming \in Seq(S), OwnKeys(incoming),
           NEW i \in 1 .. Len(incoming), PlacedUpTo(i - 1, s, incoming),
           \A k \in 1 .. Len(s) : KeyFor(s[k]) # KeyFor(incoming[i])
    PROVE  LET t == InsertAt(s, i, incoming[i]) IN t \in Seq(S) /\ PlacedUpTo(i, t, incoming)
<1> DEFINE x == incoming[i]
           t == InsertAt(s, i, x)
<1>1. /\ i \in Nat /\ i >= 1 /\ i <= Len(incoming) /\ Len(incoming) \in Nat
      /\ Len(s) \in Nat /\ i - 1 <= Len(s) /\ x \in S
  BY DEF PlacedUpTo
<1>2. i \in 1 .. Len(s) + 1
  BY <1>1
<1> HIDE DEF x
<1>3. /\ t \in Seq(S) /\ Len(t) = Len(s) + 1
      /\ \A k \in 1 .. Len(s) + 1 : t[k] = IF k < i THEN s[k] ELSE IF k = i THEN x ELSE s[k - 1]
  BY <1>1, <1>2, InsertAtShape
<1> HIDE DEF t
<1> DEFINE from(k) == IF k < i THEN k ELSE k - 1
<1>4. \A k \in 1 .. Len(t) : k = i \/ (from(k) \in 1 .. Len(s) /\ t[k] = s[from(k)])
  BY <1>1, <1>3
<1>5. t[i] = x
  BY <1>1, <1>2, <1>3
<1>6. \A j, k \in 1 .. Len(t) : j # i /\ k # i /\ from(j) = from(k) => j = k
  BY <1>1, <1>3
<1> HIDE DEF from
<1>7. OwnKeys(t)
  <2> SUFFICES ASSUME NEW j \in 1 .. Len(t), NEW k \in 1 .. Len(t), KeyFor(t[j]) = KeyFor(t[k])
               PROVE  j = k
    BY DEF OwnKeys
  <2>1. CASE j = i /\ k # i
    BY <1>4, <1>5, <2>1 DEF x
  <2>2. CASE j # i /\ k = i
    BY <1>4, <1>5, <2>2 DEF x
  <2>3. CASE j # i /\ k # i
    <3>1. from(j) = from(k)
      BY <1>4, <2>3 DEF PlacedUpTo, OwnKeys
    <3> QED
      BY <1>6, <2>3, <3>1
  <2> QED
    BY <2>1, <2>2, <2>3
<1>8. KnownKeys(t, incoming)
  <2> SUFFICES ASSUME NEW j \in 1 .. Len(t)
               PROVE  \E k \in 1 .. Len(incoming) : KeyFor(t[j]) = KeyFor(incoming[k])
    BY DEF KnownKeys
  <2>1. CASE j = i
    BY <1>5, <2>1 DEF x
  <2>2. CASE j # i
    BY <1>4, <2>2 DEF PlacedUpTo, KnownKeys
  <2> QED
    BY <2>1, <2>2
<1>9. ASSUME NEW k \in 1 .. i PROVE KeyFor(t[k]) = KeyFor(incoming[k])
  <2>1. CASE k = i
    BY <1>5, <2>1 DEF x
  <2>2. CASE k < i
    <3>1. k \in 1 .. i - 1 /\ t[k] = s[k]
      BY <1>1, <1>3, <2>2
    <3> QED
      BY <3>1 DEF PlacedUpTo
  <2>3. k = i \/ k < i
    BY <1>1
  <2> QED
    BY <2>1, <2>2, <2>3
<1>10. i <= Len(t)
  BY <1>1, <1>3
<1>11. PlacedUpTo(i, t, incoming)
  BY <1>7, <1>8, <1>9, <1>10 DEF PlacedUpTo
<1> QED
  BY <1>3, <1>11 DEF t, x

\* A row that stands further down is moved.
LEMMA MovedRow ==
    ASSUME NEW S, NEW s \in Seq(S), NEW incoming \in Seq(S), OwnKeys(incoming),
           NEW i \in 1 .. Len(incoming), PlacedUpTo(i - 1, s, incoming),
           NEW from \in 1 .. Len(s), from # i, KeyFor(s[from]) = KeyFor(incoming[i])
    PROVE  MoveRow(s, from, i) \in Seq(S) /\ PlacedUpTo(i, MoveRow(s, from, i), incoming)
<1> DEFINE o == RemoveAt(s, from)
           t == InsertAt(o, i, s[from])
           p(k) == IF k < i THEN k ELSE IF k = i THEN from ELSE IF k <= from THEN k - 1 ELSE k
<1>1. /\ i \in Nat /\ i >= 1 /\ i <= Len(incoming) /\ Len(incoming) \in Nat
      /\ Len(s) \in Nat /\ i - 1 <= Len(s) /\ from \in Nat /\ from <= Len(s)
  BY DEF PlacedUpTo
<1>2. i < from
  <2> SUFFICES ASSUME from < i PROVE FALSE
    BY <1>1
  <2>1. from \in 1 .. i - 1 /\ from \in 1 .. Len(incoming)
    BY <1>1
  <2>2. KeyFor(s[from]) = KeyFor(incoming[from])
    BY <2>1 DEF PlacedUpTo
  <2> QED
    BY <2>1, <2>2 DEF OwnKeys
<1>3. MoveRow(s, from, i) = t
  BY <1>1, <1>2 DEF MoveRow
<1>4. /\ o \in Seq(S) /\ Len(o) = Len(s) - 1
      /\ \A k \in 1 .. Len(s) - 1 : o[k] = IF k < from THEN s[k] ELSE s[k + 1]
  BY RemoveAtShape
<1> HIDE DEF o
<1>5. i \in 1 .. Len(o) + 1 /\ s[from] \in S /\ Len(o) + 1 = Len(s)
  BY <1>1, <1>2, <1>4
<1>6. /\ t \in Seq(S) /\ Len(t) = Len(s)
      /\ \A k \in 1 .. Len(s) : t[k] = IF k < i THEN o[k] ELSE IF k = i THEN s[from] ELSE o[k - 1]
  <2>1. /\ t \in Seq(S) /\ Len(t) = Len(o) + 1
        /\ \A k \in 1 .. Len(o) + 1 : t[k] = IF k < i THEN o[k] ELSE IF k = i THEN s[from] ELSE o[k - 1]
    <3> DEFINE x == s[from]
             u == InsertAt(o, i, x)
    <3>1. x \in S /\ o \in Seq(S) /\ i \in 1 .. Len(o) + 1
      BY <1>4, <1>5
    <3> HIDE DEF x
    <3>2. /\ u \in Seq(S) /\ Len(u) = Len(o) + 1
          /\ \A k \in 1 .. Len(o) + 1 : u[k] = IF k < i THEN o[k] ELSE IF k = i THEN x ELSE o[k - 1]
      BY <3>1, InsertAtShape
    <3> HIDE DEF u
    <3> QED
      BY <3>2 DEF u, x
  <2> HIDE DEF t
  <2> QED
    BY <1>5, <2>1
<1> HIDE DEF t
<1>7. ASSUME NEW k \in 1 .. Len(s) PROVE p(k) \in 1 .. Len(s) /\ t[k] = s[p(k)]
  <2>1. CASE k < i
    <3>1. k \in 1 .. Len(s) - 1 /\ k < from
      BY <1>1, <1>2, <2>1
    <3>2. o[k] = s[k] /\ t[k] = o[k]
      BY <1>4, <1>6, <2>1, <3>1
    <3> QED
      BY <2>1, <3>2
  <2>2. CASE k = i
    BY <1>1, <1>2, <1>6, <2>2
  <2>3. CASE k > i /\ k <= from
    <3>1. k - 1 \in 1 .. Len(s) - 1 /\ k - 1 < from
      BY <1>1, <2>3
    <3> QED
      BY <1>1, <1>4, <1>6, <2>3, <3>1
  <2>4. CASE k > i /\ k > from
    <3>1. k - 1 \in 1 .. Len(s) - 1 /\ ~ (k - 1 < from) /\ (k - 1) + 1 = k
      BY <1>1, <1>2, <2>4
    <3> QED
      BY <1>1, <1>2, <1>4, <1>6, <2>4, <3>1
  <2>5. k < i \/ k = i \/ (k > i /\ k <= from) \/ (k > i /\ k > from)
    BY <1>1
  <2> QED
    BY <2>1, <2>2, <2>3, <2>4, <2>5
<1>8. \A j, k \in 1 .. Len(s) : p(j) = p(k) => j = k
  BY <1>1, <1>2
<1>9. \A k \in 1 .. i - 1 : k \in 1 .. Len(s) /\ p(k) = k
  BY <1>1
<1>10. p(i) = from /\ i \in 1 .. Len(s)
  BY <1>1, <1>2
<1> HIDE DEF p
<1>11. OwnKeys(t)
  <2> SUFFICES ASSUME NEW j \in 1 .. Len(s), NEW k \in 1 .. Len(s), KeyFor(t[j]) = KeyFor(t[k])
               PROVE  j = k
    BY <1>6 DEF OwnKeys
  <2>1. p(j) = p(k)
    BY <1>7 DEF PlacedUpTo, OwnKeys
  <2> QED
    BY <1>8, <2>1
<1>12. KnownKeys(t, incoming)
  BY <1>6, <1>7 DEF PlacedUpTo, KnownKeys
<1>13. ASSUME NEW k \in 1 .. i PROVE KeyFor(t[k]) = KeyFor(incoming[k])
  <2>1. CASE k = i
    BY <1>7, <1>10, <2>1
  <2>2. CASE k \in 1 .. i - 1
    BY <1>7, <1>9, <2>2 DEF PlacedUpTo
  <2>3. k = i \/ k \in 1 .. i - 1
    BY <1>1
  <2> QED
    BY <2>1, <2>2, <2>3
<1>14. PlacedUpTo(i, t, incoming)
  BY <1>1, <1>6, <1>10, <1>11, <1>12, <1>13 DEF PlacedUpTo
<1> QED
  BY <1>3, <1>6, <1>14

\* One step of the plan.
LEMMA PlacedRow ==
    ASSUME NEW S, NEW s \in Seq(S), NEW incoming \in Seq(S), OwnKeys(incoming),
           NEW i \in 1 .. Len(incoming), PlacedUpTo(i - 1, s, incoming)
    PROVE  PlaceRow(s, incoming, i) \in Seq(S) /\ PlacedUpTo(i, PlaceRow(s, incoming, i), incoming)
<1> DEFINE key == KeyFor(incoming[i])
           from == IndexOf(KeysOf(s), key)
<1>0. i # 0 /\ i \in Nat
  OBVIOUS
<1>1. CASE from = 0 /\ \A k \in 1 .. Len(s) : KeyFor(s[k]) # key
  <2>1. PlaceRow(s, incoming, i) = InsertAt(s, i, incoming[i])
    <3> HIDE DEF key
    <3> QED
      BY <1>1 DEF PlaceRow, key
  <2> QED
    BY <1>1, <2>1, InsertedRow
<1>2. CASE from \in 1 .. Len(s) /\ KeyFor(s[from]) = key /\ from = i
  <2>1. PlaceRow(s, incoming, i) = s
    BY <1>0, <1>2 DEF PlaceRow
  <2>2. \A k \in 1 .. i : k = i \/ k \in 1 .. i - 1
    OBVIOUS
  <2>3. \A k \in 1 .. i : KeyFor(s[k]) = KeyFor(incoming[k])
    <3> HIDE DEF from
    <3> QED
      BY <1>2, <2>2 DEF PlacedUpTo
  <2>4. i <= Len(s)
    <3> HIDE DEF from
    <3> QED
      BY <1>2
  <2> QED
    BY <2>1, <2>3, <2>4 DEF PlacedUpTo
<1>3. CASE from \in 1 .. Len(s) /\ KeyFor(s[from]) = key /\ from # i
  <2>1. PlaceRow(s, incoming, i) = MoveRow(s, from, i)
    <3>1. from # 0
      <4> HIDE DEF from
      <4> QED
        BY <1>3
    <3> QED
      BY <1>3, <3>1 DEF PlaceRow
  <2> HIDE DEF from
  <2> QED
    BY <1>3, <2>1, MovedRow
<1> QED
  <2> HIDE DEF key
  <2>1. \/ from = 0 /\ \A k \in 1 .. Len(s) : KeyFor(s[k]) # key
        \/ from \in 1 .. Len(s) /\ KeyFor(s[from]) = key
    BY IndexOfKey
  <2> HIDE DEF from
  <2> QED
    BY <1>1, <1>2, <1>3, <2>1

\* What row_sync_plan.h promises of the plan: the rows become the incoming ones.
LEMMA SyncShowsIncoming ==
    ASSUME NEW S, NEW current \in Seq(S), NEW incoming \in Seq(S),
           OwnKeys(current), OwnKeys(incoming)
    PROVE  SyncRows(current, incoming) = incoming
<1> DEFINE L == Len(incoming)
           kept == Kept(current, incoming)
           V == Seq(S)
           g == [n \in 1 .. L |-> [s \in V |-> IF PlacedUpTo(n - 1, s, incoming)
                                               THEN PlaceRow(s, incoming, n) ELSE s]]
           Def(f) == f = [i \in 0 .. L |-> IF i = 0 THEN kept ELSE PlaceRow(f[i - 1], incoming, i)]
           Steps(f) == /\ f[0] = kept
                       /\ \A i \in 1 .. L : PlacedUpTo(i - 1, f[i - 1], incoming) /\ f[i - 1] \in V =>
                                               f[i] = PlaceRow(f[i - 1], incoming, i)
<1>1. L \in Nat
  OBVIOUS
<1>2. kept \in V /\ PlacedUpTo(0, kept, incoming)
  <2> DEFINE positions == {i \in DOMAIN current : ~ Gone(current, incoming, i)}
  <2>1. kept = Picked(current, positions)
    BY DEF Kept
  <2> HIDE DEF positions
  <2> DEFINE picked == Picked(current, positions)
  <2>2. picked \in Seq(S)
    BY PickedShape
  <2>3. PICK e \in [1 .. Len(picked) -> positions \cap DOMAIN current] :
          /\ \A j, k \in 1 .. Len(picked) : j < k => e[j] < e[k]
          /\ \A k \in 1 .. Len(picked) : picked[k] = current[e[k]]
    <3> HIDE DEF picked
    <3> QED
      BY PickedShape DEF picked
  <2> HIDE DEF picked, kept
  <2>4. kept = picked /\ kept \in Seq(S)
    BY <2>1, <2>2 DEF picked
  <2>5. /\ Len(kept) \in Nat /\ DOMAIN current = 1 .. Len(current)
        /\ \A k \in 1 .. Len(kept) : e[k] \in positions /\ e[k] \in 1 .. Len(current)
    <3>1. Len(kept) \in Nat /\ DOMAIN current = 1 .. Len(current)
      BY <2>4
    <3>2. \A k \in 1 .. Len(picked) : e[k] \in positions \cap DOMAIN current
      BY <2>3
    <3> QED
      BY <2>4, <3>1, <3>2
  <2>6. OwnKeys(kept)
    <3> SUFFICES ASSUME NEW j \in 1 .. Len(kept), NEW k \in 1 .. Len(kept),
                        KeyFor(kept[j]) = KeyFor(kept[k])
                 PROVE  j = k
      BY DEF OwnKeys
    <3>1. e[j] = e[k]
      BY <2>3, <2>4, <2>5 DEF OwnKeys
    <3>2. ~ (j < k) /\ ~ (k < j)
      <4>1. j < k => e[j] < e[k]
        BY <2>3, <2>4
      <4>2. k < j => e[k] < e[j]
        BY <2>3, <2>4
      <4>3. e[j] \in Nat /\ e[k] \in Nat
        BY <2>5
      <4> QED
        BY <3>1, <4>1, <4>2, <4>3
    <3> QED
      BY <2>5, <3>2
  <2>7. KnownKeys(kept, incoming)
    <3> SUFFICES ASSUME NEW j \in 1 .. Len(kept)
                 PROVE  \E k \in 1 .. Len(incoming) : KeyFor(kept[j]) = KeyFor(incoming[k])
      BY DEF KnownKeys
    <3>1. ~ Gone(current, incoming, e[j])
      BY <2>5 DEF positions
    <3>2. KeyFor(current[e[j]]) \in ToSet(KeysOf(incoming))
      BY <3>1 DEF Gone
    <3>3. DOMAIN incoming = 1 .. Len(incoming)
      OBVIOUS
    <3> QED
      BY <2>3, <2>4, <3>2, <3>3 DEF ToSet, KeysOf
  <2> QED
    BY <2>4, <2>5, <2>6, <2>7 DEF PlacedUpTo
<1> HIDE DEF kept
<1>3. ASSUME NEW f, Steps(f) PROVE \A n \in 0 .. L : f[n] \in V /\ PlacedUpTo(n, f[n], incoming)
  <2> DEFINE G == {n \in Nat : n <= L => f[n] \in V /\ PlacedUpTo(n, f[n], incoming)}
  <2>1. 0 \in G
    <3> HIDE DEF V
    <3> QED
      BY <1>2, <1>3
  <2>2. ASSUME NEW n \in Nat, n \in G PROVE n + 1 \in G
    <3> SUFFICES ASSUME n + 1 <= L PROVE f[n + 1] \in V /\ PlacedUpTo(n + 1, f[n + 1], incoming)
      OBVIOUS
    <3> DEFINE m == n + 1
    <3>1. m \in 1 .. L /\ m - 1 = n /\ n <= L
      BY <1>1
    <3>2. f[n] \in V /\ PlacedUpTo(n, f[n], incoming)
      BY <2>2, <3>1
    <3> HIDE DEF m
    <3>3. f[m - 1] \in V /\ PlacedUpTo(m - 1, f[m - 1], incoming)
      BY <3>1, <3>2
    <3>4. f[m] = PlaceRow(f[m - 1], incoming, m)
      <4> HIDE DEF V, L
      <4> QED
        BY <1>3, <3>1, <3>3
    <3>5. PlaceRow(f[m - 1], incoming, m) \in V /\ PlacedUpTo(m, PlaceRow(f[m - 1], incoming, m), incoming)
      BY <3>1, <3>3, PlacedRow
    <3>6. f[m] \in V /\ PlacedUpTo(m, f[m], incoming)
      BY <3>4, <3>5
    <3> QED
      BY <3>6 DEF m
  <2>3. \A n \in Nat : n \in G
    <3> HIDE DEF G
    <3> QED
      BY <2>1, <2>2, NatSetInduction
  <2>4. \A n \in 0 .. L : n \in Nat /\ n <= L
    BY <1>1
  <2> QED
    BY <2>3, <2>4
<1>4. g \in [1 .. L -> [V -> V]]
  <2>1. ASSUME NEW n \in 1 .. L, NEW s \in V, PlacedUpTo(n - 1, s, incoming)
        PROVE  PlaceRow(s, incoming, n) \in V
    BY <2>1, PlacedRow
  <2> HIDE DEF V, L
  <2> QED
    BY <2>1
<1>5. PICK e \in [0 .. L -> V] : e[0] = kept /\ \A n \in 1 .. L : e[n] = g[n][e[n - 1]]
  <2>1. \E e : Recursion(e, V, kept, L, g)
    <3> HIDE DEF g, V, L
    <3> QED
      BY <1>1, <1>2, <1>4, RecursionExists
  <2> HIDE DEF g, V, L
  <2> QED
    BY <2>1 DEF Recursion
<1>6. \A n \in 1 .. L : n - 1 \in 0 .. L /\ n # 0 /\ n \in 0 .. L
  BY <1>1
<1>7. \A n \in 1 .. L : e[n] = IF PlacedUpTo(n - 1, e[n - 1], incoming)
                               THEN PlaceRow(e[n - 1], incoming, n) ELSE e[n - 1]
  <2> HIDE DEF V, L
  <2> QED
    BY <1>5, <1>6
<1>8. Steps(e)
  <2> HIDE DEF V, L, g
  <2> QED
    BY <1>5, <1>7
<1> HIDE DEF g
<1>9. \A n \in 0 .. L : PlacedUpTo(n, e[n], incoming)
  <2> HIDE DEF Steps, V, L
  <2> QED
    BY <1>3, <1>8
<1>10. \E f : Def(f)
  <2>1. \A n \in 1 .. L : e[n] = PlaceRow(e[n - 1], incoming, n)
    <3> HIDE DEF L
    <3> QED
      BY <1>6, <1>7, <1>9
  <2>2. \A n \in 0 .. L : n = 0 \/ n \in 1 .. L
    BY <1>1
  <2>3. ASSUME NEW n \in 0 .. L PROVE e[n] = IF n = 0 THEN kept ELSE PlaceRow(e[n - 1], incoming, n)
    <3> HIDE DEF V, L
    <3> QED
      BY <1>5, <2>1, <2>2
  <2> HIDE DEF V, L
  <2> QED
    BY <1>5, <2>3
<1> DEFINE f == CHOOSE f : Def(f)
<1>11. Def(f)
  <2> HIDE DEF Def
  <2> QED
    BY <1>10
<1>12. PlaceRows(kept, incoming) = f[L]
  BY DEF PlaceRows
<1> HIDE DEF f
<1>13. Steps(f)
  <2>1. 0 \in 0 .. L
    BY <1>1
  <2> HIDE DEF L, V
  <2> QED
    BY <1>6, <1>11, <2>1
<1> DEFINE placed == PlaceRows(kept, incoming)
<1>14. placed \in V /\ PlacedUpTo(L, placed, incoming)
  <2>1. L \in 0 .. L
    BY <1>1
  <2>2. f[L] \in V /\ PlacedUpTo(L, f[L], incoming)
    <3> HIDE DEF Steps, V, L
    <3> QED
      BY <1>3, <1>13, <2>1
  <2> QED
    BY <1>12, <2>2
<1> HIDE DEF placed
<1>15. Len(placed) = L
  <2> SUFFICES ASSUME Len(placed) > L PROVE FALSE
    BY <1>1, <1>14 DEF PlacedUpTo
  <2> DEFINE top == Len(placed)
  <2>1. top \in 1 .. Len(placed) /\ top > L /\ \A k \in 1 .. L : k \in 1 .. Len(placed) /\ k # top
    BY <1>1, <1>14
  <2> HIDE DEF top
  <2>2. PICK k \in 1 .. L : KeyFor(placed[top]) = KeyFor(incoming[k])
    BY <1>14, <2>1 DEF PlacedUpTo, KnownKeys
  <2>3. KeyFor(placed[k]) = KeyFor(placed[top])
    BY <1>14, <2>2 DEF PlacedUpTo
  <2> QED
    BY <1>14, <2>1, <2>3 DEF PlacedUpTo, OwnKeys
<1>16. SyncRows(current, incoming) = [i \in DOMAIN placed |-> IF i \in DOMAIN incoming THEN incoming[i] ELSE placed[i]]
  BY DEF SyncRows, placed, kept
<1>17. DOMAIN placed = 1 .. L /\ DOMAIN incoming = 1 .. L
  BY <1>1, <1>14, <1>15
<1>18. SyncRows(current, incoming) = [i \in 1 .. L |-> incoming[i]]
  BY <1>16, <1>17
<1> QED
  BY <1>17, <1>18

(***************************************************************************)
(* The ports page: the rows are the entries of the list, and a map that is *)
(* kept is the one of the rows.                                            *)
(***************************************************************************)
PortsInv ==
    /\ listed \in [Neighbours -> Listings]
    /\ RowsShowEntries

KeptMap == mapped \in {NoMap, {PortRanges(stateFilter, rows)}}

MapInv == PortsInv /\ KeptMap

\* The entries of a list have keys of their own.
LEMMA EntriesOwnKeys ==
    ASSUME OneAddress, NEW l \in [Neighbours -> Listings]
    PROVE  OwnKeys(EntriesFor(l))
<1> DEFINE s == EntriesFor(l)
<1>1. s \in Seq(EntrySet) /\ ToSet(s) = PublishedEntries(l) \cup DeclaredEntries(l) /\ IsInjective(s)
  BY EntriesForElements
<1> HIDE DEF s
<1>2. DOMAIN s = 1 .. Len(s)
  BY <1>1
<1> SUFFICES ASSUME NEW j \in 1 .. Len(s), NEW k \in 1 .. Len(s), KeyFor(s[j]) = KeyFor(s[k])
             PROVE  j = k
  BY DEF OwnKeys, s
<1>3. s[j] \in ToSet(s) /\ s[k] \in ToSet(s)
  BY <1>2 DEF ToSet
<1>4. s[j] = s[k]
  BY <1>1, <1>3, EntriesHaveOwnKeys
<1> QED
  BY <1>1, <1>2, <1>4 DEF IsInjective

\* When a list arrives the rows become its entries.
LEMMA ListArrivesShows ==
    ASSUME OneAddress, PortsInv, NEW l \in [Neighbours -> NeighbourListings], ListArrives(l)
    PROVE  PortsInv'
<1>1. l \in [Neighbours -> Listings] /\ listed' = l /\ rows' = SyncRows(rows, EntriesFor(l))
  BY ListingsAssumption DEF ListArrives, PortsInv
<1>2. rows = EntriesFor(listed) /\ rows \in Seq(EntrySet) /\ OwnKeys(rows)
  BY EntriesForElements, EntriesOwnKeys DEF PortsInv, RowsShowEntries
<1>3. EntriesFor(l) \in Seq(EntrySet) /\ OwnKeys(EntriesFor(l))
  BY <1>1, EntriesForElements, EntriesOwnKeys
<1>4. SyncRows(rows, EntriesFor(l)) = EntriesFor(l)
  <2> DEFINE r == rows
             i == EntriesFor(l)
  <2>1. r \in Seq(EntrySet) /\ i \in Seq(EntrySet) /\ OwnKeys(r) /\ OwnKeys(i)
    BY <1>2, <1>3
  <2> HIDE DEF r, i
  <2>2. SyncRows(r, i) = i
    BY <2>1, SyncShowsIncoming
  <2> QED
    BY <2>2 DEF r, i
<1> QED
  BY <1>1, <1>4 DEF PortsInv, RowsShowEntries

\* The page starts with no list, no rows and no map.
LEMMA MapInitial ==
    ASSUME MapInit
    PROVE  MapInv
<1>1. listed \in [Neighbours -> Listings]
  BY DEF MapInit, PortsInit, Listings
<1>2. EntriesFor(listed) = <<>>
  <2> DEFINE s == EntriesFor(listed)
  <2>1. PublishedEntries(listed) \cup DeclaredEntries(listed) = {}
    BY DEF MapInit, PortsInit, PublishedEntries, DeclaredEntries, Holding, Existing
  <2>2. s \in Seq(EntrySet) /\ ToSet(s) = {}
    BY <1>1, <2>1, EntriesForElements
  <2> HIDE DEF s
  <2>3. DOMAIN s = {}
    BY <2>2 DEF ToSet
  <2>4. Len(s) = 0
    BY <2>2, <2>3
  <2> QED
    BY <2>2, <2>4 DEF s
<1> QED
  BY <1>1, <1>2 DEF MapInit, PortsInit, MapInv, PortsInv, RowsShowEntries, KeptMap

\* A list, a change of the view and a draw of the map keep the invariant.
LEMMA MapStep ==
    ASSUME OneAddress, MapInv, [MapNext]_mapVars
    PROVE  MapInv'
<1>1. CASE MapNext
  <2>1. ASSUME NEW l \in [Neighbours -> NeighbourListings], RebuildPorts(l)
        PROVE  MapInv'
    BY <2>1, ListArrivesShows DEF RebuildPorts, MapInv, KeptMap
  <2>2. ASSUME NEW filter \in Filters \cup {"all"}, SetStateFilter(filter)
        PROVE  MapInv'
    BY <2>2 DEF SetStateFilter, portVars, MapInv, PortsInv, RowsShowEntries, KeptMap
  <2>3. CASE ReadPortRanges
    BY <2>3 DEF ReadPortRanges, portVars, MapInv, PortsInv, RowsShowEntries, KeptMap
  <2> QED
    BY <1>1, <2>1, <2>2, <2>3 DEF MapNext
<1>2. CASE UNCHANGED mapVars
  BY <1>2 DEF mapVars, portVars, MapInv, PortsInv, RowsShowEntries, KeptMap
<1> QED
  BY <1>1, <1>2

\* Whatever lists arrive in whatever order, the synchronised rows are the entries of the last
\* one, and a map that is kept is the one that would be computed now.
THEOREM MapFollowsRows ==
    ASSUME OneAddress
    PROVE  MapSpec => []MapInv
<1>1. MapInit => MapInv
  BY MapInitial
<1>2. MapInv /\ [MapNext]_mapVars => MapInv'
  BY MapStep
<1> QED
  BY <1>1, <1>2, PTL DEF MapSpec

\* The rows of the ports page are the entries of the container list, in its order, after any
\* sequence of removals, insertions and moves.
THEOREM RowsFollowList ==
    ASSUME OneAddress
    PROVE  MapSpec => []RowsShowEntries
<1>1. MapInv => RowsShowEntries
  BY DEF MapInv, PortsInv
<1> QED
  BY <1>1, MapFollowsRows, PTL

(***************************************************************************)
(* The answers about a port.                                               *)
(***************************************************************************)

\* The port p is published by a running container at an address that overlaps ip.
Held(l, ip, p) == \E c \in Holding(l) : \E b \in l[c].published : b.port = p /\ HostBindingsOverlap(b.ip, ip)

\* holderFor() names a container that holds the port, and nobody if there is none.
LEMMA HolderIsThere ==
    ASSUME NEW l \in [Neighbours -> Listings], NEW ip, NEW p
    PROVE  HolderFor(l, ip, p) # NoHolder <=> Held(l, ip, p)
<1> DEFINE Holders == {c \in Holding(l) : \E b \in l[c].published : b.port = p /\ HostBindingsOverlap(b.ip, ip)}
<1>1. HolderFor(l, ip, p) = IF Holders = {} THEN NoHolder ELSE CHOOSE c \in Holders : TRUE
  BY DEF HolderFor
<1>2. Holders \subseteq Neighbours
  BY DEF Holding, Existing
<1>3. Holders # {} <=> Held(l, ip, p)
  BY DEF Held
<1> HIDE DEF Holders
<1>4. Holders # {} => (CHOOSE c \in Holders : TRUE) \in Holders
  OBVIOUS
<1> QED
  BY <1>1, <1>2, <1>3, <1>4, NeighboursAssumption DEF NoHolder

\* A published entry and what is published: the addresses of the two wildcards become one.
LEMMA EntryHolds ==
    ASSUME NEW l \in [Neighbours -> Listings], NEW ip, NEW p
    PROVE  Held(l, ip, p) <=> \E e \in PublishedEntries(l) : e.port = p /\ HostBindingsOverlap(e.ip, ip)
<1>1. \A c, q, r, a, s : /\ Entry(c, q, r, a, s).port = q
                         /\ HostBindingsOverlap(Entry(c, q, r, a, s).ip, ip) <=> HostBindingsOverlap(a, ip)
  <2> SUFFICES ASSUME NEW c, NEW q, NEW r, NEW a, NEW s
               PROVE  /\ Entry(c, q, r, a, s).port = q
                      /\ HostBindingsOverlap(Entry(c, q, r, a, s).ip, ip) <=> HostBindingsOverlap(a, ip)
    OBVIOUS
  <2>1. /\ Entry(c, q, r, a, s).port = q
        /\ Entry(c, q, r, a, s).ip = IF IsWildcardAddress(a) THEN "" ELSE a
    BY DEF Entry
  <2>2. IsWildcardAddress("")
    BY DEF IsWildcardAddress
  <2>3. CASE IsWildcardAddress(a)
    BY <2>1, <2>2, <2>3 DEF HostBindingsOverlap
  <2>4. CASE ~ IsWildcardAddress(a)
    BY <2>1, <2>4 DEF HostBindingsOverlap
  <2> QED
    BY <2>3, <2>4
<1>2. ASSUME Held(l, ip, p) PROVE \E e \in PublishedEntries(l) : e.port = p /\ HostBindingsOverlap(e.ip, ip)
  <2>1. PICK c \in Holding(l) : \E b \in l[c].published : b.port = p /\ HostBindingsOverlap(b.ip, ip)
    BY <1>2 DEF Held
  <2>2. PICK b \in l[c].published : b.port = p /\ HostBindingsOverlap(b.ip, ip)
    BY <2>1
  <2> DEFINE e == Entry(c, b.port, b.port, b.ip, "inUse")
  <2>3. e \in PublishedEntries(l)
    BY DEF PublishedEntries
  <2>4. e.port = p /\ HostBindingsOverlap(e.ip, ip)
    BY <1>1, <2>2
  <2> HIDE DEF e
  <2> QED
    BY <2>3, <2>4
<1>3. ASSUME NEW e \in PublishedEntries(l), e.port = p, HostBindingsOverlap(e.ip, ip) PROVE Held(l, ip, p)
  <2>1. PICK c \in Holding(l) : \E b \in l[c].published : e = Entry(c, b.port, b.port, b.ip, "inUse")
    BY DEF PublishedEntries
  <2>2. PICK b \in l[c].published : e = Entry(c, b.port, b.port, b.ip, "inUse")
    BY <2>1
  <2>3. b.port = p /\ HostBindingsOverlap(b.ip, ip)
    BY <1>1, <1>3, <2>2
  <2> QED
    BY <2>3 DEF Held
<1> QED
  BY <1>2, <1>3

\* nextFreePort() returns a later port that nothing uses.
LEMMA NextFreePortIsFree ==
    ASSUME NEW l \in [Neighbours -> Listings], NEW after \in Nat, NEW extra,
           NextFreePort(l, after, extra) # 0
    PROVE  LET p == NextFreePort(l, after, extra)
           IN  p \in Ports /\ p > after /\ p \notin extra /\ \A ip : HolderFor(l, ip, p) = NoHolder
<1> DEFINE Used == {e.port : e \in PublishedEntries(l)} \cup extra
           Free == {p \in Ports : p > after} \ Used
           least == CHOOSE p \in Free : \A q \in Free : p <= q
           p == NextFreePort(l, after, extra)
<1>1. p = IF Free = {} THEN 0 ELSE least
  BY DEF NextFreePort
<1>2. Free # {} /\ p = least
  BY <1>1
<1>3. Free \in SUBSET Nat
  BY PortsAssumption
<1>4. \E q \in Free : \A r \in Free : q <= r
  <2> HIDE DEF Free
  <2> QED
    BY <1>2, <1>3, LeastNumber
<1>5. p \in Free
  <2> HIDE DEF Free, p
  <2> QED
    BY <1>2, <1>4
<1> HIDE DEF p
<1>6. \A ip : HolderFor(l, ip, p) = NoHolder
  <2>1. \A ip : ~ Held(l, ip, p)
    BY <1>5, EntryHolds
  <2> QED
    BY <2>1, HolderIsThere
<1> QED
  BY <1>5, <1>6 DEF p

\* The state of a tile is that of an entry at the port, and "inUse" goes before the others.
LEMMA StateOfPort ==
    ASSUME NEW entries \in Seq(EntrySet), NEW port
    PROVE  StateForPort(entries, port) = "inUse" <=>
               \E e \in ToSet(entries) : e.port <= port /\ port <= e.last /\ e.state = "inUse"
<1> DEFINE States == {e.state : e \in {d \in ToSet(entries) : d.port <= port /\ port <= d.last}}
           Top(s) == \A t \in States : StatePriority[t] <= StatePriority[s]
           chosen == CHOOSE s \in States : Top(s)
<1>1. StateForPort(entries, port) = IF States = {} THEN "" ELSE chosen
  BY DEF StateForPort
<1>2. States \subseteq {"inUse", "reservedTaken", "reserved", "declaredNotPublished"}
  <2>1. ToSet(entries) \subseteq EntrySet
    BY DEF ToSet
  <2> QED
    BY <2>1 DEF EntrySet
<1>3. "inUse" \in States <=>
        \E e \in ToSet(entries) : e.port <= port /\ port <= e.last /\ e.state = "inUse"
  OBVIOUS
<1>4. /\ StatePriority["inUse"] = 4 /\ StatePriority["reservedTaken"] = 3
      /\ StatePriority["reserved"] = 2 /\ StatePriority["declaredNotPublished"] = 1
  BY DEF StatePriority
<1> HIDE DEF States
<1>5. States # {} => \E s \in States : Top(s)
  <2>1. CASE "inUse" \in States
    BY <1>2, <1>4, <2>1
  <2>2. CASE "inUse" \notin States /\ "reservedTaken" \in States
    BY <1>2, <1>4, <2>2
  <2>3. CASE "inUse" \notin States /\ "reservedTaken" \notin States /\ "reserved" \in States
    BY <1>2, <1>4, <2>3
  <2>4. CASE "inUse" \notin States /\ "reservedTaken" \notin States /\ "reserved" \notin States
    <3>1. \A s \in States : s = "declaredNotPublished"
      BY <1>2, <2>4
    <3>2. \A s \in States : Top(s)
      BY <1>4, <3>1
    <3> QED
      BY <3>2
  <2> QED
    BY <2>1, <2>2, <2>3, <2>4
<1>6. States # {} => chosen \in States /\ Top(chosen)
  <2> HIDE DEF Top
  <2> QED
    BY <1>5
<1>7. "inUse" \in States => chosen = "inUse"
  <2> SUFFICES ASSUME "inUse" \in States PROVE chosen = "inUse"
    OBVIOUS
  <2>1. chosen \in States /\ StatePriority["inUse"] <= StatePriority[chosen]
    BY <1>6
  <2>2. \A s \in States : s # "inUse" => StatePriority[s] < 4
    BY <1>2, <1>4
  <2> HIDE DEF chosen
  <2> QED
    BY <1>2, <1>4, <2>1, <2>2
<1> HIDE DEF chosen, Top
<1> QED
  BY <1>1, <1>3, <1>6, <1>7

\* The three answers about a port agree, if the rows are the entries of the list.
LEMMA AnswersFromRows ==
    ASSUME PortsInv
    PROVE  AnswersAgree
<1> DEFINE l == listed
<1>1. l \in [Neighbours -> Listings] /\ rows = EntriesFor(l)
  BY DEF PortsInv, RowsShowEntries
<1>2. rows \in Seq(EntrySet) /\ ToSet(rows) = PublishedEntries(l) \cup DeclaredEntries(l)
  BY <1>1, EntriesForElements
<1> HIDE DEF l
<1>3. ASSUME NEW p \in Ports PROVE StateForPort(rows, p) = "inUse" <=> HolderFor(l, "", p) # NoHolder
  <2>1. StateForPort(rows, p) = "inUse" <=>
            \E e \in ToSet(rows) : e.port <= p /\ p <= e.last /\ e.state = "inUse"
    <3> DEFINE r == rows
    <3>1. r \in Seq(EntrySet)
      BY <1>2
    <3> HIDE DEF r
    <3>2. StateForPort(r, p) = "inUse" <=>
            \E e \in ToSet(r) : e.port <= p /\ p <= e.last /\ e.state = "inUse"
      BY <3>1, StateOfPort
    <3> QED
      BY <3>2 DEF r
  <2>2. ASSUME NEW e \in ToSet(rows), e.port <= p, p <= e.last, e.state = "inUse"
        PROVE  e \in PublishedEntries(l) /\ e.port = p
    <3>1. e \in PublishedEntries(l) /\ e.last = e.port /\ e.port \in Ports
      BY <1>1, <1>2, <2>2, DeclaredFields, PublishedFields DEF EntrySet
    <3> QED
      BY <2>2, <3>1, PortsAssumption
  <2>3. ASSUME NEW e \in PublishedEntries(l), e.port = p
        PROVE  e \in ToSet(rows) /\ e.port <= p /\ p <= e.last /\ e.state = "inUse"
    <3>1. e \in ToSet(rows) /\ e.last = e.port /\ e.state = "inUse"
      BY <1>1, <1>2, PublishedFields
    <3> QED
      BY <2>3, <3>1, PortsAssumption
  <2>4. \A e \in PublishedEntries(l) : HostBindingsOverlap(e.ip, "")
    BY DEF HostBindingsOverlap, IsWildcardAddress
  <2>5. HolderFor(l, "", p) # NoHolder <=> \E e \in PublishedEntries(l) : e.port = p
    BY <1>1, <2>4, HolderIsThere, EntryHolds
  <2> QED
    BY <2>1, <2>2, <2>3, <2>5
<1>4. ASSUME NEW c \in Existing(l) \ Holding(l), NEW b \in Bindings
      PROVE  TakenByOther(l, c, [port |-> b.port, last |-> b.port, ip |-> b.ip])
                 <=> HolderFor(l, b.ip, b.port) # NoHolder
  <2>1. \A e \in PublishedEntries(l) : e.container # c /\ e.last = e.port /\ e.port \in Ports
    BY <1>1, <1>4, PublishedFields DEF EntrySet
  <2>2. b.port \in Ports
    BY DEF Bindings
  <2>3. \A e \in PublishedEntries(l) : e.port <= b.port /\ e.last >= b.port <=> e.port = b.port
    BY <2>1, <2>2, PortsAssumption
  <2>4. TakenByOther(l, c, [port |-> b.port, last |-> b.port, ip |-> b.ip]) <=>
            \E e \in PublishedEntries(l) : e.port = b.port /\ HostBindingsOverlap(e.ip, b.ip)
    BY <2>1, <2>3 DEF TakenByOther
  <2> QED
    BY <1>1, <2>4, HolderIsThere, EntryHolds
<1>5. ASSUME NEW p \in Ports \cup {0}, NEW ip, NextFreePort(l, p, {}) # 0
      PROVE  HolderFor(l, ip, NextFreePort(l, p, {})) = NoHolder
  <2> DEFINE none == {}
  <2>1. p \in Nat
    BY PortsAssumption
  <2> HIDE DEF none
  <2>2. NextFreePort(l, p, none) # 0 => HolderFor(l, ip, NextFreePort(l, p, none)) = NoHolder
    BY <1>1, <2>1, NextFreePortIsFree
  <2> QED
    BY <1>5, <2>2 DEF none
<1> QED
  BY <1>3, <1>4, <1>5 DEF AnswersAgree, l

\* The tile of the map says "in use" exactly where a create would be refused, a stopped
\* container is marked exactly where starting it would be refused, and a suggested port has
\* no holder.
THEOREM OneAnswerPerPort ==
    ASSUME OneAddress
    PROVE  MapSpec => []AnswersAgree
<1>1. MapInv => AnswersAgree
  BY AnswersFromRows DEF MapInv
<1> QED
  BY <1>1, MapFollowsRows, PTL

(***************************************************************************)
(* The tiles of the map.                                                   *)
(***************************************************************************)

\* The filter keeps the entries whose state it takes.
LEMMA FilteredElements ==
    ASSUME NEW entries \in Seq(EntrySet), NEW filter
    PROVE  /\ Filtered(filter, entries) \in Seq(EntrySet)
           /\ ToSet(Filtered(filter, entries)) =
                 {e \in ToSet(entries) : filter = "all" \/ Selects(filter, e.state)}
<1>1. CASE filter = "all"
  BY <1>1 DEF Filtered
<1>2. CASE filter # "all"
  <2> DEFINE positions == {i \in DOMAIN entries : Selects(filter, entries[i].state)}
             f == Filtered(filter, entries)
  <2>1. f = Picked(entries, positions)
    BY <1>2 DEF Filtered
  <2>2. positions \cap DOMAIN entries = positions
    OBVIOUS
  <2>3. f \in Seq(EntrySet) /\ ToSet(f) = {entries[i] : i \in positions \cap DOMAIN entries}
    <3> HIDE DEF positions, f
    <3> QED
      BY <2>1, PickedElements
  <2>4. {entries[i] : i \in positions} = {e \in ToSet(entries) : Selects(filter, e.state)}
    BY DEF ToSet
  <2> HIDE DEF f, positions
  <2> QED
    BY <1>2, <2>2, <2>3, <2>4 DEF f
<1> QED
  BY <1>1, <1>2

\* entryForPort() returns one of the entries at the port.
LEMMA EntryForPortIsThere ==
    ASSUME NEW entries \in Seq(EntrySet), NEW filter, NEW port \in UsedPorts(entries)
    PROVE  /\ EntryForPort(filter, entries, port) \in ToSet(entries)
           /\ port \in EntryForPort(filter, entries, port).port .. EntryForPort(filter, entries, port).last
<1> DEFINE Covering == {i \in DOMAIN entries : port \in entries[i].port .. entries[i].last}
           Priority(i) == StatePriority[entries[i].state] + IF Selects(filter, entries[i].state) THEN 100 ELSE 0
           First == {i \in Covering : \A k \in Covering : Priority(k) <= Priority(i)}
           Distances == {200 - Priority(i) : i \in Covering}
<1>1. EntryForPort(filter, entries, port) = entries[Min(First)]
  BY DEF EntryForPort
<1>2. Covering # {}
  BY DEF UsedPorts, ToSet
<1>3. \A i \in Covering : Priority(i) \in Nat /\ Priority(i) <= 104
  <2>1. ASSUME NEW i \in Covering PROVE StatePriority[entries[i].state] \in 1 .. 4
    <3>1. entries[i] \in EntrySet
      OBVIOUS
    <3>2. entries[i].state \in {"inUse", "reservedTaken", "reserved", "declaredNotPublished"}
      BY <3>1 DEF EntrySet
    <3> QED
      BY <3>2 DEF StatePriority
  <2> HIDE DEF Covering
  <2> QED
    BY <2>1
<1> HIDE DEF Priority
<1>4. First # {}
  <2>1. Distances \in SUBSET Nat /\ Distances # {}
    <3> HIDE DEF Covering
    <3> QED
      BY <1>2, <1>3
  <2>2. PICK d \in Distances : \A e \in Distances : d <= e
    <3> HIDE DEF Distances
    <3> QED
      BY <2>1, LeastNumber
  <2>3. PICK i \in Covering : d = 200 - Priority(i)
    OBVIOUS
  <2>4. ASSUME NEW k \in Covering PROVE Priority(k) <= Priority(i)
    <3>1. d <= 200 - Priority(k)
      BY <2>2
    <3> HIDE DEF Covering
    <3> QED
      BY <1>3, <2>3, <3>1
  <2> QED
    BY <2>3, <2>4
<1>5. First \in SUBSET Nat
  OBVIOUS
<1>6. Min(First) \in First
  <2> HIDE DEF First
  <2> QED
    BY <1>4, <1>5, FirstPlace
<1> HIDE DEF Priority
<1>7. Min(First) \in DOMAIN entries /\ port \in entries[Min(First)].port .. entries[Min(First)].last
  BY <1>6
<1> HIDE DEF First
<1> QED
  BY <1>1, <1>7 DEF ToSet

\* The map shows of every port the entries that the filter takes.
LEMMA MapShowsList ==
    ASSUME MapInv
    PROVE  MapIsCurrent
<1> DEFINE shown == Filtered(stateFilter, rows)
           All == PublishedEntries(listed) \cup DeclaredEntries(listed)
<1>1. listed \in [Neighbours -> Listings] /\ rows = EntriesFor(listed)
  BY DEF MapInv, PortsInv, RowsShowEntries
<1>2. rows \in Seq(EntrySet) /\ ToSet(rows) = All
  BY <1>1, EntriesForElements
<1>3. /\ shown \in Seq(EntrySet)
      /\ ToSet(shown) = {e \in All : stateFilter = "all" \/ Selects(stateFilter, e.state)}
  <2> DEFINE r == rows
             t == stateFilter
  <2>1. r \in Seq(EntrySet)
    BY <1>2
  <2> HIDE DEF r, t
  <2>2. /\ Filtered(t, r) \in Seq(EntrySet)
        /\ ToSet(Filtered(t, r)) = {e \in ToSet(r) : t = "all" \/ Selects(t, e.state)}
    BY <2>1, FilteredElements
  <2> HIDE DEF All
  <2> QED
    BY <1>2, <2>2 DEF r, t
<1> HIDE DEF All
<1> SUFFICES ASSUME NEW map \in mapped, NEW m \in map, NEW port \in DOMAIN m.tiles
             PROVE  LET tile == m.tiles[port]
                        Users == {e \in All : /\ port \in e.port .. e.last
                                              /\ stateFilter = "all" \/ Selects(stateFilter, e.state)}
                    IN  /\ tile.state # "" <=> Users # {}
                        /\ tile.state # "" => \E e \in Users : tile.state = e.state
                        /\ tile.container # NoHolder =>
                               \E b \in listed[tile.container].published : b.port = port
  BY DEF MapIsCurrent, All
<1> DEFINE tile == m.tiles[port]
           Users == {e \in All : /\ port \in e.port .. e.last
                                 /\ stateFilter = "all" \/ Selects(stateFilter, e.state)}
           entry == EntryForPort(stateFilter, shown, port)
<1>4. map = PortRanges(stateFilter, rows)
  BY DEF MapInv, KeptMap, NoMap
<1>5. PICK r \in ClusterRanges(shown) : m = [range |-> r, tiles |-> TilesOf(stateFilter, shown, r)]
  BY <1>4 DEF PortRanges
<1> HIDE DEF shown
<1>6. m.tiles = TilesOf(stateFilter, shown, r)
  BY <1>5
<1>7. tile = IF port \in UsedPorts(shown)
             THEN [state |-> entry.state,
                   container |-> IF entry.state = "inUse" THEN entry.container ELSE NoHolder]
             ELSE [state |-> "", container |-> NoHolder]
  BY <1>6 DEF TilesOf
<1>8. port \in UsedPorts(shown) <=> Users # {}
  BY <1>3 DEF UsedPorts
<1>9. port \in UsedPorts(shown) => entry \in Users
  <2> SUFFICES ASSUME port \in UsedPorts(shown) PROVE entry \in Users
    OBVIOUS
  <2> DEFINE t == stateFilter
  <2>1. shown \in Seq(EntrySet) /\ port \in UsedPorts(shown)
    BY <1>3
  <2> HIDE DEF t, tile, Users, All
  <2>2. /\ EntryForPort(t, shown, port) \in ToSet(shown)
        /\ port \in EntryForPort(t, shown, port).port .. EntryForPort(t, shown, port).last
    BY <2>1, EntryForPortIsThere
  <2> QED
    BY <1>3, <2>2 DEF t, Users
<1> HIDE DEF tile, entry
<1>10. CASE port \notin UsedPorts(shown)
  <2>1. tile.state = "" /\ tile.container = NoHolder /\ Users = {}
    <3> HIDE DEF Users
    <3> QED
      BY <1>7, <1>8, <1>10
  <2> HIDE DEF Users
  <2> QED
    BY <2>1 DEF tile, Users
<1>11. CASE port \in UsedPorts(shown)
  <2>1. entry \in Users /\ entry \in All
    BY <1>9, <1>11
  <2>2. entry.state \in {"inUse", "reservedTaken", "reserved", "declaredNotPublished"}
    BY <1>1, <2>1, PublishedFields, DeclaredFields DEF EntrySet, All
  <2>3. tile.state = entry.state /\ tile.state # ""
    BY <1>7, <1>11, <2>2
  <2>4. tile.container # NoHolder => entry.state = "inUse" /\ tile.container = entry.container
    BY <1>7, <1>11
  <2>5. entry.state = "inUse" => \E b \in listed[entry.container].published : b.port = port
    <3> SUFFICES ASSUME entry.state = "inUse"
                 PROVE  \E b \in listed[entry.container].published : b.port = port
      OBVIOUS
    <3>1. entry \in PublishedEntries(listed)
      BY <1>1, <2>1, DeclaredFields DEF All
    <3>2. entry.last = entry.port /\ entry.port \in Ports
      BY <1>1, <3>1, PublishedFields DEF EntrySet
    <3>3. PICK b \in listed[entry.container].published :
             entry = Entry(entry.container, b.port, b.port, b.ip, "inUse")
      BY <1>1, <3>1, PublishedFields
    <3>4. b.port = entry.port
      <4> DEFINE c == entry.container
      <4>1. entry = Entry(c, b.port, b.port, b.ip, "inUse")
        BY <3>3
      <4> HIDE DEF c
      <4> QED
        BY <4>1 DEF Entry
    <3>5. port = entry.port
      <4>1. port \in entry.port .. entry.last
        BY <2>1
      <4> QED
        BY <3>2, <4>1, PortsAssumption
    <3> QED
      BY <3>4, <3>5
  <2> HIDE DEF Users
  <2> QED
    BY <1>8, <1>11, <2>1, <2>3, <2>4, <2>5 DEF tile, Users
<1> QED
  BY <1>10, <1>11

\* A map that is kept says of every tile what the container list says now: it is lit where an
\* entry the filter takes uses the port, and a click opens a container that publishes it.
THEOREM KeptMapIsCurrent ==
    ASSUME OneAddress
    PROVE  MapSpec => []MapIsCurrent
<1>1. MapInv => MapIsCurrent
  BY MapShowsList
<1> QED
  BY <1>1, MapFollowsRows, PTL

(***************************************************************************)
(* The ranges of the map.  A range starts at a used port that no used port *)
(* is close before, and reaches to the last one before the next start.     *)
(***************************************************************************)
RoomForMargin == \A p \in Ports : p + Margin < MaxPort

StartsOf(used) == {p \in used : ~ \E q \in used : q < p /\ p - q <= Gap + 1}
ReachOf(used, p) == {q \in used : p <= q /\ StartsOf(used) \cap (p + 1 .. q) = {}}
LastOf(used, p) == Max(ReachOf(used, p))
Lo(p) == IF 1 >= p - Margin THEN 1 ELSE p - Margin
Hi(used, p) == LastOf(used, p) + Margin
Usable(used) == \A p \in used : p \in Nat /\ 1 <= p /\ p + Margin < MaxPort

\* The used ports leave room for the margin of a range.
LEMMA UsedPortsAreUsable ==
    ASSUME RoomForMargin, NEW entries \in Seq(EntrySet)
    PROVE  Usable(UsedPorts(entries))
<1> SUFFICES ASSUME NEW p \in UsedPorts(entries)
             PROVE  p \in Nat /\ 1 <= p /\ p + Margin < MaxPort
  BY DEF Usable
<1>1. PICK e \in ToSet(entries) : p \in e.port .. e.last
  BY DEF UsedPorts
<1>2. e \in EntrySet
  BY DEF ToSet
<1>3. e.port \in Ports /\ e.last \in Ports
  BY <1>2 DEF EntrySet
<1>4. /\ e.port \in Nat /\ 1 <= e.port /\ e.last \in Nat /\ e.last + Margin < MaxPort
      /\ Margin \in Nat /\ MaxPort \in Nat
  BY <1>3, PortsAssumption, MapAssumption DEF RoomForMargin
<1>5. p \in Int /\ e.port <= p /\ p <= e.last
  BY <1>1, <1>4
<1> QED
  BY <1>4, <1>5

\* Where the used ports of a range end.
LEMMA LastUsedPort ==
    ASSUME NEW used, Usable(used), NEW p \in StartsOf(used)
    PROVE  /\ LastOf(used, p) \in used /\ p <= LastOf(used, p)
           /\ StartsOf(used) \cap (p + 1 .. LastOf(used, p)) = {}
           /\ \A q \in ReachOf(used, p) : q <= LastOf(used, p)
<1> DEFINE R == ReachOf(used, p)
<1>1. /\ \A q \in used : q \in Nat /\ q <= MaxPort
      /\ MaxPort \in Nat
  BY MapAssumption DEF Usable
<1>2. p \in used /\ p \in Nat
  BY <1>1 DEF StartsOf
<1>3. p \in R
  <2>1. p + 1 .. p = {}
    BY <1>2
  <2> QED
    BY <1>2, <2>1 DEF ReachOf
<1>4. R \in SUBSET Nat /\ \A q \in R : q <= MaxPort
  BY <1>1 DEF ReachOf
<1>5. Max(R) \in R /\ \A q \in R : q <= Max(R)
  <2> HIDE DEF R
  <2> QED
    BY <1>1, <1>3, <1>4, GreatestNumber
<1>6. LastOf(used, p) = Max(R)
  BY DEF LastOf
<1> HIDE DEF R
<1>7. LastOf(used, p) \in ReachOf(used, p)
  BY <1>5, <1>6 DEF R
<1> QED
  BY <1>5, <1>6, <1>7 DEF R, ReachOf

\* The bounds of a range.
LEMMA RangeBounds ==
    ASSUME NEW used, Usable(used), NEW p \in StartsOf(used)
    PROVE  /\ p \in Nat /\ Lo(p) \in Nat /\ Hi(used, p) \in Nat
           /\ 1 <= Lo(p) /\ Lo(p) <= p /\ p <= Hi(used, p) /\ Hi(used, p) < MaxPort
           /\ LastOf(used, p) \in Nat /\ LastOf(used, p) <= Hi(used, p)
           /\ p - Margin <= Lo(p)
<1>1. LastOf(used, p) \in used /\ p <= LastOf(used, p) /\ p \in used
  BY LastUsedPort DEF StartsOf
<1>2. /\ p \in Nat /\ 1 <= p /\ LastOf(used, p) \in Nat /\ LastOf(used, p) + Margin < MaxPort
      /\ Margin \in Nat /\ MaxPort \in Nat
  BY <1>1, MapAssumption DEF Usable
<1> QED
  BY <1>1, <1>2 DEF Lo, Hi

\* Between two ranges there is a free port that neither shows.
LEMMA RangesAreApart ==
    ASSUME NEW used, Usable(used), NEW p \in StartsOf(used), NEW q \in StartsOf(used), p < q
    PROVE  Hi(used, p) < Lo(q)
<1> DEFINE last == LastOf(used, p)
<1>1. /\ last \in used /\ p <= last
      /\ StartsOf(used) \cap (p + 1 .. last) = {}
  BY LastUsedPort
<1>2. p \in Nat /\ q \in Nat /\ last \in Nat /\ q - Margin <= Lo(q) /\ Lo(q) \in Nat
  BY RangeBounds
<1> HIDE DEF last
<1>3. last < q
  <2>1. q \notin p + 1 .. last
    BY <1>1
  <2> QED
    BY <1>2, <2>1
<1>4. ~ (q - last <= Gap + 1)
  BY <1>1, <1>3 DEF StartsOf
<1>5. Margin \in Nat /\ Gap \in Nat /\ 2 * Margin <= Gap + 1
  BY MapAssumption
<1>6. last + Margin < q - Margin
  BY <1>2, <1>4, <1>5
<1> QED
  BY <1>2, <1>5, <1>6 DEF Hi, last

\* Every used port is in a range.
LEMMA RangesCover ==
    ASSUME NEW used, Usable(used), NEW p \in used
    PROVE  \E s \in StartsOf(used) : p \in Lo(s) .. Hi(used, s)
<1> DEFINE Before == {s \in StartsOf(used) : s <= p}
           Lower == {q \in used : q <= p}
<1>1. \A q \in used : q \in Nat
  BY DEF Usable
<1>2. Before # {}
  <2>1. Lower \in SUBSET Nat /\ Lower # {}
    BY <1>1
  <2>2. PICK m \in Lower : \A q \in Lower : m <= q
    <3> HIDE DEF Lower
    <3> QED
      BY <2>1, LeastNumber
  <2>3. ASSUME NEW q \in used, q < m PROVE FALSE
    <3>1. q \in Lower
      BY <1>1, <2>3
    <3> QED
      BY <1>1, <2>2, <2>3, <3>1
  <2>4. m \in StartsOf(used)
    BY <2>3 DEF StartsOf
  <2> QED
    BY <2>4
<1>3. Before \in SUBSET Nat /\ p \in Nat /\ \A s \in Before : s <= p
  BY <1>1 DEF StartsOf
<1> DEFINE s == Max(Before)
<1>4. s \in Before /\ \A r \in Before : r <= s
  <2> HIDE DEF Before
  <2> QED
    BY <1>2, <1>3, GreatestNumber
<1> HIDE DEF s
<1>5. s \in StartsOf(used) /\ s <= p /\ s \in Nat
  BY <1>3, <1>4
<1>6. StartsOf(used) \cap (s + 1 .. p) = {}
  <2> SUFFICES ASSUME NEW r \in StartsOf(used), r \in s + 1 .. p PROVE FALSE
    OBVIOUS
  <2>1. r \in Nat /\ s + 1 <= r /\ r <= p
    BY <1>1, <1>3, <1>5 DEF StartsOf
  <2>2. r \in Before
    BY <2>1
  <2> QED
    BY <1>4, <1>5, <2>1, <2>2
<1>7. p \in ReachOf(used, s)
  BY <1>5, <1>6 DEF ReachOf
<1>8. p <= LastOf(used, s)
  BY <1>5, <1>7, LastUsedPort
<1>9. /\ Lo(s) \in Nat /\ Lo(s) <= s /\ LastOf(used, s) \in Nat
      /\ LastOf(used, s) <= Hi(used, s) /\ Hi(used, s) \in Nat
  BY <1>5, RangeBounds
<1> HIDE DEF Before
<1>10. p \in Lo(s) .. Hi(used, s)
  BY <1>3, <1>5, <1>8, <1>9
<1> QED
  BY <1>5, <1>10

\* clusterRanges() makes a range of every start.
Segment(used, p) ==
    [first |-> Lo(p), last |-> Hi(used, p),
     tileCount |-> Min({Hi(used, p) - Lo(p) + 1, TilesPerRange}),
     usedCount |-> Cardinality(used \cap (Lo(p) .. Hi(used, p)))]

\* What each range of the map covers.
LEMMA SegmentsAreRanges ==
    ASSUME RoomForMargin, NEW entries \in Seq(EntrySet)
    PROVE  ClusterRanges(entries) = {Segment(UsedPorts(entries), p) : p \in StartsOf(UsedPorts(entries))}
<1> DEFINE used == UsedPorts(entries)
           Starts == {p \in used : ~\E q \in used : q < p /\ p - q <= Gap + 1}
           LastUsed(p) == Max({q \in used : p <= q /\ Starts \cap (p + 1 .. q) = {}})
           Expanded(p) == Max({1, p - Margin}) .. Min({MaxPort, LastUsed(p) + Margin})
           SegmentOf(ports) ==
            [first |-> Min(ports), last |-> Max(ports),
             tileCount |-> Min({Cardinality(ports), TilesPerRange}),
             usedCount |-> UsedInRange(entries, Min(ports), Max(ports))]
<1>1. ClusterRanges(entries) = {SegmentOf(Expanded(p)) : p \in Starts}
  BY DEF ClusterRanges
<1>2. Starts = StartsOf(used) /\ \A p \in Starts : LastUsed(p) = LastOf(used, p)
  BY DEF StartsOf, LastOf, ReachOf
<1>3. Usable(used)
  BY UsedPortsAreUsable
<1> HIDE DEF used, Starts, LastUsed
<1>4. ASSUME NEW p \in Starts PROVE SegmentOf(Expanded(p)) = Segment(used, p)
  <2>1. /\ p \in Nat /\ Lo(p) \in Nat /\ Hi(used, p) \in Nat
        /\ Lo(p) <= p /\ p <= Hi(used, p) /\ Hi(used, p) < MaxPort
        /\ LastOf(used, p) \in Nat
    BY <1>2, <1>3, RangeBounds
  <2>2. Margin \in Nat /\ MaxPort \in Nat
    BY MapAssumption
  <2>3. Max({1, p - Margin}) = Lo(p)
    <3> DEFINE a == 1
               b == p - Margin
    <3>1. a \in Int /\ b \in Int
      BY <2>1, <2>2
    <3>2. Lo(p) = IF a >= b THEN a ELSE b
      BY DEF Lo
    <3> HIDE DEF a, b
    <3>3. Max({a, b}) = Lo(p)
      BY <3>1, <3>2, MinMaxShape
    <3> QED
      BY <3>3 DEF a, b
  <2>4. Min({MaxPort, LastUsed(p) + Margin}) = Hi(used, p)
    <3> DEFINE h == LastOf(used, p) + Margin
    <3>1. h \in Int /\ h < MaxPort /\ h = Hi(used, p) /\ LastUsed(p) + Margin = h
      BY <1>2, <2>1, <2>2 DEF Hi
    <3> HIDE DEF h
    <3>2. Min({MaxPort, h}) = IF MaxPort <= h THEN MaxPort ELSE h
      BY <2>2, <3>1, MinMaxShape
    <3>3. ~ (MaxPort <= h)
      BY <2>2, <3>1
    <3>4. Min({MaxPort, h}) = h
      BY <3>2, <3>3
    <3> QED
      BY <3>1, <3>4
  <2> DEFINE lo == Lo(p)
             hi == Hi(used, p)
  <2>5. Expanded(p) = lo .. hi
    BY <2>3, <2>4
  <2>6. lo \in Int /\ hi \in Int /\ lo <= hi
    BY <2>1
  <2> HIDE DEF Expanded, lo, hi
  <2>7. Min(lo .. hi) = lo /\ Max(lo .. hi) = hi
    BY <2>6, MinMaxShape
  <2>8. Cardinality(lo .. hi) = hi - lo + 1
    BY <2>6, FS_Interval
  <2>9. SegmentOf(Expanded(p)) = [first |-> lo, last |-> hi, tileCount |-> Min({hi - lo + 1, TilesPerRange}),
                                  usedCount |-> UsedInRange(entries, lo, hi)]
    BY <2>5, <2>7, <2>8
  <2> QED
    BY <2>9 DEF UsedInRange, Segment, lo, hi, used
<1> HIDE DEF SegmentOf, Expanded
<1>5. {SegmentOf(Expanded(p)) : p \in Starts} = {Segment(used, p) : p \in Starts}
  BY <1>4
<1> QED
  BY <1>1, <1>2, <1>5 DEF used

\* If the tiles of a range are all drawn, there is one for each of its ports.
LEMMA TilesAreDrawn ==
    ASSUME RoomForMargin, NEW entries \in Seq(EntrySet), NEW filter,
           NEW p \in StartsOf(UsedPorts(entries)),
           LET r == Segment(UsedPorts(entries), p) IN r.first + r.tileCount > r.last
    PROVE  LET r == Segment(UsedPorts(entries), p)
           IN  DOMAIN TilesOf(filter, entries, r) = r.first .. r.last
<1> DEFINE used == UsedPorts(entries)
           r == Segment(used, p)
           lo == Lo(p)
           hi == Hi(used, p)
           count == hi - lo + 1
<1>1. /\ lo \in Nat /\ hi \in Nat /\ lo <= hi /\ hi < MaxPort
  BY UsedPortsAreUsable, RangeBounds
<1>2. r.first = lo /\ r.last = hi /\ r.tileCount = Min({count, TilesPerRange})
  BY DEF Segment
<1>3. r.first + r.tileCount > r.last
  OBVIOUS
<1> HIDE DEF r, lo, hi, used
<1>4. count \in Int /\ TilesPerRange \in Nat /\ MaxPort \in Nat
  BY <1>1, MapAssumption
<1>5. Min({count, TilesPerRange}) = IF count <= TilesPerRange THEN count ELSE TilesPerRange
  <2> HIDE DEF count
  <2> QED
    BY <1>4, MinMaxShape
<1>6. r.tileCount = count
  BY <1>1, <1>2, <1>3, <1>4, <1>5
<1>7. r.first + r.tileCount = hi + 1
  BY <1>1, <1>2, <1>6
<1>8. (hi + 1) % (MaxPort + 1) = hi + 1
  <2> DEFINE a == hi + 1
             b == MaxPort + 1
  <2>1. a \in Nat /\ b \in Nat /\ a < b /\ b > 0
    BY <1>1, <1>4
  <2> HIDE DEF a, b
  <2>2. a % b = a
    BY <2>1
  <2> QED
    BY <2>2 DEF a, b
<1>9. DOMAIN TilesOf(filter, entries, r) = lo .. (hi + 1) - 1
  BY <1>2, <1>7, <1>8 DEF TilesOf
<1>10. (hi + 1) - 1 = hi
  BY <1>1
<1> QED
  BY <1>2, <1>9, <1>10 DEF r, used

\* The ranges are apart, show every used port and count the lit tiles.
LEMMA TitlesFromRows ==
    ASSUME RoomForMargin, MapInv
    PROVE  TitlesCountTiles
<1> DEFINE shown == Filtered(stateFilter, rows)
           used == UsedPorts(shown)
<1>1. shown \in Seq(EntrySet)
  <2> DEFINE r == rows
             t == stateFilter
  <2>1. r \in Seq(EntrySet)
    BY EntriesForElements DEF MapInv, PortsInv, RowsShowEntries
  <2> HIDE DEF r, t
  <2>2. Filtered(t, r) \in Seq(EntrySet)
    BY <2>1, FilteredElements
  <2> QED
    BY <2>2 DEF r, t
<1> SUFFICES ASSUME NEW map \in mapped
             PROVE  /\ \A m, n \in map : m # n => m.range.last < n.range.first \/ n.range.last < m.range.first
                    /\ \A p \in used : \E m \in map : p \in m.range.first .. m.range.last
                    /\ \A m \in map :
                          m.range.first + m.range.tileCount > m.range.last =>
                              m.range.usedCount = Cardinality({p \in DOMAIN m.tiles : m.tiles[p].state # ""})
  BY DEF TitlesCountTiles
<1>2. map = {[range |-> r, tiles |-> TilesOf(stateFilter, shown, r)] : r \in ClusterRanges(shown)}
  BY DEF MapInv, KeptMap, NoMap, PortRanges
<1> HIDE DEF shown
<1>3. Usable(used)
  BY <1>1, UsedPortsAreUsable
<1>4. ClusterRanges(shown) = {Segment(used, p) : p \in StartsOf(used)}
  BY <1>1, SegmentsAreRanges
<1>5. ASSUME NEW m \in map
      PROVE  \E p \in StartsOf(used) : /\ m.range = Segment(used, p)
                                       /\ m = [range |-> m.range, tiles |-> TilesOf(stateFilter, shown, m.range)]
  <2>1. PICK r \in ClusterRanges(shown) : m = [range |-> r, tiles |-> TilesOf(stateFilter, shown, r)]
    BY <1>2
  <2>2. m.range = r
    BY <2>1
  <2> QED
    BY <1>4, <2>1, <2>2
<1> HIDE DEF used
<1>6. ASSUME NEW m \in map, NEW n \in map, m # n
      PROVE  m.range.last < n.range.first \/ n.range.last < m.range.first
  <2>1. PICK p \in StartsOf(used) : m.range = Segment(used, p)
    BY <1>5
  <2>2. PICK q \in StartsOf(used) : n.range = Segment(used, q)
    BY <1>5
  <2>3. p # q
    BY <1>5, <1>6, <2>1, <2>2
  <2>4. p \in Nat /\ q \in Nat
    BY <1>3, RangeBounds
  <2>5. Hi(used, p) < Lo(q) \/ Hi(used, q) < Lo(p)
    BY <1>3, <2>3, <2>4, RangesAreApart
  <2> QED
    BY <2>1, <2>2, <2>5 DEF Segment
<1>7. ASSUME NEW p \in used PROVE \E m \in map : p \in m.range.first .. m.range.last
  <2>1. PICK s \in StartsOf(used) : p \in Lo(s) .. Hi(used, s)
    BY <1>3, RangesCover
  <2> DEFINE r == Segment(used, s)
             m == [range |-> r, tiles |-> TilesOf(stateFilter, shown, r)]
  <2>2. m \in map
    BY <1>2, <1>4
  <2>3. m.range.first = Lo(s) /\ m.range.last = Hi(used, s)
    BY DEF Segment
  <2> HIDE DEF m
  <2> QED
    BY <2>1, <2>2, <2>3
<1>8. ASSUME NEW m \in map, m.range.first + m.range.tileCount > m.range.last
      PROVE  m.range.usedCount = Cardinality({p \in DOMAIN m.tiles : m.tiles[p].state # ""})
  <2>1. PICK s \in StartsOf(used) :
           /\ m.range = Segment(used, s)
           /\ m = [range |-> m.range, tiles |-> TilesOf(stateFilter, shown, m.range)]
    BY <1>5
  <2> DEFINE r == Segment(used, s)
             tiles == TilesOf(stateFilter, shown, r)
  <2>2. m.tiles = tiles /\ m.range = r
    BY <2>1
  <2>3. DOMAIN tiles = r.first .. r.last
    <3> DEFINE t == stateFilter
    <3> HIDE DEF t
    <3>1. DOMAIN TilesOf(t, shown, r) = r.first .. r.last
      BY <1>1, <1>8, <2>1, TilesAreDrawn DEF used
    <3> QED
      BY <3>1 DEF t
  <2>4. ASSUME NEW p \in DOMAIN tiles PROVE tiles[p].state # "" <=> p \in used
    <3>1. CASE p \in used
      <4> DEFINE entry == EntryForPort(stateFilter, shown, p)
      <4>1. tiles[p].state = entry.state
        BY <3>1 DEF TilesOf, used
      <4>2. entry \in ToSet(shown)
        <5> DEFINE t == stateFilter
        <5> HIDE DEF t
        <5>1. EntryForPort(t, shown, p) \in ToSet(shown)
          BY <1>1, <3>1, EntryForPortIsThere DEF used
        <5> QED
          BY <5>1 DEF t
      <4> HIDE DEF entry
      <4>3. entry \in EntrySet
        BY <1>1, <4>2 DEF ToSet
      <4>4. entry.state # ""
        BY <4>3 DEF EntrySet
      <4> QED
        BY <3>1, <4>1, <4>4
    <3>2. CASE p \notin used
      BY <3>2 DEF TilesOf, used
    <3> QED
      BY <3>1, <3>2
  <2> HIDE DEF tiles
  <2>5. {p \in DOMAIN tiles : tiles[p].state # ""} = used \cap (r.first .. r.last)
    <3> HIDE DEF r
    <3> QED
      BY <2>3, <2>4
  <2>6. r.usedCount = Cardinality(used \cap (r.first .. r.last))
    BY DEF Segment
  <2> HIDE DEF r
  <2> QED
    BY <2>2, <2>5, <2>6
<1> QED
  BY <1>6, <1>7, <1>8

\* The ranges of the map are apart, every port the filtered table uses is in one, and the
\* title of a range counts its lit tiles.  The last port of a range has to be below the
\* largest port number: at 65535 the end of its tiles is 0.
THEOREM TitlesAreTrue ==
    ASSUME OneAddress, RoomForMargin
    PROVE  MapSpec => []TitlesCountTiles
<1>1. MapInv => TitlesCountTiles
  BY TitlesFromRows
<1> QED
  BY <1>1, MapFollowsRows, PTL

(***************************************************************************)
(* The wizard.  What the steps before the shown one have checked of the    *)
(* form stays true, because a step is left only forward over valid steps   *)
(* and its fields are edited on it; what they checked of the lists may     *)
(* have changed, and createContainer() checks it again.                    *)
(***************************************************************************)
RowSet == [port : Ports \cup {0}, ip : HostIps]

\* What validatePorts() checks of the rows alone.
RowsApart(table) == \A i \in DOMAIN table : table[i].port # 0 => ~ DuplicateRow(table, i)
MountsApart == Empty \notin ToSet(mountRows) /\ IsInjective(mountRows)

FormType ==
    /\ open \in BOOLEAN /\ busy \in BOOLEAN
    /\ step \in 1 .. 8
    /\ image \in Images \cup {Empty}
    /\ name \in Names \cup {Empty}
    /\ portRows \in Seq(RowSet)
    /\ mountRows \in Seq(Destinations \cup {Empty})
    /\ invalid \subseteq TypedSteps
    /\ listed \in [Neighbours -> Listings]

StepsPassed ==
    open => /\ step > 3 => "environment" \notin invalid
            /\ step > 5 => RowsApart(portRows)
            /\ step > 6 => MountsApart
            /\ step > 7 => "resources" \notin invalid

WizardInv == FormType /\ StepsPassed

\* An empty address is every IPv4 address.
LEMMA EmptyAddress == Empty \in HostIps
  BY DEF Empty, HostIps

\* The places of the steps.
LEMMA StepPlaces ==
    /\ DOMAIN StepKeys = 1 .. 8 /\ Len(StepKeys) = 8
    /\ StepKeys[1] = "image" /\ StepKeys[2] = "basics" /\ StepKeys[3] = "environment"
    /\ StepKeys[4] = "interactive" /\ StepKeys[5] = "ports" /\ StepKeys[6] = "mounts"
    /\ StepKeys[7] = "resources" /\ StepKeys[8] = "summary"
BY DEF StepKeys

\* The places at which the fields are shown.
LEMMA ShownStep ==
    ASSUME step \in 1 .. 8
    PROVE  /\ OnStep("environment") => step = 3
           /\ OnStep("ports") => step = 5
           /\ OnStep("mounts") => step = 6
           /\ OnStep("resources") => step = 7
           /\ OnStep("summary") => step = 8
<1>1. \/ step = 1 \/ step = 2 \/ step = 3 \/ step = 4 \/ step = 5 \/ step = 6 \/ step = 7 \/ step = 8
  OBVIOUS
<1> QED
  BY <1>1, StepPlaces DEF OnStep

\* What a valid step says of the form.
LEMMA ValidSteps ==
    /\ StepIsValid("environment") => "environment" \notin invalid
    /\ StepIsValid("ports") => RowsApart(portRows)
    /\ StepIsValid("mounts") => MountsApart
    /\ StepIsValid("resources") => "resources" \notin invalid
<1>1. StepIsValid("ports") => RowsApart(portRows)
  <2> SUFFICES ASSUME StepIsValid("ports"), NEW i \in DOMAIN portRows, portRows[i].port # 0,
                      DuplicateRow(portRows, i)
               PROVE  FALSE
    BY DEF RowsApart
  <2>1. PortRowError(portRows, i) = Empty
    BY DEF StepIsValid
  <2>2. PortRowError(portRows, i) = "portDuplicateInRequest"
    BY DEF PortRowError
  <2> QED
    BY <2>1, <2>2 DEF Empty
<1> QED
  BY <1>1 DEF StepIsValid, MountsApart

\* The rows a clone starts from are port rows.
LEMMA ClonedRows ==
    ASSUME NEW x \in Listings
    PROVE  SetToSeq(x.published) \in Seq(RowSet)
<1> DEFINE P == x.published
<1>1. P \subseteq RowSet
  <2>1. P \subseteq Bindings
    BY ListingFields
  <2> HIDE DEF P
  <2> QED
    BY <2>1 DEF Bindings, RowSet
<1>2. IsFiniteSet(P)
  <2> DEFINE D == Ports \X HostIps
             f == [t \in D |-> [port |-> t[1], ip |-> t[2]]]
  <2>1. IsFiniteSet(HostIps)
    <3>1. IsFiniteSet(Addresses \cup {""})
      BY AddressesAssumption, FS_AddElement
    <3>2. IsFiniteSet((Addresses \cup {""}) \cup {"::"})
      BY <3>1, FS_AddElement
    <3>3. HostIps = (Addresses \cup {""}) \cup {"::"}
      BY DEF HostIps
    <3> QED
      BY <3>2, <3>3
  <2>2. IsFiniteSet(D)
    BY <2>1, FiniteEntries, FS_Product
  <2>3. f \in Surjection(D, Bindings)
    <3>1. f \in [D -> Bindings]
      BY DEF Bindings
    <3>2. ASSUME NEW b \in Bindings PROVE \E t \in D : f[t] = b
      <4> DEFINE t == <<b.port, b.ip>>
      <4>1. t \in D /\ b = [port |-> b.port, ip |-> b.ip]
        BY DEF Bindings
      <4>2. f[t] = [port |-> b.port, ip |-> b.ip]
        BY <4>1
      <4> HIDE DEF t, f, D
      <4> QED
        BY <4>1, <4>2
    <3> HIDE DEF f, D
    <3> QED
      BY <3>1, <3>2 DEF Surjection
  <2> HIDE DEF f, D
  <2>4. IsFiniteSet(Bindings)
    BY <2>2, <2>3, FS_Surjection
  <2>5. P \subseteq Bindings
    BY ListingFields
  <2> HIDE DEF P
  <2> QED
    BY <2>4, <2>5, FS_Subset
<1> HIDE DEF P
<1>3. SetToSeq(P) \in Seq(P)
  BY <1>2, SetToSeqElements
<1> QED
  BY <1>1, <1>3 DEF P

\* The form starts empty.
LEMMA WizardInitial ==
    ASSUME Init
    PROVE  WizardInv
<1>1. portRows \in Seq(RowSet)
  BY DEF Init
<1>2. mountRows \in Seq(Destinations \cup {Empty})
  BY DEF Init
<1>3. listed \in [Neighbours -> Listings]
  BY DEF Init, Listings
<1>4. open \in BOOLEAN /\ busy \in BOOLEAN
  BY DEF Init
<1>5. step \in 1 .. 8 /\ image \in Images \cup {Empty} /\ name \in Names \cup {Empty} /\ invalid \subseteq TypedSteps
  BY DEF Init
<1>6. FormType
  BY <1>1, <1>2, <1>3, <1>4, <1>5 DEF FormType
<1> QED
  BY <1>6 DEF Init, WizardInv, StepsPassed

\* A fresh page shows the first step: nothing has been passed yet.
LEMMA FreshPage ==
    ASSUME FormType, UNCHANGED <<listVars, busy>>,
           NEW i \in Images \cup {Empty}, NEW n \in Names \cup {Empty}, NEW table \in Seq(RowSet),
           Reset(i, n, table)
    PROVE  WizardInv'
<1>1. mountRows' \in Seq(Destinations \cup {Empty})
  BY DEF Reset
<1>2. portRows' \in Seq(RowSet)
  BY DEF Reset
<1>3. /\ open' \in BOOLEAN /\ busy' \in BOOLEAN /\ step' \in 1 .. 8 /\ listed' \in [Neighbours -> Listings]
      /\ image' \in Images \cup {Empty} /\ name' \in Names \cup {Empty} /\ invalid' \subseteq TypedSteps
  BY DEF Reset, FormType, listVars
<1>4. FormType'
  BY <1>1, <1>2, <1>3 DEF FormType
<1> QED
  BY <1>4 DEF WizardInv, StepsPassed, Reset

\* Editing the port rows on their step.
LEMMA PortRowsStep ==
    ASSUME WizardInv, NEW table \in Seq(RowSet), PortRowsEdited(table)
    PROVE  WizardInv'
<1>1. portRows' = table /\ step = 5
  BY ShownStep DEF PortRowsEdited, WizardInv, FormType
<1>2. FormType'
  BY <1>1 DEF WizardInv, FormType, PortRowsEdited, listVars
<1>3. StepsPassed'
  BY <1>1 DEF WizardInv, StepsPassed, PortRowsEdited
<1> QED
  BY <1>2, <1>3 DEF WizardInv

\* Editing the mount rows on their step.
LEMMA MountRowsStep ==
    ASSUME WizardInv, NEW table \in Seq(Destinations \cup {Empty}), MountRowsEdited(table)
    PROVE  WizardInv'
<1>1. mountRows' = table /\ step = 6
  BY ShownStep DEF MountRowsEdited, WizardInv, FormType
<1>2. FormType'
  BY <1>1 DEF WizardInv, FormType, MountRowsEdited, listVars
<1>3. StepsPassed'
  BY <1>1 DEF WizardInv, StepsPassed, MountRowsEdited, RowsApart
<1> QED
  BY <1>2, <1>3 DEF WizardInv

\* A jump ahead passes valid steps only, and one back passes none.
LEMMA MovesPassValidSteps ==
    ASSUME WizardInv, NEW target \in 1 .. 8, MoveTo(target),
           \A s \in step .. target - 1 : StepIsValid(StepKeys[s])
    PROVE  WizardInv'
<1>1. /\ open /\ open' /\ step' = target /\ step \in 1 .. 8
      /\ portRows' = portRows /\ mountRows' = mountRows /\ invalid' = invalid
  BY DEF MoveTo, WizardInv, FormType, formVars
<1>2. FormType'
  BY DEF WizardInv, FormType, MoveTo, formVars, listVars
<1>3. target > 3 => "environment" \notin invalid
  <2>1. CASE step > 3
    BY <1>1, <2>1 DEF WizardInv, StepsPassed
  <2>2. ASSUME target > 3, ~ (step > 3) PROVE StepIsValid(StepKeys[3])
    BY <1>1, <2>2
  <2> QED
    BY <2>1, <2>2, ValidSteps, StepPlaces
<1>4. target > 5 => RowsApart(portRows)
  <2>1. CASE step > 5
    BY <1>1, <2>1 DEF WizardInv, StepsPassed
  <2>2. ASSUME target > 5, ~ (step > 5) PROVE StepIsValid(StepKeys[5])
    BY <1>1, <2>2
  <2> QED
    BY <2>1, <2>2, ValidSteps, StepPlaces
<1>5. target > 6 => MountsApart
  <2>1. CASE step > 6
    BY <1>1, <2>1 DEF WizardInv, StepsPassed
  <2>2. ASSUME target > 6, ~ (step > 6) PROVE StepIsValid(StepKeys[6])
    BY <1>1, <2>2
  <2> QED
    BY <2>1, <2>2, ValidSteps, StepPlaces
<1>6. target > 7 => "resources" \notin invalid
  <2>1. CASE step > 7
    BY <1>1, <2>1 DEF WizardInv, StepsPassed
  <2>2. ASSUME target > 7, ~ (step > 7) PROVE StepIsValid(StepKeys[7])
    BY <1>1, <2>2
  <2> QED
    BY <2>1, <2>2, ValidSteps, StepPlaces
<1>7. RowsApart(portRows)' = RowsApart(portRows) /\ MountsApart' = MountsApart
  BY <1>1 DEF RowsApart, MountsApart, DuplicateRow
<1>8. StepsPassed'
  BY <1>1, <1>3, <1>4, <1>5, <1>6, <1>7 DEF StepsPassed
<1> QED
  BY <1>2, <1>8 DEF WizardInv

\* Every step of the page, of the lists and of the request keeps the invariant.
LEMMA WizardStep ==
    ASSUME WizardInv, [Next]_vars
    PROVE  WizardInv'
<1> USE DEF WizardInv
<1>1. CASE UNCHANGED vars
  BY <1>1 DEF FormType, StepsPassed, MountsApart, vars, formVars, listVars
<1>2. ASSUME NEW i \in Images \cup {Empty}, OpenPage(i) PROVE WizardInv'
  <2>1. <<>> \in Seq(RowSet)
    OBVIOUS
  <2>2. Empty \in Names \cup {Empty}
    OBVIOUS
  <2> DEFINE none == <<>>
             blank == Empty
  <2>3. Reset(i, blank, none) /\ UNCHANGED <<listVars, busy>> /\ none \in Seq(RowSet) /\ blank \in Names \cup {Empty}
    BY <1>2, <2>1, <2>2 DEF OpenPage
  <2> HIDE DEF none, blank
  <2> QED
    BY <2>3, FreshPage
<1>3. ASSUME NEW c \in Neighbours, NEW i \in Images, NEW n \in Names, CloneContainer(c, i, n)
      PROVE  WizardInv'
  <2> DEFINE cloned == SetToSeq(listed[c].published)
  <2>1. listed[c] \in Listings
    BY DEF FormType
  <2> DEFINE x == listed[c]
  <2>2. SetToSeq(x.published) \in Seq(RowSet)
    <3> HIDE DEF x
    <3> QED
      BY <2>1, ClonedRows DEF x
  <2>3. Reset(i, n, cloned) /\ UNCHANGED <<listVars, busy>> /\ cloned \in Seq(RowSet)
    BY <1>3, <2>2 DEF CloneContainer
  <2>4. i \in Images \cup {Empty} /\ n \in Names \cup {Empty}
    OBVIOUS
  <2> HIDE DEF cloned
  <2> QED
    BY <2>3, <2>4, FreshPage
<1>4. CASE CancelPage
  BY <1>4 DEF CancelPage, FormType, StepsPassed, formVars, listVars
<1>5. ASSUME NEW i \in Images \cup {Empty}, NEW pull \in BOOLEAN, EditImage(i, pull) PROVE WizardInv'
  BY <1>5 DEF EditImage, FormType, StepsPassed, MountsApart, listVars
<1>6. ASSUME NEW n \in Names \cup {Empty}, EditName(n) PROVE WizardInv'
  BY <1>6 DEF EditName, FormType, StepsPassed, MountsApart, listVars
<1>7. ASSUME NEW key \in TypedSteps, NEW ok \in BOOLEAN, EditFields(key, ok) PROVE WizardInv'
  <2>1. (key = "environment" /\ step = 3) \/ (key = "resources" /\ step = 7)
    BY <1>7, TypedAssumption, ShownStep DEF EditFields, FormType
  <2>2. FormType'
    BY <1>7 DEF EditFields, FormType, listVars
  <2>3. StepsPassed'
    BY <1>7, <2>1 DEF EditFields, StepsPassed, MountsApart
  <2> QED
    BY <2>2, <2>3
<1>8. CASE AddPortRow
  <2> DEFINE table == Append(portRows, [port |-> 0, ip |-> Empty])
  <2>1. portRows \in Seq(RowSet) /\ [port |-> 0, ip |-> Empty] \in RowSet
    BY EmptyAddress DEF FormType, RowSet
  <2>2. table \in Seq(RowSet)
    <3> HIDE DEF RowSet
    <3> QED
      BY <2>1
  <2>3. PortRowsEdited(table)
    BY <1>8 DEF AddPortRow
  <2> HIDE DEF table
  <2> QED
    BY <2>2, <2>3, PortRowsStep
<1>9. ASSUME NEW i \in DOMAIN portRows, NEW row \in PortRow, SetPortRow(i, row) PROVE WizardInv'
  <2> DEFINE table == [portRows EXCEPT ![i] = row]
  <2>1. portRows \in Seq(RowSet) /\ row \in RowSet
    BY EmptyAddress DEF FormType, RowSet, HostIps, PortRow
  <2>2. table \in Seq(RowSet)
    BY <2>1
  <2>3. PortRowsEdited(table)
    BY <1>9 DEF SetPortRow
  <2> HIDE DEF table
  <2> QED
    BY <2>2, <2>3, PortRowsStep
<1>10. ASSUME NEW i \in DOMAIN portRows, RemovePortRow(i) PROVE WizardInv'
  <2> DEFINE old == portRows
             table == RemoveAt(old, i)
  <2>1. old \in Seq(RowSet) /\ i \in 1 .. Len(old)
    BY DEF FormType
  <2>2. table \in Seq(RowSet)
    <3> HIDE DEF old
    <3> QED
      BY <2>1, RemoveAtShape
  <2>3. PortRowsEdited(table)
    BY <1>10 DEF RemovePortRow
  <2> HIDE DEF table
  <2> QED
    BY <2>2, <2>3, PortRowsStep
<1>11. CASE AddMountRow
  <2> DEFINE table == Append(mountRows, Empty)
  <2>1. table \in Seq(Destinations \cup {Empty})
    BY DEF FormType
  <2>2. MountRowsEdited(table)
    BY <1>11 DEF AddMountRow
  <2> HIDE DEF table
  <2> QED
    BY <2>1, <2>2, MountRowsStep
<1>12. ASSUME NEW d \in Destinations, AddMountFromPreset(d) PROVE WizardInv'
  <2> DEFINE table == Append(mountRows, d)
  <2>1. table \in Seq(Destinations \cup {Empty})
    BY DEF FormType
  <2>2. MountRowsEdited(table)
    BY <1>12 DEF AddMountFromPreset
  <2> HIDE DEF table
  <2> QED
    BY <2>1, <2>2, MountRowsStep
<1>13. ASSUME NEW i \in DOMAIN mountRows, NEW d \in Destinations \cup {Empty}, SetMountRow(i, d) PROVE WizardInv'
  <2> DEFINE table == [mountRows EXCEPT ![i] = d]
  <2>1. table \in Seq(Destinations \cup {Empty})
    BY DEF FormType
  <2>2. MountRowsEdited(table)
    BY <1>13 DEF SetMountRow
  <2> HIDE DEF table
  <2> QED
    BY <2>1, <2>2, MountRowsStep
<1>14. ASSUME NEW i \in DOMAIN mountRows, RemoveMountRow(i) PROVE WizardInv'
  <2> DEFINE old == mountRows
             S == Destinations \cup {Empty}
             table == RemoveAt(old, i)
  <2>1. old \in Seq(S) /\ i \in 1 .. Len(old)
    BY DEF FormType
  <2>2. table \in Seq(S)
    <3> HIDE DEF old, S
    <3> QED
      BY <2>1, RemoveAtShape
  <2>3. MountRowsEdited(table)
    BY <1>14 DEF RemoveMountRow
  <2> HIDE DEF table
  <2> QED
    BY <2>2, <2>3, MountRowsStep
<1>15. CASE NextStep
  <2> DEFINE target == step + 1
  <2>1. /\ step \in 1 .. 7 /\ step \in 1 .. 8 /\ target \in 1 .. 8
        /\ StepIsValid(StepKeys[step]) /\ MoveTo(target)
    BY <1>15, StepPlaces DEF NextStep, FormType
  <2>2. \A s \in step .. target - 1 : s = step
    BY <2>1
  <2>3. \A s \in step .. target - 1 : StepIsValid(StepKeys[s])
    BY <2>1, <2>2
  <2> HIDE DEF target
  <2> QED
    BY <2>1, <2>3, MovesPassValidSteps
<1>16. CASE PreviousStep
  <2> DEFINE target == step - 1
  <2>1. step \in 1 .. 8 /\ target \in 1 .. 8 /\ MoveTo(target)
    BY <1>16 DEF PreviousStep, FormType
  <2>2. \A s \in step .. target - 1 : StepIsValid(StepKeys[s])
    BY <2>1
  <2> HIDE DEF target
  <2> QED
    BY <2>1, <2>2, MovesPassValidSteps
<1>17. ASSUME NEW target \in DOMAIN StepKeys, GoToStep(target) PROVE WizardInv'
  <2>1. target \in 1 .. 8 /\ MoveTo(target) /\ \A s \in step .. target - 1 : StepIsValid(StepKeys[s])
    BY <1>17, StepPlaces DEF GoToStep
  <2> QED
    BY <2>1, MovesPassValidSteps
<1>18. CASE Submit
  BY <1>18 DEF Submit, FormType, StepsPassed, MountsApart, formVars, listVars
<1>19. ASSUME NEW ok \in BOOLEAN, CreateAnswered(ok) PROVE WizardInv'
  BY <1>19 DEF CreateAnswered, FormType, StepsPassed, MountsApart, formVars, listVars
<1>20. ASSUME NEW c \in Neighbours, NEW listing \in NeighbourListings, ContainersArrive(c, listing)
       PROVE  WizardInv'
  <2>1. listed' \in [Neighbours -> Listings]
    BY <1>20, ListingsAssumption DEF ContainersArrive, FormType
  <2> QED
    BY <1>20, <2>1 DEF ContainersArrive, FormType, StepsPassed, MountsApart, formVars
<1>21. ASSUME NEW S \in SUBSET Images, ImagesArrive(S) PROVE WizardInv'
  BY <1>21 DEF ImagesArrive, FormType, StepsPassed, MountsApart, formVars
<1> HIDE DEF WizardInv
<1> QED
  BY <1>1, <1>2, <1>3, <1>4, <1>5, <1>6, <1>7, <1>8, <1>9, <1>10, <1>11, <1>12, <1>13, <1>14, <1>15,
     <1>16, <1>17, <1>18, <1>19, <1>20, <1>21 DEF Next

(* What the passed steps checked of the form is still true of it: whatever   *)
(* way led to a step, every step before it was left forward while valid, or  *)
(* had been passed already (goToStep(), nextStep(), previousStep()).         *)
THEOREM PassedStepsStayPassed == Spec => []WizardInv
<1>1. Init => WizardInv
  BY WizardInitial
<1>2. WizardInv /\ [Next]_vars => WizardInv'
  BY WizardStep
<1> QED
  BY <1>1, <1>2, PTL DEF Spec

\* A free port at a row resolves its conflict.
LEMMA FreePortResolves ==
    ASSUME FormType, NEW i \in DOMAIN portRows, Suggestion(portRows, i) # 0
    PROVE  PortRowError([portRows EXCEPT ![i].port = Suggestion(portRows, i)], i) = Empty
<1> DEFINE after == portRows[i].port
           extra == OtherPorts(portRows, i)
           p == Suggestion(portRows, i)
           table == [portRows EXCEPT ![i].port = p]
<1>1. portRows[i] \in RowSet /\ portRows \in Seq(RowSet)
  BY DEF FormType
<1>2. after \in Nat
  BY <1>1, PortsAssumption DEF RowSet
<1>3. p = NextFreePort(listed, after, extra)
  BY DEF Suggestion
<1>4. listed \in [Neighbours -> Listings]
  BY DEF FormType
<1>5. p \in Ports /\ p > after /\ p \notin extra /\ \A ip : HolderFor(listed, ip, p) = NoHolder
  <2> DEFINE l == listed
  <2>1. l \in [Neighbours -> Listings] /\ NextFreePort(l, after, extra) # 0
    BY <1>3, <1>4
  <2> HIDE DEF l, after, extra
  <2>2. LET q == NextFreePort(l, after, extra)
        IN  q \in Ports /\ q > after /\ q \notin extra /\ \A ip : HolderFor(l, ip, q) = NoHolder
    BY <1>2, <2>1, NextFreePortIsFree
  <2> HIDE DEF p
  <2> QED
    BY <1>3, <2>2 DEF l
<1>6. /\ DOMAIN table = DOMAIN portRows
      /\ table[i].port = p /\ table[i].ip = portRows[i].ip
      /\ \A j \in DOMAIN portRows \ {i} : table[j] = portRows[j]
  <2> HIDE DEF p
  <2> QED
    BY <1>1 DEF RowSet
<1>7. p # 0
  BY <1>5, PortsAssumption
<1>8. \A j \in DOMAIN portRows \ {i} : portRows[j].port # p
  <2> SUFFICES ASSUME NEW j \in DOMAIN portRows \ {i}, portRows[j].port = p PROVE FALSE
    OBVIOUS
  <2> HIDE DEF p
  <2>1. p \in OtherPorts(portRows, i)
    BY <1>7 DEF OtherPorts
  <2> QED
    BY <1>5, <2>1
<1> HIDE DEF p, table
<1>9. ~ DuplicateRow(table, i)
  BY <1>6, <1>8 DEF DuplicateRow
<1>10. HolderFor(listed, table[i].ip, table[i].port) = NoHolder
  BY <1>5, <1>6
<1>11. table[i].port # 0
  BY <1>6, <1>7
<1>12. PortRowError(table, i) = Empty
  BY <1>9, <1>10, <1>11 DEF PortRowError
<1> QED
  BY <1>12 DEF table, p

(* A suggested port resolves the conflict of its row: suggestedPort() skips   *)
(* the ports in use and those of the other rows, over the lists of the moment.*)
THEOREM SuggestionsResolve == Spec => []SuggestionIsFree
<1>1. WizardInv => SuggestionIsFree
  BY FreePortResolves DEF WizardInv, SuggestionIsFree
<1> QED
  BY <1>1, PassedStepsStayPassed, PTL

\* What a request sent from the summary holds.
LEMMA SubmittedForm ==
    ASSUME WizardInv, Submit
    PROVE  /\ image \in Images /\ (pullIfMissing \/ image \in local)
           /\ name \in Names \ Existing(listed)
           /\ \A i, j \in DOMAIN portRows :
                 i # j /\ portRows[i].port = portRows[j].port /\ portRows[i].port # 0
                    => ~ HostBindingsOverlap(portRows[i].ip, portRows[j].ip)
           /\ \A c \in Holding(listed) : \A b \in listed[c].published, i \in DOMAIN portRows :
                 b.port = portRows[i].port => ~ HostBindingsOverlap(b.ip, portRows[i].ip)
           /\ ToSet(mountRows) \subseteq Destinations /\ IsInjective(mountRows)
           /\ invalid = {}
<1>1. step = 8 /\ open
  BY ShownStep DEF Submit, OnStep, WizardInv, FormType
<1>2. CreateAccepted
  BY DEF Submit
<1>3. "environment" \notin invalid /\ "resources" \notin invalid /\ RowsApart(portRows) /\ MountsApart
  BY <1>1 DEF WizardInv, StepsPassed
<1>4. image \in Images /\ (pullIfMissing \/ image \in local)
  BY <1>2 DEF CreateAccepted, ImageExistsLocally, WizardInv, FormType
<1>5. name \in Names \ Existing(listed)
  BY <1>2 DEF CreateAccepted, ContainerNameTaken, WizardInv, FormType
<1>6. ASSUME NEW i \in DOMAIN portRows, NEW j \in DOMAIN portRows,
             i # j, portRows[i].port = portRows[j].port, portRows[i].port # 0
      PROVE  ~ HostBindingsOverlap(portRows[i].ip, portRows[j].ip)
  <2>1. ~ DuplicateRow(portRows, j)
    BY <1>3, <1>6 DEF RowsApart
  <2> QED
    BY <1>6, <2>1 DEF DuplicateRow
<1>7. ASSUME NEW c \in Holding(listed), NEW b \in listed[c].published, NEW i \in DOMAIN portRows,
             b.port = portRows[i].port, HostBindingsOverlap(b.ip, portRows[i].ip)
      PROVE  FALSE
  <2> DEFINE l == listed
             ip == portRows[i].ip
             p == portRows[i].port
  <2>1. l \in [Neighbours -> Listings]
    BY DEF WizardInv, FormType
  <2>2. Held(l, ip, p)
    BY <1>7 DEF Held
  <2>3. p # 0
    <3>1. listed[c] \in Listings
      BY <2>1 DEF Holding, Existing
    <3> DEFINE x == listed[c]
    <3>2. x.published \subseteq Bindings
      <4> HIDE DEF x
      <4> QED
        BY <3>1, ListingFields DEF x
    <3>3. b.port \in Ports
      BY <3>2 DEF Bindings
    <3> QED
      BY <1>7, <3>3, PortsAssumption
  <2>4. HolderFor(l, ip, p) = NoHolder
    BY <1>2, <2>3 DEF CreateAccepted
  <2> HIDE DEF l, ip, p
  <2> QED
    BY <2>1, <2>2, <2>4, HolderIsThere
<1>8. ToSet(mountRows) \subseteq Destinations /\ IsInjective(mountRows)
  <2>1. ToSet(mountRows) \subseteq Destinations \cup {Empty}
    BY DEF WizardInv, FormType, ToSet
  <2> QED
    BY <1>3, <2>1 DEF MountsApart
<1>9. invalid = {}
  BY <1>3, TypedAssumption DEF WizardInv, FormType
<1> QED
  BY <1>4, <1>5, <1>6, <1>7, <1>8, <1>9

(* A request that is sent is sound, whatever way led to the summary and       *)
(* whatever the lists became: the passed steps vouch for what                 *)
(* createContainer() does not check, and it checks again what depends on the  *)
(* lists.                                                                     *)
THEOREM RequestsAreSound == Spec => RequestIsSound
<1>1. ASSUME WizardInv, [Next]_vars, ~ busy, busy' PROVE Submit
  <2>1. Next
    BY <1>1 DEF vars
  <2>2. \/ busy' = busy \/ busy' = FALSE \/ Submit
    BY <2>1 DEF Next, OpenPage, CloneContainer, CancelPage, EditImage, EditName, EditFields, PortRowsEdited,
       AddPortRow, SetPortRow, RemovePortRow, MountRowsEdited, AddMountRow, AddMountFromPreset, SetMountRow,
       RemoveMountRow, MoveTo, NextStep, PreviousStep, GoToStep, CreateAnswered, ContainersArrive, ImagesArrive
  <2> QED
    BY <1>1, <2>2
<1>2. WizardInv /\ [Next]_vars =>
        [~ busy /\ busy' =>
          /\ image \in Images /\ (pullIfMissing \/ image \in local)
          /\ name \in Names \ Existing(listed)
          /\ \A i, j \in DOMAIN portRows : i # j /\ portRows[i].port = portRows[j].port /\ portRows[i].port # 0
                => ~HostBindingsOverlap(portRows[i].ip, portRows[j].ip)
          /\ \A c \in Holding(listed) : \A b \in listed[c].published, i \in DOMAIN portRows :
                b.port = portRows[i].port => ~HostBindingsOverlap(b.ip, portRows[i].ip)
          /\ ToSet(mountRows) \subseteq Destinations /\ IsInjective(mountRows)
          /\ invalid = {}]_vars
  BY <1>1, SubmittedForm
<1> QED
  BY <1>2, PassedStepsStayPassed, PTL DEF Spec, RequestIsSound
==============================================================================

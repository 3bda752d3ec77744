--------------------------- MODULE HostPortUsage ---------------------------
(* What a container list says of the host ports: the port entries, who holds *)
(* a port, which port is free (src/model/host_port_usage.cpp,                *)
(* port_binding_rules.cpp).  A container publishes container port p as host  *)
(* port p; times, texts and protocols are left out.                          *)
EXTENDS SequenceParts, SequencesExt

CONSTANTS Neighbours,       \* containers that exist beside the page
          Ports,            \* host ports; the first is the first suggested one
          Addresses,        \* the specific host addresses
          NeighbourListings,\* what a container may publish and declare in a list
          OneAddress        \* whether a container publishes a port on one specific address at most

ASSUME PortsAssumption == Ports # {} /\ \A p \in Ports : p \in Nat /\ 1 <= p /\ p <= 65535
ASSUME AddressesAssumption == Addresses \cap {"", "::"} = {} /\ IsFiniteSet(Addresses)
ASSUME NeighboursAssumption == IsFiniteSet(Neighbours) /\ "nobody" \notin Neighbours

VARIABLE listed     \* the container list: what each container publishes and declares, or Absent

Absent == [state |-> "absent", published |-> {}, declared |-> {}]
NoHolder == "nobody"
-----------------------------------------------------------------------------
(* Binding rules: an address is "" (every IPv4 address), "::" (every IPv6     *)
(* address) or a specific one.                                                *)
HostIps == Addresses \cup {"", "::"}
IsWildcardAddress(ip) == ip \in {"", "::"}
\* Fault: only the same address overlaps.
SameAddress(lhs, rhs) == lhs = rhs
HostBindingsOverlap(lhs, rhs) == IsWildcardAddress(lhs) \/ IsWildcardAddress(rhs) \/ lhs = rhs

(* A listed container: a running one publishes ports, and every one declares  *)
(* them.  What is published was declared for that port.                       *)
Bindings == [port : Ports, ip : HostIps]
SpecificTwice(published) ==
    \E b, c \in published : b # c /\ b.port = c.port
                            /\ ~IsWildcardAddress(b.ip) /\ ~IsWildcardAddress(c.ip)
Publications ==
    {P \in SUBSET Bindings :
        /\ Cardinality(P) <= 2
        /\ \A b, c \in P : b # c /\ b.port = c.port => {b.ip, c.ip} = {"", "::"} \/ SpecificTwice({b, c})
        /\ OneAddress => ~SpecificTwice(P)}
Declarations ==
    {{}} \cup {{d} : d \in {r \in [port : Ports, last : Ports, ip : {""}] : r.port <= r.last}}
Listings == {Absent} \cup [state : {"running"}, published : Publications, declared : Declarations]
                     \cup [state : {"exited"}, published : {{}}, declared : Declarations]
ASSUME ListingsAssumption == NeighbourListings \subseteq Listings

(* The daemon lets no two containers have the same address of a port, and the *)
(* specific addresses are of IPv4.                                            *)
Apart(ip1, ip2) == ip1 # ip2 /\ ("" \in {ip1, ip2} => "::" \in {ip1, ip2})
Possible(l) ==
    \A c, d \in Neighbours : \A b \in l[c].published, e \in l[d].published :
        c # d /\ b.port = e.port => Apart(b.ip, e.ip)

Existing(l) == {c \in DOMAIN l : l[c] # Absent}
Holding(l)  == {c \in Existing(l) : l[c].state = "running"}       \* holdsHostPorts()
-----------------------------------------------------------------------------
(* HostPortUsage::entriesFor(): what is published, the two wildcards of a     *)
(* port merged, then what is declared and not published.                      *)
Entry(c, first, last, ip, state) ==
    [container |-> c, port |-> first, last |-> last,
     ip |-> IF IsWildcardAddress(ip) THEN "" ELSE ip, state |-> state]

PublishedEntries(l) ==
    UNION {{Entry(c, b.port, b.port, b.ip, "inUse") : b \in l[c].published} : c \in Holding(l)}

TakenByOther(l, c, binding) ==
    \E e \in PublishedEntries(l) :
        /\ e.container # c
        /\ e.port <= binding.last /\ e.last >= binding.port
        /\ HostBindingsOverlap(e.ip, binding.ip)

DeclaredEntries(l) ==
    LET IsPublished(c, b) == \E e \in PublishedEntries(l) :
            e.container = c /\ e.port = b.port /\ HostBindingsOverlap(e.ip, b.ip)
        State(c, b) == CASE c \in Holding(l) -> "declaredNotPublished"
                         [] c \notin Holding(l) /\ TakenByOther(l, c, b) -> "reservedTaken"
                         [] OTHER -> "reserved"
    IN  UNION {{Entry(c, b.port, b.last, b.ip, State(c, b)) : b \in {d \in l[c].declared : ~IsPublished(c, d)}}
               : c \in Existing(l)}

(* std::sort by port and container name; entries it does not order come in    *)
(* any fixed order.                                                           *)
NameOrder == SetToSeq(Neighbours)
Rank == [c \in Neighbours |-> CHOOSE i \in DOMAIN NameOrder : NameOrder[i] = c]
EntriesFor(l) ==
    LET found == SetToSeq(PublishedEntries(l) \cup DeclaredEntries(l))
        Before(d, e) == d.port < e.port \/ (d.port = e.port /\ Rank[d.container] < Rank[e.container])
        sorted[n \in 0 .. Len(found)] ==
            IF n = 0 THEN <<>>
            ELSE LET front == sorted[n - 1]
                 IN  InsertAt(front, 1 + Cardinality({i \in DOMAIN front : ~Before(found[n], front[i])}), found[n])
    IN  sorted[Len(found)]

(* holderFor(), for hostPort > 0.                                             *)
HolderFor(l, ip, port) ==
    LET Holders == {c \in Holding(l) : \E b \in l[c].published :
                        b.port = port /\ HostBindingsOverlap(b.ip, ip)}
    IN  IF Holders = {} THEN NoHolder ELSE CHOOSE c \in Holders : TRUE

(* nextFreePort(): the first port after one that no entry of the published    *)
(* ports and no extra port uses, 0 if there is none.                          *)
NextFreePort(l, after, extraUsed) ==
    LET Used == {e.port : e \in PublishedEntries(l)} \cup extraUsed
        Free == {p \in Ports : p > after} \ Used
    IN  IF Free = {} THEN 0 ELSE CHOOSE p \in Free : \A q \in Free : p <= q

(* entryForPort(), for a tile of the port map: the state that goes first.     *)
StatePriority == [s \in {"inUse", "reservedTaken", "reserved", "declaredNotPublished"} |->
                    CASE s = "inUse" -> 4 [] s = "reservedTaken" -> 3 [] s = "reserved" -> 2
                      [] s = "declaredNotPublished" -> 1]
StateForPort(entries, port) ==
    LET States == {e.state : e \in {d \in ToSet(entries) : d.port <= port /\ port <= d.last}}
    IN  IF States = {} THEN "" ELSE CHOOSE s \in States : \A t \in States : StatePriority[t] <= StatePriority[s]
=============================================================================

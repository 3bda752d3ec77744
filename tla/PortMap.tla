------------------------------ MODULE PortMap ------------------------------
(***************************************************************************)
(* The map of the ports page: the rows of the port table pass the filter   *)
(* of the page, neighbouring ports are clustered into ranges, and each     *)
(* range gets a tile per port (HostPortFilterModel, clusterRanges() and    *)
(* StatusController::portRanges()).  The ranges are computed when the page *)
(* reads them and kept until something they depend on changes.             *)
(*                                                                         *)
(* Port numbers have MaxPort + 1 values, 2^16 in the code.  The search     *)
(* text, which is one more filter, and the sort key are left out.          *)
(***************************************************************************)
EXTENDS HostPorts

CONSTANTS
    MaxPort,        \* the largest port number
    Gap,            \* clusterRanges(): used ports further apart than this are not joined
    Margin,         \* free ports shown on each side of a range
    TilesPerRange,  \* tiles drawn of a range
    Filters         \* the filters offered beside "all"

ASSUME MapAssumption ==
    /\ MaxPort \in Nat /\ \A p \in Ports : p < MaxPort
    /\ Gap \in Nat /\ Margin \in Nat /\ TilesPerRange \in Nat \ {0}
    /\ 2 * Margin <= Gap + 1

VARIABLES
    stateFilter,  \* HostPortFilterModel::m_stateFilter
    mapped        \* the set of m_portRanges alone, NoMap while m_portRangesDirty

mapVars == <<portVars, stateFilter, mapped>>

NoMap == {}

\* preferredMatches() and the state part of filterAcceptsRow(): "not started" takes both.
Selects(filter, state) == state = filter \/ (filter = "reserved" /\ state = "reservedTaken")

Filtered(filter, entries) ==
    IF filter = "all" THEN entries
    ELSE Picked(entries, {i \in DOMAIN entries : Selects(filter, entries[i].state)})

\* entryForPort(): the first of the entries whose state goes first.
EntryForPort(filter, entries, port) ==
    LET Covering == {i \in DOMAIN entries : port \in entries[i].port .. entries[i].last}
        Priority(i) == StatePriority[entries[i].state] + IF Selects(filter, entries[i].state) THEN 100 ELSE 0
    IN  entries[Min({i \in Covering : \A k \in Covering : Priority(k) <= Priority(i)})]

UsedPorts(entries) == UNION {e.port .. e.last : e \in ToSet(entries)}

\* Fault: the entries of a range are counted instead of its ports.
EntriesInRange(entries, first, last) ==
    Cardinality({i \in DOMAIN entries : entries[i].port <= last /\ entries[i].last >= first})

UsedInRange(entries, first, last) == Cardinality(UsedPorts(entries) \cap (first .. last))

\* clusterRanges()
ClusterRanges(entries) ==
    LET used == UsedPorts(entries)
        Starts == {p \in used : ~\E q \in used : q < p /\ p - q <= Gap + 1}
        LastUsed(p) == Max({q \in used : p <= q /\ Starts \cap (p + 1 .. q) = {}})
        Expanded(p) == Max({1, p - Margin}) .. Min({MaxPort, LastUsed(p) + Margin})
        SegmentOf(ports) ==
            [first |-> Min(ports), last |-> Max(ports),
             tileCount |-> Min({Cardinality(ports), TilesPerRange}),
             usedCount |-> UsedInRange(entries, Min(ports), Max(ports))]
    IN  {SegmentOf(Expanded(p)) : p \in Starts}

\* The tiles of a range; their end is computed with the width of a port number.
TilesOf(filter, entries, range) ==
    LET end == (range.first + range.tileCount) % (MaxPort + 1)
    IN  [port \in range.first .. end - 1 |->
            IF port \in UsedPorts(entries)
            THEN LET entry == EntryForPort(filter, entries, port)
                 IN  [state |-> entry.state,
                      container |-> IF entry.state = "inUse" THEN entry.container ELSE NoHolder]
            ELSE [state |-> "", container |-> NoHolder]]

\* portRanges(), when it computes
PortRanges(filter, entries) ==
    LET shown == Filtered(filter, entries)
    IN  {[range |-> r, tiles |-> TilesOf(filter, shown, r)] : r \in ClusterRanges(shown)}

-----------------------------------------------------------------------------

MapInit == PortsInit /\ stateFilter = "all" /\ mapped = NoMap

\* Fault: the map is only invalidated by countChanged() of the filtered rows.
RebuildPortsIfCounted(l) ==
    /\ ListArrives(l)
    /\ mapped' = IF Len(Filtered(stateFilter, rows')) = Len(Filtered(stateFilter, rows))
                 THEN mapped ELSE NoMap
    /\ UNCHANGED stateFilter

\* rebuildPorts()
RebuildPorts(l) ==
    /\ ListArrives(l)
    /\ mapped' = NoMap
    /\ UNCHANGED stateFilter

\* setStateFilter(), with the slot of stateFilterChanged()
SetStateFilter(filter) ==
    /\ stateFilter # filter
    /\ stateFilter' = filter
    /\ mapped' = NoMap
    /\ UNCHANGED portVars

\* The page reads the ranges; what is kept is returned as it is.
ReadPortRanges ==
    /\ mapped = NoMap
    /\ mapped' = {PortRanges(stateFilter, rows)}
    /\ UNCHANGED <<portVars, stateFilter>>

MapNext ==
    \/ \E l \in [Neighbours -> NeighbourListings] : RebuildPorts(l)
    \/ \E filter \in Filters \cup {"all"} : SetStateFilter(filter)
    \/ ReadPortRanges

MapSpec == MapInit /\ [][MapNext]_mapVars

-----------------------------------------------------------------------------

\* A map that is kept says of every tile what the container list says now: a tile is lit
\* exactly if a container listed with a state the filter takes uses the port, and a container
\* that a click on it opens is one that publishes the port.
MapIsCurrent ==
    \A map \in mapped : \A m \in map : \A port \in DOMAIN m.tiles :
        LET tile == m.tiles[port]
            Users == {e \in PublishedEntries(listed) \cup DeclaredEntries(listed) :
                        /\ port \in e.port .. e.last
                        /\ stateFilter = "all" \/ Selects(stateFilter, e.state)}
        IN  /\ tile.state # "" <=> Users # {}
            /\ tile.state # "" => \E e \in Users : tile.state = e.state
            /\ tile.container # NoHolder =>
                   \E b \in listed[tile.container].published : b.port = port

\* The ranges of the map are apart from each other, every port the filtered table uses is in
\* one of them, and the count in the title of a range with all its tiles is that of the lit
\* ones.
TitlesCountTiles ==
    \A map \in mapped :
        /\ \A m, n \in map : m # n => m.range.last < n.range.first \/ n.range.last < m.range.first
        /\ \A p \in UsedPorts(Filtered(stateFilter, rows)) :
               \E m \in map : p \in m.range.first .. m.range.last
        /\ \A m \in map :
               m.range.first + m.range.tileCount > m.range.last =>
                   m.range.usedCount = Cardinality({p \in DOMAIN m.tiles : m.tiles[p].state # ""})
=============================================================================

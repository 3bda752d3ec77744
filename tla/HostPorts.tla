----------------------------- MODULE HostPorts -----------------------------
(* The ports page: the port entries of the container list become rows that    *)
(* are synchronised by key (row_sync_plan.cpp, keyed_list_model.h,            *)
(* host_port_model.cpp).                                                      *)
EXTENDS HostPortUsage

VARIABLE rows       \* the rows of HostPortModel

portVars == <<listed, rows>>
-----------------------------------------------------------------------------
(* HostPortModel::keyFor(): the key of a row has no host address.             *)
KeyFor(entry) == <<entry.port, entry.container, entry.last>>
KeysOf(entries) == [i \in DOMAIN entries |-> KeyFor(entries[i])]
IndexOf(keys, key) ==
    IF key \in ToSet(keys) THEN Min({i \in DOMAIN keys : keys[i] = key}) ELSE 0

(* planRowSync() together with its execution in syncRows(): first the rows    *)
(* whose key is gone, back to front, then each position from the front.  A    *)
(* move to a row that does not exist is undefined; here it moves to the end.  *)
Gone(current, incoming, i) == KeyFor(current[i]) \notin ToSet(KeysOf(incoming))
\* Fault: the rows are removed front to back, so that the row after a removed one is skipped.
KeptFrontToBack(current, incoming) ==
    LET Removed[i \in DOMAIN current] == Gone(current, incoming, i) /\ (i = 1 \/ ~Removed[i - 1])
    IN  Picked(current, {i \in DOMAIN current : ~Removed[i]})
Kept(current, incoming) == Picked(current, {i \in DOMAIN current : ~Gone(current, incoming, i)})

MoveRow(items, from, to) ==
    LET others == RemoveAt(items, from)
    IN  InsertAt(others, IF to > Len(items) THEN Len(items) ELSE to, items[from])

PlaceRow(items, incoming, i) ==
    LET from == IndexOf(KeysOf(items), KeyFor(incoming[i]))
    IN  CASE from = 0 -> InsertAt(items, i, incoming[i])
          [] from = i -> items
          [] OTHER -> MoveRow(items, from, i)

PlaceRows(items, incoming) ==
    LET placed[i \in 0 .. Len(incoming)] ==
            IF i = 0 THEN items ELSE PlaceRow(placed[i - 1], incoming, i)
    IN  placed[Len(incoming)]

SyncRows(current, incoming) ==
    LET placed == PlaceRows(Kept(current, incoming), incoming)
    IN  [i \in DOMAIN placed |-> IF i \in DOMAIN incoming THEN incoming[i] ELSE placed[i]]

-----------------------------------------------------------------------------
PortsInit == listed = [c \in Neighbours |-> Absent] /\ rows = <<>>

(* A container list arrives.  Between two lists other clients may create,     *)
(* start, stop and remove any number of containers.                           *)
ListArrives(l) ==
    /\ Possible(l)
    /\ listed' = l
    /\ rows' = SyncRows(rows, EntriesFor(l))

PortsNext == \E l \in [Neighbours -> NeighbourListings] : ListArrives(l)

PortsSpec == PortsInit /\ [][PortsNext]_portVars

(* The rows are those of the list, in its order, however the page got there:  *)
(* what row_sync_plan.h promises of the plan.                                 *)
RowsShowEntries == rows = EntriesFor(listed)

(* The three answers about a port agree: the tile of the map says "in use"    *)
(* where a create would be refused, a stopped container is marked red where   *)
(* starting it would be refused, and a suggested port has no holder.          *)
AnswersAgree ==
    /\ \A p \in Ports : StateForPort(rows, p) = "inUse" <=> HolderFor(listed, "", p) # NoHolder
    /\ \A c \in Existing(listed) \ Holding(listed), b \in Bindings :
         [port |-> b.port, last |-> b.port, ip |-> b.ip] \in listed[c].declared
            => (TakenByOther(listed, c, [port |-> b.port, last |-> b.port, ip |-> b.ip])
                    <=> HolderFor(listed, b.ip, b.port) # NoHolder)
    /\ \A p \in Ports \cup {0}, ip \in HostIps :
         NextFreePort(listed, p, {}) # 0 => HolderFor(listed, ip, NextFreePort(listed, p, {})) = NoHolder
=============================================================================

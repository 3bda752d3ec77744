------------------------------ MODULE MCPortMap ------------------------------
(* PortMap with containers that publish nothing, one port on one address, on   *)
(* all of them or on both wildcards, or two ports, and declare nothing, one    *)
(* port or a range.                                                            *)
EXTENDS PortMap

At(port, ip) == [port |-> port, ip |-> ip]
MCPublished == {{}, {At(1, "lo")}, {At(1, "")}, {At(1, ""), At(1, "::")}, {At(4, "::")},
                {At(1, "lo"), At(4, "")}}
MCDeclared == {{}, {[port |-> 1, last |-> 1, ip |-> ""]}, {[port |-> 1, last |-> 4, ip |-> ""]}}
MCListings ==
    {Absent} \cup [state : {"running"}, published : MCPublished, declared : MCDeclared]
             \cup [state : {"exited"}, published : {{}}, declared : MCDeclared]
=============================================================================

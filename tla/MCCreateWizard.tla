--------------------------- MODULE MCCreateWizard ---------------------------
(* CreateWizard with one neighbour that may be absent, stopped, or running   *)
(* with no port, with one of three bindings or with both wildcards of a port.*)
EXTENDS CreateWizard

Running(published) == [state |-> "running", published |-> published, declared |-> {}]
MCListings ==
    {Absent, [Running({}) EXCEPT !.state = "exited"],
     Running({[port |-> 1, ip |-> ""]}), Running({[port |-> 2, ip |-> "lo"]}),
     Running({[port |-> 1, ip |-> ""], [port |-> 1, ip |-> "::"]})}
=============================================================================

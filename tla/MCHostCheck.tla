------------------------------- MODULE MCHostCheck --------------------------------
(* TLC instances of HostCheck: a configuration is given the events that can       *)
(* matter to what it is there for.                                                *)
EXTENDS HostCheck

Nobody == [h \in Host |-> {}]

\* A router and a server behind it.
Chain ==
    [parents |-> ("router" :> <<>>) @@ ("server" :> <<"router">>),
     masters |-> Nobody, demand |-> {}, watched |-> {},
     attempts |-> ("router" :> 2) @@ ("server" :> 2),
     soft |-> FALSE, translate |-> FALSE, most |-> 1, changes |-> 2,
     events |-> {"delay"}]

\* The server has one attempt: its parent is checked on the spot.
Serial1 == [Chain EXCEPT !.attempts = ("router" :> 2) @@ ("server" :> 1),
                         !.events = {"request"}]

\* The same for both, and the router is only checked on demand.
Serial2 == [Chain EXCEPT !.attempts = ("router" :> 1) @@ ("server" :> 1),
                         !.demand = {"router"},
                         !.events = {"request", "delay"}]

\* Checks of the server depend on the router.
Dependent == [Chain EXCEPT !.parents = [h \in Host |-> <<>>],
                           !.masters = [Nobody EXCEPT !["server"] = {"router"}],
                           !.attempts = [h \in Host |-> 2],
                           !.events = {"request", "switch"}]

\* One server, with everything that may be done to it; the router is not there.
Alone == [Chain EXCEPT !.parents = [h \in Host |-> <<>>], !.demand = {"router"},
                       !.watched = {"server"}, !.attempts = ("router" :> 1) @@ ("server" :> 3),
                       !.most = 2, !.changes = 1,
                       !.events = {"fork", "force", "attempts", "delay", "restart"}]
Reported == [Alone EXCEPT !.soft = TRUE, !.changes = 2,
                          !.events = {"passive", "restart"}]
Translated == [Chain EXCEPT !.translate = TRUE, !.events = {"passive"}]

All == {Chain, Serial1, Serial2, Dependent, Alone, Reported, Translated}
=================================================================================

--------------------------- MODULE MCRepository ---------------------------
(* A core with a log and a cloned map, and three extensions in the manner  *)
(* of extcmd (a host of commands), extnet and an application with a task,  *)
(* the last two with a command each; there are links of every kind.        *)
EXTENDS Repository

Plugin == {"nocritical", "keep", "post"}
Link(name, flags) == [name |-> name, info |-> FALSE, ctl |-> FALSE, flags |-> flags]
LinkCtl(name, flags) == [Link(name, flags) EXCEPT !.ctl = TRUE]
InfoLink(name) == [Link(name, Plugin) EXCEPT !.info = TRUE]
Class(iname, cname, flags) == [iname |-> iname, cname |-> cname, version |-> 1, flags |-> flags]

MCOrder == <<"core", "web", "net", "cmd">>
MCArray == [core |-> <<"log", "map">>, cmd |-> <<"host">>,
            net |-> <<"net", "echo">>, web |-> <<"web", "get">>]
MCInfo ==
    [log  |-> Class("iLog", "cLog", {"original"}),
     map  |-> Class("iMap", "cMap", {"clone"}),
     host |-> Class("iCmdHost", "cCmdHost", {"original"}),
     echo |-> Class("iCmd", "cEcho", {"original"}),
     net  |-> Class("iNet", "cNet", {"original"}),
     web  |-> Class("iWeb", "cWeb", {"original", "task"}),
     get  |-> Class("iCmd", "cGet", {"original"})]
MCLinks ==
    [log  |-> <<>>, map |-> <<>>, echo |-> <<>>, get |-> <<>>,
     host |-> <<Link("iMap", {"clone"}),
                LinkCtl("iCmd", {"original", "clone"} \cup Plugin)>>,
     net  |-> <<Link("iLog", {"original"}), Link("iCmdHost", {"original", "nocritical"})>>,
     web  |-> <<Link("iNet", {"original"}), InfoLink("iCmd")>>]
=============================================================================

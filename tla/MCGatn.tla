------------------------------- MODULE MCGatn -------------------------------
(* Small instances of Gatn. *)
EXTENDS Gatn

CONSTANTS c1, c2, vh, dh

Cmd(op, v, c) == [op |-> op, host |-> v, cls |-> c]

\* A document that two connections share while its file changes and cannot be copied
Sharing == [cmds |-> 0, files |-> 1, hosts |-> {dh}, conns |-> {c1, c2}, asked |-> {vh}, docs |-> {"page"},
            fails |-> {"none", "copy"}, can |-> {}]

\* A host that stops, or is said to start, while two connections ask for a document
Stopping == [cmds |-> 1, files |-> 0, hosts |-> {vh, dh}, conns |-> {c1, c2}, asked |-> {vh}, docs |-> {"page"},
             fails |-> {"none"}, can |-> {Cmd("stop host", vh, ""), Cmd("start host", vh, "")}]

\* Files that change, on one connection
Changes == [cmds |-> 2, files |-> 2, hosts |-> {dh}, conns |-> {c1}, asked |-> {vh}, docs |-> {"page", "raw"},
            fails |-> Failures, can |-> {Cmd("stop host", dh, ""), Cmd("start host", dh, "")}]

\* Extensions of the default host
Extensions == [cmds |-> 4, files |-> 0, hosts |-> {dh}, conns |-> {c1}, asked |-> {dh}, docs |-> {"hidden"},
               fails |-> {"none"},
               can |-> [op : {"attach", "detach", "load class", "unload class"}, host : {dh}, cls : Classes]
                        \cup {Cmd("stop host", dh, ""), Cmd("start host", dh, "")}]

\* The server, its hosts and the modules it needs
Server == [cmds |-> 3, files |-> 0, hosts |-> {vh, dh}, conns |-> {c1}, asked |-> {vh}, docs |-> {"page"},
           fails |-> {"none"},
           can |-> [op : {"start server", "stop server", "create server", "remove server", "unload net", "load net",
                          "unload fs", "load fs", "create host", "remove host"}, host : {vh}, cls : {""}]
                  \cup {Cmd("configure", vh, "log"), Cmd("unload class", vh, "log")}]

MCVhosts == {vh}
MCConns == {c1, c2}
MCScenes == {Sharing, Stopping, Changes, Extensions, Server}
MCClasses == {"log", "stat"}
MCClassSeq == <<"stat", "log">>
MCEvents == {"request", "error"}
MCOpts == [c \in MCClasses |-> IF c = "log" THEN MCEvents ELSE {"request"}]
MCDocs == {"page", "raw", "hidden"}
MCUrlOf == [d \in MCDocs |-> CASE d = "page" -> <<"/", "private", "2", "/", "raw", "/", "page">>
                             [] d = "raw" -> <<"/", "raw", "/", "image">>
                             [] d = "hidden" -> <<"/", "private", "/", "2", "/", "page">>]
MCRootExclude == <<"/", "old", "/", ":", "/", "private">>
MCCacheExclude == <<"raw">>
MCRootFolders == {<<"/", "old", "/">>, <<"/", "private", "/">>}
MCCacheFolders == {<<"/", "raw", "/">>}
=============================================================================

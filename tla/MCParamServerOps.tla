-------------------------- MODULE MCParamServerOps --------------------------
(* All requests of ParamServer, readers and writers.                        *)
EXTENDS MCParamServer

AllMenus == ReadMenu \cup WriteMenu

\* The requests on their way and the last one of each thread.
Seen ==
  {call[c].r : c \in {d \in Clients : call[d].st # "idle"}}
    \cup UNION {{posted[c][n] : n \in 1..Len(posted[c])} : c \in Clients}
    \cup ({req[t] : t \in Threads} \ {AnyReq})

\* Bound: they are from one of the two menus, whose product adds states and no
\* new pair of threads.
OneMenu == \E m \in {ReadMenu, WriteMenu} : Seen \subseteq m
=============================================================================

----------------------------- MODULE LlmService -----------------------------
(***************************************************************************)
(* The LLM service as a child process of the server (src/main.rs): it is   *)
(* spawned at start unless its port is taken, and a watchdog respawns it   *)
(* once it has seen it exit.  A shutdown stops the HTTP server and has a   *)
(* task kill the children, while main returns from awaiting the server.    *)
(* While the service listens it runs AgentRun; a crash takes all its runs  *)
(* and chats with it.                                                      *)
(***************************************************************************)
EXTENDS AgentRun

VARIABLES
  server,    \* "running" until its HTTP server has stopped, "killed", "gone"
  child,     \* the child: its process and the server's handle of it; "lost" if
             \* it could not be spawned
  port,      \* who listens on 8001: "free", "ours", "other"
  spawning   \* the watchdog is between its look at the port and its spawn

procVars == <<server, child, port, spawning>>
allVars  == <<vars, procVars>>

\* spawn_microservices: another service on the port is used instead.
ServiceInit ==
  /\ Init
  /\ server = "running" /\ spawning = FALSE
  /\ port \in {"free", "other"}
  /\ child = IF port = "other" THEN "none" ELSE "loading"

Freed == IF port = "ours" THEN "free" ELSE port

\* The model is loaded and the port bound; a port that is taken ends the process.
Listen ==
  /\ child = "loading" /\ port = "free"
  /\ child' = "up" /\ port' = "ours"
  /\ UNCHANGED <<vars, server, spawning>>

\* The child exits by itself, at any moment.
Exit ==
  /\ child \in {"loading", "up"}
  /\ child' = "exited" /\ port' = Freed
  /\ Restart
  /\ UNCHANGED <<server, spawning>>

\* Another process takes the port, or leaves it.
Other ==
  /\ port # "ours" /\ port' \in {"free", "other"} \ {port}
  /\ UNCHANGED <<vars, server, child, spawning>>

\* Planted defect: the child is spawned again where the port is in use.
WatchUsedPort ==
  /\ server # "gone" /\ ~spawning /\ child \in {"exited", "killed"}
  /\ child' = "none" /\ spawning' = (port = "other")
  /\ UNCHANGED <<vars, server, port>>

\* The watchdog drops the handle of a child that has ended, under the lock, also of
\* one the shutdown has just killed, and looks at the port; it never comes back to
\* a child it has dropped.
Watch ==
  /\ server # "gone" /\ ~spawning /\ child \in {"exited", "killed"}
  /\ child' = "none" /\ spawning' = (port # "other")
  /\ UNCHANGED <<vars, server, port>>

\* It spawns a child outside the lock and pushes its handle, also where the
\* shutdown has killed the children in between; the spawn may fail.
Respawn ==
  /\ server # "gone" /\ spawning /\ spawning' = FALSE
  /\ child' \in {"loading", "lost"}
  /\ UNCHANGED <<vars, server, port>>

\* A signal may come, and the HTTP server stop, at any time, which changes nothing
\* here.  The signal's task then kills every child it has a handle of.
Kill ==
  /\ server = "running" /\ server' = "killed"
  /\ IF child \in {"loading", "up"}
     THEN child' = "killed" /\ port' = Freed /\ Restart
     ELSE UNCHANGED <<vars, child, port>>
  /\ UNCHANGED spawning

\* The process exits: that task is done, or main, which awaits the HTTP server too,
\* has returned as soon as it stopped, with the children killed or not.
Quit == /\ server # "gone" /\ server' = "gone"
        /\ UNCHANGED <<vars, child, port, spawning>>

Serve == child = "up" /\ Next /\ UNCHANGED procVars

ServiceNext == \/ Serve \/ Listen \/ Exit \/ Other
               \/ Watch \/ Respawn \/ Kill \/ Quit

\* What the runs and chats are promised, as long as the service lives: tasks run,
\* engine and tools answer, the tools within their deadline, a client reads its
\* events or leaves, and the lease is given in the order of asking.
Served(A) == child = "up" /\ A /\ UNCHANGED procVars

ServiceSpec ==
  /\ ServiceInit /\ [][ServiceNext]_allVars
  /\ WF_allVars(Watch) /\ WF_allVars(Respawn)
  /\ \A r \in Runs :
       /\ WF_allVars(Served(Stream(r)))
       /\ SF_allVars(Served(Execute(r)))
  /\ \A c \in Chats : SF_allVars(Served(TakeChat(c))) /\ WF_allVars(Served(GiveChat(c)))

-----------------------------------------------------------------------------
\* A server that has gone leaves no child behind, one that is still loading
\* included: what the comment of spawn_microservices says (1152-1153).
NoOrphan == server = "gone" => child \notin {"loading", "up"}

\* The watchdog brings a service that has exited back, through its look at the port
\* and a spawn outside the lock (604-637), unless the spawn fails, another process
\* takes the port, or the server shuts down.
ServiceReturns ==
  (child = "exited") ~>
    (child \in {"loading", "up", "lost"} \/ port = "other" \/ server # "running")
=============================================================================

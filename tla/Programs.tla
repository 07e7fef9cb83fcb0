------------------------------- MODULE Programs -------------------------------
(***************************************************************************)
(* The programs and libraries of the repository that have nothing to do    *)
(* with each other, side by side: program, chosen once, is the one in use. *)
(***************************************************************************)
EXTENDS Queue, Stack, LinkedList, Tree, RoutingTable, ShmMap, SharedRegion,
        SelectServer, ChatServer, CFile, Cli, SdFs

VARIABLE program

libVars == <<queueVars, stackVars, listVars, treeVars, rtVars, mapVars>>
serviceVars == <<regionVars, selVars, chatVars, fileVars, cliVars, fsVars>>
vars == <<program, libVars, serviceVars>>

\* The card that is not in use has no faults.
ASSUME NoFaultsAssumption == {} \in FaultSets

\* A command line of which no use is made.
NoCli ==
  /\ commands = [g \in AllGroups |-> <<>>] /\ subgroups = commands
  /\ cli_mutex = FALSE /\ cli_asleep = FALSE
  /\ helped = NotHelped

Init ==
  /\ program \in {"queue", "stack", "list", "tree", "routes", "map",
                  "region", "select", "chat", "file", "cli", "card"}
  /\ initQ /\ StackInit /\ ListInit /\ init_tree /\ RtInit /\ MapInit
  /\ RegionInit /\ SelInit /\ ChatInit /\ FileInit /\ FsInit
  /\ IF program = "cli" THEN CliInit ELSE NoCli
  /\ program # "card" => faults = {}

-----------------------------------------------------------------------------
\* The calls on one library, the others being out of use.
QueueCall == program = "queue" /\ QueueNext
             /\ UNCHANGED <<program, serviceVars, stackVars, listVars, treeVars, rtVars, mapVars>>
StackCall == program = "stack" /\ StackNext
             /\ UNCHANGED <<program, serviceVars, queueVars, listVars, treeVars, rtVars, mapVars>>
ListCall == program = "list" /\ ListNext
            /\ UNCHANGED <<program, serviceVars, queueVars, stackVars, treeVars, rtVars, mapVars>>
TreeCall == program = "tree" /\ TreeNext
            /\ UNCHANGED <<program, serviceVars, queueVars, stackVars, listVars, rtVars, mapVars>>
RouteCall == program = "routes" /\ RtNext
             /\ UNCHANGED <<program, serviceVars, queueVars, stackVars, listVars, treeVars, mapVars>>
MapCall == program = "map" /\ MapNext
           /\ UNCHANGED <<program, serviceVars, queueVars, stackVars, listVars, treeVars, rtVars>>

\* The steps of one program, the others not running.
RegionStep == program = "region" /\ RegionNext
              /\ UNCHANGED <<program, libVars, selVars, chatVars, fileVars, cliVars, fsVars>>
SelectStep == program = "select" /\ SelNext
              /\ UNCHANGED <<program, libVars, regionVars, chatVars, fileVars, cliVars, fsVars>>
ChatStep == program = "chat" /\ ChatNext
            /\ UNCHANGED <<program, libVars, regionVars, selVars, fileVars, cliVars, fsVars>>
FileStep == program = "file" /\ FileNext
            /\ UNCHANGED <<program, libVars, regionVars, selVars, chatVars, cliVars, fsVars>>
CliStep == program = "cli" /\ CliNext
           /\ UNCHANGED <<program, libVars, regionVars, selVars, chatVars, fileVars, fsVars>>
CardStep == program = "card" /\ FsNext
            /\ UNCHANGED <<program, libVars, regionVars, selVars, chatVars, fileVars, cliVars>>

Next ==
  \/ QueueCall \/ StackCall \/ ListCall \/ TreeCall \/ RouteCall \/ MapCall
  \/ RegionStep \/ SelectStep \/ ChatStep \/ FileStep \/ CliStep \/ CardStep

Spec == Init /\ [][Next]_vars

=============================================================================

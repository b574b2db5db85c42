----------------------------- MODULE ToolServer ------------------------------
(***************************************************************************)
(* Which tools the MCP server offers: the security settings and their file *)
(* (src/main/security-store.ts), the gate made from them (security.ts),    *)
(* the modules, their file and their router (module-store.ts,              *)
(* renderer/extensions.ts), and the tools registered on the live server    *)
(* (class ProvidentMcpServer of mcp-server.ts).                            *)
(*                                                                         *)
(* One group stands for the groups that need no other one, and a module    *)
(* declares one tool.  Over HTTP each POST has a server of its own from    *)
(* its headers to the end of its answer; all of them enter the handles of  *)
(* their tools into one map, and only what that map holds is switched.     *)
(***************************************************************************)
EXTENDS FiniteSets

CONSTANTS
  Modules,         \* names under which a module is installed
  Unroutable,      \* those the router refuses: a name with a dot or a colon
  Posts,           \* bound of the model: POSTs in progress at one time
  MayFail          \* the transports under which a write of a settings file may fail

ASSUME UnroutableAssumption == Unroutable \subseteq Modules
ASSUME ModulesAssumption    == Modules \cap {"list_targets", "module.list", "module.install"} = {}
ASSUME PostsAssumption     == Posts \cap {"stdio", "closed"} = {}

VARIABLES
  transport,     \* "stdio" or "http"
  started,
  savedGroups, storeGroups,   \* the enabled groups in the file and in the store
  currentEnabled,             \* main()'s copy, for the next difference
  live,                       \* the enabled groups of the gate
  savedModules, modules,      \* module -> [disabled, quarantined], in the file and in the store
  router,                     \* the modules with a tool in the router
  served,                     \* open server -> tool -> [enabled, gate]: a module's tool closed over that gate
  registered,                 \* tool -> the server whose handle the shared map holds
  \* history
  groupsBehind, modulesBehind \* the last write of the file failed

toolVars == <<transport, started, savedGroups, storeGroups, currentEnabled, live, savedModules, modules, router,
              served, registered, groupsBehind, modulesBehind>>

gates == <<savedGroups, storeGroups, currentEnabled, live, groupsBehind>>
packages == <<savedModules, modules, router, modulesBehind>>
servers == <<served, registered>>

Groups == {"read", "module", "code"}
DefaultGroups == {"read"}
StaticTools == {"list_targets", "module.list", "module.install"}
Tools == StaticTools \cup Modules

----------------------------------------------------------------------------
(* The gate                                                                *)

\* groupForTool()
GroupForTool(t) == IF t = "list_targets" THEN "read" ELSE "module"
ToolAllowed(t, enabled) == GroupForTool(t) \in enabled

\* registeredToolNames(): the tools that install need the code group, too.
RegisteredToolNames(enabled) ==
  {t \in StaticTools : ToolAllowed(t, enabled) /\ (t = "module.install" => "code" \in enabled)}

\* allowedToolNames()
AllowedToolNames(enabled, routed) == RegisteredToolNames(enabled) \cup {m \in routed : ToolAllowed(m, enabled)}

\* moduleToolAllowed() for a tool with an entry
ModuleToolAllowed(enabled) == {"module", "code"} \subseteq enabled

\* registerTools(): a dynamic tool that is registered already is skipped, a static one replaced.
ToRegister(names) == {t \in names : t \in Modules => t \notin DOMAIN registered}
WithTools(handles, names, enabled) ==
  [t \in DOMAIN handles \cup names |->
     IF t \in names THEN [enabled |-> TRUE, gate |-> IF t \in Modules THEN enabled ELSE {}] ELSE handles[t]]
Holding(names, server) ==
  [t \in DOMAIN registered \cup names |-> IF t \in names THEN server ELSE registered[t]]

\* A mutation: the groups of the tools' names decide.
Regated_OneGate(server, enabled) ==
  [t \in DOMAIN served[server] |->
     IF registered[t] # server THEN served[server][t]
     ELSE [served[server][t] EXCEPT !.enabled = ToolAllowed(t, enabled)]]

\* applyGatePatch() switches the handles of the map: each tool of a module, or about them, by both groups.
Regated(server, enabled) ==
  [t \in DOMAIN served[server] |->
     IF registered[t] # server THEN served[server][t]
     ELSE [served[server][t] EXCEPT !.enabled = ToolAllowed(t, enabled) /\ (t # "list_targets" => "code" \in enabled)]]

\* ... and the live server gets the tools it did not have.
ApplyGatePatch(add, remove) ==
  LET enabled == (live \cup add) \ remove
      missing == IF transport = "stdio" THEN AllowedToolNames(enabled, router) \ DOMAIN registered ELSE {}
  IN  /\ live' = enabled /\ registered' = Holding(missing, "stdio")
      /\ served' = [s \in DOMAIN served |-> WithTools(Regated(s, enabled), missing, enabled)]

\* SecurityStore.set(): the file is written through, and a failure is only logged.
StoreSet(add, remove) ==
  /\ storeGroups' = (storeGroups \cup add) \ remove
  /\ \/ savedGroups' = storeGroups' /\ groupsBehind' = FALSE
     \/ transport \in MayFail /\ groupsBehind' = TRUE /\ UNCHANGED savedGroups

\* A mutation: the groups of the last difference are not kept.
SecuritySet_Forgets(add, remove) ==
  /\ started /\ StoreSet(add, remove)
  /\ ApplyGatePatch(storeGroups' \ currentEnabled, currentEnabled \ storeGroups')
  /\ UNCHANGED <<transport, started, currentEnabled, packages>>

\* IPC_SECURITY_SET: the gate follows what the store made of the patch.
SecuritySet(add, remove) ==
  /\ started /\ StoreSet(add, remove)
  /\ ApplyGatePatch(storeGroups' \ currentEnabled, currentEnabled \ storeGroups')
  /\ currentEnabled' = storeGroups'
  /\ UNCHANGED <<transport, started, packages>>

----------------------------------------------------------------------------
(* The modules                                                             *)

\* status().loaded
LoadedModules(records) == {m \in DOMAIN records : ~records[m].disabled /\ ~records[m].quarantined}

\* syncModuleRouter(): a name the router refuses ends it with the modules before that one.
SyncModuleRouter(records) ==
  LET loaded == LoadedModules(records)
  IN  IF loaded \cap Unroutable = {} THEN router' = loaded
      ELSE \E before \in SUBSET (loaded \ Unroutable) : router' = before

PersistModules(records) ==
  /\ modules' = records
  /\ \/ savedModules' = records /\ modulesBehind' = FALSE
     \/ transport \in MayFail /\ modulesBehind' = TRUE /\ UNCHANGED savedModules

Callable(server, t) ==
  /\ t \in DOMAIN served[server] /\ served[server][t].enabled
  /\ t \in Modules => ModuleToolAllowed(served[server][t].gate) /\ t \in router

\* A module is put whole: it is neither disabled nor quarantined after it.
Put(m) == [n \in DOMAIN modules \cup {m} |->
             IF n = m THEN [disabled |-> FALSE, quarantined |-> FALSE] ELSE modules[n]]

\* module.install, module.update: an install of what is there is a no-op or refused unless it is forced.
Install(m) ==
  /\ started /\ \E server \in DOMAIN served : Callable(server, "module.install")
  /\ PersistModules(Put(m)) /\ SyncModuleRouter(Put(m))
  /\ UNCHANGED <<transport, started, gates, servers>>

\* The operator's IPC
SetDisabled(m, disabled) ==
  /\ started /\ m \in DOMAIN modules
  /\ PersistModules([modules EXCEPT ![m].disabled = disabled])
  /\ SyncModuleRouter([modules EXCEPT ![m].disabled = disabled])
  /\ UNCHANGED <<transport, started, gates, servers>>

----------------------------------------------------------------------------
(* The server                                                              *)

\* POST: a server of its own with what the gate allows now.
Post(r) ==
  /\ started /\ transport = "http" /\ r \notin DOMAIN served
  /\ LET names == ToRegister(AllowedToolNames(live, router))
     IN  /\ served' = [s \in DOMAIN served \cup {r} |-> IF s = r THEN WithTools(<<>>, names, live) ELSE served[s]]
         /\ registered' = Holding(names, r)
  /\ UNCHANGED <<transport, started, gates, packages>>

\* Its answer is out, or its body could not be read; the map keeps its handles.
PostCloses(r) ==
  /\ r \in DOMAIN served /\ served' = [s \in DOMAIN served \ {r} |-> served[s]]
  /\ registered' = [t \in DOMAIN registered |-> IF registered[t] = r THEN "closed" ELSE registered[t]]
  /\ UNCHANGED <<transport, started, gates, packages>>

\* The process ends; a file may be edited by hand before the next start.
Exit ==
  /\ started /\ started' = FALSE
  /\ storeGroups' = {} /\ currentEnabled' = {} /\ live' = {} /\ modules' = <<>> /\ router' = {}
  /\ served' = <<>> /\ registered' = <<>>
  /\ groupsBehind' = FALSE /\ modulesBehind' = FALSE
  /\ \/ UNCHANGED savedModules
     \/ \E m \in DOMAIN savedModules : savedModules' = [savedModules EXCEPT ![m].quarantined = TRUE]
  /\ UNCHANGED <<transport, savedGroups>>

\* A module of the file keeps the router, and main() with it, from starting.
BootFails == LoadedModules(savedModules) \cap Unroutable # {}

\* main()
BootServer ==
  /\ ~started /\ ~BootFails /\ started' = TRUE
  /\ storeGroups' = savedGroups /\ currentEnabled' = savedGroups /\ live' = savedGroups
  /\ modules' = savedModules /\ SyncModuleRouter(savedModules)
  /\ LET names == IF transport = "http" THEN {} ELSE AllowedToolNames(savedGroups, router')
     IN  /\ served' = [s \in {"stdio"} \cap {transport} |-> WithTools(<<>>, names, savedGroups)]
         /\ registered' = [t \in names |-> "stdio"]
  /\ UNCHANGED <<transport, savedGroups, savedModules, groupsBehind, modulesBehind>>

ToolInit ==
  /\ transport \in {"stdio", "http"} /\ started = FALSE
  /\ savedGroups = DefaultGroups /\ storeGroups = {} /\ currentEnabled = {} /\ live = {}
  /\ savedModules = <<>> /\ modules = <<>> /\ router = {}
  /\ served = <<>> /\ registered = <<>> /\ groupsBehind = FALSE /\ modulesBehind = FALSE

ToolNext ==
  \/ Exit \/ BootServer
  \/ \E r \in Posts : Post(r) \/ PostCloses(r)
  \/ \E add, remove \in SUBSET Groups : Cardinality(add \cup remove) = 1 /\ SecuritySet(add, remove)
  \/ \E m \in Modules : Install(m)
  \/ \E m \in Modules, disabled \in BOOLEAN : SetDisabled(m, disabled)

ToolSpec == ToolInit /\ [][ToolNext]_toolVars

----------------------------------------------------------------------------
(* Properties                                                              *)

\* The tools of every server follow the gate through any sequence of patches, installs, restarts and overlapping
\* POSTs: what can be called needs no group that is off and no module that is not loaded, unless a later POST has
\* replaced the handle of a static tool (a module's tool is never replaced); and of the static tools of the live
\* server nothing is missing whose groups are on, but for module.list (which a patch switches by both groups).
ToolsFollowGate ==
  started =>
    /\ \A s \in DOMAIN served : \A t \in Tools : Callable(s, t) /\ (t \in Modules \/ registered[t] = s) =>
         /\ t \in AllowedToolNames(live, LoadedModules(modules))
         /\ t \in Modules => ModuleToolAllowed(live)
    /\ transport = "stdio" => \A t \in RegisteredToolNames(live) \ {"module.list"} : Callable("stdio", t)

\* The settings the process runs with are those a restart would read, unless the last write failed: the gate is
\* patched by differences, each against the one before it.
RestartKeepsSettings ==
  started =>
    /\ live = storeGroups /\ (~groupsBehind => savedGroups = live)
    /\ ~modulesBehind => savedModules = modules

\* What was installed never keeps the program from starting.
BootsAgain == ~started => ~BootFails
=============================================================================

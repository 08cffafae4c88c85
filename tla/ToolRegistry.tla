---------------------------- MODULE ToolRegistry ----------------------------
(***************************************************************************)
(* The registry of the tools of connected MCP servers                      *)
(* (internal/mcp/tool_registry.go): one map by the composite key           *)
(* serverName/toolName, and aliases from the bare name of a tool to the    *)
(* key it was listed under last.                                           *)
(*                                                                         *)
(* Each operation holds the registry's lock for all it does.  Of a tool    *)
(* only its name is kept; the deep copies are left out.                    *)
(***************************************************************************)
CONSTANTS
    Server,
    Tool,        \* names of tools
    Key(_, _),   \* serverToolKey
    NoKey,       \* what a look-up that finds nothing gives
    NoServer

(* No two tools share a key.  The code does not check it: it fails for     *)
(* names with a slash in them (see the README).                            *)
ASSUME KeyAssumption ==
    /\ \A s, r \in Server, t, u \in Tool : Key(s, t) = Key(r, u) => s = r /\ t = u
    /\ \A s \in Server, t \in Tool : Key(s, t) # NoKey
    /\ NoServer \notin Server

VARIABLES
    tools,    \* composite key -> the tool's name and its server
    aliases   \* tool -> composite key, or NoKey

registryVars == <<tools, aliases>>

RegistryInit ==
    /\ tools = [k \in {} |-> [tool |-> NoKey, server |-> NoServer]]
    /\ aliases = [t \in Tool |-> NoKey]

Keys(s, T) == {Key(s, t) : t \in T}
(* Mutation: only the tools their aliases point to are taken away. *)
OwnedByAlias(s) == {k \in DOMAIN tools : tools[k].server = s /\ aliases[tools[k].tool] = k}

Owned(s) == {k \in DOMAIN tools : tools[k].server = s}

(* The map without the tools of a server. *)
Without(s) == [k \in DOMAIN tools \ Owned(s) |-> tools[k]]

(* The map with a listing of a server entered. *)
With(map, s, T) ==
    [k \in DOMAIN map \cup Keys(s, T) |->
        IF k \in Keys(s, T) THEN [tool |-> CHOOSE t \in T : Key(s, t) = k, server |-> s]
                            ELSE map[k]]

Named(map, t) == {k \in DOMAIN map : map[k].tool = t}

(* refreshAliasLocked for each alias that pointed to a deleted tool: any   *)
(* tool of that name will do, as the order of a Go map has it.             *)
Refreshed(map) ==
    {al \in [Tool -> DOMAIN map \cup {NoKey}] :
        \A t \in Tool :
            IF aliases[t] \in DOMAIN map \cup {NoKey} THEN al[t] = aliases[t]
            ELSE IF Named(map, t) = {} THEN al[t] = NoKey
            ELSE al[t] \in Named(map, t)}

Pointing(al, s, T) == [t \in Tool |-> IF t \in T THEN Key(s, t) ELSE al[t]]

AddTools(s, T) ==
    /\ tools' = With(tools, s, T)
    /\ aliases' = Pointing(aliases, s, T)

ReplaceServerTools(s, T) ==
    /\ tools' = With(Without(s), s, T)
    /\ \E al \in Refreshed(Without(s)) : aliases' = Pointing(al, s, T)

RemoveServer(s) ==
    /\ tools' = Without(s)
    /\ aliases' \in Refreshed(Without(s))

Clear ==
    /\ tools' = [k \in {} |-> [tool |-> NoKey, server |-> NoServer]]
    /\ aliases' = [t \in Tool |-> NoKey]

RegistryNext ==
    \/ \E s \in Server :
          \/ \E T \in SUBSET Tool : AddTools(s, T) \/ ReplaceServerTools(s, T)
          \/ RemoveServer(s)
    \/ Clear

RegistrySpec == RegistryInit /\ [][RegistryNext]_registryVars

-----------------------------------------------------------------------------
(* The look-ups.                                                            *)

GetServerTool(s, t) == Key(s, t) \in DOMAIN tools
GetTool(t) == IF aliases[t] = NoKey THEN NoServer ELSE tools[aliases[t]].server

-----------------------------------------------------------------------------
RegistryTypeOK ==
    /\ DOMAIN tools \subseteq {Key(s, t) : s \in Server, t \in Tool}
    /\ tools \in [DOMAIN tools -> [tool : Tool, server : Server]]
    /\ aliases \in [Tool -> DOMAIN tools \cup {NoKey}]

(* Every tool is stored under the key of its own name and server, and each *)
(* name some server offers has an alias, to a tool of that name            *)
(* (AddTools, ReplaceServerTools, refreshAliasLocked).                     *)
AliasesAreLive ==
    /\ \A k \in DOMAIN tools : k = Key(tools[k].server, tools[k].tool)
    /\ \A t \in Tool :
          IF aliases[t] = NoKey THEN Named(tools, t) = {}
                                ELSE aliases[t] \in Named(tools, t)

Table ==
    INSTANCE ToolTable WITH
        offered <- [s \in Server |-> {t \in Tool : GetServerTool(s, t)}],
        answer <- [t \in Tool |-> GetTool(t)]

(* Whatever servers list, list again and lose, and whichever of them share *)
(* a name: a look-up finds exactly what is listed, and no server's change  *)
(* touches the tools of another (ToolRegistry).                            *)
RegistryRefinement == Table!TableSpec
=============================================================================

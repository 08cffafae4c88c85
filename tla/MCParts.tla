------------------------------ MODULE MCParts ------------------------------
(***************************************************************************)
(* The parts of the program that run on their own, for the model checker:  *)
(* what writes to the disk (the steps of a plan, the store of sessions and *)
(* the configuration file), what a question to the model is made of (the   *)
(* registry of tools, the providers, the history of a run and the skills), *)
(* and what the program does before it works.  They share no state: a      *)
(* behaviour is one of one of them, the others stay where they begin.      *)
(***************************************************************************)
EXTENDS FileOps, SessionStore, ConfigFile, ToolRegistry, AskModel, Startup, Skills

VARIABLE part

PartsInit ==
    /\ part \in {"files", "store", "config", "registry", "ask", "start", "skills"}
    /\ FilesInit /\ StoreInit /\ ConfigInit /\ RegistryInit /\ AskInit /\ StartupInit
    /\ SkillsInit
    /\ part # "config" => content = Defaults
    /\ part # "ask" => history = <<>> /\ \A p \in 0 .. Entries : keyed[p] = "ready"
    /\ part # "start" => saved = DefaultFile /\ \A p \in Preset : stored[p] = ""

PartsNext ==
    /\ UNCHANGED part
    /\ \/ part = "files" /\ FilesNext
          /\ UNCHANGED <<storeVars, configVars, registryVars, askVars, startupVars, skillVars>>
       \/ part = "store" /\ StoreNext
          /\ UNCHANGED <<fileVars, configVars, registryVars, askVars, startupVars, skillVars>>
       \/ part = "config" /\ ConfigNext
          /\ UNCHANGED <<fileVars, storeVars, registryVars, askVars, startupVars, skillVars>>
       \/ part = "registry" /\ RegistryNext
          /\ UNCHANGED <<fileVars, storeVars, configVars, askVars, startupVars, skillVars>>
       \/ part = "ask" /\ AskNext
          /\ UNCHANGED <<fileVars, storeVars, configVars, registryVars, startupVars, skillVars>>
       \/ part = "start" /\ StartupNext
          /\ UNCHANGED <<fileVars, storeVars, configVars, registryVars, askVars, skillVars>>
       \/ part = "skills" /\ SkillsNext
          /\ UNCHANGED <<fileVars, storeVars, configVars, registryVars, askVars, startupVars>>

PartsSpec ==
    PartsInit /\ [][PartsNext]_<<part, fileVars, storeVars, configVars, registryVars, askVars,
                            startupVars, skillVars>>

PartsTypeOK == FilesTypeOK /\ StoreTypeOK /\ ConfigTypeOK /\ RegistryTypeOK
               /\ AskTypeOK /\ StartupTypeOK /\ SkillsTypeOK

(* serverToolKey *)
SlashKey(s, t) == s \o "/" \o t

(* Files of two skills: named by the front matter or by the directory,     *)
(* triggered or not, damaged and empty ones.                               *)
SmallSkillFiles ==
    {[parent |-> p, head |-> "good", name |-> n, auto |-> a, fit |-> n + 1] :
        p \in {1, 2}, n \in {0, 1}, a \in BOOLEAN}
    \cup {[parent |-> p, head |-> h, name |-> 0, auto |-> TRUE, fit |-> 1] :
            p \in {1, 2}, h \in {"bad", "empty file"}}
    \cup {[parent |-> 2, head |-> "good", name |-> 2, auto |-> TRUE, fit |-> 0]}

(* A file "a", directories "d" with a file and a protected file, "m" that  *)
(* is another file system, "r" that is read-only, and names to create.     *)
SmallPath ==
    {<<"a">>, <<"b">>, <<"k">>, <<"d">>, <<"d", "a">>, <<"d", "k">>, <<"d", "b">>,
     <<"m">>, <<"m", "a">>, <<"m", "b">>, <<"r">>, <<"r", "a">>}
SmallTree ==
    [p \in SmallPath |->
        CASE p \in {<<"d">>, <<"m">>, <<"r">>} -> Dir
          [] p = <<"a">> -> Whole("A")
          [] p = <<"d", "a">> -> Whole("B")
          [] p = <<"d", "k">> -> Whole("K")
          [] p = <<"r", "a">> -> Whole("R")
          [] OTHER -> Absent]
SmallProtected == {<<"k">>, <<"d", "k">>}
SmallDenied == {<<"b">>}
SmallReadOnly == {<<"r">>}
SmallMounts == {<<"m">>}
SmallSources ==
    {<<<<"a">>>>, <<<<"a">>, <<"d", "a">>>>, <<<<"a">>, <<"k">>>>, <<<<"a">>, <<"b">>>>}
=============================================================================

---------------------------- MODULE ConfigFile ----------------------------
(***************************************************************************)
(* The configuration file of a user and what one program after the other   *)
(* does to it (internal/config/config.go, trust.go; checkTrust in          *)
(* cmd/bolt-cowork/main.go; views.TrustModal): it is loaded, its API keys  *)
(* are moved to the keyring of the system, directories are added to the    *)
(* trusted ones, preferences are changed in place, and now and then all of *)
(* it is written anew from memory.                                         *)
(*                                                                         *)
(* The file is written in place: os.WriteFile truncates it and then writes *)
(* it.  A preference stands for the fields that are set by their keys; a   *)
(* key is in the file in plain text, as a placeholder like ${VAR}, or not  *)
(* at all.                                                                 *)
(***************************************************************************)
EXTENDS Naturals, FiniteSets

CONSTANTS
    Provider,   \* the providers of the file
    WorkDir,    \* directories a program is started in
    Pref,       \* values of a preference
    DefaultPref,
    MaxActs     \* bound: programs started, and changes they make

(* A write is for a directory or for one of these. *)
ASSUME ConfigAssumption ==
    /\ DefaultPref \in Pref /\ MaxActs \in Nat
    /\ WorkDir \cap {"none", "keys", "pref", "full"} = {}

Raw == [Provider -> {"none", "placeholder", "plain"}]
Content == [raw : Raw, trusted : SUBSET WorkDir, pref : Pref]
Defaults == [raw |-> [p \in Provider |-> "none"], trusted |-> {}, pref |-> DefaultPref]

VARIABLES
    text,      \* the file is "whole", "empty" or cut "short" in a write
    content,   \* what it says if it is whole
    keyring,   \* providers whose key is in the keyring
    mem,       \* the configuration in the memory of the program
    job,       \* what the program is doing
    acts,      \* programs started and changes made
    past       \* history, see PastInit

configVars == <<text, content, keyring, mem, job, acts, past>>

Off == [pc |-> "off", new |-> Defaults, for |-> "none", todo |-> {}, moved |-> {}]

(* The providers whose key, and those whose placeholder, the file had at   *)
(* the start; the directories that were trusted; the providers whose key   *)
(* the keyring refused; whether a write failed, and whether the file was  *)
(* written anew from memory.                                               *)
PastInit ==
    past = [plain |-> {p \in Provider : content.raw[p] = "plain"},
            held |-> {p \in Provider : content.raw[p] = "placeholder"},
            trusted |-> content.trusted, refused |-> {},
            hurt |-> FALSE, full |-> FALSE]

ConfigInit ==
    /\ text = "whole"
    /\ content \in [raw : Raw, trusted : {{}}, pref : {DefaultPref}]
    /\ keyring = {}
    /\ mem = Defaults
    /\ job = Off
    /\ acts = 0
    /\ PastInit

Count == acts < MaxActs /\ acts' = acts + 1
Goto(pc) == job' = [job EXCEPT !.pc = pc]

-----------------------------------------------------------------------------
(* Writing the file                                                        *)

(* The program is about to write new over the file. *)
Rewrite(new, for) ==
    job' = [job EXCEPT !.pc = "open", !.new = new, !.for = for]

(* os.WriteFile opens the file, which truncates it. *)
Truncate ==
    /\ job.pc = "open"
    /\ text' = "empty"
    /\ Goto("write")
    /\ UNCHANGED <<content, keyring, mem, acts, past>>

(* SaveFile: the configuration in memory, without any key or placeholder. *)
FromMemory(m) == [m EXCEPT !.raw = Defaults.raw]

(* Mutation: the program that was told of a directory forgets it. *)
NotRemembered(for) == mem

(* The directory of a trust prompt enters the memory only after the file. *)
Remembered(for) == IF for \in WorkDir THEN [mem EXCEPT !.trusted = @ \cup {for}] ELSE mem

(* A program asks for trust once it has loaded the file, and again when    *)
(* the answer could not be written.                                        *)
After(for, written) ==
    IF for = "keys" \/ (for \in WorkDir /\ ~written) THEN "trust" ELSE "run"

Written ==
    /\ job.pc = "write"
    /\ text' = "whole"
    /\ content' = job.new
    /\ mem' = Remembered(job.for)
    /\ past' = [past EXCEPT !.trusted = @ \cup (WorkDir \cap {job.for}),
                            !.full = @ \/ job.for = "full"]
    /\ job' = [Off EXCEPT !.pc = After(job.for, TRUE)]
    /\ UNCHANGED <<keyring, acts>>

(* The file cannot be opened, or not be written: a migration takes back    *)
(* what it put into the keyring.                                           *)
WriteFails ==
    /\ \/ job.pc = "open" /\ UNCHANGED text
       \/ job.pc = "write" /\ text' \in {"empty", "short"}
    /\ keyring' = keyring \ job.moved
    /\ past' = [past EXCEPT !.hurt = TRUE]
    /\ job' = [Off EXCEPT !.pc = After(job.for, FALSE)]
    /\ UNCHANGED <<content, mem, acts>>

-----------------------------------------------------------------------------
(* LoadFile and migrateAPIKeys                                             *)

(* What is left of a file cut short is no YAML, or it has lost its end. *)
Launch ==
    /\ job.pc = "off" /\ Count
    /\ \/ /\ text = "whole"
          /\ mem' = content
          /\ job' = [Off EXCEPT !.pc = "migrate",
                                !.todo = {p \in Provider : content.raw[p] = "plain"}]
       \/ /\ text # "whole"
          /\ mem' = Defaults
          /\ Goto("trust")
       \/ text = "short" /\ UNCHANGED <<mem, job>>
    /\ UNCHANGED <<text, content, keyring, past>>

MoveKey ==
    /\ job.pc = "migrate"
    /\ \E p \in job.todo :
          \/ /\ keyring' = keyring \cup {p}
             /\ job' = [job EXCEPT !.todo = @ \ {p}, !.moved = @ \cup {p}]
             /\ UNCHANGED past
          \/ /\ past' = [past EXCEPT !.refused = @ \cup {p}]
             /\ job' = [job EXCEPT !.todo = @ \ {p}]
             /\ UNCHANGED keyring
    /\ UNCHANGED <<text, content, mem, acts>>

(* Mutation: every line with a key goes, a placeholder too. *)
WithoutAnyKeys(c) == [c EXCEPT !.raw = Defaults.raw]

(* removeHardcodedAPIKeyLines: every line with a key in plain text goes. *)
WithoutKeys(c) ==
    [c EXCEPT !.raw = [p \in Provider |-> IF c.raw[p] = "plain" THEN "none" ELSE c.raw[p]]]

KeysMoved ==
    /\ job.pc = "migrate" /\ job.todo = {}
    /\ IF job.moved = {} THEN Goto("trust")
                         ELSE Rewrite(WithoutKeys(content), "keys")
    /\ UNCHANGED <<text, content, keyring, mem, acts, past>>

-----------------------------------------------------------------------------
(* checkTrust                                                              *)

Trusted(d) ==
    /\ job.pc = "trust" /\ d \in mem.trusted
    /\ Goto("run")
    /\ UNCHANGED <<text, content, keyring, mem, acts, past>>

(* The user trusts the directory of the program: addTrustedDirToFile reads *)
(* the file again and keeps all the rest of it.                            *)
TrustNew(d) ==
    /\ job.pc = "trust" /\ d \notin mem.trusted /\ Count
    /\ IF text = "short" THEN UNCHANGED job
       ELSE LET old == IF text = "whole" THEN content ELSE Defaults
            IN Rewrite([old EXCEPT !.trusted = @ \cup {d}], d)
    /\ UNCHANGED <<text, content, keyring, mem, past>>

-----------------------------------------------------------------------------
(* Changes                                                                 *)

(* saveConfigField and SaveFilePreservingSecrets *)
ChangePref(v) ==
    /\ job.pc = "run" /\ Count
    /\ mem' = [mem EXCEPT !.pref = v]
    /\ CASE text = "whole" -> Rewrite([content EXCEPT !.pref = v], "pref")
         [] text = "empty" -> Rewrite(FromMemory(mem'), "full")
         [] text = "short" -> UNCHANGED job
    /\ UNCHANGED <<text, content, keyring, past>>

(* A provider or a model that is new to the configuration: SaveFile. *)
SaveAll ==
    /\ job.pc = "run" /\ Count
    /\ Rewrite(FromMemory(mem), "full")
    /\ UNCHANGED <<text, content, keyring, mem, past>>

(* The program ends, or is killed wherever it is. *)
Exit ==
    /\ job.pc # "off"
    /\ job' = Off
    /\ past' = [past EXCEPT !.hurt = @ \/ job.pc \in {"open", "write"}]
    /\ UNCHANGED <<text, content, keyring, mem, acts>>

ConfigNext ==
    \/ Truncate \/ Written \/ WriteFails
    \/ Launch \/ MoveKey \/ KeysMoved
    \/ \E d \in WorkDir : Trusted(d) \/ TrustNew(d)
    \/ \E v \in Pref : ChangePref(v)
    \/ SaveAll \/ Exit

ConfigSpec == ConfigInit /\ [][ConfigNext]_configVars

-----------------------------------------------------------------------------
ConfigTypeOK ==
    /\ text \in {"whole", "empty", "short"}
    /\ content \in Content /\ mem \in Content /\ job.new \in Content
    /\ keyring \subseteq Provider
    /\ job.pc \in {"off", "migrate", "trust", "open", "write", "run"}
    /\ job.todo \cup job.moved \subseteq Provider
    /\ acts \in 0 .. MaxActs

(* Where no write fails, a directory the user was told is trusted stays   *)
(* trusted: preferences are written around it, and a file written anew     *)
(* from memory has it too (checkTrust, addTrustedDirToFile, SaveFile).     *)
TrustIsKept ==
    text = "whole" /\ ~past.hurt => past.trusted \subseteq content.trusted

(* Where no write fails and the keyring takes every key, a key in plain   *)
(* text is in the file until the keyring has it, and a placeholder stays   *)
(* until all of the file is written anew (migrateAPIKeys,                  *)
(* SaveFilePreservingSecrets, addTrustedDirToFile).                        *)
KeysAreKept ==
    text = "whole" /\ ~past.hurt =>
        /\ past.refused = {} =>
              \A p \in past.plain : p \in keyring \/ content.raw[p] = "plain"
        /\ ~past.full => \A p \in past.held : content.raw[p] = "placeholder"

(* The same of a keyring that refuses a key: migrateAPIKeys, as its        *)
(* comment has it, removes from the file the keys it stored.               *)
RefusedKeysStay ==
    text = "whole" /\ ~past.hurt /\ ~past.full =>
        \A p \in past.plain : p \in keyring \/ content.raw[p] = "plain"
=============================================================================

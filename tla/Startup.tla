------------------------------ MODULE Startup ------------------------------
(***************************************************************************)
(* What a program does before it works (main, loadOrInit, runSetupTUI,     *)
(* checkTrust in cmd/bolt-cowork/main.go; Setup and TrustModal in          *)
(* internal/ui/views/setup.go): the set-up of a first provider, the        *)
(* configuration and its keys, the flags, and the trust in the directory.  *)
(*                                                                         *)
(* One program is started after another on one machine.  A key is "new" if *)
(* the user types it, "old" if the keyring had it before, "env" if it is   *)
(* that of the environment.  How the file is written is in ConfigFile.     *)
(***************************************************************************)
EXTENDS Naturals

CONSTANTS
    Preset,      \* providers of the set-up
    EnvPreset,   \* those whose environment variable holds a key
    StartDir,    \* directories a program is started in
    MaxStarts    \* bound: programs started

ASSUME StartupAssumption ==
    EnvPreset \subseteq Preset /\ "" \notin Preset /\ MaxStarts \in Nat

VARIABLES
    saved,    \* the configuration file
    stored,   \* the keyring: a key of every provider, or ""
    loaded,   \* the configuration in the memory of the program
    boot,     \* the program
    starts

startupVars == <<saved, stored, loaded, boot, starts>>

EnvKey(p) == IF p \in EnvPreset THEN "env" ELSE ""

(* config.Default has no provider.  A file that is not there says as much. *)
DefaultFile == [exists |-> FALSE, def |-> "", provs |-> {}, trusted |-> {}]
Loaded(f) ==
    [def |-> f.def, provs |-> f.provs, trusted |-> f.trusted,
     key |-> [p \in Preset |-> CASE p \notin f.provs -> ""
                                 [] stored[p] # "" -> stored[p]
                                 [] OTHER -> EnvKey(p)]]

(* set is the provider that this program set up, key what was typed for    *)
(* it; told, whether the user was told that the keyring is out of reach.   *)
NotRunning == [pc |-> "off", mode |-> "tui", flag |-> "", dir |-> "", set |-> "", key |-> "",
               transient |-> FALSE, told |-> FALSE, exit |-> 0]

StartupInit ==
    /\ saved \in {DefaultFile} \cup
                 {[exists |-> TRUE, def |-> p, provs |-> {p}, trusted |-> {}] : p \in Preset}
    /\ stored \in [Preset -> {"", "old"}]
    /\ loaded = Loaded(DefaultFile)
    /\ boot = NotRunning
    /\ starts = 0

Go(pc) == boot' = [boot EXCEPT !.pc = pc]
ExitWith(code) == boot' = [boot EXCEPT !.pc = "off", !.exit = code]

(* main: init always sets up, the TUI does where no file exists.           *)
(* Where --dir names no directory the program ends at once.                *)
StartProgram(mode, flag, dir) ==
    /\ boot.pc = "off" /\ starts < MaxStarts
    /\ starts' = starts + 1
    /\ \/ boot' = [NotRunning EXCEPT !.mode = mode, !.flag = flag, !.dir = dir, !.pc =
                     IF mode = "init" \/ (mode = "tui" /\ ~saved.exists) THEN "choose" ELSE "load"]
       \/ mode # "init" /\ boot' = [NotRunning EXCEPT !.exit = 1]
    /\ UNCHANGED <<saved, stored, loaded>>

-----------------------------------------------------------------------------
(* runSetupTUI                                                             *)

Choose(p) ==
    /\ boot.pc = "choose"
    /\ boot' = [boot EXCEPT !.pc = "key", !.set = p]
    /\ UNCHANGED <<saved, stored, loaded, starts>>

(* An empty key is that of the environment, or an error.  What could not   *)
(* be saved is asked for again.                                            *)
SaveSetup(key) ==
    /\ boot.pc = "key" /\ key # ""
    /\ \/ /\ saved' = [exists |-> TRUE, def |-> boot.set, provs |-> {boot.set}, trusted |-> {}]
          /\ boot' = [boot EXCEPT !.pc = "store", !.key = key]
       \/ UNCHANGED <<saved, boot>>
    /\ UNCHANGED <<stored, loaded, starts>>

(* SetAPIKey: a key the keyring refuses is kept by the program. *)
StoreSetupKey ==
    /\ boot.pc = "store"
    /\ \/ /\ stored' = [stored EXCEPT ![boot.set] = boot.key]
          /\ Go("load")
       \/ /\ boot' = [boot EXCEPT !.pc = "load", !.transient = TRUE, !.told = TRUE]
          /\ UNCHANGED stored
    /\ UNCHANGED <<saved, loaded, starts>>

CancelSetup ==
    /\ boot.pc \in {"choose", "key"}
    /\ ExitWith(1)
    /\ UNCHANGED <<saved, stored, loaded, starts>>

(* Mutation: the key of the set-up is taken where none was loaded. *)
FillTransient(c) ==
    IF boot.transient /\ c.key[boot.set] = "" THEN [c EXCEPT !.key[boot.set] = boot.key] ELSE c

(* The key the keyring refused takes the place of the one that was loaded. *)
WithTransient(c) ==
    IF boot.transient THEN [c EXCEPT !.key[boot.set] = boot.key] ELSE c

-----------------------------------------------------------------------------
(* loadConfig, applyFlagOverrides, Validate                                *)

LoadConfig ==
    /\ boot.pc = "load"
    /\ \/ /\ loaded' = WithTransient(Loaded(saved))
          /\ IF boot.mode = "init" THEN ExitWith(0) ELSE Go("check")
       \/ UNCHANGED loaded /\ ExitWith(1)
    /\ UNCHANGED <<saved, stored, starts>>

ApplyFlags(c) == IF boot.flag = "" THEN c ELSE [c EXCEPT !.def = boot.flag]

Accepts(c) == c.def # "" /\ c.provs # {} => c.def \in c.provs

CheckConfig ==
    /\ boot.pc = "check"
    /\ loaded' = ApplyFlags(loaded)
    /\ IF Accepts(loaded') THEN Go("trust") ELSE ExitWith(1)
    /\ UNCHANGED <<saved, stored, starts>>

-----------------------------------------------------------------------------
(* checkTrust                                                              *)

IsTrusted ==
    /\ boot.pc = "trust" /\ boot.dir \in loaded.trusted
    /\ Go("work")
    /\ UNCHANGED <<saved, stored, loaded, starts>>

(* Mutation: the prompt on the terminal takes yes for trust, written or not. *)
AcceptUnsaved ==
    /\ boot.pc = "trust" /\ boot.dir \notin loaded.trusted
    /\ \/ saved' = [saved EXCEPT !.exists = TRUE, !.trusted = @ \cup {boot.dir}]
       \/ UNCHANGED saved
    /\ loaded' = [loaded EXCEPT !.trusted = @ \cup {boot.dir}]
    /\ Go("work")
    /\ UNCHANGED <<stored, starts>>

(* The modal, or the prompt where no modal can be shown.  Where the file   *)
(* cannot be written the modal stays, and the prompt ends the program.     *)
AcceptTrust ==
    /\ boot.pc = "trust" /\ boot.dir \notin loaded.trusted
    /\ \/ /\ saved' = [saved EXCEPT !.exists = TRUE, !.trusted = @ \cup {boot.dir}]
          /\ loaded' = [loaded EXCEPT !.trusted = @ \cup {boot.dir}]
          /\ Go("work")
       \/ UNCHANGED <<saved, loaded, boot>>
       \/ UNCHANGED <<saved, loaded>> /\ ExitWith(0)
    /\ UNCHANGED <<stored, starts>>

Decline ==
    /\ boot.pc = "trust" /\ boot.dir \notin loaded.trusted
    /\ ExitWith(0)
    /\ UNCHANGED <<saved, stored, loaded, starts>>

-----------------------------------------------------------------------------
(* The exit code of a command: a plan that is rejected is no failure, work *)
(* that is stopped or whose result is rejected is one.  A command without  *)
(* any provider fails.                                                     *)
Codes(end) == IF end \in {"done", "plan rejected"} THEN 0 ELSE 1

CommandEnds(end) ==
    /\ boot.pc = "work" /\ boot.mode = "command"
    /\ loaded.provs = {} => end = "failed"
    /\ ExitWith(Codes(end))
    /\ UNCHANGED <<saved, stored, loaded, starts>>

TuiEnds ==
    /\ boot.pc = "work" /\ boot.mode = "tui"
    /\ \E code \in {0, 1} : ExitWith(code)
    /\ UNCHANGED <<saved, stored, loaded, starts>>

(* The program is killed. *)
StartKilled ==
    /\ boot.pc # "off"
    /\ ExitWith(1)
    /\ UNCHANGED <<saved, stored, loaded, starts>>

StartupNext ==
    \/ \E mode \in {"init", "tui", "command"}, flag \in Preset \cup {""}, dir \in StartDir :
          StartProgram(mode, flag, dir)
    \/ \E p \in Preset : Choose(p)
    \/ \E key \in {"new", EnvKey(boot.set)} : SaveSetup(key)
    \/ StoreSetupKey \/ CancelSetup \/ LoadConfig \/ CheckConfig
    \/ IsTrusted \/ AcceptTrust \/ Decline
    \/ \E end \in {"done", "plan rejected", "stopped", "result rejected", "failed"} : CommandEnds(end)
    \/ TuiEnds \/ StartKilled

StartupSpec == StartupInit /\ [][StartupNext]_startupVars

-----------------------------------------------------------------------------
StartupTypeOK ==
    /\ saved \in [exists : BOOLEAN, def : Preset \cup {""}, provs : SUBSET Preset,
                  trusted : SUBSET StartDir]
    /\ stored \in [Preset -> {"", "old", "env", "new"}]
    /\ loaded.provs \subseteq Preset /\ loaded.trusted \subseteq StartDir
    /\ boot.pc \in {"off", "choose", "key", "store", "load", "check", "trust", "work"}
    /\ boot.set \in Preset \cup {""}

(* A program that set a provider up works with that provider and the key  *)
(* the user gave, whatever the keyring had or refused and whatever the     *)
(* environment holds, unless a flag asks for another; and a key that is    *)
(* lost at its end is one the user was told of (runSetupTUI, "API key will *)
(* be stored in memory for this session only").                            *)
KeyIsAtHand ==
    boot.pc = "work" /\ boot.set # "" =>
        /\ loaded.key[boot.set] = boot.key
        /\ boot.flag = "" => loaded.def = boot.set
        /\ stored[boot.set] = boot.key \/ boot.told

(* A program works in a directory only if the file says, too, that the    *)
(* user trusts it: by the modal, by the prompt on the terminal or from an  *)
(* earlier start, and never by a write that failed (checkTrust).           *)
WorkIsTrusted ==
    boot.pc = "work" => boot.dir \in saved.trusted
=============================================================================

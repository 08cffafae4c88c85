--------------------------- MODULE ProviderSetup ---------------------------
(***************************************************************************)
(* Connecting providers: the set-up wizard and the credential commands     *)
(* (internal/ui/views/wizard.go, session.go, welcome.go), the root App     *)
(* that is told of the choice (internal/ui/app.go), and the functions of   *)
(* the runner behind them (buildTUIRunner in cmd/bolt-cowork/main.go).     *)
(*                                                                         *)
(* The choice is kept in four places: the view, the App, the configuration *)
(* all of them share, and its file.  They are changed one after the other, *)
(* by messages that may come late and in any order: every command of       *)
(* bubbletea runs in a goroutine of its own.  A session that is opened     *)
(* brings a choice of its own to the App.  A write of the file may fail,   *)
(* which is shown and changes nothing else; the module ConfigFile is about *)
(* a file that is left half written.                                       *)
(*                                                                         *)
(* A provider has well-known models, one of which stands for all of them   *)
(* ("default"), and models that only its server lists ("found").  A local  *)
(* provider has none of the former and needs no key.  The first entry of   *)
(* the fallback chain is modelled, the only one that is changed here.      *)
(***************************************************************************)
EXTENDS Naturals, FiniteSets, Bags

CONSTANTS
    Provider,   \* presets of config.HostedPresets
    Native,     \* those with a client, and an endpoint, of their own
    Local,      \* those of the group "local"
    Env,        \* those whose environment variable holds a key
    Key,        \* keys the user may type
    GoodKey,    \* those the providers accept
    Recorded,   \* providers, "" for none, that a stored session names
    MaxActs     \* bound: commands, keys and switches of view

ASSUME SetupAssumption ==
    /\ Native \subseteq Provider \ Local /\ Local \subseteq Provider /\ Env \subseteq Provider \ Local
    /\ GoodKey \subseteq Key /\ "" \notin Provider /\ Recorded \subseteq Provider \cup {""}
    /\ Key \cap {"", "env", "old", "unread"} = {}
    /\ MaxActs \in Nat

KeyVal == Key \cup {"", "env", "old"}
Choice(p, m) == [prov |-> p, model |-> m]
None == Choice("", "")
Choices == {Choice(p, m) : p \in Provider, m \in {"default", "found"}}

(* What a chain can name, and a record of a session. *)
Offered == {c \in Choices : IF c.model = "found" THEN c.prov \notin Native ELSE c.prov \notin Local}
Records == {c \in Offered \cup {None} : c.prov \in Recorded}

VARIABLES
    view,     \* the view of the App: "welcome" or "session"
    shown,    \* provider and model of the view
    app,      \* provider and model of App.runner
    cfg,      \* the configuration in memory: default provider, first entry of
              \* the chain, key and entry of every provider
    file,     \* the configuration file
    keyring,  \* the keyring of the system
    wizard,   \* the wizard, in Session or in Welcome
    post,     \* bag of the commands under way and of their messages
    acts,
    kept,     \* history: the key a provider had when last one was settled
    past      \* history: whether the last write of the App failed, whether a
              \* session was opened since the App was last told of a choice, and
              \* the providers whose wizard was taken away with a typed key in effect

setupVars == <<view, shown, app, cfg, file, keyring, wizard, post, acts, kept, past>>

Closed == [open |-> FALSE, prov |-> "", step |-> "auth", key |-> "",
           persist |-> FALSE, prev |-> "", models |-> {}]

(* An entry of cfg.Providers is absent, lists the well-known models, or    *)
(* one that was found as well.                                             *)
Known(entry, p) ==
    (IF p \in Local THEN {} ELSE {"default"}) \cup
    (IF entry[p] = "found" THEN {"found"} ELSE {})

(* Validate: what the next program demands of the file. *)
Valid(f) ==
    (\E p \in Provider : f.entry[p] # "absent") =>
        /\ f.def # "" => f.entry[f.def] # "absent"
        /\ f.chain # None => /\ f.entry[f.chain.prov] # "absent"
                             /\ f.chain.model \in Known(f.entry, f.chain.prov)

(* LoadFile and buildTUIRunner, of a file the program wrote: a model was   *)
(* found of a local provider only, and the one in use is in the chain.     *)
SetupInit ==
    /\ view = "welcome"
    /\ file \in [def : Provider \cup {""}, chain : Offered,
                 entry : {e \in [Provider -> {"absent", "listed", "found"}] :
                             \A p \in Provider : e[p] # (IF p \in Local THEN "listed" ELSE "found")}]
    /\ Valid(file) /\ file.def \in {"", file.chain.prov}
    /\ keyring \in [Provider -> {"", "old"}]
    /\ \A p \in Provider : keyring[p] = "old" => file.entry[p] = "listed"
    /\ cfg = [def |-> file.def, chain |-> file.chain, entry |-> file.entry,
              key |-> [p \in Provider |-> CASE file.entry[p] = "absent" -> ""
                                            [] keyring[p] # "" -> keyring[p]
                                            [] p \in Env -> "env"
                                            [] OTHER -> ""]]
    /\ app = IF file.def = "" THEN None ELSE file.chain
    /\ shown = app
    /\ wizard = Closed
    /\ post = EmptyBag
    /\ acts = 0
    /\ kept = cfg.key
    /\ past = [unsaved |-> FALSE, opened |-> FALSE, dropped |-> {}]

Act == acts < MaxActs /\ acts' = acts + 1
Post(kind, p, m) ==
    post' = post (+) SetToBag({[kind |-> kind, prov |-> p, model |-> m, key |-> "unread"]})
Taken(m) == post (-) SetToBag({m})

-----------------------------------------------------------------------------
(* What the views share                                                    *)

NeedsWizard(p) == p \in Local \/ cfg.key[p] = ""

(* Mutation: the wizard is opened before it is told its provider. *)
StartWizardBlank(p) == wizard' = [Closed EXCEPT !.open = TRUE, !.prev = cfg.key[p]]

StartWizard(p) ==
    wizard' = [Closed EXCEPT !.open = TRUE, !.prov = p, !.prev = cfg.key[p]]

(* The wizard is taken away by a message to the App, and a key typed in it *)
(* stays in the configuration: nothing calls restoreWizardCredential.      *)
DropWizard == wizard' = Closed
Dropped == past.dropped \cup (IF wizard.open /\ wizard.persist THEN {wizard.prov} ELSE {})

(* Mutation: the fallback chain is not written. *)
SaveDefaultOnly(c) == [file EXCEPT !.def = c.def]

(* SaveFilePreservingSecrets and SaveFile *)
SaveSome(c) == [file EXCEPT !.def = c.def, !.chain = c.chain]
SaveAll(c) == [def |-> c.def, chain |-> c.chain, entry |-> c.entry]

(* saveConfigField; the view only tells of an error. *)
Save(f) == file' \in {f, file}

Ensured(p, m) == IF m = "found" \/ cfg.entry[p] = "found" THEN "found" ELSE "listed"

(* commitProviderSwitch; the helper of the welcome view has no file. *)
CommitProviderSwitch(p, m) ==
    /\ cfg' = [cfg EXCEPT !.def = p, !.chain = Choice(p, m), !.entry[p] = Ensured(p, m)]
    /\ IF view = "welcome" THEN UNCHANGED file
       ELSE Save(IF cfg.entry[p] # Ensured(p, m) THEN SaveAll(cfg') ELSE SaveSome(cfg'))

ConfigureProvider(p, key) ==
    [cfg EXCEPT !.key[p] = key, !.entry[p] = IF @ = "absent" THEN "listed" ELSE @]

-----------------------------------------------------------------------------
(* Commands                                                                *)

DefaultModelFor(p) ==
    IF shown.prov = p /\ shown.model \in Known(cfg.entry, p) THEN shown.model ELSE "default"

ConnectProvider(p) ==
    /\ ~wizard.open /\ Act
    /\ IF NeedsWizard(p)
       THEN StartWizard(p) /\ UNCHANGED post
       ELSE Post("direct", p, DefaultModelFor(p)) /\ UNCHANGED wizard
    /\ UNCHANGED <<view, shown, app, cfg, file, keyring, kept, past>>

SwitchModel(p, m) ==
    /\ ~wizard.open /\ Act
    /\ m \in Known(cfg.entry, p)
    /\ IF p # shown.prov /\ NeedsWizard(p)
       THEN StartWizard(p) /\ UNCHANGED <<shown, cfg, file, post>>
       ELSE /\ IF view = "session" THEN CommitProviderSwitch(p, m) ELSE UNCHANGED <<cfg, file>>
            /\ shown' = Choice(p, m)
            /\ Post("changed", p, m)
            /\ UNCHANGED wizard
    /\ UNCHANGED <<view, app, keyring, kept, past>>

Stored(p) == cfg.key[p] # "" /\ keyring[p] # ""

ReplaceCredential(p) ==
    /\ ~wizard.open /\ Stored(p) /\ Act
    /\ StartWizard(p)
    /\ UNCHANGED <<view, shown, app, cfg, file, keyring, post, kept, past>>

(* removeProviderCredential, and what the views make of it. *)
RemoveCredential(p) ==
    /\ ~wizard.open /\ Stored(p) /\ Act
    /\ keyring' = [keyring EXCEPT ![p] = ""]
    /\ LET left == IF p \in Env THEN "env" ELSE ""
           lost == p = shown.prov /\ p \notin Env
       IN /\ cfg' = [cfg EXCEPT !.key[p] = left, !.def = IF lost THEN "" ELSE @]
          /\ kept' = [kept EXCEPT ![p] = left]
          /\ past' = [past EXCEPT !.dropped = @ \ {p}]
          /\ IF lost THEN /\ shown' = None
                          /\ IF view = "session" THEN Save(SaveSome(cfg')) ELSE UNCHANGED file
                          /\ Post("required", "", "")
                     ELSE UNCHANGED <<shown, file, post>>
    /\ UNCHANGED <<view, app, wizard>>

(* StartSessionMsg and CreateSessionMsg, or DeleteSessionMsg of the session *)
(* shown: a new view with the choice of the App.                           *)
SwitchView(v) ==
    /\ v = "welcome" => view = "session"
    /\ Act
    /\ view' = v
    /\ shown' = app
    /\ DropWizard /\ past' = [past EXCEPT !.dropped = Dropped]
    /\ UNCHANGED <<app, cfg, file, keyring, post, kept>>

(* openSession: the App and the new view take the choice of the record,    *)
(* which any earlier program may have saved; nothing else is told of it.   *)
OpenSession(recorded) ==
    /\ Act
    /\ view' = "session"
    /\ app' = recorded /\ shown' = recorded
    /\ DropWizard /\ past' = [past EXCEPT !.dropped = Dropped, !.opened = TRUE]
    /\ UNCHANGED <<cfg, file, keyring, post, kept>>

-----------------------------------------------------------------------------
(* The wizard                                                              *)

At(step) == wizard.open /\ wizard.step = step

StartVerify(w) ==
    /\ wizard' = [w EXCEPT !.step = "verify"]
    /\ Post("verify", w.prov, "")

UseExisting ==
    /\ At("auth") /\ wizard.prev # "" /\ Act
    /\ StartVerify(wizard)
    /\ UNCHANGED <<view, shown, app, cfg, file, keyring, kept, past>>

(* "Use $VAR" and "Continue without key": the key is in effect at once. *)
UseKeyAtHand(key) ==
    /\ At("auth") /\ wizard.prev = "" /\ Act
    /\ IF key = "env" THEN wizard.prov \in Env ELSE wizard.prov \in Local
    /\ cfg' = ConfigureProvider(wizard.prov, key)
    /\ StartVerify([wizard EXCEPT !.key = key, !.persist = FALSE])
    /\ UNCHANGED <<view, shown, app, file, keyring, kept, past>>

EnterKey ==
    /\ At("auth")
    /\ wizard' = [wizard EXCEPT !.step = "key"]
    /\ UNCHANGED <<view, shown, app, cfg, file, keyring, post, acts, kept, past>>

KeyConfirm(key) ==
    /\ At("key") /\ Act
    /\ cfg' = ConfigureProvider(wizard.prov, key)
    /\ StartVerify([wizard EXCEPT !.key = key, !.persist = TRUE])
    /\ UNCHANGED <<view, shown, app, file, keyring, kept, past>>

(* Mutation: only a wizard that closes puts the old key back. *)
RestoreOnClose(w) ==
    /\ cfg' = IF wizard.persist /\ ~w.open
              THEN ConfigureProvider(wizard.prov, wizard.prev) ELSE cfg
    /\ wizard' = IF w.open /\ wizard.persist THEN [w EXCEPT !.persist = FALSE, !.key = ""] ELSE w

(* restoreWizardCredential *)
RestoreCredential(w) ==
    /\ cfg' = IF wizard.persist THEN ConfigureProvider(wizard.prov, wizard.prev) ELSE cfg
    /\ wizard' = IF w.open /\ wizard.persist THEN [w EXCEPT !.persist = FALSE, !.key = ""] ELSE w

Cancel ==
    /\ wizard.open
    /\ RestoreCredential(Closed)
    /\ UNCHANGED <<view, shown, app, file, keyring, post, acts, kept, past>>

(* wizardFinish; the keyring may be out of reach. *)
Finish(m, stored) ==
    /\ At("models") /\ m \in wizard.models
    /\ keyring' = IF wizard.persist /\ wizard.key # "" /\ stored
                  THEN [keyring EXCEPT ![wizard.prov] = wizard.key] ELSE keyring
    /\ CommitProviderSwitch(wizard.prov, m)
    /\ kept' = [kept EXCEPT ![wizard.prov] = cfg.key[wizard.prov]]
    /\ past' = [past EXCEPT !.dropped = @ \ {wizard.prov}]
    /\ shown' = IF view = "session" THEN Choice(wizard.prov, m) ELSE shown
    /\ Post("changed", wizard.prov, m)
    /\ wizard' = Closed
    /\ UNCHANGED <<view, app, acts>>

-----------------------------------------------------------------------------
(* Commands under way and their messages                                   *)

(* VerifyProvider reads the key when it comes to run. *)
KeySeen(p) ==
    IF cfg.key[p] # "" \/ (cfg.chain.prov = p /\ cfg.entry[p] # "absent")
    THEN cfg.key[p] ELSE keyring[p]

VerifyReads(m) ==
    /\ m.kind \in {"verify", "direct"} /\ m.key = "unread"
    /\ post' = Taken(m) (+) SetToBag({[m EXCEPT !.key = KeySeen(m.prov)]})
    /\ UNCHANGED <<view, shown, app, cfg, file, keyring, wizard, acts, kept, past>>

(* A server may be out of reach; a good answer means the key is good. *)
Accepted(key) == key \in GoodKey \cup {"env", "old"}

(* Verify of a native client, which does not ask without a key, and that of *)
(* the others.                                                              *)
NativeVerify(key) == IF key # "" /\ Accepted(key) THEN BOOLEAN ELSE {FALSE}
CustomVerify(p, key) == IF p \in Local \/ Accepted(key) THEN BOOLEAN ELSE {FALSE}

Answers(m) == IF m.prov \in Native THEN NativeVerify(m.key) ELSE CustomVerify(m.prov, m.key)

(* discoverModels: what a server lists, or nothing if it fails; a native   *)
(* provider has no endpoint to ask.                                        *)
HasEndpoint(p) == p \notin Native
DiscoverModels(p) == {{}} \cup (IF HasEndpoint(p) THEN {{"found"}} ELSE {})

IsForWizard(m) == wizard.open /\ m.prov = wizard.prov

DeliverVerify(m, ok) ==
    /\ m.kind = "verify" /\ m.key # "unread" /\ ok \in Answers(m)
    /\ \/ /\ ~IsForWizard(m)
          /\ post' = Taken(m)
          /\ UNCHANGED <<cfg, wizard>>
       \/ /\ IsForWizard(m) /\ ~ok
          /\ post' = Taken(m)
          /\ RestoreCredential([wizard EXCEPT !.step = "auth"])
       \/ /\ IsForWizard(m) /\ ok
          /\ post' = Taken(m) (+) SetToBag({[m EXCEPT !.kind = "models", !.key = "unread"]})
          /\ wizard' = [wizard EXCEPT !.step = "verify"]
          /\ UNCHANGED cfg
    /\ UNCHANGED <<view, shown, app, file, keyring, acts, kept, past>>

(* Mutation: nothing to offer leaves the wizard as it is. *)
DeliverModelsOrWait(m, discovered) ==
    /\ m.kind = "models"
    /\ post' = Taken(m)
    /\ LET models == IF discovered # {} THEN discovered ELSE Known(cfg.entry, m.prov)
       IN wizard' = IF IsForWizard(m) /\ models # {}
                    THEN [wizard EXCEPT !.step = "models", !.models = models] ELSE wizard
    /\ UNCHANGED <<view, shown, app, cfg, file, keyring, acts, kept, past>>

(* handleWizardModelsResult: discovered is empty if discovery failed. *)
DeliverModels(m, discovered) ==
    /\ m.kind = "models"
    /\ post' = Taken(m)
    /\ LET models == IF discovered # {} THEN discovered ELSE Known(cfg.entry, m.prov)
       IN wizard' = CASE ~IsForWizard(m) -> wizard
                      [] models = {} -> [wizard EXCEPT !.step = "auth"]
                      [] OTHER -> [wizard EXCEPT !.step = "models", !.models = models]
    /\ UNCHANGED <<view, shown, app, cfg, file, keyring, acts, kept, past>>

(* ProviderVerifyResultMsg *)
DeliverDirect(m, ok) ==
    /\ m.kind = "direct" /\ m.key # "unread" /\ ok \in Answers(m)
    /\ post' = IF ok THEN Taken(m) (+) SetToBag({[m EXCEPT !.kind = "changed", !.key = "unread"]})
                     ELSE Taken(m)
    /\ IF ok /\ view = "session"
       THEN CommitProviderSwitch(m.prov, m.model) /\ shown' = Choice(m.prov, m.model)
       ELSE UNCHANGED <<cfg, file, shown>>
    /\ UNCHANGED <<view, app, keyring, wizard, acts, kept, past>>

(* The App saves what it is told, and tells the welcome view, whose        *)
(* SetRuntimeModel takes its wizard away.                                  *)
AppTakes(choice, saved) ==
    /\ app' = choice
    /\ file' = IF saved THEN SaveSome(cfg') ELSE file
    /\ IF view = "welcome" THEN shown' = choice /\ DropWizard
                           ELSE UNCHANGED <<shown, wizard>>
    /\ past' = [unsaved |-> ~saved, opened |-> FALSE,
                dropped |-> IF view = "welcome" THEN Dropped ELSE past.dropped]
    /\ UNCHANGED <<view, keyring, acts, kept>>

(* RuntimeModelChangedMsg *)
DeliverChanged(m) ==
    /\ m.kind = "changed"
    /\ post' = Taken(m)
    /\ cfg' = [cfg EXCEPT !.def = m.prov, !.chain = Choice(m.prov, m.model)]
    /\ \E saved \in BOOLEAN : AppTakes(Choice(m.prov, m.model), saved)

(* ProviderSelectionRequiredMsg *)
DeliverRequired(m) ==
    /\ m.kind = "required"
    /\ post' = Taken(m)
    /\ cfg' = [cfg EXCEPT !.def = ""]
    /\ \E saved \in BOOLEAN : AppTakes(None, saved)

Deliver ==
    \E m \in BagToSet(post) :
        \/ VerifyReads(m) \/ DeliverChanged(m) \/ DeliverRequired(m)
        \/ \E ok \in BOOLEAN : DeliverVerify(m, ok) \/ DeliverDirect(m, ok)
        \/ m.kind = "models" /\ \E found \in DiscoverModels(m.prov) : DeliverModels(m, found)

SetupNext ==
    \/ \E p \in Provider : \/ ConnectProvider(p) \/ ReplaceCredential(p) \/ RemoveCredential(p)
                           \/ \E m \in {"default", "found"} : SwitchModel(p, m)
    \/ \E v \in {"welcome", "session"} : SwitchView(v)
    \/ \E recorded \in Records : OpenSession(recorded)
    \/ UseExisting \/ EnterKey \/ Cancel
    \/ \E key \in {"env", ""} : UseKeyAtHand(key)
    \/ \E key \in Key : KeyConfirm(key)
    \/ \E m \in {"default", "found"}, stored \in BOOLEAN : Finish(m, stored)
    \/ Deliver

(* A verification has ten seconds and a discovery of models five, after    *)
(* which their contexts end: every command delivers its message.           *)
SetupSpec == SetupInit /\ [][SetupNext]_setupVars /\ WF_setupVars(Deliver)

-----------------------------------------------------------------------------
SetupTypeOK ==
    /\ view \in {"welcome", "session"}
    /\ {shown, app} \subseteq Choices \cup {None}
    /\ cfg.def \in Provider \cup {""} /\ cfg.chain \in Choices
    /\ cfg.key \in [Provider -> KeyVal] /\ kept \in [Provider -> KeyVal]
    /\ keyring \in [Provider -> Key \cup {"", "old"}]
    /\ past.dropped \subseteq Provider
    /\ file.entry \in [Provider -> {"absent", "listed", "found"}]
    /\ wizard.open => wizard.prov \in Provider /\ wizard.step \in {"auth", "key", "verify", "models"}

Quiet == \A m \in BagToSet(post) : m.kind \notin {"changed", "required"}

(* Once no choice is on its way the App, the configuration and its file    *)
(* agree on it, whatever the order in which the messages of a switch, of a *)
(* verification and of a removal arrived, and whatever writes failed       *)
(* before: the file may only lag behind if the write of the App that came  *)
(* last failed, and the App may only differ if a session was opened since  *)
(* it was last told (App.Update, openSession, commitProviderSwitch).       *)
QuietAgrees ==
    Quiet =>
        /\ past.unsaved \/ (file.def = cfg.def /\ file.chain = cfg.chain)
        /\ past.opened \/ (app.prov = cfg.def /\ (cfg.def # "" => app = cfg.chain))

(* A key that was typed and given up, or that its provider refused, gives  *)
(* way to the one that was settled last, by a wizard that finished or by a *)
(* removal, or to the one of the environment in place of none.  A wizard   *)
(* that is taken away by a message to the App puts nothing back: that is   *)
(* the exception, until the key of the provider is settled again           *)
(* (restoreWizardCredential, SetRuntimeModel).                             *)
CancelRestores ==
    \A p \in Provider \ past.dropped :
        \/ cfg.key[p] = kept[p]
        \/ wizard.open /\ wizard.prov = p
        \/ p \in Env /\ kept[p] = "" /\ cfg.key[p] = "env"

(* The wizard never hangs in a verification: a result ends it, or the      *)
(* discovery of models that follows, also when several of them, some for  *)
(* keys typed before, are under way (handleWizardVerifyResult).            *)
VerifyEnds == At("verify") ~> ~At("verify")

(* The configuration file stays one the next start accepts (Validate):    *)
(* "Dynamically discovered hosted and local models are persisted in        *)
(* ProviderConfig.Models, keeping configuration valid after restart".      *)
FileIsValid == Valid(file)

(* Only a key its provider accepted gets into the keyring: provider        *)
(* credentials are "persisted only after successful verification".         *)
KeyringIsVerified ==
    \A p \in Provider \ Local : keyring[p] \in GoodKey \cup {"", "old"}

(* With no wizard on the welcome screen and nothing under way, a provider  *)
(* that had a key has none that it refuses: the previous key is "restored  *)
(* if replacement fails or is cancelled".                                  *)
ReplacementIsUndone ==
    view = "welcome" /\ ~wizard.open /\ post = EmptyBag =>
        \A p \in Provider \ Local : kept[p] # "" => cfg.key[p] \in GoodKey \cup {"env", "old"}

(* While no provider is chosen none is in use: having none "blocks         *)
(* starting a session [...] until a provider is reconnected".              *)
NoneIsInUse == Quiet /\ cfg.def = "" => app = None
=============================================================================

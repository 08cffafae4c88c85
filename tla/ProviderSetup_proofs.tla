----------------------- MODULE ProviderSetup_proofs -----------------------
(***************************************************************************)
(* The places a choice of provider is kept in agree in the end, but for a  *)
(* last write that failed and a session opened since, and a key that was   *)
(* given up gives way to the one before, but for a wizard that is taken    *)
(* away: for any providers, keys, stored sessions and number of commands,  *)
(* and whatever the order their messages arrive in.                        *)
(***************************************************************************)
EXTENDS ProviderSetup, TLAPS

Models == {"default", "found"}
EntryKind == {"absent", "listed", "found"}
Names == Provider \cup {""}

ConfigType == [def : Names, chain : Choices, entry : [Provider -> EntryKind],
               key : [Provider -> KeyVal]]
FileType == [def : Names, chain : Choices, entry : [Provider -> EntryKind]]

WizardType ==
    {w \in [open : BOOLEAN, prov : Names, step : {"auth", "key", "verify", "models"},
            key : KeyVal, persist : BOOLEAN, prev : KeyVal, models : SUBSET Models] :
        /\ w.open => w.prov \in Provider
        /\ w.persist => w.key \in Key}

Message ==
    {m \in [kind : {"verify", "direct", "models", "changed", "required"}, prov : Names,
            model : Models \cup {""}, key : KeyVal \cup {"unread"}] :
        /\ m.kind # "required" => m.prov \in Provider
        /\ m.kind \in {"direct", "changed"} => m.model \in Models}

PastType == [unsaved : BOOLEAN, opened : BOOLEAN, dropped : SUBSET Provider]

IsPost(b) ==
    /\ BagToSet(b) \subseteq Message
    /\ \A m \in BagToSet(b) : b[m] \in Nat \ {0}

TypeInv ==
    /\ view \in {"welcome", "session"}
    /\ {shown, app} \subseteq Choices \cup {None}
    /\ cfg \in ConfigType
    /\ file \in FileType
    /\ keyring \in [Provider -> Key \cup {"", "old"}]
    /\ kept \in [Provider -> KeyVal]
    /\ wizard \in WizardType
    /\ past \in PastType
    /\ IsPost(post)

(* The key of a provider is the one that was settled, or that of the       *)
(* environment in place of none.                                           *)
IsSettled(p, key) == key = kept[p] \/ (p \in Env /\ kept[p] = "" /\ key = "env")

(* A wizard puts back a settled key, and until it has typed one there is   *)
(* nothing to put back; unless an earlier wizard for the provider was      *)
(* taken away.                                                             *)
WizardInv ==
    wizard.open /\ wizard.prov \notin past.dropped =>
        /\ IsSettled(wizard.prov, wizard.prev)
        /\ ~wizard.persist => IsSettled(wizard.prov, cfg.key[wizard.prov])

SettledInv ==
    \A p \in Provider \ past.dropped :
        IsSettled(p, cfg.key[p]) \/ (wizard.open /\ wizard.prov = p)

-----------------------------------------------------------------------------
LEMMA ChoicesAreRecords ==
    /\ Choices = [prov : Provider, model : Models]
    /\ None = [prov |-> "", model |-> ""]
<1>1. ASSUME NEW c \in [prov : Provider, model : Models] PROVE c \in Choices
  <2>1. c = Choice(c.prov, c.model)
    BY DEF Choice
  <2> QED
    BY <2>1 DEF Choices, Models
<1>2. ASSUME NEW c \in Choices PROVE c \in [prov : Provider, model : Models]
  BY DEF Choices, Choice, Models
<1> QED
  BY <1>1, <1>2 DEF None, Choice

LEMMA ClosedIsWizard == Closed \in WizardType /\ Closed.open = FALSE /\ Closed.persist = FALSE
BY DEF Closed, WizardType, Names, KeyVal

LEMMA MessageAdded ==
    ASSUME NEW b, IsPost(b), NEW m \in Message
    PROVE  /\ IsPost(b (+) SetToBag({m}))
           /\ BagToSet(b (+) SetToBag({m})) = BagToSet(b) \cup {m}
<1>1. BagToSet(b (+) SetToBag({m})) = BagToSet(b) \cup {m}
  BY DEF BagToSet, SetToBag, (+)
<1>2. \A x \in BagToSet(b) \cup {m} : (b (+) SetToBag({m}))[x] \in Nat \ {0}
  BY DEF IsPost, BagToSet, SetToBag, (+)
<1> QED
  BY <1>1, <1>2 DEF IsPost

LEMMA MessageTaken ==
    ASSUME NEW b, IsPost(b), NEW m \in BagToSet(b)
    PROVE  /\ IsPost(b (-) SetToBag({m}))
           /\ BagToSet(b (-) SetToBag({m})) \subseteq BagToSet(b)
           /\ BagToSet(b) \ {m} \subseteq BagToSet(b (-) SetToBag({m}))
<1> DEFINE less == [x \in DOMAIN b |-> IF x \in {m} THEN b[x] - 1 ELSE b[x]]
<1>1. b (-) SetToBag({m}) = [x \in {d \in DOMAIN b : less[d] > 0} |-> less[x]]
  BY DEF (-), SetToBag
<1>2. \A x \in DOMAIN b : less[x] \in Nat /\ (x # m => less[x] > 0)
  BY DEF IsPost, BagToSet
<1>3. BagToSet(b) \subseteq Message /\ m \in DOMAIN b
  BY DEF IsPost, BagToSet
<1> HIDE DEF less
<1> DEFINE left == {d \in DOMAIN b : less[d] > 0}
<1>4. BagToSet(b (-) SetToBag({m})) = left /\ \A x \in left : (b (-) SetToBag({m}))[x] = less[x]
  BY <1>1 DEF BagToSet
<1>5. left \subseteq DOMAIN b /\ (DOMAIN b) \ {m} \subseteq left
  BY <1>2
<1>6. \A x \in left : less[x] \in Nat \ {0}
  BY <1>2
<1> HIDE DEF left
<1> QED
  BY <1>3, <1>4, <1>5, <1>6 DEF IsPost, BagToSet

LEMMA Posted ==
    ASSUME TypeInv, NEW kind \in {"verify", "direct", "changed"}, NEW p \in Provider,
           NEW m \in Models \cup {""}, kind # "verify" => m \in Models,
           Post(kind, p, m)
    PROVE  /\ IsPost(post')
           /\ \E x \in BagToSet(post') : x.kind = kind
           /\ BagToSet(post) \subseteq BagToSet(post')
<1> DEFINE x == [kind |-> kind, prov |-> p, model |-> m, key |-> "unread"]
<1>1. x \in Message /\ x.kind = kind
  BY DEF Message, Names
<1>2. post' = post (+) SetToBag({x})
  BY DEF Post
<1> HIDE DEF x
<1>3. IsPost(post)
  BY DEF TypeInv
<1>4. IsPost(post (+) SetToBag({x})) /\ BagToSet(post (+) SetToBag({x})) = BagToSet(post) \cup {x}
  BY <1>1, <1>3, MessageAdded
<1> QED
  BY <1>1, <1>2, <1>4

LEMMA PostedRequired ==
    ASSUME TypeInv, Post("required", "", "")
    PROVE  /\ IsPost(post')
           /\ \E x \in BagToSet(post') : x.kind = "required"
           /\ BagToSet(post) \subseteq BagToSet(post')
<1> DEFINE x == [kind |-> "required", prov |-> "", model |-> "", key |-> "unread"]
<1>1. x \in Message /\ x.kind = "required"
  BY DEF Message, Names
<1>2. post' = post (+) SetToBag({x})
  BY DEF Post
<1> HIDE DEF x
<1>3. IsPost(post)
  BY DEF TypeInv
<1>4. IsPost(post (+) SetToBag({x})) /\ BagToSet(post (+) SetToBag({x})) = BagToSet(post) \cup {x}
  BY <1>1, <1>3, MessageAdded
<1> QED
  BY <1>1, <1>2, <1>4

LEMMA CommitStep ==
    ASSUME TypeInv, NEW p \in Provider, NEW m \in Models, CommitProviderSwitch(p, m)
    PROVE  cfg' \in ConfigType /\ file' \in FileType /\ cfg'.key = cfg.key
<1>1. Choice(p, m) \in Choices
  BY DEF Choices, Models
<1>2. Ensured(p, m) \in EntryKind
  BY DEF Ensured, EntryKind
<1>3. cfg' \in ConfigType /\ cfg'.key = cfg.key
  BY <1>1, <1>2 DEF CommitProviderSwitch, TypeInv, ConfigType, Names
<1>4. SaveAll(cfg') \in FileType /\ SaveSome(cfg') \in FileType
  BY <1>3 DEF SaveAll, SaveSome, TypeInv, ConfigType, FileType
<1> QED
  BY <1>3, <1>4 DEF CommitProviderSwitch, Save, TypeInv

LEMMA ConfigureStep ==
    ASSUME TypeInv, NEW p \in Provider, NEW key \in KeyVal
    PROVE  /\ ConfigureProvider(p, key) \in ConfigType
           /\ ConfigureProvider(p, key).key = [cfg.key EXCEPT ![p] = key]
           /\ ConfigureProvider(p, key).def = cfg.def
           /\ ConfigureProvider(p, key).chain = cfg.chain
BY DEF ConfigureProvider, TypeInv, ConfigType, EntryKind

(* Restoring leaves the choice alone.  A wizard that stays has nothing     *)
(* left to put back.                                                       *)
LEMMA RestoreStep ==
    ASSUME TypeInv, wizard.open, NEW w \in WizardType, w.persist => wizard.persist,
           RestoreCredential(w)
    PROVE  /\ cfg' \in ConfigType /\ wizard' \in WizardType
           /\ cfg'.def = cfg.def /\ cfg'.chain = cfg.chain
           /\ cfg'.key = IF wizard.persist
                         THEN [cfg.key EXCEPT ![wizard.prov] = wizard.prev] ELSE cfg.key
           /\ wizard'.open = w.open /\ wizard'.prov = w.prov /\ wizard'.prev = w.prev
           /\ w.open => ~wizard'.persist
<1>1. wizard.prov \in Provider /\ wizard.prev \in KeyVal
  BY DEF TypeInv, WizardType
<1>2. /\ cfg' \in ConfigType /\ cfg'.def = cfg.def /\ cfg'.chain = cfg.chain
      /\ cfg'.key = IF wizard.persist
                    THEN [cfg.key EXCEPT ![wizard.prov] = wizard.prev] ELSE cfg.key
  BY <1>1, ConfigureStep DEF RestoreCredential, TypeInv
<1>3. CASE w.open /\ wizard.persist
  <2>1. wizard' = [w EXCEPT !.persist = FALSE, !.key = ""]
    BY <1>3 DEF RestoreCredential
  <2> QED
    BY <1>2, <2>1 DEF WizardType, KeyVal
<1>4. CASE ~(w.open /\ wizard.persist)
  BY <1>2, <1>4 DEF RestoreCredential, WizardType
<1> QED
  BY <1>3, <1>4

LEMMA DropStep ==
    ASSUME TypeInv, DropWizard
    PROVE  /\ wizard' = Closed /\ wizard' \in WizardType /\ Dropped \subseteq Provider
BY ClosedIsWizard DEF DropWizard, Dropped, TypeInv, WizardType, PastType

LEMMA StartStep ==
    ASSUME TypeInv, NEW p \in Provider, StartWizard(p)
    PROVE  /\ wizard' \in WizardType
           /\ wizard'.open /\ wizard'.prov = p /\ wizard'.prev = cfg.key[p]
           /\ ~wizard'.persist
BY DEF StartWizard, Closed, TypeInv, WizardType, ConfigType, KeyVal, Names

LEMMA AppStep ==
    ASSUME TypeInv, NEW choice \in Choices \cup {None}, NEW saved \in BOOLEAN,
           cfg' \in ConfigType, AppTakes(choice, saved)
    PROVE  /\ app' = choice /\ shown' \in Choices \cup {None}
           /\ file' \in FileType
           /\ past'.unsaved \/ (file'.def = cfg'.def /\ file'.chain = cfg'.chain)
           /\ wizard' \in WizardType /\ past' \in PastType
           /\ UNCHANGED <<view, keyring, kept>>
<1>1. SaveSome(cfg') \in FileType /\ SaveSome(cfg').def = cfg'.def
      /\ SaveSome(cfg').chain = cfg'.chain
  BY DEF SaveSome, TypeInv, ConfigType, FileType
<1>2. past'.unsaved = ~saved /\ file' = (IF saved THEN SaveSome(cfg') ELSE file)
  BY DEF AppTakes
<1>3. file' \in FileType /\ (past'.unsaved \/ (file'.def = cfg'.def /\ file'.chain = cfg'.chain))
  BY <1>1, <1>2 DEF TypeInv
<1>4. CASE view = "welcome"
  BY <1>3, <1>4, DropStep DEF AppTakes, TypeInv, PastType
<1>5. CASE view # "welcome"
  BY <1>3, <1>5 DEF AppTakes, TypeInv, PastType
<1> QED
  BY <1>4, <1>5

(* A message that is taken, and one that is put in its place.              *)
LEMMA TakenStep ==
    ASSUME TypeInv, NEW m \in BagToSet(post)
    PROVE  /\ m \in Message
           /\ IsPost(Taken(m))
           /\ BagToSet(post) \ {m} \subseteq BagToSet(Taken(m))
           /\ BagToSet(Taken(m)) \subseteq BagToSet(post)
BY MessageTaken DEF TypeInv, Taken, IsPost

LEMMA ReplacedStep ==
    ASSUME TypeInv, NEW m \in BagToSet(post), NEW n \in Message
    PROVE  /\ IsPost(Taken(m) (+) SetToBag({n}))
           /\ BagToSet(Taken(m) (+) SetToBag({n})) = BagToSet(Taken(m)) \cup {n}
BY TakenStep, MessageAdded

LEMMA InitSetup == SetupInit => TypeInv /\ QuietAgrees /\ WizardInv /\ SettledInv
<1> SUFFICES ASSUME SetupInit PROVE TypeInv /\ QuietAgrees /\ WizardInv /\ SettledInv
  OBVIOUS
<1>1. /\ file \in FileType /\ file.def \in {"", file.chain.prov}
      /\ keyring \in [Provider -> {"", "old"}]
  BY DEF SetupInit, FileType, Names, EntryKind, Offered
<1>2. cfg \in ConfigType /\ cfg.def = file.def /\ cfg.chain = file.chain
      /\ kept = cfg.key /\ kept \in [Provider -> KeyVal]
  BY <1>1 DEF SetupInit, ConfigType, FileType, KeyVal
<1>3. app = (IF file.def = "" THEN None ELSE file.chain) /\ shown = app
  BY DEF SetupInit
<1>4. None.prov = "" /\ "" \notin Provider
  BY ChoicesAreRecords, SetupAssumption
<1>5. app.prov = cfg.def /\ (cfg.def # "" => app = cfg.chain)
      /\ {shown, app} \subseteq Choices \cup {None}
  BY <1>1, <1>2, <1>3, <1>4 DEF FileType
<1>6. IsPost(post)
  BY DEF SetupInit, IsPost, EmptyBag, SetToBag, BagToSet
<1>7. view = "welcome" /\ wizard = Closed /\ past \in PastType
  BY DEF SetupInit, PastType
<1> QED
  BY <1>1, <1>2, <1>5, <1>6, <1>7, ClosedIsWizard
  DEF TypeInv, QuietAgrees, WizardInv, SettledInv, IsSettled

LEMMA CommandsAreTyped ==
    ASSUME TypeInv, NEW p \in Provider, NEW m \in Models,
           \/ ConnectProvider(p) \/ SwitchModel(p, m)
           \/ ReplaceCredential(p) \/ RemoveCredential(p)
    PROVE  TypeInv'
<1>1. CASE ConnectProvider(p)
  <2>1. DefaultModelFor(p) \in Models
    BY ChoicesAreRecords DEF DefaultModelFor, Known, Models, TypeInv
  <2>2. CASE NeedsWizard(p)
    BY <1>1, <2>2, StartStep DEF ConnectProvider, TypeInv
  <2>3. CASE ~NeedsWizard(p)
    <3>1. IsPost(post')
      BY <1>1, <2>1, <2>3, Posted DEF ConnectProvider
    <3> QED
      BY <1>1, <2>3, <3>1 DEF ConnectProvider, TypeInv
  <2> QED
    BY <2>2, <2>3
<1>2. CASE SwitchModel(p, m)
  <2>1. CASE p # shown.prov /\ NeedsWizard(p)
    BY <1>2, <2>1, StartStep DEF SwitchModel, TypeInv
  <2>2. CASE ~(p # shown.prov /\ NeedsWizard(p))
    <3>1. cfg' \in ConfigType /\ file' \in FileType
      <4>1. CASE view = "session"
        BY <1>2, <2>2, <4>1, CommitStep DEF SwitchModel
      <4>2. CASE view # "session"
        BY <1>2, <2>2, <4>2 DEF SwitchModel, TypeInv
      <4> QED
        BY <4>1, <4>2
    <3>2. IsPost(post')
      BY <1>2, <2>2, Posted DEF SwitchModel
    <3>3. shown' \in Choices
      BY <1>2, <2>2 DEF SwitchModel, Choices, Models
    <3> QED
      BY <1>2, <2>2, <3>1, <3>2, <3>3 DEF SwitchModel, TypeInv
  <2> QED
    BY <2>1, <2>2
<1>3. CASE ReplaceCredential(p)
  BY <1>3, StartStep DEF ReplaceCredential, TypeInv
<1>4. CASE RemoveCredential(p)
  <2> DEFINE left == IF p \in Env THEN "env" ELSE ""
  <2> DEFINE lost == p = shown.prov /\ p \notin Env
  <2>1. /\ cfg' = [cfg EXCEPT !.key[p] = left, !.def = IF lost THEN "" ELSE @]
        /\ kept' = [kept EXCEPT ![p] = left] /\ keyring' = [keyring EXCEPT ![p] = ""]
        /\ past' = [past EXCEPT !.dropped = @ \ {p}]
    BY <1>4 DEF RemoveCredential
  <2>2. left \in KeyVal
    BY DEF KeyVal
  <2> HIDE DEF left
  <2>3. cfg' \in ConfigType
    BY <2>1, <2>2 DEF TypeInv, ConfigType, Names
  <2>4. /\ kept' \in [Provider -> KeyVal] /\ keyring' \in [Provider -> Key \cup {"", "old"}]
        /\ past' \in PastType
    BY <2>1, <2>2 DEF TypeInv, PastType
  <2>5. shown' \in Choices \cup {None} /\ file' \in FileType /\ IsPost(post')
    <3>1. CASE lost
      <4>1. SaveSome(cfg') \in FileType
        BY <2>3 DEF SaveSome, TypeInv, ConfigType, FileType
      <4>2. /\ shown' = None
            /\ file' \in {SaveSome(cfg'), file}
            /\ Post("required", "", "")
        BY <1>4, <3>1 DEF RemoveCredential, Save
      <4> QED
        BY <4>1, <4>2, PostedRequired DEF TypeInv
    <3>2. CASE ~lost
      BY <1>4, <3>2 DEF RemoveCredential, TypeInv
    <3> QED
      BY <3>1, <3>2
  <2> QED
    BY <1>4, <2>3, <2>4, <2>5 DEF RemoveCredential, TypeInv
<1> QED
  BY <1>1, <1>2, <1>3, <1>4

LEMMA VerifyStep ==
    ASSUME TypeInv, NEW w \in WizardType, w.open, StartVerify(w)
    PROVE  /\ wizard' \in WizardType /\ IsPost(post')
           /\ wizard'.open /\ wizard'.prov = w.prov /\ wizard'.prev = w.prev
           /\ wizard'.persist = w.persist
           /\ BagToSet(post) \subseteq BagToSet(post')
<1>1. wizard' = [w EXCEPT !.step = "verify"] /\ w.prov \in Provider
  BY DEF StartVerify, WizardType
<1>2. Post("verify", w.prov, "")
  BY DEF StartVerify
<1>3. IsPost(post') /\ BagToSet(post) \subseteq BagToSet(post')
  BY <1>1, <1>2, Posted
<1> QED
  BY <1>1, <1>3 DEF WizardType

(* A new view, of the choice of the App or of that of a stored session.    *)
NewView ==
    \/ \E v \in {"welcome", "session"} : SwitchView(v)
    \/ \E recorded \in Records : OpenSession(recorded)

LEMMA ViewStep ==
    ASSUME TypeInv, NewView
    PROVE  /\ TypeInv' /\ DropWizard
           /\ past'.dropped = Dropped /\ past'.unsaved = past.unsaved
           /\ past'.opened \/ (app' = app /\ past'.opened = past.opened)
           /\ UNCHANGED <<cfg, file, post, kept>>
<1>1. CASE \E v \in {"welcome", "session"} : SwitchView(v)
  <2>1. DropWizard /\ past' = [past EXCEPT !.dropped = Dropped]
    BY <1>1 DEF SwitchView
  <2>2. /\ past' \in PastType /\ past'.dropped = Dropped
        /\ past'.unsaved = past.unsaved /\ past'.opened = past.opened
    BY <2>1, DropStep DEF TypeInv, PastType
  <2> QED
    BY <1>1, <2>1, <2>2, DropStep DEF SwitchView, TypeInv
<1>2. CASE \E recorded \in Records : OpenSession(recorded)
  <2>1. PICK recorded \in Records : OpenSession(recorded)
    BY <1>2
  <2>2. DropWizard /\ past' = [past EXCEPT !.dropped = Dropped, !.opened = TRUE]
    BY <2>1 DEF OpenSession
  <2>3. /\ past' \in PastType /\ past'.dropped = Dropped
        /\ past'.unsaved = past.unsaved /\ past'.opened
    BY <2>2, DropStep DEF TypeInv, PastType
  <2>4. recorded \in Choices \cup {None}
    BY DEF Records, Offered
  <2> QED
    BY <2>1, <2>2, <2>3, <2>4, DropStep DEF OpenSession, TypeInv
<1> QED
  BY <1>1, <1>2 DEF NewView

LEMMA WizardIsTyped ==
    ASSUME TypeInv,
           \/ NewView \/ UseExisting \/ EnterKey \/ Cancel
           \/ \E key \in {"env", ""} : UseKeyAtHand(key)
           \/ \E key \in Key : KeyConfirm(key)
           \/ \E m \in Models, stored \in BOOLEAN : Finish(m, stored)
    PROVE  TypeInv'
<1>1. CASE NewView
  BY <1>1, ViewStep
<1>2. CASE UseExisting
  <2>1. wizard \in WizardType /\ wizard.open /\ StartVerify(wizard)
    BY <1>2 DEF UseExisting, At, TypeInv
  <2> QED
    BY <1>2, <2>1, VerifyStep DEF UseExisting, TypeInv
<1>3. CASE EnterKey
  <2>1. wizard' = [wizard EXCEPT !.step = "key"]
    BY <1>3 DEF EnterKey
  <2>2. wizard' \in WizardType
    BY <2>1 DEF TypeInv, WizardType
  <2> QED
    BY <1>3, <2>2 DEF EnterKey, TypeInv
<1>4. CASE Cancel
  <2>1. wizard.open /\ RestoreCredential(Closed)
    BY <1>4 DEF Cancel
  <2>2. cfg' \in ConfigType /\ wizard' \in WizardType
    BY <2>1, RestoreStep, ClosedIsWizard
  <2> QED
    BY <1>4, <2>2 DEF Cancel, TypeInv
<1>5. CASE \E key \in {"env", ""} : UseKeyAtHand(key)
  <2>1. PICK key \in {"env", ""} : UseKeyAtHand(key)
    BY <1>5
  <2> DEFINE w == [wizard EXCEPT !.key = key, !.persist = FALSE]
  <2>2. w \in WizardType /\ w.open /\ wizard.prov \in Provider /\ key \in KeyVal
    BY <2>1 DEF UseKeyAtHand, At, TypeInv, WizardType, KeyVal
  <2>3. StartVerify(w) /\ cfg' = ConfigureProvider(wizard.prov, key)
    BY <2>1 DEF UseKeyAtHand
  <2> HIDE DEF w
  <2>4. wizard' \in WizardType /\ IsPost(post') /\ cfg' \in ConfigType
    BY <2>2, <2>3, VerifyStep, ConfigureStep
  <2> QED
    BY <2>1, <2>4 DEF UseKeyAtHand, TypeInv
<1>6. CASE \E key \in Key : KeyConfirm(key)
  <2>1. PICK key \in Key : KeyConfirm(key)
    BY <1>6
  <2> DEFINE w == [wizard EXCEPT !.key = key, !.persist = TRUE]
  <2>2. w \in WizardType /\ w.open /\ wizard.prov \in Provider /\ key \in KeyVal
    BY <2>1 DEF KeyConfirm, At, TypeInv, WizardType, KeyVal
  <2>3. StartVerify(w) /\ cfg' = ConfigureProvider(wizard.prov, key)
    BY <2>1 DEF KeyConfirm
  <2> HIDE DEF w
  <2>4. wizard' \in WizardType /\ IsPost(post') /\ cfg' \in ConfigType
    BY <2>2, <2>3, VerifyStep, ConfigureStep
  <2> QED
    BY <2>1, <2>4 DEF KeyConfirm, TypeInv
<1>7. CASE \E m \in Models, stored \in BOOLEAN : Finish(m, stored)
  <2>1. PICK m \in Models, stored \in BOOLEAN : Finish(m, stored)
    BY <1>7
  <2>2. wizard.prov \in Provider /\ (wizard.persist => wizard.key \in Key)
    BY <2>1 DEF Finish, At, TypeInv, WizardType
  <2>3. cfg' \in ConfigType /\ file' \in FileType
    BY <2>1, <2>2, CommitStep DEF Finish
  <2>4. IsPost(post')
    BY <2>1, <2>2, Posted DEF Finish
  <2>5. shown' \in Choices \cup {None}
    <3>1. Choice(wizard.prov, m) \in Choices
      BY <2>1, <2>2, ChoicesAreRecords DEF Choice
    <3> QED
      BY <2>1, <3>1 DEF Finish, TypeInv
  <2>6. /\ keyring' \in [Provider -> Key \cup {"", "old"}] /\ kept' \in [Provider -> KeyVal]
        /\ past' \in PastType
    BY <2>1, <2>2 DEF Finish, TypeInv, ConfigType, PastType
  <2> QED
    BY <2>1, <2>3, <2>4, <2>5, <2>6, ClosedIsWizard DEF Finish, TypeInv
<1> QED
  BY <1>1, <1>2, <1>3, <1>4, <1>5, <1>6, <1>7

(* What a message does when it is handled.                                 *)
Delivers(m) ==
    \/ VerifyReads(m) \/ DeliverChanged(m) \/ DeliverRequired(m)
    \/ \E ok \in BOOLEAN : DeliverVerify(m, ok) \/ DeliverDirect(m, ok)
    \/ m.kind = "models" /\ \E found \in DiscoverModels(m.prov) : DeliverModels(m, found)

LEMMA ReadStep ==
    ASSUME TypeInv, NEW m \in BagToSet(post), VerifyReads(m)
    PROVE  /\ IsPost(post')
           /\ \A x \in BagToSet(post) : x # m => x \in BagToSet(post')
           /\ m.kind \in {"verify", "direct"}
<1> DEFINE n == [m EXCEPT !.key = KeySeen(m.prov)]
<1>1. m \in Message /\ m.kind \in {"verify", "direct"}
  BY TakenStep DEF VerifyReads
<1>2. KeySeen(m.prov) \in KeyVal
  BY <1>1 DEF KeySeen, TypeInv, ConfigType, Message, KeyVal
<1>3. n \in Message
  BY <1>1, <1>2 DEF Message
<1>4. post' = Taken(m) (+) SetToBag({n})
  BY DEF VerifyReads
<1> HIDE DEF n
<1> QED
  BY <1>1, <1>3, <1>4, TakenStep, ReplacedStep

LEMMA VerifiedStep ==
    ASSUME TypeInv, NEW m \in BagToSet(post), NEW ok \in BOOLEAN, DeliverVerify(m, ok)
    PROVE  /\ IsPost(post')
           /\ \A x \in BagToSet(post) : x # m => x \in BagToSet(post')
           /\ m.kind = "verify"
           /\ wizard' \in WizardType /\ cfg' \in ConfigType
           /\ cfg'.def = cfg.def /\ cfg'.chain = cfg.chain
<1>1. m \in Message /\ m.kind = "verify" /\ wizard \in WizardType
  BY TakenStep DEF DeliverVerify, TypeInv
<1>2. CASE ~IsForWizard(m)
  BY <1>1, <1>2, TakenStep DEF DeliverVerify, TypeInv
<1>3. CASE IsForWizard(m) /\ ~ok
  <2> DEFINE w == [wizard EXCEPT !.step = "auth"]
  <2>1. w \in WizardType /\ wizard.open /\ w.persist = wizard.persist
    BY <1>1, <1>3 DEF WizardType, IsForWizard
  <2>2. RestoreCredential(w) /\ post' = Taken(m)
    BY <1>3 DEF DeliverVerify
  <2> HIDE DEF w
  <2> QED
    BY <1>1, <2>1, <2>2, RestoreStep, TakenStep
<1>4. CASE IsForWizard(m) /\ ok
  <2> DEFINE n == [m EXCEPT !.kind = "models", !.key = "unread"]
  <2>1. n \in Message
    BY <1>1 DEF Message
  <2>2. /\ post' = Taken(m) (+) SetToBag({n}) /\ UNCHANGED cfg
        /\ wizard' = [wizard EXCEPT !.step = "verify"]
    BY <1>4 DEF DeliverVerify
  <2> HIDE DEF n
  <2>3. wizard' \in WizardType
    BY <1>1, <2>2 DEF WizardType
  <2> QED
    BY <1>1, <2>1, <2>2, <2>3, TakenStep, ReplacedStep DEF TypeInv
<1> QED
  BY <1>2, <1>3, <1>4

LEMMA ModelsStep ==
    ASSUME TypeInv, NEW m \in BagToSet(post), m.kind = "models",
           NEW found \in DiscoverModels(m.prov), DeliverModels(m, found)
    PROVE  wizard' \in WizardType
<1> DEFINE models == IF found # {} THEN found ELSE Known(cfg.entry, m.prov)
<1>1. models \subseteq Models
  BY DEF DiscoverModels, Known, Models
<1>2. wizard' = CASE ~IsForWizard(m) -> wizard
                  [] models = {} -> [wizard EXCEPT !.step = "auth"]
                  [] OTHER -> [wizard EXCEPT !.step = "models", !.models = models]
  BY DEF DeliverModels
<1> HIDE DEF models
<1> QED
  BY <1>1, <1>2 DEF TypeInv, WizardType

LEMMA DirectStep ==
    ASSUME TypeInv, NEW m \in BagToSet(post), NEW ok \in BOOLEAN, DeliverDirect(m, ok)
    PROVE  /\ IsPost(post')
           /\ \A x \in BagToSet(post) : x # m => x \in BagToSet(post')
           /\ m.kind = "direct"
           /\ cfg' \in ConfigType /\ file' \in FileType /\ cfg'.key = cfg.key
           /\ shown' \in Choices \cup {None}
           /\ (\E x \in BagToSet(post') : x.kind = "changed") \/ UNCHANGED <<cfg, file>>
<1>1. m \in Message /\ m.kind = "direct" /\ m.prov \in Provider /\ m.model \in Models
  BY TakenStep DEF DeliverDirect, Message
<1>2. cfg' \in ConfigType /\ file' \in FileType /\ cfg'.key = cfg.key
      /\ shown' \in Choices \cup {None}
  <2>1. CASE ok /\ view = "session"
    <3>1. Choice(m.prov, m.model) \in Choices
      BY <1>1 DEF Choices, Models
    <3> QED
      BY <1>1, <2>1, <3>1, CommitStep DEF DeliverDirect
  <2>2. CASE ~(ok /\ view = "session")
    BY <2>2 DEF DeliverDirect, TypeInv
  <2> QED
    BY <2>1, <2>2
<1>3. CASE ok
  <2> DEFINE n == [m EXCEPT !.kind = "changed", !.key = "unread"]
  <2>1. n \in Message /\ n.kind = "changed"
    BY <1>1 DEF Message
  <2>2. post' = Taken(m) (+) SetToBag({n})
    BY <1>3 DEF DeliverDirect
  <2> HIDE DEF n
  <2> QED
    BY <1>1, <1>2, <2>1, <2>2, TakenStep, ReplacedStep
<1>4. CASE ~ok
  <2>1. post' = Taken(m) /\ UNCHANGED <<cfg, file>>
    BY <1>4 DEF DeliverDirect
  <2> QED
    BY <1>1, <1>2, <2>1, TakenStep
<1> QED
  BY <1>3, <1>4

(* The App saves what it is told: afterwards all of them agree, or the     *)
(* write failed.                                                           *)
LEMMA AgreedStep ==
    ASSUME TypeInv, NEW m \in BagToSet(post), DeliverChanged(m) \/ DeliverRequired(m)
    PROVE  /\ TypeInv' /\ cfg'.key = cfg.key /\ UNCHANGED kept
           /\ app'.prov = cfg'.def /\ (cfg'.def # "" => app' = cfg'.chain)
           /\ past'.unsaved \/ (file'.def = cfg'.def /\ file'.chain = cfg'.chain)
<1>1. CASE DeliverChanged(m)
  <2>1. m.prov \in Provider /\ m.model \in Models
    BY <1>1, TakenStep DEF DeliverChanged, Message
  <2> DEFINE c == Choice(m.prov, m.model)
  <2>2. c \in Choices /\ c.prov = m.prov
    BY <2>1 DEF Choices, Choice, Models
  <2>3. /\ cfg' = [cfg EXCEPT !.def = m.prov, !.chain = c]
        /\ \E saved \in BOOLEAN : AppTakes(c, saved)
        /\ post' = Taken(m)
    BY <1>1 DEF DeliverChanged
  <2> HIDE DEF c
  <2>4. /\ cfg' \in ConfigType /\ cfg'.key = cfg.key
        /\ cfg'.def = m.prov /\ cfg'.chain = c
    BY <2>1, <2>2, <2>3 DEF TypeInv, ConfigType, Names
  <2>5. /\ app' = c /\ shown' \in Choices \cup {None} /\ file' \in FileType
        /\ past'.unsaved \/ (file'.def = cfg'.def /\ file'.chain = cfg'.chain)
        /\ wizard' \in WizardType /\ past' \in PastType
        /\ UNCHANGED <<view, keyring, kept>>
    BY <2>2, <2>3, <2>4, AppStep
  <2>6. IsPost(post')
    BY <2>3, TakenStep
  <2> QED
    BY <2>2, <2>4, <2>5, <2>6 DEF TypeInv
<1>2. CASE DeliverRequired(m)
  <2>1. /\ cfg' = [cfg EXCEPT !.def = ""] /\ post' = Taken(m)
        /\ \E saved \in BOOLEAN : AppTakes(None, saved)
    BY <1>2 DEF DeliverRequired
  <2>2. cfg' \in ConfigType /\ cfg'.key = cfg.key /\ cfg'.def = ""
    BY <2>1 DEF TypeInv, ConfigType, Names
  <2>3. None.prov = ""
    BY ChoicesAreRecords
  <2> QED
    BY <2>1, <2>2, <2>3, AppStep, TakenStep DEF TypeInv
<1> QED
  BY <1>1, <1>2

LEMMA DeliveriesAreTyped ==
    ASSUME TypeInv, NEW m \in BagToSet(post), Delivers(m)
    PROVE  TypeInv'
<1>1. CASE VerifyReads(m)
  BY <1>1, ReadStep DEF VerifyReads, TypeInv
<1>2. CASE DeliverChanged(m) \/ DeliverRequired(m)
  BY <1>2, AgreedStep
<1>3. CASE \E ok \in BOOLEAN : DeliverVerify(m, ok)
  BY <1>3, VerifiedStep DEF DeliverVerify, TypeInv
<1>4. CASE \E ok \in BOOLEAN : DeliverDirect(m, ok)
  BY <1>4, DirectStep DEF DeliverDirect, TypeInv
<1>5. CASE m.kind = "models" /\ \E found \in DiscoverModels(m.prov) : DeliverModels(m, found)
  <2>1. post' = Taken(m)
    BY <1>5 DEF DeliverModels
  <2>2. wizard' \in WizardType
    BY <1>5, ModelsStep
  <2> QED
    BY <1>5, <2>1, <2>2, TakenStep DEF DeliverModels, TypeInv
<1> QED
  BY <1>1, <1>2, <1>3, <1>4, <1>5 DEF Delivers

LEMMA StepCases ==
    ASSUME [SetupNext]_setupVars
    PROVE  \/ \E p \in Provider, m \in Models :
                 \/ ConnectProvider(p) \/ SwitchModel(p, m)
                 \/ ReplaceCredential(p) \/ RemoveCredential(p)
           \/ NewView \/ UseExisting \/ EnterKey \/ Cancel
           \/ \E key \in {"env", ""} : UseKeyAtHand(key)
           \/ \E key \in Key : KeyConfirm(key)
           \/ \E m \in Models, stored \in BOOLEAN : Finish(m, stored)
           \/ \E m \in BagToSet(post) : Delivers(m)
           \/ UNCHANGED setupVars
BY DEF SetupNext, NewView, Models, Deliver, Delivers

LEMMA StepTypeInv == TypeInv /\ [SetupNext]_setupVars => TypeInv'
<1> SUFFICES ASSUME TypeInv, [SetupNext]_setupVars PROVE TypeInv'
  OBVIOUS
<1>1. CASE UNCHANGED setupVars
  BY <1>1 DEF setupVars, TypeInv
<1>2. CASE \E m \in BagToSet(post) : Delivers(m)
  BY <1>2, DeliveriesAreTyped
<1> QED
  BY <1>1, <1>2, StepCases, CommandsAreTyped, WizardIsTyped

-----------------------------------------------------------------------------
(* Keys                                                                    *)

(* A wizard that is taken away leaves every key settled but that of its    *)
(* provider; one that puts the old key back leaves that as well.           *)
LEMMA DropSettles ==
    ASSUME TypeInv, SettledInv, WizardInv, DropWizard, past'.dropped = Dropped,
           UNCHANGED kept, cfg'.key = cfg.key
    PROVE  SettledInv' /\ WizardInv'
<1>1. wizard' = Closed
  BY DropStep
<1>2. \A p \in Provider \ past'.dropped : IsSettled(p, cfg.key[p])
  BY DEF Dropped, SettledInv, WizardInv
<1> QED
  BY <1>1, <1>2, ClosedIsWizard DEF SettledInv, WizardInv, IsSettled

LEMMA RestoreSettles ==
    ASSUME TypeInv, WizardInv, SettledInv, wizard.open,
           NEW w \in WizardType, w.persist => wizard.persist,
           w.open => w.prov = wizard.prov /\ w.prev = wizard.prev,
           RestoreCredential(w), UNCHANGED <<kept, past>>
    PROVE  SettledInv' /\ WizardInv'
<1>1. wizard.prov \in Provider /\ wizard.prev \in KeyVal /\ cfg.key \in [Provider -> KeyVal]
  BY DEF TypeInv, WizardType, ConfigType
<1>2. /\ cfg'.key = IF wizard.persist
                    THEN [cfg.key EXCEPT ![wizard.prov] = wizard.prev] ELSE cfg.key
      /\ wizard'.open = w.open /\ wizard'.prov = w.prov /\ wizard'.prev = w.prev
  BY RestoreStep
<1>3. \A p \in Provider \ past.dropped : IsSettled(p, cfg'.key[p])
  BY <1>1, <1>2 DEF SettledInv, WizardInv, IsSettled
<1> QED
  BY ZenonT(60), <1>1, <1>2, <1>3 DEF SettledInv, WizardInv, IsSettled

LEMMA StartSettles ==
    ASSUME TypeInv, SettledInv, ~wizard.open, NEW p \in Provider, StartWizard(p),
           UNCHANGED <<cfg, kept, past>>
    PROVE  SettledInv' /\ WizardInv'
BY StartStep DEF SettledInv, WizardInv, IsSettled

(* The wizard and the keys are left alone.                                 *)
LEMMA NothingSettled ==
    ASSUME SettledInv, WizardInv, UNCHANGED kept, cfg'.key = cfg.key,
           past'.dropped = past.dropped,
           wizard'.open = wizard.open, wizard'.prov = wizard.prov,
           wizard'.prev = wizard.prev, wizard'.persist = wizard.persist
    PROVE  SettledInv' /\ WizardInv'
BY DEF SettledInv, WizardInv, IsSettled

LEMMA CommandsSettle ==
    ASSUME TypeInv, SettledInv, WizardInv, NEW p \in Provider, NEW m \in Models,
           \/ ConnectProvider(p) \/ SwitchModel(p, m)
           \/ ReplaceCredential(p) \/ RemoveCredential(p)
    PROVE  SettledInv' /\ WizardInv'
<1>1. CASE ConnectProvider(p)
  BY <1>1, StartSettles, NothingSettled DEF ConnectProvider
<1>2. CASE SwitchModel(p, m)
  <2>1. CASE p # shown.prov /\ NeedsWizard(p)
    BY <1>2, <2>1, StartSettles DEF SwitchModel
  <2>2. CASE ~(p # shown.prov /\ NeedsWizard(p))
    <3>1. cfg'.key = cfg.key
      BY <1>2, <2>2, CommitStep DEF SwitchModel
    <3> QED
      BY <1>2, <2>2, <3>1, NothingSettled DEF SwitchModel
  <2> QED
    BY <2>1, <2>2
<1>3. CASE ReplaceCredential(p)
  BY <1>3, StartSettles DEF ReplaceCredential
<1>4. CASE RemoveCredential(p)
  <2> DEFINE left == IF p \in Env THEN "env" ELSE ""
  <2>1. /\ cfg'.key = [cfg.key EXCEPT ![p] = left] /\ kept' = [kept EXCEPT ![p] = left]
        /\ past'.dropped = past.dropped \ {p}
        /\ ~wizard.open /\ UNCHANGED wizard
    BY <1>4 DEF RemoveCredential, TypeInv, ConfigType, PastType
  <2> HIDE DEF left
  <2>2. \A q \in Provider : q # p => cfg'.key[q] = cfg.key[q] /\ kept'[q] = kept[q]
    BY <2>1 DEF TypeInv, ConfigType
  <2>3. cfg'.key[p] = kept'[p]
    BY <2>1 DEF TypeInv, ConfigType
  <2> QED
    BY <2>1, <2>2, <2>3 DEF SettledInv, WizardInv, IsSettled
<1> QED
  BY <1>1, <1>2, <1>3, <1>4

LEMMA WizardSettles ==
    ASSUME TypeInv, SettledInv, WizardInv,
           \/ NewView \/ UseExisting \/ EnterKey \/ Cancel
           \/ \E key \in {"env", ""} : UseKeyAtHand(key)
           \/ \E key \in Key : KeyConfirm(key)
           \/ \E m \in Models, stored \in BOOLEAN : Finish(m, stored)
    PROVE  SettledInv' /\ WizardInv'
<1>1. CASE NewView
  BY <1>1, ViewStep, DropSettles
<1>2. CASE UseExisting
  <2>1. wizard \in WizardType /\ wizard.open /\ StartVerify(wizard)
    BY <1>2 DEF UseExisting, At, TypeInv
  <2> QED
    BY <1>2, <2>1, VerifyStep, NothingSettled DEF UseExisting
<1>3. CASE EnterKey
  <2>1. wizard' = [wizard EXCEPT !.step = "key"]
    BY <1>3 DEF EnterKey
  <2>2. /\ wizard'.open = wizard.open /\ wizard'.prov = wizard.prov
        /\ wizard'.prev = wizard.prev /\ wizard'.persist = wizard.persist
    BY <2>1 DEF TypeInv, WizardType
  <2> QED
    BY <1>3, <2>2, NothingSettled DEF EnterKey
<1>4. CASE Cancel
  BY <1>4, RestoreSettles, ClosedIsWizard DEF Cancel
<1>5. CASE \E key \in {"env", ""} : UseKeyAtHand(key)
  <2>1. PICK key \in {"env", ""} : UseKeyAtHand(key)
    BY <1>5
  <2> DEFINE w == [wizard EXCEPT !.key = key, !.persist = FALSE]
  <2>2. w \in WizardType /\ w.open /\ wizard.prov \in Provider /\ key \in KeyVal
        /\ w.prov = wizard.prov /\ w.prev = wizard.prev
    BY <2>1 DEF UseKeyAtHand, At, TypeInv, WizardType, KeyVal
  <2>3. StartVerify(w) /\ cfg' = ConfigureProvider(wizard.prov, key)
    BY <2>1 DEF UseKeyAtHand
  <2> HIDE DEF w
  <2>4. /\ wizard'.open /\ wizard'.prov = wizard.prov /\ wizard'.prev = wizard.prev
        /\ cfg'.key = [cfg.key EXCEPT ![wizard.prov] = key]
    BY <2>2, <2>3, VerifyStep, ConfigureStep
  <2>5. /\ wizard.open /\ wizard.prev = "" /\ (key = "env" => wizard.prov \in Env)
        /\ UNCHANGED <<kept, past>>
    BY <2>1 DEF UseKeyAtHand, At
  <2>6. wizard.prov \notin past.dropped => IsSettled(wizard.prov, key)
    BY <2>5 DEF WizardInv, IsSettled
  <2>7. /\ cfg'.key[wizard.prov] = key
        /\ \A q \in Provider : q # wizard.prov => cfg'.key[q] = cfg.key[q]
    BY ZenonT(60), <2>2, <2>4 DEF TypeInv, ConfigType
  <2> QED
    BY <2>4, <2>5, <2>6, <2>7 DEF SettledInv, WizardInv, IsSettled
<1>6. CASE \E key \in Key : KeyConfirm(key)
  <2>1. PICK key \in Key : KeyConfirm(key)
    BY <1>6
  <2> DEFINE w == [wizard EXCEPT !.key = key, !.persist = TRUE]
  <2>2. w \in WizardType /\ w.open /\ wizard.prov \in Provider /\ key \in KeyVal
        /\ w.prov = wizard.prov /\ w.prev = wizard.prev /\ w.persist
    BY <2>1 DEF KeyConfirm, At, TypeInv, WizardType, KeyVal
  <2>3. StartVerify(w) /\ cfg' = ConfigureProvider(wizard.prov, key)
    BY <2>1 DEF KeyConfirm
  <2> HIDE DEF w
  <2>4. /\ wizard'.open /\ wizard'.prov = wizard.prov /\ wizard'.prev = wizard.prev
        /\ wizard'.persist
        /\ cfg'.key = [cfg.key EXCEPT ![wizard.prov] = key]
    BY <2>2, <2>3, VerifyStep, ConfigureStep
  <2>5. wizard.open /\ UNCHANGED <<kept, past>>
    BY <2>1 DEF KeyConfirm, At
  <2>6. \A q \in Provider : q # wizard.prov => cfg'.key[q] = cfg.key[q]
    BY ZenonT(60), <2>2, <2>4 DEF TypeInv, ConfigType
  <2> QED
    BY <2>4, <2>5, <2>6 DEF SettledInv, WizardInv, IsSettled
<1>7. CASE \E m \in Models, stored \in BOOLEAN : Finish(m, stored)
  <2>1. PICK m \in Models, stored \in BOOLEAN : Finish(m, stored)
    BY <1>7
  <2>2. wizard.prov \in Provider /\ wizard' = Closed
    BY <2>1 DEF Finish, At, TypeInv, WizardType
  <2>3. /\ cfg'.key = cfg.key /\ kept' = [kept EXCEPT ![wizard.prov] = cfg.key[wizard.prov]]
        /\ past'.dropped = past.dropped \ {wizard.prov}
    BY <2>1, <2>2, CommitStep DEF Finish, TypeInv, PastType
  <2>4. /\ kept'[wizard.prov] = cfg.key[wizard.prov]
        /\ \A q \in Provider : q # wizard.prov => kept'[q] = kept[q]
    BY <2>2, <2>3 DEF TypeInv
  <2>5. \A q \in Provider \ past'.dropped : IsSettled(q, cfg.key[q]) \/ q = wizard.prov
    BY <2>3 DEF SettledInv
  <2>6. \A q \in Provider \ past'.dropped : IsSettled(q, cfg.key[q])'
    BY <2>3, <2>4, <2>5 DEF IsSettled
  <2> QED
    BY <2>2, <2>6, ClosedIsWizard DEF SettledInv, WizardInv, IsSettled
<1> QED
  BY <1>1, <1>2, <1>3, <1>4, <1>5, <1>6, <1>7

LEMMA DeliveriesSettle ==
    ASSUME TypeInv, SettledInv, WizardInv, NEW m \in BagToSet(post), Delivers(m)
    PROVE  SettledInv' /\ WizardInv'
<1>1. CASE VerifyReads(m)
  BY <1>1, NothingSettled DEF VerifyReads
<1>2. CASE DeliverChanged(m) \/ DeliverRequired(m)
  <2>1. cfg'.key = cfg.key /\ UNCHANGED kept
    BY <1>2, AgreedStep
  <2>2. \E choice \in Choices \cup {None}, saved \in BOOLEAN : AppTakes(choice, saved)
    <3>1. DeliverChanged(m) => m.prov \in Provider /\ m.model \in Models
      BY TakenStep DEF DeliverChanged, Message
    <3>2. DeliverChanged(m) => Choice(m.prov, m.model) \in Choices
      BY <3>1 DEF Choices, Models
    <3> QED
      BY <1>2, <3>2 DEF DeliverChanged, DeliverRequired
  <2>3. \/ DropWizard /\ past'.dropped = Dropped
        \/ UNCHANGED wizard /\ past'.dropped = past.dropped
    BY <2>2 DEF AppTakes
  <2> QED
    BY <2>1, <2>3, DropSettles, NothingSettled
<1>3. CASE \E ok \in BOOLEAN : DeliverVerify(m, ok)
  <2>1. PICK ok \in BOOLEAN : DeliverVerify(m, ok)
    BY <1>3
  <2>2. wizard \in WizardType
    BY DEF TypeInv
  <2>3. CASE ~IsForWizard(m)
    BY <2>1, <2>3, NothingSettled DEF DeliverVerify
  <2>4. CASE IsForWizard(m) /\ ~ok
    <3> DEFINE w == [wizard EXCEPT !.step = "auth"]
    <3>1. /\ w \in WizardType /\ wizard.open /\ w.persist = wizard.persist
          /\ w.prov = wizard.prov /\ w.prev = wizard.prev
      BY <2>2, <2>4 DEF WizardType, IsForWizard
    <3>2. RestoreCredential(w) /\ UNCHANGED <<kept, past>>
      BY <2>1, <2>4 DEF DeliverVerify
    <3> HIDE DEF w
    <3> QED
      BY <3>1, <3>2, RestoreSettles
  <2>5. CASE IsForWizard(m) /\ ok
    <3>1. wizard' = [wizard EXCEPT !.step = "verify"] /\ UNCHANGED <<cfg, kept, past>>
      BY <2>1, <2>5 DEF DeliverVerify
    <3>2. /\ wizard'.open = wizard.open /\ wizard'.prov = wizard.prov
          /\ wizard'.prev = wizard.prev /\ wizard'.persist = wizard.persist
      BY <2>2, <3>1 DEF WizardType
    <3> QED
      BY <3>1, <3>2, NothingSettled
  <2> QED
    BY <2>3, <2>4, <2>5
<1>4. CASE \E ok \in BOOLEAN : DeliverDirect(m, ok)
  <2>1. cfg'.key = cfg.key /\ UNCHANGED <<wizard, kept, past>>
    BY <1>4, DirectStep DEF DeliverDirect
  <2> QED
    BY <2>1, NothingSettled
<1>5. CASE m.kind = "models" /\ \E found \in DiscoverModels(m.prov) : DeliverModels(m, found)
  <2>1. UNCHANGED <<cfg, kept, past>>
    BY <1>5 DEF DeliverModels
  <2>2. /\ wizard'.open = wizard.open /\ wizard'.prov = wizard.prov
        /\ wizard'.prev = wizard.prev /\ wizard'.persist = wizard.persist
    BY <1>5 DEF DeliverModels, TypeInv, WizardType
  <2> QED
    BY <2>1, <2>2, NothingSettled
<1> QED
  BY <1>1, <1>2, <1>3, <1>4, <1>5 DEF Delivers

LEMMA StepSettled ==
    TypeInv /\ SettledInv /\ WizardInv /\ [SetupNext]_setupVars => SettledInv' /\ WizardInv'
<1> SUFFICES ASSUME TypeInv, SettledInv, WizardInv, [SetupNext]_setupVars
             PROVE  SettledInv' /\ WizardInv'
  OBVIOUS
<1>1. CASE UNCHANGED setupVars
  BY <1>1, NothingSettled DEF setupVars
<1>2. CASE \E m \in BagToSet(post) : Delivers(m)
  BY <1>2, DeliveriesSettle
<1> QED
  BY <1>1, <1>2, StepCases, CommandsSettle, WizardSettles

-----------------------------------------------------------------------------
(* The choice                                                              *)

(* A message that the App is still to be told of a choice.                 *)
Told(m) == m.kind \in {"changed", "required"}

LEMMA StillTold ==
    ASSUME QuietAgrees,
           \A x \in BagToSet(post) : Told(x) => x \in BagToSet(post'),
           cfg'.def = cfg.def, cfg'.chain = cfg.chain, file' = file,
           past'.unsaved = past.unsaved,
           past'.opened \/ (app' = app /\ past'.opened = past.opened)
    PROVE  QuietAgrees'
BY DEF QuietAgrees, Quiet, Told

LEMMA ToldNow ==
    ASSUME \E x \in BagToSet(post') : Told(x)
    PROVE  QuietAgrees'
BY DEF QuietAgrees, Quiet, Told

LEMMA CommandsAgree ==
    ASSUME TypeInv, QuietAgrees, NEW p \in Provider, NEW m \in Models,
           \/ ConnectProvider(p) \/ SwitchModel(p, m)
           \/ ReplaceCredential(p) \/ RemoveCredential(p)
    PROVE  QuietAgrees'
<1>1. CASE ConnectProvider(p)
  <2>1. DefaultModelFor(p) \in Models
    BY ChoicesAreRecords DEF DefaultModelFor, Known, Models, TypeInv
  <2>2. BagToSet(post) \subseteq BagToSet(post')
    BY <1>1, <2>1, Posted DEF ConnectProvider
  <2> QED
    BY <1>1, <2>2, StillTold DEF ConnectProvider
<1>2. CASE SwitchModel(p, m)
  <2>1. CASE p # shown.prov /\ NeedsWizard(p)
    BY <1>2, <2>1, StillTold DEF SwitchModel
  <2>2. CASE ~(p # shown.prov /\ NeedsWizard(p))
    <3>1. \E x \in BagToSet(post') : x.kind = "changed"
      BY <1>2, <2>2, Posted DEF SwitchModel
    <3> QED
      BY <3>1, ToldNow DEF Told
  <2> QED
    BY <2>1, <2>2
<1>3. CASE ReplaceCredential(p)
  BY <1>3, StillTold DEF ReplaceCredential
<1>4. CASE RemoveCredential(p)
  <2>1. CASE p = shown.prov /\ p \notin Env
    <3>1. Post("required", "", "")
      BY <1>4, <2>1 DEF RemoveCredential
    <3>2. \E x \in BagToSet(post') : x.kind = "required"
      BY <3>1, PostedRequired
    <3> QED
      BY <3>2, ToldNow DEF Told
  <2>2. CASE ~(p = shown.prov /\ p \notin Env)
    <3>1. /\ cfg'.def = cfg.def /\ cfg'.chain = cfg.chain
          /\ past'.unsaved = past.unsaved /\ past'.opened = past.opened
          /\ UNCHANGED <<app, file, post>>
      BY <1>4, <2>2 DEF RemoveCredential, TypeInv, ConfigType, PastType
    <3> QED
      BY <3>1, StillTold
  <2> QED
    BY <2>1, <2>2
<1> QED
  BY <1>1, <1>2, <1>3, <1>4

LEMMA WizardAgrees ==
    ASSUME TypeInv, QuietAgrees,
           \/ NewView \/ UseExisting \/ EnterKey \/ Cancel
           \/ \E key \in {"env", ""} : UseKeyAtHand(key)
           \/ \E key \in Key : KeyConfirm(key)
           \/ \E m \in Models, stored \in BOOLEAN : Finish(m, stored)
    PROVE  QuietAgrees'
<1>1. CASE NewView
  BY <1>1, ViewStep, StillTold
<1>2. CASE UseExisting
  <2>1. wizard \in WizardType /\ wizard.open /\ StartVerify(wizard)
    BY <1>2 DEF UseExisting, At, TypeInv
  <2> QED
    BY <1>2, <2>1, VerifyStep, StillTold DEF UseExisting
<1>3. CASE EnterKey
  BY <1>3, StillTold DEF EnterKey
<1>4. CASE Cancel
  <2>1. cfg'.def = cfg.def /\ cfg'.chain = cfg.chain
    BY <1>4, RestoreStep, ClosedIsWizard DEF Cancel
  <2> QED
    BY <1>4, <2>1, StillTold DEF Cancel
<1>5. CASE \E key \in {"env", ""} : UseKeyAtHand(key)
  <2>1. PICK key \in {"env", ""} : UseKeyAtHand(key)
    BY <1>5
  <2> DEFINE w == [wizard EXCEPT !.key = key, !.persist = FALSE]
  <2>2. w \in WizardType /\ w.open /\ wizard.prov \in Provider /\ key \in KeyVal
    BY <2>1 DEF UseKeyAtHand, At, TypeInv, WizardType, KeyVal
  <2>3. StartVerify(w) /\ cfg' = ConfigureProvider(wizard.prov, key)
        /\ UNCHANGED <<app, file, past>>
    BY <2>1 DEF UseKeyAtHand
  <2> HIDE DEF w
  <2> QED
    BY <2>2, <2>3, VerifyStep, ConfigureStep, StillTold
<1>6. CASE \E key \in Key : KeyConfirm(key)
  <2>1. PICK key \in Key : KeyConfirm(key)
    BY <1>6
  <2> DEFINE w == [wizard EXCEPT !.key = key, !.persist = TRUE]
  <2>2. w \in WizardType /\ w.open /\ wizard.prov \in Provider /\ key \in KeyVal
    BY <2>1 DEF KeyConfirm, At, TypeInv, WizardType, KeyVal
  <2>3. StartVerify(w) /\ cfg' = ConfigureProvider(wizard.prov, key)
        /\ UNCHANGED <<app, file, past>>
    BY <2>1 DEF KeyConfirm
  <2> HIDE DEF w
  <2> QED
    BY <2>2, <2>3, VerifyStep, ConfigureStep, StillTold
<1>7. CASE \E m \in Models, stored \in BOOLEAN : Finish(m, stored)
  <2>1. PICK m \in Models, stored \in BOOLEAN : Finish(m, stored)
    BY <1>7
  <2>2. wizard.prov \in Provider
    BY <2>1 DEF Finish, At, TypeInv, WizardType
  <2>3. \E x \in BagToSet(post') : x.kind = "changed"
    BY <2>1, <2>2, Posted DEF Finish
  <2> QED
    BY <2>3, ToldNow DEF Told
<1> QED
  BY <1>1, <1>2, <1>3, <1>4, <1>5, <1>6, <1>7

LEMMA DeliveriesAgree ==
    ASSUME TypeInv, QuietAgrees, NEW m \in BagToSet(post), Delivers(m)
    PROVE  QuietAgrees'
<1>1. CASE VerifyReads(m)
  BY <1>1, ReadStep, StillTold DEF VerifyReads, Told
<1>2. CASE DeliverChanged(m) \/ DeliverRequired(m)
  BY <1>2, AgreedStep DEF QuietAgrees
<1>3. CASE \E ok \in BOOLEAN : DeliverVerify(m, ok)
  BY <1>3, VerifiedStep, StillTold DEF DeliverVerify, Told
<1>4. CASE \E ok \in BOOLEAN : DeliverDirect(m, ok)
  <2>1. CASE \E x \in BagToSet(post') : x.kind = "changed"
    BY <2>1, ToldNow DEF Told
  <2>2. CASE ~\E x \in BagToSet(post') : x.kind = "changed"
    BY <1>4, <2>2, DirectStep, StillTold DEF DeliverDirect, Told
  <2> QED
    BY <2>1, <2>2
<1>5. CASE m.kind = "models" /\ \E found \in DiscoverModels(m.prov) : DeliverModels(m, found)
  <2>1. post' = Taken(m) /\ UNCHANGED <<app, cfg, file, past>>
    BY <1>5 DEF DeliverModels
  <2> QED
    BY <1>5, <2>1, TakenStep, StillTold DEF Told
<1> QED
  BY <1>1, <1>2, <1>3, <1>4, <1>5 DEF Delivers

LEMMA StepQuiet == TypeInv /\ QuietAgrees /\ [SetupNext]_setupVars => QuietAgrees'
<1> SUFFICES ASSUME TypeInv, QuietAgrees, [SetupNext]_setupVars PROVE QuietAgrees'
  OBVIOUS
<1>1. CASE UNCHANGED setupVars
  BY <1>1, StillTold DEF setupVars
<1>2. CASE \E m \in BagToSet(post) : Delivers(m)
  BY <1>2, DeliveriesAgree
<1> QED
  BY <1>1, <1>2, StepCases, CommandsAgree, WizardAgrees

-----------------------------------------------------------------------------
LEMMA SetupInductive == SetupSpec => [](TypeInv /\ QuietAgrees /\ SettledInv /\ WizardInv)
BY InitSetup, StepTypeInv, StepQuiet, StepSettled, PTL DEF SetupSpec

(* The state of the set-up keeps its type: a wizard that is open has a     *)
(* provider, and only a key that was typed is marked to be kept.           *)
THEOREM SetupIsTyped == SetupSpec => []SetupTypeOK
<1>1. TypeInv => SetupTypeOK
  BY DEF TypeInv, SetupTypeOK, ConfigType, FileType, WizardType, PastType, Names, EntryKind
<1> QED
  BY <1>1, SetupInductive, PTL

(* Once the App has been told of every choice it and the configuration     *)
(* agree, unless a session was opened since, and so do the configuration   *)
(* and its file, unless the last write of the App failed (App.Update,      *)
(* openSession, commitProviderSwitch).                                     *)
THEOREM ChoiceIsAgreed == SetupSpec => []QuietAgrees
BY SetupInductive, PTL

(* A key that was typed and given up, or that its provider refused, gives  *)
(* way to the key that was settled before, but for a provider whose wizard *)
(* was taken away by a message (restoreWizardCredential, SetRuntimeModel). *)
THEOREM KeysAreRestored == SetupSpec => []CancelRestores
<1>1. SettledInv => CancelRestores
  BY DEF SettledInv, IsSettled, CancelRestores
<1> QED
  BY <1>1, SetupInductive, PTL
=============================================================================

---------------------------- MODULE Parts_proofs ----------------------------
(***************************************************************************)
(* What the run of the parts checks is what the theorems are about: a      *)
(* behaviour of MCParts is one of every part, so that what is proved of a  *)
(* part alone holds in it.                                                 *)
(***************************************************************************)
EXTENDS MCParts, FileOps_proofs, Storage_proofs, Asking_proofs

partsVars == <<part, fileVars, storeVars, configVars, registryVars, askVars, startupVars, skillVars>>

LEMMA FilesApart == PartsSpec => FilesSpec
<1>1. PartsInit => FilesInit
  BY DEF PartsInit
<1>2. [PartsNext]_partsVars => [FilesNext]_fileVars
  BY DEF PartsNext, partsVars
<1> QED
  BY <1>1, <1>2, PTL DEF PartsSpec, partsVars, FilesSpec

LEMMA StoreApart == PartsSpec => StoreSpec
<1>1. PartsInit => StoreInit
  BY DEF PartsInit
<1>2. [PartsNext]_partsVars => [StoreNext]_storeVars
  BY DEF PartsNext, partsVars
<1> QED
  BY <1>1, <1>2, PTL DEF PartsSpec, partsVars, StoreSpec

LEMMA ConfigApart == PartsSpec => ConfigSpec
<1>1. PartsInit => ConfigInit
  BY DEF PartsInit
<1>2. [PartsNext]_partsVars => [ConfigNext]_configVars
  BY DEF PartsNext, partsVars
<1> QED
  BY <1>1, <1>2, PTL DEF PartsSpec, partsVars, ConfigSpec

LEMMA RegistryApart == PartsSpec => RegistrySpec
<1>1. PartsInit => RegistryInit
  BY DEF PartsInit
<1>2. [PartsNext]_partsVars => [RegistryNext]_registryVars
  BY DEF PartsNext, partsVars
<1> QED
  BY <1>1, <1>2, PTL DEF PartsSpec, partsVars, RegistrySpec

LEMMA AskApart == PartsSpec => AskSpec
<1>1. PartsInit => AskInit
  BY DEF PartsInit
<1>2. [PartsNext]_partsVars => [AskNext]_askVars
  BY DEF PartsNext, partsVars
<1> QED
  BY <1>1, <1>2, PTL DEF PartsSpec, partsVars, AskSpec

LEMMA StartupApart == PartsSpec => StartupSpec
<1>1. PartsInit => StartupInit
  BY DEF PartsInit
<1>2. [PartsNext]_partsVars => [StartupNext]_startupVars
  BY DEF PartsNext, partsVars
<1> QED
  BY <1>1, <1>2, PTL DEF PartsSpec, partsVars, StartupSpec

LEMMA SkillsApart == PartsSpec => SkillsSpec
<1>1. PartsInit => SkillsInit
  BY DEF PartsInit
<1>2. [PartsNext]_partsVars => [SkillsNext]_skillVars
  BY DEF PartsNext, partsVars
<1> QED
  BY <1>1, <1>2, PTL DEF PartsSpec, partsVars, SkillsSpec

-----------------------------------------------------------------------------
(* Whatever the parts do, the state of each keeps its type: of the plan's  *)
(* steps, the sessions, the configuration, the registry, the question, the *)
(* start and the skills.                                                   *)
THEOREM PartsAreTyped == PartsSpec => []PartsTypeOK
<1>1. PartsSpec => []FilesTypeOK
  BY FilesApart, FilesAreTyped
<1>2. PartsSpec => []StoreTypeOK
  BY StoreApart, FilesAreWhole, PTL
<1>3. PartsSpec => []ConfigTypeOK
  BY ConfigApart, ConfigIsTyped
<1>4. PartsSpec => []RegistryTypeOK
  BY RegistryApart, AliasesStayAlive, PTL
<1>5. PartsSpec => []AskTypeOK
  BY AskApart, QuestionsAreTyped
<1>6. PartsSpec => []StartupTypeOK
  BY StartupApart, StartIsTyped
<1>7. PartsSpec => []SkillsTypeOK
  BY SkillsApart, SkillsAreTyped
<1> QED
  BY <1>1, <1>2, <1>3, <1>4, <1>5, <1>6, <1>7, PTL DEF PartsTypeOK

(* All that the run of the parts checks holds for every value of the       *)
(* constants: no file is lost, listings are complete, trust and keys are   *)
(* kept, what is sent is the most that fits, the provider shown is the one *)
(* that answered, the skills are the last of their names, and the store    *)
(* and the registry implement their plain maps.                            *)
THEOREM PartsKeepTheirWord ==
    PartsSpec => /\ [](NothingLost /\ SuccessMeansDone /\ ListIsComplete /\ TrustIsKept)
                 /\ [](KeysAreKept /\ TrimIsLongest /\ ShownIsWhoAnswered /\ KeyIsAtHand)
                 /\ [](WorkIsTrusted /\ LatestIsMatched)
                 /\ BarredStays /\ StoreRefinement /\ RegistryRefinement
<1>1. PartsSpec => [](NothingLost /\ SuccessMeansDone) /\ BarredStays
  BY FilesApart, NothingIsLost, SuccessIsDone, BarredFilesStay, PTL
<1>2. PartsSpec => []ListIsComplete /\ StoreRefinement
  BY StoreApart, ListingsAreComplete, StoreImplementsRecords
<1>3. PartsSpec => [](TrustIsKept /\ KeysAreKept)
  BY ConfigApart, TrustedDirsAreKept, KeysAreInOnePlace, PTL
<1>4. PartsSpec => RegistryRefinement
  BY RegistryApart, RegistryImplementsTable
<1>5. PartsSpec => [](TrimIsLongest /\ ShownIsWhoAnswered)
  BY AskApart, SentIsLongest, ActiveIsShown, PTL
<1>6. PartsSpec => [](KeyIsAtHand /\ WorkIsTrusted)
  BY StartupApart, KeyIsAlwaysAtHand, WorkIsAlwaysTrusted, PTL
<1>7. PartsSpec => []LatestIsMatched
  BY SkillsApart, LastSkillsAreMatched
<1> QED
  BY <1>1, <1>2, <1>3, <1>4, <1>5, <1>6, <1>7, PTL
=============================================================================

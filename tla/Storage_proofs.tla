--------------------------- MODULE Storage_proofs ---------------------------
(***************************************************************************)
(* What is kept on the disk: the store of sessions is a plain map of whole *)
(* records and its listings are complete; what the user was told is kept   *)
(* stays in the configuration file or in the keyring while no write fails; *)
(* and a program works where it is trusted and with the key it was given.  *)
(* For any sessions, providers and directories, and any number of programs.*)
(***************************************************************************)
EXTENDS SessionStore, ConfigFile, Startup, TLAPS

-----------------------------------------------------------------------------
(* The store of sessions.                                                  *)

(* The files a record can be in: written, synced and complete. *)
Good == {f \in File : f.data = "whole" /\ f.synced}

SaveStage == {"idle", "create", "write", "sync", "close", "replace", "cleanup", "list"}

Work == [pc : SaveStage, id : Id \cup {"none"}, rec : Val \cup {NoRecord},
         tmp : File \cup {NoFile}, todo : SUBSET Id, got : SUBSET Id, stayed : SUBSET Id]

(* What a program has ready at each stage of a save. *)
SaveReady(w) ==
    /\ w.pc \in {"create", "write", "sync", "close", "replace"} => w.id \in Id /\ w.rec \in Val
    /\ w.pc \in {"write", "sync", "close", "replace"} => w.tmp \in File
    /\ w.pc \in {"sync", "close", "replace"} => w.tmp.data = "whole"
    /\ w.pc \in {"close", "replace"} => w.tmp.synced

(* A listing has, or is still to read, what stayed, and all of it is there. *)
Listing(w) ==
    w.pc = "list" =>
        /\ w.stayed \subseteq w.got \cup w.todo
        /\ \A i \in w.stayed : dir[i] # NoFile

WholeInv ==
    /\ dir \in [Id -> Good \cup {NoFile}]
    /\ disk \in [Id -> Good \cup {NoFile}]

WorkInv ==
    /\ prog \in [Program -> Work]
    /\ \A p \in Program : SaveReady(prog[p])
    /\ ops \in Nat

ListingInv == \A p \in Program : Listing(prog[p])

StoreInv == WholeInv /\ WorkInv

-----------------------------------------------------------------------------
LEMMA NoFileIsNone == NoFile \notin File
BY DEF NoFile, File

LEMMA NoWorkIsWork == NoWork \in Work /\ SaveReady(NoWork) /\ Listing(NoWork)
BY DEF NoWork, Work, SaveReady, Listing, SaveStage

LEMMA SurvivorOfGood ==
    ASSUME NEW f \in Good \cup {NoFile}
    PROVE  Survivor(f) = f
BY DEF Survivor, Good

(* A program that goes on with work that is in order. *)
LEMMA WorkStep ==
    ASSUME WorkInv, NEW p \in Program, NEW w \in Work, SaveReady(w),
           prog' = [prog EXCEPT ![p] = w], ops' \in Nat
    PROVE  WorkInv'
<1>1. prog' \in [Program -> Work]
  BY DEF WorkInv
<1>2. \A q \in Program : prog'[q] = IF q = p THEN w ELSE prog[q]
  BY DEF WorkInv
<1> QED
  BY <1>1, <1>2 DEF WorkInv

LEMMA InitStoreInv == StoreInit => StoreInv /\ ListingInv
<1> SUFFICES ASSUME StoreInit PROVE StoreInv /\ ListingInv
  OBVIOUS
<1>1. WholeInv
  BY DEF StoreInit, WholeInv
<1>2. WorkInv
  BY NoWorkIsWork DEF StoreInit, WorkInv
<1>3. ListingInv
  BY NoWorkIsWork DEF StoreInit, ListingInv
<1> QED
  BY <1>1, <1>2, <1>3 DEF StoreInv

(* What each program does with its own work, its next stage in order. *)
LEMMA SaveSteps ==
    ASSUME StoreInv, NEW p \in Program,
           \/ CreateTemp(p) \/ WriteTemp(p) \/ SyncTemp(p) \/ CloseTemp(p)
           \/ RemoveTemp(p) \/ StoreCallFails(p) \/ LoadEntry(p) \/ ListEnds(p)
           \/ ProgramKilled(p)
    PROVE  /\ \E w \in Work : SaveReady(w) /\ prog' = [prog EXCEPT ![p] = w]
           /\ UNCHANGED <<dir, disk, ops>>
<1> DEFINE w0 == prog[p]
<1>0. w0 \in Work /\ SaveReady(w0) /\ prog \in [Program -> Work]
  BY DEF StoreInv, WorkInv
<1>1. CASE CreateTemp(p)
  <2> DEFINE w == [w0 EXCEPT !.pc = "write",
                             !.tmp = [rec |-> w0.rec, data |-> "empty", synced |-> FALSE]]
  <2>1. w0.rec \in Val
    BY <1>0, <1>1 DEF CreateTemp, SaveReady
  <2>2. w \in Work /\ SaveReady(w)
    BY <1>0, <1>1, <2>1 DEF CreateTemp, Work, SaveStage, SaveReady, File
  <2>3. prog' = [prog EXCEPT ![p] = w]
    BY <1>0, <1>1 DEF CreateTemp, Work
  <2> QED
    BY <1>1, <2>2, <2>3 DEF CreateTemp
<1>2. CASE WriteTemp(p)
  <2>1. CASE prog' = [prog EXCEPT ![p].pc = "sync", ![p].tmp.data = "whole"]
    <3> DEFINE w == [w0 EXCEPT !.pc = "sync", !.tmp.data = "whole"]
    <3>1. w \in Work /\ SaveReady(w)
      BY <1>0, <1>2 DEF WriteTemp, Work, SaveStage, SaveReady, File
    <3>2. prog' = [prog EXCEPT ![p] = w]
      BY <1>0, <2>1 DEF Work
    <3> QED
      BY <1>2, <3>1, <3>2 DEF WriteTemp
  <2>2. CASE prog' = [prog EXCEPT ![p].pc = "cleanup", ![p].tmp.data = "part"]
    <3> DEFINE w == [w0 EXCEPT !.pc = "cleanup", !.tmp.data = "part"]
    <3>1. w \in Work /\ SaveReady(w)
      BY <1>0, <1>2 DEF WriteTemp, Work, SaveStage, SaveReady, File
    <3>2. prog' = [prog EXCEPT ![p] = w]
      BY <1>0, <2>2 DEF Work
    <3> QED
      BY <1>2, <3>1, <3>2 DEF WriteTemp
  <2> QED
    BY <1>2, <2>1, <2>2 DEF WriteTemp
<1>3. CASE SyncTemp(p)
  <2> DEFINE w == [w0 EXCEPT !.pc = "close", !.tmp.synced = TRUE]
  <2>1. w \in Work /\ SaveReady(w)
    BY <1>0, <1>3 DEF SyncTemp, Work, SaveStage, SaveReady, File
  <2>2. prog' = [prog EXCEPT ![p] = w]
    BY <1>0, <1>3 DEF SyncTemp, Work
  <2> QED
    BY <1>3, <2>1, <2>2 DEF SyncTemp
<1>4. CASE CloseTemp(p)
  <2> DEFINE w == [w0 EXCEPT !.pc = "replace"]
  <2>1. w \in Work /\ SaveReady(w)
    BY <1>0, <1>4 DEF CloseTemp, Work, SaveStage, SaveReady, File
  <2> QED
    BY <1>0, <1>4, <2>1 DEF CloseTemp, StepTo, Work
<1>5. CASE StoreCallFails(p)
  <2>1. CASE Return(p)
    BY <1>5, <2>1, NoWorkIsWork DEF StoreCallFails, Return
  <2>2. CASE StepTo(p, "cleanup")
    <3> DEFINE w == [w0 EXCEPT !.pc = "cleanup"]
    <3>1. w \in Work /\ SaveReady(w)
      BY <1>0 DEF Work, SaveStage, SaveReady
    <3> QED
      BY <1>0, <1>5, <2>2, <3>1 DEF StoreCallFails, StepTo, Work
  <2> QED
    BY <1>5, <2>1, <2>2 DEF StoreCallFails
<1>6. CASE LoadEntry(p)
  <2>1. PICK i \in w0.todo, read \in BOOLEAN :
           prog' = [prog EXCEPT
               ![p].todo = @ \ {i},
               ![p].got = IF read /\ Readable(dir[i]) THEN @ \cup {i} ELSE @,
               ![p].stayed = IF read THEN @ ELSE @ \ {i}]
    BY <1>6 DEF LoadEntry
  <2> DEFINE w == [w0 EXCEPT
                 !.todo = @ \ {i},
                 !.got = IF read /\ Readable(dir[i]) THEN @ \cup {i} ELSE @,
                 !.stayed = IF read THEN @ ELSE @ \ {i}]
  <2>2. w \in Work
    BY <1>0 DEF Work
  <2>3. SaveReady(w)
    BY <1>0, <1>6 DEF LoadEntry, SaveReady, Work
  <2>4. prog' = [prog EXCEPT ![p] = w]
    BY <1>0, <2>1 DEF Work
  <2> QED
    BY <1>6, <2>2, <2>3, <2>4 DEF LoadEntry
<1>7. CASE RemoveTemp(p) \/ ListEnds(p) \/ ProgramKilled(p)
  BY <1>7, NoWorkIsWork DEF RemoveTemp, ListEnds, ProgramKilled, Return
<1> QED
  BY <1>1, <1>2, <1>3, <1>4, <1>5, <1>6, <1>7

(* A save or a rename begins with a record of its own. *)
LEMMA SaveBegins ==
    ASSUME StoreInv, NEW p \in Program, NEW i \in Id,
           \/ \E rec \in Val : SaveRecord(p, i, rec)
           \/ \E title \in Title : RenameRecord(p, i, title)
    PROVE  /\ \E w \in Work : SaveReady(w) /\ Listing(w) /\ prog' = [prog EXCEPT ![p] = w]
           /\ UNCHANGED <<dir, disk>> /\ ops' \in Nat
<1>0. prog[p] \in Work /\ prog[p].pc = "idle" /\ prog \in [Program -> Work] /\ ops \in Nat
  BY DEF StoreInv, WorkInv, SaveRecord, RenameRecord, Start
<1>1. ASSUME NEW rec \in Val,
             prog' = [prog EXCEPT ![p] = [NoWork EXCEPT !.pc = "create", !.id = i, !.rec = rec]]
      PROVE  \E w \in Work : SaveReady(w) /\ Listing(w) /\ prog' = [prog EXCEPT ![p] = w]
  <2> DEFINE w == [NoWork EXCEPT !.pc = "create", !.id = i, !.rec = rec]
  <2>1. w \in Work /\ SaveReady(w) /\ Listing(w)
    BY NoWorkIsWork DEF NoWork, Work, SaveStage, SaveReady, Listing
  <2> QED
    BY <1>1, <2>1
<1>2. ASSUME NEW rec \in Val, SaveRecord(p, i, rec)
      PROVE  \E w \in Work : SaveReady(w) /\ Listing(w) /\ prog' = [prog EXCEPT ![p] = w]
  BY <1>1, <1>2, Zenon DEF SaveRecord
<1>3. ASSUME NEW title \in Title, RenameRecord(p, i, title)
      PROVE  \E w \in Work : SaveReady(w) /\ Listing(w) /\ prog' = [prog EXCEPT ![p] = w]
  <2>1. CASE Readable(dir[i])
    <3>1. dir[i] \in File
      BY <2>1 DEF StoreInv, WholeInv, Good, Readable, NoFile
    <3>2. [dir[i].rec EXCEPT !.title = title] \in Val
      BY <3>1 DEF File, Val
    <3> QED
      BY <1>1, <1>3, <2>1, <3>2 DEF RenameRecord
  <2>2. CASE ~Readable(dir[i])
    <3>1. prog' = [prog EXCEPT ![p] = prog[p]]
      BY <1>0, <1>3, <2>2 DEF RenameRecord
    <3>2. SaveReady(prog[p]) /\ Listing(prog[p])
      BY <1>0 DEF StoreInv, WorkInv, Listing
    <3> QED
      BY <1>0, <3>1, <3>2
  <2> QED
    BY <2>1, <2>2
<1>4. UNCHANGED <<dir, disk>> /\ Start(p)
  BY Zenon DEF SaveRecord, RenameRecord
<1>5. ops' \in Nat
  BY <1>0, <1>4 DEF Start
<1> QED
  BY <1>2, <1>3, <1>4, <1>5, Zenon

(* A record is replaced by a whole, synced one. *)
LEMMA ReplaceIsWhole ==
    ASSUME StoreInv, NEW p \in Program, ReplaceRecord(p)
    PROVE  /\ prog[p].id \in Id /\ prog[p].tmp \in Good
           /\ dir' = [dir EXCEPT ![prog[p].id] = prog[p].tmp]
           /\ prog' = [prog EXCEPT ![p] = NoWork]
           /\ UNCHANGED <<disk, ops>>
<1>1. SaveReady(prog[p]) /\ prog[p].pc = "replace"
  BY DEF StoreInv, WorkInv, ReplaceRecord
<1> QED
  BY <1>1 DEF SaveReady, Good, ReplaceRecord, Return

LEMMA StepStoreInv == StoreInv /\ [StoreNext]_storeVars => StoreInv'
<1> SUFFICES ASSUME StoreInv, [StoreNext]_storeVars PROVE StoreInv'
  OBVIOUS
<1>0. ops \in Nat /\ prog \in [Program -> Work] /\ \A p \in Program : SaveReady(prog[p])
  BY DEF StoreInv, WorkInv
<1>1. ASSUME NEW p \in Program, NEW i \in Id,
             \/ \E rec \in Val : SaveRecord(p, i, rec)
             \/ \E title \in Title : RenameRecord(p, i, title)
      PROVE  StoreInv'
  BY <1>1, SaveBegins, WorkStep DEF StoreInv, WholeInv
<1>2. ASSUME NEW p \in Program, NEW i \in Id, DeleteRecord(p, i) PROVE StoreInv'
  <2>1. WholeInv'
    BY <1>2 DEF DeleteRecord, StoreInv, WholeInv
  <2>2. ops' \in Nat
    BY <1>0, <1>2 DEF DeleteRecord, Start
  <2>3. CASE prog' = Gone({i})
    <3>1. \A q \in Program : prog'[q] = [prog[q] EXCEPT !.stayed = @ \ {i}]
      BY <2>3 DEF Gone
    <3>2. \A q \in Program : prog'[q] \in Work /\ SaveReady(prog'[q])
      <4> TAKE q \in Program
      <4> DEFINE w == [prog[q] EXCEPT !.stayed = @ \ {i}]
      <4>1. w \in Work
        BY <1>0 DEF Work
      <4>2. /\ w.pc = prog[q].pc /\ w.id = prog[q].id /\ w.rec = prog[q].rec
            /\ w.tmp = prog[q].tmp
        BY <1>0 DEF Work
      <4>3. SaveReady(w)
        BY <1>0, <4>2 DEF SaveReady
      <4> QED
        BY <3>1, <4>1, <4>3
    <3>3. prog' \in [Program -> Work]
      BY <2>3, <3>2 DEF Gone
    <3> QED
      BY <2>1, <2>2, <3>2, <3>3 DEF StoreInv, WorkInv
  <2>4. CASE UNCHANGED prog
    BY <1>0, <2>1, <2>2, <2>4 DEF StoreInv, WorkInv
  <2> QED
    BY <1>2, <2>3, <2>4 DEF DeleteRecord
<1>3. ASSUME NEW p \in Program, ReplaceRecord(p) PROVE StoreInv'
  <2>1. WholeInv'
    BY <1>3, ReplaceIsWhole DEF StoreInv, WholeInv
  <2> QED
    BY <1>0, <1>3, <2>1, ReplaceIsWhole, WorkStep, NoWorkIsWork DEF StoreInv
<1>4. ASSUME NEW p \in Program, ListRecords(p) PROVE StoreInv'
  <2> DEFINE there == {i \in Id : dir[i] # NoFile}
             w == [NoWork EXCEPT !.pc = "list", !.todo = there, !.stayed = there]
  <2>1. w \in Work /\ SaveReady(w)
    BY NoWorkIsWork DEF NoWork, Work, SaveStage, SaveReady
  <2>2. prog' = [prog EXCEPT ![p] = w] /\ UNCHANGED <<dir, disk>> /\ ops' \in Nat
    BY <1>0, <1>4 DEF ListRecords, Start
  <2> QED
    BY <2>1, <2>2, WorkStep DEF StoreInv, WholeInv
<1>5. ASSUME NEW p \in Program,
             \/ CreateTemp(p) \/ WriteTemp(p) \/ SyncTemp(p) \/ CloseTemp(p)
             \/ RemoveTemp(p) \/ StoreCallFails(p) \/ LoadEntry(p) \/ ListEnds(p)
             \/ ProgramKilled(p)
      PROVE  StoreInv'
  BY <1>0, <1>5, SaveSteps, WorkStep DEF StoreInv, WholeInv
<1>6. ASSUME NEW i \in Id, DiskKeeps(i) PROVE StoreInv'
  BY <1>0, <1>6 DEF DiskKeeps, StoreInv, WholeInv, WorkInv
<1>7. CASE PowerLoss
  <2>1. dir' = [i \in Id |-> disk[i]] /\ disk' = dir'
    BY <1>7, SurvivorOfGood DEF PowerLoss, StoreInv, WholeInv
  <2>2. WorkInv'
    BY <1>0, <1>7, NoWorkIsWork DEF PowerLoss, WorkInv
  <2> QED
    BY <2>1, <2>2 DEF StoreInv, WholeInv
<1>8. CASE UNCHANGED storeVars
  BY <1>0, <1>8 DEF storeVars, StoreInv, WholeInv, WorkInv
<1> QED
  BY <1>1, <1>2, <1>3, <1>4, <1>5, <1>6, <1>7, <1>8 DEF StoreNext

LEMMA StoreInductive == StoreSpec => []StoreInv
BY InitStoreInv, StepStoreInv, PTL DEF StoreSpec

(* A session's file is never cut short, whatever call of a save fails,     *)
(* wherever a program is killed and whenever the power goes, and the state *)
(* keeps its type (Save, Rename, Delete).                                  *)
THEOREM FilesAreWhole == StoreSpec => [](StoreTypeOK /\ \A i \in Id : dir[i] = NoFile \/ Readable(dir[i]))
<1>1. StoreInv => StoreTypeOK
  BY DEF StoreInv, WholeInv, WorkInv, StoreTypeOK, Good, Work, SaveStage
<1>2. StoreInv => \A i \in Id : dir[i] = NoFile \/ Readable(dir[i])
  BY DEF StoreInv, WholeInv, Good, Readable
<1> QED
  BY <1>1, <1>2, StoreInductive, PTL

-----------------------------------------------------------------------------
(* Between two states in which no file goes, a listing that has done no    *)
(* step stays complete.                                                    *)
LEMMA ListingStays ==
    ASSUME StoreInv, ListingInv, NEW p \in Program, NEW w, Listing(w)',
           prog' = [prog EXCEPT ![p] = w],
           \A i \in Id : dir[i] # NoFile => dir'[i] # NoFile
    PROVE  ListingInv'
<1>1. \A q \in Program : prog'[q] = IF q = p THEN w ELSE prog[q]
  BY DEF StoreInv, WorkInv
<1>2. ASSUME NEW q \in Program, q # p PROVE Listing(prog[q])'
  <2>1. prog'[q] = prog[q] /\ prog[q].stayed \subseteq Id /\ Listing(prog[q])
    BY <1>1, <1>2 DEF StoreInv, WorkInv, Work, ListingInv
  <2> QED
    BY <2>1 DEF Listing
<1> QED
  BY <1>1, <1>2 DEF ListingInv, Listing

LEMMA StepListing ==
    StoreInv /\ ListingInv /\ [StoreNext]_storeVars => ListingInv'
<1> SUFFICES ASSUME StoreInv, ListingInv, [StoreNext]_storeVars PROVE ListingInv'
  OBVIOUS
<1>0. prog \in [Program -> Work] /\ \A p \in Program : Listing(prog[p])
  BY DEF StoreInv, WorkInv, ListingInv
<1>1. ASSUME NEW p \in Program, NEW i \in Id,
             \/ \E rec \in Val : SaveRecord(p, i, rec)
             \/ \E title \in Title : RenameRecord(p, i, title)
      PROVE  ListingInv'
  <2>1. PICK w \in Work : Listing(w) /\ prog' = [prog EXCEPT ![p] = w]
    BY <1>1, SaveBegins
  <2>2. UNCHANGED dir
    BY <1>1, SaveBegins
  <2> QED
    BY <2>1, <2>2, ListingStays DEF Listing
<1>2. ASSUME NEW p \in Program, NEW i \in Id, DeleteRecord(p, i) PROVE ListingInv'
  <2>1. CASE dir[i] = NoFile
    BY <1>0, <1>2, <2>1 DEF DeleteRecord, ListingInv, Listing
  <2>2. CASE dir[i] # NoFile
    <3>1. \A q \in Program : prog'[q] = [prog[q] EXCEPT !.stayed = @ \ {i}]
      BY <1>2, <2>2 DEF DeleteRecord, Gone
    <3>2. dir' = [dir EXCEPT ![i] = NoFile]
      BY <1>2, <2>2 DEF DeleteRecord
    <3>3. ASSUME NEW q \in Program PROVE Listing(prog[q])'
      <4>1. /\ prog'[q].pc = prog[q].pc /\ prog'[q].got = prog[q].got
            /\ prog'[q].todo = prog[q].todo /\ prog'[q].stayed = prog[q].stayed \ {i}
            /\ prog[q].stayed \subseteq Id
        BY ZenonT(60), <1>0, <3>1 DEF Work
      <4>2. \A j \in prog'[q].stayed : dir'[j] = dir[j]
        BY <3>2, <4>1 DEF StoreInv, WholeInv
      <4> QED
        BY <1>0, <4>1, <4>2 DEF Listing
    <3> QED
      BY <3>3 DEF ListingInv
  <2> QED
    BY <2>1, <2>2
<1>3. ASSUME NEW p \in Program, ReplaceRecord(p) PROVE ListingInv'
  <2>1. \A j \in Id : dir[j] # NoFile => dir'[j] # NoFile
    BY <1>3, ReplaceIsWhole, NoFileIsNone DEF StoreInv, WholeInv, Good
  <2>2. prog' = [prog EXCEPT ![p] = NoWork] /\ Listing(NoWork)'
    BY <1>3, ReplaceIsWhole DEF NoWork, Listing
  <2> QED
    BY <2>1, <2>2, ListingStays
<1>4. ASSUME NEW p \in Program, ListRecords(p) PROVE ListingInv'
  <2> DEFINE there == {i \in Id : dir[i] # NoFile}
             w == [NoWork EXCEPT !.pc = "list", !.todo = there, !.stayed = there]
  <2>1. prog' = [prog EXCEPT ![p] = w] /\ UNCHANGED dir
    BY <1>4 DEF ListRecords
  <2>2. w.stayed = there /\ w.todo = there
    BY DEF NoWork
  <2>3. Listing(w)
    BY <2>2 DEF Listing
  <2> HIDE DEF w
  <2>4. \A v : Listing(v) /\ prog' = [prog EXCEPT ![p] = v] => ListingInv'
    <3> TAKE v
    <3> HAVE Listing(v) /\ prog' = [prog EXCEPT ![p] = v]
    <3>1. Listing(v)'
      BY <2>1 DEF Listing
    <3> QED
      BY <2>1, <3>1, ListingStays
  <2> QED
    BY <2>1, <2>3, <2>4
<1>5. ASSUME NEW p \in Program, LoadEntry(p) PROVE ListingInv'
  <2>1. PICK i \in prog[p].todo, read \in BOOLEAN :
           prog' = [prog EXCEPT
               ![p].todo = @ \ {i},
               ![p].got = IF read /\ Readable(dir[i]) THEN @ \cup {i} ELSE @,
               ![p].stayed = IF read THEN @ ELSE @ \ {i}]
    BY <1>5 DEF LoadEntry
  <2>2. UNCHANGED dir /\ prog[p].pc = "list"
    BY <1>5 DEF LoadEntry
  <2>3. i \in prog[p].stayed => Readable(dir[i])
    BY <1>0, <2>2 DEF Listing, Work, StoreInv, WholeInv, Good, Readable
  <2>4. /\ prog'[p].pc = "list"
        /\ prog'[p].stayed = IF read THEN prog[p].stayed ELSE prog[p].stayed \ {i}
        /\ prog'[p].todo = prog[p].todo \ {i}
        /\ prog'[p].got = IF read /\ Readable(dir[i]) THEN prog[p].got \cup {i}
                          ELSE prog[p].got
    BY <1>0, <2>1, <2>2 DEF Work
  <2>5. Listing(prog[p])'
    BY <1>0, <2>2, <2>3, <2>4 DEF Listing
  <2>6. \A q \in Program : q # p => prog'[q] = prog[q]
    BY <1>0, <2>1
  <2>7. \A q \in Program : q # p => Listing(prog[q])'
    BY <1>0, <2>2, <2>6 DEF Listing
  <2> QED
    BY <2>5, <2>7 DEF ListingInv
<1>6. ASSUME NEW p \in Program,
             \/ CreateTemp(p) \/ WriteTemp(p) \/ SyncTemp(p) \/ CloseTemp(p)
             \/ RemoveTemp(p) \/ StoreCallFails(p) \/ ListEnds(p) \/ ProgramKilled(p)
      PROVE  ListingInv'
  <2>1. UNCHANGED dir
    BY <1>6, SaveSteps
  <2>2. prog'[p].pc # "list"
    BY <1>0, <1>6 DEF CreateTemp, WriteTemp, SyncTemp, CloseTemp, RemoveTemp, StoreCallFails,
                      ListEnds, ProgramKilled, Return, StepTo, NoWork, Work
  <2>3. \A q \in Program : q # p => prog'[q] = prog[q]
    BY <1>0, <1>6 DEF CreateTemp, WriteTemp, SyncTemp, CloseTemp, RemoveTemp, StoreCallFails,
                      ListEnds, ProgramKilled, Return, StepTo
  <2> QED
    BY <1>0, <2>1, <2>2, <2>3 DEF ListingInv, Listing
<1>7. ASSUME NEW i \in Id, DiskKeeps(i) PROVE ListingInv'
  BY <1>0, <1>7 DEF DiskKeeps, ListingInv, Listing
<1>8. CASE PowerLoss
  BY <1>8, NoWorkIsWork DEF PowerLoss, ListingInv, Listing, NoWork
<1>9. CASE UNCHANGED storeVars
  BY <1>0, <1>9 DEF storeVars, ListingInv, Listing
<1> QED
  BY <1>1, <1>2, <1>3, <1>4, <1>5, <1>6, <1>7, <1>8, <1>9 DEF StoreNext

(* A listing has every session that was there all the time it took,        *)
(* whatever other programs save, rename and delete meanwhile (List, Load). *)
THEOREM ListingsAreComplete == StoreSpec => []ListIsComplete
<1>1. ListingInv => ListIsComplete
  BY DEF ListingInv, Listing, ListIsComplete
<1> QED
  BY <1>1, StoreInductive, InitStoreInv, StepListing, PTL DEF StoreSpec

-----------------------------------------------------------------------------
(* The store implements a plain map of records: every step replaces or     *)
(* removes one record as a whole, lets the disk catch up with one name,    *)
(* takes back what the disk had not kept, or changes nothing.              *)
THEOREM StoreImplementsRecords == StoreSpec => StoreRefinement
<1>1. StoreInit => Records!RecordsInit
  BY DEF StoreInit, Records!RecordsInit, Seen, Survivor
<1>2. StoreInv /\ [StoreNext]_storeVars => [Records!RecordsNext]_Records!recordVars
  <2> SUFFICES ASSUME StoreInv, [StoreNext]_storeVars
               PROVE  [Records!RecordsNext]_Records!recordVars
    OBVIOUS
  <2>0. /\ dir \in [Id -> Good \cup {NoFile}] /\ disk \in [Id -> Good \cup {NoFile}]
        /\ \A i \in Id : Survivor(dir[i]) = dir[i] /\ Survivor(disk[i]) = disk[i]
    BY SurvivorOfGood DEF StoreInv, WholeInv
  <2>1. ASSUME UNCHANGED <<dir, disk>> PROVE UNCHANGED Records!recordVars
    BY <2>1 DEF Records!recordVars
  <2>2. ASSUME NEW p \in Program, NEW i \in Id, DeleteRecord(p, i)
        PROVE  Records!Remove(i) \/ UNCHANGED Records!recordVars
    <3>1. CASE dir[i] = NoFile
      <4>1. UNCHANGED <<dir, disk>>
        BY <2>2, <3>1 DEF DeleteRecord
      <4> QED
        BY <2>1, <4>1
    <3>2. CASE dir[i] # NoFile
      <4>1. dir' = [dir EXCEPT ![i] = NoFile] /\ UNCHANGED disk
        BY <2>2, <3>2 DEF DeleteRecord
      <4>2. Seen(NoFile) = NoRecord
        BY DEF Seen
      <4>3. \A j \in Id : Seen(dir'[j]) = IF j = i THEN NoRecord ELSE Seen(dir[j])
        BY <2>0, <4>1, <4>2
      <4> QED
        BY <4>1, <4>3 DEF Records!Remove, Records!Put
    <3> QED
      BY <3>1, <3>2
  <2>3. ASSUME NEW p \in Program, ReplaceRecord(p)
        PROVE  \E i \in Id, v \in Val : Records!Put(i, v)
    <3> DEFINE i == prog[p].id
               f == prog[p].tmp
    <3>1. i \in Id /\ f \in Good /\ dir' = [dir EXCEPT ![i] = f] /\ UNCHANGED disk
      BY <2>3, ReplaceIsWhole
    <3>2. Seen(f) = f.rec /\ f.rec \in Val
      BY <3>1, NoFileIsNone DEF Seen, Good, Readable, File
    <3>3. \A j \in Id : Seen(dir'[j]) = IF j = i THEN f.rec ELSE Seen(dir[j])
      BY <2>0, <3>1, <3>2
    <3>4. Records!Put(i, f.rec)
      BY <3>1, <3>3 DEF Records!Put
    <3> QED
      BY <3>1, <3>2, <3>4
  <2>4. ASSUME NEW i \in Id, DiskKeeps(i) PROVE Records!Keep(i)
    <3>1. disk' = [disk EXCEPT ![i] = dir[i]] /\ UNCHANGED dir
      BY <2>4 DEF DiskKeeps
    <3>2. \A j \in Id : Seen(Survivor(disk'[j])) =
                          IF j = i THEN Seen(dir[j]) ELSE Seen(Survivor(disk[j]))
      BY <2>0, <3>1
    <3> QED
      BY <3>1, <3>2 DEF Records!Keep
  <2>5. ASSUME PowerLoss PROVE Records!PowerLoss
    <3>1. \A j \in Id : dir'[j] = disk[j] /\ disk'[j] = disk[j]
      BY <2>0, <2>5 DEF PowerLoss
    <3> QED
      BY <2>0, <3>1 DEF Records!PowerLoss
  <2>6. ASSUME NEW p \in Program,
               \/ CreateTemp(p) \/ WriteTemp(p) \/ SyncTemp(p) \/ CloseTemp(p)
               \/ RemoveTemp(p) \/ StoreCallFails(p) \/ ListRecords(p) \/ LoadEntry(p)
               \/ ListEnds(p) \/ ProgramKilled(p)
        PROVE  UNCHANGED Records!recordVars
    <3>1. UNCHANGED <<dir, disk>>
      BY <2>6, SaveSteps DEF ListRecords
    <3> QED
      BY <2>1, <3>1
  <2>7. ASSUME NEW p \in Program, NEW i \in Id,
               \/ \E rec \in Val : SaveRecord(p, i, rec)
               \/ \E title \in Title : RenameRecord(p, i, title)
        PROVE  UNCHANGED Records!recordVars
    BY <2>1, <2>7, SaveBegins
  <2>8. CASE UNCHANGED storeVars
    BY <2>1, <2>8 DEF storeVars
  <2> QED
    BY <2>2, <2>3, <2>4, <2>5, <2>6, <2>7, <2>8 DEF StoreNext, Records!RecordsNext
<1> QED
  BY <1>1, <1>2, StoreInductive, PTL DEF StoreSpec, StoreRefinement, Records!RecordsSpec

-----------------------------------------------------------------------------
(* The configuration file.                                                 *)

JobStage == {"off", "migrate", "trust", "open", "write", "run"}

JobType ==
    [pc : JobStage, new : Content, for : WorkDir \cup {"none", "keys", "pref", "full"},
     todo : SUBSET Provider, moved : SUBSET Provider]

PastType ==
    [plain : SUBSET Provider, held : SUBSET Provider, trusted : SUBSET WorkDir,
     refused : SUBSET Provider, hurt : BOOLEAN, full : BOOLEAN]

TypeInv ==
    /\ text \in {"whole", "empty", "short"}
    /\ content \in Content /\ mem \in Content
    /\ keyring \subseteq Provider
    /\ job \in JobType
    /\ past \in PastType

(* The file is incomplete only in a write or after one that failed. *)
TextInv == ~past.hurt => text = "whole" \/ (text = "empty" /\ job.pc = "write")

(* What was trusted is in the file, in the memory of the program, and in   *)
(* whatever is about to be written.                                        *)
TrustInv ==
    ~past.hurt =>
        /\ past.trusted \subseteq content.trusted
        /\ job.pc # "off" => past.trusted \subseteq mem.trusted
        /\ job.pc \in {"open", "write"} =>
              past.trusted \cup (WorkDir \cap {job.for}) \subseteq job.new.trusted

(* While keys are moved, those not yet in the keyring are still to do; when *)
(* anything is written all of them are in the keyring.                     *)
KeysInv ==
    ~past.hurt /\ past.refused = {} =>
        /\ \A p \in past.plain : p \in keyring \/ content.raw[p] = "plain"
        /\ job.pc = "migrate" => past.plain \subseteq keyring \cup job.todo
        /\ job.pc \in {"trust", "open", "write", "run"} => past.plain \subseteq keyring

(* Placeholders are in whatever is about to be written, unless it is all   *)
(* of the memory.                                                          *)
HeldInv ==
    ~past.hurt /\ ~past.full =>
        /\ \A p \in past.held : content.raw[p] = "placeholder"
        /\ job.pc \in {"open", "write"} /\ job.for # "full" =>
              \A p \in past.held : job.new.raw[p] = "placeholder"

ConfigInv == TypeInv /\ TextInv /\ TrustInv /\ KeysInv /\ HeldInv

-----------------------------------------------------------------------------
LEMMA DefaultsAreContent == Defaults \in Content
BY ConfigAssumption DEF Defaults, Content, Raw

LEMMA OffIsJob == Off \in JobType
BY DefaultsAreContent DEF Off, JobType, JobStage

LEMMA RewriteIsJob ==
    ASSUME job \in JobType, NEW c \in Content,
           NEW f \in WorkDir \cup {"none", "keys", "pref", "full"},
           Rewrite(c, f)
    PROVE  job' \in JobType /\ job'.pc = "open" /\ job'.new = c /\ job'.for = f
BY DEF Rewrite, JobType, JobStage

(* What the writers make of a content. *)
LEMMA ContentChanges ==
    ASSUME NEW c \in Content
    PROVE  /\ WithoutKeys(c) \in Content
           /\ WithoutKeys(c).trusted = c.trusted
           /\ \A p \in Provider :
                 c.raw[p] = "placeholder" => WithoutKeys(c).raw[p] = "placeholder"
           /\ FromMemory(c) \in Content /\ FromMemory(c).trusted = c.trusted
           /\ \A d \in WorkDir :
                 /\ [c EXCEPT !.trusted = @ \cup {d}] \in Content
                 /\ [c EXCEPT !.trusted = @ \cup {d}].trusted = c.trusted \cup {d}
                 /\ [c EXCEPT !.trusted = @ \cup {d}].raw = c.raw
           /\ \A v \in Pref :
                 /\ [c EXCEPT !.pref = v] \in Content
                 /\ [c EXCEPT !.pref = v].trusted = c.trusted
                 /\ [c EXCEPT !.pref = v].raw = c.raw
<1>1. WithoutKeys(c) \in Content /\ WithoutKeys(c).trusted = c.trusted
  BY DEF WithoutKeys, Content, Raw
<1>2. \A p \in Provider :
         c.raw[p] = "placeholder" => WithoutKeys(c).raw[p] = "placeholder"
  BY DEF WithoutKeys, Content, Raw
<1>3. FromMemory(c) \in Content /\ FromMemory(c).trusted = c.trusted
  BY DEF FromMemory, Defaults, Content, Raw
<1>4. \A d \in WorkDir :
         /\ [c EXCEPT !.trusted = @ \cup {d}] \in Content
         /\ [c EXCEPT !.trusted = @ \cup {d}].trusted = c.trusted \cup {d}
         /\ [c EXCEPT !.trusted = @ \cup {d}].raw = c.raw
  BY DEF Content
<1>5. \A v \in Pref :
         /\ [c EXCEPT !.pref = v] \in Content
         /\ [c EXCEPT !.pref = v].trusted = c.trusted
         /\ [c EXCEPT !.pref = v].raw = c.raw
  BY DEF Content
<1> QED
  BY <1>1, <1>2, <1>3, <1>4, <1>5

LEMMA InitConfigInv == ConfigInit => ConfigInv
<1> SUFFICES ASSUME ConfigInit PROVE ConfigInv
  OBVIOUS
<1>1. TypeInv
  <2>1. content \in Content
    BY ConfigAssumption DEF ConfigInit, Content
  <2>2. past \in PastType
    BY <2>1 DEF ConfigInit, PastInit, PastType, Content
  <2> QED
    BY <2>1, <2>2, DefaultsAreContent, OffIsJob DEF ConfigInit, TypeInv
<1> QED
  BY <1>1 DEF ConfigInit, PastInit, ConfigInv, TextInv, TrustInv, KeysInv, HeldInv, Off

LEMMA StepTypeInv == TypeInv /\ [ConfigNext]_configVars => TypeInv'
<1> SUFFICES ASSUME TypeInv, [ConfigNext]_configVars PROVE TypeInv'
  OBVIOUS
<1> USE DefaultsAreContent DEF TypeInv, JobType, PastType, JobStage
<1>1. CASE Truncate
  BY <1>1 DEF Truncate, Goto
<1>2. CASE Written
  BY ZenonT(60), <1>2 DEF Written, Remembered, After, Off, Content
<1>3. CASE WriteFails
  BY <1>3 DEF WriteFails, After, Off
<1>4. CASE Launch
  <2>1. CASE text = "whole"
    <3>1. /\ job' = [pc |-> "migrate", new |-> Defaults, for |-> "none",
                     todo |-> {p \in Provider : content.raw[p] = "plain"}, moved |-> {}]
          /\ mem' = content /\ UNCHANGED <<text, content, keyring, past>>
      BY <1>4, <2>1 DEF Launch, Off
    <3> QED
      BY <3>1
  <2>2. CASE text # "whole"
    BY <1>4, <2>2 DEF Launch, Goto
  <2> QED
    BY <2>1, <2>2
<1>5. CASE MoveKey
  <2>1. PICK p \in job.todo :
           \/ /\ keyring' = keyring \cup {p}
              /\ job' = [job EXCEPT !.todo = @ \ {p}, !.moved = @ \cup {p}]
              /\ UNCHANGED past
           \/ /\ past' = [past EXCEPT !.refused = @ \cup {p}]
              /\ job' = [job EXCEPT !.todo = @ \ {p}]
              /\ UNCHANGED keyring
    BY <1>5 DEF MoveKey
  <2>2. p \in Provider
    BY <2>1
  <2>3. [job EXCEPT !.todo = @ \ {p}, !.moved = @ \cup {p}] \in JobType
    BY <2>2
  <2>4. [job EXCEPT !.todo = @ \ {p}] \in JobType
    BY <2>2
  <2>5. [past EXCEPT !.refused = @ \cup {p}] \in PastType
    BY <2>2
  <2> QED
    BY <1>5, <2>1, <2>2, <2>3, <2>4, <2>5 DEF MoveKey
<1>6. CASE KeysMoved
  <2>1. WithoutKeys(content) \in Content
    BY ContentChanges
  <2>2. CASE job.moved = {}
    BY <1>6, <2>2 DEF KeysMoved, Goto
  <2>3. CASE job.moved # {}
    BY <1>6, <2>1, <2>3, RewriteIsJob DEF KeysMoved
  <2> QED
    BY <2>2, <2>3
<1>7. CASE \E d \in WorkDir : Trusted(d)
  BY <1>7 DEF Trusted, Goto
<1>8. CASE \E d \in WorkDir : TrustNew(d)
  <2>1. PICK d \in WorkDir : TrustNew(d)
    BY <1>8
  <2>2. \A c \in Content : [c EXCEPT !.trusted = @ \cup {d}] \in Content
    BY <2>1, ContentChanges
  <2> QED
    BY ZenonT(60), <2>1, <2>2 DEF TrustNew, Rewrite, Count
<1>9. CASE \E v \in Pref : ChangePref(v)
  <2>1. PICK v \in Pref : ChangePref(v)
    BY <1>9
  <2>2. \A c \in Content : [c EXCEPT !.pref = v] \in Content /\ FromMemory(c) \in Content
    BY <2>1, ContentChanges
  <2>3. mem' \in Content
    BY <2>1, <2>2 DEF ChangePref
  <2> QED
    BY ZenonT(60), <2>1, <2>2, <2>3 DEF ChangePref, Rewrite, Count
<1>10. CASE SaveAll
  <2>1. FromMemory(mem) \in Content
    BY ContentChanges
  <2> QED
    BY <1>10, <2>1 DEF SaveAll, Rewrite, Count
<1>11. CASE Exit
  BY <1>11 DEF Exit, Off
<1>12. CASE UNCHANGED configVars
  BY <1>12 DEF configVars
<1> QED
  BY <1>1, <1>2, <1>3, <1>4, <1>5, <1>6, <1>7, <1>8, <1>9, <1>10, <1>11, <1>12
  DEF ConfigNext

LEMMA StepTextInv == TypeInv /\ TextInv /\ [ConfigNext]_configVars => TextInv'
<1> SUFFICES ASSUME TypeInv, TextInv, [ConfigNext]_configVars PROVE TextInv'
  OBVIOUS
<1> USE DEF TextInv, TypeInv, JobType, PastType
<1>1. CASE Truncate
  BY <1>1 DEF Truncate, Goto
<1>2. CASE Written \/ WriteFails
  BY <1>2 DEF Written, WriteFails
<1>3. CASE Launch
  BY <1>3 DEF Launch, Goto
<1>4. CASE MoveKey \/ KeysMoved \/ SaveAll
  BY <1>4 DEF MoveKey, KeysMoved, SaveAll, Goto, Rewrite
<1>5. CASE \E d \in WorkDir : Trusted(d) \/ TrustNew(d)
  BY <1>5 DEF Trusted, TrustNew, Goto, Rewrite
<1>6. CASE \E v \in Pref : ChangePref(v)
  BY <1>6 DEF ChangePref, Rewrite
<1>7. CASE Exit
  BY <1>7 DEF Exit, Off
<1>8. CASE UNCHANGED configVars
  BY <1>8 DEF configVars
<1> QED
  BY <1>1, <1>2, <1>3, <1>4, <1>5, <1>6, <1>7, <1>8 DEF ConfigNext

LEMMA StepTrustInv ==
    TypeInv /\ TextInv /\ TrustInv /\ [ConfigNext]_configVars => TrustInv'
<1> SUFFICES ASSUME TypeInv, TextInv, TrustInv, [ConfigNext]_configVars PROVE TrustInv'
  OBVIOUS
<1> USE DEF TrustInv, TypeInv, JobType, PastType, JobStage
<1>1. CASE Truncate
  BY <1>1 DEF Truncate, Goto
<1>2. CASE Written
  BY <1>2 DEF Written, Remembered, After, Off, Content
<1>3. CASE WriteFails
  BY <1>3 DEF WriteFails
<1>4. CASE Launch
  BY <1>4 DEF Launch, Goto, Off, TextInv
<1>5. CASE MoveKey
  BY <1>5 DEF MoveKey
<1>6. CASE KeysMoved
  <2>1. WithoutKeys(content).trusted = content.trusted
    BY ContentChanges
  <2>2. WorkDir \cap {"keys"} = {}
    BY ConfigAssumption
  <2>3. CASE job.moved = {}
    BY <1>6, <2>3 DEF KeysMoved, Goto
  <2>4. CASE job.moved # {}
    BY <1>6, <2>1, <2>2, <2>4 DEF KeysMoved, Rewrite
  <2> QED
    BY <2>3, <2>4
<1>7. CASE \E d \in WorkDir : Trusted(d)
  BY <1>7 DEF Trusted, Goto
<1>8. CASE \E d \in WorkDir : TrustNew(d)
  <2>1. PICK d \in WorkDir : TrustNew(d)
    BY <1>8
  <2>2. [content EXCEPT !.trusted = @ \cup {d}].trusted = content.trusted \cup {d}
    BY <2>1, ContentChanges
  <2>3. CASE text = "short"
    BY <2>1, <2>3 DEF TrustNew
  <2>4. CASE text # "short"
    BY <2>1, <2>2, <2>4 DEF TrustNew, Rewrite, TextInv
  <2> QED
    BY <2>3, <2>4
<1>9. CASE \E v \in Pref : ChangePref(v)
  <2>1. PICK v \in Pref : ChangePref(v)
    BY <1>9
  <2>2. /\ [content EXCEPT !.pref = v].trusted = content.trusted
        /\ [mem EXCEPT !.pref = v].trusted = mem.trusted
    BY <2>1, ContentChanges
  <2>3. WorkDir \cap {"pref"} = {}
    BY ConfigAssumption
  <2>4. CASE text = "whole"
    BY <2>1, <2>2, <2>3, <2>4 DEF ChangePref, Rewrite
  <2>5. CASE text # "whole"
    BY <2>1, <2>5 DEF ChangePref, TextInv
  <2> QED
    BY <2>4, <2>5
<1>10. CASE SaveAll
  <2>1. FromMemory(mem).trusted = mem.trusted /\ WorkDir \cap {"full"} = {}
    BY ContentChanges, ConfigAssumption
  <2> QED
    BY <1>10, <2>1 DEF SaveAll, Rewrite
<1>11. CASE Exit
  BY <1>11 DEF Exit, Off
<1>12. CASE UNCHANGED configVars
  BY <1>12 DEF configVars
<1> QED
  BY <1>1, <1>2, <1>3, <1>4, <1>5, <1>6, <1>7, <1>8, <1>9, <1>10, <1>11, <1>12
  DEF ConfigNext

LEMMA StepKeysInv ==
    TypeInv /\ TextInv /\ KeysInv /\ [ConfigNext]_configVars => KeysInv'
<1> SUFFICES ASSUME TypeInv, TextInv, KeysInv, [ConfigNext]_configVars PROVE KeysInv'
  OBVIOUS
<1> USE DEF KeysInv, TypeInv, JobType, PastType, JobStage
<1>1. CASE Truncate
  BY <1>1 DEF Truncate, Goto
<1>2. CASE Written
  BY <1>2 DEF Written, After, Off
<1>3. CASE WriteFails
  BY <1>3 DEF WriteFails
<1>4. CASE Launch
  <2>1. CASE text = "whole"
    <3>1. /\ job' = [pc |-> "migrate", new |-> Defaults, for |-> "none",
                     todo |-> {p \in Provider : content.raw[p] = "plain"}, moved |-> {}]
          /\ UNCHANGED <<text, content, keyring, past>>
      BY <1>4, <2>1 DEF Launch, Off
    <3> QED
      BY <3>1
  <2>2. CASE text # "whole"
    BY <1>4, <2>2 DEF Launch, Goto, TextInv
  <2> QED
    BY <2>1, <2>2
<1>5. CASE MoveKey
  <2>1. PICK p \in job.todo :
           \/ /\ keyring' = keyring \cup {p}
              /\ job' = [job EXCEPT !.todo = @ \ {p}, !.moved = @ \cup {p}]
              /\ UNCHANGED past
           \/ /\ past' = [past EXCEPT !.refused = @ \cup {p}]
              /\ job' = [job EXCEPT !.todo = @ \ {p}]
              /\ UNCHANGED keyring
    BY <1>5 DEF MoveKey
  <2>2. CASE past'.refused = {}
    <3>1. [past EXCEPT !.refused = @ \cup {p}].refused # {}
      OBVIOUS
    <3>2. /\ past' = past /\ keyring' = keyring \cup {p}
          /\ job' = [job EXCEPT !.todo = @ \ {p}, !.moved = @ \cup {p}]
      BY <2>1, <2>2, <3>1
    <3>3. job'.todo = job.todo \ {p}
      BY <3>2
    <3>4. job.pc = "migrate" /\ job'.pc = "migrate" /\ content' = content
      BY <1>5, <3>2 DEF MoveKey
    <3> QED
      BY <3>2, <3>3, <3>4
  <2> QED
    BY <2>2
<1>6. CASE KeysMoved
  BY <1>6 DEF KeysMoved, Goto, Rewrite
<1>7. CASE \E d \in WorkDir : Trusted(d) \/ TrustNew(d)
  BY <1>7 DEF Trusted, TrustNew, Goto, Rewrite
<1>8. CASE \E v \in Pref : ChangePref(v)
  BY <1>8 DEF ChangePref, Rewrite
<1>9. CASE SaveAll
  BY <1>9 DEF SaveAll, Rewrite
<1>10. CASE Exit
  BY <1>10 DEF Exit, Off
<1>11. CASE UNCHANGED configVars
  BY <1>11 DEF configVars
<1> QED
  BY <1>1, <1>2, <1>3, <1>4, <1>5, <1>6, <1>7, <1>8, <1>9, <1>10, <1>11 DEF ConfigNext

LEMMA StepHeldInv ==
    TypeInv /\ TextInv /\ HeldInv /\ [ConfigNext]_configVars => HeldInv'
<1> SUFFICES ASSUME TypeInv, TextInv, HeldInv, [ConfigNext]_configVars PROVE HeldInv'
  OBVIOUS
<1> USE DEF HeldInv, TypeInv, JobType, PastType, JobStage
<1>1. CASE Truncate
  BY <1>1 DEF Truncate, Goto
<1>2. CASE Written
  BY <1>2 DEF Written, After, Off
<1>3. CASE WriteFails
  BY <1>3 DEF WriteFails
<1>4. CASE Launch
  BY <1>4 DEF Launch, Goto, Off
<1>5. CASE MoveKey
  BY <1>5 DEF MoveKey
<1>6. CASE KeysMoved
  <2>1. \A p \in Provider :
           content.raw[p] = "placeholder" => WithoutKeys(content).raw[p] = "placeholder"
    BY ContentChanges
  <2>2. CASE job.moved = {}
    BY <1>6, <2>2 DEF KeysMoved, Goto
  <2>3. CASE job.moved # {}
    BY ZenonT(60), <1>6, <2>1, <2>3 DEF KeysMoved, Rewrite
  <2> QED
    BY <2>2, <2>3
<1>7. CASE \E d \in WorkDir : Trusted(d)
  BY <1>7 DEF Trusted, Goto
<1>8. CASE \E d \in WorkDir : TrustNew(d)
  <2>1. PICK d \in WorkDir : TrustNew(d)
    BY <1>8
  <2>2. [content EXCEPT !.trusted = @ \cup {d}].raw = content.raw
    BY <2>1, ContentChanges
  <2>3. CASE text = "whole"
    <3>1. Rewrite([content EXCEPT !.trusted = @ \cup {d}], d)
      BY <2>1, <2>3 DEF TrustNew
    <3>2. job'.new = [content EXCEPT !.trusted = @ \cup {d}]
      BY <2>1, <3>1, RewriteIsJob, ContentChanges
    <3> QED
      BY <2>1, <2>2, <3>2 DEF TrustNew
  <2>4. CASE text # "whole"
    BY <2>1, <2>4 DEF TrustNew, TextInv
  <2> QED
    BY <2>3, <2>4
<1>9. CASE \E v \in Pref : ChangePref(v)
  <2>1. PICK v \in Pref : ChangePref(v)
    BY <1>9
  <2>2. [content EXCEPT !.pref = v].raw = content.raw
    BY <2>1, ContentChanges
  <2>3. CASE text = "whole"
    <3>1. Rewrite([content EXCEPT !.pref = v], "pref")
      BY <2>1, <2>3 DEF ChangePref
    <3>2. job'.new = [content EXCEPT !.pref = v]
      BY <2>1, <3>1, RewriteIsJob, ContentChanges
    <3> QED
      BY <2>1, <2>2, <3>2 DEF ChangePref
  <2>4. CASE text # "whole"
    BY <2>1, <2>4 DEF ChangePref, TextInv
  <2> QED
    BY <2>3, <2>4
<1>10. CASE SaveAll
  BY <1>10 DEF SaveAll, Rewrite
<1>11. CASE Exit
  BY <1>11 DEF Exit, Off
<1>12. CASE UNCHANGED configVars
  BY <1>12 DEF configVars
<1> QED
  BY <1>1, <1>2, <1>3, <1>4, <1>5, <1>6, <1>7, <1>8, <1>9, <1>10, <1>11, <1>12
  DEF ConfigNext

LEMMA ConfigInductive == ConfigSpec => []ConfigInv
<1>1. ConfigInv /\ [ConfigNext]_configVars => ConfigInv'
  BY StepTypeInv, StepTextInv, StepTrustInv, StepKeysInv, StepHeldInv DEF ConfigInv
<1> QED
  BY <1>1, InitConfigInv, PTL DEF ConfigSpec

ActsInv == acts \in 0 .. MaxActs

LEMMA ActsAreCounted == ConfigSpec => []ActsInv
<1>1. ConfigInit => ActsInv
  BY ConfigAssumption DEF ConfigInit, ActsInv
<1>2. ActsInv /\ [ConfigNext]_configVars => ActsInv'
  <2> SUFFICES ASSUME ActsInv, [ConfigNext]_configVars
               PROVE  acts' = acts \/ (acts < MaxActs /\ acts' = acts + 1)
    BY ConfigAssumption DEF ActsInv
  <2> QED
    BY DEF ConfigNext, configVars, Truncate, Written, WriteFails, Launch, MoveKey, KeysMoved,
           Trusted, TrustNew, ChangePref, SaveAll, Exit, Count
<1> QED
  BY <1>1, <1>2, PTL DEF ConfigSpec

(* The state of the configuration keeps its type, in memory, in the file   *)
(* and in what is about to be written.                                     *)
THEOREM ConfigIsTyped == ConfigSpec => []ConfigTypeOK
<1>1. ConfigInv /\ ActsInv => ConfigTypeOK
  BY DEF ConfigInv, ActsInv, TypeInv, JobType, JobStage, ConfigTypeOK
<1> QED
  BY <1>1, ConfigInductive, ActsAreCounted, PTL

(* A directory the user was told is trusted stays in the file, whichever   *)
(* program writes which part of it afterwards (addTrustedDirToFile,        *)
(* SaveFile, SaveFilePreservingSecrets).                                   *)
THEOREM TrustedDirsAreKept == ConfigSpec => []TrustIsKept
<1>1. ConfigInv => TrustIsKept
  BY DEF ConfigInv, TrustInv, TrustIsKept
<1> QED
  BY <1>1, ConfigInductive, PTL

(* No key in plain text leaves the file before the keyring has it, and no  *)
(* placeholder but by a file written anew (migrateAPIKeys).                *)
THEOREM KeysAreInOnePlace == ConfigSpec => []KeysAreKept
<1>1. ConfigInv => KeysAreKept
  BY DEF ConfigInv, KeysInv, HeldInv, KeysAreKept
<1> QED
  BY <1>1, ConfigInductive, PTL

-----------------------------------------------------------------------------
(* The start of a program.                                                 *)

Dirs == StartDir \cup {""}

KeyKind == {"", "old", "env", "new"}

SavedType ==
    [exists : BOOLEAN, def : Preset \cup {""}, provs : SUBSET Preset, trusted : SUBSET Dirs]

LoadedType ==
    [def : Preset \cup {""}, provs : SUBSET Preset, trusted : SUBSET Dirs,
     key : [Preset -> KeyKind]]

BootType ==
    [pc : {"off", "choose", "key", "store", "load", "check", "trust", "work"},
     mode : {"init", "tui", "command"}, flag : Preset \cup {""}, dir : Dirs,
     set : Preset \cup {""}, key : KeyKind, transient : BOOLEAN, told : BOOLEAN, exit : {0, 1}]

BootTypeInv ==
    /\ saved \in SavedType
    /\ stored \in [Preset -> KeyKind]
    /\ loaded \in LoadedType
    /\ boot \in BootType

(* What is trusted in memory is trusted in the file, too. *)
BootTrustInv ==
    /\ boot.pc \in {"check", "trust", "work"} => loaded.trusted \subseteq saved.trusted
    /\ boot.pc = "work" => boot.dir \in saved.trusted

(* How far the provider that was set up and its key have come. *)
BootKeyInv ==
    /\ boot.pc \in {"key", "store"} => boot.set # ""
    /\ boot.transient => boot.told /\ boot.set # ""
    /\ boot.set # "" /\ boot.pc \in {"store", "load"} =>
          /\ saved.def = boot.set /\ boot.set \in saved.provs
          /\ boot.key # ""
    /\ boot.set # "" /\ boot.pc \in {"load", "check", "trust", "work"} =>
          stored[boot.set] = boot.key \/ boot.transient
    /\ boot.set # "" /\ boot.pc \in {"check", "trust", "work"} =>
          loaded.key[boot.set] = boot.key
    /\ boot.set # "" /\ boot.pc = "check" => loaded.def = boot.set
    /\ boot.set # "" /\ boot.flag = "" /\ boot.pc \in {"trust", "work"} => loaded.def = boot.set

StartInv == BootTypeInv /\ BootTrustInv /\ BootKeyInv

BootAt(pc) == [boot EXCEPT !.pc = pc]

-----------------------------------------------------------------------------
LEMMA LoadedIsTyped ==
    ASSUME stored \in [Preset -> KeyKind], NEW f \in SavedType
    PROVE  Loaded(f) \in LoadedType
BY DEF Loaded, SavedType, LoadedType, KeyKind, EnvKey

(* Nothing is known of a program that ends. *)
LEMMA EndIsFine ==
    ASSUME StartInv, NEW code \in {0, 1}, ExitWith(code), UNCHANGED <<saved, stored>>,
           loaded' \in LoadedType
    PROVE  StartInv'
<1>1. boot' = [boot EXCEPT !.pc = "off", !.exit = code]
  BY DEF ExitWith
<1>2. boot' \in BootType /\ boot'.pc = "off" /\ boot'.transient = boot.transient
      /\ boot'.told = boot.told /\ boot'.set = boot.set
  BY <1>1 DEF StartInv, BootTypeInv, BootType
<1> QED
  BY <1>2 DEF StartInv, BootTypeInv, BootTrustInv, BootKeyInv

LEMMA InitStartInv == StartupInit => StartInv
<1> SUFFICES ASSUME StartupInit PROVE StartInv
  OBVIOUS
<1>1. saved \in SavedType
  <2>1. DefaultFile \in SavedType
    BY DEF DefaultFile, SavedType
  <2>2. \A p \in Preset :
           [exists |-> TRUE, def |-> p, provs |-> {p}, trusted |-> {}] \in SavedType
    BY DEF SavedType
  <2> QED
    BY <2>1, <2>2 DEF StartupInit
<1>2. stored \in [Preset -> KeyKind]
  BY DEF StartupInit, KeyKind
<1>3. loaded \in LoadedType
  <2>1. DefaultFile \in SavedType
    BY DEF DefaultFile, SavedType
  <2> QED
    BY <1>2, <2>1, LoadedIsTyped DEF StartupInit
<1>4. boot \in BootType
  BY DEF StartupInit, NotRunning, BootType, KeyKind, Dirs
<1> QED
  BY <1>1, <1>2, <1>3, <1>4 DEF StartInv, BootTypeInv, BootTrustInv, BootKeyInv, StartupInit, NotRunning

LEMMA StepStartInv == StartInv /\ [StartupNext]_startupVars => StartInv'
<1> SUFFICES ASSUME StartInv, [StartupNext]_startupVars PROVE StartInv'
  OBVIOUS
<1>0. saved \in SavedType /\ stored \in [Preset -> KeyKind] /\ loaded \in LoadedType
      /\ boot \in BootType
  BY DEF StartInv, BootTypeInv
<1>1. ASSUME NEW mode \in {"init", "tui", "command"}, NEW flag \in Preset \cup {""},
             NEW wd \in Dirs, StartProgram(mode, flag, wd)
      PROVE  StartInv'
  <2>1. boot'.set = "" /\ boot'.transient = FALSE /\ boot'.pc \in {"off", "choose", "load"}
        /\ boot' \in BootType
    BY <1>1 DEF StartProgram, NotRunning, BootType, KeyKind, Dirs
  <2> QED
    BY <1>0, <1>1, <2>1 DEF StartProgram, StartInv, BootTypeInv, BootTrustInv, BootKeyInv
<1>2. ASSUME NEW p \in Preset, Choose(p) PROVE StartInv'
  <2>1. boot'.pc = "key" /\ boot'.set = p /\ boot'.transient = boot.transient
        /\ boot'.told = boot.told /\ boot' \in BootType
    BY <1>0, <1>2 DEF Choose, BootType
  <2> QED
    BY <1>0, <1>2, <2>1, StartupAssumption DEF Choose, StartInv, BootTypeInv, BootTrustInv, BootKeyInv
<1>3. ASSUME NEW key \in {"new", EnvKey(boot.set)}, SaveSetup(key) PROVE StartInv'
  <2>1. CASE UNCHANGED <<saved, boot>>
    BY <1>0, <1>3, <2>1 DEF SaveSetup, StartInv, BootTypeInv, BootTrustInv, BootKeyInv
  <2>2. CASE /\ saved' = [exists |-> TRUE, def |-> boot.set, provs |-> {boot.set}, trusted |-> {}]
             /\ boot' = [boot EXCEPT !.pc = "store", !.key = key]
    <3>1. boot.set \in Preset /\ key \in KeyKind /\ key # ""
      BY <1>0, <1>3 DEF SaveSetup, StartInv, BootKeyInv, BootType, EnvKey, KeyKind
    <3>2. boot'.pc = "store" /\ boot'.set = boot.set /\ boot'.transient = boot.transient
          /\ boot'.told = boot.told /\ boot'.key = key /\ boot' \in BootType
      BY <1>0, <2>2, <3>1 DEF BootType
    <3>3. saved' \in SavedType
      BY <2>2, <3>1 DEF SavedType
    <3>4. saved'.def = boot.set /\ boot.set \in saved'.provs /\ UNCHANGED <<stored, loaded>>
      BY <1>3, <2>2 DEF SaveSetup
    <3>5. BootKeyInv'
      BY <3>1, <3>2, <3>4, StartupAssumption DEF StartInv, BootKeyInv
    <3> QED
      BY <1>0, <3>2, <3>3, <3>4, <3>5 DEF StartInv, BootTypeInv, BootTrustInv
  <2> QED
    BY <1>3, <2>1, <2>2 DEF SaveSetup
<1>4. CASE StoreSetupKey
  <2>1. boot.pc = "store" /\ boot.set \in Preset /\ boot.key # ""
        /\ UNCHANGED <<saved, loaded>>
    BY <1>0, <1>4 DEF StoreSetupKey, StartInv, BootKeyInv, BootType
  <2>2. CASE stored' = [stored EXCEPT ![boot.set] = boot.key] /\ Go("load")
    <3>1. boot'.pc = "load" /\ boot'.set = boot.set /\ boot'.key = boot.key
          /\ boot'.transient = boot.transient /\ boot'.told = boot.told /\ boot' \in BootType
      BY <1>0, <2>2 DEF Go, BootType
    <3>2. stored' \in [Preset -> KeyKind] /\ stored'[boot.set] = boot.key
      BY <1>0, <2>1, <2>2 DEF BootType
    <3> QED
      BY <1>0, <2>1, <3>1, <3>2 DEF StartInv, BootTypeInv, BootTrustInv, BootKeyInv
  <2>3. CASE boot' = [boot EXCEPT !.pc = "load", !.transient = TRUE, !.told = TRUE]
             /\ UNCHANGED stored
    <3>1. boot'.pc = "load" /\ boot'.set = boot.set /\ boot'.key = boot.key
          /\ boot'.transient /\ boot'.told /\ boot' \in BootType
      BY <1>0, <2>3 DEF BootType
    <3> QED
      BY <1>0, <2>1, <2>3, <3>1, StartupAssumption DEF StartInv, BootTypeInv, BootTrustInv, BootKeyInv
  <2> QED
    BY <1>4, <2>2, <2>3 DEF StoreSetupKey
<1>5. CASE CancelSetup \/ Decline \/ StartKilled \/ TuiEnds
  BY <1>0, <1>5, EndIsFine DEF CancelSetup, Decline, StartKilled, TuiEnds
<1>6. ASSUME NEW end, CommandEnds(end) PROVE StartInv'
  <2>1. Codes(end) \in {0, 1}
    BY DEF Codes
  <2> QED
    BY <1>0, <1>6, <2>1, EndIsFine DEF CommandEnds
<1>7. CASE LoadConfig
  <2>1. Loaded(saved) \in LoadedType
    BY <1>0, LoadedIsTyped
  <2>2. WithTransient(Loaded(saved)) \in LoadedType
    BY <1>0, <2>1 DEF WithTransient, LoadedType, BootType
  <2>3. CASE UNCHANGED loaded /\ ExitWith(1)
    BY <1>0, <1>7, <2>3, EndIsFine DEF LoadConfig
  <2>4. CASE loaded' = WithTransient(Loaded(saved)) /\ ExitWith(0)
    BY <1>7, <2>2, <2>4, EndIsFine DEF LoadConfig
  <2>5. CASE loaded' = WithTransient(Loaded(saved)) /\ Go("check")
    <3>1. boot'.pc = "check" /\ boot'.set = boot.set /\ boot'.key = boot.key
          /\ boot'.transient = boot.transient /\ boot'.told = boot.told /\ boot' \in BootType
      BY <1>0, <2>5 DEF Go, BootType
    <3>2. boot.pc = "load" /\ UNCHANGED <<saved, stored>>
      BY <1>7 DEF LoadConfig
    <3>3. loaded'.trusted = saved.trusted /\ loaded'.def = saved.def
      BY <2>5 DEF WithTransient, Loaded
    <3>4. boot.set # "" => loaded'.key[boot.set] = boot.key
      <4>1. SUFFICES ASSUME boot.set # "" PROVE loaded'.key[boot.set] = boot.key
        OBVIOUS
      <4>2. boot.set \in Preset /\ boot.set \in saved.provs /\ boot.key # ""
        BY <1>0, <3>2, <4>1 DEF StartInv, BootKeyInv, BootType
      <4>3. CASE boot.transient
        BY <2>1, <2>5, <4>2, <4>3 DEF WithTransient, LoadedType
      <4>4. CASE ~boot.transient
        <5>1. stored[boot.set] = boot.key
          BY <3>2, <4>1, <4>4 DEF StartInv, BootKeyInv
        <5> QED
          BY <2>5, <4>2, <4>4, <5>1 DEF WithTransient, Loaded
      <4> QED
        BY <4>3, <4>4
    <3> QED
      BY <1>0, <2>2, <2>5, <3>1, <3>2, <3>3, <3>4 DEF StartInv, BootTypeInv, BootTrustInv, BootKeyInv
  <2> QED
    BY <1>7, <2>3, <2>4, <2>5 DEF LoadConfig
<1>8. CASE CheckConfig
  <2>1. loaded' = ApplyFlags(loaded) /\ boot.pc = "check" /\ UNCHANGED <<saved, stored>>
    BY <1>8 DEF CheckConfig
  <2>2. /\ loaded' \in LoadedType /\ loaded'.key = loaded.key
        /\ loaded'.trusted = loaded.trusted /\ (boot.flag = "" => loaded'.def = loaded.def)
    BY <1>0, <2>1 DEF ApplyFlags, LoadedType, BootType
  <2>3. CASE ExitWith(1)
    BY <2>1, <2>2, <2>3, EndIsFine
  <2>4. CASE Go("trust")
    <3>1. boot'.pc = "trust" /\ boot'.set = boot.set /\ boot'.key = boot.key
          /\ boot'.flag = boot.flag
          /\ boot'.transient = boot.transient /\ boot'.told = boot.told /\ boot' \in BootType
      BY <1>0, <2>4 DEF Go, BootType
    <3>2. boot.set # "" =>
             /\ stored[boot.set] = boot.key \/ boot.transient
             /\ loaded.key[boot.set] = boot.key
             /\ loaded.def = boot.set
      BY <2>1 DEF StartInv, BootKeyInv
    <3>3. boot.transient => boot.told /\ boot.set # ""
      BY DEF StartInv, BootKeyInv
    <3>4. BootKeyInv'
      BY <2>1, <2>2, <3>1, <3>2, <3>3 DEF BootKeyInv
    <3>5. loaded.trusted \subseteq saved.trusted
      BY <2>1 DEF StartInv, BootTrustInv
    <3> QED
      BY <1>0, <2>1, <2>2, <3>1, <3>4, <3>5 DEF StartInv, BootTypeInv, BootTrustInv
  <2> QED
    BY <1>8, <2>3, <2>4 DEF CheckConfig
<1>9. ASSUME boot.pc = "trust", Go("work"), UNCHANGED stored,
             saved' \in SavedType, loaded' \in LoadedType,
             loaded'.key = loaded.key, loaded'.def = loaded.def,
             loaded'.trusted \subseteq saved'.trusted, boot.dir \in saved'.trusted
      PROVE  StartInv'
  <2>1. boot'.pc = "work" /\ boot'.set = boot.set /\ boot'.key = boot.key
        /\ boot'.flag = boot.flag /\ boot'.dir = boot.dir
        /\ boot'.transient = boot.transient /\ boot'.told = boot.told /\ boot' \in BootType
    BY <1>0, <1>9 DEF Go, BootType
  <2> QED
    BY <1>0, <1>9, <2>1 DEF StartInv, BootTypeInv, BootTrustInv, BootKeyInv
<1>10. CASE IsTrusted
  BY <1>0, <1>9, <1>10 DEF IsTrusted, StartInv, BootTrustInv
<1>11. CASE AcceptTrust
  <2>1. CASE UNCHANGED <<saved, loaded, boot>>
    BY <1>0, <1>11, <2>1 DEF AcceptTrust, StartInv, BootTypeInv, BootTrustInv, BootKeyInv
  <2>2. CASE UNCHANGED <<saved, loaded>> /\ ExitWith(0)
    BY <1>0, <1>11, <2>2, EndIsFine DEF AcceptTrust
  <2>3. CASE /\ saved' = [saved EXCEPT !.exists = TRUE, !.trusted = @ \cup {boot.dir}]
             /\ loaded' = [loaded EXCEPT !.trusted = @ \cup {boot.dir}]
             /\ Go("work")
    <3>1. boot.pc = "trust" /\ loaded.trusted \subseteq saved.trusted /\ UNCHANGED stored
      BY <1>11 DEF AcceptTrust, StartInv, BootTrustInv
    <3>2. boot.dir \in Dirs
      BY <1>0 DEF BootType
    <3> QED
      BY <1>0, <1>9, <2>3, <3>1, <3>2 DEF SavedType, LoadedType
  <2> QED
    BY <1>11, <2>1, <2>2, <2>3 DEF AcceptTrust
<1>12. CASE UNCHANGED startupVars
  BY <1>0, <1>12 DEF startupVars, StartInv, BootTypeInv, BootTrustInv, BootKeyInv
<1> QED
  BY <1>1, <1>2, <1>3, <1>4, <1>5, <1>6, <1>7, <1>8, <1>10, <1>11, <1>12
  DEF StartupNext, Dirs

LEMMA StartupInductive == StartupSpec => []StartInv
BY InitStartInv, StepStartInv, PTL DEF StartupSpec

(* Only directories programs are started in are ever trusted. *)
DirInv ==
    /\ saved.trusted \subseteq StartDir /\ loaded.trusted \subseteq StartDir
    /\ boot.pc # "off" => boot.dir \in StartDir

LEMMA LoadedDirs ==
    \A f : Loaded(f).trusted = f.trusted /\ WithTransient(Loaded(f)).trusted = f.trusted
BY DEF Loaded, WithTransient

LEMMA InitDirInv == StartupInit => DirInv
<1> SUFFICES ASSUME StartupInit PROVE DirInv
  OBVIOUS
<1>1. DefaultFile.trusted = {}
  BY DEF DefaultFile
<1>2. saved.trusted = {} /\ loaded.trusted = {}
  BY <1>1, LoadedDirs DEF StartupInit
<1>3. boot.pc = "off"
  BY DEF StartupInit, NotRunning
<1> QED
  BY <1>2, <1>3 DEF DirInv

LEMMA StepDirInv == StartInv /\ DirInv /\ [StartupNext]_startupVars => DirInv'
<1> SUFFICES ASSUME StartInv, DirInv, [StartupNext]_startupVars PROVE DirInv'
  OBVIOUS
<1>1. saved \in SavedType /\ loaded \in LoadedType /\ boot \in BootType
  BY DEF StartInv, BootTypeInv
<1>2. ASSUME NEW mode \in {"init", "tui", "command"}, NEW flag \in Preset \cup {""},
             NEW wd \in StartDir, StartProgram(mode, flag, wd)
      PROVE  DirInv'
  BY <1>2 DEF StartProgram, NotRunning, DirInv
<1>3. ASSUME boot.pc # "off", boot'.dir = boot.dir \/ boot'.pc = "off",
             saved'.trusted \subseteq saved.trusted \cup {boot.dir},
             loaded'.trusted \subseteq loaded.trusted \cup saved.trusted \cup {boot.dir}
      PROVE  DirInv'
  BY <1>3 DEF DirInv
<1>4. ASSUME NEW pc, Go(pc) \/ (\E code : ExitWith(code)),
             boot.pc # "off", UNCHANGED <<saved, loaded>>
      PROVE  DirInv'
  BY <1>1, <1>3, <1>4 DEF Go, ExitWith, BootType
<1>5. ASSUME NEW p \in Preset, Choose(p) PROVE DirInv'
  BY <1>1, <1>3, <1>5 DEF Choose, BootType
<1>6. ASSUME NEW key, SaveSetup(key) PROVE DirInv'
  <2>1. boot.pc # "off" /\ loaded' = loaded
    BY <1>6 DEF SaveSetup
  <2>2. saved' = saved \/ saved'.trusted = {}
    <3> DEFINE new == [exists |-> TRUE, def |-> boot.set, provs |-> {boot.set}, trusted |-> {}]
    <3>1. new.trusted = {}
      OBVIOUS
    <3>2. saved' = saved \/ saved' = new
      BY <1>6 DEF SaveSetup
    <3> HIDE DEF new
    <3> QED
      BY <3>1, <3>2
  <2>3. boot'.dir = boot.dir
    BY <1>1, <1>6 DEF SaveSetup, BootType
  <2> QED
    BY <1>3, <2>1, <2>2, <2>3
<1>7. CASE StoreSetupKey
  BY <1>1, <1>3, <1>7 DEF StoreSetupKey, Go, BootType
<1>8. CASE CancelSetup \/ Decline \/ StartKilled \/ TuiEnds \/ IsTrusted
  BY <1>4, <1>8 DEF CancelSetup, Decline, StartKilled, TuiEnds, IsTrusted
<1>9. ASSUME NEW end, CommandEnds(end) PROVE DirInv'
  BY <1>4, <1>9 DEF CommandEnds
<1>10. CASE LoadConfig
  <2>1. boot.pc # "off" /\ saved' = saved
    BY <1>10 DEF LoadConfig
  <2>2. loaded' = loaded \/ loaded'.trusted = saved.trusted
    BY <1>10, LoadedDirs DEF LoadConfig
  <2>3. boot'.dir = boot.dir \/ boot'.pc = "off"
    BY <1>1, <1>10 DEF LoadConfig, Go, ExitWith, BootType
  <2> QED
    BY <1>3, <2>1, <2>2, <2>3
<1>11. CASE CheckConfig
  <2>1. boot.pc # "off" /\ saved' = saved
    BY <1>11 DEF CheckConfig
  <2>2. loaded'.trusted = loaded.trusted
    BY <1>1, <1>11 DEF CheckConfig, ApplyFlags, LoadedType
  <2>3. boot'.dir = boot.dir \/ boot'.pc = "off"
    BY <1>1, <1>11 DEF CheckConfig, Go, ExitWith, BootType
  <2> QED
    BY <1>3, <2>1, <2>2, <2>3
<1>12. CASE AcceptTrust
  <2>1. boot.pc # "off"
    BY <1>12 DEF AcceptTrust
  <2>2. boot'.dir = boot.dir \/ boot'.pc = "off"
    BY <1>1, <1>12 DEF AcceptTrust, Go, ExitWith, BootType
  <2>3. saved' = saved \/ saved'.trusted = saved.trusted \cup {boot.dir}
    BY <1>1, <1>12 DEF AcceptTrust, SavedType
  <2>4. loaded' = loaded \/ loaded'.trusted = loaded.trusted \cup {boot.dir}
    BY <1>1, <1>12 DEF AcceptTrust, LoadedType
  <2> QED
    BY <1>3, <2>1, <2>2, <2>3, <2>4
<1>13. CASE UNCHANGED startupVars
  BY <1>13 DEF startupVars, DirInv
<1> QED
  BY <1>2, <1>5, <1>6, <1>7, <1>8, <1>9, <1>10, <1>11, <1>12, <1>13 DEF StartupNext

(* A start keeps its type, from the choice of a provider to the work, and  *)
(* only directories that programs were started in are trusted              *)
(* (checkTrust).                                                           *)
THEOREM StartIsTyped == StartupSpec => []StartupTypeOK
<1>1. StartInv /\ DirInv => StartupTypeOK
  <2> SUFFICES ASSUME BootTypeInv, DirInv PROVE StartupTypeOK
    BY DEF StartInv
  <2>1. loaded \in LoadedType => loaded.provs \subseteq Preset
    BY DEF LoadedType
  <2>2. boot \in BootType =>
           /\ boot.pc \in {"off", "choose", "key", "store", "load", "check", "trust", "work"}
           /\ boot.set \in Preset \cup {""}
    BY DEF BootType
  <2>3. saved \in [exists : BOOLEAN, def : Preset \cup {""}, provs : SUBSET Preset,
                   trusted : SUBSET StartDir]
    BY DEF BootTypeInv, SavedType, DirInv
  <2> QED
    BY <2>1, <2>2, <2>3 DEF BootTypeInv, DirInv, KeyKind, StartupTypeOK
<1> QED
  BY <1>1, InitStartInv, InitDirInv, StepStartInv, StepDirInv, PTL DEF StartupSpec

(* A program works only in a directory the file on disk says is trusted,   *)
(* however its writes fail and however often it is started (checkTrust).   *)
THEOREM WorkIsAlwaysTrusted == StartupSpec => []WorkIsTrusted
<1>1. StartInv => WorkIsTrusted
  BY DEF StartInv, BootTrustInv, WorkIsTrusted
<1> QED
  BY <1>1, StartupInductive, PTL

(* A program that set a provider up has the key it was given, and one that *)
(* was not stored is one the user was told of (runSetupTUI).               *)
THEOREM KeyIsAlwaysAtHand == StartupSpec => []KeyIsAtHand
<1>1. StartInv => KeyIsAtHand
  BY DEF StartInv, BootKeyInv, KeyIsAtHand
<1> QED
  BY <1>1, StartupInductive, PTL
=============================================================================

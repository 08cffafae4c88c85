--------------------------- MODULE SessionStore ---------------------------
(***************************************************************************)
(* The store of sessions, a directory with one file for each session       *)
(* (internal/session/store.go), used by several programs at once.          *)
(*                                                                         *)
(* A save writes a temporary file and renames it over the record, system   *)
(* call by system call: each may fail, a program may be killed between two *)
(* of them, and the machine may lose its power.  Data that was not synced  *)
(* does not survive that, nor does a change of the directory the disk had  *)
(* not kept yet.                                                           *)
(*                                                                         *)
(* Temporary files have names of their own and are no sessions; a program  *)
(* sees only the one it made.  The order and the titles of a listing, the  *)
(* times of a record and the mode bits are left out.                       *)
(***************************************************************************)
EXTENDS Naturals, FiniteSets

CONSTANTS
    Program,   \* programs that work in the same workspace
    Id,        \* session ids
    Title, Body,
    MaxOps     \* bound: operations of all programs

Val == [title : Title, body : Body]
NoRecord == [title |-> "none", body |-> "none"]

ASSUME SessionStoreAssumption ==
    /\ NoRecord \notin Val
    /\ MaxOps \in Nat

(* A file: how much of the record is in it and whether that is synced. *)
File == [rec : Val, data : {"empty", "part", "whole"}, synced : BOOLEAN]
NoFile == [rec |-> NoRecord, data |-> "none", synced |-> FALSE]

VARIABLES
    dir,    \* id -> the file <id>.json, as programs see it
    disk,   \* id -> the file that is there after a power loss
    prog,   \* program -> what it is doing
    ops     \* operations begun

storeVars == <<dir, disk, prog, ops>>

NoWork == [pc |-> "idle", id |-> "none", rec |-> NoRecord, tmp |-> NoFile,
         todo |-> {}, got |-> {}, stayed |-> {}]

StoreInit ==
    /\ dir = [i \in Id |-> NoFile]
    /\ disk = dir
    /\ prog = [p \in Program |-> NoWork]
    /\ ops = 0

Start(p) == prog[p].pc = "idle" /\ ops < MaxOps /\ ops' = ops + 1
StepTo(p, pc) == prog' = [prog EXCEPT ![p].pc = pc]
Return(p) == prog' = [prog EXCEPT ![p] = NoWork]

(* json.Unmarshal and the check of version and id: a record cut short is   *)
(* an error.                                                               *)
Readable(f) == f.data = "whole"

-----------------------------------------------------------------------------
(* Save                                                                    *)

(* A program saves what it has in memory, whatever is in the store. *)
SaveRecord(p, i, rec) ==
    /\ Start(p)
    /\ prog' = [prog EXCEPT ![p] = [NoWork EXCEPT !.pc = "create", !.id = i, !.rec = rec]]
    /\ UNCHANGED <<dir, disk>>

(* Rename loads the record and saves it with the new title. *)
RenameRecord(p, i, title) ==
    /\ Start(p)
    /\ IF Readable(dir[i])
       THEN prog' = [prog EXCEPT ![p] =
                [NoWork EXCEPT !.pc = "create", !.id = i,
                             !.rec = [dir[i].rec EXCEPT !.title = title]]]
       ELSE UNCHANGED prog
    /\ UNCHANGED <<dir, disk>>

CreateTemp(p) ==
    /\ prog[p].pc = "create"
    /\ prog' = [prog EXCEPT ![p].pc = "write",
            ![p].tmp = [rec |-> prog[p].rec, data |-> "empty", synced |-> FALSE]]
    /\ UNCHANGED <<dir, disk, ops>>

(* A write that fails may have written a part. *)
WriteTemp(p) ==
    /\ prog[p].pc = "write"
    /\ \/ prog' = [prog EXCEPT ![p].pc = "sync", ![p].tmp.data = "whole"]
       \/ prog' = [prog EXCEPT ![p].pc = "cleanup", ![p].tmp.data = "part"]
    /\ UNCHANGED <<dir, disk, ops>>

(* Mutation: the data is not synced before the rename. *)
SkipSync(p) ==
    /\ prog[p].pc = "sync"
    /\ StepTo(p, "close")
    /\ UNCHANGED <<dir, disk, ops>>

SyncTemp(p) ==
    /\ prog[p].pc = "sync"
    /\ prog' = [prog EXCEPT ![p].pc = "close", ![p].tmp.synced = TRUE]
    /\ UNCHANGED <<dir, disk, ops>>

CloseTemp(p) ==
    /\ prog[p].pc = "close"
    /\ StepTo(p, "replace")
    /\ UNCHANGED <<dir, disk, ops>>

(* Mutation: the old record is removed first. *)
RemoveThenReplace(p) ==
    /\ prog[p].pc = "replace"
    /\ IF dir[prog[p].id] # NoFile
       THEN dir' = [dir EXCEPT ![prog[p].id] = NoFile] /\ UNCHANGED prog
       ELSE dir' = [dir EXCEPT ![prog[p].id] = prog[p].tmp] /\ Return(p)
    /\ UNCHANGED <<disk, ops>>

ReplaceRecord(p) ==
    /\ prog[p].pc = "replace"
    /\ dir' = [dir EXCEPT ![prog[p].id] = prog[p].tmp]
    /\ Return(p)
    /\ UNCHANGED <<disk, ops>>

(* The deferred os.Remove of the temporary file of a save that failed. *)
RemoveTemp(p) ==
    /\ prog[p].pc = "cleanup"
    /\ Return(p)
    /\ UNCHANGED <<dir, disk, ops>>

(* The directory cannot be made or the temporary file not be created, or   *)
(* a later call fails; the write has its own case.                         *)
StoreCallFails(p) ==
    /\ \/ prog[p].pc = "create" /\ Return(p)
       \/ prog[p].pc \in {"sync", "close", "replace"} /\ StepTo(p, "cleanup")
    /\ UNCHANGED <<dir, disk, ops>>

-----------------------------------------------------------------------------
(* Delete and List                                                         *)

(* Names that a listing under way saw are not there any more. *)
Gone(I) == [p \in Program |-> [prog[p] EXCEPT !.stayed = @ \ I]]

DeleteRecord(p, i) ==
    /\ Start(p)
    /\ IF dir[i] = NoFile
       THEN UNCHANGED <<dir, prog>>
       ELSE dir' = [dir EXCEPT ![i] = NoFile] /\ prog' = Gone({i})
    /\ UNCHANGED disk

ListRecords(p) ==
    LET there == {i \in Id : dir[i] # NoFile}
    IN /\ Start(p)
       /\ prog' = [prog EXCEPT ![p] =
              [NoWork EXCEPT !.pc = "list", !.todo = there, !.stayed = there]]
       /\ UNCHANGED <<dir, disk>>

(* One entry is loaded.  It is passed over, without a word, where the file *)
(* cannot be read (read is FALSE; stayed, an observer, gives it up) and    *)
(* where what was read is no record.                                       *)
LoadEntry(p) ==
    /\ prog[p].pc = "list"
    /\ \E i \in prog[p].todo, read \in BOOLEAN :
          prog' = [prog EXCEPT
              ![p].todo = @ \ {i},
              ![p].got = IF read /\ Readable(dir[i]) THEN @ \cup {i} ELSE @,
              ![p].stayed = IF read THEN @ ELSE @ \ {i}]
    /\ UNCHANGED <<dir, disk, ops>>

ListEnds(p) ==
    /\ prog[p].pc = "list" /\ prog[p].todo = {}
    /\ Return(p)
    /\ UNCHANGED <<dir, disk, ops>>

-----------------------------------------------------------------------------
(* The environment                                                         *)

ProgramKilled(p) ==
    /\ prog[p].pc # "idle"
    /\ Return(p)
    /\ UNCHANGED <<dir, disk, ops>>

(* The disk keeps a change of the directory. *)
DiskKeeps(i) ==
    /\ disk' = [disk EXCEPT ![i] = dir[i]]
    /\ UNCHANGED <<dir, prog, ops>>

Survivor(f) == IF f = NoFile \/ f.synced THEN f ELSE [f EXCEPT !.data = "part"]

PowerLoss ==
    /\ dir' = [i \in Id |-> Survivor(disk[i])]
    /\ disk' = dir'
    /\ prog' = [p \in Program |-> NoWork]
    /\ UNCHANGED ops

StoreNext ==
    \/ \E p \in Program :
          \/ \E i \in Id :
                \/ \E rec \in Val : SaveRecord(p, i, rec)
                \/ \E title \in Title : RenameRecord(p, i, title)
                \/ DeleteRecord(p, i)
          \/ CreateTemp(p) \/ WriteTemp(p) \/ SyncTemp(p) \/ CloseTemp(p)
          \/ ReplaceRecord(p) \/ RemoveTemp(p) \/ StoreCallFails(p)
          \/ ListRecords(p) \/ LoadEntry(p) \/ ListEnds(p) \/ ProgramKilled(p)
    \/ \E i \in Id : DiskKeeps(i)
    \/ PowerLoss

StoreSpec == StoreInit /\ [][StoreNext]_storeVars

-----------------------------------------------------------------------------
StoreTypeOK ==
    /\ dir \in [Id -> File \cup {NoFile}]
    /\ disk \in [Id -> File \cup {NoFile}]
    /\ prog \in [Program ->
           [pc : {"idle", "create", "write", "sync", "close", "replace", "cleanup", "list"},
            id : Id \cup {"none"}, rec : Val \cup {NoRecord}, tmp : File \cup {NoFile},
            todo : SUBSET Id, got : SUBSET Id, stayed : SUBSET Id]]
    /\ ops \in Nat

(* What a reader makes of a file: a record cut short is neither a record   *)
(* nor a free name.                                                        *)
Torn == [title |-> "torn", body |-> "torn"]
Seen(f) == IF f = NoFile THEN NoRecord ELSE IF Readable(f) THEN f.rec ELSE Torn

Records ==
    INSTANCE RecordStore WITH
        now <- [i \in Id |-> Seen(dir[i])],
        safe <- [i \in Id |-> Seen(Survivor(disk[i]))]

(* Whatever call of a save fails, wherever a program is killed, and when   *)
(* the power goes, each session is whole: the record of some save, all of  *)
(* it, or the one before it (Store.Save, Rename, Delete).                  *)
StoreRefinement == Records!RecordsSpec

(* A listing has every session that was there all the time it took and     *)
(* whose file the system let it read, however many saves and renames       *)
(* replaced that file meanwhile (List, Load).                              *)
ListIsComplete ==
    \A p \in Program :
        prog[p].pc = "list" => prog[p].stayed \subseteq prog[p].got \cup prog[p].todo
=============================================================================

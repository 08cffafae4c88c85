------------------------------ MODULE FileOps ------------------------------
(***************************************************************************)
(* The file actions of a plan: Executor.ExecuteStep                        *)
(* (internal/agent/executor.go) over the checked operations of the sandbox *)
(* (internal/sandbox).                                                      *)
(*                                                                         *)
(* One step of a plan at a time is executed.  It is accepted or refused by *)
(* its checks, and then makes its system calls one by one: each of them    *)
(* may fail, and the program may be ended between two of them.             *)
(*                                                                         *)
(* A path is the sequence of its names below the root of the workspace.    *)
(* The content of a file is an abstract datum; a file that was created or  *)
(* truncated and not yet written is cut.  The tree has no symbolic links,  *)
(* so that resolving a path of the workspace gives the path itself; what   *)
(* an allowed external command does to the tree is left out, and so are    *)
(* names refused on Windows.                                               *)
(***************************************************************************)
EXTENDS Naturals, Sequences, SequencesExt

CONSTANTS
    Path,          \* paths a step may name, closed under non-empty prefixes
    FirstTree,     \* the workspace at the start
    Protected,     \* paths no step may touch by name (sandbox/protected.go)
    Denied,        \* paths that match a denied pattern of the configuration
    ReadOnlyDirs,  \* directories of the configuration that are not written
    Mounts,        \* directories of the tree that are other file systems
    Sources,       \* bound: the lists of files a step may ask to merge
    Part,          \* name of the file that stands for the parts of a split PDF
    MaxSteps       \* bound: steps executed

Absent == [kind |-> "absent", data |-> "none"]
Dir == [kind |-> "dir", data |-> "none"]
Whole(d) == [kind |-> "file", data |-> d]
Cut(d) == [kind |-> "cut", data |-> d]

FirstData == {FirstTree[p].data : p \in {q \in Path : FirstTree[q].kind = "file"}}
Data == FirstData \cup {"written", "merged", "part"}
Node == [kind : {"file", "cut"}, data : Data] \cup {Absent, Dir, Cut("none")}

Root == <<>>
Outside == <<"..">>          \* a path that leaves the workspace
Request == Path \cup {Outside}

(* Paths are sequences of names and have all their prefixes; the first     *)
(* tree is nested, and what is mounted is a directory.  A pattern "dir/*"  *)
(* protects what is in the directory and the directory; no other pattern   *)
(* has the name of a part.                                                 *)
ASSUME FileOpsAssumption ==
    /\ Path \subseteq Seq(STRING) /\ Root \notin Path /\ Outside \notin Path
    /\ \A p \in Path : \A n \in 1 .. Len(p) : SubSeq(p, 1, n) \in Path
    /\ FirstTree \in [Path -> Node]
    /\ \A p, q \in Path :
          IsStrictPrefix(p, q) /\ FirstTree[q] # Absent => FirstTree[p] = Dir
    /\ Protected \cup Denied \cup ReadOnlyDirs \cup Mounts \subseteq Path
    /\ \A m \in Mounts : FirstTree[m] = Dir
    /\ Part \in STRING
    /\ \A p \in Protected : Last(p) = Part => Front(p) \in Protected
    /\ Sources \subseteq Seq(Request) \ {<<>>}
    /\ MaxSteps \in Nat

VARIABLES
    tree,    \* the files and directories of the workspace
    step,    \* the step being executed, or the last one with its result
    count,   \* steps executed so far
    given    \* history: data of files that a step was to remove or replace

fileVars == <<tree, step, count, given>>

-----------------------------------------------------------------------------
(* The tree and what the operating system does with it.                     *)

Below == [d \in Request \cup {Root} |-> {p \in Path : IsPrefix(d, p)}]
Under(d) == Below[d]
Exists(p) == p = Root \/ tree[p].kind # "absent"
IsDir(p) == p = Root \/ tree[p].kind = "dir"
IsFile(p) == p \in Path /\ tree[p].kind \in {"file", "cut"}
Ancestors(p) == {Root} \cup {q \in Path : IsStrictPrefix(q, p)}

(* os.Create and the opening of os.WriteFile. *)
CanCreate(p) == IsDir(Front(p)) /\ ~IsDir(p)

SameDevice(p, q) ==
    \A m \in Mounts : /\ IsPrefix(m, p) = IsPrefix(m, q)
                      /\ ~IsPrefix(p, m)

(* os.Rename: an existing directory is never replaced. *)
CanRename(p, q) ==
    /\ Exists(p) /\ SameDevice(p, q)
    /\ IsDir(Front(q)) /\ ~IsDir(q)
    /\ IsDir(p) => ~Exists(q) /\ ~IsPrefix(p, q)

(* Where a path below src is once src has become dst. *)
Moved(p, src, dst) == dst \o SubSeq(p, Len(src) + 1, Len(p))

(* Bound: a directory is moved only where the model has names for its      *)
(* files.                                                                  *)
Fits(src, dst) ==
    \A p \in Under(src) : Exists(p) => Moved(p, src, dst) \in Path

Renamed(src, dst) ==
    [p \in Path |->
        IF p \in Under(dst) /\ Moved(p, dst, src) \in Path
        THEN tree[Moved(p, dst, src)]
        ELSE IF p \in Under(src) \cup Under(dst) THEN Absent ELSE tree[p]]

-----------------------------------------------------------------------------
(* Checks that come before the system calls.                                *)

(* Executor.resolvePath: the path stays in the workspace. *)
ResolvePath(p) == p # Outside

(* resolveAndCheckProtected *)
CheckProtected(p) == p \notin Protected

(* The file a copy or a move writes when its destination is a directory. *)
Into(dst, src) == IF IsDir(dst) THEN Append(dst, Last(src)) ELSE dst

(* Mutation: only the source is checked. *)
DestUnchecked(dst, src) == TRUE

(* resolveDestProtected *)
DestProtected(dst, src) == Into(dst, src) \in Path => CheckProtected(Into(dst, src))

IsReadOnly(p) == \E r \in ReadOnlyDirs : p \in Under(r)
ValidatePath(p) == p \notin Denied
ValidateWritePath(p) == ValidatePath(p) /\ ~IsReadOnly(p)

-----------------------------------------------------------------------------
(* The steps.  step.pc is the next system call: "mkdir" makes missing      *)
(* directories, "open" creates or truncates step.dst, "fill" writes it and *)
(* closes it, "read" reads step.src for a move, "remove" removes it,       *)
(* "unlink" removes what is below it, "convert" is the PDF library's.      *)

Idle ==
    [act |-> "inspect", src |-> Root, dst |-> Root, more |-> {}, pc |-> "end",
     data |-> Absent, res |-> "ok", was |-> FirstTree]

FilesInit ==
    /\ tree = FirstTree
    /\ step = Idle
    /\ count = 0
    /\ given = {}

ContentOf(P) == {tree[p].data : p \in {q \in P : tree[q].kind = "file"}}

(* A step is taken up: refused by its checks, or left before the system    *)
(* call pc.  It was asked to remove or to replace what is in hit.          *)
Begin(act, src, dst, more, pc, checked, hit) ==
    /\ step.pc = "end" /\ count < MaxSteps
    /\ count' = count + 1
    /\ step' = IF checked
               THEN [act |-> act, src |-> src, dst |-> dst, more |-> more,
                     pc |-> pc, data |-> Absent, was |-> tree,
                     res |-> IF pc = "end" THEN "ok" ELSE "running"]
               ELSE [Idle EXCEPT !.res = "error"]
    /\ given' = IF checked THEN given \cup ContentOf(hit) ELSE given
    /\ UNCHANGED tree

(* read, stat, hash and list, and run_command, of which the model only has *)
(* the checks: allowed says that the command and its arguments are.        *)
Inspect(p) ==
    Begin("inspect", p, Root, {}, "end",
          ResolvePath(p) /\ CheckProtected(p) /\ ValidatePath(p) /\ Exists(p), {})

RunCommand(allowed) == Begin("run", Root, Root, {}, "end", allowed, {})

(* small: the content is at most maxWriteContentBytes long *)
Write(p, small) ==
    Begin("write", Root, p, {}, "mkdir",
          ResolvePath(p) /\ CheckProtected(p) /\ small, {p})

Mkdir(p) ==
    Begin("mkdir", Root, p, {}, "mkdir", ResolvePath(p) /\ CheckProtected(p), {})

(* DeletePath(path, true) *)
Delete(p) ==
    Begin("delete", p, Root, {}, "unlink",
          /\ ResolvePath(p) /\ CheckProtected(p)
          /\ ValidatePath(p) /\ ~IsReadOnly(p) /\ Exists(p),
          Under(p))

Known(src, dst) == {src, dst} \subseteq Path => Into(dst, src) \in Path

(* CopyFile: into a directory, and never over an existing file. *)
CopyAllowed(src, dst) ==
    /\ ValidatePath(src) /\ ValidateWritePath(dst)
    /\ ValidateWritePath(Into(dst, src))
    /\ ~Exists(Into(dst, src))
    /\ Exists(src)

Copy(src, dst) ==
    /\ Known(src, dst)
    /\ Begin("copy", src, IF dst = Outside THEN dst ELSE Into(dst, src), {}, "open",
             /\ ResolvePath(src) /\ ResolvePath(dst)
             /\ CheckProtected(src) /\ DestProtected(dst, src)
             /\ CopyAllowed(src, dst),
             {})

Move(src, dst) ==
    /\ Known(src, dst) /\ Fits(src, dst)
    /\ Begin("move", src, dst, {}, "rename",
             /\ ResolvePath(src) /\ ResolvePath(dst)
             /\ CheckProtected(src) /\ DestProtected(dst, src)
             /\ ValidateWritePath(src) /\ ValidateWritePath(dst),
             {dst} \ {src})

Rename(src, dst) ==
    /\ Fits(src, dst)
    /\ Begin("rename", src, dst, {}, "rename",
             /\ ResolvePath(src) /\ ResolvePath(dst)
             /\ CheckProtected(src) /\ CheckProtected(dst)
             /\ ValidateWritePath(src) /\ ValidateWritePath(dst),
             {dst} \ {src})

(* The sources are read after the directory of the destination is made. *)
MergePDF(sources, dst) ==
    /\ \A p \in Range(sources) : Known(p, dst)
    /\ Begin("merge", sources[1], dst, Range(sources), "mkdir",
             /\ Len(sources) >= 2 /\ ResolvePath(dst)
             /\ \A p \in Range(sources) : ResolvePath(p) /\ CheckProtected(p)
             /\ DestProtected(dst, sources[1]),
             {dst})

SplitPDF(src, dst) ==
    /\ Append(dst, Part) \in Path \/ dst = Outside
    /\ Begin("split", src, dst, {}, "mkdir",
             /\ ResolvePath(src) /\ ResolvePath(dst)
             /\ CheckProtected(src) /\ CheckProtected(dst),
             Path \cap {Append(dst, Part)})

-----------------------------------------------------------------------------
(* The system calls of a step.                                              *)

Advance(pc) == step' = [step EXCEPT !.pc = pc]
Finish(res) ==
    step' = IF res = "ok" THEN [step EXCEPT !.pc = "end", !.res = "ok"]
                          ELSE [Idle EXCEPT !.res = res]
Keep == UNCHANGED <<count, given>>

MkdirTarget ==
    IF step.act \in {"write", "merge"} THEN Front(step.dst) ELSE step.dst

Missing == {q \in {MkdirTarget} \cup Ancestors(MkdirTarget) : ~IsDir(q)}

(* Sandbox.MkdirAll, one directory at a time *)
MkdirCall ==
    /\ step.pc = "mkdir"
    /\ \/ /\ ~ValidateWritePath(MkdirTarget)
          /\ Finish("error") /\ UNCHANGED tree
       \/ /\ ValidateWritePath(MkdirTarget) /\ Missing = {}
          /\ CASE step.act = "mkdir" -> Finish("ok")
               [] step.act = "write" -> Advance("open")
               [] OTHER -> Advance("convert")
          /\ UNCHANGED tree
       \/ /\ ValidateWritePath(MkdirTarget)
          /\ \E q \in Missing :
                /\ \A r \in Missing : IsPrefix(q, r)
                /\ IF Exists(q)
                   THEN Finish("error") /\ UNCHANGED tree
                   ELSE tree' = [tree EXCEPT ![q] = Dir] /\ UNCHANGED step
    /\ Keep

(* What the step writes to its destination. *)
Contents ==
    CASE step.act = "write" -> Whole("written")
      [] step.act = "copy" -> tree[step.src]
      [] step.act = "move" -> step.data
      [] step.act = "merge" -> Whole("merged")
      [] step.act = "split" -> Whole("part")

OpenCall ==
    /\ step.pc = "open"
    /\ IF /\ CanCreate(step.dst)
          /\ step.act = "write" => ValidateWritePath(step.dst)
       THEN /\ tree' = [tree EXCEPT ![step.dst] = Cut(Contents.data)]
            /\ Advance("fill")
       ELSE Finish("error") /\ UNCHANGED tree
    /\ Keep

(* Mutation: a move that had to copy ends with the copy. *)
FillIsTheEnd ==
    /\ step.pc = "fill"
    /\ IF step.act = "copy" /\ ~IsFile(step.src)
       THEN Finish("error") /\ UNCHANGED tree
       ELSE tree' = [tree EXCEPT ![step.dst] = Contents] /\ Finish("ok")
    /\ Keep

(* A directory can be opened for a copy, but not read.  A copy does not    *)
(* look at what closing the file it wrote returns: a system that tells     *)
(* only then that it could not keep what was written is left out.          *)
FillCall ==
    /\ step.pc = "fill"
    /\ IF step.act = "copy" /\ ~IsFile(step.src)
       THEN Finish("error") /\ UNCHANGED tree
       ELSE /\ tree' = [tree EXCEPT ![step.dst] = Contents]
            /\ IF step.act = "move" THEN Advance("remove") ELSE Finish("ok")
    /\ Keep

(* A move falls back on reading and writing whatever the rename failed of. *)
RenameFailed == IF step.act = "move" THEN Advance("read") ELSE Finish("error")

RenameCall ==
    /\ step.pc = "rename"
    /\ IF CanRename(step.src, step.dst)
       THEN tree' = Renamed(step.src, step.dst) /\ Finish("ok")
       ELSE RenameFailed /\ UNCHANGED tree
    /\ Keep

(* Mutation: the source goes as soon as it is read. *)
ReadAndRemove ==
    /\ step.pc = "read"
    /\ IF IsFile(step.src)
       THEN /\ step' = [step EXCEPT !.pc = "open", !.data = tree[step.src]]
            /\ tree' = [tree EXCEPT ![step.src] = Absent]
       ELSE Finish("error") /\ UNCHANGED tree
    /\ Keep

ReadCall ==
    /\ step.pc = "read"
    /\ IF IsFile(step.src)
       THEN step' = [step EXCEPT !.pc = "open", !.data = tree[step.src]]
       ELSE Finish("error")
    /\ UNCHANGED tree /\ Keep

RemoveCall ==
    /\ step.pc = "remove"
    /\ tree' = [tree EXCEPT ![step.src] = Absent]
    /\ Finish("ok")
    /\ Keep

(* os.RemoveAll: files and empty directories in any order, a mounted file  *)
(* system never.                                                           *)
UnlinkCall ==
    /\ step.pc = "unlink"
    /\ \E p \in Under(step.src) \ Mounts :
          /\ Exists(p)
          /\ \A q \in Under(p) \ {p} : ~Exists(q)
          /\ tree' = [tree EXCEPT ![p] = Absent]
          /\ IF p = step.src THEN Finish("ok") ELSE UNCHANGED step
    /\ Keep

ConvertCall ==
    LET target == IF step.act = "split" THEN Append(step.dst, Part) ELSE step.dst
    IN /\ step.pc = "convert"
       /\ IF /\ \A p \in {step.src} \cup step.more : IsFile(p)
             /\ CanCreate(target)
          THEN /\ tree' = [tree EXCEPT ![target] = Cut(Contents.data)]
               /\ step' = [step EXCEPT !.pc = "fill", !.dst = target]
          ELSE Finish("error") /\ UNCHANGED tree
       /\ Keep

(* A system call fails; the renaming of a path to itself does nothing. *)
CallFails ==
    /\ step.pc # "end"
    /\ IF step.pc = "rename" THEN step.src # step.dst /\ RenameFailed
                             ELSE Finish("error")
    /\ UNCHANGED tree /\ Keep

(* The program ends in the middle of a step. *)
Killed == step.pc # "end" /\ Finish("killed") /\ UNCHANGED tree /\ Keep

SystemCall ==
    \/ MkdirCall \/ OpenCall \/ FillCall \/ RenameCall \/ ReadCall
    \/ RemoveCall \/ UnlinkCall \/ ConvertCall \/ CallFails \/ Killed

Accept ==
    \/ \E p \in Request : Inspect(p) \/ Mkdir(p) \/ Delete(p)
    \/ \E p \in Request, small \in BOOLEAN : Write(p, small)
    \/ \E p, q \in Request :
          \/ Copy(p, q) \/ Move(p, q) \/ Rename(p, q) \/ SplitPDF(p, q)
    \/ \E s \in Sources, q \in Request : MergePDF(s, q)
    \/ \E allowed \in BOOLEAN : RunCommand(allowed)

FilesNext == Accept \/ SystemCall

FilesSpec == FilesInit /\ [][FilesNext]_fileVars

-----------------------------------------------------------------------------
FilesTypeOK ==
    /\ tree \in [Path -> Node]
    /\ \A p \in Path : Exists(p) => IsDir(Front(p))
    /\ step.pc \in {"mkdir", "open", "fill", "rename", "read", "remove",
                    "unlink", "convert", "end"}
    /\ step.res \in {"running", "ok", "error", "killed"}
    /\ (step.res = "running") = (step.pc # "end")
    /\ count \in 0 .. MaxSteps
    /\ given \subseteq Data

(* What a file held at the start is still in the workspace, unless a step  *)
(* was asked to remove or replace it: a move that has to copy, a copy and  *)
(* a retried step lose nothing, whichever of their system calls fails and  *)
(* wherever the program ends (MoveFile, CopyFile, DeletePath).             *)
NothingLost ==
    \A d \in FirstData \ given : \E p \in Path : tree[p] = Whole(d)

(* A step that reports success has done the whole of what it says, and has *)
(* left every other path alone, but for directories it had to make.  (Not  *)
(* of a copy whose file fails to close, see FillCall.)                     *)
Done ==
    LET src == step.src
        dst == step.dst
        was == step.was
    IN CASE step.act \in {"inspect", "run"} -> TRUE
         [] step.act = "mkdir" -> IsDir(dst)
         [] step.act = "delete" -> \A p \in Under(src) : ~Exists(p)
         [] step.act = "copy" -> tree[dst] = was[src] /\ tree[src] = was[src]
         [] step.act \in {"move", "rename"} ->
                \A p \in Under(src) :
                    /\ was[p] # Absent => tree[Moved(p, src, dst)] = was[p]
                    /\ src # dst => ~Exists(p)
         [] step.act \in {"write", "merge", "split"} -> tree[dst] = Contents

Touched ==
    CASE step.act \in {"inspect", "run"} -> {}
      [] step.act = "delete" -> Under(step.src)
      [] step.act \in {"move", "rename"} -> Under(step.src) \cup Under(step.dst)
      [] OTHER -> {step.dst}

SuccessMeansDone ==
    step.res = "ok" =>
        /\ Done
        /\ \A p \in Path \ Touched :
              tree[p] = step.was[p]
              \/ (step.was[p] = Absent /\ IsStrictPrefix(p, step.dst) /\ tree[p] = Dir)

(* A protected file, and a file below a read-only directory, keeps what it *)
(* holds: it can only go with a whole directory above it that a step       *)
(* removes or moves (sandbox/protected.go, isReadOnlyDir).                 *)
Kept(p) == p \in Protected \/ \E r \in ReadOnlyDirs : IsStrictPrefix(r, p)

BarredStays ==
    [][\A p \in Path :
          Kept(p) /\ IsFile(p) /\ tree'[p] # tree[p] =>
             /\ tree'[p] = Absent
             /\ step.act \in {"delete", "move", "rename"}
             /\ IsStrictPrefix(step.src, p)]_fileVars

=============================================================================

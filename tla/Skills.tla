------------------------------- MODULE Skills -------------------------------
(***************************************************************************)
(* The skills a run may use (internal/skill): the store is filled from the *)
(* program itself and then from directories in their order, a later file   *)
(* overriding what an earlier one of its name said, and a command is       *)
(* matched against what is left.                                           *)
(*                                                                         *)
(* A name is a number, in alphabetical order.  Of a text only how many of  *)
(* its words a command has is kept (fit), for one command.  Left out are   *)
(* forced skills, which nothing that runs sets, and where a skill says it  *)
(* is from.                                                                *)
(***************************************************************************)
EXTENDS Naturals, Sequences, SequencesExt, FiniteSets

CONSTANTS
    SkillName,    \* names, numbers above 0
    SkillDirs,    \* number of directories configured, in their order
    SkillFiles,   \* bound: the files SKILL.md there can be
    MaxFiles      \* bound: files read

(* A file: the directory it lies in, the name and the mode of its front    *)
(* matter, 0 if there is no name, and whether that can be read at all.     *)
SkillFile == [parent : SkillName, head : {"good", "bad", "empty file"},
              name : SkillName \cup {0}, auto : BOOLEAN, fit : Nat]

ASSUME SkillsAssumption ==
    /\ SkillName \subseteq Nat \ {0}
    /\ SkillDirs \in Nat
    /\ SkillFiles \subseteq SkillFile
    /\ MaxFiles \in Nat

VARIABLES
    skills,    \* Store.skills, in the order they were found first
    loading,   \* the source that is read: 0 for the program, then the
               \* directories; above them the store is in use
    matched,   \* the skills of the command, before it is matched <<>>
    usable     \* every skill read from a file, in order (an observer)

skillVars == <<skills, loading, matched, usable>>

SkillsInit ==
    skills = <<>> /\ loading = 0 /\ matched = <<>> /\ usable = <<>>

(* parseFrontMatter: front matter that cannot be read, or is not there,    *)
(* says nothing, so that the skill has its directory's name and is not     *)
(* triggered by a command.                                                 *)
Parsed(f) ==
    [name |-> IF f.head # "good" \/ f.name = 0 THEN f.parent ELSE f.name,
     auto |-> f.head = "good" /\ f.auto,
     fit |-> f.fit]

(* Mutation: a skill is added whether there is one of its name or not. *)
Added(sk) == Append(skills, sk)

(* A skill takes the place of the one of its name. *)
Upsert(sk) ==
    IF \E i \in DOMAIN skills : skills[i].name = sk.name
    THEN [i \in DOMAIN skills |-> IF skills[i].name = sk.name THEN sk ELSE skills[i]]
    ELSE Append(skills, sk)

(* An empty file in a directory is passed over. *)
LoadFile(f) ==
    /\ loading <= SkillDirs /\ Len(usable) < MaxFiles
    /\ IF f.head = "empty file" /\ loading > 0
       THEN UNCHANGED <<skills, usable>>
       ELSE skills' = Upsert(Parsed(f)) /\ usable' = Append(usable, Parsed(f))
    /\ UNCHANGED <<loading, matched>>

(* The walk of a source ends: it is not there, it has no more files, or an *)
(* entry cannot be read and the rest of it is left out.                    *)
WalkEnds ==
    /\ loading <= SkillDirs
    /\ loading' = loading + 1
    /\ UNCHANGED <<skills, matched, usable>>

(* MatchScored: the skills a command triggers, the best first. *)
Better(a, b) == a.fit > b.fit \/ (a.fit = b.fit /\ a.name < b.name)

(* A skill is placed after those it is not better than. *)
Placed(sorted, sk) ==
    InsertAt(sorted, Cardinality({i \in DOMAIN sorted : ~Better(sk, sorted[i])}) + 1, sk)

(* The first n skills, those that are triggered, sorted. *)
MatchUpTo ==
    LET best[n \in 0 .. Len(skills)] ==
            IF n = 0 THEN <<>>
            ELSE IF skills[n].auto /\ skills[n].fit > 0 THEN Placed(best[n - 1], skills[n])
            ELSE best[n - 1]
    IN best

Match == MatchUpTo[Len(skills)]

MatchCommand ==
    /\ loading = SkillDirs + 1
    /\ matched' = Match
    /\ loading' = loading + 1
    /\ UNCHANGED <<skills, usable>>

SkillsNext ==
    \/ \E f \in SkillFiles : LoadFile(f)
    \/ WalkEnds
    \/ MatchCommand

SkillsSpec == SkillsInit /\ [][SkillsNext]_skillVars

-----------------------------------------------------------------------------
Skill == [name : SkillName, auto : BOOLEAN, fit : Nat]

SkillsTypeOK ==
    /\ {skills, matched, usable} \subseteq Seq(Skill)
    /\ loading \in 0 .. SkillDirs + 2

(* A command gets exactly the skills whose last file, of all the sources   *)
(* that were read, is triggered by it, each once: an overridden skill is   *)
(* never used, not even where the one that overrides it is not triggered   *)
(* (LoadAll, LoadEmbedded, Upsert, Match).                                 *)
LatestIsMatched ==
    LET last == {i \in DOMAIN usable :
                    \A j \in DOMAIN usable : usable[j].name = usable[i].name => j <= i}
        triggered == {i \in last : usable[i].auto /\ usable[i].fit > 0}
    IN loading = SkillDirs + 2 =>
          /\ ToSet(matched) = {usable[i] : i \in triggered}
          /\ Len(matched) = Cardinality(triggered)
=============================================================================

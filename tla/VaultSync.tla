------------------------------- MODULE VaultSync -------------------------------
(***************************************************************************)
(* ObsidianSyncService next to the user of the vault.  A run prepares the      *)
(* vault before it begins; whenever a phase or the milestone completes, the   *)
(* pipeline calls a synchronisation and nothing waits for it, so that several *)
(* of them, and the preparations of other runs, are under way together.       *)
(*                                                                         *)
(* Each is a list of files to write, one await after the other.  Some are      *)
(* written anew every time, some are copies of the workspace's, and some are  *)
(* stubs that belong to the user once they exist.  Only what becomes of those *)
(* is kept: nothing reads the others.                                        *)
(***************************************************************************)
EXTENDS Naturals, Sequences, SequencesExt

CONSTANTS
  PhaseContexts, \* the CONTEXT.md of each phase that has a row in the database
  Writers,       \* preparations and synchronisations that may overlap
  MaxEdits       \* bound: edits of the user

ASSUME VaultAssumption == IsFiniteSet(PhaseContexts) /\ MaxEdits \in Nat

VARIABLES
  vault,     \* what is in each file of the user: nothing, or whose work
  writer,    \* the writes that each writer still has before it
  edits,     \* how many edits the user has made
  safeEdits  \* history: files edited while nobody was about to write them

vaultVars == <<vault, writer, edits, safeEdits>>

----------------------------------------------------------------------------
\* A write of a file, always, as a copy when the workspace has the file, or only
\* when the vault has it not.  What fails ends the writes of its group, which
\* are those of one try block.
Write(file, how, group) == [file |-> file, how |-> how, group |-> group]

PrepareVault ==
  <<Write("RULES-AND-CONVENTIONS", "stub", 1), Write("index", "stub", 1),
    Write("Templates", "stub", 2)>>

SyncVault ==
  <<Write("MOC", "always", 1), Write("ROADMAP", "copy", 1), Write("STATE", "copy", 1),
    Write("REQUIREMENTS", "stub", 1), Write("CONFIG", "always", 1),
    Write("README", "stub", 1)>>
    \o SetToSeq({Write(c, "stub", 1) : c \in PhaseContexts})
    \o <<Write("index", "always", 2), Write("metrics", "always", 3)>>

AllWrites == ToSet(PrepareVault) \cup ToSet(SyncVault)
VaultFiles == {w.file : w \in AllWrites}

\* The files that the service leaves alone once they are there.
UserFiles == {f \in VaultFiles : \A w \in AllWrites : w.file = f => w.how = "stub"}

VaultInit ==
  /\ vault = [f \in UserFiles |-> "absent"]
  /\ writer = [s \in Writers |-> [todo |-> <<>>, looked |-> FALSE]]
  /\ edits = 0 /\ safeEdits = {}

Busy(s) == writer[s].todo # <<>>
Current(s) == Head(writer[s].todo)
Written(f) == IF f \in UserFiles THEN [vault EXCEPT ![f] = "service"] ELSE vault
GoTo(s, todo) == writer' = [writer EXCEPT ![s] = [todo |-> todo, looked |-> FALSE]]

----------------------------------------------------------------------------
BeginWrites(s) ==
  /\ ~Busy(s)
  /\ \E todo \in {PrepareVault, SyncVault} : GoTo(s, todo)
  /\ UNCHANGED <<vault, edits, safeEdits>>

\* Mutant: the file is not looked for.
LookFor_Never(s) ==
  /\ Busy(s) /\ Current(s).how # "always" /\ ~writer[s].looked
  /\ writer' = [writer EXCEPT ![s].looked = TRUE]
  /\ UNCHANGED <<vault, edits, safeEdits>>

\* The file that is looked for is the vault's or, for a copy, one that the
\* workspace may or may not have.  (The index is of no user.)
Absent(w) == w.file \in UserFiles => vault[w.file] = "absent"
Present(w) == w.file \in UserFiles => vault[w.file] # "absent"

\* fileExists, before a stub is written (of the vault's file) and before a copy
\* (of the workspace's).
LookFor(s) ==
  /\ Busy(s) /\ Current(s).how # "always" /\ ~writer[s].looked
  /\ \/ /\ Absent(Current(s))
        /\ writer' = [writer EXCEPT ![s].looked = TRUE]
     \/ /\ Present(Current(s))
        /\ GoTo(s, Tail(writer[s].todo))
  /\ UNCHANGED <<vault, edits, safeEdits>>

\* writeFile or copyFile: what is there by then is gone.
WriteFile(s) ==
  /\ Busy(s) /\ (Current(s).how = "always" \/ writer[s].looked)
  /\ vault' = Written(Current(s).file)
  /\ GoTo(s, Tail(writer[s].todo))
  /\ UNCHANGED <<edits, safeEdits>>

\* An error of the file system or the database; a write may have emptied the
\* file by then.
WritesFail(s) ==
  /\ Busy(s)
  /\ LET todo == writer[s].todo
         InGroup(i) == todo[i].group = Current(s).group
     IN \E k \in 1..Len(todo) + 1 :   \* the first write of the next group
          /\ \A i \in 1..k - 1 : InGroup(i)
          /\ k <= Len(todo) => ~InGroup(k)
          /\ GoTo(s, SubSeq(todo, k, Len(todo)))
  /\ vault' \in {vault} \cup (IF writer[s].looked THEN {Written(Current(s).file)} ELSE {})
  /\ UNCHANGED <<edits, safeEdits>>

AboutToWrite(f) == \E s \in Writers : Busy(s) /\ writer[s].looked /\ Current(s).file = f

UserWrites(f) ==
  /\ edits < MaxEdits /\ edits' = edits + 1
  /\ vault' = [vault EXCEPT ![f] = "user"]
  /\ safeEdits' = IF AboutToWrite(f) THEN safeEdits \ {f} ELSE safeEdits \cup {f}
  /\ UNCHANGED writer

UserDeletes(f) ==
  /\ edits < MaxEdits /\ edits' = edits + 1
  /\ vault' = [vault EXCEPT ![f] = "absent"]
  /\ safeEdits' = safeEdits \ {f}
  /\ UNCHANGED writer

VaultNext ==
  \/ \E s \in Writers : BeginWrites(s) \/ LookFor(s) \/ WriteFile(s) \/ WritesFail(s)
  \/ \E f \in UserFiles : UserWrites(f) \/ UserDeletes(f)

VaultSpec == VaultInit /\ [][VaultNext]_vaultVars

----------------------------------------------------------------------------
\* Every variable keeps its type.
VaultTypeOK ==
  /\ vault \in [UserFiles -> {"absent", "service", "user"}]
  /\ \A s \in Writers : writer[s].looked \in BOOLEAN /\ ToSet(writer[s].todo) \subseteq AllWrites
  /\ edits \in 0..MaxEdits /\ safeEdits \subseteq UserFiles

\* What the user has written into the rules, a template, the requirements, the
\* README or the context of a phase is never written over, by however many
\* synchronisations, failed ones included; unless it was written in the moment
\* between the look of one of them for the file and its write.
UserEditIsKept == \A f \in UserFiles : f \in safeEdits => vault[f] = "user"
=============================================================================

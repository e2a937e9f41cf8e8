----------------------------- MODULE FileTools -----------------------------
(***************************************************************************)
(* The file tools of one workspace: read_file, edit_file and write_file on *)
(* one path "d/f", called by several sessions at once while the user's own *)
(* programs write the same file and may replace the directory d by a link  *)
(* that leads out of the workspace.  Every system call of a tool is a step *)
(* of its own.  Sources:                                                   *)
(*   crates/latte-engine/src/tools.rs      prepare, execute, require_fresh *)
(*   crates/latte-engine/src/workspace.rs  path checks, atomic_replace     *)
(*   crates/latte-engine/src/policy.rs     decide                          *)
(* A content is named by a number that is never used twice, so a digest    *)
(* stands for exactly one content; 0 is a missing file.                    *)
(***************************************************************************)
EXTENDS Naturals, FiniteSets

CONSTANTS
    Callers,      \* the sessions that call tools in this workspace
    MaxContents   \* bound on the contents ever written

VARIABLES
    parentDir,    \* what the name d is: a directory, or a link out of the workspace
    inside,       \* the content of f in the directory of the workspace
    outside,      \* the content of f where the link leads
    written,      \* the contents made so far
    byTools,      \* those of them that the tools wrote
    temps,        \* temporary files in the directory, by the caller that made them
    fileCall,     \* the tool call each session is in
    told,         \* what each session was last told: a content and a digest
    denyGlob      \* whether a deny pattern of the policy matches the path

fileVars == <<parentDir, inside, outside, written, byTools, temps, fileCall, told, denyGlob>>

Operation == {"read", "edit", "overwrite", "create"}

NoCall == [op |-> "none", at |-> "idle", pre |-> 0, base |-> 0, handle |-> "none", since |-> {}]

Told == [content |-> 0, digest |-> 0]

Fresh == written + 1

(* What the path d/f leads to for a call that follows links. *)
AtPath == IF parentDir = "link" THEN outside ELSE inside

----------------------------------------------------------------------------
FileInit ==
    /\ parentDir = "directory"
    /\ inside \in {0, 1}
    /\ outside = 2
    /\ written = 2
    /\ byTools = {}
    /\ temps = {}
    /\ fileCall = [c \in Callers |-> NoCall]
    /\ told = [c \in Callers |-> Told]
    /\ denyGlob \in BOOLEAN

(* A content the tools or the user put in place is seen by the calls that  *)
(* are past their freshness check as written since; a specification field. *)
WrittenSince(calls, v) ==
    [c \in Callers |-> IF calls[c].at \in {"checked", "based", "resolved", "opened", "staged"}
                       THEN [calls[c] EXCEPT !.since = @ \cup {v}] ELSE calls[c]]

Fail(c) ==
    /\ fileCall' = [fileCall EXCEPT ![c] = NoCall]
    /\ UNCHANGED <<parentDir, inside, outside, written, byTools, temps, told, denyGlob>>

Advance(c, at) ==
    /\ fileCall' = [fileCall EXCEPT ![c].at = at]
    /\ UNCHANGED <<parentDir, inside, outside, written, byTools, temps, told, denyGlob>>

(* WorkspacePath::mutation: no component of the path is a link, and only a *)
(* create may name a file that is missing.                                 *)
MayMutate(op) == parentDir = "directory" /\ (inside # 0 \/ op = "create")

(* WorkspacePath::read: the canonical path exists and lies in the root. *)
MayRead == parentDir = "directory" /\ inside # 0

(* prepare_for_engine: the path is checked, a modification needs the       *)
(* digest of a read, the policy denies, allows a read, and asks for the    *)
(* rest; the call stands for one the user allowed.                         *)
PrepareFile(c, op) ==
    /\ fileCall[c] = NoCall
    /\ ~ denyGlob
    /\ IF op = "read" THEN MayRead ELSE MayMutate(op)
    /\ op \in {"edit", "overwrite"} => told[c].digest # 0
    /\ fileCall' = [fileCall EXCEPT ![c] =
                       [NoCall EXCEPT !.op = op, !.at = "prepared",
                           !.pre = IF op \in {"edit", "overwrite"} THEN told[c].digest ELSE 0]]
    /\ UNCHANGED <<parentDir, inside, outside, written, byTools, temps, told, denyGlob>>

(* read_file: the bytes are read first ... *)
ReadBytes(c) ==
    /\ fileCall[c].op = "read" /\ fileCall[c].at = "prepared"
    /\ AtPath # 0
    /\ fileCall' = [fileCall EXCEPT ![c].at = "read", ![c].base = AtPath]
    /\ UNCHANGED <<parentDir, inside, outside, written, byTools, temps, told, denyGlob>>

(* ... and the file is read again for its digest. *)
ReadIdentity(c) ==
    /\ fileCall[c].at = "read"
    /\ AtPath # 0
    /\ told' = [told EXCEPT ![c] = [content |-> fileCall[c].base, digest |-> AtPath]]
    /\ fileCall' = [fileCall EXCEPT ![c] = NoCall]
    /\ UNCHANGED <<parentDir, inside, outside, written, byTools, temps, denyGlob>>

(* A fault, for comparison: the precondition is not compared. *)
FreshIfPresent(c) == fileCall[c].op # "create" => inside # 0

(* require_fresh: the digest the caller read is the digest of the file; a  *)
(* create, which has none, requires that the file is missing.              *)
FreshEnough(c) == inside = fileCall[c].pre

CheckFresh(c) ==
    /\ fileCall[c].op # "read" /\ fileCall[c].at = "prepared"
    /\ MayMutate(fileCall[c].op)
    /\ FreshEnough(c)
    /\ Advance(c, IF fileCall[c].op = "edit" THEN "checked" ELSE "based")

(* edit_file reads the content it edits after the check, and needs exactly *)
(* one match of the text it replaces.                                      *)
ReadBase(c) ==
    /\ fileCall[c].at = "checked"
    /\ AtPath # 0
    /\ fileCall' = [fileCall EXCEPT ![c].at = "based", ![c].base = AtPath]
    /\ UNCHANGED <<parentDir, inside, outside, written, byTools, temps, told, denyGlob>>

(* atomic_replace checks the path once more ... *)
ResolveTarget(c) ==
    /\ fileCall[c].at = "based"
    /\ MayMutate(fileCall[c].op)
    /\ Advance(c, "resolved")

(* A fault, for comparison: the parent is opened by its path, through the link. *)
OpenParentByPath(c) ==
    /\ fileCall[c].at = "resolved"
    /\ fileCall' = [fileCall EXCEPT ![c].at = "opened", ![c].handle = parentDir]
    /\ UNCHANGED <<parentDir, inside, outside, written, byTools, temps, told, denyGlob>>

(* ... and opens the parent relative to the handle of the root, which      *)
(* refuses a link that leads out of it.                                    *)
OpenParent(c) ==
    /\ fileCall[c].at = "resolved"
    /\ parentDir = "directory"
    /\ fileCall' = [fileCall EXCEPT ![c].at = "opened", ![c].handle = "directory"]
    /\ UNCHANGED <<parentDir, inside, outside, written, byTools, temps, told, denyGlob>>

(* The new content is written to a temporary file and synced. *)
StageTemp(c) ==
    /\ fileCall[c].at = "opened"
    /\ temps' = temps \cup {c}
    /\ fileCall' = [fileCall EXCEPT ![c].at = "staged"]
    /\ UNCHANGED <<parentDir, inside, outside, written, byTools, told, denyGlob>>

(* The rename puts it in place in the directory of the handle, whatever is *)
(* there now.                                                              *)
RenameTemp(c) ==
    /\ fileCall[c].at = "staged"
    /\ written < MaxContents
    /\ written' = Fresh
    /\ byTools' = byTools \cup {Fresh}
    /\ temps' = temps \ {c}
    /\ IF fileCall[c].handle = "directory"
       THEN inside' = Fresh /\ UNCHANGED outside
       ELSE outside' = Fresh /\ UNCHANGED inside
    /\ fileCall' = [WrittenSince(fileCall, Fresh) EXCEPT
                       ![c] = [fileCall[c] EXCEPT !.at = "renamed", !.base = Fresh]]
    /\ UNCHANGED <<parentDir, told, denyGlob>>

(* A failed write or rename removes the temporary file. *)
DropTemp(c) == temps \ {c}

FailReplace(c) ==
    /\ fileCall[c].at = "staged"
    /\ temps' = DropTemp(c)
    /\ fileCall' = [fileCall EXCEPT ![c] = NoCall]
    /\ UNCHANGED <<parentDir, inside, outside, written, byTools, told, denyGlob>>

(* The digest of the result is read back from the path. *)
ReportFile(c) ==
    /\ fileCall[c].at = "renamed"
    /\ AtPath # 0
    /\ told' = [told EXCEPT ![c] = [content |-> fileCall[c].base, digest |-> AtPath]]
    /\ fileCall' = [fileCall EXCEPT ![c] = NoCall]
    /\ UNCHANGED <<parentDir, inside, outside, written, byTools, temps, denyGlob>>

(* Any step before the temporary file may find its path, its file or its   *)
(* single match gone, and the call ends with an error.                     *)
FailCall(c) ==
    /\ fileCall[c].at \in {"prepared", "read", "checked", "based", "resolved", "renamed"}
    /\ \/ AtPath = 0
       \/ parentDir = "link"
       \/ fileCall[c].op # "read" /\ fileCall[c].at = "prepared" /\ ~ FreshEnough(c)
       \/ fileCall[c].at = "checked"
    /\ Fail(c)

(* The process of the tool dies. *)
LoseCaller(c) ==
    /\ fileCall[c].at # "idle"
    /\ fileCall' = [fileCall EXCEPT ![c] = [NoCall EXCEPT !.at = "dead"]]
    /\ UNCHANGED <<parentDir, inside, outside, written, byTools, temps, told, denyGlob>>

(* The user's programs save, delete, or replace the directory by a link    *)
(* and put it back.                                                        *)
UserSaves ==
    /\ written < MaxContents
    /\ written' = Fresh
    /\ inside' = Fresh
    /\ fileCall' = WrittenSince(fileCall, Fresh)
    /\ UNCHANGED <<parentDir, outside, byTools, temps, told, denyGlob>>

UserDeletes ==
    /\ inside # 0
    /\ inside' = 0
    /\ fileCall' = WrittenSince(fileCall, 0)
    /\ UNCHANGED <<parentDir, outside, written, byTools, temps, told, denyGlob>>

UserRelinks ==
    /\ parentDir' = IF parentDir = "link" THEN "directory" ELSE "link"
    /\ UNCHANGED <<inside, outside, written, byTools, temps, fileCall, told, denyGlob>>

ToolStep(c) ==
    \/ \E op \in Operation : PrepareFile(c, op)
    \/ ReadBytes(c) \/ ReadIdentity(c)
    \/ CheckFresh(c) \/ ReadBase(c)
    \/ ResolveTarget(c) \/ OpenParent(c) \/ StageTemp(c) \/ RenameTemp(c) \/ FailReplace(c)
    \/ ReportFile(c) \/ FailCall(c) \/ LoseCaller(c)

FileNext ==
    \/ \E c \in Callers : ToolStep(c)
    \/ UserSaves \/ UserDeletes \/ UserRelinks

FileSpec == FileInit /\ [][FileNext]_fileVars

----------------------------------------------------------------------------
(* Properties *)

(* A tool never writes outside of the workspace: the link may appear after *)
(* every check of the path, and the content outside is still never one     *)
(* that a tool made.                                                       *)
WritesStayInside == outside \notin byTools

(* A call replaces nothing but the content whose digest it was given, or   *)
(* one that was written after its freshness check: a change made before    *)
(* the check, by another session or the user, is never overwritten.        *)
OnlyTheWindowIsLost ==
    [][\A c \in Callers :
          fileCall[c].at = "staged" /\ fileCall'[c].at = "renamed" =>
              \/ inside = fileCall[c].pre
              \/ inside \in fileCall[c].since]_fileVars

(* A temporary file in the workspace belongs to a call that is about to    *)
(* rename it, or to a process that died.                                   *)
TempsAreOwned ==
    \A c \in temps : fileCall[c].at \in {"staged", "dead"}

(* The invariants of the file tools together.                              *)
FileToolsCorrect == WritesStayInside /\ TempsAreOwned
=============================================================================

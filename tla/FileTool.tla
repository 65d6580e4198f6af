------------------------------ MODULE FileTool ------------------------------
(***************************************************************************)
(* The file service of oxcer-core (fs.rs) and the read commands of the     *)
(* desktop app in front of it.  A request names a workspace (or the app's  *)
(* configuration) and a path below it; the path is canonicalised, must     *)
(* still be below the same directory and off the block list, and is then   *)
(* used for the system calls.  The write and the destructive commands      *)
(* reach the service through the router (see Approvals).                   *)
(*                                                                         *)
(* An entry stands for its lexical path, which can lie below several       *)
(* workspaces, one inside the other.  Directories are opaque: what is      *)
(* below them moves with them.  System calls can fail, and the application *)
(* can end between two of them.                                            *)
(***************************************************************************)
EXTENDS Policy

CONSTANTS
    Entry,      \* the paths requests can name and links can lead to
    Workspace,  \* the registered workspaces
    BasesOf,    \* the workspaces an entry lies below, and "app_config" if it does
    Blocked,    \* the entries on the block list of the file service
    Credentials, \* the entries on the path block list of the policy
    Contents,   \* what files hold
    TooLarge,   \* the contents over MAX_READ_BYTES
    Disks,      \* the disks the application can find
    MaxCalls    \* bound: requests served

VARIABLES
    disk,    \* the node at each entry
    mover,   \* fs_move between its copy and its removal
    answer,  \* what the last request was answered
    calls    \* requests served

fileVars == <<disk, mover, answer, calls>>

Absent == [kind |-> "absent"]
Directory == [kind |-> "dir"]
Holding(data) == [kind |-> "file", data |-> data]
LinkTo(entry) == [kind |-> "link", target |-> entry]
Part == "a part of what was to be written"

Node == {Absent, Directory}
          \union {Holding(data) : data \in Contents \union {Part}}
          \union {LinkTo(e) : e \in Entry}

\* No link leads to a link.
ASSUME DiskAssumption ==
    /\ Disks \subseteq [Entry -> Node]
    /\ \A d \in Disks, e \in Entry :
          d[e].kind = "link" => d[d[e].target].kind # "link"

Base == Workspace \union {"app_config"}

ASSUME BaseAssumption == BasesOf \in [Entry -> SUBSET Base]

ASSUME CallsAssumption == MaxCalls \in Nat

NoMove == [from |-> "nowhere"]
Answer(op, outcome) == [op |-> op, outcome |-> outcome]
Unanswered == Answer("none", "ok")
MoveAnswer(outcome, m) ==
    [op |-> "move", outcome |-> outcome, from |-> m.from, to |-> m.to, held |-> m.held]

FileInit ==
    /\ disk \in Disks
    /\ mover = NoMove
    /\ answer = Unanswered
    /\ calls = 0

-----------------------------------------------------------------------------
(* normalize_and_resolve and evaluate_path_policy *)

Canonical(e) == IF disk[e].kind = "link" THEN disk[e].target ELSE e

\* Fault: the canonical path is not compared with the base directory.
ResolveUnconfined(b, e) == IF disk[Canonical(e)] = Absent THEN "io" ELSE "none"

\* Only what exists can be canonicalised, and it must lie below the base of the request.
ResolveRefusal(b, e) ==
    IF disk[Canonical(e)] = Absent THEN "io"
    ELSE IF b \notin BasesOf[Canonical(e)] THEN "forbidden"
    ELSE "none"

PathRefusal(b, e) ==
    IF ResolveRefusal(b, e) # "none" THEN ResolveRefusal(b, e)
    ELSE IF Canonical(e) \in Blocked THEN "forbidden"
    ELSE "none"

\* Nothing is written in the name of the application's own configuration.
WriteRefusal(b, e) == IF b = "app_config" THEN "forbidden" ELSE PathRefusal(b, e)

\* What a request can name below the base b.
Under(b) == {e \in Entry : b \in BasesOf[e]}

-----------------------------------------------------------------------------
(* Reading *)

\* cmd_fs_list_dir and cmd_fs_read_file: the policy sees the canonical path.
ReadDenied(caller, e) ==
    Evaluate(DefaultRules,
             PolicyRequest(caller, "fs", "read",
                           IF Canonical(e) \in Credentials THEN {"credentials"} ELSE {})) = "deny"

ListDirOutcome(b, e) ==
    IF PathRefusal(b, e) # "none" THEN PathRefusal(b, e)
    ELSE IF disk[Canonical(e)].kind # "dir" THEN "not_directory"
    ELSE "ok"

ReadFileOutcome(b, e) ==
    IF PathRefusal(b, e) # "none" THEN PathRefusal(b, e)
    ELSE IF disk[Canonical(e)].kind # "file" THEN "invalid_path"
    ELSE IF disk[Canonical(e)].data \in TooLarge THEN "too_large"
    ELSE "ok"

Serve == mover = NoMove /\ calls < MaxCalls /\ calls' = calls + 1

ReadCommand(caller, b, e) ==
    /\ Serve
    /\ answer' \in
          IF ResolveRefusal(b, e) # "none" THEN {Answer("read", ResolveRefusal(b, e))}
          ELSE IF ReadDenied(caller, e) THEN {Answer("read", "policy_denied")}
          ELSE {Answer("read", ListDirOutcome(b, e)), Answer("read", ReadFileOutcome(b, e)),
                Answer("read", "io")}
    /\ UNCHANGED <<disk, mover>>

-----------------------------------------------------------------------------
(* Changing *)

\* A request that is refused, or whose first system call fails: nothing is changed.
RefuseFile(b, e) ==
    /\ Serve
    /\ \E outcome \in {WriteRefusal(b, e), "invalid_path", "workspace_not_found", "io"} \ {"none"} :
          answer' = Answer("refused", outcome)
    /\ UNCHANGED <<disk, mover>>

\* The file is truncated when it is opened; writing its contents can fail.
WriteFile(b, e, data) ==
    /\ WriteRefusal(b, e) = "none"
    /\ disk[Canonical(e)].kind = "file"
    /\ Serve
    /\ \/ /\ disk' = [disk EXCEPT ![Canonical(e)] = Holding(data)]
          /\ answer' = Answer("write", "ok")
       \/ /\ disk' = [disk EXCEPT ![Canonical(e)] = Holding(Part)]
          /\ answer' = Answer("write", "io")
    /\ UNCHANGED mover

RemoveFile(b, e) ==
    /\ WriteRefusal(b, e) = "none"
    /\ disk[Canonical(e)].kind = "file"
    /\ Serve
    /\ disk' = [disk EXCEPT ![Canonical(e)] = Absent]
    /\ answer' = Answer("delete", "ok")
    /\ UNCHANGED mover

\* rename(2): a file replaces a file, a directory an empty directory.
Rename(b, e, new) ==
    /\ WriteRefusal(b, e) = "none" /\ WriteRefusal(b, new) = "none"
    /\ disk[Canonical(e)].kind = disk[Canonical(new)].kind
    /\ Serve
    /\ disk' = IF Canonical(e) = Canonical(new) THEN disk
               ELSE [disk EXCEPT ![Canonical(new)] = disk[Canonical(e)],
                                 ![Canonical(e)] = Absent]
    /\ answer' = Answer("rename", "ok")
    /\ UNCHANGED mover

\* Fault: the source is removed before it is copied.
MoveRemoveFirst(b, e, to, dest) ==
    /\ PathRefusal(b, e) = "none" /\ PathRefusal(to, dest) = "none"
    /\ disk[Canonical(e)].kind = "file"
    /\ disk[Canonical(dest)].kind = "file"
    /\ Serve
    /\ mover' = [from |-> Canonical(e), to |-> Canonical(dest), held |-> disk[Canonical(e)].data]
    /\ disk' = [disk EXCEPT ![Canonical(e)] = Absent]
    /\ answer' = Unanswered

\* fs_move: the copy, which truncates its destination when it opens it.  The router only
\* hands it workspaces, on both sides.  held is what was to be moved.
MoveCopy(b, e, to, dest) ==
    /\ PathRefusal(b, e) = "none" /\ PathRefusal(to, dest) = "none"
    /\ disk[Canonical(e)].kind = "file"
    /\ disk[Canonical(dest)].kind = "file"
    /\ Serve
    /\ LET move == [from |-> Canonical(e), to |-> Canonical(dest),
                    held |-> disk[Canonical(e)].data] IN
       \/ /\ mover' = move
          /\ disk' = [disk EXCEPT ![move.to] =
                        IF move.to = move.from THEN Holding(Part) ELSE disk[move.from]]
          /\ answer' = Unanswered
       \/ /\ disk' = [disk EXCEPT ![move.to] = Holding(Part)]
          /\ answer' = MoveAnswer("io", move)
          /\ UNCHANGED mover

\* fs_move: the removal of the source, which can fail.
MoveRemove ==
    /\ mover # NoMove
    /\ \/ /\ disk' = [disk EXCEPT ![mover.from] = Absent]
          /\ answer' = MoveAnswer("ok", mover)
       \/ /\ answer' = MoveAnswer("io", mover)
          /\ UNCHANGED disk
    /\ mover' = NoMove
    /\ UNCHANGED calls

\* The application ends between the copy and the removal.
QuitMoving ==
    /\ mover # NoMove
    /\ answer' = MoveAnswer("quit", mover)
    /\ mover' = NoMove
    /\ UNCHANGED <<disk, calls>>

FileNext ==
    \/ \E b \in Base : \E e \in Under(b) :
          \/ \E caller \in Caller : ReadCommand(caller, b, e)
          \/ RefuseFile(b, e)
          \/ \E data \in Contents : WriteFile(b, e, data)
          \/ RemoveFile(b, e)
          \/ \E new \in Under(b) : Rename(b, e, new)
    \/ \E b, to \in Workspace : \E e \in Under(b), dest \in Under(to) : MoveCopy(b, e, to, dest)
    \/ MoveRemove
    \/ QuitMoving

FileSpec == FileInit /\ [][FileNext]_fileVars

-----------------------------------------------------------------------------
Move == [from : Entry, to : Entry, held : Contents \union {Part}]

FileTypeOK ==
    /\ disk \in [Entry -> Node]
    /\ mover = NoMove \/ mover \in Move
    /\ calls \in 0..MaxCalls

\* What a request can change: files and directories that exist, in a workspace and off the
\* block list.
InReach(e) ==
    /\ disk[e].kind \in {"file", "dir"}
    /\ BasesOf[e] \intersect Workspace # {}
    /\ e \notin Blocked

\* No request changes anything out of its reach, whatever links it goes through; nothing is
\* ever created, and no link is followed to be replaced.
OnlyReachableChanges == [][\A e \in Entry : disk'[e] # disk[e] => InReach(e)]_disk

\* However a move to another file ends, what was to be moved is still there: at its
\* destination if the move succeeded, and at its source if not.
MovesLoseNothing ==
    /\ mover # NoMove /\ mover.from # mover.to => disk[mover.from] = Holding(mover.held)
    /\ (answer.op = "move" /\ answer.from # answer.to /\ mover = NoMove) =>
          disk[IF answer.outcome = "ok" THEN answer.to ELSE answer.from] = Holding(answer.held)

\* "Moved a to b" (main.rs:1385): what the source held is now at the destination.
MovedIsThere ==
    answer.op = "move" /\ answer.outcome = "ok" => disk[answer.to] = Holding(answer.held)
=============================================================================

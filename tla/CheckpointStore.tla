--------------------------- MODULE CheckpointStore ---------------------------
(***************************************************************************)
(* The workspace snapshots taken before each turn: a copy of the tree into *)
(* staging, published by a rename; the pruning of the oldest snapshots;    *)
(* and the restore, which clears the workspace and copies a snapshot back. *)
(*                                                                         *)
(* Every step touches one directory entry, may fail, and may be the last   *)
(* before the process dies.  One operation is under way at a time: a turn  *)
(* takes its snapshot before its loop starts, and a restore is refused     *)
(* while a turn is live; the snapshot of a superseded turn that goes on    *)
(* beside another operation is not modelled.  The workspace is edited by   *)
(* tools and jobs at any time except during a restore, whose caller keeps  *)
(* turns and jobs out (TurnRuntime, JobStore).                             *)
(*                                                                         *)
(* A tree is a function from every path to what stands there.  Files are   *)
(* told apart by content, links and special files are not.  The order in   *)
(* which a walk lists the entries of a directory is left open.             *)
(***************************************************************************)
EXTENDS Integers, FiniteSets

CONSTANTS
    Path,           \* the workspace-relative paths
    Parent,         \* the directory of each path, Root at the top level
    Root,           \* the workspace root
    Content,        \* what a regular file may hold
    Skipped,        \* the paths should_skip names, with all below them
    CaptureLinks,   \* snapshot_can_capture_symlink: a constant of the platform
    Retained,       \* max_snapshots, 0 = keep all
    MaxEntries,     \* MAX_SNAPSHOT_ENTRIES
    MaxSnapshots,   \* bound: snapshots ever started
    MaxEdits,       \* bound: edits of the workspace
    MaxCrash        \* bound: process exits, in the middle of an operation or not

ASSUME TreeAssumption ==
    /\ Root \notin Path
    /\ Parent \in [Path -> Path \cup {Root}]
    /\ Skipped \subseteq Path
    /\ \A p \in Path : Parent[p] \in Skipped => p \in Skipped

ASSUME StoreAssumption ==
    /\ {"none", "dir", "link", "special"} \cap Content = {}
    /\ CaptureLinks \in BOOLEAN
    /\ Retained \in Nat /\ MaxEntries \in Nat
    /\ MaxSnapshots \in Nat /\ MaxEdits \in Nat /\ MaxCrash \in Nat

VARIABLES
    workspace,     \* the live tree
    stored,        \* the snapshots list() reports: their ids, which are their times
    snapshot,      \* the tree in the directory of each id
    captured,      \* the tree each id was published with
    checkpoints,   \* SessionRecord.checkpoints
    oversized,     \* the latch of MAX_SNAPSHOT_ENTRIES
    clock,         \* the latest id given out
    op,            \* the operation under way
    outcome,       \* the restore that last succeeded, until the next operation or edit
    edits, crashes

vars == <<workspace, stored, snapshot, captured, checkpoints, oversized, clock, op, outcome,
          edits, crashes>>

-----------------------------------------------------------------------------
(* Types *)

Id == 1 .. MaxSnapshots

Entry == {"none", "dir", "link", "special"} \cup Content

Tree == [Path -> Entry]

Bare == [p \in Path |-> "none"]

DirsOf(t) == {Root} \cup {q \in Path : t[q] = "dir"}

(* Every entry stands in a directory. *)
IsTree(t) == \A p \in Path : t[p] # "none" => Parent[p] \in DirsOf(t)

(* done holds the entries a walk is through with, copied their number, kept  *)
(* those that clear left in place, report those among them that the user is  *)
(* told of, and victims the snapshots still to be pruned.                    *)
Op == [pc : {"idle", "copy", "prune", "record", "clear", "restore"}, id : 0 .. MaxSnapshots,
       staging : Tree, done : SUBSET Path, kept : SUBSET Path, report : SUBSET Path,
       victims : SUBSET Id, copied : 0 .. MaxEntries]

Idle == [pc |-> "idle", id |-> 0, staging |-> Bare, done |-> {}, kept |-> {}, report |-> {},
         victims |-> {}, copied |-> 0]

NoOutcome == [id |-> 0, report |-> {}]

(* The state is well typed. *)
TypeOK ==
    /\ workspace \in Tree /\ stored \subseteq Id
    /\ snapshot \in [Id -> Tree] /\ captured \in [Id -> Tree]
    /\ checkpoints \subseteq Id
    /\ oversized \in BOOLEAN /\ clock \in 0 .. MaxSnapshots
    /\ op \in Op
    /\ outcome \in [id : 0 .. MaxSnapshots, report : SUBSET Path]
    /\ edits \in Nat /\ crashes \in Nat

(* Any workspace. *)
Init ==
    /\ workspace \in {t \in Tree : IsTree(t)}
    /\ stored = {} /\ checkpoints = {}
    /\ snapshot = [i \in Id |-> Bare] /\ captured = [i \in Id |-> Bare]
    /\ oversized = FALSE /\ clock = 0
    /\ op = Idle /\ outcome = NoOutcome
    /\ edits = 0 /\ crashes = 0

-----------------------------------------------------------------------------
(* Trees *)

ChildrenIn(t, p) == {q \in Path : Parent[q] = p /\ t[q] # "none"}

(* Anything a tool, a job or the user does to one entry. *)
Edit(p, e) ==
    /\ edits < MaxEdits /\ op.pc \notin {"clear", "restore"}
    /\ e # workspace[p]
    /\ Parent[p] \in DirsOf(workspace)
    /\ e = "dir" \/ ChildrenIn(workspace, p) = {}
    /\ workspace' = [workspace EXCEPT ![p] = e]
    /\ outcome' = NoOutcome /\ edits' = edits + 1
    /\ UNCHANGED <<stored, snapshot, captured, checkpoints, oversized, clock, op, crashes>>

-----------------------------------------------------------------------------
(* snapshot *)

SnapshotBegin ==
    /\ op.pc = "idle" /\ ~oversized /\ clock < MaxSnapshots
    /\ clock' = clock + 1
    /\ op' = [Idle EXCEPT !.pc = "copy", !.id = clock + 1]
    /\ outcome' = NoOutcome
    /\ UNCHANGED <<workspace, stored, snapshot, captured, checkpoints, oversized, edits, crashes>>

(* What copy_tree can record of an entry. *)
Captured(e) == IF e = "special" \/ (e = "link" /\ ~CaptureLinks) THEN "none" ELSE e

(* The walk reaches p: skipped entries are pruned, and so is what stands     *)
(* below them or below an entry that was no directory.                       *)
Reached(p) == p \notin Skipped /\ Parent[p] \in DirsOf(op.staging)

MutOverBudget(n) == n > MaxEntries + 1

OverBudget(n) == n > MaxEntries

CopyEntry(p) ==
    /\ op.pc = "copy" /\ Reached(p) /\ p \notin op.done
    /\ LET n == IF workspace[p] = "none" THEN op.copied ELSE op.copied + 1
       IN  IF OverBudget(n)
           THEN op' = Idle /\ oversized' = TRUE
           ELSE /\ op' = [op EXCEPT !.done = @ \cup {p}, !.staging[p] = Captured(workspace[p]),
                                    !.copied = n]
                /\ UNCHANGED oversized
    /\ UNCHANGED <<workspace, stored, snapshot, captured, checkpoints, clock, outcome, edits,
                   crashes>>

(* The token, an error of the walk or of a copy: the staging tree is removed *)
(* and no checkpoint comes of it.                                            *)
SnapshotFails ==
    /\ op.pc = "copy"
    /\ op' = Idle
    /\ UNCHANGED <<workspace, stored, snapshot, captured, checkpoints, oversized, clock, outcome,
                   edits, crashes>>

(* The oldest of the snapshots beyond the cap. *)
MutExcess(ids) == {i \in ids : Retained > 0 /\ Cardinality({j \in ids : j < i}) >= Retained}

Excess(ids) == {i \in ids : Retained > 0 /\ Cardinality({j \in ids : j > i}) >= Retained}

Publish ==
    /\ op.pc = "copy" /\ \A p \in Path : Reached(p) => p \in op.done
    /\ stored' = stored \cup {op.id}
    /\ snapshot' = [snapshot EXCEPT ![op.id] = op.staging]
    /\ captured' = [captured EXCEPT ![op.id] = op.staging]
    /\ op' = [Idle EXCEPT !.pc = "prune", !.id = op.id, !.victims = Excess(stored \cup {op.id})]
    /\ UNCHANGED <<workspace, checkpoints, oversized, clock, outcome, edits, crashes>>

-----------------------------------------------------------------------------
(* prune_old_snapshots: remove_dir_all of one victim after the other *)

Victim == CHOOSE i \in op.victims : \A j \in op.victims : i <= j

PruneEntry(p) ==
    /\ op.pc = "prune" /\ op.victims # {}
    /\ snapshot[Victim][p] # "none" /\ ChildrenIn(snapshot[Victim], p) = {}
    /\ snapshot' = [snapshot EXCEPT ![Victim][p] = "none"]
    /\ UNCHANGED <<workspace, stored, captured, checkpoints, oversized, clock, op, outcome, edits,
                   crashes>>

PruneDone ==
    /\ op.pc = "prune" /\ op.victims # {} /\ snapshot[Victim] = Bare
    /\ stored' = stored \ {Victim}
    /\ op' = [op EXCEPT !.victims = @ \ {Victim}]
    /\ UNCHANGED <<workspace, snapshot, captured, checkpoints, oversized, clock, outcome, edits,
                   crashes>>

(* A removal that fails is a warning; what is left of the victim stays. *)
PruneFails ==
    /\ op.pc = "prune" /\ op.victims # {}
    /\ op' = [op EXCEPT !.victims = @ \ {Victim}]
    /\ UNCHANGED <<workspace, stored, snapshot, captured, checkpoints, oversized, clock, outcome,
                   edits, crashes>>

PruneEnd ==
    /\ op.pc = "prune" /\ op.victims = {}
    /\ op' = [op EXCEPT !.pc = "record"]
    /\ UNCHANGED <<workspace, stored, snapshot, captured, checkpoints, oversized, clock, outcome,
                   edits, crashes>>

(* record_checkpoint drops the oldest records beyond the same cap. *)
MutCapped(ids) == ids

Capped(ids) == ids \ Excess(ids)

RecordCheckpoint ==
    /\ op.pc = "record"
    /\ checkpoints' = Capped(checkpoints \cup {op.id})
    /\ op' = Idle
    /\ UNCHANGED <<workspace, stored, snapshot, captured, oversized, clock, outcome, edits, crashes>>

-----------------------------------------------------------------------------
(* restore *)

RestoreBegin(i) ==
    /\ op.pc = "idle" /\ i \in stored
    /\ op' = [Idle EXCEPT !.pc = "clear", !.id = i]
    /\ outcome' = NoOutcome
    /\ UNCHANGED <<workspace, stored, snapshot, captured, checkpoints, oversized, clock, edits,
                   crashes>>

(* snapshot_covers *)
Covers(p) == snapshot[op.id][p] # "none"

(* clear_dir_contents may remove what restore can write back, and what it is *)
(* about to write over.                                                      *)
MutMayRemove(p) ==
    CASE workspace[p] = "link"    -> CaptureLinks
      [] workspace[p] = "special" -> FALSE
      [] OTHER                    -> TRUE

MayRemove(p) ==
    CASE workspace[p] = "link"    -> CaptureLinks \/ Covers(p)
      [] workspace[p] = "special" -> Covers(p)
      [] OTHER                    -> TRUE

(* A directory that holds something kept is kept, and not reported. *)
MutHoldsKept(p) == ChildrenIn(workspace, p) \ Skipped # {}

HoldsKept(p) == ChildrenIn(workspace, p) # {}

(* One entry, after all entries in it. *)
ClearEntry(p) ==
    /\ op.pc = "clear" /\ p \notin Skipped \cup op.kept
    /\ workspace[p] # "none"
    /\ ChildrenIn(workspace, p) \subseteq Skipped \cup op.kept
    /\ IF MayRemove(p) /\ ~HoldsKept(p)
       THEN /\ workspace' = [workspace EXCEPT ![p] = "none"]
            /\ UNCHANGED op
       ELSE /\ op' = [op EXCEPT !.kept = @ \cup {p},
                                !.report = IF MayRemove(p) THEN @ ELSE @ \cup {p}]
            /\ UNCHANGED workspace
    /\ UNCHANGED <<stored, snapshot, captured, checkpoints, oversized, clock, outcome, edits, crashes>>

MutCleared == \A p \in Path : workspace[p] # "none" /\ Covers(p) => p \in Skipped \cup op.kept

Cleared == \A p \in Path : workspace[p] # "none" => p \in Skipped \cup op.kept

ClearDone ==
    /\ op.pc = "clear" /\ Cleared
    /\ op' = [op EXCEPT !.pc = "restore"]
    /\ UNCHANGED <<workspace, stored, snapshot, captured, checkpoints, oversized, clock, outcome,
                   edits, crashes>>

(* copy_tree refuses to write through a link or a special file; the system   *)
(* refuses to put a file or a link where a directory stands, and the reverse.*)
Writable(p) ==
    \/ workspace[p] = "none"
    \/ workspace[p] = "dir" /\ snapshot[op.id][p] = "dir"
    \/ workspace[p] \in Content /\ snapshot[op.id][p] \in Content

Due(p) ==
    /\ op.pc = "restore" /\ Covers(p) /\ p \notin op.done
    /\ Parent[p] \in {Root} \cup op.done

RestoreEntry(p) ==
    /\ Due(p) /\ Writable(p)
    /\ workspace' = [workspace EXCEPT ![p] = snapshot[op.id][p]]
    /\ op' = [op EXCEPT !.done = @ \cup {p}]
    /\ UNCHANGED <<stored, snapshot, captured, checkpoints, oversized, clock, outcome, edits, crashes>>

(* A copy that fails or is cut off may leave part of the file. *)
RestoreTorn(p, content) ==
    /\ Due(p) /\ Writable(p) /\ snapshot[op.id][p] \in Content
    /\ workspace' = [workspace EXCEPT ![p] = content]
    /\ op' = Idle
    /\ UNCHANGED <<stored, snapshot, captured, checkpoints, oversized, clock, outcome, edits, crashes>>

(* An entry that could not be removed or written ends the restore with an    *)
(* error; the user may run it again.                                         *)
RestoreFails ==
    /\ op.pc \in {"clear", "restore"}
    /\ op' = Idle
    /\ UNCHANGED <<workspace, stored, snapshot, captured, checkpoints, oversized, clock, outcome,
                   edits, crashes>>

RestoreDone ==
    /\ op.pc = "restore" /\ \A p \in Path : Covers(p) => p \in op.done
    /\ outcome' = [id |-> op.id, report |-> op.report]
    /\ op' = Idle
    /\ UNCHANGED <<workspace, stored, snapshot, captured, checkpoints, oversized, clock, edits,
                   crashes>>

(* The process dies; a staging tree it leaves behind is invisible. *)
Crash ==
    /\ crashes < MaxCrash
    /\ op' = Idle /\ oversized' = FALSE
    /\ crashes' = crashes + 1
    /\ UNCHANGED <<workspace, stored, snapshot, captured, checkpoints, clock, outcome, edits>>

-----------------------------------------------------------------------------
(* Specification *)

Next ==
    \/ \E p \in Path, e \in Entry : Edit(p, e)
    \/ SnapshotBegin \/ SnapshotFails \/ Publish
    \/ \E p \in Path : CopyEntry(p) \/ PruneEntry(p)
    \/ PruneDone \/ PruneFails \/ PruneEnd \/ RecordCheckpoint
    \/ \E i \in Id : RestoreBegin(i)
    \/ \E p \in Path : ClearEntry(p) \/ RestoreEntry(p)
    \/ \E p \in Path, content \in Content : RestoreTorn(p, content)
    \/ ClearDone \/ RestoreFails \/ RestoreDone
    \/ Crash

Spec == Init /\ [][Next]_vars

-----------------------------------------------------------------------------
(* Properties *)

(* Nothing a restore, a failed restore or a prune does leaves an entry whose *)
(* directory is gone: clear never removes a directory around a skipped .git  *)
(* (clear_dir_contents), and every snapshot is a tree (copy_tree).           *)
AlwaysTrees ==
    /\ IsTree(workspace)
    /\ \A i \in Id : IsTree(snapshot[i])

(* A restore that reports success has put the whole workspace back: outside  *)
(* the skipped paths every entry is the snapshot's, but for the reported     *)
(* ones and the directories that hold something kept (CheckpointStore::      *)
(* restore).                                                                 *)
RestoreExact ==
    outcome.id # 0 =>
        \A p \in Path \ Skipped :
            \/ workspace[p] = snapshot[outcome.id][p]
            \/ /\ snapshot[outcome.id][p] = "none"
               /\ p \in outcome.report \/ (workspace[p] = "dir" /\ HoldsKept(p))

(* clear has made room: nothing copy_tree would write through, a link or a   *)
(* special file, stands where the snapshot has content (the rule both halves *)
(* of restore share).                                                        *)
NoWriteThrough ==
    op.pc = "restore" =>
        \A p \in Path : Covers(p) /\ p \notin op.done => workspace[p] \notin {"link", "special"}

(* Failing prunes and crashes never damage a snapshot within the retention:  *)
(* the newest Retained snapshots are what was captured.                      *)
RetainedAreWhole ==
    \A i \in stored :
        Retained = 0 \/ Cardinality({j \in stored : j > i}) < Retained
        => snapshot[i] = captured[i]

(* What the session lists can be restored: every recorded checkpoint is in   *)
(* the store, unless the process died between the two lists                  *)
(* (record_checkpoint's cap is the store's).                                 *)
RecordedAreStored == crashes = 0 /\ op.pc = "idle" => checkpoints \subseteq stored

(* "Re-run the restore to finish it": once clear is through, nothing it kept *)
(* stands in the way of the copy.                                            *)
RerunFinishes == \A p \in Path : Due(p) => Writable(p)
=============================================================================

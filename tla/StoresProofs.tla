---------------------------- MODULE StoresProofs ----------------------------
(***************************************************************************)
(* Proofs about what a session leaves on disk: the snapshots, for any set  *)
(* of paths, any tree, both kinds of platform and any bound; the session   *)
(* files, for any processes, workspaces, directories and bounds; and both  *)
(* as Stores composes them.                                                *)
(***************************************************************************)
EXTENDS Stores, FiniteSetTheorems, WellFoundedInduction, TLAPS

-----------------------------------------------------------------------------
(* The inductive invariant *)

Restoring == op.pc \in {"clear", "restore"}

(* Only what the walk visited is in staging, and nothing that is skipped. *)
StagingVisited ==
    /\ IsTree(op.staging)
    /\ \A p \in Path : op.staging[p] # "none" => p \in op.done

NothingSkipped ==
    \A p \in Skipped : op.staging[p] = "none" /\ \A i \in Id : snapshot[i][p] = "none"

(* Something in p is there to stay. *)
HasKept(p) == \E c \in Skipped \cup op.kept : Parent[c] = p /\ workspace[c] # "none"

(* Why clear keeps what it keeps. *)
KeptForCause ==
    Restoring =>
        /\ op.report \subseteq op.kept
        /\ \A p \in op.kept :
            /\ workspace[p] # "none"
            /\ p \in op.report => ~Covers(p)
            /\ p \notin op.report => workspace[p] = "dir" /\ HasKept(p)

(* What stands in the workspace while a snapshot is copied back. *)
CopiedBack ==
    /\ op.pc = "clear" => op.done = {}
    /\ op.pc = "restore" =>
         /\ \A p \in Path : workspace[p] # "none" => p \in Skipped \cup op.kept \cup op.done
         /\ \A p \in op.done : Covers(p) /\ workspace[p] = snapshot[op.id][p]

OutcomeFresh == outcome.id # 0 => op.pc = "idle" /\ RestoreExact

IdFits == op.pc # "idle" => op.id \in Id

Inv == /\ TypeOK /\ IdFits /\ AlwaysTrees /\ StagingVisited /\ NothingSkipped
       /\ KeptForCause /\ CopiedBack /\ OutcomeFresh

-----------------------------------------------------------------------------
(* Types *)

LEMMA BareType == Bare \in Tree /\ \A p \in Path : Bare[p] = "none"
BY DEF Bare, Tree, Entry

LEMMA IdleType ==
    /\ Idle \in Op /\ NoOutcome \in [id : 0 .. MaxSnapshots, report : SUBSET Path]
    /\ Idle.pc = "idle" /\ Idle.id = 0 /\ Idle.staging = Bare /\ Idle.done = {} /\ Idle.kept = {}
    /\ Idle.report = {} /\ Idle.victims = {} /\ Idle.copied = 0 /\ NoOutcome.id = 0
<1>1. 0 \in 0 .. MaxSnapshots /\ 0 \in 0 .. MaxEntries
  BY StoreAssumption
<1> QED BY <1>1, BareType DEF Idle, Op, NoOutcome

(* A change of one entry of a tree gives one. *)
LEMMA TreeType ==
    ASSUME NEW t \in Tree, NEW p \in Path, NEW e \in Entry
    PROVE  /\ [t EXCEPT ![p] = e] \in Tree
           /\ [t EXCEPT ![p] = e][p] = e
           /\ \A q \in Path : q # p => [t EXCEPT ![p] = e][q] = t[q]
BY DEF Tree

LEMMA CapturedType == \A e \in Entry : Captured(e) \in Entry
BY DEF Captured, Entry

LEMMA ExcessType == \A ids : Excess(ids) \subseteq ids
BY DEF Excess

LEMMA Least ==
    ASSUME NEW S \in SUBSET Nat, S # {}
    PROVE  \E i \in S : \A j \in S : i <= j
<1> DEFINE R == {ss \in Nat \X Nat : ss[1] < ss[2]}
<1>1. IsWellFoundedOn(R, Nat)
  <2>1. R = OpToRel(<, Nat)
    BY Zenon DEF OpToRel
  <2> QED BY <2>1, NatLessThanWellFounded, Zenon
<1>2. PICK i \in S : \A j \in S : ~ (<<j, i>> \in R)
  <2> HIDE DEF R
  <2> QED BY <1>1, WFMin, Zenon
<1>3. ASSUME NEW j \in S PROVE i <= j
  <2>1. i \in Nat /\ j \in Nat
    OBVIOUS
  <2>2. j < i => <<j, i>> \in R
    BY <2>1
  <2> QED BY <1>2, <2>1, <2>2
<1> QED BY <1>3

LEMMA Latest ==
    ASSUME NEW n \in Nat, NEW S \in SUBSET (0 .. n), S # {}
    PROVE  \E m \in S : \A j \in S : j <= m
<1> DEFINE T == {k \in 0 .. n : n - k \in S}
<1>1. ASSUME NEW j \in S PROVE n - j \in T
  <2>1. j \in 0 .. n
    OBVIOUS
  <2>2. n - j \in 0 .. n /\ n - (n - j) = j
    BY <2>1
  <2> QED BY <2>2
<1>2. T # {}
  BY <1>1
<1>3. PICK k \in T : \A l \in T : k <= l
  <2>1. \A k \in T : k \in Nat
    OBVIOUS
  <2> HIDE DEF T
  <2> QED BY <1>2, <2>1, Least
<1>4. ASSUME NEW i \in S PROVE i <= n - k
  <2>1. k <= n - i
    BY <1>1, <1>3
  <2>2. i \in 0 .. n /\ k \in 0 .. n
    BY <1>3
  <2> QED BY <2>1, <2>2
<1> QED BY <1>3, <1>4

(* The next victim is the oldest. *)
LEMMA VictimIs ==
    ASSUME TypeOK, op.victims # {}
    PROVE  /\ Victim \in op.victims /\ Victim \in Id
           /\ \A j \in op.victims : Victim <= j
<1>1. op.victims \subseteq Id
  BY DEF TypeOK, Op
<1>2. op.victims \subseteq Nat
  BY <1>1 DEF Id
<1>3. \E i \in op.victims : \A j \in op.victims : i <= j
  BY <1>2, Least
<1> QED BY <1>1, <1>3 DEF Victim

TInv == TypeOK /\ IdFits

LEMMA InitTInv == Init => TInv
<1> SUFFICES ASSUME Init PROVE TInv
  OBVIOUS
<1>1. workspace \in Tree /\ stored \subseteq Id /\ checkpoints \subseteq Id /\ oversized \in BOOLEAN
  BY DEF Init
<1>2. snapshot \in [Id -> Tree] /\ captured \in [Id -> Tree]
  BY BareType DEF Init
<1>3. clock \in 0 .. MaxSnapshots /\ edits \in Nat /\ crashes \in Nat
  BY StoreAssumption DEF Init
<1>4. op \in Op /\ outcome \in [id : 0 .. MaxSnapshots, report : SUBSET Path] /\ IdFits
  BY IdleType DEF Init, IdFits
<1> QED BY <1>1, <1>2, <1>3, <1>4 DEF TInv, TypeOK

(* A step to no operation at all that changes no tree keeps the types. *)
LEMMA IdleStepTypes ==
    ASSUME TInv, op' = Idle, workspace' \in Tree, oversized' \in BOOLEAN,
           checkpoints' \subseteq Id, crashes' \in Nat,
           outcome' \in [id : 0 .. MaxSnapshots, report : SUBSET Path],
           UNCHANGED <<stored, snapshot, captured, clock, edits>>
    PROVE  TInv'
BY IdleType DEF TInv, TypeOK, IdFits

LEMMA NextTInv == TInv /\ [Next]_vars => TInv'
<1> SUFFICES ASSUME TInv, [Next]_vars PROVE TInv'
  OBVIOUS
<1> USE DEF TInv
<1>0. /\ op \in Op /\ workspace \in Tree /\ snapshot \in [Id -> Tree] /\ captured \in [Id -> Tree]
      /\ stored \subseteq Id /\ checkpoints \subseteq Id
  BY DEF TypeOK
<1>1. ASSUME NEW p \in Path, NEW e \in Entry, Edit(p, e) PROVE TInv'
  <2>1. workspace' \in Tree
    BY <1>0, <1>1, TreeType DEF Edit
  <2> QED BY <1>1, <2>1, IdleType DEF Edit, TypeOK, IdFits
<1>2. CASE SnapshotBegin
  <2>1. clock + 1 \in Id /\ clock + 1 \in 0 .. MaxSnapshots
    BY <1>2, StoreAssumption DEF SnapshotBegin, TypeOK, Id
  <2>2. op' \in Op /\ op'.id = clock + 1
    BY <1>2, <2>1, IdleType DEF SnapshotBegin, Op
  <2> QED BY <1>2, <2>1, <2>2, IdleType DEF SnapshotBegin, TypeOK, IdFits
<1>3. ASSUME NEW p \in Path, CopyEntry(p) PROVE TInv'
  <2> DEFINE n == IF workspace[p] = "none" THEN op.copied ELSE op.copied + 1
  <2>1. CASE OverBudget(n)
    BY <1>3, <2>1, IdleStepTypes DEF CopyEntry, TypeOK
  <2>2. CASE ~OverBudget(n)
    <3>1. op' = [op EXCEPT !.done = @ \cup {p}, !.staging[p] = Captured(workspace[p]), !.copied = n]
      BY <1>3, <2>2 DEF CopyEntry
    <3>2. Captured(workspace[p]) \in Entry
      BY <1>0, CapturedType DEF Tree
    <3>3. [op.staging EXCEPT ![p] = Captured(workspace[p])] \in Tree
      BY <1>0, <3>2, TreeType DEF Op
    <3>4. n \in 0 .. MaxEntries
      BY <1>0, <2>2, StoreAssumption DEF Op, OverBudget
    <3>5. op' \in Op /\ op'.id = op.id /\ op'.pc = op.pc
      <4> HIDE DEF n
      <4> QED BY <1>0, <3>1, <3>3, <3>4 DEF Op
    <3> QED BY <1>3, <2>2, <3>5 DEF CopyEntry, TypeOK, IdFits
  <2> QED BY <2>1, <2>2
<1>4. CASE SnapshotFails
  BY <1>4, IdleStepTypes DEF SnapshotFails, TypeOK
<1>5. CASE Publish
  <2>1. op.id \in Id /\ op.staging \in Tree
    BY <1>0, <1>5 DEF Publish, IdFits, Op
  <2>2. Excess(stored \cup {op.id}) \subseteq Id
    BY <1>0, <2>1, ExcessType
  <2>3. op' \in Op /\ op'.pc = "prune" /\ op'.id = op.id
    BY <1>0, <1>5, <2>1, <2>2, IdleType DEF Publish, Op
  <2>4. stored' \subseteq Id /\ snapshot' \in [Id -> Tree] /\ captured' \in [Id -> Tree]
    BY <1>0, <1>5, <2>1 DEF Publish
  <2> QED BY <1>5, <2>1, <2>3, <2>4 DEF Publish, TypeOK, IdFits
<1>6. ASSUME NEW p \in Path, PruneEntry(p) PROVE TInv'
  <2>1. Victim \in Id
    BY <1>6, VictimIs DEF PruneEntry
  <2>2. [snapshot[Victim] EXCEPT ![p] = "none"] \in Tree
    BY <1>0, <2>1, TreeType DEF Entry
  <2>3. snapshot' \in [Id -> Tree]
    BY <1>0, <1>6, <2>1, <2>2 DEF PruneEntry
  <2> QED BY <1>6, <2>3 DEF PruneEntry, TypeOK, IdFits
<1>7. CASE PruneDone
  <2>1. op' \in Op /\ op'.pc = op.pc /\ op'.id = op.id
    BY <1>0, <1>7 DEF PruneDone, Op
  <2> QED BY <1>7, <2>1 DEF PruneDone, TypeOK, IdFits
<1>8. CASE PruneFails
  <2>1. op' \in Op /\ op'.pc = op.pc /\ op'.id = op.id
    BY <1>0, <1>8 DEF PruneFails, Op
  <2> QED BY <1>8, <2>1 DEF PruneFails, TypeOK, IdFits
<1>9. CASE PruneEnd
  <2>1. op' \in Op /\ op'.pc = "record" /\ op'.id = op.id
    BY <1>0, <1>9 DEF PruneEnd, Op
  <2> QED BY <1>9, <2>1 DEF PruneEnd, TypeOK, IdFits
<1>10. CASE RecordCheckpoint
  <2>1. checkpoints' \subseteq Id
    BY <1>0, <1>10 DEF RecordCheckpoint, Capped, IdFits
  <2> QED BY <1>10, <2>1, IdleStepTypes DEF RecordCheckpoint, TypeOK
<1>11. ASSUME NEW i \in Id, RestoreBegin(i) PROVE TInv'
  <2>1. i \in 0 .. MaxSnapshots
    BY DEF Id
  <2>2. op' \in Op /\ op'.id = i
    BY <1>11, <2>1, IdleType DEF RestoreBegin, Op
  <2> QED BY <1>11, <2>2, IdleType DEF RestoreBegin, TypeOK, IdFits
<1>12. ASSUME NEW p \in Path, ClearEntry(p) PROVE TInv'
  <2>1. workspace' \in Tree
    BY <1>0, <1>12, TreeType DEF ClearEntry, Entry
  <2>2. op' \in Op /\ op'.id = op.id /\ op'.pc = op.pc
    <3>1. CASE UNCHANGED op
      BY <1>0, <3>1
    <3>2. CASE op' = [op EXCEPT !.kept = @ \cup {p}, !.report = @]
      BY <1>0, <3>2 DEF Op
    <3>3. CASE op' = [op EXCEPT !.kept = @ \cup {p}, !.report = @ \cup {p}]
      BY <1>0, <3>3 DEF Op
    <3> QED BY <1>12, <3>1, <3>2, <3>3 DEF ClearEntry
  <2> QED BY <1>12, <2>1, <2>2 DEF ClearEntry, TypeOK, IdFits
<1>13. CASE ClearDone
  <2>1. op' \in Op /\ op'.id = op.id /\ op.pc = "clear"
    BY <1>0, <1>13 DEF ClearDone, Op
  <2> QED BY <1>13, <2>1 DEF ClearDone, TypeOK, IdFits
<1>14. ASSUME NEW p \in Path, RestoreEntry(p) PROVE TInv'
  <2>1. op.id \in Id
    BY <1>14 DEF RestoreEntry, Due, IdFits
  <2>2. snapshot[op.id][p] \in Entry
    BY <1>0, <2>1 DEF Tree
  <2>3. workspace' \in Tree
    BY <1>0, <1>14, <2>2, TreeType DEF RestoreEntry
  <2>4. op' \in Op /\ op'.id = op.id /\ op'.pc = op.pc
    BY <1>0, <1>14 DEF RestoreEntry, Op
  <2> QED BY <1>14, <2>3, <2>4 DEF RestoreEntry, TypeOK, IdFits
<1>15. ASSUME NEW p \in Path, NEW c \in Content, RestoreTorn(p, c) PROVE TInv'
  <2>1. workspace' \in Tree
    BY <1>0, <1>15, TreeType DEF RestoreTorn, Entry
  <2> QED BY <1>15, <2>1, IdleStepTypes DEF RestoreTorn, TypeOK
<1>16. CASE RestoreFails
  BY <1>16, IdleStepTypes DEF RestoreFails, TypeOK
<1>17. CASE RestoreDone
  <2>1. outcome' \in [id : 0 .. MaxSnapshots, report : SUBSET Path]
    BY <1>0, <1>17 DEF RestoreDone, Op
  <2> QED BY <1>17, <2>1, IdleStepTypes DEF RestoreDone, TypeOK
<1>18. CASE Crash
  <2>1. crashes' \in Nat
    BY <1>18 DEF Crash, TypeOK
  <2>2. checkpoints' \subseteq Id /\ workspace' \in Tree /\ oversized' \in BOOLEAN
    BY <1>0, <1>18 DEF Crash
  <2> QED BY <1>18, <2>1, <2>2, IdleStepTypes DEF Crash, TypeOK
<1>19. CASE UNCHANGED vars
  BY <1>19 DEF vars, TypeOK, IdFits, Op
<1> QED BY <1>1, <1>2, <1>3, <1>4, <1>5, <1>6, <1>7, <1>8, <1>9, <1>10, <1>11, <1>12, <1>13,
           <1>14, <1>15, <1>16, <1>17, <1>18, <1>19 DEF Next

(* Every reachable state is well typed; in particular no snapshot copies     *)
(* more than MAX_SNAPSHOT_ENTRIES entries (CheckpointStore::snapshot).       *)
THEOREM TypeCorrect == Spec => []TypeOK
<1>1. TInv => TypeOK
  BY DEF TInv
<1> QED BY <1>1, InitTInv, NextTInv, PTL DEF Spec

-----------------------------------------------------------------------------
(* Trees stay trees *)

LEMMA BareIsTree == IsTree(Bare)
BY BareType DEF IsTree

(* An entry may be set where a directory holds it, or removed, if nothing is *)
(* left below an entry that is no directory.                                 *)
LEMMA SetTree ==
    ASSUME NEW t \in Tree, IsTree(t), NEW p \in Path, NEW e \in Entry,
           e = "none" \/ Parent[p] \in DirsOf(t),
           e = "dir" \/ ChildrenIn(t, p) = {}
    PROVE  IsTree([t EXCEPT ![p] = e])
<1> DEFINE u == [t EXCEPT ![p] = e]
<1>0. u[p] = e /\ \A q \in Path : q # p => u[q] = t[q]
  BY DEF Tree
<1> HIDE DEF u
<1> SUFFICES ASSUME NEW q \in Path, u[q] # "none" PROVE Parent[q] \in DirsOf(u)
  BY DEF IsTree, u
<1>1. (Parent[q] \in DirsOf(t) /\ t[q] # "none") \/ q = p
  BY <1>0 DEF IsTree
<1>2. Parent[q] \in DirsOf(t)
  BY <1>0, <1>1
<1>3. CASE Parent[q] # p
  BY <1>0, <1>2, <1>3 DEF DirsOf
<1>4. CASE Parent[q] = p
  <2>1. t[q] # "none"
    BY <1>1, <1>2, <1>4, TreeAssumption DEF DirsOf
  <2>2. ChildrenIn(t, p) # {}
    BY <1>4, <2>1 DEF ChildrenIn
  <2> QED BY <1>0, <1>4, <2>2 DEF DirsOf
<1> QED BY <1>3, <1>4

(* Only a directory has anything below it. *)
LEMMA LeafOfTree ==
    ASSUME NEW t, IsTree(t), NEW p \in Path, t[p] # "dir"
    PROVE  ChildrenIn(t, p) = {}
BY TreeAssumption DEF IsTree, ChildrenIn, DirsOf

-----------------------------------------------------------------------------
(* The invariant is one *)

LEMMA InitInv == Init => Inv
<1> SUFFICES ASSUME Init PROVE Inv
  OBVIOUS
<1>1. TypeOK /\ IdFits
  BY InitTInv DEF TInv
<1>2. AlwaysTrees
  BY BareIsTree DEF Init, AlwaysTrees
<1>3. StagingVisited /\ NothingSkipped
  BY IdleType, BareType, BareIsTree, TreeAssumption DEF Init, StagingVisited, NothingSkipped
<1>4. KeptForCause /\ CopiedBack /\ OutcomeFresh
  BY IdleType DEF Init, KeptForCause, Restoring, CopiedBack, OutcomeFresh
<1> QED BY <1>1, <1>2, <1>3, <1>4 DEF Inv

(* A step that ends the operation, however it ends. *)
LEMMA IdleInv ==
    ASSUME Inv, TInv', op' = Idle, IsTree(workspace'), snapshot' = snapshot, OutcomeFresh'
    PROVE  Inv'
<1>1. AlwaysTrees'
  BY DEF Inv, AlwaysTrees
<1>2. StagingVisited' /\ NothingSkipped'
  BY IdleType, BareType, BareIsTree, TreeAssumption DEF Inv, StagingVisited, NothingSkipped
<1>3. KeptForCause' /\ CopiedBack'
  BY IdleType DEF KeptForCause, Restoring, CopiedBack
<1> QED BY <1>1, <1>2, <1>3 DEF Inv, TInv

(* The last outcome survives a step that changes no tree. *)
LEMMA OutcomeKept ==
    ASSUME Inv, UNCHANGED <<workspace, snapshot, outcome>>, op.pc = "idle" => op'.pc = "idle"
    PROVE  OutcomeFresh'
BY DEF Inv, OutcomeFresh, RestoreExact, HoldsKept, ChildrenIn

(* While an operation is under way there is no outcome. *)
LEMMA OutcomeNone ==
    ASSUME Inv, op.pc # "idle", outcome' = outcome
    PROVE  OutcomeFresh'
BY DEF Inv, OutcomeFresh

LEMMA SnapshotInv ==
    ASSUME Inv, TInv', SnapshotBegin \/ SnapshotFails \/ Publish \/ \E p \in Path : CopyEntry(p)
    PROVE  Inv'
<1>0. /\ op \in Op /\ workspace \in Tree /\ IsTree(workspace) /\ IsTree(op.staging)
      /\ op.staging \in Tree /\ snapshot \in [Id -> Tree] /\ \A i \in Id : IsTree(snapshot[i])
  BY DEF Inv, TypeOK, Op, AlwaysTrees, StagingVisited
<1>1. CASE SnapshotBegin
  <2>1. op'.pc = "copy" /\ op'.staging = Bare /\ outcome'.id = 0
    BY <1>1, IdleType DEF SnapshotBegin, Op
  <2>2. StagingVisited' /\ NothingSkipped' /\ AlwaysTrees'
    BY <1>0, <1>1, <2>1, BareType, BareIsTree, TreeAssumption
       DEF SnapshotBegin, Inv, StagingVisited, NothingSkipped, AlwaysTrees
  <2>3. KeptForCause' /\ CopiedBack' /\ OutcomeFresh'
    BY <2>1 DEF KeptForCause, Restoring, CopiedBack, OutcomeFresh
  <2> QED BY <2>2, <2>3 DEF Inv, TInv
<1>2. CASE SnapshotFails
  BY <1>0, <1>2, IdleInv, OutcomeNone DEF SnapshotFails
<1>3. ASSUME NEW p \in Path, CopyEntry(p) PROVE Inv'
  <2> DEFINE n == IF workspace[p] = "none" THEN op.copied ELSE op.copied + 1
             e == Captured(workspace[p])
  <2>1. CASE OverBudget(n)
    BY <1>0, <1>3, <2>1, IdleInv, OutcomeNone DEF CopyEntry
  <2>2. CASE ~OverBudget(n)
    <3>1. e \in Entry
      BY <1>0, CapturedType DEF Tree
    <3>2. /\ op'.staging = [op.staging EXCEPT ![p] = e] /\ op'.done = op.done \cup {p}
          /\ op'.pc = "copy"
      BY <1>0, <1>3, <2>2 DEF CopyEntry, Op
    <3>3. op.staging[p] = "none" /\ ChildrenIn(op.staging, p) = {}
      BY <1>0, <1>3, LeafOfTree DEF CopyEntry, Inv, StagingVisited
    <3>4. IsTree(op'.staging)
      <4>1. Parent[p] \in DirsOf(op.staging)
        BY <1>3 DEF CopyEntry, Reached
      <4>2. IsTree([op.staging EXCEPT ![p] = e])
        <5> HIDE DEF e
        <5> QED BY <1>0, <3>1, <3>3, <4>1, SetTree
      <4> QED BY <3>2, <4>2
    <3>5. \A q \in Path : q # p => op'.staging[q] = op.staging[q]
      BY <1>0, <3>1, <3>2, TreeType
    <3>6. StagingVisited'
      BY <3>2, <3>4, <3>5 DEF Inv, StagingVisited
    <3>7. NothingSkipped'
      BY <1>3, <3>5, TreeAssumption DEF CopyEntry, Reached, Inv, NothingSkipped
    <3>8. AlwaysTrees'
      BY <1>0, <1>3 DEF CopyEntry, AlwaysTrees
    <3>9. KeptForCause' /\ CopiedBack' /\ OutcomeFresh'
      BY <1>3, <3>2, OutcomeNone DEF CopyEntry, KeptForCause, Restoring, CopiedBack
    <3> QED BY <3>6, <3>7, <3>8, <3>9 DEF Inv, TInv
  <2> QED BY <2>1, <2>2
<1>4. CASE Publish
  <2>1. op'.pc = "prune" /\ op'.staging = Bare
    BY <1>4, IdleType DEF Publish, Op
  <2>2. \A i \in Id : snapshot'[i] = snapshot[i] \/ snapshot'[i] = op.staging
    BY <1>0, <1>4 DEF Publish
  <2>3. AlwaysTrees'
    BY <1>0, <1>4, <2>2 DEF Publish, AlwaysTrees
  <2>4. StagingVisited' /\ NothingSkipped'
    BY <2>1, <2>2, BareType, BareIsTree, TreeAssumption DEF Inv, StagingVisited, NothingSkipped
  <2>5. KeptForCause' /\ CopiedBack' /\ OutcomeFresh'
    BY <1>4, <2>1, OutcomeNone DEF Publish, KeptForCause, Restoring, CopiedBack
  <2> QED BY <2>3, <2>4, <2>5 DEF Inv, TInv
<1> QED BY <1>1, <1>2, <1>3, <1>4

LEMMA PruneInv ==
    ASSUME Inv, TInv',
           PruneDone \/ PruneFails \/ PruneEnd \/ RecordCheckpoint \/ \E p \in Path : PruneEntry(p)
    PROVE  Inv'
<1>0. op \in Op /\ IsTree(workspace) /\ snapshot \in [Id -> Tree] /\ \A i \in Id : IsTree(snapshot[i])
  BY DEF Inv, TypeOK, AlwaysTrees
<1>1. ASSUME UNCHANGED <<workspace, snapshot, outcome>>, op.pc = "prune",
             op'.staging = op.staging, op'.done = op.done, op'.pc \in {"prune", "record"}
      PROVE  Inv'
  <2>1. AlwaysTrees' /\ StagingVisited' /\ NothingSkipped'
    BY <1>1 DEF Inv, AlwaysTrees, StagingVisited, NothingSkipped
  <2>2. KeptForCause' /\ CopiedBack' /\ OutcomeFresh'
    BY <1>1, OutcomeNone DEF KeptForCause, Restoring, CopiedBack
  <2> QED BY <2>1, <2>2 DEF Inv, TInv
<1>2. CASE PruneDone
  BY <1>0, <1>1, <1>2 DEF PruneDone, Op
<1>3. CASE PruneFails
  BY <1>0, <1>1, <1>3 DEF PruneFails, Op
<1>4. CASE PruneEnd
  BY <1>0, <1>1, <1>4 DEF PruneEnd, Op
<1>5. CASE RecordCheckpoint
  BY <1>0, <1>5, IdleInv, OutcomeNone DEF RecordCheckpoint
<1>6. ASSUME NEW p \in Path, PruneEntry(p) PROVE Inv'
  <2>1. Victim \in Id
    BY <1>6, VictimIs DEF PruneEntry, Inv
  <2> DEFINE t == [snapshot[Victim] EXCEPT ![p] = "none"]
  <2>2. IsTree(t)
    BY <1>0, <1>6, <2>1, SetTree DEF PruneEntry, Entry
  <2>3. \A i \in Id : snapshot'[i] = snapshot[i] \/ snapshot'[i] = t
    BY <1>0, <1>6, <2>1 DEF PruneEntry
  <2>4. \A q \in Path : t[q] = snapshot[Victim][q] \/ t[q] = "none"
    BY <1>0, <2>1 DEF Tree
  <2>5. AlwaysTrees'
    <3> HIDE DEF t
    <3> QED BY <1>0, <1>6, <2>2, <2>3 DEF PruneEntry, AlwaysTrees
  <2>6. StagingVisited' /\ NothingSkipped'
    <3> HIDE DEF t
    <3> QED BY <1>6, <2>1, <2>3, <2>4, TreeAssumption
            DEF PruneEntry, Inv, StagingVisited, NothingSkipped
  <2>7. KeptForCause' /\ CopiedBack' /\ OutcomeFresh'
    BY <1>6, OutcomeNone DEF PruneEntry, KeptForCause, Restoring, CopiedBack
  <2> QED BY <2>5, <2>6, <2>7 DEF Inv, TInv
<1> QED BY <1>2, <1>3, <1>4, <1>5, <1>6

LEMMA EditInv ==
    ASSUME Inv, TInv', NEW p \in Path, NEW e \in Entry, Edit(p, e)
    PROVE  Inv'
<1>0. workspace \in Tree /\ IsTree(workspace)
  BY DEF Inv, TypeOK, AlwaysTrees
<1>1. IsTree(workspace')
  <2>1. /\ Parent[p] \in DirsOf(workspace) /\ (e = "dir" \/ ChildrenIn(workspace, p) = {})
        /\ workspace' = [workspace EXCEPT ![p] = e]
    BY DEF Edit
  <2>2. IsTree([workspace EXCEPT ![p] = e])
    BY <1>0, <2>1, SetTree
  <2> QED BY <2>1, <2>2
<1>2. AlwaysTrees' /\ StagingVisited' /\ NothingSkipped'
  BY <1>1 DEF Edit, Inv, AlwaysTrees, StagingVisited, NothingSkipped
<1>3. KeptForCause' /\ CopiedBack'
  BY DEF Edit, KeptForCause, Restoring, CopiedBack
<1>4. OutcomeFresh'
  BY IdleType DEF Edit, OutcomeFresh
<1> QED BY <1>2, <1>3, <1>4 DEF Inv, TInv

LEMMA ClearInv ==
    ASSUME Inv, TInv', NEW p \in Path, ClearEntry(p)
    PROVE  Inv'
<1>0. /\ op \in Op /\ workspace \in Tree /\ IsTree(workspace) /\ op.pc = "clear"
      /\ p \notin op.kept /\ p \notin Skipped /\ workspace[p] # "none" /\ op.done = {}
      /\ UNCHANGED <<snapshot, outcome>>
  BY DEF Inv, TypeOK, AlwaysTrees, ClearEntry, CopiedBack
<1>1. OutcomeFresh'
  BY <1>0, OutcomeNone
<1>2. CASE MayRemove(p) /\ ~HoldsKept(p)
  <2>1. workspace' = [workspace EXCEPT ![p] = "none"] /\ op' = op
    BY <1>2 DEF ClearEntry
  <2>2. workspace'[p] = "none" /\ \A q \in Path : q # p => workspace'[q] = workspace[q]
    BY <1>0, <2>1, TreeType DEF Entry
  <2>3. IsTree(workspace')
    <3>1. ChildrenIn(workspace, p) = {} /\ "none" \in Entry
      BY <1>2 DEF HoldsKept, Entry
    <3>2. IsTree([workspace EXCEPT ![p] = "none"])
      BY <1>0, <3>1, SetTree
    <3> QED BY <2>1, <3>2
  <2>4. AlwaysTrees' /\ StagingVisited' /\ NothingSkipped'
    BY <1>0, <2>1, <2>3 DEF Inv, AlwaysTrees, StagingVisited, NothingSkipped
  <2>5. KeptForCause'
    <3>1. op.kept \subseteq Path /\ Skipped \subseteq Path
      BY <1>0, TreeAssumption DEF Op
    <3>2. \A q \in Path : HasKept(q) => HasKept(q)'
      BY <1>0, <2>1, <2>2, <3>1 DEF HasKept
    <3>3. \A q : Covers(q)' <=> Covers(q)
      BY <1>0, <2>1 DEF Covers
    <3> QED BY <1>0, <2>1, <2>2, <3>1, <3>2, <3>3 DEF Inv, KeptForCause, Restoring
  <2>6. CopiedBack'
    BY <1>0, <2>1 DEF CopiedBack
  <2> QED BY <1>1, <2>4, <2>5, <2>6 DEF Inv, TInv
<1>3. CASE ~(MayRemove(p) /\ ~HoldsKept(p))
  <2>1. /\ workspace' = workspace /\ op'.pc = op.pc /\ op'.id = op.id /\ op'.staging = op.staging
        /\ op'.done = op.done /\ op'.kept = op.kept \cup {p}
        /\ op'.report = IF MayRemove(p) THEN op.report ELSE op.report \cup {p}
    BY <1>0, <1>3 DEF ClearEntry, Op
  <2>2. AlwaysTrees' /\ StagingVisited' /\ NothingSkipped'
    BY <1>0, <2>1 DEF Inv, AlwaysTrees, StagingVisited, NothingSkipped
  <2>3. \A q : Covers(q)' <=> Covers(q)
    BY <1>0, <2>1 DEF Covers
  <2>4. \A q \in Path : HasKept(q) => HasKept(q)'
    BY <2>1 DEF HasKept
  <2>5. op.report \subseteq op.kept /\ op'.report \subseteq op'.kept
    BY <1>0, <2>1 DEF Inv, KeptForCause, Restoring
  <2>6. CASE ~MayRemove(p)
    <3>1. ~Covers(p) /\ p \in op'.report
      BY <2>1, <2>6 DEF MayRemove
    <3>2. KeptForCause'
      BY <1>0, <2>1, <2>3, <2>4, <2>5, <2>6, <3>1 DEF Inv, KeptForCause, Restoring, Op
    <3> QED BY <1>0, <1>1, <2>1, <2>2, <3>2 DEF Inv, TInv, CopiedBack
  <2>7. CASE MayRemove(p)
    <3>1. HoldsKept(p) /\ ChildrenIn(workspace, p) \subseteq Skipped \cup op.kept
      BY <1>3, <2>7 DEF ClearEntry
    <3>2. workspace[p] = "dir"
      BY <1>0, <3>1, LeafOfTree DEF HoldsKept
    <3>3. HasKept(p)'
      BY <2>1, <3>1 DEF HoldsKept, HasKept, ChildrenIn
    <3>4. KeptForCause'
      BY <1>0, <2>1, <2>3, <2>4, <2>5, <2>7, <3>2, <3>3 DEF Inv, KeptForCause, Restoring, Op
    <3> QED BY <1>0, <1>1, <2>1, <2>2, <3>4 DEF Inv, TInv, CopiedBack
  <2> QED BY <2>6, <2>7
<1> QED BY <1>2, <1>3

LEMMA ClearEndsInv ==
    ASSUME Inv, TInv', ClearDone \/ \E i \in Id : RestoreBegin(i)
    PROVE  Inv'
<1>0. op \in Op
  BY DEF Inv, TypeOK
<1>1. CASE ClearDone
  <2>1. /\ op.pc = "clear" /\ op'.pc = "restore" /\ op'.id = op.id /\ op'.staging = op.staging
        /\ op'.done = {} /\ op.done = {} /\ op'.kept = op.kept /\ op'.report = op.report
        /\ UNCHANGED <<workspace, snapshot, outcome>>
    BY <1>0, <1>1 DEF ClearDone, Op, Inv, CopiedBack
  <2>2. AlwaysTrees' /\ StagingVisited' /\ NothingSkipped' /\ OutcomeFresh'
    BY <2>1, OutcomeNone DEF Inv, AlwaysTrees, StagingVisited, NothingSkipped
  <2>3. KeptForCause'
    BY <2>1 DEF Inv, KeptForCause, Restoring, HasKept, Covers
  <2>4. CopiedBack'
    BY <1>1, <2>1 DEF ClearDone, Cleared, CopiedBack
  <2> QED BY <2>2, <2>3, <2>4 DEF Inv, TInv
<1>2. ASSUME NEW i \in Id, RestoreBegin(i) PROVE Inv'
  <2>1. /\ op'.pc = "clear" /\ op'.staging = Bare /\ op'.done = {} /\ op'.kept = {}
        /\ op'.report = {} /\ outcome'.id = 0 /\ UNCHANGED <<workspace, snapshot>>
    BY <1>2, IdleType DEF RestoreBegin, Op
  <2>2. AlwaysTrees' /\ StagingVisited' /\ NothingSkipped'
    BY <2>1, BareType, BareIsTree, TreeAssumption
       DEF Inv, AlwaysTrees, StagingVisited, NothingSkipped
  <2>3. KeptForCause' /\ CopiedBack' /\ OutcomeFresh'
    BY <2>1 DEF KeptForCause, CopiedBack, OutcomeFresh
  <2> QED BY <2>2, <2>3 DEF Inv, TInv
<1> QED BY <1>1, <1>2

(* Where an entry is due, its directory has been copied back. *)
LEMMA DueHasRoom ==
    ASSUME Inv, NEW p \in Path, Due(p), Writable(p)
    PROVE  /\ op.pc = "restore" /\ op.id \in Id /\ snapshot[op.id][p] \in Entry \ {"none"}
           /\ Parent[p] \in DirsOf(workspace)
           /\ snapshot[op.id][p] = "dir" \/ ChildrenIn(workspace, p) = {}
<1>1. op.pc = "restore" /\ op.id \in Id /\ Covers(p)
  BY DEF Due, Inv, IdFits
<1>2. snapshot[op.id] \in Tree /\ IsTree(snapshot[op.id]) /\ IsTree(workspace)
  BY <1>1 DEF Inv, TypeOK, AlwaysTrees
<1>3. snapshot[op.id][p] \in Entry \ {"none"}
  BY <1>1, <1>2 DEF Covers, Tree
<1>4. Parent[p] \in DirsOf(workspace)
  <2>1. Parent[p] \in DirsOf(snapshot[op.id])
    BY <1>2, <1>3 DEF IsTree
  <2>2. Parent[p] \in op.done => workspace[Parent[p]] = snapshot[op.id][Parent[p]]
    BY <1>1 DEF Inv, CopiedBack
  <2> QED BY <2>1, <2>2, TreeAssumption DEF Due, DirsOf
<1>5. snapshot[op.id][p] = "dir" \/ workspace[p] # "dir"
  BY StoreAssumption DEF Writable
<1> QED BY <1>1, <1>2, <1>3, <1>4, <1>5, LeafOfTree

LEMMA RestoreEntryInv ==
    ASSUME Inv, TInv', NEW p \in Path, RestoreEntry(p)
    PROVE  Inv'
<1> DEFINE e == snapshot[op.id][p]
<1>0. /\ op \in Op /\ workspace \in Tree /\ IsTree(workspace) /\ Due(p) /\ Writable(p)
      /\ workspace' = [workspace EXCEPT ![p] = e] /\ UNCHANGED <<snapshot, outcome>>
  BY DEF Inv, TypeOK, AlwaysTrees, RestoreEntry
<1>1. /\ op.pc = "restore" /\ op.id \in Id /\ e \in Entry /\ e # "none"
      /\ Parent[p] \in DirsOf(workspace) /\ (e = "dir" \/ ChildrenIn(workspace, p) = {})
  BY <1>0, DueHasRoom
<1>2. /\ op'.pc = "restore" /\ op'.id = op.id /\ op'.staging = op.staging
      /\ op'.done = op.done \cup {p} /\ op'.kept = op.kept /\ op'.report = op.report
  BY <1>0, <1>1 DEF RestoreEntry, Op
<1>3. workspace'[p] = e /\ (\A q \in Path : q # p => workspace'[q] = workspace[q])
  <2> HIDE DEF e
  <2> QED BY <1>0, <1>1, TreeType
<1>4. IsTree(workspace')
  <2>1. IsTree([workspace EXCEPT ![p] = e])
    <3> HIDE DEF e
    <3> QED BY <1>0, <1>1, SetTree
  <2> QED BY <1>0, <2>1
<1>5. AlwaysTrees'
  BY <1>0, <1>4 DEF Inv, AlwaysTrees
<1>6. StagingVisited' /\ NothingSkipped'
  BY <1>0, <1>1, <1>2 DEF Inv, StagingVisited, NothingSkipped
<1>7. \A q : Covers(q)' <=> Covers(q)
  BY <1>0, <1>2 DEF Covers
<1>8. KeptForCause'
  <2>1. op.kept \subseteq Path /\ Skipped \subseteq Path
    BY <1>0, TreeAssumption DEF Op
  <2>2. \A q \in Path : workspace[q] # "none" => workspace'[q] # "none"
    BY <1>1, <1>3
  <2>3. \A q \in Path : HasKept(q) => HasKept(q)'
    BY <1>2, <2>1, <2>2 DEF HasKept
  <2>4. \A q \in Path : workspace[q] = "dir" => workspace'[q] = "dir"
    BY <1>0, <1>3, StoreAssumption DEF Writable
  <2> QED BY <1>1, <1>2, <1>7, <2>1, <2>2, <2>3, <2>4 DEF Inv, KeptForCause, Restoring
<1>9. CopiedBack'
  <2>1. \A q \in Path : workspace'[q] # "none" => q \in Skipped \cup op'.kept \cup op'.done
    BY <1>1, <1>2, <1>3 DEF Inv, CopiedBack
  <2>2. ASSUME NEW q \in op'.done
        PROVE  Covers(q)' /\ workspace'[q] = snapshot'[op'.id][q]
    <3>1. q \in Path
      BY <1>0, <1>2 DEF Op
    <3>2. CASE q = p
      BY <1>0, <1>1, <1>2, <1>3, <3>2 DEF Covers
    <3>3. CASE q # p
      BY <1>0, <1>1, <1>2, <1>3, <1>7, <3>1, <3>3 DEF Inv, CopiedBack
    <3> QED BY <3>2, <3>3
  <2> QED BY <1>2, <2>1, <2>2 DEF CopiedBack
<1>10. OutcomeFresh'
  BY <1>0, <1>1, OutcomeNone
<1> QED BY <1>5, <1>6, <1>8, <1>9, <1>10 DEF Inv, TInv

(* A restore that ends: torn, failed, or done with the promised result. *)
LEMMA RestoreEndsInv ==
    ASSUME Inv, TInv', RestoreFails \/ RestoreDone
                       \/ \E p \in Path, c \in Content : RestoreTorn(p, c)
    PROVE  Inv'
<1>0. op \in Op /\ workspace \in Tree /\ IsTree(workspace)
  BY DEF Inv, TypeOK, AlwaysTrees
<1>1. CASE RestoreFails
  BY <1>0, <1>1, IdleInv, OutcomeNone DEF RestoreFails
<1>2. ASSUME NEW p \in Path, NEW c \in Content, RestoreTorn(p, c) PROVE Inv'
  <2>1. /\ op.pc = "restore" /\ Parent[p] \in DirsOf(workspace)
        /\ snapshot[op.id][p] = "dir" \/ ChildrenIn(workspace, p) = {}
    BY <1>2, DueHasRoom DEF RestoreTorn
  <2>2. ChildrenIn(workspace, p) = {}
    BY <1>2, <2>1, StoreAssumption DEF RestoreTorn
  <2>3. c \in Entry
    BY DEF Entry
  <2>4. IsTree([workspace EXCEPT ![p] = c])
    BY <1>0, <2>1, <2>2, <2>3, SetTree
  <2> QED BY <1>2, <2>1, <2>4, IdleInv, OutcomeNone DEF RestoreTorn
<1>3. CASE RestoreDone
  <2>1. /\ op.pc = "restore" /\ op' = Idle /\ UNCHANGED <<workspace, snapshot>>
        /\ outcome'.id = op.id /\ outcome'.report = op.report
        /\ \A p \in Path : Covers(p) => p \in op.done
    BY <1>3 DEF RestoreDone
  <2>2. ASSUME NEW p \in Path, p \notin Skipped
        PROVE  \/ workspace[p] = snapshot[op.id][p]
               \/ /\ snapshot[op.id][p] = "none"
                  /\ p \in op.report \/ (workspace[p] = "dir" /\ HoldsKept(p))
    <3>1. CASE Covers(p)
      BY <2>1, <3>1 DEF Inv, CopiedBack
    <3>2. CASE ~Covers(p) /\ workspace[p] # "none"
      <4>1. p \in op.kept
        BY <2>1, <2>2, <3>2 DEF Inv, CopiedBack
      <4>2. p \in op.report \/ (workspace[p] = "dir" /\ HasKept(p))
        BY <2>1, <4>1 DEF Inv, KeptForCause, Restoring
      <4>3. HasKept(p) => HoldsKept(p)
        BY <1>0, TreeAssumption DEF HasKept, HoldsKept, ChildrenIn, Op
      <4> QED BY <3>2, <4>2, <4>3 DEF Covers
    <3> QED BY <3>1, <3>2 DEF Covers
  <2>3. RestoreExact'
    BY <2>1, <2>2 DEF RestoreExact, HoldsKept, ChildrenIn
  <2>4. OutcomeFresh'
    BY <2>1, <2>3, IdleType DEF OutcomeFresh
  <2> QED BY <1>0, <2>1, <2>4, IdleInv
<1> QED BY <1>1, <1>2, <1>3

LEMMA NextInv == Inv /\ [Next]_vars => Inv'
<1> SUFFICES ASSUME Inv, [Next]_vars PROVE Inv'
  OBVIOUS
<1>1. TInv'
  BY NextTInv DEF Inv, TInv
<1>2. CASE Crash
  <2>1. op' = Idle /\ UNCHANGED <<workspace, snapshot, outcome>> /\ IsTree(workspace)
    BY <1>2 DEF Crash, Inv, AlwaysTrees
  <2> QED BY <1>1, <2>1, IdleInv, OutcomeKept, IdleType
<1>3. CASE UNCHANGED vars
  <2>1. UNCHANGED <<workspace, snapshot, outcome, op>>
    BY <1>3 DEF vars
  <2>2. KeptForCause' /\ CopiedBack' /\ OutcomeFresh'
    BY <2>1, OutcomeKept DEF Inv, KeptForCause, Restoring, HasKept, Covers, CopiedBack
  <2> QED BY <1>1, <2>1, <2>2 DEF Inv, TInv, AlwaysTrees, StagingVisited, NothingSkipped
<1> QED BY <1>1, <1>2, <1>3, SnapshotInv, PruneInv, EditInv, ClearInv, ClearEndsInv,
           RestoreEntryInv, RestoreEndsInv DEF Next

-----------------------------------------------------------------------------
(* What it gives *)

(* No snapshot, prune, restore, failure or crash ever leaves an entry        *)
(* without its directory, in the workspace or in a snapshot.                 *)
THEOREM TreesStay == Spec => []AlwaysTrees
<1>1. Inv => AlwaysTrees
  BY DEF Inv
<1> QED BY <1>1, InitInv, NextInv, PTL DEF Spec

(* A restore that reports success has put back exactly the snapshot, but for *)
(* what is skipped, what it reported and the directories around them         *)
(* (CheckpointStore::restore).                                               *)
THEOREM RestoresAreExact == Spec => []RestoreExact
<1>1. Inv => RestoreExact
  BY DEF Inv, OutcomeFresh, RestoreExact
<1> QED BY <1>1, InitInv, NextInv, PTL DEF Spec

(* Once clear_workspace_contents is through, copy_tree meets no link and no  *)
(* special file at a place it is to write to.                                *)
THEOREM NeverWritesThrough == Spec => []NoWriteThrough
<1>1. Inv => NoWriteThrough
  <2> SUFFICES ASSUME Inv, op.pc = "restore", NEW p \in Path, Covers(p), p \notin op.done
               PROVE  workspace[p] \notin {"link", "special"}
    BY DEF NoWriteThrough
  <2>1. p \notin Skipped
    BY DEF Inv, NothingSkipped, Covers, IdFits
  <2>2. workspace[p] # "none" => p \in op.kept
    BY <2>1 DEF Inv, CopiedBack
  <2>3. p \in op.kept => workspace[p] = "dir"
    BY DEF Inv, KeptForCause, Restoring
  <2> QED BY <2>2, <2>3
<1> QED BY <1>1, InitInv, NextInv, PTL DEF Spec

-----------------------------------------------------------------------------
(* Pruning *)

(* What is about to be pruned is beyond the cap. *)
VictimsExcess == op.pc = "prune" => op.victims \subseteq Excess(stored)

RInv == TInv /\ VictimsExcess /\ RetainedAreWhole

(* More ids above i leave i beyond the cap. *)
LEMMA ExcessGrows ==
    ASSUME NEW a \in SUBSET Id, NEW b \in SUBSET Id, NEW i \in Id, NEW k \in Id,
           {j \in a : j > i} \subseteq {j \in b : j > k}, i \in Excess(a), k \in b
    PROVE  k \in Excess(b)
<1> DEFINE A == {j \in a : j > i}
           B == {j \in b : j > k}
<1>1. IsFiniteSet(Id)
  BY StoreAssumption, FS_Interval DEF Id
<1>2. IsFiniteSet(B)
  BY <1>1, FS_Subset
<1>3. Cardinality(A) <= Cardinality(B) /\ IsFiniteSet(A)
  BY <1>2, FS_Subset
<1>4. Cardinality(A) \in Nat /\ Cardinality(B) \in Nat
  BY <1>2, <1>3, FS_CardinalityType
<1> QED BY <1>3, <1>4, StoreAssumption DEF Excess

LEMMA BeyondCap ==
    ASSUME NEW ids \in SUBSET Id, NEW i \in ids
    PROVE  i \in Excess(ids) <=> ~(Retained = 0 \/ Cardinality({j \in ids : j > i}) < Retained)
<1>1. IsFiniteSet(Id)
  BY StoreAssumption, FS_Interval DEF Id
<1>2. {j \in ids : j > i} \subseteq Id
  OBVIOUS
<1>3. Cardinality({j \in ids : j > i}) \in Nat
  BY <1>1, <1>2, FS_Subset, FS_CardinalityType
<1> QED BY <1>3, StoreAssumption DEF Excess

LEMMA NextRInv == RInv /\ [Next]_vars => RInv'
<1> SUFFICES ASSUME RInv, [Next]_vars PROVE RInv'
  OBVIOUS
<1>0. /\ TInv' /\ stored \subseteq Id /\ stored' \subseteq Id /\ op \in Op
      /\ snapshot \in [Id -> Tree] /\ captured \in [Id -> Tree]
  BY NextTInv DEF RInv, TInv, TypeOK
<1>1. \A i \in stored : snapshot[i] = captured[i] \/ i \in Excess(stored)
  BY <1>0, BeyondCap DEF RInv, RetainedAreWhole
<1>2. ASSUME \A i \in stored' : snapshot'[i] = captured'[i] \/ i \in Excess(stored'),
             op'.pc = "prune" => op'.victims \subseteq Excess(stored')
      PROVE  RInv'
  <2>1. RetainedAreWhole'
    BY <1>0, <1>2, BeyondCap DEF RetainedAreWhole
  <2> QED BY <1>0, <1>2, <2>1 DEF RInv, VictimsExcess
<1>3. ASSUME UNCHANGED <<stored, snapshot, captured>>,
             op'.pc = "prune" => op.pc = "prune" /\ op'.victims \subseteq op.victims
      PROVE  RInv'
  BY <1>1, <1>2, <1>3 DEF RInv, VictimsExcess
<1>4. CASE Publish
  <2>1. /\ op.id \in Id /\ stored' = stored \cup {op.id}
        /\ snapshot'[op.id] = op.staging /\ captured'[op.id] = op.staging
        /\ \A i \in Id : i # op.id => snapshot'[i] = snapshot[i] /\ captured'[i] = captured[i]
    BY <1>0, <1>4 DEF Publish, RInv, TInv, IdFits
  <2>2. op'.pc = "prune" => op'.victims \subseteq Excess(stored')
    BY <1>4, IdleType DEF Publish, Op
  <2>3. \A i \in stored : i \in Excess(stored) => i \in Excess(stored')
    <3> TAKE i \in stored
    <3> HAVE i \in Excess(stored)
    <3>1. {j \in stored : j > i} \subseteq {j \in stored' : j > i} /\ i \in Id /\ i \in stored'
      BY <1>0, <2>1
    <3> QED BY <1>0, <3>1, ExcessGrows
  <2> QED BY <1>0, <1>1, <1>2, <2>1, <2>2, <2>3
<1>5. ASSUME NEW p \in Path, PruneEntry(p) PROVE RInv'
  <2>1. Victim \in op.victims /\ Victim \in Id /\ op.victims \subseteq Excess(stored)
    BY <1>5, VictimIs DEF PruneEntry, RInv, TInv, VictimsExcess
  <2>2. \A i \in Id : i # Victim => snapshot'[i] = snapshot[i]
    BY <1>0, <1>5, <2>1 DEF PruneEntry
  <2> QED BY <1>0, <1>1, <1>2, <1>5, <2>1, <2>2 DEF PruneEntry
<1>6. CASE PruneDone
  <2>1. /\ Victim \in op.victims /\ Victim \in Id /\ \A j \in op.victims : Victim <= j
        /\ op.victims \subseteq Excess(stored) /\ op.victims \subseteq Id
    BY <1>0, <1>6, VictimIs DEF PruneDone, RInv, TInv, VictimsExcess, Op
  <2>2. /\ stored' = stored \ {Victim} /\ op'.victims = op.victims \ {Victim}
        /\ UNCHANGED <<snapshot, captured>>
    BY <1>0, <1>6 DEF PruneDone, Op
  <2>3. ASSUME NEW i \in Excess(stored), i # Victim PROVE i \in Excess(stored')
    <3>1. i \in stored' /\ i \in Id
      BY <1>0, <2>2, <2>3, ExcessType
    <3>2. CASE i < Victim
      <4>1. ASSUME NEW j \in stored, j > Victim PROVE j \in stored' /\ j > i
        BY <1>0, <2>1, <2>2, <3>1, <3>2, <4>1 DEF Id
      <4>2. {j \in stored : j > Victim} \subseteq {j \in stored' : j > i}
        BY <4>1
      <4> QED BY <1>0, <2>1, <3>1, <4>2, ExcessGrows
    <3>3. CASE Victim < i
      <4>1. {j \in stored : j > i} \subseteq {j \in stored' : j > i}
        BY <1>0, <2>1, <2>2, <3>1, <3>3 DEF Id
      <4> QED BY <1>0, <2>3, <3>1, <4>1, ExcessGrows
    <3> QED BY <2>1, <2>3, <3>1, <3>2, <3>3 DEF Id
  <2> QED BY <1>1, <1>2, <2>1, <2>2, <2>3
<1>7. CASE PruneFails
  BY <1>0, <1>3, <1>7 DEF PruneFails, Op
<1>8. CASE UNCHANGED vars
  BY <1>3, <1>8 DEF vars
<1>9. ASSUME NEW p \in Path, CopyEntry(p) PROVE RInv'
  <2>1. op' = Idle \/ op'.pc = op.pc
    BY <1>0, <1>9 DEF CopyEntry, Op
  <2> QED BY <1>3, <1>9, <2>1, IdleType DEF CopyEntry
<1>10. ASSUME NEW p \in Path, ClearEntry(p) \/ RestoreEntry(p) PROVE RInv'
  <2>1. op'.pc = op.pc /\ op.pc # "prune"
    BY <1>0, <1>10 DEF ClearEntry, RestoreEntry, Due, Op
  <2> QED BY <1>3, <1>10, <2>1 DEF ClearEntry, RestoreEntry
<1>11. CASE SnapshotBegin \/ PruneEnd \/ ClearDone \/ \E i \in Id : RestoreBegin(i)
  <2>1. op'.pc # "prune"
    BY <1>0, <1>11, IdleType DEF SnapshotBegin, PruneEnd, ClearDone, RestoreBegin, Op
  <2> QED BY <1>3, <1>11, <2>1 DEF SnapshotBegin, PruneEnd, ClearDone, RestoreBegin
<1>12. CASE \/ SnapshotFails \/ RecordCheckpoint \/ RestoreFails \/ RestoreDone \/ Crash
            \/ \E p \in Path, c \in Content : RestoreTorn(p, c)
  BY <1>3, <1>12, IdleType
     DEF SnapshotFails, RecordCheckpoint, RestoreFails, RestoreDone, Crash, RestoreTorn
<1>13. CASE \E p \in Path, e \in Entry : Edit(p, e)
  BY <1>3, <1>13 DEF Edit
<1> QED BY <1>4, <1>5, <1>6, <1>7, <1>8, <1>9, <1>10, <1>11, <1>12, <1>13 DEF Next

(* Whatever prunes fail or are cut off, the snapshots within the retention   *)
(* hold what was captured (CheckpointStore::prune_old_snapshots).            *)
THEOREM PruneSparesRetained == Spec => []RetainedAreWhole
<1>1. Init => RInv
  BY InitTInv, IdleType DEF Init, RInv, VictimsExcess, RetainedAreWhole
<1>2. RInv => RetainedAreWhole
  BY DEF RInv
<1> QED BY <1>1, <1>2, NextRInv, PTL DEF Spec
-----------------------------------------------------------------------------
(* The two lists *)

(* i is older than as many of ids as are retained. *)
Beyond(ids, i) == Retained > 0 /\ Cardinality({j \in ids : j > i}) >= Retained

Listed == checkpoints \cup {op.id}

(* Between operations the session lists what is stored, and all of it but    *)
(* what pruning should have removed; from publishing to recording, the list  *)
(* that is about to be says which snapshots may go, and may be gone.         *)
ListsAgree ==
    /\ op.pc \notin {"prune", "record"} =>
         checkpoints \subseteq stored /\ \A i \in stored \ checkpoints : Beyond(checkpoints, i)
    /\ op.pc \in {"prune", "record"} =>
         /\ \A i \in op.victims \cup (Listed \ stored) : Beyond(Listed, i)
         /\ \A i \in stored \ Listed : Beyond(Listed, i)

LInv == TInv /\ (crashes = 0 => ListsAgree)

LEMMA BeyondGrows ==
    ASSUME NEW a \in SUBSET Id, NEW b \in SUBSET Id, NEW i \in Id, NEW k \in Id,
           {j \in a : j > i} \subseteq {j \in b : j > k}, Beyond(a, i)
    PROVE  Beyond(b, k)
<1> DEFINE A == {j \in a : j > i}
           B == {j \in b : j > k}
<1>1. IsFiniteSet(Id)
  BY StoreAssumption, FS_Interval DEF Id
<1>2. IsFiniteSet(B)
  BY <1>1, FS_Subset
<1>3. Cardinality(A) <= Cardinality(B) /\ IsFiniteSet(A)
  BY <1>2, FS_Subset
<1>4. Cardinality(A) \in Nat /\ Cardinality(B) \in Nat
  BY <1>2, <1>3, FS_CardinalityType
<1> QED BY <1>3, <1>4, StoreAssumption DEF Beyond

LEMMA ExcessIsBeyond == \A ids : Excess(ids) = {i \in ids : Beyond(ids, i)}
BY DEF Excess, Beyond

(* Dropping the excess drops nothing that makes an id beyond the cap. *)
LEMMA CappedStays ==
    ASSUME NEW ids \in SUBSET Id, NEW i \in Id, Beyond(ids, i)
    PROVE  Beyond(Capped(ids), i)
<1> DEFINE E == {j \in Excess(ids) : j > i}
<1>0. Capped(ids) \in SUBSET Id
  BY DEF Capped
<1>1. CASE E = {}
  <2>1. {j \in ids : j > i} \subseteq {j \in Capped(ids) : j > i}
    BY <1>1 DEF Capped
  <2> QED BY <1>0, <2>1, BeyondGrows
<1>2. CASE E # {}
  <2>1. E \in SUBSET (0 .. MaxSnapshots) /\ MaxSnapshots \in Nat
    <3>1. MaxSnapshots \in Nat
      BY StoreAssumption
    <3>2. E \subseteq Id
      BY ExcessType
    <3>3. Id \subseteq 0 .. MaxSnapshots
      BY <3>1 DEF Id
    <3> QED BY <3>1, <3>2, <3>3
  <2>2. PICK m \in E : \A j \in E : j <= m
    <3> HIDE DEF E
    <3> QED BY <1>2, <2>1, Latest
  <2>3. m \in Id /\ m > i /\ Beyond(ids, m)
    BY ExcessIsBeyond, ExcessType
  <2>4. {j \in ids : j > m} \subseteq {j \in Capped(ids) : j > i}
    <3> SUFFICES ASSUME NEW j \in ids, j > m PROVE j \notin Excess(ids) /\ j > i
      BY DEF Capped
    <3>1. j > i
      BY <2>3 DEF Id
    <3>2. j \in E => j <= m
      BY <2>2
    <3>3. ~(j <= m)
      BY <2>3 DEF Id
    <3> QED BY <3>1, <3>2, <3>3
  <2> QED BY <1>0, <2>3, <2>4, BeyondGrows
<1> QED BY <1>1, <1>2

LEMMA NextLInv == LInv /\ [Next]_vars => LInv'
<1> SUFFICES ASSUME LInv, [Next]_vars PROVE LInv'
  OBVIOUS
<1>0. /\ TInv' /\ TInv /\ stored \subseteq Id /\ checkpoints \subseteq Id /\ op \in Op
      /\ crashes \in Nat
  BY NextTInv DEF LInv, TInv, TypeOK
<1>1. CASE Crash
  BY <1>0, <1>1 DEF Crash, LInv
<1>2. ASSUME UNCHANGED <<stored, checkpoints, crashes>>, op.pc \notin {"prune", "record"},
             op'.pc \notin {"prune", "record"}
      PROVE  LInv'
  BY <1>0, <1>2 DEF LInv, ListsAgree, Beyond
<1>3. SUFFICES ASSUME crashes = 0, ListsAgree, ~Crash, crashes' = crashes PROVE ListsAgree'
  <2>1. crashes' = crashes \/ Crash
    BY DEF Next, Edit, SnapshotBegin, SnapshotFails, Publish, CopyEntry, PruneEntry, PruneDone,
           PruneFails, PruneEnd, RecordCheckpoint, RestoreBegin, ClearEntry, RestoreEntry,
           RestoreTorn, ClearDone, RestoreFails, RestoreDone, vars
  <2> QED BY <1>0, <1>1, <1>3, <2>1 DEF LInv
<1>4. ASSUME UNCHANGED <<stored, checkpoints>>, op'.id = op.id,
             op.pc \in {"prune", "record"}, op'.pc \in {"prune", "record"},
             op'.victims \subseteq op.victims
      PROVE  ListsAgree'
  BY <1>3, <1>4 DEF ListsAgree, Listed, Beyond
<1>5. CASE Publish
  <2>1. /\ op.pc = "copy" /\ op.id \in Id /\ op'.pc = "prune" /\ op'.id = op.id
        /\ stored' = stored \cup {op.id} /\ op'.victims = Excess(stored')
        /\ checkpoints' = checkpoints
    BY <1>0, <1>5, IdleType DEF Publish, TInv, IdFits, Op
  <2>2. Listed' = checkpoints \cup {op.id} /\ Listed' \in SUBSET Id
    BY <1>0, <2>1 DEF Listed
  <2>3. Listed' \subseteq stored'
    BY <1>3, <2>1, <2>2 DEF ListsAgree
  <2>4. ASSUME NEW i \in stored' \ Listed' PROVE Beyond(Listed', i)
    <3>1. Beyond(checkpoints, i) /\ i \in Id
      BY <1>0, <1>3, <2>1, <2>2, <2>4 DEF ListsAgree
    <3>2. {j \in checkpoints : j > i} \subseteq {j \in Listed' : j > i}
      BY <2>2
    <3> QED BY <1>0, <2>2, <3>1, <3>2, BeyondGrows
  <2>5. ASSUME NEW i \in Excess(stored') PROVE Beyond(Listed', i)
    <3>1. i \in Id /\ Beyond(stored', i) /\ stored' \in SUBSET Id
      BY <1>0, <2>1, ExcessIsBeyond
    <3>2. CASE \E k \in stored' \ Listed' : k > i
      <4>1. PICK k \in stored' \ Listed' : k > i
        BY <3>2
      <4>2. {j \in Listed' : j > k} \subseteq {j \in Listed' : j > i} /\ k \in Id
        BY <2>2, <3>1, <4>1 DEF Id
      <4> QED BY <2>2, <2>4, <3>1, <4>2, BeyondGrows
    <3>3. CASE ~ \E k \in stored' \ Listed' : k > i
      <4>1. {j \in stored' : j > i} \subseteq {j \in Listed' : j > i}
        BY <3>3
      <4> QED BY <2>2, <3>1, <4>1, BeyondGrows
    <3> QED BY <3>2, <3>3
  <2> QED BY <2>1, <2>3, <2>4, <2>5 DEF ListsAgree, Beyond
<1>6. CASE PruneDone
  <2>1. /\ op.pc = "prune" /\ op'.pc = "prune" /\ op'.id = op.id /\ Victim \in op.victims
        /\ op'.victims = op.victims \ {Victim} /\ stored' = stored \ {Victim}
        /\ checkpoints' = checkpoints
    BY <1>0, <1>6, VictimIs DEF PruneDone, Op, TInv
  <2> QED BY <1>3, <2>1 DEF ListsAgree, Listed, Beyond
<1>7. CASE RecordCheckpoint
  <2>1. /\ op.pc = "record" /\ op.id \in Id /\ op'.pc = "idle" /\ stored' = stored
        /\ checkpoints' = Capped(Listed) /\ Listed \in SUBSET Id
    BY <1>0, <1>7, IdleType DEF RecordCheckpoint, TInv, IdFits, Listed
  <2>2. checkpoints' \subseteq stored
    BY <1>3, <2>1, ExcessIsBeyond DEF ListsAgree, Capped
  <2>3. ASSUME NEW i \in stored, i \notin checkpoints' PROVE Beyond(checkpoints', i)
    <3>1. Beyond(Listed, i) /\ i \in Id
      BY <1>0, <1>3, <2>1, <2>3, ExcessIsBeyond DEF ListsAgree, Capped
    <3> QED BY <2>1, <3>1, CappedStays
  <2> QED BY <2>1, <2>2, <2>3 DEF ListsAgree, Beyond
<1>8. CASE PruneFails \/ PruneEnd \/ UNCHANGED vars \/ \E p \in Path : PruneEntry(p)
  <2>1. CASE op.pc \in {"prune", "record"}
    BY <1>0, <1>4, <1>8, <2>1 DEF PruneFails, PruneEnd, PruneEntry, vars, Op
  <2>2. CASE op.pc \notin {"prune", "record"}
    BY <1>2, <1>3, <1>8, <2>2 DEF PruneFails, PruneEnd, PruneEntry, vars, LInv
  <2> QED BY <2>1, <2>2
<1>9. CASE \E p \in Path : CopyEntry(p) \/ ClearEntry(p) \/ RestoreEntry(p)
  <2>1. op' = Idle \/ op'.pc = op.pc
    BY <1>0, <1>9 DEF CopyEntry, ClearEntry, RestoreEntry, Op
  <2>2. op.pc \notin {"prune", "record"} /\ UNCHANGED <<stored, checkpoints>>
    BY <1>9 DEF CopyEntry, ClearEntry, RestoreEntry, Due
  <2> QED BY <1>2, <1>3, <2>1, <2>2, IdleType DEF LInv
<1>10. CASE SnapshotBegin \/ ClearDone \/ \E i \in Id : RestoreBegin(i)
  <2>1. op'.pc \in {"copy", "restore", "clear"}
    BY <1>0, <1>10, IdleType DEF SnapshotBegin, ClearDone, RestoreBegin, Op
  <2>2. op.pc \notin {"prune", "record"} /\ UNCHANGED <<stored, checkpoints>>
    BY <1>10 DEF SnapshotBegin, ClearDone, RestoreBegin
  <2> QED BY <1>2, <1>3, <2>1, <2>2 DEF LInv
<1>11. CASE \/ SnapshotFails \/ RestoreFails \/ RestoreDone
            \/ \E p \in Path, c \in Content : RestoreTorn(p, c)
  BY <1>2, <1>3, <1>11, IdleType
     DEF SnapshotFails, RestoreFails, RestoreDone, RestoreTorn, Due, LInv
<1>12. CASE \E p \in Path, e \in Entry : Edit(p, e)
  <2>1. UNCHANGED <<stored, checkpoints, op>>
    BY <1>12 DEF Edit
  <2> QED BY <1>3, <2>1 DEF ListsAgree, Listed, Beyond
<1> QED BY <1>3, <1>5, <1>6, <1>7, <1>8, <1>9, <1>10, <1>11, <1>12 DEF Next
-----------------------------------------------------------------------------
(* The session files: their invariant *)

Place == Workspace \cup {"nowhere"}

Name == Place \X SessionId

Tag == [key : Key, id : SessionId, workspace : Place, roots : SUBSET Dir]

Record == [id : SessionId, workspace : Place, extra_roots : SUBSET Dir,
           rootsMac : Tag \cup {NoTag}, mac : 0 .. MaxKey]

Version == [at : Nat, rec : Record, exists : BOOLEAN, synced : BOOLEAN, whole : BOOLEAN,
            opened : Name \cup {<<>>}]

Host == [pc : {"off", "publish", "readback", "ready", "temp", "sync"}, fresh : 0 .. MaxKey,
         key : 0 .. MaxKey, rec : Record, opened : Name \cup {<<>>}, store : BOOLEAN,
         temp : Record, kind : {"turn", "fresh", "resumed"}, slot : Nat]

SessionsTypeOK ==
    /\ keyFile \in [key : 0 .. MaxKey + 1, durable : BOOLEAN, lost : BOOLEAN]
    /\ filed \in [File -> Seq(Version)] /\ \A f \in File : filed[f] # <<>>
    /\ resolves \in [Dir -> Dir \cup {Gone}]
    /\ host \in [Process -> Host]
    /\ given \subseteq Name \X Dir
    /\ acked \in [File -> Nat]
    /\ count \in [key : 0 .. MaxKey, save : Nat, meddle : Nat, at : Nat, launch : 0 .. MaxLaunch]

(* The tag of the roots signs only what was given. *)
Vouched(r, gv) ==
    r.rootsMac.key # NoKey =>
        \A d \in r.rootsMac.roots : <<<<r.rootsMac.workspace, r.rootsMac.id>>, d>> \in gv

SameSession(r, t) ==
    t.id = r.id /\ t.workspace = r.workspace /\ t.extra_roots = r.extra_roots

Saving(h) == h.pc \in {"temp", "sync"}

Last(versions) == versions[Len(versions)]

(* What a process holds: the shared key or none, the file its session was    *)
(* opened on, roots that were given, and a copy under way of this session.   *)
HostFine(h, key, fs, gv) ==
    /\ h.key # NoKey => h.key = key
    /\ h.temp.mac \in {NoKey, h.key} /\ Vouched(h.temp, gv)
    /\ h.rec = NoRecord \/ h.rec.workspace \in Workspace
    /\ \A d \in h.rec.extra_roots : <<FileOf(h.rec), d>> \in gv
    /\ h.store \/ Saving(h) => FileOf(h.rec) = h.opened
    /\ Saving(h) => h.rec.workspace \in Workspace /\ SameSession(h.rec, h.temp)
    /\ h.pc = "sync" => h.slot <= Last(fs[FileOf(h.temp)]).at

(* What stands in a file, in any version a power loss may bring back. *)
VersionFine(v, f, kf, gv) ==
    /\ v.whole /\ v.synced /\ (v.exists => v.opened = f)
    /\ kf.lost \/ v.rec.mac \in {NoKey, kf.key}
    /\ Vouched(v.rec, gv)

InOrder(versions, latest) ==
    \A i \in DOMAIN versions : versions[1].at <= versions[i].at /\ versions[i].at <= latest

HostsFine == \A p \in Process : HostFine(host[p], keyFile.key, filed, given)

FilesFine ==
    \A f \in File :
        /\ acked[f] <= filed[f][1].at /\ InOrder(filed[f], count.at)
        /\ \A i \in DOMAIN filed[f] : VersionFine(filed[f][i], f, keyFile, given)

SInv == SessionsTypeOK /\ HostsFine /\ FilesFine

-----------------------------------------------------------------------------
(* The session files: types and helpers *)

LEMMA SessionBounds ==
    /\ MaxKey \in Nat /\ MaxLaunch \in Nat /\ 0 \in SessionId /\ SessionId \subseteq Nat
    /\ Key = 1 .. MaxKey /\ NoKey = 0 /\ BadKey = MaxKey + 1 /\ NoTag.key = NoKey
    /\ NoKey \in 0 .. MaxKey
BY SessionFilesAssumption DEF SessionId, Key, NoKey, BadKey, NoTag

LEMMA NoRecordType ==
    /\ NoRecord \in Record /\ NoRecord.mac = NoKey /\ NoRecord.extra_roots = {}
    /\ NoRecord.rootsMac = NoTag
BY SessionBounds DEF NoRecord, SessionRecord, Record, Place

LEMMA NewRecordType ==
    ASSUME NEW id \in SessionId, NEW w \in Workspace, NEW roots \in SUBSET Dir
    PROVE  /\ SessionRecord(id, w, roots) \in Record
           /\ SessionRecord(id, w, roots).id = id
           /\ SessionRecord(id, w, roots).workspace = w
           /\ SessionRecord(id, w, roots).extra_roots = roots
BY SessionBounds DEF SessionRecord, Record, Place

LEMMA NoHostType ==
    /\ NoHost \in Host /\ NoHost.pc = "off" /\ NoHost.key = NoKey /\ NoHost.rec = NoRecord
    /\ NoHost.temp = NoRecord /\ NoHost.store = FALSE
BY SessionBounds, NoRecordType DEF NoHost, Host

LEMMA AbsentType ==
    /\ Absent \in Version /\ Absent.at = 0 /\ Absent.rec = NoRecord /\ Absent.exists = FALSE
    /\ Absent.whole = TRUE /\ Absent.synced = TRUE
BY SessionBounds, NoRecordType DEF Absent, Version

LEMMA FileOfType ==
    ASSUME NEW r \in Record
    PROVE  FileOf(r) \in Name /\ (r.workspace \in Workspace => FileOf(r) \in File)
BY DEF FileOf, Name, File, Record

LEMMA FileIsName == \A f \in File : f \in Name /\ f = <<f[1], f[2]>> /\ f[1] \in Workspace /\ f[2] \in SessionId
BY DEF File, Name, Place

LEMMA LastType ==
    ASSUME NEW s \in Seq(Version), s # <<>>
    PROVE  /\ Len(s) \in DOMAIN s /\ 1 \in DOMAIN s /\ Last(s) \in Version /\ Last(s) = s[Len(s)]
           /\ s[1].at \in Nat /\ Last(s).at \in Nat
           /\ \A i \in DOMAIN s : s[i] \in Version /\ s[i].at \in Nat
<1>1. Len(s) \in Nat \ {0} /\ DOMAIN s = 1 .. Len(s)
  OBVIOUS
<1>2. \A i \in DOMAIN s : s[i] \in Version
  OBVIOUS
<1>3. \A v \in Version : v.at \in Nat
  BY DEF Version
<1> QED BY <1>1, <1>2, <1>3 DEF Last

(* What is written to a file: this session, signed by the key at hand.       *)
LEMMA Prepared ==
    ASSUME NEW key \in 0 .. MaxKey, NEW r \in Record
    PROVE  /\ prepare_record(key, r) \in Record /\ SameSession(r, prepare_record(key, r))
           /\ prepare_record(key, r).mac = key
           /\ prepare_record(key, r).rootsMac = sign_roots(key, r)
           /\ sign_roots(key, r) \in Tag \cup {NoTag}
           /\ \A gv : (\A d \in r.extra_roots : <<FileOf(r), d>> \in gv)
                        => Vouched(prepare_record(key, r), gv)
<1>1. sign_roots(key, r) \in Tag \cup {NoTag}
  BY SessionBounds DEF sign_roots, Tag, Record
<1>2. /\ prepare_record(key, r) \in Record /\ SameSession(r, prepare_record(key, r))
      /\ prepare_record(key, r).mac = key
      /\ prepare_record(key, r).rootsMac = sign_roots(key, r)
  BY <1>1 DEF prepare_record, sign_record, Record, SameSession
<1>3. ASSUME NEW gv, \A d \in r.extra_roots : <<FileOf(r), d>> \in gv
      PROVE  Vouched(prepare_record(key, r), gv)
  <2>1. CASE key = NoKey
    BY <1>2, <2>1, SessionBounds DEF Vouched, sign_roots
  <2>2. CASE key # NoKey
    <3>1. /\ sign_roots(key, r).roots = r.extra_roots /\ sign_roots(key, r).id = r.id
          /\ sign_roots(key, r).workspace = r.workspace
      BY <2>2 DEF sign_roots
    <3> QED BY <1>2, <1>3, <3>1 DEF Vouched, FileOf
  <2> QED BY <2>1, <2>2
<1> QED BY <1>1, <1>2, <1>3

(* A version that survives is one of those there were. *)
LEMMA SurvivorIs ==
    ASSUME NEW s \in Seq(Version), s # <<>>, NEW t \in Nat
    PROVE  \E i \in DOMAIN s : Survivor(s, t) = [s[i] EXCEPT !.whole = @ /\ s[i].synced]
<1> DEFINE kept == {i \in DOMAIN s : i = 1 \/ s[i].at <= t}
<1>1. Len(s) \in Nat /\ DOMAIN s \subseteq 0 .. Len(s) /\ 1 \in kept
  BY LastType
<1>2. kept \in SUBSET (0 .. Len(s)) /\ kept # {} /\ kept \subseteq DOMAIN s
  BY <1>1
<1>3. \E i \in kept : \A j \in kept : j <= i
  <2> HIDE DEF kept
  <2> QED BY <1>1, <1>2, Latest
<1> DEFINE k == CHOOSE i \in kept : \A j \in kept : j <= i
<1>4. k \in kept
  <2> HIDE DEF kept
  <2> QED BY <1>3
<1>5. Survivor(s, t) = [s[k] EXCEPT !.whole = @ /\ s[k].synced]
  BY DEF Survivor
<1> HIDE DEF k
<1> QED BY <1>2, <1>4, <1>5

-----------------------------------------------------------------------------
(* What outlasts a step *)

(* What is given only grows, and so do the newest versions. *)
LEMMA HostKept ==
    ASSUME NEW h \in Host, NEW key, NEW key2, NEW fs, NEW fs2, NEW gv, NEW gv2,
           HostFine(h, key, fs, gv), gv \subseteq gv2, h.key # NoKey => key2 = key,
           \A f \in File : /\ Last(fs[f]).at \in Nat /\ Last(fs2[f]).at \in Nat
                           /\ Last(fs[f]).at <= Last(fs2[f]).at
    PROVE  HostFine(h, key2, fs2, gv2)
<1>1. h.pc = "sync" => FileOf(h.temp) \in File
  BY FileOfType DEF HostFine, Saving, SameSession, Host
<1>2. h.pc = "sync" => h.slot <= Last(fs2[FileOf(h.temp)]).at
  BY <1>1 DEF HostFine, Host
<1>3. Vouched(h.temp, gv2)
  BY DEF HostFine, Vouched
<1> QED BY <1>2, <1>3 DEF HostFine

LEMMA VersionKept ==
    ASSUME NEW v, NEW f, NEW kf, NEW kf2, NEW gv, NEW gv2,
           VersionFine(v, f, kf, gv), gv \subseteq gv2,
           kf2.lost \/ (~kf.lost /\ (kf2.key = kf.key \/ kf.key = NoKey))
    PROVE  VersionFine(v, f, kf2, gv2)
BY DEF VersionFine, Vouched

Count == [key : 0 .. MaxKey, save : Nat, meddle : Nat, at : Nat, launch : 0 .. MaxLaunch]

(* A step of one process that touches no file. *)
LEMMA OnlyHost ==
    ASSUME SInv, NEW p \in Process, NEW h \in Host, Becomes(p, h),
           UNCHANGED <<keyFile, filed, resolves, acked>>,
           given \subseteq given', given' \subseteq Name \X Dir,
           count' \in Count, count'.at = count.at,
           HostFine(h, keyFile.key, filed, given')
    PROVE  SInv'
<1>1. SessionsTypeOK'
  BY DEF SInv, SessionsTypeOK, Becomes, Count
<1>2. \A f \in File : Last(filed[f]).at \in Nat
  BY LastType DEF SInv, SessionsTypeOK
<1>3. ASSUME NEW q \in Process PROVE HostFine(host'[q], keyFile.key, filed, given')
  <2>1. CASE q = p
    BY <2>1 DEF SInv, SessionsTypeOK, Becomes
  <2>2. CASE q # p
    <3>1. host'[q] = host[q] /\ host[q] \in Host /\ HostFine(host[q], keyFile.key, filed, given)
      BY <2>2 DEF SInv, SessionsTypeOK, Becomes, HostsFine
    <3> QED BY <1>2, <3>1, HostKept
  <2> QED BY <2>1, <2>2
<1>4. FilesFine'
  BY VersionKept DEF SInv, FilesFine, InOrder
<1> QED BY <1>1, <1>3, <1>4 DEF SInv, HostsFine

(* One file gets a version. *)
LEMMA PutVersion ==
    ASSUME SInv, NEW f \in File, NEW v \in Version, Put(f, v), v.at = count.at + 1,
           VersionFine(v, f, keyFile, given), count' \in Count, count'.at = count.at + 1,
           UNCHANGED <<keyFile, acked, given>>
    PROVE  /\ filed' \in [File -> Seq(Version)] /\ \A g \in File : filed'[g] # <<>>
           /\ FilesFine' /\ Last(filed'[f]) = v
           /\ \A g \in File : /\ Last(filed[g]).at \in Nat /\ Last(filed'[g]).at \in Nat
                              /\ Last(filed[g]).at <= Last(filed'[g]).at
<1>0. /\ filed \in [File -> Seq(Version)] /\ \A g \in File : filed[g] # <<>>
      /\ count.at \in Nat
  BY DEF SInv, SessionsTypeOK
<1> DEFINE s == filed[f]
<1>1. /\ s \in Seq(Version) /\ s # <<>> /\ Len(s) \in Nat \ {0} /\ DOMAIN s = 1 .. Len(s)
  BY <1>0
<1>2. /\ Append(s, v) \in Seq(Version) /\ Append(s, v) # <<>> /\ Len(Append(s, v)) = Len(s) + 1
      /\ DOMAIN Append(s, v) = 1 .. Len(s) + 1 /\ Append(s, v)[Len(s) + 1] = v
      /\ \A i \in DOMAIN s : Append(s, v)[i] = s[i]
  BY <1>1
<1>3. filed' \in [File -> Seq(Version)] /\ \A g \in File : filed'[g] # <<>>
  BY <1>0, <1>2 DEF Put
<1>4. filed'[f] = Append(s, v) /\ \A g \in File : g # f => filed'[g] = filed[g]
  BY <1>0 DEF Put
<1> HIDE DEF s
<1>5. Last(filed'[f]) = v
  BY <1>2, <1>4 DEF Last
<1>6. \A g \in File : Last(filed[g]).at \in Nat /\ Last(filed[g]).at <= count.at
  <2> TAKE g \in File
  <2>1. Last(filed[g]) = filed[g][Len(filed[g])] /\ Len(filed[g]) \in DOMAIN filed[g]
        /\ Last(filed[g]).at \in Nat
    BY <1>0, LastType
  <2> QED BY <2>1 DEF SInv, FilesFine, InOrder
<1>7. \A g \in File : /\ Last(filed[g]).at \in Nat /\ Last(filed'[g]).at \in Nat
                      /\ Last(filed[g]).at <= Last(filed'[g]).at
  <2> TAKE g \in File
  <2>1. CASE g = f
    <3>1. Last(filed'[g]).at = count.at + 1
      BY <1>5, <2>1
    <3> QED BY <1>0, <1>6, <3>1
  <2>2. CASE g # f
    <3>1. Last(filed'[g]) = Last(filed[g])
      BY <1>4, <2>2
    <3> QED BY <1>6, <3>1
  <2> QED BY <2>1, <2>2
<1>8. ASSUME NEW g \in File
      PROVE  /\ acked'[g] <= filed'[g][1].at /\ InOrder(filed'[g], count'.at)
             /\ \A i \in DOMAIN filed'[g] : VersionFine(filed'[g][i], g, keyFile', given')
  <2>0. /\ acked[g] <= filed[g][1].at /\ InOrder(filed[g], count.at)
        /\ \A i \in DOMAIN filed[g] : VersionFine(filed[g][i], g, keyFile, given)
        /\ \A i \in DOMAIN filed[g] : filed[g][i].at \in Nat
        /\ 1 \in DOMAIN filed[g]
    BY <1>0, LastType DEF SInv, FilesFine
  <2>1. CASE g # f
    BY <1>0, <1>4, <2>0, <2>1 DEF InOrder
  <2>2. CASE g = f
    <3>1. s = filed[g] /\ Append(s, v)[1] = s[1] /\ s[1].at <= count.at /\ s[1].at \in Nat
      BY <1>2, <2>0, <2>2 DEF InOrder, s
    <3>2. \A i \in DOMAIN Append(s, v) : i \in DOMAIN s \/ Append(s, v)[i] = v
      BY <1>1, <1>2
    <3>3. InOrder(Append(s, v), count.at + 1)
      BY <1>0, <1>2, <2>0, <3>1, <3>2 DEF InOrder
    <3>4. \A i \in DOMAIN Append(s, v) : VersionFine(Append(s, v)[i], g, keyFile, given)
      BY <1>2, <2>0, <2>2, <3>1, <3>2
    <3> QED BY <1>4, <2>0, <2>2, <3>1, <3>3, <3>4
  <2> QED BY <2>1, <2>2
<1> QED BY <1>3, <1>5, <1>7, <1>8 DEF FilesFine

-----------------------------------------------------------------------------
(* The session files: the invariant is one *)

LEMMA SessionsStart == SessionsInit \/ SessionsOn(NoKey) => SInv
<1> SUFFICES ASSUME NEW kf \in {NoKey, BadKey}, SessionsOn(kf) PROVE SInv
  BY DEF SessionsInit
<1>1. kf \in 0 .. MaxKey + 1
  BY SessionBounds
<1>2. <<Absent>> \in Seq(Version) /\ <<Absent>> # <<>> /\ DOMAIN <<Absent>> = {1}
      /\ <<Absent>>[1] = Absent
  BY AbsentType
<1>3. \A f \in File : filed[f] = <<Absent>> /\ acked[f] = 0
  BY DEF SessionsOn
<1>4. \A p \in Process : host[p] = NoHost
  BY DEF SessionsOn
<1>5. SessionsTypeOK
  <2>1. filed \in [File -> Seq(Version)] /\ \A f \in File : filed[f] # <<>>
    BY <1>2 DEF SessionsOn
  <2>2. host \in [Process -> Host] /\ acked \in [File -> Nat]
    BY NoHostType DEF SessionsOn
  <2> QED BY <1>1, <2>1, <2>2, SessionBounds DEF SessionsOn, SessionsTypeOK
<1>6. HostsFine
  BY <1>4, NoHostType, NoRecordType, SessionBounds DEF HostsFine, HostFine, Vouched, Saving
<1>7. FilesFine
  <2>1. InOrder(<<Absent>>, 0)
    BY <1>2, AbsentType DEF InOrder
  <2>2. \A f \in File : VersionFine(Absent, f, keyFile, given)
    BY AbsentType, NoRecordType, SessionBounds DEF VersionFine, Vouched
  <2>3. count.at = 0
    BY DEF SessionsOn
  <2>4. <<Absent>>[1].at = 0
    BY <1>2, AbsentType
  <2> HIDE DEF Absent
  <2> QED BY <1>2, <1>3, <2>1, <2>2, <2>3, <2>4 DEF FilesFine
<1> QED BY <1>5, <1>6, <1>7 DEF SInv

(* What a process has before a step. *)
LEMMA HostHas ==
    ASSUME SInv, NEW p \in Process
    PROVE  /\ host[p] \in Host /\ HostFine(host[p], keyFile.key, filed, given)
           /\ host[p].key \in 0 .. MaxKey /\ host[p].rec \in Record /\ host[p].temp \in Record
           /\ host[p].rec.extra_roots \subseteq Dir
           /\ (Live(p) => host[p].rec.workspace \in Workspace)
           /\ count \in Count /\ count.launch \in 0 .. MaxLaunch /\ count.at \in Nat
           /\ given \subseteq Name \X Dir
<1>1. host[p] \in Host /\ HostFine(host[p], keyFile.key, filed, given) /\ count \in Count
      /\ given \subseteq Name \X Dir
  BY DEF SInv, SessionsTypeOK, HostsFine, Count
<1>2. host[p].rec \in Record /\ host[p].temp \in Record /\ host[p].key \in 0 .. MaxKey
  BY <1>1 DEF Host
<1>3. host[p].rec.extra_roots \subseteq Dir
  BY <1>2 DEF Record
<1>4. Live(p) => host[p].rec.workspace \in Workspace
  BY <1>1 DEF Live, HostFine
<1>5. count.launch \in 0 .. MaxLaunch /\ count.at \in Nat
  BY <1>1 DEF Count
<1> QED BY <1>1, <1>2, <1>3, <1>4, <1>5

(* The key is read, by a process that has none yet. *)
LEMMA ReadKeyKeeps ==
    ASSUME SInv, NEW p \in Process, ReadKey(p, host[p]), ~Saving(host[p]),
           UNCHANGED <<keyFile, filed, resolves, given, acked, count>>
    PROVE  SInv'
<1> DEFINE key == IF keyFile.key = BadKey THEN NoKey ELSE keyFile.key
           h == [host[p] EXCEPT !.pc = "ready", !.fresh = NoKey, !.key = key]
<1>0. /\ host[p] \in Host /\ HostFine(host[p], keyFile.key, filed, given) /\ count \in Count
      /\ given \subseteq Name \X Dir
  BY HostHas
<1>1. key \in 0 .. MaxKey /\ (key # NoKey => key = keyFile.key)
  BY SessionBounds DEF SInv, SessionsTypeOK
<1>2. host[p].key # NoKey => key = host[p].key
  <2>1. host[p].key \in 0 .. MaxKey /\ (host[p].key # NoKey => host[p].key = keyFile.key)
    BY <1>0, HostHas DEF HostFine
  <2> QED BY <2>1, SessionBounds
<1> HIDE DEF key
<1>3. h \in Host
  BY <1>0, <1>1, SessionBounds DEF Host
<1>4. /\ h.key = key /\ h.pc = "ready" /\ h.temp = host[p].temp /\ h.rec = host[p].rec
      /\ h.store = host[p].store /\ h.opened = host[p].opened
  BY <1>0 DEF Host
<1>5. Becomes(p, h)
  BY DEF ReadKey, key
<1> HIDE DEF h
<1>6. HostFine(h, keyFile.key, filed, given)
  BY <1>0, <1>1, <1>2, <1>4 DEF HostFine, Saving
<1> QED BY <1>0, <1>3, <1>5, <1>6, OnlyHost

LEMMA KeyKeeps ==
    ASSUME SInv, NEW p \in Process, load_or_create_key(p) \/ publish_key(p) \/ ReadBack(p)
    PROVE  SInv'
<1>0. /\ host[p] \in Host /\ HostFine(host[p], keyFile.key, filed, given) /\ count \in Count
      /\ given \subseteq Name \X Dir
  BY HostHas
<1>1. CASE load_or_create_key(p)
  <2>1. CASE keyFile.key # NoKey
    BY <1>1, <2>1, ReadKeyKeeps DEF load_or_create_key, Saving
  <2>2. CASE keyFile.key = NoKey
    <3> DEFINE h == [host[p] EXCEPT !.pc = "publish", !.fresh = count.key + 1]
    <3>1. /\ Becomes(p, h) /\ count.key < MaxKey /\ count' = [count EXCEPT !.key = @ + 1]
          /\ UNCHANGED <<keyFile, filed, resolves, given, acked>> /\ host[p].pc = "off"
      BY <1>1, <2>2 DEF load_or_create_key
    <3>2. count.key \in 0 .. MaxKey /\ count.key + 1 \in 0 .. MaxKey
      BY <1>0, <3>1, SessionBounds DEF Count
    <3>3. h \in Host
      BY <1>0, <3>2 DEF Host
    <3>4. /\ h.key = host[p].key /\ h.pc = "publish" /\ h.temp = host[p].temp
          /\ h.rec = host[p].rec /\ h.store = host[p].store /\ h.opened = host[p].opened
      BY <1>0 DEF Host
    <3>5. count' \in Count /\ count'.at = count.at
      BY <1>0, <3>1, <3>2 DEF Count
    <3> HIDE DEF h
    <3>6. HostFine(h, keyFile.key, filed, given)
      BY <1>0, <3>4 DEF HostFine, Saving
    <3> QED BY <1>0, <3>1, <3>3, <3>5, <3>6, OnlyHost
  <2> QED BY <2>1, <2>2
<1>2. CASE publish_key(p)
  <2> DEFINE hb == [host[p] EXCEPT !.pc = "readback"]
             hr == [host[p] EXCEPT !.pc = "ready", !.fresh = NoKey]
  <2>1. /\ hb \in Host /\ hb.key = host[p].key /\ hb.pc = "readback" /\ hb.temp = host[p].temp
        /\ hb.rec = host[p].rec /\ hb.store = host[p].store /\ hb.opened = host[p].opened
    BY <1>0 DEF Host
  <2>2. /\ hr \in Host /\ hr.key = host[p].key /\ hr.pc = "ready" /\ hr.temp = host[p].temp
        /\ hr.rec = host[p].rec /\ hr.store = host[p].store /\ hr.opened = host[p].opened
    BY <1>0, SessionBounds DEF Host
  <2>3. \/ keyFile' = Published(host[p].fresh) /\ Becomes(p, hb)
        \/ Becomes(p, hr) /\ UNCHANGED keyFile
    BY <1>2 DEF publish_key
  <2>4. host[p].pc = "publish" /\ UNCHANGED <<filed, resolves, given, acked, count>>
    BY <1>2 DEF publish_key
  <2> HIDE DEF hb, hr
  <2>5. HostFine(hb, keyFile.key, filed, given) /\ HostFine(hr, keyFile.key, filed, given)
    BY <1>0, <2>1, <2>2, <2>4 DEF HostFine, Saving
  <2>6. CASE Becomes(p, hr) /\ UNCHANGED keyFile
    BY <1>0, <2>2, <2>4, <2>5, <2>6, OnlyHost
  <2>7. CASE keyFile' = Published(host[p].fresh) /\ Becomes(p, hb)
    <3>1. /\ keyFile' \in [key : 0 .. MaxKey + 1, durable : BOOLEAN, lost : BOOLEAN]
          /\ keyFile'.lost = keyFile.lost /\ (keyFile'.key = keyFile.key \/ keyFile.key = NoKey)
      <4>1. host[p].fresh \in 0 .. MaxKey + 1
        <5>1. host[p].fresh \in 0 .. MaxKey
          BY <1>0 DEF Host
        <5> QED BY <5>1, SessionBounds
      <4>2. keyFile \in [key : 0 .. MaxKey + 1, durable : BOOLEAN, lost : BOOLEAN]
        BY DEF SInv, SessionsTypeOK
      <4>3. CASE keyFile.key = NoKey
        <5>1. keyFile' = [keyFile EXCEPT !.key = host[p].fresh, !.durable = FALSE]
          BY <2>7, <4>3 DEF Published
        <5> QED BY <4>1, <4>2, <4>3, <5>1
      <4>4. CASE keyFile.key # NoKey
        BY <2>7, <4>2, <4>4 DEF Published
      <4> QED BY <4>3, <4>4
    <3>2. host' \in [Process -> Host] /\ \A q \in Process : host'[q] = host[q] \/ host'[q] = hb
      BY <2>1, <2>7 DEF SInv, SessionsTypeOK, Becomes
    <3>3. SessionsTypeOK'
      BY <2>4, <3>1, <3>2 DEF SInv, SessionsTypeOK
    <3>4. \A f \in File : Last(filed[f]).at \in Nat
      BY LastType DEF SInv, SessionsTypeOK
    <3>5. ASSUME NEW q \in Process PROVE HostFine(host'[q], keyFile'.key, filed, given)
      <4>1. host'[q] \in Host /\ HostFine(host'[q], keyFile.key, filed, given)
        BY <2>5, <3>2 DEF SInv, HostsFine
      <4>2. host'[q].key # NoKey => keyFile'.key = keyFile.key
        BY <3>1, <4>1 DEF HostFine
      <4> QED BY <3>4, <4>1, <4>2, HostKept
    <3>6. BOOLEAN = {TRUE, FALSE} /\ keyFile.lost \in BOOLEAN
      BY DEF SInv, SessionsTypeOK
    <3>7. FilesFine'
      BY <2>4, <3>1, <3>6, VersionKept DEF SInv, FilesFine
    <3> QED BY <2>4, <3>3, <3>5, <3>7 DEF SInv, HostsFine
  <2> QED BY <2>3, <2>6, <2>7
<1>3. CASE ReadBack(p)
  BY <1>3, ReadKeyKeeps DEF ReadBack, Saving
<1> QED BY <1>1, <1>2, <1>3

(* A save begins, of a session whose roots were all given. *)
LEMMA BeginSaveKeeps ==
    ASSUME SInv, NEW p \in Process, NEW h \in Host, NEW r \in Record, NEW counted \in Count,
           NEW kind \in {"turn", "fresh", "resumed"}, BeginSave(p, h, r, counted, kind),
           UNCHANGED <<keyFile, filed, resolves, acked>>, counted.at = count.at,
           given \subseteq given', given' \subseteq Name \X Dir,
           h.key = host[p].key, r.workspace \in Workspace, h.opened = FileOf(r),
           \A d \in r.extra_roots : <<FileOf(r), d>> \in given'
    PROVE  SInv'
<1> DEFINE t == prepare_record(h.key, r)
           hn == [h EXCEPT !.pc = "temp", !.rec = r, !.kind = kind, !.temp = t]
<1>0. HostFine(host[p], keyFile.key, filed, given) /\ h.key \in 0 .. MaxKey
  BY HostHas
<1>1. /\ t \in Record /\ SameSession(r, t) /\ t.mac = h.key /\ Vouched(t, given')
  BY <1>0, Prepared
<1> HIDE DEF t
<1>2. /\ hn \in Host /\ hn.pc = "temp" /\ hn.key = h.key /\ hn.rec = r /\ hn.temp = t
      /\ hn.opened = h.opened
  BY <1>1 DEF Host
<1>3. Becomes(p, hn)
  BY DEF BeginSave, t
<1>4. count' \in Count /\ count'.at = count.at
  BY DEF BeginSave, Count
<1> HIDE DEF hn
<1>5. HostFine(hn, keyFile.key, filed, given')
  BY <1>0, <1>1, <1>2 DEF HostFine, Saving
<1> QED BY <1>2, <1>3, <1>4, <1>5, OnlyHost

(* A session begins, or goes on, without a save. *)
LEMMA UnsavedKeeps ==
    ASSUME SInv, NEW p \in Process, NEW h \in Host, Becomes(p, h),
           UNCHANGED <<keyFile, filed, resolves, acked>>,
           given \subseteq given', given' \subseteq Name \X Dir,
           count' \in Count, count'.at = count.at,
           h.pc = "ready", h.key = host[p].key, h.temp \in {NoRecord, host[p].temp},
           h.rec.workspace \in Workspace, h.store => h.opened = FileOf(h.rec),
           \A d \in h.rec.extra_roots : <<FileOf(h.rec), d>> \in given'
    PROVE  SInv'
<1>0. HostFine(host[p], keyFile.key, filed, given)
  BY HostHas
<1>1. h.temp.mac \in {NoKey, h.key} /\ Vouched(h.temp, given')
  BY <1>0, NoRecordType, SessionBounds DEF HostFine, Vouched
<1>2. HostFine(h, keyFile.key, filed, given')
  BY <1>0, <1>1 DEF HostFine, Saving
<1> QED BY <1>2, OnlyHost

LEMMA SaveTurnKeeps ==
    ASSUME SInv, NEW p \in Process, SaveTurn(p)
    PROVE  SInv'
<1>1. /\ host[p].store /\ Live(p) /\ BeginSave(p, host[p], host[p].rec, count, "turn")
      /\ UNCHANGED <<keyFile, filed, resolves, given, acked>>
  BY DEF SaveTurn
<1>2. /\ host[p].opened = FileOf(host[p].rec)
      /\ \A d \in host[p].rec.extra_roots : <<FileOf(host[p].rec), d>> \in given
  BY <1>1, HostHas DEF HostFine
<1> QED BY <1>1, <1>2, HostHas, BeginSaveKeeps

(* What a failed save leaves. *)
LEMMA SaveFailedIs ==
    ASSUME NEW h \in Host
    PROVE  /\ SaveFailed(h) \in Host /\ SaveFailed(h).pc = "ready" /\ SaveFailed(h).key = h.key
           /\ SaveFailed(h).rec = h.rec /\ SaveFailed(h).temp = NoRecord
           /\ SaveFailed(h).store = (h.store /\ h.kind # "fresh")
           /\ SaveFailed(h).opened = IF h.kind = "fresh" THEN <<>> ELSE h.opened
<1>1. /\ Saved(h) \in Host /\ Saved(h).pc = "ready" /\ Saved(h).key = h.key
      /\ Saved(h).rec = h.rec /\ Saved(h).temp = NoRecord /\ Saved(h).store = h.store
      /\ Saved(h).opened = h.opened
  BY NoRecordType DEF Saved, Host
<1> DEFINE st == h.store /\ h.kind # "fresh"
           opn == IF h.kind = "fresh" THEN <<>> ELSE h.opened
<1>2. st \in BOOLEAN /\ opn \in Name \cup {<<>>}
  BY DEF Host
<1>3. SaveFailed(h) = [Saved(h) EXCEPT !.store = st, !.opened = opn]
  BY <1>1 DEF SaveFailed
<1> HIDE DEF st, opn
<1>4. /\ SaveFailed(h) \in Host /\ SaveFailed(h).pc = "ready" /\ SaveFailed(h).key = h.key
      /\ SaveFailed(h).rec = h.rec /\ SaveFailed(h).temp = NoRecord
      /\ SaveFailed(h).store = st /\ SaveFailed(h).opened = opn
  BY <1>1, <1>2, <1>3 DEF Host
<1> QED BY <1>4 DEF st, opn

LEMMA FreshKeeps ==
    ASSUME SInv, NEW p \in Process, NEW w \in Workspace, NEW roots \in SUBSET Dir,
           MayLaunch(p, w), Fresh(p, w, roots), UNCHANGED <<keyFile, filed, resolves, acked>>
    PROVE  SInv'
<1> DEFINE id == count.launch + 1
           r == SessionRecord(id, w, roots)
           h == [host[p] EXCEPT !.opened = <<w, id>>, !.store = TRUE, !.kind = "fresh"]
<1>0. host[p] \in Host /\ count \in Count /\ given \subseteq Name \X Dir
  BY HostHas
<1>1. id \in SessionId /\ Launched \in Count /\ Launched.at = count.at
  BY <1>0, SessionBounds DEF MayLaunch, Launched, Count, SessionId
<1>2. /\ r \in Record /\ r.id = id /\ r.workspace = w /\ r.extra_roots = roots
      /\ FileOf(r) = <<w, id>> /\ <<w, id>> \in Name
  BY <1>1, NewRecordType DEF FileOf, Name, Place
<1>3. /\ Given(<<w, id>>, roots)
      /\ \/ BeginSave(p, h, r, Launched, "fresh")
         \/ Becomes(p, [SaveFailed(h) EXCEPT !.rec = r]) /\ count' = Launched
  BY DEF Fresh
<1> HIDE DEF id, r
<1>4. /\ given \subseteq given' /\ given' \subseteq Name \X Dir
      /\ \A d \in roots : <<<<w, id>>, d>> \in given'
  BY <1>0, <1>2, <1>3 DEF Given
<1>5. h \in Host /\ h.key = host[p].key /\ h.opened = <<w, id>> /\ h.kind = "fresh"
  BY <1>0, <1>2 DEF Host
<1> HIDE DEF h
<1>6. CASE BeginSave(p, h, r, Launched, "fresh")
  BY <1>1, <1>2, <1>4, <1>5, <1>6, BeginSaveKeeps
<1>7. CASE Becomes(p, [SaveFailed(h) EXCEPT !.rec = r]) /\ count' = Launched
  <2> DEFINE hn == [SaveFailed(h) EXCEPT !.rec = r]
  <2>1. /\ hn \in Host /\ hn.pc = "ready" /\ hn.key = host[p].key /\ hn.temp = NoRecord
        /\ hn.rec = r /\ ~hn.store
    <3>1. /\ SaveFailed(h) \in Host /\ SaveFailed(h).pc = "ready" /\ SaveFailed(h).key = host[p].key
          /\ SaveFailed(h).temp = NoRecord /\ ~SaveFailed(h).store
      BY <1>5, SaveFailedIs
    <3> QED BY <1>2, <3>1 DEF Host
  <2>2. Becomes(p, hn)
    BY <1>7
  <2> HIDE DEF hn
  <2> QED BY <1>1, <1>2, <1>4, <1>7, <2>1, <2>2, UnsavedKeeps
<1> QED BY <1>3, <1>6, <1>7

(* The roots a launch is told are directories that stand. *)
LEMMA ToldStand ==
    ASSUME SInv, NEW p \in Process, NEW w, NEW roots \in Told(p, w)
    PROVE  roots \in SUBSET Dir /\ \A d \in roots : Stands(d)
BY HostHas DEF Told, Inherited

LEMMA LaunchFreshKeeps ==
    ASSUME SInv, NEW p \in Process, NEW w \in Workspace, launch_fresh(p, w)
    PROVE  SInv'
<1>1. PICK roots \in Told(p, w) : Fresh(p, w, roots)
  BY DEF launch_fresh
<1>2. MayLaunch(p, w) /\ UNCHANGED <<keyFile, filed, resolves, acked>>
  BY DEF launch_fresh
<1> QED BY <1>1, <1>2, ToldStand, FreshKeeps

(* What load hands on is the record of the file, under the file's name. *)
LEMMA LoadIs ==
    ASSUME SInv, NEW p \in Process, NEW f \in File, CanLoad(p, f)
    PROVE  /\ load(p, f) \in Record /\ load(p, f).id = f[2] /\ Vouched(load(p, f), given)
           /\ load(p, f).extra_roots \subseteq Dir
<1> DEFINE r == Newest(f).rec
<1>1. /\ r = Last(filed[f]).rec /\ Last(filed[f]) \in Version
      /\ VersionFine(Last(filed[f]), f, keyFile, given)
  BY LastType DEF SInv, SessionsTypeOK, FilesFine, Newest, Last
<1>2. r \in Record /\ Vouched(r, given)
  BY <1>1 DEF Version, VersionFine
<1>3. load(p, f) = Rebound(host[p].key, r, f[2])
  BY DEF load
<1> HIDE DEF r
<1>4. f[2] \in SessionId /\ host[p].key \in 0 .. MaxKey
  BY FileIsName, HostHas
<1>5. load(p, f) \in Record /\ load(p, f).id = f[2] /\ load(p, f).rootsMac = r.rootsMac
  BY <1>2, <1>3, <1>4 DEF Rebound, sign_record, Record
<1>6. Vouched(load(p, f), given)
  BY <1>2, <1>5 DEF Vouched
<1> QED BY <1>5, <1>6 DEF Record

(* A grant that is restored was given to the session the file names. *)
LEMMA RestoredWereGiven ==
    ASSUME SInv, NEW p \in Process, NEW f \in File, CanLoad(p, f),
           NEW d \in Restored(host[p].key, load(p, f), f[1])
    PROVE  d \in Dir /\ Stands(d) /\ <<f, d>> \in given
<1> DEFINE r == load(p, f)
<1>1. /\ r \in Record /\ r.id = f[2] /\ Vouched(r, given) /\ r.extra_roots \subseteq Dir
  BY LoadIs
<1>2. d \in r.extra_roots /\ Stands(d) /\ r.workspace = f[1] /\ verify_roots(host[p].key, r)
  BY DEF Restored
<1> HIDE DEF r
<1>3. host[p].key # NoKey /\ r.rootsMac = sign_roots(host[p].key, r)
  BY <1>2 DEF verify_roots
<1>4. /\ r.rootsMac.key = host[p].key /\ r.rootsMac.id = r.id
      /\ r.rootsMac.workspace = r.workspace /\ r.rootsMac.roots = r.extra_roots
  BY <1>3 DEF sign_roots
<1>5. <<<<f[1], f[2]>>, d>> \in given
  BY <1>1, <1>2, <1>3, <1>4 DEF Vouched
<1> QED BY <1>1, <1>2, <1>5, FileIsName

LEMMA LaunchResumedKeeps ==
    ASSUME SInv, NEW p \in Process, NEW f \in File, launch_resumed(p, f)
    PROVE  SInv'
<1> DEFINE loaded == load(p, f)
<1>1. PICK told \in Told(p, f[1]), refused \in SUBSET Dir :
          LET roots == (Restored(host[p].key, loaded, f[1]) \ refused) \cup told
              r == [loaded EXCEPT !.workspace = f[1], !.extra_roots = roots]
              h == [host[p] EXCEPT !.opened = f, !.store = TRUE]
          IN \/ Given(f, told) /\ BeginSave(p, h, r, Launched, "resumed")
             \/ Fresh(p, f[1], roots)
  BY DEF launch_resumed
<1>2. /\ MayLaunch(p, f[1]) /\ CanLoad(p, f) /\ UNCHANGED <<keyFile, filed, resolves, acked>>
  BY DEF launch_resumed
<1> DEFINE roots == (Restored(host[p].key, loaded, f[1]) \ refused) \cup told
           r == [loaded EXCEPT !.workspace = f[1], !.extra_roots = roots]
           h == [host[p] EXCEPT !.opened = f, !.store = TRUE]
<1>3. host[p] \in Host /\ count \in Count /\ given \subseteq Name \X Dir
  BY HostHas
<1>4. loaded \in Record /\ loaded.id = f[2] /\ f \in Name /\ f = <<f[1], f[2]>> /\ f[1] \in Workspace
  BY <1>2, LoadIs, FileIsName
<1>5. \A d \in Restored(host[p].key, loaded, f[1]) : d \in Dir /\ <<f, d>> \in given
  BY <1>2, RestoredWereGiven
<1>6. told \in SUBSET Dir
  BY ToldStand
<1>7. roots \in SUBSET Dir
  BY <1>5, <1>6
<1>8. CASE Fresh(p, f[1], roots)
  <2> HIDE DEF roots
  <2> QED BY <1>2, <1>4, <1>7, <1>8, FreshKeeps
<1>9. CASE Given(f, told) /\ BeginSave(p, h, r, Launched, "resumed")
  <2>1. given \subseteq given' /\ given' \subseteq Name \X Dir /\ \A d \in roots : <<f, d>> \in given'
    BY <1>3, <1>4, <1>5, <1>6, <1>9 DEF Given
  <2>2. Launched \in Count /\ Launched.at = count.at
    BY <1>2, <1>3, SessionBounds DEF MayLaunch, Launched, Count
  <2> HIDE DEF loaded, roots
  <2>3. r \in Record /\ r.workspace = f[1] /\ r.extra_roots = roots /\ FileOf(r) = f
    BY <1>4, <1>7 DEF Record, FileOf, Place
  <2>4. h \in Host /\ h.key = host[p].key /\ h.opened = f
    BY <1>3, <1>4 DEF Host
  <2> HIDE DEF r, h
  <2> QED BY <1>2, <1>4, <1>9, <2>1, <2>2, <2>3, <2>4, BeginSaveKeeps
<1> QED BY <1>1, <1>8, <1>9

LEMMA ReconfigurationKeeps ==
    ASSUME SInv, NEW p \in Process, NEW d \in Dir, prepare_runtime_reconfiguration(p, d)
    PROVE  SInv'
<1> DEFINE h == host[p]
           id == IF h.store THEN h.rec.id ELSE count.launch + 1
           roots == Inherited(h.rec.extra_roots \cup {d})
           r == [h.rec EXCEPT !.extra_roots = Inherited(@ \cup {d}),
                              !.id = IF h.store THEN @ ELSE count.launch + 1]
           counted == IF h.store THEN count ELSE Launched
           opened == [h EXCEPT !.opened = FileOf(r), !.store = TRUE]
           ho == [opened EXCEPT !.rec = r]
           hu == [h EXCEPT !.rec = r]
<1>1. /\ h.pc = "ready" /\ Live(p) /\ (~h.store => count.launch < MaxLaunch)
      /\ given' = given \cup {<<FileOf(r), e>> :
                         e \in {d} \cup {x \in Dir : <<FileOf(h.rec), x>> \in given}}
      /\ \/ h.key # NoKey /\ BeginSave(p, opened, r, counted, "turn")
         \/ h.key = NoKey /\ Becomes(p, ho) /\ count' = counted
         \/ ~h.store /\ Becomes(p, hu) /\ count' = counted
      /\ UNCHANGED <<keyFile, filed, resolves, acked>>
  BY DEF prepare_runtime_reconfiguration
<1>2. /\ h \in Host /\ count \in Count /\ given \subseteq Name \X Dir /\ h.rec \in Record
      /\ h.rec.extra_roots \subseteq Dir /\ h.rec.workspace \in Workspace
      /\ \A x \in h.rec.extra_roots : <<FileOf(h.rec), x>> \in given
  BY <1>1, HostHas DEF HostFine
<1>3. counted \in Count /\ counted.at = count.at
  BY <1>1, <1>2, SessionBounds DEF Launched, Count
<1>4. id \in SessionId
  BY <1>1, <1>2, SessionBounds DEF Count, SessionId, Record
<1>5. roots \subseteq h.rec.extra_roots \cup {d} /\ roots \in SUBSET Dir
  BY <1>2 DEF Inherited
<1>6. r = [h.rec EXCEPT !.extra_roots = roots, !.id = id]
  OBVIOUS
<1> HIDE DEF id, roots, counted
<1>7. r \in Record /\ r.workspace = h.rec.workspace /\ r.extra_roots = roots
  BY <1>2, <1>4, <1>5, <1>6 DEF Record
<1> HIDE DEF r
<1>8. FileOf(r) \in Name
  BY <1>7, FileOfType
<1>9. /\ given \subseteq given' /\ given' \subseteq Name \X Dir
      /\ \A x \in roots : <<FileOf(r), x>> \in given'
  <2> DEFINE held == {d} \cup {x \in Dir : <<FileOf(h.rec), x>> \in given}
  <2>1. given' = given \cup {<<FileOf(r), e>> : e \in held}
    BY <1>1
  <2>2. roots \subseteq held /\ held \subseteq Dir
    BY <1>2, <1>5
  <2> HIDE DEF held, h
  <2>3. \A x \in held : <<FileOf(r), x>> \in Name \X Dir
    BY <1>8, <2>2
  <2> QED BY <1>2, <2>1, <2>2, <2>3
<1>10. opened \in Host /\ opened.key = h.key /\ opened.opened = FileOf(r)
  BY <1>2, <1>8 DEF Host
<1>11. /\ ho \in Host /\ ho.key = h.key /\ ho.opened = FileOf(r) /\ ho.rec = r /\ ho.pc = h.pc
       /\ ho.temp = h.temp
  BY <1>2, <1>7, <1>8 DEF Host
<1>12. /\ hu \in Host /\ hu.key = h.key /\ hu.store = h.store /\ hu.rec = r /\ hu.pc = h.pc
       /\ hu.temp = h.temp
  BY <1>2, <1>7 DEF Host
<1> HIDE DEF opened, ho, hu
<1>13. CASE BeginSave(p, opened, r, counted, "turn")
  BY <1>1, <1>2, <1>3, <1>7, <1>9, <1>10, <1>13, BeginSaveKeeps
<1>14. CASE Becomes(p, ho) /\ count' = counted
  BY <1>1, <1>2, <1>3, <1>7, <1>9, <1>11, <1>14, UnsavedKeeps
<1>15. CASE ~h.store /\ Becomes(p, hu) /\ count' = counted
  BY <1>1, <1>2, <1>3, <1>7, <1>9, <1>12, <1>15, UnsavedKeeps
<1> QED BY <1>1, <1>13, <1>14, <1>15

(* A step that leaves the record a process holds, and ends its save. *)
LEMMA SavedIs ==
    ASSUME NEW h \in Host, NEW r \in Record
    PROVE  LET hn == [Saved(h) EXCEPT !.rec = r] IN
           /\ hn \in Host /\ hn.pc = "ready" /\ hn.key = h.key /\ hn.rec = r
           /\ hn.temp = NoRecord /\ hn.store = h.store /\ hn.opened = h.opened
BY NoRecordType DEF Saved, Host

LEMMA SaveFailsKeeps ==
    ASSUME SInv, NEW p \in Process, Saving(host[p]), Becomes(p, SaveFailed(host[p])),
           UNCHANGED <<keyFile, filed, resolves, acked, given, count>>
    PROVE  SInv'
<1> DEFINE h == SaveFailed(host[p])
<1>1. host[p] \in Host /\ HostFine(host[p], keyFile.key, filed, given)
      /\ count \in Count /\ given \subseteq Name \X Dir
  BY HostHas
<1>2. /\ h \in Host /\ h.pc = "ready" /\ h.key = host[p].key /\ h.rec = host[p].rec
      /\ h.temp = NoRecord /\ (h.store => h.opened = host[p].opened)
  BY <1>1, SaveFailedIs
<1> HIDE DEF h
<1>3. h.rec.workspace \in Workspace /\ (h.store => h.opened = FileOf(h.rec))
      /\ \A d \in h.rec.extra_roots : <<FileOf(h.rec), d>> \in given
  BY <1>1, <1>2 DEF HostFine
<1> QED BY <1>1, <1>2, <1>3, UnsavedKeeps DEF h

LEMMA RenameKeeps ==
    ASSUME SInv, NEW p \in Process, Rename(p)
    PROVE  SInv'
<1> DEFINE h == host[p]
           f == FileOf(h.temp)
           v == [at |-> count.at + 1, rec |-> h.temp, exists |-> TRUE,
                 synced |-> Synced, whole |-> TRUE, opened |-> h.opened]
           hn == [h EXCEPT !.pc = "sync", !.slot = count.at + 1]
<1>1. /\ h.pc = "temp" /\ UNCHANGED <<keyFile, resolves, given, acked>>
      /\ \/ Put(f, v) /\ count' = [count EXCEPT !.at = @ + 1] /\ Becomes(p, hn)
         \/ Becomes(p, SaveFailed(h)) /\ UNCHANGED <<filed, count>>
  BY DEF Rename
<1>2. /\ h \in Host /\ HostFine(h, keyFile.key, filed, given) /\ count \in Count
      /\ h.temp \in Record /\ count.at \in Nat /\ h.key \in 0 .. MaxKey
  BY HostHas
<1>3. CASE Becomes(p, SaveFailed(h)) /\ UNCHANGED <<filed, count>>
  BY <1>1, <1>3, SaveFailsKeeps DEF Saving
<1>4. CASE Put(f, v) /\ count' = [count EXCEPT !.at = @ + 1] /\ Becomes(p, hn)
  <2>1. /\ h.rec.workspace \in Workspace /\ SameSession(h.rec, h.temp)
        /\ FileOf(h.rec) = h.opened /\ h.temp.mac \in {NoKey, h.key} /\ Vouched(h.temp, given)
        /\ (h.key # NoKey => h.key = keyFile.key)
    BY <1>1, <1>2 DEF HostFine, Saving
  <2>2. f \in File /\ f = h.opened
    BY <1>2, <2>1, FileOfType DEF SameSession, FileOf
  <2> HIDE DEF f
  <2>3. /\ v \in Version /\ v.at = count.at + 1 /\ v.rec = h.temp /\ v.synced /\ v.whole
        /\ v.opened = h.opened
    BY <1>2 DEF Version, Synced, Host
  <2>4. /\ hn \in Host /\ hn.pc = "sync" /\ hn.key = h.key /\ hn.rec = h.rec /\ hn.temp = h.temp
        /\ hn.opened = h.opened /\ hn.slot = count.at + 1
    <3>1. count.at + 1 \in Nat
      BY <1>2
    <3> HIDE DEF f, v
    <3> QED BY <1>2, <3>1 DEF Host
  <2>5. count' \in Count /\ count'.at = count.at + 1
    BY <1>2, <1>4 DEF Count
  <2> HIDE DEF v, hn
  <2>6. VersionFine(v, f, keyFile, given)
    BY <2>1, <2>2, <2>3 DEF VersionFine
  <2>7. /\ filed' \in [File -> Seq(Version)] /\ \A g \in File : filed'[g] # <<>>
        /\ FilesFine' /\ Last(filed'[f]) = v
        /\ \A g \in File : /\ Last(filed[g]).at \in Nat /\ Last(filed'[g]).at \in Nat
                           /\ Last(filed[g]).at <= Last(filed'[g]).at
    BY <1>1, <1>4, <2>2, <2>3, <2>5, <2>6, PutVersion
  <2>8. host' \in [Process -> Host] /\ \A q \in Process : q # p => host'[q] = host[q]
    BY <1>4, <2>4 DEF SInv, SessionsTypeOK, Becomes
  <2>9. host'[p] = hn
    BY <1>4 DEF SInv, SessionsTypeOK, Becomes
  <2>10. HostFine(hn, keyFile.key, filed', given)
    BY <1>2, <2>1, <2>3, <2>4, <2>7 DEF HostFine, Saving, f
  <2>11. \A q \in Process : HostFine(host'[q], keyFile.key, filed', given)
    <3> TAKE q \in Process
    <3>1. q # p => host'[q] \in Host /\ HostFine(host'[q], keyFile.key, filed, given)
      BY <2>8 DEF SInv, HostsFine
    <3> QED BY <2>7, <2>9, <2>10, <3>1, HostKept
  <2>12. SessionsTypeOK'
    BY <1>1, <2>5, <2>7, <2>8 DEF SInv, SessionsTypeOK, Count
  <2> QED BY <1>1, <2>7, <2>11, <2>12 DEF SInv, HostsFine
<1> QED BY <1>1, <1>3, <1>4

LEMMA SyncKeeps ==
    ASSUME SInv, NEW p \in Process, SyncDirectory(p)
    PROVE  SInv'
<1> DEFINE h == host[p]
           f == FileOf(h.temp)
           hn == [Saved(h) EXCEPT !.rec = h.temp]
<1>1. /\ h.pc = "sync" /\ UNCHANGED <<keyFile, resolves, given, count>>
      /\ \/ /\ filed' = Durable(h.temp.workspace, filed)
            /\ acked' = [acked EXCEPT ![f] = h.slot] /\ Becomes(p, hn)
         \/ Becomes(p, SaveFailed(h)) /\ UNCHANGED <<filed, acked>>
  BY DEF SyncDirectory
<1>2. /\ h \in Host /\ HostFine(h, keyFile.key, filed, given) /\ h.temp \in Record
  BY HostHas
<1>3. CASE Becomes(p, SaveFailed(h)) /\ UNCHANGED <<filed, acked>>
  BY <1>1, <1>3, SaveFailsKeeps DEF Saving
<1>4. CASE /\ filed' = Durable(h.temp.workspace, filed)
           /\ acked' = [acked EXCEPT ![f] = h.slot] /\ Becomes(p, hn)
  <2>1. /\ h.rec.workspace \in Workspace /\ SameSession(h.rec, h.temp)
        /\ FileOf(h.rec) = h.opened /\ h.slot <= Last(filed[f]).at /\ h.slot \in Nat
        /\ \A d \in h.rec.extra_roots : <<FileOf(h.rec), d>> \in given
    BY <1>1, <1>2 DEF HostFine, Saving, Host
  <2>2. f \in File /\ f[1] = h.temp.workspace
    BY <1>2, <2>1, FileOfType DEF SameSession, FileOf
  <2>3. /\ hn \in Host /\ hn.pc = "ready" /\ hn.key = h.key /\ hn.rec = h.temp
        /\ hn.temp = NoRecord /\ hn.store = h.store /\ hn.opened = h.opened
    BY <1>2, SavedIs
  <2>4. FileOf(h.temp) = h.opened /\ h.temp.workspace \in Workspace
        /\ \A d \in h.temp.extra_roots : <<FileOf(h.temp), d>> \in given
    BY <2>1 DEF SameSession, FileOf
  <2> HIDE DEF f, hn
  <2>5. /\ filed \in [File -> Seq(Version)] /\ acked \in [File -> Nat]
        /\ \A g \in File : filed[g] \in Seq(Version) /\ filed[g] # <<>>
    BY DEF SInv, SessionsTypeOK
  <2>6. \A g \in File : \/ g[1] = h.temp.workspace /\ filed'[g] = <<Last(filed[g])>>
                        \/ g[1] # h.temp.workspace /\ filed'[g] = filed[g]
    BY <1>4 DEF Durable, Last
  <2>7. ASSUME NEW g \in File
        PROVE  /\ filed'[g] \in Seq(Version) /\ filed'[g] # <<>> /\ Last(filed'[g]) = Last(filed[g])
               /\ Last(filed[g]).at \in Nat
               /\ acked'[g] <= filed'[g][1].at /\ InOrder(filed'[g], count.at)
               /\ \A i \in DOMAIN filed'[g] : VersionFine(filed'[g][i], g, keyFile, given)
    <3> DEFINE v == Last(filed[g])
    <3>1. /\ v \in Version /\ v.at \in Nat /\ Len(filed[g]) \in DOMAIN filed[g]
          /\ v = filed[g][Len(filed[g])] /\ filed[g][1].at \in Nat
      BY <2>5, LastType
    <3>2. /\ acked[g] <= filed[g][1].at /\ InOrder(filed[g], count.at)
          /\ \A i \in DOMAIN filed[g] : VersionFine(filed[g][i], g, keyFile, given)
      BY DEF SInv, FilesFine
    <3>3. filed[g][1].at <= v.at /\ v.at <= count.at /\ VersionFine(v, g, keyFile, given)
      BY <3>1, <3>2 DEF InOrder
    <3> HIDE DEF v
    <3>4. acked'[g] = IF g = f THEN h.slot ELSE acked[g]
      BY <1>4, <2>5
    <3>5. acked'[g] <= v.at /\ acked[g] \in Nat
      BY <2>1, <2>5, <3>1, <3>2, <3>3, <3>4 DEF v
    <3>6. CASE g[1] = h.temp.workspace
      <4>1. filed'[g] = <<v>>
        BY <2>6, <3>6 DEF v
      <4>2. <<v>> \in Seq(Version) /\ <<v>> # <<>> /\ <<v>>[1] = v /\ DOMAIN <<v>> = {1}
            /\ Last(<<v>>) = v
        BY <3>1 DEF Last
      <4>3. InOrder(<<v>>, count.at)
        BY <3>1, <3>3, <4>2 DEF InOrder
      <4> QED BY <3>1, <3>3, <3>5, <4>1, <4>2, <4>3 DEF v
    <3>7. CASE g[1] # h.temp.workspace
      <4>1. filed'[g] = filed[g] /\ acked'[g] = acked[g]
        BY <2>2, <2>6, <3>4, <3>7
      <4> QED BY <2>5, <3>1, <3>2, <4>1 DEF v
    <3> QED BY <3>6, <3>7
  <2>8. filed' \in [File -> Seq(Version)]
    BY <1>4, <2>7 DEF Durable
  <2>9. acked' \in [File -> Nat]
    BY <1>4, <2>1, <2>5
  <2>10. HostFine(hn, keyFile.key, filed', given)
    BY <1>2, <2>3, <2>4, NoRecordType, SessionBounds DEF HostFine, Saving, Vouched
  <2>11. host' \in [Process -> Host] /\ host'[p] = hn
         /\ \A q \in Process : q # p => host'[q] = host[q]
    BY <1>4, <2>3 DEF SInv, SessionsTypeOK, Becomes
  <2>12. \A g \in File : /\ Last(filed[g]).at \in Nat /\ Last(filed'[g]).at \in Nat
                         /\ Last(filed[g]).at <= Last(filed'[g]).at
    BY <2>7
  <2>13. \A q \in Process : HostFine(host'[q], keyFile.key, filed', given)
    <3> TAKE q \in Process
    <3>1. q # p => host'[q] \in Host /\ HostFine(host'[q], keyFile.key, filed, given)
      BY <2>11 DEF SInv, HostsFine
    <3> QED BY <2>10, <2>11, <2>12, <3>1, HostKept
  <2>14. SessionsTypeOK'
    BY <1>1, <2>7, <2>8, <2>9, <2>11 DEF SInv, SessionsTypeOK
  <2> QED BY <1>1, <2>7, <2>13, <2>14 DEF SInv, HostsFine, FilesFine
<1> QED BY <1>1, <1>3, <1>4

-----------------------------------------------------------------------------
(* The session files: the world around *)

LEMMA MeddledIs ==
    ASSUME count \in Count, NEW n \in Nat, Meddled(n)
    PROVE  count' \in Count /\ count'.at = count.at + n
<1>1. count.at + n \in Nat /\ count.meddle + 1 \in Nat
  BY DEF Count
<1> QED BY <1>1 DEF Meddled, Count

(* A file gets a version while every process stays as it is. *)
LEMMA MeddlePut ==
    ASSUME SInv, NEW f \in File, NEW v \in Version, Put(f, v), v.at = count.at + 1,
           VersionFine(v, f, keyFile, given), Meddled(1),
           UNCHANGED <<keyFile, resolves, host, given, acked>>
    PROVE  SInv'
<1>1. count' \in Count /\ count'.at = count.at + 1
  <2>1. count \in Count /\ 1 \in Nat
    BY DEF SInv, SessionsTypeOK, Count
  <2> QED BY <2>1, MeddledIs
<1>2. /\ filed' \in [File -> Seq(Version)] /\ \A g \in File : filed'[g] # <<>>
      /\ FilesFine'
      /\ \A g \in File : /\ Last(filed[g]).at \in Nat /\ Last(filed'[g]).at \in Nat
                         /\ Last(filed[g]).at <= Last(filed'[g]).at
  BY <1>1, PutVersion
<1>3. \A q \in Process : HostFine(host[q], keyFile.key, filed', given)
  <2> TAKE q \in Process
  <2>1. host[q] \in Host /\ HostFine(host[q], keyFile.key, filed, given)
    BY HostHas
  <2> QED BY <1>2, <2>1, HostKept
<1>4. SessionsTypeOK'
  BY <1>1, <1>2 DEF SInv, SessionsTypeOK, Count
<1> QED BY <1>2, <1>3, <1>4 DEF SInv, HostsFine

LEMMA NewestIs ==
    ASSUME SInv, NEW f \in File
    PROVE  /\ Newest(f) \in Version /\ Newest(f).rec \in Record
           /\ VersionFine(Newest(f), f, keyFile, given) /\ count.at + 1 \in Nat
<1>1. Newest(f) = Last(filed[f]) /\ filed[f] \in Seq(Version) /\ filed[f] # <<>>
  BY DEF Newest, Last, SInv, SessionsTypeOK
<1>2. Newest(f) \in Version /\ \E i \in DOMAIN filed[f] : Newest(f) = filed[f][i]
  BY <1>1, LastType
<1>3. VersionFine(Newest(f), f, keyFile, given)
  BY <1>2 DEF SInv, FilesFine
<1>4. count.at + 1 \in Nat
  BY DEF SInv, SessionsTypeOK
<1> QED BY <1>2, <1>3, <1>4 DEF Version

LEMMA MeddleKeeps ==
    ASSUME SInv, \/ \E f, g \in File : CopyFile(f, g)
                 \/ \E f \in File, d \in Dir : EditFile(f, d)
                 \/ \E f \in File : delete(f)
    PROVE  SInv'
<1>1. ASSUME NEW f \in File, NEW g \in File, CopyFile(f, g) PROVE SInv'
  <2> DEFINE n == Newest(f)
             v == [n EXCEPT !.at = count.at + 1, !.opened = g]
  <2>1. Put(g, v) /\ Meddled(1) /\ UNCHANGED <<keyFile, resolves, host, given, acked>>
    BY <1>1 DEF CopyFile
  <2>2. n \in Version /\ VersionFine(n, f, keyFile, given) /\ count.at + 1 \in Nat /\ g \in Name
    BY NewestIs, FileIsName
  <2> HIDE DEF n
  <2>3. /\ v \in Version /\ v.at = count.at + 1 /\ v.rec = n.rec /\ v.synced = n.synced
        /\ v.whole = n.whole /\ v.opened = g
    BY <2>2 DEF Version
  <2> HIDE DEF v
  <2>4. VersionFine(v, g, keyFile, given)
    BY <2>2, <2>3 DEF VersionFine
  <2> QED BY <2>1, <2>3, <2>4, MeddlePut
<1>2. ASSUME NEW f \in File, NEW d \in Dir, EditFile(f, d) PROVE SInv'
  <2> DEFINE n == Newest(f)
             r == [n.rec EXCEPT !.extra_roots = @ \cup {d}, !.mac = NoKey]
             v == [n EXCEPT !.at = count.at + 1, !.rec = r]
  <2>1. Put(f, v) /\ Meddled(1) /\ UNCHANGED <<keyFile, resolves, host, given, acked>>
    <3>1. [n EXCEPT !.at = count.at + 1, !.rec.extra_roots = @ \cup {d}, !.rec.mac = NoKey] = v
      <4>1. n \in Version /\ n.rec \in Record
        BY NewestIs
      <4> HIDE DEF n
      <4> QED BY <4>1 DEF Version, Record
    <3> QED BY <1>2, <3>1 DEF EditFile
  <2>2. /\ n \in Version /\ n.rec \in Record /\ VersionFine(n, f, keyFile, given)
        /\ count.at + 1 \in Nat
    BY NewestIs
  <2> HIDE DEF n
  <2>3. r \in Record /\ r.mac = NoKey /\ r.rootsMac = n.rec.rootsMac
    BY <2>2, SessionBounds DEF Record
  <2> HIDE DEF r
  <2>4. /\ v \in Version /\ v.at = count.at + 1 /\ v.rec = r /\ v.synced = n.synced
        /\ v.whole = n.whole /\ v.opened = n.opened /\ v.exists = n.exists
    BY <2>2, <2>3 DEF Version
  <2> HIDE DEF v
  <2>5. VersionFine(v, f, keyFile, given)
    BY <2>2, <2>3, <2>4 DEF VersionFine, Vouched
  <2> QED BY <2>1, <2>4, <2>5, MeddlePut
<1>3. ASSUME NEW f \in File, delete(f) PROVE SInv'
  <2> DEFINE v == [Absent EXCEPT !.at = count.at + 1]
  <2>1. Put(f, v) /\ Meddled(1) /\ UNCHANGED <<keyFile, resolves, host, given, acked>>
    BY <1>3 DEF delete
  <2>2. count.at + 1 \in Nat
    BY NewestIs
  <2>3. /\ v \in Version /\ v.at = count.at + 1 /\ v.rec = NoRecord /\ v.synced /\ v.whole
        /\ ~v.exists
    BY <2>2, AbsentType DEF Version
  <2> HIDE DEF v
  <2>4. VersionFine(v, f, keyFile, given)
    BY <2>3, NoRecordType, SessionBounds DEF VersionFine, Vouched
  <2> QED BY <2>1, <2>3, <2>4, MeddlePut
<1> QED BY <1>1, <1>2, <1>3

LEMMA PowerLossKeeps == SInv /\ PowerLoss => SInv'
<1> SUFFICES ASSUME SInv, PowerLoss PROVE SInv'
  OBVIOUS
<1>1. PICK t \in 0 .. count.at : filed' = [f \in File |-> <<Survivor(filed[f], t)>>]
  BY DEF PowerLoss
<1>2. /\ Meddled(0) /\ UNCHANGED <<resolves, given, acked>>
      /\ host' = [p \in Process |-> NoHost]
      /\ \/ keyFile' = [keyFile EXCEPT !.durable = TRUE]
         \/ keyFile' = [key |-> NoKey, durable |-> TRUE, lost |-> TRUE]
  BY DEF PowerLoss
<1>3. /\ filed \in [File -> Seq(Version)] /\ \A f \in File : filed[f] # <<>>
      /\ count \in Count /\ count.at \in Nat /\ t \in Nat /\ acked \in [File -> Nat]
  BY DEF SInv, SessionsTypeOK, Count
<1>4. count' \in Count /\ count'.at = count.at
  <2>1. 0 \in Nat /\ count.at + 0 = count.at
    BY <1>3
  <2> QED BY <1>2, <1>3, <2>1, MeddledIs
<1>5. /\ keyFile' \in [key : 0 .. MaxKey + 1, durable : BOOLEAN, lost : BOOLEAN]
      /\ keyFile'.lost \/ (~keyFile.lost /\ keyFile'.key = keyFile.key)
  <2>1. keyFile \in [key : 0 .. MaxKey + 1, durable : BOOLEAN, lost : BOOLEAN]
    BY DEF SInv, SessionsTypeOK
  <2>2. CASE keyFile' = [keyFile EXCEPT !.durable = TRUE]
    BY <2>1, <2>2
  <2>3. CASE keyFile' = [key |-> NoKey, durable |-> TRUE, lost |-> TRUE]
    <3>1. NoKey \in 0 .. MaxKey + 1
      BY SessionBounds
    <3> QED BY <2>3, <3>1
  <2> QED BY <1>2, <2>2, <2>3
<1>6. ASSUME NEW f \in File
      PROVE  /\ filed'[f] \in Seq(Version) /\ filed'[f] # <<>>
             /\ acked[f] <= filed'[f][1].at /\ InOrder(filed'[f], count.at)
             /\ \A i \in DOMAIN filed'[f] : VersionFine(filed'[f][i], f, keyFile', given)
  <2> DEFINE s == filed[f]
             v == Survivor(s, t)
  <2>1. PICK i \in DOMAIN s : v = [s[i] EXCEPT !.whole = @ /\ s[i].synced]
    BY <1>3, SurvivorIs
  <2>2. /\ s[i] \in Version /\ s[i].at \in Nat /\ s[1].at \in Nat
        /\ VersionFine(s[i], f, keyFile, given) /\ acked[f] <= s[1].at
        /\ s[1].at <= s[i].at /\ s[i].at <= count.at
    BY <1>3, LastType DEF SInv, FilesFine, InOrder
  <2> HIDE DEF s, v
  <2>3. s[i].whole = TRUE /\ s[i].synced = TRUE
    BY <2>2 DEF VersionFine, Version
  <2>4. v = s[i]
    <3>1. (s[i].whole /\ s[i].synced) = s[i].whole
      BY <2>3
    <3>2. s[i] = [s[i] EXCEPT !.whole = @]
      BY <2>2 DEF Version
    <3> QED BY <2>1, <3>1, <3>2
  <2>5. VersionFine(v, f, keyFile', given)
    BY <1>5, <2>2, <2>4, VersionKept
  <2>6. filed'[f] = <<v>> /\ v \in Version /\ acked[f] \in Nat
    BY <1>1, <1>3, <2>2, <2>4 DEF v, s
  <2>7. InOrder(<<v>>, count.at)
    BY <2>2, <2>4 DEF InOrder
  <2> QED BY <1>3, <2>2, <2>4, <2>5, <2>6, <2>7
<1>7. filed' \in [File -> Seq(Version)]
  BY <1>1, <1>6
<1>8. HostsFine'
  BY <1>2, NoHostType, NoRecordType, SessionBounds DEF HostsFine, HostFine, Vouched, Saving
<1>9. SessionsTypeOK'
  BY <1>2, <1>4, <1>5, <1>6, <1>7, NoHostType DEF SInv, SessionsTypeOK, Count
<1> QED BY <1>2, <1>4, <1>6, <1>8, <1>9 DEF SInv, FilesFine

LEMMA SessionsKeep == SInv /\ [SessionsNext]_sessionVars => SInv'
<1> SUFFICES ASSUME SInv, [SessionsNext]_sessionVars PROVE SInv'
  OBVIOUS
<1>1. ASSUME NEW p \in Process, Killed(p) PROVE SInv'
  <2>1. Becomes(p, NoHost) /\ UNCHANGED <<keyFile, filed, resolves, given, acked, count>>
    BY <1>1 DEF Killed
  <2>2. HostFine(NoHost, keyFile.key, filed, given)
    BY NoHostType, NoRecordType, SessionBounds DEF HostFine, Vouched, Saving
  <2> QED BY <2>1, <2>2, NoHostType, HostHas, OnlyHost
<1>2. ASSUME NEW d \in Dir, Repoint(d) PROVE SInv'
  <2>1. resolves' \in [Dir -> Dir \cup {Gone}]
    BY <1>2 DEF Repoint, SInv, SessionsTypeOK
  <2>2. count' \in Count /\ count'.at = count.at
    <3>1. count \in Count /\ 0 \in Nat /\ count.at + 0 = count.at
      BY DEF SInv, SessionsTypeOK, Count
    <3> QED BY <1>2, <3>1, MeddledIs DEF Repoint
  <2>3. UNCHANGED <<keyFile, filed, host, given, acked>>
    BY <1>2 DEF Repoint
  <2> QED BY <2>1, <2>2, <2>3 DEF SInv, SessionsTypeOK, HostsFine, FilesFine, Count
<1>3. CASE UNCHANGED sessionVars
  BY <1>3 DEF sessionVars, SInv, SessionsTypeOK, HostsFine, FilesFine
<1> QED BY <1>1, <1>2, <1>3, KeyKeeps, RenameKeeps, SyncKeeps, SaveTurnKeeps, LaunchFreshKeeps,
           LaunchResumedKeeps, ReconfigurationKeeps, MeddleKeeps, PowerLossKeeps
        DEF SessionsNext

-----------------------------------------------------------------------------
(* What they give *)

LEMMA SessionsSound == SInv => SavesSurvive /\ SessionsStayReadable /\ GrantsWereGiven
<1> SUFFICES ASSUME SInv PROVE SavesSurvive /\ SessionsStayReadable /\ GrantsWereGiven
  OBVIOUS
<1>1. SavesSurvive
  <2>1. acked \in [File -> Nat] /\ \A f \in File : filed[f][1].at \in Nat
    BY LastType DEF SInv, SessionsTypeOK
  <2>2. \A f \in File : acked[f] <= filed[f][1].at
    BY DEF SInv, FilesFine
  <2>3. \A f \in File : filed[f][1].at >= acked[f]
    BY <2>1, <2>2
  <2>4. \A f \in File : \A i \in DOMAIN filed[f] :
           filed[f][i].whole /\ (filed[f][i].exists => filed[f][i].opened = f)
    BY DEF SInv, FilesFine, VersionFine
  <2> QED BY <2>3, <2>4 DEF SavesSurvive
<1>2. SessionsStayReadable
  <2>1. \A p \in Process : host[p].key # NoKey => host[p].key = keyFile.key
    BY DEF SInv, HostsFine, HostFine
  <2>2. \A f \in File : VersionFine(Newest(f), f, keyFile, given)
    BY NewestIs
  <2> QED BY <2>1, <2>2 DEF SessionsStayReadable, VersionFine
<1>3. GrantsWereGiven
  BY DEF SInv, HostsFine, HostFine, GrantsWereGiven
<1> QED BY <1>1, <1>2, <1>3

LEMMA StoresStart == StoresInit => Init /\ SInv
<1>1. StoresInit => Init /\ (SessionsInit \/ SessionsOn(NoKey))
  BY DEF StoresInit
<1> QED BY <1>1, SessionsStart

LEMMA StoresSteps == [StoresNext]_storeVars => [Next]_vars /\ [SessionsNext]_sessionVars
<1>1. storeVars' = storeVars => vars' = vars /\ sessionVars' = sessionVars
  BY DEF storeVars
<1>2. UNCHANGED <<sessionVars, store>> => sessionVars' = sessionVars
  OBVIOUS
<1>3. UNCHANGED <<vars, store>> => vars' = vars
  OBVIOUS
<1> QED BY <1>1, <1>2, <1>3 DEF StoresNext

(* Whatever fails, dies, loses power, or copies, edits and deletes files, in *)
(* any number of processes: an acknowledged save is there and whole, every   *)
(* record signed can be read, no session has a root that nobody gave it,     *)
(* snapshots are trees and a listed checkpoint is stored (write_atomic,      *)
(* publish_key, verify_roots, prune_old_snapshots, record_checkpoint).       *)
THEOREM StoresKeep == StoresSpec => []StoresHold
<1> DEFINE All == Inv /\ LInv /\ SInv
<1>1. StoresInit => All
  <2>1. Init => LInv
    <3> SUFFICES ASSUME Init PROVE LInv
      OBVIOUS
    <3>1. stored = {} /\ checkpoints = {} /\ op.pc = "idle"
      BY IdleType DEF Init
    <3> QED BY <3>1, InitTInv DEF LInv, ListsAgree
  <2> QED BY <2>1, StoresStart, InitInv
<1>2. All /\ [StoresNext]_storeVars => All'
  BY StoresSteps, NextInv, NextLInv, SessionsKeep
<1>3. All => StoresHold
  <2>1. LInv => RecordedAreStored
    BY DEF LInv, ListsAgree, RecordedAreStored
  <2> QED BY <2>1, SessionsSound DEF Inv, StoresHold
<1> QED BY <1>1, <1>2, <1>3, PTL DEF StoresSpec

-----------------------------------------------------------------------------
(* Grants stand *)

Session(h) == <<FileOf(h.rec), h.rec.extra_roots>>

Standing(old, new) == Session(old) # Session(new) => \A d \in new.rec.extra_roots : Stands(d)

(* Only p's record may change, and only to standing roots. *)
LEMMA OneStands ==
    ASSUME SInv, NEW p \in Process, NEW h, Becomes(p, h), Standing(host[p], h)
    PROVE  \A q \in Process : Standing(host[q], host'[q])
BY DEF SInv, SessionsTypeOK, Becomes, Standing

LEMMA BeginStands ==
    ASSUME SInv, NEW p \in Process, NEW h \in Host, NEW r, NEW counted, NEW kind,
           BeginSave(p, h, r, counted, kind),
           <<FileOf(r), r.extra_roots>> # Session(host[p]) => \A d \in r.extra_roots : Stands(d)
    PROVE  \A q \in Process : Standing(host[q], host'[q])
<1> DEFINE hn == [h EXCEPT !.pc = "temp", !.rec = r, !.kind = kind,
                           !.temp = prepare_record(h.key, r)]
<1>1. hn.rec = r
  BY DEF Host
<1>2. Becomes(p, hn)
  BY DEF BeginSave
<1> HIDE DEF hn
<1>3. Standing(host[p], hn)
  BY <1>1 DEF Standing, Session
<1> QED BY <1>2, <1>3, OneStands

LEMMA FreshStands ==
    ASSUME SInv, NEW p \in Process, NEW w \in Workspace, NEW roots \in SUBSET Dir,
           count.launch < MaxLaunch, Fresh(p, w, roots), \A d \in roots : Stands(d)
    PROVE  \A q \in Process : Standing(host[q], host'[q])
<1> DEFINE id == count.launch + 1
           r == SessionRecord(id, w, roots)
           h == [host[p] EXCEPT !.opened = <<w, id>>, !.store = TRUE, !.kind = "fresh"]
<1>1. \/ BeginSave(p, h, r, Launched, "fresh")
      \/ Becomes(p, [SaveFailed(h) EXCEPT !.rec = r])
  BY DEF Fresh
<1>2. host[p] \in Host /\ id \in SessionId
  BY HostHas, SessionBounds DEF SessionId
<1>3. r.extra_roots = roots
  BY <1>2, NewRecordType
<1>4. h \in Host
  <2>1. <<w, id>> \in Name
    BY <1>2 DEF Name, Place
  <2> HIDE DEF id
  <2> QED BY <1>2, <2>1 DEF Host
<1> HIDE DEF id, r, h
<1>5. CASE BeginSave(p, h, r, Launched, "fresh")
  BY <1>3, <1>4, <1>5, BeginStands
<1>6. CASE Becomes(p, [SaveFailed(h) EXCEPT !.rec = r])
  <2> DEFINE hn == [SaveFailed(h) EXCEPT !.rec = r]
  <2>1. SaveFailed(h) \in Host
    BY <1>4, SaveFailedIs
  <2>2. hn.rec = r
    BY <2>1 DEF Host
  <2> HIDE DEF hn
  <2>3. Standing(host[p], hn)
    BY <1>3, <2>2 DEF Standing
  <2> QED BY <1>6, <2>3, OneStands DEF hn
<1> QED BY <1>1, <1>5, <1>6

LEMMA LaunchStands ==
    ASSUME SInv, NEW p \in Process,
           \/ \E w \in Workspace : launch_fresh(p, w)
           \/ \E f \in File : launch_resumed(p, f)
    PROVE  \A q \in Process : Standing(host[q], host'[q])
<1>1. ASSUME NEW w \in Workspace, launch_fresh(p, w)
      PROVE  \A q \in Process : Standing(host[q], host'[q])
  <2>1. PICK roots \in Told(p, w) : Fresh(p, w, roots)
    BY <1>1 DEF launch_fresh
  <2>2. count.launch < MaxLaunch
    BY <1>1 DEF launch_fresh, MayLaunch
  <2> QED BY <2>1, <2>2, ToldStand, FreshStands
<1>2. ASSUME NEW f \in File, launch_resumed(p, f)
      PROVE  \A q \in Process : Standing(host[q], host'[q])
  <2> DEFINE loaded == load(p, f)
  <2>1. PICK told \in Told(p, f[1]), refused \in SUBSET Dir :
          LET roots == (Restored(host[p].key, loaded, f[1]) \ refused) \cup told
              r == [loaded EXCEPT !.workspace = f[1], !.extra_roots = roots]
              h == [host[p] EXCEPT !.opened = f, !.store = TRUE]
          IN \/ BeginSave(p, h, r, Launched, "resumed")
             \/ Fresh(p, f[1], roots)
    BY <1>2 DEF launch_resumed
  <2>2. count.launch < MaxLaunch /\ CanLoad(p, f)
    BY <1>2 DEF launch_resumed, MayLaunch
  <2> DEFINE roots == (Restored(host[p].key, loaded, f[1]) \ refused) \cup told
             r == [loaded EXCEPT !.workspace = f[1], !.extra_roots = roots]
             h == [host[p] EXCEPT !.opened = f, !.store = TRUE]
  <2>3. loaded \in Record /\ f \in Name /\ f[1] \in Workspace /\ host[p] \in Host
    BY <2>2, LoadIs, FileIsName, HostHas
  <2>4. \A d \in Restored(host[p].key, loaded, f[1]) : d \in Dir /\ Stands(d)
    BY <2>2, RestoredWereGiven
  <2>5. told \in SUBSET Dir /\ \A d \in told : Stands(d)
    BY ToldStand
  <2>6. roots \in SUBSET Dir /\ \A d \in roots : Stands(d)
    BY <2>4, <2>5
  <2> HIDE DEF loaded, roots
  <2>7. r.extra_roots = roots /\ h \in Host
    BY <2>3 DEF Record, Host
  <2> HIDE DEF r, h
  <2>8. CASE BeginSave(p, h, r, Launched, "resumed")
    BY <2>6, <2>7, <2>8, BeginStands
  <2>9. CASE Fresh(p, f[1], roots)
    BY <2>2, <2>3, <2>6, <2>9, FreshStands
  <2> QED BY <2>1, <2>8, <2>9 DEF r, h, roots
<1> QED BY <1>1, <1>2

LEMMA ReconfigurationStands ==
    ASSUME SInv, NEW p \in Process, NEW d \in Dir, prepare_runtime_reconfiguration(p, d)
    PROVE  \A q \in Process : Standing(host[q], host'[q])
<1> DEFINE h == host[p]
           id == IF h.store THEN h.rec.id ELSE count.launch + 1
           roots == Inherited(h.rec.extra_roots \cup {d})
           r == [h.rec EXCEPT !.extra_roots = Inherited(@ \cup {d}),
                              !.id = IF h.store THEN @ ELSE count.launch + 1]
           counted == IF h.store THEN count ELSE Launched
           opened == [h EXCEPT !.opened = FileOf(r), !.store = TRUE]
           ho == [opened EXCEPT !.rec = r]
           hu == [h EXCEPT !.rec = r]
<1>1. \/ BeginSave(p, opened, r, counted, "turn")
      \/ Becomes(p, ho)
      \/ Becomes(p, hu)
  BY DEF prepare_runtime_reconfiguration
<1>2. /\ h \in Host /\ h.rec \in Record /\ count \in Count
      /\ (h.store \/ count.launch < MaxLaunch)
  BY HostHas DEF prepare_runtime_reconfiguration
<1>3. id \in SessionId
  BY <1>2, SessionBounds DEF Count, SessionId, Record
<1>4. r = [h.rec EXCEPT !.extra_roots = roots, !.id = id]
  OBVIOUS
<1>5. \A x \in roots : Stands(x)
  BY DEF Inherited
<1> HIDE DEF id, roots, counted
<1>6. r.extra_roots = roots /\ r.workspace = h.rec.workspace /\ r.id = id
  BY <1>2, <1>4 DEF Record
<1> HIDE DEF r
<1>7. FileOf(r) \in Name
  BY <1>2, <1>3, <1>6 DEF FileOf, Name, Record
<1>8. opened \in Host /\ ho.rec = r /\ hu.rec = r
  BY <1>2, <1>7 DEF Host
<1> HIDE DEF opened, ho, hu
<1>9. \A hn : hn.rec = r => Standing(h, hn)
  BY <1>5, <1>6 DEF Standing
<1> QED BY <1>1, <1>5, <1>6, <1>8, <1>9, BeginStands, OneStands

LEMMA EveryStands ==
    SInv /\ [SessionsNext]_sessionVars => \A q \in Process : Standing(host[q], host'[q])
<1> SUFFICES ASSUME SInv, [SessionsNext]_sessionVars
             PROVE  \A q \in Process : Standing(host[q], host'[q])
  OBVIOUS
<1>1. \A q \in Process : host[q] \in Host /\ host[q].rec \in Record /\ host[q].temp \in Record
  BY HostHas
<1>2. ASSUME NEW p \in Process, NEW h, Becomes(p, h), h.rec = host[p].rec
      PROVE  \A q \in Process : Standing(host[q], host'[q])
  BY <1>2, OneStands DEF Standing, Session
<1>3. CASE host' = host
  BY <1>3 DEF Standing
<1>4. ASSUME NEW p \in Process, load_or_create_key(p) \/ publish_key(p) \/ ReadBack(p)
      PROVE  \A q \in Process : Standing(host[q], host'[q])
  <2> DEFINE hp == [host[p] EXCEPT !.pc = "publish", !.fresh = count.key + 1]
             hb == [host[p] EXCEPT !.pc = "readback"]
             hr == [host[p] EXCEPT !.pc = "ready", !.fresh = NoKey]
             hk == [host[p] EXCEPT !.pc = "ready", !.fresh = NoKey,
                       !.key = IF keyFile.key = BadKey THEN NoKey ELSE keyFile.key]
  <2>1. \/ Becomes(p, hp) \/ Becomes(p, hb) \/ Becomes(p, hr) \/ Becomes(p, hk)
    BY <1>4 DEF load_or_create_key, publish_key, ReadBack, ReadKey
  <2>2. /\ hp.rec = host[p].rec /\ hb.rec = host[p].rec /\ hr.rec = host[p].rec
        /\ hk.rec = host[p].rec
    BY <1>1 DEF Host
  <2> HIDE DEF hp, hb, hr, hk
  <2> QED BY <1>2, <2>1, <2>2
<1>5. ASSUME NEW p \in Process, Rename(p)
      PROVE  \A q \in Process : Standing(host[q], host'[q])
  <2>1. SaveFailed(host[p]).rec = host[p].rec
    BY <1>1, SaveFailedIs
  <2>2. \A x, y : [host[p] EXCEPT !.pc = x, !.slot = y].rec = host[p].rec
    BY <1>1 DEF Host
  <2> QED BY <1>2, <1>5, <2>1, <2>2 DEF Rename
<1>6. ASSUME NEW p \in Process, SyncDirectory(p)
      PROVE  \A q \in Process : Standing(host[q], host'[q])
  <2> DEFINE hn == [Saved(host[p]) EXCEPT !.rec = host[p].temp]
  <2>1. SaveFailed(host[p]).rec = host[p].rec /\ hn.rec = host[p].temp
    BY <1>1, SaveFailedIs, SavedIs
  <2>2. Becomes(p, hn) \/ Becomes(p, SaveFailed(host[p]))
    BY <1>6 DEF SyncDirectory
  <2>3. SameSession(host[p].rec, host[p].temp)
    BY <1>6, HostHas DEF SyncDirectory, HostFine, Saving
  <2> HIDE DEF hn
  <2>4. Session(hn) = Session(host[p])
    BY <2>1, <2>3 DEF Session, SameSession, FileOf
  <2>5. Standing(host[p], hn)
    BY <2>4 DEF Standing
  <2> QED BY <1>2, <2>1, <2>2, <2>5, OneStands
<1>7. ASSUME NEW p \in Process, SaveTurn(p)
      PROVE  \A q \in Process : Standing(host[q], host'[q])
  BY <1>1, <1>7, BeginStands DEF SaveTurn, Session
<1>8. ASSUME NEW p \in Process, Killed(p)
      PROVE  \A q \in Process : Standing(host[q], host'[q])
  <2>1. Standing(host[p], NoHost)
    BY NoHostType, NoRecordType DEF Standing
  <2> QED BY <1>8, <2>1, OneStands DEF Killed
<1>9. CASE PowerLoss
  <2>1. \A q \in Process : host'[q] = NoHost
    BY <1>9 DEF PowerLoss
  <2> QED BY <2>1, NoHostType, NoRecordType DEF Standing
<1>10. CASE \/ \E f, g \in File : CopyFile(f, g)
            \/ \E f \in File, d \in Dir : EditFile(f, d)
            \/ \E f \in File : delete(f)
            \/ \E d \in Dir : Repoint(d)
            \/ UNCHANGED sessionVars
  BY <1>3, <1>10 DEF CopyFile, EditFile, delete, Repoint, sessionVars
<1> QED BY <1>4, <1>5, <1>6, <1>7, <1>8, <1>9, <1>10, LaunchStands, ReconfigurationStands
        DEF SessionsNext

(* A session that takes on other roots, at its launch, when it is resumed or *)
(* when it goes on in a new runtime, takes only directories whose path still *)
(* means what it meant (validate_inherited_roots).                           *)
THEOREM GrantsKeepStanding == StoresSpec => GrantsStand
<1>1. SInv /\ [SessionsNext]_sessionVars =>
        [\A p \in Process :
           LET old == host[p].rec
               new == host'[p].rec
           IN <<FileOf(old), old.extra_roots>> # <<FileOf(new), new.extra_roots>>
                 => \A d \in new.extra_roots : Stands(d)]_sessionVars
  BY EveryStands DEF Standing, Session
<1>2. StoresInit => SInv
  BY StoresStart
<1>3. SInv /\ [StoresNext]_storeVars => SInv' /\ [SessionsNext]_sessionVars
  BY StoresSteps, SessionsKeep
<1> QED BY <1>1, <1>2, <1>3, PTL DEF StoresSpec, GrantsStand
=============================================================================

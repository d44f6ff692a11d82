------------------------- MODULE SessionPersistence -------------------------
(***************************************************************************)
(* How the session reaches the disk: the live transcript in RuntimeState,  *)
(* the SessionRecord that mirrors it, and the latest-wins actor that       *)
(* encodes and writes the record, with the folds of compact_session that   *)
(* rewrite the transcript and amend the record.                            *)
(*                                                                         *)
(* The transcript and the record are behind two locks, and persist_with    *)
(* takes one after the other, so the callers of it (bootstraps, loops on   *)
(* their way out, a hand-run fold, shutdown) interleave between them.      *)
(*                                                                         *)
(* A transcript is abstracted to n, the entries ever appended, and the     *)
(* fold at its head: the first "fold" entries are gone and the Compaction  *)
(* entry in their place holds a summary written for the first "covers".    *)
(***************************************************************************)
EXTENDS Integers

CONSTANTS
    Saver,        \* the tasks that change the session and persist it
    RecentTail,   \* RECENT_TAIL_ENTRIES
    Retries,      \* SAVE_RETRY_BACKOFF.len()
    MaxEntries,   \* bound: entries appended
    MaxEdits,     \* bound: direct edits of the record (turns, checkpoints, roots)
    MaxCrash      \* bound: process exits without a shutdown

ASSUME SaverAssumption ==
    /\ RecentTail \in Nat /\ Retries \in Nat
    /\ MaxEntries \in Nat /\ MaxEdits \in Nat /\ MaxCrash \in Nat

VARIABLES
    session,      \* RuntimeState.session
    session_record, \* Persistence.record
    disk,         \* the session file
    queue,        \* commands sent to the actor; absorb ignores order and number, so a set
    actor,        \* actor_loop and save_with_retry
    last_error,   \* whether the latest save failed
    saver,        \* where each caller is
    crashes,
    told,         \* history: the most entries a flush_session without an error reported saved
    overtaken     \* history: whether a caller wrote an older transcript over a newer one

saveVars == <<session, session_record, disk, queue, actor, last_error, saver, crashes,
              told, overtaken>>

-----------------------------------------------------------------------------
(* Types *)

Transcript == [n : Nat, fold : Nat, covers : Nat]

(* SessionRecord: its entries, the fold its summary and archived count       *)
(* describe, and a count of everything else that is edited in place.         *)
SessionRecord == [entries : Transcript, summary : Nat, edits : Nat]

Command == [kind : {"save"}] \cup [kind : {"flush"}, by : Saver]

Empty == [n |-> 0, fold |-> 0, covers |-> 0]

EmptyRecord == [entries |-> Empty, summary |-> 0, edits |-> 0]

NoPlan == [len |-> 0, fold |-> 0]

IdleSaver == [pc |-> "idle", snap |-> Empty, amend |-> 0, flush |-> FALSE,
              plan |-> NoPlan, rescue |-> FALSE]

IdleActor == [pc |-> "idle", snap |-> EmptyRecord, attempt |-> 0, acks |-> {}, failed |-> FALSE]

(* The state is well typed. *)
SaveTypeOK ==
    /\ session \in Transcript /\ session_record \in SessionRecord /\ disk \in SessionRecord
    /\ queue \subseteq Command
    /\ actor \in [pc : {"idle", "encode", "write", "settle", "ack"}, snap : SessionRecord,
                  attempt : 0..Retries, acks : SUBSET Saver, failed : BOOLEAN]
    /\ last_error \in BOOLEAN
    /\ saver \in [Saver -> [pc : {"idle", "fold", "snap", "record", "request", "flush",
                                  "wait", "acked"},
                            snap : Transcript, amend : Nat, flush : BOOLEAN,
                            plan : [len : Nat, fold : Nat], rescue : BOOLEAN]]
    /\ told \in Nat /\ crashes \in Nat /\ overtaken \in {"never", "now", "once"}

SaveInit ==
    /\ session = Empty /\ session_record = EmptyRecord /\ disk = EmptyRecord
    /\ queue = {} /\ actor = IdleActor /\ last_error = FALSE
    /\ saver = [s \in Saver |-> IdleSaver]
    /\ told = 0 /\ crashes = 0 /\ overtaken = "never"

-----------------------------------------------------------------------------
(* Folds *)

(* Entries in a transcript: the Compaction entry counts as one. *)
Length(t) == IF t.fold = 0 THEN t.n ELSE t.n - t.fold + 1

(* plan_compaction: how many leading entries a fold may archive.  The tail  *)
(* is kept (and extended back to the newest prompt), and a range of nothing *)
(* but the previous summary is no fold.                                     *)
PlanLengths(t) ==
    IF Length(t) <= RecentTail + 1 THEN {}
    ELSE {len \in 1 .. Length(t) - RecentTail : t.fold = 0 \/ len > 1}

(* The last of the first len entries behind a fold; the Compaction entry is *)
(* one of them.                                                             *)
FoldTo(fold, len) == IF fold = 0 THEN len ELSE fold + len - 1

(* apply_compaction: the plan's length applied to the transcript of now,    *)
(* with a summary written for the entries up to covers.                     *)
Folded(t, len, covers) == [t EXCEPT !.fold = FoldTo(t.fold, len), !.covers = covers]

(* The archived prefix is still the one the summary was written for: the    *)
(* same entries, by Arc::ptr_eq.  Appends leave it alone, a fold does not.  *)
PrefixIntact(t, plan) == Length(t) >= plan.len /\ t.fold = plan.fold

-----------------------------------------------------------------------------
(* Callers: persist_with, and what each does to the session before it *)

MayStart(s) == saver[s].pc = "idle"

Becomes(s, c) == saver' = [saver EXCEPT ![s] = c]

(* An entry is appended (a prompt, a reply, results, a steer) and then      *)
(* persisted.                                                               *)
AppendEntry(s) ==
    /\ MayStart(s) /\ session.n < MaxEntries
    /\ session' = [session EXCEPT !.n = @ + 1]
    /\ Becomes(s, [IdleSaver EXCEPT !.pc = "snap"])
    /\ UNCHANGED <<session_record, disk, queue, actor, last_error, crashes, told, overtaken>>

(* compact_session: the plan is made on a snapshot of the transcript; the   *)
(* summary is awaited.  Only a rescue or storage pressure may replan.       *)
PlanFold(s) ==
    /\ MayStart(s)
    /\ \E len \in PlanLengths(session), rescue \in BOOLEAN :
          Becomes(s, [IdleSaver EXCEPT !.pc = "fold", !.rescue = rescue,
                                       !.plan = [len |-> len, fold |-> session.fold]])
    /\ UNCHANGED <<session, session_record, disk, queue, actor, last_error, crashes, told, overtaken>>

(* The summary arrived: the fold is applied to the transcript of now, or    *)
(* the cancel, a failed summarizer or a changed history leaves it alone.    *)
(* A late tool result landing in the archived prefix (Arc::make_mut) is not *)
(* tracked; it breaks the prefix too, so a rescue may replan in any state.  *)
ApplyFold(s) ==
    LET plan == saver[s].plan
        done(t) == /\ session' = t
                   /\ Becomes(s, [IdleSaver EXCEPT !.pc = "snap", !.amend = t.covers])
    IN
    /\ saver[s].pc = "fold"
    /\ \/ Becomes(s, IdleSaver) /\ UNCHANGED session
       \/ /\ PrefixIntact(session, plan)
          /\ done(Folded(session, plan.len, FoldTo(plan.fold, plan.len)))
       \/ /\ saver[s].rescue
          /\ \E len \in PlanLengths(session) : done(Folded(session, len, FoldTo(session.fold, len)))
    /\ UNCHANGED <<session_record, disk, queue, actor, last_error, crashes, told, overtaken>>

(* flush_session, and the end of shutdown: persist, then wait. *)
FlushSession(s) ==
    /\ MayStart(s)
    /\ Becomes(s, [IdleSaver EXCEPT !.pc = "snap", !.flush = TRUE])
    /\ UNCHANGED <<session, session_record, disk, queue, actor, last_error, crashes, told, overtaken>>

MutAfterEdit == {"snap", "idle"}

AfterEdit == {"snap", "request"}

(* finish_turn pushes the turn on the record and persists; record_checkpoint *)
(* and apply_root_grant edit the record and only ask for a save.             *)
EditRecord(s) ==
    /\ MayStart(s) /\ session_record.edits < MaxEdits
    /\ session_record' = [session_record EXCEPT !.edits = @ + 1]
    /\ \E pc \in AfterEdit : Becomes(s, [IdleSaver EXCEPT !.pc = pc])
    /\ UNCHANGED <<session, disk, queue, actor, last_error, crashes, told, overtaken>>

(* persist_with, under the state lock: the entries are read... *)
ReadSession(s) ==
    /\ saver[s].pc = "snap"
    /\ Becomes(s, [saver[s] EXCEPT !.pc = "record", !.snap = session])
    /\ UNCHANGED <<session, session_record, disk, queue, actor, last_error, crashes, told, overtaken>>

(* What persist_with makes of the record: the entries wholesale, and the    *)
(* fold's summary and archived count under the same lock.                   *)
Amended(r, snap, amend) ==
    [r EXCEPT !.entries = snap, !.summary = IF amend > 0 THEN amend ELSE @]

(* A transcript is an older state of the session than another. *)
Behind(t, u) == t.n < u.n \/ t.fold < u.fold

(* What a write of the record does to the history: callers come to the      *)
(* record lock in any order, so what one read may be older than what the    *)
(* record holds, and stays there until the transcript of now is written.    *)
Overtaking(snap) ==
    IF Behind(snap, session_record.entries) THEN "now"
    ELSE IF overtaken = "now" /\ snap = session THEN "once" ELSE overtaken

(* ...and under the record lock they replace the record's. *)
WriteRecord(s) ==
    /\ saver[s].pc = "record"
    /\ session_record' = Amended(session_record, saver[s].snap, saver[s].amend)
    /\ overtaken' = Overtaking(saver[s].snap)
    /\ Becomes(s, IF saver[s].flush THEN [saver[s] EXCEPT !.pc = "request"]
               ELSE [IdleSaver EXCEPT !.pc = "request"])
    /\ UNCHANGED <<session, disk, queue, actor, last_error, told, crashes>>

(* request_save does not block. *)
RequestSave(s) ==
    /\ saver[s].pc = "request"
    /\ queue' = queue \cup {[kind |-> "save"]}
    /\ Becomes(s, IF saver[s].flush THEN [saver[s] EXCEPT !.pc = "flush"] ELSE IdleSaver)
    /\ UNCHANGED <<session, session_record, disk, actor, last_error, crashes, told, overtaken>>

(* flush: the acknowledgement is awaited. *)
SendFlush(s) ==
    /\ saver[s].pc = "flush"
    /\ queue' = queue \cup {[kind |-> "flush", by |-> s]}
    /\ Becomes(s, [saver[s] EXCEPT !.pc = "wait"])
    /\ UNCHANGED <<session, session_record, disk, actor, last_error, crashes, told, overtaken>>

(* flush_session answers with last_save_error. *)
ReadOutcome(s) ==
    /\ saver[s].pc = "acked"
    /\ told' = IF last_error \/ told > saver[s].snap.n THEN told ELSE saver[s].snap.n
    /\ Becomes(s, IdleSaver)
    /\ UNCHANGED <<session, session_record, disk, queue, actor, last_error, crashes, overtaken>>

-----------------------------------------------------------------------------
(* The actor: actor_loop and save_with_retry *)

Writer(a) == actor' = a

MutAbsorbed(q) == {}

(* absorb over all that is queued: one save, and everyone to acknowledge. *)
Absorbed(q) == {s \in Saver : [kind |-> "flush", by |-> s] \in q}

Take ==
    /\ actor.pc = "idle" /\ queue # {}
    /\ Writer([IdleActor EXCEPT !.pc = "encode", !.acks = Absorbed(queue)])
    /\ queue' = {}
    /\ UNCHANGED <<session, session_record, disk, last_error, saver, crashes, told, overtaken>>

Settling(failed) ==
    [IdleActor EXCEPT !.pc = "settle", !.acks = actor.acks, !.failed = failed]

(* prepare_record, under the record lock, once per attempt.  A key that is  *)
(* unavailable or a record that does not serialize is permanent.            *)
Encode ==
    /\ actor.pc = "encode"
    /\ \/ Writer([actor EXCEPT !.pc = "write", !.snap = session_record])
       \/ Writer(Settling(TRUE))
    /\ UNCHANGED <<session, session_record, disk, queue, last_error, saver, crashes, told, overtaken>>

RetryLeft == actor.attempt < Retries

(* save_prepared: the file is replaced by a rename or not at all, and an    *)
(* error may come before the rename or after it (the directory's fsync).    *)
(* Only I/O errors are retried, after a delay.                              *)
Write ==
    /\ actor.pc = "write"
    /\ \/ disk' = actor.snap /\ Writer(Settling(FALSE))
       \/ /\ disk' \in {disk, actor.snap}
          /\ Writer(IF RetryLeft
                    THEN [actor EXCEPT !.pc = "encode", !.snap = EmptyRecord, !.attempt = @ + 1]
                    ELSE Settling(TRUE))
       \/ disk' = disk /\ Writer(Settling(TRUE))
    /\ UNCHANGED <<session, session_record, queue, last_error, saver, crashes, told, overtaken>>

MutSettled(failed) == FALSE

(* last_error after a save: set by its failure, cleared by its success. *)
Settled(failed) == failed

Settle ==
    /\ actor.pc = "settle"
    /\ last_error' = Settled(actor.failed)
    /\ Writer([actor EXCEPT !.pc = "ack", !.failed = FALSE])
    /\ UNCHANGED <<session, session_record, disk, queue, saver, crashes, told, overtaken>>

Acknowledge ==
    /\ actor.pc = "ack"
    /\ saver' = [s \in Saver |-> IF s \in actor.acks THEN [saver[s] EXCEPT !.pc = "acked"]
                                 ELSE saver[s]]
    /\ Writer(IdleActor)
    /\ UNCHANGED <<session, session_record, disk, queue, last_error, crashes, told, overtaken>>

-----------------------------------------------------------------------------
(* The process dies; from_record resumes from what the file holds. *)

Resumed(file) == file.entries

Crash ==
    /\ crashes < MaxCrash
    /\ crashes' = crashes + 1
    /\ session' = Resumed(disk) /\ session_record' = disk
    /\ queue' = {} /\ actor' = IdleActor /\ last_error' = FALSE
    /\ saver' = [s \in Saver |-> IdleSaver]
    /\ overtaken' = IF overtaken = "now" THEN "once" ELSE overtaken
    /\ UNCHANGED <<disk, told>>

-----------------------------------------------------------------------------
(* Specification *)

SaverStep(s) ==
    \/ ApplyFold(s) \/ ReadSession(s) \/ WriteRecord(s) \/ RequestSave(s)
    \/ SendFlush(s) \/ ReadOutcome(s)

Start(s) == AppendEntry(s) \/ PlanFold(s) \/ FlushSession(s) \/ EditRecord(s)

ActorStep == Take \/ Encode \/ Write \/ Settle \/ Acknowledge

SaveNext ==
    \/ \E s \in Saver : Start(s) \/ SaverStep(s)
    \/ ActorStep
    \/ Crash

SaveSpec == SaveInit /\ [][SaveNext]_saveVars

(* The executor polls the actor and every caller that can go on; nobody has *)
(* to start another save.                                                   *)
SaveFairness == WF_saveVars(ActorStep) /\ \A s \in Saver : WF_saveVars(SaverStep(s))

-----------------------------------------------------------------------------
(* Properties *)

Quiet == (\A s \in Saver : saver[s].pc = "idle") /\ queue = {} /\ actor.pc = "idle"

(* What flush_session reported saved is in the file, through every later    *)
(* save, coalesced request, failed write, retry and crash: only a caller    *)
(* that writes an older transcript over a newer one can take it back        *)
(* (persist_with's two locks, absorb, flush, last_save_error).              *)
FlushDurable == overtaken = "never" => told <= disk.entries.n

(* When nobody is at work and no error is showing, the file holds the live  *)
(* transcript, unless the last caller to write overtook another: whoever    *)
(* persists next makes the file whole again.                                *)
QuietIsSaved == Quiet /\ ~last_error => disk.entries = session \/ overtaken = "now"

(* The same for the record, whoever edits it: an edit is followed by a      *)
(* request, and a save that failed for good leaves its error showing.       *)
HonestError == Quiet /\ ~last_error => disk = session_record

(* A runtime at rest that shows no error has its whole record in the file,  *)
(* and in it the live transcript unless the last persist was overtaken: a   *)
(* burst of saves coalesced into one write loses nothing, whichever fails   *)
(* (persist_with, absorb, save_with_retry).                                 *)
TranscriptIsSaved == QuietIsSaved /\ HonestError

(* No fold hides entries its summary was not written for, although a turn   *)
(* or another fold went on while the summary was awaited (compact_session's *)
(* check of the prefix).                                                    *)
SummaryFits == session.covers = session.fold

(* Every flush is answered, whatever the disk does (actor_loop), unless the *)
(* process dies.                                                            *)
FlushAnswered == \A s \in Saver : saver[s].pc = "wait" ~> saver[s].pc # "wait"
=============================================================================

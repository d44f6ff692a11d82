---------------------- MODULE SessionPersistenceProofs ----------------------
(***************************************************************************)
(* Proofs about SessionPersistence for any number of callers, entries,     *)
(* retries and crashes: the state is well typed, a failed save is never    *)
(* hidden, no fold hides entries its summary was not written for, and what *)
(* a flush confirmed stays in the file and a quiet runtime that shows no   *)
(* error is saved whole, however the callers interleave, as long as none   *)
(* of them writes an older transcript over a newer one.                    *)
(***************************************************************************)
EXTENDS SessionPersistence, TLAPS

(* What every field of a caller's and of the actor's local state ranges over. *)
SaverType == [pc : {"idle", "fold", "snap", "record", "request", "flush", "wait", "acked"},
              snap : Transcript, amend : Nat, flush : BOOLEAN,
              plan : [len : Nat, fold : Nat], rescue : BOOLEAN]

ActorType == [pc : {"idle", "encode", "write", "settle", "ack"}, snap : SessionRecord,
              attempt : 0..Retries, acks : SUBSET Saver, failed : BOOLEAN]

(* A fold of a well-typed transcript is one (apply_compaction). *)
LEMMA FoldedType ==
    ASSUME NEW t \in Transcript, NEW len \in Nat, NEW covers \in Nat
    PROVE  /\ FoldTo(t.fold, len) \in Nat
           /\ Folded(t, len, covers) \in Transcript
<1>1. t.fold \in Nat
  BY DEF Transcript
<1>2. FoldTo(t.fold, len) \in Nat
  BY <1>1 DEF FoldTo
<1>3. Folded(t, len, covers) \in Transcript
  BY <1>2 DEF Folded, Transcript
<1> QED BY <1>2, <1>3

(* The lengths plan_compaction may choose archive something. *)
LEMMA PlanType ==
    ASSUME NEW t \in Transcript, NEW len \in PlanLengths(t)
    PROVE  len \in Nat /\ len > 0
<1>1. CASE Length(t) <= RecentTail + 1
  BY <1>1 DEF PlanLengths
<1>2. CASE ~(Length(t) <= RecentTail + 1)
  <2>1. len \in 1 .. Length(t) - RecentTail
    BY <1>2 DEF PlanLengths
  <2> QED BY <2>1
<1> QED BY <1>1, <1>2

(* The idle records are well typed. *)
LEMMA IdleType == IdleSaver \in SaverType /\ IdleActor \in ActorType /\ EmptyRecord \in SessionRecord
<1>1. Empty \in Transcript
  BY DEF Empty, Transcript
<1>2. EmptyRecord \in SessionRecord
  BY <1>1 DEF EmptyRecord, SessionRecord
<1>3. 0 \in 0..Retries
  BY SaverAssumption
<1> QED
  BY <1>1, <1>2, <1>3 DEF IdleSaver, IdleActor, SaverType, ActorType, NoPlan

(* One caller's step changes one caller's state to a well-typed one. *)
LEMMA StepType ==
    ASSUME NEW s \in Saver, NEW c \in SaverType, saver \in [Saver -> SaverType], Becomes(s, c)
    PROVE  saver' \in [Saver -> SaverType]
BY DEF Becomes

(* The initial state is well typed. *)
LEMMA InitTypeOK == SaveInit => SaveTypeOK
<1>0. SaveTypeOK <=>
         /\ session \in Transcript /\ session_record \in SessionRecord /\ disk \in SessionRecord
         /\ queue \subseteq Command /\ actor \in ActorType
         /\ last_error \in BOOLEAN /\ saver \in [Saver -> SaverType]
         /\ told \in Nat /\ crashes \in Nat /\ overtaken \in {"never", "now", "once"}
  BY DEF SaveTypeOK, SaverType, ActorType
<1>1. Empty \in Transcript
  BY DEF Empty, Transcript
<1>2. [s \in Saver |-> IdleSaver] \in [Saver -> SaverType]
  BY IdleType
<1>3. SUFFICES ASSUME SaveInit PROVE SaveTypeOK
  OBVIOUS
<1>4. session \in Transcript /\ session_record \in SessionRecord /\ disk \in SessionRecord /\ queue \subseteq Command
  BY <1>1, <1>3, IdleType DEF SaveInit
<1>5. actor \in ActorType /\ saver \in [Saver -> SaverType]
  BY <1>2, <1>3, IdleType DEF SaveInit
<1>6. last_error \in BOOLEAN /\ told \in Nat /\ crashes \in Nat /\ overtaken \in {"never", "now", "once"}
  BY <1>3 DEF SaveInit
<1> QED BY <1>0, <1>4, <1>5, <1>6

(* Every step keeps the types. *)
LEMMA NextTypeOK == SaveTypeOK /\ [SaveNext]_saveVars => SaveTypeOK'
<1>00. SaveTypeOK <=>
         /\ session \in Transcript /\ session_record \in SessionRecord /\ disk \in SessionRecord
         /\ queue \subseteq Command /\ actor \in ActorType
         /\ last_error \in BOOLEAN /\ saver \in [Saver -> SaverType]
         /\ told \in Nat /\ crashes \in Nat /\ overtaken \in {"never", "now", "once"}
  BY DEF SaveTypeOK, SaverType, ActorType
<1> SUFFICES ASSUME SaveTypeOK, [SaveNext]_saveVars PROVE SaveTypeOK'
  OBVIOUS
<1>0. SaveTypeOK' <=>
         /\ session' \in Transcript /\ session_record' \in SessionRecord /\ disk' \in SessionRecord
         /\ queue' \subseteq Command /\ actor' \in ActorType
         /\ last_error' \in BOOLEAN /\ saver' \in [Saver -> SaverType]
         /\ told' \in Nat /\ crashes' \in Nat /\ overtaken' \in {"never", "now", "once"}
  BY DEF SaveTypeOK, SaverType, ActorType
<1> USE <1>00, <1>0, IdleType
<1>1. ASSUME NEW s \in Saver, Start(s) PROVE SaveTypeOK'
  <2>1. CASE AppendEntry(s)
    <3>1. [IdleSaver EXCEPT !.pc = "snap"] \in SaverType
      BY DEF SaverType
    <3>2. session' \in Transcript
      BY <2>1 DEF AppendEntry, Transcript
    <3> QED BY <2>1, <3>1, <3>2, StepType DEF AppendEntry
  <2>2. CASE PlanFold(s)
    <3>1. PICK len \in PlanLengths(session), rescue \in BOOLEAN :
             Becomes(s, [IdleSaver EXCEPT !.pc = "fold",
                                  !.plan = [len |-> len, fold |-> session.fold],
                                  !.rescue = rescue])
      BY <2>2 DEF PlanFold
    <3>2. len \in Nat /\ session.fold \in Nat
      BY PlanType DEF Transcript
    <3>3. [IdleSaver EXCEPT !.pc = "fold", !.plan = [len |-> len, fold |-> session.fold],
                       !.rescue = rescue] \in SaverType
      BY <3>2 DEF SaverType
    <3> QED BY <2>2, <3>1, <3>3, StepType DEF PlanFold
  <2>3. CASE FlushSession(s)
    <3>1. [IdleSaver EXCEPT !.pc = "snap", !.flush = TRUE] \in SaverType
      BY DEF SaverType
    <3> QED BY <2>3, <3>1, StepType DEF FlushSession
  <2>4. CASE EditRecord(s)
    <3>1. PICK pc \in AfterEdit : Becomes(s, [IdleSaver EXCEPT !.pc = pc])
      BY <2>4 DEF EditRecord
    <3>2. [IdleSaver EXCEPT !.pc = pc] \in SaverType
      BY DEF SaverType, AfterEdit
    <3>3. session_record' \in SessionRecord
      BY <2>4 DEF EditRecord, SessionRecord
    <3> QED BY <2>4, <3>1, <3>2, <3>3, StepType DEF EditRecord
  <2> QED BY <1>1, <2>1, <2>2, <2>3, <2>4 DEF Start
<1>2. ASSUME NEW s \in Saver, SaverStep(s) PROVE SaveTypeOK'
  <2>0. saver[s] \in SaverType
    OBVIOUS
  <2>1. CASE ApplyFold(s)
    <3> DEFINE done(t) == /\ session' = t
                          /\ Becomes(s, [IdleSaver EXCEPT !.pc = "snap", !.amend = t.covers])
    <3>1. \/ Becomes(s, IdleSaver) /\ UNCHANGED session
          \/ \E len \in Nat, covers \in Nat : done(Folded(session, len, covers))
      <4>1. CASE Becomes(s, IdleSaver) /\ UNCHANGED session
        BY <4>1
      <4>2. CASE done(Folded(session, saver[s].plan.len,
                             FoldTo(saver[s].plan.fold, saver[s].plan.len)))
        <5>1. saver[s].plan.len \in Nat /\ saver[s].plan.fold \in Nat
          BY <2>0 DEF SaverType
        <5>2. FoldTo(saver[s].plan.fold, saver[s].plan.len) \in Nat
          BY <5>1 DEF FoldTo
        <5> QED BY <4>2, <5>1, <5>2
      <4>3. CASE \E len \in PlanLengths(session) :
                    done(Folded(session, len, FoldTo(session.fold, len)))
        <5>1. PICK len \in PlanLengths(session) :
                    done(Folded(session, len, FoldTo(session.fold, len)))
          BY <4>3
        <5>2. len \in Nat
          BY PlanType
        <5>3. FoldTo(session.fold, len) \in Nat
          BY <5>2, FoldedType
        <5> QED BY <5>1, <5>2, <5>3
      <4> QED BY <2>1, <4>1, <4>2, <4>3 DEF ApplyFold
    <3>2. CASE Becomes(s, IdleSaver) /\ UNCHANGED session
      BY <2>1, <3>2, StepType DEF ApplyFold
    <3>3. CASE \E len \in Nat, covers \in Nat : done(Folded(session, len, covers))
      <4>1. PICK len \in Nat, covers \in Nat : done(Folded(session, len, covers))
        BY <3>3
      <4>2. session' \in Transcript
        BY <4>1, FoldedType
      <4>3. [IdleSaver EXCEPT !.pc = "snap", !.amend = session'.covers] \in SaverType
        BY <4>2 DEF SaverType, Transcript
      <4> QED BY <2>1, <4>1, <4>2, <4>3, StepType DEF ApplyFold
    <3> QED BY <3>1, <3>2, <3>3
  <2>2. CASE ReadSession(s)
    <3>1. [saver[s] EXCEPT !.pc = "record", !.snap = session] \in SaverType
      BY <2>0 DEF SaverType
    <3> QED BY <2>2, <3>1, StepType DEF ReadSession
  <2>3. CASE WriteRecord(s)
    <3>1. session_record' \in SessionRecord
      BY <2>0, <2>3 DEF WriteRecord, Amended, SessionRecord, SaverType
    <3>2. /\ [saver[s] EXCEPT !.pc = "request"] \in SaverType
          /\ [IdleSaver EXCEPT !.pc = "request"] \in SaverType
      BY <2>0 DEF SaverType
    <3>3. overtaken' \in {"never", "now", "once"}
      BY <2>3 DEF WriteRecord, Overtaking
    <3>4. saver' \in [Saver -> SaverType]
      BY <2>3, <3>2, StepType DEF WriteRecord
    <3> QED BY <2>3, <3>1, <3>3, <3>4 DEF WriteRecord
  <2>4. CASE RequestSave(s)
    <3>1. [saver[s] EXCEPT !.pc = "flush"] \in SaverType
      BY <2>0 DEF SaverType
    <3>2. queue' \subseteq Command
      BY <2>4 DEF RequestSave, Command
    <3> QED BY <2>4, <3>1, <3>2, StepType DEF RequestSave
  <2>5. CASE SendFlush(s)
    <3>1. [saver[s] EXCEPT !.pc = "wait"] \in SaverType
      BY <2>0 DEF SaverType
    <3>2. queue' \subseteq Command
      BY <2>5 DEF SendFlush, Command
    <3> QED BY <2>5, <3>1, <3>2, StepType DEF SendFlush
  <2>6. CASE ReadOutcome(s)
    <3>1. saver[s].snap.n \in Nat
      BY <2>0 DEF SaverType, Transcript
    <3> QED BY <2>6, <3>1, StepType DEF ReadOutcome
  <2> QED BY <1>2, <2>1, <2>2, <2>3, <2>4, <2>5, <2>6 DEF SaverStep
<1>3. ASSUME ActorStep PROVE SaveTypeOK'
  <2>0. \A b \in BOOLEAN : Settling(b) \in ActorType
    BY DEF Settling, ActorType
  <2>1. CASE Take
    <3>1. Absorbed(queue) \subseteq Saver
      BY DEF Absorbed
    <3>2. [IdleActor EXCEPT !.pc = "encode", !.acks = Absorbed(queue)] \in ActorType
      BY <3>1 DEF ActorType
    <3> QED BY <2>1, <3>2 DEF Take, Writer
  <2>2. CASE Encode
    <3>1. [actor EXCEPT !.pc = "write", !.snap = session_record] \in ActorType
      BY DEF ActorType
    <3> QED BY <2>0, <2>2, <3>1 DEF Encode, Writer
  <2>3. CASE Write
    <3>1. actor.snap \in SessionRecord
      BY DEF ActorType
    <3>2. RetryLeft =>
            [actor EXCEPT !.pc = "encode", !.snap = EmptyRecord, !.attempt = @ + 1] \in ActorType
      <4>1. RetryLeft => actor.attempt + 1 \in 0..Retries
        BY SaverAssumption DEF ActorType, RetryLeft
      <4> QED BY <4>1 DEF ActorType
    <3> QED BY <2>0, <2>3, <3>1, <3>2 DEF Write, Writer
  <2>4. CASE Settle
    <3>1. [actor EXCEPT !.pc = "ack", !.failed = FALSE] \in ActorType
      BY DEF ActorType
    <3>2. actor.failed \in BOOLEAN
      BY DEF ActorType
    <3> QED BY <2>4, <3>1, <3>2 DEF Settle, Settled, Writer
  <2>5. CASE Acknowledge
    <3>1. \A s \in Saver : [saver[s] EXCEPT !.pc = "acked"] \in SaverType
      BY DEF SaverType
    <3> QED BY <2>5, <3>1 DEF Acknowledge, Writer
  <2> QED BY <1>3, <2>1, <2>2, <2>3, <2>4, <2>5 DEF ActorStep
<1>4. ASSUME Crash PROVE SaveTypeOK'
  <2>1. Resumed(disk) \in Transcript
    BY DEF Resumed, SessionRecord
  <2>2. saver' = [s \in Saver |-> IdleSaver] /\ last_error' = FALSE
    BY <1>4 DEF Crash
  <2>3. saver' \in [Saver -> SaverType] /\ last_error' \in BOOLEAN
    BY <2>2
  <2>4. session' \in Transcript /\ session_record' \in SessionRecord /\ disk' \in SessionRecord /\ told' \in Nat
    BY <1>4, <2>1 DEF Crash
  <2>5. queue' \subseteq Command /\ actor' \in ActorType /\ crashes' \in Nat
    BY <1>4 DEF Crash
  <2>6. overtaken' \in {"never", "now", "once"}
    BY <1>4 DEF Crash
  <2> QED BY <2>3, <2>4, <2>5, <2>6
<1>5. CASE UNCHANGED saveVars
  BY <1>5 DEF saveVars
<1> QED BY <1>1, <1>2, <1>3, <1>4, <1>5 DEF SaveNext

(* Type correctness: whatever the callers, the actor, the disk and crashes  *)
(* do, the transcript, the record, the file and the attempt count (at most  *)
(* the length of SAVE_RETRY_BACKOFF) stay in their types.                   *)
THEOREM TypeCorrect == SaveSpec => []SaveTypeOK
BY InitTypeOK, NextTypeOK, PTL DEF SaveSpec

-----------------------------------------------------------------------------
(* A failed save is never hidden *)

(* Somebody is still on the way to ask for a save, or has asked. *)
Promised == queue # {} \/ \E s \in Saver : saver[s].pc \in {"snap", "record", "request"}

(* Only a caller that waits is named in a flush or about to be acknowledged. *)
Waiting ==
    \A s \in Saver :
        /\ s \in actor.acks => saver[s].pc = "wait"
        /\ [kind |-> "flush", by |-> s] \in queue => saver[s].pc = "wait" /\ s \notin actor.acks

(* What makes HonestError inductive: where the actor is, the file has the    *)
(* record, or the error is recorded or about to be, or another save comes.   *)
HonestInv ==
    /\ SaveTypeOK
    /\ Waiting
    /\ actor.pc = "write" => actor.snap = session_record \/ Promised
    /\ actor.pc = "settle" => actor.failed \/ disk = session_record \/ Promised
    /\ actor.pc \in {"idle", "ack"} => last_error \/ disk = session_record \/ Promised

(* Every step of a caller keeps a save promised once it is, and makes one    *)
(* of every change of the record.                                            *)
LEMMA CallersPromise ==
    ASSUME HonestInv, SaveTypeOK', NEW s \in Saver, Start(s) \/ SaverStep(s)
    PROVE  HonestInv'
<1> USE DEF HonestInv
<1>0. saver \in [Saver -> SaverType] /\ actor \in ActorType
  BY DEF SaveTypeOK, SaverType, ActorType
<1>1. /\ actor' = actor /\ disk' = disk /\ last_error' = last_error
      /\ \A u \in Saver : u # s => saver'[u] = saver[u]
  BY <1>0 DEF Start, SaverStep, AppendEntry, PlanFold, FlushSession, EditRecord, ApplyFold,
              ReadSession, WriteRecord, RequestSave, SendFlush, ReadOutcome, Becomes
<1>2. Promised => Promised'
  <2> SUFFICES ASSUME Promised PROVE Promised'
    OBVIOUS
  <2>1. CASE queue # {}
    BY <2>1 DEF Promised, Start, SaverStep, AppendEntry, PlanFold, FlushSession, EditRecord,
                ApplyFold, ReadSession, WriteRecord, RequestSave, SendFlush, ReadOutcome
  <2>2. CASE queue = {}
    <3>1. PICK u \in Saver : saver[u].pc \in {"snap", "record", "request"}
      BY <2>2 DEF Promised
    <3>2. CASE u # s
      BY <1>1, <3>1, <3>2 DEF Promised
    <3>3. CASE u = s
      <4>1. ReadSession(s) \/ WriteRecord(s) \/ RequestSave(s)
        BY <3>1, <3>3 DEF Start, SaverStep, AppendEntry, PlanFold, FlushSession, EditRecord,
                          ApplyFold, SendFlush, ReadOutcome, MayStart
      <4>2. CASE ReadSession(s)
        BY <1>0, <4>2 DEF ReadSession, Becomes, Promised, SaverType
      <4>3. CASE WriteRecord(s)
        BY <1>0, <4>3, IdleType DEF WriteRecord, Becomes, Promised, SaverType
      <4>4. CASE RequestSave(s)
        BY <4>4 DEF RequestSave, Promised
      <4> QED BY <4>1, <4>2, <4>3, <4>4
    <3> QED BY <3>2, <3>3
  <2> QED BY <2>1, <2>2
<1>3. session_record' = session_record \/ Promised'
  <2>1. CASE EditRecord(s)
    BY <1>0, <2>1, IdleType DEF EditRecord, AfterEdit, Becomes, Promised, SaverType
  <2>2. CASE WriteRecord(s)
    BY <1>0, <2>2, IdleType DEF WriteRecord, Becomes, Promised, SaverType
  <2>3. CASE ~EditRecord(s) /\ ~WriteRecord(s)
    BY <2>3 DEF Start, SaverStep, AppendEntry, PlanFold, FlushSession, ApplyFold,
                ReadSession, RequestSave, SendFlush, ReadOutcome
  <2> QED BY <2>1, <2>2, <2>3
<1>4. Waiting'
  <2>1. CASE SendFlush(s)
    BY <1>0, <1>1, <2>1 DEF SendFlush, Becomes, Waiting, SaverType
  <2>2. CASE ~SendFlush(s)
    <3>1. saver[s].pc # "wait"
      BY <2>2 DEF Start, SaverStep, AppendEntry, PlanFold, FlushSession, EditRecord,
                  ApplyFold, ReadSession, WriteRecord, RequestSave, ReadOutcome, MayStart
    <3>2. \A u \in Saver : [kind |-> "flush", by |-> u] \in queue'
                           => [kind |-> "flush", by |-> u] \in queue
      <4>1. CASE RequestSave(s)
        <5>1. queue' = queue \cup {[kind |-> "save"]}
          BY <4>1 DEF RequestSave
        <5>2. ASSUME NEW u \in Saver PROVE [kind |-> "flush", by |-> u] # [kind |-> "save"]
          <6>1. [kind |-> "flush", by |-> u].kind # [kind |-> "save"].kind
            OBVIOUS
          <6> QED BY <6>1
        <5> QED BY <5>1, <5>2
      <4>2. CASE ~RequestSave(s)
        BY <2>2, <4>2 DEF Start, SaverStep, AppendEntry, PlanFold, FlushSession, EditRecord,
                          ApplyFold, ReadSession, WriteRecord, ReadOutcome
      <4> QED BY <4>1, <4>2
    <3> QED BY <1>1, <3>1, <3>2 DEF Waiting
  <2> QED BY <2>1, <2>2
<1> QED BY <1>1, <1>2, <1>3, <1>4

(* The actor drops a promise only to encode the record, and gives up on it   *)
(* only with the failure recorded.                                           *)
LEMMA ActorIsHonest ==
    ASSUME HonestInv, SaveTypeOK', ActorStep
    PROVE  HonestInv'
<1> USE DEF HonestInv
<1>0. saver \in [Saver -> SaverType] /\ actor \in ActorType
  BY DEF SaveTypeOK, SaverType, ActorType
<1>1. CASE Take
  <2>1. /\ actor'.pc = "encode" /\ actor'.acks = Absorbed(queue)
        /\ queue' = {} /\ saver' = saver
    BY <1>1, IdleType DEF Take, Writer, ActorType
  <2>2. Waiting'
    BY <2>1 DEF Waiting, Absorbed
  <2> QED BY <2>1, <2>2
<1>2. CASE Encode
  <2>1. /\ actor'.acks = actor.acks /\ queue' = queue /\ saver' = saver
        /\ session_record' = session_record /\ disk' = disk /\ last_error' = last_error
    BY <1>0, <1>2, IdleType DEF Encode, Writer, Settling, ActorType
  <2>2. \/ actor'.pc = "write" /\ actor'.snap = session_record
        \/ actor'.pc = "settle" /\ actor'.failed
    BY <1>0, <1>2, IdleType DEF Encode, Writer, Settling, ActorType
  <2>3. Waiting'
    BY <2>1 DEF Waiting
  <2> QED BY <2>1, <2>2, <2>3
<1>3. CASE Write
  <2>1. /\ actor'.acks = actor.acks /\ queue' = queue /\ saver' = saver
        /\ session_record' = session_record /\ last_error' = last_error
    BY <1>0, <1>3, IdleType DEF Write, Writer, Settling, ActorType
  <2>2. \/ actor'.pc = "settle" /\ disk' = actor.snap
        \/ actor'.pc = "settle" /\ actor'.failed
        \/ actor'.pc = "encode"
    BY <1>0, <1>3, IdleType DEF Write, Writer, Settling, ActorType
  <2>3. Waiting'
    BY <2>1 DEF Waiting
  <2>4. Promised => Promised'
    BY <2>1 DEF Promised
  <2>5. actor.snap = session_record \/ Promised
    BY <1>3 DEF Write
  <2> QED BY <2>1, <2>2, <2>3, <2>4, <2>5
<1>4. CASE Settle
  <2>1. /\ actor'.pc = "ack" /\ actor'.acks = actor.acks /\ queue' = queue /\ saver' = saver
        /\ session_record' = session_record /\ disk' = disk /\ last_error' = actor.failed
    BY <1>0, <1>4 DEF Settle, Settled, Writer, ActorType
  <2>2. Waiting'
    BY <2>1 DEF Waiting
  <2>3. Promised => Promised'
    BY <2>1 DEF Promised
  <2> QED BY <1>4, <2>1, <2>2, <2>3 DEF Settle
<1>5. CASE Acknowledge
  <2>1. /\ actor'.pc = "idle" /\ actor'.acks = {} /\ queue' = queue
        /\ session_record' = session_record /\ disk' = disk /\ last_error' = last_error
    BY <1>5, IdleType DEF Acknowledge, Writer, IdleActor
  <2>2. \A s \in Saver : s \notin actor.acks => saver'[s] = saver[s]
    BY <1>5 DEF Acknowledge
  <2>3. \A s \in actor.acks : saver[s].pc = "wait"
    BY <1>0 DEF Waiting, ActorType
  <2>4. Promised => Promised'
    BY <2>1, <2>2, <2>3 DEF Promised
  <2>5. Waiting'
    <3> SUFFICES ASSUME NEW s \in Saver, [kind |-> "flush", by |-> s] \in queue
                 PROVE  saver'[s].pc = "wait"
      BY <2>1 DEF Waiting
    <3> QED BY <2>2 DEF Waiting
  <2> QED BY <1>5, <2>1, <2>4, <2>5 DEF Acknowledge
<1> QED BY <1>1, <1>2, <1>3, <1>4, <1>5 DEF ActorStep

(* HonestInv holds in every reachable state, for any number of callers. *)
THEOREM HonestInvariance == SaveSpec => []HonestInv
<1>1. SaveInit => HonestInv
  <2> SUFFICES ASSUME SaveInit PROVE HonestInv
    OBVIOUS
  <2>1. SaveTypeOK
    BY InitTypeOK
  <2>2. Waiting
    BY DEF SaveInit, Waiting, IdleActor
  <2> QED BY <2>1, <2>2 DEF SaveInit, HonestInv, IdleActor
<1>2. HonestInv /\ [SaveNext]_saveVars => HonestInv'
  <2> SUFFICES ASSUME HonestInv, [SaveNext]_saveVars PROVE HonestInv'
    OBVIOUS
  <2>0. SaveTypeOK'
    BY NextTypeOK DEF HonestInv
  <2>1. ASSUME NEW s \in Saver, Start(s) \/ SaverStep(s) PROVE HonestInv'
    BY <2>0, <2>1, CallersPromise
  <2>2. CASE ActorStep
    BY <2>0, <2>2, ActorIsHonest
  <2>3. CASE Crash
    <3>1. disk' = session_record' /\ actor' = IdleActor /\ queue' = {}
      BY <2>3 DEF Crash
    <3> QED BY <2>0, <3>1 DEF HonestInv, Waiting, IdleActor
  <2>4. CASE UNCHANGED saveVars
    BY <2>4, <2>0 DEF saveVars, HonestInv, Waiting, Promised
  <2> QED BY <2>1, <2>2, <2>3, <2>4 DEF SaveNext
<1> QED BY <1>1, <1>2, PTL DEF SaveSpec

(* A quiet runtime that shows no save error has its record in the file,     *)
(* whoever edits the record and however often writes fail (request_save,    *)
(* actor_loop, save_with_retry).                                            *)
THEOREM ErrorsAreHonest == SaveSpec => []HonestError
<1>1. HonestInv => HonestError
  BY DEF HonestInv, HonestError, Quiet, Promised
<1> QED BY <1>1, HonestInvariance, PTL

-----------------------------------------------------------------------------
(* No fold hides entries its summary was not written for *)

(* The summary of a transcript was written for what it replaces. *)
Fits(t) == t.covers = t.fold

(* What makes SummaryFits inductive: every copy of the transcript fits.      *)
FitInv ==
    /\ SaveTypeOK
    /\ Fits(session) /\ Fits(session_record.entries) /\ Fits(disk.entries) /\ Fits(actor.snap.entries)
    /\ \A s \in Saver : Fits(saver[s].snap)

(* An idle caller's transcript is the empty one, wherever it goes next. *)
LEMMA IdleSnap == \A pc : Fits([IdleSaver EXCEPT !.pc = pc].snap)
BY IdleType DEF SaverType, IdleSaver, Empty, Fits

(* A caller's step leaves it with a transcript that fits. *)
LEMMA CallersFit ==
    ASSUME SaveTypeOK, \A u \in Saver : Fits(saver[u].snap),
           NEW s \in Saver, NEW c, Fits(c.snap), Becomes(s, c)
    PROVE  \A u \in Saver : Fits(saver'[u].snap)
<1>1. saver \in [Saver -> SaverType]
  BY DEF SaveTypeOK, SaverType
<1> QED BY <1>1 DEF Becomes

(* Every fold the check of the prefix lets through covers what it archives,  *)
(* whatever was appended or folded while its summary was written.            *)
LEMMA FitStep ==
    ASSUME FitInv, SaveTypeOK', [SaveNext]_saveVars
    PROVE  FitInv'
<1> USE DEF FitInv, Fits
<1>0. /\ saver \in [Saver -> SaverType] /\ actor \in ActorType
      /\ session \in Transcript /\ session_record \in SessionRecord /\ disk \in SessionRecord
  BY DEF SaveTypeOK, SaverType, ActorType
<1>e. Fits(Empty) /\ Fits(EmptyRecord.entries) /\ Fits(IdleSaver.snap) /\ Fits(IdleActor.snap.entries)
  BY DEF Empty, EmptyRecord, IdleSaver, IdleActor
<1>1. ASSUME NEW s \in Saver, Start(s) PROVE FitInv'
  <2>1. session_record'.entries = session_record.entries /\ disk' = disk /\ actor' = actor
    BY <1>0, <1>1 DEF Start, AppendEntry, PlanFold, FlushSession, EditRecord, SessionRecord
  <2>2. Fits(session')
    BY <1>0, <1>1 DEF Start, AppendEntry, PlanFold, FlushSession, EditRecord, Transcript
  <2>3. \A u \in Saver : Fits(saver'[u].snap)
    <3>1. CASE AppendEntry(s)
      BY <1>e, <3>1, CallersFit, IdleSnap DEF AppendEntry
    <3>2. CASE PlanFold(s)
      <4>1. PICK len \in PlanLengths(session), rescue \in BOOLEAN :
               Becomes(s, [IdleSaver EXCEPT !.pc = "fold", !.plan = [len |-> len, fold |-> session.fold],
                                    !.rescue = rescue])
        BY <3>2 DEF PlanFold
      <4>2. Fits([IdleSaver EXCEPT !.pc = "fold", !.plan = [len |-> len, fold |-> session.fold],
                              !.rescue = rescue].snap)
        BY <1>e, IdleType DEF SaverType
      <4> QED BY <4>1, <4>2, CallersFit
    <3>3. CASE FlushSession(s)
      <4>1. Fits([IdleSaver EXCEPT !.pc = "snap", !.flush = TRUE].snap)
        BY <1>e, IdleType DEF SaverType
      <4> QED BY <3>3, <4>1, CallersFit DEF FlushSession
    <3>4. CASE EditRecord(s)
      BY <1>e, <3>4, CallersFit, IdleSnap DEF EditRecord
    <3> QED BY <1>1, <3>1, <3>2, <3>3, <3>4 DEF Start
  <2> QED BY <2>1, <2>2, <2>3
<1>2. ASSUME NEW s \in Saver, ApplyFold(s) PROVE FitInv'
  <2>1. session_record' = session_record /\ disk' = disk /\ actor' = actor
    BY <1>2 DEF ApplyFold
  <2>2. \A u \in Saver : Fits(saver'[u].snap)
    <3>1. CASE Becomes(s, IdleSaver)
      BY <1>e, <3>1, CallersFit
    <3>2. ASSUME NEW t, Becomes(s, [IdleSaver EXCEPT !.pc = "snap", !.amend = t.covers])
          PROVE  \A u \in Saver : Fits(saver'[u].snap)
      <4>1. Fits([IdleSaver EXCEPT !.pc = "snap", !.amend = t.covers].snap)
        BY <1>e, IdleType DEF SaverType
      <4> QED BY <3>2, <4>1, CallersFit
    <3> QED BY <1>2, <3>1, <3>2 DEF ApplyFold
  <2>3. Fits(session')
    <3>1. ASSUME NEW len, NEW covers, covers = FoldTo(session.fold, len)
          PROVE  Fits(Folded(session, len, covers))
      BY <1>0, <3>1 DEF Folded, Transcript
    <3> DEFINE plan == saver[s].plan
    <3>2. CASE session' = session
      BY <3>2
    <3>3. CASE /\ PrefixIntact(session, plan)
               /\ session' = Folded(session, plan.len, FoldTo(plan.fold, plan.len))
      <4>1. session.fold = plan.fold
        BY <3>3 DEF PrefixIntact
      <4>2. FoldTo(plan.fold, plan.len) = FoldTo(session.fold, plan.len)
        BY <4>1
      <4> QED BY <3>1, <3>3, <4>2
    <3>4. CASE \E len \in PlanLengths(session) :
                  session' = Folded(session, len, FoldTo(session.fold, len))
      BY <3>1, <3>4
    <3> QED BY <1>2, <3>2, <3>3, <3>4 DEF ApplyFold
  <2> QED BY <2>1, <2>2, <2>3
<1>3. ASSUME NEW s \in Saver, SaverStep(s), ~ApplyFold(s) PROVE FitInv'
  <2>1. session' = session /\ disk' = disk /\ actor' = actor
    BY <1>3 DEF SaverStep, ReadSession, WriteRecord, RequestSave, SendFlush, ReadOutcome
  <2>2. \A u \in Saver : Fits(saver'[u].snap)
    <3>0. \A pc : Fits([saver[s] EXCEPT !.pc = pc].snap)
      BY <1>0 DEF SaverType
    <3>1. CASE ReadSession(s)
      <4>1. Fits([saver[s] EXCEPT !.pc = "record", !.snap = session].snap)
        BY <1>0 DEF SaverType
      <4> QED BY <3>1, <4>1, CallersFit DEF ReadSession
    <3>2. CASE WriteRecord(s)
      BY <1>e, <3>0, <3>2, CallersFit, IdleSnap DEF WriteRecord
    <3>3. CASE RequestSave(s)
      BY <1>e, <3>0, <3>3, CallersFit DEF RequestSave
    <3>4. CASE SendFlush(s)
      BY <3>0, <3>4, CallersFit DEF SendFlush
    <3>5. CASE ReadOutcome(s)
      BY <1>e, <3>5, CallersFit DEF ReadOutcome
    <3> QED BY <1>3, <3>1, <3>2, <3>3, <3>4, <3>5 DEF SaverStep
  <2>3. Fits(session_record'.entries)
    BY <1>0, <1>3 DEF SaverStep, ReadSession, WriteRecord, RequestSave, SendFlush, ReadOutcome,
                      Amended, SessionRecord
  <2> QED BY <2>1, <2>2, <2>3
<1>4. CASE ActorStep
  <2>1. session' = session /\ session_record' = session_record
    BY <1>4 DEF ActorStep, Take, Encode, Write, Settle, Acknowledge
  <2>2. disk' \in {disk, actor.snap}
    BY <1>4 DEF ActorStep, Take, Encode, Write, Settle, Acknowledge
  <2>3. Fits(actor'.snap.entries)
    BY <1>0, <1>4, <1>e, IdleType
       DEF ActorStep, Take, Encode, Write, Settle, Acknowledge, Writer, Settling, ActorType
  <2>4. \A u \in Saver : saver'[u].snap = saver[u].snap
    <3>1. CASE Acknowledge
      BY <1>0, <3>1 DEF Acknowledge, SaverType
    <3>2. CASE ~Acknowledge
      BY <1>4, <3>2 DEF ActorStep, Take, Encode, Write, Settle
    <3> QED BY <3>1, <3>2
  <2> QED BY <2>1, <2>2, <2>3, <2>4
<1>5. CASE Crash
  BY <1>5, <1>e DEF Crash, Resumed
<1>6. CASE UNCHANGED saveVars
  BY <1>6 DEF saveVars
<1> QED BY <1>1, <1>2, <1>3, <1>4, <1>5, <1>6 DEF SaveNext, SaverStep

(* FitInv holds in every reachable state. *)
LEMMA FitInvariance == SaveSpec => []FitInv
<1>1. SaveInit => FitInv
  BY InitTypeOK DEF SaveInit, FitInv, Fits, Empty, EmptyRecord, IdleSaver, IdleActor
<1>2. FitInv /\ [SaveNext]_saveVars => FitInv'
  BY NextTypeOK, FitStep DEF FitInv
<1> QED BY <1>1, <1>2, PTL DEF SaveSpec

(* A fold never hides entries its summary was not written for, for any       *)
(* number of concurrent folds and appends (compact_session).                 *)
THEOREM SummariesFit == SaveSpec => []SummaryFits
<1>1. FitInv => SummaryFits
  BY DEF FitInv, Fits, SummaryFits
<1> QED BY <1>1, FitInvariance, PTL

-----------------------------------------------------------------------------
(* What a flush confirmed stays, and whoever persists last saves everything *)

(* How callers come to the record lock: every transcript on its way there    *)
(* was the session's, and the session only grows.                            *)
Older(t, u) == t.n <= u.n /\ t.fold <= u.fold

Ordered ==
    /\ Older(session_record.entries, session)
    /\ \A s \in Saver : /\ saver[s].pc = "record" => Older(saver[s].snap, session)
                        /\ saver[s].pc = "fold" => saver[s].plan.len > 0

(* A caller that will write the transcript of now. *)
Fresh(s) == saver[s].pc = "snap" \/ (saver[s].pc = "record" /\ saver[s].snap = session)

(* Unless the last write overtook another, the record is the transcript or   *)
(* the caller that will make it so is under way.                             *)
RecordFollows ==
    overtaken # "now" => session_record.entries = session \/ \E s \in Saver : Fresh(s)

(* Until a caller overtakes another, every copy of the transcript is as long *)
(* as the ones made from it, and the writer never holds an older record than *)
(* the file's.                                                               *)
Longer ==
    /\ told <= disk.entries.n /\ disk.entries.n <= session_record.entries.n
    /\ actor.pc = "write" => /\ disk.entries.n <= actor.snap.entries.n
                             /\ actor.snap.entries.n <= session_record.entries.n

(* A save that ends now, or has ended, is one the caller asked for: what it  *)
(* wants flushed is in what the actor holds, and in the file once it was     *)
(* written and no error shows.                                               *)
Confirms(s) ==
    /\ actor.pc = "write" => saver[s].snap.n <= actor.snap.entries.n
    /\ actor.pc = "settle" /\ ~actor.failed => saver[s].snap.n <= disk.entries.n
    /\ saver[s].pc = "acked" \/ actor.pc = "ack"
          => last_error \/ saver[s].snap.n <= disk.entries.n

Asked(s) ==
    /\ saver[s].pc \in {"request", "flush", "wait", "acked"}
          => saver[s].snap.n <= session_record.entries.n
    /\ s \in actor.acks \/ saver[s].pc = "acked" => Confirms(s)

Lasts == overtaken = "never" => Longer /\ \A s \in Saver : Asked(s)

(* What makes FlushDurable and QuietIsSaved inductive, beside HonestInv and  *)
(* FitInv, for any number of callers in any order.                           *)
SaveInv == Ordered /\ RecordFollows /\ Lasts

(* The types of everything, as the lemmas below need them. *)
LEMMA SaveTypes ==
    ASSUME SaveTypeOK
    PROVE  /\ saver \in [Saver -> SaverType] /\ actor \in ActorType
           /\ session \in Transcript /\ session_record \in SessionRecord /\ disk \in SessionRecord /\ told \in Nat
           /\ session_record.entries \in Transcript
           /\ session.n \in Nat /\ session_record.entries.n \in Nat /\ disk.entries.n \in Nat
           /\ actor.snap.entries.n \in Nat /\ last_error \in BOOLEAN /\ actor.failed \in BOOLEAN
           /\ session.fold \in Nat /\ session.covers \in Nat /\ session_record.entries.fold \in Nat
           /\ overtaken \in {"never", "now", "once"}
           /\ \A s \in Saver : /\ saver[s] \in SaverType /\ saver[s].snap \in Transcript
                               /\ saver[s].snap.n \in Nat /\ saver[s].snap.fold \in Nat
BY DEF SaveTypeOK, SaverType, ActorType, Transcript, SessionRecord

(* What every step of a caller leaves alone. *)
LEMMA CallerAlone ==
    ASSUME SaveTypeOK, NEW s \in Saver, Start(s) \/ SaverStep(s)
    PROVE  /\ actor' = actor /\ disk' = disk /\ last_error' = last_error
           /\ \A u \in Saver : u # s => saver'[u] = saver[u]
<1>0. saver \in [Saver -> SaverType]
  BY SaveTypes
<1> QED BY <1>0 DEF Start, SaverStep, AppendEntry, PlanFold, FlushSession, EditRecord, ApplyFold,
                    ReadSession, WriteRecord, RequestSave, SendFlush, ReadOutcome, Becomes

(* A caller that changes the session leaves it longer and further folded,    *)
(* and is the one that will write it.                                        *)
LEMMA SessionGrows ==
    ASSUME HonestInv, SaveInv, NEW s \in Saver, AppendEntry(s) \/ ApplyFold(s), session' # session
    PROVE  Older(session, session') /\ saver'[s].pc = "snap"
<1>0. saver \in [Saver -> SaverType] /\ session \in Transcript /\ session.n \in Nat /\ session.fold \in Nat
      /\ saver[s] \in SaverType
  BY SaveTypes DEF HonestInv
<1>i. IdleSaver \in SaverType
  BY IdleType
<1>1. CASE AppendEntry(s)
  <2>1. session'.n = session.n + 1 /\ session'.fold = session.fold
    BY <1>0, <1>1 DEF AppendEntry, Transcript
  <2>2. saver'[s].pc = "snap"
    BY <1>0, <1>i, <1>1 DEF AppendEntry, Becomes, SaverType
  <2> QED BY <1>0, <2>1, <2>2 DEF Older
<1>2. CASE ApplyFold(s)
  <2> DEFINE plan == saver[s].plan
  <2>1. \E len, covers : /\ len \in Nat /\ len > 0
                         /\ session' = Folded(session, len, covers)
                         /\ Becomes(s, [IdleSaver EXCEPT !.pc = "snap", !.amend = session'.covers])
    <3>1. CASE /\ session' = Folded(session, plan.len, FoldTo(plan.fold, plan.len))
               /\ Becomes(s, [IdleSaver EXCEPT !.pc = "snap", !.amend = session'.covers])
      <4>1. saver[s].pc = "fold"
        BY <1>2 DEF ApplyFold
      <4>2. plan.len \in Nat /\ plan.len > 0
        BY <1>0, <4>1 DEF SaveInv, Ordered, SaverType
      <4> QED BY <3>1, <4>2
    <3>2. CASE \E len \in PlanLengths(session) :
                  /\ session' = Folded(session, len, FoldTo(session.fold, len))
                  /\ Becomes(s, [IdleSaver EXCEPT !.pc = "snap", !.amend = session'.covers])
      <4>1. \A len \in PlanLengths(session) : len \in Nat /\ len > 0
        BY <1>0, PlanType
      <4> QED BY <3>2, <4>1
    <3> QED BY <1>2, <3>1, <3>2 DEF ApplyFold
  <2>2. PICK len, covers : /\ len \in Nat /\ len > 0
                           /\ session' = Folded(session, len, covers)
                           /\ Becomes(s, [IdleSaver EXCEPT !.pc = "snap", !.amend = session'.covers])
    BY <2>1
  <2>3. session'.n = session.n /\ session'.fold = FoldTo(session.fold, len)
    BY <1>0, <2>2 DEF Folded, Transcript
  <2>4. session.fold <= FoldTo(session.fold, len)
    BY <1>0, <2>2 DEF FoldTo
  <2>5. saver'[s].pc = "snap"
    BY <1>0, <1>i, <2>2 DEF Becomes, SaverType
  <2> QED BY <1>0, <2>3, <2>4, <2>5 DEF Older
<1> QED BY <1>1, <1>2

(* A caller that does not write the record leaves what is promised of it:   *)
(* who changed the session will write it, who read it holds the session of   *)
(* now, and a flush that reports a save is one the file has.                 *)
LEMMA CallerKeeps ==
    ASSUME HonestInv, SaveInv, NEW s \in Saver, Start(s) \/ SaverStep(s), ~WriteRecord(s)
    PROVE  SaveInv'
<1>0. /\ saver \in [Saver -> SaverType] /\ session \in Transcript /\ session_record \in SessionRecord
      /\ session.n \in Nat /\ session.fold \in Nat /\ session_record.entries.n \in Nat
      /\ session_record.entries.fold \in Nat /\ disk.entries.n \in Nat /\ told \in Nat
      /\ saver[s] \in SaverType /\ saver[s].snap.n \in Nat
      /\ \A u \in Saver : saver[u].snap.n \in Nat /\ saver[u].snap.fold \in Nat
  BY SaveTypes DEF HonestInv
<1>i. IdleSaver \in SaverType /\ IdleSaver.pc = "idle" /\ IdleSaver.snap.n = 0
  BY IdleType DEF IdleSaver, Empty
<1>1. /\ actor' = actor /\ disk' = disk /\ last_error' = last_error
      /\ \A u \in Saver : u # s => saver'[u] = saver[u]
  BY CallerAlone DEF HonestInv
<1>2. overtaken' = overtaken /\ session_record'.entries = session_record.entries
  <2>1. CASE EditRecord(s)
    BY <1>0, <2>1 DEF EditRecord, SessionRecord
  <2>2. CASE ~EditRecord(s)
    BY <2>2 DEF Start, SaverStep, AppendEntry, PlanFold, FlushSession, ApplyFold, ReadSession,
                RequestSave, SendFlush, ReadOutcome
  <2> QED BY <2>1, <2>2
<1>3. session' = session \/ (Older(session, session') /\ saver'[s].pc = "snap")
  <2>1. CASE AppendEntry(s) \/ ApplyFold(s)
    BY <2>1, SessionGrows
  <2>2. CASE ~AppendEntry(s) /\ ~ApplyFold(s)
    BY <2>2 DEF Start, SaverStep, PlanFold, FlushSession, EditRecord, ReadSession, RequestSave,
                SendFlush, ReadOutcome
  <2> QED BY <2>1, <2>2
<1>4. Older(session, session')
  BY <1>0, <1>3 DEF Older
<1>5. \A t \in Transcript : Older(t, session) => Older(t, session')
  <2>1. session' \in Transcript
    BY NextTypeOK DEF HonestInv, SaveNext, SaveTypeOK
  <2> QED BY <1>0, <1>4, <2>1 DEF Older, Transcript
<1>6. /\ saver'[s].pc = "record" => ReadSession(s) /\ saver'[s].snap = session
      /\ saver'[s].pc = "fold" => saver'[s].plan.len > 0
      /\ saver'[s].pc \in {"request", "flush", "wait", "acked"}
            => \/ saver'[s].snap.n = 0
               \/ saver[s].pc \in {"request", "flush"} /\ saver'[s].snap = saver[s].snap
      /\ saver'[s].pc # "acked" /\ saver[s].pc # "wait"
  <2>1. CASE Start(s)
    <3>1. saver[s].pc = "idle"
      BY <2>1 DEF Start, AppendEntry, PlanFold, FlushSession, EditRecord, MayStart
    <3>2. CASE PlanFold(s)
      <4>1. PICK len \in PlanLengths(session), rescue \in BOOLEAN :
               Becomes(s, [IdleSaver EXCEPT !.pc = "fold", !.rescue = rescue,
                                            !.plan = [len |-> len, fold |-> session.fold]])
        BY <3>2 DEF PlanFold
      <4>2. len \in Nat /\ len > 0
        BY <1>0, PlanType
      <4> QED BY <1>0, <1>i, <3>1, <4>1, <4>2 DEF Becomes, SaverType
    <3>3. CASE ~PlanFold(s)
      <4>1. \/ \E pc \in {"snap", "request"} : saver'[s] = [IdleSaver EXCEPT !.pc = pc]
            \/ saver'[s] = [IdleSaver EXCEPT !.pc = "snap", !.flush = TRUE]
        BY <1>0, <2>1, <3>3
           DEF Start, AppendEntry, FlushSession, EditRecord, AfterEdit, Becomes
      <4>2. saver'[s].pc \in {"snap", "request"} /\ saver'[s].snap = IdleSaver.snap
        BY <1>i, <4>1 DEF SaverType
      <4> QED BY <1>i, <3>1, <4>2
    <3> QED BY <3>2, <3>3
  <2>2. CASE ApplyFold(s)
    <3>1. saver'[s] = IdleSaver \/ \E c : saver'[s] = [IdleSaver EXCEPT !.pc = "snap", !.amend = c]
      BY <1>0, <2>2 DEF ApplyFold, Becomes
    <3>2. saver'[s].pc \in {"idle", "snap"} /\ saver[s].pc = "fold"
      BY <1>i, <2>2, <3>1 DEF ApplyFold, SaverType
    <3> QED BY <3>2
  <2>3. CASE ReadSession(s)
    BY <1>0, <2>3 DEF ReadSession, Becomes, SaverType
  <2>4. CASE RequestSave(s) \/ SendFlush(s) \/ ReadOutcome(s)
    BY <1>0, <1>i, <2>4 DEF RequestSave, SendFlush, ReadOutcome, Becomes, SaverType
  <2> QED BY <2>1, <2>2, <2>3, <2>4 DEF SaverStep
<1>7. Ordered'
  <2>1. Older(session_record'.entries, session')
    BY <1>0, <1>2, <1>5, SaveTypes DEF HonestInv, SaveInv, Ordered
  <2>2. ASSUME NEW u \in Saver
        PROVE  /\ saver'[u].pc = "record" => Older(saver'[u].snap, session')
               /\ saver'[u].pc = "fold" => saver'[u].plan.len > 0
    <3>1. CASE u = s
      BY <1>4, <1>6, <3>1
    <3>2. CASE u # s
      BY <1>1, <1>5, <3>2, SaveTypes DEF HonestInv, SaveInv, Ordered
    <3> QED BY <3>1, <3>2
  <2> QED BY <2>1, <2>2 DEF Ordered
<1>8. RecordFollows'
  <2> SUFFICES ASSUME overtaken # "now", session_record.entries # session', ~Fresh(s)'
               PROVE  \E u \in Saver : Fresh(u)'
    BY <1>2 DEF RecordFollows
  <2>1. session' = session
    BY <1>3 DEF Fresh
  <2>2. PICK u \in Saver : Fresh(u)
    BY <2>1 DEF SaveInv, RecordFollows
  <2>3. u # s
    <3> SUFFICES ASSUME Fresh(s) PROVE FALSE
      BY <2>2
    <3>1. ReadSession(s)
      BY DEF Fresh, Start, SaverStep, AppendEntry, PlanFold, FlushSession, EditRecord, ApplyFold,
             RequestSave, SendFlush, ReadOutcome, MayStart
    <3>2. saver'[s].pc = "record" /\ saver'[s].snap = session
      BY <1>0, <3>1 DEF ReadSession, Becomes, SaverType
    <3> QED BY <2>1, <3>2 DEF Fresh
  <2> QED BY <1>1, <2>1, <2>2, <2>3 DEF Fresh
<1>9. Lasts'
  <2> SUFFICES ASSUME overtaken = "never" PROVE Longer' /\ \A u \in Saver : Asked(u)'
    BY <1>2 DEF Lasts
  <2>0. Longer /\ \A u \in Saver : Asked(u)
    BY DEF SaveInv, Lasts
  <2>1. told' <= disk.entries.n
    <3>1. CASE ReadOutcome(s)
      <4>1. told' = IF last_error \/ told > saver[s].snap.n THEN told ELSE saver[s].snap.n
        BY <3>1 DEF ReadOutcome
      <4>2. last_error \/ saver[s].snap.n <= disk.entries.n
        BY <2>0, <3>1 DEF ReadOutcome, Asked, Confirms
      <4> QED BY <2>0, <4>1, <4>2 DEF Longer
    <3>2. CASE ~ReadOutcome(s)
      <4>1. told' = told
        BY <3>2 DEF Start, SaverStep, AppendEntry, PlanFold, FlushSession, EditRecord, ApplyFold,
                    ReadSession, RequestSave, SendFlush
      <4> QED BY <2>0, <4>1 DEF Longer
    <3> QED BY <3>1, <3>2
  <2>2. Longer'
    BY <1>1, <1>2, <2>0, <2>1 DEF Longer
  <2>3. ASSUME NEW u \in Saver PROVE Asked(u)'
    <3>1. CASE u # s
      BY <1>1, <1>2, <2>0, <3>1 DEF Asked, Confirms
    <3>2. CASE u = s
      <4>1. s \notin actor'.acks /\ saver'[s].pc # "acked"
        BY <1>1, <1>6 DEF HonestInv, Waiting
      <4>2. saver'[s].pc \in {"request", "flush", "wait", "acked"}
               => saver'[s].snap.n <= session_record'.entries.n
        BY <1>0, <1>2, <1>6, <2>0 DEF Asked
      <4> QED BY <3>2, <4>1, <4>2 DEF Asked
    <3> QED BY <3>1, <3>2
  <2> QED BY <2>2, <2>3
<1> QED BY <1>7, <1>8, <1>9 DEF SaveInv

(* A caller that writes the record overtakes nobody, and then the record is  *)
(* the transcript of now or somebody is still to write that; or it leaves an *)
(* older transcript there, and the history says so.                          *)
LEMMA WriteKeeps ==
    ASSUME HonestInv, FitInv, SaveInv, NEW s \in Saver, WriteRecord(s)
    PROVE  SaveInv'
<1> DEFINE snap == saver[s].snap
<1>0. /\ saver \in [Saver -> SaverType] /\ session \in Transcript /\ session_record \in SessionRecord
      /\ session.n \in Nat /\ session.fold \in Nat /\ session_record.entries.n \in Nat
      /\ session_record.entries.fold \in Nat /\ disk.entries.n \in Nat /\ told \in Nat
      /\ snap \in Transcript /\ snap.n \in Nat /\ snap.fold \in Nat /\ actor.snap.entries.n \in Nat
      /\ \A u \in Saver : saver[u].snap.n \in Nat
  BY SaveTypes DEF HonestInv
<1>i. IdleSaver \in SaverType /\ IdleSaver.pc = "idle" /\ IdleSaver.snap.n = 0
  BY IdleType DEF IdleSaver, Empty
<1>1. /\ actor' = actor /\ disk' = disk /\ last_error' = last_error /\ session' = session /\ told' = told
      /\ \A u \in Saver : u # s => saver'[u] = saver[u]
  BY CallerAlone DEF HonestInv, SaverStep, WriteRecord
<1>2. session_record'.entries = snap /\ overtaken' = Overtaking(snap) /\ saver[s].pc = "record"
  BY <1>0 DEF WriteRecord, Amended, SessionRecord
<1>3. saver'[s].pc = "request" /\ (saver'[s].snap = snap \/ saver'[s].snap.n = 0)
  BY <1>0, <1>i DEF WriteRecord, Becomes, SaverType
<1>4. Older(snap, session)
  BY <1>2 DEF SaveInv, Ordered
<1>5. s \notin actor.acks
  BY <1>2 DEF HonestInv, Waiting
<1>6. Ordered'
  BY <1>1, <1>2, <1>3, <1>4 DEF SaveInv, Ordered
<1>7. RecordFollows'
  <2> SUFFICES ASSUME overtaken' # "now", snap # session PROVE \E u \in Saver : Fresh(u)'
    BY <1>1, <1>2 DEF RecordFollows
  <2>1. ~Behind(snap, session_record.entries) /\ overtaken # "now"
    BY <1>2 DEF Overtaking
  <2>2. session_record.entries # session
    <3> SUFFICES ASSUME session_record.entries = session PROVE FALSE
      OBVIOUS
    <3>1. snap.n = session.n /\ snap.fold = session.fold
      BY <1>0, <1>4, <2>1 DEF Behind, Older
    <3>2. snap.covers = session.covers
      BY <3>1 DEF FitInv, Fits
    <3>3. snap = session
      BY <1>0, <3>1, <3>2 DEF Transcript
    <3> QED BY <3>3
  <2>3. PICK u \in Saver : Fresh(u)
    BY <2>1, <2>2 DEF SaveInv, RecordFollows
  <2>4. u # s
    BY <1>2, <2>3 DEF Fresh
  <2> QED BY <1>1, <2>3, <2>4 DEF Fresh
<1>8. Lasts'
  <2> SUFFICES ASSUME overtaken' = "never" PROVE Longer' /\ \A u \in Saver : Asked(u)'
    BY DEF Lasts
  <2>1. ~Behind(snap, session_record.entries) /\ overtaken = "never"
    BY <1>2 DEF Overtaking
  <2>2. Longer /\ \A u \in Saver : Asked(u)
    BY <2>1 DEF SaveInv, Lasts
  <2>3. session_record.entries.n <= session_record'.entries.n
    BY <1>0, <1>2, <2>1 DEF Behind
  <2>4. session_record'.entries.n \in Nat
    BY <1>0, <1>2
  <2>5. Longer'
    BY <1>0, <1>1, <2>2, <2>3, <2>4 DEF Longer
  <2>6. ASSUME NEW u \in Saver PROVE Asked(u)'
    <3>1. CASE u = s
      BY <1>0, <1>1, <1>2, <1>3, <1>5, <3>1 DEF Asked
    <3>2. CASE u # s
      BY <1>0, <1>1, <2>2, <2>3, <2>4, <3>2 DEF Asked, Confirms
    <3> QED BY <3>1, <3>2
  <2> QED BY <2>5, <2>6
<1> QED BY <1>6, <1>7, <1>8 DEF SaveInv

(* The actor writes records in the order it read them, and says a save       *)
(* succeeded only once the record it read is in the file.                    *)
LEMMA ActorKeeps ==
    ASSUME HonestInv, HonestInv', SaveInv, ActorStep
    PROVE  SaveInv'
<1>0. /\ saver \in [Saver -> SaverType] /\ actor \in ActorType /\ told \in Nat
      /\ disk.entries.n \in Nat /\ session_record.entries.n \in Nat /\ actor.snap.entries.n \in Nat
      /\ last_error \in BOOLEAN /\ actor.failed \in BOOLEAN
      /\ \A s \in Saver : saver[s].snap.n \in Nat
  BY SaveTypes DEF HonestInv
<1>i. IdleActor \in ActorType /\ EmptyRecord \in SessionRecord /\ IdleActor.snap = EmptyRecord
  BY IdleType DEF IdleActor
<1>1. session' = session /\ session_record' = session_record /\ told' = told /\ overtaken' = overtaken
  BY DEF ActorStep, Take, Encode, Write, Settle, Acknowledge
<1>2. \A s \in Saver : /\ saver'[s].snap = saver[s].snap /\ saver'[s].plan = saver[s].plan
                        /\ \/ saver'[s].pc = saver[s].pc
                           \/ Acknowledge /\ s \in actor.acks /\ saver'[s].pc = "acked"
  <2>1. CASE Acknowledge
    BY <1>0, <2>1 DEF Acknowledge, SaverType
  <2>2. CASE ~Acknowledge
    <3>1. saver' = saver
      BY <2>2 DEF ActorStep, Take, Encode, Write, Settle
    <3> QED BY <3>1
  <2> QED BY <2>1, <2>2
<1>3. \A s \in actor.acks : saver[s].pc = "wait"
  BY <1>0 DEF HonestInv, Waiting, ActorType
<1>4. Ordered'
  BY <1>1, <1>2 DEF SaveInv, Ordered
<1>5. RecordFollows'
  <2>1. \A s \in Saver : Fresh(s) => Fresh(s)'
    BY <1>1, <1>2, <1>3 DEF Fresh
  <2> QED BY <1>1, <2>1 DEF SaveInv, RecordFollows
<1>6. Lasts'
  <2> SUFFICES ASSUME overtaken = "never" PROVE Longer' /\ \A u \in Saver : Asked(u)'
    BY <1>1 DEF Lasts
  <2>0. Longer /\ \A u \in Saver : Asked(u)
    BY DEF SaveInv, Lasts
  <2>1. disk' = disk \/ (Write /\ disk' = actor.snap)
    BY DEF ActorStep, Take, Encode, Write, Settle, Acknowledge
  <2>2. /\ disk'.entries.n \in Nat
        /\ disk.entries.n <= disk'.entries.n /\ disk'.entries.n <= session_record.entries.n
    <3>1. CASE disk' = disk
      BY <1>0, <2>0, <3>1 DEF Longer
    <3>2. CASE Write /\ disk' = actor.snap
      <4>1. actor.pc = "write"
        BY <3>2 DEF Write
      <4> QED BY <1>0, <2>0, <3>2, <4>1 DEF Longer
    <3> QED BY <2>1, <3>1, <3>2
  <2>3. \/ actor'.pc = "write" /\ actor'.snap = session_record /\ disk' = disk
        \/ actor'.pc # "write"
    <3>1. CASE Take \/ Acknowledge
      BY <1>i, <3>1 DEF Take, Acknowledge, Writer, ActorType, IdleActor
    <3>2. CASE Encode
      BY <1>0, <1>i, <3>2 DEF Encode, Writer, Settling, ActorType
    <3>3. CASE Write
      BY <1>0, <1>i, <3>3 DEF Write, Writer, Settling, ActorType
    <3>4. CASE Settle
      BY <1>0, <3>4 DEF Settle, Writer, ActorType
    <3> QED BY <3>1, <3>2, <3>3, <3>4 DEF ActorStep
  <2>4. Longer'
    <3>1. told' <= disk'.entries.n
      BY <1>0, <1>1, <2>0, <2>2 DEF Longer
    <3>2. actor'.pc = "write" => disk'.entries.n <= actor'.snap.entries.n
                                 /\ actor'.snap.entries.n <= session_record'.entries.n
      BY <1>0, <1>1, <2>2, <2>3
    <3> QED BY <1>1, <2>2, <3>1, <3>2 DEF Longer
  <2>5. ASSUME NEW s \in Saver PROVE Asked(s)'
    <3>1. saver'[s].pc \in {"request", "flush", "wait", "acked"} => saver[s].snap.n <= session_record.entries.n
      BY <1>2, <1>3, <2>0 DEF Asked
    <3>2. ASSUME s \in actor'.acks \/ saver'[s].pc = "acked"
          PROVE  Confirms(s)'
      <4>0. saver'[s].snap.n = saver[s].snap.n /\ saver[s].snap.n <= session_record.entries.n
        <5>1. s \in actor'.acks => saver'[s].pc = "wait"
          BY DEF HonestInv, Waiting
        <5> QED BY <1>2, <3>1, <3>2, <5>1
      <4>1. CASE Take
        <5>1. actor'.pc = "encode" /\ last_error' = last_error /\ saver' = saver /\ disk' = disk
          BY <1>i, <4>1 DEF Take, Writer, ActorType
        <5> QED BY <2>0, <3>2, <4>0, <5>1 DEF Asked, Confirms
      <4>2. CASE Encode
        <5>1. /\ last_error' = last_error /\ saver' = saver /\ disk' = disk
              /\ \/ actor'.pc = "write" /\ actor'.snap = session_record
                 \/ actor'.pc = "settle" /\ actor'.failed
          BY <1>0, <1>i, <4>2 DEF Encode, Writer, Settling, ActorType
        <5> QED BY <2>0, <3>2, <4>0, <5>1 DEF Asked, Confirms
      <4>3. CASE Write
        <5>1. /\ last_error' = last_error /\ saver' = saver /\ actor'.acks = actor.acks
              /\ \/ actor'.pc = "encode"
                 \/ actor'.pc = "settle" /\ actor'.failed
                 \/ actor'.pc = "settle" /\ disk' = actor.snap
          BY <1>0, <1>i, <4>3 DEF Write, Writer, Settling, ActorType
        <5>2. Confirms(s) /\ actor.pc = "write"
          BY <2>0, <3>2, <4>3, <5>1 DEF Asked, Write
        <5>3. saver[s].snap.n <= disk.entries.n => saver[s].snap.n <= disk'.entries.n
          BY <1>0, <2>2
        <5> QED BY <4>0, <5>1, <5>2, <5>3 DEF Confirms
      <4>4. CASE Settle
        <5>1. /\ last_error' = actor.failed /\ saver' = saver /\ disk' = disk /\ actor.pc = "settle"
              /\ actor'.pc = "ack" /\ actor'.acks = actor.acks
          BY <1>0, <4>4 DEF Settle, Settled, Writer, ActorType
        <5> QED BY <2>0, <3>2, <4>0, <5>1 DEF Asked, Confirms
      <4>5. CASE Acknowledge
        <5>1. /\ last_error' = last_error /\ disk' = disk /\ actor.pc = "ack"
              /\ actor'.pc = "idle" /\ actor'.acks = {}
          BY <1>0, <4>5 DEF Acknowledge, Writer, IdleActor
        <5>2. Confirms(s)
          BY <1>2, <2>0, <3>2, <5>1 DEF Asked
        <5> QED BY <4>0, <5>1, <5>2 DEF Confirms
      <4> QED BY <4>1, <4>2, <4>3, <4>4, <4>5 DEF ActorStep
    <3> QED BY <1>1, <1>2, <3>1, <3>2 DEF Asked
  <2> QED BY <2>4, <2>5
<1> QED BY <1>4, <1>5, <1>6 DEF SaveInv

(* SaveInv holds in every reachable state, however callers interleave. *)
LEMMA SaveInvariance == SaveSpec => []SaveInv
<1>1. SaveInit => SaveInv
  <2> SUFFICES ASSUME SaveInit PROVE SaveInv
    OBVIOUS
  <2>1. \A s \in Saver : saver[s].pc = "idle"
    BY DEF SaveInit, IdleSaver
  <2>2. session_record.entries = session /\ session.n = 0 /\ session.fold = 0 /\ disk.entries.n = 0
        /\ told = 0 /\ actor.pc = "idle" /\ actor.acks = {}
    BY DEF SaveInit, Empty, EmptyRecord, IdleActor
  <2> QED BY <2>1, <2>2 DEF SaveInv, Ordered, Older, RecordFollows, Lasts, Longer, Asked
<1>2. HonestInv /\ HonestInv' /\ FitInv /\ SaveInv /\ [SaveNext]_saveVars => SaveInv'
  <2> SUFFICES ASSUME HonestInv, HonestInv', FitInv, SaveInv, [SaveNext]_saveVars PROVE SaveInv'
    OBVIOUS
  <2>1. ASSUME NEW s \in Saver, Start(s) \/ SaverStep(s) PROVE SaveInv'
    <3>1. CASE WriteRecord(s)
      BY <3>1, WriteKeeps
    <3>2. CASE ~WriteRecord(s)
      BY <2>1, <3>2, CallerKeeps
    <3> QED BY <3>1, <3>2
  <2>2. CASE ActorStep
    BY <2>2, ActorKeeps
  <2>3. CASE Crash
    <3>1. /\ session' = disk.entries /\ session_record' = disk /\ disk' = disk /\ told' = told
          /\ actor' = IdleActor /\ saver' = [s \in Saver |-> IdleSaver]
          /\ overtaken' = "never" => overtaken = "never"
      BY <2>3 DEF Crash, Resumed
    <3>2. \A s \in Saver : saver'[s].pc = "idle"
      BY <3>1 DEF IdleSaver
    <3>3. actor'.acks = {} /\ actor'.pc = "idle"
      BY <3>1 DEF IdleActor
    <3>4. disk.entries.n \in Nat /\ disk.entries.fold \in Nat
      BY DEF HonestInv, SaveTypeOK, SessionRecord, Transcript
    <3>5. Ordered' /\ RecordFollows'
      BY <3>1, <3>2, <3>4 DEF Ordered, Older, RecordFollows
    <3>6. Lasts'
      BY <3>1, <3>2, <3>3, <3>4 DEF SaveInv, Lasts, Longer, Asked
    <3> QED BY <3>5, <3>6 DEF SaveInv
  <2>4. CASE UNCHANGED saveVars
    BY <2>4 DEF saveVars, SaveInv, Ordered, RecordFollows, Fresh, Lasts, Longer, Asked, Confirms
  <2> QED BY <2>1, <2>2, <2>3, <2>4 DEF SaveNext
<1> QED BY <1>1, <1>2, HonestInvariance, FitInvariance, PTL DEF SaveSpec

(* What flush_session reported saved stays in the file through every later   *)
(* save, failed write, retry and crash, for any number of callers, entries   *)
(* and folds: the only thing that can take it back is a caller that writes   *)
(* an older transcript over a newer one (persist_with, absorb,               *)
(* save_with_retry).                                                         *)
THEOREM FlushesLast == SaveSpec => []FlushDurable
<1>1. SaveInv => FlushDurable
  BY DEF SaveInv, Lasts, Longer, FlushDurable
<1> QED BY <1>1, SaveInvariance, PTL

(* However many callers persist, and in whatever order they come to the      *)
(* record lock, a runtime at rest that shows no error has its whole record   *)
(* in the file, and the live transcript in it unless the last write overtook *)
(* another (persist_with, save_with_retry).                                  *)
THEOREM TranscriptsAreSaved == SaveSpec => []TranscriptIsSaved
<1>1. SaveInv /\ HonestError => TranscriptIsSaved
  <2> SUFFICES ASSUME SaveInv, HonestError PROVE TranscriptIsSaved
    OBVIOUS
  <2>1. ASSUME Quiet, ~last_error, overtaken # "now" PROVE disk.entries = session
    <3>1. \A s \in Saver : ~Fresh(s)
      BY <2>1 DEF Quiet, Fresh
    <3>2. session_record.entries = session
      BY <2>1, <3>1 DEF SaveInv, RecordFollows
    <3> QED BY <2>1, <3>2 DEF HonestError
  <2> QED BY <2>1 DEF TranscriptIsSaved, QuietIsSaved
<1> QED BY <1>1, SaveInvariance, ErrorsAreHonest, PTL
=============================================================================

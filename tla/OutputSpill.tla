---------------------------- MODULE OutputSpill ----------------------------
(***************************************************************************)
(* The output of one shell job: two streams, each with a ring that keeps   *)
(* its tail and a file that keeps its head once it is long, the readers    *)
(* that fill them step after step, and what a rendered result says of them.*)
(*                                                                         *)
(* A byte is known by its place in its stream.                             *)
(***************************************************************************)
EXTENDS Naturals, Sequences

CONSTANTS
    RingBytes,      \* JOB_BUFFER_BYTES
    Budget,         \* TOOL_OUTPUT_BUDGET, in characters
    Reserve,        \* SPILL_FRAMING_RESERVE
    SpillMaxBytes,  \* SPILL_MAX_BYTES
    MaxSteps,       \* bound: commands of a sequence
    MaxChunk,       \* bound: bytes of one read
    MaxBytes        \* bound: bytes of a stream

Threshold == (Budget - Reserve) \div 2      \* SPILL_JOINT_INLINE_CHARS

ASSUME SpillAssumption ==
    /\ {RingBytes, Budget, Reserve, SpillMaxBytes, MaxSteps, MaxChunk, MaxBytes} \subseteq Nat
    /\ Reserve <= Budget /\ Threshold < RingBytes /\ RingBytes < SpillMaxBytes

Stream == {"stdout", "stderr"}

VARIABLES
    ring,       \* RingBuffer and Spill, of each stream
    job,        \* the run: its kind, step and readers
    told        \* what results said of each stream's file

spillVars == <<ring, job, told>>

NoFile == <<>>

FreshRing(wide) ==
    [total |-> 0, wide |-> wide, file |-> NoFile, open |-> FALSE, failed |-> FALSE,
     reported |-> FALSE, finished |-> FALSE, on_disk |-> FALSE]

SpillOn(kind, wide) ==
    /\ ring = [s \in Stream |-> FreshRing(s \in wide)]
    /\ job = [kind |-> kind, pc |-> "spawn", step |-> 1, reader |-> [s \in Stream |-> "none"]]
    /\ told = [s \in Stream |-> [said |-> "nothing", at |-> 0]]

SpillInit == \E kind \in {"foreground", "background"}, wide \in SUBSET Stream : SpillOn(kind, wide)

-----------------------------------------------------------------------------
(* RingBuffer and Spill *)

Kept(r) == IF r.total < RingBytes THEN r.total ELSE RingBytes

omitted_len(r) == r.total - Kept(r)

Backlog(r) == [i \in 1..Kept(r) |-> omitted_len(r) + i]

(* What a push may find of the disk: the file cannot be made, or written.   *)
write(r, bytes, ok) ==
    LET room == SpillMaxBytes - Len(r.file)
        take == SubSeq(bytes, 1, IF Len(bytes) < room THEN Len(bytes) ELSE room)
    IN  IF r.failed \/ take = <<>> THEN r
        ELSE IF ~r.failed /\ take # <<>> /\ ok THEN [r EXCEPT !.file = @ \o take]
        ELSE [r EXCEPT !.failed = TRUE, !.open = FALSE]

offer(r, chunk, ok) ==
    IF r.failed \/ r.finished \/ Len(r.file) >= SpillMaxBytes THEN r
    ELSE IF ~r.open /\ r.total + Len(chunk) <= Threshold THEN r
    ELSE IF ~r.open /\ ~ok THEN [r EXCEPT !.failed = TRUE]
    ELSE IF ~r.open /\ ok THEN
         write(write([r EXCEPT !.open = TRUE, !.on_disk = TRUE], Backlog(r), TRUE), chunk, TRUE)
    ELSE write(r, chunk, ok)

Pushed(r, n, ok) ==
    [offer(r, [i \in 1..n |-> r.total + i], ok) EXCEPT !.total = @ + n]

seal(r) == [r EXCEPT !.open = FALSE, !.finished = TRUE]

info(r) == ~r.failed /\ r.file # NoFile

discard_if_unreported(r) ==
    IF ~r.reported /\ info(r) THEN [r EXCEPT !.file = NoFile, !.on_disk = FALSE] ELSE r

-----------------------------------------------------------------------------
(* The run *)

Readers(state) == [s \in Stream |-> state]

(* A step starts with a reader for each stream; one that cannot start       *)
(* leaves its error in the output of a longer sequence.                     *)
spawn_confined ==
    /\ job.pc = "spawn"
    /\ \/ job' = [job EXCEPT !.pc = "run", !.reader = Readers("reading")] /\ UNCHANGED ring
       \/ /\ MaxSteps > 1 /\ job.kind = "foreground" /\ ring["stderr"].total < MaxBytes
          /\ \E ok \in BOOLEAN : ring' = [ring EXCEPT !["stderr"] = Pushed(@, 1, ok)]
          /\ job' = [job EXCEPT !.pc = IF job.step < MaxSteps THEN "spawn" ELSE "render",
                                !.step = @ + 1]
    /\ UNCHANGED told

ring_push(s) ==
    /\ job.pc = "run" /\ job.reader[s] = "reading"
    /\ \E n \in 1..MaxChunk, ok \in BOOLEAN :
         /\ ring[s].total + n <= MaxBytes
         /\ ring' = [ring EXCEPT ![s] = Pushed(@, n, ok)]
    /\ UNCHANGED <<job, told>>

MutFinishes(kind) == TRUE

(* SpillOwner: only the reader of a background job is the last writer.      *)
Finishes(kind) == kind = "background"

spawn_buffer_reader(s) ==
    /\ job.pc = "run" /\ job.reader[s] = "reading"
    /\ job' = [job EXCEPT !.reader[s] = "ended"]
    /\ ring' = IF Finishes(job.kind) THEN [ring EXCEPT ![s] = seal(@)] ELSE ring
    /\ UNCHANGED told

(* The step is over and its readers ended, or were aborted after a wait;    *)
(* the next one runs, or the sequence ends and releases both files.         *)
drain_readers ==
    /\ job.pc = "run" /\ job.kind = "foreground"
    /\ \E last \in BOOLEAN :
         /\ job.step = MaxSteps => last
         /\ job' = [job EXCEPT !.pc = IF last THEN "render" ELSE "spawn",
                               !.step = @ + 1, !.reader = Readers("none")]
    /\ UNCHANGED <<ring, told>>

finish_spill(rs) == [s \in Stream |-> seal(rs[s])]

-----------------------------------------------------------------------------
(* Rendering *)

chars(r) == IF r.wide THEN (Kept(r) + 1) \div 2 ELSE Kept(r)

(* The text of both streams and the lines around them.                      *)
RenderedChars == chars(ring["stdout"]) + chars(ring["stderr"]) + Reserve

Lost(r) == omitted_len(r) > 0 \/ chars(r) > Budget \/ (RenderedChars > Budget /\ r.total > 0)

MutCapped(r) == FALSE

Capped(r) == Len(r.file) >= SpillMaxBytes

Word(r) == [said |-> IF Capped(r) THEN "head" ELSE "complete", at |-> r.total]

(* The note names the file of every stream it cut. *)
truncation_note(rs) ==
    [s \in Stream |-> IF Lost(rs[s]) /\ info(rs[s]) THEN [rs[s] EXCEPT !.reported = TRUE] ELSE rs[s]]

(* The details name every file there is. *)
job_details(rs) ==
    [s \in Stream |-> IF info(rs[s]) THEN [rs[s] EXCEPT !.reported = TRUE] ELSE rs[s]]

Tells(rs) == told' = [s \in Stream |-> IF info(rs[s]) THEN Word(rs[s]) ELSE told[s]]

(* Files are dropped only when everything is in the result. *)
Discards(rs) == RenderedChars <= Budget /\ \A s \in Stream : omitted_len(rs[s]) = 0

shell_text_output ==
    /\ job.pc = "render"
    /\ LET noted == truncation_note(finish_spill(ring))
           swept == IF Discards(noted) THEN [s \in Stream |-> discard_if_unreported(noted[s])] ELSE noted
       IN  ring' = job_details(swept) /\ Tells(swept)
    /\ job' = [job EXCEPT !.pc = "done"]

(* job action=status or tail, while a job runs or later. *)
job_text_snapshot ==
    /\ job.pc = "done" \/ (job.pc = "run" /\ job.kind = "background")
    /\ ring' = job_details(truncation_note(ring)) /\ Tells(ring)
    /\ UNCHANGED job

SpillNext ==
    \/ spawn_confined \/ drain_readers \/ shell_text_output \/ job_text_snapshot
    \/ \E s \in Stream : ring_push(s) \/ spawn_buffer_reader(s)

-----------------------------------------------------------------------------
(* Properties *)

(* A file that a result calls the complete stream has every byte up to      *)
(* then, one that is called its head has what fits, both are still there,   *)
(* and no byte is gone from ring and file at once while the disk works      *)
(* (SpillOwner, Spill::offer, truncation_note, discard_unreported_spill).   *)
FileIsWhatWasSaid ==
    \A s \in Stream :
        LET r == ring[s]
        IN  /\ told[s].said # "nothing" /\ ~r.failed =>
                 /\ r.on_disk
                 /\ Len(r.file) >= IF told[s].said = "head" THEN SpillMaxBytes ELSE told[s].at
            /\ r.on_disk /\ ~r.failed => \A i \in 1..Len(r.file) : r.file[i] = i
            /\ job.pc = "done" /\ omitted_len(r) > 0 /\ ~r.failed => told[s].said # "nothing"
=============================================================================

----------------------------- MODULE EvalBench -----------------------------
(***************************************************************************)
(* An evaluation: instances run some at a time, each checked out from a    *)
(* cache its repository's instances share, rolled out without a person and *)
(* within a deadline, and reported once.                                   *)
(* (deep-code-eval: runner.rs, checkout.rs)                                *)
(***************************************************************************)
EXTENDS Naturals, Sequences, FiniteSets

CONSTANTS
    Instance,           \* 1..n, in the order of the benchmark
    RepoOf,             \* the repository of each
    IdOf,               \* where its id comes among the ids
    Parallelism,        \* how many may run at a time
    MaxAsk              \* bound: calls of a turn that ask for consent

Repo == {RepoOf[i] : i \in Instance}

ASSUME EvalBenchAssumption ==
    /\ IsFiniteSet(Instance) /\ Instance = 1..Cardinality(Instance)
    /\ Parallelism \in Nat \ {0} /\ MaxAsk \in Nat
    /\ IdOf \in [Instance -> Nat]

VARIABLES
    host,               \* the run, the sandbox it finds and whether it exempts what cannot be undone
    job,                \* per instance: where it stands and what it has
    lock,               \* per repository: the instance whose worker holds it, 0 if none
    cache,              \* per repository: the bare clone beside the others
    report              \* the results joined so far, in order, and then by id

benchVars == <<host, job, lock, cache, report>>

NoResult == [status |-> "none", cost |-> 0]

Unstarted == [pc |-> "queued", spent |-> 0, asked |-> 0, consented |-> {}, live |-> FALSE,
              turn |-> "none", cost |-> 0, result |-> NoResult]

BenchInit ==
    /\ host \in [run : {"asked"}, sandbox : {"off", "unenforced", "enforced"}, exempt : BOOLEAN]
    /\ job = [i \in Instance |-> Unstarted]
    /\ lock = [r \in Repo |-> 0]
    /\ cache \in [Repo -> {"absent", "stale", "whole"}]
    /\ report = <<>>

(***************************************************************************)
(* run_bench: a permit before the task, the results in the same order.     *)
(***************************************************************************)

(* Calls are approved by nobody, so nothing is run where nothing confines  *)
(* it, and what the user lets go without asking is asked for again.        *)
run_bench ==
    /\ host.run = "asked"
    /\ host' = IF host.sandbox = "enforced" THEN [host EXCEPT !.run = "on", !.exempt = FALSE]
               ELSE [host EXCEPT !.run = "refused"]
    /\ UNCHANGED <<job, lock, cache, report>>

Running == {i \in Instance : job[i].pc \notin {"queued", "ended", "panicked"}}

MayStart == Cardinality(Running) < Parallelism

Moves(i, j) == job' = [job EXCEPT ![i] = j]
Goes(i, pc) == Moves(i, [job[i] EXCEPT !.pc = pc])
Ends(i, result) == Moves(i, [job[i] EXCEPT !.pc = "ended", !.result = result])
ErrorResult == [status |-> "error", cost |-> 0]

MaySpawn(i) ==
    /\ job[i].pc = "queued" /\ MayStart
    /\ \A k \in Instance : k < i => job[k].pc # "queued"

Spawn(i) ==
    /\ host.run = "on" /\ MaySpawn(i)
    /\ Goes(i, "lock")
    /\ UNCHANGED <<host, lock, cache, report>>

(* A task that did not finish is an error, never a gap. *)
Joined(i) == Append(report, <<i, IF job[i].pc = "panicked" THEN ErrorResult ELSE job[i].result>>)

(* The handles are awaited once all are spawned, in their order. *)
MayJoin(i) ==
    /\ \A k \in Instance : job[k].pc # "queued"
    /\ job[i].pc \in {"ended", "panicked"}
    /\ \A k \in Instance : k < i => \E n \in DOMAIN report : report[n][1] = k
    /\ \A n \in DOMAIN report : report[n][1] # i

Join(i) ==
    /\ host.run = "on" /\ MayJoin(i)
    /\ report' = Joined(i)
    /\ UNCHANGED <<host, job, lock, cache>>

Before(i, k) == IdOf[i] < IdOf[k]

(* The rearrangements of the results: each of them once. *)
Orders == {p \in [DOMAIN report -> DOMAIN report] : \A n \in DOMAIN report : \E m \in DOMAIN report : p[m] = n}

(* Once all are joined they are sorted by id, and equals keep their order.  *)
SortReport ==
    /\ host.run = "on" /\ Len(report) = Cardinality(Instance)
    /\ \E p \in Orders :
         /\ \A m, n \in DOMAIN report : m < n =>
               \/ Before(report[p[m]][1], report[p[n]][1])
               \/ ~Before(report[p[n]][1], report[p[m]][1]) /\ p[m] < p[n]
         /\ report' = [n \in DOMAIN report |-> report[p[n]]]
    /\ host' = [host EXCEPT !.run = "reported"]
    /\ UNCHANGED <<job, lock, cache>>

(***************************************************************************)
(* checkout_repo: one worker per repository, which keeps the lock until it *)
(* ends.                                                                   *)
(***************************************************************************)

Mine(i) == RepoOf[i]
Frees(i) == lock' = [lock EXCEPT ![Mine(i)] = 0]

run_worker(i) ==
    /\ job[i].pc = "lock"
    /\ \/ /\ lock[Mine(i)] = 0
          /\ lock' = [lock EXCEPT ![Mine(i)] = i]
          /\ Goes(i, IF cache[Mine(i)] = "absent" THEN "stage" ELSE "clone")
       \/ lock[Mine(i)] # 0 /\ Ends(i, ErrorResult) /\ UNCHANGED lock      \* waited too long
    /\ UNCHANGED <<host, cache, report>>

MutEnsureBareCache(i) ==
    /\ job[i].pc = "stage"
    /\ cache' = [cache EXCEPT ![Mine(i)] = "partial"]
    /\ \/ Goes(i, "publish") /\ UNCHANGED lock
       \/ Ends(i, ErrorResult) /\ Frees(i)
    /\ UNCHANGED <<host, report>>

(* ensure_bare_cache: cloned beside its place, *)
ensure_bare_cache(i) ==
    /\ job[i].pc = "stage"
    /\ \/ Goes(i, "publish") /\ UNCHANGED lock
       \/ Ends(i, ErrorResult) /\ Frees(i)
    /\ UNCHANGED <<host, cache, report>>

(* and renamed into it. *)
Publish(i) ==
    /\ job[i].pc = "publish"
    /\ \/ cache' = [cache EXCEPT ![Mine(i)] = "whole"] /\ Goes(i, "clone") /\ UNCHANGED lock
       \/ Ends(i, ErrorResult) /\ Frees(i) /\ UNCHANGED cache
    /\ UNCHANGED <<host, report>>

(* checkout_at: a clone of the cache, and the commit; if the cache does    *)
(* not have it, once more after a fetch.                                   *)
checkout_at(i) ==
    /\ job[i].pc = "clone"
    /\ \/ /\ cache[Mine(i)] = "whole"
          /\ Goes(i, "launch") /\ Frees(i) /\ UNCHANGED cache
       \/ /\ cache[Mine(i)] = "stale"
          /\ cache' = [cache EXCEPT ![Mine(i)] = "whole"]
          /\ Goes(i, "clone") /\ UNCHANGED lock
       \/ Ends(i, ErrorResult) /\ Frees(i) /\ UNCHANGED cache      \* git failed, or out of time
    /\ UNCHANGED <<host, report>>

(***************************************************************************)
(* run_single.                                                             *)
(***************************************************************************)

Launch(i) ==
    /\ job[i].pc = "launch"
    /\ \/ Moves(i, [job[i] EXCEPT !.pc = "turn", !.live = TRUE])
       \/ Ends(i, ErrorResult)
    /\ UNCHANGED <<host, lock, cache, report>>

Asks == {"ordinary", "request_write_root", "human_only"}

(* Consent nobody is there to give is refused. *)
unattended_decision(ask) == ask = "ordinary"

(* A call of the turn is put to the harness, or is exempt from asking.     *)
consume_events(i, ask) ==
    /\ job[i].pc = "turn" /\ job[i].asked < MaxAsk
    /\ LET goes == unattended_decision(ask) \/ (ask = "human_only" /\ host.exempt)
       IN Moves(i, [job[i] EXCEPT !.asked = @ + 1, !.spent = @ + 1,
                                  !.consented = IF goes THEN @ \cup {ask} ELSE @])
    /\ UNCHANGED <<host, lock, cache, report>>

MutTurnEnds(i) ==
    /\ job[i].pc = "turn"
    /\ \E how \in {"finished", "failed", "timeout"}, live \in BOOLEAN :
         /\ how # "failed" => live = (how = "timeout")
         /\ Moves(i, [job[i] EXCEPT !.pc = "over", !.turn = how, !.live = live])
    /\ UNCHANGED <<host, lock, cache, report>>

(* The turn ends; or its answer is not taken, and it is dropped with a      *)
(* cancel on the way; or its time is over, and it goes on.                  *)
TurnEnds(i) ==
    /\ job[i].pc = "turn"
    /\ \/ Moves(i, [job[i] EXCEPT !.pc = "over", !.turn = "finished", !.live = FALSE])
       \/ \E live \in BOOLEAN : Moves(i, [job[i] EXCEPT !.pc = "over", !.turn = "failed", !.live = live])
       \/ Moves(i, [job[i] EXCEPT !.pc = "late", !.turn = "timeout"])
    /\ UNCHANGED <<host, lock, cache, report>>

(* A turn nobody listens to any more goes on with what needs no answer.     *)
RunsOn(i) ==
    /\ job[i].live /\ job[i].pc \in {"late", "over", "read", "stopped"} /\ job[i].asked < MaxAsk
    /\ Moves(i, [job[i] EXCEPT !.asked = @ + 1, !.spent = @ + 1])
    /\ UNCHANGED <<host, lock, cache, report>>

(* The turn whose time is over is stopped before anything is read of it.    *)
StopsTurn(i) ==
    /\ job[i].pc = "late"
    /\ Moves(i, [job[i] EXCEPT !.pc = "over", !.live = FALSE])
    /\ UNCHANGED <<host, lock, cache, report>>

(* The spend is read, *)
ReadsSpend(i) ==
    /\ job[i].pc = "over"
    /\ Moves(i, [job[i] EXCEPT !.pc = "read", !.cost = job[i].spent])
    /\ UNCHANGED <<host, lock, cache, report>>

(* and the runtime let go, with what still ran of the turn. *)
Shutdown(i) ==
    /\ job[i].pc = "read"
    /\ Moves(i, [job[i] EXCEPT !.pc = "stopped", !.live = FALSE])
    /\ UNCHANGED <<host, lock, cache, report>>

Status(j, patch) ==
    IF j.turn = "timeout" THEN "timeout"
    ELSE IF j.turn = "failed" THEN "error"
    ELSE IF patch THEN "patch_produced"
    ELSE "empty_patch"

(* Then the patch is read; without it the result does not have the spend.  *)
run_single(i) ==
    /\ job[i].pc = "stopped"
    /\ \/ \E patch \in BOOLEAN : Ends(i, [status |-> Status(job[i], patch), cost |-> job[i].cost])
       \/ Ends(i, ErrorResult)
    /\ UNCHANGED <<host, lock, cache, report>>

(* The task panics: what it holds is dropped, the lock with it. A worker   *)
(* that is running goes on in its own thread.                              *)
Panics(i) ==
    /\ job[i].pc \in {"lock", "launch", "turn", "late", "over", "read", "stopped"}
    /\ Moves(i, [Unstarted EXCEPT !.pc = "panicked", !.consented = job[i].consented])
    /\ UNCHANGED <<host, lock, cache, report>>

BenchStep(i) ==
    \/ Spawn(i) \/ Join(i) \/ run_worker(i) \/ ensure_bare_cache(i) \/ Publish(i) \/ checkout_at(i)
    \/ Launch(i) \/ TurnEnds(i) \/ RunsOn(i) \/ StopsTurn(i) \/ ReadsSpend(i) \/ Shutdown(i)
    \/ run_single(i) \/ Panics(i)
    \/ \E ask \in Asks : consume_events(i, ask)

BenchNext == run_bench \/ SortReport \/ \E i \in Instance : BenchStep(i)

(***************************************************************************)
(* Properties.                                                             *)
(***************************************************************************)

(* What has not stopped can go on: at work, let in next, or reported next. *)
CanMove(i) == i \in Running \/ MaySpawn(i) \/ MayJoin(i)

(* What is said of an instance is so. *)
TrueOf(j, result) ==
    /\ result.status \in {"patch_produced", "empty_patch"} => j.turn = "finished" /\ ~j.live
    /\ result.status # "error" => result.cost = j.spent

(* No more instances run than may, none without a sandbox that confines    *)
(* it, and nothing is consented to that a person has to.                   *)
WithinBounds ==
    /\ Cardinality(Running) <= Parallelism
    /\ Running # {} => host.sandbox = "enforced"
    /\ \A i \in Instance : job[i].consented \subseteq {"ordinary"}

(* A lock is held only by a worker at work, what lies in the cache's place *)
(* is whole.                                                               *)
LocksAreHeld ==
    \A r \in Repo :
        /\ cache[r] # "partial"
        /\ lock[r] # 0 => job[lock[r]].pc \in {"stage", "publish", "clone"} /\ Mine(lock[r]) = r

(* Nothing stops before each instance is reported. *)
ReportGoesOn ==
    host.run = "on" => Len(report) = Cardinality(Instance) \/ \E i \in Instance : CanMove(i)

(* The results joined are of the first instances, each once; sorted they   *)
(* are of all instances, each once still, by their ids.                    *)
EachOnce ==
    /\ host.run = "on" => \A n \in DOMAIN report : report[n][1] = n
    /\ host.run = "reported" =>
         /\ Len(report) = Cardinality(Instance)
         /\ \A i \in Instance : \E n \in DOMAIN report : report[n][1] = i
         /\ \A m, n \in DOMAIN report : m < n => ~Before(report[n][1], report[m][1])

(* However the instances interleave, fail, run out of time or panic: the   *)
(* bounds and the locks hold, and nothing stops before each instance is    *)
(* reported once, in the end by id; a patch only by a turn that finished   *)
(* in time, with all it spent. (run_bench, run_single, checkout_repo)      *)
ReportIsHonest ==
    /\ WithinBounds
    /\ LocksAreHeld
    /\ EachOnce
    /\ \A n \in DOMAIN report : TrueOf(job[report[n][1]], report[n][2])
    /\ ReportGoesOn
=============================================================================

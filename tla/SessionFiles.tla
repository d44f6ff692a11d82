---------------------------- MODULE SessionFiles ----------------------------
(***************************************************************************)
(* Sessions as files: the signing key several processes create and share,  *)
(* the atomic save of one record, the load that verifies and rebinds it,   *)
(* and the launch that gives a resumed session its write grants again.     *)
(* (session_integrity.rs, session_store, runtime_launch.rs)                *)
(***************************************************************************)
EXTENDS Naturals, Sequences, FiniteSets

CONSTANTS
    Process,            \* processes of one user, sharing the home directory
    Workspace,          \* workspaces, each with its own sessions directory
    MaxLaunch,          \* bound: launches
    Dir,                \* directories a human may grant
    MaxKey,             \* bound: keys drawn
    MaxSave,            \* bound: saves begun
    MaxMeddle           \* bound: copies, edits and deletions of files, repointings
                        \* of directories and power losses, together

ASSUME SessionFilesAssumption ==
    /\ IsFiniteSet(Process) /\ MaxLaunch \in Nat
    /\ MaxKey \in Nat /\ MaxSave \in Nat /\ MaxMeddle \in Nat

VARIABLES
    keyFile,            \* ~/.deep-code/session-key
    filed,              \* per file: its versions since the directory was last synced
    resolves,           \* what a directory's path resolves to by now
    host,               \* per process: its key, its session and the save under way
    given,              \* history: the directories a human gave to a session
    acked,              \* history: the version a save of the file last reported
    count               \* keys drawn, saves begun, meddlings, versions made

sessionVars == <<keyFile, filed, resolves, host, given, acked, count>>

SessionId == 0..MaxLaunch              \* what new_session_id makes, and 0: a name a user chose
File == Workspace \X SessionId
NoKey == 0                      \* no file: also what an unavailable key signs
BadKey == MaxKey + 1            \* a file that is no key
Key == 1..MaxKey
NoTag == [key |-> NoKey]
Gone == "gone"

(* A record: "mac" is the key that signed the record as it is now.         *)
(* "rootsMac" is what sign_roots signed.                                   *)
SessionRecord(id, workspace, roots) ==
    [id |-> id, workspace |-> workspace, extra_roots |-> roots, rootsMac |-> NoTag, mac |-> NoKey]

NoRecord == SessionRecord(0, "nowhere", {})

Absent == [at |-> 0, rec |-> NoRecord, exists |-> FALSE, synced |-> TRUE, whole |-> TRUE,
           opened |-> <<>>]

NoHost == [pc |-> "off", fresh |-> NoKey, key |-> NoKey, rec |-> NoRecord, opened |-> <<>>,
           store |-> FALSE, temp |-> NoRecord, kind |-> "turn", slot |-> 0]

SessionsOn(kf) ==
    /\ keyFile = [key |-> kf, durable |-> TRUE, lost |-> FALSE]
    /\ filed = [f \in File |-> <<Absent>>]
    /\ resolves = [d \in Dir |-> d]
    /\ host = [p \in Process |-> NoHost]
    /\ given = {}
    /\ acked = [f \in File |-> 0]
    /\ count = [key |-> 0, save |-> 0, meddle |-> 0, at |-> 0, launch |-> 0]

SessionsInit == \E kf \in {NoKey, BadKey} : SessionsOn(kf)

Live(p) == host[p].rec # NoRecord
Becomes(p, h) == host' = [host EXCEPT ![p] = h]

(***************************************************************************)
(* The key: read it, or else publish a complete one without replacing the  *)
(* name, and read back whichever won. Once resolved it is cached.          *)
(***************************************************************************)

ReadKey(p, h) ==
    Becomes(p, [h EXCEPT !.pc = "ready", !.fresh = NoKey,
                         !.key = IF keyFile.key = BadKey THEN NoKey ELSE keyFile.key])

load_or_create_key(p) ==
    /\ host[p].pc = "off"
    /\ IF keyFile.key # NoKey
       THEN ReadKey(p, host[p]) /\ UNCHANGED count
       ELSE /\ count.key < MaxKey
            /\ count' = [count EXCEPT !.key = @ + 1]
            /\ Becomes(p, [host[p] EXCEPT !.pc = "publish", !.fresh = count.key + 1])
    /\ UNCHANGED <<keyFile, filed, resolves, given, acked>>

MutPublished(fresh) == [keyFile EXCEPT !.key = fresh]

(* persist_noclobber: an existing name is left alone. *)
Published(fresh) ==
    IF keyFile.key = NoKey THEN [keyFile EXCEPT !.key = fresh, !.durable = FALSE] ELSE keyFile

publish_key(p) ==
    /\ host[p].pc = "publish"
    /\ \/ /\ keyFile' = Published(host[p].fresh)
          /\ Becomes(p, [host[p] EXCEPT !.pc = "readback"])
       \/ /\ Becomes(p, [host[p] EXCEPT !.pc = "ready", !.fresh = NoKey])   \* the home is not writable
          /\ UNCHANGED keyFile
    /\ UNCHANGED <<filed, resolves, given, acked, count>>

ReadBack(p) ==
    /\ host[p].pc = "readback"
    /\ ReadKey(p, host[p])
    /\ UNCHANGED <<keyFile, filed, resolves, given, acked, count>>

(***************************************************************************)
(* The tags.                                                               *)
(***************************************************************************)

sign_roots(key, r) ==
    IF key = NoKey THEN NoTag
    ELSE [key |-> key, id |-> r.id, workspace |-> r.workspace, roots |-> r.extra_roots]

MutVerifyRoots(key, r) == r.extra_roots = {} \/ r.rootsMac.key = key

verify_roots(key, r) ==
    r.extra_roots = {} \/ (key # NoKey /\ r.rootsMac = sign_roots(key, r))

sign_record(key, r) == [r EXCEPT !.mac = key]

verify_record(key, r) == key # NoKey /\ r.mac = key

prepare_record(key, r) == sign_record(key, [r EXCEPT !.rootsMac = sign_roots(key, r)])

(***************************************************************************)
(* Saving: a synced temporary file, a rename over the name, a synced       *)
(* directory. Each of them can fail, and the save reports it.              *)
(***************************************************************************)

Newest(f) == filed[f][Len(filed[f])]

Put(f, v) == filed' = [filed EXCEPT ![f] = Append(@, v)]

FileOf(r) == <<r.workspace, r.id>>

BeginSave(p, h, r, counted, kind) ==
    /\ count.save < MaxSave
    /\ count' = [counted EXCEPT !.save = @ + 1]
    /\ Becomes(p, [h EXCEPT !.pc = "temp", !.rec = r, !.kind = kind,
                         !.temp = prepare_record(h.key, r)])

Saved(h) ==
    [h EXCEPT !.pc = "ready", !.temp = NoRecord, !.slot = 0, !.kind = "turn"]

(* What a failed save leaves: a fresh session then runs without a store. *)
SaveFailed(h) ==
    [Saved(h) EXCEPT !.store = @ /\ h.kind # "fresh",
                     !.opened = IF h.kind = "fresh" THEN <<>> ELSE @]

MutSynced == FALSE

Synced == TRUE

(* Nobody sees the temporary file before it is renamed: one step. *)
Rename(p) ==
    LET h == host[p]
        f == FileOf(h.temp)
    IN /\ h.pc = "temp"
       /\ \/ /\ Put(f, [at |-> count.at + 1, rec |-> h.temp, exists |-> TRUE,
                        synced |-> Synced, whole |-> TRUE, opened |-> h.opened])
             /\ count' = [count EXCEPT !.at = @ + 1]
             /\ Becomes(p, [h EXCEPT !.pc = "sync", !.slot = count.at + 1])
          \/ Becomes(p, SaveFailed(h)) /\ UNCHANGED <<filed, count>>
       /\ UNCHANGED <<keyFile, resolves, given, acked>>

MutDurable(w, d) == d

(* What a synced directory no longer owes to luck. *)
Durable(w, d) ==
    [f \in File |-> IF f[1] = w THEN <<d[f][Len(d[f])]>> ELSE d[f]]

SyncDirectory(p) ==
    LET h == host[p]
        f == FileOf(h.temp)
    IN /\ h.pc = "sync"
       /\ \/ /\ filed' = Durable(h.temp.workspace, filed)
             /\ acked' = [acked EXCEPT ![f] = h.slot]
             /\ Becomes(p, [Saved(h) EXCEPT !.rec = h.temp])
          \/ Becomes(p, SaveFailed(h)) /\ UNCHANGED <<filed, acked>>
       /\ UNCHANGED <<keyFile, resolves, given, count>>

(* A turn is saved: the record as it stands, with the grants of the moment. *)
SaveTurn(p) ==
    /\ host[p].pc = "ready" /\ Live(p) /\ host[p].store /\ host[p].key # NoKey
    /\ BeginSave(p, host[p], host[p].rec, count, "turn")
    /\ UNCHANGED <<keyFile, filed, resolves, given, acked>>

(***************************************************************************)
(* Loading, and launching.                                                 *)
(***************************************************************************)

CanLoad(p, f) ==
    Newest(f).exists /\ Newest(f).whole /\ verify_record(host[p].key, Newest(f).rec)

MutRebound(key, r, id) == r

(* The file's name is the session's id; only the record tag is issued anew. *)
Rebound(key, r, id) ==
    IF r.id = id THEN r ELSE sign_record(key, [r EXCEPT !.id = id])

load(p, f) == Rebound(host[p].key, Newest(f).rec, f[2])

Stands(d) == resolves[d] = d

MutInherited(roots) == roots

(* validate_inherited_roots: a grant stays with the directory approved. *)
Inherited(roots) == {d \in roots : Stands(d)}

MutRestored(key, r, w) == IF r.workspace = w THEN {d \in r.extra_roots : Stands(d)} ELSE {}

(* The recorded grants that a resumed session keeps. *)
Restored(key, r, w) ==
    IF r.workspace = w /\ verify_roots(key, r)
    THEN {d \in r.extra_roots : Stands(d)}
    ELSE {}

Given(f, roots) == given' = given \cup {<<f, d>> : d \in roots}

(* The roots a launch is told: the flags of a new process, or what the     *)
(* process holds already when it swaps sessions.                           *)
Told(p, w) ==
    IF ~Live(p) THEN {{}} \cup {{d} : d \in {e \in Dir : Stands(e)}}
    ELSE {Inherited(host[p].rec.extra_roots)}

MayLaunch(p, w) ==
    /\ host[p].pc = "ready" /\ (Live(p) => host[p].rec.workspace = w)
    /\ count.launch < MaxLaunch

Launched == [count EXCEPT !.launch = @ + 1]

(* launch_fresh: a session that cannot be saved at once runs unsaved. *)
Fresh(p, w, roots) ==
    LET id == count.launch + 1
        r  == SessionRecord(id, w, roots)
        h  == [host[p] EXCEPT !.opened = <<w, id>>, !.store = TRUE, !.kind = "fresh"]
    IN /\ Given(<<w, id>>, roots)
       /\ \/ h.key # NoKey /\ BeginSave(p, h, r, Launched, "fresh")
          \/ /\ Becomes(p, [SaveFailed(h) EXCEPT !.rec = r])
             /\ count' = Launched

launch_fresh(p, w) ==
    /\ MayLaunch(p, w)
    /\ \E roots \in Told(p, w) : Fresh(p, w, roots)
    /\ UNCHANGED <<keyFile, filed, resolves, acked>>

launch_resumed(p, f) ==
    /\ MayLaunch(p, f[1])
    /\ CanLoad(p, f)
    /\ LET loaded == load(p, f) IN
       \E told \in Told(p, f[1]), refused \in SUBSET Dir :   \* refuse_as_unattended_root
          LET roots == (Restored(host[p].key, loaded, f[1]) \ refused) \cup told
              r == [loaded EXCEPT !.workspace = f[1], !.extra_roots = roots]
              h == [host[p] EXCEPT !.opened = f, !.store = TRUE]
          IN \/ Given(f, told) /\ BeginSave(p, h, r, Launched, "resumed")
             \/ Fresh(p, f[1], roots)                   \* the store does not open
    /\ UNCHANGED <<keyFile, filed, resolves, acked>>

(* /add-dir: the session goes on in a new runtime with one more root, and  *)
(* is saved. One that ran unsaved gets another id, and a store if by now   *)
(* one opens; for a saved one, no store is an error that changes nothing.  *)
prepare_runtime_reconfiguration(p, d) ==
    LET h == host[p]
        r == [h.rec EXCEPT !.extra_roots = Inherited(@ \cup {d}),
                           !.id = IF h.store THEN @ ELSE count.launch + 1]
        counted == IF h.store THEN count ELSE Launched
        opened == [h EXCEPT !.opened = FileOf(r), !.store = TRUE]
    IN /\ h.pc = "ready" /\ Live(p) /\ Stands(d) /\ d \notin h.rec.extra_roots
       /\ ~h.store => count.launch < MaxLaunch
       /\ given' = given \cup {<<FileOf(r), e>> :
                         e \in {d} \cup {x \in Dir : <<FileOf(h.rec), x>> \in given}}
       /\ \/ h.key # NoKey /\ BeginSave(p, opened, r, counted, "turn")
          \/ h.key = NoKey /\ Becomes(p, [opened EXCEPT !.rec = r]) /\ count' = counted
          \/ ~h.store /\ Becomes(p, [h EXCEPT !.rec = r]) /\ count' = counted
       /\ UNCHANGED <<keyFile, filed, resolves, acked>>

(***************************************************************************)
(* The world: files copied, edited and deleted, directories replaced,      *)
(* processes killed, power lost.                                           *)
(***************************************************************************)

Meddles == count.meddle < MaxMeddle
Meddled(versions) == count' = [count EXCEPT !.meddle = @ + 1, !.at = @ + versions]

(* A file is copied to a name of the user's, or into another workspace. *)
CopyFile(f, g) ==
    /\ Meddles /\ f # g /\ Newest(f).exists
    /\ g = <<f[1], 0>> \/ (f[1] # g[1] /\ f[2] = g[2])
    /\ Meddled(1)
    /\ Put(g, [Newest(f) EXCEPT !.at = count.at + 1, !.opened = g])
    /\ UNCHANGED <<keyFile, resolves, host, given, acked>>

(* A file is rewritten with one more grant, its tags left as they were. *)
EditFile(f, d) ==
    /\ Meddles /\ Newest(f).exists
    /\ Meddled(1)
    /\ Put(f, [Newest(f) EXCEPT !.at = count.at + 1, !.rec.extra_roots = @ \cup {d},
                                !.rec.mac = NoKey])
    /\ UNCHANGED <<keyFile, resolves, host, given, acked>>

delete(f) ==
    /\ Meddles /\ Newest(f).exists
    /\ Meddled(1)
    /\ Put(f, [Absent EXCEPT !.at = count.at + 1])
    /\ UNCHANGED <<keyFile, resolves, host, given, acked>>

Repoint(d) ==
    /\ Meddles
    /\ Meddled(0)
    /\ \E to \in (Dir \cup {Gone}) \ {resolves[d]} : resolves' = [resolves EXCEPT ![d] = to]
    /\ UNCHANGED <<keyFile, filed, host, given, acked>>

Killed(p) ==
    /\ host[p].pc # "off"
    /\ Becomes(p, NoHost)
    /\ UNCHANGED <<keyFile, filed, resolves, given, acked, count>>

(* What a name falls back to when only what happened until t is kept: no   *)
(* older than the synced version, and torn if its bytes were never synced. *)
Survivor(versions, t) ==
    LET kept == {i \in DOMAIN versions : i = 1 \/ versions[i].at <= t}
        v    == versions[CHOOSE i \in kept : \A j \in kept : j <= i]
    IN [v EXCEPT !.whole = @ /\ v.synced]

(* Every process dies, and a key published since may be gone. *)
PowerLoss ==
    /\ Meddles
    /\ Meddled(0)
    /\ \E t \in 0..count.at : filed' = [f \in File |-> <<Survivor(filed[f], t)>>]
    /\ \/ keyFile' = [keyFile EXCEPT !.durable = TRUE]
       \/ ~keyFile.durable /\ keyFile' = [key |-> NoKey, durable |-> TRUE, lost |-> TRUE]
    /\ host' = [p \in Process |-> NoHost]
    /\ UNCHANGED <<resolves, given, acked>>

SessionsNext ==
    \/ \E p \in Process : load_or_create_key(p) \/ publish_key(p) \/ ReadBack(p)
    \/ \E p \in Process : Rename(p) \/ SyncDirectory(p) \/ SaveTurn(p)
    \/ \E p \in Process, w \in Workspace : launch_fresh(p, w)
    \/ \E p \in Process, f \in File : launch_resumed(p, f)
    \/ \E p \in Process, d \in Dir : prepare_runtime_reconfiguration(p, d)
    \/ \E f, g \in File : CopyFile(f, g)
    \/ \E f \in File, d \in Dir : EditFile(f, d)
    \/ \E f \in File : delete(f)
    \/ \E d \in Dir : Repoint(d)
    \/ \E p \in Process : Killed(p)
    \/ PowerLoss

(***************************************************************************)
(* Properties.                                                             *)
(***************************************************************************)

(* What a save reported is what the file falls back to, whole, through any *)
(* crash or power loss, and no session is ever written over another's      *)
(* file, not even by the fork that still carries the other's id.           *)
(* (write_atomic; load)                                                    *)
SavesSurvive ==
    \A f \in File :
        /\ filed[f][1].at >= acked[f]
        /\ \A i \in DOMAIN filed[f] :
              filed[f][i].whole /\ (filed[f][i].exists => filed[f][i].opened = f)

(* However many processes start at once, and whichever of them die, they   *)
(* sign with one key, and every record they signed can be verified again.  *)
(* Only a key file the power loss took can end that. (publish_key)         *)
SessionsStayReadable ==
    /\ \A p \in Process : host[p].key # NoKey => host[p].key = keyFile.key
    /\ ~keyFile.lost =>
          \A f \in File : Newest(f).rec.mac \in {NoKey, keyFile.key}

(* No session writes where no human let it: copies, edits and other        *)
(* workspaces carry no grant over. (verify_roots; launch_resumed)          *)
GrantsWereGiven ==
    \A p \in Process : \A d \in host[p].rec.extra_roots : <<FileOf(host[p].rec), d>> \in given

(* A session that takes on its roots takes none whose path has come to     *)
(* mean another directory. (validate_inherited_roots; launch_resumed)      *)
GrantsStand ==
    [][\A p \in Process :
          LET old == host[p].rec
              new == host'[p].rec
          IN <<FileOf(old), old.extra_roots>> # <<FileOf(new), new.extra_roots>>
                => \A d \in new.extra_roots : Stands(d)]_sessionVars
=============================================================================

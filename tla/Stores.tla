------------------------------- MODULE Stores -------------------------------
(***************************************************************************)
(* The two stores a session leaves on disk: the snapshots of its workspace *)
(* and the session files. They share no state; a behaviour is about one of *)
(* them, while the other rests.                                    *)
(***************************************************************************)
EXTENDS CheckpointStore, SessionFiles

VARIABLE store      \* the store this behaviour is about

storeVars == <<vars, sessionVars, store>>

StoresInit ==
    /\ store \in {"checkpoints", "sessions"}
    /\ Init
    /\ IF store = "sessions" THEN SessionsInit /\ workspace = Bare ELSE SessionsOn(NoKey)

StoresNext ==
    \/ store = "checkpoints" /\ Next /\ UNCHANGED <<sessionVars, store>>
    \/ store = "sessions" /\ SessionsNext /\ UNCHANGED <<vars, store>>

StoresSpec == StoresInit /\ [][StoresNext]_storeVars

(* Through crashes, power loss, copies and edits of the files, and several *)
(* processes creating the key at once: what a save acknowledged can be     *)
(* loaded again, every session signed under the key stays readable, and no *)
(* session is resumed with a directory that nobody granted it; whatever    *)
(* failed or was cut off, every snapshot is a tree and what the session    *)
(* lists can be restored. (write_atomic, publish_key, launch_resumed,      *)
(* CheckpointStore::prune, record_checkpoint)                              *)
StoresHold ==
    /\ SavesSurvive /\ SessionsStayReadable /\ GrantsWereGiven
    /\ AlwaysTrees /\ RecordedAreStored
=============================================================================

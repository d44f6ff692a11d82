---------------------------- MODULE ConfigLayers ----------------------------
(***************************************************************************)
(* The configuration: built-in values, the global file, the project file   *)
(* and the environment laid over each other in this order, and the updates *)
(* the program itself writes to the global file.  The project file comes   *)
(* with the repository that is being worked on, so it may only tighten.    *)
(*                                                                         *)
(* A setting is the number its meaning is ordered by (ranks of the modes,  *)
(* steps of the budget), Blank, or Odd for a spelling nobody knows.        *)
(***************************************************************************)
EXTENDS Integers, FiniteSets

CONSTANTS
    Settings,       \* settings that files and the environment are given: <<field, raw value>>; any
                    \* field that is none of Fields is a key nobody knows
    MaxEdits,       \* bound: edits by hand
    MaxUpdates,     \* bound: updates by the programs
    Programs        \* instances of the program that write the global file

VARIABLES
    global,     \* the global file
    project,    \* the project file
    environ,    \* the environment: field |-> raw value
    edits,      \* how many edits were made by hand
    updates,    \* how many updates programs began
    byhand,     \* history: the global file as it was last left by hand
    writer,     \* program |-> its update: step and document
    temp        \* program |-> its temporary file

configVars == <<global, project, environ, edits, updates, byhand, writer, temp>>

-----------------------------------------------------------------------------
Blank == -1
Odd == -2

FreeText == {"api_key", "base_url", "model"}
Spelled == {"reasoning_effort", "currency", "language", "network", "mode", "default_mode", "detail"}
Typed == {"timeout_secs", "auto_cost_saving", "compaction_threshold", "max_retries", "chunk_timeout_secs", "total_timeout_secs",
          "max_bytes", "max_snapshots", "notifications", "enabled", "turn_steps", "auto_allow", "allow_irreversible"}
Fields == FreeText \cup Spelled \cup Typed

(* Lists of rules; an empty one is a value as well. *)
Lists == {"auto_allow", "allow_irreversible"}

ASSUME ConfigAssumption ==
    /\ MaxEdits \in Nat /\ MaxUpdates \in Nat
    /\ \A s \in Settings : s[2] \in Nat \cup {Blank, Odd}

(* Fields only the user's own layers may set. *)
OwnerOnly == {"api_key", "base_url", "timeout_secs", "auto_cost_saving", "compaction_threshold", "max_retries", "chunk_timeout_secs",
              "total_timeout_secs", "max_bytes", "max_snapshots", "allow_irreversible", "auto_allow"}

(* Fields the environment has a variable for. *)
EnvFields == {"api_key", "model", "reasoning_effort", "language", "auto_cost_saving", "currency", "compaction_threshold", "max_retries",
              "chunk_timeout_secs", "total_timeout_secs", "max_bytes", "max_snapshots", "auto_allow"}

ConfigSources == {"api_key", "base_url", "model", "reasoning_effort", "currency"}

(* network: never 0, prompt 1, always 2; mode: off 0, os 1; default_mode: from *)
(* default 0 to yolo 3; turn_steps: 0 is no limit.                             *)
builtin == [f \in Fields |-> CASE f \in {"network", "mode", "enabled", "notifications", "timeout_secs"} -> 1
                               [] f = "turn_steps" -> 2
                               [] OTHER -> 0]

ConfigFile(kind, keys) == [kind |-> kind, keys |-> keys]
NoKeys == [f \in {} |-> 0]
MissingFile == ConfigFile("missing", NoKeys)

(* What a file holds to the reader: an ill-typed value makes all of it unusable. *)
read_config_file(file) ==
    IF file.kind = "doc" /\ \E f \in DOMAIN file.keys \cap Typed : file.keys[f] = Odd \/ (file.keys[f] = Blank /\ f \notin Lists)
    THEN ConfigFile("broken", NoKeys)
    ELSE file

(* The value a raw setting stands for, if it stands for one. *)
parse_setting(raw) == raw \notin {Blank, Odd}

MutWidening(f, new, now) ==
    CASE f = "turn_steps" -> now # 0 /\ new > now
      [] f = "mode" -> new < now
      [] OTHER -> f \in {"enabled", "network", "default_mode"} /\ new > now

Widening(f, new, now) ==
    CASE f = "enabled" -> new # 0 /\ now = 0
      [] f = "network" -> new > now
      [] f = "mode" -> new < now
      [] f = "turn_steps" -> now # 0 /\ (new = 0 \/ new > now)
      [] f = "default_mode" -> new > now
      [] OTHER -> FALSE

(* An empty list is taken: it empties the one that was there. *)
Value(f, raw) == IF f \in Lists /\ raw = Blank THEN 0 ELSE raw

Takes(layer, config, f, raw) ==
    /\ f \in Fields /\ parse_setting(Value(f, raw))
    /\ layer = "project" => f \notin OwnerOnly /\ ~Widening(f, raw, config[f])

(* What is set and not taken has a warning, and so does a key nobody knows. *)
Warns(layer, config, f, raw) == (f \in Fields => Value(f, raw) # Blank) /\ ~Takes(layer, config, f, raw)

(* One layer over the configuration so far; what it may not set or nobody can *)
(* read is left as it was and a warning says so.                              *)
apply_overlay(layer, keys, l) ==
    [l EXCEPT !.config = [f \in Fields |-> IF f \in DOMAIN keys /\ Takes(layer, l.config, f, keys[f]) THEN Value(f, keys[f]) ELSE @[f]],
              !.sources = [f \in ConfigSources |-> IF f \in DOMAIN keys /\ Takes(layer, l.config, f, keys[f]) THEN layer ELSE @[f]],
              !.pending = @ \cup {<<layer, f>> : f \in {g \in DOMAIN keys : Warns(layer, l.config, g, keys[g])}}]

apply_file_overlay(layer, file, l) ==
    LET read == read_config_file(file)
    IN  CASE read.kind = "missing" -> l
          [] read.kind = "doc" -> apply_overlay(layer, read.keys, l)
          [] OTHER -> [l EXCEPT !.pending = @ \cup {<<layer, "file">>}]

apply_env_overlay(env, l) == apply_overlay("env", env, l)

Unloaded == [config |-> builtin, sources |-> [f \in ConfigSources |-> "builtin"], pending |-> {}]

(* AgentConfig::load: every layer is read once, the global file after a rename or before it. *)
load_with(g, p, env) == apply_env_overlay(env, apply_file_overlay("project", p, apply_file_overlay("global", g, Unloaded)))

-----------------------------------------------------------------------------
Writer(at, doc) == [at |-> at, doc |-> doc]

ConfigInit ==
    /\ global = MissingFile /\ project = MissingFile /\ environ = NoKeys
    /\ edits = 0 /\ updates = 0 /\ byhand = MissingFile
    /\ writer = [p \in Programs |-> Writer("idle", MissingFile)]
    /\ temp = [p \in Programs |-> MissingFile]

Quiet == \A p \in Programs : writer[p].at \in {"idle", "dead"}

With(keys, f, v) == [g \in DOMAIN keys \cup {f} |-> IF g = f THEN v ELSE keys[g]]
Set(file, s) == ConfigFile("doc", With(file.keys, s[1], s[2]))

(* Somebody edits a file by hand (the global one only while no program writes it), *)
(* or leaves it unreadable.                                                        *)
EditGlobal(file) ==
    /\ edits < MaxEdits /\ Quiet
    /\ edits' = edits + 1 /\ global' = file /\ byhand' = file
    /\ UNCHANGED <<project, environ, updates, writer, temp>>

EditProject(file) ==
    /\ edits < MaxEdits
    /\ edits' = edits + 1 /\ project' = file
    /\ UNCHANGED <<global, updates, byhand, environ, writer, temp>>

Export(s) ==
    /\ edits < MaxEdits /\ s[1] \in EnvFields
    /\ edits' = edits + 1 /\ environ' = With(environ, s[1], s[2])
    /\ UNCHANGED <<global, project, updates, byhand, writer, temp>>

-----------------------------------------------------------------------------
(* write_global_config_update: the api key (0 removes it), the model or the language. *)
Updated(keys, f, v) == IF f = "api_key" /\ v = 0 THEN [g \in DOMAIN keys \ {f} |-> keys[g]] ELSE With(keys, f, v)

MutReadExisting(p, f, v) ==
    /\ writer[p].at = "idle" /\ updates < MaxUpdates
    /\ writer' = [writer EXCEPT ![p] = Writer("temp", ConfigFile("doc", Updated(global.keys, f, v)))]
    /\ updates' = updates + 1
    /\ UNCHANGED <<global, project, environ, edits, byhand, temp>>

(* The document is read and changed; one that cannot be parsed is refused, a *)
(* missing one starts from the template.  Ill-typed values parse here.       *)
ReadExisting(p, f, v) ==
    /\ writer[p].at = "idle" /\ updates < MaxUpdates /\ global.kind \in {"missing", "doc"}
    /\ writer' = [writer EXCEPT ![p] = Writer("temp", ConfigFile("doc", Updated(global.keys, f, v)))]
    /\ updates' = updates + 1
    /\ UNCHANGED <<global, project, environ, edits, byhand, temp>>

(* write_private: a leftover of an earlier process is removed, then the bytes go out. *)
CreateTemp(p) ==
    /\ writer[p].at = "temp"
    /\ temp' = [temp EXCEPT ![p] = ConfigFile("partial", NoKeys)]
    /\ writer' = [writer EXCEPT ![p].at = "fill"]
    /\ UNCHANGED <<global, project, environ, edits, updates, byhand>>

FillTemp(p) ==
    /\ writer[p].at = "fill"
    /\ temp' = [temp EXCEPT ![p] = writer[p].doc]
    /\ writer' = [writer EXCEPT ![p].at = "rename"]
    /\ UNCHANGED <<global, project, environ, edits, updates, byhand>>

Rename(p) ==
    /\ writer[p].at = "rename"
    /\ global' = temp[p]
    /\ temp' = [temp EXCEPT ![p] = MissingFile]
    /\ writer' = [writer EXCEPT ![p] = Writer("idle", MissingFile)]
    /\ UNCHANGED <<project, environ, edits, updates, byhand>>

(* Any of its calls fails and the update is reported as failed, or the process dies. *)
GiveUp(p) ==
    /\ writer[p].at \in {"temp", "fill", "rename"}
    /\ \E s \in {"idle", "dead"} : writer' = [writer EXCEPT ![p] = Writer(s, MissingFile)]
    /\ UNCHANGED <<global, project, environ, edits, updates, byhand, temp>>

(* A later process gets the same process id, and so the same temporary file. *)
Respawn(p) == /\ writer[p].at = "dead" /\ writer' = [writer EXCEPT ![p].at = "idle"]
              /\ UNCHANGED <<global, project, environ, edits, updates, byhand, temp>>

(* The language is written the way the model is. *)
Updates == {<<"api_key", 0>>, <<"api_key", 1>>, <<"model", 1>>}

ConfigNext ==
    \/ \E s \in Settings : EditGlobal(Set(global, s)) \/ EditProject(Set(project, s)) \/ Export(s)
    \/ EditGlobal(ConfigFile("broken", NoKeys)) \/ EditProject(ConfigFile("broken", NoKeys))
    \/ \E p \in Programs : \/ \E u \in Updates : ReadExisting(p, u[1], u[2])
                           \/ CreateTemp(p) \/ FillTemp(p) \/ Rename(p) \/ GiveUp(p) \/ Respawn(p)

ConfigSpec == ConfigInit /\ [][ConfigNext]_configVars

-----------------------------------------------------------------------------
(* Properties *)

(* The settings a layer can widen. *)
Guarded == {"enabled", "network", "mode", "turn_steps", "default_mode"}

(* A value allows no more than another: no limit is the widest budget. *)
NoWider(f, v, w) ==
    CASE f = "mode" -> v >= w
      [] f = "enabled" -> v # 0 => w # 0
      [] f = "turn_steps" -> w = 0 \/ (v # 0 /\ v <= w)
      [] OTHER -> v <= w

(* A repository's own file never widens what the agent may do: in every guarded *)
(* setting a load is no wider than the same load without the project file,      *)
(* keys, endpoints and trust rules are exactly the same, no source names the    *)
(* project for them, and every setting of the file that is refused, as not the  *)
(* project's, as wider than what stood before or as one nobody can read, or     *)
(* that is unknown, has its warning.                                            *)
ProjectOnlyTightens ==
    LET with == load_with(global, project, environ)
        without == load_with(global, MissingFile, environ)
        before == apply_file_overlay("global", global, Unloaded).config
        Wider(f, raw) == f \in Guarded /\ parse_setting(raw) /\ ~NoWider(f, raw, before[f])
        Refused(f, raw) == raw = Odd \/ Wider(f, raw) \/ (f \in OwnerOnly /\ Value(f, raw) # Blank)
    IN  /\ \A f \in OwnerOnly : with.config[f] = without.config[f]
        /\ \A f \in Guarded : NoWider(f, with.config[f], without.config[f])
        /\ \A f \in ConfigSources \cap OwnerOnly : with.sources[f] # "project"
        /\ without.pending \subseteq with.pending
        /\ \A f \in DOMAIN project.keys :
              f \notin Fields \/ Refused(f, project.keys[f])
              => {<<"project", f>>, <<"project", "file">>} \cap with.pending # {}

(* An update of one key never costs the user another: whatever crashes, fails  *)
(* or races it, the file on disk is whole, holds every setting left by hand    *)
(* outside the keys updates write, and a file that cannot be parsed is left    *)
(* for its author.                                                             *)
UpdatesKeepTheRest ==
    /\ global.kind # "partial"
    /\ byhand.kind = "broken" => global = byhand
    /\ \A f \in DOMAIN byhand.keys \ {u[1] : u \in Updates} : f \in DOMAIN global.keys /\ global.keys[f] = byhand.keys[f]
=============================================================================

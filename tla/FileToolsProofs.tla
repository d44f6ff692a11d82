--------------------------- MODULE FileToolsProofs ---------------------------
(***************************************************************************)
(* Proofs about what the agent does to files, for any settings, paths,     *)
(* contents, machines and instances: the project's configuration file only *)
(* tightens, updates keep what was set by hand, the changes shown of a     *)
(* working tree are the work that was done, a confined command writes only *)
(* where it was told, and the harness reports what happened.  The parts    *)
(* share no variables, so each has an invariant of its own.                *)
(***************************************************************************)
EXTENDS MCFileTools, SequenceTheorems, FiniteSetTheorems, TLAPS

-----------------------------------------------------------------------------
(* The configuration *)

Raw == Nat \cup {Blank, Odd}

(* What a file or the environment sets. *)
Names == Fields \cup {s[1] : s \in Settings}
Keys == UNION {[dom -> Raw] : dom \in SUBSET Names}

Files == {x \in [kind : {"missing", "doc", "broken", "partial"}, keys : Keys] : x.kind # "doc" => x.keys = NoKeys}

Busy == {"temp", "fill", "rename"}

ConfigTyped ==
    /\ global \in Files /\ project \in Files
    /\ environ \in Keys /\ DOMAIN environ \subseteq EnvFields
    /\ writer \in [Programs -> [at : {"idle", "dead"} \cup Busy, doc : Files]]
    /\ temp \in [Programs -> Files]
    /\ byhand \in Files

(* The document a program is about to put in the file's place holds what was *)
(* set by hand, which nobody changes meanwhile; nobody updates a file that   *)
(* cannot be parsed.                                                         *)
Written == {u[1] : u \in Updates}

HoldsByHand(file) ==
    \A f \in DOMAIN byhand.keys \ Written : f \in DOMAIN file.keys /\ file.keys[f] = byhand.keys[f]

DraftsKeep ==
    \A p \in Programs : writer[p].at \in Busy =>
        /\ byhand.kind # "broken"
        /\ writer[p].doc.kind = "doc" /\ HoldsByHand(writer[p].doc)
        /\ writer[p].at = "rename" => temp[p] = writer[p].doc

ConfigInv == ConfigTyped /\ UpdatesKeepTheRest /\ DraftsKeep

(* Setting one key of what is set. *)
LEMMA SetKey ==
    ASSUME NEW keys \in Keys, NEW f \in Names, NEW v \in Raw
    PROVE  With(keys, f, v) \in Keys
<1>1. PICK dom \in SUBSET Names : keys \in [dom -> Raw]
  BY DEF Keys
<1>2. With(keys, f, v) \in [dom \cup {f} -> Raw]
  BY <1>1 DEF With
<1>3. dom \cup {f} \in SUBSET Names
  BY <1>1
<1> QED
  BY <1>2, <1>3 DEF Keys

LEMMA NoKeysSet == NoKeys \in Keys /\ DOMAIN NoKeys = {}
<1>1. NoKeys \in [{} -> Raw]
  BY DEF NoKeys
<1> QED
  BY <1>1 DEF Keys

(* Removing one key of what is set. *)
LEMMA DropKey ==
    ASSUME NEW keys \in Keys, NEW f
    PROVE  [g \in DOMAIN keys \ {f} |-> keys[g]] \in Keys
<1>1. PICK dom \in SUBSET Names : keys \in [dom -> Raw]
  BY DEF Keys
<1>2. [g \in DOMAIN keys \ {f} |-> keys[g]] \in [dom \ {f} -> Raw]
  BY <1>1
<1>3. dom \ {f} \in SUBSET Names
  OBVIOUS
<1> QED
  BY <1>2, <1>3 DEF Keys

LEMMA NoFiles == MissingFile \in Files /\ ConfigFile("broken", NoKeys) \in Files /\ ConfigFile("partial", NoKeys) \in Files
BY NoKeysSet DEF MissingFile, ConfigFile, Files

LEMMA ConfigStarts == ConfigInit => ConfigInv
<1> SUFFICES ASSUME ConfigInit PROVE ConfigInv
  OBVIOUS
<1>1. environ \in Keys /\ DOMAIN environ \subseteq EnvFields
  BY NoKeysSet DEF ConfigInit
<1>2. ConfigTyped
  BY <1>1, NoFiles DEF ConfigInit, ConfigTyped, Writer, MissingFile, ConfigFile
<1>3. UpdatesKeepTheRest
  BY NoKeysSet DEF ConfigInit, UpdatesKeepTheRest, MissingFile, ConfigFile
<1>4. DraftsKeep
  BY DEF ConfigInit, DraftsKeep, Writer, Busy
<1> QED
  BY <1>2, <1>3, <1>4 DEF ConfigInv

(* A file somebody may leave: one more setting in it, or nothing readable. *)
LEMMA HandFiles ==
    ASSUME NEW file \in Files, NEW s \in Settings
    PROVE  Set(file, s) \in Files /\ s[1] \in Names /\ s[2] \in Raw
<1>1. s[1] \in Names /\ s[2] \in Raw
  BY ConfigAssumption DEF Raw, Names
<1>2. file.keys \in Keys
  BY DEF Files
<1> QED
  BY <1>1, <1>2, SetKey DEF Set, ConfigFile, Files

LEMMA EditGlobalKeeps ==
    ASSUME ConfigInv, NEW file \in Files, EditGlobal(file), file.kind # "partial"
    PROVE  ConfigInv'
<1> USE DEF ConfigInv
<1>1. ConfigTyped'
  BY DEF EditGlobal, ConfigTyped
<1>2. UpdatesKeepTheRest'
  BY DEF EditGlobal, UpdatesKeepTheRest
<1>3. DraftsKeep'
  BY DEF EditGlobal, DraftsKeep, Quiet, Busy
<1> QED
  BY <1>1, <1>2, <1>3

LEMMA EditProjectKeeps ==
    ASSUME ConfigInv, NEW file \in Files, EditProject(file)
    PROVE  ConfigInv'
BY DEF ConfigInv, EditProject, ConfigTyped, UpdatesKeepTheRest, DraftsKeep, HoldsByHand

LEMMA ExportKeeps ==
    ASSUME ConfigInv, NEW s \in Settings, Export(s)
    PROVE  ConfigInv'
<1> USE DEF ConfigInv
<1>1. s[1] \in Names /\ s[2] \in Raw
  BY ConfigAssumption DEF Raw, Names
<1>2. environ' \in Keys /\ DOMAIN environ' \subseteq EnvFields
  <2>1. environ' = With(environ, s[1], s[2]) /\ s[1] \in EnvFields
    BY DEF Export
  <2>2. DOMAIN environ' = DOMAIN environ \cup {s[1]}
    BY <2>1 DEF With
  <2> QED
    BY <2>1, <2>2, <1>1, SetKey DEF ConfigTyped
<1>3. ConfigTyped'
  BY <1>2 DEF Export, ConfigTyped
<1>4. UpdatesKeepTheRest' /\ DraftsKeep'
  BY DEF Export, UpdatesKeepTheRest, DraftsKeep, HoldsByHand
<1> QED
  BY <1>3, <1>4

(* The draft of an update is the file with a key that updates write set or   *)
(* removed.                                                                  *)
LEMMA DraftFits ==
    ASSUME NEW keys \in Keys, NEW u \in Updates
    PROVE  /\ Updated(keys, u[1], u[2]) \in Keys
           /\ DOMAIN keys \ Written \subseteq DOMAIN Updated(keys, u[1], u[2])
           /\ \A g \in DOMAIN keys \ Written : Updated(keys, u[1], u[2])[g] = keys[g]
<1>1. u[1] \in Names /\ u[2] \in Raw /\ u[1] \in Written
  <2>1. u[1] \in {"api_key", "model"} /\ u[2] \in {0, 1}
    BY DEF Updates
  <2>2. u[1] \in Names
    BY <2>1 DEF Names, Fields, FreeText
  <2>3. u[2] \in Raw
    BY <2>1 DEF Raw
  <2>4. u[1] \in Written
    BY DEF Written
  <2> QED
    BY <2>2, <2>3, <2>4
<1>2. CASE u[1] = "api_key" /\ u[2] = 0
  BY <1>1, <1>2, DropKey DEF Updated
<1>3. CASE ~(u[1] = "api_key" /\ u[2] = 0)
  <2>1. Updated(keys, u[1], u[2]) = With(keys, u[1], u[2])
    BY <1>3 DEF Updated
  <2> QED
    BY <1>1, <2>1, SetKey DEF With
<1> QED
  BY <1>2, <1>3

LEMMA ReadExistingKeeps ==
    ASSUME ConfigInv, NEW p \in Programs, NEW u \in Updates, ReadExisting(p, u[1], u[2])
    PROVE  ConfigInv'
<1> USE DEF ConfigInv
<1> DEFINE doc == ConfigFile("doc", Updated(global.keys, u[1], u[2]))
<1>1. global.keys \in Keys /\ (global.kind # "doc" => global.keys = NoKeys)
  BY DEF ConfigTyped, Files
<1>2. doc \in Files
  BY <1>1, DraftFits DEF ConfigFile, Files
<1>3. writer' = [writer EXCEPT ![p] = Writer("temp", doc)] /\ UNCHANGED <<global, project, environ, byhand, temp>>
  BY DEF ReadExisting
<1>4. ConfigTyped'
  BY <1>2, <1>3 DEF ConfigTyped, Writer, Busy
<1>5. UpdatesKeepTheRest'
  BY <1>3 DEF UpdatesKeepTheRest
<1>6. byhand.kind # "broken"
  BY DEF ReadExisting, UpdatesKeepTheRest
<1>7. HoldsByHand(doc)
  BY <1>1, DraftFits DEF UpdatesKeepTheRest, HoldsByHand, ConfigFile, Written
<1>8. writer'[p].at = "temp" /\ writer'[p].doc = doc /\ \A q \in Programs \ {p} : writer'[q] = writer[q]
  BY <1>3 DEF ConfigTyped, Writer
<1>9. DraftsKeep'
  BY <1>3, <1>6, <1>7, <1>8 DEF DraftsKeep, ConfigFile, HoldsByHand
<1> QED
  BY <1>4, <1>5, <1>9

LEMMA CreateTempKeeps ==
    ASSUME ConfigInv, NEW p \in Programs, CreateTemp(p)
    PROVE  ConfigInv'
<1> USE DEF ConfigInv
<1>1. ConfigTyped'
  BY NoFiles DEF CreateTemp, ConfigTyped, Busy
<1>2. UpdatesKeepTheRest' /\ DraftsKeep'
  BY DEF CreateTemp, UpdatesKeepTheRest, ConfigTyped, DraftsKeep, HoldsByHand, Busy
<1> QED
  BY <1>1, <1>2

LEMMA FillTempKeeps ==
    ASSUME ConfigInv, NEW p \in Programs, FillTemp(p)
    PROVE  ConfigInv'
<1> USE DEF ConfigInv
<1>1. ConfigTyped'
  BY DEF FillTemp, ConfigTyped, Busy
<1>2. UpdatesKeepTheRest' /\ DraftsKeep'
  BY DEF FillTemp, UpdatesKeepTheRest, ConfigTyped, DraftsKeep, HoldsByHand, Busy
<1> QED
  BY <1>1, <1>2

LEMMA RenameKeeps ==
    ASSUME ConfigInv, NEW p \in Programs, Rename(p)
    PROVE  ConfigInv'
<1> USE DEF ConfigInv
<1>1. ConfigTyped'
  BY NoFiles DEF Rename, ConfigTyped, Writer, Busy
<1>2. global' = writer[p].doc /\ byhand.kind # "broken" /\ writer[p].doc.kind = "doc" /\ HoldsByHand(writer[p].doc)
  BY DEF Rename, DraftsKeep, Busy
<1>3. UpdatesKeepTheRest'
  BY <1>2 DEF Rename, UpdatesKeepTheRest, HoldsByHand, Written
<1>4. DraftsKeep'
  BY DEF Rename, ConfigTyped, DraftsKeep, HoldsByHand, Busy, Writer
<1> QED
  BY <1>1, <1>3, <1>4

LEMMA GiveUpKeeps ==
    ASSUME ConfigInv, NEW p \in Programs, GiveUp(p) \/ Respawn(p)
    PROVE  ConfigInv'
<1> USE DEF ConfigInv
<1>1. ConfigTyped'
  BY NoFiles DEF GiveUp, Respawn, ConfigTyped, Writer, Busy
<1>2. UpdatesKeepTheRest' /\ DraftsKeep'
  BY DEF GiveUp, Respawn, ConfigTyped, UpdatesKeepTheRest, DraftsKeep, HoldsByHand, Busy, Writer
<1> QED
  BY <1>1, <1>2

LEMMA ConfigSteps == ConfigInv /\ ConfigNext => ConfigInv'
<1> SUFFICES ASSUME ConfigInv, ConfigNext PROVE ConfigInv'
  OBVIOUS
<1>1. global \in Files /\ project \in Files
  BY DEF ConfigInv, ConfigTyped
<1>2. ASSUME NEW s \in Settings, EditGlobal(Set(global, s)) \/ EditProject(Set(project, s)) \/ Export(s)
      PROVE  ConfigInv'
  <2>1. Set(global, s) \in Files /\ Set(project, s) \in Files /\ Set(global, s).kind # "partial"
    BY <1>1, HandFiles DEF Set, ConfigFile
  <2> QED
    BY <1>2, <2>1, EditGlobalKeeps, EditProjectKeeps, ExportKeeps
<1>3. ASSUME EditGlobal(ConfigFile("broken", NoKeys)) \/ EditProject(ConfigFile("broken", NoKeys))
      PROVE  ConfigInv'
  <2>1. ConfigFile("broken", NoKeys) \in Files /\ ConfigFile("broken", NoKeys).kind # "partial"
    BY NoFiles DEF ConfigFile
  <2> QED
    BY <1>3, <2>1, EditGlobalKeeps, EditProjectKeeps
<1>4. ASSUME NEW p \in Programs, \E u \in Updates : ReadExisting(p, u[1], u[2])
      PROVE  ConfigInv'
  BY <1>4, ReadExistingKeeps
<1>5. ASSUME NEW p \in Programs, CreateTemp(p) \/ FillTemp(p) \/ Rename(p) \/ GiveUp(p) \/ Respawn(p)
      PROVE  ConfigInv'
  BY <1>5, CreateTempKeeps, FillTempKeeps, RenameKeeps, GiveUpKeeps
<1> QED
  BY <1>2, <1>3, <1>4, <1>5 DEF ConfigNext

-----------------------------------------------------------------------------
(* Loading the configuration *)

Layer == {"global", "project", "env"}

Loads == [config : [Fields -> Nat], sources : [ConfigSources -> Layer \cup {"builtin"}],
          pending : SUBSET (Layer \X (Names \cup {"file"}))]

LEMMA LoadStarts == Unloaded \in Loads
BY DEF Unloaded, Loads, builtin

(* A value that is taken is a number. *)
LEMMA TakenIsNumber ==
    ASSUME NEW layer, NEW config, NEW f, NEW raw \in Raw, Takes(layer, config, f, raw)
    PROVE  Value(f, raw) \in Nat
BY DEF Takes, parse_setting, Value, Raw

LEMMA KeyIsRaw ==
    ASSUME NEW keys \in Keys
    PROVE  DOMAIN keys \subseteq Names /\ \A f \in DOMAIN keys : keys[f] \in Raw
BY DEF Keys

(* What a layer does to what was loaded below it. *)
LEMMA Overlay ==
    ASSUME NEW layer \in Layer, NEW keys \in Keys, NEW l \in Loads
    PROVE  LET m == apply_overlay(layer, keys, l)
           IN /\ m \in Loads
              /\ m.config = [f \in Fields |-> IF f \in DOMAIN keys /\ Takes(layer, l.config, f, keys[f])
                                             THEN Value(f, keys[f]) ELSE l.config[f]]
              /\ m.sources = [f \in ConfigSources |-> IF f \in DOMAIN keys /\ Takes(layer, l.config, f, keys[f])
                                                     THEN layer ELSE l.sources[f]]
              /\ m.pending = l.pending \cup
                             {<<layer, f>> : f \in {g \in DOMAIN keys : Warns(layer, l.config, g, keys[g])}}
<1> DEFINE taken(f) == f \in DOMAIN keys /\ Takes(layer, l.config, f, keys[f])
           config == [f \in Fields |-> IF taken(f) THEN Value(f, keys[f]) ELSE l.config[f]]
           sources == [f \in ConfigSources |-> IF taken(f) THEN layer ELSE l.sources[f]]
           new == {<<layer, f>> : f \in {g \in DOMAIN keys : Warns(layer, l.config, g, keys[g])}}
           m == apply_overlay(layer, keys, l)
<1>1. m = [l EXCEPT !.config = config, !.sources = sources, !.pending = l.pending \cup new]
  BY DEF apply_overlay, Loads
<1>2. config \in [Fields -> Nat]
  <2> SUFFICES ASSUME NEW f \in Fields PROVE (IF taken(f) THEN Value(f, keys[f]) ELSE l.config[f]) \in Nat
    OBVIOUS
  <2>1. taken(f) => Value(f, keys[f]) \in Nat
    BY KeyIsRaw, TakenIsNumber
  <2>2. l.config[f] \in Nat
    BY DEF Loads
  <2> QED
    BY <2>1, <2>2
<1>3. sources \in [ConfigSources -> Layer \cup {"builtin"}]
  BY DEF Loads
<1>4. new \subseteq Layer \X (Names \cup {"file"})
  BY KeyIsRaw
<1>5. l.pending \cup new \in SUBSET (Layer \X (Names \cup {"file"}))
  BY <1>4 DEF Loads
<1> HIDE DEF config, sources, new
<1>6. m \in Loads /\ m.config = config /\ m.sources = sources /\ m.pending = l.pending \cup new
  BY <1>1, <1>2, <1>3, <1>5 DEF Loads
<1> QED
  BY <1>6 DEF config, sources, new

(* A file is not there, is laid over what was loaded, or is reported. *)
LEMMA FileOverlay ==
    ASSUME NEW layer \in {"global", "project"}, NEW file \in Files, NEW l \in Loads
    PROVE  LET m == apply_file_overlay(layer, file, l)
           IN /\ m \in Loads
              /\ \/ m = l /\ file.kind = "missing"
                 \/ m = apply_overlay(layer, file.keys, l) /\ file.kind = "doc"
                 \/ m.config = l.config /\ m.sources = l.sources /\ m.pending = l.pending \cup {<<layer, "file">>}
<1> DEFINE read == read_config_file(file)
           m == apply_file_overlay(layer, file, l)
<1>1. CASE read.kind = "missing"
  <2>1. m = l /\ file.kind = "missing"
    BY <1>1 DEF apply_file_overlay, read_config_file, ConfigFile
  <2> QED
    BY <2>1
<1>2. CASE read.kind = "doc"
  <2>1. file.keys \in Keys /\ layer \in Layer
    BY DEF Files, Layer
  <2>2. m = apply_overlay(layer, file.keys, l) /\ file.kind = "doc"
    BY <1>2 DEF apply_file_overlay, read_config_file, ConfigFile
  <2>3. apply_overlay(layer, file.keys, l) \in Loads
    BY <2>1, Overlay
  <2> QED
    BY <2>2, <2>3
<1>3. CASE read.kind \notin {"missing", "doc"}
  <2>1. m = [l EXCEPT !.pending = @ \cup {<<layer, "file">>}]
    BY <1>3 DEF apply_file_overlay
  <2>2. {<<layer, "file">>} \subseteq Layer \X (Names \cup {"file"})
    BY DEF Layer
  <2> QED
    BY <2>1, <2>2 DEF Loads
<1> QED
  BY <1>1, <1>2, <1>3

(* What is not widening allows no more, and a value allows no more than itself. *)
LEMMA NotWidening ==
    ASSUME NEW f \in Guarded, NEW v \in Nat, NEW w \in Nat
    PROVE  /\ ~Widening(f, v, w) => NoWider(f, v, w)
           /\ NoWider(f, v, v)
<1>1. CASE f = "mode"
  BY <1>1 DEF Widening, NoWider
<1>2. CASE f = "turn_steps"
  BY <1>2 DEF Widening, NoWider
<1>3. CASE f = "enabled"
  BY <1>3 DEF Widening, NoWider
<1>4. CASE f \in {"network", "default_mode"}
  BY <1>4 DEF Widening, NoWider
<1> QED
  BY <1>1, <1>2, <1>3, <1>4 DEF Guarded

(* What the project's file may not say, whatever was loaded before it. *)
Refused(before, f, raw) ==
    \/ raw = Odd
    \/ f \in Guarded /\ parse_setting(raw) /\ ~NoWider(f, raw, before[f])
    \/ f \in OwnerOnly /\ Value(f, raw) # Blank

LEMMA RefusedWarns ==
    ASSUME NEW l \in Loads, NEW f \in Names, NEW raw \in Raw, f \notin Fields \/ Refused(l.config, f, raw)
    PROVE  Warns("project", l.config, f, raw)
<1>1. CASE f \notin Fields
  BY <1>1 DEF Warns, Takes
<1>2. CASE raw = Odd
  BY <1>2 DEF Warns, Takes, parse_setting, Value, Odd, Blank
<1>3. CASE f \in Guarded /\ parse_setting(raw) /\ ~NoWider(f, raw, l.config[f])
  <2>1. f \in Fields /\ Value(f, raw) = raw
    BY <1>3 DEF Value, Lists, Guarded, Fields, FreeText, Spelled, Typed
  <2>2. raw \in Nat /\ l.config[f] \in Nat
    BY <1>3, <2>1 DEF parse_setting, Raw, Loads
  <2>3. Widening(f, raw, l.config[f])
    BY <1>3, <2>2, NotWidening
  <2> QED
    BY <1>3, <2>1, <2>3 DEF Warns, Takes, parse_setting
<1>4. CASE f \in OwnerOnly /\ Value(f, raw) # Blank
  BY <1>4 DEF Warns, Takes
<1> QED
  BY <1>1, <1>2, <1>3, <1>4 DEF Refused

(* The project's file over what was loaded before it. *)
LEMMA ProjectOverlay ==
    ASSUME NEW file \in Files, NEW l \in Loads
    PROVE  LET m == apply_file_overlay("project", file, l)
           IN /\ m \in Loads
              /\ \A f \in OwnerOnly : m.config[f] = l.config[f]
              /\ \A f \in Guarded : NoWider(f, m.config[f], l.config[f])
              /\ \A f \in ConfigSources \cap OwnerOnly : m.sources[f] = l.sources[f]
              /\ l.pending \subseteq m.pending
              /\ \A f \in DOMAIN file.keys :
                    f \notin Fields \/ Refused(l.config, f, file.keys[f])
                    => {<<"project", f>>, <<"project", "file">>} \cap m.pending # {}
<1> DEFINE m == apply_file_overlay("project", file, l)
<1>1. OwnerOnly \subseteq Fields /\ Guarded \subseteq Fields
  BY DEF OwnerOnly, Guarded, Fields, FreeText, Spelled, Typed
<1>2. \A f \in Fields : l.config[f] \in Nat
  BY DEF Loads
<1>3. \A f \in Guarded : NoWider(f, l.config[f], l.config[f])
  BY <1>1, <1>2, NotWidening
<1>4. CASE m = l /\ file.kind = "missing"
  <2>1. DOMAIN file.keys = {}
    BY <1>4, NoKeysSet DEF Files
  <2> QED
    BY <1>3, <1>4, <2>1
<1>5. CASE m = apply_overlay("project", file.keys, l) /\ file.kind = "doc"
  <2>1. file.keys \in Keys /\ "project" \in Layer
    BY DEF Files, Layer
  <2> DEFINE keys == file.keys
             taken(f) == f \in DOMAIN keys /\ Takes("project", l.config, f, keys[f])
  <2>2. /\ m \in Loads
        /\ m.config = [f \in Fields |-> IF taken(f) THEN Value(f, keys[f]) ELSE l.config[f]]
        /\ m.sources = [f \in ConfigSources |-> IF taken(f) THEN "project" ELSE l.sources[f]]
        /\ m.pending = l.pending \cup {<<"project", f>> : f \in {g \in DOMAIN keys : Warns("project", l.config, g, keys[g])}}
    BY <1>5, <2>1, Overlay
  <2>3. \A f : taken(f) => f \notin OwnerOnly /\ ~Widening(f, keys[f], l.config[f])
    BY DEF Takes
  <2>4. ASSUME NEW f \in Guarded PROVE NoWider(f, m.config[f], l.config[f])
    <3>1. CASE taken(f)
      <4>1. Value(f, keys[f]) = keys[f]
        BY DEF Value, Lists, Guarded
      <4>2. keys[f] \in Nat
        BY <2>1, <3>1, <4>1, KeyIsRaw, TakenIsNumber
      <4>3. m.config[f] = keys[f]
        BY <1>1, <2>2, <3>1, <4>1
      <4> QED
        BY <1>1, <1>2, <2>3, <3>1, <4>2, <4>3, NotWidening
    <3>2. CASE ~taken(f)
      BY <1>1, <1>3, <2>2, <3>2
    <3> QED
      BY <3>1, <3>2
  <2>5. ASSUME NEW f \in DOMAIN keys, f \notin Fields \/ Refused(l.config, f, keys[f])
        PROVE  <<"project", f>> \in m.pending
    <3>1. Warns("project", l.config, f, keys[f])
      BY <2>1, <2>5, KeyIsRaw, RefusedWarns
    <3> QED
      BY <2>2, <3>1
  <2> QED
    BY <1>1, <2>2, <2>3, <2>4, <2>5
<1>6. CASE m.config = l.config /\ m.sources = l.sources /\ m.pending = l.pending \cup {<<"project", "file">>}
  BY <1>3, <1>6, FileOverlay
<1> QED
  BY <1>4, <1>5, <1>6, FileOverlay

(* The environment sets none of the guarded settings, and what it sets and   *)
(* says does not depend on what was loaded before it.                        *)
LEMMA EnvOverlay ==
    ASSUME NEW env \in Keys, DOMAIN env \subseteq EnvFields, NEW l \in Loads
    PROVE  LET m == apply_env_overlay(env, l)
               set(f) == f \in DOMAIN env /\ f \in Fields /\ parse_setting(Value(f, env[f]))
           IN /\ m.config = [f \in Fields |-> IF set(f) THEN Value(f, env[f]) ELSE l.config[f]]
              /\ m.sources = [f \in ConfigSources |-> IF set(f) THEN "env" ELSE l.sources[f]]
              /\ m.pending = l.pending \cup
                     {<<"env", f>> : f \in {g \in DOMAIN env : (g \in Fields => Value(g, env[g]) # Blank) /\ ~set(g)}}
              /\ \A f \in Guarded : m.config[f] = l.config[f]
<1>1. "env" \in Layer
  BY DEF Layer
<1>2. \A f \in DOMAIN env : Takes("env", l.config, f, env[f]) <=> f \in Fields /\ parse_setting(Value(f, env[f]))
  BY DEF Takes
<1>3. \A f \in DOMAIN env : f \notin Guarded
  BY DEF EnvFields, Guarded
<1>4. Guarded \subseteq Fields
  BY DEF Guarded, Fields, FreeText, Spelled, Typed
<1> QED
  BY <1>1, <1>2, <1>3, <1>4, Overlay DEF apply_env_overlay, Warns

LEMMA OnlyTightens == ConfigInv => ProjectOnlyTightens
<1> SUFFICES ASSUME ConfigInv PROVE ProjectOnlyTightens
  OBVIOUS
<1> DEFINE below == apply_file_overlay("global", global, Unloaded)
           upto == apply_file_overlay("project", project, below)
           with == load_with(global, project, environ)
           without == load_with(global, MissingFile, environ)
<1>1. global \in Files /\ project \in Files /\ environ \in Keys /\ DOMAIN environ \subseteq EnvFields
  BY DEF ConfigInv, ConfigTyped
<1>2. below \in Loads /\ \A f \in ConfigSources : below.sources[f] # "project"
  <2>1. \A f \in ConfigSources : Unloaded.sources[f] = "builtin"
    BY DEF Unloaded
  <2>2. global.keys \in Keys /\ "global" \in Layer
    BY <1>1 DEF Files, Layer
  <2>3. CASE below = Unloaded
    BY <2>1, <2>3, LoadStarts
  <2>4. CASE below = apply_overlay("global", global.keys, Unloaded)
    <3> DEFINE taken(f) == f \in DOMAIN global.keys /\ Takes("global", Unloaded.config, f, global.keys[f])
               over == apply_overlay("global", global.keys, Unloaded)
    <3>1. over \in Loads /\ over.sources = [f \in ConfigSources |-> IF taken(f) THEN "global" ELSE Unloaded.sources[f]]
      BY <2>2, LoadStarts, Overlay
    <3> HIDE DEF over, below, taken
    <3>2. below = over
      BY <2>4 DEF over
    <3> QED
      BY <2>1, <3>1, <3>2
  <2>5. CASE below.sources = Unloaded.sources
    BY <1>1, <2>1, <2>5, LoadStarts, FileOverlay
  <2> QED
    BY <1>1, <2>3, <2>4, <2>5, LoadStarts, FileOverlay
<1>3. with = apply_env_overlay(environ, upto) /\ without = apply_env_overlay(environ, below)
  BY DEF load_with, apply_file_overlay, read_config_file, MissingFile, ConfigFile
<1> HIDE DEF below, upto, with, without
<1>4. /\ upto \in Loads
      /\ \A f \in OwnerOnly : upto.config[f] = below.config[f]
      /\ \A f \in Guarded : NoWider(f, upto.config[f], below.config[f])
      /\ \A f \in ConfigSources \cap OwnerOnly : upto.sources[f] = below.sources[f]
      /\ below.pending \subseteq upto.pending
      /\ \A f \in DOMAIN project.keys :
            f \notin Fields \/ Refused(below.config, f, project.keys[f])
            => {<<"project", f>>, <<"project", "file">>} \cap upto.pending # {}
  BY <1>1, <1>2, ProjectOverlay DEF upto
<1>5. OwnerOnly \subseteq Fields
  BY DEF OwnerOnly, Fields, FreeText, Spelled, Typed
<1> DEFINE set(f) == f \in DOMAIN environ /\ f \in Fields /\ parse_setting(Value(f, environ[f]))
<1>a. /\ with.config = [f \in Fields |-> IF set(f) THEN Value(f, environ[f]) ELSE upto.config[f]]
      /\ with.sources = [f \in ConfigSources |-> IF set(f) THEN "env" ELSE upto.sources[f]]
  BY <1>1, <1>3, <1>4, EnvOverlay
<1>b. without.config = [f \in Fields |-> IF set(f) THEN Value(f, environ[f]) ELSE below.config[f]]
  BY <1>1, <1>2, <1>3, EnvOverlay
<1>6. \A f \in OwnerOnly : with.config[f] = without.config[f]
  BY <1>4, <1>5, <1>a, <1>b
<1>7. \A f \in Guarded : NoWider(f, with.config[f], without.config[f])
  BY ZenonT(40), <1>1, <1>2, <1>3, <1>4, EnvOverlay
<1>8. \A f \in ConfigSources \cap OwnerOnly : with.sources[f] # "project"
  BY <1>2, <1>4, <1>a
<1>9. without.pending \subseteq with.pending /\ upto.pending \subseteq with.pending
  BY ZenonT(40), <1>1, <1>2, <1>3, <1>4, EnvOverlay
<1> QED
  BY <1>4, <1>6, <1>7, <1>8, <1>9 DEF ProjectOnlyTightens, Refused, with, without, below

-----------------------------------------------------------------------------
(* What another part does leaves the configuration alone. *)
LEMMA ConfigKept == ConfigInv /\ [MCNext]_<<part, fileVars, patchVars, configVars, gitVars, benchVars, sandboxVars>> => ConfigInv'
<1> SUFFICES ASSUME ConfigInv, [MCNext]_<<part, fileVars, patchVars, configVars, gitVars, benchVars, sandboxVars>>
             PROVE  ConfigInv'
  OBVIOUS
<1>1. CASE ConfigNext
  BY <1>1, ConfigSteps
<1>2. CASE UNCHANGED configVars
  BY <1>2 DEF configVars, ConfigInv, ConfigTyped, UpdatesKeepTheRest, DraftsKeep, HoldsByHand
<1> QED
  BY <1>1, <1>2 DEF MCNext

LEMMA ConfigAlways == MCSpec => []ConfigInv
<1>1. MCInit => ConfigInv
  BY ConfigStarts DEF MCInit
<1> QED
  BY <1>1, ConfigKept, PTL DEF MCSpec

(* Whatever the user's files, the environment and the project's file say,    *)
(* and however they change, the project's file only tightens. (load_with)    *)
THEOREM ProjectsOnlyTighten == MCSpec => []ProjectOnlyTightens
<1>1. ConfigInv => ProjectOnlyTightens
  BY OnlyTightens
<1> QED
  BY <1>1, ConfigAlways, PTL

(* However many programs write the global file at once, fail or die, it is   *)
(* whole, keeps what was set by hand, and is left alone when it cannot be    *)
(* parsed. (write_global_config_update)                                      *)
THEOREM UpdatesKeep == MCSpec => []UpdatesKeepTheRest
<1>1. ConfigInv => UpdatesKeepTheRest
  BY DEF ConfigInv
<1> QED
  BY <1>1, ConfigAlways, PTL

-----------------------------------------------------------------------------
(* The snapshot of a working tree *)

Views == Entries \cup {Empty}
Shown == Views \cup {[kind |-> "link", what |-> 0]}

(* The steps of a copy, each of one path. *)
Copying == {"copy", "open", "ask"}

GitStates ==
    [pc : {"none", "index", "config", "copied", "turn", "shown", "failed"} \cup Copying,
     use : {"none", "patch", "diff", "extract"},
     head : [Path -> Recorded], index : [Path -> Recorded], baseline : [Path -> Recorded],
     symlinks : BOOLEAN, cached : [Path -> Recorded], unchanged : SUBSET Path,
     view : [Path -> Views], links : [Path -> Recorded], left : SUBSET Path, kind : {"none", "file", "link", "repo"},
     copied : Nat, shows : [Path -> Shown], untracked : SUBSET Path]

GitTyped ==
    /\ work \in [Path -> Entries]
    /\ repo \in [head : [Path -> Recorded], index : [Path -> Recorded], symlinks : Settled \cup {"other"}]
    /\ git \in GitStates
    /\ seen \in [Path -> SUBSET Entries]

(* What a path's entry e has become in the copy. *)
CopyOf(g, p, e) ==
    /\ g.view[p] = (CASE e.kind = "none" -> Nothing
                     [] e.kind = "link" -> IF p \in Control THEN Empty ELSE [kind |-> "file", what |-> e.what]
                     [] OTHER -> e)
    /\ g.cached[p] = (CASE e.kind = "link" /\ g.index[p] # Nothing -> e
                       [] e.kind = "file" /\ g.index[p].kind = "link" /\ g.symlinks ->
                              [kind |-> "file", what |-> g.index[p].what]
                       [] OTHER -> g.index[p])
    /\ g.links[p] = IF e.kind = "link" THEN e ELSE Nothing
    /\ p \in g.unchanged <=> e.kind = "link" /\ p \in Control /\ g.index[p] # Nothing

(* A nested repository was there. *)
Nested(p) == \E x \in seen[p] : x.kind = "repo" /\ x # Folder

(* A path that has still to be copied is as it was restored, or a repository *)
(* whose commit is asked for; any other is a copy of what it was at some     *)
(* moment, a repository that was replaced, or never was one to copy.         *)
PathCopied(p) ==
    \/ p \in git.left /\ ~Reading("ask", p) /\ CopyOf(git, p, Nothing)
    \/ Reading("ask", p) /\ CopyOf(git, p, Folder) /\ Nested(p)
    \/ p \notin git.left /\ \E e \in seen[p] : e.kind # "fifo" /\ CopyOf(git, p, e)
    \/ /\ p \notin git.left /\ \E e \in {Folder} \cup Is("repo") : CopyOf(git, p, e)
       /\ \E x, y \in seen[p] : x.kind = "repo" /\ x # Folder /\ y # x
    \/ /\ p \notin git.left /\ git.index[p] = Nothing /\ CopyOf(git, p, Nothing)
       /\ \E e \in seen[p] : e \in {Special, Folder}

CopyHolds ==
    /\ git.pc \in Copying \cup {"copied"} => \A p \in Path : PathCopied(p)
    /\ git.pc \in Copying => \A p \in Path : work[p] \in seen[p]
    /\ git.pc \in Copying \cup {"copied", "turn", "shown"} => git.baseline = Baseline(git.head, git.index)
    /\ git.pc = "open" => git.kind \in {"file", "link", "repo"}
    /\ git.pc = "copied" => git.left = {}

GitInv == GitTyped /\ CopyHolds /\ ChangesAreTheWork

(* The kinds of entry. *)
LEMMA EntryKinds ==
    ASSUME NEW e \in Entries
    PROVE  /\ e.kind \in {"none", "file", "link", "repo", "fifo"}
           /\ e.kind = "none" => e = Nothing
           /\ e.kind = "fifo" => e = Special
           /\ e.kind = "repo" => e = Folder \/ e \in Is("repo")
           /\ e.kind = "file" => e \in Is("file")
           /\ e.kind = "link" => e \in Is("link")
<1>1. CASE e \in Is("file") \cup Is("link") \cup Is("repo")
  BY <1>1 DEF Is
<1>2. CASE e \in {Nothing, Special, Folder}
  BY <1>2 DEF Nothing, Special, Folder
<1> QED
  BY <1>1, <1>2 DEF Entries, Recorded

LEMMA NothingTypes ==
    /\ Nothing \in Recorded /\ Nothing \in Views /\ Recorded \subseteq Views /\ Recorded \subseteq Entries
    /\ NoTree \in [Path -> Recorded] /\ NoTree \in [Path -> Views] /\ NoTree \in [Path -> Shown]
BY DEF Recorded, Views, Shown, Entries, NoTree

LEMMA FileOfLink ==
    ASSUME NEW e \in Recorded, e.kind = "link"
    PROVE  [kind |-> "file", what |-> e.what] \in Recorded
<1>1. e \in Is("link")
  BY EntryKinds, NothingTypes
<1> QED
  BY <1>1 DEF Is, Recorded

LEMMA NoGitFits == NoGit \in GitStates /\ NoGit.pc = "none" /\ Dropped \in GitStates /\ Dropped.pc = "failed"
<1>1. NoTree \in [Path -> Recorded] /\ NoTree \in [Path -> Views] /\ NoTree \in [Path -> Shown]
  BY NothingTypes
<1> HIDE DEF NoTree
<1>2. NoGit \in GitStates /\ NoGit.pc = "none"
  BY <1>1 DEF NoGit, GitStates
<1> QED
  BY <1>2 DEF Dropped, GitStates

LEMMA GitStarts == GitOn(NoTree, NoTree, NoTree, "diff", "unset") \/ GitInit => GitInv
<1>1. ASSUME NEW tree \in [Path -> Entries], NEW index \in [Path -> Recorded], NEW head \in [Path -> Recorded],
             NEW use \in {"patch", "diff"}, NEW symlinks \in Settled \cup {"other"},
             GitOn(tree, index, head, use, symlinks)
      PROVE  GitInv
  <2>1. git \in GitStates /\ git.pc = "none"
    BY <1>1, NoGitFits DEF GitOn, GitStates
  <2>2. GitTyped
    BY <1>1, <2>1 DEF GitOn, GitTyped
  <2> QED
    BY <2>1, <2>2 DEF GitInv, CopyHolds, Copying, ChangesAreTheWork
<1>2. CASE GitOn(NoTree, NoTree, NoTree, "diff", "unset")
  <2>1. NoTree \in [Path -> Entries] /\ NoTree \in [Path -> Recorded]
    BY NothingTypes DEF NoTree
  <2>2. "unset" \in Settled \cup {"other"}
    BY DEF Settled
  <2> QED
    BY <1>1, <1>2, <2>1, <2>2
<1>3. CASE GitInit
  <2>1. PICK head \in Commits, symlinks \in Settled \cup {"other"} :
            LET tree == [p \in Path |-> CheckedOut(head[p], symlinks)]
            IN \/ GitOn(tree, head, head, "patch", symlinks)
               \/ \E index \in {head, NoTree} : GitOn(tree, index, head, "diff", symlinks)
    BY <1>3 DEF GitInit
  <2> DEFINE tree == [p \in Path |-> CheckedOut(head[p], symlinks)]
  <2>2. head \in [Path -> Recorded] /\ NoTree \in [Path -> Recorded]
    BY IsolatedGitAssumption, NothingTypes
  <2>3. tree \in [Path -> Entries]
    <3> SUFFICES ASSUME NEW p \in Path PROVE CheckedOut(head[p], symlinks) \in Entries
      OBVIOUS
    <3>1. head[p] \in Recorded
      BY <2>2
    <3> QED
      BY <3>1, FileOfLink, NothingTypes DEF CheckedOut
  <2> HIDE DEF tree
  <2>4. CASE GitOn(tree, head, head, "patch", symlinks)
    BY <1>1, <2>2, <2>3, <2>4
  <2>5. ASSUME NEW index \in {head, NoTree}, GitOn(tree, index, head, "diff", symlinks)
        PROVE  GitInv
    BY <1>1, <2>2, <2>3, <2>5
  <2> QED
    BY <2>1, <2>4, <2>5 DEF tree
<1> QED
  BY <1>2, <1>3

(* Outside the copy and what is made of it there is nothing to show. *)
LEMMA NothingShown ==
    ASSUME git'.pc \in {"none", "index", "config", "failed"}
    PROVE  CopyHolds' /\ ChangesAreTheWork'
BY DEF CopyHolds, ChangesAreTheWork, Copying

LEMMA FailKeeps ==
    ASSUME GitInv, Fails, UNCHANGED <<work, repo>>, seen' \in [Path -> SUBSET Entries]
    PROVE  GitInv'
<1>1. git' \in GitStates /\ git'.pc = "failed"
  BY NoGitFits DEF Fails
<1>2. GitTyped'
  BY <1>1 DEF GitInv, GitTyped
<1> QED
  BY <1>1, <1>2, NothingShown DEF GitInv

LEMMA ReadKeeps ==
    ASSUME GitInv, ReadHead \/ ReadIndex
    PROVE  GitInv'
<1>1. CASE Fails
  BY <1>1, FailKeeps DEF ReadHead, ReadIndex, GitInv, GitTyped
<1>2. CASE git' = [git EXCEPT !.pc = "index", !.head = repo.head]
  <2>1. git' \in GitStates /\ git'.pc = "index"
    BY <1>2 DEF GitInv, GitTyped, GitStates
  <2>2. GitTyped'
    BY <2>1 DEF ReadHead, ReadIndex, GitInv, GitTyped
  <2> QED
    BY <2>1, <2>2, NothingShown DEF GitInv
<1>3. CASE git' = [git EXCEPT !.pc = "config", !.index = repo.index]
  <2>1. git' \in GitStates /\ git'.pc = "config"
    BY <1>3 DEF GitInv, GitTyped, GitStates
  <2>2. GitTyped'
    BY <2>1 DEF ReadHead, ReadIndex, GitInv, GitTyped
  <2> QED
    BY <2>1, <2>2, NothingShown DEF GitInv
<1> QED
  BY <1>1, <1>2, <1>3 DEF ReadHead, ReadIndex

(* A copy begins with every path restored and, but for what is no more than  *)
(* a directory, a FIFO or nothing, still to be copied.                       *)
LEMMA CopyBegins ==
    ASSUME GitTyped, NEW g \in GitStates, g.baseline = Baseline(g.head, g.index),
           git' = BeginCopy(g), seen' = [p \in Path |-> {work[p]}], UNCHANGED <<work, repo>>
    PROVE  GitInv'
<1> DEFINE left == Listed \cup {p \in Path : g.index[p] # Nothing}
<1>1. left \in SUBSET Path
  BY DEF Listed
<1>2. git' = [g EXCEPT !.cached = g.index, !.unchanged = {}, !.links = NoTree,
                       !.pc = "copy", !.view = NoTree, !.copied = 0, !.left = left]
  BY DEF BeginCopy, restore_index, GitStates
<1> HIDE DEF left
<1>3. git' \in GitStates
  <2>1. g.index \in [Path -> Recorded] /\ NoTree \in [Path -> Recorded] /\ NoTree \in [Path -> Views]
    BY NothingTypes DEF GitStates
  <2> HIDE DEF NoTree
  <2>2. git' = [pc |-> "copy", use |-> g.use, head |-> g.head, index |-> g.index, baseline |-> g.baseline,
                symlinks |-> g.symlinks, cached |-> g.index, unchanged |-> {}, view |-> NoTree, links |-> NoTree,
                left |-> left, kind |-> g.kind, copied |-> 0, shows |-> g.shows, untracked |-> g.untracked]
    BY <1>2 DEF GitStates
  <2> QED
    BY <1>1, <2>1, <2>2 DEF GitStates, Copying
<1>4. /\ git'.pc = "copy" /\ git'.left = left /\ git'.view = NoTree /\ git'.cached = g.index /\ git'.links = NoTree
      /\ git'.unchanged = {} /\ git'.index = g.index /\ git'.head = g.head /\ git'.baseline = g.baseline
  BY <1>2 DEF GitStates
<1>5. GitTyped'
  BY <1>3 DEF GitTyped
<1>6. ASSUME NEW p \in Path PROVE PathCopied(p)'
  <2>1. CopyOf(git', p, Nothing)
    BY <1>4 DEF CopyOf, NoTree, Nothing
  <2>2. CASE p \in left
    BY <1>4, <2>1, <2>2 DEF PathCopied, Reading
  <2>3. CASE p \notin left
    <3>1. git'.index[p] = Nothing /\ work[p] \in {Nothing, Special, Folder} /\ seen'[p] = {work[p]}
      BY <1>4, <2>3 DEF left, Listed
    <3>2. CASE work[p] = Nothing
      BY <1>4, <2>1, <2>3, <3>1, <3>2 DEF PathCopied, Reading, Nothing
    <3>3. CASE work[p] \in {Special, Folder}
      BY <1>4, <2>1, <2>3, <3>1, <3>3 DEF PathCopied
    <3> QED
      BY <3>1, <3>2, <3>3
  <2> QED
    BY <2>2, <2>3
<1>7. CopyHolds'
  BY <1>4, <1>6 DEF CopyHolds, Copying
<1>8. ChangesAreTheWork'
  BY <1>4 DEF ChangesAreTheWork
<1> QED
  BY <1>5, <1>7, <1>8 DEF GitInv

LEMMA SnapshotKeeps ==
    ASSUME GitInv, new_in_pinned
    PROVE  GitInv'
<1> DEFINE g == [git EXCEPT !.baseline = Baseline(git.head, git.index), !.symlinks = content_config(repo.symlinks)]
<1>1. seen' \in [Path -> SUBSET Entries]
  BY DEF new_in_pinned, GitInv, GitTyped
<1>2. CASE Fails
  BY <1>1, <1>2, FailKeeps DEF new_in_pinned
<1>3. CASE git' = BeginCopy(g)
  <2>1. g \in GitStates /\ g.baseline = Baseline(g.head, g.index)
    BY DEF GitInv, GitTyped, GitStates, Baseline, content_config
  <2> HIDE DEF g
  <2> QED
    BY <1>3, <2>1, CopyBegins DEF new_in_pinned, GitInv
<1> QED
  BY <1>2, <1>3 DEF new_in_pinned

LEMMA ExtractKeeps ==
    ASSUME GitInv, extract_git_diff
    PROVE  GitInv'
<1> DEFINE g == [git EXCEPT !.use = "extract"]
<1>1. g \in GitStates /\ g.baseline = Baseline(g.head, g.index)
  BY DEF GitInv, GitTyped, GitStates, Baseline, extract_git_diff, CopyHolds, Copying
<1> HIDE DEF g
<1> QED
  BY <1>1, CopyBegins DEF extract_git_diff, GitInv, g

(* Copying one entry makes of it what CopyOf says, and leaves every other    *)
(* path alone.                                                               *)
LEMMA CopyOne ==
    ASSUME NEW g \in GitStates, NEW p \in Path, NEW e \in Entries, CopyOf(g, p, Nothing),
           e.kind \in {"file", "link", "repo"}
    PROVE  LET m == Copied(g, p, e)
           IN /\ m \in GitStates
              /\ m.head = g.head /\ m.index = g.index /\ m.baseline = g.baseline
              /\ m.symlinks = g.symlinks /\ m.left = g.left
              /\ CopyOf(m, p, IF e.kind = "repo" THEN Folder ELSE e)
              /\ \A q \in Path \ {p} : /\ m.view[q] = g.view[q] /\ m.cached[q] = g.cached[q]
                                       /\ m.links[q] = g.links[q] /\ (q \in m.unchanged <=> q \in g.unchanged)
<1> DEFINE m == Copied(g, p, e)
<1>1. /\ g.view[p] = Nothing /\ g.cached[p] = g.index[p] /\ g.links[p] = Nothing /\ p \notin g.unchanged
      /\ Nothing.kind = "none"
  BY DEF CopyOf, Nothing
<1>3. CASE e.kind = "link"
  <2> DEFINE tracked == g.index[p] # Nothing
             put == IF p \in Control THEN Empty ELSE [kind |-> "file", what |-> e.what]
             unchanged == IF tracked /\ p \in Control THEN g.unchanged \cup {p} ELSE g.unchanged
             held == IF tracked THEN e ELSE g.cached[p]
  <2>1. e \in Recorded /\ put \in Views /\ unchanged \in SUBSET Path /\ held \in Recorded
    <3>1. e \in Recorded
      BY <1>3, EntryKinds DEF Recorded
    <3>2. put \in Views
      BY <1>3, <3>1, FileOfLink, NothingTypes DEF Views
    <3>3. unchanged \in SUBSET Path /\ held \in Recorded
      BY <3>1 DEF GitStates
    <3> QED
      BY <3>1, <3>2, <3>3
  <2>2. m = [g EXCEPT !.view[p] = put, !.links[p] = e, !.cached[p] = held, !.unchanged = unchanged]
    BY <1>3 DEF Copied, link_entry, GitStates
  <2> HIDE DEF put, unchanged, held
  <2>3. m \in GitStates
    <3> DEFINE v == [g.view EXCEPT ![p] = put]
               k == [g.links EXCEPT ![p] = e]
               c == [g.cached EXCEPT ![p] = held]
    <3>1. v \in [Path -> Views] /\ k \in [Path -> Recorded] /\ c \in [Path -> Recorded]
      BY <2>1 DEF GitStates
    <3>2. m = [g EXCEPT !.view = v, !.links = k, !.cached = c, !.unchanged = unchanged]
      BY <2>2 DEF GitStates
    <3> HIDE DEF v, k, c
    <3> QED
      BY ZenonT(40), <2>1, <3>1, <3>2 DEF GitStates
  <2>4. /\ m.head = g.head /\ m.index = g.index /\ m.baseline = g.baseline
        /\ m.symlinks = g.symlinks /\ m.left = g.left /\ m.unchanged = unchanged
        /\ m.view = [g.view EXCEPT ![p] = put] /\ m.links = [g.links EXCEPT ![p] = e]
        /\ m.cached = [g.cached EXCEPT ![p] = held]
    BY <2>2 DEF GitStates
  <2>5. m.view[p] = put /\ m.links[p] = e /\ m.cached[p] = held
    BY <2>4 DEF GitStates
  <2>6. CopyOf(m, p, e)
    BY <1>1, <1>3, <2>4, <2>5 DEF CopyOf, put, unchanged, held
  <2>7. \A q \in Path \ {p} : /\ m.view[q] = g.view[q] /\ m.cached[q] = g.cached[q]
                             /\ m.links[q] = g.links[q] /\ (q \in m.unchanged <=> q \in g.unchanged)
    BY <2>4 DEF GitStates, unchanged
  <2> QED
    BY <1>3, <2>3, <2>4, <2>6, <2>7
<1>4. CASE e.kind = "file"
  <2> DEFINE held == IF g.index[p].kind = "link" /\ g.symlinks
                      THEN [kind |-> "file", what |-> g.index[p].what] ELSE g.cached[p]
  <2>1. e \in Views /\ g.copied + 1 \in Nat /\ g.index[p] \in Recorded
    BY NothingTypes DEF Views, GitStates
  <2>2. held \in Recorded
    BY <1>1, <2>1, FileOfLink
  <2>3. m = [g EXCEPT !.view[p] = e, !.copied = g.copied + 1, !.cached[p] = held]
    BY <1>4 DEF Copied, cache_entry, GitStates
  <2> HIDE DEF held
  <2>4. m \in GitStates
    <3> DEFINE v == [g.view EXCEPT ![p] = e]
               c == [g.cached EXCEPT ![p] = held]
    <3>1. v \in [Path -> Views] /\ c \in [Path -> Recorded]
      BY <2>1, <2>2 DEF GitStates
    <3>2. m = [g EXCEPT !.view = v, !.copied = g.copied + 1, !.cached = c]
      BY <2>3 DEF GitStates
    <3> HIDE DEF v, c
    <3> QED
      BY ZenonT(40), <2>1, <3>1, <3>2 DEF GitStates
  <2>5. /\ m.head = g.head /\ m.index = g.index /\ m.baseline = g.baseline
        /\ m.symlinks = g.symlinks /\ m.left = g.left /\ m.unchanged = g.unchanged /\ m.links = g.links
        /\ m.view = [g.view EXCEPT ![p] = e] /\ m.cached = [g.cached EXCEPT ![p] = held]
    BY <2>3 DEF GitStates
  <2>6. m.view[p] = e /\ m.cached[p] = held
    BY <2>5 DEF GitStates
  <2>7. CopyOf(m, p, e)
    BY <1>1, <1>4, <2>5, <2>6 DEF CopyOf, held
  <2>8. \A q \in Path \ {p} : m.view[q] = g.view[q] /\ m.cached[q] = g.cached[q]
    BY <2>5 DEF GitStates
  <2> QED
    BY <1>4, <2>4, <2>5, <2>7, <2>8
<1>5. CASE e.kind = "repo"
  <2>1. m = [g EXCEPT !.view[p] = Folder]
    BY <1>5 DEF Copied
  <2>a. [g.view EXCEPT ![p] = Folder] \in [Path -> Views]
    BY DEF GitStates, Views, Entries
  <2>2. m \in GitStates /\ m.view = [g.view EXCEPT ![p] = Folder] /\ m.view[p] = Folder
    BY <2>1, <2>a DEF GitStates
  <2>3. /\ m.head = g.head /\ m.index = g.index /\ m.baseline = g.baseline
        /\ m.symlinks = g.symlinks /\ m.left = g.left /\ m.unchanged = g.unchanged /\ m.links = g.links
        /\ m.cached = g.cached
    BY <2>1 DEF GitStates
  <2>4. CopyOf(m, p, Folder)
    BY <1>1, <2>2, <2>3 DEF CopyOf, Folder
  <2> QED
    BY <1>5, <2>2, <2>3, <2>4 DEF GitStates
<1> QED
  BY <1>3, <1>4, <1>5

(* A step of one path that keeps the snapshot and every other path. *)
LEMMA OnePathMoves ==
    ASSUME GitInv, NEW p \in Path, NEW pc \in Copying, Reading(pc, p), UNCHANGED <<work, repo, seen>>,
           git' \in GitStates, git'.pc \in Copying, git'.head = git.head, git'.index = git.index,
           git'.baseline = git.baseline, git'.symlinks = git.symlinks,
           git'.left \in {git.left, git.left \ {p}}, git'.pc = "ask" => git'.left = git.left,
           git'.pc = "open" => git'.kind \in {"file", "link", "repo"},
           \A q \in Path \ {p} : /\ git'.view[q] = git.view[q] /\ git'.cached[q] = git.cached[q]
                                 /\ git'.links[q] = git.links[q] /\ (q \in git'.unchanged <=> q \in git.unchanged),
           PathCopied(p)'
    PROVE  GitInv'
<1>1. ASSUME NEW q \in Path \ {p} PROVE PathCopied(q)'
  <2>1. p \in Nat /\ q \in Nat /\ p # q /\ p \in git.left /\ \A r \in git.left : p <= r
    BY IsolatedGitAssumption DEF Reading
  <2>2. ~Reading("ask", q)
    BY <2>1 DEF Reading
  <2>3. ~Reading("ask", q)'
    BY <2>1 DEF Reading
  <2>4. \A e : CopyOf(git, q, e) => CopyOf(git', q, e)
    BY DEF CopyOf
  <2>5. PathCopied(q)
    BY DEF GitInv, CopyHolds, Reading
  <2> QED
    BY <2>2, <2>3, <2>4, <2>5 DEF PathCopied
<1>2. CopyHolds'
  BY <1>1 DEF GitInv, CopyHolds, Reading, Copying
<1>3. ChangesAreTheWork' /\ GitTyped'
  BY DEF ChangesAreTheWork, Copying, GitInv, GitTyped
<1> QED
  BY <1>2, <1>3 DEF GitInv

LEMMA InspectKeeps ==
    ASSUME GitInv, NEW p \in Path, inspect(p)
    PROVE  GitInv'
<1>1. git \in GitStates /\ work[p] \in Entries /\ seen \in [Path -> SUBSET Entries]
  BY DEF GitInv, GitTyped
<1>2. /\ Reading("copy", p) /\ git.pc = "copy" /\ "copy" \in Copying /\ p \in git.left
      /\ UNCHANGED <<work, repo, seen>> /\ work[p] \in seen[p] /\ CopyOf(git, p, Nothing)
  BY DEF inspect, Reading, Copying, GitInv, CopyHolds, PathCopied
<1>3. CASE git' = Dropped
  BY <1>1, <1>2, <1>3, FailKeeps DEF Fails
<1>4. CASE work[p].kind = "none" /\ git' = [git EXCEPT !.left = @ \ {p}]
  <2>1. /\ git' \in GitStates /\ git'.pc = "copy" /\ git'.left = git.left \ {p} /\ git'.head = git.head
        /\ git'.index = git.index /\ git'.baseline = git.baseline /\ git'.symlinks = git.symlinks /\ git'.view = git.view
        /\ git'.cached = git.cached /\ git'.links = git.links /\ git'.unchanged = git.unchanged
    BY <1>1, <1>2, <1>4 DEF GitStates
  <2>2. CopyOf(git', p, Nothing) /\ Nothing \in seen'[p] /\ Nothing.kind # "fifo"
    BY <1>1, <1>2, <1>4, <2>1, EntryKinds DEF CopyOf, Nothing
  <2>3. PathCopied(p)'
    BY <2>1, <2>2 DEF PathCopied
  <2> QED
    BY <1>2, <2>1, <2>3, OnePathMoves
<1>5. CASE work[p].kind \in {"file", "link", "repo"} /\ git' = [git EXCEPT !.pc = "open", !.kind = work[p].kind]
  <2>1. /\ git' \in GitStates /\ git'.pc = "open" /\ git'.kind \in {"file", "link", "repo"} /\ git'.left = git.left
        /\ git'.head = git.head /\ git'.index = git.index /\ git'.baseline = git.baseline
        /\ git'.symlinks = git.symlinks /\ git'.view = git.view /\ git'.cached = git.cached
        /\ git'.links = git.links /\ git'.unchanged = git.unchanged
    BY <1>1, <1>5 DEF GitStates, Copying
  <2>2. CopyOf(git', p, Nothing) /\ ~Reading("ask", p)'
    BY <1>2, <2>1 DEF CopyOf, Reading
  <2>3. PathCopied(p)' /\ git'.pc \in Copying
    BY <1>2, <2>1, <2>2 DEF PathCopied, Copying
  <2> QED
    BY <1>2, <2>1, <2>3, OnePathMoves
<1> QED
  <2>1. git' = Dropped \/ git' = Inspected(git, p, work[p])
    BY DEF inspect, Fails
  <2>2. work[p].kind \in {"none", "file", "link", "repo", "fifo"}
    BY <1>1, EntryKinds
  <2> QED
    BY <1>3, <1>4, <1>5, <2>1, <2>2 DEF Inspected

LEMMA RefreshKeeps ==
    ASSUME GitInv, NEW p \in Path, refresh(p)
    PROVE  GitInv'
<1> DEFINE e == work[p]
           m == Copied(git, p, e)
           nested == e.kind = "repo" /\ e # Folder
<1>1. git \in GitStates /\ e \in Entries /\ seen \in [Path -> SUBSET Entries]
  BY DEF GitInv, GitTyped
<1>2. /\ Reading("open", p) /\ git.pc = "open" /\ "open" \in Copying /\ "copy" \in Copying /\ "ask" \in Copying
      /\ p \in git.left /\ \A r \in git.left : p <= r
      /\ UNCHANGED <<work, repo, seen>> /\ e \in seen[p] /\ CopyOf(git, p, Nothing)
      /\ git.kind \in {"file", "link", "repo"}
  BY DEF refresh, Reading, Copying, GitInv, CopyHolds, PathCopied
<1>3. CASE Fails
  BY <1>1, <1>2, <1>3, FailKeeps
<1>4. ASSUME e.kind \in {"file", "link", "repo"} PROVE
        /\ m \in GitStates
        /\ m.head = git.head /\ m.index = git.index /\ m.baseline = git.baseline
        /\ m.symlinks = git.symlinks /\ m.left = git.left
        /\ CopyOf(m, p, IF e.kind = "repo" THEN Folder ELSE e)
        /\ \A q \in Path \ {p} : /\ m.view[q] = git.view[q] /\ m.cached[q] = git.cached[q]
                                 /\ m.links[q] = git.links[q] /\ (q \in m.unchanged <=> q \in git.unchanged)
  BY <1>1, <1>2, <1>4, CopyOne
<1> HIDE DEF m
<1>5. CASE e.kind \in {"file", "link", "repo"} /\ nested /\ git' = [m EXCEPT !.pc = "ask"]
  <2>1. /\ git' \in GitStates /\ git'.pc = "ask" /\ git'.left = git.left /\ git'.head = m.head
        /\ git'.index = m.index /\ git'.baseline = m.baseline /\ git'.symlinks = m.symlinks /\ git'.view = m.view
        /\ git'.cached = m.cached /\ git'.links = m.links /\ git'.unchanged = m.unchanged
    BY <1>4, <1>5 DEF GitStates, Copying
  <2>2. CopyOf(git', p, Folder) /\ Reading("ask", p)' /\ Nested(p)'
    BY <1>2, <1>4, <1>5, <2>1 DEF CopyOf, Reading, Nested
  <2>3. PathCopied(p)'
    BY <2>2 DEF PathCopied
  <2> QED
    BY <1>2, <1>4, <1>5, <2>1, <2>3, OnePathMoves
<1>6. CASE e.kind \in {"file", "link", "repo"} /\ ~nested /\ git' = [m EXCEPT !.pc = "copy", !.left = @ \ {p}]
  <2>1. /\ git' \in GitStates /\ git'.pc = "copy" /\ git'.left = git.left \ {p} /\ git'.head = m.head
        /\ git'.index = m.index /\ git'.baseline = m.baseline /\ git'.symlinks = m.symlinks /\ git'.view = m.view
        /\ git'.cached = m.cached /\ git'.links = m.links /\ git'.unchanged = m.unchanged
    BY <1>4, <1>6 DEF GitStates, Copying
  <2>2. CopyOf(m, p, e) /\ e.kind # "fifo"
    BY <1>4, <1>6
  <2>3. CopyOf(git', p, e)
    BY <2>1, <2>2 DEF CopyOf
  <2>4. PathCopied(p)'
    BY <1>2, <2>1, <2>2, <2>3 DEF PathCopied
  <2> QED
    BY <1>2, <1>4, <1>6, <2>1, <2>4, OnePathMoves
<1> QED
  BY <1>2, <1>3, <1>5, <1>6 DEF refresh, Readable, m

LEMMA RevParseKeeps ==
    ASSUME GitInv, NEW p \in Path, rev_parse(p)
    PROVE  GitInv'
<1>1. git \in GitStates /\ work[p] \in Entries /\ seen \in [Path -> SUBSET Entries]
  BY DEF GitInv, GitTyped
<1>2. /\ Reading("ask", p) /\ git.pc = "ask" /\ "ask" \in Copying /\ "copy" \in Copying /\ p \in git.left
      /\ UNCHANGED <<work, repo, seen>> /\ work[p] \in seen[p] /\ CopyOf(git, p, Folder) /\ Nested(p)
  BY DEF rev_parse, Reading, Copying, GitInv, CopyHolds, PathCopied
<1>3. CASE Fails
  BY <1>1, <1>2, <1>3, FailKeeps
<1>4. ASSUME NEW e \in Asked(work[p]), git' = [git EXCEPT !.pc = "copy", !.left = @ \ {p}, !.view[p] = e]
      PROVE  GitInv'
  <2>1. e \in {Folder} \cup Is("repo") /\ e \in Views /\ e.kind = "repo"
    BY <1>1, <1>4, EntryKinds DEF Asked, Views, Entries, Recorded, Folder, Is
  <2>a. [git.view EXCEPT ![p] = e] \in [Path -> Views]
    BY <1>1, <2>1 DEF GitStates
  <2>2. /\ git' \in GitStates /\ git'.pc = "copy" /\ git'.left = git.left \ {p} /\ git'.head = git.head
        /\ git'.index = git.index /\ git'.baseline = git.baseline /\ git'.symlinks = git.symlinks
        /\ git'.view = [git.view EXCEPT ![p] = e] /\ git'.view[p] = e
        /\ git'.cached = git.cached /\ git'.links = git.links /\ git'.unchanged = git.unchanged
    BY <1>1, <1>4, <2>a DEF GitStates, Copying
  <2>3. CopyOf(git', p, e)
    BY <1>2, <2>1, <2>2 DEF CopyOf, Folder
  <2>4. e = work[p] \/ \E x, y \in seen[p] : x.kind = "repo" /\ x # Folder /\ y # x
    BY <1>2, <1>4 DEF Asked, Nested
  <2>5. PathCopied(p)'
    BY <1>2, <2>1, <2>2, <2>3, <2>4 DEF PathCopied
  <2>6. \A q \in Path \ {p} : git'.view[q] = git.view[q]
    BY <1>1, <2>2 DEF GitStates
  <2> QED
    BY <1>2, <2>2, <2>5, <2>6, OnePathMoves
<1> QED
  BY <1>3, <1>4 DEF rev_parse

LEMMA RefreshedKeeps ==
    ASSUME GitInv, Refreshed
    PROVE  GitInv'
<1>1. /\ git' \in GitStates /\ git'.pc \in {"turn", "copied"} /\ git'.left = {} /\ git.left = {} /\ git'.head = git.head
      /\ git'.index = git.index /\ git'.baseline = git.baseline /\ git'.symlinks = git.symlinks /\ git'.view = git.view
      /\ git'.cached = git.cached /\ git'.links = git.links /\ git'.unchanged = git.unchanged
  BY DEF Refreshed, GitInv, GitTyped, GitStates
<1>2. GitTyped'
  BY <1>1 DEF Refreshed, GitInv, GitTyped
<1>3. \A p \in Path : \A e : CopyOf(git, p, e) => CopyOf(git', p, e)
  BY <1>1 DEF CopyOf
<1>4. \A p \in Path : PathCopied(p) => PathCopied(p)'
  BY <1>1, <1>3 DEF Refreshed, PathCopied, Reading
<1>5. CopyHolds'
  BY <1>1, <1>4 DEF Refreshed, GitInv, CopyHolds, Copying
<1>6. ChangesAreTheWork'
  BY <1>1 DEF ChangesAreTheWork
<1> QED
  BY <1>2, <1>5, <1>6 DEF GitInv

LEMMA EditTreeKeeps ==
    ASSUME GitInv, NEW p \in Path, NEW e \in Entries, EditTree(p, e)
    PROVE  GitInv'
<1>1. GitTyped'
  BY DEF EditTree, Meanwhile, GitInv, GitTyped
<1>2. /\ git' = git /\ git.pc \in {"none", "index", "config", "turn"} \cup Copying
      /\ \A q \in Path : seen[q] \subseteq seen'[q]
      /\ \A q \in Path : work[q] \in seen[q] => work'[q] \in seen'[q]
  BY DEF EditTree, Meanwhile, GitInv, GitTyped, Copying
<1>3. \A q \in Path : PathCopied(q) => PathCopied(q)'
  BY <1>2 DEF PathCopied, Reading, Nested
<1>4. CopyHolds'
  BY <1>2, <1>3 DEF GitInv, CopyHolds
<1>5. ChangesAreTheWork'
  BY <1>2 DEF ChangesAreTheWork, Copying
<1> QED
  BY <1>1, <1>4, <1>5 DEF GitInv

LEMMA EditRepoKeeps ==
    ASSUME GitInv, EditRepo
    PROVE  GitInv'
<1>1. UNCHANGED <<git, work, seen>>
  BY DEF EditRepo, Meanwhile
<1>2. \A tree \in {Commit(work), NoTree} : tree \in [Path -> Recorded]
  BY NothingTypes DEF Commit
<1>3. repo' \in [head : [Path -> Recorded], index : [Path -> Recorded], symlinks : Settled \cup {"other"}]
  <2>1. PICK tree \in {Commit(work), NoTree} :
            repo' \in {[repo EXCEPT !.index = tree], [repo EXCEPT !.head = tree, !.index = tree]}
                     \cup {[repo EXCEPT !.symlinks = s] : s \in {"true", "false"}}
    BY DEF EditRepo
  <2>2. tree \in [Path -> Recorded]
    BY <1>2
  <2> QED
    BY ZenonT(40), <2>1, <2>2 DEF GitInv, GitTyped, Settled
<1>4. GitTyped'
  BY <1>1, <1>3 DEF GitInv, GitTyped
<1>5. CopyHolds' /\ ChangesAreTheWork'
  BY <1>1 DEF GitInv, CopyHolds, PathCopied, Reading, Nested, ChangesAreTheWork, Displaced
<1> QED
  BY <1>4, <1>5 DEF GitInv

(* What git makes of a copied entry is what AsRecorded says of the entry.    *)
LEMMA CopyIsRecorded ==
    ASSUME NEW g \in GitStates, NEW p \in Path, NEW e \in Entries, e.kind # "fifo", CopyOf(g, p, e)
    PROVE  /\ p \notin StateDir => stage_all(g)[p] = AsRecorded(g.index[p], e, g.symlinks)
           /\ p \in StateDir => stage_all(g)[p] = g.index[p]
                                \/ (g.index[p] # Nothing /\ \E x \in {e, g.index[p]} : x.kind = "link")
           /\ g.index[p] # Nothing => Tracked(g)[p] = AsRecorded(g.index[p], e, g.symlinks)
           /\ g.index[p] = Nothing => Tracked(g)[p] = Nothing
           /\ p \in Untracked(g) => e \notin {Nothing, Folder}
<1> DEFINE was == g.index[p]
           made == AsRecorded(was, e, g.symlinks)
           staged == IF g.links[p] # Nothing /\ p \notin StateDir THEN g.links[p] ELSE Added(g, p)
           tracked == IF g.cached[p] = Nothing THEN Nothing ELSE IF p \in g.unchanged THEN g.cached[p] ELSE InView(g, p)
<1>1. stage_all(g)[p] = staged /\ Tracked(g)[p] = tracked
  BY DEF stage_all, Tracked
<1>2. p \in Untracked(g) <=> g.cached[p] = Nothing /\ g.view[p] \notin {Nothing, Folder}
  BY DEF Untracked
<1>3. was \in Recorded /\ was \in Entries
  BY NothingTypes DEF GitStates
<1>4. /\ Nothing.kind = "none" /\ Folder.kind = "repo" /\ Special.kind = "fifo"
      /\ Nothing # Folder /\ Nothing # Special /\ Special # Folder
  BY DEF Nothing, Folder, Special
<1>5. CASE e.kind = "none"
  <2>1. e = Nothing
    BY <1>5, EntryKinds
  <2>2. g.view[p] = Nothing /\ g.cached[p] = was /\ g.links[p] = Nothing /\ p \notin g.unchanged
    BY <1>5 DEF CopyOf
  <2>3. InView(g, p) = Nothing
    BY <1>4, <2>2 DEF InView
  <2>4. made = Nothing
    BY <1>4, <2>1 DEF AsRecorded
  <2> QED
    BY <1>1, <1>2, <2>1, <2>2, <2>3, <2>4 DEF Added
<1>6. CASE e.kind = "link"
  <2>1. /\ e # Nothing /\ e # Folder /\ e # Special /\ e \in Is("link")
    BY <1>4, <1>6, EntryKinds
  <2>2. /\ g.view[p] = IF p \in Control THEN Empty ELSE [kind |-> "file", what |-> e.what]
        /\ g.cached[p] = IF was # Nothing THEN e ELSE was
        /\ g.links[p] = e
        /\ p \in g.unchanged <=> p \in Control /\ was # Nothing
    BY <1>6 DEF CopyOf
  <2>3. made = e
    BY <1>6, <2>1 DEF AsRecorded
  <2>4. CASE was = Nothing
    <3>1. g.view[p].kind = "file" /\ g.cached[p] = Nothing /\ p \notin g.unchanged
      BY <2>2, <2>4 DEF Empty
    <3> QED
      BY <1>1, <1>2, <2>1, <2>2, <2>3, <2>4, <3>1 DEF Added
  <2>5. CASE was # Nothing
    <3>1. g.cached[p] = e
      BY <2>2, <2>5
    <3>2. p \notin g.unchanged => InView(g, p) = e
      <4> SUFFICES ASSUME p \notin g.unchanged PROVE InView(g, p) = e
        OBVIOUS
      <4>1. g.view[p] = [kind |-> "file", what |-> e.what]
        BY <2>2, <2>5
      <4>2. g.view[p] # Folder /\ g.view[p].kind = "file" /\ g.view[p].what = e.what
        BY <4>1 DEF Folder
      <4>3. InView(g, p) = [kind |-> "link", what |-> e.what]
        BY <1>6, <3>1, <4>2 DEF InView
      <4> QED
        BY <2>1, <4>3 DEF Is
    <3> QED
      BY <1>1, <1>2, <1>6, <2>1, <2>2, <2>3, <2>5, <3>1, <3>2 DEF Added
  <2> QED
    BY <2>4, <2>5
<1>7. CASE e.kind = "file"
  <2>1. e # Nothing /\ e # Folder /\ e # Special
    BY <1>4, <1>7
  <2>2. /\ g.view[p] = e /\ g.links[p] = Nothing /\ p \notin g.unchanged
        /\ g.cached[p] = IF was.kind = "link" /\ g.symlinks THEN [kind |-> "file", what |-> was.what] ELSE was
    BY <1>7 DEF CopyOf
  <2>3. InView(g, p) = made
    <3>1. CASE was.kind = "link" /\ ~g.symlinks
      BY <1>7, <2>1, <2>2, <3>1 DEF InView, AsRecorded
    <3>2. CASE ~(was.kind = "link" /\ ~g.symlinks)
      <4>1. g.cached[p].kind # "link"
        BY <2>2, <3>2
      <4>2. InView(g, p) = e
        BY <1>7, <2>1, <2>2, <4>1 DEF InView
      <4>3. made = e
        BY <1>7, <2>1, <3>2 DEF AsRecorded
      <4> QED
        BY <4>2, <4>3
    <3> QED
      BY <3>1, <3>2
  <2>4. g.cached[p] = Nothing <=> was = Nothing
    BY <1>4, <2>2 DEF Nothing
  <2>5. g.cached[p] = was \/ was.kind = "link"
    BY <2>2
  <2> QED
    BY <1>1, <1>2, <1>4, <2>1, <2>2, <2>3, <2>4, <2>5 DEF Added
<1>8. CASE e.kind = "repo"
  <2>1. e # Nothing /\ e # Special
    BY <1>4, <1>8
  <2>2. g.view[p] = e /\ g.links[p] = Nothing /\ p \notin g.unchanged /\ g.cached[p] = was
    BY <1>8 DEF CopyOf
  <2>3. InView(g, p) = made
    <3>1. CASE e = Folder
      BY <2>2, <3>1 DEF InView, AsRecorded
    <3>2. CASE e # Folder
      BY <1>8, <2>1, <2>2, <3>2 DEF InView, AsRecorded
    <3> QED
      BY <3>1, <3>2
  <2> QED
    BY <1>1, <1>2, <2>1, <2>2, <2>3 DEF Added
<1> QED
  BY <1>5, <1>6, <1>7, <1>8, EntryKinds

(* A repository that was replaced is recorded as one, or not at all. *)
LEMMA ReplacedIsRecorded ==
    ASSUME NEW g \in GitStates, NEW p \in Path, NEW e \in {Folder} \cup Is("repo"), CopyOf(g, p, e)
    PROVE  /\ p \notin StateDir => stage_all(g)[p].kind \in {"repo", "none"}
           /\ p \in StateDir => stage_all(g)[p] = g.index[p] \/ (g.index[p] # Nothing /\ g.index[p].kind = "link")
           /\ g.index[p] # Nothing => Tracked(g)[p].kind \in {"repo", "none"}
           /\ g.index[p] = Nothing => Tracked(g)[p] = Nothing
<1>1. e \in Entries /\ e.kind = "repo"
  BY DEF Entries, Recorded, Is, Folder
<1>2. AsRecorded(g.index[p], e, g.symlinks).kind \in {"repo", "none"}
  BY <1>1 DEF AsRecorded, Nothing, Special, Folder
<1> QED
  BY <1>1, <1>2, CopyIsRecorded

(* A path that never was one to copy is not in the copy at all. *)
LEMMA NotCopiedIsRecorded ==
    ASSUME NEW g \in GitStates, NEW p \in Path, NEW e \in {Special, Folder}, g.index[p] = Nothing, CopyOf(g, p, Nothing)
    PROVE  /\ stage_all(g)[p] = Nothing /\ AsRecorded(g.index[p], e, g.symlinks) = Nothing
           /\ Tracked(g)[p] = Nothing /\ p \notin Untracked(g)
<1>1. g.view[p] = Nothing /\ g.cached[p] = Nothing /\ g.links[p] = Nothing
  BY DEF CopyOf, Nothing
<1>2. InView(g, p) = Nothing /\ Nothing # Folder
  BY <1>1 DEF InView, Nothing, Folder
<1>3. AsRecorded(g.index[p], e, g.symlinks) = Nothing
  BY DEF AsRecorded, Nothing, Folder, Special
<1> QED
  BY <1>1, <1>2, <1>3 DEF stage_all, Added, Tracked, Untracked

LEMMA MadeOfACopy ==
    ASSUME NEW g \in GitStates
    PROVE  stage_all(g) \in [Path -> Shown] /\ Tracked(g) \in [Path -> Shown]
<1>1. ASSUME NEW p \in Path
      PROVE  InView(g, p) \in Shown /\ g.cached[p] \in Shown /\ g.links[p] \in Shown /\ Nothing \in Shown
  <2>1. /\ g.view[p] \in Views /\ g.cached[p] \in Recorded /\ g.links[p] \in Recorded
        /\ Recorded \subseteq Shown /\ Views \subseteq Shown /\ Nothing \in Recorded
    BY NothingTypes DEF GitStates, Shown
  <2>2. CASE g.view[p].kind = "file" /\ g.cached[p].kind = "link" /\ g.view[p] # Folder
    <3>1. InView(g, p) = [kind |-> "link", what |-> g.view[p].what]
      BY <2>2 DEF InView
    <3>2. CASE g.view[p] = Empty
      BY <2>1, <3>1, <3>2 DEF Shown, Empty
    <3>3. CASE g.view[p] \in Is("file")
      <4>1. g.view[p].what \in Content
        BY <3>3 DEF Is
      <4>2. InView(g, p) \in Is("link")
        BY <3>1, <4>1 DEF Is
      <4> QED
        BY <2>1, <4>2 DEF Recorded
    <3> QED
      BY <2>1, <2>2, <3>2, <3>3, EntryKinds DEF Views
  <2>3. CASE ~(g.view[p].kind = "file" /\ g.cached[p].kind = "link" /\ g.view[p] # Folder)
    <3>1. CASE g.view[p] = Folder
      <4>1. ~(g.view[p].kind = "file")
        BY <3>1 DEF Folder
      <4>2. InView(g, p) \in {g.cached[p], Nothing}
        BY <3>1, <4>1 DEF InView
      <4> QED
        BY <2>1, <4>2
    <3>2. CASE g.view[p] # Folder
      <4>1. InView(g, p) = g.view[p]
        BY <2>3, <3>2 DEF InView
      <4> QED
        BY <2>1, <4>1
    <3> QED
      BY <3>1, <3>2
  <2> QED
    BY <2>1, <2>2, <2>3
<1> QED
  BY <1>1 DEF stage_all, Added, Tracked

LEMMA ShowKeeps ==
    ASSUME GitInv, ShowPatch \/ working_tree_diff
    PROVE  GitInv'
<1>1. CASE Fails
  BY <1>1, FailKeeps DEF ShowPatch, working_tree_diff, GitInv, GitTyped
<1>a. git \in GitStates /\ git.pc = "copied" /\ UNCHANGED <<work, repo, seen>> /\ seen \in [Path -> SUBSET Entries]
  BY DEF ShowPatch, working_tree_diff, GitInv, GitTyped
<1>b. git.left = {} /\ git.baseline = Baseline(git.head, git.index) /\ \A p \in Path : PathCopied(p)
  BY <1>a DEF GitInv, CopyHolds, Copying
<1>2. ASSUME NEW p \in Path
      PROVE  \/ \E e \in seen[p] : e \in Entries /\ e.kind # "fifo" /\ CopyOf(git, p, e)
             \/ /\ \E e \in {Folder} \cup Is("repo") : CopyOf(git, p, e)
                /\ \E x, y \in seen[p] : x.kind = "repo" /\ x # Folder /\ y # x
             \/ git.index[p] = Nothing /\ CopyOf(git, p, Nothing) /\ \E e \in seen[p] : e \in {Special, Folder}
  <2>1. PathCopied(p) /\ p \notin git.left /\ seen[p] \subseteq Entries
    BY <1>a, <1>b
  <2> QED
    BY <2>1 DEF PathCopied, Reading
<1>3. ASSUME git' = [git EXCEPT !.pc = "shown", !.shows = stage_all(git)], git.use = "extract"
      PROVE  GitInv'
  <2>1. /\ git' \in GitStates /\ git'.pc = "shown" /\ git'.use = "extract" /\ git'.shows = stage_all(git)
        /\ git'.index = git.index /\ git'.symlinks = git.symlinks
        /\ git'.baseline = git.baseline /\ git'.head = git.head
    BY <1>a, <1>3, MadeOfACopy DEF GitStates
  <2>2. GitTyped' /\ CopyHolds'
    BY <1>a, <1>b, <2>1 DEF GitInv, GitTyped, CopyHolds, Copying
  <2>3. ASSUME NEW p \in Path
        PROVE  LET was == git'.index[p]
                   links == {e \in seen'[p] \cup {was} : e.kind = "link"}
               IN /\ p \in StateDir => git'.shows[p] = was \/ (was # Nothing /\ links # {})
                  /\ p \notin StateDir => \/ \E e \in seen'[p] : git'.shows[p] = AsRecorded(was, e, git'.symlinks)
                                         \/ Displaced(p)'
    <3>1. ASSUME NEW e \in seen[p], e \in Entries, e.kind # "fifo", CopyOf(git, p, e)
          PROVE  /\ p \in StateDir => stage_all(git)[p] = git.index[p]
                                    \/ (git.index[p] # Nothing /\ \E x \in {e, git.index[p]} : x.kind = "link")
                 /\ p \notin StateDir => stage_all(git)[p] = AsRecorded(git.index[p], e, git.symlinks)
      BY <1>a, <3>1, CopyIsRecorded
    <3>2. ASSUME NEW e \in seen[p], e \in {Special, Folder}, git.index[p] = Nothing, CopyOf(git, p, Nothing)
          PROVE  /\ stage_all(git)[p] = git.index[p]
                 /\ stage_all(git)[p] = AsRecorded(git.index[p], e, git.symlinks)
      BY <1>a, <3>2, NotCopiedIsRecorded
    <3>3. ASSUME NEW e \in {Folder} \cup Is("repo"), CopyOf(git, p, e),
                 \E x, y \in seen[p] : x.kind = "repo" /\ x # Folder /\ y # x
          PROVE  /\ p \in StateDir => stage_all(git)[p] = git.index[p]
                                    \/ (git.index[p] # Nothing /\ git.index[p].kind = "link")
                 /\ p \notin StateDir => Displaced(p)'
      <4>1. /\ p \notin StateDir => stage_all(git)[p].kind \in {"repo", "none"}
            /\ p \in StateDir => stage_all(git)[p] = git.index[p]
                                    \/ (git.index[p] # Nothing /\ git.index[p].kind = "link")
        BY <1>a, <3>3, ReplacedIsRecorded
      <4> QED
        BY <1>a, <2>1, <3>3, <4>1 DEF Displaced
    <3> QED
      BY <1>a, <1>2, <2>1, <3>1, <3>2, <3>3
  <2>4. ChangesAreTheWork'
    BY <1>b, <2>1, <2>3 DEF ChangesAreTheWork, Baseline
  <2> QED
    BY <2>2, <2>4 DEF GitInv
<1>4. ASSUME NEW last \in {0} \cup Path, git.use = "diff",
             git' = [git EXCEPT !.pc = "shown", !.shows = Tracked(git), !.untracked = {p \in Untracked(git) : p <= last}]
      PROVE  GitInv'
  <2>0. {p \in Untracked(git) : p <= last} \in SUBSET Path
    BY DEF Untracked
  <2>1. /\ git' \in GitStates /\ git'.pc = "shown" /\ git'.use = "diff" /\ git'.shows = Tracked(git)
        /\ git'.untracked \subseteq Untracked(git)
        /\ git'.index = git.index /\ git'.symlinks = git.symlinks
        /\ git'.baseline = git.baseline /\ git'.head = git.head
    BY <1>a, <1>4, <2>0, MadeOfACopy DEF GitStates
  <2>2. GitTyped' /\ CopyHolds'
    BY <1>a, <1>b, <2>1 DEF GitInv, GitTyped, CopyHolds, Copying
  <2>3. ASSUME NEW p \in Path
        PROVE  LET was == git'.index[p]
               IN /\ was = Nothing => /\ git'.shows[p] = Nothing
                                      /\ p \in git'.untracked => \E e \in seen'[p] : e \notin {Nothing, Folder}
                  /\ was # Nothing => \/ \E e \in seen'[p] : git'.shows[p] = AsRecorded(was, e, git'.symlinks)
                                     \/ Displaced(p)'
    <3>1. ASSUME NEW e \in seen[p], e \in Entries, e.kind # "fifo", CopyOf(git, p, e)
          PROVE  /\ git.index[p] # Nothing => Tracked(git)[p] = AsRecorded(git.index[p], e, git.symlinks)
                 /\ git.index[p] = Nothing => Tracked(git)[p] = Nothing
                 /\ p \in Untracked(git) => e \notin {Nothing, Folder}
      BY <1>a, <3>1, CopyIsRecorded
    <3>2. ASSUME NEW e \in seen[p], e \in {Special, Folder}, git.index[p] = Nothing, CopyOf(git, p, Nothing)
          PROVE  Tracked(git)[p] = Nothing /\ p \notin Untracked(git)
      BY <1>a, <3>2, NotCopiedIsRecorded
    <3>3. ASSUME NEW e \in {Folder} \cup Is("repo"), CopyOf(git, p, e),
                 \E x, y \in seen[p] : x.kind = "repo" /\ x # Folder /\ y # x
          PROVE  /\ git.index[p] # Nothing => Displaced(p)'
                 /\ git.index[p] = Nothing => Tracked(git)[p] = Nothing
                 /\ \E x \in seen[p] : x \notin {Nothing, Folder}
      <4>1. /\ git.index[p] # Nothing => Tracked(git)[p].kind \in {"repo", "none"}
            /\ git.index[p] = Nothing => Tracked(git)[p] = Nothing
        BY <1>a, <3>3, ReplacedIsRecorded
      <4> QED
        BY <1>a, <2>1, <3>3, <4>1 DEF Displaced, Nothing
    <3> QED
      BY <1>a, <1>2, <2>1, <3>1, <3>2, <3>3
  <2>4. ChangesAreTheWork'
    BY <1>b, <2>1, <2>3 DEF ChangesAreTheWork, Baseline
  <2> QED
    BY <2>2, <2>4 DEF GitInv
<1> QED
  BY <1>1, <1>3, <1>4 DEF ShowPatch, working_tree_diff

LEMMA GitSteps == GitInv /\ GitNext => GitInv'
BY ReadKeeps, SnapshotKeeps, RefreshedKeeps, ExtractKeeps, ShowKeeps, EditRepoKeeps, InspectKeeps, RefreshKeeps,
   RevParseKeeps, EditTreeKeeps DEF GitNext

LEMMA GitKept == GitInv /\ [MCNext]_<<part, fileVars, patchVars, configVars, gitVars, benchVars, sandboxVars>> => GitInv'
<1> SUFFICES ASSUME GitInv, [MCNext]_<<part, fileVars, patchVars, configVars, gitVars, benchVars, sandboxVars>>
             PROVE  GitInv'
  OBVIOUS
<1>1. CASE GitNext
  BY <1>1, GitSteps
<1>2. CASE UNCHANGED gitVars
  BY <1>2 DEF gitVars, GitInv, GitTyped, CopyHolds, PathCopied, Reading, Nested, ChangesAreTheWork, Displaced
<1> QED
  BY <1>1, <1>2 DEF MCNext

(* However the tree and the repository are changed meanwhile, what is shown  *)
(* is the work since the baseline. (IsolatedGit, extract_git_diff,           *)
(* working_tree_diff)                                                        *)
THEOREM ShownChangesAreTheWork == MCSpec => []ChangesAreTheWork
<1>1. MCInit => GitInv
  BY GitStarts DEF MCInit
<1>2. GitInv => ChangesAreTheWork
  BY DEF GitInv
<1> QED
  BY <1>1, <1>2, GitKept, PTL DEF MCSpec

-----------------------------------------------------------------------------
(* The evaluation *)

Working == {"stage", "publish", "clone"}
Over == {"ended", "panicked"}

Results == [status : {"none", "error", "timeout", "patch_produced", "empty_patch"}, cost : Nat]

JobStates ==
    [pc : {"queued", "lock", "launch", "turn", "late", "over", "read", "stopped"} \cup Working \cup Over,
     spent : Nat, asked : Nat, consented : SUBSET Asks, live : BOOLEAN,
     turn : {"none", "finished", "failed", "timeout"}, cost : Nat, result : Results]

JobFits(j) ==
    /\ j.consented \subseteq {"ordinary"}
    /\ j.pc = "late" => j.turn = "timeout"
    /\ j.pc = "over" => j.turn # "none" /\ (j.live => j.turn = "failed")
    /\ j.pc \in {"read", "stopped"} =>
         j.turn # "none" /\ (j.turn # "failed" => ~j.live /\ j.cost = j.spent)
    /\ j.pc = "ended" => TrueOf(j, j.result)

(* The instances start in their order, under a sandbox, and only so many. *)
HostHolds ==
    /\ host \in [run : {"asked", "on", "reported", "refused"}, sandbox : {"off", "unenforced", "enforced"},
                exempt : BOOLEAN]
    /\ host.run \in {"on", "reported"} => host.sandbox = "enforced" /\ ~host.exempt
    /\ host.run \notin {"on", "reported"} => \A i \in Instance : job[i].pc = "queued"
    /\ \E s \in 0..Cardinality(Instance) : \A k \in Instance : job[k].pc = "queued" <=> k > s
    /\ Cardinality(Running) <= Parallelism

(* A worker at work holds its repository's lock, and nobody else does. *)
LocksHold ==
    /\ lock \in [Repo -> Instance \cup {0}] /\ cache \in [Repo -> {"absent", "stale", "whole"}]
    /\ \A r \in Repo : lock[r] # 0 => job[lock[r]].pc \in Working /\ Mine(lock[r]) = r
    /\ \A i \in Instance : job[i].pc \in Working => lock[Mine(i)] = i

ReportHolds ==
    /\ report \in Seq(Instance \X Results)
    /\ \A n \in DOMAIN report : /\ job[report[n][1]].pc \in Over
                               /\ TrueOf(job[report[n][1]], report[n][2])
    /\ EachOnce

BenchInv ==
    /\ job \in [Instance -> JobStates] /\ \A i \in Instance : JobFits(job[i])
    /\ HostHolds /\ LocksHold /\ ReportHolds

LEMMA BenchStarts == BenchInit => BenchInv
<1> SUFFICES ASSUME BenchInit PROVE BenchInv
  OBVIOUS
<1> DEFINE first == Unstarted
<1>1. \A i \in Instance : job[i] = first /\ job[i].pc = "queued"
  BY DEF BenchInit, Unstarted
<1>2. NoResult \in Results
  BY DEF NoResult, Results
<1>3. first \in JobStates /\ JobFits(first)
  BY <1>2 DEF JobStates, JobFits, Unstarted
<1>4. job \in [Instance -> JobStates] /\ \A i \in Instance : JobFits(job[i])
  <2> HIDE DEF first
  <2>1. job = [i \in Instance |-> first]
    BY DEF BenchInit, first
  <2> QED
    BY <1>3, <2>1
<1>5. Running = {}
  BY <1>1 DEF Running
<1>6. Cardinality(Instance) \in Nat /\ Instance = 1..Cardinality(Instance) /\ Cardinality(Running) = 0
  BY <1>5, FS_EmptySet, FS_CardinalityType, EvalBenchAssumption
<1>7. HostHolds
  <2>1. \A k \in Instance : job[k].pc = "queued" <=> k > 0
    BY <1>1, <1>6
  <2>2. 0 \in 0..Cardinality(Instance) /\ Cardinality(Running) <= Parallelism
    BY <1>6, EvalBenchAssumption
  <2>3. host \in [run : {"asked", "on", "reported", "refused"}, sandbox : {"off", "unenforced", "enforced"},
                 exempt : BOOLEAN] /\ host.run = "asked"
    BY DEF BenchInit
  <2> QED
    BY <1>1, <2>1, <2>2, <2>3 DEF HostHolds
<1>8. LocksHold
  BY <1>1 DEF BenchInit, LocksHold, Working
<1>9. ReportHolds
  BY DEF BenchInit, ReportHolds, EachOnce
<1> QED
  BY <1>4, <1>7, <1>8, <1>9 DEF BenchInv

(* Of a job that runs, nothing but the job, its lock and the cache changes   *)
(* until it is reported.                                                     *)
LEMMA JobMoves ==
    ASSUME BenchInv, NEW i \in Instance, NEW j \in JobStates, JobFits(j), job[i].pc \notin Over \cup {"queued"},
           j.pc # "queued", Moves(i, j), UNCHANGED <<host, report>>, LocksHold'
    PROVE  BenchInv'
<1>1. /\ job' \in [Instance -> JobStates] /\ job'[i] = j
      /\ \A k \in Instance \ {i} : job'[k] = job[k]
  BY DEF BenchInv, Moves
<1>2. \A k \in Instance : JobFits(job'[k])
  BY <1>1 DEF BenchInv
<1>3. \A k \in Instance : job'[k].pc = "queued" <=> job[k].pc = "queued"
  BY <1>1
<1>4. Running' \subseteq Running /\ IsFiniteSet(Running)
  <2>1. Running' \subseteq Running
    BY <1>1 DEF Running, Over
  <2>2. IsFiniteSet(Running)
    BY EvalBenchAssumption, FS_Subset DEF Running
  <2> QED
    BY <2>1, <2>2
<1>5. Cardinality(Running') <= Parallelism
  <2>1. Cardinality(Running') \in Nat /\ Cardinality(Running) \in Nat /\ Cardinality(Running') <= Cardinality(Running)
    BY <1>4, FS_Subset, FS_CardinalityType
  <2> QED
    BY <2>1, EvalBenchAssumption DEF BenchInv, HostHolds
<1>6. HostHolds'
  BY <1>3, <1>5 DEF BenchInv, HostHolds
<1>7. ReportHolds'
  <2>1. ASSUME NEW n \in DOMAIN report PROVE report[n][1] \in Instance \ {i}
    <3>1. report[n] \in Instance \X Results
      BY DEF BenchInv, ReportHolds
    <3> QED
      BY <3>1 DEF BenchInv, ReportHolds
  <2> QED
    BY <1>1, <2>1 DEF BenchInv, ReportHolds, EachOnce
<1> QED
  BY <1>1, <1>2, <1>6, <1>7 DEF BenchInv

LEMMA LocksKept ==
    ASSUME BenchInv, NEW i \in Instance, NEW j \in JobStates, Moves(i, j), job[i].pc \in Working <=> j.pc \in Working,
           UNCHANGED lock, cache' \in {cache, [cache EXCEPT ![Mine(i)] = "whole"]}
    PROVE  LocksHold'
<1>1. job'[i] = j /\ \A k \in Instance \ {i} : job'[k] = job[k]
  BY DEF BenchInv, Moves
<1>2. cache' \in [Repo -> {"absent", "stale", "whole"}]
  BY DEF BenchInv, LocksHold
<1>3. \A k \in Instance : job'[k].pc \in Working <=> job[k].pc \in Working
  BY <1>1
<1> QED
  BY <1>2, <1>3 DEF BenchInv, LocksHold

LEMMA LockTaken ==
    ASSUME BenchInv, NEW i \in Instance, NEW j \in JobStates, Moves(i, j), job[i].pc \notin Working, j.pc \in Working,
           lock[Mine(i)] = 0, lock' = [lock EXCEPT ![Mine(i)] = i], UNCHANGED cache
    PROVE  LocksHold'
<1>1. job'[i] = j /\ \A k \in Instance \ {i} : job'[k] = job[k]
  BY DEF BenchInv, Moves
<1>2. Mine(i) \in Repo
  BY DEF Mine, Repo
<1>3. /\ lock' \in [Repo -> Instance \cup {0}] /\ lock'[Mine(i)] = i
      /\ \A r \in Repo \ {Mine(i)} : lock'[r] = lock[r]
  BY <1>2 DEF BenchInv, LocksHold
<1>4. 0 \notin Instance
  BY EvalBenchAssumption, FS_CardinalityType
<1>5. ASSUME NEW r \in Repo, lock'[r] # 0 PROVE job'[lock'[r]].pc \in Working /\ Mine(lock'[r]) = r
  <2>1. CASE r = Mine(i)
    BY <1>1, <1>3, <2>1
  <2>2. CASE r # Mine(i)
    <3>1. lock'[r] = lock[r] /\ lock[r] \in Instance /\ job[lock[r]].pc \in Working /\ Mine(lock[r]) = r
      BY <1>3, <1>5, <2>2 DEF BenchInv, LocksHold
    <3> QED
      BY <1>1, <2>2, <3>1
  <2> QED
    BY <2>1, <2>2
<1>6. ASSUME NEW k \in Instance, job'[k].pc \in Working PROVE lock'[Mine(k)] = k
  <2>1. CASE k = i
    BY <1>3, <2>1
  <2>2. CASE k # i
    <3>1. lock[Mine(k)] = k /\ Mine(k) \in Repo
      BY <1>1, <1>6, <2>2 DEF BenchInv, LocksHold, Mine, Repo
    <3>2. Mine(k) # Mine(i)
      BY <1>4, <3>1
    <3> QED
      BY <1>3, <3>1, <3>2
  <2> QED
    BY <2>1, <2>2
<1> QED
  BY <1>3, <1>5, <1>6 DEF BenchInv, LocksHold

LEMMA LockFreed ==
    ASSUME BenchInv, NEW i \in Instance, NEW j \in JobStates, Moves(i, j), job[i].pc \in Working, j.pc \notin Working,
           Frees(i), UNCHANGED cache
    PROVE  LocksHold'
<1>1. job'[i] = j /\ \A k \in Instance \ {i} : job'[k] = job[k]
  BY DEF BenchInv, Moves
<1>2. Mine(i) \in Repo /\ lock[Mine(i)] = i
  BY DEF BenchInv, LocksHold, Mine, Repo
<1>3. /\ lock' \in [Repo -> Instance \cup {0}] /\ lock'[Mine(i)] = 0
      /\ \A r \in Repo \ {Mine(i)} : lock'[r] = lock[r]
  BY <1>2 DEF BenchInv, LocksHold, Frees
<1>5. ASSUME NEW r \in Repo, lock'[r] # 0 PROVE job'[lock'[r]].pc \in Working /\ Mine(lock'[r]) = r
  <2>1. r # Mine(i) /\ lock'[r] = lock[r] /\ lock[r] \in Instance /\ job[lock[r]].pc \in Working /\ Mine(lock[r]) = r
    BY <1>3, <1>5 DEF BenchInv, LocksHold
  <2> QED
    BY <1>1, <2>1
<1>6. ASSUME NEW k \in Instance, job'[k].pc \in Working PROVE lock'[Mine(k)] = k
  <2>1. k # i /\ lock[Mine(k)] = k /\ Mine(k) \in Repo
    BY <1>1, <1>6 DEF BenchInv, LocksHold, Mine, Repo
  <2>2. Mine(k) # Mine(i)
    BY <1>2, <2>1
  <2> QED
    BY <1>3, <2>1, <2>2
<1> QED
  BY <1>3, <1>5, <1>6 DEF BenchInv, LocksHold

(* A job that only goes on, or ends as an error. *)
LEMMA Going ==
    ASSUME BenchInv, NEW i \in Instance
    PROVE  /\ \A pc \in {"lock", "launch", "turn", "stage", "publish", "clone", "panicked"} :
                 [job[i] EXCEPT !.pc = pc] \in JobStates /\ JobFits([job[i] EXCEPT !.pc = pc])
                 /\ [job[i] EXCEPT !.pc = pc].pc = pc
           /\ LET j == [job[i] EXCEPT !.pc = "ended", !.result = ErrorResult]
              IN j \in JobStates /\ JobFits(j) /\ j.pc = "ended"
<1>1. job[i] \in JobStates /\ JobFits(job[i])
  BY DEF BenchInv
<1>2. ErrorResult \in Results /\ ErrorResult.status = "error"
  BY DEF ErrorResult, Results
<1>3. ASSUME NEW pc \in {"lock", "launch", "turn", "stage", "publish", "clone", "panicked"}
      PROVE  [job[i] EXCEPT !.pc = pc] \in JobStates /\ JobFits([job[i] EXCEPT !.pc = pc])
             /\ [job[i] EXCEPT !.pc = pc].pc = pc
  BY <1>1 DEF JobStates, JobFits, Working, Over
<1>4. LET j == [job[i] EXCEPT !.pc = "ended", !.result = ErrorResult]
      IN j \in JobStates /\ JobFits(j) /\ j.pc = "ended"
  BY <1>1, <1>2 DEF JobStates, JobFits, Working, Over, TrueOf
<1> QED
  BY <1>3, <1>4

Active == {"lock", "launch", "turn", "stopped"} \cup Working

LEMMA GoesOn ==
    ASSUME BenchInv, NEW i \in Instance, NEW pc \in {"launch", "turn", "stage", "publish", "clone", "panicked"},
           job[i].pc \in Active, Goes(i, pc), job[i].pc \in Working <=> pc \in Working,
           UNCHANGED <<host, lock, report>>, cache' \in {cache, [cache EXCEPT ![Mine(i)] = "whole"]}
    PROVE  BenchInv'
<1> DEFINE j == [job[i] EXCEPT !.pc = pc]
<1>1. j \in JobStates /\ JobFits(j) /\ j.pc = pc /\ pc # "queued"
  <2>1. pc \in {"lock", "launch", "turn", "stage", "publish", "clone", "panicked"} /\ pc # "queued"
    OBVIOUS
  <2> QED
    BY <2>1, Going
<1>2. Moves(i, j) /\ job[i].pc \notin Over \cup {"queued"}
  BY DEF Goes, Active, Working, Over
<1> HIDE DEF j
<1>3. LocksHold'
  BY <1>1, <1>2, LocksKept
<1> QED
  BY <1>1, <1>2, <1>3, JobMoves

LEMMA EndsInError ==
    ASSUME BenchInv, NEW i \in Instance, job[i].pc \in Active, Ends(i, ErrorResult), UNCHANGED <<host, cache, report>>,
           \/ job[i].pc \in Working /\ Frees(i)
           \/ job[i].pc \notin Working /\ UNCHANGED lock
    PROVE  BenchInv'
<1> DEFINE j == [job[i] EXCEPT !.pc = "ended", !.result = ErrorResult]
<1>1. j \in JobStates /\ JobFits(j) /\ j.pc = "ended" /\ j.pc \notin Working
  BY Going DEF Working
<1>2. Moves(i, j) /\ job[i].pc \notin Over \cup {"queued"}
  BY DEF Ends, Active, Working, Over
<1> HIDE DEF j
<1>3. LocksHold'
  BY <1>1, <1>2, LocksKept, LockFreed
<1> QED
  BY <1>1, <1>2, <1>3, JobMoves

LEMMA BenchBegins ==
    ASSUME BenchInv, run_bench
    PROVE  BenchInv'
<1>1. /\ host' \in [run : {"asked", "on", "reported", "refused"}, sandbox : {"off", "unenforced", "enforced"},
                    exempt : BOOLEAN]
      /\ host'.run = "on" => host'.sandbox = "enforced" /\ ~host'.exempt
      /\ host'.run # "reported"
  BY DEF BenchInv, HostHolds, run_bench
<1>2. \A i \in Instance : job[i].pc = "queued"
  BY DEF BenchInv, HostHolds, run_bench
<1>3. UNCHANGED <<job, lock, cache, report>>
  BY DEF run_bench
<1>4. HostHolds'
  BY <1>1, <1>2, <1>3 DEF BenchInv, HostHolds, Running
<1>5. ReportHolds'
  <2>1. DOMAIN report = {}
    <3>1. \A n \in DOMAIN report : report[n][1] \in Instance /\ job[report[n][1]].pc \in Over
      BY DEF BenchInv, ReportHolds
    <3> QED
      BY <1>2, <3>1 DEF Over
  <2> QED
    BY <1>1, <1>3, <2>1 DEF BenchInv, ReportHolds, EachOnce
<1> QED
  BY <1>3, <1>4, <1>5 DEF BenchInv, LocksHold

LEMMA SpawnKeeps ==
    ASSUME BenchInv, NEW i \in Instance, Spawn(i)
    PROVE  BenchInv'
<1> DEFINE j == [job[i] EXCEPT !.pc = "lock"]
<1>1. j \in JobStates /\ JobFits(j) /\ j.pc = "lock"
  BY Going
<1>2. Moves(i, j) /\ job[i].pc = "queued"
  BY DEF Spawn, MaySpawn, Goes
<1> HIDE DEF j
<1>3. /\ job' \in [Instance -> JobStates] /\ job'[i] = j
      /\ \A k \in Instance \ {i} : job'[k] = job[k]
  BY <1>1, <1>2 DEF BenchInv, Moves
<1>4. Running' = Running \cup {i} /\ i \notin Running
  BY <1>1, <1>2, <1>3 DEF Running
<1>5. IsFiniteSet(Running) /\ Cardinality(Running) \in Nat
  BY EvalBenchAssumption, FS_Subset, FS_CardinalityType DEF Running
<1>6. Cardinality(Running') <= Parallelism
  <2>1. Cardinality(Running') = Cardinality(Running) + 1
    BY <1>4, <1>5, FS_AddElement
  <2> QED
    BY <1>5, <2>1, EvalBenchAssumption DEF Spawn, MaySpawn, MayStart
<1>7. \E s \in 0..Cardinality(Instance) : \A k \in Instance : job'[k].pc = "queued" <=> k > s
  <2>1. PICK s \in 0..Cardinality(Instance) : \A k \in Instance : job[k].pc = "queued" <=> k > s
    BY DEF BenchInv, HostHolds
  <2>2. Cardinality(Instance) \in Nat /\ Instance = 1..Cardinality(Instance)
    BY EvalBenchAssumption, FS_CardinalityType
  <2>3. i > s /\ \A k \in Instance : k < i => k <= s
    BY <1>2, <2>1, <2>2 DEF Spawn, MaySpawn
  <2>4. i = s + 1
    <3>1. CASE i = 1
      BY <2>1, <2>2, <2>3, <3>1
    <3>2. CASE i # 1
      <4>1. i - 1 \in Instance /\ i - 1 < i
        BY <2>2, <3>2
      <4> QED
        BY <2>1, <2>2, <2>3, <4>1
    <3> QED
      BY <3>1, <3>2
  <2>5. \A k \in Instance : job'[k].pc = "queued" <=> k > i
    BY <1>1, <1>3, <2>1, <2>2, <2>4
  <2>6. i \in 0..Cardinality(Instance)
    BY <2>2
  <2> QED
    BY <2>5, <2>6
<1>8. HostHolds'
  BY <1>6, <1>7 DEF BenchInv, HostHolds, Spawn
<1>9. LocksHold'
  BY <1>1, <1>2, LocksKept DEF Spawn, Working
<1>10. ReportHolds'
  <2>1. ASSUME NEW n \in DOMAIN report PROVE report[n][1] \in Instance \ {i}
    <3>1. report[n] \in Instance \X Results
      BY DEF BenchInv, ReportHolds
    <3> QED
      BY <1>2, <3>1 DEF BenchInv, ReportHolds, Over
  <2> QED
    BY <1>3, <2>1 DEF BenchInv, ReportHolds, EachOnce, Spawn
<1> QED
  BY <1>1, <1>3, <1>8, <1>9, <1>10 DEF BenchInv

LEMMA JoinKeeps ==
    ASSUME BenchInv, NEW i \in Instance, Join(i)
    PROVE  BenchInv'
<1> DEFINE result == IF job[i].pc = "panicked" THEN ErrorResult ELSE job[i].result
<1>1. UNCHANGED <<host, job, lock, cache>> /\ report' = Append(report, <<i, result>>) /\ job[i].pc \in Over
  BY DEF Join, Joined, MayJoin, Over
<1>2. result \in Results /\ TrueOf(job[i], result)
  BY <1>1 DEF BenchInv, JobStates, JobFits, Over, TrueOf, ErrorResult, Results
<1> HIDE DEF result
<1>3. report \in Seq(Instance \X Results) /\ \A n \in 1..Len(report) : report[n][1] = n /\ report[n] \in Instance \X Results
  BY DEF BenchInv, ReportHolds, EachOnce, Join
<1>4. Cardinality(Instance) \in Nat /\ Instance = 1..Cardinality(Instance) /\ Len(report) \in Nat
  BY <1>3, EvalBenchAssumption, FS_CardinalityType
<1>5. i = Len(report) + 1
  <2>1. i > Len(report)
    BY <1>3, <1>4 DEF Join, MayJoin
  <2>2. CASE i > Len(report) + 1
    <3>1. Len(report) + 1 \in Instance /\ Len(report) + 1 < i
      BY <1>4, <2>2
    <3>2. PICK n \in DOMAIN report : report[n][1] = Len(report) + 1
      BY <3>1 DEF Join, MayJoin
    <3>3. DOMAIN report = 1..Len(report)
      BY <1>3, LenProperties
    <3>4. n \in 1..Len(report) /\ n = Len(report) + 1
      BY <1>3, <3>2, <3>3
    <3> QED
      BY <1>4, <3>4
  <2> QED
    BY <1>4, <2>1, <2>2
<1>6. <<i, result>> \in Instance \X Results
  BY <1>2
<1>7. /\ report' \in Seq(Instance \X Results) /\ DOMAIN report' = 1..(Len(report) + 1)
      /\ report'[Len(report) + 1] = <<i, result>> /\ \A n \in 1..Len(report) : report'[n] = report[n]
  BY <1>1, <1>3, <1>6
<1>8. ReportHolds'
  <2>1. ASSUME NEW n \in DOMAIN report'
        PROVE  report'[n][1] = n /\ job'[report'[n][1]].pc \in Over /\ TrueOf(job'[report'[n][1]], report'[n][2])
    <3>1. CASE n = Len(report) + 1
      BY <1>1, <1>2, <1>5, <1>7, <3>1
    <3>2. CASE n # Len(report) + 1
      <4>1. n \in 1..Len(report)
        BY <1>4, <1>7, <3>2
      <4> QED
        BY <1>1, <1>3, <1>7, <4>1 DEF BenchInv, ReportHolds
    <3> QED
      BY <3>1, <3>2
  <2>2. host'.run = "on"
    BY <1>1 DEF Join
  <2> QED
    BY <1>7, <2>1, <2>2 DEF ReportHolds, EachOnce
<1>9. HostHolds' /\ LocksHold'
  BY <1>1 DEF BenchInv, HostHolds, LocksHold, Running
<1> QED
  BY <1>1, <1>8, <1>9 DEF BenchInv

LEMMA SortKeeps ==
    ASSUME BenchInv, SortReport
    PROVE  BenchInv'
<1>1. UNCHANGED <<job, lock, cache>> /\ host.run = "on" /\ host' = [host EXCEPT !.run = "reported"]
  BY DEF SortReport
<1>2. PICK p \in Orders :
         /\ \A m, n \in DOMAIN report : m < n => ~Before(report[p[n]][1], report[p[m]][1])
         /\ report' = [n \in DOMAIN report |-> report[p[n]]]
  <2>1. \A i, k \in Instance : Before(i, k) => ~Before(k, i)
    BY EvalBenchAssumption DEF Before
  <2>2. \A n \in DOMAIN report : report[n][1] \in Instance
    BY DEF BenchInv, ReportHolds
  <2> QED
    BY <2>1, <2>2 DEF SortReport, Orders
<1>3. /\ report \in Seq(Instance \X Results) /\ DOMAIN report = 1..Len(report) /\ Len(report) \in Nat
      /\ Len(report) = Cardinality(Instance) /\ Instance = 1..Cardinality(Instance)
      /\ \A n \in DOMAIN report : report[n] \in Instance \X Results /\ report[n][1] = n
  BY <1>1, EvalBenchAssumption DEF BenchInv, ReportHolds, EachOnce, SortReport
<1>4. /\ \A n \in DOMAIN report : p[n] \in DOMAIN report /\ report'[n] = report[p[n]]
      /\ \A n \in DOMAIN report : \E m \in DOMAIN report : p[m] = n
  BY <1>2 DEF Orders
<1>5. report' \in Seq(Instance \X Results) /\ DOMAIN report' = DOMAIN report /\ Len(report') = Len(report)
  <2> DEFINE Place(n) == report[p[n]]
  <2>1. \A n \in 1..Len(report) : Place(n) \in Instance \X Results
    BY <1>3, <1>4
  <2>2. report' = [n \in 1..Len(report) |-> Place(n)]
    BY <1>2, <1>3
  <2> HIDE DEF Place
  <2>3. report' \in [1..Len(report) -> Instance \X Results]
    BY <2>1, <2>2
  <2>4. report' \in Seq(Instance \X Results)
    BY SMTT(30), <1>3, <2>3, SeqDef
  <2>5. DOMAIN report' = 1..Len(report) /\ DOMAIN report' = 1..Len(report') /\ Len(report') \in Nat
    BY <2>3, <2>4, LenProperties
  <2>6. Len(report') = Len(report)
    BY <1>3, <2>5
  <2> QED
    BY <1>3, <2>4, <2>5, <2>6
<1>6. EachOnce'
  <2>1. ASSUME NEW i \in Instance PROVE \E n \in DOMAIN report' : report'[n][1] = i
    <3>1. i \in DOMAIN report /\ report[i][1] = i
      BY <1>3
    <3>2. PICK m \in DOMAIN report : p[m] = i
      BY <1>4, <3>1
    <3> QED
      BY <1>4, <1>5, <3>1, <3>2
  <2>2. \A m, n \in DOMAIN report' : m < n => ~Before(report'[n][1], report'[m][1])
    BY <1>2, <1>4, <1>5
  <2>3. host'.run = "reported"
    BY <1>1 DEF BenchInv, HostHolds
  <2> QED
    BY <1>3, <1>5, <2>1, <2>2, <2>3 DEF EachOnce, Before
<1>7. ReportHolds'
  BY <1>1, <1>4, <1>5, <1>6 DEF BenchInv, ReportHolds
<1>8. HostHolds' /\ LocksHold'
  BY <1>1 DEF BenchInv, HostHolds, LocksHold, Running
<1> QED
  BY <1>1, <1>7, <1>8 DEF BenchInv

LEMMA WorkerKeeps ==
    ASSUME BenchInv, NEW i \in Instance, run_worker(i)
    PROVE  BenchInv'
<1> DEFINE pc == IF cache[Mine(i)] = "absent" THEN "stage" ELSE "clone"
           j == [job[i] EXCEPT !.pc = pc]
<1>1. job[i].pc = "lock" /\ job[i].pc \in Active /\ job[i].pc \notin Working /\ UNCHANGED <<host, cache, report>>
  BY DEF run_worker, Active, Working
<1>2. CASE Ends(i, ErrorResult) /\ UNCHANGED lock
  BY <1>1, <1>2, EndsInError
<1>3. CASE lock[Mine(i)] = 0 /\ lock' = [lock EXCEPT ![Mine(i)] = i] /\ Goes(i, pc)
  <2>1. pc \in {"stage", "clone"}
    OBVIOUS
  <2> HIDE DEF pc
  <2>2. j \in JobStates /\ JobFits(j) /\ j.pc = pc
    BY ZenonT(40), <2>1, Going
  <2>3. j.pc # "queued" /\ j.pc \in Working /\ Moves(i, j)
    BY <1>3, <2>1, <2>2 DEF Working, Goes
  <2> HIDE DEF j
  <2>4. LocksHold'
    BY <1>1, <1>3, <2>2, <2>3, LockTaken
  <2> QED
    BY <1>1, <2>2, <2>3, <2>4, JobMoves DEF Over
<1> QED
  BY <1>2, <1>3 DEF run_worker

LEMMA CacheKeeps ==
    ASSUME BenchInv, NEW i \in Instance, ensure_bare_cache(i) \/ Publish(i)
    PROVE  BenchInv'
<1>1. job[i].pc \in Active /\ job[i].pc \in Working /\ UNCHANGED <<host, report>>
  BY DEF ensure_bare_cache, Publish, Active, Working
<1>2. CASE Ends(i, ErrorResult) /\ Frees(i) /\ UNCHANGED cache
  BY <1>1, <1>2, EndsInError
<1>3. CASE Goes(i, "publish") /\ UNCHANGED lock /\ UNCHANGED cache
  BY <1>1, <1>3, GoesOn DEF Working
<1>4. CASE cache' = [cache EXCEPT ![Mine(i)] = "whole"] /\ Goes(i, "clone") /\ UNCHANGED lock
  BY <1>1, <1>4, GoesOn DEF Working
<1> QED
  BY <1>2, <1>3, <1>4 DEF ensure_bare_cache, Publish

LEMMA CheckoutKeeps ==
    ASSUME BenchInv, NEW i \in Instance, checkout_at(i)
    PROVE  BenchInv'
<1>1. job[i].pc \in Active /\ job[i].pc \in Working /\ UNCHANGED <<host, report>>
  BY DEF checkout_at, Active, Working
<1>2. CASE Ends(i, ErrorResult) /\ Frees(i) /\ UNCHANGED cache
  BY <1>1, <1>2, EndsInError
<1>3. CASE cache' = [cache EXCEPT ![Mine(i)] = "whole"] /\ Goes(i, "clone") /\ UNCHANGED lock
  BY <1>1, <1>3, GoesOn DEF Working
<1>4. CASE Goes(i, "launch") /\ Frees(i) /\ UNCHANGED cache
  <2> DEFINE j == [job[i] EXCEPT !.pc = "launch"]
  <2>1. j \in JobStates /\ JobFits(j) /\ j.pc = "launch"
    BY Going
  <2>2. Moves(i, j) /\ j.pc \notin Working
    BY <1>4, <2>1 DEF Goes, Working
  <2> HIDE DEF j
  <2>3. LocksHold'
    BY <1>1, <1>4, <2>1, <2>2, LockFreed
  <2> QED
    BY <1>1, <2>1, <2>2, <2>3, JobMoves DEF Working, Over
<1> QED
  BY <1>2, <1>3, <1>4 DEF checkout_at

(* Of a job that neither waits for its repository nor works on it. *)
Rolls == {"launch", "turn", "late", "over", "read", "stopped"}

LEMMA RollMoves ==
    ASSUME BenchInv, NEW i \in Instance, NEW j \in JobStates, JobFits(j), job[i].pc \in Rolls \cup {"lock"},
           j.pc \in Rolls \cup Over, Moves(i, j), UNCHANGED <<host, lock, cache, report>>
    PROVE  BenchInv'
<1>1. LocksHold'
  BY LocksKept DEF Working, Rolls, Over
<1> QED
  BY <1>1, JobMoves DEF Over, Rolls

LEMMA LaunchKeeps ==
    ASSUME BenchInv, NEW i \in Instance, Launch(i) \/ Panics(i)
    PROVE  BenchInv'
<1>1. job[i] \in JobStates /\ JobFits(job[i]) /\ UNCHANGED <<host, lock, cache, report>>
  BY DEF BenchInv, Launch, Panics
<1>2. CASE Moves(i, [job[i] EXCEPT !.pc = "turn", !.live = TRUE]) /\ job[i].pc = "launch"
  <2> DEFINE j == [job[i] EXCEPT !.pc = "turn", !.live = TRUE]
  <2>1. j \in JobStates /\ JobFits(j) /\ j.pc = "turn"
    BY <1>1 DEF JobStates, JobFits
  <2> HIDE DEF j
  <2> QED
    BY <1>1, <1>2, <2>1, RollMoves DEF Rolls, j
<1>3. CASE Ends(i, ErrorResult) /\ job[i].pc = "launch"
  BY <1>1, <1>3, EndsInError DEF Active, Working
<1>4. CASE Panics(i)
  <2> DEFINE j == [Unstarted EXCEPT !.pc = "panicked", !.consented = job[i].consented]
  <2>1. j \in JobStates /\ JobFits(j) /\ j.pc = "panicked"
    BY <1>1 DEF JobStates, JobFits, Unstarted, NoResult, Results, Over
  <2>2. Moves(i, j) /\ job[i].pc \in Rolls \cup {"lock"}
    BY <1>4 DEF Panics, Rolls
  <2> HIDE DEF j
  <2> QED
    BY <1>1, <2>1, <2>2, RollMoves DEF Over
<1> QED
  BY <1>2, <1>3, <1>4 DEF Launch

LEMMA AskKeeps ==
    ASSUME BenchInv, NEW i \in Instance, NEW ask \in Asks, consume_events(i, ask)
    PROVE  BenchInv'
<1>1. job[i] \in JobStates /\ JobFits(job[i]) /\ job[i].pc = "turn" /\ UNCHANGED <<host, lock, cache, report>>
  BY DEF BenchInv, consume_events
<1>2. ~host.exempt
  BY <1>1 DEF BenchInv, HostHolds
<1> DEFINE consented == IF unattended_decision(ask) THEN job[i].consented \cup {ask} ELSE job[i].consented
           j == [job[i] EXCEPT !.asked = @ + 1, !.spent = @ + 1, !.consented = consented]
<1>3. Moves(i, j)
  BY <1>2 DEF consume_events
<1>4. consented \in SUBSET Asks /\ consented \subseteq {"ordinary"}
  BY <1>1 DEF JobStates, JobFits, unattended_decision
<1> HIDE DEF consented
<1>5. j \in JobStates /\ JobFits(j) /\ j.pc = "turn"
  <2>1. job[i].asked + 1 \in Nat /\ job[i].spent + 1 \in Nat
    BY <1>1 DEF JobStates
  <2>2. j = [job[i] EXCEPT !.asked = job[i].asked + 1, !.spent = job[i].spent + 1, !.consented = consented]
    BY <1>1 DEF JobStates
  <2>3. j \in JobStates
    BY <1>1, <1>4, <2>1, <2>2 DEF JobStates
  <2>4. j.pc = "turn" /\ j.consented = consented
    BY <1>1, <2>2 DEF JobStates
  <2> QED
    BY <1>4, <2>3, <2>4 DEF JobFits
<1> HIDE DEF j
<1> QED
  BY <1>1, <1>3, <1>5, RollMoves DEF Rolls

LEMMA TurnKeeps ==
    ASSUME BenchInv, NEW i \in Instance,
           TurnEnds(i) \/ RunsOn(i) \/ StopsTurn(i) \/ ReadsSpend(i) \/ Shutdown(i)
    PROVE  BenchInv'
<1>1. job[i] \in JobStates /\ JobFits(job[i]) /\ UNCHANGED <<host, lock, cache, report>>
  BY DEF BenchInv, TurnEnds, RunsOn, StopsTurn, ReadsSpend, Shutdown
<1>2. SUFFICES \E j \in JobStates : JobFits(j) /\ job[i].pc \in Rolls /\ j.pc \in Rolls /\ Moves(i, j)
  BY <1>1, RollMoves
<1>3. CASE TurnEnds(i)
  <2>1. \E how \in {"finished", "failed", "timeout"}, live \in BOOLEAN, pc \in {"late", "over"} :
           /\ pc = "late" => how = "timeout"
           /\ pc = "over" => how # "timeout" /\ (live => how = "failed")
           /\ Moves(i, [job[i] EXCEPT !.pc = pc, !.turn = how, !.live = live])
    <3>1. [job[i] EXCEPT !.pc = "late", !.turn = "timeout"]
            = [job[i] EXCEPT !.pc = "late", !.turn = "timeout", !.live = job[i].live] /\ job[i].live \in BOOLEAN
      BY <1>1 DEF JobStates
    <3> QED
      BY <1>3, <3>1 DEF TurnEnds
  <2>2. PICK how \in {"finished", "failed", "timeout"}, live \in BOOLEAN, pc \in {"late", "over"} :
           /\ pc = "late" => how = "timeout"
           /\ pc = "over" => how # "timeout" /\ (live => how = "failed")
           /\ Moves(i, [job[i] EXCEPT !.pc = pc, !.turn = how, !.live = live])
    BY <2>1
  <2>3. [job[i] EXCEPT !.pc = pc, !.turn = how, !.live = live] \in JobStates
    BY <1>1 DEF JobStates
  <2>4. JobFits([job[i] EXCEPT !.pc = pc, !.turn = how, !.live = live])
    BY <1>1, <2>2 DEF JobStates, JobFits
  <2> QED
    BY <1>1, <1>3, <2>2, <2>3, <2>4 DEF TurnEnds, Rolls, JobStates
<1>4. CASE RunsOn(i)
  <2> DEFINE j == [job[i] EXCEPT !.asked = job[i].asked + 1, !.spent = job[i].spent + 1]
  <2>1. Moves(i, j) /\ job[i].live /\ job[i].pc \in {"late", "over", "read", "stopped"}
    BY <1>1, <1>4 DEF RunsOn, JobStates
  <2>2. /\ job[i].asked + 1 \in Nat /\ job[i].spent + 1 \in Nat
    BY <1>1 DEF JobStates
  <2>3. j \in JobStates
    BY <1>1, <2>2 DEF JobStates
  <2>4. /\ j.pc = job[i].pc /\ j.consented = job[i].consented /\ j.turn = job[i].turn
        /\ j.live = job[i].live
    BY <1>1 DEF JobStates
  <2> HIDE DEF j
  <2>5. JobFits(j)
    BY <1>1, <2>1, <2>4 DEF JobFits
  <2> QED
    BY <2>1, <2>3, <2>4, <2>5 DEF Rolls
<1>5. CASE StopsTurn(i)
  <2> DEFINE j == [job[i] EXCEPT !.pc = "over", !.live = FALSE]
  <2>1. j \in JobStates /\ JobFits(j) /\ j.pc = "over"
    BY <1>1, <1>5 DEF JobStates, JobFits, StopsTurn
  <2> QED
    BY <1>5, <2>1 DEF StopsTurn, Rolls
<1>6. CASE ReadsSpend(i)
  <2> DEFINE j == [job[i] EXCEPT !.pc = "read", !.cost = job[i].spent]
  <2>1. j \in JobStates /\ JobFits(j) /\ j.pc = "read"
    BY <1>1, <1>6 DEF JobStates, JobFits, ReadsSpend
  <2> QED
    BY <1>6, <2>1 DEF ReadsSpend, Rolls
<1>7. CASE Shutdown(i)
  <2> DEFINE j == [job[i] EXCEPT !.pc = "stopped", !.live = FALSE]
  <2>1. j \in JobStates /\ JobFits(j) /\ j.pc = "stopped"
    BY <1>1, <1>7 DEF JobStates, JobFits, Shutdown
  <2> QED
    BY <1>7, <2>1 DEF Shutdown, Rolls
<1> QED
  BY <1>3, <1>4, <1>5, <1>6, <1>7

LEMMA SingleKeeps ==
    ASSUME BenchInv, NEW i \in Instance, run_single(i)
    PROVE  BenchInv'
<1>1. job[i] \in JobStates /\ JobFits(job[i]) /\ job[i].pc = "stopped" /\ UNCHANGED <<host, lock, cache, report>>
  BY DEF BenchInv, run_single
<1>2. CASE Ends(i, ErrorResult)
  BY <1>1, <1>2, EndsInError DEF Active, Working
<1>3. ASSUME NEW patch \in BOOLEAN, Ends(i, [status |-> Status(job[i], patch), cost |-> job[i].cost])
      PROVE  BenchInv'
  <2> DEFINE result == [status |-> Status(job[i], patch), cost |-> job[i].cost]
             j == [job[i] EXCEPT !.pc = "ended", !.result = result]
  <2>1. result \in Results /\ TrueOf(job[i], result)
    BY <1>1 DEF Results, Status, TrueOf, JobStates, JobFits
  <2> HIDE DEF result
  <2>2. j \in JobStates /\ JobFits(j) /\ j.pc = "ended"
    BY <1>1, <2>1 DEF JobStates, JobFits, TrueOf, Over
  <2>3. Moves(i, j)
    BY <1>3 DEF Ends, result
  <2> HIDE DEF j
  <2> QED
    BY <1>1, <2>2, <2>3, RollMoves DEF Rolls, Over
<1> QED
  BY <1>2, <1>3 DEF run_single

LEMMA BenchSteps == BenchInv /\ BenchNext => BenchInv'
BY BenchBegins, SpawnKeeps, JoinKeeps, SortKeeps, WorkerKeeps, CacheKeeps, CheckoutKeeps, LaunchKeeps, AskKeeps,
   TurnKeeps, SingleKeeps
   DEF BenchNext, BenchStep

LEMMA BenchKept == BenchInv /\ [MCNext]_<<part, fileVars, patchVars, configVars, gitVars, benchVars, sandboxVars>> => BenchInv'
<1> SUFFICES ASSUME BenchInv, [MCNext]_<<part, fileVars, patchVars, configVars, gitVars, benchVars, sandboxVars>>
             PROVE  BenchInv'
  OBVIOUS
<1>1. CASE BenchNext
  BY <1>1, BenchSteps
<1>2. CASE UNCHANGED benchVars
  BY <1>2 DEF benchVars, BenchInv, HostHolds, LocksHold, ReportHolds, EachOnce, Running
<1> QED
  BY <1>1, <1>2 DEF MCNext

(* While the report is not complete something runs, starts next or is        *)
(* reported next: queued instances are the last ones, so with nothing        *)
(* running either the first of them may start, or all are over and the one   *)
(* after those reported may be.                                              *)
LEMMA NeverStuck ==
    ASSUME BenchInv, host.run = "on", Len(report) # Cardinality(Instance)
    PROVE  \E i \in Instance : CanMove(i)
<1>1. SUFFICES ASSUME Running = {} PROVE \E i \in Instance : CanMove(i)
  BY DEF CanMove, Running
<1>2. Cardinality(Instance) \in Nat /\ Instance = 1..Cardinality(Instance)
  BY EvalBenchAssumption, FS_CardinalityType
<1>3. PICK s \in 0..Cardinality(Instance) : \A k \in Instance : job[k].pc = "queued" <=> k > s
  BY DEF BenchInv, HostHolds
<1>4. CASE s # Cardinality(Instance)
  <2>1. s + 1 \in Instance /\ job[s + 1].pc = "queued" /\ \A k \in Instance : k < s + 1 => job[k].pc # "queued"
    BY <1>2, <1>3, <1>4
  <2>2. MayStart
    BY <1>1, FS_EmptySet, EvalBenchAssumption DEF MayStart
  <2> QED
    BY <2>1, <2>2 DEF CanMove, MaySpawn
<1>5. CASE s = Cardinality(Instance)
  <2>1. \A k \in Instance : job[k].pc # "queued" /\ job[k].pc \in Over
    BY <1>1, <1>2, <1>3, <1>5 DEF Running, Over
  <2>2. /\ report \in Seq(Instance \X Results) /\ Len(report) \in Nat /\ DOMAIN report = 1..Len(report)
        /\ \A n \in 1..Len(report) : report[n][1] = n /\ report[n] \in Instance \X Results
    BY DEF BenchInv, ReportHolds, EachOnce
  <2>3. Len(report) + 1 \in Instance
    <3>1. Len(report) = 0 \/ Len(report) \in Instance
      <4>1. SUFFICES ASSUME Len(report) # 0 PROVE Len(report) \in Instance
        OBVIOUS
      <4>2. Len(report) \in 1..Len(report)
        BY <2>2, <4>1
      <4>3. report[Len(report)][1] \in Instance
        BY <2>2, <4>2
      <4> QED
        BY <2>2, <4>2, <4>3
    <3> QED
      BY <1>2, <2>2, <3>1
  <2>4. MayJoin(Len(report) + 1)
    <3>1. \A n \in DOMAIN report : report[n][1] # Len(report) + 1
      BY <2>2
    <3>2. \A k \in Instance : k < Len(report) + 1 => \E n \in DOMAIN report : report[n][1] = k
      BY <1>2, <2>2
    <3> QED
      BY <2>1, <2>3, <3>1, <3>2 DEF MayJoin, Over
  <2> QED
    BY <2>3, <2>4 DEF CanMove
<1> QED
  BY <1>4, <1>5

(* For any number of instances and any interleaving, the harness reports     *)
(* what happened, each instance once and by its id, within its bound and     *)
(* never without a sandbox. (run_bench, run_single, checkout_repo)           *)
THEOREM ReportsAreHonest == MCSpec => []ReportIsHonest
<1>1. MCInit => BenchInv
  BY BenchStarts DEF MCInit
<1>2. BenchInv => ReportIsHonest
  <2> SUFFICES ASSUME BenchInv PROVE ReportIsHonest
    OBVIOUS
  <2>1. WithinBounds
    BY DEF BenchInv, HostHolds, JobFits, Running, WithinBounds
  <2>2. LocksAreHeld
    BY DEF BenchInv, LocksHold, Working, LocksAreHeld
  <2>3. EachOnce /\ \A n \in DOMAIN report : TrueOf(job[report[n][1]], report[n][2])
    BY DEF BenchInv, ReportHolds
  <2>4. ReportGoesOn
    BY NeverStuck DEF ReportGoesOn
  <2> QED
    BY <2>1, <2>2, <2>3, <2>4 DEF ReportIsHonest
<1> QED
  BY <1>1, <1>2, BenchKept, PTL DEF MCSpec

-----------------------------------------------------------------------------
(* The fence *)

(* What a pending root may still become. A granted root is followed from     *)
(* "/"; a temp root is where the system's links lead or, inside, at its last *)
(* name; a root being opened has come inside or is on its way there. None of *)
(* it speaks of the directories as they are, so no command can undo it.      *)
PendingRoots == [kind : {"pinned", "system", "open"}, done : Paths, at : Directory, rest : Paths, links : Nat]

InsideRoots == {p \in Paths : <<Slash, p>> \in Ways}

PinnedRoots == {h \in PendingRoots : h.kind = "pinned" /\ h.rest \in InsideRoots}

SystemRoots ==
    {h \in PendingRoots :
       /\ h.kind = "system"
       /\ IF h.at \in Inside THEN Len(h.rest) <= 1 /\ h.done \o h.rest \in InsideRoots
          ELSE <<h.done, h.at, h.rest>> \in Places}

OpenRoots == {h \in PendingRoots : h.kind = "open" /\ ComesInside(h.at, h.rest)}

Leaves == {Caches[i] : i \in DOMAIN Caches}

LaunchSteps == {"ready", "caches", "refused", "bare", "roots", "open", "confined", "ended"}

TreeHolds ==
    /\ dirs \in [Directory -> [Name -> DirEntries]] /\ moves \in Nat
    /\ Unmoved
    /\ \A d \in Inside, n \in Name :
         /\ dirs[d][n].kind = "dir" => dirs[d][n].dir \in Inside
         /\ dirs[d][n].kind = "link" => dirs[d][n].owner = "user"

LaunchTyped ==
    /\ asked \in [Command -> [fenced : BOOLEAN, network : BOOLEAN, cwd : Cwds \cup {<< >>}]]
    /\ launch \in [Command -> LaunchSteps]
    /\ leaves \in [Command -> Seq(Leaves)]
    /\ todo \in [Command -> Seq(PinnedRoots \cup SystemRoots \cup OpenRoots)]
    /\ found \in [Command -> Seq(InsideRoots)]
    /\ rules \in [Command -> SUBSET Inside]
    /\ note \in [Command -> {"none", "network", "credentials", "write"}]

LaunchHolds(c) ==
    /\ launch[c] # "ready" => asked[c].cwd \in Cwds
    /\ launch[c] = "open" => todo[c] \in Seq(OpenRoots)
    /\ launch[c] = "bare" => ~refuse_bare_execution(c) /\ (~should_sandbox(c) \/ machine.system = "windows")
    /\ launch[c] # "ended" => note[c] = "none"
    /\ note[c] \in {"write", "network"} => should_sandbox(c)
    /\ note[c] = "network" => ~asked[c].network

FenceInv ==
    /\ machine \in [system : {"linux", "windows"}, abi : Nat, arch : BOOLEAN, off : BOOLEAN]
    /\ TreeHolds /\ LaunchTyped /\ \A c \in Command : LaunchHolds(c)

-----------------------------------------------------------------------------
(* A name moved from the rest of a path to what is done leaves the path.     *)
LEMMA OneNameOn ==
    ASSUME NEW q \in Paths, NEW p \in Paths, p # << >>
    PROVE  /\ Head(p) \in Name /\ Tail(p) \in Paths /\ Len(Tail(p)) = Len(p) - 1
           /\ Append(q, Head(p)) \in Paths /\ q \o p \in Paths
           /\ Append(q, Head(p)) \o Tail(p) = q \o p
<1>1. Head(p) \in Name /\ Tail(p) \in Paths /\ Len(Tail(p)) = Len(p) - 1
      /\ \A i \in 1..Len(Tail(p)) : Tail(p)[i] = p[i + 1]
  BY HeadTailProperties DEF Paths
<1>2. Append(q, Head(p)) \in Paths /\ Len(Append(q, Head(p))) = Len(q) + 1
      /\ \A i \in 1..Len(q) : Append(q, Head(p))[i] = q[i]
      /\ Append(q, Head(p))[Len(q) + 1] = Head(p)
  BY <1>1, AppendProperties DEF Paths
<1>3. q \o p \in Paths /\ Len(q \o p) = Len(q) + Len(p)
      /\ \A i \in 1..Len(q) + Len(p) : (q \o p)[i] = IF i <= Len(q) THEN q[i] ELSE p[i - Len(q)]
  BY ConcatProperties DEF Paths
<1>4. LET s == Append(q, Head(p)) IN
      /\ s \o Tail(p) \in Paths /\ Len(s \o Tail(p)) = Len(q) + 1 + Len(Tail(p))
      /\ \A i \in 1..Len(q) + 1 + Len(Tail(p)) :
           (s \o Tail(p))[i] = IF i <= Len(q) + 1 THEN s[i] ELSE Tail(p)[i - (Len(q) + 1)]
  BY <1>1, <1>2, ConcatProperties DEF Paths
<1>5. Len(p) \in Nat /\ Len(q) \in Nat /\ Len(p) # 0 /\ Head(p) = p[1]
  BY EmptySeq, LenProperties DEF Paths
<1> DEFINE s == Append(q, Head(p)) \o Tail(p)
<1>6. s \in Paths /\ Len(s) = Len(q) + Len(p)
  BY <1>1, <1>4, <1>5
<1>7. ASSUME NEW i \in 1..Len(q) + Len(p) PROVE s[i] = (q \o p)[i]
  <2>1. s[i] = IF i <= Len(q) + 1 THEN Append(q, Head(p))[i] ELSE Tail(p)[i - (Len(q) + 1)]
    BY <1>1, <1>4, <1>5
  <2>2. CASE i <= Len(q)
    BY <2>1, <2>2, <1>2, <1>3, <1>5
  <2>3. CASE i = Len(q) + 1
    BY <2>1, <2>3, <1>2, <1>3, <1>5
  <2>4. CASE i > Len(q) + 1
    <3>1. i - (Len(q) + 1) \in 1..Len(Tail(p)) /\ (i - (Len(q) + 1)) + 1 = i - Len(q)
      BY <2>4, <1>1, <1>5
    <3>2. s[i] = p[i - Len(q)]
      BY <2>1, <2>4, <3>1, <1>1, <1>5
    <3> QED
      BY <2>4, <3>2, <1>3, <1>5
  <2> QED
    BY <2>2, <2>3, <2>4, <1>5
<1>8. s = q \o p
  <2> HIDE DEF s
  <2> QED
    BY <1>3, <1>6, <1>7, SeqEqual DEF Paths
<1> QED
  BY <1>1, <1>2, <1>3, <1>8

(* No ruleset reaches outside, since what lies inside stays inside.          *)
LEMMA BelowInside ==
    ASSUME TreeHolds, NEW top \in SUBSET Inside
    PROVE  Below(top) \subseteq Inside
<1>1. Inside \in Closed(top)
  BY LayoutAssumption DEF TreeHolds, Closed
<1> QED
  BY <1>1 DEF Below

(* What stands at a name outside is what stood there, or a new cache.        *)
LEMMA StandsOutside ==
    ASSUME TreeHolds, NEW d \in Directory \ Inside, NEW n \in Name
    PROVE  /\ dirs[d][n].kind = "dir" => dirs[d][n].dir \in Standing(d, n)
           /\ dirs[d][n].kind # "dir" => dirs[d][n] = Layout[d][n]
<1>1. dirs[d][n] \in DirEntries
  BY DEF TreeHolds
<1>2. CASE dirs[d][n] = Layout[d][n]
  BY <1>1, <1>2 DEF Standing, DirEntries, Voids, Directories, Symlinks
<1>3. ASSUME NEW i \in DOMAIN Caches, Caches[i].at = d, Caches[i].name = n, dirs[d][n] = DirAt(Caches[i].dir)
      PROVE  dirs[d][n].kind = "dir" /\ dirs[d][n].dir \in Standing(d, n)
  BY <1>1, <1>3 DEF Standing, DirEntries, Voids, Directories, Symlinks, DirAt
<1> QED
  BY <1>2, <1>3 DEF TreeHolds, Unmoved

-----------------------------------------------------------------------------
LEMMA FenceStarts == SandboxInit => FenceInv
<1> SUFFICES ASSUME NEW m \in Machines, SandboxOn(m) PROVE FenceInv
  BY DEF SandboxInit
<1>1. machine \in [system : {"linux", "windows"}, abi : Nat, arch : BOOLEAN, off : BOOLEAN]
  BY LayoutAssumption DEF SandboxOn
<1>2. TreeHolds
  BY LayoutAssumption DEF SandboxOn, TreeHolds, Unmoved
<1>3. LaunchTyped
  BY EmptySeq DEF SandboxOn, LaunchTyped, Unasked, LaunchSteps
<1>4. \A c \in Command : LaunchHolds(c)
  BY DEF SandboxOn, LaunchHolds
<1> QED
  BY <1>1, <1>2, <1>3, <1>4 DEF FenceInv

(* A step of one command's launch leaves what holds of the others.           *)
LEMMA OneLaunch ==
    ASSUME FenceInv, NEW c \in Command, machine' = machine, TreeHolds', LaunchTyped', LaunchHolds(c)',
           \A d \in Command \ {c} : /\ asked'[d] = asked[d] /\ launch'[d] = launch[d]
                                    /\ todo'[d] = todo[d] /\ note'[d] = note[d]
    PROVE  FenceInv'
<1>1. ASSUME NEW d \in Command \ {c} PROVE LaunchHolds(d)'
  BY <1>1 DEF FenceInv, LaunchHolds, refuse_bare_execution, should_sandbox
<1> QED
  BY <1>1 DEF FenceInv

LEMMA TreeStays == TreeHolds /\ UNCHANGED <<dirs, moves>> => TreeHolds'
BY DEF TreeHolds, Unmoved

(* What is added at the end of a sequence, and what is left of it.           *)
LEMMA OneMore == ASSUME NEW Kind, NEW s \in Seq(Kind), NEW x \in Kind PROVE Append(s, x) \in Seq(Kind)
BY AppendProperties

LEMMA OneLess == ASSUME NEW Kind, NEW s \in Seq(Kind), s # << >> PROVE Head(s) \in Kind /\ Tail(s) \in Seq(Kind)
BY HeadTailProperties

LEMMA Replaced ==
    ASSUME NEW Kind, NEW s \in Seq(Kind), s # << >>, NEW x \in Kind PROVE <<x>> \o Tail(s) \in Seq(Kind)
BY HeadTailProperties, ConcatProperties

LEMMA OnceOnly == ASSUME NEW Kind, NEW s \in Seq(Kind), NEW x \in Kind PROVE Once(s, x) \in Seq(Kind)
BY OneMore DEF Once

(* Roots that wait for their turn, one for each path of a list.              *)
LEMMA Waiting ==
    ASSUME NEW Kind, NEW k, NEW paths \in Seq(Paths), \A i \in DOMAIN paths : Pending(k, paths[i]) \in Kind
    PROVE  [i \in DOMAIN paths |-> Pending(k, paths[i])] \in Seq(Kind)
<1>1. DOMAIN paths = 1..Len(paths) /\ Len(paths) \in Nat
  BY LenProperties
<1>2. [i \in 1..Len(paths) |-> Pending(k, paths[i])] \in [1..Len(paths) -> Kind]
  BY <1>1
<1> QED
  BY <1>1, <1>2, SeqDef

LEMMA Waits ==
    /\ \A p \in InsideRoots : Pending("pinned", p) \in PinnedRoots /\ Pending("open", p) \in OpenRoots
    /\ \A p \in Paths : <<<< >>, Slash, p>> \in Places => Pending("system", p) \in SystemRoots
<1>1. << >> \in Paths
  BY EmptySeq DEF Paths
<1>2. \A p \in Paths, k \in {"pinned", "system", "open"} : Pending(k, p) \in PendingRoots
  BY <1>1, LayoutAssumption DEF Pending, PendingRoots
<1> QED
  BY <1>2, LayoutAssumption DEF InsideRoots, PinnedRoots, SystemRoots, OpenRoots, Pending, ComesInside

-----------------------------------------------------------------------------
LEMMA RootsKeep ==
    ASSUME FenceInv, NEW c \in Command, NEW fenced \in BOOLEAN, NEW network \in BOOLEAN, NEW cwd \in Cwds,
           sandbox_roots(c, fenced, network, cwd)
    PROVE  FenceInv'
<1>1. TreeHolds'
  BY TreeStays DEF FenceInv, sandbox_roots
<1>2. [i \in DOMAIN Granted |-> Pending("pinned", Granted[i])] \in Seq(PinnedRoots \cup SystemRoots \cup OpenRoots)
  <2>1. \A i \in DOMAIN Granted : Granted[i] \in InsideRoots
    BY WaysAssumption, LenProperties, ElementOfSeq DEF InsideRoots
  <2> QED
    BY <2>1, Waits, Waiting, WaysAssumption
<1>3. Caches \in Seq(Leaves) /\ << >> \in Seq(Leaves)
  <2>1. DOMAIN Caches = 1..Len(Caches) /\ Len(Caches) \in Nat /\ Caches \in [1..Len(Caches) -> Leaves]
    BY WaysAssumption, LenProperties DEF Leaves
  <2> QED
    BY <2>1, SeqDef, EmptySeq
<1>4. LaunchTyped'
  BY <1>2, <1>3 DEF FenceInv, LaunchTyped, sandbox_roots, LaunchSteps
<1>5. LaunchHolds(c)'
  BY DEF FenceInv, LaunchTyped, LaunchHolds, sandbox_roots
<1> QED
  BY <1>1, <1>4, <1>5, OneLaunch DEF FenceInv, LaunchTyped, sandbox_roots

LEMMA EnsureKeeps == ASSUME FenceInv, NEW c \in Command, ensure(c) PROVE FenceInv'
<1> DEFINE leaf == Head(leaves[c])
<1>1. leaf \in Leaves /\ Tail(leaves[c]) \in Seq(Leaves)
  BY OneLess DEF FenceInv, LaunchTyped, ensure
<1>2. PICK i \in DOMAIN Caches : leaf = Caches[i]
  BY <1>1 DEF Leaves
<1>3. /\ leaf.path \in InsideRoots /\ leaf.at \in Directory \ Inside
      /\ leaf.name \in Name /\ leaf.dir \in Inside /\ leaf.dir \in Directory
  <2>1. DOMAIN Caches = 1..Len(Caches)
    BY WaysAssumption, LenProperties
  <2>2. Caches[i] \in [path : Paths, at : Directory \ Inside, name : Name, dir : Inside]
    BY <2>1, WaysAssumption, ElementOfSeq
  <2>3. <<Slash, Caches[i].path>> \in Ways
    BY WaysAssumption
  <2> QED
    BY <1>2, <2>2, <2>3, LayoutAssumption DEF InsideRoots
<1>4. TreeHolds'
  <2>1. CASE dirs' = [dirs EXCEPT ![leaf.at][leaf.name] = DirAt(leaf.dir)]
    <3>1. DirAt(leaf.dir) \in DirEntries
      BY <1>3 DEF DirAt, DirEntries, Directories
    <3>2. dirs' \in [Directory -> [Name -> DirEntries]] /\ moves' \in Nat
      BY <2>1, <1>3, <3>1 DEF FenceInv, TreeHolds, ensure
    <3>3. \A d \in Directory, n \in Name :
            dirs'[d][n] = IF d = leaf.at /\ n = leaf.name THEN DirAt(leaf.dir) ELSE dirs[d][n]
      BY <2>1, <1>3 DEF FenceInv, TreeHolds
    <3>4. Unmoved'
      BY <3>3, <1>2 DEF FenceInv, TreeHolds, Unmoved
    <3>5. \A d \in Inside, n \in Name : dirs'[d][n] = dirs[d][n]
      BY <3>3, <1>3, LayoutAssumption
    <3> QED
      BY <3>2, <3>4, <3>5 DEF FenceInv, TreeHolds
  <2> QED
    BY <2>1, TreeStays DEF FenceInv, ensure
<1>5. todo' \in [Command -> Seq(PinnedRoots \cup SystemRoots \cup OpenRoots)]
  <2> DEFINE Some == PinnedRoots \cup SystemRoots \cup OpenRoots
  <2>1. Pending("pinned", leaf.path) \in Some /\ todo \in [Command -> Seq(Some)]
    BY <1>3, Waits DEF FenceInv, LaunchTyped
  <2>2. todo' = todo \/ todo' = [todo EXCEPT ![c] = Append(@, Pending("pinned", leaf.path))]
    BY DEF ensure
  <2> HIDE DEF Some, leaf
  <2>3. Append(todo[c], Pending("pinned", leaf.path)) \in Seq(Some)
    BY <2>1, OneMore
  <2>4. todo' \in [Command -> Seq(Some)]
    BY <2>1, <2>2, <2>3
  <2> QED
    BY <2>4 DEF Some
<1>6. LaunchTyped'
  BY <1>1, <1>5 DEF FenceInv, LaunchTyped, ensure
<1>7. LaunchHolds(c)'
  BY DEF FenceInv, LaunchHolds, ensure, refuse_bare_execution, should_sandbox
<1>8. \A d \in Command \ {c} : todo'[d] = todo[d]
  BY DEF FenceInv, LaunchTyped, ensure
<1> QED
  BY <1>4, <1>6, <1>7, <1>8, OneLaunch DEF ensure

LEMMA RefuseKeeps == ASSUME FenceInv, NEW c \in Command, Refuse(c) PROVE FenceInv'
<1>1. TreeHolds'
  BY TreeStays DEF FenceInv, Refuse
<1>2. LaunchTyped' /\ LaunchHolds(c)'
  BY DEF FenceInv, LaunchTyped, LaunchHolds, Refuse, LaunchSteps, refuse_bare_execution, should_sandbox
<1> QED
  BY <1>1, <1>2, OneLaunch DEF FenceInv, LaunchTyped, Refuse

LEMMA BareKeeps == ASSUME FenceInv, NEW c \in Command, RunBare(c) PROVE FenceInv'
<1>1. TreeHolds'
  BY TreeStays DEF FenceInv, RunBare
<1>2. LaunchTyped' /\ LaunchHolds(c)'
  BY DEF FenceInv, LaunchTyped, LaunchHolds, RunBare, LaunchSteps, refuse_bare_execution, should_sandbox
<1> QED
  BY <1>1, <1>2, OneLaunch DEF FenceInv, LaunchTyped, RunBare

LEMMA WrapKeeps == ASSUME FenceInv, NEW c \in Command, wrap_command(c) PROVE FenceInv'
<1>1. TreeHolds'
  BY TreeStays DEF FenceInv, wrap_command
<1> DEFINE Some == PinnedRoots \cup SystemRoots \cup OpenRoots
<1>2. <<Pending("pinned", asked[c].cwd)>> \in Seq(Some)
  <2>1. asked[c].cwd \in InsideRoots
    BY WaysAssumption DEF FenceInv, LaunchHolds, wrap_command, InsideRoots
  <2>2. Pending("pinned", asked[c].cwd) \in Some
    BY <2>1, Waits
  <2> QED
    BY <2>2
<1>3. [i \in DOMAIN Temps |-> Pending("system", Temps[i])] \in Seq(Some)
  <2>1. \A i \in DOMAIN Temps : Temps[i] \in Paths
    BY PlacesAssumption, LenProperties, ElementOfSeq
  <2> QED
    BY <2>1, PlacesAssumption, Waits, Waiting
<1> HIDE DEF Some
<1>4. todo[c] \o <<Pending("pinned", asked[c].cwd)>> \o [i \in DOMAIN Temps |-> Pending("system", Temps[i])] \in Seq(Some)
  BY <1>2, <1>3, ConcatProperties DEF FenceInv, LaunchTyped, Some
<1>5. LaunchTyped'
  BY <1>4 DEF FenceInv, LaunchTyped, wrap_command, LaunchSteps, Some
<1>6. LaunchHolds(c)'
  BY DEF FenceInv, LaunchTyped, LaunchHolds, wrap_command, refuse_bare_execution, should_sandbox
<1> QED
  BY <1>1, <1>5, <1>6, OneLaunch DEF FenceInv, LaunchTyped, wrap_command

LEMMA PinnedKeeps == ASSUME FenceInv, NEW c \in Command, resolve_pinned_root(c) PROVE FenceInv'
<1> DEFINE Some == PinnedRoots \cup SystemRoots \cup OpenRoots
           h == Head(todo[c])
<1>1. h \in Some /\ Tail(todo[c]) \in Seq(Some) /\ todo \in [Command -> Seq(Some)]
  BY OneLess DEF FenceInv, LaunchTyped, resolve_pinned_root
<1>2. h.kind = "pinned"
  BY DEF resolve_pinned_root
<1>3. h.rest \in InsideRoots
  BY <1>1, <1>2 DEF PinnedRoots, SystemRoots, OpenRoots
<1>4. TreeHolds'
  BY TreeStays DEF FenceInv, resolve_pinned_root
<1>5. found' \in [Command -> Seq(InsideRoots)]
  <2>1. found' = found \/ found' = [found EXCEPT ![c] = Once(@, h.rest)]
    BY DEF resolve_pinned_root
  <2> HIDE DEF h
  <2>2. found \in [Command -> Seq(InsideRoots)]
    BY DEF FenceInv, LaunchTyped
  <2>3. Once(found[c], h.rest) \in Seq(InsideRoots)
    BY <1>3, <2>2, OnceOnly
  <2> QED
    BY <2>1, <2>2, <2>3
<1>6. LaunchTyped'
  BY <1>1, <1>5 DEF FenceInv, LaunchTyped, resolve_pinned_root
<1>7. LaunchHolds(c)'
  BY DEF FenceInv, LaunchHolds, resolve_pinned_root, refuse_bare_execution, should_sandbox
<1> QED
  BY <1>1, <1>4, <1>6, <1>7, OneLaunch DEF resolve_pinned_root

(* Each look of a temp root's resolution keeps it on its way: what stands    *)
(* outside is known, and inside only the last name is looked at.             *)
LEMMA SystemStep ==
    ASSUME TreeHolds, NEW h \in SystemRoots, h.rest # << >>
    PROVE  LET n == Head(h.rest)
               e == dirs[h.at][n]
           IN  /\ e.kind = "none" => h.done \o h.rest \in InsideRoots
               /\ e.kind = "dir" =>
                    [h EXCEPT !.done = Append(@, n), !.at = e.dir, !.rest = Tail(@)] \in SystemRoots
               /\ e.kind = "link" /\ Follows(e, h) =>
                    [h EXCEPT !.done = IF e.absolute THEN << >> ELSE @, !.at = IF e.absolute THEN Slash ELSE @,
                              !.rest = e.to \o Tail(@), !.links = @ + 1] \in SystemRoots
<1> DEFINE n == Head(h.rest)
           e == dirs[h.at][n]
<1>1. /\ h \in PendingRoots /\ h.kind = "system" /\ h.done \in Paths /\ h.at \in Directory
      /\ h.rest \in Paths /\ h.links \in Nat
  BY DEF SystemRoots, PendingRoots
<1>2. /\ n \in Name /\ Tail(h.rest) \in Paths /\ Len(Tail(h.rest)) = Len(h.rest) - 1 /\ Len(h.rest) \in Nat
      /\ Append(h.done, n) \in Paths /\ h.done \o h.rest \in Paths
      /\ Append(h.done, n) \o Tail(h.rest) = h.done \o h.rest
  BY <1>1, OneNameOn, LenProperties DEF Paths
<1>3. e \in DirEntries
  BY <1>1, <1>2 DEF TreeHolds
<1>4. CASE h.at \in Inside
  <2>1. Len(h.rest) <= 1 /\ h.done \o h.rest \in InsideRoots
    BY <1>4 DEF SystemRoots
  <2>2. e.kind = "dir" => e.dir \in Inside
    BY <1>2, <1>4 DEF TreeHolds
  <2>3. ~(e.kind = "link" /\ Follows(e, h))
    BY <1>2, <1>4 DEF TreeHolds, Follows
  <2>4. ASSUME e.kind = "dir"
        PROVE  [h EXCEPT !.done = Append(@, n), !.at = e.dir, !.rest = Tail(@)] \in SystemRoots
    <3> DEFINE g == [h EXCEPT !.done = Append(h.done, n), !.at = e.dir, !.rest = Tail(h.rest)]
    <3>1. e.dir \in Inside /\ e.dir \in Directory
      BY <2>2, <2>4, LayoutAssumption
    <3>2. g \in PendingRoots /\ g.kind = "system" /\ g.at = e.dir /\ g.done = Append(h.done, n) /\ g.rest = Tail(h.rest)
      BY <1>1, <1>2, <3>1 DEF PendingRoots
    <3> HIDE DEF g
    <3>3. Len(g.rest) <= 1 /\ g.done \o g.rest \in InsideRoots
      <4>1. Len(g.rest) = Len(h.rest) - 1
        BY <1>2, <3>2
      <4>2. g.done \o g.rest = h.done \o h.rest
        BY <1>2, <3>2
      <4> QED
        BY <1>2, <2>1, <4>1, <4>2
    <3>4. g \in SystemRoots
      BY <3>1, <3>2, <3>3 DEF SystemRoots
    <3> QED
      BY <3>4 DEF g
  <2> QED
    BY <2>1, <2>3, <2>4
<1>5. CASE h.at \notin Inside
  <2> DEFINE w == <<h.done, h.at, h.rest>>
  <2>1. w \in Places /\ w[1] = h.done /\ w[2] = h.at /\ w[3] = h.rest
    BY <1>5 DEF SystemRoots
  <2>2. /\ Layout[h.at][n].kind = "none" => <<Slash, h.done \o h.rest>> \in Ways
        /\ \A x \in Standing(h.at, n) :
             IF x \in Inside THEN Len(h.rest) <= 2 /\ <<Slash, h.done \o h.rest>> \in Ways
             ELSE <<Append(h.done, n), x, Tail(h.rest)>> \in Places
        /\ Layout[h.at][n].kind = "link" /\ Layout[h.at][n].owner = "root" =>
             <<IF Layout[h.at][n].absolute THEN << >> ELSE h.done, IF Layout[h.at][n].absolute THEN Slash ELSE h.at,
               Layout[h.at][n].to \o Tail(h.rest)>> \in Places
    BY <2>1, PlacesAssumption
  <2>3. /\ e.kind = "dir" => e.dir \in Standing(h.at, n)
        /\ e.kind # "dir" => e = Layout[h.at][n]
    BY <1>1, <1>2, <1>5, StandsOutside
  <2>4. e.kind = "none" => h.done \o h.rest \in InsideRoots
    BY <1>2, <2>2, <2>3 DEF InsideRoots
  <2>5. ASSUME e.kind = "dir"
        PROVE  [h EXCEPT !.done = Append(@, n), !.at = e.dir, !.rest = Tail(@)] \in SystemRoots
    <3> DEFINE g == [h EXCEPT !.done = Append(h.done, n), !.at = e.dir, !.rest = Tail(h.rest)]
    <3>1. e.dir \in Standing(h.at, n) /\ e.dir \in Directory
      BY <2>3, <2>5 DEF Standing
    <3>2. g \in PendingRoots /\ g.kind = "system" /\ g.at = e.dir /\ g.done = Append(h.done, n) /\ g.rest = Tail(h.rest)
      BY <1>1, <1>2, <3>1 DEF PendingRoots
    <3> HIDE DEF g, e, n
    <3>3. g \in SystemRoots
      <4>1. ASSUME e.dir \in Inside PROVE Len(g.rest) <= 1 /\ g.done \o g.rest \in InsideRoots
        <5>1. Len(h.rest) <= 2 /\ h.done \o h.rest \in InsideRoots
          BY <1>2, <2>2, <3>1, <4>1 DEF InsideRoots
        <5>2. Len(g.rest) = Len(h.rest) - 1
          BY <1>2, <3>2
        <5>3. g.done \o g.rest = h.done \o h.rest
          BY <1>2, <3>2
        <5> QED
          BY <1>2, <5>1, <5>2, <5>3
      <4>2. ASSUME e.dir \notin Inside PROVE <<g.done, g.at, g.rest>> \in Places
        BY <2>2, <3>1, <3>2, <4>2
      <4> QED
        BY <3>2, <4>1, <4>2 DEF SystemRoots
    <3> QED
      BY <3>3 DEF g, e, n
  <2>6. ASSUME e.kind = "link", Follows(e, h)
        PROVE  [h EXCEPT !.done = IF e.absolute THEN << >> ELSE @, !.at = IF e.absolute THEN Slash ELSE @,
                         !.rest = e.to \o Tail(@), !.links = @ + 1] \in SystemRoots
    <3> DEFINE done == IF e.absolute THEN << >> ELSE h.done
               at == IF e.absolute THEN Slash ELSE h.at
               after == e.to \o Tail(h.rest)
               g == [h EXCEPT !.done = done, !.at = at, !.rest = after, !.links = h.links + 1]
    <3>1. <<done, at, after>> \in Places
      BY <2>2, <2>3, <2>6 DEF Follows
    <3>2. done \in Paths /\ at \in Directory \ Inside /\ after \in Paths
      BY <3>1, PlacesAssumption
    <3> HIDE DEF done, at, after, e, n
    <3>a. h.links + 1 \in Nat
      BY <1>1
    <3>3. g \in PendingRoots /\ g.kind = "system" /\ g.at = at /\ g.done = done /\ g.rest = after
      BY <1>1, <3>a, <3>2 DEF PendingRoots
    <3> HIDE DEF g
    <3>4. g \in SystemRoots
      BY <3>1, <3>2, <3>3 DEF SystemRoots
    <3> QED
      BY <3>4 DEF g, done, at, after, e, n
  <2> QED
    BY <2>4, <2>5, <2>6
<1> QED
  BY <1>4, <1>5

LEMMA SystemKeeps == ASSUME FenceInv, NEW c \in Command, resolve_system_root(c) PROVE FenceInv'
<1> DEFINE Some == PinnedRoots \cup SystemRoots \cup OpenRoots
           h == Head(todo[c])
           n == Head(h.rest)
           e == dirs[h.at][n]
           dir == [h EXCEPT !.done = Append(@, n), !.at = e.dir, !.rest = Tail(@)]
           link == [h EXCEPT !.done = IF e.absolute THEN << >> ELSE @, !.at = IF e.absolute THEN Slash ELSE @,
                             !.rest = e.to \o Tail(@), !.links = @ + 1]
<1>1. h \in Some /\ Tail(todo[c]) \in Seq(Some) /\ todo \in [Command -> Seq(Some)] /\ todo[c] # << >>
  BY OneLess DEF FenceInv, LaunchTyped, resolve_system_root
<1>2. h \in SystemRoots /\ h.done \in Paths /\ h.rest \in Paths
  BY <1>1 DEF resolve_system_root, PinnedRoots, SystemRoots, OpenRoots, PendingRoots
<1>3. TreeHolds /\ TreeHolds'
  BY TreeStays DEF FenceInv, resolve_system_root
<1>4. h.rest = << >> => h.done \in InsideRoots
  <2>1. SUFFICES ASSUME h.rest = << >> PROVE h.done \in InsideRoots
    OBVIOUS
  <2>2. h.done \o h.rest = h.done
    BY <1>2, <2>1, ConcatEmptySeq DEF Paths
  <2>3. h.at \in Inside
    <3>1. SUFFICES ASSUME <<h.done, h.at, h.rest>> \in Places PROVE FALSE
      BY <1>2 DEF SystemRoots
    <3> QED
      BY <2>1, <3>1, PlacesAssumption
  <2> QED
    BY <1>2, <2>2, <2>3 DEF SystemRoots
<1>5. h.rest # << >> => /\ e.kind = "none" => h.done \o h.rest \in InsideRoots
                        /\ e.kind = "dir" => dir \in SystemRoots
                        /\ e.kind = "link" /\ Follows(e, h) => link \in SystemRoots
  BY <1>2, <1>3, SystemStep
<1>6. \/ /\ todo' = [todo EXCEPT ![c] = Tail(@)]
         /\ found' = found \/ \E p \in InsideRoots : found' = [found EXCEPT ![c] = Once(@, p)]
      \/ /\ found' = found
         /\ \E g \in SystemRoots : todo' = [todo EXCEPT ![c] = <<g>> \o Tail(@)]
  <2>1. CASE h.rest = << >>
    BY <2>1, <1>4 DEF resolve_system_root, Resolved
  <2>2. CASE h.rest # << >> /\ e.kind = "none" /\ Resolved(c, h.done \o h.rest)
    BY <2>2, <1>5 DEF Resolved
  <2>3. CASE h.rest # << >> /\ e.kind = "dir" /\ Onward(c, dir) /\ UNCHANGED found
    <3> HIDE DEF dir
    <3> QED
      BY <2>3, <1>5 DEF Onward
  <2>4. CASE Withhold(c)
    BY <2>4 DEF Withhold
  <2>5. CASE h.rest # << >> /\ e.kind = "link" /\ Follows(e, h) /\ Onward(c, link) /\ UNCHANGED found
    <3> HIDE DEF link
    <3> QED
      BY <2>5, <1>5 DEF Onward
  <2> QED
    BY <2>1, <2>2, <2>3, <2>4, <2>5 DEF resolve_system_root
<1>7. todo' \in [Command -> Seq(Some)] /\ found' \in [Command -> Seq(InsideRoots)]
      /\ \A d \in Command \ {c} : todo'[d] = todo[d]
  <2> HIDE DEF h
  <2>1. found \in [Command -> Seq(InsideRoots)]
    BY DEF FenceInv, LaunchTyped
  <2>2. \A p \in InsideRoots : Once(found[c], p) \in Seq(InsideRoots)
    BY <2>1, OnceOnly
  <2>3. \A g \in SystemRoots : <<g>> \o Tail(todo[c]) \in Seq(Some)
    <3> TAKE g \in SystemRoots
    <3>1. g \in Some
      OBVIOUS
    <3> HIDE DEF Some
    <3> QED
      BY <1>1, <3>1, Replaced
  <2> HIDE DEF Some
  <2> QED
    BY <1>1, <1>6, <2>1, <2>2, <2>3
<1>8. LaunchTyped'
  BY <1>7 DEF FenceInv, LaunchTyped, resolve_system_root
<1>9. LaunchHolds(c)'
  BY DEF FenceInv, LaunchHolds, resolve_system_root, refuse_bare_execution, should_sandbox
<1> QED
  BY <1>3, <1>7, <1>8, <1>9, OneLaunch DEF resolve_system_root

LEMMA BuildKeeps == ASSUME FenceInv, NEW c \in Command, build_landlock(c) PROVE FenceInv'
<1> DEFINE opens == [i \in DOMAIN found[c] |-> Pending("open", found[c][i])]
<1>1. TreeHolds'
  BY TreeStays DEF FenceInv, build_landlock
<1>2. opens \in Seq(OpenRoots)
  <2>1. found[c] \in Seq(InsideRoots)
    BY DEF FenceInv, LaunchTyped
  <2>2. found[c] \in Seq(Paths) /\ \A i \in DOMAIN found[c] : found[c][i] \in InsideRoots
    BY ZenonT(40), <2>1, SeqMonotonic, LenProperties, ElementOfSeq DEF InsideRoots
  <2> QED
    BY <2>2, Waits, Waiting
<1>3. opens \in Seq(PinnedRoots \cup SystemRoots \cup OpenRoots)
  BY <1>2, SeqMonotonic
<1> HIDE DEF opens
<1>4. launch' = [launch EXCEPT ![c] = "open"] /\ todo' = [todo EXCEPT ![c] = opens]
  BY DEF build_landlock, opens
<1>5. LaunchTyped'
  <2> DEFINE Some == PinnedRoots \cup SystemRoots \cup OpenRoots
  <2>1. todo \in [Command -> Seq(Some)] /\ opens \in Seq(Some)
    BY <1>3 DEF FenceInv, LaunchTyped
  <2> HIDE DEF Some
  <2>2. todo' \in [Command -> Seq(Some)]
    BY <1>4, <2>1
  <2> QED
    BY <1>4, <2>2 DEF FenceInv, LaunchTyped, build_landlock, LaunchSteps, Some
<1>6. LaunchHolds(c)'
  BY <1>2, <1>4 DEF FenceInv, LaunchTyped, LaunchHolds, build_landlock, refuse_bare_execution, should_sandbox
<1> QED
  BY <1>1, <1>4, <1>5, <1>6, OneLaunch DEF FenceInv, LaunchTyped, build_landlock

(* A step of an open goes on inside, or on a way that leads there.           *)
LEMMA OpenStep ==
    ASSUME TreeHolds, NEW h \in OpenRoots
    PROVE  /\ h.rest = << >> => h.at \in Inside
           /\ LET e == dirs[h.at][Head(h.rest)]
              IN  h.rest # << >> /\ e.kind = "dir" => [h EXCEPT !.at = e.dir, !.rest = Tail(@)] \in OpenRoots
<1> DEFINE n == Head(h.rest)
           e == dirs[h.at][n]
           g == [h EXCEPT !.at = e.dir, !.rest = Tail(h.rest)]
<1>1. h \in PendingRoots /\ h.kind = "open" /\ h.at \in Directory /\ h.rest \in Paths /\ ComesInside(h.at, h.rest)
  BY DEF OpenRoots, PendingRoots
<1>2. h.rest = << >> => h.at \in Inside
  BY <1>1, WaysAssumption DEF ComesInside
<1>3. ASSUME h.rest # << >>, e.kind = "dir" PROVE g \in OpenRoots
  <2>1. n \in Name /\ Tail(h.rest) \in Paths
    BY <1>1, <1>3, OneNameOn, EmptySeq DEF Paths
  <2>2. e.dir \in Directory /\ ComesInside(e.dir, Tail(h.rest))
    <3>1. CASE h.at \in Inside
      BY <1>3, <2>1, <3>1, LayoutAssumption DEF TreeHolds, ComesInside
    <3>2. CASE h.at \notin Inside
      <4>1. <<h.at, h.rest>> \in Ways
        BY <1>1, <3>2 DEF ComesInside
      <4>2. \A x \in Standing(h.at, n) : ComesInside(x, Tail(h.rest))
        BY <4>1, WaysAssumption
      <4>3. e.dir \in Standing(h.at, n)
        BY <1>1, <1>3, <2>1, <3>2, StandsOutside
      <4> QED
        BY <4>2, <4>3 DEF Standing
    <3> QED
      BY <3>1, <3>2
  <2>3. g \in PendingRoots /\ g.kind = "open" /\ g.at = e.dir /\ g.rest = Tail(h.rest)
    BY <1>1, <2>1, <2>2 DEF PendingRoots
  <2> HIDE DEF g, e
  <2> QED
    BY <2>2, <2>3 DEF OpenRoots
<1> QED
  BY <1>2, <1>3

LEMMA OpenKeeps == ASSUME FenceInv, NEW c \in Command, open_without_symlinks(c) PROVE FenceInv'
<1> DEFINE h == Head(todo[c])
           e == dirs[h.at][Head(h.rest)]
           dir == [h EXCEPT !.at = e.dir, !.rest = Tail(@)]
<1>1. todo[c] \in Seq(OpenRoots) /\ todo[c] # << >> /\ launch[c] = "open"
  BY DEF FenceInv, LaunchHolds, open_without_symlinks
<1>2. h \in OpenRoots /\ Tail(todo[c]) \in Seq(OpenRoots)
  BY <1>1, OneLess
<1>3. TreeHolds /\ TreeHolds'
  BY TreeStays DEF FenceInv, open_without_symlinks
<1>4. /\ h.rest = << >> => h.at \in Inside
      /\ h.rest # << >> /\ e.kind = "dir" => dir \in OpenRoots
  BY <1>2, <1>3, OpenStep
<1>5. \E s \in Seq(OpenRoots) : todo' = [todo EXCEPT ![c] = s]
  <2>1. CASE todo' = [todo EXCEPT ![c] = Tail(@)]
    BY <1>2, <2>1
  <2>2. CASE h.rest # << >> /\ e.kind = "dir" /\ Onward(c, dir)
    <3> HIDE DEF dir, h
    <3>1. <<dir>> \o Tail(todo[c]) \in Seq(OpenRoots)
      BY <1>1, <1>4, <2>2, Replaced
    <3>2. todo' = [todo EXCEPT ![c] = <<dir>> \o Tail(todo[c])]
      BY <2>2 DEF Onward
    <3> QED
      BY <3>1, <3>2
  <2> QED
    BY <2>1, <2>2 DEF open_without_symlinks
<1>6. rules' \in [Command -> SUBSET Inside]
  <2>1. rules' = rules \/ (h.rest = << >> /\ rules' = [rules EXCEPT ![c] = @ \cup {h.at}])
    BY DEF open_without_symlinks
  <2> HIDE DEF h
  <2>2. rules \in [Command -> SUBSET Inside]
    BY DEF FenceInv, LaunchTyped
  <2> QED
    BY <1>4, <2>1, <2>2
<1>7. PICK s \in Seq(OpenRoots) : todo' = [todo EXCEPT ![c] = s]
  BY <1>5
<1>8. s \in Seq(PinnedRoots \cup SystemRoots \cup OpenRoots)
  BY SeqMonotonic
<1>9. LaunchTyped'
  BY <1>6, <1>7, <1>8 DEF FenceInv, LaunchTyped, open_without_symlinks
<1>10. LaunchHolds(c)'
  BY <1>7 DEF FenceInv, LaunchTyped, LaunchHolds, open_without_symlinks, refuse_bare_execution, should_sandbox
<1> QED
  BY <1>3, <1>7, <1>9, <1>10, OneLaunch DEF FenceInv, LaunchTyped, open_without_symlinks

LEMMA ConfinedKeeps == ASSUME FenceInv, NEW c \in Command, Confined(c) PROVE FenceInv'
<1>1. TreeHolds'
  BY TreeStays DEF FenceInv, Confined
<1>2. LaunchTyped' /\ LaunchHolds(c)'
  BY DEF FenceInv, LaunchTyped, LaunchHolds, Confined, LaunchSteps, refuse_bare_execution, should_sandbox
<1> QED
  BY <1>1, <1>2, OneLaunch DEF FenceInv, LaunchTyped, Confined

(* A command writes inside: what it puts there is the user's link or a       *)
(* directory from inside, and what it moves was inside.                      *)
LEMMA WritesInside ==
    ASSUME FenceInv, NEW c \in Command, Changes(c),
           dirs' \in [Directory -> [Name -> DirEntries]],
           \A d \in Directory \ Inside, n \in Name : dirs'[d][n] = dirs[d][n],
           \A d \in Inside, n \in Name : /\ dirs'[d][n].kind = "dir" => dirs'[d][n].dir \in Inside
                                         /\ dirs'[d][n].kind = "link" => dirs'[d][n].owner = "user"
    PROVE  FenceInv'
<1>1. TreeHolds'
  BY LayoutAssumption DEF FenceInv, TreeHolds, Changes, Unmoved
<1>2. LaunchTyped'
  BY DEF FenceInv, LaunchTyped, Changes, launchVars
<1>3. \A d \in Command : LaunchHolds(d)'
  BY DEF FenceInv, LaunchHolds, Changes, launchVars, refuse_bare_execution, should_sandbox
<1> QED
  BY <1>1, <1>2, <1>3 DEF FenceInv, Changes

LEMMA PutKeeps == ASSUME FenceInv, NEW c \in Command, Put(c) PROVE FenceInv'
<1>1. Changes(c) /\ Writable(c) \subseteq Inside
  BY BelowInside DEF Put, Writable, FenceInv, LaunchTyped
<1>2. PICK d \in Writable(c), n \in Name, e \in Planted \cup {DirAt(x) : x \in Spare} \cup {Vacant} :
        dirs' = [dirs EXCEPT ![d][n] = e]
  BY DEF Put
<1>3. /\ e \in DirEntries /\ (e.kind = "dir" => e.dir \in Inside) /\ (e.kind = "link" => e.owner = "user")
      /\ d \in Inside /\ d \in Directory
  <2>1. d \in Inside /\ d \in Directory
    BY <1>1, LayoutAssumption
  <2>2. CASE e \in Planted
    BY <2>1, <2>2, LayoutAssumption DEF DirEntries, Symlinks
  <2>3. CASE e \in {DirAt(x) : x \in Spare}
    <3>1. PICK x \in Spare : e = DirAt(x)
      BY <2>3
    <3>2. x \in Inside /\ x \in Directory
      BY LayoutAssumption DEF Spare
    <3> QED
      BY <2>1, <3>1, <3>2 DEF DirEntries, Directories, DirAt
  <2>4. CASE e = Vacant
    BY <2>1, <2>4 DEF DirEntries, Voids, Vacant
  <2> QED
    BY <2>2, <2>3, <2>4
<1>4. dirs \in [Directory -> [Name -> DirEntries]]
  BY DEF FenceInv, TreeHolds
<1>5. /\ dirs' \in [Directory -> [Name -> DirEntries]]
      /\ \A x \in Directory, m \in Name : dirs'[x][m] = IF x = d /\ m = n THEN e ELSE dirs[x][m]
  BY <1>2, <1>3, <1>4
<1>6. \A x \in Directory \ Inside, m \in Name : dirs'[x][m] = dirs[x][m]
  BY <1>3, <1>5
<1>7. \A x \in Inside, m \in Name : /\ dirs'[x][m].kind = "dir" => dirs'[x][m].dir \in Inside
                                    /\ dirs'[x][m].kind = "link" => dirs'[x][m].owner = "user"
  BY <1>3, <1>5, LayoutAssumption DEF FenceInv, TreeHolds
<1> QED
  BY <1>1, <1>5, <1>6, <1>7, WritesInside

LEMMA MoveKeeps == ASSUME FenceInv, NEW c \in Command, MoveEntry(c) PROVE FenceInv'
<1>1. Changes(c) /\ Writable(c) \subseteq Inside
  BY BelowInside DEF MoveEntry, Writable, FenceInv, LaunchTyped
<1>2. PICK d \in Writable(c), n \in Name, to \in Writable(c), m \in Name :
        dirs' = [dirs EXCEPT ![d][n] = Vacant, ![to][m] = dirs[d][n]]
  BY DEF MoveEntry
<1>3. d \in Inside /\ to \in Inside /\ d \in Directory /\ to \in Directory /\ Vacant \in DirEntries
  BY <1>1, LayoutAssumption DEF DirEntries, Voids, Vacant
<1>4. dirs \in [Directory -> [Name -> DirEntries]]
  BY DEF FenceInv, TreeHolds
<1>5. dirs[d][n] \in DirEntries
  BY <1>3, <1>4
<1> DEFINE half == [dirs EXCEPT ![d][n] = Vacant]
<1>6. /\ half \in [Directory -> [Name -> DirEntries]]
      /\ \A x \in Directory, k \in Name : half[x][k] = IF x = d /\ k = n THEN Vacant ELSE dirs[x][k]
  BY <1>3, <1>4
<1>7. dirs' = [half EXCEPT ![to][m] = dirs[d][n]]
  BY <1>2
<1> HIDE DEF half
<1>8. /\ dirs' \in [Directory -> [Name -> DirEntries]]
      /\ \A x \in Directory, k \in Name : dirs'[x][k] = IF x = to /\ k = m THEN dirs[d][n] ELSE half[x][k]
  BY <1>3, <1>5, <1>6, <1>7
<1>9. \A x \in Directory \ Inside, k \in Name : dirs'[x][k] = dirs[x][k]
  BY <1>3, <1>6, <1>8
<1>10. \A x \in Inside, k \in Name : \/ dirs'[x][k] = Vacant \/ dirs'[x][k] = dirs[x][k] \/ dirs'[x][k] = dirs[d][n]
  BY <1>3, <1>6, <1>8, LayoutAssumption
<1>11. \A x \in Inside, k \in Name : /\ dirs'[x][k].kind = "dir" => dirs'[x][k].dir \in Inside
                                     /\ dirs'[x][k].kind = "link" => dirs'[x][k].owner = "user"
  BY <1>3, <1>10 DEF FenceInv, TreeHolds, Vacant
<1> QED
  BY <1>1, <1>8, <1>9, <1>11, WritesInside

LEMMA EndKeeps == ASSUME FenceInv, NEW c \in Command, End(c) PROVE FenceInv'
<1>1. TreeHolds'
  BY TreeStays DEF FenceInv, End
<1>2. PICK shows \in SUBSET {"network", "credentials", "write"} : note' = [note EXCEPT ![c] = denial_note(c, shows)]
  BY DEF End
<1>3. /\ denial_note(c, shows) \in {"none", "network", "credentials", "write"}
      /\ denial_note(c, shows) \in {"write", "network"} => should_sandbox(c)
      /\ denial_note(c, shows) = "network" => ~asked[c].network
  BY DEF denial_note
<1>4. LaunchTyped'
  BY <1>2, <1>3 DEF FenceInv, LaunchTyped, End, LaunchSteps
<1>5. LaunchHolds(c)'
  BY <1>2, <1>3 DEF FenceInv, LaunchTyped, LaunchHolds, End, refuse_bare_execution, should_sandbox
<1> QED
  BY <1>1, <1>2, <1>4, <1>5, OneLaunch DEF FenceInv, LaunchTyped, End

LEMMA FenceSteps == FenceInv /\ SandboxNext => FenceInv'
BY RootsKeep, EnsureKeeps, RefuseKeeps, BareKeeps, WrapKeeps, PinnedKeeps, SystemKeeps, BuildKeeps, OpenKeeps, ConfinedKeeps,
   PutKeeps, MoveKeeps, EndKeeps DEF SandboxNext, Launches

LEMMA FenceStands == FenceInv => FenceHolds /\ FenceIsToldTruly
<1> SUFFICES ASSUME FenceInv PROVE FenceHolds /\ FenceIsToldTruly
  OBVIOUS
<1>1. FenceHolds
  BY BelowInside DEF FenceInv, TreeHolds, LaunchTyped, FenceHolds, Writable
<1>2. FenceIsToldTruly
  BY DEF FenceInv, LaunchTyped, LaunchHolds, FenceIsToldTruly, describe, sandbox_enforcement,
         should_sandbox, refuse_bare_execution
<1> QED
  BY <1>1, <1>2

LEMMA FenceKept == FenceInv /\ [MCNext]_<<part, fileVars, patchVars, configVars, gitVars, benchVars, sandboxVars>> => FenceInv'
<1> SUFFICES ASSUME FenceInv, [MCNext]_<<part, fileVars, patchVars, configVars, gitVars, benchVars, sandboxVars>>
             PROVE  FenceInv'
  OBVIOUS
<1>1. CASE SandboxNext
  BY <1>1, FenceSteps
<1>2. CASE UNCHANGED sandboxVars
  BY <1>2, TreeStays DEF sandboxVars, launchVars, FenceInv, LaunchTyped, LaunchHolds, refuse_bare_execution, should_sandbox
<1> QED
  BY <1>1, <1>2 DEF MCNext

(* Whatever the directories, the roots, the commands and the order in which  *)
(* they move what is theirs: no ruleset reaches outside, and what the tools  *)
(* say of the fence is so. (spawn_confined, resolved_writable_roots,         *)
(* resolve_system_root, open_without_symlinks, describe, denial_note)        *)
THEOREM FenceStays == MCSpec => [](FenceHolds /\ FenceIsToldTruly)
<1>1. MCInit => FenceInv
  BY FenceStarts DEF MCInit
<1> QED
  BY <1>1, FenceStands, FenceKept, PTL DEF MCSpec

(* What may be written, and what a checkout may decide, stays within what    *)
(* the user allows.                                                          *)
THEOREM LimitsStay == MCSpec => []LimitsHold
<1>1. ProjectOnlyTightens /\ FenceHolds /\ FenceIsToldTruly => LimitsHold
  BY DEF LimitsHold
<1> QED
  BY <1>1, ProjectsOnlyTighten, FenceStays, PTL

-----------------------------------------------------------------------------
(* What a run reports is what happened. *)
THEOREM ResultsAreTold == MCSpec => []ResultsAreTrue
<1>1. ChangesAreTheWork /\ ReportIsHonest => ResultsAreTrue
  BY DEF ResultsAreTrue
<1> QED
  BY <1>1, ShownChangesAreTheWork, ReportsAreHonest, PTL
=============================================================================

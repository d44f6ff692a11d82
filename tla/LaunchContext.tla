--------------------------- MODULE LaunchContext ---------------------------
(***************************************************************************)
(* What a launch reads before the first prompt: the skills found under     *)
(* the roots, the window of sessions that may be resumed, the tools that   *)
(* are mounted, and the standing approvals that come to nothing.           *)
(* (skills/mod.rs, session_store/json.rs, runtime_launch.rs)               *)
(***************************************************************************)
EXTENDS Naturals, Sequences, FiniteSets, SequencesExt

CONSTANTS
    Roots,              \* the skills roots that exist, most specific first
    Place,              \* directories, each by what its path resolves to
    Links,              \* pairs of places: what may be an entry of what
    SkillNames,         \* the names manifests may give
    MaxBroken,          \* bound: manifests that cannot be read
    MaxWalkDepth,       \* MAX_WALK_DEPTH
    MaxSessionList,     \* MAX_SESSION_LIST
    Saved,              \* session files in the directory
    Clock,              \* times of their last updates
    Entry               \* what approval.auto_allow may list

ASSUME LaunchAssumption ==
    /\ Links \subseteq Place \X Place
    /\ MaxWalkDepth \in Nat /\ MaxSessionList \in Nat \ {0} /\ Clock \subseteq Nat

VARIABLES
    entries,            \* the directory entries on disk
    kind,               \* per place: a directory, a broken manifest, or a skill's name
    walk,               \* where discover stands
    skills,             \* the registry: name, place and root of each
    offered,            \* history: the names each root had to offer
    scan,               \* where list_cancellable stands
    mounted             \* the session's tools, its approvals and its warnings

discoverVars == <<entries, kind, walk, skills, offered, mounted>>
launchVars == <<discoverVars, scan>>

(***************************************************************************)
(* Skills.                                                                 *)
(***************************************************************************)

Children(d) == {c \in Place : <<d, c>> \in entries}

IsSkill(c) == kind[c] \in SkillNames

Level(root) == [root |-> root, pending |-> <<<<Roots[root], 0>>>>, seen |-> {Roots[root]},
                at |-> Roots[root], depth |-> 0, left |-> {}, found |-> {}, scanned |-> <<>>]

(* The tools before they are mounted: nothing is mounted, nothing is said. *)
Unmounted == [done |-> FALSE, allow |-> {}, tools |-> {}, index |-> {}, warned |-> {}]

DiscoverOn(links, kinds) ==
    /\ entries = links /\ kind = kinds
    /\ walk = Level(1)
    /\ skills = {} /\ offered = <<>>
    /\ mounted = Unmounted

DiscoverInit ==
    \E links \in SUBSET Links, kinds \in [Place -> SkillNames \cup {"directory", "broken"}] :
        /\ \A i \in DOMAIN Roots : kinds[Roots[i]] = "directory"
        /\ Cardinality({p \in Place : kinds[p] = "broken"}) <= MaxBroken
        /\ DiscoverOn(links, kinds)

(* The next directory of the worklist, the last one queued. *)
PopLevel ==
    LET next == walk.pending[Len(walk.pending)] IN
    /\ walk.left = {} /\ walk.pending # <<>>
    /\ walk' = [walk EXCEPT !.pending = SubSeq(@, 1, Len(@) - 1),
                            !.at = next[1], !.depth = next[2], !.left = Children(next[1]),
                            !.scanned = Append(@, next)]
    /\ UNCHANGED <<entries, kind, skills, offered, scan, mounted>>

(* claim: false for a directory that was handled under another path. *)
Claims(c) == c \notin walk.seen

MutDescended(c) ==
    [walk EXCEPT !.left = @ \ {c}, !.seen = @ \cup {c},
                 !.pending = IF Claims(c) /\ walk.depth < MaxWalkDepth
                             THEN Append(@, <<c, walk.depth + 1>>) ELSE @]

(* A directory is claimed only where it is deep enough to be walked. *)
Descended(c) ==
    LET descends == walk.depth < MaxWalkDepth /\ Claims(c)
    IN [walk EXCEPT !.left = @ \ {c},
                    !.seen = IF descends THEN @ \cup {c} ELSE @,
                    !.pending = IF descends THEN Append(@, <<c, walk.depth + 1>>) ELSE @]

(* A directory with a manifest is a leaf, and is claimed at any depth. *)
Loaded(c) ==
    [walk EXCEPT !.left = @ \ {c}, !.seen = @ \cup {c},
                 !.found = IF Claims(c) /\ IsSkill(c) THEN @ \cup {c} ELSE @]

(* The entries come in any order. *)
scan_level(c) ==
    /\ c \in walk.left
    /\ walk' = IF kind[c] = "directory" THEN Descended(c) ELSE Loaded(c)
    /\ UNCHANGED <<entries, kind, skills, offered, scan, mounted>>

(* Of one root's skills of one name, the one whose path sorts first: the   *)
(* paths are not in the model, so it may be any.                           *)
Offers(name) == {c \in walk.found : kind[c] = name}

MutTaken(name) == FALSE

Taken(name) == \E s \in skills : s.name = name

(* One root's skills join the registry, unless the name is held. *)
discover_in_workspace ==
    /\ walk.left = {} /\ walk.pending = <<>> /\ walk.root \in DOMAIN Roots
    /\ \E pick \in [SkillNames -> Place] :
          /\ \A n \in SkillNames : Offers(n) # {} => pick[n] \in Offers(n)
          /\ skills' = skills \cup {[name |-> n, place |-> pick[n], root |-> walk.root] :
                            n \in {m \in SkillNames : Offers(m) # {} /\ ~Taken(m)}}
    /\ offered' = Append(offered, {n \in SkillNames : Offers(n) # {}})
    /\ walk' = IF walk.root + 1 \in DOMAIN Roots THEN Level(walk.root + 1)
               ELSE [walk EXCEPT !.root = Len(Roots) + 1]
    /\ UNCHANGED <<entries, kind, scan, mounted>>

(***************************************************************************)
(* Tools, by what decides: the switches of the environment, whether the    *)
(* workspace's boundary resolves, and whether any skill was found.         *)
(***************************************************************************)

(* A switch that is unset, empty or says no leaves its tools on. *)
flag_enabled(switch) == switch \in {"unset", "no"}

NeedBoundary == {"read_file", "list_dir", "grep_files", "write_file", "apply_patch", "shell",
                 "job", "request_write_root"}

build_tool_registry(env) ==
    IF ~flag_enabled(env.tools) THEN {}
    ELSE {"todo_write"}
         \cup (IF env.boundary THEN NeedBoundary ELSE {})
         \cup (IF flag_enabled(env.web) THEN {"web_search", "fetch_url"} ELSE {})
         \cup (IF skills # {} THEN {"skill"} ELSE {})

mounts_agent_tool(env) == flag_enabled(env.tools) /\ env.boundary

MutWarnUnmatchedAutoAllow(tools, allow) == {e \in allow : e \notin tools}

(* Entries that pre-approve nothing, each for one of three reasons. *)
warn_unmatched_auto_allow(tools, allow) ==
    {e \in allow : e = "request_write_root" \/ e \notin tools}

(* The skills that the system prompt lists, if it lists tools at all. *)
build_runtime_system_prompt(env) == IF flag_enabled(env.tools) THEN skills ELSE {}

build_parent_tools_gated ==
    /\ walk.root \notin DOMAIN Roots /\ ~mounted.done
    /\ \E env \in [tools : {"unset", "yes"}, web : {"unset", "no", "yes"}, boundary : BOOLEAN],
          allow \in {{}} \cup {{e} : e \in Entry} :
          LET tools == build_tool_registry(env)
                       \cup (IF mounts_agent_tool(env) THEN {"agent"} ELSE {})
          IN mounted' = [done |-> TRUE, allow |-> allow, tools |-> tools,
                         index |-> build_runtime_system_prompt(env),
                         warned |-> IF flag_enabled(env.tools)
                                    THEN warn_unmatched_auto_allow(tools, allow) ELSE allow]
    /\ UNCHANGED <<entries, kind, walk, skills, offered, scan>>

(* Whether the gate would ever let this entry stand for a call: the tool   *)
(* must be called, and a wider write boundary always asks.                 *)
auto_approval_granted(e) == e \in mounted.tools /\ e # "request_write_root"

DiscoverNext ==
    \/ PopLevel
    \/ \E c \in Place : scan_level(c)
    \/ discover_in_workspace
    \/ build_parent_tools_gated

(***************************************************************************)
(* The sessions that may be listed: a window of the newest that have a     *)
(* prompt, and of the newest that have none for the room left.             *)
(***************************************************************************)

ScanOn(files) ==
    scan = [files |-> files, left |-> Saved, resumable |-> <<>>, empty |-> <<>>, pc |-> "scan",
            list |-> <<>>]

(* The files are numbered by age: the directory gives them in any order.   *)
ScanInit ==
    \E files \in [Saved -> [at : Clock, kind : {"resumable", "empty", "unreadable"}]] :
        (\A f, g \in Saved : f < g => files[f].at <= files[g].at) /\ ScanOn(files)

UpdatedAt(f) == scan.files[f].at

MutKeptNewest(window, f) == IF Len(window) < MaxSessionList THEN Append(window, f) ELSE window

(* A full window gives up its oldest for one that is newer. *)
KeptNewest(window, f) ==
    IF Len(window) < MaxSessionList THEN Append(window, f)
    ELSE LET oldest == CHOOSE i \in DOMAIN window :
                           \A j \in DOMAIN window :
                               UpdatedAt(window[i]) < UpdatedAt(window[j]) \/ (UpdatedAt(window[i]) = UpdatedAt(window[j]) /\ i <= j)
         IN IF UpdatedAt(f) > UpdatedAt(window[oldest]) THEN [window EXCEPT ![oldest] = f] ELSE window

ScanFile(f) ==
    /\ scan.pc = "scan" /\ f \in scan.left
    /\ LET next == [scan EXCEPT !.left = @ \ {f}]
       IN scan' = CASE scan.files[f].kind = "resumable" -> [next EXCEPT !.resumable = KeptNewest(@, f)]
                    [] scan.files[f].kind = "empty" -> [next EXCEPT !.empty = KeptNewest(@, f)]
                    [] OTHER -> next
    /\ UNCHANGED discoverVars

Newer(f, g) == UpdatedAt(f) > UpdatedAt(g)

NewestFirst(window) == SortSeq(window, Newer)

FirstOf(window, n) == SubSeq(window, 1, IF n < Len(window) THEN n ELSE Len(window))

FinishScan ==
    LET shown == FirstOf(NewestFirst(scan.resumable), MaxSessionList)
        filler == FirstOf(NewestFirst(scan.empty), MaxSessionList - Len(shown))
    IN /\ scan.pc = "scan" /\ scan.left = {}
       /\ scan' = [scan EXCEPT !.pc = "listed", !.list = NewestFirst(shown \o filler)]
       /\ UNCHANGED discoverVars

(* Cancelled between two files: no part of a list is returned. *)
CancelScan ==
    /\ scan.pc = "scan"
    /\ scan' = [scan EXCEPT !.pc = "cancelled"]
    /\ UNCHANGED discoverVars

ScanNext == (\E f \in Saved : ScanFile(f)) \/ FinishScan \/ CancelScan

(***************************************************************************)
(* Properties.                                                             *)
(***************************************************************************)

WalkEnds == walk.left = {} /\ walk.pending = <<>>

Scanned == {walk.scanned[i][1] : i \in DOMAIN walk.scanned}

(* However the directories link to one another and in whatever order they  *)
(* are read, a walk visits none twice, and passes over nothing that lies   *)
(* directly in one it visits, but for directories below the deepest level; *)
(* and of all the names the roots offer, each is held once, by the first   *)
(* root that has it. (discover, scan_level, discover_in_workspace)         *)
SkillsAreFound ==
    /\ IsInjective([i \in DOMAIN walk.scanned |-> walk.scanned[i][1]])
    /\ WalkEnds =>
          \A i \in DOMAIN walk.scanned : \A c \in Children(walk.scanned[i][1]) :
              /\ kind[c] = "directory" => c \in Scanned \/ walk.scanned[i][2] = MaxWalkDepth
              /\ IsSkill(c) => c \in walk.found
    /\ \A n \in UNION Range(offered) :
          \E s \in skills :
              /\ {t \in skills : t.name = n} = {s}
              /\ n \in offered[s.root] /\ \A r \in 1..(s.root - 1) : n \notin offered[r]

(* What a launch says holds for the session it launches: a skill named in  *)
(* the prompt can be read with a tool that is there, and a standing        *)
(* approval is reported exactly when the gate will never act on it.        *)
(* (build_runtime_system_prompt, build_tool_registry,                      *)
(* warn_unmatched_auto_allow, auto_approval_granted)                       *)
LaunchTellsTheTruth ==
    mounted.done =>
        /\ mounted.index # {} => "skill" \in mounted.tools
        /\ \A e \in mounted.allow : e \in mounted.warned <=> ~auto_approval_granted(e)

(* In whatever order the directory gives the files, the list has the       *)
(* newest sessions with a prompt, then the newest without for what room is *)
(* left, and no room is left while there are any. (list_cancellable)       *)
ListIsNewest ==
    scan.pc = "listed" =>
        LET Shown(k) == {f \in Range(scan.list) : scan.files[f].kind = k}
            All(k) == {f \in Saved : scan.files[f].kind = k}
            Least(a, b) == IF a < b THEN a ELSE b
            resumable == Least(MaxSessionList, Cardinality(All("resumable")))
        IN /\ Cardinality(Shown("resumable")) = resumable
           /\ Cardinality(Shown("empty")) = Least(MaxSessionList - resumable, Cardinality(All("empty")))
           /\ \A k \in {"resumable", "empty"} :
                 \A f \in Shown(k), g \in All(k) \ Shown(k) : UpdatedAt(g) <= UpdatedAt(f)
           /\ \A i, j \in DOMAIN scan.list : i < j => UpdatedAt(scan.list[i]) >= UpdatedAt(scan.list[j])
=============================================================================

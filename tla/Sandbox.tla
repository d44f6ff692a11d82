------------------------------ MODULE Sandbox ------------------------------
(***************************************************************************)
(* The fence around shell commands: the policy a call runs under, the      *)
(* roots it is granted, the Landlock rules built from them, and what the   *)
(* confined commands do to the directories meanwhile.                      *)
(*                                                                         *)
(* A directory is an object, so that one moved by a command keeps its      *)
(* rules; an entry of a directory is nothing, a directory, or a link. A    *)
(* path is a sequence of names from "/"; a link names its target from "/"  *)
(* or from its own directory. Files, "..", Seatbelt's profile and the list *)
(* of system calls are left out.                                           *)
(***************************************************************************)
EXTENDS Naturals, Sequences, FiniteSets, SequencesExt

CONSTANTS
    Command,    \* the shell and job commands of a session
    Directory, Slash, Name,
    Layout,     \* the entries of each directory when the session starts
    Inside,     \* what is below the granted roots, the caches and the temp roots
    Granted,    \* the granted roots, resolved when they were granted
    Cwds,       \* the directories commands are run in
    Caches,     \* tool_cache_roots: [path, at, name, dir] of each cache leaf
    Temps,      \* system_roots, as they are spelled
    Planted,    \* the links a command may make
    Ways,       \* <<d, p>>: following p from d, outside, comes inside
    Places,     \* <<q, d, p>>: where the temp roots' resolution can be, outside
    MaxLinks,   \* MAX_LINKS
    Machines,   \* [system, abi, arch, off]; abi 0 is a kernel without Landlock
    MaxMoves    \* bound: changes the commands make

Paths == Seq(Name)

Vacant == [kind |-> "none"]
DirAt(d) == [kind |-> "dir", dir |-> d]

Voids == [kind : {"none"}]
Directories == [kind : {"dir"}, dir : Directory]
Symlinks == [kind : {"link"}, owner : {"root", "user"}, absolute : BOOLEAN, to : Paths]
DirEntries == Voids \cup Directories \cup Symlinks

(* The directories that may come to stand at a name outside: the one that    *)
(* was there, and a cache directory that is created there.                   *)
Standing(d, n) ==
    {x \in Directory : \/ Layout[d][n].kind = "dir" /\ Layout[d][n].dir = x
                       \/ \E i \in DOMAIN Caches : Caches[i].at = d /\ Caches[i].name = n /\ Caches[i].dir = x}

ComesInside(d, p) == d \in Inside \/ <<d, p>> \in Ways

(* What lies inside stays inside, and its links are the user's own.          *)
ASSUME LayoutAssumption ==
    /\ Slash \in Directory \ Inside /\ Inside \subseteq Directory
    /\ Layout \in [Directory -> [Name -> DirEntries]]
    /\ \A d \in Inside, n \in Name :
         /\ Layout[d][n].kind = "dir" => Layout[d][n].dir \in Inside
         /\ Layout[d][n].kind = "link" => Layout[d][n].owner = "user"
    /\ Planted \subseteq [kind : {"link"}, owner : {"user"}, absolute : BOOLEAN, to : Paths]
    /\ Machines \subseteq [system : {"linux", "windows"}, abi : Nat, arch : BOOLEAN, off : BOOLEAN]
    /\ MaxLinks \in Nat /\ MaxMoves \in Nat

(* Every root that is granted leads inside.                                  *)
ASSUME WaysAssumption ==
    /\ \A w \in Ways :
         /\ w[1] \in Directory \ Inside /\ w[2] \in Paths /\ w[2] # << >>
         /\ \A x \in Standing(w[1], Head(w[2])) : ComesInside(x, Tail(w[2]))
    /\ Granted \in Seq(Paths) /\ \A i \in DOMAIN Granted : <<Slash, Granted[i]>> \in Ways
    /\ Cwds \subseteq Paths /\ \A p \in Cwds : <<Slash, p>> \in Ways
    /\ Caches \in Seq([path : Paths, at : Directory \ Inside, name : Name, dir : Inside])
    /\ \A i \in DOMAIN Caches : <<Slash, Caches[i].path>> \in Ways

(* So does every temp root, through the links of the system; what commands   *)
(* may write comes no earlier than its last directory.                       *)
ASSUME PlacesAssumption ==
    /\ \A w \in Places :
         /\ w[1] \in Paths /\ w[2] \in Directory \ Inside /\ w[3] \in Paths /\ w[3] # << >>
         /\ Layout[w[2]][Head(w[3])].kind = "none" => <<Slash, w[1] \o w[3]>> \in Ways
         /\ \A x \in Standing(w[2], Head(w[3])) :
              IF x \in Inside THEN Len(w[3]) <= 2 /\ <<Slash, w[1] \o w[3]>> \in Ways
              ELSE <<Append(w[1], Head(w[3])), x, Tail(w[3])>> \in Places
         /\ LET e == Layout[w[2]][Head(w[3])]
            IN  e.kind = "link" /\ e.owner = "root" =>
                  <<IF e.absolute THEN << >> ELSE w[1], IF e.absolute THEN Slash ELSE w[2],
                    e.to \o Tail(w[3])>> \in Places
    /\ Temps \in Seq(Paths) /\ \A i \in DOMAIN Temps : <<<< >>, Slash, Temps[i]>> \in Places

VARIABLES
    machine,    \* the host, and whether [sandbox] mode is off
    dirs,       \* the entries of each directory
    moves,      \* how many changes the commands made
    asked,      \* the policy of each command, and its directory
    launch,     \* how far its launch has come
    leaves,     \* the cache leaves tool_cache_roots has not looked at yet
    todo,       \* the roots that are not resolved, or not opened, yet
    found,      \* resolved_writable_roots
    rules,      \* the directories its ruleset lets it write beneath
    note        \* the denial note of its result

launchVars == <<asked, launch, leaves, todo, found, rules, note>>
sandboxVars == <<machine, dirs, moves, launchVars>>

Pending(k, p) == [kind |-> k, done |-> << >>, at |-> Slash, rest |-> p, links |-> 0]

Unasked == [fenced |-> FALSE, network |-> FALSE, cwd |-> << >>]

SandboxOn(m) ==
    /\ machine = m /\ dirs = Layout /\ moves = 0
    /\ asked = [c \in Command |-> Unasked] /\ launch = [c \in Command |-> "ready"]
    /\ leaves = [c \in Command |-> << >>] /\ todo = [c \in Command |-> << >>]
    /\ found = [c \in Command |-> << >>] /\ rules = [c \in Command |-> {}]
    /\ note = [c \in Command |-> "none"]

SandboxInit == \E m \in Machines : SandboxOn(m)

-----------------------------------------------------------------------------
(* What the host can enforce, and what the tools say of it *)

available(m) == m.system = "windows" \/ (m.abi > 0 /\ m.arch)

landlock_gaps(m) == {g \in {"truncate", "ioctl_dev"} : m.abi < IF g = "truncate" THEN 3 ELSE 5}

(* Enforcement::weakest of the two dimensions: a job object confines none.   *)
sandbox_enforcement(m) ==
    IF ~available(m) \/ m.system = "windows" THEN "none"
    ELSE IF landlock_gaps(m) = {} THEN "full" ELSE "partial"

design_notes(m) ==
    IF available(m) /\ m.system = "linux" /\ "ioctl_dev" \notin landlock_gaps(m) THEN {"ioctl_dev"} ELSE {}

describe(m) ==
    IF m.off THEN [body |-> "disabled", caveats |-> {}, notes |-> {}]
    ELSE IF sandbox_enforcement(m) = "none" THEN [body |-> "unconfined", caveats |-> {}, notes |-> {}]
    ELSE [body |-> "confined", caveats |-> landlock_gaps(m), notes |-> design_notes(m)]

should_sandbox(c) == asked[c].fenced /\ ~machine.off /\ available(machine)

refuse_bare_execution(c) == asked[c].fenced /\ ~machine.off /\ ~available(machine)

-----------------------------------------------------------------------------
(* Launching a command *)

sandbox_roots(c, fenced, network, cwd) ==
    /\ launch[c] = "ready"
    /\ asked' = [asked EXCEPT ![c] = [fenced |-> fenced, network |-> fenced /\ network, cwd |-> cwd]]
    /\ launch' = [launch EXCEPT ![c] = "caches"]
    /\ todo' = [todo EXCEPT ![c] = [i \in DOMAIN Granted |-> Pending("pinned", Granted[i])]]
    /\ leaves' = [leaves EXCEPT ![c] = IF fenced /\ network THEN Caches ELSE << >>]
    /\ UNCHANGED <<machine, dirs, moves, found, rules, note>>

(* A leaf that is a link is left out; one that is missing is created.        *)
ensure(c) ==
    /\ launch[c] = "caches" /\ leaves[c] # << >>
    /\ leaves' = [leaves EXCEPT ![c] = Tail(@)]
    /\ LET leaf  == Head(leaves[c])
           entry == dirs[leaf.at][leaf.name]
           Keep  == todo' = [todo EXCEPT ![c] = Append(@, Pending("pinned", leaf.path))]
       IN  \/ entry.kind = "link" /\ UNCHANGED <<dirs, todo>>
           \/ entry.kind = "dir" /\ Keep /\ UNCHANGED dirs
           \/ entry.kind = "none" /\ UNCHANGED <<dirs, todo>>
           \/ entry.kind = "none" /\ Keep /\ dirs' = [dirs EXCEPT ![leaf.at][leaf.name] = DirAt(leaf.dir)]
    /\ UNCHANGED <<machine, moves, asked, launch, found, rules, note>>

(* spawn_confined and wrap_command.                                          *)
Refuse(c) ==
    /\ launch[c] = "caches" /\ leaves[c] = << >> /\ refuse_bare_execution(c)
    /\ launch' = [launch EXCEPT ![c] = "refused"]
    /\ UNCHANGED <<machine, dirs, moves, asked, leaves, todo, found, rules, note>>

RunBare(c) ==
    /\ launch[c] = "caches" /\ leaves[c] = << >> /\ ~refuse_bare_execution(c)
    /\ ~should_sandbox(c) \/ machine.system = "windows"
    /\ launch' = [launch EXCEPT ![c] = "bare"]
    /\ UNCHANGED <<machine, dirs, moves, asked, leaves, todo, found, rules, note>>

wrap_command(c) ==
    /\ launch[c] = "caches" /\ leaves[c] = << >> /\ should_sandbox(c) /\ machine.system = "linux"
    /\ launch' = [launch EXCEPT ![c] = "roots"]
    /\ todo' = [todo EXCEPT ![c] = @ \o <<Pending("pinned", asked[c].cwd)>>
                                      \o [i \in DOMAIN Temps |-> Pending("system", Temps[i])]]
    /\ UNCHANGED <<machine, dirs, moves, asked, leaves, found, rules, note>>

Once(roots, p) == IF \E i \in DOMAIN roots : roots[i] = p THEN roots ELSE Append(roots, p)

(* A granted root is kept if it resolves to itself, or to nothing. Where a   *)
(* link is on its way it does not, unless the link leads nowhere.            *)
MeetsLink(p) ==
    FoldLeft(LAMBDA e, n : IF e.kind = "dir" THEN dirs[e.dir][n] ELSE e, DirAt(Slash), p).kind = "link"

resolve_pinned_root(c) ==
    /\ launch[c] = "roots" /\ todo[c] # << >> /\ Head(todo[c]).kind = "pinned"
    /\ LET p == Head(todo[c]).rest
       IN  \/ found' = [found EXCEPT ![c] = Once(@, p)]
           \/ MeetsLink(p) /\ UNCHANGED found
    /\ todo' = [todo EXCEPT ![c] = Tail(@)]
    /\ UNCHANGED <<machine, dirs, moves, asked, launch, leaves, rules, note>>

(* A temp root is resolved one name at a time, through the links root owns.  *)
MutFollows(e, h) == h.links < MaxLinks

Follows(e, h) == e.owner = "root" /\ h.links < MaxLinks

Withhold(c) == todo' = [todo EXCEPT ![c] = Tail(@)] /\ UNCHANGED found

Resolved(c, p) == todo' = [todo EXCEPT ![c] = Tail(@)] /\ found' = [found EXCEPT ![c] = Once(@, p)]

Onward(c, h) == todo' = [todo EXCEPT ![c] = <<h>> \o Tail(@)]

resolve_system_root(c) ==
    /\ launch[c] = "roots" /\ todo[c] # << >> /\ Head(todo[c]).kind = "system"
    /\ LET h == Head(todo[c])
           n == Head(h.rest)
           e == dirs[h.at][n]
       IN  IF h.rest = << >> THEN Resolved(c, h.done)
           ELSE \/ e.kind = "none" /\ Resolved(c, h.done \o h.rest)
                \/ /\ e.kind = "dir" /\ UNCHANGED found
                   /\ Onward(c, [h EXCEPT !.done = Append(@, n), !.at = e.dir, !.rest = Tail(@)])
                \/ e.kind = "link" /\ ~Follows(e, h) /\ Withhold(c)
                \/ /\ e.kind = "link" /\ Follows(e, h) /\ UNCHANGED found
                   /\ Onward(c, [h EXCEPT !.done = IF e.absolute THEN << >> ELSE @,
                                          !.at = IF e.absolute THEN Slash ELSE @,
                                          !.rest = e.to \o Tail(@), !.links = @ + 1])
    /\ UNCHANGED <<machine, dirs, moves, asked, launch, leaves, rules, note>>

build_landlock(c) ==
    /\ launch[c] = "roots" /\ todo[c] = << >>
    /\ launch' = [launch EXCEPT ![c] = "open"]
    /\ todo' = [todo EXCEPT ![c] = [i \in DOMAIN found[c] |-> Pending("open", found[c][i])]]
    /\ UNCHANGED <<machine, dirs, moves, asked, leaves, found, rules, note>>

(* pinned_path_rules: each root is opened one name at a time, and a link or  *)
(* a missing name leaves it out.                                             *)
open_without_symlinks(c) ==
    /\ launch[c] = "open" /\ todo[c] # << >>
    /\ LET h == Head(todo[c])
           e == dirs[h.at][Head(h.rest)]
       IN  IF h.rest = << >>
           THEN /\ rules' = [rules EXCEPT ![c] = @ \cup {h.at}]
                /\ todo' = [todo EXCEPT ![c] = Tail(@)]
           ELSE /\ IF e.kind = "dir" THEN Onward(c, [h EXCEPT !.at = e.dir, !.rest = Tail(@)])
                   ELSE todo' = [todo EXCEPT ![c] = Tail(@)]
                /\ UNCHANGED rules
    /\ UNCHANGED <<machine, dirs, moves, asked, launch, leaves, found, note>>

(* The ruleset or the filter may fail to build: then nothing runs.           *)
Confined(c) ==
    /\ launch[c] = "open" /\ todo[c] = << >>
    /\ \E how \in {"confined", "refused"} : launch' = [launch EXCEPT ![c] = how]
    /\ UNCHANGED <<machine, dirs, moves, asked, leaves, todo, found, rules, note>>

-----------------------------------------------------------------------------
(* What a command does *)

(* Landlock lets a command write wherever a directory above is in a rule.    *)
Closed(top) ==
    {S \in SUBSET Directory :
       top \subseteq S /\ \A x \in S, n \in Name : dirs[x][n].kind = "dir" => dirs[x][n].dir \in S}

Below(top) == LET sets == Closed(top) IN {d \in Directory : \A S \in sets : d \in S}

Writable(c) == Below(rules[c])

(* A directory that is made is one that stands nowhere yet.                  *)
Spare == {d \in Inside : (\A n \in Name : dirs[d][n] = Vacant) /\ \A x \in Directory, n \in Name : dirs[x][n] # DirAt(d)}

Changes(c) == launch[c] = "confined" /\ moves < MaxMoves /\ moves' = moves + 1 /\ UNCHANGED <<machine, launchVars>>

Put(c) ==
    /\ Changes(c)
    /\ \E d \in Writable(c), n \in Name :
         IF dirs[d][n] = Vacant
         THEN \E e \in Planted \cup {DirAt(x) : x \in Spare} : dirs' = [dirs EXCEPT ![d][n] = e]
         ELSE dirs' = [dirs EXCEPT ![d][n] = Vacant]

MoveEntry(c) ==
    /\ Changes(c)
    /\ \E d, to \in Writable(c), n, m \in Name :
         /\ dirs[d][n] # Vacant /\ dirs[to][m] = Vacant
         /\ dirs[d][n].kind = "dir" => to \notin Below({dirs[d][n].dir})
         /\ dirs' = [dirs EXCEPT ![d][n] = Vacant, ![to][m] = dirs[d][n]]

(* Which of the notes' signatures the error output of a failure shows.       *)
denial_note(c, shows) ==
    IF ~should_sandbox(c) THEN IF "credentials" \in shows THEN "credentials" ELSE "none"
    ELSE IF ~asked[c].network /\ "network" \in shows THEN "network"
    ELSE IF "credentials" \in shows THEN "credentials"
    ELSE IF "write" \in shows THEN "write" ELSE "none"

End(c) ==
    /\ launch[c] \in {"bare", "confined"}
    /\ \E shows \in SUBSET {"network", "credentials", "write"} :
         note' = [note EXCEPT ![c] = denial_note(c, shows)]
    /\ launch' = [launch EXCEPT ![c] = "ended"]
    /\ UNCHANGED <<machine, dirs, moves, asked, leaves, todo, found, rules>>

Launches(c) ==
    \/ \E fenced, network \in BOOLEAN, cwd \in Cwds : sandbox_roots(c, fenced, network, cwd)
    \/ ensure(c) \/ Refuse(c) \/ RunBare(c) \/ wrap_command(c)
    \/ resolve_pinned_root(c) \/ resolve_system_root(c) \/ build_landlock(c)
    \/ open_without_symlinks(c) \/ Confined(c)

SandboxNext == \E c \in Command : Launches(c) \/ Put(c) \/ MoveEntry(c) \/ End(c)

SandboxSpec == SandboxInit /\ [][SandboxNext]_sandboxVars
-----------------------------------------------------------------------------
(* Outside, nothing is moved: what stands there is what stood there, and the  *)
(* cache directories that were created.                                       *)
Unmoved ==
    \A d \in Directory \ Inside, n \in Name :
      \/ dirs[d][n] = Layout[d][n]
      \/ \E i \in DOMAIN Caches : Caches[i].at = d /\ Caches[i].name = n /\ dirs[d][n] = DirAt(Caches[i].dir)

(* Whatever commands put in the way of a root while it is resolved and        *)
(* opened, no ruleset reaches a directory outside the granted roots, however  *)
(* directories are moved afterwards (resolved_writable_roots,                 *)
(* resolve_system_root, open_without_symlinks).                               *)
FenceHolds == Unmoved /\ \A c \in Command : launch[c] = "confined" => Writable(c) \subseteq Inside

(* A command that was to be confined runs bare only where the tools say that  *)
(* nothing is confined, and a note that names the fence goes to none that was *)
(* not to be confined (sandbox_unavailable_for, describe, denial_note).       *)
FenceIsToldTruly ==
    \A c \in Command :
      /\ launch[c] = "bare" /\ asked[c].fenced => describe(machine).body \in {"disabled", "unconfined"}
      /\ note[c] = "write" => asked[c].fenced /\ ~machine.off
      /\ note[c] = "network" => asked[c].fenced /\ ~machine.off /\ ~asked[c].network
=============================================================================

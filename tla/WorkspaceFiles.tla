--------------------------- MODULE WorkspaceFiles ---------------------------
(***************************************************************************)
(* The workspace boundary and the file tools behind it, while another      *)
(* process of the workspace (a job, the user) rearranges the entries of    *)
(* its directories.  A tool inspects a path, resolves it, and then walks   *)
(* to it again from a root with handles that follow no link; each of these *)
(* is a step of its own here.                                              *)
(*                                                                         *)
(* A path is the sequence of names under "/".  A directory handle is the   *)
(* directory itself, wherever its name points by then.                     *)
(***************************************************************************)
EXTENDS Integers, Sequences, FiniteSets, SequencesExt, TLC

CONSTANTS
    Tree,          \* the initial file system: directory |-> (name |-> entry)
    Primary,       \* the workspace root, a path
    Home,          \* the home directory, a path
    Secrets,       \* credential stores, paths
    Requests,      \* the paths tools are called with: relative or absolute, and their names
    GrantRequests, \* paths asked for with request_write_root or /add-dir
    Swaps,         \* what may happen to the tree: a directory, a name and the entry put there
    Fresh          \* the directory a tool may create

ASSUME TreeAssumption == /\ \A s \in Swaps : s.dir \in DOMAIN Tree
                         /\ Fresh \in DOMAIN Tree

VARIABLES
    fs,        \* the file system now
    extras,    \* WorkspacePolicy.extras: the granted roots beside the primary one
    up,        \* whether the session runs
    tool,      \* the call under way: its name and its step, or idle
    cand,      \* the path it works on
    handle,    \* the directory it holds open
    rest,      \* names it still has to walk
    touched,   \* history: directories whose files tools read, listed or wrote
    approved   \* history: the canonical directories a person approved as roots

fileVars == <<fs, extras, up, tool, cand, handle, rest, touched, approved>>

Nowhere == << >>
Some1(x) == <<x>>

-----------------------------------------------------------------------------
(* The file system, as the operating system resolves names in it (external) *)

Entry(d, n) == IF n \in DOMAIN fs[d] THEN fs[d][n] ELSE [kind |-> "none", to |-> << >>]

Links == 3     \* bound: links followed in one resolution

(* Where a path leads when links are followed: the canonical path and what is *)
(* there, or Nowhere.                                                         *)
Resolve(path) ==
    LET F[todo \in Seq(STRING), at \in Seq(STRING), d \in STRING, n \in 0 .. Links] ==
            IF todo = << >> THEN Some1([path |-> at, kind |-> "dir", to |-> d])
            ELSE LET e == Entry(d, Head(todo))
                 IN  CASE e.kind = "none" -> Nowhere
                       [] e.kind = "link" -> IF n = 0 THEN Nowhere ELSE F[e.to \o Tail(todo), << >>, "/", n - 1]
                       [] e.kind = "dir" -> F[Tail(todo), Append(at, Head(todo)), e.to, n]
                       [] OTHER -> IF Len(todo) > 1 THEN Nowhere
                                   ELSE Some1([path |-> Append(at, Head(todo)), kind |-> "file", to |-> d])
    IN  F[path, << >>, "/", Links]

canonicalize(path) == LET r == Resolve(path) IN IF r = Nowhere THEN Nowhere ELSE Some1(r[1].path)

(* symlink_metadata: the last name is not followed. *)
Lstat(path) ==
    IF path = << >> THEN "dir"
    ELSE LET r == Resolve(Front(path)) IN IF r = Nowhere \/ r[1].kind # "dir" THEN "none" ELSE Entry(r[1].to, Last(path)).kind

-----------------------------------------------------------------------------
(* WorkspacePolicy *)

granted_roots == {Primary} \cup extras
starts_with(p, root) == IsPrefix(root, p)
is_granted(p) == \E r \in granted_roots : starts_with(p, r)

sensitive_overlap(p) == \E s \in Secrets : starts_with(p, s) \/ starts_with(s, p)

refuse_as_unattended_root(p) == p = << >> \/ starts_with(Home, p) \/ sensitive_overlap(p)

(* A link anywhere below the deepest root the path is in; a missing name is an error. *)
contains_symlink(p) ==
    LET above == {Len(r) : r \in {q \in granted_roots : starts_with(p, q)}} \cup {0}
        from == CHOOSE n \in above : \A k \in above : k <= n
        kinds == {Lstat(SubSeq(p, 1, k)) : k \in from + 1 .. Len(p)}
    IN  IF "none" \in kinds THEN "error" ELSE IF "link" \in kinds THEN "link" ELSE "plain"

(* The deepest root the path is in, and the names from there. *)
root_relative(p) ==
    LET S == {r \in granted_roots : starts_with(p, r)}
        root == CHOOSE r \in S : \A q \in S : Len(q) <= Len(r)
    IN  IF S = {} THEN Nowhere ELSE Some1([root |-> root, names |-> SubSeq(p, Len(root) + 1, Len(p))])

(* pinned_dir::open_canonical: from "/" by names that are directories, never links. *)
open_canonical(p) ==
    LET F[k \in 0 .. Len(p)] ==
            IF k = 0 THEN "/"
            ELSE LET d == F[k - 1] IN IF d = "none" \/ Entry(d, p[k]).kind # "dir" THEN "none" ELSE Entry(d, p[k]).to
    IN  F[Len(p)]

(* A relative path is the primary root's; an empty one and ".." are refused. *)
prepare_candidate(req) ==
    IF ToSet(req.names) \cap {"", ".."} # {} THEN Nowhere
    ELSE Some1(IF req.absolute THEN req.names ELSE Primary \o req.names)

(* The nearest part of a path that exists, its last name unfollowed. *)
Existing(p) == LET S == {k \in 0 .. Len(p) : \A j \in 0 .. k : Lstat(SubSeq(p, 1, j)) # "none"}
               IN  SubSeq(p, 1, CHOOSE k \in S : \A j \in S : j <= k)

resolve_grant_target(raw) ==
    LET r == Resolve(raw)
    IN  IF r = Nowhere \/ r[1].kind # "dir" THEN Nowhere
        ELSE IF ~is_granted(r[1].path) /\ refuse_as_unattended_root(r[1].path) THEN Nowhere ELSE Some1(r[1].path)

-----------------------------------------------------------------------------
(* Calls of the file tools *)

Reads == {"read_file", "list_dir", "grep_files", "apply_patch"}
Writes == {"write_file", "apply_patch"}
Tools == Reads \cup Writes

IdleTool == [name |-> "none", step |-> "idle"]
Idle == tool' = IdleTool /\ cand' = << >> /\ handle' = "none" /\ rest' = << >>
At(step) == tool' = [tool EXCEPT !.step = step]
Others == <<fs, extras, up, approved>>

(* resolve_existing, resolve_for_write: a path that is no place in a workspace is refused. *)
Call(name, req) ==
    LET c == prepare_candidate(req)
    IN  /\ up /\ tool = IdleTool /\ c # Nowhere
        /\ name = "write_file" => req.names # << >>     \* has_trailing_directory_marker
        /\ tool' = [name |-> name, step |-> "inspect"] /\ cand' = c[1]
        /\ UNCHANGED <<Others, handle, rest, touched>>

(* The links of what exists of the path. *)
Inspect ==
    /\ tool.step = "inspect"
    /\ LET p == IF tool.name = "write_file" THEN Existing(cand) ELSE cand
       IN  IF contains_symlink(p) = "plain" THEN At("resolve") /\ UNCHANGED <<cand, handle, rest>> ELSE Idle
    /\ UNCHANGED <<Others, touched>>

(* Its canonical path must be granted.  A write keeps the path it was given;   *)
(* the others go on with the canonical one.                                    *)
Canonicalize ==
    /\ tool.step = "resolve"
    /\ LET c == canonicalize(IF tool.name = "write_file" THEN Existing(cand) ELSE cand)
       IN  IF c = Nowhere \/ ~is_granted(c[1]) THEN Idle
           ELSE /\ At("root") /\ cand' = IF tool.name = "write_file" THEN cand ELSE c[1]
                /\ UNCHANGED <<handle, rest>>
    /\ UNCHANGED <<Others, touched>>

(* open_parent: the root's own handle, opened by its canonical path. *)
OpenRoot ==
    /\ tool.step = "root"
    /\ LET r == root_relative(cand)
           d == IF r = Nowhere THEN "none" ELSE open_canonical(r[1].root)
       IN  IF d = "none" \/ (r[1].names = << >> /\ tool.name \notin {"list_dir", "grep_files"}) THEN Idle
           ELSE At(IF tool.name = "grep_files" THEN "search" ELSE "walk") /\ handle' = d /\ rest' = r[1].names /\ UNCHANGED cand
    /\ UNCHANGED <<Others, touched>>

Mutopen_dir_nofollow(d, n) ==
    LET e == Entry(d, n)
    IN  CASE e.kind = "dir" -> e.to
          [] e.kind = "link" -> LET r == Resolve(e.to) IN IF r # Nowhere /\ r[1].kind = "dir" THEN r[1].to ELSE "none"
          [] OTHER -> "none"

(* open_dir_nofollow *)
open_dir_nofollow(d, n) == IF Entry(d, n).kind = "dir" THEN Entry(d, n).to ELSE "none"

(* One name of the walk; a write makes the directory that is missing. *)
Walk ==
    /\ tool.step = "walk" /\ Len(rest) > IF tool.name = "list_dir" THEN 0 ELSE 1
    /\ LET n == Head(rest)
           create == tool.name = "write_file" /\ Entry(handle, n).kind = "none"
           d == IF create THEN Fresh ELSE open_dir_nofollow(handle, n)
       IN  /\ IF d = "none" THEN Idle ELSE handle' = d /\ rest' = Tail(rest) /\ UNCHANGED <<tool, cand>>
           /\ fs' = IF create THEN [fs EXCEPT ![handle] = (n :> [kind |-> "dir", to |-> Fresh]) @@ @] ELSE fs
           /\ touched' = IF create THEN touched \cup {handle} ELSE touched
    /\ UNCHANGED <<extras, up, approved>>

(* no_follow_metadata, then a read through the handle with links unfollowed:   *)
(* one directory entry, looked up twice.                                       *)
Stat ==
    /\ tool.step = "walk" /\ Len(rest) = 1 /\ tool.name # "list_dir"
    /\ LET kind == Entry(handle, Head(rest)).kind
       IN  IF \/ tool.name = "write_file" /\ kind \in {"file", "none"}
              \/ tool.name \in {"read_file", "apply_patch"} /\ kind = "file"
              \/ tool.name = "grep_files" /\ kind # "none"
           THEN At("read") /\ UNCHANGED <<cand, handle, rest>> ELSE Idle
    /\ UNCHANGED <<Others, touched>>

(* open_read; what write_file reads here is only for its diff, and it goes on *)
(* without it.                                                                *)
ReadLeaf ==
    /\ tool.step = "read"
    /\ LET file == Entry(handle, Head(rest)).kind = "file"
       IN  /\ touched' = IF file THEN touched \cup {handle} ELSE touched
           /\ IF tool.name \in Writes /\ (file \/ tool.name = "write_file")
              THEN At("replace") /\ UNCHANGED <<cand, handle, rest>> ELSE Idle
    /\ UNCHANGED Others

(* SafePath::replace: create or truncate, never through a link. *)
replace ==
    /\ tool.step = "replace"
    /\ LET kind == Entry(handle, Head(rest)).kind
       IN  /\ touched' = IF kind \in {"file", "none"} THEN touched \cup {handle} ELSE touched
           /\ fs' = IF kind = "none" THEN [fs EXCEPT ![handle] = (Head(rest) :> [kind |-> "file", to |-> << >>]) @@ @] ELSE fs
    /\ Idle
    /\ UNCHANGED <<extras, up, approved>>

(* list_dir has walked all the way and lists what it holds. *)
List ==
    /\ tool.step = "walk" /\ tool.name = "list_dir" /\ rest = << >>
    /\ touched' = touched \cup {handle} /\ Idle
    /\ UNCHANGED Others

SearchDepth == 3    \* bound: names below "/" a search goes down to

(* grep_files: the walker goes by paths, from the directory searched down to a *)
(* file; the tool looks for links on the path the walker yields and opens the *)
(* file from the root it opened first.  The files of a search are opened      *)
(* independently of each other.                                               *)
GrepDown(n) ==
    /\ tool.step = "search" /\ Len(cand) < SearchDepth /\ Resolve(Append(cand, n)) # Nowhere
    /\ cand' = Append(cand, n) /\ rest' = Append(rest, n)
    /\ UNCHANGED <<Others, tool, handle, touched>>

GrepFile ==
    /\ tool.step = "search" /\ Lstat(cand) = "file"
    /\ IF contains_symlink(cand) = "plain" THEN At("walk") /\ UNCHANGED <<cand, handle, rest>> ELSE Idle
    /\ UNCHANGED <<Others, touched>>

GrepEnd == tool.step = "search" /\ Idle /\ UNCHANGED <<Others, touched>>

-----------------------------------------------------------------------------
(* Roots *)

(* A person approves what a request resolves to (the prompt and the answer are *)
(* PermissionGate's), and grant_resolved adds it unless a root covers it.      *)
Grant(raw) ==
    LET t == resolve_grant_target(raw)
    IN  /\ up /\ t # Nowhere
        /\ extras' = IF is_granted(t[1]) THEN extras ELSE extras \cup {t[1]}
        /\ approved' = approved \cup {t[1]}
        /\ UNCHANGED <<fs, up, tool, cand, handle, rest, touched>>

Stop ==
    /\ up /\ tool = IdleTool /\ up' = FALSE
    /\ UNCHANGED <<fs, extras, tool, cand, handle, rest, touched, approved>>

Mutnew_pinned(roots) ==
    IF \E r \in roots \cup {Primary} : Resolve(r) = Nowhere \/ Resolve(r)[1].kind # "dir" THEN Nowhere
    ELSE Some1({canonicalize(r)[1] : r \in roots} \ {Primary})

(* The recorded roots of a resumed session: each must still be the directory  *)
(* it was approved as, or the session does not start.                         *)
new_pinned(roots) ==
    IF \E r \in roots \cup {Primary} : Resolve(r) = Nowhere \/ Resolve(r)[1].kind # "dir" \/ canonicalize(r)[1] # r THEN Nowhere
    ELSE Some1({canonicalize(r)[1] : r \in roots} \ {Primary})

Resume ==
    /\ ~up /\ new_pinned(extras) # Nowhere
    /\ extras' = new_pinned(extras)[1] /\ up' = TRUE
    /\ UNCHANGED <<fs, tool, cand, handle, rest, touched, approved>>

-----------------------------------------------------------------------------
(* Another process puts an entry in the place of a name, or takes it away. *)
Swap(s) ==
    /\ fs' = [fs EXCEPT ![s.dir] = IF s.entry.kind = "none" THEN [n \in DOMAIN @ \ {s.name} |-> @[n]]
                                   ELSE (s.name :> s.entry) @@ @]
    /\ fs' # fs
    /\ UNCHANGED <<extras, up, tool, cand, handle, rest, touched, approved>>

FilesInit ==
    /\ fs = Tree /\ extras = {} /\ up = TRUE /\ tool = IdleTool /\ cand = << >> /\ handle = "none"
    /\ rest = << >> /\ touched = {} /\ approved = {Primary}

FilesNext ==
    \/ \E n \in Tools, r \in Requests : Call(n, r)
    \/ Inspect \/ Canonicalize \/ OpenRoot \/ Walk \/ Stat \/ ReadLeaf \/ replace \/ List
    \/ \E d \in DOMAIN fs : \E n \in DOMAIN fs[d] : GrepDown(n)
    \/ GrepFile \/ GrepEnd
    \/ \E r \in GrantRequests : Grant(r)
    \/ Stop \/ Resume
    \/ \E s \in Swaps : Swap(s)

FilesSpec == FilesInit /\ [][FilesNext]_fileVars

-----------------------------------------------------------------------------
(* Properties *)

(* The directories that were under a path when the session began. *)
Under(p) ==
    LET F[k \in 0 .. Len(p)] == IF k = 0 THEN "/" ELSE Tree[F[k - 1]][p[k]].to
        top == F[Len(p)]
        inner(d) == {Tree[d][n].to : n \in {m \in DOMAIN Tree[d] : Tree[d][m].kind = "dir"}}
        Below[n \in 0 .. Cardinality(DOMAIN Tree)] ==
            IF n = 0 THEN {top} ELSE LET above == Below[n - 1] IN above \cup UNION {inner(d) : d \in above}
    IN  Below[Cardinality(DOMAIN Tree)]

(* Whatever is swapped for a link between the steps of a tool, it reads,      *)
(* lists and writes only in directories under roots a person approved.        *)
BoundaryHolds == touched \ {Fresh} \subseteq UNION {Under(p) : p \in approved}

(* No grant, and no resumed grant that leads elsewhere by then, opens a       *)
(* credential store or the home directory.                                    *)
SecretsStayOut == \A r \in extras : r \in approved /\ ~refuse_as_unattended_root(r)
=============================================================================

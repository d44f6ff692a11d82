---------------------------- MODULE IsolatedGit ----------------------------
(***************************************************************************)
(* Git run by the host over a repository the model may write: a snapshot   *)
(* of HEAD, the index and the configuration with metadata of its own, a    *)
(* copy of the working tree made path by path, and what is read off it:    *)
(* the patch of an evaluation, or the changes `/diff` shows.               *)
(* (git_workspace.rs, git_workspace/view.rs, git_diff.rs, eval runner.rs)  *)
(*                                                                         *)
(* Merge conflicts, modes of files, ignored paths and paths below another  *)
(* path are left out, and the bytes of a file, once it is open, are read   *)
(* at one moment.                                                          *)
(***************************************************************************)
EXTENDS Naturals, Sequences, FiniteSets

CONSTANTS
    Path,               \* paths of the working tree, numbered in their order
    Control,            \* the ones git reads rules from, such as .gitignore
    StateDir,           \* the ones below .deep-code
    Content,            \* contents of files, targets of links, commits of nested repositories
    Commits,            \* trees the repository may be at to begin with
    CopyBudget,         \* regular files a copy may hold
    MaxChanges          \* bound: changes of the working tree and the repository by others

Nothing == [kind |-> "none", what |-> 0]
Is(k)   == {[kind |-> k, what |-> c] : c \in Content}
Empty   == [kind |-> "file", what |-> 0]
Special == [kind |-> "fifo", what |-> 0]
Folder  == [kind |-> "repo", what |-> 0]    \* a directory that is no repository with a commit

Recorded == {Nothing} \cup Is("file") \cup Is("link") \cup Is("repo")
Entries  == Recorded \cup {Special, Folder}

ASSUME IsolatedGitAssumption ==
    /\ Path \subseteq Nat \ {0} /\ Control \subseteq Path /\ StateDir \subseteq Path
    /\ Content \subseteq Nat \ {0} /\ CopyBudget \in Nat /\ MaxChanges \in Nat
    /\ Commits \subseteq [Path -> Recorded]

VARIABLES
    work,               \* the source working tree
    repo,               \* the source repository's own HEAD, index and core.symlinks
    git,                \* IsolatedGit, and what it is used for
    changes,
    seen                \* history: what each path was since this copy began

gitVars == <<work, repo, git, changes, seen>>

NoTree == [p \in Path |-> Nothing]

NoGit == [pc |-> "none", use |-> "none", head |-> NoTree, index |-> NoTree, baseline |-> NoTree,
          symlinks |-> TRUE, cached |-> NoTree, unchanged |-> {}, view |-> NoTree, links |-> NoTree,
          left |-> {}, kind |-> "none", copied |-> 0, shows |-> NoTree, untracked |-> {}]

(* What core.symlinks says, if anything. *)
Settled == {"unset", "true", "false"}

(* A branch without a commit has no tree. *)
GitOn(tree, index, head, use, symlinks) ==
    /\ work = tree
    /\ repo = [head |-> head, index |-> index, symlinks |-> symlinks]
    /\ git = [NoGit EXCEPT !.use = use]
    /\ changes = 0
    /\ seen = [p \in Path |-> {}]

(* How git checks out an entry where it may not make links. *)
CheckedOut(e, symlinks) ==
    IF e.kind = "link" /\ symlinks = "false" THEN [kind |-> "file", what |-> e.what] ELSE e

(* An evaluation snapshots a clean checkout; `/diff` one that may be       *)
(* staged otherwise than it was committed.                                 *)
GitInit ==
    \E head \in Commits, symlinks \in Settled \cup {"other"} :
        LET tree == [p \in Path |-> CheckedOut(head[p], symlinks)]
        IN \/ GitOn(tree, head, head, "patch", symlinks)
           \/ \E index \in {head, NoTree} : GitOn(tree, index, head, "diff", symlinks)

(* An error ends it: the copy and its metadata are dropped.                *)
Dropped == [NoGit EXCEPT !.pc = "failed"]
Fails == git' = Dropped

(***************************************************************************)
(* The snapshot. A git command may fail at each step: it is missing, it    *)
(* says no, it takes too long or says more than is kept.                   *)
(***************************************************************************)

(* new_in_pinned: HEAD, the index and the configuration as each is found.  *)
ReadHead ==
    /\ git.pc = "none"
    /\ Fails \/ git' = [git EXCEPT !.pc = "index", !.head = repo.head]
    /\ UNCHANGED <<work, repo, changes, seen>>

ReadIndex ==
    /\ git.pc = "index"
    /\ Fails \/ git' = [git EXCEPT !.pc = "config", !.index = repo.index]
    /\ UNCHANGED <<work, repo, changes, seen>>

(* Of the settings that change contents, the one that bears on links.      *)
content_config(setting) == setting # "false"

(* restore_index, and the list of links begun again. *)
restore_index(g) == [g EXCEPT !.cached = g.index, !.unchanged = {}, !.links = NoTree]

(* What git lists of the source beside the index: no FIFO, no directory.   *)
Listed == {p \in Path : work[p] \notin {Nothing, Special, Folder}}

(* refresh begins: every path of the index, and every other one listed.    *)
BeginCopy(g) ==
    [restore_index(g) EXCEPT !.pc = "copy", !.view = NoTree, !.copied = 0,
                             !.left = Listed \cup {p \in Path : g.index[p] # Nothing}]

(* A branch without a commit is compared with its index. *)
Baseline(head, index) == IF head = NoTree THEN index ELSE head

(* The snapshot is whole and its first copy begins; a setting that nobody  *)
(* can read is an error.                                                   *)
new_in_pinned ==
    /\ git.pc = "config"
    /\ \/ Fails
       \/ /\ repo.symlinks \in Settled
          /\ git' = BeginCopy([git EXCEPT !.baseline = Baseline(git.head, git.index),
                                          !.symlinks = content_config(repo.symlinks)])
    /\ seen' = [p \in Path |-> {work[p]}]
    /\ UNCHANGED <<work, repo, changes>>

MutCacheEntry(g, p) == g

(* A file in the place of a link is a file, where links can be made.       *)
cache_entry(g, p) ==
    IF g.index[p].kind = "link" /\ g.symlinks
    THEN [g EXCEPT !.cached[p] = [kind |-> "file", what |-> g.index[p].what]]
    ELSE g

(* A link is a file that holds its target; one that git would read rules   *)
(* through is empty, and is taken as git has it.                           *)
link_entry(g, p, e) ==
    LET control == p \in Control
        tracked == g.index[p] # Nothing
    IN [g EXCEPT !.view[p] = IF control THEN Empty ELSE [kind |-> "file", what |-> e.what],
                 !.links[p] = e,
                 !.cached[p] = IF tracked THEN e ELSE @,
                 !.unchanged = IF tracked /\ control THEN @ \cup {p} ELSE @]

(* A path is looked at by name, through the directory it was found in.     *)
(* What is gone is left out, what nothing can be copied of is an error.    *)
Inspected(g, p, e) ==
    CASE e.kind = "none" -> [g EXCEPT !.left = @ \ {p}]
      [] e.kind = "fifo" -> Dropped
      [] OTHER -> [g EXCEPT !.pc = "open", !.kind = e.kind]

(* It is read only if it still is what it was, within the budget.          *)
Readable(g, e) == e.kind = g.kind /\ (e.kind = "file" => g.copied < CopyBudget)

(* Nothing is read through a link. *)
Copied(g, p, e) ==
    CASE e.kind = "link" -> link_entry(g, p, e)
      [] e.kind = "file" -> cache_entry([g EXCEPT !.view[p] = e, !.copied = @ + 1], p)
      [] e.kind = "repo" -> [g EXCEPT !.view[p] = Folder]

(* The commit a directory is at is asked for by its path: of what is there *)
(* by then, behind a link or around a directory of the repository itself.  *)
Asked(e) ==
    CASE e.kind = "repo" /\ e # Folder -> {e}
      [] e.kind = "link" \/ e = Folder -> {Folder} \cup Is("repo")
      [] OTHER -> {Folder}

Reading(pc, p) == git.pc = pc /\ p \in git.left /\ \A r \in git.left : p <= r

(* refresh, one path after the other. *)
inspect(p) ==
    /\ Reading("copy", p)
    /\ Fails \/ git' = Inspected(git, p, work[p])
    /\ UNCHANGED <<work, repo, changes, seen>>

refresh(p) ==
    /\ Reading("open", p)
    /\ \/ /\ Readable(git, work[p])
          /\ LET g == Copied(git, p, work[p])
             IN git' = IF work[p].kind = "repo" /\ work[p] # Folder THEN [g EXCEPT !.pc = "ask"]
                       ELSE [g EXCEPT !.pc = "copy", !.left = @ \ {p}]
       \/ Fails
    /\ UNCHANGED <<work, repo, changes, seen>>

(* The nested repository is asked for its commit. *)
rev_parse(p) ==
    /\ Reading("ask", p)
    /\ \/ \E e \in Asked(work[p]) : git' = [git EXCEPT !.pc = "copy", !.left = @ \ {p}, !.view[p] = e]
       \/ Fails
    /\ UNCHANGED <<work, repo, changes, seen>>

(* Copied: the host of an evaluation goes on to the turn, and refreshes    *)
(* when that is over; `/diff` reads the copy at once.                      *)
Refreshed ==
    /\ git.pc = "copy" /\ git.left = {}
    /\ git' = [git EXCEPT !.pc = IF git.use = "patch" THEN "turn" ELSE "copied"]
    /\ UNCHANGED <<work, repo, changes, seen>>

extract_git_diff ==
    /\ git.pc = "turn"
    /\ git' = BeginCopy([git EXCEPT !.use = "extract"])
    /\ seen' = [p \in Path |-> {work[p]}]
    /\ UNCHANGED <<work, repo, changes>>

(***************************************************************************)
(* What git makes of the copy. Links cannot be made in it, so a file keeps *)
(* the type the index has.                                                 *)
(***************************************************************************)

InView(g, p) ==
    LET e == g.view[p]
    IN CASE e = Folder -> IF g.cached[p].kind = "repo" THEN g.cached[p] ELSE Nothing
         [] e.kind = "file" /\ g.cached[p].kind = "link" -> [kind |-> "link", what |-> e.what]
         [] OTHER -> e

(* git add -A, but for the program's own directory. *)
Added(g, p) == IF p \in g.unchanged \cup StateDir THEN g.cached[p] ELSE InView(g, p)

stage_all(g) ==
    [p \in Path |-> IF g.links[p] # Nothing /\ p \notin StateDir THEN g.links[p] ELSE Added(g, p)]

(* git diff --cached: the staged tree against the baseline; one too long   *)
(* is an error.                                                            *)
ShowPatch ==
    /\ git.pc = "copied" /\ git.use = "extract"
    /\ Fails \/ git' = [git EXCEPT !.pc = "shown", !.shows = stage_all(git)]
    /\ UNCHANGED <<work, repo, changes, seen>>

(* What a diff of the working tree sees of the paths the index has.        *)
Tracked(g) ==
    [p \in Path |-> IF g.cached[p] = Nothing THEN Nothing
                    ELSE IF p \in g.unchanged THEN g.cached[p] ELSE InView(g, p)]

Untracked(g) == {p \in Path : g.cached[p] = Nothing /\ g.view[p] \notin {Nothing, Folder}}

(* git diff: what the index tracks, as the copy has it; what it does not   *)
(* track is listed by name, up to the length that is kept, or not at all   *)
(* when the listing fails. A diff cut at its length is left out.           *)
working_tree_diff ==
    /\ git.pc = "copied" /\ git.use = "diff"
    /\ \/ Fails
       \/ \E last \in {0} \cup Path :
             git' = [git EXCEPT !.pc = "shown", !.shows = Tracked(git),
                                !.untracked = {p \in Untracked(git) : p <= last}]
    /\ UNCHANGED <<work, repo, changes, seen>>

(***************************************************************************)
(* Meanwhile. A turn changes the tree and the repository: the one that is  *)
(* evaluated between the two copies, and what it left running while the    *)
(* second is made; any turn that goes on while somebody asks for `/diff`.  *)
(***************************************************************************)

Meanwhile ==
    /\ changes < MaxChanges /\ changes' = changes + 1
    /\ git.pc \in {"none", "index", "config", "copy", "open", "ask", "turn"}
    /\ git.use = "patch" => git.pc = "turn"
    /\ UNCHANGED git

EditTree(p, e) ==
    /\ Meanwhile /\ e # work[p]
    /\ work' = [work EXCEPT ![p] = e]
    /\ seen' = [seen EXCEPT ![p] = @ \cup {e}]
    /\ UNCHANGED repo

(* What git can record of a tree. *)
Commit(tree) == [p \in Path |-> IF tree[p] \in Recorded THEN tree[p] ELSE Nothing]

(* The tree is staged or committed, the history dropped, or links allowed  *)
(* or forbidden.                                                           *)
EditRepo ==
    /\ Meanwhile
    /\ \E tree \in {Commit(work), NoTree} :
          repo' \in {[repo EXCEPT !.index = tree], [repo EXCEPT !.head = tree, !.index = tree]}
                    \cup {[repo EXCEPT !.symlinks = s] : s \in {"true", "false"}}
    /\ UNCHANGED <<work, seen>>

GitNext ==
    \/ ReadHead \/ ReadIndex \/ new_in_pinned \/ Refreshed \/ extract_git_diff \/ ShowPatch \/ working_tree_diff
    \/ EditRepo
    \/ \E p \in Path : inspect(p) \/ refresh(p) \/ rev_parse(p)
    \/ \E p \in Path, e \in Entries : EditTree(p, e)

(***************************************************************************)
(* Properties.                                                             *)
(***************************************************************************)

(* What a path that held e should be recorded as, against what it was.     *)
AsRecorded(old, e, symlinks) ==
    CASE e = Folder -> IF old.kind = "repo" THEN old ELSE Nothing
      [] e = Special -> Nothing
      [] e.kind = "file" /\ old.kind = "link" /\ ~symlinks -> [kind |-> "link", what |-> e.what]
      [] OTHER -> e

(* A nested repository that is replaced after it was looked at is recorded *)
(* at some commit, or not at all: its path is asked a second time.         *)
Displaced(p) ==
    /\ \E x, y \in seen[p] : x.kind = "repo" /\ x # Folder /\ y # x
    /\ git.shows[p].kind \in {"repo", "none"}

(* The changes shown are those between the tree that was there when the    *)
(* snapshot was taken and the working tree as each path was at some moment *)
(* of the copy: a link is a link with its target and a file a file,        *)
(* whichever the other was, and nothing done since to HEAD, the index or   *)
(* the configuration moves the baseline. A path shown as untracked is one. *)
(* Nothing untracked of the program's own directory is in a patch, and of  *)
(* what is tracked there at most a link, as it was or as it is. Only a     *)
(* nested repository that is replaced under the copy may show a commit it  *)
(* never was at.                                                           *)
(* (IsolatedGit, extract_git_diff, working_tree_diff)                      *)
ChangesAreTheWork ==
    git.pc = "shown" =>
        /\ git.baseline = IF git.head = NoTree THEN git.index ELSE git.head
        /\ \A p \in Path :
              LET old == git.index[p]
                  links == {e \in seen[p] \cup {old} : e.kind = "link"}
              IN CASE git.use = "extract" /\ p \in StateDir ->
                          git.shows[p] = old \/ (old # Nothing /\ links # {})
                   [] git.use = "diff" /\ old = Nothing ->
                          /\ git.shows[p] = Nothing
                          /\ p \in git.untracked => \E e \in seen[p] : e \notin {Nothing, Folder}
                   [] OTHER -> Displaced(p) \/ \E e \in seen[p] : git.shows[p] = AsRecorded(old, e, git.symlinks)
=============================================================================

------------------------------- MODULE LspClient -------------------------------
(***************************************************************************)
(* Diagnostics after an edit: the manager that owns one language server,   *)
(* the transport that sends it a document and waits for what it publishes, *)
(* and the server at the other end of the pipes.                           *)
(*                                                                         *)
(* A text of a file is the number of edits that led to it.  Two queries    *)
(* overlap when a superseded turn is still finishing its edit.             *)
(***************************************************************************)
EXTENDS Naturals, Sequences, FiniteSets

CONSTANTS
    Query,          \* edits that ask for diagnostics, each once
    File,           \* files of one language
    SpawnBudget,    \* SPAWN_BUDGET
    QueueCap,       \* PUBLICATION_QUEUE
    MaxPublished,   \* bound: batches the servers publish
    MaxCrash        \* bound: crashes of a server

ASSUME LspAssumption == {SpawnBudget, QueueCap, MaxPublished, MaxCrash} \subseteq Nat

Transport == 1..SpawnBudget

VARIABLES
    disk,       \* text of each file
    cell,       \* LangCell: the live transport (0: none), spawns, notice given
    link,       \* StdioLspTransport and its pipes
    server,     \* the servers: documents they hold, batches published, crashes
    query       \* diagnostics_for of the manager and of the transport

lspVars == <<disk, cell, link, server, query>>

NoBatch == [n |-> 0, file |-> CHOOSE f \in File : TRUE, version |-> 0, text |-> 0]

LspOn(echoes) ==
    /\ disk = [f \in File |-> 0]
    /\ cell = [transport |-> 0, spawns |-> 0, notified |-> FALSE]
    /\ link = [t \in Transport |-> [alive |-> FALSE, holder |-> {}, versions |-> [f \in File |-> 0],
                                    stdin |-> <<>>, stdout |-> <<>>, queue |-> <<>>]]
    /\ server = [echoes |-> echoes, docs |-> [t \in Transport |-> {}], published |-> 0, crashes |-> 0]
    /\ query = [q \in Query |-> [pc |-> "idle", file |-> NoBatch.file, text |-> 0, on |-> 0,
                                 version |-> 0, since |-> 0, alone |-> TRUE, got |-> NoBatch]]

LspInit == \E echoes \in BOOLEAN : LspOn(echoes)

Asking(q) == query[q].pc \notin {"idle", "over"}

Ends(q) == query' = [query EXCEPT ![q].pc = "over"]

-----------------------------------------------------------------------------
(* The manager *)

(* An edit tool has succeeded and the runtime asks about its file. *)
collect_for_edit(q) ==
    /\ query[q].pc = "idle"
    /\ \E f \in File :
         LET others == {o \in Query : Asking(o) /\ query[o].file = f}
         IN  /\ disk' = [disk EXCEPT ![f] = @ + 1]
             /\ query' = [o \in Query |->
                   CASE o = q -> [query[q] EXCEPT !.pc = "reading", !.file = f, !.alone = (others = {})]
                     [] o \in others -> [query[o] EXCEPT !.alone = FALSE]
                     [] OTHER -> query[o]]
    /\ UNCHANGED <<cell, link, server>>

(* The file is read, or cannot be. *)
Reads(q) ==
    /\ query[q].pc = "reading"
    /\ \/ query' = [query EXCEPT ![q].pc = "acquiring", ![q].text = disk[query[q].file]]
       \/ Ends(q)
    /\ UNCHANGED <<disk, cell, link, server>>

(* The lock of the cell is held over probe, launch and install. *)
acquire(q) ==
    /\ query[q].pc = "acquiring"
    /\ \/ /\ cell.transport # 0
          /\ query' = [query EXCEPT ![q].pc = "asking", ![q].on = cell.transport]
          /\ UNCHANGED <<cell, link>>
       \/ /\ cell.transport = 0 /\ cell.spawns >= SpawnBudget
          /\ Ends(q) /\ UNCHANGED <<cell, link>>
       \/ /\ cell.transport = 0 /\ cell.spawns < SpawnBudget
          /\ cell' = [cell EXCEPT !.transport = cell.spawns + 1, !.spawns = @ + 1]
          /\ link' = [link EXCEPT ![cell.spawns + 1].alive = TRUE]
          /\ query' = [query EXCEPT ![q].pc = "asking", ![q].on = cell.spawns + 1]
       \/ /\ cell.transport = 0 /\ cell.spawns < SpawnBudget     \* the launch failed
          /\ cell' = [cell EXCEPT !.notified = TRUE]
          /\ Ends(q) /\ UNCHANGED link
    /\ UNCHANGED <<disk, server>>

(* Takes whatever transport the cell holds by now. *)
evict(q) ==
    /\ query[q].pc = "failed"
    /\ cell' = [cell EXCEPT !.transport = 0]
    /\ query' = [query EXCEPT ![q].pc = IF cell.transport = 0 THEN "over" ELSE "killing",
                              ![q].on = IF cell.transport = 0 THEN @ ELSE cell.transport]
    /\ UNCHANGED <<disk, link, server>>

shutdown(q) ==
    /\ query[q].pc = "killing"
    /\ link' = [link EXCEPT ![query[q].on].alive = FALSE]
    /\ Ends(q)
    /\ UNCHANGED <<disk, cell, server>>

(* The session ends. *)
shutdown_all ==
    /\ cell.transport # 0
    /\ cell' = [cell EXCEPT !.transport = 0]
    /\ link' = [link EXCEPT ![cell.transport].alive = FALSE]
    /\ UNCHANGED <<disk, server, query>>

-----------------------------------------------------------------------------
(* The transport *)

(* The version is drawn before the lock on the queue is asked for. *)
DrawVersion(q) ==
    LET t == query[q].on  f == query[q].file
    IN  /\ query[q].pc = "asking"
        /\ link' = [link EXCEPT ![t].versions[f] = @ + 1]
        /\ query' = [query EXCEPT ![q].pc = "locking", ![q].version = link[t].versions[f] + 1]
        /\ UNCHANGED <<disk, cell, server>>

MutSend(q) ==
    LET t == query[q].on
        frame == [file |-> query[q].file, version |-> query[q].version, text |-> query[q].text]
    IN  /\ query[q].pc = "locking" /\ link[t].holder = {}
        /\ link' = [link EXCEPT ![t].holder = {q}, ![t].stdin = Append(@, frame)]
        /\ query' = [query EXCEPT ![q].pc = "waiting", ![q].since = IF link[t].queue = <<>> THEN @
                                               ELSE link[t].queue[Len(link[t].queue)].n]
        /\ UNCHANGED <<disk, cell, server>>

(* Under the lock: what is queued is dropped, and the whole text goes out;  *)
(* the frame is written by a task of its own, whatever becomes of the query. *)
Send(q) ==
    LET t == query[q].on
        frame == [file |-> query[q].file, version |-> query[q].version, text |-> query[q].text]
    IN  /\ query[q].pc = "locking" /\ link[t].holder = {}
        /\ link' = [link EXCEPT ![t].holder = {q}, ![t].queue = <<>>, ![t].stdin = Append(@, frame)]
        /\ query' = [query EXCEPT ![q].pc = "waiting",
                                  ![q].since = IF link[t].queue = <<>> THEN @
                                               ELSE link[t].queue[Len(link[t].queue)].n]
        /\ UNCHANGED <<disk, cell, server>>

MutIsStale(batch, version) == FALSE

(* A server may leave the version out. *)
IsStale(batch, version) == batch.version # 0 /\ batch.version < version

Receives(q) ==
    LET t == query[q].on  batch == Head(link[t].queue)
        answer == batch.file = query[q].file /\ ~IsStale(batch, query[q].version)
    IN  /\ query[q].pc = "waiting" /\ link[t].queue # <<>>
        /\ link' = [link EXCEPT ![t].queue = Tail(@), ![t].holder = IF answer THEN {} ELSE @]
        /\ IF answer THEN query' = [query EXCEPT ![q].pc = "over", ![q].got = batch]
           ELSE UNCHANGED query
        /\ UNCHANGED <<disk, cell, server>>

(* The budget runs out, waiting for the lock or for the answer: not an error. *)
TimesOut(q) ==
    /\ query[q].pc \in {"locking", "waiting"}
    /\ Ends(q)
    /\ link' = [link EXCEPT ![query[q].on].holder = @ \ {q}]
    /\ UNCHANGED <<disk, cell, server>>

(* The frame cannot be written, or the channel closes for good.            *)
Disconnects(q) ==
    LET t == query[q].on
    IN  /\ query[q].pc = "waiting" /\ ~link[t].alive
        /\ link' = [link EXCEPT ![t].holder = {}]
        /\ \/ query' = [query EXCEPT ![q].pc = "failed"]
           \/ link[t].queue = <<>> /\ link[t].stdout = <<>> /\ Ends(q)
        /\ UNCHANGED <<disk, cell, server>>

(* pump_server_output: it waits while the queue is full. *)
pump_server_output(t) ==
    /\ link[t].stdout # <<>> /\ Len(link[t].queue) < QueueCap
    /\ link' = [link EXCEPT ![t].stdout = Tail(@), ![t].queue = Append(@, Head(link[t].stdout))]
    /\ UNCHANGED <<disk, cell, server, query>>

-----------------------------------------------------------------------------
(* The language server *)

ServerReads(t) ==
    /\ link[t].alive /\ link[t].stdin # <<>>
    /\ LET frame == Head(link[t].stdin)
       IN  server' = [server EXCEPT !.docs[t] = {d \in @ : d.file # frame.file} \cup {frame}]
    /\ link' = [link EXCEPT ![t].stdin = Tail(@)]
    /\ UNCHANGED <<disk, cell, query>>

(* It analyses what it holds, as often and as late as it likes. *)
ServerPublishes(t) ==
    /\ link[t].alive /\ server.published < MaxPublished
    /\ \E d \in server.docs[t] :
         link' = [link EXCEPT ![t].stdout =
                    Append(@, [n |-> server.published + 1, file |-> d.file, text |-> d.text,
                               version |-> IF server.echoes THEN d.version ELSE 0])]
    /\ server' = [server EXCEPT !.published = @ + 1]
    /\ UNCHANGED <<disk, cell, query>>

ServerCrashes(t) ==
    /\ link[t].alive /\ server.crashes < MaxCrash
    /\ link' = [link EXCEPT ![t].alive = FALSE]
    /\ server' = [server EXCEPT !.crashes = @ + 1]
    /\ UNCHANGED <<disk, cell, query>>

LspNext ==
    \/ \E q \in Query :
         \/ collect_for_edit(q) \/ Reads(q) \/ acquire(q) \/ evict(q) \/ shutdown(q)
         \/ DrawVersion(q) \/ Send(q) \/ Receives(q) \/ TimesOut(q) \/ Disconnects(q)
    \/ \E t \in Transport :
         \/ pump_server_output(t) \/ ServerReads(t) \/ ServerPublishes(t) \/ ServerCrashes(t)
    \/ shutdown_all

-----------------------------------------------------------------------------
(* Properties *)

(* Diagnostics shown after an edit are about the file that was edited and   *)
(* never a batch that was already queued when the text was sent; from a     *)
(* server that echoes versions they are of that text or a later one, unless *)
(* another edit of the file was being asked about at the same time          *)
(* (StdioLspTransport::diagnostics_for, its two staleness layers).          *)
DiagnosticsAreFresh ==
    \A q \in Query : query[q].got # NoBatch =>
        /\ query[q].got.file = query[q].file
        /\ query[q].got.n > query[q].since
        /\ server.echoes /\ query[q].alone => query[q].got.text >= query[q].text
=============================================================================

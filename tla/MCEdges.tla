------------------------------ MODULE MCEdges ------------------------------
(***************************************************************************)
(* The parts at the edges of a turn, each on its own: the prompt being     *)
(* composed and the prompts remembered, images on their way into a         *)
(* request, the model's stream and its decoder, what a command prints, the *)
(* language server, the pages fetched, what a launch finds, and the turn   *)
(* as the screen shows it.                                                 *)
(***************************************************************************)
EXTENDS LspClient, OutputSpill, ModelStream, TurnView, Composer,
        WebFetch, ImageStore, LaunchContext, PromptHistory

VARIABLE edge       \* the part this behaviour is about

edgeVars == <<composerVars, streamVars, sseVars, spillVars, lspVars, viewVars,
              webVars, imageVars, launchVars, historyVars, edge>>

MCPageChars == <<3, 1>>
MCRoots == <<"skills", "home">>
MCLinks == {<<"skills", "a">>, <<"skills", "b">>, <<"b", "c">>, <<"c", "d">>, <<"a", "d">>, <<"home", "c">>, <<"d", "a">>}

(* The parts that a behaviour is not about stand still in one state. *)
LightRoute == [escalated |-> FALSE, pressure |-> FALSE, saving |-> FALSE, weight |-> "light"]
NoSkills   == DiscoverOn({}, [p \in Place |-> "directory"])
NoSessions == ScanOn([f \in Saved |-> [at |-> 1, kind |-> "empty"]])

EdgesInit ==
    /\ edge \in {"composer", "stream", "decoder", "spill", "lsp", "view", "web",
                 "images", "skills", "sessions", "history"}
    /\ IF edge = "lsp" THEN LspInit ELSE LspOn(TRUE)
    /\ IF edge = "spill" THEN SpillInit ELSE SpillOn("foreground", {})
    /\ IF edge = "decoder" THEN SseInit ELSE SseOn(<<>>)
    /\ IF edge = "stream" THEN StreamInit
       ELSE StreamOn(resolve_turn_route("flash", "high", FALSE, LightRoute))
    /\ ViewInit /\ ComposerInit /\ HistoryInit
    /\ IF edge = "web" THEN WebInit ELSE WebOn(TRUE)
    /\ IF edge = "images" THEN HydrateInit \/ PasteInit ELSE ImagesOn(<<>>, TRUE, NoImage)
    /\ IF edge = "skills" THEN DiscoverInit ELSE NoSkills
    /\ IF edge = "sessions" THEN ScanInit ELSE NoSessions

Composes(A) == edge = "composer" /\ A
    /\ UNCHANGED <<streamVars, sseVars, spillVars, lspVars, viewVars,
                   webVars, imageVars, launchVars, historyVars, edge>>
Streams(A) == edge = "stream" /\ A
    /\ UNCHANGED <<composerVars, sseVars, spillVars, lspVars, viewVars,
                   webVars, imageVars, launchVars, historyVars, edge>>
Decodes(A) == edge = "decoder" /\ A
    /\ UNCHANGED <<composerVars, streamVars, spillVars, lspVars, viewVars,
                   webVars, imageVars, launchVars, historyVars, edge>>
Spills(A) == edge = "spill" /\ A
    /\ UNCHANGED <<composerVars, streamVars, sseVars, lspVars, viewVars,
                   webVars, imageVars, launchVars, historyVars, edge>>
Diagnoses(A) == edge = "lsp" /\ A
    /\ UNCHANGED <<composerVars, streamVars, sseVars, spillVars, viewVars,
                   webVars, imageVars, launchVars, historyVars, edge>>
Shows(A) == edge = "view" /\ A
    /\ UNCHANGED <<composerVars, streamVars, sseVars, spillVars, lspVars,
                   webVars, imageVars, launchVars, historyVars, edge>>
Browses(A) == edge = "web" /\ A
    /\ UNCHANGED <<composerVars, streamVars, sseVars, spillVars, lspVars,
                   viewVars, imageVars, launchVars, historyVars, edge>>
Attaches(A) == edge = "images" /\ A
    /\ UNCHANGED <<composerVars, streamVars, sseVars, spillVars, lspVars,
                   viewVars, webVars, launchVars, historyVars, edge>>
Launches(A) == edge \in {"skills", "sessions"} /\ A
    /\ UNCHANGED <<composerVars, streamVars, sseVars, spillVars, lspVars,
                   viewVars, webVars, imageVars, historyVars, edge>>
Recalls(A) == edge = "history" /\ A
    /\ UNCHANGED <<composerVars, streamVars, sseVars, spillVars, lspVars,
                   viewVars, webVars, imageVars, launchVars, edge>>

EdgesNext ==
    \/ Composes(ComposerNext) \/ Streams(StreamNext) \/ Decodes(SseNext)
    \/ Spills(SpillNext) \/ Diagnoses(LspNext) \/ Shows(ViewNext) \/ Browses(WebNext)
    \/ Attaches(request # <<>> /\ HydrateNext) \/ Attaches(request = <<>> /\ PasteNext)
    \/ Launches(edge = "skills" /\ DiscoverNext) \/ Launches(edge = "sessions" /\ ScanNext)
    \/ Recalls(HistoryNext)

(* The timers of a stream fire, and a failed stream is opened again. *)
EdgesSpec ==
    /\ EdgesInit /\ [][EdgesNext]_edgeVars
    /\ WF_edgeVars(Streams(StreamTimesOut)) /\ WF_edgeVars(Streams(reopen))

-----------------------------------------------------------------------------
(* The model's reply arrives whole: how the bytes are cut into chunks does   *)
(* not show in what is decoded, a reply that counts as complete holds every  *)
(* fragment once, however often the stream failed and was opened again, and  *)
(* each request is one the endpoint takes.                                   *)
ReplyHolds ==
    /\ edge = "decoder" => ChunksDoNotShow
    /\ edge = "stream" => ReplyIsWhole /\ RequestsAreFit

(* What the user types and sees is kept: the chips of a draft stay whole and *)
(* its prompt complete, a draft survives a walk through the history, the     *)
(* history file keeps the prompts of every instance, and a resumed session   *)
(* shows the turn as it was shown live.                                      *)
UserLosesNothing ==
    /\ edge = "composer" => PromptIsComplete /\ ChipsStayWhole /\ DraftSurvives
    /\ edge = "history" => PromptsAreKept
    /\ edge = "view" => ResumeShowsTheTurn

(* What is handed to the model is what was there: diagnostics are of the     *)
(* document that was asked about, the spill file is what the preview says,   *)
(* a page is kept as fetched and from a public address, images are sent or   *)
(* accounted for, and a launch finds the skills and sessions on disk.        *)
ModelIsToldTheTruth ==
    /\ edge = "lsp" => DiagnosticsAreFresh
    /\ edge = "spill" => FileIsWhatWasSaid
    /\ edge = "web" => PagesAreKept /\ OnlyPublicReached
    /\ edge = "images" => PastedIsStored /\ ImagesAreAccountedFor
    /\ edge = "skills" => SkillsAreFound /\ LaunchTellsTheTruth
    /\ edge = "sessions" => ListIsNewest
=============================================================================

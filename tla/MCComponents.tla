---------------------------- MODULE MCComponents ----------------------------
(***************************************************************************)
(* The components whose safety does not depend on another one's progress,  *)
(* for TLC: the terminal UI (session, controls, screen, transcript and the *)
(* guard of the terminal), the tool rounds of a turn, the verification of  *)
(* its edits, the history it sends, the schema of the database, the import *)
(* of an older one, the provider's binding and the guards on texts.  They  *)
(* share no variable, so their interleavings would add nothing: in each    *)
(* behaviour one of them moves, which one is the choice of Init, and the   *)
(* others stay where they began.                                           *)
(***************************************************************************)
EXTENDS TuiSession, TuiControls, TuiScreen, TuiTranscript, TerminalGuard,
        ToolRounds, Verification, History, SchemaBootstrap, LegacyImport,
        ProviderBinding, TextGuards

CONSTANTS old, new1, new2

VARIABLE focus

(* SchemaBootstrap: one process runs a build that knows one version less. *)
MCSupports == (old :> 2) @@ (new1 :> 3) @@ (new2 :> 3)

(* ProviderBinding: catalogues and the layers of the two config files; some
   home layers rename tools. *)
ModelsA == [m \in {"m1", "m2"} |-> [window |-> IF m = "m1" THEN 0 ELSE 2]]
ModelsB == [m \in {"m1"} |-> [window |-> 5]]
MCHomeLayers ==
    [url: {NoField, "u1"}, key: {NoField, "literal", "env"},
     models: {ModelsA}, aliases: {<<>>}, trust: BOOLEAN]
    \cup
    [url: {"u1"}, key: {"literal"}, models: {NoCatalog}, aliases: {<<>>}, trust: {FALSE}]
    \cup
    [url: {"u1"}, key: {"literal"}, models: {ModelsA}, trust: {FALSE},
     aliases: {"read" :> "write", ("read" :> "write") @@ ("write" :> "read")}]
MCWorkLayers ==
    [url: {NoField, "u2"}, key: {NoField, "literal", "env"},
     models: {NoCatalog, ModelsB}, aliases: {<<>>}, trust: {FALSE}]
    \cup
    [url: {"u2"}, key: {NoField, "env"}, models: {NoCatalog}, aliases: {<<>>}, trust: {TRUE}]
MCSections == <<3, 2, 4>>

componentVars == <<focus, tuiVars, controlsVars, screenVars, transcriptVars,
                   guardVars, roundsVars, verificationVars, historyVars,
                   bootstrapVars, importVars, bindingVars, body>>

(* A component that does not move begins in one of its initial states only. *)
ComponentsInit ==
    /\ focus \in {"session", "controls", "screen", "transcript", "guard", "rounds",
                  "verification", "history", "schema", "import", "binding", "text"}
    /\ TuiInit /\ ControlsInit /\ ScreenInit /\ TranscriptInit /\ GuardInit
    /\ RoundsInit /\ VerificationInit /\ HistoryInit /\ BootstrapInit
    /\ ImportInit /\ TextInit
    /\ focus # "screen" => terminal = CHOOSE t \in [w: Widths, h: Heights] : TRUE
    /\ focus # "history" => strategy = CHOOSE s \in Strategies : TRUE
    /\ focus # "schema" => ~unnamed
    /\ focus # "import" => \A s \in Imported : older[s].turns = <<>>
    /\ focus # "controls" => ~hosted["first"].exists
    /\ BindingInit
    /\ focus # "binding" => /\ home = CHOOSE h \in HomeLayers : TRUE
                            /\ workLayer = CHOOSE w \in WorkLayers : TRUE
                            /\ ~secret

(* The components other than the chosen one. *)
Still ==
    /\ UNCHANGED focus
    /\ focus # "session" => UNCHANGED tuiVars
    /\ focus # "controls" => UNCHANGED controlsVars
    /\ focus # "screen" => UNCHANGED screenVars
    /\ focus # "transcript" => UNCHANGED transcriptVars
    /\ focus # "guard" => UNCHANGED guardVars
    /\ focus # "rounds" => UNCHANGED roundsVars
    /\ focus # "verification" => UNCHANGED verificationVars
    /\ focus # "history" => UNCHANGED historyVars
    /\ focus # "schema" => UNCHANGED bootstrapVars
    /\ focus # "import" => UNCHANGED importVars
    /\ focus # "binding" => UNCHANGED bindingVars
    /\ focus # "text" => UNCHANGED body

ComponentsNext ==
    /\ \/ focus = "session" /\ TuiNext
       \/ focus = "controls" /\ ControlsNext
       \/ focus = "screen" /\ ScreenNext
       \/ focus = "transcript" /\ TranscriptNext
       \/ focus = "guard" /\ GuardNext
       \/ focus = "rounds" /\ RoundsNext
       \/ focus = "verification" /\ VerificationNext
       \/ focus = "history" /\ HistoryNext
       \/ focus = "schema" /\ BootstrapNext
       \/ focus = "import" /\ ImportNext
       \/ focus = "binding" /\ BindingNext
       \/ focus = "text" /\ TextNext
    /\ Still

ComponentsSpec == ComponentsInit /\ [][ComponentsNext]_componentVars
=============================================================================

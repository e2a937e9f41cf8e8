--------------------------- MODULE ProviderBinding ---------------------------
(***************************************************************************)
(* Configuration layers, the provider registry and pinned bindings.  One   *)
(* provider is configured by a home file and a workspace file that are     *)
(* edited while servers start, stop and are upgraded; a workspace reads    *)
(* both once, when it is opened.  A session pins the binding it was        *)
(* created with, or last switched to, and every turn resolves that binding *)
(* against the registry of the process that runs the turn.                 *)
(* A fingerprint is modelled by the fields it is computed from.            *)
(***************************************************************************)
EXTENDS Naturals, Sequences, TLC

CONSTANTS
    HomeLayers,     \* configurations the home file may hold
    WorkLayers,     \* configurations the workspace file may hold
    BuiltinCap,     \* the builtin profile's cap on repository context
    DefaultCap,     \* the configuration layer's own fallback for it
    ConfiguredCap,  \* session.context_cap_bytes after the merge
    BytesPerToken,  \* the builtin token estimate
    Sections,       \* sizes of AGENTS.md files and manifests, root first
    MaxLayerEdits,       \* bound on edits, restarts and upgrades together
    MaxTurns        \* bound on requests sent

NoField == "none"       \* a key the layer does not set
NoCatalog == <<>>       \* no models configured
NoRegistry == [valid |-> FALSE]

\* A layer sets some of: the endpoint, the key, the models with their options,
\* wire names for tools.
\* trust is providers.<p>.trust_repo_endpoint.
Layer(l) == /\ DOMAIN l = {"url", "key", "models", "aliases", "trust"}
            /\ l.key \in {NoField, "literal", "env"}
            /\ DOMAIN l.aliases \subseteq {"read", "write"}
            /\ \A m \in DOMAIN l.models : l.models[m].window \in Nat  \* 0: not declared
            /\ l.trust \in BOOLEAN

ASSUME BindingAssumption ==
    /\ \A l \in HomeLayers \union WorkLayers : Layer(l)
    /\ Sections \in Seq(Nat)
    /\ {BuiltinCap, DefaultCap, ConfiguredCap} \subseteq Nat \ {0} /\ BytesPerToken \in Nat \ {0}
    /\ MaxLayerEdits \in Nat /\ MaxTurns \in Nat

VARIABLES
    home, workLayer,     \* the two files
    secret,         \* whether the environment variable is set
    tools,          \* the running binary's tool descriptors
    host,        \* the server: "down", "up" (startup check passed)
    registry,       \* the registry of the opened workspace
    session,        \* the durable session: its binding, and what it was promised
    sent,           \* the last provider request of the session
    layerEdits, turns    \* counters of the bounds

bindingVars == <<home, workLayer, secret, tools, host, registry, session, sent,
                 layerEdits, turns>>

---------------------------------------------------------------------------
(* Loading                                                                 *)

Later(base, overlay) == IF overlay = NoField THEN base ELSE overlay

\* merge_value: keys of the later layer win, the model catalog as a whole.
Merged(h, w) == [url |-> Later(h.url, w.url),
                 key |-> Later(h.key, w.key),
                 models |-> IF w.models = NoCatalog THEN h.models ELSE w.models,
                 aliases |-> w.aliases @@ h.aliases]

\* A fault, for comparison: either file may grant the trust.
TrustedByAnyLayer(h, w) == h.trust \/ w.trust

\* take_workspace_trust_flags: the flag is read from the home layer only.
Trusted(h, w) == h.trust

\* A home key that survives the merge, or an environment variable that is set.
HoldsForeignCredential(h, w) ==
    \/ h.key # NoField /\ w.key = NoField
    \/ Merged(h, w).key = "env" /\ secret

\* enforce_workspace_endpoint_trust
EndpointTrusted(h, w) ==
    w.url # NoField => Trusted(h, w) \/ ~HoldsForeignCredential(h, w)

\* ProviderRegistry::validate: a provider has an endpoint, a key and models.
Valid(m) == m.url # NoField /\ m.key # NoField /\ m.models # NoCatalog

\* prepare_server checks the startup root with the gate; the registry is read
\* again, without it, when a client opens the workspace.
Startup ==
    /\ host = "down"
    /\ EndpointTrusted(home, workLayer) /\ Valid(Merged(home, workLayer))
    /\ host' = "up"
    /\ UNCHANGED <<home, workLayer, secret, tools, registry, session, sent, layerEdits, turns>>

OpenRegistry ==
    /\ host = "up" /\ ~registry.valid
    /\ Valid(Merged(home, workLayer))
    /\ registry' = [valid |-> TRUE, config |-> Merged(home, workLayer)]
    /\ UNCHANGED <<home, workLayer, secret, tools, host, session, sent, layerEdits, turns>>

---------------------------------------------------------------------------
(* Bindings                                                                *)

\* ToolAliases::new: a tool without a configured alias keeps its name.
AliasTable(config) == config.aliases @@ [t \in {"read", "write"} |-> t]

\* Two tools never share a wire name.
AliasesSound(config) == AliasTable(config)["read"] # AliasTable(config)["write"]

\* AliasedProvider: a call comes back under its wire name.
Raised(config, wire) == CHOOSE t \in {"read", "write"} : AliasTable(config)[t] = wire

CredentialRef(config) == IF config.key = "env" THEN "env:NAME" ELSE "config:p/api_key"

\* A fault, for comparison: binding_for_model without the endpoint, a
\* fingerprint of the model alone.
BindingOfModel(config, m) ==
    [model |-> m, fingerprint |-> [options |-> config.models[m]],
     tools |-> tools, aliases |-> AliasTable(config), credential |-> CredentialRef(config)]

\* binding_for_model, with_session_scope: the fingerprint covers the whole
\* definition but for the key and the other models.
BindingFor(config, m) ==
    [model |-> m, fingerprint |-> [url |-> config.url, options |-> config.models[m]],
     tools |-> tools, aliases |-> AliasTable(config), credential |-> CredentialRef(config)]

\* The tool descriptors with their documentation replaced by the placeholder
\* that earlier binaries shipped.
Placeholder(t) == [t EXCEPT !.doc = "placeholder"]

\* binding_matches_with_legacy_tools
MatchesBinding(stored, config) ==
    LET proposed == BindingFor(config, stored.model)
    IN  /\ [stored EXCEPT !.tools = tools] = proposed
        /\ stored.tools \in {tools, Placeholder(tools)}

\* resolve_session_bound, then the secret.
Resolves(stored) ==
    /\ stored.model \in DOMAIN registry.config.models /\ AliasesSound(registry.config)
    /\ MatchesBinding(stored, registry.config)
    /\ registry.config.key = "env" => secret

\* What the session was told it would talk to.
Promise(config, m) ==
    [url |-> config.url, model |-> m, options |-> config.models[m],
     credential |-> CredentialRef(config), schema |-> tools.schema,
     aliases |-> AliasTable(config)]

Pin(m) == session' = [bound |-> TRUE, binding |-> BindingFor(registry.config, m),
                      promise |-> Promise(registry.config, m)]

\* The binding is one of the catalog's; nothing is resolved yet.
CreateBound(m) ==
    /\ registry.valid /\ ~session.bound /\ AliasesSound(registry.config)
    /\ m \in DOMAIN registry.config.models
    /\ Pin(m)
    /\ UNCHANGED <<home, workLayer, secret, tools, host, registry, sent, layerEdits, turns>>

\* "Credential resolution remains deferred until the next accepted prompt."
SwitchModel(m) ==
    /\ registry.valid /\ session.bound /\ AliasesSound(registry.config)
    /\ m \in DOMAIN registry.config.models \ {session.binding.model}
    /\ Pin(m)
    /\ UNCHANGED <<home, workLayer, secret, tools, host, registry, sent, layerEdits, turns>>

---------------------------------------------------------------------------
(* Turns                                                                   *)

Lesser(a, b) == IF a < b THEN a ELSE b

\* layer_budget: a configured cap overrides the builtin one only where it is not
\* the configuration layer's default.
LayeredCap == IF ConfiguredCap = DefaultCap THEN BuiltinCap ELSE ConfiguredCap

\* ProfileCatalog::resolve: a declared context window only tightens the cap.
ResolvedCap(options) ==
    IF options.window = 0 THEN LayeredCap
    ELSE Lesser(LayeredCap, options.window * BytesPerToken)

\* A section that does not fit is cut at the cap and ends the bundle; only
\* whole sections are named as sources.
Admitted(bundle, size, cap) ==
    IF size > cap - bundle.bytes
    THEN [bundle EXCEPT !.bytes = cap, !.truncated = TRUE]
    ELSE [bundle EXCEPT !.bytes = @ + size, !.sources = @ + 1]

\* context::build
ContextBundle(cap) ==
    LET upTo[n \in 0..Len(Sections)] ==
            IF n = 0 THEN [bytes |-> 0, truncated |-> FALSE, sources |-> 0]
            ELSE IF upTo[n - 1].truncated THEN upTo[n - 1]
            ELSE Admitted(upTo[n - 1], Sections[n], cap)
    IN  upTo[Len(Sections)]

\* A turn of the session: the provider is resolved, or the turn fails.  The
\* model calls a tool by its wire name.
RunTurn(tool) ==
    /\ registry.valid /\ session.bound /\ turns < MaxTurns
    /\ turns' = turns + 1
    /\ sent' = IF Resolves(session.binding)
               THEN [to |-> registry.config.url, model |-> session.binding.model,
                     options |-> registry.config.models[session.binding.model],
                     credential |-> CredentialRef(registry.config),
                     schema |-> tools.schema,
                     aliases |-> AliasTable(registry.config),
                     called |-> tool,
                     raised |-> Raised(registry.config, AliasTable(registry.config)[tool]),
                     context |-> ContextBundle(
                         ResolvedCap(registry.config.models[session.binding.model]))]
               ELSE [to |-> "refused"]
    /\ UNCHANGED <<home, workLayer, secret, tools, host, registry, session, layerEdits>>

---------------------------------------------------------------------------
(* The outside                                                             *)

Edit(h, w) ==
    /\ layerEdits < MaxLayerEdits /\ layerEdits' = layerEdits + 1
    /\ home' = h /\ workLayer' = w /\ <<h, w>> # <<home, workLayer>>
    /\ h = home \/ w = workLayer
    /\ UNCHANGED <<secret, tools, host, registry, session, sent, turns>>

\* The process ends, and with it the registry; what was sent is past.
Shutdown ==
    /\ host = "up"
    /\ host' = "down" /\ registry' = NoRegistry
    /\ sent' = [to |-> "refused"]
    /\ UNCHANGED <<home, workLayer, secret, tools, session, layerEdits, turns>>

\* A newer binary documents its tools, or changes a schema.
UpgradeBinary ==
    /\ host = "down" /\ layerEdits < MaxLayerEdits /\ layerEdits' = layerEdits + 1
    /\ \/ tools.doc = "placeholder" /\ tools' = [tools EXCEPT !.doc = "documented"]
       \/ tools.schema = 1 /\ tools' = [tools EXCEPT !.schema = 2]
    /\ UNCHANGED <<home, workLayer, secret, host, registry, session, sent, turns>>

BindingInit ==
    /\ home \in HomeLayers /\ workLayer \in WorkLayers /\ secret \in BOOLEAN
    /\ tools = [doc |-> "placeholder", schema |-> 1]
    /\ host = "down" /\ registry = NoRegistry
    /\ session = [bound |-> FALSE] /\ sent = [to |-> "refused"]
    /\ layerEdits = 0 /\ turns = 0

BindingNext ==
    \/ Startup \/ OpenRegistry \/ Shutdown \/ UpgradeBinary
    \/ \E h \in HomeLayers, w \in WorkLayers : Edit(h, w)
    \/ \E tool \in {"read", "write"} : RunTurn(tool)
    \/ \E m \in {"m1", "m2"} : CreateBound(m) \/ SwitchModel(m)

BindingSpec == BindingInit /\ [][BindingNext]_bindingVars

---------------------------------------------------------------------------

\* A turn is only ever sent to what its session was bound to: the endpoint,
\* model, options, credential reference and tool schemas promised at creation
\* or at the last switch, whatever was edited, restarted or upgraded since.
SentAsPromised ==
    sent.to # "refused" /\ session.promise.model = sent.model =>
        session.promise = [url |-> sent.to, model |-> sent.model,
                           options |-> sent.options, credential |-> sent.credential,
                           schema |-> sent.schema, aliases |-> sent.aliases]

\* A tool call comes back as the tool whose declaration the model was shown,
\* whatever wire names the layers configure.
CallsComeBack == sent.to # "refused" => sent.raised = sent.called

\* Edits elsewhere do not strand a session: if the registry still offers what
\* it was promised and no schema changed, its binding resolves (the secret
\* apart), also after an upgrade that only documents the tools.
UnchangedStillServes ==
    registry.valid /\ session.bound =>
        LET config == registry.config
            m == session.binding.model
        IN  m \in DOMAIN config.models /\ Promise(config, m) = session.promise
            => MatchesBinding(session.binding, config)

\* The repository context of a request never exceeds the cap that the model of
\* this turn leaves, and says when it was cut: a section is missing or partial
\* exactly if truncated is set.
ContextFits ==
    sent.to # "refused" =>
        /\ sent.context.bytes <= ResolvedCap(sent.options)
        /\ sent.context.truncated <=> sent.context.sources < Len(Sections)

\* Under the configuration a server starts on, no key held outside the
\* workspace would go to an endpoint the workspace file chose, unless the home
\* file agreed: not the home file's key, and not a variable that is set.
KeyStaysHome ==
    [][ host = "down" /\ host' = "up" /\ workLayer.url # NoField /\ ~home.trust
        => LET key == Merged(home, workLayer).key
           IN  /\ key = "literal" => workLayer.key = "literal"
               /\ key = "env" => ~secret ]_bindingVars

\* The invariants of bindings together.
ProviderBindingCorrect ==
    SentAsPromised /\ UnchangedStillServes /\ ContextFits /\ CallsComeBack
==============================================================================

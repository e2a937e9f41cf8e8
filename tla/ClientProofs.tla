---------------------------- MODULE ClientProofs ----------------------------
(***************************************************************************)
(* Proofs about the two ends of a request: which provider, model and tools *)
(* a session is bound to (ProviderBinding), one call of that provider      *)
(* (ProviderClient), and the terminal UI that sends the prompts and shows  *)
(* what became of them (TuiControls, TuiSession, TuiTranscript), in one    *)
(* frame after another (TuiScreen); and the guards every text passes on    *)
(* its way (TextGuards).                                                   *)
(***************************************************************************)
EXTENDS ProviderBinding, ProviderClient, TuiControls, TuiSession, TuiScreen,
        TuiTranscript, TextGuards, FiniteSetTheorems, WellFoundedInduction,
        SequenceTheorems, TLAPS

-----------------------------------------------------------------------------
(* Induction over the numbers *)

(* Every set of naturals that is not empty has a least element: what the inductions below
   start from. *)
LEMMA LeastNumber ==
    ASSUME NEW T \in SUBSET Nat, T # {} PROVE \E x \in T : \A y \in T : x <= y
<1> DEFINE R == {p \in Nat \X Nat : p[1] < p[2]}
<1>1. IsWellFoundedOn(R, Nat)
  BY NatLessThanWellFounded DEF OpToRel
<1>2. PICK x \in T : \A y \in T : ~(<<y, x>> \in R)
  BY <1>1, WFMin
<1>3. ASSUME NEW y \in T PROVE x <= y
  <2>1. y \in Nat /\ x \in Nat /\ <<y, x>> \in Nat \X Nat
    OBVIOUS
  <2>2. ~(y < x)
    <3> SUFFICES ASSUME y < x PROVE FALSE
      OBVIOUS
    <3>1. <<y, x>>[1] < <<y, x>>[2]
      OBVIOUS
    <3>2. <<y, x>> \in R
      BY <2>1, <3>1, Zenon
    <3> QED BY <1>2, <3>2
  <2> QED BY <2>1, <2>2
<1> QED BY <1>3

(* u is what the steps of s make of b, up to the step k. *)
Iterates(u, B, b, s, k) ==
    u \in [0..k -> B] /\ u[0] = b /\ \A n \in 1..k : u[n] = s[n][u[n - 1]]

(* A function that goes from one number to the next exists. *)
LEMMA IterationExists ==
    ASSUME NEW N \in Nat, NEW B, NEW b \in B, NEW s \in [1..N -> [B -> B]]
    PROVE  \E u : Iterates(u, B, b, s, N)
<1> DEFINE T == {k \in 0..N : ~\E u : Iterates(u, B, b, s, k)}
<1> SUFFICES ASSUME T # {} PROVE FALSE
  <2>1. N \in 0..N
    OBVIOUS
  <2> QED BY <2>1
<1>1. PICK k \in T : \A j \in T : k <= j
  <2>1. T \in SUBSET Nat
    OBVIOUS
  <2> HIDE DEF T
  <2> QED BY <2>1, LeastNumber
<1>2. k \in 0..N /\ ~\E u : Iterates(u, B, b, s, k)
  OBVIOUS
<1>3. k # 0
  <2> DEFINE u == [n \in 0..0 |-> b]
  <2>1. Iterates(u, B, b, s, 0)
    BY DEF Iterates
  <2> QED BY <1>2, <2>1
<1>4. k - 1 \in 0..N /\ k - 1 \notin T
  <2>1. k \in Nat /\ k - 1 \in 0..N /\ ~(k <= k - 1)
    BY <1>2, <1>3
  <2> HIDE DEF T
  <2> QED BY <1>1, <2>1
<1>5. PICK u : Iterates(u, B, b, s, k - 1)
  BY <1>4
<1> DEFINE v == [n \in 0..k |-> IF n = k THEN s[k][u[k - 1]] ELSE u[n]]
<1>6. s[k][u[k - 1]] \in B
  <2>1. u[k - 1] \in B /\ k \in 1..N
    BY <1>2, <1>3, <1>5 DEF Iterates
  <2> QED BY <2>1
<1>7. v \in [0..k -> B] /\ v[0] = b
  BY <1>2, <1>3, <1>5, <1>6 DEF Iterates
<1>8. ASSUME NEW n \in 1..k PROVE v[n] = s[n][v[n - 1]]
  <2>1. CASE n = k
    <3>1. v[n] = s[k][u[k - 1]] /\ v[n - 1] = u[k - 1]
      BY <1>2, <1>3, <2>1
    <3> QED BY <2>1, <3>1
  <2>2. CASE n # k
    <3>1. n \in 1..(k - 1) /\ n \in 0..k /\ n - 1 \in 0..k /\ n - 1 # k
      BY <1>2, <2>2
    <3>2. v[n] = u[n] /\ v[n - 1] = u[n - 1]
      BY <2>2, <3>1
    <3> QED BY <1>5, <3>1, <3>2 DEF Iterates
  <2> QED BY <2>1, <2>2
<1> QED BY <1>2, <1>7, <1>8 DEF Iterates

Bundles == [bytes : Nat, truncated : BOOLEAN, sources : Nat]
NoBundle == [bytes |-> 0, truncated |-> FALSE, sources |-> 0]
WithSection(bundle, n, cap) ==
    IF bundle.truncated THEN bundle ELSE Admitted(bundle, Sections[n], cap)

IsBundle(u, cap) ==
    u = [n \in 0..Len(Sections) |-> IF n = 0 THEN NoBundle ELSE WithSection(u[n - 1], n, cap)]

(* ContextBundle is the last of the bundles that the sections make one after another. *)
LEMMA BundleIsLast ==
    ASSUME NEW cap PROVE ContextBundle(cap) = (CHOOSE u : IsBundle(u, cap))[Len(Sections)]
BY DEF ContextBundle, IsBundle, NoBundle, WithSection

(* One section more keeps a bundle within the cap. *)
LEMMA SectionFits ==
    ASSUME NEW cap \in Nat, NEW bundle \in Bundles, NEW n \in 1..Len(Sections)
    PROVE  /\ WithSection(bundle, n, cap) \in Bundles
           /\ bundle.bytes <= cap => WithSection(bundle, n, cap).bytes <= cap
           /\ ~WithSection(bundle, n, cap).truncated =>
                 ~bundle.truncated /\ WithSection(bundle, n, cap).sources = bundle.sources + 1
           /\ WithSection(bundle, n, cap).truncated =>
                 WithSection(bundle, n, cap).sources = bundle.sources
<1> DEFINE size == Sections[n]
           c == WithSection(bundle, n, cap)
<1>1. size \in Nat
  BY BindingAssumption
<1>2. bundle.bytes \in Nat /\ bundle.truncated \in BOOLEAN /\ bundle.sources \in Nat
  BY DEF Bundles
<1>3. CASE bundle.truncated
  BY <1>3 DEF WithSection
<1>4. CASE ~bundle.truncated /\ size > cap - bundle.bytes
  <2>1. c = [bundle EXCEPT !.bytes = cap, !.truncated = TRUE]
    BY <1>4 DEF WithSection, Admitted
  <2>2. c = [bytes |-> cap, truncated |-> TRUE, sources |-> bundle.sources]
    BY <2>1 DEF Bundles
  <2> HIDE DEF c
  <2> QED BY <1>2, <1>4, <2>2 DEF Bundles, c
<1>5. CASE ~bundle.truncated /\ ~(size > cap - bundle.bytes)
  <2>1. c = [bundle EXCEPT !.bytes = @ + size, !.sources = @ + 1]
    BY <1>5 DEF WithSection, Admitted
  <2>2. c = [bytes |-> bundle.bytes + size, truncated |-> FALSE, sources |-> bundle.sources + 1]
    BY <1>5, <2>1 DEF Bundles
  <2>3. bundle.bytes + size \in Nat /\ bundle.bytes + size <= cap /\ bundle.sources + 1 \in Nat
    BY <1>1, <1>2, <1>5
  <2> HIDE DEF size, c
  <2>4. /\ c \in Bundles /\ c.bytes <= cap /\ ~c.truncated /\ c.sources = bundle.sources + 1
    BY <2>2, <2>3 DEF Bundles
  <2> QED BY <1>5, <2>4 DEF c
<1> QED BY <1>2, <1>3, <1>4, <1>5

(* The bundle of a request is within the cap, and truncated exactly if a section is missing
   or cut. *)
LEMMA BundleFits ==
    ASSUME NEW cap \in Nat
    PROVE  /\ ContextBundle(cap).bytes <= cap
           /\ ContextBundle(cap).truncated <=> ContextBundle(cap).sources < Len(Sections)
<1> DEFINE N == Len(Sections)
           s == [n \in 1..N |-> [bundle \in Bundles |-> WithSection(bundle, n, cap)]]
<1>1. N \in Nat /\ NoBundle \in Bundles
  BY BindingAssumption DEF NoBundle, Bundles
<1>2. s \in [1..N -> [Bundles -> Bundles]]
  BY SectionFits
<1>3. \E u : IsBundle(u, cap)
  <2>1. PICK u : Iterates(u, Bundles, NoBundle, s, N)
    <3> HIDE DEF s, N
    <3> QED BY <1>1, <1>2, IterationExists
  <2>2. u \in [0..N -> Bundles] /\ u[0] = NoBundle
    BY <2>1 DEF Iterates
  <2>3. ASSUME NEW n \in 1..N PROVE u[n] = WithSection(u[n - 1], n, cap)
    <3>1. u[n - 1] \in Bundles
      BY <1>1, <2>2
    <3>2. u[n] = s[n][u[n - 1]]
      BY <2>1 DEF Iterates
    <3> QED BY <3>1, <3>2
  <2>4. \A n \in 0..N : u[n] = IF n = 0 THEN NoBundle ELSE WithSection(u[n - 1], n, cap)
    BY <1>1, <2>2, <2>3
  <2>5. IsBundle(u, cap)
    <3> HIDE DEF N
    <3>1. u = [n \in 0..N |-> IF n = 0 THEN NoBundle ELSE WithSection(u[n - 1], n, cap)]
      BY <2>2, <2>4
    <3> QED BY <3>1 DEF IsBundle, N
  <2> QED BY <2>5
<1> DEFINE u == CHOOSE v : IsBundle(v, cap)
<1>4. IsBundle(u, cap)
  BY <1>3
<1> HIDE DEF u
<1> DEFINE Good(n) == /\ u[n] \in Bundles
                      /\ u[n].bytes <= cap
                      /\ ~u[n].truncated => u[n].sources = n
                      /\ u[n].truncated => u[n].sources < n
           T == {n \in 0..N : ~Good(n)}
<1>5. ASSUME NEW n \in 0..N PROVE u[n] = IF n = 0 THEN NoBundle ELSE WithSection(u[n - 1], n, cap)
  BY <1>4 DEF IsBundle
<1>6. Good(0)
  <2>1. u[0] = NoBundle
    BY <1>1, <1>5
  <2> QED BY <1>1, <2>1 DEF NoBundle
<1>7. ASSUME NEW n \in 1..N, Good(n - 1) PROVE Good(n)
  <2> DEFINE was == u[n - 1]
             now == WithSection(was, n, cap)
  <2>1. was \in Bundles /\ was.bytes <= cap /\ was.sources \in Nat /\ n \in Nat
        /\ (~was.truncated => was.sources = n - 1) /\ (was.truncated => was.sources < n - 1)
    BY <1>7 DEF Bundles
  <2>2. /\ now \in Bundles /\ now.bytes <= cap /\ now.sources \in Nat
        /\ ~now.truncated => ~was.truncated /\ now.sources = was.sources + 1
        /\ now.truncated => now.sources = was.sources
    <3> HIDE DEF was
    <3> QED BY <2>1, SectionFits DEF Bundles
  <2>3. u[n] = now
    BY <1>1, <1>5
  <2> HIDE DEF was, now
  <2>4. ~now.truncated => now.sources = n
    BY <2>1, <2>2
  <2>5. now.truncated => now.sources < n
    BY <2>1, <2>2
  <2> QED BY <2>2, <2>3, <2>4, <2>5
<1>8. T = {}
  <2> SUFFICES ASSUME T # {} PROVE FALSE
    OBVIOUS
  <2>1. T \in SUBSET Nat
    BY <1>1
  <2>2. PICK k \in T : \A j \in T : k <= j
    <3> HIDE DEF T
    <3> QED BY <2>1, LeastNumber
  <2>3. k \in 0..N /\ ~Good(k) /\ k # 0
    BY <1>6
  <2>4. k - 1 \in 0..N /\ k \in 1..N /\ ~(k <= k - 1)
    BY <1>1, <2>3
  <2>5. k - 1 \notin T
    <3> HIDE DEF T
    <3> QED BY <2>2, <2>4
  <2>6. Good(k - 1)
    <3> HIDE DEF Good
    <3> QED BY <2>4, <2>5
  <2> HIDE DEF Good
  <2> QED BY <1>7, <2>3, <2>4, <2>6
<1>9. Good(N) /\ ContextBundle(cap) = u[N]
  <2>1. N \in 0..N
    BY <1>1
  <2>2. Good(N)
    <3> HIDE DEF Good
    <3> QED BY <1>8, <2>1
  <2> QED BY <2>2, BundleIsLast DEF u
<1> QED BY <1>1, <1>9 DEF Bundles

-----------------------------------------------------------------------------
(* The binding *)

ToolSets == [doc : {"placeholder", "documented"}, schema : {1, 2}]

Declared(config) == \A m \in DOMAIN config.models : config.models[m].window \in Nat

(* What Pin writes: what the session was promised is what its binding was computed from. *)
Pinned(u, m, o, t, a, c) ==
    [bound |-> TRUE,
     binding |-> [model |-> m, fingerprint |-> [url |-> u, options |-> o], tools |-> t,
                  aliases |-> a, credential |-> c],
     promise |-> [url |-> u, model |-> m, options |-> o, credential |-> c,
                  schema |-> t.schema, aliases |-> a]]

(* The descriptors of a binding are of a binary that came before. *)
Older(t) == t \in ToolSets /\ (tools.doc = "placeholder" => t.doc = "placeholder")

SessionFits ==
    \/ session = [bound |-> FALSE]
    \/ \E u, m, o, t, a, c : session = Pinned(u, m, o, t, a, c) /\ Older(t)

(* What was sent is what the registry, still open, makes of the model; and a session that
   was promised the same model was promised that. *)
SentFits ==
    sent.to # "refused" =>
        /\ registry.valid /\ session.bound
        /\ Promise(registry.config, sent.model) =
              [url |-> sent.to, model |-> sent.model, options |-> sent.options,
               credential |-> sent.credential, schema |-> sent.schema, aliases |-> sent.aliases]
        /\ session.promise.model = sent.model =>
              session.promise = Promise(registry.config, sent.model)

BindingInv ==
    /\ home \in HomeLayers /\ workLayer \in WorkLayers
    /\ tools \in ToolSets
    /\ host = "down" => ~registry.valid
    /\ registry.valid => Declared(registry.config)
    /\ SessionFits
    /\ SentFits
    /\ ContextFits /\ CallsComeBack

(* A field of the merged layers is declared by one of them. *)
LEMMA MergedDeclares ==
    ASSUME NEW h \in HomeLayers, NEW w \in WorkLayers PROVE Declared(Merged(h, w))
<1>1. Layer(h) /\ Layer(w)
  BY BindingAssumption
<1>2. Merged(h, w).models \in {h.models, w.models}
  BY DEF Merged
<1> QED BY <1>1, <1>2 DEF Declared, Layer

(* The cap of a binding is a number. *)
LEMMA CapIsNat ==
    ASSUME NEW options, options.window \in Nat PROVE ResolvedCap(options) \in Nat
<1>1. LayeredCap \in Nat
  BY BindingAssumption DEF LayeredCap
<1>2. options.window * BytesPerToken \in Nat
  <2>1. BytesPerToken \in Nat
    BY BindingAssumption
  <2>2. \A i, j \in Nat : i * j \in Nat
    OBVIOUS
  <2> QED BY <2>1, <2>2
<1> QED BY <1>1, <1>2 DEF ResolvedCap, Lesser

(* A wire name stands for one tool. *)
LEMMA RaisedIsCalled ==
    ASSUME NEW config, AliasesSound(config), NEW tool \in {"read", "write"}
    PROVE  Raised(config, AliasTable(config)[tool]) = tool
<1> DEFINE wire == AliasTable(config)
<1>1. wire["read"] # wire["write"]
  BY DEF AliasesSound
<1>2. \A t \in {"read", "write"} : wire[t] = wire[tool] => t = tool
  BY <1>1
<1>3. (CHOOSE t \in {"read", "write"} : wire[t] = wire[tool]) = tool
  <2> HIDE DEF wire
  <2> QED BY <1>2
<1> QED BY <1>3 DEF Raised

(* A binding that resolves is the one the registry would give now, but for the words of the
   tools: what was promised is what will be sent. *)
LEMMA ResolvedIsPromised ==
    ASSUME BindingInv, session.bound, Resolves(session.binding)
    PROVE  session.promise = Promise(registry.config, session.binding.model)
<1>1. PICK u, m, o, t, a, c : session = Pinned(u, m, o, t, a, c) /\ Older(t)
  BY DEF BindingInv, SessionFits
<1> DEFINE b == session.binding
           config == registry.config
<1>2. b = [model |-> m, fingerprint |-> [url |-> u, options |-> o], tools |-> t,
           aliases |-> a, credential |-> c]
  BY <1>1 DEF Pinned
<1>3. session.promise = [url |-> u, model |-> m, options |-> o, credential |-> c,
                         schema |-> t.schema, aliases |-> a]
  BY <1>1 DEF Pinned
<1>4. [b EXCEPT !.tools = tools] = BindingFor(config, b.model)
      /\ b.tools \in {tools, Placeholder(tools)}
  BY DEF Resolves, MatchesBinding
<1>5. t.schema = tools.schema
  BY <1>2, <1>4 DEF BindingInv, ToolSets, Placeholder
<1>6. [b EXCEPT !.tools = tools] =
        [model |-> m, fingerprint |-> [url |-> u, options |-> o], tools |-> tools,
         aliases |-> a, credential |-> c]
  BY <1>2
<1> HIDE DEF b, config
<1>7. /\ [url |-> u, options |-> o] = [url |-> config.url, options |-> config.models[m]]
      /\ a = AliasTable(config) /\ c = CredentialRef(config) /\ b.model = m
  BY <1>2, <1>4, <1>6 DEF BindingFor
<1>8. u = config.url /\ o = config.models[m]
  BY <1>7
<1> QED BY <1>3, <1>5, <1>7, <1>8 DEF Promise, b, config

(* A turn keeps the invariant: what it sends is what the registry makes of the binding. *)
LEMMA RunTurnKeeps ==
    ASSUME BindingInv, NEW tool \in {"read", "write"}, RunTurn(tool) PROVE BindingInv'
<1> DEFINE config == registry.config
           model == session.binding.model
<1>1. /\ UNCHANGED <<home, workLayer, tools, host, registry, session>>
      /\ registry.valid /\ session.bound
  BY DEF RunTurn
<1>2. CASE ~Resolves(session.binding)
  <2>1. sent' = [to |-> "refused"]
    BY <1>2 DEF RunTurn
  <2> QED BY <1>1, <2>1 DEF BindingInv, SessionFits, Older, SentFits, ContextFits, CallsComeBack,
        Declared
<1>3. CASE Resolves(session.binding)
  <2> DEFINE bundle == ContextBundle(ResolvedCap(config.models[model]))
             back == Raised(config, AliasTable(config)[tool])
  <2>1. sent' = [to |-> config.url, model |-> model, options |-> config.models[model],
                 credential |-> CredentialRef(config), schema |-> tools.schema,
                 aliases |-> AliasTable(config), called |-> tool, raised |-> back,
                 context |-> bundle]
    BY <1>3 DEF RunTurn
  <2>2. back = tool
    BY <1>3, RaisedIsCalled DEF Resolves
  <2>3. ResolvedCap(config.models[model]) \in Nat
    BY <1>1, <1>3, CapIsNat DEF BindingInv, Declared, Resolves
  <2>4. /\ bundle.bytes <= ResolvedCap(config.models[model])
        /\ bundle.truncated <=> bundle.sources < Len(Sections)
    BY <2>3, BundleFits
  <2>5. session.promise = Promise(config, model)
    BY <1>1, <1>3, ResolvedIsPromised
  <2>6. Promise(config, model) =
          [url |-> config.url, model |-> model, options |-> config.models[model],
           credential |-> CredentialRef(config), schema |-> tools.schema,
           aliases |-> AliasTable(config)]
    BY DEF Promise
  <2> HIDE DEF bundle, back
  <2>7. ContextFits' /\ CallsComeBack'
    BY <2>1, <2>2, <2>4 DEF ContextFits, CallsComeBack, ResolvedCap, LayeredCap
  <2>8. SentFits'
    <3>1. (Promise(registry.config, sent.model))' = Promise(config, model)
      BY <1>1, <2>1 DEF Promise
    <3> QED BY <1>1, <2>1, <2>5, <2>6, <3>1 DEF SentFits
  <2> QED BY <1>1, <2>7, <2>8 DEF BindingInv, SessionFits, Older, Declared
<1> QED BY <1>2, <1>3

(* Pin keeps the invariant. *)
LEMMA PinKeeps ==
    ASSUME BindingInv, NEW m, registry.valid, Pin(m),
           UNCHANGED <<home, workLayer, secret, tools, host, registry, sent>>
    PROVE  BindingInv'
<1> DEFINE config == registry.config
<1>1. session' = Pinned(config.url, m, config.models[m], tools, AliasTable(config),
                        CredentialRef(config))
  BY DEF Pin, BindingFor, Promise, Pinned
<1>2. Older(tools) /\ SessionFits'
  <2>1. Older(tools)
    BY DEF BindingInv, Older
  <2>2. Older(tools)'
    BY <2>1 DEF Older
  <2> QED BY <1>1, <2>1, <2>2 DEF SessionFits, Older
<1>3. session'.bound /\ session'.promise = Promise(config, m) /\ session'.promise.model = m
  BY DEF Pin, Promise
<1>4. SentFits'
  <2>1. ASSUME NEW x PROVE Promise(config, x)' = Promise(config, x)
    BY DEF Promise
  <2> QED BY <1>3, <2>1 DEF BindingInv, SentFits, Promise
<1> QED BY <1>2, <1>4 DEF BindingInv, ContextFits, CallsComeBack, Declared

(* The invariant of the binding holds at first. *)
LEMMA BindingStarts == ASSUME BindingInit PROVE BindingInv
BY DEF BindingInit, BindingInv, NoRegistry, ToolSets, SessionFits, SentFits, ContextFits,
       CallsComeBack

(* Every step keeps the invariant of the binding. *)
LEMMA BindingSteps == ASSUME BindingInv, BindingNext PROVE BindingInv'
<1>1. CASE Startup
  BY <1>1 DEF Startup, BindingInv, SessionFits, Older, SentFits, Promise, ContextFits,
       CallsComeBack, Declared
<1>2. CASE OpenRegistry
  <2>1. /\ registry' = [valid |-> TRUE, config |-> Merged(home, workLayer)] /\ ~registry.valid
        /\ host = "up" /\ UNCHANGED <<home, workLayer, tools, host, session, sent>>
    BY <1>2 DEF OpenRegistry
  <2>2. Declared(Merged(home, workLayer))
    BY MergedDeclares DEF BindingInv
  <2>3. SentFits'
    BY <2>1 DEF BindingInv, SentFits
  <2> QED BY <2>1, <2>2, <2>3 DEF BindingInv, SessionFits, Older, ContextFits, CallsComeBack,
        Declared
<1>3. CASE Shutdown
  <2>1. /\ ~registry'.valid /\ sent' = [to |-> "refused"]
        /\ UNCHANGED <<home, workLayer, tools, session>>
    BY <1>3 DEF Shutdown, NoRegistry
  <2> QED BY <2>1 DEF BindingInv, SessionFits, Older, SentFits, ContextFits, CallsComeBack
<1>4. CASE UpgradeBinary
  <2>1. /\ sent.to = "refused" /\ ~registry.valid
        /\ UNCHANGED <<home, workLayer, host, registry, session, sent>>
    BY <1>4 DEF UpgradeBinary, BindingInv, SentFits
  <2>2. tools \in ToolSets
    BY DEF BindingInv
  <2>3. tools' \in ToolSets /\ (tools'.doc = "placeholder" => tools.doc = "placeholder")
    <3>1. CASE tools' = [tools EXCEPT !.doc = "documented"]
      BY <2>2, <3>1 DEF ToolSets
    <3>2. CASE tools' = [tools EXCEPT !.schema = 2]
      BY <2>2, <3>2 DEF ToolSets
    <3> QED BY <1>4, <3>1, <3>2 DEF UpgradeBinary
  <2>4. SessionFits'
    <3>1. ASSUME NEW t, Older(t) PROVE Older(t)'
      BY <2>3, <3>1 DEF Older
    <3> QED BY <2>1, <3>1 DEF BindingInv, SessionFits
  <2> QED BY <2>1, <2>3, <2>4 DEF BindingInv, SentFits, ContextFits, CallsComeBack
<1>5. ASSUME NEW h \in HomeLayers, NEW w \in WorkLayers, Edit(h, w) PROVE BindingInv'
  BY <1>5 DEF Edit, BindingInv, SessionFits, Older, SentFits, Promise, ContextFits,
       CallsComeBack, Declared
<1>6. ASSUME NEW tool \in {"read", "write"}, RunTurn(tool) PROVE BindingInv'
  BY <1>6, RunTurnKeeps
<1>7. ASSUME NEW m, CreateBound(m) \/ SwitchModel(m) PROVE BindingInv'
  <2>1. /\ registry.valid /\ Pin(m)
        /\ UNCHANGED <<home, workLayer, secret, tools, host, registry, sent>>
    BY <1>7 DEF CreateBound, SwitchModel
  <2> QED BY <2>1, PinKeeps
<1> QED BY <1>1, <1>2, <1>3, <1>4, <1>5, <1>6, <1>7 DEF BindingNext

(* An upgrade that only documents the tools, and edits elsewhere, leave a binding that still
   matches. *)
LEMMA BindingServes == ASSUME BindingInv PROVE UnchangedStillServes
<1> DEFINE config == registry.config
           b == session.binding
<1> SUFFICES ASSUME session.bound, b.model \in DOMAIN config.models,
                    Promise(config, b.model) = session.promise
             PROVE  MatchesBinding(b, config)
  BY DEF UnchangedStillServes
<1>1. PICK u, m, o, t, a, c : session = Pinned(u, m, o, t, a, c) /\ Older(t)
  BY DEF BindingInv, SessionFits
<1>2. b = [model |-> m, fingerprint |-> [url |-> u, options |-> o], tools |-> t,
           aliases |-> a, credential |-> c]
  BY <1>1 DEF Pinned
<1>3. session.promise = [url |-> u, model |-> m, options |-> o, credential |-> c,
                         schema |-> t.schema, aliases |-> a]
  BY <1>1 DEF Pinned
<1>4. Promise(config, m) = session.promise /\ b.model = m
  BY <1>2
<1> HIDE DEF b, config
<1>5. /\ u = config.url /\ o = config.models[m] /\ c = CredentialRef(config)
      /\ t.schema = tools.schema /\ a = AliasTable(config)
  BY <1>3, <1>4 DEF Promise
<1>6. [b EXCEPT !.tools = tools] = BindingFor(config, m)
  <2>1. [b EXCEPT !.tools = tools] =
          [model |-> m, fingerprint |-> [url |-> u, options |-> o], tools |-> tools,
           aliases |-> a, credential |-> c]
    BY <1>2
  <2> QED BY <1>5, <2>1 DEF BindingFor
<1>7. t \in {tools, Placeholder(tools)}
  <2>1. t \in ToolSets /\ tools \in ToolSets /\ (tools.doc = "placeholder" => t.doc = "placeholder")
    BY <1>1 DEF BindingInv, Older
  <2>2. t = [doc |-> t.doc, schema |-> t.schema] /\ tools = [doc |-> tools.doc, schema |-> tools.schema]
    BY <2>1 DEF ToolSets
  <2>3. Placeholder(tools) = [doc |-> "placeholder", schema |-> tools.schema]
    BY <2>1 DEF ToolSets, Placeholder
  <2>4. t.doc \in {"placeholder", "documented"} /\ tools.doc \in {"placeholder", "documented"}
    BY <2>1 DEF ToolSets
  <2>5. CASE t.doc = "placeholder"
    BY <1>5, <2>2, <2>3, <2>5
  <2>6. CASE t.doc = "documented"
    BY <1>5, <2>1, <2>2, <2>4, <2>6
  <2> QED BY <2>4, <2>5, <2>6
<1> QED BY <1>2, <1>4, <1>6, <1>7 DEF MatchesBinding

(* The invariant of the binding holds throughout. *)
LEMMA BindingKept == BindingSpec => []BindingInv
<1>1. BindingInv /\ UNCHANGED bindingVars => BindingInv'
  BY DEF bindingVars, BindingInv, SessionFits, Older, SentFits, Promise, ContextFits,
     CallsComeBack, Declared
<1> QED BY <1>1, BindingStarts, BindingSteps, PTL DEF BindingSpec

(* A turn is sent to what its session was promised, edits elsewhere do not strand it, its
   calls come back as the tools they name, and its context fits (ProviderBindingCorrect):
   for every pair of layer files, every cap and every list of sections. *)
THEOREM BindingSafety == BindingSpec => []ProviderBindingCorrect
<1>1. BindingInv => ProviderBindingCorrect
  <2> SUFFICES ASSUME BindingInv PROVE ProviderBindingCorrect
    OBVIOUS
  <2>1. SentAsPromised
    BY DEF BindingInv, SentFits, SentAsPromised
  <2> QED BY <2>1, BindingServes DEF BindingInv, ProviderBindingCorrect
<1> QED BY <1>1, BindingKept, PTL

(* No key goes to an endpoint that only the workspace file chose (KeyStaysHome). *)
THEOREM KeyIsKept == BindingSpec => KeyStaysHome
<1>1. ASSUME BindingInv, BindingNext, host = "down", host' = "up", workLayer.url # NoField, ~home.trust
      PROVE  LET key == Merged(home, workLayer).key
             IN  /\ key = "literal" => workLayer.key = "literal"
                 /\ key = "env" => ~secret
  <2>1. EndpointTrusted(home, workLayer)
    BY <1>1 DEF BindingNext, Startup, OpenRegistry, Shutdown, UpgradeBinary, Edit, RunTurn,
       CreateBound, SwitchModel
  <2>2. ~HoldsForeignCredential(home, workLayer)
    BY <1>1, <2>1 DEF EndpointTrusted, Trusted
  <2> QED BY <2>2 DEF HoldsForeignCredential, Merged, Later, NoField
<1> QED BY <1>1, BindingKept, PTL DEF BindingSpec, KeyStaysHome

-----------------------------------------------------------------------------
(* One call of the provider *)

Transient == {"unreached", "refused", "unclear", "streamless"}

RepeatsFit == \A i \in 1..(Len(fates) - 1) : fates[i] \in Transient

(* The stream is given up once. *)
GivenUp(asked_, inline, attempt) ==
    \A i \in 1..Len(asked_) : asked_[i] = "streamless" => inline /\ i = attempt

FallbackFits == GivenUp(fates, call.inline, call.attempt)

(* What has been asked so far, and what for. *)
RequestsFit ==
    /\ ProviderTypeOK
    /\ RepeatsFit
    /\ FallbackFits
    /\ Len(fates) > 0 /\ call.stage \in {"attempt", "pause", "inline"} =>
          fates[Len(fates)] \in Transient
    /\ call.stage = "send" => Len(fates) > 0
    /\ Len(fates) \in {call.attempt, call.attempt + 1}
    /\ ~call.inline \/ call.stage = "inline" => Len(fates) = call.attempt
    /\ call.stage \in {"attempt", "pause"} => call.attempt < MaxAttempts /\ ~call.inline
    /\ call.stage = "inline" => call.inline

Calls == [stage : Waiting \cup {"attempt", "inline", "done"},
          attempt : 0..MaxAttempts, inline : BOOLEAN, started : Nat, until : Nat]

(* Settling the last request keeps what became of the earlier ones. *)
LEMMA SettledFates ==
    ASSUME RequestsFit, Len(fates) > 0, NEW f \in Fates, Settled(f)
    PROVE  /\ fates' \in Seq(Fates) /\ Len(fates') = Len(fates)
           /\ fates'[Len(fates)] = f
           /\ \A i \in 1..(Len(fates) - 1) : fates'[i] \in Transient
           /\ f # "streamless" => GivenUp(fates', call.inline, call.attempt)
           /\ ~call.inline => \A i \in 1..(Len(fates) - 1) : fates'[i] # "streamless"
<1>1. fates \in Seq(Fates) /\ fates' = [fates EXCEPT ![Len(fates)] = f]
  BY DEF RequestsFit, ProviderTypeOK, Settled
<1>2. fates' \in Seq(Fates) /\ Len(fates') = Len(fates)
  BY <1>1
<1>3. fates'[Len(fates)] = f /\ \A i \in 1..(Len(fates) - 1) : fates'[i] = fates[i]
  BY <1>1
<1>4. \A i \in 1..(Len(fates) - 1) : i \in 1..Len(fates)
  BY <1>1
<1>5. \A i \in 1..Len(fates) : i = Len(fates) \/ i \in 1..(Len(fates) - 1)
  BY <1>1
<1> QED BY <1>2, <1>3, <1>4, <1>5 DEF RequestsFit, RepeatsFit, Transient, FallbackFits, GivenUp

(* A call that ends: nothing of it is looked at again. *)
LEMMA ReturnFits ==
    ASSUME RequestsFit, NEW kind \in Errors \cup {"answer", "inline"},
           call' = [call EXCEPT !.stage = "done"], result'.kind = kind,
           fates' \in Seq(Fates), Len(fates') = Len(fates), RepeatsFit',
           GivenUp(fates', call.inline, call.attempt),
           clock' \in Nat, token' \in BOOLEAN
    PROVE  RequestsFit'
<1>1. /\ call' \in Calls /\ call'.stage = "done" /\ call'.attempt = call.attempt
      /\ call'.inline = call.inline
  BY DEF RequestsFit, ProviderTypeOK, Calls
<1>2. kind # "none"
  BY DEF Errors
<1>3. ProviderTypeOK'
  BY <1>1, <1>2 DEF RequestsFit, ProviderTypeOK, Calls
<1>4. call.stage # "inline" \/ call.inline
  BY DEF RequestsFit
<1> QED BY <1>1, <1>3, <1>4 DEF RequestsFit, FallbackFits

(* A request is begun only when the one before ended in a transient refusal. *)
LEMMA BeginFits ==
    ASSUME RequestsFit, NEW number,
           \/ call.stage = "attempt" /\ number = call.attempt + 1
           \/ call.stage = "inline" /\ number = call.attempt,
           Begin(number)
    PROVE  RequestsFit'
<1> DEFINE remaining == Least(Deadline - clock, ClientTimeout)
<1>1. /\ call \in Calls /\ clock \in Nat /\ fates \in Seq(Fates) /\ token \in BOOLEAN
      /\ clock' = clock /\ token' = token
  BY DEF RequestsFit, ProviderTypeOK, Calls, Begin
<1>2. CASE token \/ remaining <= 0
  <2>1. \E kind \in Errors : Return(kind) /\ UNCHANGED fates
    BY <1>2 DEF Begin, Errors
  <2>2. RepeatsFit' /\ GivenUp(fates', call.inline, call.attempt)
    BY <2>1 DEF RequestsFit, RepeatsFit, FallbackFits
  <2> QED BY <1>1, <2>1, <2>2, ReturnFits DEF Return, Nothing
<1>3. CASE ~(token \/ remaining <= 0)
  <2>1. /\ call' = [call EXCEPT !.stage = "send", !.attempt = number, !.started = clock,
                                !.until = clock + remaining]
        /\ fates' = Append(fates, "open") /\ result' = result
    BY <1>3 DEF Begin
  <2>2. remaining \in Nat
    BY <1>1, <1>3, ProviderAssumption DEF Least
  <2>3. number \in 0..MaxAttempts
    <3>1. call.attempt \in 0..MaxAttempts /\ MaxAttempts \in Nat
      BY <1>1, ProviderAssumption DEF Calls
    <3>2. call.stage = "attempt" => call.attempt < MaxAttempts
      BY DEF RequestsFit
    <3> QED BY <3>1, <3>2
  <2> HIDE DEF remaining
  <2>4. /\ call' \in Calls /\ call'.stage = "send" /\ call'.attempt = number
        /\ call'.inline = call.inline
    <3> DEFINE end == clock + remaining
    <3>1. end \in Nat
      BY <1>1, <2>2
    <3> HIDE DEF end
    <3>2. call' = [stage |-> "send", attempt |-> number, inline |-> call.inline,
                   started |-> clock, until |-> end]
      BY <1>1, <2>1 DEF Calls, end
    <3>3. call.inline \in BOOLEAN
      BY <1>1 DEF Calls
    <3> QED BY <1>1, <2>3, <3>1, <3>2, <3>3 DEF Calls, Waiting
  <2>5. /\ fates' \in Seq(Fates) /\ Len(fates') = Len(fates) + 1
        /\ \A i \in 1..Len(fates) : fates'[i] = fates[i]
    BY <1>1, <2>1 DEF Fates
  <2>6. \A i \in 1..Len(fates) : fates[i] \in Transient
    BY <1>1 DEF RequestsFit, RepeatsFit, Transient
  <2>7. RepeatsFit'
    BY <1>1, <2>5, <2>6 DEF RepeatsFit, Transient
  <2>8. Len(fates) = call.attempt
    BY DEF RequestsFit
  <2>9. Len(fates') <= MaxAttempts + 1 /\ Len(fates') \in {number, number + 1}
        /\ (~call.inline => Len(fates') = number)
    <3>1. call.attempt \in Nat /\ MaxAttempts \in Nat /\ call.attempt <= MaxAttempts
      BY <1>1, ProviderAssumption DEF Calls
    <3> QED BY <2>5, <2>8, <3>1 DEF RequestsFit
  <2>10. ProviderTypeOK'
    BY <1>1, <2>1, <2>4, <2>5, <2>9 DEF RequestsFit, ProviderTypeOK, Calls
  <2>11. FallbackFits'
    <3>1. fates'[Len(fates) + 1] = "open"
      BY <1>1, <2>1
    <3>2. call.stage = "attempt" => ~call.inline
      BY DEF RequestsFit
    <3>3. \A i \in 1..Len(fates') : i \in 1..Len(fates) \/ i = Len(fates) + 1
      BY <1>1, <2>5
    <3>4. \A i \in 1..Len(fates') : fates'[i] = "streamless" => call.inline /\ i = number
      BY <2>5, <3>1, <3>2, <3>3 DEF RequestsFit, FallbackFits, GivenUp
    <3> QED BY <2>4, <3>4 DEF FallbackFits, GivenUp
  <2> QED BY <1>1, <2>4, <2>5, <2>7, <2>9, <2>10, <2>11 DEF RequestsFit
<1> QED BY <1>2, <1>3

(* A pause leads to the next attempt, or to the end of the call. *)
LEMMA PauseFits ==
    ASSUME RequestsFit, call.stage = "send", Retries, NEW hint \in RetryAfters \cup {-1},
           NEW f \in Transient \ {"streamless"}, Settled(f), Pause(hint), UNCHANGED <<clock, token>>
    PROVE  RequestsFit'
<1>1. /\ call \in Calls /\ clock \in Nat /\ fates \in Seq(Fates) /\ token \in BOOLEAN
      /\ Len(fates) > 0 /\ Len(fates) = call.attempt /\ ~call.inline /\ call.attempt < MaxAttempts
  BY DEF RequestsFit, ProviderTypeOK, Calls, Retries
<1>2. /\ fates' \in Seq(Fates) /\ Len(fates') = Len(fates) /\ fates'[Len(fates)] = f
      /\ RepeatsFit' /\ GivenUp(fates', call.inline, call.attempt)
  BY <1>1, SettledFates DEF Fates, Transient, RepeatsFit
<1> DEFINE step == <<1, 2, 4, 8, 16>>[Least(call.attempt, 5)]
           exponential == BasePause * step
           delay == Least(IF hint = -1 THEN exponential ELSE hint, MaxPause)
<1>3. delay \in Nat
  <2>1. Least(call.attempt, 5) \in 1..5
    BY <1>1 DEF Calls, Least
  <2>2. step \in Nat
    BY <2>1
  <2>3. exponential \in Nat
    <3>1. \A i, j \in Nat : i * j \in Nat
      OBVIOUS
    <3>2. BasePause \in Nat
      BY ProviderAssumption
    <3> HIDE DEF step
    <3> QED BY <2>2, <3>1, <3>2
  <2> HIDE DEF exponential
  <2> QED BY <2>3, ProviderAssumption DEF Least
<1> HIDE DEF delay
<1>4. CASE clock + delay >= Deadline
  <2>1. Return("timeout")
    BY <1>4 DEF Pause, delay
  <2> QED BY <1>1, <1>2, <2>1, ReturnFits DEF Return, Nothing, Errors
<1>5. CASE ~(clock + delay >= Deadline)
  <2>1. call' = [call EXCEPT !.stage = "pause", !.until = clock + delay] /\ result' = result
    BY <1>5 DEF Pause, delay
  <2>2. clock + delay \in Nat
    BY <1>1, <1>3
  <2>3. /\ call' \in Calls /\ call'.stage = "pause" /\ call'.attempt = call.attempt
        /\ call'.inline = call.inline
    BY <1>1, <2>1, <2>2 DEF Calls, Waiting
  <2>4. ProviderTypeOK'
    BY <1>1, <1>2, <2>1, <2>3 DEF RequestsFit, ProviderTypeOK, Calls
  <2> QED BY <1>1, <1>2, <2>3, <2>4 DEF RequestsFit, FallbackFits
<1> QED BY <1>4, <1>5

(* What a request may come to, apart from an answer that is read. *)
LEMMA RequestKeeps ==
    ASSUME RequestsFit,
           \/ CannotConnect \/ Breaks \/ SendTimesOut \/ TransientStatus \/ Rejects \/ RejectsStream
    PROVE  RequestsFit'
<1>1. /\ call \in Calls /\ clock \in Nat /\ fates \in Seq(Fates) /\ token \in BOOLEAN
      /\ call.stage = "send" /\ Len(fates) > 0 /\ UNCHANGED <<clock, token>>
  BY DEF RequestsFit, ProviderTypeOK, Calls, CannotConnect, Breaks, SendTimesOut, TransientStatus, Rejects,
     RejectsStream
<1>2. ASSUME NEW f \in Fates \ {"streamless"}, Settled(f), NEW kind \in Errors, Return(kind) PROVE RequestsFit'
  <2>1. fates' \in Seq(Fates) /\ Len(fates') = Len(fates) /\ RepeatsFit'
        /\ GivenUp(fates', call.inline, call.attempt)
    BY <1>1, <1>2, SettledFates DEF RepeatsFit, Transient
  <2> QED BY <1>1, <1>2, <2>1, ReturnFits DEF Return, Nothing
<1>3. CASE CannotConnect
  <2>1. Settled("unreached") /\ (Retries => Pause(-1)) /\ (~Retries => Return("transport"))
    BY <1>3 DEF CannotConnect
  <2>2. "unreached" \in Transient \ {"streamless"} /\ "unreached" \in Fates \ {"streamless"} /\ "transport" \in Errors
    BY DEF Transient, Fates, Errors
  <2>3. CASE Retries
    <3>1. -1 \in RetryAfters \cup {-1}
      OBVIOUS
    <3> QED BY <1>1, <2>1, <2>2, <2>3, <3>1, PauseFits
  <2> QED BY <1>2, <2>1, <2>2, <2>3
<1>4. CASE TransientStatus
  <2>1. PICK f \in {"refused", "unclear"} :
           /\ Settled(f) /\ (~Retries => Return("http"))
           /\ Retries => \E hint \in RetryAfters \cup {-1} : Pause(hint)
    BY <1>4 DEF TransientStatus
  <2>2. f \in Transient \ {"streamless"} /\ f \in Fates \ {"streamless"} /\ "http" \in Errors
    BY DEF Transient, Fates, Errors
  <2>3. CASE Retries
    <3>1. PICK hint \in RetryAfters \cup {-1} : Pause(hint)
      BY <2>1, <2>3
    <3> QED BY <1>1, <2>1, <2>2, <2>3, <3>1, PauseFits
  <2> QED BY <1>2, <2>1, <2>2, <2>3
<1>6. CASE Breaks
  <2>1. PICK kind \in {"transport", "timeout"} : Return(kind)
    BY <1>6 DEF Breaks
  <2>2. Settled("taken")
    BY <1>6 DEF Breaks
  <2> QED BY <1>2, <2>1, <2>2 DEF Errors, Fates
<1>7. CASE SendTimesOut
  <2>1. Settled("taken") /\ Return("timeout")
    BY <1>7 DEF SendTimesOut
  <2> QED BY <1>2, <2>1 DEF Errors, Fates
<1>8. CASE Rejects
  <2>1. PICK kind \in {"overflow", "http", "transport"} : Return(kind)
    BY <1>8 DEF Rejects
  <2>2. Settled("rejected")
    BY <1>8 DEF Rejects
  <2> QED BY <1>2, <2>1, <2>2 DEF Errors, Fates
<1>5. CASE RejectsStream
  <2>1. CASE Streaming /\ ~call.inline
    <3>1. call' = [call EXCEPT !.stage = "inline", !.inline = TRUE] /\ result' = result
          /\ Settled("streamless")
      BY <1>5, <2>1 DEF RejectsStream
    <3>2. /\ fates' \in Seq(Fates) /\ Len(fates') = Len(fates) /\ fates'[Len(fates)] = "streamless"
          /\ RepeatsFit' /\ \A i \in 1..(Len(fates) - 1) : fates'[i] # "streamless"
      BY <1>1, <2>1, <3>1, SettledFates DEF Fates, Transient, RepeatsFit
    <3>3. call' \in Calls /\ call'.stage = "inline" /\ call'.inline /\ call'.attempt = call.attempt
      BY <1>1, <3>1 DEF Calls
    <3>4. ProviderTypeOK'
      BY <1>1, <3>1, <3>2, <3>3 DEF RequestsFit, ProviderTypeOK, Calls
    <3>5. FallbackFits'
      <4>1. Len(fates) = call.attempt
        BY <2>1 DEF RequestsFit
      <4>2. \A i \in 1..Len(fates) : i = Len(fates) \/ i \in 1..(Len(fates) - 1)
        BY <1>1
      <4> QED BY <3>2, <3>3, <4>1, <4>2 DEF FallbackFits, GivenUp
    <3> QED BY <1>1, <2>1, <3>2, <3>3, <3>4, <3>5 DEF RequestsFit, Transient
  <2>2. CASE ~(Streaming /\ ~call.inline)
    <3>1. Settled("rejected") /\ Return("http")
      BY <1>5, <2>2 DEF RejectsStream
    <3> QED BY <1>2, <3>1 DEF Fates, Errors
  <2> QED BY <2>1, <2>2
<1> QED BY <1>3, <1>4, <1>5, <1>6, <1>7, <1>8

(* An answer that is read is that of the last request. *)
LEMMA AnswerTaken ==
    ASSUME RequestsFit, NEW stage \in {"stream", "json"}, NEW stream, Answers(stage, stream)
    PROVE  RequestsFit'
<1>1. /\ call \in Calls /\ clock \in Nat /\ fates \in Seq(Fates) /\ token \in BOOLEAN
      /\ call.stage = "send" /\ Len(fates) > 0 /\ UNCHANGED <<clock, token, result>>
      /\ call' = [call EXCEPT !.stage = stage, !.until = call.started + ClientTimeout]
      /\ Settled("taken")
  BY DEF RequestsFit, ProviderTypeOK, Calls, Answers
<1>2. fates' \in Seq(Fates) /\ Len(fates') = Len(fates) /\ RepeatsFit'
      /\ GivenUp(fates', call.inline, call.attempt)
  BY <1>1, SettledFates DEF RepeatsFit, Transient, Fates
<1>3. /\ call' \in Calls /\ call'.stage = stage /\ call'.attempt = call.attempt
      /\ call'.inline = call.inline
  <2>1. call.started + ClientTimeout \in Nat
    BY <1>1, ProviderAssumption DEF Calls
  <2> QED BY <1>1, <2>1 DEF Calls, Waiting
<1>4. ProviderTypeOK'
  BY <1>1, <1>2, <1>3 DEF RequestsFit, ProviderTypeOK, Calls
<1> QED BY <1>1, <1>2, <1>3, <1>4 DEF RequestsFit, FallbackFits

(* The call ends while an answer is read, or before. *)
LEMMA EndFits ==
    ASSUME RequestsFit, NEW kind \in Errors \cup {"answer", "inline"},
           call' = [call EXCEPT !.stage = "done"], result'.kind = kind,
           UNCHANGED <<clock, token, fates>>
    PROVE  RequestsFit'
<1>1. fates' \in Seq(Fates) /\ RepeatsFit' /\ GivenUp(fates', call.inline, call.attempt)
      /\ clock' \in Nat /\ token' \in BOOLEAN
  BY DEF RequestsFit, ProviderTypeOK, RepeatsFit, FallbackFits
<1> QED BY <1>1, ReturnFits

(* The steps that are not about a request keep RequestsFit. *)
LEMMA OthersFit ==
    ASSUME RequestsFit,
           Wake \/ DataLine \/ StreamCancelled \/ JsonArrives \/ BodyBreaks \/ Elapse \/ CancelRound
    PROVE  RequestsFit'
<1>1. /\ call \in Calls /\ clock \in Nat /\ fates \in Seq(Fates) /\ token \in BOOLEAN
  BY DEF RequestsFit, ProviderTypeOK, Calls
<1>0. fates' = fates
  BY DEF RequestsFit, ProviderTypeOK, Calls, Wake, DataLine, StreamCancelled, JsonArrives,
     BodyBreaks, Elapse, CancelRound
<1>2. RepeatsFit'
  BY <1>0 DEF RequestsFit, RepeatsFit
<1>3. CASE call' = call /\ result' = result /\ clock' \in Nat /\ token' \in BOOLEAN
  BY <1>0, <1>1, <1>2, <1>3 DEF RequestsFit, ProviderTypeOK, FallbackFits
<1>4. CASE DataLine \/ Elapse \/ CancelRound
  <2>1. call' = call /\ result' = result
    BY <1>4 DEF DataLine, Elapse, CancelRound
  <2>2. clock' \in {clock, clock + 1} /\ token' \in {token, TRUE}
    BY <1>4 DEF DataLine, Elapse, CancelRound
  <2>3. clock' \in Nat
    <3>1. clock \in Nat /\ clock' \in {clock, clock + 1}
      BY <1>1, <2>2
    <3> QED BY <3>1
  <2>4. token' \in BOOLEAN
    BY <1>1, <2>2, Zenon
  <2> QED BY <1>3, <2>1, <2>3, <2>4
<1>5. ASSUME NEW kind \in Errors \cup {"inline"}, Return(kind), UNCHANGED <<clock, token, fates>>
      PROVE  RequestsFit'
  BY <1>5, EndFits DEF Return, Nothing
<1>7. CASE StreamCancelled \/ (Wake /\ token)
  <2>1. Return("cancelled") /\ UNCHANGED <<clock, token, fates>>
    BY <1>7 DEF StreamCancelled, Wake
  <2> QED BY <1>5, <2>1 DEF Errors
<1>8. CASE JsonArrives
  <2>1. PICK kind \in {"inline", "malformed"} : Return(kind)
    BY <1>8 DEF JsonArrives
  <2>2. UNCHANGED <<clock, token, fates>>
    BY <1>8 DEF JsonArrives
  <2> QED BY <1>5, <2>1, <2>2 DEF Errors
<1>9. CASE BodyBreaks
  <2>1. Return(IF call.stage = "stream" THEN "transport" ELSE "malformed")
        /\ UNCHANGED <<clock, token, fates>>
    BY <1>9 DEF BodyBreaks
  <2> QED BY <1>5, <2>1 DEF Errors
<1>6. CASE Wake /\ ~token
  <2>1. call' = [call EXCEPT !.stage = "attempt"] /\ UNCHANGED <<clock, token, result>>
        /\ call.stage = "pause"
    BY <1>6 DEF Wake
  <2>2. /\ call' \in Calls /\ call'.stage = "attempt" /\ call'.attempt = call.attempt
        /\ call'.inline = call.inline
    BY <1>1, <2>1 DEF Calls
  <2>3. ProviderTypeOK'
    BY <1>0, <1>1, <2>1, <2>2 DEF RequestsFit, ProviderTypeOK, Calls
  <2> QED BY <1>0, <1>1, <1>2, <2>1, <2>2, <2>3 DEF RequestsFit, FallbackFits
<1> QED BY <1>4, <1>6, <1>7, <1>8, <1>9

-----------------------------------------------------------------------------
(* The reading of a stream *)

Deltas == UNION {ToSet(stream) : stream \in Streams}
AllPieces == {e.piece : e \in Deltas}
ToolCalls == [id : {NoId} \cup {e.id : e \in Deltas}, args : Seq(AllPieces)]

PiecesWith(b, e, kind, index) ==
    IF e.kind = kind /\ e.index = index THEN Append(b, e.piece) ELSE b

IsGathered(u, stream, kind, index, m) ==
    u = [n \in 0..m |-> IF n = 0 THEN <<>> ELSE PiecesWith(u[n - 1], stream[n], kind, index)]

(* The pieces of the first n events, for each n. *)
Gathered(stream, kind, index) == CHOOSE u : IsGathered(u, stream, kind, index, Len(stream))

(* A stream is a finite sequence of deltas. *)
LEMMA StreamIs ==
    ASSUME NEW stream \in Streams
    PROVE  /\ Len(stream) \in Nat /\ DOMAIN stream = 1..Len(stream)
           /\ \A i \in 1..Len(stream) : stream[i] \in Deltas /\ Delta(stream[i])
<1>1. stream \in Seq(ToSet(stream)) /\ \A e \in ToSet(stream) : Delta(e)
  BY ProviderAssumption
<1>2. Len(stream) \in Nat /\ DOMAIN stream = 1..Len(stream)
  BY <1>1
<1>3. ASSUME NEW i \in 1..Len(stream) PROVE stream[i] \in ToSet(stream) /\ stream[i] \in Deltas
  BY <1>2 DEF ToSet, Deltas
<1> QED BY <1>1, <1>2, <1>3

(* The gathering exists, and goes from one event to the next. *)
LEMMA GatheredIs ==
    ASSUME NEW stream \in Streams, NEW kind, NEW index
    PROVE  IsGathered(Gathered(stream, kind, index), stream, kind, index, Len(stream))
<1> DEFINE N == Len(stream)
           B == Seq(AllPieces)
           s == [n \in 1..N |-> [b \in B |-> PiecesWith(b, stream[n], kind, index)]]
<1>1. N \in Nat /\ <<>> \in B
  BY StreamIs
<1>2. ASSUME NEW n \in 1..N, NEW b \in B PROVE PiecesWith(b, stream[n], kind, index) \in B
  <2>1. stream[n].piece \in AllPieces
    BY StreamIs DEF AllPieces
  <2> QED BY <2>1 DEF PiecesWith
<1>3. s \in [1..N -> [B -> B]]
  BY <1>2
<1>4. PICK u : Iterates(u, B, <<>>, s, N)
  <2> HIDE DEF s, N, B
  <2> QED BY <1>1, <1>3, IterationExists
<1>5. u \in [0..N -> B] /\ u[0] = <<>>
  BY <1>4 DEF Iterates
<1>6. ASSUME NEW n \in 1..N PROVE u[n] = PiecesWith(u[n - 1], stream[n], kind, index)
  <2>1. u[n - 1] \in B
    <3> HIDE DEF B
    <3> QED BY <1>1, <1>5
  <2>2. u[n] = s[n][u[n - 1]]
    BY <1>4 DEF Iterates
  <2> HIDE DEF B
  <2> QED BY <2>1, <2>2
<1> HIDE DEF s, B
<1>7. \A n \in 0..N : u[n] = IF n = 0 THEN <<>> ELSE PiecesWith(u[n - 1], stream[n], kind, index)
  BY <1>1, <1>5, <1>6
<1>8. IsGathered(u, stream, kind, index, N)
  <2> HIDE DEF N
  <2> QED BY <1>5, <1>7 DEF IsGathered
<1> QED BY <1>8 DEF Gathered

(* Two gatherings agree as far as both go. *)
LEMMA GatheredOnce ==
    ASSUME NEW stream, NEW kind, NEW index, NEW N \in Nat, NEW m \in 0..N, NEW u, NEW v,
           IsGathered(u, stream, kind, index, N), IsGathered(v, stream, kind, index, m)
    PROVE  \A n \in 0..m : u[n] = v[n]
<1> DEFINE T == {n \in 0..m : u[n] # v[n]}
<1> SUFFICES ASSUME T # {} PROVE FALSE
  OBVIOUS
<1>1. PICK k \in T : \A j \in T : k <= j
  <2>1. T \in SUBSET Nat
    OBVIOUS
  <2> HIDE DEF T
  <2> QED BY <2>1, LeastNumber
<1>2. k \in 0..m /\ k \in 0..N /\ u[k] # v[k]
  OBVIOUS
<1>3. /\ u[k] = IF k = 0 THEN <<>> ELSE PiecesWith(u[k - 1], stream[k], kind, index)
      /\ v[k] = IF k = 0 THEN <<>> ELSE PiecesWith(v[k - 1], stream[k], kind, index)
  BY <1>2 DEF IsGathered
<1>4. k # 0 /\ u[k - 1] # v[k - 1]
  BY <1>2, <1>3
<1>5. k - 1 \in T /\ ~(k <= k - 1)
  BY <1>2, <1>4
<1> HIDE DEF T
<1> QED BY <1>1, <1>5

(* What Pieces says is what has been gathered when the end mark is met. *)
LEMMA PiecesGathered ==
    ASSUME NEW stream \in Streams, NEW end \in 1..Len(stream), EndsAt(stream, end)
    PROVE  /\ EndOf(stream) = end
           /\ \A kind, index : Pieces(stream, kind, index) = Gathered(stream, kind, index)[end]
<1>1. Len(stream) \in Nat /\ DOMAIN stream = 1..Len(stream)
  BY StreamIs
<1>2. ASSUME NEW i \in DOMAIN stream, EndsAt(stream, i) PROVE i = end
  BY <1>1, <1>2 DEF EndsAt
<1>3. EndOf(stream) = end
  BY <1>1, <1>2 DEF EndOf
<1>4. ASSUME NEW kind, NEW index
      PROVE  Pieces(stream, kind, index) = Gathered(stream, kind, index)[end]
  <2> DEFINE g == Gathered(stream, kind, index)
             v == [n \in 0..end |-> g[n]]
             w == CHOOSE u : IsGathered(u, stream, kind, index, end)
  <2>1. IsGathered(g, stream, kind, index, Len(stream))
    BY GatheredIs
  <2> HIDE DEF g
  <2>2. IsGathered(v, stream, kind, index, end)
    <3>1. \A n \in 0..end : v[n] = IF n = 0 THEN <<>> ELSE PiecesWith(v[n - 1], stream[n], kind, index)
      <4> SUFFICES ASSUME NEW n \in 0..end
                   PROVE  v[n] = IF n = 0 THEN <<>> ELSE PiecesWith(v[n - 1], stream[n], kind, index)
        OBVIOUS
      <4>1. n \in 0..Len(stream) /\ v[n] = g[n] /\ (n # 0 => v[n - 1] = g[n - 1])
        BY <1>1
      <4>2. g[n] = IF n = 0 THEN <<>> ELSE PiecesWith(g[n - 1], stream[n], kind, index)
        BY <2>1, <4>1 DEF IsGathered
      <4> HIDE DEF v
      <4> QED BY <4>1, <4>2
    <3>2. v = [n \in 0..end |-> v[n]]
      OBVIOUS
    <3> HIDE DEF v
    <3> QED BY <3>1, <3>2 DEF IsGathered
  <2>3. IsGathered(w, stream, kind, index, end)
    BY <2>2
  <2>4. Pieces(stream, kind, index) = w[end]
    BY <1>3 DEF Pieces, IsGathered, PiecesWith
  <2> HIDE DEF w
  <2>5. g[end] = w[end]
    <3>1. \A n \in 0..end : g[n] = w[n]
      <4>1. Len(stream) \in Nat /\ end \in 0..Len(stream)
        BY <1>1
      <4> QED BY <2>1, <2>3, <4>1, GatheredOnce
    <3>2. end \in 0..end
      OBVIOUS
    <3> QED BY <3>1, <3>2
  <2> QED BY <2>4, <2>5 DEF g
<1> QED BY <1>3, <1>4

Assemblies == [text : Seq(AllPieces), tools : Seq(ToolCalls), line : BOOLEAN, ended : BOOLEAN]

Arguments(put, i) == IF i \in 1..Len(put) THEN put[i].args ELSE <<>>

(* The assembly a holds the first k events of the stream. *)
Read(stream, k, a) ==
    /\ a.text = Gathered(stream, "text", 0)[k]
    /\ \A i \in Nat \ {0} : Arguments(a.tools, i) = Gathered(stream, "call", i)[k]
    /\ \A j \in 1..k : stream[j].kind = "call" => stream[j].index <= Len(a.tools)

(* A delta of a call adds to the arguments of that call alone. *)
LEMMA AssembledIs ==
    ASSUME NEW a \in Assemblies, NEW e \in Deltas, Delta(e), e.kind = "call"
    PROVE  /\ Assembled(a, e) \in Assemblies
           /\ Assembled(a, e).text = a.text /\ Assembled(a, e).line = a.line
           /\ Assembled(a, e).ended = a.ended
           /\ Len(Assembled(a, e).tools) >= Len(a.tools)
           /\ Len(Assembled(a, e).tools) >= e.index
           /\ \A i \in Nat \ {0} :
                 Arguments(Assembled(a, e).tools, i) =
                    IF i = e.index THEN Append(Arguments(a.tools, i), e.piece)
                    ELSE Arguments(a.tools, i)
<1> DEFINE at == e.index
           m == IF Len(a.tools) < at THEN at ELSE Len(a.tools)
           known == [i \in 1..m |-> IF i <= Len(a.tools) THEN a.tools[i]
                                     ELSE [id |-> NoId, args |-> <<>>]]
           newId == IF e.id = NoId THEN known[at].id ELSE e.id
           newArgs == Append(known[at].args, e.piece)
           grown == [known EXCEPT ![at].id = IF e.id = NoId THEN @ ELSE e.id,
                                  ![at].args = Append(@, e.piece)]
<1>1. at \in Nat /\ at > 0 /\ a.tools \in Seq(ToolCalls) /\ e.piece \in AllPieces
      /\ e.id \in {NoId} \cup {d.id : d \in Deltas}
  BY DEF Delta, Assemblies, AllPieces
<1>2. Len(a.tools) \in Nat /\ m \in Nat /\ m >= at /\ m >= Len(a.tools) /\ at \in 1..m
  BY <1>1
<1> HIDE DEF m
<1>3. ASSUME NEW i \in 1..m
      PROVE  known[i] \in ToolCalls /\ known[i].args = Arguments(a.tools, i)
  <2>1. CASE i <= Len(a.tools)
    <3>1. known[i] = a.tools[i] /\ i \in 1..Len(a.tools)
      BY <1>2, <2>1
    <3>2. a.tools[i] \in ToolCalls
      BY <1>1, <3>1
    <3> HIDE DEF known
    <3> QED BY <3>1, <3>2 DEF Arguments
  <2>2. CASE ~(i <= Len(a.tools))
    <3>1. known[i] = [id |-> NoId, args |-> <<>>] /\ i \notin 1..Len(a.tools)
      BY <1>2, <2>2
    <3>2. known[i] \in ToolCalls
      BY <3>1 DEF ToolCalls
    <3> HIDE DEF known
    <3> QED BY <3>1, <3>2 DEF Arguments
  <2> QED BY <2>1, <2>2
<1>4. known \in [1..m -> ToolCalls]
  BY <1>3
<1>5. newId \in {NoId} \cup {d.id : d \in Deltas} /\ newArgs \in Seq(AllPieces)
  <2>1. known[at] \in ToolCalls
    BY <1>2, <1>3
  <2> HIDE DEF known
  <2> QED BY <1>1, <2>1 DEF ToolCalls
<1>6. grown \in [1..m -> ToolCalls] /\ grown[at].args = newArgs
      /\ \A i \in 1..m : i # at => grown[i] = known[i]
  <2>1. known[at] \in ToolCalls
    BY <1>2, <1>3
  <2> HIDE DEF known
  <2>2. grown = [known EXCEPT ![at] = [id |-> newId, args |-> newArgs]]
    BY <1>2, <1>4, <2>1 DEF ToolCalls
  <2>3. [id |-> newId, args |-> newArgs] \in ToolCalls
    BY <1>5 DEF ToolCalls
  <2> HIDE DEF grown, newId, newArgs
  <2> QED BY <1>2, <1>4, <2>2, <2>3
<1>7. Assembled(a, e) = [a EXCEPT !.tools = grown]
  BY DEF Assembled, m
<1> HIDE DEF grown
<1>8. grown \in Seq(ToolCalls) /\ Len(grown) = m
  <2>1. m \in Nat /\ grown \in [1..m -> ToolCalls]
    BY <1>2, <1>6
  <2> QED BY <2>1
<1>9. /\ Assembled(a, e) \in Assemblies /\ Assembled(a, e).tools = grown
      /\ Assembled(a, e).text = a.text /\ Assembled(a, e).line = a.line
      /\ Assembled(a, e).ended = a.ended
  BY <1>7, <1>8 DEF Assemblies
<1>10. ASSUME NEW i \in Nat \ {0}
       PROVE  Arguments(grown, i) = IF i = at THEN Append(Arguments(a.tools, i), e.piece)
                                    ELSE Arguments(a.tools, i)
  <2>1. CASE i = at
    <3>1. Arguments(grown, i) = newArgs
      BY <1>2, <1>6, <1>8, <2>1 DEF Arguments
    <3>2. known[at].args = Arguments(a.tools, at)
      BY <1>2, <1>3
    <3> HIDE DEF known
    <3> QED BY <2>1, <3>1, <3>2
  <2>2. CASE i # at /\ i \in 1..m
    <3>1. Arguments(grown, i) = known[i].args
      BY <1>6, <1>8, <2>2 DEF Arguments
    <3>2. known[i].args = Arguments(a.tools, i)
      BY <1>3, <2>2
    <3> HIDE DEF known
    <3> QED BY <2>2, <3>1, <3>2
  <2>3. CASE i # at /\ i \notin 1..m
    <3>1. i \notin 1..Len(a.tools)
      BY <1>2, <2>3
    <3> QED BY <1>8, <2>3, <3>1 DEF Arguments
  <2> QED BY <2>1, <2>2, <2>3
<1> HIDE DEF known
<1> QED BY <1>2, <1>8, <1>9, <1>10

(* Consuming the next event keeps what has been read. *)
LEMMA ConsumedIsRead ==
    ASSUME NEW stream \in Streams, NEW k \in 0..(Len(stream) - 1), NEW a \in Assemblies,
           Read(stream, k, a)
    PROVE  LET c == Consumed(a, stream[k + 1]) IN
           /\ c \in Assemblies /\ Read(stream, k + 1, c) /\ c.line = a.line
           /\ stream[k + 1].kind # "done" => c.ended = a.ended
           /\ stream[k + 1].kind = "done" => c.ended
<1> DEFINE e == stream[k + 1]
           c == Consumed(a, e)
<1>1. /\ Len(stream) \in Nat /\ k \in Nat /\ k + 1 \in 1..Len(stream) /\ k + 1 - 1 = k
      /\ e \in Deltas /\ Delta(e)
  BY StreamIs
<1>2. ASSUME NEW kind, NEW index
      PROVE  Gathered(stream, kind, index)[k + 1] =
                PiecesWith(Gathered(stream, kind, index)[k], e, kind, index)
  <2> DEFINE g == Gathered(stream, kind, index)
  <2>1. IsGathered(g, stream, kind, index, Len(stream))
    BY GatheredIs
  <2> HIDE DEF g
  <2>2. k + 1 \in 0..Len(stream) /\ k + 1 # 0
    BY <1>1
  <2>3. g[k + 1] = PiecesWith(g[k + 1 - 1], e, kind, index)
    BY <2>1, <2>2 DEF IsGathered
  <2> QED BY <1>1, <2>3 DEF g
<1>3. ASSUME NEW j \in 1..(k + 1) PROVE j \in 1..k \/ j = k + 1
  BY <1>1
<1>4. e.kind \in {"text", "call", "done"} /\ (e.kind = "text" => e.index = 0)
  BY <1>1 DEF Delta
<1>5. e.piece \in AllPieces
  BY <1>1 DEF AllPieces
<1> HIDE DEF e
<1>6. CASE e.kind = "text"
  <2>1. c = [a EXCEPT !.text = Append(@, e.piece)]
    BY <1>6 DEF Consumed
  <2>2. /\ c \in Assemblies /\ c.text = Append(a.text, e.piece) /\ c.tools = a.tools
        /\ c.line = a.line /\ c.ended = a.ended
    <3> DEFINE text == Append(a.text, e.piece)
    <3>1. text \in Seq(AllPieces)
      BY <1>5 DEF Assemblies
    <3>2. c = [a EXCEPT !.text = text]
      BY <2>1
    <3> HIDE DEF text, c
    <3>3. /\ c \in Assemblies /\ c.text = text /\ c.tools = a.tools
          /\ c.line = a.line /\ c.ended = a.ended
      BY <3>1, <3>2 DEF Assemblies
    <3> QED BY <3>3 DEF text
  <2> HIDE DEF c
  <2>3. c.text = Gathered(stream, "text", 0)[k + 1]
    <3>1. Gathered(stream, "text", 0)[k + 1] = Append(Gathered(stream, "text", 0)[k], e.piece)
      BY <1>2, <1>4, <1>6 DEF PiecesWith
    <3>2. a.text = Gathered(stream, "text", 0)[k]
      BY DEF Read
    <3> QED BY <2>2, <3>1, <3>2
  <2>4. ASSUME NEW i \in Nat \ {0} PROVE Arguments(c.tools, i) = Gathered(stream, "call", i)[k + 1]
    BY <1>2, <1>6, <2>2 DEF PiecesWith, Read
  <2>5. ASSUME NEW j \in 1..(k + 1), stream[j].kind = "call"
        PROVE  stream[j].index <= Len(c.tools)
    BY <1>3, <1>6, <2>2, <2>5 DEF Read, e
  <2>6. Read(stream, k + 1, c)
    BY <2>3, <2>4, <2>5 DEF Read
  <2> QED BY <1>6, <2>2, <2>6 DEF c, e
<1>7. CASE e.kind = "call"
  <2>1. c = Assembled(a, e)
    BY <1>7 DEF Consumed
  <2>2. /\ c \in Assemblies /\ c.text = a.text /\ c.line = a.line /\ c.ended = a.ended
        /\ Len(c.tools) >= Len(a.tools) /\ Len(c.tools) >= e.index
        /\ \A i \in Nat \ {0} :
              Arguments(c.tools, i) = IF i = e.index THEN Append(Arguments(a.tools, i), e.piece)
                                      ELSE Arguments(a.tools, i)
    BY <1>1, <1>7, <2>1, AssembledIs DEF e
  <2>7. e.index \in Nat /\ Len(a.tools) \in Nat /\ Len(c.tools) \in Nat
        /\ \A j \in 1..k : stream[j].index \in Nat
    <3>1. \A j \in 1..k : j \in 1..Len(stream)
      BY <1>1
    <3> QED BY <1>1, <2>2, <3>1, StreamIs DEF Assemblies, Delta, e
  <2> HIDE DEF c
  <2>3. c.text = Gathered(stream, "text", 0)[k + 1]
    BY <1>2, <1>7, <2>2 DEF PiecesWith, Read
  <2>4. ASSUME NEW i \in Nat \ {0} PROVE Arguments(c.tools, i) = Gathered(stream, "call", i)[k + 1]
    <3>1. Gathered(stream, "call", i)[k + 1] =
            IF e.index = i THEN Append(Gathered(stream, "call", i)[k], e.piece)
            ELSE Gathered(stream, "call", i)[k]
      BY <1>2, <1>7 DEF PiecesWith
    <3>2. Arguments(a.tools, i) = Gathered(stream, "call", i)[k]
      BY DEF Read
    <3> QED BY <2>2, <3>1, <3>2
  <2>5. ASSUME NEW j \in 1..(k + 1), stream[j].kind = "call"
        PROVE  stream[j].index <= Len(c.tools)
    <3>1. CASE j \in 1..k
      <4>1. stream[j].index <= Len(a.tools)
        BY <2>5, <3>1 DEF Read
      <4> QED BY <2>2, <2>7, <3>1, <4>1
    <3>2. CASE j = k + 1
      BY <2>2, <2>7, <3>2 DEF e
    <3> QED BY <1>3, <3>1, <3>2
  <2>6. Read(stream, k + 1, c)
    BY <2>3, <2>4, <2>5 DEF Read
  <2> QED BY <1>7, <2>2, <2>6 DEF c, e
<1>8. CASE e.kind = "done"
  <2>1. c = [a EXCEPT !.ended = TRUE]
    BY <1>8 DEF Consumed
  <2>2. /\ c \in Assemblies /\ c.text = a.text /\ c.tools = a.tools
        /\ c.line = a.line /\ c.ended
    BY <2>1 DEF Assemblies
  <2> HIDE DEF c
  <2>3. c.text = Gathered(stream, "text", 0)[k + 1]
    BY <1>2, <1>8, <2>2 DEF PiecesWith, Read
  <2>4. ASSUME NEW i \in Nat \ {0} PROVE Arguments(c.tools, i) = Gathered(stream, "call", i)[k + 1]
    BY <1>2, <1>8, <2>2 DEF PiecesWith, Read
  <2>5. ASSUME NEW j \in 1..(k + 1), stream[j].kind = "call"
        PROVE  stream[j].index <= Len(c.tools)
    BY <1>3, <1>8, <2>2, <2>5 DEF Read, e
  <2>6. Read(stream, k + 1, c)
    BY <2>3, <2>4, <2>5 DEF Read
  <2> QED BY <1>8, <2>2, <2>6 DEF c, e
<1> QED BY <1>4, <1>6, <1>7, <1>8

(* k events of the stream have been consumed, and the others are still to come. *)
ReadingAt(stream, k) ==
    /\ Read(stream, k, assembly) /\ ~assembly.ended
    /\ \A i \in 1..k : stream[i].kind # "done"
    /\ reply \in Seq(Deltas) /\ Len(reply) = Len(stream) - k
    /\ \A j \in 1..Len(reply) : reply[j] = stream[k + j]
    /\ assembly.line => reply # <<>>

ReadingFits ==
    /\ assembly \in Assemblies
    /\ call.stage = "stream" => \E stream \in Streams : \E k \in 0..Len(stream) : ReadingAt(stream, k)
    /\ AnswerIsWhole

ProviderInv == RequestsFit /\ ReadingFits

(* An answer that was put together up to the end mark is whole. *)
LEMMA WholeAnswer ==
    ASSUME NEW stream \in Streams, NEW end \in 1..Len(stream), EndsAt(stream, end),
           NEW a \in Assemblies, Read(stream, end, a),
           result' = [kind |-> "answer", text |-> a.text, tools |-> a.tools]
    PROVE  AnswerIsWhole'
<1>1. Len(stream) \in Nat /\ DOMAIN stream = 1..Len(stream)
  BY StreamIs
<1>2. /\ EndOf(stream) = end
      /\ \A kind, index : Pieces(stream, kind, index) = Gathered(stream, kind, index)[end]
  BY PiecesGathered
<1>3. \E i \in DOMAIN stream : stream[i].kind = "done"
  BY <1>1 DEF EndsAt
<1>4. result'.text = Pieces(stream, "text", 0)
  BY <1>2 DEF Read
<1>5. ASSUME NEW i \in DOMAIN result'.tools PROVE result'.tools[i].args = Pieces(stream, "call", i)
  <2>1. i \in 1..Len(a.tools) /\ i \in Nat \ {0} /\ result'.tools[i] = a.tools[i]
    BY DEF Assemblies
  <2>2. a.tools[i].args = Arguments(a.tools, i)
    BY <2>1 DEF Arguments
  <2> QED BY <1>2, <2>1, <2>2 DEF Read
<1>6. ASSUME NEW i \in 1..EndOf(stream), stream[i].kind = "call"
      PROVE  stream[i].index <= Len(result'.tools)
  BY <1>2, <1>6 DEF Read
<1> QED BY <1>3, <1>4, <1>5, <1>6 DEF AnswerIsWhole

(* A call that ends with anything but an answer. *)
LEMMA NoAnswer ==
    ASSUME RequestsFit, NEW kind, kind # "answer", Return(kind), assembly' \in Assemblies
    PROVE  ReadingFits'
<1>1. call'.stage = "done" /\ result'.kind = kind
  BY DEF Return, Nothing, RequestsFit, ProviderTypeOK
<1> QED BY <1>1 DEF ReadingFits, AnswerIsWhole

(* A step that leaves the reading alone keeps it. *)
LEMMA ReadingStays ==
    ASSUME ReadingFits, UNCHANGED <<reply, assembly, result>>,
           call'.stage = "stream" => call.stage = "stream"
    PROVE  ReadingFits'
<1>1. AnswerIsWhole'
  BY DEF ReadingFits, AnswerIsWhole
<1>2. ASSUME NEW stream, NEW k, ReadingAt(stream, k) PROVE ReadingAt(stream, k)'
  BY <1>2 DEF ReadingAt
<1> QED BY <1>1, <1>2 DEF ReadingFits

(* A call that is over keeps what has been read. *)
LEMMA OverKeeps ==
    ASSUME ProviderInv, call.stage = "stream", NEW a \in Assemblies, StreamOver(a),
           a.ended => \E stream \in Streams : \E end \in 1..Len(stream) :
                         EndsAt(stream, end) /\ Read(stream, end, a),
           assembly' \in Assemblies, UNCHANGED <<clock, token, fates>>
    PROVE  ProviderInv'
<1>1. call' = [call EXCEPT !.stage = "done"] /\ call'.stage = "done"
  BY DEF StreamOver, ProviderInv, RequestsFit, ProviderTypeOK
<1>2. CASE a.ended /\ ValidCalls(a.tools)
  <2>1. result' = [kind |-> "answer", text |-> a.text, tools |-> a.tools]
    BY <1>2 DEF StreamOver
  <2>2. PICK stream \in Streams : \E end \in 1..Len(stream) :
           EndsAt(stream, end) /\ Read(stream, end, a)
    BY <1>2
  <2>5. PICK end \in 1..Len(stream) : EndsAt(stream, end) /\ Read(stream, end, a)
    BY <2>2
  <2>3. AnswerIsWhole'
    BY <2>1, <2>5, WholeAnswer
  <2>4. RequestsFit'
    BY <1>1, <2>1, EndFits DEF ProviderInv
  <2> QED BY <1>1, <2>3, <2>4 DEF ProviderInv, ReadingFits
<1>3. CASE ~(a.ended /\ ValidCalls(a.tools))
  <2>1. result' = [Nothing EXCEPT !.kind = "malformed"] /\ result'.kind = "malformed"
    BY <1>3 DEF StreamOver, Nothing
  <2>2. RequestsFit'
    BY <1>1, <2>1, EndFits DEF ProviderInv, Errors
  <2> QED BY <1>1, <2>1, <2>2 DEF ProviderInv, ReadingFits, AnswerIsWhole
<1> QED BY <1>2, <1>3

(* The event in hand, consumed. *)
LEMMA NextIsRead ==
    ASSUME ProviderInv, call.stage = "stream", assembly.line
    PROVE  LET a == Consumed(assembly, Head(reply)) IN
           /\ a \in Assemblies
           /\ a.ended => \E stream \in Streams : \E end \in 1..Len(stream) :
                            EndsAt(stream, end) /\ Read(stream, end, a)
           /\ ~a.ended => \E stream \in Streams : \E k \in 0..Len(stream) :
                /\ Read(stream, k, a)
                /\ \A i \in 1..k : stream[i].kind # "done"
                /\ Tail(reply) \in Seq(Deltas) /\ Len(Tail(reply)) = Len(stream) - k
                /\ \A j \in 1..Len(Tail(reply)) : Tail(reply)[j] = stream[k + j]
<1> DEFINE a == Consumed(assembly, Head(reply))
<1>0. PICK stream \in Streams : \E k \in 0..Len(stream) : ReadingAt(stream, k)
  BY DEF ProviderInv, ReadingFits
<1>1. PICK k \in 0..Len(stream) : ReadingAt(stream, k)
  BY <1>0
<1>2. /\ reply \in Seq(Deltas) /\ reply # <<>> /\ Len(reply) = Len(stream) - k
      /\ \A j \in 1..Len(reply) : reply[j] = stream[k + j]
      /\ Len(stream) \in Nat /\ Read(stream, k, assembly) /\ ~assembly.ended
      /\ assembly \in Assemblies /\ \A i \in 1..k : stream[i].kind # "done"
  BY <1>1, StreamIs DEF ReadingAt, ProviderInv, ReadingFits
<1>3. Len(reply) \in Nat /\ Len(reply) > 0 /\ Head(reply) = reply[1]
  BY <1>2
<1>4. Head(reply) = stream[k + 1] /\ k \in 0..(Len(stream) - 1) /\ k + 1 \in 1..Len(stream)
  BY <1>2, <1>3
<1>5. /\ a \in Assemblies /\ Read(stream, k + 1, a)
      /\ stream[k + 1].kind # "done" => ~a.ended
      /\ stream[k + 1].kind = "done" => a.ended
  BY <1>2, <1>4, ConsumedIsRead
<1> HIDE DEF a
<1>6. ASSUME a.ended PROVE EndsAt(stream, k + 1)
  BY <1>2, <1>4, <1>5, <1>6 DEF EndsAt
<1>7. ASSUME ~a.ended
      PROVE  /\ \A i \in 1..(k + 1) : stream[i].kind # "done"
             /\ Tail(reply) \in Seq(Deltas) /\ Len(Tail(reply)) = Len(stream) - (k + 1)
             /\ \A j \in 1..Len(Tail(reply)) : Tail(reply)[j] = stream[k + 1 + j]
  <2>1. ASSUME NEW i \in 1..(k + 1) PROVE stream[i].kind # "done"
    <3>1. i \in 1..k \/ i = k + 1
      BY <1>4
    <3> QED BY <1>2, <1>5, <1>7, <3>1
  <2>2. /\ Tail(reply) \in Seq(Deltas) /\ Len(Tail(reply)) = Len(reply) - 1
        /\ \A j \in 1..Len(Tail(reply)) : Tail(reply)[j] = reply[j + 1]
    BY <1>2, <1>3
  <2>3. Len(Tail(reply)) = Len(stream) - (k + 1)
    BY <1>2, <1>3, <2>2
  <2>4. ASSUME NEW j \in 1..Len(Tail(reply)) PROVE Tail(reply)[j] = stream[k + 1 + j]
    <3>1. j + 1 \in 1..Len(reply) /\ k + (j + 1) = k + 1 + j
      BY <1>2, <1>3, <2>2
    <3> QED BY <1>2, <2>2, <3>1
  <2> QED BY <2>1, <2>2, <2>3, <2>4
<1>8. k + 1 \in 0..Len(stream)
  BY <1>4
<1> QED BY <1>4, <1>5, <1>6, <1>7, <1>8 DEF a

(* The end of an event, and of the stream, keep the invariant of the call. *)
LEMMA ReadSteps ==
    ASSUME ProviderInv, BlankLine \/ BodyEnds PROVE ProviderInv'
<1> DEFINE a == Consumed(assembly, Head(reply))
<1>1. call.stage = "stream" /\ UNCHANGED <<clock, token, fates>> /\ assembly \in Assemblies
      /\ RequestsFit
  BY DEF BlankLine, BodyEnds, ProviderInv, ReadingFits
<1>2. ASSUME assembly.line PROVE
         /\ a \in Assemblies
         /\ a.ended => \E stream \in Streams : \E end \in 1..Len(stream) :
                          EndsAt(stream, end) /\ Read(stream, end, a)
         /\ ~a.ended => \E stream \in Streams : \E k \in 0..Len(stream) :
              /\ Read(stream, k, a)
              /\ \A i \in 1..k : stream[i].kind # "done"
              /\ Tail(reply) \in Seq(Deltas) /\ Len(Tail(reply)) = Len(stream) - k
              /\ \A j \in 1..Len(Tail(reply)) : Tail(reply)[j] = stream[k + j]
  BY <1>1, <1>2, NextIsRead
<1>3. ASSUME NEW kind \in Errors, Return(kind), assembly' \in Assemblies PROVE ProviderInv'
  <2>1. RequestsFit'
    BY <1>1, <1>3, EndFits DEF Return, Nothing
  <2>2. kind # "answer"
    BY DEF Errors
  <2> QED BY <1>1, <1>3, <2>1, <2>2, NoAnswer DEF ProviderInv
<1>4. "malformed" \in Errors
  BY DEF Errors
<1>5. CASE BodyEnds
  <2>1. assembly' = assembly
    BY <1>5 DEF BodyEnds
  <2>2. CASE assembly.line /\ Malformed(assembly, Head(reply))
    <3>1. Return("malformed")
      BY <1>5, <2>2 DEF BodyEnds
    <3> QED BY <1>1, <1>3, <1>4, <2>1, <3>1
  <2>3. CASE assembly.line /\ ~Malformed(assembly, Head(reply))
    <3>1. StreamOver(a)
      BY <1>5, <2>3 DEF BodyEnds
    <3> HIDE DEF a
    <3> QED BY <1>1, <1>2, <2>1, <2>3, <3>1, OverKeeps
  <2>4. CASE ~assembly.line
    <3>1. StreamOver(assembly)
      BY <1>5, <2>4 DEF BodyEnds
    <3>2. ~assembly.ended
      BY <1>1 DEF ProviderInv, ReadingFits, ReadingAt
    <3> QED BY <1>1, <2>1, <3>1, <3>2, OverKeeps
  <2> QED BY <2>2, <2>3, <2>4
<1>6. CASE BlankLine
  <2>1. assembly.line /\ reply' = Tail(reply) /\ assembly' = [a EXCEPT !.line = FALSE]
    BY <1>6 DEF BlankLine
  <2>2. a \in Assemblies
    BY <1>2, <2>1
  <2>3. CASE Malformed(assembly, Head(reply))
    <3>1. Return("malformed")
      BY <1>6, <2>3 DEF BlankLine
    <3> HIDE DEF a
    <3>2. assembly' \in Assemblies
      BY <2>1, <2>2 DEF Assemblies
    <3> QED BY <1>3, <1>4, <3>1, <3>2
  <2>4. CASE ~Malformed(assembly, Head(reply)) /\ a.ended
    <3>1. StreamOver(a)
      BY <1>6, <2>4 DEF BlankLine
    <3> HIDE DEF a
    <3>2. assembly' \in Assemblies
      BY <2>1, <2>2 DEF Assemblies
    <3> QED BY <1>1, <1>2, <2>1, <2>2, <3>1, <3>2, OverKeeps
  <2>5. CASE ~Malformed(assembly, Head(reply)) /\ ~a.ended
    <3>1. UNCHANGED <<call, result>>
      BY <1>6, <2>5 DEF BlankLine
    <3> HIDE DEF a
    <3>2. /\ assembly' \in Assemblies /\ assembly'.text = a.text /\ assembly'.tools = a.tools
          /\ ~assembly'.line /\ assembly'.ended = a.ended
      BY <2>1, <2>2 DEF Assemblies
    <3>3. PICK stream \in Streams : \E k \in 0..Len(stream) :
              /\ Read(stream, k, a)
              /\ \A i \in 1..k : stream[i].kind # "done"
              /\ Tail(reply) \in Seq(Deltas) /\ Len(Tail(reply)) = Len(stream) - k
              /\ \A j \in 1..Len(Tail(reply)) : Tail(reply)[j] = stream[k + j]
      BY <1>2, <2>1, <2>5
    <3>4. PICK k \in 0..Len(stream) :
              /\ Read(stream, k, a)
              /\ \A i \in 1..k : stream[i].kind # "done"
              /\ Tail(reply) \in Seq(Deltas) /\ Len(Tail(reply)) = Len(stream) - k
              /\ \A j \in 1..Len(Tail(reply)) : Tail(reply)[j] = stream[k + j]
      BY <3>3
    <3>5. Read(stream, k, assembly')
      BY <3>2, <3>4 DEF Read
    <3>6. ReadingAt(stream, k)'
      BY <2>1, <2>5, <3>2, <3>4, <3>5 DEF ReadingAt, Read
    <3>7. RequestsFit' /\ AnswerIsWhole'
      BY <1>1, <3>1 DEF RequestsFit, ProviderTypeOK, RepeatsFit, FallbackFits, ProviderInv, ReadingFits,
         AnswerIsWhole
    <3>8. ReadingFits'
      BY <3>2, <3>6, <3>7 DEF ReadingFits
    <3> QED BY <3>7, <3>8 DEF ProviderInv
  <2> QED BY <2>3, <2>4, <2>5
<1> QED BY <1>5, <1>6

(* An answer begins with nothing read. *)
LEMMA AnswerBegins ==
    ASSUME ProviderInv, NEW stage \in {"stream", "json"}, NEW stream \in Streams,
           Answers(stage, stream)
    PROVE  ReadingFits'
<1>1. /\ reply' = stream /\ assembly' = NoAssembly /\ result' = result
  BY DEF Answers
<1>2. NoAssembly \in Assemblies
  BY DEF NoAssembly, Assemblies
<1>3. AnswerIsWhole'
  BY <1>1 DEF ProviderInv, ReadingFits, AnswerIsWhole
<1>4. ReadingAt(stream, 0)'
  <2>1. /\ Len(stream) \in Nat /\ DOMAIN stream = 1..Len(stream)
        /\ \A i \in 1..Len(stream) : stream[i] \in Deltas
    BY StreamIs
  <2>2. stream \in Seq(Deltas)
    <3>1. stream \in Seq(ToSet(stream))
      BY ProviderAssumption
    <3> QED BY <2>1, <3>1
  <2>3. ASSUME NEW kind, NEW index PROVE Gathered(stream, kind, index)[0] = <<>>
    <3>1. 0 \in 0..Len(stream)
      BY <2>1
    <3> QED BY <3>1, GatheredIs DEF IsGathered
  <2>4. NoAssembly.text = <<>> /\ NoAssembly.tools = <<>> /\ ~NoAssembly.line /\ ~NoAssembly.ended
    BY DEF NoAssembly
  <2>5. \A i \in Nat \ {0} : Arguments(NoAssembly.tools, i) = <<>>
    BY <2>4 DEF Arguments
  <2>6. Read(stream, 0, NoAssembly)
    BY <2>3, <2>4, <2>5 DEF Read
  <2>7. Read(stream, 0, assembly)'
    BY <1>1, <2>6 DEF Read
  <2> QED BY <1>1, <2>1, <2>2, <2>4, <2>7 DEF ReadingAt
<1>5. 0 \in 0..Len(stream)
  BY StreamIs
<1> QED BY <1>1, <1>2, <1>3, <1>4, <1>5 DEF ReadingFits

(* The invariant of the call holds at first. *)
LEMMA ProviderStarts == ASSUME ProviderInit PROVE ProviderInv
<1>1. MaxAttempts \in Nat /\ MaxAttempts > 0
  BY ProviderAssumption
<1>2. /\ call = [stage |-> "attempt", attempt |-> 0, inline |-> FALSE, started |-> 0, until |-> 0]
      /\ clock = 0 /\ token = FALSE /\ fates = <<>> /\ result = Nothing
      /\ assembly = NoAssembly
  BY DEF ProviderInit
<1>3. ProviderTypeOK
  <2>1. call \in Calls /\ call.stage # "done"
    BY <1>1, <1>2 DEF Calls, Waiting
  <2>2. fates \in Seq(Fates) /\ Len(fates) = 0
    BY <1>2
  <2>3. result.kind = "none"
    BY <1>2 DEF Nothing
  <2>4. token \in BOOLEAN /\ clock \in Nat
    BY <1>2
  <2> QED BY <1>1, <2>1, <2>2, <2>3, <2>4 DEF ProviderTypeOK, Calls
<1>4. RequestsFit
  <2>1. Len(fates) = 0 /\ RepeatsFit /\ FallbackFits
    BY <1>2 DEF RepeatsFit, FallbackFits, GivenUp
  <2>2. call.stage = "attempt" /\ call.attempt = 0 /\ ~call.inline
    BY <1>2
  <2> QED BY <1>1, <1>3, <2>1, <2>2 DEF RequestsFit
<1>5. ReadingFits
  BY <1>2 DEF ReadingFits, AnswerIsWhole, Nothing, Assemblies, NoAssembly
<1> QED BY <1>4, <1>5 DEF ProviderInv

(* Every step keeps the invariant of the call. *)
LEMMA ProviderSteps == ASSUME ProviderInv, ProviderNext PROVE ProviderInv'
<1>1. RequestsFit /\ ReadingFits /\ assembly \in Assemblies /\ call \in Calls
  BY DEF ProviderInv, ReadingFits, RequestsFit, ProviderTypeOK, Calls
<1>2. ASSUME RequestsFit', UNCHANGED <<reply, assembly, result>>,
             call'.stage = "stream" => call.stage = "stream"
      PROVE  ProviderInv'
  BY <1>1, <1>2, ReadingStays DEF ProviderInv
<1>3. ASSUME RequestsFit', NEW kind, kind # "answer", Return(kind), assembly' = assembly
      PROVE  ProviderInv'
  BY <1>1, <1>3, NoAnswer DEF ProviderInv
<1>4. ASSUME NEW number, Begin(number), RequestsFit' PROVE ProviderInv'
  <2>1. UNCHANGED <<reply, assembly>>
    BY <1>4 DEF Begin
  <2>2. CASE Return("cancelled") \/ Return("timeout")
    BY <1>3, <1>4, <2>1, <2>2
  <2>3. CASE ~(Return("cancelled") \/ Return("timeout"))
    <3>1. \E until : call' = [call EXCEPT !.stage = "send", !.attempt = number, !.started = clock,
                                           !.until = until]
      BY <1>4, <2>3 DEF Begin
    <3>2. call'.stage = "send" /\ result' = result
      BY <1>1, <1>4, <2>3, <3>1 DEF Begin, Calls
    <3> QED BY <1>2, <1>4, <2>1, <3>2
  <2> QED BY <2>2, <2>3
<1>5. CASE SendAttempt \/ SendInline
  <2>1. CASE SendAttempt
    <3>1. call.stage = "attempt" /\ Begin(call.attempt + 1)
      BY <2>1 DEF SendAttempt
    <3> DEFINE number == call.attempt + 1
    <3>2. Begin(number) /\ number = call.attempt + 1
      BY <3>1
    <3> HIDE DEF number
    <3> QED BY <1>1, <1>4, <3>1, <3>2, BeginFits
  <2>2. CASE SendInline
    <3>1. call.stage = "inline" /\ Begin(call.attempt)
      BY <2>2 DEF SendInline
    <3> QED BY <1>1, <1>4, <3>1, BeginFits
  <2> QED BY <1>5, <2>1, <2>2
<1>6. CASE CannotConnect \/ Breaks \/ SendTimesOut \/ TransientStatus \/ Rejects \/ RejectsStream
  <2>1. RequestsFit' /\ UNCHANGED <<reply, assembly>>
    BY <1>1, <1>6, RequestKeeps DEF CannotConnect, Breaks, SendTimesOut, TransientStatus, Rejects, RejectsStream
  <2>2. ASSUME NEW hint, Pause(hint) PROVE ProviderInv'
    <3>1. CASE Return("timeout")
      BY <1>3, <2>1, <3>1
    <3>2. CASE ~Return("timeout")
      <4>1. \E until : call' = [call EXCEPT !.stage = "pause", !.until = until]
        BY <2>2, <3>2 DEF Pause
      <4>2. call'.stage = "pause" /\ result' = result
        BY <1>1, <2>2, <3>2, <4>1 DEF Pause, Calls
      <4> QED BY <1>2, <2>1, <4>2
    <3> QED BY <3>1, <3>2
  <2>3. CASE CannotConnect
    <3>1. (Retries => Pause(-1)) /\ (~Retries => Return("transport"))
      BY <2>3 DEF CannotConnect
    <3> QED BY <1>3, <2>1, <2>2, <3>1
  <2>4. CASE TransientStatus
    <3>1. CASE Retries
      <4>1. PICK hint \in RetryAfters \cup {-1} : Pause(hint)
        BY <2>4, <3>1 DEF TransientStatus
      <4> QED BY <2>2, <4>1
    <3>2. CASE ~Retries
      <4>1. Return("http")
        BY <2>4, <3>2 DEF TransientStatus
      <4> QED BY <1>3, <2>1, <4>1
    <3> QED BY <3>1, <3>2
  <2>5. CASE Breaks
    <3>1. PICK kind \in {"transport", "timeout"} : Return(kind)
      BY <2>5 DEF Breaks
    <3> QED BY <1>3, <2>1, <3>1
  <2>6. CASE SendTimesOut
    <3>1. Return("timeout")
      BY <2>6 DEF SendTimesOut
    <3> QED BY <1>3, <2>1, <3>1
  <2>7. CASE Rejects
    <3>1. PICK kind \in {"overflow", "http", "transport"} : Return(kind)
      BY <2>7 DEF Rejects
    <3> QED BY <1>3, <2>1, <3>1
  <2>8. CASE RejectsStream
    <3>1. CASE Streaming /\ ~call.inline
      <4>1. call' = [call EXCEPT !.stage = "inline", !.inline = TRUE] /\ result' = result
        BY <2>8, <3>1 DEF RejectsStream
      <4>2. call'.stage = "inline"
        BY <1>1, <4>1 DEF Calls
      <4> QED BY <1>2, <2>1, <4>1, <4>2
    <3>2. CASE ~(Streaming /\ ~call.inline)
      <4>1. Return("http")
        BY <2>8, <3>2 DEF RejectsStream
      <4> QED BY <1>3, <2>1, <4>1
    <3> QED BY <3>1, <3>2
  <2> QED BY <1>6, <2>3, <2>4, <2>5, <2>6, <2>7, <2>8
<1>7. ASSUME NEW stage \in {"stream", "json"}, NEW stream \in Streams, Answers(stage, stream)
      PROVE  ProviderInv'
  BY <1>1, <1>7, AnswerTaken, AnswerBegins DEF ProviderInv
<1>8. CASE BlankLine \/ BodyEnds
  BY <1>8, ReadSteps
<1>9. CASE Wake \/ DataLine \/ StreamCancelled \/ JsonArrives \/ BodyBreaks \/ Elapse \/ CancelRound
  <2>1. RequestsFit'
    BY <1>1, <1>9, OthersFit
  <2>2. CASE DataLine
    <3>1. assembly' = [assembly EXCEPT !.line = TRUE] /\ UNCHANGED <<call, reply, result>>
          /\ reply # <<>>
      BY <2>2 DEF DataLine
    <3>2. /\ assembly' \in Assemblies /\ assembly'.text = assembly.text
          /\ assembly'.tools = assembly.tools /\ assembly'.ended = assembly.ended
      BY <1>1, <3>1 DEF Assemblies
    <3>3. AnswerIsWhole'
      BY <1>1, <3>1 DEF ReadingFits, AnswerIsWhole
    <3>4. ASSUME NEW stream, NEW k, ReadingAt(stream, k) PROVE ReadingAt(stream, k)'
      BY <3>1, <3>2, <3>4 DEF ReadingAt, Read
    <3> QED BY <1>1, <2>1, <3>1, <3>2, <3>3, <3>4 DEF ProviderInv, ReadingFits
  <2>3. CASE Wake
    <3>1. UNCHANGED <<reply, assembly>>
      BY <2>3 DEF Wake
    <3>2. CASE token
      <4>1. Return("cancelled")
        BY <2>3, <3>2 DEF Wake
      <4> QED BY <1>3, <2>1, <3>1, <4>1
    <3>3. CASE ~token
      <4>1. call' = [call EXCEPT !.stage = "attempt"] /\ result' = result
        BY <2>3, <3>3 DEF Wake
      <4>2. call'.stage = "attempt"
        BY <1>1, <4>1 DEF Calls
      <4> QED BY <1>2, <2>1, <3>1, <4>1, <4>2
    <3> QED BY <3>2, <3>3
  <2>4. CASE StreamCancelled \/ JsonArrives \/ BodyBreaks
    <3>1. assembly' = assembly
      BY <2>4 DEF StreamCancelled, JsonArrives, BodyBreaks
    <3>2. CASE StreamCancelled
      <4>1. Return("cancelled")
        BY <3>2 DEF StreamCancelled
      <4> QED BY <1>3, <2>1, <3>1, <4>1
    <3>3. CASE JsonArrives
      <4>1. PICK kind \in {"inline", "malformed"} : Return(kind)
        BY <3>3 DEF JsonArrives
      <4> QED BY <1>3, <2>1, <3>1, <4>1
    <3>4. CASE BodyBreaks
      <4>1. Return(IF call.stage = "stream" THEN "transport" ELSE "malformed")
        BY <3>4 DEF BodyBreaks
      <4> QED BY <1>3, <2>1, <3>1, <4>1
    <3> QED BY <2>4, <3>2, <3>3, <3>4
  <2>5. CASE Elapse \/ CancelRound
    <3>1. UNCHANGED <<call, reply, assembly, result>>
      BY <2>5 DEF Elapse, CancelRound
    <3> QED BY <1>2, <2>1, <3>1
  <2> QED BY <1>9, <2>2, <2>3, <2>4, <2>5
<1> QED BY <1>5, <1>6, <1>7, <1>8, <1>9 DEF ProviderNext, Drive

(* Only transient refusals are repeated and an answer is whole (ProviderClientCorrect): for every
   number of attempts, every deadline, and every set of streams however they are cut. *)
THEOREM ProviderSafety == ProviderSpec => []ProviderClientCorrect
<1>1. ProviderInv /\ UNCHANGED providerVars => ProviderInv'
  <2> SUFFICES ASSUME ProviderInv, UNCHANGED providerVars PROVE ProviderInv'
    OBVIOUS
  <2>1. UNCHANGED <<call, clock, token, fates, reply, assembly, result>>
    BY DEF providerVars
  <2>2. RequestsFit'
    BY <2>1 DEF ProviderInv, RequestsFit, ProviderTypeOK, RepeatsFit, FallbackFits
  <2> QED BY <2>1, <2>2, ReadingStays DEF ProviderInv
<1>2. ProviderInv => ProviderClientCorrect
  <2> SUFFICES ASSUME ProviderInv PROVE ProviderClientCorrect
    OBVIOUS
  <2>1. fates \in Seq(Fates) /\ call.attempt \in Nat
    BY ProviderAssumption DEF ProviderInv, RequestsFit, ProviderTypeOK
  <2>2. \A i \in 1..(Len(fates) - 1) : fates[i] = "streamless" => i = Len(fates) - 1
    <3> SUFFICES ASSUME NEW i \in 1..(Len(fates) - 1), fates[i] = "streamless"
                 PROVE  i = Len(fates) - 1
      OBVIOUS
    <3>1. i \in 1..Len(fates)
      BY <2>1
    <3>2. i = call.attempt
      BY <3>1 DEF ProviderInv, RequestsFit, FallbackFits, GivenUp
    <3>3. Len(fates) \in {call.attempt, call.attempt + 1}
      BY DEF ProviderInv, RequestsFit
    <3> QED BY <2>1, <3>2, <3>3
  <2>3. OnlyTransientRepeats
    BY <2>2 DEF ProviderInv, RequestsFit, RepeatsFit, Transient, OnlyTransientRepeats
  <2> QED BY <2>3 DEF ProviderInv, RequestsFit, ReadingFits, ProviderClientCorrect
<1> QED BY <1>1, <1>2, ProviderStarts, ProviderSteps, PTL DEF ProviderSpec

-----------------------------------------------------------------------------
(* The controls of the terminal UI *)

HostedStates == [exists : BOOLEAN, life : {"ready", "running"}, model : Models, rev : Nat]

Locks == [id : Nat, model : Models, chat : Chats]

Panels == [open : BOOLEAN, chat : Chats, view : HostedStates,
           overlay : {"none", "palette", "sessions", "models"}, line : Line, draft : Models,
           lock : Locks, pending : {"none"} \cup Chats, next : Nat]

Asks == [kind : {"switch", "start", "follow", "fork"}, id : Nat, chat : Chats, model : Models,
         rev : Nat]

(* A model read at a revision is the session's as long as the revision is. *)
UpToDate(c, model, rev) ==
    /\ rev <= hosted[c].rev
    /\ rev = hosted[c].rev => model = hosted[c].model

(* What is waited for belongs to the session in view, or to the one it was forked from. *)
Near(p, c) == p.chat = c \/ (p.chat = "fork" /\ c = "first")

PanelFits(p) ==
    /\ p \in Panels
    /\ p.open => hosted[p.chat].exists /\ UpToDate(p.chat, p.view.model, p.view.rev)
    /\ ~p.open => p.chat = "first"
    /\ p.lock.id # 0 => p.open /\ p.pending = "none" /\ Near(p, p.lock.chat)
    /\ p.pending # "none" => IF p.open THEN Near(p, p.pending) ELSE p.pending = "first"
    /\ p.lock.id # 0 \/ p.pending # "none" => p.overlay \in {"none", "palette"}

AskFits(r) ==
    /\ r \in Asks
    /\ r.kind = "follow" => UpToDate(r.chat, r.model, r.rev)

ControlsInv ==
    /\ hosted \in [Chats -> HostedStates]
    /\ PanelFits(panel)
    /\ \A r \in asked : AskFits(r)
    /\ RunsWithShownModel

(* Every change of a session moves its revision, so what was read before is known to be
   old. *)
LEMMA HostedMoves ==
    ASSUME ControlsInv, NEW c \in Chats, NEW life \in {"ready", "running"}, NEW m \in Models,
           Revised(c, life, m), panel' = panel, asked' \subseteq asked, RunsWithShownModel'
    PROVE  ControlsInv'
<1> DEFINE h == [exists |-> TRUE, life |-> life, model |-> m, rev |-> hosted[c].rev + 1]
<1>1. /\ hosted \in [Chats -> HostedStates] /\ hosted' = [hosted EXCEPT ![c] = h]
      /\ hosted[c].rev \in Nat
  BY DEF ControlsInv, Revised, HostedStates
<1>2. h \in HostedStates /\ h.exists /\ hosted[c].rev < h.rev
  BY <1>1 DEF HostedStates
<1> HIDE DEF h
<1>3. /\ hosted' \in [Chats -> HostedStates]
      /\ \A d \in Chats : /\ hosted'[d] = hosted[d] \/ hosted[d].rev < hosted'[d].rev
                          /\ hosted[d].exists => hosted'[d].exists
  BY <1>1, <1>2
<1>4. \A d \in Chats : hosted[d].rev \in Nat /\ hosted'[d].rev \in Nat
  BY <1>1, <1>3 DEF HostedStates
<1>5. ASSUME NEW d \in Chats, NEW model, NEW rev \in Nat, UpToDate(d, model, rev)
      PROVE  UpToDate(d, model, rev)'
  BY <1>3, <1>4, <1>5 DEF UpToDate
<1>6. PanelFits(panel)'
  <2>1. panel.chat \in Chats /\ panel.view.rev \in Nat
    BY DEF ControlsInv, PanelFits, Panels, HostedStates
  <2> QED BY <1>3, <1>5, <2>1 DEF ControlsInv, PanelFits, Near
<1>7. \A r \in asked' : AskFits(r)'
  BY <1>5 DEF ControlsInv, AskFits, Asks
<1> QED BY <1>3, <1>6, <1>7 DEF ControlsInv

(* Where the sessions stay, only the panel and the new requests are to be looked at. *)
LEMMA PanelMoves ==
    ASSUME ControlsInv, hosted' = hosted, ran' = ran, PanelFits(panel'),
           \A r \in asked' \ asked : AskFits(r)
    PROVE  ControlsInv'
<1>1. PanelFits(panel)' /\ \A r \in asked' : AskFits(r)'
  BY DEF ControlsInv, PanelFits, AskFits, UpToDate, Near
<1> QED BY <1>1 DEF ControlsInv, RunsWithShownModel

(* A session that is opened with what waits near it fits. *)
LEMMA PanelOpenedFits ==
    ASSUME ControlsInv, NEW p, PanelFits(p), NEW c \in Chats, hosted[c].exists,
           p.lock.id # 0 => c = "fork" \/ p.lock.chat = c,
           p.pending # "none" => c = "fork" \/ p.pending = c
    PROVE  /\ PanelFits(InSession(p, c)) /\ InSession(p, c).open /\ InSession(p, c).chat = c
           /\ InSession(p, c).line = p.line
           /\ InSession(p, c).lock \in {p.lock, NoLock}
<1> DEFINE over == IF p.overlay = "models" THEN p.overlay ELSE "none"
           q == [p EXCEPT !.open = TRUE, !.chat = c, !.view = hosted[c], !.overlay = over]
<1>1. /\ q \in Panels /\ q.lock = p.lock /\ q.view = hosted[c] /\ q.chat = c /\ q.open
      /\ q.pending = p.pending /\ q.line = p.line /\ q.overlay = over
  BY DEF PanelFits, Panels, ControlsInv
<1>2. LockAfter(q) \in {p.lock, NoLock} /\ PendingAfter(q) \in {p.pending, "none"}
  BY <1>1 DEF LockAfter, PendingAfter
<1>3. NoLock \in Locks /\ NoLock.id = 0
  BY ControlsAssumption DEF NoLock, Locks, Chats
<1>4. p.lock \in Locks /\ p.pending \in {"none"} \cup Chats
  BY DEF PanelFits, Panels
<1>5. InSession(p, c) = [q EXCEPT !.lock = LockAfter(q), !.pending = PendingAfter(q)]
  BY DEF InSession
<1> HIDE DEF q, over, NoLock
<1> DEFINE lock == LockAfter(q)
           wait == PendingAfter(q)
<1>9. lock \in Locks /\ wait \in {"none"} \cup Chats
  BY <1>2, <1>3, <1>4
<1> HIDE DEF lock, wait
<1>6. /\ InSession(p, c) \in Panels /\ InSession(p, c).lock = LockAfter(q)
      /\ InSession(p, c).pending = PendingAfter(q)
      /\ InSession(p, c).open /\ InSession(p, c).chat = c /\ InSession(p, c).view = hosted[c]
      /\ InSession(p, c).overlay = over /\ InSession(p, c).line = p.line
  <2>1. InSession(p, c) = [q EXCEPT !.lock = lock, !.pending = wait]
    BY <1>5 DEF lock, wait
  <2>2. /\ InSession(p, c) \in Panels /\ InSession(p, c).lock = lock /\ InSession(p, c).pending = wait
        /\ InSession(p, c).open = q.open /\ InSession(p, c).chat = q.chat
        /\ InSession(p, c).view = q.view /\ InSession(p, c).overlay = q.overlay
        /\ InSession(p, c).line = q.line
    <3>1. q \in Panels
      BY <1>1
    <3>2. InSession(p, c) \in Panels
      BY <1>9, <2>1, <3>1 DEF Panels
    <3> QED BY <2>1, <3>1, <3>2 DEF Panels
  <2> QED BY <1>1, <2>2 DEF lock, wait
<1>7. UpToDate(c, hosted[c].model, hosted[c].rev)
  BY DEF UpToDate, ControlsInv, HostedStates
<1>8. /\ p.lock.id # 0 => p.pending = "none" /\ p.lock.chat \in Chats
      /\ p.lock.id # 0 \/ p.pending # "none" => over = "none"
  BY <1>4 DEF PanelFits, Locks, over
<1> QED BY <1>2, <1>3, <1>4, <1>6, <1>7, <1>8 DEF PanelFits, Near, Chats

(* A panel that is reloaded fits the sessions. *)
LEMMA ReloadedFits ==
    ASSUME ControlsInv, NEW p, PanelFits(p)
    PROVE  PanelFits(Reloaded(p))
<1>1. CASE p.open
  <2> DEFINE q == [p EXCEPT !.view = hosted[p.chat]]
  <2>1. Reloaded(p) = InSession(p, p.chat) /\ p.chat \in Chats /\ hosted[p.chat].exists
    BY <1>1 DEF Reloaded, PanelFits, Panels
  <2>2. /\ p.lock.id # 0 => p.chat = "fork" \/ p.lock.chat = p.chat
        /\ p.pending # "none" => p.chat = "fork" \/ p.pending = p.chat
    BY <1>1 DEF PanelFits, Near
  <2> QED BY <2>1, <2>2, PanelOpenedFits
<1>2. CASE ~p.open /\ p.pending # "none" /\ hosted["first"].exists
  <2> DEFINE q == InSession(p, "first")
  <2>1. p.lock.id = 0 /\ p.pending = "first" /\ "first" \in Chats
    BY <1>2 DEF PanelFits, Chats
  <2>2. PanelFits(q) /\ q.open /\ q.lock.id = 0
    BY <1>2, <2>1, PanelOpenedFits DEF NoLock
  <2>3. Reloaded(p) = [q EXCEPT !.overlay = p.overlay]
    BY <1>2 DEF Reloaded
  <2>4. p.overlay \in {"none", "palette"}
    BY <1>2 DEF PanelFits
  <2> HIDE DEF q
  <2> QED BY <2>2, <2>3, <2>4 DEF PanelFits, Panels, Near
<1>3. CASE ~p.open /\ ~(p.pending # "none" /\ hosted["first"].exists)
  BY <1>3 DEF Reloaded
<1> QED BY <1>1, <1>2, <1>3

(* A command of the menus leaves the session only when nothing is under way. *)
LEMMA DispatchedFits ==
    ASSUME ControlsInv, NEW p, PanelFits(p), NEW name PROVE PanelFits(Dispatched(p, name))
<1>1. CASE ~Available(p)
  BY <1>1 DEF Dispatched
<1>2. CASE Available(p) /\ name = "new"
  <2>1. Dispatched(p, name) = [p EXCEPT !.open = FALSE, !.chat = "first", !.view = NothingOpen,
                                        !.draft = DefaultModel]
    BY <1>2 DEF Dispatched
  <2>2. NothingOpen \in HostedStates /\ "first" \in Chats
    BY ControlsAssumption DEF NothingOpen, HostedStates, Chats
  <2> HIDE DEF NothingOpen
  <2> QED BY <1>2, <2>1, <2>2, ControlsAssumption DEF PanelFits, Panels, Available
<1>3. CASE Available(p) /\ name = "sessions"
  <2>1. Dispatched(p, name) = [p EXCEPT !.overlay = "sessions"]
    BY <1>3 DEF Dispatched
  <2> QED BY <1>3, <2>1 DEF PanelFits, Panels, Available
<1>4. CASE Available(p) /\ name = "model"
  <2>1. Dispatched(p, name) = [p EXCEPT !.overlay = "models"]
    BY <1>4 DEF Dispatched
  <2> QED BY <1>4, <2>1 DEF PanelFits, Panels, Available
<1>5. CASE Available(p) /\ name \notin {"new", "sessions", "model"}
  BY <1>5 DEF Dispatched
<1> QED BY <1>1, <1>2, <1>3, <1>4, <1>5

(* So does /fork, which only asks. *)
LEMMA DispatchKeeps ==
    ASSUME ControlsInv, NEW p, PanelFits(p), NEW name, Dispatch(p, name) PROVE ControlsInv'
<1>1. CASE name = "fork" /\ Available(p) /\ p.open
  <2> DEFINE ask == [kind |-> "fork", id |-> 0, chat |-> p.chat, model |-> DefaultModel,
                     rev |-> 0]
  <2>1. panel' = p /\ asked' = asked \cup {ask} /\ hosted' = hosted /\ ran' = ran
    BY <1>1 DEF Dispatch
  <2>2. AskFits(ask)
    BY ControlsAssumption DEF AskFits, Asks, PanelFits, Panels
  <2> HIDE DEF ask
  <2> QED BY <2>1, <2>2, PanelMoves
<1>2. CASE ~(name = "fork" /\ Available(p) /\ p.open)
  <2>1. Only(Dispatched(p, name))
    BY <1>2 DEF Dispatch
  <2> QED BY <2>1, DispatchedFits, PanelMoves DEF Only
<1> QED BY <1>1, <1>2

(* The keys of the user keep the invariant of the controls. *)
LEMMA KeysKeep ==
    ASSUME ControlsInv, ControlsKeys PROVE ControlsInv'
<1>1. PanelFits(panel) /\ panel \in Panels /\ hosted \in [Chats -> HostedStates]
  BY DEF ControlsInv, PanelFits
<1>2. ASSUME NEW p, PanelFits(p), Only(p) PROVE ControlsInv'
  <2>1. hosted' = hosted /\ ran' = ran /\ panel' = p /\ asked' = asked
    BY <1>2 DEF Only
  <2> QED BY <1>2, <2>1, PanelMoves
<1>3. ASSUME NEW line \in Line PROVE PanelFits([panel EXCEPT !.line = line])
  BY <1>1 DEF PanelFits, Panels, Near
<1>4. ASSUME NEW o \in {"none", "palette"} PROVE PanelFits([panel EXCEPT !.overlay = o])
  BY <1>1 DEF PanelFits, Panels, Near
<1>5. "empty" \in Line /\ "slash" \in Line /\ panel.line \in Line
  BY <1>1 DEF Line, Panels
<1>6. CASE TypeLine
  <2>1. PICK line \in Line : Only([panel EXCEPT !.line = line])
    BY <1>6 DEF TypeLine
  <2> QED BY <1>2, <1>3, <2>1
<1>7. CASE EraseLine
  <2>1. Only([panel EXCEPT !.line = "empty"])
    BY <1>7 DEF EraseLine
  <2> QED BY <1>2, <1>3, <1>5, <2>1
<1>8. CASE PopupEnter \/ SubmitCommand
  <2>1. PICK name : Dispatch([panel EXCEPT !.line = LineAfter(panel, name)], name)
    BY <1>8 DEF PopupEnter, SubmitCommand
  <2>2. LineAfter(panel, name) \in Line
    BY <1>5 DEF LineAfter
  <2>3. PanelFits([panel EXCEPT !.line = LineAfter(panel, name)])
    BY <1>3, <2>2
  <2> QED BY <2>1, <2>3, DispatchKeeps
<1>9. CASE PopupDismiss
  <2>1. Only([panel EXCEPT !.line = "slash"])
    BY <1>9 DEF PopupDismiss
  <2> QED BY <1>2, <1>3, <1>5, <2>1
<1>10. CASE OpenPalette
  <2>1. Only([panel EXCEPT !.overlay = "palette"])
    BY <1>10 DEF OpenPalette
  <2> QED BY <1>2, <1>4, <2>1
<1>11. CASE PaletteEnter
  <2>1. PICK name : Dispatch([panel EXCEPT !.overlay = "none"], name)
    BY <1>11 DEF PaletteEnter
  <2>2. PanelFits([panel EXCEPT !.overlay = "none"])
    BY <1>4
  <2> QED BY <2>1, <2>2, DispatchKeeps
<1>12. CASE CloseOverlay
  <2>1. Only([panel EXCEPT !.overlay = "none"])
    BY <1>12 DEF CloseOverlay
  <2> QED BY <1>2, <1>4, <2>1
<1>13. CASE PickSession
  <2>1. PICK c \in Chats : hosted[c].exists /\ Only(InSession(panel, c))
    BY <1>13 DEF PickSession
  <2>2. panel.lock.id = 0 /\ panel.pending = "none"
    BY <1>1, <1>13 DEF PickSession, PanelFits
  <2>3. PanelFits(InSession(panel, c))
    BY <1>1, <2>1, <2>2, PanelOpenedFits
  <2> QED BY <1>2, <2>1, <2>3
<1>14. CASE PickModel
  <2>0. panel.lock.id = 0 /\ panel.pending = "none"
    BY <1>1, <1>14 DEF PickModel, PanelFits
  <2>1. CASE ~panel.open
    <3>1. PICK m \in Models : Only([panel EXCEPT !.overlay = "none", !.draft = m])
      BY <1>14, <2>1 DEF PickModel
    <3>2. PanelFits([panel EXCEPT !.overlay = "none", !.draft = m])
      BY <1>1, <2>0, <2>1 DEF PanelFits, Panels, Near
    <3> QED BY <1>2, <3>1, <3>2
  <2>2. CASE panel.open
    <3>1. PICK m \in Models :
             IF panel.view.life # "ready" \/ panel.view.model = m
             THEN Only([panel EXCEPT !.overlay = "none"])
             ELSE /\ panel' = [panel EXCEPT !.overlay = "none", !.next = @ + 1,
                                            !.lock = [id |-> panel.next, model |-> m,
                                                      chat |-> panel.chat]]
                  /\ asked' = asked \cup {[kind |-> "switch", id |-> panel.next,
                                           chat |-> panel.chat, model |-> m,
                                           rev |-> panel.view.rev]}
                  /\ UNCHANGED <<hosted, told, stale, ran, used>>
      BY <1>14, <2>2 DEF PickModel
    <3>2. CASE panel.view.life # "ready" \/ panel.view.model = m
      BY <1>2, <1>4, <3>1, <3>2
    <3>3. CASE ~(panel.view.life # "ready" \/ panel.view.model = m)
      <4> DEFINE lock == [id |-> panel.next, model |-> m, chat |-> panel.chat]
                 p == [panel EXCEPT !.overlay = "none", !.next = panel.next + 1, !.lock = lock]
                 ask == [kind |-> "switch", id |-> panel.next, chat |-> panel.chat,
                         model |-> m, rev |-> panel.view.rev]
      <4>1. panel' = p /\ asked' = asked \cup {ask} /\ hosted' = hosted /\ ran' = ran
        BY <3>1, <3>3
      <4>2. panel.next \in Nat /\ panel.view.rev \in Nat /\ panel.chat \in Chats
        BY <1>1 DEF Panels, HostedStates
      <4>3. lock \in Locks /\ lock.chat = panel.chat /\ panel.next + 1 \in Nat
        BY <4>2 DEF Locks
      <4>4. AskFits(ask)
        BY <4>2 DEF AskFits, Asks
      <4> HIDE DEF lock, ask
      <4>5. PanelFits(p)
        BY <1>1, <2>0, <2>2, <4>3 DEF PanelFits, Panels, Near
      <4> HIDE DEF p
      <4> QED BY <4>1, <4>4, <4>5, PanelMoves
    <3> QED BY <3>2, <3>3
  <2> QED BY <2>1, <2>2, <1>1 DEF Panels
<1>15. CASE SubmitPrompt
  <2> DEFINE p == [panel EXCEPT !.line = "empty", !.pending = panel.chat]
             ask == [kind |-> IF panel.open THEN "follow" ELSE "start", id |-> 0,
                     chat |-> panel.chat, model |-> ShownModel(panel), rev |-> panel.view.rev]
  <2>1. panel' = p /\ asked' = asked \cup {ask} /\ hosted' = hosted /\ ran' = ran
    BY <1>15 DEF SubmitPrompt
  <2>2. /\ panel.lock.id = 0 /\ panel.overlay = "none" /\ panel.chat \in Chats
        /\ panel.view.rev \in Nat /\ ShownModel(panel) \in Models
    BY <1>1, <1>15 DEF SubmitPrompt, MaySubmit, Panels, HostedStates, ShownModel
  <2>3. PanelFits(p)
    BY <1>1, <1>5, <2>2 DEF PanelFits, Panels, Near
  <2>4. AskFits(ask)
    <3>1. ask \in Asks
      BY <2>2 DEF Asks
    <3>2. ask.kind = "follow" => UpToDate(ask.chat, ask.model, ask.rev)
      BY <1>1 DEF PanelFits, ShownModel
    <3> QED BY <3>1, <3>2 DEF AskFits
  <2> HIDE DEF p, ask
  <2> QED BY <2>1, <2>3, <2>4, PanelMoves
<1> QED BY <1>6, <1>7, <1>8, <1>9, <1>10, <1>11, <1>12, <1>13, <1>14, <1>15
    DEF ControlsKeys

(* The revision fence: what a follow-up was shown is what it runs with. *)
LEMMA ServeKeeps ==
    ASSUME ControlsInv, NEW r \in asked, ServeAsked(r) PROVE ControlsInv'
<1>1. /\ AskFits(r) /\ hosted \in [Chats -> HostedStates] /\ asked' \subseteq asked
      /\ panel' = panel /\ r \in Asks /\ r.chat \in Chats /\ r.model \in Models
      /\ hosted[r.chat].model \in Models /\ RunsWithShownModel
  BY DEF ControlsInv, ServeAsked, AskFits, Asks, HostedStates
<1>2. CASE RefuseAsked(r)
  <2>1. hosted' = hosted /\ ran' = ran
    BY <1>2 DEF RefuseAsked
  <2> QED BY <1>1, <2>1, PanelMoves DEF ControlsInv
<1>3. CASE Performed(r) /\ r.kind = "switch"
  <2>1. Revised(r.chat, "ready", r.model) /\ ran' = ran
    BY <1>3 DEF Performed
  <2> QED BY <1>1, <2>1, HostedMoves DEF RunsWithShownModel
<1>4. CASE Performed(r) /\ r.kind = "start"
  <2>1. /\ Revised(r.chat, "running", r.model)
        /\ ran' = ran \cup {[shown |-> r.model, with |-> r.model]}
    BY <1>4 DEF Performed
  <2> QED BY <1>1, <2>1, HostedMoves DEF RunsWithShownModel
<1>5. CASE Performed(r) /\ r.kind = "follow"
  <2>1. /\ Revised(r.chat, "running", hosted[r.chat].model) /\ r.rev = hosted[r.chat].rev
        /\ ran' = ran \cup {[shown |-> r.model, with |-> hosted[r.chat].model]}
    BY <1>5 DEF Performed, Fenced
  <2>2. r.model = hosted[r.chat].model
    BY <1>1, <1>5, <2>1 DEF AskFits, UpToDate
  <2> QED BY <1>1, <2>1, <2>2, HostedMoves DEF RunsWithShownModel
<1>6. CASE Performed(r) /\ r.kind = "fork"
  <2>1. Revised("fork", "ready", hosted[r.chat].model) /\ ran' = ran /\ "fork" \in Chats
    BY <1>6 DEF Performed, Chats
  <2> QED BY <1>1, <2>1, HostedMoves DEF RunsWithShownModel
<1> QED BY <1>1, <1>2, <1>3, <1>4, <1>5, <1>6 DEF ServeAsked, Asks

(* The end of a turn and the switch of another client keep the invariant of the controls. *)
LEMMA OthersKeep ==
    ASSUME ControlsInv, TurnIsOver \/ RivalSwitches PROVE ControlsInv'
<1>1. hosted \in [Chats -> HostedStates] /\ RunsWithShownModel
  BY DEF ControlsInv
<1>2. PICK c \in Chats, m \in Models : Revised(c, "ready", m)
  BY <1>1 DEF TurnIsOver, RivalSwitches, HostedStates
<1>3. panel' = panel /\ asked' = asked /\ RunsWithShownModel'
  BY <1>1 DEF TurnIsOver, RivalSwitches, RunsWithShownModel
<1> QED BY <1>2, <1>3, HostedMoves

(* What the UI hears, or wakes for, keeps the invariant of the controls: the fork it opens
   exists by then. *)
LEMMA LoopKeeps ==
    ASSUME ControlsInv, Wakes \/ \E a \in told : Hears(a),
           \A a \in told : a.kind = "fork" => hosted["fork"].exists
    PROVE ControlsInv'
<1>1. hosted' = hosted /\ ran' = ran /\ asked' = asked
  BY DEF Wakes, Hears
<1>2. PanelFits(panel) /\ PanelFits(Reloaded(panel))
  BY ReloadedFits DEF ControlsInv
<1>3. PanelFits([panel EXCEPT !.lock = NoLock])
  <2>1. NoLock \in Locks /\ NoLock.id = 0
    BY ControlsAssumption DEF NoLock, Locks, Chats
  <2> HIDE DEF NoLock
  <2> QED BY <1>2, <2>1 DEF PanelFits, Panels, Near
<1>4. PanelFits([Reloaded(panel) EXCEPT !.pending = "none", !.line = "prompt"])
  <2> DEFINE q == Reloaded(panel)
  <2>1. PanelFits(q)
    BY <1>2
  <2> HIDE DEF q
  <2>2. PanelFits([q EXCEPT !.pending = "none", !.line = "prompt"])
    BY <2>1 DEF PanelFits, Panels, Near, Line
  <2> QED BY <2>2 DEF q
<1>5. PanelFits(panel')
  <2>1. CASE Wakes
    BY <1>2, <2>1 DEF Wakes
  <2>2. ASSUME NEW a \in told, Hears(a), a.kind # "fork" PROVE PanelFits(panel')
    <3>1. panel' \in {panel, Reloaded(panel), [panel EXCEPT !.lock = NoLock],
                      [Reloaded(panel) EXCEPT !.pending = "none", !.line = "prompt"]}
      BY <2>2 DEF Hears
    <3> QED BY <1>2, <1>3, <1>4, <3>1
  <2>3. ASSUME NEW a \in told, Hears(a), a.kind = "fork" PROVE PanelFits(panel')
    <3>1. panel' = InSession(panel, "fork") /\ "fork" \in Chats /\ hosted["fork"].exists
      BY <2>3 DEF Hears, Chats
    <3> QED BY <1>2, <3>1, PanelOpenedFits
  <2> QED BY <2>1, <2>2, <2>3
<1> QED BY <1>1, <1>5, PanelMoves

(* The answer of a fork comes after the fork was made. *)
ForkIsMade == \A a \in told : a.kind = "fork" => hosted["fork"].exists

LEMMA ForkKeeps ==
    ASSUME ControlsInv, ForkIsMade, ControlsNext PROVE ForkIsMade'
<1>1. hosted \in [Chats -> HostedStates] /\ "fork" \in Chats
  BY DEF ControlsInv, Chats
<1>2. CASE hosted' = hosted /\ told' \subseteq told
  BY <1>2 DEF ForkIsMade
<1>3. ASSUME NEW c, NEW life, NEW m, Revised(c, life, m)
      PROVE  hosted["fork"].exists => hosted'["fork"].exists
  BY <1>1, <1>3 DEF Revised
<1>4. CASE ControlsKeys
  <2>1. hosted' = hosted /\ told' = told
    BY <1>4 DEF ControlsKeys, TypeLine, EraseLine, PopupEnter, PopupDismiss, OpenPalette,
                PaletteEnter, CloseOverlay, PickSession, PickModel, SubmitCommand,
                SubmitPrompt, Dispatch, Only
  <2> QED BY <1>2, <2>1
<1>5. CASE TurnIsOver \/ RivalSwitches
  <2>1. told' = told /\ \E c, life, m : Revised(c, life, m)
    BY <1>5 DEF TurnIsOver, RivalSwitches
  <2> QED BY <1>3, <2>1 DEF ForkIsMade
<1>6. CASE Wakes \/ \E a \in told : Hears(a)
  BY <1>2, <1>6 DEF Wakes, Hears
<1>7. ASSUME NEW r \in asked, ServeAsked(r) PROVE ForkIsMade'
  <2>1. CASE RefuseAsked(r)
    BY <2>1 DEF RefuseAsked, Reported, ForkIsMade
  <2>2. CASE Performed(r) /\ r.kind = "fork"
    <3>1. hosted'["fork"].exists
      BY <1>1, <2>2 DEF Performed, Revised
    <3> QED BY <3>1 DEF ForkIsMade
  <2>3. CASE Performed(r) /\ r.kind # "fork"
    <3>1. \E c, life, m : Revised(c, life, m)
      BY <1>7, <2>3 DEF Performed, ControlsInv, AskFits, Asks
    <3>2. \A a \in told' \ told : a.kind # "fork"
      BY <2>3 DEF Performed, Reported
    <3> QED BY <1>3, <3>1, <3>2 DEF ForkIsMade
  <2> QED BY <1>7, <2>1, <2>2, <2>3 DEF ServeAsked
<1> QED BY <1>4, <1>5, <1>6, <1>7 DEF ControlsNext

(* A prompt runs with the model that was shown for it, and only a fork takes the user away
   from what is under way (TuiControlsCorrect). *)
THEOREM ControlsSafety == ControlsSpec => []TuiControlsCorrect
<1>1. ControlsInit => ControlsInv /\ ForkIsMade
  <2> SUFFICES ASSUME ControlsInit PROVE ControlsInv /\ ForkIsMade
    OBVIOUS
  <2>1. hosted \in [Chats -> HostedStates] /\ NothingOpen \in HostedStates
    <3>1. \A b \in BOOLEAN : [NothingOpen EXCEPT !.exists = b] \in HostedStates
      BY ControlsAssumption DEF NothingOpen, HostedStates
    <3>2. NothingOpen \in HostedStates
      BY ControlsAssumption DEF NothingOpen, HostedStates
    <3> QED BY <3>1, <3>2 DEF ControlsInit
  <2>2. "empty" \in Line /\ NoLock \in Locks /\ NoLock.id = 0 /\ "first" \in Chats
    BY ControlsAssumption DEF Line, NoLock, Locks, Chats
  <2>3. PanelFits(panel)
    <3> HIDE DEF NoLock, NothingOpen
    <3> QED BY <2>1, <2>2, ControlsAssumption DEF ControlsInit, PanelFits, Panels
  <2> QED BY <2>1, <2>3 DEF ControlsInit, ControlsInv, RunsWithShownModel, ForkIsMade
<1>2. ControlsInv /\ ForkIsMade /\ [ControlsNext]_controlsVars => ControlsInv' /\ ForkIsMade'
  <2> SUFFICES ASSUME ControlsInv, ForkIsMade, [ControlsNext]_controlsVars
               PROVE  ControlsInv' /\ ForkIsMade'
    OBVIOUS
  <2>1. CASE ControlsKeys
    BY <2>1, KeysKeep, ForkKeeps DEF ControlsNext
  <2>2. CASE TurnIsOver \/ RivalSwitches
    BY <2>2, OthersKeep, ForkKeeps DEF ControlsNext
  <2>3. CASE Wakes \/ \E a \in told : Hears(a)
    BY <2>3, LoopKeeps, ForkKeeps DEF ForkIsMade, ControlsNext
  <2>4. CASE \E r \in asked : ServeAsked(r)
    BY <2>4, ServeKeeps, ForkKeeps DEF ControlsNext
  <2>5. CASE UNCHANGED controlsVars
    BY <2>5 DEF controlsVars, ControlsInv, PanelFits, Near, AskFits, UpToDate,
                RunsWithShownModel, ForkIsMade
  <2> QED BY <2>1, <2>2, <2>3, <2>4, <2>5 DEF ControlsNext
<1>3. ControlsInv => TuiControlsCorrect
  <2> SUFFICES ASSUME ControlsInv PROVE TuiControlsCorrect
    OBVIOUS
  <2> QED BY DEF ControlsInv, PanelFits, Near, TuiControlsCorrect, OnlyAForkLeaves, TakenAway
<1> QED BY <1>1, <1>2, <1>3, PTL DEF ControlsSpec

-----------------------------------------------------------------------------
(* The session in the terminal UI *)

Numbers == 0..MaxRequests
Editors == Texts \cup {NoText}
Servers == [life: Lives, req: Numbers, cards: Seq(Texts),
            answered: SUBSET (1..MaxRequests), queue: Seq(Texts)]
Drafts == [composer: Editors, deferred: Editors, pending: Pending, failed: BOOLEAN]
Forms == [input: Numbers, target: Numbers, answer: Numbers, value: Numbers, failed: BOOLEAN]
UIs == [conv: {"draft", "open", "fork"}, view: View, connection: {"connected", "disconnected"},
        draft: Drafts, form: Forms, rendered: Numbers, confirm: Numbers,
        nextId: 1..(MaxSubmissions + 1)]

Feedback == [kind: {"assigned", "ok", "error", "answer_error", "forked"}, id: Nat]
TypedSets == [all: SUBSET Texts, submitted: SUBSET Texts, forked: BOOLEAN]

(* A stop of the server for the user has a number. *)
ServerFits(s) ==
    /\ s \in Servers
    /\ s.life \in {"permission", "input"} => s.req # 0

(* A view is of the session as it was. *)
ViewFits(v, s) ==
    /\ v.life \in {"permission", "input"} => v.req # 0
    /\ v.life = "input" => s.life # "absent"
    /\ Len(v.cards) <= Len(s.cards)
    /\ \A i \in 1..Len(v.cards) : v.cards[i] = s.cards[i]

Carded(t, s) == \E i \in 1..Len(s.cards) : s.cards[i] = t

(* What was submitted has its card, or is what is pending; if nothing is, it is what the
   composer holds. *)
DraftFits(d, s, sub) ==
    /\ d.pending.id = 0 <=> d.pending.text = NoText
    /\ \A t \in sub :
          Carded(t, s) \/ t = IF d.pending.id # 0 THEN d.pending.text ELSE d.composer

(* The input form has been used. *)
Started(f) == f.input # 0 \/ f.answer # 0 \/ f.target # 0

(* What the form holds belongs to its target, and an answer to its request. *)
FormHolds(f) ==
    /\ f.answer = 0 /\ f.input # 0 /\ f.target # 0 => f.input = f.target
    /\ f.answer # 0 => f.value = f.answer /\ f.input = 0

(* No session is still to be opened once the form has been used. *)
FormFits(u, s) ==
    /\ FormHolds(u.form)
    /\ Started(u.form) =>
          s.life # "absent" /\ (u.conv = "draft" => u.draft.pending.id = 0)

(* What the form holds is for the request in view. *)
AtRequest(u) ==
    Life(u) = "input" /\ u.form.answer = 0 =>
        u.form.input \in {0, u.view.req} /\ u.form.target \in {0, u.view.req}

Fits(u, s, sub, fr) ==
    /\ u \in UIs
    /\ u.draft.pending.id < u.nextId
    /\ ViewFits(u.view, s)
    /\ DraftFits(u.draft, s, sub)
    /\ FormFits(u, s)
    /\ u.rendered \in fr \cup {0}

UiFits(u, s, sub, fr) == Fits(u, s, sub, fr) /\ AtRequest(u)

TuiInv ==
    /\ ServerFits(server)
    /\ UiFits(ui, server, typed.submitted, frame)
    /\ loop \in {"tick", "key", "exited"}
    /\ wake \in {"none", "changed", "closed"}
    /\ feedback \in Seq(Feedback)
    /\ \A i \in 1..Len(feedback) : feedback[i].kind = "assigned" => feedback[i].id # 0
    /\ requests \subseteq UiRequest
    /\ AnswerFitsQuestion
    /\ frame \subseteq 1..MaxRequests
    /\ typed \in TypedSets

(* A form that waits for no answer, field by field. *)
LEMMA IdleForm ==
    ASSUME NEW f \in Forms, NEW no
    PROVE  LET idle == [f EXCEPT !.answer = 0, !.value = 0, !.failed = no] IN
           /\ idle = [input |-> f.input, target |-> f.target, answer |-> 0, value |-> 0,
                      failed |-> no]
           /\ [idle EXCEPT !.input = 0] =
                  [input |-> 0, target |-> f.target, answer |-> 0, value |-> 0, failed |-> no]
           /\ [idle EXCEPT !.input = f.value, !.target = f.answer] =
                  [input |-> f.value, target |-> f.answer, answer |-> 0, value |-> 0,
                   failed |-> no]
<1> DEFINE a == [f EXCEPT !.answer = 0]
           b == [a EXCEPT !.value = 0]
           c == [b EXCEPT !.failed = no]
           d == [c EXCEPT !.input = f.value]
<1>1. a = [input |-> f.input, target |-> f.target, answer |-> 0, value |-> f.value,
           failed |-> f.failed]
  BY DEF Forms
<1>2. b = [input |-> f.input, target |-> f.target, answer |-> 0, value |-> 0,
           failed |-> f.failed]
  <2> HIDE DEF a
  <2> QED BY <1>1
<1>3. c = [input |-> f.input, target |-> f.target, answer |-> 0, value |-> 0,
           failed |-> no]
  <2> HIDE DEF b
  <2> QED BY <1>2
<1>4. [c EXCEPT !.input = 0] =
         [input |-> 0, target |-> f.target, answer |-> 0, value |-> 0, failed |-> no]
  <2> HIDE DEF c
  <2> QED BY <1>3
<1>5. d = [input |-> f.value, target |-> f.target, answer |-> 0, value |-> 0,
           failed |-> no]
  <2> HIDE DEF c
  <2> QED BY <1>3
<1>6. [d EXCEPT !.target = f.answer] =
         [input |-> f.value, target |-> f.answer, answer |-> 0, value |-> 0, failed |-> no]
  <2> HIDE DEF d
  <2> QED BY <1>5
<1> QED BY <1>3, <1>4, <1>6, Zenon

(* The form after a change of the view is for the request in view. *)
LEMMA FormAfterFits ==
    ASSUME NEW u \in UIs, FormHolds(u.form)
    PROVE  /\ FormAfter(u) \in Forms /\ FormHolds(FormAfter(u))
           /\ FormAfter(u).answer = 0 => FormAfter(u).target = Target(u)
           /\ Started(FormAfter(u)) => Started(u.form) \/ Target(u) # 0
<1> DEFINE f == u.form
           t == Target(u)
<1>1. /\ f \in Forms /\ t \in Numbers /\ u.view \in View /\ 0 \in Numbers
  BY TuiAssumption DEF UIs, Target, View, Numbers
<1>2. ASSUME NEW g \in Forms, g.answer = 0, FormHolds(g), Started(g) => Started(f)
      PROVE  /\ SynchronizedInput(g, t) \in Forms /\ FormHolds(SynchronizedInput(g, t))
             /\ SynchronizedInput(g, t).answer = 0 => SynchronizedInput(g, t).target = t
             /\ Started(SynchronizedInput(g, t)) => Started(f) \/ t # 0
  <2> HIDE DEF f, t
  <2>1. CASE g.target = t
    BY <1>2, <2>1 DEF SynchronizedInput
  <2>2. CASE g.target # t
    <3>1. SynchronizedInput(g, t) = [input |-> 0, target |-> t, answer |-> 0,
                                     value |-> g.value, failed |-> g.failed]
      BY <1>1, <1>2, <2>2 DEF SynchronizedInput, Forms
    <3> QED BY <1>1, <1>2, <3>1 DEF FormHolds, Started, Forms
  <2> QED BY <2>1, <2>2
<1>4. CASE f.answer = 0
  <2>1. FormAfter(u) = SynchronizedInput(f, t)
    BY <1>4 DEF FormAfter
  <2>2. FormHolds(f)
    OBVIOUS
  <2> HIDE DEF f, t
  <2> QED BY <1>1, <1>2, <1>4, <2>1, <2>2 DEF f, t
<1>5. CASE f.answer # 0 /\ f.answer \in u.view.answered
  <2> DEFINE g == [input |-> 0, target |-> f.target, answer |-> 0, value |-> 0,
                   failed |-> FALSE]
  <2>1. FormAfter(u) = SynchronizedInput(g, t)
    BY <1>1, <1>5, IdleForm DEF FormAfter
  <2>2. g \in Forms /\ g.answer = 0 /\ FormHolds(g) /\ (Started(g) => Started(f))
    BY <1>1 DEF FormHolds, Started, Forms
  <2> HIDE DEF g, f, t
  <2> QED BY <1>2, <2>1, <2>2 DEF f, t
<1>6. CASE f.answer # 0 /\ f.answer \notin u.view.answered /\ f.failed
  <2> DEFINE g == [input |-> f.value, target |-> f.answer, answer |-> 0, value |-> 0,
                   failed |-> FALSE]
  <2>1. FormAfter(u) = SynchronizedInput(g, t)
    BY <1>1, <1>6, IdleForm DEF FormAfter
  <2>2. g \in Forms /\ g.answer = 0 /\ FormHolds(g) /\ (Started(g) => Started(f))
    BY <1>1, <1>6 DEF FormHolds, Started, Forms
  <2> HIDE DEF g, f, t
  <2> QED BY <1>2, <2>1, <2>2 DEF f, t
<1>7. CASE f.answer # 0 /\ f.answer \notin u.view.answered /\ ~f.failed
  <2>1. FormAfter(u) = f
    BY <1>7 DEF FormAfter
  <2> QED BY <1>1, <1>7, <2>1
<1> QED BY <1>1, <1>4, <1>5, <1>6, <1>7 DEF Forms

(* Whatever becomes of the pending prompt, what was submitted is kept. *)
LEMMA DraftAfterFits ==
    ASSUME NEW s \in Servers, NEW sub, NEW u \in UIs, ViewFits(u.view, s),
           DraftFits(u.draft, s, sub)
    PROVE  /\ DraftAfter(u) \in Drafts /\ DraftFits(DraftAfter(u), s, sub)
           /\ DraftAfter(u).pending.id \in {0, u.draft.pending.id}
<1>1. /\ u.draft \in Drafts /\ NoPending \in Pending /\ NoText \in Editors
      /\ u.draft.pending \in Pending
  BY TuiAssumption DEF UIs, Drafts, NoPending, Pending, Editors
<1>2. CASE IsDurable(u)
  <2>1. DraftAfter(u) = DurableDraft(u.draft)
    BY <1>2 DEF DraftAfter
  <2>2. u.draft.pending.id # 0 /\ Carded(u.draft.pending.text, s)
    <3>1. PICK i \in DOMAIN u.view.cards : u.view.cards[i] = u.draft.pending.text
      BY <1>2 DEF IsDurable
    <3>2. /\ i \in 1..Len(u.view.cards) /\ Len(u.view.cards) \in Nat /\ Len(s.cards) \in Nat
      BY DEF UIs, View, Servers
    <3>3. i \in 1..Len(s.cards) /\ s.cards[i] = u.draft.pending.text
      BY <3>1, <3>2 DEF ViewFits
    <3> QED BY <1>2, <3>3 DEF IsDurable, Carded
  <2>3. /\ DurableDraft(u.draft) \in Drafts /\ DurableDraft(u.draft).pending = NoPending
    BY <1>1 DEF DurableDraft, Drafts
  <2>4. \A t \in sub : Carded(t, s)
    BY <2>2 DEF DraftFits
  <2> QED BY <2>1, <2>3, <2>4 DEF DraftFits, NoPending
<1>3. CASE ~IsDurable(u) /\ u.draft.failed /\ u.draft.pending.id # 0
  <2>1. DraftAfter(u) = RestoredDraft(u.draft)
    BY <1>3 DEF DraftAfter
  <2>2. /\ RestoredDraft(u.draft) \in Drafts /\ RestoredDraft(u.draft).pending = NoPending
        /\ RestoredDraft(u.draft).composer = u.draft.pending.text
    BY <1>1 DEF RestoredDraft, Drafts, Pending, Editors
  <2> QED BY <1>3, <2>1, <2>2 DEF DraftFits, NoPending
<1>4. CASE ~IsDurable(u) /\ ~(u.draft.failed /\ u.draft.pending.id # 0)
  <2>1. DraftAfter(u) = u.draft
    BY <1>4 DEF DraftAfter
  <2> QED BY <1>1, <2>1
<1> QED BY <1>2, <1>3, <1>4
(* The UI that is given field by field. *)
LEMMA UiOf ==
    ASSUME NEW conv \in {"draft", "open", "fork"}, NEW view \in View,
           NEW connection \in {"connected", "disconnected"}, NEW draft \in Drafts,
           NEW form \in Forms, NEW rendered \in Numbers, NEW confirm \in Numbers,
           NEW nextId \in 1..(MaxSubmissions + 1), NEW v,
           v = [conv |-> conv, view |-> view, connection |-> connection, draft |-> draft,
                form |-> form, rendered |-> rendered, confirm |-> confirm, nextId |-> nextId]
    PROVE  /\ v \in UIs /\ v.conv = conv /\ v.view = view /\ v.connection = connection
           /\ v.draft = draft /\ v.form = form /\ v.rendered = rendered
           /\ v.confirm = confirm /\ v.nextId = nextId
<1>1. v \in UIs
  BY Zenon DEF UIs
<1>2. /\ v.conv = conv /\ v.view = view /\ v.connection = connection
      /\ v.draft = draft /\ v.form = form /\ v.rendered = rendered
      /\ v.confirm = confirm /\ v.nextId = nextId
  OBVIOUS
<1> QED BY <1>1, <1>2

(* What Synchronized replaces: the draft and the form. *)
LEMMA SynchronizedIs ==
    ASSUME NEW u \in UIs, DraftAfter(u) \in Drafts, FormAfter(u) \in Forms
    PROVE  LET v == Synchronized(u) IN
           /\ v \in UIs /\ v.draft = DraftAfter(u) /\ v.form = FormAfter(u)
           /\ v.conv = u.conv /\ v.view = u.view /\ v.rendered = u.rendered
           /\ v.nextId = u.nextId
<1> DEFINE d == DraftAfter(u)
           f == FormAfter(u)
           a == [u EXCEPT !.draft = d]
           v == [a EXCEPT !.form = f]
<1> HIDE DEF d, f
<1>1. a = [conv |-> u.conv, view |-> u.view, connection |-> u.connection, draft |-> d,
           form |-> u.form, rendered |-> u.rendered, confirm |-> u.confirm, nextId |-> u.nextId]
  BY DEF UIs
<1>2. v = [conv |-> u.conv, view |-> u.view, connection |-> u.connection, draft |-> d,
           form |-> f, rendered |-> u.rendered, confirm |-> u.confirm, nextId |-> u.nextId]
  <2> HIDE DEF a
  <2> QED BY <1>1
<1>3. Synchronized(u) = v
  BY DEF Synchronized, d, f
<1> HIDE DEF v
<1>4. v \in UIs
  BY <1>2 DEF UIs, d, f
<1> QED BY <1>2, <1>3, <1>4 DEF d, f

(* Whatever has been read, the UI that has taken it in fits. *)
LEMMA SynchronizedFits ==
    ASSUME NEW s \in Servers, NEW sub, NEW fr, NEW u, Fits(u, s, sub, fr),
           Target(u) # 0 => s.life # "absent"
    PROVE  UiFits(Synchronized(u), s, sub, fr)
<1> DEFINE v == Synchronized(u)
           d == DraftAfter(u)
           f == FormAfter(u)
<1>1. /\ u \in UIs /\ FormHolds(u.form) /\ ViewFits(u.view, s) /\ DraftFits(u.draft, s, sub)
      /\ u.conv \in {"draft", "open", "fork"} /\ u.draft \in Drafts /\ u.nextId \in Nat /\ 0 < u.nextId
      /\ u.draft.pending.id \in Nat
  BY TuiAssumption DEF Fits, FormFits, UIs, Drafts, Pending
<1>2. /\ f \in Forms /\ FormHolds(f) /\ (f.answer = 0 => f.target = Target(u))
      /\ Started(f) => Started(u.form) \/ Target(u) # 0
  BY <1>1, FormAfterFits
<1>3. d \in Drafts /\ DraftFits(d, s, sub) /\ d.pending.id \in {0, u.draft.pending.id}
  BY <1>1, DraftAfterFits
<1>4. /\ v \in UIs /\ v.draft = d /\ v.form = f /\ v.conv = u.conv /\ v.view = u.view
      /\ v.rendered = u.rendered /\ v.nextId = u.nextId
  BY <1>1, <1>2, <1>3, SynchronizedIs
<1> HIDE DEF v, d, f
<1>5. v.draft.pending.id < v.nextId
  BY <1>1, <1>3, <1>4 DEF Fits
<1>6. FormFits(v, s)
  <2>1. Target(u) # 0 => u.conv # "draft"
    BY DEF Target, Life
  <2>2. Started(f) => s.life # "absent"
    BY <1>2 DEF Fits, FormFits
  <2>3. Started(f) /\ v.conv = "draft" => v.draft.pending.id = 0
    BY <1>2, <1>3, <1>4, <2>1 DEF Fits, FormFits
  <2> QED BY <1>2, <1>4, <2>2, <2>3 DEF FormFits
<1>7. AtRequest(v)
  <2> SUFFICES ASSUME Life(v) = "input", f.answer = 0
               PROVE  f.input \in {0, v.view.req} /\ f.target \in {0, v.view.req}
    BY <1>4 DEF AtRequest
  <2>1. Target(u) = v.view.req /\ v.view.req # 0
    BY <1>1, <1>4 DEF Target, Life, ViewFits
  <2> QED BY <1>2, <2>1 DEF FormHolds
<1>8. Fits(v, s, sub, fr)
  BY <1>1, <1>3, <1>4, <1>5, <1>6 DEF Fits
<1> QED BY <1>7, <1>8 DEF UiFits, v

(* What is read of the session is a view of it. *)
LEMMA ViewOfFits ==
    ASSUME NEW s, ServerFits(s)
    PROVE  ViewOf(s) \in View /\ ViewFits(ViewOf(s), s)
<1>1. s \in Servers /\ Len(s.cards) \in Nat
  BY DEF ServerFits, Servers
<1>2. ViewOf(s) \in View
  BY <1>1 DEF ViewOf, View, Servers, Numbers
<1>3. ViewOf(s).cards = s.cards /\ ViewOf(s).life = s.life /\ ViewOf(s).req = s.req
  BY DEF ViewOf
<1> QED BY <1>1, <1>2, <1>3 DEF ServerFits, ViewFits

(* The UI that has read a session. *)
HavingRead(u, view, connection, conv) ==
    [u EXCEPT !.view = view, !.connection = connection, !.conv = conv]

(* A snapshot is taken in by the UI, which may have found its session in it, or be connected
   again by it. *)
LEMMA ReadFits ==
    ASSUME NEW s, ServerFits(s), NEW sub, NEW fr, NEW u, Fits(u, s, sub, fr),
           NEW view \in View, ViewFits(view, s),
           NEW conv \in {"draft", "open", "fork"}, NEW connection \in {"connected", "disconnected"},
           Started(u.form) /\ conv = "draft" => u.draft.pending.id = 0
    PROVE  UiFits(Synchronized(HavingRead(u, view, connection, conv)), s, sub, fr)
<1> DEFINE a == [u EXCEPT !.view = view]
           b == [a EXCEPT !.connection = connection]
           v == [b EXCEPT !.conv = conv]
<1>1. u \in UIs /\ s \in Servers /\ view \in View /\ ViewFits(view, s)
  BY DEF Fits, ServerFits
<1>2. a = [conv |-> u.conv, view |-> view, connection |-> u.connection, draft |-> u.draft,
           form |-> u.form, rendered |-> u.rendered, confirm |-> u.confirm, nextId |-> u.nextId]
  BY <1>1 DEF UIs
<1>3. b = [conv |-> u.conv, view |-> view, connection |-> connection, draft |-> u.draft,
           form |-> u.form, rendered |-> u.rendered, confirm |-> u.confirm, nextId |-> u.nextId]
  <2> HIDE DEF a
  <2> QED BY <1>2
<1>4. v = [conv |-> conv, view |-> view, connection |-> connection, draft |-> u.draft,
           form |-> u.form, rendered |-> u.rendered, confirm |-> u.confirm, nextId |-> u.nextId]
  <2> HIDE DEF b
  <2> QED BY <1>3
<1> HIDE DEF v
<1>5. /\ u.draft \in Drafts /\ u.form \in Forms /\ u.rendered \in Numbers
      /\ u.confirm \in Numbers /\ u.nextId \in 1..(MaxSubmissions + 1)
  BY <1>1 DEF UIs
<1>6. /\ v \in UIs /\ v.conv = conv /\ v.view = view /\ v.draft = u.draft
      /\ v.form = u.form /\ v.rendered = u.rendered /\ v.nextId = u.nextId
  BY <1>1, <1>4, <1>5, UiOf
<1>7. Fits(v, s, sub, fr)
  <2>1. FormFits(v, s)
    BY <1>6 DEF Fits, FormFits
  <2> QED BY <1>1, <1>6, <2>1 DEF Fits
<1>8. Target(v) # 0 => s.life # "absent"
  BY <1>1, <1>6 DEF Target, Life, ViewFits
<1>9. UiFits(Synchronized(v), s, sub, fr)
  BY <1>1, <1>7, <1>8, SynchronizedFits
<1> QED BY <1>9 DEF v, HavingRead

(* The UI that is opened to the session fits. *)
LEMMA OpenedFits ==
    ASSUME ServerFits(server), NEW sub, NEW fr, NEW u, Fits(u, server, sub, fr)
    PROVE  UiFits(SessionOpened(u), server, sub, fr)
<1> DEFINE v == [u EXCEPT !.view = ViewOf(server), !.conv = "open"]
           w == [u EXCEPT !.view = ViewOf(server), !.connection = u.connection, !.conv = "open"]
<1>1. u \in UIs
  BY DEF Fits
<1>2. w = v
  <2> DEFINE view == ViewOf(server)
             a == [u EXCEPT !.view = view]
             b == [a EXCEPT !.connection = u.connection]
  <2> HIDE DEF view
  <2>1. b = a
    BY <1>1 DEF UIs
  <2>2. [b EXCEPT !.conv = "open"] = [a EXCEPT !.conv = "open"]
    <3> HIDE DEF a, b
    <3> QED BY <2>1
  <2> QED BY <2>2 DEF view
<1>3. u.connection \in {"connected", "disconnected"}
  BY <1>1 DEF UIs
<1>4. UiFits(Synchronized(HavingRead(u, ViewOf(server), u.connection, "open")), server, sub, fr)
  BY <1>3, ReadFits, ViewOfFits
<1>5. HavingRead(u, ViewOf(server), u.connection, "open") = v
  BY <1>2 DEF HavingRead
<1> HIDE DEF v
<1> QED BY <1>4, <1>5 DEF SessionOpened, v

(* The UI that looks for its session fits. *)
LEMMA LoadedFits ==
    ASSUME ServerFits(server), NEW sub, NEW fr, NEW u, Fits(u, server, sub, fr)
    PROVE  UiFits(SnapshotLoaded(u), server, sub, fr)
<1> DEFINE found == u.draft.pending.assigned /\ server.life # "absent"
           conv == IF found THEN "open" ELSE u.conv
<1>1. /\ conv \in {"draft", "open", "fork"}
      /\ Started(u.form) /\ conv = "draft" => u.draft.pending.id = 0
  BY DEF Fits, UIs, FormFits
<1>2. SnapshotLoaded(u) = Synchronized(HavingRead(u, ViewOf(server), "connected", conv))
  BY DEF SnapshotLoaded, HavingRead
<1> HIDE DEF conv
<1>3. UiFits(Synchronized(HavingRead(u, ViewOf(server), "connected", conv)), server, sub, fr)
  BY <1>1, ReadFits, ViewOfFits
<1> QED BY <1>2, <1>3

(* The UI that is opened to the fork fits. *)
LEMMA ForkFits ==
    ASSUME ServerFits(server), NEW sub, NEW fr, NEW u, Fits(u, server, sub, fr)
    PROVE  UiFits(ForkOpened(u), server, sub, fr)
<1> DEFINE view == [NoView EXCEPT !.life = "ready"]
           v == [u EXCEPT !.view = view, !.conv = "fork"]
<1>1. u \in UIs
  BY DEF Fits
<1>2. /\ NoView \in View /\ NoView.req = 0 /\ NoView.cards = <<>>
      /\ server \in Servers /\ Len(server.cards) \in Nat
  BY TuiAssumption DEF NoView, View, Lives, ServerFits, Servers
<1>7. view = [life |-> "ready", req |-> NoView.req, cards |-> NoView.cards,
              answered |-> NoView.answered]
  BY <1>2 DEF View
<1>8. /\ view.life = "ready" /\ view.cards = <<>>
      /\ view \in View
  BY <1>2, <1>7 DEF View, Lives
<1>3. view \in View /\ ViewFits(view, server)
  BY <1>2, <1>8 DEF ViewFits
<1> HIDE DEF view
<1>4. HavingRead(u, view, u.connection, "fork") = v
  <2> DEFINE a == [u EXCEPT !.view = view]
             b == [a EXCEPT !.connection = u.connection]
  <2>1. b = a
    BY <1>1 DEF UIs
  <2>2. [b EXCEPT !.conv = "fork"] = [a EXCEPT !.conv = "fork"]
    <3> HIDE DEF a, b
    <3> QED BY <2>1
  <2> QED BY <2>2 DEF HavingRead
<1>5. u.connection \in {"connected", "disconnected"}
  BY <1>1 DEF UIs
<1>6. UiFits(Synchronized(HavingRead(u, view, u.connection, "fork")), server, sub, fr)
  BY <1>3, <1>5, ReadFits
<1> HIDE DEF v
<1> QED BY <1>4, <1>6 DEF ForkOpened, v, view

(* The UI that has read a fresh snapshot fits. *)
LEMMA RefreshedFits ==
    ASSUME ServerFits(server), NEW sub, NEW fr, NEW u, UiFits(u, server, sub, fr)
    PROVE  UiFits(Refreshed(u), server, sub, fr)
BY OpenedFits, LoadedFits, ForkFits DEF Refreshed, UiFits

(* The UI that is told whether its session is assigned, and opened to it or not. *)
ToldUi(u, yes, conv) == [u EXCEPT !.draft.pending.assigned = yes, !.conv = conv]

(* The fields of the UI that is told of its session. *)
LEMMA AssignedIs ==
    ASSUME NEW u \in UIs, NEW yes, NEW conv
    PROVE  ToldUi(u, yes, conv) =
               [conv |-> conv, view |-> u.view, connection |-> u.connection,
                draft |-> [composer |-> u.draft.composer, deferred |-> u.draft.deferred,
                           pending |-> [id |-> u.draft.pending.id, text |-> u.draft.pending.text,
                                        assigned |-> yes, after |-> u.draft.pending.after],
                           failed |-> u.draft.failed],
                form |-> u.form, rendered |-> u.rendered, confirm |-> u.confirm,
                nextId |-> u.nextId]
<1> DEFINE p == [u.draft.pending EXCEPT !.assigned = yes]
           d == [u.draft EXCEPT !.pending = p]
           a == [u EXCEPT !.draft = d]
<1>1. u.draft \in Drafts /\ u.draft.pending \in Pending
  BY DEF UIs, Drafts
<1>2. p = [id |-> u.draft.pending.id, text |-> u.draft.pending.text, assigned |-> yes,
           after |-> u.draft.pending.after]
  BY <1>1 DEF Pending
<1>3. d = [composer |-> u.draft.composer, deferred |-> u.draft.deferred, pending |-> p,
           failed |-> u.draft.failed]
  <2> HIDE DEF p
  <2> QED BY <1>1 DEF Drafts
<1>4. a = [conv |-> u.conv, view |-> u.view, connection |-> u.connection, draft |-> d,
           form |-> u.form, rendered |-> u.rendered, confirm |-> u.confirm, nextId |-> u.nextId]
  <2> HIDE DEF d
  <2> QED BY DEF UIs
<1>5. [a EXCEPT !.conv = conv] =
         [conv |-> conv, view |-> u.view, connection |-> u.connection, draft |-> d,
           form |-> u.form, rendered |-> u.rendered, confirm |-> u.confirm, nextId |-> u.nextId]
  <2> HIDE DEF a
  <2> QED BY <1>4
<1>6. ToldUi(u, yes, conv) = [a EXCEPT !.conv = conv]
  BY DEF ToldUi
<1> QED BY <1>2, <1>3, <1>5, <1>6, Zenon

(* Another draft, and the rest as it was. *)
LEMMA WithDraft ==
    ASSUME NEW u \in UIs, NEW d \in Drafts
    PROVE  LET v == [u EXCEPT !.draft = d] IN
           /\ v \in UIs /\ v.draft = d /\ v.form = u.form /\ v.conv = u.conv /\ v.view = u.view
           /\ v.rendered = u.rendered /\ v.nextId = u.nextId
<1>1. [u EXCEPT !.draft = d] =
          [conv |-> u.conv, view |-> u.view, connection |-> u.connection, draft |-> d,
           form |-> u.form, rendered |-> u.rendered, confirm |-> u.confirm, nextId |-> u.nextId]
  BY DEF UIs
<1> QED BY <1>1 DEF UIs

(* Another form, and the rest as it was. *)
LEMMA WithForm ==
    ASSUME NEW u \in UIs, NEW f \in Forms
    PROVE  LET v == [u EXCEPT !.form = f] IN
           /\ v \in UIs /\ v.draft = u.draft /\ v.form = f /\ v.conv = u.conv /\ v.view = u.view
           /\ v.rendered = u.rendered /\ v.nextId = u.nextId
<1>1. [u EXCEPT !.form = f] =
          [conv |-> u.conv, view |-> u.view, connection |-> u.connection, draft |-> u.draft,
           form |-> f, rendered |-> u.rendered, confirm |-> u.confirm, nextId |-> u.nextId]
  BY DEF UIs
<1> QED BY <1>1 DEF UIs

(* The UI that is told of its session, and the UI that has looked for the card of what it
   submitted. *)
AssignedUi(u, yes) ==
    ToldUi(u, yes, IF u.conv = "draft" /\ u.view.life # "absent" THEN "open" ELSE u.conv)

CardSought(u) == [u EXCEPT !.draft = IF IsDurable(u) THEN DurableDraft(u.draft) ELSE @]

(* The answer that a session has been assigned: the UI is open to it, and forgets the prompt
   if its card was there before. *)
LEMMA AssignedFits ==
    ASSUME NEW s \in Servers, NEW sub, NEW fr, NEW u, UiFits(u, s, sub, fr),
           u.draft.pending.id # 0, NEW yes \in BOOLEAN
    PROVE  UiFits(CardSought(AssignedUi(u, yes)), s, sub, fr)
<1> DEFINE conv == IF u.conv = "draft" /\ u.view.life # "absent" THEN "open" ELSE u.conv
           p == [id |-> u.draft.pending.id, text |-> u.draft.pending.text, assigned |-> yes,
                 after |-> u.draft.pending.after]
           d == [composer |-> u.draft.composer, deferred |-> u.draft.deferred, pending |-> p,
                 failed |-> u.draft.failed]
           v == AssignedUi(u, yes)
           e == IF IsDurable(v) THEN DurableDraft(v.draft) ELSE v.draft
           w == [v EXCEPT !.draft = e]
<1>1. /\ u \in UIs /\ u.draft \in Drafts /\ u.draft.pending \in Pending /\ u.nextId \in Nat
      /\ ViewFits(u.view, s) /\ DraftFits(u.draft, s, sub) /\ conv \in {"draft", "open", "fork"}
  BY DEF UiFits, Fits, UIs, Drafts
<1>2. v = [conv |-> conv, view |-> u.view, connection |-> u.connection, draft |-> d,
           form |-> u.form, rendered |-> u.rendered, confirm |-> u.confirm, nextId |-> u.nextId]
  <2>1. v = ToldUi(u, yes, conv)
    BY DEF AssignedUi
  <2> HIDE DEF conv, v
  <2> QED BY <1>1, <2>1, AssignedIs
<1> HIDE DEF conv, v
<1>3. p \in Pending
  BY <1>1 DEF Pending
<1>4. d \in Drafts
  <2> HIDE DEF p
  <2> QED BY <1>1, <1>3 DEF Drafts
<1> HIDE DEF d
<1>5. /\ v \in UIs /\ v.draft = d /\ v.view = u.view /\ v.form = u.form /\ v.conv = conv
      /\ v.rendered = u.rendered /\ v.nextId = u.nextId
  <2>1. /\ u.view \in View /\ u.connection \in {"connected", "disconnected"}
        /\ u.form \in Forms /\ u.rendered \in Numbers /\ u.confirm \in Numbers
        /\ u.nextId \in 1..(MaxSubmissions + 1)
    BY <1>1 DEF UIs
  <2> QED BY <1>1, <1>2, <1>4, <2>1, UiOf
<1>6. DraftFits(d, s, sub) /\ d.pending.id = u.draft.pending.id
  BY <1>1 DEF DraftFits, d
<1>7. e \in Drafts /\ DraftFits(e, s, sub) /\ e.pending.id \in {0, u.draft.pending.id}
  <2>1. CASE IsDurable(v)
    <3>1. DraftAfter(v) = DurableDraft(v.draft)
      BY <2>1 DEF DraftAfter
    <3> QED BY <1>1, <1>5, <1>6, <2>1, <3>1, DraftAfterFits
  <2>2. CASE ~IsDurable(v)
    BY <1>4, <1>5, <1>6, <2>2
  <2> QED BY <2>1, <2>2
<1> HIDE DEF e
<1>8. /\ w \in UIs /\ w.draft = e /\ w.form = u.form /\ w.conv = conv /\ w.view = u.view
      /\ w.rendered = u.rendered /\ w.nextId = u.nextId
  BY <1>5, <1>7, WithDraft
<1>9. w = CardSought(AssignedUi(u, yes))
  BY DEF e, v, CardSought
<1> HIDE DEF w
<1>10. FormFits(w, s)
  <2>1. Started(u.form) => s.life # "absent" /\ u.conv # "draft"
    BY <1>1 DEF UiFits, Fits, FormFits, UIs
  <2>2. u.conv # "draft" => conv = u.conv
    BY DEF conv
  <2> QED BY <1>8, <2>1, <2>2 DEF FormFits, UiFits, Fits
<1>11. AtRequest(w)
  <2>1. CASE Started(u.form)
    <3>1. u.conv # "draft" /\ conv = u.conv
      BY <1>1, <2>1 DEF UiFits, Fits, FormFits, UIs, conv
    <3>2. Life(w) = Life(u)
      BY <1>8, <3>1 DEF Life
    <3> QED BY <1>8, <3>2 DEF AtRequest, UiFits
  <2>2. CASE ~Started(u.form)
    BY <1>8, <2>2 DEF Started, AtRequest
  <2> QED BY <2>1, <2>2
<1>12. w.draft.pending.id < w.nextId
  <2>1. 0 < u.nextId /\ u.draft.pending.id < u.nextId
    BY <1>1 DEF UIs, UiFits, Fits
  <2> QED BY <1>7, <1>8, <2>1
<1> QED BY <1>1, <1>7, <1>8, <1>9, <1>10, <1>11, <1>12 DEF UiFits, Fits

(* That a request failed is noted, and changes nothing else. *)
LEMMA FlagsFit ==
    ASSUME NEW s, NEW sub, NEW fr, NEW u, UiFits(u, s, sub, fr)
    PROVE  /\ UiFits([u EXCEPT !.draft.failed = TRUE], s, sub, fr)
           /\ UiFits([u EXCEPT !.form.failed = TRUE], s, sub, fr)
<1>1. /\ u \in UIs /\ u.draft \in Drafts /\ u.form \in Forms /\ TRUE \in BOOLEAN
  BY DEF UiFits, Fits, UIs
<1>2. ASSUME NEW yes \in BOOLEAN PROVE UiFits([u EXCEPT !.draft.failed = yes], s, sub, fr)
  <2> DEFINE d == [u.draft EXCEPT !.failed = yes]
             v == [u EXCEPT !.draft = d]
  <2>1. d = [composer |-> u.draft.composer, deferred |-> u.draft.deferred,
             pending |-> u.draft.pending, failed |-> yes]
    BY <1>1 DEF Drafts
  <2> HIDE DEF d
  <2>2. d \in Drafts
    BY <1>1, <1>2, <2>1 DEF Drafts
  <2>3. /\ v \in UIs /\ v.draft = d /\ v.form = u.form /\ v.conv = u.conv /\ v.view = u.view
        /\ v.rendered = u.rendered /\ v.nextId = u.nextId
    BY <1>1, <2>2, WithDraft
  <2> HIDE DEF v
  <2>4. UiFits(v, s, sub, fr)
    BY <2>1, <2>3 DEF UiFits, Fits, DraftFits, FormFits, AtRequest, Life
  <2> QED BY <2>4 DEF v, d
<1>3. ASSUME NEW yes \in BOOLEAN PROVE UiFits([u EXCEPT !.form.failed = yes], s, sub, fr)
  <2> DEFINE f == [u.form EXCEPT !.failed = yes]
             v == [u EXCEPT !.form = f]
  <2>1. f = [input |-> u.form.input, target |-> u.form.target, answer |-> u.form.answer,
             value |-> u.form.value, failed |-> yes]
    BY <1>1 DEF Forms
  <2> HIDE DEF f
  <2>2. f \in Forms
    BY <1>1, <1>3, <2>1 DEF Forms
  <2>3. /\ v \in UIs /\ v.draft = u.draft /\ v.form = f /\ v.conv = u.conv /\ v.view = u.view
        /\ v.rendered = u.rendered /\ v.nextId = u.nextId
    BY <1>1, <2>2, WithForm
  <2> HIDE DEF v
  <2>4. UiFits(v, s, sub, fr)
    BY <2>1, <2>3 DEF UiFits, Fits, FormFits, FormHolds, Started, AtRequest, Life
  <2> QED BY <2>4 DEF v, f
<1> QED BY <1>1, <1>2, <1>3

Todos == SUBSET {"refresh", "fork", "refresh fork"}

(* The UI that has been told of its session, as the answer tells it. *)
LEMMA AssignedIsSought == ASSUME NEW u PROVE Assigned(u) = CardSought(AssignedUi(u, TRUE))
<1>1. CASE u.conv = "draft" /\ u.view.life # "absent"
  BY <1>1 DEF Assigned, CardSought, AssignedUi, ToldUi
<1>2. CASE ~(u.conv = "draft" /\ u.view.life # "absent")
  BY <1>2 DEF Assigned, CardSought, AssignedUi, ToldUi
<1> QED BY <1>1, <1>2

(* A UI with what is left to do. *)
LEMMA WithTodo ==
    ASSUME NEW s, NEW sub, NEW fr, NEW x, UiFits(x, s, sub, fr), NEW t \in Todos,
           NEW w, w = [ui |-> x, todo |-> t]
    PROVE  w = [ui |-> w.ui, todo |-> w.todo] /\ UiFits(w.ui, s, sub, fr) /\ w.todo \in Todos
<1>1. w.ui = x /\ w.todo = t
  OBVIOUS
<1> QED BY <1>1

(* The UI that has noted an answer fits. *)
LEMMA NotedFits ==
    ASSUME ServerFits(server), NEW sub, NEW fr, NEW u, UiFits(u, server, sub, fr),
           NEW todo \in Todos, NEW m, m.kind = "assigned" => m.id # 0
    PROVE  LET w == Noted([ui |-> u, todo |-> todo], m) IN
           /\ w = [ui |-> w.ui, todo |-> w.todo]
           /\ UiFits(w.ui, server, sub, fr) /\ w.todo \in Todos
<1> SUFFICES ASSUME NEW w, w = Noted([ui |-> u, todo |-> todo], m)
             PROVE  /\ w = [ui |-> w.ui, todo |-> w.todo]
                    /\ UiFits(w.ui, server, sub, fr) /\ w.todo \in Todos
  BY Zenon
<1> DEFINE more == todo \cup {IF "fork" \in todo THEN "refresh fork" ELSE "refresh"}
<1>0. more \in Todos /\ todo \cup {"fork"} \in Todos
  BY DEF Todos
<1> HIDE DEF more
<1>1. CASE m.kind = "assigned" /\ u.draft.pending.id = m.id
  <2>1. w = [ui |-> CardSought(AssignedUi(u, TRUE)), todo |-> todo]
    BY <1>1, AssignedIsSought DEF Noted
  <2>2. server \in Servers /\ u.draft.pending.id # 0
    BY <1>1 DEF ServerFits
  <2>3. ASSUME NEW yes \in BOOLEAN
        PROVE  UiFits(CardSought(AssignedUi(u, yes)), server, sub, fr)
    BY <2>2, AssignedFits
  <2>4. UiFits(CardSought(AssignedUi(u, TRUE)), server, sub, fr)
    BY <2>3
  <2> QED BY <2>1, <2>4, WithTodo
<1>2. CASE m.kind = "error" /\ u.draft.pending.id = m.id
  <2> DEFINE v == [u EXCEPT !.draft.failed = TRUE]
  <2>1. w = [ui |-> v, todo |-> more]
    BY <1>2 DEF Noted, more
  <2>2. UiFits(v, server, sub, fr)
    BY FlagsFit
  <2> HIDE DEF v
  <2> QED BY <1>0, <2>1, <2>2, WithTodo
<1>3. CASE m.kind = "answer_error" /\ u.form.answer = m.id
  <2> DEFINE v == [u EXCEPT !.form.failed = TRUE]
  <2>1. w = [ui |-> v, todo |-> more]
    BY <1>3 DEF Noted, more
  <2>2. UiFits(v, server, sub, fr)
    BY FlagsFit
  <2> HIDE DEF v
  <2> QED BY <1>0, <2>1, <2>2, WithTodo
<1>4. CASE m.kind = "forked"
  <2>1. w = [ui |-> u, todo |-> todo \cup {"fork"}]
    BY <1>4 DEF Noted
  <2> QED BY <1>0, <2>1, WithTodo
<1>5. CASE /\ ~(m.kind = "assigned" /\ u.draft.pending.id = m.id)
           /\ ~(m.kind = "error" /\ u.draft.pending.id = m.id)
           /\ ~(m.kind = "answer_error" /\ u.form.answer = m.id)
           /\ m.kind # "forked"
  <2>1. w = [ui |-> u, todo |-> todo]
    BY <1>5 DEF Noted
  <2> QED BY <2>1, WithTodo
<1> QED BY <1>1, <1>2, <1>3, <1>4, <1>5

(* The UI that has done what the answers left to do fits. *)
LEMMA AppliedFits ==
    ASSUME ServerFits(server), NEW sub, NEW fr, NEW w, UiFits(w.ui, server, sub, fr)
    PROVE  UiFits(ActionsApplied(w), server, sub, fr)
<1> DEFINE u == IF "refresh" \in w.todo THEN Refreshed(w.ui) ELSE w.ui
           v == IF "fork" \in w.todo THEN ForkOpened(u) ELSE u
<1>1. UiFits(u, server, sub, fr)
  BY RefreshedFits
<1> HIDE DEF u
<1>2. UiFits(v, server, sub, fr)
  BY <1>1, ForkFits DEF UiFits
<1>3. ActionsApplied(w) = IF "refresh fork" \in w.todo THEN Refreshed(v) ELSE v
  BY DEF ActionsApplied, u
<1> HIDE DEF v
<1> QED BY <1>2, <1>3, RefreshedFits

(* The UI that has polled its channel fits. *)
LEMMA PolledFits ==
    ASSUME TuiInv PROVE UiFits(Polled(ui), server, typed.submitted, frame)
<1>1. ServerFits(server) /\ UiFits(ui, server, typed.submitted, frame) /\ ui \in UIs
  BY DEF TuiInv, UiFits, Fits
<1>2. CASE wake = "changed"
  BY <1>1, <1>2, RefreshedFits DEF Polled
<1>3. CASE wake = "closed"
  <2> DEFINE v == [ui EXCEPT !.connection = "disconnected"]
  <2>1. v = [conv |-> ui.conv, view |-> ui.view, connection |-> "disconnected",
             draft |-> ui.draft, form |-> ui.form, rendered |-> ui.rendered,
             confirm |-> ui.confirm, nextId |-> ui.nextId]
    BY <1>1 DEF UIs
  <2> HIDE DEF v
  <2>2. v \in UIs
    BY <1>1, <2>1 DEF UIs
  <2>3. UiFits(v, server, typed.submitted, frame)
    BY <1>1, <2>1, <2>2 DEF UiFits, Fits, FormFits, AtRequest, Life
  <2> QED BY <1>3, <2>3 DEF Polled, v
<1>4. CASE wake = "none"
  BY <1>1, <1>4 DEF Polled
<1> QED BY <1>2, <1>3, <1>4 DEF TuiInv

(* Every answer that has arrived is taken in, one after another. *)
LEMMA DrainedFits ==
    ASSUME TuiInv, NEW u, UiFits(u, server, typed.submitted, frame)
    PROVE  UiFits(FeedbackDrained(u), server, typed.submitted, frame)
<1> DEFINE N == Len(feedback)
           V == {v \in UIs : UiFits(v, server, typed.submitted, frame)}
           B == [ui : V, todo : Todos]
           w == [ui |-> u, todo |-> {}]
           s == [n \in 1..N |-> [v \in B |-> Noted(v, feedback[n])]]
           Is(f) == f = [n \in 0..N |-> IF n = 0 THEN w ELSE Noted(f[n - 1], feedback[n])]
           after == CHOOSE f : Is(f)
           T == {n \in 0..N : after[n] \notin B}
<1>1. N \in Nat /\ w \in B
  BY DEF TuiInv, UiFits, Fits, Todos
<1>2. ASSUME NEW n \in 1..N, NEW v \in B PROVE Noted(v, feedback[n]) \in B
  <2> DEFINE x == Noted(v, feedback[n])
  <2>1. ServerFits(server) /\ (feedback[n].kind = "assigned" => feedback[n].id # 0)
    BY DEF TuiInv
  <2>2. v = [ui |-> v.ui, todo |-> v.todo] /\ v.todo \in Todos
        /\ UiFits(v.ui, server, typed.submitted, frame)
    BY <1>2
  <2>3. /\ x = [ui |-> x.ui, todo |-> x.todo] /\ x.todo \in Todos
        /\ UiFits(x.ui, server, typed.submitted, frame)
    BY <2>1, <2>2, NotedFits
  <2>4. x.ui \in V
    BY <2>3 DEF UiFits, Fits
  <2> HIDE DEF x, V
  <2> QED BY <2>3, <2>4 DEF x
<1>3. PICK f : Iterates(f, B, w, s, N)
  <2>1. s \in [1..N -> [B -> B]]
    BY <1>2
  <2> HIDE DEF s, N, B
  <2> QED BY <1>1, <2>1, IterationExists
<1>4. f \in [0..N -> B] /\ f[0] = w
  BY <1>3 DEF Iterates
<1>5. ASSUME NEW n \in 1..N PROVE f[n] = Noted(f[n - 1], feedback[n])
  <2>1. f[n - 1] \in B
    <3> HIDE DEF B
    <3> QED BY <1>1, <1>4
  <2>2. f[n] = s[n][f[n - 1]]
    BY <1>3 DEF Iterates
  <2> HIDE DEF B
  <2> QED BY <2>1, <2>2
<1> HIDE DEF s, B, w
<1>6. Is(f)
  <2>1. \A n \in 0..N : f[n] = IF n = 0 THEN w ELSE Noted(f[n - 1], feedback[n])
    BY <1>1, <1>4, <1>5
  <2> HIDE DEF N
  <2> QED BY <1>4, <2>1
<1>7. Is(after)
  <2> HIDE DEF Is
  <2> QED BY <1>6
<1>8. \A n \in 0..N : after[n] = IF n = 0 THEN w ELSE Noted(after[n - 1], feedback[n])
  <2> HIDE DEF after, N
  <2> QED BY <1>7
<1>9. FeedbackDrained(u) = ActionsApplied(after[N])
  BY DEF FeedbackDrained, w
<1> HIDE DEF after, Is
<1>10. after[N] \in B
  <2> SUFFICES ASSUME T # {} PROVE FALSE
    BY <1>1
  <2>1. PICK k \in T : \A j \in T : k <= j
    <3>1. T \in SUBSET Nat
      OBVIOUS
    <3> HIDE DEF T
    <3> QED BY <3>1, LeastNumber
  <2>2. k \in 0..N /\ after[k] \notin B
    OBVIOUS
  <2>3. k # 0
    BY <1>1, <1>8, <2>2
  <2>4. k - 1 \in 0..N /\ k \in 1..N /\ ~(k <= k - 1)
    BY <1>1, <2>2, <2>3
  <2>5. after[k - 1] \in B
    <3>1. k - 1 \notin T
      <4> HIDE DEF T
      <4> QED BY <2>1, <2>4
    <3> QED BY <2>4, <3>1
  <2>6. after[k] = Noted(after[k - 1], feedback[k])
    BY <1>8, <2>2, <2>3
  <2> QED BY <1>2, <2>2, <2>4, <2>5, <2>6
<1>11. UiFits(after[N].ui, server, typed.submitted, frame) /\ ServerFits(server)
  BY <1>10 DEF B, TuiInv
<1> QED BY <1>9, <1>11, AppliedFits

(* A tick keeps the invariant of the UI. *)
LEMMA TickKeeps == ASSUME TuiInv, Tick PROVE TuiInv'
<1>1. UiFits(ui', server, typed.submitted, frame)
  BY PolledFits, DrainedFits DEF Tick
<1>2. /\ feedback' = <<>> /\ loop' = "key" /\ wake' \in {"none", "closed"}
      /\ UNCHANGED <<server, requests, frame, typed>>
  BY DEF Tick
<1> QED BY <1>1, <1>2 DEF TuiInv, AnswerFitsQuestion

(* A frame shows the request it is drawn for. *)
LEMMA DrawnFits ==
    ASSUME NEW u, NEW sub, NEW s, UiFits(u, s, sub, frame), frame \subseteq 1..MaxRequests,
           Drawn(u)
    PROVE  UiFits(ui', s, sub, frame') /\ frame' \subseteq 1..MaxRequests
<1> DEFINE v == [u EXCEPT !.rendered = Shown(u)]
<1>1. u \in UIs /\ ui' = v /\ frame' = frame \cup ({Shown(u)} \ {0})
  BY DEF UiFits, Fits, Drawn
<1>2. Shown(u) \in Numbers
  BY <1>1, TuiAssumption DEF Shown, UIs, View, Numbers
<1>3. v = [conv |-> u.conv, view |-> u.view, connection |-> u.connection, draft |-> u.draft,
           form |-> u.form, rendered |-> Shown(u), confirm |-> u.confirm, nextId |-> u.nextId]
  BY <1>1 DEF UIs
<1> HIDE DEF v
<1>4. v \in UIs
  BY <1>1, <1>2, <1>3 DEF UIs
<1>5. v.rendered \in frame' \cup {0}
  BY <1>1, <1>3
<1>6. UiFits(v, s, sub, frame')
  BY <1>3, <1>4, <1>5 DEF UiFits, Fits, FormFits, AtRequest, Life
<1>7. frame' \subseteq 1..MaxRequests
  <2>1. Shown(u) # 0 => Shown(u) \in 1..MaxRequests
    BY <1>2, TuiAssumption DEF Numbers
  <2> QED BY <1>1, <2>1, Zenon
<1> QED BY <1>1, <1>6, <1>7

(* What a key does, apart from the session and the loop. *)
LEMMA KeyFits ==
    ASSUME TuiInv, Key, NEW u, Drawn(u), UiFits(u, server, typed'.submitted, frame),
           feedback' \in Seq(Feedback),
           \A i \in 1..Len(feedback') : feedback'[i].kind = "assigned" => feedback'[i].id # 0,
           \A r \in requests' \ requests : r \in UiRequest /\ (r.kind = "answer" => r.value = r.id),
           typed' \in TypedSets
    PROVE  TuiInv'
<1>1. UiFits(ui', server, typed'.submitted, frame') /\ frame' \subseteq 1..MaxRequests
  BY DrawnFits DEF TuiInv
<1>2. UNCHANGED <<server, wake>> /\ loop' = "tick"
  BY DEF Key
<1>3. requests' \subseteq UiRequest /\ AnswerFitsQuestion'
  BY DEF TuiInv, AnswerFitsQuestion
<1> QED BY <1>1, <1>2, <1>3 DEF TuiInv

(* A key that asks for nothing but what it puts in requests. *)
LEMMA PlainKeyFits ==
    ASSUME TuiInv, Key, NEW u, Drawn(u), UiFits(u, server, typed.submitted, frame),
           UNCHANGED <<feedback, typed>>,
           requests' = requests \/ \E kind \in {"answer", "decide", "reconcile", "cancel"} :
              \E id \in Numbers : \E value \in Numbers :
                 Ask(kind, id, value) /\ (kind = "answer" => value = id)
    PROVE  TuiInv'
<1>1. \A r \in requests' \ requests : r \in UiRequest /\ (r.kind = "answer" => r.value = r.id)
  <2>1. CASE requests' = requests
    BY <2>1
  <2>2. ASSUME NEW kind \in {"answer", "decide", "reconcile", "cancel"}, NEW id \in Numbers,
               NEW value \in Numbers, Ask(kind, id, value), kind = "answer" => value = id
        PROVE  \A r \in requests' \ requests :
                  r \in UiRequest /\ (r.kind = "answer" => r.value = r.id)
    <3> DEFINE q == [kind |-> kind, id |-> id, value |-> value, lost |-> FALSE]
    <3>1. requests' = requests \cup {q}
      BY <2>2 DEF Ask
    <3>2. q \in UiRequest
      BY <2>2 DEF UiRequest, Numbers
    <3>3. q.kind = "answer" => q.value = q.id
      BY <2>2
    <3> HIDE DEF q
    <3> QED BY <3>1, <3>2, <3>3
  <2> QED BY <2>1, <2>2
<1>2. /\ feedback' \in Seq(Feedback) /\ typed' \in TypedSets
      /\ \A i \in 1..Len(feedback') : feedback'[i].kind = "assigned" => feedback'[i].id # 0
  <2>1. feedback' = feedback /\ typed' = typed
    OBVIOUS
  <2> QED BY <2>1, Zenon DEF TuiInv
<1>3. UiFits(u, server, typed'.submitted, frame)
  <2>1. typed' = typed
    OBVIOUS
  <2> QED BY <2>1, Zenon
<1> QED BY <1>1, <1>2, <1>3, KeyFits

(* Typing a prompt keeps the invariant of the UI. *)
LEMMA TypeTextKeeps == ASSUME TuiInv, NEW p \in Texts, TypeText(p) PROVE TuiInv'
<1> DEFINE d == [ui.draft EXCEPT !.composer = p]
           u == [ui EXCEPT !.draft = d]
           sub == typed.submitted
<1>0. typed \in TypedSets /\ sub \subseteq Texts
  <2>1. typed \in TypedSets
    BY Zenon DEF TuiInv
  <2> QED BY <2>1 DEF TypedSets
<1>1. /\ ui \in UIs /\ ui.draft \in Drafts /\ UiFits(ui, server, sub, frame)
      /\ typed \in TypedSets /\ sub \subseteq Texts
  BY <1>0 DEF TuiInv, UiFits, Fits, UIs
<1>2. d = [composer |-> p, deferred |-> ui.draft.deferred, pending |-> ui.draft.pending,
           failed |-> ui.draft.failed]
  BY <1>1 DEF Drafts
<1>3. d \in Drafts
  BY <1>1, <1>2 DEF Drafts, Editors
<1>4. Key /\ Drawn(u) /\ ui.draft.composer = NoText /\ UNCHANGED <<feedback, requests>>
      /\ typed' = [typed EXCEPT !.all = @ \cup {p}]
  BY DEF TypeText
<1>5. typed' \in TypedSets /\ typed'.submitted = sub
  BY <1>1, <1>4 DEF TypedSets
<1> HIDE DEF d
<1>6. /\ u \in UIs /\ u.draft = d /\ u.form = ui.form /\ u.conv = ui.conv /\ u.view = ui.view
      /\ u.rendered = ui.rendered /\ u.nextId = ui.nextId
  BY <1>1, <1>3, WithDraft
<1> HIDE DEF u
<1>7. DraftFits(d, server, sub)
  <2>1. NoText \notin sub
    BY <1>1, TuiAssumption
  <2> QED BY <1>1, <1>2, <1>4, <2>1 DEF DraftFits, UiFits, Fits
<1>8. UiFits(u, server, sub, frame)
  BY <1>1, <1>2, <1>6, <1>7 DEF UiFits, Fits, FormFits, AtRequest, Life
<1>9. /\ feedback' \in Seq(Feedback)
      /\ \A i \in 1..Len(feedback') : feedback'[i].kind = "assigned" => feedback'[i].id # 0
      /\ \A r \in requests' \ requests : r \in UiRequest /\ (r.kind = "answer" => r.value = r.id)
  BY <1>4 DEF TuiInv
<1>10. UiFits(u, server, typed'.submitted, frame)
  BY <1>5, <1>8
<1> QED BY <1>4, <1>5, <1>9, <1>10, KeyFits

(* The fields of the UI that has submitted its prompt. *)
LEMMA SubmittedIs ==
    ASSUME NEW u \in UIs, NEW pending
    PROVE  [u EXCEPT !.draft.composer = NoText, !.nextId = @ + 1, !.draft.pending = pending] =
               [conv |-> u.conv, view |-> u.view, connection |-> u.connection,
                draft |-> [composer |-> NoText, deferred |-> u.draft.deferred,
                           pending |-> pending, failed |-> u.draft.failed],
                form |-> u.form, rendered |-> u.rendered, confirm |-> u.confirm,
                nextId |-> u.nextId + 1]
<1> DEFINE d == [u.draft EXCEPT !.composer = NoText]
           a == [u EXCEPT !.draft = d]
           b == [a EXCEPT !.nextId = @ + 1]
           e == [b.draft EXCEPT !.pending = pending]
           c == [b EXCEPT !.draft = e]
<1>1. u.draft \in Drafts
  BY DEF UIs
<1>2. d = [composer |-> NoText, deferred |-> u.draft.deferred, pending |-> u.draft.pending,
           failed |-> u.draft.failed]
  BY <1>1 DEF Drafts
<1> HIDE DEF d
<1>3. a = [conv |-> u.conv, view |-> u.view, connection |-> u.connection, draft |-> d,
           form |-> u.form, rendered |-> u.rendered, confirm |-> u.confirm, nextId |-> u.nextId]
  BY DEF UIs
<1> HIDE DEF a
<1>4. b = [conv |-> u.conv, view |-> u.view, connection |-> u.connection, draft |-> d,
           form |-> u.form, rendered |-> u.rendered, confirm |-> u.confirm,
           nextId |-> u.nextId + 1]
  BY <1>3
<1> HIDE DEF b
<1>5. e = [composer |-> NoText, deferred |-> u.draft.deferred, pending |-> pending,
           failed |-> u.draft.failed]
  BY <1>2, <1>4
<1> HIDE DEF e
<1>6. c = [conv |-> u.conv, view |-> u.view, connection |-> u.connection, draft |-> e,
           form |-> u.form, rendered |-> u.rendered, confirm |-> u.confirm,
           nextId |-> u.nextId + 1]
  BY <1>4
<1>7. [u EXCEPT !.draft.composer = NoText, !.nextId = @ + 1, !.draft.pending = pending] = c
  BY DEF c, e, b, a, d
<1> QED BY <1>5, <1>6, <1>7, Zenon

(* What is submitted is pending from then on. *)
LEMMA SubmitKeeps == ASSUME TuiInv, Submit PROVE TuiInv'
<1> DEFINE open == ui.conv = "open"
           kind == CASE ~open -> "start"
                     [] open /\ ui.view.life = "ready" -> "follow_up"
                     [] OTHER -> "queue"
           text == ui.draft.composer
           pending == [id |-> ui.nextId, text |-> text, assigned |-> open,
                       after |-> IF open THEN Len(ui.view.cards) ELSE 0]
           u == [ui EXCEPT !.draft.composer = NoText, !.nextId = @ + 1,
                           !.draft.pending = pending]
           d == [composer |-> NoText, deferred |-> ui.draft.deferred, pending |-> pending,
                 failed |-> ui.draft.failed]
           q == [kind |-> kind, id |-> ui.nextId, text |-> text, lost |-> FALSE]
<1>1. /\ ui \in UIs /\ ui.draft \in Drafts /\ UiFits(ui, server, typed.submitted, frame)
      /\ typed \in TypedSets
      /\ ui.nextId \in 1..(MaxSubmissions + 1) /\ Len(ui.view.cards) \in Nat
      /\ NoText \in Editors /\ MaxSubmissions \in Nat /\ NoText \notin Texts
  BY TuiAssumption DEF TuiInv, UiFits, Fits, UIs, View, Editors
<1>2. /\ Key /\ Drawn(u) /\ ui.draft.pending.id = 0 /\ text # NoText
      /\ ui.nextId <= MaxSubmissions /\ requests' = requests \cup {q}
      /\ typed' = [typed EXCEPT !.submitted = @ \cup {text}]
  BY DEF Submit
<1>3. /\ feedback' = IF open THEN feedback
                     ELSE Append(feedback, [kind |-> "assigned", id |-> ui.nextId])
      /\ ~open => server.life = "absent"
  BY DEF Submit
<1>4. text \in Texts /\ ui.nextId \in 1..MaxSubmissions /\ ui.nextId + 1 \in 1..(MaxSubmissions + 1)
  BY <1>1, <1>2 DEF Drafts, Editors
<1>5. kind \in Submission /\ kind # "answer"
  BY DEF Submission
<1>6. pending \in Pending /\ pending.id = ui.nextId /\ pending.text = text
  <2> DEFINE after == IF open THEN Len(ui.view.cards) ELSE 0
  <2>1. after \in Nat /\ open \in BOOLEAN
    BY <1>1
  <2> HIDE DEF after, open, text
  <2> QED BY <1>4, <2>1 DEF Pending
<1> HIDE DEF kind
<1>7. q \in UiRequest /\ q.kind # "answer"
  BY <1>4, <1>5 DEF UiRequest
<1>8. u = [conv |-> ui.conv, view |-> ui.view, connection |-> ui.connection, draft |-> d,
           form |-> ui.form, rendered |-> ui.rendered, confirm |-> ui.confirm,
           nextId |-> ui.nextId + 1]
  <2> HIDE DEF pending
  <2> QED BY <1>1, SubmittedIs
<1> HIDE DEF pending, u, q
<1>9. d \in Drafts
  BY <1>1, <1>6 DEF Drafts
<1>10. DraftFits(d, server, typed'.submitted)
  <2>1. typed'.submitted = typed.submitted \cup {text}
    BY <1>1, <1>2
  <2>2. \A t \in typed.submitted : Carded(t, server) \/ t = text
    BY <1>1, <1>2 DEF UiFits, Fits, DraftFits
  <2>3. d.pending.id # 0 /\ d.pending.text = text
    BY <1>4, <1>6
  <2> HIDE DEF text, d
  <2> QED BY <1>2, <2>1, <2>2, <2>3 DEF DraftFits
<1>11. d.pending.id = ui.nextId
  BY <1>6
<1> HIDE DEF d
<1>12. u \in UIs
  BY <1>1, <1>4, <1>8, <1>9 DEF UIs
<1>13. FormFits(u, server)
  <2>1. Started(ui.form) => server.life # "absent"
    BY <1>1 DEF UiFits, Fits, FormFits
  <2>2. ui.conv = "draft" => server.life = "absent"
    BY <1>3
  <2> QED BY <1>1, <1>8, <2>1, <2>2 DEF UiFits, Fits, FormFits
<1>14. UiFits(u, server, typed'.submitted, frame)
  BY <1>1, <1>8, <1>10, <1>11, <1>12, <1>13 DEF UiFits, Fits, AtRequest, Life
<1>15. typed' \in TypedSets
  BY <1>1, <1>2, <1>4 DEF TypedSets
<1>16. /\ feedback' \in Seq(Feedback)
       /\ \A i \in 1..Len(feedback') : feedback'[i].kind = "assigned" => feedback'[i].id # 0
  <2>1. /\ feedback \in Seq(Feedback)
        /\ \A i \in 1..Len(feedback) : feedback[i].kind = "assigned" => feedback[i].id # 0
    BY DEF TuiInv
  <2> DEFINE a == [kind |-> "assigned", id |-> ui.nextId]
  <2>2. a \in Feedback /\ a.id # 0
    BY <1>1 DEF Feedback
  <2>3. feedback' = feedback \/ feedback' = Append(feedback, a)
    BY <1>3
  <2> HIDE DEF a
  <2> QED BY <2>1, <2>2, <2>3
<1>17. \A r \in requests' \ requests : r \in UiRequest /\ (r.kind = "answer" => r.value = r.id)
  BY <1>2, <1>7
<1> QED BY <1>2, <1>14, <1>15, <1>16, <1>17, KeyFits
(* Typing an answer keeps the invariant of the UI. *)
LEMMA TypeInputKeeps == ASSUME TuiInv, TypeInput PROVE TuiInv'
<1> DEFINE put == IF ui.form.input = 0 THEN ui.view.req ELSE ui.form.input
           f == [ui.form EXCEPT !.input = put]
           u == [ui EXCEPT !.form = f]
<1>1. /\ ui \in UIs /\ ui.form \in Forms /\ UiFits(ui, server, typed.submitted, frame)
      /\ ui.view.req \in Numbers
  BY DEF TuiInv, UiFits, Fits, UIs, View, Numbers
<1>2. /\ Key /\ Life(ui) = "input" /\ ui.form.answer = 0 /\ Drawn(u)
      /\ UNCHANGED <<feedback, requests, typed>>
  BY DEF TypeInput
<1>3. put = ui.view.req /\ put # 0 /\ put \in Numbers
  BY <1>1, <1>2 DEF UiFits, Fits, AtRequest, ViewFits, Life
<1> HIDE DEF put
<1>4. f = [input |-> put, target |-> ui.form.target, answer |-> ui.form.answer,
           value |-> ui.form.value, failed |-> ui.form.failed]
  BY <1>1 DEF Forms
<1>5. f \in Forms
  BY <1>1, <1>3, <1>4 DEF Forms
<1> HIDE DEF f
<1>6. /\ u \in UIs /\ u.draft = ui.draft /\ u.form = f /\ u.conv = ui.conv /\ u.view = ui.view
      /\ u.rendered = ui.rendered /\ u.nextId = ui.nextId
  BY <1>1, <1>5, WithForm
<1> HIDE DEF u
<1>7. ui.conv # "draft" /\ server.life # "absent"
  BY <1>1, <1>2 DEF Life, UiFits, Fits, ViewFits
<1>8. FormHolds(f)
  BY <1>1, <1>2, <1>3, <1>4 DEF FormHolds, UiFits, AtRequest
<1>9. UiFits(u, server, typed.submitted, frame)
  BY <1>1, <1>2, <1>3, <1>4, <1>6, <1>7, <1>8 DEF UiFits, Fits, FormFits, AtRequest, Life
<1> QED BY <1>2, <1>9, PlainKeyFits

(* What is sent was typed for the request in view. *)
LEMMA SubmitInputKeeps == ASSUME TuiInv, SubmitInput PROVE TuiInv'
<1> DEFINE f == [input |-> 0, target |-> ui.form.target, answer |-> ui.view.req,
                 value |-> ui.form.input, failed |-> FALSE]
           u == [ui EXCEPT !.form.input = 0, !.form.answer = ui.view.req,
                           !.form.value = ui.form.input, !.form.failed = FALSE]
<1>1. /\ ui \in UIs /\ ui.form \in Forms /\ UiFits(ui, server, typed.submitted, frame)
      /\ ui.view.req \in Numbers /\ 0 \in Numbers
  BY TuiAssumption DEF TuiInv, UiFits, Fits, UIs, View, Numbers
<1>2. /\ Key /\ Life(ui) = "input" /\ ui.form.answer = 0 /\ ui.form.input # 0 /\ Drawn(u)
      /\ Ask("answer", ui.view.req, ui.form.input) /\ UNCHANGED <<feedback, typed>>
  BY DEF SubmitInput
<1>3. ui.form.input = ui.view.req /\ ui.view.req # 0
  BY <1>1, <1>2 DEF UiFits, AtRequest
<1>4. u = [ui EXCEPT !.form = f]
  <2> DEFINE a1 == [ui EXCEPT !.form.input = 0]
             a2 == [a1 EXCEPT !.form.answer = ui.view.req]
             a3 == [a2 EXCEPT !.form.value = ui.form.input]
             a4 == [a3 EXCEPT !.form.failed = FALSE]
             Ui(g) == [conv |-> ui.conv, view |-> ui.view, connection |-> ui.connection,
                       draft |-> ui.draft, form |-> g, rendered |-> ui.rendered,
                       confirm |-> ui.confirm, nextId |-> ui.nextId]
             f1 == [ui.form EXCEPT !.input = 0]
             f2 == [f1 EXCEPT !.answer = ui.view.req]
             f3 == [f2 EXCEPT !.value = ui.form.input]
             f4 == [f3 EXCEPT !.failed = FALSE]
  <2>1. ASSUME NEW g, NEW h PROVE Ui(g).form = g /\ [Ui(g) EXCEPT !.form = h] = Ui(h)
    OBVIOUS
  <2>2. ui = Ui(ui.form)
    BY <1>1 DEF UIs
  <2>3. f4 = f
    <3>1. f1 = [input |-> 0, target |-> ui.form.target, answer |-> ui.form.answer,
                value |-> ui.form.value, failed |-> ui.form.failed]
      BY <1>1 DEF Forms
    <3> HIDE DEF f1
    <3>2. f2 = [input |-> 0, target |-> ui.form.target, answer |-> ui.view.req,
                value |-> ui.form.value, failed |-> ui.form.failed]
      BY <3>1
    <3> HIDE DEF f2
    <3>3. f3 = [input |-> 0, target |-> ui.form.target, answer |-> ui.view.req,
                value |-> ui.form.input, failed |-> ui.form.failed]
      BY <3>2
    <3> HIDE DEF f3
    <3>4. ASSUME NEW no
          PROVE  [f3 EXCEPT !.failed = no] =
                     [input |-> 0, target |-> ui.form.target, answer |-> ui.view.req,
                      value |-> ui.form.input, failed |-> no]
      BY <3>3
    <3> QED BY <3>4, Zenon
  <2> HIDE DEF Ui, f1, f2, f3, f4
  <2>4. a1 = Ui(f1)
    <3>1. [ui EXCEPT !.form = f1] = Ui(f1)
      BY <2>1, <2>2
    <3> QED BY <3>1 DEF f1
  <2> HIDE DEF a1
  <2>5. a2 = Ui(f2)
    <3>1. a1.form = f1 /\ [a1 EXCEPT !.form = f2] = Ui(f2)
      BY <2>1, <2>4
    <3>2. a2 = [a1 EXCEPT !.form = f2]
      BY <3>1, Zenon DEF f2
    <3> QED BY <3>1, <3>2, Zenon
  <2> HIDE DEF a2
  <2>6. a3 = Ui(f3)
    <3>1. a2.form = f2 /\ [a2 EXCEPT !.form = f3] = Ui(f3)
      BY <2>1, <2>5
    <3>2. a3 = [a2 EXCEPT !.form = f3]
      BY <3>1, Zenon DEF f3
    <3> QED BY <3>1, <3>2, Zenon
  <2> HIDE DEF a3
  <2>7. a4 = Ui(f4)
    <3>1. a3.form = f3 /\ [a3 EXCEPT !.form = f4] = Ui(f4)
      BY <2>1, <2>6
    <3>2. a4 = [a3 EXCEPT !.form = f4]
      BY <3>1, Zenon DEF f4
    <3> QED BY <3>1, <3>2, Zenon
  <2>8. [ui EXCEPT !.form = f] = Ui(f)
    <3> HIDE DEF f
    <3> QED BY <2>1, <2>2
  <2>9. a4 = u
    BY Zenon DEF a3, a2, a1
  <2> HIDE DEF a4, f, u
  <2> QED BY <2>3, <2>7, <2>8, <2>9, Zenon
<1>5. f \in Forms
  BY <1>1 DEF Forms
<1>6. f.answer = ui.view.req /\ f.input = 0 /\ f.value = ui.form.input /\ f.target = ui.form.target
  OBVIOUS
<1> HIDE DEF f, u
<1>7. /\ u \in UIs /\ u.draft = ui.draft /\ u.form = f /\ u.conv = ui.conv /\ u.view = ui.view
      /\ u.rendered = ui.rendered /\ u.nextId = ui.nextId
  BY <1>1, <1>4, <1>5, WithForm
<1>8. FormHolds(f) /\ f.answer # 0
  BY <1>3, <1>6 DEF FormHolds
<1>9. ui.conv # "draft" /\ server.life # "absent"
  BY <1>1, <1>2 DEF Life, UiFits, Fits, ViewFits
<1>10. UiFits(u, server, typed.submitted, frame)
  BY <1>1, <1>7, <1>8, <1>9 DEF UiFits, Fits, FormFits, AtRequest
<1>11. ui.view.req \in Numbers /\ ui.form.input \in Numbers /\ ui.form.input = ui.view.req
  BY <1>1, <1>3
<1> QED BY <1>2, <1>10, <1>11, PlainKeyFits

(* A confirmation that opens or closes changes nothing else. *)
LEMMA ConfirmationFits ==
    ASSUME NEW s, NEW sub, NEW fr, NEW u, UiFits(u, s, sub, fr), NEW c \in Numbers
    PROVE  UiFits([u EXCEPT !.confirm = c], s, sub, fr)
<1> DEFINE v == [u EXCEPT !.confirm = c]
<1>1. u \in UIs
  BY DEF UiFits, Fits
<1>2. v = [conv |-> u.conv, view |-> u.view, connection |-> u.connection, draft |-> u.draft,
           form |-> u.form, rendered |-> u.rendered, confirm |-> c, nextId |-> u.nextId]
  BY <1>1 DEF UIs
<1> HIDE DEF v
<1>3. v \in UIs
  BY <1>1, <1>2 DEF UIs
<1>4. UiFits(v, s, sub, fr)
  BY <1>2, <1>3 DEF UiFits, Fits, FormFits, AtRequest, Life
<1> QED BY <1>4 DEF v

(* A conversation is left for a new one only while nothing is pending. *)
LEMMA NewFits ==
    ASSUME NEW s \in Servers, NEW sub, NEW fr, NEW u, UiFits(u, s, sub, fr), u.draft.pending.id = 0
    PROVE  UiFits([u EXCEPT !.conv = "draft", !.view = NoView], s, sub, fr)
<1> DEFINE a == [u EXCEPT !.conv = "draft"]
           v == [a EXCEPT !.view = NoView]
<1>1. u \in UIs
  BY DEF UiFits, Fits
<1>2. a = [conv |-> "draft", view |-> u.view, connection |-> u.connection, draft |-> u.draft,
           form |-> u.form, rendered |-> u.rendered, confirm |-> u.confirm, nextId |-> u.nextId]
  BY <1>1 DEF UIs
<1> HIDE DEF a
<1>3. v = [conv |-> "draft", view |-> NoView, connection |-> u.connection, draft |-> u.draft,
           form |-> u.form, rendered |-> u.rendered, confirm |-> u.confirm, nextId |-> u.nextId]
  BY <1>2
<1>4. NoView \in View /\ NoView.life = "absent" /\ NoView.cards = <<>>
  BY TuiAssumption DEF NoView, View, Lives
<1>5. v \in UIs
  BY <1>1, <1>3, <1>4 DEF UIs
<1> HIDE DEF v
<1>6. ViewFits(NoView, s)
  BY <1>4 DEF ViewFits, Servers
<1>7. UiFits(v, s, sub, fr)
  BY <1>3, <1>5, <1>6 DEF UiFits, Fits, FormFits, AtRequest, Life
<1> QED BY <1>7 DEF v, a

(* The other keys keep the invariant of the UI. *)
LEMMA OtherKeysKeep ==
    ASSUME TuiInv,
           \/ NoKey \/ Decide \/ OpenConfirmation \/ Confirm \/ Cancel \/ SwitchSession
           \/ AskFork \/ Refresh
    PROVE  TuiInv'
<1> DEFINE sub == typed.submitted
<1>1. /\ UiFits(ui, server, sub, frame) /\ ui.view.req \in Numbers /\ 0 \in Numbers
      /\ ui.confirm \in Numbers /\ ServerFits(server) /\ server \in Servers
  BY TuiAssumption DEF TuiInv, UiFits, Fits, UIs, View, Numbers, ServerFits
<1>2. CASE NoKey
  BY <1>1, <1>2, PlainKeyFits DEF NoKey
<1>3. CASE Decide
  <2>1. Key /\ Drawn(ui) /\ Ask("decide", ui.view.req, 0) /\ UNCHANGED <<feedback, typed>>
    BY <1>3 DEF Decide
  <2> QED BY <1>1, <2>1, PlainKeyFits
<1>4. CASE OpenConfirmation
  <2>1. Key /\ Drawn([ui EXCEPT !.confirm = ui.view.req]) /\ UNCHANGED <<feedback, requests, typed>>
    BY <1>4 DEF OpenConfirmation
  <2>2. UiFits([ui EXCEPT !.confirm = ui.view.req], server, sub, frame)
    BY <1>1, ConfirmationFits
  <2> QED BY <2>1, <2>2, PlainKeyFits
<1>5. CASE Confirm
  <2>1. /\ Key /\ Drawn([ui EXCEPT !.confirm = 0]) /\ UNCHANGED <<feedback, typed>>
        /\ requests' = requests \/ Ask("reconcile", ui.confirm, 0)
    BY <1>5 DEF Confirm
  <2>2. UiFits([ui EXCEPT !.confirm = 0], server, sub, frame)
    BY <1>1, ConfirmationFits
  <2> QED BY <1>1, <2>1, <2>2, PlainKeyFits
<1>6. CASE Cancel
  <2>1. Key /\ Drawn(ui) /\ Ask("cancel", 0, 0) /\ UNCHANGED <<feedback, typed>>
    BY <1>6 DEF Cancel
  <2> QED BY <1>1, <2>1, PlainKeyFits
<1>7. CASE SwitchSession
  <2>1. /\ Key /\ ui.draft.pending.id = 0 /\ UNCHANGED <<feedback, requests, typed>>
        /\ \/ Drawn([ui EXCEPT !.conv = "draft", !.view = NoView])
           \/ Drawn(SessionOpened(ui))
    BY <1>7 DEF SwitchSession, SwitchAvailable
  <2>2. UiFits([ui EXCEPT !.conv = "draft", !.view = NoView], server, sub, frame)
    BY <1>1, <2>1, NewFits
  <2>3. UiFits(SessionOpened(ui), server, sub, frame)
    BY <1>1, OpenedFits DEF UiFits
  <2>4. CASE Drawn([ui EXCEPT !.conv = "draft", !.view = NoView])
    BY <2>1, <2>2, <2>4, PlainKeyFits
  <2>5. CASE Drawn(SessionOpened(ui))
    BY <2>1, <2>3, <2>5, PlainKeyFits
  <2> QED BY <2>1, <2>4, <2>5
<1>8. CASE Refresh
  <2>1. Key /\ Drawn(Refreshed(ui)) /\ UNCHANGED <<feedback, requests, typed>>
    BY <1>8 DEF Refresh
  <2>2. UiFits(Refreshed(ui), server, sub, frame)
    BY <1>1, RefreshedFits
  <2> QED BY <2>1, <2>2, PlainKeyFits
<1>9. CASE AskFork
  <2> DEFINE q == [kind |-> "fork", id |-> 0, value |-> 0, lost |-> FALSE]
  <2>1. /\ Key /\ Drawn(ui) /\ feedback' = feedback /\ requests' = requests \cup {q}
        /\ typed' = [typed EXCEPT !.forked = TRUE] /\ typed \in TypedSets
    BY <1>9 DEF AskFork, Ask, TuiInv
  <2>2. q \in UiRequest /\ q.kind # "answer"
    BY TuiAssumption DEF UiRequest
  <2> HIDE DEF q
  <2>3. typed' \in TypedSets /\ typed'.submitted = sub
    BY <2>1 DEF TypedSets
  <2>4. UiFits(ui, server, typed'.submitted, frame)
    BY <1>1, <2>3
  <2>5. /\ feedback' \in Seq(Feedback)
        /\ \A i \in 1..Len(feedback') : feedback'[i].kind = "assigned" => feedback'[i].id # 0
        /\ \A r \in requests' \ requests : r \in UiRequest /\ (r.kind = "answer" => r.value = r.id)
    BY <2>1, <2>2 DEF TuiInv
  <2> QED BY <2>1, <2>3, <2>4, <2>5, KeyFits
<1> QED BY <1>2, <1>3, <1>4, <1>5, <1>6, <1>7, <1>8, <1>9

-----------------------------------------------------------------------------
(* The steps of the server *)

(* The session goes on: no card is taken away. *)
Continues(s, t) ==
    /\ s.life # "absent" => t.life # "absent"
    /\ Len(s.cards) <= Len(t.cards)
    /\ \A i \in 1..Len(s.cards) : t.cards[i] = s.cards[i]

(* The UI fits the session that went on without it. *)
LEMMA ContinuesFits ==
    ASSUME NEW s \in Servers, NEW t \in Servers, Continues(s, t),
           NEW u, NEW sub, NEW fr, UiFits(u, s, sub, fr)
    PROVE  UiFits(u, t, sub, fr)
<1>1. /\ Len(s.cards) \in Nat /\ Len(t.cards) \in Nat /\ u \in UIs /\ Len(u.view.cards) \in Nat
  BY DEF Servers, UiFits, Fits, UIs, View
<1>2. ViewFits(u.view, t)
  <2>1. Len(u.view.cards) <= Len(t.cards)
    BY <1>1 DEF UiFits, Fits, ViewFits, Continues
  <2>2. ASSUME NEW i \in 1..Len(u.view.cards) PROVE u.view.cards[i] = t.cards[i]
    BY <1>1 DEF UiFits, Fits, ViewFits, Continues
  <2> QED BY <2>1, <2>2 DEF UiFits, Fits, ViewFits, Continues
<1>3. \A p : Carded(p, s) => Carded(p, t)
  BY <1>1 DEF Carded, Continues
<1>4. DraftFits(u.draft, t, sub)
  BY <1>3 DEF DraftFits, UiFits, Fits
<1> QED BY <1>1, <1>2, <1>4 DEF UiFits, Fits, FormFits, Continues

(* The session is what it was, but for the life, the request, the answers and the queue. *)
LEMMA SameCards ==
    ASSUME NEW s \in Servers, NEW t, ServerFits(t), t.cards = s.cards, t.life # "absent"
    PROVE  Continues(s, t)
<1>1. Len(s.cards) \in Nat
  BY DEF Servers
<1> QED BY <1>1 DEF Continues

(* A card more, at the end. *)
LEMMA OneCard ==
    ASSUME NEW s \in Servers, NEW t, NEW p \in Texts, t.cards = Append(s.cards, p), t.life # "absent"
    PROVE  Continues(s, t)
<1>1. s.cards \in Seq(Texts)
  BY DEF Servers
<1>2. Len(t.cards) = Len(s.cards) + 1 /\ \A i \in 1..Len(s.cards) : t.cards[i] = s.cards[i]
  BY <1>1
<1> QED BY <1>1, <1>2 DEF Continues
(* The session field by field, and one field of it replaced. *)
Session(life, req, lines, answered, queue) ==
    [life |-> life, req |-> req, cards |-> lines, answered |-> answered, queue |-> queue]
WithLife(s, life) == [s EXCEPT !.life = life]
WithReq(s, req) == [s EXCEPT !.req = req]
WithCards(s, lines) == [s EXCEPT !.cards = lines]
WithAnswered(s, answered) == [s EXCEPT !.answered = answered]
WithQueue(s, queue) == [s EXCEPT !.queue = queue]

(* A field that is replaced leaves the others alone. *)
LEMMA SessionWith ==
    ASSUME NEW life, NEW req, NEW lines, NEW answered, NEW queue, NEW x
    PROVE  LET s == Session(life, req, lines, answered, queue) IN
           /\ WithLife(s, x) = Session(x, req, lines, answered, queue)
           /\ WithReq(s, x) = Session(life, x, lines, answered, queue)
           /\ WithCards(s, x) = Session(life, req, x, answered, queue)
           /\ WithAnswered(s, x) = Session(life, req, lines, x, queue)
           /\ WithQueue(s, x) = Session(life, req, lines, answered, x)
BY DEF Session, WithLife, WithReq, WithCards, WithAnswered, WithQueue

(* A session is one of its fields. *)
LEMMA SessionIs ==
    ASSUME NEW s \in Servers
    PROVE  s = Session(s.life, s.req, s.cards, s.answered, s.queue)
BY DEF Servers, Session

(* The session that is given field by field. *)
LEMMA SessionFitsIn ==
    ASSUME NEW life \in Lives, NEW req \in Numbers, NEW lines \in Seq(Texts),
           NEW answered \in SUBSET (1..MaxRequests), NEW queue \in Seq(Texts),
           life \in {"permission", "input"} => req # 0
    PROVE  LET s == Session(life, req, lines, answered, queue) IN
           ServerFits(s) /\ s.cards = lines /\ s.life = life
<1> DEFINE s == Session(life, req, lines, answered, queue)
<1>1. s \in Servers
  BY Zenon DEF Servers, Session
<1>2. s.cards = lines /\ s.life = life /\ s.req = req
  BY DEF Session
<1> HIDE DEF s
<1>3. ServerFits(s) /\ s.cards = lines /\ s.life = life
  BY <1>1, <1>2 DEF ServerFits
<1> QED BY <1>3 DEF s

Follows(s, t) == ServerFits(t) /\ Continues(s, t)

(* A session in another state, with the same cards or with one more, follows. *)
LEMMA SessionFollows ==
    ASSUME NEW s \in Servers, NEW life \in Lives, NEW req \in Numbers,
           NEW answered \in SUBSET (1..MaxRequests), NEW queue \in Seq(Texts),
           life \in {"permission", "input"} => req # 0, life # "absent"
    PROVE  /\ Follows(s, Session(life, req, s.cards, answered, queue))
           /\ \A p \in Texts : Follows(s, Session(life, req, Append(s.cards, p), answered, queue))
<1>1. s.cards \in Seq(Texts) /\ \A p \in Texts : Append(s.cards, p) \in Seq(Texts)
  BY DEF Servers
<1>2. ASSUME NEW lines \in Seq(Texts)
      PROVE  LET t == Session(life, req, lines, answered, queue) IN
             ServerFits(t) /\ t.cards = lines /\ t.life = life
  BY <1>2, SessionFitsIn
<1>3. Follows(s, Session(life, req, s.cards, answered, queue))
  BY <1>1, <1>2, SameCards DEF Follows
<1>4. ASSUME NEW p \in Texts
      PROVE  Follows(s, Session(life, req, Append(s.cards, p), answered, queue))
  BY <1>1, <1>2, OneCard DEF Follows
<1> QED BY <1>3, <1>4

(* The changes that a request makes of the session, or the session of itself. *)
LEMMA ChangesFollow ==
    ASSUME NEW s, ServerFits(s)
    PROVE  /\ \A life \in Lives \ {"absent", "permission", "input"} :
                 /\ Follows(s, WithLife(s, life))
                 /\ Follows(s, WithQueue(WithLife(s, life), <<>>))
                 /\ \A p \in Texts : Follows(s, WithCards(WithLife(s, life), Append(s.cards, p)))
                 /\ \A a \in SUBSET (1..MaxRequests) : Follows(s, WithAnswered(WithLife(s, life), a))
           /\ \A life \in Lives \ {"absent"}, req \in Numbers \ {0} :
                 Follows(s, WithReq(WithLife(s, life), req))
           /\ s.life # "absent" =>
                 \A q \in Seq(Texts) :
                    /\ Follows(s, WithQueue(s, q))
                    /\ \A p \in Texts : Follows(s, WithQueue(WithCards(s, Append(s.cards, p)), q))
<1>1. /\ s \in Servers /\ s = Session(s.life, s.req, s.cards, s.answered, s.queue)
      /\ s.life \in Lives /\ s.req \in Numbers
      /\ s.answered \in SUBSET (1..MaxRequests) /\ s.queue \in Seq(Texts)
      /\ <<>> \in Seq(Texts)
      /\ s.life \in {"permission", "input"} => s.req # 0
  BY SessionIs DEF ServerFits, Servers
<1>2. ASSUME NEW x
      PROVE  /\ WithLife(s, x) = Session(x, s.req, s.cards, s.answered, s.queue)
             /\ WithCards(s, x) = Session(s.life, s.req, x, s.answered, s.queue)
             /\ WithQueue(s, x) = Session(s.life, s.req, s.cards, s.answered, x)
  BY <1>1, SessionWith
<1>3. ASSUME NEW life \in Lives \ {"absent", "permission", "input"}
      PROVE  /\ Follows(s, WithLife(s, life))
             /\ Follows(s, WithQueue(WithLife(s, life), <<>>))
             /\ \A p \in Texts : Follows(s, WithCards(WithLife(s, life), Append(s.cards, p)))
             /\ \A a \in SUBSET (1..MaxRequests) : Follows(s, WithAnswered(WithLife(s, life), a))
  <2>1. life \in Lives /\ life # "absent" /\ (life \in {"permission", "input"} => s.req # 0)
    BY <1>3
  <2>2. Follows(s, WithLife(s, life))
    BY <1>1, <1>2, <2>1, SessionFollows
  <2>3. Follows(s, WithQueue(WithLife(s, life), <<>>))
    <3>1. WithQueue(WithLife(s, life), <<>>) = Session(life, s.req, s.cards, s.answered, <<>>)
      BY <1>2, SessionWith
    <3> QED BY <1>1, <2>1, <3>1, SessionFollows
  <2>4. ASSUME NEW p \in Texts
        PROVE  Follows(s, WithCards(WithLife(s, life), Append(s.cards, p)))
    <3>1. WithCards(WithLife(s, life), Append(s.cards, p)) =
              Session(life, s.req, Append(s.cards, p), s.answered, s.queue)
      BY <1>2, SessionWith
    <3> QED BY <1>1, <2>1, <3>1, SessionFollows
  <2>5. ASSUME NEW a \in SUBSET (1..MaxRequests)
        PROVE  Follows(s, WithAnswered(WithLife(s, life), a))
    <3>1. WithAnswered(WithLife(s, life), a) = Session(life, s.req, s.cards, a, s.queue)
      BY <1>2, SessionWith
    <3> QED BY <1>1, <2>1, <3>1, SessionFollows
  <2> QED BY <2>2, <2>3, <2>4, <2>5
<1>4. ASSUME NEW life \in Lives \ {"absent"}, NEW req \in Numbers \ {0}
      PROVE  Follows(s, WithReq(WithLife(s, life), req))
  <2>1. WithReq(WithLife(s, life), req) = Session(life, req, s.cards, s.answered, s.queue)
    BY <1>2, SessionWith
  <2> QED BY <1>1, <2>1, SessionFollows
<1>5. ASSUME s.life # "absent", NEW q \in Seq(Texts)
      PROVE  /\ Follows(s, WithQueue(s, q))
             /\ \A p \in Texts : Follows(s, WithQueue(WithCards(s, Append(s.cards, p)), q))
  <2>1. Follows(s, WithQueue(s, q))
    BY <1>1, <1>2, <1>5, SessionFollows
  <2>2. ASSUME NEW p \in Texts PROVE Follows(s, WithQueue(WithCards(s, Append(s.cards, p)), q))
    <3>1. WithQueue(WithCards(s, Append(s.cards, p)), q) =
              Session(s.life, s.req, Append(s.cards, p), s.answered, q)
      BY <1>2, SessionWith
    <3> QED BY <1>1, <1>5, <3>1, SessionFollows
  <2> QED BY <2>1, <2>2
<1> QED BY <1>3, <1>4, <1>5

(* Whatever a request makes of the session, the session goes on. *)
LEMMA OutcomeFollows ==
    ASSUME ServerFits(server), NEW r \in UiRequest, NEW t \in Outcomes(r)
    PROVE  Follows(server, t)
<1>1. /\ {"running", "over"} \subseteq Lives \ {"absent", "permission", "input"}
      /\ server.answered \in SUBSET (1..MaxRequests) /\ server.queue \in Seq(Texts)
  BY DEF ServerFits, Servers, Lives
<1>2. CASE r.kind \in {"start", "follow_up"}
  <2>1. t = WithCards(WithLife(server, "running"), Append(server.cards, r.text))
    BY <1>2, Zenon DEF Outcomes, WithCards, WithLife
  <2>2. r.text \in Texts
    BY <1>2 DEF UiRequest, Submission
  <2> QED BY <1>1, <2>1, <2>2, ChangesFollow
<1>3. CASE r.kind = "queue"
  <2>1. t = WithQueue(server, Append(server.queue, r.text)) /\ server.life # "absent"
    BY <1>3, Zenon DEF Outcomes, WithQueue
  <2>2. Append(server.queue, r.text) \in Seq(Texts)
    BY <1>1, <1>3 DEF UiRequest, Submission
  <2> QED BY <2>1, <2>2, ChangesFollow
<1>4. CASE r.kind = "answer"
  <2>1. /\ t = WithAnswered(WithLife(server, "running"), server.answered \cup {r.id})
        /\ server.life = "input" /\ server.req = r.id
    BY <1>4, Zenon DEF Outcomes, WithAnswered, WithLife
  <2>2. server.answered \cup {r.id} \in SUBSET (1..MaxRequests)
    BY <1>1, <2>1, TuiAssumption DEF ServerFits, Servers, Numbers
  <2> QED BY <1>1, <2>1, <2>2, ChangesFollow
<1>5. CASE r.kind = "decide"
  <2>1. t = WithLife(server, "running")
    BY <1>5, Zenon DEF Outcomes, WithLife
  <2> QED BY <1>1, <2>1, ChangesFollow
<1>6. CASE r.kind \in {"reconcile", "cancel"}
  <2>1. t = WithQueue(WithLife(server, "over"), <<>>)
    BY <1>6, Zenon DEF Outcomes, WithQueue, WithLife
  <2> QED BY <1>1, <2>1, ChangesFollow
<1>7. CASE r.kind = "fork"
  <2>1. t = server /\ Len(server.cards) \in Nat
    BY <1>7 DEF Outcomes, ServerFits, Servers
  <2> QED BY <2>1 DEF Follows, Continues
<1>8. r.kind \in {"start", "follow_up", "queue", "answer", "decide", "reconcile", "cancel", "fork"}
  BY DEF UiRequest, Submission
<1> QED BY <1>2, <1>3, <1>4, <1>5, <1>6, <1>7, <1>8

(* The answers under way stay what they are. *)
LEMMA ReplyFits ==
    ASSUME TuiInv, NEW r \in UiRequest, NEW ok \in BOOLEAN, Reply(r, ok)
    PROVE  /\ feedback' \in Seq(Feedback)
           /\ \A i \in 1..Len(feedback') : feedback'[i].kind = "assigned" => feedback'[i].id # 0
<1> DEFINE kind == CASE r.kind = "fork" -> "forked"
                     [] r.kind # "fork" /\ ok -> "ok"
                     [] r.kind = "answer" /\ ~ok -> "answer_error"
                     [] OTHER -> "error"
           a == [kind |-> kind, id |-> r.id]
<1>1. /\ feedback \in Seq(Feedback)
      /\ \A i \in 1..Len(feedback) : feedback[i].kind = "assigned" => feedback[i].id # 0
  BY DEF TuiInv
<1>2. feedback' = feedback \/ feedback' = Append(feedback, a)
  BY DEF Reply
<1>5. kind \in {"ok", "error", "answer_error", "forked"}
  OBVIOUS
<1> HIDE DEF kind
<1>3. r.id \in Nat
  BY TuiAssumption DEF UiRequest
<1>4. a \in Feedback /\ a.kind # "assigned"
  BY <1>3, <1>5 DEF Feedback
<1> HIDE DEF a
<1> QED BY <1>1, <1>2, <1>4

(* A step of the server leaves the UI alone. *)
LEMMA ServerFitsUi ==
    ASSUME TuiInv, Follows(server, server'),
           wake' \in {"none", "changed", "closed"},
           UNCHANGED <<ui, loop, frame, typed>>,
           requests' \subseteq requests,
           feedback' \in Seq(Feedback),
           \A i \in 1..Len(feedback') : feedback'[i].kind = "assigned" => feedback'[i].id # 0
    PROVE  TuiInv'
<1>1. UiFits(ui, server', typed.submitted, frame)
  BY ContinuesFits DEF TuiInv, Follows, ServerFits
<1> QED BY <1>1 DEF TuiInv, Follows, AnswerFitsQuestion

(* What the server does with a request keeps the invariant of the UI. *)
LEMMA ServeKeepsTui == ASSUME TuiInv, NEW r \in requests, Serve(r) PROVE TuiInv'
<1>1. r \in UiRequest /\ ServerFits(server) /\ wake \in {"none", "changed", "closed"}
  BY DEF TuiInv
<1>2. /\ UNCHANGED <<ui, loop, frame, typed>> /\ requests' \subseteq requests
      /\ \/ server' \in Outcomes(r) /\ Changed /\ Reply(r, TRUE)
         \/ Reply(r, FALSE) /\ UNCHANGED <<server, wake>>
  BY DEF Serve
<1>3. Follows(server, server')
  <2>1. Follows(server, server)
    <3>1. Len(server.cards) \in Nat
      BY <1>1 DEF ServerFits, Servers
    <3> QED BY <1>1, <3>1 DEF Follows, Continues
  <2>2. CASE server' \in Outcomes(r)
    BY <1>1, <2>2, OutcomeFollows
  <2>3. CASE server' = server
    BY <2>1, <2>3
  <2> QED BY <1>2, <2>2, <2>3
<1>4. wake' \in {"none", "changed", "closed"}
  BY <1>1, <1>2 DEF Changed
<1>5. PICK ok \in BOOLEAN : Reply(r, ok)
  BY <1>2
<1> QED BY <1>1, <1>2, <1>3, <1>4, <1>5, ReplyFits, ServerFitsUi

(* An answer that is given up keeps the invariant of the UI. *)
LEMMA TimeOutKeeps == ASSUME TuiInv, NEW r \in requests, TimeOut(r) PROVE TuiInv'
<1> DEFINE q == [r EXCEPT !.lost = TRUE]
<1>1. r \in UiRequest /\ (r.kind = "answer" => r.value = r.id)
  BY DEF TuiInv, AnswerFitsQuestion
<1>2. /\ requests' = (requests \ {r}) \cup {q} /\ Reply(r, FALSE)
      /\ UNCHANGED <<server, ui, loop, wake, frame, typed>>
  BY DEF TimeOut
<1>3. q \in UiRequest /\ (q.kind = "answer" => q.value = q.id)
  <2>1. ASSUME NEW yes \in BOOLEAN
        PROVE  LET p == [r EXCEPT !.lost = yes] IN
               p \in UiRequest /\ (p.kind = "answer" => p.value = p.id)
    <3>1. CASE r \in [kind: Submission, id: 1..MaxSubmissions, text: Texts, lost: BOOLEAN]
      BY <1>1, <2>1, <3>1 DEF UiRequest, Submission
    <3>2. CASE r \in [kind: {"answer", "decide", "reconcile", "cancel", "fork"},
                      id: 0..MaxRequests, value: 0..MaxRequests, lost: BOOLEAN]
      BY <1>1, <2>1, <3>2 DEF UiRequest
    <3> QED BY <1>1, <3>1, <3>2 DEF UiRequest
  <2>2. TRUE \in BOOLEAN
    OBVIOUS
  <2> QED BY <2>1, <2>2
<1> HIDE DEF q
<1>4. requests' \subseteq UiRequest /\ AnswerFitsQuestion'
  BY <1>2, <1>3 DEF TuiInv, AnswerFitsQuestion
<1>5. /\ feedback' \in Seq(Feedback)
      /\ \A i \in 1..Len(feedback') : feedback'[i].kind = "assigned" => feedback'[i].id # 0
  BY <1>1, <1>2, ReplyFits
<1> QED BY <1>2, <1>4, <1>5 DEF TuiInv
(* The turn of the session goes on, stops or ends, by itself or by another client. *)
LEMMA TurnFollows ==
    ASSUME ServerFits(server), TurnStops \/ TurnEnds \/ RivalSettles
    PROVE  Follows(server, server')
<1>1. /\ {"running", "over", "ready"} \subseteq Lives \ {"absent", "permission", "input"}
      /\ {"permission", "input", "reconciliation"} \subseteq Lives \ {"absent"}
      /\ server.req \in Numbers /\ server.queue \in Seq(Texts)
  BY DEF ServerFits, Servers, Lives
<1>2. CASE TurnStops
  <2>1. PICK life \in {"permission", "input", "reconciliation"} :
           server' = [server EXCEPT !.life = life, !.req = @ + 1]
    BY <1>2 DEF TurnStops
  <2>2. server' = WithReq(WithLife(server, life), server.req + 1)
    BY <2>1, Zenon DEF WithReq, WithLife
  <2>3. server.req + 1 \in Numbers \ {0}
    BY <1>1, <1>2, TuiAssumption DEF TurnStops, Numbers
  <2>4. life \in Lives \ {"absent"}
    BY <1>1
  <2> QED BY <2>2, <2>3, <2>4, ChangesFollow
<1>3. CASE TurnEnds
  <2>1. CASE server' = [server EXCEPT !.life = "over", !.queue = <<>>]
    <3>1. server' = WithQueue(WithLife(server, "over"), <<>>)
      BY <2>1, Zenon DEF WithQueue, WithLife
    <3> QED BY <1>1, <3>1, ChangesFollow
  <2>2. CASE server.queue = <<>> /\ server' = [server EXCEPT !.life = "ready"]
    <3>1. server' = WithLife(server, "ready")
      BY <2>2, Zenon DEF WithLife
    <3> QED BY <1>1, <3>1, ChangesFollow
  <2>3. CASE /\ server.queue # <<>>
             /\ server' = [server EXCEPT !.cards = Append(@, Head(server.queue)),
                                         !.queue = Tail(@)]
    <3>1. server' = WithQueue(WithCards(server, Append(server.cards, Head(server.queue))),
                              Tail(server.queue))
      BY <2>3, Zenon DEF WithQueue, WithCards
    <3>2. Head(server.queue) \in Texts /\ Tail(server.queue) \in Seq(Texts)
      BY <1>1, <2>3
    <3>3. server.life # "absent"
      BY <1>3 DEF TurnEnds
    <3> QED BY <3>1, <3>2, <3>3, ChangesFollow
  <2> QED BY <1>3, <2>1, <2>2, <2>3 DEF TurnEnds
<1>4. CASE RivalSettles
  <2> DEFINE life == IF server.life = "reconciliation" THEN "over" ELSE "running"
  <2>1. server' = WithLife(server, life)
    BY <1>4, Zenon DEF RivalSettles, WithLife
  <2>2. life \in Lives \ {"absent", "permission", "input"}
    BY <1>1
  <2> HIDE DEF life
  <2> QED BY <2>1, <2>2, ChangesFollow
<1> QED BY <1>2, <1>3, <1>4

(* The invariant of the UI holds at first. *)
LEMMA TuiStarts == ASSUME TuiInit PROVE TuiInv
<1>1. /\ 0 \in Numbers /\ NoText \in Editors /\ "absent" \in Lives /\ <<>> \in Seq(Texts)
      /\ 1 \in 1..(MaxSubmissions + 1)
  BY TuiAssumption DEF Numbers, Editors, Lives
<1>2. ServerFits(server)
  BY <1>1 DEF TuiInit, ServerFits, Servers
<1>3. NoView \in View /\ NoPending \in Pending
  BY <1>1, TuiAssumption DEF NoView, View, NoPending, Pending, Numbers, Editors
<1>4. ui \in UIs
  <2> DEFINE d == [composer |-> NoText, deferred |-> NoText, pending |-> NoPending, failed |-> FALSE]
             f == [input |-> 0, target |-> 0, answer |-> 0, value |-> 0, failed |-> FALSE]
  <2>1. d \in Drafts /\ f \in Forms
    BY <1>1, <1>3 DEF Drafts, Forms
  <2>2. ui = [conv |-> "draft", view |-> NoView, connection |-> "connected", draft |-> d,
              form |-> f, rendered |-> 0, confirm |-> 0, nextId |-> 1]
    BY DEF TuiInit
  <2> HIDE DEF d, f
  <2> QED BY <1>1, <1>3, <2>1, <2>2 DEF UIs
<1>5. UiFits(ui, server, typed.submitted, frame)
  BY <1>4 DEF UiFits, Fits, ViewFits, DraftFits, FormFits, FormHolds, Started, AtRequest, Life,
     TuiInit, NoView, NoPending
<1>6. /\ loop = "tick" /\ wake = "none" /\ feedback = <<>> /\ requests = {} /\ frame = {}
      /\ typed = [all |-> {}, submitted |-> {}, forked |-> FALSE]
  BY DEF TuiInit
<1> QED BY <1>2, <1>5, <1>6 DEF TuiInv, AnswerFitsQuestion, TypedSets

(* Every step keeps the invariant of the UI. *)
LEMMA TuiSteps == ASSUME TuiInv, [TuiNext]_tuiVars PROVE TuiInv'
<1>1. CASE Tick
  BY <1>1, TickKeeps
<1>2. CASE TickFails \/ Quit
  BY <1>2 DEF TickFails, Quit, TuiInv, AnswerFitsQuestion
<1>3. CASE \/ NoKey \/ Decide \/ OpenConfirmation \/ Confirm \/ Cancel \/ SwitchSession
           \/ AskFork \/ Refresh
  BY <1>3, OtherKeysKeep
<1>4. CASE Submit \/ TypeInput \/ SubmitInput \/ \E p \in Texts : TypeText(p)
  BY <1>4, SubmitKeeps, TypeInputKeeps, SubmitInputKeeps, TypeTextKeeps
<1>5. CASE \E r \in requests : Serve(r) \/ TimeOut(r)
  BY <1>5, ServeKeepsTui, TimeOutKeeps
<1>6. CASE TurnStops \/ TurnEnds \/ RivalSettles
  <2>1. Follows(server, server')
    BY <1>6, TurnFollows DEF TuiInv
  <2>2. Changed /\ UNCHANGED <<ui, loop, feedback, requests, frame, typed>>
    BY <1>6 DEF TurnStops, TurnEnds, RivalSettles
  <2>3. /\ wake' \in {"none", "changed", "closed"}
        /\ feedback' \in Seq(Feedback)
        /\ \A i \in 1..Len(feedback') : feedback'[i].kind = "assigned" => feedback'[i].id # 0
    BY <2>2 DEF Changed, TuiInv
  <2> QED BY <2>1, <2>2, <2>3, ServerFitsUi
<1>7. CASE BridgeCloses
  BY <1>7 DEF BridgeCloses, TuiInv, AnswerFitsQuestion
<1>8. CASE UNCHANGED tuiVars
  BY <1>8 DEF tuiVars, TuiInv, AnswerFitsQuestion
<1> QED BY <1>1, <1>2, <1>3, <1>4, <1>5, <1>6, <1>7, <1>8 DEF TuiNext, Keys

(* The invariant of the UI holds throughout. *)
LEMMA TuiKept == TuiSpec => []TuiInv
<1>1. TuiInit => TuiInv
  BY TuiStarts
<1>2. TuiInv /\ [TuiNext]_tuiVars => TuiInv'
  BY TuiSteps
<1> QED BY <1>1, <1>2, PTL DEF TuiSpec

(* Of the session in the terminal UI: no prompt that was submitted is lost, and no answer is
   sent to another request than it was typed for (TuiSessionCorrect), whatever the order of
   keys, snapshots, answers and wake-ups (reduce, drain_runtime_updates). *)
THEOREM UiSessionSafety == TuiSpec => []TuiSessionCorrect
<1>1. TuiInv => TuiSessionCorrect
  <2> SUFFICES ASSUME TuiInv PROVE TuiSessionCorrect
    OBVIOUS
  <2>1. /\ server \in Servers /\ ui \in UIs /\ UiFits(ui, server, typed.submitted, frame)
        /\ ui.draft.pending \in Pending
    BY DEF TuiInv, ServerFits, UiFits, Fits, UIs, Drafts
  <2>2. TuiTypeOK
    BY <2>1 DEF TuiInv, TuiTypeOK, Servers, UIs, Drafts, Forms, Numbers, Editors, UiFits, Fits,
       DraftFits, TypedSets
  <2>3. SubmittedIsKept
    <3> SUFFICES ASSUME NEW t \in typed.submitted
                 PROVE  t \in {ui.draft.composer, ui.draft.deferred, ui.draft.pending.text}
                             \cup ToSet(server.cards)
      BY DEF SubmittedIsKept
    <3>1. CASE Carded(t, server)
      BY <2>1, <3>1 DEF Carded, ToSet, Servers
    <3>2. CASE ~Carded(t, server)
      BY <2>1, <3>2 DEF UiFits, Fits, DraftFits
    <3> QED BY <3>1, <3>2
  <2> QED BY <2>2, <2>3 DEF TuiInv, TuiSessionCorrect
<1> QED BY <1>1, TuiKept, PTL

(* A decision that is asked for is on a request that a frame has shown. *)
LEMMA DecidedIsSeen ==
    ASSUME TuiInv, [TuiNext]_tuiVars, NEW r \in requests' \ requests, r.kind = "decide"
    PROVE  r.id \in frame
<1>1. ASSUME NEW kind, NEW id, NEW value, Ask(kind, id, value) PROVE kind = "decide" /\ r.id = id
  BY <1>1 DEF Ask
<1>2. CASE Decide
  <2>1. r.id = ui.view.req /\ ui.rendered = ui.view.req /\ Life(ui) = "permission"
    BY <1>1, <1>2 DEF Decide
  <2> QED BY <2>1 DEF TuiInv, UiFits, Fits, ViewFits, Life
<1>3. CASE SubmitInput \/ Confirm \/ Cancel \/ AskFork
  BY <1>1, <1>3 DEF SubmitInput, Confirm, Cancel, AskFork
<1>4. CASE Submit
  BY <1>4 DEF Submit
<1>5. CASE \E q \in requests : Serve(q) \/ TimeOut(q)
  <2>1. PICK q \in requests : Serve(q) \/ TimeOut(q)
    BY <1>5
  <2>2. CASE Serve(q)
    BY <2>2 DEF Serve
  <2>3. CASE TimeOut(q)
    <3>1. r = [q EXCEPT !.lost = TRUE] /\ q.kind \in Submission \cup {"answer"}
      BY <2>3 DEF TimeOut
    <3>2. r.kind = q.kind
      BY <2>1, <3>1 DEF TuiInv, UiRequest
    <3> QED BY <3>1, <3>2 DEF Submission
  <2> QED BY <2>1, <2>2, <2>3
<1>6. CASE /\ ~(Decide \/ SubmitInput \/ Confirm \/ Cancel \/ AskFork \/ Submit)
           /\ ~(\E q \in requests : Serve(q) \/ TimeOut(q))
  BY <1>6 DEF TuiNext, Keys, tuiVars, Tick, TickFails, NoKey, TypeInput, OpenConfirmation,
     SwitchSession, Refresh, Quit, TypeText, TurnStops, TurnEnds, RivalSettles, BridgeCloses
<1> QED BY <1>2, <1>3, <1>4, <1>5, <1>6

(* A permission is decided only after a frame has shown it (NoUnseenDecision). *)
THEOREM DecisionsAreSeen == TuiSpec => NoUnseenDecision
<1>1. TuiInv /\ [TuiNext]_tuiVars =>
         \A r \in requests' \ requests : r.kind = "decide" => r.id \in frame
  BY DecidedIsSeen
<1> QED BY <1>1, TuiKept, PTL DEF TuiSpec, NoUnseenDecision

-----------------------------------------------------------------------------
(* The screen of the terminal UI *)

Places == [row: Nat, column: Nat]

ScreenInv ==
    /\ terminal \in [w: Nat, h: Nat]
    /\ shows \in {"idle", "active", "complete", "permission", "reconciliation"}
    /\ editor \in Seq(0..3)
    /\ popup \in 0..Builtins

(* The next grapheme is put at some row and column. *)
LEMMA PlacedFits ==
    ASSUME NEW at \in Places, NEW g \in 0..3, NEW w \in Nat
    PROVE  Placed(at, g, w) \in Places
<1>1. at.row \in Nat /\ at.column \in Nat
  BY DEF Places
<1>2. ASSUME NEW c \in Nat PROVE WidthAt(g, c) \in Nat
  BY DEF WidthAt, Tab
<1> DEFINE full == at.column > 0 /\ at.column + WidthAt(g, at.column) > w
           start == IF full THEN 0 ELSE at.column
           step == IF g = Tab THEN Least2(WidthAt(g, start), w) ELSE WidthAt(g, start)
           row == IF full THEN at.row + 1 ELSE at.row
           column == start + step
<1>3. start \in Nat /\ row \in Nat
  BY <1>1
<1> HIDE DEF start, row
<1>4. step \in Nat
  BY <1>2, <1>3 DEF Least2
<1> HIDE DEF step
<1>5. column \in Nat
  BY <1>3, <1>4
<1>6. Placed(at, g, w) = IF g = NewLine THEN [row |-> at.row + 1, column |-> 0]
                         ELSE [row |-> row, column |-> column]
  BY DEF Placed, row, step, start
<1> HIDE DEF column
<1> QED BY <1>1, <1>3, <1>5, <1>6 DEF Places

(* The editor has a caret, and as many rows as it takes to reach it. *)
LEMMA LayoutFits ==
    ASSUME NEW text \in Seq(0..3), NEW width \in Nat
    PROVE  ComposerLayout(text, width) \in Places
<1> DEFINE w == Most2(width, 1)
           N == Len(text)
           b == [row |-> 0, column |-> 0]
           s == [n \in 1..N |-> [v \in Places |-> Placed(v, text[n], w)]]
           Is(f) == f = [n \in 0..N |-> IF n = 0 THEN b ELSE Placed(f[n - 1], text[n], w)]
           at == CHOOSE f : Is(f)
           T == {n \in 0..N : at[n] \notin Places}
<1>1. N \in Nat /\ b \in Places /\ w \in Nat
  BY DEF Places, Most2
<1> HIDE DEF w, b
<1>2. ASSUME NEW n \in 1..N, NEW v \in Places PROVE Placed(v, text[n], w) \in Places
  <2>1. text[n] \in 0..3
    OBVIOUS
  <2> QED BY <1>1, <2>1, PlacedFits
<1>3. PICK f : Iterates(f, Places, b, s, N)
  <2>1. s \in [1..N -> [Places -> Places]]
    BY <1>2
  <2> HIDE DEF s, N
  <2> QED BY <1>1, <2>1, IterationExists
<1>4. f \in [0..N -> Places] /\ f[0] = b
  BY <1>3 DEF Iterates
<1>5. ASSUME NEW n \in 1..N PROVE f[n] = Placed(f[n - 1], text[n], w)
  <2>1. f[n - 1] \in Places
    BY <1>1, <1>4
  <2>2. f[n] = s[n][f[n - 1]]
    BY <1>3 DEF Iterates
  <2> QED BY <2>1, <2>2
<1> HIDE DEF s
<1>6. Is(f)
  <2>1. \A n \in 0..N : f[n] = IF n = 0 THEN b ELSE Placed(f[n - 1], text[n], w)
    BY <1>1, <1>4, <1>5
  <2> HIDE DEF N
  <2> QED BY <1>4, <2>1
<1>7. Is(at)
  <2> HIDE DEF Is
  <2> QED BY <1>6
<1>8. \A n \in 0..N : at[n] = IF n = 0 THEN b ELSE Placed(at[n - 1], text[n], w)
  <2> HIDE DEF at, N
  <2> QED BY <1>7
<1>9. ComposerLayout(text, width) =
          IF at[N].column >= w THEN [row |-> at[N].row + 1, column |-> 0] ELSE at[N]
  BY DEF ComposerLayout, w, b
<1> HIDE DEF at, Is
<1>10. at[N] \in Places
  <2> SUFFICES ASSUME T # {} PROVE FALSE
    BY <1>1
  <2>1. PICK k \in T : \A j \in T : k <= j
    <3>1. T \in SUBSET Nat
      OBVIOUS
    <3> HIDE DEF T
    <3> QED BY <3>1, LeastNumber
  <2>2. k \in 0..N /\ at[k] \notin Places
    OBVIOUS
  <2>3. k # 0
    BY <1>1, <1>8, <2>2
  <2>4. k - 1 \in 0..N /\ k \in 1..N /\ ~(k <= k - 1)
    BY <1>1, <2>2, <2>3
  <2>5. at[k - 1] \in Places
    <3>1. k - 1 \notin T
      <4> HIDE DEF T
      <4> QED BY <2>1, <2>4
    <3> QED BY <2>4, <3>1
  <2>6. at[k] = Placed(at[k - 1], text[k], w)
    BY <1>8, <2>2, <2>3
  <2> QED BY <1>2, <2>2, <2>4, <2>5, <2>6
<1> QED BY <1>9, <1>10 DEF Places

(* Half of what is left of a width but one. *)
LEMMA HalfIs ==
    ASSUME NEW w \in Nat
    PROVE  /\ Less(w, 1) \div 2 \in Nat
           /\ w > 0 => 2 * (Less(w, 1) \div 2) < w
<1>1. Less(w, 1) \in Nat /\ (w > 0 => Less(w, 1) = w - 1)
  BY DEF Less
<1>2. ASSUME NEW n \in Nat PROVE n \div 2 \in Nat /\ 2 * (n \div 2) <= n
  OBVIOUS
<1> QED BY <1>1, <1>2

(* The rows of a frame, when the editor takes k rows more than one. *)
RowsOf(a, k) ==
    LET h == terminal.h
        desired == BaseComposer(shows, a.tier, h) + k
        wanted == DesiredHeader(shows, a.tier, h)
        compact == shows = "idle" /\ (AppWidth < 40 \/ h < wanted + desired + 1)
    IN /\ a.tier = Tier(AppWidth)
       /\ a.header = Least2(IF compact THEN CompactHeader(h) ELSE wanted, Less(h, Least2(h, 2)))
       /\ a.composer = ComposerHeight(desired, a.header, h)
       /\ a.transcript = Less(Less(h, a.header), a.composer)
       /\ a.width = Less(AppWidth, 2 * BoundedInset(AppWidth, TranscriptInset(a.tier)))
       /\ a.inset \in Nat

(* The layout of the moment shares out the rows so. *)
LEMMA LayoutRows ==
    ASSUME ScreenInv, NEW a, a = Layout
    PROVE  \E k \in 0..4 : RowsOf(a, k)
<1> DEFINE w == AppWidth
           t == Tier(w)
           inset == BoundedInset(w, IF shows = "idle" THEN IdleComposerInset(t)
                                                      ELSE CompactInset(t))
           text == EditorRows(editor, Less(w, 2 * inset + 2))
           k == Least2(text - 1, 4)
<1>1. w \in Nat
  BY DEF ScreenInv, AppWidth, Least2
<1> HIDE DEF w
<1>2. inset \in Nat
  <2> DEFINE sought == IF shows = "idle" THEN IdleComposerInset(t) ELSE CompactInset(t)
  <2>1. sought \in Nat
    BY DEF IdleComposerInset, CompactInset
  <2> HIDE DEF sought
  <2>2. BoundedInset(w, sought) \in Nat
    BY <1>1, <2>1, HalfIs DEF BoundedInset, Least2
  <2> QED BY <2>2 DEF sought
<1> HIDE DEF inset
<1>3. Less(w, 2 * inset + 2) \in Nat
  BY <1>1, <1>2 DEF Less
<1>4. text - 1 \in Nat
  <2>1. ComposerLayout(editor, Less(w, 2 * inset + 2)) \in Places
    BY <1>3, LayoutFits DEF ScreenInv
  <2> QED BY <2>1 DEF EditorRows, Places
<1> HIDE DEF text
<1>5. k \in 0..4
  <2>1. ASSUME NEW n \in Nat PROVE Least2(n, 4) \in 0..4
    BY DEF Least2
  <2> QED BY <1>4, <2>1
<1>6. RowsOf(a, k)
  <2>1. /\ a.tier = t /\ a.inset = inset
        /\ a.width = Less(w, 2 * BoundedInset(w, TranscriptInset(t)))
    BY DEF Layout, w, inset, t
  <2>2. a.header = Least2(IF shows = "idle" /\ (w < 40 \/ terminal.h <
                                 DesiredHeader(shows, t, terminal.h)
                                 + (BaseComposer(shows, t, terminal.h) + k) + 1)
                          THEN CompactHeader(terminal.h)
                          ELSE DesiredHeader(shows, t, terminal.h),
                          Less(terminal.h, Least2(terminal.h, 2)))
    BY DEF Layout, w, inset, t, text
  <2>3. a.composer = ComposerHeight(BaseComposer(shows, t, terminal.h) + k, a.header, terminal.h)
    BY <2>2 DEF Layout, w, inset, t, text
  <2>4. a.transcript = Less(Less(terminal.h, a.header), a.composer)
    BY <2>2, <2>3 DEF Layout, w, inset, t, text
  <2> HIDE DEF k, t
  <2> QED BY <1>2, <2>1, <2>2, <2>3, <2>4 DEF RowsOf, w, t
<1> QED BY <1>5, <1>6

(* What a frame of an open session has: its header, its composer and its transcript. *)
RowsFit(a) ==
    /\ a.header \in Nat /\ a.composer \in Nat /\ a.transcript \in Nat
    /\ a.header + a.transcript + a.composer = terminal.h
    /\ terminal.h >= 2 => a.composer >= 2
    /\ terminal.h >= 6 => a.transcript >= 1
    /\ a.composer <= 9

(* The header, the composer and the transcript have all the rows, and their share of them. *)
LEMMA RowsShared ==
    ASSUME ScreenInv, NEW a, NEW k \in 0..4, RowsOf(a, k)
    PROVE  RowsFit(a)
<1> DEFINE h == terminal.h
           d == BaseComposer(shows, a.tier, h) + k
           wanted == DesiredHeader(shows, a.tier, h)
           compact == shows = "idle" /\ (AppWidth < 40 \/ h < wanted + d + 1)
           small == CompactHeader(h)
<1>1. /\ h \in Nat /\ d \in 3..9 /\ wanted \in Nat /\ small \in 0..5
      /\ shows # "idle" => wanted \in 2..3
  <2>1. BaseComposer(shows, a.tier, h) \in 3..5
    BY DEF BaseComposer
  <2>2. wanted \in Nat /\ (shows # "idle" => wanted \in 2..3)
    <3> USE DEF DesiredHeader, RowsOf, Tier
    <3> QED BY DEF ScreenInv
  <2>3. small \in 0..5
    BY DEF CompactHeader, ScreenInv
  <2> QED BY <2>1, <2>2, <2>3 DEF ScreenInv
<1>2. compact => (6 <= h /\ h <= 9 => small = 2) /\ (h <= 2 => small = 0)
                 /\ (h \in 3..5 => small = 1)
  BY <1>1 DEF CompactHeader
<1>3. /\ a.header = Least2(IF compact THEN small ELSE wanted, Less(h, Least2(h, 2)))
      /\ a.composer = ComposerHeight(d, a.header, h)
      /\ a.transcript = Less(Less(h, a.header), a.composer)
  BY DEF RowsOf
<1>4. ~compact => shows # "idle" \/ h >= wanted + d + 1
  BY <1>1
<1> HIDE DEF h, d, wanted, small, compact
<1>5. /\ a.header \in Nat /\ a.header + Least2(h, 2) <= h
      /\ h >= 6 => a.header + 3 <= h
  <2>1. CASE compact
    BY <1>1, <1>2, <1>3, <2>1 DEF Least2, Less
  <2>2. CASE ~compact
    BY <1>1, <1>3, <1>4, <2>2 DEF Least2, Less
  <2> QED BY <2>1, <2>2
<1>6. /\ a.composer \in Nat /\ a.header + a.composer <= h /\ a.composer <= 9
      /\ h >= 2 => a.composer >= 2
      /\ h >= 6 => a.header + a.composer + 1 <= h
  BY <1>1, <1>3, <1>5 DEF ComposerHeight, Least2, Less
<1>7. a.transcript = h - a.header - a.composer
  BY <1>1, <1>3, <1>5, <1>6 DEF Less
<1> QED BY <1>1, <1>5, <1>6, <1>7 DEF RowsFit, h

(* A row of the transcript is left for the request in six rows, and three for what it is
   about in fourteen. *)
LEMMA DecisionFits ==
    ASSUME ScreenInv, NEW a, NEW k \in 0..4, RowsOf(a, k)
    PROVE  DecisionInView(a)
<1> DEFINE h == terminal.h
           d == BaseComposer(shows, a.tier, h) + k
           c == BlockingCard(a)
<1> SUFFICES ASSUME shows \in Blocking, terminal.w > 0, h >= 6
             PROVE  /\ "asked" \in CardTells(a)
                    /\ h >= 14 => "keys" \in CardTells(a)
  BY DEF DecisionInView, ScreenInv
<1>1. RowsFit(a) /\ h \in Nat /\ terminal.w \in Nat
  BY RowsShared DEF ScreenInv
<1>2. a.width > 0
  <2> DEFINE w == AppWidth
             sought == TranscriptInset(a.tier)
             side == BoundedInset(w, sought)
  <2>1. w \in Nat /\ w > 0
    BY <1>1 DEF AppWidth, Least2
  <2>2. sought \in Nat
    BY DEF TranscriptInset
  <2> HIDE DEF w, sought
  <2>3. side \in Nat /\ 2 * side < w
    BY <2>1, <2>2, HalfIs DEF BoundedInset, Least2
  <2>4. a.width = Less(w, 2 * side)
    BY DEF RowsOf, w, sought
  <2> HIDE DEF side
  <2> QED BY <2>1, <2>3, <2>4 DEF Less
<1>3. h >= 14 => a.transcript >= 4
  <2>1. /\ shows # "idle" /\ BaseComposer(shows, a.tier, h) \in 3..5
        /\ h < 18 => BaseComposer(shows, a.tier, h) = 3
    BY DEF BaseComposer, Blocking
  <2>2. DesiredHeader(shows, a.tier, h) \in 2..3
    BY <2>1 DEF DesiredHeader
  <2>3. /\ a.header = Least2(DesiredHeader(shows, a.tier, h), Less(h, Least2(h, 2)))
        /\ a.composer = ComposerHeight(d, a.header, h)
        /\ a.transcript = Less(Less(h, a.header), a.composer)
    BY <2>1 DEF RowsOf
  <2> DEFINE wanted == DesiredHeader(shows, a.tier, h)
  <2>4. d \in 3..9 /\ (h < 18 => d <= 7)
    BY <2>1
  <2> HIDE DEF wanted, d
  <2>5. h >= 14 => a.header <= 3 /\ a.composer <= d
    BY <1>1, <2>2, <2>3, <2>4 DEF ComposerHeight, Least2, Less, wanted, RowsFit
  <2> QED BY <1>1, <2>4, <2>5 DEF RowsFit
<1> DEFINE rows == CardRows(shows)
           compact == rows + 2 > a.transcript
           shown == IF compact THEN 3 ELSE rows
           below == IF a.transcript > shown THEN 1 ELSE 0
           height == Least2(shown, Less(a.transcript, below))
<1>4. rows \in 7..8 /\ a.transcript \in Nat /\ a.transcript >= 1
  BY <1>1 DEF CardRows, RowsFit
<1>5. c.height = height /\ c.compact = compact
  BY <1>2 DEF BlockingCard
<1> HIDE DEF rows, c
<1>6. height \in Nat /\ height >= 1 /\ (a.transcript >= 4 => height >= 3) /\ (~compact => height >= 3)
  BY <1>4 DEF Least2, Less
<1> HIDE DEF height, compact
<1>7. CardTells(a) =
          CASE height = 0 -> {}
            [] compact /\ height = 1 -> {"asked"}
            [] compact /\ height = 2 -> {"asked", "target"}
            [] OTHER -> {"asked", "target", "keys"}
  BY <1>5 DEF CardTells, c
<1>8. height >= 3 => CardTells(a) = {"asked", "target", "keys"}
  BY <1>6, <1>7
<1>9. height \in {1, 2} => "asked" \in CardTells(a)
  BY <1>6, <1>7
<1> QED BY <1>3, <1>6, <1>8, <1>9

(* The rows of the prompt are within the composer, and the caret within them. *)
LEMMA CaretFits ==
    ASSUME ScreenInv, NEW a, NEW k \in 0..4, RowsOf(a, k)
    PROVE  CaretInView(a)
<1> DEFINE width == Less(Less(AppWidth, 2 * a.inset), 2)
           caret == ComposerLayout(editor, width).row
           p == Prompt(a)
<1> SUFFICES ASSUME terminal.h >= 2
             PROVE  /\ CaretRow(a) \in p.top..(a.composer - 1 - p.bottom)
                    /\ CaretRow(a) - p.top + VisibleStart(a) = caret
  BY DEF CaretInView
<1>1. RowsFit(a) /\ a.composer \in Nat /\ a.composer >= 2
  BY RowsShared DEF RowsFit
<1>2. caret \in Nat
  <2>1. AppWidth \in Nat /\ a.inset \in Nat
    BY DEF ScreenInv, AppWidth, Least2, RowsOf
  <2>2. width \in Nat
    BY <2>1 DEF Less
  <2> HIDE DEF width
  <2> QED BY <2>2, LayoutFits DEF ScreenInv, Places
<1>3. /\ CaretRow(a) = Least2(p.top + Less(caret, VisibleStart(a)), p.top + p.height - 1)
      /\ VisibleStart(a) = Less(caret + 1, p.height)
  BY DEF CaretRow, VisibleStart, EditorRows
<1> HIDE DEF caret, width
<1>4. /\ p.top \in Nat /\ p.height \in Nat /\ p.height >= 1 /\ p.bottom \in Nat
      /\ p.top + p.height + p.bottom <= a.composer
  <2> DEFINE n == a.composer
             top == IF n >= 3 THEN 1 ELSE 0
             footer == CASE n <= 1 -> 0
                         [] a.tier = "narrow" /\ n >= 4 -> 2
                         [] OTHER -> 1
             divider == IF n >= top + footer + 2 THEN 1 ELSE 0
             height == Most2(Less(Less(Less(n, top), divider), footer), 1)
  <2>1. p.top = top /\ p.bottom = divider + footer /\ p.height = height
    BY DEF Prompt
  <2>2. n \in Nat /\ n >= 2
    BY <1>1
  <2>3. footer \in 0..2 /\ (n < 4 => footer = 1)
    BY <2>2
  <2> HIDE DEF n, footer
  <2>4. /\ top \in Nat /\ height \in Nat /\ height >= 1 /\ divider + footer \in Nat
        /\ top + height + (divider + footer) <= n
    BY <2>2, <2>3 DEF Most2, Less
  <2> HIDE DEF top, divider, height, p
  <2> QED BY <2>1, <2>4 DEF n
<1> HIDE DEF p
<1> QED BY <1>1, <1>2, <1>3, <1>4 DEF Least2, Less

(* What is selected is listed. *)
LEMMA SelectionFits ==
    ASSUME ScreenInv, NEW a, RowsFit(a) PROVE SelectionInView(a)
<1> DEFINE available == a.header + a.transcript
           width == Less(AppWidth, 2 * a.inset)
           visible == Less(Least2(Builtins + 3, available), 3)
           start == Least2(Less(popup, visible), Less(Builtins, visible))
<1> SUFFICES ASSUME popup > 0, Suggested(a) # {} PROVE popup \in Suggested(a)
  BY DEF SelectionInView
<1>1. /\ Suggested(a) = (start + 1)..Least2(start + visible, Builtins)
      /\ visible # 0
  BY DEF Suggested
<1>2. popup \in Nat /\ popup <= Builtins /\ Builtins \in Nat /\ available \in Nat
  BY ScreenAssumption DEF ScreenInv, RowsFit
<1> HIDE DEF available
<1>3. visible \in Nat /\ visible >= 1
  BY <1>1, <1>2 DEF Less, Least2
<1> HIDE DEF visible
<1>4. start \in Nat /\ start + 1 <= popup /\ popup <= start + visible
  BY <1>2, <1>3 DEF Less, Least2
<1> HIDE DEF start
<1> QED BY <1>1, <1>2, <1>3, <1>4 DEF Least2

(* The header tells the state of a session, or what a prompt would run in. *)
LEMMA WholeCard ==
    ASSUME NEW rows \in {5, 7} PROVE CardFacts(rows) = ToSet(Environment)
<1>1. CardFacts(rows) = ToSet(SubSeq(Environment, 1, 3))
  BY DEF CardFacts, Less, Least2
<1>2. SubSeq(Environment, 1, 3) = Environment
  <2>1. Environment \in Seq({"model", "directory", "permissions"}) /\ Len(Environment) = 3
    BY DEF Environment
  <2> QED BY <2>1
<1> QED BY <1>1, <1>2

(* The header that is drawn, and what is drawn in it. *)
LEMMA HeaderFits ==
    ASSUME ScreenInv, NEW a, NEW k \in 0..4, RowsOf(a, k)
    PROVE  HeaderInView(a)
<1> DEFINE h == terminal.h
           w == AppWidth
           t == Tier(w)
           d == BaseComposer(shows, t, h) + k
           wanted == DesiredHeader(shows, t, h)
           compact == shows = "idle" /\ (w < 40 \/ h < wanted + d + 1)
           small == CompactHeader(h)
<1>1. RowsFit(a) /\ h \in Nat /\ w \in Nat
  BY RowsShared DEF ScreenInv, AppWidth, Least2
<1>2. /\ a.tier = t
      /\ a.header = Least2(IF compact THEN small ELSE wanted, Less(h, Least2(h, 2)))
      /\ a.composer = ComposerHeight(d, a.header, h)
      /\ a.transcript = Less(Less(h, a.header), a.composer)
  BY DEF RowsOf
<1>3. t \in {"wide", "medium", "narrow"}
  BY DEF Tier
<1>4. d \in 3..9 /\ (shows = "idle" => d \in 4..9)
  BY DEF BaseComposer, Blocking
<1>5. shows # "idle" => wanted \in 2..3
  BY DEF DesiredHeader
<1>6. shows = "idle" =>
          /\ t = "wide" => wanted = IF h >= 52 THEN 20 ELSE 12
          /\ t = "medium" => wanted = 15
          /\ t = "narrow" => wanted = 12
  BY <1>3 DEF DesiredHeader
<1>7. /\ small \in 0..5 /\ (h >= 10 => small = 5)
      /\ small <= h /\ (h >= 3 => small >= 1)
  BY <1>1 DEF CompactHeader
<1>8. WholeWelcome(a) <=> a.header >= DesiredHeader("idle", t, h) /\ w >= 40
  BY <1>2 DEF WholeWelcome
<1>9. HeaderTells(a) =
          CASE a.header = 0 -> {}
            [] a.header > 0 /\ shows # "idle" -> {"status"}
            [] OTHER -> IF WholeWelcome(a) THEN CardFacts(EnvironmentCard(t, h).rows)
                        ELSE ConstrainedFacts(Less(a.header, 2))
  BY <1>2 DEF HeaderTells
<1>10. /\ EnvironmentCard(t, h).rows \in {5, 7}
       /\ t = "wide" => EnvironmentCard(t, h) = [top |-> IF h >= 52 THEN 4 ELSE 2, rows |-> 7]
       /\ t = "medium" => EnvironmentCard(t, h) = [top |-> 7, rows |-> 7]
       /\ t = "narrow" => EnvironmentCard(t, h) = [top |-> 5, rows |-> 5]
  BY <1>3 DEF EnvironmentCard
<1> DEFINE card == EnvironmentCard(t, h)
<1> HIDE DEF h, w, t, d, wanted, small, card
<1>11. a.header \in Nat
  BY <1>1 DEF RowsFit
<1>12. shows # "idle" /\ h >= 3 => "status" \in HeaderTells(a)
  <2> SUFFICES ASSUME shows # "idle", h >= 3 PROVE "status" \in HeaderTells(a)
    OBVIOUS
  <2>1. a.header >= 1
    BY <1>1, <1>2, <1>5 DEF Least2, Less
  <2> QED BY <1>9, <1>11, <2>1
<1>13. shows = "idle" /\ h >= 10 => HeaderTells(a) = ToSet(Environment)
  <2> SUFFICES ASSUME shows = "idle", h >= 10 PROVE HeaderTells(a) = ToSet(Environment)
    OBVIOUS
  <2>1. wanted = DesiredHeader("idle", t, h)
    BY DEF wanted
  <2>2. wanted \in {12, 15, 20}
    BY <1>3, <1>6
  <2>3. a.header >= 5 /\ (compact \/ (a.header >= wanted /\ w >= 40))
    BY <1>1, <1>2, <1>4, <1>7, <2>2 DEF Least2, Less
  <2>4. compact => a.header = 5
    <3>1. compact => a.header = Least2(small, Less(h, Least2(h, 2)))
      BY <1>2
    <3> HIDE DEF compact
    <3> QED BY <1>1, <1>7, <3>1 DEF Least2, Less
  <2>5. CASE WholeWelcome(a)
    <3>1. HeaderTells(a) = CardFacts(EnvironmentCard(t, h).rows)
      BY <1>9, <1>11, <2>3, <2>5
    <3> QED BY <1>10, <3>1, WholeCard
  <2>6. CASE ~WholeWelcome(a)
    <3>1. a.header = 5
      BY <1>8, <2>1, <2>3, <2>4, <2>6
    <3>2. HeaderTells(a) = ConstrainedFacts(3)
      BY <1>9, <2>6, <3>1 DEF Less
    <3> QED BY <3>2 DEF ConstrainedFacts
  <2> QED BY <2>5, <2>6
<1>14. shows = "idle" /\ WholeWelcome(a) => card.top + card.rows < a.header
  <2> SUFFICES ASSUME shows = "idle", WholeWelcome(a) PROVE card.top + card.rows < a.header
    OBVIOUS
  <2>1. a.header >= wanted
    BY <1>8 DEF wanted
  <2>2. /\ t = "wide" => card = [top |-> IF h >= 52 THEN 4 ELSE 2, rows |-> 7]
        /\ t = "medium" => card = [top |-> 7, rows |-> 7]
        /\ t = "narrow" => card = [top |-> 5, rows |-> 5]
    BY <1>10 DEF card
  <2>3. /\ t = "wide" => card.top = (IF h >= 52 THEN 4 ELSE 2) /\ card.rows = 7
        /\ t = "medium" => card.top = 7 /\ card.rows = 7
        /\ t = "narrow" => card.top = 5 /\ card.rows = 5
    BY <2>2
  <2> HIDE DEF card
  <2>4. CASE t = "wide"
    BY <1>1, <1>6, <1>11, <2>1, <2>3, <2>4
  <2>5. CASE t = "medium"
    BY <1>6, <1>11, <2>1, <2>3, <2>5
  <2>6. CASE t = "narrow"
    BY <1>6, <1>11, <2>1, <2>3, <2>6
  <2> QED BY <1>3, <2>4, <2>5, <2>6
<1>15. shows = "idle" /\ h >= 28 => RefusalRow(t, h) < a.transcript
  <2> SUFFICES ASSUME shows = "idle", h >= 28 PROVE RefusalRow(t, h) < a.transcript
    OBVIOUS
  <2>1. /\ t = "wide" => RefusalRow(t, h) = IF h >= 52 THEN 4 ELSE 3
        /\ t = "medium" => RefusalRow(t, h) = 2
        /\ t = "narrow" => RefusalRow(t, h) = 1
    BY DEF RefusalRow
  <2>2. /\ t = "wide" /\ h >= 52 => a.header <= 20
        /\ t = "wide" /\ h < 52 => a.header <= 12
        /\ t = "medium" => a.header <= 15
        /\ t = "narrow" => a.header <= 12
    <3>1. wanted \in Nat /\ (a.header <= small \/ a.header <= wanted)
      <4>1. wanted \in Nat
        BY <1>3, <1>6
      <4>2. \/ a.header = Least2(small, Less(h, Least2(h, 2)))
            \/ a.header = Least2(wanted, Less(h, Least2(h, 2)))
        BY <1>2
      <4> QED BY <1>1, <1>7, <4>1, <4>2 DEF Least2, Less
    <3> QED BY <1>1, <1>3, <1>6, <1>7, <1>11, <3>1
  <2>3. a.composer <= 9 /\ a.transcript = h - a.header - a.composer /\ a.composer \in Nat
    BY <1>1 DEF RowsFit, h
  <2>4. a.header \in Nat /\ a.transcript \in Nat
    BY <1>1 DEF RowsFit
  <2>5. CASE t = "wide" /\ h >= 52
    BY <1>1, <2>1, <2>2, <2>3, <2>4, <2>5
  <2>6. CASE t = "wide" /\ h < 52
    BY <1>1, <2>1, <2>2, <2>3, <2>4, <2>6
  <2>7. CASE t = "medium"
    BY <1>1, <2>1, <2>2, <2>3, <2>4, <2>7
  <2>8. CASE t = "narrow"
    BY <1>1, <2>1, <2>2, <2>3, <2>4, <2>8
  <2> QED BY <1>1, <1>3, <2>5, <2>6, <2>7, <2>8
<1>16. a.tier = t
  BY <1>2
<1> QED BY <1>12, <1>13, <1>14, <1>15, <1>16 DEF HeaderInView, h, card

(* What a frame shows is right in every state of the invariant. *)
LEMMA FrameFits ==
    ASSUME ScreenInv PROVE TuiScreenCorrect
<1> SUFFICES ASSUME NEW a \in {Layout}
             PROVE  /\ RowsAreShared(a) /\ DecisionInView(a) /\ CaretInView(a)
                    /\ SelectionInView(a) /\ HeaderInView(a)
  BY DEF TuiScreenCorrect
<1>1. PICK k \in 0..4 : RowsOf(a, k)
  BY LayoutRows
<1>2. RowsFit(a)
  BY <1>1, RowsShared
<1>3. RowsAreShared(a)
  BY <1>2 DEF RowsFit, RowsAreShared, ScreenInv
<1> QED BY <1>1, <1>2, <1>3, DecisionFits, CaretFits, SelectionFits, HeaderFits

(* The invariant of the screen holds at first. *)
LEMMA ScreenStarts == ScreenInit => ScreenInv
<1> SUFFICES ASSUME ScreenInit PROVE ScreenInv
  OBVIOUS
<1>1. terminal \in [w: Nat, h: Nat]
  BY ScreenAssumption DEF ScreenInit
<1> QED BY <1>1, ScreenAssumption DEF ScreenInit, ScreenInv

(* Every step keeps the invariant of the screen. *)
LEMMA ScreenSteps == ScreenInv /\ [ScreenNext]_screenVars => ScreenInv'
<1> SUFFICES ASSUME ScreenInv, [ScreenNext]_screenVars PROVE ScreenInv'
  OBVIOUS
<1>1. /\ terminal \in [w: Nat, h: Nat] /\ editor \in Seq(0..3)
      /\ popup \in 0..Builtins /\ Builtins \in Nat \ {0}
      /\ shows \in {"idle", "active", "complete", "permission", "reconciliation"}
  BY ScreenAssumption DEF ScreenInv
<1>2. CASE Resize
  <2>1. terminal' \in [w: Nat, h: Nat]
    BY <1>2, ScreenAssumption DEF Resize
  <2> QED BY <1>1, <1>2, <2>1 DEF Resize, ScreenInv
<1>3. ASSUME NEW state \in {"active", "complete"} \cup Blocking, NEW lines,
             Redrawn(state, lines)
      PROVE  ScreenInv'
  <2>1. shows' \in {"idle", "active", "complete", "permission", "reconciliation"}
    BY <1>3 DEF Redrawn, Blocking
  <2>2. popup' \in 0..Builtins
    BY <1>1, <1>3 DEF Redrawn
  <2> QED BY <1>1, <1>3, <2>1, <2>2 DEF Redrawn, ScreenInv
<1>4. CASE SessionMoves
  <2>1. PICK state \in {"active", "complete"} \cup Blocking : Redrawn(state, items)
    BY <1>4 DEF SessionMoves
  <2> QED BY <1>3, <2>1
<1>5. CASE CardArrives
  <2>1. PICK i \in Item : Redrawn("active", Append(items, i))
    BY <1>5 DEF CardArrives
  <2> QED BY <1>3, <2>1
<1>6. CASE Resolved
  BY <1>3, <1>6 DEF Resolved
<1>7. CASE Expand
  BY <1>1, <1>7 DEF Expand, ScreenInv
<1>8. CASE Type
  <2>1. PICK g \in Graphemes : editor' = Append(editor, g)
    BY <1>8 DEF Type
  <2>2. g \in 0..3
    BY ScreenAssumption
  <2>3. editor' \in Seq(0..3)
    BY <1>1, <2>1, <2>2
  <2> QED BY <1>1, <1>8, <2>3 DEF Type, ScreenInv
<1>9. CASE Erase
  <2>1. Front(editor) \in Seq(0..3)
    BY <1>1, <1>9 DEF Erase, Front
  <2> QED BY <1>1, <1>9, <2>1 DEF Erase, ScreenInv
<1>10. CASE Slash
  <2>1. <<1>> \in Seq(0..3)
    OBVIOUS
  <2> QED BY <1>1, <1>10, <2>1 DEF Slash, ScreenInv
<1>11. CASE SlashMoves
  <2>1. popup' \in 0..Builtins
    BY <1>1, <1>11 DEF SlashMoves, Least2, Most2
  <2> QED BY <1>1, <1>11, <2>1 DEF SlashMoves, ScreenInv
<1>12. CASE Scroll
  BY <1>1, <1>12 DEF Scroll, ScreenInv
<1>13. CASE UNCHANGED screenVars
  BY <1>1, <1>13 DEF screenVars, ScreenInv
<1> QED BY <1>2, <1>4, <1>5, <1>6, <1>7, <1>8, <1>9, <1>10, <1>11, <1>12, <1>13
        DEF ScreenNext

(* In a terminal of any size, whatever is typed into the editor and however
   the view is scrolled or resized: the rows are shared out exactly, the
   request that waits is in view with its keys, and so are the caret, the
   suggestion that Enter would run, and the state of the session or what a
   prompt would run in (viewport_layout, render and the functions below it). *)
THEOREM ScreenSafety == ScreenSpec => []TuiScreenCorrect
<1>1. ScreenSpec => []ScreenInv
  BY ScreenStarts, ScreenSteps, PTL DEF ScreenSpec
<1>2. ScreenInv => TuiScreenCorrect
  BY FrameFits
<1> QED BY <1>1, <1>2, PTL

-----------------------------------------------------------------------------
(* The transcript of the terminal UI *)

Kinds == {"user", "call", "started", "result", "error", "unknown", "completion"}
CallFates == {"prepared", "waiting", "started", "done", "failed", "refused", "unknown"}
ChatLives == {"ready", "running", "permission", "reconciliation", "over"}
Labels == CallNames \cup {0}

CardSet == [kind: Kinds, turn: Nat, name: Labels, n: Nat]
CallSet == [turn: Nat, name: Labels, is: CallFates]

(* The order of the cards of one call. *)
Rank(kind) == CASE kind = "call" -> 1 [] kind = "started" -> 2 [] OTHER -> 3

(* The calls of one turn have different ids. *)
CallsFit(put) ==
    /\ put \in Seq(CallSet)
    /\ \A i, j \in DOMAIN put :
           i # j /\ put[i].turn = put[j].turn => put[i].name # put[j].name

(* A card is about its call, and tells nothing that did not become of it. *)
CardFits(c, put) ==
    /\ c.n = 0 <=> c.kind \in {"user", "completion"}
    /\ c.n # 0 =>
          /\ c.n \in DOMAIN put
          /\ c.turn = put[c.n].turn
          /\ c.kind \in {"call", "result", "error"} => c.name = put[c.n].name
          /\ c.kind = "started" => put[c.n].is \in {"started", "done", "failed", "unknown"}
          /\ c.kind = "result" => put[c.n].is = "done"
          /\ c.kind = "error" => put[c.n].is \in {"failed", "refused"}
          /\ c.kind = "unknown" => put[c.n].is = "unknown"

(* The cards of one call come in order, each once. *)
CardsFit(rows, put) ==
    /\ rows \in Seq(CardSet)
    /\ \A i \in DOMAIN rows : CardFits(rows[i], put)
    /\ \A i, j \in DOMAIN rows :
           i < j /\ rows[i].n # 0 /\ rows[i].n = rows[j].n
               => Rank(rows[i].kind) < Rank(rows[j].kind)

Has(rows, k, kind, n) == \E p \in 1..k : rows[p].kind = kind /\ rows[p].n = n

(* What became of a call has its card, if the call has. *)
FatesFit(rows, put) ==
    \A i \in DOMAIN rows : rows[i].kind = "call" =>
        /\ put[rows[i].n].is = "started" => Has(rows, Len(rows), "started", rows[i].n)
        /\ put[rows[i].n].is = "done" => Has(rows, Len(rows), "result", rows[i].n)
        /\ put[rows[i].n].is \in {"failed", "refused"} =>
               Has(rows, Len(rows), "error", rows[i].n)

(* Only the last call is in hand, and the lifecycle tells how. *)
LifeFits(c, rows, put) ==
    /\ c.life \in {"ready", "over"} => c.active = NoTurn
    /\ \A i \in DOMAIN put : put[i].is \in {"prepared", "waiting", "started"} =>
           /\ i = Len(put)
           /\ put[i].turn = c.active
           /\ c.life = IF put[i].is = "waiting" THEN "permission" ELSE "running"
    /\ c.life = "permission" =>
           /\ Len(put) > 0 /\ Len(rows) > 0
           /\ c.pending = Len(put)
           /\ put[Len(put)].is = "waiting"
           /\ rows[Len(rows)].kind = "call"
           /\ rows[Len(rows)].n = c.pending
    /\ c.life = "reconciliation" =>
           Len(rows) > 0 /\ rows[Len(rows)].kind = "unknown"

RowsFitCalls(rows, put) == CallsFit(put) /\ CardsFit(rows, put) /\ FatesFit(rows, put)

(* The UI holds the end of some transcript, with the calls as they were. *)
ViewOfCards(v) == RowsFitCalls(v.tail, v.calls) /\ LifeFits(v, v.tail, v.calls)

TranscriptInv ==
    /\ chat \in [life: ChatLives, active: Nat, turns: Nat, pending: Nat]
    /\ RowsFitCalls(cards, calls)
    /\ LifeFits(chat, cards, calls)
    /\ ViewOfCards(held)
    /\ progress \in Seq([kind: {"delta", "attempt"}, turn: Nat])
    /\ Len(progress) <= MaxProgress

(* The end of a transcript. *)
IsEndOf(tail, rows) ==
    /\ tail \in Seq(CardSet)
    /\ Len(tail) <= Len(rows)
    /\ Len(rows) > 0 => Len(tail) > 0
    /\ \A i \in DOMAIN tail : tail[i] = rows[i + (Len(rows) - Len(tail))]

(* The tail of a snapshot is the end of the cards, and is empty only if they are. *)
LEMMA WindowIsEndOf ==
    ASSUME cards \in Seq(CardSet) PROVE IsEndOf(Window, cards)
<1>1. TailCards \in Nat \ {0} /\ Len(cards) \in Nat
  BY TranscriptAssumption
<1>2. CASE Len(cards) <= TailCards
  <2>1. Window = cards
    BY <1>2 DEF Window
  <2>2. \A i \in DOMAIN cards : i + (Len(cards) - Len(cards)) = i
    OBVIOUS
  <2> QED BY <1>1, <2>1, <2>2 DEF IsEndOf
<1>3. CASE ~(Len(cards) <= TailCards)
  <2> DEFINE m == Len(cards) - TailCards + 1
             tail == SubSeq(cards, m, Len(cards))
  <2>1. Window = tail
    BY <1>3 DEF Window
  <2>2. m \in 1..Len(cards) /\ Len(cards) - m + 1 = TailCards
    BY <1>1, <1>3
  <2>3. /\ tail \in Seq(CardSet) /\ Len(tail) = TailCards
        /\ \A i \in 1..TailCards : tail[i] = cards[m + i - 1]
    <3> HIDE DEF m
    <3> QED BY <1>1, <2>2
  <2>4. \A i \in 1..TailCards : m + i - 1 = i + (Len(cards) - TailCards)
    BY <1>1
  <2> HIDE DEF tail, m
  <2>5. DOMAIN tail = 1..TailCards
    BY <2>3
  <2> QED BY <1>1, <1>3, <2>1, <2>3, <2>4, <2>5 DEF IsEndOf
<1> QED BY <1>2, <1>3

(* What holds of the transcript holds of its end. *)
LEMMA SuffixFits ==
    ASSUME NEW rows, NEW put, NEW tail, IsEndOf(tail, rows), RowsFitCalls(rows, put)
    PROVE  RowsFitCalls(tail, put)
<1> DEFINE d == Len(rows) - Len(tail)
<1>1. /\ rows \in Seq(CardSet) /\ tail \in Seq(CardSet)
      /\ Len(tail) \in Nat /\ Len(rows) \in Nat /\ d \in Nat
  BY DEF IsEndOf, RowsFitCalls, CardsFit
<1>2. \A i \in DOMAIN tail : i \in Nat /\ i + d \in DOMAIN rows /\ tail[i] = rows[i + d]
  BY <1>1 DEF IsEndOf
<1>3. CardsFit(tail, put)
  <2>1. \A i \in DOMAIN tail : CardFits(tail[i], put)
    BY <1>2 DEF RowsFitCalls, CardsFit
  <2>2. ASSUME NEW i \in DOMAIN tail, NEW j \in DOMAIN tail, i < j,
               tail[i].n # 0, tail[i].n = tail[j].n
        PROVE  Rank(tail[i].kind) < Rank(tail[j].kind)
    <3>1. i + d < j + d
      BY <1>1, <1>2, <2>2
    <3> HIDE DEF d
    <3> QED BY <1>2, <2>2, <3>1 DEF RowsFitCalls, CardsFit
  <2> QED BY <1>1, <2>1, <2>2 DEF CardsFit
<1>4. FatesFit(tail, put)
  <2> SUFFICES ASSUME NEW i \in DOMAIN tail, tail[i].kind = "call"
               PROVE  /\ put[tail[i].n].is = "started" => Has(tail, Len(tail), "started", tail[i].n)
                      /\ put[tail[i].n].is = "done" => Has(tail, Len(tail), "result", tail[i].n)
                      /\ put[tail[i].n].is \in {"failed", "refused"} =>
                             Has(tail, Len(tail), "error", tail[i].n)
    BY DEF FatesFit
  <2> DEFINE n == tail[i].n
  <2>1. i + d \in DOMAIN rows /\ rows[i + d].kind = "call" /\ rows[i + d].n = n
    BY <1>2
  <2>2. n # 0
    BY <2>1 DEF RowsFitCalls, CardsFit, CardFits
  <2>3. ASSUME NEW kind \in {"started", "result", "error"}, Has(rows, Len(rows), kind, n)
        PROVE  Has(tail, Len(tail), kind, n)
    <3>1. PICK p \in 1..Len(rows) : rows[p].kind = kind /\ rows[p].n = n
      BY <2>3 DEF Has
    <3>2. p \in DOMAIN rows /\ p \in Nat /\ i \in Nat
      BY <1>1
    <3>3. i + d < p
      <4>1. ~(Rank(kind) < Rank("call")) /\ kind # "call"
        BY DEF Rank
      <4>2. p # i + d
        BY <2>1, <3>1, <4>1
      <4>3. ~(p < i + d)
        BY <2>1, <2>2, <3>1, <3>2, <4>1 DEF RowsFitCalls, CardsFit
      <4> QED BY <1>1, <3>2, <4>2, <4>3
    <3>4. p - d \in 1..Len(tail) /\ p - d + d = p
      BY <1>1, <3>2, <3>3
    <3>5. tail[p - d] = rows[p]
      <4>1. p - d \in DOMAIN tail
        BY <1>1, <3>4
      <4>2. tail[p - d] = rows[p - d + d]
        BY <1>2, <4>1
      <4> QED BY <3>4, <4>2
    <3> HIDE DEF d, n
    <3> QED BY <3>1, <3>4, <3>5 DEF Has
  <2>4. /\ put[n].is = "started" => Has(rows, Len(rows), "started", n)
        /\ put[n].is = "done" => Has(rows, Len(rows), "result", n)
        /\ put[n].is \in {"failed", "refused"} => Has(rows, Len(rows), "error", n)
    BY <2>1 DEF RowsFitCalls, FatesFit
  <2> QED BY <2>3, <2>4
<1> QED BY <1>3, <1>4 DEF RowsFitCalls

(* One card more. *)
LEMMA CardAdded ==
    ASSUME NEW rows \in Seq(CardSet), NEW c \in CardSet
    PROVE  LET new == Append(rows, c) IN
           /\ new \in Seq(CardSet) /\ Len(new) = Len(rows) + 1
           /\ new[Len(new)] = c
           /\ \A i \in DOMAIN rows : i \in DOMAIN new /\ new[i] = rows[i]
           /\ \A i \in DOMAIN new : i \in DOMAIN rows \/ i = Len(new)
  OBVIOUS

(* What a longer transcript has. *)
LEMMA HasStays ==
    ASSUME NEW rows \in Seq(CardSet), NEW c \in CardSet, NEW kind, NEW n
    PROVE  Has(Append(rows, c), Len(Append(rows, c)), kind, n) <=>
               Has(rows, Len(rows), kind, n) \/ (c.kind = kind /\ c.n = n)
<1> DEFINE new == Append(rows, c)
<1>1. /\ new \in Seq(CardSet) /\ Len(new) = Len(rows) + 1 /\ new[Len(new)] = c
      /\ \A i \in DOMAIN rows : i \in DOMAIN new /\ new[i] = rows[i]
      /\ \A i \in DOMAIN new : i \in DOMAIN rows \/ i = Len(new)
  BY CardAdded
<1>2. DOMAIN rows = 1..Len(rows) /\ DOMAIN new = 1..Len(new) /\ Len(new) \in DOMAIN new
  BY <1>1
<1> HIDE DEF new
<1>3. Has(new, Len(new), kind, n) <=> Has(rows, Len(rows), kind, n) \/ (c.kind = kind /\ c.n = n)
  BY <1>1, <1>2 DEF Has
<1> QED BY <1>3 DEF new

(* A card that is about no call, or follows the cards of its call. *)
LEMMA CardFollows ==
    ASSUME NEW rows, NEW put, CardsFit(rows, put), NEW c \in CardSet, CardFits(c, put),
           \A i \in DOMAIN rows : rows[i].n # 0 /\ rows[i].n = c.n =>
                                      Rank(rows[i].kind) < Rank(c.kind)
    PROVE  CardsFit(Append(rows, c), put)
<1> DEFINE new == Append(rows, c)
<1>0. rows \in Seq(CardSet)
  BY DEF CardsFit
<1>1. /\ new \in Seq(CardSet) /\ Len(new) = Len(rows) + 1 /\ new[Len(new)] = c
      /\ \A i \in DOMAIN rows : i \in DOMAIN new /\ new[i] = rows[i]
      /\ \A i \in DOMAIN new : i \in DOMAIN rows \/ i = Len(new)
  BY <1>0, CardAdded
<1>2. DOMAIN new = 1..Len(new) /\ Len(rows) \in Nat /\ DOMAIN rows = 1..Len(rows)
  BY <1>0, <1>1
<1> HIDE DEF new
<1>3. \A i \in DOMAIN new : CardFits(new[i], put)
  BY <1>1 DEF CardsFit
<1>4. ASSUME NEW i \in DOMAIN new, NEW j \in DOMAIN new, i < j, new[i].n # 0,
             new[i].n = new[j].n
      PROVE  Rank(new[i].kind) < Rank(new[j].kind)
  <2>1. i \in DOMAIN rows
    BY <1>1, <1>2, <1>4
  <2>2. CASE j \in DOMAIN rows
    BY <1>1, <1>4, <2>1, <2>2 DEF CardsFit
  <2>3. CASE j = Len(new)
    BY <1>1, <1>4, <2>1, <2>3
  <2> QED BY <1>1, <2>2, <2>3
<1> QED BY <1>1, <1>3, <1>4 DEF CardsFit, new

(* A card that is about no call changes nothing of them. *)
LEMMA PlainCard ==
    ASSUME NEW rows, NEW put, RowsFitCalls(rows, put), NEW c \in CardSet,
           c.kind \in {"user", "completion"}, c.n = 0
    PROVE  RowsFitCalls(Append(rows, c), put)
<1>1. rows \in Seq(CardSet) /\ CardFits(c, put)
  BY DEF RowsFitCalls, CardsFit, CardFits
<1>2. CardsFit(Append(rows, c), put)
  <2>1. CardsFit(rows, put)
    BY DEF RowsFitCalls
  <2> QED BY <1>1, <2>1, CardFollows
<1>3. FatesFit(Append(rows, c), put)
  <2> DEFINE new == Append(rows, c)
  <2>1. \A i \in DOMAIN new : new[i].kind = "call" => i \in DOMAIN rows /\ new[i] = rows[i]
    BY <1>1, CardAdded
  <2>2. \A kind, n : Has(rows, Len(rows), kind, n) => Has(new, Len(new), kind, n)
    BY <1>1, HasStays
  <2> HIDE DEF new
  <2>3. FatesFit(new, put)
    BY <2>1, <2>2 DEF RowsFitCalls, FatesFit
  <2> QED BY <2>3 DEF new
<1> QED BY <1>2, <1>3 DEF RowsFitCalls

(* Another call, with its card. *)
LEMMA CallAdded ==
    ASSUME NEW rows, NEW put, RowsFitCalls(rows, put), NEW one \in CallSet,
           one.is \in {"prepared", "waiting"},
           \A i \in DOMAIN put : put[i].turn = one.turn => put[i].name # one.name,
           NEW c \in CardSet, c.kind = "call", c.n = Len(put) + 1, c.turn = one.turn,
           c.name = one.name
    PROVE  RowsFitCalls(Append(rows, c), Append(put, one))
<1> DEFINE more == Append(put, one)
           new == Append(rows, c)
<1>1. rows \in Seq(CardSet) /\ put \in Seq(CallSet) /\ Len(put) \in Nat
  BY DEF RowsFitCalls, CardsFit, CallsFit
<1>2. /\ more \in Seq(CallSet) /\ Len(more) = Len(put) + 1 /\ more[Len(more)] = one
      /\ DOMAIN put = 1..Len(put) /\ DOMAIN more = 1..Len(more)
      /\ \A i \in DOMAIN put : i \in DOMAIN more /\ more[i] = put[i]
      /\ \A i \in DOMAIN more : i \in DOMAIN put \/ i = Len(more)
  BY <1>1
<1> HIDE DEF more
<1>3. CallsFit(more)
  <2>1. \A i, j \in DOMAIN put : i # j /\ put[i].turn = put[j].turn => put[i].name # put[j].name
    BY DEF RowsFitCalls, CallsFit
  <2> QED BY <1>2, <2>1 DEF CallsFit
<1>4. CardsFit(rows, more) /\ \A i \in DOMAIN rows : rows[i].n # c.n
  <2>1. ASSUME NEW i \in DOMAIN rows PROVE CardFits(rows[i], more) /\ rows[i].n # c.n
    <3>1. CardFits(rows[i], put)
      BY DEF RowsFitCalls, CardsFit
    <3> QED BY <1>1, <1>2, <3>1 DEF CardFits
  <2> QED BY <2>1 DEF RowsFitCalls, CardsFit
<1>5. CardFits(c, more)
  BY <1>1, <1>2 DEF CardFits
<1>6. CardsFit(new, more)
  BY <1>4, <1>5, CardFollows
<1>7. FatesFit(new, more)
  <2>1. \A i \in DOMAIN new : new[i] = c \/ (i \in DOMAIN rows /\ new[i] = rows[i])
    BY <1>1, CardAdded
  <2>2. \A kind, n : Has(rows, Len(rows), kind, n) => Has(new, Len(new), kind, n)
    BY <1>1, HasStays
  <2>3. more[c.n].is \in {"prepared", "waiting"}
    BY <1>2
  <2>4. \A i \in DOMAIN rows : rows[i].kind = "call" => more[rows[i].n] = put[rows[i].n]
    <3>1. \A i \in DOMAIN rows : rows[i].kind = "call" => rows[i].n \in DOMAIN put
      BY DEF RowsFitCalls, CardsFit, CardFits
    <3> QED BY <1>2, <3>1
  <2> HIDE DEF new
  <2> QED BY <2>1, <2>2, <2>3, <2>4 DEF RowsFitCalls, FatesFit
<1> QED BY <1>3, <1>6, <1>7 DEF RowsFitCalls, more

(* The last call moves on. *)
WithFate(put, is) == [put EXCEPT ![Len(put)].is = is]

(* The calls after the last one has moved. *)
LEMMA FateIs ==
    ASSUME NEW put \in Seq(CallSet), Len(put) > 0, NEW is \in CallFates
    PROVE  LET new == WithFate(put, is) IN
           /\ new \in Seq(CallSet) /\ Len(new) = Len(put) /\ DOMAIN new = DOMAIN put
           /\ \A i \in DOMAIN put : /\ new[i].turn = put[i].turn
                                    /\ new[i].name = put[i].name
                                    /\ i # Len(put) => new[i].is = put[i].is
           /\ new[Len(put)].is = is
<1> DEFINE n == Len(put)
           new == WithFate(put, is)
           last == [put[n] EXCEPT !.is = is]
<1>1. n \in DOMAIN put /\ put[n] \in CallSet
  OBVIOUS
<1>2. last \in CallSet /\ last.turn = put[n].turn /\ last.name = put[n].name /\ last.is = is
  BY <1>1 DEF CallSet
<1>3. DOMAIN new = DOMAIN put /\ \A i \in DOMAIN put : new[i] = IF i = n THEN last ELSE put[i]
  BY DEF WithFate
<1> HIDE DEF last, new
<1>4. new \in Seq(CallSet) /\ Len(new) = Len(put)
  <2>1. DOMAIN put = 1..Len(put) /\ Len(put) \in Nat
    OBVIOUS
  <2>2. new = [i \in 1..Len(put) |-> IF i = n THEN last ELSE put[i]]
    BY <1>3, <2>1 DEF new, WithFate, last
  <2>3. \A i \in 1..Len(put) : put[i] \in CallSet
    OBVIOUS
  <2>4. new \in [1..Len(put) -> CallSet]
    BY <1>2, <2>2, <2>3
  <2> QED BY <2>1, <2>4
<1> QED BY <1>1, <1>2, <1>3, <1>4 DEF new

(* Consent, of which no card tells. *)
LEMMA CallAllowed ==
    ASSUME NEW rows, NEW put, RowsFitCalls(rows, put), Len(put) > 0,
           put[Len(put)].is = "waiting"
    PROVE  RowsFitCalls(rows, WithFate(put, "prepared"))
<1> DEFINE new == WithFate(put, "prepared")
<1>1. put \in Seq(CallSet) /\ "prepared" \in CallFates
  BY DEF RowsFitCalls, CallsFit, CallFates
<1>2. /\ new \in Seq(CallSet) /\ DOMAIN new = DOMAIN put
      /\ \A i \in DOMAIN put : /\ new[i].turn = put[i].turn
                               /\ new[i].name = put[i].name
                               /\ i # Len(put) => new[i].is = put[i].is
      /\ new[Len(put)].is = "prepared"
  BY <1>1, FateIs
<1> HIDE DEF new
<1>3. CallsFit(new)
  BY <1>2 DEF RowsFitCalls, CallsFit
<1>4. CardsFit(rows, new)
  <2>1. ASSUME NEW i \in DOMAIN rows PROVE CardFits(rows[i], new)
    <3>1. CardFits(rows[i], put)
      BY DEF RowsFitCalls, CardsFit
    <3> QED BY <1>2, <3>1 DEF CardFits
  <2> QED BY <2>1 DEF RowsFitCalls, CardsFit
<1>5. FatesFit(rows, new)
  <2>1. \A i \in DOMAIN rows : rows[i].kind = "call" => rows[i].n \in DOMAIN put
    BY DEF RowsFitCalls, CardsFit, CardFits
  <2> QED BY <1>2, <2>1 DEF RowsFitCalls, FatesFit
<1> QED BY <1>3, <1>4, <1>5 DEF RowsFitCalls, new

Told(from, kind, is) ==
    \/ from = "waiting" /\ kind = "error" /\ is = "refused"
    \/ from = "prepared" /\ kind = "started" /\ is = "started"
    \/ from = "started" /\ kind = "result" /\ is = "done"
    \/ from = "started" /\ kind = "error" /\ is = "failed"
    \/ from = "started" /\ kind = "unknown" /\ is = "unknown"

(* What becomes of the last call, with the card that tells it. *)
LEMMA FateTold ==
    ASSUME NEW rows, NEW put, RowsFitCalls(rows, put), Len(put) > 0,
           NEW kind, NEW is, Told(put[Len(put)].is, kind, is),
           NEW c \in CardSet, c.kind = kind, c.n = Len(put), c.turn = put[Len(put)].turn,
           kind \in {"result", "error"} => c.name = put[Len(put)].name
    PROVE  RowsFitCalls(Append(rows, c), WithFate(put, is))
<1> DEFINE new == WithFate(put, is)
           more == Append(rows, c)
<1>1. rows \in Seq(CardSet) /\ put \in Seq(CallSet) /\ is \in CallFates /\ Len(put) \in DOMAIN put
  BY DEF RowsFitCalls, CallsFit, CardsFit, CallFates, Told
<1>2. /\ new \in Seq(CallSet) /\ DOMAIN new = DOMAIN put
      /\ \A i \in DOMAIN put : /\ new[i].turn = put[i].turn
                               /\ new[i].name = put[i].name
                               /\ i # Len(put) => new[i].is = put[i].is
      /\ new[Len(put)].is = is
  BY <1>1, FateIs
<1> HIDE DEF new
<1>3. CallsFit(new)
  BY <1>2 DEF RowsFitCalls, CallsFit
<1>4. ASSUME NEW i \in DOMAIN rows
      PROVE  /\ CardFits(rows[i], new)
             /\ rows[i].n # 0 /\ rows[i].n = c.n => Rank(rows[i].kind) < Rank(c.kind)
  <2>1. CardFits(rows[i], put)
    BY DEF RowsFitCalls, CardsFit
  <2>2. rows[i].kind \in Kinds
    <3>1. rows[i] \in CardSet
      BY <1>1
    <3> QED BY <3>1 DEF CardSet
  <2>3. CASE rows[i].n # Len(put)
    <3>1. rows[i].n # 0 => rows[i].n \in DOMAIN put /\ new[rows[i].n].is = put[rows[i].n].is
      BY <1>2, <2>1, <2>3 DEF CardFits
    <3>2. CardFits(rows[i], new)
      BY <1>2, <2>1, <3>1 DEF CardFits
    <3> QED BY <2>3, <3>2
  <2>4. CASE rows[i].n = Len(put)
    <3>1. /\ Len(put) # 0
          /\ rows[i].kind \in {"call", "started"}
          /\ rows[i].kind = "started" => put[Len(put)].is = "started"
      BY <2>1, <2>2, <2>4 DEF CardFits, Kinds, Told
    <3>2. CardFits(rows[i], new)
      BY <1>2, <2>1, <2>4, <3>1 DEF CardFits, Told
    <3>3. Rank(rows[i].kind) < Rank(c.kind)
      BY <3>1 DEF Rank, Told
    <3> QED BY <3>2, <3>3
  <2> QED BY <2>3, <2>4
<1>5. CardsFit(rows, new)
  BY <1>4 DEF RowsFitCalls, CardsFit
<1>6. CardFits(c, new)
  BY <1>1, <1>2 DEF CardFits, Told
<1>7. CardsFit(more, new)
  BY <1>4, <1>5, <1>6, CardFollows
<1>8. FatesFit(more, new)
  <2> SUFFICES ASSUME NEW i \in DOMAIN more, more[i].kind = "call"
               PROVE  /\ new[more[i].n].is = "started" =>
                             Has(more, Len(more), "started", more[i].n)
                      /\ new[more[i].n].is = "done" => Has(more, Len(more), "result", more[i].n)
                      /\ new[more[i].n].is \in {"failed", "refused"} =>
                             Has(more, Len(more), "error", more[i].n)
    BY DEF FatesFit
  <2>1. \A k, n : Has(more, Len(more), k, n) <=>
                      Has(rows, Len(rows), k, n) \/ (c.kind = k /\ c.n = n)
    BY <1>1, HasStays
  <2>2. i \in DOMAIN rows /\ more[i] = rows[i]
    <3>1. c.kind # "call"
      BY DEF Told
    <3> QED BY <1>1, <3>1, CardAdded
  <2>3. rows[i].n \in DOMAIN put
    BY <2>2 DEF RowsFitCalls, CardsFit, CardFits
  <2> HIDE DEF more
  <2>4. CASE rows[i].n = Len(put)
    BY <1>2, <2>1, <2>2, <2>4 DEF Told
  <2>5. CASE rows[i].n # Len(put)
    BY <1>2, <2>1, <2>2, <2>3, <2>5 DEF RowsFitCalls, FatesFit
  <2> QED BY <2>4, <2>5
<1> QED BY <1>3, <1>7, <1>8 DEF RowsFitCalls, new

(* What is shown of one call, after k cards of the tail. *)
States == {"Waiting", "Running", "Recorded", "Succeeded", "Failed"}

ItemSet == [turn: Nat, name: Labels, key: Nat, state: States, result: Nat, opened: BOOLEAN]

Answered(v, k, n) == Has(v.tail, k, "result", n) \/ Has(v.tail, k, "error", n)

ItemFits(v, k, item) ==
    /\ item.key # 0 /\ item.key \in DOMAIN v.calls
    /\ item.turn = v.calls[item.key].turn
    /\ item.name = v.calls[item.key].name
    /\ ~item.opened => item.result = 0 /\ Answered(v, k, item.key)
    /\ item.opened =>
          /\ Has(v.tail, k, "call", item.key)
          /\ item.result = IF Answered(v, k, item.key) THEN item.key ELSE 0
          /\ Has(v.tail, k, "result", item.key) => item.state = "Succeeded"
          /\ Has(v.tail, k, "error", item.key) => item.state = "Failed"
          /\ ~Answered(v, k, item.key) /\ Has(v.tail, k, "started", item.key)
                => item.state = "Running"
          /\ ~Answered(v, k, item.key) /\ ~Has(v.tail, k, "started", item.key)
                => item.state = CallState(v, item)

(* What is shown after k cards: every call that has its card, and every answer. *)
ItemsFit(v, k, shown) ==
    /\ shown \in Seq(ItemSet)
    /\ \A i \in DOMAIN shown : ItemFits(v, k, shown[i])
    /\ \A i, j \in DOMAIN shown : i # j => shown[i].key # shown[j].key
    /\ \A n \in DOMAIN v.calls :
          /\ Has(v.tail, k, "call", n) =>
                 \E i \in DOMAIN shown : shown[i].key = n /\ shown[i].opened
          /\ Answered(v, k, n) => \E i \in DOMAIN shown : shown[i].key = n

(* One card further on: what there is of a call. *)
LEMMA HasGrows ==
    ASSUME NEW rows \in Seq(CardSet), NEW k \in Nat, k + 1 \in DOMAIN rows, NEW kind, NEW n
    PROVE  Has(rows, k + 1, kind, n) <=>
               Has(rows, k, kind, n) \/ (rows[k + 1].kind = kind /\ rows[k + 1].n = n)
  BY DEF Has

(* One card further on: whether a call is answered. *)
LEMMA AnsweredGrows ==
    ASSUME NEW v, v.tail \in Seq(CardSet), NEW k \in Nat, k + 1 \in DOMAIN v.tail, NEW n
    PROVE  Answered(v, k + 1, n) <=>
               \/ Answered(v, k, n)
               \/ v.tail[k + 1].kind \in {"result", "error"} /\ v.tail[k + 1].n = n
  BY HasGrows DEF Answered

(* The earlier cards of a card's call are of a lower rank. *)
LEMMA Earlier ==
    ASSUME NEW rows, NEW put, CardsFit(rows, put), NEW k \in Nat, k + 1 \in DOMAIN rows,
           NEW kind, Has(rows, k, kind, rows[k + 1].n), rows[k + 1].n # 0
    PROVE  Rank(kind) < Rank(rows[k + 1].kind)
<1>1. PICK p \in 1..k : rows[p].kind = kind /\ rows[p].n = rows[k + 1].n
  BY DEF Has
<1>2. rows \in Seq(CardSet)
  BY DEF CardsFit
<1>3. p \in DOMAIN rows /\ p < k + 1
  BY <1>2
<1> QED BY <1>1, <1>3 DEF CardsFit

(* No answer comes before a card of its call, and nothing before the call. *)
LEMMA NotEarlier ==
    ASSUME NEW rows, NEW put, CardsFit(rows, put), NEW k \in Nat, k + 1 \in DOMAIN rows,
           CardFits(rows[k + 1], put), rows[k + 1].n # 0
    PROVE  /\ rows[k + 1].kind \in {"call", "result", "error", "started"} =>
                  /\ ~Has(rows, k, "result", rows[k + 1].n)
                  /\ ~Has(rows, k, "error", rows[k + 1].n)
           /\ rows[k + 1].kind = "call" =>
                  /\ ~Has(rows, k, "call", rows[k + 1].n)
                  /\ ~Has(rows, k, "started", rows[k + 1].n)
<1>1. /\ Rank("call") = 1 /\ Rank("started") = 2 /\ Rank("result") = 3 /\ Rank("error") = 3
  BY DEF Rank
<1>2. \A kind : Has(rows, k, kind, rows[k + 1].n) => Rank(kind) < Rank(rows[k + 1].kind)
  BY Earlier
<1>3. CASE rows[k + 1].kind = "call"
  <2>1. ~(3 < Rank(rows[k + 1].kind)) /\ ~(2 < Rank(rows[k + 1].kind))
        /\ ~(1 < Rank(rows[k + 1].kind))
    BY <1>1, <1>3
  <2> QED BY <1>1, <1>2, <1>3, <2>1
<1>4. CASE rows[k + 1].kind \in {"result", "error", "started"}
  <2>1. ~(3 < Rank(rows[k + 1].kind)) /\ rows[k + 1].kind # "call"
    BY <1>1, <1>4
  <2> QED BY <1>1, <1>2, <2>1
<1> QED BY <1>3, <1>4

(* An item of another call, or of a card that tells nothing, stays as it fits. *)
LEMMA ItemStays ==
    ASSUME NEW v, v.tail \in Seq(CardSet), NEW k \in Nat, k + 1 \in DOMAIN v.tail,
           NEW item, ItemFits(v, k, item),
           \/ v.tail[k + 1].n # item.key
           \/ v.tail[k + 1].kind \notin {"call", "started", "result", "error"}
    PROVE  ItemFits(v, k + 1, item)
<1>1. \A kind \in {"call", "started", "result", "error"} :
          Has(v.tail, k + 1, kind, item.key) <=> Has(v.tail, k, kind, item.key)
  BY HasGrows
<1>2. Answered(v, k + 1, item.key) <=> Answered(v, k, item.key)
  BY <1>1 DEF Answered
<1> QED BY <1>1, <1>2 DEF ItemFits

(* An item more. *)
LEMMA ItemAdded ==
    ASSUME NEW v, ViewOfCards(v), NEW k \in Nat, k + 1 \in DOMAIN v.tail,
           NEW shown, ItemsFit(v, k, shown),
           NEW item \in ItemSet, ItemFits(v, k + 1, item),
           v.tail[k + 1].n = item.key,
           v.tail[k + 1].kind \in {"call", "result", "error"},
           v.tail[k + 1].kind = "call" => item.opened,
           \A i \in DOMAIN shown : shown[i].key # item.key
    PROVE  ItemsFit(v, k + 1, Append(shown, item))
<1> DEFINE new == Append(shown, item)
<1>1. /\ shown \in Seq(ItemSet) /\ v.tail \in Seq(CardSet)
      /\ \A n \in DOMAIN v.calls :
          /\ Has(v.tail, k, "call", n) =>
                 \E i \in DOMAIN shown : shown[i].key = n /\ shown[i].opened
          /\ Answered(v, k, n) => \E i \in DOMAIN shown : shown[i].key = n
  BY DEF ItemsFit, ViewOfCards, RowsFitCalls, CardsFit
<1>2. /\ new \in Seq(ItemSet) /\ Len(new) \in DOMAIN new /\ new[Len(new)] = item
      /\ \A i \in DOMAIN shown : i \in DOMAIN new /\ new[i] = shown[i] /\ i # Len(new)
      /\ \A i \in DOMAIN new : i \in DOMAIN shown \/ i = Len(new)
  BY <1>1
<1> HIDE DEF new
<1>3. \A i \in DOMAIN shown : ItemFits(v, k + 1, shown[i])
  BY <1>1, ItemStays DEF ItemsFit
<1>4. \A i \in DOMAIN new : ItemFits(v, k + 1, new[i])
  BY <1>2, <1>3
<1>5. \A i, j \in DOMAIN new : i # j => new[i].key # new[j].key
  BY <1>2 DEF ItemsFit
<1>6. ASSUME NEW n \in DOMAIN v.calls
      PROVE  /\ Has(v.tail, k + 1, "call", n) =>
                    \E i \in DOMAIN new : new[i].key = n /\ new[i].opened
             /\ Answered(v, k + 1, n) => \E i \in DOMAIN new : new[i].key = n
  <2>1. /\ Has(v.tail, k + 1, "call", n) => Has(v.tail, k, "call", n)
               \/ (v.tail[k + 1].kind = "call" /\ v.tail[k + 1].n = n)
        /\ Answered(v, k + 1, n) => Answered(v, k, n) \/ v.tail[k + 1].n = n
    BY <1>1, HasGrows, AnsweredGrows
  <2> QED BY <1>1, <1>2, <2>1
<1> QED BY <1>2, <1>4, <1>5, <1>6 DEF ItemsFit, new

(* One item changes. *)
WithItem(shown, l, item) == [shown EXCEPT ![l] = item]

(* What is shown fits again after one item has changed. *)
LEMMA ItemChanged ==
    ASSUME NEW v, ViewOfCards(v), NEW k \in Nat, k + 1 \in DOMAIN v.tail,
           NEW shown, ItemsFit(v, k, shown), NEW l \in DOMAIN shown,
           NEW item \in ItemSet, ItemFits(v, k + 1, item),
           item.key = shown[l].key, item.opened = shown[l].opened,
           v.tail[k + 1].n = item.key, v.tail[k + 1].kind # "call"
    PROVE  ItemsFit(v, k + 1, WithItem(shown, l, item))
<1> DEFINE new == WithItem(shown, l, item)
<1>1. /\ shown \in Seq(ItemSet) /\ v.tail \in Seq(CardSet)
      /\ \A n \in DOMAIN v.calls :
          /\ Has(v.tail, k, "call", n) =>
                 \E i \in DOMAIN shown : shown[i].key = n /\ shown[i].opened
          /\ Answered(v, k, n) => \E i \in DOMAIN shown : shown[i].key = n
  BY DEF ItemsFit, ViewOfCards, RowsFitCalls, CardsFit
<1>2. /\ DOMAIN new = DOMAIN shown /\ new[l] = item
      /\ \A i \in DOMAIN shown : i # l => new[i] = shown[i]
  BY DEF WithItem
<1>3. new \in Seq(ItemSet)
  BY <1>1 DEF WithItem
<1> HIDE DEF new
<1>4. \A i \in DOMAIN new : ItemFits(v, k + 1, new[i])
  <2> SUFFICES ASSUME NEW i \in DOMAIN new, i # l PROVE ItemFits(v, k + 1, new[i])
    BY <1>2
  <2>1. shown[i].key # item.key /\ ItemFits(v, k, shown[i])
    BY <1>2 DEF ItemsFit
  <2> QED BY <1>1, <1>2, <2>1, ItemStays
<1>5. \A i \in DOMAIN new : new[i].key = shown[i].key /\ new[i].opened = shown[i].opened
  BY <1>2
<1>6. \A i, j \in DOMAIN new : i # j => new[i].key # new[j].key
  BY <1>2, <1>5 DEF ItemsFit
<1>7. ASSUME NEW n \in DOMAIN v.calls
      PROVE  /\ Has(v.tail, k + 1, "call", n) =>
                    \E i \in DOMAIN new : new[i].key = n /\ new[i].opened
             /\ Answered(v, k + 1, n) => \E i \in DOMAIN new : new[i].key = n
  <2>1. /\ Has(v.tail, k + 1, "call", n) => Has(v.tail, k, "call", n)
        /\ Answered(v, k + 1, n) => Answered(v, k, n) \/ v.tail[k + 1].n = n
    BY <1>1, HasGrows, AnsweredGrows
  <2>2. Has(v.tail, k, "call", n) => \E i \in DOMAIN new : new[i].key = n /\ new[i].opened
    BY <1>1, <1>2, <1>5
  <2>3. Answered(v, k, n) => \E i \in DOMAIN new : new[i].key = n
    BY <1>1, <1>2, <1>5
  <2> QED BY <1>2, <2>1, <2>2, <2>3
<1> QED BY <1>3, <1>4, <1>6, <1>7 DEF ItemsFit, new

(* What a view has at one of its cards. *)
LEMMA CardOfView ==
    ASSUME NEW v, ViewOfCards(v), NEW k \in Nat, k + 1 \in DOMAIN v.tail
    PROVE  /\ v.tail[k + 1] \in CardSet
           /\ v.tail[k + 1].kind \in Kinds
           /\ v.tail[k + 1].turn \in Nat /\ v.tail[k + 1].name \in Labels
           /\ v.tail[k + 1].n \in Nat
           /\ CardFits(v.tail[k + 1], v.calls)
           /\ CardsFit(v.tail, v.calls)
           /\ v.tail \in Seq(CardSet)
<1>1. v.tail \in Seq(CardSet) /\ CardsFit(v.tail, v.calls) /\ CardFits(v.tail[k + 1], v.calls)
  BY DEF ViewOfCards, RowsFitCalls, CardsFit
<1>2. v.tail[k + 1] \in CardSet
  BY <1>1
<1> QED BY <1>1, <1>2 DEF CardSet

(* A card that changes no item. *)
LEMMA ItemsStay ==
    ASSUME NEW v, ViewOfCards(v), NEW k \in Nat, k + 1 \in DOMAIN v.tail,
           NEW shown, ItemsFit(v, k, shown),
           v.tail[k + 1].kind \notin {"call", "result", "error"},
           v.tail[k + 1].kind = "started" =>
               \A i \in DOMAIN shown : shown[i].key # v.tail[k + 1].n
    PROVE  ItemsFit(v, k + 1, shown)
<1>1. v.tail \in Seq(CardSet)
  BY CardOfView
<1>2. \A i \in DOMAIN shown : ItemFits(v, k + 1, shown[i])
  BY <1>1, ItemStays DEF ItemsFit
<1>3. \A n : /\ Has(v.tail, k + 1, "call", n) <=> Has(v.tail, k, "call", n)
             /\ Answered(v, k + 1, n) <=> Answered(v, k, n)
  BY <1>1, HasGrows, AnsweredGrows
<1> QED BY <1>2, <1>3 DEF ItemsFit

(* The card of a call. *)
LEMMA CallShown ==
    ASSUME NEW v, ViewOfCards(v), NEW k \in Nat, k + 1 \in DOMAIN v.tail,
           NEW shown, ItemsFit(v, k, shown), v.tail[k + 1].kind = "call"
    PROVE  ItemsFit(v, k + 1, Fold(v, shown, v.tail[k + 1]))
<1> DEFINE c == v.tail[k + 1]
           item == Action(c, CallState(v, c), TRUE)
<1>1. /\ c.turn \in Nat /\ c.name \in Labels /\ c.n \in Nat
      /\ CardFits(c, v.calls) /\ CardsFit(v.tail, v.calls) /\ v.tail \in Seq(CardSet)
  BY CardOfView
<1>2. /\ c.n # 0 /\ c.n \in DOMAIN v.calls /\ c.turn = v.calls[c.n].turn
      /\ c.name = v.calls[c.n].name
  BY <1>1 DEF CardFits
<1>3. /\ ~Has(v.tail, k, "call", c.n) /\ ~Has(v.tail, k, "started", c.n)
      /\ ~Has(v.tail, k, "result", c.n) /\ ~Has(v.tail, k, "error", c.n)
  BY <1>1, <1>2, NotEarlier
<1>4. ~Answered(v, k, c.n) /\ ~Answered(v, k + 1, c.n)
  BY <1>1, <1>3, AnsweredGrows DEF Answered
<1>5. /\ Has(v.tail, k + 1, "call", c.n) /\ ~Has(v.tail, k + 1, "started", c.n)
      /\ ~Has(v.tail, k + 1, "result", c.n) /\ ~Has(v.tail, k + 1, "error", c.n)
  BY <1>1, <1>3, HasGrows
<1>6. /\ item.turn = c.turn /\ item.name = c.name /\ item.key = c.n /\ item.opened
      /\ item.result = 0 /\ item.state = CallState(v, c)
  BY DEF Action
<1>7. CallState(v, item) = CallState(v, c) /\ CallState(v, c) \in States
  BY <1>6 DEF CallState, States
<1>8. item \in ItemSet
  BY <1>1, <1>7 DEF Action, ItemSet
<1>9. Fold(v, shown, c) = Append(shown, item)
  BY DEF Fold
<1>10. \A i \in DOMAIN shown : shown[i].key # item.key
  <2> SUFFICES ASSUME NEW i \in DOMAIN shown, shown[i].key = c.n PROVE FALSE
    BY <1>6
  <2>1. ItemFits(v, k, shown[i])
    BY DEF ItemsFit
  <2> QED BY <1>3, <1>4, <2>1 DEF ItemFits
<1> HIDE DEF item
<1>11. ItemFits(v, k + 1, item)
  BY <1>2, <1>4, <1>5, <1>6, <1>7 DEF ItemFits
<1> QED BY <1>6, <1>8, <1>9, <1>10, <1>11, ItemAdded

(* The last of a set of one. *)
LEMMA LastOfOne ==
    ASSUME NEW S, S \subseteq Nat, NEW l \in S, \A i \in S : i = l
    PROVE  LastOf(S) = l
<1>1. S = {l}
  OBVIOUS
<1>2. \E i \in S : \A j \in S : j <= i
  BY <1>1
<1> QED BY <1>1, <1>2 DEF LastOf

(* Calls of one turn with one id are one call. *)
LEMMA OneCall ==
    ASSUME NEW put, CallsFit(put), NEW i \in DOMAIN put, NEW j \in DOMAIN put,
           put[i].turn = put[j].turn, put[i].name = put[j].name
    PROVE  i = j
  BY DEF CallsFit

(* The answer to a call. *)
LEMMA AnswerShown ==
    ASSUME NEW v, ViewOfCards(v), NEW k \in Nat, k + 1 \in DOMAIN v.tail,
           NEW shown, ItemsFit(v, k, shown), v.tail[k + 1].kind \in {"result", "error"}
    PROVE  ItemsFit(v, k + 1, Fold(v, shown, v.tail[k + 1]))
<1> DEFINE c == v.tail[k + 1]
           S == Opens(shown, c)
<1>1. /\ c.turn \in Nat /\ c.name \in Labels /\ c.n \in Nat
      /\ CardFits(c, v.calls) /\ CardsFit(v.tail, v.calls) /\ v.tail \in Seq(CardSet)
  BY CardOfView
<1>2. /\ c.n # 0 /\ c.n \in DOMAIN v.calls /\ c.turn = v.calls[c.n].turn
      /\ c.name = v.calls[c.n].name
  BY <1>1 DEF CardFits
<1>3. ~Has(v.tail, k, "result", c.n) /\ ~Has(v.tail, k, "error", c.n)
  BY <1>1, <1>2, NotEarlier
<1>4. ~Answered(v, k, c.n) /\ Answered(v, k + 1, c.n)
  BY <1>1, <1>3, AnsweredGrows DEF Answered
<1>5. /\ Has(v.tail, k + 1, "result", c.n) <=> c.kind = "result"
      /\ Has(v.tail, k + 1, "error", c.n) <=> c.kind = "error"
      /\ Has(v.tail, k + 1, "call", c.n) <=> Has(v.tail, k, "call", c.n)
  BY <1>1, <1>3, HasGrows
<1>6. CallsFit(v.calls) /\ shown \in Seq(ItemSet)
  BY DEF ViewOfCards, RowsFitCalls, ItemsFit
<1>7. \A i \in DOMAIN shown : shown[i].key = c.n <=> i \in S
  <2>1. ASSUME NEW i \in DOMAIN shown, shown[i].key = c.n PROVE i \in S
    <3>1. ItemFits(v, k, shown[i])
      BY DEF ItemsFit
    <3>2. shown[i].opened
      BY <1>4, <2>1, <3>1 DEF ItemFits
    <3> QED BY <1>2, <1>4, <2>1, <3>1, <3>2 DEF ItemFits, Opens
  <2>2. ASSUME NEW i \in S PROVE i \in DOMAIN shown /\ shown[i].key = c.n
    <3>1. i \in DOMAIN shown /\ shown[i].turn = c.turn /\ shown[i].name = c.name
      BY DEF Opens
    <3>2. ItemFits(v, k, shown[i])
      BY <3>1 DEF ItemsFit
    <3>3. /\ shown[i].key \in DOMAIN v.calls
          /\ v.calls[shown[i].key].turn = v.calls[c.n].turn
          /\ v.calls[shown[i].key].name = v.calls[c.n].name
      BY <1>2, <3>1, <3>2 DEF ItemFits
    <3> HIDE DEF S, c
    <3> QED BY <1>2, <1>6, <3>1, <3>3, OneCall
  <2> HIDE DEF S
  <2> QED BY <2>1, <2>2
<1>8. ResultState(c) \in States /\ (c.kind = "result" => ResultState(c) = "Succeeded")
      /\ (c.kind = "error" => ResultState(c) = "Failed")
  BY DEF ResultState, States
<1>9. CASE S = {}
  <2> DEFINE item == Action(c, ResultState(c), FALSE)
  <2>1. Fold(v, shown, c) = Append(shown, item)
    BY <1>9 DEF Fold
  <2>2. /\ item.turn = c.turn /\ item.name = c.name /\ item.key = c.n /\ item.opened = FALSE
        /\ item.result = 0
    BY DEF Action
  <2>3. item \in ItemSet
    BY <1>1, <1>8 DEF Action, ItemSet
  <2>4. \A i \in DOMAIN shown : shown[i].key # item.key
    BY <1>7, <1>9, <2>2
  <2> HIDE DEF item
  <2>5. ItemFits(v, k + 1, item)
    BY <1>2, <1>4, <2>2 DEF ItemFits
  <2> QED BY <2>1, <2>2, <2>3, <2>4, <2>5, ItemAdded
<1>10. CASE S # {}
  <2>1. PICK l \in S : TRUE
    BY <1>10
  <2>2. l \in DOMAIN shown /\ shown[l].key = c.n /\ S \subseteq DOMAIN shown
    BY <1>7, <2>1 DEF Opens
  <2>3. \A i \in S : i = l
    BY <1>7, <2>2 DEF ItemsFit
  <2>4. LastOf(S) = l
    <3>1. S \subseteq Nat
      BY <1>6, <2>2
    <3> HIDE DEF S
    <3> QED BY <2>1, <2>3, <3>1, LastOfOne
  <2> DEFINE old == shown[l]
             item == [old EXCEPT !.state = ResultState(c), !.result = c.n]
  <2>5. old \in ItemSet /\ ItemFits(v, k, old) /\ old.opened
    BY <1>6, <2>1, <2>2 DEF ItemsFit, Opens
  <2>6. Fold(v, shown, c) = WithItem(shown, l, item)
    <3>1. Fold(v, shown, c) = [shown EXCEPT ![LastOf(S)].state = ResultState(c),
                                            ![LastOf(S)].result = c.n]
      BY <1>10 DEF Fold
    <3>2. Fold(v, shown, c) = [shown EXCEPT ![l].state = ResultState(c), ![l].result = c.n]
      BY <2>4, <3>1
    <3> HIDE DEF S, c
    <3> QED BY <2>2, <3>2 DEF WithItem
  <2>7. item \in ItemSet
    BY <1>1, <1>8, <2>5 DEF ItemSet
  <2>8. /\ item.turn = old.turn /\ item.name = old.name /\ item.key = old.key
        /\ item.opened = old.opened /\ item.result = c.n /\ item.state = ResultState(c)
    BY <2>5 DEF ItemSet
  <2> HIDE DEF item
  <2>9. ItemFits(v, k + 1, item)
    BY <1>4, <1>5, <1>8, <2>2, <2>5, <2>8 DEF ItemFits
  <2> QED BY <2>2, <2>6, <2>7, <2>8, <2>9, ItemChanged
<1> QED BY <1>9, <1>10

(* The note that an effect started. *)
LEMMA StartShown ==
    ASSUME NEW v, ViewOfCards(v), NEW k \in Nat, k + 1 \in DOMAIN v.tail,
           NEW shown, ItemsFit(v, k, shown), v.tail[k + 1].kind = "started"
    PROVE  ItemsFit(v, k + 1, Fold(v, shown, v.tail[k + 1]))
<1> DEFINE c == v.tail[k + 1]
           S == {i \in DOMAIN shown : /\ shown[i].turn = c.turn /\ shown[i].opened
                                      /\ shown[i].key = c.n}
<1>1. /\ c.n \in Nat /\ CardFits(c, v.calls) /\ CardsFit(v.tail, v.calls)
      /\ v.tail \in Seq(CardSet)
  BY CardOfView
<1>2. c.n # 0 /\ c.n \in DOMAIN v.calls /\ c.turn = v.calls[c.n].turn
  BY <1>1 DEF CardFits
<1>3. ~Has(v.tail, k, "result", c.n) /\ ~Has(v.tail, k, "error", c.n)
  BY <1>1, <1>2, NotEarlier
<1>4. ~Answered(v, k, c.n) /\ ~Answered(v, k + 1, c.n)
  BY <1>1, <1>3, AnsweredGrows DEF Answered
<1>5. /\ ~Has(v.tail, k + 1, "result", c.n) /\ ~Has(v.tail, k + 1, "error", c.n)
      /\ Has(v.tail, k + 1, "started", c.n)
      /\ Has(v.tail, k + 1, "call", c.n) <=> Has(v.tail, k, "call", c.n)
  <2>1. \A kind : Has(v.tail, k + 1, kind, c.n) <=>
                      Has(v.tail, k, kind, c.n) \/ c.kind = kind
    BY <1>1, HasGrows
  <2> HIDE DEF c
  <2>2. c.kind = "started"
    BY DEF c
  <2> QED BY <1>3, <2>1, <2>2
<1>6. Fold(v, shown, c) = IF S = {} THEN shown ELSE [shown EXCEPT ![LastOf(S)].state = "Running"]
  BY DEF Fold
<1>7. \A i \in DOMAIN shown : shown[i].key = c.n <=> i \in S
  BY <1>2, <1>4 DEF ItemsFit, ItemFits
<1>8. shown \in Seq(ItemSet)
  BY DEF ItemsFit
<1>9. CASE S = {}
  BY <1>6, <1>7, <1>9, ItemsStay
<1>10. CASE S # {}
  <2>1. PICK l \in S : TRUE
    BY <1>10
  <2>2. l \in DOMAIN shown /\ shown[l].key = c.n /\ S \subseteq DOMAIN shown
    BY <2>1
  <2>3. \A i \in S : i = l
    BY <2>2 DEF ItemsFit
  <2>4. LastOf(S) = l
    <3>1. S \subseteq Nat
      BY <1>8, <2>2
    <3> HIDE DEF S
    <3> QED BY <2>1, <2>3, <3>1, LastOfOne
  <2> DEFINE old == shown[l]
             item == [old EXCEPT !.state = "Running"]
  <2>5. old \in ItemSet /\ ItemFits(v, k, old) /\ old.opened
    BY <1>8, <2>1, <2>2 DEF ItemsFit
  <2>6. Fold(v, shown, c) = WithItem(shown, l, item)
    <3>1. Fold(v, shown, c) = [shown EXCEPT ![l].state = "Running"]
      BY <1>6, <1>10, <2>4
    <3> HIDE DEF S, c
    <3> QED BY <2>2, <3>1 DEF WithItem
  <2>7. item \in ItemSet
    BY <2>5 DEF ItemSet, States
  <2>8. /\ item.turn = old.turn /\ item.name = old.name /\ item.key = old.key
        /\ item.opened = old.opened /\ item.result = old.result /\ item.state = "Running"
    BY <2>5 DEF ItemSet
  <2> HIDE DEF item
  <2>9. ItemFits(v, k + 1, item)
    BY <1>4, <1>5, <2>2, <2>5, <2>8 DEF ItemFits
  <2> QED BY <2>2, <2>6, <2>7, <2>8, <2>9, ItemChanged
<1> QED BY <1>9, <1>10

(* One card further, what is shown fits again. *)
LEMMA FoldFits ==
    ASSUME NEW v, ViewOfCards(v), NEW k \in Nat, k + 1 \in DOMAIN v.tail,
           NEW shown, ItemsFit(v, k, shown)
    PROVE  ItemsFit(v, k + 1, Fold(v, shown, v.tail[k + 1]))
<1> DEFINE c == v.tail[k + 1]
<1>1. CASE c.kind = "call"
  BY <1>1, CallShown
<1>2. CASE c.kind \in {"result", "error"}
  BY <1>2, AnswerShown
<1>3. CASE c.kind = "started"
  BY <1>3, StartShown
<1>4. CASE c.kind \notin {"call", "result", "error", "started"}
  <2>1. Fold(v, shown, c) = shown
    BY <1>4 DEF Fold
  <2> QED BY <1>4, <2>1, ItemsStay
<1> QED BY <1>1, <1>2, <1>3, <1>4

(* What is shown is a sequence of items. *)
LEMMA FoldTyped ==
    ASSUME NEW v, NEW shown \in Seq(ItemSet), NEW c \in CardSet
    PROVE  Fold(v, shown, c) \in Seq(ItemSet)
<1>1. c.turn \in Nat /\ c.name \in Labels /\ c.n \in Nat
  BY DEF CardSet
<1>2. ASSUME NEW state \in States, NEW opened \in BOOLEAN
      PROVE  Append(shown, Action(c, state, opened)) \in Seq(ItemSet)
  <2>1. Action(c, state, opened) \in ItemSet
    BY <1>1 DEF Action, ItemSet
  <2> QED BY <2>1
<1>3. CallState(v, c) \in States /\ ResultState(c) \in States /\ "Running" \in States
  BY DEF CallState, ResultState, States
<1>4. ASSUME NEW l, NEW state \in States
      PROVE  /\ [shown EXCEPT ![l].state = state] \in Seq(ItemSet)
             /\ [shown EXCEPT ![l].state = state, ![l].result = c.n] \in Seq(ItemSet)
  <2>1. CASE l \in DOMAIN shown
    <3>1. shown[l] \in ItemSet
      BY <2>1
    <3>2. /\ [shown[l] EXCEPT !.state = state] \in ItemSet
          /\ [shown[l] EXCEPT !.state = state, !.result = c.n] \in ItemSet
      BY <1>1, <3>1 DEF ItemSet
    <3> QED BY <2>1, <3>2
  <2>2. CASE l \notin DOMAIN shown
    <3>1. shown = [i \in DOMAIN shown |-> shown[i]]
      OBVIOUS
    <3>2. [shown EXCEPT ![l].state = state] = shown
      BY <2>2, <3>1
    <3>3. [shown EXCEPT ![l].state = state, ![l].result = c.n] = shown
      BY <2>2, <3>1
    <3> QED BY <3>2, <3>3
  <2> QED BY <2>1, <2>2
<1>5. CASE c.kind = "call"
  BY <1>2, <1>3, <1>5 DEF Fold
<1>6. CASE c.kind \in {"result", "error"}
  BY <1>2, <1>3, <1>4, <1>6 DEF Fold
<1>7. CASE c.kind = "started"
  BY <1>3, <1>4, <1>7 DEF Fold
<1>8. CASE c.kind \notin {"call", "result", "error", "started"}
  BY <1>8 DEF Fold
<1> QED BY <1>5, <1>6, <1>7, <1>8

(* The projection of a view fits it: an induction over the cards of the tail. *)
LEMMA ProjectFits ==
    ASSUME NEW v, ViewOfCards(v)
    PROVE  ItemsFit(v, Len(v.tail), ProjectTranscript(v))
<1> DEFINE N == Len(v.tail)
           B == Seq(ItemSet)
           b == << >>
           s == [n \in 1..N |-> [x \in B |-> Fold(v, x, v.tail[n])]]
           Is(f) == f = [k \in 0..N |-> IF k = 0 THEN b ELSE Fold(v, f[k - 1], v.tail[k])]
           at == CHOOSE f : Is(f)
           T == {k \in 0..N : ~ItemsFit(v, k, at[k])}
<1>1. N \in Nat /\ b \in B /\ v.tail \in Seq(CardSet)
  BY DEF ViewOfCards, RowsFitCalls, CardsFit
<1> HIDE DEF b
<1>2. ASSUME NEW n \in 1..N, NEW x \in B PROVE Fold(v, x, v.tail[n]) \in B
  <2>1. v.tail[n] \in CardSet
    BY <1>1
  <2> QED BY <2>1, FoldTyped
<1>3. PICK f : Iterates(f, B, b, s, N)
  <2>1. s \in [1..N -> [B -> B]]
    BY <1>2
  <2> HIDE DEF s, N, B
  <2> QED BY <1>1, <2>1, IterationExists
<1>4. f \in [0..N -> B] /\ f[0] = b
  BY <1>3 DEF Iterates
<1>5. ASSUME NEW n \in 1..N PROVE f[n] = Fold(v, f[n - 1], v.tail[n])
  <2>1. f[n - 1] \in B
    BY <1>1, <1>4
  <2>2. f[n] = s[n][f[n - 1]]
    BY <1>3 DEF Iterates
  <2> HIDE DEF B
  <2> QED BY <2>1, <2>2
<1> HIDE DEF s
<1>6. Is(f)
  <2>1. \A k \in 0..N : f[k] = IF k = 0 THEN b ELSE Fold(v, f[k - 1], v.tail[k])
    BY <1>1, <1>4, <1>5
  <2> HIDE DEF N
  <2> QED BY <1>4, <2>1
<1>7. Is(at)
  <2> HIDE DEF Is
  <2> QED BY <1>6
<1>8. \A k \in 0..N : at[k] = IF k = 0 THEN b ELSE Fold(v, at[k - 1], v.tail[k])
  <2> HIDE DEF at, N
  <2> QED BY <1>7
<1>9. ProjectTranscript(v) = at[N]
  BY DEF ProjectTranscript, b
<1> HIDE DEF at, Is
<1>10. ItemsFit(v, 0, b)
  <2>1. \A kind, n : ~Has(v.tail, 0, kind, n)
    BY DEF Has
  <2>2. \A n : ~Answered(v, 0, n)
    BY <2>1 DEF Answered
  <2>3. b \in Seq(ItemSet) /\ DOMAIN b = {}
    BY DEF b
  <2> QED BY <2>1, <2>2, <2>3 DEF ItemsFit
<1>11. T = {}
  <2> SUFFICES ASSUME T # {} PROVE FALSE
    OBVIOUS
  <2>1. PICK k \in T : \A j \in T : k <= j
    <3>1. T \in SUBSET Nat
      OBVIOUS
    <3> HIDE DEF T
    <3> QED BY <3>1, LeastNumber
  <2>2. k \in 0..N /\ ~ItemsFit(v, k, at[k])
    OBVIOUS
  <2>3. k # 0
    BY <1>1, <1>8, <1>10, <2>2
  <2>4. k - 1 \in Nat /\ k - 1 \in 0..N /\ k \in DOMAIN v.tail /\ ~(k <= k - 1) /\ k - 1 + 1 = k
    BY <1>1, <2>2, <2>3
  <2>5. ItemsFit(v, k - 1, at[k - 1])
    <3>1. k - 1 \notin T
      <4> HIDE DEF T
      <4> QED BY <2>1, <2>4
    <3> QED BY <2>4, <3>1
  <2>6. at[k] = Fold(v, at[k - 1], v.tail[k])
    BY <1>8, <2>2, <2>3
  <2>7. ItemsFit(v, k - 1 + 1, Fold(v, at[k - 1], v.tail[k - 1 + 1]))
    <3> DEFINE j == k - 1
    <3>1. j \in Nat /\ j + 1 \in DOMAIN v.tail /\ ItemsFit(v, j, at[j])
      BY <2>4, <2>5
    <3> HIDE DEF j
    <3>2. ItemsFit(v, j + 1, Fold(v, at[j], v.tail[j + 1]))
      BY <3>1, FoldFits
    <3> QED BY <3>2 DEF j
  <2> QED BY <2>2, <2>4, <2>6, <2>7
<1> QED BY <1>1, <1>9, <1>11

(* A card is among those of the tail. *)
LEMMA TailHas ==
    ASSUME NEW v, ViewOfCards(v), NEW c
    PROVE  c \in ToSet(v.tail) <=> \E p \in DOMAIN v.tail : v.tail[p] = c
  BY DEF ToSet

(* Every call that is listed is shown as it is. *)
LEMMA ShownTrue ==
    ASSUME ViewOfCards(held) PROVE TranscriptIsTrue
<1> DEFINE shown == ProjectTranscript(held)
           N == Len(held.tail)
<1>1. ItemsFit(held, N, shown)
  BY ProjectFits
<1>2. /\ held.tail \in Seq(CardSet) /\ DOMAIN held.tail = 1..N
      /\ CardsFit(held.tail, held.calls) /\ FatesFit(held.tail, held.calls)
      /\ LifeFits(held, held.tail, held.calls)
  BY DEF ViewOfCards, RowsFitCalls, CardsFit
<1> HIDE DEF shown, N
<1> SUFFICES ASSUME NEW n \in Listed(held)
             PROVE  \E i \in DOMAIN shown :
                       LET item == shown[i]
                           is == held.calls[n].is
                       IN /\ {j \in DOMAIN shown : shown[j].key = n} = {i}
                          /\ item.result \in {0, n}
                          /\ is = "waiting" => item.state = "Waiting"
                          /\ is = "started" => item.state = "Running"
                          /\ is = "done" => item.state = "Succeeded"
                          /\ is \in {"failed", "refused"} => item.state = "Failed"
  BY DEF TranscriptIsTrue, shown
<1>3. PICK p \in DOMAIN held.tail : held.tail[p].kind = "call" /\ held.tail[p].n = n
  BY TailHas DEF Listed
<1>4. n \in DOMAIN held.calls /\ n # 0
  BY <1>2, <1>3 DEF CardsFit, CardFits
<1>5. Has(held.tail, N, "call", n)
  BY <1>2, <1>3 DEF Has
<1>6. PICK i \in DOMAIN shown : shown[i].key = n /\ shown[i].opened
  BY <1>1, <1>4, <1>5 DEF ItemsFit
<1>7. {j \in DOMAIN shown : shown[j].key = n} = {i}
  BY <1>1, <1>6 DEF ItemsFit
<1> DEFINE item == shown[i]
           is == held.calls[n].is
<1>8. ItemFits(held, N, item) /\ item.key = n /\ item.opened
  BY <1>1, <1>6 DEF ItemsFit
<1> HIDE DEF item
<1>9. /\ item.result \in {0, n}
      /\ Has(held.tail, N, "result", n) => item.state = "Succeeded"
      /\ Has(held.tail, N, "error", n) => item.state = "Failed"
      /\ ~Answered(held, N, n) /\ Has(held.tail, N, "started", n) => item.state = "Running"
      /\ ~Answered(held, N, n) /\ ~Has(held.tail, N, "started", n)
            => item.state = CallState(held, item)
      /\ item.turn = held.calls[n].turn
  BY <1>8 DEF ItemFits
<1>10. /\ is = "started" => Has(held.tail, N, "started", n)
       /\ is = "done" => Has(held.tail, N, "result", n)
       /\ is \in {"failed", "refused"} => Has(held.tail, N, "error", n)
  BY <1>2, <1>3 DEF FatesFit, N
<1>11. /\ Has(held.tail, N, "result", n) => is = "done"
       /\ Has(held.tail, N, "error", n) => is \in {"failed", "refused"}
       /\ Has(held.tail, N, "started", n) => is # "waiting"
  <2>1. ASSUME NEW kind, Has(held.tail, N, kind, n)
        PROVE  \E c : CardFits(c, held.calls) /\ c.kind = kind /\ c.n = n
    BY <1>2, <2>1 DEF Has, CardsFit
  <2>2. Has(held.tail, N, "result", n) => is = "done"
    BY <1>4, <2>1 DEF CardFits
  <2>3. Has(held.tail, N, "error", n) => is \in {"failed", "refused"}
    BY <1>4, <2>1 DEF CardFits
  <2>4. Has(held.tail, N, "started", n) => is # "waiting"
    BY <1>4, <2>1 DEF CardFits
  <2> QED BY <2>2, <2>3, <2>4
<1>12. is = "waiting" => item.state = "Waiting"
  <2> SUFFICES ASSUME is = "waiting" PROVE item.state = "Waiting"
    OBVIOUS
  <2>1. item.state = CallState(held, item)
    BY <1>9, <1>11 DEF Answered
  <2>2. held.life = "permission" /\ item.turn = held.active
    BY <1>2, <1>4, <1>9 DEF LifeFits
  <2> QED BY <2>1, <2>2 DEF CallState
<1>13. is = "started" => item.state = "Running"
  BY <1>9, <1>10, <1>11 DEF Answered
<1>14. (is = "done" => item.state = "Succeeded") /\ (is \in {"failed", "refused"} => item.state = "Failed")
  BY <1>9, <1>10
<1> QED BY <1>7, <1>9, <1>12, <1>13, <1>14 DEF item

(* Every answer is shown once. *)
LEMMA ShownOnce ==
    ASSUME ViewOfCards(held) PROVE ResultsAreShownOnce
<1> DEFINE shown == ProjectTranscript(held)
           N == Len(held.tail)
<1>1. ItemsFit(held, N, shown)
  BY ProjectFits
<1>2. /\ held.tail \in Seq(CardSet) /\ DOMAIN held.tail = 1..N
      /\ CardsFit(held.tail, held.calls)
  BY DEF ViewOfCards, RowsFitCalls, CardsFit
<1> HIDE DEF shown, N
<1> SUFFICES ASSUME NEW c \in ToSet(held.tail), c.kind \in {"result", "error"}
             PROVE  Cardinality({i \in DOMAIN shown :
                                    \/ shown[i].result = c.n
                                    \/ ~shown[i].opened /\ shown[i].key = c.n}) = 1
  BY DEF ResultsAreShownOnce, shown
<1>3. PICK p \in DOMAIN held.tail : held.tail[p] = c
  BY TailHas
<1>4. c.n \in DOMAIN held.calls /\ c.n # 0
  BY <1>2, <1>3 DEF CardsFit, CardFits
<1>5. Answered(held, N, c.n)
  BY <1>2, <1>3 DEF Has, Answered
<1>6. PICK i \in DOMAIN shown : shown[i].key = c.n
  BY <1>1, <1>4, <1>5 DEF ItemsFit
<1>7. ASSUME NEW j \in DOMAIN shown
      PROVE  shown[j].result = c.n \/ (~shown[j].opened /\ shown[j].key = c.n) <=> j = i
  <2>1. ItemFits(held, N, shown[j])
    BY <1>1 DEF ItemsFit
  <2>2. shown[j].key = c.n <=> j = i
    BY <1>1, <1>6 DEF ItemsFit
  <2>3. CASE shown[j].opened
    BY <1>4, <1>5, <2>1, <2>2, <2>3 DEF ItemFits
  <2>4. CASE ~shown[j].opened
    BY <1>4, <2>1, <2>2, <2>4 DEF ItemFits
  <2> QED BY <2>3, <2>4
<1>8. {j \in DOMAIN shown : \/ shown[j].result = c.n
                            \/ ~shown[j].opened /\ shown[j].key = c.n} = {i}
  BY <1>7
<1> QED BY <1>8, FS_Singleton

(* The cards that block have a subject. *)
LEMMA SubjectShown ==
    ASSUME ViewOfCards(held) PROVE BlockingCardsHaveSubject
<1> DEFINE tail == held.tail
           N == Len(tail)
<1>1. /\ tail \in Seq(CardSet) /\ N \in Nat /\ DOMAIN tail = 1..N
      /\ CardsFit(tail, held.calls) /\ CallsFit(held.calls)
      /\ LifeFits(held, tail, held.calls)
  BY DEF ViewOfCards, RowsFitCalls, CardsFit
<1>2. held.life = "permission" => /\ PermissionSubject(held) = {held.pending}
                                  /\ held.calls[held.pending].is = "waiting"
  <2> SUFFICES ASSUME held.life = "permission"
               PROVE  /\ PermissionSubject(held) = {held.pending}
                      /\ held.calls[held.pending].is = "waiting"
    OBVIOUS
  <2>1. /\ N > 0 /\ tail[N].kind = "call" /\ tail[N].n = held.pending
        /\ held.calls[held.pending].is = "waiting"
    BY <1>1 DEF LifeFits
  <2>2. tail[N] \in ToSet(tail)
    <3>1. N \in DOMAIN tail
      BY <1>1, <2>1
    <3> HIDE DEF N
    <3> QED BY <3>1 DEF ToSet
  <2> DEFINE asking == {d \in ToSet(tail) : d.kind = "call" /\ d.n = held.pending}
  <2>3. tail[N] \in asking /\ \A d \in asking : d.n = held.pending
    BY <2>1, <2>2
  <2>4. PermissionSubject(held) = {c.n : c \in asking}
    BY DEF PermissionSubject
  <2> HIDE DEF asking, tail
  <2>5. {c.n : c \in asking} = {held.pending}
    <3>1. held.pending \in {c.n : c \in asking}
      BY <2>3
    <3>2. \A x \in {c.n : c \in asking} : x = held.pending
      BY <2>3
    <3> QED BY <3>1, <3>2
  <2> QED BY <2>1, <2>4, <2>5
<1>3. held.life = "reconciliation" =>
          /\ ReconciliationEffect(held) # 0
          /\ held.calls[ReconciliationEffect(held)].is = "unknown"
  <2> SUFFICES ASSUME held.life = "reconciliation"
               PROVE  /\ ReconciliationEffect(held) # 0
                      /\ held.calls[ReconciliationEffect(held)].is = "unknown"
    OBVIOUS
  <2> DEFINE at == {i \in DOMAIN tail : tail[i].kind = "unknown"}
  <2>1. N \in at
    BY <1>1 DEF LifeFits
  <2>2. LastOf(at) \in at
    <3>1. \A j \in at : j <= N
      BY <1>1
    <3> HIDE DEF at
    <3> QED BY <2>1, <3>1 DEF LastOf
  <2>3. ReconciliationEffect(held) = tail[LastOf(at)].n
    BY <2>1 DEF ReconciliationEffect
  <2>4. CardFits(tail[LastOf(at)], held.calls) /\ tail[LastOf(at)].kind = "unknown"
    BY <1>1, <2>2 DEF CardsFit
  <2> HIDE DEF at, tail
  <2> QED BY <2>3, <2>4 DEF CardFits
<1> QED BY <1>2, <1>3 DEF BlockingCardsHaveSubject

(* What the view of the moment shows is true. *)
LEMMA TranscriptFits ==
    ASSUME TranscriptInv PROVE TuiTranscriptCorrect
<1>1. ViewOfCards(held) /\ LifeFits(held, held.tail, held.calls)
  BY DEF TranscriptInv, ViewOfCards
<1>2. ProgressIsCurrent
  BY <1>1 DEF TranscriptInv, LifeFits, ProgressIsCurrent, ProgressShown
<1> QED BY <1>1, <1>2, ShownTrue, ShownOnce, SubjectShown DEF TuiTranscriptCorrect

(* The invariant of the transcript holds at first. *)
LEMMA TranscriptStarts == TranscriptInit => TranscriptInv
<1> SUFFICES ASSUME TranscriptInit PROVE TranscriptInv
  OBVIOUS
<1>1. chat \in [life: ChatLives, active: Nat, turns: Nat, pending: Nat]
  BY DEF TranscriptInit, ChatLives, NoTurn
<1>2. ASSUME NEW c, c.life = "ready", c.active = NoTurn
      PROVE  RowsFitCalls(<< >>, << >>) /\ LifeFits(c, << >>, << >>)
  BY <1>2 DEF RowsFitCalls, CallsFit, CardsFit, FatesFit, LifeFits
<1>3. RowsFitCalls(cards, calls) /\ LifeFits(chat, cards, calls)
  BY <1>2 DEF TranscriptInit
<1>4. ViewOfCards(held)
  BY <1>2 DEF TranscriptInit, ViewOfCards
<1>5. progress \in Seq([kind: {"delta", "attempt"}, turn: Nat]) /\ Len(progress) <= MaxProgress
  BY TranscriptAssumption DEF TranscriptInit
<1> QED BY <1>1, <1>3, <1>4, <1>5 DEF TranscriptInv

(* What the ledger has after a step of the runtime. *)
RuntimeFits ==
    /\ chat \in [life: ChatLives, active: Nat, turns: Nat, pending: Nat]
    /\ RowsFitCalls(cards, calls)
    /\ LifeFits(chat, cards, calls)

(* A step of the runtime leaves what the UI holds. *)
LEMMA RuntimeKept ==
    ASSUME TranscriptInv, RuntimeFits', UiStays PROVE TranscriptInv'
<1>1. ViewOfCards(held)'
  BY DEF TranscriptInv, UiStays, ViewOfCards
<1> QED BY <1>1 DEF TranscriptInv, RuntimeFits, UiStays

(* A turn that begins or ends keeps the ledger in order. *)
LEMMA TurnsFit ==
    ASSUME TranscriptInv, BeginTurn \/ EndShownTurn PROVE RuntimeFits'
<1>1. /\ chat.active \in Nat /\ chat.turns \in Nat /\ chat.pending \in Nat
      /\ RowsFitCalls(cards, calls) /\ LifeFits(chat, cards, calls)
      /\ cards \in Seq(CardSet)
  BY DEF TranscriptInv, RowsFitCalls, CardsFit
<1>2. CASE BeginTurn
  <2> DEFINE new == [kind |-> "user", turn |-> chat.turns + 1, name |-> 0, n |-> 0]
  <2>1. new \in CardSet /\ new.kind = "user" /\ new.n = 0
    BY <1>1 DEF CardSet, Kinds, Labels
  <2>2. cards' = Append(cards, new) /\ calls' = calls
    BY <1>2 DEF BeginTurn, AppendCard
  <2> HIDE DEF new
  <2>3. RowsFitCalls(cards', calls')
    BY <1>1, <2>1, <2>2, PlainCard
  <2>4. /\ chat' \in [life: ChatLives, active: Nat, turns: Nat, pending: Nat]
        /\ chat'.life = "running"
    BY <1>1, <1>2 DEF BeginTurn, ChatLives
  <2>5. \A i \in DOMAIN calls : calls[i].is \notin {"prepared", "waiting", "started"}
    BY <1>1, <1>2 DEF BeginTurn, LifeFits
  <2>6. LifeFits(chat', cards', calls')
    BY <2>2, <2>4, <2>5 DEF LifeFits
  <2> QED BY <2>3, <2>4, <2>6 DEF RuntimeFits
<1>3. CASE EndShownTurn
  <2> DEFINE new == [kind |-> "completion", turn |-> chat.active, name |-> 0, n |-> 0]
  <2>1. new \in CardSet /\ new.kind = "completion" /\ new.n = 0
    BY <1>1 DEF CardSet, Kinds, Labels
  <2>2. cards' = Append(cards, new) /\ calls' = calls
    BY <1>3 DEF EndShownTurn, AppendCard
  <2> HIDE DEF new
  <2>3. RowsFitCalls(cards', calls')
    BY <1>1, <2>1, <2>2, PlainCard
  <2>4. /\ chat' \in [life: ChatLives, active: Nat, turns: Nat, pending: Nat]
        /\ chat'.life = "ready" /\ chat'.active = NoTurn
    BY <1>1, <1>3 DEF EndShownTurn, ChatLives, NoTurn, TranscriptInv
  <2>5. \A i \in DOMAIN calls : calls[i].is \notin {"prepared", "waiting", "started"}
    BY <1>3 DEF EndShownTurn, CallInHand
  <2>6. LifeFits(chat', cards', calls')
    BY <2>2, <2>4, <2>5 DEF LifeFits
  <2> QED BY <2>3, <2>4, <2>6 DEF RuntimeFits
<1> QED BY <1>2, <1>3

(* A call that is prepared keeps the ledger in order. *)
LEMMA PreparedFits ==
    ASSUME TranscriptInv, NEW name \in CallNames, NEW waits \in BOOLEAN,
           PrepareShown(name, waits)
    PROVE  RuntimeFits'
<1> DEFINE n == Len(calls) + 1
           is == IF waits THEN "waiting" ELSE "prepared"
           one == [turn |-> chat.active, name |-> name, is |-> is]
           c == [kind |-> "call", turn |-> chat.active, name |-> name, n |-> n]
<1>1. /\ chat \in [life: ChatLives, active: Nat, turns: Nat, pending: Nat]
      /\ RowsFitCalls(cards, calls) /\ LifeFits(chat, cards, calls)
      /\ cards \in Seq(CardSet) /\ calls \in Seq(CallSet) /\ Len(calls) \in Nat
  BY DEF TranscriptInv, RowsFitCalls, CardsFit, CallsFit
<1>2. /\ one \in CallSet /\ one.is = is /\ one.turn = chat.active /\ one.name = name
      /\ is \in {"prepared", "waiting"} /\ (is = "waiting" <=> waits)
  BY <1>1 DEF CallSet, Labels, CallFates
<1>3. /\ c \in CardSet /\ c.kind = "call" /\ c.n = n /\ c.turn = chat.active /\ c.name = name
  BY <1>1 DEF CardSet, Kinds, Labels
<1>4. /\ calls' = Append(calls, one) /\ cards' = Append(cards, c)
      /\ chat.life = "running"
      /\ chat' = IF waits THEN [chat EXCEPT !.life = "permission", !.pending = n] ELSE chat
      /\ \A i \in DOMAIN calls : calls[i].turn = chat.active => calls[i].name # name
      /\ \A i \in DOMAIN calls : calls[i].is \notin {"prepared", "waiting", "started"}
  BY DEF PrepareShown, AppendCard, CallInHand
<1> HIDE DEF one, c
<1>5. RowsFitCalls(cards', calls')
  BY <1>1, <1>2, <1>3, <1>4, CallAdded
<1>6. /\ Len(calls') = n /\ calls'[n] = one /\ DOMAIN calls' = 1..n
      /\ \A i \in DOMAIN calls' : i = n \/ (i \in DOMAIN calls /\ calls'[i] = calls[i])
      /\ Len(cards') = Len(cards) + 1 /\ cards'[Len(cards')] = c /\ Len(cards) \in Nat
  BY <1>1, <1>2, <1>3, <1>4
<1>7. /\ chat' \in [life: ChatLives, active: Nat, turns: Nat, pending: Nat]
      /\ chat'.life = IF waits THEN "permission" ELSE "running"
      /\ chat'.active = chat.active
      /\ waits => chat'.pending = n
  <2>1. n \in Nat /\ "permission" \in ChatLives
    BY <1>1 DEF ChatLives
  <2> HIDE DEF n
  <2>2. CASE waits
    BY <1>1, <1>4, <2>1, <2>2
  <2>3. CASE ~waits
    BY <1>1, <1>4, <2>3
  <2> QED BY <2>2, <2>3
<1>8. LifeFits(chat', cards', calls')
  <2>1. \A i \in DOMAIN calls' : calls'[i].is \in {"prepared", "waiting", "started"} =>
           /\ i = Len(calls')
           /\ calls'[i].turn = chat'.active
           /\ chat'.life = IF calls'[i].is = "waiting" THEN "permission" ELSE "running"
    BY <1>2, <1>4, <1>6, <1>7
  <2>2. chat'.life = "permission" =>
           /\ Len(calls') > 0 /\ Len(cards') > 0
           /\ chat'.pending = Len(calls')
           /\ calls'[Len(calls')].is = "waiting"
           /\ cards'[Len(cards')].kind = "call"
           /\ cards'[Len(cards')].n = chat'.pending
    BY <1>1, <1>2, <1>3, <1>6, <1>7
  <2>3. chat'.life \in {"permission", "running"}
    BY <1>7
  <2> QED BY <2>1, <2>2, <2>3 DEF LifeFits
<1> QED BY <1>5, <1>7, <1>8 DEF RuntimeFits

(* The last call moves, and the lifecycle with it. *)
LEMMA LifeMoves ==
    ASSUME NEW put \in Seq(CallSet), NEW rows, NEW c, LifeFits(c, rows, put), Len(put) > 0,
           put[Len(put)].is \in {"prepared", "waiting", "started"},
           NEW is \in CallFates \ {"waiting"}, NEW d, NEW more,
           \/ d.life = "running"
           \/ /\ d.life = "reconciliation" /\ is = "unknown"
              /\ Len(more) > 0 /\ more[Len(more)].kind = "unknown",
           d.active = c.active
    PROVE  LifeFits(d, more, WithFate(put, is))
<1> DEFINE new == WithFate(put, is)
<1>1. /\ new \in Seq(CallSet) /\ Len(new) = Len(put) /\ DOMAIN new = DOMAIN put
      /\ \A i \in DOMAIN put : /\ new[i].turn = put[i].turn
                               /\ i # Len(put) => new[i].is = put[i].is
      /\ new[Len(put)].is = is
  BY FateIs
<1> HIDE DEF new
<1>2. /\ Len(put) \in DOMAIN put /\ put[Len(put)].turn = c.active
      /\ \A i \in DOMAIN put : i # Len(put) =>
             put[i].is \notin {"prepared", "waiting", "started"}
  BY DEF LifeFits
<1>3. \A i \in DOMAIN new : new[i].is \in {"prepared", "waiting", "started"} =>
           /\ i = Len(new)
           /\ new[i].turn = d.active
           /\ d.life = IF new[i].is = "waiting" THEN "permission" ELSE "running"
  BY <1>1, <1>2
<1> QED BY <1>1, <1>3 DEF LifeFits, new

(* What becomes of the last call keeps the ledger in order. *)
LEMMA FatesMove ==
    ASSUME TranscriptInv, Allowed \/ Denied \/ StartEffect \/ LoseEffect
               \/ \E is \in {"done", "failed"} : FinishEffect(is)
    PROVE  RuntimeFits'
<1> DEFINE n == Len(calls)
           from == calls[n].is
<1>1. /\ chat \in [life: ChatLives, active: Nat, turns: Nat, pending: Nat]
      /\ RowsFitCalls(cards, calls) /\ LifeFits(chat, cards, calls)
      /\ cards \in Seq(CardSet) /\ calls \in Seq(CallSet) /\ n \in Nat
  BY DEF TranscriptInv, RowsFitCalls, CardsFit, CallsFit
<1>2. n > 0 /\ n \in DOMAIN calls /\ from \in {"prepared", "waiting", "started"}
  <2>1. n > 0 /\ from \in {"prepared", "waiting", "started"}
    BY DEF Allowed, Denied, StartEffect, LoseEffect, FinishEffect, LastIs
  <2> QED BY <1>1, <2>1
<1>3. calls[n].turn = chat.active /\ calls[n].name \in Labels
      /\ chat.life = IF from = "waiting" THEN "permission" ELSE "running"
  <2>1. calls[n] \in CallSet
    BY <1>1, <1>2
  <2> QED BY <1>1, <1>2, <2>1 DEF LifeFits, CallSet
<1>4. \A life \in ChatLives :
          /\ [chat EXCEPT !.life = life] \in [life: ChatLives, active: Nat, turns: Nat, pending: Nat]
          /\ [chat EXCEPT !.life = life, !.pending = 0]
                \in [life: ChatLives, active: Nat, turns: Nat, pending: Nat]
          /\ [chat EXCEPT !.life = life].life = life
          /\ [chat EXCEPT !.life = life].active = chat.active
          /\ [chat EXCEPT !.life = life, !.pending = 0].life = life
          /\ [chat EXCEPT !.life = life, !.pending = 0].active = chat.active
  BY <1>1
<1>5. ASSUME NEW kind \in Kinds, NEW is \in CallFates \ {"waiting"}, NEW name \in Labels,
             Told(from, kind, is), kind \in {"result", "error"} => name = calls[n].name,
             Becomes(is), AppendCard(kind, chat.active, name, n),
             chat' \in [life: ChatLives, active: Nat, turns: Nat, pending: Nat],
             chat'.active = chat.active,
             chat'.life = IF kind = "unknown" THEN "reconciliation" ELSE "running"
      PROVE  RuntimeFits'
  <2> DEFINE c == [kind |-> kind, turn |-> chat.active, name |-> name, n |-> n]
  <2>1. c \in CardSet /\ c.kind = kind /\ c.turn = chat.active /\ c.name = name /\ c.n = n
    BY <1>1 DEF CardSet
  <2>2. cards' = Append(cards, c) /\ calls' = WithFate(calls, is)
    BY <1>5 DEF AppendCard, Becomes, WithFate
  <2> HIDE DEF c
  <2>3. RowsFitCalls(cards', calls')
    BY <1>1, <1>2, <1>3, <1>5, <2>1, <2>2, FateTold
  <2>4. Len(cards') > 0 /\ cards'[Len(cards')] = c
    BY <1>1, <2>1, <2>2
  <2>5. kind = "unknown" => is = "unknown"
    BY <1>5 DEF Told
  <2>6. LifeFits(chat', cards', calls')
    BY <1>1, <1>2, <1>5, <2>1, <2>2, <2>4, <2>5, LifeMoves
  <2> QED BY <1>5, <2>3, <2>6 DEF RuntimeFits
<1>6. /\ {"running", "reconciliation"} \subseteq ChatLives /\ 0 \in Labels
      /\ {"error", "started", "unknown", "result"} \subseteq Kinds
      /\ {"refused", "started", "unknown", "done", "failed"} \subseteq CallFates \ {"waiting"}
  BY DEF ChatLives, Labels, Kinds, CallFates
<1>7. CASE Allowed
  <2>1. /\ from = "waiting" /\ calls' = WithFate(calls, "prepared") /\ cards' = cards
        /\ chat' = [chat EXCEPT !.life = "running", !.pending = 0]
    BY <1>7 DEF Allowed, LastIs, Becomes, WithFate
  <2>2. RowsFitCalls(cards', calls')
    BY <1>1, <1>2, <2>1, CallAllowed
  <2>3. /\ chat' \in [life: ChatLives, active: Nat, turns: Nat, pending: Nat]
        /\ chat'.life = "running" /\ chat'.active = chat.active
    BY <1>4, <1>6, <2>1
  <2>4. "prepared" \in CallFates \ {"waiting"}
    BY DEF CallFates
  <2>5. LifeFits(chat', cards', calls')
    BY <1>1, <1>2, <2>1, <2>3, <2>4, LifeMoves
  <2> QED BY <2>2, <2>3, <2>5 DEF RuntimeFits
<1>8. CASE Denied
  <2>1. /\ from = "waiting" /\ Becomes("refused")
        /\ AppendCard("error", chat.active, calls[n].name, n)
        /\ chat' = [chat EXCEPT !.life = "running", !.pending = 0]
    BY <1>8 DEF Denied, LastIs
  <2>2. Told(from, "error", "refused")
    BY <2>1 DEF Told
  <2> QED BY <1>3, <1>4, <1>5, <1>6, <2>1, <2>2
<1>9. CASE StartEffect
  <2>1. /\ from = "prepared" /\ Becomes("started")
        /\ AppendCard("started", chat.active, 0, n) /\ chat' = chat
    BY <1>9 DEF StartEffect, LastIs
  <2>2. Told(from, "started", "started")
    BY <2>1 DEF Told
  <2> QED BY <1>1, <1>3, <1>5, <1>6, <2>1, <2>2
<1>10. CASE LoseEffect
  <2>1. /\ from = "started" /\ Becomes("unknown")
        /\ AppendCard("unknown", chat.active, 0, n)
        /\ chat' = [chat EXCEPT !.life = "reconciliation"]
    BY <1>10 DEF LoseEffect, LastIs
  <2>2. Told(from, "unknown", "unknown")
    BY <2>1 DEF Told
  <2> QED BY <1>4, <1>5, <1>6, <2>1, <2>2
<1>11. ASSUME NEW is \in {"done", "failed"}, FinishEffect(is) PROVE RuntimeFits'
  <2> DEFINE kind == IF is = "done" THEN "result" ELSE "error"
  <2>1. /\ from = "started" /\ Becomes(is)
        /\ AppendCard(kind, chat.active, calls[n].name, n) /\ chat' = chat
    BY <1>11 DEF FinishEffect, LastIs
  <2>2. Told(from, kind, is)
    BY <2>1 DEF Told
  <2> QED BY <1>1, <1>3, <1>5, <1>6, <2>1, <2>2
<1> QED BY <1>7, <1>8, <1>9, <1>10, <1>11

(* A session that is reconciled keeps the ledger in order. *)
LEMMA ReconciledFits ==
    ASSUME TranscriptInv, Reconciled PROVE RuntimeFits'
<1>1. /\ chat \in [life: ChatLives, active: Nat, turns: Nat, pending: Nat]
      /\ RowsFitCalls(cards, calls) /\ LifeFits(chat, cards, calls)
      /\ chat.life = "reconciliation"
      /\ chat' = [chat EXCEPT !.life = "over", !.active = NoTurn]
      /\ calls' = calls /\ cards' = cards
  BY DEF TranscriptInv, Reconciled
<1>2. /\ chat' \in [life: ChatLives, active: Nat, turns: Nat, pending: Nat]
      /\ chat'.life = "over" /\ chat'.active = NoTurn
  BY <1>1 DEF ChatLives, NoTurn
<1>3. LifeFits(chat', cards', calls')
  BY <1>1, <1>2 DEF LifeFits
<1> QED BY <1>1, <1>2, <1>3 DEF RuntimeFits

(* A fresh snapshot is the end of what there is. *)
LEMMA SnapshotFits ==
    ASSUME TranscriptInv, Snapshot PROVE TranscriptInv'
<1>1. /\ RowsFitCalls(cards, calls) /\ LifeFits(chat, cards, calls) /\ cards \in Seq(CardSet)
  BY DEF TranscriptInv, RowsFitCalls, CardsFit
<1>2. IsEndOf(Window, cards)
  BY <1>1, WindowIsEndOf
<1>3. RowsFitCalls(Window, calls)
  BY <1>1, <1>2, SuffixFits
<1> DEFINE v == [life |-> chat.life, active |-> chat.active, pending |-> chat.pending,
                 tail |-> Window, calls |-> calls]
<1>4. /\ held' = v /\ progress' = << >> /\ UNCHANGED <<calls, cards, chat>>
      /\ v.life = chat.life /\ v.active = chat.active /\ v.pending = chat.pending
      /\ v.tail = Window /\ v.calls = calls
  BY DEF Snapshot
<1> HIDE DEF v
<1>5. Len(cards) > 0 => Len(Window) > 0 /\ Window[Len(Window)] = cards[Len(cards)]
  <2> SUFFICES ASSUME Len(cards) > 0
               PROVE  Len(Window) > 0 /\ Window[Len(Window)] = cards[Len(cards)]
    OBVIOUS
  <2> DEFINE tail == Window
  <2>1. /\ Len(tail) > 0 /\ tail \in Seq(CardSet)
        /\ \A i \in DOMAIN tail : tail[i] = cards[i + (Len(cards) - Len(tail))]
    BY <1>2 DEF IsEndOf
  <2> HIDE DEF tail
  <2>2. Len(tail) \in DOMAIN tail /\ Len(tail) + (Len(cards) - Len(tail)) = Len(cards)
    BY <1>1, <2>1
  <2>3. tail[Len(tail)] = cards[Len(cards)]
    BY <2>1, <2>2
  <2> QED BY <2>1, <2>3 DEF tail
<1>6. LifeFits(v, Window, calls)
  BY <1>1, <1>4, <1>5 DEF LifeFits
<1>7. ViewOfCards(held)'
  BY <1>3, <1>4, <1>6 DEF ViewOfCards
<1>8. /\ chat' \in [life: ChatLives, active: Nat, turns: Nat, pending: Nat]
      /\ RowsFitCalls(cards, calls)' /\ LifeFits(chat, cards, calls)'
  BY <1>1, <1>4 DEF TranscriptInv
<1>9. progress' \in Seq([kind: {"delta", "attempt"}, turn: Nat]) /\ Len(progress') <= MaxProgress
  BY <1>4, TranscriptAssumption
<1> QED BY <1>7, <1>8, <1>9 DEF TranscriptInv

(* Progress keeps the invariant of the transcript. *)
LEMMA ProgressFits ==
    ASSUME TranscriptInv, NEW kind \in {"delta", "attempt"}, ProgressArrives(kind)
    PROVE  TranscriptInv'
<1> DEFINE E == [kind: {"delta", "attempt"}, turn: Nat]
           e == [kind |-> kind, turn |-> chat.turns]
<1>1. progress \in Seq(E) /\ e \in E /\ Len(progress) <= MaxProgress /\ MaxProgress \in Nat
  BY TranscriptAssumption DEF TranscriptInv
<1>2. progress' = progress \/ (progress' = Append(progress, e) /\ ~(Len(progress) >= MaxProgress))
  BY DEF ProgressArrives, Recorded
<1> HIDE DEF E, e
<1>3. progress' \in Seq(E) /\ Len(progress') <= MaxProgress
  BY <1>1, <1>2
<1>4. UNCHANGED <<calls, cards, chat, held>>
  BY DEF ProgressArrives
<1> QED BY <1>3, <1>4 DEF TranscriptInv, ViewOfCards, E

(* Every step keeps the invariant of the transcript. *)
LEMMA TranscriptSteps == TranscriptInv /\ [TranscriptNext]_transcriptVars => TranscriptInv'
<1> SUFFICES ASSUME TranscriptInv, [TranscriptNext]_transcriptVars PROVE TranscriptInv'
  OBVIOUS
<1>1. CASE Runtime
  <2>1. UiStays
    BY <1>1 DEF Runtime, BeginTurn, Allowed, Denied, StartEffect, LoseEffect, Reconciled,
                EndShownTurn, PrepareShown, FinishEffect
  <2>2. RuntimeFits'
    BY <1>1, TurnsFit, PreparedFits, FatesMove, ReconciledFits DEF Runtime
  <2> QED BY <2>1, <2>2, RuntimeKept
<1>2. CASE Snapshot
  BY <1>2, SnapshotFits
<1>3. ASSUME NEW kind \in {"delta", "attempt"}, ProgressArrives(kind) PROVE TranscriptInv'
  BY <1>3, ProgressFits
<1>4. CASE UNCHANGED transcriptVars
  BY <1>4 DEF transcriptVars, TranscriptInv, ViewOfCards
<1> QED BY <1>1, <1>2, <1>3, <1>4 DEF TranscriptNext

(* However the cards, the snapshots and the progress interleave, and however short the tail
   of a snapshot is: each call that is listed is shown as it stood, each answer once, a card
   that blocks names the call that waits or was lost, and progress is that of the turn in
   view (project_transcript, permission_presentation,
   reconciliation_effect_from_snapshot, record_progress). *)
THEOREM TranscriptSafety == TranscriptSpec => []TuiTranscriptCorrect
<1>1. TranscriptSpec => []TranscriptInv
  BY TranscriptStarts, TranscriptSteps, PTL DEF TranscriptSpec
<1>2. TranscriptInv => TuiTranscriptCorrect
  BY TranscriptFits
<1> QED BY <1>1, <1>2, PTL

-----------------------------------------------------------------------------
(* The text guards *)

(* What holds behind a text, and of a piece when it holds of all the later ones, holds of
   every piece. *)
LEMMA Downward ==
    ASSUME NEW N \in Nat, NEW S, N + 1 \in S,
           \A i \in 1..N : ((i + 1)..(N + 1) \subseteq S) => i \in S
    PROVE  1..(N + 1) \subseteq S
<1> DEFINE T == {d \in 0..N : N + 1 - d \notin S}
<1>1. T = {}
  <2> SUFFICES ASSUME T # {} PROVE FALSE
    OBVIOUS
  <2>1. PICK d \in T : \A c \in T : d <= c
    <3>1. T \in SUBSET Nat
      OBVIOUS
    <3> HIDE DEF T
    <3> QED BY <3>1, LeastNumber
  <2>2. d \in 0..N /\ N + 1 - d \notin S /\ d # 0
    OBVIOUS
  <2>3. ASSUME NEW j \in (N + 1 - d + 1)..(N + 1) PROVE j \in S
    <3> DEFINE c == N + 1 - j
    <3>1. c \in 0..N /\ ~(d <= c) /\ N + 1 - c = j
      BY <2>2
    <3>2. c \notin T
      <4> HIDE DEF T, c
      <4> QED BY <2>1, <3>1
    <3> HIDE DEF c
    <3> QED BY <3>1, <3>2
  <2>4. N + 1 - d \in 1..N
    BY <2>2
  <2> QED BY <2>2, <2>3, <2>4
<1>2. ASSUME NEW j \in 1..(N + 1) PROVE j \in S
  <2> DEFINE d == N + 1 - j
  <2>1. d \in 0..N /\ N + 1 - d = j
    OBVIOUS
  <2>2. d \notin T
    BY <1>1
  <2> HIDE DEF d
  <2> QED BY <2>1, <2>2
<1> QED BY <1>2

(* g makes each entry of a table of those behind it. *)
Backward(g, N, V) ==
    /\ g \in [1..N -> [[1..(N + 1) -> V] -> V]]
    /\ \A i \in 1..N : \A t, u \in [1..(N + 1) -> V] :
           (\A j \in (i + 1)..(N + 1) : t[j] = u[j]) => g[i][t] = g[i][u]

Table(f, g, N, V, v) ==
    /\ f \in [1..(N + 1) -> V] /\ f[N + 1] = v
    /\ \A i \in 1..N : f[i] = g[i][f]

(* A table whose entries are made of the later ones exists. *)
LEMMA TableExists ==
    ASSUME NEW N \in Nat, NEW V, NEW v \in V, NEW g, Backward(g, N, V)
    PROVE  \E f : Table(f, g, N, V, v)
<1> DEFINE Solves(f, k) == f[N + 1] = v /\ \A i \in k..N : f[i] = g[i][f]
           S == {k \in 1..(N + 1) : \E f \in [1..(N + 1) -> V] : Solves(f, k)}
<1>0. /\ g \in [1..N -> [[1..(N + 1) -> V] -> V]]
      /\ \A i \in 1..N : \A t, u \in [1..(N + 1) -> V] :
             (\A j \in (i + 1)..(N + 1) : t[j] = u[j]) => g[i][t] = g[i][u]
  BY DEF Backward
<1>1. N + 1 \in S
  <2> DEFINE f == [i \in 1..(N + 1) |-> v]
  <2>1. f \in [1..(N + 1) -> V] /\ Solves(f, N + 1)
    OBVIOUS
  <2> HIDE DEF Solves
  <2> QED BY <2>1
<1>2. ASSUME NEW k \in 1..N, (k + 1)..(N + 1) \subseteq S PROVE k \in S
  <2>1. k + 1 \in S
    <3>1. k + 1 \in (k + 1)..(N + 1)
      OBVIOUS
    <3> HIDE DEF S
    <3> QED BY <1>2, <3>1
  <2>2. PICK f \in [1..(N + 1) -> V] : Solves(f, k + 1)
    BY <2>1
  <2> DEFINE h == [f EXCEPT ![k] = g[k][f]]
  <2>3. k \in 1..(N + 1) /\ N + 1 # k /\ N + 1 \in 1..(N + 1) /\ g[k][f] \in V
    BY <1>0
  <2>4. h \in [1..(N + 1) -> V] /\ h[N + 1] = v
    BY <2>2, <2>3
  <2>5. ASSUME NEW i \in k..N PROVE h[i] = g[i][h]
    <3>1. \A j \in (i + 1)..(N + 1) : h[j] = f[j]
      OBVIOUS
    <3>2. i \in 1..N /\ i \in 1..(N + 1)
      OBVIOUS
    <3>3. g[i][h] = g[i][f]
      <4> HIDE DEF h
      <4> QED BY <1>0, <2>4, <3>1, <3>2
    <3>4. CASE i = k
      BY <2>3, <3>3, <3>4
    <3>5. CASE i # k
      <4>1. i \in (k + 1)..N
        BY <3>5
      <4>2. f[i] = g[i][f]
        BY <2>2, <4>1
      <4>3. h[i] = f[i]
        BY <3>5, <3>2
      <4> QED BY <3>3, <4>2, <4>3
    <3> QED BY <3>4, <3>5
  <2>6. Solves(h, k)
    BY <2>4, <2>5
  <2> HIDE DEF Solves, h
  <2> QED BY <2>3, <2>4, <2>6
<1>3. 1 \in S
  <2>1. 1 \in 1..(N + 1)
    OBVIOUS
  <2> HIDE DEF S
  <2> QED BY <1>1, <1>2, <2>1, Downward
<1> QED BY <1>3 DEF Table

(* One piece in front of a text. *)
LEMMA ConsFits ==
    ASSUME NEW x \in Fragments, NEW q \in Seq(Fragments)
    PROVE  /\ <<x>> \o q \in Seq(Fragments)
           /\ Len(<<x>> \o q) = Len(q) + 1
           /\ (<<x>> \o q)[1] = x
           /\ \A k \in 1..Len(q) : (<<x>> \o q)[k + 1] = q[k]
           /\ \A k \in DOMAIN (<<x>> \o q) : k = 1 \/ (k - 1 \in 1..Len(q) /\ (<<x>> \o q)[k] = q[k - 1])
<1>1. <<x>> \in Seq(Fragments) /\ Len(<<x>>) = 1 /\ <<x>>[1] = x
  OBVIOUS
<1> DEFINE c == <<x>> \o q
<1>2. /\ c \in Seq(Fragments)
      /\ Len(c) = Len(<<x>>) + Len(q)
      /\ \A i \in 1..(Len(<<x>>) + Len(q)) :
             c[i] = IF i <= Len(<<x>>) THEN <<x>>[i] ELSE q[i - Len(<<x>>)]
  BY <1>1, ConcatProperties
<1>3. Len(q) \in Nat
  OBVIOUS
<1> HIDE DEF c
<1>4. c[1] = x /\ Len(c) = Len(q) + 1 /\ DOMAIN c = 1..(Len(q) + 1)
  BY <1>1, <1>2, <1>3
<1>5. ASSUME NEW k \in 1..Len(q) PROVE c[k + 1] = q[k]
  BY <1>1, <1>2, <1>3
<1>6. ASSUME NEW k \in DOMAIN c PROVE k = 1 \/ (k - 1 \in 1..Len(q) /\ c[k] = q[k - 1])
  BY <1>1, <1>2, <1>3, <1>4
<1> QED BY <1>2, <1>4, <1>5, <1>6 DEF c

(* The rest of a text, from one piece on. *)
Rest(s, i) == SubSeq(s, i, Len(s))

(* The rest of a text, one piece after another. *)
LEMMA RestIs ==
    ASSUME NEW s \in Seq(Fragments)
    PROVE  /\ Rest(s, 1) = s
           /\ Rest(s, Len(s) + 1) = << >>
           /\ \A i \in 1..Len(s) : Rest(s, i) = <<s[i]>> \o Rest(s, i + 1)
<1>1. Len(s) \in Nat
  OBVIOUS
<1>2. SubSeq(s, 1, Len(s)) = s
  BY SubSeqFull
<1>3. SubSeq(s, Len(s) + 1, Len(s)) = << >>
  BY <1>1, SubSeqEmpty
<1>4. ASSUME NEW i \in 1..Len(s) PROVE Rest(s, i) = <<s[i]>> \o Rest(s, i + 1)
  <2>1. Len(s) \in i..Len(s)
    BY <1>1
  <2> QED BY <2>1, SubSeqRecursiveFirst DEF Rest
<1> QED BY <1>2, <1>3, <1>4 DEF Rest

-----------------------------------------------------------------------------
(* Replacement *)

ReplaceStep(s, end, mark, t, i) ==
    IF i > Len(s) THEN << >>
    ELSE IF end[i] > i THEN mark[i] \o t[end[i]]
    ELSE <<s[i]>> \o t[i + 1]

(* Where something may end, and what may stand for it. *)
Replaces(s, end, mark) ==
    /\ end \in [1..Len(s) -> 0..(Len(s) + 1)]
    /\ mark \in [1..Len(s) -> Seq(Fragments)]

(* What each piece and those behind it become. *)
Replacement(s, end, mark, h) ==
    /\ h \in [1..(Len(s) + 1) -> Seq(Fragments)]
    /\ \A i \in 1..(Len(s) + 1) : h[i] = ReplaceStep(s, end, mark, h, i)

(* One step more, replaced or not, makes a text of pieces. *)
LEMMA ReplaceStepFits ==
    ASSUME NEW s \in Seq(Fragments), NEW end, NEW mark, Replaces(s, end, mark),
           NEW t, NEW i \in 1..Len(s),
           \A j \in (i + 1)..(Len(s) + 1) : t[j] \in Seq(Fragments)
    PROVE  ReplaceStep(s, end, mark, t, i) \in Seq(Fragments)
<1>1. /\ Len(s) \in Nat /\ s[i] \in Fragments /\ ~(i > Len(s))
      /\ i + 1 \in (i + 1)..(Len(s) + 1) /\ end[i] \in 0..(Len(s) + 1)
      /\ mark[i] \in Seq(Fragments)
  BY DEF Replaces
<1>2. CASE end[i] > i
  <2>1. end[i] \in (i + 1)..(Len(s) + 1)
    BY <1>1, <1>2
  <2>2. t[end[i]] \in Seq(Fragments)
    BY <2>1
  <2>3. ReplaceStep(s, end, mark, t, i) = mark[i] \o t[end[i]]
    BY <1>1, <1>2 DEF ReplaceStep
  <2> QED BY <1>1, <2>2, <2>3, ConcatProperties
<1>3. CASE ~(end[i] > i)
  <2>1. t[i + 1] \in Seq(Fragments)
    BY <1>1
  <2>2. ReplaceStep(s, end, mark, t, i) = <<s[i]>> \o t[i + 1]
    BY <1>1, <1>3 DEF ReplaceStep
  <2> QED BY <1>1, <2>1, <2>2, ConsFits
<1> QED BY <1>2, <1>3

(* Replaced is the first entry of its table. *)
LEMMA ReplacedIs ==
    ASSUME NEW s \in Seq(Fragments), NEW end, NEW mark, Replaces(s, end, mark)
    PROVE  \E h : Replacement(s, end, mark, h) /\ Replaced(s, end, mark) = h[1]
<1> DEFINE N == Len(s)
           V == Seq(Fragments)
           v == << >>
           Is(f) == f = [i \in 1..(Len(s) + 1) |-> ReplaceStep(s, end, mark, f, i)]
           at == CHOOSE f : Is(f)
           g == [i \in 1..N |-> [t \in [1..(N + 1) -> V] |-> ReplaceStep(s, end, mark, t, i)]]
<1>1. N \in Nat /\ v \in V
  BY TextAssumption
<1>2. \A t : ReplaceStep(s, end, mark, t, N + 1) = v
  BY <1>1 DEF ReplaceStep
<1>3. Replaced(s, end, mark) = at[1]
  BY DEF Replaced, ReplaceStep
<1>4. ASSUME NEW i \in 1..N, NEW t, \A j \in (i + 1)..(N + 1) : t[j] \in V
      PROVE  ReplaceStep(s, end, mark, t, i) \in V
  BY <1>4, ReplaceStepFits
<1> HIDE DEF N, V, v
<1>5. PICK f : Table(f, g, N, V, v)
  <2>1. g \in [1..N -> [[1..(N + 1) -> V] -> V]]
    <3>1. ASSUME NEW i \in 1..N, NEW t \in [1..(N + 1) -> V]
          PROVE  ReplaceStep(s, end, mark, t, i) \in V
      <4>1. \A j \in (i + 1)..(N + 1) : t[j] \in V
        BY <1>1
      <4> QED BY <1>4, <4>1
    <3> QED BY <3>1
  <2>2. \A i \in 1..N : \A t, u \in [1..(N + 1) -> V] :
            (\A j \in (i + 1)..(N + 1) : t[j] = u[j]) => g[i][t] = g[i][u]
    <3> SUFFICES ASSUME NEW i \in 1..N, NEW t \in [1..(N + 1) -> V],
                        NEW u \in [1..(N + 1) -> V],
                        \A j \in (i + 1)..(N + 1) : t[j] = u[j]
                 PROVE  ReplaceStep(s, end, mark, t, i) = ReplaceStep(s, end, mark, u, i)
      OBVIOUS
    <3>1. t[i + 1] = u[i + 1]
      BY <1>1
    <3>2. end[i] \in 0..(N + 1)
      BY DEF Replaces, N
    <3>3. end[i] > i => end[i] \in (i + 1)..(N + 1)
      BY <1>1, <3>2
    <3>4. end[i] > i => t[end[i]] = u[end[i]]
      BY <3>3
    <3> QED BY <3>1, <3>4 DEF ReplaceStep
  <2> HIDE DEF g
  <2>3. Backward(g, N, V)
    BY <2>1, <2>2 DEF Backward
  <2> QED BY <1>1, <2>3, TableExists
<1>6. Is(f)
  <2>1. \A i \in 1..N : f[i] = ReplaceStep(s, end, mark, f, i)
    BY <1>5 DEF Table
  <2>2. f[N + 1] = ReplaceStep(s, end, mark, f, N + 1)
    BY <1>2, <1>5 DEF Table
  <2>3. \A i \in 1..(N + 1) : f[i] = ReplaceStep(s, end, mark, f, i)
    BY <1>1, <2>1, <2>2
  <2>4. f \in [1..(N + 1) -> V]
    BY <1>5 DEF Table
  <2> QED BY <2>3, <2>4 DEF N
<1>7. Is(at)
  <2> HIDE DEF Is
  <2> QED BY <1>6
<1>8. at = [i \in 1..(N + 1) |-> ReplaceStep(s, end, mark, at, i)]
  BY <1>7 DEF N
<1> HIDE DEF at, Is, g
<1>9. \A i \in 1..(N + 1) : at[i] = ReplaceStep(s, end, mark, at, i)
  BY <1>8
<1> DEFINE S == {i \in 1..(N + 1) : at[i] \in V}
<1>10. 1..(N + 1) \subseteq S
  <2>1. N + 1 \in S
    BY <1>1, <1>2, <1>9
  <2>2. ASSUME NEW i \in 1..N, (i + 1)..(N + 1) \subseteq S PROVE i \in S
    <3>1. \A j \in (i + 1)..(N + 1) : at[j] \in V
      BY <2>2
    <3>2. ReplaceStep(s, end, mark, at, i) \in V
      BY <1>4, <3>1
    <3> QED BY <1>1, <1>9, <3>2
  <2> HIDE DEF S
  <2> QED BY <1>1, <2>1, <2>2, Downward
<1>11. at \in [1..(N + 1) -> V]
  BY <1>8, <1>10
<1> QED BY <1>3, <1>9, <1>11 DEF Replacement, N, V

-----------------------------------------------------------------------------
(* Frames *)

EscapeStep(s, t, i) ==
    IF i > Len(s) THEN << >>
    ELSE IF TokenEnd(s, i) > 0 THEN <<"neutral">> \o t[TokenEnd(s, i) + 1]
    ELSE <<s[i]>> \o t[i + 1]

(* What each piece and those behind it become. *)
Escapes(s, h) ==
    /\ h \in [1..(Len(s) + 1) -> Seq(Fragments)]
    /\ \A i \in 1..(Len(s) + 1) : h[i] = EscapeStep(s, h, i)

(* A frame token that begins at i, has its name behind it, and ends at e. *)
Token(s, i, name, e) ==
    /\ s[i] = "lt"
    /\ name = i + 1 \/ (name = i + 2 /\ s[i + 1] = "slash")
    /\ s[name] = "tag" /\ e \in (name + 1)..Len(s) /\ s[e] = "gt"
    /\ \A k \in (name + 1)..(e - 1) : s[k] = "space"

(* TokenEnd finds the end of a frame token, if one begins there. *)
LEMMA TokenEndIs ==
    ASSUME NEW s \in Seq(Fragments), NEW i \in 1..Len(s)
    PROVE  /\ TokenEnd(s, i) \in {0} \cup (i + 1)..Len(s)
           /\ TokenEnd(s, i) # 0 <=> \E name, e : Token(s, i, name, e)
<1> DEFINE name == IF i < Len(s) /\ s[i + 1] = "slash" THEN i + 2 ELSE i + 1
           ends == {j \in (name + 1)..Len(s) :
                       s[j] = "gt" /\ \A k \in (name + 1)..(j - 1) : s[k] = "space"}
           begins == s[i] = "lt" /\ name <= Len(s) /\ s[name] = "tag" /\ ends # {}
           end == CHOOSE j \in ends : TRUE
<1>1. Len(s) \in Nat /\ name \in {i + 1, i + 2}
  OBVIOUS
<1>2. TokenEnd(s, i) = IF begins THEN end ELSE 0
  BY DEF TokenEnd
<1>3. ASSUME begins PROVE end \in (i + 1)..Len(s) /\ Token(s, i, name, end)
  <2>1. end \in ends
    <3> HIDE DEF ends
    <3> QED BY <1>3
  <2> HIDE DEF end
  <2>2. /\ end \in (name + 1)..Len(s) /\ s[end] = "gt"
        /\ \A k \in (name + 1)..(end - 1) : s[k] = "space"
    BY <2>1
  <2>3. name = i + 1 \/ (name = i + 2 /\ s[i + 1] = "slash")
    OBVIOUS
  <2>4. s[i] = "lt" /\ s[name] = "tag"
    BY <1>3
  <2> HIDE DEF name, ends, begins
  <2>5. end \in (i + 1)..Len(s)
    BY <1>1, <2>2
  <2> QED BY <2>2, <2>3, <2>4, <2>5 DEF Token
<1>4. ASSUME NEW m, NEW e, Token(s, i, m, e) PROVE begins
  <2>1. m = i + 1 \/ (m = i + 2 /\ s[i + 1] = "slash")
    BY <1>4 DEF Token
  <2>2. s[m] = "tag" /\ e \in (m + 1)..Len(s) /\ s[e] = "gt" /\ s[i] = "lt"
        /\ \A k \in (m + 1)..(e - 1) : s[k] = "space"
    BY <1>4 DEF Token
  <2>3. m = name /\ m <= Len(s)
    BY <2>1, <2>2
  <2>4. e \in ends
    <3> HIDE DEF name
    <3> QED BY <2>2, <2>3
  <2> HIDE DEF name, ends
  <2> QED BY <2>2, <2>3, <2>4
<1> HIDE DEF begins, end, name
<1>5. CASE begins
  <2>1. end # 0
    BY <1>3, <1>5
  <2> QED BY <1>2, <1>3, <1>5, <2>1
<1>6. CASE ~begins
  BY <1>2, <1>4, <1>6
<1> QED BY <1>5, <1>6

(* One piece more, neutralised or not, makes a text of pieces. *)
LEMMA EscapeStepFits ==
    ASSUME NEW s \in Seq(Fragments), NEW t, NEW i \in 1..Len(s),
           \A j \in (i + 1)..(Len(s) + 1) : t[j] \in Seq(Fragments)
    PROVE  EscapeStep(s, t, i) \in Seq(Fragments)
<1>1. Len(s) \in Nat /\ s[i] \in Fragments /\ "neutral" \in Fragments /\ ~(i > Len(s))
      /\ i + 1 \in (i + 1)..(Len(s) + 1)
  BY DEF Fragments
<1> DEFINE e == TokenEnd(s, i)
<1>2. e \in {0} \cup (i + 1)..Len(s)
  BY TokenEndIs
<1>3. EscapeStep(s, t, i) = IF e > 0 THEN <<"neutral">> \o t[e + 1] ELSE <<s[i]>> \o t[i + 1]
  BY <1>1 DEF EscapeStep
<1> HIDE DEF e
<1>4. CASE e > 0
  <2>1. e + 1 \in (i + 1)..(Len(s) + 1)
    BY <1>1, <1>2, <1>4
  <2>2. t[e + 1] \in Seq(Fragments)
    BY <2>1
  <2> QED BY <1>1, <1>3, <1>4, <2>2, ConsFits
<1>5. CASE ~(e > 0)
  <2>1. t[i + 1] \in Seq(Fragments)
    BY <1>1
  <2> QED BY <1>1, <1>3, <1>5, <2>1, ConsFits
<1> QED BY <1>4, <1>5

(* EscapeVolatileFrames is the first entry of its table. *)
LEMMA EscapedIs ==
    ASSUME NEW s \in Seq(Fragments)
    PROVE  \E h : Escapes(s, h) /\ EscapeVolatileFrames(s) = h[1]
<1> DEFINE N == Len(s)
           V == Seq(Fragments)
           v == << >>
           Is(f) == f = [i \in 1..(Len(s) + 1) |-> EscapeStep(s, f, i)]
           at == CHOOSE f : Is(f)
           g == [i \in 1..N |-> [t \in [1..(N + 1) -> V] |-> EscapeStep(s, t, i)]]
<1>1. N \in Nat /\ v \in V
  BY TextAssumption
<1>2. \A t : EscapeStep(s, t, N + 1) = v
  BY <1>1 DEF EscapeStep
<1>3. EscapeVolatileFrames(s) = at[1]
  BY DEF EscapeVolatileFrames, EscapeStep
<1>4. ASSUME NEW i \in 1..N, NEW t, \A j \in (i + 1)..(N + 1) : t[j] \in V
      PROVE  EscapeStep(s, t, i) \in V
  BY <1>4, EscapeStepFits
<1> HIDE DEF N, V, v
<1>5. PICK f : Table(f, g, N, V, v)
  <2>1. g \in [1..N -> [[1..(N + 1) -> V] -> V]]
    <3>1. ASSUME NEW i \in 1..N, NEW t \in [1..(N + 1) -> V]
          PROVE  EscapeStep(s, t, i) \in V
      <4>1. \A j \in (i + 1)..(N + 1) : t[j] \in V
        BY <1>1
      <4> QED BY <1>4, <4>1
    <3> QED BY <3>1
  <2>2. \A i \in 1..N : \A t, u \in [1..(N + 1) -> V] :
            (\A j \in (i + 1)..(N + 1) : t[j] = u[j]) => g[i][t] = g[i][u]
    <3> SUFFICES ASSUME NEW i \in 1..N, NEW t \in [1..(N + 1) -> V],
                        NEW u \in [1..(N + 1) -> V],
                        \A j \in (i + 1)..(N + 1) : t[j] = u[j]
                 PROVE  EscapeStep(s, t, i) = EscapeStep(s, u, i)
      OBVIOUS
    <3>1. t[i + 1] = u[i + 1]
      BY <1>1
    <3>2. TokenEnd(s, i) \in {0} \cup (i + 1)..N
      BY TokenEndIs DEF N
    <3>3. TokenEnd(s, i) > 0 => TokenEnd(s, i) + 1 \in (i + 1)..(N + 1)
      BY <1>1, <3>2
    <3>4. TokenEnd(s, i) > 0 => t[TokenEnd(s, i) + 1] = u[TokenEnd(s, i) + 1]
      BY <3>3
    <3> QED BY <3>1, <3>4 DEF EscapeStep
  <2> HIDE DEF g
  <2>3. Backward(g, N, V)
    BY <2>1, <2>2 DEF Backward
  <2> QED BY <1>1, <2>3, TableExists
<1>6. Is(f)
  <2>1. \A i \in 1..N : f[i] = EscapeStep(s, f, i)
    BY <1>5 DEF Table
  <2>2. f[N + 1] = EscapeStep(s, f, N + 1)
    BY <1>2, <1>5 DEF Table
  <2>3. \A i \in 1..(N + 1) : f[i] = EscapeStep(s, f, i)
    BY <1>1, <2>1, <2>2
  <2>4. f \in [1..(N + 1) -> V]
    BY <1>5 DEF Table
  <2> QED BY <2>3, <2>4 DEF N
<1>7. Is(at)
  <2> HIDE DEF Is
  <2> QED BY <1>6
<1>8. at = [i \in 1..(N + 1) |-> EscapeStep(s, at, i)]
  BY <1>7 DEF N
<1> HIDE DEF at, Is, g
<1>9. \A i \in 1..(N + 1) : at[i] = EscapeStep(s, at, i)
  BY <1>8
<1> DEFINE S == {i \in 1..(N + 1) : at[i] \in V}
<1>10. 1..(N + 1) \subseteq S
  <2>1. N + 1 \in S
    BY <1>1, <1>2, <1>9
  <2>2. ASSUME NEW i \in 1..N, (i + 1)..(N + 1) \subseteq S PROVE i \in S
    <3>1. \A j \in (i + 1)..(N + 1) : at[j] \in V
      BY <2>2
    <3>2. EscapeStep(s, at, i) \in V
      BY <1>4, <3>1
    <3> QED BY <1>1, <1>9, <3>2
  <2> HIDE DEF S
  <2> QED BY <1>1, <2>1, <2>2, Downward
<1>11. at \in [1..(N + 1) -> V]
  BY <1>8, <1>10
<1> QED BY <1>3, <1>9, <1>11 DEF Escapes, N, V

-----------------------------------------------------------------------------
(* Controls *)

FilterStep(s, cap, t, i) ==
    [room \in 0..cap |->
        IF i > Len(s) THEN << >>
        ELSE IF s[i] = "esc" /\ i < Len(s) /\ s[i + 1] = "open"
             THEN t[AfterSequence(s, i + 2)][room]
        ELSE IF s[i] \in {"esc", "control"} THEN t[i + 1][room]
        ELSE IF room < Width(s[i]) THEN <<"truncated">>
        ELSE <<s[i]>> \o t[i + 1][room - Width(s[i])]]

RoomsTo(cap) == [0..cap -> Seq(Fragments)]

(* What each piece and those behind it become, with the room that is left. *)
Filters(s, cap, h) ==
    /\ h \in [1..(Len(s) + 1) -> RoomsTo(cap)]
    /\ \A i \in 1..(Len(s) + 1) : h[i] = FilterStep(s, cap, h, i)

(* A control sequence ends behind its beginning. *)
LEMMA AfterSequenceIs ==
    ASSUME NEW s \in Seq(Fragments), NEW i \in 1..Len(s), i < Len(s)
    PROVE  AfterSequence(s, i + 2) \in (i + 1)..(Len(s) + 1)
<1> DEFINE finals == {j \in (i + 2)..Len(s) : s[j] \in {"letter", "open", "close", "tag", "name",
                                                 "bearer", "sk", "value"}}
           first == CHOOSE j \in finals : \A k \in finals : j <= k
<1>1. Len(s) \in Nat /\ finals \in SUBSET ((i + 2)..Len(s)) /\ finals \in SUBSET Nat
  OBVIOUS
<1>2. AfterSequence(s, i + 2) = IF finals = {} THEN Len(s) + 1 ELSE first + 1
  BY DEF AfterSequence
<1> HIDE DEF finals
<1>3. CASE finals = {}
  BY <1>1, <1>2, <1>3
<1>4. CASE finals # {}
  <2>1. \E j \in finals : \A k \in finals : j <= k
    BY <1>1, <1>4, LeastNumber
  <2>2. first \in finals
    BY <2>1
  <2> HIDE DEF first
  <2>3. first \in (i + 2)..Len(s)
    BY <1>1, <2>2
  <2> QED BY <1>1, <1>2, <1>4, <2>3
<1> QED BY <1>3, <1>4

(* One piece more, kept or not, makes texts of pieces. *)
LEMMA FilterStepFits ==
    ASSUME NEW s \in Seq(Fragments), NEW cap \in Nat, NEW t, NEW i \in 1..Len(s),
           \A j \in (i + 1)..(Len(s) + 1) : t[j] \in RoomsTo(cap)
    PROVE  FilterStep(s, cap, t, i) \in RoomsTo(cap)
<1>1. Len(s) \in Nat /\ s[i] \in Fragments /\ "truncated" \in Fragments /\ ~(i > Len(s))
      /\ i + 1 \in (i + 1)..(Len(s) + 1) /\ cap \in Nat /\ Width(s[i]) \in Nat
  BY TextAssumption DEF Fragments, Width
<1>2. t[i + 1] \in RoomsTo(cap)
  BY <1>1
<1>3. <<"truncated">> \in Seq(Fragments)
  BY <1>1
<1> SUFFICES ASSUME NEW room \in 0..cap PROVE FilterStep(s, cap, t, i)[room] \in Seq(Fragments)
  BY DEF FilterStep, RoomsTo
<1>4. CASE s[i] = "esc" /\ i < Len(s) /\ s[i + 1] = "open"
  <2>1. AfterSequence(s, i + 2) \in (i + 1)..(Len(s) + 1)
    BY <1>4, AfterSequenceIs
  <2>2. t[AfterSequence(s, i + 2)] \in RoomsTo(cap)
    BY <2>1
  <2>3. FilterStep(s, cap, t, i)[room] = t[AfterSequence(s, i + 2)][room]
    BY <1>1, <1>4 DEF FilterStep
  <2> QED BY <2>2, <2>3 DEF RoomsTo
<1>5. CASE ~(s[i] = "esc" /\ i < Len(s) /\ s[i + 1] = "open") /\ s[i] \in {"esc", "control"}
  <2>1. FilterStep(s, cap, t, i)[room] = t[i + 1][room]
    BY <1>1, <1>5 DEF FilterStep
  <2> QED BY <1>2, <2>1 DEF RoomsTo
<1>6. CASE s[i] \notin {"esc", "control"}
  <2>1. FilterStep(s, cap, t, i)[room] = IF room < Width(s[i]) THEN <<"truncated">>
                                    ELSE <<s[i]>> \o t[i + 1][room - Width(s[i])]
    BY <1>1, <1>6 DEF FilterStep
  <2>2. CASE room < Width(s[i])
    BY <1>3, <2>1, <2>2
  <2>3. CASE ~(room < Width(s[i]))
    <3>1. room - Width(s[i]) \in 0..cap
      BY <1>1, <2>3
    <3>2. t[i + 1][room - Width(s[i])] \in Seq(Fragments)
      BY <1>2, <3>1 DEF RoomsTo
    <3> QED BY <1>1, <2>1, <2>3, <3>2, ConsFits
  <2> QED BY <2>2, <2>3
<1> QED BY <1>4, <1>5, <1>6

(* Filtered is what the first entry of its table leaves. *)
LEMMA FilteredIs ==
    ASSUME NEW s \in Seq(Fragments), NEW cap \in Nat
    PROVE  \E h : Filters(s, cap, h) /\ Filtered(s, cap) = h[1][cap]
<1> DEFINE N == Len(s)
           V == RoomsTo(cap)
           v == [room \in 0..cap |-> << >>]
           Is(f) == f = [i \in 1..(Len(s) + 1) |-> FilterStep(s, cap, f, i)]
           at == CHOOSE f : Is(f)
           g == [i \in 1..N |-> [t \in [1..(N + 1) -> V] |-> FilterStep(s, cap, t, i)]]
<1>1. N \in Nat /\ v \in V
  BY TextAssumption DEF RoomsTo
<1>2. \A t : FilterStep(s, cap, t, N + 1) = v
  BY <1>1 DEF FilterStep
<1>3. Filtered(s, cap) = at[1][cap]
  BY DEF Filtered, FilterStep
<1>4. ASSUME NEW i \in 1..N, NEW t, \A j \in (i + 1)..(N + 1) : t[j] \in V
      PROVE  FilterStep(s, cap, t, i) \in V
  BY <1>4, FilterStepFits
<1> HIDE DEF N, V, v
<1>5. PICK f : Table(f, g, N, V, v)
  <2>1. g \in [1..N -> [[1..(N + 1) -> V] -> V]]
    <3>1. ASSUME NEW i \in 1..N, NEW t \in [1..(N + 1) -> V]
          PROVE  FilterStep(s, cap, t, i) \in V
      <4>1. \A j \in (i + 1)..(N + 1) : t[j] \in V
        BY <1>1
      <4> QED BY <1>4, <4>1
    <3> QED BY <3>1
  <2>2. \A i \in 1..N : \A t, u \in [1..(N + 1) -> V] :
            (\A j \in (i + 1)..(N + 1) : t[j] = u[j]) => g[i][t] = g[i][u]
    <3> SUFFICES ASSUME NEW i \in 1..N, NEW t \in [1..(N + 1) -> V],
                        NEW u \in [1..(N + 1) -> V],
                        \A j \in (i + 1)..(N + 1) : t[j] = u[j]
                 PROVE  FilterStep(s, cap, t, i) = FilterStep(s, cap, u, i)
      OBVIOUS
    <3>1. t[i + 1] = u[i + 1]
      BY <1>1
    <3>2. i < N => AfterSequence(s, i + 2) \in (i + 1)..(N + 1)
      BY AfterSequenceIs DEF N
    <3>3. i < N => t[AfterSequence(s, i + 2)] = u[AfterSequence(s, i + 2)]
      BY <3>2
    <3> QED BY <3>1, <3>3 DEF FilterStep, N
  <2> HIDE DEF g
  <2>3. Backward(g, N, V)
    BY <2>1, <2>2 DEF Backward
  <2> QED BY <1>1, <2>3, TableExists
<1>6. Is(f)
  <2>1. \A i \in 1..N : f[i] = FilterStep(s, cap, f, i)
    BY <1>5 DEF Table
  <2>2. f[N + 1] = FilterStep(s, cap, f, N + 1)
    BY <1>2, <1>5 DEF Table
  <2>3. \A i \in 1..(N + 1) : f[i] = FilterStep(s, cap, f, i)
    BY <1>1, <2>1, <2>2
  <2>4. f \in [1..(N + 1) -> V]
    BY <1>5 DEF Table
  <2> QED BY <2>3, <2>4 DEF N
<1>7. Is(at)
  <2> HIDE DEF Is
  <2> QED BY <1>6
<1>8. at = [i \in 1..(N + 1) |-> FilterStep(s, cap, at, i)]
  BY <1>7 DEF N
<1> HIDE DEF at, Is, g
<1>9. \A i \in 1..(N + 1) : at[i] = FilterStep(s, cap, at, i)
  BY <1>8
<1> DEFINE S == {i \in 1..(N + 1) : at[i] \in V}
<1>10. 1..(N + 1) \subseteq S
  <2>1. N + 1 \in S
    BY <1>1, <1>2, <1>9
  <2>2. ASSUME NEW i \in 1..N, (i + 1)..(N + 1) \subseteq S PROVE i \in S
    <3>1. \A j \in (i + 1)..(N + 1) : at[j] \in V
      BY <2>2
    <3>2. FilterStep(s, cap, at, i) \in V
      BY <1>4, <3>1
    <3> QED BY <1>1, <1>9, <3>2
  <2> HIDE DEF S
  <2> QED BY <1>1, <2>1, <2>2, Downward
<1>11. at \in [1..(N + 1) -> V]
  BY <1>8, <1>10
<1> QED BY <1>3, <1>9, <1>11 DEF Filters, N, V

-----------------------------------------------------------------------------
(* What the guards promise *)

NoControls(s) == \A i \in DOMAIN s : s[i] \notin {"esc", "control"}

NoFrame(s) == \A i \in DOMAIN s : TokenEnd(s, i) = 0

(* One harmless piece more leaves a text free of controls. *)
LEMMA ControlsStayOut ==
    ASSUME NEW x \in Fragments, x \notin {"esc", "control"}, NEW q \in Seq(Fragments), NoControls(q)
    PROVE  NoControls(<<x>> \o q)
<1> DEFINE c == <<x>> \o q
<1>1. \A k \in DOMAIN c : k = 1 \/ (k - 1 \in 1..Len(q) /\ c[k] = q[k - 1])
  BY ConsFits
<1>2. c[1] = x /\ DOMAIN q = 1..Len(q)
  BY ConsFits
<1> HIDE DEF c
<1>3. NoControls(c)
  BY <1>1, <1>2 DEF NoControls
<1> QED BY <1>3 DEF c

(* What is left of a text has no control character. *)
LEMMA FilteredClean ==
    ASSUME NEW s \in Seq(Fragments), NEW cap \in Nat
    PROVE  Filtered(s, cap) \in Seq(Fragments) /\ NoControls(Filtered(s, cap))
<1>1. PICK h : Filters(s, cap, h) /\ Filtered(s, cap) = h[1][cap]
  BY FilteredIs
<1> DEFINE N == Len(s)
           Clean(t) == \A room \in 0..cap : t[room] \in Seq(Fragments) /\ NoControls(t[room])
           S == {i \in 1..(N + 1) : Clean(h[i])}
<1>2. N \in Nat /\ cap \in Nat /\ \A i \in 1..N : s[i] \in Fragments /\ Width(s[i]) \in Nat
  BY TextAssumption DEF Width
<1>3. \A i \in 1..(N + 1) : h[i] \in RoomsTo(cap) /\ h[i] = FilterStep(s, cap, h, i)
  BY <1>1 DEF Filters
<1>4. N + 1 \in S
  <2>1. ASSUME NEW room \in 0..cap PROVE h[N + 1][room] = << >>
    <3>1. FilterStep(s, cap, h, N + 1)[room] = << >>
      BY <1>2 DEF FilterStep
    <3> QED BY <1>2, <1>3, <3>1
  <2>2. << >> \in Seq(Fragments) /\ NoControls(<< >>)
    BY DEF NoControls
  <2>3. ASSUME NEW room \in 0..cap
        PROVE  h[N + 1][room] \in Seq(Fragments) /\ NoControls(h[N + 1][room])
    BY <2>1, <2>2, Zenon
  <2>4. Clean(h[N + 1])
    BY <2>3
  <2>5. N + 1 \in 1..(N + 1)
    BY <1>2
  <2> HIDE DEF Clean
  <2> QED BY <2>4, <2>5
<1>5. ASSUME NEW i \in 1..N, (i + 1)..(N + 1) \subseteq S PROVE i \in S
  <2>1. \A j \in (i + 1)..(N + 1) : Clean(h[j])
    <3> HIDE DEF Clean
    <3> QED BY <1>5
  <2>2. /\ i + 1 \in (i + 1)..(N + 1) /\ i \in 1..(N + 1) /\ s[i] \in Fragments
        /\ Width(s[i]) \in Nat /\ "truncated" \in Fragments
    BY <1>2 DEF Fragments
  <2>3. Clean(h[i + 1])
    BY <2>1, <2>2
  <2>4. ASSUME NEW room \in 0..cap PROVE h[i][room] \in Seq(Fragments) /\ NoControls(h[i][room])
    <3> DEFINE t == h[i][room]
    <3>1. t = FilterStep(s, cap, h, i)[room]
      BY <1>3, <2>2
    <3>2. CASE s[i] = "esc" /\ i < N /\ s[i + 1] = "open"
      <4>1. AfterSequence(s, i + 2) \in (i + 1)..(N + 1)
        BY <3>2, AfterSequenceIs
      <4>2. t = h[AfterSequence(s, i + 2)][room]
        BY <1>2, <3>1, <3>2 DEF FilterStep
      <4> QED BY <2>1, <4>1, <4>2
    <3>3. CASE ~(s[i] = "esc" /\ i < N /\ s[i + 1] = "open") /\ s[i] \in {"esc", "control"}
      <4>1. t = h[i + 1][room]
        BY <1>2, <3>1, <3>3 DEF FilterStep
      <4> QED BY <2>3, <4>1
    <3>4. CASE s[i] \notin {"esc", "control"}
      <4>1. t = IF room < Width(s[i]) THEN <<"truncated">>
                ELSE <<s[i]>> \o h[i + 1][room - Width(s[i])]
        BY <1>2, <3>1, <3>4 DEF FilterStep
      <4>2. CASE room < Width(s[i])
        <5>1. <<"truncated">> \in Seq(Fragments) /\ NoControls(<<"truncated">>)
          BY <2>2 DEF NoControls
        <5> QED BY <4>1, <4>2, <5>1
      <4>3. CASE ~(room < Width(s[i]))
        <5> DEFINE q == h[i + 1][room - Width(s[i])]
        <5>1. room - Width(s[i]) \in 0..cap
          BY <1>2, <2>2, <4>3
        <5>2. q \in Seq(Fragments) /\ NoControls(q)
          BY <2>3, <5>1
        <5>3. t = <<s[i]>> \o q
          BY <4>1, <4>3
        <5> HIDE DEF q, t
        <5> QED BY <2>2, <3>4, <5>2, <5>3, ConsFits, ControlsStayOut DEF t
      <4> QED BY <4>2, <4>3
    <3> QED BY <3>2, <3>3, <3>4
  <2> QED BY <2>2, <2>4
<1>6. 1 \in S
  <2> HIDE DEF S
  <2>1. 1 \in 1..(N + 1)
    BY <1>2
  <2> QED BY <1>2, <1>4, <1>5, <2>1, Downward
<1>7. cap \in 0..cap
  BY <1>2
<1> QED BY <1>1, <1>6, <1>7

(* Two texts free of controls make one. *)
LEMMA ControlsStayApart ==
    ASSUME NEW a \in Seq(Fragments), NoControls(a), NEW b \in Seq(Fragments), NoControls(b)
    PROVE  a \o b \in Seq(Fragments) /\ NoControls(a \o b)
<1> DEFINE c == a \o b
<1>1. /\ c \in Seq(Fragments) /\ Len(c) = Len(a) + Len(b)
      /\ \A i \in 1..(Len(a) + Len(b)) : c[i] = IF i <= Len(a) THEN a[i] ELSE b[i - Len(a)]
  BY ConcatProperties
<1>2. Len(a) \in Nat /\ Len(b) \in Nat /\ DOMAIN a = 1..Len(a) /\ DOMAIN b = 1..Len(b)
  OBVIOUS
<1> HIDE DEF c
<1>3. ASSUME NEW i \in DOMAIN c PROVE c[i] \notin {"esc", "control"}
  <2>1. i \in 1..(Len(a) + Len(b))
    BY <1>1
  <2>2. CASE i <= Len(a)
    BY <1>1, <1>2, <2>1, <2>2 DEF NoControls
  <2>3. CASE ~(i <= Len(a))
    <3>1. i - Len(a) \in 1..Len(b)
      BY <1>2, <2>1, <2>3
    <3> QED BY <1>1, <1>2, <2>1, <2>3, <3>1 DEF NoControls
  <2> QED BY <2>2, <2>3
<1> QED BY <1>1, <1>3 DEF NoControls, c

(* What replaces no text by a control leaves a text free of them. *)
LEMMA ReplacedClean ==
    ASSUME NEW s \in Seq(Fragments), NoControls(s), NEW end, NEW mark, Replaces(s, end, mark),
           \A i \in 1..Len(s) : NoControls(mark[i])
    PROVE  Replaced(s, end, mark) \in Seq(Fragments) /\ NoControls(Replaced(s, end, mark))
<1>1. PICK h : Replacement(s, end, mark, h) /\ Replaced(s, end, mark) = h[1]
  BY ReplacedIs
<1> DEFINE N == Len(s)
           S == {i \in 1..(N + 1) : NoControls(h[i])}
<1>2. N \in Nat /\ \A i \in 1..N : s[i] \in Fragments /\ s[i] \notin {"esc", "control"}
  BY DEF NoControls
<1>3. \A i \in 1..(N + 1) : h[i] \in Seq(Fragments) /\ h[i] = ReplaceStep(s, end, mark, h, i)
  BY <1>1 DEF Replacement
<1>4. N + 1 \in S
  <2>1. h[N + 1] = << >>
    <3>1. ReplaceStep(s, end, mark, h, N + 1) = << >>
      BY <1>2 DEF ReplaceStep
    <3> QED BY <1>2, <1>3, <3>1
  <2> QED BY <1>2, <2>1 DEF NoControls
<1>5. ASSUME NEW i \in 1..N, (i + 1)..(N + 1) \subseteq S PROVE i \in S
  <2>1. \A j \in (i + 1)..(N + 1) : NoControls(h[j]) /\ h[j] \in Seq(Fragments)
    BY <1>3, <1>5
  <2>2. /\ i + 1 \in (i + 1)..(N + 1) /\ i \in 1..(N + 1) /\ ~(i > N) /\ s[i] \in Fragments
        /\ s[i] \notin {"esc", "control"} /\ end[i] \in 0..(N + 1)
        /\ mark[i] \in Seq(Fragments) /\ NoControls(mark[i])
    BY <1>2 DEF Replaces
  <2>3. h[i] = ReplaceStep(s, end, mark, h, i)
    BY <1>3, <2>2
  <2>4. CASE end[i] > i
    <3>1. end[i] \in (i + 1)..(N + 1)
      BY <1>2, <2>2, <2>4
    <3>2. h[i] = mark[i] \o h[end[i]]
      BY <2>2, <2>3, <2>4 DEF ReplaceStep
    <3>3. NoControls(h[i])
      BY <2>1, <2>2, <3>1, <3>2, ControlsStayApart
    <3> QED BY <2>2, <3>3
  <2>5. CASE ~(end[i] > i)
    <3>1. h[i] = <<s[i]>> \o h[i + 1]
      BY <2>2, <2>3, <2>5 DEF ReplaceStep
    <3>2. NoControls(h[i])
      BY <2>1, <2>2, <3>1, ControlsStayOut
    <3> QED BY <2>2, <3>2
  <2> QED BY <2>4, <2>5
<1>6. 1 \in S /\ 1 \in 1..(N + 1)
  <2>1. 1 \in 1..(N + 1)
    BY <1>2
  <2> HIDE DEF S
  <2> QED BY <1>2, <1>4, <1>5, <2>1, Downward
<1> QED BY <1>1, <1>3, <1>6

(* A run of pieces ends at a place of the text or behind it. *)
LEMMA PastIs ==
    ASSUME NEW s \in Seq(Fragments), NEW i \in 1..(Len(s) + 1), NEW P
    PROVE  Past(s, i, P) \in i..(Len(s) + 1)
<1> DEFINE N == Len(s)
           Stops(j) == j <= N => s[j] \notin P
           S == {j \in i..(N + 1) : Stops(j)}
<1>1. N \in Nat /\ S \in SUBSET Nat /\ N + 1 \in S
  OBVIOUS
<1>2. PICK j \in S : \A k \in S : j <= k
  <2> HIDE DEF S
  <2> QED BY <1>1, LeastNumber
<1>3. ASSUME NEW k \in i..(j - 1) PROVE s[k] \in P
  <2>1. k \in i..(N + 1) /\ ~(j <= k)
    BY <1>1, <1>2
  <2>2. k \notin S
    BY <1>2, <2>1
  <2> QED BY <2>1, <2>2
<1>4. \E m \in i..(N + 1) : (\A k \in i..(m - 1) : s[k] \in P) /\ (m <= N => s[m] \notin P)
  BY <1>2, <1>3
<1> QED BY <1>4 DEF Past

(* What is masked of an assignment, of a token and of a key. *)
LEMMA MasksFit ==
    ASSUME NEW s \in Seq(Fragments), NoControls(s)
    PROVE  /\ AssignmentsMasked(s) \in Seq(Fragments) /\ NoControls(AssignmentsMasked(s))
           /\ BearersMasked(s) \in Seq(Fragments) /\ NoControls(BearersMasked(s))
           /\ KeysMasked(s) \in Seq(Fragments) /\ NoControls(KeysMasked(s))
<1>1. Len(s) \in Nat /\ DOMAIN s = 1..Len(s)
  OBVIOUS
<1>2. ASSUME NEW i \in 1..Len(s)
      PROVE  /\ ValueOf(s, i) \in 0..Len(s)
             /\ BearerEnd(s, i) \in 0..(Len(s) + 1) /\ KeyEnd(s, i) \in 0..(Len(s) + 1)
             /\ ValueOf(s, i) > 0 => ValueEnd(s, ValueOf(s, i)) \in 0..(Len(s) + 1)
  <2>1. i + 1 \in 1..(Len(s) + 1) /\ i \in 1..(Len(s) + 1)
    BY <1>1
  <2>2. KeyEnd(s, i) \in 0..(Len(s) + 1)
    <3>1. Past(s, i + 1, NamePieces) \in (i + 1)..(Len(s) + 1)
      BY <2>1, PastIs
    <3> QED BY <2>1, <3>1 DEF KeyEnd
  <2>3. BearerEnd(s, i) \in 0..(Len(s) + 1)
    <3> DEFINE from == Past(s, i + 1, {"space"})
               to == Past(s, from, NamePieces \cup {"slash", "sep"})
    <3>1. from \in (i + 1)..(Len(s) + 1)
      BY <2>1, PastIs
    <3>2. from \in 1..(Len(s) + 1)
      BY <2>1, <3>1
    <3> HIDE DEF from
    <3>3. to \in from..(Len(s) + 1)
      BY <3>2, PastIs
    <3>4. to \in 0..(Len(s) + 1)
      BY <3>2, <3>3
    <3> HIDE DEF to
    <3>5. BearerEnd(s, i) \in {0, to}
      BY DEF BearerEnd, from, to
    <3> QED BY <1>1, <3>4, <3>5
  <2>4. ValueOf(s, i) \in 0..Len(s)
    <3> DEFINE run == Past(s, i, NamePieces)
               sep == Past(s, run, {"space"})
               from == Past(s, sep + 1, {"space"})
    <3>1. run \in i..(Len(s) + 1)
      BY <2>1, PastIs
    <3>2. run \in 1..(Len(s) + 1)
      BY <2>1, <3>1
    <3> HIDE DEF run
    <3>3. sep \in run..(Len(s) + 1)
      BY <3>2, PastIs
    <3>4. sep \in 1..(Len(s) + 1)
      BY <3>2, <3>3
    <3> HIDE DEF sep
    <3>5. ASSUME sep < Len(s) PROVE from \in 1..(Len(s) + 1)
      <4>1. sep + 1 \in 1..(Len(s) + 1)
        BY <3>4, <3>5
      <4>2. from \in (sep + 1)..(Len(s) + 1)
        BY <4>1, PastIs
      <4> QED BY <4>1, <4>2
    <3> HIDE DEF from
    <3>6. ValueOf(s, i) = 0 \/ (sep < Len(s) /\ from <= Len(s) /\ ValueOf(s, i) = from)
      BY DEF ValueOf, run, sep, from
    <3> QED BY <1>1, <3>5, <3>6
  <2>5. ASSUME NEW v \in 1..Len(s) PROVE ValueEnd(s, v) \in 0..(Len(s) + 1)
    <3> DEFINE all == Past(s, v, Fragments \ {"space"})
               to == Past(s, v, Fragments \ {"space", "close", "redacted", "truncated"})
    <3>1. v \in 1..(Len(s) + 1)
      BY <1>1
    <3>2. all \in v..(Len(s) + 1) /\ to \in v..(Len(s) + 1)
      BY <3>1, PastIs
    <3> HIDE DEF all, to
    <3>3. ValueEnd(s, v) \in {all, to} \/ (to <= Len(s) /\ ValueEnd(s, v) = to + 1)
      BY DEF ValueEnd, all, to
    <3> QED BY <1>1, <3>1, <3>2, <3>3
  <2>6. ValueOf(s, i) > 0 => ValueOf(s, i) \in 1..Len(s)
    BY <1>1, <2>4
  <2> QED BY <2>2, <2>3, <2>4, <2>5, <2>6
<1>3. AssignmentsMasked(s) \in Seq(Fragments) /\ NoControls(AssignmentsMasked(s))
  <2> DEFINE end == [i \in DOMAIN s |-> IF ValueOf(s, i) > 0 THEN ValueEnd(s, ValueOf(s, i)) ELSE 0]
             mark == [i \in DOMAIN s |-> AssignmentMasked(s, i, ValueOf(s, i))]
  <2>1. \A i \in 1..Len(s) : end[i] \in 0..(Len(s) + 1)
    BY <1>1, <1>2
  <2>2. ASSUME NEW i \in 1..Len(s) PROVE mark[i] \in Seq(Fragments) /\ NoControls(mark[i])
    <3> DEFINE run == SubSeq(s, i, Past(s, i, NamePieces) - 1)
               left == IF s[ValueOf(s, i)] # "redacted"
                          /\ s[ValueEnd(s, ValueOf(s, i)) - 1] \in {"redacted", "truncated"}
                       THEN <<"close">> ELSE << >>
    <3>1. i \in 1..(Len(s) + 1)
      BY <1>1
    <3>2. Past(s, i, NamePieces) \in i..(Len(s) + 1)
      BY <3>1, PastIs
    <3>3. run \in Seq(Fragments) /\ NoControls(run)
      <4> DEFINE n == Past(s, i, NamePieces) - 1
      <4>1. n \in (i - 1)..Len(s) /\ n \in Int
        BY <1>1, <3>2
      <4> HIDE DEF n
      <4>2. \A k \in i..n : s[k] \in Fragments /\ s[k] \notin {"esc", "control"}
        BY <1>1, <4>1 DEF NoControls
      <4>3. /\ SubSeq(s, i, n) \in Seq(Fragments)
            /\ Len(SubSeq(s, i, n)) = IF i <= n THEN n - i + 1 ELSE 0
            /\ \A k \in 1..(n - i + 1) : SubSeq(s, i, n)[k] = s[i + k - 1]
        BY <1>1, <4>1, <4>2, SubSeqProperties
      <4> DEFINE r == SubSeq(s, i, n)
      <4> HIDE DEF r
      <4>4. ASSUME NEW k \in DOMAIN r PROVE r[k] \notin {"esc", "control"}
        <5>1. k \in 1..(n - i + 1) /\ i + k - 1 \in i..n
          BY <4>1, <4>3 DEF r
        <5>2. r[k] = s[i + k - 1]
          BY <4>3, <5>1 DEF r
        <5> QED BY <4>2, <5>1, <5>2
      <4>5. NoControls(r)
        BY <4>4 DEF NoControls
      <4> QED BY <4>3, <4>5 DEF r, n
    <3>4. /\ <<"sep", "redacted">> \in Seq(Fragments) /\ NoControls(<<"sep", "redacted">>)
          /\ left \in Seq(Fragments) /\ NoControls(left)
      <4>1. left \in {<<"close">>, << >>}
        OBVIOUS
      <4> HIDE DEF left
      <4>2. {"sep", "redacted", "close"} \subseteq Fragments
        BY DEF Fragments, Glyphs
      <4>3. /\ <<"close">> \in Seq(Fragments) /\ << >> \in Seq(Fragments)
            /\ NoControls(<<"close">>) /\ NoControls(<< >>)
        BY <4>2 DEF NoControls
      <4>4. <<"sep", "redacted">> \in Seq(Fragments) /\ NoControls(<<"sep", "redacted">>)
        BY <4>2 DEF NoControls
      <4> QED BY <4>1, <4>3, <4>4
    <3>5. mark[i] = run \o <<"sep", "redacted">> \o left
      BY <1>1 DEF AssignmentMasked
    <3> HIDE DEF run, left, mark
    <3>6. /\ run \o <<"sep", "redacted">> \in Seq(Fragments)
          /\ NoControls(run \o <<"sep", "redacted">>)
      BY <3>3, <3>4, ControlsStayApart
    <3>7. /\ (run \o <<"sep", "redacted">>) \o left \in Seq(Fragments)
          /\ NoControls((run \o <<"sep", "redacted">>) \o left)
      BY <3>4, <3>6, ControlsStayApart
    <3> QED BY <3>5, <3>7
  <2>3. Replaces(s, end, mark)
    <3>1. \A i \in 1..Len(s) : mark[i] \in Seq(Fragments)
      BY <2>2
    <3>2. end = [i \in 1..Len(s) |-> end[i]] /\ mark = [i \in 1..Len(s) |-> mark[i]]
      BY <1>1
    <3> HIDE DEF end, mark
    <3> QED BY <2>1, <3>1, <3>2 DEF Replaces
  <2>4. AssignmentsMasked(s) = Replaced(s, end, mark)
    BY DEF AssignmentsMasked
  <2> HIDE DEF end, mark
  <2> QED BY <2>2, <2>3, <2>4, ReplacedClean
<1>4. BearersMasked(s) \in Seq(Fragments) /\ NoControls(BearersMasked(s))
  <2> DEFINE end == [i \in DOMAIN s |-> BearerEnd(s, i)]
             mark == [i \in DOMAIN s |-> <<"bearer", "space", "redacted">>]
  <2>1. end \in [1..Len(s) -> 0..(Len(s) + 1)]
    BY <1>1, <1>2
  <2>2. ASSUME NEW i \in 1..Len(s) PROVE mark[i] \in Seq(Fragments) /\ NoControls(mark[i])
    BY <1>1 DEF Fragments, Glyphs, NoControls
  <2>3. mark = [i \in 1..Len(s) |-> mark[i]]
    BY <1>1
  <2>4. BearersMasked(s) = Replaced(s, end, mark)
    BY DEF BearersMasked
  <2> HIDE DEF end, mark
  <2>5. mark \in [1..Len(s) -> Seq(Fragments)]
    BY <2>2, <2>3
  <2>6. Replaces(s, end, mark)
    BY <2>1, <2>5 DEF Replaces
  <2> QED BY <2>2, <2>4, <2>6, ReplacedClean
<1>5. KeysMasked(s) \in Seq(Fragments) /\ NoControls(KeysMasked(s))
  <2> DEFINE end == [i \in DOMAIN s |-> KeyEnd(s, i)]
             mark == [i \in DOMAIN s |-> IF KeyEnd(s, i) > 0 /\ s[KeyEnd(s, i) - 1] \notin WordPieces
                                         THEN <<"redacted", "dash">> ELSE <<"redacted">>]
  <2>1. end \in [1..Len(s) -> 0..(Len(s) + 1)]
    BY <1>1, <1>2
  <2>2. ASSUME NEW i \in 1..Len(s) PROVE mark[i] \in Seq(Fragments) /\ NoControls(mark[i])
    <3>1. mark[i] \in {<<"redacted", "dash">>, <<"redacted">>}
      BY <1>1
    <3> HIDE DEF mark
    <3>2. {"redacted", "dash"} \subseteq Fragments
      BY DEF Fragments
    <3>3. /\ <<"redacted", "dash">> \in Seq(Fragments) /\ NoControls(<<"redacted", "dash">>)
          /\ <<"redacted">> \in Seq(Fragments) /\ NoControls(<<"redacted">>)
      BY <3>2 DEF NoControls
    <3> QED BY <3>1, <3>3
  <2>3. mark = [i \in 1..Len(s) |-> mark[i]]
    BY <1>1
  <2>4. KeysMasked(s) = Replaced(s, end, mark)
    BY DEF KeysMasked
  <2> HIDE DEF end, mark
  <2>5. mark \in [1..Len(s) -> Seq(Fragments)]
    BY <2>2, <2>3
  <2>6. Replaces(s, end, mark)
    BY <2>1, <2>5 DEF Replaces
  <2> QED BY <2>2, <2>4, <2>6, ReplacedClean
<1> QED BY <1>3, <1>4, <1>5

(* A text without frames is shown as it is. *)
LEMMA EscapedSame ==
    ASSUME NEW s \in Seq(Fragments), NoFrame(s) PROVE EscapeVolatileFrames(s) = s
<1>1. PICK h : Escapes(s, h) /\ EscapeVolatileFrames(s) = h[1]
  BY EscapedIs
<1> DEFINE N == Len(s)
           S == {i \in 1..(N + 1) : h[i] = Rest(s, i)}
<1>2. N \in Nat
  OBVIOUS
<1>3. \A i \in 1..(N + 1) : h[i] = EscapeStep(s, h, i)
  BY <1>1 DEF Escapes
<1>4. N + 1 \in S
  <2>1. h[N + 1] = << >>
    <3>1. EscapeStep(s, h, N + 1) = << >>
      BY <1>2 DEF EscapeStep
    <3> QED BY <1>2, <1>3, <3>1
  <2> QED BY <1>2, <2>1, RestIs
<1>5. ASSUME NEW i \in 1..N, (i + 1)..(N + 1) \subseteq S PROVE i \in S
  <2>1. i + 1 \in (i + 1)..(N + 1) /\ i \in 1..(N + 1) /\ ~(i > N)
    BY <1>2
  <2>2. h[i + 1] = Rest(s, i + 1)
    BY <1>5, <2>1
  <2>3. ~(TokenEnd(s, i) > 0)
    BY DEF NoFrame
  <2>4. h[i] = <<s[i]>> \o h[i + 1]
    BY <1>3, <2>1, <2>3 DEF EscapeStep
  <2>5. Rest(s, i) = <<s[i]>> \o Rest(s, i + 1)
    BY RestIs
  <2> QED BY <2>1, <2>2, <2>4, <2>5
<1>6. 1 \in S
  <2> HIDE DEF S
  <2>1. 1 \in 1..(N + 1)
    BY <1>2
  <2> QED BY <1>2, <1>4, <1>5, <2>1, Downward
<1> QED BY <1>1, <1>6, RestIs

(* A piece in front of a text without frames makes no frame but with itself. *)
LEMMA FramesStayOut ==
    ASSUME NEW x \in Fragments, NEW q \in Seq(Fragments), NoFrame(q),
           \A name, e : ~Token(<<x>> \o q, 1, name, e)
    PROVE  NoFrame(<<x>> \o q)
<1> DEFINE c == <<x>> \o q
<1>1. /\ c \in Seq(Fragments) /\ Len(c) = Len(q) + 1 /\ Len(q) \in Nat
      /\ \A k \in 1..Len(q) : c[k + 1] = q[k]
  BY ConsFits
<1> SUFFICES ASSUME NEW j \in 1..Len(c), TokenEnd(c, j) # 0 PROVE FALSE
  BY <1>1 DEF NoFrame
<1> HIDE DEF c
<1>2. PICK name : \E e : Token(c, j, name, e)
  BY <1>1, TokenEndIs
<1>3. PICK e : Token(c, j, name, e)
  BY <1>2
<1>4. j # 1
  BY <1>3 DEF c
<1>5. /\ c[j] = "lt" /\ (name = j + 1 \/ (name = j + 2 /\ c[j + 1] = "slash"))
      /\ c[name] = "tag" /\ e \in (name + 1)..Len(c) /\ c[e] = "gt"
      /\ \A k \in (name + 1)..(e - 1) : c[k] = "space"
  BY <1>3 DEF Token
<1> DEFINE i == j - 1
           m == name - 1
           f == e - 1
<1>6. /\ i \in 1..Len(q) /\ m \in 1..Len(q) /\ f \in (m + 1)..Len(q) /\ f \in 1..Len(q)
      /\ i + 1 = j /\ m + 1 = name /\ f + 1 = e /\ (m = i + 1 \/ m = i + 2)
      /\ i + 1 \in 1..Len(q) /\ j \in Nat /\ name \in Nat
  BY <1>1, <1>4, <1>5
<1> HIDE DEF i, m, f
<1>7. q[i] = "lt" /\ q[m] = "tag" /\ q[f] = "gt" /\ q[i + 1] = c[j + 1]
  BY <1>1, <1>5, <1>6
<1>8. m = i + 1 \/ (m = i + 2 /\ q[i + 1] = "slash")
  BY <1>5, <1>6, <1>7
<1>9. ASSUME NEW k \in (m + 1)..(f - 1) PROVE q[k] = "space"
  <2>1. k \in 1..Len(q) /\ k + 1 \in (name + 1)..(e - 1)
    BY <1>1, <1>6
  <2> QED BY <1>1, <1>5, <2>1
<1>10. Token(q, i, m, f)
  BY <1>6, <1>7, <1>8, <1>9 DEF Token
<1>11. TokenEnd(q, i) # 0
  BY <1>6, <1>10, TokenEndIs
<1> QED BY <1>6, <1>11 DEF NoFrame

(* r begins like s from i on, up to its first bracket or mark. *)
Verbatim(r, s, i) ==
    \A m \in 1..Len(r) : (\A k \in 1..m : r[k] \notin {"lt", "neutral"}) =>
        i + m - 1 <= Len(s) /\ \A k \in 1..m : s[i + k - 1] = r[k]

(* A piece in front of both leaves two texts alike. *)
LEMMA VerbatimStays ==
    ASSUME NEW s \in Seq(Fragments), NEW i \in 1..Len(s), NEW q \in Seq(Fragments),
           Verbatim(q, s, i + 1), NEW x \in Fragments, x = s[i] \/ x = "neutral"
    PROVE  Verbatim(<<x>> \o q, s, i)
<1> DEFINE c == <<x>> \o q
<1>1. /\ c \in Seq(Fragments) /\ Len(c) = Len(q) + 1 /\ Len(q) \in Nat /\ c[1] = x
      /\ \A k \in 1..Len(q) : c[k + 1] = q[k]
  BY ConsFits
<1> HIDE DEF c
<1> SUFFICES ASSUME NEW m \in 1..Len(c), \A k \in 1..m : c[k] \notin {"lt", "neutral"}
             PROVE  i + m - 1 <= Len(s) /\ \A k \in 1..m : s[i + k - 1] = c[k]
  BY DEF Verbatim, c
<1>2. x = s[i] /\ Len(s) \in Nat
  <2>1. 1 \in 1..m
    OBVIOUS
  <2> QED BY <1>1, <2>1
<1>3. CASE m = 1
  <2>1. i + m - 1 <= Len(s)
    BY <1>2, <1>3
  <2>2. ASSUME NEW k \in 1..m PROVE s[i + k - 1] = c[k]
    <3>1. k = 1 /\ i + k - 1 = i
      BY <1>3
    <3> QED BY <1>1, <1>2, <3>1
  <2> QED BY <2>1, <2>2
<1>4. CASE m # 1
  <2> DEFINE n == m - 1
  <2>1. n \in 1..Len(q) /\ m = n + 1
    BY <1>1, <1>4
  <2> HIDE DEF n
  <2>2. ASSUME NEW k \in 1..n PROVE q[k] \notin {"lt", "neutral"}
    <3>1. k + 1 \in 1..m /\ k \in 1..Len(q)
      BY <1>1, <2>1
    <3> QED BY <1>1, <3>1
  <2>3. i + 1 + n - 1 <= Len(s) /\ \A k \in 1..n : s[i + 1 + k - 1] = q[k]
    BY <2>1, <2>2 DEF Verbatim
  <2>4. ASSUME NEW k \in 1..m PROVE s[i + k - 1] = c[k]
    <3>1. CASE k = 1
      <4>1. i + k - 1 = i
        BY <3>1
      <4> QED BY <1>1, <1>2, <3>1, <4>1
    <3>2. CASE k # 1
      <4> DEFINE l == k - 1
      <4>1. l \in 1..n /\ l \in 1..Len(q) /\ l + 1 = k /\ i + 1 + l - 1 = i + k - 1
        BY <1>1, <2>1, <3>2
      <4> HIDE DEF l
      <4>2. s[i + 1 + l - 1] = q[l] /\ c[l + 1] = q[l]
        BY <1>1, <2>3, <4>1
      <4> QED BY <4>1, <4>2
    <3> QED BY <3>1, <3>2
  <2>5. i + m - 1 <= Len(s)
    BY <1>2, <2>1, <2>3
  <2> QED BY <2>4, <2>5
<1> QED BY <1>3, <1>4

(* A frame that begins with the first piece was one of the text. *)
LEMMA FrameWasThere ==
    ASSUME NEW s \in Seq(Fragments), NEW i \in 1..Len(s), NEW q \in Seq(Fragments),
           Verbatim(q, s, i + 1), NEW name, NEW e, Token(<<s[i]>> \o q, 1, name, e)
    PROVE  TokenEnd(s, i) # 0
<1> DEFINE c == <<s[i]>> \o q
<1>1. /\ c \in Seq(Fragments) /\ Len(c) = Len(q) + 1 /\ Len(q) \in Nat /\ c[1] = s[i]
      /\ \A k \in 1..Len(q) : c[k + 1] = q[k]
  BY ConsFits
<1>2. Token(c, 1, name, e)
  OBVIOUS
<1> HIDE DEF c
<1>3. /\ c[1] = "lt" /\ (name = 2 \/ (name = 3 /\ c[2] = "slash"))
      /\ c[name] = "tag" /\ e \in (name + 1)..Len(c) /\ c[e] = "gt"
      /\ \A k \in (name + 1)..(e - 1) : c[k] = "space"
  BY <1>2 DEF Token
<1> DEFINE m == e - 1
<1>4. m \in 1..Len(q) /\ e = m + 1 /\ m \in Nat
  BY <1>1, <1>3
<1> HIDE DEF m
<1>5. ASSUME NEW k \in 1..m PROVE q[k] \notin {"lt", "neutral"}
  <2>1. k \in 1..Len(q) /\ k + 1 \in 2..e
    BY <1>1, <1>4
  <2>2. k + 1 = name \/ k + 1 = e \/ k + 1 \in (name + 1)..(e - 1) \/ (name = 3 /\ k + 1 = 2)
    BY <1>3, <1>4, <2>1
  <2>3. c[k + 1] \in {"tag", "gt", "space", "slash"}
    BY <1>3, <2>2
  <2> QED BY <1>1, <2>1, <2>3
<1>6. i + 1 + m - 1 <= Len(s) /\ \A k \in 1..m : s[i + 1 + k - 1] = q[k]
  BY <1>4, <1>5 DEF Verbatim
<1>7. ASSUME NEW k \in 2..e PROVE s[i + k - 1] = c[k]
  <2> DEFINE l == k - 1
  <2>1. l \in 1..m /\ l \in 1..Len(q) /\ l + 1 = k /\ i + 1 + l - 1 = i + k - 1
    BY <1>1, <1>4
  <2> HIDE DEF l
  <2>2. s[i + 1 + l - 1] = q[l] /\ c[l + 1] = q[l]
    BY <1>1, <1>6, <2>1
  <2> QED BY <2>1, <2>2
<1> DEFINE a == i + name - 1
           b == i + e - 1
<1>8. /\ a \in Nat /\ (a = i + 1 \/ a = i + 2) /\ b \in (a + 1)..Len(s)
      /\ name \in 2..e /\ e \in 2..e /\ Len(s) \in Nat
  <2>1. name \in {2, 3} /\ e \in (name + 1)..Len(c) /\ Len(c) \in Nat /\ Len(s) \in Nat
    BY <1>1, <1>3
  <2>2. i + 1 + m - 1 <= Len(s)
    BY <1>6
  <2> QED BY <1>4, <2>1, <2>2
<1>9. s[a] = "tag" /\ s[b] = "gt"
  BY <1>3, <1>7, <1>8
<1>10. a = i + 1 \/ (a = i + 2 /\ s[i + 1] = "slash")
  <2>1. CASE name = 2
    BY <2>1
  <2>2. CASE name = 3 /\ c[2] = "slash"
    <3>1. 2 \in 2..e /\ i + 2 - 1 = i + 1 /\ a = i + 2
      BY <1>8, <2>2
    <3>2. s[i + 2 - 1] = c[2]
      BY <1>7, <3>1
    <3> QED BY <2>2, <3>1, <3>2
  <2> QED BY <1>3, <2>1, <2>2
<1>11. ASSUME NEW k \in (a + 1)..(b - 1) PROVE s[k] = "space"
  <2> DEFINE l == k - i + 1
  <2>1. l \in (name + 1)..(e - 1) /\ l \in 2..e /\ i + l - 1 = k
    BY <1>3, <1>8
  <2> HIDE DEF l
  <2> QED BY <1>3, <1>7, <2>1
<1> HIDE DEF a, b
<1>12. Token(s, i, a, b)
  BY <1>1, <1>3, <1>8, <1>9, <1>10, <1>11 DEF Token
<1> QED BY <1>12, TokenEndIs

(* What is shown of a text has no frame. *)
LEMMA EscapedClean ==
    ASSUME NEW s \in Seq(Fragments)
    PROVE  EscapeVolatileFrames(s) \in Seq(Fragments) /\ NoFrame(EscapeVolatileFrames(s))
<1>1. PICK h : Escapes(s, h) /\ EscapeVolatileFrames(s) = h[1]
  BY EscapedIs
<1> DEFINE N == Len(s)
           Clean(i) == NoFrame(h[i]) /\ Verbatim(h[i], s, i)
           S == {i \in 1..(N + 1) : Clean(i)}
<1>2. N \in Nat /\ \A i \in 1..N : s[i] \in Fragments
  OBVIOUS
<1>3. \A i \in 1..(N + 1) : h[i] \in Seq(Fragments) /\ h[i] = EscapeStep(s, h, i)
  BY <1>1 DEF Escapes
<1>4. N + 1 \in S
  <2>1. h[N + 1] = << >>
    <3>1. EscapeStep(s, h, N + 1) = << >>
      BY <1>2 DEF EscapeStep
    <3> QED BY <1>2, <1>3, <3>1
  <2>2. NoFrame(<< >>) /\ Verbatim(<< >>, s, N + 1)
    BY DEF NoFrame, Verbatim
  <2> QED BY <1>2, <2>1, <2>2
<1>5. ASSUME NEW i \in 1..N, (i + 1)..(N + 1) \subseteq S PROVE i \in S
  <2>1. \A j \in (i + 1)..(N + 1) : Clean(j)
    <3> HIDE DEF Clean
    <3> QED BY <1>5
  <2>2. i + 1 \in (i + 1)..(N + 1) /\ i \in 1..(N + 1) /\ i + 1 \in 1..(N + 1) /\ ~(i > N)
    BY <1>2
  <2> DEFINE e == TokenEnd(s, i)
  <2>3. e \in {0} \cup (i + 1)..N
    BY TokenEndIs
  <2>4. h[i] = IF e > 0 THEN <<"neutral">> \o h[e + 1] ELSE <<s[i]>> \o h[i + 1]
    BY <1>3, <2>2 DEF EscapeStep
  <2>5. CASE e > 0
    <3> DEFINE q == h[e + 1]
    <3>1. e + 1 \in (i + 1)..(N + 1) /\ e + 1 \in 1..(N + 1)
      BY <1>2, <2>3, <2>5
    <3>2. NoFrame(q) /\ q \in Seq(Fragments) /\ "neutral" \in Fragments
      BY <1>3, <2>1, <3>1 DEF Fragments
    <3>3. h[i] = <<"neutral">> \o q
      BY <2>4, <2>5
    <3> HIDE DEF q
    <3> DEFINE c == <<"neutral">> \o q
    <3>4. c[1] = "neutral" /\ c \in Seq(Fragments)
      BY <3>2, ConsFits
    <3>5. \A name, f : ~Token(c, 1, name, f)
      BY <3>4 DEF Token
    <3>6. NoFrame(c)
      BY <3>2, <3>5, FramesStayOut
    <3>7. Verbatim(c, s, i)
      <4> HIDE DEF c
      <4>1. ASSUME NEW m \in 1..Len(c) PROVE ~(\A k \in 1..m : c[k] \notin {"lt", "neutral"})
        <5>1. 1 \in 1..m
          OBVIOUS
        <5> QED BY <3>4, <5>1
      <4> QED BY <4>1 DEF Verbatim
    <3> QED BY <2>2, <3>3, <3>6, <3>7
  <2>6. CASE ~(e > 0)
    <3>1. /\ NoFrame(h[i + 1]) /\ Verbatim(h[i + 1], s, i + 1)
          /\ h[i + 1] \in Seq(Fragments) /\ s[i] \in Fragments
      BY <1>2, <1>3, <2>1, <2>2
    <3>2. h[i] = <<s[i]>> \o h[i + 1]
      BY <2>4, <2>6
    <3>3. \A name, f : ~Token(<<s[i]>> \o h[i + 1], 1, name, f)
      <4>1. TokenEnd(s, i) = 0
        BY <1>2, <2>3, <2>6
      <4> QED BY <3>1, <4>1, FrameWasThere
    <3>4. NoFrame(h[i])
      BY <3>1, <3>2, <3>3, FramesStayOut
    <3>5. Verbatim(h[i], s, i)
      BY <3>1, <3>2, VerbatimStays
    <3> QED BY <2>2, <3>4, <3>5
  <2> QED BY <2>5, <2>6
<1>6. 1 \in S
  <2> HIDE DEF S
  <2>1. 1 \in 1..(N + 1)
    BY <1>2
  <2> QED BY <1>2, <1>4, <1>5, <2>1, Downward
<1> QED BY <1>1, <1>3, <1>6

(* Whatever the text, its guards keep their promises. *)
LEMMA GuardsHold == ASSUME body \in Seq(Glyphs) PROVE TextsAreTame
<1> DEFINE shown == EscapeVolatileFrames(body)
<1>1. body \in Seq(Fragments)
  <2>1. Glyphs \subseteq Fragments
    BY DEF Fragments
  <2> QED BY <2>1, SeqMonotonic
<1>2. ASSUME NEW cap \in Caps PROVE NoControls(RedactSessionText(body, cap))
  <2> DEFINE left == Filtered(body, cap)
             named == AssignmentsMasked(left)
             bearer == BearersMasked(named)
  <2>1. cap \in Nat
    BY TextAssumption
  <2>2. left \in Seq(Fragments) /\ NoControls(left)
    BY <1>1, <2>1, FilteredClean
  <2>3. RedactSessionText(body, cap) = KeysMasked(bearer)
    BY DEF RedactSessionText, Masked
  <2> HIDE DEF left
  <2>4. named \in Seq(Fragments) /\ NoControls(named)
    BY <2>2, MasksFit
  <2> HIDE DEF named
  <2>5. bearer \in Seq(Fragments) /\ NoControls(bearer)
    BY <2>4, MasksFit
  <2> HIDE DEF bearer
  <2> QED BY <2>3, <2>5, MasksFit
<1>3. shown \in Seq(Fragments) /\ NoFrame(shown)
  BY <1>1, EscapedClean
<1>4. EscapeVolatileFrames(shown) = shown
  <2> HIDE DEF shown
  <2> QED BY <1>3, EscapedSame
<1>5. NoFrame(body) => shown = body
  BY <1>1, EscapedSame
<1> HIDE DEF shown
<1>6. /\ \A i \in DOMAIN shown : TokenEnd(shown, i) = 0
      /\ (\A i \in DOMAIN body : TokenEnd(body, i) = 0) => shown = body
  BY <1>3, <1>5 DEF NoFrame
<1>7. \A cap \in Caps : \A i \in DOMAIN RedactSessionText(body, cap) :
          RedactSessionText(body, cap)[i] \notin {"esc", "control"}
  BY <1>2 DEF NoControls
<1> QED BY <1>4, <1>6, <1>7 DEF TextsAreTame, shown

(* The part of TextsAreHarmless that is kept for texts of any length and any cap: a text that
   is persisted holds no control; one that is shown holds no frame, nothing else of it is
   lost, and a second escape changes nothing (redact_session_text, escape_volatile_frames). *)
THEOREM TextSafety == TextSpec => []TextsAreTame
<1>1. TextInit => body \in Seq(Glyphs)
  BY DEF TextInit
<1>2. body \in Seq(Glyphs) /\ [TextNext]_body => (body \in Seq(Glyphs))'
  BY AppendProperties DEF TextNext, ReadPiece
<1>3. body \in Seq(Glyphs) => TextsAreTame
  BY GuardsHold
<1> QED BY <1>1, <1>2, <1>3, PTL DEF TextSpec

=============================================================================

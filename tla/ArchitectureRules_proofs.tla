------------------------- MODULE ArchitectureRules_proofs -------------------------
(***************************************************************************)
(* What an accepted verdict of the realization check says of any source,   *)
(* and that the second baseline changed nothing but its new layer.         *)
(***************************************************************************)
EXTENDS ArchitectureRules, TLAPS

\* A source with no violation imports only what its rules allow.
LEMMA AllowedOnly ==
    ASSUME NEW version, NEW source, Violations(version, source) = {},
           NEW from, NEW to, from # to, Imports(source, from, to)
    PROVE  to \in Allowed(version, from)
<1>1. PICK m \in source : /\ InLayer(m.module) /\ layer_of(m.module) = from
                          /\ \E t \in m.imports : InLayer(t) /\ layer_of(t) = to
  BY DEF Imports
<1>2. PICK t \in m.imports : InLayer(t) /\ layer_of(t) = to
  BY <1>1
<1>3. ForbiddenImports(version, source) = {}
  BY DEF Violations
<1>4. ~Crosses(version, m.module, t)
  <2>1. {Violation(FORBIDDEN_LAYER_IMPORT, m.module, u) :
           u \in {v \in m.imports : Crosses(version, m.module, v)}} = {}
    BY <1>3 DEF ForbiddenImports
  <2> QED
    BY <2>1
<1> QED
  BY <1>1, <1>2, <1>4 DEF Crosses

\* A source with no violation has no layer that the baseline does not know.
LEMMA KnownOnly ==
    ASSUME NEW version, NEW source, Violations(version, source) = {}
    PROVE  LayersOf(source) \subseteq Known(version)
<1>1. UnknownLayers(version, source) = {}
  BY DEF Violations
<1>2. {n \in source : InLayer(n.module) /\ layer_of(n.module) \notin Known(version)} = {}
  BY <1>1 DEF UnknownLayers
<1> QED
  BY <1>2 DEF LayersOf

\* What a layer may import, in either baseline.
LEMMA AllowedLayers ==
    ASSUME NEW version
    PROVE  /\ Allowed(version, "domain") = {}
           /\ Allowed(version, "ports") = {"domain"}
           /\ Allowed(version, "application") = {"domain", "ports"}
           /\ Allowed(version, "architecture") = {"domain"}
           /\ Allowed(version, "infrastructure") = {"domain", "ports"}
BY DEF Allowed, V1_ALLOWED_IMPORTS, V1_KNOWN_LAYERS

\* Of any layers of a source with no violation, one imports none of the others:
\* the rules leave no room for a cycle.
THEOREM NoViolationNoCycle ==
    ASSUME NEW version, NEW source, Violations(version, source) = {}
    PROVE  Layered(source)
<1> SUFFICES ASSUME NEW some \in SUBSET KNOWN_LAYERS, some # {}
             PROVE  \E low \in some : \A other \in some \ {low} : ~Imports(source, low, other)
  BY DEF Layered
<1> DEFINE Low(low) == \A other \in some \ {low} : ~Imports(source, low, other)
<1>1. ASSUME NEW from \in some, Allowed(version, from) \cap some = {}
      PROVE  Low(from)
  BY <1>1, AllowedOnly
<1>2. CASE "domain" \in some
  BY <1>1, <1>2, AllowedLayers
<1>3. CASE "domain" \notin some /\ "ports" \in some
  BY <1>1, <1>3, AllowedLayers
<1>4. CASE /\ "domain" \notin some /\ "ports" \notin some
           /\ \E l \in {"application", "architecture", "infrastructure"} : l \in some
  BY <1>1, <1>4, AllowedLayers
<1>5. CASE /\ "domain" \notin some /\ "ports" \notin some
           /\ ~\E l \in {"application", "architecture", "infrastructure"} : l \in some
  <2>1. some = {"composition"}
    BY <1>5 DEF KNOWN_LAYERS, V1_KNOWN_LAYERS
  <2> QED
    BY <2>1
<1> QED
  BY <1>2, <1>3, <1>4, <1>5

\* An accepted decision is about a source without a cycle of layers, all of them
\* known.
THEOREM AcceptedIsSound ==
    ASSUME NEW version, NEW source, Decision(version, source).status = "ACCEPTED"
    PROVE  Layered(source) /\ LayersOf(source) \subseteq Known(version)
<1>1. Violations(version, source) = {}
  BY DEF Decision
<1> QED
  BY <1>1, NoViolationNoCycle, KnownOnly

\* The second baseline refuses what the first refused, for the same violations,
\* and allows nothing more: it differs only on the files of the new layer.
THEOREM OnlyCompositionIsNew ==
    ASSUME NEW source, \A m \in source : layer_of(m.module) # "composition"
    PROVE  Decision("1.0", source) = Decision("1.1", source)
<1>1. \A m \in source : layer_of(m.module) \in Known("1.0") <=> layer_of(m.module) \in Known("1.1")
  BY DEF Known, KNOWN_LAYERS
<1>2. \A m \in source : Allowed("1.0", layer_of(m.module)) = Allowed("1.1", layer_of(m.module))
  BY <1>1 DEF Allowed
<1>3. UnknownLayers("1.0", source) = UnknownLayers("1.1", source)
  <2>1. {n \in source : InLayer(n.module) /\ layer_of(n.module) \notin Known("1.0")}
          = {n \in source : InLayer(n.module) /\ layer_of(n.module) \notin Known("1.1")}
    BY <1>1
  <2> QED
    BY <2>1 DEF UnknownLayers
<1>4. ASSUME NEW m \in source
      PROVE  {t \in m.imports : Crosses("1.0", m.module, t)}
               = {t \in m.imports : Crosses("1.1", m.module, t)}
  BY <1>2 DEF Crosses
<1>5. ForbiddenImports("1.0", source) = ForbiddenImports("1.1", source)
  BY <1>4 DEF ForbiddenImports
<1>6. Violations("1.0", source) = Violations("1.1", source)
  BY <1>3, <1>5 DEF Violations
<1> QED
  BY <1>6 DEF Decision

=============================================================================

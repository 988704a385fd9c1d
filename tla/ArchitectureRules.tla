--------------------------- MODULE ArchitectureRules ---------------------------
(***************************************************************************)
(* What the realization check says of a source tree: the scanner's names,  *)
(* the three rules of a baseline, and the verdict.  A dotted name is the   *)
(* sequence of its parts.  A tree is a set of files, each a record of its  *)
(* path below the root and its import statements; a statement is its level *)
(* (0 for an absolute one) and the module it names, << >> for none.        *)
(***************************************************************************)
EXTENDS Naturals, Sequences

Root == "architecture_assistant"
PackageFile == "__init__"

\* Names that are never a layer: the root package and what is not ours.
RootItself == ""
Foreign == "foreign"

-----------------------------------------------------------------------------
\* The scanner.  A package's own file is named __init__.
IsPackage(path) == path[Len(path)] = PackageFile

module_name_for(path) ==
    <<Root>> \o IF IsPackage(path) THEN SubSeq(path, 1, Len(path) - 1) ELSE path

package_of(path) ==
    IF IsPackage(path) THEN module_name_for(path)
    ELSE SubSeq(module_name_for(path), 1, Len(path))

\* The module that a statement in a file of package names, << >> for none; the
\* names after "import" are not looked at.
resolve_import(statement, package) ==
    LET keep == Len(package) - (statement.level - 1) IN
    IF statement.level = 0 THEN statement.module
    ELSE IF keep < 1 THEN << >>
    ELSE SubSeq(package, 1, keep) \o statement.module

extract_imports(file) ==
    {resolve_import(s, package_of(file.path)) : s \in file.imports} \ {<< >>}

\* SourceModel.imports.  A file and a package of one name are one module, and
\* the package's file is the later one in the scan.
Shadowed(file, files) ==
    \E other \in files : /\ other # file
                         /\ module_name_for(other.path) = module_name_for(file.path)
                         /\ IsPackage(other.path)

scan_directory(files) ==
    {[module |-> module_name_for(file.path), imports |-> extract_imports(file)] :
        file \in {f \in files : ~Shadowed(f, files)}}

layer_of(name) ==
    IF name[1] # Root THEN Foreign
    ELSE IF Len(name) = 1 THEN RootItself
    ELSE name[2]

-----------------------------------------------------------------------------
\* The baselines.
V1_KNOWN_LAYERS == {"domain", "ports", "application", "architecture", "infrastructure"}
KNOWN_LAYERS == V1_KNOWN_LAYERS \cup {"composition"}
Baselines == {"1.0", "1.1"}

Known(version) == IF version = "1.0" THEN V1_KNOWN_LAYERS ELSE KNOWN_LAYERS

V1_ALLOWED_IMPORTS ==
    [layer \in V1_KNOWN_LAYERS |->
        CASE layer = "domain" -> {}
          [] layer = "ports" -> {"domain"}
          [] layer = "application" -> {"domain", "ports"}
          [] layer = "architecture" -> {"domain"}
          [] layer = "infrastructure" -> {"domain", "ports"}]

\* What a module of a layer may import besides its own layer.
Allowed(version, layer) ==
    IF layer \in V1_KNOWN_LAYERS THEN V1_ALLOWED_IMPORTS[layer]
    ELSE IF layer \in Known(version) THEN V1_KNOWN_LAYERS
    ELSE {}

UNKNOWN_LAYER == "unknown-layer"
FORBIDDEN_LAYER_IMPORT == "forbidden-layer-import"
SQLITE_OUTSIDE_INFRASTRUCTURE == "sqlite-outside-infrastructure"
Rules == {UNKNOWN_LAYER, FORBIDDEN_LAYER_IMPORT, SQLITE_OUTSIDE_INFRASTRUCTURE}

Violation(rule, module, target) == <<rule, module, target>>

\* A project module is in a layer.
InLayer(module) == layer_of(module) \notin {RootItself, Foreign}

UnknownLayers(version, source) ==
    {Violation(UNKNOWN_LAYER, m.module, <<layer_of(m.module)>>) :
        m \in {n \in source : InLayer(n.module) /\ layer_of(n.module) \notin Known(version)}}

MutantCrosses(version, module, target) ==
    /\ InLayer(module) /\ InLayer(target)
    /\ layer_of(target) # layer_of(module)
    /\ layer_of(target) \notin Known(version)

Crosses(version, module, target) ==
    /\ InLayer(module) /\ InLayer(target)
    /\ layer_of(target) # layer_of(module)
    /\ layer_of(target) \notin Allowed(version, layer_of(module))

ForbiddenImports(version, source) ==
    UNION {{Violation(FORBIDDEN_LAYER_IMPORT, m.module, t) :
              t \in {u \in m.imports : Crosses(version, m.module, u)}} : m \in source}

SqliteModule == <<"sqlite3">>

SqliteImports(source) ==
    {Violation(SQLITE_OUTSIDE_INFRASTRUCTURE, m.module, SqliteModule) :
        m \in {n \in source : layer_of(n.module) # "infrastructure"
                                /\ SqliteModule \in n.imports}}

\* ArchitectureValidator.validate()
Violations(version, source) ==
    UnknownLayers(version, source) \cup ForbiddenImports(version, source)
        \cup SqliteImports(source)

\* ArchitectureRealizationAdapter: the findings' ids are hashes of the
\* violations, one each, and the decision names them and the rules.
Decision(version, source) ==
    LET found == Violations(version, source) IN
    [status |-> IF found = {} THEN "ACCEPTED" ELSE "REJECTED",
     rules |-> Rules,
     refs |-> found]

-----------------------------------------------------------------------------
\* What the verdict is for.

\* The layers that a source has, by its modules and by what they import.
LayersOf(source) ==
    {layer_of(m.module) : m \in {n \in source : InLayer(n.module)}}

Imports(source, from, to) ==
    \E m \in source : /\ InLayer(m.module) /\ layer_of(m.module) = from
                      /\ \E t \in m.imports : InLayer(t) /\ layer_of(t) = to

\* No cycle between layers: among any of them, one imports no other.
Layered(source) ==
    \A some \in SUBSET KNOWN_LAYERS :
        some # {} => \E low \in some : \A other \in some \ {low} : ~Imports(source, low, other)

=============================================================================

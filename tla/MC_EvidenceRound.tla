--------------------------- MODULE MC_EvidenceRound ---------------------------
(* Instances of EvidenceRound for TLC: source trees, and what callers ask.  *)
EXTENDS EvidenceRound

\* A file of a layer, with its import statements.
File(layer, imports) == [path |-> <<layer, "module">>, imports |-> imports]
From(layer) == [level |-> 2, module |-> <<layer, "other">>]
Import(name) == [level |-> 0, module |-> <<name>>]

Clean == {File("domain", {}), File("application", {From("domain"), From("ports")}),
          File("infrastructure", {From("ports"), Import("sqlite3")})}

\* The composition layer, a package's own file and the root's, and an import that
\* leads out of the tree: what 1.1 accepts and 1.0 does not.
Composed ==
    Clean \cup
    {File("composition", {From("application"), From("infrastructure")}),
     [path |-> <<"ports", PackageFile>>, imports |-> {[level |-> 1, module |-> <<"other">>]}],
     [path |-> <<PackageFile>>, imports |-> {[level |-> 1, module |-> <<"domain">>]}],
     File("architecture", {[level |-> 4, module |-> <<"ports">>]})}

\* A cycle of two layers, and a file that a package of its name shadows.
Tangled ==
    {File("application", {From("infrastructure")}),
     File("infrastructure", {From("application")}),
     File("domain", {From("ports")}),
     [path |-> <<"domain", "module", PackageFile>>, imports |-> {}]}

MCTrees == {Composed, Tangled}

\* A question, the claim its sound answer makes, and the relation that the
\* caller declares for it.
Query(adapter, step, claim, relation, target) ==
    [adapter |-> adapter, step |-> step, claim |-> <<claim>>,
     evidence |-> <<<<"file", "line">>>>, relation |-> relation, target |-> target]

Rule1 == <<UNKNOWN_LAYER>>
Rule2 == <<FORBIDDEN_LAYER_IMPORT>>
Nonsense == <<"no such rule">>
Tangle == Violation(FORBIDDEN_LAYER_IMPORT, <<Root, "application", "module">>,
                    <<Root, "infrastructure", "other">>)

MCAgendas ==
    {\* nobody is asked
     << >>,
     \* a conflict between two advisors, and a bystander
     <<Query("openai", 1, "c1", "SUPPORTING", Rule1),
       Query("claude", 1, "c2", "CONTRADICTING", Rule1),
       Query("grok", 1, "c3", "UNRESOLVED", Nonsense)>>,
     \* a question asked again, with another relation
     <<Query("claude", 1, "c1", "SUPPORTING", Rule1),
       Query("claude", 1, "c1", "CONTRADICTING", Rule1),
       Query("grok", 1, "c2", "CONTRADICTING", Rule1)>>,
     \* two conflicts, the later one across steps
     <<Query("claude", 1, "c1", "SUPPORTING", Rule1),
       Query("grok", 1, "c2", "CONTRADICTING", Rule1),
       Query("claude", 1, "c3", "SUPPORTING", Rule2),
       Query("openai", 2, "c4", "CONTRADICTING", Rule2)>>,
     \* relations that only a rejection can prove
     <<Query("openai", 1, "c1", "SUPPORTING", Tangle),
       Query("grok", 1, "c2", "CONTRADICTING", Tangle),
       Query("claude", 1, "c3", "SUPPORTING", Nonsense)>>}

AllKeys == {OpenAIKey, ClaudeKey, GrokKey}
MCKeySets == {AllKeys, AllKeys \ {OpenAIKey}}

=============================================================================

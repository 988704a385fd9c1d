---------------------- MODULE MC_ArchitectureEvolution ----------------------
(* Small catalogues of versions, change requests and releases.             *)
EXTENDS ArchitectureEvolution

\* ACR1 is the change the repository declares, ACR2 a later one, Fork a
\* mis-declared one that starts from a superseded version, and Late a request
\* of the operator for a version that is current already; Late shares the
\* reason record of ACR2.  A request outside SoundRequests names rules that its
\* target does not declare.
AllRequests == {"ACR1", "ACR2", "Fork", "Late"}
MCVersions == {"v0", "v1", "v2"}

MCSource == [r \in Requests |-> IF r = "ACR2" THEN "v1" ELSE "v0"]
MCTarget == [r \in Requests |-> IF r \in {"ACR2", "Fork"} THEN "v2" ELSE "v1"]
MCAdrOf == [r \in Requests |->
    CASE r = "ACR1" -> "ADR1" [] r = "Fork" -> "ADR3" [] OTHER -> "ADR2"]
MCRisksOf == [r \in Requests |-> IF r = "ACR1" THEN {"K1"} ELSE {}]

OneRelease == << <<"ACR1">> >>
ThreeReleases == << <<"ACR1">>, <<"ACR1", "Fork">>, <<"ACR1", "ACR2">> >>

=============================================================================

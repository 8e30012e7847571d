------------------------------- MODULE Agents -------------------------------
(***************************************************************************)
(* The three users of the agent runtime together.  They share no table and *)
(* no transaction, so each behaviour is one of a single part, chosen at    *)
(* the start.                                                              *)
(***************************************************************************)
EXTENDS Suggester, InsightDigest, CoverageProposals

VARIABLE part

agentsVars == <<part, suggesterVars, digestVars, coverageVars>>

AgentsInit ==
    /\ part \in {"suggester", "digest", "coverage"}
    /\ SuggesterInit /\ DigestInit /\ CoverageInit
    /\ part # "coverage" => inventory = {} /\ build = {}

AgentsNext ==
    \/ part = "suggester" /\ SuggesterNext /\ UNCHANGED <<part, digestVars, coverageVars>>
    \/ part = "digest" /\ DigestNext /\ UNCHANGED <<part, suggesterVars, coverageVars>>
    \/ part = "coverage" /\ CoverageNext /\ UNCHANGED <<part, suggesterVars, digestVars>>

AgentsSpec == AgentsInit /\ [][AgentsNext]_agentsVars

\* The states of the three parts are what their declarations say.
AgentsTypeOK == SuggesterTypeOK /\ DigestTypeOK /\ CoverageTypeOK

\* FR-001, FR-010, FR-011: whatever text of an agent a reader is shown, what it declares and
\* what it states in money or percent is what the platform handed to the run that wrote it:
\* a suggestion has the identifiers of its own finding, a digest the findings, figures and
\* movements of its own day.
AgentTextIsGrounded == SuggestionIsOwn /\ DigestIsGrounded

\* FR-001, FR-001a: no reader is shown an identifier that the platform did not hand to the
\* run that wrote the text, whether the text declares it or only names it in its prose.
AgentTextNamesTheKnown == SuggestionNamesItsOwn /\ DigestNamesTheKnown

=============================================================================

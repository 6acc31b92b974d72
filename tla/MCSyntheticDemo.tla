-------------------------- MODULE MCSyntheticDemo --------------------------
(***************************************************************************)
(* Two seed commands beside one other process, on a demo of two configs    *)
(* over one query, with one crash and one call of the other process.       *)
(***************************************************************************)
EXTENDS SyntheticDemo

MCPayloads == {"authored", "altered"}

\* The summaries of the authored outcomes, and those of a run that all failed.
MCPassed == {SummariesOf(AuthoredOutcomes), SummariesOf([a \in Attempts |-> "failed"])}

=============================================================================

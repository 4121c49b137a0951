-------------------------- MODULE MCProviderRouter --------------------------
(***************************************************************************)
(* An instance of ProviderRouter for TLC: two operations with a real       *)
(* provider each, the first one falling back on a mock.                    *)
(***************************************************************************)
EXTENDS ProviderRouter, TLC

CONSTANTS r1, r2, openai, groq, mock, llm, embed

MCCandidates ==
  [o \in Operation |-> IF o = llm THEN <<openai, mock>> ELSE <<groq>>]
=============================================================================

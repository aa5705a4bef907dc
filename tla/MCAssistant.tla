---------------------------- MODULE MCAssistant ----------------------------
(* An instance of AssistantPage for TLC. *)
EXTENDS AssistantPage

\* With and without AbortController and streams, in every combination.
MCBrowsers == BOOLEAN \X BOOLEAN
=============================================================================

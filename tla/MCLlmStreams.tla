----------------------------- MODULE MCLlmStreams -----------------------------
(* LlmStreams for TLC: all five adapters, a server tool and a client tool.     *)
EXTENDS LlmStreams

CONSTANTS srv, cli

TwoTools == {srv, cli}
ClientOnly == {cli}
SecondIsOdd == {2}
AllAdapters == {"openai", "anthropic", "google", "alibaba", "litellm"}
=============================================================================

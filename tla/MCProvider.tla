------------------------------ MODULE MCProvider ------------------------------
(***************************************************************************)
(* Provider for TLC: two clouds, and the settings that matter for them.    *)
(***************************************************************************)
EXTENDS Provider

CloudOrder == <<"anthropic", "openai">>
\* For another pin than a cloud one the provider that goes with it is not read.
SettingsThatOccur == {s \in Settings : s.provider = "openai" \/ s.kind = "cloud"}
=============================================================================

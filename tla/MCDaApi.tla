------------------------------ MODULE MCDaApi ------------------------------
EXTENDS DaApi, TLC

Provider(name, endpoint, anytrust, fallback) ==
  [name |-> name, endpoint_url |-> endpoint, is_anytrust |-> anytrust,
   anytrust_fallback_url |-> fallback]

CalldataProvider == Provider("calldata", "", FALSE, "")

\* The built-in provider, an AnyTrust sidecar, another provider with and
\* without the AnyTrust fallback, and one without an endpoint.
MCConfigs ==
  {CalldataProvider, Provider("other", "primary", TRUE, ""),
   Provider("other", "primary", FALSE, ""), Provider("other", "primary", FALSE, "anytrust"),
   Provider("other", "", FALSE, "")}

Symmetry == Permutations(Batches)
=============================================================================

-------------------------- MODULE MCProviderCalls --------------------------
(***************************************************************************)
(* ProviderCalls with Retry-After headers below, within and above what     *)
(* request_json accepts: -1, 0, 0.5 and 10 seconds.                        *)
(***************************************************************************)
EXTENDS ProviderCalls

MCHeaders == {-4, 0, 2, 40}
=============================================================================

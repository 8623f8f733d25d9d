-------------------------- MODULE MCProviderRouter --------------------------
(***************************************************************************)
(* A review of four metrics.  m1, m2 and m3 share a request: m1 and m2 are *)
(* asked of p1 together and fall back to p2 (which does not offer m1) a    *)
(* round after m3 was asked of it.  m4 asks for a full history, first of a *)
(* provider that is not configured.                                        *)
(***************************************************************************)
EXTENDS ProviderRouter, TLC

CONSTANTS m1, m2, m3, m4, p1, p2, p3, shared, full

MCRequestOf == (m1 :> shared) @@ (m2 :> shared) @@ (m3 :> shared) @@ (m4 :> full)
MCKind == (shared :> "mutable") @@ (full :> "history")
MCChain == (m1 :> <<p1, p2>>) @@ (m2 :> <<p1, p2>>) @@ (m3 :> <<p2>>) @@ (m4 :> <<p3, p2>>)
MCUnsupported == {<<p2, m1>>}
=============================================================================

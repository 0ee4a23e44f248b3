------------------------------ MODULE MCAudit -------------------------------
(***************************************************************************)
(* The small marketplaces of MCMarket, audited.                            *)
(***************************************************************************)
EXTENDS MCMarket, MarketAudit
=============================================================================

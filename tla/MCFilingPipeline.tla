------------------------- MODULE MCFilingPipeline -------------------------
(* Small calendars for FilingPipeline: a broad and a legacy filing of day  *)
(* 0, section-indexed ones of the last day.                                *)
EXTENDS FilingPipeline

CONSTANTS broad1, legacy1, indexed1, big1, flat1, lost1

MCFiledOn == [f \in Filings |-> IF f \in {broad1, legacy1} THEN 0 ELSE LastDay]
MCKind == [f \in Filings |-> CASE f = broad1 -> "broad" [] f = legacy1 -> "legacy"
                                [] OTHER -> "indexed"]
=============================================================================

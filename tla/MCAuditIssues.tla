----------------------------- MODULE MCAuditIssues -----------------------------
(* Two advisories, a scan of either branch, and failures and changes at any  *)
(* moment.                                                                   *)
EXTENDS AuditIssues

CONSTANTS a1, a2, mainScan, v2Scan

MCAdvisory == {a1, a2}
MCScan == {mainScan, v2Scan}
=============================================================================

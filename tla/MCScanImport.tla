---------------------------- MODULE MCScanImport ----------------------------
(* Instances of ScanImport for TLC. *)
EXTENDS ScanImport, TLC

CONSTANTS a, b, p1, p2, s1, s2, i1

TwoFingerprints == {a, b}
OneProject == {p1}
TwoProjects == {p1, p2}
TwoScans == {s1, s2}
OneImport == {i1}
NoImport == {}

\* Both orders, and a report that names a finding twice.
TwoReports == {<<a, b>>, <<b, a, a>>}
OneReport == {<<a>>}
=============================================================================

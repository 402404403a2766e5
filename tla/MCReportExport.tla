---------------------------- MODULE MCReportExport ----------------------------
(* Instances of ReportExport for TLC. *)
EXTENDS ReportExport, TLC

\* Identifiers, keys and exporters are interchangeable.
ExportSymmetry ==
  Permutations(Exporters) \cup Permutations(PackageIds) \cup Permutations(Keys)
=============================================================================

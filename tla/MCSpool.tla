------------------------------ MODULE MCSpool ------------------------------
(* Instances of Spool: ingest runs are interchangeable. *)
EXTENDS Spool, TLC

IngestorSymmetry == Permutations(Ingestors)
=============================================================================

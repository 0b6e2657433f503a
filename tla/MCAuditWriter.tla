---------------------------- MODULE MCAuditWriter ----------------------------
(***************************************************************************)
(* Bounds for AuditWriter: more requests than the channel and a batch hold *)
(* together, so that buffers fill and batches split.  Entries are    *)
(* interchangeable where only safety is checked.                           *)
(***************************************************************************)
EXTENDS AuditWriter, TLC

EntrySymmetry == Permutations(Entry)
=============================================================================

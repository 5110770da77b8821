---------------------------- MODULE MCEntrySlot -----------------------------
(* Instances of EntrySlot for TLC. *)
EXTENDS EntrySlot
=============================================================================

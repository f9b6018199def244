--------------------------- MODULE MCClickHouseSync ---------------------------
(* Instances of ClickHouseSync for TLC. *)
EXTENDS ClickHouseSync

\* What the mart job writes: its own columns and those of add_audit_metadata.
WrittenColumns == {"business", "_source_system", "_processed_at", "_batch_id"}

\* A mart that carries the audit columns the script asks for.
AgreedColumns == WrittenColumns \cup SelectedColumns

=============================================================================

----------------------- MODULE MC_SnapshotDBRecover -----------------------
EXTENDS SnapshotDBRecover

MCNumbers == 0..4
=============================================================================

----------------------------- MODULE MCPartition -----------------------------
(* Instances of Partition for TLC. *)
EXTENDS Partition, TLC

CONSTANTS MaxSize, MaxPartitionSize
MCSizes == 0 .. MaxSize
MCPartitionSizes == 1 .. MaxPartitionSize

=============================================================================

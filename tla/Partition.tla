------------------------------ MODULE Partition ------------------------------
(***************************************************************************)
(* util/util.cc (FilePartitionNum, CalcPartitionStart) and how an upload   *)
(* uses them: FileClient::Send reads a file partition by partition, and    *)
(* RepoManager::WriteToFile (and SyncManager::WriteToFile) computes where  *)
(* each partition goes, refuses one of another length and writes it.       *)
(***************************************************************************)
EXTENDS Integers

CONSTANTS
    Sizes,              \* the file sizes
    PartitionSizes      \* the partition sizes

ASSUME SizesAssumption ==
    Sizes \subseteq Nat /\ PartitionSizes \subseteq Nat \ {0}

VARIABLES
    file_size, partition_size,
    partition_num,      \* local of Send: the partition it reads next
    refused,            \* the partitions the server refused
    written             \* how often the server wrote each byte, by its offset

vars == <<file_size, partition_size, partition_num, refused, written>>

Smaller(a, b) == IF a < b THEN a ELSE b

FilePartitionNum(total_size, size) ==
    total_size \div size + (IF total_size % size > 0 THEN 1 ELSE 0)

\* Mutant: the end is the offset after the last byte.
CalcPartitionStartOpen(size, partition, part_size) ==
    LET start == partition * part_size
        end == start + part_size
    IN  [start |-> start, end |-> IF end > size THEN size ELSE end]

CalcPartitionStart(size, partition, part_size) ==
    LET start == partition * part_size
        end == start + part_size - 1
    IN  [start |-> start, end |-> IF end > size THEN size - 1 ELSE end]

\* file.gcount() after the read of a partition in Send.
gcount == Smaller(partition_size, file_size - partition_num * partition_size)

Init ==
    /\ file_size \in Sizes /\ partition_size \in PartitionSizes
    /\ partition_num = 0
    /\ refused = {}
    /\ written = [b \in 0 .. file_size - 1 |-> 0]

\* The client sends the next partition, as long as there is something to read,
\* and the server's WriteToFile refuses or writes it.
WriteToFile ==
    LET range == CalcPartitionStart(file_size, partition_num, partition_size)
        accepted == range.end - range.start + 1 = gcount
    IN  /\ gcount > 0
        /\ partition_num' = partition_num + 1
        /\ refused' = IF accepted THEN refused ELSE refused \cup {partition_num}
        /\ written' = [b \in 0 .. file_size - 1 |->
                         IF accepted /\ b \in range.start .. range.start + gcount - 1
                           THEN written[b] + 1 ELSE written[b]]
        /\ UNCHANGED <<file_size, partition_size>>

Next == WriteToFile
Spec == Init /\ [][Next]_vars

-----------------------------------------------------------------------------

\* Every byte is written exactly once, unless the partition it is in was
\* refused; no partition but the last is ever refused, and that one only when
\* it is one byte short.
EveryByteOnce ==
    /\ \A b \in 0 .. file_size - 1 :
          LET p == b \div partition_size
          IN  written[b] = IF p < partition_num /\ p \notin refused THEN 1 ELSE 0
    /\ \A p \in refused :
          /\ p = FilePartitionNum(file_size, partition_size) - 1
          /\ file_size % partition_size = partition_size - 1

\* What the error for a refused partition, "Calc size error", says: it is for a
\* partition whose length does not fit.  A client that cuts the file as
\* FilePartitionNum does is never told so.
NoPartitionRefused == refused = {}

=============================================================================

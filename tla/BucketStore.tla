------------------------------ MODULE BucketStore ------------------------------
(***************************************************************************)
(* What DataParallelBuffer expects of an allocator of temporary buckets:     *)
(* a bucket that was allocated keeps its size and its contents, whatever is   *)
(* allocated, written and freed besides it, until it is freed itself.         *)
(***************************************************************************)
EXTENDS Naturals

CONSTANTS Bucket,  \* bucket ids
          SizeOf,  \* bucket -> the size it is requested with
          Data,    \* what may be in a bucket
          Unallocated

VARIABLES contents,  \* bucket -> Data, or Unallocated
          extent     \* bucket -> the size it was handed out with

StoreInit ==
  /\ contents = [b \in Bucket |-> Unallocated]
  /\ extent = [b \in Bucket |-> 0]

\* New memory may hold anything; a bucket that is allocated already stays as it is.
Allocated(b) ==
  /\ contents[b] = Unallocated
  /\ \E d \in Data : contents' = [contents EXCEPT ![b] = d]
  /\ extent' = [extent EXCEPT ![b] = SizeOf[b]]

Written(b) ==
  /\ contents[b] # Unallocated
  /\ \E d \in Data : contents' = [contents EXCEPT ![b] = d]
  /\ UNCHANGED extent

Freed(b) ==
  /\ contents' = [contents EXCEPT ![b] = Unallocated]
  /\ extent' = [extent EXCEPT ![b] = 0]

StoreNext == \E b \in Bucket : Allocated(b) \/ Written(b) \/ Freed(b)

StoreSpec == StoreInit /\ [][StoreNext]_<<contents, extent>>
================================================================================

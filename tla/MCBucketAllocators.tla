--------------------------- MODULE MCBucketAllocators ---------------------------
\* Two units of two buckets that are alike but for the padding of their first
\* buckets, and a bucket outside of units.
EXTENDS BucketAllocators

Group(u, t, n, s) == [unit |-> u, dtype |-> t, numel |-> n, size |-> s]
MCGroups == <<Group(0, "bf16", 3, 3), Group(0, "fp32", 2, 2), Group(1, "bf16", 3, 4),
              Group(1, "fp32", 2, 2), Group(NoUnit, "bf16", 1, 1)>>
================================================================================

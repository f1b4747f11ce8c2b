-------------------------- MODULE MCStorageCleanup --------------------------
EXTENDS StorageCleanup

CONSTANTS outer, inner, whole, part

MCAncestors == [a \in Artifacts |-> IF a = inner THEN {outer} ELSE {}]
MCSelection == [j \in Jobs |-> IF j = whole THEN <<outer, inner>> ELSE <<inner>>]
=============================================================================

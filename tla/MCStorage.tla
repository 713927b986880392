----------------------------- MODULE MCStorage ------------------------------
(***************************************************************************)
(* Small instances of the layers below the file system, for TLC: the log,  *)
(* the buffer cache and the disk driver.  They share no variable here (Log *)
(* sees one buffer per block, Bcache a disk that is written at once), so   *)
(* TLC explores one at a time: layer says which.  Nothing in Log or Bcache *)
(* distinguishes two processes, two blocks or two values.                  *)
(***************************************************************************)
EXTENDS Log, Bcache, Virtio, TLC

CONSTANTS
    p1, p2, p3, b1, b2, b3, v1, v2,   \* of the log and the cache
    d1, d2, d3                            \* of the disk driver
LogProcs == {p1, p2, p3}
CacheProcs == {p1, p2, p3}
DiskProcs == {d1, d2, d3}
LogBlocks == {b1, b2, b3}
CacheBlocks == {b1, b2, b3}
TwoValues == {v1, v2}
Symmetry ==
    Permutations(BProcs) \cup Permutations(Blocks) \cup Permutations(Values)

VARIABLE layer

\* The layers that are not explored begin with equal blocks.
StorageInit ==
    /\ Init /\ CacheInit /\ VirtioInit
    /\ layer \in {"log", "cache", "disk"}
    /\ layer # "log" => \A x \in Blocks : disk[x] = dlog[1]
    /\ layer # "cache" => \A x \in BBlocks : bdisk[x] = dlog[1] /\ data[1] = dlog[1]

\* After the panic of bget() nothing happens any more.
Halted == layer = "cache" /\ panicked /\ UNCHANGED <<vars, cacheVars, virtioVars, layer>>

StorageNext ==
    \/ layer = "log" /\ Next /\ UNCHANGED <<cacheVars, virtioVars, layer>>
    \/ layer = "cache" /\ CacheNext /\ UNCHANGED <<vars, virtioVars, layer>>
    \/ Halted
    \/ layer = "disk" /\ VirtioNext /\ UNCHANGED <<vars, cacheVars, layer>>

StorageSpec == StorageInit /\ [][StorageNext]_<<vars, cacheVars, virtioVars, layer>>
=============================================================================

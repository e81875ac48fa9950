--------------------------- MODULE MCVectorCache ---------------------------
(* TLC instances of VectorCache.                                            *)
EXTENDS VectorCache, TLC

CONSTANTS p, q, f

\* Nobody asks for the keys of a row that is gone, or what the history says of a
\* row without an embedding; nor does a step depend on either.
KeysOf(keys) == IF keys = Torn THEN Torn ELSE [r \in {s \in Rows : row[s] # Deleted} |-> keys[r]]
Viewed ==
  <<row, file, tmp, [i \in Inodes |-> KeysOf(content[i])], pc, why, hand, fd, overlapped,
    [x \in Procs |-> <<KeysOf(index[x]), KeysOf(collected[x]), changed[x] \cap Embedded, late[x] \cap Embedded>>],
    lost \cap Embedded>>

Processes == Permutations(Procs)
=============================================================================

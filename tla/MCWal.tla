--------------------------------- MODULE MCWal ---------------------------------
(* The log with a hash that keeps everything it has read. *)
EXTENDS Wal, TLC

MCHashes == UNION {[1..n -> Data] : n \in 0..MaxSequence}

MCHash(previous, data) ==
  IF Len(previous) < MaxSequence THEN Append(previous, data) ELSE previous

MCGenesis == <<>>

\* Without the async writer, whose appends can be dropped half way.
SyncWriters == \A w \in Writers : handle[w] # None => ~handle[w].async
SyncSpec == Init /\ [][Next /\ SyncWriters']_vars

Symmetric == Permutations(Writers) \cup Permutations(Data)
=============================================================================

----------------------------- MODULE MCFileData -----------------------------
(* Small instances of FileData for TLC.                                     *)
EXTENDS FileData

\* Between two requests no action reads what the last one has left in the locals,
\* and no property but AppendsKept reads appended.
View ==
    <<store, caches, pc, ops, faults, owed,
      [c \in Client |-> IF pc[c] = "idle" THEN <<>>
                        ELSE <<req[c], ret[c], current[c], sent[c], last[c], detached[c]>>]>>
=============================================================================

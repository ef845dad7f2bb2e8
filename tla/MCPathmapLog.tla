---------------------------- MODULE MCPathmapLog ----------------------------
(* Small instances of PathmapLog for TLC.                                   *)
EXTENDS PathmapLog, TLC

CONSTANTS c1, c2, t1, t2

\* Two clients that serve one request at a time.
OneThreadEach == t1 :> c1 @@ t2 :> c2

\* One client that serves two requests at a time.
BothOfOne == t1 :> c1 @@ t2 :> c1

\* The two clients with their threads may be exchanged.
ClientSymmetry == {c1 :> c1 @@ c2 :> c2 @@ t1 :> t1 @@ t2 :> t2,
                   c1 :> c2 @@ c2 :> c1 @@ t1 :> t2 @@ t2 :> t1}

Clients == {c1, c2}
OneClient == {c1}
Threads == {t1, t2}
=============================================================================

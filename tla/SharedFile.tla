----------------------------- MODULE SharedFile -----------------------------
(***************************************************************************)
(* What the clients of a shared file are promised about its blocks: each   *)
(* client collects its changes to a block, and a flush applies the changes *)
(* of one client to the block as it is then, in one step.  Nothing else    *)
(* changes a block, except that a truncate removes it.                     *)
(***************************************************************************)
EXTENDS Naturals, Sequences

CONSTANTS
    Client,
    Appenders,      \* clients that may append, and so take changes back
    Block,
    Value, Zero,    \* of a cell, and of a cell that nobody wrote
    Update          \* the changes that a client can make to a block

VARIABLES
    content,    \* the cells of every block
    pending     \* the changes of every client to every block, oldest first

vars == <<content, pending>>

\* The first n cells, with zeros where there were none.
Resize(s, n) == [i \in 1 .. n |-> IF i <= Len(s) THEN s[i] ELSE Zero]

Larger(a, b) == IF a > b THEN a ELSE b

\* A change is an offset and a length; a length of 0 cuts the block there.
\* The cells that client c writes have the value c.
Apply(s, change, c) ==
    LET off == change[1]
        end == change[1] + change[2]
    IN  IF change[2] = 0 THEN Resize(s, off)
        ELSE [i \in 1 .. Larger(Len(s), end) |->
                 IF off < i /\ i <= end THEN c
                 ELSE IF i <= Len(s) THEN s[i] ELSE Zero]

ApplyAll(s, changes, c) ==
    LET applied[k \in Nat] == IF k = 0 THEN s ELSE Apply(applied[k - 1], changes[k], c)
    IN  applied[Len(changes)]

Change(c, b) ==
    /\ \E u \in Update : pending' = [pending EXCEPT ![c][b] = Append(@, u)]
    /\ UNCHANGED content

Flush(c, b) ==
    /\ content' = [content EXCEPT ![b] = ApplyAll(@, pending[c][b], c)]
    /\ pending' = [pending EXCEPT ![c][b] = <<>>]

\* An append is taken back before it returns, to be made again, and one that
\* has failed with it.
Withdraw(c, b) ==
    /\ c \in Appenders
    /\ pending' = [pending EXCEPT ![c][b] = <<>>]
    /\ UNCHANGED content

Delete(c, b) ==
    /\ content' = [content EXCEPT ![b] = <<>>]
    /\ pending' = [pending EXCEPT ![c][b] = <<>>]

\* A client that crashes loses what it has not flushed.
Crash(c) ==
    /\ pending' = [pending EXCEPT ![c] = [b \in Block |-> <<>>]]
    /\ UNCHANGED content

Init ==
    /\ content \in [Block -> Seq(Value)]
    /\ pending = [c \in Client |-> [b \in Block |-> <<>>]]

Next == \E c \in Client :
    \/ Crash(c)
    \/ \E b \in Block : Change(c, b) \/ Flush(c, b) \/ Withdraw(c, b) \/ Delete(c, b)

Spec == Init /\ [][Next]_vars
=============================================================================

------------------------------ MODULE InodeGen ------------------------------
(***************************************************************************)
(* Inode numbers.  Clients share one key, "inode_generation", whose        *)
(* version is the first number nobody owns.  A client takes a token, a     *)
(* range of TokenSize numbers, by advancing that version with a            *)
(* test-and-set Put, and hands out its numbers from a local counter.       *)
(*                                                                         *)
(* A grab is two requests (GetVersion, Put).  It happens in hflat_init and, *)
(* under the lock of the private data, in generate_inode_number, so each   *)
(* client has at most one grab in progress.                                *)
(***************************************************************************)
EXTENDS Naturals

CONSTANTS
    Client,
    TokenSize,    \* 65535 (uint16_t max) in the code
    MaxTokens     \* bound: tokens that can be taken

ASSUME InodeAssumption ==
    /\ TokenSize \in Nat \ {0, 1}
    /\ MaxTokens \in Nat

VARIABLES
    keyVersion,     \* drive: version of inode_generation, 0 when not found
    pc,             \* "down", "get", "put" (in a grab) or "up"
    mounted,        \* is the grab the one of generate_inode_number?
    inum_base,
    inum_counter,
    granted,        \* history: did the last grab return 0?
    issued,         \* history: numbers handed out
    duplicates,     \* history: numbers handed out a second time
    failed          \* history: clients with a grab that failed

vars == <<keyVersion, pc, mounted, inum_base, inum_counter, granted, issued,
          duplicates, failed>>

Init ==
    /\ keyVersion = 0
    /\ pc = [c \in Client |-> "down"]
    /\ mounted = [c \in Client |-> FALSE]
    /\ inum_base = [c \in Client |-> 0]
    /\ inum_counter = [c \in Client |-> 0]
    /\ granted = [c \in Client |-> FALSE]
    /\ issued = {}
    /\ duplicates = {}
    /\ failed = {}

\* hflat_init on fresh private data: the counter starts at 0 and the first
\* number is the one after the base.
Mount(c) ==
    /\ pc[c] = "down"
    /\ pc' = [pc EXCEPT ![c] = "get"]
    /\ UNCHANGED <<keyVersion, mounted, inum_base, inum_counter, granted,
                   issued, duplicates, failed>>

\* The client machine fails; what it had not handed out is never used.
Crash(c) ==
    /\ pc[c] # "down"
    /\ pc' = [pc EXCEPT ![c] = "down"]
    /\ mounted' = [mounted EXCEPT ![c] = FALSE]
    /\ inum_base' = [inum_base EXCEPT ![c] = 0]
    /\ inum_counter' = [inum_counter EXCEPT ![c] = 0]
    /\ granted' = [granted EXCEPT ![c] = FALSE]
    /\ UNCHANGED <<keyVersion, issued, duplicates, failed>>

\* generate_inode_number returns n.
Issue(n) ==
    /\ issued' = issued \cup {n}
    /\ duplicates' = IF n \in issued THEN duplicates \cup {n} ELSE duplicates

\* Mutant of Generate: the end of the token is not noticed.
GenerateOn(c) ==
    /\ pc[c] = "up"
    /\ inum_counter' = [inum_counter EXCEPT ![c] = @ + 1]
    /\ Issue(inum_base[c] + inum_counter[c] + 1)
    /\ UNCHANGED <<keyVersion, pc, mounted, inum_base, granted, failed>>

\* The common case: the counter stays inside the token.
Generate(c) ==
    /\ pc[c] = "up"
    /\ inum_counter[c] + 1 # TokenSize
    /\ inum_counter' = [inum_counter EXCEPT ![c] = @ + 1]
    /\ Issue(inum_base[c] + inum_counter[c] + 1)
    /\ UNCHANGED <<keyVersion, pc, mounted, inum_base, granted, failed>>

\* The token is used up: grab another one, holding the lock.
Refresh(c) ==
    /\ pc[c] = "up"
    /\ inum_counter[c] + 1 = TokenSize
    /\ inum_counter' = [inum_counter EXCEPT ![c] = @ + 1]
    /\ pc' = [pc EXCEPT ![c] = "get"]
    /\ granted' = [granted EXCEPT ![c] = FALSE]
    /\ UNCHANGED <<keyVersion, mounted, inum_base, issued, duplicates, failed>>

\* After the grab, successful or not: an error is only logged.  hflat_init goes
\* on mounting, generate_inode_number resets the counter and returns base + 0.
GrabReturns(c) ==
    /\ pc' = [pc EXCEPT ![c] = "up"]
    /\ mounted' = [mounted EXCEPT ![c] = TRUE]
    /\ \/ ~mounted[c] /\ UNCHANGED <<inum_counter, issued, duplicates>>
       \/ /\ mounted[c]
          /\ inum_counter' = [inum_counter EXCEPT ![c] = 0]
          /\ Issue(inum_base'[c])

\* GetVersion: a missing key means that nothing has been given out.
GrabGet(c) ==
    /\ pc[c] = "get"
    /\ inum_base' = [inum_base EXCEPT ![c] = keyVersion]
    /\ pc' = [pc EXCEPT ![c] = "put"]
    /\ UNCHANGED <<keyVersion, mounted, inum_counter, granted, issued, duplicates,
                   failed>>

\* Mutant of GrabPut: the Put ignores the version.
GrabPutIgnoring(c) ==
    /\ pc[c] = "put"
    /\ keyVersion + TokenSize <= MaxTokens * TokenSize
    /\ keyVersion' = inum_base[c] + TokenSize
    /\ granted' = [granted EXCEPT ![c] = TRUE]
    /\ UNCHANGED <<inum_base, failed>>
    /\ GrabReturns(c)

\* Put with the version that was read ("" for 0, when the key must not exist).
GrabPut(c) ==
    /\ pc[c] = "put"
    /\ keyVersion = inum_base[c]
    /\ keyVersion + TokenSize <= MaxTokens * TokenSize
    /\ keyVersion' = keyVersion + TokenSize
    /\ granted' = [granted EXCEPT ![c] = TRUE]
    /\ UNCHANGED <<inum_base, failed>>
    /\ GrabReturns(c)

\* Version mismatch: another client was faster, start over.
GrabMismatch(c) ==
    /\ pc[c] = "put"
    /\ keyVersion # inum_base[c]
    /\ pc' = [pc EXCEPT ![c] = "get"]
    /\ UNCHANGED <<keyVersion, mounted, inum_base, inum_counter, granted,
                   issued, duplicates, failed>>

\* -EIO from either request; a failed Put may have been stored all the same.
GrabFails(c) ==
    /\ pc[c] \in {"get", "put"}
    /\ failed' = failed \cup {c}
    /\ \/ UNCHANGED keyVersion
       \/ /\ pc[c] = "put"
          /\ keyVersion = inum_base[c]
          /\ keyVersion + TokenSize <= MaxTokens * TokenSize
          /\ keyVersion' = keyVersion + TokenSize
    /\ UNCHANGED <<inum_base, granted>>
    /\ GrabReturns(c)

Next == \E c \in Client :
    \/ Mount(c) \/ Crash(c) \/ Generate(c) \/ Refresh(c)
    \/ GrabGet(c) \/ GrabPut(c) \/ GrabMismatch(c) \/ GrabFails(c)

Spec == Init /\ [][Next]_vars

-----------------------------------------------------------------------------
(* Properties.                                                             *)

\* Type invariant of the token key and of what each client holds of its token.
TypeOK ==
    /\ keyVersion \in Nat
    /\ pc \in [Client -> {"down", "get", "put", "up"}]
    /\ mounted \in [Client -> BOOLEAN]
    /\ inum_base \in [Client -> Nat]
    /\ inum_counter \in [Client -> 0 .. TokenSize]
    /\ granted \in [Client -> BOOLEAN]
    /\ issued \subseteq Nat
    /\ duplicates \subseteq Nat
    /\ failed \subseteq Client

\* As long as no request to the token key has failed, no inode number has been
\* handed out twice, by one client or by two, across token refreshes, lost races
\* for the token key, crashes and remounts.
UniqueInodes == failed = {} => duplicates = {}

\* generate_inode_number returns unique numbers whatever happens.
AlwaysUnique == duplicates = {}

\* Tokens that were granted do not overlap and lie below the shared key, also
\* when requests fail.
GrantsDisjoint ==
    \A c \in Client : granted[c] =>
      /\ inum_base[c] + TokenSize <= keyVersion
      /\ \A d \in Client \ {c} : granted[d] =>
           \/ inum_base[c] + TokenSize <= inum_base[d]
           \/ inum_base[d] + TokenSize <= inum_base[c]
=============================================================================

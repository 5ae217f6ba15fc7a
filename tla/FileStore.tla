----------------------------- MODULE FileStore -----------------------------
(***************************************************************************)
(* What the ramdisk promises about its directory (spec sections 2-4): a    *)
(* set of files, each with a name (up to case) and a logical size.  A file *)
(* is created empty under a name no file has, deleted as a                 *)
(* whole, truncated to size 0, or grown by a write past its end.  Nothing  *)
(* else changes a file's size, and no step touches two files.             *)
(***************************************************************************)
EXTENDS Naturals, TLC

CONSTANTS
    Ids,    \* file identities (where a file lives)
    Keys    \* names as the case-insensitive comparison sees them

VARIABLE files      \* [i \in <files present> |-> [key, size]]

TypeOK == /\ DOMAIN files \subseteq Ids
          /\ \A i \in DOMAIN files : files[i] \in [key : Keys, size : Nat]

Init == files = <<>>

Named(k) == \E i \in DOMAIN files : files[i].key = k

\* A new file, empty, under a name no file has.
Create(i, k) ==
    /\ i \notin DOMAIN files /\ ~Named(k)
    /\ files' = (i :> [key |-> k, size |-> 0]) @@ files

Delete(i) ==
    /\ i \in DOMAIN files
    /\ files' = [j \in DOMAIN files \ {i} |-> files[j]]

Truncate(i) ==
    /\ i \in DOMAIN files
    /\ files' = [files EXCEPT ![i].size = 0]

\* A write past the end: the new size is larger, by any amount; the name
\* and every other file stay as they were.
Grow(i) ==
    /\ i \in DOMAIN files
    /\ DOMAIN files' = DOMAIN files
    /\ files'[i].key = files[i].key /\ files'[i].size > files[i].size
    /\ \A j \in DOMAIN files \ {i} : files'[j] = files[j]

Next == \E i \in Ids : \/ \E k \in Keys : Create(i, k)
                       \/ Delete(i) \/ Truncate(i) \/ Grow(i)

Spec == Init /\ [][Next]_files

=============================================================================

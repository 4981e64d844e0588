--------------------------- MODULE GigaDirectory ---------------------------
(***************************************************************************)
(* What a GIGA+ directory promises, with the distribution left out: one    *)
(* bitmap of partitions and, for every name, the partition that holds it   *)
(* or Absent.  A create puts a name in the partition giga_get_index_for_file*)
(* selects, a remove deletes it, and a split of partition p adds the child *)
(* giga_index_for_splitting chooses and moves to it exactly the entries    *)
(* giga_file_migration_status_with_hash selects (src/server/              *)
(* metadata_server.cc, Split and InsertSplit, taken as one step).  The    *)
(* distributed model IndexFS refines this module.                          *)
(***************************************************************************)
EXTENDS GigaIndex

CONSTANTS
    Name,        \* the entry names of the directory
    Hash,        \* Hash[n]: the first byte of giga_hash_name(n)
    NumServers,  \* options_->GetSrvNum()
    Zeroth,      \* the directory's zeroth server
    Absent       \* a name not in the directory

VARIABLES bitmap, part

vars == <<bitmap, part>>

\* The directory's mapping as every server would agree on it.
DirMapping == [bitmap |-> bitmap, radix |-> RadixFromBitmap(bitmap),
               zeroth |-> Zeroth, count |-> NumServers]

Init ==
    /\ bitmap = {0}
    /\ part = [n \in Name |-> Absent]

\* Mknod of a name that is not there.
Create(n) ==
    /\ part[n] = Absent
    /\ part' = [part EXCEPT ![n] = IndexForFile(DirMapping, Hash[n])]
    /\ UNCHANGED bitmap

\* Remove of a name that is there.
Remove(n) ==
    /\ part[n] # Absent
    /\ part' = [part EXCEPT ![n] = Absent]
    /\ UNCHANGED bitmap

\* A split of partition p, allowed by giga_is_splittable.
Split(p) ==
    /\ p \in bitmap
    /\ IsSplittable(DirMapping, p)
    /\ LET c == IndexForSplitting(DirMapping, p)
       IN  /\ bitmap' = bitmap \cup {c}
           /\ part' = [n \in Name |->
                         IF part[n] = p /\ MigrationStatus(Hash[n], c)
                         THEN c ELSE part[n]]

Next ==
    \/ \E n \in Name : Create(n) \/ Remove(n)
    \/ \E p \in bitmap : Split(p)

Spec == Init /\ [][Next]_vars
=============================================================================

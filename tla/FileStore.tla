----------------------------- MODULE FileStore -----------------------------
(***************************************************************************)
(* The directory the tool publishes into, as src/main.rs uses it: the      *)
(* entries every process sees (cached), the entries a power loss leaves    *)
(* behind (disk), and what the files contain.  Creation is exclusive, a    *)
(* hard link never replaces an entry, a rename does.  A change of the      *)
(* directory becomes durable when the directory is synchronized, or        *)
(* earlier, one entry at a time, when the operating system writes it back. *)
(***************************************************************************)
CONSTANTS
    Name,     \* the names of the directory
    Inode,    \* the files that may ever be created
    NoInode   \* the name has no entry

VARIABLES
    cached,   \* cached[n]: the file name n leads to now
    disk,     \* disk[n]: the file name n leads to after a power loss
    content,  \* content[i]: how much of file i has been written
    pages     \* pages[i]: "clean" if the content of file i survives a power loss

Content == {"none", "partial", "full"}

StoreTypeOK ==
    /\ cached \in [Name -> Inode \cup {NoInode}]
    /\ disk \in [Name -> Inode \cup {NoInode}]
    /\ content \in [Inode -> Content]
    /\ pages \in [Inode -> {"clean", "dirty"}]

StoreInit ==
    /\ cached = [n \in Name |-> NoInode]
    /\ disk = [n \in Name |-> NoInode]
    /\ content = [i \in Inode |-> "none"]
    /\ pages = [i \in Inode |-> "dirty"]

Exists(n) == cached[n] # NoInode

----------------------------------------------------------------------------
(* Calls of a process.                                                     *)

\* create_new(true): fails when the name exists.
CreateNew(n, i) ==
    /\ ~ Exists(n)
    /\ cached' = [cached EXCEPT ![n] = i]
    /\ UNCHANGED <<disk, content, pages>>

\* A write that may still be followed by others, and the last one.
WriteSome(i) ==
    /\ content' = [content EXCEPT ![i] = "partial"]
    /\ pages' = [pages EXCEPT ![i] = "dirty"]
    /\ UNCHANGED <<cached, disk>>

WriteRest(i) ==
    /\ content' = [content EXCEPT ![i] = "full"]
    /\ pages' = [pages EXCEPT ![i] = "dirty"]
    /\ UNCHANGED <<cached, disk>>

SyncFile(i) ==
    /\ pages' = [pages EXCEPT ![i] = "clean"]
    /\ UNCHANGED <<cached, disk, content>>

\* A second name for the file; fails when the new name exists.
HardLink(old, new) ==
    /\ Exists(old)
    /\ ~ Exists(new)
    /\ cached' = [cached EXCEPT ![new] = cached[old]]
    /\ UNCHANGED <<disk, content, pages>>

\* The new name leads to the file instead of the old one, in one step.
Rename(old, new) ==
    /\ Exists(old)
    /\ cached' = [cached EXCEPT ![new] = cached[old], ![old] = NoInode]
    /\ UNCHANGED <<disk, content, pages>>

Remove(n) ==
    /\ Exists(n)
    /\ cached' = [cached EXCEPT ![n] = NoInode]
    /\ UNCHANGED <<disk, content, pages>>

\* fsync of the directory: every entry of it is durable.
SyncDirectory ==
    /\ disk' = cached
    /\ UNCHANGED <<cached, content, pages>>

----------------------------------------------------------------------------
(* The operating system and the power supply.                              *)

Writeback(n) ==
    /\ disk[n] # cached[n]
    /\ disk' = [disk EXCEPT ![n] = cached[n]]
    /\ UNCHANGED <<cached, content, pages>>

\* What may be left of a file whose last writes were not synchronized.
Remains(c) == CASE c = "none" -> {"none"}
                [] c = "partial" -> {"none", "partial"}
                [] c = "full" -> {"none", "partial", "full"}

PowerLoss ==
    /\ cached' = disk
    /\ content' \in [Inode -> Content]
    /\ \A i \in Inode : content'[i] \in IF pages[i] = "clean" THEN {content[i]} ELSE Remains(content[i])
    /\ pages' = [i \in Inode |-> "clean"]
    /\ UNCHANGED disk
============================================================================

------------------------------ MODULE Material ------------------------------
(***************************************************************************)
(* open_material and read_bounded: how every key, seed, policy and         *)
(* inventory file is read.  The path may lead to anything; it may be       *)
(* renamed over, and the file may be written, cut or given other           *)
(* permissions, while the program opens, inspects and reads it.            *)
(*                                                                         *)
(* Its names differ from those of Codec: ReadingProofs is about both.      *)
(***************************************************************************)
EXTENDS Naturals

CONSTANTS
    Inode,    \* the files that are, or come to be, at the path
    NoInode,
    Maximum,  \* the size of the material, or the limit of a text file
    MaxLen    \* bound: the bytes that are in a file and not yet read

ASSUME InodeAssumption == NoInode \notin Inode
ASSUME BoundAssumption == {Maximum, MaxLen} \subseteq Nat

VARIABLES
    request,  \* what the caller asks for
    kind,     \* what each inode is
    private,  \* the inodes that are the user's and closed to all others
    left,     \* the bytes of each inode that have not been read
    path,
    call,
    fd,       \* the file that is open
    used,     \* the number of bytes read
    ended,    \* history: the last read found the end of the file
    vetted,   \* history: the inodes that were regular files, and private if the
              \* material is secret, when they were inspected
    outcome

fileVars == <<kind, private, left, path>>
materialVars == <<request, kind, private, left, path, call, fd, used, ended, vetted, outcome>>

\* read_exact_sized, read_exact_sized_secret; read_signer_policy and
\* read_inventory take any length up to the limit.
Request == {[secret |-> FALSE, exact |-> TRUE], [secret |-> TRUE, exact |-> TRUE],
            [secret |-> FALSE, exact |-> FALSE]}

Kinds == {"file", "symlink", "fifo", "other"}

MaterialTypeOK ==
    /\ request \in Request
    /\ kind \in [Inode -> Kinds]
    /\ private \subseteq Inode
    /\ left \in [Inode -> 0..MaxLen]
    /\ path \in Inode \cup {NoInode}
    /\ call \in {"open", "inspect", "read", "end"}
    /\ fd \in Inode \cup {NoInode}
    /\ used \in 0..Maximum + 1
    /\ ended \in BOOLEAN
    /\ vetted \subseteq Inode
    /\ outcome \in {"none", "ok", "refused", "failed"}

MaterialInit ==
    /\ request \in Request
    /\ kind \in [Inode -> Kinds]
    /\ private \in SUBSET Inode
    /\ left \in [Inode -> 0..MaxLen]
    /\ path \in Inode \cup {NoInode}
    /\ call = "open"
    /\ fd = NoInode
    /\ used = 0
    /\ ended = FALSE
    /\ vetted = {}
    /\ outcome = "none"

----------------------------------------------------------------------------
Finish(from, result) == call = from /\ call' = "end" /\ outcome' = result

\* O_NONBLOCK: the call returns whatever the path leads to; in a variant it
\* waits for somebody to write to a FIFO.
Blocking(i) == kind[i] # "fifo"
Returns(i) == TRUE

\* O_NOFOLLOW: a symbolic link is not opened.
CanOpen == path \in Inode /\ kind[path] # "symlink"

Open ==
    /\ call = "open" /\ CanOpen /\ Returns(path)
    /\ call' = "inspect"
    /\ fd' = path
    /\ UNCHANGED <<request, fileVars, used, ended, vetted, outcome>>

OpenRefused ==
    /\ Finish("open", "refused")
    /\ ~ CanOpen
    /\ UNCHANGED <<request, fileVars, fd, used, ended, vetted>>

\* The file that is inspected is the one that is open, not the one at the path.
Opened == fd

\* validate_secret_permissions
Acceptable(i) == i \in Inode /\ kind[i] = "file" /\ (request.secret => i \in private)

Inspect ==
    /\ \/ /\ Acceptable(Opened)
          /\ call = "inspect" /\ call' = "read"
          /\ vetted' = vetted \cup {Opened}
          /\ UNCHANGED outcome
       \/ /\ ~ Acceptable(Opened)
          /\ Finish("inspect", "refused")
          /\ UNCHANGED vetted
    /\ UNCHANGED <<request, fileVars, fd, used, ended>>

\* One byte more than the maximum, so that a longer file is noticed; a variant
\* stops at the maximum.
JustEnough == Maximum
Limit == Maximum + 1

\* A read returns any number of the bytes that are there, and none only at the
\* end of the file as it is now.  An interrupted read changes nothing.
ReadSome ==
    /\ call = "read" /\ used < Limit
    /\ \E n \in 1..left[fd] :
          /\ used + n <= Limit
          /\ used' = used + n
          /\ left' = [left EXCEPT ![fd] = @ - n]
    /\ UNCHANGED <<request, kind, private, path, call, fd, ended, vetted, outcome>>

\* A longer file is refused, and one of another size where the size is fixed.
Complete == used <= Maximum /\ (request.exact => used = Maximum)

Stop ==
    /\ Finish("read", IF Complete THEN "ok" ELSE "refused")
    /\ used >= Limit \/ left[fd] = 0
    /\ ended' = (left[fd] = 0)
    /\ UNCHANGED <<request, fileVars, fd, used, vetted>>

CallFails ==
    /\ call # "end"
    /\ Finish(call, "failed")
    /\ UNCHANGED <<request, fileVars, fd, used, ended, vetted>>

Read == Open \/ OpenRefused \/ Inspect \/ ReadSome \/ Stop

----------------------------------------------------------------------------
(* Other programs, as often as they like.                                  *)

MovesPath == \E i \in Inode \cup {NoInode} : path' = i /\ UNCHANGED <<private, left>>

ChangesMode ==
    \E s \in SUBSET Inode : private' = s /\ UNCHANGED <<path, left>>

Rewrites ==
    /\ \E i \in Inode, n \in 0..MaxLen : left' = [left EXCEPT ![i] = n]
    /\ UNCHANGED <<path, private>>

Others ==
    /\ call # "end"
    /\ MovesPath \/ ChangesMode \/ Rewrites
    /\ UNCHANGED <<request, kind, call, fd, used, ended, vetted, outcome>>

MaterialNext == Read \/ CallFails \/ Others

\* The program runs; no call has to fail.
MaterialSpec == MaterialInit /\ [][MaterialNext]_materialVars /\ WF_materialVars(Read)

----------------------------------------------------------------------------
(* Properties.                                                             *)

\* What is accepted went to the end of its file: a key with something after it,
\* or a text longer than its limit, is never taken for its beginning, however
\* the file grows (read_bounded asks for one byte too many).
WholeFile == outcome = "ok" => ended

\* "descriptor validation" (open_material): the bytes come from the very file
\* that was found to be regular, and private if it is a secret, whatever is
\* renamed to the path meanwhile.
ReadFromVetted == used > 0 => fd \in vetted

\* The variables keep their types, no more is read than the bound allows, and
\* what is accepted is all of the file that was inspected (read_bounded).
MaterialInv == MaterialTypeOK /\ WholeFile /\ ReadFromVetted

\* The program gets through a FIFO nobody writes to and a file somebody never
\* stops writing to.
Terminates == <>(call = "end")
============================================================================

------------------------------- MODULE FileStore -------------------------------
(***************************************************************************)
(* What the calls of FatFS promise, without clusters, sectors and buffers: *)
(* a tree of named files and directories, and files open at a position.    *)
(* A call that fails changes nothing, except that a disk may fill up in    *)
(* the middle of a write or of a seek that enlarges a file.                *)
(***************************************************************************)
EXTENDS Integers, Sequences, FiniteSets

CONSTANTS Handles, Sizes       \* the file objects; the lengths of files

VARIABLES tree,   \* what every path holds: a node
          pos     \* what every file object has open

None      == [kind |-> "none", data |-> <<>>]
Directory == [kind |-> "dir", data |-> <<>>]
File(d)   == [kind |-> "file", data |-> d]

NotOpen == [open |-> FALSE]
At(p, i, w) == [open |-> TRUE, path |-> p, at |-> i, write |-> w]

Within(q, p) == Len(q) >= Len(p) /\ SubSeq(q, 1, Len(p)) = p

Parent(p) == SubSeq(p, 1, Len(p) - 1)
Lives(p)  == Parent(p) = <<>> \/ tree[Parent(p)].kind = "dir"

Users(p) == {h \in Handles : pos[h].open /\ pos[h].path = p}

Init == /\ \A p \in DOMAIN tree : tree[p] = None
        /\ pos = [h \in Handles |-> NotOpen]

\* A file is opened for writing by nobody else, emptied or made if need be.
Open(h, p, w) ==
  /\ ~pos[h].open /\ Lives(p) /\ tree[p].kind # "dir"
  /\ \A g \in Users(p) : ~w /\ ~pos[g].write
  /\ \/ tree[p].kind = "file" /\ UNCHANGED tree
     \/ tree' = [tree EXCEPT ![p] = File(<<>>)] /\ Users(p) = {}
  /\ \E i \in {0, Len(tree'[p].data)} : pos' = [pos EXCEPT ![h] = At(p, i, w)]

Close(h) == pos[h].open /\ pos' = [pos EXCEPT ![h] = NotOpen] /\ UNCHANGED tree

\* The position moves over what is read.
Read(h) ==
  /\ pos[h].open
  /\ \E i \in pos[h].at .. Len(tree[pos[h].path].data) : pos' = [pos EXCEPT ![h].at = i]
  /\ UNCHANGED tree

\* n equal bytes from the position on.
Overwritten(d, at, n, b) ==
  [i \in 1 .. (IF Len(d) > at + n THEN Len(d) ELSE at + n) |->
     IF i \in at + 1 .. at + n THEN b ELSE d[i]]

Write(h, n, b) ==
  LET p == pos[h].path IN
  /\ pos[h].open /\ pos[h].write
  /\ tree' = [tree EXCEPT ![p] = File(Overwritten(@.data, pos[h].at, n, b))]
  /\ pos' = [pos EXCEPT ![h].at = @ + n]

\* A seek inside the file; behind its end a file open for writing grows,
\* by bytes that may be anything.
Seek(h, i) ==
  LET p == pos[h].path IN
  /\ pos[h].open
  /\ pos' = [pos EXCEPT ![h].at = i]
  /\ IF i <= Len(tree[p].data) THEN UNCHANGED tree
     ELSE /\ pos[h].write
          /\ tree' = [tree EXCEPT ![p] = File(tree'[p].data)]
          /\ Len(tree'[p].data) = i
          /\ SubSeq(tree'[p].data, 1, Len(tree[p].data)) = tree[p].data

Truncate(h) ==
  LET p == pos[h].path IN
  /\ pos[h].open /\ pos[h].write
  /\ tree' = [tree EXCEPT ![p] = File(SubSeq(@.data, 1, pos[h].at))]
  /\ UNCHANGED pos

\* A file nobody has open, or an empty directory, is removed.
Unlink(p) ==
  /\ tree[p].kind # "none" /\ Users(p) = {}
  /\ \A q \in DOMAIN tree : Parent(q) = p /\ q # p => tree[q] = None
  /\ tree' = [tree EXCEPT ![p] = None]
  /\ UNCHANGED pos

Mkdir(p) ==
  /\ tree[p] = None /\ Lives(p)
  /\ tree' = [tree EXCEPT ![p] = Directory]
  /\ UNCHANGED pos

\* What moves to r when p moves to q.
Source(p, q, r) ==
  LET s == p \o SubSeq(r, Len(q) + 1, Len(r)) IN IF s \in DOMAIN tree THEN tree[s] ELSE None

\* What is at p, with all below it, moves to q.
Rename(p, q) ==
  /\ tree[p].kind # "none" /\ tree[q] = None /\ Lives(q) /\ ~Within(q, p)
  /\ \A h \in Handles : pos[h].open => ~Within(pos[h].path, p)
  /\ tree' = [r \in DOMAIN tree |->
                IF Within(r, q) THEN Source(p, q, r)
                ELSE IF Within(r, p) THEN None ELSE tree[r]]
  /\ UNCHANGED pos

Next ==
  \/ \E h \in Handles :
       \/ \E p \in DOMAIN tree, w \in BOOLEAN : Open(h, p, w)
       \/ Close(h) \/ Read(h) \/ Truncate(h)
       \/ \E n \in Sizes, b \in {1, 2} : Write(h, n, b)
       \/ \E i \in Sizes : Seek(h, i)
  \/ \E p \in DOMAIN tree : Unlink(p) \/ Mkdir(p) \/ \E q \in DOMAIN tree : Rename(p, q)

Spec == Init /\ [][Next]_<<tree, pos>>
=============================================================================

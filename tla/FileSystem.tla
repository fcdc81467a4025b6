----------------------------- MODULE FileSystem -----------------------------
(***************************************************************************)
(* What a ufs file system promises its clients while nothing is unlinked   *)
(* and the process only ends between calls: a tree of named directories    *)
(* and files that creat extends in one durable step, files that grow in    *)
(* memory until the next successful call makes all of them durable, and a  *)
(* restart that goes back to what was durable.  A call that fails leaves   *)
(* the tree as it was, except that a write may have appended a part of     *)
(* its data.                                                               *)
(***************************************************************************)
EXTENDS Integers, Sequences

CONSTANTS
  Nodes,      \* identities of directories and files
  Root,       \* one of Nodes
  FileNames,
  MaxLength   \* the length no file can exceed

VARIABLES
  tree,     \* what the calls see
  saved,    \* what a restart will find
  writing,  \* the file a running write appends to, and what it has left to append
  ok        \* the last call was to change something, and it reported success

fsvars == <<tree, saved, writing, ok>>

\* A tree is its links <<directory, name, node>>, and the contents of its files.
Linked(t)      == {l[3] : l \in t.links}
Directories(t) == {Root} \cup (Linked(t) \ DOMAIN t.files)
Taken(t, d, n) == \E l \in t.links : l[1] = d /\ l[2] = n

EmptyTree == [links |-> {}, files |-> <<>>]
NoWrite   == [file |-> Root, left |-> 0]

\* The data of a client: every offset of every file has its own.
Datum(f, k) == <<f, k>>

Init == /\ tree = EmptyTree /\ saved = EmptyTree
        /\ writing = NoWrite /\ ok = FALSE

WithDir(t, d, n, c)  == [t EXCEPT !.links = @ \cup {<<d, n, c>>}]
WithFile(t, d, n, c) ==
  [links |-> t.links \cup {<<d, n, c>>},
   files |-> [f \in DOMAIN t.files \cup {c} |-> IF f = c THEN <<>> ELSE t.files[f]]]

\* creat: the new node is linked and durable at once, with all that was not yet.
Create ==
  /\ ~ok' /\ writing = NoWrite /\ UNCHANGED writing
  /\ tree' # tree /\ saved' = tree'
  /\ \E l \in tree'.links \ tree.links :
       /\ l[1] \in Directories(tree) /\ l[2] \in FileNames
       /\ ~Taken(tree, l[1], l[2])
       /\ l[3] \in Nodes \ ({Root} \cup Linked(tree))
       /\ tree' \in {WithDir(tree, l[1], l[2], l[3]), WithFile(tree, l[1], l[2], l[3])}

BeginWrite ==
  /\ ~ok' /\ writing = NoWrite /\ writing' # NoWrite
  /\ writing'.file \in DOMAIN tree.files
  /\ UNCHANGED <<tree, saved>>

\* A part of the data is appended, for the calls to see.
Append1(t, f, n) ==
  [t EXCEPT !.files[f] = @ \o [k \in 1 .. n |-> Datum(f, Len(t.files[f]) + k - 1)]]

AppendPart ==
  /\ writing # NoWrite /\ ~ok' /\ UNCHANGED saved
  /\ \E n \in 1 .. writing.left :
       /\ writing' = [writing EXCEPT !.left = @ - n]
       /\ Len(tree.files[writing.file]) + n <= MaxLength
       /\ tree' = Append1(tree, writing.file, n)

\* Ends short of space; what was appended is visible and not durable.
WriteGivesUp ==
  /\ ~ok' /\ writing # NoWrite /\ writing' = NoWrite /\ writing.left > 0
  /\ UNCHANGED <<tree, saved>>

\* A write, or a creat nobody can see, makes the tree durable.  A write does so
\* when it has appended everything, or as much as a file can hold.
Save ==
  /\ ~ok' /\ writing' = NoWrite
  /\ writing.left > 0 => Len(tree.files[writing.file]) = MaxLength
  /\ saved' = tree /\ UNCHANGED tree

\* Success is reported of a tree that is durable.
Succeed ==
  /\ ok' /\ writing = NoWrite /\ saved = tree
  /\ UNCHANGED <<tree, saved, writing>>

\* Any other answer.
Answer ==
  /\ ~ok' /\ writing = NoWrite
  /\ UNCHANGED <<tree, saved, writing>>

Restart ==
  /\ ~ok' /\ writing = NoWrite /\ UNCHANGED <<writing, saved>>
  /\ tree' = saved

Next == Answer \/ Succeed \/ BeginWrite \/ WriteGivesUp \/ Save \/ AppendPart
          \/ Restart \/ Create

Spec == Init /\ [][Next]_fsvars
=============================================================================

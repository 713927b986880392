------------------------------- MODULE HTree --------------------------------
(***************************************************************************)
(* The tree of the files that the FAT daemon knows (hierarchy_tree.c under *)
(* fat_fs_tree.c): a binary search tree on the paths whose nodes are also  *)
(* linked as the directory hierarchy, each to its parent, its first child  *)
(* and its next sibling.  A node is its path: the code moves nodes in the  *)
(* tree and never data between nodes.  Paths are numbers in the order of   *)
(* strcmp(): a directory comes before what it holds.  The root directory   *)
(* is path 1, which mounting inserts.                                      *)
(***************************************************************************)
EXTENDS Naturals, FiniteSets

CONSTANT Paths          \* number of paths

NULL == 0
ROOT == 1
Path == 1..Paths

VARIABLES t,            \* the tree: root, and by node left, right, size, h_parent, h_next_sibling, h_children
          files,        \* what the callers have inserted and not deleted: history
          broken        \* data has been destroyed twice: free() of freed memory

hvars == <<t, files, broken>>

Null == [n \in Path |-> NULL]
Size(tr, n) == IF n = NULL THEN 0 ELSE tr.size[n]
update_size(tr, n) == [tr EXCEPT !.size[n] = 1 + Size(tr, tr.left[n]) + Size(tr, tr.right[n])]

\* h_node_init(): a leaf, the new head of the children of its parent.
h_node_init(tr, n, parent) ==
    LET tr1 == [tr EXCEPT !.left[n] = NULL, !.right[n] = NULL, !.size[n] = 1, !.h_children[n] = NULL,
                          !.h_parent[n] = parent,
                          !.h_next_sibling[n] = IF parent = NULL THEN NULL ELSE tr.h_children[parent]]
    IN  IF parent = NULL THEN tr1 ELSE [tr1 EXCEPT !.h_children[parent] = n]

---------------------------------------------------------------------------
(* The recursive functions return the tree and the root of the subtree.    *)

RECURSIVE h_tree_search(_, _, _)
h_tree_search(tr, r, key) ==
    IF r = NULL THEN NULL
    ELSE IF r < key THEN h_tree_search(tr, tr.right[r], key)
    ELSE IF r > key THEN h_tree_search(tr, tr.left[r], key)
    ELSE r

\* A path that is there already stays as it is.
RECURSIVE h_tree_insert(_, _, _, _)
insertSub(x, r, right) ==
    [t |-> update_size(IF right THEN [x.t EXCEPT !.right[r] = x.r] ELSE [x.t EXCEPT !.left[r] = x.r], r), r |-> r]
h_tree_insert(tr, r, n, parent) ==
    IF r = NULL THEN [t |-> h_node_init(tr, n, parent), r |-> n]
    ELSE IF n > r THEN insertSub(h_tree_insert(tr, tr.right[r], n, parent), r, TRUE)
    ELSE IF n < r THEN insertSub(h_tree_insert(tr, tr.left[r], n, parent), r, FALSE)
    ELSE [t |-> update_size(tr, r), r |-> r]

\* remove_child_from_h(): the node leaves the list of its parent's children.
RECURSIVE before(_, _, _)
before(tr, c, n) == IF tr.h_next_sibling[c] \in {n, NULL} THEN c ELSE before(tr, tr.h_next_sibling[c], n)
\* A bug: the first child of the list is not told apart.
removeNotFirst(tr, n) ==
    LET p == tr.h_parent[n] IN
    IF p = NULL THEN tr ELSE [tr EXCEPT !.h_next_sibling[before(tr, tr.h_children[p], n)] = tr.h_next_sibling[n]]
remove_child_from_h(tr, n) ==
    LET p == tr.h_parent[n]
        first == tr.h_children[p]
    IN  IF p = NULL THEN tr
        ELSE IF first = NULL THEN tr
        ELSE IF first = n THEN [tr EXCEPT !.h_children[p] = tr.h_next_sibling[n]]
        ELSE [tr EXCEPT !.h_next_sibling[before(tr, first, n)] = tr.h_next_sibling[n]]

swap_nodes(tr, old, new) ==
    update_size(update_size(
        [tr EXCEPT !.left[old] = tr.left[new], !.right[old] = tr.right[new],
                   !.left[new] = tr.left[old], !.right[new] = tr.right[old]], new), old)

\* The way down to the minimum of the right subtree: one node less in each on
\* the way.  minimum_parent is set after minimum, to the same node.
RECURSIVE descend(_, _, _)
descend(tr, minimum, parent) ==
    LET next == tr.left[minimum] IN
    IF next = NULL THEN [t |-> tr, min |-> minimum, parent |-> parent]
    ELSE descend([tr EXCEPT !.size[next] = @ - 1], next, next)

\* delete_root() destroys the data first; gone counts how often.  In the last case it calls itself
\* on the same node, and the data is destroyed again.
RECURSIVE delete_root(_, _, _)
attach(x, d) == [t |-> [d.t EXCEPT !.left[x.parent] = d.r], r |-> x.min, gone |-> d.gone]
deleteSwapped(x, root, gone) == attach(x, delete_root(swap_nodes(x.t, root, x.min), root, gone))
delete_root(tr, root, gone0) ==
    LET gone == gone0 + 1
        l == tr.left[root]
        r == tr.right[root]
    IN  IF l = NULL THEN [t |-> tr, r |-> r, gone |-> gone]
        ELSE IF r = NULL THEN [t |-> tr, r |-> l, gone |-> gone]
        ELSE IF tr.left[r] = NULL
        THEN [t |-> update_size([tr EXCEPT !.left[r] = l], r), r |-> r, gone |-> gone]
        ELSE deleteSwapped(descend([tr EXCEPT !.size[r] = @ - 1], tr.left[r], r), root, gone)

RECURSIVE h_tree_delete(_, _, _)
deleteSub(x, r, right) ==
    [t |-> update_size(IF right THEN [x.t EXCEPT !.right[r] = x.r] ELSE [x.t EXCEPT !.left[r] = x.r], r),
     r |-> r, gone |-> x.gone]
h_tree_delete(tr, r, key) ==
    IF r = NULL THEN [t |-> tr, r |-> r, gone |-> 0]
    ELSE IF r = key THEN delete_root(remove_child_from_h(tr, r), r, 0)
    ELSE IF r < key THEN deleteSub(h_tree_delete(tr, tr.right[r], key), r, TRUE)
    ELSE deleteSub(h_tree_delete(tr, tr.left[r], key), r, FALSE)

---------------------------------------------------------------------------
(* fat_fs_tree.c, and how fat_fuse_ops.c uses it.                          *)

HTreeInit ==
    /\ t = [h_node_init([root |-> NULL, left |-> Null, right |-> Null, size |-> Null, h_parent |-> Null,
                         h_next_sibling |-> Null, h_children |-> Null], ROOT, NULL) EXCEPT !.root = ROOT]
    /\ files = {ROOT} /\ broken = FALSE

\* mknod, mkdir and reading a directory: a new file in a directory.  A
\* directory that is listed again inserts what is there already.
fat_tree_insert(parent, n) ==
    LET p == h_tree_search(t, t.root, parent)
        x == h_tree_insert(t, t.root, n, p)
    IN  /\ ~broken /\ p # NULL /\ n > parent
        /\ n \in files => t.h_parent[n] = parent
        /\ t' = [x.t EXCEPT !.root = x.r]
        /\ files' = files \cup {n}
        /\ UNCHANGED broken

\* free(root): nothing is left of the node.
Forget(tr, n) ==
    [tr EXCEPT !.left[n] = NULL, !.right[n] = NULL, !.size[n] = 0, !.h_parent[n] = NULL,
               !.h_next_sibling[n] = NULL, !.h_children[n] = NULL]

\* unlink and rmdir: a file, or a directory that holds nothing.
fat_tree_delete(n) ==
    LET x == h_tree_delete(t, t.root, n) IN
    /\ ~broken /\ n # ROOT
    /\ LET node == h_tree_search(t, t.root, n) IN node # NULL /\ t.h_children[node] = NULL
    /\ t' = [Forget(x.t, n) EXCEPT !.root = x.r]
    /\ files' = files \ {n}
    /\ broken' = (x.gone > 1)

HTreeNext ==
    \/ \E p, n \in Path : fat_tree_insert(p, n)
    \/ \E n \in Path : fat_tree_delete(n)
    \/ broken /\ UNCHANGED hvars

HTreeSpec == HTreeInit /\ [][HTreeNext]_hvars

---------------------------------------------------------------------------
RECURSIVE Below(_), Children(_)
Below(n) == IF n = NULL THEN {} ELSE {n} \cup Below(t.left[n]) \cup Below(t.right[n])
Children(c) == IF c = NULL THEN {} ELSE {c} \cup Children(t.h_next_sibling[c])

\* The tree holds exactly the files that were inserted and not deleted, each
\* found by a search, with the right sizes (fat_tree_flatten_preorder()
\* places its elements by them), and the list of children of a directory has
\* exactly the files whose parent it is.  This is so until a node is deleted
\* that has two subtrees, of which the right one has a left one: delete_root()
\* then destroys the data of the file twice.
TreeExact ==
    ~broken =>
        /\ Below(t.root) = files
        /\ \A n \in Path : h_tree_search(t, t.root, n) = IF n \in files THEN n ELSE NULL
        /\ \A n \in files : t.size[n] = Cardinality(Below(n))
        /\ \A d \in files : Children(t.h_children[d]) = {n \in files : t.h_parent[n] = d}
        /\ \A n \in files \ {ROOT} : t.h_parent[n] \in files
=============================================================================

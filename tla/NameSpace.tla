----------------------------- MODULE NameSpace -----------------------------
(***************************************************************************)
(* What a user's tree of files promises: a function from paths to what is  *)
(* there, a folder (None) or a content, in which whatever has a path has   *)
(* all the folders above it.  A request changes the tree of one user, in   *)
(* one step, and in one of six ways; nothing else changes under way.       *)
(***************************************************************************)
EXTENDS Integers, SequencesExt

CONSTANTS Users, None

VARIABLE tree   \* tree[u][path]

FoldersAbove(p) == Prefixes(p) \ {<<>>, p}

IsTree(f) ==
    \A p \in DOMAIN f : \A q \in FoldersAbove(p) : q \in DOMAIN f /\ f[q] = None

Below(f, p) == {q \in DOMAIN f : IsPrefix(p, q)}

Without(f, paths) == [q \in DOMAIN f \ paths |-> f[q]]

\* f with a folder at each of these paths that had nothing.
WithFolders(f, paths) == f @@ [q \in paths |-> None]

\* What lies at and below p, at and below q instead.
Image(f, p, q) ==
    [r \in {q \o SubSeq(b, Len(p) + 1, Len(b)) : b \in Below(f, p)} |->
        f[p \o SubSeq(r, Len(q) + 1, Len(r))]]

\* Nothing is a folder in one and a file in the other.
Agree(f, g) == \A p \in DOMAIN f \cap DOMAIN g : f[p] = None <=> g[p] = None

\* A file appears, or replaces the file of that path.
PutFile(f, g) ==
    \E p \in DOMAIN g :
        /\ g[p] # None
        /\ p \in DOMAIN f => f[p] # None
        /\ g = WithFolders((p :> g[p]) @@ f, FoldersAbove(p))

MakeFolder(f, g) ==
    \E p \in DOMAIN g \ DOMAIN f :
        g = WithFolders(f, FoldersAbove(p) \cup {p}) /\ g[p] = None

\* A path disappears, with everything below it.
TakeAway(f, g) == \E p \in DOMAIN f : g = Without(f, Below(f, p))

\* A path comes back, with what is below it, where there was nothing.
Restore(f, g) ==
    \E p \in DOMAIN g \ DOMAIN f : f = Without(g, Below(g, p))

\* Rename and Move: what was at p is at q, merged with the folders there,
\* and no file is replaced.
Relocate(f, g) ==
    \E p \in DOMAIN f, q \in DOMAIN g :
        LET rest  == Without(f, Below(f, p))
            moved == Image(f, p, q)
        IN  /\ ~IsPrefix(p, q)
            /\ \A r \in DOMAIN rest \cap DOMAIN moved : rest[r] = None /\ moved[r] = None
            /\ g = WithFolders(rest @@ moved, FoldersAbove(q))

\* Copy: what is at p is at q as well, over the files that were there.
Duplicate(f, g) ==
    \E p \in DOMAIN f, q \in DOMAIN g :
        LET copy == Image(f, p, q)
        IN  /\ Agree(f, copy)
            /\ g = WithFolders(copy @@ f, FoldersAbove(q))

Init == tree = [u \in 1..Users |-> <<>>]

Step(f, g) ==
    /\ IsTree(g)
    /\ \/ PutFile(f, g)
       \/ MakeFolder(f, g)
       \/ TakeAway(f, g)
       \/ Restore(f, g)
       \/ Relocate(f, g)
       \/ Duplicate(f, g)

Next ==
    \E before \in {tree}, after \in {tree'} : \E u \in 1..Users :
        /\ after = [before EXCEPT ![u] = after[u]]
        /\ Step(before[u], after[u])

Spec == Init /\ [][Next]_tree
=============================================================================

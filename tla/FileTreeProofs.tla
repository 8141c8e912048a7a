--------------------------- MODULE FileTreeProofs ---------------------------
(***************************************************************************)
(* What FileTree guarantees for any users, clients, requests, names,       *)
(* contents and crashes.                                                   *)
(***************************************************************************)
EXTENDS FileTree, TLAPS, WellFoundedInduction, FiniteSetTheorems, SequenceTheorems

CONSTANT FolderName   \* the names of which clients make folders only

-----------------------------------------------------------------------------
(* Folds.                                                                  *)

LEMMA NatHasLeast == ASSUME NEW S \in SUBSET Nat, S # {}
  PROVE \E i \in S : \A j \in S : i <= j
<1> DEFINE Below == {1..i : i \in S}
           R == StrictSubsetOrdering(Nat)
<1>1. Below \subseteq FiniteSubsetsOf(Nat)
  BY FS_Interval DEF FiniteSubsetsOf
<1>2. PICK T \in Below : \A U \in Below : <<U, T>> \notin R
  <2>1. IsWellFoundedOn(R, FiniteSubsetsOf(Nat))
    BY FS_StrictSubsetOrderingWellFounded
  <2>2. Below # {}
    OBVIOUS
  <2> HIDE DEF Below, R
  <2>3. QED BY <1>1, <2>1, <2>2, WFMin
<1>3. PICK i \in S : T = 1..i
  BY <1>2
<1>4. ASSUME NEW j \in S, j < i PROVE FALSE
  <2>1. /\ 1..j \in SUBSET Nat /\ 1..i \in SUBSET Nat
        /\ 1..j \subseteq 1..i /\ 1..j # 1..i
    <3>1. i \in 1..i /\ i \notin 1..j
      BY <1>4
    <3>2. QED BY <1>4, <3>1
  <2>2. <<1..j, 1..i>> \in R
    BY <2>1 DEF StrictSubsetOrdering
  <2>3. 1..j \in Below
    OBVIOUS
  <2> HIDE DEF Below, R
  <2>4. QED BY <1>2, <1>3, <2>2, <2>3
<1>5. QED BY <1>4

LEMMA MaxOfTop == ASSUME NEW n \in Nat, NEW s \in SUBSET (1..n), n \in s
  PROVE Max(s) = n
<1>1. n \in s /\ \A y \in s : n >= y
  OBVIOUS
<1>2. \A x \in s : (\A y \in s : x >= y) => x = n
  OBVIOUS
<1>3. QED BY <1>1, <1>2 DEF Max

\* What the fold of FoldLeft with the function h is on sets of positions.
IsFold(g, h, base, seq, S) ==
    g = [s \in SUBSET S |-> IF s = {} THEN base ELSE h[<<g[s \ {Max(s)}], seq[Max(s)]>>]]

LEMMA MaxIn == ASSUME NEW n \in Nat, NEW s \in SUBSET (1..n), s # {}
  PROVE Max(s) \in s /\ \A y \in s : Max(s) >= y
<1> DEFINE B == {n - x : x \in s}
<1>1. B \in SUBSET Nat
  OBVIOUS
<1>0. PICK z \in s : TRUE
  OBVIOUS
<1>2. PICK i \in B : \A j \in B : i <= j
  <2>1. n - z \in B
    BY <1>0
  <2> HIDE DEF B
  <2>2. QED BY <1>1, <2>1, NatHasLeast
<1>3. n - i \in s /\ \A y \in s : n - i >= y
  <2>1. PICK x \in s : i = n - x
    BY <1>2
  <2>2. ASSUME NEW y \in s PROVE x >= y
    <3>1. n - y \in B
      OBVIOUS
    <3>2. i <= n - y
      BY <1>2, <3>1
    <3>3. x \in Nat /\ y \in Nat /\ n - x <= n - y
      BY <2>1, <3>2
    <3>4. QED BY <3>3
  <2>3. n - i = x
    BY <2>1
  <2>4. QED BY <2>1, <2>2, <2>3
<1>4. QED BY <1>3 DEF Max

\* The fold exists, one position after the other.
LEMMA FoldExists == ASSUME NEW h, NEW base, NEW seq, NEW n \in Nat
  PROVE \E g : IsFold(g, h, base, seq, 1..n)
<1> DEFINE Bad == {k \in Nat : ~ \E g : IsFold(g, h, base, seq, 1..k)}
<1> SUFFICES ASSUME Bad # {} PROVE FALSE
  OBVIOUS
<1>1. PICK k \in Bad : \A j \in Bad : k <= j
  BY NatHasLeast
<1>2. k # 0
  <2> SUFFICES ASSUME k = 0 PROVE FALSE
    OBVIOUS
  <2> DEFINE g == [s \in SUBSET (1..0) |-> base]
  <2>1. \A s \in SUBSET (1..0) : s = {}
    OBVIOUS
  <2>2. IsFold(g, h, base, seq, 1..0)
    BY <2>1 DEF IsFold
  <2> HIDE DEF g
  <2>3. QED BY <2>2
<1>3. PICK f : IsFold(f, h, base, seq, 1..(k - 1))
  BY <1>1, <1>2
<1> DEFINE D == SUBSET (1..k)
           g == [s \in D |-> IF k \in s THEN h[<<f[s \ {k}], seq[k]>>] ELSE f[s]]
           body(s) == IF s = {} THEN base ELSE h[<<g[s \ {Max(s)}], seq[Max(s)]>>]
<1>4. \A s \in D : k \notin s => s \in SUBSET (1..(k - 1)) /\ g[s] = f[s]
  OBVIOUS
<1>5. ASSUME NEW s \in D PROVE g[s] = body(s)
  <2>1. CASE k \in s
    <3>1. Max(s) = k /\ s # {}
      BY <2>1, MaxOfTop
    <3>2. s \ {k} \in D /\ k \notin s \ {k}
      OBVIOUS
    <3>3. g[s \ {k}] = f[s \ {k}]
      BY <1>4, <3>2
    <3>4. g[s] = h[<<f[s \ {k}], seq[k]>>]
      BY <2>1
    <3> HIDE DEF g
    <3>5. QED BY <3>1, <3>3, <3>4
  <2>2. CASE k \notin s
    <3>1. s \in SUBSET (1..(k - 1)) /\ g[s] = f[s]
      BY <1>4, <2>2
    <3>2. f[s] = IF s = {} THEN base ELSE h[<<f[s \ {Max(s)}], seq[Max(s)]>>]
      BY <1>3, <3>1 DEF IsFold
    <3>3. g[s \ {Max(s)}] = f[s \ {Max(s)}]
      BY <1>4, <2>2
    <3> HIDE DEF g
    <3>4. QED BY <3>1, <3>2, <3>3
  <2>3. QED BY <2>1, <2>2
<1>6. g = [s \in D |-> body(s)]
  <2>1. g = [s \in D |-> g[s]]
    OBVIOUS
  <2> HIDE DEF g
  <2>2. QED BY <1>5, <2>1
<1>7. IsFold(g, h, base, seq, 1..k)
  BY <1>6 DEF IsFold
<1> HIDE DEF g
<1>8. QED BY <1>1, <1>7

\* What the last position keeps, all sets of positions keep.
LEMMA SubsetsStay ==
  ASSUME NEW D, NEW n \in Nat, NEW g, g[{}] \in D,
         \A s \in SUBSET (1..n) : (s # {} /\ g[s \ {Max(s)}] \in D) => g[s] \in D
  PROVE  \A s \in SUBSET (1..n) : g[s] \in D
<1> DEFINE Bad == {k \in 0..n : \E s \in SUBSET (1..k) : g[s] \notin D}
<1> SUFFICES ASSUME Bad # {} PROVE FALSE
  OBVIOUS
<1>1. PICK k \in Bad : \A j \in Bad : k <= j
  <2>1. Bad \in SUBSET Nat
    OBVIOUS
  <2> HIDE DEF Bad
  <2>2. QED BY <2>1, NatHasLeast
<1>2. PICK s \in SUBSET (1..k) : g[s] \notin D
  BY <1>1
<1>3. s # {}
  BY <1>2
<1>4. k \in Nat /\ k <= n
  BY <1>1
<1>5. Max(s) \in s /\ \A y \in s : Max(s) >= y
  BY <1>3, <1>4, MaxIn
<1> DEFINE j == Max(s) - 1
<1>6. /\ j \in 0..n /\ j < k
      /\ s \ {Max(s)} \in SUBSET (1..j)
  <2>1. Max(s) \in 1..k
    BY <1>5
  <2>2. \A y \in s : y \in 1..k /\ Max(s) >= y
    BY <1>5
  <2> HIDE DEF j
  <2>3. Max(s) = j + 1 /\ j \in Int
    BY <2>1 DEF j
  <2>4. QED BY <1>4, <2>1, <2>2, <2>3
<1>7. g[s \ {Max(s)}] \in D
  <2>1. j \notin Bad
    <3> HIDE DEF Bad, j
    <3>1. QED BY <1>1, <1>4, <1>6
  <2> HIDE DEF j
  <2>2. QED BY <2>1, <1>6
<1>8. QED BY <1>2, <1>3, <1>4, <1>7

\* The fold of a function, on the positions of a sequence.
FoldsIn(g, h, base, seq, D, E) ==
    /\ IsFold(g, h, base, seq, DOMAIN seq)
    /\ \A s \in SUBSET DOMAIN seq :
          s # {} => <<g[s \ {Max(s)}], seq[Max(s)]>> \in D \X E

LEMMA FoldIn ==
  ASSUME NEW D, NEW E, NEW h \in [D \X E -> D], NEW base \in D, NEW seq \in Seq(E)
  PROVE  \E g : FoldsIn(g, h, base, seq, D, E)
<1> DEFINE n == Len(seq)
<1>1. n \in Nat /\ DOMAIN seq = 1..n
  OBVIOUS
<1>2. PICK g : IsFold(g, h, base, seq, 1..n)
  BY <1>1, FoldExists
<1>3. \A s \in SUBSET (1..n) :
         g[s] = IF s = {} THEN base ELSE h[<<g[s \ {Max(s)}], seq[Max(s)]>>]
  BY <1>2 DEF IsFold
<1>4. \A s \in SUBSET (1..n) : s # {} => Max(s) \in s /\ seq[Max(s)] \in E
  <2>1. \A k \in 1..n : seq[k] \in E
    OBVIOUS
  <2> HIDE DEF n
  <2>2. QED BY <1>1, <2>1, MaxIn
<1> HIDE DEF n
<1>5. g[{}] = base
  BY <1>3
<1>6. \A s \in SUBSET (1..n) : (s # {} /\ g[s \ {Max(s)}] \in D) => g[s] \in D
  BY <1>3, <1>4
<1>7. \A s \in SUBSET (1..n) : g[s] \in D
  BY <1>1, <1>5, <1>6, SubsetsStay
<1>8. QED BY <1>1, <1>2, <1>4, <1>7 DEF FoldsIn

\* The same on the positions of a sequence.
Stays(D, E, seq, f) ==
    /\ f[{}] \in D
    /\ \A s \in SUBSET DOMAIN seq :
          (s # {} /\ f[s \ {Max(s)}] \in D /\ seq[Max(s)] \in E) => f[s] \in D

LEMMA PositionsStay ==
  ASSUME NEW D, NEW E, NEW seq \in Seq(E), NEW f, Stays(D, E, seq, f)
  PROVE  \A s \in SUBSET DOMAIN seq : f[s] \in D
<1> DEFINE n == Len(seq)
<1>1. n \in Nat /\ DOMAIN seq = 1..n /\ \A k \in 1..n : seq[k] \in E
  OBVIOUS
<1> HIDE DEF n
<1>2. \A s \in SUBSET (1..n) : s # {} => seq[Max(s)] \in E
  BY <1>1, MaxIn
<1>3. QED BY <1>1, <1>2, SubsetsStay DEF Stays

\* What looking up the names in E, one in the other, keeps.
Leads(D, E, db, u) ==
    /\ SelectByParentIdAndName(db, u, 0, None) \in D /\ 0 \in D
    /\ \A id \in D, n \in E : SelectByParentIdAndName(db, u, id, n) \in D

LedTo(D, db, u, path) ==
    /\ SelectIdByPath(db, u, path) \in D
    /\ (path # <<>> /\ SelectIdByPath(db, u, path) # 0) =>
          \E id \in D \ {0} : SelectIdByPath(db, u, path)
                             = SelectByParentIdAndName(db, u, id, Last(path))

LEMMA PathStays ==
  ASSUME NEW D, NEW E, NEW db, NEW u, NEW path \in Seq(E), Leads(D, E, db, u)
  PROVE  LedTo(D, db, u, path)
<1> DEFINE root == SelectByParentIdAndName(db, u, 0, None)
           op(id, n) == IF id = 0 THEN 0 ELSE SelectByParentIdAndName(db, u, id, n)
           h == [x \in D \X E |-> op(x[1], x[2])]
           Fold(g) == g = [s \in SUBSET DOMAIN path |->
                              IF s = {} THEN root ELSE op(g[s \ {Max(s)}], path[Max(s)])]
           f == CHOOSE g : Fold(g)
<1>1. h \in [D \X E -> D]
  BY DEF Leads
<1>2. PICK g : FoldsIn(g, h, root, path, D, E)
  <2>1. root \in D
    BY DEF Leads
  <2> HIDE DEF h, root
  <2>2. QED BY <1>1, <2>1, FoldIn
<1>3. \A s \in SUBSET DOMAIN path : s # {} =>
         h[<<g[s \ {Max(s)}], path[Max(s)]>>] = op(g[s \ {Max(s)}], path[Max(s)])
  BY <1>2 DEF FoldsIn
<1>4. Fold(g)
  <2> HIDE DEF op, h
  <2>1. QED BY <1>2, <1>3 DEF IsFold, FoldsIn
<1>5. Fold(f)
  <2> HIDE DEF Fold
  <2>1. QED BY <1>4
<1>6. SelectIdByPath(db, u, path) = f[DOMAIN path]
  BY DEF SelectIdByPath, FoldLeft, MapThenFoldSet
<1>7. \A s \in SUBSET DOMAIN path :
         f[s] = IF s = {} THEN root ELSE op(f[s \ {Max(s)}], path[Max(s)])
  <2> HIDE DEF op, root, f
  <2>1. QED BY <1>5
<1>8. root \in D /\ 0 \in D /\ \A id \in D, m \in E : op(id, m) \in D
  BY DEF Leads
<1>9. \A s \in SUBSET DOMAIN path : f[s] \in D
  <2> HIDE DEF op, root, f
  <2>1. Stays(D, E, path, f)
    BY <1>7, <1>8 DEF Stays
  <2>2. QED BY <2>1, PositionsStay
<1>10. SelectIdByPath(db, u, path) \in D
  BY <1>6, <1>9
<1>11. ASSUME path # <<>>, SelectIdByPath(db, u, path) # 0
       PROVE  \E id \in D \ {0} : SelectIdByPath(db, u, path)
                                    = SelectByParentIdAndName(db, u, id, Last(path))
  <2> DEFINE n == Len(path)
  <2>1. DOMAIN path \in SUBSET (1..n) /\ n \in DOMAIN path /\ n \in Nat
    BY <1>11
  <2>2. Max(DOMAIN path) = n
    <3> HIDE DEF n
    <3>1. QED BY <2>1, MaxOfTop
  <2>3. f[DOMAIN path] = op(f[DOMAIN path \ {n}], path[n])
    <3> HIDE DEF op, root, f, n
    <3>1. DOMAIN path # {} /\ DOMAIN path \in SUBSET DOMAIN path
      BY <2>1
    <3>2. QED BY <1>7, <2>2, <3>1
  <2>4. f[DOMAIN path \ {n}] \in D
    <3> HIDE DEF f, n
    <3>1. QED BY <1>9
  <2> HIDE DEF f
  <2>5. QED BY <1>6, <1>11, <2>3, <2>4 DEF Last
<1> HIDE DEF f
<1>12. QED BY <1>10, <1>11 DEF LedTo

LEMMA EmptyPath == ASSUME NEW db, NEW u
  PROVE SelectIdByPath(db, u, <<>>) = SelectByParentIdAndName(db, u, 0, None)
<1> DEFINE root == SelectByParentIdAndName(db, u, 0, None)
           op(id, n) == IF id = 0 THEN 0 ELSE SelectByParentIdAndName(db, u, id, n)
           Fold(g) == g = [s \in SUBSET DOMAIN <<>> |->
                              IF s = {} THEN root ELSE op(g[s \ {Max(s)}], <<>>[Max(s)])]
           f == CHOOSE g : Fold(g)
           g0 == [s \in SUBSET DOMAIN <<>> |-> root]
<1>1. \A s \in SUBSET DOMAIN <<>> : s = {}
  OBVIOUS
<1>2. Fold(g0)
  <2> HIDE DEF op, root
  <2>1. QED BY <1>1
<1>3. Fold(f)
  <2> HIDE DEF Fold, g0
  <2>1. QED BY <1>2
<1>4. SelectIdByPath(db, u, <<>>) = f[DOMAIN <<>>]
  BY DEF SelectIdByPath, FoldLeft, MapThenFoldSet
<1>5. DOMAIN <<>> \in SUBSET DOMAIN <<>> /\ DOMAIN <<>> = {}
  OBVIOUS
<1>6. f[DOMAIN <<>>] = root
  <2> HIDE DEF op, root, f
  <2>1. QED BY <1>3, <1>5
<1>7. QED BY <1>4, <1>6

-----------------------------------------------------------------------------
(* What the proofs assume of the requests, each theorem its own.           *)

\* Nothing is deleted for good under the feet of another deletion.
Safe == /\ ~HasTimer
        /\ \A r \in Request : r.op = "LogicDelete" => r.count <= 1

\* Names and places stay.
Calm == Safe /\ \A r \in Request : r.op \notin {"Move", "Rename"}

\* Nor is anything taken out of the recycle bin.
Still == Calm /\ \A r \in Request : r.op \notin {"TrashRecover", "LogicDelete"}

FilePath(path) == Front(path) \in Seq(FolderName) /\ Last(path) \notin FolderName

\* Folders and files have names of their own, files are copied and moved one
\* by one, and nothing is deleted for good or saved from another user.
PlainRequest(r) ==
    /\ r.op \notin {"LogicDelete", "SaveTo"}
    /\ r.op \in {"ByMd5", "Upload"} => FilePath(r.path)
    /\ r.op = "CreateFolder" => r.path \in Seq(FolderName)
    /\ r.op = "Rename" => (Last(r.path) \in FolderName <=> r.name \in FolderName)
    /\ r.op \in {"Copy", "Move"} => /\ Len(r.paths) = 1
                                   /\ Last(r.paths[1]) \notin FolderName
                                   /\ r.folder \in Seq(FolderName)

Plain ==
    /\ ExtraName \notin FolderName
    /\ \A n \in Name \ FolderName :
          \A k \in DOMAIN NumberedName[n] : NumberedName[n][k] \notin FolderName
    /\ \A r \in Request : PlainRequest(r)

-----------------------------------------------------------------------------
(* Rows, tables and transactions.                                          *)

Text == Name \cup {None, ExtraName}
Data == Content \cup {None, ExtraData}
Rows == [user: 1..Users, parent: Nat, name: Text, content: Data, extra: BOOLEAN,
         history: BOOLEAN, trashed: Nat, state: Nat]
Id == Nat \ {0}
Tables == UNION {[S -> Rows] : S \in SUBSET Id}
Transactions == [seen: Tables, db: Tables, bin: SUBSET Nat, next: Id, now: Id,
                 wrote: BOOLEAN, failed: BOOLEAN]

Sound(db, n) ==
    \A i \in DOMAIN db :
        /\ i < n /\ db[i].parent < n
        /\ IsFolder(db[i]) => ~db[i].history /\ ~db[i].extra

\* What no statement ever changes in a row.
Same(row, old) ==
    /\ row.user = old.user /\ row.content = old.content /\ row.extra = old.extra
    /\ Calm => row.parent = old.parent /\ row.name = old.name

Agree(old, db) == \A i \in DOMAIN old \cap DOMAIN db : Same(db[i], old[i])

Root(row, u) == row.user = u /\ row.parent = 0 /\ row.name = None /\ row.content = None
                /\ Current(row)

\* The roots are there, and nothing else lies in no folder or has no name.
Rooted(db) ==
    /\ \A u \in 1..Users : u \in DOMAIN db /\ Root(db[u], u)
    /\ \A i \in DOMAIN db \ (1..Users) : db[i].parent # 0 /\ db[i].name # None

OneInGrave(db) ==
    \A i, j \in DOMAIN db :
        /\ j \in Versions(db, i)
        /\ db[i].trashed # 0 /\ db[j].trashed = db[i].trashed
        /\ ~db[i].history /\ ~db[j].history
        => i = j

\* HistoryHasCurrent of a table.
Kin(db) ==
    \A h \in DOMAIN db :
        db[h].history /\ db[h].trashed = 0 => \E i \in Versions(db, h) : Current(db[i])

InFolderOf(db, row) ==
    /\ row.parent \in DOMAIN db
    /\ IsFolder(db[row.parent])
    /\ db[row.parent].user = row.user

Placed(db) ==
    \A i \in DOMAIN db :
        /\ db[i].extra \/ (db[i].parent = 0 /\ db[i].name = None) \/ InFolderOf(db, db[i])
        /\ IsFolder(db[i]) <=> db[i].name \in FolderName \cup {None}

\* A transaction that can still be committed; plain says whether the requests
\* are.
Good(plain, t) ==
    /\ Sound(t.seen, t.next) /\ Sound(t.db, t.next)
    /\ \A i \in DOMAIN t.db : t.db[i].trashed <= t.now
    /\ t.bin \subseteq 1..t.next - 1
    /\ Agree(t.seen, t.db)
    /\ NamesAreUnique(t.db)
    /\ Safe => Rooted(t.seen) /\ Rooted(t.db)
    /\ Calm => OneInGrave(t.db)
    /\ Still => Kin(t.db)
    /\ plain => /\ Safe /\ Placed(t.seen) /\ Placed(t.db)
                /\ DOMAIN t.seen \subseteq DOMAIN t.db

Sane(plain) == {t \in Transactions : t.failed \/ Good(plain, t)}

\* Ids are not given out twice, and without deletion for good rows stay.
Kept(plain, old, n, db) ==
    /\ \A i \in DOMAIN db : i < n => i \in DOMAIN old /\ Same(db[i], old[i])
    /\ plain => DOMAIN old \subseteq DOMAIN db

\* What a request makes of transaction b.
After(plain, b) ==
    {t \in Sane(plain) :
        /\ t.seen = b.seen /\ t.now = b.now /\ t.next >= b.next
        /\ b.failed => t.failed
        /\ t.failed \/ Kept(plain, b.db, b.next, t.db)}

-----------------------------------------------------------------------------
(* Tables and look-ups.                                                    *)

LEMMA TableRows == ASSUME NEW db \in Tables
  PROVE /\ DOMAIN db \subseteq Id
        /\ \A i \in DOMAIN db : i \in Nat /\ i # 0 /\ db[i] \in Rows
        /\ db = [i \in DOMAIN db |-> db[i]]
<1>1. PICK S \in SUBSET Id : db \in [S -> Rows]
  BY DEF Tables
<1>2. QED BY <1>1 DEF Id

LEMMA TableMade == ASSUME NEW S \in SUBSET Id, NEW db \in [S -> Rows]
  PROVE db \in Tables
BY DEF Tables

LEMMA TheMin == ASSUME NEW S \in SUBSET Nat, S # {}
  PROVE Min(S) \in S /\ \A j \in S : Min(S) <= j
<1>1. \E i \in S : \A j \in S : i <= j
  BY NatHasLeast
<1>2. QED BY <1>1 DEF Min

LEMMA Names3 == /\ None \notin Name /\ None \notin Content
                /\ None # ExtraName /\ None # ExtraData
BY NameAssumption

LEMMA LookUp == ASSUME NEW db \in Tables, NEW u, NEW p, NEW n
  PROVE LET id == SelectByParentIdAndName(db, u, p, n)
        IN  /\ id \in Nat
            /\ id # 0 => /\ id \in DOMAIN db /\ Current(db[id])
                        /\ db[id].user = u /\ db[id].parent = p /\ db[id].name = n
            /\ id = 0 => \A i \in DOMAIN db : ~ (/\ db[i].user = u /\ db[i].parent = p
                                               /\ db[i].name = n /\ Current(db[i]))
<1> DEFINE hits == {i \in DOMAIN db : /\ db[i].user = u /\ db[i].parent = p /\ db[i].name = n
                                     /\ Current(db[i])}
<1>1. hits \in SUBSET Nat /\ 0 \notin hits
  BY TableRows DEF Id
<1>2. SelectByParentIdAndName(db, u, p, n) = IF hits = {} THEN 0 ELSE Min(hits)
  BY DEF SelectByParentIdAndName
<1>3. hits # {} => Min(hits) \in hits
  <2> HIDE DEF hits
  <2>1. QED BY <1>1, TheMin
<1>4. QED BY <1>1, <1>2, <1>3

LEMMA FindPath == ASSUME NEW db \in Tables, NEW u, NEW path \in Seq(Text)
  PROVE LET id == SelectIdByPath(db, u, path)
        IN  /\ id \in Nat
            /\ id # 0 => id \in DOMAIN db /\ Current(db[id]) /\ db[id].user = u
            /\ path # <<>> /\ id # 0 => db[id].name = Last(path)
            /\ path = <<>> /\ id # 0 => db[id].name = None
<1> DEFINE D == {0} \cup {i \in DOMAIN db : Current(db[i]) /\ db[i].user = u}
<1>1. \A p, n : SelectByParentIdAndName(db, u, p, n) \in D
  BY LookUp
<1>2. D \subseteq Nat /\ 0 \in D
  BY TableRows
<1> HIDE DEF D
<1>3. LedTo(D, db, u, path)
  <2>1. Leads(D, Text, db, u)
    BY <1>1, <1>2 DEF Leads
  <2>2. QED BY <2>1, PathStays
<1>4. path # <<>> /\ SelectIdByPath(db, u, path) # 0 =>
         db[SelectIdByPath(db, u, path)].name = Last(path)
  BY <1>3, LookUp DEF LedTo
<1>5. path = <<>> /\ SelectIdByPath(db, u, path) # 0 =>
         db[SelectIdByPath(db, u, path)].name = None
  <2>1. path = <<>> => SelectIdByPath(db, u, path) = SelectByParentIdAndName(db, u, 0, None)
    BY EmptyPath
  <2>2. QED BY <2>1, LookUp
<1>6. QED BY <1>2, <1>3, <1>4, <1>5 DEF D, LedTo

-----------------------------------------------------------------------------
(* What a single write makes of a transaction.                             *)

LEMMA Shape == ASSUME NEW plain, NEW t \in Sane(plain)
  PROVE /\ t \in Transactions /\ t.seen \in Tables /\ t.db \in Tables /\ View(t) \in Tables
        /\ t.next \in Nat /\ t.next # 0 /\ t.now \in Nat /\ t.now # 0 /\ t.failed \in BOOLEAN
        /\ t.wrote \in BOOLEAN /\ t.bin \subseteq Nat
BY DEF Sane, Transactions, View, Id

LEMMA SeeGood == ASSUME NEW plain, NEW t \in Sane(plain), ~t.failed
  PROVE /\ Sound(View(t), t.next) /\ Agree(View(t), t.db)
        /\ Safe => Rooted(View(t))
        /\ plain => Placed(View(t)) /\ DOMAIN View(t) \subseteq DOMAIN t.db
<1>1. Agree(t.db, t.db)
  BY DEF Agree, Same
<1>2. QED BY <1>1 DEF Sane, Good, View

LEMMA AfterSelf == ASSUME NEW plain, NEW t \in Sane(plain)
  PROVE t \in After(plain, t)
BY Shape DEF After, Kept, Same

LEMMA AfterTrans == ASSUME NEW plain, NEW b \in Sane(plain), NEW t \in After(plain, b),
                           NEW s \in After(plain, t)
  PROVE s \in After(plain, b)
<1>1. s \in Sane(plain) /\ t \in Sane(plain) /\ b.next \in Nat /\ t.next \in Nat /\ s.next \in Nat
  BY Shape DEF After
<1>2. /\ s.seen = b.seen /\ s.now = b.now /\ s.next >= b.next
      /\ b.failed => s.failed
  BY <1>1 DEF After
<1>3. s.failed \/ Kept(plain, b.db, b.next, s.db)
  <2> SUFFICES ASSUME ~s.failed PROVE Kept(plain, b.db, b.next, s.db)
    OBVIOUS
  <2>1. /\ Kept(plain, b.db, b.next, t.db) /\ Kept(plain, t.db, t.next, s.db)
        /\ b.next <= t.next /\ Sound(s.db, s.next)
    BY DEF After, Sane, Good
  <2>2. \A i \in DOMAIN s.db : i \in Nat
    BY <1>1, Shape, TableRows
  <2>3. QED BY <1>1, <2>1, <2>2 DEF Kept, Same
<1>4. QED BY <1>1, <1>2, <1>3 DEF After

LEMMA AfterFail == ASSUME NEW plain, NEW t \in Sane(plain)
  PROVE Fail(t) \in After(plain, t)
<1>1. Fail(t) \in Transactions /\ Fail(t).failed
  BY DEF Fail, Sane, Transactions
<1>2. Fail(t).seen = t.seen /\ Fail(t).now = t.now /\ Fail(t).next = t.next
  BY DEF Fail, Sane, Transactions
<1>3. QED BY <1>1, <1>2, Shape DEF After, Sane

\* A table that may replace that of t for a moment, with the ids below n
\* given out: a file that was made history may not have its successor yet.
Passes(plain, t, db, n) ==
    /\ Sound(db, n)
    /\ \A i \in DOMAIN db : db[i].trashed <= t.now
    /\ Safe => Rooted(db)
    /\ Calm => OneInGrave(db)
    /\ plain => Placed(db)
    /\ Kept(plain, t.db, t.next, db)

\* A table that may replace that of t.
Fits(plain, t, db, n) == Passes(plain, t, db, n) /\ (Still => Kin(db))

LEMMA FitAgrees == ASSUME NEW plain, NEW t \in Sane(plain), ~t.failed, NEW db \in Tables,
                          Kept(plain, t.db, t.next, db)
  PROVE Agree(t.seen, db) /\ (plain => DOMAIN t.seen \subseteq DOMAIN db)
<1>1. Sound(t.seen, t.next) /\ Agree(t.seen, t.db)
  BY DEF Sane, Good
<1>2. ASSUME NEW i \in DOMAIN t.seen \cap DOMAIN db PROVE Same(db[i], t.seen[i])
  <2>1. i < t.next
    BY <1>1 DEF Sound
  <2>2. i \in DOMAIN t.db /\ Same(db[i], t.db[i])
    BY <2>1 DEF Kept
  <2>3. QED BY <1>1, <2>2 DEF Agree, Same
<1>3. Agree(t.seen, db)
  BY <1>2 DEF Agree
<1>4. Good(plain, t)
  BY DEF Sane
<1>5. ASSUME plain PROVE DOMAIN t.seen \subseteq DOMAIN db
  <2>1. DOMAIN t.seen \subseteq DOMAIN t.db
    BY <1>4, <1>5 DEF Good
  <2>2. DOMAIN t.db \subseteq DOMAIN db
    BY <1>5 DEF Kept
  <2>3. QED BY <2>1, <2>2
<1>6. QED BY <1>3, <1>5

LEMMA AfterWrite ==
  ASSUME NEW plain, NEW t \in Sane(plain), NEW db \in Tables, NEW n \in Nat, n >= t.next,
         t.failed \/ Fits(plain, t, db, n)
  PROVE [Write(t, db) EXCEPT !.next = n] \in After(plain, t)
<1> DEFINE s == [Write(t, db) EXCEPT !.next = n]
<1>1. t \in Transactions /\ t.next \in Nat /\ t.next # 0
  BY Shape
<1>2. s \in Transactions /\ s.seen = t.seen /\ s.now = t.now /\ s.next = n
  <2>1. Write(t, db) \in Transactions /\ Write(t, db).seen = t.seen /\ Write(t, db).now = t.now
    <3>1. [t EXCEPT !.db = db, !.wrote = TRUE] \in Transactions
      BY <1>1 DEF Transactions
    <3>2. [t EXCEPT !.failed = TRUE] \in Transactions
      BY <1>1 DEF Transactions
    <3>3. QED BY <1>1, <3>1, <3>2 DEF Write, Fail, Transactions
  <2>2. n \in Id
    BY <1>1 DEF Id
  <2>3. \A w \in Transactions : /\ [w EXCEPT !.next = n] \in Transactions
                                /\ [w EXCEPT !.next = n].seen = w.seen
                                /\ [w EXCEPT !.next = n].now = w.now
                                /\ [w EXCEPT !.next = n].next = n
    BY <2>2 DEF Transactions
  <2>4. QED BY <2>1, <2>3
<1>3. t.failed => s.failed
  BY <1>1 DEF Transactions, Write, Fail
<1>4. s.failed \/ (s.db = db /\ NamesAreUnique(db) /\ s.bin = t.bin)
  BY <1>1 DEF Transactions, Write, Fail
<1>5. ASSUME ~s.failed PROVE Good(plain, s) /\ Kept(plain, t.db, t.next, s.db)
  <2>1. ~t.failed /\ Fits(plain, t, db, n)
    BY <1>3, <1>5
  <2>2. Agree(t.seen, db) /\ (plain => DOMAIN t.seen \subseteq DOMAIN db)
    BY <2>1, FitAgrees DEF Fits, Passes
  <2>3. Sound(t.seen, n)
    <3>1. Sound(t.seen, t.next) /\ \A i \in DOMAIN t.seen : i \in Nat /\ t.seen[i].parent \in Nat
      BY <2>1, Shape, TableRows DEF Sane, Good, Rows
    <3>2. QED BY <1>1, <3>1 DEF Sound
  <2>4. t.bin \subseteq 1..n - 1
    BY <1>1, <2>1 DEF Sane, Good
  <2> HIDE DEF s
  <2>5. QED BY <1>2, <1>4, <1>5, <2>1, <2>2, <2>3, <2>4 DEF Good, Fits, Passes, Sane
<1> HIDE DEF s
<1>6. s \in After(plain, t)
  BY <1>1, <1>2, <1>3, <1>5 DEF After, Sane
<1>7. QED BY <1>6 DEF s

LEMMA WriteAfter ==
  ASSUME NEW plain, NEW t \in Sane(plain), NEW db \in Tables, t.failed \/ Fits(plain, t, db, t.next)
  PROVE Write(t, db) \in After(plain, t)
<1>1. t.next \in Nat /\ t \in Transactions
  BY Shape
<1>2. [Write(t, db) EXCEPT !.next = t.next] = Write(t, db)
  BY <1>1 DEF Write, Fail, Transactions
<1>3. QED BY <1>1, <1>2, AfterWrite

\* A row that a request may add.
NewRow(plain, t, row) ==
    /\ Current(row) /\ ~row.extra /\ row.parent < t.next
    /\ Safe => row.parent # 0 /\ row.name # None
    /\ plain => /\ InFolderOf(t.db, row)
                /\ IsFolder(row) <=> row.name \in FolderName \cup {None}

LEMMA AddPasses ==
  ASSUME NEW plain, NEW t \in Sane(plain), ~t.failed, NEW old \in Tables,
         DOMAIN old = DOMAIN t.db, Passes(plain, t, old, t.next),
         NEW row \in Rows, NewRow(plain, t, row), plain => InFolderOf(old, row)
  PROVE  /\ With(old, t.next, row) \in Tables
         /\ Passes(plain, t, With(old, t.next, row), t.next + 1)
<1> DEFINE db == With(old, t.next, row)
<1>1. t \in Transactions /\ t.next \in Nat /\ t.next # 0 /\ t.now \in Nat
  BY Shape
<1>2. DOMAIN old \subseteq Id /\ \A i \in DOMAIN old : i \in Nat /\ old[i] \in Rows
  BY TableRows
<1>3. t.next \notin DOMAIN old /\ Sound(old, t.next)
  BY <1>1 DEF Passes, Sound
<1>4. /\ DOMAIN db = DOMAIN old \cup {t.next} /\ db[t.next] = row
      /\ \A i \in DOMAIN old : db[i] = old[i] /\ i # t.next /\ i < t.next
  BY <1>3 DEF With, Sound
<1>5. db \in Tables
  <2>1. DOMAIN old \cup {t.next} \in SUBSET Id
    BY <1>1, <1>2 DEF Id
  <2>2. db \in [DOMAIN old \cup {t.next} -> Rows]
    BY <1>2 DEF With
  <2>3. QED BY <2>1, <2>2, TableMade
<1>6. \A i \in DOMAIN db : i = t.next \/ i \in DOMAIN old
  BY <1>4
<1> HIDE DEF db
<1>7. Sound(db, t.next + 1)
  <2>1. \A i \in DOMAIN old : old[i].parent \in Nat
    BY <1>2 DEF Rows
  <2>2. row.parent \in Nat
    BY DEF Rows
  <2>3. QED BY <1>1, <1>2, <1>3, <1>4, <1>6, <2>1, <2>2 DEF Sound, NewRow, Current
<1>8. \A i \in DOMAIN db : db[i].trashed <= t.now
  BY <1>1, <1>4, <1>6 DEF Passes, NewRow, Current
<1>9. Kept(plain, t.db, t.next, db)
  <2>1. Kept(plain, t.db, t.next, old)
    BY DEF Passes
  <2>2. QED BY <1>1, <1>4, <1>6, <2>1 DEF Kept
<1>10. ASSUME Safe PROVE Rooted(db)
  <2>1. Rooted(old) /\ row.parent # 0 /\ row.name # None
    BY <1>10 DEF Passes, NewRow
  <2>2. QED BY <1>4, <1>6, <2>1 DEF Rooted
<1>11. Calm => OneInGrave(db)
  <2> SUFFICES ASSUME Calm, NEW i \in DOMAIN db, NEW j \in DOMAIN db,
                      j \in Versions(db, i), db[i].trashed # 0,
                      db[j].trashed = db[i].trashed, ~db[i].history, ~db[j].history
               PROVE i = j
    BY DEF OneInGrave
  <2>1. i \in DOMAIN old /\ j \in DOMAIN old
    BY <1>4, <1>6 DEF NewRow, Current
  <2>2. j \in Versions(old, i)
    BY <1>4, <2>1 DEF Versions
  <2>3. OneInGrave(old)
    BY DEF Passes
  <2>4. QED BY <1>4, <2>1, <2>2, <2>3 DEF OneInGrave
<1>12. plain => Placed(db)
  <2> SUFFICES ASSUME plain, NEW i \in DOMAIN db
               PROVE /\ db[i].extra \/ (db[i].parent = 0 /\ db[i].name = None)
                        \/ InFolderOf(db, db[i])
                     /\ IsFolder(db[i]) <=> db[i].name \in FolderName \cup {None}
    BY DEF Placed
  <2>1. \A r : InFolderOf(old, r) => InFolderOf(db, r)
    BY <1>4 DEF InFolderOf
  <2>2. Placed(old) /\ InFolderOf(old, row)
        /\ (IsFolder(row) <=> row.name \in FolderName \cup {None})
    BY DEF Passes, NewRow
  <2>3. QED BY <1>4, <1>6, <2>1, <2>2 DEF Placed
<1>13. Passes(plain, t, db, t.next + 1)
  BY <1>7, <1>8, <1>9, <1>10, <1>11, <1>12 DEF Passes
<1>14. QED BY <1>5, <1>13 DEF db

LEMMA AddAfter ==
  ASSUME NEW plain, NEW t \in Sane(plain), NEW row \in Rows, t.failed \/ NewRow(plain, t, row)
  PROVE /\ Add(t, row) \in After(plain, t) /\ Add(t, row).next = t.next + 1
        /\ Add(t, row).failed \/ (t.next \in DOMAIN Add(t, row).db /\ Add(t, row).db[t.next] = row)
<1> DEFINE db == With(t.db, t.next, row)
<1>1. t \in Transactions /\ t.next \in Nat /\ t.next # 0 /\ t.db \in Tables
  BY Shape
<1>2. db \in Tables
  <2>1. DOMAIN t.db \subseteq Id /\ \A i \in DOMAIN t.db : t.db[i] \in Rows
    BY <1>1, TableRows
  <2>2. DOMAIN t.db \cup {t.next} \in SUBSET Id
    BY <1>1, <2>1 DEF Id
  <2>3. db \in [DOMAIN t.db \cup {t.next} -> Rows]
    BY <2>1 DEF With
  <2>4. QED BY <2>2, <2>3, TableMade
<1>3. ASSUME ~t.failed PROVE Fits(plain, t, db, t.next + 1)
  <2>1. Good(plain, t) /\ NewRow(plain, t, row)
    BY <1>3 DEF Sane
  <2>2. Kept(plain, t.db, t.next, t.db)
    BY DEF Kept, Same
  <2>3. Passes(plain, t, t.db, t.next) /\ (plain => InFolderOf(t.db, row))
    BY <2>1, <2>2 DEF Good, Passes, NewRow
  <2>4. Passes(plain, t, db, t.next + 1)
    BY <1>1, <1>3, <2>1, <2>3, AddPasses
  <2>5. ASSUME Still PROVE Kin(db)
    <3>1. Kin(t.db) /\ t.next \notin DOMAIN t.db /\ Current(row)
      BY <1>1, <2>1, <2>5 DEF Good, Sound, NewRow
    <3>2. /\ DOMAIN db = DOMAIN t.db \cup {t.next} /\ db[t.next] = row
          /\ \A i \in DOMAIN t.db : db[i] = t.db[i]
      BY <3>1 DEF With
    <3> HIDE DEF db
    <3>3. \A h \in DOMAIN t.db : Versions(t.db, h) \subseteq Versions(db, h)
      BY <3>2 DEF Versions
    <3>4. \A h \in DOMAIN t.db : \A i \in Versions(t.db, h) : i \in DOMAIN t.db
      BY DEF Versions
    <3>5. QED BY <3>1, <3>2, <3>3, <3>4 DEF Kin, Current
  <2>6. QED BY <2>4, <2>5 DEF Fits
<1>4. Add(t, row) \in After(plain, t)
  <2>1. t.next + 1 \in Nat /\ t.next + 1 >= t.next
    BY <1>1
  <2> HIDE DEF db
  <2>2. [Write(t, db) EXCEPT !.next = t.next + 1] \in After(plain, t)
    BY <1>2, <1>3, <2>1, AfterWrite
  <2>3. QED BY <2>2 DEF Add, db
<1>5. Add(t, row).failed \/ Add(t, row).db = db
  BY <1>1 DEF Add, Write, Fail, Transactions
<1>6. Add(t, row).next = t.next + 1
  BY <1>1 DEF Add, Write, Fail, Transactions
<1>7. ASSUME ~Add(t, row).failed
      PROVE  t.next \in DOMAIN Add(t, row).db /\ Add(t, row).db[t.next] = row
  <2>1. ~t.failed
    BY <1>4, <1>7 DEF After
  <2>2. t.next \notin DOMAIN t.db
    BY <1>1, <2>1 DEF Sane, Good, Sound
  <2>3. QED BY <1>5, <1>7, <2>2 DEF With
<1>8. QED BY <1>4, <1>6, <1>7

\* A table in which rows kept what they are called and where they lie.
Edited(t, db) ==
    /\ DOMAIN db = DOMAIN t.db
    /\ \A i \in DOMAIN db :
          /\ Same(db[i], t.db[i])
          /\ db[i].parent = t.db[i].parent /\ db[i].name = t.db[i].name
          /\ db[i].history => t.db[i].history \/ ~IsFolder(t.db[i])
          /\ db[i].trashed \in {t.db[i].trashed, 0, t.now}
    /\ Safe => \A u \in 1..Users : db[u] = t.db[u]

LEMMA EditPasses ==
  ASSUME NEW plain, NEW t \in Sane(plain), ~t.failed, NEW db \in Tables, Edited(t, db),
         Calm => OneInGrave(db)
  PROVE  Passes(plain, t, db, t.next)
<1>1. Good(plain, t) /\ t.next \in Nat /\ t.now \in Nat
  BY Shape DEF Sane
<1>2. Sound(db, t.next)
  BY <1>1 DEF Good, Sound, Edited, Same, IsFolder
<1>3. \A i \in DOMAIN db : db[i].trashed <= t.now
  BY <1>1 DEF Good, Edited
<1>4. Kept(plain, t.db, t.next, db)
  BY DEF Kept, Edited, Same
<1>5. Safe => Rooted(db)
  BY <1>1 DEF Good, Rooted, Edited
<1>6. ASSUME plain PROVE Placed(db)
  <2>1. Placed(t.db)
    BY <1>1, <1>6 DEF Good
  <2>2. QED BY <2>1 DEF Placed, Edited, Same, InFolderOf, IsFolder
<1>7. QED BY <1>2, <1>3, <1>4, <1>5, <1>6 DEF Passes

\* The table of t with row i made history.
Historic(t, i) == [j \in DOMAIN t.db |-> IF j \in {i} THEN [t.db[j] EXCEPT !.history = TRUE]
                                       ELSE t.db[j]]

LEMMA HistoricPasses ==
  ASSUME NEW plain, NEW t \in Sane(plain), NEW i
  PROVE  /\ Historic(t, i) \in Tables /\ SetHistory(t, i) = Write(t, Historic(t, i))
         /\ DOMAIN Historic(t, i) = DOMAIN t.db
         /\ \A j \in DOMAIN t.db : /\ j # i => Historic(t, i)[j] = t.db[j]
                                  /\ Same(Historic(t, i)[j], t.db[j])
                                  /\ Historic(t, i)[j].parent = t.db[j].parent
                                  /\ Historic(t, i)[j].name = t.db[j].name
         /\ t.failed \/ (i \in DOMAIN t.db /\ IsFolder(t.db[i]))
              \/ Passes(plain, t, Historic(t, i), t.next)
<1> DEFINE db == Historic(t, i)
<1>1. /\ DOMAIN t.db \in SUBSET Id /\ \A j \in DOMAIN t.db : t.db[j] \in Rows
  BY Shape, TableRows
<1>2. \A row \in Rows : [row EXCEPT !.history = TRUE] \in Rows
  BY DEF Rows
<1>3. db \in Tables
  <2>1. db \in [DOMAIN t.db -> Rows]
    BY <1>1, <1>2 DEF Historic
  <2>2. QED BY <1>1, <2>1, TableMade
<1>4. \A j \in DOMAIN t.db :
           /\ j # i => db[j] = t.db[j]
           /\ Same(db[j], t.db[j]) /\ db[j].parent = t.db[j].parent
           /\ db[j].name = t.db[j].name /\ db[j].trashed = t.db[j].trashed
           /\ db[j].history => t.db[j].history \/ j = i
           /\ ~db[j].history => ~t.db[j].history
  BY <1>1 DEF Rows, Same, Historic
<1>5. DOMAIN db = DOMAIN t.db
  BY DEF Historic
<1>6. SetHistory(t, i) = Write(t, db)
  BY DEF SetHistory, Update, Historic
<1> HIDE DEF db
<1>7. ASSUME ~t.failed, i \in DOMAIN t.db => ~IsFolder(t.db[i])
      PROVE  Passes(plain, t, db, t.next)
  <2>1. Safe => \A u \in 1..Users : db[u] = t.db[u]
    <3>1. Safe => \A u \in 1..Users : u \in DOMAIN t.db /\ IsFolder(t.db[u])
      BY <1>7 DEF Sane, Good, Rooted, Root, IsFolder
    <3>2. QED BY <1>4, <1>7, <3>1
  <2>2. Edited(t, db)
    BY <1>4, <1>5, <1>7, <2>1 DEF Edited
  <2>3. Calm => OneInGrave(db)
    <3>1. Calm => OneInGrave(t.db)
      BY <1>7 DEF Sane, Good
    <3>2. QED BY <1>4, <1>5, <3>1 DEF OneInGrave, Versions, Same
  <2>4. QED BY <1>3, <1>7, <2>2, <2>3, EditPasses
<1>8. QED BY <1>3, <1>4, <1>5, <1>6, <1>7 DEF db

LEMMA SetHistoryAfter ==
  ASSUME NEW plain, NEW t \in Sane(plain), NEW i, ~Still,
         t.failed \/ (i \in DOMAIN t.db => ~IsFolder(t.db[i]))
  PROVE  SetHistory(t, i) \in After(plain, t)
<1>1. Historic(t, i) \in Tables /\ SetHistory(t, i) = Write(t, Historic(t, i))
  BY HistoricPasses
<1>2. t.failed \/ Fits(plain, t, Historic(t, i), t.next)
  BY HistoricPasses DEF Fits
<1>3. QED BY <1>1, <1>2, WriteAfter

\* A row takes the place of row i, which becomes history.
LEMMA OverwriteAfter ==
  ASSUME NEW plain, NEW t \in Sane(plain), NEW i, NEW row \in Rows,
         \/ t.failed
         \/ /\ NewRow(plain, t, row)
            /\ i \in DOMAIN t.db => /\ ~IsFolder(t.db[i])
                                    /\ Still => /\ row.user = t.db[i].user
                                                /\ row.parent = t.db[i].parent
                                                /\ row.name = t.db[i].name
  PROVE  Add(SetHistory(t, i), row) \in After(plain, t)
<1> DEFINE old == Historic(t, i)
           db == With(old, t.next, row)
           s == [t EXCEPT !.db = old, !.wrote = TRUE]
<1>1. /\ t \in Transactions /\ t.next \in Nat /\ t.next # 0 /\ t.db \in Tables
      /\ t.next + 1 \in Nat /\ t.next + 1 >= t.next
  BY Shape
<1>2. /\ old \in Tables /\ SetHistory(t, i) = Write(t, old) /\ DOMAIN old = DOMAIN t.db
      /\ \A j \in DOMAIN t.db : /\ j # i => old[j] = t.db[j]
                               /\ Same(old[j], t.db[j])
                               /\ old[j].parent = t.db[j].parent /\ old[j].name = t.db[j].name
      /\ t.failed \/ Passes(plain, t, old, t.next)
  BY HistoricPasses
<1> HIDE DEF old
<1>3. db \in Tables
  <2>1. DOMAIN old \subseteq Id /\ \A j \in DOMAIN old : old[j] \in Rows
    BY <1>2, TableRows
  <2>2. DOMAIN old \cup {t.next} \in SUBSET Id
    BY <1>1, <2>1 DEF Id
  <2>3. db \in [DOMAIN old \cup {t.next} -> Rows]
    BY <2>1 DEF With
  <2>4. QED BY <2>2, <2>3, TableMade
<1>4. ASSUME ~t.failed PROVE Fits(plain, t, db, t.next + 1)
  <2>1. Good(plain, t) /\ NewRow(plain, t, row)
    BY <1>4 DEF Sane
  <2>2. plain => InFolderOf(old, row)
    BY <1>2, <2>1 DEF NewRow, InFolderOf, Same, IsFolder
  <2>3. Passes(plain, t, db, t.next + 1)
    BY <1>1, <1>2, <1>4, <2>1, <2>2, AddPasses
  <2>4. ASSUME Still PROVE Kin(db)
    <3>1. Kin(t.db) /\ t.next \notin DOMAIN t.db /\ Current(row)
      BY <1>1, <2>1, <2>4 DEF Good, Sound, NewRow
    <3>2. /\ DOMAIN db = DOMAIN t.db \cup {t.next} /\ db[t.next] = row
          /\ \A j \in DOMAIN t.db : db[j] = old[j]
      BY <1>2, <3>1 DEF With
    <3> HIDE DEF db
    <3>3. \A j \in DOMAIN t.db : /\ j # i => db[j] = t.db[j]
                               /\ db[j].user = t.db[j].user
                               /\ db[j].parent = t.db[j].parent /\ db[j].name = t.db[j].name
      BY <1>2, <3>2 DEF Same
    <3>4. ASSUME NEW h \in DOMAIN t.db, db[h].history, db[h].trashed = 0
          PROVE  \E k \in Versions(db, h) : Current(db[k])
      <4>1. CASE h # i
        <5>1. PICK k \in Versions(t.db, h) : Current(t.db[k])
          BY <3>1, <3>3, <3>4, <4>1 DEF Kin
        <5>2. k \in DOMAIN t.db /\ k \in Versions(db, h)
          BY <3>2, <3>3, <5>1 DEF Versions
        <5>3. CASE k # i
          BY <3>3, <5>1, <5>2, <5>3
        <5>4. CASE k = i
          <6>1. row.user = t.db[k].user /\ row.parent = t.db[k].parent /\ row.name = t.db[k].name
            BY <1>4, <2>4, <5>2, <5>4
          <6>2. t.next \in Versions(db, h)
            BY <3>2, <3>3, <5>1, <6>1 DEF Versions
          <6>3. QED BY <3>1, <3>2, <6>2
        <5>5. QED BY <5>3, <5>4
      <4>2. CASE h = i
        <5>1. row.user = t.db[h].user /\ row.parent = t.db[h].parent /\ row.name = t.db[h].name
          BY <1>4, <2>4, <3>4, <4>2
        <5>2. t.next \in Versions(db, h)
          BY <3>2, <3>3, <5>1 DEF Versions
        <5>3. QED BY <3>1, <3>2, <5>2
      <4>3. QED BY <4>1, <4>2
    <3>5. ~db[t.next].history
      BY <3>1, <3>2 DEF Current
    <3>6. QED BY <3>2, <3>4, <3>5 DEF Kin
  <2>5. QED BY <2>3, <2>4 DEF Fits
<1>5. [Write(t, db) EXCEPT !.next = t.next + 1] \in After(plain, t)
  <2> HIDE DEF db
  <2>1. QED BY <1>1, <1>3, <1>4, AfterWrite
<1>6. CASE NamesAreUnique(old)
  <2>1. SetHistory(t, i) = s
    BY <1>2, <1>6 DEF Write
  <2>2. s.db = old /\ s.next = t.next /\ s \in Transactions /\ s.seen = t.seen /\ s.now = t.now
    BY <1>1, <1>2 DEF Transactions
  <2>3. Add(s, row) = [Write(s, db) EXCEPT !.next = t.next + 1]
    BY <2>2 DEF Add
  <2>4. CASE NamesAreUnique(db)
    <3>1. Write(s, db) = Write(t, db)
      BY <1>1, <2>4 DEF Write, Transactions
    <3>2. QED BY <1>5, <2>1, <2>3, <3>1
  <2>5. CASE ~NamesAreUnique(db)
    <3> DEFINE r == [Write(s, db) EXCEPT !.next = t.next + 1]
    <3>1. Write(s, db) = [s EXCEPT !.failed = TRUE]
      BY <2>5 DEF Write, Fail
    <3>2. t.next + 1 \in Id
      BY <1>1 DEF Id
    <3> HIDE DEF s, db
    <3>3. /\ r \in Transactions /\ r.failed /\ r.seen = t.seen /\ r.now = t.now
          /\ r.next = t.next + 1
      BY <2>2, <3>1, <3>2 DEF Transactions
    <3> HIDE DEF r
    <3>4. r \in After(plain, t)
      BY <1>1, <3>3 DEF After, Sane
    <3>5. QED BY <2>1, <2>3, <3>4 DEF r
  <2>6. QED BY <2>4, <2>5
<1>7. CASE ~NamesAreUnique(old)
  <2>1. SetHistory(t, i) = Fail(t)
    BY <1>2, <1>7 DEF Write
  <2>2. Fail(t) \in After(plain, t) /\ Fail(t) \in Sane(plain) /\ Fail(t).failed
    BY <1>1, AfterFail DEF After, Fail, Transactions
  <2>3. Add(Fail(t), row) \in After(plain, Fail(t))
    BY <2>2, AddAfter
  <2>4. QED BY <2>1, <2>2, <2>3, AfterTrans
<1>8. QED BY <1>6, <1>7

LEMMA SetNotDeleteAfter ==
  ASSUME NEW plain, NEW t \in Sane(plain), NEW i, ~Still
  PROVE  SetNotDelete(t, i) \in After(plain, t)
<1> DEFINE ids == {j \in Versions(t.db, i) : t.db[i].trashed # 0
                                             /\ t.db[j].trashed = t.db[i].trashed}
           db == [j \in DOMAIN t.db |-> IF j \in ids THEN [t.db[j] EXCEPT !.trashed = 0]
                                       ELSE t.db[j]]
<1>1. /\ DOMAIN t.db \in SUBSET Id /\ \A j \in DOMAIN t.db : t.db[j] \in Rows
  BY Shape, TableRows
<1>2. \A row \in Rows : [row EXCEPT !.trashed = 0] \in Rows
  BY DEF Rows
<1>3. db \in Tables
  <2>1. db \in [DOMAIN t.db -> Rows]
    BY <1>1, <1>2
  <2>2. QED BY <1>1, <2>1, TableMade
<1>4. ASSUME ~t.failed PROVE Fits(plain, t, db, t.next)
  <2>1. \A j \in DOMAIN t.db :
           /\ Same(db[j], t.db[j]) /\ db[j].parent = t.db[j].parent
           /\ db[j].name = t.db[j].name /\ db[j].history = t.db[j].history
           /\ db[j].trashed \in {t.db[j].trashed, 0}
           /\ t.db[j].trashed = 0 => db[j] = t.db[j]
    <3>1. \A j \in ids : t.db[j].trashed # 0
      OBVIOUS
    <3> HIDE DEF ids
    <3>2. QED BY <1>1, <3>1 DEF Rows, Same
  <2>2. DOMAIN db = DOMAIN t.db
    OBVIOUS
  <2> HIDE DEF db
  <2>3. Safe => \A u \in 1..Users : db[u] = t.db[u]
    BY <1>4, <2>1 DEF Sane, Good, Rooted, Root, Current
  <2>4. Edited(t, db)
    BY <1>4, <2>1, <2>2, <2>3 DEF Edited
  <2>5. Calm => OneInGrave(db)
    <3>1. Calm => OneInGrave(t.db)
      BY <1>4 DEF Sane, Good
    <3>2. QED BY <2>1, <2>2, <3>1 DEF OneInGrave, Versions, Same
  <2>6. QED BY <1>3, <1>4, <2>4, <2>5, EditPasses DEF Fits
<1>5. SetNotDelete(t, i) = Write(t, db)
  BY DEF SetNotDelete, Update
<1> HIDE DEF db
<1>6. QED BY <1>3, <1>4, <1>5, WriteAfter

\* Whatever lies in the recycle bin since now left no current row behind.
Graved(t) ==
    \A i, j \in DOMAIN t.db :
        j \in Versions(t.db, i) /\ t.db[i].trashed = t.now => t.db[j].trashed # 0

LEMMA SetDeleteAfter ==
  ASSUME NEW plain, NEW t \in Sane(plain), NEW i,
         t.failed \/ (/\ Safe => i \notin 1..Users
                      /\ Calm => Graved(t))
  PROVE  /\ SetDelete(t, i) \in After(plain, t)
         /\ SetDelete(t, i).failed \/ (Calm => Graved(SetDelete(t, i)))
<1> DEFINE ids == {j \in Versions(t.db, i) : t.db[j].trashed = 0}
           db == [j \in DOMAIN t.db |-> IF j \in ids THEN [t.db[j] EXCEPT !.trashed = t.now]
                                       ELSE t.db[j]]
<1>1. /\ DOMAIN t.db \in SUBSET Id /\ \A j \in DOMAIN t.db : t.db[j] \in Rows
      /\ t.now \in Nat /\ t.now # 0 /\ t \in Transactions
  BY Shape, TableRows
<1>2. \A row \in Rows : [row EXCEPT !.trashed = t.now] \in Rows
  BY <1>1 DEF Rows
<1>3. db \in Tables
  <2>1. db \in [DOMAIN t.db -> Rows]
    BY <1>1, <1>2
  <2>2. QED BY <1>1, <2>1, TableMade
<1>4. \A j \in DOMAIN t.db :
           /\ Same(db[j], t.db[j]) /\ db[j].parent = t.db[j].parent
           /\ db[j].name = t.db[j].name /\ db[j].history = t.db[j].history
           /\ j \in ids => db[j].trashed = t.now /\ t.db[j].trashed = 0
           /\ j \notin ids => db[j] = t.db[j]
  <2>1. \A j \in ids : t.db[j].trashed = 0
    OBVIOUS
  <2> HIDE DEF ids
  <2>2. QED BY <1>1, <2>1 DEF Rows, Same
<1>5. DOMAIN db = DOMAIN t.db
  OBVIOUS
<1>6. \A j \in ids : \A k \in DOMAIN t.db :
         /\ j \in DOMAIN t.db
         /\ k \in Versions(t.db, j) => k \in Versions(t.db, i) /\ (t.db[k].trashed = 0 => k \in ids)
         /\ j \in Versions(t.db, k) => k \in Versions(t.db, i) /\ (t.db[k].trashed = 0 => k \in ids)
  BY DEF Versions
<1>7. \A j \in ids : i \in DOMAIN t.db /\ t.db[j].parent = t.db[i].parent
                     /\ t.db[j].name = t.db[i].name
  BY DEF Versions
<1> HIDE DEF db, ids
<1>8. ASSUME ~t.failed, Calm, Graved(t),
             NEW j \in DOMAIN t.db, NEW k \in DOMAIN t.db, k \in Versions(db, j)
      PROVE  /\ db[j].trashed = t.now => db[k].trashed # 0
             /\ db[j].trashed # 0 /\ db[k].trashed = db[j].trashed
                /\ ~db[j].history /\ ~db[k].history => j = k
  <2>1. k \in Versions(t.db, j)
    BY <1>4, <1>5, <1>8 DEF Versions, Same
  <2>2. k \in ids \/ k \notin ids
    OBVIOUS
  <2>3. db[j].trashed = t.now => db[k].trashed # 0
    BY <1>1, <1>4, <1>6, <1>8, <2>1 DEF Graved
  <2>4. ASSUME db[j].trashed # 0, db[k].trashed = db[j].trashed,
               ~db[j].history, ~db[k].history
        PROVE  j = k
    <3>1. CASE j \in ids /\ k \in ids
      <4>1. Current(t.db[j]) /\ Current(t.db[k])
        BY <1>4, <2>4, <3>1 DEF Current
      <4>2. t.db[j].parent # 0
        BY <1>7, <1>8, <2>1, <3>1 DEF Sane, Good, Calm, Rooted, Versions
      <4>3. NamesAreUnique(t.db)
        BY <1>8 DEF Sane, Good
      <4>4. QED BY <2>1, <4>1, <4>2, <4>3 DEF NamesAreUnique, Versions
    <3>2. CASE j \notin ids /\ k \notin ids
      <4>1. OneInGrave(t.db)
        BY <1>8 DEF Sane, Good
      <4>2. QED BY <1>4, <2>1, <2>4, <3>2, <4>1 DEF OneInGrave
    <3>3. CASE j \in ids /\ k \notin ids
      <4>1. t.db[k].trashed = t.now /\ t.db[j].trashed = 0 /\ j \in Versions(t.db, k)
        BY <1>4, <2>1, <2>4, <3>3 DEF Versions
      <4>2. QED BY <1>8, <4>1 DEF Graved
    <3>4. CASE j \notin ids /\ k \in ids
      <4>1. t.db[j].trashed = t.now /\ t.db[k].trashed = 0
        BY <1>4, <2>4, <3>4
      <4>2. QED BY <1>8, <2>1, <4>1 DEF Graved
    <3>5. QED BY <3>1, <3>2, <3>3, <3>4
  <2>5. QED BY <2>3, <2>4
<1>9. ASSUME ~t.failed PROVE Fits(plain, t, db, t.next)
  <2>1. Safe => \A u \in 1..Users : db[u] = t.db[u]
    <3> SUFFICES ASSUME Safe, NEW u \in 1..Users PROVE db[u] = t.db[u]
      OBVIOUS
    <3>1. Rooted(t.db) /\ i \notin 1..Users
      BY <1>9 DEF Sane, Good
    <3>2. u \in DOMAIN t.db /\ t.db[u].parent = 0
      BY <3>1 DEF Rooted, Root
    <3>3. u \notin ids
      BY <1>7, <3>1, <3>2 DEF Rooted
    <3>4. QED BY <1>4, <3>2, <3>3
  <2>2. Edited(t, db)
    BY <1>4, <1>5, <2>1 DEF Edited
  <2>3. Calm => OneInGrave(db)
    BY <1>5, <1>8, <1>9 DEF OneInGrave
  <2>4. Passes(plain, t, db, t.next)
    BY <1>3, <1>9, <2>2, <2>3, EditPasses
  <2>5. ASSUME Still PROVE Kin(db)
    <3>1. Kin(t.db)
      BY <1>9, <2>5 DEF Sane, Good
    <3>2. ASSUME NEW h \in DOMAIN t.db, db[h].history, db[h].trashed = 0
          PROVE  \E k \in Versions(db, h) : Current(db[k])
      <4>1. h \notin ids /\ db[h] = t.db[h]
        BY <1>1, <1>4, <3>2
      <4>2. PICK k \in Versions(t.db, h) : Current(t.db[k])
        BY <3>1, <3>2, <4>1 DEF Kin
      <4>3. k \in DOMAIN t.db /\ h \in Versions(t.db, k) /\ k \in Versions(db, h)
        BY <1>4, <1>5, <4>2 DEF Versions, Same
      <4>4. k \notin ids
        BY <1>6, <3>2, <4>1, <4>2, <4>3
      <4>5. QED BY <1>4, <4>2, <4>3, <4>4
    <3>3. QED BY <1>5, <3>2 DEF Kin
  <2>6. QED BY <2>4, <2>5 DEF Fits
<1>10. SetDelete(t, i) = Write(t, db)
  BY DEF SetDelete, Update, db, ids
<1>11. SetDelete(t, i) \in After(plain, t)
  BY <1>3, <1>9, <1>10, WriteAfter
<1>12. ASSUME ~SetDelete(t, i).failed, Calm PROVE Graved(SetDelete(t, i))
  <2>1. ~t.failed /\ Graved(t)
    BY <1>11, <1>12 DEF After
  <2>2. SetDelete(t, i).db = db /\ SetDelete(t, i).now = t.now
    BY <1>1, <1>10, <1>12 DEF Write, Fail, Transactions
  <2>3. QED BY <1>5, <1>8, <1>12, <2>1, <2>2 DEF Graved
<1>13. QED BY <1>11, <1>12

\* Where row i may go.
NewPlace(plain, t, i, p, n) ==
    i \in DOMAIN t.db =>
        /\ p < t.next /\ ~Calm
        /\ Safe => i \notin 1..Users /\ p # 0 /\ n # None
        /\ plain => /\ t.db[i].extra \/ InFolderOf(t.db, [t.db[i] EXCEPT !.parent = p])
                    /\ IsFolder(t.db[i]) <=> n \in FolderName \cup {None}

LEMMA MoveRowAfter ==
  ASSUME NEW plain, NEW t \in Sane(plain), NEW i, NEW p \in Nat, NEW n \in Text,
         t.failed \/ NewPlace(plain, t, i, p, n)
  PROVE  MoveRow(t, i, p, n) \in After(plain, t)
<1> DEFINE db == [j \in DOMAIN t.db |-> IF j \in {i} THEN [t.db[j] EXCEPT !.parent = p, !.name = n]
                                       ELSE t.db[j]]
<1>1. /\ DOMAIN t.db \in SUBSET Id /\ \A j \in DOMAIN t.db : t.db[j] \in Rows
      /\ t.next \in Nat
  BY Shape, TableRows
<1>2. \A row \in Rows : [row EXCEPT !.parent = p, !.name = n] \in Rows
  BY DEF Rows
<1>3. db \in Tables
  <2>1. db \in [DOMAIN t.db -> Rows]
    BY <1>1, <1>2
  <2>2. QED BY <1>1, <2>1, TableMade
<1>4. ASSUME ~t.failed PROVE Fits(plain, t, db, t.next)
  <2>1. \A j \in DOMAIN t.db :
           /\ j # i => db[j] = t.db[j]
           /\ Same(db[j], t.db[j]) /\ db[j].history = t.db[j].history
           /\ db[j].trashed = t.db[j].trashed
           /\ j = i => db[j].parent = p /\ db[j].name = n
    <3>1. i \in DOMAIN t.db => ~Calm
      BY <1>4 DEF NewPlace
    <3>2. QED BY <1>1, <3>1 DEF Rows, Same
  <2>2. DOMAIN db = DOMAIN t.db
    OBVIOUS
  <2>3. NewPlace(plain, t, i, p, n) /\ Good(plain, t)
    BY <1>4 DEF Sane
  <2> HIDE DEF db
  <2>4. Sound(db, t.next)
    BY <2>1, <2>2, <2>3 DEF Good, Sound, Same, IsFolder, NewPlace
  <2>5. \A j \in DOMAIN db : db[j].trashed <= t.now
    BY <2>1, <2>2, <2>3 DEF Good
  <2>6. Kept(plain, t.db, t.next, db)
    BY <2>1, <2>2 DEF Kept
  <2>7. Safe => Rooted(db)
    BY <2>1, <2>2, <2>3 DEF Good, Rooted, NewPlace
  <2>8. (Calm => OneInGrave(db)) /\ (Still => Kin(db))
    <3>1. CASE i \notin DOMAIN t.db
      <4>1. \A j \in DOMAIN db : db[j] = t.db[j]
        BY <2>1, <2>2, <3>1
      <4>2. db = t.db
        BY <1>3, <2>2, <4>1, Shape, TableRows
      <4>3. QED BY <2>3, <4>2 DEF Good
    <3>2. CASE i \in DOMAIN t.db
      BY <2>3, <3>2 DEF NewPlace, Still
    <3>3. QED BY <3>1, <3>2
  <2>9. ASSUME plain PROVE Placed(db)
    <3>1. Placed(t.db)
      BY <2>3, <2>9 DEF Good
    <3>2. \A row : InFolderOf(t.db, row) => InFolderOf(db, row)
      BY <2>1, <2>2 DEF InFolderOf, Same, IsFolder
    <3>3. ASSUME NEW j \in DOMAIN db, j = i
          PROVE /\ db[j].extra \/ InFolderOf(db, db[j])
                /\ IsFolder(db[j]) <=> db[j].name \in FolderName \cup {None}
      <4>1. i \in DOMAIN t.db
        BY <2>2, <3>3
      <4>2. [t.db[i] EXCEPT !.parent = p].parent = p
            /\ [t.db[i] EXCEPT !.parent = p].user = t.db[i].user
        BY <1>1, <4>1 DEF Rows
      <4>3. t.db[i].extra \/ InFolderOf(t.db, db[i])
        BY <2>1, <2>3, <2>9, <4>1, <4>2 DEF NewPlace, InFolderOf, Same
      <4>4. IsFolder(t.db[i]) <=> n \in FolderName \cup {None}
        BY <2>3, <2>9, <4>1 DEF NewPlace
      <4>5. QED BY <2>1, <3>2, <3>3, <4>1, <4>3, <4>4 DEF Same, IsFolder
    <3>4. QED BY <2>1, <2>2, <3>1, <3>2, <3>3 DEF Placed
  <2>10. QED BY <2>4, <2>5, <2>6, <2>7, <2>8, <2>9 DEF Fits, Passes
<1>5. MoveRow(t, i, p, n) = Write(t, db)
  BY DEF MoveRow, Update
<1> HIDE DEF db
<1>6. QED BY <1>3, <1>4, <1>5, WriteAfter

LEMMA DeleteAfter ==
  ASSUME NEW plain, NEW t \in Sane(plain), NEW i,
         t.failed \/ (/\ Safe => i \notin 1..Users
                      /\ plain \/ Still => i \notin DOMAIN t.db)
  PROVE  Delete(t, i) \in After(plain, t)
<1> DEFINE db == [j \in DOMAIN t.db \ {i} |-> t.db[j]]
<1>1. /\ DOMAIN t.db \in SUBSET Id /\ \A j \in DOMAIN t.db : t.db[j] \in Rows
      /\ t.next \in Nat /\ t.db \in Tables
  BY Shape, TableRows
<1>2. db \in Tables
  <2>1. db \in [DOMAIN t.db \ {i} -> Rows]
    BY <1>1
  <2>2. QED BY <1>1, <2>1, TableMade
<1>3. ASSUME ~t.failed PROVE Fits(plain, t, db, t.next)
  <2>1. DOMAIN db = DOMAIN t.db \ {i} /\ \A j \in DOMAIN db : db[j] = t.db[j]
    OBVIOUS
  <2>2. Good(plain, t)
    BY <1>3 DEF Sane
  <2>3. i \notin DOMAIN t.db => db = t.db
    BY <1>1, TableRows
  <2> HIDE DEF db
  <2>4. Sound(db, t.next)
    BY <2>1, <2>2 DEF Good, Sound
  <2>5. \A j \in DOMAIN db : db[j].trashed <= t.now
    BY <2>1, <2>2 DEF Good
  <2>6. Kept(plain, t.db, t.next, db)
    BY <1>3, <2>1, <2>3 DEF Kept, Same
  <2>7. Safe => Rooted(db)
    BY <1>3, <2>1, <2>2 DEF Good, Rooted
  <2>8. Calm => OneInGrave(db)
    <3>1. Calm => OneInGrave(t.db)
      BY <2>2 DEF Good
    <3>2. QED BY <2>1, <3>1 DEF OneInGrave, Versions
  <2>9. (plain => Placed(db)) /\ (Still => Kin(db))
    BY <1>3, <2>2, <2>3 DEF Good
  <2>10. QED BY <2>4, <2>5, <2>6, <2>7, <2>8, <2>9 DEF Fits, Passes
<1>4. Delete(t, i) = Write(t, db)
  BY DEF Delete
<1> HIDE DEF db
<1>5. QED BY <1>2, <1>3, <1>4, WriteAfter

LEMMA InsertDeleteAfter ==
  ASSUME NEW plain, NEW t \in Sane(plain), NEW i
  PROVE  InsertDelete(t, i) \in After(plain, t)
<1> DEFINE s == [t EXCEPT !.wrote = TRUE]
           r == [t EXCEPT !.bin = t.bin \cup {i}, !.wrote = TRUE]
<1>1. t \in Transactions /\ DOMAIN t.db \subseteq Id
  BY Shape, TableRows
<1>2. s \in After(plain, t)
  <2>1. /\ s \in Transactions /\ s.seen = t.seen /\ s.now = t.now /\ s.next = t.next
        /\ s.db = t.db /\ s.bin = t.bin /\ s.failed = t.failed
    BY <1>1 DEF Transactions
  <2> HIDE DEF s
  <2>2. s \in Sane(plain)
    BY <2>1 DEF Sane, Good
  <2>3. QED BY <2>1, <2>2, Shape DEF After, Kept, Same
<1>3. ASSUME i \in DOMAIN t.db PROVE r \in After(plain, t)
  <2>1. i \in Nat /\ i # 0
    BY <1>1, <1>3 DEF Id
  <2>2. /\ r \in Transactions /\ r.seen = t.seen /\ r.now = t.now /\ r.next = t.next
        /\ r.db = t.db /\ r.bin = t.bin \cup {i} /\ r.failed = t.failed
    <3> DEFINE b == t.bin \cup {i}
               w == [t EXCEPT !.bin = b, !.wrote = TRUE]
    <3>1. b \in SUBSET Nat
      BY <1>1, <2>1, Shape
    <3> HIDE DEF b
    <3>2. w \in Transactions
      BY <1>1, <3>1 DEF Transactions
    <3>3. /\ w.seen = t.seen /\ w.now = t.now /\ w.next = t.next
          /\ w.db = t.db /\ w.bin = b /\ w.failed = t.failed
      BY <1>1 DEF Transactions
    <3>4. r = w
      BY DEF b
    <3> HIDE DEF w, r
    <3>5. QED BY <3>2, <3>3, <3>4 DEF b
  <2>3. ~t.failed => i \in 1..t.next - 1
    <3>1. t.next \in Nat
      BY Shape
    <3>2. ~t.failed => i < t.next
      BY <1>3 DEF Sane, Good, Sound
    <3>3. QED BY <2>1, <3>1, <3>2
  <2> HIDE DEF r
  <2>4. r \in Sane(plain)
    BY <2>2, <2>3 DEF Sane, Good
  <2>5. QED BY <2>2, <2>4, Shape DEF After, Kept, Same
<1>4. InsertDelete(t, i) = IF i \notin DOMAIN t.db THEN s ELSE IF i \in t.bin THEN Fail(t) ELSE r
  BY DEF InsertDelete
<1> HIDE DEF s, r
<1>5. QED BY <1>2, <1>3, <1>4, AfterFail

-----------------------------------------------------------------------------
(* Folders and files that a request makes.                                 *)

Given == Text \ {None}
Made(plain) == {n \in Given : plain => n \in FolderName}

AnyUser == [user: Nat, parent: Nat, name: Text, content: Data, extra: BOOLEAN,
            history: BOOLEAN, trashed: Nat, state: Nat]

LEMMA FolderRowOk ==
  ASSUME NEW u \in 1..Users, NEW p \in Nat, NEW n \in Text
  PROVE  LET f == FolderRow(u, p, n)
         IN  /\ f \in Rows /\ f.user = u /\ f.parent = p /\ f.name = n /\ IsFolder(f)
             /\ ~f.extra /\ Current(f) /\ f \in AnyUser
<1> DEFINE f == FolderRow(u, p, n)
<1>1. NoRow \in AnyUser /\ NoRow.content = None /\ ~NoRow.extra /\ ~NoRow.history
      /\ NoRow.trashed = 0
  BY DEF NoRow, Text, Data, AnyUser
<1>2. u \in Nat
  BY UsersAssumption
<1>3. f \in AnyUser /\ f.user = u /\ f.parent = p /\ f.name = n /\ f.content = None
      /\ ~f.extra /\ ~f.history /\ f.trashed = 0
  BY <1>1, <1>2 DEF FolderRow, AnyUser
<1>4. f.user \in 1..Users
  BY <1>3
<1> HIDE DEF f
<1>5. f \in Rows
  BY <1>3, <1>4 DEF Rows, AnyUser
<1>6. QED BY <1>3, <1>5 DEF IsFolder, Current, f

LEMMA FileRowOk ==
  ASSUME NEW u \in 1..Users, NEW p \in Nat, NEW n \in Text, NEW c \in Data
  PROVE  LET r == FileRow(u, p, n, c)
         IN  /\ r \in Rows /\ r.user = u /\ r.parent = p /\ r.name = n /\ r.content = c
             /\ ~r.extra /\ Current(r)
<1> DEFINE f == FolderRow(u, p, n)
           r == [f EXCEPT !.content = c]
<1>1. /\ f \in Rows /\ f.user = u /\ f.parent = p /\ f.name = n
      /\ ~f.extra /\ ~f.history /\ f.trashed = 0
  BY FolderRowOk DEF Current
<1>2. FileRow(u, p, n, c) = r
  BY DEF FileRow
<1> HIDE DEF f
<1>3. r \in Rows /\ r.user = u /\ r.parent = p /\ r.name = n /\ r.content = c
      /\ ~r.extra /\ ~r.history /\ r.trashed = 0
  BY <1>1 DEF Rows
<1>4. QED BY <1>2, <1>3 DEF Current

\* Something of user u may lie in row p.
HomeOf(plain, t, u, p) ==
    /\ p < t.next
    /\ Safe => p # 0
    /\ plain => p \in DOMAIN t.db /\ IsFolder(t.db[p]) /\ t.db[p].user = u

LEMMA HomeStays ==
  ASSUME NEW plain, NEW t \in Sane(plain), NEW s \in After(plain, t), NEW u, NEW p \in Nat,
         t.failed \/ HomeOf(plain, t, u, p)
  PROVE  s.failed \/ HomeOf(plain, s, u, p)
<1> SUFFICES ASSUME ~s.failed PROVE HomeOf(plain, s, u, p)
  OBVIOUS
<1>1. /\ HomeOf(plain, t, u, p) /\ s.next >= t.next
      /\ Kept(plain, t.db, t.next, s.db) /\ s \in Sane(plain)
  BY DEF After
<1>2. t.next \in Nat /\ s.next \in Nat
  BY <1>1, Shape
<1>3. QED BY <1>1, <1>2 DEF HomeOf, Kept, Same, IsFolder

LEMMA AddFolderAfter ==
  ASSUME NEW plain, NEW t \in Sane(plain), NEW u \in 1..Users, NEW p \in Nat, NEW n \in Text,
         t.failed \/ /\ HomeOf(plain, t, u, p)
                     /\ Safe => n # None
                     /\ plain => n \in FolderName
  PROVE  /\ AddFolder(t, u, p, n) \in After(plain, t)
         /\ AddFolder(t, u, p, n).failed \/ HomeOf(plain, AddFolder(t, u, p, n), u, t.next)
<1> DEFINE row == FolderRow(u, p, n)
<1>1. /\ row \in Rows /\ row.user = u /\ row.parent = p /\ row.name = n
      /\ IsFolder(row) /\ ~row.extra /\ Current(row)
  BY FolderRowOk
<1> HIDE DEF row
<1>2. t.failed \/ NewRow(plain, t, row)
  BY <1>1 DEF NewRow, HomeOf, InFolderOf
<1>3. /\ Add(t, row) \in After(plain, t) /\ Add(t, row).next = t.next + 1
      /\ Add(t, row).failed \/ (t.next \in DOMAIN Add(t, row).db /\ Add(t, row).db[t.next] = row)
  BY <1>1, <1>2, AddAfter
<1>4. Add(t, row).failed \/ HomeOf(plain, Add(t, row), u, t.next)
  <2>1. t.next \in Nat /\ t.next # 0
    BY Shape
  <2> DEFINE s == Add(t, row)
  <2> HIDE DEF s
  <2>2. s.next = t.next + 1 /\ (s.failed \/ (t.next \in DOMAIN s.db /\ s.db[t.next] = row))
    BY <1>3 DEF s
  <2>3. s.failed \/ HomeOf(plain, s, u, t.next)
    BY <1>1, <2>1, <2>2 DEF HomeOf
  <2>4. QED BY <2>3 DEF s
<1>5. Fail(t) \in After(plain, t) /\ Fail(t).failed
  BY AfterFail, Shape DEF Fail, Transactions
<1>6. AddFolder(t, u, p, n) \in {Fail(t), Add(t, row)}
  BY DEF AddFolder, row
<1>7. QED BY <1>3, <1>4, <1>5, <1>6

LEMMA AddFileAfter ==
  ASSUME NEW plain, NEW t \in Sane(plain), NEW u \in 1..Users, NEW p \in Nat, NEW n \in Given,
         NEW c \in Data \ {None}, NEW over,
         t.failed \/ HomeOf(plain, t, u, p), plain => n \notin FolderName
  PROVE  AddFile(t, u, p, n, c, over) \in After(plain, t)
<1> DEFINE id == SelectByParentIdAndName(View(t), u, p, n)
           exist == Row(View(t), id)
           row == FileRow(u, p, n, c)
<1>1. /\ row \in Rows /\ row.user = u /\ row.parent = p /\ row.name = n
      /\ ~IsFolder(row) /\ ~row.extra /\ Current(row)
  <2>1. n \in Text /\ c \in Data /\ c # None
    BY DEF Given
  <2>2. QED BY <2>1, FileRowOk DEF IsFolder
<1> HIDE DEF row
<1>2. ASSUME NEW s \in After(plain, t) PROVE Add(s, row) \in After(plain, t)
  <2>1. s.failed \/ HomeOf(plain, s, u, p)
    BY HomeStays
  <2>2. n # None /\ s \in Sane(plain)
    BY DEF Given, After
  <2>3. s.failed \/ NewRow(plain, s, row)
    BY <1>1, <2>1, <2>2 DEF NewRow, HomeOf, InFolderOf
  <2>4. Add(s, row) \in After(plain, s)
    BY <1>1, <2>2, <2>3, AddAfter
  <2>5. QED BY <2>4, AfterTrans
<1>3. t \in After(plain, t) /\ Fail(t) \in After(plain, t)
  BY AfterSelf, AfterFail
<1>4. CASE id = 0
  <2>1. AddFile(t, u, p, n, c, over) = Add(t, row)
    BY <1>4 DEF AddFile, row
  <2>2. QED BY <1>2, <1>3, <2>1
<1>5. CASE id # 0 /\ IsFolder(exist)
  <2>1. AddFile(t, u, p, n, c, over) = Fail(t)
    BY <1>5 DEF AddFile
  <2>2. QED BY <1>3, <2>1
<1>6. CASE id # 0 /\ ~IsFolder(exist) /\ exist.content = c
  <2>1. AddFile(t, u, p, n, c, over) = t
    BY <1>6 DEF AddFile
  <2>2. QED BY <1>3, <2>1
<1>7. CASE id # 0 /\ ~IsFolder(exist) /\ exist.content # c
  <2>1. AddFile(t, u, p, n, c, over) = IF over THEN Add(SetHistory(t, id), row) ELSE Fail(t)
    BY <1>7 DEF AddFile, row
  <2>2. /\ id \in DOMAIN View(t) /\ View(t)[id].user = u /\ View(t)[id].parent = p
        /\ View(t)[id].name = n
    BY <1>7, LookUp, Shape
  <2>3. t.failed \/ (id \in DOMAIN t.db =>
                        /\ ~IsFolder(t.db[id])
                        /\ Still => /\ row.user = t.db[id].user
                                    /\ row.parent = t.db[id].parent
                                    /\ row.name = t.db[id].name)
    <3>1. t.failed \/ Agree(View(t), t.db)
      BY SeeGood
    <3>2. exist = View(t)[id]
      BY <2>2 DEF Row
    <3>3. Still => Calm
      BY DEF Still
    <3> HIDE DEF id, exist
    <3>4. QED BY <1>1, <1>7, <2>2, <3>1, <3>2, <3>3 DEF Agree, Same, IsFolder
  <2> HIDE DEF id, exist
  <2>4. t.failed \/ NewRow(plain, t, row)
    BY <1>1 DEF Given, NewRow, HomeOf, InFolderOf
  <2>5. Add(SetHistory(t, id), row) \in After(plain, t)
    BY <1>1, <2>3, <2>4, OverwriteAfter
  <2>6. QED BY <1>3, <2>1, <2>5
<1>8. QED BY <1>4, <1>5, <1>6, <1>7

\* Where Mkdirs is on its way for user u.
Walks(plain, t, u) ==
    {m \in [t: After(plain, t), folder: Nat, creating: BOOLEAN] :
        m.t.failed \/ HomeOf(plain, m.t, u, m.folder)}

LEMMA WalkMakes ==
  ASSUME NEW plain, NEW t \in Sane(plain), NEW u \in 1..Users, NEW s \in After(plain, t),
         NEW p \in Nat, NEW n \in Text,
         s.failed \/ /\ HomeOf(plain, s, u, p)
                     /\ Safe => n # None
                     /\ plain => n \in FolderName
  PROVE  [t |-> AddFolder(s, u, p, n), folder |-> s.next, creating |-> TRUE] \in Walks(plain, t, u)
<1>1. s \in Sane(plain)
  BY DEF After
<1> DEFINE r == AddFolder(s, u, p, n)
<1>2. r \in After(plain, s) /\ (r.failed \/ HomeOf(plain, r, u, s.next))
  BY <1>1, AddFolderAfter
<1> HIDE DEF r
<1>3. r \in After(plain, t)
  BY <1>2, AfterTrans
<1>4. s.next \in Nat
  BY <1>1, Shape
<1>5. QED BY <1>2, <1>3, <1>4 DEF Walks, r

LEMMA WalkFinds ==
  ASSUME NEW plain, NEW t \in Sane(plain), NEW u \in 1..Users, NEW s \in After(plain, t),
         NEW c \in BOOLEAN, NEW id \in DOMAIN View(s), View(s)[id].user = u
  PROVE  [t |-> IF IsFolder(Row(View(s), id)) THEN s ELSE Fail(s), folder |-> id, creating |-> c]
            \in Walks(plain, t, u)
<1>1. s \in Sane(plain)
  BY DEF After
<1>2. id \in Nat /\ id # 0
  BY <1>1, Shape, TableRows
<1>3. Fail(s) \in After(plain, t) /\ Fail(s).failed
  BY <1>1, AfterFail, AfterTrans, Shape DEF Fail, Transactions
<1>4. ASSUME IsFolder(Row(View(s), id)), ~s.failed PROVE HomeOf(plain, s, u, id)
  <2>1. IsFolder(View(s)[id])
    BY <1>4 DEF Row
  <2>2. /\ Sound(View(s), s.next) /\ Agree(View(s), s.db)
        /\ plain => DOMAIN View(s) \subseteq DOMAIN s.db
    BY <1>1, <1>4, SeeGood
  <2>3. QED BY <1>2, <2>1, <2>2 DEF HomeOf, Sound, Agree, Same, IsFolder
<1>5. QED BY <1>2, <1>3, <1>4 DEF Walks

LEMMA MkdirsOneWalks ==
  ASSUME NEW plain, NEW t \in Sane(plain), NEW u \in 1..Users,
         NEW m \in Walks(plain, t, u), NEW n \in Made(plain)
  PROVE  MkdirsOne(m, u, n) \in Walks(plain, t, u)
<1> DEFINE id == SelectByParentIdAndName(View(m.t), u, m.folder, n)
<1>1. /\ m.t \in After(plain, t) /\ m.folder \in Nat /\ m.creating \in BOOLEAN
      /\ m.t.failed \/ HomeOf(plain, m.t, u, m.folder)
      /\ m = [t |-> m.t, folder |-> m.folder, creating |-> m.creating]
  BY DEF Walks
<1>2. n \in Text /\ n # None /\ (plain => n \in FolderName)
  BY DEF Made, Given
<1>3. CASE ~m.creating /\ id # 0
  <2>1. id \in DOMAIN View(m.t) /\ View(m.t)[id].user = u
    <3>1. View(m.t) \in Tables
      BY <1>1, Shape DEF After
    <3>2. QED BY <1>3, <3>1, LookUp
  <2>2. MkdirsOne(m, u, n) = [t |-> IF IsFolder(Row(View(m.t), id)) THEN m.t ELSE Fail(m.t),
                              folder |-> id, creating |-> m.creating]
    <3> DEFINE r == IF IsFolder(Row(View(m.t), id)) THEN m.t ELSE Fail(m.t)
    <3>1. MkdirsOne(m, u, n) = [m EXCEPT !.folder = id, !.t = r]
      BY <1>3 DEF MkdirsOne
    <3> HIDE DEF r, id
    <3>2. QED BY <1>1, <3>1 DEF r
  <2> HIDE DEF id
  <2>3. QED BY <1>1, <2>1, <2>2, WalkFinds
<1>4. CASE ~(~m.creating /\ id # 0)
  <2>1. MkdirsOne(m, u, n) = [t |-> AddFolder(m.t, u, m.folder, n), folder |-> m.t.next,
                              creating |-> TRUE]
    BY <1>4 DEF MkdirsOne
  <2>2. QED BY <1>1, <1>2, <2>1, WalkMakes
<1>5. QED BY <1>3, <1>4

LEMMA MkdirsStarts ==
  ASSUME NEW plain, NEW t \in Sane(plain), NEW u \in 1..Users
  PROVE  MkdirsOne([t |-> t, folder |-> 0, creating |-> FALSE], u, None) \in Walks(plain, t, u)
<1> DEFINE m == [t |-> t, folder |-> 0, creating |-> FALSE]
           id == SelectByParentIdAndName(View(t), u, 0, None)
<1>1. t \in After(plain, t)
  BY AfterSelf
<1>2. CASE id # 0
  <2>1. id \in DOMAIN View(t) /\ View(t)[id].user = u
    BY <1>2, Shape, LookUp
  <2>2. MkdirsOne(m, u, None) = [t |-> IF IsFolder(Row(View(t), id)) THEN t ELSE Fail(t),
                                 folder |-> id, creating |-> FALSE]
    <3> DEFINE r == IF IsFolder(Row(View(t), id)) THEN t ELSE Fail(t)
    <3>1. MkdirsOne(m, u, None) = [m EXCEPT !.folder = id, !.t = r]
      BY <1>2 DEF MkdirsOne
    <3> HIDE DEF r, id
    <3>2. QED BY <3>1 DEF r
  <2> HIDE DEF id
  <2>3. QED BY <1>1, <2>1, <2>2, WalkFinds
<1>3. CASE id = 0
  <2>1. MkdirsOne(m, u, None) = [t |-> AddFolder(t, u, 0, None), folder |-> t.next,
                                 creating |-> TRUE]
    BY <1>3 DEF MkdirsOne
  <2>2. ~t.failed => ~Safe
    <3> SUFFICES ASSUME ~t.failed, Safe PROVE FALSE
      OBVIOUS
    <3>1. Rooted(View(t))
      BY SeeGood
    <3>2. u \in DOMAIN View(t) /\ Root(View(t)[u], u)
      BY <3>1 DEF Rooted
    <3>3. QED BY <1>3, <3>2, LookUp, Shape DEF Root
  <2>3. ~t.failed => ~plain
    BY <2>2 DEF Sane, Good
  <2>4. 0 < t.next /\ None \in Text
    BY Shape DEF Text
  <2>5. QED BY <1>1, <2>1, <2>2, <2>3, <2>4, WalkMakes DEF HomeOf
<1>4. QED BY <1>2, <1>3

LEMMA MkdirsWalks ==
  ASSUME NEW plain, NEW t \in Sane(plain), NEW u \in 1..Users, NEW path \in Seq(Made(plain))
  PROVE  Mkdirs(t, u, path) \in Walks(plain, t, u)
<1> DEFINE D == Walks(plain, t, u)
           E == Made(plain)
           start == MkdirsOne([t |-> t, folder |-> 0, creating |-> FALSE], u, None)
           op(m, n) == MkdirsOne(m, u, n)
           h == [x \in D \X E |-> op(x[1], x[2])]
           Fold(g) == g = [s \in SUBSET DOMAIN path |->
                              IF s = {} THEN start ELSE op(g[s \ {Max(s)}], path[Max(s)])]
           f == CHOOSE g : Fold(g)
<1>1. start \in D /\ \A m \in D, n \in E : op(m, n) \in D
  BY MkdirsOneWalks, MkdirsStarts
<1> HIDE DEF D, E, start, op
<1>2. h \in [D \X E -> D]
  BY <1>1
<1>3. PICK g : FoldsIn(g, h, start, path, D, E)
  <2> HIDE DEF h
  <2>1. path \in Seq(E)
    BY DEF E
  <2>2. QED BY <1>1, <1>2, <2>1, FoldIn
<1>4. \A s \in SUBSET DOMAIN path : s # {} =>
         h[<<g[s \ {Max(s)}], path[Max(s)]>>] = op(g[s \ {Max(s)}], path[Max(s)])
  BY <1>3 DEF FoldsIn
<1>5. Fold(g)
  <2> HIDE DEF h
  <2>1. QED BY <1>3, <1>4 DEF IsFold, FoldsIn
<1>6. Fold(f)
  <2> HIDE DEF Fold
  <2>1. QED BY <1>5
<1>7. Mkdirs(t, u, path) = f[DOMAIN path]
  BY DEF Mkdirs, FoldLeft, MapThenFoldSet, op, start
<1> HIDE DEF f
<1>8. Stays(D, E, path, f)
  BY <1>1, <1>6 DEF Stays
<1>9. \A s \in SUBSET DOMAIN path : f[s] \in D
  BY <1>8, PositionsStay DEF E
<1>10. QED BY <1>7, <1>9 DEF D

LEMMA FrontAndLast ==
  ASSUME NEW S, NEW path \in Seq(S), path # <<>>
  PROVE  Front(path) \in Seq(S) /\ Last(path) \in S
BY DEF Front, Last

LEMMA MadeSeq ==
  ASSUME NEW plain, NEW path \in Seq(Given), plain => path \in Seq(FolderName)
  PROVE  path \in Seq(Made(plain)) /\ path \in Seq(Text)
<1>1. \A k \in 1..Len(path) : path[k] \in Given /\ (plain => path[k] \in FolderName)
  OBVIOUS
<1>2. \A k \in 1..Len(path) : path[k] \in Made(plain) /\ path[k] \in Text
  BY <1>1 DEF Made, Given
<1>3. Len(path) \in Nat /\ DOMAIN path = 1..Len(path) /\ path = [k \in 1..Len(path) |-> path[k]]
  OBVIOUS
<1>4. QED BY <1>2, <1>3

\* The outcome of a search for the folder of user u.
FolderFound(plain, t, u, g) ==
    /\ g.t \in After(plain, t) /\ g.folder \in Nat
    /\ g.t.failed \/ HomeOf(plain, g.t, u, g.folder)

LEMMA GetIdByFolderFinds ==
  ASSUME NEW plain, NEW t \in Sane(plain), NEW u \in 1..Users, NEW path \in Seq(Given),
         plain => path \in Seq(FolderName)
  PROVE  FolderFound(plain, t, u, GetIdByFolder(t, u, path))
<1> DEFINE id == SelectIdByPath(View(t), u, path)
<1>1. path \in Seq(Made(plain)) /\ path \in Seq(Text)
  BY MadeSeq
<1>2. CASE id # 0
  <2>1. GetIdByFolder(t, u, path) = [t |-> t, folder |-> id]
    BY <1>2 DEF GetIdByFolder
  <2>2. /\ id \in Nat /\ id \in DOMAIN View(t) /\ View(t)[id].user = u
        /\ path # <<>> => View(t)[id].name = Last(path)
        /\ path = <<>> => View(t)[id].name = None
    BY <1>1, <1>2, Shape, FindPath
  <2>3. plain => View(t)[id].name \in FolderName \cup {None}
    <3>1. plain /\ path # <<>> => Last(path) \in FolderName
      BY FrontAndLast
    <3>2. QED BY <2>2, <3>1
  <2> HIDE DEF id
  <2>4. ASSUME ~t.failed PROVE HomeOf(plain, t, u, id)
    <3>1. /\ Sound(View(t), t.next) /\ Agree(View(t), t.db)
          /\ plain => Placed(View(t)) /\ DOMAIN View(t) \subseteq DOMAIN t.db
      BY <2>4, SeeGood
    <3>2. plain => IsFolder(View(t)[id])
      BY <2>2, <2>3, <3>1 DEF Placed
    <3>3. QED BY <1>2, <2>2, <3>1, <3>2 DEF HomeOf, Sound, Agree, Same, IsFolder
  <2>5. t \in After(plain, t)
    BY AfterSelf
  <2>6. QED BY <2>1, <2>2, <2>4, <2>5 DEF FolderFound
<1>3. CASE id = 0
  <2>1. GetIdByFolder(t, u, path) = Mkdirs(t, u, path)
    BY <1>3 DEF GetIdByFolder
  <2>2. Mkdirs(t, u, path) \in Walks(plain, t, u)
    BY <1>1, MkdirsWalks
  <2>3. QED BY <2>1, <2>2 DEF Walks, FolderFound
<1>4. QED BY <1>2, <1>3

LEMMA AddAtPathAfter ==
  ASSUME NEW plain, NEW t \in Sane(plain), NEW u \in 1..Users, NEW owner \in 1..Users,
         NEW path \in Seq(Given), path # <<>>, NEW c \in Data \ {None}, NEW over,
         plain => owner = u /\ FilePath(path)
  PROVE  AddAtPath(t, u, owner, path, c, over) \in After(plain, t)
<1> DEFINE g == GetIdByFolder(t, u, Front(path))
<1>1. Front(path) \in Seq(Given) /\ Last(path) \in Given
  BY FrontAndLast
<1>2. FolderFound(plain, t, u, g)
  BY <1>1, GetIdByFolderFinds DEF FilePath
<1> HIDE DEF g
<1>3. g.t \in Sane(plain) /\ g.t \in After(plain, t)
  BY <1>2 DEF FolderFound, After
<1>4. g.t.failed \/ HomeOf(plain, g.t, owner, g.folder)
  BY <1>2 DEF FolderFound, HomeOf
<1>5. AddFile(g.t, owner, g.folder, Last(path), c, over) \in After(plain, g.t)
  BY <1>1, <1>2, <1>3, <1>4, AddFileAfter DEF FilePath, FolderFound
<1>6. QED BY <1>3, <1>5, AfterTrans DEF AddAtPath, g

LEMMA MkdirsAfter ==
  ASSUME NEW plain, NEW t \in Sane(plain), NEW u \in 1..Users, NEW path \in Seq(Given),
         plain => path \in Seq(FolderName)
  PROVE  Mkdirs(t, u, path).t \in After(plain, t)
<1>1. Mkdirs(t, u, path) \in Walks(plain, t, u)
  BY MadeSeq, MkdirsWalks
<1>2. QED BY <1>1 DEF Walks

LEMMA CreateFolderAfter ==
  ASSUME NEW plain, NEW t \in Sane(plain), NEW u \in 1..Users, NEW path \in Seq(Given),
         plain => path \in Seq(FolderName)
  PROVE  CreateFolder(t, u, path) \in After(plain, t)
BY AfterFail, MkdirsAfter DEF CreateFolder

-----------------------------------------------------------------------------
(* Names, the recycle bin, and the way back.                               *)

LEMMA NoRootHasName ==
  ASSUME NEW db, NEW i \in DOMAIN db, db[i].name # None, Rooted(db)
  PROVE  i \notin 1..Users /\ db[i].parent # 0
BY DEF Rooted, Root

LEMMA NameIsGiven == Name \subseteq Given
BY NameAssumption DEF Given, Text

NamedPath == {p \in Seq(Given) : p # <<>>}

\* What is found by such a path is no root.
LEMMA FindNoRoot ==
  ASSUME NEW db \in Tables, NEW u, NEW path \in NamedPath, Safe => Rooted(db),
         SelectIdByPath(db, u, path) # 0
  PROVE  LET id == SelectIdByPath(db, u, path)
         IN  /\ id \in DOMAIN db /\ id \in Nat /\ db[id].user = u /\ db[id].name = Last(path)
             /\ Last(path) \in Given
             /\ Safe => id \notin 1..Users /\ db[id].parent # 0
<1> DEFINE id == SelectIdByPath(db, u, path)
<1>1. path \in Seq(Given) /\ path # <<>> /\ path \in Seq(Text)
  BY MadeSeq DEF NamedPath
<1>2. id \in DOMAIN db /\ id \in Nat /\ db[id].user = u /\ db[id].name = Last(path)
  BY <1>1, FindPath
<1> HIDE DEF id
<1>3. Last(path) \in Given /\ Last(path) # None
  BY <1>1, FrontAndLast DEF Given
<1>4. QED BY <1>2, <1>3, NoRootHasName DEF id

LEMMA RenameAfter ==
  ASSUME NEW plain, NEW t \in Sane(plain), ~t.failed, NEW u \in 1..Users, NEW path \in NamedPath,
         NEW name \in Given, ~Calm, plain => (Last(path) \in FolderName <=> name \in FolderName)
  PROVE  Rename(t, u, path, name) \in After(plain, t)
<1> DEFINE id == SelectIdByPath(t.seen, u, path)
           row == Row(t.seen, id)
<1>1. /\ Good(plain, t) /\ t.seen \in Tables /\ t.db \in Tables
      /\ Sound(t.seen, t.next) /\ Agree(t.seen, t.db)
  BY Shape DEF Sane, Good
<1>2. CASE id = 0
  BY <1>2, AfterFail DEF Rename
<1>3. CASE id # 0
  <2>1. /\ id \in DOMAIN t.seen /\ id \in Nat /\ t.seen[id].user = u
        /\ t.seen[id].name = Last(path) /\ Last(path) \in Given
        /\ Safe => id \notin 1..Users /\ t.seen[id].parent # 0
    BY <1>1, <1>3, FindNoRoot DEF Good
  <2>2. row = t.seen[id]
    BY <2>1 DEF Row
  <2> HIDE DEF id, row
  <2>3. row \in Rows /\ row.parent \in Nat /\ row.parent < t.next
    BY <1>1, <2>1, <2>2, TableRows DEF Sound, Rows
  <2>4. name \in Text /\ name # None
    BY DEF Given
  <2>5. NewPlace(plain, t, id, row.parent, name)
    <3> SUFFICES ASSUME id \in DOMAIN t.db
                 PROVE  plain => /\ t.db[id].extra
                                    \/ InFolderOf(t.db, [t.db[id] EXCEPT !.parent = row.parent])
                                 /\ IsFolder(t.db[id]) <=> name \in FolderName \cup {None}
      BY <2>1, <2>2, <2>3, <2>4 DEF NewPlace
    <3> SUFFICES ASSUME plain
                 PROVE /\ t.db[id].extra
                          \/ InFolderOf(t.db, [t.db[id] EXCEPT !.parent = row.parent])
                       /\ IsFolder(t.db[id]) <=> name \in FolderName \cup {None}
      OBVIOUS
    <3>1. Placed(t.seen) /\ DOMAIN t.seen \subseteq DOMAIN t.db
      BY <1>1 DEF Good
    <3>2. Same(t.db[id], row)
      BY <1>1, <2>1, <2>2 DEF Agree
    <3>3. row.extra \/ InFolderOf(t.seen, row)
      BY <2>1, <2>2, <3>1 DEF Placed, Given
    <3>4. IsFolder(row) <=> Last(path) \in FolderName
      BY <2>1, <2>2, <3>1 DEF Placed, Given
    <3>5. InFolderOf(t.seen, row) => InFolderOf(t.db, [t.db[id] EXCEPT !.parent = row.parent])
      <4>1. t.db[id] \in Rows
        BY <1>1, TableRows
      <4>2. [t.db[id] EXCEPT !.parent = row.parent].parent = row.parent
            /\ [t.db[id] EXCEPT !.parent = row.parent].user = row.user
        BY <3>2, <4>1 DEF Rows, Same
      <4>3. QED BY <1>1, <3>1, <4>2 DEF InFolderOf, Agree, Same, IsFolder
    <3>6. QED BY <2>4, <3>2, <3>3, <3>4, <3>5 DEF Same, IsFolder
  <2>6. MoveRow(t, id, row.parent, name) \in After(plain, t)
    BY <2>3, <2>4, <2>5, MoveRowAfter
  <2>7. Rename(t, u, path, name) \in {Fail(t), MoveRow(t, id, row.parent, name)}
    BY DEF Rename, id, row
  <2>8. QED BY <2>6, <2>7, AfterFail
<1>4. QED BY <1>2, <1>3

\* What a request that deletes makes of t.
Deletes(plain, t) == {s \in After(plain, t) : s.failed \/ (Calm => Graved(s))}

LEMMA SetDeleteDeletes ==
  ASSUME NEW plain, NEW t \in Sane(plain), NEW s \in Deletes(plain, t), NEW i,
         s.failed \/ (Safe => i \notin 1..Users)
  PROVE  SetDelete(s, i) \in Deletes(plain, t)
<1>1. s \in Sane(plain) /\ s \in After(plain, t)
  BY DEF Deletes, After
<1>2. SetDelete(s, i) \in After(plain, s)
      /\ (SetDelete(s, i).failed \/ (Calm => Graved(SetDelete(s, i))))
  BY <1>1, SetDeleteAfter DEF Deletes
<1>3. QED BY <1>1, <1>2, AfterTrans DEF Deletes

LEMMA FailDeletes ==
  ASSUME NEW plain, NEW t \in Sane(plain), NEW s \in Deletes(plain, t)
  PROVE  Fail(s) \in Deletes(plain, t)
<1>1. s \in Sane(plain) /\ s \in After(plain, t)
  BY DEF Deletes, After
<1>2. Fail(s).failed
  BY <1>1, Shape DEF Fail, Transactions
<1>3. QED BY <1>1, <1>2, AfterFail, AfterTrans DEF Deletes

\* Nothing has been deleted at this moment yet.
Fresh(t) == ~t.failed /\ \A i \in DOMAIN t.db : t.db[i].trashed # t.now

LEMMA FreshDeletes ==
  ASSUME NEW plain, NEW t \in Sane(plain), Fresh(t)
  PROVE  t \in Deletes(plain, t)
BY AfterSelf DEF Fresh, Deletes, Graved

LEMMA DeletePathDeletes ==
  ASSUME NEW plain, NEW t \in Sane(plain), NEW u, NEW s \in Deletes(plain, t), NEW p \in NamedPath
  PROVE  DeletePath(s, u, p) \in Deletes(plain, t)
<1> DEFINE id == SelectIdByPath(View(s), u, p)
<1>1. s \in Sane(plain)
  BY DEF Deletes, After
<1>2. View(s) \in Tables /\ (s.failed \/ (Safe => Rooted(View(s))))
  BY <1>1, Shape, SeeGood
<1>3. id # 0 => (s.failed \/ (Safe => id \notin 1..Users))
  BY <1>2, FindNoRoot
<1> HIDE DEF id
<1>4. DeletePath(s, u, p) = IF id = 0 THEN Fail(s) ELSE SetDelete(s, id)
  BY DEF DeletePath, id
<1>5. QED BY <1>3, <1>4, SetDeleteDeletes, FailDeletes

LEMMA DeleteByPathAfter ==
  ASSUME NEW plain, NEW t \in Sane(plain), Fresh(t), NEW u, NEW paths \in Seq(NamedPath)
  PROVE  DeleteByPath(t, u, paths) \in After(plain, t)
<1> DEFINE D == Deletes(plain, t)
           E == NamedPath
           base == t
           op(s, p) == DeletePath(s, u, p)
           h == [x \in D \X E |-> op(x[1], x[2])]
           Fold(g) == g = [s \in SUBSET DOMAIN paths |->
                              IF s = {} THEN base ELSE op(g[s \ {Max(s)}], paths[Max(s)])]
           f == CHOOSE g : Fold(g)
<1>1. base \in D
  BY FreshDeletes
<1>2. \A x \in D, e \in E : op(x, e) \in D
  BY DeletePathDeletes
<1>3. paths \in Seq(E)
  OBVIOUS
<1> HIDE DEF D, E, base, op
<1>4. h \in [D \X E -> D]
  BY <1>2
<1>5. PICK g : FoldsIn(g, h, base, paths, D, E)
  <2> HIDE DEF h
  <2>1. QED BY <1>1, <1>3, <1>4, FoldIn
<1>6. \A s \in SUBSET DOMAIN paths : s # {} =>
         h[<<g[s \ {Max(s)}], paths[Max(s)]>>] = op(g[s \ {Max(s)}], paths[Max(s)])
  BY <1>5 DEF FoldsIn
<1>7. Fold(g)
  <2> HIDE DEF h
  <2>1. QED BY <1>5, <1>6 DEF IsFold, FoldsIn
<1>8. Fold(f)
  <2> HIDE DEF Fold
  <2>1. QED BY <1>7
<1>9. DeleteByPath(t, u, paths) = f[DOMAIN paths]
  BY DEF DeleteByPath, FoldLeft, MapThenFoldSet, op, base
<1> HIDE DEF f
<1>10. Stays(D, E, paths, f)
  BY <1>1, <1>2, <1>8 DEF Stays
<1>11. \A s \in SUBSET DOMAIN paths : f[s] \in D
  BY <1>3, <1>10, PositionsStay
<1>12. QED BY <1>9, <1>11 DEF D, Deletes

\* The ids of rows that are no roots.
NoRoot == {i \in Id : Safe => i \notin 1..Users}

LEMMA DeleteByIdAfter ==
  ASSUME NEW plain, NEW t \in Sane(plain), Fresh(t), NEW u, NEW ids \in Seq(NoRoot)
  PROVE  DeleteById(t, u, ids) \in After(plain, t)
<1> DEFINE D == Deletes(plain, t)
           E == NoRoot
           base == t
           op(s, i) == DeleteId(s, u, i)
           h == [x \in D \X E |-> op(x[1], x[2])]
           Fold(g) == g = [s \in SUBSET DOMAIN ids |->
                              IF s = {} THEN base ELSE op(g[s \ {Max(s)}], ids[Max(s)])]
           f == CHOOSE g : Fold(g)
<1>1. base \in D
  BY FreshDeletes
<1>2. \A x \in D, e \in E : op(x, e) \in D
  BY SetDeleteDeletes, FailDeletes DEF DeleteId, NoRoot
<1>3. ids \in Seq(E)
  OBVIOUS
<1> HIDE DEF D, E, base, op
<1>4. h \in [D \X E -> D]
  BY <1>2
<1>5. PICK g : FoldsIn(g, h, base, ids, D, E)
  <2> HIDE DEF h
  <2>1. QED BY <1>1, <1>3, <1>4, FoldIn
<1>6. \A s \in SUBSET DOMAIN ids : s # {} =>
         h[<<g[s \ {Max(s)}], ids[Max(s)]>>] = op(g[s \ {Max(s)}], ids[Max(s)])
  BY <1>5 DEF FoldsIn
<1>7. Fold(g)
  <2> HIDE DEF h
  <2>1. QED BY <1>5, <1>6 DEF IsFold, FoldsIn
<1>8. Fold(f)
  <2> HIDE DEF Fold
  <2>1. QED BY <1>7
<1>9. DeleteById(t, u, ids) = f[DOMAIN ids]
  BY DEF DeleteById, FoldLeft, MapThenFoldSet, op, base
<1> HIDE DEF f
<1>10. Stays(D, E, ids, f)
  BY <1>1, <1>2, <1>8 DEF Stays
<1>11. \A s \in SUBSET DOMAIN ids : f[s] \in D
  BY <1>3, <1>10, PositionsStay
<1>12. QED BY <1>9, <1>11 DEF D, Deletes

LEMMA TrashRecoverAfter ==
  ASSUME NEW plain, NEW t \in Sane(plain), ~Still, NEW u, NEW ids \in Seq(NoRoot)
  PROVE  TrashRecover(t, u, ids) \in After(plain, t)
<1> DEFINE D == After(plain, t)
           E == NoRoot
           base == t
           op(s, i) == RecoverId(s, u, i)
           h == [x \in D \X E |-> op(x[1], x[2])]
           Fold(g) == g = [s \in SUBSET DOMAIN ids |->
                              IF s = {} THEN base ELSE op(g[s \ {Max(s)}], ids[Max(s)])]
           f == CHOOSE g : Fold(g)
<1>1. base \in D
  BY AfterSelf
<1>2. \A x \in D, e \in E : op(x, e) \in D
  <2> SUFFICES ASSUME NEW s \in After(plain, t), NEW i \in NoRoot
               PROVE  RecoverId(s, u, i) \in After(plain, t)
    OBVIOUS
  <2>1. s \in Sane(plain)
    BY DEF After
  <2>2. RecoverId(s, u, i) \in {Fail(s), SetNotDelete(s, i)}
    BY DEF RecoverId
  <2>3. QED BY <2>1, <2>2, AfterFail, SetNotDeleteAfter, AfterTrans
<1>3. ids \in Seq(E)
  OBVIOUS
<1> HIDE DEF D, E, base, op
<1>4. h \in [D \X E -> D]
  BY <1>2
<1>5. PICK g : FoldsIn(g, h, base, ids, D, E)
  <2> HIDE DEF h
  <2>1. QED BY <1>1, <1>3, <1>4, FoldIn
<1>6. \A s \in SUBSET DOMAIN ids : s # {} =>
         h[<<g[s \ {Max(s)}], ids[Max(s)]>>] = op(g[s \ {Max(s)}], ids[Max(s)])
  BY <1>5 DEF FoldsIn
<1>7. Fold(g)
  <2> HIDE DEF h
  <2>1. QED BY <1>5, <1>6 DEF IsFold, FoldsIn
<1>8. Fold(f)
  <2> HIDE DEF Fold
  <2>1. QED BY <1>7
<1>9. TrashRecover(t, u, ids) = f[DOMAIN ids]
  BY DEF TrashRecover, FoldLeft, MapThenFoldSet, op, base
<1> HIDE DEF f
<1>10. Stays(D, E, ids, f)
  BY <1>1, <1>2, <1>8 DEF Stays
<1>11. \A s \in SUBSET DOMAIN ids : f[s] \in D
  BY <1>3, <1>10, PositionsStay
<1>12. QED BY <1>9, <1>11 DEF D

-----------------------------------------------------------------------------
(* The maps of Copy, ShareSaveTo and Move.                                 *)

LEMMA ImageFinite == ASSUME NEW S, IsFiniteSet(S), NEW f
  PROVE IsFiniteSet({f[x] : x \in S})
<1> DEFINE T == {f[x] : x \in S}
           g == [x \in S |-> f[x]]
<1>1. g \in Surjection(S, T)
  BY DEF Surjection
<1> HIDE DEF T, g
<1>2. IsFiniteSet(T)
  BY <1>1, FS_Surjection
<1>3. QED BY <1>2 DEF T

LEMMA FunctionsFinite == ASSUME NEW S, NEW T, IsFiniteSet(S), IsFiniteSet(T)
  PROVE IsFiniteSet([S -> T])
<1> DEFINE G == SUBSET (S \X T)
           g == [f \in [S -> T] |-> {<<x, f[x]>> : x \in S}]
<1>1. g \in [[S -> T] -> G]
  OBVIOUS
<1>2. \A e, f \in [S -> T] : g[e] = g[f] => e = f
  <2> SUFFICES ASSUME NEW e \in [S -> T], NEW f \in [S -> T], g[e] = g[f]
               PROVE e = f
    OBVIOUS
  <2>1. \A x \in S : e[x] = f[x]
    <3> SUFFICES ASSUME NEW x \in S PROVE e[x] = f[x]
      OBVIOUS
    <3>1. <<x, e[x]>> \in {<<y, f[y]>> : y \in S}
      OBVIOUS
    <3>2. QED BY <3>1
  <2>2. QED BY <2>1
<1> HIDE DEF g
<1>3. g \in Injection([S -> T], G)
  BY <1>1, <1>2 DEF Injection, IsInjective
<1>4. IsFiniteSet(G)
  BY FS_Product, FS_SUBSET
<1> HIDE DEF G
<1>5. QED BY <1>3, <1>4, FS_Injection

LEMMA BoundedFinite == ASSUME NEW S, IsFiniteSet(S), NEW n \in Int
  PROVE IsFiniteSet(BoundedSeq(S, n))
<1> DEFINE f == [m \in 0..n |-> [1..m -> S]]
           T == {f[m] : m \in 0..n}
<1>1. IsFiniteSet(0..n) /\ \A m \in 0..n : m \in Int /\ IsFiniteSet(1..m)
  BY FS_Interval
<1>2. IsFiniteSet(T)
  <2> HIDE DEF f
  <2>1. QED BY <1>1, ImageFinite
<1>3. \A X \in T : IsFiniteSet(X)
  <2> SUFFICES ASSUME NEW m \in 0..n PROVE IsFiniteSet([1..m -> S])
    OBVIOUS
  <2>1. IsFiniteSet(1..m)
    BY <1>1
  <2>2. QED BY <2>1, FunctionsFinite
<1>4. BoundedSeq(S, n) = UNION T
  BY DEF BoundedSeq, SeqOf
<1> HIDE DEF T
<1>5. QED BY <1>2, <1>3, <1>4, FS_UNION

LEMMA BoundedIsSeq == ASSUME NEW S, NEW n \in Int
  PROVE BoundedSeq(S, n) \subseteq Seq(S)
BY DEF BoundedSeq, SeqOf

LEMMA BelowIs ==
  ASSUME NEW db \in Tables, IsFiniteSet(DOMAIN db), NEW u, NEW source \in NamedPath, NEW depth \in Int
  PROVE  /\ IsFiniteSet(PathsBelow(db, u, source, depth))
         /\ \A p \in PathsBelow(db, u, source, depth) :
               \E r \in Seq(Given) :
                  /\ p = source \o r
                  /\ r # <<>> => IsFolder(Row(db, SelectIdByPath(db, u, source)))
<1> DEFINE named == [i \in DOMAIN db |-> db[i].name]
           names == {db[i].name : i \in DOMAIN db} \ {None}
           B == BoundedSeq(names, depth - Len(source))
           join == [r \in B |-> source \o r]
           walks(r) == /\ SelectIdByPath(db, u, source \o r) # 0
                       /\ \A k \in 0..Len(r) - 1 :
                             IsFolder(Row(db, SelectIdByPath(db, u, source \o SubSeq(r, 1, k))))
           W == {r \in B : walks(r)}
<1>1. source \in Seq(Given) /\ Len(source) \in Nat /\ depth - Len(source) \in Int
  BY DEF NamedPath
<1>2. names \subseteq Given /\ IsFiniteSet(names)
  <2>1. {named[i] : i \in DOMAIN db} = {db[i].name : i \in DOMAIN db}
    OBVIOUS
  <2> HIDE DEF named
  <2>2. IsFiniteSet({db[i].name : i \in DOMAIN db})
    BY <2>1, ImageFinite
  <2>3. \A i \in DOMAIN db : db[i].name \in Text
    BY TableRows DEF Rows
  <2>4. QED BY <2>2, <2>3, FS_Difference DEF Given
<1> HIDE DEF names
<1>3. IsFiniteSet(B) /\ B \subseteq Seq(names)
  BY <1>1, <1>2, BoundedFinite, BoundedIsSeq
<1>4. PathsBelow(db, u, source, depth) = {source \o r : r \in W}
  BY DEF PathsBelow, names
<1>5. W \subseteq B /\ \A r \in W : walks(r)
  OBVIOUS
<1>6. {source \o r : r \in W} = {join[r] : r \in W}
  BY <1>5
<1> HIDE DEF B, walks, W
<1>7. IsFiniteSet(W)
  BY <1>3, <1>5, FS_Subset
<1>8. IsFiniteSet(PathsBelow(db, u, source, depth))
  <2> HIDE DEF join
  <2>1. IsFiniteSet({join[r] : r \in W})
    BY <1>7, ImageFinite
  <2>2. QED BY <1>4, <1>6, <2>1
<1>9. ASSUME NEW p \in PathsBelow(db, u, source, depth)
      PROVE  \E r \in Seq(Given) :
                  /\ p = source \o r
                  /\ r # <<>> => IsFolder(Row(db, SelectIdByPath(db, u, source)))
  <2>1. PICK r \in W : p = source \o r
    BY <1>4
  <2>2. r \in Seq(names) /\ walks(r)
    BY <1>3, <1>5
  <2>3. r \in Seq(Given)
    BY <1>2, <2>2
  <2>4. ASSUME r # <<>> PROVE IsFolder(Row(db, SelectIdByPath(db, u, source)))
    <3>1. 0 \in 0..Len(r) - 1
      BY <2>3, <2>4
    <3>2. source \o SubSeq(r, 1, 0) = source
      BY <1>1, <2>3
    <3>3. IsFolder(Row(db, SelectIdByPath(db, u, source \o SubSeq(r, 1, 0))))
      BY <2>2, <3>1 DEF walks
    <3>4. QED BY <3>2, <3>3
  <2>5. QED BY <2>1, <2>3, <2>4
<1>10. QED BY <1>8, <1>9

LEMMA RestIs == ASSUME NEW S, NEW a \in Seq(S), NEW r \in Seq(S)
  PROVE SubSeq(a \o r, Len(a) + 1, Len(a \o r)) = r
<1> DEFINE s == a \o r
           m == Len(a) + 1
           n == Len(s)
           q == SubSeq(s, m, n)
<1>1. s \in Seq(S) /\ n = Len(a) + Len(r) /\ Len(a) \in Nat /\ Len(r) \in Nat
      /\ \A i \in 1..Len(r) : s[Len(a) + i] = r[i]
  OBVIOUS
<1> HIDE DEF s
<1>2. Len(q) = Len(r) /\ q \in Seq(S)
  BY <1>1
<1>3. \A i \in 1..Len(r) : q[i] = s[m + i - 1]
  BY <1>1
<1>4. \A i \in 1..Len(r) : m + i - 1 = Len(a) + i
  BY <1>1
<1> HIDE DEF q, m
<1>5. \A i \in 1..Len(r) : q[i] = r[i]
  BY <1>1, <1>3, <1>4
<1>6. q = r
  BY <1>2, <1>5
<1>7. QED BY <1>6 DEF q, m, n, s

\* A map takes what lies below a source to the same place below its target.
MapOf(db, u, sources, targets, which, map) ==
    /\ IsFiniteSet(DOMAIN map)
    /\ \A p \in DOMAIN map :
          /\ p \in NamedPath /\ map[p] \in NamedPath
          /\ \E k \in which, r \in Seq(Given) :
                /\ p = sources[k] \o r /\ map[p] = targets[k] \o r
                /\ r # <<>> => IsFolder(Row(db, SelectIdByPath(db, u, sources[k])))

LEMMA MapIs ==
  ASSUME NEW db \in Tables, IsFiniteSet(DOMAIN db), NEW u, NEW sources \in Seq(NamedPath),
         NEW which \in SUBSET DOMAIN sources, NEW targets, \A k \in which : targets[k] \in NamedPath,
         NEW depth \in Int
  PROVE  MapOf(db, u, sources, targets, which,
               SourceToTarget(db, u, sources, targets, which, depth))
<1> DEFINE map == SourceToTarget(db, u, sources, targets, which, depth)
           below(k) == PathsBelow(db, u, sources[k], depth)
           Z == [k \in which |-> below(k)]
           All == {Z[k] : k \in which}
           n == Len(sources)
<1>1. n \in Nat /\ DOMAIN sources = 1..n /\ \A k \in 1..n : sources[k] \in NamedPath
  OBVIOUS
<1>2. DOMAIN map = UNION All
  BY DEF SourceToTarget
<1>3. \A k \in which : IsFiniteSet(below(k))
  BY <1>1, BelowIs
<1>4. IsFiniteSet(which)
  <2>1. IsFiniteSet(1..n) /\ which \in SUBSET (1..n)
    BY <1>1, FS_Interval
  <2> HIDE DEF n
  <2>2. QED BY <2>1, FS_Subset
<1>5. IsFiniteSet(DOMAIN map)
  <2>1. IsFiniteSet(All)
    <3> HIDE DEF Z
    <3>1. QED BY <1>4, ImageFinite
  <2>2. \A X \in All : IsFiniteSet(X)
    BY <1>3
  <2> HIDE DEF All, map
  <2>3. QED BY <1>2, <2>1, <2>2, FS_UNION
<1>6. ASSUME NEW p \in DOMAIN map
      PROVE  /\ p \in NamedPath /\ map[p] \in NamedPath
             /\ \E k \in which, r \in Seq(Given) :
                   /\ p = sources[k] \o r /\ map[p] = targets[k] \o r
                   /\ r # <<>> => IsFolder(Row(db, SelectIdByPath(db, u, sources[k])))
  <2> DEFINE hits == {k \in which : p \in below(k)}
             of == Max(hits)
  <2>1. hits \in SUBSET (1..n) /\ hits # {}
    BY <1>1, <1>2
  <2>2. of \in hits
    <3> HIDE DEF hits, n
    <3>1. QED BY <1>1, <2>1, MaxIn
  <2>3. map[p] = targets[of] \o SubSeq(p, Len(sources[of]) + 1, Len(p))
    BY DEF SourceToTarget
  <2>4. of \in which /\ p \in below(of) /\ sources[of] \in NamedPath /\ targets[of] \in NamedPath
    BY <1>1, <2>2
  <2> HIDE DEF of, map
  <2>5. PICK r \in Seq(Given) :
           /\ p = sources[of] \o r
           /\ r # <<>> => IsFolder(Row(db, SelectIdByPath(db, u, sources[of])))
    <3> DEFINE source == sources[of]
    <3>1. source \in NamedPath /\ p \in PathsBelow(db, u, source, depth)
      BY <2>4
    <3> HIDE DEF source
    <3>2. \E r \in Seq(Given) :
             /\ p = source \o r
             /\ r # <<>> => IsFolder(Row(db, SelectIdByPath(db, u, source)))
      BY <3>1, BelowIs
    <3>3. QED BY <3>2 DEF source
  <2>6. SubSeq(sources[of] \o r, Len(sources[of]) + 1, Len(sources[of] \o r)) = r
    BY <2>4, RestIs DEF NamedPath
  <2>7. map[p] = targets[of] \o r
    BY <2>3, <2>5, <2>6
  <2>8. p \in NamedPath /\ map[p] \in NamedPath
    BY <2>4, <2>5, <2>7 DEF NamedPath
  <2>9. QED BY <2>4, <2>5, <2>7, <2>8
<1> HIDE DEF map
<1>7. MapOf(db, u, sources, targets, which, map)
  BY <1>5, <1>6 DEF MapOf
<1>8. QED BY <1>7 DEF map

LEMMA OrderIs == ASSUME NEW map, IsFiniteSet(DOMAIN map), NEW order \in Orders(map)
  PROVE  /\ order \in Seq(DOMAIN map)
         /\ \A i, j \in DOMAIN order : order[i] = order[j] => i = j
<1>1. Cardinality(DOMAIN map) \in Nat
  BY FS_CardinalityType
<1>2. QED BY <1>1 DEF Orders, SetToSeqs

LEMMA NotPlain == ASSUME NEW plain, ~plain, NEW t
  PROVE Sane(FALSE) = Sane(plain) /\ After(FALSE, t) = After(plain, t)
<1>1. \A s : Good(FALSE, s) <=> Good(plain, s)
  BY DEF Good
<1>2. \A s : Kept(FALSE, t.db, t.next, s.db) <=> Kept(plain, t.db, t.next, s.db)
  BY DEF Kept
<1>3. Sane(FALSE) = Sane(plain)
  BY <1>1 DEF Sane
<1>4. QED BY <1>2, <1>3 DEF After

LEMMA Weaker == ASSUME NEW plain, NEW t \in Sane(plain)
  PROVE t \in Sane(FALSE)
BY DEF Sane, Good

LEMMA CopyOneAfter ==
  ASSUME NEW plain, NEW t \in Sane(plain), NEW reader, NEW u \in 1..Users,
         NEW source \in NamedPath, NEW target \in NamedPath, NEW over,
         plain => /\ reader = u /\ FilePath(target)
                  /\ ~IsFolder(Row(View(t), SelectIdByPath(View(t), reader, source)))
  PROVE  CopyOne(t, reader, u, source, target, over) \in After(plain, t)
<1> DEFINE id == SelectIdByPath(View(t), reader, source)
           row == Row(View(t), id)
<1>1. target \in Seq(Given) /\ target # <<>> /\ source \in Seq(Text)
  BY MadeSeq DEF NamedPath
<1>2. CASE IsFolder(row)
  <2>1. CopyOne(t, reader, u, source, target, over) = Mkdirs(t, u, target).t
    BY <1>2 DEF CopyOne
  <2>2. QED BY <1>1, <1>2, <2>1, MkdirsAfter
<1>3. CASE ~IsFolder(row)
  <2>1. CopyOne(t, reader, u, source, target, over)
        = AddAtPath(t, u, row.user, target, row.content, over)
    BY <1>3 DEF CopyOne
  <2>2. View(t) \in Tables
    BY Shape
  <2>3. id \in DOMAIN View(t)
    BY <1>3 DEF Row, NoRow, IsFolder
  <2>4. row = View(t)[id] /\ row \in Rows
    BY <2>2, <2>3, TableRows DEF Row
  <2>5. row.user = reader
    <3>1. id # 0
      BY <2>2, <2>3, TableRows
    <3>2. QED BY <1>1, <2>2, <2>4, <3>1, FindPath
  <2> HIDE DEF id, row
  <2>6. row.user \in 1..Users /\ row.content \in Data \ {None}
    BY <1>3, <2>4 DEF Rows, IsFolder
  <2>7. QED BY <1>1, <2>1, <2>5, <2>6, AddAtPathAfter
<1>4. QED BY <1>2, <1>3

\* What has to do with order: one step per path, and a plain one makes just one.
PlainCopy(t, reader, u, map, order) ==
    /\ reader = u /\ Len(order) <= 1
    /\ \A p \in DOMAIN map :
          /\ FilePath(map[p])
          /\ ~IsFolder(Row(View(t), SelectIdByPath(View(t), reader, p)))

LEMMA CopyInOrderAfter ==
  ASSUME NEW plain, NEW t \in Sane(plain), NEW reader, NEW u \in 1..Users, NEW map,
         \A p \in DOMAIN map : p \in NamedPath /\ map[p] \in NamedPath,
         NEW order \in Seq(DOMAIN map), NEW over,
         plain => PlainCopy(t, reader, u, map, order)
  PROVE  CopyInOrder(t, reader, u, map, over, order) \in After(plain, t)
<1> DEFINE D == After(FALSE, t)
           E == DOMAIN map
           op(s, p) == CopyOne(s, reader, u, p, map[p], over)
           h == [x \in D \X E |-> op(x[1], x[2])]
           Fold(g) == g = [s \in SUBSET DOMAIN order |->
                              IF s = {} THEN t ELSE op(g[s \ {Max(s)}], order[Max(s)])]
           f == CHOOSE g : Fold(g)
<1>0. t \in Sane(FALSE)
  BY Weaker
<1>1. t \in D
  BY <1>0, AfterSelf
<1>2. \A x \in D, e \in E : op(x, e) \in D
  <2> SUFFICES ASSUME NEW s \in After(FALSE, t), NEW p \in E
               PROVE  op(s, p) \in After(FALSE, t)
    OBVIOUS
  <2>1. s \in Sane(FALSE)
    BY DEF After
  <2>2. op(s, p) \in After(FALSE, s)
    BY <2>1, CopyOneAfter
  <2> HIDE DEF op
  <2>3. QED BY <1>0, <2>2, AfterTrans
<1>3. order \in Seq(E)
  OBVIOUS
<1> HIDE DEF D, E, op
<1>4. h \in [D \X E -> D]
  BY <1>2
<1>5. PICK g : FoldsIn(g, h, t, order, D, E)
  <2> HIDE DEF h
  <2>1. QED BY <1>1, <1>3, <1>4, FoldIn
<1>6. \A s \in SUBSET DOMAIN order : s # {} =>
         h[<<g[s \ {Max(s)}], order[Max(s)]>>] = op(g[s \ {Max(s)}], order[Max(s)])
  BY <1>5 DEF FoldsIn
<1>7. Fold(g)
  <2> HIDE DEF h
  <2>1. QED BY <1>5, <1>6 DEF IsFold, FoldsIn
<1>8. Fold(f)
  <2> HIDE DEF Fold
  <2>1. QED BY <1>7
<1>9. CopyInOrder(t, reader, u, map, over, order) = f[DOMAIN order]
  BY DEF CopyInOrder, FoldLeft, MapThenFoldSet, op
<1> HIDE DEF f
<1>10. CASE ~plain
  <2>1. Stays(D, E, order, f)
    BY <1>1, <1>2, <1>8 DEF Stays
  <2>2. \A s \in SUBSET DOMAIN order : f[s] \in D
    BY <1>3, <2>1, PositionsStay
  <2>3. f[DOMAIN order] \in After(FALSE, t)
    BY <2>2 DEF D
  <2>4. QED BY <1>9, <1>10, <2>3, NotPlain
<1>11. CASE plain
  <2>1. PlainCopy(t, reader, u, map, order) /\ Len(order) \in Nat /\ DOMAIN order = 1..Len(order)
    BY <1>11
  <2>2. f[{}] = t
    BY <1>8
  <2>3. CASE Len(order) = 0
    <3>1. DOMAIN order = {}
      BY <2>1, <2>3
    <3>2. QED BY <1>9, <2>2, <3>1, AfterSelf
  <2>4. CASE Len(order) = 1
    <3>1. DOMAIN order = {1} /\ order[1] \in DOMAIN map
      BY <2>1, <2>4
    <3>2. Max({1}) = 1
      BY MaxOfTop
    <3>3. f[{1}] = op(t, order[1])
      <4>1. {1} \in SUBSET DOMAIN order /\ {1} # {} /\ {1} \ {1} = {}
        BY <3>1
      <4>2. f[{1}] = op(f[{1} \ {Max({1})}], order[Max({1})])
        BY <1>8, <4>1
      <4>3. QED BY <2>2, <3>2, <4>1, <4>2
    <3>4. op(t, order[1]) \in After(plain, t)
      BY <1>11, <2>1, <3>1, CopyOneAfter DEF PlainCopy, op
    <3>5. QED BY <1>9, <3>1, <3>3, <3>4
  <2>5. QED BY <2>1, <2>3, <2>4 DEF PlainCopy
<1>12. QED BY <1>10, <1>11

LEMMA TableFinite == ASSUME NEW db \in Tables, NEW n \in Nat, Sound(db, n)
  PROVE IsFiniteSet(DOMAIN db)
<1>1. DOMAIN db \in SUBSET (1..n)
  <2>1. \A i \in DOMAIN db : i \in Nat /\ i # 0 /\ i < n
    BY TableRows DEF Sound
  <2>2. QED BY <2>1
<1>2. QED BY <1>1, FS_Interval, FS_Subset

LEMMA AppendIs == ASSUME NEW S, NEW folder \in Seq(S), NEW T, NEW n \in T
  PROVE /\ Append(folder, n) # <<>> /\ Last(Append(folder, n)) = n
        /\ Front(Append(folder, n)) = folder
        /\ S \subseteq T => Append(folder, n) \in Seq(T)
<1>1. Append(folder, n) # <<>> /\ Last(Append(folder, n)) = n
  BY DEF Last
<1>2. Front(Append(folder, n)) = folder
  BY DEF Front
<1>3. S \subseteq T => folder \in Seq(T)
  <2>1. S \subseteq T => \A k \in 1..Len(folder) : folder[k] \in T
    OBVIOUS
  <2>2. folder = [k \in 1..Len(folder) |-> folder[k]] /\ Len(folder) \in Nat
    OBVIOUS
  <2>3. QED BY <2>1, <2>2
<1>4. QED BY <1>1, <1>2, <1>3

LEMMA SeqAt == ASSUME NEW S, NEW s \in Seq(S)
  PROVE \A k \in DOMAIN s : s[k] \in S
OBVIOUS

LEMMA SeqGrows == ASSUME NEW S, NEW T, S \subseteq T, NEW s \in Seq(S)
  PROVE s \in Seq(T)
<1>1. \A k \in 1..Len(s) : s[k] \in T
  OBVIOUS
<1>2. s = [k \in 1..Len(s) |-> s[k]] /\ Len(s) \in Nat
  OBVIOUS
<1>3. QED BY <1>1, <1>2

LEMMA PathNamed == Path \subseteq NamedPath
<1> SUFFICES ASSUME NEW p \in Path PROVE p \in NamedPath
  OBVIOUS
<1>1. p \in Seq(Name) /\ p # <<>>
  BY DEF Path
<1>2. p \in Seq(Given)
  BY <1>1, NameIsGiven, SeqGrows
<1>3. QED BY <1>1, <1>2 DEF NamedPath

\* One file that is copied or moved is all that there is.
LEMMA OneFileMap ==
  ASSUME NEW db \in Tables, IsFiniteSet(DOMAIN db), Placed(db), NEW u,
         NEW sources \in Seq(NamedPath), Len(sources) = 1, Last(sources[1]) \notin FolderName,
         NEW which \in SUBSET DOMAIN sources, NEW targets, \A k \in which : targets[k] \in NamedPath,
         which # {} => SelectIdByPath(db, u, sources[1]) # 0, NEW depth \in Int
  PROVE  LET map == SourceToTarget(db, u, sources, targets, which, depth)
         IN  \A p \in DOMAIN map :
                /\ p = sources[1] /\ map[p] = targets[1] /\ which # {}
                /\ ~IsFolder(Row(db, SelectIdByPath(db, u, p)))
<1> DEFINE map == SourceToTarget(db, u, sources, targets, which, depth)
           id == SelectIdByPath(db, u, sources[1])
<1> SUFFICES ASSUME NEW p \in DOMAIN map
             PROVE  /\ p = sources[1] /\ map[p] = targets[1] /\ which # {}
                    /\ ~IsFolder(Row(db, SelectIdByPath(db, u, p)))
  OBVIOUS
<1>1. \E k \in which, r \in Seq(Given) :
         /\ p = sources[k] \o r /\ map[p] = targets[k] \o r
         /\ r # <<>> => IsFolder(Row(db, SelectIdByPath(db, u, sources[k])))
  <2>1. MapOf(db, u, sources, targets, which, map)
    BY MapIs
  <2> HIDE DEF map
  <2>2. QED BY <2>1 DEF MapOf
<1> HIDE DEF map
<1>2. PICK k \in which, r \in Seq(Given) :
         /\ p = sources[k] \o r /\ map[p] = targets[k] \o r
         /\ r # <<>> => IsFolder(Row(db, SelectIdByPath(db, u, sources[k])))
  BY <1>1
<1>3. k = 1 /\ which # {} /\ sources[1] \in NamedPath
  <2>1. DOMAIN sources = 1..Len(sources) /\ k \in DOMAIN sources /\ Len(sources) = 1
    OBVIOUS
  <2>2. k = 1 /\ 1 \in DOMAIN sources
    BY <2>1
  <2>3. \A j \in DOMAIN sources : sources[j] \in NamedPath
    BY SeqAt
  <2>4. which # {}
    OBVIOUS
  <2>5. sources[1] \in NamedPath
    BY <2>2, <2>3
  <2>6. QED BY <2>2, <2>4, <2>5
<1>4. sources[1] \in Seq(Given) /\ sources[1] # <<>> /\ sources[1] \in Seq(Text)
  BY <1>3, MadeSeq DEF NamedPath
<1>5. id # 0 /\ id \in DOMAIN db /\ db[id].name = Last(sources[1])
  BY <1>3, <1>4, FindPath
<1>6. Last(sources[1]) # None
  BY <1>4, FrontAndLast DEF Given
<1> HIDE DEF id
<1>7. ~IsFolder(Row(db, id))
  BY <1>5, <1>6 DEF Placed, Row
<1>8. r = <<>>
  BY <1>2, <1>3, <1>7 DEF id
<1>9. targets[1] \in Seq(Given)
  BY <1>3 DEF NamedPath
<1>10. QED BY <1>2, <1>3, <1>4, <1>7, <1>8, <1>9 DEF id

LEMMA ShortOrder ==
  ASSUME NEW S, NEW x, S \subseteq {x}, NEW order \in Seq(S),
         \A i, j \in DOMAIN order : order[i] = order[j] => i = j
  PROVE  Len(order) <= 1
<1> SUFFICES ASSUME Len(order) > 1 PROVE FALSE
  OBVIOUS
<1>1. 1 \in DOMAIN order /\ 2 \in DOMAIN order
  OBVIOUS
<1>2. order[1] = x /\ order[2] = x
  BY <1>1
<1>3. QED BY <1>1, <1>2

\* A file goes into a folder, under its name or one with a number.
PlainPlace(sources, folder) ==
    /\ Len(sources) = 1 /\ Last(sources[1]) \notin FolderName
    /\ folder \in Seq(FolderName)

PlainNumbers ==
    \A n \in Name \ FolderName :
        \A k \in DOMAIN NumberedName[n] : NumberedName[n][k] \notin FolderName

LEMMA FreeNameIs == ASSUME NEW db, NEW u, NEW path \in Path
  PROVE /\ FreeName(db, u, path) \in Name \cup {None}
        /\ PlainNumbers /\ Last(path) \notin FolderName /\ FreeName(db, u, path) # None
              => FreeName(db, u, path) \notin FolderName
<1> DEFINE names == NumberedName[Last(path)]
           parent == SelectIdByPath(db, u, Front(path))
           free == {k \in DOMAIN names : SelectByParentIdAndName(db, u, parent, names[k]) = 0}
<1>1. Last(path) \in Name
  BY FrontAndLast DEF Path
<1>2. names \in Seq(Name) /\ free \in SUBSET Nat /\ free \subseteq DOMAIN names
  BY <1>1, NumberedAssumption
<1>3. FreeName(db, u, path) = IF free = {} THEN None ELSE names[Min(free)]
  BY DEF FreeName
<1> HIDE DEF free
<1>4. free # {} => Min(free) \in DOMAIN names
  BY <1>2, TheMin
<1>5. free # {} => names[Min(free)] \in Name
  BY <1>2, <1>4
<1>6. PlainNumbers /\ Last(path) \notin FolderName /\ free # {}
         => names[Min(free)] \notin FolderName
  BY <1>1, <1>4 DEF PlainNumbers
<1>7. QED BY <1>3, <1>5, <1>6

LEMMA CopyAllAfter ==
  ASSUME NEW plain, NEW t \in Sane(plain), NEW reader, NEW u \in 1..Users, NEW map,
         IsFiniteSet(DOMAIN map), \A p \in DOMAIN map : p \in NamedPath /\ map[p] \in NamedPath,
         NEW over, plain => \A order \in Orders(map) : PlainCopy(t, reader, u, map, order)
  PROVE  \A s \in CopyAll(t, reader, u, map, over) : s \in After(plain, t)
<1> SUFFICES ASSUME NEW order \in Orders(map)
             PROVE  CopyInOrder(t, reader, u, map, over, order) \in After(plain, t)
  BY DEF CopyAll
<1>1. order \in Seq(DOMAIN map)
  BY OrderIs
<1>2. QED BY <1>1, CopyInOrderAfter

LEMMA TargetIs ==
  ASSUME NEW db, NEW u, NEW sources \in Seq(Path), NEW folder \in Seq(Name), NEW k \in DOMAIN sources,
         Last(CopyTargets(db, u, sources, folder)[k]) # None
  PROVE  LET target == CopyTargets(db, u, sources, folder)[k]
         IN  /\ target \in NamedPath /\ Front(target) = folder
             /\ PlainNumbers /\ Last(sources[k]) \notin FolderName => Last(target) \notin FolderName
<1> DEFINE target == CopyTargets(db, u, sources, folder)[k]
           free == FreeName(db, u, sources[k])
           same == Last(sources[k])
           source == sources[k]
<1>1. source \in Path
  BY SeqAt
<1>2. target = IF Append(folder, same) = source THEN Append(folder, free) ELSE Append(folder, same)
  BY DEF CopyTargets
<1>3. /\ free \in Name \cup {None}
      /\ PlainNumbers /\ same \notin FolderName /\ free # None => free \notin FolderName
  <2> HIDE DEF source
  <2>1. /\ FreeName(db, u, source) \in Name \cup {None}
        /\ PlainNumbers /\ Last(source) \notin FolderName /\ FreeName(db, u, source) # None
              => FreeName(db, u, source) \notin FolderName
    BY <1>1, FreeNameIs
  <2>2. QED BY <2>1 DEF source
<1>4. same \in Name
  <2> HIDE DEF source
  <2>1. Last(source) \in Name
    BY <1>1, FrontAndLast DEF Path
  <2>2. QED BY <2>1 DEF source
<1> HIDE DEF free, same, source
<1>5. ASSUME NEW n \in Name \cup {None}, target = Append(folder, n)
      PROVE  /\ n # None => target \in NamedPath
             /\ Front(target) = folder /\ Last(target) = n
  <2> HIDE DEF target
  <2>1. Name \subseteq Given
    BY NameIsGiven
  <2>2. /\ Append(folder, n) # <<>> /\ Last(Append(folder, n)) = n /\ Front(Append(folder, n)) = folder
    BY AppendIs
  <2>3. n # None => Append(folder, n) \in Seq(Given)
    <3> SUFFICES ASSUME n # None PROVE Append(folder, n) \in Seq(Given)
      OBVIOUS
    <3>1. n \in Given
      BY <2>1
    <3>2. QED BY <2>1, <3>1, AppendIs
  <2>4. QED BY <1>5, <2>2, <2>3 DEF NamedPath
<1>6. Last(target) # None
  OBVIOUS
<1> HIDE DEF target
<1>7. CASE target = Append(folder, free)
  BY <1>3, <1>5, <1>6, <1>7 DEF target, source, same
<1>8. CASE target = Append(folder, same)
  BY <1>4, <1>5, <1>6, <1>8 DEF target, source, same
<1>9. QED BY <1>2, <1>7, <1>8

LEMMA SeenFinite == ASSUME NEW plain, NEW t \in Sane(plain), ~t.failed
  PROVE t.seen \in Tables /\ IsFiniteSet(DOMAIN t.seen) /\ (plain => Placed(t.seen))
<1>1. t.seen \in Tables /\ t.next \in Nat
  BY Shape
<1>2. Sound(t.seen, t.next) /\ (plain => Placed(t.seen))
  BY DEF Sane, Good
<1>3. QED BY <1>1, <1>2, TableFinite

\* One plain file is copied or moved in one step.
LEMMA OneFileOrder ==
  ASSUME NEW db \in Tables, IsFiniteSet(DOMAIN db), Placed(db), NEW u,
         NEW sources \in Seq(NamedPath), Len(sources) = 1, Last(sources[1]) \notin FolderName,
         NEW which \in SUBSET DOMAIN sources, NEW targets,
         \A k \in which : targets[k] \in NamedPath /\ FilePath(targets[k]),
         \A k \in which : SelectIdByPath(db, u, sources[k]) # 0, NEW depth \in Int,
         NEW order \in Orders(SourceToTarget(db, u, sources, targets, which, depth))
  PROVE  LET map == SourceToTarget(db, u, sources, targets, which, depth)
         IN  /\ Len(order) <= 1
             /\ \A p \in DOMAIN map : /\ FilePath(map[p]) /\ map[p] = targets[1] /\ 1 \in which
                                      /\ p = sources[1]
                                      /\ ~IsFolder(Row(db, SelectIdByPath(db, u, p)))
<1> DEFINE map == SourceToTarget(db, u, sources, targets, which, depth)
<1>0. which \in SUBSET {1}
  <2>1. DOMAIN sources = 1..Len(sources)
    OBVIOUS
  <2>2. 1..Len(sources) = {1}
    OBVIOUS
  <2>3. QED BY <2>1, <2>2
<1>1. which # {} => 1 \in which
  BY <1>0
<1>2. \A p \in DOMAIN map :
         /\ p = sources[1] /\ map[p] = targets[1] /\ which # {}
         /\ ~IsFolder(Row(db, SelectIdByPath(db, u, p)))
  <2>1. which # {} => SelectIdByPath(db, u, sources[1]) # 0
    BY <1>1
  <2>2. QED BY <2>1, OneFileMap
<1>3. MapOf(db, u, sources, targets, which, map)
  BY MapIs
<1> HIDE DEF map
<1>4. /\ order \in Seq(DOMAIN map)
      /\ \A i, j \in DOMAIN order : order[i] = order[j] => i = j
  <2>1. IsFiniteSet(DOMAIN map) /\ order \in Orders(map)
    BY <1>3 DEF MapOf, map
  <2>2. QED BY <2>1, OrderIs
<1>5. DOMAIN map \subseteq {sources[1]}
  BY <1>2
<1>6. Len(order) <= 1
  BY <1>4, <1>5, ShortOrder
<1>7. QED BY <1>1, <1>2, <1>6 DEF map

LEMMA CopyAfter ==
  ASSUME NEW plain, NEW t \in Sane(plain), ~t.failed, ~t.wrote, NEW u \in 1..Users,
         NEW sources \in Seq(Path), NEW folder \in Seq(Name), NEW over, NEW depth \in Int,
         plain => PlainPlace(sources, folder) /\ PlainNumbers
  PROVE  \A s \in Copy(t, u, sources, folder, over, depth) : s \in After(plain, t)
<1> DEFINE targets == CopyTargets(t.seen, u, sources, folder)
           which == DOMAIN sources
           map == SourceToTarget(t.seen, u, sources, targets, which, depth)
           can == Found(t, u, sources) /\ \A k \in DOMAIN sources : Last(targets[k]) # None
<1>1. /\ t.seen \in Tables /\ IsFiniteSet(DOMAIN t.seen) /\ (plain => Placed(t.seen))
      /\ View(t) = t.seen
  BY SeenFinite DEF View
<1>2. sources \in Seq(NamedPath)
  BY PathNamed, SeqGrows
<1>3. CASE can
  <2>1. \A k \in which : targets[k] \in NamedPath
    BY <1>3, TargetIs
  <2>2. MapOf(t.seen, u, sources, targets, which, map)
    <3> HIDE DEF targets, can
    <3>1. which \in SUBSET DOMAIN sources
      OBVIOUS
    <3> HIDE DEF which
    <3>2. QED BY <1>1, <1>2, <2>1, <3>1, MapIs
  <2>3. ASSUME plain, NEW order \in Orders(map) PROVE PlainCopy(t, u, u, map, order)
    <3>1. /\ Len(sources) = 1 /\ Last(sources[1]) \notin FolderName
          /\ folder \in Seq(FolderName) /\ PlainNumbers
      BY <2>3 DEF PlainPlace
    <3>2. \A k \in which : k = 1
      BY <3>1
    <3>3. \A k \in which : FilePath(targets[k])
      <4>1. \A k \in which : Last(sources[k]) \notin FolderName
        BY <3>1, <3>2
      <4>2. \A k \in which : Front(targets[k]) = folder /\ Last(targets[k]) \notin FolderName
        BY <1>3, <3>1, <4>1, TargetIs
      <4> HIDE DEF targets
      <4>3. QED BY <3>1, <4>2 DEF FilePath
    <3>4. \A k \in which : SelectIdByPath(t.seen, u, sources[k]) # 0
      BY <1>3 DEF Found
    <3>5. which \in SUBSET DOMAIN sources
      OBVIOUS
    <3> HIDE DEF targets, which, can
    <3>6. /\ Len(order) <= 1
          /\ \A p \in DOMAIN map : /\ FilePath(map[p])
                                   /\ ~IsFolder(Row(t.seen, SelectIdByPath(t.seen, u, p)))
      BY <1>1, <1>2, <2>1, <2>3, <3>1, <3>3, <3>4, <3>5, OneFileOrder
    <3> HIDE DEF map
    <3>7. QED BY <1>1, <3>6 DEF PlainCopy
  <2>4. Copy(t, u, sources, folder, over, depth) = CopyAll(t, u, u, map, over)
    BY <1>3 DEF Copy
  <2> HIDE DEF map, can
  <2>5. IsFiniteSet(DOMAIN map) /\ \A p \in DOMAIN map : p \in NamedPath /\ map[p] \in NamedPath
    BY <2>2 DEF MapOf
  <2>6. QED BY <2>3, <2>4, <2>5, CopyAllAfter
<1>4. CASE ~can
  <2>1. Copy(t, u, sources, folder, over, depth) = {Fail(t)}
    BY <1>4 DEF Copy
  <2>2. QED BY <2>1, AfterFail
<1>5. QED BY <1>3, <1>4

\* What lies in the folder under the last name of its source.
LEMMA InFolderIs ==
  ASSUME NEW sources \in Seq(Path), NEW folder \in Seq(Name), NEW k \in DOMAIN sources
  PROVE  LET target == InFolder(folder, sources)[k]
         IN  target \in NamedPath /\ Front(target) = folder /\ Last(target) = Last(sources[k])
<1> DEFINE target == InFolder(folder, sources)[k]
           n == Last(sources[k])
<1>1. n \in Name
  <2> DEFINE source == sources[k]
  <2>1. source \in Path
    BY SeqAt
  <2> HIDE DEF source
  <2>2. Last(source) \in Name
    BY <2>1, FrontAndLast DEF Path
  <2>3. QED BY <2>2 DEF source
<1>2. target = Append(folder, n)
  BY DEF InFolder
<1> HIDE DEF target, n
<1>3. n \in Given /\ Name \subseteq Given
  BY <1>1, NameIsGiven
<1>4. /\ target # <<>> /\ Last(target) = n /\ Front(target) = folder /\ target \in Seq(Given)
  BY <1>2, <1>3, AppendIs
<1>5. QED BY <1>4 DEF NamedPath, target, n

LEMMA ShareSaveToAfter ==
  ASSUME NEW plain, NEW t \in Sane(plain), ~t.failed, NEW u \in 1..Users, NEW sharer,
         NEW sources \in Seq(Path), NEW folder \in Seq(Name), NEW depth \in Int, ~plain
  PROVE  \A s \in ShareSaveTo(t, sharer, u, sources, folder, depth) : s \in After(plain, t)
<1> DEFINE targets == InFolder(folder, sources)
           which == DOMAIN sources
           map == SourceToTarget(t.seen, u, sources, targets, which, depth)
<1>1. t.seen \in Tables /\ IsFiniteSet(DOMAIN t.seen)
  BY SeenFinite
<1>2. sources \in Seq(NamedPath)
  BY PathNamed, SeqGrows
<1>3. \A k \in which : targets[k] \in NamedPath
  BY InFolderIs
<1>4. MapOf(t.seen, u, sources, targets, which, map)
  <2> HIDE DEF targets
  <2>1. which \in SUBSET DOMAIN sources
    OBVIOUS
  <2> HIDE DEF which
  <2>2. QED BY <1>1, <1>2, <1>3, <2>1, MapIs
<1>5. ShareSaveTo(t, sharer, u, sources, folder, depth)
      \in {CopyAll(t, sharer, u, map, FALSE), {Fail(t)}}
  BY DEF ShareSaveTo
<1> HIDE DEF map
<1>6. IsFiniteSet(DOMAIN map) /\ \A p \in DOMAIN map : p \in NamedPath /\ map[p] \in NamedPath
  BY <1>4 DEF MapOf
<1>7. \A s \in CopyAll(t, sharer, u, map, FALSE) : s \in After(plain, t)
  BY <1>6, CopyAllAfter
<1>8. Fail(t) \in After(plain, t)
  BY AfterFail
<1>9. QED BY <1>5, <1>7, <1>8

LEMMA FileMoves ==
  ASSUME NEW plain, NEW t \in Sane(plain), ~Calm, NEW u \in 1..Users,
         NEW source \in NamedPath, NEW target \in NamedPath, NEW id, NEW row, NEW g,
         id = SelectIdByPath(View(t), u, source), row = Row(View(t), id), ~IsFolder(row),
         g = GetIdByFolder(t, u, Front(target)), plain => FilePath(target)
  PROVE  /\ MoveRow(g.t, id, g.folder, Last(target)) \in After(plain, t)
         /\ MoveRow(g.t, id, g.folder, Last(target)) \in After(plain, g.t)
         /\ g.t \in After(plain, t)
<1>1. /\ target \in Seq(Given) /\ target # <<>>
      /\ Front(target) \in Seq(Given) /\ Last(target) \in Given
  BY FrontAndLast DEF NamedPath
<1>2. /\ g.t \in After(plain, t) /\ g.folder \in Nat
      /\ g.t.failed \/ HomeOf(plain, g.t, u, g.folder)
  <2>1. plain => Front(target) \in Seq(FolderName)
    BY DEF FilePath
  <2>2. FolderFound(plain, t, u, g)
    BY <1>1, <2>1, GetIdByFolderFinds
  <2>3. QED BY <2>2 DEF FolderFound
<1>3. /\ g.t \in Sane(plain) /\ (t.failed => g.t.failed) /\ View(t) \in Tables
      /\ t.next \in Nat /\ g.t.next \in Nat
  BY <1>2, Shape DEF After
<1>4. Last(target) \in Text /\ Last(target) # None
  BY <1>1 DEF Given
<1>5. ASSUME ~g.t.failed, id \in DOMAIN g.t.db
      PROVE  NewPlace(plain, g.t, id, g.folder, Last(target))
  <2>1. id \in DOMAIN View(t) /\ id # 0 /\ row = View(t)[id]
    <3>1. id \in DOMAIN View(t)
      BY DEF Row, NoRow, IsFolder
    <3>2. QED BY <1>3, <3>1, TableRows DEF Row
  <2>2. /\ ~t.failed /\ HomeOf(plain, g.t, u, g.folder) /\ Kept(plain, t.db, t.next, g.t.db)
    BY <1>2, <1>3, <1>5 DEF After
  <2>3. /\ Sound(View(t), t.next) /\ Agree(View(t), t.db) /\ (Safe => Rooted(View(t)))
        /\ plain => DOMAIN View(t) \subseteq DOMAIN t.db
    BY <2>2, SeeGood
  <2>4. row.user = u /\ (Safe => id \notin 1..Users)
    BY <1>3, <2>1, <2>3, FindNoRoot
  <2>5. ASSUME plain
        PROVE /\ InFolderOf(g.t.db, [g.t.db[id] EXCEPT !.parent = g.folder])
              /\ IsFolder(g.t.db[id]) <=> Last(target) \in FolderName \cup {None}
    <3>1. id < t.next /\ id \in DOMAIN t.db
      BY <2>1, <2>3, <2>5 DEF Sound
    <3>2. Same(g.t.db[id], row)
      BY <1>5, <2>1, <2>2, <2>3, <3>1 DEF Kept, Agree, Same
    <3>3. g.t.db[id] \in Rows
      BY <1>3, <1>5, Shape, TableRows
    <3>4. [g.t.db[id] EXCEPT !.parent = g.folder].parent = g.folder
          /\ [g.t.db[id] EXCEPT !.parent = g.folder].user = u
      BY <2>4, <3>2, <3>3 DEF Rows, Same
    <3>5. InFolderOf(g.t.db, [g.t.db[id] EXCEPT !.parent = g.folder])
      BY <2>2, <2>5, <3>4 DEF HomeOf, InFolderOf
    <3>6. QED BY <1>4, <2>5, <3>2, <3>5 DEF Same, IsFolder, FilePath
  <2>6. g.folder < g.t.next /\ (Safe => g.folder # 0)
    BY <2>2 DEF HomeOf
  <2>7. QED BY <1>4, <2>4, <2>5, <2>6 DEF NewPlace
<1>6. g.t.failed \/ NewPlace(plain, g.t, id, g.folder, Last(target))
  BY <1>5 DEF NewPlace
<1>7. MoveRow(g.t, id, g.folder, Last(target)) \in After(plain, g.t)
  BY <1>2, <1>3, <1>4, <1>6, MoveRowAfter
<1>8. QED BY <1>2, <1>7, AfterTrans

\* The ids of rows that are no roots, and the id 0 of no row.
NoRoot0 == {i \in Nat : Safe => i \notin 1..Users}

\* Where a move is: folders whose contents are gone are deleted at its end.
Moving(plain, t) ==
    {m \in [t: After(plain, t), emptied: Seq(Nat)] : m.t.failed \/ m.emptied \in Seq(NoRoot0)}

LEMMA MovingIs ==
  ASSUME NEW plain, NEW t, NEW s \in After(plain, t), NEW ids \in Seq(Nat),
         s.failed \/ ids \in Seq(NoRoot0)
  PROVE  [t |-> s, emptied |-> ids] \in Moving(plain, t)
BY DEF Moving

LEMMA MoveOneAfter ==
  ASSUME NEW plain, NEW t \in Sane(plain), ~Calm, NEW u \in 1..Users,
         NEW source \in NamedPath, NEW target \in NamedPath, NEW over, NEW ids \in Seq(Nat),
         t.failed \/ ids \in Seq(NoRoot0),
         plain => /\ FilePath(target)
                  /\ ~IsFolder(Row(View(t), SelectIdByPath(View(t), u, source)))
  PROVE  /\ MoveOne([t |-> t, emptied |-> ids], u, source, target, over) \in Moving(plain, t)
         /\ plain => MoveOne([t |-> t, emptied |-> ids], u, source, target, over).emptied = ids
<1> DEFINE m == [t |-> t, emptied |-> ids]
           id == SelectIdByPath(View(t), u, source)
           row == Row(View(t), id)
           g == GetIdByFolder(t, u, Front(target))
           hit == SelectByParentIdAndName(View(g.t), u, g.folder, row.name)
           moved == MoveRow(g.t, id, g.folder, Last(target))
           r == MoveOne(m, u, source, target, over)
<1>1. t \in After(plain, t) /\ Fail(t) \in After(plain, t) /\ Fail(t).failed
  BY AfterSelf, AfterFail, Shape DEF Fail, Transactions
<1>2. CASE IsFolder(row)
  <2> DEFINE made == Mkdirs(t, u, target).t
             more == Append(ids, id)
  <2>1. r = [t |-> made, emptied |-> more]
    BY <1>2 DEF MoveOne
  <2>2. ~plain
    BY <1>2
  <2>3. made \in After(plain, t) /\ (t.failed => made.failed)
    <3>1. target \in Seq(Given)
      BY DEF NamedPath
    <3>2. made \in After(plain, t)
      BY <2>2, <3>1, MkdirsAfter
    <3> HIDE DEF made
    <3>3. QED BY <3>2 DEF After
  <2>4. id \in Nat /\ (t.failed \/ id \in NoRoot0)
    <3>1. View(t) \in Tables /\ (t.failed \/ (Safe => Rooted(View(t))))
      BY Shape, SeeGood
    <3>2. id # 0 => id \in Nat /\ (t.failed \/ (Safe => id \notin 1..Users))
      BY <3>1, FindNoRoot, FindPath, MadeSeq DEF NamedPath
    <3>3. id \in Nat
      <4>1. source \in Seq(Text)
        BY MadeSeq DEF NamedPath
      <4>2. QED BY <3>1, <4>1, FindPath
    <3> HIDE DEF id
    <3>4. QED BY <3>2, <3>3 DEF NoRoot0
  <2> HIDE DEF made, id
  <2>5. more \in Seq(Nat) /\ (t.failed \/ more \in Seq(NoRoot0))
    BY <2>4
  <2> HIDE DEF more, m, r
  <2>6. [t |-> made, emptied |-> more] \in Moving(plain, t)
    BY <2>3, <2>5, MovingIs
  <2>7. QED BY <2>1, <2>2, <2>6 DEF m, r
<1>3. CASE ~IsFolder(row)
  <2>1. moved \in After(plain, t) /\ moved \in After(plain, g.t) /\ g.t \in After(plain, t)
    BY <1>3, FileMoves
  <2>2. ASSUME NEW s \in After(plain, t), r = [m EXCEPT !.t = s]
        PROVE  r \in Moving(plain, t) /\ r.emptied = ids
    <3> HIDE DEF r
    <3>1. r = [t |-> s, emptied |-> ids]
      BY <2>2
    <3>2. s.failed \/ ids \in Seq(NoRoot0)
      BY DEF After
    <3>3. QED BY <3>1, <3>2, MovingIs
  <2>3. CASE hit = 0
    <3>1. r = [m EXCEPT !.t = moved]
      BY <1>3, <2>3 DEF MoveOne
    <3> HIDE DEF moved, r, m
    <3>2. QED BY <2>1, <2>2, <3>1 DEF r, m
  <2>4. CASE hit # 0 /\ (IsFolder(Row(View(g.t), hit)) \/ ~over)
    <3>1. r = [m EXCEPT !.t = Fail(t)]
      BY <1>3, <2>4 DEF MoveOne
    <3> HIDE DEF r, m
    <3>2. QED BY <1>1, <2>2, <3>1 DEF r, m
  <2>5. CASE hit # 0 /\ ~(IsFolder(Row(View(g.t), hit)) \/ ~over)
    <3>1. r = [m EXCEPT !.t = SetHistory(moved, hit)]
      BY <1>3, <2>5 DEF MoveOne
    <3>2. g.t \in Sane(plain) /\ moved \in Sane(plain) /\ View(g.t) \in Tables
      BY <2>1, Shape DEF After
    <3>3. hit \in DOMAIN View(g.t)
      BY <2>5, <3>2, LookUp
    <3>4. moved.failed \/ (hit \in DOMAIN moved.db => ~IsFolder(moved.db[hit]))
      <4> SUFFICES ASSUME ~moved.failed, hit \in DOMAIN moved.db PROVE ~IsFolder(moved.db[hit])
        OBVIOUS
      <4> DEFINE q == g.t
                 h == hit
                 w == moved
      <4>1. q \in Sane(plain) /\ w \in After(plain, q) /\ h \in DOMAIN View(q)
            /\ ~w.failed /\ h \in DOMAIN w.db /\ ~IsFolder(Row(View(q), h))
        BY <2>1, <2>5, <3>2, <3>3
      <4> HIDE DEF q, h, w
      <4>2. ~q.failed /\ Kept(plain, q.db, q.next, w.db)
        BY <4>1 DEF After
      <4>3. Sound(View(q), q.next) /\ Agree(View(q), q.db)
        BY <4>1, <4>2, SeeGood
      <4>4. h \in DOMAIN q.db /\ Same(w.db[h], q.db[h])
        BY <4>1, <4>2, <4>3 DEF Sound, Kept
      <4>5. ~IsFolder(w.db[h])
        BY <4>1, <4>3, <4>4 DEF Agree, Same, IsFolder, Row
      <4>6. QED BY <4>5 DEF h, w
    <3> HIDE DEF moved, hit
    <3>5. SetHistory(moved, hit) \in After(plain, moved)
      BY <3>2, <3>4, SetHistoryAfter DEF Still
    <3>6. SetHistory(moved, hit) \in After(plain, t)
      BY <2>1, <3>5, AfterTrans
    <3> HIDE DEF r, m
    <3>7. QED BY <2>2, <3>1, <3>6 DEF r, m
  <2>6. QED BY <2>3, <2>4, <2>5
<1>4. QED BY <1>2, <1>3

LEMMA MoveInOrderAfter ==
  ASSUME NEW plain, NEW t \in Sane(plain), ~Calm, NEW u \in 1..Users, NEW map,
         \A p \in DOMAIN map : p \in NamedPath /\ map[p] \in NamedPath,
         NEW order \in Seq(DOMAIN map), NEW over,
         plain => PlainCopy(t, u, u, map, order)
  PROVE  /\ MoveInOrder(t, u, map, over, order) \in Moving(plain, t)
         /\ plain => MoveInOrder(t, u, map, over, order).emptied = <<>>
<1> DEFINE D == Moving(FALSE, t)
           E == DOMAIN map
           start == [t |-> t, emptied |-> <<>>]
           op(m, p) == MoveOne(m, u, p, map[p], over)
           h == [x \in D \X E |-> op(x[1], x[2])]
           Fold(g) == g = [s \in SUBSET DOMAIN order |->
                              IF s = {} THEN start ELSE op(g[s \ {Max(s)}], order[Max(s)])]
           f == CHOOSE g : Fold(g)
<1>0. t \in Sane(FALSE)
  BY Weaker
<1>1. start \in D /\ start \in Moving(plain, t)
  <2>1. <<>> \in Seq(Nat) /\ <<>> \in Seq(NoRoot0)
    OBVIOUS
  <2>2. QED BY <1>0, <2>1, AfterSelf, MovingIs
<1>2. \A x \in D, e \in E : op(x, e) \in D
  <2> SUFFICES ASSUME NEW m \in Moving(FALSE, t), NEW p \in E
               PROVE  op(m, p) \in Moving(FALSE, t)
    OBVIOUS
  <2>1. /\ m.t \in After(FALSE, t) /\ m.t \in Sane(FALSE) /\ m.emptied \in Seq(Nat)
        /\ m.t.failed \/ m.emptied \in Seq(NoRoot0)
        /\ m = [t |-> m.t, emptied |-> m.emptied]
    BY DEF Moving, After
  <2> DEFINE w == MoveOne([t |-> m.t, emptied |-> m.emptied], u, p, map[p], over)
  <2>2. w \in Moving(FALSE, m.t)
    BY <2>1, MoveOneAfter
  <2>3. op(m, p) = w
    BY <2>1
  <2> HIDE DEF op, w
  <2>4. w \in Moving(FALSE, t)
    BY <1>0, <2>1, <2>2, AfterTrans DEF Moving
  <2>5. QED BY <2>3, <2>4
<1>3. order \in Seq(E)
  OBVIOUS
<1> HIDE DEF D, E, op, start
<1>4. h \in [D \X E -> D]
  BY <1>2
<1>5. PICK g : FoldsIn(g, h, start, order, D, E)
  <2> HIDE DEF h
  <2>1. QED BY <1>1, <1>3, <1>4, FoldIn
<1>6. \A s \in SUBSET DOMAIN order : s # {} =>
         h[<<g[s \ {Max(s)}], order[Max(s)]>>] = op(g[s \ {Max(s)}], order[Max(s)])
  BY <1>5 DEF FoldsIn
<1>7. Fold(g)
  <2> HIDE DEF h
  <2>1. QED BY <1>5, <1>6 DEF IsFold, FoldsIn
<1>8. Fold(f)
  <2> HIDE DEF Fold
  <2>1. QED BY <1>7
<1>9. MoveInOrder(t, u, map, over, order) = f[DOMAIN order]
  BY DEF MoveInOrder, FoldLeft, MapThenFoldSet, op, start
<1> HIDE DEF f
<1>10. CASE ~plain
  <2>1. Stays(D, E, order, f)
    BY <1>1, <1>2, <1>8 DEF Stays
  <2>2. \A s \in SUBSET DOMAIN order : f[s] \in D
    BY <1>3, <2>1, PositionsStay
  <2>3. f[DOMAIN order] \in Moving(FALSE, t)
    BY <2>2 DEF D
  <2>4. Moving(FALSE, t) = Moving(plain, t)
    BY <1>10, NotPlain DEF Moving
  <2>5. QED BY <1>9, <1>10, <2>3, <2>4
<1>11. CASE plain
  <2>1. PlainCopy(t, u, u, map, order) /\ Len(order) \in Nat /\ DOMAIN order = 1..Len(order)
    BY <1>11
  <2>2. f[{}] = start
    BY <1>8
  <2>3. CASE Len(order) = 0
    <3>1. DOMAIN order = {}
      BY <2>1, <2>3
    <3>2. QED BY <1>1, <1>9, <2>2, <3>1 DEF start
  <2>4. CASE Len(order) = 1
    <3>1. DOMAIN order = {1} /\ order[1] \in DOMAIN map
      BY <2>1, <2>4
    <3>2. Max({1}) = 1
      BY MaxOfTop
    <3>3. f[{1}] = op(start, order[1])
      <4>1. {1} \in SUBSET DOMAIN order /\ {1} # {} /\ {1} \ {1} = {}
        BY <3>1
      <4>2. f[{1}] = op(f[{1} \ {Max({1})}], order[Max({1})])
        BY <1>8, <4>1
      <4>3. QED BY <2>2, <3>2, <4>1, <4>2
    <3>4. op(start, order[1]) \in Moving(plain, t) /\ op(start, order[1]).emptied = <<>>
      <4> DEFINE p == order[1]
                 none == <<>>
                 w == MoveOne([t |-> t, emptied |-> none], u, p, map[p], over)
      <4>0. none \in Seq(Nat) /\ none \in Seq(NoRoot0) /\ p \in DOMAIN map
        BY <3>1
      <4>1. p \in NamedPath /\ map[p] \in NamedPath /\ FilePath(map[p])
            /\ ~IsFolder(Row(View(t), SelectIdByPath(View(t), u, p)))
        <5> HIDE DEF p
        <5>1. QED BY <2>1, <4>0 DEF PlainCopy
      <4>2. op(start, order[1]) = w
        BY DEF op, start
      <4> HIDE DEF p, none
      <4>3. w \in Moving(plain, t) /\ w.emptied = none
        <5> DEFINE target == map[p]
        <5>1. target \in NamedPath /\ FilePath(target)
          BY <4>1
        <5> HIDE DEF target
        <5>2. /\ MoveOne([t |-> t, emptied |-> none], u, p, target, over) \in Moving(plain, t)
              /\ plain => MoveOne([t |-> t, emptied |-> none], u, p, target, over).emptied = none
          BY <4>0, <4>1, <5>1, MoveOneAfter
        <5>3. QED BY <1>11, <5>2 DEF target
      <4>4. QED BY <4>2, <4>3 DEF none
    <3>5. QED BY <1>9, <3>1, <3>3, <3>4
  <2>5. QED BY <2>1, <2>3, <2>4 DEF PlainCopy
<1>12. QED BY <1>10, <1>11

LEMMA DeleteAllAfter ==
  ASSUME NEW plain, NEW t \in Sane(plain), ~Still, NEW ids \in Seq(Nat),
         t.failed \/ ids \in Seq(NoRoot0), plain => ids = <<>>
  PROVE  DeleteAll(t, ids) \in After(plain, t)
<1> DEFINE D == After(plain, t)
           E == {i \in Nat : ~plain /\ (t.failed \/ i \in NoRoot0)}
           base == t
           op(s, i) == Delete(s, i)
           h == [x \in D \X E |-> op(x[1], x[2])]
           Fold(g) == g = [s \in SUBSET DOMAIN ids |->
                              IF s = {} THEN base ELSE op(g[s \ {Max(s)}], ids[Max(s)])]
           f == CHOOSE g : Fold(g)
<1>1. base \in D
  BY AfterSelf
<1>2. \A x \in D, e \in E : op(x, e) \in D
  <2> SUFFICES ASSUME NEW s \in After(plain, t), NEW i \in E
               PROVE  Delete(s, i) \in After(plain, t)
    OBVIOUS
  <2>1. s \in Sane(plain) /\ (t.failed => s.failed)
    BY DEF After
  <2>2. Delete(s, i) \in After(plain, s)
    BY <2>1, DeleteAfter DEF NoRoot0
  <2>3. QED BY <2>2, AfterTrans
<1>3. ids \in Seq(E)
  <2>1. CASE plain
    BY <2>1
  <2>2. CASE ~plain
    <3>1. \A k \in DOMAIN ids : ids[k] \in Nat /\ (t.failed \/ ids[k] \in NoRoot0)
      <4>1. \A k \in DOMAIN ids : ids[k] \in Nat
        BY SeqAt
      <4>2. ids \in Seq(NoRoot0) => \A k \in DOMAIN ids : ids[k] \in NoRoot0
        BY SeqAt
      <4>3. QED BY <4>1, <4>2
    <3>2. Len(ids) \in Nat /\ DOMAIN ids = 1..Len(ids) /\ ids = [k \in 1..Len(ids) |-> ids[k]]
      OBVIOUS
    <3>3. QED BY <2>2, <3>1, <3>2
  <2>3. QED BY <2>1, <2>2
<1> HIDE DEF D, E, base, op
<1>4. h \in [D \X E -> D]
  BY <1>2
<1>5. PICK g : FoldsIn(g, h, base, ids, D, E)
  <2> HIDE DEF h
  <2>1. QED BY <1>1, <1>3, <1>4, FoldIn
<1>6. \A s \in SUBSET DOMAIN ids : s # {} =>
         h[<<g[s \ {Max(s)}], ids[Max(s)]>>] = op(g[s \ {Max(s)}], ids[Max(s)])
  BY <1>5 DEF FoldsIn
<1>7. Fold(g)
  <2> HIDE DEF h
  <2>1. QED BY <1>5, <1>6 DEF IsFold, FoldsIn
<1>8. Fold(f)
  <2> HIDE DEF Fold
  <2>1. QED BY <1>7
<1>9. DeleteAll(t, ids) = f[DOMAIN ids]
  BY DEF DeleteAll, FoldLeft, MapThenFoldSet, op, base
<1> HIDE DEF f
<1>10. Stays(D, E, ids, f)
  BY <1>1, <1>2, <1>8 DEF Stays
<1>11. \A s \in SUBSET DOMAIN ids : f[s] \in D
  BY <1>3, <1>10, PositionsStay
<1>12. QED BY <1>9, <1>11 DEF D

LEMMA MoveAfter ==
  ASSUME NEW plain, NEW t \in Sane(plain), ~t.failed, ~t.wrote, ~Calm, NEW u \in 1..Users,
         NEW sources \in Seq(Path), NEW folder \in Seq(Name), NEW over, NEW depth \in Int,
         plain => PlainPlace(sources, folder)
  PROVE  \A s \in Move(t, u, sources, folder, over, depth) : s \in After(plain, t)
<1> DEFINE targets == InFolder(folder, sources)
           which == {k \in DOMAIN sources : sources[k] # targets[k]}
           map == SourceToTarget(t.seen, u, sources, targets, which, depth)
           whole(order) == DeleteAll(MoveInOrder(t, u, map, over, order).t,
                                     MoveInOrder(t, u, map, over, order).emptied)
           cannot == \/ \E k \in DOMAIN sources : IsSuffix(sources[k], folder)
                     \/ \E k \in which : SelectIdByPath(t.seen, u, sources[k]) = 0
<1>1. /\ t.seen \in Tables /\ IsFiniteSet(DOMAIN t.seen) /\ (plain => Placed(t.seen))
      /\ View(t) = t.seen
  BY SeenFinite DEF View
<1>2. sources \in Seq(NamedPath)
  BY PathNamed, SeqGrows
<1>3. CASE ~cannot
  <2>1. \A k \in which : targets[k] \in NamedPath
    BY InFolderIs
  <2>2. which \in SUBSET DOMAIN sources
    OBVIOUS
  <2>3. MapOf(t.seen, u, sources, targets, which, map)
    <3> HIDE DEF targets, which, cannot
    <3>1. QED BY <1>1, <1>2, <2>1, <2>2, MapIs
  <2>4. ASSUME plain, NEW order \in Orders(map) PROVE PlainCopy(t, u, u, map, order)
    <3>1. /\ Len(sources) = 1 /\ Last(sources[1]) \notin FolderName
          /\ folder \in Seq(FolderName)
      BY <2>4 DEF PlainPlace
    <3>2. \A k \in DOMAIN sources : k = 1
      BY <3>1
    <3>3. \A k \in which : FilePath(targets[k])
      <4>1. \A k \in which : Last(sources[k]) \notin FolderName
        BY <3>1, <3>2
      <4>2. \A k \in which : Front(targets[k]) = folder /\ Last(targets[k]) \notin FolderName
        BY <2>2, <4>1, InFolderIs
      <4> HIDE DEF targets, which
      <4>3. QED BY <3>1, <4>2 DEF FilePath
    <3>4. \A k \in which : SelectIdByPath(t.seen, u, sources[k]) # 0
      BY <1>3
    <3> HIDE DEF targets, which, cannot
    <3>5. /\ Len(order) <= 1
          /\ \A p \in DOMAIN map : /\ FilePath(map[p])
                                   /\ ~IsFolder(Row(t.seen, SelectIdByPath(t.seen, u, p)))
      BY <1>1, <1>2, <2>1, <2>2, <2>4, <3>1, <3>3, <3>4, OneFileOrder
    <3> HIDE DEF map
    <3>6. QED BY <1>1, <3>5 DEF PlainCopy
  <2>5. Move(t, u, sources, folder, over, depth) = {whole(order) : order \in Orders(map)}
    BY <1>3 DEF Move
  <2> HIDE DEF map, cannot, targets, which
  <2>6. IsFiniteSet(DOMAIN map) /\ \A p \in DOMAIN map : p \in NamedPath /\ map[p] \in NamedPath
    BY <2>3 DEF MapOf
  <2>7. ASSUME NEW order \in Orders(map) PROVE whole(order) \in After(plain, t)
    <3> DEFINE m == MoveInOrder(t, u, map, over, order)
    <3>1. order \in Seq(DOMAIN map)
      BY <2>6, OrderIs
    <3>2. plain => PlainCopy(t, u, u, map, order)
      BY <2>4
    <3>3. m \in Moving(plain, t) /\ (plain => m.emptied = <<>>)
      BY <2>6, <3>1, <3>2, MoveInOrderAfter
    <3>4. whole(order) = DeleteAll(m.t, m.emptied)
      OBVIOUS
    <3> HIDE DEF m, whole
    <3>5. /\ m.t \in After(plain, t) /\ m.t \in Sane(plain) /\ m.emptied \in Seq(Nat)
          /\ m.t.failed \/ m.emptied \in Seq(NoRoot0)
      BY <3>3 DEF Moving, After
    <3>6. DeleteAll(m.t, m.emptied) \in After(plain, m.t)
      BY <3>3, <3>5, DeleteAllAfter DEF Still
    <3>7. QED BY <3>4, <3>5, <3>6, AfterTrans
  <2> HIDE DEF whole
  <2>8. QED BY <2>5, <2>7
<1>4. CASE cannot
  <2>1. Move(t, u, sources, folder, over, depth) = {Fail(t)}
    BY <1>4 DEF Move
  <2>2. QED BY <2>1, AfterFail
<1>5. QED BY <1>3, <1>4

-----------------------------------------------------------------------------
(* Deletion for good.                                                      *)

Frames == [id: Nat, folder: BOOLEAN, kids: SUBSET (Nat \X Rows), binned: BOOLEAN]

\* Frames that reach no root.
RootlessFrames ==
    {f \in Frames : Safe => f.id \notin 0..Users /\ \A k \in f.kids : k[1] \notin 0..Users}

LEMMA FrameIs ==
  ASSUME NEW db \in Tables, NEW i \in Nat, NEW row \in AnyUser
  PROVE  /\ Frame(db, i, row) \in Frames
         /\ (Safe => Rooted(db) /\ i \notin 0..Users) => Frame(db, i, row) \in RootlessFrames
<1> DEFINE below == CASE IsFolder(row) -> SelectAllChildList(db, i)
                      [] ~IsFolder(row) /\ row.extra -> {}
                      [] ~IsFolder(row) /\ ~row.extra -> SelectExtraListById(db, i)
           kids == {<<k, db[k]>> : k \in below}
           folder == IsFolder(row)
           f == [id |-> i, folder |-> folder, kids |-> kids, binned |-> FALSE]
<1>1. below \subseteq SelectAllChildList(db, i)
  <2>1. row.extra \in BOOLEAN
    BY DEF AnyUser
  <2>2. SelectExtraListById(db, i) \subseteq SelectAllChildList(db, i)
    BY DEF SelectExtraListById
  <2>3. QED BY <2>1, <2>2
<1>2. Frame(db, i, row) = f
  BY DEF Frame
<1> HIDE DEF below
<1>3. \A k \in below : k \in DOMAIN db /\ db[k].parent = i /\ k \in Nat /\ k # 0 /\ db[k] \in Rows
  BY <1>1, TableRows DEF SelectAllChildList
<1>4. kids \in SUBSET (Nat \X Rows) /\ \A x \in kids : x[1] \in below
  BY <1>3
<1>5. folder \in BOOLEAN
  BY DEF IsFolder
<1> HIDE DEF kids, folder
<1>6. f \in Frames /\ f.id = i /\ f.kids = kids
  BY <1>4, <1>5 DEF Frames
<1>7. ASSUME Safe, Rooted(db), i \notin 0..Users
      PROVE  \A x \in kids : x[1] \notin 0..Users
  <2>1. Users \in Nat /\ i # 0
    BY <1>7, UsersAssumption
  <2>2. \A k \in 1..Users : db[k].parent = 0
    BY <1>7 DEF Rooted, Root
  <2>3. \A k \in below : k \notin 0..Users
    BY <1>3, <2>1, <2>2
  <2>4. QED BY <1>4, <2>3
<1> HIDE DEF f
<1>8. QED BY <1>2, <1>6, <1>7 DEF RootlessFrames

LEMMA NextKidIs ==
  ASSUME NEW f \in Frames, f.kids # {}
  PROVE  NextKid(f) \in f.kids
<1> DEFINE ids == {k[1] : k \in f.kids}
<1>1. f.kids \in SUBSET (Nat \X Rows)
  BY DEF Frames
<1>2. ids \in SUBSET Nat /\ ids # {}
  BY <1>1
<1>3. PICK i \in ids : \A j \in ids : i <= j
  <2> HIDE DEF ids
  <2>1. QED BY <1>2, NatHasLeast
<1>4. PICK k \in f.kids : k[1] = i
  OBVIOUS
<1>5. \A j \in f.kids : k[1] <= j[1]
  BY <1>3, <1>4
<1>6. QED BY <1>4, <1>5 DEF NextKid

\* Where a deletion for good is.
Deleting(t) ==
    {m \in [t: After(FALSE, t), work: Seq(Frames)] : m.t.failed \/ m.work \in Seq(RootlessFrames)}

LEMMA DeletingIs ==
  ASSUME NEW t, NEW s \in After(FALSE, t), NEW frames \in Seq(Frames),
         s.failed \/ frames \in Seq(RootlessFrames)
  PROVE  [t |-> s, work |-> frames] \in Deleting(t)
BY DEF Deleting

\* What is next stays with frames of S.
LEMMA FramesStay ==
  ASSUME NEW S, S \subseteq Frames, NEW frames \in Seq(S), frames # <<>>, NEW db,
         \A f \in S : /\ [f EXCEPT !.binned = TRUE] \in S
                      /\ f.kids # {} => /\ Frame(db, NextKid(f)[1], NextKid(f)[2]) \in S
                                        /\ [f EXCEPT !.kids = @ \ {NextKid(f)}] \in S
  PROVE  /\ Tail(frames) \in Seq(S) /\ Head(frames) \in S
         /\ Binned(frames) \in Seq(S)
         /\ Head(frames).kids # {} => Descend(db, frames) \in Seq(S)
<1>1. Tail(frames) \in Seq(S) /\ Head(frames) \in S
  OBVIOUS
<1> DEFINE f == Head(frames)
           a == [f EXCEPT !.binned = TRUE]
           b == Frame(db, NextKid(f)[1], NextKid(f)[2])
           c == [f EXCEPT !.kids = @ \ {NextKid(f)}]
           rest == Tail(frames)
<1>2. a \in S /\ (f.kids # {} => b \in S /\ c \in S)
  BY <1>1
<1>3. Binned(frames) = <<a>> \o rest /\ Descend(db, frames) = <<b, c>> \o rest
  BY DEF Binned, Descend
<1> HIDE DEF f, a, b, c, rest
<1>4. <<a>> \in Seq(S) /\ (f.kids # {} => <<b, c>> \in Seq(S))
  BY <1>2
<1>5. rest \in Seq(S)
  BY <1>1 DEF rest
<1>6. <<a>> \o rest \in Seq(S) /\ (f.kids # {} => <<b, c>> \o rest \in Seq(S))
  BY <1>4, <1>5
<1>7. QED BY <1>1, <1>3, <1>6 DEF f

LEMMA RowsAnyUser == Rows \subseteq AnyUser
BY UsersAssumption DEF Rows, AnyUser

LEMMA FrameEdits ==
  ASSUME NEW f \in Frames
  PROVE  /\ [f EXCEPT !.binned = TRUE] \in Frames
         /\ f.kids # {} => [f EXCEPT !.kids = @ \ {NextKid(f)}] \in Frames
         /\ f \in RootlessFrames => /\ [f EXCEPT !.binned = TRUE] \in RootlessFrames
                                    /\ f.kids # {} => [f EXCEPT !.kids = @ \ {NextKid(f)}]
                                                         \in RootlessFrames
<1> DEFINE a == [f EXCEPT !.binned = TRUE]
           less == f.kids \ {NextKid(f)}
           c == [f EXCEPT !.kids = less]
<1>1. a \in Frames /\ a.id = f.id /\ a.kids = f.kids
  BY DEF Frames
<1>2. less \subseteq f.kids /\ less \in SUBSET (Nat \X Rows)
  BY DEF Frames
<1> HIDE DEF less
<1>3. c \in Frames /\ c.id = f.id /\ c.kids = less
  BY <1>2 DEF Frames
<1>4. [f EXCEPT !.kids = @ \ {NextKid(f)}] = c
  BY DEF less
<1> HIDE DEF a, c
<1>5. f \in RootlessFrames => a \in RootlessFrames /\ c \in RootlessFrames
  BY <1>1, <1>2, <1>3 DEF RootlessFrames
<1>6. QED BY <1>1, <1>3, <1>4, <1>5 DEF a

LEMMA DeleteStepAfter ==
  ASSUME NEW t \in Sane(FALSE), ~Still, NEW m \in Deleting(t)
  PROVE  DeleteStep(m) \in Deleting(t)
<1> DEFINE s == m.t
           frames == m.work
           head == Head(frames)
           r == DeleteStep(m)
<1>1. /\ s \in After(FALSE, t) /\ s \in Sane(FALSE) /\ frames \in Seq(Frames)
      /\ s.failed \/ frames \in Seq(RootlessFrames)
      /\ m = [t |-> s, work |-> frames] /\ View(s) \in Tables
  <2>1. s \in After(FALSE, t) /\ frames \in Seq(Frames) /\ (s.failed \/ frames \in Seq(RootlessFrames))
        /\ m = [t |-> s, work |-> frames]
    BY DEF Deleting
  <2>2. s \in Sane(FALSE)
    BY <2>1 DEF After
  <2>3. QED BY <2>1, <2>2, Shape
<1>2. CASE m.work = <<>>
  <2>1. r = m
    BY <1>2 DEF DeleteStep, Descends, Inserts, Removes
  <2>2. QED BY <2>1
<1>3. CASE m.work # <<>>
  <2>1. ASSUME NEW f \in Frames
        PROVE  /\ [f EXCEPT !.binned = TRUE] \in Frames
               /\ f.kids # {} => /\ Frame(View(s), NextKid(f)[1], NextKid(f)[2]) \in Frames
                                 /\ [f EXCEPT !.kids = @ \ {NextKid(f)}] \in Frames
    <3>1. f.kids # {} => NextKid(f)[1] \in Nat /\ NextKid(f)[2] \in AnyUser
      BY NextKidIs, RowsAnyUser DEF Frames
    <3>2. QED BY <1>1, <3>1, FrameIs, FrameEdits
  <2>2. ASSUME ~s.failed, NEW f \in RootlessFrames
        PROVE  /\ [f EXCEPT !.binned = TRUE] \in RootlessFrames
               /\ f.kids # {} => /\ Frame(View(s), NextKid(f)[1], NextKid(f)[2]) \in RootlessFrames
                                 /\ [f EXCEPT !.kids = @ \ {NextKid(f)}] \in RootlessFrames
    <3>1. f \in Frames
      BY DEF RootlessFrames
    <3>2. f.kids # {} => /\ NextKid(f)[1] \in Nat /\ NextKid(f)[2] \in AnyUser
                         /\ Safe => NextKid(f)[1] \notin 0..Users
      BY <3>1, NextKidIs, RowsAnyUser DEF Frames, RootlessFrames
    <3>3. Safe => Rooted(View(s))
      BY <1>1, <2>2, SeeGood
    <3>4. f.kids # {} => Frame(View(s), NextKid(f)[1], NextKid(f)[2]) \in RootlessFrames
      BY <1>1, <3>2, <3>3, FrameIs
    <3>5. QED BY <3>1, <3>4, FrameEdits
  <2>3. /\ Tail(frames) \in Seq(Frames) /\ head \in Frames /\ Binned(frames) \in Seq(Frames)
        /\ head.kids # {} => Descend(View(s), frames) \in Seq(Frames)
    <3> HIDE DEF s
    <3>1. frames \in Seq(Frames) /\ frames # <<>> /\ Frames \subseteq Frames
      BY <1>1, <1>3
    <3> HIDE DEF frames
    <3>2. QED BY <2>1, <3>1, FramesStay
  <2>4. ASSUME ~s.failed
        PROVE /\ Tail(frames) \in Seq(RootlessFrames) /\ head \in RootlessFrames
              /\ Binned(frames) \in Seq(RootlessFrames)
              /\ head.kids # {} => Descend(View(s), frames) \in Seq(RootlessFrames)
    <3> HIDE DEF s
    <3>1. frames \in Seq(RootlessFrames) /\ frames # <<>> /\ RootlessFrames \subseteq Frames
      BY <1>1, <1>3, <2>4 DEF RootlessFrames
    <3> HIDE DEF frames
    <3>2. QED BY <2>2, <2>4, <3>1, FramesStay
  <2>5. CASE head.kids # {}
    <3> DEFINE d == Descend(View(s), frames)
    <3>1. r = [m EXCEPT !.work = d]
      BY <1>3, <2>5 DEF DeleteStep, Descends, Inserts, Removes
    <3>2. d \in Seq(Frames) /\ (s.failed \/ d \in Seq(RootlessFrames))
      BY <2>3, <2>4, <2>5
    <3> HIDE DEF d, s, frames, r
    <3>3. r = [t |-> s, work |-> d]
      BY <1>1, <3>1
    <3>4. QED BY <1>1, <3>2, <3>3, DeletingIs DEF r
  <2>6. CASE head.kids = {} /\ ~head.folder /\ ~head.binned
    <3> DEFINE q == InsertDelete(s, head.id)
               b == Binned(frames)
    <3>1. r = [t |-> q, work |-> b]
      BY <1>3, <2>6 DEF DeleteStep, Descends, Inserts, Removes
    <3>2. q \in After(FALSE, s)
      BY <1>1, InsertDeleteAfter
    <3> HIDE DEF s, frames, q, r
    <3>3. q \in After(FALSE, t) /\ (s.failed => q.failed)
      BY <1>1, <3>2, AfterTrans DEF After
    <3>4. b \in Seq(Frames) /\ (q.failed \/ b \in Seq(RootlessFrames))
      BY <2>3, <2>4, <3>3
    <3>5. QED BY <3>1, <3>3, <3>4, DeletingIs DEF r
  <2>7. CASE head.kids = {} /\ (head.folder \/ head.binned)
    <3> DEFINE q == Delete(s, head.id)
               b == Tail(frames)
    <3>1. r = [t |-> q, work |-> b]
      BY <1>3, <2>7 DEF DeleteStep, Descends, Inserts, Removes
    <3>2. q \in After(FALSE, s)
      <4>1. s.failed \/ (Safe => head.id \notin 1..Users)
        <5>1. head \in RootlessFrames => (Safe => head.id \notin 0..Users)
          BY DEF RootlessFrames
        <5>2. Users \in Nat
          BY UsersAssumption
        <5> HIDE DEF head, s
        <5>3. QED BY <2>4, <5>1, <5>2
      <4> HIDE DEF head, s
      <4>2. QED BY <1>1, <4>1, DeleteAfter DEF q
    <3> HIDE DEF s, frames, q, r
    <3>3. q \in After(FALSE, t) /\ (s.failed => q.failed)
      BY <1>1, <3>2, AfterTrans DEF After
    <3>4. b \in Seq(Frames) /\ (q.failed \/ b \in Seq(RootlessFrames))
      BY <2>3, <2>4, <3>3
    <3>5. QED BY <3>1, <3>3, <3>4, DeletingIs DEF r
  <2>8. QED BY <2>5, <2>6, <2>7
<1>4. QED BY <1>2, <1>3

\* What may be deleted for good in transaction t.
Deletable(t, i) == t.failed \/ (Safe => i \in DOMAIN View(t) /\ i \notin 1..Users)

LEMMA FirstFrameIs ==
  ASSUME NEW t \in Sane(FALSE), NEW i \in Nat, Deletable(t, i)
  PROVE  /\ FirstFrame(View(t), i) \in Frames
         /\ t.failed \/ FirstFrame(View(t), i) \in RootlessFrames
<1> DEFINE db == View(t)
           id == IF i \in DOMAIN db THEN i ELSE 0
           row == Row(db, id)
<1>1. db \in Tables /\ (t.failed \/ (Safe => Rooted(db)))
  BY Shape, SeeGood
<1>2. \A j \in DOMAIN db : j \in Nat /\ j # 0 /\ db[j] \in Rows
  BY <1>1, TableRows
<1>3. id \in Nat
  OBVIOUS
<1>4. row \in AnyUser
  <2>1. NoRow \in AnyUser
    BY DEF NoRow, AnyUser, Text, Data
  <2>2. id \in DOMAIN db => db[id] \in AnyUser
    BY <1>2, RowsAnyUser
  <2> HIDE DEF id, db
  <2>3. QED BY <2>1, <2>2 DEF Row
<1>5. FirstFrame(db, i) = Frame(db, id, row)
  BY DEF FirstFrame
<1>6. t.failed \/ (Safe => id \notin 0..Users)
  <2>1. Users \in Nat
    BY UsersAssumption
  <2>2. t.failed \/ (Safe => i \in DOMAIN db /\ i \notin 1..Users /\ i # 0)
    BY <1>2 DEF Deletable
  <2> HIDE DEF db
  <2>3. QED BY <2>1, <2>2
<1> HIDE DEF db, id, row
<1>7. /\ Frame(db, id, row) \in Frames
      /\ (Safe => Rooted(db) /\ id \notin 0..Users) => Frame(db, id, row) \in RootlessFrames
  BY <1>1, <1>3, <1>4, FrameIs
<1>8. QED BY <1>1, <1>5, <1>6, <1>7 DEF db

LEMMA DeleteOneAfter ==
  ASSUME NEW t \in Sane(FALSE), ~Still, NEW i \in Nat, Deletable(t, i)
  PROVE  DeleteOne(t, i) \in After(FALSE, t)
<1> DEFINE D == Deleting(t)
           E == Nat
           times == [k \in 1..6 * t.next |-> k]
           start == [t |-> t, work |-> <<FirstFrame(View(t), i)>>]
           op(m, k) == DeleteStep(m)
           h == [x \in D \X E |-> op(x[1], x[2])]
           Fold(g) == g = [s \in SUBSET DOMAIN times |->
                              IF s = {} THEN start ELSE op(g[s \ {Max(s)}], times[Max(s)])]
           f == CHOOSE g : Fold(g)
<1>1. start \in D
  <2> DEFINE frame == FirstFrame(View(t), i)
  <2>1. frame \in Frames /\ (t.failed \/ frame \in RootlessFrames)
    BY FirstFrameIs
  <2> HIDE DEF frame
  <2>2. <<frame>> \in Seq(Frames) /\ (t.failed \/ <<frame>> \in Seq(RootlessFrames))
    BY <2>1
  <2>3. QED BY <2>2, AfterSelf, DeletingIs DEF frame
<1>2. \A x \in D, e \in E : op(x, e) \in D
  BY DeleteStepAfter
<1>3. times \in Seq(E)
  <2>1. t.next \in Nat
    BY Shape
  <2>2. 6 * t.next \in Nat
    BY <2>1
  <2>3. QED BY <2>2
<1> HIDE DEF D, E, op, start, times
<1>4. h \in [D \X E -> D]
  BY <1>2
<1>5. PICK g : FoldsIn(g, h, start, times, D, E)
  <2> HIDE DEF h
  <2>1. QED BY <1>1, <1>3, <1>4, FoldIn
<1>6. \A s \in SUBSET DOMAIN times : s # {} =>
         h[<<g[s \ {Max(s)}], times[Max(s)]>>] = op(g[s \ {Max(s)}], times[Max(s)])
  BY <1>5 DEF FoldsIn
<1>7. Fold(g)
  <2> HIDE DEF h
  <2>1. QED BY <1>5, <1>6 DEF IsFold, FoldsIn
<1>8. Fold(f)
  <2> HIDE DEF Fold
  <2>1. QED BY <1>7
<1> DEFINE m == f[DOMAIN times]
<1>9. DeleteOne(t, i) = IF m.work = <<>> THEN m.t ELSE Fail(m.t)
  BY DEF DeleteOne, FoldLeft, MapThenFoldSet, op, start, times
<1> HIDE DEF f
<1>10. Stays(D, E, times, f)
  BY <1>1, <1>2, <1>8 DEF Stays
<1>11. \A s \in SUBSET DOMAIN times : f[s] \in D
  BY <1>3, <1>10, PositionsStay
<1>12. m \in Deleting(t)
  BY <1>11 DEF D
<1> HIDE DEF m
<1>13. m.t \in After(FALSE, t) /\ m.t \in Sane(FALSE)
  BY <1>12 DEF Deleting, After
<1>14. Fail(m.t) \in After(FALSE, t)
  BY <1>13, AfterFail, AfterTrans
<1>15. QED BY <1>9, <1>13, <1>14

LEMMA AddDeleteFew ==
  ASSUME NEW t, NEW ids \in Seq(Nat), Len(ids) <= 1
  PROVE  AddDelete(t, ids) = IF Len(ids) = 0 THEN t ELSE DeleteOne(t, ids[1])
<1> DEFINE op(s, i) == DeleteOne(s, i)
           one == op(t, ids[1])
           Fold(g) == g = [s \in SUBSET DOMAIN ids |->
                              IF s = {} THEN t ELSE op(g[s \ {Max(s)}], ids[Max(s)])]
           f == CHOOSE g : Fold(g)
           g1 == [s \in SUBSET DOMAIN ids |-> IF s = {} THEN t ELSE one]
<1>1. /\ DOMAIN ids \in {{}, {1}}
      /\ DOMAIN ids = {} <=> Len(ids) = 0
  <2>1. Len(ids) \in {0, 1} /\ DOMAIN ids = 1..Len(ids)
    <3>1. Len(ids) \in Nat /\ DOMAIN ids = 1..Len(ids)
      OBVIOUS
    <3>2. \A n \in Nat : n <= 1 => n = 0 \/ n = 1
      OBVIOUS
    <3> DEFINE len == Len(ids)
    <3>3. len \in Nat /\ len <= 1
      BY <3>1
    <3> HIDE DEF len
    <3>4. len = 0 \/ len = 1
      BY <3>2, <3>3
    <3>5. QED BY <3>1, <3>4 DEF len
  <2>2. 1..0 = {} /\ 1..1 = {1}
    OBVIOUS
  <2>3. QED BY <2>1, <2>2
<1>2. Max({1}) = 1
  BY MaxOfTop
<1>3. \A s \in SUBSET DOMAIN ids : s # {} =>
         s = {1} /\ Max(s) = 1 /\ s \ {Max(s)} = {} /\ {} \in SUBSET DOMAIN ids
  BY <1>1, <1>2
<1>4. Fold(g1)
  <2>1. \A s \in SUBSET DOMAIN ids :
           g1[s] = IF s = {} THEN t ELSE op(g1[s \ {Max(s)}], ids[Max(s)])
    <3> HIDE DEF op
    <3>1. QED BY <1>3
  <2>2. g1 = [s \in SUBSET DOMAIN ids |-> g1[s]]
    OBVIOUS
  <2> HIDE DEF g1, op
  <2>3. QED BY <2>1, <2>2
<1>5. Fold(f)
  <2> HIDE DEF Fold
  <2>1. QED BY <1>4
<1>6. AddDelete(t, ids) = f[DOMAIN ids]
  BY DEF AddDelete, FoldLeft, MapThenFoldSet, op
<1> HIDE DEF f
<1>7. f[DOMAIN ids] = IF DOMAIN ids = {} THEN t ELSE one
  <2> HIDE DEF op
  <2>1. f[{}] = t /\ f[DOMAIN ids] = IF DOMAIN ids = {} THEN t
                                    ELSE op(f[DOMAIN ids \ {Max(DOMAIN ids)}], ids[Max(DOMAIN ids)])
    BY <1>5
  <2>2. DOMAIN ids # {} => Max(DOMAIN ids) = 1 /\ DOMAIN ids \ {Max(DOMAIN ids)} = {}
    BY <1>3
  <2>3. QED BY <2>1, <2>2
<1>8. QED BY <1>1, <1>6, <1>7

LEMMA AddDeleteMany ==
  ASSUME NEW t \in Sane(FALSE), NEW ids \in Seq(Nat), ~Safe
  PROVE  AddDelete(t, ids) \in After(FALSE, t)
<1> DEFINE D == After(FALSE, t)
           E == Nat
           base == t
           op(s, i) == DeleteOne(s, i)
           h == [x \in D \X E |-> op(x[1], x[2])]
           Fold(g) == g = [s \in SUBSET DOMAIN ids |->
                              IF s = {} THEN base ELSE op(g[s \ {Max(s)}], ids[Max(s)])]
           f == CHOOSE g : Fold(g)
<1>1. base \in D
  BY AfterSelf
<1>2. \A x \in D, e \in E : op(x, e) \in D
  <2> SUFFICES ASSUME NEW s \in After(FALSE, t), NEW i \in Nat
               PROVE  DeleteOne(s, i) \in After(FALSE, t)
    OBVIOUS
  <2>1. s \in Sane(FALSE) /\ Deletable(s, i)
    BY DEF After, Deletable
  <2>2. DeleteOne(s, i) \in After(FALSE, s)
    BY <2>1, DeleteOneAfter DEF Still, Calm
  <2>3. QED BY <2>2, AfterTrans
<1>3. ids \in Seq(E)
  OBVIOUS
<1> HIDE DEF D, E, base, op
<1>4. h \in [D \X E -> D]
  BY <1>2
<1>5. PICK g : FoldsIn(g, h, base, ids, D, E)
  <2> HIDE DEF h
  <2>1. QED BY <1>1, <1>3, <1>4, FoldIn
<1>6. \A s \in SUBSET DOMAIN ids : s # {} =>
         h[<<g[s \ {Max(s)}], ids[Max(s)]>>] = op(g[s \ {Max(s)}], ids[Max(s)])
  BY <1>5 DEF FoldsIn
<1>7. Fold(g)
  <2> HIDE DEF h
  <2>1. QED BY <1>5, <1>6 DEF IsFold, FoldsIn
<1>8. Fold(f)
  <2> HIDE DEF Fold
  <2>1. QED BY <1>7
<1>9. AddDelete(t, ids) = f[DOMAIN ids]
  BY DEF AddDelete, FoldLeft, MapThenFoldSet, op, base
<1> HIDE DEF f
<1>10. Stays(D, E, ids, f)
  BY <1>1, <1>2, <1>8 DEF Stays
<1>11. \A s \in SUBSET DOMAIN ids : f[s] \in D
  BY <1>3, <1>10, PositionsStay
<1>12. QED BY <1>9, <1>11 DEF D

LEMMA LogicDeleteAfter ==
  ASSUME NEW plain, NEW t \in Sane(plain), ~t.failed, ~t.wrote, ~Still, NEW u, NEW ids \in Seq(Nat),
         Safe => /\ Len(ids) <= 1
                 /\ \A k \in DOMAIN ids : ids[k] \in DOMAIN t.seen \ (1..Users),
         ~plain
  PROVE  LogicDelete(t, u, ids) \in After(plain, t)
<1>1. t \in Sane(FALSE) /\ Fail(t) \in After(FALSE, t)
  BY Weaker, AfterFail
<1>2. AddDelete(t, ids) \in After(FALSE, t)
  <2>1. CASE ~Safe
    BY <1>1, <2>1, AddDeleteMany
  <2>2. CASE Safe
    <3>1. AddDelete(t, ids) = IF Len(ids) = 0 THEN t ELSE DeleteOne(t, ids[1])
      BY <2>2, AddDeleteFew
    <3>2. CASE Len(ids) = 0
      BY <1>1, <3>1, <3>2, AfterSelf
    <3>3. CASE Len(ids) # 0
      <4> DEFINE i == ids[1]
      <4>1. i \in Nat /\ i \in DOMAIN t.seen \ (1..Users)
        <5>1. 1 \in DOMAIN ids
          BY <3>3
        <5>2. QED BY <2>2, <5>1, SeqAt
      <4> HIDE DEF i
      <4>2. Deletable(t, i)
        BY <4>1 DEF Deletable, View
      <4>3. DeleteOne(t, i) \in After(FALSE, t)
        BY <1>1, <4>1, <4>2, DeleteOneAfter
      <4>4. QED BY <3>1, <3>3, <4>3 DEF i
    <3>4. QED BY <3>2, <3>3
  <2>3. QED BY <2>1, <2>2
<1>3. LogicDelete(t, u, ids) \in {Fail(t), AddDelete(t, ids)}
  BY DEF LogicDelete
<1>4. QED BY <1>1, <1>2, <1>3, NotPlain

-----------------------------------------------------------------------------
(* What a request makes of its transaction.                                *)

\* The hypotheses under which every file stays in a folder.
Orderly == Safe /\ Plain

ByIds == {"DeleteByIds", "TrashRecover", "LogicDelete"}

\* What a client asks for that was shown the table db.
Asked(r, db) ==
    \/ r \in Request /\ r.op \notin ByIds
    \/ /\ r.op \in ByIds /\ r.user \in 1..Users
       /\ \E q \in Request : q.op = r.op
       /\ r.ids \in Seq(Id)
       /\ \A k \in DOMAIN r.ids : r.ids[k] \in DOMAIN db /\ (Safe => r.ids[k] \notin 1..Users)
       /\ r.op = "LogicDelete" /\ Safe => Len(r.ids) <= 1

LEMMA ContentIs == Content \subseteq Data \ {None}
BY NameAssumption DEF Data

LEMMA FilesResult ==
  ASSUME NEW t \in Sane(Orderly), ~t.failed, NEW r \in Request,
         r.op \in {"ByMd5", "Upload", "CreateFolder"}
  PROVE  \A s \in Results(t, r) : s \in After(Orderly, t)
<1> DEFINE p == r.path
           u == r.user
           c == r.content
           w == [t EXCEPT !.wrote = TRUE]
<1>1. u \in 1..Users /\ p \in NamedPath /\ (r.op \in {"ByMd5", "Upload"} => c \in Data \ {None})
  BY RequestAssumption, PathNamed, ContentIs
<1>2. Orderly => /\ r.op \in {"ByMd5", "Upload"} => FilePath(p)
                 /\ r.op = "CreateFolder" => p \in Seq(FolderName)
  BY DEF Orderly, Plain, PlainRequest
<1>3. w \in After(Orderly, t) /\ w \in Sane(Orderly)
  <2>1. t \in Transactions
    BY Shape
  <2>2. /\ w \in Transactions /\ w.seen = t.seen /\ w.now = t.now /\ w.next = t.next
        /\ w.db = t.db /\ w.bin = t.bin /\ w.failed = t.failed
    BY <2>1 DEF Transactions
  <2> HIDE DEF w
  <2>3. w \in Sane(Orderly)
    BY <2>2 DEF Sane, Good
  <2>4. QED BY <2>2, <2>3, Shape DEF After, Kept, Same
<1>4. Results(t, r) = CASE r.op = "ByMd5"        -> {AddAtPath(t, u, u, p, c, TRUE)}
                        [] r.op = "Upload"       -> {AddAtPath(w, u, u, p, c, TRUE)}
                        [] r.op = "CreateFolder" -> {CreateFolder(t, u, p)}
  BY DEF Results
<1> HIDE DEF p, u, c, w
<1>5. p \in Seq(Given) /\ p # <<>>
  BY <1>1 DEF NamedPath
<1>6. CASE r.op = "ByMd5"
  <2>1. AddAtPath(t, u, u, p, c, TRUE) \in After(Orderly, t)
    BY <1>1, <1>2, <1>5, <1>6, AddAtPathAfter
  <2>2. Results(t, r) = {AddAtPath(t, u, u, p, c, TRUE)}
    BY <1>4, <1>6
  <2>3. QED BY <2>1, <2>2
<1>7. CASE r.op = "Upload"
  <2>1. AddAtPath(w, u, u, p, c, TRUE) \in After(Orderly, w)
    BY <1>1, <1>2, <1>3, <1>5, <1>7, AddAtPathAfter
  <2>2. AddAtPath(w, u, u, p, c, TRUE) \in After(Orderly, t)
    BY <1>3, <2>1, AfterTrans
  <2>3. Results(t, r) = {AddAtPath(w, u, u, p, c, TRUE)}
    BY <1>4, <1>7
  <2>4. QED BY <2>2, <2>3
<1>8. CASE r.op = "CreateFolder"
  <2>1. CreateFolder(t, u, p) \in After(Orderly, t)
    BY <1>1, <1>2, <1>5, <1>8, CreateFolderAfter
  <2>2. Results(t, r) = {CreateFolder(t, u, p)}
    BY <1>4, <1>8
  <2>3. QED BY <2>1, <2>2
<1>9. QED BY <1>6, <1>7, <1>8

LEMMA PlacesResult ==
  ASSUME NEW t \in Sane(Orderly), ~t.failed, ~t.wrote, NEW r \in Request,
         r.op \in {"Rename", "Copy", "Move", "SaveTo"}
  PROVE  \A s \in Results(t, r) : s \in After(Orderly, t)
<1> DEFINE u == r.user
           p == r.path
           n == r.name
           sources == r.paths
           folder == r.folder
           over == r.over
           sharer == r.sharer
<1>1. /\ u \in 1..Users
      /\ r.op = "Rename" => p \in NamedPath /\ n \in Given
      /\ r.op # "Rename" => sources \in Seq(Path) /\ folder \in Seq(Name)
  BY RequestAssumption, PathNamed, NameIsGiven
<1>2. Orderly => /\ r.op # "SaveTo"
                 /\ r.op = "Rename" => (Last(p) \in FolderName <=> n \in FolderName)
                 /\ r.op \in {"Copy", "Move"} => PlainPlace(sources, folder) /\ PlainNumbers
  BY DEF Orderly, Plain, PlainRequest, PlainPlace, PlainNumbers
<1>3. r.op \in {"Rename", "Move"} => ~Calm
  BY DEF Calm
<1>4. Depth \in Int
  BY BoundAssumption
<1>5. Results(t, r) = CASE r.op = "Rename" -> {Rename(t, u, p, n)}
                        [] r.op = "Copy"   -> Copy(t, u, sources, folder, over, Depth)
                        [] r.op = "Move"   -> Move(t, u, sources, folder, over, Depth)
                        [] r.op = "SaveTo" -> ShareSaveTo(t, sharer, u, sources, folder, Depth)
  BY DEF Results
<1> HIDE DEF u, p, n, sources, folder, over, sharer
<1>6. CASE r.op = "Rename"
  <2>1. Rename(t, u, p, n) \in After(Orderly, t)
    BY <1>1, <1>2, <1>3, <1>6, RenameAfter
  <2>2. Results(t, r) = {Rename(t, u, p, n)}
    BY <1>5, <1>6
  <2>3. QED BY <2>1, <2>2
<1>7. CASE r.op = "Copy"
  <2>1. \A s \in Copy(t, u, sources, folder, over, Depth) : s \in After(Orderly, t)
    BY <1>1, <1>2, <1>4, <1>7, CopyAfter
  <2>2. Results(t, r) = Copy(t, u, sources, folder, over, Depth)
    BY <1>5, <1>7
  <2>3. QED BY <2>1, <2>2
<1>8. CASE r.op = "Move"
  <2>1. \A s \in Move(t, u, sources, folder, over, Depth) : s \in After(Orderly, t)
    BY <1>1, <1>2, <1>3, <1>4, <1>8, MoveAfter
  <2>2. Results(t, r) = Move(t, u, sources, folder, over, Depth)
    BY <1>5, <1>8
  <2>3. QED BY <2>1, <2>2
<1>9. CASE r.op = "SaveTo"
  <2>1. \A s \in ShareSaveTo(t, sharer, u, sources, folder, Depth) : s \in After(Orderly, t)
    BY <1>1, <1>2, <1>4, <1>9, ShareSaveToAfter
  <2>2. Results(t, r) = ShareSaveTo(t, sharer, u, sources, folder, Depth)
    BY <1>5, <1>9
  <2>3. QED BY <2>1, <2>2
<1>10. QED BY <1>6, <1>7, <1>8, <1>9

LEMMA BinResult ==
  ASSUME NEW t \in Sane(Orderly), ~t.failed, ~t.wrote, Fresh(t), NEW r, Asked(r, t.seen),
         r.op \in ByIds \cup {"Delete"}
  PROVE  \A s \in Results(t, r) : s \in After(Orderly, t)
<1> DEFINE u == r.user
           ids == r.ids
           paths == r.paths
<1>1. r.op = "Delete" => paths \in Seq(NamedPath)
  <2>1. r.op = "Delete" => r \in Request /\ paths \in Seq(Path)
    BY RequestAssumption DEF Asked, ByIds
  <2> HIDE DEF paths
  <2>2. QED BY <2>1, PathNamed, SeqGrows
<1>2. r.op \in ByIds =>
         /\ ids \in Seq(Id)
         /\ \A k \in DOMAIN ids : ids[k] \in DOMAIN t.seen /\ (Safe => ids[k] \notin 1..Users)
         /\ r.op = "LogicDelete" /\ Safe => Len(ids) <= 1
         /\ r.op = "LogicDelete" => ~Orderly
         /\ r.op \in {"LogicDelete", "TrashRecover"} => ~Still
  <2>1. /\ Orderly => \A q \in Request : q.op # "LogicDelete"
        /\ Still => \A q \in Request : q.op \notin {"TrashRecover", "LogicDelete"}
    BY DEF Orderly, Plain, PlainRequest, Still
  <2>2. QED BY <2>1 DEF Asked
<1>3. /\ r.op = "Delete"       => Results(t, r) = {DeleteByPath(t, u, paths)}
      /\ r.op = "DeleteByIds"  => Results(t, r) = {DeleteById(t, u, ids)}
      /\ r.op = "TrashRecover" => Results(t, r) = {TrashRecover(t, u, ids)}
      /\ r.op = "LogicDelete"  => Results(t, r) = {LogicDelete(t, u, ids)}
  BY DEF Results
<1> HIDE DEF u, ids, paths
<1>4. r.op \in ByIds => ids \in Seq(NoRoot) /\ ids \in Seq(Nat)
  <2> SUFFICES ASSUME r.op \in ByIds PROVE ids \in Seq(NoRoot) /\ ids \in Seq(Nat)
    OBVIOUS
  <2>1. \A k \in DOMAIN ids : ids[k] \in Id
    BY <1>2, SeqAt
  <2>2. \A k \in DOMAIN ids : ids[k] \in NoRoot
    BY <1>2, <2>1 DEF NoRoot
  <2>3. Len(ids) \in Nat /\ DOMAIN ids = 1..Len(ids) /\ ids = [k \in 1..Len(ids) |-> ids[k]]
    BY <1>2
  <2>4. ids \in Seq(NoRoot)
    BY <2>2, <2>3
  <2>5. NoRoot \subseteq Nat
    BY DEF NoRoot, Id
  <2>6. QED BY <2>4, <2>5, SeqGrows
<1>5. CASE r.op = "Delete"
  BY <1>1, <1>3, <1>5, DeleteByPathAfter
<1>6. CASE r.op = "DeleteByIds"
  BY <1>3, <1>4, <1>6, DeleteByIdAfter DEF ByIds
<1>7. CASE r.op = "TrashRecover"
  BY <1>2, <1>3, <1>4, <1>7, TrashRecoverAfter DEF ByIds
<1>8. CASE r.op = "LogicDelete"
  <2>1. r.op \in ByIds
    BY <1>8 DEF ByIds
  <2>2. LogicDelete(t, u, ids) \in After(Orderly, t)
    BY <1>2, <1>4, <1>8, <2>1, LogicDeleteAfter
  <2>3. QED BY <1>3, <1>8, <2>2
<1>9. QED BY <1>5, <1>6, <1>7, <1>8 DEF ByIds

\* Whatever a request does, its transaction can be committed or has failed.
LEMMA ResultsAfter ==
  ASSUME NEW t \in Sane(Orderly), ~t.failed, ~t.wrote, Fresh(t), NEW r, Asked(r, t.seen)
  PROVE  \A s \in Results(t, r) : s \in After(Orderly, t)
<1>1. CASE r.op \in ByIds \cup {"Delete"}
  BY <1>1, BinResult
<1>2. CASE r.op \notin ByIds \cup {"Delete"}
  <2>1. r \in Request
    BY <1>2 DEF Asked
  <2>2. \/ r.op \in {"ByMd5", "Upload", "CreateFolder"}
        \/ r.op \in {"Rename", "Copy", "Move", "SaveTo"}
    BY <1>2, <2>1, RequestAssumption DEF ByIds
  <2>3. QED BY <2>1, <2>2, FilesResult, PlacesResult
<1>3. QED BY <1>1, <1>2

-----------------------------------------------------------------------------
(* What is committed, and what the other requests have read before.        *)

LEMMA TransactionIs ==
  ASSUME NEW s \in Tables, NEW db \in Tables, NEW b \in SUBSET Nat, NEW n \in Id, NEW now \in Id
  PROVE  LET t == Transaction(s, db, b, n, now)
         IN  /\ t \in Transactions /\ t.seen = s /\ t.db = db /\ t.bin = b /\ t.next = n
             /\ t.now = now /\ ~t.wrote /\ ~t.failed
BY DEF Transaction, Transactions

\* A table that may be committed at the time now.
Whole(db, b, n, now) == Good(Orderly, Transaction(db, db, b, n, now))

\* What a request has read stays good while others commit.
LEMMA SnapshotStays ==
  ASSUME NEW s \in Tables, NEW old \in Tables, NEW ob \in SUBSET Nat, NEW m \in Id, NEW then \in Id,
         Good(Orderly, Transaction(s, old, ob, m, then)),
         NEW db \in Tables, NEW b \in SUBSET Nat, NEW n \in Id, NEW now \in Id,
         Whole(db, b, n, now), n >= m, Kept(Orderly, old, m, db)
  PROVE  Good(Orderly, Transaction(s, db, b, n, now))
<1> DEFINE t == Transaction(s, old, ob, m, then)
           w == Transaction(db, db, b, n, now)
           r == Transaction(s, db, b, n, now)
<1>1. /\ t \in Transactions /\ t.seen = s /\ t.db = old /\ t.next = m /\ ~t.failed
      /\ w.seen = db /\ w.db = db /\ w.bin = b /\ w.next = n /\ w.now = now
      /\ r.seen = s /\ r.db = db /\ r.bin = b /\ r.next = n /\ r.now = now
  BY TransactionIs
<1> HIDE DEF t, w, r
<1>2. Good(Orderly, t) /\ Good(Orderly, w) /\ t \in Sane(Orderly)
  BY <1>1 DEF Whole, t, w, Sane
<1>3. Agree(s, db) /\ (Orderly => DOMAIN s \subseteq DOMAIN db)
  BY <1>1, <1>2, FitAgrees
<1>4. Sound(s, n)
  <2>1. Sound(s, m)
    BY <1>1, <1>2 DEF Good
  <2>2. \A i \in DOMAIN s : i \in Nat /\ s[i].parent \in Nat
    BY TableRows DEF Rows
  <2>3. QED BY <2>1, <2>2 DEF Sound, Id
<1>5. (Safe => Rooted(s)) /\ (Orderly => Placed(s))
  BY <1>1, <1>2 DEF Good
<1>6. Good(Orderly, r)
  BY <1>1, <1>2, <1>3, <1>4, <1>5 DEF Good
<1>7. QED BY <1>6 DEF r

LEMMA WholeMade ==
  ASSUME NEW db \in Tables, NEW b \in SUBSET Nat, NEW n \in Id, NEW now \in Id,
         Sound(db, n), \A i \in DOMAIN db : db[i].trashed <= now, b \subseteq 1..n - 1,
         NamesAreUnique(db), Safe => Rooted(db), Calm => OneInGrave(db), Still => Kin(db),
         Orderly => Safe /\ Placed(db)
  PROVE  Whole(db, b, n, now)
<1> DEFINE w == Transaction(db, db, b, n, now)
<1>1. w.seen = db /\ w.db = db /\ w.bin = b /\ w.next = n /\ w.now = now
  BY TransactionIs
<1>2. Agree(db, db)
  BY DEF Agree, Same
<1> HIDE DEF w
<1>3. Good(Orderly, w)
  BY <1>1, <1>2 DEF Good
<1>4. QED BY <1>3 DEF Whole, w

LEMMA WholeHas ==
  ASSUME NEW s \in Tables, NEW db \in Tables, NEW b \in SUBSET Nat, NEW n \in Id, NEW now \in Id,
         Good(Orderly, Transaction(s, db, b, n, now))
  PROVE  /\ Sound(db, n) /\ (\A i \in DOMAIN db : db[i].trashed <= now) /\ b \subseteq 1..n - 1
         /\ NamesAreUnique(db) /\ (Safe => Rooted(db)) /\ (Calm => OneInGrave(db))
         /\ (Still => Kin(db)) /\ (Orderly => Safe /\ Placed(db))
<1> DEFINE w == Transaction(s, db, b, n, now)
<1>1. w.db = db /\ w.bin = b /\ w.next = n /\ w.now = now
  BY ONLY s \in Tables, db \in Tables, b \in SUBSET Nat, n \in Id, now \in Id, TransactionIs
<1> HIDE DEF w
<1>2. Good(Orderly, w)
  BY DEF w
<1>3. QED BY <1>1, <1>2 DEF Good

\* What a request that has not failed leaves behind.
LEMMA WholeAfter ==
  ASSUME NEW t \in Sane(Orderly), ~t.failed, NEW now \in Id,
         \A i \in DOMAIN t.db : t.db[i].trashed <= now
  PROVE  Whole(t.db, t.bin, t.next, now)
<1>1. /\ t.db \in Tables /\ t.bin \in SUBSET Nat /\ t.next \in Id /\ Good(Orderly, t)
  BY Shape DEF Sane, Id
<1> DEFINE db == t.db
           b == t.bin
           n == t.next
<1>2. /\ Sound(db, n) /\ b \subseteq 1..n - 1
      /\ NamesAreUnique(db) /\ (Safe => Rooted(db)) /\ (Calm => OneInGrave(db))
      /\ (Still => Kin(db)) /\ (Orderly => Safe /\ Placed(db))
      /\ \A i \in DOMAIN db : db[i].trashed <= now
      /\ db \in Tables /\ b \in SUBSET Nat /\ n \in Id
  BY <1>1 DEF Good
<1> HIDE DEF db, b, n
<1>3. Whole(db, b, n, now)
  BY <1>2, WholeMade
<1>4. QED BY <1>3 DEF db, b, n

-----------------------------------------------------------------------------
(* The inductive invariant.                                                *)

CommittedInv ==
    /\ file \in Tables /\ bin \in SUBSET Nat /\ next \in Id /\ clock \in Nat
    /\ Users < next /\ next <= MaxRow + 1 /\ clock <= MaxClock
    /\ \A i \in DOMAIN file : file[i].trashed <= clock
    /\ Whole(file, bin, next, clock + 1)

CallInv ==
    \A c \in Client :
        IF call[c] = None THEN seen[c] = <<>>
        ELSE /\ seen[c] \in Tables /\ Asked(call[c], seen[c])
             /\ Good(Orderly, Transaction(seen[c], file, bin, next, clock + 1))

TimerInv == batch # {} \/ work # <<>> => HasTimer

JobInv ==
    job # None => /\ job.id \in Id /\ job.user \in 1..Users /\ job.id < next
                  /\ Safe => job.id \notin 1..Users

FunctionInv == call = [c \in Client |-> call[c]] /\ seen = [c \in Client |-> seen[c]]

IInv == CommittedInv /\ CallInv /\ TimerInv /\ JobInv /\ FunctionInv /\ crashes \in 0..MaxCrash

LEMMA Roots ==
  LET db == [u \in 1..Users |-> FolderRow(u, 0, None)]
  IN  db \in Tables /\ \A now \in Id : Whole(db, {}, Users + 1, now)
<1> DEFINE db == [u \in 1..Users |-> FolderRow(u, 0, None)]
<1>1. \A u \in 1..Users : /\ FolderRow(u, 0, None) \in Rows
                          /\ Root(FolderRow(u, 0, None), u)
                          /\ ~FolderRow(u, 0, None).extra
  BY FolderRowOk DEF Root, IsFolder, Text
<1>2. DOMAIN db = 1..Users /\ \A i \in DOMAIN db : db[i] \in Rows /\ Root(db[i], i) /\ ~db[i].extra
  BY <1>1
<1>3. Users \in Nat /\ Users + 1 \in Id /\ 1..Users \subseteq Id
  BY UsersAssumption DEF Id
<1>4. db \in Tables
  <2>1. db \in [1..Users -> Rows]
    BY <1>1
  <2>2. QED BY <1>3, <2>1, TableMade
<1> HIDE DEF db
<1>5. /\ Sound(db, Users + 1) /\ NamesAreUnique(db) /\ Rooted(db) /\ OneInGrave(db) /\ Placed(db)
      /\ Kin(db)
      /\ \A now \in Id : \A i \in DOMAIN db : db[i].trashed <= now
  <2>1. Sound(db, Users + 1)
    BY <1>2, <1>3 DEF Sound, Root, Current
  <2>2. NamesAreUnique(db) /\ Rooted(db) /\ OneInGrave(db) /\ Kin(db)
    BY <1>2 DEF NamesAreUnique, Rooted, OneInGrave, Kin, Root, Current
  <2>3. Placed(db)
    BY <1>2 DEF Placed, Root, IsFolder
  <2>4. \A now \in Id : \A i \in DOMAIN db : db[i].trashed <= now
    BY <1>2 DEF Root, Current, Id
  <2>5. QED BY <2>1, <2>2, <2>3, <2>4
<1>6. Orderly => Safe
  BY DEF Orderly
<1>7. \A now \in Id : Whole(db, {}, Users + 1, now)
  <2> SUFFICES ASSUME NEW now \in Id PROVE Whole(db, {}, Users + 1, now)
    OBVIOUS
  <2> DEFINE b == {}
             n == Users + 1
  <2>1. b \in SUBSET Nat /\ b \subseteq 1..n - 1
    OBVIOUS
  <2> HIDE DEF b
  <2>2. Whole(db, b, n, now)
    BY <1>3, <1>4, <1>5, <1>6, <2>1, WholeMade
  <2>3. QED BY <2>2 DEF b
<1>8. QED BY <1>4, <1>7 DEF db

LEMMA InitHolds == Init => IInv
<1> SUFFICES ASSUME Init PROVE IInv
  OBVIOUS
<1>1. file \in Tables /\ \A now \in Id : Whole(file, {}, Users + 1, now)
  <2>1. file = [u \in 1..Users |-> FolderRow(u, 0, None)]
    BY DEF Init
  <2>2. QED BY <2>1, Roots
<1>2. /\ Users \in Nat /\ Users + 1 \in Id /\ 1 \in Id /\ Users <= MaxRow
      /\ MaxRow \in Nat /\ MaxClock \in Nat /\ MaxCrash \in Nat
  BY UsersAssumption, BoundAssumption DEF Id
<1>3. \A i \in DOMAIN file : file[i].trashed <= 0
  <2>1. file = [u \in 1..Users |-> FolderRow(u, 0, None)]
    BY DEF Init
  <2>2. \A u \in 1..Users : FolderRow(u, 0, None).trashed = 0
    BY FolderRowOk DEF Current, Text
  <2>3. QED BY <2>1, <2>2
<1>4. bin = {} /\ next = Users + 1 /\ clock = 0
  BY DEF Init
<1>5. CommittedInv
  <2>1. Whole(file, bin, next, clock + 1)
    BY <1>1, <1>2, <1>4
  <2>2. QED BY <1>1, <1>2, <1>3, <1>4, <2>1 DEF CommittedInv
<1>6. CallInv
  BY DEF Init, CallInv
<1>7. TimerInv /\ JobInv
  BY DEF Init, TimerInv, JobInv
<1>8. FunctionInv /\ crashes \in 0..MaxCrash
  BY <1>2 DEF Init, FunctionInv
<1>9. QED BY <1>5, <1>6, <1>7, <1>8 DEF IInv

LEMMA SnapshotsStay ==
  ASSUME CommittedInv, CommittedInv', next' >= next, Kept(Orderly, file, next, file'),
         NEW s \in Tables, Good(Orderly, Transaction(s, file, bin, next, clock + 1))
  PROVE  Good(Orderly, Transaction(s, file', bin', next', clock' + 1))
<1> DEFINE now == clock + 1
           then == clock' + 1
<1>1. /\ file \in Tables /\ bin \in SUBSET Nat /\ next \in Id /\ now \in Id
      /\ file' \in Tables /\ bin' \in SUBSET Nat /\ next' \in Id /\ then \in Id
      /\ Whole(file', bin', next', then)
  <2>1. /\ file \in Tables /\ bin \in SUBSET Nat /\ next \in Id /\ clock \in Nat
    BY DEF CommittedInv
  <2>2. /\ file' \in Tables /\ bin' \in SUBSET Nat /\ next' \in Id /\ clock' \in Nat
        /\ Whole(file', bin', next', clock' + 1)
    BY DEF CommittedInv
  <2>3. \A k \in Nat : k + 1 \in Id
    BY DEF Id
  <2>4. QED BY <2>1, <2>2, <2>3
<1>2. Good(Orderly, Transaction(s, file, bin, next, now))
  OBVIOUS
<1> HIDE DEF now, then
<1>3. Good(Orderly, Transaction(s, file', bin', next', then))
  BY <1>1, <1>2, SnapshotStays
<1>4. QED BY <1>3 DEF then

\* What a client is shown holds no root.
LEMMA PicksAre ==
  ASSUME CommittedInv, NEW r \in Request, NEW filled \in Filled(r)
  PROVE  Asked(filled, file) /\ filled # None
<1>1. CASE r.op \notin ByIds
  <2>1. filled = r
    BY <1>1 DEF Filled, ByIds
  <2>2. QED BY <1>1, <2>1, NoCallAssumption DEF Asked
<1>2. CASE r.op \in ByIds
  <2>1. PICK ids \in Picks(r) : filled = [op |-> r.op, user |-> r.user, ids |-> ids]
    BY <1>2 DEF Filled, ByIds
  <2>2. r.user \in 1..Users /\ r.count \in Nat
    BY <1>2, RequestAssumption DEF ByIds
  <2> DEFINE shown == IF r.op = "DeleteByIds"
                      THEN {i \in DOMAIN file : /\ Current(file[i]) /\ file[i].user = r.user
                                                /\ ~IsFolder(file[i]) /\ ~file[i].extra}
                      ELSE SelectDelete(file, r.user)
             somes == {x \in SUBSET shown : Cardinality(x) \in 1..r.count}
  <2>3. Picks(r) = UNION {SetToSeqs(some) : some \in somes}
    BY DEF Picks
  <2>4. \A i \in shown : i \in DOMAIN file /\ (Rooted(file) => i \notin 1..Users)
    BY DEF SelectDelete, Rooted, Root, Current, IsFolder
  <2>5. file \in Tables /\ (Safe => Rooted(file))
    <3> DEFINE now == clock + 1
    <3>1. file \in Tables /\ bin \in SUBSET Nat /\ next \in Id /\ now \in Id
          /\ Whole(file, bin, next, now)
      BY DEF CommittedInv, Id
    <3> HIDE DEF now
    <3>2. QED BY <3>1, WholeHas DEF Whole
  <2> HIDE DEF shown
  <2>6. PICK some \in SUBSET shown : Cardinality(some) \in 1..r.count /\ ids \in SetToSeqs(some)
    <3> HIDE DEF somes
    <3>1. PICK some \in somes : ids \in SetToSeqs(some)
      BY <2>3
    <3>2. QED BY <3>1 DEF somes
  <2> DEFINE n == Cardinality(some)
  <2>7. n \in Nat /\ n <= r.count /\ ids \in [1..n -> some]
    BY <2>2, <2>6 DEF SetToSeqs
  <2> HIDE DEF n
  <2>8. ids \in Seq(some) /\ Len(ids) = n /\ DOMAIN ids = 1..n /\ \A k \in 1..n : ids[k] \in some
    BY <2>7
  <2>9. \A k \in DOMAIN ids : /\ ids[k] \in DOMAIN file /\ ids[k] \in Id
                              /\ Safe => ids[k] \notin 1..Users
    BY <2>4, <2>5, <2>8, TableRows
  <2>10. ids \in Seq(Id)
    BY <2>7, <2>8, <2>9
  <2>11. r.op = "LogicDelete" /\ Safe => Len(ids) <= 1
    BY <2>2, <2>7, <2>8 DEF Safe
  <2>12. filled.op = r.op /\ filled.user = r.user /\ filled.ids = ids
    BY <2>1
  <2>13. filled # None
    <3>1. ids \in Seq(Nat)
      BY <2>10, SeqGrows DEF Id
    <3>2. filled \in [op: {"DeleteByIds", "TrashRecover", "LogicDelete"}, user: 1..Users,
                      ids: Seq(Nat)]
      BY <1>2, <2>1, <2>2, <3>1 DEF ByIds
    <3>3. QED BY <3>2, NoCallAssumption
  <2> HIDE DEF somes
  <2>14. QED BY <1>2, <2>2, <2>9, <2>10, <2>11, <2>12, <2>13 DEF Asked
<1>3. QED BY <1>1, <1>2

LEMMA BeginCallHolds == ASSUME IInv, NEW c \in Client, BeginCall(c) PROVE IInv'
<1>1. /\ UNCHANGED <<file, bin, next, clock, batch, work, job, crashes>>
      /\ seen' = [seen EXCEPT ![c] = file] /\ FunctionInv
  BY DEF BeginCall, durable, timer, IInv
<1>2. PICK r \in Request : \E filled \in Filled(r) : call' = [call EXCEPT ![c] = filled]
  BY DEF BeginCall
<1>3. PICK filled \in Filled(r) : call' = [call EXCEPT ![c] = filled]
  BY <1>2
<1>4. CommittedInv /\ Asked(filled, file) /\ filled # None
  BY PicksAre DEF IInv
<1>5. CommittedInv' /\ TimerInv' /\ JobInv' /\ crashes' \in 0..MaxCrash
  BY <1>1 DEF IInv, CommittedInv, TimerInv, JobInv
<1>6. FunctionInv'
  BY <1>1, <1>3 DEF FunctionInv
<1>7. CallInv'
  <2>1. Good(Orderly, Transaction(file, file, bin, next, clock + 1)) /\ file \in Tables
    BY <1>4 DEF CommittedInv, Whole
  <2>2. call'[c] = filled /\ seen'[c] = file
        /\ \A d \in Client \ {c} : call'[d] = call[d] /\ seen'[d] = seen[d]
    <3>1. c \in DOMAIN call /\ c \in DOMAIN seen /\ DOMAIN call = Client /\ DOMAIN seen = Client
      BY <1>1 DEF FunctionInv
    <3>2. QED BY <1>1, <1>3, <3>1
  <2>3. QED BY <1>1, <1>4, <2>1, <2>2 DEF IInv, CallInv
<1>8. QED BY <1>5, <1>6, <1>7 DEF IInv

\* What a commit leaves behind of the invariant.
LEMMA CallsStay ==
  ASSUME IInv, CommittedInv', next' >= next, Kept(Orderly, file, next, file'),
         \A c \in Client : \/ call'[c] = call[c] /\ seen'[c] = seen[c]
                           \/ call'[c] = None /\ seen'[c] = <<>>
  PROVE  CallInv'
<1>1. CommittedInv /\ CallInv
  BY DEF IInv
<1>2. \A s \in Tables : Good(Orderly, Transaction(s, file, bin, next, clock + 1))
                           => Good(Orderly, Transaction(s, file', bin', next', clock' + 1))
  BY <1>1, SnapshotsStay
<1>3. QED BY <1>1, <1>2 DEF CallInv

LEMMA JobStays == ASSUME IInv, CommittedInv', next' >= next, UNCHANGED job PROVE JobInv'
<1>1. next \in Nat /\ next' \in Nat /\ JobInv
  BY DEF IInv, CommittedInv, Id
<1>2. job # None => job.id \in Nat
  BY <1>1 DEF JobInv, Id
<1>3. QED BY <1>1, <1>2 DEF JobInv

LEMMA EndCallHolds == ASSUME IInv, NEW c \in Client, EndCall(c)
  PROVE  IInv' /\ Kept(Orderly, file, next, file')
<1> DEFINE now == clock + 1
           t == Transaction(seen[c], file, bin, next, now)
<1>1. /\ CommittedInv /\ CallInv /\ FunctionInv /\ call[c] # None
      /\ UNCHANGED <<batch, work, job, crashes>>
      /\ call' = [call EXCEPT ![c] = None] /\ seen' = [seen EXCEPT ![c] = <<>>]
  BY DEF EndCall, timer, IInv
<1>2. /\ seen[c] \in Tables /\ file \in Tables /\ bin \in SUBSET Nat /\ next \in Id /\ now \in Id
      /\ clock \in Nat /\ Good(Orderly, t) /\ Asked(call[c], seen[c])
      /\ \A i \in DOMAIN file : file[i].trashed <= clock
  BY <1>1 DEF CommittedInv, CallInv, Id
<1>3. PICK s \in Results(t, call[c]) :
         /\ Bounded(s) /\ next' = s.next
         /\ IF s.failed THEN UNCHANGED <<file, bin>> ELSE file' = s.db /\ bin' = s.bin
  BY DEF EndCall
<1>4. clock' = (IF \E i \in DOMAIN file' : file'[i].trashed > clock THEN clock + 1 ELSE clock)
      /\ clock' <= MaxClock
  BY DEF EndCall
<1>5. /\ t \in Transactions /\ t.seen = seen[c] /\ t.db = file /\ t.bin = bin /\ t.next = next
      /\ t.now = now /\ ~t.wrote /\ ~t.failed
  BY <1>2, TransactionIs
<1>6. s \in After(Orderly, t)
  <2> HIDE DEF t
  <2>1. t \in Sane(Orderly)
    BY <1>2, <1>5 DEF Sane
  <2>2. Fresh(t)
    <3>1. \A i \in DOMAIN file : file[i].trashed \in Nat
      BY <1>2, TableRows DEF Rows
    <3>2. QED BY <1>2, <1>5, <3>1 DEF Fresh, now
  <2>3. QED BY <1>2, <1>3, <1>5, <2>1, <2>2, ResultsAfter
<1> HIDE DEF t
<1>7. /\ s \in Sane(Orderly) /\ s.next >= next /\ s.now = now
      /\ s.failed \/ Kept(Orderly, file, next, s.db)
  BY <1>5, <1>6 DEF After
<1>8. /\ s.db \in Tables /\ s.bin \in SUBSET Nat /\ s.next \in Id /\ s.next \in Nat /\ next \in Nat
  BY <1>2, <1>7, Shape DEF Id
<1>9. next' \in Id /\ next' >= next /\ next' <= MaxRow + 1 /\ Users < next'
  <2>1. Users < next /\ Users \in Nat /\ MaxRow \in Nat
    BY <1>1, UsersAssumption, BoundAssumption DEF CommittedInv
  <2>2. s.next <= MaxRow + 1
    BY <1>3 DEF Bounded
  <2>3. QED BY <1>3, <1>7, <1>8, <2>1, <2>2
<1>10. CommittedInv' /\ Kept(Orderly, file, next, file')
  <2> DEFINE then == clock' + 1
  <2>1. clock' \in Nat /\ then \in Id /\ clock' >= clock
    BY <1>2, <1>4 DEF Id
  <2>2. CASE s.failed
    <3>1. UNCHANGED <<file, bin>>
      BY <1>3, <2>2
    <3>2. clock' = clock
      <4>1. \A i \in DOMAIN file : ~(file[i].trashed > clock)
        <5>1. \A i \in DOMAIN file : file[i].trashed \in Nat
          BY <1>2, TableRows DEF Rows
        <5>2. QED BY <1>2, <5>1
      <4>2. QED BY <1>4, <3>1, <4>1
    <3>3. Kept(Orderly, file, next, file')
      BY <3>1 DEF Kept, Same
    <3>4. Whole(file, bin, next', now)
      <4>1. /\ Sound(file, next) /\ (\A i \in DOMAIN file : file[i].trashed <= now)
            /\ bin \subseteq 1..next - 1
            /\ NamesAreUnique(file) /\ (Safe => Rooted(file)) /\ (Calm => OneInGrave(file))
            /\ (Still => Kin(file)) /\ (Orderly => Safe /\ Placed(file))
        <5>1. Whole(file, bin, next, now)
          BY <1>1 DEF CommittedInv
        <5> HIDE DEF now
        <5>2. QED BY <1>2, <5>1, WholeHas DEF Whole
      <4>2. Sound(file, next')
        <5>1. \A i \in DOMAIN file : i \in Nat /\ file[i].parent \in Nat
          BY <1>2, TableRows DEF Rows
        <5>2. next' \in Nat
          BY <1>9 DEF Id
        <5>3. QED BY <1>8, <1>9, <4>1, <5>1, <5>2 DEF Sound
      <4>3. bin \subseteq 1..next' - 1
        <5> DEFINE n == next'
        <5>1. n \in Nat /\ n >= next
          BY <1>9 DEF Id
        <5> HIDE DEF n
        <5>2. 1..next - 1 \subseteq 1..n - 1
          BY <1>8, <5>1
        <5>3. QED BY <4>1, <5>2 DEF n
      <4> HIDE DEF now
      <4>4. QED BY <1>2, <1>9, <4>1, <4>2, <4>3, WholeMade
    <3>5. Whole(file', bin', next', clock' + 1)
      BY <3>1, <3>2, <3>4
    <3>6. CommittedInv'
      BY <1>2, <1>4, <1>9, <2>1, <3>1, <3>2, <3>5 DEF CommittedInv
    <3>7. QED BY <3>3, <3>6
  <2>3. CASE ~s.failed
    <3>1. file' = s.db /\ bin' = s.bin
      BY <1>3, <2>3
    <3>2. \A i \in DOMAIN s.db : s.db[i].trashed <= clock'
      <4>1. \A i \in DOMAIN s.db : s.db[i].trashed <= clock + 1 /\ s.db[i].trashed \in Nat
        <5>1. \A i \in DOMAIN s.db : s.db[i].trashed <= s.now
          BY <1>7, <2>3 DEF Sane, Good
        <5>2. QED BY <1>7, <1>8, <5>1, TableRows DEF Rows
      <4>2. QED BY <1>2, <1>4, <3>1, <4>1
    <3>3. Whole(s.db, s.bin, s.next, then)
      <4>1. \A i \in DOMAIN s.db : s.db[i].trashed <= then
        <5>1. \A i \in DOMAIN s.db : s.db[i].trashed \in Nat
          BY <1>8, TableRows DEF Rows
        <5>2. QED BY <2>1, <3>2, <5>1
      <4> HIDE DEF then
      <4>2. QED BY <1>7, <2>1, <2>3, <4>1, WholeAfter
    <3>4. CommittedInv'
      BY <1>3, <1>4, <1>8, <1>9, <2>1, <3>1, <3>2, <3>3 DEF CommittedInv
    <3>5. QED BY <1>7, <2>3, <3>1, <3>4
  <2>4. QED BY <2>2, <2>3
<1>11. \A d \in Client : \/ call'[d] = call[d] /\ seen'[d] = seen[d]
                         \/ call'[d] = None /\ seen'[d] = <<>>
  <2>1. DOMAIN call = Client /\ DOMAIN seen = Client
    BY <1>1 DEF FunctionInv
  <2>2. QED BY <1>1, <2>1
<1>12. CallInv' /\ JobInv'
  BY <1>1, <1>9, <1>10, <1>11, CallsStay, JobStays
<1>13. FunctionInv' /\ TimerInv' /\ crashes' \in 0..MaxCrash
  BY <1>1 DEF IInv, FunctionInv, TimerInv
<1>14. IInv'
  BY <1>10, <1>12, <1>13 DEF IInv
<1>15. QED BY <1>10, <1>14

LEMMA TimerQuiet ==
  ASSUME IInv, UNCHANGED <<durable, calls, job, crashes>>, TimerInv' PROVE IInv'
<1>1. UNCHANGED <<file, bin, next, clock, call, seen, job, crashes>>
  BY DEF durable, calls
<1>2. CommittedInv' /\ CallInv'
  BY <1>1 DEF IInv, CommittedInv, CallInv
<1>3. JobInv' /\ FunctionInv'
  BY <1>1 DEF IInv, JobInv, FunctionInv
<1>4. QED BY <1>1, <1>2, <1>3 DEF IInv

\* Another table or bin, while the requests and the clock stay as they are.
LEMMA WriteKeeps ==
  ASSUME IInv, file' \in Tables, bin' \in SUBSET Nat, next' \in Id, next' >= next,
         next' <= MaxRow + 1, UNCHANGED <<clock, calls, crashes>>, TimerInv', JobInv',
         \A i \in DOMAIN file' : file'[i].trashed <= clock,
         Whole(file', bin', next', clock + 1), Kept(Orderly, file, next, file')
  PROVE  IInv'
<1>1. /\ CommittedInv /\ UNCHANGED <<clock, call, seen, crashes>>
      /\ clock \in Nat /\ next \in Nat /\ next' \in Nat /\ Users \in Nat /\ Users < next
  BY UsersAssumption DEF IInv, CommittedInv, calls, Id
<1>2. CommittedInv'
  <2>1. Users < next' /\ clock' = clock /\ clock <= MaxClock
    BY <1>1 DEF CommittedInv
  <2>2. Whole(file', bin', next', clock' + 1)
    BY <2>1
  <2>3. QED BY <1>1, <2>1, <2>2 DEF CommittedInv
<1>3. CallInv'
  BY <1>1, <1>2, CallsStay
<1>4. FunctionInv'
  BY <1>1 DEF IInv, FunctionInv
<1>5. QED BY <1>1, <1>2, <1>3, <1>4 DEF IInv

\* What the invariant says of the committed table.
LEMMA FileIs ==
  ASSUME IInv
  PROVE  /\ file \in Tables /\ bin \in SUBSET Nat /\ next \in Id /\ next \in Nat /\ clock \in Nat
         /\ next <= MaxRow + 1 /\ clock + 1 \in Id /\ Users < next
         /\ \A i \in DOMAIN file : file[i].trashed <= clock
         /\ Sound(file, next) /\ bin \subseteq 1..next - 1 /\ NamesAreUnique(file)
         /\ Safe => Rooted(file)
         /\ Calm => OneInGrave(file)
         /\ Still => Kin(file)
         /\ Orderly => Safe /\ Placed(file)
<1> DEFINE now == clock + 1
<1>1. /\ file \in Tables /\ bin \in SUBSET Nat /\ next \in Id /\ next \in Nat /\ clock \in Nat
      /\ next <= MaxRow + 1 /\ now \in Id /\ Users < next
      /\ \A i \in DOMAIN file : file[i].trashed <= clock
      /\ Whole(file, bin, next, now)
  BY DEF IInv, CommittedInv, Id
<1> HIDE DEF now
<1>2. /\ Sound(file, next) /\ bin \subseteq 1..next - 1 /\ NamesAreUnique(file)
      /\ (Safe => Rooted(file)) /\ (Calm => OneInGrave(file))
      /\ (Still => Kin(file)) /\ (Orderly => Safe /\ Placed(file))
  BY <1>1, WholeHas DEF Whole
<1>3. QED BY <1>1, <1>2 DEF now

\* The committed table with other rows in it.
LEMMA FileWhole ==
  ASSUME IInv, NEW db \in Tables, NEW b \in SUBSET Nat, NEW n \in Id,
         Sound(db, n), \A i \in DOMAIN db : db[i].trashed <= clock, b \subseteq 1..n - 1,
         NamesAreUnique(db), Safe => Rooted(db), Calm => OneInGrave(db), Still => Kin(db),
         Orderly => Placed(db)
  PROVE  Whole(db, b, n, clock + 1)
<1> DEFINE now == clock + 1
<1>1. now \in Id
  BY FileIs
<1>2. \A i \in DOMAIN db : db[i].trashed <= now
  <2>1. \A i \in DOMAIN db : db[i].trashed \in Nat
    BY TableRows DEF Rows
  <2>2. QED BY <2>1, FileIs
<1>3. Orderly => Safe
  BY DEF Orderly
<1> HIDE DEF now
<1>4. Whole(db, b, n, now)
  BY <1>1, <1>2, <1>3, WholeMade
<1>5. QED BY <1>4 DEF now

LEMMA TimerInsertHolds == ASSUME IInv, TimerInsert PROVE IInv'
<1> DEFINE i == Head(work).id
<1>1. UNCHANGED <<file, next, clock, calls, job, crashes>> /\ work # <<>>
  BY DEF TimerInsert, Inserts
<1>2. HasTimer
  BY <1>1 DEF IInv, TimerInv
<1>3. bin' = bin \/ bin' = bin \cup ({i} \cap DOMAIN file)
  BY DEF TimerInsert
<1>4. bin' \in SUBSET Nat /\ bin' \subseteq 1..next - 1
  <2> HIDE DEF i
  <2>1. \A k \in DOMAIN file : k \in Nat /\ k # 0 /\ k < next
    BY FileIs, TableRows DEF Sound
  <2>2. {i} \cap DOMAIN file \subseteq 1..next - 1
    BY <2>1, FileIs
  <2>3. QED BY <1>3, <2>1, <2>2, FileIs
<1>5. Whole(file, bin', next, clock + 1)
  BY <1>4, FileIs, FileWhole
<1>6. Kept(Orderly, file, next, file)
  BY DEF Kept, Same
<1>7. JobInv'
  BY <1>1 DEF IInv, JobInv
<1>8. TimerInv'
  BY <1>2 DEF TimerInv
<1>9. QED BY <1>1, <1>4, <1>5, <1>6, <1>7, <1>8, FileIs, WriteKeeps

LEMMA TimerRemoveHolds == ASSUME IInv, TimerRemove
  PROVE  IInv' /\ Kept(Orderly, file, next, file')
<1> DEFINE i == Head(work).id
           db == [j \in DOMAIN file \ {i} |-> file[j]]
<1>1. /\ UNCHANGED <<bin, next, clock, calls, batch, job, crashes>> /\ work # <<>>
      /\ file' = db
  BY DEF TimerRemove, Removes
<1>2. HasTimer
  BY <1>1 DEF IInv, TimerInv
<1>3. ~Safe /\ ~Calm /\ ~Orderly /\ ~Still
  BY <1>2 DEF Safe, Calm, Orderly, Still
<1>4. DOMAIN db \subseteq DOMAIN file /\ \A j \in DOMAIN db : db[j] = file[j]
  OBVIOUS
<1>5. db \in Tables
  <2>1. DOMAIN file \in SUBSET Id /\ \A j \in DOMAIN file : file[j] \in Rows
    BY FileIs, TableRows
  <2>2. db \in [DOMAIN file \ {i} -> Rows]
    BY <2>1
  <2>3. QED BY <2>1, <2>2, TableMade
<1> HIDE DEF db
<1>6. /\ Sound(db, next) /\ NamesAreUnique(db) /\ \A j \in DOMAIN db : db[j].trashed <= clock
  BY <1>4, FileIs DEF Sound, NamesAreUnique
<1>7. Whole(db, bin, next, clock + 1)
  BY <1>3, <1>5, <1>6, FileIs, FileWhole
<1>8. Kept(Orderly, file, next, db)
  BY <1>3, <1>4 DEF Kept, Same
<1>9. JobInv' /\ TimerInv'
  BY <1>1, <1>2 DEF IInv, JobInv, TimerInv
<1>10. QED BY <1>1, <1>5, <1>6, <1>7, <1>8, <1>9, FileIs, WriteKeeps

LEMMA TimerListHolds == ASSUME IInv, TimerSelect \/ TimerTake \/ TimerDescend PROVE IInv'
<1>1. UNCHANGED <<durable, calls, job, crashes>>
  BY DEF TimerSelect, TimerTake, TimerDescend
<1>2. HasTimer
  BY DEF IInv, TimerInv, TimerSelect, TimerTake, TimerDescend, Descends
<1>3. TimerInv'
  BY <1>2 DEF TimerInv
<1>4. QED BY <1>1, <1>3, TimerQuiet

LEMMA WorkerSelectHolds == ASSUME IInv, WorkerSelect PROVE IInv'
<1>1. /\ UNCHANGED <<file, bin, next, clock, call, seen, batch, work, crashes>>
      /\ CommittedInv /\ CallInv /\ TimerInv /\ FunctionInv /\ crashes \in 0..MaxCrash
  BY DEF WorkerSelect, durable, calls, timer, IInv
<1>2. PICK i \in SelectNoHandle(file) : job' = [id |-> i, user |-> file[i].user]
  BY DEF WorkerSelect
<1>3. i \in DOMAIN file /\ ~IsFolder(file[i])
  BY <1>2 DEF SelectNoHandle
<1>4. i \in Id /\ i < next /\ file[i].user \in 1..Users
  BY <1>3, FileIs, TableRows DEF Sound, Rows, Id
<1>5. Safe => i \notin 1..Users
  BY <1>3, FileIs DEF Rooted, Root, IsFolder
<1>6. JobInv'
  <2>1. job'.id = i /\ job'.user = file[i].user
    BY <1>2
  <2>2. QED BY <1>1, <1>4, <1>5, <2>1 DEF JobInv
<1>7. CommittedInv' /\ CallInv'
  BY <1>1 DEF CommittedInv, CallInv
<1>8. TimerInv' /\ FunctionInv' /\ crashes' \in 0..MaxCrash
  BY <1>1 DEF TimerInv, FunctionInv
<1>9. QED BY <1>6, <1>7, <1>8 DEF IInv

\* The extra row belongs to nobody when the file has been deleted meanwhile.
LEMMA ExtraRowIs ==
  ASSUME NEW u \in 1..Users, NEW p \in Nat
  PROVE  LET row == [FileRow(u, p, ExtraName, ExtraData) EXCEPT !.extra = TRUE, !.state = 1]
         IN  /\ row \in Rows /\ row.user = u /\ row.parent = p /\ row.name = ExtraName
             /\ row.content = ExtraData /\ row.extra /\ row.trashed = 0 /\ ~row.history
             /\ ~IsFolder(row)
<1> DEFINE f == FileRow(u, p, ExtraName, ExtraData)
           row == [f EXCEPT !.extra = TRUE, !.state = 1]
<1>1. ExtraName \in Text /\ ExtraData \in Data /\ ExtraData # None
  BY NameAssumption DEF Text, Data
<1>2. /\ f \in Rows /\ f.user = u /\ f.parent = p /\ f.name = ExtraName /\ f.content = ExtraData
      /\ f.trashed = 0 /\ ~f.history
  BY <1>1, FileRowOk DEF Current
<1> HIDE DEF f
<1>3. /\ row \in Rows /\ row.user = u /\ row.parent = p /\ row.name = ExtraName
      /\ row.content = ExtraData /\ row.extra /\ row.trashed = 0 /\ ~row.history
  BY <1>2 DEF Rows
<1> HIDE DEF row
<1>4. ~IsFolder(row)
  BY <1>1, <1>3 DEF IsFolder
<1>5. QED BY <1>3, <1>4 DEF row, f

LEMMA WorkerAddExtraHolds == ASSUME IInv, WorkerAddExtra
  PROVE  IInv' /\ Kept(Orderly, file, next, file')
<1> DEFINE row == [FileRow(job.user, job.id, ExtraName, ExtraData) EXCEPT !.extra = TRUE,
                                                                         !.state = 1]
           db == With(file, next, row)
           n == next + 1
<1>1. /\ job # None /\ next <= MaxRow /\ NamesAreUnique(db) /\ file' = db /\ next' = n
      /\ UNCHANGED <<bin, clock, calls, batch, work, job, crashes>>
  BY DEF WorkerAddExtra, timer
<1>2. job.id \in Id /\ job.user \in 1..Users /\ job.id < next /\ (Safe => job.id \notin 1..Users)
  BY <1>1 DEF IInv, JobInv
<1>3. /\ row \in Rows /\ row.user = job.user /\ row.parent = job.id /\ row.name = ExtraName
      /\ row.content = ExtraData /\ row.extra /\ row.trashed = 0 /\ ~IsFolder(row)
      /\ ~row.history
  BY <1>2, ExtraRowIs DEF Id
<1> HIDE DEF row
<1>4. next \in Id /\ next \in Nat /\ n \in Id /\ n \in Nat /\ MaxRow \in Nat /\ Users \in Nat
      /\ Users < next
  BY FileIs, UsersAssumption, BoundAssumption DEF Id
<1>5. /\ DOMAIN file \subseteq Id /\ next \notin DOMAIN file
      /\ \A i \in DOMAIN file : /\ i \in Nat /\ i < next /\ file[i] \in Rows
                                /\ file[i].parent \in Nat /\ file[i].parent < next
  BY FileIs, TableRows DEF Sound, Rows
<1>6. /\ DOMAIN db = DOMAIN file \cup {next} /\ db[next] = row
      /\ \A i \in DOMAIN file : db[i] = file[i]
  BY <1>5 DEF With
<1>7. db \in Tables
  <2>1. db \in [DOMAIN file \cup {next} -> Rows]
    BY <1>3, <1>5 DEF With
  <2>2. DOMAIN file \cup {next} \in SUBSET Id
    BY <1>4, <1>5
  <2>3. QED BY <2>1, <2>2, TableMade
<1> HIDE DEF db
<1>8. Sound(db, n)
  <2>1. ASSUME NEW i \in DOMAIN db
        PROVE  i < n /\ db[i].parent < n /\ (IsFolder(db[i]) => ~db[i].history /\ ~db[i].extra)
    <3>1. CASE i = next
      BY <1>2, <1>3, <1>4, <1>6, <3>1 DEF Id
    <3>2. CASE i \in DOMAIN file
      BY <1>4, <1>5, <1>6, <3>2, FileIs DEF Sound
    <3>3. QED BY <1>6, <3>1, <3>2
  <2>2. QED BY <2>1 DEF Sound
<1>9. \A i \in DOMAIN db : db[i].trashed <= clock
  BY <1>3, <1>6, FileIs
<1>10. bin \in SUBSET Nat /\ bin \subseteq 1..n - 1
  BY <1>4, FileIs
<1>11. Safe => Rooted(db)
  <2> SUFFICES ASSUME Safe PROVE Rooted(db)
    OBVIOUS
  <2>1. Rooted(file)
    BY FileIs
  <2>2. row.parent # 0 /\ row.name # None
    BY <1>2, <1>3, NameAssumption DEF Id
  <2>3. QED BY <1>6, <2>1, <2>2 DEF Rooted
<1>12. Calm => OneInGrave(db)
  <2> SUFFICES ASSUME Calm PROVE OneInGrave(db)
    OBVIOUS
  <2>1. OneInGrave(file)
    BY FileIs
  <2> SUFFICES ASSUME NEW i \in DOMAIN db, NEW j \in DOMAIN db, j \in Versions(db, i),
                      db[i].trashed # 0, db[j].trashed = db[i].trashed,
                      ~db[i].history, ~db[j].history
               PROVE  i = j
    BY DEF OneInGrave
  <2>2. i \in DOMAIN file /\ j \in DOMAIN file /\ db[i] = file[i] /\ db[j] = file[j]
    BY <1>3, <1>6
  <2>3. j \in Versions(file, i)
    BY <2>2 DEF Versions
  <2>4. QED BY <2>1, <2>2, <2>3 DEF OneInGrave
<1>kin. ASSUME Still PROVE Kin(db)
  <2>1. Kin(file) /\ ~row.history
    BY <1>3, <1>kin, FileIs
  <2> HIDE DEF row
  <2>2. \A h \in DOMAIN file : /\ Versions(file, h) \subseteq Versions(db, h)
                             /\ Versions(file, h) \subseteq DOMAIN file
    BY <1>6 DEF Versions
  <2>3. QED BY <1>6, <2>1, <2>2 DEF Kin
<1>13. Orderly => Placed(db)
  <2> SUFFICES ASSUME Orderly PROVE Placed(db)
    OBVIOUS
  <2>1. Placed(file) /\ ExtraName \notin FolderName
    BY FileIs DEF Orderly, Plain
  <2>2. ASSUME NEW i \in DOMAIN db
        PROVE  /\ db[i].extra \/ (db[i].parent = 0 /\ db[i].name = None) \/ InFolderOf(db, db[i])
               /\ IsFolder(db[i]) <=> db[i].name \in FolderName \cup {None}
    <3>1. CASE i = next
      BY <1>3, <1>6, <2>1, <3>1, NameAssumption
    <3>2. CASE i \in DOMAIN file
      BY <1>6, <2>1, <3>2 DEF Placed, InFolderOf
    <3>3. QED BY <1>6, <3>1, <3>2
  <2>3. QED BY <2>2 DEF Placed
<1>14. Kept(Orderly, file, next, db)
  <2>1. \A i \in DOMAIN db : i < next => i \in DOMAIN file /\ db[i] = file[i]
    BY <1>4, <1>6
  <2>2. DOMAIN file \subseteq DOMAIN db
    BY <1>6
  <2>3. QED BY <2>1, <2>2 DEF Kept, Same
<1>15. Whole(db, bin, n, clock + 1)
  <2> HIDE DEF n
  <2>1. QED BY <1>1, <1>4, <1>7, <1>8, <1>9, <1>10, <1>11, <1>12, <1>13, <1>kin, FileWhole
<1>16. JobInv' /\ TimerInv'
  <2>1. JobInv'
    BY <1>1, <1>2, <1>4 DEF JobInv, Id
  <2>2. TimerInv'
    BY <1>1 DEF IInv, TimerInv
  <2>3. QED BY <2>1, <2>2
<1>17. n >= next /\ n <= MaxRow + 1
  BY <1>1, <1>4
<1> HIDE DEF n
<1>18. QED BY <1>1, <1>4, <1>7, <1>9, <1>10, <1>14, <1>15, <1>16, <1>17, WriteKeeps

LEMMA WorkerSetStateHolds == ASSUME IInv, WorkerSetState
  PROVE  IInv' /\ Kept(Orderly, file, next, file')
<1>1. /\ UNCHANGED <<bin, next, clock, calls, batch, work, crashes>> /\ job' = None
  BY DEF WorkerSetState, timer
<1>2. PICK s \in {1, 2} :
         file' = [i \in DOMAIN file |-> IF i = job.id THEN [file[i] EXCEPT !.state = s] ELSE file[i]]
  BY DEF WorkerSetState
<1> DEFINE db == [i \in DOMAIN file |-> IF i = job.id THEN [file[i] EXCEPT !.state = s] ELSE file[i]]
<1>3. \A i \in DOMAIN file : /\ file[i] \in Rows /\ i \in Id /\ db[i] \in Rows
                             /\ db[i].user = file[i].user /\ db[i].parent = file[i].parent
                             /\ db[i].name = file[i].name /\ db[i].content = file[i].content
                             /\ db[i].extra = file[i].extra /\ db[i].history = file[i].history
                             /\ db[i].trashed = file[i].trashed
  <2> SUFFICES ASSUME NEW i \in DOMAIN file
               PROVE  /\ file[i] \in Rows /\ i \in Id /\ db[i] \in Rows
                      /\ db[i].user = file[i].user /\ db[i].parent = file[i].parent
                      /\ db[i].name = file[i].name /\ db[i].content = file[i].content
                      /\ db[i].extra = file[i].extra /\ db[i].history = file[i].history
                      /\ db[i].trashed = file[i].trashed
    OBVIOUS
  <2>1. file[i] \in Rows /\ i \in Id
    BY FileIs, TableRows
  <2>2. CASE i = job.id
    <3>1. db[i] = [file[i] EXCEPT !.state = s] /\ s \in Nat
      BY <2>2
    <3> HIDE DEF db
    <3>2. QED BY <2>1, <3>1 DEF Rows
  <2>3. CASE i # job.id
    <3>1. db[i] = file[i]
      BY <2>3
    <3> HIDE DEF db
    <3>2. QED BY <2>1, <3>1
  <2>4. QED BY <2>2, <2>3
<1>4. DOMAIN db = DOMAIN file
  OBVIOUS
<1>5. db \in Tables
  <2>1. db \in [DOMAIN file -> Rows] /\ DOMAIN file \in SUBSET Id
    <3>1. db = [i \in DOMAIN file |-> db[i]]
      OBVIOUS
    <3> HIDE DEF db
    <3>2. QED BY <1>3, <3>1
  <2> HIDE DEF db
  <2>2. QED BY <2>1, TableMade
<1>6. file' = db
  BY <1>2
<1> HIDE DEF db
<1>7. Sound(db, next) /\ \A i \in DOMAIN db : db[i].trashed <= clock
  <2>1. Sound(file, next) /\ \A i \in DOMAIN file : file[i].trashed <= clock
    BY FileIs
  <2>2. QED BY <1>3, <1>4, <2>1 DEF Sound, IsFolder
<1>8. NamesAreUnique(db)
  <2>1. NamesAreUnique(file)
    BY FileIs
  <2>2. \A i \in DOMAIN db : Current(db[i]) <=> Current(file[i])
    BY <1>3, <1>4 DEF Current
  <2>3. QED BY <1>3, <1>4, <2>1, <2>2 DEF NamesAreUnique
<1>9. Safe => Rooted(db)
  <2> SUFFICES ASSUME Safe PROVE Rooted(db)
    OBVIOUS
  <2>1. Rooted(file)
    BY FileIs
  <2>2. \A i \in DOMAIN db : Current(db[i]) <=> Current(file[i])
    BY <1>3, <1>4 DEF Current
  <2>3. \A u \in 1..Users : u \in DOMAIN db /\ Root(db[u], u)
    BY <1>3, <1>4, <2>1, <2>2 DEF Rooted, Root
  <2>4. QED BY <1>3, <1>4, <2>1, <2>3 DEF Rooted
<1>10. Calm => OneInGrave(db)
  <2> SUFFICES ASSUME Calm PROVE OneInGrave(db)
    OBVIOUS
  <2>1. OneInGrave(file)
    BY FileIs
  <2> SUFFICES ASSUME NEW i \in DOMAIN db, NEW j \in DOMAIN db, j \in Versions(db, i),
                      db[i].trashed # 0, db[j].trashed = db[i].trashed,
                      ~db[i].history, ~db[j].history
               PROVE  i = j
    BY DEF OneInGrave
  <2>2. j \in Versions(file, i)
    BY <1>3, <1>4 DEF Versions
  <2>3. QED BY <1>3, <1>4, <2>1, <2>2 DEF OneInGrave
<1>11. Orderly => Placed(db)
  <2> SUFFICES ASSUME Orderly PROVE Placed(db)
    OBVIOUS
  <2>1. Placed(file)
    BY FileIs
  <2>2. \A i \in DOMAIN db : IsFolder(db[i]) <=> IsFolder(file[i])
    BY <1>3, <1>4 DEF IsFolder
  <2>3. \A i \in DOMAIN db : InFolderOf(file, file[i]) => InFolderOf(db, db[i])
    BY <1>3, <1>4, <2>2 DEF InFolderOf
  <2>4. QED BY <1>3, <1>4, <2>1, <2>2, <2>3 DEF Placed
<1>12. Kept(Orderly, file, next, db)
  BY <1>3, <1>4 DEF Kept, Same
<1>kin. ASSUME Still PROVE Kin(db)
  <2>1. Kin(file)
    BY <1>kin, FileIs
  <2>2. \A h \in DOMAIN file : /\ Versions(file, h) \subseteq Versions(db, h)
                             /\ Versions(file, h) \subseteq DOMAIN file
    BY <1>3, <1>4 DEF Versions
  <2>3. QED BY <1>3, <1>4, <2>1, <2>2 DEF Kin, Current
<1>13. Whole(db, bin, next, clock + 1)
  BY <1>5, <1>7, <1>8, <1>9, <1>10, <1>11, <1>kin, FileIs, FileWhole
<1>14. JobInv' /\ TimerInv'
  BY <1>1 DEF IInv, JobInv, TimerInv
<1>15. QED BY <1>1, <1>5, <1>6, <1>7, <1>12, <1>13, <1>14, FileIs, WriteKeeps

LEMMA CrashHolds == ASSUME IInv, Crash PROVE IInv'
<1>1. /\ UNCHANGED <<file, bin, next, clock>> /\ job' = None /\ batch' = {} /\ work' = <<>>
      /\ call' = [c \in Client |-> None] /\ seen' = [c \in Client |-> <<>>]
      /\ crashes < MaxCrash /\ crashes' = crashes + 1 /\ crashes \in 0..MaxCrash
  BY DEF Crash, durable, IInv
<1>2. CommittedInv'
  BY <1>1 DEF IInv, CommittedInv
<1>3. CallInv' /\ FunctionInv'
  BY <1>1 DEF CallInv, FunctionInv
<1>4. JobInv' /\ TimerInv'
  BY <1>1 DEF JobInv, TimerInv
<1>5. crashes' \in 0..MaxCrash
  BY <1>1, BoundAssumption
<1>6. QED BY <1>2, <1>3, <1>4, <1>5 DEF IInv

\* A step keeps the invariant, and the rows as they were added.
StepHolds == IInv' /\ Kept(Orderly, file, next, file')

LEMMA NextHolds == ASSUME IInv, [Next]_vars PROVE StepHolds
<1>1. UNCHANGED file => Kept(Orderly, file, next, file')
  BY DEF Kept, Same
<1>2. CASE \E c \in Client : BeginCall(c)
  <2>1. UNCHANGED file
    BY <1>2 DEF BeginCall, durable
  <2>2. QED BY <1>1, <1>2, <2>1, BeginCallHolds DEF StepHolds
<1>3. CASE \E c \in Client : EndCall(c)
  BY <1>3, EndCallHolds DEF StepHolds
<1>4. CASE TimerSelect \/ TimerTake \/ TimerDescend
  <2>1. UNCHANGED file
    BY <1>4 DEF TimerSelect, TimerTake, TimerDescend, durable
  <2>2. QED BY <1>1, <1>4, <2>1, TimerListHolds DEF StepHolds
<1>5. CASE TimerInsert
  <2>1. UNCHANGED file
    BY <1>5 DEF TimerInsert
  <2>2. QED BY <1>1, <1>5, <2>1, TimerInsertHolds DEF StepHolds
<1>6. CASE TimerRemove \/ WorkerAddExtra \/ WorkerSetState
  BY <1>6, TimerRemoveHolds, WorkerAddExtraHolds, WorkerSetStateHolds DEF StepHolds
<1>7. CASE WorkerSelect
  <2>1. UNCHANGED file
    BY <1>7 DEF WorkerSelect, durable
  <2>2. QED BY <1>1, <1>7, <2>1, WorkerSelectHolds DEF StepHolds
<1>8. CASE Crash
  <2>1. UNCHANGED file
    BY <1>8 DEF Crash, durable
  <2>2. QED BY <1>1, <1>8, <2>1, CrashHolds DEF StepHolds
<1>9. CASE UNCHANGED vars
  <2>1. UNCHANGED <<durable, calls, batch, work, job, crashes>> /\ UNCHANGED file
    BY <1>9 DEF vars, timer, durable
  <2>2. TimerInv'
    BY <2>1 DEF IInv, TimerInv
  <2>3. IInv'
    BY <2>1, <2>2, TimerQuiet
  <2>4. QED BY <1>1, <2>1, <2>3 DEF StepHolds
<1>10. QED BY <1>2, <1>3, <1>4, <1>5, <1>6, <1>7, <1>8, <1>9 DEF Next

\* In every state the committed table is whole, and what a request has read
\* still fits it: whatever the requests are, without any hypothesis.
THEOREM TreeStaysWhole == Spec => []IInv
<1>1. Init => IInv
  BY InitHolds
<1>2. IInv /\ [Next]_vars => IInv'
  BY NextHolds DEF StepHolds
<1>3. QED BY <1>1, <1>2, PTL DEF Spec

\* The types, for any requests, and with the timer as without it: rows belong
\* to users and lie below the next id, also the extra rows that the worker
\* adds after its file is gone.
THEOREM TypesHold == Spec => []TypeOK
<1>1. IInv => TypeOK
  <2> SUFFICES ASSUME IInv PROVE TypeOK
    OBVIOUS
  <2>1. /\ next \in Nat /\ Users \in Nat /\ MaxRow \in Nat /\ MaxClock \in Nat /\ clock \in Nat
        /\ clock <= MaxClock /\ Users < next /\ next <= MaxRow + 1
    BY FileIs, UsersAssumption, BoundAssumption DEF IInv, CommittedInv
  <2>2. \A i \in DOMAIN file : i \in Nat /\ i # 0 /\ file[i] \in Rows
    BY FileIs, TableRows
  <2>3. \A i \in DOMAIN file :
          /\ i < next
          /\ file[i].user \in 1..Users
          /\ file[i].parent \in 0..next - 1
          /\ file[i].trashed \in 0..clock
          /\ (IsFolder(file[i]) => ~file[i].history /\ ~file[i].extra)
    <3> SUFFICES ASSUME NEW i \in DOMAIN file
                 PROVE  /\ i < next
                        /\ file[i].user \in 1..Users
                        /\ file[i].parent \in 0..next - 1
                        /\ file[i].trashed \in 0..clock
                        /\ (IsFolder(file[i]) => ~file[i].history /\ ~file[i].extra)
      OBVIOUS
    <3>1. file[i].user \in 1..Users /\ file[i].parent \in Nat /\ file[i].trashed \in Nat
      BY <2>2 DEF Rows
    <3>2. /\ i < next /\ file[i].parent < next /\ file[i].trashed <= clock
          /\ (IsFolder(file[i]) => ~file[i].history /\ ~file[i].extra)
      BY FileIs DEF Sound
    <3>3. QED BY <2>1, <3>1, <3>2
  <2>4. DOMAIN file \subseteq 1..MaxRow /\ bin \subseteq 1..MaxRow
    <3>1. \A i \in DOMAIN file : i \in 1..MaxRow
      BY <2>1, <2>2, <2>3
    <3>2. bin \subseteq 1..next - 1 /\ 1..next - 1 \subseteq 1..MaxRow
      BY <2>1, FileIs
    <3>3. QED BY <3>1, <3>2
  <2>5. next \in Users + 1..MaxRow + 1 /\ clock \in 0..MaxClock
    BY <2>1
  <2>6. \A c \in Client : call[c] = None => seen[c] = <<>>
    BY DEF IInv, CallInv
  <2>7. (work # <<>> => HasTimer) /\ crashes \in 0..MaxCrash
    BY DEF IInv, TimerInv
  <2>8. QED BY <2>3, <2>4, <2>5, <2>6, <2>7 DEF TypeOK
<1>2. QED BY <1>1, TreeStaysWhole, PTL

\* While nothing is moved or renamed, nor deleted for good under the feet of
\* another deletion, what one deletion put into the recycle bin holds at most
\* one row that becomes current again, however requests, the worker and crashes
\* interleave.
THEOREM OneCurrentPerGraveHolds == ASSUME Calm PROVE Spec => []OneCurrentPerGrave
<1>1. IInv => OneCurrentPerGrave
  <2> SUFFICES ASSUME IInv PROVE OneCurrentPerGrave
    OBVIOUS
  <2>1. OneInGrave(file)
    BY FileIs
  <2>2. QED BY <2>1 DEF OneInGrave, OneCurrentPerGrave
<1>2. QED BY <1>1, TreeStaysWhole, PTL

\* While moreover nothing is restored or deleted for good, a history row
\* that is not in the recycle bin has a current row beside it, however
\* overwrites, copies and deletions interleave: an overwrite whose row has
\* been overwritten meanwhile fails at idx_name, one whose row has been
\* deleted makes a version of what lies in the recycle bin.
THEOREM HistoryHasCurrentHolds == ASSUME Still PROVE Spec => []HistoryHasCurrent
<1>1. IInv => HistoryHasCurrent
  <2> SUFFICES ASSUME IInv PROVE HistoryHasCurrent
    OBVIOUS
  <2>1. Kin(file)
    BY FileIs
  <2>2. QED BY <2>1 DEF Kin, HistoryHasCurrent
<1>2. QED BY <1>1, TreeStaysWhole, PTL

\* Every row lies in a folder of its own user, current or not, when folders
\* and files have names of their own and files are copied and moved one by
\* one: the folder may be deleted or moved meanwhile, but its row stays.
THEOREM ParentIsFolderHolds == ASSUME Orderly PROVE Spec => []ParentIsFolder
<1>1. IInv => ParentIsFolder
  <2> SUFFICES ASSUME IInv PROVE ParentIsFolder
    OBVIOUS
  <2>1. Placed(file)
    BY FileIs
  <2>2. QED BY <2>1 DEF Placed, InFolderOf, ParentIsFolder
<1>2. QED BY <1>1, TreeStaysWhole, PTL

\* An id is never given to another row, and the user, the storage file and
\* the kind of a row never change, whatever requests, timer, worker and
\* crashes do: whoever has read a row may rely on them after any wait. Under
\* Calm, where Same says so, its folder and its name never change either.
THEOREM RowsKeepContent ==
  Spec => [][\A i \in DOMAIN file' :
                i < next => i \in DOMAIN file /\ Same(file'[i], file[i])]_vars
<1>1. IInv /\ [Next]_vars => [\A i \in DOMAIN file' :
                i < next => i \in DOMAIN file /\ Same(file'[i], file[i])]_vars
  BY NextHolds DEF StepHolds, Kept
<1>2. QED BY <1>1, TreeStaysWhole, PTL DEF Spec

\* Under the hypotheses of ParentIsFolderHolds no row ever leaves the table:
\* a deletion only marks rows.
THEOREM RowsStay == ASSUME Orderly PROVE Spec => [][DOMAIN file \subseteq DOMAIN file']_vars
<1>1. IInv /\ [Next]_vars => [DOMAIN file \subseteq DOMAIN file']_vars
  BY NextHolds DEF StepHolds, Kept
<1>2. QED BY <1>1, TreeStaysWhole, PTL DEF Spec
=============================================================================

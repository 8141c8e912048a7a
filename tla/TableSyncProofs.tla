--------------------------- MODULE TableSyncProofs ---------------------------
(***************************************************************************)
(* What TableSync guarantees for any tables at first, any pages, retries   *)
(* and faults, whatever the users of the master do.                        *)
(***************************************************************************)
EXTENDS TableSync, TLAPS, WellFoundedInduction, FiniteSetTheorems, SequenceTheorems

-----------------------------------------------------------------------------
(* Folding statements.                                                     *)

LEMMA NatHasLeast == ASSUME NEW S \in SUBSET Nat, S # {}
  PROVE \E i \in S : \A j \in S : i <= j
<1> DEFINE Below == {1..i : i \in S}
           R == StrictSubsetOrdering(Nat)
<1>1. Below \subseteq FiniteSubsetsOf(Nat)
  BY FS_Interval DEF FiniteSubsetsOf
<1>2. PICK T \in Below : \A U \in Below : <<U, T>> \notin R
  <2>1. IsWellFoundedOn(R, FiniteSubsetsOf(Nat))
    BY FS_StrictSubsetOrderingWellFounded
  <2>2. Below # {}
    OBVIOUS
  <2> HIDE DEF Below, R
  <2>3. QED BY <1>1, <2>1, <2>2, WFMin
<1>3. PICK i \in S : T = 1..i
  BY <1>2
<1>4. ASSUME NEW j \in S, j < i PROVE FALSE
  <2>1. /\ 1..j \in SUBSET Nat /\ 1..i \in SUBSET Nat
        /\ 1..j \subseteq 1..i /\ 1..j # 1..i
    <3>1. i \in 1..i /\ i \notin 1..j
      BY <1>4
    <3>2. QED BY <1>4, <3>1
  <2>2. <<1..j, 1..i>> \in R
    BY <2>1 DEF StrictSubsetOrdering
  <2>3. 1..j \in Below
    OBVIOUS
  <2> HIDE DEF Below, R
  <2>4. QED BY <1>2, <1>3, <2>2, <2>3
<1>5. QED BY <1>4

\* What the fold of FoldLeft is on a set of positions.
IsFold(g, T, batch, S) ==
    g = [s \in SUBSET S |-> IF s = {} THEN T
                            ELSE Effect(g[s \ {Max(s)}], batch[Max(s)])]

LEMMA MaxOfTop == ASSUME NEW n \in Nat, NEW s \in SUBSET (1..n), n \in s
  PROVE Max(s) = n
<1>1. n \in s /\ \A y \in s : n >= y
  OBVIOUS
<1>2. \A x \in s : (\A y \in s : x >= y) => x = n
  OBVIOUS
<1>3. QED BY <1>1, <1>2 DEF Max

\* The fold exists, one position after the other.
LEMMA FoldExists == ASSUME NEW T, NEW batch, NEW n \in Nat
  PROVE \E g : IsFold(g, T, batch, 1..n)
<1> DEFINE Bad == {k \in Nat : ~ \E g : IsFold(g, T, batch, 1..k)}
<1> SUFFICES ASSUME Bad # {} PROVE FALSE
  OBVIOUS
<1>1. PICK k \in Bad : \A j \in Bad : k <= j
  BY NatHasLeast
<1>2. k # 0
  <2> SUFFICES ASSUME k = 0 PROVE FALSE
    OBVIOUS
  <2> DEFINE g == [s \in SUBSET (1..0) |-> T]
  <2>1. \A s \in SUBSET (1..0) : s = {}
    OBVIOUS
  <2>2. IsFold(g, T, batch, 1..0)
    BY <2>1 DEF IsFold
  <2> HIDE DEF g
  <2>3. QED BY <2>2
<1>3. PICK h : IsFold(h, T, batch, 1..(k - 1))
  BY <1>1, <1>2
<1> DEFINE D == SUBSET (1..k)
           g == [s \in D |-> IF k \in s THEN Effect(h[s \ {k}], batch[k]) ELSE h[s]]
           body(s) == IF s = {} THEN T ELSE Effect(g[s \ {Max(s)}], batch[Max(s)])
<1>4. \A s \in D : k \notin s => s \in SUBSET (1..(k - 1)) /\ g[s] = h[s]
  OBVIOUS
<1>5. ASSUME NEW s \in D PROVE g[s] = body(s)
  <2>1. CASE k \in s
    <3>1. Max(s) = k /\ s # {}
      BY <2>1, MaxOfTop
    <3>2. s \ {k} \in D /\ k \notin s \ {k}
      OBVIOUS
    <3>3. g[s \ {k}] = h[s \ {k}]
      BY <1>4, <3>2
    <3>4. g[s] = Effect(h[s \ {k}], batch[k])
      BY <2>1
    <3> HIDE DEF g
    <3>5. QED BY <3>1, <3>3, <3>4
  <2>2. CASE k \notin s
    <3>1. s \in SUBSET (1..(k - 1)) /\ g[s] = h[s]
      BY <1>4, <2>2
    <3>2. h[s] = IF s = {} THEN T ELSE Effect(h[s \ {Max(s)}], batch[Max(s)])
      BY <1>3, <3>1 DEF IsFold
    <3>3. g[s \ {Max(s)}] = h[s \ {Max(s)}]
      BY <1>4, <2>2
    <3> HIDE DEF g
    <3>4. QED BY <3>1, <3>2, <3>3
  <2>3. QED BY <2>1, <2>2
<1>6. g = [s \in D |-> body(s)]
  <2>1. g = [s \in D |-> g[s]]
    OBVIOUS
  <2> HIDE DEF g
  <2>2. QED BY <1>5, <2>1
<1>7. IsFold(g, T, batch, 1..k)
  BY <1>6 DEF IsFold
<1> HIDE DEF g
<1>8. QED BY <1>1, <1>7

\* What Effects makes of a batch, statement by statement.
LEMMA FoldSteps == ASSUME NEW T, NEW X, NEW batch \in Seq(X)
  PROVE \E g : /\ g[0] = T /\ Effects(T, batch) = g[Len(batch)]
               /\ \A k \in 1..Len(batch) : g[k] = Effect(g[k - 1], batch[k])
<1> DEFINE n == Len(batch)
           h == CHOOSE h : IsFold(h, T, batch, 1..n)
           g == [k \in 0..n |-> h[1..k]]
<1>0. n \in Nat /\ DOMAIN batch = 1..n
  OBVIOUS
<1>1. IsFold(h, T, batch, 1..n)
  BY <1>0, FoldExists
<1>2. \A s \in SUBSET (1..n) : h[s] = IF s = {} THEN T
                                 ELSE Effect(h[s \ {Max(s)}], batch[Max(s)])
  BY <1>1 DEF IsFold
<1>3. Effects(T, batch) = h[1..n]
  BY <1>0 DEF Effects, FoldLeft, MapThenFoldSet, IsFold
<1> HIDE DEF h
<1>4. g[0] = T
  <2>1. 1..0 = {} /\ g[0] = h[1..0]
    BY <1>0
  <2>2. QED BY <1>2, <2>1
<1>5. ASSUME NEW k \in 1..n PROVE g[k] = Effect(g[k - 1], batch[k])
  <2>0. k \in Nat /\ k <= n /\ 1 <= k
    BY <1>0
  <2> HIDE DEF n
  <2>1. /\ 1..k \in SUBSET (1..n) /\ (1..k) \ {k} = 1..(k - 1)
        /\ k \in 1..k
    BY <1>0, <2>0
  <2>2. Max(1..k) = k
    BY <2>0, <2>1, MaxOfTop
  <2>3. h[1..k] = Effect(h[1..(k - 1)], batch[k])
    BY <1>2, <2>1, <2>2
  <2>4. g[k] = h[1..k] /\ g[k - 1] = h[1..(k - 1)]
    BY <1>0
  <2>5. QED BY <2>3, <2>4
<1>6. g[n] = h[1..n]
  BY <1>0
<1> HIDE DEF g
<1>7. QED BY <1>3, <1>4, <1>5, <1>6

-----------------------------------------------------------------------------
(* What tables, rows and statements are.                                   *)

Names  == FileName \cup FolderName \cup NewName
StType == [id : 1..MaxId, md5 : Md5]

\* The rows of storage_file that were ever given an id up to n: content tells
\* what the file of an id contains, on both servers.
Stored(n, content) == {q \in StType : q.id <= n /\ q.md5 = content[q.id]}

\* The rows of dfs_file that the master may have made.
Made(n) == {r \in RowType : r.id \notin Own /\ r.id <= n}

Sound(T, n, content) ==
    /\ T \in [df : SUBSET RowType, bin : SUBSET RowType, st : SUBSET Stored(n, content)]
    /\ \A r, s \in T.df : r.id = s.id => r = s

\* The files of the slave's own are stored.
Held(T) == \A t \in T.df : (t.id \in Own /\ t.st # 0) => t.st \in Ids(T.st)

\* They are in U what they are in T.
Keeps(T, U, content) ==
    \A s \in T.df : (s.id \in Own /\ s.st # 0) =>
       \E t \in U.df : t.id = s.id /\ t.st # 0 /\ content[t.st] = content[s.st]

Statement ==
    [op : {"storage"}, row : StType] \cup [op : {"file"}, row : RowType]
    \cup [op : {"history", "trash", "bin", "delete"}, on : 1..MaxId]
    \cup [op : {"rename"}, on : 1..MaxId, name : Names]

\* A statement, or a row of a log, that the master may have made.
Fits(s, n, content) ==
    /\ s.op \in {"storage", "file", "history", "trash", "bin", "delete", "rename"}
    /\ s.op = "storage" => s.row \in Stored(n, content)
    /\ s.op = "file" => s.row \in Made(n)
    /\ s.op \in {"history", "trash", "bin", "delete", "rename"} => s.on \notin Own
    /\ s.op = "rename" => s.name \in Names

\* U has the rows D of T, changed by c.
Rewrites(T, U, D, c) ==
    /\ D \subseteq T.df /\ c \in [D -> RowType]
    /\ \A x \in D : c[x].id = x.id /\ c[x].st = x.st
    /\ U = [T EXCEPT !.df = {c[x] : x \in D}]

\* None of the slave's files is dropped.
LeavesOwn(T, D) == \A x \in T.df \ D : x.id \notin Own \/ x.st = 0

LEMMA Rewritten ==
  ASSUME NEW n, NEW content, NEW T, Sound(T, n, content),
         NEW D, NEW c, NEW U, Rewrites(T, U, D, c)
  PROVE  /\ Sound(U, n, content)
         /\ Ids(U.df) \subseteq Ids(T.df)
         /\ (Held(T) /\ LeavesOwn(T, D)) => Held(U) /\ Keeps(T, U, content)
<1> USE DEF Rewrites
<1>1. U = [df |-> {c[x] : x \in D}, bin |-> T.bin, st |-> T.st]
  BY DEF Sound
<1>2. Sound(U, n, content)
  <2>1. \A r, s \in U.df : r.id = s.id => r = s
    <3> SUFFICES ASSUME NEW x \in D, NEW y \in D, c[x].id = c[y].id PROVE c[x] = c[y]
      BY <1>1
    <3>1. x = y
      BY DEF Sound
    <3>2. QED BY <3>1
  <2>2. QED BY <1>1, <2>1 DEF Sound
<1>3. Ids(U.df) \subseteq Ids(T.df)
  BY <1>1 DEF Ids
<1>4. ASSUME Held(T), LeavesOwn(T, D) PROVE Held(U) /\ Keeps(T, U, content)
  <2>1. Held(U)
    BY <1>1, <1>4 DEF Held
  <2>2. ASSUME NEW s \in T.df, s.id \in Own, s.st # 0
        PROVE  \E t \in U.df : t.id = s.id /\ t.st # 0 /\ content[t.st] = content[s.st]
    <3>1. s \in D
      BY <1>4, <2>2 DEF LeavesOwn
    <3>2. c[s] \in U.df
      BY <1>1, <3>1
    <3>3. QED BY <2>2, <3>1, <3>2
  <2>3. QED BY <2>1, <2>2 DEF Keeps
<1>5. QED BY <1>2, <1>3, <1>4

\* A row of the master takes the place of the row with its id.
LEMMA RowPut ==
  ASSUME NEW n, NEW content, NEW T, Sound(T, n, content),
         NEW r \in RowType, r.id \notin Own,
         NEW U, U = [T EXCEPT !.df = {x \in T.df : x.id # r.id} \cup {r}]
  PROVE  /\ Sound(U, n, content)
         /\ Ids(U.df) \subseteq Ids(T.df) \cup {r.id}
         /\ Held(T) => Held(U) /\ Keeps(T, U, content)
<1>1. U = [df |-> {x \in T.df : x.id # r.id} \cup {r}, bin |-> T.bin, st |-> T.st]
  BY DEF Sound
<1>2. Sound(U, n, content)
  BY <1>1 DEF Sound
<1>3. Ids(U.df) \subseteq Ids(T.df) \cup {r.id}
  BY <1>1 DEF Ids
<1>4. ASSUME Held(T) PROVE Held(U)
  BY <1>1, <1>4 DEF Held
<1>5. Keeps(T, U, content)
  BY <1>1 DEF Keeps
<1>6. QED BY <1>2, <1>3, <1>4, <1>5

LEMMA KeepsOn ==
  ASSUME NEW content, NEW T, NEW U, NEW V,
         Keeps(T, U, content), Keeps(U, V, content)
  PROVE  Keeps(T, V, content)
  BY DEF Keeps

LEMMA KeepsSelf == ASSUME NEW content, NEW T PROVE Keeps(T, T, content)
  BY DEF Keeps

-----------------------------------------------------------------------------
(* What the handlers do to the tables.                                     *)

\* The stored file comes under the id of the master.
LEMMA StorageCame ==
  ASSUME NEW n, NEW content, NEW T, Sound(T, n, content), Held(T),
         NEW r \in Stored(n, content),
         NEW U, U = [Repoint(T, r) EXCEPT !.st = @ \cup {r}]
  PROVE  Sound(U, n, content) /\ Held(U) /\ Keeps(T, U, content)
<1> DEFINE old == {s \in T.st : s.md5 = r.md5 /\ s.id # r.id}
           c == [x \in T.df |-> IF x.st \in Ids(old) THEN [x EXCEPT !.st = r.id] ELSE x]
           df == {c[x] : x \in T.df}
           st == (T.st \ old) \cup {r}
<1>1. U = [df |-> df, bin |-> T.bin, st |-> st]
  BY DEF Sound, Repoint
<1>2. r \in StType /\ r.id \in 1..MaxId /\ r.md5 = content[r.id] /\ r.id # 0
  BY NumberAssumption DEF Stored, StType
<1>3. ASSUME NEW x \in T.df
      PROVE  /\ c[x] \in RowType /\ c[x].id = x.id
             /\ c[x].st = IF x.st \in Ids(old) THEN r.id ELSE x.st
  BY <1>2, NumberAssumption DEF Sound, RowType
<1> HIDE DEF c, st, df
<1>4. /\ U.df = df /\ U.bin = T.bin /\ U.st = st
      /\ U = [df |-> U.df, bin |-> U.bin, st |-> U.st]
  BY ONLY <1>1
<1> USE DEF st, df
<1>5. Sound(U, n, content)
  <2>1. \A a, b \in U.df : a.id = b.id => a = b
    <3> SUFFICES ASSUME NEW x \in T.df, NEW y \in T.df, c[x].id = c[y].id PROVE c[x] = c[y]
      BY <1>4
    <3>1. x = y
      BY <1>3 DEF Sound
    <3>2. QED BY <3>1
  <2>2. {c[x] : x \in T.df} \subseteq RowType
    BY <1>3
  <2>3. st \subseteq Stored(n, content)
    BY DEF Sound
  <2> HIDE DEF st
  <2>4. U \in [df : SUBSET RowType, bin : SUBSET RowType, st : SUBSET Stored(n, content)]
    BY <1>4, <2>2, <2>3 DEF Sound
  <2>5. QED BY <2>1, <2>4 DEF Sound
<1>6. Held(U)
  <2> SUFFICES ASSUME NEW x \in T.df, c[x].id \in Own, c[x].st # 0
               PROVE  c[x].st \in Ids(U.st)
    <3>1. \A x \in T.df : (c[x].id \in Own /\ c[x].st # 0) => c[x].st \in Ids(U.st)
      OBVIOUS
    <3>2. \A t \in df : (t.id \in Own /\ t.st # 0) => t.st \in Ids(U.st)
      BY ONLY <3>1 DEF df
    <3>3. QED BY ONLY <1>4, <3>2 DEF Held
  <2>1. CASE x.st \in Ids(old)
    BY <1>4, <1>3, <2>1 DEF Ids
  <2>2. CASE x.st \notin Ids(old)
    <3>1. c[x].st = x.st /\ x.id \in Own
      BY <1>3, <2>2
    <3>2. PICK q \in T.st : q.id = x.st
      BY <3>1 DEF Held, Ids
    <3>3. q \in U.st
      BY <1>4, <2>2, <3>2 DEF Ids
    <3>4. QED BY <3>1, <3>2, <3>3 DEF Ids
  <2>3. QED BY <2>1, <2>2
<1>7. ASSUME NEW s \in T.df, s.id \in Own, s.st # 0
      PROVE  \E t \in U.df : t.id = s.id /\ t.st # 0 /\ content[t.st] = content[s.st]
  <2>1. c[s] \in U.df
    BY <1>4
  <2>2. c[s].st # 0 /\ content[c[s].st] = content[s.st]
    <3>1. CASE s.st \in Ids(old)
      <4>1. PICK q \in old : q.id = s.st
        BY <3>1 DEF Ids
      <4>2. q.md5 = content[q.id] /\ q.md5 = r.md5
        BY <4>1 DEF Sound, Stored
      <4> HIDE DEF old
      <4>3. QED BY <1>2, <1>3, <3>1, <4>1, <4>2
    <3>2. CASE s.st \notin Ids(old)
      BY <1>3, <1>7, <3>2
    <3>3. QED BY <3>1, <3>2
  <2>3. QED BY <1>3, <2>1, <2>2
<1>8. Keeps(T, U, content)
  BY <1>7 DEF Keeps
<1>9. QED BY <1>5, <1>6, <1>8

LEMMA Merged ==
  ASSUME NEW n, NEW content, NEW T, Sound(T, n, content),
         NEW r \in RowType, NEW e \in T.df, e.st = 0, NEW U, U = Merge(T, r, e)
  PROVE  /\ Sound(U, n, content)
         /\ Held(T) => Held(U) /\ Keeps(T, U, content)
<1> DEFINE D == T.df \ {e}
           c == [x \in D |-> IF x.parent = e.id THEN [x EXCEPT !.parent = r.id] ELSE x]
<1>1. U = [T EXCEPT !.df = {c[x] : x \in D}]
  BY DEF Merge
<1>2. \A x \in D : c[x] \in RowType /\ c[x].id = x.id /\ c[x].st = x.st
  BY NumberAssumption DEF Sound, RowType
<1>3. c \in [D -> RowType]
  BY <1>2
<1>4. D \subseteq T.df /\ LeavesOwn(T, D)
  BY DEF LeavesOwn
<1> HIDE DEF c, D
<1>5. Rewrites(T, U, D, c)
  BY <1>1, <1>2, <1>3, <1>4 DEF Rewrites
<1>6. QED BY <1>4, <1>5, Rewritten

LEMMA HistorySet ==
  ASSUME NEW n, NEW content, NEW T, Sound(T, n, content),
         NEW W, NEW U, U = SetHistory(T, W)
  PROVE  /\ Sound(U, n, content)
         /\ Ids(U.df) \subseteq Ids(T.df)
         /\ Held(T) => Held(U) /\ Keeps(T, U, content)
<1> DEFINE D == T.df
           c == [x \in D |-> IF x \in W THEN [x EXCEPT !.hist = TRUE] ELSE x]
<1>1. U = [T EXCEPT !.df = {c[x] : x \in D}]
  BY DEF SetHistory, Update
<1>2. \A x \in D : c[x] \in RowType /\ c[x].id = x.id /\ c[x].st = x.st
  BY NumberAssumption DEF Sound, RowType
<1>3. c \in [D -> RowType]
  BY <1>2
<1>4. D \subseteq T.df /\ LeavesOwn(T, D)
  BY DEF LeavesOwn
<1> HIDE DEF c, D
<1>5. Rewrites(T, U, D, c)
  BY <1>1, <1>2, <1>3, <1>4 DEF Rewrites
<1>6. QED BY <1>4, <1>5, Rewritten

RowsOf(s) == IF s.op = "file" THEN {s.row.id} ELSE {}

\* A statement keeps the tables sound, and makes no rows but its own.  A new
\* row of storage_file counts as held here.
LEMMA EffectIsSound ==
  ASSUME NEW n, NEW content, NEW T, Sound(T, n, content),
         NEW s, Fits(s, n, content), s.op = "file" => s.row.id \notin Ids(T.df),
         NEW U, U = Effect(T, s)
  PROVE  /\ Sound(U, n, content)
         /\ Ids(U.df) \subseteq Ids(T.df) \cup RowsOf(s)
         /\ Held(T) => Held(U) /\ Keeps(T, U, content)
<1> USE DEF RowsOf
<1>1. CASE s.op = "storage"
  <2>1. U = [df |-> T.df, bin |-> T.bin, st |-> T.st \cup {s.row}]
    BY <1>1 DEF Effect, Sound
  <2>2. Sound(U, n, content) /\ U.df = T.df /\ T.st \subseteq U.st
    BY <1>1, <2>1 DEF Sound, Fits
  <2>3. QED BY <1>1, <2>2 DEF Held, Keeps, Ids
<1>2. CASE s.op = "file"
  <2>1. s.row \in RowType /\ s.row.id \notin Own
    BY <1>2 DEF Fits, Made
  <2>2. {x \in T.df : x.id # s.row.id} = T.df
    BY <1>2 DEF Ids
  <2>3. U = [T EXCEPT !.df = {x \in T.df : x.id # s.row.id} \cup {s.row}]
    BY <1>2, <2>2 DEF Effect
  <2>4. QED BY <1>2, <2>1, <2>3, RowPut
<1>3. CASE s.op = "history"
  BY <1>3, HistorySet DEF Effect
<1>4. CASE s.op = "rename"
  <2> DEFINE D == T.df
             W == ById(T, s.on)
             c == [x \in D |-> IF x \in W THEN [x EXCEPT !.name = s.name] ELSE x]
  <2>1. U = [T EXCEPT !.df = {c[x] : x \in D}]
    BY <1>4 DEF Effect, Update
  <2>2. \A x \in D : c[x] \in RowType /\ c[x].id = x.id /\ c[x].st = x.st
    BY <1>4 DEF Sound, RowType, Fits, Names
  <2>3. c \in [D -> RowType]
    BY <2>2
  <2>4. D \subseteq T.df /\ LeavesOwn(T, D)
    BY DEF LeavesOwn
  <2> HIDE DEF c, D
  <2>5. Rewrites(T, U, D, c)
    BY <2>1, <2>2, <2>3, <2>4 DEF Rewrites
  <2>6. QED BY <1>4, <2>4, <2>5, Rewritten
<1>5. CASE s.op = "trash"
  <2> DEFINE D == T.df
             W == {r \in T.df : ~r.trash /\ \E x \in ById(T, s.on) :
                                   r.parent = x.parent /\ r.name = x.name}
             c == [x \in D |-> IF x \in W THEN [x EXCEPT !.trash = TRUE] ELSE x]
  <2>1. U = [T EXCEPT !.df = {c[x] : x \in D}]
    BY <1>5 DEF Effect, Update
  <2> HIDE DEF W
  <2>2. \A x \in D : c[x] \in RowType /\ c[x].id = x.id /\ c[x].st = x.st
    BY <1>5 DEF Sound, RowType
  <2>3. c \in [D -> RowType]
    BY <2>2
  <2>4. D \subseteq T.df /\ LeavesOwn(T, D)
    BY DEF LeavesOwn
  <2> HIDE DEF c, D
  <2>5. Rewrites(T, U, D, c)
    BY <2>1, <2>2, <2>3, <2>4 DEF Rewrites
  <2>6. QED BY <1>5, <2>4, <2>5, Rewritten
<1>6. CASE s.op = "bin"
  <2>1. U = [df |-> T.df, bin |-> T.bin \cup ById(T, s.on), st |-> T.st]
    BY <1>6 DEF Effect, Sound
  <2>2. Sound(U, n, content) /\ U.df = T.df /\ U.st = T.st
    BY <2>1 DEF Sound, ById
  <2>3. QED BY <1>6, <2>2 DEF Held, Keeps
<1>7. CASE s.op = "delete"
  <2> DEFINE D == T.df \ ById(T, s.on)
             c == [x \in D |-> x]
  <2>1. U = [T EXCEPT !.df = {c[x] : x \in D}]
    BY <1>7 DEF Effect
  <2>2. \A x \in D : c[x] \in RowType /\ c[x].id = x.id /\ c[x].st = x.st
    BY DEF Sound
  <2>3. c \in [D -> RowType]
    BY <2>2
  <2>4. D \subseteq T.df /\ LeavesOwn(T, D)
    BY <1>7 DEF ById, Fits, LeavesOwn
  <2> HIDE DEF c, D
  <2>5. Rewrites(T, U, D, c)
    BY <2>1, <2>2, <2>3, <2>4 DEF Rewrites
  <2>6. QED BY <1>7, <2>4, <2>5, Rewritten
<1>8. QED BY <1>1, <1>2, <1>3, <1>4, <1>5, <1>6, <1>7 DEF Fits

\* What insertData makes of a row.
LEMMA InsertKeeps ==
  ASSUME NEW n, NEW content, NEW T, Sound(T, n, content), Held(T),
         NEW tb \in {"df", "bin", "st"}, NEW r,
         tb = "df" => r \in RowType /\ r.id \notin Own,
         tb = "bin" => r \in RowType,
         tb = "st" => r \in Stored(n, content),
         NEW U \in Insert(T, tb, r)
  PROVE  Sound(U, n, content) /\ Held(U) /\ Keeps(T, U, content)
<1>1. CASE tb = "st"
  <2> DEFINE V == Repoint(T, r)
             kept == {x \in V.st : x.id # r.id}
  <2>1. U \in Put(T, Outcome(V, r), "st")
    BY <1>1 DEF Insert
  <2>2. (U = V /\ r \in T.st) \/ U = [V EXCEPT !.st = kept \cup {r}]
    BY <2>1 DEF Put, Outcome
  <2>3. V = [df |-> V.df, bin |-> V.bin, st |-> V.st] /\ V.st \subseteq T.st
        /\ (r \in T.st => r \in V.st)
    <3> DEFINE old == {s \in T.st : s.md5 = r.md5 /\ s.id # r.id}
               df == {IF x.st \in Ids(old) THEN [x EXCEPT !.st = r.id] ELSE x : x \in T.df}
    <3>0. T = [df |-> T.df, bin |-> T.bin, st |-> T.st]
      BY DEF Sound
    <3>a. V = [T EXCEPT !.st = T.st \ old, !.df = df]
      BY DEF Repoint
    <3>1. V = [df |-> df, bin |-> T.bin, st |-> T.st \ old]
      <4> HIDE DEF V, df, old
      <4>1. QED BY ONLY <3>0, <3>a
    <3> HIDE DEF V, df
    <3>2. V = [df |-> V.df, bin |-> V.bin, st |-> V.st] /\ V.st = T.st \ old
      BY ONLY <3>1
    <3>3. QED BY <3>2
  <2>4. V.st \cup {r} = kept \cup {r}
    <3>1. \A x \in V.st : x.id = r.id => x = r
      BY <1>1, <2>3 DEF Sound, Stored, StType
    <3> HIDE DEF V
    <3>2. QED BY <3>1
  <2> HIDE DEF V
  <2>5. U = [V EXCEPT !.st = V.st \cup {r}]
    BY <2>2, <2>3, <2>4
  <2> USE DEF V
  <2>6. QED BY <1>1, <2>5, StorageCame
<1>2. CASE tb = "bin"
  <2>1. U \in Put(T, Outcome(T, r), "bin")
    BY <1>2 DEF Insert
  <2>2. U = T \/ U = [T EXCEPT !.bin = {x \in T.bin : x.id # r.id} \cup {r}]
    BY <2>1 DEF Put, Outcome
  <2>3. Sound(U, n, content) /\ U.df = T.df /\ U.st = T.st
    BY <1>2, <2>2 DEF Sound
  <2>4. QED BY <2>3 DEF Held, Keeps
<1>3. CASE tb = "df"
  <2>1. PICK V, q : /\ U \in Put(T, Outcome(V, q), "df")
                    /\ q \in RowType /\ q.id \notin Own
                    /\ Sound(V, n, content) /\ Held(V) /\ Keeps(T, V, content)
    <3>1. CASE \E e \in Current(T, r.parent, r.name) : e.id # r.id
      <4>1. PICK o \in FileByTable(T, r) : U \in Put(T, o, "df")
        BY <1>3, <3>1 DEF Insert
      <4>2. PICK e \in Current(T, r.parent, r.name) :
                   \/ r.st = 0 /\ e.st = 0 /\ o = Outcome(Merge(T, r, e), r)
                   \/ o = Outcome(SetHistory(T, {e}), r)
                   \/ o = Outcome(T, [r EXCEPT !.hist = TRUE])
        BY <4>1 DEF FileByTable
      <4>3. e \in T.df
        BY DEF Current
      <4>4. CASE r.st = 0 /\ e.st = 0 /\ o = Outcome(Merge(T, r, e), r)
        BY <1>3, <4>1, <4>3, <4>4, Merged
      <4>5. CASE o = Outcome(SetHistory(T, {e}), r)
        BY <1>3, <4>1, <4>5, HistorySet
      <4>6. CASE o = Outcome(T, [r EXCEPT !.hist = TRUE])
        <5>1. [r EXCEPT !.hist = TRUE] \in RowType /\ [r EXCEPT !.hist = TRUE].id = r.id
          BY <1>3 DEF RowType
        <5>2. QED BY <1>3, <4>1, <4>6, <5>1, KeepsSelf
      <4>7. QED BY <4>2, <4>4, <4>5, <4>6
    <3>2. CASE ~ \E e \in Current(T, r.parent, r.name) : e.id # r.id
      BY <1>3, <3>2, KeepsSelf DEF Insert
    <3>3. QED BY <3>1, <3>2
  <2>2. U = V \/ U = [V EXCEPT !.df = {x \in V.df : x.id # q.id} \cup {q}]
    BY <2>1 DEF Put, Outcome
  <2>3. QED BY <2>1, <2>2, RowPut, KeepsOn
<1>4. QED BY <1>1, <1>2, <1>3

\* What runSql makes of a row of the log.
LEMMA ReplayKeeps ==
  ASSUME NEW n, NEW content, NEW T, Sound(T, n, content), Held(T),
         NEW s, Fits(s, n, content), NEW U \in Replay(T, s)
  PROVE  Sound(U, n, content) /\ Held(U) /\ Keeps(T, U, content)
<1>1. CASE s.op = "storage"
  <2> DEFINE V == Repoint(T, s.row)
  <2>1. U = Effect(V, s) /\ s.row \in Stored(n, content)
    BY <1>1 DEF Replay, Fits
  <2>2. U = [V EXCEPT !.st = @ \cup {s.row}]
    BY <1>1, <2>1 DEF Effect
  <2>3. QED BY <2>1, <2>2, StorageCame
<1>2. CASE s.op # "storage"
  <2>1. PICK V : /\ U = Effect(V, s) /\ Allowed(V, s)
                 /\ Sound(V, n, content) /\ Held(V) /\ Keeps(T, V, content)
    <3>1. CASE s.op = "file" /\ Current(T, s.row.parent, s.row.name) # {}
      <4>1. PICK o \in FileByLog(T, s.row) : U = Effect(o.T, s) /\ Allowed(o.T, s)
        BY <3>1 DEF Replay
      <4>2. PICK e \in Current(T, s.row.parent, s.row.name) :
                   \/ s.row.st = 0 /\ e.st = 0 /\ o = Outcome(Merge(T, s.row, e), s.row)
                   \/ o = Outcome(SetHistory(T, {e}), s.row)
        BY <4>1 DEF FileByLog
      <4>3. e \in T.df /\ s.row \in RowType
        BY <3>1 DEF Current, Fits, Made
      <4>4. CASE s.row.st = 0 /\ e.st = 0 /\ o = Outcome(Merge(T, s.row, e), s.row)
        <5>1. o.T = Merge(T, s.row, e)
          BY <4>4 DEF Outcome
        <5>2. QED BY <4>1, <4>3, <4>4, <5>1, Merged
      <4>5. CASE o = Outcome(SetHistory(T, {e}), s.row)
        <5>1. o.T = SetHistory(T, {e})
          BY <4>5 DEF Outcome
        <5>2. QED BY <4>1, <5>1, HistorySet
      <4>6. QED BY <4>2, <4>4, <4>5
    <3>2. CASE ~ (s.op = "file" /\ Current(T, s.row.parent, s.row.name) # {})
      BY <1>2, <3>2, KeepsSelf DEF Replay
    <3>3. QED BY <3>1, <3>2
  <2>2. s.op = "file" => s.row.id \notin Ids(V.df)
    BY <2>1 DEF Allowed
  <2>3. QED BY <2>1, <2>2, EffectIsSound, KeepsOn
<1>3. QED BY <1>1, <1>2

-----------------------------------------------------------------------------
(* The invariant.                                                          *)

NumberInv ==
    /\ now \in Nat /\ FirstId <= now /\ now <= MaxId
    /\ \A i \in Own : i \in Nat /\ i <= FirstId

TablesInv(content) ==
    /\ Sound(master, now, content) /\ master.df \subseteq Made(now)
    /\ Sound(slave, now, content) /\ Held(slave)

\* At most the last statement of a request inserts into dfs_file, a row whose
\* id is new.
RequestInv(content) ==
    /\ req \in [todo : Seq(Statement), done : Seq(Statement), auto : BOOLEAN]
    /\ \A i \in 1..Len(req.todo) : Fits(req.todo[i], now, content)
    /\ \A i \in 1..Len(req.done) : Fits(req.done[i], now, content)
    /\ \A i \in 1..Len(req.todo) : req.todo[i].op = "file" =>
          i = Len(req.todo) /\ req.todo[i].row.id \notin Ids(master.df)

LogInv(content) == \A l \in log \cup queue : Fits(l.sql, now, content)

CopyInv(content) ==
    /\ at = [table |-> at.table, last |-> at.last] /\ at.table \in 1..3
    /\ \A r \in page : CASE TableName = "df"  -> r \in Made(now)
                         [] TableName = "bin" -> r \in RowType
                         [] TableName = "st"  -> r \in Stored(now, content)

LoadInv ==
    /\ pc \in {"off", "copy", "listen", "error"}
    /\ load \in [part : [Md5 -> 0..Blocks], tries : 0..MaxRetry, ready : SUBSET Md5]

InvOf(content) ==
    /\ NumberInv /\ TablesInv(content) /\ RequestInv(content) /\ LogInv(content)
    /\ CopyInv(content) /\ LoadInv

Inv == \E content : InvOf(content)

LEMMA TableNames == \A i \in 1..3 :
    Tables[i] = CASE i = 1 -> "df" [] i = 2 -> "bin" [] i = 3 -> "st"
  BY DEF Tables

\* What was made stays made when the clock and the stored files move on.
LEMMA Later ==
  ASSUME NEW n \in Nat, NEW k \in Nat, n <= k, NEW content, NEW more,
         \A i \in 1..n : more[i] = content[i]
  PROVE  /\ Stored(n, content) \subseteq Stored(k, more)
         /\ Made(n) \subseteq Made(k)
         /\ \A T : Sound(T, n, content) => Sound(T, k, more)
         /\ \A s : Fits(s, n, content) => Fits(s, k, more)
<1>1. Stored(n, content) \subseteq Stored(k, more)
  BY NumberAssumption DEF Stored, StType
<1>2. Made(n) \subseteq Made(k)
  BY NumberAssumption DEF Made, RowType
<1>3. ASSUME NEW T, Sound(T, n, content) PROVE Sound(T, k, more)
  BY <1>1, <1>3 DEF Sound
<1>4. ASSUME NEW s, Fits(s, n, content) PROVE Fits(s, k, more)
  BY <1>1, <1>2, <1>4 DEF Fits
<1>5. QED BY <1>1, <1>2, <1>3, <1>4

\* The rest of the state when only the clock moves on.
LEMMA ClockMoves ==
  ASSUME NEW content, NEW more, InvOf(content), now' \in Nat, now <= now', now' <= MaxId,
         \A i \in 1..now : more[i] = content[i]
  PROVE  /\ NumberInv'
         /\ UNCHANGED <<master, slave>> => TablesInv(more)'
         /\ UNCHANGED <<req, master>> => RequestInv(more)'
         /\ UNCHANGED <<log, queue>> => LogInv(more)'
         /\ UNCHANGED <<at, page>> => CopyInv(more)'
<1> USE DEF InvOf
<1>1. /\ Stored(now, content) \subseteq Stored(now', more)
      /\ Made(now) \subseteq Made(now')
      /\ \A T : Sound(T, now, content) => Sound(T, now', more)
      /\ \A s : Fits(s, now, content) => Fits(s, now', more)
  BY Later DEF NumberInv
<1>2. NumberInv'
  BY NumberAssumption DEF NumberInv
<1>3. ASSUME UNCHANGED <<master, slave>> PROVE TablesInv(more)'
  BY <1>1, <1>3 DEF TablesInv, Held
<1>4. ASSUME UNCHANGED <<req, master>> PROVE RequestInv(more)'
  BY <1>1, <1>4 DEF RequestInv
<1>5. ASSUME UNCHANGED <<log, queue>> PROVE LogInv(more)'
  BY <1>1, <1>5 DEF LogInv
<1>6. ASSUME UNCHANGED <<at, page>> PROVE CopyInv(more)'
  <2>1. TableName' = TableName
    BY <1>6 DEF TableName
  <2>2. TableName = "df" \/ TableName = "bin" \/ TableName = "st"
    BY TableNames DEF CopyInv, TableName
  <2>3. at' = at /\ page' = page
    BY <1>6
  <2>4. QED BY <1>1, <2>1, <2>2, <2>3 DEF CopyInv
<1>7. QED BY <1>2, <1>3, <1>4, <1>5, <1>6

-----------------------------------------------------------------------------
(* It holds at first.                                                      *)

LEMMA InitInv == Init => Inv
<1> SUFFICES ASSUME Init PROVE Inv
  OBVIOUS
<1>1. PICK m \in MasterInit, l \in LocalInit :
         /\ master = [df |-> m.df, bin |-> {}, st |-> m.st]
         /\ slave = [df |-> l.df, bin |-> {}, st |-> l.st]
  BY DEF Init
<1> DEFINE content == [i \in 1..FirstId |->
                         CHOOSE x : \E q \in m.st \cup l.st : q.id = i /\ q.md5 = x]
<1>2. now = FirstId /\ now \in Nat /\ now <= MaxId
  BY NumberAssumption DEF Init
<1>3. ASSUME NEW i \in Own PROVE i \in Nat /\ i <= FirstId
  <2>1. PICK k \in LocalInit : i \in Ids(k.df)
    BY DEF Own, Ids
  <2>2. k.df \subseteq [id : 1..FirstId, parent : 0..FirstId,
                        name : FileName \cup FolderName \cup NewName,
                        st : 0..FirstId, hist : BOOLEAN, trash : BOOLEAN]
    BY InitAssumption
  <2>3. QED BY <2>1, <2>2, NumberAssumption DEF Ids
<1>4. NumberInv
  BY <1>2, <1>3 DEF NumberInv
<1>5. \A T \in {m, l} : T.df \subseteq {r \in RowType : r.id <= now}
  <2>1. \A T \in {m, l} :
           T.df \subseteq [id : 1..FirstId, parent : 0..FirstId,
                           name : FileName \cup FolderName \cup NewName,
                           st : 0..FirstId, hist : BOOLEAN, trash : BOOLEAN]
    BY InitAssumption
  <2>2. QED BY <1>2, <2>1, NumberAssumption DEF RowType
<1>6. m.st \cup l.st \subseteq Stored(now, content)
  <2> SUFFICES ASSUME NEW q \in m.st \cup l.st PROVE q \in Stored(now, content)
    OBVIOUS
  <2>1. q \in [id : 1..FirstId, md5 : Md5]
    BY InitAssumption
  <2>2. \A p \in m.st \cup l.st : p.id = q.id => p = q
    BY InitAssumption
  <2>3. content[q.id] = q.md5
    <3>1. content[q.id] = CHOOSE x : \E p \in m.st \cup l.st : p.id = q.id /\ p.md5 = x
      BY <2>1
    <3>2. \A x : (\E p \in m.st \cup l.st : p.id = q.id /\ p.md5 = x) <=> x = q.md5
      BY <2>2
    <3>3. QED BY <3>1, <3>2
  <2> HIDE DEF content
  <2>4. QED BY <1>2, <2>1, <2>3, NumberAssumption DEF Stored, StType
<1> HIDE DEF content
<1>7. TablesInv(content)
  <2>1. Sound(master, now, content) /\ Sound(slave, now, content)
    BY <1>1, <1>5, <1>6, InitAssumption DEF Sound
  <2>2. master.df \subseteq Made(now)
    <3>1. \A r \in m.df : r.id \notin Own
      BY InitAssumption DEF Own, Ids
    <3>2. QED BY <1>1, <1>5, <3>1 DEF Made
  <2>3. Held(slave)
    BY <1>1, InitAssumption DEF Held, Ids
  <2>4. QED BY <2>1, <2>2, <2>3 DEF TablesInv
<1>8. RequestInv(content) /\ LogInv(content) /\ CopyInv(content) /\ LoadInv
  BY NumberAssumption DEF Init, RequestInv, LogInv, CopyInv, LoadInv, NoRequest, NoLoad
<1>9. QED BY <1>4, <1>7, <1>8 DEF Inv, InvOf

-----------------------------------------------------------------------------
(* The requests of the master.                                             *)

LEMMA BeginInv ==
  ASSUME NEW content, NEW more, InvOf(content),
         \A i \in 1..now : more[i] = content[i],
         NEW statements \in Seq(Statement), NEW auto \in BOOLEAN, NEW ids \in Nat,
         Begin(statements, auto, ids),
         \A i \in 1..Len(statements) :
            /\ Fits(statements[i], now + ids, more)
            /\ statements[i].op = "file" =>
                  i = Len(statements) /\ statements[i].row.id \notin Ids(master.df)
  PROVE  InvOf(more)'
<1> USE DEF Begin
<1>1. now' = now + ids /\ now' \in Nat /\ now <= now' /\ now' <= MaxId
  BY NumberAssumption DEF InvOf, NumberInv
<1>2. NumberInv' /\ TablesInv(more)' /\ LogInv(more)' /\ CopyInv(more)'
  BY <1>1, ClockMoves
<1>3. RequestInv(more)'
  BY <1>1 DEF RequestInv
<1>4. LoadInv'
  BY DEF InvOf, LoadInv
<1>5. QED BY <1>2, <1>3, <1>4 DEF InvOf

\* A row that is about to be made is nobody's yet.
LEMMA RowIsMade ==
  ASSUME NEW content, InvOf(content), NEW k \in 1..2, now + k <= MaxId,
         NEW p \in Folders, NEW name \in Names, NEW st \in 0..MaxId
  PROVE  /\ Row(now + k, p, name, st) \in Made(now + k)
         /\ Row(now + k, p, name, st).id \notin Ids(master.df)
<1>1. p \in 0..MaxId
  BY NumberAssumption DEF Folders, Ids, InvOf, TablesInv, Sound, RowType
<1>2. now + k \in 1..MaxId /\ now + k \notin Own /\ now + k \notin Ids(master.df)
  BY NumberAssumption DEF InvOf, NumberInv, TablesInv, Made, Ids
<1>3. Row(now + k, p, name, st) \in RowType
  BY <1>1, <1>2 DEF Row, RowType, Names
<1>4. Row(now + k, p, name, st).id = now + k /\ now + k <= now + k
  BY NumberAssumption DEF Row, InvOf, NumberInv
<1>5. QED BY <1>2, <1>3, <1>4 DEF Made

LEMMA AddFolderInv ==
  ASSUME NEW content, InvOf(content), NEW p \in Folders, NEW n \in FolderName,
         AddFolder(p, n)
  PROVE  InvOf(content)'
<1> DEFINE s == [op |-> "file", row |-> Row(now + 1, p, n, 0)]
<1>1. Begin(<<s>>, FALSE, 1) /\ now + 1 <= MaxId
  BY DEF AddFolder, Begin
<1>2. s.row \in Made(now + 1) /\ s.row.id \notin Ids(master.df)
  BY <1>1, RowIsMade, NumberAssumption DEF Names
<1>3. s \in Statement /\ Fits(s, now + 1, content) /\ s.op = "file"
  BY <1>2 DEF Statement, Fits, Made
<1> HIDE DEF s
<1>4. <<s>> \in Seq(Statement) /\ Len(<<s>>) = 1 /\ <<s>>[1] = s
  BY <1>3
<1>5. \A i \in 1..Len(<<s>>) : i = 1
  BY <1>4
<1>6. QED BY <1>1, <1>2, <1>3, <1>4, <1>5, BeginInv

\* A statement about a row of the master.
LEMMA OnRowInv ==
  ASSUME NEW content, InvOf(content), NEW r \in master.df,
         NEW s, s.on = r.id,
         \/ s \in [op : {"history", "trash", "bin", "delete"}, on : {r.id}]
         \/ s \in [op : {"rename"}, on : {r.id}, name : Names],
         NEW k, k \in Nat, now <= k
  PROVE  s \in Statement /\ Fits(s, k, content) /\ s.op # "file"
<1>1. r.id \in 1..MaxId /\ r.id \notin Own
  BY DEF InvOf, TablesInv, Made, RowType
<1>2. QED BY <1>1 DEF Statement, Fits

LEMMA RenameInv ==
  ASSUME NEW content, InvOf(content), NEW r \in master.df, NEW n \in NewName, Rename(r, n)
  PROVE  InvOf(content)'
<1> DEFINE s == [op |-> "rename", on |-> r.id, name |-> n]
<1>1. Begin(<<s>>, FALSE, 0) /\ now \in Nat
  BY DEF Rename, InvOf, NumberInv
<1>2. s \in Statement /\ Fits(s, now + 0, content) /\ s.op # "file"
  BY <1>1, OnRowInv DEF Names
<1> HIDE DEF s
<1>3. <<s>> \in Seq(Statement) /\ \A i \in 1..Len(<<s>>) : <<s>>[i] = s
  BY <1>2
<1>4. QED BY <1>1, <1>2, <1>3, BeginInv

LEMMA SetDeleteInv ==
  ASSUME NEW content, InvOf(content), NEW r \in master.df, SetDelete(r)
  PROVE  InvOf(content)'
<1> DEFINE s == [op |-> "trash", on |-> r.id]
<1>1. Begin(<<s>>, FALSE, 0) /\ now \in Nat
  BY DEF SetDelete, InvOf, NumberInv
<1>2. s \in Statement /\ Fits(s, now + 0, content) /\ s.op # "file"
  BY <1>1, OnRowInv
<1> HIDE DEF s
<1>3. <<s>> \in Seq(Statement) /\ \A i \in 1..Len(<<s>>) : <<s>>[i] = s
  BY <1>2
<1>4. QED BY <1>1, <1>2, <1>3, BeginInv

LEMMA PurgeInv ==
  ASSUME NEW content, InvOf(content), NEW r \in master.df, Purge(r)
  PROVE  InvOf(content)'
<1> DEFINE s == [op |-> "bin", on |-> r.id]
           d == [op |-> "delete", on |-> r.id]
<1>1. Begin(<<s, d>>, TRUE, 0) /\ now \in Nat
  BY DEF Purge, InvOf, NumberInv
<1>2. s \in Statement /\ Fits(s, now + 0, content) /\ s.op # "file"
  BY <1>1, OnRowInv
<1>3. d \in Statement /\ Fits(d, now + 0, content) /\ d.op # "file"
  BY <1>1, OnRowInv
<1> HIDE DEF s, d
<1>4. <<s, d>> \in Seq(Statement) /\ \A i \in 1..Len(<<s, d>>) : <<s, d>>[i] \in {s, d}
  BY <1>2, <1>3
<1>5. QED BY <1>1, <1>2, <1>3, <1>4, BeginInv

LEMMA AddFileInv ==
  ASSUME NEW content, InvOf(content), NEW p \in Folders, NEW n \in FileName, NEW x \in Md5,
         AddFile(p, n, x)
  PROVE  Inv'
<1> DEFINE old   == Current(master, p, n)
           known == {s \in master.st : s.md5 = x}
           st    == IF known = {} THEN now + 1 ELSE (CHOOSE s \in known : TRUE).id
           a == [op |-> "storage", row |-> [id |-> st, md5 |-> x]]
           h == [op |-> "history", on |-> (CHOOSE r \in old : TRUE).id]
           f == [op |-> "file", row |-> Row(now + 2, p, n, st)]
           A == IF known = {} THEN <<a>> ELSE <<>>
           H == IF old = {} THEN <<>> ELSE <<h>>
<1>1. Begin(A \o H \o <<f>>, FALSE, 2) /\ now + 2 <= MaxId /\ now \in Nat
  BY DEF AddFile, Begin, InvOf, NumberInv
<1>2. PICK more : (\A i \in 1..now : more[i] = content[i]) /\ more[now + 1] = x
  <2> DEFINE g == [i \in Nat |-> IF i = now + 1 THEN x ELSE content[i]]
  <2>1. (\A i \in 1..now : g[i] = content[i]) /\ g[now + 1] = x
    BY <1>1
  <2> HIDE DEF g
  <2>2. QED BY <2>1
<1>3. now + 1 \in 1..MaxId
  BY <1>1, NumberAssumption
<1>4. known = {} => a \in Statement /\ Fits(a, now + 2, more) /\ a.op # "file"
  <2> SUFFICES ASSUME known = {} PROVE a \in Statement /\ Fits(a, now + 2, more) /\ a.op # "file"
    OBVIOUS
  <2>1. a.row \in Stored(now + 2, more) /\ a.row \in StType
    BY <1>1, <1>2, <1>3 DEF Stored, StType
  <2>2. QED BY <2>1 DEF Statement, Fits
<1>5. old # {} => h \in Statement /\ Fits(h, now + 2, more) /\ h.op # "file"
  <2> SUFFICES ASSUME old # {} PROVE h \in Statement /\ Fits(h, now + 2, more) /\ h.op # "file"
    OBVIOUS
  <2>1. (CHOOSE r \in old : TRUE) \in master.df
    BY DEF Current
  <2>2. h.on \in 1..MaxId /\ h.on \notin Own
    BY <2>1 DEF InvOf, TablesInv, Made, RowType
  <2>3. QED BY <2>2 DEF Statement, Fits
<1>6. f \in Statement /\ Fits(f, now + 2, more) /\ f.op = "file" /\ f.row.id \notin Ids(master.df)
  <2>1. st \in 0..MaxId
    <3>1. CASE known = {}
      BY <1>3, <3>1
    <3>2. CASE known # {}
      <4>1. (CHOOSE s \in known : TRUE) \in master.st
        BY <3>2
      <4>2. QED BY <3>2, <4>1 DEF InvOf, TablesInv, Sound, Stored, StType
    <3>3. QED BY <3>1, <3>2
  <2>2. n \in Names
    BY DEF Names
  <2> HIDE DEF st
  <2>3. f.row \in Made(now + 2) /\ f.row.id \notin Ids(master.df)
    BY <1>1, <2>1, <2>2, RowIsMade
  <2>4. QED BY <2>3 DEF Statement, Fits, Made
<1> DEFINE Small == {s \in {a, h} : s \in Statement /\ Fits(s, now + 2, more) /\ s.op # "file"}
<1>7. A \in Seq(Small) /\ H \in Seq(Small)
  <2>1. (known = {} => a \in Small) /\ (old # {} => h \in Small)
    BY <1>4, <1>5
  <2> HIDE DEF a, h, Small, known, old
  <2>2. QED BY <2>1
<1> HIDE DEF A, H, f, a, h, old, known, st
<1>8. A \o H \in Seq(Small)
  BY <1>7
<1> DEFINE B == A \o H
<1>9. /\ B \o <<f>> \in Seq(Statement) /\ Len(B \o <<f>>) = Len(B) + 1
      /\ \A i \in 1..Len(B) : (B \o <<f>>)[i] = B[i] /\ B[i] \in Small
      /\ (B \o <<f>>)[Len(B) + 1] = f
  <2>1. Small \subseteq Statement
    OBVIOUS
  <2> HIDE DEF B, Small
  <2>2. B \in Seq(Small) /\ B \in Seq(Statement) /\ Len(B) \in Nat
    BY <1>8, <2>1 DEF B
  <2>3. QED BY <1>6, <2>2
<1>10. \A i \in 1..Len(B \o <<f>>) :
         /\ Fits((B \o <<f>>)[i], now + 2, more)
         /\ (B \o <<f>>)[i].op = "file" =>
               i = Len(B \o <<f>>) /\ (B \o <<f>>)[i].row.id \notin Ids(master.df)
  <2> SUFFICES ASSUME NEW i \in 1..Len(B \o <<f>>)
               PROVE  /\ Fits((B \o <<f>>)[i], now + 2, more)
                      /\ (B \o <<f>>)[i].op = "file" =>
                            i = Len(B \o <<f>>) /\ (B \o <<f>>)[i].row.id \notin Ids(master.df)
    OBVIOUS
  <2>1. Len(B) \in Nat
    BY <1>8
  <2> HIDE DEF B
  <2>2. i \in 1..Len(B) \/ i = Len(B) + 1
    BY <1>9, <2>1
  <2>3. QED BY <1>6, <1>9, <2>2
<1>11. InvOf(more)'
  <2> DEFINE S == B \o <<f>>
  <2>1. Begin(S, FALSE, 2) /\ S \in Seq(Statement)
    BY <1>1, <1>9
  <2>2. \A i \in 1..Len(S) :
           /\ Fits(S[i], now + 2, more)
           /\ S[i].op = "file" => i = Len(S) /\ S[i].row.id \notin Ids(master.df)
    BY <1>10
  <2> HIDE DEF S
  <2>3. QED BY <1>2, <2>1, <2>2, BeginInv
<1>12. QED BY <1>11 DEF Inv

New(k) == IF k = Len(req.todo) THEN RowsOf(req.todo[k]) ELSE {}

\* A commit is one statement after the other.
LEMMA CommitSteps ==
  ASSUME NEW content, InvOf(content), Commit
  PROVE  \E n, g :
            /\ n \in 1..Len(req.todo)
            /\ req' = [todo |-> SubSeq(req.todo, n + 1, Len(req.todo)),
                       done |-> SubSeq(req.todo, 1, n), auto |-> req.auto]
            /\ g[0] = master /\ master' = g[n]
            /\ \A k \in 1..n : g[k] = Effect(g[k - 1], req.todo[k])
            /\ \A k \in 0..n : /\ Sound(g[k], now, content)
                               /\ Ids(g[k].df) \subseteq Ids(master.df) \cup New(k)
<1> DEFINE todo == req.todo
           n == IF req.auto THEN 1 ELSE Len(todo)
           batch == SubSeq(todo, 1, n)
           rest == SubSeq(todo, n + 1, Len(todo))
<1>1. /\ todo \in Seq(Statement) /\ todo # <<>> /\ n \in 1..Len(todo) /\ Len(todo) \in Nat
  BY DEF Commit, InvOf, RequestInv
<1>2. /\ batch \in Seq(Statement) /\ Len(batch) = n
      /\ \A k \in 1..n : batch[k] = todo[k]
  <2> HIDE DEF todo, n
  <2>1. QED BY <1>1
<1>4. /\ master' = Effects(master, batch)
      /\ req' = [todo |-> rest, done |-> batch, auto |-> req.auto]
  BY DEF Commit, InvOf, RequestInv
<1>5. \A i \in 1..Len(todo) :
         /\ Fits(todo[i], now, content)
         /\ todo[i].op = "file" => i = Len(todo) /\ todo[i].row.id \notin Ids(master.df)
  BY DEF InvOf, RequestInv
<1>7. now \in Nat /\ Sound(master, now, content) /\ master.df \subseteq Made(now)
  BY DEF InvOf, TablesInv, NumberInv
<1> HIDE DEF todo, n, batch, rest
<1>8. PICK g : /\ g[0] = master /\ Effects(master, batch) = g[n]
               /\ \A k \in 1..n : g[k] = Effect(g[k - 1], todo[k])
  <2>1. PICK g : /\ g[0] = master /\ Effects(master, batch) = g[Len(batch)]
                 /\ \A k \in 1..Len(batch) : g[k] = Effect(g[k - 1], batch[k])
    <3>1. batch \in Seq(Statement)
      BY <1>2
    <3>2. QED BY ONLY <3>1, FoldSteps
  <2>2. QED BY <1>2, <2>1
<1> DEFINE Good(k) == Sound(g[k], now, content) /\ Ids(g[k].df) \subseteq Ids(master.df) \cup New(k)
<1>9. \A k \in 0..n : Good(k)
  <2> DEFINE Bad == {k \in 0..n : ~ Good(k)}
  <2> SUFFICES ASSUME Bad # {} PROVE FALSE
    OBVIOUS
  <2>1. PICK k \in Bad : \A j \in Bad : k <= j
    <3>1. Bad \in SUBSET Nat
      BY <1>1
    <3> HIDE DEF Bad
    <3>2. QED BY <3>1, NatHasLeast
  <2>2. Good(0)
    BY <1>1, <1>7, <1>8 DEF New
  <2>3. k # 0
    BY <2>2
  <2>4. k \in 1..n /\ k - 1 \in 0..n /\ k \in 1..Len(todo) /\ k - 1 # Len(todo)
    BY <1>1, <2>1, <2>3
  <2>5. Good(k - 1)
    <3>1. k - 1 \notin Bad
      BY <2>1, <2>4
    <3> HIDE DEF Good
    <3>2. QED BY <2>4, <3>1
  <2>6. Sound(g[k - 1], now, content) /\ Ids(g[k - 1].df) \subseteq Ids(master.df)
    BY <2>4, <2>5 DEF New, todo
  <2>7. /\ Sound(g[k], now, content)
        /\ Ids(g[k].df) \subseteq Ids(g[k - 1].df) \cup RowsOf(todo[k])
    <3>1. g[k] = Effect(g[k - 1], todo[k]) /\ Fits(todo[k], now, content)
      BY <1>5, <1>8, <2>4
    <3>2. todo[k].op = "file" => todo[k].row.id \notin Ids(g[k - 1].df)
      BY <1>5, <2>4, <2>6
    <3>3. QED BY <2>6, <3>1, <3>2, EffectIsSound
  <2>8. Good(k)
    BY <1>5, <2>4, <2>6, <2>7 DEF RowsOf, New, todo
  <2>9. QED BY <2>1, <2>8
<1>10. n \in 1..Len(req.todo) /\ \A k \in 1..n : g[k] = Effect(g[k - 1], req.todo[k])
  BY <1>1, <1>8 DEF todo
<1>11. req' = [todo |-> SubSeq(req.todo, n + 1, Len(req.todo)),
               done |-> SubSeq(req.todo, 1, n), auto |-> req.auto]
  BY <1>4 DEF batch, rest, todo
<1>12. QED BY <1>4, <1>8, <1>9, <1>10, <1>11

LEMMA CommitInv == ASSUME NEW content, InvOf(content), Commit PROVE InvOf(content)'
<1> DEFINE todo == req.todo
<1>0. PICK n, g :
         /\ n \in 1..Len(todo)
         /\ req' = [todo |-> SubSeq(todo, n + 1, Len(todo)),
                    done |-> SubSeq(todo, 1, n), auto |-> req.auto]
         /\ master' = g[n]
         /\ Sound(g[n], now, content) /\ Ids(g[n].df) \subseteq Ids(master.df) \cup New(n)
  <2>1. PICK n, g :
           /\ n \in 1..Len(req.todo)
           /\ req' = [todo |-> SubSeq(req.todo, n + 1, Len(req.todo)),
                      done |-> SubSeq(req.todo, 1, n), auto |-> req.auto]
           /\ master' = g[n]
           /\ \A k \in 0..n : /\ Sound(g[k], now, content)
                              /\ Ids(g[k].df) \subseteq Ids(master.df) \cup New(k)
    BY CommitSteps
  <2>2. n \in 0..n
    BY <2>1
  <2>3. QED BY <2>1, <2>2
<1> DEFINE batch == SubSeq(todo, 1, n)
           rest == SubSeq(todo, n + 1, Len(todo))
<1>1. /\ todo \in Seq(Statement) /\ todo # <<>> /\ n \in 1..Len(todo) /\ Len(todo) \in Nat
  BY <1>0 DEF Commit, InvOf, RequestInv
<1>2. /\ batch \in Seq(Statement) /\ Len(batch) = n
      /\ \A k \in 1..n : batch[k] = todo[k]
  <2> HIDE DEF todo
  <2>1. QED BY <1>1
<1>3. /\ rest \in Seq(Statement) /\ Len(rest) = Len(todo) - n
      /\ \A i \in 1..Len(rest) : rest[i] = todo[i + n] /\ i + n \in 1..Len(todo)
  <2> HIDE DEF todo
  <2>1. QED BY <1>1
<1>4. /\ req'.todo = rest /\ req'.done = batch /\ req'.auto = req.auto
      /\ req' = [todo |-> rest, done |-> batch, auto |-> req.auto]
  BY <1>0
<1>5. \A i \in 1..Len(todo) :
         /\ Fits(todo[i], now, content)
         /\ todo[i].op = "file" => i = Len(todo) /\ todo[i].row.id \notin Ids(master.df)
  BY DEF InvOf, RequestInv
<1>6. UNCHANGED <<now, log, slave, pc, at, page, queue, load>>
  BY DEF Commit
<1>7. now \in Nat /\ Sound(master, now, content) /\ master.df \subseteq Made(now)
  BY DEF InvOf, TablesInv, NumberInv
<1> HIDE DEF todo, batch, rest
<1>10. /\ Sound(master', now, content)
       /\ Ids(master'.df) \subseteq Ids(master.df) \cup New(n)
  BY <1>0
<1>11. TablesInv(content)'
  <2>1. master'.df \subseteq Made(now)
    <3> SUFFICES ASSUME NEW r \in master'.df PROVE r \in Made(now)
      OBVIOUS
    <3>1. r \in RowType
      BY <1>10 DEF Sound
    <3>2. r.id \in Ids(master.df) \cup New(n)
      BY <1>10 DEF Ids
    <3>3. CASE r.id \in Ids(master.df)
      BY <1>7, <3>1, <3>3 DEF Ids, Made
    <3>4. CASE r.id \in New(n)
      <4>1. r.id = todo[n].row.id /\ todo[n].op = "file"
        BY <3>4 DEF RowsOf, New, todo
      <4>2. todo[n].row \in Made(now)
        BY <1>1, <1>5, <4>1 DEF Fits
      <4>3. QED BY <3>1, <4>1, <4>2 DEF Made
    <3>5. QED BY <3>2, <3>3, <3>4
  <2>2. Sound(slave, now, content) /\ Held(slave)
    BY DEF InvOf, TablesInv
  <2>3. QED BY <1>6, <1>10, <2>1, <2>2 DEF TablesInv
<1>12. RequestInv(content)'
  <2>1. req' \in [todo : Seq(Statement), done : Seq(Statement), auto : BOOLEAN]
    <3>1. req.auto \in BOOLEAN
      BY DEF InvOf, RequestInv
    <3>2. QED BY <1>2, <1>3, <1>4, <3>1
  <2>2. \A i \in 1..Len(rest) : Fits(rest[i], now, content)
    BY <1>3, <1>5
  <2>3. \A i \in 1..Len(batch) : Fits(batch[i], now, content)
    BY <1>1, <1>2, <1>5
  <2>4. ASSUME NEW i \in 1..Len(rest), rest[i].op = "file"
        PROVE  i = Len(rest) /\ rest[i].row.id \notin Ids(master'.df)
    <3>1. i + n = Len(todo) /\ todo[i + n].row.id \notin Ids(master.df)
      BY <1>3, <1>5, <2>4
    <3>2. n # Len(todo)
      BY <1>1, <1>3, <3>1
    <3>3. New(n) = {}
      BY <3>2 DEF New, todo
    <3>4. i = Len(rest)
      <4>1. n \in Nat /\ Len(todo) \in Nat
        BY ONLY <1>1
      <4>a. Len(rest) = Len(todo) - n
        BY ONLY <1>3
      <4>b. i + n = Len(todo)
        BY ONLY <3>1
      <4>2. i \in Nat
        BY <4>1, <4>a
      <4>3. QED BY ONLY <4>1, <4>2, <4>a, <4>b
    <3>5. QED BY <1>3, <1>10, <3>1, <3>3, <3>4
  <2>5. QED BY <1>4, <1>6, <2>1, <2>2, <2>3, <2>4 DEF RequestInv
<1>13. NumberInv' /\ LogInv(content)' /\ CopyInv(content)'
  <2>1. now' = now /\ now \in Nat /\ now <= MaxId
    BY <1>6 DEF InvOf, NumberInv
  <2>2. QED BY <1>6, <2>1, ClockMoves
<1>14. LoadInv'
  BY <1>6 DEF InvOf, LoadInv
<1>15. QED BY <1>11, <1>12, <1>13, <1>14 DEF InvOf

LEMMA LogNextInv == ASSUME NEW content, InvOf(content), LogNext PROVE InvOf(content)'
<1>1. now' = now + 1 /\ now' \in Nat /\ now <= now' /\ now' <= MaxId
  BY NumberAssumption DEF LogNext, InvOf, NumberInv
<1>2. NumberInv' /\ TablesInv(content)' /\ CopyInv(content)'
  BY <1>1, ClockMoves DEF LogNext
<1>3. \A s : Fits(s, now, content) => Fits(s, now', content)
  BY <1>1, Later DEF InvOf, NumberInv
<1>4. /\ req.done \in Seq(Statement) /\ req.done # <<>>
      /\ \A i \in 1..Len(req.done) : Fits(req.done[i], now, content)
  BY DEF LogNext, InvOf, RequestInv
<1>5. LogInv(content)'
  <2>1. Head(req.done) \in Statement /\ Fits(Head(req.done), now, content)
    BY <1>4
  <2>2. QED BY <1>3, <2>1 DEF LogNext, LogInv, InvOf
<1>6. RequestInv(content)'
  <2>1. CASE req' = NoRequest
    BY <2>1 DEF RequestInv, NoRequest
  <2>2. CASE req' = [req EXCEPT !.done = Tail(@)]
    <3>1. /\ Tail(req.done) \in Seq(Statement)
          /\ \A i \in 1..Len(Tail(req.done)) : Fits(Tail(req.done)[i], now, content)
      BY <1>4
    <3>2. master' = master
      BY DEF LogNext
    <3>3. QED BY <1>3, <2>2, <3>1, <3>2 DEF InvOf, RequestInv
  <2>3. QED BY <2>1, <2>2 DEF LogNext
<1>7. LoadInv'
  BY DEF LogNext, InvOf, LoadInv
<1>8. QED BY <1>2, <1>5, <1>6, <1>7 DEF InvOf

-----------------------------------------------------------------------------
(* The slave.                                                              *)

\* A row that is inserted, or a row of the log that is run.
LEMMA SlaveStep ==
  ASSUME NEW content, InvOf(content), InsertRow \/ RunSql
  PROVE  Sound(slave', now, content) /\ Held(slave') /\ Keeps(slave, slave', content)
<1>1. Sound(slave, now, content) /\ Held(slave) /\ Keeps(slave, slave, content)
  BY KeepsSelf DEF InvOf, TablesInv
<1>2. CASE slave' = slave
  BY <1>1, <1>2
<1>3. CASE InsertRow /\ slave' # slave
  <2>1. PICK r \in page : slave' \in Insert(slave, TableName, r)
    BY <1>3 DEF InsertRow, Oldest
  <2>2. /\ TableName \in {"df", "bin", "st"}
        /\ TableName = "df" => r \in RowType /\ r.id \notin Own
        /\ TableName = "bin" => r \in RowType
        /\ TableName = "st" => r \in Stored(now, content)
    <3>1. TableName \in {"df", "bin", "st"}
      BY TableNames DEF TableName, InvOf, CopyInv
    <3>2. (CASE TableName = "df" -> r \in Made(now)
             [] TableName = "bin" -> r \in RowType
             [] TableName = "st" -> r \in Stored(now, content))
      BY DEF InvOf, CopyInv
    <3> HIDE DEF TableName
    <3>3. QED BY <3>1, <3>2 DEF Made
  <2> HIDE DEF TableName
  <2>3. QED BY <1>1, <2>1, <2>2, InsertKeeps
<1>4. CASE RunSql /\ slave' # slave
  <2>1. PICK l \in queue : slave' \in Replay(slave, l.sql)
    BY <1>4 DEF RunSql, Oldest
  <2>2. Fits(l.sql, now, content)
    BY DEF InvOf, LogInv
  <2>3. QED BY <1>1, <2>1, <2>2, ReplayKeeps
<1>5. QED BY <1>2, <1>3, <1>4

\* What the master is made of does not change in the slave's steps.
LEMMA MastersStay ==
  ASSUME NEW content, InvOf(content), UNCHANGED <<now, master, req>>
  PROVE  /\ NumberInv' /\ RequestInv(content)'
         /\ UNCHANGED slave => TablesInv(content)'
         /\ UNCHANGED <<log, queue>> => LogInv(content)'
         /\ UNCHANGED <<at, page>> => CopyInv(content)'
<1>1. now' = now /\ now \in Nat /\ now <= MaxId
  BY DEF InvOf, NumberInv
<1>2. QED BY <1>1, ClockMoves

LEMMA LoadReset ==
  ASSUME LoadInv, load' = [load EXCEPT !.tries = 0, !.ready = {}], pc' \in {"listen", "error"}
  PROVE  LoadInv'
<1>1. load' = [part |-> load.part, tries |-> 0, ready |-> {}]
  BY DEF LoadInv
<1>2. load.part \in [Md5 -> 0..Blocks] /\ 0 \in 0..MaxRetry
  BY NumberAssumption DEF LoadInv
<1>3. QED BY <1>1, <1>2 DEF LoadInv

LEMMA FailPart == ASSUME Fail, LoadInv PROVE LoadInv' /\ page' = {}
  BY LoadReset DEF Fail

LEMMA CopyGone ==
  ASSUME NEW content, CopyInv(content), at' = at, page' = {} PROVE CopyInv(content)'
  BY DEF CopyInv

LEMMA CopyLess ==
  ASSUME NEW content, CopyInv(content), at' = at, now' = now, page' \subseteq page
  PROVE  CopyInv(content)'
<1>1. TableName' = TableName
  BY DEF TableName
<1>2. QED BY <1>1 DEF CopyInv

LEMMA SyncAllInv == ASSUME NEW content, InvOf(content), SyncAll PROVE InvOf(content)'
<1> USE DEF SyncAll, masters
<1>1. now' = now + 1 /\ now' \in Nat /\ now <= now' /\ now' <= MaxId
  BY NumberAssumption DEF InvOf, NumberInv
<1>2. NumberInv' /\ TablesInv(content)' /\ RequestInv(content)' /\ LogInv(content)'
  BY <1>1, ClockMoves
<1>3. CopyInv(content)'
  BY DEF CopyInv
<1>4. LoadInv'
  BY DEF InvOf, LoadInv
<1>5. QED BY <1>2, <1>3, <1>4 DEF InvOf

LEMMA GetTableDataInv == ASSUME NEW content, InvOf(content), GetTableData PROVE InvOf(content)'
<1> USE DEF GetTableData, masters
<1>1. NumberInv' /\ RequestInv(content)' /\ TablesInv(content)' /\ LogInv(content)'
  BY MastersStay
<1>2. CopyInv(content)'
  <2>1. page' \subseteq master[TableName]
    BY DEF FirstOf, Rest
  <2>2. at' = [table |-> at'.table, last |-> at'.last] /\ at'.table = at.table
    BY DEF InvOf, CopyInv
  <2>3. TableName' = TableName /\ TableName \in {"df", "bin", "st"}
    BY <2>2, TableNames DEF TableName, InvOf, CopyInv
  <2>4. /\ master.df \subseteq Made(now) /\ master.bin \subseteq RowType
        /\ master.st \subseteq Stored(now, content)
    BY DEF InvOf, TablesInv, Sound
  <2>5. \A r \in page' : CASE TableName = "df"  -> r \in Made(now)
                           [] TableName = "bin" -> r \in RowType
                           [] TableName = "st"  -> r \in Stored(now, content)
    <3> HIDE DEF TableName
    <3>1. QED BY <2>1, <2>3, <2>4
  <2>6. at'.table \in 1..3 /\ now' = now
    BY <2>2 DEF InvOf, CopyInv
  <2>7. QED BY <2>2, <2>3, <2>5, <2>6 DEF CopyInv
<1>3. LoadInv'
  BY DEF InvOf, LoadInv
<1>4. QED BY <1>1, <1>2, <1>3 DEF InvOf

LEMMA NextTableInv == ASSUME NEW content, InvOf(content), NextTable PROVE InvOf(content)'
<1> USE DEF NextTable, masters
<1>1. NumberInv' /\ RequestInv(content)' /\ TablesInv(content)' /\ LogInv(content)'
  BY MastersStay
<1>2. CopyInv(content)'
  <2>1. at.table \in 1..3 /\ Len(Tables) = 3
    BY DEF InvOf, CopyInv, Tables
  <2>2. at' = [table |-> at'.table, last |-> at'.last] /\ at'.table \in 1..3 /\ page' = {}
    BY <2>1
  <2>3. QED BY <2>2 DEF CopyInv
<1>3. LoadInv'
  BY DEF InvOf, LoadInv
<1>4. QED BY <1>1, <1>2, <1>3 DEF InvOf

LEMMA InsertRowInv == ASSUME NEW content, InvOf(content), InsertRow PROVE InvOf(content)'
<1> USE DEF masters
<1>1. UNCHANGED <<now, master, log, req, at, queue>>
  BY DEF InsertRow
<1>2. NumberInv' /\ RequestInv(content)' /\ LogInv(content)'
  BY <1>1, MastersStay
<1>3. TablesInv(content)'
  BY <1>1, SlaveStep DEF InvOf, TablesInv
<1>4. page' \subseteq page /\ LoadInv'
  <2>1. CASE Fail
    BY <2>1, FailPart DEF InvOf
  <2>2. CASE ~Fail
    BY <2>2 DEF InsertRow, InvOf, LoadInv
  <2>3. QED BY <2>1, <2>2
<1>5. CopyInv(content)'
  BY <1>1, <1>4, CopyLess DEF InvOf
<1>6. QED BY <1>2, <1>3, <1>4, <1>5 DEF InvOf

LEMMA RunSqlInv == ASSUME NEW content, InvOf(content), RunSql PROVE InvOf(content)'
<1> USE DEF masters
<1>1. UNCHANGED <<now, master, log, req, at>> /\ queue' \subseteq queue
  BY DEF RunSql
<1>2. NumberInv' /\ RequestInv(content)'
  BY <1>1, MastersStay
<1>3. TablesInv(content)'
  BY <1>1, SlaveStep DEF InvOf, TablesInv
<1>4. page' \subseteq page /\ LoadInv'
  <2>1. CASE Fail
    BY <2>1, FailPart DEF InvOf
  <2>2. CASE ~Fail
    BY <2>2 DEF RunSql, InvOf, LoadInv
  <2>3. QED BY <2>1, <2>2
<1>5. CopyInv(content)'
  BY <1>1, <1>4, CopyLess DEF InvOf
<1>6. LogInv(content)'
  BY <1>1 DEF InvOf, LogInv
<1>7. QED BY <1>2, <1>3, <1>4, <1>5, <1>6 DEF InvOf

LEMMA FinishInv == ASSUME NEW content, InvOf(content), Finish PROVE InvOf(content)'
<1> USE DEF Finish, masters
<1>1. NumberInv' /\ RequestInv(content)' /\ TablesInv(content)' /\ CopyInv(content)'
  BY MastersStay
<1>2. LogInv(content)' /\ LoadInv'
  BY DEF InvOf, LogInv, LoadInv
<1>3. QED BY <1>1, <1>2 DEF InvOf

LEMMA RequestLogInv == ASSUME NEW content, InvOf(content), RequestLog PROVE InvOf(content)'
<1> USE DEF RequestLog, masters
<1>1. NumberInv' /\ RequestInv(content)' /\ TablesInv(content)' /\ CopyInv(content)'
  BY MastersStay
<1>2. queue' \subseteq queue \cup log
  BY DEF FirstOf, News
<1>3. LogInv(content)' /\ LoadInv'
  BY <1>2 DEF InvOf, LogInv, LoadInv
<1>4. QED BY <1>1, <1>3 DEF InvOf

\* Downloads, the operator and faults touch neither tables nor logs.
LEMMA OtherInv ==
  ASSUME NEW content, InvOf(content),
         Receive \/ Received \/ ReadError \/ ListenAll \/ NoAnswer \/ Crash
  PROVE  InvOf(content)'
<1> USE DEF masters
<1>1. UNCHANGED <<now, master, log, req, slave, at, queue>>
  BY DEF Receive, Received, ReadError, ListenAll, NoAnswer, Crash
<1>2. NumberInv' /\ RequestInv(content)' /\ TablesInv(content)' /\ LogInv(content)'
  BY <1>1, MastersStay
<1>3. page' \subseteq page /\ LoadInv'
  <2> USE NumberAssumption DEF InvOf, LoadInv
  <2>1. Wanted \subseteq Md5
    <3> SUFFICES ASSUME NEW r \in StorageTurn PROVE r.md5 \in Md5
      BY DEF Wanted
    <3>1. CASE pc = "copy" /\ TableName = "st"
      <4>1. r \in page
        BY <3>1 DEF StorageTurn, Oldest
      <4>2. r \in Stored(now, content)
        BY <3>1, <4>1 DEF CopyInv
      <4>3. QED BY <4>2 DEF Stored, StType
    <3>2. CASE pc = "listen"
      <4>1. PICK l \in queue : r = l.sql.row /\ l.sql.op = "storage"
        BY <3>2 DEF StorageTurn, Oldest
      <4>2. QED BY <4>1 DEF LogInv, Fits, Stored, StType
    <3>3. QED BY <3>1, <3>2 DEF StorageTurn
  <2>2. CASE Receive
    <3>1. PICK x \in Wanted : load.part[x] < Blocks /\ load' = [load EXCEPT !.part[x] = @ + 1]
      BY <2>2 DEF Receive
    <3>2. x \in Md5 /\ load.part[x] \in 0..Blocks /\ load.part[x] + 1 \in 0..Blocks
      BY <2>1, <3>1
    <3>3. pc' = pc /\ page' = page
      BY <2>2 DEF Receive
    <3>4. QED BY <3>1, <3>2, <3>3
  <2>3. CASE Received
    <3>1. PICK x \in Wanted :
             load' = [part |-> [load.part EXCEPT ![x] = 0], tries |-> 0, ready |-> {x}]
      BY <2>3 DEF Received
    <3>2. x \in Md5
      BY <2>1
    <3>3. pc' = pc /\ page' = page
      BY <2>3 DEF Received
    <3>4. QED BY <3>1, <3>2, <3>3
  <2>4. CASE ReadError
    <3>1. CASE Fail
      BY <3>1, FailPart
    <3>2. CASE load.tries < MaxRetry
      BY <2>4, <3>2 DEF ReadError
    <3>3. QED BY <2>4, <3>1, <3>2 DEF ReadError
  <2>5. CASE ListenAll
    BY <2>5 DEF ListenAll
  <2>6. CASE NoAnswer
    BY <2>6, FailPart DEF NoAnswer
  <2>7. CASE Crash
    BY <2>7, LoadReset DEF Crash
  <2>8. QED BY <2>2, <2>3, <2>4, <2>5, <2>6, <2>7
<1>4. CopyInv(content)'
  BY <1>1, <1>3, CopyLess DEF InvOf
<1>5. QED BY <1>2, <1>3, <1>4 DEF InvOf

-----------------------------------------------------------------------------
(* The theorems.                                                           *)

LEMMA NextInv == Inv /\ [Next]_vars => Inv'
<1> SUFFICES ASSUME Inv, [Next]_vars PROVE Inv'
  OBVIOUS
<1>1. PICK content : InvOf(content)
  BY DEF Inv
<1>2. CASE \E p \in Folders, n \in FolderName : AddFolder(p, n)
  BY <1>1, <1>2, AddFolderInv DEF Inv
<1>3. CASE \E p \in Folders, n \in FileName, x \in Md5 : AddFile(p, n, x)
  BY <1>1, <1>3, AddFileInv
<1>4. CASE \E r \in master.df : SetDelete(r) \/ Purge(r)
  BY <1>1, <1>4, SetDeleteInv, PurgeInv DEF Inv
<1>5. CASE \E r \in master.df, n \in NewName : r.st # 0 /\ Rename(r, n)
  BY <1>1, <1>5, RenameInv DEF Inv
<1>6. CASE Commit \/ LogNext
  BY <1>1, <1>6, CommitInv, LogNextInv DEF Inv
<1>7. CASE SyncAll \/ GetTableData \/ NextTable \/ InsertRow \/ Finish
  BY <1>1, <1>7, SyncAllInv, GetTableDataInv, NextTableInv, InsertRowInv, FinishInv DEF Inv
<1>8. CASE RequestLog \/ RunSql
  BY <1>1, <1>8, RequestLogInv, RunSqlInv DEF Inv
<1>9. CASE Receive \/ Received \/ ReadError \/ ListenAll \/ NoAnswer \/ Crash
  BY <1>1, <1>9, OtherInv DEF Inv
<1>10. CASE UNCHANGED vars
  <2>1. UNCHANGED <<now, master, req, slave, log, queue, at, page, pc, load>>
    BY <1>10 DEF vars, masters
  <2>2. NumberInv' /\ RequestInv(content)' /\ TablesInv(content)' /\ LogInv(content)'
        /\ CopyInv(content)'
    BY <1>1, <2>1, MastersStay
  <2>3. LoadInv'
    BY <1>1, <2>1 DEF InvOf, LoadInv
  <2>4. QED BY <2>2, <2>3 DEF Inv, InvOf
<1>11. QED BY <1>2, <1>3, <1>4, <1>5, <1>6, <1>7, <1>8, <1>9, <1>10 DEF Next

LEMMA InvHolds == Spec => []Inv
  BY InitInv, NextInv, PTL DEF Spec

LEMMA IdsCount ==
  ASSUME NEW n, NEW content, NEW T, Sound(T, n, content)
  PROVE  Cardinality(Ids(T.df)) = Cardinality(T.df)
<1> DEFINE f == [r \in T.df |-> r.id]
<1>1. IsFiniteSet(1..MaxId)
  <2>1. 1 \in Int /\ MaxId \in Int
    BY NumberAssumption
  <2>2. QED BY <2>1, FS_Interval
<1>2. Ids(T.df) \subseteq 1..MaxId
  BY DEF Ids, Sound, RowType
<1>3. IsFiniteSet(Ids(T.df))
  BY <1>1, <1>2, FS_Subset
<1>4. f \in Bijection(T.df, Ids(T.df))
  BY DEF Ids, Sound, Bijection, Injection, Surjection, IsInjective
<1>5. f \in Injection(T.df, Ids(T.df))
  BY <1>4 DEF Bijection
<1>6. IsFiniteSet(T.df)
  BY <1>3, <1>5, FS_Injection
<1>7. ExistsBijection(T.df, Ids(T.df))
  BY <1>4 DEF ExistsBijection
<1>8. QED BY <1>6, <1>7, FS_Bijection

\* Rows, requests and downloads are what they should be, and no two rows of
\* dfs_file have one id, on either server (the primary key of dfs_file).
THEOREM TypesHold == Spec => []TypeOK
<1>1. Inv => TypeOK
  <2> SUFFICES ASSUME NEW content, InvOf(content) PROVE TypeOK
    BY DEF Inv
  <2>1. \A T \in {master, slave} :
           /\ T.df \subseteq RowType /\ T.bin \subseteq RowType
           /\ T.st \subseteq [id : 1..MaxId, md5 : Md5]
    BY DEF InvOf, TablesInv, Sound, Stored, StType
  <2>2. \A T \in {master, slave} : Cardinality(Ids(T.df)) = Cardinality(T.df)
    BY IdsCount DEF InvOf, TablesInv
  <2>3. QED BY <2>1, <2>2 DEF InvOf, LoadInv, TypeOK
<1>2. QED BY <1>1, InvHolds, PTL

LEMMA Md5OfHeld ==
  ASSUME NEW n, NEW content, NEW T, Sound(T, n, content),
         NEW t, t.st \in Ids(T.st)
  PROVE  Md5Of(T, t) = {content[t.st]}
<1>1. \A q \in T.st : q.md5 = content[q.id]
  BY DEF Sound, Stored
<1>2. PICK q \in T.st : q.id = t.st
  BY DEF Ids
<1>3. QED BY <1>1, <1>2 DEF Md5Of

\* No step of a synchronisation takes a file of the slave's own away or gives
\* it other contents: not the merge of its folder into one of the master, not
\* a row that takes the place of another, not a stored file that comes under
\* the id of the master, not a deletion that the log repeats.
THEOREM OwnFilesKeptHolds == Spec => OwnFilesKept
<1>1. ASSUME Inv, Inv', [Next]_vars
      PROVE  [\A s \in slave.df : (s.id \in Own /\ s.st # 0) =>
                \E t \in slave'.df : /\ t.id = s.id
                                     /\ Md5Of(slave', t) = Md5Of(slave, s)]_vars
  <2> SUFFICES ASSUME NEW s \in slave.df, s.id \in Own, s.st # 0
               PROVE  \E t \in slave'.df : t.id = s.id /\ Md5Of(slave', t) = Md5Of(slave, s)
    OBVIOUS
  <2>1. CASE slave' = slave
    BY <2>1 DEF Md5Of
  <2>2. CASE slave' # slave
    <3>1. InsertRow \/ RunSql
      BY <1>1, <2>2 DEF Next, vars, AddFolder, AddFile, SetDelete, Purge, Rename, Begin,
            Commit, LogNext, SyncAll, GetTableData, NextTable, Finish, Receive, Received,
            ReadError, RequestLog, ListenAll, NoAnswer, Crash
    <3>2. PICK content : InvOf(content)
      BY <1>1 DEF Inv
    <3>3. Sound(slave', now, content) /\ Held(slave') /\ Keeps(slave, slave', content)
      BY <3>1, <3>2, SlaveStep
    <3>4. Sound(slave, now, content) /\ Held(slave)
      BY <3>2 DEF InvOf, TablesInv
    <3>5. PICK t \in slave'.df : t.id = s.id /\ t.st # 0 /\ content[t.st] = content[s.st]
      BY <3>3 DEF Keeps
    <3>6. Md5Of(slave', t) = {content[t.st]}
      BY <3>3, <3>5, Md5OfHeld DEF Held
    <3>7. Md5Of(slave, s) = {content[s.st]}
      BY <3>4, Md5OfHeld DEF Held
    <3>8. QED BY <3>5, <3>6, <3>7
  <2>3. QED BY <2>1, <2>2
<1>2. QED BY <1>1, InvHolds, PTL DEF Spec, OwnFilesKept

-----------------------------------------------------------------------------
(* Folders.                                                                *)

Known     == Ids(FoldersOf(master))
Placed(p) == p = 0 \/ p \in Known

Todo == ToSet(req.todo)
Done == ToSet(req.done)

Makes(s, e)    == s.op = "file" /\ s.row.st = 0 /\ s.row.id = e.id
MakesFolder(s) == s.op = "file" /\ s.row.st = 0
Trashes(s, e)  == s.op = "trash" /\ s.on = e.id
OnOps          == {"history", "trash", "bin", "delete", "rename"}
Mentions(s, i) == \/ s.op = "file" /\ s.row.id = i
                  \/ s.op \in OnOps /\ s.on = i

\* A statement of the master.
Fitting(s) ==
    /\ s.op = "file" => /\ Placed(s.row.parent) /\ s.row.parent < s.row.id
                        /\ s.row.st = 0 <=> s.row.name \in FolderName
    /\ s.op \in OnOps => s.on \in Nat /\ s.on <= now
    /\ s.op \in {"history", "delete", "rename"} => s.on \notin Known
    /\ s.op = "rename" => s.name \notin FolderName

\* Nobody has seen a row with this id.
Unseen(i) ==
    /\ \A x \in slave.df : x.id # i
    /\ TableName = "df" => \A x \in page : x.id # i
    /\ \A l \in log : l.id < i /\ ~Mentions(l.sql, i)

TodoTree == \A s \in Todo :
    /\ Fitting(s)
    /\ MakesFolder(s) =>
          /\ Len(req.todo) = 1 /\ req.done = <<>>
          /\ ~s.row.trash /\ ~s.row.hist
          /\ Unseen(s.row.id)
          /\ \A e \in FoldersOf(master) : /\ e.id < s.row.id
                                          /\ Beside(e, s.row) => e.trash
    /\ s.op = "trash" =>
          /\ Len(req.todo) = 1 /\ req.done = <<>>
          /\ \A e, r \in FoldersOf(master) : e.id = s.on /\ Beside(e, r) => r.id <= e.id

DoneTree == \A s \in Done :
    /\ Fitting(s)
    /\ MakesFolder(s) =>
          /\ Len(req.done) = 1 /\ req.todo = <<>>
          /\ s.row \in master.df /\ ~s.row.trash
          /\ \A e \in FoldersOf(master) : e.id <= s.row.id
          /\ \A l \in log : ~Mentions(l.sql, s.row.id)
    /\ (s.op = "file" /\ s.row.st # 0) => s.row.id \notin Known
    /\ s.op = "trash" =>
          /\ Len(req.done) = 1 /\ req.todo = <<>>
          /\ \A e \in FoldersOf(master) : e.id = s.on =>
                e.trash /\ \A r \in FoldersOf(master) : Beside(e, r) => r.id <= e.id

\* A row of the log: a folder is deleted before the next of its name is made.
Logged(l) ==
    /\ l.id \in Nat /\ l.id <= now /\ Fitting(l.sql)
    /\ MakesFolder(l.sql) =>
          /\ l.sql.row.id < l.id
          /\ \E r \in FoldersOf(master) : r.id = l.sql.row.id /\ Beside(r, l.sql.row)
    /\ (l.sql.op = "file" /\ l.sql.row.st # 0) => l.sql.row.id \notin Known
    /\ \A e \in FoldersOf(master) : Trashes(l.sql, e) =>
          e.trash /\ \A r \in FoldersOf(master) : Beside(e, r) /\ e.id < r.id => l.id < r.id

\* A folder is made before it is deleted, and after the older ones.
Ordered(l, k) == \A e, r \in FoldersOf(master) :
    /\ Makes(l.sql, e) /\ Trashes(k.sql, e) => l.id < k.id
    /\ Makes(l.sql, e) /\ Makes(k.sql, r) /\ l.id < k.id => e.id < r.id

LogTree ==
    /\ queue \subseteq log
    /\ \A l \in log : Logged(l)
    /\ \A l, k \in log : (l.id = k.id => l = k) /\ Ordered(l, k)

\* A table of the slave.
Hangs(T, s) == Placed(s.parent) \/ \E f \in FoldersOf(T) : f.id = s.parent
SlaveFits(T) == \A s \in T.df :
    /\ s.id \in Nat /\ s.id <= now /\ Hangs(T, s)
    /\ s.st = 0 => s.id \in Own \cup Known
    /\ s.id \in Known => s.parent # s.id

\* A row of dfs_file that comes from the master.
FromMaster(r) ==
    /\ r.id \in Nat /\ r.id <= now /\ r.id \notin Own /\ Placed(r.parent)
    /\ r.st = 0 => \E e \in FoldersOf(master) : e.id = r.id /\ Beside(e, r)
    /\ r.st # 0 => r.id \notin Known

PageTree == TableName = "df" => \A p \in page : FromMaster(p)

\* The copy has passed the folder with the id i.
Inserted(i) == IF at.table = 1 THEN i <= at.last /\ i \notin Ids(page) ELSE i < aop

Image(s, e) == s.st = 0 /\ Beside(s, e)

\* A folder and its image in the table T, when the copy has passed it.
Copied(T, e) ==
    /\ e.id \in Ids(T.df)
    /\ \A s \in T.df : s.id = e.id => Image(s, e)

Trashed(T, e) == \A s \in T.df : s.id = e.id => s.trash

\* The deletion of a folder is known to the copy or comes by the log.
Reflected(e) ==
    \/ \E s \in Done : Trashes(s, e)
    \/ \E l \in log : l.id > aop /\ Trashes(l.sql, e)
    \/ /\ e.id < aop
       /\ at.table = 1 => \A p \in page : p.id = e.id => p.trash
       /\ Inserted(e.id) => Trashed(slave, e)

Announced(e) ==
    \/ \E s \in Done : Makes(s, e)
    \/ \E l \in log : l.id > aop /\ Makes(l.sql, e)

SectionTree ==
    /\ aop \in Nat /\ aop <= now /\ ~whole
    /\ \A s \in slave.df : s.id < aop
    /\ \A s \in Todo \cup Done : MakesFolder(s) => s.row.id > aop
    /\ \A l \in queue : l.id < aop
    /\ \A l \in log : /\ l.id # aop
                      /\ l.id > aop => \A e \in FoldersOf(master) : Makes(l.sql, e) => e.id > aop

PassedTree ==
    at.table = 1 =>
       /\ at.last \in Nat /\ at.last < aop
       /\ \A p \in page : p.id <= at.last /\ \A i \in Known : Inserted(i) => i < p.id

CopyTree ==
    /\ SectionTree /\ PassedTree
    /\ \A e \in FoldersOf(master) :
          /\ e.id # aop
          /\ e.id > aop => Announced(e)
          /\ Inserted(e.id) => Copied(slave, e)
          /\ e.trash => Reflected(e)

Pending == {l.sql : l \in queue \cup News} \cup Done

\* A folder after the copy.
Followed(e) ==
    /\ e.id \in Ids(slave.df) \/ \E s \in Pending : Makes(s, e)
    /\ \A s \in slave.df : s.id = e.id => Image(s, e)
    /\ e.trash => \/ \E s \in Pending : Trashes(s, e)
                  \/ Trashed(slave, e) /\ \A s \in Pending : ~Makes(s, e)
    /\ (\E s \in Pending : Makes(s, e)) =>
          \A x \in FoldersOf(slave) : x.id \in Own \/ x.id < e.id

WholeTree ==
    /\ lastId \in Nat /\ lastId <= now /\ \A l \in queue : l.id <= lastId
    /\ \A e \in FoldersOf(master) : Followed(e)

Family ==
    /\ Tree(master) /\ TodoTree /\ DoneTree /\ LogTree
    /\ SlaveFits(slave) /\ PageTree
    /\ pc = "copy" => CopyTree
    /\ whole => WholeTree

-----------------------------------------------------------------------------
(* Rows, and sequences as sets.                                            *)

LEMMA RowsAre == ASSUME NEW content, InvOf(content)
  PROVE  /\ now \in Nat /\ now <= MaxId
         /\ \A i \in Own : i \in Nat /\ i <= now
         /\ \A r \in master.df : r \in RowType /\ r.id \in 1..now /\ r.id \notin Own
         /\ \A r, s \in master.df : r.id = s.id => r = s
         /\ \A r \in slave.df : r \in RowType
         /\ \A r, s \in slave.df : r.id = s.id => r = s
         /\ \A r \in page : TableName = "df" => r \in Made(now)
         /\ \A r \in RowType : r.id \in Nat /\ r.id # 0 /\ r.parent \in Nat /\ r.st \in Nat
         /\ \A i \in Known : i \in 1..now /\ i \notin Own
<1>1. now \in Nat /\ now <= MaxId /\ \A i \in Own : i \in Nat /\ i <= now
  BY NumberAssumption DEF InvOf, NumberInv
<1>2. \A r \in RowType : r.id \in 1..MaxId /\ r.parent \in 0..MaxId /\ r.st \in 0..MaxId
  BY DEF RowType
<1>3. \A r \in RowType : r.id \in Nat /\ r.id # 0 /\ r.parent \in Nat /\ r.st \in Nat
  BY <1>2, NumberAssumption
<1>4. /\ \A r \in master.df : r \in RowType /\ r.id <= now /\ r.id \notin Own
      /\ \A r, s \in master.df : r.id = s.id => r = s
  BY DEF InvOf, TablesInv, Sound, Made
<1>5. \A r \in master.df : r.id \in 1..now
  BY <1>1, <1>2, <1>4, NumberAssumption
<1>6. (\A r \in slave.df : r \in RowType) /\ \A r, s \in slave.df : r.id = s.id => r = s
  BY DEF InvOf, TablesInv, Sound
<1>7. ASSUME NEW r \in page, TableName = "df" PROVE r \in Made(now)
  BY <1>7 DEF InvOf, CopyInv
<1>8. \A i \in Known : i \in 1..now /\ i \notin Own
  BY <1>4, <1>5 DEF Known, FoldersOf, Ids
<1>9. QED BY <1>1, <1>3, <1>4, <1>5, <1>6, <1>7, <1>8

LEMMA AsSet ==
  /\ \A X, q : q = <<>> => ToSet(q) = {}
  /\ \A x : ToSet(<<x>>) = {x} /\ Len(<<x>>) = 1
  /\ \A x, y : ToSet(<<x, y>>) = {x, y}
<1>1. \A q : q = <<>> => ToSet(q) = {}
  BY DEF ToSet
<1>2. ASSUME NEW x PROVE ToSet(<<x>>) = {x} /\ Len(<<x>>) = 1
  <2>1. DOMAIN <<x>> = {1} /\ <<x>>[1] = x
    OBVIOUS
  <2>2. ToSet(<<x>>) = {<<x>>[i] : i \in {1}}
    BY <2>1 DEF ToSet
  <2>3. QED BY <2>1, <2>2
<1>3. ASSUME NEW x, NEW y PROVE ToSet(<<x, y>>) = {x, y}
  <2>1. DOMAIN <<x, y>> = {1, 2} /\ <<x, y>>[1] = x /\ <<x, y>>[2] = y
    OBVIOUS
  <2>2. ToSet(<<x, y>>) = {<<x, y>>[i] : i \in {1, 2}}
    BY <2>1 DEF ToSet
  <2>3. QED BY <2>1, <2>2
<1>4. QED BY <1>1, <1>2, <1>3

LEMMA PartSets == ASSUME NEW X, NEW q \in Seq(X)
  PROVE  /\ \A n \in 0..Len(q) : /\ ToSet(SubSeq(q, 1, n)) \subseteq ToSet(q)
                                 /\ ToSet(SubSeq(q, n + 1, Len(q))) \subseteq ToSet(q)
         /\ q # <<>> => /\ Head(q) \in ToSet(q) /\ ToSet(Tail(q)) \subseteq ToSet(q)
                        /\ Len(q) = 1 => Tail(q) = <<>>
         /\ \A x \in ToSet(q) : \E i \in 1..Len(q) : x = q[i]
<1>1. DOMAIN q = 1..Len(q) /\ Len(q) \in Nat
  OBVIOUS
<1>2. ASSUME NEW n \in 0..Len(q)
      PROVE  /\ ToSet(SubSeq(q, 1, n)) \subseteq ToSet(q)
             /\ ToSet(SubSeq(q, n + 1, Len(q))) \subseteq ToSet(q)
  <2>1. /\ DOMAIN SubSeq(q, 1, n) = 1..n
        /\ \A i \in 1..n : SubSeq(q, 1, n)[i] = q[i] /\ i \in DOMAIN q
    BY <1>1
  <2>2. /\ DOMAIN SubSeq(q, n + 1, Len(q)) = 1..(Len(q) - n)
        /\ \A i \in 1..(Len(q) - n) :
              SubSeq(q, n + 1, Len(q))[i] = q[i + n] /\ i + n \in DOMAIN q
    BY <1>1
  <2>3. QED BY <2>1, <2>2 DEF ToSet
<1>3. ASSUME q # <<>>
      PROVE  /\ Head(q) \in ToSet(q) /\ ToSet(Tail(q)) \subseteq ToSet(q)
             /\ Len(q) = 1 => Tail(q) = <<>>
  <2>1. 1 \in DOMAIN q /\ Head(q) = q[1]
    BY <1>1, <1>3
  <2>2. /\ DOMAIN Tail(q) = 1..(Len(q) - 1)
        /\ \A i \in 1..(Len(q) - 1) : Tail(q)[i] = q[i + 1] /\ i + 1 \in DOMAIN q
    BY <1>1, <1>3
  <2>3. Len(q) = 1 => Tail(q) = <<>>
    <3>1. Tail(q) \in Seq(X) /\ Len(Tail(q)) = Len(q) - 1
      BY <1>3
    <3>2. \A p \in Seq(X) : Len(p) = 0 => p = <<>>
      OBVIOUS
    <3>3. Len(q) = 1 => Len(Tail(q)) = 0
      BY <1>1, <3>1
    <3>4. QED BY <3>1, <3>2, <3>3
  <2>4. QED BY <2>1, <2>2, <2>3 DEF ToSet
<1>4. \A x \in ToSet(q) : \E i \in 1..Len(q) : x = q[i]
  BY <1>1 DEF ToSet
<1>5. QED BY <1>2, <1>3, <1>4

-----------------------------------------------------------------------------
(* The requests of the master.                                             *)

LEMMA BeginTree ==
  ASSUME NEW content, InvOf(content), Family,
         NEW statements, NEW auto, NEW ids \in Nat,
         Begin(statements, auto, ids), TodoTree',
         pc = "copy" => \A s \in Todo' : MakesFolder(s) => s.row.id > aop
  PROVE  Family'
<1> USE DEF Begin
<1>1. now' = now + ids /\ now \in Nat /\ now' \in Nat /\ now <= now'
  BY RowsAre
<1>2. /\ UNCHANGED <<master, log, slave, pc, aop, at, page, whole, lastId, queue>>
      /\ Done' = {} /\ Done = {}
  BY AsSet DEF Done, NoRequest
<1>3. Known' = Known /\ \A p : Placed(p)' = Placed(p)
  BY <1>2 DEF Known, Placed
<1>4. ASSUME NEW s, Fitting(s) PROVE Fitting(s)'
  BY <1>1, <1>3, <1>4 DEF Fitting
<1>5. Tree(master)' /\ DoneTree'
  BY <1>2 DEF Family, Tree, DoneTree
<1>6. LogTree'
  <2>1. ASSUME NEW l, Logged(l) PROVE Logged(l)'
    BY <1>1, <1>2, <1>3, <1>4, <2>1 DEF Logged
  <2>2. ASSUME NEW l, NEW k, Ordered(l, k) PROVE Ordered(l, k)'
    BY <1>2, <2>2 DEF Ordered
  <2>3. QED BY <1>2, <2>1, <2>2 DEF Family, LogTree
<1>7. SlaveFits(slave)' /\ PageTree'
  <2>1. SlaveFits(slave)'
    BY <1>1, <1>2, <1>3 DEF Family, SlaveFits, Hangs
  <2>2. ASSUME NEW r, FromMaster(r) PROVE FromMaster(r)'
    BY <1>1, <1>2, <1>3, <2>2 DEF FromMaster
  <2>3. page' = page /\ TableName' = TableName /\ PageTree
    BY <1>2 DEF Family, TableName
  <2>4. ASSUME TableName = "df" PROVE \A p \in page : FromMaster(p)'
    BY <2>2, <2>3, <2>4 DEF PageTree
  <2>5. PageTree'
    BY <2>3, <2>4 DEF PageTree
  <2>6. QED BY <2>1, <2>5
<1>8. (pc = "copy" => CopyTree)'
  <2> SUFFICES ASSUME pc = "copy" PROVE CopyTree'
    BY <1>2
  <2>1. CopyTree
    BY DEF Family
  <2>2. SectionTree'
    <3>1. SectionTree /\ aop <= now'
      BY <1>1, <2>1 DEF CopyTree, SectionTree
    <3>2. QED BY <1>2, <3>1 DEF SectionTree
  <2>3. PassedTree'
    BY <1>2, <1>3, <2>1 DEF CopyTree, PassedTree, Inserted
  <2>4. \A e : /\ Announced(e)' <=> Announced(e)
               /\ Inserted(e.id)' <=> Inserted(e.id)
               /\ Copied(slave, e)' <=> Copied(slave, e)
               /\ Reflected(e)' <=> Reflected(e)
    BY <1>2 DEF Announced, Inserted, Copied, Reflected, Trashed
  <2>5. QED BY <1>2, <2>1, <2>2, <2>3, <2>4 DEF CopyTree
<1>9. (whole => WholeTree)'
  <2>1. Pending' = Pending
    BY <1>2 DEF Pending, News
  <2>2. \A e : Followed(e)' <=> Followed(e)
    BY <1>2, <2>1 DEF Followed, Trashed
  <2>3. QED BY <1>1, <1>2, <2>2 DEF Family, WholeTree
<1>10. QED BY <1>5, <1>6, <1>7, <1>8, <1>9 DEF Family
LEMMA NextIsUnseen == ASSUME NEW content, InvOf(content), Family PROVE Unseen(now + 1)
<1>1. now \in Nat /\ \A i \in Nat : i <= now => i # now + 1
  BY RowsAre
<1>2. \A x \in slave.df : x.id # now + 1
  BY <1>1 DEF Family, SlaveFits
<1>3. TableName = "df" => \A x \in page : x.id # now + 1
  BY <1>1 DEF Family, PageTree, FromMaster
<1>4. ASSUME NEW l \in log PROVE l.id < now + 1 /\ ~Mentions(l.sql, now + 1)
  <2>1. l.id \in Nat /\ l.id <= now /\ Fitting(l.sql) /\ Fits(l.sql, now, content)
    BY DEF Family, LogTree, Logged, InvOf, LogInv
  <2>2. l.sql.op = "file" => l.sql.row.id \in Nat /\ l.sql.row.id <= now
    BY <2>1, RowsAre DEF Fits, Made
  <2>3. QED BY <1>1, <2>1, <2>2 DEF Fitting, Mentions
<1>5. QED BY <1>2, <1>3, <1>4 DEF Unseen

\* What a request that has begun leaves alone.
LEMMA AfterBegin ==
  ASSUME NEW content, InvOf(content), NEW statements, NEW auto, NEW ids \in Nat,
         Begin(statements, auto, ids)
  PROVE  /\ UNCHANGED <<master, log, slave, pc, aop, at, page, whole, lastId, queue>>
         /\ Todo' = ToSet(statements) /\ req'.todo = statements /\ req'.done = <<>>
         /\ now' = now + ids /\ now \in Nat /\ now' \in Nat /\ now <= now'
         /\ Known' = Known /\ (\A p : Placed(p)' <=> Placed(p))
         /\ \A i : Unseen(i)' <=> Unseen(i)
<1> USE DEF Begin
<1>1. UNCHANGED <<master, log, slave, pc, aop, at, page, whole, lastId, queue>>
  OBVIOUS
<1>2. Known' = Known /\ (\A p : Placed(p)' <=> Placed(p)) /\ TableName' = TableName
  BY <1>1 DEF Known, Placed, TableName
<1>3. \A i : Unseen(i)' <=> Unseen(i)
  BY <1>1, <1>2 DEF Unseen
<1>4. QED BY <1>1, <1>2, <1>3, RowsAre DEF Todo

LEMMA FoldersAre == ASSUME NEW p \in Folders PROVE Placed(p)
  BY DEF Folders, Placed, Known, FoldersOf, Ids

\* Of the folders of one name one at most is not deleted.
LEMMA NoneCurrent ==
  ASSUME Tree(master), NEW e \in FoldersOf(master), Current(master, e.parent, e.name) = {}
  PROVE  e.trash
<1>1. e \in master.df /\ ~e.hist
  BY DEF Tree, FoldersOf
<1>2. QED BY <1>1 DEF Current

LEMMA AddFolderTree ==
  ASSUME NEW content, InvOf(content), Family,
         NEW p \in Folders, NEW n \in FolderName, AddFolder(p, n)
  PROVE  Family'
<1>0. PICK s : s = [op |-> "file", row |-> Row(now + 1, p, n, 0)]
  OBVIOUS
<1>r. PICK row : row = Row(now + 1, p, n, 0)
  OBVIOUS
<1>1. Begin(<<s>>, FALSE, 1) /\ Current(master, p, n) = {}
  BY <1>0 DEF AddFolder
<1>2. /\ Todo' = {s} /\ Len(req'.todo) = 1 /\ req'.done = <<>>
      /\ UNCHANGED <<master, log, slave, pc, aop, at, page, whole, lastId, queue>>
      /\ now' = now + 1 /\ now \in Nat
      /\ (\A q : Placed(q)' <=> Placed(q)) /\ (\A i : Unseen(i)' <=> Unseen(i))
  BY <1>1, AfterBegin, AsSet
<1>3. /\ s.op = "file" /\ s.row = row
      /\ row.id = now + 1 /\ row.parent = p /\ row.name = n /\ row.st = 0
      /\ ~row.hist /\ ~row.trash
  BY <1>0, <1>r DEF Row
<1>4. p \in Nat /\ p <= now /\ Placed(p)
  <2>1. Placed(p)
    BY FoldersAre
  <2>2. QED BY <1>2, <2>1, RowsAre DEF Placed
<1>5. Fitting(s)'
  BY <1>2, <1>3, <1>4 DEF Fitting, OnOps
<1>6. Unseen(row.id)'
  <2>1. Unseen(row.id)
    BY <1>3, NextIsUnseen
  <2>2. QED BY <1>2, <2>1
<1>7. ASSUME NEW e \in FoldersOf(master) PROVE e.id < row.id /\ (Beside(e, row) => e.trash)
  <2>1. e.id \in 1..now
    BY RowsAre DEF FoldersOf
  <2>2. Beside(e, row) => e.trash
    BY <1>1, <1>3, NoneCurrent DEF Beside, Family
  <2>3. QED BY <1>2, <1>3, <2>1, <2>2
<1>8. TodoTree'
  BY <1>2, <1>3, <1>5, <1>6, <1>7 DEF TodoTree
<1>9. pc = "copy" => \A x \in Todo' : MakesFolder(x) => x.row.id > aop
  <2>1. pc = "copy" => aop \in Nat /\ aop <= now
    BY DEF Family, CopyTree, SectionTree
  <2>2. QED BY <1>2, <1>3, <2>1
<1>10. QED BY <1>1, <1>8, <1>9, BeginTree

\* Requests that make no folder.
LEMMA OtherTodo ==
  ASSUME NEW content, InvOf(content), Family,
         NEW statements, NEW auto, NEW ids \in Nat, Begin(statements, auto, ids),
         \A s \in ToSet(statements) :
            /\ Fitting(s)' /\ ~MakesFolder(s)
            /\ s.op = "trash" =>
                  /\ Len(statements) = 1
                  /\ \A e, r \in FoldersOf(master) : e.id = s.on /\ Beside(e, r) => r.id <= e.id
  PROVE  Family'
<1>1. TodoTree' /\ \A s \in Todo' : ~MakesFolder(s)
  BY AfterBegin DEF TodoTree
<1>2. QED BY <1>1, BeginTree

\* A statement about a row of the master that is no folder.
LEMMA OnFileFits ==
  ASSUME NEW content, InvOf(content), NEW r \in master.df, r.st # 0, NEW s, s.on = r.id,
         s.op \in OnOps, Known' = Known, now' \in Nat, now <= now',
         s.op = "rename" => s.name \notin FolderName
  PROVE  Fitting(s)'
<1>1. r.id \in Nat /\ r.id <= now /\ now \in Nat
  BY RowsAre
<1>2. r.id \notin Known
  <2>1. \A x, y \in master.df : x.id = y.id => x = y
    BY RowsAre
  <2>2. QED BY <2>1 DEF Known, FoldersOf, Ids
<1>3. s.op # "file"
  BY DEF OnOps
<1>4. QED BY <1>1, <1>2, <1>3 DEF Fitting

LEMMA RenameTree ==
  ASSUME NEW content, InvOf(content), Family,
         NEW r \in master.df, NEW n \in NewName, r.st # 0, Rename(r, n)
  PROVE  Family'
<1>0. PICK s : s = [op |-> "rename", on |-> r.id, name |-> n]
  OBVIOUS
<1>1. Begin(<<s>>, FALSE, 0) /\ s.op = "rename" /\ s.on = r.id /\ s.name \notin FolderName
  BY <1>0, NameAssumption DEF Rename
<1>2. now' \in Nat /\ now <= now' /\ Known' = Known
  BY <1>1, AfterBegin
<1>3. Fitting(s)'
  <2>1. s.op \in OnOps
    BY <1>1 DEF OnOps
  <2>2. QED BY <1>1, <1>2, <2>1, OnFileFits
<1>4. ~MakesFolder(s) /\ s.op # "trash"
  BY <1>1 DEF MakesFolder
<1>5. ToSet(<<s>>) = {s}
  BY AsSet
<1>6. QED BY <1>1, <1>3, <1>4, <1>5, OtherTodo

LEMMA PurgeTree ==
  ASSUME NEW content, InvOf(content), Family, NEW r \in master.df, Purge(r)
  PROVE  Family'
<1>0. PICK s, d : s = [op |-> "bin", on |-> r.id] /\ d = [op |-> "delete", on |-> r.id]
  OBVIOUS
<1>1. /\ Begin(<<s, d>>, TRUE, 0) /\ r.st # 0
      /\ s.op = "bin" /\ s.on = r.id /\ d.op = "delete" /\ d.on = r.id
  BY <1>0 DEF Purge
<1>2. now' \in Nat /\ now <= now' /\ Known' = Known
  BY <1>1, AfterBegin
<1>3. Fitting(s)' /\ Fitting(d)'
  <2>1. s.op \in OnOps /\ d.op \in OnOps
    BY <1>1 DEF OnOps
  <2>2. QED BY <1>1, <1>2, <2>1, OnFileFits
<1>4. ~MakesFolder(s) /\ s.op # "trash" /\ ~MakesFolder(d) /\ d.op # "trash"
  BY <1>1 DEF MakesFolder
<1>5. ToSet(<<s, d>>) = {s, d}
  BY AsSet
<1>6. QED BY <1>1, <1>3, <1>4, <1>5, OtherTodo

LEMMA SetDeleteTree ==
  ASSUME NEW content, InvOf(content), Family, NEW r \in master.df, SetDelete(r)
  PROVE  Family'
<1>0. PICK s : s = [op |-> "trash", on |-> r.id]
  OBVIOUS
<1>1. /\ Begin(<<s>>, FALSE, 0) /\ s.op = "trash" /\ s.on = r.id
      /\ r \in Current(master, r.parent, r.name)
  BY <1>0 DEF SetDelete
<1>2. Fitting(s)'
  <2>1. now' = now + 0 /\ now \in Nat
    BY <1>1, AfterBegin
  <2>2. s.on \in Nat /\ s.on <= now'
    BY <1>1, <2>1, RowsAre
  <2>3. QED BY <1>1, <2>2 DEF Fitting, OnOps
<1>3. ASSUME NEW e \in FoldersOf(master), NEW x \in FoldersOf(master), e.id = r.id, Beside(e, x)
      PROVE  x.id <= e.id
  <2>1. e = r /\ ~r.trash /\ e.id \in Nat /\ x.id \in Nat
    BY <1>1, <1>3, RowsAre DEF FoldersOf, Current
  <2>2. ~(e.id < x.id)
    BY <1>3, <2>1 DEF Family, Tree
  <2>3. QED BY <2>1, <2>2
<1>4. ~MakesFolder(s) /\ ToSet(<<s>>) = {s} /\ Len(<<s>>) = 1
  BY <1>1, AsSet DEF MakesFolder
<1>5. QED BY <1>1, <1>2, <1>3, <1>4, OtherTodo

LEMMA AddFileTree ==
  ASSUME NEW content, InvOf(content), Family,
         NEW p \in Folders, NEW n \in FileName, NEW x \in Md5, AddFile(p, n, x)
  PROVE  Family'
<1> DEFINE old   == Current(master, p, n)
           known == {s \in master.st : s.md5 = x}
           new   == IF known = {} THEN now + 1 ELSE (CHOOSE s \in known : TRUE).id
           any   == CHOOSE r \in old : TRUE
<1>1. PICK st, a, h, f, A, H :
         /\ st = new
         /\ a = [op |-> "storage", row |-> [id |-> st, md5 |-> x]]
         /\ h = [op |-> "history", on |-> any.id]
         /\ f = [op |-> "file", row |-> Row(now + 2, p, n, st)]
         /\ A = IF known = {} THEN <<a>> ELSE <<>>
         /\ H = IF old = {} THEN <<>> ELSE <<h>>
  OBVIOUS
<1>2. Begin(A \o H \o <<f>>, FALSE, 2)
  BY <1>1 DEF AddFile
<1>3. st # 0
  <2>1. CASE known = {}
    BY <1>1, <2>1, RowsAre
  <2>2. CASE known # {}
    <3>1. (CHOOSE s \in known : TRUE) \in master.st
      BY <2>2
    <3>2. (CHOOSE s \in known : TRUE).id \in 1..MaxId
      BY <3>1 DEF InvOf, TablesInv, Sound, Stored, StType
    <3>3. QED BY <1>1, <2>2, <3>2, NumberAssumption
  <2>3. QED BY <2>1, <2>2
<1>4. old # {} => any \in master.df /\ any.name = n
  BY DEF Current
<1>5. n \notin FolderName
  BY NameAssumption
<1>6. old # {} => any.st # 0
  BY <1>4, <1>5 DEF Family, Tree
<1>7. /\ a.op = "storage" /\ h.op = "history" /\ h.on = any.id
      /\ f.op = "file" /\ f.row.id = now + 2 /\ f.row.parent = p /\ f.row.name = n
      /\ f.row.st = st
  BY <1>1 DEF Row
<1>8. (A = <<>> \/ A = <<a>>) /\ (H = <<>> \/ (H = <<h>> /\ old # {}))
  BY <1>1
<1> HIDE DEF new, known, any, old
<1>9. /\ now' = now + 2 /\ now \in Nat /\ Known' = Known
      /\ \A q : Placed(q)' <=> Placed(q)
  BY <1>2, AfterBegin
<1>10. Fitting(a)' /\ ~MakesFolder(a) /\ a.op # "trash"
  BY <1>7 DEF Fitting, MakesFolder, OnOps
<1>11. old # {} => Fitting(h)' /\ ~MakesFolder(h) /\ h.op # "trash"
  <2> SUFFICES ASSUME old # {} PROVE Fitting(h)' /\ ~MakesFolder(h) /\ h.op # "trash"
    OBVIOUS
  <2>1. PICK r \in master.df : r.st # 0 /\ h.on = r.id
    BY <1>4, <1>6, <1>7
  <2>2. h.op \in OnOps /\ now <= now' /\ now' \in Nat
    BY <1>7, <1>9 DEF OnOps
  <2>3. Fitting(h)'
    BY <1>9, <2>1, <2>2, <1>7, OnFileFits
  <2>4. QED BY <1>7, <2>3 DEF MakesFolder
<1>12. Fitting(f)' /\ ~MakesFolder(f) /\ f.op # "trash"
  <2>1. Placed(p)
    BY FoldersAre
  <2>2. p \in Nat /\ p <= now
    BY <1>9, <2>1, RowsAre DEF Placed
  <2>3. QED BY <1>3, <1>5, <1>7, <1>9, <2>1, <2>2 DEF Fitting, MakesFolder, OnOps
<1>13. \A s \in ToSet(A \o H \o <<f>>) : s \in {a, f} \/ (s = h /\ old # {})
  <2> DEFINE X == {a, f} \cup {y \in {h} : old # {}}
  <2>1. A \in Seq(X) /\ H \in Seq(X) /\ <<f>> \in Seq(X)
    <3>1. a \in X /\ f \in X /\ (old # {} => h \in X)
      OBVIOUS
    <3> HIDE DEF X
    <3>2. <<>> \in Seq(X) /\ <<a>> \in Seq(X) /\ <<f>> \in Seq(X)
      BY <3>1
    <3>3. old # {} => <<h>> \in Seq(X)
      BY <3>1
    <3>4. QED BY <1>8, <3>2, <3>3
  <2>2. A \o H \o <<f>> \in Seq(X)
    <3> HIDE DEF X
    <3>1. QED BY <2>1
  <2>3. \A s \in X : s \in {a, f} \/ (s = h /\ old # {})
    OBVIOUS
  <2> HIDE DEF X
  <2>4. \A s \in ToSet(A \o H \o <<f>>) : s \in X
    BY <2>2, PartSets DEF ToSet
  <2>5. QED BY <2>3, <2>4
<1>14. \A s \in ToSet(A \o H \o <<f>>) : Fitting(s)' /\ ~MakesFolder(s) /\ s.op # "trash"
  BY <1>10, <1>11, <1>12, <1>13
<1>15. QED BY <1>2, <1>14, OtherTodo
-----------------------------------------------------------------------------
(* Statements, row by row.                                                 *)

\* What a statement that makes no row leaves of the row x.
Becomes(T, s, x, u) ==
    /\ u.id = x.id /\ u.parent = x.parent /\ u.st = x.st
    /\ u.name = x.name \/ (s.op = "rename" /\ x.id = s.on /\ u.name = s.name)
    /\ u.hist = x.hist \/ (s.op = "history" /\ x.id = s.on)
    /\ \/ u.trash = x.trash
       \/ s.op = "trash" /\ u.trash /\ \E y \in T.df : y.id = s.on /\ Beside(x, y)
    /\ s.op = "trash" /\ x.id = s.on => u.trash
    /\ s.op = "delete" => x.id # s.on
    /\ s.op = "trash" \/ (s.op \in {"history", "rename"} /\ x.id = s.on) \/ u = x

RowByRow(T, s, U) ==
    /\ \A u \in U.df : \E x \in T.df : Becomes(T, s, x, u)
    /\ \A x \in T.df : (s.op = "delete" /\ x.id = s.on) \/ \E u \in U.df : Becomes(T, s, x, u)

LEMMA EffectByRow ==
  ASSUME NEW n, NEW content, NEW T, Sound(T, n, content),
         NEW s, Fits(s, n, content), NEW U, U = Effect(T, s)
  PROVE  /\ s.op # "file" => RowByRow(T, s, U)
         /\ s.op = "file" => U.df = T.df \cup {s.row}
<1> DEFINE D == T.df
<1>0. /\ \A x \in D : x \in RowType
      /\ \A d : [T EXCEPT !.df = d].df = d
  BY DEF Sound
<1>1. CASE s.op \in {"storage", "bin"}
  <2>1. U.df = T.df
    BY <1>1 DEF Effect, Sound
  <2>2. QED BY <1>1, <2>1 DEF RowByRow, Becomes
<1>2. CASE s.op = "file"
  BY <1>0, <1>2 DEF Effect
<1>3. CASE s.op = "history"
  <2> DEFINE c == [x \in D |-> IF x.id = s.on THEN [x EXCEPT !.hist = TRUE] ELSE x]
  <2>1. U.df = {c[x] : x \in D}
    <3>1. \A x \in D : (x \in ById(T, s.on)) <=> x.id = s.on
      BY DEF ById
    <3>2. U.df = {IF x \in ById(T, s.on) THEN [x EXCEPT !.hist = TRUE] ELSE x : x \in D}
      BY <1>0, <1>3 DEF Effect, SetHistory, Update
    <3>3. QED BY <3>1, <3>2
  <2>2. \A x \in D : Becomes(T, s, x, c[x])
    BY <1>0, <1>3 DEF Becomes, RowType
  <2> HIDE DEF c
  <2>3. QED BY <1>3, <2>1, <2>2 DEF RowByRow
<1>4. CASE s.op = "rename"
  <2> DEFINE c == [x \in D |-> IF x.id = s.on THEN [x EXCEPT !.name = s.name] ELSE x]
  <2>1. U.df = {c[x] : x \in D}
    <3>1. \A x \in D : (x \in ById(T, s.on)) <=> x.id = s.on
      BY DEF ById
    <3>2. U.df = {IF x \in ById(T, s.on) THEN [x EXCEPT !.name = s.name] ELSE x : x \in D}
      BY <1>0, <1>4 DEF Effect, Update
    <3>3. QED BY <3>1, <3>2
  <2>2. \A x \in D : Becomes(T, s, x, c[x])
    BY <1>0, <1>4 DEF Becomes, RowType
  <2> HIDE DEF c
  <2>3. QED BY <1>4, <2>1, <2>2 DEF RowByRow
<1>5. CASE s.op = "trash"
  <2> DEFINE W == {r \in T.df : ~r.trash /\ \E x \in ById(T, s.on) :
                                   r.parent = x.parent /\ r.name = x.name}
             c == [x \in D |-> IF x \in W THEN [x EXCEPT !.trash = TRUE] ELSE x]
  <2>1. U.df = {c[x] : x \in D}
    BY <1>0, <1>5 DEF Effect, Update
  <2>2. ASSUME NEW x \in D PROVE Becomes(T, s, x, c[x])
    <3>1. x \in RowType
      BY <1>0
    <3>2. CASE x \in W
      <4>1. c[x] = [x EXCEPT !.trash = TRUE]
        BY <3>2
      <4>2. \E y \in T.df : y.id = s.on /\ Beside(x, y)
        BY <3>2 DEF ById, Beside
      <4> HIDE DEF c, W
      <4>3. QED BY <1>5, <3>1, <4>1, <4>2 DEF Becomes, RowType
    <3>3. CASE x \notin W
      <4>1. c[x] = x
        BY <3>3
      <4>2. x.id = s.on => x.trash
        BY <3>3 DEF ById
      <4> HIDE DEF c, W
      <4>3. QED BY <1>5, <3>1, <4>1, <4>2 DEF Becomes
    <3>4. QED BY <3>2, <3>3
  <2> HIDE DEF c
  <2>3. QED BY <1>5, <2>1, <2>2 DEF RowByRow
<1>6. CASE s.op = "delete"
  <2>1. U.df = {x \in D : x.id # s.on}
    BY <1>0, <1>6 DEF Effect, ById
  <2>2. QED BY <1>6, <2>1 DEF RowByRow, Becomes
<1>7. QED BY <1>1, <1>2, <1>3, <1>4, <1>5, <1>6 DEF Fits

-----------------------------------------------------------------------------
(* The commit.                                                             *)

\* The rest of the state, and the statements.
LEMMA CommitRest ==
  ASSUME NEW content, InvOf(content), Family, Commit
  PROVE  /\ UNCHANGED <<now, log, slave, pc, aop, at, page, whole, lastId, queue>>
         /\ Done = {} /\ Done' \subseteq Todo /\ Todo' \subseteq Todo
         /\ Done' # {}
         /\ TableName' = TableName
         /\ \A s \in Todo : Fits(s, now, content)
         /\ (\E s \in Todo : MakesFolder(s) \/ s.op = "trash") =>
               \E s : /\ Todo = {s} /\ Done' = {s} /\ Todo' = {}
                      /\ req'.todo = <<>> /\ Len(req'.done) = 1
                      /\ master' = Effect(master, s)
<1>1. PICK n, g :
            /\ n \in 1..Len(req.todo)
            /\ req' = [todo |-> SubSeq(req.todo, n + 1, Len(req.todo)),
                       done |-> SubSeq(req.todo, 1, n), auto |-> req.auto]
            /\ g[0] = master /\ master' = g[n]
            /\ \A k \in 1..n : g[k] = Effect(g[k - 1], req.todo[k])
  BY CommitSteps
<1>2. req.todo \in Seq(Statement) /\ \A i \in 1..Len(req.todo) : Fits(req.todo[i], now, content)
  BY DEF InvOf, RequestInv
<1>3. /\ UNCHANGED <<now, log, slave, pc, aop, at, page, whole, lastId, queue>>
      /\ req.done = <<>>
  BY DEF Commit
<1>4. n \in Nat /\ n <= Len(req.todo) /\ n # 0
  BY <1>1, <1>2
<1>5. Done = {} /\ Done' \subseteq Todo /\ Todo' \subseteq Todo
  <2>1. n \in 0..Len(req.todo)
    BY <1>4, <1>2
  <2>2. Done' \subseteq Todo /\ Todo' \subseteq Todo
    BY <1>1, <1>2, <2>1, PartSets DEF Done, Todo
  <2>3. QED BY <1>3, <2>2, AsSet DEF Done
<1>6. \A s \in Todo : Fits(s, now, content)
  BY <1>2, PartSets DEF Todo
<1>7. Done' # {}
  <2>1. SubSeq(req.todo, 1, n)[1] = req.todo[1] /\ 1 \in DOMAIN SubSeq(req.todo, 1, n)
    BY <1>2, <1>4
  <2>2. QED BY <1>1, <2>1 DEF Done, ToSet
<1>8. ASSUME \E s \in Todo : MakesFolder(s) \/ s.op = "trash"
      PROVE  \E s : /\ Todo = {s} /\ Done' = {s} /\ Todo' = {}
                    /\ req'.todo = <<>> /\ Len(req'.done) = 1
                    /\ master' = Effect(master, s)
  <2>1. Len(req.todo) = 1
    BY <1>8 DEF Family, TodoTree
  <2>2. n = 1
    BY <1>4, <2>1
  <2>3. SubSeq(req.todo, 2, 1) = <<>> /\ SubSeq(req.todo, 1, 1) = <<req.todo[1]>>
    <3>1. ASSUME NEW q \in Seq(Statement), Len(q) = 1
          PROVE  SubSeq(q, 2, 1) = <<>> /\ SubSeq(q, 1, 1) = <<q[1]>>
      <4>1. SubSeq(q, 2, 1) \in Seq(Statement) /\ Len(SubSeq(q, 2, 1)) = 0
        BY <3>1
      <4>2. \A p \in Seq(Statement) : Len(p) = 0 => p = <<>>
        OBVIOUS
      <4>3. /\ SubSeq(q, 1, 1) \in Seq(Statement) /\ Len(SubSeq(q, 1, 1)) = 1
            /\ SubSeq(q, 1, 1)[1] = q[1]
        BY <3>1
      <4>4. \A p \in Seq(Statement) : Len(p) = 1 => p = <<p[1]>>
        OBVIOUS
      <4>5. SubSeq(q, 1, 1) = <<SubSeq(q, 1, 1)[1]>>
        BY ONLY <4>3, <4>4
      <4>6. QED BY <4>1, <4>2, <4>3, <4>5
    <3>2. QED BY <1>2, <2>1, <3>1
  <2>4. req'.todo = <<>> /\ req'.done = <<req.todo[1]>>
    BY <1>1, <2>1, <2>2, <2>3
  <2>5. master' = Effect(master, req.todo[1])
    BY <1>1, <2>2
  <2>6. \A s \in Todo : s = req.todo[1]
    BY <1>2, <2>1, PartSets DEF Todo
  <2>7. Todo = {req.todo[1]}
    BY <1>8, <2>6
  <2>8. Done' = {req.todo[1]} /\ Todo' = {}
    BY <2>4, AsSet DEF Done, Todo
  <2>9. Len(req'.done) = 1
    BY <2>4
  <2>10. QED BY <2>4, <2>5, <2>7, <2>8, <2>9
<1>9. TableName' = TableName
  BY <1>3 DEF TableName
<1>10. QED BY <1>3, <1>5, <1>6, <1>7, <1>8, <1>9

\* A folder before and after a commit.
Same(e, u) ==
    /\ u.id = e.id /\ Beside(u, e) /\ (e.trash => u.trash)
    /\ u.trash => e.trash \/ \E s \in Done' : Trashes(s, u)

LEMMA FoldersKept ==
  ASSUME NEW content, InvOf(content), Family, Commit,
         \A s \in Todo : ~MakesFolder(s),
         \A u \in FoldersOf(master)' : \E e \in FoldersOf(master) : Same(e, u),
         \A e \in FoldersOf(master) : \E u \in FoldersOf(master)' : Same(e, u),
         Tree(master)', TodoTree', DoneTree'
  PROVE  Family'
<1>1. /\ UNCHANGED <<now, log, slave, pc, aop, at, page, whole, lastId, queue>>
      /\ Done = {} /\ Done' \subseteq Todo /\ Todo' \subseteq Todo /\ TableName' = TableName
  BY CommitRest
<1>2. \A s \in Todo' \cup Done' : ~MakesFolder(s)
  BY <1>1
<1>3. Known' = Known
  BY DEF Known, Ids, Same
<1>4. (\A p : Placed(p)' <=> Placed(p)) /\ \A s : Fitting(s)' <=> Fitting(s)
  BY <1>1, <1>3 DEF Placed, Fitting
<1> DEFINE F == FoldersOf(master)
           G == FoldersOf(master)'
<1>5. /\ \A u \in G : \E e \in F : Same(e, u)
      /\ \A e \in F : \E u \in G : Same(e, u)
  OBVIOUS
<1> HIDE DEF F, G
<1>6. /\ \A s, e, u : Same(e, u) => /\ Makes(s, u) <=> Makes(s, e)
                                    /\ Trashes(s, u) <=> Trashes(s, e)
      /\ \A e, u, f, v : Same(e, u) /\ Same(f, v) => (Beside(u, v) <=> Beside(e, f))
      /\ \A e, u, x : Same(e, u) => (Beside(u, x) <=> Beside(e, x)) /\ (Beside(x, u) <=> Beside(x, e))
  BY DEF Same, Makes, Trashes, Beside
<1>7. LogTree'
  <2>1. LogTree
    BY DEF Family
  <2>2. ASSUME NEW l \in log PROVE Logged(l)'
    <3>1. Logged(l)
      BY <2>1 DEF LogTree
    <3>2. l.id \in Nat /\ l.id <= now' /\ Fitting(l.sql)'
      BY <1>1, <1>4, <3>1 DEF Logged
    <3>3. MakesFolder(l.sql) =>
             /\ l.sql.row.id < l.id
             /\ \E r \in G : r.id = l.sql.row.id /\ Beside(r, l.sql.row)
      <4>1. MakesFolder(l.sql) =>
             /\ l.sql.row.id < l.id
             /\ \E r \in F : r.id = l.sql.row.id /\ Beside(r, l.sql.row)
        BY <3>1 DEF Logged, F
      <4>2. ASSUME NEW r \in F, r.id = l.sql.row.id, Beside(r, l.sql.row)
            PROVE  \E u \in G : u.id = l.sql.row.id /\ Beside(u, l.sql.row)
        <5>1. PICK u \in G : Same(r, u)
          BY <1>5
        <5>2. u.id = r.id
          BY <5>1 DEF Same
        <5>3. QED BY <1>6, <4>2, <5>1, <5>2
      <4>3. QED BY <4>1, <4>2
    <3>4. (l.sql.op = "file" /\ l.sql.row.st # 0) => l.sql.row.id \notin Known'
      BY <1>3, <3>1 DEF Logged
    <3>5. ASSUME NEW u \in G, Trashes(l.sql, u)
          PROVE  u.trash /\ \A r \in G : Beside(u, r) /\ u.id < r.id => l.id < r.id
      <4>1. PICK e \in F : Same(e, u)
        BY <1>5
      <4>2. e.trash /\ \A r \in F : Beside(e, r) /\ e.id < r.id => l.id < r.id
        <5>1. Trashes(l.sql, e)
          BY <1>6, <3>5, <4>1
        <5>2. QED BY <3>1, <5>1 DEF Logged, F
      <4>3. ASSUME NEW r \in G, Beside(u, r), u.id < r.id PROVE l.id < r.id
        <5>1. PICK f \in F : Same(f, r)
          BY <1>5
        <5>2. Beside(e, f) /\ e.id < f.id
          BY <1>6, <4>1, <4>3, <5>1 DEF Same
        <5>3. QED BY <4>2, <5>1, <5>2 DEF Same
      <4>4. QED BY <4>1, <4>2, <4>3 DEF Same
    <3>6. QED BY <3>2, <3>3, <3>4, <3>5 DEF Logged, G
  <2>3. ASSUME NEW l \in log, NEW k \in log PROVE Ordered(l, k)'
    <3>1. Ordered(l, k)
      BY <2>1 DEF LogTree
    <3>2. ASSUME NEW u \in G, NEW v \in G
          PROVE  /\ Makes(l.sql, u) /\ Trashes(k.sql, u) => l.id < k.id
                 /\ Makes(l.sql, u) /\ Makes(k.sql, v) /\ l.id < k.id => u.id < v.id
      <4>1. PICK e \in F, f \in F : Same(e, u) /\ Same(f, v)
        BY <1>5
      <4>2. /\ Makes(l.sql, u) <=> Makes(l.sql, e)
            /\ Trashes(k.sql, u) <=> Trashes(k.sql, e)
            /\ Makes(k.sql, v) <=> Makes(k.sql, f)
        BY <1>6, <4>1
      <4>3. u.id = e.id /\ v.id = f.id
        BY <4>1 DEF Same
      <4>4. /\ Makes(l.sql, e) /\ Trashes(k.sql, e) => l.id < k.id
            /\ Makes(l.sql, e) /\ Makes(k.sql, f) /\ l.id < k.id => e.id < f.id
        BY <3>1 DEF Ordered, F
      <4>5. QED BY <4>2, <4>3, <4>4
    <3>3. QED BY <3>2 DEF Ordered, G
  <2>4. QED BY <1>1, <2>1, <2>2, <2>3 DEF LogTree
<1>8. SlaveFits(slave)'
  BY <1>1, <1>3, <1>4 DEF Family, SlaveFits, Hangs
<1>9. PageTree'
  <2>1. ASSUME NEW r, FromMaster(r) PROVE FromMaster(r)'
    <3>1. r.st = 0 => \E e \in F : e.id = r.id /\ Beside(e, r)
      BY <2>1 DEF FromMaster, F
    <3>2. r.st = 0 => \E e \in G : e.id = r.id /\ Beside(e, r)
      <4>1. ASSUME NEW e \in F, e.id = r.id, Beside(e, r)
            PROVE  \E u \in G : u.id = r.id /\ Beside(u, r)
        <5>1. PICK u \in G : Same(e, u)
          BY <1>5
        <5>2. u.id = e.id
          BY <5>1 DEF Same
        <5>3. QED BY <1>6, <4>1, <5>1, <5>2
      <4>2. QED BY <3>1, <4>1
    <3>3. QED BY <1>1, <1>3, <1>4, <2>1, <3>2 DEF FromMaster, G
  <2>2. ASSUME TableName = "df" PROVE \A p \in page : FromMaster(p)'
    BY <2>1, <2>2 DEF Family, PageTree
  <2>3. QED BY <1>1, <2>2 DEF PageTree
<1>10. (pc = "copy" => CopyTree)'
  <2> SUFFICES ASSUME pc = "copy" PROVE CopyTree'
    BY <1>1
  <2>1. CopyTree
    BY DEF Family
  <2>2. SectionTree'
    <3>1. SectionTree
      BY <2>1 DEF CopyTree
    <3>2. ASSUME NEW l \in log, l.id > aop, NEW u \in G, Makes(l.sql, u) PROVE u.id > aop
      <4>1. PICK e \in F : Same(e, u)
        BY <1>5
      <4>2. e.id > aop
        BY <1>6, <3>1, <3>2, <4>1 DEF SectionTree, F
      <4>3. QED BY <4>1, <4>2 DEF Same
    <3>3. QED BY <1>1, <1>2, <3>1, <3>2 DEF SectionTree, G
  <2>3. PassedTree'
    BY <1>1, <1>3, <2>1 DEF CopyTree, PassedTree, Inserted
  <2>4. ASSUME NEW u \in G
        PROVE  /\ u.id # aop
               /\ u.id > aop => Announced(u)'
               /\ Inserted(u.id)' => Copied(slave, u)'
               /\ u.trash => Reflected(u)'
    <3>1. PICK e \in F : Same(e, u)
      BY <1>5
    <3>2. /\ e.id # aop
          /\ e.id > aop => Announced(e)
          /\ Inserted(e.id) => Copied(slave, e)
          /\ e.trash => Reflected(e)
      BY <2>1 DEF CopyTree, F
    <3>3. Announced(e) => Announced(u)'
      BY <1>1, <1>6, <3>1 DEF Announced
    <3>4. Inserted(u.id)' <=> Inserted(e.id)
      BY <1>1, <3>1 DEF Inserted, Same
    <3>5. Copied(slave, e) => Copied(slave, u)'
      BY <1>1, <1>6, <3>1 DEF Copied, Image, Same
    <3>6. Reflected(e) => Reflected(u)'
      <4>1. u.id = e.id /\ \A s : Trashes(s, u) <=> Trashes(s, e)
        BY <1>6, <3>1 DEF Same
      <4>2. QED BY <1>1, <3>4, <4>1 DEF Reflected, Trashed
    <3>7. u.trash => e.trash \/ Reflected(u)'
      BY <3>1 DEF Same, Reflected
    <3>8. u.id = e.id
      BY <3>1 DEF Same
    <3>9. QED BY <3>2, <3>3, <3>4, <3>5, <3>6, <3>7, <3>8
  <2>5. QED BY <1>1, <2>2, <2>3, <2>4 DEF CopyTree, G
<1>11. (whole => WholeTree)'
  <2> SUFFICES ASSUME whole PROVE WholeTree'
    BY <1>1
  <2>1. WholeTree
    BY DEF Family
  <2>2. Pending' = Pending \cup Done' /\ \A s \in Done' : ~MakesFolder(s)
    BY <1>1, <1>2 DEF Pending, News
  <2>3. ASSUME NEW u \in G PROVE Followed(u)'
    <3>1. PICK e \in F : Same(e, u)
      BY <1>5
    <3>2. Followed(e) /\ u.id = e.id
      BY <2>1, <3>1 DEF WholeTree, F, Same
    <3>3. (\E s \in Pending' : Makes(s, u)) <=> \E s \in Pending : Makes(s, e)
      <4>1. \A s : Makes(s, u) <=> Makes(s, e)
        BY <1>6, <3>1
      <4>2. \A s \in Done' : ~Makes(s, u)
        BY <2>2 DEF Makes, MakesFolder
      <4>3. QED BY <2>2, <4>1, <4>2
    <3>4. (\E s \in Pending : Trashes(s, e)) => \E s \in Pending' : Trashes(s, u)
      BY <1>6, <2>2, <3>1
    <3>5. \A s \in slave.df : s.id = u.id => Image(s, u)
      BY <1>6, <3>1, <3>2 DEF Followed, Image
    <3>6. u.trash => e.trash \/ \E s \in Pending' : Trashes(s, u)
      BY <2>2, <3>1 DEF Same
    <3>7. /\ u.id \in Ids(slave.df) \/ \E s \in Pending' : Makes(s, u)
          /\ u.trash => \/ \E s \in Pending' : Trashes(s, u)
                        \/ Trashed(slave, u) /\ \A s \in Pending' : ~Makes(s, u)
          /\ (\E s \in Pending' : Makes(s, u)) =>
                \A x \in FoldersOf(slave) : x.id \in Own \/ x.id < u.id
      BY <3>2, <3>3, <3>4, <3>6 DEF Followed, Trashed
    <3>8. QED BY <1>1, <3>5, <3>7 DEF Followed, Trashed
  <2>4. QED BY <1>1, <2>1, <2>3 DEF WholeTree, G
<1>12. QED BY <1>7, <1>8, <1>9, <1>10, <1>11 DEF Family

\* A statement that neither makes nor deletes a folder.
LEMMA PlainStep ==
  ASSUME NEW content, InvOf(content), NEW T, Sound(T, now, content), Tree(T),
         Ids(FoldersOf(T)) = Known,
         NEW s, Fits(s, now, content), Fitting(s), ~MakesFolder(s), s.op # "trash",
         NEW U, U = Effect(T, s)
  PROVE  Tree(U) /\ FoldersOf(U) = FoldersOf(T)
<1>1. CASE s.op = "file"
  <2>1. U.df = T.df \cup {s.row} /\ s.row.st # 0
    BY <1>1, EffectByRow DEF MakesFolder
  <2>2. FoldersOf(U) = FoldersOf(T)
    BY <2>1 DEF FoldersOf
  <2>3. /\ s.row.parent = 0 \/ s.row.parent \in Ids(FoldersOf(T))
        /\ s.row.parent < s.row.id /\ s.row.name \notin FolderName
    BY <1>1, <2>1 DEF Fitting, Placed
  <2>4. QED BY <2>1, <2>2, <2>3 DEF Tree
<1>2. CASE s.op # "file"
  <2>1. RowByRow(T, s, U)
    BY <1>2, EffectByRow
  <2>2. /\ s.op \in {"history", "delete", "rename"} => s.on \notin Known
        /\ s.op = "rename" => s.name \notin FolderName
    BY DEF Fitting
  <2>3. \A x \in T.df : x.st = 0 => x.id \in Known
    BY DEF FoldersOf, Ids
  <2>4. ASSUME NEW x \in T.df, NEW u, Becomes(T, s, x, u)
        PROVE  /\ u.id = x.id /\ u.parent = x.parent /\ u.st = x.st
               /\ x.st = 0 => u = x
               /\ x.st # 0 => (u.name = x.name \/ u.name \notin FolderName)
    <3>1. x.st = 0 => ~(s.op \in {"history", "rename"} /\ x.id = s.on)
      BY <2>2, <2>3
    <3>2. x.st = 0 => u = x
      BY <2>4, <3>1 DEF Becomes
    <3>3. u.name = x.name \/ u.name \notin FolderName
      BY <2>2, <2>4 DEF Becomes
    <3>4. QED BY <2>4, <3>2, <3>3 DEF Becomes
  <2>5. FoldersOf(U) = FoldersOf(T)
    <3>1. ASSUME NEW u \in U.df, u.st = 0 PROVE u \in T.df
      <4>1. PICK x \in T.df : Becomes(T, s, x, u)
        BY <2>1 DEF RowByRow
      <4>2. QED BY <2>4, <3>1, <4>1
    <3>2. ASSUME NEW x \in T.df, x.st = 0 PROVE x \in U.df
      <4>1. ~(s.op = "delete" /\ x.id = s.on)
        BY <2>2, <2>3, <3>2
      <4>2. PICK u \in U.df : Becomes(T, s, x, u)
        BY <2>1, <4>1 DEF RowByRow
      <4>3. QED BY <2>4, <3>2, <4>2
    <3>3. QED BY <3>1, <3>2 DEF FoldersOf
  <2>6. ASSUME NEW u \in U.df
        PROVE  /\ u.st = 0 <=> u.name \in FolderName
               /\ u.parent = 0 \/ u.parent \in Ids(FoldersOf(U))
               /\ u.parent < u.id
               /\ u.st = 0 => ~u.hist
    <3>1. PICK x \in T.df : Becomes(T, s, x, u)
      BY <2>1 DEF RowByRow
    <3>2. /\ x.st = 0 <=> x.name \in FolderName
          /\ x.parent = 0 \/ x.parent \in Ids(FoldersOf(T))
          /\ x.parent < x.id
          /\ x.st = 0 => ~x.hist
      BY DEF Tree
    <3>3. QED BY <2>4, <2>5, <3>1, <3>2
  <2>7. QED BY <2>5, <2>6 DEF Tree
<1>3. QED BY <1>1, <1>2

LEMMA CommitPlain ==
  ASSUME NEW content, InvOf(content), Family, Commit,
         \A s \in Todo : ~MakesFolder(s) /\ s.op # "trash"
  PROVE  Family'
<1>1. PICK n, g :
            /\ n \in 1..Len(req.todo)
            /\ req' = [todo |-> SubSeq(req.todo, n + 1, Len(req.todo)),
                       done |-> SubSeq(req.todo, 1, n), auto |-> req.auto]
            /\ g[0] = master /\ master' = g[n]
            /\ \A k \in 1..n : g[k] = Effect(g[k - 1], req.todo[k])
            /\ \A k \in 0..n : Sound(g[k], now, content)
  BY CommitSteps
<1>2. n \in Nat /\ n <= Len(req.todo) /\ Len(req.todo) \in Nat /\ DOMAIN req.todo = 1..Len(req.todo)
  BY <1>1 DEF InvOf, RequestInv
<1>3. \A k \in 1..n : /\ Fits(req.todo[k], now, content) /\ req.todo[k] \in Todo
                      /\ Fitting(req.todo[k])
  <2>1. \A k \in 1..n : Fits(req.todo[k], now, content) /\ req.todo[k] \in Todo
    BY <1>2 DEF InvOf, RequestInv, Todo, ToSet
  <2>2. QED BY <2>1 DEF Family, TodoTree
<1> DEFINE Good(k) == Tree(g[k]) /\ FoldersOf(g[k]) = FoldersOf(master)
<1>4. \A k \in 0..n : Good(k)
  <2> DEFINE Bad == {k \in 0..n : ~ Good(k)}
  <2> SUFFICES ASSUME Bad # {} PROVE FALSE
    OBVIOUS
  <2>1. PICK k \in Bad : \A j \in Bad : k <= j
    <3>1. Bad \in SUBSET Nat
      BY <1>2
    <3> HIDE DEF Bad
    <3>2. QED BY <3>1, NatHasLeast
  <2>2. Good(0)
    BY <1>1 DEF Family
  <2>3. k # 0
    BY <2>2
  <2>4. k \in 1..n /\ k - 1 \in 0..n
    BY <1>2, <2>1, <2>3
  <2>5. Good(k - 1)
    <3>1. k - 1 \notin Bad
      BY <2>1, <2>4
    <3> HIDE DEF Good
    <3>2. QED BY <2>4, <3>1
  <2>6. Ids(FoldersOf(g[k - 1])) = Known /\ Tree(g[k - 1]) /\ Sound(g[k - 1], now, content)
    BY <1>1, <2>4, <2>5 DEF Known
  <2>7. /\ Fits(req.todo[k], now, content) /\ Fitting(req.todo[k])
        /\ ~MakesFolder(req.todo[k]) /\ req.todo[k].op # "trash"
        /\ g[k] = Effect(g[k - 1], req.todo[k])
    BY <1>1, <1>3, <2>4
  <2>8. Tree(g[k]) /\ FoldersOf(g[k]) = FoldersOf(g[k - 1])
    BY <2>6, <2>7, PlainStep
  <2>9. QED BY <2>1, <2>5, <2>8
<1>5. Tree(master)' /\ FoldersOf(master)' = FoldersOf(master)
  <2>1. n \in 0..n
    BY <1>2
  <2>2. Tree(g[n]) /\ FoldersOf(g[n]) = FoldersOf(master)
    BY <1>4, <2>1
  <2>3. Tree(master') /\ FoldersOf(master') = FoldersOf(master)
    BY <1>1, <2>2
  <2>4. QED BY <2>3 DEF Tree, FoldersOf
<1>6. /\ UNCHANGED <<now, log>> /\ Done' \subseteq Todo /\ Todo' \subseteq Todo
  BY CommitRest
<1>7. /\ Known' = Known /\ \A s : Fitting(s)' <=> Fitting(s)
  BY <1>5, <1>6 DEF Known, Fitting, Placed
<1>8. \A s \in Todo : Fitting(s)' /\ ~MakesFolder(s) /\ s.op # "trash"
  BY <1>7 DEF Family, TodoTree
<1>9. TodoTree'
  BY <1>6, <1>8 DEF TodoTree
<1>10. DoneTree'
  <2>1. ASSUME NEW s \in Done', s.op = "file" PROVE s.row.id \notin Known'
    <3>1. s.row.id \notin Ids(master.df)
      <4>1. req.todo \in Seq(Statement) /\ s \in ToSet(req.todo)
        BY <1>6 DEF Todo, InvOf, RequestInv
      <4>2. PICK i \in 1..Len(req.todo) : s = req.todo[i]
        BY <4>1, PartSets
      <4>3. QED BY <2>1, <4>2 DEF InvOf, RequestInv
    <3>2. Known \subseteq Ids(master.df)
      BY DEF Known, FoldersOf, Ids
    <3>3. QED BY <1>7, <3>1, <3>2
  <2>2. QED BY <1>6, <1>8, <2>1 DEF DoneTree
<1>11. \A e \in FoldersOf(master) : Same(e, e)
  BY DEF Same, Beside
<1>12. QED BY <1>5, <1>9, <1>10, <1>11, FoldersKept

LEMMA CommitTrash ==
  ASSUME NEW content, InvOf(content), Family, Commit, NEW s \in Todo, s.op = "trash"
  PROVE  Family'
<1>1. /\ Todo = {s} /\ Done' = {s} /\ Todo' = {} /\ req'.todo = <<>> /\ Len(req'.done) = 1
      /\ master' = Effect(master, s) /\ now' = now /\ Fits(s, now, content)
  BY CommitRest
<1>2. RowByRow(master, s, master')
  BY <1>1, EffectByRow DEF InvOf, TablesInv
<1>3. /\ \A e, r \in FoldersOf(master) : e.id = s.on /\ Beside(e, r) => r.id <= e.id
      /\ Fitting(s) /\ Tree(master)
  BY DEF Family, TodoTree
<1>4. ASSUME NEW x \in master.df, NEW u, Becomes(master, s, x, u)
      PROVE  /\ u.id = x.id /\ u.parent = x.parent /\ u.name = x.name /\ u.st = x.st
             /\ u.hist = x.hist /\ (x.trash => u.trash)
             /\ x.id = s.on => u.trash
             /\ x.st = 0 => Same(x, u)
  <2>1. /\ u.id = x.id /\ u.parent = x.parent /\ u.name = x.name /\ u.st = x.st
        /\ u.hist = x.hist /\ (x.trash => u.trash) /\ (x.id = s.on => u.trash)
    BY <1>4 DEF Becomes
  <2>2. ASSUME x.st = 0, u.trash, ~x.trash PROVE x.id = s.on
    <3>1. PICK y \in master.df : y.id = s.on /\ Beside(x, y)
      BY <1>4, <2>2 DEF Becomes
    <3>2. x \in FoldersOf(master) /\ y \in FoldersOf(master)
      BY <1>3, <2>2, <3>1 DEF Tree, FoldersOf, Beside
    <3>3. x.id <= y.id
      BY <1>3, <3>1, <3>2 DEF Beside
    <3>4. ~(x.id < y.id)
      BY <1>3, <2>2, <3>1, <3>2 DEF Tree
    <3>5. x.id \in Nat /\ y.id \in Nat
      BY RowsAre
    <3>6. QED BY <3>1, <3>3, <3>4, <3>5
  <2>3. x.st = 0 => (u.trash => x.trash \/ \E d \in Done' : Trashes(d, u))
    BY <1>1, <2>1, <2>2 DEF Trashes
  <2>4. QED BY <2>1, <2>3 DEF Same, Beside
<1>5. /\ \A u \in master'.df : \E x \in master.df : Becomes(master, s, x, u)
      /\ \A x \in master.df : \E u \in master'.df : Becomes(master, s, x, u)
  BY <1>2 DEF RowByRow
<1> DEFINE G == FoldersOf(master)'
<1>6. \A u \in G : u \in master'.df /\ u.st = 0
  BY DEF FoldersOf
<1>7. \A u \in master'.df : u.st = 0 => u \in G
  BY DEF FoldersOf
<1> HIDE DEF G
<1>8. \A u \in G : \E e \in FoldersOf(master) : Same(e, u) /\ (e.id = s.on => u.trash)
  BY <1>4, <1>5, <1>6 DEF FoldersOf
<1>9. \A e \in FoldersOf(master) : \E u \in G : Same(e, u)
  BY <1>4, <1>5, <1>7 DEF FoldersOf
<1>10. Tree(master)'
  <2>1. ASSUME NEW u \in master'.df
        PROVE  /\ u.st = 0 <=> u.name \in FolderName
               /\ u.parent = 0 \/ u.parent \in Ids(G)
               /\ u.parent < u.id
               /\ u.st = 0 => ~u.hist
    <3>1. PICK x \in master.df : Becomes(master, s, x, u)
      BY <1>5
    <3>2. Ids(FoldersOf(master)) \subseteq Ids(G)
      BY <1>9 DEF Ids, Same
    <3>3. /\ x.st = 0 <=> x.name \in FolderName
          /\ x.parent = 0 \/ x.parent \in Ids(FoldersOf(master))
          /\ x.parent < x.id
          /\ x.st = 0 => ~x.hist
      BY <1>3 DEF Tree
    <3>4. QED BY <1>4, <3>1, <3>2, <3>3
  <2>2. ASSUME NEW u \in G, NEW v \in G, Beside(u, v), u.id < v.id PROVE u.trash
    <3>1. PICK e \in FoldersOf(master), f \in FoldersOf(master) : Same(e, u) /\ Same(f, v)
      BY <1>8
    <3>2. Beside(e, f) /\ e.id < f.id
      BY <2>2, <3>1 DEF Same, Beside
    <3>3. e.trash
      BY <1>3, <3>2 DEF Tree
    <3>4. QED BY <3>1, <3>3 DEF Same
  <2>3. QED BY <2>1, <2>2 DEF Tree, G
<1>11. Known' = Known
  BY <1>8, <1>9 DEF Known, Ids, Same, G
<1>12. DoneTree'
  <2>1. Fitting(s)'
    BY <1>1, <1>3, <1>11 DEF Fitting, Placed
  <2>2. ASSUME NEW u \in G, u.id = s.on
        PROVE  u.trash /\ \A v \in G : Beside(u, v) => v.id <= u.id
    <3>1. PICK e \in FoldersOf(master) : Same(e, u) /\ (e.id = s.on => u.trash)
      BY <1>8
    <3>2. u.trash
      BY <2>2, <3>1 DEF Same
    <3>3. ASSUME NEW v \in G, Beside(u, v) PROVE v.id <= u.id
      <4>1. PICK f \in FoldersOf(master) : Same(f, v)
        BY <1>8
      <4>2. Beside(e, f) /\ e.id = s.on
        BY <2>2, <3>1, <3>3, <4>1 DEF Same, Beside
      <4>3. f.id <= e.id
        BY <1>3, <4>2
      <4>4. QED BY <3>1, <4>1, <4>3 DEF Same
    <3>4. QED BY <3>2, <3>3
  <2>3. QED BY <1>1, <2>1, <2>2 DEF DoneTree, MakesFolder, G
<1>13. TodoTree'
  BY <1>1 DEF TodoTree
<1>14. \A x \in Todo : ~MakesFolder(x)
  BY <1>1 DEF MakesFolder
<1>15. QED BY <1>8, <1>9, <1>10, <1>12, <1>13, <1>14, FoldersKept DEF G

\* A new folder: no row of the slave, of the page or of the log knows it yet.
LEMMA CommitFolder ==
  ASSUME NEW content, InvOf(content), Family, Commit, NEW s \in Todo, MakesFolder(s)
  PROVE  Family'
<1> DEFINE row == s.row
           F == FoldersOf(master)
           G == FoldersOf(master)'
<1>1. /\ Todo = {s} /\ Done' = {s} /\ Todo' = {} /\ req'.todo = <<>> /\ Len(req'.done) = 1
      /\ master' = Effect(master, s) /\ Done = {} /\ TableName' = TableName
      /\ UNCHANGED <<now, log, slave, pc, aop, at, page, whole, lastId, queue>>
      /\ Fits(s, now, content)
  BY CommitRest
<1>2. /\ s.op = "file" /\ row.st = 0 /\ ~row.trash /\ ~row.hist
      /\ Fitting(s) /\ Unseen(row.id)
      /\ \A e \in F : e.id < row.id /\ (Beside(e, row) => e.trash)
  BY DEF Family, TodoTree, MakesFolder
<1>3. master'.df = master.df \cup {row}
  BY <1>1, <1>2, EffectByRow DEF InvOf, TablesInv
<1>4. G = F \cup {row}
  BY <1>2, <1>3 DEF FoldersOf
<1>5. row.id \in Nat /\ row.id <= now /\ row.parent < row.id /\ Placed(row.parent)
      /\ row.name \in FolderName
  <2>1. row \in RowType /\ row.id <= now
    BY <1>1, <1>2 DEF Fits, Made
  <2>2. QED BY <1>2, <2>1, RowsAre DEF Fitting
<1>f. \A e \in F : e.id \in Nat
  BY RowsAre DEF FoldersOf
<1> HIDE DEF row, F, G
<1>6. Known' = Known \cup {row.id} /\ Known = Ids(F)
  BY <1>4 DEF Known, Ids, F, G
<1>7. (\A p : Placed(p) => Placed(p)') /\ \A e, r : Beside(e, r)' <=> Beside(e, r)
  BY <1>6 DEF Placed
<1>8. /\ \A x \in slave.df : x.id # row.id
      /\ TableName = "df" => \A x \in page : x.id # row.id
      /\ \A l \in log : l.id < row.id /\ ~Mentions(l.sql, row.id)
  BY <1>2 DEF Unseen
<1>9. Tree(master)'
  <2>1. Tree(master)
    BY DEF Family
  <2>2. ASSUME NEW u \in master'.df
        PROVE  /\ u.st = 0 <=> u.name \in FolderName
               /\ u.parent = 0 \/ u.parent \in Ids(G)
               /\ u.parent < u.id
               /\ u.st = 0 => ~u.hist
    <3>1. CASE u = row
      BY <1>2, <1>4, <1>5, <1>6, <3>1 DEF Placed, Ids, row
    <3>2. CASE u \in master.df
      <4>1. Ids(F) \subseteq Ids(G)
        BY <1>4 DEF Ids
      <4>2. QED BY <2>1, <3>2, <4>1 DEF Tree, F
    <3>3. QED BY <1>3, <3>1, <3>2
  <2>3. ASSUME NEW e \in G, NEW r \in G, Beside(e, r), e.id < r.id PROVE e.trash
    <3>1. CASE e = row
      <4>1. ~(row.id < row.id) /\ \A f \in F : ~(row.id < f.id)
        BY <1>2, <1>5, <1>f DEF F
      <4>2. QED BY <1>4, <2>3, <3>1, <4>1
    <3>2. CASE e \in F
      <4>1. CASE r = row
        BY <1>2, <2>3, <3>2, <4>1 DEF F, row
      <4>2. CASE r \in F
        BY <2>1, <2>3, <3>2, <4>2 DEF Tree, F
      <4>3. QED BY <1>4, <4>1, <4>2
    <3>3. QED BY <1>4, <3>1, <3>2
  <2>4. QED BY <2>2, <2>3 DEF Tree, G
<1>10. TodoTree'
  BY <1>1 DEF TodoTree
<1>11. DoneTree'
  <2>1. Fitting(s)'
    <3>1. Placed(row.parent)'
      BY <1>5, <1>7
    <3>2. QED BY <1>1, <1>2, <3>1 DEF Fitting, OnOps, row
  <2>2. \A e \in G : e.id <= row.id
    BY <1>2, <1>4, <1>5, <1>f DEF F, row
  <2>3. row \in master'.df
    BY <1>3
  <2>4. QED BY <1>1, <1>2, <1>8, <2>1, <2>2, <2>3 DEF DoneTree, MakesFolder, G, row
<1>12. LogTree'
  <2>1. LogTree
    BY DEF Family
  <2>2. ASSUME NEW l \in log PROVE Logged(l)'
    <3>1. Logged(l) /\ l.id < row.id /\ ~Mentions(l.sql, row.id)
      BY <1>8, <2>1 DEF LogTree
    <3>2. l.id \in Nat /\ l.id <= now'
      BY <1>1, <3>1 DEF Logged
    <3>3. Fitting(l.sql)'
      <4>1. Fitting(l.sql) /\ (l.sql.op \in OnOps => l.sql.on # row.id)
        BY <3>1 DEF Logged, Mentions
      <4>2. QED BY <1>1, <1>6, <1>7, <4>1 DEF Fitting, OnOps
    <3>4. MakesFolder(l.sql) =>
             /\ l.sql.row.id < l.id
             /\ \E r \in G : r.id = l.sql.row.id /\ Beside(r, l.sql.row)
      BY <1>4, <3>1 DEF Logged, F
    <3>5. (l.sql.op = "file" /\ l.sql.row.st # 0) => l.sql.row.id \notin Known'
      BY <1>6, <3>1 DEF Logged, Mentions
    <3>6. ASSUME NEW e \in G, Trashes(l.sql, e)
          PROVE  e.trash /\ \A r \in G : Beside(e, r) /\ e.id < r.id => l.id < r.id
      <4>1. e # row
        BY <3>1, <3>6 DEF Trashes, Mentions, OnOps
      <4>2. e \in F
        BY <1>4, <4>1
      <4>3. e.trash /\ \A r \in F : Beside(e, r) /\ e.id < r.id => l.id < r.id
        BY <3>1, <3>6, <4>2 DEF Logged, F
      <4>4. QED BY <1>4, <3>1, <4>3
    <3>7. QED BY <3>2, <3>3, <3>4, <3>5, <3>6 DEF Logged, G
  <2>3. ASSUME NEW l \in log, NEW k \in log PROVE Ordered(l, k)'
    <3>1. \A e \in G : Makes(l.sql, e) \/ Trashes(k.sql, e) \/ Makes(k.sql, e) => e \in F
      <4>1. ASSUME NEW m \in log, Makes(m.sql, row) \/ Trashes(m.sql, row) PROVE FALSE
        BY <1>8, <4>1 DEF Makes, Trashes, Mentions, OnOps
      <4>2. QED BY <1>4, <4>1
    <3>2. \A e, r \in F :
             /\ Makes(l.sql, e) /\ Trashes(k.sql, e) => l.id < k.id
             /\ Makes(l.sql, e) /\ Makes(k.sql, r) /\ l.id < k.id => e.id < r.id
      BY <2>1 DEF LogTree, Ordered, F
    <3>3. \A e, r \in G :
             /\ Makes(l.sql, e) /\ Trashes(k.sql, e) => l.id < k.id
             /\ Makes(l.sql, e) /\ Makes(k.sql, r) /\ l.id < k.id => e.id < r.id
      BY <3>1, <3>2
    <3>4. QED BY <3>3 DEF Ordered, G
  <2>4. QED BY <1>1, <2>1, <2>2, <2>3 DEF LogTree
<1>13. SlaveFits(slave)'
  BY <1>1, <1>6, <1>7, <1>8 DEF Family, SlaveFits, Hangs
<1>14. PageTree'
  <2>1. ASSUME NEW r, FromMaster(r), r.id # row.id PROVE FromMaster(r)'
    <3>1. r.st = 0 => \E e \in G : e.id = r.id /\ Beside(e, r)
      BY <1>4, <2>1 DEF FromMaster, F
    <3>2. QED BY <1>1, <1>6, <1>7, <2>1, <3>1 DEF FromMaster, G
  <2>2. ASSUME TableName = "df" PROVE \A p \in page : FromMaster(p)'
    BY <1>8, <2>1, <2>2 DEF Family, PageTree
  <2>3. QED BY <1>1, <2>2 DEF PageTree
<1>15. (pc = "copy" => CopyTree)'
  <2> SUFFICES ASSUME pc = "copy" PROVE CopyTree'
    BY <1>1
  <2>1. CopyTree /\ SectionTree /\ PassedTree
    BY DEF Family, CopyTree
  <2>2. aop \in Nat /\ row.id > aop
    BY <1>1, <2>1 DEF SectionTree, row
  <2>3. SectionTree'
    <3>1. ASSUME NEW l \in log, l.id > aop, NEW u \in G, Makes(l.sql, u) PROVE u.id > aop
      <4>1. u # row
        BY <1>8, <3>1 DEF Makes, Mentions
      <4>2. QED BY <1>4, <2>1, <3>1, <4>1 DEF SectionTree, F
    <3>2. \A x \in Todo' \cup Done' : x.row.id > aop
      BY <1>1, <2>2 DEF row
    <3>3. QED BY <1>1, <2>1, <3>1, <3>2 DEF SectionTree, G
  <2>4. at.table = 1 => at.last \in Nat /\ at.last < aop
    BY <2>1 DEF PassedTree
  <2>5. ~Inserted(row.id)
    BY <1>5, <2>2, <2>4 DEF Inserted
  <2>6. \A i : Inserted(i)' <=> Inserted(i)
    BY <1>1 DEF Inserted
  <2>7. PassedTree'
    BY <1>1, <1>6, <2>1, <2>5, <2>6 DEF PassedTree
  <2>8. ASSUME NEW u \in G
        PROVE  /\ u.id # aop
               /\ u.id > aop => Announced(u)'
               /\ Inserted(u.id)' => Copied(slave, u)'
               /\ u.trash => Reflected(u)'
    <3>1. CASE u = row
      <4>1. Announced(u)'
        BY <1>1, <1>2, <3>1 DEF Announced, Makes, row
      <4>2. u.id # aop
        BY <1>5, <2>2, <3>1
      <4>3. QED BY <1>2, <2>5, <2>6, <3>1, <4>1, <4>2 DEF row
    <3>2. CASE u \in F
      <4>1. /\ u.id # aop
            /\ u.id > aop => Announced(u)
            /\ Inserted(u.id) => Copied(slave, u)
            /\ u.trash => Reflected(u)
        BY <2>1, <3>2 DEF CopyTree, F
      <4>2. /\ Announced(u) => Announced(u)'
            /\ Copied(slave, u)' <=> Copied(slave, u)
            /\ Reflected(u) => Reflected(u)'
        BY <1>1, <2>6 DEF Announced, Copied, Reflected, Trashed
      <4>3. QED BY <2>6, <4>1, <4>2
    <3>3. QED BY <1>4, <3>1, <3>2
  <2>9. QED BY <1>1, <2>3, <2>7, <2>8 DEF CopyTree, G
<1>16. (whole => WholeTree)'
  <2> SUFFICES ASSUME whole PROVE WholeTree'
    BY <1>1
  <2>1. WholeTree
    BY DEF Family
  <2>2. Pending' = Pending \cup {s}
    BY <1>1 DEF Pending, News
  <2>3. \A x : ~Trashes(s, x)
    BY <1>2 DEF Trashes
  <2>4. ASSUME NEW u \in G PROVE Followed(u)'
    <3>1. CASE u = row
      <4>1. \E x \in Pending' : Makes(x, u)
        BY <1>2, <2>2, <3>1 DEF Makes, row
      <4>2. \A x \in slave.df : x.id # u.id
        BY <1>8, <3>1
      <4>3. ~u.trash
        BY <1>2, <3>1 DEF row
      <4>4. \A x \in FoldersOf(slave) : x.id \in Own \/ x.id < u.id
        <5>1. \A x \in FoldersOf(slave) : x.id \in Own \cup Known
          BY DEF Family, SlaveFits, FoldersOf
        <5>2. \A i \in Known : i < row.id
          BY <1>2, <1>6 DEF Ids, F, row
        <5>3. QED BY <3>1, <5>1, <5>2
      <4>5. QED BY <1>1, <4>1, <4>2, <4>3, <4>4 DEF Followed
    <3>2. CASE u \in F
      <4>1. Followed(u)
        BY <2>1, <3>2 DEF WholeTree, F
      <4>2. ~Makes(s, u)
        <5>1. u.id < row.id /\ u.id \in Nat
          BY <1>2, <1>f, <3>2 DEF F, row
        <5>2. QED BY <1>5, <5>1 DEF Makes, row
      <4>3. /\ (\E x \in Pending' : Makes(x, u)) <=> \E x \in Pending : Makes(x, u)
            /\ (\E x \in Pending' : Trashes(x, u)) <=> \E x \in Pending : Trashes(x, u)
        BY <2>2, <2>3, <4>2
      <4>4. QED BY <1>1, <4>1, <4>3 DEF Followed, Trashed
    <3>3. QED BY <1>4, <3>1, <3>2
  <2>5. QED BY <1>1, <2>1, <2>4 DEF WholeTree, G
<1>17. QED BY <1>9, <1>10, <1>11, <1>12, <1>13, <1>14, <1>15, <1>16 DEF Family

LEMMA CommitTree == ASSUME NEW content, InvOf(content), Family, Commit PROVE Family'
  BY CommitPlain, CommitTrash, CommitFolder

-----------------------------------------------------------------------------
(* The rows of the log.                                                    *)

LEMMA HeadOrTail == ASSUME NEW X, NEW q \in Seq(X), q # <<>>
  PROVE  ToSet(q) \subseteq {Head(q)} \cup ToSet(Tail(q))
<1> SUFFICES ASSUME NEW i \in DOMAIN q PROVE q[i] = Head(q) \/ q[i] \in ToSet(Tail(q))
  BY DEF ToSet
<1>1. i \in 1..Len(q) /\ Len(q) \in Nat
  OBVIOUS
<1>2. CASE i = 1
  BY <1>2
<1>3. CASE i # 1
  <2>1. i - 1 \in DOMAIN Tail(q) /\ Tail(q)[i - 1] = q[i]
    BY <1>1, <1>3
  <2>2. QED BY <2>1 DEF ToSet
<1>4. QED BY <1>2, <1>3

LEMMA LogNextTree == ASSUME NEW content, InvOf(content), Family, LogNext PROVE Family'
<1>1. PICK s : s = Head(req.done)
  OBVIOUS
<1>2. PICK l0 : l0 = [id |-> now + 1, sql |-> s]
  OBVIOUS
<1>3. /\ now' = now + 1 /\ now \in Nat /\ log' = log \cup {l0} /\ l0.id = now + 1 /\ l0.sql = s
      /\ UNCHANGED <<master, slave, pc, aop, at, page, whole, lastId, queue>>
      /\ TableName' = TableName
  <2>1. /\ now' = now + 1 /\ log' = log \cup {[id |-> now', sql |-> Head(req.done)]}
        /\ UNCHANGED <<master, slave, pc, aop, at, page, whole, lastId, queue>>
    BY DEF LogNext
  <2>2. log' = log \cup {l0}
    BY <1>1, <1>2, <2>1
  <2>3. QED BY <1>2, <2>1, <2>2, RowsAre DEF TableName
<1>4. /\ s \in Done /\ Done' \subseteq Done /\ Done \subseteq Done' \cup {s} /\ Todo' \subseteq Todo
      /\ Len(req.done) = 1 => Done' = {}
      /\ req.done # <<>>
  <2>1. /\ req.done \in Seq(Statement) /\ req.done # <<>>
        /\ \/ req' = NoRequest /\ Len(req.done) = 1
           \/ req' = [req EXCEPT !.done = Tail(@)]
        /\ req \in [todo : Seq(Statement), done : Seq(Statement), auto : BOOLEAN]
    BY DEF LogNext, InvOf, RequestInv
  <2>2. /\ s \in Done /\ ToSet(Tail(req.done)) \subseteq Done
        /\ Done \subseteq {s} \cup ToSet(Tail(req.done))
        /\ Len(req.done) = 1 => ToSet(Tail(req.done)) = {}
    BY <1>1, <2>1, PartSets, HeadOrTail, AsSet DEF Done
  <2>3. CASE req' = NoRequest /\ Len(req.done) = 1
    <3>1. Done' = {} /\ Todo' = {}
      BY <2>3, AsSet DEF NoRequest, Done, Todo
    <3>2. QED BY <2>1, <2>2, <2>3, <3>1
  <2>4. CASE req' = [req EXCEPT !.done = Tail(@)]
    <3>1. req'.done = Tail(req.done) /\ req'.todo = req.todo
      BY <2>1, <2>4
    <3>2. Done' = ToSet(Tail(req.done)) /\ Todo' = Todo
      BY <3>1 DEF Done, Todo
    <3>3. QED BY <2>1, <2>2, <3>2
  <2>5. QED BY <2>1, <2>3, <2>4
<1>5. /\ Known' = Known /\ FoldersOf(master)' = FoldersOf(master)
      /\ \A p : Placed(p)' <=> Placed(p)
  BY <1>3 DEF Known, FoldersOf, Placed
<1>6. \A x : Fitting(x) => Fitting(x)'
  BY <1>3, <1>5 DEF Fitting
<1>7. Tree(master)'
  BY <1>3 DEF Family, Tree, FoldersOf
<1>8. TodoTree'
  <2>1. ASSUME NEW x \in Todo' PROVE Fitting(x)' /\ ~MakesFolder(x) /\ x.op # "trash"
    BY <1>4, <1>6, <2>1 DEF Family, TodoTree
  <2>2. QED BY <2>1 DEF TodoTree
<1>9. DoneTree'
  <2>1. ASSUME NEW x \in Done' PROVE Fitting(x)' /\ ~MakesFolder(x) /\ x.op # "trash"
    BY <1>4, <1>6, <2>1 DEF Family, DoneTree
  <2>2. ASSUME NEW x \in Done', x.op = "file", x.row.st # 0 PROVE x.row.id \notin Known'
    BY <1>4, <1>5, <2>2 DEF Family, DoneTree
  <2>3. QED BY <2>1, <2>2 DEF DoneTree
<1> DEFINE F == FoldersOf(master)
<1>10. /\ Fitting(s)
       /\ MakesFolder(s) =>
             /\ s.row \in F /\ s.row.id <= now
             /\ \A e \in F : e.id <= s.row.id
             /\ \A l \in log : ~Mentions(l.sql, s.row.id)
       /\ (s.op = "file" /\ s.row.st # 0) => s.row.id \notin Known
       /\ \A e \in F : Trashes(s, e) => e.trash /\ \A r \in F : Beside(e, r) => r.id <= e.id
  <2>1. Fitting(s) /\ (s.op = "file" /\ s.row.st # 0 => s.row.id \notin Known)
    BY <1>4 DEF Family, DoneTree
  <2>2. ASSUME MakesFolder(s)
        PROVE  /\ s.row \in F /\ s.row.id <= now
               /\ \A e \in F : e.id <= s.row.id
               /\ \A l \in log : ~Mentions(l.sql, s.row.id)
    <3>1. /\ s.row \in master.df /\ \A e \in F : e.id <= s.row.id
          /\ \A l \in log : ~Mentions(l.sql, s.row.id)
      BY <1>4, <2>2 DEF Family, DoneTree
    <3>2. s.row.id <= now
      BY <3>1, RowsAre
    <3>3. QED BY <2>2, <3>1, <3>2 DEF MakesFolder, FoldersOf
  <2>3. ASSUME NEW e \in F, Trashes(s, e)
        PROVE  e.trash /\ \A r \in F : Beside(e, r) => r.id <= e.id
    BY <1>4, <2>3 DEF Family, DoneTree, Trashes
  <2>4. QED BY <2>1, <2>2, <2>3
<1>f. \A e \in F : e.id \in Nat
  BY RowsAre DEF FoldersOf
<1>11. \A l \in log : l.id \in Nat /\ l.id <= now /\ Logged(l)
  BY DEF Family, LogTree, Logged
<1> HIDE DEF F
<1>12. ASSUME NEW e \in F, Makes(s, e) PROVE MakesFolder(s) /\ s.row.id = e.id
  <2>1. e.st = 0
    BY DEF F, FoldersOf
  <2>2. QED BY <1>12, <2>1 DEF Makes, MakesFolder
<1>13. LogTree'
  <2>1. ASSUME NEW l \in log PROVE Logged(l)'
    <3>1. Logged(l) /\ l.id \in Nat /\ l.id <= now'
      BY <1>3, <1>11
    <3>2. QED BY <1>5, <1>6, <3>1 DEF Logged
  <2>2. Logged(l0)'
    <3>1. l0.id \in Nat /\ l0.id <= now' /\ Fitting(l0.sql)'
      <4>1. Fitting(s)'
        BY <1>6, <1>10
      <4>2. QED BY <1>3, <4>1
    <3>2. MakesFolder(s) => s.row.id < l0.id
      <4>1. MakesFolder(s) => s.row.id \in Nat
        BY <1>f, <1>10
      <4>2. QED BY <1>3, <1>10, <4>1
    <3>3. MakesFolder(s) => \E r \in F : r.id = s.row.id /\ Beside(r, s.row)
      BY <1>10 DEF Beside
    <3>4. \A e \in F : Trashes(s, e) =>
             e.trash /\ \A r \in F : Beside(e, r) /\ e.id < r.id => l0.id < r.id
      <4>1. \A e, r \in F : ~(r.id <= e.id /\ e.id < r.id)
        BY <1>f
      <4>2. QED BY <1>10, <4>1
    <3>5. QED BY <1>3, <1>5, <1>10, <3>1, <3>2, <3>3, <3>4 DEF Logged, F
  <2>3. ASSUME NEW l \in log', NEW k \in log', l.id = k.id PROVE l = k
    <3>1. \A i \in Nat : i <= now => i # now + 1
      BY <1>3
    <3>2. \A m, j \in log : m.id = j.id => m = j
      BY DEF Family, LogTree
    <3>3. QED BY <1>3, <1>11, <2>3, <3>1, <3>2
  <2>4. ASSUME NEW l \in log', NEW k \in log', NEW e \in F, NEW r \in F
        PROVE  /\ Makes(l.sql, e) /\ Trashes(k.sql, e) => l.id < k.id
               /\ Makes(l.sql, e) /\ Makes(k.sql, r) /\ l.id < k.id => e.id < r.id
    <3>1. CASE l \in log /\ k \in log
      BY <3>1 DEF Family, LogTree, Ordered, F
    <3>2. CASE l = l0
      <4>1. ASSUME Makes(s, e), Trashes(k.sql, e) PROVE FALSE
        <5>1. k \in log
          BY <1>3, <4>1 DEF Makes, Trashes
        <5>2. Mentions(k.sql, s.row.id)
          BY <1>12, <4>1 DEF Trashes, Mentions, OnOps
        <5>3. QED BY <1>10, <1>12, <4>1, <5>1, <5>2
      <4>2. ~(l.id < k.id)
        BY <1>3, <1>11, <3>2
      <4>3. QED BY <1>3, <3>2, <4>1, <4>2
    <3>3. CASE l \in log /\ k = l0
      <4>1. l.id < k.id
        BY <1>3, <1>11, <3>3
      <4>2. ASSUME Makes(l.sql, e), Makes(s, r) PROVE e.id < r.id
        <5>1. MakesFolder(s) /\ s.row.id = r.id
          BY <1>12, <4>2
        <5>2. e.id # r.id
          <6>1. l.sql.op = "file" /\ l.sql.row.id = e.id /\ ~Mentions(l.sql, r.id)
            BY <1>10, <3>3, <4>2, <5>1 DEF Makes
          <6>2. QED BY <6>1 DEF Mentions
        <5>3. e.id <= r.id
          BY <1>10, <5>1
        <5>4. QED BY <1>f, <5>2, <5>3
      <4>3. QED BY <1>3, <3>3, <4>1, <4>2
    <3>4. QED BY <1>3, <3>1, <3>2, <3>3
  <2>5. ASSUME NEW l \in log', NEW k \in log' PROVE Ordered(l, k)'
    BY <1>5, <2>4 DEF Ordered, F
  <2>6. queue' \subseteq log'
    BY <1>3 DEF Family, LogTree
  <2>7. \A l \in log' : Logged(l)'
    BY <1>3, <2>1, <2>2
  <2>8. QED BY <2>3, <2>5, <2>6, <2>7 DEF LogTree
<1>14. SlaveFits(slave)' /\ PageTree'
  <2>1. SlaveFits(slave)'
    BY <1>3, <1>5 DEF Family, SlaveFits, Hangs
  <2>2. ASSUME NEW r, FromMaster(r) PROVE FromMaster(r)'
    BY <1>3, <1>5, <2>2 DEF FromMaster
  <2>3. ASSUME TableName = "df" PROVE \A p \in page : FromMaster(p)'
    BY <2>2, <2>3 DEF Family, PageTree
  <2>4. QED BY <1>3, <2>1, <2>3 DEF PageTree
<1>15. (pc = "copy" => CopyTree)'
  <2> SUFFICES ASSUME pc = "copy" PROVE CopyTree'
    BY <1>3
  <2>1. CopyTree /\ SectionTree
    BY DEF Family, CopyTree
  <2>2. aop \in Nat /\ aop < l0.id /\ aop <= now'
    BY <1>3, <2>1 DEF SectionTree
  <2>3. SectionTree'
    <3>1. ASSUME NEW e \in F, Makes(s, e) PROVE e.id > aop
      BY <1>4, <1>12, <2>1, <3>1 DEF SectionTree
    <3>2. ASSUME NEW l \in log', l.id > aop, NEW e \in F, Makes(l.sql, e) PROVE e.id > aop
      BY <1>3, <2>1, <3>1, <3>2 DEF SectionTree, F
    <3>3. \A l \in log' : l.id # aop
      BY <1>3, <2>1, <2>2 DEF SectionTree
    <3>4. QED BY <1>3, <1>4, <1>5, <2>1, <2>2, <3>2, <3>3 DEF SectionTree, F
  <2>4. PassedTree'
    BY <1>3, <1>5, <2>1 DEF CopyTree, PassedTree, Inserted
  <2>5. \A e : /\ Announced(e) => Announced(e)'
               /\ Inserted(e.id)' <=> Inserted(e.id)
               /\ Copied(slave, e)' <=> Copied(slave, e)
    BY <1>3, <1>4, <2>2 DEF Announced, Inserted, Copied, Image
  <2>6. ASSUME NEW e, Reflected(e) PROVE Reflected(e)'
    <3>1. l0 \in log' /\ l0.id > aop /\ l0.sql = s
      BY <1>3, <2>2
    <3>2. CASE \E x \in Done : Trashes(x, e)
      BY <1>3, <1>4, <3>1, <3>2 DEF Reflected
    <3>3. CASE \E l \in log : l.id > aop /\ Trashes(l.sql, e)
      BY <1>3, <3>3 DEF Reflected
    <3>4. CASE /\ e.id < aop
               /\ at.table = 1 => \A p \in page : p.id = e.id => p.trash
               /\ Inserted(e.id) => Trashed(slave, e)
      BY <1>3, <2>5, <3>4 DEF Reflected, Trashed
    <3>5. QED BY <2>6, <3>2, <3>3, <3>4 DEF Reflected
  <2>7. QED BY <1>3, <1>5, <2>1, <2>3, <2>4, <2>5, <2>6 DEF CopyTree
<1>16. (whole => WholeTree)'
  <2> SUFFICES ASSUME whole PROVE WholeTree'
    BY <1>3
  <2>1. WholeTree /\ lastId \in Nat /\ lastId <= now
    BY DEF Family, WholeTree
  <2>2. News' = News \cup {l0}
    BY <1>3, <2>1 DEF News
  <2>3. Pending' = Pending
    <3>1. Pending' = {l.sql : l \in queue \cup News \cup {l0}} \cup Done'
      BY <1>3, <2>2 DEF Pending
    <3>2. Pending' = {l.sql : l \in queue \cup News} \cup {s} \cup Done'
      BY <1>3, <3>1
    <3>3. QED BY <1>4, <3>2 DEF Pending
  <2>4. \A e : Followed(e)' <=> Followed(e)
    BY <1>3, <2>3 DEF Followed, Trashed
  <2>5. QED BY <1>3, <1>5, <2>1, <2>4 DEF WholeTree
<1>17. QED BY <1>7, <1>8, <1>9, <1>13, <1>14, <1>15, <1>16 DEF Family

-----------------------------------------------------------------------------
(* Pages.                                                                  *)

\* A page holds the rows up to the last id of it.
LEMMA FirstRows ==
  ASSUME NEW n \in Nat, NEW S, S # {}, \A r \in S : r.id \in 1..n,
         \A r, s \in S : r.id = s.id => r = s,
         NEW m, m = Max(Ids(FirstOf(S)))
  PROVE  m \in Ids(S) /\ FirstOf(S) = {r \in S : r.id <= m}
<1>1. IsFiniteSet(S)
  <2> DEFINE f == [r \in S |-> r.id]
  <2>1. IsFiniteSet(1..n)
    <3>1. 1 \in Int /\ n \in Int
      OBVIOUS
    <3>2. QED BY <3>1, FS_Interval
  <2>2. f \in Injection(S, 1..n)
    BY DEF Injection, IsInjective
  <2> HIDE DEF f
  <2>3. QED BY <2>1, <2>2, FS_Injection
<1> DEFINE Below(r) == {s \in S : s.id < r.id}
<1>2. \A r \in S : IsFiniteSet(Below(r)) /\ Cardinality(Below(r)) \in Nat
  <2>1. \A r \in S : Below(r) \in SUBSET S
    OBVIOUS
  <2> HIDE DEF Below
  <2>2. QED BY <1>1, <2>1, FS_Subset, FS_CardinalityType
<1>3. ASSUME NEW r \in S, NEW s \in S, r.id <= s.id
      PROVE  Cardinality(Below(r)) <= Cardinality(Below(s))
  <2>1. Below(r) \in SUBSET Below(s)
    <3>1. \A x \in S : x.id \in Nat
      OBVIOUS
    <3>2. \A x \in S : x.id < r.id => x.id < s.id
      BY <1>3, <3>1
    <3>3. QED BY <3>2
  <2> HIDE DEF Below
  <2>2. QED BY <1>2, <2>1, FS_Subset
<1>4. FirstOf(S) = {r \in S : Cardinality(Below(r)) < Page}
  BY DEF FirstOf
<1>5. PICK r0 \in S : \A r \in S : r0.id <= r.id
  <2>1. Ids(S) # {} /\ Ids(S) \in SUBSET Nat
    BY DEF Ids
  <2>2. PICK i \in Ids(S) : \A j \in Ids(S) : i <= j
    BY <2>1, NatHasLeast
  <2>3. QED BY <2>2 DEF Ids
<1>6. r0 \in FirstOf(S)
  <2>1. Below(r0) = {}
    <3>1. \A x \in S : x.id \in Nat
      OBVIOUS
    <3>2. \A x \in S : ~(x.id < r0.id)
      BY <1>5, <3>1
    <3>3. QED BY <3>2
  <2> HIDE DEF Below
  <2>2. Cardinality(Below(r0)) = 0
    BY <2>1, FS_EmptySet
  <2>3. QED BY <1>4, <2>2, PageAssumption
<1> HIDE DEF Below
<1> DEFINE I == Ids(FirstOf(S))
<1>7. I # {} /\ I \subseteq 1..n
  <2>1. FirstOf(S) \subseteq S
    BY <1>4
  <2>2. QED BY <1>6, <2>1 DEF Ids
<1>8. m \in I /\ \A i \in I : m >= i
  <2> HIDE DEF I
  <2>1. PICK j \in {n - i : i \in I} : \A k \in {n - i : i \in I} : j <= k
    <3>1. {n - i : i \in I} # {} /\ {n - i : i \in I} \in SUBSET Nat
      <4>1. \A i \in 1..n : n - i \in Nat
        OBVIOUS
      <4>2. \A i \in I : n - i \in Nat
        BY <1>7, <4>1
      <4>3. {n - i : i \in I} \in SUBSET Nat
        BY ONLY <4>2
      <4>4. PICK i \in I : TRUE
        BY <1>7
      <4>5. n - i \in {n - k : k \in I}
        OBVIOUS
      <4>6. QED BY <4>3, <4>5
    <3>2. QED BY <3>1, NatHasLeast
  <2>2. PICK x \in I : j = n - x
    BY <2>1
  <2>3. \A i \in I : x >= i
    <3> SUFFICES ASSUME NEW i \in I PROVE x >= i
      OBVIOUS
    <3>1. n - x <= n - i
      BY <2>1, <2>2
    <3>2. i \in Nat /\ x \in Nat
      BY <1>7
    <3>3. QED BY <3>1, <3>2
  <2>4. m = CHOOSE y \in I : \A i \in I : y >= i
    BY DEF Max, I
  <2>5. QED BY <2>3, <2>4
<1>9. PICK q \in FirstOf(S) : q.id = m
  BY <1>8 DEF Ids
<1>10. q \in S /\ Cardinality(Below(q)) < Page
  BY <1>4, <1>9
<1>11. ASSUME NEW r \in S, r.id <= m PROVE r \in FirstOf(S)
  <2>1. Cardinality(Below(r)) <= Cardinality(Below(q))
    BY <1>3, <1>9, <1>10, <1>11
  <2>2. Cardinality(Below(r)) \in Nat /\ Cardinality(Below(q)) \in Nat /\ Page \in Nat
    BY <1>2, <1>10, NumberAssumption
  <2>3. Cardinality(Below(r)) < Page
    BY <1>10, <2>1, <2>2
  <2>4. QED BY <1>4, <2>3
<1>12. \A r \in FirstOf(S) : r \in S /\ r.id <= m
  <2>1. \A r \in FirstOf(S) : r \in S /\ r.id \in I
    BY DEF FirstOf, Ids
  <2>2. \A r \in S : r.id \in Nat
    OBVIOUS
  <2> HIDE DEF I
  <2>3. QED BY <1>7, <1>8, <2>1, <2>2
<1>13. QED BY <1>9, <1>10, <1>11, <1>12 DEF Ids

\* What a step of the slave leaves alone.
LEMMA MastersRest ==
  ASSUME NEW content, InvOf(content), Family,
         UNCHANGED <<now, masters>>, queue' \subseteq log,
         \A s \in Todo : MakesFolder(s) /\ Unseen(s.row.id) => Unseen(s.row.id)'
  PROVE  /\ Tree(master)' /\ TodoTree' /\ DoneTree' /\ LogTree'
         /\ FoldersOf(master)' = FoldersOf(master) /\ Known' = Known
         /\ Todo' = Todo /\ Done' = Done
         /\ \A p : Placed(p)' <=> Placed(p)
         /\ \A r : FromMaster(r) => FromMaster(r)'
<1>1. now' = now /\ master' = master /\ log' = log /\ req' = req
  BY DEF masters
<1>2. /\ FoldersOf(master)' = FoldersOf(master) /\ Known' = Known
      /\ Todo' = Todo /\ Done' = Done /\ \A p : Placed(p)' <=> Placed(p)
  BY <1>1 DEF FoldersOf, Known, Todo, Done, Placed
<1>3. \A s : Fitting(s)' <=> Fitting(s)
  BY <1>1, <1>2 DEF Fitting
<1>4. Tree(master)' /\ DoneTree'
  BY <1>1, <1>2, <1>3 DEF Family, Tree, FoldersOf, DoneTree
<1>5. TodoTree'
  BY <1>1, <1>2, <1>3 DEF Family, TodoTree
<1>6. LogTree'
  <2>1. \A l : Logged(l) => Logged(l)'
    BY <1>1, <1>2, <1>3 DEF Logged
  <2>2. \A l, k : Ordered(l, k) => Ordered(l, k)'
    BY <1>2 DEF Ordered
  <2>3. QED BY <1>1, <2>1, <2>2 DEF Family, LogTree
<1>7. \A r : FromMaster(r) => FromMaster(r)'
  BY <1>1, <1>2 DEF FromMaster
<1>8. QED BY <1>2, <1>4, <1>5, <1>6, <1>7

LEMMA SyncAllTree ==
  ASSUME NEW content, InvOf(content), Family, SyncAll, "section" \in Calm
  PROVE  Family'
<1>1. /\ req = NoRequest /\ now' = now + 1 /\ now \in Nat /\ aop' = now'
      /\ pc' = "copy" /\ at' = [table |-> 1, last |-> 0] /\ page' = {} /\ whole' = FALSE
      /\ UNCHANGED <<master, log, req, slave, lastId, queue>>
  BY RowsAre DEF SyncAll, masters
<1>2. /\ Known' = Known /\ FoldersOf(master)' = FoldersOf(master)
      /\ \A p : Placed(p)' <=> Placed(p)
  BY <1>1 DEF Known, FoldersOf, Placed
<1>3. Todo' = {} /\ Done' = {}
  BY <1>1, AsSet DEF NoRequest, Todo, Done
<1>4. Tree(master)' /\ TodoTree' /\ DoneTree' /\ PageTree'
  BY <1>1, <1>3 DEF Family, Tree, FoldersOf, TodoTree, DoneTree, PageTree
<1>5. \A s : Fitting(s) => Fitting(s)'
  BY <1>1, <1>2 DEF Fitting
<1>6. LogTree'
  <2>1. \A l : Logged(l) => Logged(l)'
    BY <1>1, <1>2, <1>5 DEF Logged
  <2>2. \A l, k : Ordered(l, k) => Ordered(l, k)'
    BY <1>2 DEF Ordered
  <2>3. QED BY <1>1, <2>1, <2>2 DEF Family, LogTree
<1>7. SlaveFits(slave)'
  BY <1>1, <1>2 DEF Family, SlaveFits, Hangs
<1>8. CopyTree'
  <2>1. \A l \in log : l.id \in Nat /\ l.id <= now
    BY DEF Family, LogTree, Logged
  <2>2. \A s \in slave.df : s.id \in Nat /\ s.id <= now
    BY DEF Family, SlaveFits
  <2>3. SectionTree'
    <3>1. \A i \in Nat : i <= now => i < aop' /\ i # aop' /\ ~(i > aop')
      BY <1>1
    <3>2. aop' \in Nat /\ aop' <= now' /\ \A l \in queue : l \in log
      BY <1>1 DEF Family, LogTree
    <3>3. QED BY <1>1, <1>3, <2>1, <2>2, <3>1, <3>2 DEF SectionTree
  <2>4. at'.table = 1 /\ at'.last = 0 /\ page' = {}
    BY <1>1
  <2>5. PassedTree'
    BY <1>1, <2>4 DEF PassedTree
  <2>6. ASSUME NEW e \in FoldersOf(master)
        PROVE  /\ e.id # aop'
               /\ ~(e.id > aop')
               /\ ~Inserted(e.id)'
               /\ Reflected(e)'
    <3>1. e.id \in 1..now
      BY RowsAre DEF FoldersOf
    <3>2. ~Inserted(e.id)'
      BY <2>4, <3>1 DEF Inserted
    <3>3. Reflected(e)'
      BY <1>1, <2>4, <3>1, <3>2 DEF Reflected
    <3>4. QED BY <1>1, <3>1, <3>2, <3>3
  <2>7. QED BY <1>2, <2>3, <2>5, <2>6 DEF CopyTree
<1>9. QED BY <1>1, <1>4, <1>6, <1>7, <1>8 DEF Family

LEMMA GetTableDataTree == ASSUME NEW content, InvOf(content), Family, GetTableData PROVE Family'
<1>1. /\ pc = "copy" /\ page = {} /\ Rest # {} /\ page' = FirstOf(Rest)
      /\ at' = [at EXCEPT !.last = Max(Ids(page'))]
      /\ UNCHANGED <<now, masters, slave, pc, aop, whole, lastId, queue>>
      /\ UNCHANGED <<master, log, req>>
  BY DEF GetTableData, masters
<1>2. /\ at.table \in 1..3 /\ at'.table = at.table /\ at'.last = Max(Ids(page'))
      /\ TableName' = TableName /\ (TableName = "df" <=> at.table = 1)
  <2>1. at = [table |-> at.table, last |-> at.last] /\ at.table \in 1..3
    BY DEF InvOf, CopyInv
  <2>2. at'.table = at.table /\ at'.last = Max(Ids(page'))
    BY <1>1, <2>1
  <2>3. TableName' = TableName
    BY <2>2 DEF TableName
  <2>4. TableName = "df" <=> at.table = 1
    BY <2>1, TableNames DEF TableName
  <2>5. QED BY <2>1, <2>2, <2>3, <2>4
<1>3. CopyTree /\ SectionTree /\ PassedTree
  BY <1>1 DEF Family, CopyTree
<1>4. ASSUME at.table = 1
      PROVE  /\ page' \subseteq master.df
             /\ at'.last \in Nat /\ at'.last < aop
             /\ \A p \in page' : p.id <= at'.last /\ p.id > at.last /\ p.id \in Nat
             /\ \A r \in master.df : r.id \in Nat /\
                   (r.id <= at'.last => r.id <= at.last \/ r \in page')
  <2>1. Rest = {r \in master.df : r.id > at.last /\ r.id < aop}
    BY <1>2, <1>4 DEF Rest
  <2>2. /\ \A r \in Rest : r.id \in 1..now
        /\ \A r, s \in Rest : r.id = s.id => r = s
        /\ \A r \in master.df : r.id \in Nat
    BY <2>1, RowsAre
  <2>3. now \in Nat
    BY RowsAre
  <2>4. at'.last \in Ids(Rest) /\ page' = {r \in Rest : r.id <= at'.last}
    BY <1>1, <1>2, <2>2, <2>3, FirstRows
  <2>5. at.last \in Nat /\ aop \in Nat
    BY <1>3, <1>4 DEF PassedTree, SectionTree
  <2>6. PICK q \in Rest : at'.last = q.id
    BY <2>4 DEF Ids
  <2>7. at'.last \in Nat /\ at'.last < aop /\ at.last < at'.last
    BY <2>1, <2>2, <2>5, <2>6
  <2>8. ASSUME NEW r \in master.df, r.id <= at'.last PROVE r.id <= at.last \/ r \in page'
    <3>1. r.id \in Nat
      BY <2>2
    <3>2. r.id < aop
      BY <2>5, <2>7, <2>8, <3>1
    <3>3. r.id > at.last => r \in Rest
      BY <2>1, <3>2
    <3>4. QED BY <2>4, <2>5, <2>8, <3>1, <3>3
  <2>9. QED BY <2>1, <2>2, <2>4, <2>7, <2>8
<1>5. /\ Tree(master)' /\ TodoTree' /\ DoneTree' /\ LogTree'
      /\ FoldersOf(master)' = FoldersOf(master) /\ Known' = Known
      /\ Todo' = Todo /\ Done' = Done
      /\ \A p : Placed(p)' <=> Placed(p)
      /\ \A r : FromMaster(r) => FromMaster(r)'
  <2>1. ASSUME NEW s \in Todo, MakesFolder(s), Unseen(s.row.id) PROVE Unseen(s.row.id)'
    <3>1. s.row.id \notin Ids(master.df)
      <4>1. req.todo \in Seq(Statement) /\ s \in ToSet(req.todo)
        BY DEF Todo, InvOf, RequestInv
      <4>2. PICK i \in 1..Len(req.todo) : s = req.todo[i]
        BY <4>1, PartSets
      <4>3. QED BY <2>1, <4>2 DEF InvOf, RequestInv, MakesFolder
    <3>2. PICK i : i = s.row.id
      OBVIOUS
    <3>3. TableName = "df" => \A x \in page' : x.id # i
      BY <1>2, <1>4, <3>1, <3>2 DEF Ids
    <3>4. Unseen(i)'
      BY <1>1, <1>2, <2>1, <3>2, <3>3 DEF Unseen
    <3>5. s.row.id = i
      BY <3>2
    <3>6. QED BY <3>4, <3>5
  <2>2. queue' \subseteq log
    BY <1>1 DEF Family, LogTree
  <2>3. QED BY <1>1, <2>1, <2>2, MastersRest
<1>6. SlaveFits(slave)'
  BY <1>1, <1>5 DEF Family, SlaveFits, Hangs
<1>7. PageTree'
  <2> SUFFICES ASSUME TableName = "df", NEW r \in page' PROVE FromMaster(r)'
    BY <1>2 DEF PageTree
  <2>1. r \in master.df
    BY <1>2, <1>4
  <2>2. r.id \in Nat /\ r.id <= now /\ r.id \notin Own
    BY <2>1, RowsAre
  <2>3. Placed(r.parent)
    BY <2>1 DEF Family, Tree, Placed, Known
  <2>4. r.st # 0 => r.id \notin Known
    <3>1. \A x \in master.df : x.id = r.id => x = r
      BY <2>1, RowsAre
    <3>2. QED BY <3>1 DEF Known, FoldersOf, Ids
  <2>5. r.st = 0 => \E e \in FoldersOf(master) : e.id = r.id /\ Beside(e, r)
    BY <2>1 DEF FoldersOf, Beside
  <2>6. FromMaster(r)
    BY <2>2, <2>3, <2>4, <2>5 DEF FromMaster
  <2>7. QED BY <1>5, <2>6
<1>8. CopyTree'
  <2>1. SectionTree'
    BY <1>1, <1>3, <1>5 DEF SectionTree
  <2>2. ASSUME NEW i \in Known, Inserted(i)'
        PROVE  Inserted(i) /\ (at.table = 1 => i <= at.last)
    <3>1. CASE at.table = 1
      <4>1. PICK e \in master.df : e.id = i
        BY DEF Known, FoldersOf, Ids
      <4>2. i <= at'.last /\ i \notin Ids(page')
        BY <1>2, <2>2, <3>1 DEF Inserted
      <4>3. e \notin page'
        BY <4>1, <4>2 DEF Ids
      <4>4. i <= at.last
        BY <1>4, <3>1, <4>1, <4>2, <4>3
      <4>5. QED BY <1>1, <3>1, <4>4 DEF Inserted, Ids
    <3>2. CASE at.table # 1
      BY <1>1, <1>2, <2>2, <3>2 DEF Inserted
    <3>3. QED BY <3>1, <3>2
  <2>3. PassedTree'
    <3> SUFFICES ASSUME at.table = 1
        PROVE  /\ at'.last \in Nat /\ at'.last < aop
               /\ \A p \in page' : p.id <= at'.last /\ \A i \in Known : Inserted(i)' => i < p.id
      BY <1>1, <1>2, <1>5 DEF PassedTree
    <3>1. ASSUME NEW p \in page', NEW i \in Known, Inserted(i)' PROVE i < p.id
      <4>1. i <= at.last /\ i \in Nat
        BY <2>2, <3>1, RowsAre
      <4>2. p.id > at.last /\ p.id \in Nat /\ at.last \in Nat
        BY <1>3, <1>4 DEF PassedTree
      <4>3. QED BY <4>1, <4>2
    <3>2. QED BY <1>4, <3>1
  <2>4. ASSUME NEW e \in FoldersOf(master)
        PROVE  /\ e.id # aop
               /\ e.id > aop => Announced(e)'
               /\ Inserted(e.id)' => Copied(slave, e)'
               /\ e.trash => Reflected(e)'
    <3>1. /\ e.id # aop
          /\ e.id > aop => Announced(e)
          /\ Inserted(e.id) => Copied(slave, e)
          /\ e.trash => Reflected(e)
      BY <1>3 DEF CopyTree
    <3>2. Inserted(e.id)' => Inserted(e.id)
      BY <2>2 DEF Known, Ids
    <3>3. (Announced(e)' <=> Announced(e)) /\ (Copied(slave, e)' <=> Copied(slave, e))
      BY <1>1, <1>5 DEF Announced, Copied
    <3>4. ASSUME e.trash, Reflected(e) PROVE Reflected(e)'
      <4>1. at.table = 1 => \A p \in page' : p.id = e.id => p.trash
        <5> SUFFICES ASSUME at.table = 1, NEW p \in page', p.id = e.id PROVE p.trash
          OBVIOUS
        <5>1. p \in master.df /\ e \in master.df
          BY <1>4 DEF FoldersOf
        <5>2. p = e
          BY <5>1, RowsAre
        <5>3. QED BY <3>4, <5>2
      <4>2. QED BY <1>1, <1>2, <1>5, <3>2, <3>4, <4>1 DEF Reflected, Trashed
    <3>5. QED BY <3>1, <3>2, <3>3, <3>4
  <2>5. QED BY <1>1, <1>5, <2>1, <2>3, <2>4 DEF CopyTree
<1>9. ~whole'
  BY <1>1, <1>3 DEF SectionTree
<1>10. QED BY <1>5, <1>6, <1>7, <1>8, <1>9 DEF Family

LEMMA NextTableTree == ASSUME NEW content, InvOf(content), Family, NextTable PROVE Family'
<1>1. /\ pc = "copy" /\ page = {} /\ Rest = {} /\ at.table < 3
      /\ at' = [table |-> at.table + 1, last |-> 0]
      /\ UNCHANGED <<now, masters, slave, pc, aop, page, whole, lastId, queue>>
      /\ UNCHANGED <<master, log, req>>
  BY DEF NextTable, masters, Tables
<1>2. at.table \in 1..3 /\ at'.table \in 2..3 /\ TableName' # "df" /\ page' = {}
  <2>1. at.table \in 1..3 /\ at'.table \in 2..3
    BY <1>1 DEF InvOf, CopyInv
  <2>2. QED BY <1>1, <2>1, TableNames DEF TableName
<1>3. CopyTree /\ SectionTree /\ PassedTree
  BY <1>1 DEF Family, CopyTree
<1>4. /\ Tree(master)' /\ TodoTree' /\ DoneTree' /\ LogTree'
      /\ FoldersOf(master)' = FoldersOf(master) /\ Known' = Known
      /\ Todo' = Todo /\ Done' = Done
      /\ \A p : Placed(p)' <=> Placed(p)
  <2>1. ASSUME NEW i, Unseen(i) PROVE Unseen(i)'
    BY <1>1, <1>2, <2>1 DEF Unseen
  <2>2. \A s \in Todo : MakesFolder(s) /\ Unseen(s.row.id) => Unseen(s.row.id)'
    <3> SUFFICES ASSUME NEW s \in Todo, Unseen(s.row.id) PROVE Unseen(s.row.id)'
      OBVIOUS
    <3>1. PICK i : i = s.row.id
      OBVIOUS
    <3>2. Unseen(i)'
      BY <2>1, <3>1
    <3>3. QED BY <1>1, <1>2, <3>1, <3>2 DEF Unseen
  <2>3. queue' \subseteq log
    BY <1>1 DEF Family, LogTree
  <2>4. QED BY <1>1, <2>2, <2>3, MastersRest
<1>5. SlaveFits(slave)' /\ PageTree'
  BY <1>1, <1>2, <1>4 DEF Family, SlaveFits, Hangs, PageTree
<1>6. CopyTree'
  <2>1. SectionTree'
    BY <1>1, <1>3, <1>4 DEF SectionTree
  <2>2. PassedTree'
    BY <1>2 DEF PassedTree
  <2>3. ASSUME NEW i \in Known, Inserted(i)' PROVE Inserted(i)
    <3>1. i < aop
      BY <1>1, <1>2, <2>3 DEF Inserted
    <3>2. CASE at.table = 1
      <4>1. PICK e \in master.df : e.id = i
        BY DEF Known, FoldersOf, Ids
      <4>2. Rest = {r \in master.df : r.id > at.last /\ r.id < aop}
        BY <3>2 DEF Rest, TableName, Tables
      <4>3. ~(i > at.last)
        BY <1>1, <3>1, <4>1, <4>2
      <4>4. i \in Nat /\ at.last \in Nat
        BY <1>3, <3>2, <4>1, RowsAre DEF PassedTree
      <4>5. QED BY <1>1, <3>2, <4>3, <4>4 DEF Inserted, Ids
    <3>3. CASE at.table # 1
      BY <3>1, <3>3 DEF Inserted
    <3>4. QED BY <3>2, <3>3
  <2>4. ASSUME NEW e \in FoldersOf(master)
        PROVE  /\ e.id # aop
               /\ e.id > aop => Announced(e)'
               /\ Inserted(e.id)' => Copied(slave, e)'
               /\ e.trash => Reflected(e)'
    <3>1. /\ e.id # aop
          /\ e.id > aop => Announced(e)
          /\ Inserted(e.id) => Copied(slave, e)
          /\ e.trash => Reflected(e)
      BY <1>3 DEF CopyTree
    <3>2. Inserted(e.id)' => Inserted(e.id)
      BY <2>3 DEF Known, Ids
    <3>3. (Announced(e)' <=> Announced(e)) /\ (Copied(slave, e)' <=> Copied(slave, e))
      BY <1>1, <1>4 DEF Announced, Copied
    <3>4. ASSUME Reflected(e) PROVE Reflected(e)'
      BY <1>1, <1>2, <1>4, <3>2, <3>4 DEF Reflected, Trashed
    <3>5. QED BY <3>1, <3>2, <3>3, <3>4
  <2>5. QED BY <1>1, <1>4, <2>1, <2>2, <2>4 DEF CopyTree
<1>7. ~whole'
  BY <1>1, <1>3 DEF SectionTree
<1>8. QED BY <1>4, <1>5, <1>6, <1>7 DEF Family

\* Steps that leave the rows of the slave alone.
LEMMA SlaveRests ==
  ASSUME NEW content, InvOf(content), Family,
         UNCHANGED <<now, masters, slave, at>>, page' \subseteq page, queue' \subseteq log
  PROVE  /\ Tree(master)' /\ TodoTree' /\ DoneTree' /\ LogTree'
         /\ FoldersOf(master)' = FoldersOf(master) /\ Known' = Known
         /\ Todo' = Todo /\ Done' = Done
         /\ SlaveFits(slave)' /\ PageTree'
<1>1. TableName' = TableName
  BY DEF TableName
<1>2. \A s \in Todo : MakesFolder(s) /\ Unseen(s.row.id) => Unseen(s.row.id)'
  <2> SUFFICES ASSUME NEW s \in Todo, Unseen(s.row.id) PROVE Unseen(s.row.id)'
    OBVIOUS
  <2>1. log' = log
    BY DEF masters
  <2>2. QED BY <1>1, <2>1 DEF Unseen
<1>3. /\ Tree(master)' /\ TodoTree' /\ DoneTree' /\ LogTree'
      /\ FoldersOf(master)' = FoldersOf(master) /\ Known' = Known
      /\ Todo' = Todo /\ Done' = Done
      /\ \A p : Placed(p)' <=> Placed(p)
      /\ \A r : FromMaster(r) => FromMaster(r)'
  BY <1>2, MastersRest
<1>4. SlaveFits(slave)'
  BY <1>3 DEF Family, SlaveFits, Hangs
<1>5. PageTree'
  BY <1>1, <1>3 DEF Family, PageTree
<1>6. QED BY <1>3, <1>4, <1>5

\* The copy is complete: what it lacks is in the rows after the section.
LEMMA FinishTree == ASSUME NEW content, InvOf(content), Family, Finish PROVE Family'
<1>1. /\ pc = "copy" /\ at.table = 3 /\ whole' = TRUE /\ pc' = "listen"
      /\ queue' = {l \in queue : l.id >= aop} /\ lastId' = aop
      /\ UNCHANGED <<now, masters, slave, aop, at, page>>
      /\ UNCHANGED <<master, log, req>>
  BY DEF Finish, masters, Tables
<1>2. CopyTree /\ SectionTree /\ LogTree
  BY <1>1 DEF Family, CopyTree
<1>3. /\ Tree(master)' /\ TodoTree' /\ DoneTree' /\ LogTree'
      /\ FoldersOf(master)' = FoldersOf(master) /\ Known' = Known
      /\ Todo' = Todo /\ Done' = Done
      /\ SlaveFits(slave)' /\ PageTree'
  <2>1. queue' \subseteq log /\ page' \subseteq page
    BY <1>1, <1>2 DEF LogTree
  <2>2. QED BY <1>1, <2>1, SlaveRests
<1>4. aop \in Nat /\ aop <= now /\ \A l \in queue : l.id < aop /\ l.id \in Nat
  BY <1>2 DEF SectionTree, LogTree, Logged
<1>5. queue' = {}
  BY <1>1, <1>4
<1>6. Pending' = {l.sql : l \in {l \in log : l.id > aop}} \cup Done
  BY <1>1, <1>3, <1>5 DEF Pending, News
<1>7. \A s \in Pending' : s \in Done \/ \E l \in log : l.id > aop /\ l.sql = s
  BY <1>6
<1>8. \A l \in log : l.id > aop => l.sql \in Pending'
  BY <1>6
<1>9. Done \subseteq Pending'
  BY <1>6
<1>10. ASSUME NEW e \in FoldersOf(master), NEW s \in Pending', Makes(s, e) PROVE e.id > aop
  <2>1. e.st = 0
    BY DEF FoldersOf
  <2>2. CASE s \in Done
    BY <1>2, <1>10, <2>1, <2>2 DEF SectionTree, Makes, MakesFolder
  <2>3. CASE \E l \in log : l.id > aop /\ l.sql = s
    BY <1>2, <1>10, <2>3 DEF SectionTree
  <2>4. QED BY <1>7, <2>2, <2>3
<1>11. ASSUME NEW e \in FoldersOf(master) PROVE Followed(e)'
  <2>1. /\ e.id # aop
        /\ e.id > aop => Announced(e)
        /\ Inserted(e.id) => Copied(slave, e)
        /\ e.trash => Reflected(e)
    BY <1>2 DEF CopyTree
  <2>2. (Inserted(e.id) <=> e.id < aop) /\ e.id \in Nat
    BY <1>1, RowsAre DEF Inserted, FoldersOf
  <2>3. Announced(e) => \E s \in Pending' : Makes(s, e)
    BY <1>8, <1>9 DEF Announced
  <2>4. e.trash => (\E s \in Pending' : Trashes(s, e)) \/ (e.id < aop /\ Trashed(slave, e))
    BY <1>8, <1>9, <2>1, <2>2 DEF Reflected
  <2>5. ~(e.id < aop) => e.id > aop
    BY <1>4, <2>1, <2>2
  <2>6. e.id < aop => \A s \in Pending' : ~Makes(s, e)
    BY <1>4, <1>10, <2>2
  <2>7. \A x \in slave.df : x.id < aop /\ x.id \in Nat
    BY <1>2 DEF SectionTree, Family, SlaveFits
  <2>8. e.id \in Ids(slave.df) \/ \E s \in Pending' : Makes(s, e)
    BY <2>1, <2>2, <2>3, <2>5 DEF Copied
  <2>9. \A x \in slave.df : x.id = e.id => Image(x, e)
    BY <2>1, <2>2, <2>7 DEF Copied
  <2>10. (\E s \in Pending' : Makes(s, e)) =>
            \A x \in FoldersOf(slave) : x.id \in Own \/ x.id < e.id
    <3> SUFFICES ASSUME NEW s \in Pending', Makes(s, e), NEW x \in FoldersOf(slave)
                 PROVE  x.id < e.id
      OBVIOUS
    <3>1. e.id > aop
      BY <1>10
    <3>2. x.id < aop /\ x.id \in Nat
      BY <2>7 DEF FoldersOf
    <3>3. QED BY <1>4, <2>2, <3>1, <3>2
  <2>11. slave' = slave
    BY <1>1
  <2>12. QED BY <2>4, <2>6, <2>8, <2>9, <2>10, <2>11 DEF Followed, Trashed
<1>12. WholeTree'
  BY <1>1, <1>3, <1>4, <1>5, <1>11 DEF WholeTree
<1>13. QED BY <1>1, <1>3, <1>12 DEF Family

LEMMA RequestLogTree == ASSUME NEW content, InvOf(content), Family, RequestLog PROVE Family'
<1>1. /\ pc = "listen" /\ News # {} /\ queue' = queue \cup FirstOf(News)
      /\ lastId' = Max(Ids(FirstOf(News)))
      /\ UNCHANGED <<now, masters, slave, pc, aop, at, page, whole>>
      /\ UNCHANGED <<master, log, req>>
  BY DEF RequestLog, masters
<1>2. /\ queue \subseteq log /\ News \subseteq log /\ now \in Nat
      /\ \A l \in log : l.id \in Nat /\ l.id <= now
      /\ \A l, k \in log : l.id = k.id => l = k
  BY RowsAre DEF Family, LogTree, Logged, News
<1>3. queue' \subseteq log
  BY <1>1, <1>2 DEF FirstOf
<1>4. /\ Tree(master)' /\ TodoTree' /\ DoneTree' /\ LogTree'
      /\ FoldersOf(master)' = FoldersOf(master) /\ Known' = Known
      /\ Todo' = Todo /\ Done' = Done
      /\ SlaveFits(slave)' /\ PageTree'
  BY <1>1, <1>3, SlaveRests
<1>5. (whole => WholeTree)'
  <2> SUFFICES ASSUME whole PROVE WholeTree'
    BY <1>1
  <2>1. WholeTree /\ lastId \in Nat
    BY DEF Family, WholeTree
  <2>2. \A l \in News : l.id \in 1..now /\ l.id > lastId
    BY <1>2, <2>1 DEF News
  <2>3. /\ lastId' \in Ids(News)
        /\ FirstOf(News) = {l \in News : l.id <= lastId'}
    BY <1>1, <1>2, <2>2, FirstRows
  <2>4. lastId' \in Nat /\ lastId' <= now /\ lastId < lastId'
    BY <1>2, <2>1, <2>2, <2>3 DEF Ids
  <2>5. \A l \in queue' : l.id <= lastId'
    <3>1. \A l \in queue : l.id <= lastId /\ l.id \in Nat
      BY <1>2, <2>1 DEF WholeTree
    <3>2. \A l \in queue : l.id <= lastId'
      BY <2>1, <2>4, <3>1
    <3>3. \A l \in FirstOf(News) : l.id <= lastId'
      BY <2>3
    <3>4. QED BY <1>1, <3>2, <3>3
  <2>6. queue' \cup News' = queue \cup News
    <3>1. News' = {l \in log : l.id > lastId'}
      BY <1>1 DEF News
    <3>2. News' \subseteq News
      BY <1>2, <2>1, <2>4, <3>1 DEF News
    <3>3. ASSUME NEW l \in News PROVE l \in FirstOf(News) \/ l \in News'
      BY <1>2, <2>3, <2>4, <3>1
    <3>4. FirstOf(News) \subseteq News
      BY <2>3
    <3>5. QED BY <1>1, <3>2, <3>3, <3>4
  <2>7. Pending' = Pending
    BY <1>4, <2>6 DEF Pending
  <2>8. \A e : Followed(e)' <=> Followed(e)
    BY <1>1, <2>7 DEF Followed, Trashed
  <2>9. QED BY <1>1, <1>4, <2>1, <2>4, <2>5, <2>8 DEF WholeTree
<1>6. QED BY <1>1, <1>4, <1>5 DEF Family

-----------------------------------------------------------------------------
(* The rows of the slave.                                                  *)

\* A row and what becomes of it.
Kept(x, u) ==
    /\ u.id = x.id /\ (u.st = 0 <=> x.st = 0) /\ (x.trash => u.trash)
    /\ u.name = x.name \/ x.id \notin Known \cup Own

Moved(x, u, r, E) ==
    /\ Kept(x, u)
    /\ (\E e \in E : x.parent = e.id) => u.parent = r.id
    /\ (\A e \in E : x.parent # e.id) => u.parent = x.parent

\* Every row stays where it is, but for the files that the master deletes.
Carries(T, U) ==
    /\ \A u \in U.df : \E x \in T.df : Moved(x, u, x, {})
    /\ \A x \in T.df : x.id \notin Known \cup Own \/ \E u \in U.df : Moved(x, u, x, {})

Like(u, r) == /\ u.id = r.id /\ u.parent = r.parent /\ u.name = r.name
              /\ u.st = r.st /\ u.trash = r.trash

\* The row r comes, and takes what is in the folders E with it.
Arrives(T, r, E, U) ==
    /\ \A e \in E : e \in T.df /\ e.st = 0 /\ ~e.trash /\ Beside(e, r) /\ r.st = 0
    /\ \E u \in U.df : Like(u, r)
    /\ \A u \in U.df : \/ Like(u, r)
                       \/ u.id # r.id /\ \E x \in T.df \ E : Moved(x, u, r, E)
    /\ \A x \in T.df \ E : x.id = r.id \/ \E u \in U.df : Moved(x, u, r, E)

LEMMA ArrivesBy ==
  ASSUME NEW T, NEW r, NEW E, NEW V, NEW q, NEW U, NEW c,
         \A e \in E : e \in T.df /\ e.st = 0 /\ ~e.trash /\ Beside(e, r) /\ r.st = 0,
         V.df = {c[x] : x \in T.df \ E}, \A x \in T.df \ E : Moved(x, c[x], r, E),
         Like(q, r), U.df = {x \in V.df : x.id # r.id} \cup {q}
  PROVE  Arrives(T, r, E, U)
<1>1. \A x \in T.df \ E : c[x].id = x.id
  BY DEF Moved, Kept
<1>2. ASSUME NEW u \in U.df, u # q PROVE u.id # r.id /\ \E x \in T.df \ E : Moved(x, u, r, E)
  BY <1>2
<1>3. ASSUME NEW x \in T.df \ E, x.id # r.id PROVE \E u \in U.df : Moved(x, u, r, E)
  <2>1. c[x] \in U.df
    BY <1>1, <1>3
  <2>2. QED BY <2>1
<1>4. q \in U.df
  OBVIOUS
<1>5. QED BY <1>2, <1>3, <1>4 DEF Arrives

LEMMA PutIs ==
  ASSUME NEW n, NEW content, NEW T, NEW V, Sound(V, n, content), NEW q,
         q \in T.df => q \in V.df, NEW U \in Put(T, Outcome(V, q), "df")
  PROVE  U.df = {x \in V.df : x.id # q.id} \cup {q}
<1>1. (U = V /\ q \in T.df) \/ U = [V EXCEPT !.df = {x \in V.df : x.id # q.id} \cup {q}]
  BY DEF Put, Outcome
<1>2. CASE U = V /\ q \in T.df
  BY <1>2 DEF Sound
<1>3. CASE U = [V EXCEPT !.df = {x \in V.df : x.id # q.id} \cup {q}]
  BY <1>3 DEF Sound
<1>4. QED BY <1>1, <1>2, <1>3

\* What DfsFileSyncHandle makes of the tables.
LEMMA MergeMoves ==
  ASSUME NEW n, NEW content, NEW T, Sound(T, n, content),
         NEW r \in RowType, NEW e \in T.df, NEW V, V = Merge(T, r, e)
  PROVE  \E c : /\ V.df = {c[x] : x \in T.df \ {e}}
                /\ \A x \in T.df \ {e} : Moved(x, c[x], r, {e})
<1> DEFINE c == [x \in T.df \ {e} |-> IF x.parent = e.id THEN [x EXCEPT !.parent = r.id] ELSE x]
<1>1. V.df = {c[x] : x \in T.df \ {e}}
  BY DEF Merge, Sound
<1>2. \A x \in T.df \ {e} : x \in RowType
  BY DEF Sound
<1>3. ASSUME NEW x \in T.df \ {e} PROVE Moved(x, c[x], r, {e})
  <2>1. CASE x.parent = e.id
    <3>1. c[x] = [x EXCEPT !.parent = r.id]
      BY <2>1
    <3> HIDE DEF c
    <3>2. /\ c[x].id = x.id /\ c[x].st = x.st /\ c[x].trash = x.trash /\ c[x].name = x.name
          /\ c[x].parent = r.id
      BY <1>2, <3>1 DEF RowType
    <3>3. QED BY <2>1, <3>2 DEF Moved, Kept
  <2>2. CASE x.parent # e.id
    <3>1. c[x] = x
      BY <2>2
    <3> HIDE DEF c
    <3>2. QED BY <2>2, <3>1 DEF Moved, Kept
  <2>3. QED BY <2>1, <2>2
<1> HIDE DEF c
<1>4. QED BY <1>1, <1>3

MovesAll(T, V, r) == \E c : /\ V.df = {c[x] : x \in T.df \ {}}
                            /\ \A x \in T.df \ {} : Moved(x, c[x], r, {})

LEMMA HistoryMoves ==
  ASSUME NEW n, NEW content, NEW T, Sound(T, n, content), NEW r,
         NEW e, NEW V, V = SetHistory(T, {e})
  PROVE  MovesAll(T, V, r) /\ \A x \in T.df : x # e => x \in V.df
<1> DEFINE c == [x \in T.df |-> IF x = e THEN [x EXCEPT !.hist = TRUE] ELSE x]
<1>1. V.df = {c[x] : x \in T.df}
  <2>1. V.df = {IF x \in {e} THEN [x EXCEPT !.hist = TRUE] ELSE x : x \in T.df}
    BY DEF SetHistory, Update, Sound
  <2>2. \A x : x \in {e} <=> x = e
    OBVIOUS
  <2>3. QED BY <2>1, <2>2
<1>2. \A x \in T.df : x \in RowType
  BY DEF Sound
<1>3. ASSUME NEW x \in T.df PROVE Moved(x, c[x], r, {})
  <2>1. /\ c[x].id = x.id /\ c[x].st = x.st /\ c[x].trash = x.trash /\ c[x].name = x.name
        /\ c[x].parent = x.parent
    BY <1>2 DEF RowType
  <2> HIDE DEF c
  <2>2. QED BY <2>1 DEF Moved, Kept
<1>4. \A x \in T.df : x # e => c[x] = x
  OBVIOUS
<1> HIDE DEF c
<1>5. T.df \ {} = T.df
  OBVIOUS
<1>6. MovesAll(T, V, r)
  BY <1>1, <1>3, <1>5 DEF MovesAll
<1>7. QED BY <1>1, <1>4, <1>6

LEMMA NothingMoves == ASSUME NEW T, NEW r
  PROVE  \E c : /\ T.df = {c[x] : x \in T.df \ {}}
                /\ \A x \in T.df \ {} : Moved(x, c[x], r, {})
<1> DEFINE c == [x \in T.df |-> x]
<1>1. \A x \in T.df : c[x] = x
  OBVIOUS
<1>2. T.df = {c[x] : x \in T.df}
  OBVIOUS
<1> HIDE DEF c
<1>3. \A x \in T.df : Moved(x, c[x], r, {})
  BY <1>1 DEF Moved, Kept
<1>4. T.df \ {} = T.df
  OBVIOUS
<1>5. QED BY <1>2, <1>3, <1>4

LEMMA InsertArrives ==
  ASSUME NEW n, NEW content, NEW T, Sound(T, n, content), SlaveFits(T),
         NEW r \in RowType, FromMaster(r), NEW U \in Insert(T, "df", r)
  PROVE  \E E : Arrives(T, r, E, U) /\ \A e \in E : e.id # r.id
<1>1. CASE \E e \in Current(T, r.parent, r.name) : e.id # r.id
  <2>1. PICK o \in FileByTable(T, r) : U \in Put(T, o, "df")
    BY <1>1 DEF Insert
  <2>2. PICK e \in {x \in Current(T, r.parent, r.name) : x.id # r.id} :
               \/ r.st = 0 /\ e.st = 0 /\ o = Outcome(Merge(T, r, e), r)
               \/ o = Outcome(SetHistory(T, {e}), r)
               \/ o = Outcome(T, [r EXCEPT !.hist = TRUE])
    BY <2>1 DEF FileByTable
  <2>3. e \in T.df /\ e.parent = r.parent /\ e.name = r.name /\ ~e.trash /\ e.id # r.id
    BY DEF Current
  <2>4. CASE r.st = 0 /\ e.st = 0 /\ o = Outcome(Merge(T, r, e), r)
    <3>1. PICK V : V = Merge(T, r, e)
      OBVIOUS
    <3>2. Sound(V, n, content)
      BY <2>3, <2>4, <3>1, Merged
    <3>3. PICK c : /\ V.df = {c[x] : x \in T.df \ {e}}
                   /\ \A x \in T.df \ {e} : Moved(x, c[x], r, {e})
      BY <2>3, <3>1, MergeMoves
    <3>4. r \in T.df => r \in V.df
      <4> SUFFICES ASSUME r \in T.df PROVE r \in V.df
        OBVIOUS
      <4>1. r.parent # e.id
        <5> SUFFICES ASSUME r.parent = e.id PROVE FALSE
          OBVIOUS
        <5>1. e.id # 0
          BY <2>3, NumberAssumption DEF Sound, RowType
        <5>2. e.id \in Known
          BY <5>1 DEF FromMaster, Placed
        <5>3. QED BY <2>3, <5>2 DEF SlaveFits
      <4>2. V.df = {IF x.parent = e.id THEN [x EXCEPT !.parent = r.id] ELSE x : x \in T.df \ {e}}
        BY <3>1 DEF Merge, Sound
      <4>3. r # e
        BY <2>3
      <4>4. QED BY <4>1, <4>2, <4>3
    <3>5. U.df = {x \in V.df : x.id # r.id} \cup {r}
      <4>1. U \in Put(T, Outcome(V, r), "df")
        BY <2>1, <2>4, <3>1
      <4>2. QED BY <3>2, <3>4, <4>1, PutIs
    <3>6. Like(r, r)
      BY DEF Like
    <3>7. \A x \in {e} : x \in T.df /\ x.st = 0 /\ ~x.trash /\ Beside(x, r) /\ r.st = 0
      BY <2>3, <2>4 DEF Beside
    <3>8. Arrives(T, r, {e}, U)
      BY <3>3, <3>5, <3>6, <3>7, ArrivesBy
    <3>9. QED BY <2>3, <3>8
  <2>5. CASE o = Outcome(SetHistory(T, {e}), r)
    <3>1. PICK V : V = SetHistory(T, {e})
      OBVIOUS
    <3>2. Sound(V, n, content)
      BY <3>1, HistorySet
    <3>0. MovesAll(T, V, r) /\ \A x \in T.df : x # e => x \in V.df
      BY <3>1, HistoryMoves
    <3>3. PICK c : /\ V.df = {c[x] : x \in T.df \ {}}
                   /\ \A x \in T.df \ {} : Moved(x, c[x], r, {})
      BY <3>0 DEF MovesAll
    <3>4. r \in T.df => r \in V.df
      BY <2>3, <3>0
    <3>5. U.df = {x \in V.df : x.id # r.id} \cup {r}
      <4>1. U \in Put(T, Outcome(V, r), "df")
        BY <2>1, <2>5, <3>1
      <4>2. QED BY <3>2, <3>4, <4>1, PutIs
    <3>6. Like(r, r)
      BY DEF Like
    <3>7. Arrives(T, r, {}, U)
      BY <3>3, <3>5, <3>6, ArrivesBy
    <3>8. QED BY <3>7
  <2>6. CASE o = Outcome(T, [r EXCEPT !.hist = TRUE])
    <3>1. PICK q : q = [r EXCEPT !.hist = TRUE]
      OBVIOUS
    <3>2. Like(q, r) /\ q.id = r.id
      BY <3>1 DEF Like, RowType
    <3>3. U.df = {x \in T.df : x.id # r.id} \cup {q}
      <4>1. U \in Put(T, Outcome(T, q), "df")
        BY <2>1, <2>6, <3>1
      <4>2. U.df = {x \in T.df : x.id # q.id} \cup {q}
        BY <4>1, PutIs
      <4>3. QED BY <3>2, <4>2
    <3>4. PICK c : /\ T.df = {c[x] : x \in T.df \ {}}
                   /\ \A x \in T.df \ {} : Moved(x, c[x], r, {})
      BY NothingMoves
    <3>5. Arrives(T, r, {}, U)
      BY <3>2, <3>3, <3>4, ArrivesBy
    <3>6. QED BY <3>5
  <2>7. QED BY <2>2, <2>4, <2>5, <2>6
<1>2. CASE ~ \E e \in Current(T, r.parent, r.name) : e.id # r.id
  <2>1. U \in Put(T, Outcome(T, r), "df")
    BY <1>2 DEF Insert
  <2>2. U.df = {x \in T.df : x.id # r.id} \cup {r}
    BY <2>1, PutIs
  <2>3. PICK c : /\ T.df = {c[x] : x \in T.df \ {}}
                 /\ \A x \in T.df \ {} : Moved(x, c[x], r, {})
    BY NothingMoves
  <2>4. Like(r, r)
    BY DEF Like
  <2>5. Arrives(T, r, {}, U)
    BY <2>2, <2>3, <2>4, ArrivesBy
  <2>6. QED BY <2>5
<1>3. QED BY <1>1, <1>2

LEMMA ReplayArrives ==
  ASSUME NEW n, NEW content, NEW T, Sound(T, n, content),
         NEW s, Fits(s, n, content), s.op = "file", NEW U \in Replay(T, s)
  PROVE  \E E : Arrives(T, s.row, E, U)
<1> DEFINE r == s.row
<1>1. PICK V, E, c :
         /\ U = Effect(V, s) /\ Allowed(V, s) /\ Sound(V, n, content)
         /\ \A e \in E : e \in T.df /\ e.st = 0 /\ ~e.trash /\ Beside(e, r) /\ r.st = 0
         /\ V.df = {c[x] : x \in T.df \ E}
         /\ \A x \in T.df \ E : Moved(x, c[x], r, E)
  <2>1. CASE Current(T, r.parent, r.name) # {}
    <3>1. PICK o \in FileByLog(T, r) : U = Effect(o.T, s) /\ Allowed(o.T, s)
      BY <2>1 DEF Replay
    <3>2. PICK e \in Current(T, r.parent, r.name) :
                 \/ r.st = 0 /\ e.st = 0 /\ o = Outcome(Merge(T, r, e), r)
                 \/ o = Outcome(SetHistory(T, {e}), r)
      BY <3>1 DEF FileByLog
    <3>3. e \in T.df /\ e.parent = r.parent /\ e.name = r.name /\ ~e.trash /\ r \in RowType
      BY DEF Current, Fits, Made
    <3>4. CASE r.st = 0 /\ e.st = 0 /\ o = Outcome(Merge(T, r, e), r)
      <4>1. PICK V : V = Merge(T, r, e)
        OBVIOUS
      <4>2. o.T = V
        BY <3>4, <4>1 DEF Outcome
      <4>3. PICK c : /\ V.df = {c[x] : x \in T.df \ {e}}
                     /\ \A x \in T.df \ {e} : Moved(x, c[x], r, {e})
        BY <3>3, <4>1, MergeMoves
      <4>4. Sound(V, n, content)
        BY <3>3, <3>4, <4>1, Merged
      <4>5. \A x \in {e} : x \in T.df /\ x.st = 0 /\ ~x.trash /\ Beside(x, r) /\ r.st = 0
        BY <3>3, <3>4 DEF Beside
      <4>6. QED BY <3>1, <4>2, <4>3, <4>4, <4>5
    <3>5. CASE o = Outcome(SetHistory(T, {e}), r)
      <4>1. PICK V : V = SetHistory(T, {e})
        OBVIOUS
      <4>2. o.T = V
        BY <3>5, <4>1 DEF Outcome
      <4>3. MovesAll(T, V, r)
        BY <4>1, HistoryMoves
      <4>6. PICK c : /\ V.df = {c[x] : x \in T.df \ {}}
                     /\ \A x \in T.df \ {} : Moved(x, c[x], r, {})
        BY <4>3 DEF MovesAll
      <4>4. Sound(V, n, content)
        BY <4>1, HistorySet
      <4>5. QED BY <3>1, <4>2, <4>4, <4>6
    <3>6. QED BY <3>2, <3>4, <3>5
  <2>2. CASE Current(T, r.parent, r.name) = {}
    <3>1. U = Effect(T, s) /\ Allowed(T, s)
      BY <2>2 DEF Replay
    <3>2. PICK c : /\ T.df = {c[x] : x \in T.df \ {}}
                   /\ \A x \in T.df \ {} : Moved(x, c[x], r, {})
      BY NothingMoves
    <3>3. QED BY <3>1, <3>2
  <2>3. QED BY <2>1, <2>2
<1>2. U.df = V.df \cup {r} /\ r.id \notin Ids(V.df)
  BY <1>1, EffectByRow DEF Allowed
<1>3. U.df = {x \in V.df : x.id # r.id} \cup {r}
  BY <1>2 DEF Ids
<1>4. Like(r, r)
  BY DEF Like
<1> HIDE DEF r
<1>5. Arrives(T, r, E, U)
  BY <1>1, <1>3, <1>4, ArrivesBy
<1>6. QED BY <1>5 DEF r

LEMMA RepointCarries ==
  ASSUME NEW n, NEW content, NEW T, Sound(T, n, content), NEW r \in Stored(n, content),
         NEW U, U.df = Repoint(T, r).df
  PROVE  Carries(T, U)
<1> DEFINE old == {s \in T.st : s.md5 = r.md5 /\ s.id # r.id}
           c == [x \in T.df |-> IF x.st \in Ids(old) THEN [x EXCEPT !.st = r.id] ELSE x]
<1>1. U.df = {c[x] : x \in T.df}
  BY DEF Repoint, Sound
<1>2. r.id # 0 /\ 0 \notin Ids(old)
  BY NumberAssumption DEF Stored, StType, Sound, Ids
<1>3. ASSUME NEW x \in T.df PROVE Moved(x, c[x], x, {})
  <2>1. x \in RowType
    BY DEF Sound
  <2>2. CASE x.st \in Ids(old)
    <3>1. c[x] = [x EXCEPT !.st = r.id] /\ x.st # 0
      BY <1>2, <2>2
    <3> HIDE DEF c, old
    <3>2. /\ c[x].id = x.id /\ c[x].st = r.id /\ c[x].trash = x.trash /\ c[x].name = x.name
          /\ c[x].parent = x.parent
      BY <2>1, <3>1 DEF RowType
    <3>3. QED BY <1>2, <3>1, <3>2 DEF Moved, Kept
  <2>3. CASE x.st \notin Ids(old)
    <3>1. c[x] = x
      BY <2>3
    <3> HIDE DEF c, old
    <3>2. QED BY <3>1 DEF Moved, Kept
  <2>4. QED BY <2>2, <2>3
<1> HIDE DEF c
<1>4. QED BY <1>1, <1>3 DEF Carries

LEMMA InsertCarries ==
  ASSUME NEW n, NEW content, NEW T, Sound(T, n, content),
         NEW tb \in {"bin", "st"}, NEW r, tb = "st" => r \in Stored(n, content),
         NEW U \in Insert(T, tb, r)
  PROVE  Carries(T, U)
<1>1. CASE tb = "st"
  <2>1. PICK V : V = Repoint(T, r)
    OBVIOUS
  <2>2. U \in Put(T, Outcome(V, r), "st")
    BY <1>1, <2>1 DEF Insert
  <2>3. U.df = V.df
    <3>1. U = V \/ U = [V EXCEPT !.st = {x \in V.st : x.id # r.id} \cup {r}]
      BY <2>2 DEF Put, Outcome
    <3>2. CASE U = V
      BY <3>2
    <3>3. CASE U = [V EXCEPT !.st = {x \in V.st : x.id # r.id} \cup {r}]
      <4>1. V = [df |-> V.df, bin |-> V.bin, st |-> V.st]
        <5>1. PICK df, st : V = [df |-> df, bin |-> T.bin, st |-> st]
          BY <2>1 DEF Repoint, Sound
        <5>2. QED BY <5>1
      <4>2. QED BY <3>3, <4>1
    <3>4. QED BY <3>1, <3>2, <3>3
  <2>4. QED BY <1>1, <2>1, <2>3, RepointCarries
<1>2. CASE tb = "bin"
  <2>1. U \in Put(T, Outcome(T, r), "bin")
    BY <1>2 DEF Insert
  <2>2. U = T \/ U = [T EXCEPT !.bin = {x \in T.bin : x.id # r.id} \cup {r}]
    BY <2>1 DEF Put, Outcome
  <2>3. U.df = T.df
    BY <2>2 DEF Sound
  <2>4. QED BY <2>3 DEF Carries, Moved, Kept
<1>3. QED BY <1>1, <1>2

LEMMA ReplayCarries ==
  ASSUME NEW n, NEW content, NEW T, Sound(T, n, content),
         NEW s, Fits(s, n, content), Fitting(s), s.op # "file", NEW U \in Replay(T, s)
  PROVE  /\ Carries(T, U)
         /\ s.op = "trash" => \A u \in U.df : u.id = s.on => u.trash
<1>1. CASE s.op = "storage"
  <2>1. PICK V : V = Repoint(T, s.row)
    OBVIOUS
  <2>2. U = Effect(V, s) /\ s.row \in Stored(n, content)
    BY <1>1, <2>1 DEF Replay, Fits
  <2>3. U = [V EXCEPT !.st = V.st \cup {s.row}]
    BY <1>1, <2>2 DEF Effect
  <2>4. V = [df |-> V.df, bin |-> V.bin, st |-> V.st]
    <3>1. PICK df, st : V = [df |-> df, bin |-> T.bin, st |-> st]
      BY <2>1 DEF Repoint, Sound
    <3>2. QED BY <3>1
  <2>5. U.df = V.df
    BY <2>3, <2>4
  <2>6. QED BY <1>1, <2>1, <2>2, <2>5, RepointCarries
<1>2. CASE s.op # "storage"
  <2>1. U = Effect(T, s)
    BY <1>2 DEF Replay
  <2>2. RowByRow(T, s, U)
    BY <2>1, EffectByRow
  <2>3. s.op \in {"delete", "rename"} => s.on \notin Known \cup Own
    BY DEF Fits, Fitting
  <2>4. ASSUME NEW x \in T.df, NEW u, Becomes(T, s, x, u) PROVE Moved(x, u, x, {})
    <3>1. /\ u.id = x.id /\ u.parent = x.parent /\ u.st = x.st /\ (x.trash => u.trash)
          /\ u.name = x.name \/ x.id \notin Known \cup Own
      BY <2>3, <2>4 DEF Becomes
    <3>2. QED BY <3>1 DEF Moved, Kept
  <2>5. Carries(T, U)
    <3>1. \A u \in U.df : \E x \in T.df : Moved(x, u, x, {})
      BY <2>2, <2>4 DEF RowByRow
    <3>2. \A x \in T.df : x.id \notin Known \cup Own \/ \E u \in U.df : Moved(x, u, x, {})
      BY <2>2, <2>3, <2>4 DEF RowByRow
    <3>3. QED BY <3>1, <3>2 DEF Carries
  <2>6. ASSUME s.op = "trash", NEW u \in U.df, u.id = s.on PROVE u.trash
    <3>1. PICK x \in T.df : Becomes(T, s, x, u)
      BY <2>2 DEF RowByRow
    <3>2. QED BY <2>6, <3>1 DEF Becomes
  <2>7. QED BY <2>5, <2>6
<1>3. QED BY <1>1, <1>2

-----------------------------------------------------------------------------
(* What this means for the tree.                                           *)

LEMMA CarriesFits ==
  ASSUME NEW T, NEW U, SlaveFits(T), Carries(T, U)
  PROVE  /\ SlaveFits(U) /\ Ids(U.df) \subseteq Ids(T.df)
         /\ Ids(FoldersOf(U)) \subseteq Ids(FoldersOf(T))
         /\ \A e \in FoldersOf(master) :
               /\ e.id \in Ids(U.df) <=> e.id \in Ids(T.df)
               /\ (\A s \in T.df : s.id = e.id => Image(s, e))
                     => \A u \in U.df : u.id = e.id => Image(u, e)
               /\ Trashed(T, e) => Trashed(U, e)
<1>1. ASSUME NEW x, NEW u, Moved(x, u, x, {})
      PROVE  /\ u.id = x.id /\ (u.st = 0 <=> x.st = 0) /\ u.parent = x.parent
             /\ (x.trash => u.trash) /\ (u.name = x.name \/ x.id \notin Known \cup Own)
  BY <1>1 DEF Moved, Kept
<1>2. \A u \in U.df : \E x \in T.df : Moved(x, u, x, {})
  BY DEF Carries
<1>3. \A x \in T.df : x.id \in Known \cup Own => \E u \in U.df : Moved(x, u, x, {})
  BY DEF Carries
<1>4. \A f \in FoldersOf(T) : \E g \in FoldersOf(U) : g.id = f.id
  <2> SUFFICES ASSUME NEW f \in FoldersOf(T) PROVE \E g \in FoldersOf(U) : g.id = f.id
    OBVIOUS
  <2>1. f \in T.df /\ f.st = 0 /\ f.id \in Known \cup Own
    BY DEF FoldersOf, SlaveFits
  <2>2. PICK u \in U.df : Moved(f, u, f, {})
    BY <1>3, <2>1
  <2>3. QED BY <1>1, <2>1, <2>2 DEF FoldersOf
<1>5. SlaveFits(U)
  <2> SUFFICES ASSUME NEW u \in U.df
               PROVE  /\ u.id \in Nat /\ u.id <= now /\ Hangs(U, u)
                      /\ u.st = 0 => u.id \in Own \cup Known
                      /\ u.id \in Known => u.parent # u.id
    BY DEF SlaveFits
  <2>1. PICK x \in T.df : Moved(x, u, x, {})
    BY <1>2
  <2>2. /\ x.id \in Nat /\ x.id <= now /\ Hangs(T, x)
        /\ x.st = 0 => x.id \in Own \cup Known
        /\ x.id \in Known => x.parent # x.id
    BY DEF SlaveFits
  <2>3. Hangs(U, u)
    BY <1>1, <1>4, <2>1, <2>2 DEF Hangs
  <2>4. QED BY <1>1, <2>1, <2>2, <2>3
<1>6. Ids(U.df) \subseteq Ids(T.df) /\ Ids(FoldersOf(U)) \subseteq Ids(FoldersOf(T))
  BY <1>1, <1>2 DEF Ids, FoldersOf
<1>7. ASSUME NEW e \in FoldersOf(master)
      PROVE  /\ e.id \in Ids(U.df) <=> e.id \in Ids(T.df)
             /\ (\A s \in T.df : s.id = e.id => Image(s, e))
                   => \A u \in U.df : u.id = e.id => Image(u, e)
             /\ Trashed(T, e) => Trashed(U, e)
  <2>1. e.id \in Known
    BY DEF Known, Ids
  <2>2. e.id \in Ids(T.df) => e.id \in Ids(U.df)
    BY <1>1, <1>3, <2>1 DEF Ids
  <2>3. ASSUME \A s \in T.df : s.id = e.id => Image(s, e), NEW u \in U.df, u.id = e.id
        PROVE  Image(u, e)
    <3>1. PICK x \in T.df : Moved(x, u, x, {})
      BY <1>2
    <3>2. x.id = e.id /\ Image(x, e)
      BY <1>1, <2>3, <3>1
    <3>3. QED BY <1>1, <2>1, <3>1, <3>2 DEF Image, Beside
  <2>4. Trashed(T, e) => Trashed(U, e)
    BY <1>1, <1>2 DEF Trashed
  <2>5. QED BY <1>6, <2>2, <2>3, <2>4
<1>8. QED BY <1>5, <1>6, <1>7

LEMMA ArrivesFits ==
  ASSUME NEW T, NEW r, NEW E, NEW U, SlaveFits(T), Arrives(T, r, E, U),
         r.id \in Nat, r.id <= now, r.id \notin Own, Placed(r.parent), r.parent # r.id,
         r.st = 0 <=> r.id \in Known
  PROVE  /\ SlaveFits(U) /\ Ids(U.df) \subseteq Ids(T.df) \cup {r.id} /\ r.id \in Ids(U.df)
         /\ Ids(FoldersOf(U)) \subseteq Ids(FoldersOf(T)) \cup {r.id}
         /\ (\A u \in U.df : u.id = r.id => Like(u, r))
<1>1. ASSUME NEW u \in U.df
      PROVE  Like(u, r) \/ (u.id # r.id /\ \E x \in T.df \ E : Moved(x, u, r, E))
  BY DEF Arrives
<1>2. \A x \in T.df \ E : x.id = r.id \/ \E u \in U.df : Moved(x, u, r, E)
  BY DEF Arrives
<1>3. PICK q \in U.df : Like(q, r)
  BY DEF Arrives
<1>4. ASSUME NEW e \in E PROVE r.st = 0
  BY DEF Arrives
<1>5. r.st = 0 => q \in FoldersOf(U) /\ q.id = r.id
  BY <1>3 DEF Like, FoldersOf
<1>6. ASSUME NEW u \in U.df
      PROVE  /\ u.id \in Nat /\ u.id <= now /\ Hangs(U, u)
             /\ u.st = 0 => u.id \in Own \cup Known
             /\ u.id \in Known => u.parent # u.id
  <2>1. CASE Like(u, r)
    BY <2>1 DEF Like, Hangs
  <2>2. CASE u.id # r.id /\ \E x \in T.df \ E : Moved(x, u, r, E)
    <3>1. PICK x \in T.df \ E : Moved(x, u, r, E)
      BY <2>2
    <3>2. /\ x.id \in Nat /\ x.id <= now /\ Hangs(T, x)
          /\ x.st = 0 => x.id \in Own \cup Known
          /\ x.id \in Known => x.parent # x.id
      BY DEF SlaveFits
    <3>3. u.id = x.id /\ (u.st = 0 <=> x.st = 0)
      BY <3>1 DEF Moved, Kept
    <3>4. CASE \E e \in E : x.parent = e.id
      <4>1. u.parent = r.id /\ r.st = 0
        BY <1>4, <3>1, <3>4 DEF Moved
      <4>2. Hangs(U, u)
        BY <1>5, <4>1 DEF Hangs
      <4>3. QED BY <2>2, <3>2, <3>3, <4>1, <4>2
    <3>5. CASE \A e \in E : x.parent # e.id
      <4>1. u.parent = x.parent
        BY <3>1, <3>5 DEF Moved
      <4>2. ASSUME NEW f \in FoldersOf(T), f.id = x.parent
            PROVE  \E g \in FoldersOf(U) : g.id = x.parent
        <5>1. f \in T.df \ E /\ f.st = 0
          BY <3>5, <4>2 DEF FoldersOf
        <5>2. CASE f.id = r.id
          <6>1. r.st = 0
            BY <5>1, <5>2 DEF SlaveFits
          <6>2. QED BY <1>5, <4>2, <5>2, <6>1
        <5>3. CASE f.id # r.id
          <6>1. PICK g \in U.df : Moved(f, g, r, E)
            BY <1>2, <5>1, <5>3
          <6>2. g.id = f.id /\ g.st = 0
            BY <5>1, <6>1 DEF Moved, Kept
          <6>3. QED BY <4>2, <6>2 DEF FoldersOf
        <5>4. QED BY <5>2, <5>3
      <4>3. Hangs(U, u)
        BY <3>2, <4>1, <4>2 DEF Hangs
      <4>4. QED BY <3>2, <3>3, <4>1, <4>3
    <3>6. QED BY <3>4, <3>5
  <2>3. QED BY <1>1, <2>1, <2>2
<1>7. SlaveFits(U)
  BY <1>6 DEF SlaveFits
<1>8. ASSUME NEW u \in U.df
      PROVE  u.id = r.id \/ \E x \in T.df : x.id = u.id /\ (u.st = 0 => x.st = 0)
  BY <1>1 DEF Like, Moved, Kept
<1>9. QED BY <1>1, <1>3, <1>7, <1>8 DEF Ids, FoldersOf, Like

\* A folder of the master other than the row that comes.
LEMMA ArrivesOther ==
  ASSUME NEW content, InvOf(content), Family,
         NEW T, NEW r, NEW E, NEW U, Arrives(T, r, E, U),
         NEW e \in FoldersOf(master), e.id # r.id,
         \A s \in T.df : s.id = e.id => Image(s, e),
         \A x \in E : x.id = e.id \/ x.id = e.parent => x.id = r.id
  PROVE  /\ e.id \in Ids(U.df) <=> e.id \in Ids(T.df)
         /\ \A u \in U.df : u.id = e.id => Image(u, e)
         /\ Trashed(T, e) => Trashed(U, e)
<1>1. ASSUME NEW u \in U.df, u.id = e.id
      PROVE  \E x \in T.df : /\ x.id = e.id /\ Image(u, e) /\ (x.trash => u.trash)
  <2>1. PICK x \in T.df \ E : Moved(x, u, r, E)
    BY <1>1 DEF Arrives, Like
  <2>2. e.id \in Known
    BY DEF Known, Ids
  <2>3. /\ x.id = e.id /\ (u.st = 0 <=> x.st = 0) /\ u.name = x.name
        /\ (x.trash => u.trash)
    BY <1>1, <2>1, <2>2 DEF Moved, Kept
  <2>4. Image(x, e)
    BY <2>3
  <2>5. u.parent = x.parent
    <3>1. CASE \E f \in E : x.parent = f.id
      <4>1. PICK f \in E : x.parent = f.id
        BY <3>1
      <4>2. f.id = e.parent
        BY <2>4, <4>1 DEF Image, Beside
      <4>3. QED BY <2>1, <4>1, <4>2 DEF Moved
    <3>2. CASE \A f \in E : x.parent # f.id
      BY <2>1, <3>2 DEF Moved
    <3>3. QED BY <3>1, <3>2
  <2>6. QED BY <2>3, <2>4, <2>5 DEF Image, Beside
<1>2. ASSUME NEW x \in T.df, x.id = e.id PROVE \E u \in U.df : u.id = e.id
  <2>1. x \notin E
    BY <1>2
  <2>2. PICK u \in U.df : Moved(x, u, r, E)
    BY <1>2, <2>1 DEF Arrives
  <2>3. QED BY <1>2, <2>2 DEF Moved, Kept
<1>3. QED BY <1>1, <1>2 DEF Ids, Trashed

-----------------------------------------------------------------------------
(* The rows of a page, and of the log.                                     *)

LEMMA FailTree ==
  ASSUME NEW content, InvOf(content), Family, UNCHANGED <<now, masters, slave, at, lastId, queue>>,
         page' \subseteq page, pc' # "copy", ~whole' \/ (whole /\ whole')
  PROVE  Family'
<1>1. queue' \subseteq log /\ log' = log
  BY DEF Family, LogTree, masters
<1>2. /\ Tree(master)' /\ TodoTree' /\ DoneTree' /\ LogTree'
      /\ FoldersOf(master)' = FoldersOf(master) /\ Known' = Known
      /\ Todo' = Todo /\ Done' = Done
      /\ SlaveFits(slave)' /\ PageTree'
  BY <1>1, SlaveRests
<1>3. (whole => WholeTree)'
  <2> SUFFICES ASSUME whole, whole' PROVE WholeTree'
    OBVIOUS
  <2>1. Pending' = Pending
    BY <1>1, <1>2 DEF Pending, News
  <2>2. \A e : Followed(e)' <=> Followed(e)
    BY <2>1 DEF Followed, Trashed
  <2>3. QED BY <1>2, <2>2 DEF Family, WholeTree
<1>4. QED BY <1>2, <1>3 DEF Family

\* A row of the master that the copy has come to.
LEMMA InsertFileTree ==
  ASSUME NEW content, InvOf(content), Family, pc = "copy", at.table = 1,
         NEW r \in Oldest(page), slave' \in Insert(slave, "df", r), page' = page \ {r},
         UNCHANGED <<now, masters, pc, aop, at, whole, lastId, queue>>
  PROVE  Family'
<1>1. CopyTree /\ SectionTree /\ PassedTree /\ SlaveFits(slave) /\ Tree(master)
  BY DEF Family, CopyTree
<1>2. /\ TableName = "df" /\ TableName' = TableName /\ master' = master
      /\ log' = log /\ req' = req
  BY DEF TableName, Tables, masters
<1>3. /\ r \in page /\ \A p \in page : r.id <= p.id
      /\ FromMaster(r) /\ r \in Made(now)
  BY <1>2, RowsAre DEF Oldest, Family, PageTree
<1>4. /\ r \in RowType /\ r.id \in Nat /\ r.id <= now /\ r.id \notin Own /\ Placed(r.parent)
      /\ r.id # 0 /\ r.id <= at.last /\ at.last < aop /\ at.last \in Nat /\ aop \in Nat
      /\ \A i \in Known : Inserted(i) => i < r.id
      /\ r.st = 0 <=> r.id \in Known
  <2>1. r.st = 0 => r.id \in Known
    BY <1>3 DEF FromMaster, Known, Ids
  <2>2. /\ r \in RowType /\ r.id \in Nat /\ r.id <= now /\ r.id \notin Own /\ Placed(r.parent)
        /\ r.st # 0 => r.id \notin Known
    BY <1>3 DEF FromMaster, Made
  <2>3. r.id # 0
    BY <2>2, RowsAre
  <2>4. aop \in Nat
    BY <1>1 DEF SectionTree
  <2>5. /\ r.id <= at.last /\ at.last < aop /\ at.last \in Nat
        /\ \A i \in Known : Inserted(i) => i < r.id
    BY <1>1, <1>3 DEF PassedTree
  <2>6. QED BY <2>1, <2>2, <2>3, <2>4, <2>5
<1>5. Sound(slave, now, content)
  BY DEF InvOf, TablesInv
<1>6. PICK E : Arrives(slave, r, E, slave') /\ \A e \in E : e.id # r.id
  BY <1>1, <1>3, <1>4, <1>5, InsertArrives
<1>7. r.parent # r.id
  <2> SUFFICES ASSUME r.parent = r.id PROVE FALSE
    OBVIOUS
  <2>1. r.id \in Known /\ r.st = 0
    BY <1>4 DEF Placed
  <2>2. PICK e \in FoldersOf(master) : e.id = r.id /\ Beside(e, r)
    BY <1>3, <2>1 DEF FromMaster
  <2>3. e.parent < e.id
    BY <1>1 DEF Tree, FoldersOf
  <2>4. QED BY <1>4, <2>2, <2>3 DEF Beside
\* The folders that are merged are not among those that have been copied.
<1>8. ASSUME NEW x \in E, x.id \in Known, Inserted(x.id) PROVE FALSE
  <2>1. x \in slave.df /\ x.st = 0 /\ ~x.trash /\ Beside(x, r) /\ r.st = 0
    BY <1>6 DEF Arrives
  <2>2. PICK e \in FoldersOf(master) : e.id = x.id
    BY <1>8 DEF Known, Ids
  <2>3. PICK e0 \in FoldersOf(master) : e0.id = r.id /\ Beside(e0, r)
    BY <1>3, <2>1 DEF FromMaster
  <2>4. /\ Inserted(e.id) => Copied(slave, e)
        /\ e.trash => Reflected(e)
    BY <1>1 DEF CopyTree
  <2>5. Beside(x, e)
    BY <1>8, <2>1, <2>2, <2>4 DEF Copied, Image
  <2>6. Beside(e, e0) /\ e.id < e0.id
    BY <1>4, <1>8, <2>1, <2>2, <2>3, <2>5 DEF Beside
  <2>7. e.trash
    BY <1>1, <2>6 DEF Tree
  <2>8. ASSUME NEW s \in Done, Trashes(s, e) PROVE FALSE
    <3>1. e0.id <= e.id
      BY <2>6, <2>8 DEF Family, DoneTree, Trashes
    <3>2. e.id \in Nat /\ e0.id \in Nat
      BY RowsAre DEF FoldersOf
    <3>3. QED BY <2>6, <3>1, <3>2
  <2>9. ASSUME NEW l \in log, l.id > aop, Trashes(l.sql, e) PROVE FALSE
    <3>1. l.id \in Nat /\ l.id < e0.id
      BY <2>6, <2>9 DEF Family, LogTree, Logged
    <3>2. QED BY <1>4, <2>3, <2>9, <3>1
  <2>10. ~Trashed(slave, e)
    BY <2>1, <2>2 DEF Trashed
  <2>11. QED BY <1>8, <2>2, <2>4, <2>7, <2>8, <2>9, <2>10 DEF Reflected
<1>9. /\ SlaveFits(slave') /\ Ids(slave'.df) \subseteq Ids(slave.df) \cup {r.id}
      /\ r.id \in Ids(slave'.df)
      /\ \A u \in slave'.df : u.id = r.id => Like(u, r)
  BY <1>1, <1>4, <1>6, <1>7, ArrivesFits
<1>10. /\ Tree(master)' /\ TodoTree' /\ DoneTree' /\ LogTree'
       /\ FoldersOf(master)' = FoldersOf(master) /\ Known' = Known
       /\ Todo' = Todo /\ Done' = Done
       /\ \A p : Placed(p)' <=> Placed(p)
       /\ \A p : FromMaster(p) => FromMaster(p)'
  <2>1. \A s \in Todo : MakesFolder(s) /\ Unseen(s.row.id) => Unseen(s.row.id)'
    <3> SUFFICES ASSUME NEW s \in Todo, Unseen(s.row.id) PROVE Unseen(s.row.id)'
      OBVIOUS
    <3>1. PICK i : i = s.row.id
      OBVIOUS
    <3>2. Unseen(i)
      BY <3>1
    <3>3. i # r.id /\ i \notin Ids(slave.df)
      BY <1>2, <1>3, <3>2 DEF Unseen, Ids
    <3>4. \A x \in slave'.df : x.id # i
      BY <1>9, <3>3 DEF Ids
    <3>5. Unseen(i)'
      BY <1>2, <3>2, <3>4 DEF Unseen
    <3>6. QED BY <3>1, <3>5
  <2>2. queue' \subseteq log
    BY DEF Family, LogTree
  <2>3. QED BY <2>1, <2>2, MastersRest
<1>11. SlaveFits(slave)'
  BY <1>2, <1>9, <1>10 DEF SlaveFits, Hangs, Placed, FoldersOf
<1>12. PageTree'
  BY <1>2, <1>10 DEF Family, PageTree
<1>13. ASSUME NEW i \in Known, Inserted(i)' PROVE Inserted(i) \/ i = r.id
  BY <1>13 DEF Inserted, Ids
<1>14. CopyTree'
  <2>1. SectionTree'
    <3>1. \A s \in slave'.df : s.id < aop
      <4>1. r.id < aop
        BY <1>4
      <4>2. \A i \in Ids(slave.df) : i < aop
        BY <1>1 DEF SectionTree, Ids
      <4>3. QED BY <1>9, <4>1, <4>2 DEF Ids
    <3>2. QED BY <1>1, <1>2, <1>10, <3>1 DEF SectionTree
  <2>2. PassedTree'
    <3>1. ASSUME NEW p \in page', NEW i \in Known, Inserted(i)' PROVE i < p.id
      <4>1. p \in page /\ p # r /\ r.id <= p.id /\ p.id \in Nat
        BY <1>2, <1>3, <3>1 DEF Family, PageTree, FromMaster
      <4>2. CASE i = r.id
        <5>1. i \notin Ids(page')
          BY <3>1 DEF Inserted
        <5>2. p.id # r.id
          BY <3>1, <4>2, <5>1 DEF Ids
        <5>3. QED BY <1>4, <4>1, <4>2, <5>2
      <4>3. CASE Inserted(i)
        BY <1>1, <4>1, <4>3 DEF PassedTree
      <4>4. QED BY <1>13, <3>1, <4>2, <4>3
    <3>2. QED BY <1>1, <1>10, <3>1 DEF PassedTree
  <2>3. ASSUME NEW e \in FoldersOf(master)
        PROVE  /\ e.id # aop
               /\ e.id > aop => Announced(e)'
               /\ Inserted(e.id)' => Copied(slave, e)'
               /\ e.trash => Reflected(e)'
    <3>1. /\ e.id # aop
          /\ e.id > aop => Announced(e)
          /\ Inserted(e.id) => Copied(slave, e)
          /\ e.trash => Reflected(e)
          /\ e.id \in Known /\ e.id \in Nat
      BY <1>1, RowsAre DEF CopyTree, Known, Ids, FoldersOf
    <3>2. Announced(e)' <=> Announced(e)
      BY <1>2, <1>10 DEF Announced
    <3>3. ASSUME Inserted(e.id)
          PROVE  /\ e.id \in Ids(slave'.df)
                 /\ \A u \in slave'.df : u.id = e.id => Image(u, e)
                 /\ Trashed(slave, e) => Trashed(slave', e)
      <4>1. e.id < r.id
        BY <1>4, <3>1, <3>3
      <4>2. e.id # r.id
        BY <1>4, <3>1, <4>1
      <4>3. Copied(slave, e)
        BY <3>1, <3>3
      <4>4. \A x \in E : x.id # e.id /\ x.id # e.parent
        <5> SUFFICES ASSUME NEW x \in E, x.id = e.id \/ x.id = e.parent PROVE FALSE
          OBVIOUS
        <5>1. x.id = e.parent
          BY <1>8, <3>1, <3>3
        <5>2. x.id # 0
          BY <1>6, RowsAre DEF Arrives
        <5>3. e.parent \in Known /\ e.parent < e.id
          BY <1>1, <5>1, <5>2 DEF Tree, FoldersOf, Known
        <5>4. Inserted(e.parent)
          <6>1. e.id <= at.last /\ e.parent \in Nat
            BY <3>3, <5>3, RowsAre DEF Inserted
          <6>2. \A p \in page : e.id < p.id /\ p.id \in Nat
            BY <1>1, <1>2, <3>1, <3>3 DEF PassedTree, Family, PageTree, FromMaster
          <6>3. e.parent \notin Ids(page)
            BY <3>1, <5>3, <6>1, <6>2 DEF Ids
          <6>4. e.parent <= at.last
            BY <1>4, <3>1, <5>3, <6>1
          <6>5. QED BY <6>3, <6>4 DEF Inserted
        <5>5. QED BY <1>8, <5>1, <5>3, <5>4
      <4>5. /\ e.id \in Ids(slave'.df) <=> e.id \in Ids(slave.df)
            /\ \A u \in slave'.df : u.id = e.id => Image(u, e)
            /\ Trashed(slave, e) => Trashed(slave', e)
        BY <1>6, <4>2, <4>3, <4>4, ArrivesOther DEF Copied
      <4>6. QED BY <4>3, <4>5 DEF Copied
    <3>4. ASSUME e.id = r.id
          PROVE  /\ e.id \in Ids(slave'.df)
                 /\ \A u \in slave'.df : u.id = e.id => Image(u, e)
                 /\ r.trash => Trashed(slave', e)
      <4>1. r.st = 0
        BY <1>4, <3>1, <3>4
      <4>2. PICK e0 \in FoldersOf(master) : e0.id = r.id /\ Beside(e0, r)
        BY <1>3, <4>1 DEF FromMaster
      <4>3. e0 = e
        BY <3>4, <4>2, RowsAre DEF FoldersOf
      <4>4. QED BY <1>9, <3>4, <4>1, <4>2, <4>3 DEF Image, Like, Beside, Trashed
    <3>5. Inserted(e.id)' => Copied(slave', e)
      BY <1>13, <3>1, <3>3, <3>4 DEF Copied
    <3>6. Copied(slave', e) => Copied(slave, e)'
      BY DEF Copied
    <3>7. ASSUME e.trash PROVE Reflected(e)'
      <4>1. Reflected(e)
        BY <3>1, <3>7
      <4>2. CASE \E s \in Done : Trashes(s, e)
        BY <1>10, <4>2 DEF Reflected
      <4>3. CASE \E l \in log : l.id > aop /\ Trashes(l.sql, e)
        BY <1>2, <4>3 DEF Reflected
      <4>4. CASE /\ e.id < aop
                 /\ at.table = 1 => \A p \in page : p.id = e.id => p.trash
                 /\ Inserted(e.id) => Trashed(slave, e)
        <5>1. Inserted(e.id)' => Trashed(slave', e)
          BY <1>3, <1>13, <3>1, <3>3, <3>4, <4>4
        <5>2. Trashed(slave', e) => Trashed(slave, e)'
          BY DEF Trashed
        <5>3. QED BY <4>4, <5>1, <5>2 DEF Reflected
      <4>5. QED BY <4>1, <4>2, <4>3, <4>4 DEF Reflected
    <3>8. QED BY <3>1, <3>2, <3>5, <3>6, <3>7
  <2>4. QED BY <1>2, <1>10, <2>1, <2>2, <2>3 DEF CopyTree
<1>15. ~whole'
  BY <1>1 DEF SectionTree
<1>16. QED BY <1>10, <1>11, <1>12, <1>14, <1>15 DEF Family

\* A row of another table.
LEMMA InsertOtherTree ==
  ASSUME NEW content, InvOf(content), Family, pc = "copy", at.table # 1,
         NEW r \in page, slave' \in Insert(slave, TableName, r), page' \subseteq page,
         UNCHANGED <<now, masters, pc, aop, at, whole, lastId, queue>>
  PROVE  Family'
<1>1. CopyTree /\ SectionTree /\ SlaveFits(slave) /\ LogTree
  BY DEF Family, CopyTree
<1>2. /\ TableName \in {"bin", "st"} /\ TableName' = TableName /\ master' = master
      /\ log' = log /\ req' = req
  BY TableNames DEF TableName, masters, InvOf, CopyInv
<1>3. Carries(slave, slave')
  <2>1. Sound(slave, now, content)
    BY DEF InvOf, TablesInv
  <2>2. TableName = "st" => r \in Stored(now, content)
    BY DEF InvOf, CopyInv
  <2>3. QED BY <1>2, <2>1, <2>2, InsertCarries
<1>4. /\ SlaveFits(slave') /\ Ids(slave'.df) \subseteq Ids(slave.df)
      /\ \A e \in FoldersOf(master) :
            /\ e.id \in Ids(slave'.df) <=> e.id \in Ids(slave.df)
            /\ (\A s \in slave.df : s.id = e.id => Image(s, e))
                  => \A u \in slave'.df : u.id = e.id => Image(u, e)
            /\ Trashed(slave, e) => Trashed(slave', e)
  BY <1>1, <1>3, CarriesFits
<1>5. /\ Tree(master)' /\ TodoTree' /\ DoneTree' /\ LogTree'
      /\ FoldersOf(master)' = FoldersOf(master) /\ Known' = Known
      /\ Todo' = Todo /\ Done' = Done
      /\ \A p : Placed(p)' <=> Placed(p)
  <2>1. \A s \in Todo : MakesFolder(s) /\ Unseen(s.row.id) => Unseen(s.row.id)'
    <3> SUFFICES ASSUME NEW s \in Todo, Unseen(s.row.id) PROVE Unseen(s.row.id)'
      OBVIOUS
    <3>1. PICK i : i = s.row.id
      OBVIOUS
    <3>2. Unseen(i)
      BY <3>1
    <3>3. \A x \in slave'.df : x.id # i
      BY <1>4, <3>2 DEF Unseen, Ids
    <3>4. Unseen(i)'
      BY <1>2, <3>2, <3>3 DEF Unseen
    <3>5. QED BY <3>1, <3>4
  <2>2. queue' \subseteq log
    BY <1>1 DEF LogTree
  <2>3. QED BY <2>1, <2>2, MastersRest
<1>6. SlaveFits(slave)'
  BY <1>2, <1>4, <1>5 DEF SlaveFits, Hangs, Placed, FoldersOf
<1>7. PageTree'
  BY <1>2 DEF PageTree
<1>8. CopyTree'
  <2>1. SectionTree'
    <3>1. \A s \in slave'.df : s.id < aop
      BY <1>1, <1>4 DEF SectionTree, Ids
    <3>2. QED BY <1>1, <1>2, <1>5, <3>1 DEF SectionTree
  <2>2. PassedTree'
    BY DEF PassedTree
  <2>3. ASSUME NEW e \in FoldersOf(master)
        PROVE  /\ e.id # aop
               /\ e.id > aop => Announced(e)'
               /\ Inserted(e.id)' => Copied(slave, e)'
               /\ e.trash => Reflected(e)'
    <3>1. /\ e.id # aop
          /\ e.id > aop => Announced(e)
          /\ Inserted(e.id) => Copied(slave, e)
          /\ e.trash => Reflected(e)
      BY <1>1 DEF CopyTree
    <3>2. (Announced(e)' <=> Announced(e)) /\ (Inserted(e.id)' <=> Inserted(e.id))
      BY <1>2, <1>5 DEF Announced, Inserted
    <3>3. Copied(slave, e) => Copied(slave', e)
      BY <1>4 DEF Copied
    <3>4. Copied(slave', e) => Copied(slave, e)'
      BY DEF Copied
    <3>5. ASSUME e.trash PROVE Reflected(e)'
      <4>1. Reflected(e)
        BY <3>1, <3>5
      <4>2. CASE \E s \in Done : Trashes(s, e)
        BY <1>5, <4>2 DEF Reflected
      <4>3. CASE \E l \in log : l.id > aop /\ Trashes(l.sql, e)
        BY <1>2, <4>3 DEF Reflected
      <4>4. CASE /\ e.id < aop
                 /\ at.table = 1 => \A p \in page : p.id = e.id => p.trash
                 /\ Inserted(e.id) => Trashed(slave, e)
        <5>1. Inserted(e.id)' => Trashed(slave', e)
          BY <1>4, <3>2, <4>4
        <5>2. Trashed(slave', e) => Trashed(slave, e)'
          BY DEF Trashed
        <5>3. QED BY <4>4, <5>1, <5>2 DEF Reflected
      <4>5. QED BY <4>1, <4>2, <4>3, <4>4 DEF Reflected
    <3>6. QED BY <3>1, <3>2, <3>3, <3>4, <3>5
  <2>4. QED BY <1>2, <1>5, <2>1, <2>2, <2>3 DEF CopyTree
<1>9. ~whole'
  BY <1>1 DEF SectionTree
<1>10. QED BY <1>5, <1>6, <1>7, <1>8, <1>9 DEF Family

LEMMA InsertRowTree == ASSUME NEW content, InvOf(content), Family, InsertRow PROVE Family'
<1>1. /\ pc = "copy"
      /\ UNCHANGED <<now, masters, aop, at, whole, lastId, queue>>
  BY DEF InsertRow
<1>2. PICK r \in Oldest(page) :
         \/ Fail /\ UNCHANGED slave
         \/ slave' \in Insert(slave, TableName, r) /\ page' = page \ {r} /\ UNCHANGED pc
  BY DEF InsertRow
<1>3. CASE Fail /\ UNCHANGED slave
  <2>1. page' \subseteq page /\ pc' # "copy"
    BY <1>3 DEF Fail
  <2>2. ~whole'
    BY <1>1 DEF Family, CopyTree, SectionTree
  <2>3. QED BY <1>1, <1>3, <2>1, <2>2, FailTree
<1>4. CASE slave' \in Insert(slave, TableName, r) /\ page' = page \ {r} /\ UNCHANGED pc
  <2>1. CASE at.table = 1
    <3>1. TableName = "df"
      BY <2>1 DEF TableName, Tables
    <3>2. QED BY <1>1, <1>4, <2>1, <3>1, InsertFileTree
  <2>2. CASE at.table # 1
    <3>1. r \in page /\ page' \subseteq page
      BY <1>4 DEF Oldest
    <3>2. QED BY <1>1, <1>4, <2>2, <3>1, InsertOtherTree
  <2>3. QED BY <2>1, <2>2
<1>5. QED BY <1>2, <1>3, <1>4

\* A row of the log has run.
LEMMA PendingRest ==
  ASSUME NEW content, InvOf(content), Family, whole,
         NEW k \in Oldest(queue), queue' = queue \ {k}, UNCHANGED <<now, masters, lastId>>
  PROVE  /\ Pending' \subseteq Pending /\ k.sql \in Pending
         /\ \A s \in Pending : s = k.sql \/ s \in Pending'
         /\ \A s \in Pending' : s \in Done \/ \E l \in log : l.sql = s /\ k.id < l.id
         /\ \A s \in Pending : s \in Done \/ \E l \in log : l.sql = s /\ k.id <= l.id
<1>1. /\ queue \subseteq log /\ lastId \in Nat /\ (\A l \in queue : l.id <= lastId)
      /\ (\A l \in log : l.id \in Nat)
      /\ \A l, j \in log : l.id = j.id => l = j
  BY DEF Family, LogTree, Logged, WholeTree
<1>2. k \in queue /\ \A l \in queue : k.id <= l.id
  BY DEF Oldest
<1>3. News' = News /\ Done' = Done
  BY DEF News, Done, masters
<1>4. \A l \in News : l \in log /\ k.id < l.id
  BY <1>1, <1>2 DEF News
<1>5. \A l \in queue \ {k} : l \in log /\ k.id < l.id
  <2> SUFFICES ASSUME NEW l \in queue, l # k PROVE k.id < l.id
    BY <1>1
  <2>1. k.id # l.id /\ k.id <= l.id
    BY <1>1, <1>2
  <2>2. QED BY <1>1, <1>2, <2>1
<1>6. Pending' = {l.sql : l \in (queue \ {k}) \cup News} \cup Done
  BY <1>3 DEF Pending
<1>7. Pending = {l.sql : l \in queue \cup News} \cup Done
  BY DEF Pending
<1>8. Pending' \subseteq Pending /\ k.sql \in Pending
  BY <1>2, <1>6, <1>7
<1>9. \A s \in Pending : s = k.sql \/ s \in Pending'
  BY <1>6, <1>7
<1>10. \A s \in Pending' : s \in Done \/ \E l \in log : l.sql = s /\ k.id < l.id
  BY <1>4, <1>5, <1>6
<1>11. \A s \in Pending : s \in Done \/ \E l \in log : l.sql = s /\ k.id <= l.id
  <2>1. k \in log /\ k.id <= k.id
    BY <1>1, <1>2
  <2>2. \A l \in log : k.id < l.id => k.id <= l.id
    BY <1>1, <2>1
  <2>3. QED BY <1>9, <1>10, <2>1, <2>2
<1>12. QED BY <1>8, <1>9, <1>10, <1>11

LEMMA RunRest ==
  ASSUME NEW content, InvOf(content), Family, pc # "copy",
         NEW k \in queue, queue' = queue \ {k},
         UNCHANGED <<now, masters, pc, aop, at, page, whole, lastId>>,
         SlaveFits(slave'),
         \A i \in Ids(slave'.df) :
            i \in Ids(slave.df) \/ (k.sql.op = "file" /\ i = k.sql.row.id),
         whole => \A e \in FoldersOf(master) : Followed(e)'
  PROVE  Family'
<1>1. /\ TableName' = TableName /\ master' = master
      /\ log' = log /\ req' = req /\ queue \subseteq log /\ k \in log
  BY DEF TableName, masters, Family, LogTree
<1>2. /\ Tree(master)' /\ TodoTree' /\ DoneTree' /\ LogTree'
      /\ FoldersOf(master)' = FoldersOf(master) /\ Known' = Known
      /\ \A p : Placed(p)' <=> Placed(p)
      /\ \A p : FromMaster(p) => FromMaster(p)'
  <2>1. \A s \in Todo : MakesFolder(s) /\ Unseen(s.row.id) => Unseen(s.row.id)'
    <3> SUFFICES ASSUME NEW s \in Todo, Unseen(s.row.id) PROVE Unseen(s.row.id)'
      OBVIOUS
    <3>1. PICK i : i = s.row.id
      OBVIOUS
    <3>2. Unseen(i)
      BY <3>1
    <3>3. \A x \in slave'.df : x.id # i
      <4>1. i \notin Ids(slave.df)
        BY <3>2 DEF Unseen, Ids
      <4>2. ~(k.sql.op = "file" /\ i = k.sql.row.id)
        BY <1>1, <3>2 DEF Unseen, Mentions
      <4>3. i \notin Ids(slave'.df)
        BY <4>1, <4>2
      <4>4. QED BY <4>3 DEF Ids
    <3>4. Unseen(i)'
      BY <1>1, <3>2, <3>3 DEF Unseen
    <3>5. QED BY <3>1, <3>4
  <2>2. queue' \subseteq log
    BY <1>1
  <2>3. QED BY <2>1, <2>2, MastersRest
<1>3. SlaveFits(slave)'
  BY <1>1, <1>2 DEF SlaveFits, Hangs, Placed, FoldersOf
<1>4. PageTree'
  BY <1>1, <1>2 DEF Family, PageTree
<1>5. ASSUME whole PROVE WholeTree'
  <2>1. lastId' \in Nat /\ lastId' <= now' /\ \A l \in queue' : l.id <= lastId'
    BY <1>5 DEF Family, WholeTree
  <2>2. QED BY <1>2, <1>5, <2>1 DEF WholeTree
<1>6. QED BY <1>2, <1>3, <1>4, <1>5 DEF Family

LEMMA RowsFit == ASSUME NEW content, InvOf(content), Family, NEW k \in queue
  PROVE  /\ k \in log /\ Logged(k) /\ Fitting(k.sql) /\ Fits(k.sql, now, content)
         /\ k.id \in Nat
         /\ k.sql.op = "file" =>
               LET r == k.sql.row
               IN  /\ r \in RowType /\ r.id \in Nat /\ r.id <= now /\ r.id \notin Own
                   /\ Placed(r.parent) /\ r.parent # r.id
                   /\ r.st = 0 <=> r.id \in Known
<1>1. k \in log /\ Logged(k) /\ Fitting(k.sql) /\ Fits(k.sql, now, content) /\ k.id \in Nat
  BY DEF Family, LogTree, Logged, InvOf, LogInv
<1>2. ASSUME k.sql.op = "file", NEW r, r = k.sql.row
      PROVE  /\ r \in RowType /\ r.id \in Nat /\ r.id <= now /\ r.id \notin Own
             /\ Placed(r.parent) /\ r.parent # r.id
             /\ r.st = 0 <=> r.id \in Known
  <2>1. r \in Made(now)
    BY <1>1, <1>2 DEF Fits
  <2>2. r \in RowType /\ r.id \in Nat /\ r.id <= now /\ r.id \notin Own /\ r.parent \in Nat
    BY <2>1, RowsAre DEF Made
  <2>3. Placed(r.parent) /\ r.parent < r.id
    BY <1>1, <1>2 DEF Fitting
  <2>4. r.st # 0 => r.id \notin Known
    BY <1>1, <1>2 DEF Logged
  <2>5. r.st = 0 => r.id \in Known
    BY <1>1, <1>2 DEF Logged, MakesFolder, Known, Ids
  <2>6. QED BY <2>2, <2>3, <2>4, <2>5
<1>3. QED BY <1>1, <1>2

\* A statement that makes no row of dfs_file.
LEMMA RunOtherTree ==
  ASSUME NEW content, InvOf(content), Family, pc = "listen",
         NEW k \in Oldest(queue), queue' = queue \ {k}, k.sql.op # "file",
         slave' \in Replay(slave, k.sql),
         UNCHANGED <<now, masters, pc, aop, at, page, whole, lastId>>
  PROVE  Family'
<1>1. k \in queue /\ k \in log /\ Fitting(k.sql) /\ Fits(k.sql, now, content) /\ k.id \in Nat
  BY RowsFit DEF Oldest
<1>2. /\ Carries(slave, slave')
      /\ k.sql.op = "trash" => \A u \in slave'.df : u.id = k.sql.on => u.trash
  <2>1. Sound(slave, now, content)
    BY DEF InvOf, TablesInv
  <2>2. QED BY <1>1, <2>1, ReplayCarries
<1>3. /\ SlaveFits(slave') /\ Ids(slave'.df) \subseteq Ids(slave.df)
      /\ Ids(FoldersOf(slave')) \subseteq Ids(FoldersOf(slave))
      /\ \A e \in FoldersOf(master) :
            /\ e.id \in Ids(slave'.df) <=> e.id \in Ids(slave.df)
            /\ (\A s \in slave.df : s.id = e.id => Image(s, e))
                  => \A u \in slave'.df : u.id = e.id => Image(u, e)
            /\ Trashed(slave, e) => Trashed(slave', e)
  BY <1>2, CarriesFits DEF Family
<1>4. ASSUME whole, NEW e \in FoldersOf(master) PROVE Followed(e)'
  <2>1. /\ Pending' \subseteq Pending
        /\ \A s \in Pending : s = k.sql \/ s \in Pending'
        /\ \A s \in Pending' : s \in Done \/ \E l \in log : l.sql = s /\ k.id < l.id
    BY <1>4, PendingRest
  <2>2. Followed(e)
    BY <1>4 DEF Family, WholeTree
  <2>3. \A s \in Pending : Makes(s, e) => s \in Pending'
    BY <2>1 DEF Makes
  <2>4. e.id \in Ids(slave'.df) \/ \E s \in Pending' : Makes(s, e)
    BY <1>3, <2>2, <2>3 DEF Followed
  <2>5. \A u \in slave'.df : u.id = e.id => Image(u, e)
    BY <1>3, <2>2 DEF Followed
  <2>6. ASSUME e.trash, ~ \E s \in Pending' : Trashes(s, e)
        PROVE  Trashed(slave', e) /\ \A s \in Pending' : ~Makes(s, e)
    <3>1. CASE Trashes(k.sql, e)
      <4>1. Trashed(slave', e)
        BY <1>2, <3>1 DEF Trashes, Trashed
      <4>2. ASSUME NEW s \in Pending', Makes(s, e) PROVE FALSE
        <5>1. CASE s \in Done
          <6>1. ~Mentions(k.sql, s.row.id)
            BY <1>1, <4>2, <5>1 DEF Family, DoneTree, Makes, MakesFolder
          <6>2. QED BY <3>1, <4>2, <6>1 DEF Mentions, OnOps, Makes, Trashes
        <5>2. CASE \E l \in log : l.sql = s /\ k.id < l.id
          <6>1. PICK l \in log : l.sql = s /\ k.id < l.id
            BY <5>2
          <6>2. Ordered(l, k) /\ l.id \in Nat
            BY <1>1 DEF Family, LogTree, Logged
          <6>3. l.id < k.id
            BY <3>1, <4>2, <6>1, <6>2 DEF Ordered
          <6>4. QED BY <1>1, <6>1, <6>2, <6>3
        <5>3. QED BY <2>1, <4>2, <5>1, <5>2
      <4>3. QED BY <4>1, <4>2
    <3>2. CASE ~Trashes(k.sql, e)
      <4>1. ~ \E s \in Pending : Trashes(s, e)
        BY <2>1, <2>6, <3>2
      <4>2. Trashed(slave, e) /\ \A s \in Pending : ~Makes(s, e)
        BY <2>2, <2>6, <4>1 DEF Followed
      <4>3. QED BY <1>3, <2>1, <4>2
    <3>3. QED BY <3>1, <3>2
  <2>7. (\E s \in Pending' : Makes(s, e)) =>
           \A x \in FoldersOf(slave') : x.id \in Own \/ x.id < e.id
    <3> SUFFICES ASSUME NEW s \in Pending', Makes(s, e), NEW x \in FoldersOf(slave')
                 PROVE  x.id \in Own \/ x.id < e.id
      OBVIOUS
    <3>1. \A y \in FoldersOf(slave) : y.id \in Own \/ y.id < e.id
      BY <2>1, <2>2 DEF Followed
    <3>2. PICK y \in FoldersOf(slave) : y.id = x.id
      BY <1>3 DEF Ids
    <3>3. QED BY <3>1, <3>2
  <2>8. (Trashed(slave', e) => Trashed(slave, e)') /\ FoldersOf(slave)' = FoldersOf(slave')
    BY DEF Trashed, FoldersOf
  <2>9. QED BY <2>4, <2>5, <2>6, <2>7, <2>8 DEF Followed
<1>5. QED BY <1>1, <1>3, <1>4, RunRest

\* A row of dfs_file comes by the log.
LEMMA RowComes ==
  ASSUME NEW content, InvOf(content), Family, NEW k \in queue, k.sql.op = "file",
         slave' \in Replay(slave, k.sql)
  PROVE  \E E : /\ Arrives(slave, k.sql.row, E, slave')
                /\ SlaveFits(slave') /\ k.sql.row.id \in Ids(slave'.df)
                /\ \A i \in Ids(slave'.df) : i \in Ids(slave.df) \/ i = k.sql.row.id
                /\ \A i \in Ids(FoldersOf(slave')) :
                      i \in Ids(FoldersOf(slave)) \/ i = k.sql.row.id
                /\ \A u \in slave'.df : u.id = k.sql.row.id => Like(u, k.sql.row)
<1>1. PICK r : r = k.sql.row
  OBVIOUS
<1>2. /\ Fits(k.sql, now, content)
      /\ r.id \in Nat /\ r.id <= now /\ r.id \notin Own
      /\ Placed(r.parent) /\ r.parent # r.id
      /\ r.st = 0 <=> r.id \in Known
  BY <1>1, RowsFit
<1>3. Sound(slave, now, content) /\ SlaveFits(slave)
  BY DEF InvOf, TablesInv, Family
<1>4. PICK E : Arrives(slave, r, E, slave')
  <2>1. \E E : Arrives(slave, k.sql.row, E, slave')
    BY <1>2, <1>3, ReplayArrives
  <2>2. QED BY <1>1, <2>1
<1>5. /\ SlaveFits(slave') /\ Ids(slave'.df) \subseteq Ids(slave.df) \cup {r.id}
      /\ r.id \in Ids(slave'.df)
      /\ Ids(FoldersOf(slave')) \subseteq Ids(FoldersOf(slave)) \cup {r.id}
      /\ \A u \in slave'.df : u.id = r.id => Like(u, r)
  BY <1>2, <1>3, <1>4, ArrivesFits
<1>6. QED BY <1>1, <1>4, <1>5

LEMMA RunFileTree ==
  ASSUME NEW content, InvOf(content), Family, pc = "listen",
         NEW k \in Oldest(queue), queue' = queue \ {k}, k.sql.op = "file", k.sql.row.st # 0,
         slave' \in Replay(slave, k.sql),
         UNCHANGED <<now, masters, pc, aop, at, page, whole, lastId>>
  PROVE  Family'
<1>1. PICK r : r = k.sql.row
  OBVIOUS
<1>2. k \in queue /\ k \in log /\ r.id \notin Known
  <2>1. k \in queue
    BY DEF Oldest
  <2>2. QED BY <1>1, <2>1, RowsFit
<1>3. PICK E :
         /\ Arrives(slave, r, E, slave')
         /\ SlaveFits(slave')
         /\ \A i \in Ids(slave'.df) : i \in Ids(slave.df) \/ i = r.id
         /\ \A i \in Ids(FoldersOf(slave')) : i \in Ids(FoldersOf(slave)) \/ i = r.id
         /\ \A u \in slave'.df : u.id = r.id => Like(u, r)
  BY <1>1, <1>2, RowComes
<1>4. \A x : x \notin E
  BY <1>1, <1>3 DEF Arrives
<1>5. \A x \in FoldersOf(slave') : \E y \in FoldersOf(slave) : y.id = x.id
  <2> SUFFICES ASSUME NEW x \in FoldersOf(slave') PROVE \E y \in FoldersOf(slave) : y.id = x.id
    OBVIOUS
  <2>1. x.id # r.id
    BY <1>1, <1>3 DEF FoldersOf, Like
  <2>2. QED BY <1>3, <2>1 DEF Ids
<1>6. ASSUME whole, NEW e \in FoldersOf(master) PROVE Followed(e)'
  <2>1. /\ Pending' \subseteq Pending
        /\ \A s \in Pending : s = k.sql \/ s \in Pending'
    BY <1>6, PendingRest
  <2>2. Followed(e)
    BY <1>6 DEF Family, WholeTree
  <2>3. \A s \in Pending : Makes(s, e) \/ Trashes(s, e) => s \in Pending'
    BY <1>1, <2>1 DEF Makes, Trashes
  <2>4. e.id # r.id
    BY <1>2 DEF Known, Ids
  <2>5. /\ e.id \in Ids(slave'.df) <=> e.id \in Ids(slave.df)
        /\ \A u \in slave'.df : u.id = e.id => Image(u, e)
        /\ Trashed(slave, e) => Trashed(slave', e)
    BY <1>3, <1>4, <2>2, <2>4, ArrivesOther DEF Followed
  <2>6. e.id \in Ids(slave'.df) \/ \E s \in Pending' : Makes(s, e)
    BY <2>2, <2>3, <2>5 DEF Followed
  <2>7. e.trash => \/ \E s \in Pending' : Trashes(s, e)
                   \/ Trashed(slave', e) /\ \A s \in Pending' : ~Makes(s, e)
    BY <2>1, <2>2, <2>3, <2>5 DEF Followed
  <2>8. (\E s \in Pending' : Makes(s, e)) =>
           \A x \in FoldersOf(slave') : x.id \in Own \/ x.id < e.id
    BY <1>5, <2>1, <2>2 DEF Followed
  <2>9. (Trashed(slave', e) => Trashed(slave, e)') /\ FoldersOf(slave)' = FoldersOf(slave')
    BY DEF Trashed, FoldersOf
  <2>10. QED BY <2>5, <2>6, <2>7, <2>8, <2>9 DEF Followed
<1>7. QED BY <1>1, <1>2, <1>3, <1>6, RunRest


LEMMA RunFolderTree ==
  ASSUME NEW content, InvOf(content), Family, pc = "listen",
         NEW k \in Oldest(queue), queue' = queue \ {k}, k.sql.op = "file", k.sql.row.st = 0,
         slave' \in Replay(slave, k.sql),
         UNCHANGED <<now, masters, pc, aop, at, page, whole, lastId>>
  PROVE  Family'
<1>1. PICK r : r = k.sql.row
  OBVIOUS
<1>2. k \in queue /\ k \in log /\ Logged(k) /\ k.id \in Nat /\ r.id \in Nat /\ r.id \notin Own
  <2>1. k \in queue
    BY DEF Oldest
  <2>2. QED BY <1>1, <2>1, RowsFit
<1>3. PICK r0 \in FoldersOf(master) : r0.id = r.id /\ Beside(r0, r)
  BY <1>1, <1>2 DEF Logged, MakesFolder
<1>4. Makes(k.sql, r0) /\ r.id < k.id
  BY <1>1, <1>2, <1>3 DEF Makes, Logged, MakesFolder
<1>5. PICK E :
         /\ Arrives(slave, r, E, slave')
         /\ SlaveFits(slave') /\ r.id \in Ids(slave'.df)
         /\ \A i \in Ids(slave'.df) : i \in Ids(slave.df) \/ i = r.id
         /\ \A i \in Ids(FoldersOf(slave')) : i \in Ids(FoldersOf(slave)) \/ i = r.id
         /\ \A u \in slave'.df : u.id = r.id => Like(u, r)
  BY <1>1, <1>2, RowComes
<1>6. \A x \in FoldersOf(slave') : x.id = r.id \/ \E y \in FoldersOf(slave) : y.id = x.id
  BY <1>5 DEF Ids
<1>7. ASSUME whole
      PROVE  /\ Pending' \subseteq Pending /\ k.sql \in Pending
             /\ \A s \in Pending : s = k.sql \/ s \in Pending'
             /\ \A s \in Pending' : s \in Done \/ \E l \in log : l.sql = s /\ k.id < l.id
             /\ \A s \in Pending : s \in Done \/ \E l \in log : l.sql = s /\ k.id <= l.id
  BY <1>7, PendingRest
\* The folders that are merged are the slave's own.
<1>8. ASSUME whole, NEW x \in E, x.id \in Known PROVE FALSE
  <2>1. x \in slave.df /\ x.st = 0 /\ ~x.trash /\ Beside(x, r)
    BY <1>5 DEF Arrives
  <2>2. PICK e \in FoldersOf(master) : e.id = x.id
    BY <1>8 DEF Known, Ids
  <2>3. Followed(e) /\ Followed(r0)
    BY <1>8 DEF Family, WholeTree
  <2>4. Beside(e, r0)
    <3>1. Image(x, e)
      BY <2>1, <2>2, <2>3 DEF Followed
    <3>2. QED BY <1>3, <2>1, <3>1 DEF Image, Beside
  <2>5. e.id < r0.id
    <3>1. x \in FoldersOf(slave) /\ x.id \notin Own
      BY <1>8, <2>1, RowsAre DEF FoldersOf
    <3>2. QED BY <1>4, <1>7, <1>8, <2>2, <2>3, <3>1 DEF Followed
  <2>6. e.trash
    BY <2>4, <2>5 DEF Family, Tree
  <2>7. e.id \in Nat /\ r0.id \in Nat
    BY RowsAre DEF FoldersOf
  <2>8. ASSUME NEW s \in Pending, Trashes(s, e) PROVE FALSE
    <3>1. CASE s \in Done
      <4>1. r0.id <= e.id
        BY <2>4, <2>8, <3>1 DEF Family, DoneTree, Trashes
      <4>2. QED BY <2>5, <2>7, <4>1
    <3>2. CASE \E l \in log : l.sql = s /\ k.id <= l.id
      <4>1. PICK l \in log : l.sql = s /\ k.id <= l.id
        BY <3>2
      <4>2. l.id \in Nat /\ l.id < r0.id
        BY <2>4, <2>5, <2>8, <4>1 DEF Family, LogTree, Logged
      <4>3. QED BY <1>2, <1>3, <1>4, <4>1, <4>2
    <3>3. QED BY <1>7, <1>8, <3>1, <3>2
  <2>9. ~Trashed(slave, e)
    BY <2>1, <2>2 DEF Trashed
  <2>10. QED BY <2>3, <2>6, <2>8, <2>9 DEF Followed
<1>9. ASSUME whole, NEW e \in FoldersOf(master), e.id # r.id PROVE Followed(e)'
  <2>1. Followed(e)
    BY <1>9 DEF Family, WholeTree
  <2>2. \A s \in Pending : Makes(s, e) \/ Trashes(s, e) => s \in Pending'
    BY <1>1, <1>7, <1>9 DEF Makes, Trashes
  <2>3. \A x \in E : x.id = e.id \/ x.id = e.parent => x.id = r.id
    <3> SUFFICES ASSUME NEW x \in E, x.id = e.id \/ x.id = e.parent PROVE FALSE
      OBVIOUS
    <3>1. x.id # 0
      BY <1>5, RowsAre DEF Arrives
    <3>2. e.parent = 0 \/ e.parent \in Known
      BY DEF Family, Tree, FoldersOf, Known
    <3>3. x.id \in Known
      BY <3>1, <3>2 DEF Known, Ids
    <3>4. QED BY <1>8, <1>9, <3>3
  <2>4. /\ e.id \in Ids(slave'.df) <=> e.id \in Ids(slave.df)
        /\ \A u \in slave'.df : u.id = e.id => Image(u, e)
        /\ Trashed(slave, e) => Trashed(slave', e)
    <3>1. \A s \in slave.df : s.id = e.id => Image(s, e)
      BY <2>1 DEF Followed
    <3>2. QED BY <1>5, <1>9, <2>3, <3>1, ArrivesOther
  <2>5. e.id \in Ids(slave'.df) \/ \E s \in Pending' : Makes(s, e)
    BY <2>1, <2>2, <2>4 DEF Followed
  <2>6. e.trash => \/ \E s \in Pending' : Trashes(s, e)
                   \/ Trashed(slave', e) /\ \A s \in Pending' : ~Makes(s, e)
    BY <1>7, <1>9, <2>1, <2>2, <2>4 DEF Followed
  <2>7. ASSUME NEW s \in Pending', Makes(s, e), NEW x \in FoldersOf(slave')
        PROVE  x.id \in Own \/ x.id < e.id
    <3>1. CASE \E y \in FoldersOf(slave) : y.id = x.id
      BY <1>7, <1>9, <2>1, <2>7, <3>1 DEF Followed
    <3>2. CASE x.id = r.id
      <4>1. e.id \in Nat
        BY RowsAre DEF FoldersOf
      <4>2. r0.id <= e.id
        <5>1. CASE s \in Done
          <6>1. s.op = "file" /\ s.row.id = e.id /\ MakesFolder(s)
            BY <2>7 DEF Makes, MakesFolder
          <6>2. r0.id <= s.row.id
            BY <5>1, <6>1 DEF Family, DoneTree
          <6>3. QED BY <6>1, <6>2
        <5>2. CASE \E l \in log : l.sql = s /\ k.id < l.id
          <6>1. PICK l \in log : l.sql = s /\ k.id < l.id
            BY <5>2
          <6>2. Ordered(k, l)
            BY <1>2 DEF Family, LogTree
          <6>3. r0.id < e.id
            BY <1>4, <2>7, <6>1, <6>2 DEF Ordered
          <6>4. QED BY <1>2, <1>3, <4>1, <6>3
        <5>3. QED BY <1>7, <1>9, <2>7, <5>1, <5>2
      <4>3. QED BY <1>2, <1>3, <1>9, <3>2, <4>1, <4>2
    <3>3. QED BY <1>6, <3>1, <3>2
  <2>8. (Trashed(slave', e) => Trashed(slave, e)') /\ FoldersOf(slave)' = FoldersOf(slave')
    BY DEF Trashed, FoldersOf
  <2>9. QED BY <2>4, <2>5, <2>6, <2>7, <2>8 DEF Followed
<1>10. ASSUME whole PROVE Followed(r0)'
  <2>1. Followed(r0)
    BY <1>10 DEF Family, WholeTree
  <2>2. \A u \in slave'.df : u.id = r0.id => Image(u, r0)
    BY <1>1, <1>3, <1>5 DEF Image, Like, Beside
  <2>3. ASSUME r0.trash PROVE \E s \in Pending' : Trashes(s, r0)
    <3>1. PICK s \in Pending : Trashes(s, r0)
      BY <1>4, <1>7, <1>10, <2>1, <2>3 DEF Followed
    <3>2. s # k.sql
      BY <3>1 DEF Trashes
    <3>3. QED BY <1>7, <1>10, <3>1, <3>2
  <2>4. ASSUME NEW s \in Pending', Makes(s, r0) PROVE FALSE
    <3>1. CASE s \in Done
      <4>1. ~Mentions(k.sql, s.row.id)
        BY <1>2, <2>4, <3>1 DEF Family, DoneTree, Makes, MakesFolder
      <4>2. QED BY <1>1, <1>3, <2>4, <4>1 DEF Mentions, Makes
    <3>2. CASE \E l \in log : l.sql = s /\ k.id < l.id
      <4>1. PICK l \in log : l.sql = s /\ k.id < l.id
        BY <3>2
      <4>2. Ordered(k, l)
        BY <1>2 DEF Family, LogTree
      <4>3. r0.id < r0.id
        BY <1>4, <2>4, <4>1, <4>2 DEF Ordered
      <4>4. QED BY <1>2, <1>3, <4>3
    <3>3. QED BY <1>7, <1>10, <2>4, <3>1, <3>2
  <2>5. r0.id \in Ids(slave'.df)
    BY <1>3, <1>5
  <2>6. (Trashed(slave', r0) => Trashed(slave, r0)') /\ FoldersOf(slave)' = FoldersOf(slave')
    BY DEF Trashed, FoldersOf
  <2>7. QED BY <2>2, <2>3, <2>4, <2>5, <2>6 DEF Followed
<1>11. ASSUME whole, NEW e \in FoldersOf(master) PROVE Followed(e)'
  <2>1. CASE e.id = r.id
    <3>1. e = r0
      BY <1>3, <2>1, RowsAre DEF FoldersOf
    <3>2. QED BY <1>10, <1>11, <3>1
  <2>2. CASE e.id # r.id
    BY <1>9, <1>11, <2>2
  <2>3. QED BY <2>1, <2>2
<1>12. QED BY <1>1, <1>2, <1>5, <1>11, RunRest

LEMMA RunSqlTree == ASSUME NEW content, InvOf(content), Family, RunSql PROVE Family'
<1>1. pc = "listen" /\ UNCHANGED <<now, masters, aop, at, whole, lastId>>
  BY DEF RunSql
<1>2. PICK k \in Oldest(queue) :
         \/ Fail /\ UNCHANGED <<slave, queue>>
         \/ slave' \in Replay(slave, k.sql) /\ queue' = queue \ {k} /\ UNCHANGED <<pc, page>>
  BY DEF RunSql
<1>3. CASE Fail /\ UNCHANGED <<slave, queue>>
  <2>1. page' \subseteq page /\ pc' # "copy"
    BY <1>3 DEF Fail
  <2>2. ~whole' \/ (whole /\ whole')
    BY <1>1
  <2>3. QED BY <1>1, <1>3, <2>1, <2>2, FailTree
<1>4. CASE slave' \in Replay(slave, k.sql) /\ queue' = queue \ {k} /\ UNCHANGED <<pc, page>>
  BY <1>1, <1>4, RunOtherTree, RunFileTree, RunFolderTree
<1>5. QED BY <1>2, <1>3, <1>4

\* What the downloads change says nothing of the rows.
LEMMA StillTree ==
  ASSUME NEW content, InvOf(content), Family,
         UNCHANGED <<now, masters, slave, pc, aop, at, page, whole, lastId, queue>>
  PROVE  Family'
<1>1. /\ queue' \subseteq log /\ log' = log /\ master' = master /\ req' = req
      /\ page' \subseteq page
  BY DEF Family, LogTree, masters
<1>2. /\ Tree(master)' /\ TodoTree' /\ DoneTree' /\ LogTree'
      /\ FoldersOf(master)' = FoldersOf(master) /\ Known' = Known
      /\ Todo' = Todo /\ Done' = Done
      /\ SlaveFits(slave)' /\ PageTree'
  BY <1>1, SlaveRests
<1>3. (whole => WholeTree)'
  <2>1. Pending' = Pending
    BY <1>1, <1>2 DEF Pending, News
  <2>2. \A e : Followed(e)' <=> Followed(e)
    BY <2>1 DEF Followed, Trashed
  <2>3. QED BY <1>2, <2>2 DEF Family, WholeTree
<1>4. (pc = "copy" => CopyTree)'
  <2> SUFFICES ASSUME CopyTree PROVE CopyTree'
    BY DEF Family
  <2>1. SectionTree'
    BY <1>1, <1>2 DEF CopyTree, SectionTree
  <2>2. PassedTree'
    BY <1>2 DEF CopyTree, PassedTree, Inserted
  <2>3. \A e : /\ Announced(e)' <=> Announced(e)
               /\ Inserted(e.id)' <=> Inserted(e.id)
               /\ Copied(slave, e)' <=> Copied(slave, e)
               /\ Reflected(e)' <=> Reflected(e)
    BY <1>1, <1>2 DEF Announced, Inserted, Copied, Reflected, Trashed
  <2>4. QED BY <1>2, <2>1, <2>2, <2>3 DEF CopyTree
<1>5. QED BY <1>2, <1>3, <1>4 DEF Family

LEMMA OtherTree ==
  ASSUME NEW content, InvOf(content), Family,
         Receive \/ Received \/ ReadError \/ ListenAll \/ NoAnswer \/ Crash
  PROVE  Family'
<1>1. /\ UNCHANGED <<now, masters, slave, aop, at, whole, lastId, queue>>
      /\ ~whole' \/ (whole /\ whole')
  <2>1. UNCHANGED <<now, masters, slave, aop, at, whole, lastId, queue>>
    BY DEF Receive, Received, ReadError, ListenAll, NoAnswer, Crash
  <2>2. QED BY <2>1
<1>2. CASE UNCHANGED <<pc, page>>
  BY <1>1, <1>2, StillTree
<1>3. CASE pc' # "copy" /\ page' \subseteq page
  BY <1>1, <1>3, FailTree
<1>4. UNCHANGED <<pc, page>> \/ (pc' # "copy" /\ page' \subseteq page)
  BY DEF Receive, Received, ReadError, ListenAll, NoAnswer, Crash, Fail
<1>5. QED BY <1>2, <1>3, <1>4

LEMMA InitTree == ASSUME Tidy, Init PROVE Family
<1>1. PICK m \in MasterInit, l \in LocalInit :
         /\ master = [df |-> m.df, bin |-> {}, st |-> m.st]
         /\ slave = [df |-> l.df, bin |-> {}, st |-> l.st]
  BY DEF Init
<1>2. /\ now = FirstId /\ log = {} /\ req = NoRequest /\ page = {} /\ queue = {}
      /\ pc = "off" /\ whole = FALSE
  BY DEF Init
<1>3. Todo = {} /\ Done = {}
  BY <1>2, AsSet DEF Todo, Done, NoRequest
<1>4. Tree(master)
  BY <1>1 DEF Tidy, Tree, FoldersOf
<1>5. SlaveFits(slave)
  <2> SUFFICES ASSUME NEW s \in l.df
               PROVE  /\ s.id \in Nat /\ s.id <= now /\ Hangs(slave, s)
                      /\ s.st = 0 => s.id \in Own \cup Known
                      /\ s.id \in Known => s.parent # s.id
    BY <1>1 DEF SlaveFits
  <2>1. s.id \in 1..FirstId
    BY InitAssumption
  <2>2. s.id \in Nat /\ s.id <= now
    BY <1>2, <2>1, NumberAssumption
  <2>3. s.id \in Own
    BY DEF Own, Ids
  <2>4. s.id \notin Known
    <3>1. s.id \notin Ids(m.df)
      <4>1. {r.id : r \in m.df} \cap {r.id : r \in l.df} = {}
        BY InitAssumption
      <4>2. QED BY <4>1 DEF Ids
    <3>2. Known \subseteq Ids(m.df)
      BY <1>1 DEF Known, FoldersOf, Ids
    <3>3. QED BY <3>1, <3>2
  <2>5. Hangs(slave, s)
    <3>1. s.parent = 0 \/ s.parent \in Ids(FoldersOf(l))
      BY DEF Tidy
    <3>2. FoldersOf(slave) = FoldersOf(l)
      BY <1>1 DEF FoldersOf
    <3>3. QED BY <3>1, <3>2 DEF Hangs, Placed, Ids
  <2>6. QED BY <2>2, <2>3, <2>4, <2>5
<1>6. TodoTree /\ DoneTree /\ LogTree /\ PageTree
  BY <1>2, <1>3 DEF TodoTree, DoneTree, LogTree, PageTree
<1>7. QED BY <1>2, <1>4, <1>5, <1>6 DEF Family

LEMMA FamilyNext ==
  ASSUME "section" \in Calm, Inv, Family, [Next]_vars
  PROVE  Family'
<1>1. PICK content : InvOf(content)
  BY DEF Inv
<1>2. CASE \E p \in Folders, n \in FolderName : AddFolder(p, n)
  BY <1>1, <1>2, AddFolderTree
<1>3. CASE \E p \in Folders, n \in FileName, x \in Md5 : AddFile(p, n, x)
  BY <1>1, <1>3, AddFileTree
<1>4. CASE \E r \in master.df : SetDelete(r) \/ Purge(r)
  BY <1>1, <1>4, SetDeleteTree, PurgeTree
<1>5. CASE \E r \in master.df, n \in NewName : r.st # 0 /\ Rename(r, n)
  BY <1>1, <1>5, RenameTree
<1>6. CASE Commit \/ LogNext
  BY <1>1, <1>6, CommitTree, LogNextTree
<1>7. CASE SyncAll \/ GetTableData \/ NextTable \/ InsertRow \/ Finish
  BY <1>1, <1>7, SyncAllTree, GetTableDataTree, NextTableTree, InsertRowTree, FinishTree
<1>8. CASE RequestLog \/ RunSql
  BY <1>1, <1>8, RequestLogTree, RunSqlTree
<1>9. CASE Receive \/ Received \/ ReadError \/ ListenAll \/ NoAnswer \/ Crash
  BY <1>1, <1>9, OtherTree
<1>10. CASE UNCHANGED vars
  <2>1. UNCHANGED <<now, masters, slave, pc, aop, at, page, whole, lastId, queue>>
    BY <1>10 DEF vars
  <2>2. QED BY <1>1, <2>1, StillTree
<1>11. QED BY <1>2, <1>3, <1>4, <1>5, <1>6, <1>7, <1>8, <1>9, <1>10 DEF Next

\* When the copy is complete and the log has run, the folder of every file
\* and folder of the slave is there: of the slave's own that were in a folder
\* which was merged (DfsFileSyncHandle.ByTable), and of those that came by a
\* page or by the log.
THEOREM ParentsExistHolds ==
  ASSUME "section" \in Calm, Tidy
  PROVE  Spec => []ParentsExist
<1>1. Init => Inv /\ Family
  BY InitInv, InitTree
<1>2. Inv /\ Family /\ [Next]_vars => (Inv /\ Family)'
  BY NextInv, FamilyNext
<1>3. Family => ParentsExist
  <2> SUFFICES ASSUME Family, Settled, NEW s \in slave.df, s.parent # 0
               PROVE  s.parent \in Ids(slave.df)
    BY DEF ParentsExist
  <2>1. Pending = {}
    <3>1. queue = {} /\ News = {} /\ Done = {}
      BY AsSet DEF Settled, NoRequest, Done
    <3>2. QED BY <3>1 DEF Pending
  <2>2. \A e \in FoldersOf(master) : e.id \in Ids(slave.df)
    BY <2>1 DEF Family, Settled, WholeTree, Followed
  <2>3. Known \subseteq Ids(slave.df)
    BY <2>2 DEF Known, Ids
  <2>4. s.parent \in Known \/ \E f \in FoldersOf(slave) : f.id = s.parent
    BY DEF Family, SlaveFits, Hangs, Placed
  <2>5. QED BY <2>3, <2>4 DEF Ids, FoldersOf
<1>4. QED BY <1>1, <1>2, <1>3, PTL DEF Spec
=============================================================================

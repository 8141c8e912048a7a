--------------------------- MODULE UploadsProofs ---------------------------
(***************************************************************************)
(* What Uploads guarantees for any numbers of browsers, goroutines, blocks *)
(* and files, any breaks and any crashes, as long as one client uploads    *)
(* the file in pieces.                                                     *)
(***************************************************************************)
EXTENDS Uploads, TLAPS, WellFoundedInduction, FiniteSetTheorems,
        SequenceTheorems

\* Two clients with the same md5 take each other's temporary file away
\* and write to it at once.
OneClient == \A c, d \in Client : c = d

-----------------------------------------------------------------------------
(* The inductive invariant, in parts.                                      *)

\* Between the mark and its removal, and with a stored file in hand.
Inside == {"open", "stream", "check", "save", "copy", "remove", "leave", "failed"}
Held   == {"remove", "leave", "commit row", "notify", "commit entry"}
Phase  == Inside \cup Held \cup {"idle", "enter", "look up", "upload"}

ClientState  == [at : {"ask", "send", "link", "wait", "done"}, from : Nat,
                 by : Go \cup {NoOne}]
RequestState == [pc : Phase, for : Uploader \cup {NoOne}, fd : 0..MaxInode,
                 next : Nat, got : 0..MaxInode]

\* The values of the variables.
DiskInv == file \in [Inode -> Seq(1..Blocks)] /\ temp \in 0..MaxInode
TableInv ==
    /\ rows \in Seq(Inode)
    /\ handled \subseteq entry /\ entry \subseteq Uploader \X Inode
    /\ worker \in [pc : {"wait", "query", "handle", "reset"}, list : SUBSET entry]
ServerInv ==
    /\ marked \in BOOLEAN /\ hasData \in BOOLEAN
    /\ client \in [Uploader -> ClientState]
    /\ req \in [Go -> RequestState]
    /\ faults \in [break : Nat, crash : Nat]

\* A request knows whose it is, and has opened or stored what its step needs.
RequestInv ==
    \A g \in Go :
        /\ req[g].pc # "idle" => req[g].for \in Uploader
        /\ req[g].pc \in Inside \cup {"enter", "commit row"} => req[g].for \in Client
        /\ req[g].pc \in {"enter", "open", "stream"} => req[g].next # 0
        /\ req[g].pc \in {"stream", "copy"} => req[g].fd # 0
        /\ req[g].pc \in Held => req[g].got # 0

\* The page sends no pieces.
PageInv == \A c \in Browser : client[c].at \notin {"send", "link"}

\* One goroutine at a time is between the request for a stream and the end
\* of the mark, which tells that it is; nobody is while a client is about to
\* send.
Carries(g) == req[g].pc \in Inside \cup {"enter"}
TurnInv ==
    /\ \A g, h \in Go : Carries(g) /\ Carries(h) => g = h
    /\ marked <=> \E g \in Go : req[g].pc \in Inside
    /\ \A g \in Go : req[g].pc = "enter" =>
          client[req[g].for].at = "wait" /\ client[req[g].for].by = g
    /\ \A c \in Client : client[c].at = "send" => \A g \in Go : ~Carries(g)

\* What is being written is neither stored nor about to be.
RowOf == {rows[k] : k \in DOMAIN rows}
ApartInv ==
    /\ temp # 0 => temp \notin RowOf /\ \A g \in Go : temp # req[g].got
    /\ \A g \in Go : req[g].pc = "stream" =>
          req[g].fd \notin RowOf /\ \A h \in Go : req[g].fd # req[h].got

\* What is stored, or passed the comparison with the md5, is the file.
ContentInv ==
    /\ StoredIsWhole
    /\ \A g \in Go :
          /\ req[g].pc \in Held => file[req[g].got] = Whole
          /\ req[g].pc = "save" /\ temp # 0 => file[temp] = Whole
          /\ req[g].pc = "copy" => file[req[g].fd] = Whole
    /\ \A e \in entry : e[2] \in RowOf

BaseInv == DiskInv /\ TableInv /\ ServerInv /\ RequestInv /\ PageInv

-----------------------------------------------------------------------------
(* New inodes, and the files in them.                                      *)

LEMMA NatHasLeast == ASSUME NEW S \in SUBSET Nat, S # {}
  PROVE \E i \in S : \A j \in S : i <= j
<1> DEFINE Below == {1..i : i \in S}
           R == StrictSubsetOrdering(Nat)
<1>1. Below \subseteq FiniteSubsetsOf(Nat)
  BY FS_Interval DEF FiniteSubsetsOf
<1>2. PICK T \in Below : \A U \in Below : <<U, T>> \notin R
  <2>1. IsWellFoundedOn(R, FiniteSubsetsOf(Nat))
    BY FS_StrictSubsetOrderingWellFounded
  <2>2. Below # {}
    OBVIOUS
  <2> HIDE DEF Below, R
  <2>3. QED BY <1>1, <2>1, <2>2, WFMin
<1>3. PICK i \in S : T = 1..i
  BY <1>2
<1>4. ASSUME NEW j \in S, j < i PROVE FALSE
  <2>1. /\ 1..j \in SUBSET Nat /\ 1..i \in SUBSET Nat
        /\ 1..j \subseteq 1..i /\ 1..j # 1..i
    <3>1. i \in 1..i /\ i \notin 1..j
      BY <1>4
    <3>2. QED BY <1>4, <3>1
  <2>2. <<1..j, 1..i>> \in R
    BY <2>1 DEF StrictSubsetOrdering
  <2>3. 1..j \in Below
    OBVIOUS
  <2> HIDE DEF Below, R
  <2>4. QED BY <1>2, <1>3, <2>2, <2>3
<1>5. QED BY <1>4

LEMMA SizesAre == /\ Blocks \in Nat /\ Blocks # 0 /\ MaxInode \in Nat
                  /\ MaxBreak \in Nat /\ MaxCrash \in Nat
  BY SizeAssumption

USE UploadersAssumption, SizesAre

\* An inode, or none.
LEMMA InodeIs == \A i : i \in Inode <=> i \in 0..MaxInode /\ i # 0
  BY DEF Inode

LEMMA NewInodeIs == ASSUME Inode \ Used # {}
  PROVE NewInode \in Inode /\ NewInode \notin Used
<1>1. Inode \ Used \in SUBSET Nat
  BY DEF Inode
<1>2. \E i \in Inode \ Used : \A j \in Inode \ Used : i <= j
  BY ONLY <1>1, NatHasLeast, Inode \ Used # {}
<1>3. NewInode \in Inode \ Used
  BY ONLY <1>2 DEF NewInode
<1>4. QED BY <1>3

\* A new file changes no other, and nothing led to it.
LEMMA NewFileIs ==
    ASSUME DiskInv, NEW content \in Seq(1..Blocks), NewFile(content)
    PROVE  /\ NewInode \in Inode
           /\ file' \in [Inode -> Seq(1..Blocks)]
           /\ file'[NewInode] = content
           /\ \A i \in Inode : i # NewInode => file'[i] = file[i]
           /\ NewInode # temp /\ NewInode \notin RowOf
           /\ \A g \in Go : NewInode # req[g].fd /\ NewInode # req[g].got
<1>1. NewInode \in Inode /\ NewInode \notin Used
  BY NewInodeIs DEF NewFile
<1>2. file' = [file EXCEPT ![NewInode] = content]
  BY DEF NewFile
<1>3. NewInode # temp /\ NewInode \notin RowOf
  BY <1>1 DEF Used, RowOf
<1>4. \A g \in Go : NewInode # req[g].fd /\ NewInode # req[g].got
  BY <1>1 DEF Used
<1>5. QED BY <1>1, <1>2, <1>3, <1>4 DEF DiskInv

LEMMA WholeIs == Whole \in Seq(1..Blocks)
  BY DEF Whole

LEMMA RowOfIs == ASSUME rows \in Seq(Inode)
  PROVE /\ RowOf \subseteq Inode
        /\ rows # <<>> => Head(rows) \in RowOf
        /\ StoredIsWhole <=> \A i \in RowOf : file[i] = Whole
<1>1. ASSUME rows # <<>> PROVE Head(rows) \in RowOf
  <2>1. 1 \in DOMAIN rows /\ Head(rows) = rows[1]
    BY <1>1
  <2>2. QED BY <2>1 DEF RowOf
<1>2. \A k \in DOMAIN rows : rows[k] \in Inode
  OBVIOUS
<1>3. QED BY <1>1, <1>2 DEF RowOf, StoredIsWhole

LEMMA AddRowIs == ASSUME rows \in Seq(Inode), NEW i \in Inode, AddRow(i)
  PROVE /\ rows' \in Seq(Inode)
        /\ RowOf' = RowOf \cup {i}
<1>1. CASE i \in RowOf
  <2>1. rows' = rows
    BY <1>1 DEF AddRow, RowOf
  <2>2. QED BY <1>1, <2>1 DEF RowOf
<1>2. CASE i \notin RowOf
  <2>1. rows' = Append(rows, i)
    BY <1>2 DEF AddRow, RowOf
  <2>2. rows' \in Seq(Inode) /\ Len(rows') = Len(rows) + 1
    BY <2>1, AppendProperties
  <2>3. /\ DOMAIN rows' = 1..Len(rows) + 1
        /\ DOMAIN rows = 1..Len(rows) /\ Len(rows) \in Nat
    BY <2>2
  <2>4. /\ rows'[Len(rows) + 1] = i
        /\ \A k \in 1..Len(rows) : rows'[k] = rows[k]
    BY <2>1, AppendProperties
  <2>5. RowOf' = RowOf \cup {i}
    BY ONLY <2>3, <2>4 DEF RowOf
  <2>6. QED BY <2>2, <2>5
<1>3. QED BY <1>1, <1>2

-----------------------------------------------------------------------------
(* Type correctness.                                                       *)

LEMMA IdleIs == /\ Idle \in RequestState /\ Idle.pc = "idle"
                /\ Idle.for = NoOne /\ Idle.fd = 0 /\ Idle.got = 0
<1>1. 0 \in 0..MaxInode
  OBVIOUS
<1>2. QED BY <1>1 DEF Idle, RequestState, Phase

LEMMA BaseInit == Init => BaseInv
<1> SUFFICES ASSUME Init PROVE BaseInv
  OBVIOUS
<1>1. DiskInv
  BY DEF Init, DiskInv
<1>2. TableInv
  BY DEF Init, TableInv
<1>3. ServerInv
  <2>1. client \in [Uploader -> ClientState]
    BY DEF Init, ClientState
  <2>2. req \in [Go -> RequestState]
    BY IdleIs DEF Init
  <2>3. faults \in [break : Nat, crash : Nat]
    BY DEF Init
  <2>4. QED BY <2>1, <2>2, <2>3 DEF Init, ServerInv
<1>4. RequestInv
  BY DEF Init, RequestInv, Inside, Held, Idle
<1>5. PageInv
  BY DEF Init, PageInv, Uploader
<1>6. QED BY <1>1, <1>2, <1>3, <1>4, <1>5 DEF BaseInv

\* A step of a request that leaves the others alone.
LEMMA OneRequest ==
    ASSUME BaseInv, NEW g \in Go, NEW r \in RequestState,
           req' = [req EXCEPT ![g] = r],
           r.pc # "idle" => r.for \in Uploader,
           r.pc \in Inside \cup {"enter", "commit row"} => r.for \in Client,
           r.pc \in {"enter", "open", "stream"} => r.next # 0,
           r.pc \in {"stream", "copy"} => r.fd # 0,
           r.pc \in Held => r.got # 0
    PROVE  req' \in [Go -> RequestState] /\ RequestInv'
<1>1. req \in [Go -> RequestState] /\ RequestInv
  BY DEF BaseInv, ServerInv
<1>2. req' \in [Go -> RequestState]
  BY <1>1
<1>3. \A h \in Go : req'[h] = IF h = g THEN r ELSE req[h]
  BY <1>1
<1>4. RequestInv'
  BY <1>1, <1>3 DEF RequestInv
<1>5. QED BY <1>2, <1>4

\* The answer to g leaves a page where a page can be.
LEMMA AnswerIs ==
    ASSUME BaseInv, NEW g \in Go, NEW a \in {"ask", "link", "done"}, Answer(g, a),
           a = "link" => req[g].for \in Client
    PROVE  /\ req' \in [Go -> RequestState] /\ RequestInv'
           /\ client' \in [Uploader -> ClientState] /\ PageInv'
<1>1. Idle \in RequestState
  BY IdleIs
<1>2. req' = [req EXCEPT ![g] = Idle]
  BY DEF Answer
<1>3. req' \in [Go -> RequestState] /\ RequestInv'
  BY <1>1, <1>2, OneRequest, IdleIs DEF Inside, Held
<1>4. client' \in [Uploader -> ClientState]
  BY DEF Answer, BaseInv, ServerInv, ClientState
<1>5. PageInv'
  BY DEF Answer, BaseInv, ServerInv, PageInv, Uploader
<1>6. QED BY <1>3, <1>4, <1>5

LEMMA MoveIs ==
    ASSUME BaseInv, NEW g \in Go, req[g].pc # "idle",
           NEW p \in Phase \ {"idle", "enter"}, Move(g, p),
           p \in Inside \cup {"commit row"} => req[g].for \in Client,
           p \in {"open", "stream"} => req[g].next # 0,
           p \in {"stream", "copy"} => req[g].fd # 0,
           p \in Held => req[g].got # 0
    PROVE  req' \in [Go -> RequestState] /\ RequestInv'
<1> DEFINE r == [req[g] EXCEPT !.pc = p]
<1>1. req[g] \in RequestState
  BY DEF BaseInv, ServerInv
<1>2. req[g].for \in Uploader
  BY DEF BaseInv, RequestInv
<1>3. /\ r \in RequestState /\ r.pc = p /\ r.for = req[g].for
      /\ r.next = req[g].next /\ r.fd = req[g].fd /\ r.got = req[g].got
  BY <1>1 DEF RequestState
<1>4. req' = [req EXCEPT ![g] = r]
  BY DEF Move
<1> HIDE DEF r
<1>5. QED BY <1>2, <1>3, <1>4, OneRequest

LEMMA RequestIs ==
    ASSUME BaseInv, NEW c \in Uploader, NEW p \in {"enter", "look up", "upload"},
           NEW n \in Nat, Request(c, p, n), p = "enter" => n # 0 /\ c \in Client
    PROVE  /\ req' \in [Go -> RequestState] /\ RequestInv'
           /\ client' \in [Uploader -> ClientState] /\ PageInv'
<1> DEFINE g == CHOOSE g \in Go : req[g] = Idle
           r == [Idle EXCEPT !.pc = p, !.for = c, !.next = n]
<1>1. g \in Go
  BY DEF Request
<1>2. /\ r \in RequestState /\ r.pc = p /\ r.for = c
      /\ r.next = n /\ r.fd = 0 /\ r.got = 0
  BY IdleIs DEF RequestState, Phase
<1>3. /\ req' = [req EXCEPT ![g] = r]
      /\ client' = [client EXCEPT ![c].at = "wait", ![c].by = g]
  BY DEF Request
<1>4. client' \in [Uploader -> ClientState]
  <2>1. client \in [Uploader -> ClientState]
    BY DEF BaseInv, ServerInv
  <2> HIDE DEF g
  <2>2. [client EXCEPT ![c].at = "wait", ![c].by = g] \in [Uploader -> ClientState]
    BY ONLY <1>1, <2>1, c \in Uploader DEF ClientState
  <2>3. QED BY ONLY <1>3, <2>2
<1> HIDE DEF g, r
<1>5. PageInv'
  <2>1. client \in [Uploader -> ClientState]
    BY DEF BaseInv, ServerInv
  <2>2. \A d \in Uploader : client'[d].at = IF d = c THEN "wait" ELSE client[d].at
    BY ONLY <1>3, <2>1, c \in Uploader DEF ClientState
  <2>3. QED BY <2>2 DEF BaseInv, PageInv, Uploader
<1>6. req' \in [Go -> RequestState] /\ RequestInv'
  BY <1>1, <1>2, <1>3, OneRequest DEF Inside, Held
<1>7. QED BY <1>4, <1>5, <1>6

\* A file stored for g, and what g does next.
LEMMA StoreIs ==
    ASSUME BaseInv, NEW g \in Go, req[g].pc # "idle",
           NEW p \in {"remove", "commit entry"}, NEW content \in Seq(1..Blocks),
           Store(g, content, p), temp' = temp,
           p = "remove" => req[g].for \in Client
    PROVE  DiskInv' /\ req' \in [Go -> RequestState] /\ RequestInv'
<1> DEFINE r == [req[g] EXCEPT !.pc = p, !.got = NewInode]
<1>1. NewFile(content) /\ req' = [req EXCEPT ![g] = r]
  BY DEF Store
<1>2. DiskInv' /\ NewInode \in Inode
  BY <1>1, NewFileIs DEF BaseInv, DiskInv
<1>3. req[g] \in RequestState /\ req[g].for \in Uploader
  BY DEF BaseInv, ServerInv, RequestInv
<1>4. r \in RequestState /\ r.pc = p /\ r.for = req[g].for /\ r.got # 0
  BY <1>2, <1>3, InodeIs DEF RequestState, Phase, Inside, Held
<1> HIDE DEF r
<1>5. QED BY <1>1, <1>2, <1>3, <1>4, OneRequest DEF Inside

LEMMA BaseStep == BaseInv /\ [Next]_vars => BaseInv'
<1> SUFFICES ASSUME BaseInv, [Next]_vars PROVE BaseInv'
  OBVIOUS
<1> USE DEF disk, db
<1>types. /\ DiskInv /\ TableInv /\ ServerInv /\ RequestInv /\ PageInv
          /\ client \in [Uploader -> ClientState]
          /\ req \in [Go -> RequestState]
          /\ marked \in BOOLEAN /\ hasData \in BOOLEAN
          /\ faults \in [break : Nat, crash : Nat]
  BY DEF BaseInv, ServerInv
<1>1. ASSUME NEW g \in Go, Enter(g) PROVE BaseInv'
  <2>1. req' \in [Go -> RequestState] /\ RequestInv'
    <3>1. req[g].for \in Client /\ req[g].next # 0
      BY <1>1 DEF BaseInv, RequestInv, Enter
    <3>2. CASE marked
      BY <1>1, <3>1, <3>2, MoveIs DEF Enter, Phase, Inside, Held
    <3>3. CASE ~marked
      BY <1>1, <3>1, <3>3, MoveIs DEF Enter, Phase, Inside, Held
    <3>4. QED BY <3>2, <3>3
  <2>2. QED BY <1>1, <2>1, <1>types DEF Enter, BaseInv, DiskInv, TableInv, ServerInv, PageInv
<1>2. ASSUME NEW g \in Go, OpenTemp(g) PROVE BaseInv'
  <2>1. DiskInv' /\ temp' \in Inode
    <3>1. CASE temp = 0
      <4>1. NewFile(<<>>) /\ temp' = NewInode
        BY <1>2, <3>1 DEF OpenTemp
      <4>2. <<>> \in Seq(1..Blocks)
        OBVIOUS
      <4>3. NewInode \in Inode /\ file' \in [Inode -> Seq(1..Blocks)]
        BY <4>1, <4>2, <1>types, NewFileIs
      <4>4. QED BY <4>1, <4>3, InodeIs DEF DiskInv
    <3>2. CASE temp # 0
      BY <1>2, <3>2, <1>types, InodeIs DEF OpenTemp, DiskInv
    <3>3. QED BY <3>1, <3>2
  <2>2. req' \in [Go -> RequestState] /\ RequestInv'
    <3> DEFINE r == [req[g] EXCEPT !.pc = "stream", !.fd = temp']
    <3>1. /\ req[g].for \in Client /\ req[g].next # 0
          /\ req[g] \in RequestState
      BY <1>2, <1>types DEF RequestInv, OpenTemp, Inside
    <3>2. /\ r \in RequestState /\ r.pc = "stream" /\ r.for = req[g].for
          /\ r.fd # 0 /\ r.next = req[g].next
      BY <2>1, <3>1, InodeIs DEF RequestState, Phase, Inside
    <3>3. req' = [req EXCEPT ![g] = r]
      BY <1>2 DEF OpenTemp
    <3> HIDE DEF r
    <3>4. QED BY <3>1, <3>2, <3>3, OneRequest DEF Held, Uploader
  <2>3. QED BY <1>2, <2>1, <2>2, <1>types DEF OpenTemp, BaseInv, TableInv, ServerInv, PageInv
<1>3. ASSUME NEW g \in Go, Write(g) PROVE BaseInv'
  <2>1. /\ req[g].for \in Client /\ req[g].next # 0 /\ req[g].fd \in Inode
        /\ req[g] \in RequestState /\ req[g].next \in 1..Blocks
    <3>1. req[g] \in RequestState /\ req[g].pc = "stream" /\ req[g].next <= Blocks
      BY <1>3, <1>types DEF Write
    <3>2. req[g].for \in Client /\ req[g].next # 0 /\ req[g].fd # 0
      BY <3>1, <1>types DEF RequestInv, Inside
    <3>3. req[g].next \in Nat /\ req[g].fd \in 0..MaxInode
      BY <3>1 DEF RequestState
    <3>4. QED BY <3>1, <3>2, <3>3, InodeIs
  <2>2. DiskInv'
    <3>1. Append(file[req[g].fd], req[g].next) \in Seq(1..Blocks)
      BY <1>types, <2>1 DEF DiskInv
    <3>2. QED BY <1>3, <3>1, <1>types DEF Write, DiskInv
  <2>3. req' \in [Go -> RequestState] /\ RequestInv'
    <3> DEFINE r == [req[g] EXCEPT !.next = @ + 1]
    <3>1. /\ r \in RequestState /\ r.pc = "stream" /\ r.for = req[g].for
          /\ r.fd = req[g].fd /\ r.next # 0
      <4>1. req[g] \in RequestState /\ req[g].pc = "stream" /\ req[g].next \in Nat
        BY <1>3, <2>1 DEF RequestState, Write
      <4>2. QED BY ONLY <4>1 DEF RequestState
    <3>2. req' = [req EXCEPT ![g] = r]
      BY <1>3 DEF Write
    <3> HIDE DEF r
    <3>3. QED BY <2>1, <3>1, <3>2, OneRequest, InodeIs DEF Held, Uploader
  <2>4. QED BY <1>3, <2>2, <2>3, <1>types DEF Write, BaseInv, TableInv, ServerInv, PageInv
<1>4. ASSUME NEW g \in Go, EndOfBody(g) \/ CopyError(g) PROVE BaseInv'
  <2>1. req[g].for \in Client
    BY <1>4, <1>types DEF RequestInv, EndOfBody, CopyError, Inside
  <2>2. req' \in [Go -> RequestState] /\ RequestInv'
    BY <1>4, <2>1, MoveIs DEF EndOfBody, CopyError, Phase, Inside, Held
  <2>3. QED BY <1>4, <2>2, <1>types
         DEF EndOfBody, CopyError, BaseInv, DiskInv, TableInv, ServerInv, PageInv
<1>5. ASSUME NEW g \in Go, CheckMd5(g) PROVE BaseInv'
  <2>1. req[g].for \in Client
    BY <1>5, <1>types DEF RequestInv, CheckMd5, Inside
  <2>2. req' \in [Go -> RequestState] /\ RequestInv'
    BY <1>5, <2>1, MoveIs DEF CheckMd5, Phase, Inside, Held
  <2>3. DiskInv'
    BY <1>5, <1>types DEF CheckMd5, Removed, DiskInv
  <2>4. QED BY <1>5, <2>2, <2>3, <1>types DEF CheckMd5, BaseInv, TableInv, ServerInv, PageInv
<1>6. ASSUME NEW g \in Go, OpenAgain(g) PROVE BaseInv'
  <2>1. req[g].for \in Client /\ req[g].for \in Uploader /\ req[g] \in RequestState
    BY <1>6, <1>types DEF RequestInv, OpenAgain, Inside
  <2>2. req' \in [Go -> RequestState] /\ RequestInv'
    <3>1. CASE temp = 0
      <4> DEFINE r == [req[g] EXCEPT !.pc = "failed"]
      <4>1. req' = [req EXCEPT ![g] = r]
        BY <1>6, <3>1 DEF OpenAgain
      <4>2. r \in RequestState /\ r.pc = "failed" /\ r.for = req[g].for
        BY <2>1 DEF RequestState, Phase, Inside
      <4> HIDE DEF r
      <4>3. QED BY <2>1, <4>1, <4>2, OneRequest DEF Held
    <3>2. CASE temp # 0 /\ rows # <<>>
      <4> DEFINE r == [req[g] EXCEPT !.pc = "remove", !.got = Head(rows)]
      <4>1. req' = [req EXCEPT ![g] = r]
        BY <1>6, <3>2 DEF OpenAgain
      <4>2. Head(rows) \in Inode
        BY <1>types, <3>2, RowOfIs DEF TableInv
      <4>3. /\ r \in RequestState /\ r.pc = "remove" /\ r.for = req[g].for
            /\ r.got # 0
        BY <2>1, <4>2, InodeIs DEF RequestState, Phase, Inside
      <4> HIDE DEF r
      <4>4. QED BY <2>1, <4>1, <4>3, OneRequest
    <3>3. CASE temp # 0 /\ rows = <<>>
      <4> DEFINE r == [req[g] EXCEPT !.pc = "copy", !.fd = temp]
      <4>1. req' = [req EXCEPT ![g] = r]
        BY <1>6, <3>3 DEF OpenAgain
      <4>2. /\ r \in RequestState /\ r.pc = "copy" /\ r.for = req[g].for
            /\ r.fd # 0
        BY <2>1, <1>types, <3>3 DEF RequestState, Phase, Inside, DiskInv
      <4> HIDE DEF r
      <4>3. QED BY <2>1, <4>1, <4>2, OneRequest DEF Held
    <3>4. QED BY <3>1, <3>2, <3>3
  <2>3. QED BY <1>6, <2>2, <1>types DEF OpenAgain, BaseInv, DiskInv, TableInv, ServerInv, PageInv
<1>7. ASSUME NEW g \in Go, CopyToStorage(g) PROVE BaseInv'
  <2>1. req[g].for \in Client /\ req[g].fd \in Inode
    BY <1>7, <1>types, InodeIs DEF RequestInv, CopyToStorage, Inside, RequestState
  <2>2. file[req[g].fd] \in Seq(1..Blocks)
    BY <2>1, <1>types DEF DiskInv
  <2>3. DiskInv' /\ req' \in [Go -> RequestState] /\ RequestInv'
    BY <1>7, <2>1, <2>2, StoreIs DEF CopyToStorage
  <2>4. QED BY <1>7, <2>3, <1>types DEF CopyToStorage, BaseInv, TableInv, ServerInv, PageInv
<1>8. ASSUME NEW g \in Go, RemoveTemp(g) PROVE BaseInv'
  <2>1. req[g].for \in Client /\ req[g].got # 0
    BY <1>8, <1>types DEF RequestInv, RemoveTemp, Inside, Held
  <2>2. req' \in [Go -> RequestState] /\ RequestInv'
    BY <1>8, <2>1, MoveIs DEF RemoveTemp, Phase, Inside, Held
  <2>3. DiskInv'
    BY <1>8, <1>types DEF RemoveTemp, Removed, DiskInv
  <2>4. QED BY <1>8, <2>2, <2>3, <1>types DEF RemoveTemp, BaseInv, TableInv, ServerInv, PageInv
<1>9. ASSUME NEW g \in Go, Leave(g) PROVE BaseInv'
  <2>1. CASE req[g].pc = "leave"
    <3>1. req[g].for \in Client /\ req[g].got # 0
      BY <2>1, <1>types DEF RequestInv, Inside, Held
    <3>2. Move(g, "commit row") /\ UNCHANGED client
      BY <1>9, <2>1 DEF Leave
    <3>3. req' \in [Go -> RequestState] /\ RequestInv'
      BY <2>1, <3>1, <3>2, MoveIs DEF Phase, Inside, Held
    <3>4. QED BY <1>9, <3>2, <3>3, <1>types
           DEF Leave, BaseInv, DiskInv, TableInv, ServerInv, PageInv
  <2>2. CASE req[g].pc = "failed"
    <3>1. Answer(g, "ask")
      BY <1>9, <2>2 DEF Leave
    <3>2. /\ req' \in [Go -> RequestState] /\ RequestInv'
          /\ client' \in [Uploader -> ClientState] /\ PageInv'
      BY <3>1, AnswerIs
    <3>3. QED BY <1>9, <3>2, <1>types DEF Leave, BaseInv, DiskInv, TableInv, ServerInv
  <2>3. QED BY <1>9, <2>1, <2>2 DEF Leave
<1>10. ASSUME NEW g \in Go, CommitRow(g) PROVE BaseInv'
  <2>1. req[g].for \in Client /\ req[g].got \in Inode
    BY <1>10, <1>types, InodeIs DEF RequestInv, CommitRow, Held, RequestState
  <2>2. rows' \in Seq(Inode)
    BY <1>10, <2>1, <1>types, AddRowIs DEF CommitRow, TableInv
  <2>3. /\ req' \in [Go -> RequestState] /\ RequestInv'
        /\ client' \in [Uploader -> ClientState] /\ PageInv'
    BY <1>10, <2>1, AnswerIs DEF CommitRow
  <2>4. QED BY <1>10, <2>2, <2>3, <1>types DEF CommitRow, BaseInv, DiskInv, TableInv, ServerInv
<1>11. ASSUME NEW g \in Go, LookUp(g) PROVE BaseInv'
  <2>1. req[g].for \in Uploader /\ req[g] \in RequestState
    BY <1>11, <1>types DEF RequestInv, LookUp
  <2>2. DiskInv'
    <3>1. temp' = 0 /\ file' = file
      BY <1>11 DEF LookUp, Removed
    <3>2. QED BY <3>1, <1>types DEF DiskInv
  <2>3. CASE rows = <<>>
    <3>1. /\ req' \in [Go -> RequestState] /\ RequestInv'
          /\ client' \in [Uploader -> ClientState] /\ PageInv'
      BY <1>11, <2>3, AnswerIs DEF LookUp
    <3>2. QED BY <1>11, <2>2, <3>1, <1>types DEF LookUp, BaseInv, TableInv, ServerInv
  <2>4. CASE rows # <<>>
    <3> DEFINE r == [req[g] EXCEPT !.pc = "notify", !.got = Head(rows)]
    <3>1. req' = [req EXCEPT ![g] = r] /\ client' = client
      BY <1>11, <2>4 DEF LookUp
    <3>2. Head(rows) \in Inode
      BY <1>types, <2>4, RowOfIs DEF TableInv
    <3>3. /\ r \in RequestState /\ r.pc = "notify" /\ r.for = req[g].for
          /\ r.got # 0
      BY <2>1, <3>2, InodeIs DEF RequestState, Phase, Held
    <3> HIDE DEF r
    <3>4. req' \in [Go -> RequestState] /\ RequestInv'
      BY <2>1, <3>1, <3>3, OneRequest DEF Inside
    <3>5. QED BY <1>11, <2>2, <3>1, <3>4, <1>types DEF LookUp, BaseInv, TableInv, ServerInv, PageInv
  <2>5. QED BY <2>3, <2>4
<1>12. ASSUME NEW g \in Go, SaveUpload(g) PROVE BaseInv'
  <2>1. req[g].for \in Uploader /\ req[g] \in RequestState
    BY <1>12, <1>types DEF RequestInv, SaveUpload
  <2>2. CASE rows = <<>>
    <3>1. Store(g, Whole, "commit entry")
      BY <1>12, <2>2 DEF SaveUpload
    <3>2. DiskInv' /\ req' \in [Go -> RequestState] /\ RequestInv'
      BY <1>12, <2>1, <3>1, WholeIs, StoreIs DEF SaveUpload
    <3>3. QED BY <1>12, <3>2, <1>types DEF SaveUpload, BaseInv, TableInv, ServerInv, PageInv
  <2>3. CASE rows # <<>>
    <3> DEFINE r == [req[g] EXCEPT !.pc = "commit entry", !.got = Head(rows)]
    <3>1. req' = [req EXCEPT ![g] = r] /\ file' = file
      BY <1>12, <2>3 DEF SaveUpload
    <3>2. Head(rows) \in Inode
      BY <1>types, <2>3, RowOfIs DEF TableInv
    <3>3. /\ r \in RequestState /\ r.pc = "commit entry" /\ r.for = req[g].for
          /\ r.got # 0
      BY <2>1, <3>2, InodeIs DEF RequestState, Phase, Held
    <3> HIDE DEF r
    <3>4. req' \in [Go -> RequestState] /\ RequestInv'
      BY <2>1, <3>1, <3>3, OneRequest DEF Inside
    <3>5. QED BY <1>12, <3>1, <3>4, <1>types
           DEF SaveUpload, BaseInv, DiskInv, TableInv, ServerInv, PageInv
  <2>4. QED BY <2>2, <2>3
<1>13. ASSUME NEW g \in Go, NotifyWorker(g) PROVE BaseInv'
  <2>1. req[g].for \in Uploader /\ req[g].got # 0
    BY <1>13, <1>types DEF RequestInv, NotifyWorker, Held
  <2>2. CASE req[g].for \in Browser
    <3>1. /\ req' \in [Go -> RequestState] /\ RequestInv'
          /\ client' \in [Uploader -> ClientState] /\ PageInv'
      BY <1>13, <2>2, AnswerIs DEF NotifyWorker
    <3>2. QED BY <1>13, <3>1, <1>types DEF NotifyWorker, BaseInv, DiskInv, TableInv, ServerInv
  <2>3. CASE req[g].for \notin Browser
    <3>1. Move(g, "commit entry") /\ client' = client
      BY <1>13, <2>3 DEF NotifyWorker
    <3>2. req' \in [Go -> RequestState] /\ RequestInv'
      BY <1>13, <2>1, <3>1, MoveIs DEF NotifyWorker, Phase, Inside, Held
    <3>3. QED BY <1>13, <3>1, <3>2, <1>types
           DEF NotifyWorker, BaseInv, DiskInv, TableInv, ServerInv, PageInv
  <2>4. QED BY <2>2, <2>3
<1>14. ASSUME NEW g \in Go, Commit(g) PROVE BaseInv'
  <2>1. req[g].for \in Uploader /\ req[g].got \in Inode
    BY <1>14, <1>types, InodeIs DEF RequestInv, Commit, Held, RequestState
  <2>2. TableInv'
    <3>1. rows' \in Seq(Inode)
      BY <1>14, <2>1, <1>types, AddRowIs DEF Commit, TableInv
    <3>2. entry' = entry \cup {<<req[g].for, req[g].got>>} /\ handled' = handled /\ worker' = worker
      BY <1>14 DEF Commit
    <3>3. QED BY <2>1, <3>1, <3>2, <1>types DEF TableInv
  <2>3. CASE req[g].for \in Browser
    <3>1. Move(g, "notify") /\ client' = client
      BY <1>14, <2>3 DEF Commit
    <3>2. req' \in [Go -> RequestState] /\ RequestInv'
      BY <1>14, <2>1, <3>1, MoveIs, InodeIs DEF Commit, Phase, Inside, Held
    <3>3. QED BY <1>14, <2>2, <3>1, <3>2, <1>types DEF Commit, BaseInv, DiskInv, ServerInv, PageInv
  <2>4. CASE req[g].for \notin Browser
    <3>1. /\ req' \in [Go -> RequestState] /\ RequestInv'
          /\ client' \in [Uploader -> ClientState] /\ PageInv'
      BY <1>14, <2>4, AnswerIs DEF Commit
    <3>2. QED BY <1>14, <2>2, <3>1, <1>types DEF Commit, BaseInv, DiskInv, ServerInv
  <2>5. QED BY <2>3, <2>4
<1>15. ASSUME NEW c \in Uploader, GetUploadedSize(c) PROVE BaseInv'
  <2>1. (IF temp = 0 THEN 0 ELSE Len(file[temp])) \in Nat
    BY <1>types, InodeIs DEF DiskInv
  <2>2. client' \in [Uploader -> ClientState]
    <3>1. \A n \in Nat : [client[c] EXCEPT !.at = "send", !.from = n] \in ClientState
      <4>1. client[c] \in ClientState
        BY <1>types
      <4>2. QED BY ONLY <4>1 DEF ClientState
    <3> DEFINE n == IF temp = 0 THEN 0 ELSE Len(file[temp])
    <3>2. client' = [client EXCEPT ![c].at = "send", ![c].from = n]
      BY ONLY <1>15 DEF GetUploadedSize
    <3>3. n \in Nat /\ client \in [Uploader -> ClientState]
      BY <2>1, <1>types
    <3> HIDE DEF n
    <3>4. client' = [client EXCEPT ![c] = [client[c] EXCEPT !.at = "send", !.from = n]]
      BY ONLY <3>2, <3>3, c \in Uploader
    <3>5. QED BY ONLY <3>1, <3>3, <3>4, c \in Uploader
  <2>3. PageInv'
    <3>1. \A d \in Uploader : d # c => client'[d] = client[d]
      BY <1>15, <1>types DEF GetUploadedSize
    <3>2. c \notin Browser
      BY <1>15 DEF GetUploadedSize
    <3>3. QED BY <3>1, <3>2, <1>types DEF PageInv, Uploader
  <2>4. QED BY <1>15, <2>2, <2>3, <1>types
         DEF GetUploadedSize, BaseInv, DiskInv, TableInv, ServerInv, RequestInv
<1>16. ASSUME NEW c \in Uploader, SendStream(c) PROVE BaseInv'
  <2>1. c \in Client /\ client[c].from + 1 \in Nat /\ client[c].from + 1 # 0
    BY <1>16, <1>types DEF SendStream, PageInv, Uploader, ClientState
  <2>2. /\ req' \in [Go -> RequestState] /\ RequestInv'
        /\ client' \in [Uploader -> ClientState] /\ PageInv'
    BY <1>16, <2>1, RequestIs DEF SendStream
  <2>3. QED BY <1>16, <2>2, <1>types DEF SendStream, BaseInv, DiskInv, TableInv, ServerInv
<1>17. ASSUME NEW c \in Uploader, SendLink(c) PROVE BaseInv'
  <2>1. /\ req' \in [Go -> RequestState] /\ RequestInv'
        /\ client' \in [Uploader -> ClientState] /\ PageInv'
    BY <1>17, RequestIs DEF SendLink
  <2>2. QED BY <1>17, <2>1, <1>types DEF SendLink, BaseInv, DiskInv, TableInv, ServerInv
<1>18. ASSUME NEW c \in Uploader, SendUpload(c) PROVE BaseInv'
  <2>1. /\ req' \in [Go -> RequestState] /\ RequestInv'
        /\ client' \in [Uploader -> ClientState] /\ PageInv'
    BY <1>18, RequestIs DEF SendUpload
  <2>2. QED BY <1>18, <2>1, <1>types DEF SendUpload, BaseInv, DiskInv, TableInv, ServerInv
<1>19. ASSUME Work PROVE BaseInv'
  <2>1. worker.list \subseteq entry
    BY <1>types DEF TableInv
  <2>2. TableInv'
    <3>1. CASE WakeUp \/ ResetHasData
      BY <3>1, <1>types DEF WakeUp, ResetHasData, TableInv
    <3>2. CASE SelectNoHandle
      BY <3>2, <1>types DEF SelectNoHandle, TableInv
    <3>3. CASE Handle
      BY <3>3, <1>types DEF Handle, TableInv
    <3>4. QED BY <1>19, <3>1, <3>2, <3>3 DEF Work
  <2>3. hasData' \in BOOLEAN
    BY <1>19, <1>types DEF Work, WakeUp, SelectNoHandle, Handle, ResetHasData
  <2>4. UNCHANGED <<disk, marked, client, req, faults>>
    BY <1>19 DEF Work, WakeUp, SelectNoHandle, Handle, ResetHasData
  <2>5. QED BY <2>2, <2>3, <2>4, <1>types DEF BaseInv, DiskInv, ServerInv, RequestInv, PageInv
<1>20. ASSUME NEW c \in Uploader, Break(c) PROVE BaseInv'
  <2>1. client' \in [Uploader -> ClientState] /\ faults' \in [break : Nat, crash : Nat]
    BY <1>20, <1>types DEF Break, ClientState
  <2>2. PageInv'
    BY <1>20, <1>types DEF Break, PageInv, Uploader
  <2>3. QED BY <1>20, <2>1, <2>2, <1>types
         DEF Break, BaseInv, DiskInv, TableInv, ServerInv, RequestInv
<1>21. ASSUME Crash PROVE BaseInv'
  <2>1. client' \in [Uploader -> ClientState]
    BY <1>21, <1>types DEF Crash, ClientState
  <2>2. PageInv'
    BY <1>21, <1>types DEF Crash, PageInv, Uploader
  <2>3. req' \in [Go -> RequestState] /\ RequestInv'
    BY <1>21, IdleIs DEF Crash, RequestInv, Inside, Held
  <2>4. faults' \in [break : Nat, crash : Nat]
    BY <1>21, <1>types DEF Crash
  <2>5. TableInv'
    BY <1>21, <1>types DEF Crash, TableInv
  <2>6. DiskInv' /\ marked' \in BOOLEAN /\ hasData' \in BOOLEAN
    BY <1>21, <1>types DEF Crash, DiskInv
  <2>7. QED BY <2>1, <2>2, <2>3, <2>4, <2>5, <2>6 DEF BaseInv, ServerInv
<1>22. CASE UNCHANGED vars
  BY <1>22, <1>types DEF vars, BaseInv, DiskInv, TableInv, ServerInv, RequestInv, PageInv
<1>23. QED
  BY <1>1, <1>2, <1>3, <1>4, <1>5, <1>6, <1>7, <1>8, <1>9, <1>10, <1>11, <1>12, <1>13,
     <1>14, <1>15, <1>16, <1>17, <1>18, <1>19, <1>20, <1>21, <1>22
     DEF Next, Serve, Ask, Fault

LEMMA BaseHolds == Spec => []BaseInv
  BY BaseInit, BaseStep, PTL DEF Spec

\* The values of the variables, and that the worker's list and the entries it
\* has handled are committed entries (Uploads.go, DfsFileHandleUtil.go).
THEOREM TypesHold == Spec => []TypeOK
<1>1. BaseInv => TypeOK
  <2> SUFFICES ASSUME BaseInv PROVE TypeOK
    OBVIOUS
  <2>1. \A k \in DOMAIN rows : rows[k] \in Inode
    BY DEF BaseInv, TableInv
  <2>2. QED BY <2>1 DEF BaseInv, DiskInv, TableInv, ServerInv, TypeOK
<1>2. QED BY <1>1, BaseHolds, PTL

-----------------------------------------------------------------------------
(* One goroutine at a time carries the pieces of the one client.           *)

\* What a step of g does to the requests: the others stay as they are.
Only(g) == \A h \in Go : h # g => req'[h] = req[h]

\* A step of g leaves the clients alone that wait for somebody else, and
\* makes none ready to send.
Hears(g) ==
    \A c \in Uploader :
        \/ client'[c] = client[c]
        \/ /\ client'[c].at # "send"
           /\ client[c].at # "wait" \/ client[c].by = g

LEMMA TurnInit == Init => TurnInv
  BY IdleIs DEF Init, TurnInv, Carries, Inside, Uploader

LEMMA AnswerEffect ==
    ASSUME BaseInv, NEW g \in Go, NEW a \in {"ask", "link", "done"}, Answer(g, a),
           req[g].pc # "idle"
    PROVE  Only(g) /\ req'[g] = Idle /\ Hears(g)
<1>1. req \in [Go -> RequestState] /\ client \in [Uploader -> ClientState]
  BY DEF BaseInv, ServerInv
<1>2. Only(g) /\ req'[g] = Idle
  BY <1>1 DEF Answer, Only
<1>3. req[g].for \in Uploader
  BY DEF BaseInv, RequestInv
<1>4. Hears(g)
  BY <1>1, <1>3 DEF Answer, Cut, Hears
<1>5. QED BY <1>2, <1>4

LEMMA MoveEffect ==
    ASSUME BaseInv, NEW g \in Go, NEW p, Move(g, p)
    PROVE  /\ Only(g) /\ req'[g].pc = p
           /\ req'[g].for = req[g].for /\ req'[g].fd = req[g].fd
           /\ req'[g].got = req[g].got
  BY DEF BaseInv, ServerInv, RequestState, Move, Only

\* A step that takes a stored file in hand.
Takes(g, p, i) == req' = [req EXCEPT ![g].pc = p, ![g].got = i]

LEMMA TakesEffect ==
    ASSUME BaseInv, NEW g \in Go, NEW p, NEW i, Takes(g, p, i)
    PROVE  /\ Only(g) /\ req'[g].pc = p /\ req'[g].got = i
           /\ req'[g].for = req[g].for
  BY DEF BaseInv, ServerInv, RequestState, Takes, Only

LEMMA RequestEffect ==
    ASSUME BaseInv, NEW c \in Uploader, NEW p, NEW n, Request(c, p, n)
    PROVE  \E g \in Go :
              /\ Only(g) /\ req[g].pc = "idle"
              /\ req'[g].pc = p /\ req'[g].for = c /\ req'[g].got = 0
              /\ client'[c].at = "wait" /\ client'[c].by = g
              /\ \A d \in Uploader : d # c => client'[d] = client[d]
<1> DEFINE g == CHOOSE g \in Go : req[g] = Idle
           r == [Idle EXCEPT !.pc = p, !.for = c, !.next = n]
<1>1. g \in Go /\ req[g] = Idle
  BY DEF Request
<1>2. r.pc = p /\ r.for = c /\ r.got = 0
  BY IdleIs DEF RequestState
<1>3. /\ req' = [req EXCEPT ![g] = r]
      /\ client' = [client EXCEPT ![c].at = "wait", ![c].by = g]
  BY DEF Request
<1>4. req \in [Go -> RequestState] /\ client \in [Uploader -> ClientState]
  BY DEF BaseInv, ServerInv
<1>5. /\ client'[c].at = "wait" /\ client'[c].by = g
      /\ \A d \in Uploader : d # c => client'[d] = client[d]
  BY <1>3, <1>4 DEF ClientState
<1> HIDE DEF g, r
<1>6. QED BY <1>1, <1>2, <1>3, <1>4, <1>5, IdleIs DEF Only

LEMMA StaysInside ==
    ASSUME TurnInv, NEW g \in Go, req[g].pc \in Inside, req'[g].pc \in Inside,
           Only(g), marked' = marked, client' = client
    PROVE  TurnInv'
<1>1. \A h \in Go : Carries(h)' <=> Carries(h)
  BY DEF Only, Carries
<1>2. \A h \in Go : req'[h].pc \in Inside <=> req[h].pc \in Inside
  BY DEF Only
<1>3. \A h \in Go : req'[h].pc = "enter" => req'[h] = req[h]
  BY DEF Only, Inside
<1>4. QED BY <1>1, <1>2, <1>3 DEF TurnInv

LEMMA StaysOutside ==
    ASSUME BaseInv, TurnInv, NEW g \in Go, ~Carries(g), ~Carries(g)',
           Only(g), marked' = marked, Hears(g)
    PROVE  TurnInv'
<1>1. \A h \in Go : Carries(h)' <=> Carries(h)
  BY DEF Only, Carries
<1>2. \A h \in Go : req'[h].pc \in Inside <=> req[h].pc \in Inside
  BY DEF Only, Carries
<1>3. ASSUME NEW h \in Go, req'[h].pc = "enter"
      PROVE  client'[req'[h].for].at = "wait" /\ client'[req'[h].for].by = h
  <2>1. h # g /\ req'[h] = req[h]
    BY <1>3 DEF Only, Carries
  <2>2. /\ req[h].for \in Uploader
        /\ client[req[h].for].at = "wait" /\ client[req[h].for].by = h
    BY <1>3, <2>1 DEF TurnInv, BaseInv, RequestInv
  <2>3. client'[req[h].for] = client[req[h].for]
    BY <2>1, <2>2 DEF Hears
  <2>4. QED BY <2>1, <2>2, <2>3
<1>4. \A c \in Client : client'[c].at = "send" => client[c].at = "send"
  BY DEF Hears, Uploader
<1>5. QED BY <1>1, <1>2, <1>3, <1>4 DEF TurnInv

LEMMA TurnStep == ASSUME OneClient, BaseInv, TurnInv, [Next]_vars PROVE TurnInv'
<1> USE DEF disk, db
<1>types. /\ req \in [Go -> RequestState] /\ client \in [Uploader -> ClientState]
          /\ marked \in BOOLEAN
  BY DEF BaseInv, ServerInv
<1>1. ASSUME NEW g \in Go, Enter(g) PROVE TurnInv'
  <2>1. req[g].pc = "enter" /\ Carries(g)
    BY <1>1 DEF Enter, Carries
  <2>2. ~marked
    <3>1. \A h \in Go : req[h].pc \in Inside => h = g
      BY <2>1 DEF TurnInv, Carries
    <3>2. req[g].pc \notin Inside
      BY <2>1 DEF Inside
    <3>3. QED BY <3>1, <3>2 DEF TurnInv
  <2>3. marked' = TRUE /\ Move(g, "open") /\ client' = client
    BY <1>1, <2>2 DEF Enter
  <2>4. Only(g) /\ req'[g].pc = "open"
    BY <2>3, MoveEffect
  <2>5. \A h \in Go : Carries(h)' <=> Carries(h)
    BY <2>1, <2>4 DEF Only, Carries, Inside
  <2>6. req'[g].pc \in Inside
    BY <2>4 DEF Inside
  <2>7. \A h \in Go : req'[h].pc = "enter" => req'[h] = req[h]
    BY <2>4 DEF Only
  <2>8. QED BY <2>3, <2>5, <2>6, <2>7 DEF TurnInv
<1>2. ASSUME NEW g \in Go,
             \/ OpenTemp(g) \/ Write(g) \/ EndOfBody(g) \/ CopyError(g)
             \/ CheckMd5(g) \/ OpenAgain(g) \/ CopyToStorage(g) \/ RemoveTemp(g)
      PROVE  TurnInv'
  <2>1. req[g].pc \in Inside /\ marked' = marked /\ client' = client
    BY <1>2 DEF OpenTemp, Write, EndOfBody, CopyError, CheckMd5, OpenAgain, CopyToStorage,
                RemoveTemp, Inside
  <2>2. Only(g)
    BY <1>2, <1>types DEF OpenTemp, Write, EndOfBody, CopyError, CheckMd5, OpenAgain,
                CopyToStorage, RemoveTemp, Move, Store, Only
  <2>3. req'[g].pc \in Inside
    <3>1. CASE OpenTemp(g)
      BY <3>1, <1>types DEF OpenTemp, RequestState, Inside
    <3>2. CASE Write(g)
      BY <3>2, <1>types DEF Write, RequestState, Inside
    <3>3. CASE EndOfBody(g) \/ CopyError(g) \/ CheckMd5(g) \/ RemoveTemp(g)
      BY <3>3, MoveEffect DEF EndOfBody, CopyError, CheckMd5, RemoveTemp, Inside
    <3>4. CASE OpenAgain(g)
      BY <3>4, <1>types DEF OpenAgain, RequestState, Inside
    <3>5. CASE CopyToStorage(g)
      BY <3>5, <1>types DEF CopyToStorage, Store, RequestState, Inside
    <3>6. QED BY <1>2, <3>1, <3>2, <3>3, <3>4, <3>5
  <2>4. QED BY <2>1, <2>2, <2>3, StaysInside
<1>3. ASSUME NEW g \in Go, Leave(g) PROVE TurnInv'
  <2>1. req[g].pc \in Inside /\ Carries(g) /\ marked' = FALSE /\ req[g].pc # "idle"
    BY <1>3 DEF Leave, Inside, Carries
  <2>2. \A h \in Go : h # g => ~Carries(h)
    BY <2>1 DEF TurnInv
  <2>3. Only(g) /\ Hears(g) /\ ~Carries(g)'
    <3>1. CASE req[g].pc = "leave"
      <4>1. Only(g) /\ req'[g].pc = "commit row" /\ client' = client
        BY <1>3, <3>1, MoveEffect DEF Leave
      <4>2. QED BY <4>1 DEF Hears, Carries, Inside
    <3>2. CASE req[g].pc # "leave"
      <4>1. Only(g) /\ req'[g] = Idle /\ Hears(g)
        BY <1>3, <2>1, <3>2, AnswerEffect DEF Leave
      <4>2. QED BY <4>1, IdleIs DEF Carries, Inside
    <3>3. QED BY <3>1, <3>2
  <2>4. \A h \in Go : ~Carries(h)'
    BY <2>2, <2>3 DEF Only, Carries
  <2>5. QED BY <2>1, <2>4 DEF TurnInv, Carries
<1>4. ASSUME NEW g \in Go,
             CommitRow(g) \/ LookUp(g) \/ SaveUpload(g) \/ NotifyWorker(g) \/ Commit(g)
      PROVE  TurnInv'
  <2>1. ~Carries(g) /\ marked' = marked /\ req[g].pc # "idle"
    BY <1>4 DEF CommitRow, LookUp, SaveUpload, NotifyWorker, Commit, Carries, Inside
  <2>2. \/ Answer(g, "ask") \/ Answer(g, "link") \/ Answer(g, "done")
        \/ /\ client' = client /\ Only(g)
           /\ req'[g].pc \in {"notify", "commit entry"}
    <3>1. CASE CommitRow(g)
      BY <3>1 DEF CommitRow
    <3>2. CASE LookUp(g)
      <4>1. \/ Answer(g, "ask")
            \/ client' = client /\ Takes(g, "notify", Head(rows))
        BY <3>2 DEF LookUp, Takes
      <4>2. QED BY <4>1, TakesEffect
    <3>3. CASE SaveUpload(g)
      <4>1. \/ Takes(g, "commit entry", Head(rows))
            \/ Takes(g, "commit entry", NewInode)
        BY <3>3 DEF SaveUpload, Store, Takes
      <4>2. QED BY <3>3, <4>1, TakesEffect DEF SaveUpload
    <3>4. CASE NotifyWorker(g)
      BY <3>4, MoveEffect DEF NotifyWorker
    <3>5. CASE Commit(g)
      BY <3>5, MoveEffect DEF Commit
    <3>6. QED BY <1>4, <3>1, <3>2, <3>3, <3>4, <3>5
  <2>3. Only(g) /\ Hears(g) /\ ~Carries(g)'
    <3>1. CASE Answer(g, "ask") \/ Answer(g, "link") \/ Answer(g, "done")
      <4>1. Only(g) /\ req'[g] = Idle /\ Hears(g)
        BY <2>1, <3>1, AnswerEffect
      <4>2. QED BY <4>1, IdleIs DEF Carries, Inside
    <3>2. CASE client' = client /\ Only(g) /\ req'[g].pc \in {"notify", "commit entry"}
      BY <3>2 DEF Hears, Carries, Inside
    <3>3. QED BY <2>2, <3>1, <3>2
  <2>4. QED BY <2>1, <2>3, StaysOutside
<1>5. ASSUME NEW c \in Uploader, GetUploadedSize(c) PROVE TurnInv'
  <2>1. /\ c \in Client /\ ~marked /\ client[c].at = "ask" /\ req' = req /\ marked' = marked
        /\ \A d \in Uploader : d # c => client'[d] = client[d]
    BY <1>5, <1>types DEF GetUploadedSize
  <2>2. \A g \in Go : req[g].pc \notin Inside
    BY <2>1 DEF TurnInv
  <2>3. ASSUME NEW g \in Go, req[g].pc = "enter" PROVE FALSE
    <3>1. req[g].for \in Client /\ client[req[g].for].at = "wait"
      BY <2>3 DEF BaseInv, RequestInv, TurnInv
    <3>2. req[g].for = c
      BY <2>1, <3>1 DEF OneClient
    <3>3. QED BY <2>1, <3>1, <3>2
  <2>4. \A g \in Go : ~Carries(g)
    BY <2>2, <2>3 DEF Carries
  <2>5. \A g \in Go : ~Carries(g)'
    BY <2>1, <2>4 DEF Carries
  <2>6. QED BY <2>1, <2>5 DEF TurnInv, Carries
<1>6. ASSUME NEW c \in Uploader, SendStream(c) PROVE TurnInv'
  <2>1. client[c].at = "send" /\ c \in Client
    BY <1>6 DEF SendStream, BaseInv, PageInv, Uploader
  <2>2. \A g \in Go : ~Carries(g)
    BY <2>1 DEF TurnInv
  <2>3. PICK g \in Go :
              /\ Only(g) /\ req[g].pc = "idle"
              /\ req'[g].pc = "enter" /\ req'[g].for = c
              /\ client'[c].at = "wait" /\ client'[c].by = g
    BY <1>6, RequestEffect DEF SendStream
  <2>4. \A h \in Go : h # g => ~Carries(h)'
    BY <2>2, <2>3 DEF Only, Carries
  <2>5. \A h \in Go : req'[h].pc \notin Inside
    BY <2>3, <2>4 DEF Carries, Inside
  <2>6. marked' = marked /\ ~marked
    BY <1>6, <2>2 DEF SendStream, TurnInv, Carries
  <2>7. \A d \in Client : client'[d].at # "send"
    BY <2>1, <2>3 DEF OneClient
  <2>8. \A h \in Go : req'[h].pc = "enter" => h = g
    BY <2>4 DEF Carries
  <2>9. QED BY <2>3, <2>4, <2>5, <2>6, <2>7, <2>8 DEF TurnInv
<1>7. ASSUME NEW c \in Uploader, SendLink(c) \/ SendUpload(c) PROVE TurnInv'
  <2>1. client[c].at # "wait" /\ marked' = marked
    BY <1>7 DEF SendLink, SendUpload
  <2>2. PICK g \in Go :
              /\ Only(g) /\ req[g].pc = "idle"
              /\ req'[g].pc \in {"look up", "upload"}
              /\ client'[c].at = "wait"
              /\ \A d \in Uploader : d # c => client'[d] = client[d]
    <3>1. Request(c, "look up", 0) \/ Request(c, "upload", 0)
      BY <1>7 DEF SendLink, SendUpload
    <3>2. ASSUME NEW p, Request(c, p, 0)
          PROVE  \E g \in Go :
              /\ Only(g) /\ req[g].pc = "idle"
              /\ req'[g].pc = p /\ req'[g].for = c /\ req'[g].got = 0
              /\ client'[c].at = "wait" /\ client'[c].by = g
              /\ \A d \in Uploader : d # c => client'[d] = client[d]
      BY ONLY BaseInv, c \in Uploader, <3>2, RequestEffect
    <3>3. QED BY <3>1, <3>2
  <2>3. Hears(g)
    BY <2>1, <2>2 DEF Hears
  <2>4. ~Carries(g) /\ ~Carries(g)'
    BY <2>2 DEF Carries, Inside
  <2>5. QED BY <2>1, <2>2, <2>3, <2>4, StaysOutside
<1>8. ASSUME NEW c \in Uploader, Break(c) PROVE TurnInv'
  <2>1. /\ client[c].at = "wait" /\ req[client[c].by].pc # "enter"
        /\ req' = req /\ marked' = marked /\ client'[c].at = "ask"
        /\ \A d \in Uploader : d # c => client'[d] = client[d]
    BY <1>8, <1>types DEF Break
  <2>2. ASSUME NEW h \in Go, req[h].pc = "enter"
        PROVE  client'[req[h].for].at = "wait" /\ client'[req[h].for].by = h
    <3>1. req[h].for \in Uploader /\ client[req[h].for].at = "wait" /\ client[req[h].for].by = h
      BY <2>2 DEF BaseInv, RequestInv, TurnInv
    <3>2. req[h].for # c
      BY <2>1, <2>2, <3>1
    <3>3. QED BY <2>1, <3>1, <3>2
  <2>3. \A d \in Client : client'[d].at = "send" => client[d].at = "send"
    BY <2>1 DEF Uploader
  <2>4. \A h \in Go : Carries(h)' <=> Carries(h)
    BY <2>1 DEF Carries
  <2>5. QED BY <2>1, <2>2, <2>3, <2>4 DEF TurnInv
<1>9. ASSUME Crash PROVE TurnInv'
  <2>1. marked' = FALSE /\ \A g \in Go : req'[g].pc = "idle"
    BY <1>9, IdleIs DEF Crash
  <2>2. QED BY <2>1 DEF TurnInv, Carries, Inside
<1>10. ASSUME Work \/ UNCHANGED vars PROVE TurnInv'
  <2>1. req' = req /\ client' = client /\ marked' = marked
    BY <1>10 DEF Work, WakeUp, SelectNoHandle, Handle, ResetHasData, vars
  <2>2. QED BY <2>1 DEF TurnInv, Carries
<1>11. QED
  BY <1>1, <1>2, <1>3, <1>4, <1>5, <1>6, <1>7, <1>8, <1>9, <1>10
     DEF Next, Serve, Ask, Fault

-----------------------------------------------------------------------------
(* What is stored is the whole file.                                       *)

SafeInv == ApartInv /\ ContentInv

\* What h may become in a step that writes no file: nothing new is in its
\* hands unless it is whole.
Keeps(h) ==
    /\ req'[h].got \in RowOf \cup {0, req[h].got}
    /\ req'[h].pc = "stream" => req[h].pc = "stream" /\ req'[h].fd = req[h].fd
    /\ req'[h].pc \in Held =>
          \/ req'[h].got \in RowOf
          \/ req[h].pc \in Held /\ req'[h].got = req[h].got
    /\ req'[h].pc = "save" /\ temp' # 0 => req[h].pc = "save" \/ file[temp'] = Whole
    /\ req'[h].pc = "copy" =>
          \/ req[h].pc = "copy" /\ req'[h].fd = req[h].fd
          \/ file[req'[h].fd] = Whole

LEMMA SafeInit == Init => SafeInv
<1> SUFFICES ASSUME Init PROVE SafeInv
  OBVIOUS
<1>1. temp = 0 /\ rows = <<>> /\ entry = {} /\ \A g \in Go : req[g].pc = "idle"
  BY IdleIs DEF Init
<1>2. StoredIsWhole
  <2>1. DOMAIN rows = {}
    BY <1>1
  <2>2. QED BY <2>1 DEF StoredIsWhole
<1>3. QED BY <1>1, <1>2 DEF SafeInv, ApartInv, ContentInv, Held

LEMMA QuietStep ==
    ASSUME BaseInv, RequestInv', SafeInv, file' = file, rows' = rows, entry' = entry,
           temp' \in {0, temp}, \A h \in Go : Keeps(h)
    PROVE  SafeInv'
<1>1. RowOf' = RowOf /\ Whole' = Whole /\ RowOf \subseteq Inode
  BY RowOfIs DEF RowOf, Whole, BaseInv, TableInv
<1>2. \A i \in RowOf : file[i] = Whole
  BY RowOfIs DEF SafeInv, ContentInv, BaseInv, TableInv
<1>3. ApartInv'
  <2>1. ASSUME temp' # 0 PROVE temp' \notin RowOf' /\ \A g \in Go : temp' # req'[g].got
    BY <1>1, <2>1 DEF Keeps, SafeInv, ApartInv
  <2>2. ASSUME NEW g \in Go, req'[g].pc = "stream"
        PROVE  req'[g].fd \notin RowOf' /\ \A h \in Go : req'[g].fd # req'[h].got
    <3>1. req[g].pc = "stream" /\ req'[g].fd = req[g].fd /\ req[g].fd # 0
      BY <2>2 DEF Keeps, BaseInv, RequestInv
    <3>2. QED BY <1>1, <3>1 DEF Keeps, SafeInv, ApartInv
  <2>3. QED BY <2>1, <2>2 DEF ApartInv
<1>4. ContentInv'
  <2>1. StoredIsWhole'
    BY DEF SafeInv, ContentInv, StoredIsWhole, Whole
  <2>2. ASSUME NEW h \in Go
        PROVE  /\ req'[h].pc \in Held => file'[req'[h].got] = Whole
               /\ req'[h].pc = "save" /\ temp' # 0 => file'[temp'] = Whole
               /\ req'[h].pc = "copy" => file'[req'[h].fd] = Whole
    BY <1>2 DEF Keeps, SafeInv, ContentInv
  <2>3. \A e \in entry' : e[2] \in RowOf'
    BY <1>1 DEF SafeInv, ContentInv
  <2>4. QED BY <1>1, <2>1, <2>2, <2>3 DEF ContentInv
<1>5. QED BY <1>3, <1>4 DEF SafeInv

\* A file stored beside: everything that mattered before is as it was.
LEMMA StoreStep ==
    ASSUME BaseInv, BaseInv', SafeInv, NEW g \in Go, NEW p \in {"remove", "commit entry"},
           Store(g, Whole, p), temp' = temp, rows' = rows, entry' = entry
    PROVE  SafeInv'
<1>1. NewFile(Whole) /\ Takes(g, p, NewInode)
  BY DEF Store, Takes
<1>2. /\ Only(g) /\ req'[g].pc = p /\ req'[g].got = NewInode
  BY <1>1, TakesEffect
<1>3. /\ NewInode \in Inode /\ file'[NewInode] = Whole
      /\ \A i \in Inode : i # NewInode => file'[i] = file[i]
      /\ NewInode # temp /\ NewInode \notin RowOf
      /\ \A h \in Go : NewInode # req[h].fd /\ NewInode # req[h].got
  BY <1>1, WholeIs, NewFileIs DEF BaseInv
<1>4. /\ RowOf' = RowOf /\ Whole' = Whole /\ RowOf \subseteq Inode
      /\ \A i \in RowOf : file[i] = Whole
      /\ StoredIsWhole' <=> \A i \in RowOf : file'[i] = Whole
  <2>1. RowOf' = RowOf /\ Whole' = Whole
    BY DEF RowOf, Whole
  <2>2. RowOf \subseteq Inode /\ \A i \in RowOf : file[i] = Whole
    BY RowOfIs DEF BaseInv, TableInv, SafeInv, ContentInv
  <2>3. StoredIsWhole' <=> \A i \in RowOf : file'[i] = Whole
    BY <2>1 DEF RowOf, StoredIsWhole
  <2>4. QED BY <2>1, <2>2, <2>3
<1>5. ApartInv'
  <2>1. ASSUME temp' # 0 PROVE temp' \notin RowOf' /\ \A h \in Go : temp' # req'[h].got
    BY <1>2, <1>3, <1>4, <2>1 DEF Only, SafeInv, ApartInv
  <2>2. ASSUME NEW k \in Go, req'[k].pc = "stream"
        PROVE  req'[k].fd \notin RowOf' /\ \A h \in Go : req'[k].fd # req'[h].got
    <3>1. k # g /\ req'[k] = req[k]
      BY <1>2, <2>2 DEF Only
    <3>2. req[k].fd \notin RowOf /\ \A h \in Go : req[k].fd # req[h].got
      BY <2>2, <3>1 DEF SafeInv, ApartInv
    <3>3. \A h \in Go : h # g => req'[h] = req[h]
      BY <1>2 DEF Only
    <3>4. QED BY ONLY <1>2, <1>3, <1>4, <3>1, <3>2, <3>3, k \in Go
  <2>3. QED BY <2>1, <2>2 DEF ApartInv
<1>6. ContentInv'
  <2>1. StoredIsWhole'
    BY <1>3, <1>4
  <2>2. ASSUME NEW h \in Go
        PROVE  /\ req'[h].pc \in Held => file'[req'[h].got] = Whole
               /\ req'[h].pc = "save" /\ temp' # 0 => file'[temp'] = Whole
               /\ req'[h].pc = "copy" => file'[req'[h].fd] = Whole
    <3>1. CASE h = g
      BY <1>2, <1>3, <3>1 DEF Held
    <3>2. CASE h # g
      <4>1. req'[h] = req[h] /\ req[h] \in RequestState
        BY <1>2, <3>2 DEF Only, BaseInv, ServerInv
      <4>2. /\ req[h].pc \in Held => req[h].got \in Inode
            /\ req[h].pc = "copy" => req[h].fd \in Inode
            /\ temp # 0 => temp \in Inode
        BY <4>1, InodeIs DEF BaseInv, RequestInv, RequestState, DiskInv
      <4>3. QED BY <1>3, <4>1, <4>2 DEF SafeInv, ContentInv
    <3>3. QED BY <3>1, <3>2
  <2>3. \A e \in entry' : e[2] \in RowOf'
    BY <1>4 DEF SafeInv, ContentInv
  <2>4. QED BY <1>4, <2>1, <2>2, <2>3 DEF ContentInv
<1>7. QED BY <1>5, <1>6 DEF SafeInv

\* A row for what g has in hand.
LEMMA RowStep ==
    ASSUME BaseInv, BaseInv', SafeInv, NEW g \in Go, req[g].pc \in Held,
           AddRow(req[g].got), file' = file, temp' = temp,
           \A h \in Go : Keeps(h), \A e \in entry' : e \in entry \/ e[2] = req[g].got
    PROVE  SafeInv'
<1> DEFINE i == req[g].got
<1>1. i \in Inode /\ file[i] = Whole
  BY InodeIs DEF BaseInv, ServerInv, RequestInv, RequestState, SafeInv, ContentInv
<1>2. RowOf' = RowOf \cup {i} /\ Whole' = Whole
  BY <1>1, AddRowIs DEF BaseInv, TableInv, Whole
<1>3. /\ \A j \in RowOf : file[j] = Whole
      /\ StoredIsWhole' <=> \A j \in RowOf' : file'[j] = Whole
  BY <1>2, RowOfIs DEF BaseInv, TableInv, SafeInv, ContentInv, RowOf, StoredIsWhole
<1>4. ApartInv'
  <2>1. ASSUME temp' # 0 PROVE temp' \notin RowOf' /\ \A h \in Go : temp' # req'[h].got
    BY <1>2, <2>1 DEF Keeps, SafeInv, ApartInv
  <2>2. ASSUME NEW k \in Go, req'[k].pc = "stream"
        PROVE  req'[k].fd \notin RowOf' /\ \A h \in Go : req'[k].fd # req'[h].got
    <3>1. req[k].pc = "stream" /\ req'[k].fd = req[k].fd /\ req[k].fd # 0
      BY <2>2 DEF Keeps, BaseInv, RequestInv
    <3>2. QED BY <1>2, <3>1 DEF Keeps, SafeInv, ApartInv
  <2>3. QED BY <2>1, <2>2 DEF ApartInv
<1>5. ContentInv'
  <2>1. StoredIsWhole'
    BY <1>1, <1>2, <1>3
  <2>2. ASSUME NEW h \in Go
        PROVE  /\ req'[h].pc \in Held => file'[req'[h].got] = Whole
               /\ req'[h].pc = "save" /\ temp' # 0 => file'[temp'] = Whole
               /\ req'[h].pc = "copy" => file'[req'[h].fd] = Whole
    BY <1>3 DEF Keeps, SafeInv, ContentInv
  <2>3. \A e \in entry' : e[2] \in RowOf'
    BY <1>2 DEF SafeInv, ContentInv
  <2>4. QED BY <1>2, <2>1, <2>2, <2>3 DEF ContentInv
<1>6. QED BY <1>4, <1>5 DEF SafeInv

LEMMA SafeStep == ASSUME BaseInv, BaseInv', TurnInv, SafeInv, [Next]_vars PROVE SafeInv'
<1> USE DEF disk, db
<1>types. /\ req \in [Go -> RequestState] /\ client \in [Uploader -> ClientState]
          /\ RequestInv /\ RequestInv'
          /\ temp \in 0..MaxInode /\ file \in [Inode -> Seq(1..Blocks)]
          /\ \A i \in RowOf : file[i] = Whole
          /\ rows # <<>> => Head(rows) \in RowOf
  BY RowOfIs DEF BaseInv, ServerInv, DiskInv, TableInv, SafeInv, ContentInv
<1>same. \A h \in Go : req'[h] = req[h] /\ temp' \in {0, temp} => Keeps(h)
  BY DEF Keeps
<1>1. ASSUME NEW g \in Go,
             Enter(g) \/ EndOfBody(g) \/ CopyError(g) \/ CheckMd5(g) \/ RemoveTemp(g)
      PROVE  SafeInv'
  <2>1. PICK p \in {"open", "check", "save", "failed", "leave"} :
              /\ Move(g, p)
              /\ p = "save" => temp' = temp /\ file[temp] = Whole
              /\ p = "leave" => req[g].pc = "remove"
    BY <1>1 DEF Enter, EndOfBody, CopyError, CheckMd5, RemoveTemp
  <2>2. file' = file /\ rows' = rows /\ entry' = entry /\ temp' \in {0, temp}
    BY <1>1 DEF Enter, EndOfBody, CopyError, CheckMd5, RemoveTemp, Removed
  <2>3. /\ Only(g) /\ req'[g].pc = p /\ req'[g].got = req[g].got
    BY <2>1, MoveEffect
  <2>4. Keeps(g)
    BY <2>1, <2>3 DEF Keeps, Held
  <2>5. \A h \in Go : Keeps(h)
    BY <1>same, <2>2, <2>3, <2>4 DEF Only
  <2>6. QED BY <1>types, <2>2, <2>5, QuietStep
<1>2. ASSUME NEW g \in Go, OpenTemp(g) PROVE SafeInv'
  <2>1. /\ req[g].pc = "open" /\ rows' = rows /\ entry' = entry
        /\ \A h \in Go : h # g => req'[h] = req[h]
        /\ req'[g].pc = "stream" /\ req'[g].fd = temp' /\ req'[g].got = req[g].got
    BY <1>2, <1>types DEF OpenTemp, RequestState
  <2>2. /\ temp' \in Inode /\ temp' \notin RowOf
        /\ \A h \in Go : temp' # req[h].got
        /\ \A i \in Inode : i # temp' => file'[i] = file[i]
        /\ \A h \in Go : req[h].pc = "copy" => temp' # req[h].fd
    <3>1. CASE temp = 0
      <4>1. NewFile(<<>>) /\ temp' = NewInode
        BY <1>2, <3>1 DEF OpenTemp
      <4>2. <<>> \in Seq(1..Blocks)
        OBVIOUS
      <4>3. QED BY <4>1, <4>2, NewFileIs DEF BaseInv
    <3>2. CASE temp # 0
      <4>1. temp' = temp /\ file' = file
        BY <1>2, <3>2 DEF OpenTemp
      <4>2. \A h \in Go : req[h].pc # "copy"
        <5>1. Carries(g) /\ \A h \in Go : req[h].pc = "copy" => Carries(h) /\ h # g
          BY <2>1 DEF Carries, Inside
        <5>2. QED BY <5>1 DEF TurnInv
      <4>3. QED BY <1>types, <3>2, <4>1, <4>2, InodeIs DEF SafeInv, ApartInv
    <3>3. QED BY <3>1, <3>2
  <2>3. RowOf' = RowOf /\ Whole' = Whole /\ RowOf \subseteq Inode
    BY <2>1, RowOfIs DEF RowOf, Whole, BaseInv, TableInv
  <2>4. ApartInv'
    <3>1. \A h \in Go : req'[h].got = req[h].got
      BY <2>1
    <3>2. \A h \in Go : req'[h].pc = "stream" =>
             req'[h].fd = temp' \/ (req[h].pc = "stream" /\ req'[h].fd = req[h].fd)
      BY <2>1
    <3>3. QED BY <2>2, <2>3, <3>1, <3>2 DEF SafeInv, ApartInv
  <2>5. ContentInv'
    <3>1. StoredIsWhole'
      <4>1. \A i \in RowOf : file'[i] = Whole
        BY <1>types, <2>2, <2>3
      <4>2. QED BY <2>1, <2>3, <4>1 DEF RowOf, StoredIsWhole
    <3>2. ASSUME NEW h \in Go
          PROVE  /\ req'[h].pc \in Held => file'[req'[h].got] = Whole
                 /\ req'[h].pc = "save" /\ temp' # 0 => file'[temp'] = Whole
                 /\ req'[h].pc = "copy" => file'[req'[h].fd] = Whole
      <4>1. CASE h = g
        BY <2>1, <4>1 DEF Held
      <4>2. CASE h # g
        <5>1. req'[h] = req[h] /\ req[h] \in RequestState
          BY <1>types, <2>1, <4>2
        <5>2. req[h].pc # "save"
          <6>1. Carries(g) /\ (req[h].pc = "save" => Carries(h))
            BY <2>1 DEF Carries, Inside
          <6>2. QED BY <4>2, <6>1 DEF TurnInv
        <5>3. /\ req[h].pc \in Held => req[h].got \in Inode
              /\ req[h].pc = "copy" => req[h].fd \in Inode
          BY <1>types, <5>1, InodeIs DEF RequestInv, RequestState
        <5>4. QED BY <2>2, <5>1, <5>2, <5>3 DEF SafeInv, ContentInv
      <4>3. QED BY <4>1, <4>2
    <3>3. \A e \in entry' : e[2] \in RowOf'
      BY <2>1, <2>3 DEF SafeInv, ContentInv
    <3>4. QED BY <2>3, <3>1, <3>2, <3>3 DEF ContentInv
  <2>6. QED BY <2>4, <2>5 DEF SafeInv
<1>3. ASSUME NEW g \in Go, Write(g) PROVE SafeInv'
  <2>1. /\ req[g].pc = "stream" /\ rows' = rows /\ entry' = entry /\ temp' = temp
        /\ \A h \in Go : h # g => req'[h] = req[h]
        /\ req'[g].pc = "stream" /\ req'[g].fd = req[g].fd /\ req'[g].got = req[g].got
        /\ \A i \in Inode : i # req[g].fd => file'[i] = file[i]
    BY <1>3, <1>types DEF Write, RequestState
  <2>2. RowOf' = RowOf /\ Whole' = Whole /\ RowOf \subseteq Inode
    BY <2>1, RowOfIs DEF RowOf, Whole, BaseInv, TableInv
  <2>3. \A h \in Go : req'[h].got = req[h].got /\ req'[h].fd = req[h].fd /\ req'[h].pc = req[h].pc
    BY <2>1
  <2>4. ApartInv'
    BY <2>1, <2>2, <2>3 DEF SafeInv, ApartInv
  <2>5. ContentInv'
    <3>1. StoredIsWhole'
      <4>1. \A i \in RowOf : file'[i] = Whole
        BY <1>types, <2>1, <2>2 DEF SafeInv, ApartInv
      <4>2. QED BY <2>1, <2>2, <4>1 DEF RowOf, StoredIsWhole
    <3>2. ASSUME NEW h \in Go
          PROVE  /\ req'[h].pc \in Held => file'[req'[h].got] = Whole
                 /\ req'[h].pc = "save" /\ temp' # 0 => file'[temp'] = Whole
                 /\ req'[h].pc = "copy" => file'[req'[h].fd] = Whole
      <4>1. CASE h = g
        BY <2>1, <4>1 DEF Held
      <4>2. CASE h # g
        <5>1. req[h].pc \notin {"save", "copy"}
          <6>1. Carries(g) /\ (req[h].pc \in {"save", "copy"} => Carries(h))
            BY <2>1 DEF Carries, Inside
          <6>2. QED BY <4>2, <6>1 DEF TurnInv
        <5>2. req[h].pc \in Held => req[h].got \in Inode /\ req[h].got # req[g].fd
          BY <1>types, <2>1, InodeIs DEF RequestInv, RequestState, SafeInv, ApartInv
        <5>3. QED BY <2>1, <2>2, <2>3, <5>1, <5>2 DEF SafeInv, ContentInv
      <4>3. QED BY <4>1, <4>2
    <3>3. \A e \in entry' : e[2] \in RowOf'
      BY <2>1, <2>2 DEF SafeInv, ContentInv
    <3>4. QED BY <2>2, <3>1, <3>2, <3>3 DEF ContentInv
  <2>6. QED BY <2>4, <2>5 DEF SafeInv
<1>4. ASSUME NEW g \in Go, OpenAgain(g) PROVE SafeInv'
  <2>1. /\ file' = file /\ rows' = rows /\ entry' = entry /\ temp' = temp
        /\ Only(g) /\ req[g].pc = "save"
    BY <1>4, <1>types DEF OpenAgain, Only
  <2>2. Keeps(g)
    <3>1. CASE temp = 0
      <4>1. req'[g].pc = "failed" /\ req'[g].got = req[g].got
        BY <1>4, <1>types, <3>1 DEF OpenAgain, RequestState
      <4>2. QED BY <4>1 DEF Keeps, Held
    <3>2. CASE temp # 0 /\ rows # <<>>
      <4>1. Takes(g, "remove", Head(rows))
        BY <1>4, <1>types, <3>2 DEF OpenAgain, Takes
      <4>2. req'[g].pc = "remove" /\ req'[g].got = Head(rows)
        BY <4>1, TakesEffect
      <4>3. QED BY <1>types, <3>2, <4>2 DEF Keeps
    <3>3. CASE temp # 0 /\ rows = <<>>
      <4>1. req'[g].pc = "copy" /\ req'[g].got = req[g].got /\ req'[g].fd = temp
        BY <1>4, <1>types, <3>3 DEF OpenAgain, RequestState
      <4>2. file[temp] = Whole
        BY <2>1, <3>3 DEF SafeInv, ContentInv
      <4>3. QED BY <4>1, <4>2 DEF Keeps, Held
    <3>4. QED BY <3>1, <3>2, <3>3
  <2>3. \A h \in Go : Keeps(h)
    BY <1>same, <2>1, <2>2 DEF Only
  <2>4. QED BY <1>types, <2>1, <2>3, QuietStep
<1>5. ASSUME NEW g \in Go, CopyToStorage(g) PROVE SafeInv'
  <2>1. file[req[g].fd] = Whole
    BY <1>5 DEF CopyToStorage, SafeInv, ContentInv
  <2>2. Store(g, Whole, "remove") /\ temp' = temp /\ rows' = rows /\ entry' = entry
    BY <1>5, <2>1 DEF CopyToStorage
  <2>3. QED BY <2>2, StoreStep
<1>6. ASSUME NEW g \in Go, Leave(g) PROVE SafeInv'
  <2>1. file' = file /\ rows' = rows /\ entry' = entry /\ temp' = temp /\ req[g].pc # "idle"
    BY <1>6 DEF Leave
  <2>2. Only(g) /\ Keeps(g)
    <3>1. CASE req[g].pc = "leave"
      <4>1. Only(g) /\ req'[g].pc = "commit row" /\ req'[g].got = req[g].got
        BY <1>6, <3>1, MoveEffect DEF Leave
      <4>2. QED BY <3>1, <4>1 DEF Keeps, Held
    <3>2. CASE req[g].pc # "leave"
      <4>1. Only(g) /\ req'[g] = Idle
        BY <1>6, <2>1, <3>2, AnswerEffect DEF Leave
      <4>2. QED BY <4>1, IdleIs DEF Keeps, Held
    <3>3. QED BY <3>1, <3>2
  <2>3. \A h \in Go : Keeps(h)
    BY <1>same, <2>1, <2>2 DEF Only
  <2>4. QED BY <1>types, <2>1, <2>3, QuietStep
<1>7. ASSUME NEW g \in Go, CommitRow(g) PROVE SafeInv'
  <2>1. /\ req[g].pc \in Held /\ req[g].pc # "idle" /\ AddRow(req[g].got)
        /\ Answer(g, "link") /\ file' = file /\ temp' = temp /\ entry' = entry
    BY <1>7 DEF CommitRow, Held
  <2>2. Only(g) /\ req'[g] = Idle
    BY <2>1, AnswerEffect
  <2>3. \A h \in Go : Keeps(h)
    BY <1>same, <2>1, <2>2, IdleIs DEF Only, Keeps, Held
  <2>4. QED BY <2>1, <2>3, RowStep
<1>8. ASSUME NEW g \in Go, LookUp(g) PROVE SafeInv'
  <2>1. file' = file /\ rows' = rows /\ entry' = entry /\ temp' = 0 /\ req[g].pc # "idle"
    BY <1>8 DEF LookUp, Removed
  <2>2. Only(g) /\ Keeps(g)
    <3>1. CASE rows = <<>>
      <4>1. Only(g) /\ req'[g] = Idle
        BY <1>8, <2>1, <3>1, AnswerEffect DEF LookUp
      <4>2. QED BY <4>1, IdleIs DEF Keeps, Held
    <3>2. CASE rows # <<>>
      <4>1. Takes(g, "notify", Head(rows))
        BY <1>8, <3>2 DEF LookUp, Takes
      <4>2. Only(g) /\ req'[g].pc = "notify" /\ req'[g].got = Head(rows)
        BY <4>1, TakesEffect
      <4>3. QED BY <1>types, <3>2, <4>2 DEF Keeps
    <3>3. QED BY <3>1, <3>2
  <2>3. \A h \in Go : Keeps(h)
    BY <1>same, <2>1, <2>2 DEF Only
  <2>4. QED BY <1>types, <2>1, <2>3, QuietStep
<1>9. ASSUME NEW g \in Go, SaveUpload(g) PROVE SafeInv'
  <2>1. rows' = rows /\ entry' = entry /\ temp' = temp
    BY <1>9 DEF SaveUpload
  <2>2. CASE rows # <<>>
    <3>1. Takes(g, "commit entry", Head(rows)) /\ file' = file
      BY <1>9, <2>2 DEF SaveUpload, Takes
    <3>2. Only(g) /\ req'[g].pc = "commit entry" /\ req'[g].got = Head(rows)
      BY <3>1, TakesEffect
    <3>3. Keeps(g)
      BY <1>types, <2>2, <3>2 DEF Keeps
    <3>4. \A h \in Go : Keeps(h)
      BY <1>same, <2>1, <3>2, <3>3 DEF Only
    <3>5. QED BY <1>types, <2>1, <3>1, <3>4, QuietStep
  <2>3. CASE rows = <<>>
    BY <1>9, <2>1, <2>3, StoreStep DEF SaveUpload
  <2>4. QED BY <2>2, <2>3
<1>10. ASSUME NEW g \in Go, NotifyWorker(g) PROVE SafeInv'
  <2>1. /\ file' = file /\ rows' = rows /\ entry' = entry /\ temp' = temp
        /\ req[g].pc # "idle" /\ req[g].pc \in Held
    BY <1>10 DEF NotifyWorker, Held
  <2>2. Only(g) /\ Keeps(g)
    <3>1. CASE req[g].for \in Browser
      <4>1. Only(g) /\ req'[g] = Idle
        BY <1>10, <2>1, <3>1, AnswerEffect DEF NotifyWorker
      <4>2. QED BY <4>1, IdleIs DEF Keeps, Held
    <3>2. CASE req[g].for \notin Browser
      <4>1. Only(g) /\ req'[g].pc = "commit entry" /\ req'[g].got = req[g].got
        BY <1>10, <3>2, MoveEffect DEF NotifyWorker
      <4>2. QED BY <2>1, <4>1 DEF Keeps
    <3>3. QED BY <3>1, <3>2
  <2>3. \A h \in Go : Keeps(h)
    BY <1>same, <2>1, <2>2 DEF Only
  <2>4. QED BY <1>types, <2>1, <2>3, QuietStep
<1>11. ASSUME NEW g \in Go, Commit(g) PROVE SafeInv'
  <2>1. /\ req[g].pc \in Held /\ req[g].pc # "idle" /\ AddRow(req[g].got)
        /\ file' = file /\ temp' = temp
        /\ entry' = entry \cup {<<req[g].for, req[g].got>>}
    BY <1>11 DEF Commit, Held
  <2>2. Only(g) /\ Keeps(g)
    <3>1. CASE req[g].for \notin Browser
      <4>1. Only(g) /\ req'[g] = Idle
        BY <1>11, <2>1, <3>1, AnswerEffect DEF Commit
      <4>2. QED BY <4>1, IdleIs DEF Keeps, Held
    <3>2. CASE req[g].for \in Browser
      <4>1. Only(g) /\ req'[g].pc = "notify" /\ req'[g].got = req[g].got
        BY <1>11, <3>2, MoveEffect DEF Commit
      <4>2. QED BY <2>1, <4>1 DEF Keeps
    <3>3. QED BY <3>1, <3>2
  <2>3. \A h \in Go : Keeps(h)
    BY <1>same, <2>1, <2>2 DEF Only
  <2>4. \A e \in entry' : e \in entry \/ e[2] = req[g].got
    BY <2>1
  <2>5. QED BY <2>1, <2>3, <2>4, RowStep
<1>12. ASSUME NEW c \in Uploader, SendStream(c) \/ SendLink(c) \/ SendUpload(c) PROVE SafeInv'
  <2>1. \/ Request(c, "enter", client[c].from + 1)
        \/ Request(c, "look up", 0) \/ Request(c, "upload", 0)
    BY <1>12 DEF SendStream, SendLink, SendUpload
  <2>2. ASSUME NEW p, NEW n, Request(c, p, n)
        PROVE  \E g \in Go :
              /\ Only(g) /\ req[g].pc = "idle"
              /\ req'[g].pc = p /\ req'[g].for = c /\ req'[g].got = 0
              /\ client'[c].at = "wait" /\ client'[c].by = g
              /\ \A d \in Uploader : d # c => client'[d] = client[d]
    BY ONLY BaseInv, c \in Uploader, <2>2, RequestEffect
  <2>3. PICK g \in Go : /\ Only(g) /\ req'[g].got = 0
                       /\ req'[g].pc \in {"enter", "look up", "upload"}
    BY <2>1, <2>2
  <2>4. file' = file /\ rows' = rows /\ entry' = entry /\ temp' = temp
    BY <1>12 DEF SendStream, SendLink, SendUpload
  <2>5. \A h \in Go : Keeps(h)
    BY <1>same, <2>3, <2>4 DEF Only, Keeps, Held
  <2>6. QED BY <1>types, <2>4, <2>5, QuietStep
<1>13. ASSUME Crash PROVE SafeInv'
  <2>1. file' = file /\ rows' = rows /\ entry' = entry /\ temp' = temp
    BY <1>13 DEF Crash
  <2>2. \A h \in Go : Keeps(h)
    BY <1>13, IdleIs DEF Crash, Keeps, Held
  <2>3. QED BY <1>types, <2>1, <2>2, QuietStep
<1>14. ASSUME \/ \E c \in Uploader : GetUploadedSize(c) \/ Break(c)
              \/ Work \/ UNCHANGED vars
       PROVE  SafeInv'
  <2>1. file' = file /\ rows' = rows /\ entry' = entry /\ temp' = temp /\ req' = req
    BY <1>14 DEF GetUploadedSize, Break, Work, WakeUp, SelectNoHandle, Handle, ResetHasData, vars
  <2>2. \A h \in Go : Keeps(h)
    BY <1>same, <2>1
  <2>3. QED BY <1>types, <2>1, <2>2, QuietStep
<1>15. QED
  BY <1>1, <1>2, <1>3, <1>4, <1>5, <1>6, <1>7, <1>8, <1>9, <1>10, <1>11, <1>12, <1>13, <1>14
     DEF Next, Serve, Ask, Fault

\* Whatever the pages upload beside it, wherever a connection breaks or the
\* process ends, and however many goroutines still work for requests their
\* client has given up: with one client that uploads in pieces, every row of
\* storage_file leads to the whole file (FileUploadAppController.go, ByStream).
THEOREM StoredAreWhole == ASSUME OneClient PROVE Spec => []StoredIsWhole
<1>1. Init => BaseInv /\ TurnInv /\ SafeInv
  BY BaseInit, TurnInit, SafeInit
<1>2. BaseInv /\ TurnInv /\ SafeInv /\ [Next]_vars => (BaseInv /\ TurnInv /\ SafeInv)'
  BY BaseStep, TurnStep, SafeStep
<1>3. SafeInv => StoredIsWhole
  BY DEF SafeInv, ContentInv
<1>4. QED BY <1>1, <1>2, <1>3, PTL DEF Spec

\* So does every entry that was committed for it: ByMd5 and Upload make none
\* whose content is missing or cut off.
THEOREM EntriesAreWhole ==
    ASSUME OneClient PROVE Spec => [](\A e \in entry : file[e[2]] = Whole)
<1>1. Init => BaseInv /\ TurnInv /\ SafeInv
  BY BaseInit, TurnInit, SafeInit
<1>2. BaseInv /\ TurnInv /\ SafeInv /\ [Next]_vars => (BaseInv /\ TurnInv /\ SafeInv)'
  BY BaseStep, TurnStep, SafeStep
<1>3. BaseInv /\ SafeInv => \A e \in entry : file[e[2]] = Whole
  BY RowOfIs DEF SafeInv, ContentInv, BaseInv, TableInv
<1>4. QED BY <1>1, <1>2, <1>3, PTL DEF Spec

=============================================================================

--------------------------- MODULE StorageProofs ---------------------------
(***************************************************************************)
(* What Storage guarantees for any number of requests, collectors, files   *)
(* and entries, any crashes and any failures.                              *)
(***************************************************************************)
EXTENDS Storage, TLAPS

-----------------------------------------------------------------------------
(* The inductive invariant, in parts.                                      *)

\* Numbers are given out once: nothing mentions a file or an entry before it
\* is made, and an entry refers to one.
MadeInv ==
    /\ \A f \in disk \cup row \cup young : f < fresh.file
    /\ \A e \in Entry : of[e] < fresh.file
    /\ \A a \in Adder : hold[a] < fresh.file
    /\ \A k \in Collector : at[k] < fresh.file /\ \A f \in todo[k] : f < fresh.file
    /\ \A e \in entry \cup bin \cup sound : e < fresh.entry
    /\ \A e \in entry \cup bin : of[e] \in File
    /\ \A a \in Adder : pc[a] = "found" => hold[a] \in File

\* A file that is being saved is nobody else's business.
SavingInv ==
    \A a \in Adder : pc[a] = "saving" =>
        /\ hold[a] \in disk \ row
        /\ a \notin safe
        /\ \A b \in Adder \ {a} : hold[b] # hold[a]
        /\ \A e \in Entry : of[e] # hold[a]
        /\ \A k \in Collector : at[k] # hold[a] /\ hold[a] \notin todo[k]

\* What an adder relies on is there, and something keeps it.
SafeInv ==
    \A a \in safe :
        /\ pc[a] = "found"
        /\ hold[a] \in disk \cap row
        /\ Kept(hold[a]) \/ (hold[a] \in young /\ ~InFlight)

\* What a reference in good faith refers to is there.
SoundInv == \A e \in (entry \cup recent.bin) \cap sound : of[e] \in disk \cap row

\* Between the statements of addDelete the entry is in both tables.
PurgingInv ==
    /\ step[Timer] \in {"date", "delete"} => purging \in entry \cap bin
    /\ step[Timer] = "delete" => purging \in recent.bin

\* What the timer looks at is older than the timeout.
AgedInv ==
    /\ \A e \in trash \ recent.trash : of[e] \notin young
    /\ \A e \in bin \ recent.bin : of[e] \notin young
    /\ todo[Timer] \cap young = {}
    /\ at[Timer] \notin young

\* After the first check nothing keeps the file but dfs_file_delete, after
\* the second nothing at all.
Doomed(k) ==
    /\ step[k] \in {"bin", "stat", "remove", "row"} => at[k] \in File
    /\ step[k] = "bin" =>
          \/ ~IsFileUsing(entry \cap sound, at[k])
          \/ IsFileUsing(recent.bin \cap sound, at[k])
    /\ step[k] \in {"stat", "remove", "row"} => ~Kept(at[k])

DoomedInv == \A k \in Collector : Doomed(k)

IInv ==
    /\ TypeOK
    /\ MadeInv
    /\ SavingInv
    /\ SafeInv
    /\ SoundInv
    /\ PurgingInv
    /\ AgedInv
    /\ DoomedInv

-----------------------------------------------------------------------------
(* Every action keeps the invariant.                                       *)

\* A request that finds a row relies on it only if something keeps the file.
LEMMA FindStep == ASSUME IInv, NEW h \in Handler, Find(h) PROVE IInv'
<1> USE DEF File, Entry, Adder, Collector
<1>1. TypeOK'
  <2>1. StoredTyped'
    BY DEF IInv, TypeOK, StoredTyped, Find
  <2>2. TablesTyped'
    BY DEF IInv, TypeOK, TablesTyped, Find, tables
  <2>3. AddersTyped'
    BY DEF IInv, TypeOK, AddersTyped, StoredTyped, Find, Enter
  <2>4. CollectorsTyped'
    BY DEF IInv, TypeOK, CollectorsTyped, Find, collectors
  <2>5. QED BY <2>1, <2>2, <2>3, <2>4 DEF TypeOK
<1>2. MadeInv'
  BY DEF IInv, TypeOK, MadeInv, Find, Enter, tables, collectors, StoredTyped, AddersTyped
<1>3. SavingInv'
  BY DEF IInv, SavingInv, Find, Enter, tables, collectors
<1>4. SafeInv'
  <2> SUFFICES ASSUME NEW b \in safe'
               PROVE  /\ pc'[b] = "found"
                      /\ hold'[b] \in disk' \cap row'
                      /\ Kept(hold[b])' \/ (hold'[b] \in young' /\ ~InFlight')
    BY DEF SafeInv
  <2>1. CASE b = h
    BY <2>1 DEF IInv, TypeOK, AddersTyped, Find, Enter, Reliable, tables, collectors, Kept,
       InFlight, IsFileUsing
  <2>2. CASE b # h
    BY <2>2 DEF IInv, SafeInv, Find, Enter, tables, collectors, Kept, InFlight, IsFileUsing
  <2>3. QED BY <2>1, <2>2
<1>5. SoundInv'
  BY DEF IInv, SoundInv, Find, tables
<1>6. PurgingInv'
  BY DEF IInv, PurgingInv, Find, tables, collectors
<1>7. AgedInv'
  BY DEF IInv, AgedInv, Find, tables, collectors
<1>8. DoomedInv'
  BY DEF IInv, DoomedInv, Find, tables, collectors, Kept, IsFileUsing, Doomed
<1>9. QED BY <1>1, <1>2, <1>3, <1>4, <1>5, <1>6, <1>7, <1>8 DEF IInv

\* The worker that finds a row, the same, though it does not see the file.
LEMMA FindUnseenStep == ASSUME IInv, FindUnseen PROVE IInv'
<1> USE DEF File, Entry, Adder, Collector
<1>1. TypeOK'
  <2>1. StoredTyped'
    BY DEF IInv, TypeOK, StoredTyped, FindUnseen
  <2>2. TablesTyped'
    BY DEF IInv, TypeOK, TablesTyped, FindUnseen, tables
  <2>3. AddersTyped'
    BY DEF IInv, TypeOK, AddersTyped, StoredTyped, FindUnseen, Enter
  <2>4. CollectorsTyped'
    BY DEF IInv, TypeOK, CollectorsTyped, FindUnseen, collectors
  <2>5. QED BY <2>1, <2>2, <2>3, <2>4 DEF TypeOK
<1>2. MadeInv'
  BY DEF IInv, TypeOK, MadeInv, FindUnseen, Enter, tables, collectors, StoredTyped, AddersTyped
<1>3. SavingInv'
  BY DEF IInv, SavingInv, FindUnseen, Enter, tables, collectors
<1>4. SafeInv'
  <2> SUFFICES ASSUME NEW b \in safe'
               PROVE  /\ pc'[b] = "found"
                      /\ hold'[b] \in disk' \cap row'
                      /\ Kept(hold[b])' \/ (hold'[b] \in young' /\ ~InFlight')
    BY DEF SafeInv
  <2>1. CASE b = Worker
    BY <2>1 DEF IInv, TypeOK, AddersTyped, FindUnseen, Enter, Reliable, tables, collectors,
       Kept, InFlight, IsFileUsing
  <2>2. CASE b # Worker
    BY <2>2 DEF IInv, SafeInv, FindUnseen, Enter, tables, collectors, Kept, InFlight,
       IsFileUsing
  <2>3. QED BY <2>1, <2>2
<1>5. SoundInv'
  BY DEF IInv, SoundInv, FindUnseen, tables
<1>6. PurgingInv'
  BY DEF IInv, PurgingInv, FindUnseen, tables, collectors
<1>7. AgedInv'
  BY DEF IInv, AgedInv, FindUnseen, tables, collectors
<1>8. DoomedInv'
  BY DEF IInv, DoomedInv, FindUnseen, tables, collectors, Kept, IsFileUsing, Doomed
<1>9. QED BY <1>1, <1>2, <1>3, <1>4, <1>5, <1>6, <1>7, <1>8 DEF IInv

\* A file read from an entry is relied on only if the entry was sound.
LEMMA ReadEntryStep == ASSUME IInv, NEW a \in Adder, ReadEntry(a) PROVE IInv'
<1> USE DEF File, Entry, Adder, Collector
<1>1. TypeOK'
  <2>1. StoredTyped'
    BY DEF IInv, TypeOK, StoredTyped, ReadEntry
  <2>2. TablesTyped'
    BY DEF IInv, TypeOK, TablesTyped, ReadEntry, tables
  <2>3. AddersTyped'
    BY DEF IInv, TypeOK, AddersTyped, TablesTyped, ReadEntry, Enter
  <2>4. CollectorsTyped'
    BY DEF IInv, TypeOK, CollectorsTyped, ReadEntry, collectors
  <2>5. QED BY <2>1, <2>2, <2>3, <2>4 DEF TypeOK
<1>2. MadeInv'
  BY DEF IInv, TypeOK, MadeInv, ReadEntry, Enter, tables, collectors, TablesTyped, AddersTyped
<1>3. SavingInv'
  BY DEF IInv, TypeOK, MadeInv, SavingInv, ReadEntry, Enter, tables, collectors, TablesTyped
<1>4. SafeInv'
  <2> SUFFICES ASSUME NEW b \in safe'
               PROVE  /\ pc'[b] = "found"
                      /\ hold'[b] \in disk' \cap row'
                      /\ Kept(hold[b])' \/ (hold'[b] \in young' /\ ~InFlight')
    BY DEF SafeInv
  <2>1. CASE b = a
    BY <2>1 DEF IInv, TypeOK, AddersTyped, ReadEntry, Enter, Reliable, tables, collectors,
       Kept, InFlight, IsFileUsing
  <2>2. CASE b # a
    BY <2>2 DEF IInv, SafeInv, ReadEntry, Enter, tables, collectors, Kept, InFlight,
       IsFileUsing
  <2>3. QED BY <2>1, <2>2
<1>5. SoundInv'
  BY DEF IInv, SoundInv, ReadEntry, tables
<1>6. PurgingInv'
  BY DEF IInv, PurgingInv, ReadEntry, tables, collectors
<1>7. AgedInv'
  BY DEF IInv, AgedInv, ReadEntry, tables, collectors
<1>8. DoomedInv'
  BY DEF IInv, DoomedInv, ReadEntry, tables, collectors, Kept, IsFileUsing, Doomed
<1>9. QED BY <1>1, <1>2, <1>3, <1>4, <1>5, <1>6, <1>7, <1>8 DEF IInv

\* A new file has a number nobody has seen.
LEMMA CreateFileStep == ASSUME IInv, NEW a \in Adder, CreateFile(a) PROVE IInv'
<1> USE DEF File, Entry, Adder, Collector
<1>1. TypeOK'
  <2>1. StoredTyped'
    BY BoundAssumption DEF IInv, TypeOK, StoredTyped, CreateFile
  <2>2. TablesTyped'
    BY DEF IInv, TypeOK, TablesTyped, CreateFile, tables
  <2>3. AddersTyped'
    BY DEF IInv, TypeOK, AddersTyped, StoredTyped, CreateFile
  <2>4. CollectorsTyped'
    BY DEF IInv, TypeOK, CollectorsTyped, CreateFile, collectors
  <2>5. QED BY <2>1, <2>2, <2>3, <2>4 DEF TypeOK
<1>2. MadeInv'
  BY DEF IInv, TypeOK, MadeInv, CreateFile, tables, collectors, StoredTyped, TablesTyped,
     AddersTyped, CollectorsTyped
<1>3. SavingInv'
  BY DEF IInv, TypeOK, MadeInv, SavingInv, SafeInv, CreateFile, tables, collectors,
     StoredTyped, AddersTyped
<1>4. SafeInv'
  BY DEF IInv, SafeInv, CreateFile, tables, collectors, Kept, InFlight, IsFileUsing
<1>5. SoundInv'
  BY DEF IInv, SoundInv, CreateFile, tables
<1>6. PurgingInv'
  BY DEF IInv, PurgingInv, CreateFile, tables, collectors
<1>7. AgedInv'
  BY DEF IInv, AgedInv, CreateFile, tables, collectors
<1>8. DoomedInv'
  BY DEF IInv, DoomedInv, CreateFile, tables, collectors, Kept, IsFileUsing, Doomed
<1>9. QED BY <1>1, <1>2, <1>3, <1>4, <1>5, <1>6, <1>7, <1>8 DEF IInv

\* The new row is young, and its file is there.
LEMMA CommitStreamStep == ASSUME IInv, NEW h \in Handler, CommitStream(h) PROVE IInv'
<1> USE DEF File, Entry, Adder, Collector
<1>1. TypeOK'
  <2>1. StoredTyped'
    <3>1. hold[h] \in File
      BY DEF IInv, TypeOK, StoredTyped, SavingInv, CommitStream
    <3>2. QED BY <3>1 DEF IInv, TypeOK, StoredTyped, CommitStream, AddStorage
  <2>2. TablesTyped'
    BY DEF IInv, TypeOK, TablesTyped, CommitStream, tables
  <2>3. AddersTyped'
    BY BoundAssumption DEF IInv, TypeOK, AddersTyped, CommitStream, Leave
  <2>4. CollectorsTyped'
    BY DEF IInv, TypeOK, CollectorsTyped, CommitStream, collectors
  <2>5. QED BY <2>1, <2>2, <2>3, <2>4 DEF TypeOK
<1>2. MadeInv'
  BY DEF IInv, TypeOK, MadeInv, CommitStream, AddStorage, Leave, tables, collectors,
     StoredTyped
<1>3. SavingInv'
  BY DEF IInv, TypeOK, SavingInv, CommitStream, AddStorage, Leave, tables, collectors,
     StoredTyped, AddersTyped
<1>4. SafeInv'
  BY DEF IInv, SafeInv, CommitStream, AddStorage, Leave, tables, collectors, Kept, InFlight,
     IsFileUsing
<1>5. SoundInv'
  BY DEF IInv, SoundInv, CommitStream, AddStorage, tables
<1>6. PurgingInv'
  BY DEF IInv, PurgingInv, CommitStream, tables, collectors
<1>7. AgedInv'
  BY DEF IInv, TypeOK, AgedInv, SavingInv, CommitStream, AddStorage, tables, collectors,
     TablesTyped
<1>8. DoomedInv'
  BY DEF IInv, DoomedInv, CommitStream, tables, collectors, Kept, IsFileUsing, Doomed
<1>9. QED BY <1>1, <1>2, <1>3, <1>4, <1>5, <1>6, <1>7, <1>8 DEF IInv

\* The new row and the new entry refer to the file that was created.
LEMMA CommitUploadStep == ASSUME IInv, NEW h \in Handler, CommitUpload(h) PROVE IInv'
<1> USE DEF File, Entry, Adder, Collector
<1>1. TypeOK'
  <2>1. StoredTyped'
    BY BoundAssumption DEF IInv, TypeOK, StoredTyped, SavingInv, CommitUpload, AddStorage,
       AddEntry
  <2>2. TablesTyped'
    BY DEF IInv, TypeOK, TablesTyped, StoredTyped, AddersTyped, CommitUpload, AddEntry
  <2>3. AddersTyped'
    BY BoundAssumption DEF IInv, TypeOK, AddersTyped, CommitUpload, Leave
  <2>4. CollectorsTyped'
    BY DEF IInv, TypeOK, CollectorsTyped, CommitUpload, collectors
  <2>5. QED BY <2>1, <2>2, <2>3, <2>4 DEF TypeOK
<1>2. MadeInv'
  <2>1. \A f \in disk' \cup row' \cup young' : f < fresh'.file
    BY DEF IInv, MadeInv, CommitUpload, AddStorage, AddEntry
  <2>2. \A e \in Entry : of'[e] < fresh'.file
    BY DEF IInv, MadeInv, CommitUpload, AddEntry
  <2>3. \A b \in Adder : hold'[b] < fresh'.file /\ (pc'[b] = "found" => hold'[b] \in File)
    BY DEF IInv, TypeOK, StoredTyped, MadeInv, CommitUpload, AddEntry, Leave
  <2>4. \A j \in Collector : at'[j] < fresh'.file /\ \A f \in todo'[j] : f < fresh'.file
    BY DEF IInv, MadeInv, CommitUpload, AddEntry, collectors
  <2>5. \A e \in entry' \cup bin' \cup sound' : e < fresh'.entry
    BY DEF IInv, TypeOK, StoredTyped, TablesTyped, MadeInv, CommitUpload, AddEntry
  <2>6. \A e \in entry' \cup bin' : of'[e] \in File
    BY DEF IInv, TypeOK, StoredTyped, TablesTyped, SavingInv, MadeInv, CommitUpload, AddEntry
  <2>7. QED BY <2>1, <2>2, <2>3, <2>4, <2>5, <2>6 DEF MadeInv
<1>3. SavingInv'
  BY DEF IInv, TypeOK, SavingInv, CommitUpload, AddStorage, AddEntry, Leave, collectors,
     StoredTyped, AddersTyped
<1>4. SafeInv'
  BY DEF IInv, TypeOK, SafeInv, MadeInv, CommitUpload, AddStorage, AddEntry, Leave, collectors,
     Kept, InFlight, TablesTyped, IsFileUsing
<1>5. SoundInv'
  BY DEF IInv, TypeOK, SoundInv, SavingInv, CommitUpload, AddStorage, AddEntry, StoredTyped,
     TablesTyped
<1>6. PurgingInv'
  BY DEF IInv, PurgingInv, CommitUpload, AddEntry, collectors
<1>7. AgedInv'
  BY DEF IInv, TypeOK, AgedInv, SavingInv, MadeInv, CommitUpload, AddStorage, AddEntry,
     collectors, TablesTyped
<1>8. DoomedInv'
  BY DEF IInv, TypeOK, DoomedInv, SavingInv, MadeInv, CommitUpload, AddEntry, collectors, Kept,
     StoredTyped, TablesTyped, IsFileUsing, Doomed
<1>9. QED BY <1>1, <1>2, <1>3, <1>4, <1>5, <1>6, <1>7, <1>8 DEF IInv

\* The worker relies on its new row because the row is young.
LEMMA InsertStorageStep == ASSUME IInv, InsertStorage PROVE IInv'
<1> USE DEF File, Entry, Adder, Collector
<1>1. TypeOK'
  <2>1. StoredTyped'
    <3>1. hold[Worker] \in File
      BY DEF IInv, TypeOK, StoredTyped, SavingInv, InsertStorage
    <3>2. QED BY <3>1 DEF IInv, TypeOK, StoredTyped, InsertStorage, AddStorage
  <2>2. TablesTyped'
    BY DEF IInv, TypeOK, TablesTyped, InsertStorage, tables
  <2>3. AddersTyped'
    BY DEF IInv, TypeOK, AddersTyped, InsertStorage
  <2>4. CollectorsTyped'
    BY DEF IInv, TypeOK, CollectorsTyped, InsertStorage, collectors
  <2>5. QED BY <2>1, <2>2, <2>3, <2>4 DEF TypeOK
<1>2. MadeInv'
  <2>1. \A f \in disk' \cup row' \cup young' : f < fresh'.file
    BY DEF IInv, MadeInv, InsertStorage, AddStorage
  <2>2. \A e \in Entry : of'[e] < fresh'.file
    BY DEF IInv, MadeInv, InsertStorage, tables
  <2>3. \A b \in Adder : hold'[b] < fresh'.file /\ (pc'[b] = "found" => hold'[b] \in File)
    BY DEF IInv, TypeOK, StoredTyped, AddersTyped, SavingInv, MadeInv, InsertStorage
  <2>4. \A j \in Collector : at'[j] < fresh'.file /\ \A f \in todo'[j] : f < fresh'.file
    BY DEF IInv, MadeInv, InsertStorage, collectors
  <2>5. \A e \in entry' \cup bin' \cup sound' : e < fresh'.entry
    BY DEF IInv, MadeInv, InsertStorage, tables
  <2>6. \A e \in entry' \cup bin' : of'[e] \in File
    BY DEF IInv, MadeInv, InsertStorage, tables
  <2>7. QED BY <2>1, <2>2, <2>3, <2>4, <2>5, <2>6 DEF MadeInv
<1>3. SavingInv'
  BY DEF IInv, TypeOK, SavingInv, InsertStorage, AddStorage, tables, collectors, AddersTyped
<1>4. SafeInv'
  BY DEF IInv, TypeOK, SafeInv, SavingInv, InsertStorage, AddStorage, tables, collectors, Kept,
     InFlight, AddersTyped, IsFileUsing
<1>5. SoundInv'
  BY DEF IInv, SoundInv, InsertStorage, AddStorage, tables
<1>6. PurgingInv'
  BY DEF IInv, PurgingInv, InsertStorage, tables, collectors
<1>7. AgedInv'
  BY DEF IInv, TypeOK, AgedInv, SavingInv, InsertStorage, AddStorage, tables, collectors,
     TablesTyped
<1>8. DoomedInv'
  BY DEF IInv, DoomedInv, InsertStorage, tables, collectors, Kept, IsFileUsing, Doomed
<1>9. QED BY <1>1, <1>2, <1>3, <1>4, <1>5, <1>6, <1>7, <1>8 DEF IInv

\* A sound entry takes over the file its adder relied on; a collector that
\* has passed its checks works on another file.
LEMMA CommitEntryStep == ASSUME IInv, NEW a \in Adder, CommitEntry(a) PROVE IInv'
<1> USE DEF File, Entry, Adder, Collector
<1>1. TypeOK'
  <2>1. StoredTyped'
    BY BoundAssumption DEF IInv, TypeOK, StoredTyped, CommitEntry, AddEntry
  <2>2. TablesTyped'
    BY DEF IInv, TypeOK, TablesTyped, StoredTyped, AddersTyped, CommitEntry, AddEntry
  <2>3. AddersTyped'
    BY BoundAssumption DEF IInv, TypeOK, AddersTyped, CommitEntry, Leave
  <2>4. CollectorsTyped'
    BY DEF IInv, TypeOK, CollectorsTyped, CommitEntry, collectors
  <2>5. QED BY <2>1, <2>2, <2>3, <2>4 DEF TypeOK
<1>2. MadeInv'
  BY DEF IInv, TypeOK, MadeInv, CommitEntry, AddEntry, Leave, collectors, StoredTyped,
     TablesTyped, AddersTyped
<1>3. SavingInv'
  BY DEF IInv, TypeOK, SavingInv, CommitEntry, AddEntry, Leave, collectors, StoredTyped
<1>4. SafeInv'
  BY DEF IInv, TypeOK, SafeInv, MadeInv, CommitEntry, AddEntry, Leave, collectors, Kept,
     InFlight, TablesTyped, IsFileUsing
<1>5. SoundInv'
  BY DEF IInv, TypeOK, MadeInv, SafeInv, SoundInv, CommitEntry, AddEntry, StoredTyped,
     TablesTyped
<1>6. PurgingInv'
  BY DEF IInv, PurgingInv, CommitEntry, AddEntry, collectors
<1>7. AgedInv'
  BY DEF IInv, TypeOK, AgedInv, MadeInv, CommitEntry, AddEntry, collectors, TablesTyped
<1>8. DoomedInv'
  <2>1. \A f \in File : Kept(f)' => Kept(f) \/ (f = hold[a] /\ a \in safe)
    BY DEF IInv, TypeOK, StoredTyped, TablesTyped, MadeInv, CommitEntry, AddEntry, Kept,
       IsFileUsing
  <2> SUFFICES ASSUME NEW j \in Collector PROVE Doomed(j)'
    BY DEF DoomedInv
  <2>2. UNCHANGED <<step, at, recent>>
    BY DEF CommitEntry, collectors
  <2>3. a \in safe => Kept(hold[a]) \/ (hold[a] \in young /\ ~InFlight)
    BY DEF IInv, SafeInv
  <2>4. CASE step[j] = "bin"
    BY <2>2, <2>3, <2>4 DEF IInv, TypeOK, StoredTyped, TablesTyped, MadeInv, AgedInv,
       DoomedInv, Doomed, CommitEntry, AddEntry, Kept, InFlight, IsFileUsing
  <2>5. CASE step[j] \in {"stat", "remove", "row"}
    <3>1. at[j] \in File /\ ~Kept(at[j])
      BY <2>5 DEF IInv, DoomedInv, Doomed
    <3>2. a \in safe => hold[a] # at[j]
      BY <2>3, <2>5, <3>1 DEF IInv, AgedInv, InFlight
    <3>3. QED BY <2>1, <2>2, <2>5, <3>1, <3>2 DEF Doomed
  <2>6. QED BY <2>2, <2>4, <2>5 DEF IInv, DoomedInv, Doomed
<1>9. QED BY <1>1, <1>2, <1>3, <1>4, <1>5, <1>6, <1>7, <1>8 DEF IInv

\* A request that fails leaves a file nobody mentions.
LEMMA FailStep == ASSUME IInv, NEW a \in Adder, Fail(a) PROVE IInv'
<1> USE DEF File, Entry, Adder, Collector
<1>1. TypeOK'
  <2>1. StoredTyped'
    BY BoundAssumption DEF IInv, TypeOK, StoredTyped, Fail, Busy
  <2>2. TablesTyped'
    BY DEF IInv, TypeOK, TablesTyped, Fail, tables
  <2>3. AddersTyped'
    BY BoundAssumption DEF IInv, TypeOK, AddersTyped, Fail, Leave
  <2>4. CollectorsTyped'
    BY DEF IInv, TypeOK, CollectorsTyped, Fail, collectors
  <2>5. QED BY <2>1, <2>2, <2>3, <2>4 DEF TypeOK
<1>2. MadeInv'
  BY DEF IInv, TypeOK, MadeInv, Fail, Leave, tables, collectors, StoredTyped, AddersTyped
<1>3. SavingInv'
  BY DEF IInv, TypeOK, SavingInv, Fail, Leave, tables, collectors, StoredTyped, AddersTyped
<1>4. SafeInv'
  BY DEF IInv, SafeInv, Fail, Leave, tables, collectors, Kept, InFlight, IsFileUsing
<1>5. SoundInv'
  BY DEF IInv, SoundInv, Fail, tables
<1>6. PurgingInv'
  BY DEF IInv, PurgingInv, Fail, tables, collectors
<1>7. AgedInv'
  BY DEF IInv, AgedInv, Fail, tables, collectors
<1>8. DoomedInv'
  BY DEF IInv, DoomedInv, Fail, tables, collectors, Kept, IsFileUsing, Doomed
<1>9. QED BY <1>1, <1>2, <1>3, <1>4, <1>5, <1>6, <1>7, <1>8 DEF IInv

\* An entry in the trash is still an entry, and its deleteDate is recent.
LEMMA TrashStep == ASSUME IInv, NEW e \in Entry, Trash(e) PROVE IInv'
<1> USE DEF File, Entry, Adder, Collector
<1>1. TypeOK'
  <2>1. StoredTyped'
    BY DEF IInv, TypeOK, StoredTyped, Trash
  <2>2. TablesTyped'
    BY DEF IInv, TypeOK, TablesTyped, Trash
  <2>3. AddersTyped'
    BY DEF IInv, TypeOK, AddersTyped, Trash, adders
  <2>4. CollectorsTyped'
    BY DEF IInv, TypeOK, CollectorsTyped, Trash, collectors
  <2>5. QED BY <2>1, <2>2, <2>3, <2>4 DEF TypeOK
<1>2. MadeInv'
  BY DEF IInv, MadeInv, Trash, adders, collectors
<1>3. SavingInv'
  BY DEF IInv, SavingInv, Trash, adders, collectors
<1>4. SafeInv'
  BY DEF IInv, SafeInv, Trash, adders, collectors, Kept, InFlight, IsFileUsing
<1>5. SoundInv'
  BY DEF IInv, SoundInv, Trash
<1>6. PurgingInv'
  BY DEF IInv, PurgingInv, Trash, collectors
<1>7. AgedInv'
  BY DEF IInv, AgedInv, Trash, collectors
<1>8. DoomedInv'
  BY DEF IInv, DoomedInv, Trash, collectors, Kept, IsFileUsing, Doomed
<1>9. QED BY <1>1, <1>2, <1>3, <1>4, <1>5, <1>6, <1>7, <1>8 DEF IInv

\* Recovering takes an entry out of the trash only.
LEMMA RecoverStep == ASSUME IInv, NEW e \in Entry, Recover(e) PROVE IInv'
<1> USE DEF File, Entry, Adder, Collector
<1>1. TypeOK'
  <2>1. StoredTyped'
    BY DEF IInv, TypeOK, StoredTyped, Recover
  <2>2. TablesTyped'
    BY DEF IInv, TypeOK, TablesTyped, Recover
  <2>3. AddersTyped'
    BY DEF IInv, TypeOK, AddersTyped, Recover, adders
  <2>4. CollectorsTyped'
    BY DEF IInv, TypeOK, CollectorsTyped, Recover, collectors
  <2>5. QED BY <2>1, <2>2, <2>3, <2>4 DEF TypeOK
<1>2. MadeInv'
  BY DEF IInv, MadeInv, Recover, adders, collectors
<1>3. SavingInv'
  BY DEF IInv, SavingInv, Recover, adders, collectors
<1>4. SafeInv'
  BY DEF IInv, SafeInv, Recover, adders, collectors, Kept, InFlight, IsFileUsing
<1>5. SoundInv'
  BY DEF IInv, SoundInv, Recover
<1>6. PurgingInv'
  BY DEF IInv, PurgingInv, Recover, collectors
<1>7. AgedInv'
  BY DEF IInv, AgedInv, Recover, collectors
<1>8. DoomedInv'
  BY DEF IInv, DoomedInv, Recover, collectors, Kept, IsFileUsing, Doomed
<1>9. QED BY <1>1, <1>2, <1>3, <1>4, <1>5, <1>6, <1>7, <1>8 DEF IInv

\* An entry that moves to dfs_file_delete keeps its file there for as long
\* as the deleteDate is recent: a collector between its two checks sees it.
LEMMA LogicDeleteStep == ASSUME IInv, NEW e \in Entry, LogicDelete(e) PROVE IInv'
<1> USE DEF File, Entry, Adder, Collector
<1>1. TypeOK'
  <2>1. StoredTyped'
    BY DEF IInv, TypeOK, StoredTyped, LogicDelete
  <2>2. TablesTyped'
    BY DEF IInv, TypeOK, TablesTyped, LogicDelete
  <2>3. AddersTyped'
    BY DEF IInv, TypeOK, AddersTyped, LogicDelete, adders
  <2>4. CollectorsTyped'
    BY DEF IInv, TypeOK, CollectorsTyped, LogicDelete, collectors
  <2>5. QED BY <2>1, <2>2, <2>3, <2>4 DEF TypeOK
<1>2. MadeInv'
  BY DEF IInv, TypeOK, MadeInv, LogicDelete, adders, collectors, TablesTyped
<1>3. SavingInv'
  BY DEF IInv, SavingInv, LogicDelete, adders, collectors
<1>4. SafeInv'
  BY DEF IInv, SafeInv, LogicDelete, adders, collectors, Kept, InFlight, IsFileUsing
<1>5. SoundInv'
  BY DEF IInv, TypeOK, SoundInv, LogicDelete, TablesTyped
<1>6. PurgingInv'
  BY DEF IInv, PurgingInv, LogicDelete, collectors
<1>7. AgedInv'
  BY DEF IInv, AgedInv, LogicDelete, collectors
<1>8. DoomedInv'
  BY DEF IInv, TypeOK, DoomedInv, LogicDelete, adders, collectors, Kept, TablesTyped,
     IsFileUsing, Doomed
<1>9. QED BY <1>1, <1>2, <1>3, <1>4, <1>5, <1>6, <1>7, <1>8 DEF IInv

\* The timer starts with nothing to look at.
LEMMA StartTimerStep == ASSUME IInv, StartTimer PROVE IInv'
<1> USE DEF File, Entry, Adder, Collector
<1>1. TypeOK'
  <2>1. StoredTyped'
    BY DEF IInv, TypeOK, StoredTyped, StartTimer
  <2>2. TablesTyped'
    BY DEF IInv, TypeOK, TablesTyped, StartTimer, tables
  <2>3. AddersTyped'
    BY DEF IInv, TypeOK, AddersTyped, StartTimer, adders
  <2>4. CollectorsTyped'
    BY DEF IInv, TypeOK, CollectorsTyped, StartTimer, Go
  <2>5. QED BY <2>1, <2>2, <2>3, <2>4 DEF TypeOK
<1>2. MadeInv'
  BY DEF IInv, MadeInv, StartTimer, tables, adders
<1>3. SavingInv'
  BY DEF IInv, SavingInv, StartTimer, tables, adders
<1>4. SafeInv'
  BY ActorAssumption DEF IInv, SafeInv, StartTimer, Go, tables, adders, Kept, InFlight,
     IsFileUsing
<1>5. SoundInv'
  BY DEF IInv, SoundInv, StartTimer, tables
<1>6. PurgingInv'
  BY DEF PurgingInv, StartTimer, Go
<1>7. AgedInv'
  BY DEF IInv, AgedInv, StartTimer, tables
<1>8. DoomedInv'
  BY DEF IInv, DoomedInv, StartTimer, Go, tables, Kept, IsFileUsing, Doomed
<1>9. QED BY <1>1, <1>2, <1>3, <1>4, <1>5, <1>6, <1>7, <1>8 DEF IInv

\* The copy in dfs_file_delete is not recent, but neither is its file young.
LEMMA TimerInsertStep == ASSUME IInv, TimerInsert PROVE IInv'
<1> USE DEF File, Entry, Adder, Collector
<1>1. TypeOK'
  <2>1. StoredTyped'
    BY DEF IInv, TypeOK, StoredTyped, TimerInsert
  <2>2. TablesTyped'
    <3>1. bin' \subseteq Entry /\ bin \subseteq bin'
      BY DEF IInv, TypeOK, TablesTyped, TimerInsert, Expired
    <3>2. UNCHANGED <<entry, of, trash, recent, sound>>
      BY DEF TimerInsert
    <3>3. QED BY <3>1, <3>2 DEF IInv, TypeOK, TablesTyped
  <2>3. AddersTyped'
    BY DEF IInv, TypeOK, AddersTyped, TimerInsert, adders
  <2>4. CollectorsTyped'
    BY BoundAssumption DEF IInv, TypeOK, CollectorsTyped, TablesTyped, TimerInsert, Expired,
       EndRun, Go
  <2>5. QED BY <2>1, <2>2, <2>3, <2>4 DEF TypeOK
<1>2. MadeInv'
  BY DEF IInv, TypeOK, MadeInv, TimerInsert, Expired, EndRun, adders, StoredTyped, TablesTyped,
     CollectorsTyped
<1>3. SavingInv'
  BY DEF IInv, TypeOK, SavingInv, TimerInsert, EndRun, adders, StoredTyped, CollectorsTyped
<1>4. SafeInv'
  BY DEF IInv, TypeOK, SafeInv, TimerInsert, EndRun, Go, adders, Kept, InFlight,
     CollectorsTyped, IsFileUsing
<1>5. SoundInv'
  BY DEF IInv, SoundInv, TimerInsert
<1>6. PurgingInv'
  BY DEF IInv, TypeOK, PurgingInv, TimerInsert, Expired, EndRun, Go, TablesTyped,
     CollectorsTyped
<1>7. AgedInv'
  <2>1. \A e \in bin' \ bin : e \in trash \ recent.trash
    BY DEF TimerInsert, Expired
  <2>2. todo'[Timer] \subseteq todo[Timer] /\ at'[Timer] \in {at[Timer], 0}
    BY DEF IInv, TypeOK, CollectorsTyped, TimerInsert, EndRun
  <2>3. UNCHANGED <<of, trash, recent, young>>
    BY DEF TimerInsert
  <2>4. 0 \notin young
    BY DEF IInv, TypeOK, StoredTyped
  <2>5. QED BY <2>1, <2>2, <2>3, <2>4 DEF IInv, AgedInv
<1>8. DoomedInv'
  BY DEF IInv, TypeOK, DoomedInv, TimerInsert, EndRun, Go, Kept, CollectorsTyped, IsFileUsing,
     Doomed
<1>9. QED BY <1>1, <1>2, <1>3, <1>4, <1>5, <1>6, <1>7, <1>8 DEF IInv

\* From here on the copy keeps the file.
LEMMA TimerSetDateStep == ASSUME IInv, TimerSetDate PROVE IInv'
<1> USE DEF File, Entry, Adder, Collector
<1>1. TypeOK'
  <2>1. StoredTyped'
    BY DEF IInv, TypeOK, StoredTyped, TimerSetDate
  <2>2. TablesTyped'
    <3>1. purging \in bin
      BY DEF IInv, PurgingInv, TimerSetDate
    <3>2. recent' = [trash |-> recent.trash, bin |-> recent.bin \cup {purging}]
      BY DEF IInv, TypeOK, TablesTyped, TimerSetDate
    <3>3. QED BY <3>1, <3>2 DEF IInv, TypeOK, TablesTyped, TimerSetDate
  <2>3. AddersTyped'
    BY DEF IInv, TypeOK, AddersTyped, TimerSetDate, adders
  <2>4. CollectorsTyped'
    BY DEF IInv, TypeOK, CollectorsTyped, TimerSetDate, Go
  <2>5. QED BY <2>1, <2>2, <2>3, <2>4 DEF TypeOK
<1>2. MadeInv'
  BY DEF IInv, MadeInv, TimerSetDate, adders
<1>3. SavingInv'
  BY DEF IInv, SavingInv, TimerSetDate, adders
<1>4. SafeInv'
  BY DEF IInv, SafeInv, TimerSetDate, Go, adders, Kept, InFlight, IsFileUsing
<1>5. SoundInv'
  BY DEF IInv, SoundInv, PurgingInv, TimerSetDate
<1>6. PurgingInv'
  BY DEF IInv, PurgingInv, TimerSetDate
<1>7. AgedInv'
  BY DEF IInv, AgedInv, TimerSetDate
<1>8. DoomedInv'
  BY DEF IInv, DoomedInv, PurgingInv, TimerSetDate, Go, Kept, IsFileUsing, Doomed
<1>9. QED BY <1>1, <1>2, <1>3, <1>4, <1>5, <1>6, <1>7, <1>8 DEF IInv

\* The entry goes when its copy already keeps the file.
LEMMA TimerDeleteStep == ASSUME IInv, TimerDelete PROVE IInv'
<1> USE DEF File, Entry, Adder, Collector
<1>1. TypeOK'
  <2>1. StoredTyped'
    BY DEF IInv, TypeOK, StoredTyped, TimerDelete
  <2>2. TablesTyped'
    BY DEF IInv, TypeOK, TablesTyped, TimerDelete
  <2>3. AddersTyped'
    BY DEF IInv, TypeOK, AddersTyped, TimerDelete, adders
  <2>4. CollectorsTyped'
    BY BoundAssumption DEF IInv, TypeOK, CollectorsTyped, TimerDelete, Go
  <2>5. QED BY <2>1, <2>2, <2>3, <2>4 DEF TypeOK
<1>2. MadeInv'
  BY DEF IInv, MadeInv, TimerDelete, adders
<1>3. SavingInv'
  BY DEF IInv, SavingInv, TimerDelete, adders
<1>4. SafeInv'
  BY DEF IInv, SafeInv, PurgingInv, TimerDelete, Go, adders, Kept, InFlight, IsFileUsing
<1>5. SoundInv'
  BY DEF IInv, SoundInv, TimerDelete
<1>6. PurgingInv'
  BY DEF IInv, TypeOK, PurgingInv, TimerDelete, Go, CollectorsTyped
<1>7. AgedInv'
  BY DEF IInv, AgedInv, TimerDelete
<1>8. DoomedInv'
  BY DEF IInv, DoomedInv, TimerDelete, Go, Kept, IsFileUsing, Doomed
<1>9. QED BY <1>1, <1>2, <1>3, <1>4, <1>5, <1>6, <1>7, <1>8 DEF IInv

\* The timer goes on to dfs_file_delete.
LEMMA TimerTrashEmptyStep == ASSUME IInv, TimerTrashEmpty PROVE IInv'
<1> USE DEF File, Entry, Adder, Collector
<1>1. TypeOK'
  <2>1. StoredTyped'
    BY DEF IInv, TypeOK, StoredTyped, TimerTrashEmpty
  <2>2. TablesTyped'
    BY DEF IInv, TypeOK, TablesTyped, TimerTrashEmpty, tables
  <2>3. AddersTyped'
    BY DEF IInv, TypeOK, AddersTyped, TimerTrashEmpty, adders
  <2>4. CollectorsTyped'
    BY DEF IInv, TypeOK, CollectorsTyped, TimerTrashEmpty, Go
  <2>5. QED BY <2>1, <2>2, <2>3, <2>4 DEF TypeOK
<1>2. MadeInv'
  BY DEF IInv, MadeInv, TimerTrashEmpty, tables, adders
<1>3. SavingInv'
  BY DEF IInv, SavingInv, TimerTrashEmpty, tables, adders
<1>4. SafeInv'
  BY DEF IInv, SafeInv, TimerTrashEmpty, Go, tables, adders, Kept, InFlight, IsFileUsing
<1>5. SoundInv'
  BY DEF IInv, SoundInv, TimerTrashEmpty, tables
<1>6. PurgingInv'
  BY DEF PurgingInv, TimerTrashEmpty, Go
<1>7. AgedInv'
  BY DEF IInv, AgedInv, TimerTrashEmpty, tables
<1>8. DoomedInv'
  BY DEF IInv, DoomedInv, TimerTrashEmpty, Go, tables, Kept, IsFileUsing, Doomed
<1>9. QED BY <1>1, <1>2, <1>3, <1>4, <1>5, <1>6, <1>7, <1>8 DEF IInv

\* What has timed out is not young, so the timer looks at no young file.
LEMMA RecycleDeletedFileStep == ASSUME IInv, RecycleDeletedFile PROVE IInv'
<1> USE DEF File, Entry, Adder, Collector
<1>1. TypeOK'
  <2>1. StoredTyped'
    BY BoundAssumption DEF IInv, TypeOK, StoredTyped, RecycleDeletedFile, Busy
  <2>2. TablesTyped'
    BY DEF IInv, TypeOK, TablesTyped, RecycleDeletedFile, TimedOut
  <2>3. AddersTyped'
    BY DEF IInv, TypeOK, AddersTyped, RecycleDeletedFile, adders
  <2>4. CollectorsTyped'
    <3>1. {of[e] : e \in TimedOut} \in SUBSET File
      BY DEF IInv, MadeInv, TimedOut
    <3>2. QED BY <3>1 DEF IInv, TypeOK, CollectorsTyped, RecycleDeletedFile, Look, Go
  <2>5. QED BY <2>1, <2>2, <2>3, <2>4 DEF TypeOK
<1>2. MadeInv'
  BY DEF IInv, TypeOK, MadeInv, RecycleDeletedFile, TimedOut, Look, adders, TablesTyped
<1>3. SavingInv'
  BY DEF IInv, TypeOK, SavingInv, RecycleDeletedFile, TimedOut, Look, adders, TablesTyped
<1>4. SafeInv'
  BY DEF IInv, SafeInv, RecycleDeletedFile, Look, Go, adders, Kept, InFlight, IsFileUsing
<1>5. SoundInv'
  BY DEF IInv, SoundInv, RecycleDeletedFile
<1>6. PurgingInv'
  BY DEF PurgingInv, RecycleDeletedFile, Look, Go
<1>7. AgedInv'
  BY DEF IInv, AgedInv, RecycleDeletedFile, TimedOut, Look
<1>8. DoomedInv'
  BY DEF IInv, DoomedInv, RecycleDeletedFile, Look, Go, Kept, IsFileUsing, Doomed
<1>9. QED BY <1>1, <1>2, <1>3, <1>4, <1>5, <1>6, <1>7, <1>8 DEF IInv

\* The deadline: the timer looks at no young file.
LEMMA RecycleNotUseStorageStep == ASSUME IInv, RecycleNotUseStorage PROVE IInv'
<1> USE DEF File, Entry, Adder, Collector
<1>1. TypeOK'
  <2>1. StoredTyped'
    BY DEF IInv, TypeOK, StoredTyped, RecycleNotUseStorage
  <2>2. TablesTyped'
    BY DEF IInv, TypeOK, TablesTyped, RecycleNotUseStorage, tables
  <2>3. AddersTyped'
    BY DEF IInv, TypeOK, AddersTyped, RecycleNotUseStorage, adders
  <2>4. CollectorsTyped'
    BY DEF IInv, TypeOK, CollectorsTyped, StoredTyped, RecycleNotUseStorage, Look, Go
  <2>5. QED BY <2>1, <2>2, <2>3, <2>4 DEF TypeOK
<1>2. MadeInv'
  BY DEF IInv, MadeInv, RecycleNotUseStorage, Look, tables, adders
<1>3. SavingInv'
  BY DEF IInv, SavingInv, RecycleNotUseStorage, Look, tables, adders
<1>4. SafeInv'
  BY DEF IInv, SafeInv, RecycleNotUseStorage, Look, Go, tables, adders, Kept, InFlight,
     IsFileUsing
<1>5. SoundInv'
  BY DEF IInv, SoundInv, RecycleNotUseStorage, tables
<1>6. PurgingInv'
  BY DEF PurgingInv, RecycleNotUseStorage, Look, Go
<1>7. AgedInv'
  BY DEF IInv, AgedInv, RecycleNotUseStorage, Look, tables
<1>8. DoomedInv'
  BY DEF IInv, DoomedInv, RecycleNotUseStorage, Look, Go, tables, Kept, IsFileUsing, Doomed
<1>9. QED BY <1>1, <1>2, <1>3, <1>4, <1>5, <1>6, <1>7, <1>8 DEF IInv

\* RecycleNow takes good faith away from whoever relied on youth.
LEMMA RecycleNowStep == ASSUME IInv, NEW k \in Manual, RecycleNow(k) PROVE IInv'
<1> USE DEF File, Entry, Adder, Collector
<1>1. TypeOK'
  <2>1. StoredTyped'
    BY DEF IInv, TypeOK, StoredTyped, RecycleNow
  <2>2. TablesTyped'
    BY DEF IInv, TypeOK, TablesTyped, RecycleNow, tables
  <2>3. AddersTyped'
    BY DEF IInv, TypeOK, AddersTyped, RecycleNow
  <2>4. CollectorsTyped'
    <3>1. NotUsed \in SUBSET File
      BY DEF IInv, TypeOK, StoredTyped, NotUsed
    <3>2. QED BY <3>1 DEF IInv, TypeOK, CollectorsTyped, RecycleNow, Look, Go
  <2>5. QED BY <2>1, <2>2, <2>3, <2>4 DEF TypeOK
<1>2. MadeInv'
  BY DEF IInv, MadeInv, RecycleNow, NotUsed, Look, tables
<1>3. SavingInv'
  BY DEF IInv, SavingInv, RecycleNow, NotUsed, Look, tables
<1>4. SafeInv'
  BY DEF IInv, SafeInv, RecycleNow, tables, Kept, IsFileUsing
<1>5. SoundInv'
  BY DEF IInv, SoundInv, RecycleNow, tables
<1>6. PurgingInv'
  BY DEF IInv, PurgingInv, RecycleNow, Look, Go, tables
<1>7. AgedInv'
  BY ActorAssumption DEF IInv, AgedInv, RecycleNow, Look, tables
<1>8. DoomedInv'
  BY DEF IInv, DoomedInv, RecycleNow, Look, Go, tables, Kept, IsFileUsing, Doomed
<1>9. QED BY <1>1, <1>2, <1>3, <1>4, <1>5, <1>6, <1>7, <1>8 DEF IInv

\* What passes the first check is referred to by dfs_file_delete at most.
LEMMA CheckEntryStep == ASSUME IInv, NEW k \in Collector, CheckEntry(k) PROVE IInv'
<1> USE DEF File, Entry, Adder, Collector
<1>1. TypeOK'
  <2>1. StoredTyped'
    BY DEF IInv, TypeOK, StoredTyped, CheckEntry
  <2>2. TablesTyped'
    BY DEF IInv, TypeOK, TablesTyped, CheckEntry, tables
  <2>3. AddersTyped'
    BY DEF IInv, TypeOK, AddersTyped, CheckEntry, adders
  <2>4. CollectorsTyped'
    BY DEF IInv, TypeOK, CollectorsTyped, CheckEntry, Go
  <2>5. QED BY <2>1, <2>2, <2>3, <2>4 DEF TypeOK
<1>2. MadeInv'
  BY DEF IInv, TypeOK, MadeInv, CheckEntry, tables, adders, CollectorsTyped
<1>3. SavingInv'
  BY DEF IInv, TypeOK, SavingInv, CheckEntry, tables, adders, CollectorsTyped
<1>4. SafeInv'
  BY SMTT(20) DEF IInv, TypeOK, SafeInv, CheckEntry, Go, tables, adders, Kept, InFlight,
     CollectorsTyped, IsFileUsing
<1>5. SoundInv'
  BY DEF IInv, SoundInv, CheckEntry, tables
<1>6. PurgingInv'
  BY DEF IInv, TypeOK, PurgingInv, CheckEntry, Go, tables, CollectorsTyped
<1>7. AgedInv'
  BY DEF IInv, TypeOK, AgedInv, CheckEntry, tables, CollectorsTyped
<1>8. DoomedInv'
  <2> SUFFICES ASSUME NEW j \in Collector PROVE Doomed(j)'
    BY DEF DoomedInv
  <2>1. CASE j = k
    BY <2>1 DEF IInv, TypeOK, CollectorsTyped, Doomed, IsFileUsing, CheckEntry, Go, tables
  <2>2. CASE j # k
    BY <2>2 DEF IInv, TypeOK, CollectorsTyped, DoomedInv, Doomed, Kept, IsFileUsing,
       CheckEntry, Go, tables
  <2>3. QED BY <2>1, <2>2
<1>9. QED BY <1>1, <1>2, <1>3, <1>4, <1>5, <1>6, <1>7, <1>8 DEF IInv

\* What passes the second check is not kept by anything.
LEMMA CheckBinStep == ASSUME IInv, NEW k \in Collector, CheckBin(k) PROVE IInv'
<1> USE DEF File, Entry, Adder, Collector
<1>1. TypeOK'
  <2>1. StoredTyped'
    BY DEF IInv, TypeOK, StoredTyped, CheckBin
  <2>2. TablesTyped'
    BY DEF IInv, TypeOK, TablesTyped, CheckBin, tables
  <2>3. AddersTyped'
    BY DEF IInv, TypeOK, AddersTyped, CheckBin, adders
  <2>4. CollectorsTyped'
    BY BoundAssumption DEF IInv, TypeOK, CollectorsTyped, CheckBin, Done, Go
  <2>5. QED BY <2>1, <2>2, <2>3, <2>4 DEF TypeOK
<1>2. MadeInv'
  <2>1. disk' \subseteq disk /\ UNCHANGED <<row, young, fresh, tables, sound>>
    BY DEF CheckBin
  <2>2. \A b \in Adder : /\ hold'[b] = hold[b] \/ hold'[b] = 0
                         /\ pc'[b] = "found" => pc[b] = "found" /\ hold'[b] = hold[b]
    BY DEF CheckBin, adders
  <2>3. \A j \in Collector : todo'[j] \subseteq todo[j] /\ at'[j] \in {at[j], 0}
    BY DEF IInv, TypeOK, CollectorsTyped, CheckBin, Done
  <2>4. 0 < fresh.file
    BY DEF IInv, TypeOK, StoredTyped
  <2>5. \A f \in disk' \cup row' \cup young' : f < fresh'.file
    BY <2>1 DEF IInv, MadeInv
  <2>6. \A b \in Adder : hold'[b] < fresh'.file /\ (pc'[b] = "found" => hold'[b] \in File)
    <3> SUFFICES ASSUME NEW b \in Adder
                 PROVE  hold'[b] < fresh'.file /\ (pc'[b] = "found" => hold'[b] \in File)
      OBVIOUS
    <3>1. hold[b] < fresh.file /\ (pc[b] = "found" => hold[b] \in File)
      BY DEF IInv, MadeInv
    <3>2. hold'[b] = hold[b] \/ hold'[b] = 0
      BY <2>2
    <3>3. fresh' = fresh
      BY <2>1
    <3>4. QED BY <2>2, <2>4, <3>1, <3>2, <3>3
  <2>7. \A j \in Collector : at'[j] < fresh'.file /\ \A f \in todo'[j] : f < fresh'.file
    BY <2>1, <2>3, <2>4 DEF IInv, MadeInv
  <2>8. /\ \A e \in Entry : of'[e] < fresh'.file
        /\ \A e \in entry' \cup bin' \cup sound' : e < fresh'.entry
        /\ \A e \in entry' \cup bin' : of'[e] \in File
    BY <2>1 DEF IInv, MadeInv, tables
  <2>9. QED BY <2>5, <2>6, <2>7, <2>8 DEF MadeInv
<1>3. SavingInv'
  BY DEF IInv, TypeOK, SavingInv, CheckBin, Done, tables, adders, StoredTyped, CollectorsTyped
<1>4. SafeInv'
  BY DEF IInv, TypeOK, SafeInv, CheckBin, Done, Go, tables, adders, Kept, InFlight,
     CollectorsTyped, IsFileUsing
<1>5. SoundInv'
  BY DEF IInv, SoundInv, CheckBin, tables
<1>6. PurgingInv'
  BY DEF IInv, TypeOK, PurgingInv, CheckBin, Done, Go, tables, CollectorsTyped
<1>7. AgedInv'
  BY DEF IInv, TypeOK, AgedInv, CheckBin, Done, tables, StoredTyped, CollectorsTyped
<1>8. DoomedInv'
  <2> SUFFICES ASSUME NEW j \in Collector PROVE Doomed(j)'
    BY DEF DoomedInv
  <2>1. CASE j = k
    BY <2>1 DEF IInv, TypeOK, CollectorsTyped, TablesTyped, DoomedInv, Doomed, Kept,
       IsFileUsing, CheckBin, Done, Go, tables
  <2>2. CASE j # k
    BY <2>2 DEF IInv, TypeOK, CollectorsTyped, DoomedInv, Doomed, Kept, IsFileUsing, CheckBin,
       Done, Go, tables
  <2>3. QED BY <2>1, <2>2
<1>9. QED BY <1>1, <1>2, <1>3, <1>4, <1>5, <1>6, <1>7, <1>8 DEF IInv

\* os.Stat changes nothing that is stored.
LEMMA StatStep == ASSUME IInv, NEW k \in Collector, Stat(k) PROVE IInv'
<1> USE DEF File, Entry, Adder, Collector
<1>1. TypeOK'
  <2>1. StoredTyped'
    BY DEF IInv, TypeOK, StoredTyped, Stat
  <2>2. TablesTyped'
    BY DEF IInv, TypeOK, TablesTyped, Stat, tables
  <2>3. AddersTyped'
    BY DEF IInv, TypeOK, AddersTyped, Stat, adders
  <2>4. CollectorsTyped'
    BY BoundAssumption DEF IInv, TypeOK, CollectorsTyped, Stat, Done, Go
  <2>5. QED BY <2>1, <2>2, <2>3, <2>4 DEF TypeOK
<1>2. MadeInv'
  <2>1. disk' \subseteq disk /\ UNCHANGED <<row, young, fresh, tables, sound>>
    BY DEF Stat
  <2>2. \A b \in Adder : /\ hold'[b] = hold[b] \/ hold'[b] = 0
                         /\ pc'[b] = "found" => pc[b] = "found" /\ hold'[b] = hold[b]
    BY DEF Stat, adders
  <2>3. \A j \in Collector : todo'[j] \subseteq todo[j] /\ at'[j] \in {at[j], 0}
    BY DEF IInv, TypeOK, CollectorsTyped, Stat, Done
  <2>4. 0 < fresh.file
    BY DEF IInv, TypeOK, StoredTyped
  <2>5. \A f \in disk' \cup row' \cup young' : f < fresh'.file
    BY <2>1 DEF IInv, MadeInv
  <2>6. \A b \in Adder : hold'[b] < fresh'.file /\ (pc'[b] = "found" => hold'[b] \in File)
    <3> SUFFICES ASSUME NEW b \in Adder
                 PROVE  hold'[b] < fresh'.file /\ (pc'[b] = "found" => hold'[b] \in File)
      OBVIOUS
    <3>1. hold[b] < fresh.file /\ (pc[b] = "found" => hold[b] \in File)
      BY DEF IInv, MadeInv
    <3>2. hold'[b] = hold[b] \/ hold'[b] = 0
      BY <2>2
    <3>3. fresh' = fresh
      BY <2>1
    <3>4. QED BY <2>2, <2>4, <3>1, <3>2, <3>3
  <2>7. \A j \in Collector : at'[j] < fresh'.file /\ \A f \in todo'[j] : f < fresh'.file
    BY <2>1, <2>3, <2>4 DEF IInv, MadeInv
  <2>8. /\ \A e \in Entry : of'[e] < fresh'.file
        /\ \A e \in entry' \cup bin' \cup sound' : e < fresh'.entry
        /\ \A e \in entry' \cup bin' : of'[e] \in File
    BY <2>1 DEF IInv, MadeInv, tables
  <2>9. QED BY <2>5, <2>6, <2>7, <2>8 DEF MadeInv
<1>3. SavingInv'
  BY DEF IInv, TypeOK, SavingInv, Stat, Done, tables, adders, StoredTyped, CollectorsTyped
<1>4. SafeInv'
  BY DEF IInv, TypeOK, SafeInv, Stat, Done, Go, tables, adders, Kept, InFlight,
     CollectorsTyped, IsFileUsing
<1>5. SoundInv'
  BY DEF IInv, SoundInv, Stat, tables
<1>6. PurgingInv'
  BY DEF IInv, TypeOK, PurgingInv, Stat, Done, Go, tables, CollectorsTyped
<1>7. AgedInv'
  BY DEF IInv, TypeOK, AgedInv, Stat, Done, tables, StoredTyped, CollectorsTyped
<1>8. DoomedInv'
  <2> SUFFICES ASSUME NEW j \in Collector PROVE Doomed(j)'
    BY DEF DoomedInv
  <2>1. CASE j = k
    BY <2>1 DEF IInv, TypeOK, CollectorsTyped, DoomedInv, Doomed, Kept, IsFileUsing, Stat,
       Done, Go, tables
  <2>2. CASE j # k
    BY <2>2 DEF IInv, TypeOK, CollectorsTyped, DoomedInv, Doomed, Kept, IsFileUsing, Stat,
       Done, Go, tables
  <2>3. QED BY <2>1, <2>2
<1>9. QED BY <1>1, <1>2, <1>3, <1>4, <1>5, <1>6, <1>7, <1>8 DEF IInv

\* What is removed was not kept by anything.
LEMMA RemoveStep == ASSUME IInv, NEW k \in Collector, Remove(k) PROVE IInv'
<1> USE DEF File, Entry, Adder, Collector
<1>1. TypeOK'
  <2>1. StoredTyped'
    <3>1. disk' \subseteq disk /\ UNCHANGED <<row, young, fresh, faults>>
      BY DEF Remove
    <3>2. QED BY <3>1 DEF IInv, TypeOK, StoredTyped
  <2>2. TablesTyped'
    BY DEF IInv, TypeOK, TablesTyped, Remove, tables
  <2>3. AddersTyped'
    BY BoundAssumption DEF IInv, TypeOK, AddersTyped, Remove, Restart, adders
  <2>4. CollectorsTyped'
    BY BoundAssumption DEF IInv, TypeOK, CollectorsTyped, Remove, Go, EndRun, Restart
  <2>5. QED BY <2>1, <2>2, <2>3, <2>4 DEF TypeOK
<1>2. MadeInv'
  <2>1. disk' \subseteq disk /\ UNCHANGED <<row, young, fresh, tables, sound>>
    BY DEF Remove
  <2>2. \A b \in Adder : /\ hold'[b] = hold[b] \/ hold'[b] = 0
                         /\ pc'[b] = "found" => pc[b] = "found" /\ hold'[b] = hold[b]
    BY DEF Remove, adders, Restart
  <2>3. \A j \in Collector : todo'[j] \subseteq todo[j] /\ at'[j] \in {at[j], 0}
    BY DEF IInv, TypeOK, CollectorsTyped, Remove, EndRun, Restart
  <2>4. 0 < fresh.file
    BY DEF IInv, TypeOK, StoredTyped
  <2>5. \A f \in disk' \cup row' \cup young' : f < fresh'.file
    BY <2>1 DEF IInv, MadeInv
  <2>6. \A b \in Adder : hold'[b] < fresh'.file /\ (pc'[b] = "found" => hold'[b] \in File)
    <3> SUFFICES ASSUME NEW b \in Adder
                 PROVE  hold'[b] < fresh'.file /\ (pc'[b] = "found" => hold'[b] \in File)
      OBVIOUS
    <3>1. hold[b] < fresh.file /\ (pc[b] = "found" => hold[b] \in File)
      BY DEF IInv, MadeInv
    <3>2. hold'[b] = hold[b] \/ hold'[b] = 0
      BY <2>2
    <3>3. fresh' = fresh
      BY <2>1
    <3>4. QED BY <2>2, <2>4, <3>1, <3>2, <3>3
  <2>7. \A j \in Collector : at'[j] < fresh'.file /\ \A f \in todo'[j] : f < fresh'.file
    BY <2>1, <2>3, <2>4 DEF IInv, MadeInv
  <2>8. /\ \A e \in Entry : of'[e] < fresh'.file
        /\ \A e \in entry' \cup bin' \cup sound' : e < fresh'.entry
        /\ \A e \in entry' \cup bin' : of'[e] \in File
    BY <2>1 DEF IInv, MadeInv, tables
  <2>9. QED BY <2>5, <2>6, <2>7, <2>8 DEF MadeInv
<1>3. SavingInv'
  <2>1. CASE at[k] \in disk
    BY <2>1 DEF IInv, SavingInv, Remove, adders, tables
  <2>2. CASE at[k] \notin disk /\ k = Timer
    BY <2>2 DEF IInv, TypeOK, StoredTyped, CollectorsTyped, SavingInv, Remove, EndRun, adders,
       tables
  <2>3. CASE at[k] \notin disk /\ k # Timer
    BY <2>3 DEF SavingInv, Remove, Restart
  <2>4. QED BY <2>1, <2>2, <2>3
<1>4. SafeInv'
  BY DEF IInv, TypeOK, SafeInv, DoomedInv, AgedInv, Remove, Go, EndRun, Restart, tables,
     adders, Kept, InFlight, CollectorsTyped, IsFileUsing, Doomed
<1>5. SoundInv'
  BY DEF IInv, SoundInv, DoomedInv, Remove, tables, Kept, IsFileUsing, Doomed
<1>6. PurgingInv'
  BY DEF IInv, TypeOK, PurgingInv, Remove, Go, EndRun, Restart, tables, CollectorsTyped
<1>7. AgedInv'
  BY DEF IInv, TypeOK, AgedInv, Remove, EndRun, Restart, tables, StoredTyped, CollectorsTyped
<1>8. DoomedInv'
  <2> SUFFICES ASSUME NEW j \in Collector PROVE Doomed(j)'
    BY DEF DoomedInv
  <2>1. CASE j = k
    BY SMTT(20), <2>1 DEF IInv, TypeOK, CollectorsTyped, DoomedInv, Doomed, Kept, IsFileUsing,
       Remove, Go, EndRun, Restart, tables
  <2>2. CASE j # k
    BY SMTT(20), <2>2 DEF IInv, TypeOK, CollectorsTyped, DoomedInv, Doomed, Kept, IsFileUsing,
       Remove, Go, EndRun, Restart, tables
  <2>3. QED BY <2>1, <2>2
<1>9. QED BY <1>1, <1>2, <1>3, <1>4, <1>5, <1>6, <1>7, <1>8 DEF IInv

\* The row goes after the file; nothing sound referred to either.
LEMMA DeleteRowStep == ASSUME IInv, NEW k \in Collector, DeleteRow(k) PROVE IInv'
<1> USE DEF File, Entry, Adder, Collector
<1>1. TypeOK'
  <2>1. StoredTyped'
    BY BoundAssumption DEF IInv, TypeOK, StoredTyped, DeleteRow, Busy
  <2>2. TablesTyped'
    BY DEF IInv, TypeOK, TablesTyped, DeleteRow, tables
  <2>3. AddersTyped'
    BY DEF IInv, TypeOK, AddersTyped, DeleteRow, adders
  <2>4. CollectorsTyped'
    BY BoundAssumption DEF IInv, TypeOK, CollectorsTyped, DeleteRow, Done, Go
  <2>5. QED BY <2>1, <2>2, <2>3, <2>4 DEF TypeOK
<1>2. MadeInv'
  BY DEF IInv, TypeOK, MadeInv, DeleteRow, Done, tables, adders, StoredTyped
<1>3. SavingInv'
  BY DEF IInv, TypeOK, SavingInv, DeleteRow, Done, tables, adders, StoredTyped
<1>4. SafeInv'
  BY DEF IInv, SafeInv, DoomedInv, AgedInv, DeleteRow, Done, Go, tables, adders, Kept,
     InFlight, IsFileUsing, Doomed
<1>5. SoundInv'
  BY DEF IInv, SoundInv, DoomedInv, DeleteRow, tables, Kept, IsFileUsing, Doomed
<1>6. PurgingInv'
  BY DEF IInv, PurgingInv, DeleteRow, Done, Go, tables
<1>7. AgedInv'
  BY DEF IInv, TypeOK, AgedInv, DeleteRow, Done, tables, StoredTyped
<1>8. DoomedInv'
  BY DEF IInv, TypeOK, DoomedInv, DeleteRow, Done, Go, tables, Kept, CollectorsTyped,
     IsFileUsing, Doomed
<1>9. QED BY <1>1, <1>2, <1>3, <1>4, <1>5, <1>6, <1>7, <1>8 DEF IInv

\* The list is empty.
LEMMA EndOfListStep == ASSUME IInv, NEW k \in Collector, EndOfList(k) PROVE IInv'
<1> USE DEF File, Entry, Adder, Collector
<1>1. TypeOK'
  <2>1. StoredTyped'
    BY DEF IInv, TypeOK, StoredTyped, EndOfList
  <2>2. TablesTyped'
    BY DEF IInv, TypeOK, TablesTyped, EndOfList, tables
  <2>3. AddersTyped'
    BY DEF IInv, TypeOK, AddersTyped, EndOfList, adders
  <2>4. CollectorsTyped'
    BY DEF IInv, TypeOK, CollectorsTyped, EndOfList, Go
  <2>5. QED BY <2>1, <2>2, <2>3, <2>4 DEF TypeOK
<1>2. MadeInv'
  BY DEF IInv, MadeInv, EndOfList, tables, adders
<1>3. SavingInv'
  BY DEF IInv, SavingInv, EndOfList, tables, adders
<1>4. SafeInv'
  BY DEF IInv, SafeInv, EndOfList, Go, tables, adders, Kept, InFlight, IsFileUsing
<1>5. SoundInv'
  BY DEF IInv, SoundInv, EndOfList, tables
<1>6. PurgingInv'
  BY DEF IInv, TypeOK, PurgingInv, EndOfList, Go, tables, CollectorsTyped
<1>7. AgedInv'
  BY DEF IInv, AgedInv, EndOfList, tables
<1>8. DoomedInv'
  <2> SUFFICES ASSUME NEW j \in Collector PROVE Doomed(j)'
    BY DEF DoomedInv
  <2>1. CASE j = k
    BY <2>1 DEF IInv, TypeOK, CollectorsTyped, Doomed, EndOfList, Go
  <2>2. CASE j # k
    BY <2>2 DEF IInv, DoomedInv, Doomed, Kept, IsFileUsing, EndOfList, Go, tables
  <2>3. QED BY <2>1, <2>2
<1>9. QED BY <1>1, <1>2, <1>3, <1>4, <1>5, <1>6, <1>7, <1>8 DEF IInv

\* A crash forgets who was at work, and nothing else.
LEMMA CrashStep == ASSUME IInv, Crash PROVE IInv'
<1> USE DEF File, Entry, Adder, Collector
<1>1. TypeOK'
  <2>1. StoredTyped'
    BY BoundAssumption DEF IInv, TypeOK, StoredTyped, Crash
  <2>2. TablesTyped'
    BY DEF IInv, TypeOK, TablesTyped, Crash, tables
  <2>3. AddersTyped'
    BY BoundAssumption DEF AddersTyped, Crash, Restart
  <2>4. CollectorsTyped'
    BY BoundAssumption DEF CollectorsTyped, Crash, Restart
  <2>5. QED BY <2>1, <2>2, <2>3, <2>4 DEF TypeOK
<1>2. MadeInv'
  BY DEF IInv, TypeOK, MadeInv, Crash, Restart, tables, StoredTyped
<1>3. SavingInv'
  BY DEF SavingInv, Crash, Restart
<1>4. SafeInv'
  BY DEF SafeInv, Crash, Restart
<1>5. SoundInv'
  BY DEF IInv, SoundInv, Crash, tables
<1>6. PurgingInv'
  BY DEF PurgingInv, Crash, Restart
<1>7. AgedInv'
  BY DEF IInv, TypeOK, AgedInv, Crash, Restart, tables, StoredTyped
<1>8. DoomedInv'
  BY DEF DoomedInv, Crash, Restart, Doomed
<1>9. QED BY <1>1, <1>2, <1>3, <1>4, <1>5, <1>6, <1>7, <1>8 DEF IInv

\* When nobody is at work nobody relies on youth.
LEMMA DaysPassStep == ASSUME IInv, DaysPass PROVE IInv'
<1> USE DEF File, Entry, Adder, Collector
<1>1. TypeOK'
  <2>1. StoredTyped'
    BY DEF IInv, TypeOK, StoredTyped, DaysPass
  <2>2. TablesTyped'
    BY DEF IInv, TypeOK, TablesTyped, DaysPass
  <2>3. AddersTyped'
    BY DEF IInv, TypeOK, AddersTyped, DaysPass, adders
  <2>4. CollectorsTyped'
    BY DEF IInv, TypeOK, CollectorsTyped, DaysPass, collectors
  <2>5. QED BY <2>1, <2>2, <2>3, <2>4 DEF TypeOK
<1>2. MadeInv'
  BY DEF IInv, MadeInv, DaysPass, adders, collectors
<1>3. SavingInv'
  BY DEF SavingInv, DaysPass, adders
<1>4. SafeInv'
  BY DEF IInv, TypeOK, SafeInv, DaysPass, adders, AddersTyped
<1>5. SoundInv'
  BY DEF IInv, SoundInv, DaysPass
<1>6. PurgingInv'
  BY DEF PurgingInv, DaysPass, collectors
<1>7. AgedInv'
  BY DEF AgedInv, DaysPass
<1>8. DoomedInv'
  BY DEF DoomedInv, DaysPass, collectors, Doomed
<1>9. QED BY <1>1, <1>2, <1>3, <1>4, <1>5, <1>6, <1>7, <1>8 DEF IInv

-----------------------------------------------------------------------------
(* The theorems.                                                           *)

\* The empty server: no file, no entry, nobody at work.
LEMMA InitIInv == Init => IInv
<1> SUFFICES ASSUME Init PROVE IInv
  OBVIOUS
<1> USE DEF Init, File, Entry
<1>1. TypeOK
  BY BoundAssumption DEF TypeOK, StoredTyped, TablesTyped, AddersTyped, CollectorsTyped
<1>2. MadeInv /\ SavingInv /\ SafeInv /\ SoundInv
  BY DEF MadeInv, SavingInv, SafeInv, SoundInv
<1>3. PurgingInv /\ AgedInv /\ DoomedInv
  BY DEF PurgingInv, AgedInv, DoomedInv, Doomed, Collector
<1>4. QED BY <1>1, <1>2, <1>3 DEF IInv

\* DeleteNotUseStorage, by whichever collector.
LEMMA DeleteNotUseStorageStep ==
    ASSUME IInv, NEW k \in Collector, DeleteNotUseStorage(k) PROVE IInv'
BY CheckEntryStep, CheckBinStep, StatStep, RemoveStep, DeleteRowStep, EndOfListStep
   DEF DeleteNotUseStorage

\* Whatever happens next, the invariant is kept.
LEMMA NextStep == ASSUME IInv, Next PROVE IInv'
<1>1. CASE \E a \in Adder : Begin(a) \/ Finish(a)
  <2> PICK a \in Adder : Begin(a) \/ Finish(a)
    BY <1>1
  <2>1. CASE Begin(a)
    BY <2>1, FindStep, FindUnseenStep, ReadEntryStep, CreateFileStep DEF Begin
  <2>2. CASE Finish(a)
    BY <2>2, CommitEntryStep, FailStep, CommitStreamStep, CommitUploadStep, InsertStorageStep
       DEF Finish
  <2>3. QED BY <2>1, <2>2
<1>2. CASE \E e \in Entry : Trash(e) \/ Recover(e) \/ LogicDelete(e)
  BY <1>2, TrashStep, RecoverStep, LogicDeleteStep
<1>3. CASE TimerNext
  <2>1. Timer \in Collector
    BY DEF Collector
  <2>2. QED
    BY <1>3, <2>1, StartTimerStep, TimerInsertStep, TimerSetDateStep, TimerDeleteStep,
       TimerTrashEmptyStep, RecycleDeletedFileStep, RecycleNotUseStorageStep,
       DeleteNotUseStorageStep
       DEF TimerNext
<1>4. CASE \E k \in Manual : RecycleNow(k) \/ DeleteNotUseStorage(k)
  BY <1>4, RecycleNowStep, DeleteNotUseStorageStep DEF Collector
<1>5. CASE Crash \/ DaysPass
  BY <1>5, CrashStep, DaysPassStep
<1>6. QED BY <1>1, <1>2, <1>3, <1>4, <1>5 DEF Next

\* Nothing happens, nothing changes.
LEMMA StutterStep == ASSUME IInv, UNCHANGED vars PROVE IInv'
<1> USE DEF vars, tables, adders, collectors
<1>1. TypeOK'
  BY DEF IInv, TypeOK, StoredTyped, TablesTyped, AddersTyped, CollectorsTyped
<1>2. MadeInv' /\ SavingInv'
  BY DEF IInv, MadeInv, SavingInv
<1>3. SafeInv' /\ SoundInv'
  BY DEF IInv, SafeInv, SoundInv, Kept, InFlight, IsFileUsing
<1>4. PurgingInv' /\ AgedInv'
  BY DEF IInv, PurgingInv, AgedInv
<1>5. DoomedInv'
  BY DEF IInv, DoomedInv, Doomed, Kept, IsFileUsing
<1>6. QED BY <1>1, <1>2, <1>3, <1>4, <1>5 DEF IInv

\* The invariant holds in every reachable state.
THEOREM Invariant == Spec => []IInv
<1>1. IInv /\ [Next]_vars => IInv'
  BY NextStep, StutterStep
<1>2. QED BY <1>1, InitIInv, PTL DEF Spec

\* In every reachable state each table refers to files and entries that were
\* made, and the counters are within their bounds.
THEOREM TypeCorrect == Spec => []TypeOK
<1>1. IInv => TypeOK
  BY DEF IInv
<1>2. QED BY <1>1, Invariant, PTL

\* However many requests, collectors and crashes there are: an entry that was
\* added in good faith never loses its file to the timer or to RecycleNow.
THEOREM ReferencedNeverReclaimed == Spec => []ReferencedIsStored
<1>1. IInv => ReferencedIsStored
  BY DEF IInv, SoundInv, ReferencedIsStored
<1>2. QED BY <1>1, Invariant, PTL
-----------------------------------------------------------------------------
(* A night's run.                                                          *)

\* While the timer goes through the old rows, each is used, or still to be
\* looked at, or the one it looks at.
Looking == /\ step[Timer] \in {"next", "bin", "stat", "remove", "row"}
           /\ then[Timer] = "idle"
NightInv ==
    /\ step[Timer] \notin {"bin", "stat", "remove", "row"} => at[Timer] = 0
    /\ Looking /\ faults.busy = 0 =>
          \A f \in row \ young : f \in todo[Timer] \/ f = at[Timer] \/ IsUsed(f)

\* What leaves the timer, the old rows and the uses as they are.
LEMMA NightFrame ==
    ASSUME NightInv, UNCHANGED <<step, todo, at, then>>,
           faults'.busy = 0 => faults.busy = 0, row' \ young' \subseteq row \ young,
           \A f : IsUsed(f) => IsUsed(f)'
    PROVE  NightInv'
BY DEF NightInv, Looking

\* Requests and the worker add uses, or move them to dfs_file_delete.
LEMMA AdderKeepsNight ==
    ASSUME IInv, NightInv, NEW a \in Adder, Begin(a) \/ Finish(a)
    PROVE  NightInv'
<1>1. UNCHANGED <<step, todo, at, then>>
  BY DEF Begin, Finish, Find, FindUnseen, ReadEntry, CreateFile, CommitEntry, Fail,
     CommitStream, CommitUpload, InsertStorage, collectors
<1>2. faults'.busy = 0 => faults.busy = 0
  <2>1. faults' = faults \/ (Fail(a) /\ Busy)
    BY DEF Begin, Finish, Find, FindUnseen, ReadEntry, CreateFile, CommitEntry, Fail,
       CommitStream, CommitUpload, InsertStorage
  <2>2. Busy /\ faults'.busy = 0 => faults.busy = 0
    BY BoundAssumption DEF Busy, IInv, TypeOK, StoredTyped
  <2> QED
    BY <2>1, <2>2
<1>3. row' \ young' \subseteq row \ young
  BY DEF Begin, Finish, Find, FindUnseen, ReadEntry, CreateFile, CommitEntry, Fail,
     CommitStream, CommitUpload, InsertStorage, AddStorage
<1>4. /\ entry \subseteq entry' /\ bin' = bin
      /\ \A e \in entry \cup bin : of'[e] = of[e]
  <2>1. \/ UNCHANGED <<entry, bin, of>>
        \/ bin' = bin /\ \E f, good : AddEntry(f, good)
    BY DEF Begin, Finish, Find, FindUnseen, ReadEntry, CreateFile, CommitEntry, Fail,
       CommitStream, CommitUpload, InsertStorage, tables
  <2>2. ASSUME NEW f, NEW good, AddEntry(f, good)
        PROVE  entry \subseteq entry' /\ \A e \in entry \cup bin : of'[e] = of[e]
    BY <2>2 DEF AddEntry, IInv, TypeOK, StoredTyped, TablesTyped, MadeInv, Entry
  <2> QED
    BY <2>1, <2>2
<1>5. \A f : IsUsed(f) => IsUsed(f)'
  BY <1>4 DEF IsUsed, IsFileUsing
<1> QED
  BY <1>1, <1>2, <1>3, <1>5, NightFrame

LEMMA UserKeepsNight ==
    ASSUME IInv, NightInv, NEW e \in Entry, Trash(e) \/ Recover(e) \/ LogicDelete(e)
    PROVE  NightInv'
<1>1. UNCHANGED <<step, todo, at, then, faults, row, young>>
  BY DEF Trash, Recover, LogicDelete, collectors
<1>2. \A f : IsUsed(f) => IsUsed(f)'
  BY DEF Trash, Recover, LogicDelete, IsUsed, IsFileUsing
<1> QED
  BY <1>1, <1>2, NightFrame

\* What comes before the timer looks at the old rows; then it has them all to
\* look at.
LEMMA BeforeLooking ==
    ASSUME IInv, NightInv,
           \/ StartTimer \/ TimerInsert \/ TimerSetDate \/ TimerDelete \/ TimerTrashEmpty
           \/ RecycleDeletedFile \/ RecycleNotUseStorage
    PROVE  NightInv'
<1> USE DEF Collector
<1>1. CASE StartTimer \/ TimerInsert \/ TimerSetDate \/ TimerDelete \/ TimerTrashEmpty
  <2>1. /\ step'[Timer] \notin {"next", "bin", "stat", "remove", "row"}
        /\ step[Timer] \notin {"next", "bin", "stat", "remove", "row"}
        /\ at'[Timer] = at[Timer] \/ at'[Timer] = 0
    BY <1>1 DEF StartTimer, TimerInsert, TimerSetDate, TimerDelete, TimerTrashEmpty, EndRun,
       Go, IInv, TypeOK, CollectorsTyped
  <2> QED
    BY <2>1 DEF NightInv, Looking
<1>2. CASE RecycleDeletedFile
  <2>1. then'[Timer] = "recycle" /\ at' = at
    BY <1>2 DEF RecycleDeletedFile, Look, IInv, TypeOK, CollectorsTyped
  <2>2. at[Timer] = 0
    BY <1>2 DEF RecycleDeletedFile, NightInv
  <2> QED
    BY <2>1, <2>2 DEF NightInv, Looking
<1>3. CASE RecycleNotUseStorage
  <2>1. todo'[Timer] = row \ young /\ UNCHANGED <<at, row, young>>
    BY <1>3 DEF RecycleNotUseStorage, Look, IInv, TypeOK, CollectorsTyped, tables
  <2>2. at[Timer] = 0
    BY <1>3 DEF RecycleNotUseStorage, NightInv
  <2> QED
    BY <2>1, <2>2 DEF NightInv, Looking
<1> QED
  BY <1>1, <1>2, <1>3

\* The timer looks at one row after the other.
LEMMA TimerLooks ==
    ASSUME IInv, NightInv, DeleteNotUseStorage(Timer)
    PROVE  NightInv'
<1> USE DEF Collector
<1>1. CASE CheckEntry(Timer)
  <2>1. PICK f \in todo[Timer] :
           /\ todo'[Timer] = todo[Timer] \ {f}
           /\ \/ IsFileUsing(entry, f) /\ UNCHANGED <<at, step>>
              \/ at'[Timer] = f /\ step'[Timer] = "bin"
    BY <1>1 DEF CheckEntry, IInv, TypeOK, CollectorsTyped, Go
  <2>2. step[Timer] = "next" /\ UNCHANGED <<entry, bin, of, row, young, then, faults>>
    BY <1>1 DEF CheckEntry, tables
  <2>3. at[Timer] = 0
    BY <2>2 DEF NightInv
  <2>4. \A g \in row \ young : g # 0
    BY DEF IInv, TypeOK, StoredTyped, File
  <2>5. \A g : IsUsed(g)' = IsUsed(g)
    BY <2>2 DEF IsUsed, IsFileUsing
  <2> QED
    BY <2>1, <2>2, <2>3, <2>4, <2>5 DEF NightInv, Looking, IsUsed
<1>2. CASE CheckBin(Timer)
  BY <1>2 DEF CheckBin, Done, NightInv, Looking, IInv, TypeOK, CollectorsTyped, Go, tables,
     IsUsed, IsFileUsing
<1>3. CASE Stat(Timer)
  BY <1>3 DEF Stat, Done, NightInv, Looking, IInv, TypeOK, CollectorsTyped, Go, tables,
     IsUsed, IsFileUsing
<1>4. CASE Remove(Timer)
  BY <1>4 DEF Remove, EndRun, NightInv, Looking, IInv, TypeOK, CollectorsTyped, Go, tables,
     IsUsed, IsFileUsing
<1>5. CASE DeleteRow(Timer)
  <2>1. faults'.busy = 0 => faults.busy = 0 /\ row' = row \ {at[Timer]}
    BY <1>5 DEF DeleteRow, Busy, IInv, TypeOK, StoredTyped
  <2> QED
    BY <1>5, <2>1 DEF DeleteRow, Done, NightInv, Looking, IInv, TypeOK, CollectorsTyped, Go,
       tables, IsUsed, IsFileUsing
<1>6. CASE EndOfList(Timer)
  BY <1>6 DEF EndOfList, NightInv, Looking, IInv, TypeOK, CollectorsTyped, Go
<1> QED
  BY <1>1, <1>2, <1>3, <1>4, <1>5, <1>6 DEF DeleteNotUseStorage

\* RecycleNow takes rows away and adds none; when it panics the timer is gone.
LEMMA ManualKeepsNight ==
    ASSUME IInv, NightInv, NEW k \in Manual, RecycleNow(k) \/ DeleteNotUseStorage(k)
    PROVE  NightInv'
<1> USE DEF Collector
<1>1. k # Timer
  BY ActorAssumption
<1>2. CASE Remove(k) /\ Restart
  BY <1>2 DEF Restart, NightInv, Looking
<1>3. CASE ~(Remove(k) /\ Restart)
  <2>1. /\ step'[Timer] = step[Timer] /\ todo'[Timer] = todo[Timer]
        /\ at'[Timer] = at[Timer] /\ then'[Timer] = then[Timer]
    BY <1>1, <1>3 DEF RecycleNow, Look, Go, Done, DeleteNotUseStorage, CheckEntry, CheckBin,
       Stat, Remove, DeleteRow, EndOfList, IInv, TypeOK, CollectorsTyped
  <2>2. row' \subseteq row /\ UNCHANGED <<young, tables>>
    BY DEF RecycleNow, DeleteNotUseStorage, CheckEntry, CheckBin, Stat, Remove, DeleteRow,
       EndOfList
  <2>3. faults'.busy = 0 => faults.busy = 0
    BY DEF RecycleNow, DeleteNotUseStorage, CheckEntry, CheckBin, Stat, Remove, DeleteRow,
       EndOfList, Busy, IInv, TypeOK, StoredTyped
  <2> QED
    BY <2>1, <2>2, <2>3 DEF NightInv, Looking, IsUsed, IsFileUsing, tables
<1> QED
  BY <1>2, <1>3

LEMMA CrashOrDaysKeepNight ==
    ASSUME IInv, NightInv, Crash \/ DaysPass
    PROVE  NightInv'
<1> USE DEF Collector
<1>1. CASE Crash
  BY <1>1 DEF Crash, Restart, NightInv, Looking
<1>2. CASE DaysPass
  BY <1>2 DEF DaysPass, collectors, NightInv, Looking
<1> QED
  BY <1>1, <1>2

LEMMA NightStep == ASSUME IInv, NightInv, [Next]_vars PROVE NightInv'
<1>1. CASE UNCHANGED vars
  BY <1>1 DEF NightInv, Looking, IsUsed, IsFileUsing, vars, tables, collectors
<1>2. CASE TimerNext
  BY <1>2, BeforeLooking, TimerLooks DEF TimerNext
<1> QED
  BY <1>1, <1>2, AdderKeepsNight, UserKeepsNight, ManualKeepsNight, CrashOrDaysKeepNight
     DEF Next

\* A night's run that gets to its end leaves no old file without a use, with
\* any number of requests and of RecycleNow, and after any crashes.
THEOREM NightReclaimsHolds == Spec => []NightReclaims
<1>1. Init => NightInv
  BY DEF Init, NightInv, Looking, Collector
<1>2. IInv /\ NightInv /\ [Next]_vars => NightInv'
  BY NightStep
<1>3. IInv /\ NightInv => NightReclaims
  <2> SUFFICES ASSUME IInv, NightInv, NightDone, faults.busy = 0, NEW f \in row \ young
               PROVE  IsUsed(f)
    BY DEF NightReclaims
  <2>1. at[Timer] = 0 /\ f # 0
    BY DEF NightInv, NightDone, IInv, TypeOK, StoredTyped, File
  <2> QED
    BY <2>1 DEF NightInv, NightDone, Looking
<1> QED
  BY <1>1, <1>2, <1>3, Invariant, PTL DEF Spec
=============================================================================

--------------------------- MODULE LogSyncProofs ---------------------------
(***************************************************************************)
(* What LogSync guarantees for any number of servers, requests and rows,   *)
(* any topology, any crashes and faults.                                   *)
(***************************************************************************)
EXTENDS LogSync, TLAPS, WellFoundedInduction, FiniteSetTheorems,
        SequenceTheorems

-----------------------------------------------------------------------------
(* The order of ids.                                                       *)

LEMMA NatHasLeast == ASSUME NEW S \in SUBSET Nat, S # {}
  PROVE \E i \in S : \A j \in S : i <= j
<1> DEFINE Below == {1..i : i \in S}
           R == StrictSubsetOrdering(Nat)
<1>1. Below \subseteq FiniteSubsetsOf(Nat)
  BY FS_Interval DEF FiniteSubsetsOf
<1>2. PICK T \in Below : \A U \in Below : <<U, T>> \notin R
  <2>1. IsWellFoundedOn(R, FiniteSubsetsOf(Nat))
    BY FS_StrictSubsetOrderingWellFounded
  <2>2. Below # {}
    OBVIOUS
  <2> HIDE DEF Below, R
  <2>3. QED BY <1>1, <2>1, <2>2, WFMin
<1>3. PICK i \in S : T = 1..i
  BY <1>2
<1>4. ASSUME NEW j \in S, j < i PROVE FALSE
  <2>1. /\ 1..j \in SUBSET Nat /\ 1..i \in SUBSET Nat
        /\ 1..j \subseteq 1..i /\ 1..j # 1..i
    <3>1. i \in 1..i /\ i \notin 1..j
      BY <1>4
    <3>2. QED BY <1>4, <3>1
  <2>2. <<1..j, 1..i>> \in R
    BY <2>1 DEF StrictSubsetOrdering
  <2>3. 1..j \in Below
    OBVIOUS
  <2> HIDE DEF Below, R
  <2>4. QED BY <1>2, <1>3, <2>2, <2>3
<1>5. QED BY <1>4

LEMMA LeastIs == ASSUME NEW S \in SUBSET Nat, S # {}
  PROVE Least(S) \in S /\ \A j \in S : Least(S) <= j
  BY NatHasLeast DEF Least

LEMMA GreatestIs == ASSUME NEW n \in Nat, NEW S \in SUBSET (1..n), S # {}
  PROVE Greatest(S) \in S /\ \A j \in S : j <= Greatest(S)
<1> DEFINE Flip == {n - i : i \in S}
<1>1. PICK k \in Flip : \A j \in Flip : k <= j
  <2>1. Flip \in SUBSET Nat
    <3>1. \A i \in S : n - i \in Nat
      OBVIOUS
    <3>2. QED BY <3>1
  <2>2. Flip # {}
    OBVIOUS
  <2> HIDE DEF Flip
  <2>3. QED BY <2>1, <2>2, NatHasLeast
<1>2. PICK i \in S : k = n - i
  OBVIOUS
<1>3. \A j \in S : j <= i
  <2> SUFFICES ASSUME NEW j \in S PROVE j <= i
    OBVIOUS
  <2>1. n - j \in Flip
    OBVIOUS
  <2>2. n - i <= n - j
    BY <1>1, <1>2, <2>1
  <2>3. QED BY <2>2
<1>4. QED BY <1>3 DEF Greatest

LEMMA FirstOfIs == ASSUME NEW S \in SUBSET Nat, NEW n \in Nat \ {0}
  PROVE /\ FirstOf(S, n) \subseteq S
        /\ S # {} => FirstOf(S, n) # {}
<1>1. FirstOf(S, n) \subseteq S
  BY DEF FirstOf
<1>2. ASSUME S # {} PROVE Least(S) \in FirstOf(S, n)
  <2>1. Least(S) \in S /\ \A j \in S : Least(S) <= j
    BY <1>2, LeastIs
  <2>2. {j \in S : j < Least(S)} = {}
    <3>1. Least(S) \in Nat
      BY <2>1
    <3>2. \A j \in S : ~(j < Least(S))
      BY <2>1, <3>1
    <3>3. QED BY <3>2
  <2>3. Cardinality({}) < n
    BY FS_EmptySet
  <2>4. QED BY <2>1, <2>2, <2>3 DEF FirstOf
<1>3. QED BY <1>1, <1>2
-----------------------------------------------------------------------------
(* The inductive invariant, in parts.                                      *)

\* What the listener of s that holds SyncLock works on is there.
WorkInv(s) ==
    /\ step[s] # "free" => lock[s] \in Server
    /\ step[s] = "insert" => answer[s] # {} /\ answer[s] \subseteq Rows(lock[s])
    /\ step[s] \in {"run", "mark"} => batch[s] # {}
    /\ batch[s] \subseteq NotRun(s)

StepInv == \A s \in Server : WorkInv(s)

\* A goroutine holds a new id or statements to log only while it logs them.
HandlerInv ==
    \A h \in Handler :
        /\ hpc[h] # "idle" => pending[h] # <<>>
        /\ hpc[h] = "idle" => pending[h] = <<>>
        /\ \A k \in DOMAIN pending[h] : Author[pending[h][k]] = HomeOf[h]

\* A row is a copy of its author's, and its author has it in state 1.
RowInv ==
    \A s \in Server : \A i \in Rows(s) :
        LET a == Author[log[s][i]] IN log[a][i] = log[s][i] /\ i \in ran[a]

\* A request logs what it committed.
CommitInv ==
    \A h \in Handler : hpc[h] = "logging" =>
        \A k \in DOMAIN pending[h] : pending[h][k] \in data[HomeOf[h]]

\* What a row marked as run, or about to be, stands for is reflected.
AppliedInv ==
    \A s \in Server :
        /\ ran[s] \subseteq Rows(s)
        /\ \A i \in ran[s] : log[s][i] \in data[s]
        /\ step[s] = "mark" => log[s][Current(s)] \in data[s]

-----------------------------------------------------------------------------
(* Type correctness.                                                       *)

USE MaxIdAssumption, LimitAssumption, TopologyAssumption, ChangeAssumption,
    BudgetAssumption, NoneAssumption

LEMMA FirstOfIds ==
    ASSUME NEW S \in SUBSET Id, NEW n \in Nat \ {0}
    PROVE  /\ FirstOf(S, n) \subseteq S
           /\ S # {} => FirstOf(S, n) # {}
  BY FirstOfIs DEF Id

LEMMA LeastOfIds ==
    ASSUME NEW S \in SUBSET Id, S # {}
    PROVE  Least(S) \in S
  BY LeastIs DEF Id

LEMMA GreatestOfIds ==
    ASSUME NEW S \in SUBSET Id, S # {}
    PROVE  Greatest(S) \in S
  BY GreatestIs DEF Id

LEMMA TypeInit == Init => TypeOK /\ StepInv /\ HandlerInv
  BY DEF Init, TypeOK, StepInv, WorkInv, HandlerInv, NotRun, Rows, Id

LEMMA Update ==
    ASSUME NEW D, NEW R, NEW f \in [D -> R], NEW d \in D, NEW r \in R
    PROVE  [f EXCEPT ![d] = r] \in [D -> R]
  OBVIOUS

LEMMA Update2 ==
    ASSUME NEW D, NEW E, NEW R, NEW f \in [D -> [E -> R]],
           NEW d \in D, NEW e \in E, NEW r \in R,
           NEW g, g = f \/ g = [f EXCEPT ![d] = [f[d] EXCEPT ![e] = r]]
    PROVE  g \in [D -> [E -> R]]
<1>1. [f[d] EXCEPT ![e] = r] \in [E -> R]
  OBVIOUS
<1>2. QED BY <1>1

\* Facts the cases of the step share.
LEMMA Facts ==
    ASSUME TypeOK, StepInv, HandlerInv
    PROVE  /\ \A s \in Server : Rows(s) \in SUBSET Id /\ NotRun(s) \in SUBSET Id
           /\ \A s \in Server : step[s] \in {"run", "mark"} =>
                /\ Current(s) \in batch[s] /\ Current(s) \in Id
                /\ log[s][Current(s)] \in Change
           /\ \A s \in Server : step[s] = "insert" =>
                /\ Least(answer[s]) \in answer[s] /\ Least(answer[s]) \in Id
                /\ log[lock[s]][Least(answer[s])] \in Change
           /\ \A h \in Handler : hpc[h] # "idle" =>
                /\ Head(pending[h]) \in Change /\ Tail(pending[h]) \in Seq(Change)
                /\ Head(pending[h]) = pending[h][1] /\ 1 \in DOMAIN pending[h]
<1>1. \A s \in Server : Rows(s) \in SUBSET Id /\ NotRun(s) \in SUBSET Id
  BY DEF Rows, NotRun
<1>2. ASSUME NEW s \in Server, step[s] \in {"run", "mark"}
      PROVE  /\ Current(s) \in batch[s] /\ Current(s) \in Id
             /\ log[s][Current(s)] \in Change
  <2>1. batch[s] \in SUBSET Id /\ batch[s] # {} /\ batch[s] \subseteq NotRun(s)
    BY <1>2 DEF TypeOK, StepInv, WorkInv
  <2>2. Current(s) \in batch[s]
    BY <2>1, LeastOfIds DEF Current
  <2>3. QED BY <2>1, <2>2 DEF NotRun, Rows, TypeOK
<1>3. ASSUME NEW s \in Server, step[s] = "insert"
      PROVE  /\ Least(answer[s]) \in answer[s] /\ Least(answer[s]) \in Id
             /\ log[lock[s]][Least(answer[s])] \in Change
  <2>1. answer[s] \in SUBSET Id /\ answer[s] # {} /\ answer[s] \subseteq Rows(lock[s])
    BY <1>3 DEF TypeOK, StepInv, WorkInv
  <2>2. Least(answer[s]) \in answer[s]
    BY <2>1, LeastOfIds
  <2>3. lock[s] \in Server
    BY <1>3 DEF StepInv, WorkInv
  <2>4. QED BY <2>1, <2>2, <2>3 DEF Rows, TypeOK
<1>4. ASSUME NEW h \in Handler, hpc[h] # "idle"
      PROVE  /\ Head(pending[h]) \in Change /\ Tail(pending[h]) \in Seq(Change)
             /\ Head(pending[h]) = pending[h][1] /\ 1 \in DOMAIN pending[h]
  BY <1>4 DEF TypeOK, HandlerInv
<1>5. QED BY <1>1, <1>2, <1>3, <1>4

LEMMA SpendType ==
    ASSUME TypeOK, NEW f \in Fault, Spend(f)
    PROVE  left' \in [Fault -> Nat]
  BY DEF TypeOK, Spend

LEMMA NextType ==
    ASSUME TypeOK, NEW h \in Handler, Tail(pending[h]) \in Seq(Change), LogNext(h)
    PROVE  /\ pending' \in [Handler -> Seq(Change)]
           /\ newId' \in [Handler -> 0..MaxId]
           /\ hpc' \in [Handler -> {"idle", "open", "logging"}]
<1>1. pending' = [pending EXCEPT ![h] = Tail(pending[h])] /\ pending \in [Handler -> Seq(Change)]
  BY DEF LogNext, TypeOK
<1>2. newId' = [newId EXCEPT ![h] = 0] /\ newId \in [Handler -> 0..MaxId] /\ 0 \in 0..MaxId
  BY DEF LogNext, TypeOK
<1>3. \/ hpc' = [hpc EXCEPT ![h] = "idle"]
      \/ hpc' = [hpc EXCEPT ![h] = "logging"]
  BY DEF LogNext
<1>4. hpc \in [Handler -> {"idle", "open", "logging"}]
  BY DEF TypeOK
<1>5. pending' \in [Handler -> Seq(Change)]
  BY ONLY <1>1, Update, h \in Handler, Tail(pending[h]) \in Seq(Change)
<1>6. newId' \in [Handler -> 0..MaxId]
  BY ONLY <1>2, Update, h \in Handler
<1>7. hpc' \in [Handler -> {"idle", "open", "logging"}]
  BY ONLY <1>3, <1>4, h \in Handler
<1>8. QED BY <1>5, <1>6, <1>7

LEMMA TypeStep == TypeOK /\ StepInv /\ HandlerInv /\ [Next]_vars => TypeOK'
<1> SUFFICES ASSUME TypeOK, StepInv, HandlerInv, [Next]_vars PROVE TypeOK'
  OBVIOUS
<1> USE DEF TypeOK, durable, request, sync
<1>f. "crash" \in Fault /\ "net" \in Fault /\ "busy" \in Fault
  BY DEF Fault
<1>1. ASSUME NEW h \in Handler, NEW c \in Change, Write(h, c) PROVE TypeOK'
  BY <1>1 DEF Write
<1>2. ASSUME NEW h \in Handler, NEW c \in Change, AutoCommitWrite(h, c) PROVE TypeOK'
  BY <1>2 DEF AutoCommitWrite
<1>3. ASSUME NEW h \in Handler, Rollback(h) PROVE TypeOK'
  BY <1>3 DEF Rollback
<1>4. ASSUME NEW h \in Handler, InsertLogBusy(h) PROVE TypeOK'
  <2>1. left' \in [Fault -> Nat]
    BY <1>4, <1>f, SpendType DEF InsertLogBusy
  <2>2. Tail(pending[h]) \in Seq(Change)
    BY <1>4, Facts DEF InsertLogBusy
  <2>3. /\ pending' \in [Handler -> Seq(Change)] /\ newId' \in [Handler -> 0..MaxId]
        /\ hpc' \in [Handler -> {"idle", "open", "logging"}]
    BY <1>4, <2>2, NextType DEF InsertLogBusy
  <2>4. QED BY <1>4, <2>1, <2>3 DEF InsertLogBusy
<1>5. ASSUME NEW h \in Handler, Commit(h) PROVE TypeOK'
  <2>1. {pending[h][k] : k \in DOMAIN pending[h]} \in SUBSET Change
    OBVIOUS
  <2>2. data' \in [Server -> SUBSET Change]
    <3> DEFINE new == {pending[h][k] : k \in DOMAIN pending[h]}
    <3>1. data' = data \/ data' = [data EXCEPT ![HomeOf[h]] = @ \cup new]
      BY <1>5 DEF Commit
    <3>2. HomeOf[h] \in Server /\ new \in SUBSET Change
      BY <2>1
    <3> HIDE DEF new
    <3>3. data \in [Server -> SUBSET Change]
      OBVIOUS
    <3>4. QED BY ONLY <3>1, <3>2, <3>3
  <2>3. QED BY <1>5, <2>2 DEF Commit
<1>6. ASSUME NEW h \in Handler, TakeId(h) PROVE TypeOK'
  <2> DEFINE later == {i \in IdsOf[HomeOf[h]] : i > clock[HomeOf[h]]}
  <2>1. later \in SUBSET Id
    OBVIOUS
  <2>2. later # {}
    BY <1>6 DEF TakeId
  <2>3. Least(later) \in Id
    BY <2>1, <2>2, LeastOfIds
  <2>4. Least(later) \in 0..MaxId
    BY <2>3 DEF Id
  <2>5. QED BY <1>6, <2>4 DEF TakeId
<1>7. ASSUME NEW h \in Handler, InsertLog(h) PROVE TypeOK'
  <2>1. Head(pending[h]) \in Change /\ Tail(pending[h]) \in Seq(Change)
    BY <1>7, Facts DEF InsertLog
  <2>2. newId[h] \in Id
    <3>1. newId[h] \in 0..MaxId /\ newId[h] # 0
      BY <1>7 DEF InsertLog
    <3>2. QED BY <3>1 DEF Id
  <2>3. /\ log' \in [Server -> [Id -> Change \cup {None}]]
        /\ ran' \in [Server -> SUBSET Id]
    <3> DEFINE i == newId[h]
               c == Head(pending[h])
               home == HomeOf[h]
    <3>1. /\ log' = log \/ log' = [log EXCEPT ![home] = [log[home] EXCEPT ![i] = c]]
          /\ ran' = ran \/ ran' = [ran EXCEPT ![home] = @ \cup {i}]
      BY <1>7 DEF InsertLog
    <3>2. i \in Id /\ c \in Change \cup {None} /\ home \in Server
      BY <2>1, <2>2
    <3>3. log \in [Server -> [Id -> Change \cup {None}]] /\ ran \in [Server -> SUBSET Id]
      OBVIOUS
    <3> HIDE DEF i, c, home
    <3>4. log' \in [Server -> [Id -> Change \cup {None}]]
      <4>1. log' = log \/ log' = [log EXCEPT ![home] = [log[home] EXCEPT ![i] = c]]
        BY <3>1
      <4>2. log \in [Server -> [Id -> Change \cup {None}]]
        OBVIOUS
      <4>3. [log[home] EXCEPT ![i] = c] \in [Id -> Change \cup {None}]
        BY ONLY <3>2, <4>2
      <4>4. QED BY ONLY <3>2, <4>1, <4>2, <4>3
    <3>5. ran' \in [Server -> SUBSET Id]
      BY ONLY <3>1, <3>2, <3>3
    <3>6. QED BY <3>4, <3>5
  <2>4. /\ pending' \in [Handler -> Seq(Change)] /\ newId' \in [Handler -> 0..MaxId]
        /\ hpc' \in [Handler -> {"idle", "open", "logging"}]
    BY <1>7, <2>1, NextType DEF InsertLog
  <2>5. QED BY <1>7, <2>3, <2>4 DEF InsertLog
<1>8. ASSUME NEW s \in Server, NEW m \in Server, Start(s, m) PROVE TypeOK'
  BY <1>8 DEF Start, Goto
<1>9. ASSUME NEW s \in Server, NEW m \in Server, Pushed(s, m) PROVE TypeOK'
  BY <1>9 DEF Pushed, Goto
<1>10. ASSUME NEW s \in Server, NEW m \in Server, ConnLost(s, m) PROVE TypeOK'
  BY <1>10 DEF ConnLost
<1>11. ASSUME NEW s \in Server, Fetch(s) PROVE TypeOK'
  <2> DEFINE page == FirstOf({i \in Rows(lock[s]) : i > lastId[s][lock[s]]}, PageLimit)
  <2>1. lock[s] \in Server
    BY <1>11 DEF Fetch, StepInv, WorkInv
  <2>2. {i \in Rows(lock[s]) : i > lastId[s][lock[s]]} \in SUBSET Id
    BY <2>1, Facts
  <2>3. page \in SUBSET Id
    BY <2>2, FirstOfIds
  <2>4. page # {} => Greatest(page) \in 0..MaxId
    <3>1. page # {} => Greatest(page) \in Id
      <4> HIDE DEF page
      <4>1. QED BY <2>3, GreatestOfIds
    <3> HIDE DEF page
    <3>2. QED BY <3>1 DEF Id
  <2> HIDE DEF page
  <2>5. CASE page = {}
    BY <1>11, <2>5 DEF Fetch, Goto, page
  <2>6. CASE page # {}
    <3>1. answer' = [answer EXCEPT ![s] = page] /\ top' = [top EXCEPT ![s] = Greatest(page)]
      BY <1>11, <2>6 DEF Fetch, page
    <3>2. answer' \in [Server -> SUBSET Id] /\ top' \in [Server -> 0..MaxId]
      BY <2>3, <2>4, <2>6, <3>1
    <3>3. step' \in [Server -> {"free", "fetch", "insert", "save", "load", "run", "mark"}]
          /\ drained' = drained
      BY <1>11, <2>6 DEF Fetch, Goto, page
    <3>4. QED BY <1>11, <3>2, <3>3 DEF Fetch
  <2>7. QED BY <2>5, <2>6
<1>12. ASSUME NEW s \in Server, InsertRow(s) PROVE TypeOK'
  <2>1. Least(answer[s]) \in Id /\ log[lock[s]][Least(answer[s])] \in Change
    BY <1>12, Facts DEF InsertRow
  <2>2. log' \in [Server -> [Id -> Change \cup {None}]]
    <3> DEFINE i == Least(answer[s])
               c == log[lock[s]][i]
    <3>1. log' = log \/ log' = [log EXCEPT ![s] = [log[s] EXCEPT ![i] = c]]
      BY <1>12 DEF InsertRow
    <3>2. i \in Id /\ c \in Change \cup {None}
      BY <2>1
    <3>3. log \in [Server -> [Id -> Change \cup {None}]]
      OBVIOUS
    <3> HIDE DEF i, c
    <3>4. QED BY ONLY <3>1, <3>2, <3>3, Update2, s \in Server
  <2>3. answer' \in [Server -> SUBSET Id]
    BY <1>12 DEF InsertRow
  <2>4. step' \in [Server -> {"free", "fetch", "insert", "save", "load", "run", "mark"}]
    <3>1. step' = step \/ step' = [step EXCEPT ![s] = "save"]
      BY <1>12 DEF InsertRow, Goto
    <3>2. QED BY <3>1
  <2>5. QED BY <1>12, <2>2, <2>3, <2>4 DEF InsertRow
<1>13. ASSUME NEW s \in Server, SaveLastId(s) PROVE TypeOK'
  BY <1>13 DEF SaveLastId, Goto
<1>14. ASSUME NEW s \in Server, Load(s) PROVE TypeOK'
  <2>1. FirstOf(NotRun(s), RunLimit) \in SUBSET Id
    BY Facts, FirstOfIds
  <2>2. batch' \in [Server -> SUBSET Id]
    BY <1>14, <2>1 DEF Load, Release
  <2>3. answer' \in [Server -> SUBSET Id] /\ drained' \in [Server -> BOOLEAN]
    BY <1>14 DEF Load, Release
  <2>4. step' \in [Server -> {"free", "fetch", "insert", "save", "load", "run", "mark"}]
    <3>1. \/ step' = [step EXCEPT ![s] = "run"] \/ step' = [step EXCEPT ![s] = "fetch"]
          \/ step' = [step EXCEPT ![s] = "free"]
      BY <1>14 DEF Load, Release, Goto
    <3>2. QED BY <3>1
  <2>5. lock' \in [Server -> Server \cup {None}]
        /\ lpc' \in [Server -> [Server -> {"sleep", "first", "wait", "pushed", "dead"}]]
    <3> DEFINE next == IF lpc[s][lock[s]] = "first" THEN "wait" ELSE "sleep"
    <3>1. \/ lpc' = lpc /\ lock' = lock
          \/ /\ lock' = [lock EXCEPT ![s] = None]
             /\ lpc' = [lpc EXCEPT ![s] = [lpc[s] EXCEPT ![lock[s]] = next]]
      BY <1>14 DEF Load, Release
    <3>2. lock[s] \in Server
      BY <1>14 DEF Load, StepInv, WorkInv
    <3>3. next \in {"sleep", "first", "wait", "pushed", "dead"}
      OBVIOUS
    <3> HIDE DEF next
    <3>4. lpc' \in [Server -> [Server -> {"sleep", "first", "wait", "pushed", "dead"}]]
      <4>1. lpc \in [Server -> [Server -> {"sleep", "first", "wait", "pushed", "dead"}]]
        OBVIOUS
      <4>2. lpc' = lpc \/ lpc' = [lpc EXCEPT ![s] = [lpc[s] EXCEPT ![lock[s]] = next]]
        BY <3>1
      <4>3. QED BY ONLY <3>2, <3>3, <4>1, <4>2, Update2, s \in Server
    <3>5. lock \in [Server -> Server \cup {None}]
      OBVIOUS
    <3>6. lock' \in [Server -> Server \cup {None}]
      BY ONLY <3>1, <3>5, s \in Server
    <3>7. QED BY <3>4, <3>6
  <2>6. QED BY <1>14, <2>2, <2>3, <2>4, <2>5 DEF Load
<1>15. ASSUME NEW s \in Server, Run(s) PROVE TypeOK'
  <2>1. log[s][Current(s)] \in Change
    BY <1>15, Facts DEF Run
  <2>2. QED BY <1>15, <2>1 DEF Run, Goto
<1>16. ASSUME NEW s \in Server, RunRejected(s) PROVE TypeOK'
  BY <1>16 DEF RunRejected, Panic, Release
<1>17. ASSUME NEW s \in Server, Mark(s) PROVE TypeOK'
  <2>1. Current(s) \in Id
    BY <1>17, Facts DEF Mark
  <2>2. QED BY <1>17, <2>1 DEF Mark, Advance, Goto
<1>18. ASSUME NEW s \in Server, FetchFails(s) PROVE TypeOK'
  <2>1. left' \in [Fault -> Nat]
    BY <1>18, <1>f, SpendType DEF FetchFails
  <2>2. QED BY <1>18, <2>1 DEF FetchFails, GiveUp, Release
<1>19. ASSUME NEW s \in Server, InsertRowBusy(s) PROVE TypeOK'
  <2>1. left' \in [Fault -> Nat]
    BY <1>19, <1>f, SpendType DEF InsertRowBusy
  <2>2. QED BY <1>19, <2>1 DEF InsertRowBusy, GiveUp, Release
<1>20. ASSUME NEW s \in Server, RunFails(s) PROVE TypeOK'
  <2>1. left' \in [Fault -> Nat]
    BY <1>20, <1>f, SpendType DEF RunFails
  <2>2. QED BY <1>20, <2>1 DEF RunFails, Panic, Release
<1>21. ASSUME NEW s \in Server, MarkBusy(s) PROVE TypeOK'
  <2>1. left' \in [Fault -> Nat]
    BY <1>21, <1>f, SpendType DEF MarkBusy
  <2>2. QED BY <1>21, <2>1 DEF MarkBusy, Advance, Goto
<1>22. ASSUME NEW s \in Server, Crash(s) PROVE TypeOK'
  <2>1. left' \in [Fault -> Nat]
    BY <1>22, <1>f, SpendType DEF Crash
  <2>2. step[s] = "save" => lock[s] \in Server
    BY DEF StepInv, WorkInv
  <2>3. lastId' \in [Server -> [Server -> 0..MaxId]]
    <3>1. \/ lastId' = lastId
          \/ /\ step[s] = "save"
             /\ lastId' = [lastId EXCEPT ![s] = [lastId[s] EXCEPT ![lock[s]] = 0]]
      BY <1>22 DEF Crash
    <3>2. 0 \in 0..MaxId
      OBVIOUS
    <3>3. lastId \in [Server -> [Server -> 0..MaxId]]
      OBVIOUS
    <3>4. QED BY ONLY <2>2, <3>1, <3>2, <3>3, Update2, s \in Server
  <2>4. lpc' \in [Server -> [Server -> {"sleep", "first", "wait", "pushed", "dead"}]]
    BY <1>22 DEF Crash
  <2>5. /\ hpc' \in [Handler -> {"idle", "open", "logging"}]
        /\ pending' \in [Handler -> Seq(Change)]
        /\ newId' \in [Handler -> 0..MaxId]
        /\ writer' \in [Server -> Handler \cup {None}]
    BY <1>22 DEF Crash
  <2>6. QED BY <1>22, <2>1, <2>3, <2>4, <2>5 DEF Crash, Release
<1>23. CASE UNCHANGED vars
  BY <1>23 DEF vars
<1>24. QED
  BY <1>1, <1>2, <1>3, <1>4, <1>5, <1>6, <1>7, <1>8, <1>9, <1>10, <1>11, <1>12, <1>13,
     <1>14, <1>15, <1>16, <1>17, <1>18, <1>19, <1>20, <1>21, <1>22, <1>23
     DEF Next, HandlerStep, SyncStep
-----------------------------------------------------------------------------
(* What is durable stays.                                                  *)

\* The databases, the logs and the marks of a state are kept by the next, and
\* only Mark turns a row that is not run into one that is.
Kept ==
    \A t \in Server :
        /\ data[t] \subseteq data'[t] /\ ran[t] \subseteq ran'[t]
        /\ \A i \in Rows(t) : log'[t][i] = log[t][i]
        /\ \A i \in NotRun(t) : i \in ran'[t] => Mark(t)

\* The steps that touch the databases, the logs or the marks.
LEMMA Kinds ==
    ASSUME [Next]_vars
    PROVE  \/ UNCHANGED <<data, log, ran>>
           \/ \E h \in Handler :
                 Commit(h) \/ InsertLog(h) \/ \E c \in Change : AutoCommitWrite(h, c)
           \/ \E s \in Server : InsertRow(s) \/ Run(s) \/ Mark(s)
<1> USE DEF durable
<1>1. ASSUME NEW h \in Handler, NEW c \in Change, Write(h, c) PROVE UNCHANGED <<data, log, ran>>
  BY ONLY <1>1 DEF Write
<1>2. ASSUME NEW h \in Handler, Rollback(h) \/ InsertLogBusy(h) \/ TakeId(h)
      PROVE UNCHANGED <<data, log, ran>>
  BY ONLY <1>2 DEF Rollback, InsertLogBusy, TakeId
<1>3. ASSUME NEW s \in Server, NEW m \in Server, Start(s, m) \/ Pushed(s, m) \/ ConnLost(s, m)
      PROVE UNCHANGED <<data, log, ran>>
  BY ONLY <1>3 DEF Start, Pushed, ConnLost
<1>4. ASSUME NEW s \in Server,
             \/ Fetch(s) \/ SaveLastId(s) \/ Load(s) \/ RunRejected(s) \/ FetchFails(s)
             \/ InsertRowBusy(s) \/ RunFails(s) \/ MarkBusy(s) \/ Crash(s)
      PROVE UNCHANGED <<data, log, ran>>
  BY ONLY <1>4 DEF Fetch, SaveLastId, Load, RunRejected, FetchFails, InsertRowBusy,
                   RunFails, MarkBusy, Crash, GiveUp, Panic
<1>5. CASE UNCHANGED vars
  BY ONLY <1>5 DEF vars
<1>6. QED BY <1>1, <1>2, <1>3, <1>4, <1>5 DEF Next, HandlerStep, SyncStep

\* A row stored where there was none disturbs no other row.
LEMMA StoreKeeps ==
    ASSUME NEW f, NEW R, f \in [Server -> [Id -> R]],
           NEW t \in Server, NEW j \in Id, NEW c \in R,
           NEW g, \/ g = f
                  \/ f[t][j] = None /\ g = [f EXCEPT ![t] = [f[t] EXCEPT ![j] = c]]
    PROVE  /\ \A u \in Server, i \in Id : f[u][i] # None => g[u][i] = f[u][i]
           /\ \A u \in Server, i \in Id : g[u][i] # f[u][i] => u = t /\ i = j /\ g[u][i] = c
  OBVIOUS

LEMMA KeptStep == TypeOK /\ StepInv /\ HandlerInv /\ [Next]_vars => Kept
<1> SUFFICES ASSUME TypeOK, StepInv, HandlerInv, [Next]_vars PROVE Kept
  OBVIOUS
<1>1. CASE UNCHANGED <<data, log, ran>>
  BY <1>1 DEF Kept, Rows, NotRun
<1>2. ASSUME NEW h \in Handler, NEW c \in Change, AutoCommitWrite(h, c) PROVE Kept
  BY <1>2 DEF AutoCommitWrite, Kept, Rows, NotRun, TypeOK
<1>3. ASSUME NEW h \in Handler, Commit(h) PROVE Kept
  <2>1. UNCHANGED <<log, ran>> /\ data \in [Server -> SUBSET Change]
    BY <1>3 DEF Commit, TypeOK
  <2>2. \/ data' = data
        \/ data' = [data EXCEPT ![HomeOf[h]] = @ \cup {pending[h][k] : k \in DOMAIN pending[h]}]
    BY <1>3 DEF Commit
  <2>3. \A t \in Server : data[t] \subseteq data'[t]
    BY ONLY <2>1, <2>2
  <2>4. QED BY ONLY <2>1, <2>3 DEF Kept, Rows, NotRun
<1>4. ASSUME NEW h \in Handler, InsertLog(h) PROVE Kept
  <2> DEFINE home == HomeOf[h]
             j == newId[h]
             c == Head(pending[h])
  <2>1. \/ log' = log
        \/ log[home][j] = None /\ log' = [log EXCEPT ![home] = [log[home] EXCEPT ![j] = c]]
    BY <1>4 DEF InsertLog
  <2>2. \/ ran' = ran
        \/ ran' = [ran EXCEPT ![home] = @ \cup {j}] /\ log[home][j] = None
    BY <1>4 DEF InsertLog
  <2>3. data' = data
    BY <1>4 DEF InsertLog
  <2>4. home \in Server /\ j \in Id /\ c \in Change \cup {None}
    <3>1. newId[h] \in 0..MaxId /\ newId[h] # 0
      BY <1>4 DEF InsertLog, TypeOK
    <3>2. j \in Id
      BY <3>1 DEF Id
    <3>3. c \in Change
      BY <1>4, Facts DEF InsertLog
    <3>4. QED BY <3>2, <3>3
  <2>5. log \in [Server -> [Id -> Change \cup {None}]]
    BY DEF TypeOK
  <2> HIDE DEF home, j, c
  <2>6. \A u \in Server, i \in Id : log[u][i] # None => log'[u][i] = log[u][i]
    BY ONLY <2>1, <2>4, <2>5, StoreKeeps
  <2>7. \A u \in Server : ran[u] \subseteq ran'[u]
    <3>1. ran \in [Server -> SUBSET Id]
      BY DEF TypeOK
    <3>2. QED BY ONLY <2>2, <3>1
  <2>8. \A u \in Server : \A i \in Rows(u) : log'[u][i] = log[u][i]
    BY ONLY <2>6 DEF Rows
  <2>9. \A u \in Server : \A i \in NotRun(u) : i \notin ran'[u]
    <3>1. ran \in [Server -> SUBSET Id]
      BY DEF TypeOK
    <3>2. QED BY ONLY <2>2, <3>1 DEF NotRun, Rows
  <2>10. QED BY ONLY <2>3, <2>7, <2>8, <2>9 DEF Kept
<1>5. ASSUME NEW s \in Server, InsertRow(s) PROVE Kept
  <2> DEFINE j == Least(answer[s])
             c == log[lock[s]][j]
  <2>1. \/ log' = log
        \/ log[s][j] = None /\ log' = [log EXCEPT ![s] = [log[s] EXCEPT ![j] = c]]
    BY <1>5 DEF InsertRow
  <2>2. data' = data /\ ran' = ran
    BY <1>5 DEF InsertRow
  <2>3. j \in Id /\ c \in Change \cup {None}
    BY <1>5, Facts DEF InsertRow
  <2>4. log \in [Server -> [Id -> Change \cup {None}]]
    BY DEF TypeOK
  <2> HIDE DEF j, c
  <2>5. \A u \in Server, i \in Id : log[u][i] # None => log'[u][i] = log[u][i]
    BY ONLY <2>1, <2>3, <2>4, StoreKeeps, s \in Server
  <2>6. QED BY <2>2, <2>5 DEF Kept, Rows, NotRun
<1>6. ASSUME NEW s \in Server, Run(s) PROVE Kept
  BY <1>6 DEF Run, Kept, Rows, NotRun, TypeOK
<1>7. ASSUME NEW s \in Server, Mark(s) PROVE Kept
  BY <1>7 DEF Mark, Kept, Rows, NotRun, TypeOK
<1>8. QED
  BY <1>1, <1>2, <1>3, <1>4, <1>5, <1>6, <1>7, Kinds
-----------------------------------------------------------------------------
(* The listeners' invariant is inductive.                                  *)

\* A step that is not the listener's own leaves its work there.
LEMMA WorkFrame ==
    ASSUME TypeOK, StepInv, TypeOK', Kept, NEW t \in Server, ~Mark(t),
           step'[t] = step[t], lock'[t] = lock[t],
           answer'[t] = answer[t], batch'[t] = batch[t]
    PROVE  WorkInv(t)'
<1>1. \A u \in Server : \A i \in Id : log[u][i] # None => log'[u][i] # None
  BY DEF Kept, Rows
<1>2. \A i \in NotRun(t) : i \notin ran'[t]
  BY DEF Kept
<1>3. NotRun(t) \subseteq {i \in Id : log'[t][i] # None} \ ran'[t]
  BY ONLY <1>1, <1>2, t \in Server DEF NotRun, Rows
<1>4. WorkInv(t)
  BY DEF StepInv
<1>5. step[t] = "insert" => lock[t] \in Server /\ Rows(lock[t]) \subseteq {i \in Id : log'[lock[t]][i] # None}
  BY ONLY <1>1, <1>4 DEF WorkInv, Rows
<1>6. /\ step'[t] = step[t] /\ lock'[t] = lock[t]
      /\ answer'[t] = answer[t] /\ batch'[t] = batch[t]
  OBVIOUS
<1>7. step'[t] = "insert" => answer'[t] # {} /\ answer'[t] \subseteq {i \in Id : log'[lock'[t]][i] # None}
  BY ONLY <1>4, <1>5, <1>6 DEF WorkInv
<1>8. batch'[t] \subseteq {i \in Id : log'[t][i] # None} \ ran'[t]
  BY ONLY <1>3, <1>4, <1>6 DEF WorkInv
<1>9. /\ step'[t] # "free" => lock'[t] \in Server
      /\ step'[t] \in {"run", "mark"} => batch'[t] # {}
  BY ONLY <1>4, <1>6 DEF WorkInv
<1>10. QED BY ONLY <1>7, <1>8, <1>9 DEF WorkInv, NotRun, Rows

\* A step that gives SyncLock back leaves nothing behind.
LEMMA WorkReleased ==
    ASSUME TypeOK, NEW s \in Server, Release(s)
    PROVE  WorkInv(s)'
  BY DEF Release, WorkInv, TypeOK

\* What the listener of s does it does for s alone.
Local(s) ==
    \A t \in Server \ {s} :
        /\ step'[t] = step[t] /\ lock'[t] = lock[t]
        /\ answer'[t] = answer[t] /\ batch'[t] = batch[t]

LEMMA StepStep ==
    TypeOK /\ StepInv /\ HandlerInv /\ TypeOK' /\ Kept /\ [Next]_vars => StepInv'
<1> SUFFICES ASSUME TypeOK, StepInv, HandlerInv, TypeOK', Kept, [Next]_vars
             PROVE  StepInv'
  OBVIOUS
<1>1. CASE UNCHANGED <<step, lock, answer, batch>>
  <2>1. \A t \in Server : ~Mark(t)
    <3> SUFFICES ASSUME NEW t \in Server, Mark(t) PROVE FALSE
      OBVIOUS
    <3>1. Current(t) \in batch[t]
      BY Facts DEF Mark
    <3>2. batch' = [batch EXCEPT ![t] = @ \ {Current(t)}] /\ batch \in [Server -> SUBSET Id]
      BY DEF Mark, Advance, TypeOK
    <3>3. Current(t) \notin batch'[t]
      BY ONLY <3>2, t \in Server
    <3>4. QED BY ONLY <1>1, <3>1, <3>3
  <2>2. QED BY <1>1, <2>1, WorkFrame DEF StepInv
<1>2. ASSUME NEW s \in Server, Local(s), WorkInv(s)' PROVE StepInv'
  <2> SUFFICES ASSUME NEW t \in Server, t # s PROVE WorkInv(t)'
    BY <1>2 DEF StepInv
  <2>1. /\ step'[t] = step[t] /\ lock'[t] = lock[t]
        /\ answer'[t] = answer[t] /\ batch'[t] = batch[t]
    BY <1>2 DEF Local
  <2>2. ~Mark(t)
    <3>1. SUFFICES ASSUME Mark(t) PROVE FALSE
      OBVIOUS
    <3>2. Current(t) \in batch[t]
      BY <3>1, Facts DEF Mark
    <3>3. batch' = [batch EXCEPT ![t] = @ \ {Current(t)}] /\ batch \in [Server -> SUBSET Id]
      BY <3>1 DEF Mark, Advance, TypeOK
    <3>4. QED BY ONLY <2>1, <3>2, <3>3, t \in Server
  <2>3. QED BY <2>1, <2>2, WorkFrame
<1>3. ASSUME NEW s \in Server, Release(s) PROVE StepInv'
  <2>1. Local(s)
    BY <1>3 DEF Release, Local, TypeOK
  <2>2. QED BY <1>2, <1>3, <2>1, WorkReleased
<1>4. ASSUME NEW h \in Handler,
             HandlerStep(h) \/ Rollback(h) \/ InsertLogBusy(h)
               \/ \E c \in Change : Write(h, c) \/ AutoCommitWrite(h, c)
      PROVE  StepInv'
  <2>1. UNCHANGED <<step, lock, answer, batch>>
    BY <1>4 DEF HandlerStep, Commit, TakeId, InsertLog, Rollback, InsertLogBusy,
                Write, AutoCommitWrite, sync
  <2>2. QED BY <1>1, <2>1
<1>5. ASSUME NEW s \in Server, NEW m \in Server, ConnLost(s, m) PROVE StepInv'
  <2>1. UNCHANGED <<step, lock, answer, batch>>
    BY <1>5 DEF ConnLost
  <2>2. QED BY <1>1, <2>1
<1>6. ASSUME NEW s \in Server, NEW m \in Server, Start(s, m) \/ Pushed(s, m) PROVE StepInv'
  <2>1. /\ step' = [step EXCEPT ![s] = "fetch"] /\ lock' = [lock EXCEPT ![s] = m]
        /\ UNCHANGED <<log, ran, answer, batch>>
    BY <1>6 DEF Start, Pushed, Goto, durable
  <2>2. Local(s)
    BY <2>1 DEF Local, TypeOK
  <2>3. WorkInv(s)'
    BY <2>1 DEF TypeOK, StepInv, WorkInv, NotRun, Rows
  <2>4. QED BY <1>2, <2>2, <2>3
<1>7. ASSUME NEW s \in Server, Fetch(s) PROVE StepInv'
  <2> DEFINE above == {i \in Rows(lock[s]) : i > lastId[s][lock[s]]}
             page == FirstOf(above, PageLimit)
  <2>1. /\ lock[s] \in Server /\ UNCHANGED <<log, ran, lock, batch>>
        /\ batch[s] \subseteq NotRun(s)
    BY <1>7 DEF Fetch, StepInv, WorkInv, durable
  <2>2. page \subseteq Rows(lock[s])
    <3>1. above \in SUBSET Id /\ above \subseteq Rows(lock[s])
      BY <2>1, Facts
    <3> HIDE DEF above
    <3>2. QED BY <3>1, FirstOfIds
  <2>3. \/ step' = [step EXCEPT ![s] = "load"] /\ UNCHANGED answer
        \/ /\ step' = [step EXCEPT ![s] = "insert"] /\ page # {}
           /\ answer' = [answer EXCEPT ![s] = page]
    BY <1>7 DEF Fetch, Goto
  <2>4. /\ step \in [Server -> {"free", "fetch", "insert", "save", "load", "run", "mark"}]
        /\ answer \in [Server -> SUBSET Id]
    BY DEF TypeOK
  <2> HIDE DEF page
  <2>5. Local(s)
    BY ONLY <2>1, <2>3, <2>4 DEF Local
  <2>6. WorkInv(s)'
    <3>1. /\ lock'[s] \in Server /\ batch'[s] \subseteq NotRun(s)'
          /\ {i \in Id : log'[lock'[s]][i] # None} = Rows(lock[s])
      BY ONLY <2>1 DEF NotRun, Rows
    <3>2. step'[s] \in {"load", "insert"}
      BY ONLY <2>3, <2>4, s \in Server
    <3>3. step'[s] = "insert" => answer'[s] # {} /\ answer'[s] \subseteq Rows(lock[s])
      BY ONLY <2>2, <2>3, <2>4, s \in Server
    <3>4. QED BY ONLY <3>1, <3>2, <3>3 DEF WorkInv, Rows
  <2>7. QED BY <1>2, <2>5, <2>6
<1>8. ASSUME NEW s \in Server, InsertRow(s) PROVE StepInv'
  <2> DEFINE i == Least(answer[s])
  <2>1. /\ UNCHANGED <<ran, lock, batch>> /\ step[s] = "insert" /\ lock[s] \in Server
        /\ answer[s] \subseteq Rows(lock[s]) /\ batch[s] \subseteq NotRun(s)
    BY <1>8 DEF InsertRow, StepInv, WorkInv
  <2>2. /\ answer' = [answer EXCEPT ![s] = @ \ {i}]
        /\ \/ answer[s] = {i} /\ step' = [step EXCEPT ![s] = "save"]
           \/ answer[s] # {i} /\ step' = step
    BY <1>8 DEF InsertRow, Goto
  <2>3. i \in answer[s]
    BY <1>8, Facts DEF InsertRow
  <2>4. /\ step \in [Server -> {"free", "fetch", "insert", "save", "load", "run", "mark"}]
        /\ answer \in [Server -> SUBSET Id]
    BY DEF TypeOK
  <2>5. \A u \in Server : Rows(u) \subseteq Rows(u)'
    BY DEF Kept, Rows, TypeOK
  <2>6. NotRun(s) \subseteq NotRun(s)'
    BY <2>1, <2>5 DEF NotRun
  <2>7. Rows(lock[s]) \subseteq {j \in Id : log'[lock'[s]][j] # None}
    BY <2>1, <2>5 DEF Rows
  <2> HIDE DEF i
  <2>8. Local(s)
    BY ONLY <2>1, <2>2, <2>4 DEF Local
  <2>9. WorkInv(s)'
    <3>1. lock'[s] \in Server /\ batch'[s] \subseteq NotRun(s)'
      BY ONLY <2>1, <2>6
    <3>2. step'[s] \in {"save", "insert"}
      BY ONLY <2>1, <2>2, <2>4, s \in Server
    <3>3. step'[s] = "insert" => answer'[s] # {} /\ answer'[s] \subseteq {j \in Id : log'[lock'[s]][j] # None}
      BY ONLY <2>1, <2>2, <2>3, <2>4, <2>7, s \in Server
    <3>4. QED BY ONLY <3>1, <3>2, <3>3 DEF WorkInv, Rows
  <2>10. QED BY <1>2, <2>8, <2>9
<1>9. ASSUME NEW s \in Server, SaveLastId(s) \/ Run(s) PROVE StepInv'
  <2>1. /\ \/ step[s] = "save" /\ step' = [step EXCEPT ![s] = "load"]
           \/ step[s] = "run" /\ step' = [step EXCEPT ![s] = "mark"]
        /\ UNCHANGED <<log, ran, lock, answer, batch>>
    BY <1>9 DEF SaveLastId, Run, Goto
  <2>2. step \in [Server -> {"free", "fetch", "insert", "save", "load", "run", "mark"}]
    BY DEF TypeOK
  <2>3. Local(s)
    BY ONLY <2>1, <2>2 DEF Local
  <2>4. WorkInv(s)'
    <3>1. WorkInv(s)
      BY DEF StepInv
    <3>2. QED BY ONLY <2>1, <2>2, <3>1, s \in Server DEF WorkInv, NotRun, Rows
  <2>5. QED BY <1>2, <2>3, <2>4
<1>10. ASSUME NEW s \in Server, Load(s) PROVE StepInv'
  <2>1. CASE Release(s)
    BY <1>3, <2>1
  <2>2. CASE ~Release(s)
    <3>1. /\ UNCHANGED <<log, ran, lock, answer>> /\ step[s] = "load"
          /\ \/ /\ NotRun(s) # {} /\ batch' = [batch EXCEPT ![s] = FirstOf(NotRun(s), RunLimit)]
                /\ step' = [step EXCEPT ![s] = "run"]
             \/ UNCHANGED batch /\ step' = [step EXCEPT ![s] = "fetch"]
      BY <1>10, <2>2 DEF Load, Goto, durable
    <3>2. FirstOf(NotRun(s), RunLimit) \subseteq NotRun(s)
          /\ (NotRun(s) # {} => FirstOf(NotRun(s), RunLimit) # {})
      BY Facts, FirstOfIds
    <3>3. /\ step \in [Server -> {"free", "fetch", "insert", "save", "load", "run", "mark"}]
          /\ batch \in [Server -> SUBSET Id]
      BY DEF TypeOK
    <3>4. Local(s)
      BY ONLY <3>1, <3>3 DEF Local
    <3>5. WorkInv(s)'
      <4>1. WorkInv(s)
        BY DEF StepInv
      <4>2. lock'[s] \in Server /\ step'[s] \in {"run", "fetch"} /\ NotRun(s)' = NotRun(s)
        BY ONLY <3>1, <3>3, <4>1, s \in Server DEF WorkInv, NotRun, Rows
      <4>3. batch'[s] \subseteq NotRun(s) /\ (step'[s] = "run" => batch'[s] # {})
        BY ONLY <3>1, <3>2, <3>3, <4>1, s \in Server DEF WorkInv
      <4>4. QED BY ONLY <4>2, <4>3 DEF WorkInv
    <3>6. QED BY <1>2, <3>4, <3>5
  <2>3. QED BY <2>1, <2>2
<1>11. ASSUME NEW s \in Server, Mark(s) \/ MarkBusy(s) PROVE StepInv'
  <2> DEFINE i == Current(s)
  <2>1. /\ step[s] = "mark" /\ UNCHANGED <<log, lock, answer>>
        /\ ran' = ran \/ ran' = [ran EXCEPT ![s] = @ \cup {i}]
        /\ batch' = [batch EXCEPT ![s] = @ \ {i}]
        /\ \/ batch[s] = {i} /\ step' = [step EXCEPT ![s] = "load"]
           \/ batch[s] # {i} /\ step' = [step EXCEPT ![s] = "run"]
    BY <1>11 DEF Mark, MarkBusy, Advance, Goto, durable
  <2>2. i \in batch[s]
    BY <2>1, Facts
  <2>3. /\ step \in [Server -> {"free", "fetch", "insert", "save", "load", "run", "mark"}]
        /\ batch \in [Server -> SUBSET Id] /\ ran \in [Server -> SUBSET Id]
    BY DEF TypeOK
  <2>4. WorkInv(s)
    BY DEF StepInv
  <2> HIDE DEF i
  <2>5. Local(s)
    BY ONLY <2>1, <2>3 DEF Local
  <2>6. WorkInv(s)'
    <3>1. lock'[s] \in Server /\ step'[s] \in {"run", "load"} /\ (step'[s] = "run" => batch'[s] # {})
      BY ONLY <2>1, <2>2, <2>3, <2>4, s \in Server DEF WorkInv
    <3>2. batch'[s] \subseteq NotRun(s)'
      BY ONLY <2>1, <2>3, <2>4, s \in Server DEF WorkInv, NotRun, Rows
    <3>3. QED BY ONLY <3>1, <3>2 DEF WorkInv
  <2>7. QED BY <1>2, <2>5, <2>6
<1>12. ASSUME NEW s \in Server,
              \/ RunRejected(s) \/ FetchFails(s) \/ InsertRowBusy(s) \/ RunFails(s) \/ Crash(s)
       PROVE  StepInv'
  <2>1. Release(s)
    BY <1>12 DEF RunRejected, FetchFails, InsertRowBusy, RunFails, Crash, GiveUp, Panic
  <2>2. QED BY <1>3, <2>1
<1>13. CASE UNCHANGED vars
  BY <1>1, <1>13 DEF vars, sync
<1>14. QED
  BY <1>4, <1>5, <1>6, <1>7, <1>8, <1>9, <1>10, <1>11, <1>12, <1>13 DEF Next, SyncStep
-----------------------------------------------------------------------------
(* The goroutines' invariant is inductive.                                 *)

LEMMA AppendIs ==
    ASSUME NEW S, NEW q \in Seq(S), NEW c \in S
    PROVE  /\ Append(q, c) \in Seq(S) /\ Append(q, c) # <<>>
           /\ \A k \in DOMAIN Append(q, c) :
                \/ Append(q, c)[k] = c
                \/ k \in DOMAIN q /\ Append(q, c)[k] = q[k]
<1>1. /\ Len(Append(q, c)) = Len(q) + 1 /\ Len(q) \in Nat
      /\ DOMAIN q = 1..Len(q) /\ DOMAIN Append(q, c) = 1..(Len(q) + 1)
  OBVIOUS
<1>2. ASSUME NEW k \in 1..(Len(q) + 1)
      PROVE  Append(q, c)[k] = IF k = Len(q) + 1 THEN c ELSE q[k]
  BY <1>1
<1>3. Append(q, c) \in Seq(S)
  OBVIOUS
<1>4. Append(q, c) # <<>>
  BY AppendProperties
<1>5. QED BY <1>1, <1>2, <1>3, <1>4

LEMMA TailIs ==
    ASSUME NEW S, NEW q \in Seq(S), q # <<>>
    PROVE  /\ Tail(q) \in Seq(S)
           /\ Len(q) = 1 <=> Tail(q) = <<>>
           /\ \A k \in DOMAIN Tail(q) : k + 1 \in DOMAIN q /\ Tail(q)[k] = q[k + 1]
<1>1. Len(q) \in Nat /\ Len(q) # 0 /\ DOMAIN q = 1..Len(q)
  OBVIOUS
<1>2. Len(Tail(q)) = Len(q) - 1
  BY <1>1
<1>3. Tail(q) \in Seq(S) /\ DOMAIN Tail(q) = 1..(Len(q) - 1)
  BY <1>2
<1>4. ASSUME NEW k \in 1..(Len(q) - 1) PROVE k + 1 \in 1..Len(q) /\ Tail(q)[k] = q[k + 1]
  BY <1>1
<1>5. Tail(q) = <<>> <=> Len(Tail(q)) = 0
  BY <1>3, EmptySeq
<1>6. Len(q) = 1 <=> Tail(q) = <<>>
  BY <1>1, <1>2, <1>5
<1>7. QED BY <1>1, <1>3, <1>4, <1>6

LEMMA HandlerInvStep ==
    TypeOK /\ StepInv /\ HandlerInv /\ TypeOK' /\ [Next]_vars => HandlerInv'
<1> SUFFICES ASSUME TypeOK, StepInv, HandlerInv, TypeOK', [Next]_vars PROVE HandlerInv'
  OBVIOUS
<1>t. /\ hpc \in [Handler -> {"idle", "open", "logging"}]
      /\ pending \in [Handler -> Seq(Change)]
  BY DEF TypeOK
<1>1. CASE UNCHANGED <<hpc, pending>>
  BY ONLY <1>1, HandlerInv DEF HandlerInv
<1>2. ASSUME NEW h \in Handler, NEW q \in Seq(Change), NEW p \in {"idle", "open", "logging"},
             hpc' = [hpc EXCEPT ![h] = p], pending' = [pending EXCEPT ![h] = q],
             p = "idle" <=> q = <<>>,
             \A k \in DOMAIN q : Author[q[k]] = HomeOf[h]
      PROVE  HandlerInv'
  BY ONLY <1>2, <1>t, HandlerInv DEF HandlerInv
<1>3. ASSUME NEW h \in Handler, NEW c \in Change, Write(h, c) PROVE HandlerInv'
  <2> DEFINE q == Append(pending[h], c)
  <2>1. /\ hpc' = [hpc EXCEPT ![h] = "open"] /\ pending' = [pending EXCEPT ![h] = q]
        /\ Author[c] = HomeOf[h]
    BY <1>3 DEF Write
  <2>2. q \in Seq(Change) /\ q # <<>>
    BY ONLY <1>t, AppendIs, h \in Handler, c \in Change
  <2>3. \A k \in DOMAIN q : Author[q[k]] = HomeOf[h]
    <3>1. \A k \in DOMAIN pending[h] : Author[pending[h][k]] = HomeOf[h]
      BY DEF HandlerInv
    <3>2. pending[h] \in Seq(Change)
      BY <1>t
    <3>3. \A k \in DOMAIN q : q[k] = c \/ (k \in DOMAIN pending[h] /\ q[k] = pending[h][k])
      <4>1. \A r \in Seq(Change) : \A k \in DOMAIN Append(r, c) :
               \/ Append(r, c)[k] = c
               \/ k \in DOMAIN r /\ Append(r, c)[k] = r[k]
        BY ONLY AppendIs, c \in Change
      <4>2. QED BY ONLY <3>2, <4>1
    <3>4. QED BY ONLY <2>1, <3>1, <3>3
  <2> HIDE DEF q
  <2>4. QED BY <1>2, <2>1, <2>2, <2>3
<1>4. ASSUME NEW h \in Handler, NEW c \in Change, AutoCommitWrite(h, c) PROVE HandlerInv'
  <2>1. /\ hpc' = [hpc EXCEPT ![h] = "logging"] /\ pending' = [pending EXCEPT ![h] = <<c>>]
        /\ Author[c] = HomeOf[h]
    BY <1>4 DEF AutoCommitWrite
  <2>2. <<c>> \in Seq(Change) /\ <<c>> # <<>> /\ \A k \in DOMAIN <<c>> : Author[<<c>>[k]] = HomeOf[h]
    BY <2>1
  <2>3. QED BY <1>2, <2>1, <2>2
<1>5. ASSUME NEW h \in Handler, Rollback(h) PROVE HandlerInv'
  <2>1. hpc' = [hpc EXCEPT ![h] = "idle"] /\ pending' = [pending EXCEPT ![h] = <<>>]
    BY <1>5 DEF Rollback
  <2>2. QED BY ONLY <1>t, <2>1, HandlerInv, h \in Handler DEF HandlerInv
<1>6. ASSUME NEW h \in Handler, Commit(h) PROVE HandlerInv'
  <2>1. hpc[h] = "open" /\ hpc' = [hpc EXCEPT ![h] = "logging"] /\ UNCHANGED pending
    BY <1>6 DEF Commit
  <2>2. QED BY ONLY <1>t, <2>1, HandlerInv, h \in Handler DEF HandlerInv
<1>7. ASSUME NEW h \in Handler, TakeId(h) PROVE HandlerInv'
  <2>1. UNCHANGED <<hpc, pending>>
    BY <1>7 DEF TakeId
  <2>2. QED BY <1>1, <2>1
<1>8. ASSUME NEW h \in Handler, InsertLog(h) \/ InsertLogBusy(h) PROVE HandlerInv'
  <2> DEFINE q == Tail(pending[h])
             p == IF Len(pending[h]) = 1 THEN "idle" ELSE "logging"
  <2>1. /\ hpc[h] = "logging" /\ pending' = [pending EXCEPT ![h] = q]
        /\ hpc' = [hpc EXCEPT ![h] = p]
    BY <1>8 DEF InsertLog, InsertLogBusy, LogNext
  <2>2. /\ pending[h] \in Seq(Change) /\ pending[h] # <<>>
        /\ \A k \in DOMAIN pending[h] : Author[pending[h][k]] = HomeOf[h]
    BY <1>t, <2>1 DEF HandlerInv
  <2>3. q \in Seq(Change) /\ (p = "idle" <=> q = <<>>)
    BY ONLY <2>2, TailIs
  <2>4. \A k \in DOMAIN q : Author[q[k]] = HomeOf[h]
    <3>1. \A k \in DOMAIN q : k + 1 \in DOMAIN pending[h] /\ q[k] = pending[h][k + 1]
      BY ONLY <2>2, TailIs
    <3>2. QED BY ONLY <2>2, <3>1
  <2>5. p \in {"idle", "open", "logging"}
    OBVIOUS
  <2> HIDE DEF p, q
  <2>6. QED BY <1>2, <2>1, <2>3, <2>4, <2>5
<1>9. ASSUME NEW s \in Server, Crash(s) PROVE HandlerInv'
  <2>1. \A h \in Handler :
           \/ hpc'[h] = "idle" /\ pending'[h] = <<>>
           \/ hpc'[h] = hpc[h] /\ pending'[h] = pending[h]
    BY <1>9 DEF Crash
  <2>2. QED BY ONLY <2>1, HandlerInv DEF HandlerInv
<1>10. ASSUME NEW s \in Server, NEW m \in Server, Start(s, m) \/ Pushed(s, m) \/ ConnLost(s, m)
       PROVE  HandlerInv'
  <2>1. UNCHANGED <<hpc, pending>>
    BY ONLY <1>10 DEF Start, Pushed, ConnLost, request
  <2>2. QED BY <1>1, <2>1
<1>11. ASSUME NEW s \in Server,
              \/ Fetch(s) \/ InsertRow(s) \/ SaveLastId(s) \/ Load(s) \/ Run(s) \/ RunRejected(s)
              \/ Mark(s) \/ FetchFails(s) \/ InsertRowBusy(s) \/ RunFails(s) \/ MarkBusy(s)
       PROVE  HandlerInv'
  <2>1. UNCHANGED <<hpc, pending>>
    BY ONLY <1>11 DEF Fetch, InsertRow, SaveLastId, Load, Run, RunRejected, Mark, FetchFails,
                      InsertRowBusy, RunFails, MarkBusy, GiveUp, Panic, request
  <2>2. QED BY <1>1, <2>1
<1>12. CASE UNCHANGED vars
  <2>1. UNCHANGED <<hpc, pending>>
    BY ONLY <1>12 DEF vars, request
  <2>2. QED BY <1>1, <2>1
<1>13. QED
  BY <1>3, <1>4, <1>5, <1>6, <1>7, <1>8, <1>9, <1>10, <1>11, <1>12
     DEF Next, HandlerStep, SyncStep

-----------------------------------------------------------------------------
(* What follows for every behaviour.                                       *)

BaseInv == TypeOK /\ StepInv /\ HandlerInv

LEMMA BaseStep == BaseInv /\ [Next]_vars => BaseInv'
  BY TypeStep, KeptStep, StepStep, HandlerInvStep DEF BaseInv

LEMMA BaseHolds == Spec => []BaseInv
<1>1. Init => BaseInv
  BY TypeInit DEF BaseInv
<1>2. QED BY <1>1, BaseStep, PTL DEF Spec

\* Every variable keeps its type.
THEOREM TypeCorrect == Spec => []TypeOK
<1>1. BaseInv => TypeOK
  BY DEF BaseInv
<1>2. QED BY <1>1, BaseHolds, PTL

\* No step of a request, of a listener or of a crash takes back what a database
\* reflects, or loses, changes or unmarks a log row, and only Mark marks a row
\* that was there.
THEOREM NothingTakenBack == Spec => [][Kept]_vars
<1>1. BaseInv /\ [Next]_vars => Kept
  BY KeptStep DEF BaseInv
<1>2. QED BY <1>1, BaseHolds, PTL DEF Spec
-----------------------------------------------------------------------------
(* Where rows, marks and reflected statements come from.                   *)

\* A new row is the first statement a request of the server still has to log,
\* marked at once, or a copy of another server's row.
Stored ==
    \A u \in Server, i \in Id : log[u][i] = None /\ log'[u][i] # None =>
        \/ \E h \in Handler : /\ HomeOf[h] = u /\ hpc[h] = "logging"
                             /\ log'[u][i] = pending[h][1] /\ i \in ran'[u]
        \/ \E m \in Server : i \in Rows(m) /\ log'[u][i] = log[m][i]

\* A new mark is that of such a row, or of the row whose statement just ran.
Marked ==
    \A u \in Server : \A i \in ran'[u] \ ran[u] :
        \/ \E h \in Handler : /\ HomeOf[h] = u /\ hpc[h] = "logging"
                             /\ log'[u][i] = pending[h][1]
        \/ step[u] = "mark" /\ i = Current(u)

\* What a database newly reflects a request of the server wrote, or it is the
\* statement of the row that runs.
Grown ==
    \A u \in Server : \A c \in data'[u] \ data[u] :
        \/ Author[c] = u
        \/ step[u] = "run" /\ c = log[u][Current(u)]

LEMMA Origins == BaseInv /\ [Next]_vars => Stored /\ Marked /\ Grown
<1> SUFFICES ASSUME TypeOK, StepInv, HandlerInv, [Next]_vars PROVE Stored /\ Marked /\ Grown
  BY DEF BaseInv
<1>t. /\ data \in [Server -> SUBSET Change] /\ ran \in [Server -> SUBSET Id]
      /\ log \in [Server -> [Id -> Change \cup {None}]]
  BY DEF TypeOK
<1>1. ASSUME UNCHANGED log PROVE Stored
  BY ONLY <1>1 DEF Stored
<1>2. ASSUME UNCHANGED ran PROVE Marked
  BY ONLY <1>2 DEF Marked
<1>3. ASSUME UNCHANGED data PROVE Grown
  BY ONLY <1>3 DEF Grown
<1>4. CASE UNCHANGED <<data, log, ran>>
  BY <1>1, <1>2, <1>3, <1>4
<1>5. ASSUME NEW h \in Handler, NEW c \in Change, AutoCommitWrite(h, c)
      PROVE  Stored /\ Marked /\ Grown
  <2>1. /\ UNCHANGED <<log, ran>> /\ Author[c] = HomeOf[h]
        /\ data' = [data EXCEPT ![HomeOf[h]] = @ \cup {c}]
    BY <1>5 DEF AutoCommitWrite
  <2>2. Grown
    BY ONLY <1>t, <2>1 DEF Grown
  <2>3. QED BY <1>1, <1>2, <2>1, <2>2
<1>6. ASSUME NEW h \in Handler, Commit(h) PROVE Stored /\ Marked /\ Grown
  <2> DEFINE new == {pending[h][k] : k \in DOMAIN pending[h]}
  <2>1. /\ UNCHANGED <<log, ran>>
        /\ data' = data \/ data' = [data EXCEPT ![HomeOf[h]] = @ \cup new]
    BY <1>6 DEF Commit
  <2>2. \A c \in new : Author[c] = HomeOf[h]
    BY DEF HandlerInv
  <2> HIDE DEF new
  <2>3. Grown
    BY ONLY <1>t, <2>1, <2>2 DEF Grown
  <2>4. QED BY <1>1, <1>2, <2>1, <2>3
<1>7. ASSUME NEW h \in Handler, InsertLog(h) PROVE Stored /\ Marked /\ Grown
  <2> DEFINE home == HomeOf[h]
             j == newId[h]
             c == Head(pending[h])
  <2>1. /\ UNCHANGED data /\ hpc[h] = "logging" /\ home = HomeOf[h]
        /\ \/ UNCHANGED <<log, ran>>
           \/ /\ log' = [log EXCEPT ![home] = [log[home] EXCEPT ![j] = c]]
              /\ ran' = [ran EXCEPT ![home] = @ \cup {j}]
    BY <1>7 DEF InsertLog
  <2>2. home \in Server /\ j \in Id /\ c \in Change /\ c = pending[h][1]
    <3>1. newId[h] \in 0..MaxId /\ newId[h] # 0
      BY <1>7 DEF InsertLog, TypeOK
    <3>2. j \in Id
      BY <3>1 DEF Id
    <3>3. QED BY <3>2, <2>1, Facts
  <2> HIDE DEF home, j, c
  <2>3. \A u \in Server, i \in Id : log'[u][i] # log[u][i] =>
           u = home /\ i = j /\ log'[u][i] = c /\ j \in ran'[home]
    BY ONLY <1>t, <2>1, <2>2
  <2>4. \A u \in Server, i \in Id : i \in ran'[u] \ ran[u] =>
           u = home /\ i = j /\ log'[u][i] = c
    BY ONLY <1>t, <2>1, <2>2
  <2>5. Stored
    BY ONLY <2>1, <2>2, <2>3, h \in Handler DEF Stored
  <2>6. Marked
    <3>1. \A u \in Server : ran'[u] \subseteq Id
      BY ONLY <1>t, <2>1, <2>2
    <3>2. QED BY ONLY <2>1, <2>2, <2>4, <3>1, h \in Handler DEF Marked
  <2>7. QED BY <1>3, <2>1, <2>5, <2>6
<1>8. ASSUME NEW s \in Server, InsertRow(s) PROVE Stored /\ Marked /\ Grown
  <2> DEFINE j == Least(answer[s])
             c == log[lock[s]][j]
  <2>1. /\ UNCHANGED <<data, ran>>
        /\ log' = log \/ log' = [log EXCEPT ![s] = [log[s] EXCEPT ![j] = c]]
    BY <1>8 DEF InsertRow
  <2>2. j \in Id /\ lock[s] \in Server /\ j \in Rows(lock[s]) /\ c = log[lock[s]][j]
    BY <1>8, Facts DEF InsertRow, StepInv, WorkInv
  <2> HIDE DEF j, c
  <2>3. \A u \in Server, i \in Id : log'[u][i] # log[u][i] => u = s /\ i = j /\ log'[u][i] = c
    BY ONLY <1>t, <2>1, <2>2, s \in Server
  <2>4. Stored
    BY ONLY <2>2, <2>3 DEF Stored
  <2>5. QED BY <1>2, <1>3, <2>1, <2>4
<1>9. ASSUME NEW s \in Server, Run(s) PROVE Stored /\ Marked /\ Grown
  <2>1. /\ UNCHANGED <<log, ran>> /\ step[s] = "run"
        /\ data' = [data EXCEPT ![s] = @ \cup {log[s][Current(s)]}]
    BY <1>9 DEF Run
  <2>2. Grown
    BY ONLY <1>t, <2>1 DEF Grown
  <2>3. QED BY <1>1, <1>2, <2>1, <2>2
<1>10. ASSUME NEW s \in Server, Mark(s) PROVE Stored /\ Marked /\ Grown
  <2>1. /\ UNCHANGED <<data, log>> /\ step[s] = "mark"
        /\ ran' = [ran EXCEPT ![s] = @ \cup {Current(s)}]
    BY <1>10 DEF Mark
  <2>2. Marked
    BY ONLY <1>t, <2>1 DEF Marked
  <2>3. QED BY <1>1, <1>3, <2>1, <2>2
<1>11. QED
  BY <1>4, <1>5, <1>6, <1>7, <1>8, <1>9, <1>10, Kinds

-----------------------------------------------------------------------------
(* Rows are copies of their author's, whatever the commits do.             *)

LEMMA RowStep == BaseInv /\ RowInv /\ [Next]_vars => RowInv'
<1> SUFFICES ASSUME BaseInv, RowInv, [Next]_vars, TypeOK',
                    NEW s \in Server, NEW i \in Id, log'[s][i] # None
             PROVE  /\ log'[Author[log'[s][i]]][i] = log'[s][i]
                    /\ i \in ran'[Author[log'[s][i]]]
  BY BaseStep DEF BaseInv, RowInv, Rows
<1>1. Kept /\ Stored
  BY KeptStep, Origins DEF BaseInv
<1>2. \A m \in Server : i \in Rows(m) =>
         LET a == Author[log[m][i]] IN
           /\ a \in Server /\ log'[m][i] = log[m][i]
           /\ log'[a][i] = log[m][i] /\ i \in ran'[a]
  <2> SUFFICES ASSUME NEW m \in Server, i \in Rows(m)
               PROVE  LET a == Author[log[m][i]] IN
                        /\ a \in Server /\ log'[m][i] = log[m][i]
                        /\ log'[a][i] = log[m][i] /\ i \in ran'[a]
    OBVIOUS
  <2>1. log[m][i] \in Change
    BY DEF BaseInv, TypeOK, Rows
  <2>2. Author[log[m][i]] \in Server
    BY <2>1
  <2>3. /\ log[Author[log[m][i]]][i] = log[m][i] /\ i \in ran[Author[log[m][i]]]
        /\ log[m][i] # None
    BY DEF RowInv, Rows
  <2>4. i \in Rows(Author[log[m][i]])
    BY <2>3 DEF Rows
  <2>5. QED BY <1>1, <2>2, <2>3, <2>4 DEF Kept
<1>3. CASE i \in Rows(s)
  BY <1>2, <1>3
<1>4. CASE i \notin Rows(s)
  <2>1. log[s][i] = None
    BY <1>4 DEF Rows
  <2>2. CASE \E m \in Server : i \in Rows(m) /\ log'[s][i] = log[m][i]
    BY <1>2, <2>2
  <2>3. CASE \E h \in Handler : /\ HomeOf[h] = s /\ hpc[h] = "logging"
                              /\ log'[s][i] = pending[h][1] /\ i \in ran'[s]
    <3>1. PICK h \in Handler : /\ HomeOf[h] = s /\ hpc[h] = "logging"
                              /\ log'[s][i] = pending[h][1] /\ i \in ran'[s]
      BY <2>3
    <3>2. 1 \in DOMAIN pending[h]
      BY <3>1, Facts DEF BaseInv
    <3>3. Author[pending[h][1]] = s
      BY <3>1, <3>2 DEF BaseInv, HandlerInv
    <3>4. QED BY <3>1, <3>3
  <2>4. QED BY <1>1, <2>1, <2>2, <2>3 DEF Stored
<1>5. QED BY <1>3, <1>4

LEMMA RowHolds == Spec => [](BaseInv /\ RowInv)
<1>1. Init => RowInv
  BY DEF Init, RowInv, Rows
<1>2. QED BY <1>1, RowStep, BaseHolds, PTL DEF Spec

\* A server never runs a row of its own that came back from a master.
THEOREM NoEchoHolds == Spec => []NoEcho
<1>1. BaseInv /\ RowInv => NoEcho
  <2> SUFFICES ASSUME BaseInv, RowInv, NEW s \in Server, step[s] \in {"run", "mark"},
                      Author[log[s][Current(s)]] = s
               PROVE  FALSE
    BY DEF NoEcho
  <2>1. Current(s) \in batch[s]
    BY Facts DEF BaseInv
  <2>2. Current(s) \in NotRun(s)
    BY <2>1 DEF BaseInv, StepInv, WorkInv
  <2>3. QED BY <2>2 DEF RowInv, NotRun
<1>2. QED BY <1>1, RowHolds, PTL
-----------------------------------------------------------------------------
(* When tx.Commit does not fail: what is logged was committed, what is marked *)
(* was run.                                                                *)

\* A goroutine logs a list that it just committed, or the rest of its list.
LoggingFrom(h) ==
    \/ hpc[h] = "logging" /\ pending'[h] = pending[h]
    \/ hpc[h] = "logging" /\ pending'[h] = Tail(pending[h])
    \/ Commit(h)
    \/ \E c \in Change : AutoCommitWrite(h, c)

LEMMA LoggingKinds ==
    ASSUME BaseInv, [Next]_vars, NEW h \in Handler, hpc'[h] = "logging"
    PROVE  LoggingFrom(h)
<1>t. /\ hpc \in [Handler -> {"idle", "open", "logging"}]
      /\ pending \in [Handler -> Seq(Change)]
  BY DEF BaseInv, TypeOK
<1>1. ASSUME hpc'[h] = hpc[h], pending'[h] = pending[h] PROVE LoggingFrom(h)
  BY <1>1 DEF LoggingFrom
<1>2. ASSUME NEW g \in Handler, NEW p, NEW q, hpc' = [hpc EXCEPT ![g] = p],
             pending' = [pending EXCEPT ![g] = q], p # "logging"
      PROVE  LoggingFrom(h)
  <2>1. g # h /\ hpc'[h] = hpc[h] /\ pending'[h] = pending[h]
    BY ONLY <1>t, <1>2, hpc'[h] = "logging", h \in Handler
  <2>2. QED BY <1>1, <2>1
<1>3. ASSUME NEW g \in Handler, NEW c \in Change, Write(g, c) PROVE LoggingFrom(h)
  BY <1>2, <1>3 DEF Write
<1>4. ASSUME NEW g \in Handler, Rollback(g) PROVE LoggingFrom(h)
  BY <1>2, <1>4 DEF Rollback
<1>5. ASSUME NEW g \in Handler, NEW c \in Change, AutoCommitWrite(g, c) PROVE LoggingFrom(h)
  <2>1. CASE g = h
    BY <1>5, <2>1 DEF LoggingFrom
  <2>2. CASE g # h
    <3>1. hpc'[h] = hpc[h] /\ pending'[h] = pending[h]
      BY <1>5, <1>t, <2>2 DEF AutoCommitWrite
    <3>2. QED BY <1>1, <3>1
  <2>3. QED BY <2>1, <2>2
<1>6. ASSUME NEW g \in Handler, Commit(g) PROVE LoggingFrom(h)
  <2>1. CASE g = h
    BY <1>6, <2>1 DEF LoggingFrom
  <2>2. CASE g # h
    <3>1. hpc'[h] = hpc[h] /\ pending'[h] = pending[h]
      BY <1>6, <1>t, <2>2 DEF Commit
    <3>2. QED BY <1>1, <3>1
  <2>3. QED BY <2>1, <2>2
<1>7. ASSUME NEW g \in Handler, InsertLog(g) \/ InsertLogBusy(g) PROVE LoggingFrom(h)
  <2>1. hpc[g] = "logging" /\ pending' = [pending EXCEPT ![g] = Tail(@)]
        /\ \E p : hpc' = [hpc EXCEPT ![g] = p]
    BY <1>7 DEF InsertLog, InsertLogBusy, LogNext
  <2>2. CASE g = h
    BY ONLY <1>t, <2>1, <2>2, h \in Handler DEF LoggingFrom
  <2>3. CASE g # h
    <3>1. hpc'[h] = hpc[h] /\ pending'[h] = pending[h]
      BY ONLY <1>t, <2>1, <2>3
    <3>2. QED BY <1>1, <3>1
  <2>4. QED BY <2>2, <2>3
<1>8. ASSUME NEW s \in Server, Crash(s) PROVE LoggingFrom(h)
  <2>1. hpc'[h] = "idle" \/ (hpc'[h] = hpc[h] /\ pending'[h] = pending[h])
    BY <1>8 DEF Crash
  <2>2. QED BY <1>1, <2>1
<1>9. ASSUME UNCHANGED <<hpc, pending>> PROVE LoggingFrom(h)
  BY <1>1, <1>9
<1>10. ASSUME NEW g \in Handler, TakeId(g) PROVE LoggingFrom(h)
  BY <1>9, <1>10 DEF TakeId
<1>11. ASSUME NEW s \in Server, NEW m \in Server, Start(s, m) \/ Pushed(s, m) \/ ConnLost(s, m)
       PROVE  LoggingFrom(h)
  <2>1. UNCHANGED <<hpc, pending>>
    BY ONLY <1>11 DEF Start, Pushed, ConnLost, request
  <2>2. QED BY <1>9, <2>1
<1>12. ASSUME NEW s \in Server,
              \/ Fetch(s) \/ InsertRow(s) \/ SaveLastId(s) \/ Load(s) \/ Run(s) \/ RunRejected(s)
              \/ Mark(s) \/ FetchFails(s) \/ InsertRowBusy(s) \/ RunFails(s) \/ MarkBusy(s)
       PROVE  LoggingFrom(h)
  <2>1. UNCHANGED <<hpc, pending>>
    BY ONLY <1>12 DEF Fetch, InsertRow, SaveLastId, Load, Run, RunRejected, Mark, FetchFails,
                      InsertRowBusy, RunFails, MarkBusy, GiveUp, Panic, request
  <2>2. QED BY <1>9, <2>1
<1>13. CASE UNCHANGED vars
  BY <1>9, <1>13 DEF vars, request
<1>14. QED
  BY ONLY <1>3, <1>4, <1>5, <1>6, <1>7, <1>8, <1>10, <1>11, <1>12, <1>13, [Next]_vars
     DEF Next, HandlerStep, SyncStep

\* The row to be marked is the one that ran.
MarkingFrom(s) == Run(s) \/ (step[s] = "mark" /\ batch'[s] = batch[s])

LEMMA MarkingKinds ==
    ASSUME BaseInv, [Next]_vars, NEW s \in Server, step'[s] = "mark"
    PROVE  MarkingFrom(s)
<1>t. /\ step \in [Server -> {"free", "fetch", "insert", "save", "load", "run", "mark"}]
      /\ batch \in [Server -> SUBSET Id]
  BY DEF BaseInv, TypeOK
<1>1. ASSUME step'[s] = step[s], batch'[s] = batch[s] PROVE MarkingFrom(s)
  BY <1>1 DEF MarkingFrom
<1>2. ASSUME NEW u \in Server, NEW p, p # "mark", step' = [step EXCEPT ![u] = p],
             \A t \in Server \ {u} : batch'[t] = batch[t]
      PROVE  MarkingFrom(s)
  <2>1. u # s /\ step'[s] = step[s] /\ batch'[s] = batch[s]
    BY ONLY <1>t, <1>2, step'[s] = "mark", s \in Server
  <2>2. QED BY <1>1, <2>1
<1>3. ASSUME NEW u \in Server, Release(u) PROVE MarkingFrom(s)
  <2>1. step' = [step EXCEPT ![u] = "free"] /\ batch' = [batch EXCEPT ![u] = {}]
    BY <1>3 DEF Release
  <2>2. \A t \in Server \ {u} : batch'[t] = batch[t]
    BY ONLY <1>t, <2>1
  <2>3. QED BY <1>2, <2>1, <2>2
<1>4. ASSUME NEW h \in Handler,
             HandlerStep(h) \/ Rollback(h) \/ InsertLogBusy(h)
               \/ \E c \in Change : Write(h, c) \/ AutoCommitWrite(h, c)
      PROVE  MarkingFrom(s)
  <2>1. UNCHANGED <<step, batch>>
    BY <1>4 DEF HandlerStep, Commit, TakeId, InsertLog, Rollback, InsertLogBusy,
                Write, AutoCommitWrite, sync
  <2>2. QED BY <1>1, <2>1
<1>5. ASSUME NEW u \in Server, NEW m \in Server, Start(u, m) \/ Pushed(u, m) PROVE MarkingFrom(s)
  <2>1. step' = [step EXCEPT ![u] = "fetch"] /\ UNCHANGED batch
    BY <1>5 DEF Start, Pushed, Goto
  <2>2. QED BY <1>2, <2>1
<1>6. ASSUME NEW u \in Server, NEW m \in Server, ConnLost(u, m) PROVE MarkingFrom(s)
  BY <1>1, <1>6 DEF ConnLost
<1>7. ASSUME NEW u \in Server, Fetch(u) \/ SaveLastId(u) \/ InsertRow(u) PROVE MarkingFrom(s)
  <2>1. /\ UNCHANGED batch
        /\ \/ UNCHANGED step
           \/ \E p \in {"load", "insert", "save"} : step' = [step EXCEPT ![u] = p]
    BY <1>7 DEF Fetch, SaveLastId, InsertRow, Goto
  <2>2. \A t \in Server : batch'[t] = batch[t]
    BY ONLY <2>1
  <2>3. CASE UNCHANGED step
    BY <1>1, <2>2, <2>3
  <2>4. CASE \E p \in {"load", "insert", "save"} : step' = [step EXCEPT ![u] = p]
    BY <1>2, <2>2, <2>4
  <2>5. QED BY ONLY <2>1, <2>3, <2>4
<1>8. ASSUME NEW u \in Server, Load(u) PROVE MarkingFrom(s)
  <2>1. CASE Release(u)
    BY <1>3, <2>1
  <2>2. CASE ~Release(u)
    <3>1. /\ \E p \in {"run", "fetch"} : step' = [step EXCEPT ![u] = p]
          /\ batch' = batch \/ \E b : batch' = [batch EXCEPT ![u] = b]
      BY <1>8, <2>2 DEF Load, Goto
    <3>2. \A t \in Server \ {u} : batch'[t] = batch[t]
      BY ONLY <1>t, <3>1
    <3>3. QED BY <1>2, <3>1, <3>2
  <2>3. QED BY <2>1, <2>2
<1>9. ASSUME NEW u \in Server, Run(u) PROVE MarkingFrom(s)
  <2>1. CASE u = s
    BY <1>9, <2>1 DEF MarkingFrom
  <2>2. CASE u # s
    <3>1. step'[s] = step[s] /\ batch'[s] = batch[s]
      BY <1>9, <1>t, <2>2 DEF Run, Goto
    <3>2. QED BY <1>1, <3>1
  <2>3. QED BY <2>1, <2>2
<1>10. ASSUME NEW u \in Server, Mark(u) \/ MarkBusy(u) PROVE MarkingFrom(s)
  <2>1. /\ \E p \in {"run", "load"} : step' = [step EXCEPT ![u] = p]
        /\ batch' = [batch EXCEPT ![u] = @ \ {Current(u)}]
    BY <1>10 DEF Mark, MarkBusy, Advance, Goto
  <2>2. \A t \in Server \ {u} : batch'[t] = batch[t]
    BY ONLY <1>t, <2>1
  <2>3. QED BY <1>2, <2>1, <2>2
<1>11. ASSUME NEW u \in Server,
              \/ RunRejected(u) \/ FetchFails(u) \/ InsertRowBusy(u) \/ RunFails(u) \/ Crash(u)
       PROVE  MarkingFrom(s)
  <2>1. Release(u)
    BY <1>11 DEF RunRejected, FetchFails, InsertRowBusy, RunFails, Crash, GiveUp, Panic
  <2>2. QED BY <1>3, <2>1
<1>12. CASE UNCHANGED vars
  BY <1>1, <1>12 DEF vars, sync
<1>13. QED
  BY ONLY <1>4, <1>5, <1>6, <1>7, <1>8, <1>9, <1>10, <1>11, <1>12, [Next]_vars
     DEF Next, SyncStep

LEMMA CommitStep ==
    ASSUME FaultyCommit = FALSE
    PROVE  BaseInv /\ CommitInv /\ [Next]_vars => CommitInv'
<1> SUFFICES ASSUME BaseInv, CommitInv, [Next]_vars, NEW h \in Handler, hpc'[h] = "logging",
                    NEW k \in DOMAIN pending'[h]
             PROVE  pending'[h][k] \in data'[HomeOf[h]]
  BY DEF CommitInv
<1>1. data[HomeOf[h]] \subseteq data'[HomeOf[h]]
  BY KeptStep DEF BaseInv, Kept
<1>2. CASE hpc[h] = "logging" /\ pending'[h] = pending[h]
  BY <1>1, <1>2 DEF CommitInv
<1>3. CASE hpc[h] = "logging" /\ pending'[h] = Tail(pending[h])
  <2>1. pending[h] \in Seq(Change) /\ pending[h] # <<>>
    BY <1>3 DEF BaseInv, TypeOK, HandlerInv
  <2>2. k + 1 \in DOMAIN pending[h] /\ Tail(pending[h])[k] = pending[h][k + 1]
    BY <1>3, <2>1, TailIs
  <2>3. pending[h][k + 1] \in data[HomeOf[h]]
    BY <1>3, <2>2 DEF CommitInv
  <2>4. QED BY <1>1, <1>3, <2>2, <2>3
<1>4. CASE Commit(h)
  <2>1. /\ data' = [data EXCEPT ![HomeOf[h]] = @ \cup {pending[h][n] : n \in DOMAIN pending[h]}]
        /\ UNCHANGED pending
    BY <1>4, FaultyCommit = FALSE DEF Commit
  <2>2. data \in [Server -> SUBSET Change] /\ HomeOf[h] \in Server
    BY DEF BaseInv, TypeOK
  <2>3. QED BY ONLY <2>1, <2>2, k \in DOMAIN pending'[h]
<1>5. CASE \E c \in Change : AutoCommitWrite(h, c)
  <2>1. PICK c \in Change : AutoCommitWrite(h, c)
    BY <1>5
  <2>2. data' = [data EXCEPT ![HomeOf[h]] = @ \cup {c}] /\ pending' = [pending EXCEPT ![h] = <<c>>]
    BY <2>1 DEF AutoCommitWrite
  <2>3. data \in [Server -> SUBSET Change] /\ pending \in [Handler -> Seq(Change)]
        /\ HomeOf[h] \in Server
    BY DEF BaseInv, TypeOK
  <2>4. pending'[h] = <<c>> /\ c \in data'[HomeOf[h]]
    BY ONLY <2>2, <2>3, h \in Handler
  <2>5. QED BY <2>4
<1>6. QED BY <1>2, <1>3, <1>4, <1>5, LoggingKinds DEF LoggingFrom

LEMMA AppliedStep == BaseInv /\ CommitInv /\ AppliedInv /\ [Next]_vars => AppliedInv'
<1> SUFFICES ASSUME BaseInv, CommitInv, AppliedInv, [Next]_vars, NEW s \in Server
             PROVE  /\ ran'[s] \subseteq Rows(s)'
                    /\ \A i \in ran'[s] : log'[s][i] \in data'[s]
                    /\ step'[s] = "mark" => log'[s][Current(s)'] \in data'[s]
  BY DEF AppliedInv
<1>1. Kept /\ Marked /\ BaseInv'
  BY KeptStep, Origins, BaseStep DEF BaseInv
<1>2. data[s] \subseteq data'[s] /\ \A i \in Rows(s) : log'[s][i] = log[s][i]
  BY <1>1 DEF Kept
<1>3. step[s] \in {"run", "mark"} => Current(s) \in Rows(s)
  BY Facts DEF BaseInv, StepInv, WorkInv, NotRun
<1>4. ASSUME NEW i \in ran'[s] PROVE log'[s][i] \in data'[s]
  <2>1. CASE i \in ran[s]
    BY <1>2, <2>1 DEF AppliedInv
  <2>2. CASE step[s] = "mark" /\ i = Current(s)
    BY <1>2, <1>3, <2>2 DEF AppliedInv
  <2>3. CASE \E h \in Handler : /\ HomeOf[h] = s /\ hpc[h] = "logging"
                              /\ log'[s][i] = pending[h][1]
    <3>1. PICK h \in Handler : /\ HomeOf[h] = s /\ hpc[h] = "logging"
                              /\ log'[s][i] = pending[h][1]
      BY <2>3
    <3>2. 1 \in DOMAIN pending[h]
      BY <3>1, Facts DEF BaseInv
    <3>3. pending[h][1] \in data[s]
      BY <3>1, <3>2 DEF CommitInv
    <3>4. QED BY <1>2, <3>1, <3>3
  <2>4. QED BY <1>1, <2>1, <2>2, <2>3 DEF Marked
<1>5. ran'[s] \subseteq Rows(s)'
  <2>1. \A i \in ran'[s] : i \in Id /\ log'[s][i] \in Change
    BY <1>1, <1>4 DEF BaseInv, TypeOK
  <2>2. QED BY <2>1 DEF Rows
<1>6. ASSUME step'[s] = "mark" PROVE log'[s][Current(s)'] \in data'[s]
  <2>1. CASE Run(s)
    <3>1. /\ step[s] = "run" /\ UNCHANGED <<batch, log>>
          /\ data' = [data EXCEPT ![s] = @ \cup {log[s][Current(s)]}]
      BY <2>1 DEF Run
    <3>2. Current(s)' = Current(s)
      BY <3>1 DEF Current
    <3>3. data \in [Server -> SUBSET Change]
      BY DEF BaseInv, TypeOK
    <3>4. log[s][Current(s)] \in data'[s]
      BY ONLY <3>1, <3>3, s \in Server
    <3>5. QED BY <3>1, <3>2, <3>4
  <2>2. CASE step[s] = "mark" /\ batch'[s] = batch[s]
    <3>1. Current(s)' = Current(s)
      BY <2>2 DEF Current
    <3>2. log[s][Current(s)] \in data[s]
      BY <2>2 DEF AppliedInv
    <3>3. QED BY <1>2, <1>3, <2>2, <3>1, <3>2
  <2>3. QED BY <1>6, <2>1, <2>2, MarkingKinds DEF MarkingFrom
<1>7. QED BY <1>4, <1>5, <1>6

\* What a database reflects, its author's database does too.
LEMMA PhantomStep ==
    BaseInv /\ RowInv /\ AppliedInv /\ NoPhantom /\ [Next]_vars => NoPhantom'
<1> SUFFICES ASSUME BaseInv, RowInv, AppliedInv, NoPhantom, [Next]_vars,
                    NEW s \in Server, NEW c \in data'[s]
             PROVE  c \in data'[Author[c]]
  BY DEF NoPhantom
<1>1. Kept /\ Grown /\ BaseInv'
  BY KeptStep, Origins, BaseStep DEF BaseInv
<1>2. c \in Change /\ Author[c] \in Server
  BY <1>1 DEF BaseInv, TypeOK
<1>3. data[Author[c]] \subseteq data'[Author[c]]
  BY <1>1, <1>2 DEF Kept
<1>4. CASE c \in data[s]
  BY <1>3, <1>4 DEF NoPhantom
<1>5. CASE Author[c] = s
  BY <1>5
<1>6. CASE step[s] = "run" /\ c = log[s][Current(s)]
  <2>1. Current(s) \in Rows(s)
    BY <1>6, Facts DEF BaseInv, StepInv, WorkInv, NotRun
  <2>2. log[Author[c]][Current(s)] = c /\ Current(s) \in ran[Author[c]]
    BY <1>6, <2>1 DEF RowInv
  <2>3. c \in data[Author[c]]
    BY <1>2, <2>2 DEF AppliedInv
  <2>4. QED BY <1>3, <2>3
<1>7. QED BY <1>1, <1>4, <1>5, <1>6 DEF Grown

LEMMA AppliedHolds ==
    ASSUME FaultyCommit = FALSE
    PROVE  Spec => [](BaseInv /\ RowInv /\ CommitInv /\ AppliedInv /\ NoPhantom)
<1>1. Init => CommitInv /\ AppliedInv /\ NoPhantom
  BY DEF Init, CommitInv, AppliedInv, NoPhantom
<1>2. BaseInv /\ CommitInv /\ [Next]_vars => CommitInv'
  BY CommitStep, FaultyCommit = FALSE
<1>3. QED BY <1>1, <1>2, AppliedStep, PhantomStep, RowHolds, PTL DEF Spec

\* When commits do not fail, a marked row stands for a statement the database
\* reflects, after any crashes, faults and interleavings.
THEOREM RanIsAppliedHolds ==
    ASSUME FaultyCommit = FALSE
    PROVE  Spec => []RanIsApplied
<1>1. AppliedInv => RanIsApplied
  BY DEF AppliedInv, RanIsApplied
<1>2. QED BY <1>1, AppliedHolds, FaultyCommit = FALSE, PTL

\* When commits do not fail, no database reflects a statement its author's does
\* not, whatever way the row took.
THEOREM NoPhantomHolds ==
    ASSUME FaultyCommit = FALSE
    PROVE  Spec => []NoPhantom
  BY AppliedHolds, FaultyCommit = FALSE, PTL
=============================================================================

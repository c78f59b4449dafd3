-------------------------- MODULE BankLifecycleProofs --------------------------
(***************************************************************************)
(* Theorems about the life of a bank server, for any number of servers,    *)
(* files, starts, crashes and transfers, and whatever the files hold.      *)
(***************************************************************************)
EXTENDS BankLifecycle, SequenceTheorems, TLAPS

(* The inductive invariant; BankLifecycle defines its parts.               *)
Inv ==
    /\ TypeOK /\ ExclusiveInv /\ ProgressInv /\ WholeInv /\ ListInv
    /\ ClientInv /\ ServerReachable /\ NothingLeftBehind /\ TableSurvives

-----------------------------------------------------------------------------
(* The names, their order, and the order of free_resources                 *)

(* The tuples, element by element.                                         *)
LEMMA Orders ==
    /\ DOMAIN Objects = 1 .. 4 /\ Len(Objects) = 4
    /\ Objects[1] = "client_lock" /\ Objects[2] = "server_lock"
    /\ Objects[3] = "read_lock" /\ Objects[4] = "bankmgr"
    /\ DOMAIN Released = 1 .. 6 /\ Len(Released) = 6
    /\ Released[1] = "bankmgr" /\ Released[2] = "client_lock"
    /\ Released[3] = "server_lock" /\ Released[4] = "read_lock"
    /\ Released[5] = "files" /\ Released[6] = "exc"
  BY DEF Objects, Released

(* The five names.                                                         *)
LEMMA NamesAre ==
    /\ Range(Objects) = {"client_lock", "server_lock", "read_lock", "bankmgr"}
    /\ Names = {"exc", "client_lock", "server_lock", "read_lock", "bankmgr"}
<1>1. Range(Objects) = {Objects[k] : k \in 1 .. 4}
  BY Orders DEF Range
<1>2. 1 .. 4 = {1, 2, 3, 4}
  OBVIOUS
<1>3. Range(Objects) = {Objects[1], Objects[2], Objects[3], Objects[4]}
  BY <1>1, <1>2
<1>4. QED
  BY <1>3, Orders DEF Names

-----------------------------------------------------------------------------
(* Types                                                                   *)

LEMMA OffType == Off \in ServerState
<1>1. << >> \in Seq(Account)
  OBVIOUS
<1>2. 0 \in 0 .. MaxStarts /\ 0 \in 0 .. MaxMoves
  BY LifecycleAssumption
<1>3. QED
  BY <1>1, <1>2 DEF Off, ServerState

(* What the files hold first are lines, and lines are accounts.            *)
LEMMA OpeningType ==
    /\ Opening \in Seq(Line) /\ Opening \in Seq(Account)
    /\ Seq(Line) \subseteq Seq(Account) /\ Len(Opening) \in Nat
<1>1. Line \subseteq Account
  BY DEF Line, Account
<1>2. Opening \in Seq(Line)
  BY LifecycleAssumption DEF Line
<1>3. QED
  BY <1>1, <1>2, SeqMonotonic, LenProperties

LEMMA InitType == Init => TypeOK
<1>1. SUFFICES ASSUME Init PROVE TypeOK
  OBVIOUS
<1>2. 0 \in 0 .. MaxStarts /\ 0 \in 0 .. MaxCrashes
  BY LifecycleAssumption
<1>3. NoClient \in [pc : {"off", "open", "on"}, handles : Seq(1 .. MaxStarts),
                   since : Nat]
  BY DEF NoClient
<1>4. QED
  BY <1>1, <1>2, <1>3, OffType, OpeningType DEF Init, TypeOK

(* Lines are accounts, and so are lines with account 0 before them.        *)
LEMMA ReadType ==
    ASSUME NEW lines \in Seq(Line), NEW b \in Int
    PROVE  /\ <<[nr |-> 0, balance |-> b]>> \o lines \in Seq(Account)
           /\ Len(<<[nr |-> 0, balance |-> b]>> \o lines) = Len(lines) + 1
           /\ (<<[nr |-> 0, balance |-> b]>> \o lines)[1].nr = 0
           /\ \A k \in 2 .. Len(lines) + 1 :
                (<<[nr |-> 0, balance |-> b]>> \o lines)[k] = lines[k - 1]
<1> DEFINE head == <<[nr |-> 0, balance |-> b]>>
<1>1. head \in Seq(Account) /\ Len(head) = 1 /\ head[1].nr = 0
  BY DEF Account
<1>2. lines \in Seq(Account) /\ Len(lines) \in Nat
  BY OpeningType, LenProperties
<1>3. QED
  BY <1>1, <1>2, ConcatProperties

(* What a server reads are lines.                                          *)
LEMMA LinesType ==
    ASSUME TypeOK, NEW s \in Servers, NEW lines \in Lines(s)
    PROVE  lines \in Seq(Line)
<1>1. CASE sv[s].in # NoFile
  BY <1>1 DEF Lines, TypeOK, ServerState
<1>2. ASSUME NEW k \in 0 .. Len(Opening)
      PROVE  SubSeq(Opening, 1, k) \in Seq(Line)
  BY OpeningType, SubSeqProperties
<1>3. QED
  BY <1>1, <1>2, OpeningType DEF Lines

(* A sequence whose elements are all in T.                                 *)
LEMMA SeqNarrow ==
    ASSUME NEW S, NEW T, NEW q \in Seq(S), \A k \in 1 .. Len(q) : q[k] \in T
    PROVE  q \in Seq(T)
<1>1. Len(q) \in Nat
  BY LenProperties
<1>2. SubSeq(q, 1, Len(q)) \in Seq(T)
  BY <1>1, SubSeqProperties
<1>3. SubSeq(q, 1, Len(q)) = q
  BY SubSeqFull
<1>4. QED
  BY <1>2, <1>3

(* What is written are lines, if account 0 comes first and only first.     *)
LEMMA WrittenType ==
    ASSUME NEW list \in Seq(Account), list # << >>,
           \A k \in 2 .. Len(list) : list[k].nr # 0
    PROVE  /\ CsvLines(list) \in Seq(Line)
           /\ DOMAIN CsvLines(list) = 1 .. Len(list) - 1
           /\ \A k \in 1 .. Len(list) - 1 : CsvLines(list)[k] = list[k + 1]
<1>1. /\ Tail(list) \in Seq(Account) /\ Len(Tail(list)) = Len(list) - 1
      /\ \A k \in 1 .. Len(Tail(list)) : Tail(list)[k] = list[k + 1]
      /\ Len(list) \in Nat
  BY HeadTailProperties
<1>2. ASSUME NEW k \in 1 .. Len(list) - 1 PROVE list[k + 1] \in Line
  <2>1. k + 1 \in 1 .. Len(list) /\ k + 1 \in 2 .. Len(list)
    BY <1>1
  <2>2. list[k + 1] \in Account /\ list[k + 1].nr # 0
    BY <2>1, ElementOfSeq
  <2>3. QED
    BY <2>2 DEF Account, Line
<1>3. \A k \in 1 .. Len(Tail(list)) : Tail(list)[k] \in Line
  BY <1>1, <1>2
<1>4. Tail(list) \in Seq(Line)
  BY <1>1, <1>3, SeqNarrow
<1>5. QED
  BY <1>1, <1>4, LenProperties DEF CsvLines

(* A server that keeps its type when some fields change.                   *)
LEMMA ServerType ==
    ASSUME TypeOK, NEW s \in Servers, NEW r \in ServerState,
           sv' = [sv EXCEPT ![s] = r]
    PROVE  sv' \in [Servers -> ServerState]
  BY DEF TypeOK

(* The fields that a step may set, one at a time.                          *)
LEMMA FieldTypes ==
    ASSUME NEW r \in ServerState
    PROVE  /\ \A p \in {"off", "atexit", "args", "create", "map", "read",
                         "loop", "free"} :
                [r EXCEPT !.pc = p] \in ServerState
           /\ \A k \in 1 .. 6 : [r EXCEPT !.step = k] \in ServerState
           /\ \A f \in FileArgs : /\ [r EXCEPT !.in = f] \in ServerState
                                 /\ [r EXCEPT !.out = f] \in ServerState
           /\ \A l \in Seq(Account) : [r EXCEPT !.list = l] \in ServerState
           /\ \A b \in BOOLEAN : /\ [r EXCEPT !.wrote = b] \in ServerState
                                /\ [r EXCEPT !.stop = b] \in ServerState
           /\ \A n \in 0 .. MaxMoves : [r EXCEPT !.moves = n] \in ServerState
  BY DEF ServerState, FileArgs

LEMMA FailType ==
    ASSUME TypeOK, NEW s \in Servers, Fail(s)
    PROVE  sv' \in [Servers -> ServerState]
<1> DEFINE r == [[sv[s] EXCEPT !.pc = "free"] EXCEPT !.step = 1]
<1>1. sv' = [sv EXCEPT ![s] = r]
  BY DEF Fail
<1>2. [sv[s] EXCEPT !.pc = "free"] \in ServerState
  BY FieldTypes DEF TypeOK
<1>3. r \in ServerState
  BY <1>2, FieldTypes, 1 \in 1 .. 6
<1>4. QED
  BY <1>1, <1>3, ServerType

(* The start of a server.                                                  *)
LEMMA StartType ==
    ASSUME TypeOK, ProgressInv, NEW s \in Servers,
           \/ MakeExclusive(s) \/ CreateObject(s) \/ MapMemory(s)
           \/ Register(s) \/ RegisterFails(s) \/ StartFails(s)
           \/ \E in, out \in FileArgs : ParseArguments(s, in, out)
    PROVE  TypeOK'
<1>1. CASE MakeExclusive(s)
  <2>1. starts' \in 0 .. MaxStarts
    BY <1>1, LifecycleAssumption DEF MakeExclusive, TypeOK
  <2>2. [Off EXCEPT !.pc = "atexit", !.start = starts'] \in ServerState
    BY <2>1, OffType DEF ServerState
  <2>3. sv' \in [Servers -> ServerState]
    BY <1>1, <2>2, ServerType DEF MakeExclusive
  <2>4. object' \in [Names -> 0 .. MaxStarts]
    BY <1>1, <2>1 DEF MakeExclusive, TypeOK
  <2>5. QED
    BY <1>1, <2>1, <2>3, <2>4 DEF MakeExclusive, TypeOK
<1>2. CASE CreateObject(s)
  <2>1. sv[s] \in ServerState /\ sv[s].step \in 1 .. 4
    BY <1>2, Orders DEF CreateObject, TypeOK, ProgressInv
  <2>2. sv[s].step + 1 \in 1 .. 6
    BY <2>1
  <2>3. sv' \in [Servers -> ServerState]
    <3>1. CASE Fail(s)
      BY <3>1, FailType
    <3>2. ASSUME NEW p \in {"map", sv[s].pc},
                 sv' = [sv EXCEPT ![s].pc = p, ![s].step = @ + 1]
          PROVE  sv' \in [Servers -> ServerState]
      <4>1. sv' = [sv EXCEPT ![s] =
                     [[sv[s] EXCEPT !.pc = p] EXCEPT !.step = @ + 1]]
        BY <3>2
      <4>2. p \in {"map", "create"}
        BY <1>2 DEF CreateObject
      <4>3. [sv[s] EXCEPT !.pc = p] \in ServerState
        BY <2>1, <4>2, FieldTypes
      <4>4. [sv[s] EXCEPT !.pc = p].step = sv[s].step
        BY <2>1 DEF ServerState
      <4>5. [[sv[s] EXCEPT !.pc = p] EXCEPT !.step = @ + 1] \in ServerState
        BY <2>2, <4>3, <4>4, FieldTypes
      <4>6. QED
        BY <4>1, <4>5, ServerType
    <3>3. QED
      BY <1>2, <3>1, <3>2 DEF CreateObject
  <2>4. object' \in [Names -> 0 .. MaxStarts]
    BY <1>2, <2>1 DEF CreateObject, TypeOK, ServerState
  <2>5. QED
    BY <1>2, <2>3, <2>4 DEF CreateObject, TypeOK
<1>3. CASE MapMemory(s)
  <2>1. sv' \in [Servers -> ServerState]
    <3>1. sv' = [sv EXCEPT ![s] = [sv[s] EXCEPT !.pc = "read"]]
      BY <1>3 DEF MapMemory
    <3>2. [sv[s] EXCEPT !.pc = "read"] \in ServerState
      BY FieldTypes DEF TypeOK
    <3>3. QED
      BY <3>1, <3>2, ServerType
  <2>2. QED
    BY <1>3, <2>1 DEF MapMemory, TypeOK
<1>4. CASE StartFails(s)
  BY <1>4, FailType DEF StartFails, TypeOK
<1>7. CASE Register(s)
  <2>1. sv' = [sv EXCEPT ![s] = [sv[s] EXCEPT !.pc = "args"]]
    BY <1>7 DEF Register
  <2>2. [sv[s] EXCEPT !.pc = "args"] \in ServerState
    BY FieldTypes DEF TypeOK
  <2>3. QED
    BY <1>7, <2>1, <2>2, ServerType DEF Register, TypeOK
<1>8. CASE RegisterFails(s)
  BY <1>8, OffType, ServerType DEF RegisterFails, TypeOK
<1>5. ASSUME NEW in \in FileArgs, NEW out \in FileArgs,
             ParseArguments(s, in, out)
      PROVE  TypeOK'
  <2>1. sv' \in [Servers -> ServerState]
    <3>1. sv' = [sv EXCEPT ![s] = [[[sv[s] EXCEPT !.pc = "create"]
                                    EXCEPT !.in = in] EXCEPT !.out = out]]
      BY <1>5 DEF ParseArguments
    <3>2. [sv[s] EXCEPT !.pc = "create"] \in ServerState
      BY FieldTypes DEF TypeOK
    <3>3. [[sv[s] EXCEPT !.pc = "create"] EXCEPT !.in = in] \in ServerState
      BY <3>2, FieldTypes
    <3>4. [[[sv[s] EXCEPT !.pc = "create"] EXCEPT !.in = in] EXCEPT !.out = out]
            \in ServerState
      BY <3>3, FieldTypes
    <3>5. QED
      BY <3>1, <3>4, ServerType
  <2>2. << >> \in Seq(Line)
    OBVIOUS
  <2>3. csv' \in [Files -> Seq(Line)]
    BY <1>5, <2>2 DEF ParseArguments, TypeOK
  <2>4. saved' \in [Files -> [list : Seq(Account), holds : BOOLEAN]]
    <3>1. ASSUME NEW f \in Files
          PROVE  [saved[f] EXCEPT !.holds = @ /\ f # out]
                   \in [list : Seq(Account), holds : BOOLEAN]
      BY DEF TypeOK
    <3>2. QED
      BY <1>5, <3>1 DEF ParseArguments
  <2>5. QED
    BY <1>5, <2>1, <2>3, <2>4 DEF ParseArguments, TypeOK
<1>6. QED
  BY <1>1, <1>2, <1>3, <1>4, <1>5, <1>7, <1>8

(* A transfer changes two balances of the list and no number.              *)
LEMMA DispatchType ==
    ASSUME TypeOK, NEW s \in Servers, Dispatch(s)
    PROVE  /\ sv' \in [Servers -> ServerState]
           /\ \A t \in Servers \ {s} : sv'[t] = sv[t]
           /\ \A f \in {"pc", "start", "step", "in", "out", "wrote", "stop"} :
                sv'[s][f] = sv[s][f]
           /\ Len(sv'[s].list) = Len(sv[s].list)
           /\ \A k \in 1 .. Len(sv[s].list) :
                sv'[s].list[k].nr = sv[s].list[k].nr
<1>1. PICK j \in DOMAIN sv[s].list, k \in DOMAIN sv[s].list :
          /\ j # k
          /\ sv' = [sv EXCEPT ![s].list[j].balance = @ - 1,
                              ![s].list[k].balance = @ + 1,
                              ![s].moves = @ + 1]
  BY DEF Dispatch
<1> DEFINE old == sv[s].list
           once == [old EXCEPT ![j].balance = @ - 1]
           twice == [once EXCEPT ![k].balance = @ + 1]
<1>2. old \in Seq(Account) /\ sv[s] \in ServerState
  BY DEF TypeOK, ServerState
<1>3. Len(old) \in Nat /\ DOMAIN old = 1 .. Len(old)
  BY <1>2, LenProperties
<1>4. \A i \in 1 .. Len(old) : old[i] \in Account
  BY <1>2, ElementOfSeq
<1>5. once = [i \in 1 .. Len(old) |->
                IF i = j THEN [old[i] EXCEPT !.balance = @ - 1] ELSE old[i]]
  BY <1>3, <1>1
<1>6. \A a \in Account : /\ [a EXCEPT !.balance = @ - 1] \in Account
                         /\ [a EXCEPT !.balance = @ + 1] \in Account
                         /\ [a EXCEPT !.balance = @ - 1].nr = a.nr
                         /\ [a EXCEPT !.balance = @ + 1].nr = a.nr
  BY DEF Account
<1>7. \A i \in 1 .. Len(old) : once[i] \in Account /\ once[i].nr = old[i].nr
  BY <1>4, <1>5, <1>6
<1>8. once \in Seq(Account) /\ Len(once) = Len(old)
  <2>1. [old EXCEPT ![j].balance = @ - 1]
          = [old EXCEPT ![j] = [old[j] EXCEPT !.balance = @ - 1]]
    OBVIOUS
  <2>2. [old[j] EXCEPT !.balance = @ - 1] \in Account
    BY <1>1, <1>3, <1>4, <1>6
  <2>3. QED
    BY <1>1, <1>2, <1>3, <2>1, <2>2, ExceptSeq
<1>9. twice \in Seq(Account) /\ Len(twice) = Len(old)
  <2>1. [once[k] EXCEPT !.balance = @ + 1] \in Account /\ k \in 1 .. Len(once)
    BY <1>1, <1>3, <1>6, <1>7, <1>8
  <2>2. [once EXCEPT ![k].balance = @ + 1]
          = [once EXCEPT ![k] = [once[k] EXCEPT !.balance = @ + 1]]
    OBVIOUS
  <2>3. QED
    BY <1>8, <2>1, <2>2, ExceptSeq
<1>10. \A i \in 1 .. Len(old) : twice[i].nr = old[i].nr
  <2>1. DOMAIN once = 1 .. Len(old)
    BY <1>8, LenProperties
  <2>2. QED
    BY <2>1, <1>6, <1>7
<1>11. sv' = [sv EXCEPT ![s] = [sv[s] EXCEPT !.list = twice, !.moves = @ + 1]]
  <2> DEFINE r == sv[s]
             r1 == [r EXCEPT !.list[j].balance = @ - 1]
             r2 == [r1 EXCEPT !.list[k].balance = @ + 1]
  <2>1. sv' = [sv EXCEPT ![s] = [r2 EXCEPT !.moves = @ + 1]]
    BY <1>1
  <2>2. r1 = [r EXCEPT !.list = once]
    BY <1>2 DEF ServerState
  <2>3. r1.list = once
    BY <1>2, <2>2 DEF ServerState
  <2>4. r2 = [r1 EXCEPT !.list = twice]
    BY <2>3
  <2>5. [r EXCEPT !.list = twice, !.moves = @ + 1] = [r2 EXCEPT !.moves = @ + 1]
    BY <1>2, <2>2, <2>4 DEF ServerState
  <2>6. QED
    BY <2>1, <2>5
<1>12. sv[s].moves + 1 \in 0 .. MaxMoves
  BY LifecycleAssumption DEF Dispatch, TypeOK, ServerState
<1> HIDE DEF old, once, twice
<1>13. [sv[s] EXCEPT !.list = twice, !.moves = @ + 1] \in ServerState
  BY <1>2, <1>9, <1>12 DEF ServerState
<1>14. sv' \in [Servers -> ServerState]
  BY <1>11, <1>13, ServerType
<1>15. sv'[s] = [sv[s] EXCEPT !.list = twice, !.moves = @ + 1]
  BY <1>11 DEF TypeOK
<1>16. \A t \in Servers \ {s} : sv'[t] = sv[t]
  BY <1>11 DEF TypeOK
<1>17. sv'[s].list = twice
  BY <1>15, <1>2 DEF ServerState
<1>18. \A f \in {"pc", "start", "step", "in", "out", "wrote", "stop"} :
          sv'[s][f] = sv[s][f]
  BY <1>15, <1>2 DEF ServerState
<1>19. QED
  BY <1>9, <1>10, <1>14, <1>16, <1>17, <1>18 DEF old

ClientState == [pc : {"off", "open", "on"}, handles : Seq(1 .. MaxStarts),
                since : Nat]

LEMMA UnlinkedType ==
    ASSUME TypeOK
    PROVE  Unlinked \in ClientState
<1>1. cl \in ClientState
  BY DEF TypeOK, ClientState
<1>2. \A k \in Nat : [cl EXCEPT !.since = k] \in ClientState
  BY <1>1 DEF ClientState
<1>3. Len(cl.handles) \in Nat /\ cl.since \in Nat
  BY <1>1, LenProperties DEF ClientState
<1>4. QED
  BY <1>2, <1>3 DEF Unlinked

(* The accounts, free_resources, signals and crashes.                      *)
LEMMA RunType ==
    ASSUME TypeOK, ListInv, NEW s \in Servers,
           \/ ReadCsvTable(s) \/ LoopEnds(s) \/ Unlink(s) \/ CloseFiles(s)
           \/ Sigint(s) \/ Crash(s)
    PROVE  TypeOK'
<1>0. sv[s] \in ServerState
  BY DEF TypeOK
<1>1. CASE ReadCsvTable(s)
  <2>1. PICK lines \in Lines(s), b \in Garbage :
          sv' = [sv EXCEPT ![s].pc = "loop",
              ![s].list = <<[nr |-> 0, balance |-> b]>> \o lines]
    BY <1>1 DEF ReadCsvTable
  <2> DEFINE list == <<[nr |-> 0, balance |-> b]>> \o lines
  <2>2. list \in Seq(Account)
    BY LinesType, ReadType, LifecycleAssumption
  <2> HIDE DEF list
  <2>3. sv' = [sv EXCEPT ![s] = [[sv[s] EXCEPT !.pc = "loop"]
                                   EXCEPT !.list = list]]
    BY <2>1 DEF list
  <2>4. [sv[s] EXCEPT !.pc = "loop"] \in ServerState
    BY <1>0, FieldTypes
  <2>5. [[sv[s] EXCEPT !.pc = "loop"] EXCEPT !.list = list] \in ServerState
    BY <2>2, <2>4, FieldTypes
  <2>6. sv' \in [Servers -> ServerState]
    BY <2>3, <2>5, ServerType
  <2>7. QED
    BY <1>1, <2>6 DEF ReadCsvTable, TypeOK
<1>2. CASE LoopEnds(s)
  <2>1. sv' = [sv EXCEPT ![s] = [[[sv[s] EXCEPT !.pc = "free"]
                                    EXCEPT !.step = 1] EXCEPT !.wrote = TRUE]]
    BY <1>2 DEF LoopEnds
  <2>2. [sv[s] EXCEPT !.pc = "free"] \in ServerState
    BY <1>0, FieldTypes
  <2>3. [[sv[s] EXCEPT !.pc = "free"] EXCEPT !.step = 1] \in ServerState
    BY <2>2, FieldTypes, 1 \in 1 .. 6
  <2>4. [[[sv[s] EXCEPT !.pc = "free"] EXCEPT !.step = 1] EXCEPT !.wrote = TRUE]
          \in ServerState
    BY <2>3, FieldTypes
  <2>5. QED
    BY <1>2, <2>1, <2>4, ServerType DEF LoopEnds, TypeOK
<1>3. ASSUME Freed(s) PROVE sv' \in [Servers -> ServerState]
  <2>1. CASE sv[s].step = 6
    BY <1>3, <2>1, Orders, OffType, ServerType DEF Freed
  <2>2. CASE sv[s].step # 6
    <3>1. sv[s].step + 1 \in 1 .. 6
      BY <1>0, <2>2 DEF ServerState
    <3>2. [sv[s] EXCEPT !.step = @ + 1] \in ServerState
      BY <1>0, <3>1, FieldTypes
    <3>3. (IF sv[s].step = Len(Released) THEN Off
                                         ELSE [sv[s] EXCEPT !.step = @ + 1])
            = [sv[s] EXCEPT !.step = @ + 1]
      BY <2>2, Orders
    <3>4. sv' = [sv EXCEPT ![s] = IF sv[s].step = Len(Released) THEN Off
                                  ELSE [sv[s] EXCEPT !.step = @ + 1]]
      BY <1>3 DEF Freed
    <3>5. QED
      BY <3>2, <3>3, <3>4, ServerType
  <2>3. QED
    BY <2>1, <2>2
<1>4. CASE Unlink(s)
  <2>1. object' \in [Names -> 0 .. MaxStarts]
    <3>1. object' = [object EXCEPT ![Released[sv[s].step]] = 0]
      BY <1>4, Zenon DEF Unlink
    <3>2. 0 \in 0 .. MaxStarts
      BY LifecycleAssumption
    <3>3. QED
      BY <3>1, <3>2 DEF TypeOK
  <2>2. cl' \in ClientState
    BY <1>4, UnlinkedType DEF Unlink
  <2>3. stale' \in BOOLEAN
    BY <1>4, Zenon DEF Unlink
  <2>4. sv' \in [Servers -> ServerState]
    BY <1>3, <1>4 DEF Unlink
  <2>5. QED
    BY <1>4, <2>1, <2>2, <2>3, <2>4 DEF Unlink, TypeOK, ClientState
<1>5. CASE CloseFiles(s)
  <2>1. CASE sv[s].wrote /\ sv[s].out # NoFile
    <3>1. CsvLines(sv[s].list) \in Seq(Line) /\ sv[s].list \in Seq(Account)
      BY <1>0, <2>1, WrittenType DEF ListInv, ServerState
    <3>2. csv' \in [Files -> Seq(Line)]
      BY <1>5, <2>1, <3>1 DEF CloseFiles, TypeOK
    <3>3. saved' \in [Files -> [list : Seq(Account), holds : BOOLEAN]]
      <4>1. [list |-> sv[s].list, holds |-> TRUE]
              \in [list : Seq(Account), holds : BOOLEAN]
        BY <3>1
      <4>2. QED
        BY <1>5, <2>1, <4>1 DEF CloseFiles, TypeOK
    <3>4. QED
      BY <1>3, <1>5, <3>2, <3>3 DEF CloseFiles, TypeOK
  <2>2. CASE ~(sv[s].wrote /\ sv[s].out # NoFile)
    BY <1>3, <1>5, <2>2 DEF CloseFiles, TypeOK
  <2>3. QED
    BY <2>1, <2>2
<1>6. CASE Sigint(s)
  <2>1. sv' = [sv EXCEPT ![s] = [sv[s] EXCEPT !.stop = TRUE]]
    BY <1>6 DEF Sigint
  <2>2. [sv[s] EXCEPT !.stop = TRUE] \in ServerState
    BY <1>0, FieldTypes
  <2>3. QED
    BY <1>6, <2>1, <2>2, ServerType DEF Sigint, TypeOK
<1>7. CASE Crash(s)
  <2>1. crashes' \in 0 .. MaxCrashes
    BY <1>7, LifecycleAssumption DEF Crash, TypeOK
  <2>2. QED
    BY <1>7, <2>1, OffType, ServerType DEF Crash, TypeOK
<1>8. QED
  BY <1>1, <1>2, <1>4, <1>5, <1>6, <1>7

(* A client, and who removes objects by hand.                              *)
LEMMA OutsideType ==
    ASSUME TypeOK, ClientInv,
           RemoveByHand \/ ClientStart \/ ClientOpen \/ ClientEnds
    PROVE  TypeOK'
<1>1. CASE RemoveByHand
  <2>1. object' \in [Names -> 0 .. MaxStarts]
    BY <1>1, LifecycleAssumption DEF RemoveByHand, TypeOK
  <2>2. cl' \in ClientState
    BY <1>1, UnlinkedType DEF RemoveByHand
  <2>3. stale' \in BOOLEAN
    BY <1>1, Zenon DEF RemoveByHand
  <2>4. QED
    BY <1>1, <2>1, <2>2, <2>3 DEF RemoveByHand, TypeOK, ClientState
<1>2. NoClient \in [pc : {"off", "open", "on"}, handles : Seq(1 .. MaxStarts),
                   since : Nat]
  BY DEF NoClient
<1>3. CASE ClientStart \/ ClientEnds
  BY <1>2, <1>3 DEF ClientStart, ClientEnds, NoClient, TypeOK
<1>4. CASE ClientOpen
  <2> DEFINE n == Objects[Len(cl.handles) + 1]
  <2>1. cl.handles \in Seq(1 .. MaxStarts)
    BY DEF TypeOK
  <2>2. n \in Names
    <3>1. Len(cl.handles) \in Nat
      BY <2>1, LenProperties
    <3>2. Len(cl.handles) < 4
      BY <1>4, Orders, Zenon DEF ClientOpen, ClientInv
    <3>3. Len(cl.handles) + 1 \in 1 .. 4
      BY <3>1, <3>2
    <3>4. QED
      BY <3>3, Orders, NamesAre
  <2>3. CASE object[n] = 0
    BY <1>2, <1>4, <2>3 DEF ClientOpen, TypeOK
  <2>4. CASE object[n] # 0
    <3>1. object[n] \in 1 .. MaxStarts
      BY <2>2, <2>4, LifecycleAssumption DEF TypeOK
    <3>2. Append(cl.handles, object[n]) \in Seq(1 .. MaxStarts)
      BY <2>1, <3>1, AppendProperties
    <3>3. cl' \in [pc : {"off", "open", "on"}, handles : Seq(1 .. MaxStarts),
                   since : Nat]
      BY <1>4, <2>4, <3>2 DEF ClientOpen, TypeOK
    <3>4. QED
      BY <1>4, <3>3 DEF ClientOpen, TypeOK
  <2>5. QED
    BY <2>3, <2>4
<1>5. QED
  BY <1>1, <1>3, <1>4

(* Every step keeps the types.                                             *)
LEMMA StepType == Inv /\ [Next]_vars => TypeOK'
<1>1. ASSUME Inv, NEW s \in Servers, Dispatch(s) PROVE TypeOK'
  BY <1>1, DispatchType DEF Inv, Dispatch, TypeOK
<1>2. ASSUME Inv, UNCHANGED vars PROVE TypeOK'
  BY <1>2 DEF Inv, TypeOK, vars
<1>3. QED
  BY <1>1, <1>2, StartType, RunType, OutsideType DEF Inv, Next, Server

-----------------------------------------------------------------------------
(* Who owns the names                                                      *)

(* The parts of the invariant about the named objects.                     *)
OwnInv ==
    ExclusiveInv /\ ProgressInv /\ WholeInv /\ ServerReachable
    /\ NothingLeftBehind

(* What they say of one server when all the others are off.                *)
Alone(s) == \A t \in Servers : t # s => sv[t].pc = "off"

ServerInv(s) ==
    /\ Running(s) => object["exc"] = sv[s].start /\ sv[s].start # 0
    /\ sv[s].pc \in {"atexit", "args"} => sv[s].step = 1
    /\ sv[s].pc = "create" =>
          /\ sv[s].step \in 1 .. 4
          /\ \A k \in 1 .. sv[s].step - 1 : object[Objects[k]] = sv[s].start
    /\ sv[s].pc \in {"map", "read", "loop"} =>
          \A n \in Names : object[n] = sv[s].start
    /\ sv[s].pc = "free" =>
          \A k \in 1 .. sv[s].step - 1 :
              Released[k] # "files" => object[Released[k]] = 0
    /\ sv[s].pc = "off" /\ ~stale => \A n \in Names : object[n] = 0

LEMMA OneIsAll ==
    ASSUME NEW s \in Servers, Alone(s)', ServerInv(s)', WholeInv'
    PROVE  OwnInv'
<1>1. ExclusiveInv'
  BY DEF ExclusiveInv, Alone, ServerInv, Running
<1>2. ProgressInv'
  BY Orders DEF ProgressInv, Alone, ServerInv
<1>3. ServerReachable'
  BY DEF ServerReachable, Alone, ServerInv
<1>4. NothingLeftBehind'
  BY DEF NothingLeftBehind, ServerInv
<1>5. QED
  BY <1>1, <1>2, <1>3, <1>4 DEF OwnInv

LEMMA RunningIsAlone ==
    ASSUME OwnInv, NEW s \in Servers, Running(s)
    PROVE  Alone(s) /\ ServerInv(s) /\ WholeInv
<1>1. Alone(s)
  BY DEF OwnInv, ExclusiveInv, Running, Alone
<1>2. ServerInv(s)
  BY Orders DEF OwnInv, ExclusiveInv, ProgressInv, ServerReachable, ServerInv,
            Running
<1>3. QED
  BY <1>1, <1>2 DEF OwnInv

(* A step of s that changes neither objects nor another server.            *)
LEMMA QuietStep ==
    ASSUME TypeOK, OwnInv, NEW s \in Servers, Running(s),
           NEW r, sv' = [sv EXCEPT ![s] = r],
           object' = object, stale' = stale
    PROVE  Alone(s)' /\ WholeInv' /\ sv'[s] = r
  BY RunningIsAlone DEF Alone, TypeOK, WholeInv

LEMMA MakeExclusiveOwns ==
    ASSUME TypeOK, OwnInv, NEW s \in Servers, MakeExclusive(s)
    PROVE  OwnInv'
<1>1. \A t \in Servers : sv[t].pc = "off"
  BY DEF MakeExclusive, OwnInv, ExclusiveInv, Running
<1>2. Alone(s)'
  BY <1>1 DEF Alone, MakeExclusive, TypeOK
<1>3. sv'[s].pc = "atexit" /\ sv'[s].start = starts' /\ sv'[s].step = 1
  BY DEF MakeExclusive, TypeOK, Off
<1>4. starts' # 0 /\ object'["exc"] = starts'
  BY NamesAre, LifecycleAssumption DEF MakeExclusive, TypeOK
<1>5. ServerInv(s)'
  BY <1>3, <1>4 DEF ServerInv, Running
<1>6. \A n \in Range(Objects) : object'[n] = object[n]
  BY NamesAre DEF MakeExclusive, TypeOK
<1>7. WholeInv'
  BY <1>6, NamesAre DEF WholeInv, OwnInv
<1>8. QED
  BY <1>2, <1>5, <1>7, OneIsAll

(* A server that fails has freed nothing yet.                              *)
LEMMA FailOwns ==
    ASSUME TypeOK, OwnInv, NEW s \in Servers, Running(s), Fail(s),
           object' = object, stale' = stale
    PROVE  OwnInv'
<1>1. sv' = [sv EXCEPT ![s] = [sv[s] EXCEPT !.pc = "free", !.step = 1]]
  BY DEF Fail
<1>2. /\ sv'[s].pc = "free" /\ sv'[s].step = 1
      /\ sv'[s].start = sv[s].start
  BY <1>1 DEF TypeOK, ServerState
<1>3. Alone(s)' /\ WholeInv'
  BY <1>1, QuietStep
<1>4. ServerInv(s)'
  BY <1>2, RunningIsAlone DEF ServerInv, Running
<1>5. QED
  BY <1>3, <1>4, OneIsAll

LEMMA CreateObjectOwns ==
    ASSUME TypeOK, OwnInv, NEW s \in Servers, CreateObject(s)
    PROVE  OwnInv'
<1> DEFINE k == sv[s].step
           n == Objects[k]
<1>1. Running(s) /\ sv[s].pc = "create"
  BY DEF CreateObject, Running
<1>2. Alone(s) /\ ServerInv(s) /\ WholeInv
  BY <1>1, RunningIsAlone
<1>3. k \in 1 .. 4 /\ n \in Range(Objects) /\ n \in Names /\ n # "exc"
  BY <1>1, <1>2, Orders, NamesAre DEF ServerInv
<1>4. sv[s].start # 0 /\ object["exc"] = sv[s].start
  BY <1>1, <1>2 DEF ServerInv
<1>5. CASE object[n] # 0
  BY <1>1, <1>5, FailOwns DEF CreateObject, IsNew
<1>6. CASE object[n] = 0
  <2>1. /\ object' = [object EXCEPT ![n] = sv[s].start]
        /\ sv' = [sv EXCEPT ![s].pc = IF n = "bankmgr" THEN "map" ELSE @,
                            ![s].step = @ + 1]
        /\ stale' = stale
    BY <1>6 DEF CreateObject, IsNew
  <2>2. Alone(s)'
    BY <1>2, <2>1 DEF Alone, TypeOK
  <2>3. /\ sv'[s].pc = IF n = "bankmgr" THEN "map" ELSE "create"
        /\ sv'[s].step = k + 1 /\ sv'[s].start = sv[s].start
    BY <1>1, <2>1 DEF TypeOK, ServerState
  <2>4. \A m \in Names : object'[m] = IF m = n THEN sv[s].start ELSE object[m]
    BY <2>1 DEF TypeOK
  <2>5. \A j \in 1 .. k : object'[Objects[j]] = sv[s].start
    <3>1. \A j \in 1 .. k - 1 : object[Objects[j]] = sv[s].start
      BY <1>1, <1>2 DEF ServerInv
    <3>2. \A j \in 1 .. 4 : Objects[j] \in Names
      BY Orders, NamesAre
    <3>3. QED
      BY <1>3, <2>4, <3>1, <3>2
  <2>6. object'["exc"] = sv[s].start
    BY <1>3, <1>4, <2>4, NamesAre
  <2>7. CASE k = 4
    <3>1. n = "bankmgr" /\ sv'[s].pc = "map"
      BY <2>3, <2>7, Orders
    <3>2. \A m \in Names : object'[m] = sv[s].start
      BY <2>5, <2>6, <2>7, Orders, NamesAre
    <3>3. ServerInv(s)' /\ WholeInv'
      BY <1>4, <2>3, <3>1, <3>2, NamesAre DEF ServerInv, WholeInv, Running
    <3>4. QED
      BY <2>2, <3>3, OneIsAll
  <2>8. CASE k # 4
    <3>1. n # "bankmgr" /\ sv'[s].pc = "create" /\ k + 1 \in 1 .. 4
      BY <1>3, <2>3, <2>8, Orders
    <3>2. ServerInv(s)'
      BY <1>3, <1>4, <2>3, <2>5, <2>6, <3>1 DEF ServerInv, Running
    <3>3. WholeInv'
      <4>1. object["bankmgr"] = 0
        BY <1>2, <1>3, <1>6 DEF WholeInv
      <4>2. QED
        BY <2>4, <3>1, <4>1, NamesAre DEF WholeInv
    <3>4. QED
      BY <2>2, <3>2, <3>3, OneIsAll
  <2>9. QED
    BY <2>7, <2>8
<1>7. QED
  BY <1>5, <1>6

(* Steps of a running server that leave the names alone.                   *)
LEMMA StartOwns ==
    ASSUME TypeOK, OwnInv, NEW s \in Servers,
           \/ Register(s) \/ MapMemory(s) \/ StartFails(s)
           \/ \E in, out \in FileArgs : ParseArguments(s, in, out)
    PROVE  OwnInv'
<1>1. CASE MapMemory(s)
  <2>1. sv' = [sv EXCEPT ![s] = [sv[s] EXCEPT !.pc = "read"]]
    BY <1>1 DEF MapMemory
  <2>2. Running(s) /\ sv[s].pc = "map" /\ object' = object /\ stale' = stale
    BY <1>1 DEF MapMemory, Running
  <2>3. sv'[s].pc = "read" /\ sv'[s].start = sv[s].start
    BY <2>1 DEF TypeOK, ServerState
  <2>4. ServerInv(s)'
    BY <2>2, <2>3, RunningIsAlone DEF ServerInv, Running
  <2>5. QED
    BY <2>1, <2>2, <2>4, QuietStep, OneIsAll
<1>2. CASE StartFails(s)
  BY <1>2, FailOwns DEF StartFails, Running
<1>3. ASSUME NEW in \in FileArgs, NEW out \in FileArgs,
             ParseArguments(s, in, out)
      PROVE  OwnInv'
  <2> DEFINE r == [[[sv[s] EXCEPT !.pc = "create"] EXCEPT !.in = in]
                      EXCEPT !.out = out]
  <2>1. sv' = [sv EXCEPT ![s] = r]
    BY <1>3 DEF ParseArguments
  <2>2. Running(s) /\ sv[s].pc = "args" /\ object' = object /\ stale' = stale
    BY <1>3 DEF ParseArguments, Running
  <2>3. /\ sv'[s].pc = "create" /\ sv'[s].start = sv[s].start
        /\ sv'[s].step = sv[s].step
    BY <2>1 DEF TypeOK, ServerState
  <2>4. sv[s].step = 1
    BY <2>2, RunningIsAlone DEF ServerInv
  <2>5. ServerInv(s)'
    BY <2>2, <2>3, <2>4, RunningIsAlone DEF ServerInv, Running
  <2>6. QED
    BY <2>1, <2>2, <2>5, QuietStep, OneIsAll
<1>4. CASE Register(s)
  <2>1. sv' = [sv EXCEPT ![s] = [sv[s] EXCEPT !.pc = "args"]]
    BY <1>4 DEF Register
  <2>2. Running(s) /\ sv[s].pc = "atexit" /\ object' = object /\ stale' = stale
    BY <1>4 DEF Register, Running
  <2>3. /\ sv'[s].pc = "args" /\ sv'[s].start = sv[s].start
        /\ sv'[s].step = sv[s].step
    BY <2>1 DEF TypeOK, ServerState
  <2>4. ServerInv(s)'
    BY <2>2, <2>3, RunningIsAlone DEF ServerInv, Running
  <2>5. QED
    BY <2>1, <2>2, <2>4, QuietStep, OneIsAll
<1>5. QED
  BY <1>1, <1>2, <1>3, <1>4

LEMMA LoopOwns ==
    ASSUME TypeOK, OwnInv, NEW s \in Servers,
           ReadCsvTable(s) \/ Dispatch(s) \/ LoopEnds(s) \/ Sigint(s)
    PROVE  OwnInv'
<1>0. Running(s) /\ object' = object /\ stale' = stale
  BY DEF ReadCsvTable, Dispatch, LoopEnds, Sigint, Running
<1>1. ASSUME Alone(s)', WholeInv', sv'[s].start = sv[s].start,
             \/ sv[s].pc \in {"read", "loop"} /\ sv'[s].pc = "loop"
             \/ sv'[s].pc = sv[s].pc /\ sv'[s].step = sv[s].step
             \/ sv'[s].pc = "free" /\ sv'[s].step = 1
      PROVE  OwnInv'
  <2>1. ServerInv(s)'
    BY <1>0, <1>1, RunningIsAlone DEF ServerInv, Running
  <2>2. QED
    BY <1>1, <2>1, OneIsAll
<1>2. CASE ReadCsvTable(s)
  <2>1. PICK lines \in Lines(s), b \in Garbage :
          sv' = [sv EXCEPT ![s].pc = "loop",
              ![s].list = <<[nr |-> 0, balance |-> b]>> \o lines]
    BY <1>2 DEF ReadCsvTable
  <2> DEFINE r == [[sv[s] EXCEPT !.pc = "loop"]
                      EXCEPT !.list = <<[nr |-> 0, balance |-> b]>> \o lines]
  <2>2. sv' = [sv EXCEPT ![s] = r]
    BY <2>1
  <2>3. sv'[s].pc = "loop" /\ sv'[s].start = sv[s].start
    BY <2>1 DEF TypeOK, ServerState
  <2>4. sv[s].pc = "read"
    BY <1>2 DEF ReadCsvTable
  <2> HIDE DEF r
  <2>5. Alone(s)' /\ WholeInv'
    BY <1>0, <2>2, QuietStep
  <2>6. QED
    BY <1>1, <2>3, <2>4, <2>5
<1>3. CASE Dispatch(s)
  <2>1. sv'[s].pc = sv[s].pc /\ sv'[s].step = sv[s].step
        /\ sv'[s].start = sv[s].start
    BY <1>3, DispatchType
  <2>2. Alone(s)'
    BY <1>0, <1>3, DispatchType, RunningIsAlone DEF Alone
  <2>3. WholeInv'
    BY <1>0 DEF OwnInv, WholeInv
  <2>4. QED
    BY <1>1, <2>1, <2>2, <2>3
<1>4. CASE LoopEnds(s)
  <2> DEFINE r == [[[sv[s] EXCEPT !.pc = "free"] EXCEPT !.step = 1]
                      EXCEPT !.wrote = TRUE]
  <2>1. sv' = [sv EXCEPT ![s] = r]
    BY <1>4 DEF LoopEnds
  <2>2. sv'[s].pc = "free" /\ sv'[s].step = 1 /\ sv'[s].start = sv[s].start
    BY <2>1 DEF TypeOK, ServerState
  <2>3. QED
    BY <1>0, <1>1, <2>1, <2>2, QuietStep
<1>5. CASE Sigint(s)
  <2>1. sv' = [sv EXCEPT ![s] = [sv[s] EXCEPT !.stop = TRUE]]
    BY <1>5 DEF Sigint
  <2>2. sv'[s].pc = sv[s].pc /\ sv'[s].step = sv[s].step
        /\ sv'[s].start = sv[s].start
    BY <2>1 DEF TypeOK, ServerState
  <2>3. QED
    BY <1>0, <1>1, <2>1, <2>2, QuietStep
<1>6. QED
  BY <1>2, <1>3, <1>4, <1>5

(* free_resources goes on: exc is the last, and with it everything is gone.*)
LEMMA FreeOwns ==
    ASSUME TypeOK, OwnInv, NEW s \in Servers, Unlink(s) \/ CloseFiles(s)
    PROVE  OwnInv'
<1> DEFINE k == sv[s].step
           n == Released[k]
<1>1. Running(s) /\ sv[s].pc = "free" /\ Freed(s) /\ k \in 1 .. 6
  BY DEF Unlink, CloseFiles, Running, TypeOK, ServerState
<1>2. Alone(s) /\ ServerInv(s) /\ WholeInv
  BY <1>1, RunningIsAlone
<1>3. /\ n # "files" => object' = [object EXCEPT ![n] = 0]
      /\ n = "files" => object' = object
  BY DEF Unlink, CloseFiles
<1>4. /\ \A m \in Names : object'[m] = IF m = n THEN 0 ELSE object[m]
  BY <1>3, NamesAre DEF TypeOK
<1>5. Alone(s)'
  BY <1>1, <1>2 DEF Freed, Alone, TypeOK
<1>6. \A j \in 1 .. k : Released[j] # "files" => object'[Released[j]] = 0
  <2>1. \A j \in 1 .. k - 1 : Released[j] # "files" => object[Released[j]] = 0
    BY <1>1, <1>2 DEF ServerInv
  <2>2. \A j \in 1 .. 6 : Released[j] # "files" => Released[j] \in Names
    BY Orders, NamesAre
  <2>3. QED
    BY <1>1, <1>4, <2>1, <2>2
<1>7. CASE k = 6
  <2>1. sv'[s].pc = "off"
    BY <1>1, <1>7, Orders DEF Freed, TypeOK, Off
  <2>2. \A m \in Names : object'[m] = 0
    BY <1>6, <1>7, Orders, NamesAre
  <2>3. ServerInv(s)' /\ WholeInv'
    BY <2>1, <2>2, NamesAre DEF ServerInv, WholeInv, Running
  <2>4. QED
    BY <1>5, <2>3, OneIsAll
<1>8. CASE k # 6
  <2>1. (IF k = Len(Released) THEN Off ELSE [sv[s] EXCEPT !.step = @ + 1])
          = [sv[s] EXCEPT !.step = @ + 1]
    BY <1>8, Orders
  <2>2. sv' = [sv EXCEPT ![s] = [sv[s] EXCEPT !.step = @ + 1]]
    BY <1>1, <2>1 DEF Freed
  <2>3. sv'[s].pc = "free" /\ sv'[s].step = k + 1 /\ sv'[s].start = sv[s].start
    BY <1>1, <2>2 DEF TypeOK, ServerState
  <2>4. object'["exc"] = object["exc"]
    BY <1>1, <1>4, <1>8, Orders, NamesAre
  <2>5. ServerInv(s)'
    BY <1>1, <1>2, <1>6, <2>3, <2>4 DEF ServerInv, Running
  <2>6. WholeInv'
    <3>1. object'["bankmgr"] = 0
      BY <1>1, <1>6, Orders
    <3>2. QED
      BY <3>1 DEF WholeInv
  <2>7. QED
    BY <1>5, <2>5, <2>6, OneIsAll
<1>9. QED
  BY <1>7, <1>8

(* A server that is killed, or leaves without free_resources, leaves       *)
(* everything, and that is known.                                          *)
LEMMA CrashOwns ==
    ASSUME TypeOK, OwnInv, NEW s \in Servers, Crash(s) \/ RegisterFails(s)
    PROVE  OwnInv'
<1>1. Running(s) /\ sv' = [sv EXCEPT ![s] = Off] /\ object' = object /\ stale'
  BY DEF Crash, RegisterFails, Running
<1>2. Alone(s)' /\ WholeInv' /\ sv'[s].pc = "off"
  BY <1>1, RunningIsAlone DEF Alone, WholeInv, TypeOK, Off
<1>3. ServerInv(s)'
  BY <1>1, <1>2 DEF ServerInv, Running
<1>4. QED
  BY <1>2, <1>3, OneIsAll

(* Removing by hand only makes names free, when nobody is running.         *)
LEMMA RemoveOwns ==
    ASSUME TypeOK, OwnInv, RemoveByHand
    PROVE  OwnInv'
<1>1. \A s \in Servers : sv'[s].pc = "off"
  BY DEF RemoveByHand
<1>2. PICK gone \in {{"exc"}, {"bankmgr"}, Names} :
          object' = [n \in Names |-> IF n \in gone THEN 0 ELSE object[n]]
  BY DEF RemoveByHand
<1>3. WholeInv'
  BY <1>2, NamesAre DEF OwnInv, WholeInv
<1>4. ~stale => \A n \in Names : object[n] = 0
  BY DEF OwnInv, NothingLeftBehind, RemoveByHand
<1>5. stale /\ ~stale' => \A n \in Names : object'[n] = 0
  BY DEF RemoveByHand
<1>6. NothingLeftBehind'
  BY <1>2, <1>4, <1>5 DEF NothingLeftBehind
<1>7. QED
  BY <1>1, <1>3, <1>6 DEF OwnInv, ExclusiveInv, ProgressInv, ServerReachable,
                         Running

LEMMA StepOwns == TypeOK /\ OwnInv /\ [Next]_vars => OwnInv'
<1>1. ASSUME OwnInv, object' = object, sv' = sv, stale' = stale PROVE OwnInv'
  BY <1>1 DEF OwnInv, ExclusiveInv, ProgressInv, WholeInv, ServerReachable,
              NothingLeftBehind, Running
<1>2. ASSUME ClientStart \/ ClientOpen \/ ClientEnds \/ UNCHANGED vars
      PROVE  object' = object /\ sv' = sv /\ stale' = stale
  BY <1>2 DEF ClientStart, ClientOpen, ClientEnds, vars
<1>3. QED
  BY <1>1, <1>2, MakeExclusiveOwns, CreateObjectOwns, StartOwns, LoopOwns,
     FreeOwns, CrashOwns, RemoveOwns DEF Next, Server

-----------------------------------------------------------------------------
(* What a client has opened                                                *)

(* Handles stay right while the names they stand for are not freed.        *)
LEMMA NamesKept ==
    ASSUME TypeOK, OwnInv, ClientInv, cl' = cl,
           \A n \in Names : object[n] # 0 => object'[n] = object[n],
           \A k \in DOMAIN cl.handles : cl.handles[k] # 0
    PROVE  ClientInv'
<1>1. Len(cl.handles) < 4 => DOMAIN cl.handles \subseteq 1 .. 4
  BY LenProperties DEF TypeOK
<1>2. \A k \in 1 .. 4 : Objects[k] \in Names
  BY Orders, NamesAre
<1>3. QED
  BY <1>1, <1>2, Orders DEF ClientInv, OneBank

(* No step but RemoveByHand and Unlink frees a name.                       *)
LEMMA OnlyTwoFree ==
    ASSUME TypeOK, OwnInv, NEW s \in Servers, Server(s) \/ Sigint(s) \/ Crash(s),
           ~Unlink(s)
    PROVE  cl' = cl /\ \A n \in Names : object[n] # 0 => object'[n] = object[n]
<1>1. CASE MakeExclusive(s)
  BY <1>1 DEF MakeExclusive, TypeOK
<1>2. CASE CreateObject(s)
  BY <1>2 DEF CreateObject, IsNew, TypeOK
<1>3. CASE \/ Register(s) \/ RegisterFails(s)
           \/ MapMemory(s) \/ StartFails(s) \/ ReadCsvTable(s) \/ Dispatch(s)
           \/ LoopEnds(s) \/ CloseFiles(s) \/ Sigint(s) \/ Crash(s)
           \/ \E in, out \in FileArgs : ParseArguments(s, in, out)
  BY <1>3 DEF Register, RegisterFails, MapMemory, StartFails, ReadCsvTable,
              Dispatch, LoopEnds, CloseFiles, Sigint, Crash, ParseArguments
<1>4. QED
  BY <1>1, <1>2, <1>3 DEF Server

(* If they are freed while a client opens them, that is known.             *)
LEMMA UnlinkedKeeps ==
    ASSUME TypeOK, ClientInv, cl' = Unlinked
    PROVE  ClientInv'
<1>1. cl'.pc = cl.pc /\ cl'.handles = cl.handles
  BY DEF TypeOK, Unlinked
<1>2. CASE cl.pc = "open"
  <2>1. cl'.since = Len(cl.handles)
    BY <1>2 DEF TypeOK, Unlinked
  <2>2. /\ Len(cl.handles) \in Nat
        /\ DOMAIN cl.handles = 1 .. Len(cl.handles)
    BY LenProperties DEF TypeOK
  <2>3. \A k \in DOMAIN cl.handles : ~(k > cl'.since)
    BY <2>1, <2>2
  <2>4. QED
    BY <1>1, <1>2, <2>3 DEF ClientInv, OneBank
<1>3. CASE cl.pc # "open"
  <2>1. cl'.since = cl.since
    BY <1>3 DEF TypeOK, Unlinked
  <2>2. QED
    BY <1>1, <1>3, <2>1 DEF ClientInv, OneBank
<1>4. QED
  BY <1>2, <1>3

LEMMA OpenKeeps ==
    ASSUME TypeOK, OwnInv, ClientInv, ClientOpen
    PROVE  ClientInv'
<1> DEFINE len == Len(cl.handles)
           n == Objects[len + 1]
<1>0. cl.handles \in Seq(1 .. MaxStarts)
  BY DEF TypeOK
<1>1. len \in Nat /\ DOMAIN cl.handles = 1 .. len
  BY <1>0, LenProperties
<1>2. len < 4
  BY Orders, Zenon DEF ClientOpen, ClientInv
<1>3. cl.pc = "open" /\ object' = object
  BY DEF ClientOpen
<1>4. CASE object[n] = 0
  <2>1. cl'.pc = "off"
    BY <1>4 DEF ClientOpen, NoClient
  <2>2. QED
    BY <2>1 DEF ClientInv, OneBank
<1>5. CASE object[n] # 0
  <2> DEFINE new == Append(cl.handles, object[n])
  <2>1. /\ cl'.handles = new /\ cl'.since = cl.since
        /\ cl'.pc = IF n = "bankmgr" THEN "on" ELSE "open"
    BY <1>3, <1>5 DEF ClientOpen, TypeOK
  <2>2. n \in Names
    <3>1. len + 1 \in 1 .. 4
      BY <1>1, <1>2
    <3>2. QED
      BY <3>1, Orders, NamesAre
  <2>3. object[n] \in 1 .. MaxStarts
    BY <1>5, <2>2 DEF TypeOK
  <2>4. /\ new \in Seq(1 .. MaxStarts) /\ Len(new) = len + 1
        /\ \A k \in 1 .. len : new[k] = cl.handles[k]
        /\ new[len + 1] = object[n]
    BY <1>0, <2>3, AppendProperties
  <2>5. DOMAIN new = 1 .. len + 1
    BY <1>1, <2>4, LenProperties
  <2> HIDE DEF len, new
  <2>6. \A k \in 1 .. len + 1 :
          k > cl.since => new[k] = object[Objects[k]]
    <3>1. \A k \in 1 .. len :
            k > cl.since => cl.handles[k] = object[Objects[k]]
      BY <1>1, <1>3 DEF ClientInv
    <3>2. QED
      BY <1>1, <2>4, <3>1
  <2>7. len = 3 <=> n = "bankmgr"
    <3>1. len \in {0, 1, 2, 3}
      BY <1>1, <1>2
    <3>2. QED
      BY <3>1, Orders
  <2>8. cl'.pc = "on" =>
          \A j, k \in 1 .. len + 1 :
              j > cl.since /\ k > cl.since => new[j] = new[k]
    <3>1. SUFFICES ASSUME cl'.pc = "on"
          PROVE  \A k \in 1 .. len + 1 :
                     k > cl.since => new[k] = object["bankmgr"]
      OBVIOUS
    <3>2. n = "bankmgr" /\ len = 3
      BY <2>1, <2>7, <3>1
    <3>3. \A m \in Range(Objects) : object[m] = object["bankmgr"]
      BY <1>5, <3>2 DEF OwnInv, WholeInv
    <3>4. \A k \in 1 .. 4 : Objects[k] \in Range(Objects)
      BY Orders, NamesAre
    <3>5. \A k \in 1 .. 4 : object[Objects[k]] = object["bankmgr"]
      BY <3>3, <3>4
    <3>6. \A k \in 1 .. len + 1 : k > cl.since => new[k] = object[Objects[k]]
      BY <2>6, <3>1
    <3>7. len + 1 = 4
      BY <3>2
    <3>8. QED
      BY <3>5, <3>6, <3>7
  <2>9. cl'.pc = "open" => len + 1 < 4
    BY <1>1, <1>2, <2>1, <2>7
  <2>10. Len(cl'.handles) = len + 1 /\ DOMAIN cl'.handles = 1 .. len + 1
    BY <2>1, <2>4, <2>5
  <2>11. QED
    BY <1>3, <2>1, <2>6, <2>8, <2>9, <2>10, Orders DEF ClientInv, OneBank
<1>6. QED
  BY <1>4, <1>5

LEMMA StepClient ==
    TypeOK /\ OwnInv /\ ClientInv /\ [Next]_vars => ClientInv'
<1>1. SUFFICES ASSUME TypeOK, OwnInv, ClientInv, [Next]_vars PROVE ClientInv'
  OBVIOUS
<1>2. \A k \in DOMAIN cl.handles : cl.handles[k] # 0
  <2>1. cl.handles \in Seq(1 .. MaxStarts)
    BY <1>1 DEF TypeOK
  <2>2. DOMAIN cl.handles = 1 .. Len(cl.handles)
    BY <2>1, LenProperties
  <2>3. \A k \in 1 .. Len(cl.handles) : cl.handles[k] \in 1 .. MaxStarts
    BY <2>1, ElementOfSeq
  <2>4. QED
    BY <2>2, <2>3, LifecycleAssumption
<1>3. ASSUME NEW s \in Servers, Server(s) \/ Sigint(s) \/ Crash(s)
      PROVE  ClientInv'
  <2>1. CASE Unlink(s)
    BY <1>1, <2>1, UnlinkedKeeps DEF Unlink
  <2>2. CASE ~Unlink(s)
    <3>1. cl' = cl /\ \A n \in Names : object[n] # 0 => object'[n] = object[n]
      BY <1>1, <1>3, <2>2, OnlyTwoFree, Zenon
    <3>2. QED
      BY <1>1, <1>2, <3>1, NamesKept
  <2>3. QED
    BY <2>1, <2>2
<1>4. CASE RemoveByHand
  BY <1>1, <1>4, UnlinkedKeeps DEF RemoveByHand
<1>5. CASE ClientStart
  <2>1. cl'.pc = "open" /\ cl'.handles = << >>
    BY <1>5 DEF ClientStart, NoClient
  <2>2. Len(cl'.handles) = 0 /\ DOMAIN cl'.handles = {}
    BY <2>1
  <2>3. QED
    BY <2>1, <2>2, Orders DEF ClientInv, OneBank
<1>6. CASE ClientEnds
  BY <1>6 DEF ClientEnds, NoClient, ClientInv, OneBank
<1>7. CASE UNCHANGED vars
  BY <1>1, <1>2, <1>7, NamesKept DEF vars
<1>8. QED
  BY <1>1, <1>3, <1>4, <1>5, <1>6, <1>7, OpenKeeps DEF Next

-----------------------------------------------------------------------------
(* The accounts and the files                                              *)

(* Account 0 is the first of the list and no other is.                     *)
ZeroFirst(list) ==
    /\ list # << >> /\ list[1].nr = 0
    /\ \A k \in 2 .. Len(list) : list[k].nr # 0

LEMMA ZeroFirstList ==
    ListInv <=> \A s \in Servers : sv[s].pc = "loop" \/ sv[s].wrote =>
                    ZeroFirst(sv[s].list)
  BY DEF ListInv, ZeroFirst

(* Nobody else's list changes, and it stays as it was, or is read, or its  *)
(* balances change.                                                        *)
LEMMA ListKept ==
    ASSUME ListInv, NEW s \in Servers,
           \A t \in Servers : t # s => sv'[t] = sv[t],
           sv'[s].pc = "loop" \/ sv'[s].wrote => ZeroFirst(sv'[s].list)
    PROVE  ListInv'
  BY DEF ListInv, ZeroFirst

LEMMA StepList ==
    TypeOK /\ ListInv /\ [Next]_vars => ListInv'
<1>1. SUFFICES ASSUME TypeOK, ListInv, [Next]_vars PROVE ListInv'
  OBVIOUS
<1>2. ASSUME sv' = sv PROVE ListInv'
  BY <1>1, <1>2 DEF ListInv
<1>3. ASSUME NEW s \in Servers, NEW r, sv' = [sv EXCEPT ![s] = r],
             r.pc = "loop" \/ r.wrote => ZeroFirst(r.list)
      PROVE  ListInv'
  <2>1. sv'[s] = r /\ \A t \in Servers : t # s => sv'[t] = sv[t]
    BY <1>1, <1>3 DEF TypeOK
  <2>2. QED
    BY <1>1, <1>3, <2>1, ListKept
<1>4. \A s \in Servers : sv[s].pc = "loop" \/ sv[s].wrote =>
          ZeroFirst(sv[s].list)
  BY <1>1, ZeroFirstList
<1>5. ASSUME NEW s \in Servers, NEW p, p # "loop", NEW k
      PROVE  /\ sv' = [sv EXCEPT ![s].pc = p, ![s].step = k] => ListInv'
             /\ sv' = [sv EXCEPT ![s].pc = p] => ListInv'
             /\ sv' = [sv EXCEPT ![s].step = k] => ListInv'
             /\ sv' = [sv EXCEPT ![s].stop = TRUE] => ListInv'
             /\ sv' = [sv EXCEPT ![s] = Off] => ListInv'
  <2>0. sv[s] \in ServerState
    BY <1>1 DEF TypeOK
  <2>1. CASE sv' = [sv EXCEPT ![s].pc = p, ![s].step = k]
    <3> DEFINE r == [sv[s] EXCEPT !.pc = p, !.step = k]
    <3>1. sv' = [sv EXCEPT ![s] = r]
      BY <2>1
    <3>2. r.pc # "loop" /\ r.wrote = sv[s].wrote /\ r.list = sv[s].list
      BY <1>5, <2>0 DEF ServerState
    <3>3. QED
      BY <1>3, <1>4, <3>1, <3>2
  <2>2. CASE sv' = [sv EXCEPT ![s].pc = p]
    <3> DEFINE r == [sv[s] EXCEPT !.pc = p]
    <3>1. sv' = [sv EXCEPT ![s] = r]
      BY <2>2
    <3>2. r.pc # "loop" /\ r.wrote = sv[s].wrote /\ r.list = sv[s].list
      BY <1>5, <2>0 DEF ServerState
    <3>3. QED
      BY <1>3, <1>4, <3>1, <3>2
  <2>3. CASE sv' = [sv EXCEPT ![s].step = k]
    <3> DEFINE r == [sv[s] EXCEPT !.step = k]
    <3>1. sv' = [sv EXCEPT ![s] = r]
      BY <2>3
    <3>2. r.pc = sv[s].pc /\ r.wrote = sv[s].wrote /\ r.list = sv[s].list
      BY <2>0 DEF ServerState
    <3>3. QED
      BY <1>3, <1>4, <3>1, <3>2
  <2>4. CASE sv' = [sv EXCEPT ![s].stop = TRUE]
    <3> DEFINE r == [sv[s] EXCEPT !.stop = TRUE]
    <3>1. sv' = [sv EXCEPT ![s] = r]
      BY <2>4
    <3>2. r.pc = sv[s].pc /\ r.wrote = sv[s].wrote /\ r.list = sv[s].list
      BY <2>0 DEF ServerState
    <3>3. QED
      BY <1>3, <1>4, <3>1, <3>2
  <2>5. CASE sv' = [sv EXCEPT ![s] = Off]
    BY <1>3, <2>5 DEF Off
  <2>6. QED
    BY <2>1, <2>2, <2>3, <2>4, <2>5
<1>6. ASSUME NEW s \in Servers, MakeExclusive(s) PROVE ListInv'
  <2>1. LET r == [Off EXCEPT !.pc = "atexit", !.start = starts']
        IN  sv' = [sv EXCEPT ![s] = r] /\ r.pc = "atexit" /\ r.wrote = FALSE
    BY <1>6 DEF MakeExclusive, Off
  <2>2. QED
    BY <1>3, <2>1
<1>7. ASSUME NEW s \in Servers, NEW in \in FileArgs, NEW out \in FileArgs,
             ParseArguments(s, in, out)
      PROVE  ListInv'
  <2> DEFINE r == [[[sv[s] EXCEPT !.pc = "create"] EXCEPT !.in = in]
                      EXCEPT !.out = out]
  <2>1. sv' = [sv EXCEPT ![s] = r]
    BY <1>7 DEF ParseArguments
  <2>2. r.pc # "loop" /\ r.wrote = sv[s].wrote /\ r.list = sv[s].list
    BY <1>1 DEF TypeOK, ServerState
  <2>3. QED
    BY <1>3, <1>4, <2>1, <2>2
<1>8. ASSUME NEW s \in Servers, CreateObject(s) PROVE ListInv'
  <2>1. CASE Fail(s)
    BY <1>5, <2>1 DEF Fail
  <2>2. CASE ~Fail(s)
    <3>1. PICK p \in {"map", "create"} :
            sv' = [sv EXCEPT ![s].pc = p, ![s].step = sv[s].step + 1]
      BY <1>1, <1>8, <2>2 DEF CreateObject, TypeOK, ServerState
    <3>2. QED
      BY <1>5, <3>1
  <2>3. QED
    BY <2>1, <2>2
<1>9. ASSUME NEW s \in Servers, ReadCsvTable(s) PROVE ListInv'
  <2>1. PICK lines \in Lines(s), b \in Garbage :
          sv' = [sv EXCEPT ![s].pc = "loop",
              ![s].list = <<[nr |-> 0, balance |-> b]>> \o lines]
    BY <1>9 DEF ReadCsvTable
  <2> DEFINE list == <<[nr |-> 0, balance |-> b]>> \o lines
             r == [[sv[s] EXCEPT !.pc = "loop"] EXCEPT !.list = list]
  <2>2. sv' = [sv EXCEPT ![s] = r]
    BY <2>1
  <2>3. lines \in Seq(Line) /\ b \in Int
    BY <1>1, LinesType, LifecycleAssumption
  <2>4. ZeroFirst(list)
    <3>1. /\ list \in Seq(Account) /\ Len(list) = Len(lines) + 1
          /\ list[1].nr = 0
          /\ \A k \in 2 .. Len(lines) + 1 : list[k] = lines[k - 1]
      BY <2>3, ReadType
    <3>2. Len(lines) \in Nat /\ \A k \in 1 .. Len(lines) : lines[k].nr # 0
      <4>1. Len(lines) \in Nat
        BY <2>3, LenProperties
      <4>2. \A k \in 1 .. Len(lines) : lines[k] \in Line
        BY <2>3, ElementOfSeq
      <4>3. QED
        BY <4>1, <4>2 DEF Line
    <3> HIDE DEF list
    <3>3. list # << >>
      BY <3>1, <3>2, EmptySeq
    <3>4. \A k \in 2 .. Len(list) : list[k].nr # 0
      BY <3>1, <3>2
    <3>5. QED
      BY <3>1, <3>3, <3>4 DEF ZeroFirst
  <2> HIDE DEF list
  <2>5. r.list = list
    BY <1>1 DEF TypeOK, ServerState
  <2>6. QED
    BY <1>3, <2>2, <2>4, <2>5
<1>10. ASSUME NEW s \in Servers, Dispatch(s) PROVE ListInv'
  <2>1. /\ Len(sv'[s].list) = Len(sv[s].list)
        /\ \A k \in 1 .. Len(sv[s].list) :
             sv'[s].list[k].nr = sv[s].list[k].nr
        /\ \A t \in Servers : t # s => sv'[t] = sv[t]
        /\ sv'[s].list \in Seq(Account) /\ sv[s].list \in Seq(Account)
    BY <1>1, <1>10, DispatchType DEF TypeOK, ServerState
  <2>2. ZeroFirst(sv[s].list)
    BY <1>4, <1>10 DEF Dispatch
  <2>3. Len(sv[s].list) \in Nat \ {0} /\ sv'[s].list # << >>
    BY <2>1, <2>2, EmptySeq DEF ZeroFirst
  <2>4. ZeroFirst(sv'[s].list)
    BY <2>1, <2>2, <2>3 DEF ZeroFirst
  <2>5. QED
    BY <1>1, <2>1, <2>4, ListKept
<1>11. ASSUME NEW s \in Servers, LoopEnds(s) PROVE ListInv'
  <2> DEFINE r == [[[sv[s] EXCEPT !.pc = "free"] EXCEPT !.step = 1]
                      EXCEPT !.wrote = TRUE]
  <2>1. sv' = [sv EXCEPT ![s] = r]
    BY <1>11 DEF LoopEnds
  <2>2. r.list = sv[s].list /\ ZeroFirst(sv[s].list)
    BY <1>1, <1>4, <1>11 DEF LoopEnds, TypeOK, ServerState
  <2>3. QED
    BY <1>3, <2>1, <2>2
<1>12. ASSUME NEW s \in Servers, Freed(s) PROVE ListInv'
  <2> DEFINE k == sv[s].step + 1
  <2>1. CASE sv[s].step = Len(Released)
    <3>1. sv' = [sv EXCEPT ![s] = Off]
      BY <1>12, <2>1 DEF Freed
    <3>2. QED
      BY <1>3, <3>1 DEF Off
  <2>2. CASE sv[s].step # Len(Released)
    <3>1. sv' = [sv EXCEPT ![s].step = k]
      BY <1>12, <2>2 DEF Freed
    <3> HIDE DEF k
    <3>2. QED
      BY <1>5, <3>1
  <2>3. QED
    BY <2>1, <2>2
<1>13. ASSUME NEW s \in Servers, Server(s) \/ Sigint(s) \/ Crash(s)
       PROVE  ListInv'
  <2>1. CASE MapMemory(s)
    BY <1>5, <2>1 DEF MapMemory
  <2>2. CASE StartFails(s)
    BY <1>5, <2>2 DEF StartFails, Fail
  <2>3. CASE Unlink(s) \/ CloseFiles(s)
    BY <1>12, <2>3 DEF Unlink, CloseFiles
  <2>4. CASE Sigint(s)
    BY <1>5, <2>4 DEF Sigint
  <2>5. CASE Crash(s) \/ RegisterFails(s)
    BY <1>5, <2>5 DEF Crash, RegisterFails
  <2>7. CASE Register(s)
    BY <1>5, <2>7 DEF Register
  <2>6. QED
    BY <1>6, <1>7, <1>8, <1>9, <1>10, <1>11, <1>13, <2>1, <2>2, <2>3, <2>4,
       <2>5, <2>7 DEF Server
<1>14. CASE RemoveByHand \/ ClientStart \/ ClientOpen \/ ClientEnds
            \/ UNCHANGED vars
  BY <1>2, <1>14 DEF RemoveByHand, ClientStart, ClientOpen, ClientEnds, vars
<1>15. QED
  BY <1>1, <1>13, <1>14 DEF Next

(* Lines without account 0 are their own table.                            *)
LEMMA LinesAreTable ==
    ASSUME NEW lines \in Seq(Line)
    PROVE  IsTable(lines, lines)
<1> DEFINE g == [k \in DOMAIN lines |-> k]
<1>1. DOMAIN lines = 1 .. Len(lines) /\ Len(lines) \in Nat
  BY LenProperties
<1>2. \A k \in DOMAIN lines : lines[k].nr # 0
  <2>1. \A k \in DOMAIN lines : lines[k] \in Line
    BY <1>1, ElementOfSeq
  <2>2. QED
    BY <2>1 DEF Line
<1>3. g \in [DOMAIN lines -> DOMAIN lines]
  OBVIOUS
<1>4. Range(g) = {k \in DOMAIN lines : lines[k].nr # 0}
  BY <1>2 DEF Range
<1>5. \A j, k \in DOMAIN lines : j < k => g[j] < g[k]
  OBVIOUS
<1>6. \A k \in DOMAIN lines : lines[k] = lines[g[k]]
  OBVIOUS
<1> HIDE DEF g
<1>7. QED
  BY <1>3, <1>4, <1>5, <1>6 DEF IsTable

(* Skipping the first account leaves out account 0 and nothing else.       *)
LEMMA CsvLinesAreTable ==
    ASSUME NEW list \in Seq(Account), ZeroFirst(list)
    PROVE  IsTable(CsvLines(list), list)
<1> DEFINE lines == CsvLines(list)
           g == [k \in DOMAIN lines |-> k + 1]
<1>1. Len(list) \in Nat /\ DOMAIN list = 1 .. Len(list)
  BY LenProperties
<1>2. /\ DOMAIN lines = 1 .. Len(list) - 1
      /\ \A k \in 1 .. Len(list) - 1 : lines[k] = list[k + 1]
  BY WrittenType DEF ZeroFirst
<1> HIDE DEF lines
<1>3. DOMAIN g = 1 .. Len(list) - 1 /\ \A k \in DOMAIN g : g[k] = k + 1
  BY <1>2
<1>4. g \in [DOMAIN lines -> DOMAIN list]
  BY <1>1, <1>2
<1>5. Range(g) = {k \in DOMAIN list : list[k].nr # 0}
  <2>1. \A k \in Range(g) : k \in 2 .. Len(list)
    BY <1>1, <1>3 DEF Range
  <2>2. \A k \in 2 .. Len(list) : k - 1 \in DOMAIN g /\ k = g[k - 1]
    BY <1>1, <1>3
  <2>3. Range(g) = 2 .. Len(list)
    BY <2>1, <2>2 DEF Range
  <2>4. {k \in DOMAIN list : list[k].nr # 0} = 2 .. Len(list)
    BY <1>1 DEF ZeroFirst
  <2>5. QED
    BY <2>3, <2>4
<1>6. \A j, k \in DOMAIN lines : j < k => g[j] < g[k]
  BY <1>1, <1>2
<1>7. \A k \in DOMAIN lines : lines[k] = list[g[k]]
  BY <1>2
<1> HIDE DEF g
<1>8. IsTable(lines, list)
  BY <1>4, <1>5, <1>6, <1>7 DEF IsTable
<1>9. QED
  BY <1>8 DEF lines

LEMMA StepTable ==
    TypeOK /\ ListInv /\ TableSurvives /\ [Next]_vars => TableSurvives'
<1>1. SUFFICES ASSUME TypeOK, ListInv, TableSurvives, [Next]_vars
      PROVE  TableSurvives'
  OBVIOUS
<1>2. ASSUME csv' = csv, saved' = saved PROVE TableSurvives'
  BY <1>1, <1>2 DEF TableSurvives
<1>3. ASSUME NEW s \in Servers, NEW in \in FileArgs, NEW out \in FileArgs,
             ParseArguments(s, in, out)
      PROVE  TableSurvives'
  <2>1. SUFFICES ASSUME NEW f \in Files, saved'[f].holds
        PROVE  IsTable(csv'[f], saved'[f].list)
    BY DEF TableSurvives
  <2>2. /\ saved'[f] = [saved[f] EXCEPT !.holds = @ /\ f # out]
        /\ csv'[f] = IF f = out THEN << >> ELSE csv[f]
    BY <1>3 DEF ParseArguments
  <2>3. saved'[f].list = saved[f].list
        /\ saved'[f].holds = (saved[f].holds /\ f # out)
    BY <1>1, <2>2 DEF TypeOK
  <2>4. saved[f].holds /\ f # out
    BY <2>1, <2>3, Zenon
  <2>5. QED
    BY <1>1, <2>2, <2>3, <2>4 DEF TableSurvives
<1>4. ASSUME NEW s \in Servers, CloseFiles(s) PROVE TableSurvives'
  <2> DEFINE o == sv[s].out
  <2>1. CASE sv[s].wrote /\ o # NoFile
    <3>1. o \in Files /\ sv[s].list \in Seq(Account) /\ ZeroFirst(sv[s].list)
      BY <1>1, <2>1, ZeroFirstList DEF TypeOK, ServerState
    <3>2. /\ csv' = [csv EXCEPT ![o] = CsvLines(sv[s].list)]
          /\ saved' = [saved EXCEPT ![o] = [list |-> sv[s].list,
                                            holds |-> TRUE]]
      BY <1>4, <2>1 DEF CloseFiles
    <3>3. IsTable(csv'[o], saved'[o].list)
      BY <1>1, <3>1, <3>2, CsvLinesAreTable DEF TypeOK
    <3>4. \A f \in Files : f # o => csv'[f] = csv[f] /\ saved'[f] = saved[f]
      BY <1>1, <3>2 DEF TypeOK
    <3>5. QED
      BY <1>1, <3>3, <3>4 DEF TableSurvives
  <2>2. CASE ~(sv[s].wrote /\ o # NoFile)
    BY <1>2, <1>4, <2>2 DEF CloseFiles
  <2>3. QED
    BY <2>1, <2>2
<1>5. ASSUME NEW s \in Servers,
             \/ MakeExclusive(s) \/ CreateObject(s) \/ MapMemory(s)
             \/ Register(s) \/ RegisterFails(s)
             \/ StartFails(s) \/ ReadCsvTable(s) \/ Dispatch(s) \/ LoopEnds(s)
             \/ Unlink(s) \/ Sigint(s) \/ Crash(s)
      PROVE  csv' = csv /\ saved' = saved
  BY <1>5 DEF MakeExclusive, CreateObject, MapMemory, StartFails, ReadCsvTable,
              Register, RegisterFails, Dispatch, LoopEnds, Unlink, Sigint, Crash
<1>6. CASE RemoveByHand \/ ClientStart \/ ClientOpen \/ ClientEnds
           \/ UNCHANGED vars
  BY <1>2, <1>6 DEF RemoveByHand, ClientStart, ClientOpen, ClientEnds, vars
<1>7. QED
  BY <1>1, <1>2, <1>3, <1>4, <1>5, <1>6 DEF Next, Server

-----------------------------------------------------------------------------
(* The theorems                                                            *)

LEMMA InitInv == Init => Inv
<1>1. SUFFICES ASSUME Init PROVE Inv
  OBVIOUS
<1>2. \A s \in Servers : sv[s].pc = "off" /\ ~sv[s].wrote
  BY <1>1 DEF Init, Off
<1>3. \A n \in Names : object[n] = 0
  BY <1>1 DEF Init
<1>4. cl.pc = "off"
  BY <1>1 DEF Init, NoClient
<1>5. TableSurvives
  BY <1>1, OpeningType, LinesAreTable DEF Init, TableSurvives
<1>6. ExclusiveInv /\ ProgressInv /\ ServerReachable /\ ListInv
  BY <1>2 DEF ExclusiveInv, ProgressInv, ServerReachable, ListInv, Running
<1>7. WholeInv /\ NothingLeftBehind
  BY <1>3, NamesAre DEF WholeInv, NothingLeftBehind
<1>8. ClientInv
  BY <1>4 DEF ClientInv, OneBank
<1>9. QED
  BY <1>1, <1>5, <1>6, <1>7, <1>8, InitType DEF Inv

LEMMA StepInv == Inv /\ [Next]_vars => Inv'
<1>1. SUFFICES ASSUME Inv, [Next]_vars PROVE Inv'
  OBVIOUS
<1>2. TypeOK'
  BY <1>1, StepType
<1>3. OwnInv
  BY <1>1 DEF Inv, OwnInv
<1>4. OwnInv' /\ ClientInv' /\ ListInv' /\ TableSurvives'
  BY <1>1, <1>3, StepOwns, StepClient, StepList, StepTable DEF Inv
<1>5. QED
  BY <1>2, <1>4 DEF Inv, OwnInv

(* The invariant holds in every behaviour of the servers and the client,   *)
(* with all the failures, crashes and removals by hand.                    *)
THEOREM LifeInv == Spec => []Inv
  BY InitInv, StepInv, PTL DEF Spec

(* Types: in particular, no step of init_bankserver or free_resources goes *)
(* past its last object, and every file holds lines with a number.         *)
THEOREM LifeTypes == Spec => []TypeOK
<1>1. Inv => TypeOK
  BY DEF Inv
<1>2. QED
  BY <1>1, LifeInv, PTL

(* Mutual exclusion by the semaphore of server.c: a server that has        *)
(* created its objects owns every name until it removes them itself.       *)
THEOREM LifeServerReachable == Spec => []ServerReachable
<1>1. Inv => ServerReachable
  BY DEF Inv
<1>2. QED
  BY <1>1, LifeInv, PTL

(* free_resources removes everything, however far the start had come: with *)
(* no server running, none killed and no atexit failed, the next start is  *)
(* not refused.                                                            *)
THEOREM LifeNothingLeftBehind == Spec => []NothingLeftBehind
<1>1. Inv => NothingLeftBehind
  BY DEF Inv
<1>2. QED
  BY <1>1, LifeInv, PTL

(* What a client opens without an unlink in between is of one server,      *)
(* whatever crashes have left, because the shared memory is created last   *)
(* and removed first; and only an unlink between two of its opens can give *)
(* it objects of two servers.                                              *)
THEOREM LifeOneBank == Spec => []OneBank
<1>1. Inv => OneBank
  BY DEF Inv, ClientInv
<1>2. QED
  BY <1>1, LifeInv, PTL

(* write_csv_table writes all accounts but account 0, in their order, and  *)
(* no later start changes the file unless it opens it for writing.         *)
THEOREM LifeTableSurvives == Spec => []TableSurvives
<1>1. Inv => TableSurvives
  BY DEF Inv
<1>2. QED
  BY <1>1, LifeInv, PTL

================================================================================

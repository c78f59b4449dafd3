----------------------------- MODULE DsortProofs ------------------------------
(***************************************************************************)
(* Whatever the commands write, however they end and whenever SIGINT       *)
(* comes: a success of dsort means that both commands were waited for,     *)
(* that all of their lines were read, and that what is printed are those   *)
(* written more than once, in order. DsortInv, about processes and pipes,  *)
(* is inductive; OutInv, about array and output, is inductive with it.     *)
(***************************************************************************)
EXTENDS Dsort, FiniteSetTheorems, TLAPS

DsortInv == ProcessTypes /\ OrderInv /\ PipeInv /\ SuccessIsComplete

-----------------------------------------------------------------------------
(* Sequences                                                               *)

(* A prefix grows by the element that follows it.                          *)
LEMMA PrefixGrows ==
    ASSUME NEW S, NEW s \in Seq(S), NEW n \in Nat, n < Len(s)
    PROVE  SubSeq(s, 1, n + 1) = Append(SubSeq(s, 1, n), s[n + 1])
  OBVIOUS

LEMMA ConcatAppend ==
    ASSUME NEW S, NEW r \in Seq(S), NEW q \in Seq(S), NEW e \in S
    PROVE  r \o Append(q, e) = Append(r \o q, e)
  OBVIOUS

(* Moving the head of a queue to the end of a list.                        *)
LEMMA ConcatMove ==
    ASSUME NEW S, NEW r \in Seq(S), NEW q \in Seq(S), q # << >>
    PROVE  Append(r, Head(q)) \o Tail(q) = r \o q
  OBVIOUS

LEMMA ConcatEmpty ==
    ASSUME NEW S, NEW r \in Seq(S)
    PROVE  r \o << >> = r
  OBVIOUS

LEMMA WholePrefix ==
    ASSUME NEW S, NEW s \in Seq(S)
    PROVE  SubSeq(s, 1, Len(s)) = s
  OBVIOUS

-----------------------------------------------------------------------------
(* Types                                                                   *)

LEMMA InitTypes == Init => ProcessTypes
<1> SUFFICES ASSUME Init PROVE ProcessTypes
  OBVIOUS
<1>1. /\ out \in [P -> Seq(Lines)]
      /\ \A p \in P : Len(out[p]) <= MaxLines
  <2>1. ASSUME NEW p \in P
        PROVE  out[p] \in Seq(Lines) /\ Len(out[p]) <= MaxLines
    <3>1. out[p] \in BoundedSeq(Lines, MaxLines)
      BY <2>1 DEF Init
    <3>2. out[p] \in UNION {[1 .. m -> Lines] : m \in 0 .. MaxLines}
      BY <3>1, Zenon DEF BoundedSeq, SeqOf
    <3>3. PICK n \in 0 .. MaxLines : out[p] \in [1 .. n -> Lines]
      BY <3>2
    <3>4. QED
      BY <3>3, DsortAssumption
  <2>2. out = [p \in P |-> out[p]]
    BY DEF Init
  <2>3. QED
    BY <2>1, <2>2
<1>2. /\ pipe \in [P -> Seq(Lines)] /\ records \in [P -> Seq(Lines)]
      /\ \A p \in P : Len(pipe[p]) <= PipeSize
  BY DsortAssumption DEF Init
<1>3. /\ sent \in [P -> Nat] /\ \A p \in P : sent[p] <= Len(out[p])
      /\ signals \in 0 .. MaxSignals
  BY <1>1, DsortAssumption DEF Init
<1>4. QED
  BY <1>1, <1>2, <1>3 DEF Init, ProcessTypes, P, Statuses

LEMMA ExitTypes ==
    ASSUME NEW code \in {"success", "failure", "crashed", "killed"},
           Exit(code)
    PROVE  /\ pc' = "exit" /\ ret' = code
           /\ stdinEnd' \in [P -> BOOLEAN] /\ stdoutEnd' \in [P -> BOOLEAN]
           /\ \A p \in P : ~stdinEnd'[p]
  BY DEF Exit

(* The parent's steps that leave the children alone and read nothing.      *)
LEMMA ParentTypes ==
    ASSUME ProcessTypes,
           \/ ParseArguments \/ AllocateEnv \/ TestLaunch \/ OpenPipe
           \/ OpenStream \/ Collect \/ Qsort \/ TestPrint \/ Finish
           \/ PrintStep
    PROVE  ProcessTypes'
<1> USE DEF ProcessTypes, childVars, fdVars, sigVars
<1>1. CASE ParseArguments
  BY <1>1, ExitTypes DEF ParseArguments
<1>2. CASE AllocateEnv
  BY <1>2, ExitTypes DEF AllocateEnv
<1>3. CASE TestLaunch \/ TestPrint
  BY <1>3, ExitTypes DEF TestLaunch, TestPrint, Stage
<1>4. CASE OpenPipe
  BY <1>4, ExitTypes DEF OpenPipe
<1>5. CASE OpenStream
  BY <1>5, ExitTypes DEF OpenStream
<1>6. CASE Collect
  <2>1. UNCHANGED <<childVars, pipe, cur, records, sigVars>>
    BY <1>6 DEF Collect
  <2>2. \/ Exit("success")
        \/ pc' = "sort" /\ UNCHANGED <<ret, fdVars>>
    BY <1>6 DEF Collect
  <2>3. QED
    BY <2>1, <2>2, ExitTypes
<1>7. CASE Qsort
  <2>1. UNCHANGED <<childVars, pipe, cur, records, sigVars>>
    BY <1>7 DEF Qsort
  <2>2. \/ Exit("success")
        \/ pc' = "uniq" /\ UNCHANGED <<ret, fdVars>>
    BY <1>7 DEF Qsort
  <2>3. QED
    BY <2>1, <2>2, ExitTypes
<1>8. CASE Finish
  BY <1>8, ExitTypes DEF Finish
<1>9. CASE PrintStep
  BY <1>9 DEF PrintStep
<1>10. QED
  BY <1>1, <1>2, <1>3, <1>4, <1>5, <1>6, <1>7, <1>8, <1>9

LEMMA ForkReadWaitTypes ==
    ASSUME ProcessTypes, Fork \/ ReadLine \/ ReadEof \/ ReadStopped \/ Wait
    PROVE  ProcessTypes'
<1> USE DEF ProcessTypes, childVars, fdVars, sigVars
<1>1. CASE Fork
  BY <1>1, ExitTypes DEF Fork
<1>2. CASE ReadLine
  <2>1. Head(pipe[cur]) \in Lines /\ Tail(pipe[cur]) \in Seq(Lines)
        /\ Len(Tail(pipe[cur])) <= PipeSize
    BY <1>2, DsortAssumption DEF ReadLine
  <2>2. Append(records[cur], Head(pipe[cur])) \in Seq(Lines)
    BY <2>1
  <2>3. QED
    BY <1>2, <2>1, <2>2 DEF ReadLine
<1>3. CASE ReadEof
  BY <1>3 DEF ReadEof
<1>4. CASE ReadStopped
  <2>1. pipe[cur] # << >> => /\ Tail(pipe[cur]) \in Seq(Lines)
                             /\ Len(Tail(pipe[cur])) <= PipeSize
    BY DsortAssumption
  <2>2. QED
    BY <1>4, <2>1 DEF ReadStopped
<1>5. CASE Wait
  BY <1>5, ExitTypes DEF Wait, P
<1>6. QED
  BY <1>1, <1>2, <1>3, <1>4, <1>5

LEMMA ChildTypes ==
    ASSUME ProcessTypes, NEW p \in P, Child(p)
    PROVE  ProcessTypes'
<1> USE DEF ProcessTypes, parentVars, fdVars, sigVars
<1>1. CASE ChildWrites(p)
  <2>1. sent[p] + 1 \in 1 .. Len(out[p])
    BY <1>1 DEF ChildWrites
  <2>2. out[p][sent[p] + 1] \in Lines
    BY <2>1
  <2>3. /\ Append(pipe[p], out[p][sent[p] + 1]) \in Seq(Lines)
        /\ Len(Append(pipe[p], out[p][sent[p] + 1])) = Len(pipe[p]) + 1
    BY <2>2
  <2>4. QED
    BY <1>1, <2>1, <2>3, DsortAssumption DEF ChildWrites
<1>2. CASE ChildBreaks(p) \/ ChildEnds(p) \/ ChildKilled(p)
  <2>1. /\ UNCHANGED <<out, plan, sent, pipe, pc, cur, ret, records>>
        /\ UNCHANGED <<stdinEnd, stdoutEnd, stopSignal, signals, late>>
    BY <1>2 DEF ChildBreaks, ChildEnds, ChildKilled
  <2>2. PICK s \in Statuses : Die(p, s)
    BY <1>2 DEF ChildBreaks, ChildEnds, ChildKilled, Statuses
  <2>3. /\ child' \in [P -> {"none", "running", "zombie", "reaped"}]
        /\ status' \in [P -> Statuses \union {"none"}]
    BY <2>2 DEF Die
  <2>4. QED
    BY <2>1, <2>3
<1>3. QED
  BY <1>1, <1>2 DEF Child

LEMMA SignalTypes ==
    ASSUME ProcessTypes, SignalHandler \/ WaitInterrupted
    PROVE  ProcessTypes'
<1> USE DEF ProcessTypes
<1>1. CASE SignalHandler
  <2>1. /\ UNCHANGED <<childVars, pipe, cur, records>>
        /\ signals' = signals + 1 /\ signals < MaxSignals
    BY <1>1 DEF SignalHandler, outVars
  <2>2. late' \in BOOLEAN
    BY <1>1 DEF SignalHandler
  <2>3. \/ Exit("killed") /\ UNCHANGED stopSignal
        \/ Exit("crashed") /\ UNCHANGED stopSignal
        \/ /\ stopSignal' = TRUE
           /\ stdinEnd' = [p \in P |-> FALSE]
           /\ stdoutEnd' = [p \in P |-> FALSE]
           /\ UNCHANGED <<pc, ret>>
    BY <1>1 DEF SignalHandler
  <2>4. /\ pc' \in {"args", "env", "test", "pipe", "fork", "open", "read",
                    "wait", "collect", "sort", "uniq", "print", "exit"}
        /\ ret' \in {"none", "success", "failure", "crashed", "killed"}
        /\ stopSignal' \in BOOLEAN
        /\ stdinEnd' \in [P -> BOOLEAN] /\ stdoutEnd' \in [P -> BOOLEAN]
    BY <2>3, ExitTypes
  <2>5. signals' \in 0 .. MaxSignals
    BY <2>1, DsortAssumption
  <2>6. QED
    BY <2>1, <2>2, <2>4, <2>5 DEF childVars
<1>2. CASE WaitInterrupted
  BY <1>2, ExitTypes, DsortAssumption DEF WaitInterrupted, childVars
<1>3. QED
  BY <1>1, <1>2

LEMMA StepTypes ==
    ASSUME ProcessTypes, [Next]_vars
    PROVE  ProcessTypes'
<1>1. CASE UNCHANGED vars
  BY <1>1 DEF vars, childVars, fdVars, sigVars, ProcessTypes
<1>2. QED
  BY <1>1, ParentTypes, ForkReadWaitTypes, ChildTypes, SignalTypes
     DEF Next, Parent

-----------------------------------------------------------------------------
(* The commands, one after the other                                       *)

LEMMA InitOrder == Init => OrderInv /\ PipeInv /\ SuccessIsComplete
<1> SUFFICES ASSUME Init PROVE OrderInv /\ PipeInv /\ SuccessIsComplete
  OBVIOUS
<1>1. OrderInv
  BY DEF Init, OrderInv, Place, NotStarted, P
<1>2. PipeInv
  <2>1. ASSUME NEW p \in P PROVE Transferred(p)
    <3>1. out[p] \in Seq(Lines) /\ sent[p] = 0
      BY <2>1, InitTypes DEF ProcessTypes, Init
    <3>2. records[p] = << >> /\ pipe[p] = << >>
      BY <2>1 DEF Init
    <3>3. SubSeq(out[p], 1, 0) = << >>
      BY <3>1
    <3>4. QED
      BY <3>1, <3>2, <3>3 DEF Transferred
  <2>2. QED
    BY <2>1 DEF Init, PipeInv
<1>3. SuccessIsComplete
  BY DEF Init, SuccessIsComplete
<1>4. QED
  BY <1>1, <1>2, <1>3

(* A command that runs is the one that the parent is busy with.            *)
LEMMA RunningIsCurrent ==
    ASSUME ProcessTypes, OrderInv, pc # "exit",
           NEW p \in P, child[p] \in {"running", "zombie"}
    PROVE  /\ p = cur /\ pc \in {"open", "read", "wait"}
           /\ pc = "wait" /\ child[p] = "running" => stopSignal
  BY DEF ProcessTypes, OrderInv, Place, Complete, NotStarted, P

(* Nothing that runs survives a success.                                   *)
LEMMA SuccessIsFinal ==
    ASSUME SuccessIsComplete, ret = "success", NEW p \in P
    PROVE  child[p] \in {"none", "reaped"}
  BY DEF SuccessIsComplete

(* When both commands are complete, and no signal came, all was read.      *)
LEMMA CompleteIsRead ==
    ASSUME ProcessTypes, PipeInv, ret = "none", ~stopSignal,
           NEW p \in P, Complete(p)
    PROVE  records[p] = out[p] /\ pipe[p] = << >>
<1>1. Transferred(p) /\ sent[p] = Len(out[p]) /\ pipe[p] = << >>
  BY DEF PipeInv, Complete
<1>2. records[p] \in Seq(Lines) /\ out[p] \in Seq(Lines)
  BY DEF ProcessTypes
<1>3. /\ records[p] \o << >> = records[p]
      /\ SubSeq(out[p], 1, Len(out[p])) = out[p]
  BY <1>2, ConcatEmpty, WholePrefix
<1>4. QED
  BY <1>1, <1>3 DEF Transferred

(* An exit with a success keeps the invariant if both commands are         *)
(* complete, or a signal came and no command is under way.                 *)
LEMMA ExitKeeps ==
    ASSUME DsortInv, NEW code \in {"success", "failure", "crashed", "killed"},
           pc # "exit", Exit(code),
           UNCHANGED <<out, child, sent, status, pipe, records>>,
           code = "success" =>
                /\ UNCHANGED <<stopSignal, signals>>
                /\ pc \in {"test", "collect", "sort", "uniq", "print"}
                /\ stopSignal \/ pc = "print"
    PROVE  (OrderInv /\ PipeInv /\ SuccessIsComplete)'
<1> USE DEF DsortInv
<1>1. ret = "none"
  BY DEF OrderInv
<1>2. OrderInv'
  BY ExitTypes DEF OrderInv
<1>3. CASE code # "success"
  BY <1>2, <1>3, ExitTypes DEF PipeInv, SuccessIsComplete
<1>4. CASE code = "success"
  <2>1. \A p \in P : child[p] \in {"none", "reaped"} /\ status[p] # "nonzero"
    BY <1>4 DEF ProcessTypes, OrderInv, Place, Complete, NotStarted, P
  <2>2. ~stopSignal => \A p \in P : Complete(p)
    BY <1>4 DEF ProcessTypes, OrderInv, Place, P
  <2>3. ~stopSignal => \A p \in P : /\ child[p] = "reaped"
                                    /\ records[p] = out[p] /\ pipe[p] = << >>
    BY <1>1, <2>2, CompleteIsRead DEF Complete
  <2>4. SuccessIsComplete'
    BY <1>4, <2>1, <2>3 DEF SuccessIsComplete
  <2>5. PipeInv'
    <3>1. SUFFICES ASSUME ~stopSignal PROVE PipeInv'
      BY <1>4 DEF PipeInv
    <3>2. \A p \in P : child[p] = "reaped"
      BY <3>1, <2>3
    <3>3. QED
      BY ExitTypes, <1>1, <1>4, <3>1, <3>2 DEF PipeInv, Transferred
  <2>6. QED
    BY <1>2, <2>4, <2>5
<1>5. QED
  BY <1>3, <1>4

(* A move of the parent that leaves commands and pipes alone.              *)
LEMMA MoveKeeps ==
    ASSUME DsortInv, pc # "exit", pc' # "exit",
           UNCHANGED <<childVars, pipe, cur, ret, records, sigVars>>,
           \A p \in P : stdinEnd[p] => stdinEnd'[p],
           pc' = "fork" => stdinEnd'[cur],
           Place(cur)',
           pc' \in {"collect", "sort", "uniq", "print"} => cur = 2
    PROVE  (OrderInv /\ PipeInv /\ SuccessIsComplete)'
<1> USE DEF DsortInv, childVars, sigVars
<1>1. OrderInv'
  BY DEF OrderInv, Complete, NotStarted
<1>2. PipeInv'
  BY DEF PipeInv, Transferred
<1>3. SuccessIsComplete'
  BY DEF OrderInv, SuccessIsComplete
<1>4. QED
  BY <1>1, <1>2, <1>3

LEMMA ParentOrder ==
    ASSUME DsortInv,
           \/ ParseArguments \/ AllocateEnv \/ TestLaunch \/ OpenPipe
           \/ OpenStream \/ ReadEof \/ Collect \/ Qsort \/ TestPrint
           \/ PrintStep \/ Finish
    PROVE  (OrderInv /\ PipeInv /\ SuccessIsComplete)'
<1> USE DEF childVars, sigVars, fdVars
<1>1. ProcessTypes /\ Place(cur) /\ cur \in P
      /\ pc \in {"args", "env", "test", "pipe", "fork", "open", "read",
                 "wait", "collect", "sort", "uniq", "print"}
      /\ (pc \in {"collect", "sort", "uniq", "print"} => cur = 2)
  BY DEF DsortInv, OrderInv, ProcessTypes, Place, ParseArguments,
         AllocateEnv, TestLaunch, OpenPipe, OpenStream, ReadEof, Collect,
         Qsort, TestPrint, PrintStep, Finish, Stage
<1>2. CASE ParseArguments
  <2>1. CASE Exit("failure")
    BY <1>1, <1>2, <2>1, ExitKeeps DEF ParseArguments
  <2>2. CASE pc' = "env" /\ UNCHANGED <<ret, fdVars>>
    BY <1>1, <1>2, <2>2, MoveKeeps DEF ParseArguments, Place, NotStarted
  <2>3. QED
    BY <1>2, <2>1, <2>2 DEF ParseArguments
<1>3. CASE AllocateEnv
  <2>1. CASE Exit("failure")
    BY <1>1, <1>3, <2>1, ExitKeeps DEF AllocateEnv
  <2>2. CASE pc' = "test" /\ UNCHANGED <<ret, fdVars>>
    BY <1>1, <1>3, <2>2, MoveKeeps DEF AllocateEnv, Place, NotStarted
  <2>3. QED
    BY <1>3, <2>1, <2>2 DEF AllocateEnv
<1>4. CASE TestLaunch
  <2>1. CASE stopSignal
    BY <1>1, <1>4, <2>1, ExitKeeps DEF TestLaunch, Stage
  <2>2. CASE ~stopSignal
    BY <1>1, <1>4, <2>2, MoveKeeps DEF TestLaunch, Stage, Place, NotStarted
  <2>3. QED
    BY <2>1, <2>2
<1>5. CASE OpenPipe
  <2>1. CASE Exit("failure")
    BY <1>1, <1>5, <2>1, ExitKeeps DEF OpenPipe
  <2>2. CASE ~Exit("failure")
    <3>1. /\ pc = "pipe" /\ pc' = "fork"
          /\ stdinEnd' = [stdinEnd EXCEPT ![cur] = TRUE]
          /\ UNCHANGED <<childVars, pipe, cur, ret, records, sigVars>>
      BY <1>5, <2>2 DEF OpenPipe
    <3>2. stdinEnd'[cur] /\ \A p \in P : stdinEnd[p] => stdinEnd'[p]
      BY <1>1, <3>1 DEF ProcessTypes
    <3>3. Place(cur)'
      BY <1>1, <3>1 DEF Place, NotStarted
    <3>4. QED
      BY <3>1, <3>2, <3>3, MoveKeeps
  <2>3. QED
    BY <2>1, <2>2
<1>6. CASE OpenStream
  <2>1. CASE stdinEnd[cur]
    BY <1>1, <1>6, <2>1, MoveKeeps DEF OpenStream, Place
  <2>2. CASE ~stdinEnd[cur]
    BY <1>1, <1>6, <2>2, ExitKeeps DEF OpenStream
  <2>3. QED
    BY <2>1, <2>2
<1>7. CASE ReadEof
  BY <1>1, <1>7, MoveKeeps DEF ReadEof, Place
<1>8. CASE Collect
  <2>1. CASE stopSignal
    BY <1>1, <1>8, <2>1, ExitKeeps DEF Collect
  <2>2. CASE ~stopSignal
    <3>1. /\ pc = "collect" /\ pc' = "sort"
          /\ UNCHANGED <<childVars, pipe, cur, ret, fdVars, records, sigVars>>
      BY <1>8, <2>2 DEF Collect
    <3>2. QED
      BY <1>1, <3>1, MoveKeeps DEF Place, Complete
  <2>3. QED
    BY <2>1, <2>2
<1>9. CASE Qsort
  <2>1. CASE stopSignal
    BY <1>1, <1>9, <2>1, ExitKeeps DEF Qsort
  <2>2. CASE ~stopSignal
    <3>1. /\ pc = "sort" /\ pc' = "uniq"
          /\ UNCHANGED <<childVars, pipe, cur, ret, fdVars, records, sigVars>>
      BY <1>9, <2>2 DEF Qsort
    <3>2. QED
      BY <1>1, <3>1, MoveKeeps DEF Place, Complete
  <2>3. QED
    BY <2>1, <2>2
<1>10. CASE TestPrint
  <2>1. CASE stopSignal
    BY <1>1, <1>10, <2>1, ExitKeeps DEF TestPrint, Stage
  <2>2. CASE ~stopSignal
    BY <1>1, <1>10, <2>2, MoveKeeps DEF TestPrint, Stage, Place, Complete
  <2>3. QED
    BY <2>1, <2>2
<1>11. CASE PrintStep
  BY <1>1, <1>11, MoveKeeps DEF PrintStep, Place, Complete
<1>12. CASE Finish
  BY <1>1, <1>12, ExitKeeps DEF Finish
<1>13. QED
  BY <1>2, <1>3, <1>4, <1>5, <1>6, <1>7, <1>8, <1>9, <1>10, <1>11, <1>12

(* fork, and its failure.                                                  *)
LEMMA ForkOrder ==
    ASSUME DsortInv, Fork
    PROVE  (OrderInv /\ PipeInv /\ SuccessIsComplete)'
<1> USE DEF DsortInv
<1>1. pc = "fork" /\ NotStarted(cur) /\ cur \in P /\ ret = "none"
  BY DEF Fork, OrderInv, Place, ProcessTypes
<1>2. CASE Exit("failure") /\ UNCHANGED child
  BY <1>1, <1>2, ExitKeeps DEF Fork, sigVars
<1>3. CASE ~ (Exit("failure") /\ UNCHANGED child)
  <2>1. /\ child' = [child EXCEPT ![cur] = "running"]
        /\ pc' = "open" /\ UNCHANGED <<ret, fdVars>>
        /\ UNCHANGED <<out, sent, status, pipe, cur, records, sigVars>>
    BY <1>3 DEF Fork
  <2>2. child'[cur] = "running" /\ \A p \in P \ {cur} : child'[p] = child[p]
    BY <2>1, <1>1 DEF ProcessTypes
  <2>3. OrderInv'
    BY <1>1, <2>1, <2>2
       DEF OrderInv, Place, Complete, NotStarted, P, sigVars
  <2>4. SuccessIsComplete'
    BY <1>1, <2>1 DEF SuccessIsComplete
  <2>5. PipeInv'
    BY <1>1, <2>1, <2>2 DEF PipeInv, Transferred, sigVars, fdVars
  <2>6. QED
    BY <2>3, <2>4, <2>5
<1>4. QED
  BY <1>2, <1>3

(* fgets: a line leaves the pipe, for the list unless a signal came.       *)
LEMMA ReadOrder ==
    ASSUME DsortInv, ReadLine \/ ReadStopped
    PROVE  (OrderInv /\ PipeInv /\ SuccessIsComplete)'
<1> USE DEF DsortInv
<1>1. /\ pc = "read" /\ ret = "none" /\ cur \in P /\ pc' \in {"read", "wait"}
      /\ child[cur] \in {"running", "zombie"}
      /\ UNCHANGED <<childVars, fdVars, cur, ret, sigVars>>
  BY DEF ReadLine, ReadStopped, OrderInv, Place, ProcessTypes
<1>2. \A p \in P \ {cur} : pipe'[p] = pipe[p] /\ records'[p] = records[p]
  BY <1>1 DEF ReadLine, ReadStopped, ProcessTypes
<1>3. pc' = "wait" => stopSignal
  BY <1>1 DEF ReadLine, ReadStopped
<1>4. OrderInv'
  BY <1>1, <1>2, <1>3
     DEF OrderInv, Place, Complete, NotStarted, P, childVars, sigVars
<1>5. SuccessIsComplete'
  BY <1>1 DEF SuccessIsComplete
<1>6. PipeInv'
  <2>1. SUFFICES ASSUME ~stopSignal PROVE PipeInv'
    BY <1>1 DEF PipeInv, sigVars
  <2>2. /\ pipe[cur] # << >>
        /\ pipe' = [pipe EXCEPT ![cur] = Tail(@)]
        /\ records' = [records EXCEPT ![cur] = Append(@, Head(pipe[cur]))]
    BY <2>1 DEF ReadLine, ReadStopped
  <2>3. records'[cur] \o pipe'[cur] = records[cur] \o pipe[cur]
    <3>1. records[cur] \in Seq(Lines) /\ pipe[cur] \in Seq(Lines)
      BY <1>1 DEF ProcessTypes
    <3>2. /\ pipe'[cur] = Tail(pipe[cur])
          /\ records'[cur] = Append(records[cur], Head(pipe[cur]))
      BY <1>1, <2>2 DEF ProcessTypes
    <3>3. QED
      BY <2>2, <3>1, <3>2, ConcatMove
  <2>4. \A p \in P : Transferred(p) => Transferred(p)'
    BY <1>1, <1>2, <2>3 DEF Transferred, childVars
  <2>5. QED
    BY <1>1, <2>1, <2>4 DEF PipeInv, childVars, fdVars, sigVars
<1>7. QED
  BY <1>4, <1>5, <1>6

(* waitpid, and what its status decides.                                   *)
LEMMA WaitOrder ==
    ASSUME DsortInv, Wait
    PROVE  (OrderInv /\ PipeInv /\ SuccessIsComplete)'
<1> USE DEF DsortInv
<1>1. /\ pc = "wait" /\ ret = "none" /\ cur \in P /\ child[cur] = "zombie"
      /\ UNCHANGED <<out, sent, status, pipe, records, sigVars>>
      /\ ~stopSignal => pipe[cur] = << >>
  BY DEF Wait, OrderInv, Place, ProcessTypes
<1>2. child'[cur] = "reaped" /\ \A p \in P \ {cur} : child'[p] = child[p]
  BY <1>1 DEF Wait, ProcessTypes
<1>3. CASE status[cur] = "nonzero"
  <2>1. Exit("failure")
    BY <1>3 DEF Wait, StatusGood
  <2>2. QED
    BY <2>1, ExitTypes DEF OrderInv, PipeInv, SuccessIsComplete
<1>4. CASE status[cur] # "nonzero"
  <2>1. UNCHANGED <<ret, fdVars>>
    BY <1>4 DEF Wait, StatusGood
  <2>2. \/ cur = 1 /\ pc' = "test" /\ cur' = 2
        \/ cur = 2 /\ pc' = "collect" /\ cur' = 2
    BY <1>1, <1>4 DEF Wait, StatusGood, P
  <2>4. OrderInv'
    BY <1>1, <1>2, <1>4, <2>1, <2>2
       DEF OrderInv, Place, Complete, NotStarted, P, sigVars
  <2>5. SuccessIsComplete'
    BY <1>1, <2>1 DEF SuccessIsComplete
  <2>6. PipeInv'
    BY <1>1, <1>2, <2>1, <2>2 DEF PipeInv, Transferred, sigVars, fdVars
  <2>7. QED
    BY <2>4, <2>5, <2>6
<1>5. QED
  BY <1>3, <1>4

(* A command writes, or comes to its end.                                  *)
LEMMA ChildOrder ==
    ASSUME DsortInv, NEW p \in P, Child(p)
    PROVE  (OrderInv /\ PipeInv /\ SuccessIsComplete)'
<1> USE DEF DsortInv
<1>1. /\ child[p] = "running" /\ ret # "success"
      /\ UNCHANGED <<out, pc, cur, ret, records, stdinEnd, stopSignal, signals>>
      /\ \A q \in P \ {p} : /\ child'[q] = child[q] /\ status'[q] = status[q]
                            /\ pipe'[q] = pipe[q] /\ sent'[q] = sent[q]
      /\ child'[p] \in {"running", "zombie"}
      /\ child'[p] = "running" => status'[p] = status[p]
  <2>1. child[p] = "running"
    BY DEF Child, ChildWrites, ChildBreaks, ChildEnds, ChildKilled
  <2>2. ret # "success"
    BY <2>1, SuccessIsFinal
  <2>3. UNCHANGED <<out, pc, cur, ret, records, stdinEnd, stopSignal, signals>>
    BY DEF Child, ChildWrites, ChildBreaks, ChildEnds, ChildKilled,
           parentVars, fdVars, sigVars
  <2>4. /\ \A q \in P \ {p} : /\ child'[q] = child[q] /\ status'[q] = status[q]
                              /\ pipe'[q] = pipe[q] /\ sent'[q] = sent[q]
        /\ child'[p] \in {"running", "zombie"}
        /\ child'[p] = "running" => status'[p] = status[p]
    BY <2>1 DEF Child, ChildWrites, ChildBreaks, ChildEnds, ChildKilled, Die,
                ProcessTypes
  <2>5. QED
    BY <2>1, <2>2, <2>3, <2>4
<1>2. SuccessIsComplete'
  BY <1>1 DEF SuccessIsComplete
<1>3. OrderInv'
  <2>1. CASE pc = "exit"
    BY <1>1, <2>1 DEF OrderInv
  <2>2. CASE pc # "exit"
    <3>1. /\ p = cur /\ pc \in {"open", "read", "wait"}
          /\ pc = "wait" => stopSignal
      BY <1>1, <2>2, RunningIsCurrent
    <3>2. QED
      BY <1>1, <3>1 DEF OrderInv, Place, Complete, NotStarted, P
  <2>3. QED
    BY <2>1, <2>2
<1>4. PipeInv'
  <2>1. SUFFICES ASSUME ~stopSignal, ret \in {"none", "success"} PROVE PipeInv'
    BY <1>1 DEF PipeInv
  <2>2. /\ signals = 0 /\ (pc = "fork" => stdinEnd[cur]) /\ stdinEnd[p]
        /\ \A q \in P : Transferred(q)
    BY <1>1, <2>1 DEF PipeInv
  <2>3. CASE ChildWrites(p)
    <3>1. Transferred(p)'
      <4>1. /\ out[p] \in Seq(Lines) /\ records[p] \in Seq(Lines)
            /\ pipe[p] \in Seq(Lines) /\ sent[p] \in Nat
            /\ sent[p] < Len(out[p])
        BY <2>3 DEF ChildWrites, ProcessTypes
      <4>2. /\ pipe'[p] = Append(pipe[p], out[p][sent[p] + 1])
            /\ sent'[p] = sent[p] + 1
        BY <2>3 DEF ChildWrites, ProcessTypes
      <4>3. \A r, q \in Seq(Lines) : \A e \in Lines :
                r \o Append(q, e) = Append(r \o q, e)
        BY ConcatAppend
      <4>4. records[p] \o pipe'[p]
              = Append(records[p] \o pipe[p], out[p][sent[p] + 1])
        <5>1. out[p][sent[p] + 1] \in Lines
          BY <4>1
        <5>2. records[p] \o Append(pipe[p], out[p][sent[p] + 1])
                = Append(records[p] \o pipe[p], out[p][sent[p] + 1])
          BY <4>1, <4>3, <5>1, Zenon
        <5>3. QED
          BY <4>2, <5>2, Zenon
      <4>5. SubSeq(out[p], 1, sent'[p])
              = Append(SubSeq(out[p], 1, sent[p]), out[p][sent[p] + 1])
        BY <4>1, <4>2, PrefixGrows
      <4>6. QED
        BY <1>1, <2>2, <4>4, <4>5 DEF Transferred
    <3>2. child' = child
      BY <2>3 DEF ChildWrites
    <3>3. \A q \in P \ {p} : Transferred(q)'
      BY <1>1, <2>2 DEF Transferred
    <3>4. QED
      BY <1>1, <2>1, <2>2, <3>1, <3>2, <3>3 DEF PipeInv
  <2>4. CASE ChildEnds(p)
    <3>1. sent[p] = Len(out[p]) /\ UNCHANGED <<sent, pipe>>
      BY <2>4 DEF ChildEnds
    <3>2. QED
      BY <1>1, <2>1, <2>2, <3>1 DEF PipeInv, Transferred
  <2>5. ~ChildBreaks(p) /\ ~ChildKilled(p)
    BY <2>2 DEF ChildBreaks, ChildKilled
  <2>6. QED
    BY <2>3, <2>4, <2>5 DEF Child
<1>5. QED
  BY <1>2, <1>3, <1>4

(* SIGINT in any place: what held of a stopped parent still does.          *)
LEMMA SignalOrder ==
    ASSUME DsortInv, SignalHandler \/ WaitInterrupted
    PROVE  (OrderInv /\ PipeInv /\ SuccessIsComplete)'
<1> USE DEF DsortInv
<1>1. pc # "exit" /\ ret = "none" /\ UNCHANGED <<childVars, pipe, cur, records>>
  BY DEF SignalHandler, WaitInterrupted, OrderInv
<1>2. ASSUME NEW code \in {"failure", "crashed", "killed"}, Exit(code)
      PROVE  (OrderInv /\ PipeInv /\ SuccessIsComplete)'
  BY <1>1, <1>2, ExitKeeps DEF childVars
<1>3. CASE stopSignal' = TRUE /\ UNCHANGED <<pc, ret>>
  <2>1. OrderInv'
    BY <1>1, <1>3 DEF OrderInv, Place, Complete, NotStarted, childVars
  <2>2. PipeInv' /\ SuccessIsComplete'
    BY <1>1, <1>3 DEF PipeInv, SuccessIsComplete
  <2>3. QED
    BY <2>1, <2>2
<1>4. QED
  BY <1>2, <1>3 DEF SignalHandler, WaitInterrupted

-----------------------------------------------------------------------------
(* The invariant holds in every state, whatever the commands write and     *)
(* however they end, and with SIGINT at any moment.                        *)
THEOREM DsortInvariant == Spec => []DsortInv
<1>1. Init => DsortInv
  BY InitTypes, InitOrder DEF DsortInv
<1>2. DsortInv /\ [Next]_vars => DsortInv'
  <2>1. SUFFICES ASSUME DsortInv, [Next]_vars
                 PROVE  (OrderInv /\ PipeInv /\ SuccessIsComplete)'
    BY StepTypes DEF DsortInv
  <2>2. CASE UNCHANGED vars
    BY <2>1, <2>2
       DEF DsortInv, OrderInv, PipeInv, SuccessIsComplete, Place, Complete,
           NotStarted, Transferred, vars, childVars, fdVars, sigVars
  <2>3. CASE Parent
    BY <2>1, <2>3, ParentOrder, ForkOrder, ReadOrder, WaitOrder DEF Parent
  <2>4. QED
    BY <2>1, <2>2, <2>3, ChildOrder, SignalOrder DEF Next
<1>3. QED
  BY <1>1, <1>2, PTL DEF Spec

(* A success of dsort: no command failed, none is left behind as a zombie, *)
(* and without a SIGINT no line was lost between a command and its list.   *)
THEOREM DsortComplete == Spec => []SuccessIsComplete
<1>1. DsortInv => SuccessIsComplete
  BY DEF DsortInv
<1>2. QED
  BY <1>1, DsortInvariant, PTL

-----------------------------------------------------------------------------
(* qsort                                                                   *)

LEMMA IntervalSize ==
    ASSUME NEW n \in Nat
    PROVE  IsFiniteSet(1 .. n) /\ Cardinality(1 .. n) = n
  BY FS_Interval

LEMMA PositionIs ==
    ASSUME NEW s \in Seq(Nat), NEW i \in DOMAIN s
    PROVE  Position(s, i) \in DOMAIN s
<1> DEFINE B == {m \in DOMAIN s : s[m] < s[i] \/ (s[m] = s[i] /\ m <= i)}
<1>1. /\ IsFiniteSet(DOMAIN s) /\ Cardinality(DOMAIN s) = Len(s)
      /\ DOMAIN s = 1 .. Len(s) /\ Len(s) \in Nat
  <2>1. DOMAIN s = 1 .. Len(s) /\ Len(s) \in Nat
    OBVIOUS
  <2>2. IsFiniteSet(1 .. Len(s)) /\ Cardinality(1 .. Len(s)) = Len(s)
    BY <2>1, IntervalSize, Zenon
  <2>3. QED
    BY <2>1, <2>2
<1>2. B \in SUBSET DOMAIN s
  OBVIOUS
<1>3. i \in B
  OBVIOUS
<1> HIDE DEF B
<1>4. IsFiniteSet(B) /\ Cardinality(B) <= Len(s)
  BY <1>1, <1>2, FS_Subset
<1>5. Cardinality(B) \in Nat /\ Cardinality(B) # 0
  BY <1>3, <1>4, FS_CardinalityType, FS_EmptySet
<1>6. QED
  BY <1>1, <1>4, <1>5 DEF B, Position

(* Lines that strcmp does not exchange go to places in the same order.     *)
LEMMA PositionOrder ==
    ASSUME NEW s \in Seq(Nat), NEW i \in DOMAIN s, NEW j \in DOMAIN s,
           s[i] < s[j] \/ (s[i] = s[j] /\ i < j)
    PROVE  Position(s, i) < Position(s, j)
<1> DEFINE B(h) == {m \in DOMAIN s : s[m] < s[h] \/ (s[m] = s[h] /\ m <= h)}
<1>1. IsFiniteSet(DOMAIN s)
  <2>1. DOMAIN s = 1 .. Len(s) /\ Len(s) \in Nat
    OBVIOUS
  <2>2. QED
    BY <2>1, FS_Interval
<1>2. B(i) \in SUBSET DOMAIN s /\ B(j) \in SUBSET DOMAIN s
  OBVIOUS
<1>3. j \notin B(i) /\ B(i) \cup {j} \in SUBSET B(j)
  <2>1. \A m \in DOMAIN s : s[m] \in Nat /\ m \in Nat
    OBVIOUS
  <2>2. \A m \in B(i) : m \in B(j)
    BY <2>1
  <2>3. QED
    BY <2>1, <2>2
<1>4. Position(s, i) = Cardinality(B(i)) /\ Position(s, j) = Cardinality(B(j))
  BY DEF Position
<1> HIDE DEF B
<1>5. IsFiniteSet(B(i)) /\ IsFiniteSet(B(j))
  BY <1>1, <1>2, FS_Subset
<1>6. Cardinality(B(i) \cup {j}) = Cardinality(B(i)) + 1
  BY <1>3, <1>5, FS_AddElement
<1>7. Cardinality(B(i) \cup {j}) <= Cardinality(B(j))
  BY <1>3, <1>5, FS_Subset
<1>8. Cardinality(B(i)) \in Nat /\ Cardinality(B(j)) \in Nat
  BY <1>5, FS_CardinalityType
<1>9. QED
  BY <1>4, <1>6, <1>7, <1>8

(* Every place is the place of one line: the array is rearranged.          *)
LEMMA InOrderSorts ==
    ASSUME NEW s \in Seq(Nat)
    PROVE  /\ \A l : Twice(InOrder(s), l) <=> Twice(s, l)
           /\ \A i, j \in DOMAIN s : i < j => InOrder(s)[i] <= InOrder(s)[j]
           /\ InOrder(s) \in Seq(Nat) /\ Len(InOrder(s)) = Len(s)
           /\ \A i \in DOMAIN s : \E m \in DOMAIN s : InOrder(s)[i] = s[m]
<1> DEFINE f == [i \in DOMAIN s |-> Position(s, i)]
<1>1. IsFiniteSet(DOMAIN s) /\ DOMAIN s = 1 .. Len(s) /\ Len(s) \in Nat
  <2>1. DOMAIN s = 1 .. Len(s) /\ Len(s) \in Nat
    OBVIOUS
  <2>2. QED
    BY <2>1, FS_Interval
<1>2. \A m \in DOMAIN s : s[m] \in Nat /\ m \in Nat /\ Position(s, m) \in Nat
  BY <1>1, PositionIs
<1>3. ASSUME NEW i \in DOMAIN s, NEW j \in DOMAIN s,
             Position(s, i) = Position(s, j)
      PROVE  i = j
  <2>1. ~ (s[i] < s[j]) /\ ~ (s[j] < s[i])
    BY <1>2, <1>3, PositionOrder
  <2>2. s[i] = s[j]
    BY <1>2, <2>1
  <2>3. ~ (i < j) /\ ~ (j < i)
    BY <1>2, <1>3, <2>2, PositionOrder
  <2>4. QED
    BY <1>2, <2>3
<1>4. f \in Injection(DOMAIN s, DOMAIN s)
  BY <1>3, PositionIs DEF Injection, IsInjective
<1>5. f \in Surjection(DOMAIN s, DOMAIN s)
  <2> HIDE DEF f
  <2>1. QED
    BY <1>1, <1>4, FS_Injection
<1>6. \A j \in DOMAIN s : \E m \in DOMAIN s : Position(s, m) = j
  BY <1>5 DEF Surjection
<1> DEFINE at(j) == CHOOSE m \in DOMAIN s : Position(s, m) = j
<1>7. \A j \in DOMAIN s : at(j) \in DOMAIN s /\ Position(s, at(j)) = j
  BY <1>6
<1>8. /\ DOMAIN InOrder(s) = DOMAIN s
      /\ \A j \in DOMAIN s : InOrder(s)[j] = s[at(j)]
      /\ InOrder(s) = [j \in DOMAIN s |-> s[at(j)]]
  BY DEF InOrder
<1>9. \A m \in DOMAIN s : at(Position(s, m)) = m
  <2>1. SUFFICES ASSUME NEW m \in DOMAIN s PROVE at(Position(s, m)) = m
    OBVIOUS
  <2>2. Position(s, m) \in DOMAIN s
    BY PositionIs
  <2>3. /\ at(Position(s, m)) \in DOMAIN s
        /\ Position(s, at(Position(s, m))) = Position(s, m)
    BY <1>7, <2>2
  <2>4. QED
    BY <1>3, <2>3
<1> HIDE DEF at
<1>10. InOrder(s) \in Seq(Nat) /\ Len(InOrder(s)) = Len(s)
  BY <1>1, <1>2, <1>7, <1>8
<1>11. ASSUME NEW l PROVE Twice(InOrder(s), l) <=> Twice(s, l)
  <2>1. ASSUME NEW i \in DOMAIN s, NEW j \in DOMAIN s, i # j,
               InOrder(s)[i] = l, InOrder(s)[j] = l
        PROVE  Twice(s, l)
    <3>1. at(i) # at(j) /\ s[at(i)] = l /\ s[at(j)] = l
      BY <1>7, <1>8, <2>1
    <3>2. QED
      BY <1>7, <3>1 DEF Twice
  <2>2. ASSUME NEW i \in DOMAIN s, NEW j \in DOMAIN s, i # j, s[i] = l, s[j] = l
        PROVE  Twice(InOrder(s), l)
    <3>1. /\ Position(s, i) \in DOMAIN s /\ Position(s, j) \in DOMAIN s
          /\ Position(s, i) # Position(s, j)
      BY <1>3, <2>2, PositionIs
    <3>2. InOrder(s)[Position(s, i)] = l /\ InOrder(s)[Position(s, j)] = l
      BY <1>8, <1>9, <2>2, <3>1
    <3>3. QED
      BY <1>8, <3>1, <3>2 DEF Twice
  <2>3. QED
    BY <1>8, <2>1, <2>2 DEF Twice
<1>12. ASSUME NEW i \in DOMAIN s, NEW j \in DOMAIN s, i < j
       PROVE  InOrder(s)[i] <= InOrder(s)[j]
  <2>1. /\ at(i) \in DOMAIN s /\ at(j) \in DOMAIN s
        /\ Position(s, at(i)) = i /\ Position(s, at(j)) = j
    BY <1>7
  <2>2. ~ (s[at(j)] < s[at(i)])
    <3>1. s[at(j)] < s[at(i)] => Position(s, at(j)) < Position(s, at(i))
      BY <2>1, PositionOrder
    <3>2. ~ (j < i)
      BY <1>2, <1>12
    <3>3. QED
      BY <2>1, <3>1, <3>2
  <2>3. QED
    BY <1>2, <1>8, <2>1, <2>2
<1>13. QED
  BY <1>7, <1>8, <1>10, <1>11, <1>12

-----------------------------------------------------------------------------
(* The output                                                              *)

LEMMA TwoElements ==
    ASSUME NEW S, IsFiniteSet(S)
    PROVE  Cardinality(S) > 1 <=> \E x, y \in S : x # y
<1>1. Cardinality(S) \in Nat
  BY FS_CardinalityType
<1>2. Cardinality(S) = 0 <=> S = {}
  BY FS_EmptySet
<1>3. Cardinality(S) = 1 <=> \E x : S = {x}
  BY FS_Singleton
<1>4. (\E x, y \in S : x # y) <=> S # {} /\ ~ \E x : S = {x}
  OBVIOUS
<1>5. QED
  BY <1>1, <1>2, <1>3, <1>4

(* A line counts as written twice if it is at two places of the outputs.   *)
LEMMA OccurrencesAre ==
    ASSUME ProcessTypes, NEW l
    PROVE  Occurrences(l) > 1 <=>
             \E p, q \in P : \E i \in DOMAIN out[p], j \in DOMAIN out[q] :
               <<p, i>> # <<q, j>> /\ out[p][i] = l /\ out[q][j] = l
<1> DEFINE At == {at \in P \X (1 .. MaxLines) :
                    at[2] <= Len(out[at[1]]) /\ out[at[1]][at[2]] = l}
<1>1. IsFiniteSet(At)
  <2>1. IsFiniteSet(P) /\ IsFiniteSet(1 .. MaxLines)
    <3>1. P = 1 .. 2
      BY DEF P
    <3>2. QED
      BY <3>1, IntervalSize, DsortAssumption
  <2>2. IsFiniteSet(P \X (1 .. MaxLines))
    BY <2>1, FS_Product
  <2>3. QED
    BY <2>2, FS_Subset
<1>2. \A p \in P, i \in Nat : <<p, i>> \in At <=> i \in DOMAIN out[p] /\ out[p][i] = l
  <2>1. SUFFICES ASSUME NEW p \in P, NEW i \in Nat
                 PROVE  <<p, i>> \in At <=> i \in DOMAIN out[p] /\ out[p][i] = l
    OBVIOUS
  <2>2. /\ DOMAIN out[p] = 1 .. Len(out[p]) /\ Len(out[p]) \in Nat
        /\ Len(out[p]) <= MaxLines
    BY DEF ProcessTypes
  <2>3. QED
    BY <2>2, DsortAssumption
<1>3. \A at \in At : at = <<at[1], at[2]>> /\ at[1] \in P /\ at[2] \in Nat
  OBVIOUS
<1>4. \A p \in P : \A i \in DOMAIN out[p] : i \in Nat
  BY DEF ProcessTypes
<1>5. Occurrences(l) = Cardinality(At)
  BY DEF Occurrences
<1> HIDE DEF At
<1>6. Occurrences(l) > 1 <=> \E x, y \in At : x # y
  BY <1>1, <1>5, TwoElements
<1>7. ASSUME NEW x \in At, NEW y \in At, x # y
      PROVE  \E p, q \in P : \E i \in DOMAIN out[p], j \in DOMAIN out[q] :
               <<p, i>> # <<q, j>> /\ out[p][i] = l /\ out[q][j] = l
  <2>1. /\ x = <<x[1], x[2]>> /\ x[1] \in P /\ x[2] \in Nat
        /\ y = <<y[1], y[2]>> /\ y[1] \in P /\ y[2] \in Nat
    BY <1>3
  <2>2. /\ x[2] \in DOMAIN out[x[1]] /\ out[x[1]][x[2]] = l
        /\ y[2] \in DOMAIN out[y[1]] /\ out[y[1]][y[2]] = l
    BY <1>2, <2>1
  <2>3. <<x[1], x[2]>> # <<y[1], y[2]>>
    BY <1>7, <2>1
  <2>4. QED
    BY <2>1, <2>2, <2>3
<1>8. ASSUME NEW p \in P, NEW q \in P,
             NEW i \in DOMAIN out[p], NEW j \in DOMAIN out[q],
             <<p, i>> # <<q, j>>, out[p][i] = l, out[q][j] = l
      PROVE  \E x, y \in At : x # y
  BY <1>2, <1>4, <1>8
<1>9. QED
  BY <1>6, <1>7, <1>8

(* Two lists one after the other, then the empty record.                   *)
Joins(s, a, b, na, nb) ==
    s = [j \in 1 .. na + nb + 1 |->
           IF j <= na THEN a[j]
           ELSE IF j = na + nb + 1 THEN NoLine ELSE b[j - na]]

(* link_collected_data, called for each list.                              *)
LEMMA LinkedJoins ==
    ASSUME NEW a, NEW b, NEW na \in Nat, NEW nb \in Nat, NEW e1, NEW e2,
           DOMAIN e1 = 1 .. na + 1, DOMAIN e2 = 1 .. nb + 1,
           \A j \in 1 .. na + 1 : e1[j] = IF j = na + 1 THEN NoLine ELSE a[j],
           \A j \in 1 .. nb + 1 : e2[j] = IF j = nb + 1 THEN NoLine ELSE b[j],
           NEW cleared, cleared = [j \in 1 .. na + nb + 1 |-> NoLine]
    PROVE  Joins(Linked(Linked(cleared, 0, e1), na, e2), a, b, na, nb)
<1> DEFINE first == Linked(cleared, 0, e1)
<1>1. /\ DOMAIN first = 1 .. na + nb + 1
      /\ \A j \in 1 .. na + nb + 1 :
           first[j] = IF j <= na THEN a[j] ELSE NoLine
  <2>1. DOMAIN first = 1 .. na + nb + 1
    BY DEF Linked
  <2>2. ASSUME NEW j \in 1 .. na + nb + 1
        PROVE  first[j] = IF j <= na THEN a[j] ELSE NoLine
    <3>1. first[j] = IF j - 0 \in 1 .. na + 1 THEN e1[j - 0] ELSE NoLine
      BY <2>2 DEF Linked
    <3>2. j - 0 = j /\ (j \in 1 .. na + 1 <=> j <= na + 1)
      BY <2>2
    <3>3. QED
      BY <2>2, <3>1, <3>2
  <2>3. QED
    BY <2>1, <2>2
<1> HIDE DEF first
<1> DEFINE s == Linked(first, na, e2)
<1>2. /\ DOMAIN s = 1 .. na + nb + 1
      /\ \A j \in 1 .. na + nb + 1 :
           s[j] = IF j - na \in 1 .. nb + 1 THEN e2[j - na] ELSE first[j]
      /\ s = [j \in 1 .. na + nb + 1 |-> s[j]]
  BY <1>1 DEF Linked
<1>3. ASSUME NEW j \in 1 .. na + nb + 1
      PROVE  s[j] = IF j <= na THEN a[j]
                    ELSE IF j = na + nb + 1 THEN NoLine ELSE b[j - na]
  <2>1. CASE j <= na
    <3>1. j - na \notin 1 .. nb + 1
      BY <1>3, <2>1
    <3>2. QED
      BY <1>1, <1>2, <1>3, <2>1, <3>1
  <2>2. CASE ~ (j <= na)
    <3>1. j - na \in 1 .. nb + 1 /\ (j - na = nb + 1 <=> j = na + nb + 1)
      BY <1>3, <2>2
    <3>2. s[j] = e2[j - na]
      BY <1>2, <1>3, <3>1
    <3>3. e2[j - na] = IF j - na = nb + 1 THEN NoLine ELSE b[j - na]
      BY <3>1
    <3>4. QED
      BY <2>2, <3>1, <3>2, <3>3
  <2>3. QED
    BY <2>1, <2>2
<1>4. Joins(s, a, b, na, nb)
  BY <1>2, <1>3 DEF Joins
<1>5. QED
  BY <1>4 DEF first

(* A line is twice in the array if it is twice in a list or in both lists. *)
HasBoth(s, a, b, na, nb) ==
    /\ s \in Seq(Lines \cup {NoLine})
    /\ Len(s) = na + nb + 1 /\ ~ Twice(s, NoLine)
    /\ \A l \in Lines : Twice(s, l) <=> Twice(a, l) \/ Twice(b, l)
         \/ \E i \in 1 .. na, j \in 1 .. nb : a[i] = l /\ b[j] = l

LEMMA JoinsTwice ==
    ASSUME NEW na \in Nat, NEW nb \in Nat,
           NEW a \in [1 .. na -> Lines], NEW b \in [1 .. nb -> Lines],
           NEW s, Joins(s, a, b, na, nb)
    PROVE  HasBoth(s, a, b, na, nb)
<1> USE DEF NoLine
<1>0. Lines \subseteq Nat \ {0}
  BY DsortAssumption
<1>1. ASSUME NEW i \in 1 .. na PROVE a[i] \in Nat /\ a[i] # 0 /\ i \in Nat
  <2>1. a[i] \in Lines /\ i \in Nat
    OBVIOUS
  <2>2. a[i] \in Nat \ {0}
    BY <1>0, <2>1, Zenon
  <2>3. QED
    BY <2>1, <2>2
<1>2. ASSUME NEW i \in 1 .. nb PROVE b[i] \in Nat /\ b[i] # 0 /\ i \in Nat
  <2>1. b[i] \in Lines /\ i \in Nat
    OBVIOUS
  <2>2. b[i] \in Nat \ {0}
    BY <1>0, <2>1, Zenon
  <2>3. QED
    BY <2>1, <2>2
<1>3. DOMAIN s = 1 .. na + nb + 1
  BY DEF Joins
<1>4. \A j \in 1 .. na + nb + 1 :
        \/ j \in 1 .. na /\ s[j] = a[j]
        \/ j > na /\ j - na \in 1 .. nb /\ s[j] = b[j - na]
        \/ j = na + nb + 1 /\ s[j] = NoLine
  <2>1. SUFFICES ASSUME NEW j \in 1 .. na + nb + 1
                 PROVE  \/ j \in 1 .. na /\ s[j] = a[j]
                        \/ j > na /\ j - na \in 1 .. nb /\ s[j] = b[j - na]
                        \/ j = na + nb + 1 /\ s[j] = NoLine
    OBVIOUS
  <2>2. s[j] = IF j <= na THEN a[j]
               ELSE IF j = na + nb + 1 THEN NoLine ELSE b[j - na]
    BY <1>3 DEF Joins
  <2>3. CASE j <= na
    BY <2>2, <2>3
  <2>4. CASE ~ (j <= na) /\ j = na + nb + 1
    BY <2>2, <2>4
  <2>5. CASE ~ (j <= na) /\ j # na + nb + 1
    BY <2>2, <2>5
  <2>6. QED
    BY <2>3, <2>4, <2>5
<1>5. \A i \in 1 .. na : i \in 1 .. na + nb + 1 /\ s[i] = a[i]
  <2>1. \A i \in 1 .. na : i \in 1 .. na + nb + 1 /\ i <= na
    OBVIOUS
  <2>2. QED
    BY <1>3, <2>1 DEF Joins
<1>6. \A i \in 1 .. nb : na + i \in 1 .. na + nb + 1 /\ s[na + i] = b[i]
  <2>1. \A i \in 1 .. nb : /\ na + i \in 1 .. na + nb + 1 /\ ~ (na + i <= na)
                           /\ na + i # na + nb + 1 /\ (na + i) - na = i
    OBVIOUS
  <2>2. QED
    BY <1>3, <2>1 DEF Joins
<1>7. s \in Seq(Lines \cup {NoLine}) /\ Len(s) = na + nb + 1
  <2>1. \A j \in 1 .. na + nb + 1 : s[j] \in Lines \cup {NoLine}
    BY <1>4
  <2>2. s \in [1 .. na + nb + 1 -> Lines \cup {NoLine}]
    BY <1>3, <2>1 DEF Joins
  <2>3. na + nb + 1 \in Nat
    OBVIOUS
  <2>4. QED
    BY <2>2, <2>3
<1>8. ~ Twice(s, NoLine)
  <2>1. \A j \in 1 .. na + nb + 1 : s[j] = NoLine => j = na + nb + 1
    BY <1>1, <1>2, <1>4
  <2>2. QED
    BY <1>3, <2>1 DEF Twice
<1>9. ASSUME NEW l \in Lines
      PROVE  Twice(s, l) <=> Twice(a, l) \/ Twice(b, l)
               \/ \E i \in 1 .. na, j \in 1 .. nb : a[i] = l /\ b[j] = l
  <2>1. l # NoLine
    BY <1>0
  <2>2. ASSUME NEW i \in 1 .. na + nb + 1, NEW j \in 1 .. na + nb + 1, i # j,
               s[i] = l, s[j] = l
        PROVE  Twice(a, l) \/ Twice(b, l)
               \/ \E g \in 1 .. na, h \in 1 .. nb : a[g] = l /\ b[h] = l
    <3>1. /\ (i \in 1 .. na /\ a[i] = l)
               \/ (i - na \in 1 .. nb /\ b[i - na] = l)
          /\ (j \in 1 .. na /\ a[j] = l)
               \/ (j - na \in 1 .. nb /\ b[j - na] = l)
      BY <1>4, <2>1, <2>2
    <3>2. i - na # j - na
      BY <2>2
    <3>3. QED
      BY <3>1, <3>2, <2>2 DEF Twice
  <2>3. ASSUME Twice(a, l) PROVE Twice(s, l)
    BY <1>3, <1>5, <2>3 DEF Twice
  <2>4. ASSUME Twice(b, l) PROVE Twice(s, l)
    <3>1. PICK i \in 1 .. nb, j \in 1 .. nb : i # j /\ b[i] = l /\ b[j] = l
      BY <2>4 DEF Twice
    <3>2. na + i # na + j
      BY <3>1
    <3>3. QED
      BY <1>3, <1>6, <3>1, <3>2 DEF Twice
  <2>5. ASSUME NEW i \in 1 .. na, NEW j \in 1 .. nb, a[i] = l, b[j] = l
        PROVE  Twice(s, l)
    <3>1. i # na + j
      OBVIOUS
    <3>2. QED
      BY <1>3, <1>5, <1>6, <2>5, <3>1 DEF Twice
  <2>6. Twice(s, l) => Twice(a, l) \/ Twice(b, l)
               \/ \E g \in 1 .. na, h \in 1 .. nb : a[g] = l /\ b[h] = l
    BY <1>3, <2>2 DEF Twice
  <2>7. QED
    BY <2>3, <2>4, <2>5, <2>6
<1>10. QED
  BY <1>7, <1>8, <1>9 DEF HasBoth

(* collect_data: when no signal has come, the array has what was written.  *)
LEMMA CollectIs ==
    ASSUME DsortInv, Collect, ~stopSignal
    PROVE  DataIsAll' /\ data' \in Seq(Lines \cup {NoLine})
<1> USE DEF DsortInv
<1> DEFINE n1 == Len(out[1])
           n2 == Len(out[2])
<1>1. pc = "collect" /\ ret = "none" /\ Complete(1) /\ Complete(2) /\ out' = out
  BY DEF Collect, OrderInv, Place, childVars
<1>2. records[1] = out[1] /\ records[2] = out[2]
  BY <1>1, CompleteIsRead DEF P
<1>3. /\ out[1] \in Seq(Lines) /\ out[2] \in Seq(Lines)
      /\ DOMAIN out[1] = 1 .. n1 /\ DOMAIN out[2] = 1 .. n2
      /\ n1 \in Nat /\ n2 \in Nat
      /\ out[1] \in [1 .. n1 -> Lines] /\ out[2] \in [1 .. n2 -> Lines]
  BY DEF ProcessTypes, P
<1>4. Joins(data', out[1], out[2], n1, n2)
  <2>1. data' = Linked(Linked([j \in 1 .. n1 + n2 + 1 |-> NoLine], 0,
                              WithEmpty(1)), n1, WithEmpty(2))
    BY <1>1, <1>2 DEF Collect
  <2>2. /\ DOMAIN WithEmpty(1) = 1 .. n1 + 1
        /\ \A j \in 1 .. n1 + 1 :
             WithEmpty(1)[j] = IF j = n1 + 1 THEN NoLine ELSE out[1][j]
    BY <1>2, <1>3 DEF WithEmpty
  <2>3. /\ DOMAIN WithEmpty(2) = 1 .. n2 + 1
        /\ \A j \in 1 .. n2 + 1 :
             WithEmpty(2)[j] = IF j = n2 + 1 THEN NoLine ELSE out[2][j]
    BY <1>2, <1>3 DEF WithEmpty
  <2> HIDE DEF n1, n2
  <2>4. QED
    BY <1>3, <2>1, <2>2, <2>3, LinkedJoins
<1>5. /\ data' \in Seq(Lines \cup {NoLine}) /\ Len(data') = n1 + n2 + 1 /\ ~ Twice(data', NoLine)
      /\ \A l \in Lines : Twice(data', l) <=>
           Twice(out[1], l) \/ Twice(out[2], l)
           \/ \E i \in 1 .. n1, j \in 1 .. n2 : out[1][i] = l /\ out[2][j] = l
  <2> HIDE DEF n1, n2
  <2>1. HasBoth(data', out[1], out[2], n1, n2)
    BY <1>3, <1>4, JoinsTwice, Zenon
  <2>2. QED
    BY <2>1 DEF HasBoth
<1>6. data' # << >>
  <2> HIDE DEF n1, n2
  <2>1. Len(data') = n1 + n2 + 1 /\ n1 \in Nat /\ n2 \in Nat
    BY <1>3, <1>5
  <2>2. Len(data') # 0
    BY <2>1
  <2>3. QED
    BY <2>2
<1>7. ASSUME NEW l \in Lines PROVE Twice(data', l) <=> Occurrences(l) > 1
  <2>1. Occurrences(l) > 1 <=>
          \E p, q \in P : \E i \in DOMAIN out[p], j \in DOMAIN out[q] :
            <<p, i>> # <<q, j>> /\ out[p][i] = l /\ out[q][j] = l
    BY OccurrencesAre
  <2>2. \A p, q \in P : \A i, j \in Nat :
          <<p, i>> # <<q, j>> <=> p # q \/ i # j
    OBVIOUS
  <2>3. Occurrences(l) > 1 <=>
          \E p, q \in P : \E i \in DOMAIN out[p], j \in DOMAIN out[q] :
            (p # q \/ i # j) /\ out[p][i] = l /\ out[q][j] = l
    <3>1. \A p \in P : \A i \in DOMAIN out[p] : i \in Nat
      BY <1>3 DEF P
    <3>2. QED
      BY <2>1, <2>2, <3>1, Zenon
  <2> DEFINE Both(p, q) ==
               \E i \in DOMAIN out[p], j \in DOMAIN out[q] :
                 (p # q \/ i # j) /\ out[p][i] = l /\ out[q][j] = l
  <2>4. Occurrences(l) > 1 <=> Both(1, 1) \/ Both(1, 2) \/ Both(2, 1) \/ Both(2, 2)
    BY <2>3 DEF P
  <2>5. Both(1, 1) = Twice(out[1], l) /\ Both(2, 2) = Twice(out[2], l)
    BY DEF Twice
  <2>6. /\ Both(1, 2) <=> \E i \in 1 .. n1, j \in 1 .. n2 :
                            out[1][i] = l /\ out[2][j] = l
        /\ Both(2, 1) <=> Both(1, 2)
    BY <1>3
  <2>7. QED
    BY <1>5, <2>4, <2>5, <2>6
<1>8. \A l : Occurrences(l)' = Occurrences(l)
  BY <1>1 DEF Occurrences
<1>9. QED
  BY <1>5, <1>6, <1>7, <1>8 DEF DataIsAll

OutInv == OutputTypes /\ OutputInv /\ OutputIsDuplicates

(* Lines are numbers, and NoLine is one too.                               *)
LEMMA DataIsNumbers ==
    ASSUME OutputTypes
    PROVE  /\ data \in Seq(Nat) /\ DOMAIN data = 1 .. Len(data)
           /\ Len(data) \in Nat /\ k \in Nat
           /\ \A j \in 1 .. Len(data) : data[j] \in Nat
           /\ printed \in Seq(Nat) /\ DOMAIN printed = 1 .. Len(printed)
           /\ Len(printed) \in Nat
           /\ \A j \in 1 .. Len(printed) : printed[j] \in Nat
           /\ lastprt \in Nat
<1>1. Lines \cup {NoLine} \subseteq Nat
  BY DsortAssumption DEF NoLine
<1>2. /\ data \in Seq(Lines \cup {NoLine}) /\ printed \in Seq(Lines \cup {NoLine})
      /\ k \in Nat /\ lastprt \in Lines \cup {NoLine}
  BY DEF OutputTypes
<1>3. data \in Seq(Nat) /\ printed \in Seq(Nat)
  BY <1>1, <1>2
<1>4. QED
  BY <1>1, <1>2, <1>3

LEMMA InitOutput == Init => OutInv
<1> SUFFICES ASSUME Init PROVE OutInv
  OBVIOUS
<1>1. OutputTypes
  BY DEF Init, OutputTypes
<1>2. OutputInv /\ OutputIsDuplicates
  BY DEF Init, OutputInv, OutputIsDuplicates
<1>3. QED
  BY <1>1, <1>2 DEF OutInv

(* Steps that do not touch the array and the output, and stay at a place,  *)
(* move between places before the array is filled, or give up.             *)
LEMMA OutputKeeps ==
    ASSUME OutInv, UNCHANGED <<out, outVars>>,
           \/ /\ pc' = pc /\ ret' = ret
              /\ stopSignal => stopSignal'
           \/ /\ ret' = ret /\ ret # "success"
              /\ pc \notin {"sort", "uniq", "print", "exit"}
              /\ pc' \notin {"sort", "uniq", "print"}
           \/ pc' = "exit" /\ ret' # "success"
           \/ /\ pc' = "exit" /\ stopSignal' /\ pc \notin {"print", "exit"}
    PROVE  OutInv'
<1>1. UNCHANGED <<data, k, lastprt, printed>>
  BY DEF outVars
<1>2. OutputTypes'
  BY <1>1 DEF OutInv, OutputTypes
<1>3. \A l : Occurrences(l)' = Occurrences(l)
  BY DEF Occurrences
<1>4. DataIsAll' = DataIsAll /\ DataSorted' = DataSorted /\ PrintInv' = PrintInv
  BY <1>1, <1>3 DEF DataIsAll, DataSorted, PrintInv, FoundSoFar
<1>5. Duplicates' = Duplicates
  BY <1>3 DEF Duplicates
<1>6. OutputInv'
  BY <1>1, <1>4 DEF OutInv, OutputInv
<1>7. OutputIsDuplicates'
  BY <1>1, <1>5 DEF OutInv, OutputInv, OutputIsDuplicates
<1>8. QED
  BY <1>2, <1>6, <1>7 DEF OutInv

(* In a sorted array, a line that is there twice is equal to its neighbour.*)
LEMMA NeighboursAre ==
    ASSUME NEW s \in Seq(Nat), NEW l,
           \A i, j \in DOMAIN s : i < j => s[i] <= s[j]
    PROVE  Twice(s, l) <=> \E m \in 1 .. Len(s) - 1 : s[m] = s[m + 1] /\ s[m] = l
<1>1. DOMAIN s = 1 .. Len(s) /\ Len(s) \in Nat /\ \A m \in 1 .. Len(s) : s[m] \in Nat
  OBVIOUS
<1>2. ASSUME NEW i \in 1 .. Len(s), NEW j \in 1 .. Len(s), i < j,
             s[i] = l, s[j] = l
      PROVE  \E m \in 1 .. Len(s) - 1 : s[m] = s[m + 1] /\ s[m] = l
  <2>1. i \in 1 .. Len(s) - 1 /\ i + 1 \in 1 .. Len(s) /\ i < i + 1
    BY <1>1, <1>2
  <2>2. s[i] <= s[i + 1]
    BY <1>1, <2>1
  <2>3. s[i + 1] <= s[j]
    BY <1>1, <1>2, <2>1
  <2>4. s[i] = s[i + 1]
    BY <1>1, <1>2, <2>1, <2>2, <2>3
  <2>5. QED
    BY <1>2, <2>1, <2>4
<1>3. ASSUME NEW m \in 1 .. Len(s) - 1, s[m] = s[m + 1], s[m] = l
      PROVE  Twice(s, l)
  <2>1. m \in DOMAIN s /\ m + 1 \in DOMAIN s /\ m # m + 1
    BY <1>1
  <2>2. QED
    BY <1>3, <2>1 DEF Twice
<1>4. ASSUME Twice(s, l)
      PROVE  \E m \in 1 .. Len(s) - 1 : s[m] = s[m + 1] /\ s[m] = l
  <2>1. PICK i \in 1 .. Len(s), j \in 1 .. Len(s) : i # j /\ s[i] = l /\ s[j] = l
    BY <1>1, <1>4 DEF Twice
  <2>2. i < j \/ j < i
    BY <2>1
  <2>3. QED
    BY <1>2, <2>1, <2>2
<1>5. QED
  BY <1>3, <1>4

(* One pass of the loop of print_uniq_data.                                *)
LEMMA PrintStepFinds ==
    ASSUME OutInv, PrintStep
    PROVE  PrintInv' /\ OutputTypes'
<1> DEFINE l == data[k + 1]
<1>1. /\ pc = "print" /\ PrintInv /\ DataIsAll /\ DataSorted /\ OutputTypes
      /\ data' = data /\ k' = k + 1 /\ k + 1 < Len(data)
  BY DEF PrintStep, OutInv, OutputInv
<1>2. /\ data \in Seq(Nat) /\ DOMAIN data = 1 .. Len(data)
      /\ Len(data) \in Nat /\ k \in Nat
      /\ \A j \in 1 .. Len(data) : data[j] \in Nat
      /\ printed \in Seq(Nat) /\ DOMAIN printed = 1 .. Len(printed)
      /\ Len(printed) \in Nat
      /\ \A j \in 1 .. Len(printed) : printed[j] \in Nat
      /\ lastprt \in Nat
  BY <1>1, DataIsNumbers
<1>3. /\ k + 1 \in 1 .. Len(data) /\ k + 2 \in 1 .. Len(data) /\ l \in Nat
      /\ l \in Lines \cup {NoLine}
  BY <1>1, <1>2 DEF OutputTypes
<1>4. FoundSoFar' = IF l = data[k + 2] THEN FoundSoFar \cup {l} ELSE FoundSoFar
  <2>1. FoundSoFar' = {data[j] : j \in {m \in 1 .. k + 1 : data[m] = data[m + 1]}}
    BY <1>1 DEF FoundSoFar
  <2>2. 1 .. k + 1 = (1 .. k) \cup {k + 1} /\ (k + 1) + 1 = k + 2
    BY <1>2
  <2>3. QED
    BY <2>1, <2>2 DEF FoundSoFar
<1>5. Repeated(k') <=> l = data[k + 2] /\ l # lastprt
  BY <1>1, <1>2 DEF Repeated
<1>6. CASE ~ Repeated(k')
  <2>1. UNCHANGED <<printed, lastprt>>
    BY <1>6 DEF PrintStep
  <2>2. FoundSoFar' = FoundSoFar
    <3>1. CASE l # data[k + 2]
      BY <1>4, <3>1
    <3>2. CASE l = data[k + 2] /\ l = lastprt
      <4>1. l # NoLine
        <5>1. k + 1 # k + 2
          BY <1>2
        <5>2. QED
          BY <1>1, <1>2, <1>3, <3>2, <5>1 DEF DataIsAll, Twice
      <4>2. printed # << >> /\ l = printed[Len(printed)]
        BY <1>1, <3>2, <4>1 DEF PrintInv
      <4>3. Len(printed) \in DOMAIN printed
        BY <1>2, <4>2
      <4>4. l \in FoundSoFar
        BY <1>1, <4>2, <4>3 DEF PrintInv, Range
      <4>5. QED
        BY <1>4, <4>4
    <3>3. QED
      BY <1>5, <1>6, <3>1, <3>2
  <2>3. QED
    BY <1>1, <1>2, <2>1, <2>2 DEF PrintInv, OutputTypes
<1>7. CASE Repeated(k')
  <2>1. printed' = Append(printed, l) /\ lastprt' = l
    BY <1>1, <1>7 DEF PrintStep
  <2>2. /\ Len(printed') = Len(printed) + 1 /\ printed' # << >>
        /\ DOMAIN printed' = 1 .. Len(printed) + 1
        /\ \A j \in 1 .. Len(printed) : printed'[j] = printed[j]
        /\ printed'[Len(printed) + 1] = l
    BY <1>2, <1>3, <2>1
  <2>3. Range(printed') = Range(printed) \cup {l}
    <3>1. 1 .. Len(printed) + 1 = (1 .. Len(printed)) \cup {Len(printed) + 1}
      BY <1>2
    <3>2. /\ Range(printed') = {printed'[i] : i \in 1 .. Len(printed) + 1}
          /\ Range(printed) = {printed[i] : i \in 1 .. Len(printed)}
      BY <1>2, <2>2 DEF Range
    <3>3. {printed'[i] : i \in 1 .. Len(printed) + 1}
          = {printed'[i] : i \in 1 .. Len(printed)} \cup {l}
      BY <2>2, <3>1
    <3>4. {printed'[i] : i \in 1 .. Len(printed)}
          = {printed[i] : i \in 1 .. Len(printed)}
      BY <2>2
    <3>5. QED
      BY <3>2, <3>3, <3>4
  <2>4. Range(printed') = FoundSoFar'
    BY <1>1, <1>4, <1>5, <1>7, <2>3 DEF PrintInv
  <2>5. ASSUME NEW j \in 1 .. Len(printed) PROVE printed[j] < l
    <3>1. printed[j] \in FoundSoFar /\ printed[Len(printed)] \in FoundSoFar
      <4>1. j \in DOMAIN printed /\ Len(printed) \in DOMAIN printed
        BY <1>2
      <4>2. QED
        BY <1>1, <4>1 DEF PrintInv, Range
    <3>2. printed[Len(printed)] <= l
      <4>1. PICK m \in 1 .. k : printed[Len(printed)] = data[m]
        BY <3>1 DEF FoundSoFar
      <4>2. m \in DOMAIN data /\ k + 1 \in DOMAIN data /\ m < k + 1
        BY <1>1, <1>2
      <4>3. QED
        BY <1>1, <4>1, <4>2 DEF DataSorted
    <3>3. lastprt = printed[Len(printed)] /\ lastprt # l
      <4>1. printed # << >>
        BY <1>2
      <4>2. QED
        BY <1>1, <1>5, <1>7, <4>1 DEF PrintInv
    <3>4. printed[Len(printed)] < l
      BY <1>2, <1>3, <3>2, <3>3
    <3>5. CASE j = Len(printed)
      BY <3>4, <3>5
    <3>6. CASE j # Len(printed)
      <4>0. /\ j < Len(printed)
            /\ j \in DOMAIN printed /\ Len(printed) \in DOMAIN printed
        <5>1. Len(printed) \in Nat
          BY <1>2
        <5>2. j \in Nat /\ j <= Len(printed) /\ 1 <= j
          BY <5>1
        <5>3. j < Len(printed) /\ Len(printed) \in 1 .. Len(printed)
          BY <3>6, <5>1, <5>2
        <5>4. DOMAIN printed = 1 .. Len(printed)
          BY <1>2
        <5>5. QED
          BY <5>3, <5>4
      <4>1. printed[j] < printed[Len(printed)]
        BY <1>1, <4>0 DEF PrintInv, Increasing
      <4>2. printed[j] \in Nat /\ printed[Len(printed)] \in Nat
        BY <1>2
      <4>3. QED
        BY <1>3, <3>4, <4>1, <4>2
    <3>7. QED
      BY <3>5, <3>6
  <2>6. Increasing(printed')
    <3>1. ASSUME NEW i \in 1 .. Len(printed) + 1, NEW j \in 1 .. Len(printed) + 1,
                 i < j
          PROVE  printed'[i] < printed'[j]
      <4>1. i \in 1 .. Len(printed) /\ printed'[i] = printed[i]
        BY <1>2, <2>2, <3>1
      <4>2. CASE j = Len(printed) + 1
        BY <2>2, <2>5, <4>1, <4>2
      <4>3. CASE j # Len(printed) + 1
        <5>1. j \in 1 .. Len(printed) /\ printed'[j] = printed[j]
          BY <1>2, <2>2, <4>3
        <5>2. printed[i] < printed[j]
          BY <1>1, <1>2, <3>1, <4>1, <5>1 DEF PrintInv, Increasing
        <5>3. QED
          BY <4>1, <5>1, <5>2
      <4>4. QED
        BY <4>2, <4>3
    <3>2. QED
      BY <2>2, <3>1 DEF Increasing
  <2>7. lastprt' = IF printed' = << >> THEN NoLine ELSE printed'[Len(printed')]
    BY <2>1, <2>2
  <2>8. k' < Len(data')
    BY <1>1
  <2>9. OutputTypes'
    BY <1>1, <1>2, <1>3, <2>1 DEF OutputTypes
  <2>10. QED
    BY <2>4, <2>6, <2>7, <2>8, <2>9 DEF PrintInv
<1>8. QED
  BY <1>6, <1>7

(* At the end of the loop, the lines found are those written twice.        *)
LEMMA FinishFinds ==
    ASSUME OutInv, pc = "print", k + 1 >= Len(data)
    PROVE  Range(printed) = Duplicates /\ Increasing(printed)
<1>1. PrintInv /\ DataIsAll /\ DataSorted /\ OutputTypes
  BY DEF OutInv, OutputInv
<1>2. /\ data \in Seq(Nat) /\ DOMAIN data = 1 .. Len(data)
      /\ Len(data) \in Nat /\ k \in Nat
      /\ \A j \in 1 .. Len(data) : data[j] \in Lines \cup {NoLine}
  BY <1>1, DataIsNumbers DEF OutputTypes
<1>3. k = Len(data) - 1
  <2>1. k < Len(data)
    BY <1>1 DEF PrintInv
  <2>2. Len(data) \in Nat /\ k \in Nat
    BY <1>2
  <2>3. QED
    BY <2>1, <2>2
<1>4. \A l : Twice(data, l) <=>
               \E m \in 1 .. Len(data) - 1 : data[m] = data[m + 1] /\ data[m] = l
  BY <1>1, <1>2, NeighboursAre DEF DataSorted
<1>5. \A l : Twice(data, l) <=> l \in FoundSoFar
  BY <1>3, <1>4 DEF FoundSoFar
<1>6. \A l \in FoundSoFar : l \in Lines
  <2>1. ASSUME NEW l \in FoundSoFar PROVE l \in Lines
    <3>1. PICK m \in 1 .. k : l = data[m]
      BY <2>1 DEF FoundSoFar
    <3>2. l \in Lines \cup {NoLine}
      BY <1>2, <1>3, <3>1
    <3>3. l # NoLine
      BY <1>1, <1>5, <2>1 DEF DataIsAll
    <3>4. QED
      BY <3>2, <3>3
  <2>2. QED
    BY <2>1
<1>7. FoundSoFar = Duplicates
  BY <1>1, <1>5, <1>6 DEF DataIsAll, Duplicates
<1>8. QED
  BY <1>1, <1>7 DEF PrintInv

LEMMA OutputStep ==
    ASSUME DsortInv, OutInv, [Next]_vars
    PROVE  OutInv'
<1> USE DEF childVars, sigVars
<1>1. pc = "exit" <=> ret # "none"
  BY DEF DsortInv, OrderInv
<1>2. CASE Collect
  <2>1. CASE stopSignal
    <3>1. /\ pc = "collect" /\ pc' = "exit" /\ stopSignal'
          /\ UNCHANGED <<out, outVars>>
      BY <1>2, <2>1 DEF Collect, Exit, outVars
    <3>2. QED
      BY <3>1, OutputKeeps
  <2>2. CASE ~ stopSignal
    <3>1. /\ pc = "collect" /\ pc' = "sort" /\ ret' = ret /\ ret = "none"
          /\ UNCHANGED <<k, lastprt, printed>>
      BY <1>1, <1>2, <2>2 DEF Collect
    <3>2. DataIsAll' /\ data' \in Seq(Lines \cup {NoLine})
      BY <1>2, <2>2, CollectIs
    <3>3. QED
      BY <3>1, <3>2 DEF OutInv, OutputTypes, OutputInv, OutputIsDuplicates
  <2>3. QED
    BY <2>1, <2>2
<1>3. CASE Qsort
  <2>1. CASE stopSignal
    <3>1. /\ pc = "sort" /\ pc' = "exit" /\ stopSignal'
          /\ UNCHANGED <<out, outVars>>
      BY <1>3, <2>1 DEF Qsort, Exit, outVars
    <3>2. QED
      BY <3>1, OutputKeeps
  <2>2. CASE ~ stopSignal
    <3>1. /\ pc = "sort" /\ pc' = "uniq" /\ ret' = ret /\ ret = "none"
          /\ UNCHANGED <<out, k, lastprt, printed>>
          /\ data' = InOrder(data)
      BY <1>1, <1>3, <2>2 DEF Qsort
    <3>2. OutputTypes /\ OutputInv /\ DataIsAll
      BY <3>1 DEF OutInv, OutputInv
    <3>3. /\ data \in Seq(Nat) /\ DOMAIN data = 1 .. Len(data)
          /\ Len(data) \in Nat
      BY <3>2, DataIsNumbers
    <3>4. /\ \A l : Twice(data', l) <=> Twice(data, l)
          /\ \A i, j \in DOMAIN data : i < j => data'[i] <= data'[j]
          /\ data' \in Seq(Nat) /\ Len(data') = Len(data)
          /\ \A i \in DOMAIN data : \E m \in DOMAIN data : data'[i] = data[m]
      BY <3>1, <3>3, InOrderSorts
    <3>5. DOMAIN data' = DOMAIN data
      BY <3>3, <3>4
    <3>6. data' \in Seq(Lines \cup {NoLine})
      <4>1. \A i \in DOMAIN data : data'[i] \in Lines \cup {NoLine}
        BY <3>2, <3>4 DEF OutputTypes
      <4>2. QED
        BY <3>4, <3>5, <4>1
    <3>7. DataSorted'
      BY <3>4, <3>5 DEF DataSorted
    <3>8. DataIsAll'
      <4>1. data' # << >>
        <5>1. Len(data) # 0
          BY <3>2, <3>3 DEF DataIsAll
        <5>2. QED
          BY <3>4, <5>1
      <4>2. \A l : Occurrences(l)' = Occurrences(l)
        BY <3>1 DEF Occurrences
      <4>3. QED
        BY <3>2, <3>4, <4>1, <4>2 DEF DataIsAll
    <3>9. QED
      BY <3>1, <3>2, <3>6, <3>7, <3>8
      DEF OutInv, OutputTypes, OutputInv, OutputIsDuplicates
  <2>3. QED
    BY <2>1, <2>2
<1>4. CASE TestPrint
  <2>1. pc = "uniq" /\ UNCHANGED <<out, outVars, stopSignal>>
    BY <1>4 DEF TestPrint, Stage
  <2>2. CASE stopSignal
    <3>1. pc' = "exit"
      BY <1>4, <2>2 DEF TestPrint, Stage, Exit
    <3>2. QED
      BY <2>1, <2>2, <3>1, OutputKeeps
  <2>3. CASE ~ stopSignal
    <3>1. pc' = "print" /\ ret' = "none"
      BY <1>1, <1>4, <2>1, <2>3 DEF TestPrint, Stage
    <3>2. /\ DataIsAll /\ DataSorted /\ OutputTypes
          /\ k = 0 /\ lastprt = NoLine /\ printed = << >>
      BY <2>1 DEF OutInv, OutputInv
    <3>3. PrintInv
      <4>1. k < Len(data)
        BY <3>2, DataIsNumbers DEF DataIsAll
      <4>2. Range(printed) = {} /\ FoundSoFar = {} /\ Increasing(printed)
        BY <3>2 DEF Range, FoundSoFar, Increasing
      <4>3. QED
        BY <3>2, <4>1, <4>2 DEF PrintInv
    <3>4. UNCHANGED <<data, k, lastprt, printed, out>>
      BY <2>1 DEF outVars
    <3>5. \A l : Occurrences(l)' = Occurrences(l)
      BY <3>4 DEF Occurrences
    <3>6. DataIsAll' /\ DataSorted' /\ OutputTypes' /\ PrintInv'
      BY <3>2, <3>3, <3>4, <3>5
      DEF DataIsAll, DataSorted, OutputTypes, PrintInv, FoundSoFar
    <3>7. QED
      BY <3>1, <3>6 DEF OutInv, OutputInv, OutputIsDuplicates
  <2>4. QED
    BY <2>2, <2>3
<1>5. CASE PrintStep
  <2>1. PrintInv' /\ OutputTypes'
    BY <1>5, PrintStepFinds
  <2>2. /\ pc = "print" /\ pc' = "print" /\ ret' = "none"
        /\ data' = data /\ out' = out
    BY <1>1, <1>5 DEF PrintStep
  <2>3. \A l : Occurrences(l)' = Occurrences(l)
    BY <2>2 DEF Occurrences
  <2>4. DataIsAll' /\ DataSorted'
    BY <2>2, <2>3 DEF OutInv, OutputInv, DataIsAll, DataSorted
  <2>5. QED
    BY <2>1, <2>2, <2>4 DEF OutInv, OutputInv, OutputIsDuplicates
<1>6. CASE Finish
  <2>1. /\ pc = "print" /\ k + 1 >= Len(data) /\ pc' = "exit"
        /\ UNCHANGED <<out, data, k, lastprt, printed>>
    BY <1>6 DEF Finish, Exit, outVars
  <2>2. Range(printed) = Duplicates /\ Increasing(printed)
    BY <2>1, FinishFinds
  <2>3. Duplicates' = Duplicates
    BY <2>1 DEF Duplicates, Occurrences
  <2>4. QED
    BY <2>1, <2>2, <2>3 DEF OutInv, OutputTypes, OutputInv, OutputIsDuplicates
<1>7. CASE \/ ParseArguments \/ AllocateEnv \/ OpenPipe \/ Fork \/ OpenStream
           \/ WaitInterrupted
  <2>1. /\ UNCHANGED <<out, outVars>>
        /\ pc \in {"args", "env", "pipe", "fork", "open", "wait"}
        /\ \/ pc' = "exit" /\ ret' # "success"
           \/ pc' \in {"env", "test", "fork", "open", "read"} /\ ret' = ret
    BY <1>7
    DEF ParseArguments, AllocateEnv, OpenPipe, Fork, OpenStream,
        WaitInterrupted, Exit
  <2>2. QED
    BY <1>1, <2>1, OutputKeeps
<1>8. CASE TestLaunch
  <2>1. /\ UNCHANGED <<out, outVars, stopSignal>> /\ pc = "test"
        /\ \/ pc' = "exit" /\ stopSignal
           \/ pc' = "pipe" /\ ret' = ret
    BY <1>8 DEF TestLaunch, Stage, Exit
  <2>2. QED
    BY <1>1, <2>1, OutputKeeps
<1>9. CASE ReadLine \/ ReadEof \/ ReadStopped
  <2>1. /\ UNCHANGED <<out, outVars, ret>>
        /\ pc = "read" /\ pc' \in {"read", "wait"}
    BY <1>9 DEF ReadLine, ReadEof, ReadStopped
  <2>2. QED
    BY <1>1, <2>1, OutputKeeps
<1>10. CASE Wait
  <2>1. /\ UNCHANGED <<out, outVars>> /\ pc = "wait"
        /\ \/ pc' = "exit" /\ ret' # "success"
           \/ pc' \in {"test", "collect"} /\ ret' = ret
    BY <1>10 DEF Wait, Exit
  <2>2. QED
    BY <1>1, <2>1, OutputKeeps
<1>11. CASE (\E p \in P : Child(p)) \/ UNCHANGED vars
  <2>1. UNCHANGED <<out, outVars, pc, ret, stopSignal>>
    BY <1>11
    DEF Child, ChildWrites, ChildBreaks, ChildEnds, ChildKilled, parentVars, vars
  <2>2. QED
    BY <2>1, OutputKeeps
<1>12. CASE SignalHandler
  <2>1. /\ UNCHANGED <<out, outVars>>
        /\ \/ pc' = "exit" /\ ret' # "success"
           \/ pc' = pc /\ ret' = ret /\ stopSignal'
    BY <1>12 DEF SignalHandler, Exit
  <2>2. QED
    BY <2>1, OutputKeeps
<1>13. QED
  BY <1>2, <1>3, <1>4, <1>5, <1>6, <1>7, <1>8, <1>9, <1>10, <1>11, <1>12
  DEF Next, Parent

(* Whatever the commands write and whenever signals come: when dsort       *)
(* reports success it has printed the lines that were written more than    *)
(* once, each once and in order, or nothing because of a SIGINT.           *)
THEOREM DsortOutput == Spec => []OutputIsDuplicates
<1>1. Init => OutInv
  BY InitOutput
<1>2. DsortInv /\ OutInv /\ [Next]_vars => OutInv'
  BY OutputStep
<1>3. OutInv => OutputIsDuplicates
  BY DEF OutInv
<1>4. QED
  BY <1>1, <1>2, <1>3, DsortInvariant, PTL DEF Spec

(* Every variable of dsort keeps its type.                                 *)
THEOREM DsortTypes == Spec => []TypeOK
<1>1. Init => OutInv
  BY InitOutput
<1>2. DsortInv /\ OutInv /\ [Next]_vars => OutInv'
  BY OutputStep
<1>3. DsortInv /\ OutInv => TypeOK
  BY DEF DsortInv, OutInv, TypeOK
<1>4. QED
  BY <1>1, <1>2, <1>3, DsortInvariant, PTL DEF Spec

================================================================================

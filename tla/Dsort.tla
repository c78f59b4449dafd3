--------------------------------- MODULE Dsort ---------------------------------
(***************************************************************************)
(* dsort (Beispiel 2): the parent runs two commands one after the other,   *)
(* reads what each writes into a pipe, and prints the lines that occur     *)
(* more than once. SIGINT may come at any moment.                          *)
(*                                                                         *)
(* A line is a number and strcmp is the order of numbers; NoLine is the    *)
(* empty string in the record behind the last line. pc is args, env (the   *)
(* handler is installed, env is not allocated), test, pipe, fork, open     *)
(* (do_parent_work up to fdopen), read, wait, collect, sort, uniq (the     *)
(* test before print_uniq_data), print, or exit.                           *)
(***************************************************************************)
EXTENDS Integers, SequencesExt

CONSTANTS
    Lines,          \* what a command may write
    MaxLines,       \* how many lines a command writes (a bound)
    PipeSize,       \* how many lines a pipe holds
    MaxSignals      \* how many signals there are (a bound)

ASSUME DsortAssumption ==
    /\ Lines \subseteq Nat \ {0}
    /\ MaxLines \in Nat /\ MaxSignals \in Nat
    /\ PipeSize \in Nat \ {0}

NoLine == 0
P == {1, 2}

(* How a command ends: exit(0), another status, or by a signal (abort, if  *)
(* execvp failed).                                                         *)
Statuses == {"zero", "nonzero", "signalled"}

VARIABLES
    out, plan,              \* what the commands will write, and how they end
    child, sent, status,    \* of the child processes
    pipe,                   \* what is in the pipes
    stdinEnd, stdoutEnd,    \* fd of the parent: is it open?
    pc, cur, ret, stopSignal,
    records,                \* the list of params.data, without its last node
    data, k, lastprt, printed,
    signals, late           \* a signal came where nothing could be closed yet

childVars == <<out, plan, child, sent, status>>
fdVars == <<stdinEnd, stdoutEnd>>
outVars == <<data, k, lastprt, printed>>
sigVars == <<stopSignal, signals, late>>
vars == <<childVars, pipe, fdVars, pc, cur, ret, records, outVars, sigVars>>

ProcessTypes ==
    /\ out \in [P -> Seq(Lines)] /\ \A p \in P : Len(out[p]) <= MaxLines
    /\ plan \in [P -> Statuses]
    /\ child \in [P -> {"none", "running", "zombie", "reaped"}]
    /\ sent \in [P -> Nat] /\ \A p \in P : sent[p] <= Len(out[p])
    /\ status \in [P -> Statuses \union {"none"}]
    /\ pipe \in [P -> Seq(Lines)] /\ \A p \in P : Len(pipe[p]) <= PipeSize
    /\ stdinEnd \in [P -> BOOLEAN] /\ stdoutEnd \in [P -> BOOLEAN]
    /\ pc \in {"args", "env", "test", "pipe", "fork", "open", "read", "wait",
               "collect", "sort", "uniq", "print", "exit"}
    /\ cur \in P
    /\ ret \in {"none", "success", "failure", "crashed", "killed"}
    /\ records \in [P -> Seq(Lines)]
    /\ stopSignal \in BOOLEAN /\ late \in BOOLEAN /\ signals \in 0 .. MaxSignals

OutputTypes ==
    /\ data \in Seq(Lines \union {NoLine})
    /\ k \in Nat /\ lastprt \in Lines \union {NoLine}
    /\ printed \in Seq(Lines \union {NoLine})

TypeOK == ProcessTypes /\ OutputTypes

Init ==
    /\ out \in [P -> BoundedSeq(Lines, MaxLines)] /\ plan \in [P -> Statuses]
    /\ child = [p \in P |-> "none"] /\ sent = [p \in P |-> 0]
    /\ status = [p \in P |-> "none"]
    /\ pipe = [p \in P |-> << >>]
    /\ stdinEnd = [p \in P |-> FALSE] /\ stdoutEnd = [p \in P |-> FALSE]
    /\ pc = "args" /\ cur = 1 /\ ret = "none"
    /\ stopSignal = FALSE /\ signals = 0 /\ late = FALSE
    /\ records = [p \in P |-> << >>]
    /\ data = << >> /\ k = 0 /\ lastprt = NoLine /\ printed = << >>

(* The end of the process closes its files; bail_out and main free first.  *)
Exit(code) ==
    /\ pc' = "exit" /\ ret' = code
    /\ stdinEnd' = [p \in P |-> FALSE] /\ stdoutEnd' = [p \in P |-> FALSE]

(***************************************************************************)
(* main and launch                                                         *)
(***************************************************************************)

(* parse_arguments leaves with a usage text or the handler is installed.   *)
ParseArguments ==
    /\ pc = "args"
    /\ \/ Exit("failure")
       \/ pc' = "env" /\ UNCHANGED <<ret, fdVars>>
    /\ UNCHANGED <<childVars, pipe, cur, records, outVars, sigVars>>

AllocateEnv ==
    /\ pc = "env"
    /\ \/ Exit("failure")
       \/ pc' = "test" /\ UNCHANGED <<ret, fdVars>>
    /\ UNCHANGED <<childVars, pipe, cur, records, outVars, sigVars>>

(* Every stage of main begins with: if( stopSignal == 0 ).                 *)
Stage(from, to) ==
    /\ pc = from
    /\ IF stopSignal THEN Exit("success")
                     ELSE pc' = to /\ UNCHANGED <<ret, fdVars>>
    /\ UNCHANGED <<childVars, pipe, cur, records, outVars, sigVars>>

TestLaunch == Stage("test", "pipe")

OpenPipe ==
    /\ pc = "pipe"
    /\ \/ Exit("failure")
       \/ /\ pc' = "fork"
          /\ stdinEnd' = [stdinEnd EXCEPT ![cur] = TRUE]
          /\ stdoutEnd' = [stdoutEnd EXCEPT ![cur] = TRUE]
          /\ UNCHANGED ret
    /\ UNCHANGED <<childVars, pipe, cur, records, outVars, sigVars>>

Fork ==
    /\ pc = "fork"
    /\ \/ Exit("failure") /\ UNCHANGED child
       \/ /\ child' = [child EXCEPT ![cur] = "running"]
          /\ pc' = "open" /\ UNCHANGED <<ret, fdVars>>
    /\ UNCHANGED <<out, plan, sent, status, pipe, cur, records, outVars,
                   sigVars>>

(* Wrong: the child is waited for before its output is read.               *)
WaitFirst ==
    /\ pc = "open" /\ pc' = "wait"
    /\ stdoutEnd' = [stdoutEnd EXCEPT ![cur] = FALSE]
    /\ UNCHANGED <<childVars, pipe, stdinEnd, cur, ret, records, outVars,
                   sigVars>>

(* fdopen fails if the handler has closed the file; fgets follows NULL.    *)
OpenStream ==
    /\ pc = "open"
    /\ IF stdinEnd[cur]
       THEN /\ pc' = "read"
            /\ stdoutEnd' = [stdoutEnd EXCEPT ![cur] = FALSE]
            /\ UNCHANGED <<stdinEnd, ret>>
       ELSE Exit("crashed")
    /\ UNCHANGED <<childVars, pipe, cur, records, outVars, sigVars>>

(***************************************************************************)
(* do_parent_work                                                          *)
(***************************************************************************)

(* fgets returns a line, and stopSignal is not set after it.               *)
ReadLine ==
    /\ pc = "read" /\ ~stopSignal /\ pipe[cur] # << >>
    /\ pipe' = [pipe EXCEPT ![cur] = Tail(@)]
    /\ records' = [records EXCEPT ![cur] = Append(@, Head(pipe[cur]))]
    /\ UNCHANGED <<childVars, fdVars, pc, cur, ret, outVars, sigVars>>

(* fgets returns NULL: nobody has the other end, which the child keeps as  *)
(* fd[1] too, so it must have ended.                                       *)
ReadEof ==
    /\ pc = "read" /\ ~stopSignal
    /\ pipe[cur] = << >> /\ child[cur] # "running"
    /\ pc' = "wait"
    /\ UNCHANGED <<childVars, pipe, fdVars, cur, ret, records, outVars,
                   sigVars>>

(* The loop is left after the fgets that a signal interrupts, or that      *)
(* returns first after it: without a closed file, it may have to wait.     *)
ReadStopped ==
    /\ pc = "read" /\ stopSignal
    /\ ~stdinEnd[cur] \/ pipe[cur] # << >> \/ child[cur] # "running"
    /\ pc' = "wait"
    /\ pipe' = [pipe EXCEPT ![cur] = IF @ = << >> THEN @ ELSE Tail(@)]
    /\ UNCHANGED <<childVars, fdVars, cur, ret, records, outVars, sigVars>>

(* Wrong: the status is not looked at.                                     *)
AnyStatus(s) == TRUE

(* ! ( WIFEXITED(status) && WEXITSTATUS(status) != EXIT_SUCCESS )          *)
StatusGood(s) == s # "nonzero"

Wait ==
    /\ pc = "wait" /\ child[cur] = "zombie"
    /\ child' = [child EXCEPT ![cur] = "reaped"]
    /\ IF ~StatusGood(status[cur])
       THEN Exit("failure") /\ UNCHANGED cur
       ELSE /\ IF cur = 1 THEN pc' = "test" /\ cur' = 2
                          ELSE pc' = "collect" /\ UNCHANGED cur
            /\ UNCHANGED <<ret, fdVars>>
    /\ UNCHANGED <<out, plan, sent, status, pipe, records, outVars, sigVars>>

(***************************************************************************)
(* collect_data, qsort, print_uniq_data                                    *)
(***************************************************************************)

(* link_collected_data(offset, head, size) goes on to the end of the list, *)
(* one empty record beyond size.                                           *)
Linked(array, offset, list) ==
    [j \in DOMAIN array |->
        IF j - offset \in DOMAIN list THEN list[j - offset] ELSE array[j]]

WithEmpty(p) == Append(records[p], NoLine)

Collect ==
    /\ pc = "collect"
    /\ IF stopSignal
       THEN Exit("success") /\ UNCHANGED data
       ELSE LET length == Len(records[1]) + Len(records[2]) + 1
                cleared == [j \in 1 .. length |-> NoLine]
            IN  /\ data' = Linked(Linked(cleared, 0, WithEmpty(1)),
                                  Len(records[1]), WithEmpty(2))
                /\ pc' = "sort" /\ UNCHANGED <<ret, fdVars>>
    /\ UNCHANGED <<childVars, pipe, cur, records, k, lastprt, printed, sigVars>>

(* The line at i goes behind those that strcmp finds smaller. Equal lines  *)
(* are the same to everybody, so that qsort may exchange them.             *)
Position(s, i) ==
    Cardinality({m \in DOMAIN s : s[m] < s[i] \/ (s[m] = s[i] /\ m <= i)})

InOrder(s) ==
    [j \in DOMAIN s |-> s[CHOOSE m \in DOMAIN s : Position(s, m) = j]]

Qsort ==
    /\ pc = "sort"
    /\ IF stopSignal
       THEN Exit("success") /\ UNCHANGED data
       ELSE /\ data' = InOrder(data)
            /\ pc' = "uniq" /\ UNCHANGED <<ret, fdVars>>
    /\ UNCHANGED <<childVars, pipe, cur, records, k, lastprt, printed, sigVars>>

(* if( stopSignal == 0 ) print_uniq_data()                                 *)
TestPrint == Stage("uniq", "print")

(* Wrong: a line that occurs three times is printed twice.                 *)
EqualsNext(j) == data[j] = data[j + 1]

(* A line that is equal to the next one, and not the last one printed.     *)
Repeated(j) == data[j] = data[j + 1] /\ data[j] # lastprt

(* One pass of the loop; k is i of the source plus one.                    *)
PrintStep ==
    /\ pc = "print" /\ k + 1 < Len(data)
    /\ k' = k + 1
    /\ IF Repeated(k')
       THEN printed' = Append(printed, data[k']) /\ lastprt' = data[k']
       ELSE UNCHANGED <<printed, lastprt>>
    /\ UNCHANGED <<childVars, pipe, fdVars, pc, cur, ret, records, data,
                   sigVars>>

Finish ==
    /\ pc = "print" /\ k + 1 >= Len(data)
    /\ Exit("success")
    /\ UNCHANGED <<childVars, pipe, cur, records, outVars, sigVars>>

Parent ==
    \/ ParseArguments \/ AllocateEnv \/ TestLaunch \/ OpenPipe \/ Fork
    \/ OpenStream \/ ReadLine \/ ReadEof \/ ReadStopped \/ Wait
    \/ Collect \/ Qsort \/ TestPrint \/ PrintStep \/ Finish

(***************************************************************************)
(* The children                                                            *)
(***************************************************************************)

parentVars == <<fdVars, pc, cur, ret, records, outVars, sigVars>>

Die(p, s) ==
    /\ child' = [child EXCEPT ![p] = "zombie"]
    /\ status' = [status EXCEPT ![p] = s]

ChildWrites(p) ==
    /\ child[p] = "running" /\ sent[p] < Len(out[p])
    /\ stdinEnd[p] /\ Len(pipe[p]) < PipeSize
    /\ pipe' = [pipe EXCEPT ![p] = Append(@, out[p][sent[p] + 1])]
    /\ sent' = [sent EXCEPT ![p] = @ + 1]
    /\ UNCHANGED <<out, plan, child, status, parentVars>>

(* Nobody reads: SIGPIPE, or a write error that the command reports. The   *)
(* same happens to a command whose standard output is closed.              *)
ChildBreaks(p) ==
    /\ child[p] = "running" /\ sent[p] < Len(out[p])
    /\ ~stdinEnd[p]
    /\ \E s \in {"nonzero", "signalled"} : Die(p, s)
    /\ UNCHANGED <<out, plan, sent, pipe, parentVars>>

ChildEnds(p) ==
    /\ child[p] = "running" /\ sent[p] = Len(out[p])
    /\ Die(p, plan[p])
    /\ UNCHANGED <<out, plan, sent, pipe, parentVars>>

(* Ctrl-C goes to the commands as well.                                    *)
ChildKilled(p) ==
    /\ child[p] = "running" /\ signals > 0
    /\ Die(p, "signalled")
    /\ UNCHANGED <<out, plan, sent, pipe, parentVars>>

Child(p) ==
    ChildWrites(p) \/ ChildBreaks(p) \/ ChildEnds(p) \/ ChildKilled(p)

(***************************************************************************)
(* Signals                                                                 *)
(***************************************************************************)

(* signal_handler closes whatever is open. Before it is installed SIGINT   *)
(* kills, and before env is allocated the handler follows NULL.            *)
SignalHandler ==
    /\ pc # "exit" /\ signals < MaxSignals
    /\ signals' = signals + 1
    /\ CASE pc = "args" -> Exit("killed") /\ UNCHANGED stopSignal
         [] pc = "env" -> Exit("crashed") /\ UNCHANGED stopSignal
         [] OTHER -> /\ stopSignal' = TRUE
                     /\ stdinEnd' = [p \in P |-> FALSE]
                     /\ stdoutEnd' = [p \in P |-> FALSE]
                     /\ UNCHANGED <<pc, ret>>
    /\ late' = (late \/ pc = "pipe")
    /\ UNCHANGED <<childVars, pipe, cur, records, outVars>>

(* waitpid is not restarted: bail_out, and the child is not reaped.        *)
WaitInterrupted ==
    /\ pc = "wait" /\ child[cur] = "running" /\ signals < MaxSignals
    /\ signals' = signals + 1 /\ stopSignal' = TRUE
    /\ Exit("failure")
    /\ UNCHANGED <<childVars, pipe, cur, records, outVars, late>>

Next ==
    \/ Parent
    \/ \E p \in P : Child(p)
    \/ SignalHandler \/ WaitInterrupted

(* Both programs are scheduled, and the commands come to an end.           *)
Fairness == WF_vars(Parent) /\ \A p \in P : WF_vars(Child(p))

Spec == Init /\ [][Next]_vars /\ Fairness

(***************************************************************************)
(* Properties                                                              *)
(***************************************************************************)

(* sort | uniq -d: each line that the commands wrote more than once.       *)
Occurrences(l) ==
    Cardinality({at \in P \X (1 .. MaxLines) :
                   at[2] <= Len(out[at[1]]) /\ out[at[1]][at[2]] = l})

Duplicates == {l \in Lines : Occurrences(l) > 1}

Increasing(s) == \A i, j \in DOMAIN s : i < j => s[i] < s[j]

(* When dsort reports success it has printed exactly the lines that the    *)
(* two commands wrote more than once, each once and in order, or, if a     *)
(* SIGINT came, possibly nothing at all; never a part of them, never one   *)
(* that the empty record caused.                                           *)
OutputIsDuplicates ==
    ret = "success" =>
        \/ Range(printed) = Duplicates /\ Increasing(printed)
        \/ stopSignal /\ printed = << >>

(* A success also means that every command that was started has ended, was *)
(* waited for, and did not report a failure of its own; and, unless a      *)
(* SIGINT came, that every line that it wrote is in its list: none was     *)
(* lost, doubled, or left in the pipe.                                     *)
SuccessIsComplete ==
    ret = "success" =>
        \A p \in P :
            /\ child[p] \in {"none", "reaped"} /\ status[p] # "nonzero"
            /\ ~stopSignal => /\ child[p] = "reaped"
                             /\ records[p] = out[p] /\ pipe[p] = << >>

(* Why SuccessIsComplete holds. A command that has come to its end: waited *)
(* for, without a failure, and read to the last line.                      *)
Complete(p) ==
    /\ child[p] = "reaped" /\ status[p] # "nonzero"
    /\ ~stopSignal => pipe[p] = << >>

NotStarted(p) == child[p] = "none" /\ status[p] = "none" /\ pipe[p] = << >>

(* What the place of the parent says of the command that it is busy with.  *)
Place(p) ==
    CASE pc \in {"args", "env", "test", "pipe", "fork"} -> NotStarted(p)
      [] pc \in {"open", "read"} -> child[p] \in {"running", "zombie"}
      [] pc = "wait" ->
            /\ child[p] \in {"running", "zombie"}
            /\ ~stopSignal => child[p] = "zombie" /\ pipe[p] = << >>
      [] OTHER -> Complete(p)

(* The commands are started, read and waited for one after the other, and  *)
(* whoever has not ended has no status.                                    *)
OrderInv ==
    /\ pc = "exit" <=> ret # "none"
    /\ pc # "exit" =>
        /\ cur = 2 => Complete(1)
        /\ cur = 1 => NotStarted(2)
        /\ pc \in {"collect", "sort", "uniq", "print"} => cur = 2
        /\ Place(cur)

(* What a command has written and dsort has not dropped is in the list or  *)
(* in the pipe, in order, and a command that has ended has written it all: *)
(* as long as no signal came, and as dsort does not give up.               *)
Transferred(p) == records[p] \o pipe[p] = SubSeq(out[p], 1, sent[p])

PipeInv ==
    ~stopSignal /\ ret \in {"none", "success"} =>
        /\ signals = 0 /\ (pc = "fork" => stdinEnd[cur])
        /\ \A p \in P :
            /\ Transferred(p)
            /\ child[p] = "running" => stdinEnd[p]
            /\ child[p] \in {"zombie", "reaped"} => sent[p] = Len(out[p])

(* Why OutputIsDuplicates holds. The array has every line that the         *)
(* commands wrote, as often as they did, and one empty record.             *)
Twice(s, l) == \E i, j \in DOMAIN s : i # j /\ s[i] = l /\ s[j] = l

DataIsAll ==
    /\ data # << >> /\ ~ Twice(data, NoLine)
    /\ \A l \in Lines : Twice(data, l) <=> Occurrences(l) > 1

DataSorted == \A i, j \in DOMAIN data : i < j => data[i] <= data[j]

(* What the first k passes of the loop have found is printed.              *)
FoundSoFar == {data[j] : j \in {m \in 1 .. k : data[m] = data[m + 1]}}

PrintInv ==
    /\ k < Len(data)
    /\ Range(printed) = FoundSoFar /\ Increasing(printed)
    /\ lastprt = IF printed = << >> THEN NoLine ELSE printed[Len(printed)]

OutputInv ==
    /\ pc \in {"sort", "uniq", "print"} => DataIsAll
    /\ pc \in {"uniq", "print"} => DataSorted
    /\ pc = "print" => PrintInv
    /\ pc \notin {"print", "exit"} =>
         k = 0 /\ lastprt = NoLine /\ printed = << >>

(* dsort ends, with commands that fill their pipes and whatever signals    *)
(* come, unless one comes between the test of stopSignal and pipe(): then  *)
(* it leaves a full pipe open and waits for the command that fills it.     *)
Ends == <>(pc = "exit" \/ late)
=============================================================================

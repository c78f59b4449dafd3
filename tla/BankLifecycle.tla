----------------------------- MODULE BankLifecycle -----------------------------
(***************************************************************************)
(* The life of a bank server (Beispiel 3) around its dispatcher loop: the  *)
(* exclusive semaphore, the arguments and files, the creation of the named *)
(* objects, reading and saving the accounts, free_resources, and crashes   *)
(* at any moment; and a client that opens the objects. Several servers may *)
(* be started one after the other or at once, and files written by one run *)
(* are read by the next.                                                   *)
(*                                                                         *)
(* An object is the number of the start that created it, or 0 if the name  *)
(* is free. sv[s].pc is off, atexit (free_resources is not registered yet),*)
(* args (the handlers are installed), create (init_bankserver), map        *)
(* (ftruncate, mmap, memset), read (read_csv_table), loop, or free         *)
(* (free_resources); cl.pc is off, open or on, and the client had          *)
(* cl.since of its handles when an object was last unlinked.               *)
(***************************************************************************)
EXTENDS Integers, SequencesExt

CONSTANTS
    Servers,        \* processes that are started as servers
    Files, NoFile,  \* CSV files; no argument: stdin or stdout
    Opening,        \* what the files hold at first, and what stdin holds
    Garbage,        \* what malloc leaves in the balance of account 0
    MaxStarts,      \* how often a server passes the exclusive semaphore
    MaxCrashes,     \* how often a server is killed
    MaxMoves        \* how many transfers a server makes (bounds)

ASSUME LifecycleAssumption ==
    /\ NoFile \notin Files
    /\ Opening \in Seq([nr : Nat \ {0}, balance : Int])
    /\ Garbage \subseteq Int
    /\ MaxStarts \in Nat /\ MaxCrashes \in Nat /\ MaxMoves \in Nat

(* In the order of init_bankserver of both programs.                       *)
Objects == <<"client_lock", "server_lock", "read_lock", "bankmgr">>
Names == {"exc"} \union Range(Objects)

VARIABLES
    object,         \* the named objects of the system
    csv,            \* the content of the files
    sv, cl,         \* the servers and a client
    starts, crashes,
    stale,          \* a start that was cut short may have left objects
    saved           \* for each file the table last saved, and if it holds

vars == <<object, csv, sv, cl, starts, crashes, stale, saved>>

Off == [pc |-> "off", start |-> 0, step |-> 1, in |-> NoFile, out |-> NoFile,
        list |-> << >>, wrote |-> FALSE, stop |-> FALSE, moves |-> 0]

NoClient == [pc |-> "off", handles |-> << >>, since |-> 0]

(* A line of a file is an account with a number other than 0.              *)
Line == [nr : Nat \ {0}, balance : Int]
Account == [nr : Nat, balance : Int]

ServerState ==
    [pc : {"off", "atexit", "args", "create", "map", "read", "loop",
           "free"},
     start : 0 .. MaxStarts, step : 1 .. 6,
     in : Files \union {NoFile}, out : Files \union {NoFile},
     list : Seq(Account), wrote : BOOLEAN, stop : BOOLEAN,
     moves : 0 .. MaxMoves]

TypeOK ==
    /\ object \in [Names -> 0 .. MaxStarts]
    /\ csv \in [Files -> Seq(Line)]
    /\ sv \in [Servers -> ServerState]
    /\ cl \in [pc : {"off", "open", "on"}, handles : Seq(1 .. MaxStarts),
               since : Nat]
    /\ starts \in 0 .. MaxStarts /\ crashes \in 0 .. MaxCrashes
    /\ stale \in BOOLEAN
    /\ saved \in [Files -> [list : Seq(Account), holds : BOOLEAN]]

Init ==
    /\ object = [n \in Names |-> 0]
    /\ csv = [f \in Files |-> Opening]
    /\ sv = [s \in Servers |-> Off]
    /\ cl = NoClient
    /\ starts = 0 /\ crashes = 0 /\ stale = FALSE
    /\ saved = [f \in Files |-> [list |-> Opening, holds |-> TRUE]]

(***************************************************************************)
(* The start of a server                                                   *)
(***************************************************************************)

(* sem_open with O_CREAT | O_EXCL; a refused start leaves at once, before  *)
(* free_resources is registered.                                           *)
MakeExclusive(s) ==
    /\ sv[s].pc = "off" /\ object["exc"] = 0 /\ starts < MaxStarts
    /\ starts' = starts + 1
    /\ object' = [object EXCEPT !["exc"] = starts']
    /\ sv' = [sv EXCEPT ![s] = [Off EXCEPT !.pc = "atexit", !.start = starts']]
    /\ UNCHANGED <<csv, cl, crashes, stale, saved>>

(* atexit, and then the handlers are installed.                            *)
Register(s) ==
    /\ sv[s].pc = "atexit"
    /\ sv' = [sv EXCEPT ![s].pc = "args"]
    /\ UNCHANGED <<object, csv, cl, starts, crashes, stale, saved>>

(* Without free_resources the exclusive semaphore stays.                   *)
RegisterFails(s) ==
    /\ sv[s].pc = "atexit"
    /\ sv' = [sv EXCEPT ![s] = Off]
    /\ stale' = TRUE
    /\ UNCHANGED <<object, csv, cl, starts, crashes, saved>>

(* "w" empties the file; it may be the one that was opened for reading.    *)
ParseArguments(s, in, out) ==
    /\ sv[s].pc = "args"
    /\ in = NoFile => out = NoFile
    /\ sv' = [sv EXCEPT ![s].pc = "create", ![s].in = in, ![s].out = out]
    /\ csv' = [f \in Files |-> IF f = out THEN << >> ELSE csv[f]]
    /\ saved' = [f \in Files |-> [saved[f] EXCEPT !.holds = @ /\ f # out]]
    /\ UNCHANGED <<object, cl, starts, crashes, stale>>

(* exit(EXIT_FAILURE) runs free_resources.                                 *)
Fail(s) == sv' = [sv EXCEPT ![s].pc = "free", ![s].step = 1]

(* Wrong: without O_EXCL an object of an older server is used again.       *)
IsFree(n) == TRUE

(* O_CREAT | O_EXCL: only a new object will do.                            *)
IsNew(n) == object[n] = 0

CreateObject(s) ==
    /\ sv[s].pc = "create"
    /\ LET n == Objects[sv[s].step]
       IN  IF IsNew(n)
           THEN /\ object' = [object EXCEPT ![n] = IF @ = 0 THEN sv[s].start
                                                            ELSE @]
                /\ sv' = [sv EXCEPT
                      ![s].pc = IF n = "bankmgr" THEN "map" ELSE @,
                      ![s].step = @ + 1]
           ELSE Fail(s) /\ UNCHANGED object
    /\ UNCHANGED <<csv, cl, starts, crashes, stale, saved>>

(* ftruncate, mmap and memset.                                             *)
MapMemory(s) ==
    /\ sv[s].pc = "map"
    /\ sv' = [sv EXCEPT ![s].pc = "read"]
    /\ UNCHANGED <<object, csv, cl, starts, crashes, stale, saved>>

(* Each of these steps may fail for a reason of its own.                   *)
StartFails(s) ==
    /\ sv[s].pc \in {"args", "create", "map"}
    /\ Fail(s)
    /\ UNCHANGED <<object, csv, cl, starts, crashes, stale, saved>>

(***************************************************************************)
(* The accounts                                                            *)
(***************************************************************************)

(* A SIGINT while fgets waits for the terminal ends the table early.       *)
Lines(s) ==
    IF sv[s].in # NoFile THEN {csv[sv[s].in]}
    ELSE IF sv[s].stop THEN {SubSeq(Opening, 1, k) : k \in 0 .. Len(Opening)}
    ELSE {Opening}

(* The list begins with account 0, whose balance is not initialised.       *)
ReadCsvTable(s) ==
    /\ sv[s].pc = "read"
    /\ \E lines \in Lines(s), b \in Garbage :
          sv' = [sv EXCEPT
              ![s].pc = "loop",
              ![s].list = <<[nr |-> 0, balance |-> b]>> \o lines]
    /\ UNCHANGED <<object, csv, cl, starts, crashes, stale, saved>>

(* The dispatcher, which Bank has in detail: money moves between accounts. *)
Dispatch(s) ==
    /\ sv[s].pc = "loop" /\ ~sv[s].stop /\ sv[s].moves < MaxMoves
    /\ \E j, k \in DOMAIN sv[s].list :
          /\ j # k
          /\ sv' = [sv EXCEPT ![s].list[j].balance = @ - 1,
                              ![s].list[k].balance = @ + 1,
                              ![s].moves = @ + 1]
    /\ UNCHANGED <<object, csv, cl, starts, crashes, stale, saved>>

(* write_csv_table fills the buffer of the stream.                         *)
LoopEnds(s) ==
    /\ sv[s].pc = "loop" /\ sv[s].stop
    /\ sv' = [sv EXCEPT ![s].pc = "free", ![s].step = 1, ![s].wrote = TRUE]
    /\ UNCHANGED <<object, csv, cl, starts, crashes, stale, saved>>

(* Wrong: account 0 is written as well.                                    *)
WholeList(list) == list

(* Skip the 0 account.                                                     *)
CsvLines(list) == Tail(list)

(***************************************************************************)
(* free_resources                                                          *)
(***************************************************************************)

(* Wrong: other servers are let in first.                                  *)
ReleasedEarly == <<"exc", "bankmgr", "client_lock", "server_lock", "read_lock",
                   "files">>

(* Wrong: one semaphore is forgotten.                                      *)
ReleasedPartly == <<"bankmgr", "client_lock", "server_lock", "files", "exc">>

(* The order; "files" stands for fclose.                                   *)
Released == <<"bankmgr", "client_lock", "server_lock", "read_lock", "files",
              "exc">>

Freed(s) ==
    sv' = [sv EXCEPT ![s] = IF sv[s].step = Len(Released) THEN Off
                            ELSE [sv[s] EXCEPT !.step = @ + 1]]

(* What a client opens from now on is not what it has opened before.       *)
Unlinked ==
    [cl EXCEPT !.since = IF cl.pc = "open" THEN Len(cl.handles) ELSE @]

(* Whatever is there is unlinked, also what an older server has left.      *)
Unlink(s) ==
    /\ sv[s].pc = "free" /\ Released[sv[s].step] # "files"
    /\ object' = [object EXCEPT ![Released[sv[s].step]] = 0]
    /\ Freed(s)
    /\ stale' = (stale /\ \E n \in Names : object'[n] # 0)
    /\ cl' = Unlinked
    /\ UNCHANGED <<csv, starts, crashes, saved>>

(* Only fclose brings the table to the file.                               *)
CloseFiles(s) ==
    /\ sv[s].pc = "free" /\ Released[sv[s].step] = "files"
    /\ Freed(s)
    /\ LET f == sv[s].out
       IN  IF sv[s].wrote /\ f # NoFile
           THEN /\ csv' = [csv EXCEPT ![f] = CsvLines(sv[s].list)]
                /\ saved' = [saved EXCEPT ![f] = [list |-> sv[s].list,
                                                  holds |-> TRUE]]
           ELSE UNCHANGED <<csv, saved>>
    /\ UNCHANGED <<object, cl, starts, crashes, stale>>

(***************************************************************************)
(* Signals, crashes, and removing by hand                                  *)
(***************************************************************************)

Sigint(s) ==
    /\ sv[s].pc \notin {"off", "atexit", "free"} /\ ~sv[s].stop
    /\ sv' = [sv EXCEPT ![s].stop = TRUE]
    /\ UNCHANGED <<object, csv, cl, starts, crashes, stale, saved>>

(* Killed, or a signal before the handlers are installed.                  *)
Crash(s) ==
    /\ sv[s].pc # "off" /\ crashes < MaxCrashes
    /\ sv' = [sv EXCEPT ![s] = Off]
    /\ crashes' = crashes + 1 /\ stale' = TRUE
    /\ UNCHANGED <<object, csv, cl, starts, saved>>

(* As the message of a refused start advises: if no server is running. It  *)
(* may be that not everything is removed.                                  *)
RemoveByHand ==
    /\ \A s \in Servers : sv[s].pc = "off"
    /\ \E gone \in {{"exc"}, {"bankmgr"}, Names} :
          object' = [n \in Names |-> IF n \in gone THEN 0 ELSE object[n]]
    /\ stale' = (stale /\ \E n \in Names : object'[n] # 0)
    /\ object' # object
    /\ cl' = Unlinked
    /\ UNCHANGED <<csv, sv, starts, crashes, saved>>

(***************************************************************************)
(* A client                                                                *)
(***************************************************************************)

ClientStart ==
    /\ cl.pc = "off"
    /\ cl' = [NoClient EXCEPT !.pc = "open"]
    /\ UNCHANGED <<object, csv, sv, starts, crashes, stale, saved>>

(* init_bankserver of the client opens the objects one by one.             *)
ClientOpen ==
    /\ cl.pc = "open"
    /\ LET n == Objects[Len(cl.handles) + 1]
       IN  cl' = IF object[n] = 0 THEN NoClient
                 ELSE [cl EXCEPT !.handles = Append(@, object[n]),
                                 !.pc = IF n = "bankmgr" THEN "on" ELSE @]
    /\ UNCHANGED <<object, csv, sv, starts, crashes, stale, saved>>

(* Until free_resources of the client.                                     *)
ClientEnds ==
    /\ cl.pc = "on"
    /\ cl' = NoClient
    /\ UNCHANGED <<object, csv, sv, starts, crashes, stale, saved>>

FileArgs == Files \union {NoFile}

Server(s) ==
    \/ MakeExclusive(s) \/ Register(s) \/ RegisterFails(s)
    \/ \E in, out \in FileArgs : ParseArguments(s, in, out)
    \/ CreateObject(s) \/ MapMemory(s) \/ StartFails(s)
    \/ ReadCsvTable(s) \/ Dispatch(s) \/ LoopEnds(s)
    \/ Unlink(s) \/ CloseFiles(s)

Next ==
    \/ \E s \in Servers : Server(s) \/ Sigint(s) \/ Crash(s)
    \/ RemoveByHand
    \/ ClientStart \/ ClientOpen \/ ClientEnds

Spec == Init /\ [][Next]_vars

(***************************************************************************)
(* Properties                                                              *)
(***************************************************************************)

(* A server that has started owns every name, so that clients find it and  *)
(* nobody else: no other start, and no free_resources of a server that     *)
(* ends or fails to start at the same time, takes one away.                *)
ServerReachable ==
    \A s \in Servers :
        sv[s].pc \in {"map", "read", "loop"} =>
            \A n \in Names : object[n] = sv[s].start

(* When no server is running there is nothing left that would refuse the   *)
(* next start, unless a server was killed or atexit failed: these leave    *)
(* without free_resources, and what they left is removed by hand or by the *)
(* next start that fails.                                                  *)
NothingLeftBehind ==
    (\A s \in Servers : sv[s].pc = "off") /\ ~stale =>
        \A n \in Names : object[n] = 0

(* The lines are the accounts of the list in their order, all but those    *)
(* with number 0: g is where each line comes from.                         *)
IsTable(lines, list) ==
    \E g \in [DOMAIN lines -> DOMAIN list] :
        /\ Range(g) = {k \in DOMAIN list : list[k].nr # 0}
        /\ \A j, k \in DOMAIN lines : j < k => g[j] < g[k]
        /\ \A k \in DOMAIN lines : lines[k] = list[g[k]]

(* The table that a server had when it stopped, without account 0, is in   *)
(* its file and stays there through refused, failed and killed starts,     *)
(* until a server opens the same file for writing.                         *)
TableSurvives ==
    \A f \in Files : saved[f].holds => IsTable(csv[f], saved[f].list)

(* What a client opens without an unlink in between is of one and the same *)
(* server, also when older servers left their objects behind. So a client  *)
(* has objects of two servers only if somebody unlinked between two of its *)
(* opens, and then all that it opened after the last unlink belong         *)
(* together. The program does not prevent that mixture: nothing stops a    *)
(* server from ending while a client opens.                                *)
OneBank ==
    cl.pc = "on" =>
        \A j, k \in DOMAIN cl.handles :
            j > cl.since /\ k > cl.since => cl.handles[j] = cl.handles[k]

(***************************************************************************)
(* What the properties rest on                                             *)
(***************************************************************************)

Running(s) == sv[s].pc # "off"

(* The exclusive semaphore is of the one server that is not off.           *)
ExclusiveInv ==
    \A s \in Servers : Running(s) =>
        /\ object["exc"] = sv[s].start /\ sv[s].start # 0
        /\ \A t \in Servers : Running(t) => t = s

(* How far a server has come in creating its objects and removing them.    *)
ProgressInv ==
    \A s \in Servers :
        /\ sv[s].pc = "create" =>
              /\ sv[s].step \in DOMAIN Objects
              /\ \A k \in 1 .. sv[s].step - 1 :
                    object[Objects[k]] = sv[s].start
        /\ sv[s].pc \in {"atexit", "args"} => sv[s].step = 1
        /\ sv[s].pc = "free" =>
              \A k \in 1 .. sv[s].step - 1 :
                  Released[k] # "files" => object[Released[k]] = 0

(* The shared memory is created last and removed first.                    *)
WholeInv ==
    object["bankmgr"] # 0 =>
        \A n \in Range(Objects) : object[n] = object["bankmgr"]

(* The list of a server in its loop, or still to be written, is account 0  *)
(* and the lines that were read.                                           *)
ListInv ==
    \A s \in Servers :
        sv[s].pc = "loop" \/ sv[s].wrote =>
            /\ sv[s].list # << >> /\ sv[s].list[1].nr = 0
            /\ \A k \in 2 .. Len(sv[s].list) : sv[s].list[k].nr # 0

(* What a client has opened since the last unlink is still there.          *)
ClientInv ==
    /\ cl.pc = "open" =>
          /\ Len(cl.handles) < Len(Objects)
          /\ \A k \in DOMAIN cl.handles :
                k > cl.since => cl.handles[k] = object[Objects[k]]
    /\ OneBank
=============================================================================

------------------------------- MODULE Mastermind ------------------------------
(***************************************************************************)
(* The Mastermind server and client (Beispiel 1B), from their start over   *)
(* the connection to the verdict, with signals for either side.            *)
(*                                                                         *)
(* srv is args (before the handlers are installed), listen (up to listen), *)
(* accept, loop (the test of the for loop), read (in read_from_client),    *)
(* exit (after the loop) or done; cl is start (before the handler is       *)
(* installed), connect, loop (the test of the while loop), recv, decide    *)
(* (after recv), or done.                                                  *)
(***************************************************************************)
EXTENDS MastermindAnswer, Sequences

CONSTANTS
    MaxTries,   \* MAX_TRIES, 35 in the code
    Garbage,    \* what the uninitialised response may hold
    MaxLate,    \* how often the client sends to a closed connection (a bound)
    MaxSignals  \* how many signals there are (a bound)

ASSUME GameAssumption ==
    /\ MaxTries \in Nat \ {0}
    /\ Garbage \subseteq Answers /\ Garbage # {}
    /\ MaxLate \in Nat /\ MaxSignals \in Nat

VARIABLES
    connection,             \* none, pending or accepted
    toServer, toClient,     \* what is in its two directions
    srv, secret, round, srvQuit, srvRet,
    cl, request, response, population, rounds, clQuit, clRet,
    late, signals           \* how many of the bounds are used

srvVars == <<srv, secret, round, srvQuit, srvRet>>
clVars == <<cl, request, response, population, rounds, clQuit, clRet, late>>
vars == <<connection, toServer, toClient, srvVars, clVars, signals>>

(* Exit codes; EXIT_SUCCESS is split into won and quit.                    *)
Verdicts == {"none", "won", "quit", "lost", "parity", "multiple", "failure",
             "killed"}

Request == [guess : Codes, parity : {0, 1}]

TypeOK ==
    /\ connection \in {"none", "pending", "accepted"}
    /\ toServer \in Seq(Request) /\ Len(toServer) <= 1
    /\ toClient \in Seq(Answers) /\ Len(toClient) <= 1
    /\ srv \in {"args", "listen", "accept", "loop", "read", "exit", "done"}
    /\ cl \in {"start", "connect", "loop", "recv", "decide", "done"}
    /\ secret \in Codes /\ request \in Codes
    /\ round \in 1 .. MaxTries + 1 /\ rounds \in 0 .. MaxTries + MaxLate + 1
    /\ srvQuit \in BOOLEAN /\ clQuit \in BOOLEAN
    /\ srvRet \in Verdicts /\ clRet \in Verdicts
    /\ response \in Answers
    /\ population \subseteq Codes
    /\ late \in 0 .. MaxLate /\ signals \in 0 .. MaxSignals

Init ==
    /\ connection = "none" /\ toServer = << >> /\ toClient = << >>
    /\ srv = "args" /\ secret \in Codes /\ round = 1
    /\ srvQuit = FALSE /\ srvRet = "none"
    /\ cl = "start" /\ request = InitialGuess /\ response \in Garbage
    /\ population = Codes /\ rounds = 0
    /\ clQuit = FALSE /\ clRet = "none"
    /\ late = 0 /\ signals = 0

-----------------------------------------------------------------------------
(* Server                                                                  *)

(* bail_out closes the sockets: what is in the connection is lost.         *)
SrvFails == srv' = "done" /\ srvRet' = "failure" /\ toServer' = << >>

(* parse_args (the secret is read here) and sigaction.                     *)
SrvParseArgs ==
    /\ srv = "args"
    /\ \/ srv' = "listen" /\ UNCHANGED <<srvRet, toServer>>
       \/ SrvFails
    /\ UNCHANGED <<connection, toClient, secret, round, srvQuit, clVars,
                   signals>>

SrvListen ==
    /\ srv = "listen"
    /\ \/ srv' = "accept" /\ UNCHANGED <<srvRet, toServer>>
       \/ SrvFails
    /\ UNCHANGED <<connection, toClient, secret, round, srvQuit, clVars,
                   signals>>

(* Sleeps until there is a connection; quit is not looked at.              *)
SrvAccept ==
    /\ srv = "accept" /\ connection = "pending"
    /\ \/ /\ srv' = "loop" /\ connection' = "accepted"
          /\ UNCHANGED <<srvRet, toServer>>
       \/ SrvFails /\ UNCHANGED connection
    /\ UNCHANGED <<toClient, secret, round, srvQuit, clVars, signals>>

SrvLoop ==
    /\ srv = "loop"
    /\ srv' = IF round <= MaxTries /\ ~ srvQuit THEN "read" ELSE "exit"
    /\ UNCHANGED <<connection, toServer, toClient, secret, round, srvQuit,
                   srvRet, clVars, signals>>

(* Wrong: the last round is lost even if the guess is right.               *)
LastRoundLost(m) ==
    LET bad == Parity(m.guess) # m.parity
        match == Matches[<<m.guess, secret>>]
    IN  [red |-> match.red, white |-> match.white, parityError |-> bad,
         lost |-> round = MaxTries]

(* compute_answer, and the last round.                                     *)
ComputeAnswer(m) ==
    LET bad == Parity(m.guess) # m.parity
        match == Matches[<<m.guess, secret>>]
    IN  [red |-> match.red, white |-> match.white, parityError |-> bad,
         lost |-> round = MaxTries /\ (bad \/ match.red # Slots)]

(* What a reply says of the game.                                          *)
Verdict(r) ==
    IF r.parityError /\ r.lost THEN "multiple"
    ELSE IF r.lost THEN "lost"
    ELSE IF r.parityError THEN "parity"
    ELSE IF r.red = Slots THEN "won" ELSE "none"

(* Receives a guess, answers it and decides whether the game is over.  An  *)
(* answer to a client that has exited is dropped.                          *)
SrvAnswer ==
    /\ srv = "read"
    /\ toServer # << >>
    /\ LET answer == ComputeAnswer(Head(toServer))
       IN  /\ toClient' = IF cl = "done" THEN toClient
                                         ELSE Append(toClient, answer)
           /\ srvRet' = Verdict(answer)
           /\ IF Verdict(answer) = "none"
                THEN srv' = "loop" /\ round' = round + 1
                ELSE srv' = "exit" /\ UNCHANGED round
    /\ toServer' = Tail(toServer)
    /\ UNCHANGED <<connection, secret, srvQuit, clVars, signals>>

(* Wrong: takes the end of file for a partial read, and calls recv again.  *)
SrvReadsOn ==
    srv = "read" /\ toServer = << >> /\ cl = "done" /\ UNCHANGED vars

(* The client has gone.                                                    *)
SrvHangsUp ==
    /\ srv = "read" /\ toServer = << >> /\ cl = "done"
    /\ srv' = "done"
    /\ srvRet' = IF srvQuit THEN "quit" ELSE "failure"
    /\ UNCHANGED <<connection, toServer, toClient, secret, round, srvQuit,
                   clVars, signals>>

SrvExit ==
    /\ srv = "exit"
    /\ srv' = "done"
    /\ srvRet' = IF srvRet = "none" THEN "quit" ELSE srvRet
    /\ toServer' = << >>
    /\ UNCHANGED <<connection, toClient, secret, round, srvQuit, clVars,
                   signals>>

(* A signal that comes between the test of quit and recv, or before        *)
(* accept, is noticed late; one that comes before the handlers kills.      *)
SrvSignal ==
    /\ srv # "done" /\ signals < MaxSignals
    /\ signals' = signals + 1
    /\ IF srv = "args"
       THEN srv' = "done" /\ srvRet' = "killed" /\ UNCHANGED srvQuit
       ELSE srvQuit' = TRUE /\ UNCHANGED <<srv, srvRet>>
    /\ UNCHANGED <<connection, toServer, toClient, secret, round, clVars>>

(* recv fails and the game is over; accept fails and that is an error,     *)
(* although the server was told to quit.                                   *)
SrvInterrupted ==
    /\ signals < MaxSignals
    /\ srvQuit' = TRUE /\ signals' = signals + 1
    /\ \/ /\ srv = "read" /\ toServer = << >>
          /\ srv' = "exit" /\ UNCHANGED <<srvRet, toServer>>
       \/ srv = "accept" /\ connection = "none" /\ SrvFails
    /\ UNCHANGED <<connection, toClient, secret, round, clVars>>

Server ==
    SrvParseArgs \/ SrvListen \/ SrvAccept
    \/ SrvLoop \/ SrvAnswer \/ SrvHangsUp \/ SrvExit

-----------------------------------------------------------------------------
(* Client                                                                  *)

ClExit(verdict) == cl' = "done" /\ clRet' = verdict /\ toClient' = << >>

gameVars == <<srvVars, toServer, request, response, population, rounds, late>>

(* sigaction and parse_arguments.                                          *)
ClStart ==
    /\ cl = "start"
    /\ \/ cl' = "connect" /\ UNCHANGED <<clRet, toClient>>
       \/ ClExit("failure")
    /\ UNCHANGED <<connection, gameVars, clQuit, signals>>

(* Fails if nobody listens, and for other reasons.                         *)
ClConnect ==
    /\ cl = "connect"
    /\ \/ /\ srv = "accept"
          /\ connection' = "pending" /\ cl' = "loop"
          /\ UNCHANGED <<clRet, toClient>>
       \/ ClExit("failure") /\ UNCHANGED connection
    /\ UNCHANGED <<gameVars, clQuit, signals>>

(* After the loop: the last response may replace the exit code.            *)
AfterLoop(verdict) ==
    ClExit(IF response.lost /\ response.parityError THEN "multiple" ELSE verdict)

ClQuit ==
    /\ cl = "loop" /\ clQuit
    /\ AfterLoop("quit")
    /\ UNCHANGED <<connection, toServer, srvVars, request, response,
                   population, rounds, clQuit, late, signals>>

ClSend ==
    /\ cl = "loop" /\ ~ clQuit
    /\ cl' = "recv"
    /\ rounds' = rounds + 1
    /\ \/ /\ srv # "done"
          /\ toServer' = Append(toServer, [guess |-> request,
                                           parity |-> Parity(request)])
          /\ UNCHANGED late
       \/ /\ srv = "done" /\ late < MaxLate
          /\ late' = late + 1
          /\ UNCHANGED toServer
    /\ UNCHANGED <<connection, toClient, srvVars, request, response,
                   population, clQuit, clRet, signals>>

(* SIGPIPE: nobody catches it.                                             *)
ClKilled ==
    /\ cl = "loop" /\ ~ clQuit /\ srv = "done"
    /\ ClExit("killed")
    /\ UNCHANGED <<connection, toServer, srvVars, request, response,
                   population, rounds, clQuit, late, signals>>

(* recv gives an answer, or 0 and leaves the old response when the server  *)
(* has closed the connection.                                              *)
ClRecv ==
    /\ cl = "recv"
    /\ \/ /\ toClient # << >>
          /\ response' = Head(toClient)
          /\ toClient' = Tail(toClient)
       \/ /\ toClient = << >> /\ srv = "done"
          /\ UNCHANGED <<response, toClient>>
    /\ cl' = "decide"
    /\ UNCHANGED <<connection, toServer, srvVars, request, population, rounds,
                   clQuit, clRet, late, signals>>

(* recv fails because the server's exit has reset the connection.          *)
ClReset ==
    /\ cl = "recv" /\ toClient = << >> /\ srv = "done"
    /\ ClExit("failure")
    /\ UNCHANGED <<connection, toServer, srvVars, request, response,
                   population, rounds, clQuit, late, signals>>

(* Wrong: red and white have changed places.                               *)
ConsistentSwapped(codes) ==
    {code \in codes : Matches[<<code, request>>] =
                        [red |-> response.white, white |-> response.red]}

(* generatePopulation: guess and secret have changed places.               *)
Consistent(codes) ==
    {code \in codes : Matches[<<code, request>>] =
                        [red |-> response.red, white |-> response.white]}

(* Tests of the response in the order of the code.                         *)
ClDecide ==
    /\ cl = "decide"
    /\ \/ /\ clQuit
          /\ AfterLoop("quit")
          /\ UNCHANGED <<request, population>>
       \/ /\ ~ clQuit /\ Verdict(response) # "none"
          /\ AfterLoop(Verdict(response))
          /\ UNCHANGED <<request, population>>
       \/ /\ ~ clQuit /\ Verdict(response) = "none"
          /\ population' = IF Consistent(population) # {}
                             THEN Consistent(population) ELSE Consistent(Codes)
          /\ request' \in IF population' # {} THEN population' ELSE Codes
          /\ cl' = "loop"
          /\ UNCHANGED <<toClient, clRet>>
    /\ UNCHANGED <<connection, toServer, srvVars, response, rounds, clQuit,
                   late, signals>>

(* Before the handler is installed a signal kills.                         *)
ClSignal ==
    /\ cl # "done" /\ signals < MaxSignals
    /\ signals' = signals + 1
    /\ IF cl = "start"
       THEN ClExit("killed") /\ UNCHANGED clQuit
       ELSE clQuit' = TRUE /\ UNCHANGED <<cl, clRet, toClient>>
    /\ UNCHANGED <<connection, gameVars>>

(* recv fails, and the client reports an error although it was told to     *)
(* quit.                                                                   *)
ClInterrupted ==
    /\ cl = "recv" /\ toClient = << >> /\ signals < MaxSignals
    /\ clQuit' = TRUE /\ signals' = signals + 1
    /\ ClExit("failure")
    /\ UNCHANGED <<connection, toServer, srvVars, request, response,
                   population, rounds, late>>

Client ==
    ClStart \/ ClConnect
    \/ ClQuit \/ ClSend \/ ClKilled \/ ClRecv \/ ClReset \/ ClDecide

-----------------------------------------------------------------------------

(* A server may wait for ever for a client.                                *)
Finished ==
    /\ cl = "done"
    /\ \/ srv = "done"
       \/ srv = "accept" /\ connection = "none"
    /\ UNCHANGED vars

Next ==
    \/ Server \/ SrvSignal \/ SrvInterrupted
    \/ Client \/ ClSignal \/ ClInterrupted
    \/ Finished

(* The scheduler runs both processes; signals need not come.               *)
Spec == Init /\ [][Next]_vars /\ WF_vars(Server) /\ WF_vars(Client)

-----------------------------------------------------------------------------
(* Properties                                                              *)

Count(c, code) == Cardinality({j \in 1 .. Slots : code[j] = c})

Common(c, code, other) ==
    IF Count(c, code) < Count(c, other) THEN Count(c, code) ELSE Count(c, other)

(* The pegs of a color that a guess has in common with the secret, one     *)
(* element each.                                                           *)
Pegs(code, other) ==
    {p \in Colors \X (1 .. Slots) : p[2] <= Common(p[1], code, other)}

(* An answer on its way is that of the game: red counts the right colors   *)
(* in the right place, red and white together what the two have in common. *)
(* compute_answer gets there by marking and counting down.                 *)
AnswerIsMastermind ==
    toClient # << >> =>
        LET answer == Head(toClient)
        IN  /\ answer.red = Cardinality(Reds(request, secret))
            /\ answer.red + answer.white = Cardinality(Pegs(request, secret))

(* As long as the server plays, its secret is among the client's           *)
(* candidates, which generatePopulation filters with guess and secret      *)
(* exchanged: the client never has to start over or guess at random.       *)
SecretStaysPossible == srv # "done" \/ toClient # << >> => secret \in population

(* Server and client decide separately how the game ended.  Once they are  *)
(* connected, and without signals, they agree, also in the last round: the *)
(* game is won, after the same number of rounds, exactly if the last guess *)
(* was the secret.                                                         *)
SameVerdict ==
    signals = 0 /\ srv = "done" /\ cl = "done" /\ connection = "accepted" =>
        /\ clRet = srvRet
        /\ clRet = IF request = secret THEN "won" ELSE "lost"
        /\ rounds = round

(* Inductive strengthenings, for the proofs.  A guess and its answer are   *)
(* about the request of the client, and never on their way together.       *)
Right(r) ==
    /\ r.red = Cardinality(Reds(request, secret))
    /\ r.white = Cardinality(Whites(request, secret))
    /\ ~ r.parityError /\ (r.lost => r.red # Slots)

FlowInv ==
    /\ \/ toServer = << >>
       \/ /\ toServer = <<[guess |-> request, parity |-> Parity(request)]>>
          /\ toClient = << >> /\ cl \in {"recv", "done"}
          /\ srv # "done" /\ connection # "none"
    /\ \/ toClient = << >>
       \/ /\ cl = "recv" /\ connection = "accepted"
          /\ \E r \in Answers : toClient = <<r>> /\ Right(r)
    /\ cl \in {"start", "connect"} => connection = "none"
    /\ cl \in {"loop", "recv", "decide"} => connection # "none"
    /\ srv \in {"args", "listen"} => connection = "none"
    /\ srv = "accept" => connection # "accepted"
    /\ srv \in {"loop", "read", "exit"} => connection = "accepted"

(* The rounds that both have counted.                                      *)
Counted(r) == rounds = IF Verdict(r) = "none" THEN round - 1 ELSE round

RoundInv ==
    /\ round \in 1 .. MaxTries /\ rounds <= round + late
    /\ srv # "done" =>
         /\ late = 0
         /\ cl \in {"start", "connect", "loop"} => rounds = round - 1
         /\ cl = "recv" => IF toServer # << >> THEN rounds = round
                           ELSE toClient # << >> /\ Counted(Head(toClient))
         /\ cl = "decide" => Right(response) /\ Counted(response)

(* Without signals the game goes on, or both know how it ended.            *)
Playing ==
    /\ srvRet = "none" /\ cl # "done"
    /\ toClient # << >> => Verdict(Head(toClient)) = "none"
    /\ cl = "decide" => Verdict(response) = "none"

Decided ==
    /\ srv \in {"exit", "done"}
    /\ srvRet = IF request = secret THEN "won" ELSE "lost"
    /\ rounds = round /\ cl \in {"recv", "decide", "done"}
    /\ cl = "recv" => toClient # << >> /\ Verdict(Head(toClient)) = srvRet
    /\ cl = "decide" => Right(response) /\ Verdict(response) = srvRet
    /\ cl = "done" => clRet = srvRet

VerdictInv ==
    signals = 0 =>
        /\ ~ srvQuit /\ ~ clQuit
        /\ srv \in {"args", "listen", "accept"} => srvRet = "none"
        /\ srv = "accept" /\ connection = "pending" => cl \in {"loop", "recv"}
        /\ connection = "accepted" =>
             IF srv \in {"loop", "read"} THEN Playing ELSE Decided

(* Every client ends, and so does the server it is connected to, whatever  *)
(* signals come, also before the connection is accepted.                   *)
GameEnds ==
    /\ <>(cl = "done")
    /\ connection # "none" ~> srv = "done"
=============================================================================

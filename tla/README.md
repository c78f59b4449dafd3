# Verification of the exercises of OSUE WS16

TLA+ modules, TLC configurations and TLAPS proofs for the programs of this
repository: five small systems programs written for a course on operating
systems. Paths below are relative to `src/`.

## 1. Inventory

| Component | Source | State it keeps | Operations |
|---|---|---|---|
| Bank server | `Beispiel 3/server.c`, `shared.h` | linked list of accounts (number, balance, secret of the open session), `stopSignal`, the CSV file | `dispatch_action` with six handlers, `write_csv_table`, `free_resources`, signal handler |
| Bank client | `Beispiel 3/client.c` | `ClientConnection` (account number, secret), `stopSignal`, a local copy of the shared record | `connect_to_bank`, menu with four commands, `disconnect_from_bank`, signal handler |
| Secure vault kernel module | `Bonus Beispiel/module/*` | list of vaults and `vault_lock`; of every vault its data, key, lock, usage counter and devices; private data of open files | ioctls of the control device, open/release/read/write/llseek/ioctl of the data devices, loading and unloading |
| svctl | `Bonus Beispiel/svctl.c` | none | one to four ioctls per run |
| Mastermind server | `Beispiel 1B/server.c` | the secret, the round | receive a guess, answer it, decide whether the game is over |
| Mastermind client | `Beispiel 1B/client.c` | the set of secrets still possible, the round | send a guess, filter the set by the answer |
| dsort | `Beispiel 2/dsort.c` | two lists of lines, the merged array | run two programs through pipes, collect, sort, print the duplicates |
| ispalindrom | `Beispiel 1A/ispalindrom.c` | one line | read a line, compare it from both ends |

How they interact:

* **Bank.** Server and clients share one record of memory (`BankMgrData`) and
  three semaphores. A client takes `client_lock`, tests whether the bank is
  closed, copies its request into the record, posts `server_lock`, waits for
  `readBack_lock`, copies the record back; its caller posts `client_lock`. The
  server waits for `server_lock`, serves the record in place, and posts
  `readBack_lock`. On the way out it writes `BANK_CLOSED` into the record
  without any lock.
* **Secure vault.** Any number of processes are in the module's system calls at
  once. `vault_lock` protects the list, each vault has a lock of its own, and
  `usage` counts its open files. Pointers to list nodes are used after
  `vault_lock` was released.
* **svctl** is one of these processes.
* **Mastermind.** Client and server exchange two-byte guesses and one-byte
  answers over a TCP connection.
* **dsort** forks two children, one after the other, and reads what they write.

What is hard in them, and what makes each one correct:

| Component | Hard behaviour | Correctness |
|---|---|---|
| Bank | several clients and a server on one record; signals that interrupt `sem_wait`, whose result nobody looks at; shutdown concurrent with requests | exclusion; each reply answers the request of its reader; no request is lost or executed twice; balances, replies and file agree; every request is answered; the server stops when told to |
| Secure vault | removal racing with every other call; locks taken in two levels; failures after half of the work; interrupted waits | exclusion on list and vault; unique numbers; devices and list agree; no vault removed under an open file; a call works on the vault it was made for; every call returns |
| Mastermind | the two sides decide separately whether the game is over; a lost connection | the real secret is never excluded; both sides reach the same verdict |
| dsort | order of reading and waiting; exit status of children; long lines | the output is that of `sort \| uniq -d` |
| ispalindrom | indices that skip spaces from both ends; the length limit | the answer is the definition's |

## 2. Modules

| Module | Models |
|---|---|
| `BankTypes` | requests, the shared record, 32-bit addition (scaled down), the effect of a granted request |
| `BankShared` | the shared memory and the three semaphores |
| `BankServer` | the server process |
| `BankClient` | the client processes and their users |
| `Bank` | both together: specifications, properties, refinement mapping, inductive invariants |
| `BankLedger` | what a bank promises: requests are executed atomically, once, between asking and answering |
| `BankProofs` | theorems about `Bank`: exclusion, replies, books, sessions, the ledger |
| `SecVault` | the kernel module's list, locks, counters, devices, and the system calls on them |
| `SecVaultProofs`, `SecVaultQuietProofs` | theorems about `SecVault`, with calls that race and with removes that run alone |
| `VaultStore` | what the kernel module promises: numbered vaults with counted open files |
| `BankLifecycle` | the life of server processes around the dispatcher loop, and a client that opens their objects |
| `BankLifecycleProofs` | theorems about `BankLifecycle` |
| `VaultFile` | the contents of the vaults: ioctls, read, write, llseek, and the tool `svctl` |
| `VaultContents` | what the kernel module promises about contents: a text per vault |
| `VaultFileProofs` | theorems about `VaultFile`, with the refinement of `VaultContents` |
| `Dsort`, `DsortProofs` | dsort and the two commands that it runs, and theorems about it |
| `Palindrome`, `PalindromeProofs` | ispalindrom, and theorems about it |
| `MastermindAnswer` | codes, guesses and answers of Mastermind |
| `Mastermind` | the Mastermind server, its client and their connection |
| `MastermindProofs` | theorems about both |
| `MCBank`, `MCBankLifecycle`, `MCSecVault`, `MCVaultFile`, `MCMastermind`, `MCPalindrome` | the constants' values for TLC |

Two programs have two modules, for two kinds of question:
`Bank` follows one run of the server with many clients, `BankLifecycle` many
runs and crashes with the dispatcher loop shrunk to one action; `SecVault`
follows the locks and the list with the contents left out, `VaultFile` the
contents with every system call as one step, which is what `RightVault` and
`ImplementsStore` of `SecVault` show of calls that do not race with a remove.

### The bank

One variable per object of the code: `shared` is `BankMgrData`; `client_lock`,
`server_lock` and `readBack_lock` are the semaphores; `list` is the account
list (number, balance and secret of each); `con[c]` is the client's
`ClientConnection` and `data[c]` the local variable of that name. `srv` and
`pc[c]` say where the processes are. A process moves in steps that end where
another process may see or change what it does next: a semaphore operation, an
access to the shared record, a test of `stopSignal`. A `sem_wait` is two actions:
`...Wait` succeeds or goes to sleep, `...Wake` wakes up.

* A handler is one action although it reads and writes the shared record
  several times, and a client's copy of the record is one action although it is
  a `memcpy`. `NoDataRace` justifies this for the calm system: nobody else
  accesses the record meanwhile. `BANK_CLOSED` is the exception and the model
  lets it fall between any two steps of a client.
* Ints wrap: `Wrap` is two's complement addition with `MaxInt` as a parameter.
  The proofs need no more of `MaxInt` than its assumption says.
* `rand()` in `dispatch_connect` is a secret that no session had before; the
  source of such secrets is a counter. Two sessions with equal secrets, which
  `rand()` may produce, are left out.
* Account 0 exists in the server although it is in no file (`read_csv_table`
  makes it); its balance is read uninitialised and so is any value of `Garbage`.
* The client's `secret` is uninitialised before it connects. It is sent only
  with `BANK_ACTION_CONNECT`, for which the server does not look at it.
* The signal handlers are installed with `sa_flags` 0, so a signal makes
  `sem_wait` fail with `EINTR`. As nobody tests the result, the process goes on as
  if it had the semaphore: `SrvInterrupted` and `ClientInterrupted`. `interrupted`
  remembers the clients this happened to.
* `getc` is interrupted too; the menu then reads the end of its input as an
  unknown key (`OtherKey`).
* `books` is a history variable: the balances as the users can compute them
  from the replies they got.

`CalmSpec` has signals, but none that interrupts a `sem_wait`. `Spec` has all.

### The life of the bank's servers

`object[n]` is the number of the start that created the named object `n`, 0 if the
name is free; so a handle that a client keeps tells whose object it is. `sv[s].pc`
follows `main`: the exclusive semaphore, the arguments and files, the four objects
one by one, the memory, the table, the loop, and `free_resources` in the order of its
unlinks (`Released`). Any step of the start may fail, which runs `free_resources`,
as `atexit` makes it; only a failed `atexit` itself (`RegisterFails`) leaves without. The dispatcher is one action that moves money between
accounts. Only `fclose` brings the table to its file; opening a file for writing
empties it at once, also when it is the one being read.

A crash leaves everything as it is, with the objects of the dead server.
`RemoveByHand` is what server.c:231 advises, or the thorough form of it. `saved`
is a history variable: the table last saved to each file, and whether nobody has
opened that file for writing since. `stale` remembers a crash or a failed `atexit`,
`cl.since` how many objects the client had opened when one was last unlinked.

### The secure vault module

Address `v` is the `v`-th vault that was ever allocated; its list node has the
same address, but the first vault of the list lives in the static node `Root`,
to which `create_new_vault` and `delete_node` copy it. `list` is the sequence of
vaults. A thread keeps the address of a node (`node[t]`) across releases of
`vault_lock`, as the code does, and follows it again at every use: `Root` gives
whatever vault is first then, a freed node gives any vault or NULL (`VaultOf`). A
`vault` is never freed: `delete_node` frees the node and the data only. A remove
checks the owner of the vault that it holds (`RemoveCheck`) and takes `vault_lock`
later (`RemoveEnter`), where it searches for the number again.

The steps end where a semaphore is taken or given back. `CREATE` and `REMOVE` are
the ioctls of these names on the control device, `USE` is any other ioctl on it,
`IO` is any operation on an open file. Of these two the model has the locking, not
the effect on the contents, which `VaultFile` has. A thread that follows a NULL
pointer stops (`oops`) and keeps what it holds.

Three specifications: `QuietSpec` lets a remove run only while no other system
call does (an administrator's `svctl -d` on an otherwise idle system), `CalmSpec`
lets everything race, `Spec` adds the failures: `kmalloc` in `secvault_open`, and
signals for threads that sleep in `down_interruptible`. `usage` is an unsigned int
and wraps at `UsageLimit`; `MaxVaults` bounds the memory of `create_new_vault`, whose
device may fail to be made for any reason. Kernel preemption is
assumed: a thread may stop between any two steps.

### The contents of the vaults, and svctl

`vault[id]` is `struct secvault_data` (owner, data, keyLength) by number, `file` one
open data device with its position, `tool` one run of `svctl`. `ControlIoctl` is any
program with the control device, so another user's calls come between any two
ioctls of `svctl`; `tool.alone` remembers that they touched its vault. A byte is
a bit, and the key is what `kzalloc` left, since no function stores one. The
`uint8_t` target and the unsigned position wrap at `TargetLimit` and `PosLimit`.
`copy_from_user` and allocations may fail: an ioctl chooses `ok`. The ioctl takes any
unsigned size but 0; only `svctl` knows `MAX_SIZE` (`MaxSize`), and what is too large
`kcalloc` refuses (`MaxAlloc`, a limit of the kernel's allocator). Signals kill `svctl`
between two ioctls or interrupt one (`Interrupted`). A read or write looks at the
position before each byte (`InRange`) and may end after any number of them (a
faulting user buffer); a byte stored behind the end would make `data` longer. `ENOENT`, `EACCES` and
the like are one failure. Loading is one step; unloading, which open files forbid,
forgets all vaults. When a vault shrinks, `memcpy` writes past the new buffer: the
model gives the result inside it only.

`VaultContents` is the abstract specification: texts that are created, resized,
written, mixed with a key, zeroed, removed. The mapping decodes the stored bytes.

### dsort

`pc` follows the parent through `main`, `launch` and `do_parent_work`; `child[p]`,
`status[p]` and `pipe[p]` are a command and its pipe, which holds `PipeSize` lines.
What the commands write and how they end (`out`, `plan`) is chosen at the start.
Lines are numbers in `strcmp` order, and the empty string of the spare record is
`NoLine`, the least. `link_collected_data` writes on to the end of the list, one
record further than its `size` says; the second call overwrites what the first
wrote too much, and one empty record remains, which `qsort` brings to the front.
`Qsort` is what `qsort` does with a total order, not how: every line moves to the
place that its rank gives it (`Position`).
The handler may run between any two steps, and interrupts `fgets` and `waitpid`.

### ispalindrom

`input` is the buffer, `i`, `offsetBegin`, `offsetEnd` are those of
`isStringPalindrom`, and a pass of its loop is one action. A read outside the buffer
gives any value of `Outside`, which is never a space: the memory next to the
buffer is not taken to be full of them. `got` and `ending` are history: what was typed
since the last line. What a palindrome is, is said of the places of letters
(`Letters`): each is like the one with the same number from the other end.
`sa_flags` is uninitialised in this program, so a signal in `fgetc` may either
restart it (`Sigint`) or make it return `EOF` (`SigintInRead`). Users type no
NUL bytes.

### Mastermind

Both programs start with their arguments; the server listens and accepts, the
client connects, which fails if nobody listens, or for any other reason. A
signal before the handlers are installed kills; one that interrupts `accept` is an
error although the server was told to quit, unlike one that interrupts `recv`.
`srv` and `cl` say where the two processes are, `toServer` and `toClient` what is
on its way between them; a guess or an answer arrives whole, as
`read_from_client` loops until it does and an answer is one byte. Codes are
functions from slots to colors, the abstraction of the three-bit fields of the
`uint16_t`. The loop of `compute_answer` that counts `colors_left` down is the set
`Whites`: a slot counts unless earlier slots have used its color up.
`generatePopulation` calls it with guess and secret exchanged (`Consistent`), and
`rand()` is any choice. The exit code `EXIT_SUCCESS` is split into `won` and `quit`.

When the server has exited, the kernel decides what the client sees: `recv` gives
0, which the code does not notice and which leaves the old response (or, the
first time, uninitialised memory: `Garbage`), or fails; `send` succeeds, at most
`MaxLate` times, or kills the client by `SIGPIPE`.

## 3. Runs

| Run | Specification | Bounds | Shows |
|---|---|---|---|
| `bank_calm` | `CalmSpec` | two clients, one command each beside connecting and disconnecting, one account in the file, account 0 and an unknown number, amounts -1 and 4 with ints from -8 to 7, one signal for the server | types, `Handshake`, `NoDataRace`, `ReplyIsMine`, `BooksBalance`, `NoOrphanSession`, `CsvAgrees`, `NoOverdraft`; the bank implements `BankLedger` |
| `bank_signals` | `Spec` | two clients that connect and disconnect, one signal for the server and one for a client, which may interrupt any `sem_wait` | exclusion as long as no client was interrupted, no unknown action, and the liveness properties `SectionEnds` and `StopsWhenAsked` |
| `vault_quiet` | `QuietSpec` | two threads, two numbers, three creations | the vault's lock, counter and list agree, calls return, and the module implements `VaultStore` |
| `vault_race` | `CalmSpec` | three threads of two users, two numbers, two creations | `ListExclusive`, `UniqueIds`, `DevicesMatchList`, `OopsFromRemove`; nobody waits for ever for `vault_lock` |
| `mastermind` | `Spec` | three slots, four colors, three tries, every secret, one signal for either side, one late send | answers, candidates and verdicts are right, and every client ends, with the server it is connected to |
| `bank_life` | `Spec` | two server processes, three starts, one crash, one transfer, two files, two accounts, one client at a time | `ServerReachable`, `NothingLeftBehind`, `TableSurvives`, `OneBank` |
| `vault_file` | `Spec` | two users, two vaults of which `svctl` knows one, targets -1 to 2, sizes to 3 of which `svctl` allows 1 and `kcalloc` 2, keys of 2 bits, positions modulo 4 | `SvctlDone`, `OnlyMeant`; the module implements `VaultContents` |
| `dsort` | `Spec` | two commands of up to three lines out of two, pipes of one line, two signals | `OutputIsDuplicates`, `SuccessIsComplete`, `Ends` |
| `palindrome` | `Spec` | `MAX_INPUT_LEN` 5, lines over `a`, `A`, `b` and space of any number, three options | `VerdictRight`, `EndsAfterSigint` |
| `bank_hang`, `vault_stale`, `vault_oops` | `CalmSpec` | two clients; two threads, two numbers, three creations | disagreements between code and comments, see section 5 |

Why these bounds: two clients are enough for one to be at any point of its
round trip while the other tries to enter, to be told apart by its secret, or to
log in to the same account. One command each gives every order of two requests
between two sessions. With amount 4 and ints up to 7 a deposit overflows, a
second withdrawal is not covered and a first one is. In the vault two numbers
give a vault in the static node and one behind it, three creations a number
that is used again after its removal, and the third thread a remove that races
with two other calls. In Mastermind three slots of four colors are the smallest
game in which a color occurs more often in the guess than is left in the secret,
and three tries give lost, won and interrupted games of every length.
Three starts are a server, one that is refused or fails while it runs or after it
crashed, and one that reads what was saved. In `vault_file` the second vault is
the one that a truncated target would hit, and two bytes with a key of two give
every position relative to the end and to the key. Three lines each of two make
lines that occur up to six times, within one command and across; a pipe of one
line makes a writer wait. In `palindrome` five is the first length at which
both a middle character, spaces on both sides of it and the limit occur, and as
the loop does not end, every line follows every other.

Deadlock is checked in `bank_calm`, `vault_quiet`, `vault_race` and
`mastermind`. It is not in `bank_signals`, where interrupted clients really can
block each other, nor in the runs of programs that end (`dsort`, `palindrome`) or
whose bounds run out (`bank_life`, `vault_file`). In
`vault_race` threads that sleep for the lock of a removed vault, or stopped at a
NULL pointer, are a legitimate end (`Stuck`); in `Bank` it is `Finished`.

**Fairness.** The bank assumes weak fairness of the server's steps and of each
client's program steps: the scheduler runs every process that can run. Nothing
is assumed of users and of signals, nor is a semaphore assumed to be fair:
`SectionEnds` is about a client that is already in the critical section. The
vault module assumes strong fairness of each thread's steps: the kernel's
semaphores serve their waiters in the order they came (the model does not keep
that queue), so a thread is not passed over for ever. No thread need make a
call. Mastermind assumes weak fairness of each of the two processes: a server may
wait for ever for a client that never comes. `Dsort` assumes weak fairness of the
parent and of each command, so commands come to an end; `Palindrome` of the
program, whose input goes on. Nothing is assumed of signals. `bank_life` and
`vault_file` check safety only.

## 4. Proofs

The theorems hold for every value of the constants that the named assumptions of
the modules allow, and rest on nothing else: any number of clients, accounts,
commands and signals and every `MaxInt` (bank), of servers, starts, crashes,
files and lines (`BankLifecycle`), of threads, users, numbers and vaults
(`SecVault`), every key, size and position (`VaultFile`), any number of slots,
colors and rounds (Mastermind), commands that write any lines through pipes of
any size (`Dsort`), and every `MAX_INPUT_LEN`, alphabet and `tolower`
(`Palindrome`).
The assumptions say what the constants are (sets of ints, positive sizes), with three
that need a reason:

* `UsageAssumption`: there are fewer threads than `usage` has values, so that
  the counter does not wrap. The code never tests it; Linux has at most 2^22
  threads, and a thread of the model has one file open. It is used by the
  theorems about `QuietSpec` only.
* `PosLimit > MaxAlloc` in `VaultFile`: an unsigned position can stand at the end of
  every vault. `kmalloc` grants some megabytes at most, far below 2^32. The limit
  itself is the allocator's: nothing in the module has one.
* `PosLimit > MaxSize`: what `svctl` allows is an unsigned int. `MAX_SIZE` is 2^20.

The bank, in `BankProofs`:

| Theorem | Of | Inductive invariant |
|---|---|---|
| `TypeCorrect` | `Spec` | `TypeOK` itself |
| `Exclusion` (`MutualExclusion`) | `Spec` | `MutexInv`: `client_lock` is never above 1, and 1 only when nobody is in the critical section. Without it a second post would let two clients in |
| `NoPanic` (`ActionUnderstood`) | `Spec` | `ActionInv`: what lies in the record was written by a client that had one of the six requests in hand, or is the zeros of the fresh memory, which name account 0, whose first secret is not 0 |
| `CalmHandshake` (`Handshake`), `CalmNoDataRace` | `CalmSpec` | `CalmInv`: no interruption, exclusion and one token together; none is inductive without the others |
| `CalmReplies` (`ReplyIsMine`), `CalmBooks` (`BooksBalance`), `CalmCsv` (`CsvAgrees`) | `CalmSpec` | `RoundInv`, relative to `CalmInv`: `RoundOf(c)` says for each place of a client's round trip what the record, the server and the reply hold; `BooksInv` says that the books lag behind the list by exactly the one reply that is owed |
| `CalmNoOverdraft` (`NoOverdraft`) | `CalmSpec` | `AmountInv`: a request that reaches a handler has an amount that is not negative. So a granted debit is covered, or the subtraction of `server.c:321` wrapped below an account that was overdrawn already |
| `CalmNoOrphans` (`NoOrphanSession`) | `CalmSpec` | `SessionInv`, relative to all of these: secrets are those drawn so far, whoever passed the server's test is still authorised when the handler runs, a client that leaves has seen its session closed, and an open session has a living holder |
| `CalmLedger` (`ImplementsLedger`) | `CalmSpec` | the same. A client's step is a call, a return, the news that the bank is closed, or nothing; the server's is nothing, until the step before its post of `readBack_lock` executes the request or denies it |

A lemma first shows that a client outside its critical section does not touch what
`RoundInv` speaks of, so each step has to be considered only for the client that
takes it.

The other components, each in a module of its own:

| Theorem | Of | Inductive invariant |
|---|---|---|
| `LifeServerReachable` (`ServerReachable`), `LifeNothingLeftBehind` (`NothingLeftBehind`), `LifeTableSurvives` (`TableSurvives`), `LifeOneBank` (`OneBank`), `LifeTypes` | `BankLifecycle!Spec` | `LifeInv`: which of its objects a server has at each place of its start and of `free_resources` (`ProgressInv`), that a server with the exclusive semaphore is alone (`ExclusiveInv`), and that whoever finds the shared memory, created last and removed first, finds the other objects of the same server (`WholeInv`). So what a client opened after the last unlink is still there when it opens the memory, and all of one server (`ClientInv`) |
| `CalmTypes`, `QuietTypes` (`TypeOK`), `CalmListExclusive` (`ListExclusive`), `CalmUniqueIds` (`UniqueIds`), `CalmDevicesMatchList` (`DevicesMatchList`) | `SecVault!CalmSpec`, `QuietSpec` | `Inv`: who is inside the list, at which node it stands, and that each listed vault but the one being unlinked has its device |
| `CalmOopsFromRemove` (`OopsFromRemove`) | `SecVault!CalmSpec` | `OopsInv`: while every vault ever made is in the list, the list only grows, no node of it is freed, and the node of a call is in it |
| `QuietVaultExclusive` (`VaultExclusive`), `QuietUsageCounts` (`UsageCounts`), `QuietOpenStaysListed` (`OpenStaysListed`), `QuietRightVault` (`RightVault`) | `SecVault!QuietSpec` | `QuietInv`: `Inv`, and for each place of a call what its thread knows: the node that it found still is the one of the vault it named (`AimInv`), no listed node is freed, a vault's lock has one holder, and whoever unlinks a vault found no file of it open |
| `QuietImplementsStore` (`ImplementsStore`) | `SecVault!QuietSpec` | the same. Creating takes effect when the node is linked, removing when it is unlinked, opening and releasing when `usage` moves |
| `RunsAreDone` (`SvctlDone`), `RunsTouchTheirVault` (`OnlyMeant`), `ContentsTypeCorrect` | `VaultFile!Spec` | `RunsInv`: an open file has the vault of its user, and a run of `svctl` at its later ioctls has achieved what the earlier ones were for; every call changes one vault, its caller's or nobody's (`Touches`) |
| `ContentsImplemented` (`ImplementsContents`) | `VaultFile!Spec` | the same, and that decoding with a key undoes encoding, byte by byte and at every position |
| `AnswersAreSymmetric`, `RedsAndWhites` | `MastermindAnswer` | none: lemmas about `compute_answer`, see below |
| `GameAnswers` (`AnswerIsMastermind`), `GameSecretStays` (`SecretStaysPossible`), `GameSameVerdict` (`SameVerdict`), `GameTypeCorrect` | `Mastermind!Spec` | `GameInv`: what is on its way fits the places of both programs (`FlowInv`), their counts of rounds differ by what is on its way (`RoundInv`), and as long as no signal came their verdicts do too (`VerdictInv`) |
| `DsortComplete` (`SuccessIsComplete`), `DsortTypes` | `Dsort!Spec` | `DsortInv`: the place of the parent says what became of both commands (`OrderInv`), and as long as no signal came and dsort does not give up, list and pipe together are what was written (`PipeInv`) |
| `DsortOutput` (`OutputIsDuplicates`) | `Dsort!Spec` | `OutInv`, relative to `DsortInv`: the array is a permutation of all lines and the empty record, sorted after `qsort`, and what was printed are the duplicates of the part that was passed |
| `Verdicts` (`VerdictRight`), `PalindromeTypes` | `Palindrome!Spec` | `PalindromeInv`: the buffer begins with what was read in this round (`BufferInv`), both ends have passed the same number of letters, those at the front like their counterparts (`WalkInv`), and the answer is that to what `Strip` left (`AnswerInv`) |

Why the vault's invariants need each other: a new vault's number is not compared with
the list under the lock. It is unique because `device_create` refuses a number
that has a device, and because every listed vault has one, unless a thread is
in `delete_node`, which the lock excludes.

Three proofs are about counting, which a prover without induction over data has
to be led through. All three number the elements of a set by how many precede
them, and show that no two have the same number:

* *Mastermind.* Whether a slot gets a white peg depends on the earlier slots that
  used its color up: the n-th other slot of a color counts if the secret has n of
  them. So each white slot of the guess has a partner in the secret, and the other
  way round, which makes the answer symmetric: this is why `generatePopulation` may
  exchange the two, and why the secret is never filtered out. In the same way each
  red or white slot is one of the pegs that two codes have in common.
* *dsort.* `Qsort` puts each element at the place that is the number of those
  smaller than it, or equal and earlier. These places are all places, once each, so
  the sorted array has the same occurrences, and a line with two neighbours alike
  is one that occurs twice.
* *ispalindrom.* A letter is like its counterpart if their numbers from both ends
  agree (`Before`, `After`). The loop stops in the middle of the line; the second
  half follows because the two numbers of a letter add up to all others.

Only model-checked:

* Liveness, which the prover cannot do under fairness: `SectionEnds`,
  `StopsWhenAsked`, `CallEnds`, `GameEnds`, `Ends`, `EndsAfterSigint`; and that
  the runs which check for deadlock find none.
* The three findings of section 5, which are counterexamples.

Every safety invariant, action property and refinement of a passing run is stated
by a theorem. `RightVault` is proved of `QuietSpec`, and `vault_stale` shows it false
of `CalmSpec`. That no call follows a bad pointer is part of the proof about
`QuietSpec`; of `CalmSpec` it is false (`vault_oops`), and what is proved is that it
takes a remove.

## 5. Findings

Shown by a run:

* **A client can hang at shutdown** (`bank_hang`). `BANK_CLOSED` is written "so
  clients do not hang", but a client that has passed the test overwrites it and
  waits for a server that has exited, with `client_lock` held.
* **A call works on another vault than the one selected** (`vault_stale`). The node
  that `get_vault` returned means another vault once the first vault is removed.
* **An open follows NULL** (`vault_oops`). When a remove unlinks the vault before an
  open has searched for it, `get_vault_by_cdev` returns NULL. `secvault_open` tests
  for an error pointer only ("How is that even possible?", `secvault_fops.c:402`) and
  follows it. `OopsFromRemove` says that nothing but a remove brings a call there.

Visible in the models, where a property makes an exception for it or its
specification leaves it out:

* A signal that interrupts `sem_wait` in the bank, whose result nobody looks at:
  the server serves the old request again (`CsvAgrees` holds of `CalmSpec` only),
  and a client enters the critical section without the lock and then posts it
  (the proviso of `MutualExclusion`).
* A debit from an account that is overdrawn already looks covered if the difference
  is below the least int: `server.c:321` tests the wrapped subtraction. After two
  deposits of 4 the balance in `bank_calm` is -8, and a withdrawal of 4 is
  granted. It is the exception of `NoOverdraft`.
* An interrupted waiter for `vault_lock` releases it for somebody else
  (`ListInterrupted`, in `Spec` only).
* `delete_node` searches for the number again and does not ask who owns the vault
  it finds: between the check and the search another remove and a creation may
  have put another user's vault there.
* A changed key changes the contents: `ioctl_change_key` encrypts with the new key,
  as `secvault_ioctl.c:54` says ("re-encrypt the data with new key"), and does not
  store it, so that readers go on with the old one. `VaultContents` promises just
  that: a change of the key mixes the new key into the text.
* A vault that shrinks is copied with its old size (`secvault_ioctl.c:91`), and
  `ioctl_change_size` has no limit of its own.
* A server whose `atexit` fails exits without `free_resources` and leaves the
  exclusive semaphore (`server.c:237`), the other exception of `NothingLeftBehind`
  beside a killed server.
* A client that opens its objects while one server ends and another starts gets
  objects of both. Nothing prevents it: `OneBank` says that this takes an unlink
  between two of its opens, and that what it opened after the last one is of one
  server.
* The advice of server.c:231 removes the shared memory and leaves the semaphores,
  whose files are called `sem.1526280...`: the next start is refused again, and its
  own `free_resources` does not run before the exclusive semaphore is there.
* A server that fails to start has already emptied its output file
  (`server.c:463`), which is the exception of `TableSurvives`.
* The names of the bank's objects appear before the memory is set up: a client
  that is quick may write a request that `memset` (`server.c:387`) wipes out.
* A signal between the test of `stopSignal` and `pipe()` lets dsort wait for a
  command whose full pipe nobody reads (`late` in `Ends`). dsort fails if a command
  exits with another status than 0, where the script that it replaces
  (`dsort.c:8`) does not look at it, and a command whose `execvp` failed counts as
  a success, as `abort` is not an exit.
* With `-s` a line of more than half spaces gets a verdict that depends on its
  spaces (`EnoughLetters`). A line of exactly `MAX_INPUT_LEN` characters is refused
  although the message allows it ("Only up to 40 Characters are supported!",
  `ispalindrom.c:137`), and the last character before the end of the input is cut
  off as if it were the newline of which the comment speaks (`ispalindrom.c:131`).
  These are the three cases of which `VerdictRight` says nothing. The rest of a
  refused line is judged as a line of its own.

## 6. Not modelled, and the plan

Not modelled: build files and documentation; wording of dialogues; the steps in
which loading the kernel module fails and takes back what it made, and failed
allocations whose only effect is an error code (nothing interleaves with their
outcome); memory that is freed at the end of a process; what the `memcpy` of a
shrinking vault writes; NUL bytes in the input of ispalindrom, lines longer than the
1023 bytes that `fgets` takes in dsort, and last lines without a newline; the
splitting of dsort's command strings; more than one client on a Mastermind
server's queue.

What is left: every safety property is proved, liveness stays with TLC. Next are

1. a shared place for the counting lemmas that `MastermindProofs`, `DsortProofs`
   and `PalindromeProofs` each prove in the form that they need;
2. what `Spec` of the bank still promises once a client's `sem_wait` was interrupted,
   beyond `TypeCorrect` and `NoPanic`;
3. the places of `Spec` of `SecVault` at which an interrupted waiter gives away a
   lock of another, as a weaker `ListExclusive` that holds of it.

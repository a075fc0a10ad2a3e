# CPP_Plus: models, checks and proofs

CPP_Plus is a course on Linux systems programming in C++: many small programs, and
four projects (a TFTP server, a thread pool, a chat room and a dictionary), plus a web
server. This directory holds TLA+ modules of the parts with state and concurrency, TLC
configurations that check them on small instances, and TLAPS proofs of the results that
matter for every number of threads, clients or members. Paths are relative to `src/`.

1. [The system](#1-the-system): components, state, operations, what is hard
2. [The modules](#2-the-modules): how state and actions correspond to the code
3. [The runs](#3-the-runs): questions, bounds, fairness, results
4. [Where the code departs from what it says](#4-where-the-code-departs-from-what-it-says)
5. [The proofs](#5-the-proofs)
6. [What is not modelled](#6-what-is-not-modelled)
7. [Plan](#7-plan)

## 1. The system

The programs are independent of each other, with three exceptions: the chat server
contains a copy of the thread pool, `03_Process/20_sem` and `21_sem_pratice` share
`sem.cpp`, and each client belongs to its server.

### Modelled

| Component | State | Operations | Interaction | What is hard |
|---|---|---|---|---|
| Thread pool, `07_projects/02_ThreadPool` | task queue, `isRun`, mutex, condition variable, threads | constructor, `addTask`, worker loop, destructor | one client thread and `ThreadSize` workers share the queue | lost wakeups, shutdown racing with the wait, work left behind |
| Chat server, `07_projects/03_ChatRoom/Server` | listener, descriptor table, map `clients` under `client_mutex`, a pool | `run` (accept), `handleClient`, `broadcast`, destructor | TCP with clients; map and descriptors shared by workers | descriptor reuse, TCP without message boundaries, the unlocked erase, SIGPIPE, blocked `recv` |
| TFTP server, `07_projects/01_TFTP/Server` | one UDP socket, the last sender, open file, block number | `run`, `handleReadRequest`, `handleWriteRequest`, `sendError` | datagrams of all clients on one socket | loss, duplication, reordering, wrap of block numbers, packets of other clients |
| Web server, `06_http` | the descriptor table, one detached thread per connection | `main` (accept), `cli_handler`, `echo_www`, `show_404`, `work` | threads share nothing but the table | every descriptor is closed twice; waiting for input that does not come; a full table |
| Dictionary, `07_projects/04_Dictionary` | tables of MySQL, one transaction per importing process; the client's menus and socket | `DataManager` (databases, tables, `importDict`); `Register`, `Login`, `Querry`, `History`, `Logout` | processes share the database; client and server a connection | two imports at once, a crash between batches, answers longer than the buffer, a server that goes away |
| Echo servers, `05_Socket/04`, `06`-`15`, `18` | listening socket, connections, `select` sets and `maxfd`, `epoll` events, processes | start, accept, wait for events, the handler, exit, SIGCHLD | clients that type lines until `quit` | events that are not repeated, swapped roles after `fork`, closed numbers, TIME_WAIT, SIGPIPE |
| Lines between processes, `03_Process/08`, `10`-`12`, `17`-`20` | a pipe, FIFO, message queue or shared buffer | write, read, `quit` | sender and receiver, sometimes both ways | media without boundaries, full media, torn reads, removal while in use, killed receivers |
| Semaphore sets, `03_Process/2{0,1}_*/sem.cpp` | a System V set that outlives processes | `create_sem`, `P`, `V`, `delete_sem` | found by key by all processes | creation and initialisation are separate |
| Semaphore ring, `03_Process/21_sem_pratice`, `04_Pthread/09_sem_pratice.cpp` | N semaphores, one token | wait for mine, print, release the next | processes or threads in a ring | start-up order, killed processes |
| Waiting and waking, `04_Pthread/05`-`07`, `11`, `12`, `03_Process/14`-`16` | a mutex and what it guards, a condition variable, a semaphore, a pending signal | post, notify, wait, count; handlers, `sigprocmask`, `wait` | producer, consumers and `main`; parent and children | notifications that find nobody, spurious wakeups, merged signals, a handler that comes early |
| File copies, `04_Pthread/08_pthread_pratice.cpp`, `03_Process/05_file_practice.cpp` | a source, a destination, two positions | open, seek, read, write | two threads or processes write one file | where the halves meet, who empties the destination when |

What makes each correct:

* *Thread pool*: a posted task is run exactly once, in order of starting; no task waits
  while a worker sleeps that nobody will wake; the destructor returns, and only when
  everything posted has been run.
* *Chat server*: members see broadcasts in one common order and never their own text;
  descriptors are neither leaked nor used for somebody else's connection; a client that
  leaves is forgotten and its worker comes free.
* *TFTP server*: files arrive complete and in order whatever the network does, a transfer
  is left only when complete, and the server comes back to its next request.
* *Web server*: every thread gives back its descriptors and no one else's; the answer is
  that of the request; the server does not exit.
* *Dictionary*: the table holds the whole file or nothing; a server that reported no error
  has all of it; a client's answers are those to its requests; nobody hangs.
* *Echo servers*: a client is dropped by nobody but itself, gets one answer for each line,
  has everything read that it sent, and is let go when it says `quit`; no zombie stays.
* *Lines between processes*: what is displayed is what was sent, in order; a line is left out
  only by a receiver that is killed with it in hand, and only what is displayed after the end is
  repeated; `quit` ends the receiver; a writer without a reader ends.
* *Ring*: the output is A, B, C, A, B, C, ...; the token is never lost or doubled.
* *Waiting and waking*: nothing is consumed that was not produced, no increment is lost,
  the programs end, zombies are exactly the signals that were merged.
* *File copies*: each half is copied, and nothing else (which holds of the threads, not of the
  processes; section 4).

### Not modelled

Programs without state or without a second actor: `01_Linux`, `02_IO`, the `fork`, `wait`
and `pthread_create` demonstrations, the UDP, broadcast and multicast pairs; and the chat
client's own loop. Section 6 says why; `PROJECT.json` lists each.

## 2. The modules

Numbers in brackets are lines of the source; `PROJECT.json` maps every definition.
Definitions commented "Slip:" are plausible mistakes that the specification does not use:
each property is known to fail when the slip takes the place of the definition below it.

### ThreadPool, TaskPool, ThreadPoolProofs

`TaskPool` is what a pool promises its client: tasks are posted, start in the order of
posting, at most `Width` at once, each finishes, and after `Close` the pool returns when
nothing is left. `ThreadPool` is `threadpool.cpp` with `main.cpp` as its client.

| Variable | Code |
|---|---|
| `tasks`, `isRun`, `lock` | the members `tasks`, `isRun`, `task_mutex` |
| waiters of `task_cv` | the workers whose `wpc` is `"blocked"` |
| `mpc`, `next` | the main thread: constructor, `addTask`, destructor, and the task it posts next |
| `wpc`, `wtask` | each worker's place in the loop of `startThreadPool`, and the task it holds |
| `finished`, `spurious` | history |

A critical section is two steps, taking the mutex and the work up to its release, because
nobody can observe what happens between. `notify_one` is a step after the release
(threadpool.cpp:33), as in the code; `WTake` does not hold the mutex while the task runs
(`WRun`). A condition variable may wake a worker that nobody notified (`Spurious`).

### ChatServer, ChatServerProofs

One module for `server::run`, `handleClient`, `broadcast` and the destructor, with the
clients of `client.cpp` reduced to what they send. The pool is taken at the level of
`TaskPool`, a queue whose head an idle worker takes, which `ImplementsTaskPoolSafely` justifies.

* `fds` says which connection a descriptor stands for; `close` frees the number and
  `accept` gives out the lowest free one. `clients`, `tasks` and `wfd` hold *numbers*, which
  is how a stale one comes to mean another client. `wcin` is the `cin` captured at `accept`,
  the identity the task was started for.
* `RecvCall` and `RecvData`/`RecvEnd` are separate: a blocked `recv` keeps the connection it
  was called on (`wconn`), whatever becomes of the number. `Readable` and `Parsed` model TCP
  and protobuf: messages may be merged (last field wins), and a text longer than `BUF_SIZE`
  is read as a head, which parses as a CHAT, and a tail without a type.
* `Erase` is the loop over the map without `client_mutex` [142-147, 182-187]. Next to
  another loop or insertion that is a data race, whose outcomes are the erase and the death
  of the process (`crashed`).
* `Send` is one round of the loop of `broadcast`. To a client that has gone, the first send
  succeeds and provokes a reset, a later one raises SIGPIPE, which nobody handles, or fails.

### TftpServer, TftpServerProofs

`run` and the two handlers over a set `net` of packets in flight, which may be lost,
repeated and reordered. Every `recvfrom` overwrites
`cli`, so answers go to whoever sent last. `Succ` is `++num` in sixteen bits (`BlockMod`).
`setting` chooses in the initial state between several clients on a network that only delays
and one client, with retransmission, on a network that loses and repeats. The repository only
declares a client (`Client/src/client.cpp` repeats its header), so the clients here follow
RFC 1350 and are external.

### HttpServer, HttpServerProofs

The table of descriptors is the shared state: `table[f]` is a connection, a file or free,
`fd[c]` and `file[c]` are the *numbers* the thread of `c` holds. `accept` and `open` take the
lowest free number. `Closing(f)` frees whatever the number stands for by then. A thread
closes its connection in `cli_handler` and again in `work`. `recv` consumes the request,
then `GetRequest` reads once more with `fgets`; both keep reading what they were called on
(`held`). Other methods than GET and POST, and POST or parameters for a file that exists,
end without an answer, as in the code (405 does nothing, `handle_request` is empty). `Manners`
chooses in the initial state how the clients of a behaviour act: "polite" ones come one after the
other, send the request line in one piece and stay to the end; "rude" ones overlap, leave at
will, and may send the line in pieces, of which one `recv` and `sscanf` can make any request, or
none (`Parsed`). Since the server may make anything of what a rude client sends, the run
`http_serving` lets all rude clients ask for the same (`ServingInit` in `MCHttpServer`).

### SemSet, SemRing, ProcessProofs

`SemSet` holds the operations of `sem.cpp` as actions with the process as parameter;
`SemRing` instantiates it for its members and `Mailboxes` for a sender and a receiver. Creating
a set, initialising each semaphore, `P` and `V` are separate steps; `Delete` leaves others with
the id of a set that is gone, on which `P` and `V` fail and nobody looks. A killed process
leaves the set behind (`Abandon`), and can be started again on it. `Orderly` restricts
start-up to the case where nobody waits before the set is filled, which is how the threads of
`09_sem_pratice.cpp` start.

### EchoServers, EchoServersProofs

Eleven servers that handle a client in the same way and differ in who runs the handler and
when. `kind` is chosen in the initial state; the handler (`Echo`, `Farewell`, `Broken`) is
shared, and each kind has its own way to accept and to wait.

| Variable | Code |
|---|---|
| `queue`, `srv`, `link` | the backlog, the server's end of each connection, what it can learn of the other end (closed, or reset because somebody wrote to a closed end) |
| `in`, `out` | what is in the socket buffers: units of two letters, answers |
| `ready` | the set or the array that `select` or `epoll_wait` has returned, as far as it is not yet gone through |
| `fresh` | edge-triggered: what was not reported yet |
| `fd`, `maxfd` | the numbers of 10 and 11, where the highest one matters |
| `chain`, `ps`, `heir` | 07: which process serves whom, who is whose parent, who still holds the descriptor |
| `lingering` | connections in TIME_WAIT, which `bind` trips over unless 15 has set SO_REUSEADDR |

In 07 the branches after `fork` are swapped: the parent serves and exits, the child closes the
connection and accepts the next one, so that each connection moves the listener to a new
process, and SIGCHLD reaches whoever happens to be the parent. `Room` is four letters in 13, 14
and 15, which is what makes "quit" exactly a buffer and longer lines come in pieces.

### Mailboxes, MailboxesProofs, LineTransfer

`LineTransfer` is what a channel for lines promises: what arrives is what was sent, in
order, except for three faults that a channel may be allowed: a receiver that dies takes one line
with it (`"lose"`), the last line is displayed again at the end (`"again"`), empty lines are
(`"blank"`). `Mailboxes` has nine programs that send lines until `quit`, again chosen by
`kind`: pipes (08, 10, 11), FIFOs (12), message queues (17, 19), shared memory (18) and shared
memory with semaphores (20, over `SemSet`). `Faults` says which program has which fault: 17
loses, 10 and 20 repeat, 12 displays empty lines, the others have none.

| Variable | Code |
|---|---|
| `pipe`, `mq`, `buf` | the media |
| `held` | the message `msgrcv` has put into the receiver's buffer [17_msgq/recv.cpp:34] and `printf` has not displayed yet [:38] |
| `sent`, `got`, `took` | history: the lines sent, displayed, and how many of them were taken |

In the queues `Receive` (`msgrcv`), `Show` (`printf` and `strcmp`) and `RemoveQueue` (`IPC_RMID`)
are steps of their own, so that a receiver of 17 can be killed between any two of them: the line
it had taken is lost, and after `quit` the queue stays and the successor waits in it (`Orphan`).
`read` and `printf` of a pipe are one step: a reader of a FIFO that is killed is not started
again here, so nobody can tell in which order the two were. At the end of a pipe `read` returns 0
and leaves the buffer as it was; `ReadNothing` displays once more what is in it (the last letter in
10, the emptied buffer in 12). The programs do so for ever, and the history records it once.
`fgets` into shared memory is three steps (`Begin`, `Copy`, `Trim`: a torn line, a
line with its newline, the line), between which a reader may look; `Display` and `Test` are
two reads.

### Wakeups, ProcessProofs

Nine programs in which somebody waits for somebody. A semaphore (06) and a pending signal
(14-16) keep a token; a condition variable (07, 07_cond2, 12) only knows who waits now, and none
of the programs tests a condition, so a notification may be `lost`, and a waiter may wake
for nothing (`Spurious`). `++num` (05, 11) is a load and a store. Signal handlers (`Deliver`, `Reap`)
run between any two steps of the parent, which stands still meanwhile (`handling`), unless
the signal is blocked (`Masked`). An increment done is a pair of its thread and its number, so that
what the counter should be is the size of the set of those pairs.

### FileCopies, ProcessProofs

Byte i of the source is the number i, and a file is a function from offsets to bytes, so
that `dest[i] = i` says that byte i is where it belongs. Two threads copy buffer by buffer; two
processes copy one piece each, the parent emptying the destination whenever it gets there.
`LeftAt` is what the offsets of 05 leave at each place: the half of the parent with the zero of its
buffer behind it, and the half of the child one byte too late. `CopyIsFaithful` says of the threads
that they copy the source exactly, and of the processes that they leave one of two files, given
byte by byte.

`MCProcess` runs `Wakeups`, `FileCopies` and `SemRing` in one state graph. They share no variables;
in each behaviour one of them runs, and the other two stand in a state that they can reach and
cannot leave, so that their properties hold or fail by the one that runs.

### Dictionary, DictionaryProofs

Server processes run the constructor of `DataManager`: databases, tables of users, the count of
the dictionary table, and the import in one transaction of batches. `ReadLine` is one round of
the `getline` loop: `pos` counts the lines a process has read, `batch` is the part of the insert
put together so far, and `Executes` says when it is sent to the database: when it is full, or
when the file ends with something left. MySQL is external: it
keeps what was committed, drops the transaction of a process that ends, refuses a repeated
word and makes an insert wait for a word that another transaction holds. The serving part of
the server has no code yet (`server.cpp` and the functions on users, words and histories are
empty) and is assumed to answer each request but QUIT, which is how the client uses it. The
client is translated function by function: two menus, one request at a time, one `recv` of 128
bytes per answer. `crossed` records that something was taken for an answer that was not.

## 3. The runs

| Run | Configuration | Question |
|---|---|---|
| `threadpool` | 3 workers, 5 tasks, 2 spurious wakeups | no task lost or doubled, no lost wakeup, shutdown wakes everybody, the destructor drains, and `TaskPool` is implemented, liveness included |
| `chat` | 2 descriptors and 2 workers for 3 clients of whom one stays, or for 2 who may both leave after long texts | common order, no echo, no leaked descriptor, an empty room at rest, workers that come free |
| `tftp` | 4 clients, 9 blocks, no loss; or 1 client, 4 blocks, 3 timeouts, loss and repetition; block numbers modulo 8 | nothing wrong is stored, a transfer is left only when complete, without loss the server always comes back |
| `http_serving` | 2 clients, 2 descriptors, every kind of request, polite and rude | no descriptor is left behind, polite clients that ask for a page get the right answer whether it is there or not, ended connections are closed |
| `process` | the ring: 4 members, 3 kills; all 9 programs that wait: 3 threads or children, 2 increments each, 1 spurious wakeup; the copies: sources of 0 to 7 bytes, buffers of 2 | output in turn through kills and restarts, and without kills the ring goes round for ever; production against consumption, increments, zombies against merged signals, the end; what the copies leave, to the byte, and that they end |
| `echo` | all 11 servers, 2 clients with 2 lines each, one of whom may type ahead, type long lines or be killed, 2 starts, 1 line at the console | nobody is dropped by others, one answer each, all is read, quit is honoured, zombies are reaped |
| `mailboxes` | all 9 programs, 2 lines and a quit of each author, room for 3, 1 kill | every medium but bare shared memory implements `LineTransfer` with the faults its program has; quit ends the receiver; a flood is stopped |
| `dictionary` | 2 servers, 1 client with 3 requests, 3 files, batches of 2, 1 crash | all or nothing, whole dictionaries, answers in step, nobody hangs |
| `chat_reuse`, `http_double_close`, `http_bad_method`, `copy_half` | small | section 4 |

Every module but `FileCopies` defines a type invariant `TypeOK` (`RingTypeOK` in `SemRing`). The runs of
`ThreadPool`, `HttpServer` and `SemRing` check it, and the theorems `TypeCorrect`, `RingTypeCorrect`,
`EchoTypes` and `MailboxTypes` prove it. The types of `FileCopies` are part of `ProgressInvariant`.

**Bounds.** *threadpool*: three workers is the smallest number at which one worker can take
a task meant for a second while a third still sleeps, and five tasks leave some queued while
all are busy; the proofs cover every size. *chat*: two descriptors for three clients force
reuse of a number while the map, a queue entry or a blocked call still names it, and make
`accept` fail; one text per client with merges of two is enough to merge LOGIN with CHAT and
CHAT with QUIT. No symmetry is used, because the run has a liveness property. *tftp*: nine
blocks exceed the eight block numbers, so that numbers wrap within a transfer, as they do after
65535 blocks in the code; the lossy setting has more numbers than blocks because RFC 1350
itself confuses blocks a whole range apart. *http*: two descriptors are what one request needs
(connection and file), so that the second client meets a full table at `accept` and at `open`.
*process*, the ring: four members and three kills, so that a token can be lost at any place and all other
members can still be restarted. *echo*: two clients are enough for one to be dropped, starved
or overtaken by the other, two lines for a line and a quit to run together, two starts for a
restart next to lingering connections. *mailboxes*: room for three is less than two authors
write, so that queues fill up; two lines are enough for one to be overwritten, skipped or
repeated. *process*, waiting and waking: with three children two signals can be merged while a third is handled.
*process*, copies: halves of zero to two buffers, even and odd. *dictionary*: three entries in batches of
two give a full and a partial insert; the other files hold a word twice, in different batches,
or are missing; three requests are a login, a history in pieces and a query after it.

**Fairness.** The scheduler runs each thread or process that can take a step: weak fairness
per thread, process or handler, never more. Clients owe nothing: no fairness on connecting,
typing or leaving (in `mailboxes` the user types until `quit`, which is what the property is
about). In `tftp` a client that is busy reads its socket, and without loss packets arrive; on a
lossy network no liveness is claimed, because the server has neither timeout nor
retransmission and waits for ever (server.cpp:138, 180). A task of the pool is assumed to
return, and the database to answer. Spurious wakeups, kills, crashes and the end of TIME_WAIT
have no fairness. Where a server waits for clients, or programs end, deadlock is not
checked; in `threadpool` it is.

## 4. Where the code departs from what it says

Each has a run whose one property states the quoted sentence and is violated.

* `chat_reuse`: after QUIT, `break` (server.cpp:189) leaves the `switch` only and the worker
  reads again from the number it has closed; if `accept` has given it out, the task of the
  client that quit serves the next client (:139, "delete the client and end the worker").
* `http_double_close`: `work` closes a number that `cli_handler` closed (main.cpp:15); in
  between it may have become another client's connection.
* `http_bad_method`: for a method other than GET and POST, `echo_error(fd, 405)` reaches an empty case
  (http.cpp:143-144) and the connection is closed without a word; http.cpp:240 calls it "reply an
  error page to the client".
* `copy_half`: the child of `05_file_practice` writes its half from `size/2 + 1` on (:58), one byte
  behind its place, and of an odd source not the last byte (:56). The parent may also empty the file
  after the child has written (:65). The source says "the child copies the second half" (:44), "the
  second half is copied" (:60) and "the copy is complete" (:80). The check of the size at :82-84 measures
  `fd2`, the source, and so does not notice.

Met while modelling. Each is in the models, and the property next to it names the condition
under which it does not happen; none of them contradicts a sentence of the repository clearly
enough for a run of its own.

* *Chat server*: the erase loops run without the lock (server.cpp:142-147, 182-187); two
  messages read by one `recv` count as one, so that a LOGIN merged with a CHAT never enters the
  room (:152); an invalid message closes the descriptor and leaves its key in the map, where
  it stops later broadcasts (:193, :208).
* *TFTP server*: DATA is accepted by number, whoever sent it (:184, :191), so that a
  retransmission of an earlier client can be stored in the file of the current one (several
  clients and retransmission are therefore never combined in the run); an ACK of an earlier
  client ends the wait of a download (:144). A write request that arrives twice, because the network
  repeats it or the client did not wait, truncates the file it has filled before (:161), so that
  `UploadIsFaithful` promises a complete file only to a client that asked once.
* *Web server*: after `recv` took the whole request, `fgets` waits for more (http.cpp:66), so that
  a client that waits for its answer, with its output open, waits for ever. `EndedIsClosed`
  speaks of clients that have ended their output. A request line that comes in pieces is taken for
  whatever its first piece looks like (:69-73).
* *sem.cpp*: a process that finds the set uses it while its creator still fills it in (:55); a
  token released meanwhile is overwritten by 0, and the ring (hence `Orderly`) or the exchange
  of lines stops, though it never goes wrong otherwise.
* *20_sem*: the sender deletes the semaphores right after `quit` (send.cpp:69). A receiver that
  waits in `P` goes on all the same and reads `quit`; one that comes to `create_sem` only then
  makes a set of its own and waits for ever.
* *12_fifo*: a `quit` that arrives behind another line in one `read` is not recognised
  (recv.cpp:19); the reader then finds the end of the file again and again and spins. `EndsOnQuit`
  asks that the FIFO was empty when `quit` was written.
* *10_pipe_read*: at the end of the pipe `read` returns 0, which nobody looks at, and the last
  letter is displayed for ever (:26-30); 12_fifo displays empty lines.
* *17_msgq*: `msgrcv` takes a message out of the queue before it is displayed. A receiver that is
  killed in between (recv.cpp:34, :38) loses the line, and its successor displays the next one; killed
  between taking `quit` and removing the queue (:42), it leaves a successor that waits for ever.
  `IsLineTransfer` allows one line for each kill and no more; `EndsOnQuit` names this successor (`Orphan`)
  as the only one that the queue does not end.
* *18_shmget*: without semaphores the reader displays fresh, torn, untrimmed and repeated
  lines; nothing is promised of it but that it ends after `quit`.
* *10 and 11, select*: a line typed at the console is sent to every number up to `maxfd`
  (10_select_loop_server.cpp:97); a closed one among them ends the server. `readfd` is not cleared
  before the first FD_SET (:51); the model takes it to be empty. The client with `poll` compares
  `revents` with `==`, so that it does not read data that are reported together with an error of
  the connection.
* *14 and 15, epoll*: one `recv` of four bytes per event leaves the rest of a longer line
  unread until more comes (14_epoll_ET.cpp:107); `AllIsRead` asks of them that lines fit.
* *06 to 15*: a `send` to a client that has gone raises SIGPIPE and ends the server (only 07
  confines it to one process); hence `clean` in `DroppedOnlyByItself`.
* *07_cond*: a signal before the wait is lost, and `main` waits in `join` for ever. `ComesToItsEnd`
  says that this is the only way not to end. *05_pthread_mutex* prints outside the mutex, so
  that numbers may come twice or out of order; 11 does not.
* *Dictionary*: a history of more than 128 bytes is read in part, and the rest is taken for
  the answer to the next request, LOGIN included (client.cpp:328); `InStep` asks that answers fit.
  A file in which a word comes twice is rolled back every time while `main` reports success; the
  `dict.txt` in `server/build` is such a file.

## 5. The proofs

All constants are arbitrary, under the named assumption of each module (finite sets,
natural numbers, the main thread is no worker).

**ThreadPoolProofs.** The invariant `IInv` joins the type invariant, the owner of the mutex
against the places of the threads (`MutexInv`), the phases of the destructor (`StopInv`), the
shape of the queue (`QueueInv`) and `ExactlyOnce`. It is needed because `ExactlyOnce` and
`NobodySleepsThroughStop` are not inductive: that no worker blocks after `notify_all` follows
only from who can hold the mutex when `isRun` falls. `Invariance` has a lemma per conjunct and
a step per action. From it follow `TypeCorrect`, `NoTaskLostOrDuplicated`,
`StopWakesEverybody` and `DestructorIsComplete`. `NoLostWakeup` proves `WorkConserving` relative
to `IInv`, counting the awake workers: a push is compensated by its notification, a task is
taken by a worker that was counted, and a worker blocks only on an empty queue.

The refinement is in the same module. `ImplementsTaskPoolSafely`: under the mapping of `ThreadPool`, the
initial state maps to `TaskPool`'s and each step to a step or a stutter. `AddPush` posts, `WTake`
starts (at most `Width` at once, since the tasks held inject into the workers other than the
one that starts), `WRun` finishes, `DtorStop` closes, `Join` returns. The fairness half of
`ImplementsTaskPool` is checked by TLC only.

**HttpServerProofs.** `NothingLeaks`: a finished thread has left neither connection nor file
in the table, whatever the stray closes of other threads did. The invariant `OwnedInv` says
that a connection or a file is at most at the number its own thread remembers; stray closes
can only remove it, so that the thread's own closes find either its own object or none.

Two further theorems: `StaysUpInvariant` (`StaysUp`: `main` runs whenever the table has a
descriptor at all, `NumFds >= 1`; in an empty table the first `accept` fails and the code
returns) and `RightAnswerInvariant` (`RightAnswer`: a polite client that asks for a page, there or not, is
sent its answer; with `NumFds >= 2`, which is what one request needs). The second rests on `PoliteInv`: clients that come one after the other find a table in
which only the connection and the file of the current thread can be, so that the second close
of a thread that has ended cannot hit anybody; and on `AnswerInv`, which carries the request from
`recv` to what is sent.

**ProcessProofs** holds three parts that share no state, for `SemRing`, `FileCopies` and `Wakeups`; because it
extends all three, `SemRing` and `FileCopies` name their specifications `RingSpec` and `CopySpec`.

*SemRing.* `OutputIsInTurn`: output is in turn for any number of members, kills and restarts
included. The invariant says that there is at most one token, counting semaphores
and members between `P` and `V`, and that it is at the place `last` prescribes; a kill only
removes it, and so does a process that fills in the semaphores while others use them already.
Hence the theorem needs no `Orderly`: the race of `create_sem` can stop the ring, but never make two
members print at once or out of turn. `Orderly` is needed for `EverybodyPrints` alone.

**ChatServerProofs.** `TypeCorrect`; `MutexInvariant` (whoever broadcasts, inserts or ends holds
`client_mutex`, and nobody else does); `NoFdLeakInvariant` (a connection is open only while a task or a
worker answers for it), from `ThreadsCarry`, which says that each open connection is the `cin` of
one task in the queue or of one worker, and `OneDescriptorInvariant`, that no two numbers stand for
one connection; `NoEchoInvariant`; `SameOrderInvariant` and `SentOnceInvariant`. The order is common because
a text is given its place under the mutex, so that what a member has been sent is the log up to
the last place it was served, and at most one broadcast is under way; the invariant relates each
outbox to the log and to the position of the loop of the worker that holds the mutex.
`RestingRoomInvariant`: at rest the map names nobody who has gone. All for any number of
clients, workers, descriptors, messages and texts.

*FileCopies.* `FaithfulInvariant`, for a source and buffer of any size, in every interleaving: the
threads copy the source exactly, and the processes leave one of the two files of `LeftAt`, byte by
byte: what they do, not what they announce (section 4). `ProgressInvariant` is the inductive part: each copier stays in its half, what lies
between its start and its position is there already, and a file the parent has emptied
contains nothing of before. The lemmas on the operators say where two halves meet (`HalvesMakeWhole`),
what a `read` returns (`PieceOfSource`) and what a `write` leaves in the file (`PieceInPlace`,
`BeforeKept`).

**DictionaryProofs.** `ImportInvariant`: for any number of servers, files and batch size. It says
that what a transaction holds are the words of the lines read so far, less those of the batch
in hand (`TxIsInserted`), that one transaction at a time holds words (`OneInserts`, because the first
word of a file is locked before any other), and that a process that is not importing holds none.
From it follow `AllOrNothingInvariant` and `ServesWholeInvariant`. `InStepInvariant`: as long as answers fit
the buffer, a connection carries at most the request outstanding or its answer, which is why
what the client takes for an answer is the answer to what it asked.

*Wakeups.* `Invariance`, for any number of threads, children, increments and spurious wakeups, over
all nine programs. Items are counted where they are (`ItemsInv`): in the semaphore, with a woken
thread, consumed, or lost, which gives `NothingFromNothingInvariant`. `CountInv` says who holds the mutex and
that the number a thread has loaded is the current one while it does, which gives `CountedUpInvariant`.
`SignalInv` counts the children that have ended: reaped, in the handler, behind the pending signal, or
merged into one; and where `SIGCHLD` is blocked around `fork` there is at most one child at a time,
which gives `ZombiesInvariant`.

**EchoServersProofs.** `NobodyIsDropped` and `AnswersMatchLines`, for all eleven servers at once and any number of
clients and lines. Neither property is inductive: that a client which keeps to the dialogue is not cut off
depends on where its line is. The invariant is therefore a statement about each conversation
(`Conversation`): between two lines nothing is on the way (`Bare`); while the client waits, its line is
whole and unread (`Asked`), was empty and never sent (`Ignored`), or has been answered (`Told`), and the
server has let go of the client exactly if that line was `quit`. It speaks of the clients that
count (`Served`): of all of them while everybody keeps to the dialogue, and in the fork server of each one that
does, because there the others cannot reach it. Three more parts say who may be reported ready
(`Reports`), that nobody is in the backlog twice (`Backlog`) and who has a process (`Forks`). Steps for
another client are dealt with once (`Untouched`, `HandleApart`, `ClientApart`), the rest is one
lemma per action. `NoneOverlooked` is about the code of 10 and 11 that keeps `maxfd`: raised at `accept`,
searched for again when the highest client leaves. `Numbered` says that the numbers of open
connections are distinct and lie in `4 .. maxfd`; hence `select` is asked about every open connection. With it
comes `EchoTypes`.

**MailboxesProofs.** `ImplementsLineTransfer`: every program but the one with the bare shared memory
implements `LineTransfer` with the faults of its program, for any number of lines, any capacity and
any number of kills. `RefineInit` and `RefineStep` are the refinement; each medium has its invariant.
*Pipes and FIFOs* (`PipeInv`): what was sent is what has been taken followed by what is in the pipe,
and what is displayed after the end comes when nothing is left. *Queues* (`QueueInv`): messages of two
types share one queue, and a receiver takes the first of its type out of the middle. The invariant says
that there is a numbering `at` of the messages still queued (`Matched`) that grows along each type and
reaches every line not yet taken; `MatchedPost` and `MatchedFetch` show that appending and removing keep
it. The message in a receiver's hand is the last one taken (`held`), and a kill passes over just that one.
*Shared memory with semaphores* (`SemInv`): at most one token exists, counted by a semaphore or held by
sender or receiver (`OneToken`), although both may create the set, the creator fills it in while the other
already waits, and a killed receiver takes its token with it (`OneSet`); the memory holds
the latest line whenever nobody writes (`Memory`); and the receiver is never more than one line behind,
and displays a line again only when the sender is done (`History`). Once the sender has deleted the set
nothing is written any more, and the last part no longer depends on tokens.

`ArrivedInvariant` (`ArrivedInOrder`) says what the promise means for what was displayed: lines that were sent, in order; at most one left out for each kill of a receiver of 17, and none elsewhere; and
behind them, when nothing else is left, only the last line or empty lines again. It rests on `Chained`, that
there is a growing numbering of the lines displayed by the lines sent which at no place is ahead by more than
the kills so far; `ChainSends`, `ChainArrives`, `ChainDies` and `ChainTrails` carry it over each step of
`LineTransfer`. `MailboxTypes` adds what each program leaves alone (`Unused`), the newline in the bare shared memory
(`BareInv`) and what remains after the sender has deleted the set (`LateReceiver`): no token, so that a receiver
that makes a set of its own then can never pass `P` (`LateReceiverIsStuck`; section 4).

**TftpServerProofs.** `DownloadInvariant`, `UploadInvariant` and `TypeCorrect`, for any number of clients, blocks
and block numbers, under the hypothesis `Separable` on the settings: in each of them either nothing is
repeated, by the network or by a client, while packets may still be lost and overtake each other and
numbers wrap; or one client transfers fewer blocks than there are numbers, while packets may be lost,
overtaken and repeated at will. Both settings of the run are of these kinds. Outside of them the
protocol itself takes one block for another: numbers a whole range apart are equal, and the server
accepts data of whoever sends them (section 4). The invariant has a part that holds whatever the
network does (`ServerInv`: the number is that of the block; `DataInv`: a packet carries a block of its
client under that block's number; `StoredInv`: what is stored is a beginning of the file) and a part for
the first situation (`QuietInv`): each client has at most one packet under way, and that packet says
where both sides are (`Says`). In the second situation the number alone identifies the block. The lemmas
`UploadExact` and `DownloadExact` join the two: what is expected is the next block. The arithmetic of the
wrapping number is `ModSucc`.

The attempt to prove the last part of `UploadIsFaithful` showed that it was false for a client that
retransmits its write request: the second one, served after the transfer, truncates the finished file.
The run's setting had not reached it with retransmission and without repetition at the same time. The
property now asks that the client has not timed out (section 4).

**Why some modules are written as they are.** No module with a theorem uses a RECURSIVE operator;
what is counted or accumulated in them is a variable that steps increase, or the size of a set.

**Model-checked only.** Liveness, anywhere, is beyond TLAPS here: `EndedIsClosed`, `EverybodyPrints`, `ServerComesBack`, `EmptyRoomFreesPool`, `AllIsRead`,
`QuitIsHonoured`, `ZombiesAreReaped`, `EndsOnQuit`, `FloodIsStopped`, `ComesToItsEnd`, `CopyEnds`, `NobodyHangs`, and the
liveness of `TaskPool`.

## 6. What is not modelled

* Set-up of listeners (`socket`, `listen`, `setsockopt`; `bind` only as far as it trips over
  lingering connections): one-time, fails or not before anything else happens. Failing
  `read`, `write` and `sendto` of the TFTP server, and thread or process creation that fails.
* The epoll loop of the chat client (client.cpp:49-107): at the end of its standard input
  `getline` fails, `break` leaves the `for` only, and the loop goes round without waiting;
  messages that arrive together are displayed as one. What it sends, and how it leaves, is
  part of `ChatServer`.
* The UDP, broadcast and multicast pairs (`05_Socket/05`, `16`, `17`): the handler of the echo
  servers over datagrams. The server keeps nothing from one to the next; a lost one leaves
  both sides in `recvfrom` for ever, and nothing in the repository says otherwise.
* Peers that do not read: a `send` of the chat server that blocks under `client_mutex`.
* Waiting in a full pool: with four members online the chat server accepts a fifth and queues
  it until one leaves.
* TCP that splits a short message: a text longer than `BUF_SIZE` comes in two pieces in the chat server,
  other messages do not (`Readable`), although a `recv` could return part of any: of such a
  message the fields in the first part would count and the rest would be an invalid one, which is what
  becomes of a long text already.
* The inside of the unlocked erase loops of the chat server: `Erase` has two outcomes, erased or
  crashed, and no state in which the map is half changed.
* Bytes: requests, texts and blocks are values; parsing is modelled by what it distinguishes.
* Demonstrations of one library call (`01_Linux`, `02_IO`, the rest of `03_Process`,
  `04_Pthread` and `05_Socket`), generated code and build directories.
* Dictionary operations without a body (`DataManager`'s user and word functions,
  `server.cpp`).

## 7. Plan

Done: every program with more than one actor, but for the datagram pairs and the loop of the
chat client; every safety invariant that a run checks is proved, and so is the safety part of both
refinements. What is left:

1. The loop of the chat client, and the datagram pairs with loss.
2. The ring without `Orderly` in a run, with a liveness property that names the lost token.
3. Action properties: that a transfer, a task or a turn is not taken back.

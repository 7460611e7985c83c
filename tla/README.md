# A verification of Netdisk_Reactor

Netdisk_Reactor is a network disk: a server and a client, each on a copy of a
muduo-like reactor library (`server/src`, `client/src`). This directory holds TLA+
modules of both programs, the TLC configurations that check them on small
instances, and proofs, checked by TLAPS, of theorems about eight of the modules.

Contents: [the system](#the-system) · [the modules](#the-modules) ·
[the runs](#the-runs) · [findings](#findings) · [the proofs](#the-proofs) ·
[not modelled](#what-is-not-modelled) · [plan](#plan)

## The system

| Component | State | Operations | Interacts with |
|---|---|---|---|
| `EventLoop` | `pendingFunctors_`, `quit_`, `callingPendingFunctors_`, eventfd | `loop`, `runInLoop`, `queueInLoop`, `quit` | every other part runs in a loop; other threads post functors |
| `EPollPoller`, `Channel` | `channels_` by descriptor; a channel's index and events | `poll`, `updateChannel`, `removeChannel`, `handleEvent` | the loop calls it; connections, acceptor and connector register |
| `Buffer` | `buffer_`, `readerIndex_`, `writerIndex_` | append, prepend, retrieve, unwrite, shrink, `readFd` | input and output of a connection |
| `TcpConnection` | `state_`, its channel, two buffers | `send`, `shutdown`, `forceClose`, `connectEstablished`, `connectDestroyed`, handlers of its channel | loop, server or client, message callback |
| `TcpServer`, `Acceptor` | `connections_`, the idle descriptor | accept, `newConnection`, `removeConnection(InLoop)` | base loop, loops of the pool |
| `EventLoopThreadPool`, `EventLoopThread`, `Thread`, `CountDownLatch`, `Condition`, `MutexLock` | `loops_`, `loop_`, `tid_`, `count_`, `holder_` | `start`, `startLoop`, `wait`, `countDown` | started once by `TcpServer::start` |
| `TcpClient`, `Connector` | `state_`, `channel_`, `retryDelayMs_` | connect, retry, `newConnection`, `removeConnection` | the client's only loop |
| `EchoServer` (session on the server) | per connection `statec_`, paths, `so_file`, `file_size`, `gets_channel_`; the user table, the files | `onMessage`, `handleRegister`, `TcpConnection::handleGets` | frames from the client; MySQL; the file system |
| `EchoClient` (session on the client) | `statec_`, `so_file`, `file_size`, `cur_size` | `handleKeyboardInput`, `onMessage` | the user; frames from the server |

What is hard:

* **Threads that talk by functors.** Every operation that changes a loop's state runs in
  its thread; from elsewhere it is posted, and a posted functor must wake the loop up,
  keep its connection alive, and find the world as it left it. Removing a connection
  takes three hops over two loops while descriptors are closed and reused.
* **Bytes.** Writes take any part of a frame, reads cut frames anywhere, output may have
  to wait, and a half-close must wait for it.
* **Two state machines without message types.** What a frame means depends on the state
  of the receiver (`StateC`); if the ends ever disagree, data are taken for commands.
* **Handlers that start something over.** `Connector::retry` connects again inside the
  handler of the failed attempt; `gets` adds a channel with a life of its own.
* **Paths.** A parameter is appended to the working directory's path as it was typed, `..`
  included, and the path is resolved anew for each command, on a tree that other sessions change.
* **Failure.** Peers vanish at any time, descriptors run out, connects are refused,
  `pthread_create` fails, files cannot be read; many calls' results are not looked at.

What makes each component correct: a loop never sleeps on work and runs it in order; a
buffer is a queue of bytes; frames arrive whole, and the end of the stream last; a user
hears UP once and DOWN once, no poller points to what is gone, and every connection is
freed; the pool's loops exist when the server listens; no socket leaks in the client;
the two ends of a session agree on each frame, commands are answered, files arrive whole, and
the directory a session works in stays where it is.

`PROJECT.json` lists the hazards, each at its line, with the properties about it.

## The modules

| Module | Models | Relation |
|---|---|---|
| `TaskQueue` | a FIFO queue of functors | abstract |
| `EventLoop` | `EventLoop.cc` with foreign threads | implements `TaskQueue` |
| `ByteQueue` | a queue of bytes open at both ends | abstract |
| `Buffer` | `Buffer.h`, `Buffer.cc` | implements `ByteQueue` |
| `FrameStream` | one direction of a connection, from `send` to the message callback | a buffer is its readable bytes, as `Buffer` justifies |
| `Poller` | `EPollPoller`, `Channel` and the owners of the channels of one loop | the flags of one `epoll_wait` one by one, which `TcpServer` handles as a whole |
| `ConnectionLife` | what users may observe of a connection | abstract |
| `TcpServer` | server, acceptor and connections over several loops | implements `ConnectionLife`; loops as `EventLoop` shows them |
| `Startup` | the start of the thread pool, lock by lock | |
| `TcpClient` | connectors and connections of the client process | |
| `NetDisk` | what users are promised about files | abstract |
| `NetdiskState`, `NetdiskClient`, `NetdiskServer` | the state of a session, its two ends | composed by `NetdiskSession` |
| `NetdiskSession` | clients and sessions together, and their properties | implements `NetDisk` |
| `MC...` | values for the constants TLC needs as operators | |
| `EventLoopProofs`, `BufferProofs`, `FrameStreamProofs`, `PollerProofs`, `StartupProofs`, `TcpServerProofs`, `TcpClientProofs`, `NetdiskSessionProofs` | theorems and proofs | extend the module they are about |

Actions have the names of the functions they model. The map in `PROJECT.json` gives the
lines of each definition. A definition introduced by "Fault:" is a plausible bug, a
mutated form of a definition that follows it; no specification uses it, and each
property of a passing run has one that violates it.

**`EventLoop`.** The loop's thread goes `created`, `check`, `poll`, `dispatch`, `functors`
as `loop()` does. A call from another thread takes two steps, because `queueInLoop`
releases the mutex before it writes the eventfd (`EventLoop.cc:124-134`) and `quit` writes
it after `quit_`. Callbacks of the loop's own thread may post in any phase in which code
runs. `early` remembers what the loop's thread queued before `loop()`: no eventfd is
written for that, and the properties say so.

**`Buffer`.** A record of the cells of `buffer_` and the two indices. What is written into
the vector depends on `makeSpace`, which either resizes or moves. `readFd` reads as much
as `readv` may with the second buffer, which counts only if the first is smaller than it.

**`FrameStream`.** A byte knows its frame and its place there, so that a byte out of place
is seen. `send` writes directly only if no output waits; `Takes` is what the kernel takes,
any part up to its room. One read brings any number of bytes. `handleRead` handles one
complete frame per step, and its loop must run to the end. When the receiver goes, writes
fail with EPIPE and output stays where it is; that the channel's other direction closes
the connection then is `TcpServer`'s subject.

**`Poller`.** `poller` holds the `Channel` objects, `channels_` by descriptor, and the kernel's
interest list, which the code never sees: `EpollCtl` changes it as `epoll_ctl` does, failures
included, and closing a descriptor clears it. The functions of `EPollPoller` and `Channel` are
functions of this record; an assertion that fails sets `failed` to the function it is in. The
flags of `revents_` are handled one per step (`Turn`), by what `epoll_wait` reported, so that a
callback may find its channel changed by an earlier one. The owners do with their channels
what their code does: the eventfd, the acceptor, connections, the client's `Connector`, whose
descriptor goes on to a connection. `role` chooses the loop: base, pool or client.
Descriptors are the lowest free ones; an object gets an address that is free, which of
them is the allocator's affair. The two programs have copies of these files that differ in
what they print; the map names those of the client.

**`TcpServer`.** `Init` chooses the pool, and the limit of descriptors up to the constant `MaxFd`. Each loop polls,
handles what was ready in any order, swaps its queue and runs the batch; `runInLoop` calls
at once on the own loop and posts otherwise. A connection is freed when neither
`connections_` nor a functor, waiting or in a batch that has not been dropped, holds it
(`HeldElsewhere`, `FunctorsDone`). The assertions of `Channel`, `EPollPoller`,
`TcpConnection` and `TcpServer` are steps to `failed`. Descriptors are the lowest free ones,
so that they are reused at once. The message callback may do what `TcpConnection` offers:
nothing, send, shut down, force the close, for several frames of one read.

Without descriptors `Acceptor::handleRead` turns a peer away by four calls, `CloseIdle`,
`IdleAccept`, `IdleClose` and `IdleOpen`; `refusing` is the one it comes to next. The base loop's
thread does nothing else in between, but those of the pool do, and their sessions open and close
files, eventfds and databases (`SessionOpens`, `SessionCloses`; `other`): if one of them takes the
descriptor that was given up, `accept` or `open` fails and `idleFd` stays 0.

**`Startup`.** One step per lock, wait, notification and unlock. `pthread_cond_wait` may
return for no reason, up to a bound.

**`TcpClient`.** A connect is immediate failure, refusal with retry, or in progress;
`attempt` says in whose `startInLoop` the thread is, since `retry` sleeps and calls it
within the handler. Such calls nest, and each doubles the delay only when the attempt inside it
has returned: `retries` counts them, and `Returned` doubles as often. A connection has two
channels, socket and keyboard.

**`NetdiskSession`.** A frame carries the kind its sender meant, but which action handles
it is decided by the receiver's state, as in the code. Files are inodes, because `remove`
unlinks a name while a session may have the file open. `string(buf)` is modelled by what it
does: it ends at the first NUL. `readFd` takes any number of arrived frames, handled one by
one before the next channel. Each connection has a loop of its own. A session's two
channels, the socket and the eventfd of `gets`, may be reported in the orders `PollOrders`
allows. A handler of the server is cut between the system calls that look at the files and
those that change them: `call` names the one it comes to next, and another session may run
before it. A statement to MySQL is one step, and may fail.

A parameter (`Params`) goes up some directories and then down by names, and `TargetOf` is where
it leads from the working directory. The server appends it to `relativePath_` unchanged, so `cwd`
is the sequence of all directories that path passes, those it leaves again included. `Stands` says
that all of them are there, without which the system finds nothing below; `Found` says the same
with the parameter appended; `cd ..` takes the last one off, wherever that leads. An empty
parameter occurs with `cd` only, as the client sends no other (`client/src/TcpConnection.cc:487-555`).

What the code does not check may fail in the model, and the handler goes on: the `mkdir` of
a registration, `opendir` and `stat` in `ls`, `open` in `puts`, `stat`, `open` and `eventfd` in `gets`,
`open` at the client in either direction. A file that the client cannot read, or a directory, passes
`access(F_OK)`; `read` returns -1 and the client is `Endless`ly in the loop that waits for 0, sending
an empty frame each time. A session whose file cannot be read sends empty frames as well and counts
its size up.

`NetDisk` says what is left of the promise under that. Any client that is logged in may work on any
path: the server keeps nobody to the own directory. A user may put a file where nothing
is (`Begin`); whoever began and has not arrived may be overtaken, and `by` holds all who were
let put on one name; the file that arrives (`Put`) is one client's when one was let put, and
bytes of each otherwise; only such a name may be written over (`Reopen`).

## The runs

Deadlock is checked in the runs of `TcpServer`, `Poller` and `Buffer`. In the others the system may
stop: users stop typing, tasks are used up, the loop has quit, the client process died.

| Run | Instance | Shows |
|---|---|---|
| `EventLoopThreads` | 2 threads, 3 functors | types; no lost wakeup; functors run; `quit` stops the loop; refinement of `TaskQueue`, hence order |
| `BufferBytes` | prepend room 1, initial size 2, extra buffer 2, content up to 3, pieces up to 2, bytes 0 and 1 | refinement of `ByteQueue`, each operation by itself, growth only for need |
| `StreamFrames` | header of 2, payloads 0, 1, 3, three frames, kernel room 3 | whole frames in order, end last, watches for output exactly while there is some; every frame and a half-close arrive |
| `ServerLoops` | base loop and no thread or 1, 2 connections, 1 to 3 descriptors of which the acceptor has one; with 2, sessions may hold one; 2 frames to a read | assertions hold, no dangling channel, refinement of `ConnectionLife`, with posts and with calls in their place; peers that closed are freed; the backlog is served when accept fails with EMFILE, unless a session has taken the idle descriptor |
| `PollerChannels` | base loop, loop of the pool and client; 4 channel objects, 3 descriptors, `events_` of 2 at first | assertions hold, epoll watches what the channels want, what stays ready has its turn though the list is too short |
| `PoolStart` | 3 threads, 2 spurious wakeups | the pool gets its loops, through latch and condition |
| `ClientSockets` | 2 clients, 3 descriptors, the code's seven delays | sockets accounted for, no dangling channel |
| `SessionFiles` | 1 client, 2 names, all commands with the parameters `f`, `g`, `../g`; files of two reads, the last one short; descriptors may run out | both ends in step, files whole (refinement of `NetDisk`), commands answered, transfers end, but for files that cannot be read |
| `SessionTree` | 1 client, 1 name, 2 levels, all commands with the parameters `f`, `f/f`, `..`, `../f`, `../..`, `../u1`, from registration on | the directories of a working directory's path stay, the server dies only of their loss |
| `SessionShared` | 2 clients that register and log in as one user, one name and no `..`; puts, remove, mkdir, between each other's system calls | refinement of `NetDisk`: a file is its client's, mixed or written over only where two were let put |
| `GetsBinaryFile`, `ClientRefused` | | see [findings](#findings) |

**Why these bounds.** The order of posts needs two posters, and a third functor for one to
be in the batch, one behind it and one on its way. A header of two bytes can be cut, a
payload of 0 is a frame of only a header, 3 exceeds what the kernel takes at once. A
descriptor's reuse needs two connections and one free descriptor; EMFILE needs more peers
than descriptors. With three descriptors both peers have one, with two the second waits or finds
that a session (`MaxOther`) was faster, with one each is turned away. `MaxFrames` 2 lets one read call `forceClose` twice. In `Poller` two
channel objects and one descriptor beside those the loop starts with give a connector and
its connection on one descriptor, a connection of each role, and a descriptor and an address
that are used again; three descriptors fill a list of two. A content of three bytes and
pieces of two make the buffer move, grow, and spill over, with room for a header before it.
Files of three bytes with two to a read have a full read and a short one. `NumInodes` is
enough for every path and every open file. The parameters of `SessionTree` are those that make a
difference with one name: below, beside and above the working directory, out of the user's
directory and back into it, `..` alone (which `cd` treats by itself) and `../..` (which it does
not). A path goes up first and then down; `f/..` and double slashes are not typed, and a user
types no parameter that leads out of `WORK_DIR` or below the depth `MaxDepth` (`Fits`), where
there would be files nobody else has. The path of a working directory passes at most `MaxWay`
directories, in `SessionTree` four, as after `cd f/f` and `cd ../f`. A size that failing reads count up is counted to
`MaxSize`, and empty frames, of which either end may send any number, wait until the other has
taken the last (`Flooded`, `ClientEndless`). The constants of the code (header 4, prepend 8,
1024, 65536, 8191 bytes) are scaled down in the same order of sizes.

**Fairness.** Weak fairness of each thread that the program has: the loop's thread goes on
(`LoopStep`), a caller that pushed a functor writes the eventfd, a pool thread runs. In
`Poller` that is `Loop`: it polls, handles each flag and runs its functors, and whether any
of them destroys or creates a channel is left open. The poll timeout is never relied on, nor
spurious wakeups, nor that users type, peers close, or sockets become ready for no reason.
`TcpServer` has one strong condition: `HandleReadEnd`, since data that a peer sent before it
closed run out. In `NetdiskSession` the network delivers and both processes handle what
arrived. In `FrameStream` epoll reports room and data until they are used (it is
level-triggered).

**Assumptions that narrow a passing run.** The files of the passing sessions hold no NUL, those
of the clients are not empty, and epoll reports `gets_channel_` first (`PollOrders`); without these
the findings below appear. `SessionTree` has descriptors enough, since `ls` dies of a failing
`opendir` otherwise. Some properties name cases in which the code does not do what one would ask,
and hold in all others; each of these cases is in the findings:

* `CommandsAnswered` and `TransfersEnd` except a client in the endless loop of `puts` and a `gets`
  for which the server could not open the file or make the eventfd (`Unserved`);
* `ServerSurvives` excepts a session whose working directory is not there any more;
* `WorkingDirStays` excepts a `remove` by another session, one that names the working directory
  through its parents, and paths with `..` in them;
* `BacklogServed` excepts an acceptor whose idle descriptor a session has taken (`IdleTaken`).

`ClientSockets`' `NoDanglingChannel` speaks of a process that has not
died of one of the assertions of the findings. `PoolStarts` excludes a failed
`pthread_create`, after which the server waits for ever. In `Poller` a client's
next attempt begins when the channel of the last one has been reset, the other order being
`ClientRefused`; the keyboard's channel and `gets_channel_` are not among its owners, for what
goes wrong with them is in the findings, and nobody calls `forceClose`.
`SessionShared` leaves out `gets` and `ls`, whose races with the other session are findings too, and
`cd`, so that nothing is claimed of files that several clients reach by paths of their own.
Names of users and of files are different ones, and directly in `WORK_DIR` there is nothing but
the users' directories: `puts ../f` from one of them is not typed.

## Findings

Two disagreements between the code and what it says of itself have a run that shows them:

| Run | What the code does | What the source says |
|---|---|---|
| `GetsBinaryFile` | `gets` of a file with a NUL byte: `send(string(buf))` (`server/src/TcpConnection.cc:381`) sends less than `file_size` counts; the client waits for ever | `readme.md:54`, downloads the file |
| `ClientRefused` | a retry starts within `handleError`, before the queued `resetChannel` has run | `client/src/Connector.cc:128`, `assert(!channel_)` |

More are within the models. Each appears when a configuration or a property is changed as named
here:

| Change | What the code does | What the source says |
|---|---|---|
| `SessionTree` with `ServerSurvives` as `~aborted` | `mkdir d`, `cd d`, `remove ../d`, `ls`: one session removes its own working directory, and `ls` passes the null pointer of `opendir` to `readdir` (`server/src/dirOp.cc:42-46`); the server dies | `readme.md:52`, lists the files of the current directory |
| `SessionShared` with `Commands = {"ls"}`, the same property | a client may log in between the insert of a new user and the `mkdir` of the directory (`EchoServer_unittest.cc:217-220`), or after that `mkdir` failed unnoticed; the first `ls` then finds none, and the server dies | `readme.md:52` |
| `SessionShared` with `Commands = {"ls", "mkdir", "remove"}`, `Users0 = {u1}`: `ServerSurvives` | a name that another session removes between `readdir` and `stat` has no status; `ctime` is given what is on the stack and may return NULL (`dirOp.cc:49-53`) | `readme.md:52` |
| `SessionTree` with `FdsRunOut = TRUE`: `ServerSurvives` | `ls` without a free descriptor | `readme.md:52` |
| none: no property denies it (`NetDisk`) | `remove ../u2/f`, `gets ../u2/f`: a parameter is appended to the user's path unchecked (`EchoServer_unittest.cc:119-169`) and reaches the files of others | `readme.md:42`, a user sees only their own files |
| `SessionFiles` with `CommandsAnswered` or `TransfersEnd` without `"Endless"` | `puts` of a directory or of a file that cannot be read: `read` returns -1, and the client's loop until 0 never ends (`EchoClient_unittest.cc:147-159`) | `readme.md:53`, uploads the local file |
| the same without `Unserved` | `gets` without a descriptor for the file or the eventfd: empty frames for ever, or none (`EchoServer_unittest.cc:169-170`) | `readme.md:54`, downloads the server's file |
| `SessionFiles` with an empty local file: `TransfersEnd`, `InStep` | `puts` of an empty file sends no data frame; the server stays in `StateC_Puts` and writes the next command into the file | `readme.md:53` |
| `SessionTree` with `"tcpFirst"` in `PollOrders`: `ServerSurvives` | the client's acknowledgement is handled before the event that unregisters `gets_channel_`, which it destroys | `server/src/Channel.cc:26`, `assert(!addedToLoop_)` |
| `SessionFiles` with `ConnectionsReleased` | the callback of `gets_channel_` holds its own connection; if the client goes during `gets`, the connection is never destructed | `server/src/TcpConnection.cc:354`, the destructor closes the descriptor |
| `SessionShared` with `Commands = {"puts", "gets"}` and a file at `c1` only: `DiskSpec` | `gets` of a file that another session is putting sends the part that is there as the whole file | `readme.md:54` |
| the same with `FairSpec` and `Users0 = {u1}`: `CommandsAnswered` | if nothing is there yet, its size is 0, no data follow, and the client waits for ever | `readme.md:54` |
| the same with `Spec` and `"remove"` besides: `InStep` | a file that another session removes between `fileExist` and `stat` leaves `statbuf` uninitialized (`EchoServer_unittest.cc:162-165`); its size may be announced as negative, upon which the client goes back to its user while the server begins to send | `readme.md:54` |
| `ServerLoops` with `BacklogServed` without `IdleTaken` | a session on a thread of the pool opens a file between two of the four calls and gets the idle descriptor; `accept` fails, nothing brings `idleFd_` back, and the next EMFILE finds no descriptor to give up | `server/src/Acceptor.cc:65-67`, libev's remedy for accept without descriptors |
| `ClientSockets` with `ChannelsUnregistered` | when the server closes, `connectDestroyed` leaves the keyboard channel registered | `client/src/Channel.cc:26`, `assert(!addedToLoop_)` |
| `ClientSockets` with `OneChannelPerDescriptor` | a second connection registers descriptor 0 again | `client/src/EPollPoller.cc:109`, `assert(channels_.find(fd) == channels_.end())` |

The order `tcpFirst` needs the socket in front of the eventfd in epoll's list: when the
socket became ready first (for instance because output had to wait for room), or when
more channels are ready than the list has room for and epoll rotates.

Met on the way: the comment at `server/src/TcpConnection.h:94` has 0 for login and 1 for
registration; `EchoServer_unittest.cc:64-65` and the client's prompt have it the other way
round. `TcpServer::start` tests `started_ = 1`; it is called once.

## The proofs

All for arbitrary constants, under the named assumptions of the modules
(`StreamAssumption`, `BufferAssumption`, `StartupAssumption`, `ServerAssumption`,
`ClientAssumption`, `NetdiskAssumption`, and `FixedAssumption` and `InitSizeAssumption` of
`Poller`; `EventLoop` needs none), which TLC evaluates in the runs. Every invariant that a run
checks is proved, and the action property `WorkingDirStays`; the theorems about `NetdiskSession` have
hypotheses besides, stated with each of them. Each inductive invariant was checked by TLC on the instances of the runs, and on
some beside them, before it was proved.

**`EventLoopProofs`.** `TypeCorrect`, `Fifo`, `NeverSleepsOnWork`, `ImplementsTaskQueue`.
`NoLostWakeup` speaks of the loop in `epoll_wait` only and is not inductive: what counts is
how the loop got there. `WakeInv` strengthens it to every phase from which the loop can reach
`epoll_wait` without first taking the queue: there, a waiting functor has an eventfd write
behind it, done or about to be. In `check`, `quit_` is left out, since the test itself is
still to come. In `dispatch`, nothing need be owed, for `doPendingFunctors` follows; in
`functors`, the flag `callingPendingFunctors_` is what makes the claim true. `FifoOrder` is
inductive given the types; no run lists it, since `QueueSpec` says it to an observer. The
refinement has each step of the loop be a step of the queue or none, and uses `Fifo` and that
a task is fresh when it is posted.

**`BufferProofs`.** `TypeCorrect`, `HeaderRoom`, `OperationsRight`, `ImplementsByteQueue`,
`NoNeedlessGrowth` (`GrowsWhenFull`). `TypeOK` is inductive by itself. `HeaderRoom`, that
every operation leaves room for a frame's header in front, is proved only; no run lists it.
The lemmas follow the code's own structure: growing and moving keep the contents and make
room (`GrowRight`, `MoveRight`), hence `EnsureRight`; writing behind the contents appends
(`WrittenRight`); each operation is one lemma on top.

**`FrameStreamProofs`.** `TypeCorrect`, `WatchesForOutput`, `FramesArriveWhole`,
`EndComesLast`. The inductive invariant is `IInv == TypeOK /\ WritingWithOutput /\ WholeFrames
/\ StreamInv`. `StreamInv` says that, while the receiver is there, its buffer, the
kernel's and the sender's, one after the other, hold whole frames: the run of bytes starts at
the first byte of the first frame that was not delivered, each byte is followed by the rest
of its frame and that by the next frame, and the last is the last that was sent. It also says
when the write side may be shut down and when `handleRead` may stop. Appending a frame and
cutting one off the front keep this (`SendAligned`, `CutAligned`); moving bytes between the
three places does not touch it. `EndComesLast` follows: at the end of the stream the kernel
and the sender hold nothing, the receiver's buffer has no complete frame, and a run of whole
frames without a complete frame is empty.

**`PollerProofs`.** `TypeCorrect`, `AssertionsHold` (`NoAssertionFails`),
`EpollWatchesWhatIsWanted` (`EpollAgrees`). Each of them needs the inductive invariant `IInv
== TypeOK /\ Fine(poller) /\ SocketInv /\ ActiveInv`, because the code decides by `index_`
alone what it tells epoll, asserts what the owners must have kept, and handles flags that
may be older than the state of their channel. `Sound`, the first half of `Fine`, ties the
five pieces together: per channel, what `index_` says of `channels_`, `events_` and
`addedToLoop_`; per descriptor, what epoll watches. `UseOK`, the other half, is what each
kind of owner keeps of its channel, for instance that a connector's is in `channels_` until
it is removed. `SocketInv` has closed descriptors free of channels. `ActiveInv` is about the
flags still to be handled: each is of an object that is still there, no channel is twice in
the list, and a connection that a flag will close has not been closed yet. The lemmas go the
way of the code: one per operation of the poller (`update`'s three cases, `remove`,
destruction, closing of a descriptor), for `Sound` and for `Fine`; what a `Turn` leaves of
`ActiveInv`; then one per action.

**`StartupProofs`.** `TypeCorrect`, `TidIsSet` (`TidKnown`), `PoolHasLoops` (`LoopsExist`), for any
number of threads and wakeups. None of them is inductive: that `tid_` is set when
the base thread asserts it follows from the latch, and the latch from how far the other thread
is. `ThreadOK` says this per thread of the pool (`count`, `tid` and `published` by its place), and
`BaseOK` that the threads behind the current one have not been created, so that a latch
begins at 1 and a loop is kept once. With both, `IInv` is inductive action by action; a
spurious wakeup only takes the base thread back to a lock.

**`TcpServerProofs`.** `TypeCorrect`, `AssertionsHold` (`NoAssertionFails`), `ChannelsLive`
(`NoDanglingChannel`), `ImplementsConnectionLife` (`LifeSpec`). `NoDanglingChannel` and the
assertions depend on each other: a channel dangles if its connection is freed while it is
registered, and it is freed when no functor holds it, so what matters is which functors are
under way. `IInv` therefore says, besides the types and the two invariants themselves:

* `ConnOK`, what `state_` says of a connection's channel, of `connections_`, and of what its
  user heard. A connection that is `kDisconnected` and has left `connections_` still owes
  `connectDestroyed` as long as its channel is registered: a functor for it waits in a queue
  or in a batch (`Owes`), hence `FunctorsDone` frees only connections whose channel is gone.
* `WaitingOK`, what a functor that waits says of its connection: `connectEstablished` has one
  that is `kConnecting`, `removeConnectionInLoop` one that is still in `connections_`,
  `connectDestroyed` one that is not. Each of the three waits at most once (`Once`).
* `HeldOK`, a functor that waits, or has run in a batch that has not been dropped, keeps its
  connection alive; `FdsDiffer`, two of them have different descriptors; `ActiveOK`,
  `PollerOK` and `LoopOK`, what the loops have still to handle is of what is registered.

The refinement maps a connection to what its user heard. Each step of a loop is at most one
step in the life of one connection, except that dropping a batch of functors may end several
lives at once.

**`TcpClientProofs`.** `TypeCorrect`, `NoSocketLeaks` (`SocketsAccounted`), `ChannelsLive`
(`NoDanglingChannel`). The clients of the process connect one after the other: those before
`current` are up, those behind it have not begun (`InTurn`). With it `SocketsAccounted` is
inductive, in a process that died of an assertion as well. The dangling channels need more,
and only while no assertion has failed, since `ClientRefused` shows that one may: a waiting
`resetChannel` finds no channel of its connector registered, a waiting `connectDestroyed`
finds a connection that has closed (`FunctorsOK`); `PollerOK` and `Heard` say whose channel
and what event a descriptor may have.

**`NetdiskSessionProofs`.** `TypeCorrect`, `StaysInStep` (`InStep`), `WorkingDirsStay`
(`WorkingDirStays`), `Survives` (`ServerSurvives`), for any users, names and parameters, any
bounds and any size of a read, whichever unchecked calls fail.

`InStep` speaks of the next frame, but a frame is right only if all those before it were. The
inductive invariant `IInv` says of each session what everything on its way will do (`Talk`):
what the server has not begun, in `inputBuffer_` or in the network, is what its state expects,
to the last frame (`Script`), and for each state of the client one of a few pictures holds of
the frames under way and the session's state (`Agree`). A transfer has a length of its own:
`Upload` and `Download` have a function that says after each frame how many bytes are
missing, never 0 before the last, so that both ends leave the transfer at the same frame
wherever the reads were cut. Only a client that died is owed no agreement, but its frames stay a
script. `CallOK`, `SessionOK` and `Gone` say what a handler in the midst of a frame,
the channel of `gets` and a connection that went down may be; `Files` that offsets are within
files and that what `gets` is about to send is still there, with everything its path passes
(`Reached`). The types of `Typed` are finer
than `TypeOK`: every frame is one that the other end can send.

A parameter is typed at a directory from which it leads to a path (`Fits`), but it is the server's
session that resolves it, later. `Leading` says that it still leads there (`Leads`): the frames behind a
command are data of a transfer, so no `cd` comes between, and where a `cd` leads is a path of the tree.

Its hypotheses are necessary, each with a run or a finding below that violates the theorem
without it:

* `SoundFiles`: no file holds a NUL (`GetsBinaryFile`), and none at a client is empty (findings).
* `Undisturbed`: with `gets` there is one client, or nobody uses `remove`. A file
  that goes between `fileExist` and `stat` leaves the size to chance (findings).

`WorkingDirsStay` has the same two, for it needs `IInv`. What it adds is `TrailInv`: the path of a
working directory goes from each directory to its parent or to one right below it (`Chained`),
which `cd` keeps because it appends what the parameter passes (`CdTrail`) and `cd ..` because it takes off
the last. Hence in a path that goes straight down (`Straight`) every directory but the last has the
next in it, and `remove(3)`, which wants a directory empty, can take the last one only
(`StraightDown`). A session that removes that one itself names it by a parameter without `..` only if it is
below itself, which it is not. Every other action leaves `dirs` alone or adds to it, and of a
session's path only its own `cd` and login make another; `cd` has found all directories it passes.

`Survives` is about one server with all its sessions until it dies, if it does: the invariant is
`LiveInv \/ Lost`. `Lost` is the death that the property excepts, after which nothing moves the server
any more. `LiveInv` has, besides `IInv`, what keeps every other death away. `Listed`: a name that `ls` has found is there
when it looks at it, as long as the directory is, since nobody else removes; this is where
`OwnRemoves` is needed, that there is one client or that nobody removes anything. `InTurn`, about the
order of a connection's two channels: while `gets_channel_` is registered the session has taken no frame,
and once the client's acknowledgement is on its way the file has been sent, so that the channel's next
turn, which comes before the socket's, unregisters it. That order is a hypothesis (`PollOrders`), and so
are descriptors that do not run out, since `opendir` and `eventfd` would fail; each of the three has a
finding.

**Only model-checked.** All liveness (`FunctorsRun`, `QuitStops`, `EveryFrameArrives`,
`ShutdownArrives`, `ReadyHandled`, `ClosedPeersFreed`, `BacklogServed`, `PoolStarts`,
`CommandsAnswered`, `TransfersEnd`): fairness and ENABLED are beyond the prover. That
`NetdiskSession` implements `NetDisk` (`DiskSpec`), so far. What `CString` and `Chunks` do to every
file is induction over data: the proofs use that a file without NUL passes whole, and for the
chunks of an upload the function that counts what is missing.

## What is not modelled

* Teardown: `~TcpServer`, `~EventLoopThread`, `~EventLoop`, `Thread::join`, `~TcpClient`.
  Both mains stay in their loop; the races the comments there admit are the next plan's.
* `startRead`, `stopRead`, `setTcpNoDelay`, `disconnect`, `Connector::stop` and `restart`,
  `getLoopForHash`, `waitForSeconds`, the write-complete and high-water callbacks: no caller.
* `Buffer::swap` (but for its use in `shrink`), `findCRLF`, `findEOL`.
* The passwords' hashing (`Encrypt.cc`): right or wrong. How MySQL's library fails, only that it may.
* Formatting: `ls` lines, prompts, `MyPrint.cc`; addresses, options of sockets, time stamps.

## Plan

Done, in this order: `EventLoop` (everything runs in it), the netdisk session (what the
program is for), `TcpServer`, `TcpClient`, `FrameStream`, `Buffer`, `Startup`, `Poller`; the
sessions of several clients, cut at their system calls; proofs of every invariant that a run
checks, and of the refinements of `TaskQueue`, `ByteQueue` and `ConnectionLife`.

Next, most important first:

1. `DiskSpec`: that the session implements `NetDisk`, for one client, and for several that do not use `cd`. `IInv` has what both ends have still to
   do; what is missing is what they have done: the bytes of a file in transfer are the prefix
   of the client's file that the frames under way continue, and an inode is written by
   those who were let put there (`writers`).
2. Teardown, should the mains ever leave their loops: `~TcpServer` with connections alive,
   `~EventLoopThread` against `threadFunc`.

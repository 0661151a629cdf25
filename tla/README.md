# Verification of the network file system

The repository is a small distributed file system in C: a **naming server**
(`src/init_naming_server.c`) that clients talk to, **storage servers**
(`src/init_storage_server.c`) that keep the files, and a command-line **client**
(`src/init_client.c`). This directory holds TLA+ models of their logic, TLC
configurations that check them on small instances, and TLAPS proofs of what
matters most for all instances.

An earlier version of the three programs is in `src/course-project-team_46-main`
(EN, ES, EC). Line numbers below are of these files. `PROJECT.json` maps
every definition to its lines and lists runs, mutants, hazards and theorems.

## 1. The system

| part | state | operations | hard because |
|---|---|---|---|
| file access locks (NS 35-42, 65-132, 783-822) | table of `FileAccess` entries (path, reader and writer counts, mutex, two conditions), never shrinks | find or add an entry, acquire/release for reading or writing | threads interleave at every critical section; condition variables; the table fills |
| resolution cache (NS 50-63, 142-273) | doubly linked LRU list, size, one bucket per hash value | add, look up | pointer surgery; buckets shared by paths; eviction |
| path trie (NS 44-48, 134-193) | a node per prefix of a registered path, with a server at its end | add a path, find the server for a path | nested and repeated paths, boundary of the walk |
| server table, registration (NS 468-753, 956-1040; SS 621-654) | slots of `StorageServer` structs, active flags, a counter; the listener's stack variable; a thread per registration | accept, receive a struct in pieces, take a slot, give up slots | shared stack variable, short reads, errors in the middle, counter read without lock |
| path resolution (NS 341-359, 394-466, 755-830) | what each handler has found so far | one or two lookups per command through cache and trie, forward | three separate critical sections; stale cache |
| client session (CL 25-143, NS 755-830) | two byte streams, the client's and the handler's place in the protocol | send a command, wait, time out, answer | no message boundaries, acknowledgment sent once, late answers |
| storage server (SS 166-242, 403-512, 577-725) | the disk, `files[]`, two listening sockets, a thread for commands | start, execute a command, end | start order, ports, one accept, list against disk |
| earlier version (EN 389-628, ES 84-224, 511-551 and 701-790, EC 25-98) | as above, and the two threads of a storage server | everything comes to one port of the naming server | connections of three kinds are taken for registrations |
| copies (SS 245-400, 513-575) | the copied tree; a connection and a thread per file and directory | send, receive, create | nothing orders the connections; recv joins sends; `exit` on error |

How they interact: a storage server connects to the naming server, sends its
struct, and listens on two ports. A client sends command lines over one
connection; the handler thread of that connection takes the lock the command
word asks for, resolves the path(s), opens a connection to the storage server
found, sends the command and closes it, releases the lock, and sends `FINAL_ACK`
whatever came of it. For a copy, the storage server of the source connects to the
one of the destination.

What makes each part correct:

* locks: exclusion per path, exact counts, no sleeper forgotten;
* cache: no pointer to freed memory, list and size agree, LRU order;
* trie: the answer is the registered ancestor it should be, whatever the order;
* table: whole structs, each connection at most once, exact counter, trie in agreement;
* resolution: a command goes to an active server that listed an ancestor of the path;
* session: a command is answered by its own answer, the client does not hang;
* storage server: the list says what is on the disk, commands and transfers do
  not race;
* copies: a file that is closed is whole, nothing is lost silently.

Where the code falls short of one of these, the models say precisely how far it
holds, and section 4 quotes the disagreements with the code's own comments.

## 2. Modules

| module | models | composed from |
|---|---|---|
| `FileAccess` | the locks and the handler threads that take them; a critical section is a step, a wait parks the thread, a signal wakes one waiter | |
| `FileAccessProofs` | its safety invariants for all instances | `FileAccess` |
| `LRUOrder` | abstract specification: a list of entries, most recent first | |
| `LRUCache` | the cache node by node: `prev`, `next`, `head`, `tail`, `hashmap`, allocated nodes | refines `LRUOrder` |
| `LRUCacheProofs` | pointer safety, the order of the list, the refinement, for all instances | `LRUCache` |
| `PathHash` | `hashFunction` | |
| `Trie` | `addPathToTrie`, `findInTrie` as operators; a trie is a function from prefixes to servers | |
| `TrieSpec` | sequences of additions, compared with a definition that knows no trie | `Trie` |
| `TrieProofs` | what the folds of `Trie` compute, for paths of any length | `TrieSpec` |
| `EarlierVersion` | the earlier programs: main and the thread for commands of each storage server, clients | `Registration` |
| `ServerTable` | slots, active flags, counter, trie: the critical sections of registration and monitor | `Trie` |
| `Registration` | `main`, the listener, registration threads, peers that are storage servers and peers that are not | `ServerTable` |
| `RegistrationProofs` | the counter, the structs and the trie over them for all instances; the structs of the earlier version | `Registration`; `EarlierVersion` (INSTANCE) |
| `NamingServer` | handlers that resolve paths, while servers register | `ServerTable`, `LRUCache` (INSTANCE) |
| `NamingServerProofs` | answers and the cache for all instances | `NamingServer`; `LRUCacheProofs`, `TrieProofs` (INSTANCE) |
| `ClientSession` | the client and the recv and send calls of its handler | |
| `OneShotServer` | abstract specification: serves the first message that arrives while it listens | |
| `System` | a command's way from the client's keyboard to its execution | `ClientSession`, `OneShotServer` (INSTANCE) |
| `SystemProofs` | types, one answer and whose it is, lost commands and a blocked client, for sessions of any length | `System` |
| `StorageServer` | start, ports, thread for commands, list and disk | refines `OneShotServer` |
| `StorageServerProofs` | one command, list and disk, no race with transfers, the refinement, for all instances | `StorageServer` |
| `Transfer` | a directory copied between two storage servers | |
| `TransferProofs` | what a copy leaves behind, for any tree | `Transfer` |
| `MC*` | finite constants and symmetry for TLC | the module of the same name |

Conventions. Variables and operators have the names of the source where it has
one. A definition whose name extends that of the definition after it
(`MustWaitWriteIgnoringReaders`, `BelowShallow`) is the same code with a plausible
bug; no action uses it. `PROJECT.json` pairs each property with one, so that it is
known that the property can fail.

### How state and actions correspond to the code

* **FileAccess.** `filepath`, `readers`, `writers`, `num_files` are the fields of
  `file_accesses`; `pc`, `req`, `fa` are the place, the command and the pointer of
  each handler. `GetExisting`, `GetNew`, `GetNull` are the three ways out of
  `get_file_access`; `AcquireRead`/`WaitRead` and `AcquireWrite`/`WaitWrite` the
  two outcomes of the while condition; `ReleaseRead`/`ReleaseWrite` include their
  signals. Spurious wakeups are steps.
* **LRUCache.** Each conditional assignment to a pointer in `addToCache` and
  `getFromCache` is a named operator on the whole `next`, `prev` or bucket
  function. Both run under `cache_mutex`, so an operation is one step.
* **Trie.** `Spine` is the nodes made on the way, `FindStep` one turn of the loop
  of `findInTrie`, with the end-of-path test before the descent as in the code:
  the last node is never looked at.
* **Registration.** `thread_data` is the listener's variable, overwritten by each
  accept; `ReadArgs` is the thread's copy of it, any time later. Descriptors are
  numbers and reused lowest first. A struct is two pieces (the header with
  `num_paths`, and the path texts), enough for every kind of partial struct:
  none, header only, texts taken for a header. `RecvError` leaves the loop and
  goes on to `Store`, as the code does. A recv that returns 0 leaves the loop
  condition as it was: the model waits where the code spins. `Strangers` are
  connections to the registration port that no storage server opened: a client
  that comes second, or a command that the naming server sends to its own port
  (NS 375, for a storage server on its own host). Such a connection sends any
  number of pieces (`Size`): a client that nobody answers times out, goes back to its
  menu and sends one text more for every command typed (CL 46-50, 122-139). Two
  pieces of text fill a struct. What is then read as its number of paths is
  arbitrary: `ListedPaths` gives the sets of paths it may come to, and `Overread`
  is the loop that runs past the struct and ends the naming server (`lpc` is
  "crashed").
* **EarlierVersion.** `Register`, `ConnectForCommands`, `BindClientPort` are `main`
  and `handle_naming_server_commands` of a storage server up to the recv that
  never returns; the naming server's listener and threads are the actions of
  `Registration`, started at the listener, as this version accepts no client first.
* **NamingServer.** `Connect` starts a handler. `LookupCache`, `LookupTrie`,
  `AddFound` are the three critical sections of `find_storage_server_for_path`;
  `Forward` ends the command.
* **ClientSession.** `toServer` and `toClient` are the streams. A recv takes the
  first k messages that have arrived, for any k: `strncmp` sees the first, the
  others are gone. `Parsed` is what `sscanf` can make of commands run together.
  Commands are numbered, and an answer carries the number of the command it is
  about, which no program sees: that is how the properties know whose it is.
* **System.** `ForwardCommand` is `Forward` of the session together with what comes
  of it: the message arrives at the storage server, or is lost (no server for the
  path, none that listens yet, none any more), and the handler cannot tell.
* **StorageServer.** `Register`, `ListenForCommands`, `ListenForConnections` are
  `main`. `Deliver` decides by port which socket a connection reaches, or none.
  `Perform` is the dispatch of `handle_naming_server_commands` with the whole of
  the four operations, list and disk.
* **Transfer.** `stack` is the recursion of `copy_directory_to_remote`, `stream`
  the connections, `thread` the threads of the receiver, `fs` its disk. `Receive`
  takes the first k sends of a stream. `failed` has the entries for which a call
  failed: `socket`, `connect`, `opendir` or `fopen` on the sender (SS 246-250, 272-288,
  303-330), `pthread_create`, `mkdir` or `fopen` on the receiver; a copy meets
  `MaxFailures` of them at most, while both programs run.

## 3. Runs

Bounds are the smallest that let every interesting case happen. All passing runs
cover the whole state space of their instance.

| run | instance | checks |
|---|---|---|
| `file_locks` | 3 threads, 3 paths, a table of 2, READ and WRITE, spurious wakeups | `PathExclusion`, `UnlockedOnlyWhenFull`, `CountsExact`, `NoLostWakeup`; `EveryWaiterServed` |
| `lru_cache` | capacity 3, 4 nodes, 4 paths (two share a bucket), 2 servers | `NoDangling`, `ListConsistent`, `BucketIsMostRecent`; refinement `EvictsLeastRecent` |
| `trie` | 5 paths to register (nested, diverging, empty), all 31 paths up to length 4 to look up, 2 servers | `FindsLongestUnlessRegistered`; `RegistrationsAreSteadfast` |
| `trie_matching` | the same without the empty path | `FindsLongestMatchingPrefix`, violated |
| `registration` | 3 storage servers and a stranger that sends two structs' worth of text, 2 slots, thread creation may fail, monitor runs | `StoredIntact`, `TextMustFillStructs`, `CountMatches` |
| `registration_live` | 2 registrations of the same path and a stranger that sends a struct's worth of text, 2 slots, resets, thread creation may fail | `TrieAgreesWithTable`; `EveryServerRegistered` |
| `earlier_version` | 2 storage servers, one of which finds its client port taken, a client, 2 slots, `MaxStrangers = 1` | `OnlyServersStored`; `StartedServersRegister` |
| `naming_server` | 2 handlers (the second may never start), 3 paths (two share a bucket), 2 servers, cache of 2 | `AnswerCoversBucket`, `NoHiddenEntry`; `ResolutionIsSticky` |
| `naming_server_collision` | 1 handler, 3 servers, otherwise as before | `AnswerCoversPath`, violated |
| `client_session` (module `System`) | 3 commands of every kind, a storage server that starts late, takes a copy, or exits | `AtMostOneAnswered`, `BlockedOnlyByLostAnswer`, `AnswerIsItsOwn`, `RanTogetherOnlyAfterLateAnswer`; `EveryCommandReported`, `SuccessIsExecuted` |
| `transfer` | 2 directories, 2 files on two levels, one sent in two pieces, `MaxFailures = 2` | `FilesArePrefixes`, `OnlyExplainedLosses`; `EveryFileArrives` |
| `storage_server` | 3 port numbers, 3 paths, every disk at the start, 3 connections, a queue of 2 | `ListedExist`, `NoUnlockedRace`; refinement `ServesFirstOnly` |

`FileAccess`, `LRUCache`, `Registration`, `NamingServer`, `System`, `Transfer` and
`StorageServer` have a type invariant each, checked in the same runs.

Why the bounds are enough:

* `file_locks`: three threads are needed for a reader, a writer and one more
  waiter; three paths for a table of two to be too small. The proofs lift the
  safety part to any number.
* `lru_cache`: capacity 3 is the least at which a node is moved out of the middle
  of the list, and two paths of one bucket the least for a hidden entry.
* `trie`: nesting to depth 3, a branch, and the empty path (which a header without
  texts registers). Queries go one character beyond.
* `registration`: the first of the four connections to be accepted becomes the
  client, whichever it is; the others leave more registrations than slots, with
  one under way when the table fills. The stranger's four pieces fill both
  slots, or one slot and a part of the next struct. All structs list one path here, which
  makes the storage servers interchangeable (symmetry). `registration_live` checks
  the trie and liveness, without symmetry and with one connection less: two
  structs that list the same path, as two runs of one storage server do, and one
  of them a path below it as well.
* `earlier_version`: two servers, so that the second connection of one, the first
  of the other and a client can meet in the listener. `MaxStrangers = 1` lets any
  one of the three strangers connect, at any time: the state space is several times
  as large with two, and what a stranger can do to a server's connection, take its
  thread's reading of `thread_data`, it does alone.
* `naming_server`: two paths in one bucket and a cache of two entries, so that
  one handler's entry takes the bucket of the other's and one is evicted. The servers
  list ancestors at two depths and one path that is itself asked for.
* `client_session`: a late answer of one command can spoil the next, and that one
  the one after it: three commands show it all, and the proofs hold for any number.
* `transfer`: two levels, because the races are between a directory and what is in
  it; an empty directory, the only thing that a race can lose silently; a file of two
  pieces, so that a recv can join two pieces, a name and a piece, a piece and the
  end. Two failures: one on each side, or of a directory and of something beside it.
* `storage_server`: three connections so that one can be accepted, one be queued
  behind it and one arrive after the thread has ended; three ports so that all
  may differ.

`CHECK_DEADLOCK FALSE` is set where the programs really come to rest: peers that
have sent what they had, storage servers that wait for commands nobody sends, a user who has typed all commands or whose client is
blocked, a finished copy, a storage server nobody connects to.

### Fairness

* Threads of a process are scheduled: weak fairness of each thread's own steps
  (`Work`, `Thread`, `Handler`, `Sender`, `Receiver`). Nothing is assumed of the
  order in which waiting threads get a mutex, nor of clients and users.
* `EveryWaiterServed` is stated for runs in which clients stop sending at some
  point. Without that it is false: readers that keep coming hold a writer off
  (NS 101 lets them in while a writer waits).
* `EveryServerRegistered` is stated over every schedule of the threads, those included
  in which a thread copies a later socket than the one it was created for. What this
  can cost a server is part of the property: that every thread has copied another
  socket (`Missed`), or that two threads read its socket and wait for ever, each for the
  part that the other has (`Split`).
* In `System` the network delivers: a recv that has data returns. In `Transfer`
  likewise, while both programs run. The storage server of `System` serves what has
  arrived, if it does not exit; nothing makes it start to listen.
* In `EarlierVersion` weak fairness of the programs together is enough: every
  behaviour is finite, so that each program goes on as long as it can. Clients may
  stop.

## 4. What the runs show

**Locks.** Exclusion holds per path even with the table full: a locked and an
unlocked command never meet on one path, because a path that has no entry when
the table is full never gets one. The signals suffice, although a reader's
release signals one writer only.

No command that the naming server forwards is ever under such a lock, though: the
lock is chosen by the words READ, WRITE and CREATE_FILE (NS 784-787), and the
dispatch knows none of these (it creates files for CREATE, NS 793).

**Cache.** The pointer structure is sound and its contents are exactly an LRU
list. Not everything in the list can be found, however: a bucket has room for one
node, the one used last (`BucketIsMostRecent`). With the single handler that `main`
starts an entry is only added when its bucket is empty, so that nothing is ever
hidden (`NoHiddenEntry`) or evicted, and an answer once cached stays for good
(`ResolutionIsSticky`), even when a server with a closer ancestor registers later.
With a second handler an entry can be hidden, because two of them miss one bucket
at once; the same run shows what still holds then.

**Resolution.** The answer is always an active server that listed an ancestor of
the path, or of another path of its bucket (`AnswerCoversBucket`), in spite of the gaps
between the critical sections and of evictions by other handlers. A path that is not itself registered is answered
by the longest registered prefix (`FindsLongestUnlessRegistered`).

*Disagreement* (`trie_matching`): NS 178 calls `findInTrie` the "function to find
longest matching prefix in Trie", and a registered path matches itself. The walk tests
each node before it goes on to the next and never looks at the last (NS 185-188): a
registered path is answered by the server of a registered path above it, or by none.

*Disagreement* (`naming_server_collision`): `getFromCache` returns whatever the
bucket holds without comparing the path (NS 246). A path that was never looked up
gets the server of another one, and the trie is not searched, although NS 348
says "If not in cache, search in Trie".

**Registration.** Threads that were handed the same socket through the shared
`thread_data` share its bytes, but no mixture ever gets into the table as a whole
struct and no struct twice (`StoredIntact`). Each server that was given a thread is
registered in the end, unless the table is full, a text has ended the naming server, or
the server is one of those that the sharing leaves out (`EveryServerRegistered`).

A second client, which nobody answers, and a command that went to the naming server's
own port are taken for registrations. They may become entries: without a reset, a slot
costs such a connection a whole struct's worth of text, no less, and so does ending the
naming server, which loops over whatever number of paths the text makes
(`TextMustFillStructs`). One command does not come near it; a client whose user keeps
typing after each timeout does in the end. What else a slot may hold is nothing at
all: a thread whose socket was closed before it read from it stores an empty
struct as an active server (NS 719-723, 476-482). The counter is exact, and cannot
exceed the table although the listener tests it before it blocks in accept. A
connection that is reset in the middle leaves a partial struct in the table as an
active server (NS 481, then 505); trie and table agree even then, and of several
servers that listed a path the newest serves it (`TrieAgreesWithTable`), so that a
storage server that was started again, and has two slots, is asked at its new one.

**Earlier version.** Storage servers open a second connection for commands, which the
listener takes for a registration. It never becomes one, and neither
does a client, which here waits for ever after its first command (`OnlyServersStored`).
But it can take the thread of the first: a server is registered in the end, or the table
is full, unless a thread read a connection that was not its own
(`StartedServersRegister`). No command is ever sent on either.

**Session.** `INITIAL_ACK` is sent once, and awaited before every command: at most
one command of a connection is ever answered, all others are reported as failed or
timed out. The client can hang, in the recv without timeout (CL 67), only if the
answer was received together with `INITIAL_ACK` or if nothing but empty lines was
entered before. What the user is told is about the command just entered unless an
earlier one timed out (`AnswerIsItsOwn`), and commands reach the handler run
together only after a timeout or after an unknown command, whose second answer is
bound to be late (`RanTogetherOnlyAfterLateAnswer`).

"Success" says little about execution: `FINAL_ACK` follows whatever came of the
command. Still, a command that is reported as successful and reached a storage
server that then neither exits nor serves a copy first is executed, and nothing
else is (`SuccessIsExecuted`): a server serves one message, and of the commands of
a session one at most is reported as successful. The condition names every way to
lose one.

**Storage server.** It serves the first message that reaches it while it listens and
loses every other: it implements `OneShotServer` (`ServesFirstOnly`). In particular
it executes one command in its life: the thread accepts once (SS 408), and the
naming server closes the connection after one command (NS 391). That is also why the list of files cannot go wrong
(`ListedExist`), although deletions do not keep it up, and why `files[]` cannot
overflow. The threads that receive copies do not take `file_mutex`; they never race
with a command, because one port number, the naming server's, decides which of the
two a server gets (`NoUnlockedRace`). With the change that a comment at NS 446
announces (copies to `client_port`) this would no longer hold.

SS 582 says argv[4] is "another port for receiving naming server commands". The naming
server connects to `nm_port` instead (NS 375), which is the port of the naming server
itself (SS 600-601): a storage server with two ports of its own never executes a
command (`PortDecides` of `StorageServerProofs`).

**Copies.** A file that the receiver has closed is whole, and one it has not is the
beginning of the original, plus possibly the end marker (`FilesArePrefixes`). If the
receiver survives and no name or end marker was joined with another send, every file is
there but those that a failed call leaves out, and of the other directories only those
without files, below the first level, may be missing: their announcement can overtake
that of the directory they are in (`OnlyExplainedLosses`). A *file* that overtakes its
directory ends the receiving server (`exit(0)`, SS 369). A failed call (a file or
directory that cannot be opened, a connection that cannot be made) leaves out the entry
it was made for and, if that is a directory, all that is in it (`LeftOut`); the copy
goes on with the next entry. The failure is printed where it happens; neither the other
server nor the user hears of it.

## 5. Proofs

All are for arbitrary constants that satisfy the `ASSUME`s of the modules: finite
sets of threads, connections and nodes, sizes that are numbers, model values for
"none" outside the sets they are added to.

* **FileAccessProofs** (`TypeOK`, `CountsExact`, `UnlockedOnlyWhenFull`, `NoLostWakeup`,
  `PathExclusion`). The inductive invariant `IInv` adds to these: the used part of the
  table is a prefix without repetitions (`TableInv`), what the place of a thread says
  of its command and entry (`ThreadInv`), and that a writer excludes readers
  (`Exclusive`). `PathExclusion` is not inductive: it follows because two threads
  with one path and two entries contradict `TableInv`, two with one entry contradict
  `Exclusive` with exact counts, and one with and one without an entry contradict
  `UnlockedOnlyWhenFull`.
* **LRUCacheProofs** (`TypeOK`, `NoDangling`, `ListConsistent`, `BucketIsMostRecent`;
  `ListImplementsLRU`, the refinement of `LRUOrder`). For pointers the invariant `IInv`
  is local: ends (`EndsInv`), links inverse to each other (`LinksInv`), buckets hold
  nodes of their hash (`PathsInv`), size exact. `PathsInv` is what makes the eviction
  safe: it clears the bucket of the evicted path without looking at it, and no other
  bucket can point to the node. For the list, `OrderInv` says that *some* sequence
  `o` of all live nodes starts at `head`, is followed by `next`, and has no bucket
  pointing past a more recent node of its hash. Each step makes the next sequence from
  the last: shifted by the new node, the same without the last node, or with the node
  at `k` put first. A bucket is needed in that last case: only a node that its bucket
  points to is ever moved. `Forward` and `Backward` are recursive functions, that is,
  *some* function that satisfies an equation; `WalkFollows` shows that the order
  satisfies it and that two that do cannot differ at a least place. The contents are
  then the sequence of the entries of `o`, and the three cases are `Insert` with and
  without room, and `Touch`.
* **TrieProofs** (`FindsLongestUnlessRegistered`, `RegistrationsAreSteadfast`). `AddPaths`
  and `findInTrie` are folds. What each computes is given in closed form (`WithPaths`,
  `LastMarked`); that the fold is equal to it follows as above, from a minimal set of
  paths, or a least number of characters, at which they would differ. The properties
  follow from the closed forms, since the marked nodes of a trie are the paths
  registered. What `findInTrie` finds is the longest *strict* prefix, for every path
  (`LookupFindsAncestor`); that is the longest matching one unless the path is
  registered (`LookupFindsMatch`).
* **RegistrationProofs** (`TypeOK`, `CountMatches`, `StoredIntact`, `TextMustFillStructs`,
  `TrieAgreesWithTable`, and the range of the counter). The counter changes with exactly
  the flags it counts, in one critical section each. For the structs the invariant,
  `FlowInv`, is about pieces: one that was received is held once, by one thread or one
  slot (`OnceInv`), a thread holds pieces of the socket it copied only, in the order
  they were sent (`ThreadsInv`), and descriptors and streams are what the system calls
  make of them (`DescriptorsInv`, `StreamsInv`). Two threads that share a socket share
  its pieces out between them, so that neither can have both pieces of the same struct
  as the other. Without resets a thread stores only after the last piece, or
  from a socket that was closed before (`WholeInv`). Hence `TextMustFillStructs`: the
  parts of the slots that hold what a connection sent are different pieces of it, all
  received, so that they map one to one into `1 .. got[c]`, and `StructSize` times the
  number of those slots is at most that. What is overread is a full struct, too.
  `TableInv` adds that the trie is a trie (`RootInv`) and agrees with the slots that are
  filled; the step that stores a struct uses what `AddPaths` computes, which
  `TrieProofs`, as an instance, provides. The steps of `EarlierVersion` are those of
  `Registration`, but for the send of a whole struct at once (`RegisterFlow`), so that
  `FlowInv` holds there too; as nobody but a storage server sends as much as a struct
  there (`EarlierAssumption`), `OnlyServersStored` follows.
* **NamingServerProofs** (`TypeOK`, `AnswerCoversBucket`, `NoHiddenEntry`,
  `ResolutionIsSticky`). Trie and cache are not proved again: `TrieProofs` and
  `LRUCacheProofs` are instances, and each call of the cache is shown to be a step of the
  latter. The invariant says that what a node of the trie, a node of the cache and a
  handler between two critical sections hold is an active server that covers a path of
  the bucket (`RootInv`, `CachedInv`, `HitsInv`): servers are never given up here, so
  that what was found stays true. For one handler, the bucket it found empty stays so
  until it fills it (`MissInv`).
* **StorageServerProofs** (`NoUnlockedRace`; `ServesFirst`, the refinement of
  `OneShotServer`; and, from the same invariant, `OneCommandInLife`, which no run
  repeats because the refinement says more). `LifeOfThread`:
  nothing was executed before the thread has its connection, and what is to be
  received will be the first command. `PortDecides`: a connection is where it is
  because that port is `NamingPort`, and the two ports of a running server differ.
  The refinement maps the message the thread has, if any, and those queued behind it
  to one queue; `ThreadQueues` adds that there is one message before the thread at
  most, only while it receives, and none queued before the server listens. The step
  lemma has one case per action: delivery is `Arrive` or a stutter, accept a stutter,
  the first recv `Serve`, an exit `Fail`.
  `DiskInv` is for `ListedExist`: a command creates or deletes, and there is one at
  most, so that the list is empty or names what this command has just made. `Below`,
  what a deletion takes with a directory, is the least set closed under "is in", and
  needs no recursion.

* **SystemProofs** (`TypeOK`, `AtMostOneAnswered`, `AnswerIsItsOwn`). `INITIAL_ACK` is
  the first message to the client and the only one of its kind (`AckComesFirst`), and
  the client waits for one before it takes an answer. Until it has seen it, and from
  then until the first answer, all it can report are timeouts
  (`TimeoutsBeforeAnswer`); so the answered command is the only one. Until anything is
  reported, every command and every answer on its way, in the handler or behind it,
  is of the first command (`FirstCommandOnly`): an answer is to that one, or a
  timeout came before it. `OutboxOfCommand` carries the sender of an answer from the
  recv of the handler to its send. `WaitingInv` adds that commands wait in the order
  in which they were typed, none of them answered before: when two are received as one,
  the second was typed after the client had given the first up, or had taken for its
  answer what was another's (`RanTogetherOnlyAfterLateAnswer`). `AnswerInv`: as long as
  nothing was received together with `INITIAL_ACK`, a client that has sent a command
  and not been answered has a command or an answer under way, so that it is not blocked
  (`BlockedOnlyByLostAnswer`).
* **TransferProofs** (`TypeOK`, `FilesArePrefixes`, `OnlyExplainedLosses`). Two
  things are followed. The recursion comes to every entry once, after the directory it
  is in (`StackInv`), and leaves none out but what a failure leaves out (`CoverInv`).
  `LeftOut` is the least set with the failed entries that is closed under "is in a
  directory of the set", and needs no recursion. And for each file, what is in it, what is
  in its stream and what is still to be sent are, one after the other, the original
  (`FileInv`, `FlowInv`), unless a call failed for it or a recv has joined the file's
  name or end with another send. A directory is announced on the connection of the one
  it is in (`AnnouncedInv`), so that one at the top cannot be announced before the root
  is made (`DirsInv`); for one that has a file sent for it, receiving the file has shown
  that it is there.

Each `IInv` was checked with TLC on an instance before it was proved.

The assumptions beyond those: a struct lists finitely many paths, and paths are
sequences of characters (`PathsInAssumption`, `PathsAssumption`); what is copied is a
finite tree, given as a parent function without cycles, and a piece of a file is not
mistaken for a message, and a copy meets at most `MaxFailures` failures, any number
(`TreeAssumption`; that a file *can* contain the end marker is not modelled); a storage
server sends its struct and other connections any number of texts (`SizeAssumption`); a
client of the earlier version is not one of a server's connections, and sends less than
a struct (`EarlierAssumption`); the cache has a capacity of at least one and malloc one node
more to give (`CacheAssumption`, `NodesAssumption`).

Every invariant that a run checks, every action property and both refinements have
a theorem.
Only model-checked are the liveness
properties (`EveryWaiterServed`, `EveryServerRegistered`, `StartedServersRegister`,
`EveryCommandReported`, `SuccessIsExecuted`, `EveryFileArrives`): fairness and ENABLED are
beyond the prover. The two runs that expect a violation have no theorem
(`LookupFindsAncestor` says for any paths what `trie_matching` shows of some).

A recursive definition over data of any size is within reach where it is a function or a
fold: the induction theorems of the library cannot be used, since they take an
operator, but a minimal counterexample, from the theorem that the subsets of a finite
set are well-founded, does the same (`TrieProofs`, `LRUCacheProofs`).
`HashFunction` is recursive too; no proof depends on it, because `Hash` is any function.

## 6. Abstractions, and what is not modelled

* `main` starts one handler and then waits for the registration listener for ever
  (NS 1035). `file_locks` and `naming_server` run several handlers, because the code of
  the handlers is written for several; what holds for one only says so
  (`OneHandler`), and `client_session` has one.
* `monitor_storage_servers` is modelled and run in `registration`, although the call
  is commented out (NS 992-996). Nothing refreshes `last_heartbeat`.
* A message is never split by a recv in `ClientSession`, nor is a name or an end marker
  in `Transfer`: they are far shorter than a segment.
* In `ClientSession` the handler may go on to send to a client that has gone. The second
  such send would end the naming server with SIGPIPE: nobody of the session is left to
  notice, and no other session is modelled with it.
* In `Transfer`, end of file and a read error are the same to `fread`: `Chunks` counts
  the freads that return something. A full disk under the receiver's `fwrite` is not
  modelled. In `StorageServer` a copy that reaches the thread for commands is one
  message: the later texts of the same connection are unknown commands too.
* The words READ, WRITE and CREATE_FILE that the locks look for (NS 784-787) are not
  those of the dispatch (NS 793-808): a comparison of two lists of words, without a
  run. That the listener spins on a full table (NS 701), and a thread on a
  connection closed early (NS 476), is a wait in the models. What a slot given up by
  the monitor leaves in trie and cache (NS 743) is out of scope with the monitor off.
* Texts longer than the buffers they are copied into are not modelled; paths in
  commands are assumed to fit.
* One copy at a time; a server that is the source of one copy and the destination of
  another is out of reach of `Transfer` (by `NoUnlockedRace` of `StorageServer` it
  does not occur).
* `get_server_ip`, `setup_storage_server` (its body is a comment), menus and printing:
  no state.
* Of the earlier version: what follows the first recv of a client or of a thread for
  commands, which never returns; the functions that nothing calls (cache, search and
  forwarding of commands, modelled in their later form); the copies; `storage_server.c`,
  which is commented out.

## 7. Plan

Done: locks, cache, trie, table and registration with strangers, resolution, session,
storage server, copies, the composition of a command's whole way, the earlier
version; the proofs above.

1. A refinement of the session: what a user sees of `System`, as an abstract
   specification of one answered command among timeouts and failures.
2. `Transfer` with two concurrent copies into one receiver, which one `exit` ends.

# Eco in TLA+

Eco is a C++ framework: threads and message queues, an asynchronous logger, a
TCP client and server with sessions, a publish/subscribe server, and around
them configuration, persistence, parsers and a command line. This directory
holds TLA+ models of its concurrent core, translated from the source, the TLC
runs that check them on small instances, and TLAPS proofs of theorems about
them.

Contents: [the system](#1-the-system), [the modules](#2-the-modules),
[the runs](#3-the-runs), [where code and comments differ](#4-where-code-and-comments-differ),
[the proofs](#5-the-proofs), [what is not modelled](#6-what-is-not-modelled),
[the plan](#7-the-plan).

Run things in this directory: `tlc -config server.cfg MCMessageServer`,
`tlapm MessageServerProofs.tla`.

## 1. The system

Paths are relative to `src/`.

| Component | Source | State | Operations | What makes it correct |
|---|---|---|---|---|
| Message queue | `thread/MessageQueue.h` | a deque, open or closed, two condition variables under one mutex | `post`, `post_unique`, `pop`, `open`, `close`, `release` | bounded; no lost wake-up of producers or workers; FIFO; each message handled once; unique keys |
| Message server | `thread/MessageServer.h`, `thread/ThreadPool.h`, `thread/TaskServer.h` | the queue and a pool of workers | `run`, `stop`, `release`, `join`, the worker loop `work()` | `stop()` returns and what was queued is handled; restart works |
| Logger | `log/Log.h`, `log/Core.h`, `prj/src/log/*` | packs available, packs to write, bytes allocated, one worker, sinks | `append`, the worker's `pop` and write, `stop` | nothing lost or reordered, memory bounded, a slow sink blocks and does not lose, stop writes everything |
| Monitor, atomics, locks | `thread/Monitor.h`, `thread/Atomic.h`, `thread/State.h`, `thread/Mutex.h`, `thread/AutoRef.h` | a task count; a word changed with compare-and-swap; ordered locks; a reference count | `timed_wait`, `finish_one`, `fail`; `operator++`, `load`; `OrderLock`, `OrderRelock`; `reset` | waits end with the right verdict; no lost update; no lock cycle; freed once |
| TCP client | `net/TcpClient.h`, `prj/src/net/TcpClient.*` | the peer, addresses of the load balancer, request ids, the table of waiting calls, client sessions | `request`, `async`, `send`, connect and reconnect, `on_read`, `on_timer`, `close` | a call ends exactly once with its own response or a time-out; it goes on connecting, by addresses used evenly; logins survive a lost connection, sessions do not |
| Dispatcher | `net/DispatchServer.h`, `prj/src/net/DispatchServer.cpp` | a message server of received messages | hand a message to a handler, a response to its caller | messages of a dead peer or session are dropped, a late response harms nobody |
| TCP server | `net/TcpServer.h`, `prj/src/net/TcpServer.*`, `TcpPeerSet.h`, `TcpSession.cpp` | peers; sessions by id, ids to reuse, session ids by connection | accept, read, close, tick, `add_session`, `erase_session`, `stop` | limits hold, ids unique, a connection's sessions go with it, dead peers are found |
| TCP peer | `prj/src/net/TcpPeer.*`, `net/TcpState.h`, `prj/src/net/asio/*` | bits of the connection's state, the pending read and writes | connect, websocket handshake, heartbeat, read, write, close | exactly one read while it is up; no bits of an earlier connection; its end is told and noticed |
| Topic server | `thread/topic/*`, `thread/Mutex.h` | topics by id; per topic new contents, snapshot, and subscriptions as nodes of two lists; one publish thread's tasks | `publish`, `subscribe`, `unsubscribe`, `clear_content`, `erase_topic` | each subscriber told everything once and in order from its first snapshot; nobody told after unsubscribing; the two lists agree; no lock cycle |
| Timer | `thread/Timer.h`, `prj/src/thread/Timer.cpp`, `net/IoTimer.h` | boost timers | set, cancel, repeat | a cancelled timer does not run |
| Codecs | `net/protocol/*`, `net/Net.h` | none | encode and decode heads, metas, sizes, masks | what is decoded is what was encoded, at every boundary of the sizes |
| Application | `App.h`, `RxApp.h`, `prj/src/App.cpp`, `Config.h` | configuration, the servers | start and stop | order of start and stop |
| Persistence, command line, xml, web, service, files, process, Qt, time and types | `persist`, `cmd`, `xml`, `web`, `service`, `filesystem`, `process`, `art`, `DateTime.h`, `Type*.h` ... | records and texts | conversions, library calls | single-threaded or external |

**How they interact.** Everything asynchronous is a `MessageServer`: the
dispatcher of client and server, the task server, the topic server's publish
thread. The logger has a queue of its own. An io thread (`net/asio/Worker.h`)
reads a connection and posts what it read to the dispatcher with a *weak*
pointer to the peer; the dispatcher's threads lock the pointer, find the
session, and call a handler, or, in a client, pop the caller's `AsyncRequest`
from the table and finish its `Monitor`. Connections, sessions and ids are shared
by io and business threads through three mutexes of `TcpServer::Impl`. The
topic server's callers append contents and link subscriptions themselves and
leave the telling to the publish thread.

**What is hard.** Waits in pairs (full and empty) on one queue; `close()` racing
a worker about to wait; tests that are not repeated after a wait; time-outs
racing late responses; a dying connection racing the messages it sent; ids and
addresses that are used again; two-step updates of tables that belong together;
two mutexes that threads take in different orders; a state word changed by several
threads; reads whose buffer is shared;
the subscription that begins in the middle of a publication. The list, line by
line, is `hazards` in `PROJECT.json`.

## 2. The modules

| Module | Models | Uses |
|---|---|---|
| `MessageQueue` | the methods of `MessageQueue.h` as operators on its state | |
| `Channel` | abstract: what the queue promises, a bounded FIFO buffer | |
| `MessageServer` | producers, workers (`work()`) and the owner (`run`, `stop`, `release`, `join`) around one queue | extends `MessageQueue`; implements `Channel` |
| `MessageServerProofs` | theorems about `MessageServer` | |
| `LogQueue` | the logger: posters, pack queue, worker, `Core::stop()` | |
| `LogQueueProofs` | theorems about `LogQueue` | |
| `ClientRequest` | `TcpClient::request()`, the table of waiting calls, monitor, dispatcher, io thread, `close()` | |
| `ClientRequestProofs` | theorems about `ClientRequest` | |
| `TcpServer` | connections, sessions, ids and their index; io and business threads | |
| `TcpServerProofs` | theorems about `TcpServer` | |
| `TopicServer` | one topic of four kinds: publishers, subscribers, publish thread | |
| `TopicServerProofs` | theorems about `TopicServer` | |
| `Subscription` | the two linked lists of a subscription, `OrderLock` and `OrderRelock`, and the calls that use them | |
| `SubscriptionProofs` | theorems about `Subscription` | |
| `TcpState` | the bits of a connection's state as changes of one word | |
| `TcpPeer` | one connection of a client or a server over its socket, with and without websocket handshake | extends `TcpState` |
| `TcpPeerProofs` | theorems about `TcpPeer` | |
| `TcpClient` | the client's addresses, connecting and reconnecting, sessions and logins | |
| `TcpClientProofs` | theorems about `TcpClient` | |
| `Codecs` | both protocols' encoders and decoders, as operators on bytes | |
| `Framing` | both ends of connections: what is sent, read, decoded, handled and answered | extends `Codecs` |
| `MC...` | symmetry sets and the module TLC is started on, one per model | |

The granularity is the same everywhere: a critical section is one step; a wait
on a condition variable ends the step, and the thread goes on in a later step
once it was notified or woke spuriously (Windows' and POSIX' waits both may);
what is done without a lock is cut at each access to shared state. Threads and
handlers meet at any of these steps. Where the code does something then that it must
not do, the model does it too: in `TcpServer`, `TcpClient` and `TcpPeer` the step says so
in a history variable, `known`, and goes on. Each such step is one of the module's `Faults`, and a
property that does not survive one names it; section 4 lists them, with what was
found when the name is left out. Names in the
models are those of the code wherever one exists; where the code has none, the
comment says which line it is. Definitions after a comment `Fault:` are not
part of the model. They are wrong versions of the definition that follows them,
one per property, with which the property was seen to fail.

**MessageQueue, MessageServer.** `m_deque`, `m_state` and `m_capacity` are the
members; `full_wait` and `empty_wait` are the wait sets of the two condition
variables; `pending[p]` is the message a producer carries through the loop of
`raw_post()`. `pop()` is three operators, for its three outcomes. `wpc` is the
place of a worker in `work()`, with "exited" between the end of its function and
`join()`. `taken`, `dropped` and `sent` are history. `release()` is `clear` and
`raw_close`, which does nothing at all when the queue is closed already.
The owner is one thread because `MessageServer.h` says its methods are not
thread safe.

**LogQueue.** `m_avail` and `m_logging` are the two lists of packs, a pack a
sequence of texts and a fill; `append` truncates as `FixBuffer::append` does.
The worker's `pop()` is cut at its timed wait, and its test of the state from the
wait by "towait", because `close()` takes no mutex: `close_state`,
`close_notify_avail` and `close_notify_logging` are separate steps. `TextsOf`
flattens packs; `Stream` is the log as one sequence, wherever its texts are.

**ClientRequest.** A call is named by its caller and a number, which also names
its codec and the `AsyncRequest` it may make. `m_async_manager` maps ids to
`AsyncRequest`s; `operator++` of the id is the two accesses it compiles to.
`m_task_count` is the monitor's. The dispatcher pops the entry under `m_mutex`,
then decodes, then finishes the monitor, in three steps. `close()` holds
`m_mutex` in its two joins: `MutexFree`. The server and the wire are external:
it answers a request at most once, with the request's id, in any order, or never.

**TcpServer.** A connection id is the address of its connector, so it is used
again when nothing refers to the peer (`FreeAddress`). `m_session_map`,
`m_left_session_ids`, `m_next_session_id`, `m_conn_session` are the members; a
business thread's place in `add_session()` or `erase_session()` is `thr[t].at`,
with one step per critical section; `m_option` is the configuration, chosen at first
(which business threads, sweep or not); `clr` is the `clear_conn_session()` that
holds `m_conn_session_mutex` and pushes ids without the mutex that guards the
stack, hence the read (`clear_push`) and the later write (`clear_store`). Connections close, are swept
and are replaced at the same address at any point of a business thread's work, and clients
close a session as often as they like. A handled message makes its peer active,
in `on_read` and again in `handle_server_context`. `Faults`: `"lost"`, a change of the stack that `clear_store`
overwrites; `"twice"`, an id that `on_close()` pushes when `erase_session()` has pushed it; `"swept"`,
a connection closed by the sweep, whose sessions stay; `"late"`, a session indexed under a connection that has gone;
`"unindexed"`, one that loses its place in the index to the end of the id's former session.

**TopicServer.** Contents are 1, 2, 3... in publishing order. `m_new` and
`m_snap` are the topic's; `subs` is what can be reached from `m_head`, `m_tail` the
pointer behind it, `detached` the nodes linked behind an erased one. The publish
thread takes a task, moves contents, takes the subscribe mutex and walks:
`do_move`, `lock`, `tell`, `unlock`. `log` observes what each subscription was
told. The contents of a `SetTopic` concern one object; `append_set` may turn the
content the set has, which may have been published already, into the one that
removes it, so `removed` is read when a content is moved or told, not when it is
appended.

**Subscription.** Pointers are cells: a list's head, a node's next pointer, a
thread's local variable; a node keeps the address of the cell that points at it, as
the code does (`m_topic_subscriber_prev`, a pointer to a pointer). A call is a sequence of operations
(`todo`): lock, try to lock, unlock, and the list work in between, so threads meet
between any two of them. Mutexes are recursive, as on Windows, and lie in memory in
one of `Addresses`; `OrderLock` takes the lower first, `OrderRelock` unlocks and
locks again when the lower one is taken. `Chain`, what a list's pointers lead to, is
the least set that has the first node and each one's next; `AtFirst` makes the subscriptions
of `Before` one after the other, as a recursive function, so that both can be proved about.

**TcpState, TcpPeer.** A change of a bit is `Atomic::load()`: read the target, read
the value, add the difference (`load_target`, `load_diff`, `load_add`). `todo` is what a handler has left,
state changes, asynchronous calls and notifications. The socket
completes reads and writes and may break; a handler runs only while the weak
pointer to the peer can be locked. Users send in any state, as `async_send()` and `request()` do,
handle messages, connect a client anew and sweep a server's peers. `Faults`: `"update lost"`, a change of the state
word that overwrites another thread's; `"alien"`, a handshake without its prefix, which is only logged; `"cut"`, a client that
connects anew and closes the connection just made; `"late read"`, a message of the last connection that begins a
read on the next; `"swept"`, a connection that the sweep closes, with no word to the handler.

**TcpClient.** `m_address_set` with its loads, which wrap at `LoadSize` as the code's 16 bits do, `m_authority_map` and `m_session_map`
are the members. `on_timer` is the tick that connects again; `async_auth` is cut
between finding, encoding (begun and ended, as `on_connect()` may copy the pack in between), storing and sending
the login. `on_close` does not wait for the dispatcher. A write that fails while the connection is made closes it (`Refused`).
The server is external: it answers a login with an id free on that connection, and drops a torn one. `Faults`:
`"late"`, an answer handled after `on_close()`; `"stale close"`, a `TcpSession` of an earlier connection that closes another's session;
`"wrap"`, a count of connects that starts again at 0; `"resolve"`, a host name not found, which ends the io thread.

**Codecs, Framing.** A message is its bytes up to the end of its meta and the size of
the body. Encoders and decoders are those of the source, byte by byte, so that the boundaries
of sizes, the two extra bytes of a websocket head and the masking are what
they are there. In `Framing` a reader takes the head, which lies in the buffer of the thread that
asked for it, computes the size of the rest and reads that; the dispatchers
decode and answer. `due` is history: the metas as they were sent. `io_heartbeat` and `response_heartbeat` are
the server's options, each of them on or off (both are off by default): heartbeats are returned if the
second is on, by the io thread or by the dispatcher as the first says.

## 3. The runs

Bounds are constants of the modules, marked `bound` where they are declared and
tested in guards. Runs that may stop when the bounds are used up have
`CHECK_DEADLOCK FALSE`; that nobody waits for ever is stated by the properties
themselves (`NoStranded...`, the `Eventually...` and `...Returns`).

| Run | Checks | Instance, and why it is enough |
|---|---|---|
| `server` | `ExactlyOnce`: each message in one place, popped once; `NoStrandedMessage`, `NoStrandedPoster`: no lost wake-up; `EventuallyTaken`, `EventuallyPosted`, `StopReturns`; `ChannelSpec`: refinement of `Channel` | 2 producers with 2 messages, 2 workers, capacity 2, 2 starts. Both wait sets get two sleepers, so waking the wrong number shows; two queued messages show their order; two runs put a restart between |
| `log` | `PackAccounting`; `NoStrandedLogger`; `StreamGrows`: no step loses, repeats or reorders text; `HandedOverIsWritten`; `EventuallyWritten`, `StopReturns` | 2 threads with 2 texts of sizes 1 to 3, packs of 2, capacity 5: two packs and a rest too small for a third. A text fits, fills, does not fit, or is refused |
| `request` | `FinishedOnce`; `NoOrphanEntry`; `OkMeansAnswered`; `RequestReturns` | 2 callers, 2 calls, `close()`, responses that do not decode: two calls share an id, time out against their response, get each other's response late |
| `sessions` | `IdsConserved`, until `"lost"` or `"twice"`; `NoOrphanSession`, until `"swept"`, `"late"` or `"unindexed"`; `SessionsNearLimit`; `SilentPeerClosed`, of servers that sweep | 2 connection ids, 3 messages, 2 business threads, limits 1 and 1, with the sweep and without. Two threads are past the test of the limit at once; a connection closes, or is swept, under a message being handled, and another comes at its address; every fault happens |
| `peer` | `ReadArmed`: exactly one read while the connection is there; `ClosedIsDown`: no bits of it afterwards; `CloseIsTold`; `BrokenIsNoticed`; each until one of the faults it names | 1 user besides the io thread, 2 connects, 2 frames, 1 message sent or handled; both roles, with and without websocket. A second connection shows what the first left behind; a message meets every step of connecting, reading and closing; every fault happens |
| `client` | `LoggedIn`: every login is made on every connection; `SessionsCurrent`, until `"late"` or `"stale close"`; `Balanced`, until `"wrap"`; `Reconnects`, until `"resolve"` | 2 sessions, 2 ids, 2 logins, 3 mishaps and changes of the addresses, counts that wrap at 3. A connection is refused, lost with a login or an answer under way, or made while a login is encoded or stored; every fault happens |
| `subs` | `ListsAgree`, `MeetsSubscribed`, `BothLocked`, `CallsReturn` | 2 topics and 2 subscribers, their mutexes in both orders; 3 nodes linked at first and one to make; 3 threads, 3 calls. A list of two has a first, a last and a next whose way back changes; opposite orders of locking meet |
| `topics` | `ToldInStep` (SeqTopic, PopTopic), `ToldLatest` (OneTopic, SetTopic), `TellsSubscribersOnly`, `NewHasTask` | 2 subscribers that subscribe 3 times between them, 1 publisher with 3 contents, 3 tasks queued, clearing and erasing. A subscription begins before, between and after contents, and behind an erased node; three contents are an object inserted, updated and removed; the full queue delays posts as a bounded publish queue does |
| `framing` | `Framed`; `DecodedAsSent`; `AllAnswered` | 1 connection, both protocols, 2 messages of the client and one unasked of the server, of sizes 125, 126, 256 and 65535: the last that one byte states, the first of two, one whose low byte is zero, the longest. Calls, logins, sessions, heartbeats with each setting of the server's two options about them, and answers of one or two messages |
| `topic_tail`, `subs_erase`, `head_shared` | one property each, which a comment states and the code does not have | section 4 |

**Fairness.** Weak fairness of threads that can run: a runnable thread runs and
obtains a free mutex. The owner's join is fair, so a `stop()` once begun goes on.
Nothing makes a producer post, a client speak, a server answer, or the owner
stop. In `LogQueue`, strong fairness of the time-out of the worker's wait (spurious wake-ups
start the interval anew and are not assumed to win for ever), and of a woken thread
that asks for the mutex while others come and go. In `TcpServer` the tick timer fires, and no more is assumed: threads may be late for ever.
In `TcpClient` the tick timer fires, the dispatcher runs, and a connect ends one way or the other. In `TcpPeer` the io thread runs and a read on a broken
socket fails. In `Subscription` a call once begun goes on, and takes a mutex that stays
free (weak fairness). In `ClientRequest` the time-out of a wait passes; that is what
`RequestReturns` rests on, and the code passes a time-out to every wait.

**What holds.** The queue loses no wake-up with `notify_one` on both sides, for
the reason the proofs give. The logger's recycling keeps exactly one pack being
filled and it is always the last; a `close()` that slips between the worker's test
and its wait costs one flush interval and no more. Caller and dispatcher may both
pop an entry of the client's table, but a monitor is finished once, and no entry
outlives its call, even when two calls share an id. Session ids are neither
lost nor doubled, whoever meets whom, until one of two things happens that the code does not guard against,
and no session outlives its connection until one of three; the five need a connection that
goes while messages are handled, the sweep, or a session closed while another is opened.
A subscriber is told the snapshot and then the news, with no gap and no repeat,
because both are tasks of one thread and the working bit is set by the first; the
subscribers of a set end with the object as the publishers left it, although
its timestamp changes under them, because every change is told again.
The relocking frees whichever mutex another thread may hold and wait with, as
long as it is locked once. A connection of a handler that returns has its next read or its end, whatever others send meanwhile;
a message sent too early ends what is being connected, and its user is told.
Logins and reconnecting meet without a gap, as `m_authority_map` is written
before the login is sent and read, under the mutex, when a connection is made; a login that is torn on the way, because it
was being encoded, is sent again whole by the call that encoded it.

## 4. Where code and comments differ

Three differences have a run, which TLC ends with a counterexample:

| Run | What a comment says | What the code does |
|---|---|---|
| `topic_tail` | `thread/topic/Subscription.h:211` "add subscriber to this topic" | line 152: `m_tail` keeps pointing at an erased node; the next subscriber hangs behind it |
| `subs_erase` | `thread/Mutex.h:115` "to avoid dead lock" | `thread/topic/Role.h:372`: `publish_erase_topic()` locks the mutex that `clear()` locks and `OrderRelock` unlocks once; the publish thread and a subscriber wait for each other |
| `head_shared` | `prj/src/net/TcpPeer.cpp:142` "parse message body length from protocol head" | line 36: heads of all connections of an io thread lie in one buffer; the length may be that of another connection's message. `net/asio/WorkerPool.h:100` gives all connections to one thread |

Further ones are stated at the end of each module, under "What comments say and
the code does not do", and were seen to fail; they have no run of their own. To see one, put
the property into a cfg with the constants given (the others as in the named
cfg). 

| Property | Start from, and change | Code |
|---|---|---|
| `UniqueQueued` | `server` | `MessageQueue.h:108`: "ensure that this message is unique" (line 95), but the search is made once; two producers that then wait in `raw_post()` push the same key |
| `ClosedStopsReceiving` | `server` | `MessageQueue.h:159`: `raw_post()` never looks at the state (comment: line 64) |
| `ClosedFreesPosters` | `server` | `MessageQueue.h:161`: producers woken by `close()` go back to wait when the queue is full and the workers have left (line 153) |
| `NoStrandedPoster` | `server`, `ReleaseWhenClosed = TRUE` | `MessageQueue.h:149`: `release()` on a closed queue clears it and wakes nobody |
| `TextsWhole` | `log` | `Queue.h:118`: the room in the pack is tested before the wait only, and `append` cuts what does not fit (line 106) |
| `StopWritesAll` | `log`, `m_capacity = 3`, `TextSizes = {1, 2}` | `Queue.h:143`: "it should log all the data in queue" (line 85), but the pack being filled is not handed over when the queue is closed |
| `OkIsOwnResponse` | `request` | `Atomic.h:63` reads the counter again: two calls get one id, share an entry, and one returns ok with an empty response |
| `OkMeansDecoded` | `request` | `DispatchServer.cpp:107`: a failed decode is logged, and the monitor finished as usual |
| `DecodedInTime` | `request` | the same line: the caller may have timed out and gone |
| `FailMeansFailed` | `request` | `Monitor.h:69`: the wait is in an `if`; a spurious wake-up counts as failure |
| `CloseReturns` | `request` | `TcpClient.cpp:186`: `m_mutex` is held over joins of threads that take it |
| `ConnectionLimit` | `sessions` | `TcpPeerSet.h:82`: `>` where the option says maximum |
| `SessionLimit` | `sessions` | `TcpServer.cpp:97`: size tested outside the section that adds |
| `IdsConserved`, `"lost"` or `"twice"` dropped | `sessions` | `TcpServer.ipp:223`: ids pushed without the mutex of the stack, and twice when `erase_session()` meets `clear_conn_session()` |
| `NewIdIsFree` | `sessions`, `MaxMsgs = 4`, `max_session_size = 2` | the same line: two sessions are given one id |
| `ClosesOwnSession` | `sessions` | `TcpServer.ipp:171`: the id of a closed session is given out at once, while messages for the old one are queued |
| `NoOrphanSession`, `"swept"`, `"late"` or `"unindexed"` dropped | `sessions` | `TcpPeerSet.h:165`; `TcpServer.ipp:183`: a session is indexed after its connection was cleared; `TcpServer.ipp:179`: one is taken out of the index although its id is a new session's by then |
| `DeadPeerClosed` | `sessions` | `TcpServer.cpp:138`: the connection of a client that sends no heartbeat is closed, says `TcpServerOption.h:84`; the line that would do so is commented out |
| `CloseIsNotified` | `sessions` | `TcpPeerSet.h:165`: the sweep erases peers without `on_close()`, so their sessions stay |
| `StopHandlesAll` | `sessions` | `TcpServer.ipp:241`: "wait all the request in server to be handled" (`TcpServer.h:43`), but the peers are destroyed first, and queued messages find them gone |
| any property of `peer`, `"update lost"` dropped | `peer` | `Atomic.h:42`: changes of the state by two threads overwrite each other |
| `ReadArmed` or `BrokenIsNoticed`, `"alien"` dropped | `peer` | `TcpPeer.cpp:60`: a handshake without its prefix is logged; the connection stays up and nothing reads it |
| `ReadArmed` or `ClosedIsDown`, `"cut"` dropped | `peer` | `TcpClient.cpp:56`: the state is tested, and the connection asked for before may be made before the socket is closed and connected anew; the handler of the one goes on with the other |
| `ReadArmed`, `"late read"` dropped | `peer` | `TcpPeer.cpp:192`: a message of the last connection, handled when the next is made, begins a read on it |
| `CloseIsTold`, `"swept"` dropped | `peer` | `TcpPeerSet.h:165`: the sweep tells nobody |
| `Reconnects`, `"resolve"` dropped | `client` | `TcpConnector.cpp:63`: a host name that is not found throws in the io thread, which ends |
| `SessionsCurrent`, `"late"` dropped | `client` | `DispatchServer.cpp:84`: an answer handled after `on_close()` enters a session of the lost connection |
| `SessionsCurrent`, `"stale close"` dropped | `client` | `TcpSession.cpp:47`: a `TcpSession` copied from an earlier connection closes the session that has its id now |
| `Balanced`, `"wrap"` dropped | `client` | `TcpClient.ipp:52`: a `uint16_t` counts the connects; at 65536 the busiest address looks unused |
| `BothLocked`, without `known` | `subs` | `Subscription.h:266`, `:374`: `unsubscribe_all()` and `clear()` lock for one node and erase the one that is first by then |
| `SubscribedOnce` | `subs`, 5 nodes, two threads that subscribe | `Subscription.h:334`: the test and the insertion are two sections |
| `DecodedAsSent` | `framing`, `Sessions <- BothProtocols` | `WebSocketProtocol.h:559`: the option says that the message has a session id (`Protocol.h:85`), but the encoder writes none and the decoder reads none |
| `DecodedAsSent` | `framing`, `Logins = {"req4"}` | `Protocol.h:166`, `TcpClient.cpp:242`: both sizes of request data are set, the encoder prefers four bytes, and the session's key is cut |
| `Framed` | `framing`, `Payloads = {65536}` | `TcpProtocol.h:116`: the size wraps; `WebSocketProtocol.h:304`: a head of 127 is refused, as it is longer than what is read first |
| `HeartbeatsReturned` | `framing` | `TcpPeer.cpp:158`: `strncpy()` stops at the zero a websocket heartbeat begins with, so the server does not know it for one |
| `ErasedWithEvent` | `topics` | `TopicServer.h:140`: a subscription made after the topic was taken out of the map ends with no event |

So the passing runs state what the code has *until* a fault that they name, or *under* a condition (one connection per
io thread, sizes below 65536, no topic erased, ...), and this table what happens otherwise. Each fault was seen to be needed: with its name left out of a
property, TLC finds a counterexample in the same run. Not stated as a
property: a websocket handshake longer than its buffer (`TcpConnector.cpp:157`)
makes the io thread read nothing over and over.

## 5. The proofs

Checked by TLAPS for every number of threads, calls, connections, subscribers
and contents, every capacity and size; the bounds of the runs are constants
without a value. Assumed are only the named `ASSUME`s of the modules: sets of
threads, subscribers and keys finite, capacity positive, a pack fits the logger's
capacity, "none" values are nothing else. Few theorems have a hypothesis, each named below, and the runs of section 3 have the same setting.
The properties of `TcpServer`, `TcpPeer` and `TcpClient` hold until one of the faults they name has happened, and are proved so:
for every interleaving, and every environment, up to there.

Few of the properties are inductive. Each module of proofs begins with the
strengthening that is, `IInv`, as a conjunction of named parts with a comment each,
then has one lemma per step or group of steps, then `Inductive` and the
theorems. Every `IInv` was checked by TLC as an invariant of the run of its
model before it was proved.

`MessageServerProofs`:
- `TypeCorrect`. `TypeOK` is inductive as it stands, as it says who may be in a wait set.
- `QueueIsBounded`. `is_full()` tests `size() == capacity`, so the bound is an
  invariant only because no other step adds: inductive with `TypeOK`.
- `MessagesAreNotStranded`. With `TypeOK`, `NoStrandedMessage` is inductive: it counts.
  A post adds one message and, when somebody sleeps, one worker awake; a take
  removes one message and one worker awake; a worker goes to sleep only on an
  empty queue. That each `notify_one` is enough follows from the counting, which
  is why the property is an inequality of cardinalities.
- `PostersAreNotStranded`. The same on the full side, with `CapacityBound`, for an owner that does
  not release a closed queue (`~ReleaseWhenClosed`).
- `MessagesOnce`. A message is carried, queued, held by a worker, or past.
  `ExactlyOnce` is inductive with `TypeOK` and `Numbered`: what a producer has yet
  to send is in none of these places, and what it carries is its own.
- `ServerImplementsChannel`. `Spec => ChannelSpec`: every step of the server is a
  `Put`, `Overwrite`, `Take` or `Discard` of the abstract channel, or leaves it
  unchanged. It rests on the type and capacity invariants.

`LogQueueProofs`:
- `LogTypeCorrect`, `PacksAccountedFor`, `LoggersAreNotStranded`. The
  conjunction of `TypeOK`, `PackAccounting` and `NoStrandedLogger` is inductive
  (`LogStep`). The lemmas say what `move_avail`, `append`, `Fill`, `PopLoop` and
  `recycle_avail` do to the number of packs.
- `LogNeverRewritten`, an action property. `TextsOf` folds over the packs; what it
  is of one list behind another is enough, so no induction is needed. It uses that spare packs are empty.
- `StopHasWritten`, if nothing is logged once the queue is closed
  (`~PostAfterClose`). `Quiet`: once the queue is closed nobody is inside `post()`, the
  worker left only with nothing handed over to it, and `stop()` returned only after the worker left.

`ClientRequestProofs`: `TypeCorrect`, `FinishedAtMostOnce`, `NothingLeaks`,
`OkIsAnswered`, without a hypothesis. Two calls may read the same request id, so what holds
is about ids and not about calls: an entry is waited for by a caller that read its id
(`EntriesWaitedFor`), one that the dispatcher has popped is the dispatcher's (`DispatcherOwns`), a monitor
in the table is unfinished, and a packet carries the id of its request.

`TcpServerProofs`: `TypeCorrect`, `NoIdIsLost`, `SessionsGoAlong`, `LimitIsNear`, without a hypothesis, for any number
of connections and business threads. An id is in one place: the stack of free ones, the
map, a thread between the two, the push of `clear_conn_session()` under way;
`OnePlace` and `NoDoubles` say so for all of them at once, until `"lost"` or `"twice"`. `Accounted` says of each session that
it is owned: indexed and its connection open or about to be cleared, or with a thread that is
about to index it; `ErasedIsGone`, that what a `clear_conn_session()` under way has erased is no session of its connection again, but one about to be indexed.
`RoomInv` counts: sessions, and threads that passed the test of the limit, are together no more than the limit and all threads but one.

`TopicServerProofs`: `TypeCorrect`, `SubscribersInStep`, `SubscribersUpToDate`,
`NoneToldAfterwards`, `NewsIsPosted`, without a hypothesis, for all four kinds of topic.
`InStep` relates what a subscription was told, what the walk under way has yet to tell it, and
`m_snap` and `m_new`: the three together are the contents since its snapshot.

`TcpPeerProofs`: `TypeCorrect`, `OneReadArmed`, `DownWhenClosed`, `ClosesAreTold`, without a hypothesis, for any number of
threads that send, handle messages, connect and sweep at any step. `ClosesAreTold` is of servers, and of clients until `"cut"` as
well; that a client's property survives `"cut"` is only model-checked. `Path` is every sequence of operations a thread may have left to do, `IoPlace` the names of
the io thread's; `Doing` says that each thread is on one of its own, `Shape` what socket and set of peers are like whatever has happened. `InvAt(n)` says, with the io thread at `n`, what state word, socket, reads and
completions may be, and has a part each for servers (`OfServer`), clients (`OfClient`) and reads (`OfReads`), as the properties, which speak of a
peer at rest, are broken in between. The part on clients holds until `"update lost"` or `"cut"` (`Kept`), the part on reads (`KeptReads`) until one of
the faults that `ReadArmed` names, the part on servers, which is of no bit of the state, always. As long as that has not happened the last access of
`Atomic::load()` leaves in the word what the operator was to make of it, whatever came between. The lemmas on
`Bits` say what `operator|=` and `&=` make of a word.

`TcpClientProofs`: `TypeCorrect`, `LoginsAreMade`, `SessionsAreOfThisConnection` and `AddressesUsedEvenly`, without a
hypothesis. `LoggedIn` is inductive with the types, as a login is stored before it is sent and `on_connect` sends all there are.
`SessionInv` adds to `SessionsCurrent` what holds between `on_close` and the next connection, and that an answer of this connection on its way (`Agreed`, `HandledWell`)
is for a session the server has. `AddressesUsedEvenly` needs that a set of numbers has a least
one: induction, stated with a set instead of a predicate (`Induction`).

`SubscriptionProofs`: `Soundness`, `ListsAlwaysAgree`, `PublisherMeetsSubscribed`, `LinkedUnderBothLocks`,
`CallsGiveBack`, `TypesHold`, for any number of topics, subscribers, nodes, threads and calls, and for
mutexes anywhere in memory, if one thread at most publishes, clears and erases topics (`OnePublisher`):
`TopicServer` has one publish thread, and in the runs only `p` does so. The theorems need it:
`OrderRelock` may give the topic's mutex back in the middle of `clear()`, when the list begins at a local
variable of the clearing thread and not at the topic's head. They say what holds, as the
properties do, until one of the two known faults comes to pass (`known = {}`): a node linked behind one
that was erased (`topic_tail`), and a loop that erases another node than the one it locked for.
- `Sound` is the strengthening, and `IInv` is `known = {} => Sound`. `Linked`: from its first cell, a topic's head or
  the clearing thread's variable (`First`), each list leads to exactly the nodes that name the topic, or
  the subscriber, and each of them knows the cell that leads to it. `Place`: what a thread has yet
  to do is one of the rests its calls can leave, and it holds each mutex exactly as often as that rest
  says; `Erases` lists the six places on the way through `OrderRelock`. `ErasersKnown`: a local variable in a
  node's `m_erasing_nodes` leads to that node, and its thread is about to erase it. `Room`: there is a node
  for every thread that is to link one.
- The lemmas on lists (`ListRemoved`, `ListInserted`, `ListMoved`, `Reserved`, `Unsubscribed`) say what inserting at the tail or the
  head, and unlinking, do to a list given by its cells; since `Chain` is the least closed set, no induction
  over a list is needed. `EveryStep` puts the steps together.
- `AtFirstIs` is by induction on the number of subscriptions made at first, stated with a set.
- That a call ends with no mutex left (`CallsGiveBack`) follows from `Place`. That it does end is
  `CallsReturn`, which is liveness and stays with TLC.

Only model-checked:
- all liveness: fairness is out of the prover's reach;
- `Framing`, which uses the bitwise operators of `Codecs`, for which there is no prover.

## 6. What is not modelled

- Abstracted: what messages, texts and contents say; logging; statistics; real
  time (a time-out may come at any moment).
- In a modelled part: asynchronous client calls (`async`), which are `send`s with a handler;
  exceptions of sinks; several topics in one server, but for their locks; a bounded publish
  queue (`clear_topic()` would post to it under the mutex of the topics); the reference counts of subscriptions;
  `set_capacity()` on a queue in use; `TopicServer::remove()`, which changes a published timestamp without the mutex; bodies of messages, checksums and ciphers.
- Undefined behaviour of containers changed without their mutex
  (`TcpPeerSet::clear`): a step is taken whole.
- Not at all: see the components with status `not_modelled` in `PROJECT.json`,
  each with its reason. They are libraries, generated code, conversions and
  single-threaded code, and the parts of the plan below.

## 7. The plan

In order of importance; all but 9 are done.

1. `MessageQueue`, `MessageServer`, `Channel`: everything runs on them. With proofs.
2. `LogQueue`: memory and text in motion. With proofs.
3. `ClientRequest`, `TcpServer`: calls, connections, sessions. With proofs.
4. `TopicServer`: publish and subscribe on one topic, of all four kinds. With proofs.
5. `Subscription`: the node in two lists, `OrderLock` and `OrderRelock`. With proofs.
6. `TcpState`, `TcpPeer`: state bits, handshake, reads, close. With proofs.
7. `TcpClient`: connect, reconnect, the load balancer, sessions after a reconnect. With proofs.
8. `Codecs`, `Framing`: what both ends say to each other.
9. `Monitor` in full, `AutoRef`, `Timer`, the start and stop of `WorkerPool`, `FileSink`'s roll.
10. Theorems about all of these but `Framing`. Done.

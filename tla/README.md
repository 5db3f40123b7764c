# A verification of ylars

TLA+ models of ylars, a service of remote load balancing: agents on every
machine answer "which host shall I call for <modid, cmdid>?", a dns server tells
the agents which hosts there are, a reporter stores how calls went. The models
are translated from the sources; each definition that stands for code names its
lines in `PROJECT.json` under `map`.

## The system

| part | source | state | operations | interacts by |
|---|---|---|---|---|
| load balancer of a route | `ylars_lb_agent`: `load_balance`, `host_info` | `_host_map`, `_idle_list`, `_overload_list`, `_access_cnt`; counters, flag and times of each host | `update`, `choice_one_host`, `get_all_host`, `report`, `commit`, `pull` | calls under the mutex of its `route_lb`; queues to the two clients |
| routes | `route_lb` (three, by `(modid + cmdid) % 3`) | `_route_map` | `get_host`, `get_route`, `report_host`, `update_host` | three udp threads and the dns client thread |
| dns client, report client | `agent_dns_client`, `agent_report_client` | a `thread_queue`, a `tcp_client` | task callback, response callback, connection hook | tcp to the dns server and the reporter |
| udp servers of the agent | `agent_server`, `udp_server` | `agent_routes`, `_cli_addr` | three request callbacks, thread start | udp from the api |
| reactor: thread queue | `thread_queue.h` | `_tasks`, the eventfd | `send_task`, `recv_tasks`, `set_event_loop`, `set_task_cb` | any thread to one event loop |
| reactor: tcp server, thread pool | `tcp_server`, `thread_pool`, `tcp_conn` | `conns`, `_rel_conns`, `_isactivate`, `_activatefd`, `_polling`, the queues of the workers | `do_accept`, `deal_task`, `increase_conn`, `decrease_conn`, `do_release`, the life of a `tcp_conn` | accept thread and workers |
| reactor: event loop | `event_loop` | `_lfds`, `_io_evns`, the interest of epoll, a batch of events | `add_event`, `del_event`, `start_process` | callbacks |
| reactor: tcp client | `tcp_client` | `_sockfd`, `ibuf`, `obuf`, the hooks | `connect_ser`, `send_msg`, `do_read`, `do_write`, `clean` | its event loop; tcp |
| reactor: buffers | `buf_pool`, `io_buf`, `reactor_buf` | free pieces of each class, `_curr_cap`; a piece for each buffer | `alloc_buf`, `release`, `readfd`, `send_data`, `write2fd`, `pop`, `adjust`, `clear` | all threads share the pool |
| reactor: udp client, configuration | `udp_client`, `config_file` | | | used by nobody; read at start |
| dns server | `dns_router`, `subscribe`, `dns_service` | two route maps, `_version`, `_book_list`, `_push_list`, the mods of a connection | `check_version`, `build_map`, `swap`, `load_change_mod`, `drop_synchronous_mod`, `subscribe`, `publish`, `get_req`, `publish_change_task` | the database; the publishing thread; workers |
| reporter | `ylars_reporter`, `thread_report`, `store_report` | a queue for each database thread, an index | `deal_report`, `report2db` | tcp from agents; upserts |
| client api | `ylars_api` | sockets, a sequence number | `get_host`, `get_route`, `report` | blocking udp to the agent |

What is hard in it, and what would be right:

* **Load balancer.** One fact (is the host overloaded?) is kept in a flag and in
  two lists; four pairs of counters decide about it; one access counter divides
  the requests between two lists. Right: lists, flag and counters agree after any
  calls; a switch happens when the counters call for it and only then; no host is
  starved of requests or probes; a request is answered by a host there is.
* **Threads and queues.** Right: no lost wake-up, no loss, order.
* **Life of a connection.** Three threads touch it and its descriptor number is
  used again. Right: one owner at any time, registered exactly while served,
  released when closed, no more of them than allowed.
* **Agent and dns server.** Pulls, answers, pushes, erasures, a server that
  subscribes before it reads, a link that is never re-opened. Right: no route
  waits for nothing; no route keeps what the server has replaced.
* **Publishing changes.** A thread that polls versions, two maps that are
  swapped, a change table that is emptied, queries that fail. Right: each recorded
  change reaches each subscriber; what was not published is not deleted.
* **Connections.** Messages in a stream of bytes, non-blocking sockets, write interest
  that comes and goes. Right: whole messages, in order, delivered if accepted; a close is
  noticed at the other end.
* **Event loop and client threads.** A callback changes the tables by which the rest of its
  batch is dealt with; every callback is passed the descriptor of the first event. Right: the
  tables agree; no event meets a callback that is not its own; a task leaves by the socket.
* **Buffers.** Pieces go from one thread to another through a pool with a limit. Right: each
  piece has one place; growth loses no byte.
* **Api and reporter.** Answers get lost or stay behind in a socket; reports overtake each
  other; a counter without a lock. Right: an answer is one to the question; a caller comes
  back; what was committed is stored, and old over new only between two threads.

The hazards are listed with their lines in `PROJECT.json`.

## The modules

| module | what it is |
|---|---|
| `HostPool` | what a load balancer promises, without lists, counters and times |
| `Lists` | `std::list` as the agent uses it |
| `LoadBalance`, `LoadBalance_proofs`, `MCLoadBalance` | the load balancer; its proofs and the facts about lists they rest on; its instances |
| `TaskChannel` | a FIFO channel that delivers: what a thread queue promises |
| `ThreadQueue` | the thread queue |
| `EventLoop` | the tables of an event loop and its batches |
| `ClientThread`, `ClientThread_proofs`, `MCClientThread` | `EventLoop` and `ThreadQueue` with a `tcp_client`: a client thread of the agent; the proofs about it and its queue |
| `BufPool`, `BufPool_proofs`, `MCBufPool` | the pool of buffers and the buffers of connections |
| `TcpServer`, `TcpServer_proofs`, `MCTcpServer` | accept thread, workers and connections |
| `TcpConnection`, `TcpConnection_proofs`, `MCTcpConnection` | a `tcp_client` and a `tcp_conn`, and the stream of messages between them |
| `AgentRoute`, `AgentRoute_proofs`, `MCAgentRoute` | the routes of an agent, its dns client, and the dns server as the agent sees it |
| `ApiCall` | the client api and the udp servers of the agent |
| `Reporter` | workers that deal reports out, database threads that store them |
| `CallPath`, `CallPath_proofs`, `MCCallPath` | `ApiCall` and `Reporter` with the report client between them: from a call to a row |
| `DnsPublish`, `DnsPublish_proofs`, `MCDnsPublish` | the dns server: publishing thread, router, subscriptions, workers |

Operators introduced by a comment "Mutant" are the definition that follows with a
bug planted in it. Nothing uses them in a specification: each is there to show that
some property would notice (`mutants` in `PROJECT.json`).

### LoadBalance

A step is one call, since all calls hold `_route_mutex`. `Update(remote)` is
`update` with a response that names the hosts `remote`; `ChoiceNone`,
`ChoiceOverload`, `ChoiceProbe` and `ChoiceIdle` are the four ways through
`choice_one_host`, each with the list rotated by `get_host_from_list`;
`Report(h, is_succ)` is `report`: counting, judging, the move between the lists
and the timeout, in the order of the code. `Erase` is `update_host` with an empty
response, which destroys the object. `commit` and `get_all_host` read only. Times
are ages that stop at the timeout, because the code asks of a time only whether it
has come to the timeout; `Tick` is a second. A rate is compared as
`part * 100 >= rate * all`, in integers, where the code divides doubles.

### ThreadQueue

`SendTask` and `RecvTasks` are the two critical sections; the event loop waits,
calls, deals with the tasks one by one and returns. `SetTaskCb` attaches the queue to
the loop at any time, as the clients of the agent do once their connection is up.
`ClientThread` is where it runs.

### EventLoop and ClientThread

`EventLoop` has the three tables of an `event_loop` (`_io_evns`, `_lfds`, what epoll keeps)
as one record, and `add_event` and `del_event` as operators on it, since a callback calls
several of them. `Wait` is an `epoll_wait` that returns: every descriptor with an event, in
any order; `Handler` is the choice of `start_process` between the two callbacks. An event
that asks for nothing a callback is there for is not lost silently: it is what `FreshBatch`
excludes.

`ClientThread` is the thread of `dns_client` and `report_client`: the constructor of
`tcp_client` with its three outcomes (a `connect` that succeeds at once runs `connect_ser`
before the hook is registered, so the queue is never attached), `connect_ser` with the
descriptor that the loop passes, the hook that attaches the queue, the task callback,
`send_msg`, `do_read`, `do_write` and `clean`. After `clean` the queue stays attached:
tasks go to the buffer of a client whose descriptor is -1, and -1 is entered into the
tables, which epoll refuses. Messages are whole here; their bytes are in `TcpConnection`.

### BufPool

`mem` is the memory: every `io_buf` there is, the free list of each class and `_curr_cap`.
`Made` lists the classes of the `io_buf`s the constructor makes; one that would exceed the
limit is not made, and so not in `Made`.
A buffer that outgrows its piece is cut in two steps, `PutGrows` (the larger piece is
taken, under the mutex, and filled) and `Swap` (the old one is released): other threads
come between. A length beyond the largest class gets the smallest (`GetMemLen`), whereupon
`copy()` brings nothing (`beyond`); a pool at its limit refuses, which for a buffer that has
a piece already ends in a null pointer (`crashed`), because the test looks at the old
piece. `readfd` when nothing is there to be read is left out: the end of a stream.

### ApiCall, Reporter and CallPath

A caller is a `ylars_api` object: one socket, connected anew by each call to the port of
its mod, blocking, without a timeout. A call is a sending and a receiving step; datagrams
may be lost on both ways (`Loses`), `recvfrom` may fail (`RecvFails`), answers from the port
of an earlier call are dropped by the kernel. The udp servers take a datagram and run its
callback in one step, as `do_read` does, with one `_cli_addr` for all. A route is its mod and
the update that made it what it is, so that an answer can be told from one that is older.

`Reporter` cuts `deal_report` where `index` is read and written: two workers in it at once
may use an element past the queues (`crashed`). A database thread stores a report row by row,
each row the upsert of `report2db`; a query that fails is forgotten.

`CallPath` joins the two: `report_req_cb` counts and commits, the report client carries,
`deal_report` deals. Rows belong to a mod and a host and not to an agent, as every agent
says it is caller 123 (`load_balance.cpp:259`).

### TcpServer

The accept thread is in its loop or somewhere in `do_release` (variable `release`);
each worker is in its loop, between taking tasks and being through with them, between
`new tcp_conn` and `increase_conn`, or between `del_event` and `decrease_conn`. The
steps are cut at the locks. The queue of a worker is a sequence, which is what
`ThreadQueue` shows it to be. A connection that is refused leaves no trace.

### TcpConnection

Two ends, `client` and `conn`, each with its buffers (`obuf`, `ibuf`), the events its
loop watches (`mask`) and a `phase`; `wire[e]` is what the kernels hold of what `e` has
written. A byte says of which message it is and where in it, so that a cut in the wrong
place, or a byte too few, is seen. `DoWrite` is `do_write` up to an empty buffer or a
full socket; `do_read` is `Read` (any part of what is under way may have arrived), a
`Dispatch` for each message, with or without an answer from the callback, and `EndRead`.
The peer's steps fall between these, as they do between system calls. An end whose peer
has closed reads the rest, or, after a reset, loses it. While the client connects,
EPOLLOUT belongs to `connect_ser`. `send_msg` with nothing to send leaves its header in
the buffer and fails, as in the code. `sent` and `got` are histories. Buffers grow as
needed (`BufPool` has their limits); a `connect` that succeeds at once, and `send_msg` on a
client after its `clean`, are in `ClientThread`.

### AgentRoute

`route_lb` operations are single steps (one mutex). The dns server is in four
steps: `Subscribe` and `Answer` are the two halves of `get_req`, `Publish` runs in the
publishing thread, `Push` in the loop that also runs `get_req`. `Change` swaps in a
new map, with a publication to follow or, as the forced reload does it, without.

### DnsPublish

The publishing thread's place is `pc`; each query and each critical section of it is
a step. A worker is in at most one callback (`at`), which is cut at its locks in the
same way. `Commit` is the one who keeps the tables: changes come as transactions with
or without a row in `RouteChange`. A query may fail at any place where the code looks at
its result, and two changes may have the same version (versions are seconds): both
count as `faults`. `silent` records who missed a change that nothing will ever publish:
one that a forced reload brings, or an addition without a row in `RouteChange`.

## The runs

| run | instance | what it shows |
|---|---|---|
| `load_balance` | 2 hosts, rates 60%, limits 2, `probe_num` 2, timeouts 1, 4 reports between resets | types; lists partition the hosts; counters keep their head start; no verdict is overdue; no switch comes early; `HostPool` is implemented; idle hosts are served; overloaded ones come back, by being probed and reported |
| `client_thread` | 2 tasks, 3 sends, a socket of one message | no lost wake-up, with the queue attached late; `TaskChannel` is implemented, with its liveness; the tables agree; no stale event; what was dealt is written, in order; nothing waits for good |
| `tcp_server` | 3 descriptors, 2 workers, `maxConn` 2 | one holder of a descriptor; registration; the release flag; accepted connections get served; a release that was not signalled is made up for by the next close |
| `tcp_server_release` | 2 descriptors | **violated**: a close during `do_release` is not signalled |
| `tcp_server_max_conn` | `maxConn` 1 | **violated**: more connections than `maxConn` |
| `tcp_connection` | headers of 2 bytes, data of 0 to 2, sockets of 4, 2 messages each way | order and wholeness; no byte lost on the way; what was accepted is watched, and delivered; a close is noticed |
| `tcp_connection_limit` | 1 message each way | **violated**: a message within `MSG_MAX_LIMIT` is abnormal to a client |
| `agent_route` | 2 routes, 1 host that comes and goes, 2 changes, 4 messages | a pull or its answer is always under way; agent and server agree unless news are under way or were never sent; the agent converges while the connection lasts |
| `dns_publish` | 1 mod, 1 host, 2 workers, 1 descriptor, 2 changes, 1 fault | subscriptions and their mirror agree; every recorded change is on its way to every subscriber; subscribers end up with what the tables say |
| `buf_pool` | an input and an output buffer, classes of 1, 2 and 4 units with one piece each, a limit of 9, 6 units to each buffer | each piece has one place; the account is right and within the limit; a buffer holds what came; data are at the head when asserted |
| `call_path` | 2 callers, 2 mods on 2 ports, 2 hosts, 2 workers, 2 database threads; five budgets of calls and failures | answers are to the call that returns them; leftovers come of failed receives alone; calls return unless a datagram is lost; a row is the last of some database thread; what was committed comes to its queries |
| `dns_drop` | 1 mod, 1 fault | **violated**: change rows that were never read are deleted |

**Why the bounds are enough.** Limits of two let each rule of the load balancer (rate, run,
timeout) decide alone; four reports between two resets reach every threshold, and the
bound never holds back the report that resets. Two hosts are what its liveness allows; that
longer lists bring nothing new is what the proofs show, for any number of hosts. Two
workers and a third descriptor let a number be used again while another connection is
half way through either worker. One descriptor suffices for reuse in `DnsPublish`, as it
may come back at the other worker with entries of the old connection left in
`_push_list`. Two changes allow one to be committed at every point of publishing
another. One host is enough in `AgentRoute`: its map of a route is never looked into, and
what is one change behind differs from what is current. `MaxInFlight` exceeds what one
round of pulls, answers and pushes needs. In `TcpConnection` a socket holds less than
two messages, so writes and reads stop at each place of a message, and the second
message of an end follows on the first in one read, or in two. `MaxSent` bounds the
messages; a peer that never stops sending would keep the other from writing. In
`ClientThread` one task can wait in the queue, one in the buffer and one in the socket at
once. In `BufPool` six units take a buffer through all classes and past the largest, and
two buffers exhaust the limit together. The budgets of `CallPath` each let one kind of
trouble meet another: three gets with two failures (an answer left over for two later
calls), updates between the sending and the answer, two reports with a failing query or
with another agent's report in between. The wrap of `check_seq` at 2^32 is not reached.

**Fairness.** Threads in their event loops run on: weak fairness on their steps.
Where a thread chooses between callbacks, the one in question gets strong fairness,
since `epoll_wait` returns all that is ready and the loop takes each in turn
(`Clean` in `TcpServer`, `MakePublishMap` in `DnsPublish`, `Push` in `AgentRoute`).
In `LoadBalance`, callers go on asking; a host that is given out again and again has
its calls reported again and again, and one that is not given out is owed nothing:
an overloaded host comes back through its probes alone. In `TcpConnection`
the loops run, the server accepts, and a connection attempt ends; whether a callback sends
or disconnects is its own affair. In `AgentRoute` callers go on
asking for each route, which the pull on old data depends on; strong, because the bound on
messages in flight may hold the call back for a while. Clients, the database and
the network owe nothing: links need not come up and nobody has to close.
In `ClientThread` the thread runs on (`Thread`), an attempt to connect ends (`Handshake`) and
the server reads (`ServerTakes`); that it ever sends, closes or accepts is not assumed. In
`CallPath` weak fairness of `Work` as a whole is enough: whatever the threads have at hand ends.
`ReleasedByNextClose` and `EverySubscriberUpToDate` state what they need of the
environment themselves.

**Findings.** (1) `do_release` (`tcp_server.cpp:239-261`) resets the eventfd after
it has let go of the lock under which it found the queue empty. (2) `do_accept`
(`tcp_server.cpp:184`) counts registered connections only. (3) `changet_publish`
(`subscribe.cpp:200-204`) deletes the change rows whether or not they were read.
(4) `tcp_client` (`tcp_client.cpp:171`) compares the length of a message with
`_SC_NL_MSGMAX`, which is 121 with glibc, where all others compare with `MSG_MAX_LIMIT`:
an answer that names ten hosts ends the agent's connection, and nothing opens it again.
The traces are those of the violation runs. What remains true next to the first
one is in the run `tcp_server`: a later close makes up for it.

**Worth knowing**, without a statement of the repository that it contradicts.
`get_route` has no sequence number: after a receive that failed, it may return the answer to
an older call, and when `get_host` and `get_route` of one object alternate, each may go on
finding the other's answer and fail (`AnswersThisCall` leaves out `get_route` after a
failure; `LeftOverByFailures` says that nothing else can bring it about). An older report
overwrites a newer one if the two went to different database threads, or came from
different agents (`RowIsSomeonesLast` says only then). A pool at its limit makes `send_data`
and `readfd` use a null pointer, and a buffer beyond the largest class loses its bytes.

## What is proved

Every safety property of the passing runs is a theorem, for all values of the constants, each
from an invariant that TLC had looked at first. The assumptions on
constants are the named ones of the modules (`ConfigAssumption`, `ApiAssumption`, ...), which
every run evaluates.

**Load balancer** (`LoadBalance_proofs`; any finite set of hosts, any configuration):
`TypeOK`, `ListsPartitionHosts`, `VirtualCountsMatch`, `VerdictsCurrent`, `NoHastySwitch`, and
that `LoadBalance` implements `HostPool`. The inductive invariant is the type with the
partition: removal by `Without` takes a host from the list its flag names, so the type alone,
or the partition of one list alone, would not be kept by `Update` and `Report`. The verdicts
need the counters with them, and `NoHastySwitch` follows from both: what the virtual counters
say at a switch is what the real ones plus the head start say. The facts about lists are
proved from the definitions: `Without` keeps order, elements and distinctness, which rests on
the increasing enumeration of a finite set of numbers existing.

**Thread queue** (`ClientThread_proofs`; any tasks, any number of sends): `NoLostWakeup`, from
itself with the type, and that every step of a thread queue is a step of the FIFO channel or
none.

**Client thread** (`ClientThread_proofs`; any tasks, descriptors, sizes of sockets):
`TablesAgree`, from one lemma for each of `add_event` and the two `del_event`, with the shape
of the tables as the strengthening (what is registered has a mask of events there are, and a
callback for each); `NoLostWakeup` and the channel for the queue as the client thread uses it,
since each of its steps is one of `ThreadQueue` or none. `FreshBatch` and `DealtIsUnderWay`
need each other and three facts more: what the tables have of the two descriptors in each
phase (`Shape`), that a descriptor is in a batch once, with events it has a callback for
(`Batch`), and that nothing was dealt before the queue is attached and the buffers are empty
until the client is up (`Buffers`). The point of the proof is `connect_ser`: it is called with the
descriptor of the first event of the batch, and that is its own only because nothing else can
be in a batch as long as the client connects.

**Buffers** (`BufPool_proofs`; any buffers, classes, pool, limit and lengths): `OnePlace`,
`CapacityCounted`, `HoldsWhatCame` and `DataAtHead`. The invariant speaks of no cardinalities.
`Kept` says of the pool and the set of pieces in use that the free lists hold, clean, once and
in the list of their class, just the pieces that are not in use; a lemma for each operation of
the pool (`TakeFree`, `MakeNew`, `GiveBack`, `ChangeUsed`) says how it changes that set.
`Owners` says that a piece in use has one user, and `Contents` what it holds: the bytes from
`gone` to `came`, with room for those that a growth waits to add. `OnePlace`, whose places are
counted, follows at the end, with an injection for the length of a free list. What `io_buf`s
hold together is a recursive function: that a piece more adds its capacity, and that nothing
else matters, is proved by the least index at which two such functions differ.

**Connection** (`TcpConnection_proofs`; any messages, limits, sockets): `StreamIntact` and
`WriteWatched`, from one invariant with the type and two facts about the other state: a server
that has not accepted has nothing to write (else accepting, which sets its mask to reading,
could break `WriteWatched`), and only an open end is inside `do_read`. Each step that moves
bytes from one buffer to the next cuts a sequence in two (`Cut`) and shifts a bracket
(`Move`). `InOrder` does not follow from these, for `StreamIntact` stops where an end closes,
and the other end still reads. `Ordered` says what remains: what an end has taken, with what
is in its input buffer and on the wire while it is in use, begins what the other has sent; that
consists of whole messages, and what was taken ends with one. So the input buffer starts with
a header whenever `do_read` looks for one.

**Server** (`TcpServer_proofs`; any number of workers and descriptors): `TypeOK`, by which the
turn of the workers always names a queue there is; `ActivationAgrees`, inductive with it;
`OneHolder` and `Registered`, which need each other: `decrease_conn` passes on what it finds
in `conns`, and may only because no other worker serves that descriptor. The proof counts no
holders: it follows a relation (`At`) of descriptors and places.

**Agent and dns server** (`AgentRoute_proofs`; any mods, hosts, bounds): `PullOutstanding`, as
each step hands on where the answer can still come from (`Pending`); `AgentInSync`, from
`Synced`: until the link goes down, the last answer on its way for a mod that is not unsettled
(changed, to be pushed, or silent) is the server's state, and without one what the agent holds
is. The two halves are one fact, since an answer becomes what the agent holds; and `Known`,
that only what was subscribed to is held or on its way, since a change of a mod without
subscribers is pushed to nobody.

**Dns server** (`DnsPublish_proofs`; any mods, hosts, descriptors, workers, changes, faults):
the type and `SubscriptionsAgree`. It needs `ClosesItsOwn`, that a worker that closes a
connection has it in its own loop and cancels nothing the connection has not subscribed to:
else a second worker could take the number half way through. `SubscriberInformed` names the
three places where news of a mod can be (a callback, a push list that will be looked at, the
publishing thread with the rows it will read); what it needs is that the thread leaves no row
behind that it has passed over (`RowsAhead`).

**Calls and reports** (`CallPath_proofs`; any callers, mods, ports, workers, threads, hosts,
budgets): `LeftOverByFailures`, from a balance: the answers that are owed to a caller, in a
mailbox or its socket, are no more than its failed receives and the call it waits for
(`Owing`). `AnswersThisCall`, with that balance, as a `get_route` is safe from old answers
only because there are none without a failure; the numbers of `get_host` are below `check_seq`
(`Numbered`), and what an answer of this call brings fits its route (`Answered`).
`RowIsSomeonesLast`, from `Once`, that no report is ever dealt twice (else a row's own report
would be unstored again), and `Queues`, that a queue is the end of what its thread was given.

The proofs cover safety. Only model-checked: liveness under fairness, which the provers cannot
state, and so the last part of `ImplementsTaskChannel`; and what the runs that expect a
violation show. `TypeOK` of `ThreadQueue`, `TcpConnection`, `DnsPublish` and `BufPool` is part
of a proved invariant and not asked of a run.

## What is not modelled, and the plan

Not modelled: configuration files (parsed once, before there is a second thread), process
start, `udp_client` (no program uses it), the single-threaded tcp server, the protobuf encoding,
mysql itself, the table of message callbacks (filled at start), the start of the agent's udp
threads (a race on a vector, without outcomes to enumerate), what the counters of a report
say. Three quarters of the repository's lines are vendored headers of mysql and code that
protobuf generates (`src/base`): they stand for no behaviour of this program.

Next: what the components promise each other, stated once more abstractly. A route of
`LoadBalance` is updated by what `AgentRoute` gets, and `CallPath` takes any answer of the
agent: an abstract agent that both implement would join the proofs.

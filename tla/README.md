# A verification development for AxProxy

AxProxy is a single-threaded SOCKS5 server in C: one process, one event loop,
no persistence. These TLA+ modules model all of its parts, TLC checks them on
small instances, and TLAPS proves every safety result for every size of the
stream pool, the buffers, the cache and the query budget, and for every packet,
hostname and listen address.

## 1. Inventory of the system

| Component | Source | State | Operations |
|---|---|---|---|
| Event loop | `src/src/util.c:1155-1202`, `src/src/proxy.c:351-478` | the walk's `iter` and `next` | `handle_streams_cycle`, `handle_stream_events`, `proxy_task` |
| Stream pool and list | `src/src/util.c:854-902`, `1017-1150` | `stream_pool`, `stream_head`, `stream_tail`, per stream `allocated`, `abandoned`, `prev`, `next` | `insert_stream`, `remove_stream`, `remove_relation`, `cleanup_streams`, `remove_pending_streams`, `force_cleanup` |
| Relation client - endpoint | `src/src/proxy.c:36-74`, `src/src/util.c:947-971` | `neighbour`, `level`, `events` of both | `setup_endpoint_stream`, `handle_forward_data`, the completion of `connect` |
| Event watching | `src/src/util.c:533-847` | `epoll_fd`, per stream `events`, `levents`, `revents`, `pollref`; the kernel's interest set | `watch_streams` by epoll, or by poll |
| SOCKS5 handshake | `src/src/proxy.c:79-346` | `level`, `queue` | greeting, credentials, request, reply |
| Data queue | `src/src/util.c:459-526` | 384 bytes and a length | push, set, shift, check |
| Sockets | `src/src/util.c:189-452` | descriptors | connect, listen, forward a chunk, close |
| Name server cache | `src/src/nscache.c` | 1024 records with an expiry | `nsaddr_cached` |
| DNS client | `src/lib/dns.c` | a query counter | `nsaddr` and its mutual recursion |
| Listen address parser | `src/src/util.c:13-139` | none | `ip_port_decode` |
| Startup | `src/src/startup.c` | arguments | `main` |

**How they interact.** `main` parses the address and calls `proxy_task`, which
makes the listen stream and runs `handle_streams_cycle` until it fails. A cycle
frees abandoned streams, waits for events, and walks the list; each ready
stream is handled to completion by ordinary calls. There are no threads,
callbacks or messages: all interaction is through the list and through the
`neighbour` pointers of a relation. A handshake may call the DNS client, which
blocks the loop.

**What is hard.** A handler may evict *another* stream and reuse its slot while
the walk holds a saved pointer to it, and while other streams hold neighbour
pointers to it. Events are reported once per cycle but a walk may come back to
a stream. Both sides of a relation write each other's `events`. Every system
call may fail, and some failures end the proxy. The order in which the two
sockets of a relation become ready decides what happens first.

**What makes each component correct.** List: a total order of exactly the
allocated slots; the saved successor is listed when used; the walk ends.
Relations: mutual, of opposite roles, abandoned together, forwarding together,
never unwatched on both sides. Listener: never evicted, always last. Watching:
the kernel's interest set agrees with `events`. Handshake: the reply precedes
forwarded data, the destination is the one that was asked for, whatever the
pieces the bytes come in. Cache: no answer older than its life. DNS client: the
budget bounds all queries and the stack, and the address is one of the host.
Parser: what is listened on is what was written. Startup: whatever fails, all
that was opened is closed, once.

The hazards are listed in `PROJECT.json`, each at its line, with the
properties that watch it, or the reason why none does.

## 2. Modules

| Module | What it is |
|---|---|
| `StreamPool` | slots and the order of the list, as operators on sets and functions |
| `StreamOrder` | what the list promises to the loop, without pointers: the abstract specification |
| `StreamList` | the doubly linked list and every loop over it, one iteration at a time; implements `StreamOrder` |
| `StreamListProofs` | facts about the order of `StreamPool`, and the proofs about `StreamList` |
| `ProxyLoop` | the event loop: state, one action per handler outcome, properties, inductive invariant |
| `ProxyLoopProofs` | the proofs about `ProxyLoop` |
| `EventWatch` | descriptors, and what epoll or poll is told about them |
| `EventWatchProofs` | the proofs about `EventWatch` |
| `ForwardRelation` | one relation from its grant to its end, with the bytes, the queued reply and the peers |
| `ForwardRelationProofs` | the proofs about `ForwardRelation` |
| `SocksHandshake` | one client with its bytes, from its greeting to the reply that grants its request, or to what is left of it once its relation forwards |
| `MCSocksHandshake` | eight clients, for TLC |
| `SocksHandshakeProofs` | the proofs about `SocksHandshake` |
| `AgedAnswers` | what the name server cache promises of its answers: the abstract specification |
| `NsCache` | the records of the cache, and the clock; implements `AgedAnswers` |
| `MCNsCache` | its symmetry, for TLC |
| `NsCacheProofs` | the proofs about `NsCache` |
| `DnsClient` | the recursion of a resolution, its budget and what it returns |
| `DnsNames` | the records of a packet and the compressed names in them, byte by byte |
| `DnsEncode` | the encoding of a hostname for a query |
| `MCDns` | messages and packets for TLC, and the three parts of the DNS client side by side |
| `DnsProofs` | the proofs about the three parts |
| `AddrParse` | the listen address, as operators: how a text is decoded, and what it stands for |
| `Startup` | a process from its command line to its exit; uses `AddrParse` |
| `MCStartup` | the texts, for TLC |
| `StartupProofs` | the proofs about `AddrParse` and `Startup` |

### `ProxyLoop` and the code

A stream is the slot of `stream_pool` it occupies, as pointers are in the code;
`0` is the null pointer. A reused slot is therefore indistinguishable from its
former stream, which is the point of the model. The fields `role`, `level`,
`neighbour`, `events`, `revents` are functions of the slot, `abandoned` a set
of slots, `live` the set of allocated slots, `queued` says whether
`stream->queue` holds bytes. The list is `live` with `after[s]`, the set of the
streams behind `s`; insertion is always at the head.

`pc` is the step of `handle_streams_cycle` that comes next:

* `cleanup` - `CleanupStreams` frees the abandoned streams;
* `watch` - `Watch` overwrites every `revents` and starts the walk at the head;
  `Idle` is the timeout, which removes every relation that is not forwarding;
  `WatchFails` ends the proxy;
* `walk` - one action for each outcome of handling `iter`;
* `done` - `proxy_task` has returned.

`Proceed` takes the successor of `iter` in the list *before* the step, as the
code does. `InsertStream(n, excl)` is `insert_stream`, with `force_cleanup` and
the second `insert_stream` when the pool is full: the slot evicted is then the
only free one, so the new stream takes it in the same step. Handlers run to
completion in the code and are one action here; the result of each system call
they make is a choice among the actions (`FlushQueue`, `FlushPart`,
`FlushFails`; `Accept`, `AcceptFails`; `Connect`, `ConnectIsSevere`,
`RefuseClient`; ...).

Abstractions. `POLLERR` and `POLLHUP` are one event, `"ERR"`, since the loop
tests them together and first. Free slots have blank fields: the code leaves
them as they were, and clears them before any use, except for the descriptor,
which it sets to -1: forwarding from a free slot fails, which is the guard
`neighbour[s] \in live` of `ForwardChunk`. Bytes are left out, so whether a
request is complete, valid or refused is a choice.

`reclaimed` and `overlap` are history variables: whether a stream was evicted
in this cycle, and whether some cycle evicted two. Nothing in the model depends
on them but properties.

The operators called *mistakes* in comments (`LinkLast`, `AcceptAll`,
`TryRecordAfresh`, ...) are plausible wrong versions of the definition that follows
them. No specification uses them; substituted for that definition, each makes
one of the checked properties fail, which shows that the property bites.

### `StreamList` and the code

`chain` holds `stream_head`, `stream_tail` and the `next` and `prev` of every
slot. `Inserted` and `Removed` are the assignments of `insert_stream` and
`remove_stream`; the pointers of a removed stream stay what they were, as in
the code. `pc` names the loop that runs and `iter` is its variable:

* `cleanup` - `cleanup_streams`: `CleanupRemoves`, `CleanupKeeps`, `CleanupEnds`;
* `watch` - `Watch` starts the walk, `Idle` is the timeout, with the marks of
  `remove_pending_streams`, `Fail` a negative status;
* `walk` - one action per iteration of `handle_streams_cycle`. What a handler
  does to the list is all that is left of it: nothing but a mark
  (`HandleOnly`), an insertion (`HandleInsert`), or a call of `force_cleanup`
  (`HandleNeedsSlot`), for which `saved` keeps the loop's `next`;
* `leftover`, `port` - the two loops of `force_cleanup` from the tail, with
  `seek` as their variable: `SeekOn`, `SeekPort`, and `Evict` with the
  insertion that follows it;
* `drain`, `done` - `remove_all_streams`.

Handlers may mark any slot: `StreamList` asks nothing of them, so that it holds
whatever the neighbour pointers are. `after` (the order in which the streams
were linked) and `due` (what a walk has yet to handle) are history variables.

`StreamOrder` has the same streams and order, and a walk at a `position`, but
no pointers, no loop inside `force_cleanup`, and frees abandoned streams in any
order: the oldest abandoned stream makes room, or else the oldest that is
neither the listener nor the stream that asks; a walk ends only when nothing is
due. `Phase` and `Position` are the mapping.

### `EventWatch` and the code

`backend` is chosen by `Init`, as `proxy_events_setup` does by whether an epoll
descriptor can be had. `live`, `fd`, `events`, `levents`, `pollref` and
`revents` are the fields of the slots, and here a free slot *keeps* what its
last stream left in it, since the question is whether anything stale is used.
`sock` is the local variable of a handler between the moment it opens a
descriptor and the one it gives it to a stream, or closes it.

The kernel is modelled from its use: `open` are the open descriptors, a new one
gets the lowest free number; `interest` says of each what is watched and which
pointer was registered with it, and closing a descriptor ends its registration.
The same variable stands for `poll_list`, which exists only during a watch, so
that `Append` fills it and `Return` or `WatchFails` empties it. `Refused` says
when `epoll_ctl` fails for the state of a registration (ADD of one that is
there, MOD and DEL of one that is not), or `poll_list` is full; a failure for
any other reason is `WatchFails`, which is always possible.

`watch_streams` is one action per stream (`Build`: `Register`, `Deregister`,
`UpToDate` for epoll, `Append` for poll), because a failure may come between
two of them, and `Wait` with the update of `revents`. The order in which the
list is built makes no difference, so it is any. Between two watches, `pc` is
`work`: handlers and cleanups are any sequence of the calls that matter here,
`SetEvents`, `Open`, `Reject`, `Insert`, `Remove`. This allows more than
`ProxyLoop` does (any stream may be evicted, the listener included, and any
events set), so that nothing here rests on the protocol.

### `ForwardRelation` and the code

`ProxyLoop` knows that a chunk was forwarded, not which; `ForwardRelation` takes one
client `A` and its endpoint `B`, from the end of `setup_endpoint_stream` on, and
adds the bytes. `level`, `events`, `revents` are the fields of the two streams
and `queue` the length of the client's queue, which holds the reply. The proxy
keeps no other byte: `inbuf` is the receive buffer of a socket (`FIONREAD`),
`pending` what its send buffer holds (`TIOCOUTQ`), `Room` what `SO_SNDBUF`
leaves, and `got` all that `socket_forward_data` has handed to it. Bytes are
numbered as their peer sent them, so that a loss, a repetition and a swap all
show. `peer` is what is known of the peer at the socket: connecting, open, ended
its side, or reset.

`pc` is where the walk is: `B`, then `A`, since `B` is linked later and at the
head, then `rest`, every other stream. Two things other streams do are kept:
`Restart` sends the walk back to the head (see `ProxyLoop`), so that both
streams are handled again on reports that are not fresh, and `Evicted` ends the
relation. `Handle(s)` is one visit of the walk and follows
`handle_stream_events` from top to bottom: `handle_forward_data` applies
(`ForwardChunk`, `AwaitWritable`) or not (`NotForwarded`), then the queue
(`Flush`), then the completion of the connect, then `remove_relation` (`Lost`).

`ForwardChunk` takes any number of bytes that are there and fit, which covers
`FORWARD_CHUNK_LEN` and a `send` that takes less than it is given.
`ForwardFails` is any failure of `socket_forward_data` while there are bytes and
room. It ends the relation at once: it is either a destination that is dead,
which then refuses the queue as well, or a call that does not fail in that
state, such as the `recv` of bytes that `FIONREAD` has just counted. `Lost`
while forwarding is the other case, nothing to read or no room, which the code
takes for the loss of a connection.

The peers and the kernel are environment: a peer sends, ends its side or
resets at any time, a send buffer drains at any pace, and a watch reports all
that is ready and asked for (`Ready`), as a level-triggered wait does.
`ended` is history, and so is `again`, which says that a walk was sent back.

### `SocksHandshake` and the code

One client sends the messages of its `script`; `polite` says whether it awaits
each reply before it goes on. `msg` and `off` are what of it has arrived, in
pieces of any length (`Arrive`), and `inbox` the receive buffer. `level`,
`queue`, `events`, `revents` are the fields of its stream, `told` the bytes that
were sent to it. `level` leaves out the prefix `LEVEL_SOCKS_`.

The client's turn in `handle_stream_events` is the disjunction `Visit`: its
queue is flushed if it holds anything and the client is writable (`Flush`, by
any number of bytes), or else `handle_stream_socks` is called. That receives
all that is there and fits (`Chunk`), fails for less than two bytes or for more
than the queue has room for (`CannotReceive`), and goes by the level: `Greeting`,
`Credentials`, and for a request `AwaitRequest`, `RefuseRequest`, `Grant` or
`NoEndpoint`. `Needed` is the arithmetic of `check_enough_data`. `Reply` is
`queue_set`, which overwrites the queue: what was received together with the
message is gone. `Lose` stands for everything that ends the stream from outside
(the client, an eviction, the timeout), and `Restart` for a walk that is sent
back, with reports that are no longer fresh.

From the grant on there is an endpoint, and its handlers write the client's
`level` and `events`. They are modelled as steps that may come at any time:
`Completed` is the end of its connect, which makes the client forward and
listen whether or not its reply was sent; `EndpointReadable` and `EndpointTakes`
are the two branches of `handle_forward_data` at the endpoint. At the client,
`handle_forward_data` now goes before the queue: `ForwardToClient`,
`AwaitEndpoint`, and `Flush` or `NothingToForward` where it fails. The bytes
that pass between the two are left to `ForwardRelation`; here it may be at any
moment that there are some or none.

The name in a request is copied and then used as a C string. `Destination` is
therefore cut at the first byte of the name that is zero (`NameIsCut`).

`Orderly` names the circumstances under which the code keeps its word, and
each of them is needed: the client keeps to the protocol (`Conforms`) with
messages that fit into the queue - credentials of up to 513 bytes are legal,
the queue holds 384 -, awaits the replies, is not sent a walk twice, and its
messages were not cut at one of the places the code cannot tell (`whole`).

### `NsCache` and the code

`cache` is the table, `now` the local variable of `nsaddr_cached` that keeps the
time which was read before the lookup, and `clock` the time of the system, which
may go on, and be set, between the two. `Hit` is the first scan that finds a
record; `Miss` is the one that does not, and calls `nsaddr`; `LookupAnswers`
is the second scan with `IsUpdate`, which picks the first record that has
expired at `now`, or else the record `now % count`. A name that is too long is
never looked for nor recorded. `told`, `latest` and `stepped` are history:
what the DNS client has said of each name, and whether the clock was set back.

`AgedAnswers` has no records. It may `Remember` for a name only what was
told of it, and as long as the clock was not set back only the latest of it, and
only for `Life`. The variables have the same names in both, so the refinement
mapping is the identity.

### `DnsClient` and the code

`stack` holds the calls of `dns_recursive_query` that are open, each a frame
with the name it asks about, the section and record it has come to, and the
message it works on; `ret` is what the call that ended last has returned to it.
`dns_resolve_root` only picks a server, so its call is the call of
`dns_recursive_query` it makes. `SendQuery` counts `querycnt`; `RecvOther` is a
datagram that does not match, of which up to 254 are passed over; `RecvMessage`
one that matches, or the last one, which the code uses whatever it is. An
address in the answer is returned at once (`Use`). Otherwise the sections are
searched in the order of the code: addresses of other servers (`TryRecord`
in `additional`, for the same name), names of servers (`authority`: the server's
name is resolved, then it is asked, `AskServer`), and aliases (`answer`).
A record that is cut ends a section (`Reaches`). The name in a record is a name,
or `Circle`, one made of pointers that lead in a circle: `dns_decompress_name`
comes back from the former, with the name (`TryRecord`) or with -1 for want of
room (`BadName`), and never from the latter (`Circling`, `FollowCircle`). Which
server is asked is left
out, since any may answer anything; retransmission is not, as there is none.

### `DnsNames`, `DnsEncode`, `MCDns` and the code

`DnsNames` runs over the records of a section as `dns_nearby_answer` does
(`OwnerByte`, `FindAnswer`, `NoAnswer`), and over the name in each as
`dns_decompress_name` does, one byte per step: `CopyByte`, `FollowPointer`,
with the code's mask of 10 bits, `NameEnds`, `NameTooLong`. Its reference are the formats of
RFC 1035, written as recursive functions of the whole packet: `NameAt` expands a
name, if each pointer in it leads below the labels that it ends - it is the
definition of a well-formed name here -,
`OwnerEnd` skips a name label by label and `Section` finds where each record
starts. They count down the labels and pointers that are left, of which a
packet has no more than bytes. `DnsEncode` is the loop of `dns_encode_hostname`,
a label at a time; its reference `Wire` says of each place what stands there: the
hostname shifted by one, with the length of a label in place of each dot. The
greatest length of a label is a constant, and stands for the 255 of the code, not
for the 63 of RFC 1035.

The loop of `dns_decompress_name` may be on a name for ever: `InCircle` says
that the pointers from `ipos` on never come to a label. `NamesEnd` says of every
name, well-formed or not, that this is the only way not to be read or refused,
and of a well-formed one that it does not happen to it.

`MCDns` gives them their inputs and runs them side by side with `DnsClient`:
in each behaviour one of the three is at work.

### `AddrParse`, `Startup` and the code

`Decode` is `ip_port_decode` on a sequence of tokens, since what matters is
where the colons and brackets are and which number is the port. `IsIPv4` and
`IsIPv6` say which texts `inet_pton` takes, the latter as the grammar of an IPv6
address with one gap, and optionally an IPv4 address at its end. `AsInt` is
`sscanf` with `%u` into an `int`, with both widths scaled down. `Format` is
`format_ip_port`. `Writes` and `StartsWith` say the same from the other side,
what an address and port look like when written, and do not use `Decode`.

`Startup` is `main` and `proxy_task`, with a descriptor for epoll, one for the
listen socket and those of connections. Each call that may fail is a step
(`Prepare` stands for `setsockopt`, `bind` and `listen`), with what the code
closes on that path. The loop opens and removes streams until it fails;
`Drain` is `remove_all_streams`. The insertion of the listener never fails, as
the pool is empty, and the line that would print a successful exit is not
reached, as the loop only returns on failure.

## 3. Runs

| Run | Bounds | What it shows |
|---|---|---|
| `loop` | 3 slots, 3 streams ready at once, 110 000 states | over all evictions: the saved successor, the listener, the end of every walk, the freeing of what is abandoned; until a cycle evicts twice: pairing, watching, start of forwarding |
| `list` | 4 slots, 59 000 states | pointers, cursors, progress of every loop, termination of the loops, refinement of `StreamOrder` |
| `watch` | 2 slots, 3 descriptors, 220 000 states | ownership of descriptors on every error path, the interest set for both backends, truth of the reports, everything closed at the end |
| `relation` | buffers of 2 bytes, a reply of 1, 2 bytes from each peer, 350 000 states | bytes are passed on once and in order; a relation is only lost for a cause; under fairness bytes arrive and ends are noticed |
| `handshake` | 8 clients, a queue of 24 bytes, 840 000 states | replies stay whole, the destination is the one asked for, no orderly client is dropped, each patient one learns an outcome unless its relation leaves the reply behind |
| `nscache` | 2 records, 3 names and a long one, 2 addresses, times up to 3, 2.2 million states | one good record per name; refinement of `AgedAnswers` |
| `dns` | 3 queries of 2 datagrams; packets of 2 records; hostnames of up to 6 characters; 420 000 states | the budget bounds queries, calls and waiting, the right address, the end of a resolution and of every name but a circle of pointers; records, names and hostnames against their formats |
| `startup` | texts of up to 5 tokens and a port, 2 connections, 190 000 states | the address and port that are listened on, descriptors closed once on every path, serving or exiting |
| `pairs` | 4 slots, 2 ready | violation: a stale neighbour pointer abandons a stranger |
| `reread` | 3 slots, 2 ready | violation: a client just granted is read again on its old report |
| `early` | buffers of 2, a reply of 1, 1 byte from each peer | violation: bytes of the endpoint reach the client before the reply |
| `pieces` | as `handshake` | violation: a client is dropped for the pieces its bytes arrive in |

Why the bounds suffice. In `list`, four slots give removals at the head, at the
tail, in the middle and of the only stream, next to streams that stay. In the
runs of the loop, three slots are the listener and a relation, or the
listener and two clients: that is enough for an accept to evict one side of a
relation, for a connect to evict the successor of the walk, and for two
evictions in a cycle. Four slots add a bystander to a relation. Two ready
streams are what it takes for two handlers to run in one cycle, which is where
stale state appears; the same streams are ready again in later cycles. `loop`
has three, all there are. Instances with four slots and one stream ready (960 000
states), or two ready and cut at the second eviction of a cycle (3.7 million),
gave the same results, and `pairs` needs four. What holds is moreover proved without bounds,
below; only the liveness properties rest on the bound.

The relation properties of `loop` claim nothing once a cycle has evicted twice
(`overlap`): the `pairs` run shows why. The others do.

In `watch`, two slots and three descriptors give a full pool with one more
descriptor in hand, the case of `force_cleanup`, and the reuse of numbers and
slots in every combination: a number that moves to another slot, a slot that
gets another number, and both the same. A descriptor is found idle, readable,
or writable with an error (`Readiness`).

In `relation`, two bytes of each kind give a chunk that is sent in part and
resumed, and a buffer that is found empty, partly full and full. A reply of two
bytes, sent in two parts, and buffers of one, with three bytes from each peer
(1.7 million states), gave the same safety results. Those are proved for all
sizes.

In `handshake`, the clients have each type of destination, with and without
credentials; one speaks another version, one sends another command, one asks for a name
with a zero byte in it, and one
sends more than the queue holds, which at 24 bytes has just room for the longest
request. Every message is cut in every way, replies are sent in any pieces, and the endpoint's
connect is completed before, between and behind these. Safety is
proved for every script and capacity.

In `nscache`, three names compete for two records, and a life of two seconds
with four moments has a record good, just expired, and stored with a time
that has passed. Both are proved for all sizes.

In `dns`, a budget of three queries allows an answer from the third call of a
chain and its exhaustion in each of them; the messages combine addresses,
aliases, two servers by name and two by address, and cut sections; in two
messages a name leads in a circle, first and second in its section. The packets
have two records with owners and data written in seven ways (labels, pointers to
the question, pointers behind labels, pointers to the data of the first
record), whole, and cut behind any byte from the twelfth on; one has more than
1024 bytes. In others the data of each record is one of nine: these seven, of
which the last then leads to itself or to the other record, a pointer to the
data of the second, and a label with a pointer back to it. This gives a circle of
one pointer, one of two, and one with a label in it, which fills the buffer. Hostnames are all those of up to six characters, with labels of at most
three and a buffer of six.

In `startup`, three groups stand for the eight of an IPv6 address, so that a
gap may be anywhere and any group may be missing; a port is at most 3 and an int
at most 7, and ports lie on, below and above each bound of both, signed and
unsigned.

**Fairness.** For `ProxyLoop` and `StreamList`, `WF_vars(Next)`: the loop
goes on. It is one thread; `epoll_wait` and `poll` have a timeout, sockets of clients and endpoints do not block, and
the listener's `accept`, which may, is called once per report because the
listener is last (`ListenerIsLast`). Nothing is assumed about which streams
become ready, nor that any call succeeds. A name lookup blocks, and is *assumed
to end*. The code does not guarantee that: a name in an answer whose pointers lead
in a circle (`src/lib/dns.c:116`) keeps `dns_decompress_name` busy, and the whole
loop stopped, for ever. `Ends` and `NamesEnd` say that nothing else does, and every
liveness property of the loop, of relations and of handshakes holds as long as
no answer has such a name.
`WalkEnds` needs no more: a walk is sent back to the head only by a connect,
and the client that connected leaves the level at which it can do so.
`AbandonedAreFreed` needs that the walk ends and that the next cycle cleans up.

`ForwardRelation` assumes strong fairness of the watch and of the visit of each stream:
the loop is the one above, and what may take these steps away for a while, a
`Restart`, does not recur for ever by `WalkEnds`. It assumes of the environment
only that a connect ends, one way or the other, and that send buffers drain
(`Drain`). Peers need not send, nor end. The properties allow that the relation
ends instead.

`SocksHandshake` assumes that the network delivers what a client has sent and
that a client which has its reply goes on (`Sends`), and of the loop strong
fairness of the watch, which a walk that is sent back may interrupt, and weak
fairness of the visit, so that lookups are assumed to end here as well. Nothing is
asked of the endpoint. `DnsClient` and `DnsNames` are sequential code:
`WF_vars(Next)`; every receive has a timeout (`RecvFails`). `Startup` assumes
that the process goes on while it starts and after its loop has failed, and
nothing of the loop itself, which may go on for ever.

### What the violations say

* **`pairs`.** `force_cleanup` frees one stream of a relation and only marks
  the other, whose `neighbour` still points at the slot, which is reused at
  once. If the same cycle has to evict again, the marked stream is chosen
  first, and `remove_relation` marks the slot's *new* stream. The shortest
  behaviour: client 2 connects in a full pool and takes the slot 3 of an old
  client; the listener accepts in the same cycle and evicts the old endpoint;
  the endpoint of client 2 is abandoned, while client 2 waits for it.
* **`reread`.** The evicted stream is the saved successor; its slot is linked
  at the head; the walk starts over; the client is handled a second time with
  the report its request came with. `recv` has nothing more and the connection
  is dropped right after `Request granted`.

* **`early`.** The completion of the connect makes both streams forward, even
  if the reply is still in the client's queue. If the endpoint has sent bytes
  and the client is found writable for them, `handle_forward_data` is
  called before the queue is looked at, and sends them. The reply stays until
  the client is found writable while there is nothing to forward. The shortest
  behaviour needs an endpoint that speaks first and a connect that completes in
  the walk that would have flushed the reply.
* **`pieces`.** `handle_stream_socks` wants at least two bytes of each `recv`,
  also when it awaits the rest of a request: if the network delivers one byte
  alone, the client is dropped. A greeting or credentials that are cut are read as if they
  were whole: of a greeting of which two bytes have come, `05 01`, it is not
  known yet that it offers a password, and the answer is that none is needed; then the
  rest of it is taken for a request. `whole` is the condition under which this
  does not happen; requests may be cut anywhere but before or behind one byte.

### What the conditions of the properties stand for

Some properties hold only under a condition that is written into them. Each
condition is a behaviour of the code that a reader should know of. With the
exception of a comment about eviction, named below, no document of the repository
promises otherwise.

* `EndpointEndNoticed` asks that the reply was flushed before the client's
  stream forwards. Otherwise the endpoint's end of file is exchanged for
  `POLLOUT` at the client; the client is found writable; there is nothing to
  forward; the reply is flushed, and `events = POLLIN` drops the `POLLOUT` that
  stood for the endpoint. The endpoint waits for nothing, so nobody watches
  it, until the client sends something or ends.
* `EndsForCause` has the condition `~ again`: in a walk that is sent back, a
  stream is handled on a report of `POLLOUT` that another handler has used up,
  finds nothing to forward, and is taken for lost. `RepliesKept` has it for a
  like reason: a client that is read again on its old report may have its
  reply overwritten.
* `ClientEndNoticed` says that a client that ends its side ends the relation as
  soon as its bytes are passed on: the loop has no half-closed relations, and
  the answer to those bytes is dropped.
* `ListenerKept` and `ImplementsOrder` say what `force_cleanup` evicts: the
  oldest stream with a port role that is neither the listener nor the one
  that asks, of any level. A client in its handshake is thus evicted while
  relations forward, and only one side of a relation is removed at once. The
  comment at `src/src/util.c:1123` promises otherwise: "Remove oldest forwarding
  relation". The properties state what the code does.
* `Served` asks that the client awaits its replies: `queue_set` discards what a
  client has sent ahead, and such a client then waits for a reply that never comes.
  It also excepts a reply that is left behind (`LeftBehind`). If the endpoint's
  connect is completed while the reply, or a part of it, is still queued, then
  the client's `events` become `POLLIN` and its `level` forwarding: the reply is
  only looked at when the client is found writable with nothing to forward. If
  the endpoint says nothing, or all that it says can be forwarded, the reply
  stays where it is while the connection is open. `early` is the same defect
  seen from the endpoint's bytes.
* `GrantsWhatWasAsked` excepts names with a zero byte in them: the code resolves
  the name up to that byte.
* `Ends` excepts a resolution that has come to a name that leads in a circle, and
  `NamesEnd` such a name: the code follows its pointers for ever.
* `OneRecordPerName` and `AgedAnswers` ask that the clock was not set back: a
  record then lives longer, and a second one may be stored for its name and
  answer at another time.
* `RightAddress` takes the message that is used for what it is; after 254
  datagrams that do not match, the next one is used without a look at its identifier.
* `RecordsFound` asks that the labels of the names that own the records are in
  ASCII. `dns_nearby_answer` does not skip labels by their length: it looks for the
  next byte that is 0 or above 191, and a label may legally hold such a byte.
* `NamesRead` speaks of packets of up to 1024 bytes: pointers are masked with
  `0x3FF`, so that one that leads further is followed to another place. What is
  read there is not claimed to be anything.
* `LengthAgrees` excludes hostnames that are empty or end with a dot: the
  length in the query is then one more than that of the encoded name. `Encoded`
  takes labels of up to 255 bytes for good, as the code does, not only of up to 63.
* `StartsWith` takes a number for the port only if it may be one: of another
  the low bits count, so `-1` is read as 65535 and `4294967376` as 80.

## 4. Proofs

`ProxyLoopProofs` proves, for every `PoolSize` and `MaxReady` (only that they
are positive integers is assumed):

* `TypeCorrect`: `Spec => []TypeOK`;
* `Invariant`: `Spec => []IInv`, the inductive invariant;
* `SuccessorListed`, `ListenerStaysLast`, `RelationsStayPaired`,
  `NoRelationIsDeaf`: the safety invariants of `loop`, and `ListStaysOrdered`;
* `ListenerStays`, `ForwardingStartsGranted`: its action properties.

`TypeOK` and `IInv` of each module were model-checked on the instances above
before they were proved; being theorems, they are not invariants of the runs.

`StreamListProofs` proves, for every `PoolSize`:

* `TypeCorrect`, `Invariant`: `Spec => []IInv`, and from it `StaysLinked`,
  `CursorsStayListed`, `NothingSkipped`, `DrainsAll`, the invariants of `list`;
* `Implementation`: `Spec => ImplementsOrder`, every step of the pointer loops
  is a step of `StreamOrder` or none.

Its core are two lemmas about the pointer updates, `RemovedRepresents` and
`InsertedRepresents`: if pointers represent an order, then after the updates of
`remove_stream` and `insert_stream` they represent the order without the
stream, and with it in front. Around them, `IInv` says of each loop where it
is: what cleanup, the walk and the draining still have to do lies at `iter` or
behind (`CleanupProgress`, `WalkProgress`, `DrainProgress`), and what
`force_cleanup` has passed is not eligible (`SeekProgress`). The refinement
follows: at `Evict`, nothing eligible is older; at `Watch`, nothing abandoned is
left; at `WalkEnds`, nothing is due.

`EventWatchProofs` proves, for every `PoolSize`, number of descriptors and set
of `Readiness`: `Invariant` (`IInv`), `DescriptorsOwned`, `InterestIsRight`,
`NothingRefused`, `ReportsReachTheirStream` and `ClosesAll`, all the invariants
of `watch`. What a stream caches (`pollref`, `levents`) agrees with epoll at
all times (`Cached`), which needs that no two streams share a descriptor
(`Owned`) and that a number in nobody's hands is not registered (`NoStranger`):
otherwise a new stream, cleared by `insert_stream`, would find its number taken.
During a watch, the streams that are passed are watched as they wish
(`BuiltSoFar`), and poll's list is never older than the watch (`ListIsFresh`).
That `poll_list` has room (`PollListFits`) counts its entries by the slots they
came from, without the one that is being added.

`ForwardRelationProofs` proves, for every size of buffers and reply and every number
of bytes: `Invariant` (`IInv`), `KeepsBytes` and `EndsOnlyForCause`, the safety
invariants of `relation`. That bytes are kept is inductive by itself, by lemmas on
sequences (`MovedBytes`: what is appended on one side is what is taken off the
front on the other). That a relation is lost only for a cause is not: it
rests on what the loop has learnt about readiness being still true when it is
used. Until the connect completes, the flags are those of `Connecting`; after
it, a stream waits to be writable only for bytes that are there, and the other
one then does not wait to be readable (`HandedOver`); and each report the walk has yet to
act on still holds (`ReportsHold`), although the stream visited before may have
moved bytes. These hold as long as no walk was sent back and no peer
has ended with all its bytes passed on (`Undisturbed`); once that cause is
there it stays (`CauseStays`).

`SocksHandshakeProofs` proves, for every queue of at least ten bytes and all scripts:
`Invariant` (`IInv`), `RepliesStayWhole`, `ConnectsWhereAsked` and
`NeverDropped`, the safety invariants of `handshake`. The argument is
that an orderly client and the proxy take turns (`Turn`): while the queue
holds a reply, everything the client has sent is answered and nothing is on its
way; while it holds input, that and the inbox are together a prefix of the
message which is due (`Listening`). So a request that is complete is the whole
message, the bytes `Needed` are all of it, and it fits. Which message is due
follows from the level (`Answered`). Once the relation forwards, there are no
turns any more, and nothing is left to claim of them: the queue only shrinks,
from the front, by what is sent.

`NsCacheProofs` proves, for every number of records, life and set of names:
`Invariant` (`IInv`), `HasOneRecordPerName`, and `Implementation`, that
`NsCache` implements `AgedAnswers`. A second record for a name could come from
a lookup that began when the first one was good: `Asking` says that no record is
good for the name at the time that was *read*, and hence, if the clock did not
go back, none is when the answer is stored. The stored expiry counts from that
time, so an answer is younger than `Life` (`Latest`).

`DnsProofs` proves, for every limit, number of datagrams and set of
messages: `Invariant` (`IInv`), `StaysBounded` and `ReturnsRightAddress`. Each frame
but a starting one has sent a query, so the depth of the stack is bounded by the
counter (`Within`). That the address is right is a closure: `Linked` relates
each frame's name to that of the frame it called, by identity or by an alias
that a message gave, and `ReturnFits` says that an address that is being returned
means the name of the frame it is returned to, unless that frame has
asked for a server. Safety does not depend on whether names lead in circles:
a resolution that reads one makes no more steps.

It proves two more theorems there, each about the specification of its part
alone, `E!Spec` and `N!Spec` of `MCDns`:

* `EncodesHosts`, for every alphabet, length of hostnames, limit of a label and
  size of the buffer. `Written` says that what was written is the beginning of
  `Wire`, that the rest of the hostname begins where it ends, at the start of a
  label, and that the labels before it are good ones.
* `ReadsPackets`, for every set of packets that are sequences of bytes, every
  start of the section, number of records and size of the buffer. `Passing` says
  that from the start of a record to `ptr` there are only bytes of labels, so
  that the byte at which the scan stops is that where the labels of the owner
  stop, if these are in ASCII (`LabelsEnd`). `Reading` says that a name is what was
  copied, then the bytes up to the end of the label in which `ipos` is, then
  what the rest stands for: a pointer leads to the place where that is read on.

Both need induction over data, which the library offers only with an operator
as its parameter. `DnsProofs` proves what it takes from the least element of a
set: `Induction` over a *set* of numbers, and `Recursion`, that a *function* is
defined by its value for 0 and a step, from which the equations of `Expansion`,
`LabelsEnd` and `Section` follow.

`StartupProofs` proves, for every set of texts,
every number of groups above two, every set of connections, and all widths of
which a port is not the larger: `Invariant`
(`IInv`), `ClosesOnce`, `Listens` and `WrittenUnderstood`, the safety properties of
`startup`. `Opens` says for each step of `main` and `proxy_task` what is open
there and what was closed; what is decoded is decoded from the text alone
(`Decoded`). The other two are about the operators of `AddrParse`: the text that
`Decode` accepts begins with its result (`DecodedStands`); a text that is well
written is decoded as what it says (`Understood`); and `Format` yields such a
text (`FormatDecoded`). It is assumed that the colon, the brackets and the token
of an IPv4 address differ from each other and from numbers, that texts are finite, and that
connections are not the descriptors of epoll and of the listener.

**The argument for `ProxyLoop`.** None of these is inductive alone. A step writes through
`neighbour` pointers, so to know what it leaves alone one needs that a
neighbour is listed and points back (`Paired`), and that no pointer leads to
the listener (`ListenerApart`). A relation is broken when one side is evicted:
the other is marked in the same step, so among streams that are *not*
abandoned all pointers stay mutual. A second eviction in the cycle would follow
the pointer of a marked stream; that is why `Paired` speaks of marked streams
only while nothing has been evicted in the cycle (`~ reclaimed`), and of none
once a cycle has evicted twice (`overlap`). `CleanupStreams` resets this, as it
removes all marked streams before `watch`. `Stage` says what each level means
to a stream that is not abandoned: it gives the mutual levels, and that one
side is watched. The order of the list needs two lemmas about the operators of
`StreamPool` (`LinkFirstOrdered`, `UnlinkOrdered`); the saved successor stays
listed because an insertion reuses the very slot it evicts.

**Model-checked only.** `WalkEnds`, `AbandonedAreFreed`, `LoopsEnd`,
`BytesArrive`, `ClientEndNoticed`, `EndpointEndNoticed`, `Served`, `Ends`,
`NamesEnd` and `ServesOrExits`: liveness under fairness is out of the prover's
reach. Every other property of the passing runs is a theorem. To make it so, no
module uses `RECURSIVE` operators, which the provers cannot expand: recursion is
written as functions. After a cycle has evicted twice,
`ListStaysOrdered`, `SuccessorListed`, `ListenerStaysLast` and
`ListenerStays` are proved; the relation properties fail there.

## 5. Plan

Done: every component that has state or an algorithm is modelled, checked and,
where the prover reaches, proved about. Left for later:

1. A pipe per direction as the abstract specification of `ForwardRelation`.
2. `ProxyLoop` with `SocksHandshake` in place of its levels, two clients at least.

**Not modelled, and why.** Verbose logging, statistics and the usage text have
no state. Header files hold constants and declarations; the build files build.
Memory layout is left out. The choice of a root server, and the fields of a
query besides its name, are left out, since the model lets any server answer
anything. `epoll_to_poll_events` returns its argument instead of the value it
computed, which is the same where the EPOLL and POLL constants agree, as on
Linux. The buffer of `format_ip_port` fits every address, and its truncation is
left out. Some hazards have no property. That one failed `accept` ends the
proxy is modelled (`AcceptFails`) and promised nowhere to be otherwise; that a
busy loop never times out a stalled handshake (`Idle` only happens when nothing
is ready) is a fact of its environment. Three are modelled as the code has them,
and exempted from the properties that come near them: the mask of a pointer
(`NamesRead`, for packets above 1024 bytes), the length of a name that ends in a
dot (`LengthAgrees`), and a port that wraps into an int (`StartsWith`).

# Verification of the protohackers servers

`src/src/main.rs` starts one of twelve independent servers, one per problem of
the protohackers series, each on port 3007. They share no state, so every server
gets its own modules. What is composed are the parts *of* a server: its
connection tasks, the state they share behind a mutex, and the channels between
them; and, in `Servers`, the choice that `main` makes among the servers that need
no larger instance of their own.

## Inventory

| server | state | operations | what is hard |
| --- | --- | --- | --- |
| p0 echo (`p0_tcp.rs`) | none | copy | nothing |
| p1 prime (`p1_prime.rs`) | none across requests | one JSON request, one reply | bad requests end the connection |
| p2 means (`p2_means.rs`) | prices of one connection | insert, mean of a range | signedness of the integers, empty and inverted ranges |
| p3 chat (`p3_chat.rs`) | map of users behind a mutex, a broadcast channel of 128 events | join, chat, leave | the join is not atomic: snapshot, announcement and subscription are three steps; a slow task lags |
| p4 database (`p4_db.rs`) | one map | insert, retrieve over UDP | the version key |
| p5 proxy (`p5_middle.rs`) | two line buffers per session | forward in both directions, rewrite addresses | partial lines, one side that ends before the other |
| p6 speed (`p6_speed.rs`) | plates, tickets and days per car, cameras, a queue of tickets per road | plate, heartbeat, camera, dispatcher | late observations, one ticket per car and day, tickets in flight through two channels when a dispatcher leaves |
| p7 LRCP (`p7_reversal.rs`) | per session: position received, buffers, acknowledged position | connect, data, ack, close, internal retransmission and expiry ticks | loss, duplication, reordering, stale timers, a bounded channel a task sends to itself |
| p8 insecure sockets (`p8_insecure.rs`) | cipher and two stream positions per session | decode a line, encode the reply | positions, ciphers that do nothing |
| p9 job queue (`p9_jobqueue.rs`) | queues of jobs, active jobs, waiting Gets behind a mutex | put, get, get and wait, abort, delete, disconnection | lost wakeups, a job given twice, jobs of a client that disconnects |
| p10 version control (`p10_vcs.rs`) | a tree of directories and files with their versions | put, get, list, help | numbering of versions, requests that are refused halfway |
| p11 pest control (`p11_pest_control.rs`) | per site: an authority connection, targets, policies | site visit, dial, create and delete policy | request and reply on a shared connection, lost replies, a map lock held while dialling |

### Interactions, and the properties that make each part correct

- **p9.** Client tasks share one `Storage` behind a mutex. A waiting Get leaves
  the sending end of its oneshot channel in the storage; whichever task makes a
  job available next sends into it. Correct means: a job has one home, nobody
  waits while a job of its queue is available, only the holder aborts a job, and
  the jobs of a peer that left come back.
- **p6.** Camera tasks share one `State` behind a mutex and put tickets on an
  unbounded queue per road. A dispatcher's connection has a forwarder task per
  road, which moves tickets into the bounded channel of the connection, whose
  writer half writes them. Correct means: one ticket per car and day, no
  speeding car unnoticed, every ticket delivered once and lost only with a
  dispatcher that leaves.
- **p7.** One main loop receives datagrams and sends them into the bounded
  channel of the session's task, which also sends into it itself, directly and
  through sleeping tasks. Correct means: the peer gets exactly the reversed
  lines, however the network behaves, and every session moves on.
- **p11.** Visitor tasks share the map of sites behind a mutex and each site
  behind a mutex of its own; a site holds the connection to its authority.
  Correct means: one policy per species, the site remembers what is in force,
  the last visit prevails, and no site waits for a request of another one; all may
  wait for a dial.
- **p3.** User tasks share the map of users behind a mutex and announce what
  happens on a broadcast channel. Correct means: the map and the tasks agree,
  nobody misses an event without being disconnected, and what a peer was told
  adds up to who is there.
- **p10.** Connections share one tree of folders, files and versions behind a
  mutex; the answer is written after the lock is free. Correct means: a revision
  once told stays what it was, a listing is that of the files, and the loop
  expects a command where one begins.
- **p5.** One task per session reads both sides through two line buffers and a
  `select!` that cancels the wait for the other one. Correct means: each side
  receives the lines of the other one exactly, addresses rewritten.
- **p8.** One task per session, with a cipher and a position per direction.
  Correct means: a client that uses the cipher it chose reads the answers to its
  orders, and no session is served in the clear.
- **p4, p2, p1.** A map and one task (p4), a map per connection (p2), no state
  (p1): correct means that answers are what their definitions say, at the ends
  of the ranges of their integers as well.
- **p6, p7, p11: messages.** The tasks above work on decoded messages. Correct
  means: what one end writes the other reads, however the bytes are cut,
  delayed or damaged on the way.
- **p0.** One call.

The hazards of each part, with the line at which each bites, are listed in
`PROJECT.json` under `hazards`.

## Modules

| module | models | remarks |
| --- | --- | --- |
| `JobQueue` | all of p9 but the parsing of JSON | one action per request of `handle_message`, and one per step of `handle_client` |
| `JobBoard` | what p9 promises | jobs are ready, held or gone; clients wait on queues |
| `SpeedTickets` | `RunningCar::new_entry` and the state of the cars | one action, `Observe` |
| `TicketDispatch` | the road queues, forwarders, channels and connections of p6 | one action per step of each task |
| `TicketDelivery` | what the delivery of p6 promises | tickets are pending, received or lost |
| `Lrcp` | escaping, unescaping, `split_data` of p7 | operators |
| `LrcpText` | `parse` and `serialize` of p7, and `Lrcp`, over every short text | |
| `LineReversal` | a session of p7, its channel, its timers, the network, the peer | extends `Lrcp` |
| `LineListener` | the main loop of p7 and the channels and tasks of all sessions | what packets say is left to `LineReversal`, whose session implements it |
| `PestControl` | p11: visits, locks, requests and answers, broken connections | the authority is external |
| `ChatRoom` | p3: join, chat, lag, departure | one action per step of a task |
| `VersionControl` | p10: parsing of lines and paths, storage, client loop | one action per kind of command, and one that writes its answer |
| `VersionStore` | what p10 promises | histories that only grow, listings computed from them |
| `ChatProxy` | p5: line buffers, `select!`, rewriting, ends of sides | one action per step of the task |
| `InsecureSockets` | p8: cipher specification, operations, positions, toys | one action per read and per line |
| `Means`, `Database`, `PrimeTime` | p2, p4, p1 | one action per message |
| `ByteFields` | fields of binary messages, written and read | operators of the next two |
| `PestMessages`, `SpeedMessages` | the binary messages of p11 and p6, on a stream | |
| `Servers` | `main`, the servers from `VersionControl` on, `LrcpText` and `LineListener` | the one that is chosen runs |
| `*Proofs` | the theorems about the module they are named after | `JobQueueProofs` is about `JobBoard` too, `ComponentProofs` about `VersionControl`, `ChatProxy` and `LrcpText`, `ServersProofs` about what `Servers` does to the servers it is composed of |
| `MC*` | instances for TLC | values of the constants, symmetry |

### How state and actions correspond to the code

**JobQueue.** The per-queue maps keyed by job id are kept as one map, since
`msg_queues` gives every id one queue: `jobs` is `msg_queues` with `Queue.jobs`,
`priorities` and `active_jobs` are the fields of `Queue`, `waiters`,
`waiters_to_queue` and `last_waiter_id` those of `WaitingSystem`. A request is
one action (`Put`, `GetJob`, `GetNoJob`, `GetWait`, `Abort`, `Delete`), because
the lock is held from before `handle_message` to its end, `queue_update`
included. The reply travels through `oneshot` and is written by a later action,
`Reply`, which also notes the job in `owned_messages`: between the two the job
is active for a task that does not know it yet. The clean-up after the end of
input is `EndOfInput`, `AbortOwned` once per job, `Closed`; the lock is held
throughout, which `LockFree` says. Two simplifications: an error that the code
writes directly goes through `oneshot` as well (nobody else can see the
difference), and a line that is read after the peer left counts as read before.
Job ids count from 1.

**SpeedTickets.** `history` and `days_charged` are the fields of `RunningCar`,
with `NotSeen` for an absent timestamp. `Previous` and `Latest` are the two
`next_back()` calls. `Speeding` computes `avg_speed > road_limit` exactly, except
that `RoundsUp` lists the triples at which the two `f64` divisions land above a
limit that is met exactly. The printed speed is left out.

**TicketDispatch.** `Receive`, `Send` and `SendFails` are the forwarder;
`Take`, `Write` and `WriteFails` the writer half; `ReaderEnds` the end of the
reader half; `Drain`, `Drained` and `Closed` what `handle_client` does after
its `select`. A ticket is created (`Issue`) as `SpeedTickets` says; here only
its road matters. A dispatcher names a road once.

**LineReversal.** `conn` is `ActiveConnection`, `msg_recv` the session's
channel, `pending` the message the task is about to send to itself, `timers`
the sleeping tasks. `process_buffers` is an operator shared by `HandleData` and
`HandleAck`, as in the code. The minute after which a session expires is a
choice of `HandleInternal` that any second or later visit of a chunk may take;
the three seconds of a retransmission are an action, `WakeUp`, that may come at
any time. `born` tells messages of different connections apart: the code does
not, and no guard reads it. The peer and the network are external: everything
the peer may have sent may arrive at any time and any number of times, and
whatever was written may be received, again, or lost.

**LineListener.** `held` is the session in whose channel the main loop awaits room
(`p7_reversal.rs:432`); a packet for which there is room goes in at once (`Arrive`).
Messages are `client` or `internal`. `Handle` takes one, and may owe the channel an
internal message (`Owe`), start a sleeping task (`Repeat`) or end with a failed
`send_to` (`End`), which closes the channel; the loop, and the program, end when
they next send to that session (`Fail`), since it stays in `connections`. In `Servers` packets arrive only
while `LrcpText` tries no text, since what a packet says does not matter here. That a
session does no more than this is `ImplementsSession`, which the run `session`
checks and `SessionImplemented` proves of `LineReversal` (where the local socket never fails).

**PestControl.** `map_lock` is the mutex over the sites and is held while an
authority is dialled; `site_lock` is the mutex of a site. A visit looks at the
species in any order (the code iterates over a `HashMap`): `Keep` when the
remembered policy is right, otherwise `Ask`, then `Deleted`, `Created` or
`Refused` when the answer is read. `connection` breaks at any moment and is never
made again.

**ChatRoom.** A join is `Enter` (the list and the new user, under the lock),
`Announce`, `Subscribe`; a session is `Says`, `Hears`, `Write` until
`SessionEnds`; a departure is `Remove`, `Leave`. The broadcast channel is the
log of all events with a position per task; a task that is more than `Capacity`
events behind gets the error of `recv` and ends. `heard`, `roster`, `listed_at`
and `joined_at` record what the peer was sent and when, and are dropped with
the session. A write is complete or fails.

**VersionControl.** Input is a queue of tokens, lines and data, sent without
waiting for READY. `Refuse`, `Help`, `PutData`, `Get`, `List` and `Close` each are
one turn of the loop up to the release of the lock, the parse of the line
included; `Write` writes the answer afterwards. The nested maps are two: `files`
by path, and `folders` as the set of paths of folders. `ParsePath` is
`parse_path`, the first slash that the path of a folder keeps when it ends in one
included. A PUT that is refused before its data are read leaves them to be read
as a line (`ReadAs`), and its client is `misled`. `r0` closes the connection in a
build that checks for overflow, and is an unknown revision in one that does not:
both may happen. `told` is what clients have read, and no guard reads it.

**ChatProxy.** Text is a sequence of words, addresses, spaces, ends of lines and
wide characters. `ReadToken`, `EndSide` and `TakeLine` are the outcomes of
`get_next_line` in one branch of the `select!`, `WriteLine` and `FailToWrite` what
follows. The regular expression is `Substituted`, between the doubling and the
halving of spaces that let two addresses share one.

**InsecureSockets.** A byte has `Width` bits, and every operation is computed bit
by bit or modulo `2^Width`. `ReadSpec` reads up to the first zero, which an
operand may be; `ReadChunk` reads any number of bytes up to `MaxRead`.
`ConnectionFails` is a read or a write that ends the task with an error.

**Means, Database, PrimeTime.** The `I32` conversions, `Request::parse` and
`is_prime` are operators of the same structure, with bytes, buffers and integers
of any width. The rounding of `f64::round` is exact integer arithmetic; `f64`
itself is not: for a sum beyond 2^53 the code may round otherwise.

**PestMessages, SpeedMessages.** A message is a kind and its values; a layout says
which fields a kind has, and `ByteFields` writes and reads fields in base `Base`.
A number has `Size[type]` digits. One byte of a stream to the pest control server
may be damaged; bytes of the speed server arrive in any pieces.

**Servers.** `Choose` is the `match` in `main`; after it only one server moves.

## What the runs check

| run | instance | what it shows |
| --- | --- | --- |
| `jobs` | 2 clients, 2 queues, 2 priorities, 2 jobs, 2 waiting Gets | the storage, the registrations and the tasks agree; no lost wakeup; `JobBoard` is implemented; jobs of a peer that left are released, unless its task died of a failed write or is parked |
| `parked_waiter` | 1 queue | *violation:* the jobs of a peer that leaves during a waiting Get stay active |
| `tickets` | 1 car, 2 roads, 4 times on 2 days | one ticket per day, days used only by tickets, and a new observation leaves no speeding neighbour unticketed unless several later ones were in before it |
| `late_observation` | 1 road with 3 cameras | *violation:* an observation that arrives late is compared with the latest later one, not the next |
| `dispatch` | 2 dispatchers, 2 tickets of 1 road, channel of 1 | a ticket is never in two places; `TicketDelivery` is implemented; tickets are served |
| `session` | 2 lines, 2 connect packets, channel of 2 | answers stay intact, acknowledgements are accepted, no session waits with work left, what is unacknowledged is written again; `LineListener` is implemented |
| `answered` | 1 line of 2 chunks | the peer gets the whole answer in the end, unless the session is closed or stuck |
| `stale_retransmission` | 2 epochs | *violation:* an internal message of the old connection writes old answers into the new one |
| `policies` | 2 visitors, 1 site, 2 species, 3 policy ids | one policy per species, site and authority agree, the last visit prevails |
| `independent_sites` | 2 visitors, 2 sites, 1 authority that need not answer | visits to the other site are handled, unless the dial of the first one is never answered and they have yet to pass the lock over the map |
| `room` | 3 clients, 1 message, channel of 2 | the map is right, later users know earlier ones, nobody misses an event, a quiet join is exact |
| `servers` | see below | the servers that `main` may choose and that have no instance of their own keep their promises |

The properties of `servers`, each stated and explained in its server's module:

| property | what it shows |
| --- | --- |
| `PromisesKept` | p10: a revision that a client was told of, or is about to be, has that content for ever |
| `AnswersInStep` | p10: where a command is expected, the first request without an answer begins, except for a client whose PUT was refused before its data |
| `ImplementsStore` | p10: `VersionStore` is implemented |
| `RelayedExactly` | p5: a side receives what the other one sent, in order, rewritten, and all of its whole lines when the task ends with both sides |
| `LinesRelayed` | p5: every whole line is relayed in the end, unless the task ends, although a side that has ended is ready all the time |
| `RepliesUnderstood` | p8: a client decodes the answers to its orders, for all cuts into reads; no cipher that changes nothing is served, and what is refused is no specification, has a zero for an operand, which ends it too early, or changes no byte except perhaps at the last position |
| `MeanAnswered` | p2: a query gets the rounded mean of the last prices of its range, in two's complement |
| `AnswersRepeatInserts` | p4: an answer is the last packet that inserted the key, as far as it fits the buffer |
| `PrimesTold` | p1: exactly the whole numbers that are prime are called so, also at the end of `u64` |
| `MessagesUnforged` | p11: no damage of a byte makes the server read a message that was not sent, and without damage none is refused that it can be sent |
| `MessagesReadBack` | p6: messages are read as they were written, however their bytes arrive |
| `PacketsReadBack` | p7: a packet is read as what it was written for, and nothing else is read as it; a text is read back from the chunks it is sent in, each within the size of a packet |
| `LoopGoesOn` | p7: the main loop goes on or ends, unless it waits for a session that waits on itself |
| `TypeOK` | each server keeps to its types, and the folders of p10 are those of its files |

### Bounds, and why they are enough

- *p9.* With two clients, one waits while the other puts, aborts, deletes, dies
  or is cleaned up; both wait on both queues at once; two jobs are enough for a
  most urgent one and for the tie between equal priorities. `MaxWaits = 2` lets
  both wait, or one wait twice. A Get names both queues, in one order.
- *p6.* The times are the two ends of two days, so that a ticket spans days; the
  cameras are too far apart for any of these times, or exactly at the limit for
  one pair. A channel of one is full whenever anything is in it, which is when
  senders, heartbeats and the emptying loop race.
- *p7.* `MaxSize = 2` makes two chunks of a line of three characters and keeps
  the re-escaping of one. A channel of two is full as soon as a packet and an
  internal message are in it. `Cuts` allows overlapping, repeated and early
  data. Two connects are a repeated connect, or one that reopens the session. For
  the loop, two sessions with channels of two and two internal messages each fill
  their channels in every mixture of packets and internal messages.
- *p11.* Counts 0, 1 and 2 against a target of 1 ask for each of the three
  policies. Three ids are enough for two policies and a replacement.
- *p3.* A channel of two and three clients, who join and leave, make any of
  them lag; one message is enough to be missed.

- *p10.* Two clients send three requests: enough to put, to put again and to read
  in between, for a file that has the name of a folder, a content that reads as a
  command, and every way of being refused.
- *p5.* Six tokens are two addresses that share a space, or parts of two lines,
  on both sides.
- *p8.* Bytes of three bits make positions wrap within the 18 bytes of the
  longest text; the ciphers are every single operation, pairs that cancel, and
  specifications that are cut short or unknown. The code leaves out the last
  position and the last byte in its search for a cipher that does nothing; one
  cipher of the instance changes bytes at the last position alone, and is refused.
  The last byte cannot be the only one that changes, since the bytes at a position
  are permuted.
- *p2, p1, p4.* Numbers of six bits reach both ends of their range and the halves
  between them; `u64` has four bits, so that numbers beyond it are tried; packets
  are longer than the buffer of four, which cuts them in the value or in the key.
- *Messages.* Base 16 with one, two and three digits; strings, lists, an empty
  one of each, and two messages on a stream. *Packets:* every text up to six of
  four characters, as data and after every beginning of a packet.

`CHECK_DEADLOCK FALSE` is set where the system really may stop: every peer has
left, every id within the bounds is used up, or (p7) a session waits for room
in the channel that only it empties.

### Fairness

Weak fairness on the steps of a task says that the tokio runtime polls what can
go on. Strong fairness is used where a step is enabled again and again, but not
continuously, because others use the same channel or lock: tokio's bounded
channel and its mutex serve in order of arrival, so the turn comes. No
request, no disconnection, no camera and no heartbeat is fair. What is assumed of
peers, and of the runtime, is this:

- In p5 and p6 a peer that does not leave reads what is written to it, so that a
  write ends, with success or an error. In p5 a write that never ended would stop
  both directions, since one task serves them.
- In p7 the peer is an LRCP implementation that repeats its data and its
  acknowledgements until they are taken, and a packet that is written again and
  again arrives once: without this nothing can be promised over a network that
  loses packets. A sleeping task is first polled before its three seconds are over.
- In p11 only the authorities in `Answering` answer dials and requests, or break
  off. Others may accept a connection and stay silent for ever, since no read has a
  timeout.

In p5 taking a line is strongly fair: `tokio::select!` polls its
branches in a random order, so that a branch that is ready for ever, as that of a
side that has ended, does not keep the other one from its turn.

### Disagreements between the code and what is said of it

1. `parked_waiter`: a task that awaits the channel of a waiting Get does not
   read its socket, and so keeps its earlier jobs when its peer leaves
   (`p9_jobqueue.rs:431`; the comments at 381 and 516 say that they are
   aborted and given to others).
2. `late_observation`: `next_back()` on the later observations is the latest
   and not the "immediate next" one of the comment (`p6_speed.rs:218`, comment
   at 264).
3. `stale_retransmission`: internal messages do not say which connection they
   belong to (`p7_reversal.rs:298`; `NOTES.md:14-15` describes a client that is
   sent its own lines only).

Other observations, which the models contain but no run is devoted to:

- A write that fails between the handover of a job and the clean-up loop ends
  the task at once, and its jobs stay active for ever (`p9_jobqueue.rs:446`).
  `HolderKnows` and `JobsReleased` except this case by name.
- Exactly at the limit the `f64` speed may come out above it, and a ticket is
  issued (`p6_speed.rs:246`): 11 miles in 2640 seconds at a limit of 15.
- The session's task of p7 waits for itself when its own channel is full
  (`p7_reversal.rs:288`), `Stuck` in `LineReversal`. The next packet of that session
  then stops the main loop (`p7_reversal.rs:432`), and no packet of any session is
  received any more; `LoopGoesOn` excepts this case by name.
- A sleeping task of p7 that is first polled when its three seconds are over panics
  in its `expect` (`p7_reversal.rs:313`), and its chunk is not sent again. The model
  assumes that this does not happen.
- While the channel of a dead dispatcher is emptied, forwarders of that
  connection may fetch the tickets that are put back (`p6_speed.rs:473`).
- An authority that accepts the connection and stays silent while it is dialled
  (`p11_pest_control.rs:45` and `230`) keeps the lock over all sites
  (`p11_pest_control.rs:178`), and no new visit to any site goes on:
  `SitesIndependent` excepts this case by name, `DialSilent`.
- A cipher of p8 that changes bytes at position 255 alone would be refused as one
  that does nothing (`p8_insecure.rs:71`), as its like is in the instance.
- A connection to an authority is made once and never again, so that a site
  whose connection breaks fails every later visit (`p11_pest_control.rs:142`).
- In p3 a user may miss, or be told twice of, one that joins or leaves around
  its own join; `QuietJoinIsExact` says when its picture is right.

## What is proved

TLAPS proves the following for every value of the constants that satisfies the
modules' assumptions (finite or infinite sets of clients, any bounds).

**JobQueueProofs** (assumptions: `NoClient` is no client, priorities are
integers, lists name queues, the bounds are naturals). `IInv` of `JobQueue` is
inductive. It joins the safety invariants of the run with two facts that no run
property states: ids above `last_waiter_id` are unused (`FreshIds`), without
which a new registration might replace an old one, and only a task that awaits
has something in its channel (`ReplyAwaited`), without which a handover might
overwrite a reply. The invariants need each other: that a served waiter leaves
every queue needs the agreement of the two maps, that its channel is empty
needs `WaiterAwaits`, and that no queue has a job and a waiter needs both.
`QueueUpdateCases` reduces `queue_update` to its two outcomes once, for the three
handlers that call it. Theorems: `TypeCorrect`, `NoLostWakeup`, `OneHomeAlways`,
`WaitersServable`, `HoldersKnow`.

`BoardImplemented`, the last theorem: `Spec => ImplementsBoard`, with the
available jobs as `ready`, `active_jobs` as `holder` and the registrations of a
client as `waiting`. `OfferStep` shows that a job without a home, offered by
`queue_update`, is what the board's `Offer` does, which needs `NoIdleWaiter`: the
job that is handed over is the one that was just put back. Each action of the
server is then one action of the board, or none.

**ChatRoomProofs** (assumptions: the capacity is positive, the bound a
natural, and `NoEvent` is no event). `TypeCorrect`, `RoomListed`, `LaterKnows`. The
three are inductive together: `MembersListed` ties the map to the tasks, so that
the list copied under the lock contains everyone with a smaller id who is inside.
`HeardAllInOrder` counts: `Following` says that the n-th event relayed is the
n-th event of others since the subscription, and that nothing else was relayed;
`RankAdded` is the lemma that an event added at the end ranks last and leaves the
ranks of the earlier ones alone. `QuietJoinExact` compares where a task is with
what can be known of it: `Announced` is inductive and says of every user that the
log has its arrival and its departure when its task is past them, at most in that
order (`Told`), and that a list and a user whose place is not the one the list
says are told apart by an event after the list (`Rostered`). When nobody is on
the way in or out, and everything is heard, the last event heard of a user decides.

**SpeedTicketsProofs** (assumptions: miles, limits and times are naturals).
`TypeCorrect`, `OneTicketPerDay`, `DaysAreTicketed`. Inductive is that the days
charged to a car are exactly those of its tickets, and that its tickets are
apart: a ticket is issued only when none of its days is charged. The proof goes
over the two candidates of an observation one after the other, since the first
ticket may use up the days of the second. `NeighboursCovered` is about steps, and
follows from the same invariant: after a turn of the loop the days of its pair
are not free (`TurnCovers`), days that are charged stay charged, and of a
timestamp with at most one later observation the code's candidates are all its
neighbours. `RoundsUp` only adds tickets.

**TicketDispatchProofs** (assumptions: a ticket has a road, heartbeats are no
tickets, a channel has room for one). `TypeCorrect`, `NeverTwoCopies`,
`DeliveryImplemented`. `OnePlace` counts copies and is not inductive. `IInv` says
instead, for every ticket, that any two places it is in are the same place
(`Unique`), over queues, hands of forwarders, positions in channels and hands of
writers, and that a ticket that was not issued is nowhere; `CopiesCounted` turns
this into the count. The refinement maps a ticket that is issued, in no place and
with nobody, to a lost one: the lemmas about each action say exactly which ticket
leaves play, and such a step is the abstract `Leave` of its dispatcher.

**PestControlProofs** (assumptions: counts are naturals, the values that stand
for nothing are not policies, visits or clients). `TypeCorrect`, `OnePolicyEver`,
`SitesAgree`, `VisitsPrevail`. What a site remembers and what its authority has in
force disagree while an answer is on its way. `Believed` is what the site will
remember once it has read it, and inductive is that this agrees with the
authority (`Agree`), with the site locked by the visit whose request is on the
wire (`Locked`, `WireOK`), and the species that the visit has looked at right
(`Settled`). That a policy is created only where none is in force follows, and
with it `OnePolicy`.

**ComponentProofs**, first part, `VersionControl` (assumption:
`VersionAssumption`, what the names of the constants mean). `TypeCorrect` (types and `FoldersNested`), `PromisesAlwaysKept`, `StoreImplemented`. `IInv`
joins types, `FoldersNested` and `PromisesKept`: histories only grow, so that a
promise stays true. The refinement needs that the folders are exactly the proper
beginnings of the paths of files, so that a file is reached through folders that
exist, and a listing of folders and files is one of the files alone.
`LoopInStep` needs an invariant of its own, `CommandsQueued`: what is not read yet
is what was asked and is not answered, one command after the other (`Lined`), the
one that is being answered taken off. Its assumption about the requests is part
of `VersionAssumption`: each is one command (`Command`), a line, or a PUT that says
how much data follow, with that many.

**ComponentProofs**, second part, `ChatProxy`, which it instantiates
(assumption: `ProxyAssumption`, the space, the end of a line, a wide character,
addresses and Tony's are different tokens, as far as they must be).
`ProxyTyped` and `RelayCorrect`, which is `RelayedExactly`. Two things are joined:

- *What a line becomes.* `replace_address` is three folds. The library defines a
  fold by a function over the sets of places, chosen for its equation;
  `FoldDefined` shows that there is one, `FoldTrace` that it goes over the places in
  turn, and so `DoubledSteps`, `SubstitutedSteps` and `HalvedSteps` give what each
  pass has done after n tokens. `Places` says where a token is in the doubled line.
  `SubstitutedFacts` is the point of doubling: the place a match has used, `used`,
  is behind the first of the two spaces that the next address needs. `Replaced`
  concludes that a line is rewritten token by token (`NewToken`), and so has as many
  tokens as before.
- *Which line it is.* `RelayInv` says of a side that has not ended that what it has sent
  is, in order, what was written, the line that is being written, the part of a
  line read so far and what is not read (`InStep`), with the boundaries at ends of
  lines, and that the name is established exactly when a first line was passed. A
  match at the ends of a line is one in the whole text since each line starts after
  an end of line (`TakenLine`). Of a side that has ended it says that no whole line
  before a wide character is left behind (`Over`), which is only true since
  `get_next_line` notices the end of a side after it has handed on every line. Text
  sent later does not change what earlier lines become (`RewrittenStill`).

**ComponentProofs**, third part, `LrcpText`, which it instantiates as well
(assumption: `PacketAssumption`, a slash and a backslash are two characters, the
words of the types differ as far as they must, and a packet has room for one escaped
character). `PacketsRead`, which is `PacketsReadBack`, holds of every text of
characters, so that the only invariant it needs is that the text is one. The rest
is about operators, over the folds of the second part, and goes from a text to the
one with a character more (`ByPrefix`):

- *What is sent is read back.* `DoubledHalved`: halving the pairs of a character
  undoes doubling it, since what `Halve` keeps open is exactly whether the last
  character may begin a pair; twice this is `EscapedBack`. `EscapedSize` is what
  the check of sizes compares.
- *What is read was sent.* A content may hold a slash that nothing escapes, or an
  odd backslash, and then the two replacements still give some text. `ReadEscaped`
  says that this text is longer once escaped than the content was, unless the
  content was that: what a replacement has read never exceeds what doubling its
  result gives (`Fits`, `HalvedFits`), and no replacement of backslashes changes
  how many slashes there are. So comparing lengths is enough, as the code assumes.
- *Packets.* `FramedBack` and `Packets` take a packet of data apart and join it
  again, `ParsedBack`, `DataParsed` and `OthersParsed` do so for every type.
- *Chunks.* `SplitPieces`: after each character the chunks cut so far and the
  current one are the text so far (`Cut`), positions follow one another, no chunk
  is larger than a packet takes once escaped, and the current one is not empty as
  soon as the text is not, which needs room for one escaped character.

**LineReversalProofs** (assumptions: the three characters differ, a chunk has room
for one that is escaped, the inputs are texts, the channel has room for one, the
bounds are naturals, the epochs finitely many). The inductive invariant `Inv` joins

- `TypeOK`, where what is sent are packets whose data are characters of `Char`;
- `Linked`: what is acknowledged is behind what is sent, and the chunks left to
  send follow `sent_until` and one another without a gap or an overlap;
- `NoStall` itself, inductive with the other two: `process_buffers` ends either
  with a chunk on its way, or with no chunk and no complete line left;
- `Covered`: *every* byte between `sent_ack_until` and `sent_until` is carried by an
  internal message of the connection, in the channel, in a timer or in the hands
  of the task. `RetransmitPromised` says this of the first byte only and is not
  inductive, since an acknowledgement makes another byte the first;
- `SentBehind`: as long as the session was opened once, what is on its way to the
  peer, what the peer has and what it acknowledges end at or before `sent_until`.

Theorems: `TypeCorrect`, `NeverStalls`, `RetransmissionPromised`, `NoAckRefused`.
`TypeCorrect` states `Linked` with the types, and `Filled`, that no chunk that was
sent is empty: an answer has at least its newline, and `split_data` cuts off no
empty chunk of a text that is not empty.
`FlightStep` says once, for all actions, how internal messages come and go, and
`ConnectionStep` and `ProcessFacts` what a step does to the connection.
`AnswersArriveIntact` has the hypothesis `Epoch = {1}`, a session id that serves one
input, and a second invariant, `AnswersFollow`: the data on their way in are the
peer's text, what is buffered continues the consumed part of it, which ends at
the end of a line, what is sent and to be sent are pieces of the answers, and the
answers are cut up to exactly where the text is consumed. The hypothesis is needed: with a
second epoch the run `stale_retransmission` violates the property. Repeated connect
packets, and a session that expires and is opened again by a late one, are
included.
`SessionImplemented` proves `ImplementsSession`, step by step: every step of the
session is an `Arrive`, a `Handle`, a `SelfSend` or a `WakeUp` of `LineListener`,
or changes nothing that the main loop sees. `LineListener` counts internal
messages and bounds them, and this needs more than `Inv` (`SessionInv`):

- `Limited`: a connection has received, consumed and sent no more than the
  longest input has characters, and the chunks left to send end where the
  consumed text does;
- `Numbered`: an internal message is of this connection or an earlier one, and
  one of this connection starts before `sent_until`;
- `Apart`: no two internal messages in flight are of the same chunk, so that one
  that goes to sleep is not asleep already;
- `Opened`: connections and connect packets in the channel are no more than the
  connect packets that have arrived;
- `Afforded`: the internal messages in flight are no more than the characters
  that all connections so far can have sent. `process_buffers` sends a chunk that
  is not empty and so always has room under `MaxInternal`.

The channel's counts are
cardinalities of sets of positions (`CountAppend`, `CountTail`). The algorithms are part of the proof: `SplitData` (the chunks follow one
another and hold the data, none is empty but the one of empty data),
`TakeLineFacts` (the line cut off is reversed and ends at a newline) and
`AnswersFacts`. `split_data` is a function defined by recursion over the number of
characters read; `Recursion` shows that such a function exists, and `UpTo`, which
rests on the library's theorem that numbers are well ordered, replaces induction.

**ServersProofs.** `RevisionsKept`, `LoopInStepInProgram` and `StoreInProgram`: what is
proved of version control alone holds in the program; and `RelayedInProgram` and
`PacketsInProgram`, the same for the chat proxy and for the packets of LRCP. A step of the program is a step of the
server that is chosen, and every other server leaves the variables of version
control as they are (`VersionsAlone`, `ProxyAlone`, `PacketsAlone`). `CP` instantiates the proof module with the
same substitution as `V` instantiates the model, so `SameNext` only unfolds the
two copies of the definitions. The database and prime time are proved there from
their definitions. `InsertsRepeated` (assumption `DatabaseAssumption`: packets are
texts, the version has no = and fits a packet): `KeyAndValue` says what `parse` cuts,
`InsertsKey` that a packet inserts exactly the key before its first =, and `StoreInv`
that what is stored is what the last such packet inserted. `PrimesAlwaysTold`
(assumption `NumberAssumption`: `u64::MAX` is more than 3 and a multiple of it, as
2^64 - 1 is; numbers beyond are even integers): `Factors` relates `%` to products, and
`PrimeTold` follows `ceil`, the saturating cast and the comparison.

### What is only model-checked

- Everything temporal under fairness: `JobsReleased`, `TicketsServed`,
  `LinesAnswered`, `SitesIndependent`, `LinesRelayed`, `LoopGoesOn`. The prover does
  not treat liveness.
- What rests on powers: of `2^n` the prover knows no more than that it is an
  integer, not that it is positive or twice the power before, and so nothing can be
  proved of bits, of the values of bytes or of the ranges of integers.
  `RepliesUnderstood` (ciphers), `MeanAnswered` (ranges of sums), `MessagesReadBack`
  and `MessagesUnforged` (bytes of numbers). That no damaged message is read holds
  only of damage that a checksum of one byte tells, so the last one is not a fact of
  every set of messages either.
- `TypeOK` of `Servers`, the types of nine servers: proved only for those of
  version control and of the proxy, which `TypeCorrect` and `ProxyTyped` of
  `ComponentProofs` give; `Means`, `InsecureSockets` and the messages have ranges
  that are powers.

## What is not modelled

- JSON in p1 and p9: a line is a request or a bad line. Bytes that are not UTF-8
  in the strings of p6 and p11.
- In p7, characters of more than one byte, numbers beyond `u64`, the limit of 1000
  bytes, errors of the local socket when it receives, and the panic of a sleeping
  task that is polled too late (`p7_reversal.rs:313`).
- In p6, the cancellation of a plate that was read while its connection ends,
  and the speed printed on a ticket.
- In p8, counts of more than one digit: `max_by` is modelled on one.
- Memory that is never freed (deleted jobs in p9, sessions in p7, users in p3).
- p0, one call of `tokio::io::copy`; `prelude.rs` and `utils.rs`, names.
- Whole servers of p6, p7 and p11 in `Servers`: their messages are there, and the
  main loop of p7; their other tasks have runs of their own.

## Plan

Done, in the order of importance: p9 with its abstraction and proofs; p6,
tickets with proofs, dispatch with its abstraction and the proof that it
implements it; p7 with proofs; p11 with proofs; p3 with proofs; p10 with its
abstraction and proofs; p5; p8; p2, p4, p1; the binary messages of p6 and p11, and
the packets of p7; the choice of the server.

Next:

1. `TypeOK` of `Servers`, server by server.
2. Fairness for p3, so that a departure is heard in the end.

Runs are kept few, one per question: the servers without shared state, and the
formats of messages, are all in `servers`, since `main` runs only one of them.

## Running

    tlc -workers 2 -config MCJobQueue_jobs.cfg MCJobQueue
    tlapm JobQueueProofs.tla

and likewise for the other modules; `PROJECT.json` names the configuration and
the properties of every run, the mutation of the model that each property
detects, the source lines of every definition, and the theorems.

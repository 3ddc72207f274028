# A TLA+ model of go-achat-node

`go-achat-node` is a peer-to-peer chat node.  Every node runs the same program: it
sends and receives messages, it can serve as the *mailbox* that keeps messages for
peers that are away, it keeps groups, and it offers its user an HTTP interface
(`/rpc`, and the websocket `/chat`).  These modules model the Go code of the node;
the p2p library (`go-alibp2p`), LevelDB and `net/http` are modelled only as far as
their callers can tell.

## 1. Inventory

| Part | Source | State | Operations | Talks to |
|---|---|---|---|---|
| JIDs, messages | `types.go` | none | `NewJID`, `Peerid`, `Mailid`, `Ct`, `FromReader`, order of a `MessageList` | all |
| Chat service | `service.go` | `recvMsgCh` (128), `stop`, `handleMsgFn`, the dispatcher | PID_NORMAL handler, dispatcher, `AppendHandleMsg`, `DropHandleMsg`, `Stop`, `SendMsg` | peers and mailboxes by `RequestWithTimeout` (10 s) |
| Mailbox | `mailbox.go`, `ldb/database.go` | one LevelDB, a table per recipient | put, query, clean | its clients |
| `/chat` session | `rpc/server.go` | the bag, the ids written, the socket, its handler id | open, query, push, clean, register, read loop | chat service of its node, mailbox |
| Group database | `mailbox_group.go` | `groupTab`, chain of members, copy of the last one, chain of logs | update, member (add, remove, query) | the owners of groups |
| RPC gateway | `rpc/server.go`, `rpc/user.go`, `rpc/group.go` | `tokenmap`, user database | `auth`, dispatch, `sendmsg`, `myid`, `conns`, `user_*`, `group_create` | chat service, mailbox |
| Console client | `app/achat/cmd/achat/console.go` | `token`, `targetId`, `Stop`, `reqCh`; a goroutine per line and the write loop | `opensession`, `exit`, instructions, lines to send | gateway and `/chat` of a node, in its own process (`console`) or another (`attach`) |
| Command line | `app/achat/cmd/achat/main.go` | flags | start of a node, of node and client, of a client | all |

What makes the parts hard:

* **Goroutines.** A handler runs per request, a goroutine per message and handler, a
  goroutine per HTTP call, in the client a goroutine per line.  `handleMsgFn` is written under a lock and read without
  one; `tokenmap` and `targetId` have no lock; the group handlers read, compute and write LevelDB
  without one.
* **Requests with a timeout.** A caller may give up on a request that is still being
  served.  `SendMsg` then turns to the mailbox, so a message may take both ways.
* **Replies whose content is not read.** `SendMsg` takes any reply for a success.
* **Process ends.** What is on `recvMsgCh`, in `handleMsgFn` and in `tokenmap` goes; what is in
  LevelDB stays, including a half-finished chain.
* **Snapshots.** `/chat` reads a bag, writes it, and then deletes what it has read.

What makes each part correct: a message that is acknowledged is on the channel once,
each registered handler is called for it once, and no handler of the node hangs (chat
service); what is acknowledged as stored is there until its recipient cleans it
(mailbox); a session gets its own messages, in order, and leaves no handler behind
(`/chat`); links and copies name rows that exist, and the chain of a group is its list of
members (group database); nothing runs without a token of this process, what was
acknowledged is kept, and what is listed was made (gateway); a request of a line goes where the
client pointed while it was made, and does not hang (console).
`PROJECT.json` lists the hazards line by line with the properties that answer them.

## 2. Modules

```
Ids --+-- Types --+-- ChatService --+
      |           +-- Mailbox ------+-- Delivery  ==> Courier (refined)
      |           +-- WsSession ----+
      +-- Gateway       Console       GroupDB  ==> MemberList (refined)
```

`Delivery` composes three components; the others stand alone, and a
call of theirs to another part is a choice among its outcomes.  Each `MC...` module
gives the constants of a module their values; the `.cfg` files choose the instance.
Modules named `...Proofs` hold the theorems.

| Module | Models | Variables and the code's state |
|---|---|---|
| `Ids` | JIDs and GIDs as sequences of 53-character blocks | |
| `Types` | envelopes; which messages exceed `MAX_PKG`; `Ct`; the bags `doQueryMsg` may return | |
| `ChatService` | `service.go` without `SendMsg` | `recvMsgCh`, `stop`; `fn` is `handleMsgFn` (*in*) with its past; `loop`, `cur`, `todo` are the dispatcher and the handlers its range has yet to visit; `spawned`, `ran` its goroutines; `inbox` is the PID_NORMAL request of a message; `due` is history |
| `Mailbox` | `mailbox.go` | `tab` the rows *(prefix, message)*; `put`, `cleaning` the requests |
| `WsSession` | the `/chat` handler | `spc` where it is, `bag`, `ids`, `ws` whether the client is there, `sock` what it received |
| `Delivery` | `SendMsg` and all of the above together | `snd` the call of `SendMsg` |
| `Courier` | abstract: what sending and `/chat` promise | `status`, `got` |
| `GroupDB` | `mailbox_group.go`, one step per LevelDB call | `groupTab`, `member`, `memberLast`, `memberLog`, `lastlog`; `lg`, `itm`, `prve`, `nxt`, `at` are the locals of a handler |
| `MemberList` | abstract: what a mailbox keeps of a group | `list`, `served`, `lost` |
| `Console` | `console.go`, and `main.go` as far as it starts the two | `inproc` whether the node is in the process, `node`, `starts` its life and restarts; `main` where the main goroutine is; `token` the start of the node that gave it out; `targetId`, `Stop`; `wl` what the write loop posts; `job`, `req` the goroutine of each line; `since` is history |
| `Gateway` | `rpc/` without `/chat` | `tokenmap`, `userdb`; `pc` of each call, `out` what its method has returned, `rsp` what was written to its client; `made` the groups at the mailbox |

Modelling choices that matter:

* A **request** that is lost is one whose handler never takes its first step; a
  **timeout** is a step of the caller that is enabled as long as it waits; the handler goes on.
* The **data race** on `handleMsgFn` is a choice: a handler that is registered or dropped
  during the range is visited or not.  The Go runtime may also stop the process, which is
  one of the causes of `ProcessEnd`.  In `Gateway` the race on `tokenmap` is the action `MapFault`.
* `sort.Sort` is not stable and the rows come in the order of random ids: any order of
  messages with the same `Ct` is possible (`SortedBags`).
* **LevelDB** calls are atomic, survive the process, and may fail where `DbErrors` is TRUE, in
  `GroupDB` while a request of `Failing` is served.  An error that the code ignores leaves the row as
  it was; a chain may then have a gap, so the properties of the chains speak of runs
  as long as no call has failed (`NoFailure`).
* `Spec` of `GroupDB` is the program: its requests interleave and its process ends. `SerialSpec` is a question about
  `handleMember` alone, with one request at a time (`Idle`) in a process that stays. Nothing in the code serves requests so,
  and only the refinement of `MemberList` is asked of it.
* A method of `Gateway` returns (`Return`) and its response is written (`WriteTo`) in two steps; the process may end between
  them, so that a row may be put or taken out although the client was not answered. A panic of a handler (`Panic`) ends the
  call without a response.
* `Answers` in `Gateway` collects the methods that leave the gateway as it is; `conns` is like `myid`
  and has no name of its own.
* `GroupMember.action` is not exported, so amino leaves it out of a request: `Decode` gives
  what the handler sees.  `WireDecode` is the program; `CallDecode` calls `handleMember` with
  the action it is declared to take, to check its ADD and SUB code on its own.
* `MemberList` sees a group as the items from the first one along `next`. `Linked` says at which of
  its writes a change takes effect; once the database has failed nothing is promised (`Lose`), so that in `group_serial`
  the database works.
* In `Console` a line is `since` the values that `targetId` had between the time it was typed and the time
  its request was made. A call of the node returns with success or failure; it always fails when the node is gone or
  has started since `auth`. `reqCh` has no buffer, so `Take` is the meeting of the goroutine and the write loop.
* `ctx` is `context.Background()` and never done.  `achat` registers one handler that only
  logs; it is left out, as it touches no state.
* The definitions whose comment begins with *Mutant of* are not part of any specification: each
  is the definition it names with a plausible bug, and shows that the properties can tell.

## 3. Runs

Bounds: each request, session and call is made once, and `MaxCrash` bounds the ends of a
process.  Messages are few, but chosen so that the cases meet: two messages on a channel
of one fill it; two sessions overlap; two first updates race.

| Run | Instance | Shows |
|---|---|---|
| `chat_service` | 3 messages, one too long; `Cap` 1; 2 handlers; stops; any number of ends; fair | `QueuedOnce`, `DispatchComplete`, `AtMostOneCall`, `HandlerReturns`, `QueueDrains` |
| `delivery_sessions` | 1 message, 2 sessions, 1 process end | `SentIsAccounted`, `StoredUntilCleaned`, `CleanedWasPushed`, `RegisteredInLoop` |
| `delivery_order` | 2 messages of different seconds, a console that exits | `StoredUntilCleaned`, `CleanedWasPushed`; refinement of `Courier` |
| `delivery_kinds` | too long, no mailbox, group, unknown type; failing database | `SentIsAccounted`, `StoredUntilCleaned`; refinement of `Courier`: no row of another table is pushed |
| `delivery_live` | 1 message, 1 session, 1 end, console exit, failing database | `SendReturns`, `LiveReaches`, `SessionStarts` |
| `group_db` | `WireDecode`: 3 updates by two peers, an add during which the database may fail, 1 process end | `ChainsUnbroken`, `LogsUnbroken`, `UpdateLeavesMember`, `NoWayRound` |
| `group_serial` | `CallDecode`, one request at a time, in any order: 3 updates by two peers, one that does not decode, an add of two members and one of a third, a removal of three, queries from the first and from the last one, an unknown action | refinement of `MemberList` by the writes of ADD and SUB |
| `gateway` | 3 auths (one with a wrong password), put, get, group creation, deletes of both rows with the token of a later auth; failing database; faults of `tokenmap`; 1 end | `RunningIsAuthorised`, `PutIsKept`, `CreatedIsListed`, `ListedIsMade` |
| `console` | 7 lines: sessions with an id, with a short one, with none, exit, a call, two lines to send; 1 restart of the node; fair | `TargetWasCurrent`, `LineSettles` |

The type invariant of each module is checked in the run that exercises most of it.  With `Cap` 1 two messages fill the channel, which is what
`HandlerReturns` is about; that a message is on a *longer* channel only once is the
theorem `ChannelHoldsQueued`.

In `group_db` the request whose database fails is a member request, so that an update is served both with and without
a failure behind it; `group_serial` exercises SUB and the walk of a query. `sendmsg`, and parameters that are missing or of
another type, are in `Gateway` and in its proofs; in the run they would multiply the states and touch nothing that the
properties are about.

The capacity 128 of `recvMsgCh` is the constant `Cap`; in the runs it is one, and the theorems of section 5 hold for every capacity.
`CHECK_DEADLOCK FALSE` stands where every request has been served and nothing is left to do.

Liveness assumes weak fairness of the goroutines that can go on (the Go scheduler) and of
the outcome of each `RequestWithTimeout` (its timeout is 10 seconds).  Nothing is assumed of the
network or of a request that is on its way: `Receive` is not fair.  One thing is assumed of the client of
`/chat`: `ws.Write` returns.  The code sets no deadline on it, so a client that stays connected and reads nothing holds its
session, and `SessionStarts` and `LiveReaches` say nothing of it.  A client that goes away ends the write.
`Console` is fair to the main goroutine, except while it waits for the user, and to the goroutine of each
line with the write loop; a post returns, because `SendMsg` is bounded by its timeouts and a node that is gone refuses
the connection. The user types nothing, and the node need neither start nor end.
`LiveReaches` needs a session that is in its read loop, and gives up when the
client goes, the node stops or its process ends.

## 4. Where the documents and the code disagree

Each of these runs checks one statement of a document or comment and finds a behaviour of the
code that breaks it; `PROJECT.json` quotes the lines.

| Run | Statement | What happens |
|---|---|---|
| `delivery_open_stream` | after `open stream` the messages come on the connection (README.md:338) | one that arrives before `AppendHandleMsg` does not |
| `delivery_cleaned` | the mailbox is there to receive offline messages (README.md:40) | messages whose write failed are deleted |
| `group_members_added` | members are added (`mailbox_group.go:348`) | the action is lost on the way; the answer is SUCCESS |

Other divergences were met while modelling.  The models have the behaviour, and no run states them yet:

* A message over `MAX_PKG` is refused with a text; `SendMsg` takes the text for a success and asks no
  mailbox (development guide, lines 36-37).  `SentIsAccounted` therefore speaks of messages that fit.
* `ct` is in seconds, not the 13 digits of `types.go:51`: messages of one second come in any order.
* An update by another peer replaces the owner of a group and not its first member (`mailbox_group.go:113`).
* Two first updates of a group by one peer that overlap leave an item that is its own predecessor:
  a query along `prve` never ends (`AddedTwice` in `NoWayRound`). A member that is added twice does the same to its item.
* Two first updates by different peers that overlap may both write a first item; the copy of the last one names one of
  them, and no link leads to the other.
* A process that ends between `AddLast` and `SetLastlog` of the first update leaves a group without a copy of its last log,
  and no later update writes one: `getGroup` gives out no `Lastlog`.
* SUB of the member before the last one mends the item of the last one and not its copy under `memberLastK`; the next ADD
  writes the copy back, and the item links back to a row that was deleted. The code does not get
  there today, because the action is lost.
* `user_get` does not find a user by an id with a mailbox part (README.md:183).
* A `group_create` that fails at the mailbox panics, and no error message is sent (README.md:89).
* A line typed in one session of the console may go to the next one, or be taken for the name of a method: its goroutine
  reads `targetId` later. It reads it twice: with an `exit` in between it is a message to the empty id, so to nobody
  (`console.go:257-258`), which `TargetWasCurrent` allows. Two lines may reach the node in either order.
* `opensession` without an id, or with one of less than six characters, ends the console with a panic.
* `console` gives its node two seconds to start, and ends with it when that is not enough (`main.go:157`).

## 5. Proofs

TLAPS checks these theorems for every value of the constants, from the assumptions the
modules name (`TypesAssumption`, `ChatAssumption`, `MailAssumption`, `SessionAssumption`,
`DeliveryAssumption`, `GatewayAssumption`, `ConsoleAssumption`, `NoReqAssumption`, `GroupAssumption`, `NoneAssumption`):
sets of the right type, finitely many messages, a positive capacity.

* `ChatServiceProofs`: `TypeCorrect`, `ChannelHoldsQueued`, `NoHandlerMissed`,
  `NoHandlerCalledTwice`.  The inductive invariant `ChatInv` adds to the properties that a
  message in the hands of the dispatcher is `taken`, that a goroutine exists only for a message
  that was taken, and that nothing is `due` for a message that has not been: without these a second
  `Take` of a message, or a call for one that was never dispatched, cannot be excluded.
* `MailboxProofs`: `MailTypeCorrect`, `StoredMessagesKept`.  The invariant adds that a clean that
  has not been asked for is at its first id.  The step that matters is one turn of the loop of `doCleanMsg`:
  the row it deletes is the one it goes past, and a clean never goes back (`CleanedStays`).
* `DeliveryProofs`: `DeliveryRunsChat` and `DeliveryRunsMailbox` (every behaviour of `Delivery` is one of `ChatSpec`
  and of `MailSpec`, so that what the two modules above prove holds in it, `StoredUntilCleaned` first of all), then
  `DeliveryTypeCorrect`, `HandlersFollowSessions`, `CleanedMessagesPushed`, `SentMessagesAccounted`.  The invariant
  `DeliveryInv` is `ChatInv`, `MailInv`, the types of what `Delivery` adds, and what ties the parts together:
  `RequestsInv` and `SentInv`, that only what was sent is requested or queued, at the peer it names, and that *sent* means
  one of the two requests was answered (`SentIsAccounted` says nothing of how the answer came);
  `RegisteredInv`, that a handler is `fresh` until its session registers it, so that the deferred
  `DropHandleMsg` always finds its own; `CleanInv`, that a clean names the mailbox of its session and just the `ids` that
  it has written, from which a row that is gone was pushed; and `BagInv` with `SockInv`, that what is left in
  a bag comes after what has been written, once, and that a client received only what its session wrote or its handler ran for.
* `CourierProofs`: `DeliveryImplementsCourier`.  The mapping takes the two states in which `SendMsg` waits to *sending*.
  `BagInv` gives the order and the uniqueness of the offline messages; that none of them comes
  after a live one is `SockInv` with `RegisteredInv`: while a session pushes, its handler is `fresh` and has run for
  nothing.  An end of the process settles all the calls it cuts off at once, which is why `Settle` takes a set.
* `GatewayProofs`: `GatewayTypeCorrect`, `MethodsAuthorised`, `UsersKept`, `GroupsListed`, `ListedGroupsMade`.  The
  properties speak of responses, and the process may end between the write of a row and the response, so they are not
  inductive: `RowsKept` and `GroupsKept` say the same of `out`, of every method that has returned, answered or not.  The
  invariant adds that only the right password puts a token in the map, and that a call in the hands of `auth` or of
  `group_create` is one (`Places`): without it any step could acknowledge a put that it had not made.
* `ConsoleProofs`: `ConsoleTypeCorrect`, `LinesReachCurrentTargets`.  The invariant `ConsoleInv` adds `Stages`: a line that
  has yet to make its request counts the present `targetId` among those it saw, one that was taken for a message has seen a
  session, and one that is offered or called has its request.  Without it the request made by `Build` could name an id that
  `targetId` had not held.
* `GroupDBProofs`: `GroupTypeCorrect`, `NoGapInLogs` and `UpdatesLeaveMember` for any `Decode`; `NoGapInChains` and
  `QueriesEnd` for `LostField`, the one that `GroupMember` with its unexported field has (`WireDecode` of the runs is of
  this form).  All are about `Spec`: any interleaving, any process ends.  The first invariant, `Typed`, says where each handler
  is and which of its locals are set there: without it no write can be shown to put an item.
  For the logs, `LogsInv` adds that the log a handler is about to link to, and its own once it was put, are stored.
  `UpdateInv` adds that an update that is past `AddLast`, or that found a last member, has left the group one, and that a
  group with a last member has a log (`LogFirst`), whichever update began the initialisation.
  With the field lost, `Wire` says that only `saveGroup` gets to the chain, with its caller as the item; from it
  `ChainsInv` says that whatever a handler is about to link to (the item in its hands, its predecessor) is in the store.
  `ChainsUnbroken` alone is not inductive: an `addlast` could make a first row of an item that was never written.
  `QueriesEnd` rests on `RoundInv`: what is about to be written again is stored with the same link backward
  (`HeldRight`), so that writing it changes `next` only, and every stored item has an update behind it that is past storing
  it (`Added`), so that none is stored twice unless its peer overlaps itself.  An item that is stored is therefore new: it
  links back to one that is there already, none links back to it yet, and it links forward to none.

Only model-checked: the refinement of `MemberList` by `GroupDB`, for requests served one at a time, and every liveness
property.  `MemberList` sees the chain of a group by following `next` from the first item for as many steps as there are
peers, a recursive function whose value after an ADD or SUB would have to be found by induction over the chain; liveness
under fairness is out of reach of the prover.

## 6. Not modelled

* The JSON and amino codecs, apart from the size limit of a message, the lost field of a group member and the two
  forms of a line in the console.
* `go-alibp2p`: discovery, relays, streams.  A request is answered, fails, or times out.
* The history, completion, help and printing of the console, its read loop (which only prints), the flags and the
  logging of `app/achat`, and the scripts.
* `conns` (reads the p2p host only), `PID_GROUP` and the two group protocols without a handler.
* `mailbox.Stop`: nothing calls it, and nothing reads its channel.
* Batches and the other unused calls of `ldb`.

## 7. Plan

Done: `ChatService`, `Mailbox`, `WsSession`, `Delivery` with `Courier`, `GroupDB`, `Gateway`, in this order,
because a message that is sent and not received is what a chat program must not have; then `MemberList` and
`Console`, and the proofs of section 5: first of each component, then of `Delivery` as their composition and as
`Courier`, then of the chains of a group.  Next:

1. The lists of `MemberList` without induction over the chain: an auxiliary variable that holds the list of a group and
   changes where `Linked` does, and as an invariant that the links of the items are those of the list.
2. Runs for the remaining divergences of section 4.
3. In the models: two messages with two sessions and a shared mailbox.

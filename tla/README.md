# Event-Driven Gateway: TLA+ models and proofs

The gateway (`src/`) is one C++17 process: a single epoll reactor thread serves HTTP,
server-sent events and a small line protocol; four worker threads run the chat agents,
which call an LLM over libcurl and execute tools; everything the workers produce comes
back to the reactor through a completion queue. This directory holds the models of its
core, the TLC configurations that check them, and TLAPS proofs.

## 1. Inventory of the system

| component | state | operations | talks to |
|---|---|---|---|
| `EpollLoop` | `connections_`, `fd_events_`, `pending_close_fds_`, `ready_fds_`/`ready_set_`, epoll, listening and event descriptors | `init`, `run` (wait, dispatch, timers, completions, deferred closes), `handle_accept`, `handle_read`, `remove_connection`, `process_ready_fds`, `check_idle_connections`, `schedule_close`, `schedule_flush`, `wakeup` | kernel, owns connections, pool, timers |
| `ClientConnection` | `fd_`, `read_buffer_`, `write_buffer_`, `write_registered_`, `close_requested_`, `handler_`, `last_active_` | `on_readable`, `handle_write`, `send_data`, `request_close`, `close_connection`, `flush`, `wakeup` | loop (interest, deferred close), handler |
| `ConnectionContext` | weak reference to the connection, shared `canceled` flag, `pending_llm` | `send_data`, `get_conn` | copied into agents |
| `ThreadPool` | `task_`, `completions_`, `stop_`, two mutexes, one condition variable | `enqueue_with_callback`, `worker_loop`, `post_completion`, `process_completions`, `stop` | wakes the loop |
| `TimerManager` | heap, `canceled_map_`, `active_ids_`, `next_id_` | `add_timer`, `cancel_timer`, `get_next_timeout_ms`, `process_expired_timers`, `clean_canceled_timers` | called by the loop and by `SseHandler` |
| `SseHandler` | event queue (64), heartbeat timer, `closed_` | `begin_stream`, `push_event`, `start_heartbeat`, `process`, `close` | context, timers |
| `HttpChannel` | parser state, counters, request | `process`, `handle_get`, `handle_post`, `reset` | context, hands a chat to `SseHandler` |
| `CustomLineHandler` | none | `process` | context |
| `AgentLoop` | `state_`, `iteration_` | `run`, `execute_loop`, `execute_tools`, `emit_terminal` | LLM service, tools, session, pool |
| `SessionManager` | `sessions_`, `last_activity_` | `append_message`, `get_history`, `get_recent_messages`, `trim_history`, `cleanup_expired_sessions` | shared by all agents |
| `LLMService` / `HttpClient` | line buffer, tool-call fragments / a curl multi handle | `call`, stream parsing / transfer loop polled every 100 ms | agent |
| `ToolRegistry`, `ToolExecutor`, `TimeTool` | table filled before start | `execute_single` | agent |

Interactions. The reactor calls handlers, timers and completions synchronously; workers
share with it the two queues of the pool, the `canceled` flag of a connection, the eventfd
and the session table. Descriptors are numbers the kernel reuses at once; three lists of the
loop (`pending_close_fds_`, `ready_fds_`, the batch of epoll events) outlive the descriptor
they name.

What is hard to test:

* edge-triggered readiness: whatever a turn leaves unread or unsent has to have an edge left;
* re-entrancy: `send_data` may close the connection its caller is working on;
* the order close / erase / accept inside one batch of events;
* half-close, reset and a full socket buffer at every step of a request;
* the lost wake-up between `post_completion` and `epoll_wait`, and between `notify_one` and
  `tasks_cv_.wait`;
* cancellation of an agent racing with its completion, and of a timer with its own callback;
* two agents working on one session; trimming in the middle of a turn;
* requests and LLM responses cut anywhere by the network, pipelined requests, a tool call whose
  fragments come mixed with another's;
* a client that leaves while its agent waits for the LLM; the idle limit of a connection and the
  timeout of the LLM call, both 60 s.

What makes each component correct is listed with the runs in section 3; `PROJECT.json` lists
the hazards at their lines with the properties that cover them.

## 2. The modules

```
EpollKernel  <- ClientConnection <- EpollLoop <- MCEpollLoop        (the reactor)
                                    EpollLoop <- ReactorProofs
ThreadPool   <- ThreadPoolProofs                                     (the pool)
TimerService <= TimerManager <- TimerProofs                          (the timers; <= is refinement)
SessionManager <- AgentLoop  <- AgentProofs                          (the chat agents)

HttpMessages <- HttpService <= RequestStream                         (one connection's input)
HttpMessages <- HttpChannel <- CustomLineHandler <- RequestStream <- MCRequestStream
                                                    RequestStream <- RequestProofs

HttpClient <- LLMService <- ChatStream <- MCChatStream               (one chat, end to end)
              LLMService <- RelayProofs <- ChatProofs
AgentLoop                <- ChatStream  <- ChatProofs
AgentLoop <- AgentProofs               <- ChatProofs
SequenceLemmas           <- RelayProofs, RequestProofs               (facts about FlattenSeq, IsPrefix, IsSuffix)
```

**`EpollKernel`** is the part of the operating system and of the peers the loop can see:
one TCP connection per client with a receive queue, a send buffer of `SockCap` units and a
peer that may send, half-close, reset or read at any time; edge-triggered readiness as an
`armed` bit per descriptor; a close frees the number at once. It is external code, modelled
from the calls the gateway makes.

**`ClientConnection`** holds the connection objects. Its operators are the member functions
(`send_data`, `request_close`, `handle_write`, `close_connection`, `add_write_event`, ...)
as complete effects, because the code calls them from many places in one step.

**`EpollLoop`** is `run()`. One action is one system call or one callback of the loop with the
code around it; `pc` says where the turn stands and `cur` holds the locals of the event being
handled:

| code | actions |
|---|---|
| `epoll_wait`, dispatch | `EpollWait`, `Dispatch` (listening socket, eventfd, socket), `EventsDone` |
| `handle_accept` | `AcceptRegister`, `AcceptReject` (503), `AcceptStop` (EAGAIN, EMFILE) |
| `on_readable`, recv loop | `RecvBytes`, `RecvAgain`, `RecvEof`, `RecvError` |
| `on_readable`, protocol | `Detect`, `NeedMore`, `ServeKeepAlive`, `ServeLast`, `Refuse`, `ServeAgain`, `UpgradeSse`, `UpgradeChat`, `ReadFinish` |
| rest of the event | `AfterRead` (HUP/ERR, EPOLLOUT) |
| `process_ready_fds` | `FlushNext`, `FlushEvent`, `FlushDone` |
| timers | `FireIdle`, `SweepOne`, `FireHeartbeat`, `TimersDone` |
| completions | `Deliver`, `DeliverTrailer`, `FinishChat`, `CompletionsDone` |
| `pending_close_fds_` | `DeferredClose`, `TurnDone` |
| peers, clock, workers | `Peer`, `Expire`, `BecomeIdle`, `AgentEmit`, `AgentDone`, `AgentStop` |

Input is a sequence of frames, each one of the things the loop's decisions depend on: an
incomplete request (`part`), bytes that are no HTTP/1.1 request (`junk`), a request answered
with keep-alive (`keep`) or with close (`last`), `/events` (`sse`) and `/v1/chat` (`chat`).
Output is counted in response units. `crashed` is the call through a null `handler_`.

**`ThreadPool`** has one action per section under a mutex, and separate actions for what the
code does after unlocking (`NotifyOne`, `WakeReactor`, `NotifyAll`), so that other threads act
in between. The reactor appears with the part of its turn that touches the pool.

**`TimerManager`** has one action per section under its mutex, driven by the phases of the
reactor's turn, with callbacks that add and cancel timers. **`TimerService`** says what it
promises: only a pending timer starts, not before its time, one at a time; cancelling is final;
a periodic timer is pending again a period after its callback returned. Lazy deletion (the heap
nodes of cancelled timers, the map of marks) is invisible there.

**`SessionManager`** is one entry of `sessions_`: entries do not touch each other, and a missing
entry is an empty history. Messages are `[role, by, round, n]`, what the properties tell apart;
agent, round and number stand for the `tool_call_id`. `quiet` says that `last_activity_` is
more than an hour ago.

**`AgentLoop`** is the worker's side of a chat, for any number of requests with one
`session_id`. An action is a piece of `execute_loop` with at most one access to the session,
so that other agents and the reactor's cleanup act between any two of them:

| code | actions |
|---|---|
| `run`, head of the loop | `Start`, `GiveUp` (rounds used up), `NoticeCancel`, `CallLlm` (reads the history) |
| after `call_llm` | `CallCanceled`, `CallFailed`, `CallSucceeds` (saves the question once) |
| `execute_tools` | `SaveCalls`, `SaveTool` |
| final answer | `SaveAnswer` |
| reactor | `Cancel`, `HourPasses`, `Cleanup` |

An exception of a call counts as a failed call: both end in `emit_terminal`. `HourPasses` leaves
out an hour between two appends of one agent, since between them lies at most one call, whose
transfer is limited to 60 s. `shared` is a history variable: two requests have overlapped.

**`HttpMessages`** says what a client may send, as tokens: a word of a line, CR, LF, a piece of a
body. A cut inside a word makes the code wait exactly as a cut before it does, because every
line is looked at only when its end is there; CR and LF are two tokens, since the code looks for
both. Limits count tokens. `ScriptAssumption` says only that the records frame their bytes: no line end
inside a line, no header that is empty, a body as long as announced; that a client keeps to one protocol;
and that what is known as neither does not begin with their marks. Paths, methods, headers and values,
repeated or malformed, are free. **`HttpService`** is the promise to a client: each request is answered
by itself, in order and once. `Answer` reads the answer off the request's record, in one piece and
without a state machine. **`HttpChannel`** and **`CustomLineHandler`** are the two handlers on the bytes, and
**`RequestStream`** is `on_readable` over them:

| code | actions |
|---|---|
| recv loop | `RecvBytes` (any number of tokens), `RecvEof`, `RecvAgain` with the detection |
| `HttpChannel::process` | `NeedLine`, `RequestLine`, `EndHeaders`, `HeaderLine`, `parse_body` |
| whole request | `handle_get` with `serve_static_file`, `handle_post`, `OtherMethod` |
| `CustomLineHandler::process` | `LineProcess`, one line |
| the results | `Close`, `Continue`, `NeedMore`, `UpgradeSse` |

Left out here: receive errors, resets and a full write buffer (they are `EpollLoop`'s), what happens
to a connection once its close is requested, a path's query, a `Content-Length` that is not the
body's length, bodies of methods other than `POST`, and file-system errors of an existing file
(500, 400). A file is one answer although it is sent in pieces of 64 KiB.

**`HttpClient`** is the loop of `post()` over curl_multi: perform, look at the flag, poll. What
`perform` brings, whether the transfer ends, breaks or times out is a choice. **`LLMService`** is
`on_data` and the parsing of the events: `pending_line`, what was emitted, the fragments by index. A
line of the response is two halves and a line end, so that a piece may end inside or between lines;
a half line is no JSON and is skipped. The CR of a line end is trimmed by the code and has no token.
An id that is present but empty replaces an earlier one, an absent one does not (`NoId`). A response
that is cut short counts as broken: libcurl knows its length or waits for its last chunk, but of a
body that only the end of the connection delimits it could not tell; such answers are left out.
`Gather` is the loop over the fragments of a line; `CallIn`, which is not made of it, reads a call
off all the fragments of the reply at once.

**`ChatStream`** composes them with `AgentLoop` (its `CallLlm`, `CallFailed`, ... are conjuncts
of the actions here), the completion queue and the connection:

| code | actions |
|---|---|
| worker: `run`, rounds | `StartChat`, `GiveUpChat`, `StopChat`, `CallOver`, `FinishChat` |
| worker: the call | `BeginChatCall`, `CallStep` (the steps of `LLMService` and `HttpClient`) |
| worker: `execute_tools`, `execute_single` | `SaveChatCalls`, `RunTool` |
| reactor: a completion | `Deliver` (`send_data`; for `done` also the end chunk and `request_close`, which one lambda does) |
| reactor: socket, sweep | `HandleWrite`, `IdleClose` |
| client | `ClientLeaves` |

`ToolCountAssumption` ties the two components' constants together: a reply has a number of named tool
calls that `AgentLoop` admits as the outcome of a call.

There is one chat, its message is not empty, and a chunk is one value. The socket takes any number
of chunks at a time. `IdleClose` happens only when the call has been silent for as long as its
timeout, since both limits are 60 s. Cleanup of sessions and other agents are left to `AgentLoop`.

Definitions whose name ends in `_Faulty`, `_Retry` or `_Joins` are slips a change to the code could make. No
specification uses them; each is paired in `PROJECT.json` with the property that notices it.

## 3. Runs

| run | asks | result |
|---|---|---|
| `reactor_safety` | do tables, edges, closes and cancellation stay consistent under every interleaving | passes, about 4 million states |
| `reactor_liveness` | do closing, idle, waiting and finished connections get there | passes |
| `threadpool` | wake-ups, order, draining, termination | passes, about 240,000 states |
| `timers` | lazy deletion, punctual sleep, refinement, no starvation | passes, about 230,000 states |
| `agents` | histories, requests, terminal chunks and ends of two agents on one session | passes, about 750,000 states |
| `http` | is every stream of requests answered request by request, however it is cut | passes, about 44,000 states |
| `chat` | does the client get what the LLM said, whatever breaks on the way | passes, about 760,000 states |
| `finding_fd_reuse`, `finding_reset`, `finding_half_close`, `finding_idle` | what the documents say of the reactor | violated, see section 6 |
| `finding_turn_cut` | what the documents say of trimming | violated, see section 6 |

Properties of the reactor. `TablesAgree`: although closing, erasing and accepting are apart,
a live object is always in the table under its own descriptor, every accepted socket has a
live owner, and `fd_events_` equals the kernel's interest. `NoLostEdge`: when the loop goes to
sleep, unread input, a reset and sendable output each have an edge left. `EofIsAnswered`: a
half-close is never forgotten. `TurnEndsClean`: whichever place closed a connection, the turn
ends without it in the table. `CancelReachesAgent`: every end of a connection sets the flag its
agent polls. `FlushFindsSse`: the flush list never reaches a parser of another connection, and
a heartbeat is flushed before the next one is queued. Liveness: `IdleIsClosed`,
`CloseCompletes`, `BacklogIsServed`, `ChatIsClosed`.

Properties of the pool. `NoLostWakeup`: the reactor never sleeps on a completion.
`WorkConserving`: no worker sleeps over a task nobody is coming for. `PostsInOrder`: a task
runs once on one worker and its posts arrive once, in order, the callback last. `StopDrains`
and `StopReturns`: `stop()` returns, and not before every accepted task has run.
`TaskCompletes`: every callback eventually runs on the reactor.

Properties of the timers. `BooksBalance`: every id still around has exactly one node and is
active or marked, never both. `NoOversleep`: the rest of the timeout never ends after an active
timer's time. `ImplementsService`: the refinement. `DueIsServed`: no expired timer starves; a pass
that a periodic timer joins again and again never ends, and a timer that expires meanwhile is not collected.

Properties of the agents. `NeverStartsWithTool`: no interleaving of agents, trimming and cleanup
leaves an answer nobody asked for at the head. `OverLimitIsOneTurn`: what is above the limit
holds no later question to cut at. For requests of a session that do not overlap,
`SerialRequestsAreValid`: every call gets a history in which each tool call is answered right
behind it, also after turns that failed or were cancelled in the middle; and `OwnTurnIsSent`: it
gets its own question once and all earlier rounds. `DoneIsLastAndOnce`: exactly one `done`, as
the last chunk, unless the client left. `AgentEnds`: no agent keeps its worker for ever.

Properties of one connection's input. `ImplementsService`: the refinement; no cut of the stream
lets a byte of one request into the answer of another, answers twice, out of order, too early or
after the end; of a connection that opens with `TOOL|time` it says nothing (section 6).
`NothingWaits`: no request that is wholly there is left in the buffer when the loop
sleeps. `TurnEnds`: an incomplete request does not keep the reactor in `process`. `TypeOK` holds
the parser's limits too.

Properties of a chat. `ReplyIsRelayed`: what was emitted is a prefix of what the LLM said, and all
of it when the call succeeds. `CallsAreWhole`: a successful call yields the named call of every
index once, with the pieces of its name and arguments in order; two indexes may hold equal calls,
which are then two. `CancelIsPrompt`: at most one poll ends after the
client left. `ClientSeesReply`: the client's view is a prefix of what was said, and the closing
chunk means that nothing is missing. `ChatEnds`: the server closes every chat in the end.

### Bounds

| bound | value | why it is enough |
|---|---|---|
| `Clients`, `Fds` | 2 clients, 1 number, `MaxConn` 2 (safety) | one number for two connections forces every reuse, and `EMFILE`; a third client only repeats the second |
| | 2 and 2, `MaxConn` 1 (liveness) | the limit of 512 is met by the second client |
| `Scripts` | `HttpAndStream` (safety), `OneRequestEach`, `Pipelined`, named in `MCEpollLoop` | keep-alive, closing, incomplete and refused requests by one client, streams and chats with input behind them by the other |
| `MaxRead`, `MaxWrite` | 2 | full, one below full, empty |
| `SockCap`, `MaxInFlight` | 1 | each response may fill the socket, each read may have to wait |
| `MaxCompletions`, `MaxChunks`, `MaxEmits` | 1 | an event and a `done` of each agent; the queue is empty, full, and refilled while it drains |
| `Workers`, `Tasks` | 2, 3 | more tasks than workers, more workers than the notified one |
| `MaxTimers`, `MaxTime` | 3, 3 | a running, a cancelled and an added timer, several periods |
| `Delays`, `Intervals` | {0, 2}, {0, 1} | expired at once or later; one-shot or periodic |
| `Agents`, `MaxIterations` | 2, 2 (the code: 10 rounds) | two requests that overlap or follow each other; a first round, a later one, and giving up |
| `ToolCounts` | {0, 2} | no tools, and a turn that is interrupted between two answers |
| `MaxHistory` | 4 (the code: 100) | a turn with one round of tools fills it, one with two rounds (seven messages) exceeds it, a second turn makes it cut |
| `Scripts` (http) | `MCScripts`: one to three requests | each kind of answer as first, after a body with CR LF in it, after a `keep-alive` and before further input; both handlers; a line no handler knows |
| `MaxHeaderBytes`, `MaxHeaderCount`, `MaxBody`, `MaxRead` | 18, 2, 3, 32 tokens | a request at each limit and one above it |
| `Replies` | seven, in `MCChatStream` | content and reasoning, mixed fragments, a name in pieces, an index without a name, two equal calls, a last line without its end, an error status |
| `MaxWait` | 2 polls (the code: 60 s in polls of 100 ms) | silence at the start, in the middle, and until the timeout |
| `MaxWrite` (chat) | 3 chunks (the code: 4 MiB) | a buffer that fills before `done` and one that `done` overflows |
| `MaxHistory` (chat) | 8 | trimming is the subject of `agents` |

### Fairness

`FairSpec` of the reactor assumes that the reactor thread runs, that the idle timer keeps
expiring (a clock), and that an agent ends (the LLM call has a curl timeout); `ReadingSpec`
adds that peers read what they are sent. Nothing is assumed about peers sending, closing or
resetting. The pool assumes that threads are scheduled and that `epoll_wait` returns once the
eventfd is readable, not that any socket or timer ends the wait, and not that `stop()` is called.
The timers assume that the reactor runs and the clock advances, and only the timeout ends a wait.
The agents assume that workers run and that a call returns (its transfer has a timeout); no
request has to arrive, no client to leave and no hour to pass. `RequestStream` assumes only that
`on_readable` runs on once it was called. `ChatStream` assumes a free worker, that it runs, that
the reactor delivers, and that the client reads; the LLM may be silent, which ends in the timeout
(`waited` reaches `MaxWait`).

## 4. Proofs

`ThreadPoolProofs` proves, for any non-empty finite set of workers, any tasks and any number
of posts (`PoolAssumption`; the gateway constructs its pool with four threads):

* `TypeCorrect`: `TypeOK`, inductive as it stands.
* `WakeupNotLost`: `NoLostWakeup`, inductive with `TypeOK`: the only post that skips the wake-up
  finds the queue non-empty, a worker that owes one stays in `wake` until it writes, and
  the reactor returns to `wait` only through an empty queue.
* `WorkIsConserved`: `WorkConserving`, by counting: `Append` adds a task and a pending
  notification, `notify_one` turns the notification into a worker at `check`, `Take` removes a
  task and that worker, and a worker goes to sleep only on an empty queue.
* `ExitIsFinal`: `ExitInv`, the strengthening that `StopDrains` needs: an exited worker implies
  a stopped pool and an empty queue, and workers that are not in a task own none.
* `StopDrainsQueue`: `StopDrains`, from `ExitInv` and `Accounted`: an accepted task is queued,
  owned by a worker, or has its callback in `delivered \o completions`.
* `PostsAlwaysInOrder`: `PostsInOrder`, which speaks of the positions of a task's posts in what was
  delivered and queued. Inductive with `OnceInv`: a task is in the queue once, or with one worker, or
  through, so nobody else moves the counter from which it numbers its posts.

`TimerProofs` proves, for any number of timers, any delays and periods and any length of time
(`TimerAssumption`: all are natural numbers, and `NoTimer` is not an id):

* `TypeCorrect`: `TypeOK`, inductive as it stands.
* `BooksAreBalanced`: `BooksBalance`, inductive with `PassInv` (the pass's list and the running
  callback are empty outside their phases, and there is at most one callback): without it
  `Collect` could overwrite nodes that are still in `due`.
* `NeverOversleeps`: `NoOversleep`, from `SleepInv`, which says the same of cancelled nodes too.
  Timers change only while the loop is awake, and the clock takes from the timeout what it adds
  to the time.
* `RefinesTimerService`: `ImplementsService`. The mapping needs `BooksBalance` (an active id has
  exactly one node, so moving it between heap, pass and callback is invisible) and `DueInv`
  (what the pass holds has expired, so no callback starts early). `add_timer`, `cancel_timer`,
  `Call`, `Requeue` and `Tick` map to the service's steps, everything else to stuttering.

`AgentProofs` proves, for any number of agents of a session, any limit of the history, any number
of rounds and any numbers of tool calls (`SessionAssumption`: the limits are positive):

* `TypeCorrect`: `TypeOK`, inductive with `SessionInv`.
* `HistoryStartsWell` and `OnlyOneTurnIsOver`: `NeverStartsWithTool` and `OverLimitIsOneTurn`, from
  `SessionInv`. Its part `Good(history)` is what trimming keeps (lemmas `Trimmed`, `Appended`): no
  system message, since the code appends none; no tool message in front; above the limit no
  question that could be cut at. `ToolsInv` is needed for `SaveTool`: an agent in its tools has
  just appended, so the history is not empty and no cleanup is due; `RoundInv` types the rounds.
* `DoneOnce`: `DoneIsLastAndOnce`, inductive with "an agent that has not ended has not closed
  its stream".

`AgentProofs` also proves, from the same assumptions, what holds of a session as long as no two of its
agents have overlapped:

* `SerialRequestsAlwaysValid` and `OwnTurnAlwaysSent`: `SerialRequestsAreValid` and `OwnTurnIsSent`,
  from `SerialInv`. `PendingInv` is the shape of the history: every call has its answers, except
  that the one being executed has the first `next - 1` of them, at the end. `TurnInv` keeps the
  question and the rounds of the running turn in the history, with no question behind them: trimming
  cuts at a question, so it either leaves them alone or would have to cut at the turn's own question,
  and keeps it then. `AloneInv` is needed because the next agent starts on what the last one left, and
  because the cleanup after an hour falls only before anything of a turn was saved.

`ReactorProofs` proves, for any clients, descriptors, scripts of the clients and any sizes of
buffers, queues and sockets (`KernelAssumption`, `BufferAssumption`, `LoopAssumption`):

* `ReactorInvariant`: `Inv`, that is `TypeOK`, `ControlInv` (at which place of `run()` which locals are in
  use) and `TablesInv`. The last is `TablesAgree` with what the steps rely on: a client of the backlog is
  in no table, a closed object that is still in the table is on the list of deferred closes, a
  descriptor without an owner is not armed. `ReactorTypes`, `TablesAlwaysAgree`, `TurnsEndClean` and
  `CancelAlwaysReachesAgent` follow from it.
* `NoEdgeIsLost` and `EveryEofIsAnswered`: `NoLostEdge` and `EofIsAnswered`, from `FlowInv` (who has output
  waits for EPOLLOUT) and `EdgeInv`. Something that the kernel would report but holds no edge for is a
  debt of the loop (`InDebt`, `HupDebt`, `OutDebt`, `FinDebt`), and `EdgeOf` says where the debt is: in an
  event of the batch not dispatched yet, or with the handler that is at work. No step but
  `epoll_wait` makes a new debt (`ShapeMakesNoDebt`), so each handler only has to pay its own; in
  `wait` there is neither batch nor handler, hence no debt. The claim excludes `crashed`, the place
  after the call through the null handler (finding 2), where the loop does not wait any more.
* `FlushAlwaysFindsSse`: `FlushFindsSse`, from `FlushInv`. A descriptor on the flush list may be closed and
  given to a new client within the turn; `ListInv` says that the new client then has no handler and no
  event in this turn, `WakeInv` that the list is emptied in the turn that finds it filled, and `QueueInv`
  that what is queued is on it, so that a heartbeat that fires finds an empty queue (`StreamInv`).

The steps are first reduced to a few shapes (`EveryStepHasAShape`: one connection is touched, one
accepted, one erased, peers act, the loop looks), about which the invariants are then proved.

`RelayProofs` holds the lemmas about one call, `ChatProofs` proves, for any replies of the LLM, any
timeout, any buffer size and any number of rounds (`ReplyAssumption`, `ChatAssumption`,
`ClientAssumption`, `SessionAssumption`, `ToolCountAssumption`):

* `CancelFreesWorker`: `CancelIsPrompt`, from `CancelInv`: a counted poll implies that the flag is
  set, and a poll under way implies that none is counted, because a look at the flag precedes
  each poll and no step takes the flag back.
* `ReplyAlwaysRelayed`: `ReplyIsRelayed`, from `RelayInv` and `TransferInv`. `LinesTaken(k)` relates what was
  told, `pending_line` and what is still to come: the chunks of the first `k` lines are told, and the
  pending tokens are the next ones of the stream. `TransferInv` says that a transfer that ended
  without failure or abort brought everything, which is what success claims.
* `ClientAlwaysSeesReply`: `ClientSeesReply`, from `SaidInv` and `SentInv`. `SentInv`: what the client has, what
  is buffered and what is queued is together what the agent said, while the connection is open, and a
  beginning of it afterwards. `SaidInv`: done is said once and last, and what stands before it is the
  whole answer to the last call, for which the running call's chunks have to be the last ones said.
* `CallsAlwaysWhole`: `CallsAreWhole`, from the part `Gathered(k)` of `LinesTaken(k)`: the accumulator holds,
  under each index that occurs in the first `k` lines, what `CallIn` reads off their fragments, and
  nothing else. One fragment more keeps this (`FragmentGathered`), because a last id and a longer
  name or argument are all that it adds to its own index, and so does a line (`LineGathered`).
* `ChatImplementsAgentLoop`: a chat is a behaviour of `AgentLoop`, whose actions the chat shares and whose
  call stands for all steps of `LLMService`, `HttpClient`, reactor and client. The refinement mapping is
  the identity, so no INSTANCE is needed; what has to be proved is that a successful call
  reports a number of tool calls `AgentLoop` expects (`CallsCounted`: `CallsAreWhole` gives as many as
  there are names, `ToolCountAssumption` admits that number) and that the reactor's closing shows the
  agent nothing but the flag (`CloseCancels`).
* `ChatKeepsAgentInvariants`: therefore the six invariants of `AgentProofs` hold for the agent of a chat.
* `ChatTypeCorrect`: `ChatTypeOK`, from the invariants above with `CallInv` (the polls are within the
  timeout, a reply is there while a call runs, nothing is pending after it) and `BufferInv` (the
  buffer is within its limit and a connection that waits for its close has something to send).

`RequestProofs` proves, for any scripts, files and limits (`LimitAssumption`, `ScriptAssumption`), about
one connection's input:

* `ParserFollowsStream`: `RequestInv`, which relates the bytes to the records. `BytesInv`: buffer and wire are
  the rest of the stream, from the place `Pos` on. `ParseInv`: `Pos` is the end of the last request
  answered, or it is inside the next one and then the parser's members are what the part before `Pos` sets
  (`InHeaders`, `InBody`, `IsDone`, `Upgrading`), header by header, the last of a name counting.
  `RestInv`: when the handler has said NEED_MORE, no request that could be answered is in the buffer.
  `PlaceInv` says which values the control variables have together.
* `ParserTypes` and `NothingIsLeftWaiting`: `TypeOK` and `NothingWaits`, from it.
* `StreamImplementsService`: `ImplementsService`. Every step is a step of `HttpService` or a stutter: each of
  the handlers' answers is the `Answer` of the record (`LineTaken`, `HeaderTaken`, `HeadersTaken`, `GetStep`,
  `PostStep`, `LineStep`), refusals before the end of a request included; a hang-up without an answer
  comes only when all that arrived is answered, the first line is unknown or the buffer overflows. Of
  `TOOL|time` as first line the theorem does not say that it is answered (section 6).

The steps of the parser use a few lemmas about where it stands: the line it finds is the one that stands
at `Pos` in the stream (`LineHere`, `FeedFound`), and taking it leaves the rest in place (`BufferTaken`).

`SequenceLemmas` has what those proofs need of `FlattenSeq`, `IsPrefix` and `IsSuffix`. `FlattenSeq` is a
recursive function, so its facts are proved by induction over the natural numbers, in the form of
"no least counterexample".

Every invariant and action property of the runs that pass has a theorem. Only model-checked are the
ten liveness properties (`IdleIsClosed`, `CloseCompletes`, `BacklogIsServed`, `ChatIsClosed`,
`TaskCompletes`, `StopReturns`, `DueIsServed`, `AgentEnds`, `TurnEnds`, `ChatEnds`), since fairness and
`ENABLED` are out of the proof system's reach. Induction over data is no obstacle where it is an
induction over the length of a sequence: the facts about `FlattenSeq` and `Gather` are proved with no
least counterexample.

## 5. Not modelled

Listed with reasons in `PROJECT.json`: `main` and the vendored JSON library; formatting and
escaping (SSE lines, JSON, ISO time); `call_llama`, a placeholder; `execute_from_json`,
`parse_tool_calls` and `send_event`, which nothing calls; the table of the tools beyond its set of
names. JSON is modelled by what its parsing decides: a body is a valid chat or it is not, half a
line is no event, arguments are parsed whole. Uncaught exceptions of a pool task are left out: the
only task catches everything.

## 6. Findings

1. **Deferred close by number** (`EpollLoop.cpp:331-334`, run `finding_fd_reuse`). A connection
   closes its descriptor at once and puts the number on `pending_close_fds_`; if the listening
   socket is handled later in the same batch, a new client gets the number, and the end of the
   turn removes it although it is alive.
2. **Null handler** (`ClientConnection.cpp:140`, run `finding_reset`). A reset before the first
   byte, or a stale event of a reused descriptor, calls `process` through a null pointer.
3. **Half-close drops output** (`ClientConnection.cpp:103-107`, run `finding_half_close`). With
   an empty read buffer the connection is closed with its write buffer unsent.
4. **Idle connection kept** (`ClientConnection.cpp:260`, run `finding_idle`). With unsent output
   and a peer that does not read, the first sweep sets `close_requested_` and later sweeps return
   early.
5. **Trimming cuts a running turn** (`SessionManager.cpp:87-97`, run `finding_turn_cut`). With two
   requests on one session, the first question within the limit may be that of the other
   agent: everything before it goes, the running turn's tool calls included, and their answers
   are appended afterwards without a call. The repository's `README.md:361` says that
   trimming by user turns avoids separating them. With the limit of 100 this takes a history
   that is full when both are under way.

Noted while reading, without a run:

* `TOOL|time` as first line is not detected as the line protocol (`README.md` of the repository,
  lines 249-257, promises `TOOL_RES|`): only `PING|` and `CHAT|` are looked for (`ClientConnection.cpp:114`),
  so the connection waits for a CR LF and is closed when one comes. `Detected` models this;
  `ImplementsService` takes these streams out of its claim (`UndetectedTool`: the service may answer them as
  promised or drop them), so that it holds of the code as it is and of a gateway that keeps the promise.
* A chat whose LLM is silent for 60 s may be closed by the idle sweep without error or `done`
  (line 239), because the call's own timeout is as long.
* Requests that overlap on one session interleave their messages, so that a call may be sent with
  tool calls not answered yet; a long turn keeps the history above 100 messages (line 363).
* `SseHandler.cpp:45-52` writes no empty line for a line end at the end of the data, which the client then loses.
* `HttpClient.hpp:51` says `post` returns whether the request was sent; it returns whether the whole
  transfer succeeded with a status below 400.
* What a client sends on an event stream stays in `read_buffer_`, since `SseHandler::process` leaves
  it there; at `MAX_READ_BUFFER` the stream is closed.
* With `EMFILE` the backlog waits for the next arrival; `~EpollLoop` closes the eventfd before the
  pool joins its workers.

## 7. Plan

Done: reactor, pool, timers with refinement, agents and their session, a chat end to end, the input of
a connection with its refinement, all with proofs of their safety properties. Open:

1. The shutdown order of `~EpollLoop` against the workers, and a completion queue that is refilled
   while it drains, as liveness of the reactor.
2. What a client sees when two chats share a session: requests that interleave (section 6) are
   in `agents`, their streams to two clients are not.

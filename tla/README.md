# onnxruntime-server: a TLA+ verification project

This directory models onnxruntime-server (paths below are relative to the repository
root; the C++ lives under `src/`): the life of the process, its connections, the
session manager and the pool, and what becomes of a request's options and data. TLC
checks the models on small instances; TLAPS proves the safety of every modelled part and
the two refinements, for every number of threads, tasks, requests, frames, clients, keys,
options, inputs and dimensions. What is not proved is listed in section 4.

## 1. The system

| Part | State it keeps | Operations | Interacts with |
|---|---|---|---|
| Thread pool (`src/thread_pool.hpp`) | queue of tasks, `stop`, mutex, condition variable, worker threads | worker loop, `enqueue`, `flush`, destructor | called by execute_session tasks, owned by the session manager |
| Session manager (`src/onnx/session_manager.cpp`) | `std::map` from key to `shared_ptr<session>`, recursive mutex, the pool | `create_session`, `get_session`, `remove_session`, `get_sessions` | shared by all connections |
| Session (`src/onnx/session.cpp`) | the ORT session, metadata, `execution_count`, `last_executed_at` | construction, `touch`, `run`, `to_json`, destructor | shared by the map and every thread that uses it |
| Tasks (`src/task/*.cpp`) | model, version, data of one request | construct, `run` | one per request, run by the connection's thread |
| Options of a model (`src/onnx/session_key_with_option.cpp`, `src/onnx/cuda/session_options.cpp`) | a JSON object per model | read an item of `--prepare-model`, forward settings, CUDA keys, libraries | session |
| Execution context (`src/onnx/execution/*.cpp`) | input tensors of one execution and the memory of their values | construct from JSON, `run` (in the pool), convert outputs (`src/onnx/value_info.cpp`) | pool, session |
| TCP session (`src/transport/tcp/*`) | socket, buffer, path of the uploaded model | `do_read`, `run`, `do_write`, `send_error`, clean-up | one detached thread per connection |
| HTTP(S) sessions (`src/transport/http/*`) | socket, Beast buffer | keep-alive loop, routing, error mapping | one detached thread per connection |
| Acceptor (`src/transport/server.cpp`) | listening socket | accept, start a detached thread | runs on `io_context` in `main` |
| Program (`src/standalone/*`) | configuration, `terminated` | start-up, models loaded in advance, shutdown on SIGTERM | owns manager and servers |

A request arrives on a connection's thread, becomes a task, and the task calls the
shared session manager. An execution looks the session up, counts itself (`touch`),
builds a context, enqueues it in the pool and blocks on the future. Create holds the
manager's mutex from its check of the key until the loaded session is in the map.
Nothing but the manager (with its pool) is shared between connections, and nothing is
persisted but the temp file of a TCP upload.

What is hard: threads that meet in the map, in the pool's queue and in the counters of
a session; the condition variable; removal of a session others are executing;
destruction of the pool under load; a byte stream that may end anywhere, with errors
that keep the connection open; a temp file that has to go on every way out; detached
threads at shutdown; constructors that throw half-way with resources in hand; nested
data whose shape is guessed from first elements; tensors that do not own their values.
The hazards are listed line by line in `PROJECT.json`.

What makes each part correct:

- *Pool*: the queue is touched by one thread at a time; a task is run once, dropped
  with a broken promise, or refused; no wake-up of `enqueue` is lost; tasks start in
  order; whoever waits is released; the destructor returns (which the code fails,
  section 3).
- *Manager*: it is an atomic registry; two creates of a key have one winner; requests
  get the session they name; a session lives exactly as long as it is referred to;
  every request is answered; counts and lists are what they say they are.
- *TCP*: the reader never loses step with the frames; a task sees exactly one whole
  request; memory is bounded by the limits; answers are in order, and only the last frame of a
  connection may go without one; the temp file does not outlive its request, unless
  `remove()` fails on it.
- *HTTP*: a client that waits for its answers gets each of them; the two ends agree on
  when the connection ends; memory is bounded; the thread ends with its client.
- *Program*: it listens on what it was told to, and the documented source wins; a
  connection that waits is taken on; SIGTERM ends the process, unless the destructor of
  the pool hangs on a wake-up that was lost (`DestructorReturns` below); nothing but the
  thread of a connection that outlives the servers touches what was destroyed.
- *Session*: it has the settings, libraries, CUDA keys and shapes it was asked for, its
  own account of them is true, and a construction that throws leaves nothing behind.
- *Execution*: good data is accepted, keeps its shape and goes to its own input; values
  live while ONNX Runtime reads them; the answer has the shape of the tensor.

## 2. Modules

| Module | Models |
|---|---|
| `PoolContract` | what the pool promises: a FIFO of tasks, each run or dropped |
| `ThreadPool` | the pool, its callers and its owner, step by step |
| `ThreadPoolProofs` | theorems about `ThreadPool`, and that it implements `PoolContract` |
| `SessionRegistry` | what the manager promises: an atomic map |
| `SessionManager` | manager, tasks and sessions under concurrent requests |
| `SessionManagerProofs` | theorems about `SessionManager`, and that it implements `SessionRegistry` |
| `TcpSession` | one TCP connection and its client |
| `TcpSessionProofs` | theorems about `TcpSession` |
| `HttpSession` | one HTTP or HTTPS connection and its client |
| `HttpSessionProofs` | theorems about `HttpSession` |
| `Standalone` | configuration and start-up of the program |
| `StandaloneProofs` | theorems about `Standalone` |
| `Service` | main's loop and cleanup, acceptors, detached threads, the lifetime of servers and manager |
| `ServiceProofs` | theorems about `Service` |
| `SessionBuild` | a model's options and the construction of its session |
| `SessionBuildProofs` | theorems about `SessionBuild` |
| `Tensor` | JSON values, the shape and values of an input, the batch of a bool input, packed integers and the nesting of outputs, with the references `Nest` and `HasDims` |
| `Inference` | one execution, from the request's JSON to the answer's |
| `InferenceProofs` | theorems about `Inference` and `Tensor` |
| `MC...` | instances for TLC, one per modelled component |

`Service` composes the others at the level of the objects they share: a connection is
there what `TcpSession` and `HttpSession` do to server, manager and pool; its pool steps
are those of `PoolContract`, which `ThreadPool` is proved to implement. `SessionBuild` is
the step `CreateLoad` of `SessionManager` in detail, `Inference` its `BuildContext` and
`ExecuteRun`.

### ThreadPool

`tasks`, `stop` are the members; `locked` is `queue_mutex`; `wpc`, `epc`, `opc` are the
program counters of the workers, of the threads in `enqueue(...).get()`
(`src/task/execute_session.cpp:34`) and of the owner. `future` is the shared state of
each future: destroying an unrun `packaged_task` breaks its promise. The worker loop is
`WorkerLock`, `WorkerPred`, `WorkerBlock`, `WorkerExit`, `WorkerTake`, `WorkerRun`; the
evaluation of the predicate and the atomic "release and sleep" of `condition.wait` are
separate steps, because `stop` is written without the mutex. `SpuriousWakeup` may happen
at any time. The owner runs `Flush` (`~session_manager`), `StopPool`, `NotifyAll`,
`Join` (`~builtin_thread_pool`). A call of `enqueue` after the destructor returned is
outside the object's life and is not a step; that detached threads can make such a call
is a hazard of the composition, not of the pool.

### SessionManager

A request is one task on one thread. `ask` is the operation and the key, `answer` what
the client will be told ("found" means that the look-up succeeded and the rest of the
request is under way). A session object has the name of the request that created it, so
`sessions` is the map, `local` the `session_ptr` a thread holds, `copy` the map that
list_session copied, and `freed` the sessions whose last pointer went away. Steps are cut
where another thread can interfere: `get_session` and `remove_session` are one step
each; `create_session` is `CreateLock`, `CreateCheck`, `CreateLoad`, `CreateEmplace`
with the mutex held in between; `execution_count++` is a load and a store. The copy in
list_session takes no lock: `ListBegin` and `ListEnd` enclose it, `window` remembers
what the map held meanwhile, and a copy that overlapped a change collects any part of
that or kills the process (`ListCrash`), the outcomes this data race can have. Loading a
model, building a context and running it are steps that succeed or throw.

### TcpSession

The connection's thread against a client. `wire` is the byte stream: a header is one
unit (the code reads it with a single `read_some`, which may also return less:
`ShortHeader`), a body is one unit per byte. `do_read` is `ReadBegin` to `UploadRead` or
`PostRead`, with `ReadIntoBuffer` and `ReadIntoFile` the rounds of `read_exact`; `run` is
`TaskSucceeds`, `TaskFails`, `TaskUnwinds`; `Destroy` is the destructor. What the task
does is a choice of outcomes; `SessionManager` has the details. `get_remote_endpoint`
throws when the peer is gone and the name was not cached, also inside the handlers, and
an error text that is not UTF-8 cannot be dumped: both leave `run()` and end the
connection, without an answer even to a client that is still there. `disk` and `path` are
the temp file and the member that names it. `cleanup_upload` ignores what becomes of its
`remove()` and forgets the name in any case: `stray` remembers the frames whose file was
left behind in this way, which nobody knows any more.

### HttpSession

The same for HTTP. `wire` is the stream, `buffer` what Beast has fetched of it: a read may
fetch more than the request it is for, and `ReadBegin` throws the rest away, as
`buffer.clear()` does. `early` remembers which requests were sent before all earlier ones
were answered, so that the properties can speak of clients that do not pipeline.
`do_read` is `ReadBegin` to `ReadFails`, `handle_request` is `Route` with
`HandleReturns`, `HandleDoc`, `HandleThrows` (exceptions become statuses) and
`HandleUnwinds` (a handler throws itself), and the rest of `run` is `Respond` and
`RespondFails`. HTTPS differs in `Handshake`, which the constructor does and which may
throw. `AtHead`, `Garbled` and `Whole` stand for Beast's parser; bytes of a body are
assumed not to look like a request line. Targets are told apart as far as the routes
do; the test for `/openapi.yaml` is kept in unsigned arithmetic, with `Npos` small.

### Standalone

`init_config` stores the two sources one after the other into `vm` (`Merge` is
`po::store`, which keeps a value it has), checks the result (`Acceptable`), and `main`
prepares the models and constructs the servers (`StartServer`). Each may fail.
Ports, files and the swagger path are the options the checks look at; log options,
limits and directories go the same way and are left out.

### Service

`main` runs `io_context.run_for` until `terminated`, then the cleanup: `ClearServers`,
`Flush` (`~session_manager`), `StopPool` and `JoinPool` (`~builtin_thread_pool`),
`Return`. `Accepted`, `AcceptFails` are what `async_accept` may come to, `Handler` is its
lambda, which starts the thread and calls `accept()` again; a thread more than the system
grants (`MaxThreads`) makes `std::thread` throw, and nothing up to `main` catches that.
`thread[c]` is where the thread of a connection is, told apart by the shared object it
touches next. `Uses` is the touch: if the object was destroyed the step has no defined
outcome, the thread goes `wild` and may bring the process down (`Crash`); `misused`
remembers it. `missed` stands for the lost wake-up of the pool's destructor, which
`ThreadPool` has in detail: `StopPool` may catch a worker between its predicate and its
sleep, `JoinPool` then waits until that worker wakes up by itself (`WakeSpuriously`), and
nothing says that it ever does.

### SessionBuild

The construction starts from an item of `--prepare-model` (`ReadEntry` for each
`key=value`, `set_nested`, `append_extension`) or from the option object of a request.
`apply_session_options` forwards each setting whose JSON has the right shape
(`Forwarded`); ONNX Runtime accepts any subset. Then come libraries one by one, the CUDA
provider (`CreateHandle`, `update_all`, `AppendProvider`, `ReadBack`), the model
(`LoadModel`) and the override of each input's and output's shape; each can fail
(`...Fails`). `ort`, `registered`, `ep` are what ONNX Runtime was given, `echo` is
`session::_option`, what the session says of itself. JSON is scalars with a kind and a
text, objects and arrays. A dimension of an override is a JSON integer: `get<int64_t>`
throws on a boolean (`OverrideFails`).

### Tensor and Inference

`Tensor` has `calcShape` and `flat_json_values`, which walk the JSON of an input,
`batched_shape`, `values_fit_shape`, `get_tensor_data` with the unpacking of 2- and 4-bit
integers, and two references: `Nest`, the nested array of given dimensions over given
leaves, and `HasDims`, which says that a JSON value is an array of given dimensions with
leaves of given kinds. What the code does by recursion is a recursive function, so
that TLAPS can reason about it: over the number of dimensions done, or over `Jsons`, the
JSON values there are, each with its finite `Depth`. `Inference` builds one input after
the other (`BuildInput`,
`RejectInput`, `ThrowInInput`), enqueues, runs, and converts; `heap` is the set of inputs
whose values are allocated. The numeric element types go through one macro and differ
here in what the JSON library converts to them: "float" (also the 16-bit floats and the
integers of 8 to 32 bits) takes numbers and booleans, "int64" (also uint64 and double)
numbers only (`Takes`); a bool input takes its shape from the session and a batch computed from the
number of values, which is a case of its own.

## 3. Runs

| Run | Instance | Shows |
|---|---|---|
| `pool` | 2 workers, 3 tasks, fairness | `IInv` (with `MutualExclusion`, `NoPopFromEmpty`, `NoTaskLeftBehind`), `TaskAccounting`, `WorkConserving`, `ImplementsContract`, `EveryFutureResolves` |
| `pool_shutdown` | 2 workers, 1 task, fairness | **violated**: `DestructorReturns` |
| `manager` | 3 requests, 2 keys, 1 invalid key, fairness | `IInv` (with `CheckStillHolds`), `RightSession`, `SessionLifetime`, `CountWithinTouches`, `ImplementsRegistry`, `EveryRequestAnswered` |
| `manager_list` | 3 requests, 2 keys, symmetry | **violated**: `ListsAllSessions` |
| `tcp_safety` | 2 frames, limits 2 and 3 bytes, INT64_MAX 5, fairness | `IInv` (with `BufferBounded`), `InSync`, `UploadHasOwner`, `TaskSeesWholeRequest`, `AnswersInOrder`, `HangupEndsClean` |
| `http_safety` | 2 requests on every route, body limit 1, chunks of 3, fairness | `IInv` (with `BufferBounded`), `NoAnswerOwed`, `StaysInStep`, `KeepAliveAgrees`, `HangupEndsThread` |
| `standalone_config` | 96 environments, 96 command lines, 3 priorities | `IInv`, `ServesAsConfigured`, `EnvironmentWins` |
| `standalone_priority` | the same | **violated**: `CommandLineWins` |
| `service` | 3 clients, 2 listeners, 2 threads, 1 worker, fairness | `IInv`, `OnlyStragglersMisuse`, `NobodyWaitsForDeadPool`, `BacklogIsServed`, `OnlyLostWakeUpOutlivesSigterm` |
| `session` | items of up to 3 of 15 entries; 62 option objects | `IInv`, `LastEntryWins`, `InForceAsTold` (`EchoTellsWhatOrtHolds`, `CudaKeysSurvive`), `LibrariesOnceInOrder`, `WholeOrNothing` (`NothingLeftBehind`, `OverridesAreWhole`) |
| `inference` | 15 models, arrays up to depth 3 and width 2 and some larger | `IInv`, `InputsArriveWhole` (`InputsKeepTheirShape`, `BoolBatchIsExact`, `InputsInSessionOrder`), `GoodDataAccepted`, `ValuesLiveAsNeeded` (`BuffersLiveDuringRun`, `OnlyRejectedLeak`), `OutputHasItsShape` |
| `inference_scalar` | the same models, outputs of rank 0 and with a dimension 0 | **violated**: `OutputHasItsShape` |

Bounds. Two workers and three tasks are enough for a worker to sleep while another is
awake and the queue holds more than one task; the proofs remove the bound. Three requests
on two keys are enough for any three operations of one key to meet, with another key
next to it; what the invariants say of more (create, execute, destroy and create again
at once) is proved. Limits of 2 and 3 bytes with a chunk of 2 make every body
length from zero to one over the limit occur, in one or several reads. Two frames let
state left over from the first show in the second. In HTTP, a chunk of 3 units reaches
from one request into the head, or the body, of the next. The two sources of the
configuration disagree on every option both give, and each can be refused. Three
clients for two threads and one worker make a connection wait, a thread be refused, a
task wait behind another, and one be enqueued between flush and stop. Three entries are
a value, something in its way and a sibling; every pair of the 15 also meets a third.
Ranks 0 to 4 against depths 0 to 4 cover data with too few, just enough and too many
levels; a width of 2 gives every ragged form, and the widths 3 to 6 of bool inputs every
remainder of the division by 2 and 3; the properties look at dimensions up to 3
(`MaxDim`), the proofs at any. The limits of TCP add up to INT64_MAX exactly, and
a header whose sum wraps around is among those sent.

Deadlock is not checked (`CHECK_DEADLOCK FALSE`): a behaviour ends when all calls have
been made, when all requests are answered, when the connection is closed, the session
built or refused, the execution answered or the process gone, and the liveness
properties say that it does not end before.

Fairness. *Pool*: weak fairness of each worker and of each caller inside `enqueue` and
`get`, and of a destructor that has begun; threads that can run do run, and a task
returns because ORT's `Run` does. A spurious wake-up, a new call and the start of the
destruction are never owed. Each thread's weak fairness says nothing of who gets the
mutex; it is enough for `EveryFutureResolves` because a worker that holds a task needs
no lock to finish it and the queue only shrinks once calls stop. *Manager*: weak
fairness of each thread that serves a request; loading and running a model return.
*Service*: weak fairness of main's own steps (`run_for` returns
after a second, whatever is ready), of a handler that is ready, of the first step of a
connection's thread and of a task that runs; strong fairness of `Accepted`, because
accept(2) may fail again and again but descriptors become free in between, and of the
start of a queued task, because a worker comes free again and again. Nothing is owed by
clients, by SIGTERM, by a thread that waits for its client or by a worker that sleeps, so `OnlyLostWakeUpOutlivesSigterm`
does not lean on connections that end. *TCP, HTTP*: weak fairness of the connection's thread; the client owes nothing. Neither
kind of connection has a timeout, so a thread whose client stays silent waits, and the
liveness properties are about clients that go away.

### What the violated properties show

- `DestructorReturns`: `~builtin_thread_pool` sets `stop` and notifies without the mutex
  (`src/thread_pool.hpp:36-37`). A worker that has just evaluated the predicate as false
  and still holds the mutex goes to sleep after the notification and is never woken;
  `join` waits for ever, and the process with it: `OnlyLostWakeUpOutlivesSigterm` says
  that after SIGTERM this is the only thing that keeps it from ending. Taking
  `queue_mutex` around line 36 closes the gap.
- `ListsAllSessions`: the map is copied without the mutex (`src/task/list_session.cpp:16`).
- `OutputHasItsShape`: a scalar output has no dimensions, and `depth--` on a `size_t` 0
  (`src/onnx/value_info.cpp:94`) wraps around, so `shape[depth]` is read out of bounds.
  `inference` has the same property for outputs with dimensions and passes.
- `CommandLineWins`: `po::store` keeps what was stored first, so both branches at
  `src/standalone/standalone.cpp:122-130` do the opposite of their comments. The
  documented `ONNX_SERVER_CONFIG_PRIORITY=env` works only because the length test at
  line 122 fails for it; mending that test alone breaks `EnvironmentWins`, which is the
  mutant of that property.

More disagreements are visible in the models without a run of their own:

- `execution_count++` (`src/onnx/session.cpp:393`) loses increments of executions that
  meet, although `docs/swagger/openapi.yaml:250` calls it "Number of executions". What
  does hold, and is proved, is `CountWithinTouches`.
- The comment at `src/transport/tcp/tcp_session.cpp:144-145` says that the sum of two
  lengths cannot overflow. It does not for limits that together are INT64_MAX, those of
  `tcp_safety`; the program does not check its limits (`src/standalone/standalone.cpp:177-180`), and
  with larger ones a wrapped sum is accepted.
- `url.length() - 13` (`src/transport/http/swagger_serve.cpp:25`) is `npos` for a url of 12
  characters, which is then answered with the yaml document. With a swagger path of 11
  characters the page is never served, with one of 12 its redirect is not
  (`EndsInYaml` in `HttpSession`).
- The assertions at `src/task/task.cpp:21-22` are about names the constructor does not
  check: `InvalidKey` is what builds with `NDEBUG` do with an empty one.
- An invalid name is a `runtime_error`, status 500 (`src/onnx/session_key.cpp:14`), also
  for GET and DELETE of a session, whose entries in `docs/swagger/openapi.yaml` list only
  200 and 404 (`Errors` in `HttpSession`).
- `Service`: a connection's thread that outlives `servers.clear()`
  (`src/standalone/main.cpp:71`) uses a destroyed server or manager; `OnlyStragglersMisuse`
  says that nobody else does. And a connection more than the system has threads for ends
  the process (`src/transport/server.cpp:26`), the step `Handler`.
- `Inference`: a rejected request leaks the inputs built before
  (`src/onnx/execution/context.cpp:48`; `OnlyRejectedLeak`, a part of `ValuesLiveAsNeeded`, says that
  nothing else does).
  Ragged and too deep arrays can be accepted and cut, because only first elements are
  looked at. `calcShape` appends a 1 at each return that finds one dimension missing, so
  an input of rank n takes a (non-empty) array of any depth d with 2d + 1 >= n: rank 3 an
  array of depth 1, rank 4 one of depth 2 but not of depth 1. A scalar input must be sent
  as an array. A bool input with two dynamic dimensions is
  always refused, because `batched_shape` fills in the first one only.
- `SessionBuild`: the comment at `src/onnx/cuda/session_options.cpp:104-105` says that
  entries are forwarded "one key at a time"; the code (and the comment at line 24) makes
  one call, on which `CudaKeysSurvive`, a part of `InForceAsTold`, depends.

## 4. Proofs

All theorems are for arbitrary constants under the named assumptions of the modules:
workers, tasks, requests and clients are finite sets, `NoTask`, `Nil`, `NoClient` and
`Failed` are none of their members, the manager is no listener, valid keys are not
invalid ones, chunks are positive, the limits of TCP are non-negative int64 values
(`IntMax` the largest), and headers, requests and sources are records of their kinds.
Nothing is assumed of what a client sends or when it hangs up. A model does not name two
inputs alike, the known dimensions of its bool inputs are positive, and JSON arrays are
finitely long and nested finitely deep. Each component's inductive invariant is called `IInv` and is
checked by the component's run.

*Pool.* `IInv`, which `pool` checks, is the conjunction of the types, the safety
invariants and two more:
`BlocksOnlyIfEmpty` (a worker about to sleep holds the mutex and the queue is still
empty) and `FutureIffPushed`. `WorkConserving` needs the first: without it a worker
could go to sleep over a full queue. It is also the one conjunct that counts, so its
lemma (`ConservingStep`) rests on facts about cardinalities (`MoreAwake`): each step
that adds a task adds a notifier, each notifier that goes wakes a worker if any sleeps,
and a worker that takes a task takes one away on both sides. The refinement
maps the queue to the queue, `stop` to `closed` and reads a task's status off its
future, its caller and the workers; `TaskAccounting` makes the mapping right.

*Manager.* `IInv`, which `manager` checks, adds `RequestInv` (what the place of a thread says about its request),
`BuiltInv` (every pointer points to a session that was built) and `SeenInv` (what a
thread read of the count is within the bound). The order of the argument is types,
requests, the mutex (`CheckStillHolds`: at most one thread is between check and
emplace), pointers, and then lifetimes: `SessionLifetime` is an equality, so each step
that drops a pointer is shown to free exactly what it must; a removal needs
`RightSession`, because the pointer it drops is the only one in the map. In the
refinement a create is linearised at its emplace, where only
`CheckStillHolds` says the key is still free; the other operations are one step each. `ManagerOnlyDestroyUnregisters`
(a key leaves the map by a successful destroy only) is proved without a run of its own.

*TCP.* None of the safety properties is inductive: that a header comes first where one is
expected says nothing of what comes after it. `FramesInv` says of the whole stream that
after a header come exactly the bytes of its body and then the next header, and `DueInv`
that before all that come the bytes the thread still owes the request it reads (`Due`,
from `pc`, `need` and `header`). A step reads nothing, or bytes it owes, or one header;
sending appends a frame, hanging up cuts the end (`QuietStream`, `BytesStream`,
`HeaderStream`, `SentStream`, `HungUpStream`, over lemmas on the places of a
sequence). `InSync` is the first unit of `DueInv`. `WholeInv` is why a client that is
there never makes a body short. `CountInv` counts the headers still on the wire, so that
`cur` never passes `sent`. `RequestInv` ties buffer, temp file and the member that names
it to the place of the thread; `UploadHasOwner` and `TaskSeesWholeRequest` follow from it
at the end of each read. Memory is bounded because each length is compared with its limit
by itself (`RequestFacts`): the theorem also holds for limits whose sum is beyond
INT64_MAX, where a wrapped sum is accepted. `AnswersInv` and `AnswersInOrder` count: one answer for each
request read, one less while one is served, and one or none for the frame that ends the
connection, unless the client is gone. `StrayInv` says that a file left behind is one of a
frame that was read; the next frame has a number of its own.

*HTTP.* What may still be read is the buffer and the wire during a read, and the wire alone
otherwise, because `ReadBegin` clears the buffer (`Unread`). `StreamInv` says that it is
made of requests in order, all later than `cur`, and complete unless the client hung
up; so a request that is read is the next one and its units are exactly those it owns
(`RequestRead`). `OwedInv` follows a request that was not sent early from the stream to
the thread to the answers. A read that threw its head away with the buffer would have to
answer an earlier request first (`OldestRead`), but all earlier ones are answered and
the one in work is not. `NoAnswerOwed` is `OwedInv` when nothing is unread. `LockstepInv`
says that with a client that waits nothing is unread while a request is served;
`StaysInStep`, an action property, follows because then every read starts with a head.
`KeepAliveAgrees` needs `AnswersInv`: the answers given are to requests before the one in
work, and each of them kept the connection if it is still open.

*Service.* `PhaseInv` says what exists while main is where it is. `OnlyStragglersMisuse`
then has one case for each touch of a server or the manager: while main polls
everything exists, after that main touches nothing, and a thread that touches something
destroyed stays `wild`. `NobodyWaitsForDeadPool` rests on the join, which waits for the
tasks that run and releases the callers of those that do not, and on a pool that is gone
taking none. `OnePlaceInv` (a connection is in one backlog, once, or with the handler of
that listener, or has its thread) is not checked under its own name: it is the part of
`IInv` that says a thread is started once for a connection, by the listener it came to.

*Standalone.* `StoredInv` says what `vm` is after each `po::store`, as a function of the two
sources and their priority; `MergeFacts` says what merging does to one option.
`StartedInv` says which servers were constructed at each step of main.
`EnvironmentWins` rests on which source is stored first, `ServesAsConfigured` on all three
and on the checks that a configuration passed.

*Session construction.* The first half of `IInv` is about the item: `ListInv` says that
after any entries each setting has the value of its last entry (`SetNested`, over the
objects on its path: putting a value there changes what is at that path and at no other
that a setting has), and that the list of libraries has every library named so far, once,
in the order of the first mention (`CollectsOnceInOrder`). An entry that makes a setting
of something that was an object, or the other way round, is why it also says what the
list cannot be. The second half follows the construction: `SettingsInv`, `LibrariesInv`
(registered is a beginning of what was asked for), `CudaInv` (every key the caller gave is
in the provider's options from `update_all` on), `ShapesInv`. The last of them has to say
which overrides are still in `_option`, because each loop erases its own
(`LoopEnds`). `LibrariesAsNamed` goes from places in the list of libraries back to places
in the list of entries (`OrderCarriesOver`).

*Executions.* `InputsInv` says whose data each tensor was made of, `ArgsInv` when the
arguments are made and of what, `HeapInv` that the values allocated are those of the
inputs built until the context ends, `RejectedInv` what a context was refused for,
`OutputInv` that an answer is made of one tensor. `ValuesLiveAsNeeded` follows at once.
The others need what the functions of `Tensor` return:

- `Dimensioned`: of a value that has the dimensions `dims`, `flat_json_values` is as many
  leaves as `dims` have places, of the kinds that were asked for, and the value is the
  nested array of these leaves. By induction on the inner dimensions: a value of the k
  inner ones is what `Nest` makes of any leaves among which its own stand in a row. The
  rows of rows come one after the other because they have one length (`FlattenRows`).
- `ShapeOf`: `calcShape` of such a value is `dims`, with a 1 appended by the outermost
  call, and by no other, if one more dimension was asked for.
- `ShapeSuits`: the batch computed from as many values as `dims` have places is the
  dimension that was open (`BatchSuits`, where every rounding up is exact). For any other
  number of values `BatchIsExact`: rounding up at each known dimension makes room for at
  least the values there are (`BatchFills`), and `CreateTensor` does not take a tensor
  with room for more.
- `SubByteValues`, and `FitsShape`: after k rounds of `values_fit_shape`, row number j is
  the nested array of the k inner dimensions that starts at the first leaf of that row.

`InputsWhole` and `GoodRequestsTaken` put the first three together, `OutputsFit` the
last two; it leaves out scalars, which the code gets wrong, and dimensions of 0, where it
answers `[]` for a shape like (2, 0). That `calcShape` looks at first elements only is why
`InputsWhole` has to assume the dimensions (`HasDims`) of the JSON: of ragged arrays nothing
is said.

Induction. The library's theorems of induction have an operator as a parameter, which the
provers do not take. What is proved of recursive functions rests on lemma `Induction`
instead: a set of naturals up to n that has 0 and, with each k < n, k + 1, has all of
them; it follows from `WFMin`, which has no such parameter. Each recursive function has
a lemma (`...Unfold`) that its equation holds. For functions over JSON values it is
`DepthInduction`, and the lemma (`FlatUnfold`) first has to show that there is such a
function, from functions that flatten what is nested up to a depth (`FlatUpTo`).

Only model-checked: everything with fairness (`EveryFutureResolves`,
`EveryRequestAnswered`, `HangupEndsClean`, `HangupEndsThread`, `BacklogIsServed`,
`OnlyLostWakeUpOutlivesSigterm`), which is out of the provers' reach. Every invariant and every
action property of the passing runs is proved, `OutputHasItsShape` for outputs of rank 1
and more without dimensions of 0, those that `inference` has.

## 5. Not modelled

Not modelled: ONNX Runtime, Boost and the JSON library (their outcomes are choices);
vendored and generated files; the reading of model files; the character rules of names,
of `--prepare-model` and of the read-back CUDA string, which are regular expressions and
string searches; the decoding of floating-point tensors, which is arithmetic TLC does
not have; the cache of the swagger pages, whose race has no outcome the code defines;
what a client makes of an answer that was written only in part; providers and version,
which have no state; logging; the wording of errors. Dimensions of 0 in the shape of a
bool input (a division by zero in floating point) are left out, and so are negative
dimensions other than -1 in an override of its shape and integers of
the options that do not fit an `int`.

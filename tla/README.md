# BasicComponent in TLA+

BasicComponent is a small C++ library for Qt applications on Windows: a message
loop thread derived from WebRTC, a thread pool, two timers, an event bus, and
helpers for Base64, padding, strings and JSON. Most of it is sequential. What is
hard is the concurrency: objects that several threads use without knowing of
each other, that call back into user code, and that are stopped and destroyed
while others are at work. The other hard part is conversion: a JSON library
(nlohmann::json 3.10.4, taken into the tree as `json/json.h`) that writes values
in five formats and reads them back. That is what this project specifies,
model-checks with TLC and proves with TLAPS.

## Inventory

| component | code | state | operations | used by / uses |
|---|---|---|---|---|
| **Thread** | `thread/thread.{h,cc}` | `messages_`, `delayed_messages_` (heap), `delayed_next_num_`, `stop_`, `event_`, `thread_`, `cur_thread_id_` | PostTask, PostDelayedTask, BlockingCall, Quit, Restart, Start, Stop, Delete; the loop ProcessMessages / Get / Dispatch | any thread posts; the loop runs the tasks; uses ThreadEvent, TimeUtils, FunctionView |
| **TaskQueueBase** | `thread/task_queue_base.{h,cc}` | thread-local current queue | contract of PostTask / Delete; Current, IsCurrent | interface of Thread |
| **ThreadEvent** | `thread/thread_event.{h,cc}` | signaled | Set, Reset, Wait | Thread's wake-ups, BlockingCall's answer |
| **TimeUtils** | `utils/time_utils.{h,cc}` | 32-bit tick count | TimeMillis, TimeAfter | Thread's trigger times |
| **ThreadPool** | `thread/ThreadPool.h` | `tasks`, `stop`, workers | enqueue, enqueue_first, stopPool, clearTask, destructor | any thread, and its own tasks |
| **Timer, TaskTimer** | `timer/*` | `_expired`, `_try_to_expire`, `repeat` | Start, StartOnce, Stop, destructor; the polling thread | a callback per period |
| **EventBus** | `EventBus/*` | handlers per type, one mutex | AddHandler, RemoveHandler, SendEvent | handlers run on the sender's thread |
| **PendingTaskSafetyFlag** | `thread/pending_task_safety_flag.*` | `alive_` | Create and its variants, SetAlive, SetNotAlive, SafeTask | wraps tasks of a queue |
| **Base64, PKCS#7** | `crypt/ibase64.*`, `crypt/pkcs7_padding.*` | two static tables, built by the first call | encode, decode, pad, unpad | callers in any thread |
| **strutil** | `utils/strutil.*` | none (a Tokenizer its offset) | hexadecimal text, tokens, replacing, prefixes | callers in any thread |
| **JSON library** | `json/json.h` | a value; a reader's position | construct, change, compare, iterate; parse and dump; pointers, patches; CBOR, MessagePack, UBJSON, BSON | DataParseUtil |
| **DataParseUtil** | `json/DataParseUtil.*` | none | parseData, formatJson, typed getters, convertMap | wraps the JSON library |

Hard behaviour, and what correctness means there:

- *Thread*: the loop tests three conditions (a message, a trigger time, a stop
  request) at different moments and then blocks without a lock, so every
  change must be followed by a wake-up that is not lost. Tasks must run in
  order, one at a time, never after Delete; a BlockingCall must neither return
  too early (its functor would dangle) nor be forgotten; Stop must return, and
  leave nothing running.
- *ThreadPool*: one notification per push, a stop flag written without the
  mutex, tasks that use the pool that runs them, futures that must be resolved.
- *Timers*: two flags and a condition variable shared by a detached thread that
  expires by itself and a controller that stops and restarts it.
- *EventBus*: raw pointers to objects that other threads create and destroy.
- *Identity of threads*: BlockingCall decides by a thread identifier, which the
  system reuses, whether to execute or to post.
- *Safety flags*: a task may outlive the object it calls; whether it is executed
  is decided when it is, by a flag that may have been cleared and set meanwhile.
- *Threads and the bus together*: BlockingCall and the mutex of the bus are two
  ways to wait, and one can hold the other.
- *Conversions*: bits of partial blocks, padding that must be told from data,
  buffers sized by a macro, tables filled without a lock; and that what is
  encoded, padded or split gives back what it was.
- *JSON*: for each number and length a width is chosen, by several pieces of code
  that must agree; invalid UTF-8, escapes and surrogates; operations that move
  what later operations point to; a comparison across types that must be an
  order; a callback that takes back what is built already. Writer and reader,
  diff and patch, flatten and unflatten, parser and grammar must fit together.

`PROJECT.json` lists the hazards one by one, at the lines where they bite, with
the properties that watch them.

## Modules

| module | models | extended by |
|---|---|---|
| `TaskQueue` | the contract in `task_queue_base.h`: FIFO, no overlap, at most once, nothing after Delete | instance in `Thread` |
| `Thread` | class Thread with its worker, its event and its clock | `MCThread`, `ThreadProofs` |
| `ThreadProofs` | theorems about `Thread` | |
| `PoolContract` | what the pool promises: a deque with two ends, every task resolved once | instance in `ThreadPool` |
| `ThreadPool` | the pool, its workers and its destructor | `MCThreadPool`, `PoolProofs` |
| `TimerContract` | what a timer promises: calls at the end of each period, until done or stopped | instance in `PollTimer` |
| `PollTimer` | Timer and TaskTimer, chosen by the variable `kind` | `MCPollTimer`, `TimerProofs` |
| `EventBus` | the bus, and handler objects that come and go | `BusThreads` |
| `BusThreads` | the bus used by Threads that make BlockingCalls to each other | `MCBusThreads`, `BusProofs` |
| `ThreadIdentity` | `cur_thread_id_`, IsCurrent and BlockingCall over restarts of a Thread | `SafeTasks`, `MCThreadIdentity`, `IdentityProofs` |
| `SafeTasks` | PendingTaskSafetyFlag and SafeTask on the queue of `ThreadIdentity` | `MCSafeTasks`, `SafeTasksProofs` |
| `Base64` | EncodeBase64 and DecodeBase64 and the filling of their tables | `Codec`, `Base64Proofs` |
| `Pkcs7` | the padding functions, as operators | instance in `Codec` |
| `StrUtil` | conversions of `strutil`, as operators | `Codec` |
| `Codec` | callers of these conversions | `Conversions`, `MCCodec`, `CodecProofs` |
| `JsonWords` | the 64-bit integers, as eight bytes | `JsonLexer` |
| `JsonLexer` | input adapters and lexer | `JsonValue`, `JsonFloats`, `JsonGrammar` |
| `JsonValue` | class basic_json, its iterators and comparison | `JsonParser`, `JsonSerializer`, `JsonPointer` |
| `JsonParser` | the parser, the SAX consumers with and without callback | `JsonBinaryReader`, `DataParse` |
| `JsonSerializer` | dump | `JsonBinaryWriter`, `DataParse` |
| `JsonPointer` | json_pointer, flatten, unflatten, patch, diff, merge_patch | `JsonDocument` |
| `JsonFloats` | the bytes of floating-point numbers | `JsonBinaryReader`, `JsonBinaryWriter` |
| `JsonBinaryReader`, `JsonBinaryWriter` | from_ and to_ cbor, msgpack, ubjson, bson | `JsonDocument` |
| `DataParse` | DataParseUtil | `JsonDocument` |
| `JsonDocument` | a program that changes a value and puts texts together | `JsonProperties` |
| `JsonGrammar` | the grammar of RFC 8259, a reference, no code of the repository | `JsonProperties` |
| `JsonProperties` | the properties of all JSON modules | `Conversions` |
| `Conversions` | `Codec` and `JsonDocument` side by side | `MCConversions` |
| `PoolProofs`, `TimerProofs`, `BusProofs`, `IdentityProofs`, `SafeTasksProofs`, `Base64Proofs`, `CodecProofs` | theorems about these | |

In every module a process is an OS thread with a program counter, and a step is
one atomic access, one section under a mutex, one operation on an event or
condition variable, or one system call. A section that tests and then blocks is
split where somebody who does not hold the mutex can come in between. Some
definitions have a sibling marked `(Altered: ...)`: a plausible mistake, used by
nothing, that shows that a property notices it (the list `mutants` of
`PROJECT.json`).

### Thread

The worker's program counter `wpc` follows PreRun and Get: `clock` (read
TimeMillis), `lock`, `scan` (mutex_ held: MoveDue moves one triggered delayed
message, TakeMessage returns the front, FindNothing unlocks with the time to the
next trigger), `quitting` (IsQuitting after unlocking), `wait` (event_.Wait),
`run` (Dispatch). A caller's `pc` says where it is in PostTask (`push`, `wake`),
PostDelayedTask (`stamp`, `pushDelayed`, `wake`), BlockingCall (`callPost`,
`callPush`, `callWake`, `await`), Start (`create`), Stop and Delete (`stopWake`,
`join`, `deleteWake`, `deleteJoin`, `destroy`). `messages`, `delayed`,
`next_num`, `stop`, `event`, `thread`, `destroyed` are the members with these
names; a DelayedMessage is its task with `run_time` and `number`. `fate`, `due`
are bookkeeping. `waiter` is the capture of BlockingCall's cleanup.

What is assumed of the users, from the comments of `task_queue_base.h` and
`thread.h`: one owner starts, stops and deletes; the worker does not stop or
delete itself; nobody outside calls a method after Delete has begun, and the
destructor runs when all calls are over but those that only wait for their own
event. A task object is posted at most once, because it is move-only.

The build is the Windows one: the POSIX half of `thread_event.cc` refers to a
class that does not exist.

### ThreadPool

`wpc` follows the worker's loop: `lock` (or `woken`), the predicate under the
mutex (Test), `sleep` (predicate false, not yet blocked), `waiting`, `take`
(Take: exit, or pop the front), `run`. `stopPool` takes no lock and may come at
any of these points. In `enqueue` the test of `stop` and the push are one step:
a stopPool in between is not distinguishable from one right after the push.
`fate` says whether a task's future will be ready (`ran`), broken (`dropped`) or
is the one of an empty function (`refused`). Tasks may call the pool; they
return, and do not wait for each other.

`PoolContract` says the same without the mutex, the wake-ups and the workers'
comings and goings. Its `first`, the tasks asked for with enqueue_first and not
accepted yet, is made of the callers about to push to the front; its `running`
is `wtask`. Asking for a task and accepting it are two steps, because others get
in between; what clearTask and the destructor drop is what the deque holds, not
what bookkeeping says of it.

### PollTimer

A thread of `Runs` polls (`test`, `sleep`), checks the request (`check`), calls
back (`callback`), and ends under the mutex (`lock`, `notify`). `periods` is
`timeout_ms / 100`. The step from `lock` to `notify` sets `_expired` with the
mutex held; the others read it without. A callback may call Start, which returns
at once; it does not call Stop, which would wait for itself. Two threads in
`Runs` are enough: a third would have to be started while the second is in its
loop, which Start refuses, or after it has expired, which needs the mutex that
the first still holds. That argument needs one controlling thread, as in the
passing run; the run with two users needs two threads only.

`TimerContract` says the same without flags, threads and mutex: a schedule has
calls left, a period, and the polls since the last call. A call begins after
exactly the polls of its period (one, if it is shorter than 100 ms), and none
after the request to stop; the timer ends when no call is left or Stop asked for
it, and Stop returns after that. `Schedule` is made of the thread that works, or
of the arguments of the Start that is about to create one.

### EventBus

AddHandler and RemoveHandler are single steps under the mutex; a SendEvent locks,
begins and ends onEvent of each holder, and unlocks. Handler objects are created,
registered, deregistered as often, and destroyed by their own thread, as
`app/widget.cpp` does in constructor and destructor. A handler does not call the
bus from onEvent: the mutex is not recursive. A null list and an empty list are
the same.

### BusThreads

The threads of `EventBus` are Threads. `queue[d]` holds the functors posted to
`d` by BlockingCall, `serving[d]` the one that `d` executes, `awaits[c]` is the
thread for whose answer `c` waits. A functor may itself use the bus and call
further threads. What is assumed is written in `MayAsk` and in
`BusThreadsAssumption`: calls go to threads of a higher `Rank`, and from onEvent,
where the mutex is held, to threads that do not use the bus. These come after all
that do, or such a thread could call one that waits for the mutex. Without these
rules the threads can wait in a circle; the code does not enforce them and no
document speaks of them. `NoDeadlock` says directly that they do not: `WaitsFor`
is the thread that somebody blocked waits for, no set of threads waits within
itself, and who is waited for has work (`AtWork`). Queue, wake-ups and Stop are those
of `Thread` and are not repeated.

### SafeTasks

Tasks of the queue of `ThreadIdentity` carry a flag or none (`tags`). Objects
are created, paused (SetNotAlive), resumed in the two ways that
`pending_task_safety_flag.h:69-84` describes (SetAlive, or a fresh flag), and
destroyed by tasks of their queue. Any thread posts SafeTasks with any flag that
was ever made, since it may have kept a reference. Reading the flag
(`CheckAlive`) and what the method does are separate steps. `cancelled` is
bookkeeping: SetNotAlive came after the post, and no SetAlive on the same flag
after that.

### ThreadIdentity

The identifiers of living threads (`id`), `cur_thread_id_`, and the steps that
read or write it: PreRun stores the worker's, IsCurrent compares. Threads appear
and vanish; a vanished thread's identifier is free again if `Recycle` holds, and
the worker's only when Join has closed its handle, as Windows does. The queue is
that of `Thread` cut down: a task is posted, taken and finished in a step each,
which is enough to say who executes when. BlockingCall keeps its steps: the test
of `stop_` and of IsCurrent, the functor in place, or the post and the wait.

### Base64, Pkcs7, StrUtil, Codec

`Base64` is a state machine because of its tables: a step is the test of
`tables_initialised`, one memset, one range of entries, the store to the flag,
or one block. An entry is absent or final, so a table is the set of values it
has. The reference is `Encoding`: the number that three bytes are, written in
base 64, with '=' for digits that no bit of the data reaches. `Serial` says that
the first call ends before another begins; it stands for a program that encodes
something once before it starts threads.

`Pkcs7` and `StrUtil` have no state. `Codec` puts a call of them into the state
(`call`), one at a time and between the calls of Base64, with which they share
nothing: their properties are about the arguments of that call. `HexLimit` is
1024 in the code, twice the buffer of Str2Hex.

### JSON and DataParse

A value is `<<type, payload>>`, a string a sequence of bytes, an integer eight
bytes with or without sign (`JsonWords`: the limits of the formats are at 2^63,
beyond TLC's integers), a floating-point number its decimal digits and exponent.
Functions of the library are operators that return what the function returns or
leaves in `*this`, or `Throw(n)` with the number of the exception, by which the
code's error paths are told apart. A reader returns the SAX events that it sends,
how far it has read, and the error that ends them; a consumer folds over the
events. Loops and recursion over input and values are RECURSIVE operators, so
these modules hold no theorems.

`JsonDocument` makes them a state machine: `doc` is a value that a program
constructs and then changes with any operation of the class, with arguments
from small sets, iterators of this and of other values included; an operation
that throws leaves `doc` as the code does. `text` is put together from pieces of
a language, one piece at a time, so that every prefix is a text of its own. The
properties of `JsonProperties` are then said of every value that is reached and
every text, and relate operations written independently of each other: writer
and reader, diff and patch, flatten, pointers and iterators, `operator<` over
triples, the parser and a grammar that splits a text as a whole.

The assumptions `JSON_ASSERT` states are kept as preconditions. The digits of
a floating-point number come with it: Grisu2, which finds them, and strtod are
outside; what is modelled is the layout of the digits and the conversion between
decimal and IEEE 754 bytes.

## Runs

| run | instance | shows |
|---|---|---|
| `thread_safety` | 2 clients and the worker, 2 tasks, delays 0.5 and 2 ms, clock to 2, all methods, CreateThread may fail; tasks symmetric | `TypeOK`, `NoLostWakeup`, `FunctorLifetime`, `CallerReleased`, `StoppedIsIdle`, `DelayedFifo`, `NotEarly`, and the refinement of `TaskQueue` |
| `thread_liveness` | the same with delay 1 ms, clock to 1, without Quit and Restart | `AcceptedRuns`, `StopReturns`, `DeleteReleases` |
| `thread_stranded` | PostTask, Start, Stop | **violation** of `ReadyPostsDelivered` |
| `thread_wrap` | PostDelayedTask, Start, clock 0, 1, 0, 1, ... | **violation** of `DelayedRuns` |
| `pool` | 2 workers, 2 clients, 2 tasks | `WakeUpPerTask`, `DestroyedIsResolved`, `NothingHangs`, and the refinement of `PoolContract` |
| `timer` | 1 user, 2 threads, timeouts 50 and 250 ms, repeat 0 and 1, both classes | `OneTimer`, `RepeatsAsked`, `StopWaits`, `TimerGoesOn`, and the refinement of `TimerContract` |
| `timer_two_starts` | the same with 2 users | **violation** of `OneTimer` |
| `bus_threads` | 2 threads that use the bus and own a handler each, and a worker; 2 types, 2 registrations per type; calls in one order | `CalledIsAlive`, `NoDeadlock`, `SentToAll`, `EveryCallReturns`, no deadlock |
| `safe_tasks` | the owner, 1 other thread, the worker; 4 identifiers, each given once; queue of 2; 2 objects, 3 flags | `TasksDoNotOverlap`, `WorkerDoesNotWait`, `CalledIsAlive` |
| `identity_recycled` | `ThreadIdentity` with an owner, 2 other threads, the worker; 3 identifiers, given again | **violation** of `TasksDoNotOverlap` |
| `conversions` | Base64: 2 threads, `Serial`, data of up to 6 bytes; padding of up to 4 bytes, block sizes 0 to 3 and 255; `HexLimit` 6; texts of up to 4 characters | `Encoded`, `Decoded`, `FitsBuffer`, `Unpadded`, `HexDecoded`, `StringsKept` |
| | JSON values of up to 3 nodes, from 63 scalars; texts of up to 6 pieces of 8 languages | `TextRestored`, `BinaryRestored`, `PatchRestores`, `PointersResolve`, `OrderIsTotal`, `GettersAgree`; `AcceptsGrammar`, no deadlock |
| `base64_two_threads` | 2 threads that both may fill the tables | **violation** of `Encoded` |

Why these bounds are enough. Two tasks are the least that have an order; two
clients and the worker give two posters beside the owner's Stop, or a poster, a
blocked caller and a task that posts. Delays of 0.5 and 2 ms need rounding, tie
(0.5 ms is 1 ms; posted a tick later, 2 ms after) and reach past the horizon.
The clock of the safety run stops at the horizon `MaxTick`; a wait already begun
still runs out. `NumMod` is larger than the number of tasks, so the message
number does not wrap, which is the case the code comments as acceptable. Two
workers and two tasks are the least in which one wake-up can be too few.
Every run of a thread and every new thread takes an identifier, so four allow the
owner, another thread and two runs of the worker; they are symmetric, being
compared only. Two objects and three flags are the least in which one object has
an old and a fresh flag while another has its own, and a queue of two holds a
task of each. In `bus_threads` a thread of each rank waits for the next, from a
task and from onEvent, while the other wants the mutex (that a thread without bus
must not call one with bus takes a rank more, and is an assumption); two registrations of one
type are one of each handler or the same twice.
The Base64 inputs have blocks of every length, the bytes 0, 77 and 255 in every
place, and every bit once. `HexLimit` 6 puts data of 4 bytes beyond the limit.

The JSON scalars (`MCScalars`) lie on both sides of every width that a format
has for a number, with and without sign, and of the lengths that fit a first
byte; strings have escapes, UTF-8 of every length, and invalid UTF-8 at the end,
in the middle and before a quote. Three nodes (`MaxNodes`) are an object or an
array of two, or two containers around a value; the arguments that are merged,
compared or diffed are deeper. `MaxKey` bounds the keys that repeated flatten
makes. Each language is a corner of the grammar: brackets and commas, nested
objects for the callbacks, numbers, escapes and surrogates, the limits of UTF-8
by first and second byte, comments, and the ends of a text.
`MaxExponent` 308, `IndentSize` 512 and `MaxSize` are the code's values; no
instance reaches the size limits.

Deadlock is not checked where callers may stop calling and every task is used up
(all but `bus_threads` and `conversions`). Where a cfg names no type invariant,
that of the module (`BTypeOK`, `SafeTypeOK`, `TypeOK` of the pool, the timer and
the bus) is proved (below); the runs check the one of `Thread`.

The five violations are the findings. (1) `thread.h:70-72` promises delivery
of ready posts before Get returns false; Get tests the queue, unlocks, then tests
`stop_`, and a post and a Quit in between strand the task (and a BlockingCall,
until Delete). (2) Trigger times are 64-bit sums over a 32-bit tick count: after
its wrap a pending delayed task never runs. (3) "is started, do not start again"
is a test and a store: two threads can both pass the test. (4) The Base64 tables
are filled without a lock: a second first call clears them under the encoder.
(5) Join does not reset `cur_thread_id_`: after a restart a new thread with the
identifier of the old worker executes its functor in place, beside a task of the
new worker, although tasks "never overlap".

### Fairness

`Thread`: weak fairness for the loop, the owner's calls in progress and the
clock; strong fairness for the end of a task (it may make calls first) and for
each caller's call in progress, because it competes for `mutex_` with a loop
that takes it again and again, and absl::Mutex does not starve a waiter. The
other modules: strong fairness per thread, for the same reason, and callbacks
and tasks return. Nobody is obliged to begin a call, and no spurious wake-up is
relied on. In `BusThreads` the mutex is granted to whoever goes on asking, a
free worker looks at its queue, and functors and onEvent return (strong fairness
of `GoOn`, `Serve` and `Answer`); nobody has to begin a call. `ThreadIdentity`,
`SafeTasks` and `Conversions` have safety properties only.

### Where code and documents differ, without a run of their own

- A parser callback that rejects a member's value, or an array, leaves a
  discarded value in the object, although `parser_callback_t` says it is removed.
- `from_cbor` with its default tag handler rejects what `to_cbor` writes for
  binary values with a subtype; `BinaryRestored` reads with the handler that ignores tags.
- `unflatten` makes an array of an object with the key `0`, which the note at
  `json.h:25103-25106` does not except.
- `operator<` takes unsigned numbers of 2^63 and more for negative ones against
  signed numbers; binaries that differ in the subtype only are neither less nor equal.
- A pointer token of one character that is no digit makes `array_index` throw
  `std::invalid_argument`, not an exception of the library.
- `update` with an argument that is no object throws, but has made an object of
  a null before.
- `operation_add` of a patch into a parent that is neither array nor object meets `JSON_ASSERT(false)`.
- `from_bson` of a string cut off before its terminator gives a discarded value
  and no error; a count of -1 in UBJSON, and lengths of 2^64-1 in CBOR, are taken for "unknown".
- `formatJson` breaks lines inside strings, and indents every character of a
  text that ends in a line feed. `getUnsignedInt` returns 0 for integers that
  were built from signed ones and never parsed.
- A NUL byte ends a text for the lexer.

The models take the code's side in each, and the properties name the cases that
they leave out.

## Proofs

`ThreadProofs` proves, for every set of clients, tasks and methods, every delay,
every horizon with or without wrap, and every counter width:

- `TypeCorrect`: `Spec => []TypeOK`;
- `Invariance`: `Spec => []IInv`, where
  `IInv == TypeOK /\ Places /\ Roles /\ Calls /\ NoLostWakeup`;
- from it `NeverSleepsThrough` (`NoLostWakeup`), `FunctorOutlivesTask`
  (`FunctorLifetime`), `WaiterHasTask` (`CallerReleased`), `StopMeansIdle`
  (`StoppedIsIdle`).

None of these properties is inductive. That the functor outlives its task needs
to know which task a caller waits for and that the event is set by that task's
destruction only (`Calls`), and that the task is in one place, so that it is
destroyed once (`Places`); that Stop leaves nothing running needs to know who
may be where (`Roles`). `PlacesStep`, `RolesStep`, `CallsStep` and `WakesStep`
prove one part each, with a step per action that can disturb it.

`Refinement` is `Spec => ImplementsTaskQueue`. Each step either appends to
`messages` (Accept), takes its head (Begin), ends a task (End), drops the queue
(Delete) or is a stutter.

`NeverEarly` is `NotEarly`, with `Wraps = FALSE`. The strengthening `Timing` says
that the trigger time is not before the moment asked for (`RoundsUp`, for
negative delays too) and that the worker's clock value is not ahead of the clock.
With a wrap the statement is about a clock that jumps back, and is neither
claimed nor checked.

`DelayedInOrder` is `DelayedFifo`, for finitely many tasks, fewer than `NumMod`:
2^32 in the code, so that the message number does not wrap. `Numbered` counts:
`next_num` is the number of tasks that were pushed, and greater than each of
their numbers. Two tasks then stay in order since a new one has the greatest
number (`PushKeepsOrder`) and the one that moves is the top (`MoveKeepsOrder`);
this one does not depend on the clock.

The assumptions are `ThreadAssumption`: disjoint markers, integer delays, a
natural horizon, a positive counter width.

`PoolProofs` proves, for any set of tasks and any finite sets of workers and
clients, `PoolTypes` (`TypeOK`), `NothingUnresolved` (`DestroyedIsResolved`) and
`NoLostWakeUp` (`WakeUpPerTask`). `PoolInv` says where each task is, once
(`Queued`, `Posting`, `Running`), who may be in the pool (`Roles`) and that from
the destructor on nobody else is (`Ending`). `WakeUpPerTask` counts: a push adds
a notifier, a notification turns a sleeper into one that is awake, and a worker
that takes a task takes a wake-up with it at most. It is inductive together with
`SleepsOnEmpty`: who is about to block has the mutex and has seen no task. The
count is the reason for the finite sets. `PoolImplements` is
`Spec => ImplementsContract`: with a lemma for each action that is visible in the
contract (`EnqueueAsks`, `PushAccepts`, `TakeStarts`, `FinishEnds`,
`ReturnVanishes`), it needs of `PoolInv` that the tasks in the deque and no
others are `queued` (`DropsTheDeque`), and of its own that a destructor that
waits for the workers has stopped the pool (`Stopped`).

`TimerProofs` proves `TimerTypes` (`TypeOK`) in general, and with one
controlling thread (`Users = {Owner}`) `OneThreadCallsBack` (`OneTimer`),
`InactiveMeansQuiet` (`InactiveIsQuiet`, which no run checks: what a user sees of
it is in the contract), `StopHasWaited` (the action property
`StopWaits`) and `CallsBackAsAsked` (`RepeatsAsked`), for any number of runs,
timeouts and repeats. The hypothesis is needed: `timer_two_starts` is the
counterexample without it. `TimerInv` says that whoever is between the test and
the spawn of Start is alone with the timer (`ExpiredIsOver`, `Alone`), that
callbacks find it started (`CallbacksDoNot`), and that a request to stop has
somebody who waits for the answer (`TryIsWaitedFor`): that no request outlives
its Stop is what keeps a later Start from being stopped by it. `CountInv` follows
`repeat` down. `TimerImplements` is `Spec => ImplementsContract`, from these and
`PollInv`: polls are counted up to the ones that are due and no further
(`Polled`), a run that is not counted ends on request only (`EndsOnRequest`), a
request stands as long as Stop waits (`RequestStands`), and the destructor leaves
nothing that is used (`GoneIsOver`). `TimerContractStep` says for each action
which step of the contract it is, or that it is invisible.

`BusProofs` proves, for any finite set of threads and any handlers and types,
`BusTypes` (`TypeOK`), `NobodyCalledIsGone` (`CalledIsAlive`) and
`EveryHandlerReached` (the action property `SentToAll`) of `EventBus`. `BusInv`
says that `held`, what an owner still has to deregister, is the number of places
of the handler in the list, and that a handler with a place exists
(`Registered`); that who is about to register or deregister does it for an
object of his own that exists (`TargetsExist`); and that a sender with the mutex
has dispatched to exactly the first holders of the list as it now is
(`Dispatching`), which nobody can change meanwhile. `Room` is about the bound
`MaxHolders` only. Four lemmas say what registering and deregistering do to the
list (`WithoutIs`, `PlacesFinite`, `PlacesAppend`, `PlacesWithout`).
`BusAmongThreads` shows that `BusThreads` implements `EventBus`, so that
both promises hold of the composition too (`BusKeepsPromises`), whatever threads
call each other from tasks and handlers;
and `CallersWait` (`BTypeOK`) that a thread waits in BlockingCall exactly while
its functor is in a queue or executed. That needs `PostedOnce`, and a `Rank`,
which excludes calls of oneself. `NobodyStuck` is `NoDeadlock`, for any finite
number of threads. In a set that waits within itself, take the last by rank of
those that do not use the bus: it never wants the mutex, and waits for one of a
higher rank that does not use the bus either. If all use the bus, the holder of
the mutex is not among them, since it waits from onEvent for a thread that does
not (`CallInv`); then all wait in BlockingCall, and the last by rank waits for
nobody in the set (`NoCircle`, from `LastOfAll`). `WaitedForWorks` is from
`CallersWait`.

`IdentityProofs` proves, for any number of threads and identifiers, with or
without reuse, `IdentityTypes` (`TypeOK`) and `SelfRecognised`
(`WorkerDoesNotWait`), and without reuse `NoOverlap` (`TasksDoNotOverlap`). The
invariant `Known` says where the worker and the owner may be and that
`cur_thread_id` is the worker's from PreRun to its end; `NobodyElse`, that no
client has the identifier that is stored, is what reuse breaks.

`SafeTasksProofs` proves that `SafeTasks` implements `ThreadIdentity`
(`SafeRefines`): no step of objects, flags or wrappers lets the queue do what it
could not do without them. So `SafeSelfRecognised` (`WorkerDoesNotWait`) and,
without reuse of identifiers, `SafeNoOverlap` (`TasksDoNotOverlap`) hold of it.
`CalledObjectExists` is `CalledIsAlive`, for any number of objects, flags, threads
and restarts. In `SafeInv` a flag that is alive is the present flag of an object
that exists (`AliveIsCurrent`), and what was cancelled has a flag that is not
alive, wherever the task is (`CancelledIsDead`, `WorkerHolds`); from the reading
of the flag to the end of the method only the worker could change either.
`SafeTypes` is the type invariant.

`Base64Proofs` proves for data of any length and any number of threads, with
`Serial`, `EncodesRight` (`Encoded`), `DecodesRight` (`Decoded`) and
`FitsTarget` (`FitsBuffer`). The invariant `BInv` has `Tables` (whoever fills is
alone, whoever converts finds the tables full) and `Results` (what a call has
written is the part of the encoding, or of the data, that its blocks are). The
arithmetic is in lemmas about one block: `Digits` (the sextets of three bytes
are the digits of their number), `OctetsOf` and `SextetsOfBlock` (the way back),
`TrailingPads` (as many '=' as bytes are missing).

`CodecProofs` proves `PaddingIsExact` (`Unpadded`) for data of any length and
every block size, and `HexIsExact` (`HexDecoded`) for any data and any limit.
`StringsAreKept` is `StringsKept`, for strings of any length over any characters.
All three hold of the operators, whatever the state.

`ReplaceAll`, `SplitToken` and `MergeToken` are recursive functions, defined by
CHOOSE: nothing is known of them until functions that solve their equations are
shown to exist. `DefinedDown` does so once, from the greatest place at which the
equation has no solution; it is an argument by the extreme counterexample
(`SmallestIs`, `GreatestIs`), as all those in this part, because an induction
theorem takes an operator as its parameter, which the provers cannot instantiate.
On this rest `ReplacedIs` (what replacing returns, for any way to give the part
that is replaced), `SplitIs` and `MergeIs` (the equations of both), and `MergeOf`
(merging from the left, as the code does, is merging from the right, as the
splitting goes). `KeptIs` says which characters are left after the first token,
`SelectsBoth` puts two selections together, and `Rejoined` is the descent over the
text that ends in `TokensRejoined`. `HelpersAgree` follows from `EndsBackwards`,
`ReplacedByItself` and `CharacterReplaced`.

The assumptions are those named in the modules: types of constants, markers that
differ, finite sets of workers, callers and runs where a property counts them, an
even `HexLimit`, and a largest repeat count (an `int` in the code), which is the
bound of the timer's bookkeeping `fired`.

The properties of a passing run that no theorem states, and why:

- all properties of `JsonProperties`: the JSON modules are RECURSIVE operators,
  with which TLAPS has no arithmetic, over values of any depth;
- `AcceptedRuns`, `StopReturns`, `DeleteReleases`, `NothingHangs`, `TimerGoesOn`,
  `EveryCallReturns`: liveness under fairness, which these backends have no rules
  for.

## Not modelled

Get and ProcessMessages with a finite timeout (nothing in the library calls
them), GetDelay, the dispatch-warning threshold, names, SleepMs; the
thread-local Current of TaskQueueBase, which is always null because nothing calls
EnsureIsCurrentTaskQueue; the result type of the BlockingCall template.
DecodeBase64 of text that is no encoding. Of `strutil`: URLEncode, trimming,
letter case, wide and UTF-8 strings, file names.

Of `json.h`: the macros and the type traits, conversions to user types,
allocation and the checks of `assert_invariant`, error messages and positions in
texts, Grisu2 and doubles of more than 15 digits, ordered_map, the user-defined
literals, `std::hash`, streams and files as inputs. Much of the file, about half, is such
template machinery and documentation.

`curve25519.h` has declarations and tables of BoringSSL whose implementation is
not in the repository. openssl, sigslot and mio are vendored, and nothing under
the modelled code calls them. The Qt demo and the build files have no module.

## Plan

Done: the modules and proofs above, which state every safety property that the
runs check, but for JSON, and show that `ThreadPool` implements `PoolContract`,
`PollTimer` implements `TimerContract`, and `SafeTasks` implements
`ThreadIdentity`. What is left is the rest of `strutil`.

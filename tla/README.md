# TLA+ models of ActiveMQ-CPP failover and decaf conversions

These modules model the parts of `activemq-cpp-library-3.9.5` whose behaviour
depends on interleavings, failures and numeric boundaries. The focus is the
failover transport with its backup pool, together with parts of decaf: the
`Short`, `Byte`, `Double` and `Character` conversions, the lazily created default
`SocketFactory`, the ownership protocol of `ExecutorService::submit()`, the
composite task runner on its thread, the destination cache of
`DynamicDestinationResolver`, and the reads of `DataInputStream`, and the copy and equality of the OpenWire
commands `MessagePull` and `Response`. The modules also cover the documented ownership and temporary-destination contract
of `ActiveMQConnectionFactory` and `ActiveMQConnection`. Each one is checked
with TLC.

Of the failover transport, the tree under `src/` holds only the headers
(`FailoverTransport.h` and `BackupTransportPool.h`) and the test
(`FailoverTransportTest.cpp`). The
`.cpp` files of the transport, the URI pool, the state tracker and the task
runner are absent. Their definitions follow `spec.md` and are marked
`spec_modelled` in `PROJECT.json`. Everything else is mapped to the header
declarations and doc comments, or to the test scenarios, that it translates.
The decaf sources (`Short.cpp`, `Byte.cpp`, `Double.cpp`, `SocketFactory.cpp`,
`Character.h`, `ExecutorService.h`) are present and are modelled from their
code. There are two exceptions. `Character::digit` is declared in the header
but has no `.cpp` in the tree, so it follows its doc comment. The executors
that implement `doSubmit` are also absent, so they follow the interface's
doc comments. `DataInputStream.h` is only a header too, so its reads follow
the byte formulas and rules its doc comments state. The same holds for
`ActiveMQConnectionFactory.h` and `ActiveMQConnection.h` (`ConnectionContract`).

## 1. Inventory

| Component | State it keeps | Operations | Interacts with |
|---|---|---|---|
| URI pool | ordered list of candidate URIs | `getURI`, `addURI`, `removeURI` | reconnect task, failure callback, backup pool |
| Connection state tracker | records of connection/session/consumer/producer info; transactions; messages | `track`, `restore` (replay in parent-before-child order) | every `oneway`/`request`; the restore step of `iterate` |
| Failover transport (`FailoverTransport.h`) | lifecycle state; active transport; attempt in progress; failure counters; first-connection flag; options | `start`, `stop`, `close`, `oneway`, `request`, `iterate`, `isPending`, `restoreTransport`, `handleTransportFailure`, `handleConnectionControl`, `reconnect`, `add`/`addURI`/`removeURI`/`updateURIs` | URI pool, tracker, backup pool, task runner, transport listener (`ActiveMQConnection`) |
| Backup transport pool (`BackupTransportPool.h`) | connected backups, enabled flag, pool size, priority URIs | `getBackup`, `setEnabled`, `iterate`, `isPending`, `isPriorityBackupAvailable`, `onBackupTransportFailure`, `close` | URI pool (takes URIs, returns them on failure), failover transport |
| Composite task runner and its `Thread` | the tasks; the pending and shutDown flags; the thread's `Thread::State` | `wakeup`, `shutdown`, `run` (passes over the tasks calling `iterate` on those `isPending`); `Thread::start`, `join` | failover transport, backup pool |
| Brokers (environment, `MockBrokerService` in the tests) | up/down; the resources held per client connection; stale connections | start, stop, drop a connection, expire a stale connection | the transports |
| decaf `Short`, `Byte` | a `short` / `unsigned char` | `parseX`, `decode`, `valueOf`, String constructor, `reverseBytes`, `MIN_VALUE`/`MAX_VALUE` | `Integer::parseInt`/`decode` |
| decaf `Double` | a `double` as its 64 bits | `compare`, `doubleToLongBits`, `doubleToRawLongBits`, `isNaN`, `isInfinite`, `toHexString`, `parseDouble` | `Long::toHexString`, `istringstream` |
| decaf `SocketFactory` | the static `defaultFactory` | `getDefault`; the `ShutdownTask` it registers | the `Network` runtime: its lock, resources and shutdown tasks |
| decaf `Character` | a `char` (signed or not, as the build has it) | the classifiers, `toLowerCase`, `toUpperCase`, `digit`, `compareTo`, `intValue` | parsers that classify characters |
| decaf `ExecutorService` | the `FutureTask` made by `submit()`, its clone, the executor's queue and run state | `submit`, `shutdown`, `shutdownNow`, `isTerminated`; the worker threads | the caller that owns the returned future; `doSubmit` of the concrete executor |
| cmsutil `DynamicDestinationResolver` | the map from session to `SessionResolver`, each with a topic map and a queue map | `resolveDestinationName`, `destroy`, the destructor | the session (`createTopic`/`createQueue`), the resource lifecycle manager |
| decaf `DataInputStream` | the wrapped stream's bytes and the read position | `readBoolean`, `readByte`, `readUnsignedByte`, `readChar`, `readShort`, `readUnsignedShort`, `readInt`, `readLine`, `readString`, both `readFully`, `skipBytes`; `readAllData` | the wrapped `InputStream` (its end and its I/O errors); the OpenWire unmarshallers |
| decaf `Thread` | the thread's `State`, interrupt flag, priority, handlers; the callers blocked in `join` | `start`, `join` (all three forms), `interrupt`, `isInterrupted`, `interrupted`, `sleep`/`wait`, `setPriority`, `setUncaughtExceptionHandler`, `setDefaultUncaughtExceptionHandler`, `isAlive`, `getState` | the threads that join or interrupt it; the monitor it waits on |
| `ActiveMQConnectionFactory`, `ActiveMQConnection` | the factory's default user and its prefetch and redelivery policies; per connection its started and closed flags, user, policies, sessions, consumer dispatchers and tracked temporary destinations | factory `setUsername`, `setPrefetchPolicy`, `setRedeliveryPolicy`, `createConnection` (all forms), destructor; connection `start`, `stop`, `close`, `createSession`, `add`/`removeSession`, `add`/`removeDispatcher`, the policy setters, `add`/`remove`/`deleteTempDestination`, `cleanUpTempDestinations`, destructor | the policies the factory clones into each connection; sessions of one connection consuming from another's temporary destinations |
| OpenWire commands `MessagePull`, `Response` (`MessagePull.cpp`, `Response.cpp`, generated) | the fields: Pointers to id objects, timeout, correlation id, and `BaseCommand`'s command id | constructors, setters, `copyDataStructure`, `cloneDataStructure`, `equals`, destructor | the state tracker and the transport copy and compare commands |
| wire format, CMS API, the rest of decaf | (see §5) | | |

What makes the failover transport hard is the number of actors involved:
- the reconnect task on the runner thread;
- client threads blocked in `oneway`;
- the failure callback of the active transport;
- `close()` from the application;
- brokers that stop, restart, or hold a dead connection.

These actors hand URIs back and forth and wait on one another. Restoring the
tracker's state on the new transport takes several steps, and any of them can
fail.

## 2. Modules

| Module | Models | State (VARIABLES) | Actions |
|---|---|---|---|
| `URIPool` | the URI pool | `pool` (a sequence) | `GetURI(u)`, `AddURI(u)`, `RemoveURI(u)` plus the value operators `Candidates`, `Taken`, `Returned` used inside composed steps |
| `ConnectionStateTracker` | tracking and restore order | `tracked` (set of resources) | `Track(cmd)`; `RestoreSnapshot`; `NextToReplay(remaining)` (parent before child) |
| `FailoverTransport` | the transport, its clients and the brokers; INSTANCEs `URIPool` (`pool <- uris`) and `ConnectionStateTracker` | `state`, `uris`, `connectedURI`, `attempting`, `toReplay`, `connectFailures`, `firstConnection`, `tracked`, per client `status`/`pending`, per broker `up`/`brokerRes`/`stale`, history `attempts`, `rejected`, bound `failures`; `backups`, `backupFailed` | `Start`, `ConnectAttempt`, `RestoreStep`, `AttemptFailed`, `RestoreComplete` (together: one `iterate()`), `Close`, `Oneway(c)`, `Wake(c)`, `TimeoutExpires(c)`, `BrokerStop(u)`, `BrokerStart(u)`, `ConnectionDrops`, `BrokerExpiresConnection(u)`; `HandleTransportFailure` is part of the broker steps that break the active connection |
| `FailoverTransport` (backup pool part) | `BackupTransportPool` composed into the transport | `backups` (connected backups, off the URI pool), `backupFailed` (backups whose failure callback is pending) | `BackupCreated`, `BackupCreateFailed` (one `iterate()` of the pool while `BackupPending`, i.e. `isPending()`), `ConnectFromBackup` (`getBackup()` in the reconnect task, tried before the URI pool), `BackupTransportFailed(u)` (`onBackupTransportFailure`); `Close` drops the backups |
| `MC_FailoverTransport` | the instance: URIs `u1,u2`; clients `c1,c2`; resources `conn > s1 > k1` | | |
| `PrimitiveConversions` | `Short.cpp`, `Byte.cpp` | `fn`, `arg`, `out` (last call and its result) | one action per function: `ParseShort`, `DecodeShort`, `NewShort`, `ShortValueOf`, `ParseByte`, `DecodeByte`, `NewByte`, `ReverseShort` |
| `MC_PrimitiveConversions` | inputs at every boundary of int, short, unsigned and signed char; byte patterns for `reverseBytes` | | |
| `MC_DecafPrimitives` | `PrimitiveConversions`, `CharacterClasses`, `DoubleConversions`, `DataInputStream` and `CommandValues` (by `INSTANCE`) composed; the streams and sizes of the `DataInputStream` calls; the commands and id objects of the `CommandValues` calls | `fn`, `arg` shared; `out`, `signedChar`, the stream's variables; `objs`, `call`, `ops`; `cls`, the class a behaviour calls, fixed in `Init` | a step is a call of the behaviour's class |
| `SocketFactory` | `SocketFactory::getDefault()` | per thread `pc`, `result`; `lock`, `defaultFactory`, `created`, `shutdownTasks`, `isShutdown` | one action per line touching shared state: `GetDefaultLock`, `GetDefaultNoRuntime`, `GetDefaultCheck`, `GetDefaultCreate`, `GetDefaultUnlock`, `GetDefaultReturn`; `RuntimeShutdown` runs `ShutdownTask::run` |
| `MC_SocketFactory` | threads `t1,t2,t3`, symmetric; used by the `socketfactory_null` run | | |
| `DoubleConversions` | `Double.cpp` on a parameterised IEEE format | `fn`, `arg`, `out` | `CallCompare`, `CallToHexString`, `CallParseDouble`, `CallIsNaN`, `CallIsInfinite`; the functions are operators (`Compare`, `DoubleToLongBits`, `ToHexString` with the RECURSIVE `HexDigits`/`StripTrailingZeros`, `ReadFloat`, `ParseDouble`) |
| `CharacterClasses` | `Character.h` | `signedChar` (the build, fixed per behaviour), `fn`, `arg`, `out` | `CallClassifier`, `CallToLowerCase`, `CallToUpperCase`, `CallDigit`, `CallCompareTo`, `CallIntValue`, applied to all 256 byte patterns |
| `CompositeTaskRunner` | the runner (spec.md 4.1, 5) on a `Thread` (`Thread.h`) | `thState`, `rpc`, `pending`, `shutDown`, per task `work`, the pass's `unscanned`/`busy`, history `served`; per client `cpc`; main `mpc` | `Start`, `JoinReturns`, `SpuriousWakeup` (the thread); `RunnerPass`, `RunnerIterate(t)`, `RunnerPassEnd`, `RunnerRecheck`, `RunnerWait`, `RunnerWoken`, `RunnerExit` (the `run()` loop); `AddWork(c,t)`, `ClientWakeup(c)`, `Shutdown` |
| `DestinationResolver` | `DynamicDestinationResolver.cpp` | `resolverMap`, per resolver `resSession`/`resState`/`cache`; per key `created`; `nextRes`, `alive`, `destroys`; history `epoch`, `issued`; `out`, `fault` | `ResolveDestinationName(s,n,p)` (with `GetDestination`, i.e. `getTopic`/`getQueue`), `ResolveInvalidName`, `Destroy`, `Destruct` |
| `DataInputStream` | `DataInputStream.h` | `input` (fixed per behaviour), `pos`; the last call's `start`, `fn`, `arg`, `val`, `exc`; `ioErrors` | `ReadBoolean`, `ReadByte`, `ReadUnsignedByte`, `ReadChar`, `ReadShort`, `ReadUnsignedShort`, `ReadInt` (each a `ReadFixed` over `ReadAllData`), `ReadLine`, `ReadString`, `ReadFully(size)`, `ReadFullyRange(null,size,offset,length)`, `SkipBytes(num)` |
| `ExecutorService` | `ExecutorService.h` | per task `pc`, `taskObj`, `proxyObj`, `refs`, `outcome`; `queue`, `running`, `runState`, `drained`, `fault` (set by `DeleteTask` on a second delete) | `SubmitNew`, `SubmitClone`, `SubmitAccepted`, `SubmitRejected`, `SubmitReturn` (the statements of `submit()`, in `SubmitOrder`); `WorkerTake`, `WorkerComplete(t)`, `Shutdown`, `ShutdownNow`, `DeleteDrained(t)`; `CallerGet(t)`, `CallerDelete(t)` |
| `DoubleInputs` | the boundary bit patterns of a double format given by `ExpBits`, `ManBits`: the inputs of `compare`, `toHexString` and `parseDouble` | | |
| `MC_DoubleConversions` | a 12-bit double (3 exponent, 8 mantissa bits) read through a 7-bit float (2, 4), with `DoubleInputs`; used by the `parse_double` run | | |
| `ThreadLifecycle` | `Thread.h`: one worker thread and the callers that start, join and interrupt it | `state`, `intr`, `tExc` (exception in flight), `steps`, `priority`, `handler`, `defaultHandler`, `invoked`; per caller `cpc`, `out`; history `pending`, `spurious` | `Start(c)`, `JoinCall(c,a)`, `JoinReturn(c)`, `JoinTimeout(c)`, `Interrupt(c)`, `SetPriority(c,p)`, `SetHandler(c,h)`, `SetDefaultHandler(c,h)`, `Notify(c)`; worker `Block(to)`, `TimeUp`, `Interrupted`, `Catch`, `Exit(thrown)` |
| `MC_ThreadLifecycle` | worker `t`, callers `c1,c2`; join arguments and priorities at their bounds | | |
| `MC_DecafThreads` | `ThreadLifecycle` (through `MC_ThreadLifecycle`) and `SocketFactory` (by `INSTANCE`) as one run: `part`, fixed in `Init`, picks the component a behaviour exercises, so the state space is the sum of the two | `part` and both components' variables | a step of the chosen component |
| `ConnectionContract` | `ActiveMQConnectionFactory.h`, `ActiveMQConnection.h` as their doc comments state them (the .cpp files are not in the tree) | `factoryAlive`, `fUser`, `fPolicy`; per connection `cState`, `cUser`, `cPolicy`; per policy object `polState`; per session `sessState`, `sessConn`; `dispatchers`; per temporary destination `tempState` and its creating connection `tempConn`; per connection `tracked`; `out` | `NewPolicy`, `SetUsername(u)`, `SetFactoryPolicy(k,p)`, `CreateConnection(c,u)`, `DestroyFactory`, `SetConnectionPolicy(c,k,p)`, `Start(c)`, `Stop(c)`, `Close(c)`, `DeleteConnection(c)`, `CreateSession(c,s)`, `CloseSession(s)`, `AddDispatcher(s,d)`, `RemoveDispatcher(s,d)`, `CreateTempDestination(c,d)`, `RemoveTempDestination(c,d)`, `DeleteTempDestination(c,d)`, `CleanUpTempDestinations(c)` |
| `MC_ConnectionContract` | connections `c1,c2`, sessions `s1,s2`, destinations `d1,d2` (each set symmetric), one user, one policy kind, four policy objects | | |
| `CommandValues` | `MessagePull.cpp`, `Response.cpp` | `objs` (per command object its class and fields), `call` (the last call and its exception), `ops` | `New(o,k,cid)`, `SetPointer(o,f,i)`, `SetTimeout(o,t)`, `SetCorrelationId(o,c)`, `CallEquals(a,b)`, `CopyDataStructure(dst,src)`, `CloneDataStructure(src,n)`, `Delete(o)` |

How the failover model corresponds to the code:
- **One `iterate()` is split into steps.** `iterate()` takes a candidate from the pool (`ConnectAttempt`), then replays the tracker one command at a time (`RestoreStep`). Splitting the replay lets broker failures, `close()` and client calls land between the replayed commands.
- **Ending an attempt.** Once the replay is complete, the new transport becomes the active one (`RestoreComplete`). A broker that is down (`AttemptFailed`) or a rejected replay (the ELSE branch of `RestoreStep`) ends the attempt through `DiscardAttempt`. `DiscardAttempt` drops the broker-side state, returns the URI, and counts the failure against the limit in force. `CountFailure` makes the transport fail for good once `connectFailures + 1 > limit`, which means 1 + N attempts, as the comment of `testMaxReconnectsHonorsConfiguration` says.
- **Client calls.** `Oneway(c)` models the session layer's legal commands (`Issuable`): it creates under a live parent and removes children first, as `testWithOpewireCommands` does. The command is forwarded when `CONNECTED`. When `CLOSED` or `FAILED`, the call throws. Otherwise the caller blocks until `Wake(c)` or `TimeoutExpires(c)` releases it.
- **Brokers.** A broker whose connection is active sets off `handleTransportFailure` when it stops (`BrokerStop`) or when the connection drops (`ConnectionDrops`). After a drop the broker may still hold the dead connection (`stale`). A `ConnectionInfo` replayed to it is then refused, so the restore fails. This is the ordinary "client id already connected" failure, and it is what makes the restore-failure path reachable.
- **Backups.** With `Backup = TRUE` the pool's task takes URIs off the URI pool while fewer than `BackupPoolSize` backups are connected and the transport is running; a URI whose broker is down goes back to the end of the pool. The reconnect task takes a ready backup (`getBackup()`) before it asks the URI pool. When a broker holding a backup stops, the backup's failure callback becomes pending (`backupFailed`); it runs later, possibly after that backup was promoted to primary. `onBackupTransportFailure` (BackupTransportPool.h:147-149) removes the transport from the pool if it is still there and returns its URI to the URI pool whether or not it was: after a promotion the URI is then both in use as the primary and back in the pool, a duplicate the `uri_duplicate` run shows.
- **Fault-injection variants.** Each operator called `...AtLimit`, `...Early`, `...Unguarded`, `...AnyOrder`, `...NeverFatal`, `...OnStartOnly`, `...Unchecked`, `...Unsigned`, `...NoLock`, `...Unpadded`, `ToUShort` or `DoubleToRawLongBits` (used in place of `DoubleToLongBits`) is a plausible bug in the definition that follows it. These are the mutants listed in `PROJECT.json`.

How the primitives model corresponds to the code:
- **Strings.** A string is abstracted to the int that `Integer::parseInt` makes of it, or to `NotANumber` when `parseInt` throws.
- **Casts.** `(short)` and `(unsigned char)` are modelled with their widths (`ToShort`, `ToUChar`). TLC's integers are 32-bit, so the int bounds are written as literals.

How the other decaf models correspond to the code:
- **`SocketFactory`.** Each of the lines 75, 77, 79, 80-82, 84 and 86 of `getDefault()` that touches shared state is one step of its thread. The network runtime's shutdown runs the registered `ShutdownTask`s, which set `defaultFactory` to NULL, and a call that starts after it fails in `getNetworkRuntime()`. `Network.cpp` is not in the tree, so whether the shutdown takes the runtime lock is unknown; the model gives it the lock (`RuntimeShutdown` waits for `lock = NoThread`), the reading most favourable to `getDefault()`. The shutdown still fits between the unlock and the `return`.
- **`Double`.** A double is its bit pattern. The code depends on the format only through its masks, `DOUBLE_NAN_BITS`, the bias 1023 and the subnormal exponent -1022, which are defined from `ExpBits` and `ManBits`, so the model runs on a 12-bit format in which every case of the code occurs. The C++ `==` and `>` on doubles are the IEEE comparisons of the values (`FEq`, `FGt`), false on NaN. A string given to `parseDouble` is abstracted to the exact value it spells; `stream >> float` is the nearest float, ties to even. A `toHexString` result is the record of its parts (sign, leading digit, fraction digits, exponent).

- **`Character`.** The code compares `char` values, whose signedness is implementation-defined. `signedChar` is chosen in `Init`, so every property holds for both builds. A byte 0x80-0xFF is then a negative value (`CharValue`), and `(unsigned char)` and `(char)` casts are `Pattern`. `digit` follows the contract in its doc comment.
- **`ExecutorService`.** Each caller thread runs the statements of `submit()` one per step. Only the memory effects are kept: `taskObj` and `proxyObj` record whether each object is alive or freed, and `refs` counts references to their shared inner state. A `Pointer`'s `release()` gives up ownership without deleting. If a statement touches a freed object, or frees one twice, the fault is recorded in `fault`. A `FutureTask` is deleted in three places: `submit()` on rejection, a worker after running it, and the caller of `shutdownNow()` for the tasks handed back. `DeleteTask` is that delete, and records a double free. The executor follows the header's contract:
  - `Workers` threads run queued tasks;
  - `shutdown()` lets the queued tasks run;
  - `shutdownNow()` hands the queued tasks to its caller, who must delete them.

- **Task runner.** `CompositeTaskRunner.cpp` is not in the tree, so its loop follows spec.md. Each pass of the loop begins under the mutex: the loop exits if `shutDown` is set, and otherwise consumes the pending flag. The pass then visits every task and calls `iterate()` on those whose `isPending()` holds. After a pass that found work, the loop goes round again. After an idle pass, the thread waits on the mutex while neither flag is set. A client's `wakeup()` sets the flag and notifies. The client gives a task its work in an earlier, separate step, so the runner may finish a pass between the two steps. The thread is the `Thread.h` contract: `start()` takes it out of NEW, a wait makes it WAITING until a notification or a spurious wakeup, the end of `run()` makes it TERMINATED, and `join()` returns then. `served` is a history bit per task, flipped by every `iterate()` that does work, so that the liveness property can say that a task was served.
- **Destination resolver.** A destination is the record of the session, domain and name it was created for, plus a generation that counts the creations for that key. A new generation is created only on a cache miss; `getTopic`/`getQueue` return it to the caller, which registers it with the resource lifecycle manager. `issued` records each destination a call returned, with the number of `destroy()` calls before it (`epoch`). `Destruct` is the destructor: it runs `destroy()` again and ends the object's life.
- **DataInputStream.** The wrapped stream is a fixed byte sequence, and `pos` counts the bytes read from it. Each read is one step. A multi-byte read goes through `ReadAllData`. It ends normally, or at the end of the stream with an EOFException after every byte left has been read, or, at most `MaxIOErrors` times, with an I/O error after fewer bytes than asked. The fixed-width values are the header's shift-and-or formulas in their C++ types. The sign is carried by the top byte, so every value stays within TLC's 32-bit integers. `readLine` discards a `'\n'` that follows a `'\r'` and leaves any other byte unread. `char` is taken to be signed.
- **Thread.** The worker's `run()` is abstracted to up to `MaxSteps` blocking calls (`sleep`, `wait`, `join` with or without a timeout: `Block`) and an end that returns or throws. `interrupt()` on a blocked thread wakes it with `InterruptedException` and clears its flag; on a running one it sets the flag, which a later blocking call or `interrupted()` consumes. `join()` checks its arguments, then the caller's own flag, then returns at once if the thread is not alive, and otherwise blocks until the thread terminates, the timeout passes, or the caller is interrupted. An uncaught exception goes to the thread's handler, else the default handler (`HandlerFor`). `pending` records each interrupt not yet observed, so that `spurious` flags an `InterruptedException` nobody asked for.

## 3. Runs

| Run | Cfg | Expect | Properties | Shows |
|---|---|---|---|---|
| `failover` | `MC_FailoverTransport.cfg` | pass | `TypeOK`, `URINeverLost`, `TrackedStateRestored`, `BrokerNeverRejects`, `AttemptsHonorLimit`, `WaiterReleased` | no URI is lost, through backups created, promoted, failed and their late failure callbacks; a connected transport holds exactly the tracked state; the replay respects creation order; attempts are 1+N; every blocked caller is released |
| `primitives` | `MC_DecafPrimitives.cfg` | pass | `NarrowingExact`, `ReverseBytesSwaps`, `ClassifiersExact`, `CompareIsTotalOrder`, `HexStringDenotesValue`, `DataInputTypeOK`, `DecodesMatchReference`, `EqualsIsEquivalence`, `CopyEstablishesEquality` | the Short and Byte parses accept exactly the values of their type, and `reverseBytes` swaps the bytes. On every byte and for signed and unsigned `char`, the `Character` classifiers are the ASCII tables (bytes 0x80-0xFF are in no class) and `isISOControl` is 0x00-0x1F and 0x7F-0x9F. `Double::compare` is the documented total order (NaNs equal and greatest, -0.0 < 0.0); `toHexString` prints every finite value exactly in canonical form. For `DataInputStream`, on every stream of up to four bytes, each read returns exactly what the bytes it consumed encode: a reference big-endian encoder for the primitives, terminator rules for lines, and NUL for strings. No line loses the byte after a lone `'\r'`; `MessagePull`/`Response` `equals()` is an equivalence, and a returned copy or clone equals its source |
| `uri_duplicate` | `MC_URIDuplicate.cfg` | violation | `URIConservation` | a backup promoted to primary whose broker then stops has its failure callback return its URI to the pool (BackupTransportPool.h:147-149), while the reconnect task is already using it: the URI is held twice |
| `byte_limits` | `MC_ByteLimits.cfg` | violation | `ByteWithinLimits` | `Byte::MIN_VALUE = 0x7F` and `MAX_VALUE = 0x80` (Byte.cpp:27-28), so a parsed `0` is below `MIN_VALUE` |
| `short_ctor` | `MC_ShortCtor.cfg` | violation | `ShortStringConstructorKeepsValue` | `Short(const String&)` discards the result of `parseShort` (Short.cpp:38), so TLC's trace builds `Short` from the string of -32768 and gets 0 |
| `socketfactory_null` | `MC_SocketFactoryNull.cfg` | violation | `GetDefaultNeverNull` | the shutdown task runs between the end of the `synchronized` block and `return defaultFactory` (SocketFactory.cpp:84-86), and the caller gets NULL, even with the shutdown taking the runtime lock |
| `parse_double` | `MC_ParseDouble.cfg` | violation | `ParseDoubleExact` | `parseDouble` reads into a `float` (Double.cpp:150): the smallest subnormal double comes back as 0, and wider mantissas are rounded |
| `executor` | `MC_ExecutorService.cfg` | pass | `TypeOK`, `NoUseAfterFree`, `NoDoubleFree`, `NoLeak`, `ShutdownTerminates` | `submit()` clones before handing the task over and releases it on rejection, so no interleaving with workers or `shutdown` frees early; of `submit()`'s rejection, the worker and the caller of `shutdownNow()`, no two delete the same task; every `FutureTask` is freed; `shutdown` leads to termination |
| `taskrunner` | `MC_CompositeTaskRunner.cfg` | pass | `NoLostWakeup`, `WorkEventuallyIterated`, `ShutdownJoins` | the runner never sleeps while work is announced; every task with work is served, however busy clients keep the others; `shutdown()`'s join returns even while clients keep adding work |
| `threads` | `MC_DecafThreads.cfg` | pass | `TypeOK`, `NoSpuriousInterrupt`, `SingleDefaultFactory` | no `InterruptedException` is raised without an `interrupt()` not yet observed, however interrupts race the worker's blocking calls and the callers' joins; `setPriority` keeps the priority in 1..10; while the runtime is up, the lock makes three concurrent `getDefault()` callers create one factory and all get it |
| `resolver` | `MC_DestinationResolver.cfg` | pass | `ResolutionIsStable`, `NoResolverFault` | one destination per session, domain and name between `destroy()` calls, and it is a destination of that session, domain and name; `destroy()` followed by the destructor deletes no resolver twice |
| `connection` | `MC_ConnectionContract.cfg` | pass | `TypeOK`, `PoliciesOwnedOnce` | through every order of setters, connection creations, the factory's destruction and connection deletions, each held policy has exactly one owner |

### Bounds of the `failover` run, and why they are enough

- **Two URIs.** These are enough for a failover from one broker to the other and back, and for the round-robin order of the pool.
- **Two client threads.** Two are needed for two callers blocked at once and for one caller's command racing another's.
- **Three resources in a chain (connection > session > consumer).** A chain is the shortest input on which a wrong replay order is visible.
- **Reconnect limits.** `MaxReconnectAttempts = 1` and `StartupMaxReconnectAttempts = 2` differ, so the switch from the startup limit to the normal limit is checked.
- **Brokers.** Only `u2` is up initially. `MaxFailures = 2` broker stops or connection drops (a named bound) allow a failure during a restore after an earlier failover.
- **Timeouts.** `Timeout = TRUE` enables them.
- **Backups.** `Backup = TRUE` with `BackupPoolSize = 1`: with two URIs, one backup and one primary use both brokers, so a promoted backup, a backup whose broker stops, and a failure callback arriving after promotion all occur.
- **Size.** TLC explores about 69,000 distinct states in about ten seconds.

### Fairness

- **Reconnect steps.** The four reconnect steps get weak fairness. The composite task runner's thread calls `iterate()` whenever `isPending()` holds (FailoverTransport.h:142-155), so a reconnect step that stays enabled is eventually taken. The `taskrunner` run checks this of the runner (`WorkEventuallyIterated`).
- **Backup task and callbacks.** `BackupCreated`, `BackupCreateFailed` and `ConnectFromBackup` run on the same task runner and get weak fairness for the same reason. A pending `BackupTransportFailed(u)` is a callback the backup's transport makes, and gets weak fairness.
- **Woken clients.** `Wake(c)` gets weak fairness because a woken client thread eventually runs.
- **Environment.** Broker start and stop, `close()` and timeouts get no fairness. They may or may not happen.

`WaiterReleased` therefore holds only through the transport's own progress: a reconnect, or exhaustion of the limit. It does not rely on the environment.

### `SocketFactory` in the `threads` run, and the `socketfactory_null` run

Three threads, symmetric (`SYMMETRY SFPerms` in `MC_DecafThreads`, `Perms` in `MC_SocketFactory`), each calling `getDefault()` once: three is one more than the two a lost update needs, so a late third caller after creation is covered. Every thread finishes, so the system stops by design and the cfgs say `CHECK_DEADLOCK FALSE`. `SingleDefaultFactory` is stated while the runtime is up: after shutdown a caller still inside the lock re-creates the factory, which belongs to the shutdown race the `socketfactory_null` run shows.

### The `primitives` run: `Double` calls, and the `parse_double` run

`compare` is checked on all 324 pairs of 18 patterns: both zeros, the smallest and largest subnormal, the smallest normal, one, the largest finite value, both infinities and three NaN payloads, each with both signs. `toHexString` is checked on 70 patterns: exponents 0 (subnormal), 1, 3, 6 and 7, and mantissas 00, 01, 0F, 10, 12, 80 and FF, which exercise the trailing-zero strip and the leading-zero padding. The reference for `compare` is a key function (`OrderKey`) that ranks the values; the reference for `toHexString` evaluates the printed number. In the `primitives` run these calls are the behaviours with `cls = "Double"`. `Double`'s operations are static and keep no state, so each call is made from the idle state and `DoubleReturn` then hands the result to the caller; the calls reachable after any call are those reachable after none, and each result is computed once; `parse_double` checks `MC_DoubleConversions` alone, on the patterns of `DoubleInputs`.

### The `primitives` run: `Character` calls

Every `Character` call is applied to all 256 byte patterns, and `compareTo` to the pairs of seven patterns on both sides of 0x80. The radixes 1, 2, 10, 11, 16, 36 and 37 are the range limits ±1 and the values where the letters begin. The run covers both choices of `signedChar`. `ClassifiersExact` checks the classifiers against the ASCII tables on both builds: a classifier written with a range test on a signed `char` puts no byte 0x80-0xFF in a class, and one that tested the unsigned byte would.

### The `executor` run

The run has three tasks and two workers, so that one task waits in the queue while both workers are busy. This is also the case that `shutdownNow` drains. `Shutdown` and `ShutdownNow` may come at any point of any caller's `submit()`, so every interleaving of a rejection, an early completion and the clone occurs. Each caller submits once and deletes its future, so every behaviour ends; the cfg says `CHECK_DEADLOCK FALSE`.

Fairness:
- The worker threads take and complete tasks, so these steps get weak fairness. No fairness is needed for `isTerminated()` to stay true: the model has no step out of `TERMINATED`.
- Each caller finishes `submit()` and deletes the future it owns. The header says that the caller must delete the future, so these steps also get weak fairness.
- `DeleteDrained` gets weak fairness for the same reason: the tasks that `shutdownNow()` returns are the caller's to delete.
- `shutdown()` and `shutdownNow()` are the application's choice and get no fairness.

### The `taskrunner` run

The run has the two tasks the failover transport registers (the reconnect task and the backup pool's task), two client threads that give work and call `wakeup()` again and again, and at most `MaxWork = 2` units of work per task. Two clients let one client's work arrive during the pass that serves the other client. The bound of 2 is one above what a single client can have outstanding, so saturation is reached, and with it the case where a busy task could starve the other.

Fairness:
- The runner thread gets weak fairness: it runs whenever it is runnable.
- `start()` and the returning `join()` get weak fairness.
- A client that has given work goes on to call `wakeup()`, so `ClientWakeup` gets weak fairness.
- Adding work, `shutdown()` and spurious wakeups get none.

After `shutdown()` the thread is dead and the main thread has returned, so the run says `CHECK_DEADLOCK FALSE`. While the model was written, the liveness properties showed two things. First, a scan that may pick any pending task can starve a task. Second, a loop that re-scans without checking `shutDown` never lets `join()` return while clients stay busy. The spec's loop avoids both: it makes a pass over all tasks and checks the flags at the head of every pass. `WorkEventuallyIterated` discharges the weak fairness that `FailoverTransport` assumes for its reconnect steps.

### The `resolver` run

The run has two sessions, the empty name and one real name, both domains, and one explicit `destroy()` before the destructor. Two sessions give two resolvers. Two domains share one name, which is the case where the wrong map would be consulted. The explicit `destroy()` followed by the destructor is the double `destroy()`, and resolving after it rebuilds the cache. `getTopic`/`getQueue` return the created destination, which the caller registers with the resource lifecycle manager; who registers it is outside the resolver's code, so no property is stated of it. A second real name adds nothing to the keyed maps and multiplies the state space by about 500. The destructor ends the object's life, so the run says `CHECK_DEADLOCK FALSE`. Calls are atomic. The code takes no lock, and whether it is shared between threads is decided by `CmsTemplate`, which is not in the tree.

### The `primitives` run: `DataInputStream` calls

The run takes every stream of up to four bytes over NUL, `'\n'`, `'\r'` and 0xFF (341 streams). Four bytes are enough for `readInt`. Between them, the streams end a line in each of the three ways, put a lone `'\r'` before more data, and set the top bit, which is what the signed reads get wrong. The size arguments include a negative one and the end of the stream, and one I/O error is allowed. The reference the reads are checked against is independent of the model's decoding. `Encode` (RECURSIVE) writes a value as big-endian two's-complement bytes by division, and lines are characterised by what they consumed, not scanned. Each call ends, so no fairness is assumed. Calls stay possible at the end of the stream, so there is no deadlock.

### The `primitives` run: `Short` and `Byte` calls

The two classes record their last call in the same three variables, so the run composes them by sharing those variables rather than taking their product. `cls` fixes the class a behaviour calls, so the state space is the sum of the four classes' (397332 states, most of them `DataInputStream`'s) rather than their product; the run takes under two minutes. The violation runs `byte_limits` and `short_ctor` use `MC_PrimitiveConversions` alone.

- **Parse inputs.** There are 34 ints: the bounds of int, short, unsigned char and signed char, each ±1, plus `-3..3`. There is also `NotANumber`.
- **`reverseBytes` inputs.** The 49 shorts whose two bytes are each one of `00 01 12 7F 80 FE FF`. They cover every combination of sign bits.

### `Thread` in the `threads` run

- **Two callers.** Two are needed for an interrupt racing a join, and for a caller interrupting another caller that is blocked in `join()`.
- **`MaxSteps = 2`.** The worker makes at most two blocking calls, so a flag set during the first call's wake-up can be consumed by the second, which is the sequence that tells a cleared flag from a kept one.
- **Join arguments.** No timeout, a negative timeout, nanos of 1000000 (both `IllegalArgumentException`) and a valid timed join. **Priorities** 0, 1, 10 and 11: both bounds and one past each.
- **Fairness.** None. `Thread.cpp` is not in the tree, so nothing in the code shows when the platform thread is scheduled, and no liveness property is stated of `ThreadLifecycle`; its run checks safety only.
- **Deadlock.** Every caller may be in an untimed `join()` of a worker that waits on a monitor only they notify. `Thread` allows its users this deadlock, so the cfg says `CHECK_DEADLOCK FALSE`.
- **Composition.** `MC_DecafThreads` runs this instance and `SocketFactory`'s in one run. `part` is fixed in `Init`, so a behaviour exercises one component and the states add up (about 270,000) rather than multiply.

### The `connection` run

The two headers document ownership and a few effects but their code is not in the tree, so `ConnectionContract` models the contract the comments state, as `ExecutorService` does. A policy passed to a setter "becomes the property of" its holder and is deleted with it. The factory gives each new connection a clone (`configureConnection`). The model also takes the policy a setter replaces to be deleted, because it is the holder's property. A temporary destination belongs to the connection that created it (`tempConn`), and only sessions of that connection may consume from it. `deleteTempDestination` throws `CMSException` when an active session of that connection uses the destination. `cleanUpTempDestinations` deletes the rest and ignores those exceptions. `close()`'s body is not in the tree and its comment says nothing of sessions, so `Close(c)` leaves the sessions as they are. `createSession` on a closed connection throws (`checkClosed`).

- **Bounds.** There are two connections, so that policies are cloned twice and temporary destinations of two owners coexist, and two sessions and two destinations. Four policy objects are enough for the factory's own policy, one clone per connection and one the client passes to a setter. The run uses one policy kind and one user. The policy kinds are handled identically, and the user only feeds `TypeOK`. Connections, sessions and destinations are symmetric. The run reaches 504962 distinct states in about twenty seconds.
- **Deadlock.** Once the factory is destroyed, every connection is deleted and the policy objects are used up, the program has nothing left to call. The cfg therefore says `CHECK_DEADLOCK FALSE`.
- **What the properties show.** `PoliciesOwnedOnce` fails if a connection shares the factory's policy instead of a clone.

### The `primitives` run: `MessagePull` and `Response`

The commands are generated code, but the rest of the library relies on their `copyDataStructure`, `cloneDataStructure` and `equals`. A command is a record of its fields. Its Pointer fields hold id objects or `Null`, and a copy shares the id object rather than duplicating it. `equals()` on ids compares their values, and two of the three id objects have the same value, so equality by value and by identity are told apart. `BaseCommand` is not in the tree. Its part is the command id, which the creator sets right after construction; it is copied first and compared last, as the calls in `MessagePull.cpp` place it.

- **Bounds.** There are three command objects, so a copy between two and a clone into the third can both happen. The commands are symmetric. `PtrFields` is `consumerId` and `messageId`: `setDestination` has the same code as `setConsumerId`, and `messageId` is the last field that `copyDataStructure` copies. Calls on existing commands are bounded by `MaxOps = 3`, which is enough for two setters and a copy. Construction and deletion are not counted, so some call is always possible and deadlock checking stays on.
- **Properties.** `EqualsIsEquivalence` uses every mix of set and NULL pointers the setters leave. It fails when the `else if` for a NULL field is dropped. `CopyEstablishesEquality` fails when a field is left out of the copy. Copying from a command of the other class without checking the cast also breaks `CopyEstablishesEquality`, because objects of different classes are never equal.

## 4. Plan for the next sittings

1. **Backup transport pool, rest**: the pool is composed into `FailoverTransport`; what remains is listed under 7.
2. **Runtime URI changes**: `reconnect(rebalance)`, `add`/`addURI`/`removeURI`, `updateURIs` and `handleConnectionControl` (`testTransportHandlesConnectionControl`), racing the reconnect task.
3. **Abstract logical transport** (`LogicalTransport`): the promise the failover transport makes to its user. Commands are delivered in order, once, while connected; state is restored; a caller blocks only while not connected. `FailoverTransport` is to be shown to implement it with `INSTANCE ... WITH` a refinement mapping.
4. **Tracker extensions**: transactions, message tracking, and the producer and pull caches (`trackMessages`, `maxCacheSize`).
5. **Composite task runner**: modelled (`CompositeTaskRunner`). What remains is its composition with `FailoverTransport`, so that the transport's reconnect steps are driven by the runner rather than by assumed fairness.
6. **Randomized selection** (`Randomize = TRUE`) with symmetry over URIs.
7. **Priority backups**: `isPriorityBackupAvailable` and the priority URI pool, and `setEnabled`.
8. **More of decaf**: the nio buffers' position/limit arithmetic, the thread lifecycle (`Thread.h`), `DataInputStream`'s reads and the destination cache of `DynamicDestinationResolver` are modelled. The thread lifecycle is modelled twice: as the task runner's thread, and on its own (`ThreadLifecycle`) with interrupts, the three `join` forms and the exception handlers. The nio buffers remain: their headers use `{@inheritDoc}`, and the `IntBuffer`/`LongBuffer` contracts they inherit are not in the tree.

## 5. Not modelled, and why

- **Reconnect delay and exponential back-off.** These are timing only. Attempts are counted instead.
- **Request/response correlation** (`request`, `asyncRequest`, `FutureResponse`). This is planned with the abstract transport.
- **Wire format, the OpenWire marshallers and the CMS API layer.** These are encoding and I/O, generated code.
- **`MessagePull::toString`, `Response::toString` and `visit`.** The first two are `ostream` formatting. `visit` is one call into the `CommandVisitor`, which is not in the tree. The other command headers in the tree (`DestinationInfo.h`, `MessageDispatch.h`, `KeepAliveInfo.h` and the others) only declare fields and accessors, and their `.cpp` files are absent.
- **`Double::toString` and `longBitsToDouble`.** The first is `ostream` formatting, the second a `memcpy`.
- **`Character::toString`, `valueOf`, the widening accessors other than `intValue`.** These are casts and string building, with no branching.
- **The concrete executors** (`ThreadPoolExecutor` and the others). They are not in the tree, so the model's executor is the interface's contract.
- **`DataInputStream::readLong`, `readDouble`, `readFloat`, `readUTF`.** The 64-bit and floating values are beyond TLC's integers. The header says `readUTF` decodes modified UTF-8, but it does not give the decoder's rules for a raw NUL, overlong forms or characters above 0xFF.
- **The rest of `ActiveMQConnection.h` and `ActiveMQConnectionFactory.h`.** The code of these headers is absent. `ConnectionContract` models what their comments state (see the `connection` run). The rest of their comments name operations but not their effects. That covers the transport listener callbacks (`onCommand`, `onException`, interruption processing), producer windows, the duplicate audit, `firstFailureError` and about sixty configuration getters and setters. A model of those would be invented. What the connection relies on from the transport is modelled in `FailoverTransport`.
- **`Thread` names, ids, `toString`, `yield`, `currentThread`, the stack-size constructor's exception and the `RuntimeException` of a failed `start`, the `BLOCKED` state.** These are naming and formatting, a hint to the scheduler, a failure of the platform to create a thread, or a state no method of the header enters; they change nothing the modelled calls read.
- **A test bug.** `testSendOnewayMessage`, `testSendRequestMessage` and the `...Fail` variants assert `messageCounter.numMessages = N`, an assignment (FailoverTransportTest.cpp:259, 302, 346, 390). These asserts can never fail, so the tests do not check delivery.

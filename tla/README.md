# A verification development for peridot_sw_packages

The repository is a set of C packages for a Nios II board: a bridge that
speaks with a host PC over one byte stream, an RPC server on top of it, a file
server and a program runner on top of that, and two independent helpers. This
directory models them in TLA+, checks the models with TLC and proves what
matters most of ten of them with TLAPS.

All models are of the multi-threaded build (`__tinythreads__`): `ALT_SEM_*`
are real counting semaphores, `YIELD` lets another thread run, and any thread
may be preempted between two accesses to shared memory.

## 1. Inventory

How the parts interact:

    host PC
      | byte stream                                   src/peridot_sw_hostbridge_gen2
    service (bridge thread): scans chunks, switches channels, calls sinks
      |                |                    |
    avm_sink        pipe sink          peridot_rpc_server_sink
      | reply          | ring buffer        | pending_job, sem
      |             pipe read (app)    RPC worker threads -> methods: fs.*, rubic.*
      |                                     | reply, or async_callback later
    source: locks, selects the channel, frames, writes to the host

| part | state it keeps | operations | hard behaviour | what makes it correct |
|---|---|---|---|---|
| bridge: `service`, `find_channel`, `write_to_channel` | read buffer, `sink_channel`, two prefixes | one chunk after the other | a prefix, an escape or a number may be split over two chunks; the buffer is compacted while it is scanned; a sink takes any part, or nothing | each channel's sink gets the bytes sent to that channel, in order |
| bridge: `source`, `write_to_host` | `lock`, `source_channel_number` | send a packet or plain data | several threads; partial writes; a buffer that must hold the framing; a host that loses its place | the host decodes what was sent, per channel |
| bridge: channel registry, worker thread | linked list of channels, `sink_channel` | register, walk, select | an unlocked append that the bridge thread may observe; a channel selected before it is registered; one thread that serves all sinks | every registered channel is found; no byte is lost; the host is not held up for ever |
| Avalon-MM channel | header bytes, offset, prefixes | one transaction per packet | packets that are too short, too long or break off; arithmetic at the edges of the window | one answer per packet, by its own bytes |
| pipe | ring buffer, two offsets, `sem_read` | `read` (application), sink (bridge) | both copy without a lock, from samples that may be stale | a bounded queue; nobody sleeps on data |
| RPC server: packet assembly | header, `incoming_job`, offset | one byte | stops when a job is pending; wrong lengths; no memory | exactly the well-formed requests become jobs |
| RPC server: jobs and workers | `pending_job`, `sem`, jobs | publish, take, call, reply, callback later | a slot handed over without a lock; a callback before its method returns; two failing `malloc`s | each job has one owner, is freed once, answered at most once |
| BSON codec | none | measure, build, shrink and read documents | offsets and lengths; a binary that shrinks inside its document; memory that was measured before | what was put in comes out; nothing outgrows its memory |
| client file system: table | `vfd_list`, `sem_lock` | `fs.open`, `fs.close`, `fs.read` ..., `fs.cleanup` | opens and closes that overlap a cleanup; failing `open` and `close` | no descriptor leaked, closed twice, or confused with another |
| client file system: paths | list of allowed names | init, check a path | the first entry that the path starts with decides | allowed means listed |
| Rubic agent: workers, `rubic.queue` | per worker: `state`, `mutex`, `sem`, `context`, `callback_context` | queue, run, `notify_init`, `cooperate` | requests and runner meet without the mutex; the worker unlocks what it does not hold; an abort races the program's end | every request answered once |
| Rubic agent: `boot.json` | a buffer on the stack | parse | the file is read over its own path, and may be cut off | what it names is booted, or nothing |
| Rubic agent: `rubic.info`, `rubic.status`, programmer | cached document | query, hash, flash | documents of fixed sizes; a cache rebuilt without a lock | results are what they say |
| named FIFO | ring buffer, counts, flags, three semaphores | open, close, read, write | blocking, last close against waiting calls | a FIFO |
| digests | running sum | CRC-32, MD5 | the padding at the end of a chunk | equal to their definitions |

`PROJECT.json` lists the same parts with their modules and, under `hazards`,
every place where one of these behaviours bites, with the property that would
notice, or the reason why none does yet.

## 2. Plan

Order of work: first the code in which several threads meet (pipe, RPC server),
then what feeds it byte by byte (service, packet assembly, source), then the
servers on top, then the rest.

Done: `ByteChannel`, `HostbridgePipe`, `RpcContract`, `RpcServer`, `AvalonSt`,
`HostbridgeService`, `HostbridgeSource`, `RpcSink`, `Avm`, `ClientFs`,
`PathCheck`, `RubicAgent`, `NamedFifo`; `Bridge`, which composes the RPC server,
pipes and the channel registry; `Bson`, `Digests`, `Methods` and `BootJson`; the
proofs of `HostbridgePipe`, `RpcServer`, `Bridge`, `NamedFifo`, `HostbridgeSource`,
`HostbridgeService`, `ClientFs`, `PathCheck`, `RubicAgent` and `RpcSink`.

Left, in this order:

1. Proofs: `AnswersPacket` of `Avm`, which is about framed bytes as those of
   `HostbridgeService` are; of `Bson`, that every setter makes a document exactly as much
   longer as it measures.
2. `rubic.info`: the cached document rebuilt while another worker copies it.
3. `add_file` and `add_directory` while a path is checked; the rounding of a
   capacity to a power of two in `mkpipe` and in `named_fifo_create`.

## 3. Modules

| module | models | state and actions |
|---|---|---|
| `ByteChannel` | what a pipe promises | a queue of at most `Limit` bytes: put some, get some |
| `HostbridgePipe` | `hostbridge_pipe_read`, `_sink`, and the loop of `write_to_channel` | `buffer`, `read_offset`, `write_offset`, `sem_read`; a program counter and the sampled offsets of each side. Sample, copy, commit and post are steps of their own. Bytes are their own sequence numbers, so order, loss and repetition are visible |
| `RpcContract` | what the server promises | accept a request, answer it at most once and only if it wants an answer |
| `RpcServer` | `peridot_rpc_server_sink` from a packet's header on, `_service`, `send_reply`, `async_reply` | `pending`, `sem`, `incoming`; loading and clearing `pending_job` are two steps. A job is named by its packet |
| `Bridge` | the bridge thread, `find_channel`, `register_channel`, `mkpipe`, with the RPC server and its methods | `RpcServer`'s variables; the list of channels with its next pointers and each maker's place in it; the byte on the wire; per pipe what was put and got, `sem_read` and whether its reader waits for it. The bridge thread hands on one byte, selects a channel, or is inside the RPC sink or a pipe's, of which sample, copy and post are steps of their own |
| `AvalonSt` | the framing (`AST_*`), and a decoder for it | pure operators |
| `HostbridgeService` | `service`, `find_channel`, `write_to_channel` | the buffer, `index`, `head`, the prefixes, the current sink; one action per branch of the scan, one for each byte that a sink takes. The host sends packets byte by byte; a packetized sink decodes what it takes |
| `HostbridgeSource` | `source`, `write_to_host` | `lock`, the remembered channel, each thread's buffer, of which the device takes one byte after the other; the host has a decoder for each channel, and may restart |
| `RpcSink` | `peridot_rpc_server_sink`, byte by byte | the prefixes, `offset`, `length`, `incoming_job`, `pending_job`, how many jobs are allocated, whether a byte went behind one |
| `Avm` | `avm_sink` | the prefixes, `offset`, `buffer`; what it sends to the host |
| `ClientFs` | `fs.open`, `fs.close`, `fs.cleanup`, users of a descriptor | `vfd_list`, `sem_lock`, the descriptors of the operating system; each handler is cut at every access to `vfd_list` and every system call |
| `PathCheck` | `add_list`, `add_path`, `validate_path` | the list of entries, built once, less those that got no memory; the verdict |
| `RubicAgent` | `worker_thread`, `rubic.queue`, `notify_init`, `cooperate` | the fields of each worker, a program counter per worker and per caller |
| `BootJson` | `parse_boot_json`, `find_runtime` | pure operators on a file of characters and names, or `Astray` once the parser has left its buffer; `RubicAgent` boots what they return |
| `Bson` | `bson.c` | a document is the sequence of its bytes; every setter is a `Set` and a `Measure` operator |
| `Digests` | `crc32.c`, the chunks of `md5.c` | words are sets of bits |
| `Methods` | what methods and `send_reply` build | the document, the elements it should have, the memory allocated, the digest that was computed; one action per setter, per method's result and per kind of reply |
| `NamedFifo` | open, close, read, write | counts, flags, offsets, semaphores; read and write are one call of side `R` or `W`, as their code is the same with the offsets exchanged |
| `MC*` | - | constants and symmetry for TLC |
| `HostbridgePipe_proofs`, `Bridge_proofs` (with `RpcServer`), `NamedFifo_proofs`, `HostbridgeSource_proofs`, `HostbridgeService_proofs`, `ClientFs_proofs` (with `PathCheck`), `RubicAgent_proofs`, `RpcSink_proofs` | - | theorems |

`HostbridgePipe` instantiates `ByteChannel` with `Limit <- Capacity - 1`, and
`RpcServer` instantiates `RpcContract`; the refinement mappings are the history
variables of the same name. `HostbridgeService`, `HostbridgeSource`, `RpcSink`
and `Avm` share the framing of `AvalonSt`. `Bridge` extends `RpcServer`, whose
actions become steps of its threads, and uses one `ByteChannel` for every pipe: what
`HostbridgePipe` is shown to implement is what `Bridge` relies on. It hands on bytes
one by one, without the framing and the chunks that `HostbridgeService` is about.

What the environment is allowed to do:

* The host of `RpcSink` sends whole packets. That of `HostbridgeService` sends them byte
  by byte, may stop within one, and selects no other channel before its end. In `Avm`
  a packet may break off anywhere, and the bridge may start in the middle of one. A
  break right behind an escape prefix leaves `escape_prefix` set, which SOP does not
  clear: the next packet's first byte is changed (`Come`), and the packet answered as
  what it has become. A read of no bytes gets no answer.
* A packet whose `offset` has reached its length posts `sem` whether it has a job or not
  (rpc_server.c:132-139). Without a job, that is a packet that ends inside its header and
  agrees with a partly stale length, or one of the header alone whose `malloc` has failed.
  `RpcServer` has both if `SurplusPosts`; then two workers may load one job, and nothing
  holds any more (`RpcRunt.cfg`). Without `SurplusPosts`, which is what the `bridge` run
  and the theorems are about, no packet ends inside its header and memory does not fail
  for one of the header alone. A host that sends documents never sends either: the
  shortest BSON document has five bytes.
* The length that a packet of `RpcSink` begins with is any number of its bytes, and is
  taken for a signed one where it is compared with the limit (rpc_server.c:106), as in
  the code. A negative length, or one that is less than its own bytes, makes the sink
  write behind the memory of the job. What happens then is undefined, and the model stops
  (`overrun`); `JobFits` says that no other packet does this.
* A sink or a device that takes several bytes of a write takes them, in
  `HostbridgeService` and `HostbridgeSource`, in as many steps; one that takes none is
  asked again, which changes nothing.
* The host of `HostbridgeSource` restarts at most `MaxRestarts` times, and only
  between two calls: `source` does not look at it in between.
* A pipe has one reading thread, and its channel is not packetized.
* In `Bridge`, `Reselects` means that the host selects a channel anew before the first
  byte that it sends when it knows that the channel is there; `Patient`, that the host has
  no more requests unanswered than the workers and `pending_job` have room for. Nothing
  in the code enforces either; section 4 says what happens without. Threads register
  their channels in any interleaving; `raced` records those that were at it at the same
  time, of which the list may lose one. A method may read a pipe, as any application code
  may; no two requests read the same one. A reader of an empty pipe waits for `sem_read`,
  which the sink posts only if its own samples said empty: it may so sleep on data
  (`Overslept`), in `Bridge` as in `HostbridgePipe`.
* In `Methods` the caller measures what it sets, and sets each element once it has
  made room. The host may make elements of types that no setter makes. A request's
  document ends as it should; what `bson_get_props` does with one that does not is
  said in section 6. The digest of `fs.hash` is stored in 32-bit words at offset 27 of the
  document (client_fs.c:405-413), which is undefined on a processor that stores words only
  at multiples of four, such as the Nios II; the model then goes either on, as on a
  processor that can, or to a state of which nothing is claimed. `rubic.info` gives each
  runtime and each storage 64 bytes and asks for nothing (rubic_agent.c:416, 426): a
  runtime's name and version of more than 26 bytes together, or a storage's name and path
  of more than 52, may overflow them, and the model ends there. `Compress`, which stands for the rounds of MD5, depends in the
  checked instance on every byte of a chunk and on its place.
* `BootJson`'s file is any object of up to two members, one of which names the file,
  with and without spaces, cut off anywhere; strings have escapes and brackets. A file that
  fills the buffer and is cut off behind a backslash (rubic_agent.c:189), behind the colon
  before a value or behind a string takes the parser over the NUL at the buffer's end. What
  it finds, and overwrites, behind it is undefined: the result is `Astray`, of which the
  worker may run something or fail, and nothing is claimed.
* A close that fails leaves the descriptor open (`ClientFs`); where the code does
  not look at the result the descriptor is recorded in `abandoned`. If `Careful`,
  the host does not send, while a request about a descriptor is unanswered,
  another close or cleanup that concerns it. Nothing in the code enforces that:
  two closes of one descriptor at once do close it twice.
* `PathCheck` has no empty names (`//`). Memory may fail for any of the entries, which
  `add_path` then leaves out without a word (client_fs.c:649-652).
* A runner of `RubicAgent` calls `notify_init` once, before it cooperates. For
  the boot program `notify_init` gives the callback a null job; what that does
  depends on what lies at address 0, and the model takes it to do nothing.
  `pthread_mutex_unlock` by a thread that is not the owner does nothing or
  releases the mutex, whichever is worse. If `Patient`, the host asks for a
  program to be started only when nothing is unanswered.

## 4. Runs

`CHECK_DEADLOCK FALSE` is set wherever the environment stops after its bound
(so many packets, requests or opens), which is no deadlock of the code. `Avm`
has no such bound and is checked for deadlock.

### Runs that pass

* `pipe` (`HostbridgePipe.cfg`): capacity 4, nine bytes, reads of up to three.
  Both offsets wrap twice, a full and an empty ring occur at every offset.
  `RingInv` contains `InOrder`: bytes are read in order, none lost or repeated.
  `NoTornCopy`: the two unlocked copies are disjoint. `ChannelSpec`: refinement
  of `ByteChannel`.
* `bridge` (`Bridge.cfg`): five configurations, each of which has what the others
  leave out. Two workers and two packets of any kind and size, a callback at any
  time, `malloc` failing at any time: `RpcInv`, `Answered`, the refinement of
  `RpcContract` (two packets are the smallest number with which a worker can meet
  another worker's job in `pending_job`). One worker and three requests, whose
  methods may wait for a byte of a pipe: three, because one is served, one is pending
  and one holds up the bridge. One pipe of three bytes, read by an application, to which
  the host sends five: the reader can empty it after the sink has sampled it, go to sleep
  on what the sink then puts in, and leave the host with a full pipe. Two pipes that are
  made, also under one number, while the host sends two bytes to each. Three threads that
  register at once, because a thread that is cut off by another can itself be walked to
  by a third. `RegisteredIsFound`, `NothingLost`; under fairness `JobsFinish` and
  `WireFlows`, which says that only a reader that oversleeps holds the host up for ever.
  A method cannot oversleep in this run, as the host sends a method only the byte that it
  lacks; an application can. The safety part is proved for any number of everything
  (section 5).
* `service` (`HostbridgeService.cfg`): a packetized, a raw and an unregistered
  channel, four tokens (a selection, a packet of up to two bytes, a raw byte), a
  buffer of four bytes, so that every boundary of a chunk falls at every place of
  a prefix, number or packet; bytes that need an escape and bytes that look like
  an escaped one.
* `source` (`HostbridgeSource.cfg`): two threads (symmetric), three calls, data of
  up to two bytes with one that needs an escape, a buffer of two bytes, a channel
  number that needs an escape, one restart of the host.
* `rpc_sink` (`RpcSink.cfg`): a header of two bytes, whose words are 0 to 65535, and jobs
  of up to three, so that a body, one byte too few, one too many and a length that is not
  accepted all occur, and lengths that are negative or less than two; three packets, because what the first leaves behind shows in the
  second.
* `avm` (`Avm.cfg`): sizes and addresses of one byte, a window of 16 addresses;
  addresses at and next to both ends of the window, sizes 0, 1 and the whole
  window, packets that are too short, too long by one, or break off anywhere; a command that an
  escape left over from the packet before turns into a read, and one that it turns into
  none.
* `client_fs` (`ClientFs.cfg`): three workers, two slots, two descriptors, four
  requests: an open, a close and a cleanup at once, a further open for a slot that
  is free again, a full table. `RequestsEnd` under fair workers.
* `path_check` (`PathCheck.cfg`): one letter, all lists of up to four characters in
  all three places, all paths of up to three, and every choice of entries that get no memory. One letter is
  enough for a name that
  is a prefix of another (`a`, `aa`, `a/`, `a/a`).
* `named_fifo` (`NamedFifo.cfg`): three threads, one of which does not block, each
  opening twice, so that a side can lose its last user, get a new one and lose it
  again. `OnlyLastClosePosts` has the consequence that on a fresh FIFO every read
  and every write waits for ever, and that the part of read and write after the
  test for data or space is never reached: the model has it (`TransferLocked`)
  because the code does.
* `rubic_agent` (`RubicAgent.cfg`): one worker with three requests of many kinds or
  four of a few, so that the semaphore has surplus posts from requests that a runner
  took directly; two workers and a boot program with two requests of any kind or three
  of two kinds. `AnsweredOnce` and `StartAlive` need both the patient host and the
  single RPC thread: with two, the unlock of a mutex that the worker does not own lets
  two starts into one worker (`RubicStarts.cfg`). `Kept` and, under fairness,
  `JobsAnswered` are asserted without a boot program: a request that waits while it
  fails to start is dropped. `BootsRight`: what a worker boots is what `boot.json` asks
  for, or nothing; a file that was cut off boots nothing, though what follows it in the
  buffer is left over. The buffer has 25 characters, so that the longer objects are cut
  off by it as well, some of them behind a backslash, a colon or a string, where the
  parser leaves the buffer and nothing is claimed.
* `methods` (`Methods.cfg`): documents of up to three elements of every type under two
  names, with empty and non-empty strings and binaries, elements that only a host makes
  and one of an unknown type, binaries that shrink; results of `fs.read`, `fs.hash` and
  the others for files of 0 to 64 bytes and reads of a byte less or more; `rubic.info`
  for none or one runtime and storage whose names are short, fill their 64 bytes, or are one
  byte too long, when the model ends; replies with and without `id`. `HashIsDigest` is about
  every digest that is computed, and about the documents that carry one: of `fs.hash`, only
  where a processor stores words at any address (section 3). Lengths 55, 56 and 64 are those at which MD5 needs another chunk; a CRC
  is computed of up to five bytes.

Every property of a passing run has a mutant in `PROJECT.json`: a plausible
mistake in one definition that makes the property fail in that run.

### Disagreements with comments and documents

One run, `fifo_no_space` (`FifoNoSpace.cfg`), is expected to find a violation: a
write to an empty FIFO finds "No space to write now" (named_fifo.c:152), since its
test for a full buffer is the reader's test for an empty one.

The other configurations in this directory are not among the runs. Each checks
one or two properties that comments or documents state and that TLC refutes
(`tlc -config <configuration> <module>`; of two, TLC reports the one that it finds
first, and the other when that line is taken out):

| configuration, module | property | what is said | what happens |
|---|---|---|---|
| `PipeOffers.cfg`, `HostbridgePipe` | `NoSleepOnData` | pipe.c:53, the cells between r and w are available | the sink wakes the reader only if its own old samples said empty; the reader may have drained the pipe since, and sleeps on new bytes |
| `PipeOffers.cfg`, `HostbridgePipe` | `OverflowDropsData` | pipe.c:127 "Buffer overflow => Drop data" | nothing is dropped; `write_to_channel` offers the bytes for ever and the bridge thread serves nobody else |
| `RpcRunt.cfg`, `RpcServer` | `PostsAreJobs` | peridot_rpc_server.c:133 "Invalid packet size => drop packet" | a packet that ends inside its header is compared with a partly stale length; where they agree, and where `malloc` fails for a packet of the header alone, `sem` is posted without a job |
| `ServiceBytes.cfg`, `MCHostbridgeService` | `SpecialBytesDropped` | gen2.c:141 "Drop special byte" | `memmove` drops the first byte of the buffer |
| `ServiceBytes.cfg`, `MCHostbridgeService` | `PacketsInOrder` | gen2.c:74 "Write data to channel" | a chunk that ends between an escape and a channel number delivers both prefixes to the old channel and spoils its next packet |
| `AvmRange.cfg`, `MCAvm` | `OutOfRangeIsZero` | avm.c:106 "Out of range (returns 1 byte zero)" | `addr + size` wraps, and a read near the top of the address space is carried out |
| `ClientFsMax.cfg`, `ClientFs` | `AtMostMaxFds` | peridot_client_fs_sw.tcl:28 "Maximum number of file descriptors can be opened" | an open that a cleanup has cancelled gives its slot back before it closes its file |
| `PathShadow.cfg`, `PathCheck` | `ListedIsAllowed` | peridot_client_fs_sw.tcl:31 "A list of one or more write-only files" | a name hides a longer one that starts with it in another list |
| `FifoEof.cfg`, `NamedFifo` | `EofReachesReader` | named_fifo.c:84 "Closed pipe (No writer)" | the last writer's close posts `sem_writer`; a waiting reader never gets to line 84 |
| `RubicControls.cfg`, `MCRubicAgent` | `Kept` | peridot_rpc_server.c:329 "Job will free by async_callback" | a start overwrites an abort that waits in an idle worker |
| `RubicStarts.cfg`, `MCRubicAgent` | `StartAlive` | rubic_agent.c:304 "context for "start" still alive" | two starts in one worker; the first is answered, and its job freed, twice |
| `RubicControls.cfg`, `MCRubicAgent` | `AbortSucceeds` | rubic_agent.c:374 "Abort request always succeeds" | an abort that comes when the program has ended is taken for a start and fails |
| `BootTwo.cfg`, `MCRubicAgent` | `BootsWhatIsNamed` | rubic_agent.c:95 "Parse boot.json for auto boot" | the test for the closing brace (line 201) passes the comma that line 204 then asks for: an object with two members, such as a runtime and a file, is a syntax error unless the first value is an array of at most one number |
| `BridgeStall.cfg`, `MCBridge` | `WireFlows` | peridot_rpc_server_sw.tcl:33 "Number of worker threads for processing requests" | a method waits for a pipe's byte behind a third request, which the bridge thread cannot deliver while the second is pending: nobody gets on |
| `RegisterLost.cfg`, `MCBridge` | `RacedIsFound` | gen2.c:217 "Register channel" | two threads find the same end of the list, and the second cuts off the first |
| `SelectStale.cfg`, `MCBridge` | `NothingLost` | gen2.c:74 "Write data to channel" | bytes for a channel that was registered after the host had selected it are dropped until it selects it again |
| `MethodsNames.cfg`, `MCMethods` | `InfoKeysAreDigits` | rubic_agent.c:438 "rubic_agent.runtimes_max must be equal or smaller than 10", so that keys are one digit | the key of a runtime is `i - '0'`, which is no digit |
| `MethodsNames.cfg`, `MCMethods` | `ReadBack` | bson.c:40 "JavaScript code w/ scope" | its length includes the length field, which is counted twice: what follows is not found |
| `RubicStarts.cfg`, `MCRubicAgent` | `TidIsRight` | rubic_agent.c:510 "Queue request to specific worker thread" | the thread number a client is told is 0 in every worker |

### Fairness

* Bridge thread (`HostbridgePipe`, weak): it loops in `write_to_channel` with a
  yield. The application need not call `read`.
* `Bridge` (weak on the bridge thread, each worker, each maker and the asynchronous
  callbacks): threads are scheduled round robin, and an asynchronous method replies
  at some time. An application goes on reading its pipe as far as it is awake, without which
  `WireFlows` would be false of any bridge; a reader that waits for `sem_read` goes on only
  when it is posted. And the host sends the byte that a method lacks, as a
  client that calls such a method has to. It need not send or finish anything else.
* `ClientFs` (weak, per worker): the scheduler.
* `RubicAgent` (weak per RPC thread, strong per worker): a mutex that is free
  again and again is had in the end, and the programs that are run end.
* `NamedFifo` (strong per thread, over the steps of a call): semaphores are fair
  (`FifoEof.cfg`). It makes the violation stronger: the reader waits although
  everyone else is served.

## 5. Proofs

`HostbridgePipe_proofs`, for every capacity, any number of bytes and any length
of a read (the offsets are masked in the code and taken modulo the capacity in the
model, which is the same for the powers of two that `mkpipe` rounds to):

* `TypeCorrect`, and `RingInvariant`: `Spec => []RingInv`. `InOrder` is not
  inductive: it needs that the unread bytes lie between the offsets (`Unread`,
  `Balance`), that a stale sample errs on the safe side (`SinkSampled`,
  `ReadSampled`), and that the sink's bytes lie past `write_offset` between its
  copy and its commit (`Copied`).
* From it `BytesInOrder`, `CopiesDisjoint` and `ImplementsByteChannel`.

`Bridge_proofs`, its first part about `RpcServer` alone, for any set of workers and any
number of packets, under the assumption `SurplusPosts = FALSE` (a packet that posts `sem`
without a job makes the invariant false, see section 3 and `RpcRunt.cfg`):

* `RpcInvariant`. `OneOwner` is not inductive: it needs that a pending job has
  exactly one token on its way from the sink through `sem` to a worker
  (`SlotInv`), where jobs can be in each state of the sink and the workers
  (`SinkInv`, `WorkerInv`), and that a reply is in one thread's hands
  (`ReplyInv`).
* From it `JobHasOneOwner`, `RequestsAnswered` and `ImplementsContract`.

The second part, for any number of makers, pipes, workers and packets:

* `BridgeIsServer`: `BridgeSpec => Spec`, without a hypothesis. A step of the bridge is a
  step of the server or leaves its variables alone. From it, with the theorems of
  the first part and their hypothesis, `BridgeRpcInv`, `BridgeKeepsContract` and
  `BridgeAnswers`: what was proved of the server alone holds in its place, although there
  the sink is fed by a thread that pipes hold up and methods wait for pipes.
* `RegisteredStays`, without a hypothesis: threads register in any interleaving, and those
  that were not at it together with another are found for good. It is not inductive: it
  needs that `channels` is the list that the next pointers make (`ListInv`), that a maker
  that is alone has walked past every channel before its place, each with another number,
  and to the end of the list when it links (`Walked`), and that a channel once found stays:
  no maker that is about to link, however many race, has stopped before it (`Found`,
  `AloneInv`).
* `PipesLoseNothing`, under `Reselects`. `NothingLost` needs that the
  channel that the bridge thread holds in `sink_channel` is the one whose number the
  host believes to be selected (`WireInv`).

`NamedFifo_proofs`, for any set of threads, blocking or not, and any capacity:

* `Counts`, `Turns` and the action property `GivesUpAtEnd`. The counts are read and
  written under `lock_common`, so the invariant says who is inside (`LockInv`) and what
  a call is about at each of its places (`CallInv`): a thread that waits on a side has
  it open, and so is among its users.
* `NothingMoves`: `read_offset` and `write_offset` never part, so no call ever copies a
  byte. The other theorems rest on it: a call that copied bytes would post both
  semaphores (`TransferLocked`).

`HostbridgeSource_proofs`, for any number of threads and channels, any data, any buffer
that the code's test allows and a device that takes as little of a write as it likes:

* `Fits`. A prefix is three bytes at most, a byte of data two, and `fill` stops one
  short of the end for the last; `BufferFits` needs that the buffer is empty or being
  filled by one thread at a time (`MutualExclusion`) and that nothing is left in it when
  a packet starts (`NothingDropped`), where the code writes `buf[0]` anew.
* `Understood`: `Spec => []HostUnderstands`. Nothing can be said of the host's decoder in
  the middle of a call but what will become of it: the bytes that the device has not
  taken yet lead the decoder (`Runs`) to a state in which it has, of what the call sends,
  all but what is left in `rest` (`Owes`), or to one that has all and a forgotten channel
  (`Promise`). If nobody is sending, its decoders are at rest with all that was expected,
  and the channel that it has selected is the remembered one or, after a restart, none
  (`Agrees`). That a selected channel is not lost needs that only the thread in the lock
  sends, and `source_channel_number` is its channel once it has.

`HostbridgeService_proofs`, for any channels and packets, a buffer of any length, chunks
that end anywhere and sinks that take as little as they like, with the hypothesis
`Unescapable`: no number of a channel and no byte that is sent on a plain channel is one that
travels escaped (`7A` to `7D`). Without it the three properties are false of the code
(`ServiceBytes.cfg`). The bytes of packets are any bytes.

* `InOrder`, `Complete` and `Plainly` are `PacketsInOrder`, `NothingMissing` and
  `PlainInOrder`. They are no invariants of the sinks' bytes alone: between two writes the
  scan is ahead of the sinks, by a span of which the prefix at its end may not be theirs,
  and behind the host. The invariant names two points of the stream, each a channel, the
  prefix that came last and what every channel has made of the bytes before (`Points`): the
  sinks are at the one and the scan is at the other. The bytes that are scanned and not
  written (`Ahead`) lead from the first to the second without leaving the selected channel,
  and the rest of the buffer and of the input (`Todo`) from the second to where the host is
  (`Target`). What a prefix means is a relation (`Move`), as the code reads it, and a run
  never takes back what a channel has got (`Before`), so that what the sinks have is a prefix
  of what was sent, and all of it when nothing is left between the points.
* `DropByte` never comes about: only a byte that travels escaped, or a delimiter of a packet,
  would be dropped from a plain channel, and there is neither.

`ClientFs_proofs`, its first part for any number of workers, slots, descriptors and requests, with the
hypothesis `Careful` (without it two closes of one descriptor do close it twice, section 3):

* `OneOwnerEach`, `FilesStay`, `MarksAreUsed`, `SweptStaysSwept` come from one invariant.
  `OneOwner` counts the places of a file; the invariant has the same without counting
  (`OwnerInv`: listed once, in hand once, not both), and needs who may change a slot:
  a marked slot has one worker that marked it (`SlotInv`); a descriptor that the host may
  use lists a file or its only user is closing it (`HandleInv`); what a worker
  loaded from a slot is there still (`FileInv`). For `CleanupSticks`: requests are
  numbered, and an open that has no slot yet is unknown to any cleanup (`RequestInv`);
  behind a running cleanup there are only free and cancelled slots (`SweepInv`);
  nothing that was swept is listed or will be (`SweptInv`).

The second part is about `PathCheck`, for lists and paths of any length, over any
characters of names, without a hypothesis (names are not empty, as in the model):

* `Allowed` and `Refused`. The invariant is small (`PathInv`: the entries are those of
  the lists, and the result is what the walk over them says); the work is in the
  operators. `add_list` is a fold over characters. The function that `FoldLeft` chooses
  exists and has the values of the walk (`WalksExist`, `WalksAt`), and after each
  character the walk has made an entry of each name that ends before the last colon, and
  of nothing else (`Finds`, `Knows`, `AddListIs`). That the entry of a name decides about a
  path if and only if the name covers it, a directory with the slash or without, is
  `DecidesIsCovers` and `CoversDecides`; the first entry that decides is listed, or is the
  name that refuses. If none decides, every entry that would have allowed the path is among
  those that got no memory (`Kept`).

`RubicAgent_proofs`, for any number of workers, requests and configurations, with one
caller of `rubic.queue` at a time and a patient host (without either they are false:
`RubicStarts.cfg`, `RubicControls.cfg`):

* `OneAnswer`, `StartStaysAlive` and `JobsAreKept`. A job is in one place only: with the
  caller, in `context` or in `callback_context` of one worker (`PlacesInv`,
  `QueuingInv`). The caller that is about to set `context` finds it empty although it has
  released the mutex since it looked (`SetInv`), as its "start" is the only job that
  waits (`AloneInv`); the program that a worker runs was started for the job that is
  still in `context` (`StartInv`).

`RpcSink_proofs`, for every header size, limit, choice of packets and behaviour of
`malloc`. The host's packets are at least a header long, as in the model (shorter ones are
the runts of `RpcRunt.cfg`); there is no other hypothesis:

* `InOrder` and `AllServed` say that the sink undoes the host's framing. The invariant
  relates the bytes that are still to come to the packets that they are of (`StageInv`):
  the sink is between packets, waits at a packet's last byte for room in `pending_job`,
  or has the first `k` bytes of a packet, of which header, length and job are what
  `offset` says. What is left of `input` is the escaped rest of that packet and the
  framed packets behind it, and `expected` is what was received and what these packets
  will add.
* `BodiesFit` and `NoLeak` from the same invariant, with `RoomInv`: a byte went behind a job
  only for a length that, as a signed number, is less than the bytes of the length. Lengths
  are words (`WORD = 256 ^ HEADER`), and the limit and the longest packet are less than half
  of `WORD`, as in the code.
* What `FlattenSeq` and `FoldRight` compute for sequences of any length is induction over
  data. The library's induction theorems take an operator as a parameter, which the
  provers cannot instantiate; `SetInduction` does without: the set of the numbers for
  which a fact holds has 0 and every successor, hence, since every set of numbers has a
  least element, all numbers. `FlattenCons` and `ValueIsNat` are proved with it.

The inductive invariants of these modules were checked by TLC, as invariants of the runs'
instances, before they were proved.

Assumptions on constants: only those that the modules state (`FsAssumption`,
`RpcSinkAssumption` and the like). Of `MaxSize`, the bound on a packet, `RpcSink`
assumes `HEADER <= MaxSize`: packets that have a whole header exist.

Only model-checked:

* Liveness (`JobsFinish`, `WireFlows`, `RequestsEnd`, `JobsAnswered`), because TLAPS does
  not treat fairness and `ENABLED`.
* `AnswersPacket` of `Avm`: it folds the bytes of a packet into addresses and counts, and
  waits for the lemmas of `HostbridgeService_proofs` to be carried over.
* `BootsRight` of `RubicAgent` and everything about `Methods`: what the
  parser of `boot.json`, the scan of `Bson` and the sums of `Digests` compute is left to
  TLC's bounded inputs.

## 6. Not modelled

* The 64 rounds of MD5: what they do to the sum is the constant `Compress`; the
  divisions and paddings around them are modelled.
* The flash programmer (`rubic.prog_write`, `rubic.prog_reset`): calls of a driver that
  is not in the repository.
* `rubic.info` in two threads: `free` of the cached document while another copies it
  (rubic_agent.c:413, 493). `mkpipe`'s changes of `alt_fd_list`; a pipe made for output
  only has no sink, and a byte for its channel calls a null pointer (pipe.c:176).
* A request that does not end as it says: `bson_get_props` returns before it has set
  the offsets, and `send_reply` uses one of them (rpc_server.c:300, 345). An `ioctl`
  without an argument, which hands on a pointer that was never set (client_fs.c:621).
  `bson_dump`, a debugging aid that nothing in the repository calls.
* File positions, and the redirection of the standard descriptors.
* `add_file` and `add_directory`, which append to the list of allowed paths at
  run time; the registration of RPC methods and runtimes, which comes before any
  request.
* The BSP scripts: their settings are the constants of the modules.

# moqsub in TLA+

moqsub subscribes to a broadcast on a MoQ relay (draft-18 over raw QUIC): it fetches the
`.catalog` track, picks an init and a media track from it, writes the init segment and then
every media object to stdout or to a command. These modules model the session that does this, the
bytes it reads and writes, its counters and the page of `--rich-log`. TLC checks them on small
instances, and TLAPS proves the safety properties for every instance.

    tlasany Session.tla                           parse a module
    tlc -config playback.cfg MCSession.tla        one of the runs below
    tlapm SessionProofs.tla                       check the proofs (a few minutes at most;
                                                  also OutputProofs, RichSessionProofs,
                                                  UniStreamProofs, StatsProofs, CatalogProofs,
                                                  CodecProofs)

## The system

| Component | State | Operations | Right when |
|---|---|---|---|
| Subscription registry (`app/subscriptions.go`) | `byRequest`, `byAlias`, `nextID`, under one mutex | allocate, register, bind an alias, look a stream's alias up | a data stream reaches the subscription of its own track |
| Main goroutine (`app/run.go`, `app/subscriptions.go`) | local state, `peerSetupSeen` | dial, open the sink, SETUP, bootstrap `.catalog` → init → media with timed waits, receive loop, deferred closes | the bootstrap ends, the init segment precedes media, errors end the session, the exit status tells the truth |
| Request stream readers (`readRequestStream`, one per SUBSCRIBE) | the request stream, `okCh` | bind the alias, hand the answer to the waiting goroutine | an alias is bound before the answer is delivered |
| Accept loops and stream handlers (`acceptUniStreams`, `handleUniStream`, one per stream) | the stream, the subscription found, `gotFirst`, `firstObjCh`, `errCh` | read control messages and objects, deliver, report errors | no object is lost, repeated or reordered within its stream; reported errors reach the receive loop |
| Output sink (`media/output.go`) | the writer, the child process | start, write, close, wait for the child | one payload at a time, nothing of a stream behind a write of it that failed; closing ends the child |
| Statistics (`Stats` in `app/run.go`) | atomic counters | count, `recordFirstObject`, `printSummary` | the summary agrees with what happened and does not contradict itself |
| Subgroup object reader (`draft18/stream.go`) | the previous object ID | parse a header, read an object | whole objects with the IDs that were meant, in step with the stream's layout; a complete stream is never taken for a broken one |
| Varints, control messages (`draft18/varint.go`, `codec.go`) | none | encode and decode | decoding inverts encoding; lengths, sums and limits do not wrap; a varint that is cut off is never a value |
| Catalog (`app/catalog.go`) | none | choose the media track, name the init track | a playable pair is found if there is one |
| Namespace splitting (`splitNamespace` in `app/run.go`) | none | split `--namespace` | no empty field, whatever the slashes |
| Rich log (`richlog`) | the list of events, the tables of objects, under a mutex | add an event, add an object, write the HTML | the page shows init above media, what was written, and the answers the session acted on |
| Error names (`draft18/errors.go`) | none | name an error code | only log lines use it |
| QUIC client, flags, debug logger | none | dial, parse, choose a handler | configuration is passed on |

The goroutines interact through four things: the registry (a mutex), the one-place channels
`okCh` and `firstObjCh` (non-blocking sends, timed receives), `errCh` (eight places, blocking
sends, read by the receive loop only) and the sink (a mutex). With `--rich-log` they also share the
recorder, and they all count in `Stats`. The signal context is seen by every `select`, by the accept
calls, by the opening of request streams and by the child process, of which it kills the shell alone; the
opening of the control stream and the write of the init segment do not see it.

What is hard in this code is the order of things. QUIC orders bytes within a stream only, so data
may be handled before the SUBSCRIBE_OK that announces its alias; `lookupDelivery` then takes the
alias for a request ID. Handlers of one track run concurrently and share an unsynchronised flag.
`errCh` fills up while nobody reads it. A lost connection is noticed during the bootstrap only by
timers. A write may fail midway, and only its own goroutine learns of it. A `select` with several ready cases takes any of them. Counters and rows of the rich log are
added beside the accesses they report, with other goroutines in between. Below that, the layout of a
stream hangs on tables of stream types, IDs are sums that may wrap, a length is allocated before
its bytes are there, and where a stream is cut off decides whether that ends the session. `PROJECT.json` lists each of these hazards at its line, with
the properties that cover it.

## The modules

The session:

| Module | Models | |
|---|---|---|
| `Registry` | `subscriptionRegistry` | one operator per method; each runs under the mutex and is one step |
| `Sink` | `media.Sink`, `writePayload`, the command | `output` is the sequence of payloads the writer accepted whole, `torn` the ones it took a part of |
| `Relay` | the relay (not in this repository) | answers a SUBSCRIBE with a sequence of messages, opens streams with some content |
| `Session` | `run.go`, `subscriptions.go` | the composition of the three with all goroutines |
| `Playback` | what a player relies on | the abstract specification, over `output` and `torn` alone |
| `SessionProps`, `SessionInv` | | the properties, with `Playback` instantiated; the inductive invariants |
| `SessionProofs`, `OutputProofs` | | the theorems |
| `MCSession` | | stream contents and replies for TLC |

The rich log:

| Module | Models | |
|---|---|---|
| `RichLog` | `richlog.Recorder` | `Add` and `AddObject`, one step each under the mutex |
| `RichSession` | the recorder's calls in `run.go` and `subscriptions.go` | `Session` composed with the recorder: each addition is a step of its own |
| `RichSessionProps`, `RichSessionProofs`, `MCRichSession` | | the properties of the page, the theorems, the instances |

The bytes below the session:

| Module | Models | |
|---|---|---|
| `Varint` | `varint.go` | operators; a byte has `ByteBits` bits |
| `Wire` | | strings of bytes as they arrive; the draft's varint table as the reference definition |
| `Codec` | `codec.go` | operators for frames, key-value pairs, namespaces and the four messages |
| `Messages` | | the decoders over every string of `Wire` |
| `Requests` | `sendClientSetup`, `sendSubscribeMessage`, `splitNamespace` | from the user's and publisher's texts to the frame, and the relay's reading of it |
| `UniStream` | `handleUniStream` with `stream.go`'s and `codec.go`'s readers | one stream, one `io.ReadFull` per step |
| `StreamView` | a stream as `Session` sees it | the abstract specification of `UniStream` |
| `UniStreamProps`, `UniStreamProofs`, `MCUniStream` | | the properties, the refinement, the theorems, the instances |
| `Catalog`, `CatalogProofs` | `catalog.go` | the publisher writes a catalog track by track; the choice as operators; the theorems |
| `CodecProofs` | | the theorems about varints, messages and requests |
| `MCData` | | the instance of `Messages`, `Requests` and `Catalog` |
| `Stats`, `StatsProofs`, `MCStats` | the counters of `run.go` | every load, store and increment of the handlers and of `printSummary` as a step; the theorems |
| `NumberFacts` | | for the proofs: the least of a set of natural numbers, induction over a set, powers of two, division |

State and code correspond by name: `byRequest`, `byAlias`, `nextID`, `okCh`, `firstObjCh`,
`gotFirst`, `requestID`, `errCh`, `peerSetupSeen`, `bytesWritten` and `streamResets` are the Go variables.
`main`, `reader`, `acc` and `hpc` say where a goroutine is; `held`, `result`, `accErr`,
`hsub` and `herr` are its local variables. A subscription is named by its role, as the session creates one
of each. A payload is the triple of the stream it came on, its position there and the track the
relay sent it for, which is what the properties need to tell payloads apart.

An action is one access to shared state, with the code up to the next one: a handler's read of
its own stream is merged with what follows. Where the code touches shared state twice there are
two actions: binding an alias and notifying the waiter (`ReadMessage`, `NotifyOK`), testing and
setting `gotFirst` (`ReadObject`, `DeliverFirst`), writing and counting (`DeliverMedia`,
`CountBytes`; `WriteInitSegment`, `CountInitSegment`). The main goroutine is `MainStep`, a reader `ReaderStep`, an accept loop
`AcceptorStep`, a handler `HandlerStep`. `Cancel`, `ConnLost`, `Stall`, `RelayStep`, `ChildStep` and the
timers are the environment's; the constant `Faults` says which of them occur. `Stall` says that the
relay grants no credit for unidirectional (`uni`) or request streams (`bidi`), or that nobody reads
the output (`output`): the calls that need it do not return from then on, unless they listen to
the context (`Blocked`, `OutputBlocked`).

A write that fails may have come out in part: it leaves the payload in `torn`, with its place (`WriteFails`), and the
goroutine ends with the error. A write that the end of the process cuts off leaves one too (`CutOff`). A command is a `sh -c`, and
`exec.CommandContext` kills the shell: `child` is `running`, `left` (the shell is gone and something it
started holds the pipe) or `gone`. The fault `orphan` says that a command has such processes; without it the
shell is the command, and its end frees the pipe. `result` is `panic` when a length makes `make` panic in a handler
(`ReadPanics`): the process exits on the spot, and no deferred call of `Run` is made.

`Session` takes a stream for a header, whole items and an ending `fin`, `bad`, `reset` or `huge`, a length that panics.
`UniStream` says where that comes from. Its state is what the publisher sends (`content`), the next field on
the wire (`at`) and the field the reader takes it for (`pc`); that the two agree (`InStep`) is not
built in: it depends on `subgroupHasSubgroupID` and `subgroupHasExtensions` against the bits of the stream type.
A varint is two reads, its first byte and the rest, and a stream may end at each of them. The lengths of extensions and
payloads are allocated before they are read, and `make` accepts no more than `MaxMake` (`MakePanics`).
`ViewSpec` is the refinement to `StreamView`.

`RichSession` adds to each action of `Session` what the goroutine records. Where the code adds after
the shared access (`CONNECTED`, `SUBSCRIBE`, `INIT SEGMENT WRITTEN`, headers, rows) the action leaves
the event in `owed` and the goroutine adds it before it goes on. Where the code adds before it
acts (answers to a SUBSCRIBE, the relay's SETUP) `noted` says that it has added. `Kept` names the events an
instance keeps. A row is recorded for every object `deliverSubgroupObject` accepted, which includes
objects of `.catalog` and init that it dropped because the channel was full.

`Stats` has the handlers of `Session` reduced to their counting: which track a stream carries is
given, binding and endings are left out.

Definitions marked as faulty variants (`lookupAliasOnly`, `CountLast`, ...) are not used by any
specification. Each stands beside the definition it varies and shows, when put in its place,
that a property would notice the mistake.

## The runs

| Run | Checks | Instance |
|---|---|---|
| `playback` | `PlaybackSpec`, `LoopBindsRight`, `RunInv`, `BytesAccounted` | free aliases, four streams of two objects (`.catalog`, init and two of media), writes that fail midway, timeouts |
| `convention` | `BoundToOwnTrack`, `NoMediaLost`, `MediaInv`, `MediaPlayed` | alias = request ID, three streams of two objects around a status object, a command that may end at any time |
| `faults` | `ExitZeroOnlyIfCancelled`, `FailsForCause`, `SessionInv`, no deadlock | every kind of stream and every ending, late, withdrawn and undecodable answers, cancellation, `errCh` of one place |
| `bootstrap` | `BootstrapEnds`, `ErrorsReported`, `LossStops` | answers that are errors, do not decode or do not come, request streams that end before or after the answer, streams that are reset, the connection lost at any time, `errCh` of one place |
| `cancel` | `CancelStopsUnlessDeaf` | a command of one process or several, which may stop reading and outlive its shell, no credit for the control stream, streams that are reset, `errCh` of one place |
| `stall` | `CancelStopsUnlessDeaf` | stdout, three streams: nobody reads the output, or no credit for request streams is left, from any point on, the writing of media included |
| `misbound` | `NeverMisbound`, violated | free aliases, three streams of one object |
| `richlog` | `PageInv`, `InitAboveMedia`; `RecorderInv`, `TablesMatchOutput`, `AnswersRecorded` | the recorder, free aliases, three streams that are control streams or carry two objects, answers that may be errors |
| `richorder` | `AnswersBelowRequests`, violated | the recorder, one stream |
| `unistream` | `InStep`, `SummaryAgrees`, `StreamInv`, `ViewSpec` | every subgroup type with up to two objects, three for two of them, IDs 0 to 3; lengths that `make` refuses; control streams; cut off at every read |
| `data` | `DecodesByTheTable`, `EncodesMinimally`; `TypesNeverWrap`, `SetupReadsBack`, `EOFMeansCutOff`, `AnswersStayPut`; `SubscribeArrives`, `SetupArrives`, `SentUnlessTooLong`; `PlaysWhatThereIs`, `InitFitsMedia` | every string of up to four bytes of three bits and every one of up to seven over four of them; namespaces of up to six characters, track names and paths of up to 66; catalogs of up to three tracks |
| `stats` | `StatsInv`, `SummaryCoherent`, `LatencyIsOfFirst`, `LatencyStays` | three streams of one or two objects, two clock readings |

What they show:

* Whatever aliases the relay picks and however data and SUBSCRIBE_OK overtake each other, the
  output is one init segment and then media objects only, each stream's in order, none twice
  (`PlaybackSpec`). The race on `gotFirst` does not change that: the one-place channel drops what comes
  second, and what it keeps for a later reader is never read. If a write fails midway, other handlers may still
  write whole payloads behind the torn one, but nothing of its stream follows, and behind a torn init segment nothing at all.
* If the alias equals the request ID no data stream goes astray (`BoundToOwnTrack`) and no media
  object is lost (`NoMediaLost`, `MediaPlayed`).
* If it does not, an early data stream can be bound to another subscription: `misbound` finds
  an init stream with alias 0 delivered to `.catalog`, whose request ID is 0. The explanation of SUBGROUP_HEADER
  (`run.go:401`) says that the header binds a stream by the alias from SUBSCRIBE_OK. Its objects are
  dropped: while a subscription waits for its first object no later track has an alias, so what
  goes astray goes to a subscription that has had its object. By `PlaybackSpec` it cannot reach
  the output as something else, and by `LoopBindsRight` it cannot happen once the receive loop runs.
* Exit status 0 implies that the user cancelled. The converse does not hold: another error may be
  taken from `errCh` first. Status 1 after a failure in the receive loop has a cause: an error of a goroutine that is no
  stream reset (`FailsForCause`).
* A cancellation ends the process even if calls hang, with two exceptions: the opening of the control
  stream, which has a context that is never cancelled (`run.go:177`), and the write of the init
  segment to a stdout that nobody reads, or to a pipe that a process outliving the shell holds without reading
  (`CancelStopsUnlessDeaf`). Media writes may hang: they are the handlers', and a pipe is closed by the main goroutine.
  With a command that is one process the kill frees the pipe, and only the control stream is left: `Deaf` has no other case then.
* An extension or payload length that `make` does not accept panics the process (`stream.go:129`, `stream.go:149`):
  no summary, no page. No part of the object comes out, and no other length does so (`ViewSpec`).
* A stream cut off between two reads of an object is taken for a finished one, because
  `io.EOF` comes up there too; anywhere else a cut-off stream ends the session. Either way no partial
  object comes out, and a complete stream is never taken for a broken one (`ViewSpec`). Likewise a
  SETUP body that breaks off where an integer is due, or after its first byte, is taken for the end of the stream;
  any other malformed SETUP is reported (`EOFMeansCutOff`).
* A varint of which nothing or the first byte alone has arrived is `io.EOF` to `ReadVarint`, of which more has arrived,
  `io.ErrUnexpectedEOF` (`DecodesByTheTable`): the first is what the accept loop takes for the end of a stream.
* Object IDs are the ones the publisher meant even if a sum of deltas wraps (`ViewSpec`), and gap
  hints count the objects that do not follow their predecessor, -1 before the first (`SummaryAgrees`).
* The encoder refuses options whose types repeat, the decoder accepts them: a decoded SETUP can be
  encoded again exactly if none repeats (`SetupReadsBack`). What the program sends has none.
* The summary may lag behind but does not contradict itself (`SummaryCoherent`): handlers count the group
  before the object before its bytes, and `printSummary` loads them the other way round.
* The page of `--rich-log` shows the init segment above all media, a stream's table agrees with the
  output, and every answer the session acted on is there. It may show SUBSCRIBE_OK above its SUBSCRIBE:
  `readRequestStream` is started (`subscriptions.go:250`) before the SUBSCRIBE is recorded (line
  260), while the page says "every message exchanged, in order" (`html.go:162`). That is `richorder`.

### Bounds

The runs of the session (`MCSession`, `MCRichSession`). `Ids` is always `{0, 2, 4}`, the request IDs of a
session; a free alias is any of them, so that every confusion of alias and request ID can occur.
An alias outside the set would be an alias that is no request ID, for which the fallback finds nothing:
the case of 2 and 4 before the bootstrap has reached them. Four streams are `.catalog`, init and two of media, whose handlers
write, count and fail in any order; three are enough for media to be written, two for what concerns the bootstrap, where
`.catalog` and init take one each; the theorems hold for any number. `ErrCap` is 1 or 2 for
the code's 8: with two streams and two accept loops a small capacity is what makes the channel fill up.
`Bodies` and `Replies` bound the length of streams and answers, `Kept` names the events on the page, which
are those the run's properties mention. There is no other bound; the state spaces are finite because streams and
replies are.

The runs of the bytes. A byte has `ByteBits` bits, 3 for the code's 8, and a `uint64` that many bytes, as 64
bits are eight bytes of eight. A varint then has up to four bytes, and each kind of first byte comes up: no
further byte, some with bits of the value left, some without, the longest form. With `AnyBytes` = 4 every
varint is checked; longer strings are made of one byte of each kind (`SampleBytes`), and seven bytes are what it takes
for two options whose types add up beyond the largest. The code's other limits shrink with it: a
frame has at most 63 bytes for 65535 (the length field has two bytes), a namespace 4 bytes in 2
fields for 4096 in 32, a reason 2 bytes for 1024; the texts are long enough to exceed each of them. Bytes, the
texts of a SUBSCRIBE, that of a SETUP and the catalog do not depend on each other, so `MCData` lets
one of them grow at a time.

In `unistream` `MaxID` is 3 for 2^64 - 1: deltas, sums and gaps depend on the order of IDs and on the wrap
only; the theorems hold for every `MaxID`. The length of a payload or extension is 0, 1 or 2 bytes: absent,
one read that is all or nothing, one that may be partial; 3 is above `MaxMake`, 2^48 bytes or less for the code (Go's largest allocation; less if memory runs out). A catalog has two ordinary names, the empty one and
`.catalog`; three tracks are enough for a first, a better and a worse candidate. `MaxTime` is 2 for two
handlers that read different times.

Symmetry of streams is used in runs without liveness properties only. `CHECK_DEADLOCK FALSE`
stands where the environment may rightly stay silent for ever: without cancellation the receive loop
waits for a relay that says nothing more, and a finished stream, text or summary has no next step. In `faults`,
where the user may always cancel and that ends the process, deadlock is checked; `Terminated` is the exited
process. In `stall` and `cancel` the process may hang for good, where `Deaf` says.

## Fairness

`FairSpec` assumes weak fairness of each goroutine: of the main goroutine, each reader, each
accept loop and each handler. The Go scheduler runs every goroutine that can run, a `select` with
a ready case takes one, and a timer that is part of the wait fires. Nothing is assumed about which
ready case is taken. Nothing is assumed of the relay, of the connection or of the user. The
shell is assumed to end once its input is closed or its context is cancelled: the second is
`exec.CommandContext`'s kill, the first holds for ffmpeg, ffplay and any filter. Nothing is assumed of what it started.

Calls that need what the environment may withhold are fair only while it does not: a goroutine is
not enabled at an opening of a stream without credit or at a write nobody reads. In `stall` and `cancel` they may
hang for ever, and the process must still end on cancellation, but for `Deaf`. `bootstrap` and `convention` leave such stalls out, so they say what happens with a relay
that grants credit and an output that is read. That writes on QUIC streams return is assumed throughout.

The liveness properties have the form `[]<>(F => G)`. What F stands for stays true until it is answered (a
cancelled context stays cancelled, a lost connection lost, and a handler reports once), so this says
that F leads to G; TLC decides it much faster than `F ~> G`.

## The proofs

For every set of streams, contents, replies, capacity and combination of environment events:

| Theorem | Module | |
|---|---|---|
| `SessionCorrect` | `SessionProofs` | `Spec => []SessionInv` |
| `TypeCorrect` | | `Spec => []TypeOK`, with the capacity of `errCh` |
| `ExitZeroCorrect` | | `Spec => []ExitZeroOnlyIfCancelled` |
| `LoopBindsRightCorrect` | | `Spec => LoopBindsRight` |
| `ConventionBindsRight` | | `Spec => [](MatchAlias => BoundToOwnTrack)` |
| `PlaysCorrectly` | | `Spec => PlaybackSpec`: the session implements `Playback` |
| `EndCorrect`, `RunCorrect` | | `Spec => []EndInv`; hence `Spec => []RunInv`, both invariants |
| `FailsForCauseCorrect` | | `Spec => FailsForCause` |
| `BytesCorrect` | `OutputProofs` | `Spec => []BytesAccounted`, for infinitely many streams too |
| `MediaCorrect` | | `Spec => []MediaInv` |
| `NoMediaLostCorrect` | | `Spec => [](MatchAlias => NoMediaLost)` |
| `RichImplementsSession` | `RichSessionProofs` | `RichSpec => Spec`: recording changes nothing a session does |
| `RichPlaysCorrectly` | | hence `PlaybackSpec` and `[]SessionInv` with the recorder |
| `PageCorrect` | | `RichSpec => []PageInv` |
| `InitAboveMediaCorrect` | | `RichSpec => [](InitKept => InitAboveMedia)` |
| `AnswersCorrect` | | `RichSpec => [](AnswersKept => AnswersInv /\ AnswersRecorded)` |
| `TablesCorrect` | | `RichSpec => [](TablesInv /\ TablesMatchOutput)` |
| `RecorderCorrect` | | `RichSpec => [](AnswersKept => RecorderInv)` |
| `StatsCorrect` | `StatsProofs` | `Spec => []StatsInv`, for any streams, contents and clock |
| `SummaryIsCoherent` | | `Spec => []SummaryCoherent` |
| `LatencyCorrect`, `LatencyIsFixed` | | `Spec => []LatencyIsOfFirst`, `Spec => LatencyStays` |
| `ChoosesWell`, `InitFits` | `CatalogProofs` | `CatalogTypeOK => PlaysWhatThereIs`, `CatalogTypeOK => InitFitsMedia` |
| `CatalogCorrect` | | `CatalogSpec => [](PlaysWhatThereIs /\ InitFitsMedia)`: catalogs of any length and any names |
| `StreamCorrect` | `UniStreamProofs` | `Spec => []StreamInv`, for any contents, any `MaxID` and any `MaxMake` |
| `InStepCorrect` | | `Spec => []InStep` |
| `UniStreamImplementsView` | | `Spec => ViewSpec`: a stream is what `Session` takes it for |
| `SummaryCorrect` | | `Spec => []SummaryAgrees` |
| `BytesArrive`, `TextsCorrect` | `CodecProofs` | what arrives, and what the user and the publisher write, are strings of bytes |
| `TableCorrect`, `EncodingCorrect` | | `WireSpec => []DecodesByTheTable`, `WireSpec => []EncodesMinimally` |
| `AnswersStay` | | `WireSpec => []AnswersStayPut` |
| `SetupTypesCorrect`, `SetupReadBack`, `EOFCorrect` | | `WireSpec => []TypesNeverWrap`, `[]SetupReadsBack`, `[]EOFMeansCutOff` |
| `SplitCorrect` | | `splitNamespace(text) = FieldsOf(text)` for every text: the runs between slashes |
| `SetupCorrect`, `SubscribeCorrect` | | `TextsSpec => []SetupArrives`, `TextsSpec => []SubscribeArrives` |
| `SendingCorrect` | | `TextsSpec => []SentUnlessTooLong` |

The assumptions are those of the modules: `IdsAssumption` (identifiers are natural numbers and
include the three request IDs), `SinkAssumption`, `RelayAssumption` (contents and replies are
of the stated kind), `SessionAssumption` (`errCh` has at least one place), `RichAssumption`
(streams are not named like other goroutines) and `UniStreamAssumption` (what a publisher may send has the
stated kind: extensions only on types with extensions, a control stream begins with a message),
`VarintAssumption` (a byte has at least two bits) and `RequestsAssumption` (no namespace, track name or path is longer
than a `uint64` can say: the length of a Go string is an `int`). `InitKept`
says that the page keeps `INIT SEGMENT WRITTEN` (the Go recorder keeps every event; `Kept` is the instance's), `AnswersKept`
that it keeps the answers. TLC evaluates all assumptions.

### The session

None of the properties is inductive. That an init payload is never media depends on why an
unbound alias cannot lead to a later track, and the reason is global: the bootstrap sends SUBSCRIBE for
a track only once the aliases of all earlier tracks are bound (`BindingInv`), and a binding
precedes the answer that lets the bootstrap go on (`Bound` in `BindingInv` for `okCh`).
So the alias of an earlier track is always found in the alias map, and an alias that is not bound
yet belongs to the track being subscribed to; the request map holds no later subscription
(`StartedInv`, `RequestInv`). It follows that a stream resolved to init carries init while init is
waited for, and one resolved to media carries media (`LookupFinds`, `DeliveryInv`). A stream of
init may still be resolved to `.catalog`: that is `misbound`. The other parts
say that what was delivered is behind its handler (`OutputInv`, for order and no repetition),
what streams and goroutines hold (`StreamsInv`, `AliasInv`), and where "context canceled" comes from
(`ErrorInv`).

That nothing follows a torn payload of its stream needs `TornInv`: the goroutine whose write failed has left the loop that
writes. `FailsForCause` looks from an error in `errCh` back to its sender, who has failed once and keeps it
(`CauseInv`). The two are `EndInv`, whose proof rests on `SessionInv` but not the other way round; `RunInv` is all of it.

The step lemmas (`MainKeepsInv`, `HandlersKeepInv`, ...) have one case per action; `TypeFrame` and
`InvFrame` supply what an action leaves alone.

### The output

`BytesAccounted` speaks of a process that has not panicked: a panic in one handler catches the others, and the main
goroutine, where they are. It needs that a handler between its write and its counter is counted once: the lemmas follow
the set of these handlers through each step and use the library's facts on cardinalities. That the set is
finite is part of what is carried along, for handlers enter it one at a time. `NoMediaLost`
speaks of handlers about to read the next object; `MediaInv` extends it to the places between
reading and counting, where the object at hand may still be unwritten. That media objects are written at all
rests on `SessionInv`: with alias = request ID the stream was resolved to media.

### The rich log

`RichStepIsStep` maps each step of a recording session to a step of `Session` or to none, so everything
proved about `Session` carries over. `InitAboveMedia` is not inductive: that a stream resolved to media
finds the event on the page rests on the main goroutine, which adds `INIT SEGMENT WRITTEN` before it
registers the media track (`requestID["media"]` in `PageInv`; between write and event it is in `count`), and on the lookup, which finds media only
once it is registered. A header is added after its lookup, so it comes below.

`AnswersRecorded` speaks of what the bootstrap knows; it is inductive only with what the readers know before
it (`AnswersInv`): an event noted is that of the message at the head of the reply, which the relay does not
replace and no other goroutine takes, so that when the reader acts on the message the event is on the page.
`TablesMatchOutput` compares two lists that grow at different steps, with a third of the work, the byte counter,
between them. `TablesInv` says where a handler may stand: a row is owed only by one about to read on; a stream
has neither rows nor objects before its lookup; and what waits in `firstObjCh` or is written as the init segment comes from a
stream that has begun, which therefore is not looked up again. The init segment is written while no stream is a media
stream (`DeliveryInv` of `Session`), so it is in no media table. That both lists ascend comes from `OutputInv`:
what is written is beyond all that was written of the stream. None of this depends on the events kept.

### The counters

`SummaryCoherent` compares counters loaded at different times while handlers go on. `CountersInv` relates the
counters at any one time: bytes, handlers between an object and its bytes (`Pending`, a finite set) and the init
segment still to be counted add up to no more than the objects seen, and where there are objects there is a group.
`LoadedInv` then compares each counter loaded with those loaded later, or with their present values while they are not:
counters only grow, and `printSummary` loads the smaller side first. `FirstInv` says when the latency is set:
a handler has its time before it swaps, and no handler writes before some handler has.

### The catalog

`First` is the least index with a property (`LeastNatural` in `NumberFacts`). The three loops of
`resolveMediaTrack` and the two of `initTrackName` are five such searches; `PlaysWhatThereIs` follows by cases on which of them finds something,
`InitFitsMedia` from the uniqueness of names, as the two searches then find the same track. `CatalogSpec` is the
publisher writing a catalog track by track, as the run does.

### The stream reader

`StreamInv` relates the reader's place to the place on the wire and says what it has read by then: the fields
at hand belong to the object that is next (`ObjectInv`), the previous ID is that of the last
object read, and what was read is what was sent (`GotInv`). `ObjectIDMeant` shows that the sum of the previous ID and
the delta, both modulo `MaxID + 1`, gives the ID back. The two tables of stream types are shown
equal to the draft's bits (`TypeTables`). `SummaryAgrees` needs, in addition, that a delta above zero tells
a gap (`DeltaTellsGaps`) and that the gaps up to an object are those before it and possibly the object.

### The wire

These theorems speak of strings of bytes of every length, and of bytes of any width from two bits on, the code's eight
among them. What a decoder makes of a string is defined by recursion, so each proof begins with a function that
satisfies the recursive equation and is shown to exist, and goes on by `SetInduction`. For a number that function
gives the value of each prefix of its digits (`DigitsHavePrefixes`); for the loop of `decodeKeyValuePairs` it is pieced
together from tables for fewer than n bytes left (`GoodExists`, `PairsExist`), which works because a pair takes bytes away.

`ReadVarintIs` replaces the nested reads of `ReadVarint` by one expression, on which everything else rests.
`EncodesMinimally` splits by the three forms of an encoding (`OneByteForm`, `TaggedForm`, `LongestForm`): the tag and
the top bits of the value share the first byte without overlapping, and the size is the least whose table entry is
large enough. `DecodesByTheTable` compares bytes with bits: the bits of a string have the value of its bytes
(`BitsByBytes`), and the leading ones of the first byte are the leading 1-bits (`OnesAreLeading`). `AnswersStayPut` needs
that a read that succeeds does the same with more bytes behind it (`VarintFromMore`); the fields follow in order.

`TypesNeverWrap` is proved with a stronger claim about the loop after a pair of a given type (`Decoded`): what it returns
is sorted from that type on and `Canonical`, an even type with an integer as value, an odd one with a value whose
length is an integer. That makes `SetupReadsBack` possible: `OptionsReadBack` takes one
encoded pair after the other off the front of the joined bytes, from the last to the first. `SetupArrives` applies it to the
two or three options that are sent, and adds the frame (`FrameReadsBack`): its 16-bit length is that of the payload
because `WriteFrame` refuses what is longer.

`EOFMeansCutOff` follows the error through the loop. A pair that decodes is a prefix that decodes to the same pair whatever
follows (`PairConsumes`), so whether the rest ends does not depend on it (`LoopError`), and the prefix
may be put in front again (`LoopCutOff`). At the pair that fails, io.EOF comes from an integer's
first byte or from the rest of which nothing is there (`IntegerCutOff`); a value cannot cause it, for its length is
compared with what is left beforehand.

`SubscribeArrives` begins with `splitNamespace`. Its two loops are followed one character and one part at a time
(`LoopAppends`, `SplitsOn`, `KeepsOn`), and so are the runs of the text: a slash leaves them as they were (`SlashGoesOn`), a
letter behind a slash starts one (`FieldStarts`), another letter makes the last one longer (`FieldGoesOn`). What
keeps the two together is `SplitInto`: the part being read is empty exactly at the start and behind a slash, and the
parts that are not empty are the runs. No field is longer than the text, so its length is an integer, and
the relay's loop takes the fields off the front one by one (`FieldTakes`, `FieldsReadBack`). For `SentUnlessTooLong` the
lengths of what is joined are added up (`SubscribeLength`, `SetupLength`).

### Model-checked only

The liveness properties, as fairness is beyond the prover. Every safety property of every passing run is a theorem.

## Not modelled

* Of the rich log: `WriteHTML`, which renders what the recorder holds (its errors are only logged, and after a panic
  it is not called); the times of events, their fields and explanations, the metadata and the layout of the HTML. `Add` reads the clock before it takes the lock (`richlog.go:108`), so times on the page may run backwards;
  nothing in the code says they do not.
* "Object IDs identify each object and increase within the subgroup" (`richlog.go:140`) is what the draft asks of
  publishers. The reader does not check it; it fails only if a publisher's sums wrap.
* JSON decoding (the library's; `Catalog` has a document of the right shape or not) and
  `resolveMediaTrack`'s preferred track, which the program always leaves empty.
* `SIGPIPE` on stdout, which ends the process.
* QUIC flow control, except for stream credit and an output that is not read.
* The streams a peer opens in both directions: the code logs their first message.
* Configuration and wording: flags, TLS settings, debug logging, names of error codes.
* `lookupAlias` and other functions without a caller.

## Plan

What is left, in this order:

1. `Stats` composed with `Session` rather than beside it, so that endings and misbound streams take part.
2. Object IDs in `RichSession`'s tables, through `StreamView`.

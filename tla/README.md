# A TLA+ model of smpp34

smpp34 is an SMPP 3.4 library on tokio: an ESME client (`SmppClient`), an SMSC
server (`SmppServer`), the PDU codecs both share, and Python bindings. This
directory holds TLA+ modules of the sessions, the framing, the codecs and the
bindings, TLC models that check them on small instances, and TLAPS proofs of all
their safety results.

Source paths below are relative to the repository's `src/` directory; line
numbers are in `PROJECT.json` ("map").

## 1. Inventory

| Part | Source | State | Operations | Hard because | Correct when |
|---|---|---|---|---|---|
| Client session | `client/mod.rs` | `alive`, `pending_requests`, sequence counter, `WriteFrame` channel, enquire-link channel, oneshots | `SMSC::send_*`, read loop, writer, ticker, listener tasks, teardown, `stop` | five kinds of task share the table and the channels; every `await` can be a cancellation point; timers race answers | each call is completed at most once, by its own answer, and is not left behind by teardown; silence is noticed |
| Server session | `server/state.rs`, `server/mod.rs` | the same, per connection | `ESME::send_*`, `read_loop` | a second copy of the machine, with other dispatch tables | as above, and it accepts the answers to what it sends |
| One connection | both | two sessions and the wires | the composition | what one side sends, the other must accept | answers reach their call, none is refused, both agree on unbind |
| Framing | `common/mod.rs` (`frame_first_pdu`), both handshakes, both read loops | handshake buffer, replay cursor, read buffer | read, frame, split, dispatch | TCP cuts and joins PDUs anywhere, also across the bind | PDUs come out whole, in order, once; nothing is stranded |
| Start, stop, bind | `client/mod.rs`, `server/mod.rs`, `OPEN` in `server/state.rs` | `alive`, `handle`, accept loop, OPEN/BOUND/CLOSED per connection | `start`, `stop`, `Drop`, accept, bind handshake | stop and timeout race an accepted bind; one flag for all sessions of a client | both sides agree on a bind; the handshake ends; a session keeps the flag it runs under |
| PDU codecs | `common/commands/*.rs`, `common/tlv.rs` | none | `new`, `accept`, `reject`, `encode`, `decode` | three hand-written lists of fields per PDU (length, encode, decode); integer casts, C-octet strings, TLVs that stop parsing silently | what fits is decoded as sent; what does not fit damages no other PDU |
| Builders | `SubmitSmBuilder`, `DeliverSmBuilder` | one PDU under construction | setters, `send` | - | - |
| TLS/TCP set-up | `establish_stream*` | none | connect | pure I/O | - |
| Python bindings | `python.rs` | bounded event queues, the one-shot of `connect`, responders, handles | `Client`, `Smsc`, `Server`, `Esme`, `SubmitSmEvent`, both forwarders | events dropped when the queue is full; Python drops objects at any time; a bind that comes after `connect` timed out or was cancelled | a response tells what Python got; a responder is used once; the end of a session is heard of |

How they interact: an application calls `send_*` on the session handle; the call
draws a sequence number, puts a `WriteFrame` with a oneshot sender on a bounded
channel and waits under `response_timer`. The writer moves the sender into
`pending_requests` **before** it writes. The read loop matches a response by
sequence number and completes the oneshot; it answers `enquire_link`, `unbind`
and refusals itself through the same channel, spawns a task per request for the
listener, and forwards `enquire_link_resp` to the ticker. Teardown aborts ticker
and writer. The server runs one such session per connection, the client one per
`start()`. The Python bindings are one listener per side: a forwarder whose
callbacks put events on a bounded queue that `next()` empties; for `submit_sm` the
callback waits for Python's decision, for `deliver_sm` it answers at once.

The hazards this leads to are listed in `PROJECT.json`, each at its line and with
the properties that cover it.

## 2. Modules

| Module | Models | Used by |
|---|---|---|
| `SmppPdu` | command ids and the dispatch tables: which side handles, answers, refuses or sends what, on which bind | all sessions |
| `Session` | one bound session of either side (`Role`), against any peer | `MCSession`, `SessionProofs`, `Link` (twice) |
| `Link` | `Session` twice with crossed wires (`INSTANCE ... WITH`) | `MCLink`, `LinkProofs` |
| `PduStream` | abstract: what framing promises | `Framing` |
| `Framing` | bytes to PDUs on one direction of a connection | `MCFraming`, `FramingProofs` |
| `Lifecycle` | start, stop, drop, accept loop, bind handshake; a bound session is one state | `MCLifecycle`, `LifecycleProofs` |
| `Codec` | `command_length`, `encode`, framing by length and `decode` of every PDU, in octets | `MCCodec`, `CodecProofs` |
| `PyBridge` | the Python client and the Python server, end to end | `MCPyBridge`, `PyBridgeProofs` |
| `SessionProofs` | theorems about `Session` | `SessionTraffic` |
| `SessionTraffic` | lemmas: what any step of a session can do to wires, calls and probes | `LinkProofs` (twice) |
| `LinkProofs` | theorems about `Link` | - |
| `FramingProofs` | theorems about `Framing`, its refinement of `PduStream` included | - |
| `LifecycleProofs` | theorems about `Lifecycle` | - |
| `PyBridgeProofs` | theorems about `PyBridge` | - |
| `CodecProofs` | theorems about `Codec`: lengths, framing, the header | `CodecRoundTrip` |
| `CodecRoundTrip` | theorems about `Codec`: `decode` takes back what `encode` wrote | - |
| `MC*` | constants for TLC | the `.cfg` files |

### Session and the code

| Variable | Code |
|---|---|
| `alive` | the session's `AtomicBool` |
| `seqNo` | `sequence_number: AtomicU32`, modulo `SeqSpace`; `fetch_add` wraps |
| `callSt`, `callSeq`, `slot`, `reply` | a `send_*` future: its progress or result, its number, its oneshot |
| `chan` | the `WriteFrame` mpsc channel (100 in the code, `ChanCap` here) |
| `wpc`, `wframe` | `writer_thread` |
| `pending`, `late` | `pending_requests`, and which entries are older than `response_timer` |
| `tasks` | answers of spawned listener tasks still running |
| `rpc`, `rout`, `rthen` | the read loop; `rout`/`rthen` are the PDU it awaits to send and where it goes on |
| `tpc`, `tseq`, `linkQ`, `probes` | `enquire_link_ticker` and its channel |
| `aborts` | `abort()` called, not yet effective |
| `inq`, `outq`, `peer` | the TCP connection, as whole PDUs |

The actions are grouped as in the code. Calls: `CallBegin` (number and oneshot),
`CallPanics` (bind does not allow it), `CallEnqueue`, `CallRefused` (channel
closed), `CallReturns`, `CallTimesOut`. Writer: `WriterTop`, `WriterTake`
(receive and register), `WriterWrites`, `WriterFails`, `WriterClosed`,
`WriterCancelled`. Ticker: `TickerTick`, `TickerSends`, `TickerReceives`,
`TickerTimesOut`, `TickerCancelled`. Reader: `ReaderBound` (the bound callback) or
`ReaderPanics` (it panics, by itself or in a call it awaits, and the task dies past its
teardown), one action per branch of the dispatch (`ReaderRequest` ...
`ReaderUnsupported`), per loop exit (`ReaderMissesTicker`, `ReaderInactive`, `ReaderEof`,
`ReaderStopped`), and one per further await (`ReaderSends`, `ReaderForwards`). `LoopTop`
is `while alive`, tested before a read is awaited: what the read then returns is still
dispatched. An action ends where the code awaits, because that is where tokio may switch
or cancel.

Abstractions. A PDU is `[cmd, seq, tag, good]`: command, number, the call it
belongs to (standing for its contents) and whether its body decodes. Time is not
counted: a timer is an action that may happen whenever its timer is armed, and
`Ages` makes any table entry old. A listener callback returns at once or after any
time (`tasks`). The branch for a PDU whose *header* does not decode is not in
`Session`: after framing the slice is at least 16 bytes and exactly
`command_length` long, which are the two things `CommandHeader::decode` tests.

The peer is any program that speaks in PDUs: it sends any of `PeerPdus` at any time
(`PeerCalls` are the calls of its own those may be about, none in `MCSession`), takes
one or several PDUs off its wire, also after it has closed its sending half, and may
disappear.  A callback `on_smsc_bound` that is still running when its task is aborted is
cancelled in the code; in the model a call it awaits may go on and must time out or
fail, which is more than the code can do.

### Link

`Link` has no behaviour of its own: a step is a step of one `Session`, which reads one wire
and writes the other. The peer of each is the other, so its PDUs are `LinkPdus`: they
always decode, and are about a call of one of the two sides or about none. Each side sees the other as gone once it has
hung up: the server's write half shuts the stream down when the writer ends; the
client's two boxed halves share one stream, which closes when both are dropped.

### Framing and PduStream

A byte is `<<i, k>>`, byte k of PDU i, so cutting and joining is exact and
contents do not matter. `LengthAt` reads a length only from a whole, aligned
header; at any other offset four bytes read as a length are arbitrary. Lengths of
16 and 1 MiB become `HdrLen` = 2 and `MaxLen` = 4. `ShortWrites` lets the socket
take part of a PDU, as `write` may.

### Lifecycle

A connection is a number; the n-th `start()` makes connection n. `task[k]` is the
session task up to and after the bind, `srv[k]` the server's task for that
connection. `early` is a history variable: the tasks `stop()` aborted before they
were bound; so are `stopped`, the tasks under way in any `stop()`, and `crowded`, the tasks
that a `start()` did not see because they had not set `alive` yet (or had lost it), with the
one it spawned next to them. `Strangers` are connections of other ESMEs, which may send anything
first. `start()` on a running client or server panics and changes nothing, so it is
not an action. How long a connection outlives its session task, whose writer may still
hold the socket, is the matter of `Session` (`HangsUp`, `SilenceEndsSession`).

### Codec

Each PDU is written down three times, from three places of the source: the fields
its `encode` writes, the fields its `decode` reads and the fields its
`command_length` counts. What is checked is whether the three agree, next to
whatever else is on the wire. The header has its real 16 octets and the command
ids their real values; the operators keep the names of the functions
(`parse_c_octet_string`, `parse_single_tlv`, `decode_tlvs`, `parse_dest_address`).
`Send` builds and writes the next PDU of a script, `SendPanics` is a constructor
whose assertion fails, `SendCut` is a peer that leaves the end of a body out,
`SendOldAlert` one of the peers up to 1.2.1 that `alert_notification` still
accepts; `Receive` and `Refuse` are the read loop on a frame. `as u8` and `as u16`
of counts and lengths are taken modulo `U8Mod` and `U16Mod`, so that a wrap costs
five entries, not 257.

`Pdus` is the set of PDUs applications build. `PdusAssumption` says only that they are
well typed (`IsPdu`): octets where the code has `u8`, octet sequences of any length and
content for strings, messages and TLV values, any number of TLVs and list entries, and a
value for every field but possibly strings. 32-bit numbers stay below 2^31, and so does
`MaxPduLen`: TLC's integers end there, sequence numbers are documented to, and the code's
`MAX_PDU_LEN` of 1 MiB is well below. A length that claims more is above `MaxPduLen`. `decode_tlvs`, the lists and the sequence of fields are loops: each is a
function of the number of rounds done so far, holding the values read and the octets left,
as the code's `input` and vector do.

`TrueUpTo(i)` asks of the frames up to the i-th that the header is true and the *body
that is written* fits `MaxPduLen`. It used to ask that `CommandLength` fits, which is as
good for every encoder but `cancel_sm`: the attempt to prove `InStep` failed on a
`cancel_sm` that another peer cuts short, whose `CommandLength` leaves the `message_id` out
and is below `MaxPduLen` when the true length, which that peer does announce, is above it.

Strings stay below the limits the constructors assert. They are UTF-8, as every Rust
`String` is, so `parse_c_octet_string` gives them back as they are; octets of a foreign peer
that are not UTF-8 are left out (`from_utf8_lossy` replaces them, it refuses nothing).

### PyBridge

Every `Client` connects to the one `Server`, so a message is followed from the
Python that sends it to the Python that decides about it and back. The sessions
below are reduced to what a forwarder sees of them: which callback they make, when,
and that frames pass while both ends live (`Session` and `Lifecycle` are the
detail).

| Variable | Code |
|---|---|
| `conn`, `outcome` | the future of `connect()`, and the one-shot `settle_bind` completes |
| `task`, `aborted`, `sess` | the client's session task, `abort()` called on it, the server's session |
| `pyClients`, `pyServer`, `unbinding` | what Python still holds; a client inside `Smsc.unbind` |
| `cq`, `sq`, `seen`, `sseen` | the two event queues, and what `next()` has returned |
| `held`, `answer` | `SubmitSmEvent`s with an unused responder; what `on_submit_sm` returned |
| `decided` | history: the status Python chose with `accept` or `reject` |
| `ack`, `sub`, `del`, `flight` | what `on_deliver_sm` returned; the two calls; PDUs under way |
| `missed` | history: events that found no room |

`Reject` takes any number: a status passes through `map_error` as it is, `ESME_RMSGQFUL`
included, a number that is none becomes `ESME_RSYSERR`. `reject(ESME_ROK)` writes a header
without a `message_id` ("bare"), which the client cannot decode: the call fails.

asyncio may cancel `connect()` while it starts or waits (`ConnectCancelled`) and `unbind()`
before it comes to `stop()` (`UnbindCancelled`); the session task goes on in both cases. A
cancelled `submit_sm` or `deliver_sm` is a call that fails.

`Client` and the `Smsc` it returned are dropped together. The bind is TRX, so both
kinds of message may pass; binds that do not allow a call are in `Session`. An
`Esme.unbind` is one of the reasons for which `EsmeUnbound` may happen.

## 3. Runs

| Run | Question | Bounds and why they suffice |
|---|---|---|
| `session_client` | ownership, registration, correlation and teardown of two concurrent calls, one of them awaited inside `on_smsc_bound` | 2 calls, a sequence space of **2** so that numbers wrap while a call is pending, one probe that competes for numbers; channel and wire of one, so every queue is full at times |
| `session_live` | does teardown release callers, silence end a session, `stop()` and a panic of the bound callback hang up | one call, one probe, `stop()` allowed |
| `session_stuck` | is a silent peer *always* noticed | violation, see section 6 |
| `link` | TX client that submits and unbinds, a server that tries `deliver_sm` | three calls; 5 sequence numbers, more than are used, so any mix-up is not due to wrapping |
| `link_probe` | two probes crossing a delivery; is each side a `Session` | two probes: the first may be answered late; 4 sequence numbers, so that `SidesAreSessions`, which looks for the PDU the peer sent, stays cheap |
| `link_rx` | is any legal answer refused | violation |
| `framing` | does framing implement `PduStream` | four PDUs: the bind, two around a segment boundary, one bogus; reads of up to 5 bytes, longer than any PDU |
| `framing_short` | does a short write lose bytes | violation |
| `lifecycle` | bind agreement, who clears and who loses the flag, progress | two starts (the second overlaps or follows the first) and one stranger |
| `codec` | does every PDU arrive as sent, and does a bad one stay alone | every PDU with any **two** fields at a boundary (empty, NUL inside, count and TLV length at and past the cast) and the others ordinary, followed by an `enquire_link` that shows whether the reader is in step; casts modulo 4; bodies cut by up to 12 octets, more than a TLV; `MaxPduLen` = 70, which the longest of them exceed |
| `codec_cancel` | does a `cancel_sm` arrive | violation |
| `pybridge` | connect, both kinds of message and the end of a session, with drops anywhere | one client, one `submit_sm`, one `deliver_sm`; a client queue of one, so every `try_send` of the client fails in some behaviour; a server queue of **two**, so that events stand behind one another and the end meets a full queue. One `submit_sm` finds no room only after the server was dropped; a second one, which would meet a full queue, makes 7.9 million states and is left to the proofs, which have any number and any capacity |

Deadlock is off in all of them: sessions end, counters are bounded, and a peer may
fall silent for ever, so the system may really stop.

The properties, briefly:

* `OneOwnerPerCall`: an open oneshot is with its caller, in one queued frame or in
  the one entry of its number; a used or dropped one is nowhere.
* `RegisteredOnceWritten`: a request on the wire can be answered at once.
* `AnswerMatchesCall`: what completes a call has its number and is a response or a
  `generic_nack`. With two numbers and wrapping this is the strongest that is true:
  a *late* answer to an older call with the same number does complete the newer one.
  Without wrapping `Link!AnswerIsForThisCall` says more: the contents are the answer
  to that very request.
* `NoOrphanAfterTeardown` / `TeardownReleasesCalls`: no caller is left on its timer.
* `SilenceEndsSession`, `HangsUp`: under fairness, `HangsUp` also after a panic of the bound
  callback; their exceptions (a reader behind a
  clogged channel, a writer blocked on a full socket) are in the formulas and real.
* `BoundCallNeverAnswered`: an awaited `send_*` inside `on_smsc_bound` or
  `on_esme_bound` can only time out or fail. It is what the code does, and the opposite of
  what the repository's README shows (section 6).
* `NoAnswerRefused`, `ProbeAnswerIsFresh`, `UnbindAgreed`: both sides together.
* `SidesAreSessions`: whatever one side does to the wires is something `Session` lets a
  peer do, hanging up half way included; so the checks and proofs of `Session` against
  an arbitrary peer are about this library's peer as well.
* `ImplementsPduStream`, `QuietMeansDrained`, `TailBounded`: framing.
* `AgreeOnBind`, `FlagClearedUnlessRaced`, `HandshakeEnds`: the bind and the flag.
* `SessionKeepsFlag`: a session finds `alive` clear, and ends for it, only after a `stop()`,
  or when `start()` was called while a session task was still binding.
* `ReceivedAsSent`: a PDU whose values SMPP can express is decoded into them. The two
  encoders that misreport their length are exempt, with what follows them
  (`TrueUpTo`); `codec_cancel` is about the first of those, section 6 describes both.
* `InStep`: whatever is in a PDU, the frames after it are found where they start.
* `CutNeverMisread`: a body cut short is refused or loses optional parameters from its
  end; no field takes its value from another's octets. `OneOctetLeft` is the exception.
* `HandleMatchesSession`: `connect()` returns an `Smsc` only for a bound session, and a
  bound session has its `Smsc`, except after a `connect()` that timed out before a late
  bind or was cancelled.
* `AckedMeansQueued`: `deliver_sm` is acknowledged exactly when Python gets it.
* `OneDecider`: a `submit_sm` has one responder, queued or held, until it is answered,
  also when Python loses the event or drops the server.
* `ResultIsTruth`: what `Smsc.submit_sm` returns is the status the server's Python decided
  on, for an event it was given; where it decided nothing, `ESME_RMSGQFUL` for an event it
  never saw or `ESME_RSYSERR` for one that was dropped.
* `EsmeFirst`: Python hears of a session before it hears of its traffic or its end.
* `EndReported`: both Pythons hear of the end of a session by awaiting `next()`; the
  exceptions (a full queue, an aborted task) are in the formula and real.

Every property of a passing run has a mutant in `PROJECT.json`: a definition of the
model changed as a slip in the code would change it, under which TLC finds the
property violated. The mutants are the definitions commented "Mutant of".

## 4. Fairness

`Session`: weak fairness per task (each call's progress, writer, ticker, reader,
listener tasks) and for cancellations, because tokio polls every runnable task and
fires every timer. A call's own `response_timer` is *not* fair: what is shown holds
without callers being saved by it. Nothing is assumed of the peer. `WF(ReaderStep)`
includes `inactivity_timer`, since the read loop's `timeout` returns by itself.

`Lifecycle`: weak fairness of each client task and server task (timers included; a
bind callback, being the application's, need not return). Nobody must start, stop, drop or
unbind, strangers owe nothing, and nothing is assumed about when a bound session ends: after
`stop()` the writer may hold the socket, and a reader behind a full channel looks at no
timer.

`PyBridge`: a session task that has left its read loop comes to its end (its last callback
only tries to queue an event, or the abort takes effect), and Python keeps awaiting
`next()`: `EndReported` is about an application that does. Nothing makes a session leave its
loop, and nobody has to connect, send, decide, stop or drop anything.

`Codec` and `Link` are checked for safety only.

## 5. Proofs

`SessionProofs` proves about `Session`, for every set of calls, sequence space,
channel and wire capacity, role and bind, and any set of peer PDUs, from
`SessionAssumption` alone:

* `TypeCorrect`: `Spec => []TypeOK`;
* `OwnershipCorrect`: `Spec => []OneOwnerPerCall`;
* `RegistrationCorrect`: `Spec => []RegisteredOnceWritten`;
* `CorrelationCorrect`: `Spec => []AnswerMatchesCall`;
* `TeardownCorrect`: `Spec => []NoOrphanAfterTeardown`;
* `BoundCallsUnanswered`: `Spec => []BoundCallNeverAnswered`.

None of them but the first is inductive. The strengthening for the next four is
`Inv == TypeOK /\ SlotInv /\ AnswerInv /\ EndInv` with
`SlotInv == CallInv /\ OwnerInv /\ QueuedInv /\ WrittenInv`:

* `CallInv` ties a call's progress to its oneshot (an idle call has none, one about
  to enqueue holds it open) and says what a completed oneshot holds;
* `OwnerInv` is ownership per call, the heart: the four places and which are empty;
* `QueuedInv` says that a queued request frame carries its own call's oneshot and
  number and asks to be registered, so that `WriterTake` files it correctly, also
  when it overwrites the entry of a wrapped number;
* `WrittenInv` says that a request in the writer's hand or on the wire is registered
  while its oneshot is open;
* `AnswerInv` says that what listener tasks and the reader send is never a request,
  so it cannot be mistaken for one of ours on the wire;
* `EndInv` says that an ended writer left an empty channel, and that once reader and
  writer have both ended the table is empty.

The argument: `SlotStutter` disposes of the actions that leave calls, channel and
table alone; `SlotEnqueue`, `SlotForget`, `SlotTake`, `SlotSettle` and
`SlotWriterEnds` say what the five primitive moves of a oneshot do to ownership;
`SlotCall`, `SlotWriter` and `SlotReader` reduce each action to them; `InvNext`
combines them. For `BoundCallsUnanswered` `BoundInv` is added: a call awaited inside the
bound callback is under way only while the reader is in that callback or gone, and only a
reader that dispatches completes a oneshot.

### Two sessions on one connection

`LinkProofs` proves about `Link`, from `LinkAssumption` and the hypotheses named:

* `LinkImplementsSessions`: `Spec => SidesAreSessions`. Each side implements `Session`
  with the other as its peer;
* `SessionsStaySound`: the four invariants of `Session` on both sides at once;
* `UnbindIsAgreed`: `Spec => []UnbindAgreed`;
* `AnswersAreAccepted`: `Spec => []NoAnswerRefused`, if `AnswersDispatched`;
* `AnswerIsOwn`: `Spec => []AnswerIsForThisCall`, if `AnswersDispatched`, and `Ample` for
  each side;
* `ProbeAnswersAreFresh`: `Spec => []ProbeAnswerIsFresh`.

The two hypotheses are where the code needs them. `AnswersDispatched` says that the
server's dispatch table has a branch for the answer to every request its calls can send;
it excludes `deliver_sm` on RX, where the result is false (`link_rx`), and `unbind` sent
by the server, whose answer the code does refuse (section 6). `Ample` says that a side
does not draw more numbers than there are: calls and probes are fewer than `SeqSpace`,
2^32 in the code. Past that `AnswerIsForThisCall` fails, and `AnswerMatchesCall` is what
remains.

The argument is rely-guarantee. `SessionTraffic` summarises what *any* step of a session
can do: to the wires (`Quiet`, `Reads`, `Writes`), to what is on its way out (`Queues`,
`Takes`, `Puts`, `Loses`), to the answers it prepares (`LoopAnswers`, `Handled`), to its
calls and numbers (`Settles`, `Distinct`) and to probes. `LinkProofs` instantiates it
twice and never opens an action of `Session`.

* `LinkInv`: the inductive invariant of `SessionProofs` on each side, and everything in
  a queue, a hand or on a wire is in `LinkPdus`. One side's `Reads` is the other's
  `PeerReceives`, one side's `Writes` the other's `PeerSends`, which gives the refinement;
* `UnbindInv` (with `NotUnbound`): while the server's reader goes on, no `unbind_resp` is on
  its way from it or in a oneshot of the client, and no `unbind` has succeeded;
* `SaysInv`: every PDU on its way is the request of a call, the answer to one, a probe or
  the answer to a probe, with the number its call drew; there is no refusal among them;
* `CP!Distinct`, `SP!Distinct`: no two calls of a side have the same number, none is ahead
  of the counter;
* `PingInv`: `ClientPing(Q)` counts the `enquire_link`s of the client and their answers
  with a number in `Q`, over the channels, hands, readers and wires of *both* sides. For
  the numbers other than the one the ticker waits for it is zero, and for all numbers it
  is at most one, and zero when a live ticker waits for none; every hand-over keeps the sum
  or lowers it. The same for the server. It holds with any sequence space: the ticker
  never has two probes under way, so wrapping cannot confuse it.

### Framing

`FramingProofs` proves about `Framing`, from `FramingAssumption`, for any number and
lengths of PDUs, any read size and any cut:

* `TypeCorrect`: `Spec => []TypeOK`; the cursor stays inside the buffer;
* `BuffersBounded`: `Spec => []TailBounded`;
* `NoneLeftBehind`: `Spec => []QuietMeansDrained`, if `~ShortWrites`;
* `FramingImplementsPduStream`: `Spec => ImplementsPduStream`, if `~ShortWrites`;
* `WholeIfTaken`: `Spec => []SentWhole`, if `~ShortWrites`. The property of the violation
  `framing_short`: ignoring the count of `write` is the only way to lose a byte.

The first two need `BufferInv` and hold also after short writes, when the receiver frames
garbage. The others need `StreamInv`: there is one byte sequence `S`, the PDUs sent laid
end to end with PDU i at offset `off[i]` (`Laid`), and wire, replay cursor and read buffer
are consecutive windows of it whose start is the offset of the next PDU to be dispatched
(`Placed`). `S` and `off` are quantified in the invariant instead of being defined: the
concatenation of a sequence of PDUs is a recursion, and what it computes is beyond the
provers, whereas each step only has to extend a given `S` or move along it.

### Start, stop and bind

`LifecycleProofs` proves about `Lifecycle`, from its assumption alone, for any number of
`start()`s and strangers: `TypeCorrect`, `BindAgreed` (`Spec => []AgreeOnBind`),
`FlagCleared` (`Spec => []FlagClearedUnlessRaced`) and `FlagKept`
(`Spec => []SessionKeepsFlag`). The invariant adds to them

* `FreshInv`: nothing has happened on a connection that is not made yet;
* `BindInv`: a success is on its way back only if the listener accepted, and a bind that
  was judged is in session or over;
* `FlagInv`: a set flag has somebody who answers for it (`SetBy`): a bound session that
  `stop()` has not aborted, or one aborted before it set the flag, which is the race;
* `CrowdInv`: two session tasks are under way together only if both are in `crowded`, so that
  a session that clears the flag on its way out takes it from nobody else.

### Python bindings

`PyBridgeProofs` proves about `PyBridge`, for any number of clients and messages and
any queue capacities, from `PyBridgeAssumption` alone:

* `TypeCorrect`: `Spec => []TypeOK`, the capacity of every queue included;
* `ConnectMatches`: `Spec => []HandleMatchesSession`;
* `DeliverAckedOnceQueued`: `Spec => []AckedMeansQueued`;
* `SubmitHasOneDecider`: `Spec => []OneDecider`;
* `SubmitResultIsTruth`: `Spec => []ResultIsTruth`;
* `EsmeComesFirst`: `Spec => []EsmeFirst`.

The strengthening is `IInv`, `TypeOK` with one part per theorem:

* `ConnInv` says what the one-shot of `connect()` may hold at each stage of `connect()`
  and of the session task: nothing while the task is still binding, `bound` from the
  bind on, and never anything else after that. `HandleMatchesSession` follows;
* `DeliverInv` with `AckedMeansQueued` itself: where on its way a `deliver_sm` is tells
  whether it was acknowledged, and an answer under way carries that acknowledgement;
* `SubmitInv` (`SubmitOk` of every message) is the life of a responder: a message is on
  the wire, or in `on_submit_sm` with its responder in exactly one place, or answered;
  an event that was queued was put there once, so `next()` returns it once. `OneDecider`
  and `ResultIsTruth` both follow;
* `EsmeInv` with `EsmeFirst` itself: a session that is bound has its `Esme` queued, seen
  or missed, before anything of it can be queued. Positions in the queue are what needs
  care: `next()` shifts them, and appending must not.

Each part was checked with TLC before it was proved, and the proof of each has one step
per action that can disturb it.

### PDU codecs

`CodecProofs` and `CodecRoundTrip` prove about `Codec`, from `CodecAssumption` and
`PdusAssumption`, for every set of PDUs, every script, any cut, any moduli of the casts up to
the real 256 and 65536 and any `MaxPduLen` below 2^31, the real 1 MiB among them (so that a
TLV length that wraps does occur within a PDU):

* `StandsAtAFrame`: `Spec => []CodecInv`, the inductive invariant;
* `LaterFramesAreFound`: `Spec => []InStep`;
* `RoundTrip`: `Spec => []ReceivedAsSent`;
* `CutIsNeverMisread`: `Spec => []CutNeverMisread`.

`CodecInv` adds to the types that there are frames `fr`, one per entry of `sent`, each of
them what `Send`, `SendCut` or `SendOldAlert` writes for that entry (`FrameOf`), and tails
`R`, `R[i]` being what follows the i-th frame (`Aligned`). While the headers are true, the
wire is the tail after the frames read, and `got[i]` is `Decode(fr[i])`; a receiver that has
closed, or has read more frames than were sent, has met a header that was not true. As in
`FramingProofs` the concatenation is quantified, not computed: sending appends a frame and
extends every tail, receiving moves to the next tail.

What is left is then about pure functions, and comes in three layers.

1. *Lengths.* Each `*Len` operator counts what the matching `*Octets` operator writes
   (`FieldOctetsLen`), and `SameLists` compares the three lists of fields of every command;
   so `CommandLength` is 16 and the length of the body, unless `Misreported` (`BodyLen`).
   With `DecodeIs` (the header is found again) this gives `InStep`.
2. *One field.* Each parser comes with two facts. `Reads`: on the octets of a value followed
   by anything it returns the value and what follows. `Stops`: on those octets without their
   end it refuses. They hold of strings, octets, the message and both lists (`PlainField`).
   The three optional kinds, which take all that is left, are read back when nothing
   follows, and cut short they give a prefix of the TLVs or nothing (`LastField`). `WrittenEnds`
   says that those occur only as the last field of a PDU, which the result needs.
3. *A body.* A whole body is a chain of parts each of which is read where the one before
   stopped (`WholeChain`, `FieldsWhole`). A body cut by k octets is a chain up to one part j
   that lost its end (`CutChain`): part j is refused and so is the body (`FieldsRefuse`), or
   it is the last one and only its value is less than it was (`FieldsTrim`).

The loops (`decode_tlvs`, `InTurn`, `Sum`, `FlattenSeq`) are recursive functions. The
induction they need is made with sets: `LeastOf` (a set of naturals has a least element)
gives `UpTo` (a set with 0 that is closed under successor has every number up to n), and each
loop lemma (`RoundsHold`, `TlvsRun`, `FlattenIs`, `TailsExist`) applies it to the set of the
rounds up to which its claim holds.

### Only model-checked

* Liveness under fairness (`TeardownReleasesCalls`, `SilenceEndsSession`, `HangsUp`,
  `HandshakeEnds`, `EndReported`): out of the prover's reach.
* The four violations of section 6: a counterexample needs one instance.

## 6. Where code and documents disagree

Shown by a run expected to fail:

1. `session_stuck`: the read loop awaits `tx.send` for its own answers. If the peer
   stops reading, channel and socket fill, the read loop blocks there and looks at
   no timer, though the comment at the inactivity check says it "can always trigger".
2. `link_rx`: on an RX bind the server refuses `deliver_sm_resp` with `generic_nack`:
   the branch is gated on TX and TRX, the sender on RX and TRX.
3. `framing_short`: the writer uses `write`, not `write_all`, and ignores the count.
4. `codec_cancel`: `cancel_sm::new` leaves `message_id` and its NUL out of
   `command_length`, and `cancel_sm::decode` parses from octet 0 of a PDU that still has
   its header. Its own tests assert both lengths for the same 52 octets (0x34 where the
   PDU is decoded, 0x2A where it is built). In the run a `cancel_sm` of 28 octets claims 26,
   is decoded into wrong fields, and the two octets left shift the `enquire_link` behind it.

Shown by a property that holds:

5. `BoundCallNeverAnswered` (`session_client`, and the theorem `BoundCallsUnanswered`): the
   quick start of the repository's README submits "inside on_smsc_bound(smsc, _)" with
   `.send().await?`. The callback is awaited before the read loop starts, so the answer stays
   in the socket and the call waits out its `response_timer`; the call has to be spawned, or
   made after the callback returned.

Met while modelling, without a run of their own:

* `start()` tests `alive`, which is set only when the bind is accepted, so a second
  `start()` during the handshake does not panic ("Can not start client twice") but makes a
  second session over the same flag; the first one's handle is lost, and the end of either
  session clears the flag of both. `lifecycle` reaches this: it is the `crowded` of
  `SessionKeepsFlag`.
* A refusing `deliver_sm_resp` claims 16 octets and writes 17, an empty `message_id` with its
  NUL: the frame behind it is read one octet off, its length reads 0 and the connection is
  given up. The Python client sends such a refusal whenever its queue is full (`PyBridge`
  does not follow the damage further). `Misreported` in `Codec` names it with `cancel_sm`.
* `stop()` between the acceptance test and the store leaves `alive` set with no task
  (`FlagClearedUnlessRaced` names the race); a further `stop()` clears it.
* A refused or unanswered bind is only logged: no callback tells the application.
* `window_size` is stored and logged but never enforced.
* The server's `stop` leaves the sessions running ("TODO send unbind").
* Frames queued when the writer is aborted, an `unbind_resp` among them, are lost.
* The sequence counter leaves the documented range 0x00000001 to 0x7FFFFFFF.
* `alert_notification` is registered in `pending_requests` although it "expects no
  response" (`server/mod.rs`), and is later reported through `on_timeout`.
* The server has no branch for `unbind_resp`: the answer to `ESME::send_unbind` is
  refused with `generic_nack` and the call times out.
* `SubmitSmEvent.reject(ESME_ROK)` sends a success without a `message_id`, which this
  library's client cannot decode: `Smsc.submit_sm` raises.
* `unsuccess_sme.len() as u8` and the `as u16` of a TLV length have no guard: the PDU is
  misread, though the frames after it are not (`InStep`). A NUL inside a string ends it.
* An `alert_notification` cut so that one octet of its TLV is left is read as the bare
  octet of old peers.
* `Disconnected` is dropped when the queue is full, and `next()` then waits for ever;
  `python/smpp34/_smpp34.pyi` and `test_async.py` promise the event "rather than hanging".
  `Smsc.unbind` and `Client.stop` may abort the task before it sends the event.
* `connect_timeout_ms` covers the wait for the bind only: `start()` has no timeout and
  holds the client's lock, so `stop()` and `is_alive()` wait with it. A refused bind is
  not reported, so `connect()` waits its timeout out; a bind that arrives after that
  leaves a live session without a handle, and so does a `connect()` that asyncio cancels.
* `Server.next()` never ends after `stop()`: the `Server` itself holds a sender. A
  `DeliverSm` may come after `Disconnected`. A cancelled `next()` may lose its event.

## 7. Not modelled

* TLS/TCP set-up: I/O; it succeeds (`StartConnects`) or not (`StartFails`).
* Builders: assembly of one PDU, and each setter is one assignment.
* `DeliveryReceipt`: text formatting and parsing of a message body.
* Python value classes and module registration: they hold no state that changes.
* Cancellation of a `next()` that has already taken an event: whether its result is
  discarded is decided in pyo3-async-runtimes.
* Panics of the application in callbacks other than the bound one (`on_timeout`,
  `on_smsc_unbound`), which the read loop awaits too.
* Real time: durations are abstracted to "armed" and "fires".

## 8. Plan

Done, in this order: `SmppPdu`, `Session` with its proofs, `Link`, `PduStream` and
`Framing`, `Lifecycle`, `Codec`, `PyBridge` with its proofs; then the proofs of
`Lifecycle`, `Framing`, `Link` and `Codec`. Every invariant that a passing run checks is
now also a theorem.

Next:

1. Safety facts behind the liveness properties, as action properties with proofs: a call
   that has returned stays as it returned, a reader that is gone stays gone, an aborted
   task takes no further part.
2. What `from_utf8_lossy` makes of octets that are not UTF-8, and the string limits of the
   constructors, in `Codec`.

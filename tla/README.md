# A verification model of iap2-rs

TLA+ modules, TLC runs and TLAPS proofs for the iAP2 accessory library in `src/`:
the bytes of its packets and control messages, its link layer, its connection task
with authentication, External Accessory (EA) sessions and HID remote, its Now Playing
parser, and its file transfers. Every definition that stands for
code is listed with its lines under `map` in `PROJECT.json`.

## 1. The system

`connect` (`connection.rs`) spawns one task. It owns the link, the stream and all
session state; the application talks to it through channels and one flag. There is
one task, so the hard part is not shared memory. It is what a suspended handler
leaves behind, what the device does meanwhile, and which branch `select!` takes.

| component | state | operations | talks to |
|---|---|---|---|
| Link, `link.rs` | `seq`, `ack`, `state`, `pending`, `rx_buffer`, `read_buf` | `negotiate`, `receive_data`, `send_data`, `send_data_retransmit_until_ack_or_payload` | the device, over a stream |
| Packet reader, `link.rs` | `read_buf` | `fill_buf`, `try_parse_packet`, `read_packet`, the iAP1 probe | the device's bytes |
| Packet codec, `packet.rs` | none | `to_bytes`, `from_bytes` | called by the link |
| Connection task, `connection.rs` | `now_playing_active`, `last_keepalive`, control session id, `running` | `handle_authentication`, the `select!` loop, `handle_control_message`, `handle_file_transfer` | all of the rest |
| Authentication, `auth.rs` | certificate, `last_challenge`, `last_response` | certificate and challenge requests | link, MFi provider |
| EA sessions, `session/ea.rs` | `sessions`, `session_channels`, `transfer_ids`, `pending_ea_session` | started, stopped, incoming data, outgoing data | link; the application through `EaSession` |
| HID remote, `session/hid.rs` | `started` | `send_start`, `send_stop`, `send_command` | link |
| File transfers, `session/file_transfer.rs` | `active_transfers`, `recently_cancelled` | one handler per datagram, `cleanup_stale` | link; events |
| Control messages, `session/control.rs` | its configuration | `send_identification_information`, one more per message | link |
| Now Playing, `session/now_playing.rs` | none | `parse` | called by the task; events |
| Transport, MFi provider, types | none that changes | traits, declarations | |

Calls go down: task, handler, `send_data`, stream. While a handler waits in
`send_data` nothing else of the task runs, but the device goes on sending, and what
it sends is queued by the link. Results go to the application as events, in order.

**What is hard, and what makes each component correct**

- *Link.* Messages reach the caller from the stream, from the queue a send filled and
  from the buffer of packets ahead of order; numbers wrap; handshake and acks may be
  repeated, late or lost; a future may be dropped in a write. Correct: in order, none
  twice, none lost once acked; an Ok of a send means the device has it.
- *Packet reader.* Bytes come in pieces of any size, reads are dropped, noise stands
  between packets and looks like one, a length is damaged. Correct: the packets sent are
  returned, in order and unchanged, whatever the pieces; after damage a bounded part is
  lost; the buffer is bounded.
- *Control messages.* Lengths are summed up by hand over nested options and lists; the
  device's messages carry parameters nobody knows. Correct: the device learns what is
  configured, messages can be told apart, and the application shows what is played.
- *File transfers.* Ids are used again; a transfer ends through data, a cancel, a new
  setup, the timer or an error; an answer names an id only. Correct: the application
  gets whole files of one transfer, one verdict each, and the device believes the same.
- *Connection.* Authentication and identification come in any order; handlers send
  several messages and may fail in between; the application stops, drops and sends at
  any time. Correct: events in order, sessions fed by their own data, the device told
  what the flags say, and a loop that ends when it should.

`PROJECT.json` lists the hazards one by one with their lines.

## 2. Modules

    SeqNum            u8 sequence numbers
      Link            Iap2Link, and the discipline of its caller
        LinkSystem    Link + device + stream + faults; fairness; properties
          LinkOrder   the inductive invariant
            MCLink    constant values
    MessageChannel    abstract specification of either direction of the link
    LinkProofs        sequence numbers, types; order and channel in both
                      directions, reliable stream
      LinkWindowProofs  order and acks with losses
    Packet            the bytes of a packet
      PacketReader    read_buf and what fills and parses it
        MCPacketReader
    LossyChannel      abstract specification of what the reader does
    SequenceLemmas    facts about pieces of sequences and their joins
      PacketReaderProofs  round trip of the format; splits, bound, channel
    FileTransfer      FileTransferHandler and the branches that call it
      FileTransferSystem   + device; fairness; properties
        MCFileTransfer
    FileTransferProofs  types; files, verdicts, agreement with the device
    Connection        run_connection, authentication, EA sessions, HID remote
      ConnectionSystem     + device and application; fairness; properties
        MCConnection
    ConnectionProofs  types; events, HID, goodbye, EA request, responses
      EaSessionProofs   EA sessions and their data
    Parameters        the parameters of control messages, written and read
      ControlMessage  the messages of control.rs, hid.rs and auth.rs as bytes
      NowPlaying      the parser of updates
        ControlExchange    both, with a device that reads and writes bytes
          MCControlExchange
          ControlExchangeProofs  types; what is learned, understood and shown

The layers rest on one another. `PacketReader` shows that packets come out of bytes as
`LossyChannel` says: whole, in order, and lost only after a fault. `Link` starts from
packets that are lost or arrive whole, and shows `MessageChannel`.
`Connection` and `FileTransfer` use the link as what `MessageChannel` says: a channel
that delivers in order and once, and a send that ends in an ack or an error. That the
link is one is what the properties `FromDeviceIsChannel` and `FromAccessoryIsChannel`
check (`MessageChannel` is instantiated in `LinkSystem` with the numbers of messages sent
and the messages received). They hold on a reliable stream, while no call of the link is
dropped, and from a device with at most one challenge. What is said of `Connection` and
`FileTransfer` is said of sessions in which the link does its part: a `receive_data` that
is dropped in a write may lose a message (finding 1), and an Ack packet that the device
repeats may be returned twice (finding 2); neither is in these two modules. A challenge
that the retransmitting send drops is (`ChallengeDropped` of `Connection`).

### Link

`pc` says which call the task is in and at which `await` it is suspended; an action is
the code between two awaits that matter, writes included. `negotiate` is
`NegotiateStart`, `SynAckOk`, `SynAckBad`, `SynTimeout`; `receive_data` is `Recv...` and
`ReplyWrite`; `send_data` is `Send...`; the retransmitting send is `Resend...`. A step of
`receive_data` sets `ack` and goes to `pc = "reply"`, because the write that follows is
the place where the future can be dropped (`CancelReply`). An arithmetic overflow is a
panic or a wrap, as the constant `OverflowPanics` says. Packets are records; a payload
is a number, 0 is the empty one. The field `n` of a packet and the variables `delivered`
and `nSent` are history.

The device is not in the repository. It is an honest peer with the freedom the code
and its tests leave: messages in Ack or Data packets, bare packets that carry the last
number or the next, acks of the last number or of the next (`conv`, chosen at the
start). `Spec` has a reliable stream that the device may close at any time;
`FaultySpec` adds loss and repetition, `CancelSpec` the dropped future, `AnySpec` all.

Not in this module: bytes (`PacketReader`); the session id of a packet (`Connection`);
real time. A timeout may happen at any moment it is armed.

### Packet and PacketReader

`Encode` and `Decode` are `to_bytes` and `from_bytes`, lengths and wrapping checksums
included. `wire` is what the device sends in a behaviour, packets and noise, with no or
one damaged byte at any position; `Fill` reads the next bytes of it, as many as it likes
up to the size of the array; `Parse` is `try_parse_packet` and either returns a packet or
goes to the await of `fill_buf`; `Drop` drops the future there. `Probe` is the
`read_exact` of the iAP1 probe, whose bytes are gone. `TryParse` is a recursive function
on the position. The refinement maps the channel's `coming` to the packets that start
behind the bytes already consumed: a packet is lost when the reader goes past its start.

### File transfer

One action per outcome of a datagram: set up, cancelled, ignored, refused, content
taken, last content taken. A handler that sends goes to `pc = "sending"` and its event
follows the ack (`TellDone`), or the connection ends (`TellFails`). Contents are pieces
with a tag: `eoi` ends the image, `soi` starts another, `body` neither. `Cleanup` is the
timer branch. `waited` is the time since `select!` was entered, because the timer is
made anew in every turn. `recently_cancelled` decides the level of log lines only.

### Connection

A handler that awaits several sends is a list of steps, `todo`: each is written, acked,
and then has its effect (the HID flag, an event), or fails, which ends the task, drops
the rest or skips the step, as the branch has it (`onError`). A send that waits puts what
comes meanwhile into `pending`: of `fromDev`, the messages the task has not handled, the
first `queued` are there (`ReadAhead`, modelled during authentication, where it matters).
The retransmitting send of a response takes a message for the ack (`TakenForAck`), but
acks and drops a challenge (`ChallengeDropped`); one that was in `pending` before is
answered later. `TaskRuns` contains the
branches of `handle_authentication`, the loop's condition (`Top`), the branches of
`select!` and the end of `connect`'s task. Application calls are actions of
`ConnectionSystem`. The device closes an EA session before it opens it again, uses a new
transfer id for each. Data comes on a session of the link, and `channels` and
`transferIds` are looked up with either number, as the code does: from a device that is
`shared` all of it comes on the one link session that the SYN declares for EA data,
otherwise on a link session with the id of the EA session, what the code's naming
assumes. `shared` is chosen at the start. Packets of session 0 are
read as without a session and ignored (`EaDataIgnored`).

### Parameters, ControlMessage, NowPlaying, ControlExchange

Operators from a configuration to bytes, one per message, and from bytes to what the
code makes of them: `IsControl`, `StartedSession`, `StoppedSession`, `ChallengeIn`,
`ParseUpdate`. Lengths the code sums up by hand are written out (`Sized`, `HidLength`);
`Parameter` counts. `ControlExchange` composes them with a device that reads with the
same parameter parser and knows nothing of how a message was built. A device's message
may carry an unknown or broken parameter behind those read, or bytes behind itself, and
payloads that are no messages come in between. The device changes what it plays and
reports the attributes that changed; the application lays an update over what it shows.

## 3. Runs

| run | what it shows | bounds |
|---|---|---|
| `link_reliable` | the channel in both directions, no protocol error, the invariant of the proof, from which order follows; negotiation ends and every message is returned | 8 numbers starting at 6 (they wrap), 3 messages of the device, 2 payloads of the accessory, one a repeated send, 2 SYN retries, one stray DETECT, 4 conventions |
| `link_receive_faults` | order, acked messages kept and all returned with 2 losses and repetitions | 4 messages in Data packets |
| `link_send_faults` | no payload twice or out of order at the device, Ok is never wrong | losses and EAKs while sending |
| `link_cancel` | finding: a dropped write loses an acked message | |
| `link_duplicate` | finding: a repeated message is returned twice | |
| `packet_reader` | the reader implements `LossyChannel`; pieces and dropped reads do not matter; bounded buffer; back in step after a fault | two scripts of 4 packets with noise, every position damaged to 8 values, longest packet 16, 3 bytes per read, every probe |
| `control_exchange` | the device learns the configuration and tells messages apart; the accessory hears what it was told; the application shows what is played | 48 identities, 3 forms of a raw one, 3 configurations of the rest with 3 messages each, 3 messages of the device out of 7 changes, 2 sessions, 2 challenges, 4 tails, 8 payloads that are no messages |
| `file_reliable` | whole files, one verdict, declared size, agreement with the device; verdicts are reached; timed-out transfers end if the timer runs out | five workloads: two setups of one id with 4 kinds of contents; with wrong sizes and a hasty device; two ids; a pause, with a hasty device; three setups of one id |
| `file_starved` | finding: a busy loop starves the cleanup | |
| `connection` | events, EA sessions, HID, goodbye, challenge responses; stop and commands | five allowances of what the environment does, see `MCConnection`; EA ids 0 and 2, their data on link sessions of the same number or on the declared one; 3 challenges |
| `connection_challenge` | finding: a new challenge is dropped as a repetition | 3 challenges |
| `connection_shared` | finding: data of two sessions on one EaSession | one EA id |

Eight numbers stand for 256: `IsAfter` splits them in half, as the code does, a window
is smaller than a half, and both a wrap in the middle of a session and a number used
again occur. Two setups, of one id or of two, are what a replaced, late or crossing
transfer needs; with a third, answers can be taken for those of another transfer.
`SuccessIsComplete` is about a device that, once it has sent a Setup, waits for the Start
that answers it. A hasty one, which gives the transfer up before and sets up another, can
take the Start and the Success of one transfer for those of the next, because an answer
names an id only; two setups are too few to show it, and the attempt to prove the
property for any number did. Every Setup is answered with Start, so a Failure that comes
before it is of an earlier transfer, and a device that waits ignores it.
The connection runs allow each kind of message once and the interesting
ones twice, in five groups whose members interact; one run over the union is too large.
Three challenges are what it takes to drop one between two that are answered.
A packet of the reader's run is at most 15 bytes with a limit of 16, so that a damaged
length may be too large, reach over the next packets, or end in their middle; payloads
contain sync bytes and whole headers. One configuration of `control_exchange` has texts
and data of 260 bytes, so that both bytes of a length count.
`CHECK_DEADLOCK FALSE` is set everywhere, because a session ends: the device falls
silent or the task is done, and the bounds run out.

Every property has a mutant in `PROJECT.json`, a plausible bug in the code that violates
it: the definitions commented `Mutant:` in the modules.

**Fairness.** The task runs on when it can, and a read that has a timer times out when
nothing arrives (weak fairness of `AccessoryRuns`, `TaskRuns`, `TellDone`, `Tick`):
tokio polls a ready task. A branch of `select!` that is ready again and again is taken
(strong fairness of `HandleDatagram`, `Cleanup`, `HidCommand`): `select!` without
`biased` starts at a random branch. The device reads what it is sent; in
`link_receive_faults` it keeps sending its oldest unacked message. In `packet_reader` bytes that were sent arrive: `Fill` has strong
fairness, because each dropped read disables it, and the caller goes on reading. No fairness is
assumed of the application, of a device's sends, or of failures. The timer of the loop
is not assumed to run out: `AbandonedEnds` has that as its premise, and `file_starved`
shows why.

## 4. Findings

1. `link_cancel`: `receive_data` sets `self.ack` before it awaits the write of the ack;
   `select!` (`connection.rs:165`) may drop it there, and an acked message is gone. The
   comment at `link.rs:621` promises cancellation safety, of the packet reader.
2. `link_duplicate`: an Ack packet with a payload and `seq == self.ack` is taken again
   (`link.rs:257`).
3. `file_starved`: the sleep of the cleanup branch starts anew in every turn
   (`connection.rs:244`); steady traffic keeps timed-out transfers for ever.
4. `connection_shared`: the SYN declares one link session, 0x0B, for all EA data
   (`packet.rs:121`), and data is looked up by its number (`connection.rs:198`), whereas
   EA00 and EA01 register and remove by the id of the EA session (`ea.rs:102`). The
   channel registered under 0x0B by the first data outlives its session, and the next
   session's data goes to the `EaSession` of the last.
5. `connection_challenge`: while the response to a challenge waits for its ack, every
   challenge is acked and dropped as a "duplicate auth challenge" (`link.rs:439`, `475`),
   a different one too, which `auth.rs:198` expects. The device's last challenge has no
   answer then. `ResponsesFit` holds: the responses that do go out are to challenges of
   the device, in their order.

Smaller ones are part of properties that hold. What `send_data` logs as the retransmission
of a packet the device misses is an empty ack under its number (`link.rs:376`); no Ok is
given for the lost payload (`SendOkMeansReceived`). `pending_ea_session` stays set although the
session was registered at once (`ea.rs:57`), so that data on a link session without a
channel registers it again (`ea.rs:128`). From a device that uses the declared link session
0x0B this happens with the first data of the first session: the application has two
`EaSession`s for it, both open, and only the second gets data. From a device that uses the
id of the session it happens only after the application has dropped the `EaSession`.
`SessionsAreOpened` says of both devices
that there are never more than two for each session opened, and never two for the same
session on one link session unless the first was dropped. `OutgoingTransferId` says whose
transfer id data goes out with, that of the newest session of its id: an `EaSession`
that is kept when its session is closed and opened again sends with the id of the new one,
because `EaSession::send` (`ea.rs:18`) passes on the id of the session only. And what
`HeardIsTold` and `ShownIsCurrent` exempt: a text that became blank, white space of any
kind included, is not in the parsed update (`now_playing.rs:198`), so the application goes
on showing the old one.

## 5. Proofs

All are checked by TLAPS for every value of the constants that satisfies the modules'
assumptions (`M` even and at least 4, the device's window below `M / 2`, ...): numbers
of messages, faults, sessions, transfers and failures of sends are not bounded by
anything but constants that may have any value. Each theorem names, in the comment
before it, what it says; each rests on an inductive invariant, given here.

### Link

*Types* (`LinkProofs`): closure, injectivity over less than `M` numbers, successor and order
of sequence numbers; `TypeCorrect`: `AnySpec => []TypeOK`, with losses, repetitions and
dropped futures. One lemma per method of the link, one for the device.

*Receiving, reliable stream* (`LinkProofs`): `ShortSessionInOrder`,
`DeliveredInOrder`, and the refinements `LinkIsChannel` and `ShortLinkIsChannel` of
`MessageChannel`. `InOrder` is not inductive. `Inv` (`LinkOrder`) counts messages as they
leave the stream: those returned, queued and held are the first `Got`, the packets in
flight carry on from `Got` to what was sent (`InFlightInOrder`), their numbers fit their
count (`AllNumbered`), and `ack` is the number of the last message read or the one a bare
packet announced (`AckIsCurrent`). Only then is the next message the one `receive_data`
expects, and `rx_buffer` stays empty. `send_data` does not look at the number of what it
queues, which is why the queue's own order (`PendingInOrder`) is part of it; the queue
is searched by number, which is why it must stay shorter than `M` (`SmallBacklog`, or a
device with fewer messages than numbers). For the refinement it is needed besides that
nothing is returned before it was sent (`ReturnedWasSent`): the packets in flight bound
what was returned by what was sent. `Inv` is also an invariant of `link_reliable`.

*Sending, any stream*: `DeviceGetsInOrder`, `AnySpec => []DeviceInOrder`, for every
device. `OutInv`: payloads in flight do not decrease, and equal ones carry equal numbers
(`OutInOrder`); the device has nothing later than what is in flight, and its `dLast` is
the number of a payload it may see again (`GotBefore`); the retransmitting send repeats
its last payload under its last number (`ResendIsLast`); an ack carries no payload
(`ReplyIsBare`). The device tells a repetition by its number, so the last number must be
tied to the last payload.

*Sending, reliable stream*: `LinkIsChannelOut`, `Spec => FromAccessoryIsChannel`, for
every device. `NumberInv`: no number is spent on anything but a payload, since only an
EAK makes `send_data` do that and a reliable stream brings none (`LinkNumbers`); what
the device lacks is on its way (`LoadNumbers`); and what the device expects next follows
from what it has (`DeviceStart`).

*Handshake*: `SendsMeetNoHandshake`, `AnySpec => []NoProtocolError`, from a device with
Ack packets: `HandshakeInv` says that once a message was read, every SYN-ACK and DETECT
was read before, because the stream keeps the order of what it does not lose.

*Receiving, with losses* (`LinkWindowProofs`): `LossyInOrder` and `LossyAckedIsKept`,
`FaultySpec => []InOrder` and `[]AckedIsKept`. `WindowInv` is that of a sliding window:
what was acked is received, what was received was sent, and sent is at most a window
ahead of acked (`GotBetween`, `DeviceWindow`); buffered messages are ahead of `Got`, one
under a number (`BufferAhead`); nothing in flight is older than a window (`NoneStale`,
from `InStep`, which orders the stream); `ack` is the number of `Got` (`AckIsGot`); and
acks on their way rise from what the device has heard to `Got` (`AcksRise`). So numbers
compare as messages do, which is what `is_seq_after` relies on.

### Connection

*Types* (`ConnectionProofs`): `ConnectionTypeCorrect`, with types of every step, message,
session and event that are finer than `TypeOK`, which the rest uses.

*Order* (`ConnectionProofs`): all rest on `StepInv`, which says what lists of steps
a handler can be in the middle of at each place (`TodoFits`), and that a step marked
written was (`WrittenIsTold`).

- `ReportsReachStartedHid`: `HidInv` ties the flag, what the device was told and the
  starts and stops still due; the flag is set after the ack and a send may fail between.
- `GoodbyeIsClean`: `GoodbyeInv` ties `now_playing_active` to what was written, up to
  the goodbye's own list of steps.
- `EventsInOrder`: `EventInv`, with the events that may be last at each place
  (`LastEvents`).
- `EaRequestFollowsBoth`: `EaRequestInv`, with the request written, due, or to be made.
- `ResponsesInOrder`, for any number of challenges, dropped ones included: `ResponseInv`:
  each answer given or due has a place among the challenges asked, and each challenge on
  its way a later one, in their order (`InTurn`); places may be passed over, as a dropped
  challenge's is, but the first is not (`FirstComes`); and the cached response is that to
  the cached challenge.

*`EaSessionProofs`*: `DataInSessionOrder` and `TransferIdOfSession`, for a device that sends
the data of a session on the link session with its id; `EaSessionsAreOpened`, for both
kinds. Without `shared`, the device is ahead of the task by the messages in between. `EaInv` says
that there is a view `v` of the sessions, from which the messages on their way lead to the
device's (`Ahead`), and with which `channels`, `transferIds`, the application's handles and
the data in them agree (`TaskAt`). The task has no such view as state, so it is an
existential. That the newest handle of an open session is of that session (`Newest`) is
what ties a transfer id to it. `TransferIdOfSession` says what it is called after of the
messages the task is about to send, and needs `EaInv` on both sides of a step.
With `shared`, a session opened later has a higher number than every handle that was
given when a session was opened, and of the handles on the declared link session only the
one in the channel is open (`SharedInv`). `CountInv`, for both, counts the handles against
the sessions told, with one more for `pending_ea_session`. With `shared` what the other two
say is false, and for the same reason, finding `connection_shared`: the
`EaSession` registered under 0x0B outlives its session, gets the data of the next, and
sends with the transfer id that came with that data.

### File transfers

`FileTransferProofs`: `FileTypesCorrect`;
`WholeFileHolds`, `OneVerdictHolds`, `InStepHolds`, `WithinDeclaredHolds`, from `IInv`:
a transfer belongs to one id (`Owned`); with one id, what the handler holds, what is on
its way and what the device is doing are the same transfer unless a Setup stands between
them (`Ordered`); a transfer held is not told of, and none twice (`Once`); the pieces on
their way carry on from those read (`Counted`); what is told of is whole (`AllWhole`).
`Owned` and `Counted` speak of facts no variable holds, and are existentials. Verdicts
that wait for their ack count as told (`Said`), since the handler has forgotten the
transfer by then. `SuccessHolds` adds, for a device that waits for Start, where its
answers may be (`Answered`), and that a Success was said with the event (`Truthful`).

### Packets

`PacketReaderProofs`, over the facts of `SequenceLemmas`. `TryParse`, `ParseAll`, `Sum`
and the bytes of a script are recursive functions, defined as a `CHOOSE`, so two things
come before any fact about them: that the function exists, shown from the shortest
buffer that has none, and that on a rest of the buffer it does what it does in the whole
of it. A fact about the loop follows from a set of positions that the loop does not leave
before it ends (`LoopRule`: of the positions with the same outcome take the last).

- `EncodedDecodes`: `from_bytes` makes of what `to_bytes` wrote one packet, the one
  written, with session 0 read as none and a Detect read as a bare one. Both checksums
  wrap (`SealedSum`), and the control byte stands for one type (`OneKind`).
- `ReaderTypes`, `ReaderSplits`, `ReaderBounded` rest on `ReaderInv`: the buffer is the
  bytes that arrived and are not consumed, and what was returned followed by what the
  buffer would still give is what one read of all bytes would give (`AsIfAtOnce`).
  `SplitsDoNotMatter` speaks of the moments the reader waits only, and is not inductive.
  A `Fill` keeps `AsIfAtOnce` because bytes that come later change nothing of what was
  found before them (`ParseAllMore`); that is where the early exits of `try_parse_packet`
  are needed: each waits for the bytes its decision depends on.
- `ReaderIsChannel` and `IntactIsChannel`: the reader implements `LossyChannel`.
  `ReaderPlace` says that the bytes are those of a script, damaged at most at one place,
  and, without a fault, that the reader stands between two packets (`Between`): behind
  the one it returned last, in the noise in front of the next or at its start.
  `FindsNext` follows the loop through the noise: it stops nowhere in it and skips no
  byte of the packet behind it. After a fault the reader may stand anywhere, and may find
  what looks like a packet in the inside of another; the format has one byte of checksum
  and cannot rule that out. `ReaderIsChannel` therefore has the hypothesis `Unforged`:
  where a packet is found in the bytes, that packet was sent. TLC finds it true of every
  damaged stream of `packet_reader` (with `Unforged` as an invariant of that run); for
  a stream without a fault `IntactIsChannel` needs no such hypothesis.

### Control messages

`ControlExchangeProofs`. `parse_parameters` is a recursive function as well, shown to
exist first (`ParserExists`). `Reads(d, ps)` says that the parser finds `ps` in `d`
whatever follows; one `Parameter` reads as itself, and what reads so is put together by
`ReadsBoth` and `ReadsMany`.

- `HeardAsTold` and `ShowsWhatPlays` rest on `Understanding`: what the device said is what
  the accessory understood followed by what is on its way (`Told_Heard`), which is a
  payload that carries just that (`Carries`, `Waiting`). An update holds only what changed;
  what is shown becomes what is played once the payload on its way is read (`Soon`,
  `Current`). The properties alone are not inductive: neither says what that payload holds.
- `MessagesAreWellFramed` and `LearnsWhatIsConfigured` rest on `Learning`: the message on
  its way to the device was built from the configuration by an operation of the accessory
  (`Built`), and what the device learned it read in one so built. `BuiltTeaches` goes
  through the operations: the twenty or so sections of an identification, of which each
  leaves the numbers of the others alone (`Section`, `SectionBoth`, `DescribedRead`); the
  three raw forms an application may give it in (`RawSent`); and the ids, which differ
  (`NumbersDiffer`), so that no two messages are read alike (`LearnedApart`).

### Assumptions, beyond the constants' own

| assumption | theorems | why |
|---|---|---|
| `OrderedDevice`: Ack packets, at most one message is a challenge | receiving, reliable | the retransmitting send drops every challenge it meets |
| `[]SmallBacklog`, or `MaxData < M` | the same | `pending` is searched by number: with `M` queued, a new message is taken for an old one |
| `AckDevice`: Ack packets | `SendsMeetNoHandshake` | nothing of the handshake is behind a message, which `HandshakeFirst` states for them |
| `ReceiveOnly`: the accessory sends nothing, messages in Data packets | losses | `send_data` takes any number for `ack`, and a repeated Ack packet is returned twice (finding `link_duplicate`) |
| `~ shared`, in the properties themselves | `DataInSessionOrder`, `TransferIdOfSession` | finding `connection_shared` |
| `LengthAssumption`: encoded packets are no longer than the reader accepts, which is below 64 KiB | packets | `to_bytes` computes the length in 16 bits (`packet.rs:166`), the reader refuses more than 8192 bytes (`link.rs:592`) |
| `NoiseAssumption`: behind a sync within the noise, the length is not a valid one | packets | what looks like a packet is waited for and skipped as one, so noise could swallow the packet behind it |
| `ConfigurationAssumption`: configured parts are at most 30000 bytes each; what form a raw identification has, is known by how it begins | control messages | lengths of parameters and messages are cut to 16 bits; `control.rs` looks at the first bytes |
| `TailsAssumption`: what a device adds behind its parameters has not the number of one that is read | the same | the reader takes the first parameter with its number, and a message without one is ignored |
| `ChangesAssumption`: an attribute has a value of its type, and an update fits in a message | the same | what the device plays is something its messages can say |
| `JunkAssumption`: junk is no message, has another id, or has not the parameter that is read | the same | else the device would have said something |
| `[](Faulty => Unforged)` | `ReaderIsChannel` | a sum of one byte: a damaged stream may hold a packet nobody sent |
| `~ work.hasty`, in the property itself | `SuccessHolds` | answers name an id |

### Only model-checked

- `SendOkMeansReceived`. It is false in sessions that spend `M` numbers or more after a
  payload was lost: an ack left over from `M` sends ago equals the one awaited. With
  256 numbers that takes a long-delayed ack; the run stays below it.
- All liveness, with its fairness, and the violated properties of the findings.

## 6. Not modelled, and why

- The MFi provider and the mocks of provider and transport: what the application or a
  test supplies. A provider's call is a step that succeeds or fails.
- The RFCOMM adapter: an operating system's socket. Its reads are `Fill`'s.
- The structure of a JPEG image: a piece of a file ends the image, starts another or
  does neither.
- UTF-8: texts are ASCII, or contain a byte that is never valid; the white space that
  makes a text blank is that of ASCII.
- Lengths from 64 KiB on, which overflow or are cut: `Packet` and `Parameters` say how,
  but no run has values that long.
- Log output, `generation` counters of transfers, which are never compared, and
  `recently_cancelled`, which picks the level of a log line.
- A device that answers out of the protocol's order.

## 7. Plan

1. *Core, done*: link, device, faults, types and order proved; file transfers; connection.
2. *More of the system, done*: packets and their reader, control messages, Now Playing,
   the link sessions of EA data, liveness in the runs it belongs to.
3. *Proofs, done*: every safety property that the runs check, except
   `SendOkMeansReceived`.
4. *Next proof*: `SendOkMeansReceived` under a bound on the numbers spent.
5. *Composition*: file transfers and EA data in one loop, to see what one session's
   traffic does to another's timers.

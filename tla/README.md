# A verification of the Elesense Light Bar controller

The firmware in `src/lamp-src/src` runs on an ESP32 with an LC12S radio module.
It takes part in the radio protocol between a monitor lamp and its original
remote control, and lets three buttons and a web page control the same lamp.
This directory holds a TLA+ model of it, the TLC configurations that check the
model on small instances, and proofs checked by TLAPS.

Line numbers below are those of `src/lamp-src/src` unless a directory is given.

## The system

| Component | State | Operations | Talks to |
|---|---|---|---|
| `LC12STask` (lcs12c_task) | learn flag, packet under construction `mylamp`, on flag, local copy of hue and intensity, shown ID, command queue (10) | parse UART bytes, take a command, `command`/`hue`/`intensity` posted by others | UART, NVS, WebTask (`lcsUpdate`), LedTask |
| `Packet`, `PacketParser` (packet.h, parser.h) | collected bytes, parser state | `parseByte`, setters, checksum | LC12STask |
| `WebTask` (web_task) | server mode, shown access points, shown settings `lcs`, three queues (2 each) | loop every 500 ms; handlers of `/`, `/slider`, `/values`, `/command`, form | HTTP server, LC12STask, WifiTask, NVS |
| `WifiTask` (wifi_task, wifi_client, access_point, wifi_scanner) | mode to process, driver and connection state, mode queue (2) | loop every 500 ms; Stop, Client, AP; `switchMode` | driver, NVS, WebTask, LedTask |
| `Application` | the tasks | `init`, `run`, `checkRenewAP` | all |
| `KeyVal` (key_val.h) | NVS | reads, writes with one commit each | flash |
| `LedTask` | shown mode, queue (5) | `mode`, posted by others; a turn of up to 1.2 s per mode | LC12STask, WifiTask |
| `ButtonTask`, `Button` | last state of X, its own place in the polling loop | `click`, `isPressed`, delays | LC12STask |
| `HttpServer`, `HttpReqest`, `ConentFile`, task and timer wrappers | handler list; none | library wrappers | WebTask |

Each task is a FreeRTOS task with a loop that never ends. Tasks share nothing but
queues, posted to with a block time of 0 (a full queue drops the message and no
caller looks at the result), the NVS behind a mutex, and, between WebTask and
the task of the HTTP server, the local variables `lcs` and `apinfo` of WebTask's
loop, without a lock.

What is hard in it:

* the pairing with a lamp is kept in three places (learn flag, `mylamp`, NVS)
  that packets, commands and resets change in any order;
* the settings of the lamp are kept in four (the lamp, `mylamp`, the local copy,
  `lcs`), and no message between them is acknowledged;
* the parser has no timeout and starts anywhere in the stream;
* a configuration is five NVS keys that one task writes while another reads;
* queues of two, drained once per 500 ms, carry bursts;
* the status LED belongs to two tasks that do not know of each other;
* one task polls three bouncing contacts and sleeps up to 200 ms in between;
* no caller looks at the result of a write to NVS;
* a reset can fall between any two commits.

`PROJECT.json` lists these hazards one by one, each with its line and with the
properties that would catch it going wrong.

## Modules

| Module | Models | Composes |
|---|---|---|
| `RTOSQueue` | `xQueueSendToBack` with block time 0 | |
| `LampPacket` | the fields of a packet and the setters of packet.h | |
| `LC12STask` | the radio task | `LampPacket`, `RTOSQueue` |
| `LC12STask_proof` | theorems about it | |
| `FrameCollector` | abstract: what the parser promises | |
| `PacketParser` | `parseByte`, byte by byte | |
| `PacketStream` | noise, then a stream of frames with losses, into the parser | `PacketParser` |
| `PacketStream_proof` | theorems about both, among them the refinement | `FrameCollector` |
| `HexId` | the text form of an identification in NVS | |
| `LampLink` | remote, lamp and lossy radio around the task | `LC12STask` |
| `LampLink_proof` | theorems about it | `LC12STask_proof` |
| `WebTask` | loop of WebTask, its queues | `RTOSQueue` |
| `WifiTask` | WifiTask and the wrappers of the driver | `RTOSQueue` |
| `Provisioning` | the configuration form, NVS, resets | `WifiTask`, `WebTask` |
| `Provisioning_proof` | theorems about it | |
| `WebPage` | the Control page and its handlers | `LC12STask`, `WebTask` |
| `WebPage_proof` | theorems about it | `LC12STask_proof` |
| `LedTask` | the LED's queue and mode | `RTOSQueue` |
| `StatusLed` | the LED and all that post to it | `LC12STask`, `WifiTask`, `LedTask` |
| `StatusLed_proof` | theorems about it | `LC12STask_proof` |
| `ButtonTask` | polling, debouncing, delays, in ticks | |
| `ButtonTask_proof` | theorems about it | |
| `AtomicStore` | abstract: what the tasks rely on NVS for | |
| `KeyVal` | key_val.h, call by call of the library | `AtomicStore` (refined) |
| `ConfigForm` | body, parsing and storing of the configuration form | `KeyVal` |
| `ConfigForm_proof` | theorems about `KeyVal`, among them the refinement, about `ConfigForm` and about `HexId` | `HexId` |
| `MC...` | instances for TLC | |

### LC12STask

The variables carry the names of the locals of `loop()`; `kv` holds the NVS keys,
`queue` the command queue, `out` what the last step wrote to the UART, to WebTask
and to LedTask. One action is one packet handed over by the parser
(`LearnPacket`, `OwnPacket`, `ForeignPacket`) or one command (`HandleToggleOn`,
`HandleLearn`, ...). An iteration is not split further, because nobody else sees the
locals; only switching off with the button is two actions, with the two NVS
commits it makes, since a reset may come in between. Start-up has its own
actions, because commands can be queued while the task is in the 500 ms delay.

Each access to NVS may fail, and the task looks at no result: a read then gives the default, and a write
(`WriteId`, `HandleToggleOff`, `SaveHue`) leaves the key as it was, while everything else goes on as if it had succeeded.
`idFailed` remembers that the last access to the identification failed. A write that sets its key but is not committed may
be lost by the next reset; since the task reads NVS only at its start, that is settled when the write is made. A store that
`init` could not open is the case in which every access fails.

A slider's request carries any byte, as the handler casts the number in it to `uint8_t` unchecked (`SliderValues`,
web_task.cpp:132); 255 means "leave this level alone" to the task (`Keep`).

A packet is abstract: an identification, a command and two levels. Identifications
are model values, of which `ZeroId` stands for the blank one of `prepare` and
`IgnoredIds` for those with the magic byte 0xA4 (packet.h:114). That the bytes on the wire carry such a
packet, and only whole ones, is the matter of `PacketParser` and `PacketStream`.

### PacketParser, FrameCollector, PacketStream

`ParseByte` is the switch of `parseByte`, with the byte buffer of the packet.
`FrameCollector` says what that amounts to: skip to a head byte, collect a frame's
length of bytes, then hand the frame over if it is valid and discard all of it if not. `PacketStream` first feeds
any bytes at all (`Noise`), then tunes in to a remote at any byte of a frame, and from then on sends whole
frames of which bytes get lost.

`HexId` is `arrayToString` and `stringToID`, between which an identification lives in NVS. `readString` gives
it back with the NUL at its end, one character more than was written.

### LampLink

The lamp and the remote are not part of the repository. They are modelled from the
description of packets in `src/README.md` and from what the code takes for granted:
the lamp obeys ON and OFF packets that carry its identification. The remote's
packet may reach the lamp, the controller or both, and waits in the UART buffer
until the task reads it; a packet of the task may reach the lamp or not.

### WebTask, WifiTask, Provisioning

An iteration of a loop is split where another task can see or change something in
between: WebTask's three queue reads, the stop of the server (which waits for the
handler in progress), each NVS key WifiTask reads, each message to WebTask, and each
key the form's handler writes. `Boot` is a reset, with or without A and B held.
The store may not `open` (the result of `kv.init` is ignored, application.cpp:56), in which case every read gives the empty
string and every write does nothing; on an open store any read or write may fail (`Reads`, `Writes`). `misread` remembers that a
read of what the controller now runs on failed. `ConnectStation` may leave the driver down (wifi_client.h:106-111), and the
Control page is started all the same. Errors of the driver under `ESP_ERROR_CHECK` are resets.
A second creation of the station interface is an assertion of the library and
with `sdkconfig.esp32dev:315,713` a restart; that is how the firmware gets from
one network into another.

### WebPage

The handlers of `/slider` and `/command` between LC12STask and WebTask. `/slider`
and RECONFIG touch `lcs` and the command queue in two steps, which are two actions. The sliders take any byte; a slider set
to 255 changes `lcs` and is left alone by LC12STask, so the page shows 255 until the next report (`ignored`).
`Values` is the answer to `/values`. ON does not read the levels in its body (web_task.cpp:213), and `CommandOn` has none.

### LedTask, StatusLed

LC12STask posts LEARN and CLIENT, WifiTask AP_MODE, CLIENT and ERROR; `out.led` and `wifiOut.led` of the last step
are what is posted. The web page appears by its effects: a form submitted while the access point runs (`Submit`) is
stored, all of its keys or some, and answered by a switch request (`Configure`), perhaps when the access point is down already;
LC12STask and WifiTask fail to access NVS independently of each other, which allows more than one store for both does; RECONFIG queues the
learn command.

### ButtonTask

One action per read of a pin and per end of a delay, and `Tick` for 10 ms. A read returns what the contact is, anything
while it bounces, and low for a spike; `again` is the place between the two reads of `isPressed`. X is modelled
in full; A is followed while it is held; B, which only takes time, is low or high at will. `Button::init` is
called nowhere in the repository (pull-ups are a matter of the board).

### KeyVal, AtomicStore, ConfigForm

A call of `KeyVal` is split at the calls of the NVS library it makes (`Set`, `Commit`, `Size`, `Get`, `GetUint32`),
each of which may fail, reads on an open store too, with the mutex in between; a failed read gives the default. `nvs` is what the library returns, `flash` what is committed; a reset loses any
part of the difference. `AtomicStore` is what LC12STask and Provisioning take NVS for. `ConfigForm` is the way
of a form into it: the browser's encoding (external), the one call of `httpd_req_recv`, which may return any beginning of the
body, `parseFormData` as the set of positions where pairs begin, and the writes one by one.

## Runs

Runs that pass:

| Run | Properties | Instance and why it is enough |
|---|---|---|
| `lcs` | `TypeOK`, `PairingStored`, `TxToStoredLamp`, `NoSilentRepairing`, `PairingCompletes` | Two lamps and one identification with the magic byte, every command, failing accesses to NVS and resets anywhere. The proofs of the safety properties cover all sizes. |
| `stream` | `StreamTypeOK`, `Resynchronises`, `NoPhantomPacket`, `CollectsFrames` | Any bytes before the remote is heard, bytes 0 .. 2 with head byte 2, four lamps, all frames without a second head byte, start in any byte of a frame; after a lost byte the next `Gap` bytes arrive. The proofs cover all sizes. |
| `link` | `LinkTypeOK`, `MirrorsLamp`, `OnPacketCarriesSettings`, `RangeKept` | One lamp and packets with the magic byte, two levels, a byte beyond them and 255, one packet waiting in the UART buffer, lost packets in all combinations. |
| `prov` | `ProvTypeOK`, `SettledOnStored`, `Settles` | Two networks and an empty SSID, three forms: one is read, one is written and one waits; a closed store, failing reads and writes, a driver that does not start. |
| `page` | `PageTypeOK`, `PageAgrees` | One lamp, a level and 255, queues of one; inputs of all sources one at a time, or any number of the remote's keys at once; after a mishap, a calm key of the remote. |
| `button` | `ButtonTypeOK`, `PressToggled`, `HeldIsStepped`, `OneTogglePerPress` | The delays of the code, tick by tick; contacts bounce for up to 40 ms. |
| `led` | `LedTypeOK`, `LedTellsTruth` | One lamp, one network, two forms between two starts, any of whose keys may not be stored, the LED's queue of five. |
| `form` | `KeyValTypeOK`, `FieldsStored`, `ActsAtomically` | Two string fields and a number, values with and without a special character, a second task that reads all keys and writes the number; failures and resets anywhere. |

What the less obvious of them show: `PairingStored` and `TxToStoredLamp`, that learn mode, the packet under construction and
NVS part only by a failed access to the stored identification, and that even then only a lamp that was learned is addressed.
`NoSilentRepairing` holds whatever fails: a lamp is replaced, in `mylamp` and in NVS, only on a learn command, or where the task knows of none.
`RangeKept`, that nothing the task does by itself takes a level out of 0 .. 0x17. `SettledOnStored`, that the page fits the
network however many reads, writes or starts of the driver failed, and that unless a read failed the controller runs the
configuration NVS holds now, whichever writes failed and however several forms overlapped. `PageAgrees`, that every command either reports what it changed or was told of it
by a handler that changed `lcs` in the same way; only inputs that overlap, or an update that finds its
queue full, leave the page behind, and the next key of the remote that comes while nothing is under way repairs that. `LedTellsTruth`, that the LED, whoever posted last, never keeps a mode that has
ceased to hold. `PressToggled` and `HeldIsStepped`, that a press of X held for `LongestPoll` (0.61 s with the
delays of the code) after as long a rest is never missed and a held A is stepped within every `LongestStep` (0.66 s).
`ActsAtomically` is the refinement; it fails as soon as only writers take the mutex, or the result
of a commit is ignored inside `KeyVal`. `FieldsStored`, that wherever a body is cut, a key never gets anything but the beginning of
its own field.

Runs that show a disagreement between the code and what its comments or its
documentation say; each stops at the shortest trace:

| Run | Property | What happens |
|---|---|---|
| `lcs_increase` | `IncreaseIsSentAsOn` | The remote switches the lamp on, then button A transmits a packet whose command byte is still 0 or OFF. |
| `prov_listed` | `ListsLastScan` | The third access point of a scan does not fit into a queue of two, and is missing on the Setting page. |
| `led_client` | `ClientMeansConnected` | The lamp is learned while the access point waits for a configuration; LC12STask posts CLIENT, and the LED says "connected". |
| `form_encoded` | `SubmittedIsStored` | A value with a special character is stored as the browser encoded it. |

Two limits of the protocol are not findings. When an identification contains the head byte 0x53,
a parser that starts in the middle of a frame may lock onto that byte in every repetition, so
`Resynchronises` and `NoPhantomPacket` are stated under `HeadOnlyInFront`. And the toggle flag is a
guess after a reset: the first press of the button may send ON to a lamp that is on.

Observations that are plain from the code and need no run; the models do the same:

* A packet of a neighbour's remote overwrites the local copy of the levels (lcs12c_task.cpp:97-102 come before the
  comparison at line 113), so that the next press of A may make the own lamp darker.
* A number beyond 0x17 in a slider's request goes into the packet, the local copy and, at the next switching off with
  the button, NVS (web_task.cpp:132). The comment at packet.h:193 gives the setter the range 0x00 - 0x17.
* When the identification of a learned lamp cannot be written, learn mode ends all the same (lcs12c_task.cpp:107), and
  the next reset starts learning again; when it cannot be erased, learn mode begins all the same, and the next reset returns to the old lamp.
* A controller whose store does not open or whose SSID cannot be read runs the access point, although a network is stored.
* WebTask has no branch for the ClearAPInfo that WifiTask posts before a scan.

### Bounds

* `button`: `Debounce` 2, `StepDelay` 20 and `LoopDelay` 5 ticks are 20, 200 and 50 ms. `Bounce` = 4 ticks is longer than the debounce time, so that both reads of
  `isPressed` may fall into one bounce. `SpikeGap`: spikes come no closer than 40 ms; two
  at the distance of the two reads are a press, whatever the code. `MaxLate` = 1: when a delay is over, the task gets the processor within a
  tick. `LongestPoll` and `LongestStep` are computed from these.
* `led`: `MaxForms` = 2 is enough for a second form that waits while the first is carried out, and thus for the
  restart after a second station interface. `dropped` notes that a request found five others waiting.
* `form`: names of one and two characters, values of up to two encoded characters; `MaxBody` = 9 in place of 299 lets both bodies through whole,
  and since every beginning of them arrives in some behaviour, a smaller one would add nothing.
* `stream`: `Gap` = 16 bytes between two losses, two frames and more.
* Levels: 0 .. `MaxLevel` for 0 .. 0x17, bytes 0 .. `MaxByte` for 0 .. 255, with `OffLevel` for the 0x10 that `setCommand(Off)`
  writes and `Keep` = `MaxByte` for 255. The code compares levels with 0, 0x17 and 255 only. Each run has the levels its properties
  tell apart: `link` two levels, a byte between them and 255, and 255; `lcs`, `page` and `led`, whose properties
  compare levels for equality at most, one level and 255, which are two different values for the local copy and `lcs` as well. The
  proofs are for any number of levels and bytes.
* Queues: the queues of WebTask and WifiTask have their real capacity of two in `prov`. The command queue of ten has one place,
  or two in `led`; `page` has queues of one, which fill sooner. The proofs are for any capacity.
* `HueInRange` (`link`): a level beyond the protocol is followed for the brightness alone; hue is treated alike. The remote sends
  levels of the protocol, so that only sliders bring others; the theorem `LevelsKeepRange` is for packets of any kind.
* `MaxForms`, `MaxInFlight`: forms accepted between two starts and unanswered at a time. With `MaxForms` 4
  and with `MaxInFlight` 3 the run passes as well.
* `MaxMissed`: see the next section.
* `OneMishap` (`page`): once an input has come in another's way, or an update was dropped, there is no further input until
  all is calm, and then a key of the remote only, which is what `PageAgrees` promises to repair the difference. `BrightnessOnly`:
  after a mishap only the brightness is followed; hue is treated alike.
* `OthersSucceed` (`prov`): on an open store the reads that fail are those of `ssid` and `gw` and the writes that fail those of
  `ssid`; `FewerForms`: one form when the store is closed or a read has failed. Both leave every action its outcome
  in which nothing fails, so that they disable no action that is weakly fair. The proofs need neither.
* `PageView`, `LinkView` and `StatusView` leave out `out`, `wifiOut`, and histories that no step and no property of the run reads.

### Time and fairness

`LC12STask` is fair in its own steps (its loop never blocks) and strongly fair in receiving a packet in
learn mode: a remote in use repeats its packet, the UART driver keeps the bytes, and
each iteration reads them before it takes a command.

`Provisioning` has weak fairness of the two loops and the handlers, which never block for ever, and of the restart
after the library's assertion; none of failing, of forms or of resets. Its `KeepStep` restricts the speed of the loops to one another. Both end with a delay
of 500 ms; what they do in between is short next to it, except a scan, which is long and gives WebTask
time to look at its queues. `MaxMissed = 1`: WebTask looks at its mode queue at least in every second delay of
WifiTask. That is an assumption about scheduling, and it matters: with `MaxMissed = 2`, three messages can come together in WebTask's queue of two, the
Control message is dropped and `SettledOnStored` fails. The other half of what is proved needs no time at all (`SettledUnlessDropped`). A form that is being written at the end of one delay of WifiTask is written by
the end of the next.

`ButtonTask` has time instead of fairness: `Tick` is disabled once the task is `MaxLate` ticks late, and the two bounds are
invariants. `PacketStream`, `LampLink`, `WebPage`, `StatusLed` and `ConfigForm` have no fairness; their runs check safety only.

## Proofs

Eight modules hold theorems, for every number of lamps, levels, networks, forms, tasks, keys, byte widths, lengths of
identifications and queues, and every delay. Every safety property of the passing runs is proved, for sliders set to any byte and whichever accesses to NVS fail.
What is assumed of the constants is named in the module that declares them (`LampPacketAssumption`,
`LC12STaskAssumption`, `PacketStreamAssumption`, `WifiTaskAssumption`, ...); a theorem that needs more says so.

**`LC12STask_proof`**

* `TypeCorrect`: `TypeOK` is inductive.
* `PairedAsStored`, `TransmitsToLearnedLamp`, `RepairsOnlyOnRequest`: from the inductive invariant `PairingInv`, of which what
  relates the task to NVS holds unless `idFailed`, and what says that only a learned lamp is addressed always.
  `PairingStored` alone is not inductive: a start from NVS relies on learn mode being off before it and on during
  the delay, and the addressee of a packet on an ignored identification never having been stored.
* `LevelsKeepRange`: `RangeKept`, from the types alone.
* `OneLampSettings`: with at most one lamp, an ON packet under construction carries the local copy.
  The argument needs that whatever identification is in `strId`, NVS or `mylamp` is that
  lamp's, so that there are no foreign packets.

**`LampLink_proof`**

* `LinkImplementsTask`: with the lamp and the remote around it the task takes no step that `LC12STask` does not
  have, so the theorems above hold on the channel too. `LinkTypeCorrect` goes along with it.
* `LampMirrored` (assuming `OneLamp`, a single identification within reach): `MirrorsLamp` speaks of an empty UART buffer.
  `LinkInv` adds what is true before the buffer is read: while the exchange is `current`, the last packet in it that
  the lamp obeys is the one the lamp shows.

**`PacketStream_proof`**

* `ParserTypeCorrect` and `ParserCollectsFrames`: the parser's buffer is the abstract collector's frame at each state
  of the switch, and every byte maps to a step of the collector or to a stutter. `StreamCollectsFrames` and
  `StreamTypeCorrect` carry them over to the stream.
* `ParserResynchronises`: two frames of undisturbed bytes are enough. After the first byte of a frame the parser skips, is in step or still collects an
  older frame (`Regaining`); that frame ends within this one, and the next finds the parser skipping.
* `NoPhantoms`: no packet is put together from two frames, assuming `Gap >= FrameLen - 1`. The parser is never further off than one byte (`OneBehind`),
  in which case the byte where the end byte is due is the next frame's head byte. The bound is exact: with losses `FrameLen - 2` bytes apart
  TLC finds a phantom packet.

**`Provisioning_proof`**

* `ProvTypeCorrect`: the types of both tasks, the handler and the store, from `ProvTyped`, which adds what the
  queues contain: only "Stop" among the switch requests, only the three modes WifiTask sends to WebTask.
* `SettledUnlessDropped`, for any number of networks and overlapping forms, and whatever fails: `SettledOnStored` holds as long as no mode
  finds WebTask's queue full (`NoModeDropped`). `SettledOnStored` speaks of states at rest. `SettleInv` says what is right
  in the others: the last mode sent is what the radio is in, be it in the queue, in WebTask's hands or already served (`Announced`, `Coming`);
  the station counts as connected only while it runs (`Online`); and unless a read failed, the keys read
  so far are those of NVS, or a form is being written or a request to start over waits (`Current`).
  Whatever overlaps a read of WifiTask is followed by such a request, which is why no failing write and no order of forms can leave it with an old key.
* `SettledAsStored`: no mode is dropped, under `SlackAssumption`, so that the same holds without the condition. The argument is that whenever a mode is to be
  sent there is room for it (`RoomForModes`), for which it takes two places in WebTask's queue and `MaxMissed <= 1`. The latter
  is the assumption on time of the previous section. With `MaxMissed = 2` TLC finds a mode dropped and the property violated.

**`WebPage_proof`**

* `PageTypeCorrect`, and `PageAgreement` for `OneLamp` and queues that hold a message at all, with sliders set to any byte: a slider set to 255 shows as that. The invariant compares not what the page shows but what it will
  have been told once all that is queued is handled (`Shown`) with the local copy as it then is; `OneAtATime` says which of the stages between a command and
  the page's update can be occupied together, and `PairingInv` rules out packets that change the local copy without a report (`ForeignPacket`), with NVS failing too.

**`StatusLed_proof`**

* `LedTypeCorrect`, `LedTruthful`. `LatestHolds` is about the mode posted last (`Latest`): it is true already, or the task that posted it is
  on its way to make it true. Needs nothing beyond the named assumptions; a request dropped by a full queue is excepted by the property itself.

**`ButtonTask_proof`**

* `ButtonTypeCorrect`, `TogglesOncePerPress`, `PressesToggled`, `HeldButtonStepped`. The two bounds in ticks become invariants about the longest time
  to the next poll of X, or to the next step of A, from each place of the loop (`ToX`, `ToA`): time passed and time left together stay within the bound.
  The proof is for all delays that satisfy `ButtonTaskAssumption`, and it is what fixed the bound's first term: a
  contact that bounces for less than the debounce time can still be misread for `Debounce` ticks, hence `Settling`.

**`ConfigForm_proof`**

* `StoreTypeCorrect` and `StoreIsAtomic`: from the inductive invariant `KeyValInv`. Besides the types and that whoever holds the mutex is
  alone, it says that what a task saw of the store in one call of the library (the size of a string, the
  value it set) still holds at the next, which is what the mutex is for and what makes the two reads of `readString`
  one read of the abstract store. A read that fails gives the default, which `AtomicStore` allows for any key (`ReadsAreSteps`): a caller cannot tell it from
  a key that is absent, and neither can the tasks. Each call of the library maps to one step of `AtomicStore`, taking the mutex to none.
* `StoredIdReadsBack`: `stringToID` returns the identification `arrayToString` wrote, for any length and with the
  NUL `readString` leaves at the end; two hex digits give back their byte.

* `FormUsesStore`: every step of the form's handler and of the tasks beside it is one of `KeyValSpec`, which gives `FormTyped` and
  `FormIsAtomic`. The value parsed out of a cut body is one the store may hold, which needs the argument below.
* `FieldsArrive`: `FieldsStored` for any fields, values and encoding, under `ConfigFormAssumption` (each key has a
  name of its own, and neither a name nor an encoded value contains "&" or "="). The first part is about the parser: where the pairs are in the body
  (`PairPlaces`, `PairsInOrder`), that each "&" is one between them (`SeparatorPlaces`), that a name with its "=" is found behind no other
  pair, even if one name is the beginning of another (`NamedInCut`), and that the value found is the beginning of what was sent (`ValueOfCut`).
  The second part is `FormInv`: while a field is written the server's call carries what the body has for it (`InHand`), nobody else
  writes a field (`OthersKeepOff`), and what was stored stays (`StoredInFlash`); a commit of another task between setting
  and committing cannot harm, because the mutex keeps it out and what it commits is what the store holds.
* The body is a concatenation of any number of pairs, defined by recursion (`FlattenSeq`). The induction over it is done with the least number for which a
  statement fails (`LeastNat`, from the well-foundedness of `<`), since the induction theorems of the library take an operator.

Model-checked only: liveness (`PairingCompletes`, `Settles`), which is beyond the proof system.

## Not modelled

* `ConentFile`: static files, pure I/O. Its settings file is used nowhere.
* Failing start of the HTTP server, memory running out, tasks that cannot be created.
* Torn reads of `lcs` and `apinfo` between the server's task and WebTask's loop: the model copies them atomically. A torn
  copy of `lcs` shows in one answer to `/values`, which the page asks for again after a second.
* Formatting of JSON and HTML; the timers of the page.
* Task priorities and stack sizes; pins and UART set-up; sizes of buffers (more than 100 bytes waiting in the UART).
* Whether the answer to the form is sent before WifiTask takes the access point down.
* `RPTimer`, `Button::isReleased` and `setDebounceTime`, which nothing uses.

## Plan

1. Done: the radio task, the parser with its refinement, noise and losses, the link, provisioning, the Control
   page, the status LED, the buttons in time, the store with its refinement, the form, the text of identifications.
2. Done: proofs of all safety properties.
3. Open: that `Provisioning` gets from `KeyVal` by way of `AtomicStore` what its `cfg` assumes of NVS.

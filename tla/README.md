# Halla: a verification development in TLA+

Halla is a voice chat client (C++/Qt, `src/src`) for a relay server that is not part of the
repository. This directory holds TLA+ models of the parts of the client whose order of events
is hard to test, the TLC runs that check them, and theorems about them that TLAPS proves for
every value of the constants. `PROJECT.json` ties every definition to the lines it translates
and lists the components, the hazards, the runs and the theorems.

All paths below are relative to `src/src`, but for `docs/`.

## 1. The system

### Components

| component | state | operations | models |
|---|---|---|---|
| E2EE group keys, `net/NetSession.cpp` 2078-2560 | `m_channelKeys`, `m_channelEpochs`, the view of the server, whisper targets | bootstrap, mint, share, apply, forget, the handlers of `welcome`, `user_*`, `chan_*`, `e2e_key`, `e2e_key_request` | `GroupKeys` |
| key requests and housekeeping, `NetSession.cpp` 540-613, 2287-2302, 2597-2680 | the limiter's clock, tries, planned checks, queued chats | the 2 s housekeeper, the answer to a question, the recovery from voice that cannot be opened | `KeyRecovery` |
| texts that wait for keys, `NetSession.cpp` 713-772, 983-1026, 2373-2390, 2546-2748 | `m_pendingChats`, `m_pendingOffline`, `m_pendingOfflineInbox`, the identity directory | send, queue, flush, time limits | `PendingTexts` |
| voice capture, `net/VoiceEngine.cpp` 367-387, 602-1037, `audio/EchoGuard.cpp` | the gate, its closing ramp, the frames held back, the echo guard's counters | the tick of the microphone, the keys, the mute, the options | `VoiceCapture` |
| voice playback, `VoiceEngine.cpp` 147-220, 389-453, 1115-1304 | a jitter queue per speaker, the adaptive target, the queues of streams and plugin sounds | packets, departures, the playback tick, the adaptation | `JitterBuffer` |
| hold keys, `app/MainWindow.cpp` 1923-2113, 2367-2599, `gui/ServerTab.cpp` 1479-1563 | which key is held, which tab was told | hotkey messages, the 50 ms poll, tabs, options | `HoldKeys` |
| screen sharing over WebRTC, `webrtc/HallaWebRtcSession.cpp` | the table of peers, queued ICE candidates, the newest frame of each screen | signals, closing, the observers of the signaling thread, the decoder | `ScreenPeers`, promises in `PeerMailbox` |
| watching and sharing, `app/MainWindow.cpp` 1140-1260, 1500-1660, 2600-3204 | windows, watchdogs, the pending watch, tabs, the session's connection | clicks, polls, errors, the password dialog, tabs that come and go | `StreamWatch` |
| add-ons, `plugins/PluginManager.cpp` | records, libraries, callbacks, queued tasks, directories on the disk | start, load, unload, install, update, remove | `Addons` |
| handshake, the rest of the dispatch, UDP transport (`NetSession`) | the session's flags, `ServerData`, sequence numbers | TLS, the identity challenge, about forty messages | what touches keys and texts only |

The remaining components are in section 6.

### How they interact

The GUI thread runs NetSession, the voice engine and the window: a handler, a timer or a slot
runs to its end before the next, except that a modal dialog runs an event loop of its own, in
which timers and messages go on. What interleaves is (1) clients, through the relay server:
every client sees the same changes of membership at its own time, and the envelopes of several
key minters cross; (2) timers of one client (housekeeper, capture tick, poll, watchdogs, release
timers) with the user and with messages; (3) the operating system's key state and its queued
hotkey messages; (4) the clocks of the clients, from which epochs are taken; (5) the threads of
WebRTC: observers run on its signaling thread, take `peersMutex` and touch the same table as the
GUI thread, and the decoder delivers frames on a thread of its own (the frames shown and the
replies sent go through the GUI's queue); (6) the threads of add-ons, which post tasks to the GUI;
(7) the end of the process in the middle of a series of file operations.

`NetSession` calls `VoiceEngine` for arriving voice and takes its frames; `ServerTab` owns one
session and one engine; `MainWindow` holds the tabs, passes keys to the tab in front, and owns
the one WebRTC session, which works for the connection of one tab at a time. The whisper of a
tab changes the session's targets and the engine's gate. A key that `GroupKeys` stores frees
texts of `PendingTexts` and ends the questions of `KeyRecovery`.

### What makes each part correct

* Group keys: members of a channel end up with a common key; somebody who left does not; no
  late or repeated envelope takes a client back to an older key; nobody is left
  without a key.
* Recovery: a client that lacks a key keeps asking, within bounds, and a split between two that talk ends.
* Waiting texts: every text has one fate, a key frees what waits for it, nothing waits for ever.
* Capture: what is sent follows the keys and the mute; an echo is caught within a known number
  of frames, speech passes within a known number, and its held beginning arrives whole.
* Playback: nothing that may play waits while the device has room, bursts play whole, a voice that
  falls silent gets its buffer back, and latency taken on in a bad moment is given back.
* Hold keys: what an engine believes about a key becomes what the key is.
* Screen peers: no thread uses a freed context, none is forgotten, the newest frame of an open
  peer is shown and none of a closed one: together the threads are an atomic table of mailboxes.
* Watching: a window that waits ends its waiting, a request goes to the server the user clicked
  in, and the end of a tab leaves nobody with its connection.
* Add-ons: nothing outlives the library that registered it, and no installation destroys the last
  complete copy.

The hazards behind these properties, each at its line, are in `PROJECT.json`.

## 2. Modules

    GroupKeys        <- MCGroupKeys        GroupKeys_proofs
    KeyRecovery      <- MCKeyRecovery      PendingTexts_proofs (last section)
    PendingTexts     <- MCPendingTexts     PendingTexts_proofs
    VoiceCapture     <- MCVoiceCapture     VoiceCapture_proofs
    JitterBuffer     <- MCJitterBuffer     JitterBuffer_proofs
    HoldKeys         <- MCHoldKeys         HoldKeys_proofs
    ScreenPeers      <- MCScreenPeers      ScreenPeers_proofs    implements PeerMailbox
    StreamWatch      <- MCStreamWatch      StreamWatch_proofs
    Addons           <- MCAddons           Addons_proofs

An `MC` module only gives values to constants that a cfg cannot write.

### GroupKeys

One action per message handler, one per server event, `Housekeeping` for a planned check and
`ForgetStaleKey` for the recovery. A handler of the code calls several functions that each
rewrite the tables and send envelopes; these are operators on a `Local` record (tables, minted
keys, envelopes so far), applied in the order of the calls, and the action commits the result.
`inbox[c]` is the TCP stream from the server to a client; `net` is the server's own membership.
A key is a name (`by`, `n`); `minted` remembers what it was made for and with which epoch.

Abstractions. Every directory entry is valid (recovery with an entry that is not is in
KeyRecovery and PendingTexts). A send and the relay's forwarding of it are one step. The limiter of questions is
a choice between asking and staying silent, and a client does not ask again before its question
and the answers to it have been handled: the code's limiter is a time (2.5 s,
`NetSession.cpp:2297`), so where a delivery takes longer than that, the code's repeated question is
not in the model. The users a `chan_update` repeats equal the view
under FIFO delivery and are left out. Session identifiers are not reused. The initial state is a
server with settled clients.

History variables, for the properties: `raced` says that an event came before the last one was
handled, `confided` whom somebody has whispered to. `passed` is, for each scope, the key that was
last passed on to all its members (by `e2eeEnsureComponentKey` or a rotation; an answer to one
client does not count). `fresh` is the key a member minted last for the scope, or none where a
stranger minted, or where the channels changed and nobody was there to mint. `declined` are the
keys offered to a client that refused the envelope (an epoch too far ahead of its clock, a channel
it does not know), and those a client passed on itself without speaking under them everywhere:
an arriving leader that has keys for all channels of a linked component passes on the key of the
first channel (`NetSession.cpp:2200`), but speaks under its own channel's.

### KeyRecovery

Time in seconds; a message is handled in the second it is sent; membership is fixed and nobody
mints, so a key is its epoch. Counters of elapsed time saturate where the code stops telling
their values apart, so behaviours are unbounded and liveness is meaningful. `air[t]` is the key
the talker's voice of the present second is sealed with, which stays under way when the talker
forgets the key. `Reachable` are the clients whose entry the others have verified.

### PendingTexts

One action per function that makes or settles a text; the three queues are one set of entries,
since the properties are about the fate of a text and no text's fate depends on the one before it.
`fate[t]` is what became of the last text of that name, a history variable. `FateOf` is what the
queues' own functions decide: `sendChat`, `offlineSend` and `e2eeDeliverOfflineMsg`. `Flush` is
`e2eeFlushPending`, conjoined with the step that causes it and evaluated in the state after it.
A session object connects once, so the module follows one connection to its end.

Abstractions. Ages count rounds of the housekeeper. Whether a membership change makes a key come
is left open here (GroupKeys decides it): keys come and everything is flushed, or neither. A
user's entry is absent, good, bare (no key) or wrong (a key of another length than 32 bytes, or one
that does not verify), since `e2eeDeliverOfflineMsg` treats the last two differently. A letter is sound if it
opens with its sender's key. Letters that are not encrypted are shown at once like sound ones.
The questions for group keys are in KeyRecovery.

### VoiceCapture

`captureTick` is `StartLoop` followed by one `CaptureFrame` per 20 ms frame, or `TickMuted`, or
`TickIdle`; the other actions wait for the loop to end, as they do on the GUI thread. What a frame sounds like is chosen when
it is processed: loud, like the playout (`Likeness`), the playout silent. `echo` is EchoGuard
with its frame counters made relative, so that they are finite. `NoteCapture` follows
`noteCapture`, split into the open gate (`TestOpen`) and the closed one (`TestClosed`).
`notePlayout`'s test during a validation is an action because it uses up the test's date; its
result is thrown away by the code. Timers of earlier releases are counted in `oldTimers`: the
code recognises them by their generation. `sent` is the number of frames the step sends.

The 500 ms of silence that end a transmission, and the cue's hysteresis, may or may not have
passed at a quiet frame. Left out: the reopening of the device and its watchdog, the recording,
the plug-ins, the opening ramp, the processing chain.

### HoldKeys

The Windows build: a registered push-to-talk key posts at most one message per press
(`MOD_NOREPEAT`), a 50 ms timer reads the state of all keys at once. `appHeld` is the window's
one flag, `held` the engines that believe the key is down, `due` those whose release delay runs.
`whispering` joins the tab's hold and the engine's flag, which the tab changes together.
`missed`, `leftTalking` and `leftWhispering` are history variables. Left out: the mouse buttons,
which the poll treats as keys, the mute actions, and the shortcuts of the Linux build, which
toggle.

### JitterBuffer

A queue is its length; `queue[v]` is `Absent` when `m_remoteQueues` has no entry, which matters
because the tick only visits entries. `dry` and `silence` are the times since the recorded
moments, in frames of 20 ms, up to one beyond their limits. `trouble` stands for the four
counters: whether one differs from its value at the last adaptation. `BeginTick` is
`playbackTick` up to its loop, `Round` one turn of the loop, `DropAll` the tick with the
loudspeakers off; other actions and the clock wait for the end of a tick, which runs on their
thread. A round is written as sets: the voices that are let go, primed and played depend on the
state at its beginning, except that a voice let go raises the target for the later ones, which
`Primes` counts. `StateChanged(gone)` removes any users, also some whose late packets come
afterwards. The device is idle when its buffer is empty. Left out: the talking rings
(`sweepRemoteTalking`), the recording, packets that leave the queues alone.

### ScreenPeers and PeerMailbox

`gui` and `sig` say what the GUI thread and the signaling thread are at; a handler is cut where
it takes or releases `peersMutex` and where it calls the library. A call of the GUI thread into
the library runs on the signaling thread and therefore waits for `sig` to be idle; so does
closing, which is why a callback's context cannot be freed under it. `owner` says which
contexts exist, so that a freed one can be told from one used again. `ops` are the operations the
library works at; they succeed or fail in any order. Contexts and users are symmetric.

`PeerMailbox` is the abstract specification: a set of open peers and a mailbox for each one's
newest frame, every change one step. `IsMailbox` is the refinement. A peer counts as open until
its context is closed or its frame dropped, and being begun anew on the other thread meanwhile
does not close it.

Left out: capture, encoders and outgoing tracks, the choice of the connection a reply goes
through (StreamWatch has `m_net` and the bindings), the legacy JPEG share's own path.

### StreamWatch

Everything runs on the GUI thread; the hard part is that one set of windows, watchdogs and
bindings, one pending watch and one WebRTC session serve all tabs, and that a stream is known by
a user's identifier, which two servers may both use. `link` is the session's `m_net`, `binding`
the connection a peer's messages go through, `asked` what the servers were told to send. While a
dialog is open, the user cannot click, but timers, messages and the end of tabs go on: `asking` is
the tab a password is asked for, `choosing` the one a share dialog was opened in, and either
becomes `"gone"` when the tab is deleted under the dialog. `AnswerShareDialog` then hands the
session the deleted connection (`link = "gone"`), as `MainWindow.cpp:2683` does. A password dialog may
come over a share dialog; the inner one ends first. `PeersClosed` are the outcomes of closing
all peers: those that had a context lose their binding, and which had one is left open.

Abstractions. The preview of one's own screen and the sending side of the old share are left out.
`m_peerNet`, a guarded pointer, is null from the step that ends a tab. The code calls a tab that
was deleted during the password dialog, and reads a deleted connection after the share dialog;
what else follows from that is undefined and left out. One
password dialog at a time. The watchdog and the end of the poll come after any time.

### Addons

`dir` and `backup` are an add-on's directory and its `.backup`: nothing, torn (no readable
manifest or no library), short (other files missing) or whole. `installPackage` is a step per
file operation, each of which may fail; the process may `Stop` between any two. `records` are
`m_records`; a record's token outdates queued tasks, as in `post_to_ui`. `born` (a record's first
token) and `life` (how often the record's library was initialised) are history.
Records are made in the order of the directories' names, `<id>` before `<id>.backup`, which is why
add-ons are numbers. The overlay add-on only takes a token. Tasks are posted while the library is
loaded (`PostTask`), and also in the middle of an unload: `unload` raises the token before it calls
`shutdown()` (`PluginManager.cpp:1123-1125`), so what `shutdown()` or the add-on's threads post then
carries the new token. These are `LateTasks`, of which every step that unloads a record may `Post`
some. Afterwards the library is gone: `docs/PLUGINS.md` requires an add-on to stop its work when it is
shut down. Callbacks
change on the GUI thread. A removal is one step with what it does in memory: nothing runs between
its file operations, and its failure is a choice of what remains. The catalog, configurations,
the state published to add-ons and the effects' signal processing are left out.

## 3. Runs

| run | instance | shows |
|---|---|---|
| `group_keys_serial` | 3 sessions, 2 channels, 4 events one at a time, one clock ahead and out of reach of `MaxAhead`; 665 000 states | `LastKeyIsHeard`, `OutsiderIsDeaf`, `NobodyStaysMute`: joins, leaves, moves, links, removals and whispers, each handled before the next, leave a common key wherever clocks, ties and refusals allow one, and nobody outside with a key that was minted for others |
| `group_keys_racing` | 2 sessions, 3 events at any time, one recovery; 854 000 states | `KeysKeepTheirEpoch`, `NeverAnOlderKey` while messages cross |
| `key_recovery` | 2 clients that both talk, 2 epochs, 2 chats; 937 000 states | `KeepsAsking`, `ServerScopeConverges`, and `SplitEnds`: recoveries that cross end with both heard, or with both keys forgotten |
| `pending_texts` | 1 other user, 2 channels, 2 texts at a time; 64 000 states | `TextsHaveOneFate`, `KeysFreeTexts`, and `TextsSettle`: no text waits for ever |
| `voice_capture` | frame counts 8/9/8, two frames per delivery, one outrun timer, one change of options; 251 000 states | the six properties of the gate and the guard |
| `jitter_buffer` | 2 voices, 1 stream, plugin sounds, a device of 2 frames; 267 000 states | the six properties of the playback, three of them liveness |
| `hold_keys` | 2 tabs, 3 keys, one message waiting; 228 000 states | what an engine believes follows the keys |
| `hold_switch` (violated) | the same | the release of the key goes to another tab |
| `screen_peers` | 2 peers, 3 contexts, the two threads and the decoder; 4.3 million states | `IsMailbox` and the five invariants of contexts, frames and sound |
| `screen_block` (violated) | the same | both threads can wait for each other |
| `stream_watch` | 2 servers with a stream of the same identifier, one in JPEG mode, 2 channels; 2.2 million states | waiting windows have a watchdog, pending watches a poll, requests follow clicks, the end of a tab leaves nobody with its connection |
| `addons` | the radio effect and one more add-on, one fault, one queued task; 1.0 million states | `NothingOutlivesItsAddon`, `TaskKnowsItsInstance`, `LastCopyIsKept` |

### Why the bounds are enough

* GroupKeys: a split or a leak needs a minter, a member and a third party, so three sessions;
  two channels give links and moves. In the serial run the constraint `OneAtATime` cuts off events
  that come before the last one was handled. `MaxNow` lets two mintings fall in one millisecond or in
  different ones. Session 3's clock is two ahead of the others and `MaxAhead` is 1, so there are a
  lagging minter and epochs that the others refuse. The
  iteration order of `QSet` is fixed per session (`MCFirstOf`), up for one and down for the other.
* KeyRecovery: two clients hold at most two keys of a scope, and keys of different scopes are
  never compared, so two epochs give every order of own and other; both talk, so that each can lose
  its key to the other's voice while its own question, or the answer to it, is under way; two chats
  suffice to displace a planned check. `MaxUnasked` is 17 s: the slow interval of 15 s, exceeded, on
  the housekeeper's grid of 2 s. TLC finds 16 s violated.
* PendingTexts: texts meet only in a flush and in a round of the housekeeper, so two are enough;
  two users would only double the directory. The code's lives of five and seven rounds become
  1 and 2, which keep one round in which a chat is too old and a letter is not.
* VoiceCapture: the code's 20/25/20 frames are replaced by 8/9/8, which keep their order, the
  test period of 3, the streak of 2 and the ramp of 3. (The code's own numbers also pass, with
  1.4 million states; the proofs hold for all.)
* HoldKeys: two tabs are the window's and one that was left; two whisper keys, one of which
  answers the last whisper, are enough for one to be removed while the other is held.
* JitterBuffer: two voices, since one raises the target that the other waits for and one can keep
  the device busy while the other is silent; the target ranges over 1..2 and starts high, the
  ceiling of 2 and the cap of 3 let a queue be shed and overflow, a device of 2 frames gives ticks
  of no, one and two rounds. The code's 2/4/8, 20, 10, 25 and 12 keep this order.
* ScreenPeers: a context in the table for each of two peers and one that is being closed; one
  kept candidate reaches the limit; two deliveries, since one may be outdated by a closed peer
  while its successor's waits; `MaxOps` lets one operation be under way when another begins.
* StreamWatch: the tab in front, another one, and a collision of identifiers between them; a
  poll that comes once before the last.
* Addons: the built-in effect with its package and one add-on without; tokens up to 6 leave room
  for a start, a reinstallation and a replacement; one fault per behaviour, at any step.

Deadlock is not checked where the model stops by itself: GroupKeys, whose events are bounded,
ScreenPeers, whose deliveries and operations are bounded, and PendingTexts, whose session ends.

### Fairness

GroupKeys, VoiceCapture, ScreenPeers, StreamWatch and Addons have only safety properties and no
fairness. PendingTexts assumes that the housekeeper's timer goes on while the session is online,
and nothing of keys, identities or users. JitterBuffer assumes that the two timers fire and time
passes however often they do (strong fairness, since a tick holds the clock for its length);
packets, users and plugins may do anything or nothing. KeyRecovery assumes that time passes, the
housekeeper's timer runs, messages arrive, holders answer and a client that cannot open voice
counts to fifteen (the talkers keep talking); nobody is obliged to chat. HoldKeys assumes that
the poll's timer and the engines' release timers fire; nobody is obliged to press or release a
key, and `KeyUpSilences` only speaks of keys that stay up.

### What the violated runs say

Each is a disagreement of the code with a comment of the repository, quoted under `findings`: the
release of the push-to-talk key is told to the tab in front, not to the one that was told of the
press; `ensurePeer` holds `peersMutex` during a call that waits for the signaling thread, which
the comment in `closePeer` says must not happen.

### Other observations

Met while modelling; the properties are stated so that they do not deny them.

* GroupKeys: a client that leaves rotates the key of the channel it left if its identity is the
  smallest there, since `e2eeIsMasterOfComponent` never asks whether it is a member (the comment
  at `NetSession.cpp:2464` speaks of those who stay). An unlinked channel that is empty keeps the
  old key for a later member; the rotation after a departure is lost when its epoch ties with or
  lags behind the old one; everyone leads a component it has nobody in; a whisper target that
  moves does not get the key again; removing the middle channel of three linked ones separates
  the others without a rotation.
* KeyRecovery: when two talkers forget at once, nobody is left to answer and both stay mute until
  a membership event (the second outcome of `SplitEnds`; `onUdpReadyRead` forgets a key so that the
  talker's comes). `SplitEnds` is a property of two clients. With three, a split need not end: of a
  talker with an old key the listeners never hear, since they give each other the newer key back;
  if all listeners forget at once, the channel goes back to the old key; and with two talkers two
  keys can chase each other for ever, a listener forgetting the newer and being handed the older
  while a talker changes the other way. The planned second check of the voice channel, 2000 ms after
  the first, is swallowed by the limiter of 2500 ms; a missing key of scope 0 takes the limiter's
  turn and can keep the voice channel from being asked for; a chat's question can displace the
  check of scope 0. The number of tries falls only through a recovery.
* PendingTexts: a `user_joined` with a valid entry does not flush, although the comment at
  `NetSession.cpp:2555` names it ("user online"), so an offline message can expire beside the key
  it waits for. Moving, without leading it, into a channel whose key is known does not flush
  either. Every flush starts the time of chats and offline messages anew, so keys that come often
  enough keep them waiting for ever (`Restart` in `TextsSettle`). A chat goes to the channel its
  author is in when the key comes. An entry of the view that does not verify is tried instead of
  the directory's good one (`InboxFate`). What waits at a disconnection is dropped silently.
* VoiceCapture: after a hiccup of four frames or more, frames of a closed gate are sent; a change
  of the options in the middle of a validation leaves frames in the list, which a later opening
  sends (`mixed` excepts this from `BackfillIsTheUtterance`).
* HoldKeys: clearing the push-to-talk key while it is held leaves the engine held
  (`registerPttHotkey` does not release, `unregisterPttHotkey` has no caller); with two whisper
  keys held, releasing one ends the whisper; a tab opened or chosen during a press is not told.
* JitterBuffer: a speaker that leaves while primed stays in `m_voicePrimed`, where no tick finds it
  any more; every idle tick then counts an underrun, so that the target stays at its maximum and
  `LatencyDecays` needs its premise. The same happens for the grace of 300 ms at the end of every
  utterance that leaves the device idle, so a pause raises the target like a bad network does. An
  utterance shorter than the target stays in the queue until the next one.
* ScreenPeers: an answer that is created after its peer was closed, and an offer or an answer that
  comes late, make a peer again that nobody asked for; a candidate pushed after the flush it missed
  stays in the list; a repeated track leaves two video sinks; peers are known by the user's
  identifier without its server; a watch request is answered also when nothing is broadcast.
* StreamWatch: the button to try again asks the server of the tab in front, and the old watch is
  never stopped; with no connection (a tab in the background was closed) it does nothing and says
  so nowhere; it stays, dead, over a picture that comes after the error. Identical identifiers on
  two servers share one window. Closing any tab deletes the windows of all without telling their
  servers, and lifts the share button while a broadcast of another tab goes on. `detachFromNet`
  returns early when another tab is in front, so a broadcast outlives its tab, although the
  comment at `MainWindow.cpp:1585` says it is ended with it. Sharing again while broadcasting
  announces nothing; the announcement of the end goes to the server of the tab in front. A
  password typed after the poll's six seconds moves the user to channel 0. An error gives up the
  pending watch whatever tab it comes from. A share dialog accepted after its tab was closed hands
  the session a deleted connection (the exception of `LinkIsOpen`), to which a retry then binds a
  peer; accepted with another tab in front, it shares in the tab it was opened in, although the
  comment at `MainWindow.cpp:2681` speaks of the active tab. JPEG frames that cannot be decoded cancel the watchdog.
* Addons: a failed update leaves no record until the next start, and of the radio effect not even
  the built-in one. The scan after an installation lists add-ons whose removal or update failed as
  enabled but unloaded; a failed removal leaves its record so, too. After an end of the process
  during the copy, a short directory counts as installed and the whole backup is ignored, then
  deleted by the next installation (the exception of `LastCopyIsKept`). Removing the radio package
  gives the built-in effect the package's activation, not the one it had before it was replaced,
  as the comment at `PluginManager.cpp:1466` says. A task of a record that is gone can run in a
  new one whose token has come to the same number, at the latest in the radio effect's after the
  removal of its package (the condition on `born` in `TaskKnowsItsInstance`). A task posted during an
  unload gets the token that is to invalidate the tasks of that instance (the comment at
  `PluginManager.cpp:1123`), and runs in the next instance of the record (the exception of the
  property, which TLC finds to be reached).

## 4. Proofs

All theorems hold for every value of the constants that satisfies the named assumptions, which
TLC evaluates on the models' values.

* `GroupKeys_proofs`. A handler's operators keep a record *good*: its tables, minted keys and
  envelopes have their types and every key carries the epoch it was minted with (`Good(L)`).
  `Climbs(L, M)` says that `M` only extends the minted keys of `L` and replaces keys by larger
  epochs. Each operator preserves the one and climbs; each action then preserves
  `IInv == TypeOK /\ KeysKeepTheirEpoch`. `KeysKeepTheirEpoch` alone is not inductive: an envelope
  must be known to carry a minted key, and minted keys never to change. From this: `TypeCorrect`, `EpochsAreTrue`,
  `KeysClimb` (the action property `NeverAnOlderKey`). `FiniteMax` is that a finite set of naturals
  has a maximum, which a minting needs for its epoch to exist.

  The three properties of the serial run speak of states in which everything has been handled; they
  need an invariant that says what the messages still under way add up to. It is stated for calm
  behaviours (`Calm`: no event before the last one was handled, nobody has forgotten a key) and has
  four parts.
  (1) `Orderly`: the server is ahead of each client by the news of one event at most, and behind
  that news a client's inbox holds only keys and questions (`Aligned`), keys for components of the
  server's present topology. So a handler's decision, taken on a client's view, is the decision on
  the server's membership.
  (2) `Turn`: what every handler does to its tables and sends in one turn, proved for each of the
  eight handlers from its chain of operators. It is what the other parts use of the handlers.
  (3) `AllHeard`: for each inhabited component, either some key has been passed on and every member
  knows it, has declined it or has it in its inbox, or somebody is still to handle the news that
  will make it pass one on. With an empty inbox this is `LastKeyIsHeard`; it is not inductive
  without (1), since a stale view would choose another leader, or none.
  (4) `FreshSafe`: a component's fresh key is held, and is on its way, only inside the component and
  among whisper targets, unless somebody is about to mint a new one; `ServerKeyed`: whoever is online
  has the server's key, has it in its inbox, or its leader is still to greet it.
  `OutsiderIsDeaf` follows from the first, `NobodyStaysMute` from the second with (3). They hold for
  any number of sessions and channels, any topology, clocks, identities and iteration order of the sets.
  Behaviours that are not calm have only the properties of the racing run: without the calm, two
  crossing events already leave somebody without the last key passed on (`LastKeyIsHeard` fails),
  three (a move, a link and its removal) leave somebody outside a channel with the key its member
  speaks under (`OutsiderIsDeaf` fails), and nothing is claimed of `NobodyStaysMute`.
* `VoiceCapture_proofs`. Lemmas give what each of EchoGuard's operators does to each counter. The
  invariant `IInv` says that the histories are bounded by those counters: echoes in a row by the
  time since the last test, dominated frames by the streak and that time, speech not yet heard by
  the time spent in the block and in the validation, frames held back by the validation's age, and
  that the list holds just these. None of the properties is inductive without it, since a frame
  that extends a history must be seen to bring the guard nearer to its decision. It
  implies all the invariants of the run, and that an open gate has no closing ramp left
  (`SpeechIsWhole`, not a property of the run), for validations, blocks, lists and deliveries of any length.
  `BackfillIsWhole` assumes `PendingCap >= ValidateFrames`, which the code's constants satisfy.
* `HoldKeys_proofs`. `IInv` says that a held engine has the window's word, a running timer or was
  left; from it, the type invariant and the two action properties about talking. `WhisperSettles`
  is `PollSettlesWhisper` for any list of whisper keys: a whisper has a cause in the window
  (`WhisperHasCause`), and a poll that finds every key up has taken all causes away.
* `JitterBuffer_proofs`. The type invariant is inductive by itself; its last conjunct, that a tick in
  progress fills exactly the room of the device, is what makes a loop that ends early one that
  found nothing to play. From it and the lemma that only rounds happen inside a tick follow three
  action properties, for all bounds that keep the code's order.
* `PendingTexts_proofs`. The queues and the table of fates must agree in both directions
  (`Waits`), and no text may have two entries (`Single`), or a flush could not give each text the
  fate of its entry: the two directions are inductive only together. `FlushKeeps` shows once that
  a flush keeps this and that whatever it leaves still waits for something missing; `StepKinds`
  that a step flushes or brings neither key nor known identity. From these `OneFate` and
  `KeysFree`, for any users, channels, texts and limits of time.
  The last section proves `KeepsAsking` of KeyRecovery (`KeyIsAskedFor`), which the module
  extends too, and its types (`RecoveryTyped`). `Patient` relates a client's wait to the limiter's clock and to the housekeeper's next
  round: the wait is no longer than the time since the last question, but for two seconds that the
  one planned check of scope 0 can cost, and those only while no try was counted. Nothing else
  displaces the question for the voice key, since `Served` says that nobody lacks the server's key
  after the first second; that needs somebody who answers (`Others` is not empty, `Newcomer` is in
  `Reachable`). The bound for any number of clients is 17 s, the slow interval of 15 s, exceeded,
  on a grid of 2 s. It is the bound of the run, where TLC finds it reached when both talkers
  forget their keys.
* `ScreenPeers_proofs`. `IInv` adds to the run's invariants what each thread knows at each of its
  steps: the lock is held exactly during a creation, a context being closed is no longer in the
  table, a callback's user still has a context since closing one waits for the callback, the audio
  device is only stopped when no context is left, every mark has its delivery. With it each of
  the steps of the two threads maps to a step of `PeerMailbox` or to none (`MailboxStep`), which
  gives the refinement `Implements`, and the five invariants are conjuncts.
* `StreamWatch_proofs`. The invariants of the run are inductive together with the types and the
  facts that the tab of a pending watch is open and that of a share dialog open or `"gone"`
  (`ChoosingShape`); `RequestsFollowClicks` follows from that fact and a
  look at each action that asks.
* `Addons_proofs`. `RecordsSound` says what records may be and that first tokens are used up,
  `InstallOK` what the disk looks like at each step of an installation (nothing where a copy
  begins, nothing complete while it is made or undone, a complete copy when the backup goes),
  `TasksFit` how a queued task's token relates to the record it came from: a task of a running
  instance is outdated by its unload, one posted during an unload by the unload after. `LastCopyIsKept` needs
  the second, `TaskKnowsItsInstance` the third, which in turn needs that no record gets a first
  token again (`RecordsSound`).

`RampNeverEatsSpeech` and the type invariant of every module (`RecoveryTypeOK` in KeyRecovery) are proved and therefore not among the
properties of the runs.

Only model-checked: liveness (KeyRecovery, JitterBuffer, `TextsSettle`, `KeyUpSilences`), which is
out of the prover's reach. Every invariant and every action property without fairness that a run
checks is also proved.

## 5. How to run

    tlc -workers 2 -config MCVoiceCapture.cfg MCVoiceCapture
    tlapm VoiceCapture_proofs.tla

Runs marked "violated" are expected to end with a counterexample.

## 6. Not modelled, and why

* Connection and handshake, permissions, groups, bans, files (`NetSession`): a session object
  connects once and then walks a straight line of checks; what it copies from the server is
  displayed and not acted upon. An error carries no number of its request, and the code guesses the
  pending move it belongs to; no property of the guess holds.
* The legacy screen share (`NetSession.cpp` 614-678 and the sending side in `MainWindow`): a table of incomplete frames with
  two limits, for servers without WebRTC; a lost frame is a still picture.
* The voice channel's registration and sequence numbers: repeated by a timer, without a state that
  another part depends on.
* The rest of the voice engine: the watchdog that reopens a device, the recording, the rings of
  talking users, spatial sound, plug-in processing: they read the sound and do not steer it.
* Codecs and device drivers (`webrtc/MediaFoundationH264.cpp`, `PulseLoopbackAudio.cpp`,
  `X11ScreenCapturer.cpp`), whose state is the operating system's; the capture and outgoing tracks
  that only hand their frames on.
* Signal processing, vendored (`audio/rnnoise`, about a fifth of all lines, tables mostly) or not.
* Cryptography, which the models take by its contract: only the addressee opens an envelope, and
  only unaltered. Identities and the secure store are sequential input and output.
* Badges and group icons: caches of pictures with one download at a time. The updater: one download
  behind a dialog.
* Dialogs, the tree, theme, sounds, speech, start-up: presentation without protocol state.
* The plug-in SDK, the official add-on and the examples: an interface that `Addons` models from the
  client's side.
* Of hold keys: the mouse buttons, which the poll treats as keys, the mute actions, and the toggling
  shortcuts of the Linux build, which hold nothing.

# A verification project for HoverNet's authoritative race server

HoverNet runs its online races on a server. A client sends only the controls it holds down; the server simulates every tick, sends the controls it used and a hash of the state to everybody, and announces the result. This directory holds TLA+ models of that server and of the client that follows it, the configurations TLC checks them with, and proofs checked by TLAPS.

All paths below are relative to the repository. The code modelled is in `src/NetTarget/Authority` (no sockets and no clock of its own: every call gets the time) and in `src/NetTarget/LinuxClient`: the loop of `AuthServer.cpp`, the connection of `AuthConnection.cpp`, the recording of `ReplayRecorder.h`, and `stepAuth` of `Track3DViewer.cpp`.

- [1. The system](#1-the-system)
- [2. Modules](#2-modules)
- [3. What the runs check](#3-what-the-runs-check)
- [4. What is proved](#4-what-is-proved)
- [5. Where the code and its documentation disagree](#5-where-the-code-and-its-documentation-disagree)
- [6. What is not modelled](#6-what-is-not-modelled)
- [7. Plan](#7-plan)

## 1. The system

The server is one process with one thread: a loop reads every socket, hands the bytes to the *core* (a lobby, or a single race host), calls `Advance(now)`, writes what the core wants sent, and sleeps 2 ms. Concurrency is therefore the interleaving of frames from several peers with each other and with `Advance`, plus a signal handler. What makes the server hard is that a peer may vanish and come back at any of these points, that several clocks run over the same objects, and that what it writes to disk is written in several steps. A client is one loop as well; what makes it hard is that the frames it follows may be cut off, overtaken by a snapshot, or go on over another connection.

### Components

Those in bold are modelled, at least in part.

| component | state | operations | what makes it correct |
| --- | --- | --- | --- |
| **Authoritative race** (`AuthoritativeRace.cpp`) | input queues, history, checkpoints, laps, events | `Start`, `SubmitInput`, `AdvanceTick`, `Results` | each tick is simulated once with the newest input each player sent for it in time; nothing is rewritten; laps, end and ranking follow |
| **Race host** (`RaceHost.cpp`) | connections, slots, tokens, host, clock, keyframes | `Connect`, `Receive` (Hello, StartRace, Resume, Spectate, Input, SnapshotRequest, ...), `Disconnect`, `Advance` | one driver per slot; a race starts whole; every peer's world stays in step; spectators stay behind; the Result is last |
| **Lobby server** (`LobbyServer.cpp`) | connections, races, the drain | `Connect`, `Receive` (Hello, Host, Join, Spectate, Resume, forwarded frames), `Disconnect`, `Advance` | the lobby and its races agree on who is where; nobody is thrown out; each race is saved once; places are given back |
| **Socket loop** (`AuthServer.cpp`) | sockets, their first bytes, transport and pending output | `PumpSockets`, the finished callback, the drain | both directions are carried in order; a socket ends with its connection, after its last words; what waits is bounded by what is said; places are given back |
| **Predicting client** (`PredictingClient.cpp`, `stepAuth` in `Track3DViewer.cpp`, `ReplayRecorder.h`) | confirmed and predicted world, snapshot chunks, the recording, the way back | `OnTick`, `OnSnapshot`, `Predict`, one pass of the game | the confirmed world is the server's; a prediction starts from it; a saved replay is the whole race; a client that lost step finds it again |
| **Online client** (`AuthConnection.cpp`, `OnlineLobby.cpp`, `AuthBot.cpp`) | the connection, what waits for its keys | `Connect`, `Send`, `Pump` | nothing sent is lost or overtaken; it comes back to the same slot |
| **League** (`League.cpp`) | rows, duels per day, an append-only file | `Record`, `Data`, reading the file back | a restart reads back what was written; a pair scores at most three duels a day |
| **Moderation** (`Moderation.cpp`) | bans, mutes, the hash-chained log | `Record`, `Verify`, `Purge`, the console | while writes succeed the chain verifies, after any restart and purge; it shows what a process lost between two of its lines |
| **Replay store** (`ReplayStoreDir.cpp`) | an index of a directory | `Refresh`, `List`, `Read`, `Prune`, `Records`, `RecordBreaks` | what is listed is what is on disk; the newest are kept; the two lists of records agree |
| **Secure channel** (`SecureChannel.cpp`) | keys, record counters, inboxes | handshake, `Seal`, `Open` | bytes arrive once, in order, however reads cut them; no number is used twice |
| **Frame parser** (`Protocol3.cpp`) | a buffer | `Feed`, `Next` | the frames do not depend on how reads cut them |
| Others | | | listed in section 6 |

### How they interact

- The loop calls the core (`Connect`, `Receive`, `Disconnect`, `Advance`, `TakeOutput`, `IsClosed`). Closing is pulled, not pushed: the loop closes a socket when `IsClosed` says so.
- The lobby *attaches* a connection to a race host and from then on forwards its frames. Both keep a list of connections, with different ids, and `IsClosed` reads one list or the other.
- The race host owns one `AuthoritativeRace` and starts it again with fewer players when its host starts early.
- The lobby polls `RaceFinished()`; the first pass that sees it calls back into the process, which writes the league's lines, the replay and its result table, and prunes the store.
- A client's frames go through its `AuthConnection`, the secure records and the frame parser, at both ends.
- A client that diverges, or was away, asks the host for a snapshot and drops the Ticks before it.

### Hazards

`PROJECT.json` lists every hazard at its line, with the properties that would catch it. The groups are: slots handed out by three different rules (Hello, HostStart, Resume); a departure noticed only by the next `Advance`; the cursor of a spectator against broadcasts, snapshots and a clock that jumps; the end of a race while spectators are still owed ticks; two lists of connections; removal of a race by three different clocks; a drain against races that are still to start; a client's world against snapshots, lost connections and a Result that comes first; files written in several steps, cut by a crash or a full disk; sockets that take little, close or fail between two calls; counters that both ends keep without sending them.

## 2. Modules

| module | what it is |
| --- | --- |
| `AuthoritativeRace` | one race |
| `InputLog` | what its collection of inputs promises, without queues |
| `RaceHost` | one race behind its connections |
| `Room`, `RoomSpec` | what a race promises the lobby: the operators, and the specification made of them |
| `RaceHostRoom` | the mapping under which the race host keeps that promise |
| `LobbyServer` | the lobby, its races (each a `Room`) and the drain of the process |
| `RaceClient` | a client in a race, and of the host what it sends this client |
| `AuditLog` | the hash-chained log, in memory and on disk |
| `RaceFiles` | the league's file, the replays and the store's index |
| `ServerFiles` | the two before it, in one process that may end at any point |
| `SocketLoop` | the passes over the sockets, with clients and network acting between any two calls |
| `FrameStream` | what a connection promises: a stream of frames each way |
| `SecureChannel` | a secure session and its frames at both ends, over a stream that is cut, and may be harmed, anywhere |
| `MC...` | small instances for TLC: each extends the module it is named after |
| `AuthoritativeRaceProofs`, `RaceHostProofs`, `RaceHostFramesProofs` (with the refinement of `RaceHostRoom`), `LobbyServerProofs`, `RaceClientProofs`, `ServerFilesProofs`, `SocketLoopProofs`, `SecureChannelProofs` | theorems |

The composition is by contract. `RaceHost` keeps of its race only the tick and whether it is over; `LobbyServer` keeps of each race only what `Room` says; `SocketLoop` keeps of the core that it hears, says something, closes and is told of a disconnection; `RaceClient` keeps of the host what it sends. `ImplementsRoom` shows that the race host keeps the promise of `Room`, so what holds of the lobby holds of the lobby with real race hosts; `ImplementsInputLog` does the same for the race's inputs, and `ImplementsStream` for the frames that every other module takes as delivered whole and in order.

Names are the source's. A definition marked *Mutation* is a plausible mistake in the definition after it; the model never uses it. `PROJECT.json` pairs each property with a mutation that breaks it. The type invariant of a module (`TypeOK`, `AuditTypeOK`, `FilesTypeOK`) is the first conjunct of its first invariant (`InputInv`, `SeatInv`, `LobbyInv`, `ClientInv`, `LogHonest`, `LeagueKept`, `SocketInv`, `ChannelInv`).

### AuthoritativeRace

| code | model |
| --- | --- |
| `mPending[p]`, a flat vector of (tick, input) | the set of its pairs |
| `Start`, its early returns | `Start`, `StartFails` (everything was cleared before the failure) |
| `SubmitInput` and `StoreInput` | `SubmitInput`: a late or too early input, or one after the end, changes nothing; a second one for a tick replaces the first |
| `AdvanceTick` | `AdvanceTick(crossing)`: takes the inputs due or repeats the last, appends the history, drops what is not for later ticks, records laps and checkpoints, decides the end |
| `Session::SimulateStep` | the choice of `crossing`, the craft that complete a lap in this tick; a craft that finished completes no more (`MainCharacter.cpp:1264`) |
| `Results` | `RanksBefore`, `Rank` |

### RaceHost

| code | model |
| --- | --- |
| `Connection` | a record; its last four fields (`ack`, `start`, `next`, `results`) are what the peer knows from the frames it was sent |
| `nowMs - mStartMs` | `mClock`, in ticks of 16 ms, from `-StartDelay`; kept up to `RaceLimit + SpecDelay`, beyond which nothing compares |
| `Receive`/`Handle` | one action per message and outcome: `HelloRefused`, `HelloAccepted`, `HostStartsFull`, `HostStartsFewer`, `HostStartFails`, `ResumeRefused`, `Resume`, `SpectateRefused`, `Spectate`, `SnapshotRequest` |
| `Disconnect`, every other `Close` | `Drop`, which is always possible |
| `BeginRaceIfFull`, `StartNow` | inside `HelloAccepted` and the HostStart actions, as in the code |
| `Advance` | `AdvanceWaiting`, `AdvanceRunning`, `AdvanceFinished`, for any time `0..MaxLag` since the last call: the host's leaving, the hello timeout, every tick that is due, keyframes, the Result, the spectators |
| when a race is over | a choice, at the latest at `RaceLimit` (the race always has a limit) |

Tokens are numbers issued in order, so that a new one is never an old one; the code draws 64 random bits. A Resume may name any token issued, or 0.

### Room and LobbyServer

A room is `[drivers, watchers, seats, started, finished]`. Each operator of `Room` gives the rooms one may become: `Entered`, `Begun`, `Returned`, `Watched`, `Parted`, `Passed`.

| code | model |
| --- | --- |
| `Conn` | `[closed, helloDone, raceId, age]`; one that does not exist, or is gone, is `NoConn` |
| `Entry` | `[room, private, badAttempts, finishedFor, emptyFor]`; the last two are `finishedAt` and `emptySince` counted from now, `Never` for -1 |
| `Handle` | `Hello`, `Resume`, `HostRace`, `HostRaceFails`, `JoinRace`, `SpectateRace`, `WrongCode` |
| every refusal | `Refused`, always possible; what decides is the guard of the action that is not a refusal |
| forwarded frames | `StartRace`, `ClosedByRace`: the two that change what the lobby can see |
| `Advance` | `Advance(dt)`: every race passes, its clocks run, the finished callback, the removal of races with their connections, the hello timeout |
| `OnDrainSignal`; the loop after `PumpSockets` | `Signal`; `DrainCheck`, in the same step as `Advance` because nothing is read in between |

### RaceClient

A world is its tick and whether it is the host's world of that tick (`same`). Whether a step of the client's simulation comes out as the host's, and what becomes of a snapshot, is decided when it is sent: it holds a world, of its own tick or of another, or is refused before or after it overwrote a part of the level.

| code | model |
| --- | --- |
| `PredictingClient::OnTick`, `OnSnapshot`, `Predict` | `AppliedTick`, `OnTick`; `Gathered`, `OnChunk`, `OnSnapshot` (with `Restored`, `RaceWorld::Restore`); `Predicted` (`valid` is `mSnapshotValid`) |
| the loop over frames in `stepAuth` | `After(n)`, for any number of frames that are there |
| the rest of the pass | `ClientPass`: `Noticed`, `MayReconnect`, `Attempted`, `Reconnected`, then `Asks` in `Carried` |
| `ReplayRecorder` | `recorder`: the next tick it wants and whether it is whole; `Recorded`, `OnResult` |
| the host's broadcasts, its answer to SnapshotRequest and Resume, the removal of the race | `HostAdvances`, `HostServes`, `HostResumes`, `RaceRemoved` |
| a broken connection | `Break(kept)`: any number of the last frames is lost |

### AuditLog, RaceFiles, ServerFiles

| code | model |
| --- | --- |
| a line of the log | its fields without the texts; its hash is the number of its record. A line cut short has another number of fields |
| the constructor; `Verify` | `ReadBack`; `Verifies` |
| `Record` | the same, with any outcome of the write: whole, nothing, without its line end, cut in the hash or in a field before; the next line joins such a line (`Joined`) |
| `Purge` | the rewrite succeeds, does not open the file (the old lines stay), or stops after any of the kept lines (`CutShort`); then the purge is recorded, with any outcome again |
| a crash while a purge writes | `PurgeCut(n)`: n of the kept lines, perhaps a part of the next |
| `League::Record` | `Finish`, and one `Write` for each of `Lines`: the R line and its S lines are each opened, appended and closed |
| `League::Append` | `LineAppended`: whole, nothing, without its line end, or less; what goes on behind such a piece cannot be read, nor can the piece (`torn`) |
| the league's file read back | `DuelsIn`, `RowsIn` |
| the finished callback | `todo`: the league's lines (`AppendNext`), the replay (`WriteReplay`), its table (`WriteTable`), the prune, each of which may fail |
| `Refresh`, `Prune` | `Refreshed`, `Prune(stuck)`: some files cannot be removed |
| `Records`, `RecordBreaks` | `RecordHolder`; `OldestFirst`, `Holders`, `HolderAfter` |
| the process | `ServerFiles`: `Moderate`, `Races`, `Clock`, `Restart`, `RestartInPurge`. Moderation acts between two callbacks, never in one |

### SocketLoop

A pass of `PumpSockets` is `Accept`..., `Accepted`, `Read`..., `Advance`, `Write`..., `Reaped`; each is one system call or one call of the core, and any of the actions in `Network` may come between two of them.

| code | model |
| --- | --- |
| `Peer` | `peer[c]`: `first`, `transport`, `fed` (units of the handshake and after), `pending` |
| the choice of the transport | `Gathered`, `Decided`, `Transport` (plain, secure, WebSocket); a plain peer where none are accepted is `Refused` |
| `WebSocket::Server::Feed`, `Secure::Server::Feed` | `PeerAfter`: the reply of the handshake is pending, and a pong for each ping, past the core; `ReadSpoilt` when they return false: the core is told, a WebSocket has one frame more to say, a secure session loses what came with it |
| `Ready` | `Begun`, `Ready`: a WebSocket that is closing is not ready any more, a failed secure session still is |
| `recv` until it would block, at most so many rounds | `ReadSome`, `ReadSpoilt`, `ReadNone`; `Read` may look once more and find the end |
| `Receive`, `Disconnect`, `Advance`, `TakeOutput` of the core | `Hears`, `Gone`, `Says`, `out` in `Write` |
| `FlushPeer`, closing, the limit of pending output | `Write`: what the socket takes, a failed send, `Done`, `TooMuch`. What a browser's transport says of its own is counted (`own`); where it goes out between the core's words is left open |

### SecureChannel and FrameStream

The stream is one of units: a key or a proof, a record's length, its sealed rest. A sealed unit opens with its own key and number only; keys are what they are derived from.

| code | model |
| --- | --- |
| `DeriveKeys`, `Records::Seal`, `Records::Open` | `DerivedKey`, `Sealed`, `Opened` |
| `Client::Feed`, `Server::Feed` | `ClientFed` (`ClientKeyed`, `ClientOpened`), `ServerFed` (`ServerKeyed`, `ServerOpened`) |
| `AuthConnection::Send`, `Pump` | `ClientSend`, `ClientPump`: what waits for the keys is sealed in one call (`Released`) |
| the server's loop | `ServerPump`, `ServerSend` |
| `EncodeFrame`, `FrameParser` | `Frame`, `Parsed`, `Unparsed` |
| what `SecureChannel.h` says a receiver notices | `Fault`: one or two units are lost, repeated or damaged |

## 3. What the runs check

TLC explores every reachable state. Deadlock is checked in `socket_loop`; elsewhere connections, races, ticks, frames and faults are bounded, so every instance ends.

| run | states | question | bounds, and why they are enough |
| --- | --- | --- | --- |
| `race_inputs` | 15 635 | Are inputs simulated as promised? `InputInv`, `NothingRewritten`, `ImplementsInputLog` | two players, three ticks, a window of one tick beyond the next, one defined and one undefined control bit: an input can be late, due, early, repeated, replaced and refused, for one player while the other is silent |
| `race_laps` | 42 698 | Do laps, end, checkpoints and ranking agree? `ReplayVerifiable`, `LapsAnnouncedOnce`, `ResultsRankFinishers` | three players (two finishers and one who does not finish can tie and overtake), one or two laps, five ticks with checkpoints every two, limits below and above the longest race, and none |
| `host_start` | 33 491 | Who drives what? `SlotsHeld`, `NamesMatch`, `StartsWhole`, `SeatsSettled`, `ImplementsRoom` | three seats and four connections: two may leave gaps at both ends, a fourth takes a gap, HostStart closes them, a reconnection replaces; the track may fail to load |
| `host_race` | 30 600 | Does every peer follow the race? `SeatInv`, `WorldsInStep`, `SpectatorsBehind`, `ResultLast` | a driver, its reconnections and a spectator, five ticks, a delay of two, a keyframe every two ticks and a clock that may jump two ticks: the delay ends in the middle of the race and outlasts it |
| `host_fair` | 277 | Does everything that must happen, happen? `NobodyWaitsForEver`, `SpectatorsGetResult` | two seats, a race of one tick, a delay as long as the race; liveness is checked on every cycle |
| `host_unloaded` | | section 5 | |
| `lobby_races` | 505 307 | Do the lobby and its races agree? `LobbyInv`, `SavedOnce`, `ClosedForGood`, `NobodyThrownOut` | three connections over the life of the server, two open at once, two races, one or two seats, public or private, one spectator; every limit of time is one pass, so each may run out early, just and late against the others |
| `lobby_ends` | 4 332 | Are places given back, and does a drain end without cutting off a race? `PlacesComeBack`, `DrainEnds`, `DrainSparesRunning` | one race, two connections, a race that need never finish |
| `client_race` | 116 565 | Does the client follow, and find its way back? `ClientInv`, `PredictsFromConfirmed`, `SavedWhole`, `NeverBack`, `Resynchronises` | a driver or a spectator, two ticks, a keyframe at their start and their end, snapshots of two chunks (so one can be cut), two faults of three kinds (a diverging step, a broken connection, a snapshot that is refused or of another tick), two requests and two snapshots on their way at most, one attempt to come back before giving up |
| `server_files` | 984 589 | Do the files keep what they promise, over failed writes and crashes? `LogHonest`, `LeagueKept`, `StoreTrue`, `BoardsAgree` | four audit records with three bad writes (one damages a line, one what joins it, one a purge), two days and no retention; three races over three seconds on two days, two times (ties), a cap of one duel a day, two replays kept, one crash, failed append or failed file. Once there are audit records one race and one such trouble are enough, because the two files share nothing but the process and its clock |
| `socket_loop` | 443 583 | Does the loop carry both directions, and end what it should? `SocketInv`, `LastWords`, `BacklogBounded`, `PlacesComeBack` | a plain client, a secure one and a browser, of the last two one at a time; a handshake of two units, one place, three units and two pings sent and four words said, a socket that takes one at a time and a limit of one: every cut of the first bytes, of the handshake and of the output occurs, the streams are spoilt at every point, and two pings are read behind the limit |
| `secure_channel` | 33 940 | Is the session a stream of frames? `ChannelInv`, `ImplementsStream`, `EverythingArrives` | three frames each way, three units in a record: what waits for the keys fills more than one record and cuts a frame; one fault; a right and a wrong server |

What the less obvious properties say:

- `InputInv`: besides the types, a queue holds only ticks of the window, one entry for each, and the history has a row for every tick. `ReplayVerifiable`: the checkpoints are where a replay looks for them, and the race ends in exactly the tick its limits, laps and finishers say.
- `SlotsHeld`: no slot is driven by two connections, and the slot, the players and the token a driver was told are those the host holds, so that this token gives this slot back and no other. `SeatInv` is its inductive form.
- `StartsWhole`: whichever way a race starts, its drivers are the slots 0 to players - 1, each of them told Start.
- `WorldsInStep`: the tick a peer's world stands at is the tick of the next frame it will get; no Tick is skipped and none is sent twice, across Start, snapshots, reconnections, a spectator's cursor and clock jumps.
- `SpectatorsBehind`: no spectator is ever shown a tick younger than the delay.
- `ResultLast`: the Result comes once, after the last Tick, and for spectators after the delay.
- `NobodyWaitsForEver`: whoever connects and says nothing is closed, and so is whoever waits in a race whose host left, unless the race starts after all (section 5).
- `LobbyInv`: besides the types, whoever a race counts is open in the lobby and routed to it (`RoutesAgree`).
- `ClosedForGood`: what `IsClosed` once answered stays. The loop closes the socket on that answer and tells nobody.
- `NobodyThrownOut`: a race goes when it is empty, or when it is over and has lingered; a spectator keeps a deserted race alive.
- `InStep` (in `ClientInv`): a client that waits for no snapshot has the host's world, and the next Tick on its way is the one it stands at. A second snapshot that fails is the exception (`failed`), until a Tick fits or a snapshot takes: since the property speaks of the client again from then on, it says too that no Tick is ever accepted into a wrong world.
- `PredictsFromConfirmed`: the copy that is drawn from is the confirmed world, and the host's, with the same exception.
- `SavedWhole`: on one connection, a replay the client saves is the whole race.
- `LogHonest`: while no write fails the log verifies and is what is in memory; when one did, what is missing between two lines of a file that still verifies was missing already when the process started (`GapsShow`). What a process loses itself does show, unless it is before the first line or after the last; section 5 has what follows from that.
- `LeagueKept`: no crash lets a pair win more often a day than the cap, and between two races the memory is what a restart would read; an R line that could not be written is one win more after a restart, no other line is (`CapHolds`), and the memory differs from the file by such lines only (`ReadsBack`).
- `StoreTrue`: without faults the newest replays are there with their tables; with them, the index still says what is on disk. `BoardsAgree`: who broke a record last leads the board, unless two runs of one second tie.
- `LastWords`: a socket is closed only when the core closed the connection and everything said to it was taken, or when a send failed. `BacklogBounded`: what waits for a plain or secure client that does not read stops growing; for a browser it grows by its pings, one answer each and without a limit, and by one last frame (section 5).
- `ChannelInv`: although no number is sent, the records on their way are those from the one the receiver expects to the last one sealed, no two of them have one key and one number, and a client that expects another server's key neither sends nor takes a frame. `ImplementsStream` holds with faults: what arrives is then a prefix.

### Fairness

- `RaceHost`, `LobbyServer`: weak fairness of `TimePasses`, a call of `Advance` with a clock that has moved on, and nothing else. In `LobbyServer` the races do nothing in that call (`RoomsNow`): a race may run for ever, and a drain must still end. The process calls `Advance` in every pass of its loop, each about 2 ms after the last, with `NowMs()` from a steady clock. No peer is assumed to do anything: whoever waits for a frame may wait for ever, so every liveness property there ends by a clock of the server.
- `RaceClient`: the host reads what the client sent, its race goes on, and the client's pass, run once a frame of the game, goes on reading. `Resynchronises` needs all three, and is stated up to the end of the connection.
- `SocketLoop`: `PumpSockets` runs for ever, and what is sent to a client that closed is answered by a reset, as TCP does. A client that stays is not assumed to read, or to do anything.
- `SecureChannel`: both ends go on reading.

## 4. What is proved

The theorems hold for every value of the constants allowed by the `ASSUME` of the module, which only say that counts are naturals, that there is a player, a seat, a tick, a place, a record of at least one unit and a day of at least one second, that the clients are finitely many, and that the defined control bits are among those on the wire. Each rests on an inductive invariant with three facts: it holds at the start, every step keeps it, it implies what the run checks.

**AuthoritativeRaceProofs.** `InputsCorrect`: `InputInv` always holds. It is the conjunction of `TypeOK`, `PendingInWindow` and `HistoryAligned`, and inductive as it stands: the queue swap of `AdvanceTick` needs the window, the window needs the tick, the tick is the length of the history. From it `HistoryKept` (`NothingRewritten`): `HistoryAligned` is needed to know that what is appended comes after the row of the last tick; and `Refinement` (`ImplementsInputLog`): every step of a race is a step of `InputLog` or leaves it alone. `StoreIsWish` shows that storing an input is a function update of the wishes, `KeptAreWishes` that the queue swap restricts them to later ticks.

In the same module, `LapsCorrect`: `LapInv` always holds. `LapsAnnouncedOnce` says what events there are; to keep it one has to know that the lazily created memory of laps is what the craft have (`LapsReported`) and that events and laps correspond one to one, in the order of their ticks (`EventsTold`). From it `LapsOnceCorrect` and `ReplayCorrect`. `ResultsCorrect`: the comparison of two players is a strict total order (`RanksOrder`) and a rank counts those before (`RanksCount`), so ranks are distinct, gapless and monotone in it.

**RaceHostProofs.** `SeatsCorrect`: `SeatInv` always holds. `SlotsHeld` is not inductive: that a Hello finds a free slot needs waiting drivers to sit within the seats, that a Resume gives one slot needs tokens to belong to one slot, that it gives back a valid one needs every slot of a started race to have a token, and that nobody else drives needs a connection before its handshake to hold no slot. `SeatInv` adds these four facts, and the domain of the tokens. The proof goes in three parts:

1. Counting (`Seating`, `LeastAndGreatest`, `Renumbering`): at most n sit on n seats, and there is a free one exactly when there are fewer; numbering the players by how many sit below them is a bijection onto 0 to n - 1. These rest on the library's theorems on finite sets, injections and well-founded orderings.
2. Steps that move nobody (`...Kept`, `SameSeats`, `OthersKept`, `CloseStep`, the `Advance...Step` and spectator lemmas): frames and ages change, the drivers only shrink.
3. Steps that seat somebody (`HelloSits`, `StartNowSits`, `HostStartsFewerStep`, `ResumeStep`).

From it follow `SlotsCorrect`, `StartsWholeCorrect` (both ways to start) and `SeatsSettledCorrect`.

**RaceHostFramesProofs.** `FramesCorrect`: `FramesInv` always holds. It says how ticks, clock, end and Result depend on each other (`World`) and, for each open connection, what it was sent (`Fits`: nothing before its handshake, for a spectator its cursor and the delay, for a driver the tick of the host). The three frame properties are not inductive: that a spectator's next Tick is the one it waits for needs its cursor to be what it was told, that none is too young needs the clock to be ahead of the race, that a driver gets one Result needs `mResultSent` to be `mFinished`. From it `WorldsCorrect`, `BehindCorrect`, `ResultCorrect`; with `SeatInv`, `NamesCorrect`.

In the same module, `RoomRefinement` (`ImplementsRoom`): seen from the lobby, every step of the host is one step of a room. There is one lemma per action; that a room never has more drivers than seats after a Resume follows from `SeatInv` after the step and `Seating`. It is proved up to a HostStart that fails (section 5).

**LobbyServerProofs.** `ServerCorrect`: `ServerInv`, which is `LobbyInv` with `EndsOnce`: a race counts the time since its end, and was saved, exactly when it is over. Three lemmas carry the steps of a connection (`ConnStep`), of a race (`RaceStep`) and of a new one (`HostRaceStep`), one carries a whole pass (`PassStep`). From it `RoutesCorrect` (`LobbyInv`), `SavedCorrect`, `ClosedCorrect` and `NobodyThrownOutCorrect`, for any number of connections and races. `DrainSparesCorrect` (`DrainSparesRunning`) says something of all that comes after a signal, so its invariant begins there: a race that was running then (`Spared`) has a number no later race takes, has started, and while it runs the pause after the last race has not begun, because every step lets the races that are there go on or removes them (`NextGoesOn`). With `DrainInv` (the loop is left for one of its three reasons) only a second signal or the timeout is left.

**RaceClientProofs.** `ClientAlwaysFits`: `StepInv` always holds. What it says of the world and the next Tick it says of a client that follows (`Following`): that waits for no snapshot and has had none that failed; what keeps the recording whole it says besides (`Records`), because a failed snapshot does not stop it. A pass reads any number of frames (`After`, a function defined by recursion over them), so what it keeps has to be said of a client that has read some of them: with n frames read, the rest still fits (`Fits`). Around it stand what the host keeps and sends (`HostInv`), the order of what is on its way, with the snapshots it still owes (`StreamInv`), and what a broken link leaves (`LinkInv`). Each kind of frame has its lemma (`TickRead`, `ChunkRead`, `ResultRead`), `PassRead` puts them together by induction over the number of frames, `CarriedOn` adds the rest of the pass. From it `ClientInStep` (`ClientInv`), `PredictionsAreCurrent`, `ReplaysAreWhole` and the action property `DriversNeverGoBack` (`NeverBack`).

**ServerFilesProofs.** `FilesCorrect`: `ServerInv` always holds. It has four parts:

1. The log (`LogInv`). `Verifies` looks only at neighbours, so nothing it says survives a damaged line or a purge. What does, of memory and file alike (`Chain`): later lines are of later records (`Rising`), and the records between a whole line and the one it names, like those after the last hash in memory (`Reaches`), are among those the process did not find when it started (`Genuine`). A restart makes the records that are not found `absent`, and the next record goes on from the last line that is (`ReadBackInv`).
2. The races and what is left to write of the last one (`RacesInv`).
3. The league (`LeagueInv`). The memory is ahead of the file by the lines that are still to be written, and by those that could not be (`missed`): it lies between what would be read from the file with the first (`Sure`), and with both (`Booked`). That the R line is written before its rows is what keeps the cap when the process ends between them.
4. The store (`StoreInv`): as long as nothing fails, the replays are an interval of the newest; and always, the index is true but for what the write in hand is about to change.

From it `LogCorrect` (`LogHonest`), `LeagueCorrect` (`LeagueKept`), `StoreCorrect` (`StoreTrue`) and `BoardsCorrect` (`BoardsAgree`).

For the last: the replays can be counted up by race (`Counted`, `OldestFirstIs`), the holder after each is told by the one before (`HoldersIs`), and by induction over them has the least time and is the oldest that has it (`LastHolds`). The board's first has the least time and the earliest second too, so the two can differ only where both are equal.

**SocketLoopProofs.** `LoopCorrect`: `LoopInv`, for each client six facts. `Known`: who has no socket is closed in the core, or lost by a send; whose stream is spoilt is closed there. `Counted`: what the core said to a plain client is told, pending or not fetched. `Limited`: between two writes at most two words come on top of the limit. `Silent`: before its handshake is over nothing waits for a client but a last word, so the reply to it is within the limit (which is why the limit must not be 0). `Piled`: what a browser's transport has said of its own is answers to pings that were read, and one last frame. `Answered`: a peer that is looked at twice in a pass has only ended. From it `LastWordsCorrect` and `BacklogCorrect`. `SocketsInOrder` (`SocketInv`) needs `TalkInv` as well: what the core has heard, what was read and what is on its way are, one after the other, all that was sent (`Listened`), and likewise what was told, is pending and is not fetched (`Spoken`). The order of a client's data follows from the two ends of each piece (`Consecutive`, `Arranged`), and the sums over all clients (`SumsExist`) say that there is a place for whoever is accepted.

**SecureChannelProofs.** `StepsKeep`: `StepInv` always holds. It names, for each way, what its sender has sealed so far: record i holds the data from `ends[i]` to `ends[i + 1]` (`Log`; one call may seal many records, and what waits for the keys is sealed at once). Then, whatever happens to the stream:

- a rest on its way, or in an inbox, is one of those records (`Entries`): a fault loses, repeats or replaces units, but seals none (`HarmedEntries`);
- so a record that opens with the next number is the next data (`OpenedIs`), and the receiver has passed on the whole frames of what it has opened (`Passed`, `PassesOn`).

And while nothing was harmed, every unit is at its place: the handshake, then for each record a length and a rest (`UnitAt`), from the unit the receiver expects to the last one sent (`UpExact`, `DownExact`). Then everything opens (`OpenedAll`), neither end fails unless the client expects another server, and both derive the same keys. There is one lemma per action (`ClientSendStep`, `ServerSendStep`, `ClientPumpStep`, `ServerPumpStep`, `FaultStep`), resting on what a read makes of each end (`ClientFedIs`, `ServerFedIs`) and on what sealing more and reading some leave of each way (`UpSeals`, `DownSeals`, `UpTakes`, `DownTakes`). From it `ChannelCorrect` (`ChannelInv`): numbers meet and are used once because places are distinct; nothing is sealed for the wrong server because nothing is sealed before the proof. And `StreamRefinement` (`ImplementsStream`): every read is an arrival of `FrameStream`, or nothing.

**Only model-checked** is all liveness (`NobodyWaitsForEver`, `SpectatorsGetResult`, `Resynchronises`, `PlacesComeBack` of the lobby and of the socket loop, `DrainEnds`, `EverythingArrives`): the proof system does not do fairness.

Induction over data is not out of reach altogether. The library's induction theorems cannot be used, because they take the induction hypothesis as a parameter, but the least element of a set of naturals can (`WFMin`): a recursive function over reads, records, replays or clients is unfolded that way (`SetInduction`, one per module), and a fact about it holds for all lengths because the set of the lengths for which it fails is empty.

## 5. Where the code and its documentation disagree

One disagreement is shown by a run: `host_unloaded` (`StartedIsLoaded`, `RaceHost.cpp:245`). When a race cannot be set up again for fewer players, they are sent away, but the lower seat count and the race that failed to load stay: the next players fill it, and `Advance` runs a race without craft. In the model that step has no successor. It is also why `SlotsHeld` and `ImplementsRoom` speak of races that are loaded: the old tokens no longer fit the seats.

Others were met while modelling. The models behave as the code does, and the properties are stated so as to leave them room:

- `RaceHost.cpp:525`: the Result is broadcast once, to the drivers there are then. `LobbyServer.h:34` keeps a finished race "for late Result and reconnect", but a driver who comes back to it is sent a HelloAck and no Result.
- `RaceHost.cpp:236`: between the departure of a host and the next `Advance`, a newcomer takes the free slot 0 and its StartRace starts the race that, by the comment at line 547, cannot start.
- `RaceHost.cpp:205`: a race whose host left keeps waiting for a host even if it is filled by players who did not ask to start it; `src/docs/specs/protocol-3.0-draft.md:132` says it starts when full.
- `RaceHost.cpp:556`: a kick is taken by name, whenever somebody of that name is there; one that nobody answered at the time hits whoever uses the name later (`Moderation.cpp:152`).
- `AuthServer.cpp:597`: that no race is running is noted once. A waiting room that its host starts during the pause runs when the process leaves, although "races under way run to their end" (`LobbyServer.h:89`). `DrainSparesRunning` speaks of the races under way when the signal came.
- `AuthServer.cpp:595`: the loop overwrites a second signal that arrives before it has noticed the first, although "a second signal exits at once" (`src/docs/operators.md:134`).
- `AuthServer.cpp:598`: the pause of 2.5 s "lets the last results reach the players", but spectators are 10 s behind.
- `AuthServer.cpp:181`: a failed send closes the socket and tells the core nothing. That connection stays open in its race, so the condition at `LobbyServer.cpp:527` for an abandoned race is not met. `LastWords` makes the failed send its exception.
- `Track3DViewer.cpp:8790`: a reconnection does not spoil the recording. If the Result comes before the snapshot, what is saved ends where the connection was lost, although "an incomplete recording is never turned into a file" (`ReplayRecorder.h:6`). `SavedWhole` speaks of one connection.
- `Track3DViewer.cpp:8793`: the attempts are counted until a connection opens, not until the race takes the client back. A refused Resume is tried again at once and for ever, although `src/docs/authoritative-race.md:117` says "once a second for 15 seconds".
- `PredictingClient.cpp:30`: a client asks for a snapshot again after 2 s (`Track3DViewer.cpp:8800`), so a second one may come when it is back in step. If that one is refused after it overwrote a part of the level, or is of another tick than it says, the level is not discarded, although "after a failure the level may be partly restored and must be discarded" (`StateSnapshot.h:29`), no new snapshot is asked for, and the copy predictions start from is kept, although it is "of the newest confirmed tick (cached)" (`PredictingClient.h:52`). Until the next Tick the confirmed world may not be "exactly the server's race" (`PredictingClient.h:3`). An intact snapshot of this host does not fail; it takes damage that the transport lets through, or a host with other rules. In the model it is one of the faults, and `failed` marks what the properties leave room for.
- `Moderation.cpp:57`: a write that fails is not noticed. Lines lost at the end of the file before a restart leave no trace: the next process takes the last line it finds, and what it records follows that. So a file with lines missing inside may verify, although "a deleted, edited, reordered or inserted line breaks the chain from that point on" (`Moderation.h:17`) and "an edited, removed, inserted or reordered line is detected" (`src/docs/online-services.md:33`). `GapsShow` says what does show.
- `Moderation.cpp:106`: a purge that cannot open the file leaves the expired lines there; one that stops, by a full disk or a crash, loses the newest kept lines. A chain anchored at its first line does not show what is missing at its beginning or its end. A torn line stops every later purge (line 99).
- `League.cpp:100`: an append that fails, or stops in the middle, is not noticed, and the next line then joins the piece. The league has the race in memory and not in the file. For each R line lost so, a pair scores one duel more that day after a restart, although a duel "scores at most three times in one UTC day" (`League.h:10`). `CapHolds` and `ReadsBack` count these lines (`missed`).
- `AuthServer.cpp:182`: "a client that does not read is dropped" for what the core says. What a browser's transport answers goes into its pending output past the core (lines 146 and 147, `WebSocket.cpp:171`), and the socket of a client that is over the limit is read and answered as before until its output is empty. A browser that sends pings and reads nothing makes what waits for it grow without a limit. `BacklogBounded` has its pings in the bound.
- `AuthoritativeRace.cpp:89`: the comment counts one entry less than the window accepts.

## 6. What is not modelled

The project is about the server that decides races, and the client that follows it. Most of the repository is something else: a 3D game with its editor, its renderer and a vendored user interface library.

- The physics (`src/NetTarget/Model`, `MainCharacter`, the object factories): fixed-point arithmetic over large state. Where the race depends on it, the model lets it do anything it may.
- In `RaceHost`: the rate limit on inputs, the windows of invalid messages and of snapshot requests (their effect, a closed connection, is `Drop`), chat, block, report, ping, rosters, metrics. Inputs are modelled in `AuthoritativeRace`.
- In `LobbyServer`: lists, replays and league (they read only), lobby chat, the limits per connection (their effect is `Refused`).
- In the client: local inputs, drawing, what a prediction simulates, the lobby's screens (`OnlineLobby.cpp`) and the bot.
- In `AuthServer.cpp`: the admin console, the status port, the cap of connections per address (of the form of the one overall, which is modelled).
- In `Moderation.cpp`: mutes, bans, reports and the console, which are maps looked up by name.
- In the league's file: a row cut after 31 of the 32 digits of its device and continued by an R line would be read as a row of another device; the model takes joined lines as unreadable.
- In the replay store: the lists of tracks, lap counts and recent winners, which only read; a result table that cannot be removed, or is removed alone.
- WebSocket framing (`WebSocket.cpp`) as a codec: fragments, masks, headers, lengths. What it does to a connection (the handshake and its reply, the answers to pings, the refusals and the frame that closes) is in `SocketLoop`.
- Cryptographic primitives, message codecs, file formats: data layout, tested in the repository against vectors and with decoder tests.
- The server of protocol 2 (`src/NetTarget/RaceServer`), the legacy peer-to-peer client, the editor, the game's user interface, rendering, sound and tools: not part of the authoritative server.

## 7. Plan

| step | modules | state |
| --- | --- | --- |
| 1 one race | `AuthoritativeRace`, `InputLog` | checked and proved |
| 2 a race and its connections | `RaceHost`, `Room`, `RaceHostRoom` | checked; all safety proved |
| 3 the lobby and the drain | `LobbyServer` | checked; all safety proved |
| 4 the client's world | `RaceClient` | checked; all safety proved |
| 5 the socket loop | `SocketLoop` | checked; all safety proved |
| 6 what is written down | `AuditLog`, `RaceFiles`, `ServerFiles` | checked; all safety proved |
| 7 the channel | `SecureChannel`, `FrameStream` | checked; all safety proved |
| 8 the limits | the input token bucket (64, 125 a second) and the windows of `RaceHost`: at most so many in any window | open |
| 9 protocol 2 | the rooms of `RaceServer` | open; worth it only as long as that server is run |

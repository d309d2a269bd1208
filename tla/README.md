# A TLA+ model of the FortiVPN daemon

`fortivpn-tray` is a VPN client for FortiGate gateways: a daemon that owns the
connection, a privileged helper that changes interfaces and routes, a tray
application and a command line client that talk to the daemon. This directory
holds a model of the parts in which order, failure and concurrency decide
whether the program is right, the TLC runs that check it on small instances,
and TLAPS proofs of its main invariants for every instance.

Paths are relative to `src/crates/`.

## The system

| Part | State | Operations | Hard behaviour |
|---|---|---|---|
| Connection manager (`fortivpn-daemon/src/vpn.rs`) | status, session, monitor handle, passwords, preserved network, helper connection | `connect_with_password`, `disconnect`, `handle_session_death`, `release_preserved_network` | one asynchronous mutex, released between steps that belong together; held across the whole handshake |
| IPC server and session monitor (`fortivpn-daemon/src/ipc.rs`) | a task per connection, a task per session, the reconnect attempt | commands; watch, tear down, back off, retry, give up | stale decisions after a sleep, aborts, events sent after unlocking, profiles looked up late |
| Network state (`fortivpn/src/lib.rs`, `routing.rs`, `platform/*`) | descriptors of the interface, routes, host route, DNS, IPv6 | create or adopt, configure, preserve, release, disconnect | the kernel removes an interface and its routes with the last descriptor; partial failure on the way up and down |
| Helper (`fortivpn-helper`, `fortivpn/src/helper.rs`) | its descriptors per client connection | JSON commands, one answer each, a descriptor over SCM_RIGHTS | it crashes, answers late, or is replaced while a session depends on it |
| Bridge (`fortivpn/src/bridge.rs`) | four tasks, a bounded channel, missed echoes, `alive`, the event channel | read, write, echo, die, shut down | back pressure between the tasks, lost wake-ups, cancellation of half-read frames |
| Framing (`fortivpn/src/tunnel.rs`) | header and payload read so far | `next_frame` | futures dropped between two reads |
| PPP (`fortivpn/src/ppp.rs`, `bridge.rs`) | LCP and IPCP options and flags | `negotiate_ppp` | the gateway's order of requests, naks and rejects |
| Authentication (`fortivpn/src/auth.rs`) | what was read of an answer | three HTTPS requests over two connections, parsing of the configuration | answers that come in portions, are cut, or are left over from the request before |
| Profile store (`fortivpn-daemon/src/profile.rs`) | profiles, the file | load, save, look up by name | written in place, panics under a mutex; clients name profiles from lists of their own |
| Status feed (`ipc.rs`, `main.rs`) | broadcast channel of 16 events | send, subscribe | events sent after the mutex is released, lagging subscribers |
| Tray application (`fortivpn-app/src/main.rs`) | cached status and profiles, icon, menu | subscription, clicks, commands | three threads that write one cache; a main thread that waits for the daemon |
| Settings window (`fortivpn-app/src/settings.rs`) | a list of profiles, the selected index, the form | save, delete, reload | an index into a list that is fetched again |
| Command line client (`fortivpn-cli`) | none | one command each | a profile looked up twice, by identity and by name |

A client's `connect_with_password` runs manager, authentication, tunnel, PPP,
network and bridge in this order and then spawns the monitor. The bridge tells
the monitor of a death over a watch channel; the monitor calls back into the
manager. The manager hands the network of a dead session to the next one as a
`PreservedNetwork`.

## Modules

| Module | Models |
|---|---|
| `VpnManager` | the manager, the commands and the monitors |
| `VpnManagerProperties` | its invariants, action and liveness properties |
| `SessionLifecycle` | what the manager promises about sessions, without tasks and mutexes |
| `VpnManagerProofs` | the theorems about `VpnManager` |
| `MCVpnManager` | symmetry and view for its runs |
| `TunnelNetwork` | interface, routes, DNS and IPv6 of the host, with the helper |
| `TunnelNetworkProperties` | its invariants |
| `TunnelNetworkProofs` | the theorems about `TunnelNetwork` |
| `MCTunnelNetwork` | symmetry for its runs |
| `Bridge` | the tasks between tunnel and TUN device, and `stop_bridge` |
| `BridgeProperties` | its invariant, action and liveness properties |
| `FrameReader` | the cancel-safe reader of frames |
| `FrameSource` | what it promises: the gateway's frames in order, no errors of its own |
| `FrameReaderProperties` | that it implements `FrameSource`, and that frames come out |
| `DataPathProofs` | the theorems about `Bridge` and `FrameReader` |
| `MCBridge`, `MCFrameReader` | the modules their runs start from; a stream of frames |
| `PppNegotiation` | `open_tunnel` and `negotiate_ppp` against a gateway that keeps to RFC 1661 |
| `PppNegotiationProperties` | its invariants and that the negotiation ends |
| `MCPppNegotiation` | MRUs for its run |
| `HelperProtocol` | the socket between daemon and helper |
| `HelperProtocolProperties` | what it must keep |
| `MCHelperProtocol` | devices for its run |
| `PppNegotiationProofs`, `HelperProtocolProofs` | the theorems about them |
| `Authentication` | `authenticate()` and the gateway's answers |
| `AuthenticationProperties` | what its configuration, its errors and its order must be |
| `AuthenticationProofs` | the theorems about `Authentication` |
| `MCAuthentication` | a configuration and bodies of answers |
| `StatusFeed` | the daemon's events and the tray application |
| `StatusFeedProperties` | what the tray must show; the module its run starts from |
| `StatusFeedProofs` | the theorems about `StatusFeed` |
| `ProfileStore` | profiles, their file, the settings window and the lookup by name |
| `ProfileStoreProperties` | what becomes of profiles and passwords |
| `ProfileStoreProofs` | the theorems about `ProfileStore` |
| `MCProfileStore` | identities and names for its run |

Definitions named `...` with a comment `Mutant:` are plausible bugs; no
specification uses them. `PROJECT.json` names the definition each replaces and
the property that then fails.

### VpnManager

*State.* The variables `status`, `session`, `rx`, `handle`, `connectedId`,
`passwords`, `preserved` are the fields of `VpnManager` (`rx` is the event
receiver inside the session). `pc` says where each task is, `target` and
`attempt` are its locals. A session and its monitor share a name from the set
`Sessions`; a name can be used again when the session is gone and its monitor
has ended, so the set bounds how many are alive and not how many there ever
were.

*Atomicity.* A critical section of the tokio mutex is one action: nothing the
other tasks can see changes in the middle of one. `connect_with_password` is
the exception. It is split at its long await, because the mutex is held
meanwhile (`lock`), the status reads `Connecting`, and whether and when it ends
is up to the gateway. Everything between two critical sections is a step of
its own: the spawning of the monitor after a connect, the broadcast of an
event, the look at the store, the sleep of the reconnect loop.

*Aborts.* `abort()` takes effect where a task yields. A monitor parked in its
watch loop is gone at once. One that was woken by the death of its session when
the abort came runs on to the mutex (`aborted`, `AbortLands`): the runtime has
several threads, and an abort does not stop a poll. If it gets the mutex while
there is no session, `HandleDeath` runs to its end. If the next session is up
by then, the poll takes that session's profile and password and is dropped at
the await in `stop_bridge` (`HandleDeathTooLate`).

*Faults.* `Env` turns on an unreachable helper, a disk that refuses a profile
write (which poisons the store's mutex), and the deletion of profiles.

*Read-only commands* (`status`, `list`, `get_profiles`, `subscribe`) change
nothing and have no action here; `StatusFeed` and `ProfileStore` have them.

### TunnelNetwork

*State.* `fd` says which interface each holder (helper, bridge, keeper) has
open, `leaked` which ones the daemon has open without knowing; an interface
exists while somebody has it open, and its routes with it (`Existing`,
`Surviving`). `rm` is the `RouteManager` with the addressing the preserved
network remembers. `hostRoutes`, `dns`, `ipv6off` are the rest of what the VPN
changes. `client` is the daemon's connection to the helper, which is stale
after a crash until `ensure_helper` opens another.

*Atomicity.* The daemon works on the network in one task under the manager's
mutex. A run of helper commands is one action that stops where the helper
crashes (`Progress`). In `create_tun` it may crash between the descriptor and
the line after it: the daemon then drops a bare number, and the interface stays
with its address (`CreateTunLosesLine`). Routes are bound by address, so where
a leaked interface has the address of the session the kernel may choose
(`BoundTo`).

*Refused routes.* `run_route` tolerates a delete of a route that is missing, not
an add of one that is there, which `route` refuses. The host route
to the gateway is the first command of a configuration, so `Configure` needs
that neither it nor a route into the tunnel is there, and `ConfigureFails`
otherwise needs no fault.

*Faults.* `Faults` selects them: the helper crashes or cannot be reached, an
interface cannot be created, a command fails, a descriptor cannot be duplicated
or registered, PPP assigns another address than the gateway's configuration.
`spoilt` records that an installation or a teardown broke off.

*Abstraction.* The networks a gateway pushes are one fixed set; route and DNS
commands without privileges have no effect; IPv6 and DNS are flags.

### Bridge

*State.* `pc` says where each of the four tasks is: in its `select!`, in a
write, waiting for the outbound channel, or ended. `queue` is the channel,
`missed` is `missed_echoes`, `event` the watch channel with the `alive` flag
that changes beside it. `inbox` holds frames the reader has not read; `due`
says that the echo timer has fired. `silent` is a history variable: the
intervals since a frame was received.

*Atomicity.* A task runs from one `await` to the next in one action. What it
does there touches shared state only at the end, or in variables of its own.

*Shutdown.* `notify_waiters` reaches the `Notified` futures that exist, which
are those of tasks in their `select!` (`notified`). Such a task ends when it is
polled and picks that branch (`Hear`); if it picks another, the future is
dropped and the shutdown forgotten (`Busy`). The time-out of 3 s may fire
whenever a task has not ended; the abort takes effect later (`AbortLands`).

*Time.* `Interval` lets ten seconds pass while the reader waits: for a frame or
the timer, or for a full channel that a stalled writer does not empty. What the
reader can do at once takes less than that. `MissedTickBehavior::Delay` makes
an interval that ended while the reader was elsewhere count once.

*Abstraction.* Packets are counted. A frame is what it makes the reader do.
Writing to the TUN device does not wait: it is a local queue. Cancelled reads
are the subject of `FrameReader`.

### FrameReader

*State.* The fields of the struct, the position in the stream of bytes and how
many bytes have arrived. Buffers are told by their fill level, since a read
appends the next bytes of the stream. `future` says whether a call is pending.

*Cancellation.* `Cancel` drops the future wherever it may await the socket. A
complete frame is returned in the same poll that completed it, so it cannot be
dropped (`Full`). The reader does not know where headers are: bytes that are no
header may decode to any size or to an error (`Decoded`), so that a reader that
lost its place would show.

### PppNegotiation

*State.* `mru`, `peerMru` and `ip` are the options in `LcpState` and
`IpcpState`, `acked` their four flags, `started` is `ipcp_started`. The rest is
the gateway, which is external: what it asks for, what it has acked (`agreed`)
and had acked (`confirmed`), and what it refused. Packets travel in
`toGateway` and `toClient`, in order.

*Atomicity.* The client reads a frame, changes its options, answers, and starts
IPCP if LCP has just opened, before it reads the next frame: one action
(`Finish` is how each of them ends). The packets it writes are few and fit the
socket's buffer.

*The gateway* asks, repeats its requests, naks, rejects, echoes and sends
packets nobody knows in any order RFC 1661 allows it; it drops IPCP packets
that come before LCP is open. Identifiers and the magic number are left out:
the client compares neither.

*Failure.* `torn` says that `open_tunnel` has eaten the head of a frame while
it looked for an HTTP answer. `Fails` is the deadline, a closed connection or a
frame without its head, at any time.

### HelperProtocol

*State.* `pc` is where the daemon is, a command's name while it waits for the
answer. `conn`, `device` and `leaked` are what it holds: the connection, the
session's or preserved device, and devices whose descriptor it has lost.
`work`, `socket` and `buffer` are commands and answers on their way, the last
those already read into the `BufReader`, which `recv_fd` reads past. `tun` is
`tun_fds`. The code is `platform/macos.rs` of `fortivpn`; the one for Linux is a
copy.

*Steps.* The daemon asks one command and waits; the helper answers one at a
time, a connection after the other (`"eof"` in `work` ends one). An answer is a
line; `create_tun` sends a descriptor with a byte of its own before it. Reading
a line may take more into the buffer. `recv_fd` that meets a line takes its
first byte and leaves the rest (`Cut`).

*Faults.* The helper refuses, is slower than the time-out, or crashes, also
between descriptor and line. `TunnelNetwork` has that crash too, with what the
lost descriptor means for the routes; a line that is late, or one that does not
parse, is only here.

*Abstraction.* Commands that undo are one, commands that configure are one.
`version` and `shutdown` are not used by the daemon. A session always has a
keeper here.

### Authentication

*State.* `pc` is the answer `authenticate()` waits for; `response`, `cookie`
and `config` are its locals, `result` what it returns. `wire` holds what the
gateway has sent on the current connection, `requests` what the gateway has
not looked at. The rest is the gateway: what it thinks of the credentials
(`verdict`), what else it says (`body`), which certificates it presents.

*Tokens.* A connection carries header lines, blank lines and pieces of a body,
each named for what the client looks for in it. A read takes any number of
tokens and perhaps a part of the next (`torn`), or the end of the connection.
What a cut text or tag does to the parser is `CutShort` and `Unclosed`.
`Parsed` is the parser's loop, one event at a time. Assumed of the gateway (`AuthConstants`): a
configuration has no blank line in it, the body of an answer to the login
neither sets a cookie nor has the word that asks for a token, and a connection
that ends does so between tokens.

*Faults.* The gateway is unreachable, presents a certificate that is not
trusted, refuses, wants a token, answers with an error page, is slow, closes at
any point; reads and writes fail. There are no time-outs, as in the code.

### StatusFeed

*State.* Of the daemon: the status, the task in a handshake that holds the
mutex, and for each task where it is and what event it is about to send. `sub`
and `unread` are the subscription and what has not reached the tray, `queue`
is the channel between the tray's threads, `cached` is `CACHED_STATUS` and the
menu built from it, `icon` the icon. `main` is where the main thread is.
`told` is a history variable: the last event sent to the tray told the status,
and the status has not changed since.

*Steps.* A handler of the tray is split where it waits for the daemon: the
command, its answer or the read time-out of 30 s, and the status asked for
after it. The main thread does nothing else meanwhile. The subscribing thread
takes an event, notices the end, fetches the status again, and subscribes
again; what happens between the last two reaches nobody, hence `told` starts
with the subscription.

*Faults.* The daemon ends and is started again; a full channel loses its oldest
event; a status request gets no answer while a handshake holds the mutex. A
failed profile write, after which `status` gets no answer either, is left out
here: to the tray it is a status request without an answer, for longer.

### ProfileStore

*State.* `store` and `file` are the profiles in memory and in `profiles.json`,
each a sequence of identities with names. `view` is a settings window with its
list, the selected index (0 is none) and the form: its name field, and, for the
properties, the profile its fields were loaded from (`of`). `list` is the
tray's `CACHED_PROFILES`; `request` is a connect on its way, the profile whose
name and password it carries.

*Steps.* A handler of the settings window is one action: the window is the main
thread's, which waits for the answer. The answer may be lost although the
change was made. Between a save and the reload after it
the daemon may end, so the list fetched may be empty. Other windows save and
delete at any time (`OtherSaves`, `OtherDeletes`).

*Faults.* A write fails or the daemon ends in it (`WriteCut`): the file is as
it was, complete, or torn, which is read as an empty store.

*Abstraction.* Case and containment of names are relations (`Alike`,
`Within`). The keychain may or may not have a password; what it has under an
identity belongs to that profile.

## Runs

Passing:

| Run | Instance | Shows |
|---|---|---|
| `VpnManagerSafety` | 2 clients, 3 sessions, 1 profile, 2 attempts, all faults | whatever commands, deaths and reconnects meet, each session has exactly its own monitor, a held network has an owner, and the manager implements `SessionLifecycle` |
| `VpnManagerLiveness` | 1 client, 2 sessions, 2 attempts, unreachable helper | held networks are released, `Reconnecting` ends, commands are answered |
| `TunnelNetwork` | 2 gateways, addresses and destinations, 3 interfaces, all faults but disagreeing addresses | a session or a held network keeps its routes whatever becomes of the helper; what is adopted fits; a second interface is one whose descriptor was lost; what the next connect would meet in the route table, and anything else, stays behind only if a step broke off |
| `FrameReader` | 4 frames (one empty, one with a broken header), headers of 3 bytes, every way to cut the stream | under any cancellations the frames come out whole, in order and all of them |
| `Bridge` | channel of 1 packet, batches of 1, 2 missed echoes, 1 unread frame | deaths are told; silence is noticed and not invented; a closed connection is noticed; `stop_bridge` ends all tasks |
| `PppNegotiation` | 3 MRUs, the default in the middle, 2 IPCP options of 2 values, 2 refusals, 1 extra packet | the client ends with what the gateway has acked and an MTU that fits both sides; IPCP starts when LCP is open on both sides; neither side waits for the other |
| `HelperProtocol` | 3 devices, 4 commands and answers under way | while answers come in time each command gets its own, whatever was refused or crashed; helper and daemon have one device; no descriptor is lost; every command ends |
| `Authentication` | a configuration of 20 tokens, three bodies, two certificates of which one is pinned | a configuration cut anywhere holds nothing that was not pushed, one that came whole is taken whole; tunnel mode is asked for before the configuration; the error names what happened; the client waits only for a gateway that owes it an answer |
| `StatusFeed` | 1 connection and a monitor, a channel of 2 events, a queue of 1 | whatever events were lost, late or overtaken, a tray that was told the status shows it, and comes to show it while its main thread waits for the daemon again and again |
| `ProfileStore` | 2 identities, 2 names of which one contains the other | a restart brings back what was saved; a save changes the profile that is shown; a password goes to the profile it belongs to |

Each of the others shows that a sentence of the repository is not what the code
does; `PROJECT.json` quotes the sentence in "findings".

| Run | What happens |
|---|---|
| `StuckConnecting` | the helper cannot be reached, and the status stays `Connecting` |
| `OtherAddress` | PPP's address differs from the configuration's: the routes miss the interface |

The models have other such behaviours, without a run of their own.

- *Monitors.* A monitor only looks at the status when its backoff ends: when a
  client has connected meanwhile and that session died too, it goes on beside
  the new monitor, although acting "aborts the loop" (`ipc.rs:113`). It turns
  the `Error` of a failed manual connect into `Reconnecting` (`ipc.rs:210`).
  One that stands down releases the network another holds (`ipc.rs:183`). A
  failed profile write ends the next monitor while it holds the network
  (`ipc.rs:145`). A profile deleted while its session runs leaves the status
  `Reconnecting` for good when that dies, though an error is broadcast
  (`ipc.rs:149`). `README.md:43` says three retries, the code makes five
  (`ipc.rs:110`).
- *Aborts.* `handle_session_death` does not ask whose session it finds. A poll
  that outlives its abort (`vpn.rs:178`) into the next session takes that one's
  profile and password, so that it ends and is not reconnected
  (`vpn.rs:144`); hence `SecretFollowsSession` does not say that a session has
  its password.
- *Network.* A descriptor lost in `create_tun` (`platform/macos.rs:74`) leaves
  an interface whose address the next session may be assigned, although the
  helper closes what it has against "routing conflicts on reconnect" (its
  `macos.rs:108`); hence the exemption in `OneDevice` and the premise
  `Unambiguous` of `TunnelRoutes`. A configuration that fails after the host
  route leaves it (`lib.rs:307`), no later release knows of it, and the next
  connect to that gateway is refused its first command (`routing.rs:93`);
  hence `~spoilt` in `NoRouteInTheWay`. The preserved network is taken before
  the interface is opened again: when that fails nobody restores the host
  (`lib.rs:271`). A held network is released over the connection to the helper as it is; after a
  crash of the helper that restores nothing (`vpn.rs:169`).
- *Bridge.* The comment that the counter "only ever expires on a genuinely
  silent tunnel" (`bridge.rs:20`) has two limits. A reader that waits for the
  channel of a stalled connection counts nothing, so a gateway that is silent
  and takes nothing is not noticed by the echoes (`bridge.rs:592`); and after
  such a stall `select!` may prefer the timer to frames that wait. Hence the
  premises `link = "ok"` of `SilenceNoticed` and `inbox = <<>>` of
  `ExpiresOnlyWhenSilent`.
- *Negotiation.* A rejected LCP option is requested again unchanged, though the
  comment says "remove rejected options and resend" (`bridge.rs:328`); an IPCP
  reject is not answered; up to six bytes of the first frame are lost when a
  gateway sends PPP at once (`bridge.rs:222`). Only the deadline ends the last
  two, hence the premises of `NegotiationEnds`. That deadline bounds the reads,
  not the writes (`bridge.rs:284`).
- *Helper.* An answer later than the time-out of 10 s is read as that of the
  next command. The ping of `ensure_helper` then reads an older answer and
  keeps the connection: a session may run on the device of an earlier
  `create_tun` while the helper holds another one. Hence the premise `InTime`.
- *Authentication.* An answer ends with the read that brought its header
  (`auth.rs:169`): the part of a configuration that comes later is missing
  unnoticed, and an error page or a closed connection counts as a configuration
  without networks. A demand for a token that comes in a later read than the
  header is told as wrong credentials. What is left of the login's answer may
  be read as the answer to the request for tunnel mode if it has a blank line.
- *Tray.* When a client connects and another disconnects, "connected" may be
  the last event broadcast (`ipc.rs:365`), and a connect that is refused while
  connected is broadcast as an error (`ipc.rs:377`); the tray then shows what
  it was told, hence the premise `told`. A change between the second look at
  the status and the subscription after it is shown only with the next event
  (`main.rs:156`). The first icon says disconnected also when the daemon is
  connected (`main.rs:76`). A click is resolved in the list as it is by then,
  not in the one the menu was built from (`main.rs:231`). A connected profile
  the tray has not fetched has no item that disconnects; a reconnect has none
  at all, and `Quit` ends only a session that is up.
- *Profiles.* `profiles.json` is written in place; torn, it is read as an empty
  store (`profile.rs:34`). Nothing is selected after a new profile was saved,
  so saving once more makes another one; so does a save after a reload that
  got no answer (`settings.rs:135`). Deleting leaves the password in the
  keychain. When a profile is deleted or renamed between a client's lookup and
  its connect, the daemon takes one that contains the name, with the password
  of the other: hence the premise of `PasswordMeetsItsProfile`.

*Bounds.* Three sessions are a current one, one whose monitor still sleeps in
its reconnect loop and one more that overtakes both; two clients can act
between each other's critical sections. Two attempts have a first, which is
not the last, and a last. `MaxAttempts` is 5 in the code; the proofs hold for
any. Two gateways and addresses give an old and a new one of each, three
interfaces also a leaked one.
The view of the safety run leaves out the last event, which no action reads. A
channel of one packet is empty or full, with nothing between; with two missed
echoes there is one that does not kill and one that does; one unread frame
suffices for a frame and a tick to compete. A stream of
four frames has two complete ones before the empty and the broken one, and the
header is three bytes so that it can be cut twice (six in the code). The proofs
about both hold for any of these sizes. In the negotiation there is an MRU
below the default and one above; with two options a nak can name one, the other
or both; two refusals are one in each protocol or two in one; one extra packet
is a repeated request, an echo or an unknown one at any moment. Three devices
are one of the session, one of the helper and one on its way; with four
commands and answers under way the daemon may be three behind, which suffices
for a line in the buffer while a descriptor is on its way. The configuration
has each kind of element the parser knows, a name server's tag outside the
list and a route that does not parse; the bodies are none, one that can be cut
between two reads and one with a blank line. A channel of two events lags with
the third (16 in the code) and still has one to go on with. Two profiles are the
one meant and one it can be taken for. In the runs of `FrameReader`, `Bridge`,
`PppNegotiation`, `Authentication` and `StatusFeed` deadlock is not checked: a
failed reader, an ended bridge, an ended negotiation or login stop, and a tray
that has quit may leave a daemon that is down and a user who does nothing.

*Fairness.* `Fairness` in `VpnManager` is strong fairness of each task's own
steps: tokio polls every task that can run, and its mutex serves waiters in
order, so a task whose turn comes again and again gets it. Clients need not
send commands, bridges need not die. The end of a handshake is not assumed,
since connecting and reading the HTTP answer have no timeout (`bridge.rs:129,
200`); the liveness properties have the premise `HandshakesEnd` instead.

In `Bridge` the writer and the reader have strong fairness: the channel serves
its senders in the order they came, and `select!` picks at random among what is
ready. `Interval` is weakly fair because time passes, `StopBridge` because its
waits have a time-out. Traffic from either side is never assumed.
In `FrameReader` reads have strong fairness for the same reason: a caller that
cancels again and again still reads in the end. In `PppNegotiation` the client's
own steps are weakly fair, since they are always ready until taken. Nothing is
assumed of the gateway or the deadline: `NegotiationEnds` has the premises that
the gateway does what is its turn again and again (`[]<>~GatewayOwes`) and that
nothing fails. In `HelperProtocol` a read ends by its time-out; nothing is
assumed of the helper. In `Authentication` the client's own steps are weakly
fair; nothing is assumed of the gateway, so `AuthenticationEnds` has the premise
that it looks at each request, or closes. In `StatusFeed` the tray's threads
run and its reads end by their time-out. Its main thread takes turns between
clicks and the listener, and the executor serves tasks in order: a listener
that is ready again and again gets its turn (strong fairness of `Listen`).
Nothing is assumed of the daemon or the user. `ProfileStore` has no liveness
property: what a user does not do need not happen.

## Proofs

Every safety property of the passing runs, invariant or action property, and both
refinements are proved for all values of the constants; where a proof has a
premise of its own it is named below. Of three liveness properties the safety
half is proved too: that where they wait there is something to wait for. The type
invariants
(`TypeCorrect`, `ReaderTypeCorrect`), part of every inductive invariant, are
proved and not checked again by the runs.

`VpnManagerProofs` proves for any sets of clients, sessions and profiles and any
number of attempts that the safety properties of the run hold and that
`VpnManager` implements `SessionLifecycle`. They rest on `ConstantsOK` only. The
inductive invariant `IInv` adds to the properties what makes them inductive:

- a session is up exactly when the status is `Connected`, so the guard of
  `connect_with_password` keeps a session from being overwritten;
- the mutex is held exactly by the task that is in a handshake, and the status
  is `Connecting` then, so no other monitor believes its reconnect is due;
- the receiver and the handle belong to the session that is up;
- a task that connects has a profile, and password and profile are those of
  the session;
- a held network belongs to a monitor in the reconnect path that is not
  aborted;
- an abort is pending only up to the second use of the mutex.

There is one lemma per conjunct, with one step per action.
`ReconnectingIsBacked` needs two more invariants, on the store and on the
monitors, and holds when no profile is deleted and no write fails.

`TunnelNetworkProofs` proves the invariants of its run for any gateways,
addresses, interfaces, destinations and faults, from `NetworkConstants`. Its
inductive invariant says, for each value of `pc`, who has the interface open
(`FdInv`), whose address it has (`AddrInv`), what is installed (`HostInv`) and
what is not unless a step broke off (`CleanInv`). `SecondDeviceWasLeaked`
follows from `FdInv`: the holders agree on one interface. Where the routes lead
is a second invariant on top of it. `DeviceInv` says that those of a session or
a held network lead into its interface as long as no leaked one has the same
address; `LeftInv` that without a leak those left after a failure lead into the
interface the helper still has, which it closes before the next one. Both rest
on `ViaInv`, that PPP assigns the address of the gateway's configuration, so
`RoutesSurvive` and `InstalledOnCleanTable` assume `"ppp_ip" \notin Faults`; the
run `OtherAddress` shows what happens otherwise. `TeardownStep` and
`TeardownIInv` do the three ways a network is taken down at once.

`DataPathProofs` is about the two modules between the connection and the TUN
device. Of the reader it proves for any stream of frames that the reader implements
`FrameSource`, which holds safety only. The inductive invariant says where in
the stream the reader is: inside the header or the payload of the frame after
the last one it handed out, with exactly that frame's size, so every header it
decodes is one. Beside the laws of the stream (`StreamConstants`) nothing is
assumed.

Of the bridge it proves, from `BridgeConstants`, that the channel and the counts
stay within their ranges, `NoQuietEnd`, and `ExpiresOnlyWhenSilent`. The first
needs that nobody is woken or aborted before `stop_bridge` is called. The last
rests on `TicksAreSilence`: the ticks that are counted, on their way into the
channel, or due are at most one more than the silent intervals, once everything
received is read. `StopForgetsNobody` is the safety half of `StopEndsAllTasks`:
whom `stop_bridge` has gone past has ended or is aborted, because what has ended
stays so and an abort is not taken back (`EndedStays`).

`PppNegotiationProofs` proves the three invariants of its run for any MRUs, any
options and any number of refusals and repetitions, from `PppConstants`.
No packet carries an identifier the client compares, so everything rests on how
many are under way: in each protocol one request of the client's or one answer
to it, and none once it is acked (`OneUnderWay`); what is under way carries what
the client now wants, or the ack is not on its way (`Current`). The client acks
only what it was asked for (`OnlyAsked`), with the values last asked for
(`Heeded`), and what it says of IPCP is behind the ack that opens LCP at the
gateway (`LcpFirst`).

`NoStandstill` is the safety half of `NegotiationEnds`: if the client has nothing
to read and the gateway owes nothing, all four acks are there, unless the gateway
has rejected an IPCP option. It needs the converse of the above (`Progress`): what
the client has asked for and not got acked is on its way as a request or as an
answer (`FollowsUp`), what it was asked it has acked or will still read (`Hears`),
and IPCP has started once LCP is open. Since the gateway never takes an IPCP packet
before LCP is open (`TakenInTime`), none is dropped.

`HelperProtocolProofs` proves `OwnAnswers`, `OneDevice` and `DescriptorKept`
for any devices and any number of late answers, from `ProtocolConstants`.
`Agreement` says for each value of `pc` what is in `work`, `socket` and
`buffer` while answers come in time: exactly the command the daemon waits for,
or its answer, with the rest of a refused `create_tun` before it at most where
a ping is next. `Clean` says that a new connection starts with nothing on it,
whatever is left of the ones before; `SameDevice` is `OneDevice` made
inductive.

`StatusFeedProofs` proves `ShowsWhatItWasTold` for any number of connections
and any size of the channels, from `FeedConstants`. `ToldComesLast` says where
the event that told the status is: last in the channel to the tray; or, if that
is empty, last in the queue between its threads; or, if that is empty too,
shown. A channel that overflows loses the oldest, which is not that one as long
as it holds one at all, and a status fetched past the queue is either that
status or is overwritten by it.

`ProfileStoreProofs` proves all three properties of its run for any identities
and names, from `StoreConstants`. The invariant says that identities are given
out before anybody holds them (so a new profile replaces none), that the form's
fields are those of the selected profile, and that the file says what the store
does unless a write was cut short. A search that returns the first position is
an `IF` over a `CHOOSE` of a minimum; that there is one follows from
well-founded induction on the naturals, applied to the set of positions.

`AuthenticationProofs` proves the four invariants of its run for any
configuration, any bodies of answers and any way the answers are cut into
reads. The argument has two halves.

The first is about the conversation. `Exchange` says that what the client has
read of an answer and what it can still read are together the beginning of that
answer (`Begins`), that nothing is there while the gateway has not looked at the
request, and that all of it is there otherwise unless the connection ended. So a
position in `response` and `wire` is a position in the answer, and a blank line
that was read is the one after the header. `PageComes` says what
`TunnelModeFirst` needs: without a blank line in the login's body, the
second answer has none until the gateway has looked at the second request.
`Settled` keeps a complete answer from being replaced after the end.
`HeaderComes` says that the header of an answer that was given is in `wire` as
long as the client has not read it; from it follows `NeverWaitsInVain`, the safety
half of `AuthenticationEnds`: a client that reads has something to read, or the end
of the connection, unless the gateway still owes the answer.

The second is about the parser, a recursive function of the position.
`ParsingSteps` derives its equation from the function's existence; the rest are
inductions over positions, each the statement that a set which holds 0 and with
a position the next one holds them all (`UpTo`, from well-founded induction).
Two token sequences that agree up to a position leave the parser in the same
state there (`ParsingAgrees`), and the parser takes nothing back
(`ParsingGrows`). Hence what it makes of a beginning of the configuration is a
beginning of what it makes of the whole (`AnswerSays`). The head of a text that
was cut short changes nothing, since a text counts with the end of its element
(`CutTextIgnored`).

Beside `AuthConstants` these theorems assume what their properties speak of:
the gateway gives one address and one domain (`GivenOnce`; of two the parser
keeps the last, and a cut configuration could have the first), and `Pushed` is
what the parser makes of the whole document (`Pushed = Parsed(Document)`, for
`ConfigurationNotInvented` and `WholeAnswer`). The run gives `Pushed` by hand,
so there the parser is checked against what the document means.

Only model-checked: the liveness properties themselves, since TLAPS 1.4.5 has no
rules for `ENABLED` and fairness that would do. What an operator computes is proved
where a property needs it, as above; it is not compared with a second
definition of it.

## Not modelled

- The texts: HTTP and XML beyond the tokens, the encodings of PPP, JSON, names,
  messages. Where a conversion can fail or lose something, the modules say so
  (`Parsed`, `CutShort`, `Decoded`, `torn`).
- Drawing, dialogs, notices and logging: nothing reads them back.
- Fetching a gateway's certificate into the form (`settings.rs:216`): it fills a
  field the user then saves or not.
- The keychain. A password the settings window stores belongs to the identity it
  saved; whether it is there is left open. Setting passwords from the command
  line is the same.
- Installation of the helper, start of the daemon, the Windows stubs and the
  exit of an idle helper: they keep nothing the modelled parts read.
- Redirects of the gateway and the dialog for a token: the code has none.

## What is left

One composition would add to this: `VpnManager` with `TunnelNetwork`, in which
`preserved` is the state `held` and the manager's faults are the network's. It
is stated so far by one module's assumption on the other: the manager's actions
are the network's steps under one mutex. `HelperProtocol` and `TunnelNetwork`
share the crash between a descriptor and its line; a late line, which may leave
helper and daemon with two devices, is not carried into the network. In
`ProfileStore` a second window is its saves and deletes; its own list and form
would be a copy of `view`.

# A TLA+ model of orange-tcp

orange-tcp is a small user-space network stack: raw Ethernet frames, ARP with a
cache that is kept on disk, the sending half of IPv4, and ICMP echo requests.
Programs (`arping`, `ping`, `eth_echo`) run it, each process on its own raw
packet socket. Beside it, `src/reference` keeps C programs it was learned from: a
tunnel and two packet monitors among them. This directory holds TLA+ modules that
model the stack and those programs, TLC configurations that check them on small
instances, and TLAPS proofs of their invariants for instances of every size.

## The system and its parts

| Part | Source (`src/orange-tcp/`) | Module |
|---|---|---|
| raw packet socket, cached host addresses | `socket.h`, `raw_socket.cc` | `Link` |
| Ethernet framing and CRC, bytes | `eth.h`, `eth.cc` | `EthFrame` |
| Ethernet as ARP and IP see it | `eth.cc` | `Link` |
| ARP: cache, file, requests, responses | `arp.h`, `arp.cc` | `Arp` |
| `arping`, server and client | `arping.cc` | `Arping` |
| text format of cache and routing table | `serializable_map.h`, `net.h` | `CacheFile` |
| Internet checksum | `ip.cc` | `Checksum` |
| routing, datagrams | `ip.h`, `ip.cc` | `Ip` |
| `ping`, with `arp::GetMac` | `ping.cc`, `arp.cc` | `Ping` |
| `eth_echo` | `eth_echo.cc` | `EthEcho` over `Taps` |
| simulated network of the ARP test | `network_sim.*`, `arp_test.cc` | `NetworkSim` |
| tun/tap tunnel | `src/reference/simpletun.c` | `Tunnel` |
| packet monitors | `src/reference/arp.c`, `sniffer.c` | `Monitors` over `Taps` |
| short examples, scripts, build files | other files of `src/reference`, `BUILD`, `*.sh` | not modelled, see below |

State that the code keeps: `g_arp_cache`, `g_routing_table` and the `loaded`
flags (statics of a process); `host_ip_` and `interface_index_` with their
`cached` flags; the cache file on each host; the receive queue of each socket;
where each program is in its loop. Frames, files and queues are shared, so
everything interesting happens between processes: frames are lost, flooded to
hosts they are not for, damaged, or dropped by a full queue; processes of one
host tap each other's frames; a process may be killed at any point; system calls
fail; an administrator gives `eth0` another address.

`Arping` and `Ping` compose the layers: `Link`, then `Arp`, then `Ip`, each
extending the one below, with the operations as actions whose parameter `status`
is what the call returns. `EthFrame`, `CacheFile` and `Checksum` look inside one
operation each, at the level of bytes or characters, and stand alone. `Tools`
composes `EthEcho` and `Monitors`, which see each other's frames on one link.

Two modules are abstract specifications, which promise something without saying
how, and which the detailed ones are shown to implement: `Resolver`, a durable
table of bindings, by `Arping`; and `FramePipe`, a pipe for packets, by `Tunnel`.

## Modules

**`Link`.** `ifIp`, `ifMac` are eth0's addresses; `heldIp`, `heldMac` record all
it ever had. `up`, `q`, `hostIp`, `ifIndex` are a process's socket, its receive
queue, and what `RawSocket` caches (`NoIp` means not cached; the MAC address is
never cached, as in the code, whose flag is never set). The kernel is external:
`Deliver` appends to queues and drops at the bound, `Arrivals` says which hosts
may see a frame. The constant `Faults` says what may go wrong in an instance, and
`ReaddressMax` how many other addresses the hosts may be given.
A frame carries `fcs`, TRUE when its last four bytes are its CRC. All frames
that matter here are 64 bytes and so is every receive buffer, which is why
sizes are left to `EthFrame`.

**`Arp`.** `cache`, `loaded`, and `file`, the map in the file of each host.
`Request`, `HandleRequest` and `HandleResponse` translate the functions of those
names, one disjunct per outcome in the order of the code's early returns.
`SerializeArpCache` is split in two: the open, which truncates
(`std::ios::ate` with an output stream does not prevent that), is the end of
`HandleResponse`; the write is a step of its own. `asked` is a history variable.

**`Arping`.** Servers loop on `HandleRequest`; a client loads the cache, requests,
waits, saves, `--num_requests` times, and stops at the first failure. One client
per host, so that `file` has one writer; several writers are `CacheFile`'s.

**`Resolver`.** Each host has a table that outlives the runs of the program. It gains
one binding at a time, of addresses that some host has had, and keeps the rest; or
it is forgotten as a whole. The refinement mapping takes the file for the table,
except while a client saves, when the client's memory stands for it (`Kept`): so
the truncating open and the write together are one step of the table, or, if the
client is killed between them, `Forget`.

**`CacheFile`.** The text of the file, as a sequence of cells: a delimiter, or the
n-th character of an address. `serialize`, `substr` and `deserialize` translate
the class: `Lines` is its writing loop, `Turn` one turn of its reading loop and `Turns`
the loop. What overlays what depends on the lengths of the addresses, which are
those of Docker's network. An unreadable MAC address may become any value,
because `MacAddr::FromString` returns uninitialised bytes; reading past the
buffer (`remaining_` wraps around) ends the process. A save is two steps, and
with `DiskFull` its write may stop anywhere; `short` remembers whether one has, and
whether it was the last, since what can be said of the file depends on it.

**`EthFrame`.** Bytes are sets of bits, so exclusive or is symmetric difference.
`CrcBits` and `CrcLoop` are the inner and the outer loop of `crc32`; the wire flips bits;
`RecvEthernetFrame` sees at most its buffer's size. The CRC of `eth_test.cc` is an
assumption that TLC evaluates, and `Crc802_3` is the definition of the standard, a
division of polynomials, to compare `crc32` with.

**`Checksum`.** One action per turn of the loops of `ip::Checksum`, first over a
buffer with a zero checksum field and then over the one with the result stored.
Buffers have FieldAt as in ICMP. `total` and `carried` are ghosts.

**`Ip`, `Ping`.** `StartDatagram`, `GetMac_Request`, `GetMac_Response`,
`SaveCache`, `FinishDatagram` are `SendDatagram` cut where it waits. The routing
table file is a constant (nothing writes it). Echo replies come from kernels
and carry no software CRC: they are among the frames of `Stray`.

**`Tunnel`, `FramePipe`.** The two ends of `simpletun`, from `tun_alloc` and the
connection to the exit. A direction of the TCP connection is a queue of
bytes with room for `Capacity`; `write` goes on in pieces as room appears, and
`read_n` is one step per `read`, each of which returns any part of what is there.
`pc`, `netSet`, `out`, `plength`, `buffer` are what `main` knows; `taken` and `given`
are histories of the packets read from and written to the interfaces, and are
what `FramePipe` calls accepted and delivered. Every call may fail, an end may be
killed anywhere, and what was under way then arrives in part.

**`Taps`, `EthEcho`, `Monitors`, `Tools`.** `Taps` is the link as the small programs see
it: a socket may have a filter, attached after it is opened, and a frame has
what these programs look at (destination, EtherType, byte 23, length, CRC,
payload). `EthEcho` has the server, which answers also after a receive that
failed, with what its buffer holds, and the clients. `Monitors` has `arp.c` with
the window between `socket()` and `setsockopt()`, and `sniffer.c` with its
counters and the log file that it writes to without a check. All disturbances
(losses, foreign frames, failing calls) draw on one budget, `NoiseMax`, so that
properties can speak of a link that has been quiet so far.

**`NetworkSim`.** Hosts with a queue per sender, and the operations of `FakeSocket`.
`Push` and `Pop` work on a copy of the queue, as the code does; `pushed` is what
the queues would hold otherwise.

The modules `MC...` hold the values of the constants. Operators with a suffix (`Deliver_Unbounded`,
`Learn_Nothing`, ...) stand before the definition they vary, are used by nothing,
and are plausible mistakes: with one in place of the definition a property must
fail. `PROJECT.json` says which, and maps every definition to its source lines.

## Runs

| Run | Configuration | Shows |
|---|---|---|
| `arping` | one server, one client that asks twice, three addresses of each kind; loss, flooding, failing calls, kills, a new address for eth0, a damaged response and a foreign frame | `TypeOK`, `BindingsOwned`, `RepliesSolicited`, `ReportedIsOnDisk`, `DiskMirrorsMemory`, `DropsAreRewritten`, `ImplementsResolver` |
| `arping_quiet` | two servers, no faults, with fairness | `ResolvesTarget`, `RequestsAnswered` |
| `arping_tap` | client and server on one host | violates `NoOutgoingFrames` |
| `cachefile` | one process at a time, killed anywhere, writes that stop short, addresses of two lengths | `TypeOK`, `FileReadable`, `LoadsOnlySaved`, `LoadInvertsSave`, `ShortSaveSpoilsOne` |
| `cachefile_overlap` | two processes, addresses of two lengths | violates `LoadsOnlySaved` |
| `ethframe` | frames of 8 and 9 bytes, all patterns of up to two flipped bits, receive sizes around every limit | `TypeOK`, `DamageDetected`, `PayloadDelivered`, `FcsIsCrc` |
| `checksum` | buffers of 4 to 9 bytes over 0, 1 and 255 | `ResultCancels`, `VerifiesToZero`, `Terminates` |
| `ping` | default route, two ARP servers, all faults but new addresses | `TypeOK`, `GatewayUsed`, `BindingsOwned` |
| `ping_routes` | a default route and a listed one | violates `ListedRouteUsed` |
| `tunnel` | packets of one and two bytes, two from each end, a connection that holds two bytes, kills and failing calls | `TypeOK`, `BufferFits`, `StallsOnlyWhenFull`, `CarriesPackets`, `OneWayDelivered`, `EndsTogether` |
| `tools` | an echo server, two clients and a monitor of either kind; one disturbance | `TypeOK`, `QuietAnswers`, `WrongTypeOnlyEarly`, `CountsAddUp`, `LoglessStops`, `ClientsReturn`, `EchoSettles` |
| `netsim` | two simulated hosts | violates `DataWaits` |

The properties are stated, with the behaviour of the code each is about, at the
end of their modules. In short:

* `BindingsOwned`: no cache, in memory or on disk, pairs one host's IP address
  with another's MAC address. This holds although `HandleResponse` checks nothing
  but the opcode, because only a host answers for its address and the CRC keeps
  damaged packets out. That a binding is one of a host's *past* addresses is
  possible, and cannot be excluded: entries never expire.
* `RepliesSolicited`: each intact response in a queue answers a request its target
  made. `ResolvesTarget`, that a client gets the address it asked for, needs a
  client that is alone and waits until it is answered: after a kill, a failed
  call, or another client's request, which ends the wait, a late reply to an
  earlier question is accepted.
* `DiskMirrorsMemory`, `DropsAreRewritten`, `ReportedIsOnDisk`: what the file holds
  at each point of a client's life. A kill between open and write leaves it
  empty; no other step loses a binding.
* `ImplementsResolver`: all of the above as one promise about what outlives a run;
  a client that stored a reply under another address, or that lost one binding
  while it saved another, would break it.
* `ShortSaveSpoilsOne`: a cut-off file yields at most one wrong binding.
  `FileReadable`: the next whole save heals it.
* `CarriesPackets`: however the kernel cuts the writes and reads up, and wherever an
  end dies, `simpletun` delivers the packets whole, in order and once
  (`FramePipe`). `BufferFits` is why the unchecked length does no harm between two
  such ends.
* `StallsOnlyWhenFull`: the ends can block each other, when both write into a full
  connection, since neither reads while it writes. That state is reachable; the
  property says that it is the only one, and `OneWayDelivered` that traffic in one
  direction always gets through. `EndsTogether`: an end that goes away takes the
  other with it.
* `QuietAnswers`: an `eth_echo` client reports the echo of a request, or the request
  of another client, which it cannot tell from an answer. `EchoSettles` holds for
  one server: it does not see its own echoes.
* `WrongTypeOnlyEarly`: `arp.c` exits with "wrong ethernet type" only over a frame
  that was queued before the filter was attached.
* `CountsAddUp`, `LoglessStops`: what the counters of `sniffer.c` say, and that
  without its log file it ends with the first packet it prints.

### Disagreements with the repository's own words

* `arping_tap`: `raw_socket.cc:12` says "Not using ETH_P_ALL since it also
  receives outgoing frames."; line 14 uses it, and a server takes a request of its
  own host from its queue.
* `cachefile_overlap`: two savers overlay each other's text, and a load returns a
  pair nobody stored, unlike `serializable_map_test.cc:35`.
* `ping_routes`: `ip.cc:91` prefers the default route to the one listed for the
  destination, which the comment at `ip.cc:24` describes.
* `netsim`: `network_sim.h:65` speaks of "Queues holding data waiting to be received
  on this host."; `Push` inserts into a copy, and nothing ever waits there.

### Bounds

Queues hold one or two frames, so that they overflow; a client makes one or two
requests, so that the second finds a cache entry; two or three hosts are enough
for a reply to come from the right host, a wrong one, and a neighbour. The
proofs cover every other size for the properties they state. `ReaddressMax` is 1
in `arping`, so that an old and a new address meet, and 0 elsewhere. `FlipMax` is
2 because a CRC of this degree
detects all such patterns in frames of this length; beyond its distance no such
property holds. In `tunnel`, `Capacity` is smaller than any frame, so that every
write is cut up and both directions can fill; `PacketMax` is 2, so that a second
packet follows one that a length or a piece could be confused with. `NoiseMax` is
1 in `tools`: each property is about what one disturbance does, or none. In
`netsim` one call of `SendTo` is enough for the violation. Nothing else is bounded:
the processes of `Arping`, `Ping` and `CacheFile` restart for ever.

`CHECK_DEADLOCK FALSE` is set where the programs may stop. In `arping_quiet`,
`arping_tap` and `ping_routes` a client that asks for an address nobody serves
waits for ever (there is no timeout, and without kills nothing ends it); `Checksum`
returns; the ends of the tunnel exit, or stall as described; in `tools` all
clients finish and the server waits; in `netsim` the exception ends the test.

### Fairness

`FairSpec` of `Arping` has weak fairness of each running process's steps: the kernel
schedules it and wakes it when its queue is not empty. Starting and killing
processes, and the environment, are not fair. `FairSpec` of `Checksum` says that a
running function goes on running. In `Tunnel` and `Tools` fairness is stated on
the steps in which nothing fails: a process that can go on does, and
no call is obliged to fail, nobody to start, and no packet to come from an
interface. So a property that something eventually happens does not owe it to an
error.

## Proofs

Each component's theorems are in a module of their own, and hold for any sets of
hosts, processes, addresses and packets, any bounds and any faults, except where
a theorem states hypotheses. `ArpProof` holds the lemmas about `Link` and `Arp` alone:
what each operation preserves, whichever program calls it. On them rest the
theorems about `arping` and `ping`.

For `arping`:

* `TypeCorrect` (`ArpingProof`): `Spec => []TypeOK`. The inductive invariant adds
  `Control`: where a client may be, given what it has loaded.
* `BindingsAreOwned`, `RepliesAreSolicited` (`ArpingProof`), from `SafeInv`. A binding
  is learned from a frame, so the invariant must speak of frames in queues: an
  intact response pairs owned addresses and was asked for, an intact request
  carries addresses its sender has had. Addresses in use or cached are held
  ones, and held ones are never given up, so what is sound stays sound.
* `LoneClientResolves` (`ArpingProof`): `ResolvesTarget`, under the hypotheses that make
  it true (`OneClient`): one client, at most one server for an address, no stray
  frames, no kills and no failing calls, and as long as no host is given another IP
  address (`[][UNCHANGED ifIp]_vars`). Frames may be lost and flooded, MAC addresses may
  change, and a server may run beside the client, which is more than the run
  `arping_quiet` allows. `QuietInv` says that outside `HandleResponse` no queue
  holds a frame that the client would take or a server would answer, and within it
  at most one, about the client's target.
* `DiskIsMirrored`, `ReportedAddressesAreOnDisk`, `DroppedBindingsAreRewritten`
  (`ArpingProof`), from `DiskInv`, which relates, for each client, its position,
  its map and its host's file, and uses that a host has one client.
* `ArpingImplementsResolver` (`ArpingProof`): `Spec => ImplementsResolver`. It needs
  all three invariants: `DiskInv`, for the file to equal the memory that `Kept`
  switches to, and to be empty when a saving client is killed; `SafeInv`, for the
  learned pair to belong to one host; `TypeInv`. Steps of a process change what is
  kept for no other host (`OthersKept`); those of a host's own client keep, lose or
  gain (`OwnKept`).

For `ping`:

* `PingTypeCorrect` (`PingProof`), with what `SendDatagram` has at hand at each
  point: its own address, the routing table, the result of `GetMac`.
* `PingBindingsAreOwned` (`PingProof`), from the same `SafeInv`; datagrams add
  frames that are no ARP packets.
* `DatagramsGoToGateway` (`PingProof`): `GatewayUsed`, if all hosts that ping
  have the same default gateway `g`. `HandleResponse` does not compare the answer
  with the question, so the argument is global: only `g` is ever asked for, hence
  (`SafeInv`) only `g` is answered for, stored and found. With two gateways, or
  without a default route, a late answer to another question may be used.

They rest on the assumptions named in `Link`, `Ip`, `Arping`
and `Ping`: addresses are not the
placeholders, and frames from outside are damaged or no ARP packets
(`StrayAssumption`: another ARP implementation that appends a software CRC could
say anything).

For `eth.cc` (`EthFrameProof`), for any header, payloads and limits:

* `FrameTypeCorrect`: `TypeOK`, frames lie between the minimum and the maximum size.
* `IntactFramesAreDelivered`: `PayloadDelivered`, from `FrameInv`: the frame on the wire
  is the one made of the payload sent last. `FrameLayout` takes it apart again. Of
  `crc32` this needs only that it is a function of the bytes.
* `BurstsAreDetected`: `DamageDetected`, where the buffer has room for the frame
  (`Fits`) and all flipped bits lie within 32 consecutive ones (`Burst`), in
  frames of any size and for any number of flips. A turn of the inner loop is
  linear (`TurnLinear`), so the loop's values for the frame as sent and as received
  differ by what the loop makes of the flips alone (`DiffUnfold`). If both have the
  right CRC, nothing is left of the difference at the end (`SameEnd`). A turn can be
  followed backwards, because bit 31 of its result tells bit 0 of its argument
  (`TurnBack`): from the end back to the first damaged byte the difference stays
  in the low bits (`ByteBack`), and a first damaged bit does not leave it there
  (`FirstByte`).
* `FramesCarryTheirCrc`: `FcsIsCrc`, from `Crc32Divides`: `crc32` is `Crc802_3` for every
  message. One turn of the inner loop is one step of the division (`TurnDivides`). The
  invariant of that argument, `Shows`, says that what is left of the dividend is
  the value of `crc`, reflected, exclusive or the bits of the message not yet read.

For the cache file (`CacheFileProof`), for any addresses, lengths of addresses, processes
and bindings:

* `CacheFileTypes`: `TypeOK`, with no restriction on how processes interleave. Whatever
  two savers make of the file together, `deserialize` makes a map of it, or reads on
  beyond its buffer (`LoadType`), and no map has a longer text than a line per
  address (`LongestText`).
* `ReadableFile`, `OnlySavedLoads`: `FileReadable` and `LoadsOnlySaved`, for any number of
  processes, as long as no two saves overlap (`NoOverlap`); the run `cachefile_overlap`
  shows that the second fails otherwise. `FileInv` says that the file is the text of
  one map, or the beginning of it after a write that stopped short (`Holds`), and that
  a process about to write finds the file empty (`Truncated`).
* `LoadsInvertSaves`, `ShortSavesSpoilOne`: `LoadInvertsSave` and `ShortSaveSpoilsOne`, for a
  process that has the file to itself (two processes each have a memory of their
  own, and one file), through all its restarts. `SoloInv` adds that such a process has
  in memory the map the file holds, or one that it loaded from it.

All four rest on two lemmas about the text: `LoadWhole`, that `deserialize` makes of the
text of a map that map, and `LoadCut`, that of a cut text it makes that map up to the
line that is cut, anything at its address, and nothing after it. They follow the reading loop line by line along the
writing loop.

The proofs about `crc32`, `serialize` and `deserialize` go by induction over data. The
library's induction theorems take a predicate as parameter, which the
provers cannot instantiate, so both modules first derive from `WFMin` a form of
induction over sets of numbers (`Induction`) and the existence of functions
defined by primitive recursion (`PrimitiveRecursion`). For this the loops are
written as recursive functions of the number of turns.

For `Checksum` (`ChecksumProof`), for all buffers up to 128 KiB:

* `ChecksumCancels` (the result is the complement of the ones' complement sum of the
  words) and `SumFits` (the 32-bit accumulator does not overflow). The invariant
  is `total = sum + 65535 * carried`; folding takes a multiple of 65535 out of `sum`.
* `ChecksumVerifies`: `VerifiesToZero`. `SumsInv` carries along a table of prefix sums
  without the checksum's own word. The first pass builds it, and the second finds
  it valid for the buffer that now holds the checksum, so that both totals are
  known without induction over the buffer.

For `simpletun` (`TunnelProof`), for any packets of 1 to `BUFSIZE` bytes, any capacity
and any faults:

* `TunnelTypeCorrect`, `TunnelBufferFits`: `TypeOK`, `BufferFits`. A length that is read is
  right only if the reader stands at the beginning of a frame, so `TunnelInv` speaks
  of the whole stream: there are a byte sequence and the positions where its
  frames begin (`IsStream`), and what the reader holds, what is in the connection
  and what the writer has not written yet are adjoining pieces of it that end where
  the last frame ends (`Flow`). Every step moves a piece's boundary (`FlowWrite`, `FlowRead`),
  appends a frame (`FlowTake`) or cuts the stream off where an end stops (`FlowCut`).
* `StallsInOneWay`: `StallsOnlyWhenFull`, with `ReadyInv`: an end that has been told to
  read finds something to read, since only it takes bytes away.
* `TunnelImplementsPipe`: `Spec => CarriesPackets`. Each step maps to one of `FramePipe` or
  changes nothing there; a delivered packet is the next one taken by `TunnelInv`.

For `eth_echo`, `arp.c` and `sniffer.c` together (`ToolsProof`):

* `ToolsTypeCorrect`: `TypeOK`, with the places each program can be at.
* `WrongTypesAreEarly`: `WrongTypeOnlyEarly`, from `WrongInv`: behind the first `early` frames of
  a monitor's queue there are only frames that the filter lets through.
* `SnifferCountsAddUp`: `CountsAddUp`, if the frames from outside are `Plain` (ARP packets,
  and only they, carry no protocol number that the switch names; the property's
  last part is false otherwise), and `LoglessSniffersStop`: `LoglessStops`. Both rest on
  `SniffInv`, the first also on `PlainInv`: such frames only are in the queues.
* `AnswersWhileQuiet`: `QuietAnswers`, from `QuietInv`: which frames may wait for whom.

Model-checked only: liveness, which the prover does not treat (`RequestsAnswered`,
`Terminates`, `OneWayDelivered`, `EndsTogether`, `ClientsReturn`, `EchoSettles`); `DamageDetected` for
frames that are cut off or whose flipped bits are further apart, which is a fact
about the sizes of an instance and false for some: no CRC detects everything;
the simulated network.

## Not modelled

* `raw_socket_eth.c`, `raw_sockets.c`, `raw_sockets_all.c` and `tun_test.c` of
  `src/reference`: each opens a socket or an interface and sends or prints. They
  keep no state and promise nothing that a model could check. The build files
  and scripts have no behaviour of the stack.
* `Send`, `RecvFrom`, `RecvAll` of `RawSocket`: no caller. `Send` and `Recv` of
  `FakeSocket` only return -1. The target of `arp_test.cc` does not compile
  today: `FakeSocket` lacks functions of its base class.
* Frames shorter than an Ethernet header and its CRC, for which the sizes in
  `RecvEthernetFrame` would wrap around: the stack sends none, and frames of
  other stacks have no software CRC and are refused before.
* Two sockets in one process (the `cached` flags are static, the values are not): no
  program opens two. Two echo servers on one link: they answer each other for
  ever, and the repository runs one.
* What the exit status of `ping` says about the reply: nothing in the repository
  states it, so there is no property to check.
* Options, logging, printing (`dump_arp`, the `print_` functions of `sniffer.c`, `show`),
  usage messages, and the header fields nothing examines.
* `htons` and `ntohs`, which cancel out on one machine type.

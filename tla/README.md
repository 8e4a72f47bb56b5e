# Verification of tinySSB

tinySSB replicates append-only, signed logs ("feeds") among small devices, over
LoRa, Bluetooth and websockets, without connections that anybody could rely on:
packets have 120 bytes, nothing is acknowledged, every node keeps telling the
others what it has and what it wants. The repository promises two things that
are hard to test: "Eventually, all updates to a log will reach the interested
parties" and that replicas "converge to the same shared state" (`src/README.md`,
lines 15-16 and 29-30), the second one also across crashes ("crash resistant",
`src/py/simplepub/README.md`, line 22).

This directory holds TLA+ models of the code that has to keep these promises,
the configurations TLC checks them with, and theorems about them with proofs
checked by TLAPS.

Contents: 1 the system, 2 what is hard, 3 the models, 4 the runs, 5 fairness,
6 the proofs, 7 findings, 8 what is not modelled, 9 the plan.

## 1. The system: components, state, operations, interaction

All of the implementations share one architecture; paths are below `src/`.

| component | code | state | operations | talks to |
|---|---|---|---|---|
| Replica | `py/simplepub/simplepub/replica.py`; Kotlin `Replica.kt` (with `mid.bin`, the message IDs) | two files per feed: `log.bin` (entries, each with room for its side chain and a back pointer) and `frontier.bin` (`max_seq`, `max_pos`, hash of the last entry, open side chains) | `__init__` with catch-up, `ingest_entry_pkt`, `ingest_chunk_pkt`, `write`, `write48`, `get_entry_pkt`, `get_chunk_pkt`, `get_open_chains` | called by the node; files |
| GOset | `esp32/.../goset.cpp`; `py/simplepub/simplepub/goset.py`; Kotlin `GOset.kt` | sorted feed IDs, pending claims, novelties waiting, credit | `add`, `rx`, `tick` (rounds of claims, requests for help, help), zap | send queue; tells node and repository of new feed IDs |
| Node | `py/simplepub/simplepub/node.py`; `esp32/.../node.h`, `repo.cpp`; Kotlin `Node.kt`, `Repo.kt` | the WANT and CHNK offsets, prefixes that stand for the GOset's state | send the vectors; answer them with entries and chunks; hand entries and chunks to replicas | demux, replicas, GOset |
| Demux | `node.py` (`dmxt`, `chkt`); `esp32/.../dmx.cpp`; `Demux.kt` | tables from 7-byte prefixes and from hashes to handlers | `arm_dmx`, `arm_blb`, look-up | node, GOset |
| Faces, queues | `esp32/.../io.cpp`; `py/simplepub/spub.py`; `IO.kt`, `ble/*` | a send queue per face; receive rings; tasks per connection | `io_enqueue`, `io_dequeue`, `fishForNewLoRaPkt`, `onConnect` | everything that sends |
| Replica on flash | `esp32/.../replica.cpp` | as above, with `frt.bin` written through `tmp.bin` | constructor, `ingest_entry_pkt`, `ingest_chunk_pkt` | node, `repo.cpp` |
| Management | `esp32/.../mgmt.h`, `cmd.h` | frame counters of the node and of each source (on flash), status table | requests, key updates, status, beacons | faces |
| Migration | `Repo.kt` (`upgrade_repo`) | directory of a feed | move from an older file layout | files |
| Time line | `android/.../assets/web/util/scuttlesort.js` | the sorted array of posts, tips, effects waiting for causes | `add`, `toJSON`, `fromJSON` | the apps, a listener that redraws |
| Apps | `android/.../assets/web` (`board.js`, `tremola.js`, ...) | a state folded from the entries of several feeds | apply an entry, in whatever order entries arrive | the log below |

How they work together. A feed has entries numbered from 1; each entry is one
packet, starting with a prefix (dmx) that is the hash of feed ID, number and
hash of the previous entry. A longer content continues in a side chain of
chunks, each naming the hash of the next. Nodes first agree on the set of feed
IDs (GOset). Once they do, a feed can be named by its index in the sorted set,
so the WANT vector ("the next entry I want of each feed") and the CHNK vector
("the next chunk I want of each open chain") are short. Both begin with a prefix
computed from the state of the GOset, so that a node with another set, to which
the indices would mean something else, does not recognise the packet. An entry
or a chunk is recognised the same way: the receiver has armed a handler for the
prefix, or for the hash, of exactly the packet it wants next.

What makes each component correct:

- Replica: what it reported as stored can be read for ever; it hands out only
  what the author signed; its layout survives chunks in any order and a death
  of the process at any point; an author never forks its feed.
- GOset: nodes that hear each other end up with the union of their sets,
  whatever was lost, dropped or forgotten; the traffic calms down when they
  agree; the interval arithmetic stays inside the table.
- Node: handlers match what replicas have next; everything a peer lacks is
  brought across in the end; a request never costs a connection.
- Demux, faces: what the replicas wait for, and only that, is in the tables;
  what a full ring drops is asked for again.
- Management: a command is carried out once by each node it names, the flood of
  a packet ends, and counters are not used twice.
- Migration: no step loses what could be read, and a kill anywhere can be
  repaired by the next start.
- Time line: the array does not depend on the order of arrival.

## 2. What is hard, and where

`PROJECT.json` lists the hazards at their lines. They come in these groups:

- crashes between two writes, inside one, and inside the recovery of an earlier
  crash (`replica.py` 42, 55, 59, 119; ESP32 `replica.cpp` 67, 94, 136, `mgmt.h`
  396, 605; Kotlin `Replica.kt` 108, `Repo.kt` 287, 306; `scuttlesort.js` 98);
- data in any order: chunks of several chains, answers that come twice or too
  early, posts before their causes (`replica.py` 130, 140; `node.py` 138, 221;
  `node.h` 211; `scuttlesort.js` 44, 219; `mgmt.h` 394);
- lost broadcasts and broken connections without acknowledgements (`goset.cpp`
  132, `spub.py` 67);
- tables, queues and vectors at their limit (`goset.cpp` 86, 264, 282; `io.cpp`
  400; `dmx.cpp` 86; `repo.cpp` 146; `node.py` 109);
- state that is stale when it is used (`goset.py` 203, `repo.cpp` 125, `mgmt.h`
  150);
- threads and locks in the Android app (`GOset.kt` 162).

Hazards that no property covers carry a note saying why: the code does not survive
them (section 7), or they belong to a module of the plan (section 9).

## 3. The models

### Replica.tla, FeedStore.tla: one feed on disk

`Replica.tla` models the class `Replica` of the Python pub: every method that
changes something and the two readers of packets.

| code | model |
|---|---|
| the existence of `log.bin`, `frontier.bin` | `files` |
| content of `log.bin` | `log`, a sequence of cells: a packet, a chunk, 120 zero bytes, a back pointer, or a packet of which only a first part was written. A file position is a number of cells. |
| content of `frontier.bin`; `self.state` | `fnt`; `mem` |
| where the process is | `pc`: `down`, `create` (log.bin exists, frontier.bin not yet), `recover` (the loop of `__init__`), `persist_recovered`, `idle`, `persist` (a method has extended the log and not yet replaced the frontier), `failed` |
| `__init__` | `CreateLog`, `CreateFrontier`, `LoadFrontier`, then `RecoverEntry`/`RecoverTruncate`/`PersistRecovered`/`RecoverDone` |
| `ingest_entry_pkt`, `ingest_chunk_pkt`, `write`, `write48` | `IngestEntry`, `IngestChunk`, `Write`, `Write48`, each followed by `PersistAndReturn` (`frontier.tmp` is renamed over `frontier.bin`, atomically) |
| `get_entry_pkt`, `get_chunk_pkt` | `GetEntry` (the walk along the back pointers), `GetChunk` |
| the process is killed | `Crash`, `CrashInAppend`, `CrashInEntry`, `CrashInChunk`, `CrashInRecovery`: between any two steps, or with some of the cells of a write on disk; `CrashPoints` chooses where |

`op` and `acked` are history: what the running call will have stored and what
calls that returned `True` have stored. Hashes and signatures are ideal: a hash
is the name of what was hashed, only the author signs. Packets arrive from
`Wire`: all entries and chunks of the feed, in any order and as often as one
likes, and noise with the right prefix and no signature.

`FeedStore.tla` is what a node may count on: a growing prefix of the feed, of
each stored entry a growing prefix of its chain, and nothing stored is lost.
`ImplementsStore` says that the state on disk (`fnt`) implements it under the
mapping `have <- fnt.max_seq`, `got <- DurableGot`. The node model below builds
on that promise instead of on files.

`ReplicaInv.tla` has the inductive invariants, `ReplicaProofs.tla` the proofs (the
files and the refinement first, then reading and the author), `MCReplica.tla` the
instances.

### GOset.tla: the set of feed IDs

`GOset.tla` models `GOsetClass` of the ESP32 node and the send queue of a face
below it. `gs[n]` holds, for node n, the sorted keys (as a set of numbers), the
largest claim heard of (`span`), the credit and the list of novelties, the
pending claims and the queue.

| code | model |
|---|---|
| `add`, `_add_pending`, `rx` | `Add` with `Announce`, `AddPending`, `Rx` |
| `tick` | `Tick`: `TickAlone` with a single key, else `TickRound`: novelties and the greeting claim, then in the order of the loop eliminate, ask (`Asked`), help (`Helped`, `HelpFor`), keep (`Kept`); ties of the unstable `qsort` are a choice (`Orders`) |
| `io_enqueue`, `io_dequeue` | `Enqueue`/`Queued` (drop duplicates, drop when full), `Dequeue` (a broadcast that any of the others may miss) |
| `cmd.h` "+", `load` at start | `AddKey`, `Reboot` |
| switched off or carried away | `Leave` |

The xor of an interval is taken to be injective: it is the set of its keys. A feed ID
is a number from 1; the sorted array (`_key_index`, `get_key`) is `KeyOrder.tla`, which
`EspNode` uses too.

`GOsetInv.tla` has the inductive invariant, `GOsetProofs.tla` the proofs,
`MCGOset.tla` the instances. `OrderLemmas.tla` has lemmas about sorted sets and
flattened sequences for these proofs and for those of `EspNode`.

### PubNode.tla: pubs that replicate

`PubNode.tla` models `PubNode` of the Python pub with its tasks per connection.
Of the replica it takes the promise of `FeedStore`: `have[n][f]` entries,
`got[n][f][seq]` chunks.

| code | model |
|---|---|
| `goset.keys`, the replicas | `keys`, `have`, `got` |
| `want_dmx`/`chnk_dmx` (the set they were computed from) | `state`: changes only in the next round of `get_adv` |
| `dmxt`, `chkt` | `dmxt`, `chkt`: the entries and chunks a handler is armed for |
| `log_offs` | `offs` |
| a websocket | `up` (links), `chan` (packets on their way, in order) |
| `launch_adv` with the three `get_*_adv` | `EntryAdv`, `ChainAdv`, `GOsetAdv` |
| `rx` | `RxWant`, `RxChnk` (one action `RxRequest`), `RxEntry`, `RxChunk`, `RxClaim` |
| a connection breaks, is set up again | `Break`, `Connect` |
| the process ends, `start.sh` starts it again | `Restart` (`__init__` rebuilds the tables from the replicas) |

Vectors have room for `VectLen` items (100 bytes in the code), a request is
answered with `Credit` packets (3), an item gets its second packet only after
every item had its turn (`InOrder` over pairs of turn and item). A chunk is
named by its chain and its place, so two feeds or two entries with equal content
wait for the same chunk, as with hashes. Of the GOset of the pub only its effect
is modelled: a claim teaches the two keys at its ends.

`PubNodeInv.tla` has the inductive invariant with the types of packets,
`PubNodeProofs.tla` the proofs, `MCPubNode.tla` the instances.

### EspReplica.tla, EspNode.tla: a node on an ESP32

`EspReplica.tla` is the replica of a feed on flash as functions of its state:
what is in memory (`mem`) and three files (`log`, `frt`, `tmp`). `EspNode.tla` is
the node around it. Several replicas, the tables and the vectors change in one
handler, so the handlers are functions as well (`IncomingPkt`, `IncomingChunk` and
`AddReplica` map the memory `m` of the node to the next one), and the actions are
the steps of the main loop.

| code | model |
|---|---|
| `ReplicaClass` constructor, `ingest_entry_pkt`, `ingest_chunk_pkt`, `_persist_frontier` | `Opened`, `IngestEntry`, `IngestChunk`, `Persisted`; `log` is a set of items at byte offsets, so that what the code overwrites is gone |
| `dmxt`, `blbt` with its lists of chains | `dmxt` (a set), `blbt` (hash to list; `ArmBlb` puts a chain in front) |
| `incoming_pkt`, `incoming_chunk` | `IncomingPkt`, `IncomingChunk`, the latter walking the list chain by chain (`OneChain`) |
| `mk_want_vect`, `mk_chnk_vect` with `want_is_valid`, `want_offs`, ... | `MkWantVect`, `MkChnkVect` over `Vector`; the records `want`, `chnk` |
| `node_tick`, `io_dequeue` | `Tick`, `Dequeue` |
| `fishForNewLoRaPkt`, `lora_get_pkt` | `Receive` (any packet of the feeds, at any time, as often as one likes), `Handle` |
| GOset `add` | `AddKey` |
| the power fails, between handlers or at any write of a frontier in one (`Midway`, `Interrupted`) | `PowerFails`, `PowerFailsInAddKey`, then `load` (`Started`) |

A chunk is the rest of its chain: two chains that end alike share the chunk, as
with hashes. `want_offs` and `chnk_offs` are reset to any value when a feed is added,
because the code takes a random number. A WANT vector is understood by others only
if it was made for the set they agree on (`asked`). `up` becomes `FALSE` when
`tmp.bin` is empty at a start: the node then never gets through it again.

`EspNodeInv.tla` has the inductive invariant, `EspNodeProofs.tla` the proofs,
`MCEspNode.tla` the instance.

### KtFeed.tla: a feed's directory in the Android app

`KtFeed.tla` follows the directory of one feed from the start of the app:
`upgrade_repo`, which converts the files of version 0.1.5, then the class
`Replica`. The variables are the files that exist (`files`) and their contents
(`old`, `tmp`, `log`, `mid`, `fnt`), the variable `state` of the class (`mem`), and
where the process is (`pc`); every write is an action and `Crash` may come between
any two, but not while the files of a *new* feed are created, after which the app
would fail at every later start (section 7). `log[s]` is the number of chunks in place
behind entry s, `old[s]` that in the old file of its chain, or `NoFile`.

| code | model |
|---|---|
| the loop of `upgrade_repo` over one directory | `UpToDate`, `Finish`, `OpenOld`, `Convert` for each entry, `Abandon` (a chain has no file: the directory is left as it is, 338), `ConvertFails` (the file of an open chain is empty, 336), `Converted`, `WriteFrontier`, `MoveLog`, `DeleteLog`, `MoveMid`, `Clean` |
| `init` of `Replica` | `Create` (file by file), `Load`, `CatchUp`, `Loaded` |
| `ingest_entry_pkt`, `write` | `IngestEntry`, `Write`, then `AppendMid`, `Persist` |
| `ingest_chunk_pkt` | `IngestChunk`, `Persist` |

A frontier file that was created and not yet written (`Empty`) cannot be read:
the start fails. Of an open chain, `Pending` keeps how many chunks it has and
lacks, and which one the awaited hash belongs to: three numbers the code keeps
separately, and that the conversion gets wrong. Reopened chains are therefore left
out of `Completes`, and `ChainsConverted` is a finding.

The old directory holds all its entries and message IDs, while the file of a chain may
be missing or empty: the code tests for it. What it does then shows in the
properties. After `Abandon` the class `Replica` creates an empty `log.bin` beside the old
files, and from that step on no old entry can be read: `Kept` excepts this one
step (`HidesOld`), and holds of all before and all after it. An app killed right after it
moves `mid` and deletes the chain files at its next start (section 7), so there may be old
message IDs beside an empty log, and `MidsInOrder` speaks of directories that are
converted or new (`AllFiled`). `ConvertFails` makes every start fail, so `Completes`
speaks of directories without an empty file (`NoneEmpty`). `ClosedIsStored` holds of all
directories.

`KtFeedProofs.tla` has the proofs, `MCKtFeed.tla` the instance.

### Mgmt.tla: remote management

`Mgmt.tla` models requests and key updates that are flooded over LoRa.

| code | model |
|---|---|
| `mgmt_fcnt`, `mgmt_fcnt_table` (both on flash) | `fcnt`, `table` |
| the static struct of `_mkRequest` | `request`, which survives from one request to the next and is lost in a restart |
| `mgmt_tx` | `Tx`: the counter is on flash before the packet is out (`PowerFailsInTx`) |
| `mgmt_rx`: known source, counter, table on flash, then send on and act | `Ignore`, or `Act`: `Accepts`, `Remember`, `SendsOn`, `IsFor`; `PowerFailsInRx` stops in between: a request is sent on before it is acted on (425-438), a key update after (415-417) |
| a request that restarts its receiver | `restart`: the receiver loses `request` and keeps counter and table |
| io_send on the air | `Broadcast`: one reception for each node in range, in any order; `Lose` |

`SendsOn` compares the first byte of two IDs, for that is what line 431 does (a
parenthesis is misplaced); `First` gives these bytes. `sent` and `done` are history.
`MgmtProofs.tla` has the proofs, `MCMgmt.tla` the instance.

### Timeline.tla: the time line of the apps

`Timeline.tla` models `scuttlesort.js`: a post names the tips its author saw, its
causes, and may arrive before them. `t` is the object `Timeline` with the fields of
its nodes as functions (`rank`, `indx`, `prev`, `succ`), `view` is the array as a
listener rebuilds it from the commands. The model has the algorithm step by step
(`Entered`, `Inserted`, `Anchored`, `Resolved`; `AddEdge`, `Visit`, `Jump`, `Rise`),
the property `Canonical` only its result: the posts sorted by the length of the
longest chain of causes before them, then by name. That the incremental algorithm
computes this from any order of arrival is what the run shows on small chats and
`CanonicalHolds` in general. A time line read back (`Reload`) has no listener any
more, because functions are not stored.

The loops are recursive functions of the number of rounds (`Risen`, `Effects`,
`Compressed`), the stack of `_visit` is `out` in a function from states of the walk
to states (`Waves`, `VisitStep`), and the sort of the visited nodes by position reads a
set of places in order (`KeyAt` of `KeyOrder.tla`). `TimelineInv.tla` has the inductive
invariant, `TimelineProofs.tla` the proofs, `MCTimeline.tla` the instances.

### Defects in the modules

Each property of a run comes with a definition named after a plausible bug
(`RecoverWithoutPtr`, `HelpForShort`, `RxEntryNoChunks`, ...), placed before the
definition it spoils and marked as defect or mutant. With it in place of the
true one, TLC finds the property violated: the property does depend on that code.

## 4. The runs

| run | instance and bounds | what it shows |
|---|---|---|
| `replica_follower` | a feed of four entries with chains of 2, 0, 2, 1 chunks, the first and third with the same content; up to 3 crashes at any point except inside a packet and between the creation of `log.bin` and that of `frontier.bin`, after which the replica never starts again (section 7); 14,041 states | `AckedIsReadable`, `ServesFeed`, `LogLayout`, `FrontierBehindLog`, `LogEndsAtFrontier`, `IInv`; the refinement `ImplementsStore`; under fairness `Completes` |
| `replica_author` | three entries by `write()`, each content possible, 3 crashes anywhere, inside a packet too; 1,497 states | what was published stays readable and no number is published twice; the author has no open chain; `AuthorInv`: the entries lie one behind the other, and `frontier.bin` never runs ahead of them |
| `goset` | three meshes in one run: two nodes, an interval of four missing keys to be halved, one loss; two nodes whose sets overlap, one loss and one restart; three nodes, one without keys, one that may leave, a key entered meanwhile; 326,896 states | `ClaimsSpan`: every claim, also one about a half of an interval, has two different ends within it; `EndsKnown`; `Quiet`: help stops; `Converges` |
| `pub_pair` | two pubs, two feeds that share a chain, each lacks what the other has, two entries of one pub wait for the same chunk; one break, one restart; 27,267 states | `HandlersMatch`: no wanted packet is ignored, none is handed to a replica twice; `Delivery` |
| `esp_node` | two feeds, the chain of one ending like that of the other, the second added at any time; CHNK vector of one element, ring of one packet; one power failure between any two writes; 123,801 states | `HandlersMatch`, `VectorsFresh`, `NeverForgets` over power failures; `IInv`; under fairness `Replicates` |
| `kt_feed` | five entries with chains of 0, 2, 1, 3, 0 chunks; six old directories: with all chains complete, with the one or the other open, without entries, with a chain whose file is missing or empty; or none; author or not; 3 crashes; 116,586 states | `Kept`: nothing that could be read is lost, by the conversion or later, but by the step that creates `log.bin` in a directory left unconverted; `ClosedIsStored`; `MidsInOrder`; under fairness `Completes` |
| `mgmt` | four nodes in a ring, two of them with IDs that begin alike; requests for one, for all, with and without restart, and key updates, two packets by the one admin; one lost packet or power failure; 567,389 states | `AtMostOnce`, `FcntsUnique`; under fairness `FloodEnds`, `LastReaches` |
| `timeline` | all acyclic graphs of four posts, all trees of five, every order of arrival and order of the causes, stored and read back at any moment; 584,912 states | `Canonical`, `TipsAreLast`, `ViewFollows` |
| `replica_write48`, `esp_log`, `kt_open_chain`, `mgmt_addressed` | | counterexamples to statements of the code's own comments and assertions: section 7 |

Why the bounds are enough. For a replica, what matters is the relation of an
entry to its neighbours: a short one between two with chains, equal contents at
a distance, a chain of one, two and no chunks; three crashes allow one in
a call, one in the catch-up and one in the catch-up after that. The theorems
then remove these bounds. For the GOset, six keys give an interval of four
inside two known ends, which is halved into two intervals that need both forms of
help (a claim and the middle key); the queue has its true length of 5 while the
table of pending claims is cut to 3 with 2 kept, so that both overflow. For pubs,
two feeds make order and index matter, `Credit = 3` is the code's, and with
`MaxFlying = 1` a vector is sent while at most one packet is on its way; answers
of up to three packets and two peers' vectors interleave in both directions. For
the ESP32 node, two chains that wait for one chunk are the case the lists of `blbt`
exist for, a CHNK vector shorter than the open chains is the case the offset exists
for, and any packet may come at any time, so older and repeated ones do. For the
directory of the app, the old directories take every branch of the conversion (a chain
complete, open, empty, without a file, and no chain), and three crashes hit the conversion, the conversion
that is done again, and the catch-up. In the management mesh each packet has two ways
round the ring, so it arrives a second time everywhere, in either order with
respect to a second packet, and one node does not send on what is for another.
Among the graphs of four posts are all the ways an effect can precede its causes
and a wave of ranks can meet another; trees of five add length.

`loss`, `reboots`, `leaves`, `busy`, `MaxFlying`, `MaxBreaks`, `MaxRestarts`,
`MaxCrashes`, `MaxFaults`, `MaxFcnt`, `MaxSeq` are bounds of the models and not of
the code.

Deadlock is checked in `goset` and `pub_pair`, which never stop, and in
`timeline`, where a state can always be stored and read back. A replica or a feed
whose crashes are used up and which is complete rightly stops, so does a mesh whose
floods have ended, and an ESP32 node or an app that does not get through its start:
there the check is off.

## 5. Fairness

- Replica: `WF` of starting and of the steps a running process takes by itself
  (`start.sh` restarts it after 10 seconds), and of the arrival of each wanted
  packet, because the vectors are repeated for ever. A crash is never obliged to
  happen and never prevented.
- GOset: the main loop (`do_io`, `loramesh-TBeam.h`, 328-329) calls `io_dequeue`
  and `tick` for ever. `Dequeue` is weakly fair. A round comes every
  `GOSET_ROUND_LEN` milliseconds, whatever the queue holds; the model lets it
  start when the queues are empty (`busy` others excepted), which is what the
  length of a round is for, and so `Tick` is strongly fair: it is due again and
  again. Losses are finite in number (`loss`): convergence cannot be had if
  every packet is lost.
- EspNode: the main loop runs for ever, so `Handle`, `Tick` and `Dequeue` are weakly
  fair. A packet that the others are asked for again and again is at last
  received (`SF` of `Answer`): a broadcast may be lost, or find the ring full,
  but not always. Nothing is assumed of packets nobody asked for.
- KtFeed: `WF` of what the process does by itself and of receiving what is
  missing. The user of the app is not obliged to write, nor the app to be
  killed.
- Mgmt: `WF` of `Rx`, the main loop that hands on what was received. `FloodEnds`
  and `LastReaches` need no more; that somebody sends is not assumed.
- Timeline has no fairness: its properties are about every state.
- PubNode: each advertising task sleeps and runs again; the condition `Quiet`,
  which keeps the model from piling up vectors, comes and goes, hence `SF` of
  the three tasks per connection. Receiving and reconnecting are weakly fair.

## 6. The proofs

### A replica on disk (ReplicaProofs.tla)

For feeds and chains of any length, any contents and any number of crashes. The first
three are about a replica that follows a feed (`FollowerAssumption`):

| theorem | states |
|---|---|
| `IInvHolds` | the inductive invariant of a follower |
| `LogLayoutHolds` | each entry counted lies where the sizes of those before put it, with its back pointer and its stored chunks, at every moment |
| `ImplementsStoreHolds` | the state on disk implements `FeedStore` |

The others hold for the author as well (`WholePackets`; `AuthorInvHolds` is about the
author only):

| theorem | states |
|---|---|
| `AckedIsReadableHolds` | what a call reported as stored is read ever after |
| `ServesFeedHolds` | the readers return entries of the feed and chunks of their chains, and nothing else |
| `AuthorIsCompleteHolds` | no side chain of the author's own is ever open (no assumption) |
| `FrontierBehindLogHolds` | `frontier.bin` never claims more than the log holds |
| `LogEndsAtFrontierHolds` | between two calls the file ends at `max_pos` |
| `AuthorInvHolds` | the author's entries lie one behind the other with all their chunks, what was published is among them, and the frontier never runs ahead of them |
| `TypeOKHolds` | the types |

Assumptions: those of the module about its constants; `OffsetAssumption`, which
defines the position of an entry as the sum of the sizes before it;
`WholePackets`: for a replica that is not the author's, the file system writes a
packet of 120 bytes whole or not at all (without it `ServesFeed` is not true: section
7). The author's packets may be torn: its catch-up cuts off everything behind the
frontier. `Spec` is that of `write`; of `write48` `LogEndsAtFrontier` is refuted.
Hashes are injective and signatures cannot be made up.

The layout alone is not inductive: a step of the catch-up keeps it only because
what lies behind the end known to the frontier is a part of the *next entry of
the feed* (`TailOK`), cut off after any number of cells, and a step of
`ingest_chunk_pkt` only because position, next hash and count of an open chain
agree (`FrontierOK` with `ChainAt`). In the states `persist` and
`persist_recovered`, memory is one entry or one chunk ahead of the frontier and
the log already holds it (`MemoryOK`): that is also the argument for the
refinement. The proof has one case per action; the three ways to write to the log
are the lemmas `AppendPart`, `ClearSlots` and `WriteSlot`.

Reading starts from `LaidOut`: each entry begins where the back pointer of the one
before ends, and its own back pointer leads to where it begins. From that, `HopWalk`
shows that the walk of `get_entry_pkt` from the end of the log passes the beginnings
of all entries (the recursive function `Hop` is shown equal to the table of
beginnings, read from the end), and `ReadLaidOut` what the two readers return. A
follower's log is laid out by `IInv` (`FollowerLaidOut`); what was reported stays
below the frontier by `AckedInv`, which is inductive next to `IInv`. What an author's
entries contain is not known in advance, so its invariant `AuthorInv` says instead
that *some* placement lays out all that the frontier counts and all that was
reported, and that in `persist` the entry just written has a place as well.

### The set of feed IDs (GOsetProofs.tla)

For any mesh, set of keys, tables and queues of any size, any number of losses,
restarts and nodes that leave:

| theorem | states |
|---|---|
| `IInvHolds` | every node is in a good state |
| `TypeOKHolds` | the keys, novelties, pending claims and the queue stay within their tables |
| `ClaimsSpanHolds` | each claim queued or pending has two different ends, both among its keys |
| `EndsKnownHolds` | a node has both ends of what it keeps pending, unless its set is full |

Assumption: `GOsetAssumption`, the shape of the constants: finitely many nodes and keys,
and not more keys on flash than the table holds (the code loads no more).

Why help stays inside `goset_keys` takes two lemmas. `PendingClaim`: a claim that gets
help was not eliminated, so both its ends are keys here, and what this node has between
them differs from what is claimed though it is no less; both contain the ends, so this
node has a key strictly between them, and the indices of the ends are two apart.
`HelpForOK`: then `lo + 1` to `hi - 1` is not empty, one element becomes a novelty, and
the halving leaves intervals of at least two elements each, whatever the parity. That the message which is built has
different ends is then a matter of order: index and key determine each other
(`KeyAtIndex`, `KeysSorted`). `Reactions` is a flattened sequence of sequences, which the
library defines by recursion; `FlattenSeqSteps` and `FlattenSeqType` say what is
needed of it, by a least counterexample as below. The queue is a function of place (the earliest of each message, as many
as fit), so `QueuedProperties` needs no induction.

### A node on an ESP32 (EspNodeProofs.tla)

For any feeds with chains of any length, also chains that share chunks; vectors, ring and
tables of any size; any number of power failures at any write of a frontier:

| theorem | states |
|---|---|
| `IInvHolds` | the inductive invariant |
| `HandlersMatchHolds` | the tables hold the next entry of each feed and the next chunk of each open chain, every chain once |
| `VectorsFreshHolds` | a vector whose flag is set asks for what is missing now |
| `NeverForgetsHolds` | no step of a node that is up loses an entry or a chunk, a power failure included |

Assumptions: `LogAssumption` (finitely many feeds, entries with chains of numbers) and
`EspNodeAssumption` (the shape of the constants; not more feeds on flash than keys in
the table). That the log keeps the entries is *not* claimed, for it does not (section
7): the theorems are about frontiers, tables and vectors.

The invariant says three things. What a frontier records of an open chain makes up the
chain: the chunks stored, then the rest that is awaited, which is not empty
(`FrontierOK`). Between two handlers the frontier in memory is the one on flash
(`Saved`), so a start after a power failure finds it again; in the middle of a handler,
what is on flash is the frontier before or after one entry or chunk (`MidwayOK`,
`InterruptedOK`). And `blbt` is determined by the open chains: for each rest some chain
waits for there is one list, with exactly the chains that wait for it, each once
(`ListsFor`); this is what makes `HandlersMatch` inductive.

The handlers loop: over the chains of a list (`Chains`), over the open chains of a
replica (`ArmChains`), over the keys (`Loaded`). The model writes each loop as a
recursive function of the number of rounds. The proofs do without the induction rule:
were the claim false for some number of rounds there would be a least one (`LeastNat`),
which is not 0, and the round before it contradicts it. What one round does is
`OneChainOK`; that the chain put in front of another list while the list is
walked does no harm follows from the rests, since the new one is shorter.

`VectorsFresh` is kept by most handlers for one reason (`SameTables`): a vector is
computed from the frontiers, and `dmxt` and `blbt` determine of these all it
shows. So a handler that leaves the tables as they were leaves the vectors fresh, and
one that changes a table clears the flag.

### Pubs (PubNodeProofs.tla)

For any number of pubs, any links and roles, any feeds, credit and length of
vectors, and any number of breaks and restarts (the bounds `MaxFlying`,
`MaxBreaks`, `MaxRestarts` are arbitrary natural numbers in the proof):

| theorem | states |
|---|---|
| `TypeOKHolds` | a node stores prefixes, never more chunks than a chain has, nothing of a feed it does not know; the set its vectors stand for is part of its own |
| `HandlersMatchHolds` | the armed handlers are exactly the next entry of each feed and the next chunk of each open chain |
| `IInvHolds` | both, with the packets on their way |

Assumptions: `PubNodeAssumption`, the shape of the constants; that replicas keep
`FeedStore`'s promise is the first group of theorems. `HandlersMatch` by itself is not
inductive: that an entry which arrives for an armed handler *exists* needs
`Packets` (an answer never goes beyond the feed), and this in turn needs that the
sender stores a prefix (`IsStore`) and that an index below the number of keys
denotes a key. The latter is the lemma `RankOnto`, that in a finite, strictly and
totally ordered set every rank is taken; it serves for the sorted keys (`KeyAt`)
and for the order in which a request is answered (`InOrder`).

### The Android app's directory (KtFeedProofs.tla)

For a feed and chains of any length, any set of old directories, also with chain files
that are missing or empty, and any number of kills:

| theorem | states |
|---|---|
| `NothingIsLost` | `Kept`: no step loses an entry or a complete chain that could be read, but that which creates `log.bin` in a directory left unconverted |
| `ClosedChainsAreStored` | `ClosedIsStored`: a chain that is not open is in the log with all its chunks |
| `MidsAreInOrder` | `MidsInOrder`: in a directory converted or new, message IDs keep their order, and at most one is missing per kill |

Assumptions: `KtFeedAssumption`, the shape of the constants (a chain's file has no more
chunks than the chain); that the old `log` and `mid` are whole; and that the app is not
killed while the files of a *new* feed are created (section 7). Of an abandoned
conversion the theorems claim nothing beyond what the properties say: their conditions
are in the properties, not in the assumptions. The properties are not inductive: that `Kept` survives the deletion of
the old log needs that `log.bin` and `frontier.bin` hold all of it by then. The
invariant `IInv` has five parts beside the types: `FilesInv`, which files exist at
which step, and what a kill can leave; `ConvertInv`, that the entries converted so far
are those of the old files; `DiskInv`, that `log.bin` has what the frontier says and at
most one entry more; `MemInv`, the same for memory while a call is under way; and
`MidInv`, which bounds the missing IDs by the kills. The proof has a lemma per
group of actions.

### Management (MgmtProofs.tla)

For any mesh, any IDs and commands, and any size of the table of counters:

| theorem | states |
|---|---|
| `TypeCorrect` | the types; what is in the air was sent by its source |
| `CountersUnique` | no two packets of a node carry the same counter |
| `ActsOnce` | `AtMostOnce`: no node acts twice on a packet |

Assumption: `MgmtAssumption`, the shape of the constants; that only nodes of the mesh
can make packets is built into the model. `AtMostOnce` needs `AheadUndone`: what a
node has not yet accepted from a source (counters above the one in its table) it has
not acted on; and `CountersUnique` needs `SentCounted`: all packets sent carry
counters up to the one on flash.

### The time line (TimelineProofs.tla)

For any acyclic graph of posts whose names are numbers, any order of arrival, effects
before causes too, any order of the causes in a post, and any number of restarts:

| theorem | states |
|---|---|
| `IInvHolds` | array, positions, ranks, links, pending effects and tips agree with the graph of the posts known |
| `CanonicalHolds` | the array is sorted by the length of the longest chain of known causes, then by name |
| `TipsAreLastHolds` | the tips are the posts that no known post names |
| `ViewFollowsHolds` | a listener that is sent the compressed commands holds the same array |

Assumption: `TimelineAssumption`, the shape of the constants; that a graph of posts has no
cycles is what a name made of a hash over the causes gives. The posts of a chat need not
be finitely many: those that have arrived are (part of the invariant).

The property is a fact about longest paths; the code never computes one. The argument goes
like this.

1. *Depth is determined by the graph.* It is a recursion over an acyclic graph; that such
   a function exists is shown by adding posts, causes first (`DepthExists`), and by a
   least one that it is the only one (`DepthIs`). A rank that grows along every link
   is at least the depth (`DepthIsLeast`).
2. *The wave of `_visit` ends and leaves ranks that grow along the links.* A visit raises
   a rank only as far as the chain it followed is long, so no rank is ever above the
   depth, which bounds the stack (`WalksAll`, over the room left and the length
   of a list). `Walked` says what one list of the stack leaves: ranks have only gone up,
   no further than the depth, the nodes of the list are above the bar, and what was
   raised pushed its successors above it.
3. *One edge keeps the array sorted.* `RiseSorts`: if all behind a node are sorted and
   all in front of it belong before it, it finds its place by rising. The nodes visited
   rise latest first (`LatestFirstIs`), so this holds for each in turn (`RisenSorts`), and
   a node visited but not raised does not move: `AddEdgeSorts`.
4. *A new post is different*: `add_edge_to_the_past` is called for its causes one after the
   other when it has no place yet, so the array need not be sorted in between. But it
   has no effects yet, so it alone moves, and it passes only what is before it or not
   behind one of its causes (`AddEdgeFirst`); when the last cause is linked, all is sorted
   (`AnchoredIs`). Then the effects that waited for it are linked one by one, each by
   step 3 (`EffectsIs`).
5. *When all links are in place, ranks are depths* (`SettledSorts`): they are at least
   the depths by step 1, and at most by step 2.

A listener follows because each command fits the array it finds (`LeadsOn`), and a move of
what the command before has placed may be merged into that command (`Merged`); this is
where the condition of line 44 is needed. Reading back links every cause again, although it
looks only at what stands before a node, because by the invariant its causes do
(`ReadBackIs`).

### What stays with TLC

Liveness (`Completes`, `Converges`, `Quiet`, `Delivery`, `Replicates`, `FloodEnds`,
`LastReaches`), because proofs of it need `ENABLED` and fairness. Every invariant and
every action property that a run finds true is also a theorem.

## 7. Findings

Each of these is a run whose counterexample is the shortest that TLC finds.

- `replica_write48` (`replica.py` 250): `write48` stores as `max_pos` the length
  of its own entry, not added to the old value as `write` does (286). The first call on
  an empty log is right by chance. The second passes the assertion at its head (235),
  appends its entry and stores the wrong `max_pos`; the call after it, `write` or
  `write48`, fails at that assertion, and a restart in between cuts off the entry that
  was published. The method has no callers in the pub at present.
- `esp_log` (`replica.cpp` 208): the log is opened `"r+b"` and written without a seek,
  so each entry overwrites the start of `log.bin`, which by line 10 is "the log, with
  side chain expanded right after a log entry". Frontier, tables and vectors go on as
  if it had been appended, so the node replicates happily and has nothing to serve.
- `kt_open_chain` (`Repo.kt` 333, 336): the number of chunks in an open chain is
  computed with `%` for `/` and is always 0. After the conversion the app asks for
  chunk 0 and waits for the hash of a later one, so the chain is never completed.
- `mgmt_addressed` (`mgmt.h` 150): the static request keeps `all = true` after the first
  request to all nodes, so from then on "send request to specified node" (634)
  reaches all of them, a reset included.

Others were met while modelling; no run of the present set shows them.

- `replica.py` 55: the catch-up compares 7 bytes and checks neither the length of
  what it read nor the signature, so an entry written in part becomes one of the feed, to
  which no later entry can refer. A run of a follower with `"tornentry"` among the
  `CrashPoints` violates `ServesFeed`.
- `replica.py` 42: `log.bin` is created before `frontier.bin`; dying in between
  makes every later start fail (`pc = "failed"`). The author's run has this crash, the
  follower's, which checks `Completes`, has not. `replica.cpp` 67: the same for an
  empty `tmp.bin` (`up = FALSE`). `Repo.kt` 306: the same for a feed directory without
  `log.bin`, because `upgrade_repo` takes it for an old one.
- `Repo.kt` 338: an entry whose chain has no file ends the conversion of its directory.
  `Replica.kt` 91 then creates an empty `log.bin`, so the old entries can no longer be read;
  the app receives the feed anew. `Kept` excepts this step (`HidesOld`). If the app is killed before it
  creates `mid.bin` as well, the next start takes `log.bin` for the sign of a finished
  upgrade (298), moves `mid` and deletes the chain files, against "it only
  overwrites/deletes old files, if the upgrade was successful" (282). Line 284 assumes that
  the old files were correctly stored; the branch is there for those that were not, and its
  TODO says that it is unfinished. `Repo.kt` 336: the last 20 bytes of an
  empty chain file are asked for, which throws at every start (`ConvertFails`).
- `goset.cpp` 263: a claim whose sender has left with a key of its own can never be
  satisfied and, being the smallest, takes the only question the node asks per
  round; a larger claim of a neighbour that is still there is not asked about any more.
  The worlds of `goset` are too small to meet it (a claim that stays needs a key
  inside its interval which only the node that left has, next to a larger claim);
  `Converges` does not hold in all worlds.
- `node.py` 109: the CHNK vector starts with the oldest open chains of a feed; if
  nobody has these, later ones are never asked for. In `pub_pair` the vector has
  room for all.
- `node.py` 361: the handler skips an item whose index is too large, and then fails
  on it when it prints the vector, which ends the connection. A peer that has just
  learned of a feed sends such indices in good order; the model has the break
  (`RxRequest`, `Fails`), and `Delivery` holds in spite of it.
- `mgmt.h` 431: `memcmp(request->dst, mgmt_id, MGMT_ID_LEN || request->all == true)`
  compares one byte, so a node whose ID begins like the destination's does not send
  the request on. The model has it (`SendsOn`), and `LastReaches` speaks only of
  the nodes that are reached in spite of it.
- `repo.cpp` 146: a WANT vector that is too short for all feeds is rebuilt only after an
  entry arrived, so if nobody has news of the feeds it names, the others are never
  asked for. `esp_node` has room for all in `WantLen`.
- `replica.cpp` 354-359: the readers open the file named last, which is the
  frontier, so an ESP32 node answers no request.

## 8. What is not modelled, and why

`PROJECT.json` names every component with its status. Left out for good: vendored code
(codec2, bleak, pure25519), user interfaces, drivers, the BIPF encoding and the
choice of bytes in packets, signatures and hashes (ideal in the models), timers
(a task runs whenever it may) and the roundtrip estimate of the pub. The readers
`read` and `get_content_len` of the replica change nothing and are left out.
`Replica`'s two ways to publish are checked apart: `Spec` has `write`, which the
applications use, `Spec48` adds `write48`. Of the ESP32 node the answers to vectors are
left out (it reads the packets from the wrong file and sends none), of the management
the status table and beacons (`mgmt_tick` is not called), of the app the threads, the
Bluetooth callbacks and its own copy of the vectors and of the GOset. Flash and
disk keep what was written in the order of the calls; in `EspReplica` and `KtFeed` a
single write is whole or not done (but for `tmp.bin`, which may be empty).
Two files that were moved (`os.replace`) are taken to reach the disk in the order of
the calls. Everything else that is missing is in the plan.

## 9. Plan

Done: `Replica` with `FeedStore`, `ReplicaInv`, `ReplicaProofs`;
`GOset` with `KeyOrder`, `GOsetInv`, `GOsetProofs`, `OrderLemmas`; `PubNode` with
`PubNodeInv`, `PubNodeProofs`; `EspReplica` and `EspNode` with `EspNodeInv`,
`EspNodeProofs`; `KtFeed` with `KtFeedProofs`; `Mgmt` with `MgmtProofs`; `Timeline` with
`TimelineInv`, `TimelineProofs`. What is left, in the order of importance:

1. `KtThreads`: the threads of the Android app around the lock of `Node.kt` and
   the unlocked GOset loop; every thread that asks for the lock gets it, no claim is
   lost.
2. Replication as a whole: each node's store is a `FeedStore` and may only take
   what some other node has; the proof that `PubNode` implements it.
3. `PubGOset` (the bisection of `goset.py`), and zap (two rounds in real time that
   make every node reset its repository).
4. Several `EspNode`s over the air once they serve what they have.

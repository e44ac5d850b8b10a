# A TLA+ model of xmux

xmux is the firmware of a DVB transport stream multiplexer (uClinux, one, four
or eight input channels). It decodes the PSI tables of its inputs, lets a
manager choose programs and output pids, loads a pid map and generated PSI
into an FPGA, keeps the result in an EEPROM, and hands encrypted programs to a
conditional access card. This project models the parts whose correctness
depends on the order of events, on what is shared between threads, and on
limits that are reached after a long sequence of legal calls.

## The system

| part | state | operations | modelled by |
| --- | --- | --- | --- |
| login session, management mode (`xmux_snmp.c`, `xmux_misc.c`, `main.c`) | `sg_mib_heartDevice.flag`, `management_mode`, heart beat time, version numbers | login, heart beat, expiry, enter and leave the front panel mode | `Management` |
| SNMP agent (`wu_snmp_lib.c`, `oids.c`, objects of `xmux_snmp.c`) | `login_addr`, oid tree, shared objects, the request in hand | register, receive, decode, get, set, refuse, reply | `Management` (who may set), `SnmpAgent` (what a request does) |
| front panel dispatch (`front_panel.c`, `front_panel_process.c`) | the command in hand | enter, leave, read, edit, apply | `Management` |
| message queue (`libwu/message_queue.c`) | list of messages (last in, first out), mutex, condition | put, get with no, endless or timed wait | `MessageQueue`, `Mailbox` |
| psi worker (`psi_worker.c`) | `psi_parsing_active_manager`, its queue | request, serve | `PsiWorker` |
| psi parse (`psi_parse.c`, `front_panel_psi_parse.c`) | sections, status bitmaps, `request_stop_parse`, program counts | SNMP parse, front panel parse, stop | `PsiParse` |
| program selection (`io_table.c`, `program_pid_validater.c`, `pid_map_table.c`) | `g_prog_info_table`, `old_prog` | read, write, deselect, generate the map | `ProgramSelect` |
| PSI generation (`psi_gen.c`, `front_panel_psi_gen.c`, `output_psi_data.c`, `section.c`) | the container of packets, program numbers, heap | generate, load, save, reload | `OutputPsi` |
| saved configuration (`xmux_config.c`, `imp/eeprom.c`, `imp/drivers/i2c_s3c.c`) | EEPROM areas, `g_eeprom_param`, pending saves, `busy` | load, validate, save, retry | `SavedConfig` (the pending save also in `Management`) |
| control MCU, tuner (`ctrl_mcu.c`, `xmux_tunner*.c`, `xmux_bcm3033.c`) | shared buffers, serial line, `tunergetflag` | send and receive, check, restart | `ControlMcu` |
| FPGA access (`imp/hfpga.c`, `imp/fpga/fpga_api.c`, `imp/drivers/host_fpga.c`) | device handle, shared request, read-ahead, SI memory, pid map, rate | read, download, map, rate | `HostFpga` |
| CI library (`libci/`, `xmux_ci.c`) | `cur_section`, card status, sessions | load PMTs, poll, send CA PMTs | `CiCard` |

The main loop (one round a second), the front panel's thread, the SNMP agent's,
the psi worker's and, in the one channel product, the CI query thread run
concurrently. They call each other's functions directly and share global
variables; only the message queue has a lock. So the hard behaviours are
interleavings between a test and the write that follows it, static buffers
filled by one thread and used by another, the heart beat that expires while a
parse or a download suspends the check, results polled while they are written,
a power cut between two saves, devices that are slow or silent, and sequences
of legal commands that leave a table inconsistent. `PROJECT.json` lists these
hazards by line.

## The modules

`Management` has one action for each step of a thread that another thread can
observe. The agent's `agent_pc` walks through one datagram: receive (and grant
access to a login candidate), one binding after the other, the setter of each.
`load_info_set` is two steps, the mode check and the write of its result, since
the front panel may switch the mode in between; `EnterFlag`, `EnterProg` and
`EnterMode` are the three assignments of `enter_fp_management_mode`. Tables are
single values: the panel's edition (`prog`), the applied one (`eeprom`) and the
SNMP edition (`mib`), with the version numbers that decide what a leave copies.
`owner`, `race` and `dirty` are history variables: the client whose login was
accepted, whether a set request overlapped a switch to the front panel, and the
tables edited but not applied. `heart_age` saturates, as `time(NULL) -
heart_device_time` only meets one comparison.

`SnmpAgent` is the agent from the other side: the oids `xmux_snmp.c` registers,
the tree with its pool of nodes, the decoding of an oid, and requests of
several bindings. One object serves every channel, program and section; the
library stores the oid asked for in the object (`FixOid`), where the getter or
setter finds its indices (`CellAt`). `mib` is what they really work on,
`expect` a history of what was set under each oid, so that sharing shows. EIT
is registered with the functions of SDT as in the code; `smeared` collects the
sections this hits. The nodes of a `pid_trans_info` table are pieces of a
value, and the length of a piece comes from the first node. Two things the agent
does not report are modelled as they are: the tuner objects ignore what the
exchange with the MCU returns, so a read may answer zeros and a set may change
nothing, both with noError; and a binding that cannot be decoded ends the list, so
that it and those after it are neither done nor named by an error (`bad`).

`MessageQueue` models the mutex, the condition variable and the emulated timed
wait (`PTHREAD_COND_TIMEDWAIT_OK` is 0), with the signal after the unlock as the
code has it. `Mailbox` is its specification: a shared stack, where a put is
one step and a get takes what was put last. `PsiWorker` uses a queue as a
sequence of messages and models the unlocked test of the busy flag by the two
threads that request parses. `psi_worker_close` belongs to no behaviour: the main loop never ends.

`PsiParse` steps through both parses table by table. Sections are reduced to
the number of the parse that stored them, so that "from an earlier parse" can be
said; the decoder (`dvbSI_*`, a binary library) succeeds, finds nothing or fails
as it likes, which also stands for the timer and for a stop.

`ProgramSelect` computes `io_table` from the program table at every operation, as
the code does, but as relations instead of flags: what the loops of
`build_io_table` leave is said of all entries at once (of the entries of one input
pid the first stays if it is a PMT's, else the last). The loops of an offer and of a
check, where an earlier entry decides how a later one is treated, are recursive
functions of the number of entries done (`FixUpTo`, `CheckUpTo`). Streams are
constants. Pid 0 is 0x0000 and pid 1 the padding value 0x000F: neither is legal, but
a data entry may be given either, as `valid_program_pids` has it (`OutPids`). The user
changes the output pids of used entries only. `pid_map_table_gen` pushes the elementary
streams, or in the product of one channel the PMTs instead (`OneChannel`). `taint` is
a history variable: it tells when a write was checked against the pids of another
program (`old_prog` is one variable for all of them) or was refused after changing
others; the invariants say nothing of such a table, and the model goes on with the
next parse.

`OutputPsi` keeps of a section its pid and length, of a packet its pid,
continuity counter and start flag. The SNMP generator writes one table a step,
the panel's likewise, so the two may run into each other in the one container.
`garbled` remembers that they did, or that more packets were filled than the bytes
of an entry can count, until the next generator starts alone; it is saved and
reloaded with the container. A parse may clear the programs under the panel's
generator (`cleared`). `WriteInfo` is the distribution over the FPGA's groups, table
by table: neighbours of one pid are a run, and the runs are numbered through. The
heap is a number of buffers, of which each apply leaks those of its empty groups; a
start is assumed to find memory for one apply. `Restart` loads, checks and applies
what was saved.

`SavedConfig` lays the areas out in pages as the offsets of `xmux_config.c` do
for each product. An operation is a script of steps (assign, copy, save,
request, check) taken from the setters and commands that save. `eeprom_write` is
a step per page, a comparison with what is in the device by then, and a retry;
pages may fail and power may be cut at any step. If two threads pass the busy
flag together the model ends (`race`): the outcome is then anything. A load takes
what is whole in the EEPROM; of the rest each area may come out torn where its
check cannot tell.

`ControlMcu` has the exchange with the MCU in its steps (fill the buffer, flush,
write, header, body, check) for the two threads that call it; an answer is two
units on the line, so a timeout may fall between them. The one channel product
has a chip instead, checked and restarted by the main loop under a plain flag.

`HostFpga` counts the FPGA's memory in packets. An ioctl is one step (the kernel
does not preempt it), filling the shared request is another, and any thread may
run between the two. `alone`, `disturbed`, `stack_lost` and `torn` record what
the threads did to each other; the properties say which of these they need to
be absent.

`CiCard` has the query thread's loop: each message read is handled by one
action, which may write the next TPDU; the card is external and answers each
write with one message or not at all. `loadPMT` and `get_pmt` are split at every
access to `cur_section`. `hist` records what a load or a fault did to the list.

## The runs

| run | what it shows |
| --- | --- |
| `management_session` | two clients, all threads: `TypeOK`, `SingleManager`, `FpExclusive`, and `SessionExpires`: a silent session ends |
| `management_tables` | `MibFollowsEeprom`: the version numbers miss no apply |
| `agent_requests` | `ReachesOwn` (an oid leads to its object, a set changes only what its oid names although objects are shared), `GetIsOwn` (the last value of a reply is the one set last, the tuner's that or zeros), `ReplyMatches` (a reply accounts for every binding before the first that cannot be decoded, and for no other) |
| `queue_puts_and_gets` | `BlocksKept`, `NoLostWakeup`, `EveryBlockGot`, and `IsMailbox`: `MessageQueue` implements `Mailbox` |
| `worker_requests` | `WorkerTypeOK`, `BusyHasCause`, `RequestsServed`, `BusyEnds` |
| `parse_results` | `ReportedIsExact` (nothing of an earlier parse, and the bitmap names the sections), `ReportedIsFinal`, `ListedIsComplete`, `EveryChannelReported` |
| `select_pids` | `PidsSound` (output pids stay distinct), `MapIsComplete` (a selected stream is mapped, in the product of one channel a PMT pid), `OfferIsAccepted` |
| `psi_output` | `ContainerSound` (what is generated fits and is accepted again), `LoadedInGroups` (every packet is loaded, groups unmixed), `NumbersIdentify`, `RestartKeepsOutput` |
| `saved_areas` | `NoForeignWrite`, `SavedIsCurrent` (memory and FPGA agree with what a restart loads), `SavesComplete`, with failing pages and power cuts |
| `mcu_calls` | `AnswerIsRight` (whole, and the caller's own), `CallsEnd`, `ChipRecovers` |
| `fpga_shared` | `SiIsLast`, `SettingsApplied` (pid map and rate), `ReadIsRight` (own packets in order), `SendsAgain`, with a parse, downloads, maps and rates at once |
| `ci_loads` | `CardIsServed` (polled on, programs in order, descriptors kept), `ListReachesCard`, `CardGetsReady` |

An invariant is a conjunction of named parts where several belong together; the
type invariant of a module is one of the parts where it has no entry of its own.

Bounds. Two clients are enough for a takeover, one for the tables, whose values
need only differ; versions stop at 2 because a leave compares for equality;
`MaxVarBinds` is 2 so that a login and a privileged set share a request. Two
producers and two consumers meet every pair of steps of the queue, and two
messages let one be listed while the other is in hand. The worker's queue holds three
messages: both requesters' and a leftover. Two channels, two programs and two
parses reach every "next channel" and "earlier parse".

- `select_pids`: the three programs of channel 1 share a stream, which is the PCR of
  two and data of the third, so that a pid typed for the data entry moves a PCR; two
  have one PMT pid. Channel 2 has the input pids of one of them. The user types
  0x0000, the padding value and the pid of a stream. Both limits bind: three programs
  may be selected, and the FPGA's table has three pids a channel, enough for two
  programs of channel 1 and not for all. One data entry makes programs with and
  without unused entries. With twelve legal pids a free one is always found. The view
  `Seen` leaves out the output pids of programs that are not selected: with legal
  inputs a read or an accepted write sets them all before anything uses them. The
  product of one channel has channel 1 alone; `OneChannelMap` has TLC examine its map
  for every table that up to three writes make.
- `agent_requests`: two channels and the output, two requests of two bindings:
  a set and a get, or a set between two channels of one object. The pool has
  exactly the 46 nodes the oids need. One SDT and two EIT sections give the
  code's case of more EIT than SDT sections; tables are two nodes long, one
  fills its last node and one does not.
- `psi_output`: ten packets, which one of the requests fills exactly and another
  exceeds; three programs of which two have one number, and a fourth that is too
  many; section lengths at the edges of a packet; five tables of several packets
  for four groups; two applies, so that one can follow, or overlap, another.
- `saved_areas`: products with one and two channels, two operations, one fault.
  One operation is in the middle of its saves when the other begins; one fault
  is a failing page or a power cut at any step, and `TRY_MAX` 1 gives a retry
  and a give-up. The pages of two areas may fail (the longest, and one that
  several threads save), a manager's table may be refused for one channel, and
  each thread gives the output PSI a length of its own. The proof has no such
  bounds.
- `mcu_calls`: both products, two calls: a late answer to the first meets the
  second. Two sets of parameters.
- `fpga_shared`: two channels, three operations (a parse and a download in each
  order with a map or a rate in between), two packets read ahead and four reads,
  so the read-ahead is refilled; an area of two packets that one download fills
  and one exceeds.
- `ci_loads`: two programs, loads of one and of both, two events (calls or
  faults), so that a load comes on top of another or with a lost write. The
  maximum is 3, which lets both programs of the list pass since the code sends one
  fewer, or 0, which the code takes for 1 and which lets none pass.

Fairness. The threads are ordinary threads of one priority that never end, so
each has weak fairness on its steps (`MainStep`, `AgentStep`, `FpStep`,
`WorkerStep`, `CallerStep`, `Work`, `QueryStep`, the parses), and the clock
ticks. Nothing obliges a client, the panel, the MCU or the card to do anything:
what arrives is unfair, only the timeouts of the code are fair. In `HostFpga`
only a download that has begun is fair; nobody waits for anybody there. In
`MessageQueue` the steps that take the mutex have strong fairness: a mutex that
is released again and again is granted to each waiter eventually. Runs without
a deadlock check are those whose bounded calls end.

## The proofs

`FrontPanelProofs` holds the proofs of the two parts the front panel drives. Of
`Management` it proves, for every number of clients, table values, timeout
and bounds, that `TypeOK`, `SingleManager`, `FpExclusive` and `MibFollowsEeprom`
hold. The inductive invariant `IInv` adds to the types

- `OwnerInv`: what the agent knows in the middle of a request. `SingleManager`
  alone is not preserved, because the address is recorded before the login is
  decided;
- `FpControl` and `FpInv`: which modes and login status go with each point of
  the front panel's thread, with the race as the only exception;
- `TablesInv`: how the two editions and version numbers are related in the
  middle of an apply and of a leave.

Of `ProgramSelect` it proves `PidsSound`, `MapIsComplete` and `OfferIsAccepted` for any
streams, any pids the user types and any of the limits. Two hypotheses say what the
code's constants give: `LegalStreams`, every pid of a program is legal (a program has
a PCR: without one its streams' pids are hidden, see below), and, where a free pid must be
found, `EnoughPids`: the table's 2048 entries at most cannot use up 8159 pids, each
taking one as an input and one as an output. `MCProgramSelect` has TLC evaluate both
on the streams of `select_pids`. Without `EnoughPids` the theorems `OutputPidsApart` and
`MapHoldsEveryStream` still hold. The argument:

- the invariant, `SelectInv`: untainted, distinct streams have distinct output pids
  (`Distinct`), programs of a channel that share a stream agree on its output pid
  (`Agrees`), and each channel's selected programs keep to the size of the FPGA's
  table (`Within`, tainted or not). `OutPidsDistinct` alone is not preserved: a new
  program is compared with the one entry `io_table` has for a stream, which speaks
  for all of them only if they agree;
- the table: what `build_io_table` leaves holds each stream of the selected programs
  under its output pid, and the PMTs beyond the first of an input pid as taken
  (`BuildFacts`); while the entries of a program are added it keeps knowing all that
  other programs use (`Keeps`, `Known`), so a pid found usable clashes with none
  (`CheckFine`, `SelectKeeps`). That a step of the recursion keeps this is shown by
  the least entry that would not (`LeastNat`);
- the offer: its entries get pids no one else has, and equal pids exactly if their
  inputs are equal (`FixNeat`, `OfferNeat`), and the check of a write that changes
  nothing goes the same way as the offer did (`SamePass`);
- the counting: `io_table` takes no more pids than there are inputs and outlets, so
  a free one is left (`RoomLeft`), and a channel's map is no larger than the count
  made at selection, so that no pair is dropped (`MapFull`). In the product of one
  channel the map holds the first selected program of each PMT pid (`PmtPairsAre`),
  which are no more than the programs (`PmtPairsFit`).

`MessageQueueProofs` proves `BlocksKept` and `NoLostWakeup` for any finite sets of
producers and consumers and any messages, and that `MessageQueue` implements
`Mailbox` (`QueueIsMailbox`), step by step. `BlocksKept` compares numbers of
blocks; what is inductive is where each block is (`OneOwner`: in the list once,
or in one thread's hands), who is between a lock and its unlock (`MutexHeld`),
and that the list a thread read is the list when it writes the links
(`SeenIsList`), which is what makes an insertion and a removal single steps of
the mailbox.

`PsiParseProofs` holds the proofs of the worker and of the parses it runs. For the
worker it proves `WorkerTypeOK`, `BusyHasCause` and `RequestsServed` for a queue of
any length; the invariant (`WorkerIInv`) says that without an overlap there is one
request at most, and where it is. Each step lemma goes through the actions one by
one.

For the parses it proves `ReportedIsExact`, `ListedIsComplete` and the action
property `ReportedIsFinal` for any number of channels, programs, sections and
parses. A report speaks of finished channels only, so the invariant adds what is
known of the channel in work (`Working`, `FpWorking`: its sections are of this
parse, the bitmap so far names them) and of those not yet reached (`Untouched`).

`DeviceProofs` holds the proofs of the two parts that talk to devices. Of `ControlMcu`
it proves `AnswerIsRight` for any commands, parameters and number
of calls. That the answer handed out is whole and the caller's own depends on
the whole line: a header is always followed by its own body, if not yet then
when the MCU goes on (`LineWhole`), and on a line that was clean when the request
was written everything under way answers that request (`AllMine`). The parameter
written to the tuner is assumed different from the mark for no parameter.

Of `HostFpga` it proves `SettingsApplied`, `ReadIsRight` and `SiIsLast` for any
channels, pid maps, rates, groups and lengths of the read-ahead. The invariant
says who is alone in the library (`Exclusive`), how far the FIFO has been read
compared with the packets handed out and kept (`Streaming`), and which groups of
a download are in the memory and where the driver's offsets are (`Loaded`). A
download is a loop counter over its groups, so that no induction over the list
of groups is needed. The assumptions are the types of the constants.

`SavedConfigProofs` proves `NoForeignWrite` and `SavedIsCurrent` for every set of
products (numbers of channels), every size of the output PSI's area, any number
of retries, operations, failing pages and power cuts. It has four parts:

- the layout: the pages of `struct xmux_eeprom_param` one by one (`LayoutPages`),
  where each area begins, and that a tail lies behind the pid map and the output
  PSI (`OffsetsFit`). With `PagesOwn` this is `NoForeignWrite`;
- the operations: in the steps of each operation every store is followed by what
  saves it or asks for it, and by the application of a pid map, and no store
  comes between a local copy and its use (`Operations`, `WellFormed`). This is
  where the order in `psi_gen_output_psi`, fill first, request last, is needed;
- the calls: a call of `eeprom_write` is for the first step of its thread, and an
  area counts as damaged from its first page on until it is read back
  (`CallOK`). That only one thread is inside (`OneInside`) is needed when an area
  stops being damaged;
- the invariant itself, `Follows`: every area memory and EEPROM disagree on is
  about to be saved, is being saved with the length it now has, or is one of the
  excluded ones. `SavedFollows` alone is not preserved: it speaks of settled areas
  only and says nothing of why an area will be saved. `CopiesOK` says that a local
  copy not yet used is what memory holds, and `LengthOK` that the main loop's
  write of the output PSI, whose length was taken before its contents, has the
  right length or will be repeated because a request came in between.

Stating it found an error of the model: a torn value that had been loaded, saved
and loaded again left the choice of what memory holds undefined. The load now
says which areas may come out torn.

`CiCardProofs` proves `CardIsServed` for any saved programs, card systems, limits,
order of the card's messages and number of loads and faults. Its parts:

- the filter: what `Kept` has kept of the first `n` elements is a prefix of what
  it has kept of more, and filtering twice is filtering once (`WithinWithin`). The
  prover has no induction for an operator, but a set of naturals has a least
  element (`Least`), so each of these is shown by the least `n` that would refute
  it. `OwnKept` follows: a system id whose low byte is zero is tested whole, any
  other is kept unseen;
- the polling, `PollInv`: a message is on its way or the handler in hand writes
  yet. It is inductive because a handler that reads and leaves a message writes
  later (`DropsFollowed`);
- the order, `OrderInv`: while a load copies its list, alone and with nothing in
  the query thread's hands, the list is `Copied` so far; otherwise it is `Listed`:
  the section is the last list, and as many programs as the query thread has
  taken, up to the limit, were sent. `SentInOrder` alone says nothing of the
  program in hand or of the index between its read and its store.

`OutputPsiProofs` proves `ContainerSound`, `LoadedInGroups`, `NumbersIdentify` and the
action property `RestartKeepsOutput` for any requests of the manager, any selections
of the panel, any size of the container and any number of applies, saves and
restarts. `OutputPsiAssumption` gives the types, an area of 1 to 255 packets as a byte
counts them, and memory for one apply at the start. Its parts:

- the sections: what is cut from a section begins within one buffer, and a table
  counts from 0 on through all of its sections (`TableIsCounted`). `PacketsUpTo` and
  `NumbersUpTo` are recursive functions; that the recursion has a solution
  (`Recursion`) and that each step keeps what is claimed is shown by the least number
  of steps that would not (`Least`);
- the numbers: a table of n numbers does not hold all of 1 to n + 1, so
  `pick_free_prog_num` finds one (`FreeNumber`), and every number pushed is new. The
  walks after a clear stay inside the table of numbers (`NumberInv`);
- the groups: the runs begun by a packet never decrease, and grow where a run begins
  (`RunsGrow`), so two packets with the same group of runs are of one table, and
  every packet between them continues the run (`GroupsApart`, `GroupContinues`);
- the invariant: while one thread fills, the next free packet is the end of the
  container and of the tables filled so far, and the tables to come are empty
  (`FillInv`, `OrderInv`); and when neither thread fills and no save is requested, the
  area holds the container, cut at its end, or something a start refuses while the
  container is empty (`LoadInv`). `RestartKeepsOutput` needs that the check bounds
  every table by the area (`ValidFits`), so what was cut off is never named.

The proof found a case the model had excluded without saying so: an entry counts its
packets in a byte, so the properties about order and groups hold of a container with
more than 255 packets only by accident. They now exclude it (`garbled`).

`SnmpAgentProofs` proves `ReachesOwn`, `GetIsOwn` and `ReplyMatches` for any numbers of
channels, programs, sections and nodes, tables of any length, requests of any number
of bindings and any oids a client asks for. Three hypotheses say what the firmware's
constants give, and `MCSnmpAgent` has TLC evaluate them for the run:

- `FewChannels`: at most 9 inputs. The number of a channel stands in an oid where the
  other objects have theirs, from 11 on, and the output is one more channel. The
  products have 1 to 8;
- `NodesSuffice`: the pool has a node for each part of each oid. Eight inputs need
  about 845 of the 2000 of `NODE_SIZE` (`wu_snmp_lib.c:685`);
- `DecodesRight`: the decoding undoes the client's encoding and cuts off the instance,
  for the oids asked. It is a fold over bytes, for which the prover has no induction.

The argument:

- the list: what `xmux_snmp_register_all_oids` lays end to end are the objects of
  `Regular` and no others (`RegistryFacts`); since `FlattenSeq` is recursive, its value
  is built up step by step (`StepsExist`, `Flatten`). That no oid is registered twice or above
  another is proved of this list (`OidsLieApart`): an oid tells by its length and two
  of its numbers which object is there (`ObjectAt`);
- the tree, `TreeInv`: every object registered so far has all its nodes and every node
  belongs to one of them, so the nodes never exceed `AllNodes` and no registration stops
  half-way. An inner node holds no object because no oid lies above another. When the
  list is used up, `find_oid_object` finds each object and nothing else (`Found`);
- the objects, `MibIsOwn` with `Types`: it is inductive because the setter takes its
  indices from the oid just stored (`FixOid`), and what it hits besides is `smeared`;
- a read, `GetInv` with `NodesOK`: while a get is in work each value read is still the
  one set last, or the tuner's zeros, and `data_buf` holds the bytes of the last. All
  values of a reply point there, so that only the last one is right; the others are
  claimed to have their own lengths. The length of a node comes
  from the table's first one, so what is set last under a node must be a whole piece of
  a table (`PieceSize`);
- the reply: a pass that picks from a list picks its members in order (`PickedFacts`),
  used for the errors and for the values of a get. A reply is sent when every binding
  was seen or one could not be decoded, and what was seen are those before it.

Only model-checked, because liveness is outside this prover: `SessionExpires`,
`BusyEnds`, `EveryBlockGot`, `EveryChannelReported`, `SavesComplete`, `CallsEnd`,
`ChipRecovers`, `SendsAgain`, `ListReachesCard`, `CardGetsReady`. Every invariant and
action property of the runs has its theorem.

## What the model follows although a comment says otherwise

The models do what the code does. Where a comment or the evident intent differs:

- `wu_snmp_lib.c:538` "error if current in front panel mode or not login": the
  test reads only the login status, so a set may be accepted in the front panel
  mode after the race that `FpExclusive` names.
- `message_queue.c:192` "sleep every 100 ms, then check the list": the loop
  checks first and sleeps last, so a message put during the last sleep waits for
  the next call.
- `psi_worker.c:95`: two requests may both pass the busy test.
- `psi_parse.c:88` clears section `SDT_SECTION_NUM`, which is section 0 of the
  next channel: sdt sections of an earlier parse may stay.
- `io_table.c:37` stops at the first illegal pid: a program without PCR hides
  its streams' pids, and `pick_free_pid` takes one that is in use for free. `io_table.c:272`: a refused write has changed others.
- `program_pid_validater.c:34` lets a data entry have 0x0000 or the value of an unused
  entry, although neither is legal. Other programs of the channel that have the
  stream follow, with their PCR too, and such a program is refused when it is written
  back with what was offered; `front_panel_psi_gen.c:170` leaves the stream out of the PMT
  while the pid map still sends it.
- `pid_map_table.c:147`: the product of one channel maps the PMTs' pids and no stream.
- `wu_snmp_lib.c:448`: of several values read in one request all carry the bytes
  of the last. `xmux_snmp.c:613`: EIT works on the sections of SDT.
- `wu_snmp_lib.c:462`: a binding that cannot be decoded is dropped with all after it, and
  the reply says noError all the same. `xmux_snmp.c:387`: the tuner objects report no
  failure; a read the MCU did not answer gives zeros (`xmux_tunner.c:12`).
- `query_ci.c:699` sends one program fewer than the maximum; `cipmt.c:294` sends
  the first program of a list under the mark of a later one.
- `output_psi_data.c:34` refuses a container that is exactly full.

The properties are stated so that they hold of the code as it is, by excluding such a
case or by claiming only what is left, and each says so. Several hazards in
`PROJECT.json` are handled nowhere in the code and no property can be expected to
hold of them; they are listed with a note and without a property.

Hazards seen that no property is about, because the code handles them nowhere or
their outcome lies outside the source: the main loop may cancel a login that
arrives between its test and its write (`xmux_snmp.c:818`); a stop without a
parse aborts the next one (`psi_parse.c:338`); a decoder that reported one program
too many would write past the slots (`psi_parse.c:184`); proposals from program 32
on overlap the next channel's (`pid_map_rule.c:32`); buffers leak with every apply
(`output_psi_data.c:174`, in the model, which then takes the early return);
`mux_program_info_set` does not save (`xmux_snmp.c:377`); programs taken before the
card is ready are lost (`query_ci.c:602`); the length field of a long CA PMT
overwrites its first bytes (`cipmt.c:415`); the address of the 2 s register lacks a
digit (`host_fpga.h:30`); the read loop does not end without synchronisation
(`host_fpga.c:341`); sixteen binding slots without a test (`wu_snmp_lib.c:471`); a
request of another method is answered with the last reply (`wu_snmp_lib.c:760`).

## Not modelled

- The vendor's tuner library (`libtunner/`, 15,000 lines of register sequences),
  the bget allocator, net-snmp and its headers, copies of kernel headers
  (`pci.h`), the SI decoder's library, the GTK simulator and the tools. These
  make up most of the lines of the repository; they have no state of the
  multiplexer's own, and what the firmware needs of them is modelled as external
  where it is called. They are the reason why the modelled share of all lines is
  small.
- The lengths of BER coded data and the sizes of the response buffers in
  `wu_snmp_lib.c` (`com_atom_fix_data` moves overlapping data with `memcpy`);
  bindings beyond the sixteen slots; the serial framing of the panel.
- `section.c:144` and what else reads sections back (`output_psi_2_snmp_section`,
  `ts_pop_section`, `ts_to_section`), `wuswait`, `ctrl_mcu_run` and
  `fp_select_program`: no caller in the firmware.
- The CI card's attribute memory, menus, the splitting of a CA PMT in two frames
  and its length fields; cards in the other products, which do not start the
  library.
- GPIO, tty settings, network ioctls: single accesses to devices.
- Names and descriptors are left out as data. `ProgramSelect` starts from a
  parse, not from a table loaded from the EEPROM, and assumes that no PMT shares
  its pid with an elementary stream.

## Plan

The modules were written in the order of the table above, the front panel and the
agent first. What could follow: that `DecodesRight` holds for every oid whose numbers
are below `SUBID_MAX`, for which the decoder would have to be stated without a fold;
the lengths of the BER coding; and the program table as it is loaded from the EEPROM,
which would join `ProgramSelect` and `SavedConfig`.
